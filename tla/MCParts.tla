------------------------------ MODULE MCParts ------------------------------
(***************************************************************************)
(* One instance for seven components that have no variable in common.      *)
(* Their interleavings would add nothing to what can be said of each, so   *)
(* part says which of them moves in a behaviour, and the others keep their *)
(* initial state: the state space is the sum of theirs, not the product.   *)
(*                                                                         *)
(* ReadState comes twice: several messages with one fetch of the list, and *)
(* one message with overlapping fetches.                                   *)
(***************************************************************************)
EXTENDS ReadState, Schedules, ScheduleCalendar, Typing, SignIn, RoomCreator, RoomEditor

CONSTANTS h1, h2, p1, c1, n1, n2, d1, d2, t1, t2, u1, u2, a1, a2, s1, s2,
          k1, k2, e1, e2, x, y

VARIABLE part  \* the component that moves

McEdits == {<<n1, Keep>>, <<Keep, 2>>}

McHours == {12}

Parts == {"read", "fetches", "schedules", "calendar", "typing", "signin", "creator", "editor"}

\* Bounds: what only one of the two instances of ReadState does.
Narrowed ==
    /\ part = "read" => opens' <= 1
    /\ part = "fetches" => Len(msgs') <= 1

partsVars == <<part, readVars, schedVars, calVars, typVars, signVars, creatorVars, editorVars>>

PartsInit ==
    /\ part \in Parts
    /\ ReadInit /\ SchedInit /\ CalInit /\ TypInit /\ SignInit /\ CreatorInit /\ EditorInit
    /\ room = [text |-> x, date |-> 3]

PartsNext ==
    /\ UNCHANGED part
    /\ \/ /\ part \in {"read", "fetches"} /\ ReadNext /\ Narrowed
          /\ UNCHANGED <<schedVars, calVars, typVars, signVars, creatorVars, editorVars>>
       \/ /\ part = "schedules" /\ SchedNext
          /\ UNCHANGED <<readVars, calVars, typVars, signVars, creatorVars, editorVars>>
       \/ /\ part = "calendar" /\ CalNext
          /\ UNCHANGED <<readVars, schedVars, typVars, signVars, creatorVars, editorVars>>
       \/ /\ part = "typing" /\ TypNext
          /\ UNCHANGED <<readVars, schedVars, calVars, signVars, creatorVars, editorVars>>
       \/ /\ part = "signin" /\ SignNext
          /\ UNCHANGED <<readVars, schedVars, calVars, typVars, creatorVars, editorVars>>
       \/ /\ part = "creator" /\ CreatorNext
          /\ UNCHANGED <<readVars, schedVars, calVars, typVars, signVars, editorVars>>
       \/ /\ part = "editor" /\ EditorNext
          /\ UNCHANGED <<readVars, schedVars, calVars, typVars, signVars, creatorVars>>

\* In the behaviours of another component the typing timers are not set.
PartsSpec == PartsInit /\ [][PartsNext]_partsVars /\ TypFairness

\* Each component keeps its types.
PartsTypeOK ==
    CASE part \in {"read", "fetches"} -> ReadTypeOK
      [] part = "schedules" -> SchedTypeOK
      [] part = "calendar" -> CalTypeOK
      [] part = "typing" -> TypTypeOK
      [] part = "signin" -> SignTypeOK
      [] part = "creator" -> CreatorTypeOK
      [] part = "editor" -> EditorTypeOK

=============================================================================
