-------------------------------- MODULE RoomEditor --------------------------------
(***************************************************************************)
(* GroupRoomEditor and updateGroupRoom.  The form is filled in when its    *)
(* page is rendered and sends every field of it, touched or not, when it   *)
(* is saved; tabs of the owner, and of the owner before a transfer, have a *)
(* form each.                                                              *)
(*                                                                         *)
(* Of the fields, one is a text (descriptions, category, limit and address *)
(* go the same way; a name goes so too but is never empty) and one the     *)
(* date.  Images are sent on their own (MediaStore).  Dates are hours.     *)
(***************************************************************************)
EXTENDS Integers, FiniteSets

CONSTANTS
    Editors,  \* tabs with a GroupRoomEditor
    Texts,    \* what a field may hold
    Hours,    \* bound: the dates that are chosen
    Offset,   \* hours the browser's clock is ahead of UTC
    Blank,    \* an empty field; null in the database
    Closed,   \* the tab has no form
    MaxSaves, \* bound: edits that reach the database
    MaxEditFaults \* bound: saves that fail, or whose answer is lost

ASSUME EditorAssumption ==
    /\ Offset \in Int /\ Hours \subseteq Int /\ Blank \notin Int \cup Texts
    /\ {MaxSaves, MaxEditFaults} \subseteq Nat

VARIABLES
    room,       \* the row being edited
    draft,      \* draft[e]: the fields on the screen, those loaded, those being sent
    saves,      \* history: edits that reached the database
    editFaults, \* history: failures so far
    said,       \* history: what was last typed into each field and saved
    overrun     \* history: the fields a form has since written that nobody typed into it

editorVars == <<room, draft, saves, editFaults, said, overrun>>

EditorInit ==
    /\ room \in [text : Texts \cup {Blank}, date : {l - Offset : l \in Hours} \cup {Blank}]
    /\ draft = [e \in Editors |-> Closed]
    /\ saves = 0 /\ editFaults = 0
    /\ said = room /\ overrun = {}

\* toISOString().slice(0, 16): the time in UTC, which the input takes for local.
ToInput(d) == d

\* A plausible bug: the input's string is sent as if it were UTC.
ToInstant_Utc(l) == l

\* new Date(date).toISOString(): the input's time is local.
ToInstant(l) == IF l = Blank THEN Blank ELSE l - Offset

\* The instant that the one who chose a time in the form means by it.
Meant(l) == IF l = Blank THEN Blank ELSE l - Offset

\* The page is rendered.  A form loaded from a cached room that is stale is one that
\* was loaded when the room was as the cache has it.
OpenEditor(e) ==
    /\ draft[e] = Closed
    /\ draft' = [draft EXCEPT ![e] = [text |-> room.text, date |-> ToInput(room.date),
                                      loaded |-> room, touched |-> {},
                                      at |-> "form", body |-> room, wish |-> room,
                                      typed |-> {}]]
    /\ UNCHANGED <<room, saves, said, overrun, editFaults>>

\* onChange; nothing disables the inputs.
TypeText(e, t) ==
    /\ draft[e] # Closed /\ draft[e].text # t
    /\ draft' = [draft EXCEPT ![e].text = t, ![e].touched = @ \cup {"text"}]
    /\ UNCHANGED <<room, saves, said, overrun, editFaults>>

TypeDate(e, l) ==
    /\ draft[e] # Closed /\ draft[e].date # l
    /\ draft' = [draft EXCEPT ![e].date = l, ![e].touched = @ \cup {"date"}]
    /\ UNCHANGED <<room, saves, said, overrun, editFaults>>

\* handleSave: a field that is empty is not sent.
ClickSave(e) ==
    /\ draft[e] # Closed /\ draft[e].at = "form"
    /\ saves + Cardinality({k \in Editors : draft[k] # Closed /\ draft[k].at = "save"}) < MaxSaves
    /\ draft' = [draft EXCEPT
                    ![e].at = "save",
                    ![e].body = [text |-> draft[e].text, date |-> ToInstant(draft[e].date)],
                    ![e].wish = [text |-> draft[e].text, date |-> Meant(draft[e].date)],
                    ![e].typed = draft[e].touched]
    /\ UNCHANGED <<room, saves, said, overrun, editFaults>>

\* room.update; what is undefined stays.
Saved(e) ==
    LET sent == {f \in DOMAIN room : draft[e].body[f] # Blank} IN
    /\ room' = [f \in DOMAIN room |-> IF f \in sent THEN draft[e].body[f] ELSE room[f]]
    /\ saves' = saves + 1
    /\ said' = [f \in DOMAIN room |->
                  IF f \in sent \cap draft[e].typed THEN draft[e].wish[f] ELSE said[f]]
    /\ overrun' = (overrun \ (sent \cap draft[e].typed))
                     \cup {f \in sent \ draft[e].typed : draft[e].loaded[f] # room[f]
                                                         \/ (f = "date" /\ Offset # 0)}

\* finally: setIsLoading(false).
Enabled(e) ==
    [draft[e] EXCEPT !.at = "form", !.typed = {},
                     !.body = draft[e].loaded, !.wish = draft[e].loaded]

\* router.push and finally: until the room's page is there, which CloseEditor is, the
\* form is on the screen and can be typed into and saved again.
SaveDone(e) ==
    /\ draft[e] # Closed /\ draft[e].at = "save"
    /\ Saved(e)
    /\ draft' = [draft EXCEPT ![e] = Enabled(e)]
    /\ UNCHANGED editFaults

\* The form stays as it is, whether or not the room was updated.
SaveFails(e) ==
    /\ draft[e] # Closed /\ draft[e].at = "save"
    /\ editFaults < MaxEditFaults
    /\ editFaults' = editFaults + 1
    /\ Saved(e) \/ UNCHANGED <<room, saves, said, overrun>>
    /\ draft' = [draft EXCEPT ![e] = Enabled(e)]

\* router.back, a link, or the end of router.push.  A page that is left while it saves
\* stands until the answer comes.
CloseEditor(e) ==
    /\ draft[e] # Closed /\ draft[e].at = "form"
    /\ draft' = [draft EXCEPT ![e] = Closed]
    /\ UNCHANGED <<room, saves, said, overrun, editFaults>>

EditorNext ==
    \E e \in Editors :
        \/ OpenEditor(e)
        \/ \E t \in Texts \cup {Blank} : TypeText(e, t)
        \/ \E l \in Hours \cup {Blank} : TypeDate(e, l)
        \/ ClickSave(e) \/ SaveDone(e) \/ SaveFails(e) \/ CloseEditor(e)

EditorSpec == EditorInit /\ [][EditorNext]_editorVars

-----------------------------------------------------------------------------
Fields == [text : Texts \cup {Blank}, date : Int \cup {Blank}]

\* Room and forms have their types.
EditorTypeOK ==
    /\ {room, said} \subseteq Fields /\ overrun \subseteq DOMAIN room
    /\ {saves, editFaults} \subseteq Nat
    /\ \A e \in Editors : draft[e] # Closed =>
         /\ {draft[e].body, draft[e].loaded, draft[e].wish} \subseteq Fields
         /\ [text |-> draft[e].text, date |-> draft[e].date] \in Fields
         /\ draft[e].typed \subseteq draft[e].touched /\ draft[e].touched \subseteq DOMAIN room

\* Each field of the room is what was last typed into it and saved, though an emptied
\* one keeps its value, unless another form, older than that, has since been saved;
\* the date also does not survive the next form when the browser is not on UTC.
EditsKept == \A f \in DOMAIN room : room[f] = said[f] \/ f \in overrun

=============================================================================
