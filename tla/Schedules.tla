------------------------------- MODULE Schedules -------------------------------
(***************************************************************************)
(* The schedules of one GROUP room: SchedulesService with its three plain  *)
(* operations and the command in natural language, which reads the list,   *)
(* waits seconds for Claude and then writes to what it read.  Every await  *)
(* is an action; a handler sits in a slot of Plain or Commands.  A         *)
(* schedule of another room reads as one that does not exist.              *)
(*                                                                         *)
(* What Claude answers is any JSON it can be, whatever was asked: the code *)
(* carries out the type it finds in the answer.                            *)
(***************************************************************************)
EXTENDS Naturals, Sequences, SequencesExt, FiniteSets

CONSTANTS
    Hosts,     \* users one of whom owns the room
    Creator,   \* the first of them
    Plain,     \* slots for createSchedule, updateSchedule, deleteSchedule
    Commands,  \* slots for processAiSchedule
    MaxMade,   \* bound: schedules ever made
    MaxMoves,  \* bound: transfers of the room
    Names,
    MaxTime,   \* bound: times are 1..MaxTime
    Edits,     \* bound: the pairs of a name and a time that updateSchedule is given
    Fresh,     \* no schedule has this id yet
    Gone,      \* the schedule with this id was deleted
    NoDate,    \* a date that does not parse: an Invalid Date
    Keep,      \* a field that updateSchedule was not given
    Nobody

ASSUME ScheduleAssumption ==
    /\ MaxMade \in Nat /\ MaxTime \in Nat
    /\ NoDate \notin Nat /\ Keep \notin Nat /\ Keep \notin Names
    /\ Nobody \notin Hosts /\ Creator \in Hosts
    /\ Fresh # Gone /\ {Fresh, Gone} \cap [name : Names, time : 1..MaxTime] = {}
    /\ MaxMoves \in Nat
    /\ Edits \subseteq (Names \cup {Keep}) \X (1..MaxTime \cup {Keep})
    /\ Plain \cap Commands = {}

VARIABLES
    host,     \* who has role OWNER; Nobody: the room was deleted
    rows,     \* rows[i]: the RoomSchedule with the i-th id
    call,     \* call[j]: the handler in slot j
    moves,    \* history: transfers so far
    touched   \* history: touched[j]: the rows j has seen that others have written since

schedVars == <<host, rows, call, moves, touched>>

ScheduleIds == 1..MaxMade
Times  == 1..MaxTime
Slots  == Plain \cup Commands

Row(n, t) == [name |-> n, time |-> t]

Listed == {i \in ScheduleIds : rows[i] \notin {Fresh, Gone}}

\* What a handler is going to do: op to id, with the fields given; was is the row
\* it has in mind, list the result of findMany.
Call(at, op, id, name, time) ==
    [at |-> at, op |-> op, id |-> id, name |-> name, time |-> time,
     was |-> Gone, list |-> <<>>]

Free == Call("free", "none", 0, Keep, Keep)

SchedInit ==
    /\ host = Creator
    /\ moves = 0
    /\ rows = [i \in ScheduleIds |-> Fresh]
    /\ call = [j \in Slots |-> Free]
    /\ touched = [j \in Slots |-> {}]

Begin(j, c) ==
    /\ call[j] = Free
    /\ call' = [call EXCEPT ![j] = c]

\* The handler answers or throws.
End(j) ==
    /\ call' = [call EXCEPT ![j] = Free]
    /\ touched' = [touched EXCEPT ![j] = {}]

-----------------------------------------------------------------------------
(* createSchedule, updateSchedule, deleteSchedule.                         *)

\* assertOwner: the row with role OWNER, whatever leftAt says.
AssertOwner(u) == host # Nobody /\ u = host

CreateSchedule(j, u, n, t) ==
    /\ AssertOwner(u)
    /\ Begin(j, Call("write", "create", 0, n, t))
    /\ UNCHANGED <<host, moves, rows, touched>>

UpdateSchedule(j, u, i, n, t) ==
    /\ AssertOwner(u)
    /\ Begin(j, Call("check", "update", i, n, t))
    /\ UNCHANGED <<host, moves, rows, touched>>

DeleteSchedule(j, u, i) ==
    /\ AssertOwner(u)
    /\ Begin(j, Call("check", "delete", i, Keep, Keep))
    /\ UNCHANGED <<host, moves, rows, touched>>

\* A plausible bug: only an id that was never used is refused.
AssertExists_Stale(j) ==
    /\ call[j].at = "check"
    /\ IF rows[call[j].id] # Fresh
       THEN /\ call' = [call EXCEPT ![j].at = "write", ![j].was = rows[call[j].id]]
            /\ UNCHANGED touched
       ELSE End(j)
    /\ UNCHANGED <<host, moves, rows>>

\* assertScheduleExists: 404 for what is not there.
AssertExists(j) ==
    /\ call[j].at = "check"
    /\ IF call[j].id \in Listed
       THEN /\ call' = [call EXCEPT ![j].at = "write", ![j].was = rows[call[j].id]]
            /\ UNCHANGED touched
       ELSE End(j)
    /\ UNCHANGED <<host, moves, rows>>

-----------------------------------------------------------------------------
(* processAiSchedule, applyScheduleAction, findMatchingSchedule.           *)

AskClaude(j, u) ==
    /\ AssertOwner(u)
    /\ Begin(j, Call("list", "none", 0, Keep, Keep))
    /\ UNCHANGED <<host, moves, rows, touched>>

ByTime(s) == \A k \in 1..(Len(s) - 1) : s[k].time <= s[k + 1].time

\* orderBy time: rows of one time come in any order.
ReadSchedules(j) ==
    /\ call[j].at = "list"
    /\ \E s \in SetToSeqs({[id |-> i, name |-> rows[i].name, time |-> rows[i].time]
                           : i \in Listed}) :
         /\ ByTime(s)
         /\ call' = [call EXCEPT ![j].at = "reply", ![j].list = s]
    /\ UNCHANGED <<host, moves, rows, touched>>

Distance(a, b) == IF a < b THEN b - a ELSE a - b

\* No comparison with an Invalid Date holds.
Nearer(t, x, y) == t # NoDate /\ Distance(x.time, t) < Distance(y.time, t)

\* reduce over the schedules of s at the positions of K: where the first of those nearest
\* is, 0 if there is none.
Closest(s, K, t) ==
    LET best[k \in 0..Len(s)] ==
            IF k = 0 THEN 0
            ELSE IF k \in K /\ (best[k - 1] = 0 \/ Nearer(t, s[k], s[best[k - 1]])) THEN k
            ELSE best[k - 1]
    IN  best[Len(s)]

\* A plausible bug: the nearest of all, the name not being looked at.
FindMatch_AnyName(s, n, t) == {s[k] : k \in {Closest(s, 1..Len(s), t)} \ {0}}

\* findMatchingSchedule, as a set of at most one: the nearest of those with the name;
\* when there is none, the nearest of all.
FindMatch(s, n, t) ==
    LET named == {k \in 1..Len(s) : s[k].name = n}
        among == IF named # {} THEN named ELSE 1..Len(s)
    IN  {s[k] : k \in {Closest(s, among, t)} \ {0}}

\* What is going to be written, to x of the list.
Aim(j, op, x, n, t) ==
    /\ touched' = [touched EXCEPT ![j] = @ \cap {x.id}]
    /\ call' = [call EXCEPT ![j].at = "write", ![j].op = op, ![j].id = x.id, ![j].name = n,
                            ![j].time = t, ![j].was = Row(x.name, x.time), ![j].list = <<>>]
    /\ UNCHANGED <<host, moves, rows>>

ClaudeAdds(j, n, t) ==
    /\ call[j].at = "reply"
    /\ t # NoDate
    /\ call' = [call EXCEPT ![j] = Call("write", "create", 0, n, t)]
    /\ touched' = [touched EXCEPT ![j] = {}]
    /\ UNCHANGED <<host, moves, rows>>

ClaudeChanges(j, n, t, new) ==
    /\ call[j].at = "reply"
    /\ new # NoDate
    /\ \E x \in FindMatch(call[j].list, n, t) : Aim(j, "update", x, n, new)

ClaudeCancels(j, n, t) ==
    /\ call[j].at = "reply"
    /\ \E x \in FindMatch(call[j].list, n, t) : Aim(j, "delete", x, Keep, Keep)

\* No JSON, no match, a type or a new date that is none, or the call failed.
ClaudeFails(j) ==
    /\ call[j].at \in {"list", "reply"}
    /\ End(j)
    /\ UNCHANGED <<host, moves, rows>>

-----------------------------------------------------------------------------
(* The last call of each handler.                                          *)

\* The rows a handler has seen, by the check or in the list.
Seen(j) ==
    {call[j].list[k].id : k \in 1..Len(call[j].list)}
        \cup (IF call[j].at = "write" /\ call[j].op # "create" THEN {call[j].id} ELSE {})

\* The foreign key refuses a schedule of a room that is gone.
WriteCreate(j, i) ==
    /\ call[j].at = "write" /\ call[j].op = "create"
    /\ rows[i] = Fresh /\ \A k \in 1..(i - 1) : rows[k] # Fresh
    /\ rows' = IF host = Nobody THEN rows
               ELSE [rows EXCEPT ![i] = Row(call[j].name, call[j].time)]
    /\ End(j)
    /\ UNCHANGED <<host, moves>>

Given(new, old) == IF new = Keep THEN old ELSE new

\* An update or delete of a row that is gone throws.
WriteRow(j) ==
    /\ call[j].at = "write" /\ call[j].op # "create"
    /\ LET c == call[j] IN
         /\ rows' = IF c.id \notin Listed THEN rows
                    ELSE [rows EXCEPT ![c.id] =
                            IF c.op = "delete" THEN Gone
                            ELSE Row(Given(c.name, @.name), Given(c.time, @.time))]
         /\ touched' = [k \in Slots |-> IF k = j THEN {}
                                        ELSE touched[k] \cup ({c.id} \cap Listed \cap Seen(k))]
    /\ call' = [call EXCEPT ![j] = Free]
    /\ UNCHANGED <<host, moves>>

-----------------------------------------------------------------------------
(* RoomMembersService and RoomsService, as far as schedules look at them.  *)

TransferRoom(u) ==
    /\ host # Nobody /\ u # host /\ moves < MaxMoves
    /\ host' = u
    /\ moves' = moves + 1
    /\ UNCHANGED <<rows, call, touched>>

\* A plausible bug: the schedules are not deleted along with the room.
RemoveRoom_NoCascade ==
    /\ host # Nobody
    /\ host' = Nobody
    /\ UNCHANGED <<rows, call, moves, touched>>

\* ON DELETE CASCADE.
RemoveRoom ==
    /\ host # Nobody
    /\ host' = Nobody
    /\ rows' = [i \in ScheduleIds |-> IF i \in Listed THEN Gone ELSE rows[i]]
    /\ touched' = [k \in Slots |-> touched[k] \cup (Listed \cap Seen(k))]
    /\ UNCHANGED <<call, moves>>

SchedNext ==
    \/ \E j \in Plain, u \in Hosts :
        \/ \E n \in Names, t \in Times : CreateSchedule(j, u, n, t)
        \/ \E i \in ScheduleIds :
            \/ \E e \in Edits : UpdateSchedule(j, u, i, e[1], e[2])
            \/ DeleteSchedule(j, u, i)
    \/ \E j \in Plain : AssertExists(j)
    \/ \E j \in Commands :
        \/ \E u \in Hosts : AskClaude(j, u)
        \/ ReadSchedules(j)
        \/ \E n \in Names, t \in Times \cup {NoDate} :
            \/ ClaudeAdds(j, n, t)
            \/ \E new \in Times : ClaudeChanges(j, n, t, new)
            \/ ClaudeCancels(j, n, t)
        \/ ClaudeFails(j)
    \/ \E j \in Slots :
        \/ \E i \in ScheduleIds : WriteCreate(j, i)
        \/ WriteRow(j)
    \/ \E u \in Hosts : TransferRoom(u)
    \/ RemoveRoom

SchedSpec == SchedInit /\ [][SchedNext]_schedVars

-----------------------------------------------------------------------------
Rows == [name : Names, time : Times]

\* Rows and handlers have their types; ids are given out in order.
SchedTypeOK ==
    /\ host \in Hosts \cup {Nobody}
    /\ rows \in [ScheduleIds -> Rows \cup {Fresh, Gone}]
    /\ \A i \in ScheduleIds : rows[i] # Fresh => \A k \in 1..i : rows[k] # Fresh
    /\ call \in [Slots -> [at : {"free", "check", "list", "reply", "write"},
                           op : {"none", "create", "update", "delete"},
                           id : ScheduleIds \cup {0},
                           name : Names \cup {Keep},
                           time : Times \cup {Keep},
                           was : Rows \cup {Gone},
                           list : Seq([id : ScheduleIds, name : Names, time : Times])]]
    /\ \A j \in Slots : touched[j] \subseteq Seen(j)

\* The row a handler is about to change or delete is there, as the handler saw it,
\* though that was seconds ago in the list it sent to Claude, unless another handler
\* has written that row in the meantime.
TargetAsSeen ==
    \A j \in Slots :
        call[j].at = "write" /\ call[j].op # "create" =>
            \/ call[j].id \in Listed /\ rows[call[j].id] = call[j].was
            \/ call[j].id \in touched[j]

\* No schedule outlives its room, though a create may be under way when it goes.
NoScheduleWithoutRoom == host = Nobody => Listed = {}

\* For every answer about the list it was sent, the schedule chosen is one of those
\* with the name if there are any, none of these is nearer, and the ones before it
\* in the list are further away.  A date that does not parse chooses the first.
MatchIsClosest ==
    \A j \in Commands : call[j].at = "reply" =>
        \A n \in Names, t \in Times \cup {NoDate} :
            LET s == call[j].list
                asked == {k \in 1..Len(s) : s[k].name = n}
                among == IF asked = {} THEN 1..Len(s) ELSE asked
            IN  FindMatch(s, n, t) =
                    {s[k] : k \in {k \in among : \A i \in among :
                        IF t = NoDate THEN k <= i
                        ELSE LET d == Distance(s[k].time, t)
                                 e == Distance(s[i].time, t)
                             IN  d < e \/ (d = e /\ k <= i)}}

=============================================================================
