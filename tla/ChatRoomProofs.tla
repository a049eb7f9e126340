--------------------------- MODULE ChatRoomProofs ----------------------------
(***************************************************************************)
(* Proofs about ChatRoom, for any users, watchers, handlers and messages:  *)
(* what a list shows was written, a list at rest agrees with the table,    *)
(* and messages are shown in the order they were written in.               *)
(***************************************************************************)
EXTENDS ChatRoom, FiniteSetTheorems, SequenceTheorems, TLAPS

-----------------------------------------------------------------------------
(* Types, and what a handler holds.                                        *)

Awaits ==
    {"idle", "joinAssert", "joinRead", "joinReply", "create", "update", "findOwner",
     "softDelete", "emit"}

\* What send, edit and delete announce, and the message it is about.
Announcements ==
    [kind : {"new-message", "message-edited"}, row : Message]
    \cup [kind : {"message-deleted"}, id : Ids]

About(e) == IF e.kind = "message-deleted" THEN e.id ELSE e.row.id

Handlers ==
    [at : Awaits, by : Users \cup {None}, msg : 0..MaxMsgs,
     out : Seq(Message) \cup Seq(Announcements)]

\* The row is of the table, or was.
Written(row) ==
    /\ row.id \in Sent
    /\ row.by = table[row.id].by
    /\ row.text <= table[row.id].text
    /\ row.files => table[row.id].files
    /\ row.deleted => table[row.id].deleted

AllWritten(rows) == \A i \in DOMAIN rows : Written(rows[i])

\* What an event shows was written.
Honest(e) ==
    /\ e.kind = "room-joined" => AllWritten(e.rows)
    /\ e.kind \in {"new-message", "message-edited"} => Written(e.row)
    /\ e.kind = "message-deleted" => e.id \in Sent /\ table[e.id].deleted

Holding(w) ==
    /\ w.at # "idle" => w.by \in Users
    /\ w.at \in JoinAwaits => w.by \in Watchers
    /\ w.at = "joinReply" => w.out \in Seq(Message) /\ AllWritten(w.out)
    /\ w.at \in {"update", "findOwner", "softDelete"} => w.msg \in Sent
    /\ w.at = "emit" =>
          /\ w.msg \in Sent
          /\ w.out \in Seq(Announcements) /\ Len(w.out) = 1
          /\ About(w.out[1]) = w.msg /\ Honest(w.out[1])

Types ==
    /\ table \in Seq(Message)
    /\ \A m \in Sent : table[m].id = m
    /\ present \subseteq Users
    /\ job \in [Jobs -> Handlers]
    /\ link \in [Watchers -> {"off", "joined"}]
    /\ wire \in [Watchers -> Seq(Events)]
    /\ view \in [Watchers -> Seq(Message)]
    /\ loaded \in [Watchers -> BOOLEAN]
    /\ contended \in [Watchers -> SUBSET Ids]
    /\ oldest \in [Watchers -> Ids]
    /\ crossed \subseteq Ids

HandlersHold == \A j \in Jobs : Holding(job[j])

Creators   == {j \in Jobs : job[j].at = "create"}
Editors(m) == {j \in Jobs : job[j].at = "update" /\ job[j].msg = m}

\* The bounds have a message, and an edit, left for every handler that writes one.
BoundsLast ==
    /\ Len(table) + Cardinality(Creators) <= MaxMsgs
    /\ \A m \in Sent : table[m].text + Cardinality(Editors(m)) <= MaxEdits

AllHonest ==
    \A u \in Watchers :
        /\ AllWritten(view[u])
        /\ \A k \in 1..Len(wire[u]) : Honest(wire[u][k])

-----------------------------------------------------------------------------
(* The connection.                                                         *)

\* The list u joined with is on its way.
Loading(u) == \E k \in 1..Len(wire[u]) : wire[u][k].kind = "room-joined"

\* A connection has one join, and one list.
Connections ==
    \A u \in Watchers :
        /\ link[u] = "off" => wire[u] = <<>> /\ ~loaded[u] /\ ~Joining(u)
        /\ Joining(u) => ~loaded[u] /\ ~Loading(u)
        /\ loaded[u] => ~Loading(u)
        /\ \A k, h \in 1..Len(wire[u]) :
              wire[u][k].kind = "room-joined" /\ wire[u][h].kind = "room-joined" => k = h
        /\ \A i, j \in Jobs :
              /\ job[i].by = u /\ job[i].at \in JoinAwaits
              /\ job[j].by = u /\ job[j].at \in JoinAwaits
              => i = j

-----------------------------------------------------------------------------
(* Lists.                                                                  *)

\* The rows have one line of the message, and as the table has it.
Right(rows, m) ==
    \E i \in DOMAIN rows :
        /\ rows[i].id = m
        /\ Shows(rows[i], table[m])
        /\ \A k \in DOMAIN rows : rows[k].id = m => k = i

\* What the list makes of a deleted row.
Deleted(row) == [row EXCEPT !.deleted = TRUE]

\* They will when the event has been shown.
Ready(rows, m, e) ==
    /\ e.kind = "new-message" =>
          /\ \A k \in DOMAIN rows : rows[k].id # m
          /\ Shows(e.row, table[m])
    /\ e.kind = "message-edited" =>
          /\ \E i \in DOMAIN rows :
                /\ rows[i].id = m
                /\ \A k \in DOMAIN rows : rows[k].id = m => k = i
          /\ Shows(e.row, table[m])
    /\ e.kind = "message-deleted" =>
          \E i \in DOMAIN rows :
             /\ rows[i].id = m
             /\ Shows(Deleted(rows[i]), table[m])
             /\ \A k \in DOMAIN rows : rows[k].id = m => k = i

Emitting(i, m) == job[i].at = "emit" /\ job[i].msg = m

\* Of a message nothing crossed about for u there is one announcement to come at most;
\* the rows are right when it has been shown, and right as they are when none is to come.
RightFor(rows, m) ==
    /\ \A i, j \in Jobs : Emitting(i, m) /\ Emitting(j, m) => i = j
    /\ \A i \in Jobs : Emitting(i, m) => Ready(rows, m, job[i].out[1])
    /\ (\A i \in Jobs : ~Emitting(i, m)) => Right(rows, m)

Good(u, rows, first) ==
    /\ \A i \in DOMAIN rows : rows[i].id \in Sent
    /\ \A m \in Sent : m >= first /\ m \notin contended[u] => RightFor(rows, m)

Ordered(u, rows) ==
    \A i, k \in DOMAIN rows :
        LET m == rows[i].id
            n == rows[k].id
        IN m < n /\ {m, n} \cap contended[u] = {} /\ n \notin crossed => i < k

First(rows) == IF rows = <<>> THEN 1 ELSE rows[1].id

\* f[k] is the list when k events of the wire have been handled.
Track(u, f) ==
    /\ f \in [0..Len(wire[u]) -> Seq(Message)]
    /\ f[0] = view[u]
    /\ \A k \in 1..Len(wire[u]) : f[k] = Shown(f[k - 1], wire[u][k])

\* The list is loaded when k events have been handled.
LoadedAt(u, k) == loaded[u] \/ \E h \in 1..k : wire[u][h].kind = "room-joined"

\* The lists to come are in order, and the last of them is good.
Agrees(u) ==
    \E f : /\ Track(u, f)
           /\ \A k \in 0..Len(wire[u]) : LoadedAt(u, k) => Ordered(u, f[k])
           /\ LoadedAt(u, Len(wire[u])) => Good(u, f[Len(wire[u])], oldest[u])

\* So is the list that a join has read.
WellRead(w) ==
    w.at = "joinReply" => Ordered(w.by, w.out) /\ Good(w.by, w.out, First(w.out))

ListsAgree ==
    /\ \A u \in Watchers : Agrees(u)
    /\ \A j \in Jobs : WellRead(job[j])

\* What was written while a new message awaits its announcement has crossed it.
LaterCrossed ==
    \A j \in Jobs : job[j].at = "emit" /\ job[j].out[1].kind = "new-message" =>
        \A n \in Sent : n > job[j].msg => n \in crossed

ChatInv ==
    /\ Types
    /\ HandlersHold
    /\ BoundsLast
    /\ AllHonest
    /\ Connections
    /\ ListsAgree
    /\ LaterCrossed

-----------------------------------------------------------------------------
(* Sequences, and what ChatPanel's handlers make of a list.                *)

LEMMA AppendFacts ==
    ASSUME NEW S, NEW s \in Seq(S), NEW e \in S
    PROVE  /\ Append(s, e) \in Seq(S)
           /\ Len(s) \in Nat /\ Len(Append(s, e)) = Len(s) + 1
           /\ \A i \in 1..Len(s) : Append(s, e)[i] = s[i]
           /\ Append(s, e)[Len(s) + 1] = e
  OBVIOUS

LEMMA RowsDomain ==
    ASSUME NEW S, NEW rows \in Seq(S) PROVE DOMAIN rows = 1..Len(rows) /\ Len(rows) \in Nat
  OBVIOUS

\* A list that keeps its length is a list.
LEMMA SameLength ==
    ASSUME NEW S, NEW rows \in Seq(S), NEW new,
           new = [i \in DOMAIN rows |-> new[i]], \A i \in DOMAIN rows : new[i] \in S
    PROVE  new \in Seq(S) /\ Len(new) = Len(rows)
<1>1. new \in [1..Len(rows) -> S] /\ Len(rows) \in Nat
  BY RowsDomain
<1> QED
  BY <1>1, SeqDef

\* What the events make of a list.
LEMMA ShownJoined ==
    ASSUME NEW rows, NEW e, e.kind = "room-joined" PROVE Shown(rows, e) = e.rows
  BY DEF Shown

LEMMA ShownNew ==
    ASSUME NEW rows, NEW e, e.kind = "new-message" PROVE Shown(rows, e) = Append(rows, e.row)
  BY DEF Shown

LEMMA ShownEdited ==
    ASSUME NEW rows \in Seq(Message), NEW e, e.kind = "message-edited", e.row \in Message
    PROVE  /\ Shown(rows, e) \in Seq(Message) /\ DOMAIN Shown(rows, e) = DOMAIN rows
           /\ \A i \in DOMAIN rows :
                 Shown(rows, e)[i] = IF rows[i].id = e.row.id THEN e.row ELSE rows[i]
<1> DEFINE new == [i \in DOMAIN rows |-> IF rows[i].id = e.row.id THEN e.row ELSE rows[i]]
<1>1. Shown(rows, e) = new
  BY DEF Shown
<1>2. \A i \in DOMAIN rows : rows[i] \in Message
  BY RowsDomain
<1>3. new \in Seq(Message)
  BY <1>2, SameLength
<1> QED
  BY <1>1, <1>3

LEMMA ShownDeleted ==
    ASSUME NEW rows \in Seq(Message), NEW e, e.kind = "message-deleted"
    PROVE  /\ Shown(rows, e) \in Seq(Message) /\ DOMAIN Shown(rows, e) = DOMAIN rows
           /\ \A i \in DOMAIN rows :
                 Shown(rows, e)[i] = IF rows[i].id = e.id THEN Deleted(rows[i]) ELSE rows[i]
<1> DEFINE new == [i \in DOMAIN rows |->
                     IF rows[i].id = e.id THEN Deleted(rows[i]) ELSE rows[i]]
<1>1. Shown(rows, e) = new
  BY DEF Shown, Deleted
<1>2. \A i \in DOMAIN rows : rows[i] \in Message
  BY RowsDomain
<1>3. \A i \in DOMAIN rows : Deleted(rows[i]) \in Message
  BY <1>2 DEF Message, Deleted
<1>4. new \in Seq(Message)
  BY <1>2, <1>3, SameLength
<1> QED
  BY <1>1, <1>4

LEMMA EventShapes ==
    ASSUME NEW e \in Events
    PROVE  /\ e.kind \in {"new-message", "message-edited", "message-deleted", "room-joined"}
           /\ e.kind \in {"new-message", "message-edited"} => e.row \in Message
           /\ e.kind = "message-deleted" => e.id \in Ids
           /\ e.kind = "room-joined" => e.rows \in Seq(Message)
  BY DEF Events

LEMMA AnnouncementShapes ==
    ASSUME NEW e \in Announcements
    PROVE  /\ e \in Events /\ About(e) \in Ids
           /\ e.kind \in {"new-message", "message-edited", "message-deleted"}
           /\ e.kind \in {"new-message", "message-edited"} =>
                 e.row \in Message /\ About(e) = e.row.id
           /\ e.kind = "message-deleted" => e.id \in Ids /\ About(e) = e.id
  BY DEF Announcements, Events, About, Message

\* A list stays a list, and its lines go back to it and to the event.
LEMMA ShownTyped ==
    ASSUME NEW rows \in Seq(Message), NEW e \in Events
    PROVE  Shown(rows, e) \in Seq(Message)
  BY EventShapes, ShownJoined, ShownNew, ShownEdited, ShownDeleted, AppendFacts

-----------------------------------------------------------------------------
(* What was written stays written.                                         *)

\* Rows are added, edited and deleted; their sender and their files stay.
TableGrows ==
    /\ table' \in Seq(Message)
    /\ Len(table) <= Len(table')
    /\ \A m \in Sent :
          /\ table'[m].by = table[m].by
          /\ table'[m].files = table[m].files
          /\ table[m].text <= table'[m].text
          /\ table[m].deleted => table'[m].deleted

LEMMA SentGrows ==
    ASSUME table \in Seq(Message), TableGrows
    PROVE  /\ Sent \subseteq Sent'
           /\ \A m \in Sent : table[m] \in Message /\ table'[m] \in Message
<1>1. Len(table) \in Nat /\ Len(table') \in Nat
  BY DEF TableGrows
<1>2. Sent \subseteq Sent'
  BY <1>1 DEF Sent, TableGrows
<1> QED
  BY <1>2, ElementOfSeq DEF Sent, TableGrows

LEMMA StaysWritten ==
    ASSUME table \in Seq(Message), TableGrows
    PROVE  /\ \A row \in Message : Written(row) => Written(row)'
           /\ \A rows \in Seq(Message) : AllWritten(rows) => AllWritten(rows)'
           /\ \A e \in Events : Honest(e) => Honest(e)'
           /\ \A w \in Handlers : Holding(w) => Holding(w)'
<1>1. ASSUME NEW row \in Message, Written(row) PROVE Written(row)'
  <2>1. /\ row.id \in Sent /\ row.id \in Sent'
        /\ row.by = table[row.id].by /\ row.text <= table[row.id].text
        /\ row.files => table[row.id].files
        /\ row.deleted => table[row.id].deleted
    BY <1>1, SentGrows DEF Written
  <2>2. row.text <= table'[row.id].text
    <3>1. row.text \in Int /\ table[row.id].text \in Int /\ table'[row.id].text \in Int
      BY <2>1, SentGrows, ChatAssumption DEF Message
    <3>2. table[row.id].text <= table'[row.id].text
      BY <2>1 DEF TableGrows
    <3> QED
      BY <2>1, <3>1, <3>2
  <2> QED
    BY <2>1, <2>2 DEF Written, TableGrows
<1>2. ASSUME NEW rows \in Seq(Message), AllWritten(rows) PROVE AllWritten(rows)'
  BY <1>1, <1>2 DEF AllWritten
<1>3. ASSUME NEW e \in Events, Honest(e) PROVE Honest(e)'
  <2>1. e.kind = "room-joined" => AllWritten(e.rows)'
    BY <1>2, <1>3, EventShapes DEF Honest
  <2>2. e.kind \in {"new-message", "message-edited"} => Written(e.row)'
    BY <1>1, <1>3, EventShapes DEF Honest
  <2>3. e.kind = "message-deleted" => e.id \in Sent' /\ table'[e.id].deleted
    BY <1>3, SentGrows DEF Honest, TableGrows
  <2> QED
    BY <2>1, <2>2, <2>3 DEF Honest
<1>4. ASSUME NEW w \in Handlers, Holding(w) PROVE Holding(w)'
  <2>1. w.at = "joinReply" => w.out \in Seq(Message) /\ AllWritten(w.out)'
    BY <1>2, <1>4 DEF Holding
  <2>2. w.at \in {"update", "findOwner", "softDelete"} => w.msg \in Sent'
    BY <1>4, SentGrows DEF Holding
  <2>3. ASSUME w.at = "emit"
        PROVE  /\ w.msg \in Sent' /\ w.out \in Seq(Announcements) /\ Len(w.out) = 1
               /\ About(w.out[1]) = w.msg /\ Honest(w.out[1])'
    <3>1. /\ w.msg \in Sent' /\ w.out \in Seq(Announcements) /\ Len(w.out) = 1
          /\ About(w.out[1]) = w.msg /\ Honest(w.out[1])
      BY <1>4, <2>3, SentGrows DEF Holding
    <3>2. w.out[1] \in Events
      BY <3>1, AnnouncementShapes
    <3> QED
      BY <1>3, <3>1, <3>2
  <2> QED
    BY <1>4, <2>1, <2>2, <2>3 DEF Holding
<1> QED
  BY <1>1, <1>2, <1>3, <1>4

LEMMA SameTable ==
    ASSUME table \in Seq(Message), table' = table PROVE TableGrows
<1>1. \A m \in Sent : table[m] \in Message
  BY DEF Sent
<1>2. \A m \in Sent : table[m].text <= table[m].text
  BY <1>1, ChatAssumption DEF Message
<1> QED
  BY <1>2 DEF TableGrows

Base == Types /\ HandlersHold /\ BoundsLast /\ AllHonest

\* What is on the wires and the screens stays honest when the table grows.
LEMMA ViewsStayHonest ==
    ASSUME Base, TableGrows, UNCHANGED <<wire, view>> PROVE AllHonest'
<1>1. \A u \in Watchers : view[u] \in Seq(Message) /\ wire[u] \in Seq(Events)
  BY DEF Base, Types
<1>2. \A u \in Watchers : \A k \in 1..Len(wire[u]) : wire[u][k] \in Events
  BY <1>1
<1> QED
  BY <1>1, <1>2, StaysWritten DEF Base, AllHonest, Types

-----------------------------------------------------------------------------
(* Handlers that go on.                                                    *)

LEMMA IdleHolds ==
    /\ Idle \in Handlers /\ Idle.at = "idle" /\ Idle.by = None /\ Holding(Idle)
    /\ \A j : Idle.at # "emit" /\ Idle.at \notin JoinAwaits
<1>1. <<>> \in Seq(Message) /\ 0 \in 0..MaxMsgs
  BY ChatAssumption
<1> QED
  BY <1>1 DEF Idle, Job, Handlers, Awaits, Holding, JoinAwaits

\* Handlers that are going to write are counted.
LEMMA Counts ==
    /\ IsFiniteSet(Creators) /\ Cardinality(Creators) \in Nat
    /\ \A m : IsFiniteSet(Editors(m)) /\ Cardinality(Editors(m)) \in Nat
<1>1. Creators \in SUBSET Jobs /\ \A m : Editors(m) \in SUBSET Jobs
  BY DEF Creators, Editors
<1>2. IsFiniteSet(Creators) /\ \A m : IsFiniteSet(Editors(m))
  BY <1>1, ChatAssumption, FS_Subset
<1> QED
  BY <1>2, FS_CardinalityType

\* A handler goes on; it may have written.
LEMMA JobMoves ==
    ASSUME Base, TableGrows, NEW j \in Jobs, NEW w \in Handlers, Holding(w)',
           job' = [job EXCEPT ![j] = w]
    PROVE  /\ job' \in [Jobs -> Handlers] /\ HandlersHold'
           /\ \A i \in Jobs : job'[i] = IF i = j THEN w ELSE job[i]
<1>1. job \in [Jobs -> Handlers] /\ table \in Seq(Message)
  BY DEF Base, Types
<1>2. job' \in [Jobs -> Handlers] /\ \A i \in Jobs : job'[i] = IF i = j THEN w ELSE job[i]
  BY <1>1
<1>3. ASSUME NEW i \in Jobs PROVE Holding(job[i])'
  <2>1. PICK v \in Handlers : v = job'[i]
    BY <1>2
  <2>2. Holding(v)'
    <3>1. CASE i = j
      BY <1>2, <2>1, <3>1
    <3>2. CASE i # j
      <4>1. v = job[i] /\ Holding(v)
        BY <1>2, <2>1, <3>2 DEF Base, HandlersHold
      <4> QED
        BY <1>1, <4>1, StaysWritten
    <3> QED
      BY <3>1, <3>2
  <2> QED
    BY <2>1, <2>2 DEF Holding
<1> QED
  BY <1>2, <1>3 DEF HandlersHold

\* What a join reads: the last rows of the table.
LEMMA NewestRows ==
    ASSUME Types
    PROVE  /\ Newest(table) \in Seq(Message) /\ AllWritten(Newest(table))
           /\ \E k \in 1..Len(table) + 1 :
                 /\ Len(Newest(table)) = Len(table) - k + 1
                 /\ \A i \in 1..Len(Newest(table)) : Newest(table)[i] = table[k + i - 1]
           /\ table # <<>> => Newest(table) # <<>>
<1> DEFINE k == IF Len(table) > Take THEN Len(table) - Take + 1 ELSE 1
           rows == Newest(table)
<1>1. table \in Seq(Message) /\ Len(table) \in Nat
  BY DEF Types
<1>2. k \in 1..Len(table) + 1 /\ (table # <<>> => k <= Len(table))
  BY <1>1, ChatAssumption, EmptySeq
<1>3. rows = SubSeq(table, k, Len(table))
  BY DEF Newest
<1> HIDE DEF k, rows
<1>4. /\ rows \in Seq(Message) /\ Len(rows) = Len(table) - k + 1
      /\ \A i \in 1..Len(rows) : rows[i] = table[k + i - 1]
  BY <1>1, <1>2, <1>3, SubSeqProperties
<1>5. AllWritten(rows)
  <2>1. ASSUME NEW i \in 1..Len(rows) PROVE Written(rows[i])
    <3>1. k + i - 1 \in Sent /\ rows[i] = table[k + i - 1] /\ rows[i].id = k + i - 1
      BY <1>1, <1>2, <1>4 DEF Types, Sent
    <3>2. rows[i].text \in Nat
      <4>1. rows[i] \in Message
        BY <1>4
      <4> QED
        BY <4>1, ChatAssumption DEF Message
    <3> QED
      BY <3>1, <3>2 DEF Written
  <2> QED
    BY <1>4, <2>1, RowsDomain DEF AllWritten
<1>6. table # <<>> => rows # <<>>
  BY <1>1, <1>2, <1>4, EmptySeq
<1> QED
  BY <1>2, <1>4, <1>5, <1>6 DEF rows

LEMMA Pending ==
    ASSUME Base PROVE Unannounced \subseteq Sent /\ Unannounced \subseteq Ids /\ Sent \subseteq Ids
<1>1. Unannounced \subseteq Sent
  BY DEF Unannounced, Base, HandlersHold, Holding
<1>2. Len(table) \in Nat /\ Len(table) <= MaxMsgs
  BY Counts, ChatAssumption DEF Base, Types, BoundsLast
<1>3. Sent \subseteq Ids
  BY <1>2, ChatAssumption DEF Sent, Ids
<1> QED
  BY <1>1, <1>3

\* Nobody starts to write: the bounds have room for those who were going to.
LEMMA BoundsStay ==
    ASSUME Base, table' = table,
           \A i \in Jobs : job'[i].at \in {"create", "update"} => job'[i] = job[i]
    PROVE  BoundsLast'
<1>1. Creators' \subseteq Creators /\ \A m : Editors(m)' \subseteq Editors(m)
  BY DEF Creators, Editors
<1>2. /\ Cardinality(Creators') \in Nat /\ Cardinality(Creators') <= Cardinality(Creators)
      /\ \A m : /\ Cardinality(Editors(m)') \in Nat
                /\ Cardinality(Editors(m)') <= Cardinality(Editors(m))
  <2>1. IsFiniteSet(Creators) /\ \A m : IsFiniteSet(Editors(m))
    BY Counts
  <2> QED
    BY <1>1, <2>1, FS_Subset, FS_CardinalityType
<1>3. Len(table) \in Nat /\ \A m \in Sent : table[m].text \in Nat
  <2>1. Len(table) \in Nat /\ \A m \in Sent : table[m] \in Message
    BY DEF Base, Types, Sent
  <2> QED
    BY <2>1, ChatAssumption DEF Message
<1>4. Len(table') + Cardinality(Creators') <= MaxMsgs
  BY <1>2, <1>3, Counts, ChatAssumption DEF Base, BoundsLast
<1>5. ASSUME NEW m \in Sent PROVE table[m].text + Cardinality(Editors(m)') <= MaxEdits
  BY <1>2, <1>3, Counts, ChatAssumption DEF Base, BoundsLast
<1> QED
  BY <1>4, <1>5 DEF BoundsLast, Sent

\* A handler goes on, and neither writes nor is about to.
LEMMA JobQuiet ==
    ASSUME Base, UNCHANGED table, NEW j \in Jobs, NEW w \in Handlers, Holding(w),
           w.at \notin {"create", "update"}, job' = [job EXCEPT ![j] = w]
    PROVE  /\ job' \in [Jobs -> Handlers] /\ HandlersHold' /\ BoundsLast'
           /\ \A i \in Jobs : job'[i] = IF i = j THEN w ELSE job[i]
<1>1. TableGrows /\ table \in Seq(Message)
  BY SameTable DEF Base, Types
<1>2. Holding(w)'
  BY <1>1, StaysWritten
<1>3. /\ job' \in [Jobs -> Handlers] /\ HandlersHold'
      /\ \A i \in Jobs : job'[i] = IF i = j THEN w ELSE job[i]
  BY <1>1, <1>2, JobMoves
<1> QED
  BY <1>3, BoundsStay

\* Handlers that ask and have not written.
LEMMA HandlerMoves ==
    ASSUME Base, NEW j \in Jobs, UNCHANGED <<table, present, wire, view, loaded, oldest, crossed>>,
           NEW w \in Handlers, Holding(w), w.at \notin {"create", "update"},
           job' = [job EXCEPT ![j] = w],
           link' \in [Watchers -> {"off", "joined"}], contended' \in [Watchers -> SUBSET Ids]
    PROVE  Base'
<1>1. job' \in [Jobs -> Handlers] /\ HandlersHold' /\ BoundsLast'
  BY JobQuiet
<1>2. AllHonest'
  BY SameTable, ViewsStayHonest DEF Base, Types
<1> QED
  BY <1>1, <1>2 DEF Base, Types, Sent

LEMMA JobAt ==
    ASSUME Base, NEW j \in Jobs
    PROVE  /\ job[j] \in Handlers /\ Holding(job[j])
           /\ job[j].at # "idle" => job[j].by \in Users
           /\ \A at \in Awaits : [job[j] EXCEPT !.at = at] \in Handlers
<1>1. job[j] \in Handlers /\ Holding(job[j])
  BY DEF Base, Types, HandlersHold
<1> QED
  BY <1>1 DEF Holding, Handlers

LEMMA BaseJoins ==
    ASSUME Base, NEW j \in Jobs
    PROVE  /\ \A u \in Watchers : ConnectAndJoin(j, u) => Base'
           /\ JoinAssertMember(j) => Base'
           /\ JoinRead(j) => Base'
<1>1. ASSUME NEW u \in Watchers, ConnectAndJoin(j, u) PROVE Base'
  <2> DEFINE w == Job("joinAssert", u, 0, <<>>)
  <2>1. w \in Handlers /\ Holding(w) /\ w.at = "joinAssert"
    BY ChatAssumption DEF Job, Handlers, Awaits, Holding, JoinAwaits
  <2>2. job' = [job EXCEPT ![j] = w]
    BY <1>1 DEF ConnectAndJoin, Start
  <2>3. link' \in [Watchers -> {"off", "joined"}]
    BY <1>1 DEF ConnectAndJoin, Base, Types
  <2>4. UNCHANGED <<table, present, wire, view, loaded, contended, oldest, crossed>>
    BY <1>1 DEF ConnectAndJoin
  <2> HIDE DEF w
  <2> QED
    BY <2>1, <2>2, <2>3, <2>4, HandlerMoves DEF Base, Types
<1>2. ASSUME JoinAssertMember(j) PROVE Base'
  <2> DEFINE w == IF job[j].by \in present THEN [job[j] EXCEPT !.at = "joinRead"] ELSE Idle
  <2>1. w \in Handlers /\ Holding(w) /\ w.at \notin {"create", "update"}
    <3>1. [job[j] EXCEPT !.at = "joinRead"] \in Handlers /\ job[j].at = "joinAssert"
      BY <1>2, JobAt DEF JoinAssertMember, Awaits
    <3>2. /\ Holding([job[j] EXCEPT !.at = "joinRead"])
          /\ [job[j] EXCEPT !.at = "joinRead"].at = "joinRead"
      BY <3>1, JobAt DEF Holding, JoinAwaits, Handlers
    <3> QED
      BY <3>1, <3>2, IdleHolds
  <2>2. job' = [job EXCEPT ![j] = w]
    BY <1>2 DEF JoinAssertMember, Await, Done
  <2>3. UNCHANGED <<table, present, link, wire, view, loaded, contended, oldest, crossed>>
    BY <1>2 DEF JoinAssertMember
  <2> HIDE DEF w
  <2> QED
    BY <2>1, <2>2, <2>3, HandlerMoves DEF Base, Types
<1>3. ASSUME JoinRead(j) PROVE Base'
  <2> DEFINE w == [job[j] EXCEPT !.at = "joinReply", !.out = Newest(table)]
  <2>1. w \in Handlers /\ Holding(w) /\ w.at = "joinReply"
    <3>1. Newest(table) \in Seq(Message) /\ AllWritten(Newest(table))
      BY NewestRows DEF Base
    <3>2. job[j].at = "joinRead" /\ job[j].by \in Watchers
      BY <1>3, JobAt DEF JoinRead, Holding, JoinAwaits
    <3>3. /\ w \in Handlers /\ w.at = "joinReply" /\ w.by = job[j].by
          /\ w.out = Newest(table)
      <4>1. job[j] \in Handlers
        BY JobAt
      <4> QED
        BY <3>1, <4>1 DEF Handlers, Awaits
    <3>4. w.by \in Users
      BY <3>2, <3>3, ChatAssumption
    <3> HIDE DEF w
    <3> QED
      BY <3>1, <3>2, <3>3, <3>4 DEF Holding, JoinAwaits
  <2>2. job' = [job EXCEPT ![j] = w]
    BY <1>3 DEF JoinRead
  <2>3. contended' \in [Watchers -> SUBSET Ids]
    BY <1>3, Pending DEF JoinRead, Base, Types
  <2>4. UNCHANGED <<table, present, link, wire, view, loaded, oldest, crossed>>
    BY <1>3 DEF JoinRead
  <2> HIDE DEF w
  <2> QED
    BY <2>1, <2>2, <2>3, <2>4, HandlerMoves DEF Base, Types
<1> QED
  BY <1>1, <1>2, <1>3

\* Honest events stay honest on a longer wire.
LEMMA WireGrows ==
    ASSUME Base, NEW u \in Watchers, NEW e \in Events, Honest(e)
    PROVE  /\ Append(wire[u], e) \in Seq(Events) /\ Len(wire[u]) \in Nat
           /\ Len(Append(wire[u], e)) = Len(wire[u]) + 1
           /\ \A k \in 1..Len(wire[u]) : Append(wire[u], e)[k] = wire[u][k]
           /\ Append(wire[u], e)[Len(wire[u]) + 1] = e
           /\ \A k \in 1..Len(Append(wire[u], e)) : Honest(Append(wire[u], e)[k])
<1>1. wire[u] \in Seq(Events) /\ \A k \in 1..Len(wire[u]) : Honest(wire[u][k])
  BY DEF Base, Types, AllHonest
<1>2. /\ Append(wire[u], e) \in Seq(Events) /\ Len(wire[u]) \in Nat
      /\ Len(Append(wire[u], e)) = Len(wire[u]) + 1
      /\ \A k \in 1..Len(wire[u]) : Append(wire[u], e)[k] = wire[u][k]
      /\ Append(wire[u], e)[Len(wire[u]) + 1] = e
  BY <1>1, AppendFacts
<1> QED
  BY <1>1, <1>2

\* Honest lists, in a table that stays as it is.
LEMMA HonestStays ==
    ASSUME Base, table' = table, wire' \in [Watchers -> Seq(Events)],
           view' \in [Watchers -> Seq(Message)],
           \A u \in Watchers : /\ AllWritten(view'[u])
                               /\ \A k \in 1..Len(wire'[u]) : Honest(wire'[u][k])
    PROVE  AllHonest'
<1>1. ASSUME NEW u \in Watchers PROVE AllWritten(view[u])'
  <2>1. PICK rows \in Seq(Message) : rows = view'[u] /\ AllWritten(rows)
    OBVIOUS
  <2> QED
    BY <2>1, SameTable, StaysWritten DEF Base, Types, AllWritten
<1>2. ASSUME NEW u \in Watchers, NEW k \in 1..Len(wire'[u]) PROVE Honest(wire[u][k])'
  <2>1. PICK e \in Events : e = wire'[u][k] /\ Honest(e)
    OBVIOUS
  <2>2. Honest(e)'
    BY <2>1, SameTable, StaysWritten DEF Base, Types
  <2> QED
    BY <2>1, <2>2 DEF Honest
<1> QED
  BY <1>1, <1>2 DEF AllHonest

LEMMA BaseReply ==
    ASSUME Base, NEW j \in Jobs, JoinReply(j) PROVE Base'
<1> DEFINE u == job[j].by
           e == [kind |-> "room-joined", rows |-> job[j].out]
<1>1. u \in Watchers /\ e \in Events /\ Honest(e) /\ job[j].out \in Seq(Message)
  <2>1. job[j].at = "joinReply" /\ Holding(job[j])
    BY JobAt DEF JoinReply
  <2> QED
    BY <2>1 DEF Holding, JoinAwaits, Events, Honest
<1>2. job' \in [Jobs -> Handlers] /\ HandlersHold' /\ BoundsLast'
  BY IdleHolds, JobQuiet DEF JoinReply, Done
<1>3. wire' = [wire EXCEPT ![u] = Append(@, e)]
  BY DEF JoinReply
<1>4. oldest' \in [Watchers -> Ids]
  <2>1. oldest' = [oldest EXCEPT ![u] = First(job[j].out)]
    BY DEF JoinReply, First
  <2>2. First(job[j].out) \in Ids
    <3>1. CASE job[j].out = <<>>
      BY <3>1, ChatAssumption DEF First, Ids
    <3>2. CASE job[j].out # <<>>
      <4>1. job[j].out[1] \in Message
        BY <1>1, <3>2
      <4> QED
        BY <3>2, <4>1 DEF First, Message
    <3> QED
      BY <3>1, <3>2
  <2> QED
    BY <2>1, <2>2 DEF Base, Types
<1> HIDE DEF e, u
<1>5. wire \in [Watchers -> Seq(Events)]
  BY DEF Base, Types
<1>6. wire' \in [Watchers -> Seq(Events)] /\ wire'[u] = Append(wire[u], e)
      /\ \A v \in Watchers \ {u} : wire'[v] = wire[v]
  BY <1>1, <1>3, <1>5, WireGrows
<1>7. UNCHANGED <<table, present, link, view, loaded, contended, crossed>>
  BY DEF JoinReply
<1>8. AllHonest'
  <2>1. ASSUME NEW v \in Watchers
        PROVE  AllWritten(view'[v]) /\ \A k \in 1..Len(wire'[v]) : Honest(wire'[v][k])
    <3>1. AllWritten(view'[v]) /\ \A k \in 1..Len(wire[v]) : Honest(wire[v][k])
      BY <1>7 DEF Base, AllHonest
    <3>2. CASE v = u
      BY <1>1, <1>6, <3>1, <3>2, WireGrows
    <3>3. CASE v # u
      BY <1>6, <3>1, <3>3
    <3> QED
      BY <3>2, <3>3
  <2> QED
    BY <1>6, <1>7, <2>1, HonestStays DEF Base, Types
<1> QED
  BY <1>2, <1>4, <1>6, <1>7, <1>8 DEF Base, Types, Sent

LEMMA BaseDisconnect ==
    ASSUME Base, NEW u \in Watchers, Disconnect(u)
    PROVE  /\ Base'
           /\ \A j \in Jobs : job'[j] = job[j] \/ (job'[j] = Idle /\ job[j].at \in JoinAwaits)
<1>1. job \in [Jobs -> Handlers] /\ table \in Seq(Message)
  BY DEF Base, Types
<1>2. /\ job' \in [Jobs -> Handlers]
      /\ \A j \in Jobs : job'[j] = job[j] \/ (job'[j] = Idle /\ job[j].at \in JoinAwaits)
  BY <1>1, IdleHolds DEF Disconnect
<1>3. UNCHANGED <<table, present, view, contended, oldest, crossed>>
  BY DEF Disconnect
<1>4. ASSUME NEW j \in Jobs PROVE Holding(job[j])'
  <2>1. PICK v \in Handlers : v = job'[j]
    BY <1>2
  <2>2. Holding(v)
    BY <1>2, <2>1, IdleHolds DEF Base, HandlersHold
  <2>3. Holding(v)'
    BY <1>1, <1>3, <2>2, SameTable, StaysWritten
  <2> QED
    BY <2>1, <2>3 DEF Holding
<1>5. BoundsLast'
  BY <1>2, <1>3, IdleHolds, BoundsStay
<1>6. /\ wire' = [wire EXCEPT ![u] = <<>>] /\ wire' \in [Watchers -> Seq(Events)]
      /\ link' \in [Watchers -> {"off", "joined"}] /\ loaded' \in [Watchers -> BOOLEAN]
  BY DEF Disconnect, Base, Types
<1>7. AllHonest'
  <2>1. ASSUME NEW v \in Watchers
        PROVE  AllWritten(view'[v]) /\ \A k \in 1..Len(wire'[v]) : Honest(wire'[v][k])
    <3>1. AllWritten(view'[v]) /\ \A k \in 1..Len(wire[v]) : Honest(wire[v][k])
      BY <1>3 DEF Base, AllHonest
    <3>2. CASE v = u
      <4>1. wire'[v] = <<>> /\ Len(<<>>) = 0 /\ 1..0 = {}
        BY <1>6, <3>2 DEF Base, Types
      <4> QED
        BY <3>1, <4>1
    <3>3. CASE v # u
      BY <1>6, <3>1, <3>3 DEF Base, Types
    <3> QED
      BY <3>2, <3>3
  <2> QED
    BY <1>3, <1>6, <2>1, HonestStays DEF Base, Types
<1> QED
  BY <1>2, <1>3, <1>4, <1>5, <1>6, <1>7 DEF Base, Types, Sent, HandlersHold

LEMMA BaseBroadcast ==
    ASSUME Base, NEW j \in Jobs, Broadcast(j) PROVE Base'
<1>1. /\ job[j].at = "emit" /\ Holding(job[j])
      /\ UNCHANGED <<table, present, link, view, loaded, oldest, crossed>>
  BY JobAt DEF Broadcast
<1>2. /\ job[j].out \in Seq(Announcements) /\ Len(job[j].out) = 1 /\ job[j].msg \in Sent
      /\ Honest(job[j].out[1])
  BY <1>1 DEF Holding
<1>3. PICK e \in Announcements : e = job[j].out[1] /\ Honest(e)
  BY <1>2
<1>4. e \in Events
  BY AnnouncementShapes
<1>5. wire' = [u \in Watchers |-> IF link[u] = "joined" THEN Append(wire[u], e) ELSE wire[u]]
  BY <1>3 DEF Broadcast, Emit
<1>6. job' \in [Jobs -> Handlers] /\ HandlersHold' /\ BoundsLast'
  BY <1>1, IdleHolds, JobQuiet DEF Broadcast, Done
<1>7. wire \in [Watchers -> Seq(Events)]
  BY DEF Base, Types
<1>8. ASSUME NEW v \in Watchers
      PROVE  /\ wire'[v] \in Seq(Events) /\ AllWritten(view'[v])
             /\ \A k \in 1..Len(wire'[v]) : Honest(wire'[v][k])
  <2>1. AllWritten(view'[v]) /\ \A k \in 1..Len(wire[v]) : Honest(wire[v][k])
    BY <1>1 DEF Base, AllHonest
  <2> QED
    BY <1>3, <1>4, <1>5, <1>7, <2>1, WireGrows
<1>9. AllHonest'
  BY <1>1, <1>5, <1>8, HonestStays DEF Base, Types
<1>10. contended' \in [Watchers -> SUBSET Ids]
  BY <1>2, Pending DEF Broadcast, Base, Types
<1> QED
  BY <1>1, <1>5, <1>6, <1>8, <1>9, <1>10 DEF Base, Types, Sent

\* What a list becomes when an honest event is shown on it.
LEMMA ShownHonest ==
    ASSUME Types, NEW rows \in Seq(Message), AllWritten(rows), NEW e \in Events, Honest(e)
    PROVE  AllWritten(Shown(rows, e))
<1>1. CASE e.kind = "room-joined"
  BY <1>1, ShownJoined DEF Honest
<1>2. CASE e.kind = "new-message"
  <2>1. e.row \in Message /\ Written(e.row) /\ Shown(rows, e) = Append(rows, e.row)
    BY <1>2, EventShapes, ShownNew DEF Honest
  <2>2. DOMAIN Append(rows, e.row) = 1..Len(rows) + 1
    BY <2>1, AppendFacts, RowsDomain
  <2> QED
    BY <2>1, <2>2, AppendFacts DEF AllWritten
<1>3. CASE e.kind = "message-edited"
  BY <1>3, EventShapes, ShownEdited DEF Honest, AllWritten
<1>4. CASE e.kind = "message-deleted"
  <2>1. e.id \in Sent /\ table[e.id].deleted
    BY <1>4 DEF Honest
  <2>2. ASSUME NEW i \in DOMAIN rows, rows[i].id = e.id
        PROVE  Written(Deleted(rows[i]))
    <3>1. rows[i] \in Message /\ Written(rows[i])
      BY RowsDomain DEF AllWritten
    <3> QED
      BY <2>1, <2>2, <3>1 DEF Written, Message, Deleted
  <2> QED
    BY <1>4, <2>2, ShownDeleted DEF AllWritten
<1> QED
  BY <1>1, <1>2, <1>3, <1>4, EventShapes

LEMMA HandlersRest ==
    ASSUME Base, UNCHANGED <<table, job>> PROVE HandlersHold'
<1>1. ASSUME NEW j \in Jobs PROVE Holding(job[j])'
  <2>1. PICK v \in Handlers : v = job[j] /\ Holding(v)
    BY JobAt
  <2>2. Holding(v)'
    BY <2>1, SameTable, StaysWritten DEF Base, Types
  <2> QED
    BY <2>1, <2>2 DEF Holding
<1> QED
  BY <1>1 DEF HandlersHold

LEMMA BaseHandle ==
    ASSUME Base, NEW u \in Watchers, Handle(u) PROVE Base'
<1>1. /\ wire \in [Watchers -> Seq(Events)] /\ view \in [Watchers -> Seq(Message)]
      /\ wire[u] # <<>> /\ loaded \in [Watchers -> BOOLEAN]
  BY DEF Base, Types, Handle
<1>2. /\ Len(wire[u]) \in Nat \ {0} /\ Head(wire[u]) = wire[u][1] /\ wire[u][1] \in Events
      /\ Tail(wire[u]) \in Seq(Events) /\ Len(Tail(wire[u])) = Len(wire[u]) - 1
      /\ \A k \in 1..Len(wire[u]) - 1 : Tail(wire[u])[k] = wire[u][k + 1]
  BY <1>1, HeadTailProperties
<1>3. /\ view' = [view EXCEPT ![u] = Shown(view[u], wire[u][1])]
      /\ wire' = [wire EXCEPT ![u] = Tail(wire[u])]
      /\ loaded' = [loaded EXCEPT ![u] = loaded[u] \/ wire[u][1].kind = "room-joined"]
      /\ UNCHANGED <<table, present, job, link, contended, oldest, crossed>>
  BY <1>1, <1>2 DEF Handle
<1>4. Honest(wire[u][1]) /\ AllWritten(view[u]) /\ view[u] \in Seq(Message)
  BY <1>1, <1>2 DEF Base, AllHonest
<1>5. Shown(view[u], wire[u][1]) \in Seq(Message) /\ AllWritten(Shown(view[u], wire[u][1]))
  BY <1>2, <1>4, ShownTyped, ShownHonest DEF Base
<1>6. /\ wire' \in [Watchers -> Seq(Events)] /\ view' \in [Watchers -> Seq(Message)]
      /\ loaded' \in [Watchers -> BOOLEAN]
  BY <1>1, <1>2, <1>3, <1>5
<1>7. ASSUME NEW v \in Watchers
      PROVE  AllWritten(view'[v]) /\ \A k \in 1..Len(wire'[v]) : Honest(wire'[v][k])
  <2>1. CASE v = u
    BY <1>1, <1>2, <1>3, <1>5, <2>1 DEF Base, AllHonest
  <2>2. CASE v # u
    BY <1>1, <1>3, <2>2 DEF Base, AllHonest
  <2> QED
    BY <2>1, <2>2
<1>8. AllHonest'
  BY <1>3, <1>6, <1>7, HonestStays
<1>9. HandlersHold'
  BY <1>3, HandlersRest
<1>10. BoundsLast'
  BY <1>3, BoundsStay
<1> QED
  BY <1>3, <1>6, <1>8, <1>9, <1>10 DEF Base, Types, Sent

LEMMA BasePresent ==
    ASSUME Base, NEW u \in Users, Leave(u) \/ Rejoin(u) PROVE Base'
<1>1. /\ present' \subseteq Users
      /\ UNCHANGED <<table, job, link, wire, view, loaded, contended, oldest, crossed>>
  BY DEF Leave, Rejoin, Base, Types
<1>2. AllHonest' /\ HandlersHold'
  BY <1>1, HandlersRest, SameTable, ViewsStayHonest DEF Base, Types
<1>3. BoundsLast'
  BY <1>1, BoundsStay
<1> QED
  BY <1>1, <1>2, <1>3 DEF Base, Types, Sent

\* What asks are left with the state they found.
LEMMA BaseDeletes ==
    ASSUME Base, NEW j \in Jobs
    PROVE  /\ \A u \in Users, m \in Sent : DeleteFind(j, u, m) => Base'
           /\ DeleteFindOwner(j) => Base'
<1>1. ASSUME NEW u \in Users, NEW m \in Sent, DeleteFind(j, u, m) PROVE Base'
  <2> DEFINE w == Job(IF table[m].by = u THEN "softDelete" ELSE "findOwner", u, m, <<>>)
  <2>1. w \in Handlers /\ Holding(w) /\ w.at \notin {"create", "update"}
    <3>1. m \in 0..MaxMsgs
      BY Pending, ChatAssumption DEF Ids
    <3> QED
      BY <3>1 DEF Job, Handlers, Awaits, Holding, JoinAwaits
  <2>2. job' = [job EXCEPT ![j] = w]
    BY <1>1 DEF DeleteFind, Start
  <2>3. UNCHANGED <<table, present, link, wire, view, loaded, contended, oldest, crossed>>
    BY <1>1 DEF DeleteFind
  <2> HIDE DEF w
  <2> QED
    BY <2>1, <2>2, <2>3, HandlerMoves DEF Base, Types
<1>2. ASSUME DeleteFindOwner(j) PROVE Base'
  <2> DEFINE w == IF job[j].by = Owner THEN [job[j] EXCEPT !.at = "softDelete"] ELSE Idle
  <2>1. w \in Handlers /\ Holding(w) /\ w.at \notin {"create", "update"}
    <3>1. [job[j] EXCEPT !.at = "softDelete"] \in Handlers /\ job[j].at = "findOwner"
      BY <1>2, JobAt DEF DeleteFindOwner, Awaits
    <3>2. /\ Holding([job[j] EXCEPT !.at = "softDelete"])
          /\ [job[j] EXCEPT !.at = "softDelete"].at = "softDelete"
      BY <3>1, JobAt DEF Holding, JoinAwaits, Handlers
    <3> QED
      BY <3>1, <3>2, IdleHolds
  <2>2. job' = [job EXCEPT ![j] = w]
    BY <1>2 DEF DeleteFindOwner, Await, Done
  <2>3. UNCHANGED <<table, present, link, wire, view, loaded, contended, oldest, crossed>>
    BY <1>2 DEF DeleteFindOwner
  <2> HIDE DEF w
  <2> QED
    BY <2>1, <2>2, <2>3, HandlerMoves DEF Base, Types
<1> QED
  BY <1>1, <1>2

LEMMA OneMore ==
    ASSUME NEW S, IsFiniteSet(S), NEW x, NEW T, T \subseteq S \cup {x}
    PROVE  Cardinality(T) \in Nat /\ Cardinality(T) <= Cardinality(S) + 1
<1>1. IsFiniteSet(S \cup {x}) /\ Cardinality(S \cup {x}) <= Cardinality(S) + 1
  <2> DEFINE n == Cardinality(S)
  <2>1. n \in Nat
    BY FS_CardinalityType
  <2>2. IsFiniteSet(S \cup {x}) /\ Cardinality(S \cup {x}) = IF x \in S THEN n ELSE n + 1
    BY FS_AddElement
  <2> HIDE DEF n
  <2> QED
    BY <2>1, <2>2 DEF n
<1>2. /\ IsFiniteSet(T) /\ Cardinality(T) <= Cardinality(S \cup {x})
  BY <1>1, FS_Subset
<1> QED
  BY <1>1, <1>2, FS_CardinalityType

-----------------------------------------------------------------------------
(* Handlers that write.                                                    *)

LEMMA BaseStarts ==
    ASSUME Base, NEW j \in Jobs, NEW u \in Users
    PROVE  /\ SendAssertMember(j, u) => Base'
           /\ \A m \in Sent : EditFind(j, u, m) => Base'
<1>1. Len(table) \in Nat /\ \A m \in Sent : table[m].text \in Nat
  <2>1. Len(table) \in Nat /\ \A m \in Sent : table[m] \in Message
    BY DEF Base, Types, Sent
  <2> QED
    BY <2>1, ChatAssumption DEF Message
<1>2. ASSUME NEW w \in Handlers, Holding(w), w.at \in {"create", "update"},
             job[j] = Idle, job' = [job EXCEPT ![j] = w],
             UNCHANGED <<table, present, link, wire, view, loaded, contended, oldest, crossed>>,
             BoundsLast'
      PROVE  Base'
  <2>1. TableGrows /\ Holding(w)'
    BY <1>2, SameTable, StaysWritten DEF Base, Types
  <2>2. job' \in [Jobs -> Handlers] /\ HandlersHold' /\ AllHonest'
    BY <1>2, <2>1, JobMoves, ViewsStayHonest
  <2> QED
    BY <1>2, <2>2 DEF Base, Types, Sent
<1>3. ASSUME SendAssertMember(j, u) PROVE Base'
  <2> DEFINE w == Job("create", u, 0, <<>>)
  <2>1. w \in Handlers /\ Holding(w) /\ w.at = "create"
    BY ChatAssumption DEF Job, Handlers, Awaits, Holding, JoinAwaits
  <2>2. /\ job[j] = Idle /\ job' = [job EXCEPT ![j] = w]
        /\ UNCHANGED <<table, present, link, wire, view, loaded, contended, oldest, crossed>>
        /\ Len(table) + Cardinality(Creators) < MaxMsgs
    BY <1>3 DEF SendAssertMember, Start, Creators
  <2> HIDE DEF w
  <2>3. BoundsLast'
    <3>1. \A i \in Jobs : job'[i] = IF i = j THEN w ELSE job[i]
      BY <2>2 DEF Base, Types
    <3>2. Creators' \subseteq Creators \cup {j} /\ \A m : Editors(m)' \subseteq Editors(m)
      BY <2>1, <3>1 DEF Creators, Editors
    <3>3. /\ Cardinality(Creators') \in Nat
          /\ Cardinality(Creators') <= Cardinality(Creators) + 1
      BY <3>2, Counts, OneMore
    <3>4. \A m : /\ Cardinality(Editors(m)') \in Nat
                 /\ Cardinality(Editors(m)') <= Cardinality(Editors(m))
      BY <3>2, Counts, FS_Subset, FS_CardinalityType
    <3>5. Len(table) + Cardinality(Creators') <= MaxMsgs
      BY <1>1, <2>2, <3>3, Counts, ChatAssumption
    <3>6. ASSUME NEW m \in Sent PROVE table[m].text + Cardinality(Editors(m)') <= MaxEdits
      BY <1>1, <3>4, Counts, ChatAssumption DEF Base, BoundsLast
    <3> QED
      BY <2>2, <3>5, <3>6 DEF BoundsLast, Sent
  <2> QED
    BY <1>2, <2>1, <2>2, <2>3
<1>4. ASSUME NEW n \in Sent, EditFind(j, u, n) PROVE Base'
  <2> DEFINE w == Job("update", u, n, <<>>)
             all == {i \in Jobs : job[i].at = "update"}
  <2>1. w \in Handlers /\ Holding(w) /\ w.at = "update" /\ w.msg = n
    <3>1. n \in 0..MaxMsgs
      BY Pending, ChatAssumption DEF Ids
    <3> QED
      BY <3>1 DEF Job, Handlers, Awaits, Holding, JoinAwaits
  <2>2. /\ job[j] = Idle /\ job' = [job EXCEPT ![j] = w]
        /\ UNCHANGED <<table, present, link, wire, view, loaded, contended, oldest, crossed>>
        /\ table[n].text + Cardinality(all) < MaxEdits
    BY <1>4 DEF EditFind, Start
  <2> HIDE DEF w
  <2>3. BoundsLast'
    <3>1. \A i \in Jobs : job'[i] = IF i = j THEN w ELSE job[i]
      BY <2>2 DEF Base, Types
    <3>2. /\ Creators' \subseteq Creators /\ Editors(n)' \subseteq Editors(n) \cup {j}
          /\ \A m : m # n => Editors(m)' \subseteq Editors(m)
      BY <2>1, <3>1 DEF Creators, Editors
    <3>3. /\ Cardinality(Editors(n)') \in Nat
          /\ Cardinality(Editors(n)') <= Cardinality(Editors(n)) + 1
      BY <3>2, Counts, OneMore
    <3>4. Cardinality(Editors(n)) <= Cardinality(all) /\ Cardinality(all) \in Nat
      <4>1. Editors(n) \subseteq all /\ all \subseteq Jobs
        BY DEF Editors
      <4> HIDE DEF all
      <4> QED
        BY <4>1, ChatAssumption, FS_Subset, FS_CardinalityType
    <3> HIDE DEF all
    <3>5. \A m : m # n => /\ Cardinality(Editors(m)') \in Nat
                          /\ Cardinality(Editors(m)') <= Cardinality(Editors(m))
      BY <3>2, Counts, FS_Subset, FS_CardinalityType
    <3>6. Cardinality(Creators') \in Nat /\ Cardinality(Creators') <= Cardinality(Creators)
      BY <3>2, Counts, FS_Subset, FS_CardinalityType
    <3>7. Len(table) + Cardinality(Creators') <= MaxMsgs
      BY <1>1, <3>6, Counts, ChatAssumption DEF Base, BoundsLast
    <3>8. ASSUME NEW m \in Sent PROVE table[m].text + Cardinality(Editors(m)') <= MaxEdits
      <4>1. CASE m = n
        BY <1>1, <2>2, <3>3, <3>4, <4>1, Counts, ChatAssumption
      <4>2. CASE m # n
        BY <1>1, <3>5, <4>2, Counts, ChatAssumption DEF Base, BoundsLast
      <4> QED
        BY <4>1, <4>2
    <3> QED
      BY <2>2, <3>7, <3>8 DEF BoundsLast, Sent
  <2> QED
    BY <1>2, <2>1, <2>2, <2>3
<1> QED
  BY <1>3, <1>4

\* A row that is added, or takes the place of one it continues.
Continues(m, row) ==
    /\ m \in 1..Len(table) + 1 /\ m \in Ids
    /\ row \in Message /\ row.id = m
    /\ m \in Sent => /\ row.by = table[m].by
                     /\ row.files = table[m].files
                     /\ table[m].text <= row.text
                     /\ table[m].deleted => row.deleted

\* An announcement made from the row that is written.
Announces(e, m, row) ==
    /\ e \in Announcements /\ About(e) = m
    /\ e.kind \in {"new-message", "message-edited"} =>
          /\ e.row.by = row.by /\ e.row.text <= row.text
          /\ e.row.files => row.files
          /\ e.row.deleted => row.deleted
    /\ e.kind = "message-deleted" => row.deleted

LEMMA TableWrites ==
    ASSUME Types, NEW m, NEW row, Continues(m, row),
           table' = IF m > Len(table) THEN Append(table, row) ELSE [table EXCEPT ![m] = row]
    PROVE  /\ table' \in Seq(Message) /\ TableGrows
           /\ Sent' = Sent \cup {m} /\ Len(table) \in Nat
           /\ Len(table') = IF m > Len(table) THEN m ELSE Len(table)
           /\ m > Len(table) <=> m = Len(table) + 1
           /\ table'[m] = row
           /\ \A n \in Sent : n # m => table'[n] = table[n]
           /\ \A n \in Sent' : table'[n].id = n
<1>1. table \in Seq(Message) /\ Len(table) \in Nat /\ \A n \in Sent : table[n].id = n
  BY DEF Types
<1>2. \A n \in Sent : table[n] \in Message /\ table[n].text <= table[n].text
  <2>1. \A n \in Sent : table[n] \in Message
    BY <1>1 DEF Sent
  <2> QED
    BY <2>1, ChatAssumption DEF Message
<1>3. m \in 1..Len(table) + 1 /\ row \in Message /\ row.id = m
  BY DEF Continues
<1>4. CASE m > Len(table)
  <2>1. m = Len(table) + 1 /\ m \notin Sent /\ table' = Append(table, row)
    BY <1>1, <1>3, <1>4 DEF Sent
  <2>2. /\ table' \in Seq(Message) /\ Len(table') = m /\ table'[m] = row
        /\ \A n \in Sent : table'[n] = table[n]
    BY <1>1, <1>3, <2>1, AppendFacts DEF Sent
  <2>3. Sent' = Sent \cup {m}
    BY <1>1, <2>1, <2>2 DEF Sent
  <2>4. TableGrows
    <3>1. Len(table) <= Len(table')
      BY <1>1, <2>1, <2>2
    <3> QED
      BY <1>2, <2>2, <3>1 DEF TableGrows
  <2> QED
    BY <1>1, <1>3, <1>4, <2>1, <2>2, <2>3, <2>4
<1>5. CASE ~(m > Len(table))
  <2>1. m \in Sent /\ table' = [table EXCEPT ![m] = row]
    BY <1>1, <1>3, <1>5 DEF Sent
  <2>2. /\ table' \in Seq(Message) /\ Len(table') = Len(table) /\ table'[m] = row
        /\ \A n \in Sent : n # m => table'[n] = table[n]
    BY <1>1, <1>3, <2>1, ExceptSeq DEF Sent
  <2>3. Sent' = Sent /\ Sent' = Sent \cup {m}
    BY <2>1, <2>2 DEF Sent
  <2>4. TableGrows
    <3>1. ASSUME NEW n \in Sent
          PROVE  /\ table'[n].by = table[n].by /\ table'[n].files = table[n].files
                 /\ table[n].text <= table'[n].text
                 /\ table[n].deleted => table'[n].deleted
      <4>1. CASE n = m
        BY <2>1, <2>2, <4>1 DEF Continues
      <4>2. CASE n # m
        BY <1>2, <2>2, <4>2
      <4> QED
        BY <4>1, <4>2
    <3> QED
      BY <1>1, <2>2, <3>1 DEF TableGrows
  <2> QED
    BY <1>1, <1>3, <1>5, <2>1, <2>2, <2>3, <2>4
<1> QED
  BY <1>4, <1>5

\* The three that write leave the bounds room for the others.
Spends(j, m, row) ==
    \/ m = Len(table) + 1 /\ row.text = 0 /\ j \in Creators
    \/ m \in Sent /\ row.text = table[m].text
    \/ m \in Sent /\ row.text = table[m].text + 1 /\ j \in Editors(m)

LEMMA WriteFacts ==
    ASSUME Base, NEW j \in Jobs, NEW m, NEW row, NEW e, WriteRow(j, m, row, e),
           Continues(m, row), Announces(e, m, row), job[j].at # "idle"
    PROVE  /\ job' \in [Jobs -> Handlers] /\ HandlersHold' /\ AllHonest'
           /\ \A i \in Jobs : i # j => job'[i] = job[i]
           /\ job'[j].at = "emit" /\ job'[j].msg = m /\ job'[j].out = <<e>>
           /\ job'[j].by = job[j].by
<1>1. /\ TableGrows /\ table \in Seq(Message) /\ m \in Sent' /\ table'[m] = row
  <2>1. Types /\ table \in Seq(Message)
    BY DEF Base, Types
  <2>2. table' = IF m > Len(table) THEN Append(table, row) ELSE [table EXCEPT ![m] = row]
    BY DEF WriteRow
  <2> QED
    BY <2>1, <2>2, TableWrites
<1>2. Honest(e)'
  <2>1. e \in Events /\ e.kind # "room-joined" /\ About(e) = m
    BY AnnouncementShapes DEF Announces
  <2>2. e.kind \in {"new-message", "message-edited"} => Written(e.row)'
    BY <1>1, <2>1, AnnouncementShapes DEF Announces, Written
  <2>3. e.kind = "message-deleted" => e.id \in Sent' /\ table'[e.id].deleted
    BY <1>1, <2>1, AnnouncementShapes DEF Announces
  <2> QED
    BY <2>1, <2>2, <2>3 DEF Honest
<1>3. PICK w \in Handlers :
         /\ w.at = "emit" /\ w.by = job[j].by /\ w.msg = m /\ w.out = <<e>>
         /\ job' = [job EXCEPT ![j] = w]
  <2> DEFINE v == Job("emit", job[j].by, m, <<e>>)
  <2>1. job[j].by \in Users /\ m \in 0..MaxMsgs /\ e \in Announcements
    BY JobAt, ChatAssumption DEF Continues, Announces, Ids
  <2>2. <<e>> \in Seq(Announcements)
    BY <2>1
  <2>3. v.at = "emit" /\ v.by = job[j].by /\ v.msg = m /\ v.out = <<e>> /\ v \in Handlers
    BY <2>1, <2>2 DEF Job, Handlers, Awaits
  <2>4. job' = [job EXCEPT ![j] = v]
    BY DEF WriteRow
  <2> QED
    BY <2>3, <2>4
<1>5. Holding(w)'
  <2>1. w.out \in Seq(Announcements) /\ Len(w.out) = 1 /\ w.out[1] = e /\ About(w.out[1]) = w.msg
    BY <1>3 DEF Announces
  <2>2. w.by \in Users
    BY <1>3, JobAt
  <2>3. Honest(w.out[1])'
    BY <1>2, <2>1
  <2> QED
    BY <1>1, <1>3, <2>1, <2>2, <2>3 DEF Holding, JoinAwaits
<1>6. /\ job' \in [Jobs -> Handlers] /\ HandlersHold'
      /\ \A i \in Jobs : job'[i] = IF i = j THEN w ELSE job[i]
  BY <1>1, <1>3, <1>5, JobMoves
<1>7. AllHonest'
  BY <1>1, ViewsStayHonest DEF WriteRow
<1> QED
  BY <1>3, <1>6, <1>7

LEMMA OneLess ==
    ASSUME NEW S, IsFiniteSet(S), NEW x, NEW T, T \subseteq S \ {x}
    PROVE  /\ Cardinality(T) \in Nat /\ Cardinality(T) <= Cardinality(S)
           /\ x \in S => Cardinality(T) + 1 <= Cardinality(S)
<1>1. IsFiniteSet(T) /\ Cardinality(T) <= Cardinality(S)
  BY FS_Subset
<1>2. ASSUME x \in S PROVE Cardinality(T) + 1 <= Cardinality(S)
  <2>1. IsFiniteSet(S \ {x}) /\ Cardinality(S \ {x}) = Cardinality(S) - 1
    <3> DEFINE n == Cardinality(S)
    <3>1. IsFiniteSet(S \ {x}) /\ Cardinality(S \ {x}) = IF x \in S THEN n - 1 ELSE n
      BY FS_RemoveElement
    <3> HIDE DEF n
    <3>2. Cardinality(S \ {x}) = n - 1
      BY <1>2, <3>1
    <3> QED
      BY <3>1, <3>2 DEF n
  <2>2. Cardinality(T) <= Cardinality(S \ {x})
    BY <2>1, FS_Subset
  <2> QED
    BY <1>1, <2>1, <2>2, FS_CardinalityType
<1> QED
  BY <1>1, <1>2, FS_CardinalityType

\* What is announced of a new row, of an edit and of a deletion.
Tells(e, m, row) ==
    \/ m = Len(table) + 1 /\ e = [kind |-> "new-message", row |-> row]
    \/ m \in Sent /\ e = Edited(row) /\ row = [table[m] EXCEPT !.text = @ + 1]
    \/ /\ m \in Sent /\ e = [kind |-> "message-deleted", id |-> m]
       /\ row = [table[m] EXCEPT !.deleted = TRUE]

LEMMA Writes ==
    ASSUME Base, NEW j \in Jobs, SendCreate(j) \/ EditUpdate(j) \/ DeleteUpdate(j)
    PROVE  /\ job[j].at \in {"create", "update", "softDelete"}
           /\ \E m, row, e : /\ WriteRow(j, m, row, e) /\ Spends(j, m, row)
                             /\ Continues(m, row) /\ Announces(e, m, row) /\ Tells(e, m, row)
<1>1. Len(table) \in Nat /\ \A m \in Sent : table[m] \in Message /\ table[m].id = m
  BY DEF Base, Types, Sent
<1>2. CASE SendCreate(j)
  <2>1. job[j].at = "create" /\ j \in Creators
    BY <1>2 DEF SendCreate, Creators
  <2>2. PICK files \in Files :
           LET m == Len(table) + 1
               row == [id |-> m, by |-> job[j].by, text |-> 0, files |-> files, deleted |-> FALSE]
           IN WriteRow(j, m, row, [kind |-> "new-message", row |-> row])
    BY <1>2 DEF SendCreate
  <2> DEFINE m == Len(table) + 1
             row == [id |-> m, by |-> job[j].by, text |-> 0, files |-> files, deleted |-> FALSE]
             e == [kind |-> "new-message", row |-> row]
  <2>3. m \in Ids /\ m \in 1..Len(table) + 1 /\ m \notin Sent
    <3>1. Cardinality(Creators) \in Nat /\ Cardinality(Creators) # 0
      BY <2>1, Counts, FS_EmptySet
    <3>2. Len(table) + Cardinality(Creators) <= MaxMsgs
      BY DEF Base, BoundsLast
    <3> QED
      BY <1>1, <3>1, <3>2, ChatAssumption DEF Ids, Sent
  <2>4. row \in Message
    BY <2>1, <2>3, JobAt, ChatAssumption DEF Message
  <2>5. Continues(m, row)
    BY <2>3, <2>4 DEF Continues
  <2>6. Announces(e, m, row)
    BY <2>4, ChatAssumption DEF Announces, Announcements, About
  <2>7. Tells(e, m, row) /\ Spends(j, m, row)
    BY <2>1 DEF Tells, Spends
  <2>8. WriteRow(j, m, row, e)
    BY <2>2
  <2> QED
    BY <2>1, <2>5, <2>6, <2>7, <2>8
<1>3. CASE EditUpdate(j)
  <2> DEFINE m == job[j].msg
             row == [table[m] EXCEPT !.text = @ + 1]
             e == Edited(row)
  <2>1. job[j].at = "update" /\ WriteRow(j, m, row, e)
    BY <1>3 DEF EditUpdate
  <2>2. m \in Sent /\ j \in Editors(m) /\ m \in Ids /\ m \in 1..Len(table) + 1
    <3>1. m \in Sent
      BY <2>1, JobAt DEF Holding
    <3> QED
      BY <1>1, <2>1, <3>1, Pending DEF Editors, Sent
  <2> HIDE DEF m
  <2>3. table[m].text + 1 \in 0..MaxEdits
    <3>1. Cardinality(Editors(m)) \in Nat /\ Cardinality(Editors(m)) # 0
      BY <2>2, Counts, FS_EmptySet
    <3>2. table[m].text + Cardinality(Editors(m)) <= MaxEdits
      BY <2>2 DEF Base, BoundsLast
    <3>3. table[m].text \in Nat
      BY <1>1, <2>2, ChatAssumption DEF Message
    <3> QED
      BY <3>1, <3>2, <3>3, ChatAssumption
  <2>4. /\ row \in Message /\ row.id = m /\ row.by = table[m].by /\ row.text = table[m].text + 1
        /\ row.files = table[m].files /\ row.deleted = table[m].deleted
        /\ table[m].text \in Nat
    BY <1>1, <2>2, <2>3, ChatAssumption DEF Message
  <2>5. Continues(m, row) /\ Spends(j, m, row) /\ Tells(e, m, row)
    BY <2>2, <2>4 DEF Continues, Spends, Tells
  <2> HIDE DEF row
  <2>6. Announces(e, m, row)
    <3>1. /\ e.kind = "message-edited" /\ e.row \in Message /\ e.row.id = m
          /\ e.row.by = row.by /\ e.row.text = row.text /\ ~e.row.files
          /\ e.row.deleted = row.deleted
          /\ e = [kind |-> "message-edited", row |-> e.row]
      BY <2>4 DEF Edited, Message
    <3>2. e.row.text <= row.text
      BY <2>4, <3>1, ChatAssumption
    <3> HIDE DEF e
    <3>3. e \in Announcements /\ About(e) = m
      BY <3>1 DEF Announcements, About
    <3> QED
      BY <3>1, <3>2, <3>3 DEF Announces
  <2> QED
    BY <2>1, <2>5, <2>6
<1>4. CASE DeleteUpdate(j)
  <2> DEFINE m == job[j].msg
             row == [table[m] EXCEPT !.deleted = TRUE]
             e == [kind |-> "message-deleted", id |-> m]
  <2>1. job[j].at = "softDelete" /\ WriteRow(j, m, row, e)
    BY <1>4 DEF DeleteUpdate
  <2>2. m \in Sent /\ m \in Ids /\ m \in 1..Len(table) + 1
    <3>1. m \in Sent
      BY <2>1, JobAt DEF Holding
    <3> QED
      BY <1>1, <2>1, <3>1, Pending DEF Sent
  <2> HIDE DEF m
  <2>3. /\ row \in Message /\ row.id = m /\ row.by = table[m].by /\ row.text = table[m].text
        /\ row.files = table[m].files /\ row.deleted /\ table[m].text <= row.text
    <3>1. table[m] \in Message /\ table[m].id = m
      BY <1>1, <2>2
    <3>2. table[m].text <= table[m].text
      BY <3>1, ChatAssumption DEF Message
    <3> QED
      BY <3>1, <3>2 DEF Message
  <2>4. Continues(m, row) /\ Spends(j, m, row) /\ Tells(e, m, row)
    BY <2>2, <2>3 DEF Continues, Spends, Tells
  <2>5. Announces(e, m, row)
    BY <2>2, <2>3 DEF Announces, Announcements, About
  <2> QED
    BY <2>1, <2>4, <2>5
<1> QED
  BY <1>2, <1>3, <1>4

LEMMA BaseWrites ==
    ASSUME Base, NEW j \in Jobs, SendCreate(j) \/ EditUpdate(j) \/ DeleteUpdate(j) PROVE Base'
<1>1. PICK m, row, e : /\ WriteRow(j, m, row, e) /\ Spends(j, m, row)
                       /\ Continues(m, row) /\ Announces(e, m, row) /\ Tells(e, m, row)
  BY Writes
<1>2. /\ job' \in [Jobs -> Handlers] /\ HandlersHold' /\ AllHonest'
      /\ \A i \in Jobs : i # j => job'[i] = job[i]
      /\ job'[j].at = "emit"
  BY <1>1, Writes, WriteFacts
<1>3. Types /\ UNCHANGED <<present, link, wire, view, loaded, oldest>>
  BY <1>1 DEF Base, Types, WriteRow
<1>4. /\ table' \in Seq(Message) /\ TableGrows
      /\ Sent' = Sent \cup {m} /\ Len(table) \in Nat
      /\ Len(table') = IF m > Len(table) THEN m ELSE Len(table)
      /\ m > Len(table) <=> m = Len(table) + 1
      /\ table'[m] = row
      /\ \A n \in Sent : n # m => table'[n] = table[n]
      /\ \A n \in Sent' : table'[n].id = n
  <2>1. table' = IF m > Len(table) THEN Append(table, row) ELSE [table EXCEPT ![m] = row]
    BY <1>1 DEF WriteRow
  <2> QED
    BY <1>1, <1>3, <2>1, TableWrites
<1>5. \A n \in Sent : table[n].text \in Nat
  <2>1. \A n \in Sent : table[n] \in Message
    BY <1>3 DEF Types, Sent
  <2> QED
    BY <2>1, ChatAssumption DEF Message
<1>6. BoundsLast'
  <2>1. Creators' \subseteq Creators \ {j} /\ \A n : Editors(n)' \subseteq Editors(n) \ {j}
    BY <1>2 DEF Creators, Editors
  <2>2. /\ Cardinality(Creators') \in Nat /\ Cardinality(Creators') <= Cardinality(Creators)
        /\ j \in Creators => Cardinality(Creators') + 1 <= Cardinality(Creators)
    BY <2>1, Counts, OneLess
  <2>3. \A n : /\ Cardinality(Editors(n)') \in Nat
               /\ Cardinality(Editors(n)') <= Cardinality(Editors(n))
               /\ j \in Editors(n) => Cardinality(Editors(n)') + 1 <= Cardinality(Editors(n))
    BY <2>1, Counts, OneLess
  <2>4. Len(table') + Cardinality(Creators') <= MaxMsgs
    <3>1. Len(table) + Cardinality(Creators) <= MaxMsgs
      BY DEF Base, BoundsLast
    <3>2. CASE m = Len(table) + 1 /\ j \in Creators
      BY <1>4, <2>2, <3>1, <3>2, Counts, ChatAssumption
    <3>3. CASE m \in Sent
      <4>1. Len(table') = Len(table)
        BY <1>4, <3>3 DEF Sent
      <4> QED
        BY <1>4, <2>2, <3>1, <4>1, Counts, ChatAssumption
    <3> QED
      BY <1>1, <3>2, <3>3 DEF Spends
  <2>5. ASSUME NEW n \in Sent' PROVE table'[n].text + Cardinality(Editors(n)') <= MaxEdits
    <3>1. n \in Sent => table[n].text + Cardinality(Editors(n)) <= MaxEdits
      BY DEF Base, BoundsLast
    <3> DEFINE now == Cardinality(Editors(n)')
               was == Cardinality(Editors(n))
    <3>5. now \in Nat /\ was \in Nat /\ now <= was /\ MaxEdits \in Nat
      BY <2>3, Counts, ChatAssumption
    <3>6. j \in Editors(n) => now + 1 <= was
      BY <2>3
    <3> HIDE DEF now, was
    <3>2. CASE n # m
      <4>1. n \in Sent /\ table'[n] = table[n] /\ table[n].text \in Nat
        BY <1>4, <1>5, <3>2
      <4>2. table[n].text + was <= MaxEdits
        BY <3>1, <4>1 DEF was
      <4>3. table[n].text + now <= MaxEdits
        BY <3>5, <4>1, <4>2
      <4> QED
        BY <4>1, <4>3 DEF now
    <3>3. CASE n = m /\ m \in Sent
      <4>1. table'[n] = row /\ table[n].text \in Nat
        BY <1>4, <1>5, <3>3
      <4>2. table[n].text + was <= MaxEdits
        BY <3>1, <3>3 DEF was
      <4>3. row.text = table[n].text \/ (row.text = table[n].text + 1 /\ j \in Editors(n))
        BY <1>1, <1>4, <3>3 DEF Spends, Sent
      <4>4. CASE row.text = table[n].text
        BY <3>5, <4>1, <4>2, <4>4 DEF now
      <4>5. CASE row.text = table[n].text + 1 /\ j \in Editors(n)
        <5>1. table[n].text + 1 + now <= MaxEdits
          BY <3>5, <3>6, <4>1, <4>2, <4>5
        <5> QED
          BY <4>1, <4>5, <5>1 DEF now
      <4> QED
        BY <4>3, <4>4, <4>5
    <3>4. CASE n = m /\ m \notin Sent
      <4>1. row.text = 0
        BY <1>1, <3>4 DEF Spends
      <4>2. Editors(m) = {}
        BY <3>4 DEF Base, HandlersHold, Holding, Editors
      <4>3. Cardinality(Editors(m)) = 0
        BY <4>2, FS_EmptySet
      <4> QED
        BY <1>4, <2>3, <3>4, <4>1, <4>3, ChatAssumption
    <3> QED
      BY <3>2, <3>3, <3>4
  <2> QED
    BY <2>4, <2>5 DEF BoundsLast, Sent
<1>7. contended' \in [Watchers -> SUBSET Ids] /\ crossed' \subseteq Ids
  <2>1. m \in Ids
    BY <1>1 DEF Continues
  <2> QED
    BY <1>1, <1>3, <2>1 DEF WriteRow, Types
<1> QED
  BY <1>2, <1>3, <1>4, <1>6, <1>7 DEF Base, Types, Sent

-----------------------------------------------------------------------------
(* Types, and that what is shown was written.                              *)

LEMMA BaseInit == Init => Base
<1> SUFFICES ASSUME Init PROVE Base
  OBVIOUS
<1>1. table = <<>> /\ Len(table) = 0 /\ Sent = {} /\ \A j \in Jobs : job[j] = Idle
  BY DEF Init, Sent
<1>2. Types
  <2>1. job \in [Jobs -> Handlers] /\ oldest \in [Watchers -> Ids]
    BY IdleHolds, ChatAssumption DEF Init, Ids
  <2>2. <<>> \in Seq(Message) /\ <<>> \in Seq(Events)
    OBVIOUS
  <2> QED
    BY <1>1, <2>1, <2>2 DEF Types, Init
<1>3. HandlersHold
  BY <1>1, IdleHolds DEF HandlersHold
<1>4. BoundsLast
  <2>1. Creators = {}
    BY <1>1, IdleHolds DEF Creators, Idle, Job
  <2>2. Cardinality(Creators) = 0
    BY <2>1, FS_EmptySet
  <2> QED
    BY <1>1, <2>2, ChatAssumption DEF BoundsLast
<1>5. AllHonest
  BY DEF AllHonest, Init, AllWritten
<1> QED
  BY <1>2, <1>3, <1>4, <1>5 DEF Base

LEMMA BaseStep == Base /\ [Next]_vars => Base'
<1> SUFFICES ASSUME Base, [Next]_vars PROVE Base'
  OBVIOUS
<1>1. CASE UNCHANGED vars
  <2>1. UNCHANGED <<table, present, job, link, wire, view, loaded, contended, oldest, crossed>>
    BY <1>1 DEF vars
  <2>2. HandlersHold' /\ BoundsLast' /\ AllHonest'
    BY <2>1, HandlersRest, BoundsStay, SameTable, ViewsStayHonest DEF Base, Types
  <2> QED
    BY <2>1, <2>2 DEF Base, Types, Sent
<1>2. ASSUME NEW j \in Jobs, Ask(j) PROVE Base'
  BY <1>2, BaseJoins, BaseStarts, BaseDeletes DEF Ask
<1>3. ASSUME NEW j \in Jobs, Proceed(j) PROVE Base'
  BY <1>3, BaseJoins, BaseReply, BaseWrites, BaseDeletes, BaseBroadcast DEF Proceed
<1>4. ASSUME NEW u \in Watchers, Handle(u) \/ Disconnect(u) PROVE Base'
  BY <1>4, BaseHandle, BaseDisconnect
<1>5. ASSUME NEW u \in Users, Leave(u) \/ Rejoin(u) PROVE Base'
  BY <1>5, BasePresent
<1> QED
  BY <1>1, <1>2, <1>3, <1>4, <1>5 DEF Next

LEMMA BaseHolds == Spec => []Base
<1> QED
  BY BaseInit, BaseStep, PTL DEF Spec

\* Rows, handlers, events and lists have their types, and the bounds are kept: a
\* handler that has passed its check finds room for what it writes.
THEOREM TypeCorrect == Spec => []TypeOK
<1>1. Base => TypeOK
  <2> SUFFICES ASSUME Base PROVE TypeOK
    OBVIOUS
  <2>1. Len(table) <= MaxMsgs
    BY Counts, ChatAssumption DEF Base, Types, BoundsLast
  <2>2. \A j \in Jobs : job[j].by \in Users \cup {None} /\ job[j].msg \in 0..MaxMsgs
    BY DEF Base, Types, Handlers
  <2> QED
    BY <2>1, <2>2 DEF Base, Types, TypeOK
<1> QED
  BY <1>1, BaseHolds, PTL

\* Nobody is shown what was never written: a list, what is on its way to it, what a
\* join has read and what a handler is about to announce are all of the table, which
\* only grows (HandlersHold and AllHonest).
THEOREM ShownIsWritten == Spec => []ShownWasWritten
<1>1. Base => ShownWasWritten
  BY RowsDomain DEF Base, AllHonest, AllWritten, Written, ShownWasWritten, Types
<1> QED
  BY <1>1, BaseHolds, PTL

-----------------------------------------------------------------------------
(* Connections, and messages that cross.                                   *)

\* The handlers that announce are the ones that did.
SameEmits == \A i \in Jobs : job[i].at = "emit" \/ job'[i].at = "emit" => job'[i] = job[i]

\* The joins under way are some of those that were.
FewerJoins ==
    \A i \in Jobs : job'[i].at \in JoinAwaits =>
        job[i].at \in JoinAwaits /\ job'[i].by = job[i].by

LEMMA ConnectionsStay ==
    ASSUME Connections, FewerJoins, UNCHANGED <<link, wire, loaded>> PROVE Connections'
<1>1. \A u : Joining(u)' => Joining(u)
  BY DEF Joining, FewerJoins
<1>2. \A u : Loading(u)' => Loading(u)
  BY DEF Loading
<1> QED
  BY <1>1, <1>2 DEF Connections, FewerJoins

LEMMA CrossedStays ==
    ASSUME Base, LaterCrossed, SameEmits, UNCHANGED <<table, crossed>> PROVE LaterCrossed'
  BY DEF LaterCrossed, SameEmits, Sent

-----------------------------------------------------------------------------
(* Lists that nothing is added to.                                         *)

LEMMA OrderedStays ==
    ASSUME NEW u, contended[u] \subseteq contended'[u], crossed \subseteq crossed'
    PROVE  \A rows : Ordered(u, rows) => Ordered(u, rows)'
  BY DEF Ordered

LEMMA GoodStays ==
    ASSUME SameEmits, UNCHANGED table, NEW u, contended'[u] = contended[u]
    PROVE  \A rows, first : Good(u, rows, first) => Good(u, rows, first)'
<1>1. \A m : \A i \in Jobs : /\ Emitting(i, m)' <=> Emitting(i, m)
                             /\ Emitting(i, m) => job'[i] = job[i]
  BY DEF Emitting, SameEmits
<1>2. \A rows, m, e : Ready(rows, m, e) => Ready(rows, m, e)'
  BY DEF Ready
<1>3. \A rows, m : Right(rows, m) => Right(rows, m)'
  BY DEF Right
<1>4. \A rows, m : RightFor(rows, m) => RightFor(rows, m)'
  BY <1>1, <1>2, <1>3 DEF RightFor
<1> QED
  BY <1>4 DEF Good, Sent

LEMMA AgreesStays ==
    ASSUME NEW u, Agrees(u), wire'[u] = wire[u], view'[u] = view[u], loaded'[u] = loaded[u],
           oldest'[u] = oldest[u],
           \A rows : Ordered(u, rows) => Ordered(u, rows)',
           \A rows, first : Good(u, rows, first) => Good(u, rows, first)'
    PROVE  Agrees(u)'
<1>1. PICK f : /\ Track(u, f)
               /\ \A k \in 0..Len(wire[u]) : LoadedAt(u, k) => Ordered(u, f[k])
               /\ LoadedAt(u, Len(wire[u])) => Good(u, f[Len(wire[u])], oldest[u])
  BY DEF Agrees
<1>2. Track(u, f)'
  BY <1>1 DEF Track
<1>3. \A k : LoadedAt(u, k)' <=> LoadedAt(u, k)
  BY DEF LoadedAt
<1>4. \A k \in 0..Len(wire'[u]) : LoadedAt(u, k)' => Ordered(u, f[k])'
  BY <1>1, <1>3
<1>5. PICK n : n = Len(wire[u])
  OBVIOUS
<1>6. LoadedAt(u, n)' => Good(u, f[n], oldest[u])'
  BY <1>1, <1>3, <1>5
<1> QED
  BY <1>2, <1>4, <1>5, <1>6 DEF Agrees

\* Steps that emit nothing, show nothing and write nothing.
LEMMA ListsStay ==
    ASSUME Base, ListsAgree, SameEmits, UNCHANGED <<table, wire, view, loaded, oldest>>,
           \A u \in Watchers : contended'[u] = contended[u], crossed' = crossed,
           job' \in [Jobs -> Handlers],
           \A i \in Jobs : job'[i].at = "joinReply" => job'[i] = job[i]
    PROVE  ListsAgree'
<1>1. ASSUME NEW u \in Watchers
      PROVE  /\ \A rows : Ordered(u, rows) => Ordered(u, rows)'
             /\ \A rows, first : Good(u, rows, first) => Good(u, rows, first)'
  BY OrderedStays, GoodStays
<1>2. ASSUME NEW u \in Watchers PROVE Agrees(u)'
  BY <1>1, AgreesStays DEF ListsAgree
<1>3. ASSUME NEW i \in Jobs PROVE WellRead(job[i])'
  <2>1. PICK w \in Handlers : w = job'[i]
    OBVIOUS
  <2>2. ASSUME w.at = "joinReply"
        PROVE  Ordered(w.by, w.out)' /\ Good(w.by, w.out, First(w.out))'
    <3>1. w = job[i] /\ w.by \in Watchers
      BY <2>1, <2>2, JobAt DEF Holding, JoinAwaits
    <3>2. Ordered(w.by, w.out) /\ Good(w.by, w.out, First(w.out))
      BY <2>2, <3>1 DEF ListsAgree, WellRead
    <3> QED
      BY <1>1, <3>1, <3>2
  <2> QED
    BY <2>1, <2>2 DEF WellRead
<1> QED
  BY <1>2, <1>3 DEF ListsAgree

-----------------------------------------------------------------------------
(* What an announcement does to a list.                                    *)

LEMMA ShownShape ==
    ASSUME NEW rows \in Seq(Message), NEW e \in Announcements
    PROVE  /\ Shown(rows, e) \in Seq(Message)
           /\ DOMAIN rows = 1..Len(rows) /\ Len(rows) \in Nat
           /\ DOMAIN rows \subseteq DOMAIN Shown(rows, e)
           /\ \A i \in DOMAIN rows :
                 /\ Shown(rows, e)[i].id = rows[i].id
                 /\ rows[i].id # About(e) => Shown(rows, e)[i] = rows[i]
           /\ \A i \in DOMAIN Shown(rows, e) \ DOMAIN rows :
                 /\ e.kind = "new-message" /\ i = Len(rows) + 1
                 /\ Shown(rows, e)[i] = e.row /\ Shown(rows, e)[i].id = About(e)
           /\ e.kind = "new-message" => Len(rows) + 1 \in DOMAIN Shown(rows, e) \ DOMAIN rows
<1>1. e \in Events /\ DOMAIN rows = 1..Len(rows) /\ Len(rows) \in Nat
  BY AnnouncementShapes, RowsDomain
<1>2. Shown(rows, e) \in Seq(Message)
  BY <1>1, ShownTyped
<1>3. CASE e.kind = "new-message"
  <2>1. e.row \in Message /\ About(e) = e.row.id /\ Shown(rows, e) = Append(rows, e.row)
    BY <1>3, AnnouncementShapes, ShownNew
  <2>2. DOMAIN Append(rows, e.row) = 1..Len(rows) + 1
    BY <2>1, AppendFacts, RowsDomain
  <2>3. \A i \in DOMAIN rows : Append(rows, e.row)[i] = rows[i]
    BY <1>1, <2>1, AppendFacts
  <2>4. Append(rows, e.row)[Len(rows) + 1] = e.row
    BY <2>1, AppendFacts
  <2>5. /\ Len(rows) + 1 \in DOMAIN Append(rows, e.row) \ DOMAIN rows
        /\ \A i \in DOMAIN Append(rows, e.row) \ DOMAIN rows : i = Len(rows) + 1
        /\ DOMAIN rows \subseteq DOMAIN Append(rows, e.row)
    BY <1>1, <2>2
  <2> QED
    BY <1>1, <1>2, <1>3, <2>1, <2>3, <2>4, <2>5
<1>4. CASE e.kind = "message-edited"
  BY <1>1, <1>2, <1>4, AnnouncementShapes, ShownEdited
<1>5. CASE e.kind = "message-deleted"
  <2>1. \A i \in DOMAIN rows : Deleted(rows[i]).id = rows[i].id
    <3>1. \A i \in DOMAIN rows : rows[i] \in Message
      BY <1>1
    <3> QED
      BY <3>1 DEF Message, Deleted
  <2> QED
    BY <1>1, <1>2, <1>5, <2>1, AnnouncementShapes, ShownDeleted
<1> QED
  BY <1>3, <1>4, <1>5, AnnouncementShapes

\* It leaves the lines of other messages as they are,
LEMMA OthersStay ==
    ASSUME NEW rows \in Seq(Message), NEW e \in Announcements, NEW m, About(e) # m
    PROVE  /\ Right(rows, m) => Right(Shown(rows, e), m)
           /\ \A d : Ready(rows, m, d) => Ready(Shown(rows, e), m, d)
<1> DEFINE new == Shown(rows, e)
<1>1. /\ DOMAIN rows \subseteq DOMAIN new
      /\ \A i \in DOMAIN rows : rows[i].id = m => new[i] = rows[i]
      /\ \A i \in DOMAIN new : new[i].id = m => i \in DOMAIN rows /\ rows[i].id = m
  BY ShownShape
<1> HIDE DEF new
<1>2. Right(rows, m) => Right(new, m)
  BY <1>1 DEF Right
<1>3. ASSUME NEW d, Ready(rows, m, d) PROVE Ready(new, m, d)
  BY <1>1, <1>3 DEF Ready
<1> QED
  BY <1>2, <1>3 DEF new

\* and the list is right about its own when it was ready for it.
LEMMA OwnBecomesRight ==
    ASSUME NEW rows \in Seq(Message), NEW e \in Announcements, Ready(rows, About(e), e)
    PROVE  Right(Shown(rows, e), About(e))
<1> DEFINE new == Shown(rows, e)
           m == About(e)
<1>1. /\ DOMAIN rows \subseteq DOMAIN new
      /\ \A i \in DOMAIN rows : new[i].id = rows[i].id
      /\ \A i \in DOMAIN new \ DOMAIN rows : e.kind = "new-message" /\ i = Len(rows) + 1
  BY ShownShape
<1>2. CASE e.kind = "new-message"
  <2>1. Len(rows) + 1 \in DOMAIN new /\ new[Len(rows) + 1] = e.row /\ e.row.id = m
    BY <1>2, ShownShape, AnnouncementShapes
  <2>2. Shows(e.row, table[m]) /\ \A k \in DOMAIN rows : rows[k].id # m
    BY <1>2 DEF Ready
  <2> HIDE DEF new, m
  <2> QED
    BY <1>1, <2>1, <2>2 DEF Right, new, m
<1>3. CASE e.kind = "message-edited"
  <2>1. PICK i \in DOMAIN rows : rows[i].id = m /\ \A k \in DOMAIN rows : rows[k].id = m => k = i
    BY <1>3 DEF Ready
  <2>2. new[i] = e.row /\ Shows(e.row, table[m]) /\ i \in DOMAIN new
    BY <1>1, <1>3, <2>1, ShownEdited, AnnouncementShapes DEF Ready
  <2>3. \A k \in DOMAIN new : new[k].id = m => k = i
    BY <1>1, <1>3, <2>1
  <2> QED
    BY <1>1, <2>1, <2>2, <2>3 DEF Right
<1>4. CASE e.kind = "message-deleted"
  <2>1. PICK i \in DOMAIN rows : /\ rows[i].id = m /\ Shows(Deleted(rows[i]), table[m])
                                 /\ \A k \in DOMAIN rows : rows[k].id = m => k = i
    BY <1>4 DEF Ready
  <2>2. new[i] = Deleted(rows[i]) /\ i \in DOMAIN new
    BY <1>1, <1>4, <2>1, ShownDeleted, AnnouncementShapes
  <2>3. \A k \in DOMAIN new : new[k].id = m => k = i
    BY <1>1, <1>4, <2>1
  <2> QED
    BY <1>1, <2>1, <2>2, <2>3 DEF Right
<1> QED
  BY <1>2, <1>3, <1>4, AnnouncementShapes

-----------------------------------------------------------------------------
(* A list to which an event is sent.                                       *)

LEMMA TrackGrows ==
    ASSUME NEW u, wire[u] \in Seq(Events), NEW e \in Events, NEW f, Track(u, f),
           wire'[u] = Append(wire[u], e), view'[u] = view[u], loaded'[u] = loaded[u]
    PROVE  /\ Len(wire[u]) \in Nat /\ Len(wire'[u]) = Len(wire[u]) + 1
           /\ \A k \in 0..Len(wire[u]) : LoadedAt(u, k)' <=> LoadedAt(u, k)
           /\ LoadedAt(u, Len(wire[u]))' <=>
                 LoadedAt(u, Len(wire[u])) \/ e.kind = "room-joined"
           /\ \E g : /\ Track(u, g)'
                     /\ \A k \in 0..Len(wire[u]) : g[k] = f[k]
                     /\ g[Len(wire[u]) + 1] = Shown(f[Len(wire[u])], e)
<1>1. PICK n \in Nat : n = Len(wire[u])
  OBVIOUS
<1>2. /\ Len(wire'[u]) = n + 1 /\ wire'[u][n + 1] = e
      /\ \A k \in 1..n : wire'[u][k] = wire[u][k]
  BY <1>1, AppendFacts
<1>3. /\ \A k \in 0..n : LoadedAt(u, k)' <=> LoadedAt(u, k)
      /\ LoadedAt(u, n + 1)' <=> LoadedAt(u, n) \/ e.kind = "room-joined"
  <2>1. ASSUME NEW k \in 0..n PROVE LoadedAt(u, k)' <=> LoadedAt(u, k)
    <3>1. \A h \in 1..k : h \in 1..n
      BY <1>1
    <3> QED
      BY <1>2, <3>1 DEF LoadedAt
  <2>2. \A h : h \in 1..n + 1 <=> h \in 1..n \/ h = n + 1
    BY <1>1
  <2>3. LoadedAt(u, n + 1)' <=> LoadedAt(u, n) \/ e.kind = "room-joined"
    BY <1>2, <2>2 DEF LoadedAt
  <2> QED
    BY <2>1, <2>3
<1>4. /\ f \in [0..n -> Seq(Message)] /\ f[0] = view[u]
      /\ \A k \in 1..n : f[k] = Shown(f[k - 1], wire[u][k])
  BY <1>1 DEF Track
<1> DEFINE g == [k \in 0..n + 1 |-> IF k = n + 1 THEN Shown(f[n], e) ELSE f[k]]
<1>5. /\ \A k \in 0..n : g[k] = f[k]
      /\ g[n + 1] = Shown(f[n], e)
  BY <1>1
<1>6. g \in [0..n + 1 -> Seq(Message)]
  <2>1. Shown(f[n], e) \in Seq(Message)
    BY <1>1, <1>4, ShownTyped
  <2> QED
    BY <1>4, <2>1
<1> HIDE DEF g
<1>7. \A k \in 1..n + 1 : g[k] = Shown(g[k - 1], wire'[u][k])
  <2>1. ASSUME NEW k \in 1..n PROVE g[k] = Shown(g[k - 1], wire'[u][k])
    <3>1. k \in 0..n /\ k - 1 \in 0..n
      BY <1>1
    <3> QED
      BY <1>2, <1>4, <1>5, <3>1
  <2>2. n \in 0..n /\ \A k \in 1..n + 1 : k \in 1..n \/ k = n + 1
    BY <1>1
  <2>3. g[n + 1] = Shown(g[n], wire'[u][n + 1])
    BY <1>2, <1>5, <2>2
  <2>4. ASSUME NEW k \in 1..n + 1 PROVE g[k] = Shown(g[k - 1], wire'[u][k])
    <3>1. CASE k \in 1..n
      BY <2>1, <3>1
    <3>2. CASE k = n + 1
      <4>1. k - 1 = n
        BY <3>2
      <4>2. g[k] = Shown(g[k - 1], wire'[u][n + 1])
        BY <2>3, <3>2, <4>1
      <4> QED
        BY <3>2, <4>2
    <3> QED
      BY <2>2, <3>1, <3>2
  <2> QED
    BY <2>4
<1>8. g[0] = view'[u]
  BY <1>1, <1>4, <1>5
<1>9. PICK h : h = g
  OBVIOUS
<1>10. Track(u, h)'
  BY <1>2, <1>6, <1>7, <1>8, <1>9 DEF Track
<1>11. /\ \A k \in 0..n : h[k] = f[k]
       /\ h[n + 1] = Shown(f[n], e)
  BY <1>5, <1>9
<1>12. \E d : /\ Track(u, d)' /\ \A k \in 0..Len(wire[u]) : d[k] = f[k]
              /\ d[Len(wire[u]) + 1] = Shown(f[Len(wire[u])], e)
  BY <1>1, <1>10, <1>11
<1>13. /\ Len(wire[u]) \in Nat /\ Len(wire'[u]) = Len(wire[u]) + 1
       /\ \A k \in 0..Len(wire[u]) : LoadedAt(u, k)' <=> LoadedAt(u, k)
  BY <1>1, <1>2, <1>3
<1>14. LoadedAt(u, Len(wire[u]))' <=> LoadedAt(u, Len(wire[u])) \/ e.kind = "room-joined"
  BY <1>1, <1>2, <1>3
<1> QED
  BY <1>12, <1>13, <1>14

\* The announcement, and who still announces when it is out.
LEMMA BroadcastFacts ==
    ASSUME Base, NEW j \in Jobs, Broadcast(j)
    PROVE  /\ job[j].out[1] \in Announcements /\ About(job[j].out[1]) = job[j].msg
           /\ job[j].msg \in Sent /\ job[j].at = "emit"
           /\ job' \in [Jobs -> Handlers]
           /\ job'[j] = Idle /\ \A i \in Jobs : i # j => job'[i] = job[i]
           /\ \A n : \A i \in Jobs : Emitting(i, n)' <=> Emitting(i, n) /\ i # j
           /\ UNCHANGED <<table, present, link, view, loaded, oldest, crossed>>
           /\ \A u \in Watchers :
                 /\ wire'[u] = IF link[u] = "joined" THEN Append(wire[u], job[j].out[1])
                               ELSE wire[u]
                 /\ contended'[u] = IF Snapshot(u) THEN contended[u] \cup {job[j].msg}
                                    ELSE contended[u]
<1>1. job[j].at = "emit" /\ Holding(job[j]) /\ job \in [Jobs -> Handlers]
  BY JobAt DEF Broadcast, Base, Types
<1>2. job' = [job EXCEPT ![j] = Idle]
  BY DEF Broadcast, Done
<1>3. /\ job' \in [Jobs -> Handlers]
      /\ job'[j] = Idle /\ \A i \in Jobs : i # j => job'[i] = job[i]
  BY <1>1, <1>2, IdleHolds
<1>4. \A n : \A i \in Jobs : Emitting(i, n)' <=> Emitting(i, n) /\ i # j
  BY <1>3, IdleHolds DEF Emitting
<1>5. /\ job[j].out[1] \in Announcements /\ About(job[j].out[1]) = job[j].msg
      /\ job[j].msg \in Sent
  BY <1>1 DEF Holding
<1>6. \A u \in Watchers :
         /\ wire'[u] = IF link[u] = "joined" THEN Append(wire[u], job[j].out[1]) ELSE wire[u]
         /\ contended'[u] = IF Snapshot(u) THEN contended[u] \cup {job[j].msg} ELSE contended[u]
  BY DEF Broadcast, Emit
<1>7. UNCHANGED <<table, present, link, view, loaded, oldest, crossed>>
  BY DEF Broadcast
<1> QED
  BY <1>1, <1>3, <1>4, <1>5, <1>6, <1>7

\* A good list is good when the announcement has been shown on it.
LEMMA GoodShown ==
    ASSUME Base, NEW j \in Jobs, Broadcast(j), NEW u \in Watchers, NEW first,
           NEW rows \in Seq(Message), Good(u, rows, first), NEW e, e = job[j].out[1]
    PROVE  Good(u, Shown(rows, e), first)'
<1>1. PICK m : m = job[j].msg
  OBVIOUS
<1>2. /\ e \in Announcements /\ About(e) = m /\ m \in Sent /\ Emitting(j, m)
      /\ \A i \in Jobs : i # j => job'[i] = job[i]
      /\ \A n : \A i \in Jobs : Emitting(i, n)' <=> Emitting(i, n) /\ i # j
      /\ table' = table /\ contended[u] \subseteq contended'[u]
  BY <1>1, BroadcastFacts DEF Emitting
<1>3. PICK new : new = Shown(rows, e)
  OBVIOUS
<1>4. ASSUME NEW i \in DOMAIN new PROVE new[i].id \in Sent
  <2>1. CASE i \in DOMAIN rows
    <3>1. rows[i].id \in Sent
      BY <2>1 DEF Good
    <3> QED
      BY <1>2, <1>3, <2>1, <3>1, ShownShape
  <2>2. CASE i \notin DOMAIN rows
    BY <1>2, <1>3, <2>2, ShownShape
  <2> QED
    BY <2>1, <2>2
<1>5. ASSUME NEW n \in Sent, n >= first, n \notin contended'[u] PROVE RightFor(new, n)'
  <2>1. RightFor(rows, n)
    BY <1>2, <1>5 DEF Good
  <2>2. CASE n = m
    <3>1. Right(new, n)
      BY <1>2, <1>3, <2>1, <2>2, OwnBecomesRight DEF RightFor
    <3>2. \A i \in Jobs : ~Emitting(i, n)'
      BY <1>2, <2>1, <2>2 DEF RightFor
    <3>3. Right(new, n)'
      BY <1>2, <3>1 DEF Right
    <3> QED
      BY <3>2, <3>3 DEF RightFor
  <2>3. CASE n # m
    <3>1. /\ \A i \in Jobs : Emitting(i, n)' <=> Emitting(i, n)
          /\ \A i \in Jobs : Emitting(i, n) => job'[i] = job[i]
      BY <1>1, <1>2, <2>3 DEF Emitting
    <3>2. /\ Right(rows, n) => Right(new, n)
          /\ \A d : Ready(rows, n, d) => Ready(new, n, d)
      BY <1>2, <1>3, <2>3, OthersStay
    <3>3. /\ Right(rows, n) => Right(new, n)'
          /\ \A d : Ready(rows, n, d) => Ready(new, n, d)'
      BY <1>2, <3>2 DEF Right, Ready
    <3> QED
      BY <2>1, <3>1, <3>3 DEF RightFor
  <2> QED
    BY <2>2, <2>3
<1>6. Good(u, new, first)'
  BY <1>2, <1>4, <1>5 DEF Good, Sent
<1> QED
  BY <1>3, <1>6

\* So is its order: what it has of later messages than a new one has crossed it.
LEMMA OrderedShown ==
    ASSUME Base, LaterCrossed, NEW j \in Jobs, Broadcast(j), NEW u \in Watchers,
           NEW rows \in Seq(Message), Ordered(u, rows), \A i \in DOMAIN rows : rows[i].id \in Sent,
           NEW e, e = job[j].out[1]
    PROVE  Ordered(u, Shown(rows, e))'
<1>1. PICK new : new = Shown(rows, e)
  OBVIOUS
<1>2. /\ e \in Announcements /\ About(e) = job[j].msg /\ job[j].at = "emit"
      /\ crossed' = crossed /\ contended[u] \subseteq contended'[u]
  BY BroadcastFacts
<1>3. /\ DOMAIN rows = 1..Len(rows) /\ Len(rows) \in Nat
      /\ DOMAIN rows \subseteq DOMAIN new
      /\ \A i \in DOMAIN rows : new[i].id = rows[i].id
      /\ \A i \in DOMAIN new \ DOMAIN rows :
            e.kind = "new-message" /\ i = Len(rows) + 1 /\ new[i].id = job[j].msg
  BY <1>1, <1>2, ShownShape
<1>4. ASSUME NEW i \in DOMAIN new, NEW k \in DOMAIN new, new[i].id < new[k].id,
             {new[i].id, new[k].id} \cap contended'[u] = {}, new[k].id \notin crossed'
      PROVE  i < k
  <2>1. CASE i \in DOMAIN rows /\ k \in DOMAIN rows
    BY <1>2, <1>3, <1>4, <2>1 DEF Ordered
  <2>2. CASE i \in DOMAIN rows /\ k \notin DOMAIN rows
    BY <1>3, <2>2
  <2>3. CASE i \notin DOMAIN rows /\ k \in DOMAIN rows
    <3>1. new[k].id \in Sent /\ new[i].id = job[j].msg /\ e.kind = "new-message"
      BY <1>3, <2>3
    <3>2. job[j].msg \in Int /\ new[k].id \in Int
      BY <3>1, BroadcastFacts DEF Sent
    <3>3. new[k].id > job[j].msg
      BY <1>4, <3>1, <3>2
    <3>4. new[k].id \in crossed
      BY <1>2, <3>1, <3>3 DEF LaterCrossed
    <3> QED
      BY <1>2, <1>4, <3>4
  <2>4. CASE i \notin DOMAIN rows /\ k \notin DOMAIN rows
    <3>1. new[i].id = new[k].id /\ new[i].id \in Int
      BY <1>3, <2>4, BroadcastFacts DEF Sent
    <3> QED
      BY <1>4, <3>1
  <2> QED
    BY <2>1, <2>2, <2>3, <2>4
<1>5. Ordered(u, new)'
  BY <1>4 DEF Ordered
<1> QED
  BY <1>1, <1>5

LEMMA AgreesAnnounced ==
    ASSUME Base, Connections, LaterCrossed, NEW j \in Jobs, Broadcast(j),
           NEW u \in Watchers, Agrees(u)
    PROVE  Agrees(u)'
<1>1. PICK e : e = job[j].out[1]
  OBVIOUS
<1>2. /\ e \in Announcements /\ e \in Events /\ e.kind # "room-joined"
      /\ wire'[u] = IF link[u] = "joined" THEN Append(wire[u], e) ELSE wire[u]
      /\ view'[u] = view[u] /\ loaded'[u] = loaded[u] /\ oldest'[u] = oldest[u]
  BY <1>1, BroadcastFacts, AnnouncementShapes
<1>3. PICK f : /\ Track(u, f)
               /\ \A k \in 0..Len(wire[u]) : LoadedAt(u, k) => Ordered(u, f[k])
               /\ LoadedAt(u, Len(wire[u])) => Good(u, f[Len(wire[u])], oldest[u])
  BY DEF Agrees
<1>4. wire[u] \in Seq(Events) /\ link[u] \in {"off", "joined"}
  BY DEF Base, Types
<1>5. \A rows : Ordered(u, rows) => Ordered(u, rows)'
  <2>1. contended[u] \subseteq contended'[u] /\ crossed' = crossed
    BY BroadcastFacts
  <2> QED
    BY <2>1, OrderedStays
<1>6. CASE link[u] = "off"
  <2>1. wire'[u] = wire[u] /\ wire[u] = <<>> /\ ~loaded[u] /\ Len(wire[u]) = 0
    BY <1>2, <1>6 DEF Connections
  <2>2. \A k \in 0..0 : ~LoadedAt(u, k)'
    BY <1>2, <2>1 DEF LoadedAt
  <2>3. Track(u, f)'
    BY <1>2, <1>3, <2>1 DEF Track
  <2> QED
    BY <2>1, <2>2, <2>3 DEF Agrees
<1>7. CASE link[u] = "joined"
  <2>1. PICK n \in Nat : n = Len(wire[u])
    BY <1>4
  <2>2. PICK g : /\ Track(u, g)' /\ \A k \in 0..n : g[k] = f[k]
                 /\ g[n + 1] = Shown(f[n], e)
    BY <1>2, <1>3, <1>4, <1>7, <2>1, TrackGrows
  <2>3. /\ Len(wire'[u]) = n + 1
        /\ \A k \in 0..n : LoadedAt(u, k)' <=> LoadedAt(u, k)
        /\ LoadedAt(u, Len(wire[u]))' <=> LoadedAt(u, n)
    BY <1>2, <1>3, <1>4, <1>7, <2>1, TrackGrows
  <2>4. f[n] \in Seq(Message)
    BY <1>3, <2>1 DEF Track
  <2>5. ASSUME LoadedAt(u, n)
        PROVE  Ordered(u, g[n + 1])' /\ Good(u, g[n + 1], oldest[u])'
    <3>1. Ordered(u, f[n]) /\ Good(u, f[n], oldest[u]) /\ \A i \in DOMAIN f[n] : f[n][i].id \in Sent
      BY <1>3, <2>1, <2>5 DEF Good
    <3>2. PICK first : first = oldest[u]
      OBVIOUS
    <3>3. Good(u, Shown(f[n], e), first)'
      BY <1>1, <2>4, <3>1, <3>2, GoodShown
    <3>4. Ordered(u, Shown(f[n], e))'
      BY <1>1, <2>4, <3>1, OrderedShown
    <3>5. PICK rows : rows = g[n + 1] /\ rows = Shown(f[n], e)
      BY <2>2
    <3> QED
      BY <1>2, <3>2, <3>3, <3>4, <3>5
  <2>6. ASSUME NEW k \in 0..n + 1, LoadedAt(u, k)' PROVE Ordered(u, g[k])'
    <3>1. CASE k \in 0..n
      <4>1. Ordered(u, f[k]) /\ g[k] = f[k]
        BY <1>3, <2>1, <2>2, <2>3, <2>6, <3>1
      <4> QED
        BY <1>5, <4>1
    <3>2. CASE k = n + 1
      BY <2>3, <2>5, <2>6, <3>2
    <3> QED
      BY <2>1, <3>1, <3>2
  <2>7. LoadedAt(u, Len(wire[u]))' => Good(u, g[Len(wire[u])], oldest[u])'
    BY <2>3, <2>5
  <2> QED
    BY <2>2, <2>3, <2>6, <2>7 DEF Agrees
<1> QED
  BY <1>4, <1>6, <1>7

\* A list that has been read and is not out has the message announced meanwhile in
\* doubt.
LEMMA ReadAnnounced ==
    ASSUME Base, NEW j \in Jobs, Broadcast(j), NEW i \in Jobs, WellRead(job[i])
    PROVE  WellRead(job[i])'
<1>1. PICK w \in Handlers : w = job'[i]
  BY BroadcastFacts
<1>2. ASSUME w.at = "joinReply"
      PROVE  Ordered(w.by, w.out)' /\ Good(w.by, w.out, First(w.out))'
  <2>1. w = job[i] /\ i # j
    BY <1>1, <1>2, BroadcastFacts, IdleHolds DEF JoinAwaits
  <2>2. w.by \in Watchers /\ Snapshot(w.by)
    BY <1>2, <2>1, JobAt DEF Holding, JoinAwaits, Snapshot
  <2>3. Ordered(w.by, w.out) /\ Good(w.by, w.out, First(w.out))
    BY <1>2, <2>1 DEF WellRead
  <2>4. /\ contended'[w.by] = contended[w.by] \cup {job[j].msg} /\ table' = table
        /\ crossed' = crossed
    BY <2>2, BroadcastFacts
  <2>5. Ordered(w.by, w.out)'
    BY <2>3, <2>4, OrderedStays
  <2>6. ASSUME NEW n \in Sent, n \notin contended'[w.by], RightFor(w.out, n)
        PROVE  RightFor(w.out, n)'
    <3>1. n # job[j].msg
      BY <2>4, <2>6
    <3>2. /\ \A h \in Jobs : Emitting(h, n)' <=> Emitting(h, n)
          /\ \A h \in Jobs : Emitting(h, n) => job'[h] = job[h]
      BY <3>1, BroadcastFacts DEF Emitting
    <3>3. /\ Right(w.out, n) => Right(w.out, n)'
          /\ \A d : Ready(w.out, n, d) => Ready(w.out, n, d)'
      BY <2>4 DEF Right, Ready
    <3> QED
      BY <2>6, <3>2, <3>3 DEF RightFor
  <2>7. Good(w.by, w.out, First(w.out))'
    BY <2>3, <2>4, <2>6 DEF Good, Sent, First
  <2> QED
    BY <2>5, <2>7
<1> QED
  BY <1>1, <1>2 DEF WellRead

LEMMA ConnectionsAnnounced ==
    ASSUME Base, Connections, NEW j \in Jobs, Broadcast(j) PROVE Connections'
<1>1. FewerJoins
  BY BroadcastFacts, IdleHolds DEF FewerJoins
<1>2. \A u : Joining(u)' => Joining(u)
  BY <1>1 DEF Joining, FewerJoins
<1>3. PICK e : e = job[j].out[1] /\ e \in Events /\ e.kind # "room-joined"
  BY BroadcastFacts, AnnouncementShapes
<1>4. ASSUME NEW u \in Watchers
      PROVE  /\ link[u] = "off" => wire'[u] = wire[u]
             /\ \A k \in 1..Len(wire'[u]) : wire'[u][k].kind = "room-joined" =>
                   k \in 1..Len(wire[u]) /\ wire[u][k].kind = "room-joined"
  <2>1. wire[u] \in Seq(Events)
    BY DEF Base, Types
  <2>2. wire'[u] = IF link[u] = "joined" THEN Append(wire[u], e) ELSE wire[u]
    BY <1>3, BroadcastFacts
  <2>3. CASE link[u] = "joined"
    <3>1. wire'[u] = Append(wire[u], e)
      BY <2>2, <2>3
    <3> QED
      BY <1>3, <2>1, <2>3, <3>1, AppendFacts
  <2>4. CASE link[u] # "joined"
    BY <2>2, <2>4
  <2> QED
    BY <2>3, <2>4
<1>5. \A u \in Watchers : Loading(u)' => Loading(u)
  BY <1>4 DEF Loading
<1>6. UNCHANGED <<link, loaded>>
  BY BroadcastFacts
<1> QED
  BY <1>1, <1>2, <1>4, <1>5, <1>6 DEF Connections, FewerJoins

LEMMA CrossedAnnounced ==
    ASSUME Base, LaterCrossed, NEW j \in Jobs, Broadcast(j) PROVE LaterCrossed'
  BY BroadcastFacts, IdleHolds DEF LaterCrossed, Sent

-----------------------------------------------------------------------------
(* A list when a row is written.                                           *)

\* The handler writes the row and is about to announce it.
Wrote(j, m, row, e) ==
    /\ WriteRow(j, m, row, e)
    /\ Continues(m, row) /\ Announces(e, m, row) /\ Tells(e, m, row)
    /\ job[j].at \in {"create", "update", "softDelete"}

LEMMA WroteFacts ==
    ASSUME Base, NEW j \in Jobs, NEW m, NEW row, NEW e, Wrote(j, m, row, e)
    PROVE  /\ table \in Seq(Message) /\ Len(table) \in Nat
           /\ Sent' = Sent \cup {m} /\ table'[m] = row /\ row.id = m /\ row \in Message
           /\ \A n \in Sent : n # m => table'[n] = table[n]
           /\ m > Len(table) <=> m = Len(table) + 1
           /\ m \notin Sent <=> m = Len(table) + 1
           /\ job' \in [Jobs -> Handlers] /\ job'[j].out[1] = e /\ job'[j].at = "emit"
           /\ job'[j].msg = m
           /\ \A i \in Jobs : i # j => job'[i] = job[i]
           /\ \A n : \A i \in Jobs : Emitting(i, n)' <=> Emitting(i, n) \/ (i = j /\ n = m)
           /\ \A n : \A i \in Jobs : Emitting(i, n) => job'[i] = job[i]
           /\ m \notin Unannounced => \A i \in Jobs : ~Emitting(i, m)
           /\ \A u \in Watchers : contended'[u] = contended[u] \cup ({m} \cap Unannounced)
           /\ crossed' = IF m > Len(table) /\ Unannounced # {} THEN crossed \cup {m} ELSE crossed
           /\ UNCHANGED <<present, link, wire, view, loaded, oldest>>
<1>1. /\ table' = IF m > Len(table) THEN Append(table, row) ELSE [table EXCEPT ![m] = row]
      /\ \A u \in Watchers : contended'[u] = contended[u] \cup ({m} \cap Unannounced)
      /\ crossed' = IF m > Len(table) /\ Unannounced # {} THEN crossed \cup {m} ELSE crossed
      /\ UNCHANGED <<present, link, wire, view, loaded, oldest>>
  BY DEF Wrote, WriteRow
<1>2. Types /\ table \in Seq(Message) /\ Continues(m, row)
  BY DEF Wrote, Base, Types
<1>3. /\ Sent' = Sent \cup {m} /\ Len(table) \in Nat
      /\ m > Len(table) <=> m = Len(table) + 1
      /\ table'[m] = row /\ \A n \in Sent : n # m => table'[n] = table[n]
  BY <1>1, <1>2, TableWrites
<1>4. m \notin Sent <=> m = Len(table) + 1
  BY <1>2, <1>3 DEF Continues, Sent
<1>5. /\ job' \in [Jobs -> Handlers] /\ job'[j].out = <<e>> /\ job'[j].at = "emit"
      /\ job'[j].msg = m /\ job[j].at # "emit"
      /\ \A i \in Jobs : i # j => job'[i] = job[i]
  BY WriteFacts DEF Wrote
<1>6. /\ \A n : \A i \in Jobs : Emitting(i, n)' <=> Emitting(i, n) \/ (i = j /\ n = m)
      /\ \A n : \A i \in Jobs : Emitting(i, n) => job'[i] = job[i]
  BY <1>5 DEF Emitting
<1>7. m \notin Unannounced => \A i \in Jobs : ~Emitting(i, m)
  BY DEF Unannounced, Emitting
<1>8. job'[j].out[1] = e /\ row \in Message /\ row.id = m
  BY <1>2, <1>5 DEF Continues
<1> QED
  BY <1>1, <1>2, <1>3, <1>4, <1>5, <1>6, <1>7, <1>8

\* A list that is right about the row is ready for the announcement.
LEMMA ReadyForWritten ==
    ASSUME Base, NEW j \in Jobs, NEW m, NEW row, NEW e, Wrote(j, m, row, e),
           NEW rows \in Seq(Message), \A i \in DOMAIN rows : rows[i].id \in Sent,
           m \in Sent => Right(rows, m)
    PROVE  Ready(rows, m, e)'
<1>1. Tells(e, m, row)
  BY DEF Wrote
<1>2. CASE m = Len(table) + 1 /\ e = [kind |-> "new-message", row |-> row]
  <2>1. m \notin Sent /\ table'[m] = row
    BY <1>2, WroteFacts
  <2> QED
    BY <1>2, <2>1 DEF Ready, Shows
<1>3. CASE m \in Sent /\ e = Edited(row) /\ row = [table[m] EXCEPT !.text = @ + 1]
  <2>1. table[m] \in Message /\ table'[m] = row /\ row \in Message
    BY <1>3, WroteFacts DEF Sent
  <2>2. row.text = table[m].text + 1 /\ table[m].text \in Nat /\ row.text > 0
    BY <1>3, <2>1, ChatAssumption DEF Message
  <2>3. e.kind = "message-edited" /\ e.row = [row EXCEPT !.files = FALSE]
    BY <1>3 DEF Edited
  <2>4. Shows(e.row, table'[m])
    BY <2>1, <2>2, <2>3 DEF Shows
  <2>5. PICK i \in DOMAIN rows : rows[i].id = m /\ \A k \in DOMAIN rows : rows[k].id = m => k = i
    BY <1>3 DEF Right
  <2> QED
    BY <2>3, <2>4, <2>5 DEF Ready, Shows
<1>4. CASE /\ m \in Sent /\ e = [kind |-> "message-deleted", id |-> m]
           /\ row = [table[m] EXCEPT !.deleted = TRUE]
  <2>1. table[m] \in Message /\ table'[m] = row
    BY <1>4, WroteFacts DEF Sent
  <2>2. PICK i \in DOMAIN rows :
           /\ rows[i].id = m /\ Shows(rows[i], table[m])
           /\ \A k \in DOMAIN rows : rows[k].id = m => k = i
    BY <1>4 DEF Right
  <2>3. Shows(Deleted(rows[i]), row)
    <3>1. CASE rows[i] = table[m]
      BY <1>4, <3>1 DEF Shows, Deleted
    <3>2. CASE table[m].text > 0 /\ rows[i] = [table[m] EXCEPT !.files = FALSE]
      <4>1. Deleted(rows[i]) = [row EXCEPT !.files = FALSE]
        BY <1>4, <2>1, <3>2 DEF Deleted, Message
      <4>2. row.text = table[m].text
        BY <1>4, <2>1 DEF Message
      <4> QED
        BY <3>2, <4>1, <4>2 DEF Shows
    <3> QED
      BY <2>2, <3>1, <3>2 DEF Shows
  <2>4. e.kind = "message-deleted"
    BY <1>4
  <2>5. Shows(Deleted(rows[i]), table'[m])
    BY <2>1, <2>3
  <2> QED
    BY <2>2, <2>4, <2>5 DEF Ready, Shows
<1> QED
  BY <1>1, <1>2, <1>3, <1>4 DEF Tells

LEMMA GoodWritten ==
    ASSUME Base, NEW j \in Jobs, NEW m, NEW row, NEW e, Wrote(j, m, row, e), NEW u \in Watchers
    PROVE  \A rows \in Seq(Message) : \A first :
              Good(u, rows, first) => Good(u, rows, first)'
<1> SUFFICES ASSUME NEW rows \in Seq(Message), NEW first, Good(u, rows, first)
             PROVE  Good(u, rows, first)'
  OBVIOUS
<1>1. \A i \in DOMAIN rows : rows[i].id \in Sent /\ rows[i].id \in Sent'
  BY WroteFacts DEF Good
<1>2. ASSUME NEW n \in Sent', n >= first, n \notin contended'[u] PROVE RightFor(rows, n)'
  <2>1. n \notin contended[u] /\ (n = m => m \notin Unannounced)
    BY <1>2, WroteFacts
  <2>2. n \in Sent => RightFor(rows, n)
    BY <1>2, <2>1 DEF Good
  <2>3. CASE n = m
    <3>1. \A i \in Jobs : ~Emitting(i, n)
      BY <2>1, <2>3, WroteFacts
    <3>2. Ready(rows, n, e)'
      BY <1>1, <2>2, <2>3, <3>1, ReadyForWritten DEF RightFor
    <3>3. \A i \in Jobs : Emitting(i, n)' <=> i = j
      BY <2>3, <3>1, WroteFacts
    <3>4. job'[j].out[1] = e
      BY WroteFacts
    <3> QED
      BY <3>2, <3>3, <3>4 DEF RightFor
  <2>4. CASE n # m
    <3>1. n \in Sent /\ table'[n] = table[n]
      BY <1>2, <2>4, WroteFacts
    <3>2. /\ \A i \in Jobs : Emitting(i, n)' <=> Emitting(i, n)
          /\ \A i \in Jobs : Emitting(i, n) => job'[i] = job[i]
      BY <2>4, WroteFacts
    <3>3. /\ Right(rows, n) => Right(rows, n)'
          /\ \A d : Ready(rows, n, d) => Ready(rows, n, d)'
      BY <3>1 DEF Right, Ready
    <3> QED
      BY <2>2, <3>1, <3>2, <3>3 DEF RightFor
  <2> QED
    BY <2>3, <2>4
<1> QED
  BY <1>1, <1>2 DEF Good

LEMMA OrderedWritten ==
    ASSUME Base, NEW j \in Jobs, NEW m, NEW row, NEW e, Wrote(j, m, row, e), NEW u \in Watchers
    PROVE  \A rows : Ordered(u, rows) => Ordered(u, rows)'
<1>1. contended[u] \subseteq contended'[u] /\ crossed \subseteq crossed'
  BY WroteFacts
<1> QED
  BY <1>1, OrderedStays

LEMMA CrossedWritten ==
    ASSUME Base, LaterCrossed, NEW j \in Jobs, NEW m, NEW row, NEW e, Wrote(j, m, row, e)
    PROVE  LaterCrossed'
<1>1. ASSUME NEW i \in Jobs, job'[i].at = "emit", job'[i].out[1].kind = "new-message",
             NEW n \in Sent', n > job'[i].msg
      PROVE  n \in crossed'
  <2>1. CASE i = j
    <3>1. e.kind = "new-message" /\ job'[i].msg = m
      BY <1>1, <2>1, WroteFacts
    <3>2. m = Len(table) + 1
      BY <3>1 DEF Wrote, Tells, Edited
    <3>3. n \in 1..Len(table) + 1 /\ Len(table) \in Nat
      BY <1>1, <3>2, WroteFacts DEF Sent
    <3> QED
      BY <1>1, <3>1, <3>2, <3>3
  <2>2. CASE i # j
    <3>1. job'[i] = job[i] /\ Unannounced # {}
      <4>1. job'[i] = job[i] /\ job[i].at = "emit"
        BY <1>1, <2>2, WroteFacts
      <4>2. job[i].msg \in Unannounced
        BY <4>1 DEF Unannounced
      <4> QED
        BY <4>1, <4>2
    <3>2. CASE n \in Sent
      BY <1>1, <3>1, <3>2, WroteFacts DEF LaterCrossed
    <3>3. CASE n \notin Sent
      BY <1>1, <3>1, <3>3, WroteFacts
    <3> QED
      BY <3>2, <3>3
  <2> QED
    BY <2>1, <2>2
<1> QED
  BY <1>1 DEF LaterCrossed

LEMMA TrackLists ==
    ASSUME NEW u, NEW f, Track(u, f), wire[u] \in Seq(Events), NEW k \in 0..Len(wire[u])
    PROVE  f[k] \in Seq(Message)
  BY DEF Track

LEMMA ListsWritten ==
    ASSUME Base, ListsAgree, NEW j \in Jobs, NEW m, NEW row, NEW e, Wrote(j, m, row, e)
    PROVE  ListsAgree'
<1>1. ASSUME NEW u \in Watchers PROVE Agrees(u)'
  <2>1. PICK f : /\ Track(u, f)
                 /\ \A k \in 0..Len(wire[u]) : LoadedAt(u, k) => Ordered(u, f[k])
                 /\ LoadedAt(u, Len(wire[u])) => Good(u, f[Len(wire[u])], oldest[u])
    BY DEF ListsAgree, Agrees
  <2>2. UNCHANGED <<wire, view, loaded, oldest>> /\ wire[u] \in Seq(Events)
    BY WroteFacts DEF Base, Types
  <2>3. Track(u, f)' /\ \A k : LoadedAt(u, k)' <=> LoadedAt(u, k)
    BY <2>1, <2>2 DEF Track, LoadedAt
  <2>4. \A k \in 0..Len(wire[u]) : LoadedAt(u, k)' => Ordered(u, f[k])'
    BY <2>1, <2>3, OrderedWritten
  <2>5. PICK n \in Nat : n = Len(wire[u])
    BY <2>2
  <2>6. PICK first : first = oldest[u]
    OBVIOUS
  <2>7. LoadedAt(u, n)' => Good(u, f[n], first)'
    <3>1. f[n] \in Seq(Message)
      BY <2>1, <2>2, <2>5, TrackLists
    <3>2. LoadedAt(u, n)' => Good(u, f[n], first)
      BY <2>1, <2>3, <2>5, <2>6
    <3> QED
      BY <3>1, <3>2, GoodWritten
  <2> QED
    BY <2>2, <2>3, <2>4, <2>5, <2>6, <2>7 DEF Agrees
<1>2. ASSUME NEW i \in Jobs PROVE WellRead(job[i])'
  <2>1. PICK w \in Handlers : w = job'[i]
    BY WroteFacts
  <2>2. ASSUME w.at = "joinReply"
        PROVE  Ordered(w.by, w.out)' /\ Good(w.by, w.out, First(w.out))'
    <3>1. w = job[i]
      BY <2>1, <2>2, WroteFacts
    <3>2. w.by \in Watchers /\ w.out \in Seq(Message)
      BY <2>2, <3>1, JobAt DEF Holding, JoinAwaits
    <3>3. Ordered(w.by, w.out) /\ Good(w.by, w.out, First(w.out))
      BY <2>2, <3>1 DEF ListsAgree, WellRead
    <3> QED
      BY <3>2, <3>3, GoodWritten, OrderedWritten
  <2> QED
    BY <2>1, <2>2 DEF WellRead
<1> QED
  BY <1>1, <1>2 DEF ListsAgree

-----------------------------------------------------------------------------
(* Joins.                                                                  *)

\* The rows that a join reads are right about what is not being announced.
LEMMA GoodRead ==
    ASSUME Base, NEW rows, rows = Newest(table)
    PROVE  /\ \A i \in DOMAIN rows : rows[i].id \in Sent
           /\ \A i, k \in DOMAIN rows : rows[i].id < rows[k].id => i < k
           /\ \A m \in Sent : m >= First(rows) => Right(rows, m)
<1>1. /\ rows \in Seq(Message)
      /\ table # <<>> => rows # <<>>
      /\ table \in Seq(Message) /\ Len(table) \in Nat
      /\ \A m \in Sent : table[m].id = m
  BY NewestRows DEF Base, Types
<1>2. PICK k \in 1..Len(table) + 1 :
         /\ Len(rows) = Len(table) - k + 1
         /\ \A i \in 1..Len(rows) : rows[i] = table[k + i - 1]
  BY NewestRows DEF Base
<1>3. DOMAIN rows = 1..Len(rows) /\ Len(rows) \in Nat
  BY <1>1
<1>4. ASSUME NEW i \in DOMAIN rows
      PROVE  k + i - 1 \in Sent /\ rows[i].id = k + i - 1 /\ rows[i] = table[k + i - 1]
    <2>1. k + i - 1 \in Sent
      BY <1>1, <1>2, <1>3 DEF Sent
    <2> QED
      BY <1>1, <1>2, <1>3, <2>1
<1>5. ASSUME NEW m \in Sent, m >= First(rows) PROVE Right(rows, m)
  <2>1. table # <<>> /\ rows # <<>> /\ m \in 1..Len(table)
    <3>1. m \in 1..Len(table) /\ Len(<<>>) = 0 /\ 1..0 = {}
      BY DEF Sent
    <3>2. table # <<>>
      BY <3>1
    <3> QED
      BY <1>1, <3>1, <3>2
  <2>2. 1 \in DOMAIN rows /\ First(rows) = k
    <3>1. 1 \in DOMAIN rows
      BY <1>1, <1>3, <2>1, EmptySeq
    <3>2. rows[1].id = k
      BY <1>2, <1>4, <3>1
    <3> QED
      BY <2>1, <3>1, <3>2 DEF First
  <2>3. m - k + 1 \in DOMAIN rows
    BY <1>1, <1>2, <1>3, <1>5, <2>1, <2>2
  <2>4. rows[m - k + 1] = table[m] /\ rows[m - k + 1].id = m
    <3>1. k + (m - k + 1) - 1 = m
      BY <1>2, <2>1
    <3> QED
      BY <1>4, <2>3, <3>1
  <2>5. \A i \in DOMAIN rows : rows[i].id = m => i = m - k + 1
    BY <1>2, <1>3, <1>4
  <2> QED
    BY <2>3, <2>4, <2>5 DEF Right, Shows
<1>6. \A i, h \in DOMAIN rows : rows[i].id < rows[h].id => i < h
  <2>1. ASSUME NEW i \in DOMAIN rows, NEW h \in DOMAIN rows, rows[i].id < rows[h].id
        PROVE  i < h
    BY <1>2, <1>3, <1>4, <2>1
  <2> QED
    BY <2>1
<1> QED
  BY <1>4, <1>5, <1>6

\* Nothing is loaded on the connection of a join under way.
LEMMA JoinersWait ==
    ASSUME Connections, Base, NEW j \in Jobs, job[j].at \in JoinAwaits
    PROVE  /\ job[j].by \in Watchers
           /\ \A k \in 0..Len(wire[job[j].by]) : ~LoadedAt(job[j].by, k)
           /\ \A i \in Jobs : job[i].at \in JoinAwaits /\ job[i].by = job[j].by => i = j
<1>1. PICK u \in Watchers : u = job[j].by
  BY JobAt DEF Holding
<1>2. ~loaded[u] /\ ~Loading(u)
  BY <1>1 DEF Connections, Joining
<1>3. \A i \in Jobs : job[i].at \in JoinAwaits /\ job[i].by = u => i = j
  BY <1>1 DEF Connections
<1>4. wire[u] \in Seq(Events) /\ Len(wire[u]) \in Nat
  BY DEF Base, Types
<1>5. ASSUME NEW k \in 0..Len(wire[u]) PROVE ~LoadedAt(u, k)
  <2>1. \A h \in 1..k : h \in 1..Len(wire[u])
    BY <1>4
  <2> QED
    BY <1>2, <2>1 DEF LoadedAt, Loading
<1> QED
  BY <1>1, <1>3, <1>5

LEMMA ListsRead ==
    ASSUME Base, Connections, ListsAgree, NEW j \in Jobs, JoinRead(j) PROVE ListsAgree'
<1>1. PICK r \in Watchers : r = job[j].by
  BY JoinersWait DEF JoinRead, JoinAwaits
<1>2. /\ job[j].at = "joinRead" /\ job \in [Jobs -> Handlers]
      /\ contended' = [contended EXCEPT ![r] = Unannounced]
      /\ contended \in [Watchers -> SUBSET Ids]
      /\ job' = [job EXCEPT ![j].at = "joinReply", ![j].out = Newest(table)]
      /\ UNCHANGED <<table, present, link, wire, view, loaded, oldest, crossed>>
  BY <1>1 DEF JoinRead, Base, Types
<1>3. /\ job'[j].at = "joinReply" /\ job'[j].by = r /\ job'[j].out = Newest(table)
      /\ \A i \in Jobs : i # j => job'[i] = job[i]
      /\ job' \in [Jobs -> Handlers]
  <2>1. job'[j] = [job[j] EXCEPT !.at = "joinReply", !.out = Newest(table)]
    BY <1>2
  <2>2. job'[j].at = "joinReply" /\ job'[j].by = r /\ job'[j].out = Newest(table)
    BY <1>1, <1>2, <2>1 DEF Handlers
  <2>3. Base'
    BY BaseJoins
  <2> QED
    BY <1>2, <2>2, <2>3 DEF Base, Types
<1>4. SameEmits
  BY <1>2, <1>3 DEF SameEmits
<1>5. ASSUME NEW u \in Watchers PROVE Agrees(u)'
  <2>1. CASE u = r
    <3>1. PICK f : Track(u, f)
      BY DEF ListsAgree, Agrees
    <3>2. Track(u, f)'
      BY <1>2, <3>1 DEF Track
    <3>3. \A k \in 0..Len(wire[u]) : ~LoadedAt(u, k)
      BY <1>1, <1>2, <2>1, JoinersWait DEF JoinAwaits
    <3>4. \A k \in 0..Len(wire'[u]) : ~LoadedAt(u, k)'
      BY <1>2, <3>3 DEF LoadedAt
    <3>5. Len(wire[u]) \in 0..Len(wire[u]) /\ wire' = wire
      BY <1>2 DEF Base, Types
    <3> QED
      BY <3>2, <3>4, <3>5 DEF Agrees
  <2>2. CASE u # r
    <3>1. contended'[u] = contended[u]
      BY <1>2, <2>2
    <3>2. /\ \A rows : Ordered(u, rows) => Ordered(u, rows)'
          /\ \A rows, first : Good(u, rows, first) => Good(u, rows, first)'
      BY <1>2, <1>4, <3>1, OrderedStays, GoodStays
    <3> QED
      BY <1>2, <3>2, AgreesStays DEF ListsAgree
  <2> QED
    BY <2>1, <2>2
<1>6. ASSUME NEW i \in Jobs PROVE WellRead(job[i])'
  <2>1. PICK w \in Handlers : w = job'[i]
    BY <1>3
  <2>2. ASSUME w.at = "joinReply"
        PROVE  Ordered(w.by, w.out)' /\ Good(w.by, w.out, First(w.out))'
    <3>1. CASE i = j
      <4>1. w.by = r /\ w.out = Newest(table) /\ contended'[r] = Unannounced
        BY <1>2, <1>3, <2>1, <3>1
      <4>2. /\ \A k \in DOMAIN w.out : w.out[k].id \in Sent
            /\ \A h, k \in DOMAIN w.out : w.out[h].id < w.out[k].id => h < k
            /\ \A m \in Sent : m >= First(w.out) => Right(w.out, m)
        BY <4>1, GoodRead
      <4>3. Ordered(r, w.out)'
        BY <4>2 DEF Ordered
      <4>4. ASSUME NEW m \in Sent, m >= First(w.out), m \notin Unannounced
            PROVE  RightFor(w.out, m)'
        <5>1. \A h \in Jobs : ~Emitting(h, m)
          BY <4>4 DEF Emitting, Unannounced
        <5>2. \A h \in Jobs : ~Emitting(h, m)'
          BY <1>4, <5>1 DEF Emitting, SameEmits
        <5>3. Right(w.out, m)'
          BY <1>2, <4>2, <4>4 DEF Right
        <5> QED
          BY <5>2, <5>3 DEF RightFor
      <4>5. Good(r, w.out, First(w.out))'
        BY <1>2, <4>1, <4>2, <4>4 DEF Good, Sent, First
      <4> QED
        BY <4>1, <4>3, <4>5
    <3>2. CASE i # j
      <4>1. w = job[i] /\ w.by \in Watchers /\ w.by # r
        BY <1>1, <1>2, <1>3, <2>1, <2>2, <3>2, JobAt, JoinersWait DEF Holding, JoinAwaits
      <4>2. Ordered(w.by, w.out) /\ Good(w.by, w.out, First(w.out))
        BY <2>2, <4>1 DEF ListsAgree, WellRead
      <4>3. contended'[w.by] = contended[w.by]
        BY <1>2, <4>1
      <4> QED
        BY <1>2, <1>4, <4>2, <4>3, OrderedStays, GoodStays
    <3> QED
      BY <3>1, <3>2
  <2> QED
    BY <2>1, <2>2 DEF WellRead
<1> QED
  BY <1>5, <1>6 DEF ListsAgree

\* The reply is the first list of its connection.
LEMMA ReplyFacts ==
    ASSUME Base, Connections, NEW j \in Jobs, JoinReply(j)
    PROVE  \E u \in Watchers, e \in Events :
              /\ u = job[j].by /\ e.kind = "room-joined" /\ e.rows = job[j].out
              /\ e.rows \in Seq(Message) /\ job[j].at = "joinReply"
              /\ wire'[u] = Append(wire[u], e) /\ oldest'[u] = First(e.rows)
              /\ \A v \in Watchers \ {u} : wire'[v] = wire[v] /\ oldest'[v] = oldest[v]
              /\ job' = [job EXCEPT ![j] = Idle] /\ job' \in [Jobs -> Handlers]
              /\ job'[j] = Idle /\ \A i \in Jobs : i # j => job'[i] = job[i]
              /\ UNCHANGED <<table, present, link, view, loaded, contended, crossed>>
<1>1. PICK u \in Watchers : u = job[j].by
  BY JoinersWait DEF JoinReply, JoinAwaits
<1>2. job[j].at = "joinReply" /\ Holding(job[j]) /\ job[j].out \in Seq(Message)
  BY JobAt DEF JoinReply, Holding
<1>3. PICK e : e = [kind |-> "room-joined", rows |-> job[j].out]
  OBVIOUS
<1>4. e \in Events /\ e.kind = "room-joined" /\ e.rows = job[j].out
  BY <1>2, <1>3 DEF Events
<1>5. /\ wire' = [wire EXCEPT ![u] = Append(@, e)]
      /\ oldest' = [oldest EXCEPT ![u] = First(e.rows)]
      /\ job' = [job EXCEPT ![j] = Idle]
      /\ UNCHANGED <<table, present, link, view, loaded, contended, crossed>>
  BY <1>1, <1>3, <1>4 DEF JoinReply, Done, First
<1>6. /\ wire \in [Watchers -> Seq(Events)] /\ oldest \in [Watchers -> Ids]
      /\ job \in [Jobs -> Handlers]
  BY DEF Base, Types
<1>7. /\ wire'[u] = Append(wire[u], e) /\ oldest'[u] = First(e.rows)
      /\ \A v \in Watchers \ {u} : wire'[v] = wire[v] /\ oldest'[v] = oldest[v]
  BY <1>5, <1>6
<1>8. /\ job' \in [Jobs -> Handlers]
      /\ job'[j] = Idle /\ \A i \in Jobs : i # j => job'[i] = job[i]
  BY <1>5, <1>6, IdleHolds
<1> QED
  BY <1>1, <1>2, <1>4, <1>5, <1>7, <1>8

LEMMA ConnectionsReplied ==
    ASSUME Base, Connections, NEW j \in Jobs, JoinReply(j) PROVE Connections'
<1>1. PICK u \in Watchers, e \in Events :
         /\ u = job[j].by /\ e.kind = "room-joined" /\ job[j].at = "joinReply"
         /\ wire'[u] = Append(wire[u], e)
         /\ \A v \in Watchers \ {u} : wire'[v] = wire[v]
         /\ job'[j] = Idle /\ \A i \in Jobs : i # j => job'[i] = job[i]
         /\ UNCHANGED <<link, loaded>>
  BY ReplyFacts
<1>2. FewerJoins
  BY <1>1, IdleHolds DEF FewerJoins
<1>3. \A v : Joining(v)' => Joining(v)
  BY <1>2 DEF Joining, FewerJoins
<1>4. Joining(u) /\ ~loaded[u] /\ ~Loading(u) /\ link[u] # "off"
  BY <1>1 DEF Joining, JoinAwaits, Connections
<1>5. ~Joining(u)'
  <2>1. \A i \in Jobs : job[i].at \in JoinAwaits /\ job[i].by = u => i = j
    BY <1>1, JoinersWait DEF JoinAwaits
  <2> QED
    BY <1>1, <2>1, IdleHolds DEF Joining
<1>6. \A k \in 1..Len(wire'[u]) : wire'[u][k].kind = "room-joined" => k = Len(wire[u]) + 1
  <2>1. wire[u] \in Seq(Events)
    BY DEF Base, Types
  <2>2. \A k \in 1..Len(wire[u]) : wire'[u][k] = wire[u][k]
    BY <1>1, <2>1, AppendFacts
  <2>3. \A k \in 1..Len(wire'[u]) : k \in 1..Len(wire[u]) \/ k = Len(wire[u]) + 1
    BY <1>1, <2>1, AppendFacts
  <2> QED
    BY <1>4, <2>2, <2>3 DEF Loading
<1>7. \A v \in Watchers \ {u} : Loading(v)' => Loading(v)
  BY <1>1 DEF Loading
<1>8. ASSUME NEW v \in Watchers, v # u
      PROVE  /\ link'[v] = "off" => wire'[v] = <<>> /\ ~loaded'[v] /\ ~Joining(v)'
             /\ Joining(v)' => ~loaded'[v] /\ ~Loading(v)'
             /\ loaded'[v] => ~Loading(v)'
             /\ \A k, h \in 1..Len(wire'[v]) :
                   wire'[v][k].kind = "room-joined" /\ wire'[v][h].kind = "room-joined" => k = h
  BY <1>1, <1>3, <1>7, <1>8 DEF Connections
<1>9. \A v \in Watchers : \A i, h \in Jobs :
         /\ job'[i].by = v /\ job'[i].at \in JoinAwaits
         /\ job'[h].by = v /\ job'[h].at \in JoinAwaits
         => i = h
  BY <1>2 DEF Connections, FewerJoins
<1> QED
  BY <1>1, <1>4, <1>5, <1>6, <1>8, <1>9 DEF Connections

LEMMA ListsReplied ==
    ASSUME Base, Connections, ListsAgree, NEW j \in Jobs, JoinReply(j) PROVE ListsAgree'
<1>1. PICK u \in Watchers, e \in Events :
         /\ u = job[j].by /\ e.kind = "room-joined" /\ e.rows = job[j].out
         /\ e.rows \in Seq(Message) /\ job[j].at = "joinReply"
         /\ wire'[u] = Append(wire[u], e) /\ oldest'[u] = First(e.rows)
         /\ \A v \in Watchers \ {u} : wire'[v] = wire[v] /\ oldest'[v] = oldest[v]
         /\ job' \in [Jobs -> Handlers]
         /\ job'[j] = Idle /\ \A i \in Jobs : i # j => job'[i] = job[i]
         /\ UNCHANGED <<table, link, view, loaded, contended, crossed>>
  BY ReplyFacts
<1>2. SameEmits
  BY <1>1, IdleHolds DEF SameEmits
<1>3. ASSUME NEW v \in Watchers
      PROVE  /\ \A rows : Ordered(v, rows) => Ordered(v, rows)'
             /\ \A rows, first : Good(v, rows, first) => Good(v, rows, first)'
  BY <1>1, <1>2, OrderedStays, GoodStays
<1>4. ASSUME NEW v \in Watchers PROVE Agrees(v)'
  <2>1. CASE v # u
    BY <1>1, <1>3, <2>1, AgreesStays DEF ListsAgree
  <2>2. CASE v = u
    <3>1. PICK f : Track(u, f)
      BY DEF ListsAgree, Agrees
    <3>2. wire[u] \in Seq(Events)
      BY DEF Base, Types
    <3>3. PICK n \in Nat : n = Len(wire[u])
      BY <3>2
    <3>4. PICK g : /\ Track(u, g)' /\ \A k \in 0..n : g[k] = f[k]
                   /\ g[n + 1] = Shown(f[n], e)
      <4>1. wire'[u] = Append(wire[u], e) /\ view'[u] = view[u] /\ loaded'[u] = loaded[u]
        BY <1>1
      <4>2. \E g : /\ Track(u, g)' /\ \A k \in 0..Len(wire[u]) : g[k] = f[k]
                   /\ g[Len(wire[u]) + 1] = Shown(f[Len(wire[u])], e)
        BY <3>1, <3>2, <4>1, TrackGrows
      <4> QED
        BY <3>3, <4>2
    <3>5. Len(wire'[u]) = n + 1 /\ \A k \in 0..n : LoadedAt(u, k)' <=> LoadedAt(u, k)
      BY <1>1, <3>1, <3>2, <3>3, TrackGrows
    <3>6. \A k \in 0..n : ~LoadedAt(u, k)'
      BY <1>1, <3>3, <3>5, JoinersWait DEF JoinAwaits
    <3>7. g[n + 1] = e.rows
      BY <1>1, <3>4, ShownJoined
    <3>8. Ordered(u, e.rows) /\ Good(u, e.rows, First(e.rows))
      BY <1>1 DEF ListsAgree, WellRead
    <3>9. PICK rows, first : rows = e.rows /\ first = First(e.rows)
      OBVIOUS
    <3>10. Ordered(u, rows)' /\ Good(u, rows, first)'
      BY <1>3, <3>8, <3>9
    <3>11. ASSUME NEW k \in 0..n + 1, LoadedAt(u, k)' PROVE Ordered(u, g[k])'
      <4>1. k \notin 0..n => k = n + 1
        BY <3>3
      <4>2. g[n + 1] = rows
        BY <3>7, <3>9
      <4> QED
        BY <3>6, <3>10, <3>11, <4>1, <4>2
    <3>12. Good(u, g[n + 1], oldest[u])'
      BY <1>1, <3>7, <3>9, <3>10
    <3>13. Agrees(u)'
      BY <3>4, <3>5, <3>11, <3>12 DEF Agrees
    <3> QED
      BY <2>2, <3>13
  <2> QED
    BY <2>1, <2>2
<1>5. ASSUME NEW i \in Jobs PROVE WellRead(job[i])'
  <2>1. PICK w \in Handlers : w = job'[i]
    BY <1>1
  <2>2. ASSUME w.at = "joinReply"
        PROVE  Ordered(w.by, w.out)' /\ Good(w.by, w.out, First(w.out))'
    <3>1. w = job[i]
      BY <1>1, <2>1, <2>2, IdleHolds
    <3>2. w.by \in Watchers
      BY <2>2, <3>1, JobAt DEF Holding, JoinAwaits
    <3>3. Ordered(w.by, w.out) /\ Good(w.by, w.out, First(w.out))
      BY <2>2, <3>1 DEF ListsAgree, WellRead
    <3> QED
      BY <1>3, <3>2, <3>3
  <2> QED
    BY <2>1, <2>2 DEF WellRead
<1> QED
  BY <1>4, <1>5 DEF ListsAgree

-----------------------------------------------------------------------------
(* Events that are handled, and connections that break.                    *)

LEMMA HandleFacts ==
    ASSUME Base, NEW u \in Watchers, Handle(u)
    PROVE  /\ Len(wire[u]) \in Nat \ {0} /\ Len(wire'[u]) = Len(wire[u]) - 1
           /\ \A k \in 1..Len(wire[u]) - 1 : wire'[u][k] = wire[u][k + 1]
           /\ view'[u] = Shown(view[u], wire[u][1])
           /\ loaded'[u] = (loaded[u] \/ wire[u][1].kind = "room-joined")
           /\ \A v \in Watchers \ {u} :
                 wire'[v] = wire[v] /\ view'[v] = view[v] /\ loaded'[v] = loaded[v]
           /\ UNCHANGED <<table, present, job, link, contended, oldest, crossed>>
<1>1. /\ wire \in [Watchers -> Seq(Events)] /\ view \in [Watchers -> Seq(Message)]
      /\ wire[u] # <<>> /\ loaded \in [Watchers -> BOOLEAN]
  BY DEF Base, Types, Handle
<1>2. /\ Len(wire[u]) \in Nat \ {0} /\ Head(wire[u]) = wire[u][1]
      /\ Len(Tail(wire[u])) = Len(wire[u]) - 1
      /\ \A k \in 1..Len(wire[u]) - 1 : Tail(wire[u])[k] = wire[u][k + 1]
  BY <1>1, HeadTailProperties
<1>3. /\ view' = [view EXCEPT ![u] = Shown(view[u], wire[u][1])]
      /\ wire' = [wire EXCEPT ![u] = Tail(wire[u])]
      /\ loaded' = [loaded EXCEPT ![u] = loaded[u] \/ wire[u][1].kind = "room-joined"]
      /\ UNCHANGED <<table, present, job, link, contended, oldest, crossed>>
  BY <1>1, <1>2 DEF Handle
<1> QED
  BY <1>1, <1>2, <1>3

LEMMA ConnectionsHandled ==
    ASSUME Base, Connections, NEW u \in Watchers, Handle(u) PROVE Connections'
<1>1. PICK n \in Nat : n = Len(wire'[u]) /\ n + 1 = Len(wire[u])
  <2>1. /\ Len(wire[u]) \in Nat \ {0} /\ Len(wire'[u]) = Len(wire[u]) - 1
    BY HandleFacts
  <2>2. Len(wire[u]) - 1 \in Nat /\ Len(wire[u]) - 1 + 1 = Len(wire[u])
    BY <2>1
  <2> QED
    BY <2>1, <2>2
<1>2. \A k \in 1..n : wire'[u][k] = wire[u][k + 1] /\ k + 1 \in 1..n + 1 /\ 1 \in 1..n + 1
  BY <1>1, HandleFacts
<1>3. loaded'[u] = (loaded[u] \/ wire[u][1].kind = "room-joined")
  BY HandleFacts
<1>4. \A v : Joining(v)' <=> Joining(v)
  BY HandleFacts DEF Joining
<1>5. Loading(u)' => Loading(u) /\ wire[u][1].kind # "room-joined"
  <2>1. ASSUME NEW k \in 1..n, wire'[u][k].kind = "room-joined"
        PROVE  Loading(u) /\ wire[u][1].kind # "room-joined"
    <3>1. wire[u][k + 1].kind = "room-joined" /\ k + 1 \in 1..n + 1 /\ 1 \in 1..n + 1
      BY <1>2, <2>1
    <3>2. k + 1 # 1
      BY <2>1
    <3> QED
      BY <1>1, <3>1, <3>2 DEF Connections, Loading
  <2> QED
    BY <1>1, <2>1 DEF Loading
<1>6. wire[u][1].kind = "room-joined" => Loading(u)
  <2>1. 1 \in 1..n + 1
    BY <1>1
  <2> QED
    BY <1>1, <2>1 DEF Loading
<1>7. link[u] # "off"
  <2>1. CASE wire[u] = <<>>
    BY <1>1, <2>1
  <2>2. CASE wire[u] # <<>>
    BY <2>2 DEF Connections
  <2> QED
    BY <2>1, <2>2
<1>8. ASSUME NEW k \in 1..n, NEW h \in 1..n,
             wire'[u][k].kind = "room-joined", wire'[u][h].kind = "room-joined"
      PROVE  k = h
  <2>1. k + 1 = h + 1
    <3>1. /\ k + 1 \in 1..Len(wire[u]) /\ h + 1 \in 1..Len(wire[u])
          /\ wire[u][k + 1].kind = "room-joined" /\ wire[u][h + 1].kind = "room-joined"
      BY <1>1, <1>2, <1>8
    <3> QED
      BY <3>1 DEF Connections
  <2> QED
    BY <2>1
<1>9. UNCHANGED <<job, link>>
  BY HandleFacts
<1>10. ASSUME NEW v \in Watchers
       PROVE  /\ link'[v] = "off" => wire'[v] = <<>> /\ ~loaded'[v] /\ ~Joining(v)'
              /\ Joining(v)' => ~loaded'[v] /\ ~Loading(v)'
              /\ loaded'[v] => ~Loading(v)'
              /\ \A k, h \in 1..Len(wire'[v]) :
                    wire'[v][k].kind = "room-joined" /\ wire'[v][h].kind = "room-joined" => k = h
  <2>1. CASE v = u
    BY <1>1, <1>3, <1>4, <1>5, <1>6, <1>7, <1>8, <1>9, <2>1 DEF Connections
  <2>2. CASE v # u
    <3>1. wire'[v] = wire[v] /\ loaded'[v] = loaded[v] /\ link' = link
      BY <2>2, HandleFacts
    <3>2. Loading(v)' <=> Loading(v)
      BY <3>1 DEF Loading
    <3> QED
      BY <1>4, <3>1, <3>2 DEF Connections
  <2> QED
    BY <2>1, <2>2
<1> QED
  BY <1>9, <1>10 DEF Connections

LEMMA AgreesHandled ==
    ASSUME Base, NEW u \in Watchers, Handle(u), Agrees(u) PROVE Agrees(u)'
<1>1. PICK n \in Nat : n = Len(wire'[u]) /\ n + 1 = Len(wire[u])
  <2>1. /\ Len(wire[u]) \in Nat \ {0} /\ Len(wire'[u]) = Len(wire[u]) - 1
    BY HandleFacts
  <2>2. Len(wire[u]) - 1 \in Nat /\ Len(wire[u]) - 1 + 1 = Len(wire[u])
    BY <2>1
  <2> QED
    BY <2>1, <2>2
<1>2. PICK f : /\ Track(u, f)
               /\ \A k \in 0..Len(wire[u]) : LoadedAt(u, k) => Ordered(u, f[k])
               /\ LoadedAt(u, Len(wire[u])) => Good(u, f[Len(wire[u])], oldest[u])
  BY DEF Agrees
<1>3. /\ \A k \in 1..n : wire'[u][k] = wire[u][k + 1]
      /\ view'[u] = Shown(view[u], wire[u][1])
      /\ loaded'[u] = (loaded[u] \/ wire[u][1].kind = "room-joined")
      /\ UNCHANGED <<table, job, contended, oldest, crossed>>
  BY <1>1, HandleFacts
<1>4. \A k \in 0..n : k + 1 \in 0..n + 1 /\ k + 1 \in 1..n + 1 /\ (k + 1) - 1 = k
  BY <1>1
<1>5. /\ f \in [0..n + 1 -> Seq(Message)] /\ f[0] = view[u]
      /\ \A k \in 1..n + 1 : f[k] = Shown(f[k - 1], wire[u][k])
  BY <1>1, <1>2 DEF Track
<1>6. PICK g : g = [k \in 0..n |-> f[k + 1]]
  OBVIOUS
<1>7. g \in [0..n -> Seq(Message)] /\ \A k \in 0..n : g[k] = f[k + 1]
  BY <1>4, <1>5, <1>6
<1>8. g[0] = view'[u]
  <2>1. f[0 + 1] = Shown(f[0], wire[u][1]) /\ 0 \in 0..n
    BY <1>1, <1>5
  <2> QED
    BY <1>3, <1>5, <1>7, <2>1
<1>9. \A k \in 1..n : g[k] = Shown(g[k - 1], wire'[u][k])
  <2>1. ASSUME NEW k \in 1..n PROVE g[k] = Shown(g[k - 1], wire'[u][k])
    <3>1. k \in 0..n /\ k - 1 \in 0..n /\ k - 1 + 1 = k /\ k + 1 \in 1..n + 1 /\ (k + 1) - 1 = k
      BY <1>1
    <3>2. g[k] = f[k + 1] /\ g[k - 1] = f[k]
      BY <1>7, <3>1
    <3>3. f[k + 1] = Shown(f[k], wire[u][k + 1])
      BY <1>5, <3>1
    <3> QED
      BY <1>3, <3>2, <3>3
  <2> QED
    BY <2>1
<1>10. Track(u, g)'
  BY <1>1, <1>7, <1>8, <1>9 DEF Track
<1>11. ASSUME NEW k \in 0..n PROVE LoadedAt(u, k)' => LoadedAt(u, k + 1)
  <2>1. CASE loaded'[u]
    <3>1. 1 \in 1..k + 1
      BY <1>1
    <3> QED
      BY <1>3, <2>1, <3>1 DEF LoadedAt
  <2>2. ASSUME NEW h \in 1..k, wire'[u][h].kind = "room-joined" PROVE LoadedAt(u, k + 1)
    <3>1. h + 1 \in 1..k + 1 /\ h \in 1..n
      BY <1>1
    <3>2. wire[u][h + 1].kind = "room-joined"
      BY <1>3, <2>2, <3>1
    <3> QED
      BY <3>1, <3>2 DEF LoadedAt
  <2> QED
    BY <2>1, <2>2 DEF LoadedAt
<1>12. /\ \A rows : Ordered(u, rows) => Ordered(u, rows)'
       /\ \A rows, first : Good(u, rows, first) => Good(u, rows, first)'
  <2>1. SameEmits
    BY <1>3 DEF SameEmits
  <2> QED
    BY <1>3, <2>1, OrderedStays, GoodStays
<1>13. \A k \in 0..n : LoadedAt(u, k)' => Ordered(u, g[k])'
  BY <1>1, <1>2, <1>4, <1>7, <1>11, <1>12
<1>14. LoadedAt(u, n)' => Good(u, g[n], oldest[u])'
  <2>1. n \in 0..n
    BY <1>1
  <2>2. PICK first : first = oldest[u]
    OBVIOUS
  <2>3. LoadedAt(u, n)' => Good(u, g[n], first)
    BY <1>1, <1>2, <1>7, <1>11, <2>1, <2>2
  <2> QED
    BY <1>3, <1>12, <2>2, <2>3
<1> QED
  BY <1>1, <1>10, <1>13, <1>14 DEF Agrees

LEMMA ListsHandled ==
    ASSUME Base, ListsAgree, NEW u \in Watchers, Handle(u) PROVE ListsAgree'
<1>1. SameEmits /\ UNCHANGED <<table, job, contended, oldest, crossed>>
  BY HandleFacts DEF SameEmits
<1>2. ASSUME NEW v \in Watchers
      PROVE  /\ \A rows : Ordered(v, rows) => Ordered(v, rows)'
             /\ \A rows, first : Good(v, rows, first) => Good(v, rows, first)'
  BY <1>1, OrderedStays, GoodStays
<1>3. ASSUME NEW v \in Watchers PROVE Agrees(v)'
  <2>1. CASE v = u
    BY <2>1, AgreesHandled DEF ListsAgree
  <2>2. CASE v # u
    <3>1. wire'[v] = wire[v] /\ view'[v] = view[v] /\ loaded'[v] = loaded[v]
      BY <2>2, HandleFacts
    <3> QED
      BY <1>1, <1>2, <3>1, AgreesStays DEF ListsAgree
  <2> QED
    BY <2>1, <2>2
<1>4. ASSUME NEW i \in Jobs PROVE WellRead(job[i])'
  <2>1. PICK w \in Handlers : w = job[i] /\ w = job'[i] /\ Holding(w)
    BY <1>1, JobAt
  <2>2. WellRead(w)'
    BY <1>2, <2>1 DEF Holding, JoinAwaits, ListsAgree, WellRead
  <2> QED
    BY <2>1, <2>2
<1> QED
  BY <1>3, <1>4 DEF ListsAgree

LEMMA Disconnected ==
    ASSUME Base, Connections, ListsAgree, LaterCrossed, NEW u \in Watchers, Disconnect(u)
    PROVE  Connections' /\ ListsAgree' /\ LaterCrossed'
<1>1. /\ wire' = [wire EXCEPT ![u] = <<>>] /\ loaded' = [loaded EXCEPT ![u] = FALSE]
      /\ link' = [link EXCEPT ![u] = "off"]
      /\ wire \in [Watchers -> Seq(Events)] /\ loaded \in [Watchers -> BOOLEAN]
      /\ link \in [Watchers -> {"off", "joined"}]
      /\ UNCHANGED <<table, present, view, contended, oldest, crossed>>
  BY DEF Disconnect, Base, Types
<1>2. /\ wire'[u] = <<>> /\ ~loaded'[u] /\ Len(<<>>) = 0
      /\ \A v \in Watchers \ {u} :
            wire'[v] = wire[v] /\ loaded'[v] = loaded[v] /\ link'[v] = link[v]
  BY <1>1
<1>3. \A i \in Jobs : job'[i] = IF job[i].by = u /\ job[i].at \in JoinAwaits THEN Idle ELSE job[i]
  BY DEF Disconnect
<1>4. FewerJoins /\ SameEmits /\ ~Joining(u)' /\ job' \in [Jobs -> Handlers]
  <2>1. FewerJoins
    BY <1>3, IdleHolds DEF FewerJoins
  <2>2. SameEmits
    BY <1>3, IdleHolds DEF SameEmits, JoinAwaits
  <2>3. ~Joining(u)'
    BY <1>3, IdleHolds DEF Joining
  <2>4. Base'
    BY BaseDisconnect
  <2> QED
    BY <2>1, <2>2, <2>3, <2>4 DEF Base, Types
<1>5. ~Loading(u)'
  BY <1>2 DEF Loading
<1>6. Connections'
  <2>1. \A v \in Watchers \ {u} : (Joining(v)' => Joining(v)) /\ (Loading(v)' <=> Loading(v))
    BY <1>2, <1>4 DEF Joining, Loading, FewerJoins
  <2>2. ASSUME NEW v \in Watchers
        PROVE  /\ link'[v] = "off" => wire'[v] = <<>> /\ ~loaded'[v] /\ ~Joining(v)'
               /\ Joining(v)' => ~loaded'[v] /\ ~Loading(v)'
               /\ loaded'[v] => ~Loading(v)'
               /\ \A k, h \in 1..Len(wire'[v]) :
                     wire'[v][k].kind = "room-joined" /\ wire'[v][h].kind = "room-joined" => k = h
    <3>1. CASE v = u
      <4>1. \A k \in 1..Len(wire'[u]) : FALSE
        BY <1>2
      <4> QED
        BY <1>2, <1>4, <1>5, <3>1, <4>1
    <3>2. CASE v # u
      BY <1>2, <2>1, <3>2 DEF Connections
    <3> QED
      BY <3>1, <3>2
  <2>3. \A v \in Watchers : \A i, h \in Jobs :
           /\ job'[i].by = v /\ job'[i].at \in JoinAwaits
           /\ job'[h].by = v /\ job'[h].at \in JoinAwaits
           => i = h
    BY <1>4 DEF Connections, FewerJoins
  <2> QED
    BY <2>2, <2>3 DEF Connections
<1>7. LaterCrossed'
  BY <1>1, <1>4, CrossedStays
<1>8. ASSUME NEW v \in Watchers
      PROVE  /\ \A rows : Ordered(v, rows) => Ordered(v, rows)'
             /\ \A rows, first : Good(v, rows, first) => Good(v, rows, first)'
  BY <1>1, <1>4, OrderedStays, GoodStays
<1>9. ASSUME NEW v \in Watchers PROVE Agrees(v)'
  <2>1. CASE v # u
    BY <1>1, <1>2, <1>8, <2>1, AgreesStays DEF ListsAgree
  <2>2. CASE v = u
    <3>1. PICK rows \in Seq(Message) : rows = view'[u]
      BY <1>1 DEF Base, Types
    <3>2. PICK f : f = [k \in 0..0 |-> rows]
      OBVIOUS
    <3>3. Track(u, f)'
      BY <1>2, <3>1, <3>2 DEF Track
    <3>4. \A k \in 0..0 : ~LoadedAt(u, k)'
      BY <1>2 DEF LoadedAt
    <3> QED
      BY <1>2, <2>2, <3>3, <3>4 DEF Agrees
  <2> QED
    BY <2>1, <2>2
<1>10. ASSUME NEW i \in Jobs PROVE WellRead(job[i])'
  <2>1. PICK w \in Handlers : w = job'[i]
    BY <1>4
  <2>2. ASSUME w.at = "joinReply" PROVE WellRead(w)'
    <3>1. w = job[i] /\ w.by \in Watchers
      BY <1>3, <2>1, <2>2, IdleHolds, JobAt DEF Holding, JoinAwaits
    <3> QED
      BY <1>8, <2>2, <3>1 DEF ListsAgree, WellRead
  <2>3. w.at # "joinReply" => WellRead(w)'
    BY DEF WellRead
  <2> QED
    BY <2>1, <2>2, <2>3
<1> QED
  BY <1>6, <1>7, <1>9, <1>10 DEF ListsAgree

-----------------------------------------------------------------------------
(* The steps together.                                                     *)

\* The handler in j asks and goes on: it neither announces nor has read a list.
AsksOn(j) ==
    /\ \A i \in Jobs : i # j => job'[i] = job[i]
    /\ job[j].at # "emit" /\ job'[j].at \notin {"emit", "joinReply"}
    /\ UNCHANGED <<table, wire, view, loaded, contended, oldest, crossed>>

LEMMA AskedLists ==
    ASSUME Base, Base', ListsAgree, LaterCrossed, NEW j \in Jobs, AsksOn(j)
    PROVE  ListsAgree' /\ LaterCrossed'
<1>1. SameEmits /\ \A i \in Jobs : job'[i].at = "joinReply" => job'[i] = job[i]
  BY DEF AsksOn, SameEmits
<1>2. job' \in [Jobs -> Handlers]
  BY DEF Base, Types
<1>3. UNCHANGED <<table, wire, view, loaded, contended, oldest, crossed>>
  BY DEF AsksOn
<1> QED
  BY <1>1, <1>2, <1>3, ListsStay, CrossedStays

LEMMA Asked ==
    ASSUME Base, NEW j \in Jobs
    PROVE  /\ \A u \in Watchers : ConnectAndJoin(j, u) => AsksOn(j)
           /\ JoinAssertMember(j) => AsksOn(j) /\ FewerJoins /\ link' = link
           /\ DeleteFindOwner(j) => AsksOn(j) /\ FewerJoins /\ link' = link
           /\ \A u \in Users :
                 /\ SendAssertMember(j, u) => AsksOn(j) /\ FewerJoins /\ link' = link
                 /\ \A m \in Sent : EditFind(j, u, m) \/ DeleteFind(j, u, m) =>
                       AsksOn(j) /\ FewerJoins /\ link' = link
<1>1. job \in [Jobs -> Handlers] /\ job[j] \in Handlers
  BY DEF Base, Types
<1>2. ASSUME NEW at, NEW u, NEW m, Start(j, at, u, m), at \notin {"emit", "joinReply"}
      PROVE  /\ \A i \in Jobs : i # j => job'[i] = job[i]
             /\ job[j].at # "emit" /\ job'[j].at \notin {"emit", "joinReply"}
             /\ job'[j].at = at
  BY <1>1, <1>2 DEF Start, Idle, Job
<1>3. ASSUME NEW at, Await(j, at) \/ Done(j), at \notin {"emit", "joinReply"}, job[j].at # "emit"
      PROVE  /\ \A i \in Jobs : i # j => job'[i] = job[i]
             /\ job[j].at # "emit" /\ job'[j].at \notin {"emit", "joinReply"}
             /\ job'[j].at = "idle" \/ (job'[j].at = at /\ job'[j].by = job[j].by)
  <2>1. CASE Await(j, at)
    <3>1. job' = [job EXCEPT ![j] = [job[j] EXCEPT !.at = at]]
      BY <2>1 DEF Await
    <3>2. [job[j] EXCEPT !.at = at].at = at /\ [job[j] EXCEPT !.at = at].by = job[j].by
      BY <1>1 DEF Handlers
    <3> QED
      BY <1>1, <1>3, <3>1, <3>2
  <2>2. CASE Done(j)
    BY <1>1, <1>3, <2>2, IdleHolds DEF Done
  <2> QED
    BY <1>3, <2>1, <2>2
<1>4. ASSUME NEW u \in Watchers, ConnectAndJoin(j, u) PROVE AsksOn(j)
  BY <1>2, <1>4 DEF ConnectAndJoin, AsksOn
<1>5. ASSUME JoinAssertMember(j) PROVE AsksOn(j) /\ FewerJoins /\ link' = link
  BY <1>3, <1>5 DEF JoinAssertMember, AsksOn, FewerJoins, JoinAwaits
<1>6. ASSUME DeleteFindOwner(j) PROVE AsksOn(j) /\ FewerJoins /\ link' = link
  BY <1>3, <1>6 DEF DeleteFindOwner, AsksOn, FewerJoins, JoinAwaits
<1>7. ASSUME NEW u \in Users, NEW m, NEW at \in {"create", "update", "softDelete", "findOwner"},
             Start(j, at, u, m),
             UNCHANGED <<table, present, link, wire, view, loaded, contended, oldest, crossed>>
      PROVE  AsksOn(j) /\ FewerJoins /\ link' = link
  <2>1. /\ \A i \in Jobs : i # j => job'[i] = job[i]
        /\ job[j].at # "emit" /\ job'[j].at \notin {"emit", "joinReply"} /\ job'[j].at = at
    BY <1>2, <1>7
  <2> QED
    BY <1>7, <2>1 DEF AsksOn, FewerJoins, JoinAwaits
<1>8. ASSUME NEW u \in Users
      PROVE  /\ SendAssertMember(j, u) => AsksOn(j) /\ FewerJoins /\ link' = link
             /\ \A m \in Sent : EditFind(j, u, m) \/ DeleteFind(j, u, m) =>
                   AsksOn(j) /\ FewerJoins /\ link' = link
  BY <1>7 DEF SendAssertMember, EditFind, DeleteFind
<1> QED
  BY <1>4, <1>5, <1>6, <1>8

LEMMA ConnectionsMade ==
    ASSUME Base, Connections, NEW j \in Jobs, NEW u \in Watchers, ConnectAndJoin(j, u)
    PROVE  Connections'
<1>1. /\ link[u] = "off" /\ link' = [link EXCEPT ![u] = "joined"]
      /\ job[j] = Idle /\ job' = [job EXCEPT ![j] = Job("joinAssert", u, 0, <<>>)]
      /\ UNCHANGED <<wire, loaded>>
  BY DEF ConnectAndJoin, Start
<1>2. wire[u] = <<>> /\ ~loaded[u] /\ ~Joining(u) /\ ~Loading(u)
  <2>1. wire[u] = <<>> /\ ~loaded[u] /\ ~Joining(u)
    BY <1>1 DEF Connections
  <2>2. Len(<<>>) = 0 /\ 1..0 = {}
    OBVIOUS
  <2> QED
    BY <2>1, <2>2 DEF Loading
<1>3. /\ job'[j].at = "joinAssert" /\ job'[j].by = u
      /\ \A i \in Jobs : i # j => job'[i] = job[i]
      /\ link'[u] = "joined" /\ \A v \in Watchers \ {u} : link'[v] = link[v]
  BY <1>1 DEF Base, Types, Job
<1>4. \A v : Loading(v)' <=> Loading(v)
  BY <1>1 DEF Loading
<1>5. \A v \in Watchers \ {u} : Joining(v)' => Joining(v)
  BY <1>3 DEF Joining
<1>6. ASSUME NEW v \in Watchers, NEW i \in Jobs, NEW h \in Jobs,
             job'[i].by = v, job'[i].at \in JoinAwaits,
             job'[h].by = v, job'[h].at \in JoinAwaits
      PROVE  i = h
  <2>1. CASE v = u
    BY <1>2, <1>3, <1>6, <2>1 DEF Joining
  <2>2. CASE v # u
    BY <1>3, <1>6, <2>2 DEF Connections
  <2> QED
    BY <2>1, <2>2
<1>7. ASSUME NEW v \in Watchers
      PROVE  /\ link'[v] = "off" => wire'[v] = <<>> /\ ~loaded'[v] /\ ~Joining(v)'
             /\ Joining(v)' => ~loaded'[v] /\ ~Loading(v)'
             /\ loaded'[v] => ~Loading(v)'
             /\ \A k, h \in 1..Len(wire'[v]) :
                   wire'[v][k].kind = "room-joined" /\ wire'[v][h].kind = "room-joined" => k = h
  BY <1>1, <1>2, <1>3, <1>4, <1>5 DEF Connections
<1> QED
  BY <1>6, <1>7 DEF Connections

LEMMA ChatInit == Init => ChatInv
<1> SUFFICES ASSUME Init PROVE ChatInv
  OBVIOUS
<1>1. Base
  BY BaseInit
<1>2. \A j \in Jobs : job[j] = Idle
  BY DEF Init
<1>3. \A u \in Watchers : wire[u] = <<>> /\ view[u] = <<>> /\ ~loaded[u]
  BY DEF Init
<1>4. Len(<<>>) = 0 /\ 1..0 = {} /\ <<>> \in Seq(Message)
  OBVIOUS
<1>5. Connections
  <2>1. \A u : ~Joining(u)
    BY <1>2, IdleHolds DEF Joining
  <2>2. \A u \in Watchers : ~Loading(u)
    BY <1>3, <1>4 DEF Loading
  <2> QED
    BY <1>2, <1>3, <1>4, <2>1, <2>2, IdleHolds DEF Connections
<1>6. ASSUME NEW u \in Watchers PROVE Agrees(u)
  <2>1. PICK f : f = [k \in 0..0 |-> view[u]]
    OBVIOUS
  <2>2. Track(u, f)
    <3>1. Len(wire[u]) = 0 /\ view[u] \in Seq(Message)
      BY <1>3, <1>4
    <3>2. f \in [0..0 -> Seq(Message)] /\ f[0] = view[u]
      BY <2>1, <3>1
    <3> QED
      BY <1>4, <3>1, <3>2 DEF Track
  <2>3. \A k \in 0..0 : ~LoadedAt(u, k)
    BY <1>3 DEF LoadedAt
  <2> QED
    BY <1>3, <1>4, <2>2, <2>3 DEF Agrees
<1>7. ListsAgree
  BY <1>2, <1>6, IdleHolds DEF ListsAgree, WellRead, JoinAwaits
<1>8. LaterCrossed
  BY <1>2, IdleHolds DEF LaterCrossed
<1> QED
  BY <1>1, <1>5, <1>7, <1>8 DEF ChatInv, Base

LEMMA ChatStep == ChatInv /\ [Next]_vars => ChatInv'
<1> SUFFICES ASSUME ChatInv, [Next]_vars PROVE ChatInv'
  OBVIOUS
<1>1. Base /\ Base' /\ Connections /\ ListsAgree /\ LaterCrossed
  BY BaseStep DEF ChatInv, Base
<1> SUFFICES Connections' /\ ListsAgree' /\ LaterCrossed'
  BY <1>1 DEF ChatInv, Base
<1>2. ASSUME UNCHANGED <<table, job, link, wire, view, loaded, contended, oldest, crossed>>
      PROVE  Connections' /\ ListsAgree' /\ LaterCrossed'
  <2>1. FewerJoins /\ SameEmits /\ job' \in [Jobs -> Handlers]
    BY <1>1, <1>2 DEF FewerJoins, SameEmits, Base, Types
  <2> QED
    BY <1>1, <1>2, <2>1, ConnectionsStay, ListsStay, CrossedStays
<1>3. CASE UNCHANGED vars
  BY <1>2, <1>3 DEF vars
<1>4. ASSUME NEW j \in Jobs, AsksOn(j), FewerJoins, link' = link
      PROVE  Connections' /\ ListsAgree' /\ LaterCrossed'
  BY <1>1, <1>4, AskedLists, ConnectionsStay DEF AsksOn
<1>5. ASSUME NEW j \in Jobs, Ask(j) PROVE Connections' /\ ListsAgree' /\ LaterCrossed'
  <2>1. CASE \E u \in Watchers : ConnectAndJoin(j, u)
    BY <1>1, <2>1, Asked, AskedLists, ConnectionsMade
  <2>2. CASE \E u \in Users : \/ SendAssertMember(j, u)
                              \/ \E m \in Sent : EditFind(j, u, m) \/ DeleteFind(j, u, m)
    BY <1>1, <1>4, <2>2, Asked
  <2> QED
    BY <1>5, <2>1, <2>2 DEF Ask
<1>6. ASSUME NEW j \in Jobs, Proceed(j) PROVE Connections' /\ ListsAgree' /\ LaterCrossed'
  <2>1. CASE JoinAssertMember(j) \/ DeleteFindOwner(j)
    BY <1>1, <1>4, <2>1, Asked
  <2>2. CASE JoinRead(j)
    <3>1. /\ job[j].at = "joinRead" /\ job \in [Jobs -> Handlers]
          /\ job' = [job EXCEPT ![j] = [job[j] EXCEPT !.at = "joinReply", !.out = Newest(table)]]
          /\ UNCHANGED <<table, present, link, wire, view, loaded, oldest, crossed>>
      BY <1>1, <2>2 DEF JoinRead, Base, Types
    <3>2. /\ job'[j].at = "joinReply" /\ job'[j].by = job[j].by
          /\ \A i \in Jobs : i # j => job'[i] = job[i]
      BY <3>1 DEF Handlers
    <3>3. FewerJoins /\ SameEmits
      BY <3>1, <3>2 DEF FewerJoins, SameEmits, JoinAwaits
    <3> QED
      BY <1>1, <2>2, <3>1, <3>3, ConnectionsStay, ListsRead, CrossedStays
  <2>3. CASE JoinReply(j)
    <3>1. SameEmits /\ UNCHANGED <<table, crossed>>
      BY <1>1, <2>3, ReplyFacts, IdleHolds DEF SameEmits
    <3> QED
      BY <1>1, <2>3, <3>1, ConnectionsReplied, ListsReplied, CrossedStays
  <2>4. CASE SendCreate(j) \/ EditUpdate(j) \/ DeleteUpdate(j)
    <3>1. PICK m, row, e : Wrote(j, m, row, e)
      BY <1>1, <2>4, Writes DEF Wrote
    <3>2. FewerJoins /\ UNCHANGED <<link, wire, loaded>>
      BY <1>1, <3>1, WroteFacts DEF FewerJoins, JoinAwaits
    <3> QED
      BY <1>1, <3>1, <3>2, ConnectionsStay, ListsWritten, CrossedWritten
  <2>5. CASE Broadcast(j)
    <3>1. ListsAgree'
      BY <1>1, <2>5, AgreesAnnounced, ReadAnnounced DEF ListsAgree
    <3> QED
      BY <1>1, <2>5, <3>1, ConnectionsAnnounced, CrossedAnnounced
  <2> QED
    BY <1>6, <2>1, <2>2, <2>3, <2>4, <2>5 DEF Proceed
<1>7. ASSUME NEW u \in Watchers, Handle(u) PROVE Connections' /\ ListsAgree' /\ LaterCrossed'
  <2>1. SameEmits /\ UNCHANGED <<table, crossed>>
    BY <1>1, <1>7, HandleFacts DEF SameEmits
  <2> QED
    BY <1>1, <1>7, <2>1, ConnectionsHandled, ListsHandled, CrossedStays
<1>8. ASSUME NEW u \in Watchers, Disconnect(u) PROVE Connections' /\ ListsAgree' /\ LaterCrossed'
  BY <1>1, <1>8, Disconnected
<1>9. ASSUME NEW u \in Users, Leave(u) \/ Rejoin(u)
      PROVE  Connections' /\ ListsAgree' /\ LaterCrossed'
  BY <1>2, <1>9 DEF Leave, Rejoin
<1> QED
  BY <1>3, <1>5, <1>6, <1>7, <1>8, <1>9 DEF Next

\* Everything that is said of the table, the handlers, the sockets and the lists to come
\* holds in every state, however sends, edits, deletes, joins and broken connections cross.
THEOREM InvHolds == Spec => []ChatInv
<1> QED
  BY ChatInit, ChatStep, PTL DEF Spec

\* A list at rest agrees with the table.  When nothing is on its way, the list to come is
\* the list (Track), it is loaded, and of a message nothing crossed about there is no
\* announcement to come, so the list is right about it (Good).
THEOREM RestingListAgrees == Spec => []ViewAgrees
<1>1. ChatInv => ViewAgrees
  <2> SUFFICES ASSUME ChatInv, NEW u \in Watchers, NEW m \in Sent,
                      AtRest(u, m), m >= oldest[u], m \notin contended[u]
               PROVE  /\ Cardinality({i \in DOMAIN view[u] : view[u][i].id = m}) = 1
                      /\ \E i \in DOMAIN view[u] : Shows(view[u][i], table[m])
    BY DEF ViewAgrees
  <2>1. wire[u] = <<>> /\ loaded[u] /\ m \notin Unannounced /\ Len(wire[u]) = 0
    BY DEF AtRest
  <2>2. PICK f : /\ f[0] = view[u]
                 /\ LoadedAt(u, Len(wire[u])) => Good(u, f[Len(wire[u])], oldest[u])
    BY DEF ChatInv, ListsAgree, Agrees, Track
  <2>3. Good(u, view[u], oldest[u])
    BY <2>1, <2>2 DEF LoadedAt
  <2>4. \A i \in Jobs : ~Emitting(i, m)
    BY <2>1 DEF Unannounced, Emitting
  <2>5. Right(view[u], m)
    BY <2>3, <2>4 DEF Good, RightFor
  <2>6. PICK i \in DOMAIN view[u] :
           /\ view[u][i].id = m /\ Shows(view[u][i], table[m])
           /\ \A k \in DOMAIN view[u] : view[u][k].id = m => k = i
    BY <2>5 DEF Right
  <2>7. {k \in DOMAIN view[u] : view[u][k].id = m} = {i}
    BY <2>6
  <2> QED
    BY <2>6, <2>7, FS_Singleton
<1> QED
  BY <1>1, InvHolds, PTL

\* Two messages are shown in the order they were written in: the lists to come are in
\* order from the first that is loaded (Agrees).
THEOREM ShownAsWritten == Spec => []ShownInOrder
<1>1. ChatInv => ShownInOrder
  <2> SUFFICES ASSUME ChatInv, NEW u \in Watchers, loaded[u] PROVE Ordered(u, view[u])
    BY DEF ShownInOrder, Ordered
  <2>1. PICK f : /\ f[0] = view[u]
                 /\ \A k \in 0..Len(wire[u]) : LoadedAt(u, k) => Ordered(u, f[k])
    BY DEF ChatInv, ListsAgree, Agrees, Track
  <2>2. 0 \in 0..Len(wire[u]) /\ LoadedAt(u, 0)
    BY DEF ChatInv, Types, LoadedAt
  <2> QED
    BY <2>1, <2>2
<1> QED
  BY <1>1, InvHolds, PTL

=============================================================================
