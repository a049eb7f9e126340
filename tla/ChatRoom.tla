------------------------------ MODULE ChatRoom ------------------------------
(***************************************************************************)
(* One chat room: ChatGateway and ChatService on the server, the Message   *)
(* table, the socket of each user and the list ChatPanel shows on it.      *)
(*                                                                         *)
(* A gateway handler awaits its database calls one after the other and     *)
(* emits when the last has answered; between any two of these, other       *)
(* handlers run, those of the same socket too.  A handler is a job in a    *)
(* slot of Jobs, one action per await.  socket.io delivers what is emitted *)
(* to one socket in order; a broken connection loses what is on its way.   *)
(***************************************************************************)
EXTENDS Naturals, Sequences, FiniteSets

CONSTANTS
    Users,     \* users who chat in the room
    Watchers,  \* those whose socket and panel are modelled, one of each; panels do
               \* not act on one another, so one stands for all
    Owner,     \* the one with role OWNER
    Jobs,      \* slots for handlers running at the same time
    MaxMsgs,   \* bound: messages ever sent
    MaxEdits,  \* bound: edits written per message
    Take,      \* messages a join returns at most (50)
    Files,     \* what a message may have attached: {FALSE}, or BOOLEAN
    None

ASSUME ChatAssumption ==
    /\ Owner \in Users
    /\ Watchers \subseteq Users
    /\ None \notin Users
    /\ IsFiniteSet(Jobs)
    /\ MaxEdits \in Nat
    /\ {MaxMsgs, Take} \subseteq Nat \ {0}
    /\ Files \subseteq BOOLEAN

VARIABLES
    table,      \* the Message rows in the order of createdAt
    present,    \* users whose RoomMember row has leftAt null
    job,        \* job[j]: the handler in slot j
    link,       \* link[u]: the socket: "off", "on", "joined" (in room:<id>)
    wire,       \* wire[u]: events emitted to the socket and not yet handled
    view,       \* view[u]: the messages state of ChatPanel
    loaded,     \* loaded[u]: room-joined was handled on this connection
    contended,  \* history: contended[u]: messages two handlers raced on, for u
    oldest,     \* history: oldest[u]: the first message the last join returned
    crossed     \* history: messages written while another awaited its announcement

server == <<table, present, job>>
vars   == <<table, present, job, link, wire, view, loaded, contended, oldest, crossed>>

Ids  == 1..MaxMsgs
Sent == 1..Len(table)

\* A row, and what a client keeps of it: text counts the edits written, files
\* tells whether it has attachments.
Message == [id : Ids, by : Users, text : 0..MaxEdits, files : BOOLEAN, deleted : BOOLEAN]

Events ==
    [kind : {"new-message", "message-edited"}, row : Message]
    \cup [kind : {"message-deleted"}, id : Ids]
    \cup [kind : {"room-joined"}, rows : Seq(Message)]

\* What a handler waits for; the last three have written and are about to emit.
Job(at, u, m, out) == [at |-> at, by |-> u, msg |-> m, out |-> out]

Idle == Job("idle", None, 0, <<>>)

Start(j, at, u, m) ==
    /\ job[j] = Idle
    /\ job' = [job EXCEPT ![j] = Job(at, u, m, <<>>)]

Await(j, at) == job' = [job EXCEPT ![j].at = at]

Done(j) == job' = [job EXCEPT ![j] = Idle]

JoinAwaits == {"joinAssert", "joinRead", "joinReply"}

\* A user sends events over a socket that is up.
Online(u) == u \in Watchers => link[u] = "joined"

Joining(u) == \E j \in Jobs : job[j].by = u /\ job[j].at \in JoinAwaits

\* The list u joins with has been read and not been sent.
Snapshot(u) == \E j \in Jobs : job[j].by = u /\ job[j].at = "joinReply"

\* Messages written and not yet announced.
Unannounced == {job[j].msg : j \in {i \in Jobs : job[i].at = "emit"}}

Init ==
    /\ table = <<>>
    /\ present = Users
    /\ job = [j \in Jobs |-> Idle]
    /\ link = [u \in Watchers |-> "off"]
    /\ wire = [u \in Watchers |-> <<>>]
    /\ view = [u \in Watchers |-> <<>>]
    /\ loaded = [u \in Watchers |-> FALSE]
    /\ contended = [u \in Watchers |-> {}]
    /\ oldest = [u \in Watchers |-> 1]
    /\ crossed = {}

-----------------------------------------------------------------------------
(* RoomMembersService, as far as the chat looks at it.                     *)

Leave(u) ==
    /\ u \in present \ {Owner}
    /\ present' = present \ {u}
    /\ UNCHANGED <<table, job, link, wire, view, loaded, contended, oldest, crossed>>

Rejoin(u) ==
    /\ u \in Users \ present
    /\ present' = present \cup {u}
    /\ UNCHANGED <<table, job, link, wire, view, loaded, contended, oldest, crossed>>

-----------------------------------------------------------------------------
(* The connection and join-room.                                           *)

\* A verified socket connects; ChatPanel answers connect with join-room, and
\* the handler joins the socket to the room before it asks the database.
ConnectAndJoin(j, u) ==
    /\ link[u] = "off"
    /\ Start(j, "joinAssert", u, 0)
    /\ link' = [link EXCEPT ![u] = "joined"]
    /\ UNCHANGED <<table, present, wire, view, loaded, contended, oldest, crossed>>

JoinAssertMember(j) ==
    /\ job[j].at = "joinAssert"
    /\ IF job[j].by \in present THEN Await(j, "joinRead") ELSE Done(j)
    /\ UNCHANGED <<table, present, link, wire, view, loaded, contended, oldest, crossed>>

\* A plausible bug: orderBy 'asc' with the same take.
Newest_Oldest(rows) == SubSeq(rows, 1, IF Len(rows) > Take THEN Take ELSE Len(rows))

Newest(rows) == SubSeq(rows, IF Len(rows) > Take THEN Len(rows) - Take + 1 ELSE 1, Len(rows))

\* findMany, newest first; ChatPanel reverses what it gets.  History: what is
\* written and not announced will be both in the list and announced.
JoinRead(j) ==
    /\ job[j].at = "joinRead"
    /\ job' = [job EXCEPT ![j].at = "joinReply", ![j].out = Newest(table)]
    /\ contended' = [contended EXCEPT ![job[j].by] = Unannounced]
    /\ UNCHANGED <<table, present, link, wire, view, loaded, oldest, crossed>>

JoinReply(j) ==
    /\ job[j].at = "joinReply"
    /\ LET u == job[j].by
           rows == job[j].out
       IN /\ wire' = [wire EXCEPT ![u] = Append(@, [kind |-> "room-joined", rows |-> rows])]
          /\ oldest' = [oldest EXCEPT ![u] = IF rows = <<>> THEN 1 ELSE rows[1].id]
    /\ Done(j)
    /\ UNCHANGED <<table, present, link, view, loaded, contended, crossed>>

\* A broken connection: the socket leaves its rooms, what was under way is
\* lost, a reply to it too.  The list stays on the screen.
Disconnect(u) ==
    /\ link[u] = "joined"
    /\ link' = [link EXCEPT ![u] = "off"]
    /\ wire' = [wire EXCEPT ![u] = <<>>]
    /\ loaded' = [loaded EXCEPT ![u] = FALSE]
    /\ job' = [j \in Jobs |->
                 IF job[j].by = u /\ job[j].at \in JoinAwaits THEN Idle ELSE job[j]]
    /\ UNCHANGED <<table, present, view, contended, oldest, crossed>>

-----------------------------------------------------------------------------
(* send-message, edit-message, delete-message.                             *)

\* A plausible bug: client.to instead of server.to leaves the sender out.
Emit_NotToSender(e) ==
    wire' = [u \in Watchers |->
               IF link[u] = "joined" /\ ~(e.kind = "new-message" /\ e.row.by = u)
               THEN Append(wire[u], e) ELSE wire[u]]

\* server.to(room).emit reaches every socket in the room, the sender's too.
Emit(e) == wire' = [u \in Watchers |-> IF link[u] = "joined" THEN Append(wire[u], e) ELSE wire[u]]

\* A plausible bug: an edit inserts a row instead of updating the one it found.
WriteRow_Inserts(j, m, row, e) ==
    /\ table' = Append(table, row)
    /\ job' = [job EXCEPT ![j] = Job("emit", @.by, m, <<e>>)]
    /\ UNCHANGED <<present, link, wire, view, loaded, contended, oldest, crossed>>

\* The row is written and returned; what is emitted is made from it.  History:
\* announcements of one message can cross, and so can those of new messages.
WriteRow(j, m, row, e) ==
    /\ table' = IF m > Len(table) THEN Append(table, row) ELSE [table EXCEPT ![m] = row]
    /\ job' = [job EXCEPT ![j] = Job("emit", @.by, m, <<e>>)]
    /\ contended' = [u \in Watchers |-> contended[u] \cup ({m} \cap Unannounced)]
    /\ crossed' = IF m > Len(table) /\ Unannounced # {} THEN crossed \cup {m} ELSE crossed
    /\ UNCHANGED <<present, link, wire, view, loaded, oldest>>

SendAssertMember(j, u) ==
    /\ Online(u)
    /\ u \in present
    /\ Len(table) + Cardinality({i \in Jobs : job[i].at = "create"}) < MaxMsgs
    /\ Start(j, "create", u, 0)
    /\ UNCHANGED <<table, present, link, wire, view, loaded, contended, oldest, crossed>>

SendCreate(j) ==
    /\ job[j].at = "create"
    /\ \E files \in Files :
       LET m == Len(table) + 1
           row == [id |-> m, by |-> job[j].by, text |-> 0, files |-> files, deleted |-> FALSE]
       IN WriteRow(j, m, row, [kind |-> "new-message", row |-> row])

\* Only the sender edits, and not what is deleted.
EditFind(j, u, m) ==
    /\ Online(u)
    /\ ~table[m].deleted
    /\ table[m].by = u
    /\ table[m].text + Cardinality({i \in Jobs : job[i].at = "update"}) < MaxEdits
    /\ Start(j, "update", u, m)
    /\ UNCHANGED <<table, present, link, wire, view, loaded, contended, oldest, crossed>>

\* What editMessage includes of the row: the sender, and not the attachments.
Edited(row) == [kind |-> "message-edited", row |-> [row EXCEPT !.files = FALSE]]

\* A plausible bug: the edited message is announced and never saved.
EditUpdate_NotSaved(j) ==
    /\ job[j].at = "update"
    /\ LET row == [table[job[j].msg] EXCEPT !.text = @ + 1] IN
         job' = [job EXCEPT ![j] = Job("emit", @.by, row.id, <<Edited(row)>>)]
    /\ UNCHANGED <<table, present, link, wire, view, loaded, contended, oldest, crossed>>

EditUpdate(j) ==
    /\ job[j].at = "update"
    /\ LET m == job[j].msg
           row == [table[m] EXCEPT !.text = @ + 1]
       IN WriteRow(j, m, row, Edited(row))

\* The sender deletes at once; for anybody else the role is read first.
DeleteFind(j, u, m) ==
    /\ Online(u)
    /\ ~table[m].deleted
    /\ Start(j, IF table[m].by = u THEN "softDelete" ELSE "findOwner", u, m)
    /\ UNCHANGED <<table, present, link, wire, view, loaded, contended, oldest, crossed>>

DeleteFindOwner(j) ==
    /\ job[j].at = "findOwner"
    /\ IF job[j].by = Owner THEN Await(j, "softDelete") ELSE Done(j)
    /\ UNCHANGED <<table, present, link, wire, view, loaded, contended, oldest, crossed>>

DeleteUpdate(j) ==
    /\ job[j].at = "softDelete"
    /\ LET m == job[j].msg IN
         WriteRow(j, m, [table[m] EXCEPT !.deleted = TRUE], [kind |-> "message-deleted", id |-> m])

Broadcast(j) ==
    /\ job[j].at = "emit"
    /\ Emit(job[j].out[1])
    /\ contended' = [u \in Watchers |-> IF Snapshot(u) THEN contended[u] \cup {job[j].msg}
                                      ELSE contended[u]]
    /\ Done(j)
    /\ UNCHANGED <<table, present, link, view, loaded, oldest, crossed>>

-----------------------------------------------------------------------------
(* ChatPanel's event handlers.                                             *)

\* Plausible bugs: a new message goes in front of the list; a deleted message is
\* taken out of the list instead of being marked.
Shown_InFront(rows, e) ==
    CASE e.kind = "room-joined"     -> e.rows
      [] e.kind = "new-message"     -> <<e.row>> \o rows
      [] OTHER                      -> rows

Shown_TakenOut(rows, e) ==
    CASE e.kind = "room-joined"     -> e.rows
      [] e.kind = "new-message"     -> Append(rows, e.row)
      [] e.kind = "message-edited"  ->
            [i \in DOMAIN rows |-> IF rows[i].id = e.row.id THEN e.row ELSE rows[i]]
      [] e.kind = "message-deleted" -> SelectSeq(rows, LAMBDA r : r.id # e.id)

Shown(rows, e) ==
    CASE e.kind = "room-joined"     -> e.rows
      [] e.kind = "new-message"     -> Append(rows, e.row)
      [] e.kind = "message-edited"  ->
            [i \in DOMAIN rows |-> IF rows[i].id = e.row.id THEN e.row ELSE rows[i]]
      [] e.kind = "message-deleted" ->
            [i \in DOMAIN rows |-> IF rows[i].id = e.id
                                   THEN [rows[i] EXCEPT !.deleted = TRUE] ELSE rows[i]]

Handle(u) ==
    /\ wire[u] # <<>>
    /\ view' = [view EXCEPT ![u] = Shown(@, Head(wire[u]))]
    /\ loaded' = [loaded EXCEPT ![u] = @ \/ Head(wire[u]).kind = "room-joined"]
    /\ wire' = [wire EXCEPT ![u] = Tail(@)]
    /\ UNCHANGED <<table, present, job, link, contended, oldest, crossed>>

-----------------------------------------------------------------------------
Ask(j) ==
    \/ \E u \in Watchers : ConnectAndJoin(j, u)
    \/ \E u \in Users :
        \/ SendAssertMember(j, u)
        \/ \E m \in Sent : EditFind(j, u, m) \/ DeleteFind(j, u, m)

Proceed(j) ==
    \/ JoinAssertMember(j)
    \/ JoinRead(j)
    \/ JoinReply(j)
    \/ SendCreate(j)
    \/ EditUpdate(j)
    \/ DeleteFindOwner(j)
    \/ DeleteUpdate(j)
    \/ Broadcast(j)

Next ==
    \/ \E j \in Jobs : Ask(j) \/ Proceed(j)
    \/ \E u \in Watchers : Handle(u) \/ Disconnect(u)
    \/ \E u \in Users : Leave(u) \/ Rejoin(u)

Spec == Init /\ [][Next]_vars

\* The event loop runs every handler on, the database answers, and a socket
\* that stays up delivers.  Nothing makes a user ask or a connection break.
Fairness ==
    /\ \A j \in Jobs : WF_vars(Proceed(j))
    /\ \A u \in Watchers : WF_vars(Handle(u))

FairSpec == Spec /\ Fairness

-----------------------------------------------------------------------------
\* Rows, handlers, events and lists have their types.
TypeOK ==
    /\ table \in Seq(Message) /\ Len(table) <= MaxMsgs
    /\ \A m \in Sent : table[m].id = m
    /\ present \subseteq Users
    /\ \A j \in Jobs : job[j].by \in Users \cup {None} /\ job[j].msg \in 0..MaxMsgs
    /\ link \in [Watchers -> {"off", "joined"}]
    /\ \A u \in Watchers : wire[u] \in Seq(Events) /\ view[u] \in Seq(Message)
    /\ loaded \in [Watchers -> BOOLEAN]
    /\ contended \in [Watchers -> SUBSET Ids]
    /\ oldest \in [Watchers -> Ids]
    /\ crossed \subseteq Ids

\* Nobody is shown what was never written: every line of a list is a message of
\* the table by the same sender, at a text it had, deleted only if it is.
ShownWasWritten ==
    \A u \in Watchers : \A i \in DOMAIN view[u] :
        LET row == view[u][i] IN
            /\ row.id \in Sent
            /\ row.by = table[row.id].by
            /\ row.text <= table[row.id].text
            /\ row.files => table[row.id].files
            /\ row.deleted => table[row.id].deleted

\* Nothing is on its way to u's list about m.
AtRest(u, m) ==
    loaded[u] /\ wire[u] = <<>> /\ ~Joining(u) /\ m \notin Unannounced

\* A line shows a row as it is; an edit's announcement may have cost it the files.
Shows(line, row) ==
    \/ line = row
    \/ row.text > 0 /\ line = [row EXCEPT !.files = FALSE]

\* A list at rest shows every message since the first it was loaded with exactly
\* once and as the table has it, whatever was sent, edited and deleted meanwhile;
\* but for the messages whose announcements crossed each other or a join.
ViewAgrees ==
    \A u \in Watchers, m \in Sent :
        AtRest(u, m) /\ m >= oldest[u] /\ m \notin contended[u] =>
            /\ Cardinality({i \in DOMAIN view[u] : view[u][i].id = m}) = 1
            /\ \E i \in DOMAIN view[u] : Shows(view[u][i], table[m])

\* Two messages are shown in the order they were written in, unless the second
\* was written before the first was announced.
ShownInOrder ==
    \A u \in Watchers : loaded[u] =>
        \A i, k \in DOMAIN view[u] :
            LET m == view[u][i].id
                n == view[u][k].id
            IN m < n /\ {m, n} \cap contended[u] = {} /\ n \notin crossed => i < k

\* The comment on editMessage: a deleted message cannot be edited.
DeletedIsFinal ==
    [][\A m \in Sent : table[m].deleted => table'[m].text = table[m].text]_vars

\* A message written while u's list is loaded gets onto it, unless the connection
\* breaks or its announcement crosses another.
Delivered ==
    \A u \in Watchers, m \in Ids :
        (m \in Sent /\ loaded[u] /\ m >= oldest[u])
            ~> \/ \E i \in DOMAIN view[u] : view[u][i].id = m
               \/ ~loaded[u]
               \/ m \in contended[u]

=============================================================================
