------------------------------- MODULE ReadState -------------------------------
(***************************************************************************)
(* What one user has read of one room, and what the sidebar says of it:    *)
(* RoomMember.lastReadAt, written by read-message, the unread count that   *)
(* useMyRooms keeps, and the ChatPanel of the room that sends the          *)
(* read-messages.  The panel and the sidebar have a socket each, so        *)
(* nothing orders new-message against room-list-updated.                   *)
(*                                                                         *)
(* A message is its place in the order of createdAt.  Several handlers of  *)
(* send-message may be under way; each has created its row, announces it   *)
(* to the room, reads the members and notifies their lists.                *)
(***************************************************************************)
EXTENDS Naturals, Sequences, SequencesExt, FiniteSets

CONSTANTS
    MaxSent,   \* bound: messages ever sent
    MaxJoins,  \* bound: joins of the panel
    MaxOpens,  \* bound: times the sidebar is opened, and the list fetched
    MaxSlips,  \* bound: deletions, broken connections and failed requests
    Take,      \* messages a join returns at most (50)
    Unknown    \* the room is not in the list of the sidebar

ASSUME ReadAssumption ==
    /\ {MaxSent, MaxJoins, MaxOpens, MaxSlips} \subseteq Nat
    /\ Take \in Nat \ {0}
    /\ Unknown \notin Nat

VARIABLES
    msgs,      \* the rows: by the user or not, deleted, gone, how far the handler is
    lastRead,  \* the message whose createdAt is lastReadAt; 0: null
    reads,     \* reads[m]: read-messages for m whose handler has not found the row yet
    found,     \* found[m]: handlers that have, and not written
    panel,     \* ChatPanel: "closed", "open" (not connected), "joined" (in room:<id>)
    join,      \* the handler of join-room: what it awaits; the last row read, and the
               \* last of those the list has no place for
    loaded,    \* room-joined was handled on this connection
    panelWire, \* events on their way to the panel
    sidebar,   \* the sidebar is open
    badge,     \* unreadCount in the list
    fetch,     \* fetch[k], of the k-th opening: what it awaits, lastReadAt, the count
    listWire,  \* room-list-updated events on their way to useChatSocket
    joins,     \* history: joins so far
    opens,     \* history: times the sidebar was opened
    slips,     \* history: deletions, breaks and failures so far
    shown,     \* history: messages the panel has shown, rows that are gone aside
    skipped,   \* history: messages a later one was shown before, see Announce
    older,     \* history: the messages up to here were beyond the list of a join
    backed,    \* history: messages lastReadAt has moved back over
    voided,    \* history: messages a read-message was for that threw
    zeroed,    \* history: messages counted when the panel was opened
    missed     \* history: messages the count was not raised for, or lost again

chatVars == <<msgs, lastRead, reads, found>>
screen == <<joins, shown, skipped, older>>
panelVars == <<panel, join, loaded, panelWire, screen>>
listVars == <<sidebar, badge, fetch, listWire, opens, zeroed, missed>>
history == <<backed, voided>>
readVars == <<chatVars, panelVars, listVars, slips, history>>

Slip == slips < MaxSlips /\ slips' = slips + 1

SentMsgs == 1..Len(msgs)

NoJoin == [at |-> "idle", upto |-> 0, from |-> 0]

NoFetch == [at |-> "idle", base |-> 0, count |-> 0, seen |-> {}]

ReadInit ==
    /\ msgs = <<>>
    /\ lastRead = 0
    /\ reads = [m \in 1..MaxSent |-> 0] /\ found = reads
    /\ panel = "closed"
    /\ join = NoJoin
    /\ loaded = FALSE
    /\ panelWire = <<>>
    /\ sidebar = FALSE
    /\ badge = Unknown
    /\ fetch = [k \in 1..MaxOpens |-> NoFetch]
    /\ listWire = <<>>
    /\ joins = 0 /\ opens = 0 /\ slips = 0
    /\ older = 0
    /\ shown = {} /\ skipped = {} /\ backed = {} /\ voided = {} /\ zeroed = {} /\ missed = {}

-----------------------------------------------------------------------------
(* send-message, delete-message and AdminService.deleteUser.               *)

SendCreate(mine) ==
    /\ Len(msgs) < MaxSent
    /\ msgs' = Append(msgs, [mine |-> mine, deleted |-> FALSE, gone |-> FALSE, at |-> "announce"])
    /\ UNCHANGED <<lastRead, reads, found, panelVars, listVars, slips, history>>

NewMessage(m) == [kind |-> "new-message", id |-> m, from |-> 0]

\* server.to("room:<id>").emit("new-message"); an earlier row may still await this.
SendAnnounce(m) ==
    /\ msgs[m].at = "announce"
    /\ msgs' = [msgs EXCEPT ![m].at = "notify"]
    /\ panelWire' = IF panel = "joined" THEN Append(panelWire, NewMessage(m))
                    ELSE panelWire
    /\ skipped' = skipped \cup {i \in 1..(m - 1) : msgs[i].at = "announce"}
    /\ UNCHANGED <<lastRead, reads, found, panel, join, loaded, joins, shown, older, listVars,
                   slips, history>>

\* A plausible bug: who has the room open is not notified, the panel shows it.
SendNotify_NotInRoom(m) ==
    /\ msgs[m].at = "notify"
    /\ msgs' = [msgs EXCEPT ![m].at = "sent"]
    /\ listWire' = IF panel # "joined" THEN Append(listWire, m) ELSE listWire
    /\ UNCHANGED <<lastRead, reads, found, panelVars, sidebar, badge, fetch, opens, zeroed, missed,
                   slips, history>>

\* getActiveMemberIds has answered: room-list-updated goes to user:<id>.
SendNotify(m) ==
    /\ msgs[m].at = "notify"
    /\ msgs' = [msgs EXCEPT ![m].at = "sent"]
    /\ listWire' = Append(listWire, m)
    /\ UNCHANGED <<lastRead, reads, found, panelVars, sidebar, badge, fetch, opens, zeroed, missed,
                   slips, history>>

\* A soft delete; the lists are not told.
DeleteSent(m) ==
    /\ ~msgs[m].deleted /\ ~msgs[m].gone
    /\ Slip
    /\ msgs' = [msgs EXCEPT ![m].deleted = TRUE]
    /\ UNCHANGED <<lastRead, reads, found, panelVars, listVars, history>>

\* An admin deletes the account of another member, and message.deleteMany the rows of
\* the messages it has sent.  Nobody is told, and their handlers go on.
AdminDeleteUser ==
    /\ Slip
    /\ \E theirs \in (SUBSET {m \in SentMsgs : ~msgs[m].mine /\ ~msgs[m].gone}) \ {{}} :
         msgs' = [m \in SentMsgs |-> [msgs[m] EXCEPT !.gone = @ \/ m \in theirs]]
    /\ UNCHANGED <<lastRead, reads, found, panelVars, listVars, history>>

-----------------------------------------------------------------------------
(* read-message.                                                           *)

Written(m) ==
    /\ lastRead' = m
    /\ backed' = (backed \ (1..m)) \cup ((m + 1)..lastRead)
    /\ voided' = voided \ (1..m)

\* The row is looked for; of one that is gone nothing can be said, and the handler
\* throws: lastReadAt stays, over whatever the panel has shown.
ReadFind(m) ==
    /\ reads[m] > 0
    /\ reads' = [reads EXCEPT ![m] = @ - 1]
    /\ IF msgs[m].gone
       THEN voided' = voided \cup ((lastRead + 1)..m) /\ UNCHANGED found
       ELSE found' = [found EXCEPT ![m] = @ + 1] /\ UNCHANGED voided
    /\ UNCHANGED <<msgs, lastRead, panelVars, listVars, slips, backed>>

\* A plausible bug: lastReadAt is the time of the call.
ReadWrite_Now(m) ==
    /\ found[m] > 0
    /\ found' = [found EXCEPT ![m] = @ - 1]
    /\ Written(Len(msgs))
    /\ UNCHANGED <<msgs, reads, panelVars, listVars, slips>>

\* The createdAt found is written, be the row gone since.  The handlers of two
\* read-messages write in either order.
ReadWrite(m) ==
    /\ found[m] > 0
    /\ found' = [found EXCEPT ![m] = @ - 1]
    /\ Written(m)
    /\ UNCHANGED <<msgs, reads, panelVars, listVars, slips>>

-----------------------------------------------------------------------------
(* ChatPanel and join-room.                                                *)

\* The panel connects and joins; client.join comes before the list is read.
PanelJoin ==
    /\ panel = "open" /\ joins < MaxJoins
    /\ panel' = "joined"
    /\ join' = [NoJoin EXCEPT !.at = "read"]
    /\ joins' = joins + 1
    /\ UNCHANGED <<chatVars, loaded, panelWire, shown, skipped, older, listVars, slips, history>>

\* The rows, by place.
StoredMsgs == {m \in SentMsgs : ~msgs[m].gone}

\* The newest rows: those up to upto, and after from, the newest there is no place for.
JoinRead ==
    /\ join.at = "read"
    /\ \E from, upto \in StoredMsgs \cup {0} :
         /\ \A m \in StoredMsgs : m <= upto
         /\ LET list == {m \in StoredMsgs : m > from} IN
              IF from = 0 THEN Cardinality(list) <= Take ELSE Cardinality(list) = Take
         /\ join' = [at |-> "reply", upto |-> upto, from |-> from]
    /\ UNCHANGED <<chatVars, panel, loaded, panelWire, screen, listVars, slips, history>>

JoinReply ==
    /\ join.at = "reply"
    /\ panelWire' = Append(panelWire,
                      [kind |-> "room-joined", id |-> join.upto, from |-> join.from])
    /\ join' = NoJoin
    /\ UNCHANGED <<chatVars, panel, loaded, screen, listVars, slips, history>>

\* A plausible bug: the list is marked as read, later messages are not.
PanelNewMessage_Unmarked ==
    /\ panelWire # <<>> /\ Head(panelWire).kind = "new-message"
    /\ shown' = shown \cup {Head(panelWire).id}
    /\ panelWire' = Tail(panelWire)
    /\ UNCHANGED <<chatVars, panel, join, loaded, joins, skipped, older, listVars, slips, history>>

\* Every message that comes is marked, one's own too, and at once, though the list
\* of the join may still be on its way.
PanelNewMessage ==
    /\ panelWire # <<>> /\ Head(panelWire).kind = "new-message"
    /\ LET m == Head(panelWire).id IN
         /\ shown' = shown \cup {m}
         /\ reads' = [reads EXCEPT ![m] = @ + 1]
         /\ skipped' = IF loaded THEN skipped ELSE skipped \cup 1..(m - 1)
    /\ panelWire' = Tail(panelWire)
    /\ UNCHANGED <<msgs, lastRead, found, panel, join, loaded, joins, older, listVars, slips,
                   history>>

\* The last message of the list is marked, whatever the list could not hold, unless
\* there is none.
PanelRoomJoined ==
    /\ panelWire # <<>> /\ Head(panelWire).kind = "room-joined"
    /\ LET n == Head(panelWire).id
           from == Head(panelWire).from
       IN
         /\ shown' = shown \cup ((from + 1)..n)
         /\ older' = IF from > older THEN from ELSE older
         /\ reads' = IF n = 0 THEN reads ELSE [reads EXCEPT ![n] = @ + 1]
    /\ loaded' = TRUE
    /\ panelWire' = Tail(panelWire)
    /\ UNCHANGED <<msgs, lastRead, found, panel, join, joins, skipped, listVars, slips, history>>

Disconnected == join' = NoJoin /\ loaded' = FALSE /\ panelWire' = <<>>

\* The connection breaks: what is on its way is lost, in both directions.
PanelBreak ==
    /\ panel = "joined"
    /\ Slip
    /\ panel' = "open"
    /\ Disconnected
    /\ \E lost \in SUBSET {m \in 1..MaxSent : reads[m] > 0} :
         reads' = [m \in 1..MaxSent |-> IF m \in lost THEN 0 ELSE reads[m]]
    /\ UNCHANGED <<msgs, lastRead, found, screen, listVars, history>>

\* Messages whose count was cleared on opening and that the panel never marked.
Dropped == IF loaded THEN zeroed \cap {e.id : e \in ToSet(panelWire)} ELSE zeroed

\* The panel unmounts, the sidebar staying open: leave-room and disconnect.
PanelBack ==
    /\ panel # "closed"
    /\ panel' = "closed"
    /\ Disconnected
    /\ missed' = missed \cup Dropped
    /\ UNCHANGED <<chatVars, screen, sidebar, badge, fetch, opens, listWire,
                   zeroed, slips, history>>

-----------------------------------------------------------------------------
(* ChatSidebar, useMyRooms, useChatSocket and findMyRooms.                 *)

\* Each opening fetches the list, whatever an earlier fetch still awaits.
SidebarOpen ==
    /\ ~sidebar /\ opens < MaxOpens
    /\ sidebar' = TRUE
    /\ opens' = opens + 1
    /\ fetch' = [fetch EXCEPT ![opens + 1].at = "find"]
    /\ UNCHANGED <<chatVars, panelVars, badge, listWire, zeroed, missed, slips, history>>

\* Closing the sidebar takes the panel with it.
SidebarClose ==
    /\ sidebar
    /\ sidebar' = FALSE
    /\ panel' = "closed"
    /\ Disconnected
    /\ missed' = IF panel = "closed" THEN missed ELSE missed \cup Dropped
    /\ UNCHANGED <<chatVars, screen, badge, fetch, opens, listWire, zeroed,
                   slips, history>>

\* handleRoomSelect: on a room that is open already, only the count is cleared.
SelectRoom ==
    /\ sidebar /\ badge # Unknown
    /\ panel' = IF panel = "closed" THEN "open" ELSE panel
    /\ badge' = 0
    /\ zeroed' = {m \in SentMsgs \ ToSet(listWire) : msgs[m].at = "sent"}
    /\ UNCHANGED <<chatVars, join, loaded, panelWire, screen, sidebar, fetch,
                   opens, listWire, missed, slips, history>>

FetchFind(k) ==
    /\ fetch[k].at = "find"
    /\ fetch' = [fetch EXCEPT ![k].at = "count", ![k].base = lastRead]
    /\ UNCHANGED <<chatVars, panelVars, sidebar, badge, opens, listWire, zeroed, missed, slips,
                   history>>

\* The user's own messages count, unlike in ListUpdated.
FetchCount(k) ==
    /\ fetch[k].at = "count"
    /\ fetch' = [fetch EXCEPT ![k].at = "reply",
         ![k].count = Cardinality({m \in StoredMsgs : m > fetch[k].base /\ ~msgs[m].deleted})]
    /\ UNCHANGED <<chatVars, panelVars, sidebar, badge, opens, listWire, zeroed, missed, slips,
                   history>>

\* setRooms replaces the list, whatever events and later fetches have done to it since
\* the count.
FetchReply(k) ==
    /\ fetch[k].at = "reply"
    /\ badge' = fetch[k].count
    /\ missed' = missed \cup fetch[k].seen
    /\ fetch' = [fetch EXCEPT ![k] = NoFetch]
    /\ UNCHANGED <<chatVars, panelVars, sidebar, opens, listWire, zeroed, slips, history>>

\* The request fails: the list stays as it is.
FetchFail(k) ==
    /\ fetch[k].at # "idle"
    /\ Slip
    /\ fetch' = [fetch EXCEPT ![k] = NoFetch]
    /\ UNCHANGED <<chatVars, panelVars, sidebar, badge, opens, listWire, zeroed, missed, history>>

\* handleRoomListUpdated: a room that is not in the list stays out of it; one whose
\* panel is open is counted like any other.
ListUpdated ==
    /\ listWire # <<>>
    /\ LET m == Head(listWire) IN
         /\ badge' = IF badge = Unknown \/ msgs[m].mine THEN badge ELSE badge + 1
         /\ fetch' = [k \in 1..MaxOpens |-> IF fetch[k].at # "reply" THEN fetch[k]
                                            ELSE [fetch[k] EXCEPT !.seen = @ \cup {m}]]
    /\ listWire' = Tail(listWire)
    /\ UNCHANGED <<chatVars, panelVars, sidebar, opens, zeroed, missed, slips, history>>

\* The socket breaks and connects again; handleConnection puts it into user:<id>, and
\* nothing is fetched.  An event emitted in between is lost like those on their way.
ListBreak ==
    /\ listWire # <<>>
    /\ Slip
    /\ missed' = missed \cup ToSet(listWire)
    /\ listWire' = <<>>
    /\ UNCHANGED <<chatVars, panelVars, sidebar, badge, fetch, opens, zeroed, history>>

ReadNext ==
    \/ \E mine \in BOOLEAN : SendCreate(mine)
    \/ \E m \in SentMsgs :
        \/ SendAnnounce(m)
        \/ SendNotify(m)
        \/ DeleteSent(m)
        \/ ReadFind(m)
        \/ ReadWrite(m)
    \/ AdminDeleteUser
    \/ PanelJoin \/ JoinRead \/ JoinReply
    \/ PanelNewMessage \/ PanelRoomJoined \/ PanelBreak \/ PanelBack
    \/ SidebarOpen \/ SidebarClose \/ SelectRoom
    \/ \E k \in 1..MaxOpens : FetchFind(k) \/ FetchCount(k) \/ FetchReply(k) \/ FetchFail(k)
    \/ ListUpdated \/ ListBreak

ReadSpec == ReadInit /\ [][ReadNext]_readVars

-----------------------------------------------------------------------------
\* Rows, handlers, panel and list have their types.
ReadTypeOK ==
    /\ msgs \in Seq([mine : BOOLEAN, deleted : BOOLEAN, gone : BOOLEAN,
                     at : {"announce", "notify", "sent"}])
    /\ lastRead \in 0..Len(msgs) /\ join.upto \in 0..Len(msgs) /\ join.from \in 0..Len(msgs)
    /\ {reads, found} \subseteq [1..MaxSent -> Nat]
    /\ \A m \in (1..MaxSent) \ SentMsgs : reads[m] = 0 /\ found[m] = 0
    /\ panel \in {"closed", "open", "joined"}
    /\ join.at \in {"idle", "read", "reply"} /\ join # NoJoin => panel = "joined" /\ ~loaded
    /\ panelWire # <<>> => panel = "joined"
    /\ UNION {ToSet(listWire), shown, skipped, backed, voided, zeroed, missed} \subseteq SentMsgs
    /\ panel # "closed" => sidebar
    /\ badge \in Nat \cup {Unknown}
    /\ \A k \in 1..MaxOpens :
         /\ fetch[k].at \in {"idle", "find", "count", "reply"}
         /\ fetch[k].base \in 0..Len(msgs) /\ fetch[k].seen \subseteq SentMsgs

\* Nothing is under way.
AtRest ==
    /\ \A m \in SentMsgs : msgs[m].at = "sent" /\ reads[m] = 0 /\ found[m] = 0
    /\ join = NoJoin /\ \A k \in 1..MaxOpens : fetch[k] = NoFetch
    /\ panelWire = <<>> /\ listWire = <<>>

\* The rows lastReadAt does not cover.
Unread == {m \in StoredMsgs : m > lastRead}

\* With the panel open and nothing under way, everything is read: a message between
\* the list of the join and the first event is not lost.  The exceptions are a
\* message over which a read-message that was overtaken moved lastReadAt back, and one
\* that a read-message was for, itself or a later one, that found the row it names gone.
ReadToTheEnd ==
    AtRest /\ panel = "joined" /\ loaded => Unread \subseteq backed \cup voided

\* A message that is still there counts as read only if the panel has shown it, or it
\* was older than the list a join returned, or a later one was announced, or came,
\* before it.
ReadWasShown ==
    \A m \in StoredMsgs : m <= lastRead => m \in shown \cup skipped \/ m <= older

\* With the panel closed and nothing under way, a message of somebody else that is
\* not read shows in the count, unless the event about it was lost, or was handled
\* while an older count was on its way, or the panel that cleared the count was
\* closed before it marked it, or lastReadAt moved back over it, or the read-message
\* for it, itself or a later one, found the row it names gone.
UnreadNoticed ==
    AtRest /\ panel = "closed" /\ badge # Unknown =>
        \/ badge > 0
        \/ \A m \in Unread :
              msgs[m].mine \/ msgs[m].deleted \/ m \in missed \cup backed \cup voided

=============================================================================
