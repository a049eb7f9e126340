------------------------------ MODULE PanelProofs ------------------------------
(***************************************************************************)
(* Proofs about what a ChatPanel and the sidebar tell their user, for any  *)
(* number of messages, joins and failures and any tabs: what counts as     *)
(* read was shown, everything shown at rest is read, an unread message     *)
(* shows in the count (ReadState), and the name of who types is shown, and *)
(* of nobody else (Typing).                                                *)
(***************************************************************************)
EXTENDS ReadState, Typing, FiniteSetTheorems, TLAPS

-----------------------------------------------------------------------------
(* ReadState: what the panel and the list owe.                             *)

\* The event tells the panel of message i.
Tells(e, i) == IF e.kind = "room-joined" THEN i <= e.id ELSE i = e.id

\* There is no row of message i any more.
Erased(i) == i \in SentMsgs /\ msgs[i].gone

\* Message i was shown, or ReadWasShown says why it was not.
Accounted(i) == i \in shown \cup skipped \/ i <= older \/ Erased(i)

\* Message i is read, or lastReadAt moved back over it, or stayed where it was.
Marked(i) == i <= lastRead \/ i \in backed \cup voided

\* A read-message for m is being handled.
BeingRead(m) == reads[m] > 0 \/ found[m] > 0

\* A read-message for i or a later one is being handled.
Marking(i) == \E m \in 1..MaxSent : i <= m /\ BeingRead(m)

\* An event that tells of i is on its way to the panel.
OnWire(i) == \E k \in 1..Len(panelWire) : Tells(panelWire[k], i)

\* The list of the join under way has i or is still to be read.
ToBeListed(i) == join.at = "read" \/ (join.at = "reply" /\ i <= join.upto)

\* A connection gets one list: none is on its way while one is being read, or
\* when it was handled.
OneList ==
    /\ join # NoJoin \/ loaded =>
         \A k \in 1..Len(panelWire) : panelWire[k].kind # "room-joined"
    /\ \A j, k \in 1..Len(panelWire) :
         panelWire[j].kind = "room-joined" /\ panelWire[k].kind = "room-joined" => j = k

\* What is before m is accounted for, or comes before m, or m comes before the list.
Before(i, k) ==
    \/ Accounted(i)
    \/ \E j \in 1..(k - 1) : Tells(panelWire[j], i)
    \/ ~loaded /\ \A j \in 1..(k - 1) : panelWire[j].kind # "room-joined"

InStep ==
    \A k \in 1..Len(panelWire) :
      panelWire[k].kind = "new-message" => \A i \in 1..(panelWire[k].id - 1) : Before(i, k)

\* A message that was announced reached the panel and is being marked, or will be.
Reaches(i) ==
    \/ Erased(i) \/ OnWire(i) \/ ToBeListed(i)
    \/ Accounted(i) /\ (Marked(i) \/ Marking(i))

EachReaches ==
    panel = "joined" => \A i \in SentMsgs : msgs[i].at # "announce" => Reaches(i)

\* What is marked, or about to be, is accounted for, with everything before it.
MarkedAfterShown ==
    /\ \A m \in 1..MaxSent : BeingRead(m) => \A i \in 1..m : Accounted(i)
    /\ \A i \in 1..lastRead : Accounted(i)

PanelInv == OneList /\ InStep /\ EachReaches /\ MarkedAfterShown

\* The user cannot be expected to find i in the count.
NoNews(i) ==
    msgs[i].deleted \/ msgs[i].gone \/ Marked(i) \/ i \in missed \/ i \in ToSet(listWire)

\* An answer that counts nothing has overlooked nothing.
FetchHonest ==
    \A k \in 1..MaxOpens :
      /\ fetch[k].at = "count" => \A i \in 1..fetch[k].base : Marked(i)
      /\ fetch[k].at = "reply" /\ fetch[k].count = 0 =>
           \A i \in SentMsgs : msgs[i].at = "sent" => NoNews(i) \/ i \in fetch[k].seen

\* Nor has a count of zero.
ZeroHonest ==
    badge = 0 => \A i \in SentMsgs : msgs[i].at = "sent" =>
      \/ NoNews(i) \/ msgs[i].mine
      \/ panel # "closed" /\ i \in zeroed
      \/ panel = "closed" /\ Marking(i)

ListInv == FetchHonest /\ ZeroHonest

-----------------------------------------------------------------------------
(* ReadState: types.                                                       *)

LEMMA Appended ==
    ASSUME NEW S, NEW s \in Seq(S), NEW e \in S
    PROVE  /\ Append(s, e) \in Seq(S) /\ Len(Append(s, e)) = Len(s) + 1 /\ Len(s) \in Nat
           /\ \A k \in 1..Len(s) : Append(s, e)[k] = s[k] /\ s[k] \in S
           /\ Append(s, e)[Len(s) + 1] = e
           /\ ToSet(Append(s, e)) = ToSet(s) \cup {e}
           /\ Append(s, e) # <<>>
<1>1. /\ Append(s, e) \in Seq(S) /\ Len(Append(s, e)) = Len(s) + 1 /\ Len(s) \in Nat
      /\ \A k \in 1..Len(s) : Append(s, e)[k] = s[k] /\ s[k] \in S
      /\ Append(s, e)[Len(s) + 1] = e
  OBVIOUS
<1>2. DOMAIN s = 1..Len(s) /\ DOMAIN Append(s, e) = 1..(Len(s) + 1)
  OBVIOUS
<1>3. ToSet(Append(s, e)) = ToSet(s) \cup {e}
  BY <1>1, <1>2 DEF ToSet
<1> QED
  BY <1>1, <1>3

LEMMA Headed ==
    ASSUME NEW S, NEW s \in Seq(S), s # <<>>
    PROVE  /\ Tail(s) \in Seq(S) /\ Len(Tail(s)) = Len(s) - 1 /\ Len(s) \in Nat \ {0}
           /\ Head(s) = s[1] /\ Head(s) \in S
           /\ \A k \in 1..Len(Tail(s)) : Tail(s)[k] = s[k + 1] /\ k + 1 \in 1..Len(s)
           /\ ToSet(s) = ToSet(Tail(s)) \cup {Head(s)}
<1>1. /\ Tail(s) \in Seq(S) /\ Len(Tail(s)) = Len(s) - 1 /\ Len(s) \in Nat \ {0}
      /\ Head(s) = s[1] /\ Head(s) \in S
      /\ \A k \in 1..Len(Tail(s)) : Tail(s)[k] = s[k + 1] /\ k + 1 \in 1..Len(s)
  OBVIOUS
<1>2. DOMAIN s = 1..Len(s) /\ DOMAIN Tail(s) = 1..Len(Tail(s))
  BY <1>1
<1>3. ASSUME NEW k \in 1..Len(s), k # 1 PROVE k - 1 \in 1..Len(Tail(s)) /\ s[k] = Tail(s)[k - 1]
  BY <1>1, <1>3
<1>4. ToSet(s) \subseteq ToSet(Tail(s)) \cup {Head(s)}
  <2> SUFFICES ASSUME NEW k \in 1..Len(s) PROVE s[k] \in ToSet(Tail(s)) \cup {Head(s)}
    BY <1>2 DEF ToSet
  <2>1. CASE k = 1
    BY <1>1, <2>1
  <2>2. CASE k # 1
    <3>1. PICK i \in 1..Len(Tail(s)) : s[k] = Tail(s)[i]
      BY <1>3, <2>2
    <3> QED
      BY <1>2, <3>1 DEF ToSet
  <2> QED
    BY <2>1, <2>2
<1>5. ToSet(Tail(s)) \cup {Head(s)} \subseteq ToSet(s)
  BY <1>1, <1>2 DEF ToSet
<1> QED
  BY <1>1, <1>4, <1>5

LEMMA NothingIn == ToSet(<<>>) = {}
BY DEF ToSet

MsgRows ==
    [mine : BOOLEAN, deleted : BOOLEAN, gone : BOOLEAN, at : {"announce", "notify", "sent"}]

PanelEvents == [kind : {"new-message", "room-joined"}, id : 0..MaxSent, from : 0..MaxSent]

Joins == [at : {"idle", "read", "reply"}, upto : 0..MaxSent, from : 0..MaxSent]

Fetches ==
    [at : {"idle", "find", "count", "reply"}, base : 0..MaxSent, count : Nat,
     seen : SUBSET (1..MaxSent)]

ChatTypes ==
    /\ msgs \in Seq(MsgRows) /\ Len(msgs) <= MaxSent
    /\ lastRead \in 0..Len(msgs)
    /\ reads \in [1..MaxSent -> Nat] /\ found \in [1..MaxSent -> Nat]
    /\ \A m \in (1..MaxSent) \ SentMsgs : reads[m] = 0 /\ found[m] = 0
    /\ backed \subseteq SentMsgs /\ voided \subseteq SentMsgs

PanelTypes ==
    /\ panel \in {"closed", "open", "joined"} /\ loaded \in BOOLEAN
    /\ join \in Joins /\ join.upto <= Len(msgs) /\ join.from <= Len(msgs)
    /\ join.at = "idle" => join = NoJoin
    /\ join # NoJoin => panel = "joined" /\ ~loaded
    /\ loaded => panel = "joined"
    /\ panelWire \in Seq(PanelEvents)
    /\ \A k \in 1..Len(panelWire) :
         /\ panelWire[k].id <= Len(msgs)
         /\ panelWire[k].kind = "new-message" => panelWire[k].id # 0
    /\ panelWire # <<>> => panel = "joined"
    /\ shown \subseteq SentMsgs /\ skipped \subseteq SentMsgs /\ older \in Nat

ListTypes ==
    /\ panel # "closed" => sidebar
    /\ sidebar \in BOOLEAN
    /\ badge \in Nat \cup {Unknown}
    /\ fetch \in [1..MaxOpens -> Fetches]
    /\ \A k \in 1..MaxOpens : fetch[k].base <= Len(msgs) /\ fetch[k].seen \subseteq SentMsgs
    /\ listWire \in Seq(1..MaxSent) /\ ToSet(listWire) \subseteq SentMsgs
    /\ zeroed \subseteq SentMsgs /\ missed \subseteq SentMsgs

ReadTypes == ChatTypes /\ PanelTypes /\ ListTypes

LEMMA ReadTypesImply == ReadTypes => ReadTypeOK
<1> SUFFICES ASSUME ReadTypes PROVE ReadTypeOK
  OBVIOUS
<1>1. join.upto \in 0..Len(msgs) /\ join.from \in 0..Len(msgs)
  BY ReadAssumption DEF ReadTypes, ChatTypes, PanelTypes, Joins
<1>2. ASSUME NEW k \in 1..MaxOpens
      PROVE  /\ fetch[k].at \in {"idle", "find", "count", "reply"}
             /\ fetch[k].base \in 0..Len(msgs) /\ fetch[k].seen \subseteq SentMsgs
  <2>1. fetch[k] \in Fetches
    BY DEF ReadTypes, ListTypes
  <2> QED
    BY <2>1, ReadAssumption DEF ReadTypes, ChatTypes, ListTypes, Fetches
<1> QED
  BY <1>1, <1>2, ReadAssumption
     DEF ReadTypes, ChatTypes, PanelTypes, ListTypes, ReadTypeOK, MsgRows, Joins

LEMMA NoJoinIs ==
    NoJoin \in Joins /\ NoJoin.at = "idle" /\ NoJoin.upto = 0 /\ NoJoin.from = 0
BY ReadAssumption DEF NoJoin, Joins

LEMMA NoFetchIs ==
    NoFetch \in Fetches /\ NoFetch.at = "idle" /\ NoFetch.base = 0 /\ NoFetch.seen = {}
BY ReadAssumption DEF NoFetch, Fetches

\* Rows are changed in place, but for the one SendCreate makes.
LEMMA RowsKept ==
    ASSUME ChatTypes, NEW m \in SentMsgs, NEW row \in MsgRows, msgs' = [msgs EXCEPT ![m] = row]
    PROVE  /\ msgs' \in Seq(MsgRows) /\ Len(msgs') = Len(msgs) /\ SentMsgs' = SentMsgs
           /\ msgs'[m] = row
           /\ \A i \in SentMsgs : i # m => msgs'[i] = msgs[i]
<1>1. msgs \in Seq(MsgRows) /\ m \in 1..Len(msgs)
  BY DEF ChatTypes, SentMsgs
<1>2. msgs' \in Seq(MsgRows) /\ Len(msgs') = Len(msgs)
  BY <1>1
<1> QED
  BY <1>1, <1>2 DEF SentMsgs

LEMMA RowIs ==
    ASSUME ChatTypes, NEW m \in SentMsgs
    PROVE  /\ msgs[m] \in MsgRows /\ m \in 1..MaxSent /\ m \in Nat \ {0} /\ m <= Len(msgs)
           /\ Len(msgs) \in Nat
BY ReadAssumption DEF ChatTypes, SentMsgs

LEMMA ReadTypesInitial == ReadInit => ReadTypes
<1> SUFFICES ASSUME ReadInit PROVE ReadTypes
  OBVIOUS
<1>1. Len(msgs) = 0 /\ SentMsgs = {}
  BY DEF ReadInit, SentMsgs
<1>2. ChatTypes
  BY <1>1, ReadAssumption DEF ReadInit, ChatTypes
<1>3. PanelTypes
  <2>1. panelWire = <<>> /\ panelWire \in Seq(PanelEvents) /\ Len(panelWire) = 0
    BY DEF ReadInit
  <2>2. /\ join = NoJoin /\ join \in Joins /\ join.at = "idle"
        /\ join.upto <= Len(msgs) /\ join.from <= Len(msgs)
    BY <1>1, NoJoinIs DEF ReadInit
  <2>3. \A k \in 1..Len(panelWire) : FALSE
    BY <2>1
  <2>4. /\ panel = "closed" /\ loaded = FALSE
        /\ shown = {} /\ skipped = {} /\ older = 0
    BY DEF ReadInit
  <2> QED
    BY <2>1, <2>2, <2>3, <2>4 DEF PanelTypes
<1>4. ListTypes
  <2>1. listWire \in Seq(1..MaxSent) /\ ToSet(listWire) = {}
    BY NothingIn DEF ReadInit
  <2>2. /\ fetch \in [1..MaxOpens -> Fetches]
        /\ \A k \in 1..MaxOpens : fetch[k].base <= Len(msgs) /\ fetch[k].seen \subseteq SentMsgs
    BY <1>1, NoFetchIs DEF ReadInit
  <2> QED
    BY <1>1, <2>1, <2>2 DEF ReadInit, ListTypes
<1> QED
  BY <1>2, <1>3, <1>4 DEF ReadTypes

-----------------------------------------------------------------------------
(* What the steps leave alone.                                             *)

\* Steps of a fetch of the list.
FetchStep(k) == FetchFind(k) \/ FetchCount(k) \/ FetchReply(k) \/ FetchFail(k)

\* Steps of the sidebar, and of its socket.
ListStep ==
    \/ SidebarOpen \/ SelectRoom
    \/ \E k \in 1..MaxOpens : FetchStep(k)
    \/ ListUpdated \/ ListBreak

\* The panel is closed.
Leave == PanelBack \/ SidebarClose

\* Steps of the handlers of read-message.
Marks(m) == ReadFind(m) \/ ReadWrite(m)

\* Steps of the panel and of the handlers that the list is not part of.
PanelStep ==
    \/ \E m \in SentMsgs : Marks(m)
    \/ PanelJoin \/ JoinRead \/ JoinReply
    \/ PanelNewMessage \/ PanelRoomJoined \/ PanelBreak

\* Steps that change a row.
RowStep(m) == SendAnnounce(m) \/ SendNotify(m) \/ DeleteSent(m)

LEMMA ReadNextIs ==
    ReadNext <=> \/ \E mine \in BOOLEAN : SendCreate(mine)
                 \/ \E m \in SentMsgs : RowStep(m)
                 \/ AdminDeleteUser
                 \/ PanelStep \/ Leave \/ ListStep
BY DEF ReadNext, RowStep, PanelStep, Marks, Leave, ListStep, FetchStep

LEMMA ListStepFrame ==
    ASSUME ListStep
    PROVE  /\ UNCHANGED <<msgs, lastRead, reads, found, backed, voided, join, loaded,
                          panelWire, shown, skipped, older>>
           /\ panel' = panel \/ (panel = "closed" /\ panel' = "open")
           /\ panel' = panel \/ sidebar
<1>1. CASE SelectRoom
  BY <1>1 DEF SelectRoom, chatVars, screen, history
<1>2. CASE SidebarOpen
  BY <1>2 DEF SidebarOpen, chatVars, panelVars, screen, history
<1>3. CASE \E k \in 1..MaxOpens : FetchFind(k) \/ FetchCount(k)
  BY <1>3 DEF FetchFind, FetchCount, chatVars, panelVars, screen, history
<1>4. CASE \E k \in 1..MaxOpens : FetchReply(k) \/ FetchFail(k)
  BY <1>4 DEF FetchReply, FetchFail, chatVars, panelVars, screen, history
<1>5. CASE ListUpdated \/ ListBreak
  BY <1>5 DEF ListUpdated, ListBreak, chatVars, panelVars, screen, history
<1> QED
  BY <1>1, <1>2, <1>3, <1>4, <1>5 DEF ListStep, FetchStep

LEMMA PanelStepFrame ==
    ASSUME PanelStep
    PROVE  /\ UNCHANGED <<msgs, sidebar, badge, fetch, listWire, zeroed, missed>>
           /\ panel' = panel \/ (panel # "closed" /\ panel' # "closed")
<1>1. CASE \E m \in SentMsgs : Marks(m)
  BY <1>1 DEF Marks, ReadFind, ReadWrite, panelVars, listVars
<1>2. CASE PanelJoin \/ JoinRead \/ JoinReply
  BY <1>2 DEF PanelJoin, JoinRead, JoinReply, chatVars, listVars
<1>3. CASE PanelNewMessage \/ PanelRoomJoined
  BY <1>3 DEF PanelNewMessage, PanelRoomJoined, listVars
<1>4. CASE PanelBreak
  BY <1>4 DEF PanelBreak, listVars
<1> QED
  BY <1>1, <1>2, <1>3, <1>4 DEF PanelStep

LEMMA LeaveFrame ==
    ASSUME Leave
    PROVE  /\ UNCHANGED <<msgs, lastRead, reads, found, backed, voided, shown, skipped, older,
                          badge, fetch, listWire, zeroed>>
           /\ panel' = "closed" /\ join' = NoJoin /\ loaded' = FALSE /\ panelWire' = <<>>
           /\ sidebar' \in {sidebar, FALSE}
           /\ missed' = missed \cup (IF panel = "closed" THEN {} ELSE Dropped)
<1>1. CASE PanelBack
  BY <1>1 DEF PanelBack, Disconnected, chatVars, screen, history
<1>2. CASE SidebarClose
  BY <1>2 DEF SidebarClose, Disconnected, chatVars, screen, history
<1> QED
  BY <1>1, <1>2 DEF Leave

\* A row is written, the panel being told or not.
LEMMA RowStepFrame ==
    ASSUME ChatTypes, NEW m \in SentMsgs, RowStep(m)
    PROVE  /\ UNCHANGED <<lastRead, reads, found, backed, voided, panel, join, loaded, shown,
                          older, sidebar, badge, fetch, zeroed, missed>>
           /\ msgs' \in Seq(MsgRows) /\ Len(msgs') = Len(msgs) /\ SentMsgs' = SentMsgs
           /\ \A i \in SentMsgs : i # m => msgs'[i] = msgs[i]
           /\ msgs'[m].mine = msgs[m].mine /\ msgs'[m].gone = msgs[m].gone
           /\ msgs[m].deleted => msgs'[m].deleted
           /\ SendAnnounce(m) \/ UNCHANGED <<panelWire, skipped>>
           /\ SendNotify(m) \/ UNCHANGED listWire
           /\ ~SendAnnounce(m) /\ msgs[m].at = "announce" => msgs'[m].at = "announce"
           /\ ~SendNotify(m) /\ msgs[m].at # "sent" => msgs'[m].at # "sent"
<1>1. msgs[m] \in MsgRows
  BY RowIs
<1>2. CASE SendAnnounce(m)
  <2>1. PICK row : row = [msgs[m] EXCEPT !.at = "notify"]
    OBVIOUS
  <2>2. /\ row \in MsgRows /\ row.mine = msgs[m].mine /\ row.deleted = msgs[m].deleted
        /\ row.gone = msgs[m].gone
        /\ row.at = "notify" /\ msgs[m].at = "announce"
    BY <1>1, <1>2, <2>1 DEF SendAnnounce, MsgRows
  <2>3. msgs' = [msgs EXCEPT ![m] = row]
    BY <1>2, <2>1 DEF SendAnnounce
  <2>4. UNCHANGED <<lastRead, reads, found, backed, voided, panel, join, loaded, shown, older,
                    sidebar, badge, fetch, listWire, zeroed, missed>>
    BY <1>2 DEF SendAnnounce, listVars, history
  <2> QED
    BY <1>2, <2>2, <2>3, <2>4, RowsKept
<1>3. CASE SendNotify(m)
  <2>1. PICK row : row = [msgs[m] EXCEPT !.at = "sent"]
    OBVIOUS
  <2>2. /\ row \in MsgRows /\ row.mine = msgs[m].mine /\ row.deleted = msgs[m].deleted
        /\ row.gone = msgs[m].gone
        /\ row.at = "sent" /\ msgs[m].at = "notify"
    BY <1>1, <1>3, <2>1 DEF SendNotify, MsgRows
  <2>3. msgs' = [msgs EXCEPT ![m] = row]
    BY <1>3, <2>1 DEF SendNotify
  <2>4. UNCHANGED <<lastRead, reads, found, backed, voided, panel, join, loaded, panelWire,
                    shown, skipped, older, sidebar, badge, fetch, zeroed, missed>>
    BY <1>3 DEF SendNotify, panelVars, screen, history
  <2> QED
    BY <1>3, <2>2, <2>3, <2>4, RowsKept
<1>4. CASE DeleteSent(m)
  <2>1. PICK row : row = [msgs[m] EXCEPT !.deleted = TRUE]
    OBVIOUS
  <2>2. /\ row \in MsgRows /\ row.mine = msgs[m].mine /\ row.deleted
        /\ row.gone = msgs[m].gone /\ row.at = msgs[m].at
    BY <1>1, <1>4, <2>1 DEF MsgRows
  <2>3. msgs' = [msgs EXCEPT ![m] = row]
    BY <1>4, <2>1 DEF DeleteSent
  <2>4. UNCHANGED <<lastRead, reads, found, backed, voided, panel, join, loaded, panelWire,
                    shown, skipped, older, sidebar, badge, fetch, listWire, zeroed, missed>>
    BY <1>4 DEF DeleteSent, panelVars, listVars, screen, history
  <2> QED
    BY <2>2, <2>3, <2>4, RowsKept
<1> QED
  BY <1>2, <1>3, <1>4 DEF RowStep

\* Rows go, and nothing else changes.
LEMMA AdminFrame ==
    ASSUME ChatTypes, AdminDeleteUser
    PROVE  /\ UNCHANGED <<lastRead, reads, found, backed, voided, panel, join, loaded,
                          panelWire, shown, skipped, older, sidebar, badge, fetch, listWire,
                          zeroed, missed>>
           /\ msgs' \in Seq(MsgRows) /\ Len(msgs') = Len(msgs) /\ SentMsgs' = SentMsgs
           /\ \A i \in SentMsgs :
                /\ msgs'[i].mine = msgs[i].mine /\ msgs'[i].deleted = msgs[i].deleted
                /\ msgs'[i].at = msgs[i].at
                /\ msgs[i].gone => msgs'[i].gone
<1>1. PICK theirs :
        msgs' = [m \in SentMsgs |-> [msgs[m] EXCEPT !.gone = @ \/ m \in theirs]]
  BY DEF AdminDeleteUser
<1>2. msgs \in Seq(MsgRows) /\ Len(msgs) \in Nat /\ SentMsgs = 1..Len(msgs)
  BY DEF ChatTypes, SentMsgs
<1>3. ASSUME NEW i \in SentMsgs
      PROVE  /\ msgs'[i] \in MsgRows
             /\ msgs'[i].mine = msgs[i].mine /\ msgs'[i].deleted = msgs[i].deleted
             /\ msgs'[i].at = msgs[i].at
             /\ msgs[i].gone => msgs'[i].gone
  <2>1. msgs[i] \in MsgRows
    BY <1>2
  <2>2. msgs'[i] = [msgs[i] EXCEPT !.gone = @ \/ i \in theirs]
    BY <1>1
  <2> QED
    BY <2>1, <2>2 DEF MsgRows
<1>4. msgs' \in [1..Len(msgs) -> MsgRows]
  BY <1>1, <1>2, <1>3
<1>5. msgs' \in Seq(MsgRows) /\ Len(msgs') = Len(msgs)
  BY <1>2, <1>4
<1>6. UNCHANGED <<lastRead, reads, found, backed, voided, panel, join, loaded, panelWire,
                  shown, skipped, older, sidebar, badge, fetch, listWire, zeroed, missed>>
  BY DEF AdminDeleteUser, panelVars, listVars, screen, history
<1> QED
  BY <1>3, <1>5, <1>6 DEF SentMsgs

LEMMA CreateFrame ==
    ASSUME ChatTypes, NEW mine \in BOOLEAN, SendCreate(mine)
    PROVE  /\ UNCHANGED <<lastRead, reads, found, backed, voided, panel, join, loaded,
                          panelWire, shown, skipped, older, sidebar, badge, fetch, listWire,
                          zeroed, missed>>
           /\ msgs' \in Seq(MsgRows) /\ Len(msgs') = Len(msgs) + 1 /\ Len(msgs') <= MaxSent
           /\ SentMsgs \subseteq SentMsgs' /\ SentMsgs' = SentMsgs \cup {Len(msgs) + 1}
           /\ \A i \in SentMsgs : msgs'[i] = msgs[i]
           /\ \A i \in SentMsgs' \ SentMsgs : msgs'[i].at = "announce"
<1>1. PICK row : row = [mine |-> mine, deleted |-> FALSE, gone |-> FALSE, at |-> "announce"]
  OBVIOUS
<1>2. row \in MsgRows /\ row.at = "announce"
  BY <1>1 DEF MsgRows
<1>3. msgs' = Append(msgs, row) /\ Len(msgs) < MaxSent
  BY <1>1 DEF SendCreate
<1>4. msgs \in Seq(MsgRows) /\ Len(msgs) \in Nat
  BY DEF ChatTypes
<1>5. /\ msgs' \in Seq(MsgRows) /\ Len(msgs') = Len(msgs) + 1
      /\ \A i \in 1..Len(msgs) : msgs'[i] = msgs[i]
      /\ msgs'[Len(msgs) + 1] = row
  BY <1>2, <1>3, <1>4
<1>6. Len(msgs') <= MaxSent
  BY <1>3, <1>4, <1>5, ReadAssumption
<1>7. SentMsgs' = SentMsgs \cup {Len(msgs) + 1}
  BY <1>4, <1>5 DEF SentMsgs
<1>8. UNCHANGED <<lastRead, reads, found, backed, voided, panel, join, loaded,
                  panelWire, shown, skipped, older, sidebar, badge, fetch, listWire,
                  zeroed, missed>>
  BY DEF SendCreate, panelVars, listVars, screen, history
<1> QED
  BY <1>2, <1>5, <1>6, <1>7, <1>8 DEF SentMsgs

-----------------------------------------------------------------------------
(* The types are kept.                                                     *)

LEMMA CreateTyped ==
    ASSUME ReadTypes, NEW mine \in BOOLEAN, SendCreate(mine) PROVE ReadTypes'
<1>1. Len(msgs) \in Nat /\ Len(msgs') = Len(msgs) + 1 /\ SentMsgs \subseteq SentMsgs'
  BY CreateFrame DEF ReadTypes, ChatTypes
<1>2. ChatTypes'
  BY <1>1, CreateFrame, ReadAssumption DEF ReadTypes, ChatTypes
<1>3. PanelTypes'
  <2>1. \A n \in Nat : n <= Len(msgs) => n <= Len(msgs')
    BY <1>1
  <2>2. /\ join.upto \in Nat /\ join.from \in Nat
        /\ \A k \in 1..Len(panelWire) : panelWire[k].id \in Nat /\ panelWire[k].from \in Nat
    <3>1. join.upto \in Nat /\ join.from \in Nat
      BY ReadAssumption DEF ReadTypes, PanelTypes, Joins
    <3>2. ASSUME NEW k \in 1..Len(panelWire)
          PROVE  panelWire[k].id \in Nat /\ panelWire[k].from \in Nat
      <4>1. panelWire[k] \in PanelEvents
        BY DEF ReadTypes, PanelTypes
      <4> QED
        BY <4>1, ReadAssumption DEF PanelEvents
    <3> QED
      BY <3>1, <3>2
  <2> QED
    BY <1>1, <2>1, <2>2, CreateFrame DEF ReadTypes, PanelTypes, NoJoin
<1>4. ListTypes'
  <2>1. ASSUME NEW k \in 1..MaxOpens PROVE fetch[k].base \in Nat
    <3>1. fetch[k] \in Fetches
      BY DEF ReadTypes, ListTypes
    <3> QED
      BY <3>1, ReadAssumption DEF Fetches
  <2>2. \A k \in 1..MaxOpens : fetch[k].base <= Len(msgs') /\ fetch[k].seen \subseteq SentMsgs'
    BY <1>1, <2>1 DEF ReadTypes, ListTypes
  <2> QED
    BY <1>1, <2>2, CreateFrame DEF ReadTypes, ListTypes
<1> QED
  BY <1>2, <1>3, <1>4 DEF ReadTypes

LEMMA AdminTyped ==
    ASSUME ReadTypes, AdminDeleteUser PROVE ReadTypes'
<1>1. SentMsgs' = SentMsgs /\ Len(msgs') = Len(msgs)
  BY AdminFrame DEF ReadTypes
<1>2. ChatTypes'
  BY <1>1, AdminFrame DEF ReadTypes, ChatTypes
<1>3. PanelTypes'
  BY <1>1, AdminFrame DEF ReadTypes, PanelTypes, NoJoin
<1>4. ListTypes'
  BY <1>1, AdminFrame DEF ReadTypes, ListTypes
<1> QED
  BY <1>2, <1>3, <1>4 DEF ReadTypes

\* What SendAnnounce puts on the wire of a panel that has joined.
LEMMA AnnounceWire ==
    ASSUME ReadTypes, NEW m \in SentMsgs, SendAnnounce(m), panel = "joined"
    PROVE  /\ panelWire' = Append(panelWire, NewMessage(m)) /\ NewMessage(m) \in PanelEvents
           /\ panelWire' \in Seq(PanelEvents) /\ Len(panelWire') = Len(panelWire) + 1
           /\ Len(panelWire) \in Nat
           /\ \A k \in 1..Len(panelWire) : panelWire'[k] = panelWire[k]
           /\ panelWire'[Len(panelWire) + 1] = NewMessage(m)
<1>1. NewMessage(m) \in PanelEvents
  BY RowIs, ReadAssumption DEF ReadTypes, NewMessage, PanelEvents
<1>2. panelWire' = Append(panelWire, NewMessage(m))
  BY DEF SendAnnounce, NewMessage
<1> QED
  BY <1>1, <1>2, Appended DEF ReadTypes, PanelTypes

LEMMA RowTyped ==
    ASSUME ReadTypes, NEW m \in SentMsgs, RowStep(m) PROVE ReadTypes'
<1>1. /\ UNCHANGED <<lastRead, reads, found, backed, voided, panel, join, loaded, shown,
                     older, sidebar, badge, fetch, zeroed, missed>>
      /\ msgs' \in Seq(MsgRows) /\ Len(msgs') = Len(msgs) /\ SentMsgs' = SentMsgs
  BY RowStepFrame DEF ReadTypes
<1>2. m \in Nat \ {0} /\ m <= Len(msgs) /\ m \in 1..MaxSent
  BY RowIs DEF ReadTypes
<1>3. ChatTypes'
  BY <1>1 DEF ReadTypes, ChatTypes
<1>4. PanelTypes'
  <2>1. skipped' \subseteq SentMsgs
    <3>1. 1..(m - 1) \subseteq SentMsgs
      BY <1>2, RowIs DEF ReadTypes, SentMsgs
    <3> QED
      BY <3>1, RowStepFrame DEF ReadTypes, PanelTypes, SendAnnounce
  <2>2. CASE UNCHANGED panelWire
    BY <1>1, <2>1, <2>2 DEF ReadTypes, PanelTypes, NoJoin
  <2>3. CASE SendAnnounce(m) /\ panel = "joined"
    <3>1. /\ panelWire' \in Seq(PanelEvents)
          /\ \A k \in 1..Len(panelWire') :
                \/ k \in 1..Len(panelWire) /\ panelWire'[k] = panelWire[k]
                \/ panelWire'[k] = NewMessage(m)
      BY <2>3, AnnounceWire
    <3>2. NewMessage(m).id = m
      BY DEF NewMessage
    <3>3. \A k \in 1..Len(panelWire') :
            /\ panelWire'[k].id <= Len(msgs)
            /\ panelWire'[k].kind = "new-message" => panelWire'[k].id # 0
      BY <1>2, <3>1, <3>2 DEF ReadTypes, PanelTypes
    <3> QED
      BY <1>1, <2>1, <2>3, <3>1, <3>3 DEF ReadTypes, PanelTypes, NoJoin
  <2> QED
    BY <2>2, <2>3, RowStepFrame DEF ReadTypes, SendAnnounce
<1>5. ListTypes'
  <2>1. listWire' \in Seq(1..MaxSent) /\ ToSet(listWire') \subseteq SentMsgs
    <3>1. CASE SendNotify(m)
      <4>1. listWire \in Seq(1..MaxSent) /\ listWire' = Append(listWire, m)
        BY <3>1 DEF ReadTypes, ListTypes, SendNotify
      <4>2. PICK S : S = 1..MaxSent
        OBVIOUS
      <4>3. listWire \in Seq(S) /\ m \in S
        BY <1>2, <4>1, <4>2
      <4>4. Append(listWire, m) \in Seq(S) /\ ToSet(Append(listWire, m)) = ToSet(listWire) \cup {m}
        BY <4>3, Appended
      <4> QED
        BY <4>1, <4>2, <4>4 DEF ReadTypes, ListTypes
    <3>2. CASE UNCHANGED listWire
      BY <3>2 DEF ReadTypes, ListTypes
    <3> QED
      BY <3>1, <3>2, RowStepFrame DEF ReadTypes
  <2> QED
    BY <1>1, <2>1 DEF ReadTypes, ListTypes
<1> QED
  BY <1>3, <1>4, <1>5 DEF ReadTypes

LEMMA LeaveTyped ==
    ASSUME ReadTypes, Leave PROVE ReadTypes'
<1>1. SentMsgs' = SentMsgs
  BY LeaveFrame DEF SentMsgs
<1>2. ChatTypes'
  BY <1>1, LeaveFrame DEF ReadTypes, ChatTypes
<1>3. PanelTypes'
  <2>1. panelWire' = <<>> /\ panelWire' \in Seq(PanelEvents) /\ Len(panelWire') = 0
    BY LeaveFrame
  <2>2. \A k \in 1..Len(panelWire') : FALSE
    BY <2>1
  <2>3. /\ join' = NoJoin /\ NoJoin' = NoJoin /\ join' \in Joins
        /\ (join.upto)' <= Len(msgs)' /\ (join.from)' <= Len(msgs)'
    BY LeaveFrame, NoJoinIs, ReadAssumption DEF ReadTypes, ChatTypes, NoJoin
  <2> QED
    BY <1>1, <2>1, <2>2, <2>3, LeaveFrame DEF ReadTypes, PanelTypes
<1>4. ListTypes'
  <2>1. missed' \subseteq SentMsgs
    BY LeaveFrame DEF ReadTypes, ListTypes, Dropped
  <2> QED
    BY <1>1, <2>1, LeaveFrame DEF ReadTypes, ListTypes
<1> QED
  BY <1>2, <1>3, <1>4 DEF ReadTypes

LEMMA ListTyped ==
    ASSUME ReadTypes, ListStep PROVE ReadTypes'
<1>1. SentMsgs' = SentMsgs /\ msgs' = msgs
  BY ListStepFrame DEF SentMsgs
<1>2. ChatTypes'
  BY <1>1, ListStepFrame DEF ReadTypes, ChatTypes
<1>3. PanelTypes'
  BY <1>1, ListStepFrame DEF ReadTypes, PanelTypes, NoJoin
<1>4. ListTypes'
  <2>1. /\ fetch \in [1..MaxOpens -> Fetches]
        /\ \A k \in 1..MaxOpens : fetch[k].base <= Len(msgs) /\ fetch[k].seen \subseteq SentMsgs
    BY DEF ReadTypes, ListTypes
  <2>2. Len(msgs) \in Nat /\ lastRead \in 0..Len(msgs) /\ lastRead \in 0..MaxSent
    BY ReadAssumption DEF ReadTypes, ChatTypes
  <2>3. ASSUME NEW k \in 1..MaxOpens, NEW answer \in Fetches, answer.base <= Len(msgs),
               answer.seen \subseteq SentMsgs, fetch' = [fetch EXCEPT ![k] = answer]
        PROVE  /\ fetch' \in [1..MaxOpens -> Fetches]
               /\ \A i \in 1..MaxOpens :
                    fetch'[i].base <= Len(msgs) /\ fetch'[i].seen \subseteq SentMsgs
    BY <2>1, <2>3
  <2>4. CASE SidebarOpen \/ SelectRoom
    <3>1. CASE SidebarOpen
      <4>1. CASE opens + 1 \in 1..MaxOpens
        <5>1. PICK k \in 1..MaxOpens : k = opens + 1
          BY <4>1
        <5>2. PICK answer : answer = [fetch[k] EXCEPT !.at = "find"]
          OBVIOUS
        <5>3. fetch[k] \in Fetches
          BY <2>1
        <5>4. /\ answer \in Fetches /\ answer.base = fetch[k].base /\ answer.seen = fetch[k].seen
          BY <5>2, <5>3 DEF Fetches
        <5>5. fetch' = [fetch EXCEPT ![k] = answer]
          BY <3>1, <5>1, <5>2 DEF SidebarOpen
        <5> QED
          BY <1>1, <2>1, <2>3, <3>1, <5>4, <5>5
             DEF SidebarOpen, ReadTypes, ListTypes, chatVars, panelVars
      <4>2. CASE opens + 1 \notin 1..MaxOpens
        <5>1. fetch' = fetch
          BY <2>1, <3>1, <4>2 DEF SidebarOpen
        <5> QED
          BY <1>1, <2>1, <3>1, <5>1 DEF SidebarOpen, ReadTypes, ListTypes, chatVars, panelVars
      <4> QED
        BY <4>1, <4>2
    <3>2. CASE SelectRoom
      BY <1>1, <3>2 DEF SelectRoom, ReadTypes, ListTypes
    <3> QED
      BY <2>4, <3>1, <3>2
  <2>5. CASE \E k \in 1..MaxOpens : FetchStep(k)
    <3>1. PICK k \in 1..MaxOpens : FetchStep(k)
      BY <2>5
    <3>2. fetch[k] \in Fetches /\ fetch[k].base <= Len(msgs) /\ fetch[k].seen \subseteq SentMsgs
      BY <2>1
    <3>3. /\ UNCHANGED <<panel, sidebar, listWire, zeroed>>
          /\ missed' \subseteq SentMsgs /\ badge' \in Nat \cup {Unknown}
      <4>1. fetch[k].count \in Nat
        BY <3>2 DEF Fetches
      <4> QED
        BY <3>1, <3>2, <4>1 DEF FetchStep, FetchFind, FetchCount, FetchReply, FetchFail, panelVars,
           ReadTypes, ListTypes
    <3>4. \E answer \in Fetches :
            /\ answer.base <= Len(msgs) /\ answer.seen \subseteq SentMsgs
            /\ fetch' = [fetch EXCEPT ![k] = answer]
      <4>1. CASE FetchFind(k)
        <5>1. PICK answer : answer = [fetch[k] EXCEPT !.at = "count", !.base = lastRead]
          OBVIOUS
        <5>2. answer \in Fetches /\ answer.base = lastRead /\ answer.seen = fetch[k].seen
          BY <2>2, <3>2, <5>1 DEF Fetches
        <5>3. fetch' = [fetch EXCEPT ![k] = answer]
          BY <2>1, <4>1, <5>1 DEF FetchFind
        <5>4. answer.base <= Len(msgs) /\ answer.seen \subseteq SentMsgs
          BY <2>2, <3>2, <5>2
        <5> QED
          BY <5>2, <5>3, <5>4
      <4>2. CASE FetchCount(k)
        <5>1. PICK C : C = {m \in StoredMsgs : m > fetch[k].base /\ ~msgs[m].deleted}
          OBVIOUS
        <5>2. Cardinality(C) \in Nat
          <6>1. IsFiniteSet(SentMsgs)
            BY <2>2, FS_Interval DEF SentMsgs
          <6>2. C \subseteq SentMsgs
            BY <5>1 DEF StoredMsgs
          <6> QED
            BY <6>1, <6>2, FS_Subset, FS_CardinalityType
        <5>3. PICK answer : answer = [fetch[k] EXCEPT !.at = "reply", !.count = Cardinality(C)]
          OBVIOUS
        <5>4. answer \in Fetches /\ answer.base = fetch[k].base /\ answer.seen = fetch[k].seen
          BY <3>2, <5>2, <5>3 DEF Fetches
        <5>5. fetch' = [fetch EXCEPT ![k] = answer]
          BY <2>1, <4>2, <5>1, <5>3 DEF FetchCount
        <5> QED
          BY <3>2, <5>4, <5>5
      <4>3. CASE FetchReply(k) \/ FetchFail(k)
        <5>1. fetch' = [fetch EXCEPT ![k] = NoFetch]
          BY <4>3 DEF FetchReply, FetchFail
        <5>2. NoFetch.base <= Len(msgs) /\ NoFetch.seen \subseteq SentMsgs
          BY <2>2, NoFetchIs
        <5> QED
          BY <5>1, <5>2, NoFetchIs
      <4> QED
        BY <3>1, <4>1, <4>2, <4>3 DEF FetchStep
    <3>5. /\ fetch' \in [1..MaxOpens -> Fetches]
          /\ \A i \in 1..MaxOpens :
               fetch'[i].base <= Len(msgs) /\ fetch'[i].seen \subseteq SentMsgs
      BY <2>3, <3>4
    <3> QED
      BY <1>1, <3>3, <3>5 DEF ReadTypes, ListTypes
  <2>6. CASE ListUpdated
    <3>1. PICK m : m = Head(listWire)
      OBVIOUS
    <3>2. /\ m \in SentMsgs /\ m \in 1..MaxSent /\ listWire' \in Seq(1..MaxSent)
          /\ ToSet(listWire') \subseteq SentMsgs
      BY <2>6, <3>1, Headed DEF ListUpdated, ReadTypes, ListTypes
    <3>3. badge' \in Nat \cup {Unknown}
      BY <2>6, <3>1 DEF ListUpdated, ReadTypes, ListTypes
    <3>4. fetch' = [k \in 1..MaxOpens |-> IF fetch[k].at # "reply" THEN fetch[k]
                                          ELSE [fetch[k] EXCEPT !.seen = @ \cup {m}]]
      BY <2>6, <3>1 DEF ListUpdated
    <3>5. ASSUME NEW k \in 1..MaxOpens
          PROVE  /\ fetch'[k] \in Fetches /\ fetch'[k].base = fetch[k].base
                 /\ fetch'[k].seen \subseteq SentMsgs
      BY <2>1, <3>2, <3>4 DEF Fetches
    <3>6. fetch' \in [1..MaxOpens -> Fetches]
      BY <3>4, <3>5
    <3>7. UNCHANGED <<panel, sidebar, zeroed, missed>>
      BY <2>6 DEF ListUpdated, panelVars
    <3> QED
      BY <1>1, <2>1, <3>2, <3>3, <3>5, <3>6, <3>7 DEF ReadTypes, ListTypes
  <2>7. CASE ListBreak
    <3>1. listWire' \in Seq(1..MaxSent) /\ ToSet(listWire') = {}
      BY <2>7, NothingIn DEF ListBreak
    <3> QED
      BY <1>1, <2>1, <2>7, <3>1 DEF ListBreak, ReadTypes, ListTypes, chatVars, panelVars
  <2> QED
    BY <2>4, <2>5, <2>6, <2>7 DEF ListStep
<1> QED
  BY <1>2, <1>3, <1>4 DEF ReadTypes

\* The next event for the panel, and what is behind it.
PanelHead(e) ==
    /\ e \in PanelEvents /\ e.id <= Len(msgs) /\ e.from \in Nat
    /\ e.kind = "new-message" => e.id # 0
    /\ e = panelWire[1] /\ 1 \in 1..Len(panelWire)
    /\ panelWire' \in Seq(PanelEvents)
    /\ Len(panelWire) \in Nat /\ Len(panelWire') = Len(panelWire) - 1
    /\ \A k \in 1..Len(panelWire') : panelWire'[k] = panelWire[k + 1] /\ k + 1 \in 1..Len(panelWire)

LEMMA HeadEvent ==
    ASSUME ReadTypes, panelWire # <<>>, panelWire' = Tail(panelWire)
    PROVE  PanelHead(Head(panelWire))
<1>1. panelWire \in Seq(PanelEvents)
  BY DEF ReadTypes, PanelTypes
<1>2. /\ Head(panelWire) = panelWire[1] /\ 1 \in 1..Len(panelWire)
      /\ Head(panelWire) \in PanelEvents
      /\ panelWire' \in Seq(PanelEvents)
      /\ Len(panelWire) \in Nat /\ Len(panelWire') = Len(panelWire) - 1
      /\ \A k \in 1..Len(panelWire') :
            panelWire'[k] = panelWire[k + 1] /\ k + 1 \in 1..Len(panelWire)
  BY <1>1, Headed
<1>3. Head(panelWire).from \in Nat
  BY <1>2, ReadAssumption DEF PanelEvents
<1> QED
  BY <1>2, <1>3 DEF ReadTypes, PanelTypes, PanelHead

LEMMA PanelTyped ==
    ASSUME ReadTypes, OneList, PanelStep PROVE ReadTypes'
<1>1. SentMsgs' = SentMsgs /\ msgs' = msgs
  BY PanelStepFrame DEF SentMsgs
<1>2. Len(msgs) \in Nat /\ Len(msgs) <= MaxSent /\ MaxSent \in Nat
  BY ReadAssumption DEF ReadTypes, ChatTypes
<1>3. ListTypes'
  BY <1>1, PanelStepFrame DEF ReadTypes, ListTypes
<1>4. CASE \E m \in SentMsgs : Marks(m)
  <2>1. PICK m \in SentMsgs : Marks(m)
    BY <1>4
  <2>2. m \in 1..MaxSent /\ m \in 0..Len(msgs)
    BY <1>2, RowIs DEF ReadTypes
  <2>3. reads \in [1..MaxSent -> Nat] /\ found \in [1..MaxSent -> Nat] /\ lastRead \in 0..Len(msgs)
    BY DEF ReadTypes, ChatTypes
  <2>4. CASE ReadFind(m)
    <3>1. /\ reads[m] > 0 /\ reads' = [reads EXCEPT ![m] = @ - 1]
          /\ UNCHANGED <<lastRead, backed, panelVars>>
          /\ found' = found \/ found' = [found EXCEPT ![m] = @ + 1]
          /\ voided' = voided \/ voided' = voided \cup ((lastRead + 1)..m)
      BY <2>4 DEF ReadFind
    <3>2. /\ reads' \in [1..MaxSent -> Nat] /\ found' \in [1..MaxSent -> Nat]
          /\ \A i \in 1..MaxSent : i # m => reads'[i] = reads[i] /\ found'[i] = found[i]
      <4>1. reads[m] - 1 \in Nat /\ found[m] + 1 \in Nat
        BY <2>2, <2>3, <3>1
      <4> QED
        BY <2>2, <2>3, <3>1, <4>1
    <3>3. voided' \subseteq SentMsgs
      <4>1. (lastRead + 1)..m \subseteq SentMsgs
        BY <1>2, <2>2, <2>3 DEF SentMsgs
      <4> QED
        BY <3>1, <4>1 DEF ReadTypes, ChatTypes
    <3>4. ChatTypes'
      BY <1>1, <1>2, <3>1, <3>2, <3>3 DEF ReadTypes, ChatTypes
    <3>5. PanelTypes'
      BY <1>1, <3>1 DEF ReadTypes, PanelTypes, panelVars, screen, NoJoin
    <3> QED
      BY <1>3, <3>4, <3>5 DEF ReadTypes
  <2>5. CASE ReadWrite(m)
    <3>1. /\ found[m] > 0 /\ found' = [found EXCEPT ![m] = @ - 1] /\ lastRead' = m
          /\ backed' = (backed \ (1..m)) \cup ((m + 1)..lastRead)
          /\ voided' = voided \ (1..m)
          /\ UNCHANGED <<reads, panelVars>>
      BY <2>5 DEF ReadWrite, Written
    <3>2. found' \in [1..MaxSent -> Nat] /\ \A i \in 1..MaxSent : i # m => found'[i] = found[i]
      <4>1. found[m] - 1 \in Nat
        BY <2>2, <2>3, <3>1
      <4> QED
        BY <2>2, <2>3, <3>1, <4>1
    <3>3. backed' \subseteq SentMsgs /\ voided' \subseteq SentMsgs
      <4>1. (m + 1)..lastRead \subseteq SentMsgs
        BY <1>2, <2>2, <2>3 DEF SentMsgs
      <4> QED
        BY <3>1, <4>1 DEF ReadTypes, ChatTypes
    <3>4. ChatTypes'
      BY <1>1, <1>2, <2>2, <3>1, <3>2, <3>3 DEF ReadTypes, ChatTypes
    <3>5. PanelTypes'
      BY <1>1, <3>1 DEF ReadTypes, PanelTypes, panelVars, screen, NoJoin
    <3> QED
      BY <1>3, <3>4, <3>5 DEF ReadTypes
  <2> QED
    BY <2>1, <2>4, <2>5 DEF Marks
<1>5. CASE PanelJoin \/ JoinRead \/ JoinReply
  <2>1. ChatTypes'
    BY <1>1, <1>5 DEF ReadTypes, ChatTypes, PanelJoin, JoinRead, JoinReply, chatVars, history
  <2>2. UNCHANGED <<shown, skipped, older, loaded>>
    BY <1>5 DEF PanelJoin, JoinRead, JoinReply, screen
  <2>3. join \in Joins /\ join.upto <= Len(msgs) /\ join.from <= Len(msgs)
    BY DEF ReadTypes, PanelTypes
  <2>4. CASE PanelJoin
    <3>1. /\ join' = [NoJoin EXCEPT !.at = "read"] /\ panel = "open" /\ panel' = "joined"
          /\ UNCHANGED panelWire
      BY <2>4 DEF PanelJoin
    <3>2. join' \in Joins /\ (join.upto)' = 0 /\ (join.from)' = 0 /\ (join.at)' = "read"
      BY <1>2, <3>1 DEF NoJoin, Joins
    <3>3. ~loaded
      BY <3>1 DEF ReadTypes, PanelTypes
    <3>4. PanelTypes'
      BY <1>1, <1>2, <2>2, <3>1, <3>2, <3>3 DEF ReadTypes, PanelTypes
    <3> QED
      BY <1>3, <2>1, <3>4 DEF ReadTypes
  <2>5. CASE JoinRead
    <3>1. /\ join.at = "read" /\ UNCHANGED <<panel, panelWire>>
          /\ \E from, upto \in StoredMsgs \cup {0} :
               join' = [at |-> "reply", upto |-> upto, from |-> from]
      BY <2>5 DEF JoinRead
    <3>2. /\ join' \in Joins /\ (join.at)' = "reply"
          /\ (join.upto)' <= Len(msgs) /\ (join.from)' <= Len(msgs)
      <4>1. StoredMsgs \cup {0} \subseteq 0..MaxSent /\ StoredMsgs \cup {0} \subseteq 0..Len(msgs)
        BY <1>2 DEF StoredMsgs, SentMsgs
      <4> QED
        BY <3>1, <4>1 DEF Joins
    <3>3. panel = "joined" /\ ~loaded
      BY <3>1, NoJoinIs DEF ReadTypes, PanelTypes
    <3>4. PanelTypes'
      BY <1>1, <1>2, <2>2, <3>1, <3>2, <3>3 DEF ReadTypes, PanelTypes
    <3> QED
      BY <1>3, <2>1, <3>4 DEF ReadTypes
  <2>6. CASE JoinReply
    <3>1. PICK e : e = [kind |-> "room-joined", id |-> join.upto, from |-> join.from]
      OBVIOUS
    <3>2. e \in PanelEvents /\ e.id <= Len(msgs) /\ e.kind = "room-joined"
      BY <2>3, <3>1 DEF PanelEvents, Joins
    <3>3. /\ join.at = "reply" /\ join' = NoJoin /\ UNCHANGED panel
          /\ panelWire' = Append(panelWire, e)
      BY <2>6, <3>1 DEF JoinReply
    <3>4. /\ panelWire' \in Seq(PanelEvents)
          /\ \A k \in 1..Len(panelWire') :
                \/ k \in 1..Len(panelWire) /\ panelWire'[k] = panelWire[k]
                \/ panelWire'[k] = e
      BY <3>2, <3>3, Appended DEF ReadTypes, PanelTypes
    <3>5. panel = "joined" /\ ~loaded
      BY <3>3, NoJoinIs DEF ReadTypes, PanelTypes
    <3>6. \A k \in 1..Len(panelWire') :
            /\ panelWire'[k].id <= Len(msgs)
            /\ panelWire'[k].kind = "new-message" => panelWire'[k].id # 0
      BY <3>2, <3>4 DEF ReadTypes, PanelTypes
    <3>7. PanelTypes'
      <4>1. /\ join' \in Joins /\ NoJoin' = NoJoin
            /\ (join.upto)' <= Len(msgs) /\ (join.from)' <= Len(msgs)
        BY <1>2, <3>3, NoJoinIs DEF NoJoin
      <4> QED
        BY <1>1, <2>2, <3>3, <3>4, <3>5, <3>6, <4>1 DEF ReadTypes, PanelTypes
    <3> QED
      BY <1>3, <2>1, <3>7 DEF ReadTypes
  <2> QED
    BY <1>5, <2>4, <2>5, <2>6
<1>6. CASE PanelNewMessage \/ PanelRoomJoined
  <2>1. PICK e : e = Head(panelWire)
    OBVIOUS
  <2>2. /\ panelWire # <<>> /\ panelWire' = Tail(panelWire)
        /\ UNCHANGED <<lastRead, found, backed, voided, panel, join>>
    BY <1>6, <2>1 DEF PanelNewMessage, PanelRoomJoined, history
  <2>3. PanelHead(e)
    BY <2>1, <2>2, HeadEvent
  <2>4. e.id \in 0..Len(msgs) /\ e.id \in 0..MaxSent /\ panel = "joined"
    BY <1>2, <2>2, <2>3 DEF PanelEvents, ReadTypes, PanelTypes, PanelHead
  <2>5. reads' = reads \/ (e.id # 0 /\ reads' = [reads EXCEPT ![e.id] = @ + 1])
    BY <1>6, <2>1, <2>3 DEF PanelNewMessage, PanelRoomJoined, PanelHead
  <2>6. ChatTypes'
    <3>1. reads' \in [1..MaxSent -> Nat] /\ \A i \in 1..MaxSent : i # e.id => reads'[i] = reads[i]
      <4>1. reads \in [1..MaxSent -> Nat]
        BY DEF ReadTypes, ChatTypes
      <4>2. CASE e.id # 0 /\ reads' = [reads EXCEPT ![e.id] = @ + 1]
        <5>1. PICK i : i = e.id
          OBVIOUS
        <5>2. i \in 1..MaxSent /\ reads' = [reads EXCEPT ![i] = @ + 1]
          BY <2>4, <4>2, <5>1
        <5>3. reads[i] + 1 \in Nat
          BY <4>1, <5>2
        <5> QED
          BY <4>1, <5>1, <5>2, <5>3
      <4> QED
        BY <2>5, <4>1, <4>2
    <3>2. e.id # 0 => e.id \in SentMsgs
      BY <1>2, <2>4 DEF SentMsgs
    <3>3. \A m \in (1..MaxSent) \ SentMsgs : reads'[m] = 0
      BY <2>5, <3>1, <3>2 DEF ReadTypes, ChatTypes
    <3> QED
      BY <1>1, <2>2, <3>1, <3>3 DEF ReadTypes, ChatTypes
  <2>7. shown' \subseteq SentMsgs /\ skipped' \subseteq SentMsgs /\ older' \in Nat
    <3>1. CASE PanelNewMessage
      <4>1. /\ e.id # 0 /\ shown' = shown \cup {e.id} /\ older' = older
            /\ skipped' \subseteq skipped \cup 1..(e.id - 1)
        BY <2>1, <2>3, <3>1 DEF PanelNewMessage, PanelHead
      <4>2. e.id \in SentMsgs /\ 1..(e.id - 1) \subseteq SentMsgs
        BY <1>2, <2>4, <4>1 DEF SentMsgs
      <4> QED
        BY <4>1, <4>2 DEF ReadTypes, PanelTypes
    <3>2. CASE PanelRoomJoined
      <4>1. /\ shown' = shown \cup ((e.from + 1)..e.id) /\ skipped' = skipped
            /\ older' = IF e.from > older THEN e.from ELSE older
        BY <2>1, <3>2 DEF PanelRoomJoined
      <4>2. e.from \in Nat
        BY <2>3 DEF PanelHead
      <4>3. (e.from + 1)..e.id \subseteq SentMsgs /\ older' \in Nat
        BY <1>2, <2>4, <4>1, <4>2 DEF SentMsgs, ReadTypes, PanelTypes
      <4> QED
        BY <4>1, <4>3 DEF ReadTypes, PanelTypes
    <3> QED
      BY <1>6, <3>1, <3>2
  <2>8. /\ loaded' \in BOOLEAN
        /\ loaded' = loaded \/ (loaded' = TRUE /\ join = NoJoin)
    <3>1. CASE PanelNewMessage
      BY <3>1 DEF PanelNewMessage, ReadTypes, PanelTypes
    <3>2. CASE PanelRoomJoined
      <4>1. e.kind = "room-joined" /\ e = panelWire[1] /\ 1 \in 1..Len(panelWire) /\ loaded' = TRUE
        BY <2>1, <2>3, <3>2 DEF PanelRoomJoined, PanelHead
      <4> QED
        BY <4>1 DEF OneList
    <3> QED
      BY <1>6, <3>1, <3>2
  <2>9. PanelTypes'
    <3>1. \A k \in 1..Len(panelWire') :
            /\ panelWire'[k].id <= Len(msgs)
            /\ panelWire'[k].kind = "new-message" => panelWire'[k].id # 0
      BY <2>3 DEF ReadTypes, PanelTypes, PanelHead
    <3> QED
      BY <1>1, <2>2, <2>3, <2>4, <2>7, <2>8, <3>1 DEF ReadTypes, PanelTypes, PanelHead, NoJoin
  <2> QED
    BY <1>3, <2>6, <2>9 DEF ReadTypes
<1>7. CASE PanelBreak
  <2>1. ChatTypes'
    <3>1. PICK lost : reads' = [m \in 1..MaxSent |-> IF m \in lost THEN 0 ELSE reads[m]]
      BY <1>7 DEF PanelBreak
    <3>2. /\ reads' \in [1..MaxSent -> Nat]
          /\ \A m \in 1..MaxSent : reads'[m] = 0 \/ reads'[m] = reads[m]
      BY <3>1 DEF ReadTypes, ChatTypes
    <3> QED
      BY <1>1, <1>7, <3>2 DEF PanelBreak, ReadTypes, ChatTypes, history
  <2>2. PanelTypes'
    <3>1. panelWire' = <<>> /\ panelWire' \in Seq(PanelEvents) /\ Len(panelWire') = 0
      BY <1>7 DEF PanelBreak, Disconnected
    <3>2. \A k \in 1..Len(panelWire') : FALSE
      BY <3>1
    <3>3. /\ join' = NoJoin /\ NoJoin' = NoJoin /\ join' \in Joins
          /\ (join.upto)' <= Len(msgs)' /\ (join.from)' <= Len(msgs)'
      BY <1>1, <1>2, <1>7, NoJoinIs DEF PanelBreak, Disconnected, NoJoin
    <3>4. panel' = "open" /\ loaded' = FALSE /\ UNCHANGED <<shown, skipped, older>>
      BY <1>7 DEF PanelBreak, Disconnected, screen
    <3> QED
      BY <1>1, <3>1, <3>2, <3>3, <3>4 DEF ReadTypes, PanelTypes
  <2> QED
    BY <1>3, <2>1, <2>2 DEF ReadTypes
<1> QED
  BY <1>4, <1>5, <1>6, <1>7 DEF PanelStep

-----------------------------------------------------------------------------
(* The panel.                                                              *)

\* Rows do not come back.
LEMMA ErasedStays ==
    ASSUME ReadTypes, ReadNext, NEW i, Erased(i)
    PROVE  Erased(i)'
<1>1. CASE UNCHANGED msgs
  BY <1>1 DEF Erased, SentMsgs
<1>2. CASE AdminDeleteUser
  BY <1>2, AdminFrame DEF Erased, ReadTypes
<1>3. CASE \E m \in SentMsgs : RowStep(m)
  <2>1. PICK m \in SentMsgs : RowStep(m)
    BY <1>3
  <2>2. CASE i = m
    BY <2>1, <2>2, RowStepFrame DEF Erased, ReadTypes
  <2>3. CASE i # m
    BY <2>1, <2>3, RowStepFrame DEF Erased, ReadTypes
  <2> QED
    BY <2>2, <2>3
<1>4. CASE \E mine \in BOOLEAN : SendCreate(mine)
  BY <1>4, CreateFrame DEF Erased, ReadTypes
<1> QED
  BY <1>1, <1>2, <1>3, <1>4, ReadNextIs, PanelStepFrame, LeaveFrame, ListStepFrame

\* What was shown stays shown.
LEMMA AccountedStays ==
    ASSUME ReadTypes, ReadNext, NEW i \in Nat, Accounted(i)
    PROVE  Accounted(i)'
<1>1. CASE UNCHANGED <<shown, skipped, older>>
  BY <1>1, ErasedStays DEF Accounted
<1>2. CASE \E m \in SentMsgs : RowStep(m)
  <2>1. PICK m \in SentMsgs : RowStep(m)
    BY <1>2
  <2>2. UNCHANGED <<shown, older>> /\ (SendAnnounce(m) \/ UNCHANGED skipped)
    BY <2>1, RowStepFrame DEF ReadTypes
  <2> QED
    BY <2>2, ErasedStays DEF Accounted, SendAnnounce
<1>3. CASE PanelNewMessage
  BY <1>3, ErasedStays DEF Accounted, PanelNewMessage
<1>4. CASE PanelRoomJoined
  <2>1. PICK from : from = Head(panelWire).from
    OBVIOUS
  <2>2. from \in Nat
    BY <1>4, <2>1, HeadEvent DEF PanelRoomJoined, PanelHead
  <2>3. /\ older' = IF from > older THEN from ELSE older
        /\ older \in Nat /\ shown \subseteq shown' /\ skipped' = skipped
    BY <1>4, <2>1 DEF PanelRoomJoined, ReadTypes, PanelTypes
  <2> QED
    BY <2>2, <2>3, ErasedStays DEF Accounted
<1>5. CASE (\E mine \in BOOLEAN : SendCreate(mine)) \/ AdminDeleteUser
  BY <1>1, <1>5, CreateFrame, AdminFrame DEF ReadTypes
<1>6. CASE Leave \/ ListStep
  BY <1>1, <1>6, LeaveFrame, ListStepFrame
<1>7. CASE (\E m \in SentMsgs : Marks(m)) \/ PanelJoin \/ JoinRead \/ JoinReply \/ PanelBreak
  BY <1>1, <1>7 DEF Marks, ReadFind, ReadWrite, PanelJoin, JoinRead, JoinReply, PanelBreak,
                  panelVars, screen
<1> QED
  BY <1>2, <1>3, <1>4, <1>5, <1>6, <1>7, ReadNextIs DEF PanelStep

\* What is read stays read, or lastReadAt moves back over it.
LEMMA MarkedStays ==
    ASSUME ReadTypes, ReadNext, NEW i \in Nat, Marked(i)
    PROVE  Marked(i)'
<1>1. CASE UNCHANGED <<lastRead, backed>> /\ voided \subseteq voided'
  BY <1>1 DEF Marked
<1>2. CASE \E m \in SentMsgs : ReadWrite(m)
  <2>1. PICK m \in SentMsgs : ReadWrite(m)
    BY <1>2
  <2>2. m \in Nat /\ lastRead \in Nat
    BY RowIs DEF ReadTypes, ChatTypes
  <2>3. /\ lastRead' = m /\ backed' = (backed \ (1..m)) \cup ((m + 1)..lastRead)
        /\ voided' = voided \ (1..m)
    BY <2>1 DEF ReadWrite, Written
  <2>4. CASE i <= m
    BY <2>3, <2>4 DEF Marked
  <2>5. CASE ~(i <= m)
    BY <2>2, <2>3, <2>5 DEF Marked
  <2> QED
    BY <2>4, <2>5
<1>3. CASE \/ \E mine \in BOOLEAN : SendCreate(mine)
           \/ \E m \in SentMsgs : RowStep(m)
           \/ AdminDeleteUser
  BY <1>1, <1>3, CreateFrame, RowStepFrame, AdminFrame DEF ReadTypes
<1>4. CASE Leave \/ ListStep
  BY <1>1, <1>4, LeaveFrame, ListStepFrame
<1>5. CASE PanelJoin \/ JoinRead \/ JoinReply \/ PanelNewMessage \/ PanelRoomJoined \/ PanelBreak
  BY <1>1, <1>5
     DEF PanelJoin, JoinRead, JoinReply, PanelNewMessage, PanelRoomJoined, PanelBreak, chatVars,
         history
<1>6. CASE \E m \in SentMsgs : ReadFind(m)
  BY <1>1, <1>6 DEF ReadFind
<1> QED
  BY <1>2, <1>3, <1>4, <1>5, <1>6, ReadNextIs DEF PanelStep, Marks

\* A read-message that ends has what it was for read, or voided.
LEMMA MarkingDone ==
    ASSUME ReadTypes, NEW m \in SentMsgs, Marks(m), NEW i \in Nat, Marking(i)
    PROVE  Marked(i)' \/ Marking(i)'
<1>1. PICK n \in 1..MaxSent : i <= n /\ BeingRead(n)
  BY DEF Marking
<1>2. /\ m \in 1..MaxSent /\ m \in Nat /\ lastRead \in Nat
      /\ reads \in [1..MaxSent -> Nat] /\ found \in [1..MaxSent -> Nat]
  BY RowIs, ReadAssumption DEF ReadTypes, ChatTypes
<1>3. CASE ReadWrite(m)
  <2>1. lastRead' = m /\ found' = [found EXCEPT ![m] = @ - 1] /\ reads' = reads
    BY <1>3 DEF ReadWrite, Written
  <2>2. CASE n = m
    BY <1>1, <2>1, <2>2 DEF Marked
  <2>3. CASE n # m
    BY <1>1, <1>2, <2>1, <2>3 DEF Marking, BeingRead
  <2> QED
    BY <2>2, <2>3
<1>4. CASE ReadFind(m)
  <2>1. reads' = [reads EXCEPT ![m] = @ - 1] /\ lastRead' = lastRead
    BY <1>4 DEF ReadFind
  <2>2. CASE msgs[m].gone
    <3>1. voided' = voided \cup ((lastRead + 1)..m) /\ found' = found
      BY <1>4, <2>2 DEF ReadFind
    <3>2. CASE n = m
      BY <1>1, <1>2, <2>1, <3>1, <3>2 DEF Marked
    <3>3. CASE n # m
      BY <1>1, <1>2, <2>1, <3>1, <3>3 DEF Marking, BeingRead
    <3> QED
      BY <3>2, <3>3
  <2>3. CASE ~msgs[m].gone
    <3>1. found' = [found EXCEPT ![m] = @ + 1]
      BY <1>4, <2>3 DEF ReadFind
    <3>2. CASE n = m
      <4>1. found'[m] = found[m] + 1 /\ found[m] \in Nat
        BY <1>2, <3>1
      <4> QED
        BY <1>1, <1>2, <3>2, <4>1 DEF Marking, BeingRead
    <3>3. CASE n # m
      BY <1>1, <1>2, <2>1, <3>1, <3>3 DEF Marking, BeingRead
    <3> QED
      BY <3>2, <3>3
  <2> QED
    BY <2>2, <2>3
<1> QED
  BY <1>3, <1>4 DEF Marks

\* A step that takes nothing from the panel and has nothing announced.
LEMMA PanelAside ==
    ASSUME ReadTypes, PanelInv, ReadNext,
           UNCHANGED <<join, loaded, panelWire, shown, skipped, older>>,
           panel' = "joined" => panel = "joined",
           \A i \in SentMsgs' :
              msgs'[i].at # "announce" => i \in SentMsgs /\ msgs[i].at # "announce",
           \A i \in Nat : Marking(i) => Marked(i)' \/ Marking(i)',
           MarkedAfterShown'
    PROVE  PanelInv'
<1>1. OneList'
  BY DEF PanelInv, OneList, NoJoin
<1>2. InStep'
  <2> SUFFICES ASSUME NEW k \in 1..Len(panelWire), panelWire[k].kind = "new-message",
                      NEW i \in 1..(panelWire[k].id - 1)
               PROVE  Before(i, k)'
    BY DEF InStep
  <2>1. Before(i, k) /\ i \in Nat
    BY DEF PanelInv, InStep
  <2>2. Accounted(i) => Accounted(i)'
    BY <2>1, AccountedStays
  <2> QED
    BY <2>1, <2>2 DEF Before, Tells
<1>3. EachReaches'
  <2> SUFFICES ASSUME panel' = "joined", NEW i \in SentMsgs', msgs'[i].at # "announce"
               PROVE  Reaches(i)'
    BY DEF EachReaches
  <2>1. i \in SentMsgs /\ panel = "joined" /\ msgs[i].at # "announce"
    OBVIOUS
  <2>2. Reaches(i) /\ i \in Nat
    BY <2>1, RowIs DEF PanelInv, EachReaches, ReadTypes
  <2>3. Marked(i) => Marked(i)'
    BY <2>2, MarkedStays
  <2>4. (Accounted(i) => Accounted(i)') /\ (Erased(i) => Erased(i)')
    BY <2>2, AccountedStays, ErasedStays
  <2>5. OnWire(i) \/ ToBeListed(i) => OnWire(i)' \/ ToBeListed(i)'
    BY DEF OnWire, ToBeListed, Tells
  <2> QED
    BY <2>2, <2>3, <2>4, <2>5 DEF Reaches
<1> QED
  BY <1>1, <1>2, <1>3 DEF PanelInv

\* What is marked stays shown, when nothing more is to be marked.
LEMMA StillShown ==
    ASSUME ReadTypes, PanelInv, ReadNext, UNCHANGED lastRead,
           \A m \in 1..MaxSent : BeingRead(m)' => BeingRead(m)
    PROVE  MarkedAfterShown'
<1>1. ASSUME NEW m \in 1..MaxSent, BeingRead(m)', NEW i \in 1..m PROVE Accounted(i)'
  <2>1. Accounted(i) /\ i \in Nat
    BY <1>1 DEF PanelInv, MarkedAfterShown
  <2> QED
    BY <2>1, AccountedStays
<1>2. ASSUME NEW i \in 1..lastRead PROVE Accounted(i)'
  <2>1. Accounted(i) /\ i \in Nat
    BY <1>2 DEF PanelInv, MarkedAfterShown
  <2> QED
    BY <2>1, AccountedStays
<1> QED
  BY <1>1, <1>2 DEF MarkedAfterShown

LEMMA AsideKeeps ==
    ASSUME ReadTypes, PanelInv, ReadNext,
           \/ \E mine \in BOOLEAN : SendCreate(mine)
           \/ \E m \in SentMsgs : RowStep(m) /\ ~SendAnnounce(m)
           \/ AdminDeleteUser
           \/ ListStep
    PROVE  PanelInv'
<1>1. /\ UNCHANGED <<join, loaded, panelWire, shown, skipped, older, lastRead, reads, found>>
      /\ panel' = "joined" => panel = "joined"
      /\ \A i \in SentMsgs' : msgs'[i].at # "announce" => i \in SentMsgs /\ msgs[i].at # "announce"
  <2>1. CASE \E mine \in BOOLEAN : SendCreate(mine)
    BY <2>1, CreateFrame DEF ReadTypes
  <2>2. CASE \E m \in SentMsgs : RowStep(m) /\ ~SendAnnounce(m)
    <3>1. PICK m \in SentMsgs : RowStep(m) /\ ~SendAnnounce(m)
      BY <2>2
    <3> QED
      BY <3>1, RowStepFrame DEF ReadTypes
  <2>3. CASE AdminDeleteUser
    BY <2>3, AdminFrame DEF ReadTypes
  <2>4. CASE ListStep
    BY <2>4, ListStepFrame DEF SentMsgs
  <2> QED
    BY <2>1, <2>2, <2>3, <2>4
<1>2. MarkedAfterShown'
  BY <1>1, StillShown DEF BeingRead
<1>3. \A i \in Nat : Marking(i) => Marking(i)'
  BY <1>1 DEF Marking, BeingRead
<1> QED
  BY <1>1, <1>2, <1>3, PanelAside

LEMMA MarksKeep ==
    ASSUME ReadTypes, PanelInv, ReadNext, NEW m \in SentMsgs, Marks(m)
    PROVE  PanelInv'
<1>1. UNCHANGED <<join, loaded, panelWire, shown, skipped, older, panel, msgs>>
  BY DEF Marks, ReadFind, ReadWrite, panelVars, screen
<1>2. /\ m \in 1..MaxSent /\ m \in Nat
      /\ reads \in [1..MaxSent -> Nat] /\ found \in [1..MaxSent -> Nat]
  BY RowIs DEF ReadTypes, ChatTypes
<1>3. BeingRead(m) /\ lastRead' \in {lastRead, m}
  BY DEF Marks, ReadFind, ReadWrite, Written, BeingRead
<1>4. ASSUME NEW n \in 1..MaxSent, BeingRead(n)' PROVE BeingRead(n)
  <2>1. CASE n = m
    BY <1>3, <2>1
  <2>2. CASE n # m
    <3>1. reads'[n] = reads[n] /\ found'[n] = found[n]
      BY <1>2, <2>2 DEF Marks, ReadFind, ReadWrite
    <3> QED
      BY <1>4, <3>1 DEF BeingRead
  <2> QED
    BY <2>1, <2>2
<1>5. MarkedAfterShown'
  <2>1. ASSUME NEW n \in 1..MaxSent, BeingRead(n), NEW i \in 1..n PROVE Accounted(i)'
    <3>1. Accounted(i) /\ i \in Nat
      BY <2>1 DEF PanelInv, MarkedAfterShown
    <3> QED
      BY <3>1, AccountedStays
  <2>2. ASSUME NEW i \in 1..lastRead PROVE Accounted(i)'
    <3>1. Accounted(i) /\ i \in Nat
      BY <2>2 DEF PanelInv, MarkedAfterShown
    <3> QED
      BY <3>1, AccountedStays
  <2> QED
    BY <1>2, <1>3, <1>4, <2>1, <2>2 DEF MarkedAfterShown
<1>6. \A i \in Nat : Marking(i) => Marked(i)' \/ Marking(i)'
  BY MarkingDone
<1>7. \A i \in SentMsgs' : msgs'[i].at # "announce" => i \in SentMsgs /\ msgs[i].at # "announce"
  BY <1>1 DEF SentMsgs
<1> QED
  BY <1>1, <1>5, <1>6, <1>7, PanelAside

\* The connection is over.
LEMMA EndingKeeps ==
    ASSUME ReadTypes, PanelInv, ReadNext, PanelBreak \/ Leave PROVE PanelInv'
<1>1. /\ join' = NoJoin /\ loaded' = FALSE /\ panelWire' = <<>> /\ Len(panelWire') = 0
      /\ panel' # "joined" /\ UNCHANGED <<lastRead, found>>
  BY LeaveFrame DEF PanelBreak, Disconnected
<1>2. \A k \in 1..Len(panelWire') : FALSE
  BY <1>1
<1>3. \A m \in 1..MaxSent : reads'[m] > 0 => reads[m] > 0
  BY LeaveFrame DEF PanelBreak
<1>4. MarkedAfterShown'
  BY <1>1, <1>3, StillShown DEF BeingRead
<1> QED
  BY <1>1, <1>2, <1>4 DEF PanelInv, OneList, InStep, EachReaches, NoJoin

LEMMA WireIds ==
    ASSUME ReadTypes, NEW k \in 1..Len(panelWire)
    PROVE  panelWire[k] \in PanelEvents /\ panelWire[k].id \in Nat
<1>1. panelWire[k] \in PanelEvents
  BY DEF ReadTypes, PanelTypes
<1> QED
  BY <1>1, ReadAssumption DEF PanelEvents

\* A message is announced: those before it that are not are skipped, the others are
\* shown, on their way, or to be listed.
LEMMA AnnounceKeeps ==
    ASSUME ReadTypes, PanelInv, ReadNext, NEW m \in SentMsgs, SendAnnounce(m)
    PROVE  PanelInv'
<1>1. RowStep(m)
  BY DEF RowStep
<1>2. /\ UNCHANGED <<lastRead, reads, found, backed, voided, panel, join, loaded, shown, older>>
      /\ SentMsgs' = SentMsgs
      /\ \A i \in SentMsgs : i # m => msgs'[i] = msgs[i]
      /\ skipped' = skipped \cup {i \in 1..(m - 1) : msgs[i].at = "announce"}
  BY <1>1, RowStepFrame DEF ReadTypes, SendAnnounce
<1>3. MarkedAfterShown'
  BY <1>2, StillShown DEF BeingRead
<1>4. ASSUME NEW i \in Nat, Accounted(i) PROVE Accounted(i)'
  BY <1>4, AccountedStays
<1>5. CASE panel # "joined"
  <2>1. UNCHANGED panelWire
    BY <1>5 DEF SendAnnounce
  <2>2. panelWire = <<>> /\ Len(panelWire) = 0
    BY <1>5 DEF ReadTypes, PanelTypes
  <2>3. \A k \in 1..Len(panelWire') : FALSE
    BY <2>1, <2>2
  <2> QED
    BY <1>2, <1>3, <1>5, <2>3 DEF PanelInv, OneList, InStep, EachReaches
<1>6. CASE panel = "joined"
  <2>1. PICK n : n = Len(panelWire)
    OBVIOUS
  <2>2. /\ n \in Nat /\ Len(panelWire') = n + 1
        /\ \A k \in 1..n : panelWire'[k] = panelWire[k]
        /\ panelWire'[n + 1] = NewMessage(m)
    BY <1>6, <2>1, AnnounceWire
  <2>3. \A e, i : e = NewMessage(m) => e.kind = "new-message" /\ e.id = m /\ (Tells(e, i) <=> i = m)
    BY DEF NewMessage, Tells
  <2>4. OneList'
    <3>1. \A k \in 1..(n + 1) : k \in 1..n \/ k = n + 1
      BY <2>2
    <3> QED
      BY <1>2, <2>1, <2>2, <2>3, <3>1 DEF PanelInv, OneList, NoJoin
  <2>5. InStep'
    <3>1. ASSUME NEW k \in 1..n, panelWire[k].kind = "new-message",
                 NEW i \in 1..(panelWire[k].id - 1)
          PROVE  Before(i, k)'
      <4>1. Before(i, k)
        BY <2>1, <3>1 DEF PanelInv, InStep
      <4>2. \A j \in 1..(k - 1) : j \in 1..n
        BY <2>2
      <4>3. i \in Nat
        BY <2>1, WireIds
      <4> QED
        BY <1>2, <1>4, <2>2, <4>1, <4>2, <4>3 DEF Before, Tells
    <3>2. ASSUME NEW i \in 1..(m - 1) PROVE Before(i, n + 1)'
      <4>1. i \in SentMsgs /\ i \in Nat /\ i # m
        BY RowIs DEF ReadTypes, SentMsgs
      <4>2. CASE msgs[i].at = "announce"
        BY <1>2, <4>2 DEF Before, Accounted
      <4>3. CASE OnWire(i)
        <5>1. PICK j \in 1..n : Tells(panelWire[j], i)
          BY <2>1, <4>3 DEF OnWire
        <5>2. j \in 1..((n + 1) - 1) /\ panelWire'[j] = panelWire[j]
          BY <2>2
        <5> QED
          BY <5>1, <5>2 DEF Before, Tells
      <4>4. CASE ToBeListed(i)
        <5>1. join # NoJoin
          BY <4>4, NoJoinIs DEF ToBeListed
        <5>2. ~loaded' /\ \A j \in 1..n : panelWire[j].kind # "room-joined"
          BY <1>2, <2>1, <5>1 DEF PanelInv, OneList, ReadTypes, PanelTypes
        <5>3. \A j \in 1..((n + 1) - 1) : j \in 1..n /\ panelWire'[j] = panelWire[j]
          BY <2>2
        <5> QED
          BY <5>2, <5>3 DEF Before
      <4>5. CASE Accounted(i) \/ Erased(i)
        BY <1>4, <4>1, <4>5 DEF Before, Accounted
      <4> QED
        BY <1>6, <4>1, <4>2, <4>3, <4>4, <4>5 DEF PanelInv, EachReaches, Reaches
    <3>3. \A k \in 1..(n + 1) : k \in 1..n \/ k = n + 1
      BY <2>2
    <3> QED
      BY <2>2, <2>3, <3>1, <3>2, <3>3 DEF InStep
  <2>6. EachReaches'
    <3>1. ASSUME NEW i \in SentMsgs, msgs'[i].at # "announce" PROVE Reaches(i)'
      <4>1. CASE i = m
        <5>1. n + 1 \in 1..Len(panelWire') /\ Tells(panelWire'[n + 1], i)
          BY <2>2, <2>3, <4>1
        <5> QED
          BY <5>1 DEF Reaches, OnWire, Tells
      <4>2. CASE i # m
        <5>1. Reaches(i) /\ i \in Nat
          BY <1>2, <1>6, <3>1, <4>2, RowIs DEF PanelInv, EachReaches, ReadTypes
        <5>2. OnWire(i) => OnWire(i)'
          <6>1. \A k \in 1..n : k \in 1..(n + 1)
            BY <2>2
          <6> QED
            BY <2>1, <2>2, <6>1 DEF OnWire, Tells
        <5>3. (Accounted(i) => Accounted(i)') /\ (Erased(i) => Erased(i)')
          BY <1>4, <5>1, ErasedStays
        <5> QED
          BY <1>2, <5>1, <5>2, <5>3 DEF Reaches, ToBeListed, Marked, Marking, BeingRead
      <4> QED
        BY <4>1, <4>2
    <3> QED
      BY <1>2, <3>1 DEF EachReaches
  <2> QED
    BY <1>3, <2>4, <2>5, <2>6 DEF PanelInv
<1> QED
  BY <1>5, <1>6

LEMMA JoinKeeps ==
    ASSUME ReadTypes, PanelInv, ReadNext, PanelJoin \/ JoinRead PROVE PanelInv'
<1>1. UNCHANGED <<msgs, lastRead, reads, found, loaded, panelWire, shown, skipped, older>>
  BY DEF PanelJoin, JoinRead, chatVars, screen
<1>2. MarkedAfterShown'
  BY <1>1, StillShown DEF BeingRead
<1>3. InStep'
  BY <1>1 DEF PanelInv, InStep, Before, Accounted, Erased, SentMsgs, Tells
<1>4. \A k \in 1..Len(panelWire) : panelWire[k].kind # "room-joined"
  <2>1. CASE PanelJoin
    <3>1. panelWire = <<>> /\ Len(panelWire) = 0
      BY <2>1 DEF PanelJoin, ReadTypes, PanelTypes
    <3> QED
      BY <3>1
  <2>2. CASE JoinRead
    <3>1. join # NoJoin
      BY <2>2, NoJoinIs DEF JoinRead
    <3> QED
      BY <3>1 DEF PanelInv, OneList
  <2> QED
    BY <2>1, <2>2
<1>5. OneList'
  BY <1>1, <1>4 DEF OneList
<1>6. EachReaches'
  <2>1. ASSUME NEW i \in SentMsgs PROVE ToBeListed(i)' \/ Erased(i)'
    <3>1. CASE PanelJoin
      <4>1. join' = [NoJoin EXCEPT !.at = "read"]
        BY <3>1 DEF PanelJoin
      <4> QED
        BY <4>1 DEF ToBeListed, NoJoin
    <3>2. CASE JoinRead
      <4>1. PICK from, upto \in StoredMsgs \cup {0} :
              /\ \A m \in StoredMsgs : m <= upto
              /\ join' = [at |-> "reply", upto |-> upto, from |-> from]
        BY <3>2 DEF JoinRead
      <4>2. CASE i \in StoredMsgs
        BY <4>1, <4>2 DEF ToBeListed
      <4>3. CASE i \notin StoredMsgs
        BY <1>1, <4>3 DEF StoredMsgs, Erased, SentMsgs
      <4> QED
        BY <4>2, <4>3
    <3> QED
      BY <3>1, <3>2
  <2>2. SentMsgs' = SentMsgs
    BY <1>1 DEF SentMsgs
  <2> QED
    BY <2>1, <2>2 DEF EachReaches, Reaches
<1> QED
  BY <1>2, <1>3, <1>5, <1>6 DEF PanelInv

LEMMA ReplyKeeps ==
    ASSUME ReadTypes, PanelInv, ReadNext, JoinReply PROVE PanelInv'
<1>1. PICK e, n : /\ e = [kind |-> "room-joined", id |-> join.upto, from |-> join.from]
                 /\ n = Len(panelWire)
  OBVIOUS
<1>2. e.kind = "room-joined" /\ e.id = join.upto /\ e \in PanelEvents
  BY <1>1, ReadAssumption DEF PanelEvents, ReadTypes, PanelTypes, Joins
<1>3. /\ join.at = "reply" /\ join' = NoJoin /\ panelWire' = Append(panelWire, e)
      /\ UNCHANGED <<msgs, lastRead, reads, found, backed, voided, panel, loaded, shown,
                     skipped, older>>
  BY <1>1 DEF JoinReply, chatVars, screen, history
<1>4. /\ n \in Nat /\ Len(panelWire') = n + 1
      /\ \A k \in 1..n : panelWire'[k] = panelWire[k]
      /\ panelWire'[n + 1] = e
  BY <1>1, <1>2, <1>3, Appended DEF ReadTypes, PanelTypes
<1>5. \A k \in 1..(n + 1) : k \in 1..n \/ k = n + 1
  BY <1>4
<1>6. ~loaded /\ \A k \in 1..n : panelWire[k].kind # "room-joined"
  BY <1>1, <1>3, NoJoinIs DEF PanelInv, OneList, ReadTypes, PanelTypes
<1>7. MarkedAfterShown'
  BY <1>3, StillShown DEF BeingRead
<1>8. OneList'
  BY <1>3, <1>4, <1>5, <1>6 DEF OneList, NoJoin
<1>9. InStep'
  <2>1. ASSUME NEW k \in 1..n, panelWire[k].kind = "new-message",
               NEW i \in 1..(panelWire[k].id - 1)
        PROVE  Before(i, k)'
    <3>1. Before(i, k)
      BY <1>1, <2>1 DEF PanelInv, InStep
    <3>2. \A j \in 1..(k - 1) : j \in 1..n
      BY <1>4
    <3> QED
      BY <1>3, <1>4, <3>1, <3>2 DEF Before, Accounted, Erased, SentMsgs, Tells
  <2> QED
    BY <1>2, <1>4, <1>5, <2>1 DEF InStep
<1>10. EachReaches'
  <2>1. ASSUME NEW i \in SentMsgs, Reaches(i) PROVE Reaches(i)'
    <3>1. CASE OnWire(i)
      <4>1. PICK k \in 1..n : Tells(panelWire[k], i)
        BY <1>1, <3>1 DEF OnWire
      <4>2. k \in 1..(n + 1) /\ panelWire'[k] = panelWire[k]
        BY <1>4
      <4> QED
        BY <1>4, <4>1, <4>2 DEF Reaches, OnWire, Tells
    <3>2. CASE ToBeListed(i)
      <4>1. Tells(panelWire'[n + 1], i) /\ n + 1 \in 1..Len(panelWire')
        BY <1>2, <1>3, <1>4, <3>2 DEF ToBeListed, Tells
      <4> QED
        BY <4>1 DEF Reaches, OnWire, Tells
    <3>3. CASE Erased(i) \/ (Accounted(i) /\ (Marked(i) \/ Marking(i)))
      BY <1>3, <3>3 DEF Reaches, Accounted, Erased, SentMsgs, Marked, Marking, BeingRead
    <3> QED
      BY <2>1, <3>1, <3>2, <3>3 DEF Reaches
  <2> QED
    BY <1>3, <2>1 DEF PanelInv, EachReaches, SentMsgs
<1> QED
  BY <1>7, <1>8, <1>9, <1>10 DEF PanelInv

\* The next event is shown and marked, with everything before it.
LEMMA EventKeepsPanel ==
    ASSUME ReadTypes, PanelInv, ReadNext, PanelNewMessage \/ PanelRoomJoined PROVE PanelInv'
<1>1. PICK e : e = Head(panelWire)
  OBVIOUS
<1>2. /\ panelWire # <<>> /\ panelWire' = Tail(panelWire)
      /\ UNCHANGED <<msgs, lastRead, found, backed, voided, panel, join>>
  BY <1>1 DEF PanelNewMessage, PanelRoomJoined, history
<1>3. PanelHead(e)
  BY <1>1, <1>2, HeadEvent
<1>4. PICK m : m = e.id
  OBVIOUS
<1>5. m \in 0..MaxSent /\ m \in Nat
  BY <1>3, <1>4, ReadAssumption DEF PanelHead, PanelEvents
<1>6. /\ e.kind \in {"new-message", "room-joined"}
      /\ e.kind = "new-message" <=> PanelNewMessage
      /\ e.kind = "room-joined" <=> PanelRoomJoined
  BY <1>1 DEF PanelNewMessage, PanelRoomJoined
<1>7. ASSUME NEW i \in Nat, Accounted(i) PROVE Accounted(i)'
  BY <1>7, AccountedStays
<1>8. m # 0 => m \in 1..MaxSent /\ reads' = [reads EXCEPT ![m] = @ + 1]
  BY <1>1, <1>3, <1>4, <1>5, <1>6 DEF PanelNewMessage, PanelRoomJoined, PanelHead
<1>9. m = 0 => reads' = reads
  BY <1>1, <1>3, <1>4, <1>6 DEF PanelRoomJoined, PanelHead
<1>10. reads \in [1..MaxSent -> Nat]
  BY DEF ReadTypes, ChatTypes
<1>11. /\ m # 0 => reads'[m] > 0
       /\ \A n \in 1..MaxSent : reads[n] > 0 => reads'[n] > 0
  <2>1. CASE m = 0
    BY <1>9, <2>1
  <2>2. CASE m # 0
    <3>1. m \in 1..MaxSent /\ reads' = [reads EXCEPT ![m] = @ + 1]
      BY <1>8, <2>2
    <3>2. reads'[m] = reads[m] + 1 /\ reads[m] \in Nat
      BY <1>10, <3>1
    <3>3. \A n \in 1..MaxSent : n # m => reads'[n] = reads[n]
      BY <1>10, <3>1
    <3> QED
      BY <3>2, <3>3
  <2> QED
    BY <2>1, <2>2
<1>12. ASSUME NEW i \in 1..m PROVE Accounted(i)'
  <2>1. CASE PanelNewMessage
    <3>1. e.kind = "new-message" /\ e = panelWire[1]
      BY <1>3, <1>6, <2>1 DEF PanelHead
    <3>2. shown' = shown \cup {m} /\ skipped' = IF loaded THEN skipped ELSE skipped \cup 1..(m - 1)
      BY <1>1, <1>4, <2>1 DEF PanelNewMessage
    <3>3. CASE i = m
      BY <3>2, <3>3 DEF Accounted
    <3>4. CASE i # m
      <4>1. i \in 1..(m - 1)
        BY <1>5, <3>4
      <4>2. Before(i, 1)
        BY <1>3, <1>4, <3>1, <4>1 DEF PanelInv, InStep, PanelHead
      <4>3. Accounted(i) \/ ~loaded
        BY <4>2 DEF Before
      <4> QED
        BY <1>7, <3>2, <4>1, <4>3 DEF Accounted
    <3> QED
      BY <3>3, <3>4
  <2>2. CASE PanelRoomJoined
    <3>1. /\ shown' = shown \cup ((e.from + 1)..m)
          /\ older' = IF e.from > older THEN e.from ELSE older
      BY <1>1, <1>4, <2>2 DEF PanelRoomJoined
    <3>2. e.from \in Nat /\ older \in Nat
      BY <1>3 DEF PanelHead, ReadTypes, PanelTypes
    <3>3. CASE i > e.from
      BY <1>5, <3>1, <3>2, <3>3 DEF Accounted
    <3>4. CASE ~(i > e.from)
      BY <3>1, <3>2, <3>4 DEF Accounted
    <3> QED
      BY <3>3, <3>4
  <2> QED
    BY <2>1, <2>2
<1>13. ASSUME NEW i \in 1..m PROVE Marking(i)'
  <2>1. m # 0 /\ i <= m
    BY <1>5
  <2>2. m \in 1..MaxSent /\ reads'[m] > 0
    BY <1>8, <1>11, <2>1
  <2> QED
    BY <2>1, <2>2 DEF Marking, BeingRead
<1>14. MarkedAfterShown'
  <2>1. ASSUME NEW n \in 1..MaxSent, BeingRead(n)', NEW i \in 1..n PROVE Accounted(i)'
    <3>1. CASE n = m
      BY <1>12, <3>1
    <3>2. CASE n # m
      <4>1. BeingRead(n)
        BY <1>2, <1>5, <1>8, <1>9, <1>10, <2>1, <3>2 DEF BeingRead
      <4> QED
        BY <1>7, <4>1 DEF PanelInv, MarkedAfterShown
    <3> QED
      BY <3>1, <3>2
  <2>2. ASSUME NEW i \in 1..lastRead PROVE Accounted(i)'
    BY <1>7, <2>2 DEF PanelInv, MarkedAfterShown
  <2> QED
    BY <1>2, <2>1, <2>2 DEF MarkedAfterShown
<1>15. \A i \in Nat \ {0} : Tells(e, i) => i \in 1..m
  BY <1>4, <1>5, <1>3 DEF Tells, PanelHead
<1>16. OneList'
  <2>1. \A k \in 1..Len(panelWire') :
           panelWire'[k] = panelWire[k + 1] /\ k + 1 \in 1..Len(panelWire) /\ k + 1 # 1
    BY <1>3 DEF PanelHead
  <2>2. loaded' = loaded \/ e.kind = "room-joined"
    BY <1>6 DEF PanelNewMessage
  <2>3. e = panelWire[1] /\ 1 \in 1..Len(panelWire)
    BY <1>3 DEF PanelHead
  <2>4. e.kind = "room-joined" => \A k \in 1..Len(panelWire') : panelWire'[k].kind # "room-joined"
    BY <2>1, <2>3 DEF PanelInv, OneList
  <2>5. \A j, k \in 1..Len(panelWire') : j + 1 = k + 1 => j = k
    BY <1>3 DEF PanelHead
  <2> QED
    BY <1>2, <2>1, <2>2, <2>4, <2>5 DEF PanelInv, OneList, NoJoin
<1>17. InStep'
  <2> SUFFICES ASSUME NEW k \in 1..Len(panelWire'), panelWire'[k].kind = "new-message",
                      NEW i \in 1..(panelWire'[k].id - 1)
               PROVE  Before(i, k)'
    BY DEF InStep
  <2>1. panelWire'[k] = panelWire[k + 1] /\ k + 1 \in 1..Len(panelWire)
    BY <1>3 DEF PanelHead
  <2>2. i \in Nat \ {0}
    BY <2>1, WireIds
  <2>3. Before(i, k + 1)
    BY <2>1 DEF PanelInv, InStep
  <2>4. k \in Nat /\ \A j \in 1..(k - 1) :
                        j + 1 \in 1..((k + 1) - 1) /\ panelWire'[j] = panelWire[j + 1]
    BY <1>3 DEF PanelHead
  <2>5. CASE Accounted(i)
    BY <1>7, <2>2, <2>5 DEF Before
  <2>6. CASE \E j \in 1..((k + 1) - 1) : Tells(panelWire[j], i)
    <3>1. PICK j \in 1..k : Tells(panelWire[j], i)
      BY <2>4, <2>6
    <3>2. CASE j = 1
      BY <1>3, <1>12, <1>15, <2>2, <3>1, <3>2 DEF Before, PanelHead
    <3>3. CASE j # 1
      <4>1. j - 1 \in 1..(k - 1) /\ panelWire'[j - 1] = panelWire[(j - 1) + 1] /\ (j - 1) + 1 = j
        BY <2>4, <3>3
      <4> QED
        BY <3>1, <4>1 DEF Before, Tells
    <3> QED
      BY <3>2, <3>3
  <2>7. CASE ~loaded /\ \A j \in 1..((k + 1) - 1) : panelWire[j].kind # "room-joined"
    <3>1. e.kind # "room-joined"
      BY <1>3, <2>4, <2>7 DEF PanelHead
    <3>2. loaded' = loaded
      BY <1>6, <3>1 DEF PanelNewMessage
    <3> QED
      BY <2>4, <2>7, <3>2 DEF Before
  <2> QED
    BY <2>3, <2>5, <2>6, <2>7 DEF Before
<1>18. EachReaches'
  <2> SUFFICES ASSUME NEW i \in SentMsgs, Reaches(i) PROVE Reaches(i)'
    BY <1>2 DEF PanelInv, EachReaches, SentMsgs
  <2>1. i \in Nat \ {0}
    BY RowIs DEF ReadTypes
  <2>2. CASE OnWire(i)
    <3>1. PICK k \in 1..Len(panelWire) : Tells(panelWire[k], i)
      BY <2>2 DEF OnWire
    <3>2. CASE k = 1
      BY <1>3, <1>12, <1>13, <1>15, <2>1, <3>1, <3>2 DEF Reaches, PanelHead
    <3>3. CASE k # 1
      <4>1. k - 1 \in 1..Len(panelWire') /\ panelWire'[k - 1] = panelWire[k]
        BY <1>3, <3>3 DEF PanelHead
      <4> QED
        BY <3>1, <4>1 DEF Reaches, OnWire, Tells
    <3> QED
      BY <3>2, <3>3
  <2>3. CASE ToBeListed(i)
    BY <1>2, <2>3 DEF Reaches, ToBeListed
  <2>4. CASE Accounted(i) /\ Marked(i)
    BY <1>2, <1>7, <2>1, <2>4 DEF Reaches, Marked
  <2>5. CASE Accounted(i) /\ Marking(i)
    <3>1. PICK n \in 1..MaxSent : i <= n /\ BeingRead(n)
      BY <2>5 DEF Marking
    <3>2. BeingRead(n)'
      BY <1>2, <1>11, <3>1 DEF BeingRead
    <3>3. Marking(i)'
      BY <3>1, <3>2 DEF Marking
    <3> QED
      BY <1>7, <2>1, <2>5, <3>3 DEF Reaches
  <2>6. CASE Erased(i)
    BY <2>6, ErasedStays DEF Reaches
  <2> QED
    BY <2>2, <2>3, <2>4, <2>5, <2>6 DEF Reaches
<1> QED
  BY <1>14, <1>16, <1>17, <1>18 DEF PanelInv

-----------------------------------------------------------------------------
(* The count.                                                              *)

LEMMA ListWireTyped == ReadTypes => listWire \in Seq(1..MaxSent)
BY DEF ReadTypes, ListTypes

\* The event about i, if it is on its way, stays there, is handled, or is missed.
LEMMA EventStays ==
    ASSUME ReadTypes, ReadNext, NEW i, i \in ToSet(listWire)
    PROVE  i \in ToSet(listWire') \/ i \in missed' \/ (ListUpdated /\ i = Head(listWire))
<1>1. CASE UNCHANGED listWire
  BY <1>1
<1>2. CASE \E m \in SentMsgs : RowStep(m)
  <2>1. PICK m \in SentMsgs : RowStep(m)
    BY <1>2
  <2>2. CASE SendNotify(m)
    <3>1. PICK S : S = 1..MaxSent
      OBVIOUS
    <3>2. listWire' = Append(listWire, m) /\ listWire \in Seq(S) /\ m \in S
      BY <2>2, <3>1, RowIs, ListWireTyped DEF SendNotify, ReadTypes
    <3>3. ToSet(Append(listWire, m)) = ToSet(listWire) \cup {m}
      BY <3>2, Appended
    <3> QED
      BY <3>2, <3>3
  <2> QED
    BY <1>1, <2>1, <2>2, RowStepFrame DEF ReadTypes
<1>3. CASE ListUpdated
  <2>1. listWire # <<>> /\ listWire' = Tail(listWire)
    BY <1>3 DEF ListUpdated
  <2>2. PICK S : S = 1..MaxSent
    OBVIOUS
  <2>3. listWire \in Seq(S)
    BY <2>2, ListWireTyped
  <2>4. ToSet(listWire) = ToSet(Tail(listWire)) \cup {Head(listWire)}
    BY <2>1, <2>3, Headed
  <2> QED
    BY <1>3, <2>1, <2>4
<1>4. CASE ListBreak
  BY <1>4 DEF ListBreak
<1>5. CASE SidebarOpen \/ SelectRoom \/ \E k \in 1..MaxOpens : FetchStep(k)
  BY <1>1, <1>5
     DEF SidebarOpen, SelectRoom, FetchStep, FetchFind, FetchCount, FetchReply, FetchFail
<1>6. CASE (\E mine \in BOOLEAN : SendCreate(mine)) \/ AdminDeleteUser \/ PanelStep \/ Leave
  BY <1>1, <1>6, CreateFrame, AdminFrame, PanelStepFrame, LeaveFrame DEF ReadTypes
<1> QED
  BY <1>2, <1>3, <1>4, <1>5, <1>6, ReadNextIs DEF ListStep

\* A message the lists were told of was so before, or is told of now.
LEMMA SentBefore ==
    ASSUME ReadTypes, ReadNext, NEW i \in SentMsgs', msgs'[i].at = "sent"
    PROVE  \/ /\ i \in SentMsgs /\ msgs[i].at = "sent" /\ msgs'[i].mine = msgs[i].mine
              /\ msgs[i].deleted => msgs'[i].deleted
              /\ msgs[i].gone => msgs'[i].gone
           \/ SendNotify(i) /\ i \in ToSet(listWire')
<1>1. CASE \E m \in SentMsgs : RowStep(m)
  <2>1. PICK m \in SentMsgs : RowStep(m)
    BY <1>1
  <2>2. CASE i = m /\ SendNotify(m)
    <3>1. PICK S : S = 1..MaxSent
      OBVIOUS
    <3>2. listWire' = Append(listWire, m) /\ listWire \in Seq(S) /\ m \in S
      BY <2>2, <3>1, RowIs, ListWireTyped DEF SendNotify, ReadTypes
    <3>3. ToSet(Append(listWire, m)) = ToSet(listWire) \cup {m}
      BY <3>2, Appended
    <3> QED
      BY <2>2, <3>2, <3>3
  <2>3. CASE i = m /\ ~SendNotify(m)
    BY <2>1, <2>3, RowStepFrame DEF ReadTypes
  <2>4. CASE i # m
    BY <2>1, <2>4, RowStepFrame DEF ReadTypes
  <2> QED
    BY <2>2, <2>3, <2>4
<1>2. CASE \E mine \in BOOLEAN : SendCreate(mine)
  BY <1>2, CreateFrame DEF ReadTypes
<1>3. CASE PanelStep \/ Leave \/ ListStep
  <2>1. UNCHANGED msgs
    BY <1>3, PanelStepFrame, LeaveFrame, ListStepFrame
  <2> QED
    BY <2>1 DEF SentMsgs
<1>4. CASE AdminDeleteUser
  BY <1>4, AdminFrame DEF ReadTypes
<1> QED
  BY <1>1, <1>2, <1>3, <1>4, ReadNextIs

LEMMA MissedStays == ASSUME ReadTypes, ReadNext PROVE missed \subseteq missed'
<1>1. CASE ListStep
  BY <1>1 DEF ListStep, SidebarOpen, SelectRoom, FetchStep, FetchFind, FetchCount, FetchReply,
              FetchFail, ListUpdated, ListBreak
<1>2. CASE \/ \E mine \in BOOLEAN : SendCreate(mine)
           \/ \E m \in SentMsgs : RowStep(m)
           \/ AdminDeleteUser
  BY <1>2, CreateFrame, RowStepFrame, AdminFrame DEF ReadTypes
<1>3. CASE PanelStep \/ Leave
  BY <1>3, PanelStepFrame, LeaveFrame
<1> QED
  BY <1>1, <1>2, <1>3, ReadNextIs

\* There is news of a message when the event about it is handled, and only then.
LEMMA NoNewsStays ==
    ASSUME ReadTypes, ReadNext, NEW i \in SentMsgs, msgs'[i].at = "sent", i \in SentMsgs',
           msgs[i].at = "sent", NoNews(i)
    PROVE  NoNews(i)' \/ (ListUpdated /\ i = Head(listWire))
<1>1. i \in Nat
  BY RowIs DEF ReadTypes
<1>2. (msgs[i].deleted => msgs'[i].deleted) /\ (msgs[i].gone => msgs'[i].gone)
  BY SentBefore DEF SendNotify
<1> QED
  BY <1>1, <1>2, MarkedStays, MissedStays, EventStays DEF NoNews

\* A step that is not the fetch's own leaves it alone, or adds to what it has seen.
LEMMA FetchFrame ==
    ASSUME ReadTypes, ReadNext, NEW k \in 1..MaxOpens, ~FetchStep(k),
           fetch'[k].at \in {"count", "reply"}
    PROVE  /\ fetch'[k].at = fetch[k].at /\ fetch'[k].base = fetch[k].base
           /\ fetch'[k].count = fetch[k].count /\ fetch[k].seen \subseteq fetch'[k].seen
           /\ ListUpdated /\ fetch[k].at = "reply" => Head(listWire) \in fetch'[k].seen
<1>1. fetch \in [1..MaxOpens -> Fetches] /\ fetch[k] \in Fetches
  BY DEF ReadTypes, ListTypes
<1>2. CASE ListUpdated
  <2>1. PICK m : m = Head(listWire)
    OBVIOUS
  <2>2. fetch'[k] = IF fetch[k].at # "reply" THEN fetch[k]
                    ELSE [fetch[k] EXCEPT !.seen = @ \cup {m}]
    BY <1>2, <2>1 DEF ListUpdated
  <2> QED
    BY <1>1, <2>1, <2>2 DEF Fetches
<1>3. CASE ~ListUpdated
  <2>1. CASE SidebarOpen
    <3>1. CASE k = opens + 1
      <4>1. fetch'[k] = [fetch[k] EXCEPT !.at = "find"]
        BY <1>1, <2>1, <3>1 DEF SidebarOpen
      <4> QED
        BY <1>1, <4>1 DEF Fetches
    <3>2. CASE k # opens + 1
      <4>1. fetch'[k] = fetch[k]
        BY <1>1, <2>1, <3>2 DEF SidebarOpen
      <4> QED
        BY <1>3, <4>1
    <3> QED
      BY <3>1, <3>2
  <2>2. CASE \E j \in 1..MaxOpens : FetchStep(j)
    <3>1. PICK j \in 1..MaxOpens : FetchStep(j)
      BY <2>2
    <3>2. k # j
      BY <3>1
    <3>3. fetch'[k] = fetch[k]
      BY <1>1, <3>1, <3>2 DEF FetchStep, FetchFind, FetchCount, FetchReply, FetchFail
    <3> QED
      BY <1>3, <3>3
  <2>3. CASE SelectRoom \/ ListBreak \/ ~ListStep
    <3>1. fetch' = fetch
      BY <2>3, ReadNextIs, CreateFrame, RowStepFrame, AdminFrame, PanelStepFrame, LeaveFrame
         DEF ReadTypes, SelectRoom, ListBreak
    <3> QED
      BY <1>3, <3>1
  <2> QED
    BY <1>3, <2>1, <2>2, <2>3 DEF ListStep
<1> QED
  BY <1>2, <1>3

LEMMA FetchKeeps ==
    ASSUME ReadTypes, ReadTypes', FetchHonest, ReadNext PROVE FetchHonest'
<1> SUFFICES ASSUME NEW k \in 1..MaxOpens
             PROVE  /\ fetch'[k].at = "count" => \A i \in 1..fetch'[k].base : Marked(i)'
                    /\ fetch'[k].at = "reply" /\ fetch'[k].count = 0 =>
                         \A i \in SentMsgs' :
                           msgs'[i].at = "sent" => NoNews(i)' \/ i \in fetch'[k].seen
  BY DEF FetchHonest
<1>1. fetch \in [1..MaxOpens -> Fetches] /\ fetch[k] \in Fetches
  BY DEF ReadTypes, ListTypes
<1>2. CASE FetchFind(k)
  <2>1. fetch'[k] = [fetch[k] EXCEPT !.at = "count", !.base = lastRead]
    BY <1>1, <1>2 DEF FetchFind
  <2>2. /\ fetch'[k].at = "count" /\ fetch'[k].base = lastRead
        /\ UNCHANGED <<lastRead, backed, voided>>
    BY <1>1, <1>2, <2>1 DEF FetchFind, Fetches, chatVars, history
  <2> QED
    BY <2>2 DEF Marked
<1>3. CASE FetchCount(k)
  <2>1. PICK C : C = {m \in StoredMsgs : m > fetch[k].base /\ ~msgs[m].deleted}
    OBVIOUS
  <2>2. /\ fetch[k].at = "count"
        /\ fetch'[k] = [fetch[k] EXCEPT !.at = "reply", !.count = Cardinality(C)]
        /\ UNCHANGED <<msgs, lastRead, backed, voided>>
    BY <1>1, <1>3, <2>1 DEF FetchCount, chatVars, history
  <2>3. fetch'[k].at = "reply" /\ fetch'[k].count = Cardinality(C)
    BY <1>1, <2>2 DEF Fetches
  <2>4. IsFiniteSet(C)
    <3>1. Len(msgs) \in Nat
      BY ReadAssumption DEF ReadTypes, ChatTypes
    <3>2. IsFiniteSet(SentMsgs)
      BY <3>1, FS_Interval DEF SentMsgs
    <3>3. C \subseteq SentMsgs
      BY <2>1 DEF StoredMsgs
    <3> QED
      BY <3>2, <3>3, FS_Subset
  <2>5. ASSUME fetch'[k].count = 0, NEW i \in SentMsgs, msgs[i].at = "sent" PROVE NoNews(i)'
    <3>1. C = {}
      BY <2>3, <2>4, <2>5, FS_EmptySet
    <3>2. i \in Nat \ {0} /\ fetch[k].base \in Nat
      BY <1>1, RowIs, ReadAssumption DEF ReadTypes, Fetches
    <3>3. i <= fetch[k].base \/ msgs[i].deleted \/ msgs[i].gone
      BY <2>1, <3>1, <3>2 DEF StoredMsgs
    <3>4. i <= fetch[k].base => Marked(i)
      BY <2>2, <3>2 DEF FetchHonest
    <3> QED
      BY <2>2, <3>3, <3>4 DEF NoNews, Marked
  <2> QED
    BY <2>2, <2>3, <2>5 DEF SentMsgs
<1>4. CASE FetchReply(k) \/ FetchFail(k)
  <2>1. fetch'[k] = NoFetch
    BY <1>1, <1>4 DEF FetchReply, FetchFail
  <2> QED
    BY <2>1, NoFetchIs
<1>5. CASE ~FetchStep(k)
  <2>1. ASSUME fetch'[k].at = "count", NEW i \in 1..fetch'[k].base PROVE Marked(i)'
    <3>1. fetch[k].at = "count" /\ fetch'[k].base = fetch[k].base
      BY <1>5, <2>1, FetchFrame
    <3>2. Marked(i) /\ i \in Nat
      BY <2>1, <3>1 DEF FetchHonest
    <3> QED
      BY <3>2, MarkedStays
  <2>2. ASSUME fetch'[k].at = "reply", fetch'[k].count = 0, NEW i \in SentMsgs',
               msgs'[i].at = "sent"
        PROVE  NoNews(i)' \/ i \in fetch'[k].seen
    <3>1. /\ fetch[k].at = "reply" /\ fetch[k].count = 0 /\ fetch[k].seen \subseteq fetch'[k].seen
          /\ ListUpdated => Head(listWire) \in fetch'[k].seen
      BY <1>5, <2>2, FetchFrame
    <3>2. CASE i \in SentMsgs /\ msgs[i].at = "sent"
      <4>1. NoNews(i) \/ i \in fetch[k].seen
        BY <3>1, <3>2 DEF FetchHonest
      <4> QED
        BY <2>2, <3>1, <3>2, <4>1, NoNewsStays
    <3>3. CASE i \in ToSet(listWire')
      BY <3>3 DEF NoNews
    <3> QED
      BY <2>2, <3>2, <3>3, SentBefore
  <2> QED
    BY <2>1, <2>2
<1> QED
  BY <1>2, <1>3, <1>4, <1>5 DEF FetchStep

\* Closing the panel loses no message: what the panel has not marked is missed.
LEMMA ClosingOwnsUp ==
    ASSUME ReadTypes, PanelInv, ReadNext, Leave, panel # "closed",
           NEW i \in SentMsgs, msgs[i].at = "sent", i \in zeroed
    PROVE  NoNews(i)' \/ Marking(i)'
<1>1. /\ UNCHANGED <<msgs, reads, found, lastRead, backed, voided>>
      /\ missed' = missed \cup Dropped
  BY LeaveFrame
<1>2. CASE ~loaded
  BY <1>1, <1>2 DEF Dropped, NoNews
<1>3. CASE loaded
  <2>1. panel = "joined" /\ join = NoJoin
    BY <1>3 DEF ReadTypes, PanelTypes
  <2>2. Reaches(i) /\ ~ToBeListed(i)
    BY <2>1, NoJoinIs DEF PanelInv, EachReaches, ToBeListed
  <2>3. CASE OnWire(i)
    <3>1. PICK k \in 1..Len(panelWire) : Tells(panelWire[k], i)
      BY <2>3 DEF OnWire
    <3>2. panelWire[k].id = i
      BY <1>3, <3>1 DEF PanelInv, OneList, Tells
    <3>3. panelWire[k] \in ToSet(panelWire)
      <4>1. panelWire \in Seq(PanelEvents)
        BY DEF ReadTypes, PanelTypes
      <4> QED
        BY <4>1 DEF ToSet
    <3> QED
      BY <1>1, <1>3, <3>2, <3>3 DEF Dropped, NoNews
  <2> QED
    BY <1>1, <2>2, <2>3 DEF Reaches, Erased, NoNews, Marked, Marking, BeingRead
<1> QED
  BY <1>2, <1>3

LEMMA ZeroKeeps ==
    ASSUME ReadTypes, ReadTypes', PanelInv, FetchHonest, ZeroHonest, ReadNext PROVE ZeroHonest'
<1> SUFFICES ASSUME badge' = 0, NEW i \in SentMsgs', msgs'[i].at = "sent"
             PROVE  \/ NoNews(i)' \/ msgs'[i].mine
                    \/ panel' # "closed" /\ i \in zeroed'
                    \/ panel' = "closed" /\ Marking(i)'
  BY DEF ZeroHonest
<1>1. CASE i \in ToSet(listWire')
  BY <1>1 DEF NoNews
<1>2. CASE SelectRoom
  <2>1. /\ zeroed' = {m \in SentMsgs \ ToSet(listWire) : msgs[m].at = "sent"}
        /\ UNCHANGED <<msgs, listWire>> /\ panel' # "closed"
    BY <1>2 DEF SelectRoom, chatVars
  <2>2. i \in SentMsgs
    BY <2>1 DEF SentMsgs
  <2> QED
    BY <1>1, <2>1, <2>2
<1>3. CASE \E k \in 1..MaxOpens : FetchReply(k)
  <2> PICK k \in 1..MaxOpens : FetchReply(k)
    BY <1>3
  <2>1. /\ fetch[k].at = "reply" /\ fetch[k].count = 0 /\ missed' = missed \cup fetch[k].seen
        /\ UNCHANGED <<msgs, lastRead, backed, voided, listWire>>
    BY DEF FetchReply, chatVars, history
  <2>2. i \in SentMsgs
    BY <2>1 DEF SentMsgs
  <2>3. NoNews(i) \/ i \in fetch[k].seen
    BY <2>1, <2>2 DEF FetchHonest
  <2> QED
    BY <2>1, <2>3 DEF NoNews, Marked
<1>4. CASE /\ ~SelectRoom /\ ~\E k \in 1..MaxOpens : FetchReply(k)
           /\ i \in SentMsgs /\ msgs[i].at = "sent" /\ msgs'[i].mine = msgs[i].mine
  <2>1. badge = 0 /\ (ListUpdated => msgs[Head(listWire)].mine)
    <3>1. badge \in Nat \cup {Unknown} /\ Unknown \notin Nat
      BY ReadAssumption DEF ReadTypes, ListTypes
    <3>2. CASE ListUpdated
      BY <3>1, <3>2 DEF ListUpdated
    <3>3. CASE ~ListUpdated
      <4>1. UNCHANGED badge
        <5>1. CASE ListStep
          BY <1>4, <3>3, <5>1
             DEF ListStep, SidebarOpen, FetchStep, FetchFind, FetchCount, FetchFail, ListBreak
        <5>2. CASE ~ListStep
          BY <5>2, ReadNextIs, CreateFrame, RowStepFrame, AdminFrame, PanelStepFrame, LeaveFrame
             DEF ReadTypes
        <5> QED
          BY <5>1, <5>2
      <4> QED
        BY <3>3, <4>1
    <3> QED
      BY <3>2, <3>3
  <2>2. \/ NoNews(i) \/ msgs[i].mine
        \/ panel # "closed" /\ i \in zeroed
        \/ panel = "closed" /\ Marking(i)
    BY <1>4, <2>1 DEF ZeroHonest
  <2>3. CASE NoNews(i)
    BY <1>4, <2>1, <2>3, NoNewsStays
  <2>4. CASE msgs[i].mine
    BY <1>4, <2>4
  <2>5. CASE panel # "closed" /\ i \in zeroed
    <3>1. CASE Leave
      BY <1>4, <2>5, <3>1, ClosingOwnsUp, LeaveFrame
    <3>2. CASE ~Leave
      <4>1. UNCHANGED zeroed
        <5>1. CASE ListStep
          BY <1>4, <5>1
             DEF ListStep, SidebarOpen, FetchStep, FetchFind, FetchCount, FetchFail, ListUpdated,
                 ListBreak
        <5>2. CASE ~ListStep
          BY <3>2, <5>2, ReadNextIs, CreateFrame, RowStepFrame, AdminFrame, PanelStepFrame
             DEF ReadTypes
        <5> QED
          BY <5>1, <5>2
      <4>2. panel' # "closed"
        BY <2>5, <3>2, ReadNextIs, CreateFrame, RowStepFrame, AdminFrame, PanelStepFrame,
           ListStepFrame
           DEF ReadTypes
      <4> QED
        BY <2>5, <4>1, <4>2
    <3> QED
      BY <3>1, <3>2
  <2>6. CASE panel = "closed" /\ Marking(i)
    <3>1. i \in Nat
      BY <1>4, RowIs DEF ReadTypes
    <3>2. CASE \E m \in SentMsgs : Marks(m)
      <4>1. PICK m \in SentMsgs : Marks(m)
        BY <3>2
      <4>2. panel' = panel
        BY <4>1 DEF Marks, ReadFind, ReadWrite, panelVars
      <4> QED
        BY <2>6, <3>1, <4>1, <4>2, MarkingDone DEF NoNews
    <3>3. CASE ~(\E m \in SentMsgs : Marks(m))
      <4>1. panelWire = <<>> /\ join = NoJoin
        BY <2>6 DEF ReadTypes, PanelTypes
      <4>2. ~PanelStep
        BY <2>6, <3>3, <4>1, NoJoinIs
           DEF PanelStep, PanelJoin, JoinRead, JoinReply, PanelNewMessage, PanelRoomJoined,
               PanelBreak
      <4>3. UNCHANGED <<reads, found>>
        BY <4>2, ReadNextIs, CreateFrame, RowStepFrame, AdminFrame, LeaveFrame, ListStepFrame
           DEF ReadTypes
      <4>4. panel' = "closed"
        <5>1. CASE ListStep
          BY <1>4, <2>6, <5>1
             DEF ListStep, SidebarOpen, FetchStep, FetchFind, FetchCount, FetchFail, ListUpdated,
                 ListBreak,
                 panelVars
        <5>2. CASE ~ListStep
          BY <2>6, <4>2, <5>2, ReadNextIs, CreateFrame, RowStepFrame, AdminFrame, LeaveFrame
             DEF ReadTypes
        <5> QED
          BY <5>1, <5>2
      <4> QED
        BY <2>6, <4>3, <4>4 DEF Marking, BeingRead
    <3> QED
      BY <3>2, <3>3
  <2> QED
    BY <2>2, <2>3, <2>4, <2>5, <2>6
<1> QED
  BY <1>1, <1>2, <1>3, <1>4, SentBefore

-----------------------------------------------------------------------------
(* ReadState: the theorems.                                                *)

ReadInv == ReadTypes /\ PanelInv /\ ListInv

LEMMA ReadInitial == ReadInit => ReadInv
<1> SUFFICES ASSUME ReadInit PROVE ReadInv
  OBVIOUS
<1>1. Len(msgs) = 0 /\ SentMsgs = {} /\ Len(panelWire) = 0
  BY DEF ReadInit, SentMsgs
<1>2. \A k \in 1..Len(panelWire) : FALSE
  BY <1>1
<1>3. /\ panel = "closed" /\ lastRead = 0 /\ badge = Unknown
      /\ fetch = [k \in 1..MaxOpens |-> NoFetch]
      /\ reads = [m \in 1..MaxSent |-> 0] /\ found = [m \in 1..MaxSent |-> 0]
  BY DEF ReadInit
<1>4. PanelInv
  BY <1>2, <1>3 DEF PanelInv, OneList, InStep, EachReaches, MarkedAfterShown, BeingRead
<1>5. ListInv
  BY <1>1, <1>3, NoFetchIs, ReadAssumption DEF ListInv, FetchHonest, ZeroHonest
<1> QED
  BY <1>4, <1>5, ReadTypesInitial DEF ReadInv

LEMMA ReadStep == ReadInv /\ [ReadNext]_readVars => ReadInv'
<1> SUFFICES ASSUME ReadInv, [ReadNext]_readVars PROVE ReadInv'
  OBVIOUS
<1>1. CASE UNCHANGED readVars
  <2>1. /\ UNCHANGED <<msgs, lastRead, reads, found, panel, join, loaded, panelWire, shown,
                       skipped, older>>
        /\ UNCHANGED <<sidebar, badge, fetch, listWire, zeroed, missed, backed, voided>>
    BY <1>1 DEF readVars, chatVars, panelVars, listVars, screen, history
  <2>2. ReadTypes'
    BY <2>1 DEF ReadInv, ReadTypes, ChatTypes, PanelTypes, ListTypes, SentMsgs, NoJoin
  <2>3. PanelInv'
    BY <2>1 DEF ReadInv, PanelInv, OneList, InStep, EachReaches, MarkedAfterShown, Before,
                Reaches, OnWire, ToBeListed, Accounted, Erased, Marked, Marking, BeingRead, Tells,
                SentMsgs, NoJoin
  <2>4. ListInv'
    BY <2>1 DEF ReadInv, ListInv, FetchHonest, ZeroHonest, NoNews, Marked, Marking, BeingRead,
                SentMsgs
  <2> QED
    BY <2>2, <2>3, <2>4 DEF ReadInv
<1>2. CASE ReadNext
  <2>1. ReadTypes /\ PanelInv /\ OneList /\ FetchHonest /\ ZeroHonest
    BY DEF ReadInv, PanelInv, ListInv
  <2>2. ReadTypes'
    BY <1>2, <2>1, ReadNextIs, CreateTyped, RowTyped, AdminTyped, LeaveTyped, ListTyped,
       PanelTyped
  <2>3. PanelInv'
    <3>1. CASE \E m \in SentMsgs : RowStep(m)
      BY <1>2, <2>1, <3>1, AsideKeeps, AnnounceKeeps
    <3>2. CASE PanelStep
      BY <1>2, <2>1, <3>2, MarksKeep, JoinKeeps, ReplyKeeps, EventKeepsPanel, EndingKeeps
         DEF PanelStep
    <3> QED
      BY <1>2, <2>1, <3>1, <3>2, ReadNextIs, AsideKeeps, EndingKeeps
  <2>4. ListInv'
    BY <1>2, <2>1, <2>2, FetchKeeps, ZeroKeeps DEF ListInv
  <2> QED
    BY <2>2, <2>3, <2>4 DEF ReadInv
<1> QED
  BY <1>1, <1>2

LEMMA ReadInvHolds == ReadSpec => []ReadInv
BY ReadInitial, ReadStep, PTL DEF ReadSpec

\* Rows, handlers, panel and list keep their types, and a panel that has loaded its
\* list awaits no other.
THEOREM ReadTypeCorrect == ReadSpec => []ReadTypeOK
<1>1. ReadInv => ReadTypeOK
  BY ReadTypesImply DEF ReadInv
<1> QED
  BY <1>1, ReadInvHolds, PTL

\* Nothing counts as read that the panel has not shown, with the exceptions of
\* ReadWasShown.
THEOREM ReadAfterShown == ReadSpec => []ReadWasShown
<1>1. ReadInv => ReadWasShown
  BY DEF ReadInv, PanelInv, MarkedAfterShown, Accounted, Erased, ReadWasShown, ReadTypes, ChatTypes,
         StoredMsgs, SentMsgs
<1> QED
  BY <1>1, ReadInvHolds, PTL

\* With the panel open and nothing under way, everything is read, unless lastReadAt
\* moved back over it, or the read-message that was to move it found no row and threw.
THEOREM OpenPanelReadsAll == ReadSpec => []ReadToTheEnd
<1>1. ReadInv => ReadToTheEnd
  <2> SUFFICES ASSUME ReadInv, AtRest, panel = "joined", loaded,
                      NEW i \in Unread
               PROVE  i \in backed \cup voided
    BY DEF ReadToTheEnd
  <2>1. i \in SentMsgs /\ ~msgs[i].gone /\ i > lastRead
    BY DEF Unread, StoredMsgs
  <2>2. ~(i <= lastRead) /\ ~Erased(i)
    <3>1. i \in Nat /\ lastRead \in Nat
      BY <2>1, RowIs DEF ReadInv, ReadTypes, ChatTypes
    <3> QED
      BY <2>1, <3>1 DEF Erased
  <2>3. Reaches(i)
    BY <2>1 DEF AtRest, ReadInv, PanelInv, EachReaches
  <2>4. ~OnWire(i)
    <3>1. Len(panelWire) = 0
      BY DEF AtRest
    <3> QED
      BY <3>1 DEF OnWire
  <2>5. ~ToBeListed(i)
    BY NoJoinIs DEF AtRest, ToBeListed
  <2>6. ~Marking(i)
    BY DEF Marking, BeingRead, AtRest, ReadInv, ReadTypes, ChatTypes
  <2> QED
    BY <2>2, <2>3, <2>4, <2>5, <2>6 DEF Reaches, Marked
<1> QED
  BY <1>1, ReadInvHolds, PTL

\* With the panel closed and nothing under way, a message of somebody else that is not
\* read shows in the count, with the exceptions of UnreadNoticed.
THEOREM UnreadShows == ReadSpec => []UnreadNoticed
<1>1. ReadInv => UnreadNoticed
  <2> SUFFICES ASSUME ReadInv, AtRest, panel = "closed", badge # Unknown, ~(badge > 0),
                      NEW i \in Unread
               PROVE  \/ msgs[i].mine \/ msgs[i].deleted
                      \/ i \in missed \cup backed \cup voided
    BY DEF UnreadNoticed
  <2>1. badge = 0 /\ i \in SentMsgs /\ ~msgs[i].gone /\ i > lastRead
    BY ReadAssumption DEF ReadInv, ReadTypes, ListTypes, Unread, StoredMsgs
  <2>2. i \in SentMsgs /\ ~(i <= lastRead) /\ msgs[i].at = "sent"
    <3>1. i \in Nat /\ lastRead \in Nat
      BY <2>1, RowIs DEF ReadInv, ReadTypes, ChatTypes
    <3> QED
      BY <2>1, <3>1 DEF AtRest
  <2>3. NoNews(i) \/ msgs[i].mine \/ Marking(i)
    BY <2>1, <2>2 DEF ReadInv, ListInv, ZeroHonest
  <2>4. ~Marking(i)
    BY DEF Marking, BeingRead, AtRest, ReadInv, ReadTypes, ChatTypes
  <2>5. ToSet(listWire) = {}
    BY NothingIn DEF AtRest
  <2> QED
    BY <2>1, <2>2, <2>3, <2>4, <2>5 DEF NoNews, Marked
<1> QED
  BY <1>1, ReadInvHolds, PTL

-----------------------------------------------------------------------------
(* Typing: what is on its way from a tab.                                  *)

\* Events of a tab on their way, as TypTypeOK has them.
Wires == UNION {[1..n -> BOOLEAN] : n \in 0..MaxWire}

\* What the tab said last, of what is on its way.
LastOf(s) == s[Len(s)]

LEMMA WireIs ==
    ASSUME NEW s \in Wires
    PROVE  s \in Seq(BOOLEAN) /\ Len(s) \in 0..MaxWire
BY TypingAssumption DEF Wires

LEMMA WireMade ==
    ASSUME NEW s \in Seq(BOOLEAN), Len(s) <= MaxWire
    PROVE  s \in Wires
<1>1. Len(s) \in 0..MaxWire /\ s \in [1..Len(s) -> BOOLEAN]
  BY TypingAssumption
<1> QED
  BY <1>1 DEF Wires

LEMMA EmptyWire == <<>> \in Wires
<1>1. <<>> \in Seq(BOOLEAN) /\ Len(<<>>) = 0
  OBVIOUS
<1>2. Len(<<>>) <= MaxWire
  BY <1>1, TypingAssumption
<1> QED
  BY <1>1, <1>2, WireMade

LEMMA WireGrows ==
    ASSUME NEW s \in Wires, NEW on \in BOOLEAN, Len(s) < MaxWire
    PROVE  /\ Append(s, on) \in Wires
           /\ Append(s, on) # <<>>
           /\ LastOf(Append(s, on)) = on
<1>1. s \in Seq(BOOLEAN)
  BY WireIs
<1>2. Append(s, on) \in Seq(BOOLEAN) /\ Len(Append(s, on)) = Len(s) + 1
  BY <1>1
<1>3. Append(s, on) \in Wires
  <2>1. Len(Append(s, on)) <= MaxWire
    BY <1>1, <1>2, TypingAssumption
  <2> QED
    BY <1>2, <2>1, WireMade
<1> QED
  BY <1>1, <1>2, <1>3 DEF LastOf

LEMMA WireShrinks ==
    ASSUME NEW s \in Wires, s # <<>>
    PROVE  /\ Tail(s) \in Wires
           /\ Head(s) \in BOOLEAN
           /\ Tail(s) # <<>> => LastOf(Tail(s)) = LastOf(s)
           /\ Tail(s) = <<>> => LastOf(s) = Head(s)
<1>1. s \in Seq(BOOLEAN) /\ Len(s) <= MaxWire
  BY WireIs, TypingAssumption
<1>2. Tail(s) \in Seq(BOOLEAN) /\ Len(Tail(s)) = Len(s) - 1 /\ Len(s) > 0
  BY <1>1
<1>3. Tail(s) \in Wires
  <2>1. Len(Tail(s)) <= MaxWire
    BY <1>1, <1>2, TypingAssumption
  <2> QED
    BY <1>2, <2>1, WireMade
<1>4. Head(s) \in BOOLEAN
  BY <1>1
<1>5. ASSUME Tail(s) # <<>> PROVE LastOf(Tail(s)) = LastOf(s)
  <2>1. Len(Tail(s)) >= 1
    BY <1>2, <1>5
  <2> QED
    BY <1>1, <1>2, <2>1 DEF LastOf
<1>6. ASSUME Tail(s) = <<>> PROVE LastOf(s) = Head(s)
  <2>1. Len(s) = 1
    BY <1>1, <1>2, <1>6
  <2> QED
    BY <1>1, <2>1 DEF LastOf
<1> QED
  BY <1>3, <1>4, <1>5, <1>6

\* What a tab said last, of what is on its way, is what it does; unless it closed.
SaysSo(t) == events[t] # <<>> => dropped[t] \/ LastOf(events[t]) = isTyping[t]

\* A tab that types is shown, or its start is still on its way, or hushed says why.
Heard(t) ==
    isTyping[t] => \/ hushed[t]
                   \/ events[t] = <<>> /\ visible
                   \/ events[t] # <<>> /\ LastOf(events[t]) = TRUE

\* A tab that accounts for a name that is shown: it types, its end is on its way, or
\* was lost.
Accounts(t) == isTyping[t] \/ dropped[t] \/ (events[t] # <<>> /\ LastOf(events[t]) = FALSE)

TypInv ==
    /\ TypTypeOK
    /\ \A t \in Tabs : SaysSo(t) /\ Heard(t)
    /\ visible => \E t \in Tabs : Accounts(t)

\* The types without the tie between flag and timer.
LEMMA TypTypes ==
    TypTypeOK <=>
        /\ isTyping \in [Tabs -> BOOLEAN] /\ input \in [Tabs -> BOOLEAN]
        /\ hushed \in [Tabs -> BOOLEAN] /\ dropped \in [Tabs -> BOOLEAN]
        /\ debounce \in [Tabs -> 0..Debounce \cup {Off}]
        /\ \A t \in Tabs : isTyping[t] <=> debounce[t] # Off
        /\ events \in [Tabs -> Wires]
        /\ visible \in BOOLEAN /\ expiry \in 0..ShowFor \cup {Off}
BY DEF TypTypeOK, Wires
LEMMA TypInitial == TypInit => TypInv
<1> SUFFICES ASSUME TypInit PROVE TypInv
  OBVIOUS
<1>1. \A t \in Tabs : ~isTyping[t] /\ debounce[t] = Off /\ events[t] = <<>>
  BY DEF TypInit
<1>2. TypTypeOK
  <2>1. events \in [Tabs -> Wires]
    BY EmptyWire DEF TypInit
  <2>2. \A t \in Tabs : isTyping[t] <=> debounce[t] # Off
    BY <1>1
  <2>3. /\ isTyping \in [Tabs -> BOOLEAN] /\ input \in [Tabs -> BOOLEAN]
        /\ hushed \in [Tabs -> BOOLEAN] /\ dropped \in [Tabs -> BOOLEAN]
        /\ visible \in BOOLEAN
    BY Zenon DEF TypInit
  <2>4. debounce \in [Tabs -> 0..Debounce \cup {Off}] /\ expiry \in 0..ShowFor \cup {Off}
    BY DEF TypInit
  <2> QED
    BY <2>1, <2>2, <2>3, <2>4, TypTypes
<1>3. ~visible
  BY DEF TypInit
<1> QED
  BY <1>1, <1>2, <1>3 DEF TypInv, SaysSo, Heard

\* A step of one tab that shows and hides nothing: the others account as before.
LEMMA OneTabMoves ==
    ASSUME TypInv, TypTypeOK', NEW t \in Tabs, UNCHANGED visible,
           \A s \in Tabs \ {t} : /\ isTyping'[s] = isTyping[s]
                                 /\ events'[s] = events[s]
                                 /\ hushed'[s] = hushed[s]
                                 /\ dropped'[s] = dropped[s],
           SaysSo(t)', Heard(t)', Accounts(t) => Accounts(t)'
    PROVE  TypInv'
<1>1. \A s \in Tabs : SaysSo(s)' /\ Heard(s)'
  BY DEF TypInv, SaysSo, Heard
<1>2. \A s \in Tabs : Accounts(s) => Accounts(s)'
  BY DEF Accounts
<1> QED
  BY <1>1, <1>2 DEF TypInv

LEMMA EmitKeeps ==
    ASSUME TypInv, NEW t \in Tabs, NEW on \in BOOLEAN, Emit(t, on)
    PROVE  /\ events' \in [Tabs -> Wires] /\ dropped' \in [Tabs -> BOOLEAN]
           /\ events'[t] # <<>> /\ LastOf(events'[t]) = on /\ dropped'[t] = FALSE
           /\ \A s \in Tabs \ {t} : events'[s] = events[s] /\ dropped'[s] = dropped[s]
<1>1. events \in [Tabs -> Wires] /\ dropped \in [Tabs -> BOOLEAN]
  BY TypTypes DEF TypInv
<1>2. PICK w : w = Append(events[t], on)
  OBVIOUS
<1>3. w \in Wires /\ w # <<>> /\ LastOf(w) = on
  BY <1>1, <1>2, WireGrows DEF Emit
<1>4. events' = [events EXCEPT ![t] = w] /\ dropped' = [dropped EXCEPT ![t] = FALSE]
  BY <1>2 DEF Emit
<1>5. dropped' \in [Tabs -> BOOLEAN]
  BY <1>1, <1>4, Zenon
<1> QED
  BY <1>1, <1>3, <1>4, <1>5

\* The types after a step of one tab.
LEMMA TabTyped ==
    ASSUME TypInv, NEW t \in Tabs, NEW b \in BOOLEAN, NEW d \in 0..Debounce \cup {Off},
           b <=> d # Off,
           isTyping' = [isTyping EXCEPT ![t] = b],
           debounce' = [debounce EXCEPT ![t] = d],
           input' \in [Tabs -> BOOLEAN],
           events' \in [Tabs -> Wires],
           hushed' \in [Tabs -> BOOLEAN], dropped' \in [Tabs -> BOOLEAN],
           UNCHANGED <<visible, expiry>>
    PROVE  TypTypeOK'
<1>1. /\ isTyping \in [Tabs -> BOOLEAN]
      /\ debounce \in [Tabs -> 0..Debounce \cup {Off}]
      /\ \A s \in Tabs : isTyping[s] <=> debounce[s] # Off
      /\ visible \in BOOLEAN /\ expiry \in 0..ShowFor \cup {Off}
  BY TypTypes DEF TypInv
<1>2. isTyping' \in [Tabs -> BOOLEAN]
  BY <1>1, Zenon
<1>3. debounce' \in [Tabs -> 0..Debounce \cup {Off}]
  BY <1>1
<1>4. ASSUME NEW s \in Tabs PROVE isTyping'[s] <=> debounce'[s] # Off
  BY <1>1
<1>5. visible' \in BOOLEAN /\ expiry' \in 0..ShowFor \cup {Off}
  BY <1>1
<1> QED
  BY <1>2, <1>3, <1>4, <1>5, Zenon DEF TypTypeOK, Wires

LEMMA TabTypes ==
    ASSUME TypInv
    PROVE  /\ isTyping \in [Tabs -> BOOLEAN] /\ input \in [Tabs -> BOOLEAN]
           /\ hushed \in [Tabs -> BOOLEAN] /\ dropped \in [Tabs -> BOOLEAN]
           /\ debounce \in [Tabs -> 0..Debounce \cup {Off}]
           /\ events \in [Tabs -> Wires]
BY TypTypes DEF TypInv

LEMMA InputKeeps ==
    ASSUME TypInv, NEW t \in Tabs, InputChange(t)
    PROVE  TypInv'
<1>1. /\ isTyping' = [isTyping EXCEPT ![t] = TRUE]
      /\ debounce' = [debounce EXCEPT ![t] = Debounce]
      /\ UNCHANGED <<visible, expiry>>
  BY DEF InputChange
<1>2. input' \in [Tabs -> BOOLEAN]
  <2>1. PICK text \in BOOLEAN : input' = [input EXCEPT ![t] = text]
    BY DEF InputChange
  <2> QED
    BY <2>1, TabTypes, Zenon
<1>3. Debounce \in 0..Debounce \cup {Off} /\ Debounce # Off
  BY TypingAssumption
<1>4. isTyping'[t] = TRUE /\ \A s \in Tabs \ {t} : isTyping'[s] = isTyping[s]
  BY <1>1, TabTypes
<1>5. CASE isTyping[t]
  <2>1. UNCHANGED <<events, hushed, dropped>>
    BY <1>5 DEF InputChange
  <2>2. TypTypeOK'
    BY <1>1, <1>2, <1>3, <2>1, TabTypes, TabTyped
  <2>3. SaysSo(t)' /\ Heard(t)' /\ Accounts(t)'
    BY <1>1, <1>4, <1>5, <2>1, TabTypes DEF TypInv, SaysSo, Heard, Accounts
  <2> QED
    BY <1>1, <1>4, <2>1, <2>2, <2>3, OneTabMoves
<1>6. CASE ~isTyping[t]
  <2>1. Emit(t, TRUE) /\ hushed' = [hushed EXCEPT ![t] = FALSE]
    BY <1>6 DEF InputChange
  <2>2. hushed' \in [Tabs -> BOOLEAN] /\ \A s \in Tabs \ {t} : hushed'[s] = hushed[s]
    BY <2>1, TabTypes, Zenon
  <2>3. TypTypeOK'
    BY <1>1, <1>2, <1>3, <2>1, <2>2, EmitKeeps, TabTyped
  <2>4. SaysSo(t)' /\ Heard(t)' /\ Accounts(t)'
    BY <1>4, <2>1, EmitKeeps DEF SaysSo, Heard, Accounts
  <2> QED
    BY <1>1, <1>4, <2>1, <2>2, <2>3, <2>4, EmitKeeps, OneTabMoves
<1> QED
  BY <1>5, <1>6

\* The end is announced, by the timer or by a message.
LEMMA EndOfTypingKeeps ==
    ASSUME TypInv, NEW t \in Tabs, DebounceFires(t) \/ Send(t)
    PROVE  TypInv'
<1>1. /\ isTyping' = [isTyping EXCEPT ![t] = FALSE]
      /\ debounce' = [debounce EXCEPT ![t] = Off]
      /\ Emit(t, FALSE)
      /\ UNCHANGED <<visible, expiry, hushed>>
  BY DEF DebounceFires, Send
<1>2. input' \in [Tabs -> BOOLEAN]
  <2>1. input' = input \/ input' = [input EXCEPT ![t] = FALSE]
    BY DEF DebounceFires, Send
  <2> QED
    BY <2>1, TabTypes, Zenon
<1>3. isTyping'[t] = FALSE /\ \A s \in Tabs \ {t} : isTyping'[s] = isTyping[s]
  BY <1>1, TabTypes
<1>4. TypTypeOK'
  BY <1>1, <1>2, EmitKeeps, TabTypes, TabTyped
<1>5. SaysSo(t)' /\ Heard(t)' /\ Accounts(t)'
  BY <1>1, <1>3, EmitKeeps DEF SaysSo, Heard, Accounts
<1> QED
  BY <1>1, <1>3, <1>4, <1>5, EmitKeeps, OneTabMoves

LEMMA CloseKeeps ==
    ASSUME TypInv, NEW t \in Tabs, CloseTab(t)
    PROVE  TypInv'
<1>1. /\ isTyping' = [isTyping EXCEPT ![t] = FALSE]
      /\ debounce' = [debounce EXCEPT ![t] = Off]
      /\ input' = [input EXCEPT ![t] = FALSE]
      /\ events' = [events EXCEPT ![t] = <<>>] \/ events' = events
      /\ UNCHANGED <<visible, expiry, hushed>>
  BY DEF CloseTab
<1>3. /\ dropped' \in [Tabs -> BOOLEAN]
      /\ (dropped'[t] <=> dropped[t] \/ isTyping[t] \/ events[t] # <<>>)
      /\ \A s \in Tabs \ {t} : dropped'[s] = dropped[s]
  BY TabTypes DEF CloseTab
<1>4. isTyping'[t] = FALSE /\ \A s \in Tabs \ {t} : isTyping'[s] = isTyping[s]
  BY <1>1, TabTypes
<1>5. /\ events' \in [Tabs -> Wires]
      /\ events'[t] = <<>> \/ events'[t] = events[t]
      /\ \A s \in Tabs \ {t} : events'[s] = events[s]
  BY <1>1, TabTypes, EmptyWire
<1>6. input' \in [Tabs -> BOOLEAN]
  BY <1>1, TabTypes, Zenon
<1>7. TypTypeOK'
  BY <1>1, <1>3, <1>5, <1>6, TabTypes, TabTyped
<1>8. SaysSo(t)' /\ Heard(t)'
  BY <1>3, <1>4, <1>5 DEF SaysSo, Heard
<1>9. Accounts(t) => Accounts(t)'
  BY <1>3 DEF Accounts
<1> QED
  BY <1>1, <1>3, <1>4, <1>5, <1>7, <1>8, <1>9, OneTabMoves

LEMMA BreakKeeps ==
    ASSUME TypInv, NEW t \in Tabs, BreakTab(t)
    PROVE  TypInv'
<1>1. /\ events' = [events EXCEPT ![t] = <<>>]
      /\ hushed' = [hushed EXCEPT ![t] = TRUE]
      /\ dropped' = [dropped EXCEPT ![t] = TRUE]
      /\ UNCHANGED <<isTyping, debounce, input, visible, expiry>>
  BY DEF BreakTab
<1>2. /\ hushed' \in [Tabs -> BOOLEAN] /\ hushed'[t] = TRUE
      /\ dropped' \in [Tabs -> BOOLEAN] /\ dropped'[t] = TRUE
      /\ \A s \in Tabs \ {t} : hushed'[s] = hushed[s] /\ dropped'[s] = dropped[s]
  BY <1>1, TabTypes, Zenon
<1>3. /\ events' \in [Tabs -> Wires] /\ events'[t] = <<>>
      /\ \A s \in Tabs \ {t} : events'[s] = events[s]
  BY <1>1, TabTypes, EmptyWire
<1>4. TypTypeOK'
  BY <1>1, <1>2, <1>3, TabTypes, TypTypes, Zenon DEF TypInv, TypTypeOK, Wires
<1>5. SaysSo(t)' /\ Heard(t)' /\ Accounts(t)'
  BY <1>2, <1>3 DEF SaysSo, Heard, Accounts
<1> QED
  BY <1>1, <1>2, <1>3, <1>4, <1>5, OneTabMoves

\* The next event of t reaches the panel.
LEMMA EventKeeps ==
    ASSUME TypInv, NEW t \in Tabs, UserTyping(t)
    PROVE  TypInv'
<1>1. PICK s, on : s = events[t] /\ on = Head(events[t])
  OBVIOUS
<1>2. /\ s # <<>>
      /\ events' = [events EXCEPT ![t] = Tail(s)]
      /\ visible' = on
      /\ expiry' = IF on THEN ShowFor ELSE Off
      /\ hushed' = IF on THEN hushed ELSE [r \in Tabs |-> hushed[r] \/ r # t]
      /\ UNCHANGED <<isTyping, debounce, input, dropped>>
  BY <1>1 DEF UserTyping
<1>3. s \in Wires
  BY <1>1, TabTypes
<1>4. /\ Tail(s) \in Wires /\ on \in BOOLEAN
      /\ Tail(s) # <<>> => LastOf(Tail(s)) = LastOf(s)
      /\ Tail(s) = <<>> => LastOf(s) = on
  BY <1>1, <1>2, <1>3, WireShrinks
<1>5. /\ events' \in [Tabs -> Wires] /\ events'[t] = Tail(s)
      /\ \A r \in Tabs \ {t} : events'[r] = events[r]
  BY <1>2, <1>4, TabTypes
<1>6. hushed' \in [Tabs -> BOOLEAN]
  BY <1>2, TabTypes, Zenon
<1>7. /\ hushed'[t] <=> hushed[t]
      /\ on => \A r \in Tabs : hushed'[r] = hushed[r]
      /\ ~on => \A r \in Tabs \ {t} : hushed'[r]
  BY <1>2, TabTypes
<1>8. TypTypeOK'
  <2>1. expiry' \in 0..ShowFor \cup {Off}
    BY <1>2, TypingAssumption
  <2>2. visible' \in BOOLEAN
    BY <1>2, <1>4
  <2> QED
    BY <1>2, <1>5, <1>6, <2>1, <2>2, TabTypes, TypTypes, Zenon DEF TypInv, TypTypeOK, Wires
<1>9. ASSUME NEW r \in Tabs PROVE SaysSo(r)'
  <2>1. CASE r = t
    BY <1>1, <1>2, <1>4, <1>5, <2>1 DEF TypInv, SaysSo
  <2>2. CASE r # t
    BY <1>2, <1>5, <2>2 DEF TypInv, SaysSo
  <2> QED
    BY <2>1, <2>2
<1>10. ASSUME NEW r \in Tabs PROVE Heard(r)'
  <2>1. CASE r = t
    <3>1. isTyping[t] => hushed[t] \/ LastOf(s) = TRUE
      BY <1>1, <1>2 DEF TypInv, Heard
    <3>2. Tail(s) = <<>> /\ LastOf(s) = TRUE => visible'
      BY <1>2, <1>4
    <3> QED
      BY <1>2, <1>4, <1>5, <1>7, <2>1, <3>1, <3>2 DEF Heard
  <2>2. CASE r # t /\ on
    <3>1. visible' /\ hushed'[r] = hushed[r] /\ events'[r] = events[r]
      BY <1>2, <1>5, <1>7, <2>2
    <3> QED
      BY <1>2, <3>1 DEF TypInv, Heard
  <2>3. CASE r # t /\ ~on
    BY <1>7, <2>3 DEF Heard
  <2> QED
    BY <2>1, <2>2, <2>3
<1>11. visible' => Accounts(t)'
  <2> SUFFICES ASSUME on = TRUE PROVE Accounts(t)'
    BY <1>2, <1>4
  <2>1. dropped[t] \/ LastOf(s) = isTyping[t]
    BY <1>1, <1>2 DEF TypInv, SaysSo
  <2>2. isTyping[t] \in BOOLEAN
    BY TabTypes
  <2>3. CASE Tail(s) = <<>>
    BY <1>2, <1>4, <2>1, <2>3 DEF Accounts
  <2>4. CASE Tail(s) # <<>>
    <3>1. isTyping[t] = FALSE => dropped[t] \/ LastOf(Tail(s)) = FALSE
      BY <1>4, <2>1, <2>4
    <3> QED
      BY <1>2, <1>5, <2>2, <2>4, <3>1 DEF Accounts
  <2> QED
    BY <2>3, <2>4
<1> QED
  BY <1>8, <1>9, <1>10, <1>11 DEF TypInv

\* The name is taken away: nobody has to account for it.
LEMMA HideKeeps ==
    ASSUME TypInv, ExpiryFires \/ ReopenPanel
    PROVE  TypInv'
<1>1. /\ visible' = FALSE /\ expiry' = Off
      /\ hushed' = [t \in Tabs |-> TRUE]
      /\ UNCHANGED <<isTyping, debounce, input>>
  BY DEF ExpiryFires, ReopenPanel
<1>2. /\ events' \in [Tabs -> Wires]
      /\ \A t \in Tabs : events'[t] = events[t] \/ events'[t] = <<>>
  BY TabTypes, EmptyWire DEF ExpiryFires, ReopenPanel
<1>3. /\ dropped' \in [Tabs -> BOOLEAN]
      /\ \A t \in Tabs : events'[t] # <<>> => dropped'[t] = dropped[t]
  <2>1. CASE UNCHANGED dropped
    BY <2>1, TabTypes
  <2>2. CASE dropped' = [t \in Tabs |-> dropped[t] \/ events'[t] # events[t]]
    <3>1. dropped' \in [Tabs -> BOOLEAN]
      BY <2>2, Zenon
    <3>2. ASSUME NEW t \in Tabs, events'[t] # <<>> PROVE dropped'[t] = dropped[t]
      BY <1>2, <2>2, <3>2, TabTypes
    <3> QED
      BY <3>1, <3>2
  <2> QED
    BY <2>1, <2>2 DEF ExpiryFires, ReopenPanel
<1>4. hushed' \in [Tabs -> BOOLEAN] /\ \A t \in Tabs : hushed'[t]
  BY <1>1, Zenon
<1>5. TypTypeOK'
  <2>1. visible' \in BOOLEAN /\ expiry' \in 0..ShowFor \cup {Off}
    BY <1>1
  <2> QED
    BY <1>1, <1>2, <1>3, <1>4, <2>1, TabTypes, TypTypes, Zenon DEF TypInv, TypTypeOK, Wires
<1>6. ASSUME NEW t \in Tabs PROVE SaysSo(t)' /\ Heard(t)'
  <2>1. Heard(t)'
    BY <1>4 DEF Heard
  <2>2. SaysSo(t)'
    BY <1>1, <1>2, <1>3 DEF TypInv, SaysSo
  <2> QED
    BY <2>1, <2>2
<1> QED
  BY <1>1, <1>5, <1>6 DEF TypInv

LEMMA TickKeeps ==
    ASSUME TypInv, Tick
    PROVE  TypInv'
<1>1. /\ expiry # 0 /\ \A t \in Tabs : debounce[t] # 0
      /\ expiry' = Left(expiry)
      /\ debounce' = [t \in Tabs |-> Left(debounce[t])]
      /\ UNCHANGED <<isTyping, input, events, visible, hushed, dropped>>
  BY DEF Tick
<1>2. ASSUME NEW n \in Nat, NEW d \in 0..n \cup {Off}, d # 0
      PROVE  Left(d) \in 0..n \cup {Off} /\ (Left(d) # Off <=> d # Off)
  BY <1>2, TypingAssumption DEF Left
<1>3. expiry' \in 0..ShowFor \cup {Off}
  BY <1>1, <1>2, TypTypes, TypingAssumption DEF TypInv
<1>4. /\ debounce' \in [Tabs -> 0..Debounce \cup {Off}]
      /\ \A t \in Tabs : debounce'[t] # Off <=> debounce[t] # Off
  BY <1>1, <1>2, TabTypes, TypingAssumption
<1>5. TypTypeOK'
  BY <1>1, <1>3, <1>4, TabTypes, TypTypes, Zenon DEF TypInv, TypTypeOK, Wires
<1> QED
  BY <1>1, <1>5 DEF TypInv, SaysSo, Heard, Accounts

LEMMA TypStep == TypInv /\ [TypNext]_typVars => TypInv'
<1> SUFFICES ASSUME TypInv, [TypNext]_typVars PROVE TypInv'
  OBVIOUS
<1>1. CASE UNCHANGED typVars
  BY <1>1 DEF typVars, TypInv, TypTypeOK, SaysSo, Heard, Accounts
<1>2. CASE TypNext
  BY <1>2, InputKeeps, EndOfTypingKeeps, CloseKeeps, BreakKeeps, EventKeeps, HideKeeps, TickKeeps
     DEF TypNext
<1> QED
  BY <1>1, <1>2

\* Flags, timers and events keep their types: a tab that types has a timer running.
THEOREM TypTypeCorrect == TypSpec => []TypTypeOK
<1>1. TypInv => TypTypeOK
  BY DEF TypInv
<1> QED
  BY TypInitial, TypStep, <1>1, PTL DEF TypSpec

\* A user who types in some tab is shown once the events are through, unless hushed
\* says why not, an event that was lost with the tab's connection included: until then
\* what the tab said last is on its way (Heard).
THEOREM WhoTypesIsShown == TypSpec => []TypistShown
<1>1. TypInv => TypistShown
  BY DEF TypInv, Heard, Quiet, TypistShown
<1> QED
  BY TypInitial, TypStep, <1>1, PTL DEF TypSpec

\* A name on the screen is never left without a tab that types or was lost: somebody's
\* end is still on its way (Accounts), and takes the name away.
THEOREM WhoIsShownTypes == TypSpec => []NoGhostTypist
<1>1. TypInv => NoGhostTypist
  BY DEF TypInv, Accounts, Quiet, NoGhostTypist
<1> QED
  BY TypInitial, TypStep, <1>1, PTL DEF TypSpec

================================================================================
