# A verification model of Talkertive

Talkertive is a meetup and chat application: users open GROUP rooms (meetups with a limit, a
date, a cover), invite each other, chat over WebSockets, talk one to one in DIRECT rooms and
plan schedules, partly by a command in natural language. This directory models its own logic in
TLA+, checks it with TLC on small instances, and proves the central theorems with TLAPS.

`PROJECT.json` maps every definition to the lines it models and lists the runs, the mutants that
show each property can fail, the hazards of the code, the findings and the theorems.

## 1. The system

One NestJS process (`backend/ecosystem.config.js` starts a single instance), a PostgreSQL
database through Prisma, a Redis cache, S3 behind CloudFront for images, socket.io rooms in the
memory of the process, and a Next.js frontend.

What matters for the models:

* **A handler is a chain of awaits.** Node runs any other handler between two of them. Each
  Prisma call is a transaction of its own; only `$transaction([...])` groups several
  (`transferOwner`, `deleteUser`). No handler takes a lock or re-checks what it read.
* **The database keeps its keys.** Unique keys, foreign keys and `ON DELETE CASCADE` of
  `schema.prisma` hold whatever the handlers do; an update of a missing row throws.
* **A token outlives its user.** `validate()` does not look the user up.
* **No queue, no retry, no timeout** in the backend: a call answers or throws, and a handler that
  throws stops where it is, keeping what earlier calls have written.

### Inventory

| Component (source) | State | Operations | Hard behaviour | Correct when |
|---|---|---|---|---|
| Room membership (`room-members.service.ts`, GROUP part of `rooms.service.ts`, `admin.service.ts`) | `User`, `Room`, `RoomMember` rows (role, `leftAt`), `memberLimit` | create, update, delete room; invite, rejoin, remove, leave; transfer; admin deletes | three to five awaits per request with checks first and writes last | limit kept, one present OWNER, no row without its room and user |
| Chat (`chat.gateway.ts`, `chat.service.ts`, `ChatPanel.tsx`) | `Message` rows, socket rooms, events under way, the list on each screen | connect, join-room, send, edit, delete, read, typing | writes and broadcasts in different orders, joins against broadcasts, broken connections | every list at rest shows the table; a deleted message is final |
| Cache (`rooms.service.ts`, `banner.service.ts`, Redis) | `rooms:group:<id>`, list keys, `banner:all` | get, query, set; del; TTL | a set may follow a later del; some writers do not invalidate | staleness explained and not for good |
| Direct rooms (`rooms.service.ts`) | DIRECT `Room`, two `RoomMember` rows | find or create, delete, leave, account deletion | check then create; leftovers of deleted accounts | one room per pair, reachable by both |
| Media (`media.service.ts` and the deletes) | S3 objects, URL columns | replace an image, delete a row with its images | two stores, no transaction | a column names an object that exists; no object without a column |
| Schedules (`schedules.service.ts`) | `RoomSchedule` rows | create, update, delete, AI command | seconds between the read of the list and the write | the schedule changed is the one that was meant and still there |
| Sidebar (`useMyRooms.ts`, `ChatSidebar.tsx`, `useChatSocket.ts`) | unread counts, `lastReadAt` | room-list-updated, markAsRead | counts kept on both sides | a count returns to zero when everything is read |
| Typing (`chat.gateway.ts`, `ChatPanel.tsx`) | timers on both sides | typing, user-typing | timers against events | nobody types for ever |
| Calendar (`RoomScheduleCalendar.tsx`, `schedule-actions.ts`) | the list, the popup of a day, server actions waiting | open, click, add, edit, delete | handlers hold the list of when they were started | calendar and popup show the schedules there are |
| Login, sign-up (`auth.ts`, `auth-actions.ts`) | attempts per address, `User.email` | authorize, signUp | fixed window, check then insert | blocked when it should be and only then; one account per email |
| Room forms (`GroupRoomCreator.tsx`, `GroupRoomEditor.tsx`) | the fields on the screen, requests under way | create with two uploads; save | three requests and no transaction; forms older than the row | one room per page; an edit stays until the next |
| Users, banners' listing, admin statistics, guards, health, metrics, logging | rows only, or none | reads and single updates | none | not modelled |
| The other pages, generated clients, UI kit, deployment | | | | not modelled |

Interactions: all services share the tables; membership decides what chat accepts; room deletion
runs through media, tables and cache in that order; the gateway's broadcasts and `room-joined`
meet in the panel; the frontend answers a 409 of `createDirectRoom` by looking the room up.

## 2. Modules

| Module | Models | Used by |
|---|---|---|
| `RoomMembership` | GROUP rooms, members, owners, limits; one action per awaited call; the refinement mapping to `RoomPolicy` | `MCRoomMembership`, `RoomMembershipProofs` |
| `RoomPolicy` | what membership promises, one step per operation (abstract) | `RoomMembership` |
| `ChatRoom` | one chat room: handlers, table, wire, panel | `MCChatRoom`, `ChatRoomProofs` |
| `RoomCache` | cache-aside reads, invalidating and silent writers, TTL | run, `RoomCacheProofs` |
| `DirectRooms` | DIRECT rooms of pairs | `MCDirectRooms`, `DirectRoomsProofs` |
| `MediaStore` | S3 objects against the URL columns of a row | `MCMediaStore`, `MediaStoreProofs` |
| `ReadState` | one user and one room: `lastReadAt`, the unread count, panel and sidebar | `MCParts`, `PanelProofs` |
| `Schedules` | schedules of one room, plain requests and AI commands | `MCParts`, `SchedulesProofs` |
| `ScheduleCalendar` | the owner's calendar | `MCParts`, `SchedulesProofs` |
| `Typing` | the typing indicator, both timers | `MCParts`, `PanelProofs` |
| `SignIn` | limiter, sign-in and sign-up | `MCParts`, `PartsProofs` |
| `RoomCreator`, `RoomEditor` | the forms of GROUP rooms | `MCParts`, `PartsProofs` |
| `MCRoomMembership`, `MCChatRoom`, `MCDirectRooms`, `MCMediaStore` | instances and symmetry | runs |
| `MCParts` | one instance of the seven from `ReadState` to `RoomEditor` | run, `PartsProofs` |
| `RoomMembershipProofs`, `ChatRoomProofs`, `RoomCacheProofs`, `DirectRoomsProofs`, `MediaStoreProofs` | TLAPS proofs about the module of that name | |
| `PanelProofs` | TLAPS proofs about `ReadState` and `Typing` | `PartsProofs` |
| `SchedulesProofs` | TLAPS proofs about `Schedules` and `ScheduleCalendar` | `PartsProofs` |
| `PartsProofs` | TLAPS proofs about `RoomCreator`, `RoomEditor`, `SignIn`, and `MCParts` as a whole | |

**The common form.** A handler lives in a slot (`Reqs`, `Jobs`): a record with the name of the
await it makes next and what it has read. Each action is the database call that the slot waits
for, with the code up to the next call. Arrival and first call are one action, and it is taken
only if that call lets the handler go on: a request refused at once changes nothing. A handler
that throws frees its slot. Variables commented `history` appear in no guard.

### RoomMembership

`members[r][u]` is the row with unique key (r, u): `none`, `active` (`leftAt` null) or `left`,
and its role, which survives leaving and rejoining as in the code. `InviteAssertOwner`,
`InviteFindUser`, `InviteCheckLimit`, `InviteFindExisting` and `InviteRejoin` / `InviteCreate`
are the awaits of `inviteMember` in order; `Remove*`, `Transfer*`, `Update*`, `Delete*` those of
the others. `TransferOwner` is one step because of its `$transaction`, and does not look at
`leftAt` again, as the code does not. `updateGroupRoom` and `deleteGroupRoom` look at the role
only; `deleteDirectRoom`, given a GROUP room, deletes it for any member, even one who left, which is a step of
`AdminDeleteRoom`. Ids are never issued twice. An update that leaves `memberLimit` out is the one that writes
the value it has.

### ChatRoom

`table` is the `Message` rows; a text is the number of edits written, so that an older text can be
told from a newer one. `wire[u]` is the FIFO of one socket; `view[u]` is `messages` of `ChatPanel`.
`JoinRead` and `JoinReply` are separate, since broadcasts run between the query and the reply.
`Edited` drops the attachments, which `editMessage` does not include and `ChatPanel` then loses.
`Watchers` are the users whose socket and panel are modelled; panels do not act on one another.
Rows stay: that `AdminService.deleteUser` deletes an account's messages, unannounced, so that open panels go
on showing them, is not modelled here.
Three history variables name the situations in which the code does go wrong, and the properties
are stated outside of them: `contended` (announcements of one message crossed, or a message was
announced while a join's list was on its way, or written before it and announced after),
`crossed` (written while another message was not announced yet), `oldest` (where the list starts).

### RoomCache

Contents are version numbers: each write makes a new one, 0 is a deleted room. `excused` holds
the keys whose entry may be stale because the query was overtaken by a write and its del, because
a writer that does not invalidate wrote (cover, profile, transfer, admin deletes, `deleteDirectRoom`
given a GROUP room, banner uploads),
or because a del failed. That a list also changes as dates pass is not modelled.

### DirectRooms

`Candidates` is Prisma's `members: { every: ... }`, which also holds of rooms that lost a row.
`findFirst` has no order, so any candidate may be returned. A 409 makes the frontend search the
user's rooms, which changes nothing.

### MediaStore

One row; `table` says of which table it is, and so which `Columns` it has: a room's two, a user's, or a
banner's, which is created with its image. `UploadAssertOwner`, `UploadFind`, `UploadDeleteOld`,
`UploadPut` and `UploadUpdate` are the awaits of a room's upload. A user's and a banner's have no owner
check and begin with `UploadFindFirst`; a user's checks nothing at all, so it also runs for an account that
is gone. A row leaves with its images (`DeleteFind`, `DeleteImages`, `DeleteRow`), or without them:
`deleteDirectRoom` asks only whether the caller has a member row, and takes a GROUP room too
(`DirectDeleteFind`, `DirectDeleteRow`). `Fail` lets any call fail, with S3 deletes done in part and a put
done but not answered.

`updateGroupRoom` writes any string into a room's columns: a URL of another domain, or one of an object that
a column of the room names (`planted`, once; the frontend never sends the fields). Objects are let go of only by
steps that say so in `lost`: an update or a delete over a column that was written `since` the handler read
it, `UploadUpdate` without a row, `DirectDeleteRow`, `UpdateColumn` and `Fail`. An overlap by itself, or an
earlier failure, excuses nothing.

Not modelled: the put and insert of `uploadBanner`, attachments of messages, and rows that share an
object: a URL of another row's object counts as one of another domain, and one that no column
names any more is not written.

### ReadState

A message is its place in the order of `createdAt`, `lastRead` the message whose `createdAt` is
`lastReadAt`. A handler of `send-message` has created its row, announces it (`SendAnnounce`) and
notifies the lists (`SendNotify`); panel and sidebar have a socket each, hence a queue each.
`read-message` is two awaits: `ReadFind` looks for the row (`reads[m]` handlers have that before them) and
`ReadWrite` writes its `createdAt` (`found[m]`). `AdminDeleteUser` takes the rows of another member's
messages away (`gone`); `ReadFind` of such a row throws, and `lastReadAt` stays where it is. `findMyRooms`
is two awaits, and `fetchRooms` replaces the list a third step later; each opening of the sidebar starts a
fetch of its own (`fetch[k]`), so that several may overlap. History variables name the messages for
which a promise does not hold: `backed` (an overtaken `read-message` moved `lastReadAt` back over
them), `voided` (a `read-message` for them, or for a later one, threw), `skipped` (a later message was announced, or came, first), `older` (beyond the list of a
join), `missed` (the event was lost or overwritten by an older count, or the panel that cleared the
count never marked them). Not modelled: several rooms, the fetch after a DIRECT room is made,
which is one more `FetchFind`, and the end of the user's own membership or account, or of the room, after
which there is nothing to be read.

### Schedules and ScheduleCalendar

`rows[i]` is the schedule with the i-th id. A slot of `Plain` runs a plain request, one of `Commands`
an AI command: owner check, list, seconds of waiting, write. Claude's answer is any the code
accepts, whatever was asked; `NoDate` is a date that does not parse, which is refused when it is to
be written and compares as NaN when it is to be matched. `FindMatch` is `findMatchingSchedule`, and
`Closest` its `reduce`, a function over the positions of the list.
`touched[j]` are the rows handler j has seen that others have written since.

`ScheduleCalendar` takes the requests as single steps and models the screen. A handler is a closure
(`base`, `shown`): it applies its effect to the list it was started with. Next.js runs server actions
one at a time, in order, which `queue` is. `stale`, `misread` and `switched` name when the screen may
be wrong: calls overlapped or somebody else wrote, an answer was lost, the day of the popup was
changed while a call was under way. The form of a schedule is opened and submitted in one step.

### Typing

`Tabs` are the sockets of one user. A timer is the time it has left; it fires before the next `Tick`,
and events take any time. Panels know users and not tabs, so the end of one tab hides the other
(`hushed`, which an event lost with its connection sets too), and a tab that closes while typing announces
nothing (`dropped`).

### SignIn

One address and one email; a person is who knows a password. The limiter is synchronous, the rest
awaits. Times are relative, so the clock has no bound: `left` is the time to `resetAt`, and `passed[t]`
counts the attempts let through at most t ago, since the last success. `ClockTick` removes a record
whose window is over, which the code does at the next attempt. `Google` is an account without a
password.

### RoomCreator and RoomEditor

`handleCreate` awaits up to three requests; a handler outlives its page (`page`), and `finally` enables
the button only of its own. `pushed` is the time between `router.push` and the next page, in which the
button is enabled again. In `RoomEditor` a draft holds the fields on the screen, the ones it was loaded
with and the ones being sent; dates are hours, and `ToInput` and `ToInstant` are the two conversions of
the page, which are not inverse to one another unless `Offset` is 0. `said` is what was last typed and
saved, `overrun` what a form has written since that nobody typed into it. Images are sent on their own:
`MediaStore`.

## 3. Runs

| Run | Instance | Shows |
|---|---|---|
| `membership_serial` | 3 users, 2 rooms, 1 slot, limit 2 or none | sequentially the code implements `RoomPolicy` (`ImplementsPolicy`), no OWNER leaves (`OwnerNeverLeft`), no room has two (`SoleOwner`) |
| `membership_races` | 4 users, 1 room, 2 slots | under interleaving: `NoDanglingMember`, `OwnerKept`, `OvershootBounded`, `OwnerlessForGood` |
| `membership_limit` (violation) | same | two invites exceed the limit |
| `membership_owner_left` (violation) | same | an OWNER who has left |
| `chat_views` | 2 users, 1 panel, 2 slots, 2 messages, joins return 1 | `ViewAgrees`, `ShownInOrder` |
| `chat_edits` | 1 message, 2 edits, with or without files, fair | `ShownWasWritten`, `ViewAgrees`, `Delivered` |
| `chat_deleted_edit` (violation) | 1 message, 1 edit | a deleted message is edited |
| `cache` | 2 slots, 3 versions, fair | `Coherent`, `EventuallyFresh` |
| `direct` | 3 users, 3 rooms, 2 slots | `DuplicatesExplained`, `SeveredForGood` |
| `direct_second_room` (violation) | 1 slot | a second room without any race |
| `parts` | seven components, one instance each, fair timers | the properties of section 3.1 |
| `media` | a row of rooms, users or banners, 3 objects, 3 slots | `BrokenOnlyByFailure`, `LeakExplained` |

### 3.1 The run `parts`

The seven modules of `MCParts` have no variable in common. `part`, chosen at the start, says which of
them moves; the others keep their initial state. What one of them can do does not depend on the others,
so this explores each of them completely, and the state space is the sum and not the product.
`ReadState` comes twice (`Narrowed`): `read` is two messages with one fetch of the list, `fetches` one
message with two fetches that may overlap.

| Property | Says | Instance |
|---|---|---|
| `ReadToTheEnd` | panel open and nothing under way: everything is read, but for `backed` and `voided` | 2 messages and 1 fetch, or 1 message and 2 fetches; 1 join, which returns 1 message; 1 slip |
| `ReadWasShown` | nothing counts as read that the panel has not shown | same |
| `UnreadNoticed` | panel closed and nothing under way: an unread message shows in the count | same |
| `TargetAsSeen` | the row written is the one that was seen, as it was seen | 2 users, 1 plain slot, 1 command, 2 ids, 2 names, 2 times, 1 transfer |
| `NoScheduleWithoutRoom` | no schedule outlives its room | same |
| `MatchIsClosest` | `findMatchingSchedule` against its definition, for every answer and every list | same |
| `CalendarAgrees`, `PopupAgrees` | what calendar and popup show is what there is | 2 schedules, 2 days, 2 calls waiting, 1 outside write or failure |
| `TypistShown`, `NoGhostTypist` | who types is shown, and nobody else | 2 tabs, 2 events each, timers of 2 and 3 |
| `TypingEnds` | when nobody types any more, the name goes for good | same |
| `AtMostTwiceTheLimit` | no stretch as long as the window, wherever it starts, lets through more than twice the limit | limit 2, window 2, 2 attempts, 2 sign-ups, 2 people |
| `RefusedForCause` | who is refused has had the full limit within the last window | same |
| `ToldOwnsAccount` | who was told "ok" has the account | same |
| `OneRoomEach` | a creation page makes one room | 2 clicks, 2 pages, 1 failure, 1 click in haste |
| `EditsKept` | a field is what was last typed and saved | 2 tabs, 2 texts, 2 saves, 1 failure, offset 9 |

Each of them holds outside of the excuses it names, and the excuses are what the code gets wrong: see
section 4. `PartsTypeOK` is the type invariant of whichever part moves.

**Bounds, and why they are enough.** Membership: a race needs two handlers, an owner, a target and
a third present user; four users let a full room of limit 2 be exceeded with one to spare. A second
room matters only sequentially, for the policy (slots of different rooms share nothing but users). Chat:
two messages are the least that can be out of order, one returned by a join the least that cuts
the list, two edits the least of which the older can win. Cache: one slot holds a stale value
while the other is used again and again, so two stand for many. Direct: three users give the
leftover of one pair and the room of another. Media: three slots let two uploads and a delete
overlap, and a single URL planted breaks a column already. `MaxMsgs`, `MaxEdits`, `MaxVersion` and the sets of ids are the only bounds there. In `parts`: two
messages let one `read-message` overtake another, one throw over an earlier message, and an event meet a list
that has one of the two; two fetches of one message let the older answer come last; a
plain request and a command on two rows let each see what the other changes; two calls waiting let a
closure be older than the list; two tabs let one speak for the other; a window of two and a limit of two
let attempts fall on both sides of a window's end; two saves let one form take back what another wrote.
`MaxSlips`, `MaxOutside`, `MaxFaults`, `MaxEditFaults` bound failures, `MaxSent`, `MaxJoins`, `MaxOpens`,
`MaxMade`, `MaxMoves`, `MaxItems`, `MaxCalls`, `MaxWire`, `MaxPages`, `MaxHasty`, `MaxSaves`, `Edits` and
`Hours` what is done.

**Symmetry** over users, rooms, objects and slots is used in runs of safety properties only; no
definition tells the members of these sets apart. In the chat only slots are symmetric (`Owner` is
a user). Runs with liveness use none.

**Deadlock** is not checked where ids run out: in the membership, direct, media and parts runs nothing can
be asked once rooms and users are used up or the row is gone. It is checked in `cache` and chat.

**Fairness.** `ChatRoom`: weak fairness of every handler's next step (the event loop runs it and the
database answers) and of each socket's delivery while it is up. `RoomCache`: the same for handlers,
and weak fairness of expiry (each `set` gives a TTL). `Typing`: weak fairness of
what clocks and network do taken together (`Passing`): a timer runs or fires, or an event arrives; never
of a user. Nobody is assumed to ask for anything, and no connection to break or hold.

## 4. What the checks found

* **Limit exceeded** (`membership_limit`): the count is read two awaits before the insert. With n
  requests in flight the limit is exceeded by at most n - 1, which is proved.
* **Departed OWNER** (`membership_owner_left`): transfer and departure of the target overlap; the
  room has no present OWNER and never gets one again (proved as `NoOwnerReturns`).
* **Edited after deletion** (`chat_deleted_edit`).
* **Second DIRECT room** (`direct_second_room`): a leftover room hides the pair's own.

Also visible in the models, each an excuse that a property names: messages lost or doubled by a join that
overlaps a broadcast, an older edit winning on the screen, attachments lost on edit, entries stale
after an invalidation, images broken by a failed upload, objects left behind when two uploads overlap, when
`deleteDirectRoom` is given a GROUP room or a deleted user's token uploads, pairs severed when one
leaves; messages read that were never shown, unread again when `lastReadAt` moves back, or unread on the
screen because the last of them was deleted with its sender's account, counts overwritten by an older fetch; an AI command applied to a row that was changed since Claude was asked; a calendar that shows one
of two overlapping changes, a popup filled with another day; a typist hidden by another tab of his; twice
the limit of sign-in attempts across the end of a window; a second room after a failed upload or a
click while the next page is fetched; a date that moves by the offset from UTC each time the room
is saved, and edits taken back by an older form.

## 5. Proofs

TLAPS checks every safety and action property of the passing runs, and the refinement, for every value
of the constants that the assumptions of the modules admit. In each module the argument is an inductive
invariant: the initial states satisfy it, every action keeps it, the property follows. The new invariants
were model-checked on the runs' instances before they were proved. Only what goes beyond the properties
is described here; the conjuncts are commented where they are defined.

`RoomMembershipProofs`, for any users and slots, finite, any rooms, and limits of at least 2
(`MembershipAssumption`):

| Theorem | Argument |
|---|---|
| `TypeCorrect` | `TypeOK` is inductive; the lemma `SlotKinds` tells from its await what a slot carries |
| `NoMemberDangles` | `NoDanglingMember` is inductive with `TypeOK`: only inserts make rows, under foreign keys, and deletions cascade |
| `RoomKeepsOwner` | inductive with `TypeOK` and `NoDanglingMember`: the row a transfer promotes exists in the same transaction; a removal keeps the role |
| `LimitOvershoot` | `OvershootBounded` counts members together with the invites past the check. It is inductive with `PeakCovers` (the limit never exceeds the highest it was): passing the check needs a free place and there are at most n - 1 others past it; landing turns an invite into a member |
| `NoOwnerReturns` | `Ownerless` says nobody present is OWNER and every slot of the room is at a harmless await; each action keeps both, or deletes the room |
| `OwnersStay`, `OneOwner` | under `OneAtATime` (one slot): `SerialInv` adds to `TypeOK` and `NoDanglingMember` that each room has one OWNER row and its OWNER is present (`OrderlyRooms`), and that what the slot has read is still so (`AllFresh`), which no other handler can change |
| `Implementation` | under `OneAtATime`: from `SerialInv`, the one step of a handler that writes is the step of `RoomPolicy`, and the steps before it are stutters |

`OneAtATime` is a hypothesis and not an assumption of the module: the races break all three, which the
violation runs show.

`ChatRoomProofs`, for any users, watchers, messages, edits, length of a join's list and any finite number
of handlers (`ChatAssumption`):

| Theorem | Argument |
|---|---|
| `TypeCorrect` | needs that a handler past its check still has room for what it writes (`BoundsLast`), so the bounds cut behaviours only where they are asked |
| `ShownIsWritten` | lists, events under way, lists read by joins and handlers about to announce are all of the table (`HandlersHold`, `AllHonest`), which only grows |
| `RestingListAgrees` | `Track` is the lists a panel will have had after each event still under way: each list to come shows a message as the table has it unless it is contended or its announcement is still to come (`ListsAgree`); with nothing under way the list is the last of them |
| `ShownAsWritten` | each list to come is in order (`ListsAgree`), and whatever is written while a new message awaits its announcement is known to have crossed it (`LaterCrossed`) |

`RoomCacheProofs`, for any number of versions and any finite number of handlers:

| Theorem | Argument |
|---|---|
| `TypeCorrect` | `CacheInv`: with what each handler holds (`HandlersHold`; no handler sets a detail to a room that is gone), and that handlers past their check have versions left (`VersionsLast`) |
| `CacheCoherent` | inductive with those: whoever writes will delete the key that the write makes stale (`KeyOf`), and a set of a value that is no longer the row's is noted in `excused` when it happens |

`DirectRoomsProofs`, for any finite sets of users, rooms and handlers:

| Theorem | Argument |
|---|---|
| `TypeCorrect`, `DuplicatesHaveCauses` | `DirectInv`: until some room loses a row with an account (`orphaned`), each room has the rows of a pair (`RoomsOfPairs`), and a pair whose creates never overlapped has one create under way and one room at most, and none while that create is past its check (`OneRoom`) |
| `LeaversStayCutOff` | an action property: whatever the two ask for, the create finds the candidate and refuses, and no row is made active again |

`MediaStoreProofs`, for any keys and number of slots (finiteness is not used):

| Theorem | Argument |
|---|---|
| `TypeCorrect` | `TypeOK` is inductive; it includes that a deleted row names nothing |
| `NoBrokenImages` | `BrokenOnlyByFailure` is inductive only with three facts that hold until a call fails or a URL is planted: what a handler is about to delete was read from the column it will write (`OneColumn`); no object is known to two columns or to handlers of two (`Apart`), so a delete takes nothing from another column; an object just stored is known to nobody but its handler (`Fresh`), so it is there when the column comes to name it |
| `LeaksHaveCauses` | `LeakInv`: while the row is there and but for columns written since, what a handler has read its columns still name (`StillNamed`), and once it has deleted that they name nothing that is stored (`Emptied`). So an upload that writes its column and a delete of the row let go of nothing; the steps that do are those that add to `lost`. It needs no bound on failures or overlaps: neither is an excuse |

`PanelProofs`, for any number of messages, joins, fetches and slips, any tabs and timers:

| Theorem | Argument |
|---|---|
| `ReadTypeCorrect` | inductive with the bounds on what is under way |
| `ReadAfterShown` | `MarkedAfterShown`: what is marked, or about to be, is shown or named by a history variable, with everything before it; for that, what comes before an event on its way is accounted for when it arrives (`InStep`), and a connection gets one list (`OneList`) |
| `OpenPanelReadsAll` | `EachReaches`: each announced message whose row is there is on its way to the joined panel, or in the list of its join, or shown and read or being marked. A `read-message` that throws ends the marking of what it was for, which `voided` notes |
| `UnreadShows` | `ZeroHonest` and `FetchHonest`: a count of zero, and an answer of the server that counts nothing, have overlooked nothing, but for messages read, deleted, gone, `missed`, `backed`, `voided`, or whose event is still to come; each of the overlapping fetches has its own |
| `TypTypeCorrect`, `WhoTypesIsShown`, `WhoIsShownTypes` | `TypInv`: the last event of a tab under way says what the tab is (`SaysSo`), so until it arrives it is to be heard (`Heard`), and a name shown is accounted for by a tab or an end under way (`Accounts`) |

`SchedulesProofs`, for any hosts, names, times, ids and slots:

| Theorem | Argument |
|---|---|
| `SchedulesGoWithRoom` | inductive as it stands: once the room is gone an insert is refused, and an update or a delete finds no row |
| `SchedTypeCorrect`, `TargetIsAsSeen` | `SchedInv`: what a handler or Claude was given is the table, except for the rows `touched` since (`AsRead`), and ids are given out in order |
| `ReduceFindsClosest` | an induction over the list, by its least counterexample: `Closest` of the first t elements is nearest among them and first among the nearest. The induction theorems of the library take an operator and cannot be used; well-foundedness of < on Nat and `WFMin` need none (`LeastExists`) |
| `CalTypeCorrect`, `PopupShowsItsDay`, `CalendarShowsTable` | `CalInv`: at most one form is being submitted (`OneForm`); unless the day was switched every call under way is of the popup's day (`PopupInv`); requests that overlap make the list stale, and of one alone the answer will make it the table (`CalendarInv`) |

`ScheduleAssumption` says that the sentinels (`NoDate`, `Keep`, `Nobody`, `Fresh`, `Gone`) are not values they stand
beside, which no row, name or time of the code is.

`PartsProofs`, for any people, tabs, clicks, pages and failures, any limit and window of at least 1 and any
offset from UTC:

| Theorem | Argument |
|---|---|
| `SignTypeCorrect` | a count is raised below the limit only, and a slot that awaits something is a person's |
| `AccountIsOfWhoWasTold` | `ToldOwnsAccount` is inductive with the types: a row is made only where there is none, so nobody else was told, and a deletion forgets whom it was told |
| `TwoWindowsAtMost`, `RefusedHasCause` | `LimiterInv`: what was let through since the record was made is its count, and before that at most one window, of the limit, reaches into the last stretch |
| `CreatorTypeCorrect`, `OneRoomForEachPage` | `CreatorInv` counts the rooms made, those being made and the one the page may still make. It needs that at most one handler belongs to the page on the screen (`OneHandler`), or `finally` would enable the button beside a running one |
| `EditsAreKept` | `EditorInv` says of every form what nobody typed into it (`Untouched`: as loaded) and of every save what it sends (`Sent`: what was meant where somebody typed, else what was loaded, for the date at offset 0 only) |
| `EditorTypeCorrect` | with `EditorInv`, what was typed when the form was sent is still known as typed (`EditorBooks`) |
| `PartsTypeCorrect` | `PartsRefine`: a step of one component is a stutter of the others, so a behaviour of `MCParts` is one of each of the seven, `ReadState` being the one that moves in two of the parts, and all that is proved of them holds in the run |

**Only model-checked**: `Delivered`, `EventuallyFresh` and `TypingEnds`, which are liveness under fairness; that,
and ENABLED, are out of the prover's reach. The statements that a doc or a test makes
and the code does not keep (section 4) are refuted by TLC, and their corrected forms are proved.

## 6. Not modelled, and plan

Not modelled, since nothing in them can interleave or fail half-way: users (one update and one read of
a row), guards and tokens, health, metrics and logging, listings and statistics, pages that render what
they fetch, the UI kit. Generated clients and deployment are not the program's own logic. These make up
most of the lines of the repository. Attachments uploaded and never sent belong to no row and are
outside of `MediaStore`. In `ChatRoom` rows stay, also those of a deleted account (section 2).

1. `RoomMembership`, its policy and proofs; `ChatRoom`; `RoomCache`; `DirectRooms`; `MediaStore` and its proofs: done.
2. `ReadState`, `Schedules`, `ScheduleCalendar`, `Typing`, `SignIn`, `RoomCreator`, `RoomEditor` in one run, and the
   first proofs about them: done.
3. Proofs of every safety and action property of the passing runs, and, for one slot, of the refinement of
   `RoomPolicy`: done.
4. `deleteGroupRoom` across membership, media and cache, with failures: each module has its part of the handler,
   their composition is still to be written.

## 7. Running

    tlc -workers 2 -config membership_races.cfg MCRoomMembership.tla
    tlapm RoomMembershipProofs.tla
    tlc -workers 2 -config parts.cfg MCParts.tla
    tlapm MediaStoreProofs.tla
    tlapm ChatRoomProofs.tla
    tlapm PanelProofs.tla
    tlapm SchedulesProofs.tla
    tlapm PartsProofs.tla

The proofs of `RoomCacheProofs` and `DirectRoomsProofs` are checked in the same way.
