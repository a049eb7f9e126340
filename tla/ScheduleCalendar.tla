---------------------------- MODULE ScheduleCalendar ----------------------------
(***************************************************************************)
(* RoomScheduleCalendar: the owner's calendar of a room, with the list it  *)
(* fetched on opening, the popup of the day that was clicked, and its add, *)
(* edit and delete.  A handler is a closure: it computes the new list from *)
(* the one that was on the screen when it was started.  Its calls are      *)
(* server actions, which Next.js runs one at a time, in the order in which *)
(* they were started.  What SchedulesService does with one is a step here  *)
(* (Schedules has its awaits).  A schedule is told by the day it is on.    *)
(***************************************************************************)
EXTENDS Naturals, Sequences, FiniteSets

CONSTANTS
    MaxItems,   \* bound: schedules ever made
    Days,       \* days of the month on the screen
    NoDay,      \* there is no schedule with this id
    MaxCalls,   \* bound: server actions waiting at the same time
    MaxOutside  \* bound: writes of others, calls that fail

ASSUME CalendarAssumption ==
    NoDay \notin Days /\ MaxItems \in Nat \ {0} /\ MaxCalls \in Nat /\ MaxOutside \in Nat

VARIABLES
    table,    \* table[s]: the day of schedule s in the database
    nextItem, \* the id of the next schedule
    isOpen,   \* the calendar is shown
    loading,  \* the days are not shown
    list,     \* schedules: the list on the screen, as table
    popup,    \* selectedDay: the day, and the schedules listed under it
    form,     \* the form that is being submitted, if any: "none", "add", "edit"
    queue,    \* server actions started and not answered, with what their closures hold
    outside,  \* history: writes by others and failures so far
    stale,    \* history: the list was read, or a handler started, before such a write
    misread,  \* history: a fetch failed, or an answer was lost
    switched  \* history: the popup was set while a call was under way

calVars == <<table, nextItem, isOpen, loading, list, popup, form, queue, outside, stale, misread,
             switched>>

ItemIds == 1..MaxItems

Empty == [s \in ItemIds |-> NoDay]

NoPopup == [day |-> NoDay, items |-> {}]

On(l, d) == {s \in ItemIds : l[s] = d}

\* base and shown are the list and the popup's day in the closure.
Action(op, s, d) ==
    [op |-> op, item |-> s, day |-> d, base |-> list, shown |-> popup.day,
     at |-> "wait", ok |-> FALSE, got |-> Empty]

Fetch == [Action("fetch", 1, NoDay) EXCEPT !.base = Empty, !.shown = NoDay]

CalInit ==
    /\ table = Empty
    /\ nextItem = 1
    /\ isOpen = FALSE /\ loading = FALSE
    /\ list = Empty
    /\ popup = NoPopup
    /\ form = "none"
    /\ queue = <<>>
    /\ outside = 0
    /\ stale = FALSE /\ misread = FALSE /\ switched = FALSE

\* An action started behind another holds a list that does not have its effect.
Enqueue(a) ==
    /\ Len(queue) < MaxCalls
    /\ queue' = Append(queue, a)
    /\ stale' = (stale \/ queue # <<>>)

-----------------------------------------------------------------------------
(* What the owner does.                                                    *)

\* useEffect on isOpen: the list of the last time stays until the answer comes.
OpenCalendar ==
    /\ ~isOpen
    /\ isOpen' = TRUE /\ loading' = TRUE
    /\ Enqueue(Fetch)
    /\ UNCHANGED <<table, nextItem, list, popup, form, outside, misread, switched>>

\* A click outside; calls under way go on.
CloseCalendar ==
    /\ isOpen
    /\ isOpen' = FALSE
    /\ popup' = NoPopup
    /\ switched' = FALSE
    /\ UNCHANGED <<table, nextItem, loading, list, form, queue, outside, stale, misread>>

\* handleDayClick: the schedules are copied into the popup; a second click, or a
\* change of the month, takes it away.
ClickDay(d) ==
    /\ isOpen /\ ~loading
    /\ popup' = IF popup.day = d THEN NoPopup ELSE [day |-> d, items |-> On(list, d)]
    /\ switched' = (queue # <<>>)
    /\ UNCHANGED <<table, nextItem, isOpen, loading, list, form, queue, outside, stale, misread>>

\* handleAddSchedule; the date of the form is any.  submitting disables both forms.
AddSchedule(d) ==
    /\ isOpen /\ ~loading /\ popup # NoPopup /\ form = "none"
    /\ nextItem \in ItemIds
    /\ form' = "add"
    /\ Enqueue(Action("add", nextItem, d))
    /\ nextItem' = nextItem + 1
    /\ UNCHANGED <<table, isOpen, loading, list, popup, outside, misread, switched>>

\* handleUpdateSchedule.  A form opened while its schedule is being deleted can be
\* submitted later, which is refused and changes nothing.
EditSchedule(s, d) ==
    /\ isOpen /\ ~loading /\ s \in popup.items /\ form = "none"
    /\ form' = "edit"
    /\ Enqueue(Action("edit", s, d))
    /\ UNCHANGED <<table, nextItem, isOpen, loading, list, popup, outside, misread, switched>>

\* handleDeleteSchedule: nothing disables its button.
ClickDelete(s) ==
    /\ isOpen /\ ~loading /\ s \in popup.items
    /\ Enqueue(Action("delete", s, NoDay))
    /\ UNCHANGED <<table, nextItem, isOpen, loading, list, popup, form, outside, misread, switched>>

-----------------------------------------------------------------------------
(* The server action at the head of the queue.                             *)

\* What the action does to a list: created is appended, updated replaces, deleted
\* is filtered out.  Of an id that is not in the list, an edit or delete is nothing.
Effect(a, l) ==
    IF a.op = "add" \/ l[a.item] # NoDay THEN [l EXCEPT ![a.item] = a.day] ELSE l

Perform ==
    /\ queue # <<>> /\ Head(queue).at = "wait"
    /\ LET a == Head(queue) IN
         IF a.op = "fetch"
         THEN /\ queue' = [queue EXCEPT ![1].at = "answer", ![1].ok = TRUE, ![1].got = table]
              /\ UNCHANGED table
         ELSE /\ table' = Effect(a, table)
              /\ queue' = [queue EXCEPT ![1].at = "answer",
                                        ![1].ok = (a.op = "add" \/ table[a.item] # NoDay)]
    /\ UNCHANGED <<nextItem, isOpen, loading, list, popup, form, outside, stale, misread, switched>>

\* The call fails, before or after it has done its work.
PerformFails ==
    /\ queue # <<>> /\ Head(queue).at = "wait"
    /\ outside < MaxOutside
    /\ outside' = outside + 1
    /\ \/ UNCHANGED <<table, misread>>
       \/ /\ Head(queue).op # "fetch"
          /\ table' = Effect(Head(queue), table)
          /\ misread' = TRUE
    /\ queue' = [queue EXCEPT ![1].at = "answer"]
    /\ UNCHANGED <<nextItem, isOpen, loading, list, popup, form, stale, switched>>

\* setSelectedDay(prev => ...): the day of the closure, in the popup there is now.
SyncSelectedDay(a, l) ==
    popup' = IF popup # NoPopup /\ a.shown # NoDay
             THEN [popup EXCEPT !.items = On(l, a.shown)] ELSE popup

\* The action is over; a fetch with nothing behind it makes the list good again.
Answered(a) ==
    /\ queue' = Tail(queue)
    /\ form' = IF (a.op = "add" /\ form = "add") \/ (a.op = "edit" /\ form = "edit") THEN "none"
               ELSE form
    /\ UNCHANGED <<table, nextItem, isOpen, outside>>

\* getRoomSchedules answers [] when the request fails.  The popup is not synced.
FetchAnswer ==
    /\ queue # <<>> /\ Head(queue).at = "answer" /\ Head(queue).op = "fetch"
    /\ LET a == Head(queue) IN
         /\ list' = a.got
         /\ stale' = (IF Len(queue) = 1 THEN a.got # table /\ stale ELSE stale)
         /\ misread' = (~a.ok \/ (misread /\ Len(queue) > 1))
         /\ switched' = (switched \/ popup # NoPopup)
         /\ Answered(a)
    /\ loading' = FALSE
    /\ UNCHANGED popup

\* A plausible bug: the schedule is taken off the list whatever the server answers.
ChangeAnswer_Optimistic ==
    /\ queue # <<>> /\ Head(queue).at = "answer" /\ Head(queue).op # "fetch"
    /\ LET a == Head(queue)
           updated == Effect(a, a.base)
       IN  /\ list' = IF a.ok \/ a.op = "delete" THEN updated ELSE list
           /\ IF a.ok THEN SyncSelectedDay(a, updated) ELSE UNCHANGED popup
           /\ Answered(a)
    /\ UNCHANGED <<loading, stale, misread, switched>>

\* A plausible bug: the list is updated and the popup is not.
ChangeAnswer_NoSync ==
    /\ queue # <<>> /\ Head(queue).at = "answer" /\ Head(queue).op # "fetch"
    /\ LET a == Head(queue)
           updated == Effect(a, a.base)
       IN  /\ list' = IF a.ok THEN updated ELSE list
           /\ UNCHANGED popup
           /\ Answered(a)
    /\ UNCHANGED <<loading, stale, misread, switched>>

\* The new list is computed from that of the closure.
ChangeAnswer ==
    /\ queue # <<>> /\ Head(queue).at = "answer" /\ Head(queue).op # "fetch"
    /\ LET a == Head(queue)
           updated == Effect(a, a.base)
       IN  /\ list' = IF a.ok THEN updated ELSE list
           /\ IF a.ok THEN SyncSelectedDay(a, updated) ELSE UNCHANGED popup
           /\ Answered(a)
    /\ UNCHANGED <<loading, stale, misread, switched>>

-----------------------------------------------------------------------------
\* Another tab of the owner, or AiSchedulePanel of the same page: the calendar is
\* not told.
OutsideWrite(s, d) ==
    /\ outside < MaxOutside
    /\ outside' = outside + 1
    /\ \/ table[s] # NoDay /\ UNCHANGED nextItem
       \/ s = nextItem /\ d # NoDay /\ nextItem' = nextItem + 1
    /\ table' = [table EXCEPT ![s] = d]
    /\ stale' = TRUE
    /\ UNCHANGED <<isOpen, loading, list, popup, form, queue, misread, switched>>

CalNext ==
    \/ OpenCalendar
    \/ CloseCalendar
    \/ \E d \in Days : ClickDay(d) \/ AddSchedule(d)
    \/ \E s \in ItemIds, d \in Days : EditSchedule(s, d)
    \/ \E s \in ItemIds : ClickDelete(s)
    \/ Perform \/ PerformFails
    \/ FetchAnswer \/ ChangeAnswer
    \/ \E s \in ItemIds, d \in Days \cup {NoDay} : OutsideWrite(s, d)

CalSpec == CalInit /\ [][CalNext]_calVars

-----------------------------------------------------------------------------
Lists == [ItemIds -> Days \cup {NoDay}]

\* Table, screen and queue have their types; at most one form is being submitted.
CalTypeOK ==
    /\ {table, list} \subseteq Lists /\ nextItem \in 1..(MaxItems + 1)
    /\ \A s \in nextItem..MaxItems : table[s] = NoDay
    /\ popup \in [day : Days \cup {NoDay}, items : SUBSET ItemIds]
    /\ popup # NoPopup => isOpen
    /\ loading => \E k \in 1..Len(queue) : queue[k].op = "fetch"
    /\ \A k \in 1..Len(queue) :
         queue[k] \in [op : {"fetch", "add", "edit", "delete"}, item : ItemIds,
                       day : Days \cup {NoDay}, base : Lists, shown : Days \cup {NoDay},
                       at : {"wait", "answer"}, ok : BOOLEAN, got : Lists]
    /\ \A k \in 2..Len(queue) : queue[k].at = "wait"
    /\ Cardinality({k \in 1..Len(queue) : queue[k].op \in {"add", "edit"}}) =
         IF form = "none" THEN 0 ELSE 1
    /\ {isOpen, loading, stale, misread, switched} \subseteq BOOLEAN

\* With nothing under way the calendar shows the schedules there are, unless since it
\* was last opened with success two of its calls overlapped, an answer was lost, or
\* somebody else wrote.  Opening it again heals all of these.
CalendarAgrees ==
    isOpen /\ queue = <<>> => list = table \/ stale \/ misread

\* The popup lists the schedules of its own day, as the calendar does, unless the day
\* was clicked, or the list fetched, while a call was under way.
PopupAgrees ==
    popup # NoPopup /\ queue = <<>> => popup.items = On(list, popup.day) \/ switched

=============================================================================
