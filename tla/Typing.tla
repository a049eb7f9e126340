--------------------------------- MODULE Typing ---------------------------------
(***************************************************************************)
(* The typing indicator between one user, who may have the room open in    *)
(* several tabs, and one ChatPanel that looks on.  A tab announces the     *)
(* first key, and the end when no key came for two seconds or a message    *)
(* was sent; the panel takes the name away on the announced end or three   *)
(* seconds after the announced start.  Panels know users and not tabs.     *)
(* Nothing is stored: handleTyping passes on what it gets.                 *)
(*                                                                         *)
(* Time is in seconds.  A timer that is due fires before the next Tick;    *)
(* events take any time.                                                   *)
(***************************************************************************)
EXTENDS Naturals, Sequences

CONSTANTS
    Tabs,      \* sockets of the user who types
    Debounce,  \* 2
    ShowFor,   \* 3
    MaxWire,   \* bound: events of a tab on their way
    Off        \* a timer that is not set

ASSUME TypingAssumption ==
    {Debounce, ShowFor, MaxWire} \subseteq Nat /\ Off \notin Nat

VARIABLES
    isTyping,  \* isTyping[t]: isTypingRef
    debounce,  \* debounce[t]: the time left of typingDebounceRef
    input,     \* input[t]: there is text in the box
    events,    \* events[t]: isTyping of the events on their way from t to the panel
    visible,   \* the user is in typingUserIds of the panel
    expiry,    \* the time left of the panel's timer for the user
    hushed,    \* history: hushed[t]: since t announced itself the name was taken away, or an
               \* event of it was lost
    dropped    \* history: dropped[t]: an event or the end of t was lost since it spoke last

typVars == <<isTyping, debounce, input, events, visible, expiry, hushed, dropped>>

TypInit ==
    /\ isTyping = [t \in Tabs |-> FALSE]
    /\ debounce = [t \in Tabs |-> Off]
    /\ input = [t \in Tabs |-> FALSE]
    /\ events = [t \in Tabs |-> <<>>]
    /\ visible = FALSE
    /\ expiry = Off
    /\ hushed = [t \in Tabs |-> FALSE]
    /\ dropped = [t \in Tabs |-> FALSE]

Emit(t, on) ==
    /\ Len(events[t]) < MaxWire
    /\ events' = [events EXCEPT ![t] = Append(@, on)]
    /\ dropped' = [dropped EXCEPT ![t] = FALSE]

-----------------------------------------------------------------------------
(* The tab.                                                                *)

\* handleInputChange: the start is announced once, the timer set anew each time.
InputChange(t) ==
    /\ IF isTyping[t] THEN UNCHANGED <<events, hushed, dropped>>
       ELSE Emit(t, TRUE) /\ hushed' = [hushed EXCEPT ![t] = FALSE]
    /\ isTyping' = [isTyping EXCEPT ![t] = TRUE]
    /\ debounce' = [debounce EXCEPT ![t] = Debounce]
    /\ \E text \in BOOLEAN : input' = [input EXCEPT ![t] = text]
    /\ UNCHANGED <<visible, expiry>>

DebounceFires(t) ==
    /\ debounce[t] = 0
    /\ Emit(t, FALSE)
    /\ debounce' = [debounce EXCEPT ![t] = Off]
    /\ isTyping' = [isTyping EXCEPT ![t] = FALSE]
    /\ UNCHANGED <<input, visible, expiry, hushed>>

\* A plausible bug: the end is not announced, the message tells it.
Send_Silent(t) ==
    /\ input[t]
    /\ input' = [input EXCEPT ![t] = FALSE]
    /\ debounce' = [debounce EXCEPT ![t] = Off]
    /\ isTyping' = [isTyping EXCEPT ![t] = FALSE]
    /\ UNCHANGED <<events, visible, expiry, hushed, dropped>>

\* A plausible bug: isTypingRef stays, the next key announces nothing.
Send_KeepsFlag(t) ==
    /\ input[t]
    /\ Emit(t, FALSE)
    /\ input' = [input EXCEPT ![t] = FALSE]
    /\ debounce' = [debounce EXCEPT ![t] = Off]
    /\ UNCHANGED <<isTyping, visible, expiry, hushed>>

\* sendMessage, as far as typing looks at it.
Send(t) ==
    /\ input[t]
    /\ Emit(t, FALSE)
    /\ input' = [input EXCEPT ![t] = FALSE]
    /\ debounce' = [debounce EXCEPT ![t] = Off]
    /\ isTyping' = [isTyping EXCEPT ![t] = FALSE]
    /\ UNCHANGED <<visible, expiry, hushed>>

\* The tab is closed and opened again: events on their way may be lost, and no end is
\* announced.
CloseTab(t) ==
    /\ isTyping' = [isTyping EXCEPT ![t] = FALSE]
    /\ debounce' = [debounce EXCEPT ![t] = Off]
    /\ input' = [input EXCEPT ![t] = FALSE]
    /\ \E lost \in BOOLEAN : events' = IF lost THEN [events EXCEPT ![t] = <<>>] ELSE events
    /\ dropped' = [dropped EXCEPT ![t] = @ \/ isTyping[t] \/ events[t] # <<>>]
    /\ UNCHANGED <<visible, expiry, hushed>>

\* The connection breaks, or was not there yet, and the typing goes on.
BreakTab(t) ==
    /\ events[t] # <<>>
    /\ events' = [events EXCEPT ![t] = <<>>]
    /\ hushed' = [hushed EXCEPT ![t] = TRUE]
    /\ dropped' = [dropped EXCEPT ![t] = TRUE]
    /\ UNCHANGED <<isTyping, debounce, input, visible, expiry>>

-----------------------------------------------------------------------------
(* The panel.                                                              *)

\* A plausible bug: a second start does not set the timer anew, which ends the first.
UserTyping_NoTimer(t) ==
    /\ events[t] # <<>>
    /\ events' = [events EXCEPT ![t] = Tail(@)]
    /\ visible' = Head(events[t])
    /\ expiry' = IF Head(events[t]) /\ ~visible THEN ShowFor ELSE Off
    /\ hushed' = IF Head(events[t]) THEN hushed ELSE [s \in Tabs |-> hushed[s] \/ s # t]
    /\ UNCHANGED <<isTyping, debounce, input, dropped>>

\* user-typing: a start sets the timer anew, an end clears it, whichever tab it is of.
UserTyping(t) ==
    /\ events[t] # <<>>
    /\ events' = [events EXCEPT ![t] = Tail(@)]
    /\ visible' = Head(events[t])
    /\ expiry' = IF Head(events[t]) THEN ShowFor ELSE Off
    /\ hushed' = IF Head(events[t]) THEN hushed ELSE [s \in Tabs |-> hushed[s] \/ s # t]
    /\ UNCHANGED <<isTyping, debounce, input, dropped>>

ExpiryFires ==
    /\ expiry = 0
    /\ expiry' = Off
    /\ visible' = FALSE
    /\ hushed' = [t \in Tabs |-> TRUE]
    /\ UNCHANGED <<isTyping, debounce, input, events, dropped>>

\* The panel is opened anew; what was on its way to the old one may still find it.
ReopenPanel ==
    /\ visible \/ \E t \in Tabs : events[t] # <<>>
    /\ visible' = FALSE
    /\ expiry' = Off
    /\ hushed' = [t \in Tabs |-> TRUE]
    /\ \E kept \in SUBSET Tabs :
         /\ events' = [t \in Tabs |-> IF t \in kept THEN events[t] ELSE <<>>]
         /\ dropped' = [t \in Tabs |-> dropped[t] \/ events'[t] # events[t]]
    /\ UNCHANGED <<isTyping, debounce, input>>

Left(timer) == IF timer = Off THEN Off ELSE timer - 1

Tick ==
    /\ expiry # 0 /\ \A t \in Tabs : debounce[t] # 0
    /\ expiry # Off \/ \E t \in Tabs : debounce[t] # Off
    /\ expiry' = Left(expiry)
    /\ debounce' = [t \in Tabs |-> Left(debounce[t])]
    /\ UNCHANGED <<isTyping, input, events, visible, hushed, dropped>>

TypNext ==
    \/ \E t \in Tabs :
        \/ InputChange(t) \/ DebounceFires(t) \/ Send(t)
        \/ CloseTab(t) \/ BreakTab(t)
        \/ UserTyping(t)
    \/ ExpiryFires
    \/ ReopenPanel
    \/ Tick

\* What the clocks and the network do.
Passing ==
    \/ Tick \/ ExpiryFires
    \/ \E t \in Tabs : DebounceFires(t) \/ UserTyping(t)

\* Timers run, and what is on its way comes or is lost, in any order.
TypFairness == WF_typVars(Passing)

TypSpec == TypInit /\ [][TypNext]_typVars /\ TypFairness

-----------------------------------------------------------------------------
\* Flags, timers and events have their types; who types has a timer.
TypTypeOK ==
    /\ {isTyping, input, hushed, dropped} \subseteq [Tabs -> BOOLEAN]
    /\ debounce \in [Tabs -> 0..Debounce \cup {Off}]
    /\ \A t \in Tabs : isTyping[t] <=> debounce[t] # Off
    /\ events \in [Tabs -> UNION {[1..n -> BOOLEAN] : n \in 0..MaxWire}]
    /\ visible \in BOOLEAN /\ expiry \in 0..ShowFor \cup {Off}

Quiet == \A t \in Tabs : events[t] = <<>>

\* A user who types in some tab is shown once the events are through, unless since
\* the tab announced it the three seconds ran out, another tab announced an end, the
\* panel was opened after the event, or an event of the tab was lost: its connection
\* broke, or it had none yet.
TypistShown ==
    Quiet => \A t \in Tabs : isTyping[t] => visible \/ hushed[t]

\* A name that is shown with the events through is that of somebody who types, unless
\* a tab closed while typing, or an event of it was lost, and it is silent since.
NoGhostTypist ==
    Quiet /\ visible => \E t \in Tabs : isTyping[t] \/ dropped[t]

\* When nobody types any more, the name goes for good, whatever was lost on the way.
TypingEnds == <>[](\A t \in Tabs : ~isTyping[t]) => <>[](~visible)

=============================================================================
