--------------------------------- MODULE SignIn ---------------------------------
(***************************************************************************)
(* Signing in and up with an email and a password: the limiter of auth.ts, *)
(* a count in a fixed window for each address, the authorize that passes   *)
(* it, and signUp.  The limiter is synchronous, the rest awaits the        *)
(* database and bcrypt, so attempts overlap.  One address, one email; a    *)
(* person is told by the password, which the other one does not know.      *)
(*                                                                         *)
(* Times are kept as ages, so the clock has no bound.                      *)
(***************************************************************************)
EXTENDS Naturals

CONSTANTS
    People,   \* who signs up and in with the email
    Google,   \* the account was made by GoogleProvider: hashedPassword is null
    NoOne,
    MaxLogin, \* MAX_LOGIN_ATTEMPTS (5)
    Window,   \* LOGIN_WINDOW_MS (15 minutes), in steps of the clock
    Attempts, \* slots for authorize
    SignUps   \* slots for signUp

ASSUME SignInAssumption ==
    /\ MaxLogin \in Nat \ {0} /\ Window \in Nat \ {0}
    /\ Google \notin People /\ NoOne \notin People \cup {Google}

VARIABLES
    record,  \* loginAttempts of the address: the count, and the time left to resetAt
    account, \* whose User row has the email
    attempt, \* attempt[a]: the authorize in slot a
    signup,  \* signup[s]: the signUp in slot s
    passed,  \* history: passed[t]: attempts let through at most t ago, since the last success
    told     \* history: people told "ok" whose account nobody has deleted since

signVars == <<record, account, attempt, signup, passed, told>>

NoRecord == [count |-> 0, left |-> 0]

Slot(at, by) == [at |-> at, by |-> by]

SignInit ==
    /\ record = NoRecord
    /\ account = NoOne
    /\ attempt = [a \in Attempts |-> Slot("idle", NoOne)]
    /\ signup = [s \in SignUps |-> Slot("idle", NoOne)]
    /\ passed = [t \in 0..Window |-> 0]
    /\ told = {}

-----------------------------------------------------------------------------
(* checkLoginRateLimit and authorize.                                      *)

\* A record with now > resetAt, which the next attempt replaces, is one that ClockTick
\* has removed.
Refused == record.count >= MaxLogin

\* A plausible bug: one attempt too many.
LetIn_OneMore(a, p) ==
    /\ attempt[a].at = "idle"
    /\ record.count <= MaxLogin
    /\ record' = IF record = NoRecord THEN [count |-> 1, left |-> Window]
                 ELSE [record EXCEPT !.count = @ + 1]
    /\ passed' = [t \in 0..Window |-> passed[t] + 1]
    /\ attempt' = [attempt EXCEPT ![a] = IF p = NoOne THEN @ ELSE Slot("find", p)]
    /\ UNCHANGED <<account, signup, told>>

\* The first attempt of a window starts it; a missing email or password throws after
\* it is counted, which here is an attempt by no one.
LetIn(a, p) ==
    /\ attempt[a].at = "idle"
    /\ ~Refused
    /\ record' = IF record = NoRecord THEN [count |-> 1, left |-> Window]
                 ELSE [record EXCEPT !.count = @ + 1]
    /\ passed' = [t \in 0..Window |-> passed[t] + 1]
    /\ attempt' = [attempt EXCEPT ![a] = IF p = NoOne THEN @ ELSE Slot("find", p)]
    /\ UNCHANGED <<account, signup, told>>

\* A plausible bug: an attempt that is refused starts the window anew.
TurnAway_Extends ==
    /\ Refused
    /\ record' = [record EXCEPT !.left = Window]
    /\ UNCHANGED <<account, attempt, signup, passed, told>>

\* An attempt that is refused changes nothing.
TurnAway ==
    /\ Refused
    /\ UNCHANGED signVars

\* No row, no password, or, after comparePassword, another one: the same error.
FindUser(a) ==
    /\ attempt[a].at = "find"
    /\ attempt' = [attempt EXCEPT ![a] =
                      IF account = @.by THEN Slot("match", @.by) ELSE Slot("idle", NoOne)]
    /\ UNCHANGED <<record, account, signup, passed, told>>

\* comparePassword has answered: resetLoginRateLimit forgets every attempt of the
\* address, those still under way included.
SignedIn(a) ==
    /\ attempt[a].at = "match"
    /\ record' = NoRecord
    /\ passed' = [t \in 0..Window |-> 0]
    /\ attempt' = [attempt EXCEPT ![a] = Slot("idle", NoOne)]
    /\ UNCHANGED <<account, signup, told>>

-----------------------------------------------------------------------------
(* signUp; the checks of the password come first and throw nothing away.   *)

SignUp(s, p) ==
    /\ signup[s].at = "idle"
    /\ signup' = [signup EXCEPT ![s] = Slot("find", p)]
    /\ UNCHANGED <<record, account, attempt, passed, told>>

FindExisting(s) ==
    /\ signup[s].at = "find"
    /\ signup' = [signup EXCEPT ![s] =
                     IF account = NoOne THEN Slot("create", @.by) ELSE Slot("idle", NoOne)]
    /\ UNCHANGED <<record, account, attempt, passed, told>>

\* A plausible bug: an upsert, the email having been found free.
CreateUser_Upsert(s) ==
    /\ signup[s].at = "create"
    /\ account' = signup[s].by
    /\ told' = told \cup {signup[s].by}
    /\ signup' = [signup EXCEPT ![s] = Slot("idle", NoOne)]
    /\ UNCHANGED <<record, attempt, passed>>

\* The unique key refuses a second row, and the catch reports an error.
CreateUser(s) ==
    /\ signup[s].at = "create"
    /\ IF account = NoOne
       THEN account' = signup[s].by /\ told' = told \cup {signup[s].by}
       ELSE UNCHANGED <<account, told>>
    /\ signup' = [signup EXCEPT ![s] = Slot("idle", NoOne)]
    /\ UNCHANGED <<record, attempt, passed>>

-----------------------------------------------------------------------------
\* PrismaAdapter makes the user at the first sign-in with Google.
GoogleSignIn ==
    /\ account = NoOne
    /\ account' = Google
    /\ UNCHANGED <<record, attempt, signup, passed, told>>

\* AdminService.deleteUser.
DeleteAccount ==
    /\ account # NoOne
    /\ account' = NoOne
    /\ told' = {}
    /\ UNCHANGED <<record, attempt, signup, passed>>

\* A step of the clock; a window ends when more than its length has passed.
ClockTick ==
    /\ record' = IF record.left = 0 THEN NoRecord ELSE [record EXCEPT !.left = @ - 1]
    /\ passed' = [t \in 0..Window |-> IF t = 0 THEN 0 ELSE passed[t - 1]]
    /\ UNCHANGED <<account, attempt, signup, told>>

SignNext ==
    \/ \E a \in Attempts :
        \/ \E p \in People \cup {NoOne} : LetIn(a, p)
        \/ FindUser(a)
        \/ SignedIn(a)
    \/ TurnAway
    \/ \E s \in SignUps :
        \/ \E p \in People : SignUp(s, p)
        \/ FindExisting(s)
        \/ CreateUser(s)
    \/ GoogleSignIn
    \/ DeleteAccount
    \/ ClockTick

SignSpec == SignInit /\ [][SignNext]_signVars

-----------------------------------------------------------------------------
Pending(awaits) == {Slot("idle", NoOne)} \cup [at : awaits, by : People]

\* Record, slots and history have their types; who awaits something is a person.
SignTypeOK ==
    /\ record \in [count : 0..MaxLogin, left : 0..Window]
    /\ account \in People \cup {Google, NoOne}
    /\ attempt \in [Attempts -> Pending({"find", "match"})]
    /\ signup \in [SignUps -> Pending({"find", "create"})]
    /\ passed \in [0..Window -> Nat]
    /\ told \subseteq People

Passed == passed[Window]

\* In no stretch as long as the window, wherever it starts, are more than twice the
\* limit let through without a success: the end of one window and the start of the
\* next together, however the attempts overlap.
AtMostTwiceTheLimit == Passed <= 2 * MaxLogin

\* An address that is refused has had the full limit of attempts since its last
\* success, all of them within the last window; what was refused, or is older, does
\* not count.
RefusedForCause == Refused => Passed >= MaxLogin

\* Who was told that the sign-up went well has the account, until it is deleted, though
\* several found the email free.
ToldOwnsAccount == \A p \in told : account = p

=============================================================================
