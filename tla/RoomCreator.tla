------------------------------- MODULE RoomCreator -------------------------------
(***************************************************************************)
(* GroupRoomCreator: the page makes the room and then uploads its images,  *)
(* three requests none of which undoes another.  A handler outlives its    *)
(* page.                                                                   *)
(***************************************************************************)
EXTENDS Naturals

CONSTANTS
    Clicks,   \* slots for handleCreate
    MaxPages, \* bound: creation pages opened
    MaxHasty, \* bound: clicks between router.push and the next page
    MaxFaults \* bound: requests that fail, or whose answer is lost

ASSUME CreatorAssumption == {MaxPages, MaxHasty, MaxFaults} \subseteq Nat

VARIABLES
    creation,  \* creation[h]: the request that handleCreate in slot h awaits
    picked,    \* coverFile and profileFile
    isLoading, \* of the page on the screen: the button is disabled
    pushed,    \* a creation of this page has ended in router.push
    made,      \* GROUP rooms that the page has made
    pages,     \* history: creation pages opened
    botched,   \* history: creations that made the room and reported a failure
    hasty,     \* history: clicks between router.push and the next page
    faults     \* history: failures so far

creatorVars == <<creation, picked, isLoading, pushed, made, pages, botched, hasty, faults>>

Images == {"cover", "profile"}

Idle == [at |-> "idle", files |-> {}, page |-> 0]

CreatorInit ==
    /\ creation = [h \in Clicks |-> Idle]
    /\ picked = {} /\ isLoading = FALSE /\ pushed = FALSE
    /\ made = 0 /\ pages = 1 /\ botched = 0 /\ hasty = 0 /\ faults = 0

\* A file once picked can only be replaced.
PickImage(i) ==
    /\ picked' = picked \cup {i}
    /\ UNCHANGED <<creation, isLoading, pushed, made, pages, botched, hasty, faults>>

StartCreation(h) ==
    /\ creation[h] = Idle
    /\ isLoading' = TRUE
    /\ creation' = [creation EXCEPT ![h] = [at |-> "create", files |-> picked, page |-> pages]]
    /\ IF pushed THEN hasty < MaxHasty /\ hasty' = hasty + 1 ELSE UNCHANGED hasty
    /\ UNCHANGED <<picked, pushed, made, pages, botched, faults>>

\* A plausible bug: the button is not disabled while a creation is under way.
ClickCreate_Enabled(h) == StartCreation(h)

\* handleCreate, with the files there are at the click.
ClickCreate(h) == ~isLoading /\ StartCreation(h)

\* What is awaited after at: the cover, then the profile image, if there are any.
NextUpload(at, files) ==
    IF at = "create" /\ "cover" \in files THEN "cover"
    ELSE IF at # "profile" /\ "profile" \in files THEN "profile"
    ELSE "done"

\* createGroupRoom, uploadRoomCover or uploadRoomProfile has answered; MediaStore has
\* what an upload does.
RequestDone(h) ==
    /\ creation[h].at \in {"create"} \cup Images
    /\ made' = IF creation[h].at = "create" THEN made + 1 ELSE made
    /\ creation' = [creation EXCEPT ![h].at = NextUpload(@, creation[h].files)]
    /\ UNCHANGED <<picked, isLoading, pushed, pages, botched, hasty, faults>>

\* The handler ends, and enables the button of its own page, if that is still there.
Finally(h) ==
    /\ creation' = [creation EXCEPT ![h] = Idle]
    /\ isLoading' = (isLoading /\ creation[h].page # pages)

\* router.push, which only starts to fetch the next page, and finally.
Push(h) ==
    /\ creation[h].at = "done"
    /\ Finally(h)
    /\ pushed' = (pushed \/ creation[h].page = pages)
    /\ UNCHANGED <<picked, made, pages, botched, hasty, faults>>

\* The page is left, pushed or by a link that nothing disables; handlers go on.  Some
\* time later another creation page is opened.
OpenPage ==
    /\ pages < MaxPages
    /\ pages' = pages + 1
    /\ picked' = {} /\ isLoading' = FALSE /\ pushed' = FALSE
    /\ UNCHANGED <<creation, made, botched, hasty, faults>>

\* A request fails, or succeeds and its answer is lost: whatever came before stays,
\* the alert says that the creation failed, and the form can be sent again.
RequestFails(h) ==
    /\ creation[h].at \in {"create"} \cup Images
    /\ faults < MaxFaults
    /\ faults' = faults + 1
    /\ \E lost \in BOOLEAN :
         LET makes == creation[h].at = "create" /\ lost IN
         /\ made' = IF makes THEN made + 1 ELSE made
         /\ botched' = IF makes \/ creation[h].at # "create" THEN botched + 1 ELSE botched
    /\ Finally(h)
    /\ UNCHANGED <<picked, pushed, pages, hasty>>

CreatorNext ==
    \/ \E i \in Images : PickImage(i)
    \/ \E h \in Clicks : ClickCreate(h) \/ RequestDone(h) \/ Push(h) \/ RequestFails(h)
    \/ OpenPage

CreatorSpec == CreatorInit /\ [][CreatorNext]_creatorVars

-----------------------------------------------------------------------------
\* Page and requests have their types; the button is disabled while one is under way.
CreatorTypeOK ==
    /\ creation \in [Clicks -> [at : {"idle", "create", "done"} \cup Images,
                               files : SUBSET Images, page : 0..pages]]
    /\ picked \subseteq Images
    /\ isLoading <=> \E h \in Clicks : creation[h].page = pages
    /\ {isLoading, pushed} \subseteq BOOLEAN /\ {made, pages, botched, hasty, faults} \subseteq Nat

\* A creation page that is filled in makes one room, but for one more each time an
\* upload failed, or an answer was lost, after the room was there, which is reported as
\* a creation that failed; and one for each click while the next page is fetched, the
\* button being enabled before that is on the screen.
OneRoomEach == made <= pages + botched + hasty

=============================================================================
