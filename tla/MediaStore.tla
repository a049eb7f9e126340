----------------------------- MODULE MediaStore -----------------------------
(***************************************************************************)
(* The objects in S3 and the columns that name them, for one row: a room   *)
(* with a cover and a profile image, a user or a banner with one.  Uploads *)
(* of MediaService replace an image in four awaited calls, two to the      *)
(* database and two to S3; the deletes of RoomsService, AdminService and   *)
(* BannerService remove row and objects in as many, and one of them only   *)
(* the row.  No transaction spans the two stores, every call can fail, and *)
(* handlers interleave.  A handler is a job in a slot of Jobs.             *)
(***************************************************************************)
EXTENDS Naturals, FiniteSets

CONSTANTS
    Objects,  \* S3 keys; each upload makes one up, so a bound on uploads
    Jobs,     \* slots for handlers running at the same time
    None

\* The columns that hold a URL, by table.
Columns ==
    [rooms |-> {"coverImage", "profileImage"}, users |-> {"image"}, banners |-> {"imageUrl"}]

Fields == UNION {Columns[t] : t \in DOMAIN Columns}

ASSUME MediaAssumption ==
    /\ IsFiniteSet(Objects) /\ IsFiniteSet(Jobs)
    /\ None \notin Objects \cup Fields

VARIABLES
    table,   \* the table the row is of
    exists,  \* the row is in the database
    url,     \* url[f]: the object the column names; None: null, or a URL elsewhere
    stored,  \* the objects in S3
    job,     \* job[j]: the handler in slot j and what it has read and stored
    since,   \* history: columns written since the handler in slot j read them
    used,    \* history: keys made up so far
    lost,    \* history: objects let go of, each by a step that says why
    planted, \* history: updateGroupRoom wrote the URL of an object
    failed   \* history: a call failed

vars == <<table, exists, url, stored, job, since, used, lost, planted, failed>>

Nothing == [f \in Fields |-> None]

\* Replacing one field, old maps it to the URL read; deleting the row, all.
Job(at, f, old, new) == [at |-> at, field |-> f, old |-> old, new |-> new]

Idle == Job("idle", None, Nothing, None)

\* A banner is created with its image; a room or a user has none yet.
Init ==
    /\ \/ table \in {"rooms", "users"} /\ stored = {} /\ url = Nothing
       \/ table = "banners" /\ \E o \in Objects :
             stored = {o} /\ url = [Nothing EXCEPT !["imageUrl"] = o]
    /\ exists = TRUE
    /\ job = [j \in Jobs |-> Idle]
    /\ since = [j \in Jobs |-> {}]
    /\ used = stored
    /\ lost = {}
    /\ planted = FALSE
    /\ failed = FALSE

Start(j, at, f, old) ==
    /\ job[j] = Idle
    /\ job' = [job EXCEPT ![j] = Job(at, f, old, None)]

\* The objects a handler is going to delete.
Doomed(j) == {job[j].old[f] : f \in Fields} \ {None}

\* The calls to S3 are answered; what the handler had read is not used again.
DeleteObjects(j, gone, next) ==
    /\ stored' = stored \ gone
    /\ lost' = lost \ gone
    /\ job' = [job EXCEPT ![j].at = next, ![j].old = Nothing]

Done(j) ==
    /\ job' = [job EXCEPT ![j] = Idle]
    /\ since' = [since EXCEPT ![j] = {}]

\* History: the column is written; handler i has read it, and is going to write it too.
Overtakes(i, f) ==
    IF \/ job[i].field = f /\ job[i].at \in {"deleteOld", "put", "update"}
       \/ job[i].at \in {"deleteImages", "deleteRow"}
    THEN since[i] \cup {f}
    ELSE since[i]

\* History: what the columns name is let go of.
Drops(fs) == lost' = lost \cup ({url[f] : f \in fs} \cap stored)

-----------------------------------------------------------------------------
(* uploadRoomCover, uploadRoomProfile, uploadUserProfile and               *)
(* updateBannerImage: four ways to the same calls.                         *)

\* The caller owns the room, so it is there.
UploadAssertOwner(j, f) ==
    /\ table = "rooms" /\ f \in Columns[table]
    /\ exists
    /\ Start(j, "findOld", f, Nothing)
    /\ UNCHANGED <<table, exists, url, stored, since, used, lost, planted, failed>>

\* A plausible bug: the column of the other upload is read.
UploadFind_OtherField(j) ==
    /\ job[j].at = "findOld"
    /\ \E f \in Columns[table] :
         /\ f # job[j].field
         /\ job' = [job EXCEPT ![j].at = "deleteOld", ![j].old = [Nothing EXCEPT ![f] = url[f]]]
    /\ UNCHANGED <<table, exists, url, stored, since, used, lost, planted, failed>>

\* A row that is gone by now reads as one without an image.
UploadFind(j) ==
    /\ job[j].at = "findOld"
    /\ LET f == job[j].field IN
         job' = [job EXCEPT ![j].at = "deleteOld", ![j].old = [Nothing EXCEPT ![f] = url[f]]]
    /\ UNCHANGED <<table, exists, url, stored, since, used, lost, planted, failed>>

\* A user's upload checks nothing: a token outlives its user, and a user who is gone
\* reads as one without an image.  A banner has to be there.
UploadFindFirst(j, f) ==
    /\ table \in {"users", "banners"} /\ f \in Columns[table]
    /\ table = "banners" => exists
    /\ Start(j, "deleteOld", f, [Nothing EXCEPT ![f] = url[f]])
    /\ UNCHANGED <<table, exists, url, stored, since, used, lost, planted, failed>>

UploadDeleteOld(j) ==
    /\ job[j].at = "deleteOld"
    /\ DeleteObjects(j, Doomed(j), "put")
    /\ UNCHANGED <<table, exists, url, since, used, planted, failed>>

\* The key holds a fresh uuid.
UploadPut(j, o) ==
    /\ job[j].at = "put"
    /\ o \notin used
    /\ used' = used \cup {o}
    /\ stored' = stored \cup {o}
    /\ job' = [job EXCEPT ![j].at = "update", ![j].new = o]
    /\ UNCHANGED <<table, exists, url, since, lost, planted, failed>>

\* The row takes the new URL.  One written since the handler read the column is written
\* over, and its object was not deleted.
SetUrl(j) ==
    LET f == job[j].field IN
    /\ url' = [url EXCEPT ![f] = job[j].new]
    /\ Drops({f} \cap since[j])
    /\ since' = [i \in Jobs |-> IF i = j THEN {} ELSE Overtakes(i, f)]

\* A plausible bug: an upsert, which brings a row back that was deleted.
UploadUpdate_Upsert(j) ==
    /\ job[j].at = "update"
    /\ SetUrl(j)
    /\ job' = [job EXCEPT ![j] = Idle]
    /\ UNCHANGED <<table, exists, stored, used, planted, failed>>

\* The update of a row that is gone throws, and the new object stays.
UploadUpdate(j) ==
    /\ job[j].at = "update"
    /\ \/ exists /\ SetUrl(j)
       \/ /\ ~exists
          /\ lost' = lost \cup ({job[j].new} \cap stored)
          /\ since' = [since EXCEPT ![j] = {}]
          /\ UNCHANGED url
    /\ job' = [job EXCEPT ![j] = Idle]
    /\ UNCHANGED <<table, exists, stored, used, planted, failed>>

-----------------------------------------------------------------------------
(* deleteGroupRoom, AdminService.deleteRoom and deleteUser, and the delete *)
(* of a banner.                                                            *)

DeleteFind(j) ==
    /\ exists
    /\ Start(j, "deleteImages", None, url)
    /\ UNCHANGED <<table, exists, url, stored, since, used, lost, planted, failed>>

\* A plausible bug: one of the images is forgotten.
DeleteImages_One(j) ==
    /\ job[j].at = "deleteImages"
    /\ \E f \in Fields : DeleteObjects(j, {job[j].old[f]}, "deleteRow")
    /\ UNCHANGED <<table, exists, url, since, used, planted, failed>>

\* Promise.all: both are asked for, and the handler goes on when both are gone.
DeleteImages(j) ==
    /\ job[j].at = "deleteImages"
    /\ DeleteObjects(j, Doomed(j), "deleteRow")
    /\ UNCHANGED <<table, exists, url, since, used, planted, failed>>

\* The row goes, and with it what these columns name.
RowGone(fs) ==
    /\ exists' = FALSE
    /\ url' = Nothing
    /\ Drops(fs)
    /\ since' = [i \in Jobs |-> {}]

\* An image that came since goes unnoticed, and stays in S3.
DeleteRow(j) ==
    /\ job[j].at = "deleteRow"
    /\ RowGone(since[j])
    /\ job' = [job EXCEPT ![j] = Idle]
    /\ UNCHANGED <<table, stored, used, planted, failed>>

\* deleteDirectRoom asks whether the caller is a member, of a room of either type,
DirectDeleteFind(j) ==
    /\ table = "rooms" /\ exists
    /\ Start(j, "deleteDirect", None, Nothing)
    /\ UNCHANGED <<table, exists, url, stored, since, used, lost, planted, failed>>

\* and deletes the row: the images of a GROUP room stay in S3.
DirectDeleteRow(j) ==
    /\ job[j].at = "deleteDirect"
    /\ RowGone(Fields)
    /\ job' = [job EXCEPT ![j] = Idle]
    /\ UNCHANGED <<table, stored, used, planted, failed>>

-----------------------------------------------------------------------------
\* updateGroupRoom takes the two columns as strings and touches no object.  It may write
\* any URL, here one of another domain or, once (a bound), the one a column of the row
\* names; writing the one that is there changes nothing.
UpdateColumn(f, o) ==
    /\ table = "rooms" /\ f \in Columns[table]
    /\ exists /\ url[f] # o
    /\ o # None => ~planted
    /\ url' = [url EXCEPT ![f] = o]
    /\ lost' = (lost \cup ({url[f]} \cap stored)) \ {o}
    /\ since' = [i \in Jobs |-> Overtakes(i, f)]
    /\ planted' = (planted \/ o # None)
    /\ UNCHANGED <<table, exists, stored, job, used, failed>>

\* The call under way fails and the handler throws; of the deletes of S3 some may
\* have been carried out, and so may a put that is not answered.  An object put
\* before the failure is not named by any column.
Fail(j) ==
    /\ job[j] # Idle
    /\ \/ /\ UNCHANGED <<stored, used>>
          /\ lost' = lost \cup ({job[j].new} \cap stored)
       \/ /\ job[j].at \in {"deleteOld", "deleteImages"}
          /\ \E some \in SUBSET Doomed(j) : stored' = stored \ some /\ lost' = lost \ some
          /\ UNCHANGED used
       \/ /\ job[j].at = "put"
          /\ \E o \in Objects \ used :
               stored' = stored \cup {o} /\ used' = used \cup {o} /\ lost' = lost \cup {o}
    /\ failed' = TRUE
    /\ Done(j)
    /\ UNCHANGED <<table, exists, url, planted>>

Next ==
    \/ \E f \in Fields, o \in {url[g] : g \in Fields} \cup {None} : UpdateColumn(f, o)
    \/ \E j \in Jobs :
        \/ \E f \in Fields : UploadAssertOwner(j, f) \/ UploadFindFirst(j, f)
        \/ UploadFind(j)
        \/ UploadDeleteOld(j)
        \/ \E o \in Objects : UploadPut(j, o)
        \/ UploadUpdate(j)
        \/ DeleteFind(j)
        \/ DeleteImages(j)
        \/ DeleteRow(j)
        \/ DirectDeleteFind(j)
        \/ DirectDeleteRow(j)
        \/ Fail(j)

Spec == Init /\ [][Next]_vars

-----------------------------------------------------------------------------
\* Row, store and handlers have their types; a row that is gone names nothing, and an
\* upload is of a column.
TypeOK ==
    /\ table \in DOMAIN Columns
    /\ exists \in BOOLEAN
    /\ url \in [Fields -> used \cup {None}]
    /\ ~exists => url = Nothing
    /\ stored \subseteq used /\ used \subseteq Objects /\ lost \subseteq used
    /\ job \in [Jobs -> [at    : {"idle", "findOld", "deleteOld", "put", "update",
                                 "deleteImages", "deleteRow", "deleteDirect"},
                        field : Fields \cup {None},
                        old   : [Fields -> used \cup {None}],
                        new   : used \cup {None}]]
    /\ \A j \in Jobs : job[j].at \in {"findOld", "deleteOld", "put", "update"} =>
                       job[j].field \in Fields
    /\ since \in [Jobs -> SUBSET Fields]
    /\ {planted, failed} \subseteq BOOLEAN

\* Handlers that are going to write the column, or to delete the row.
Writers(f) ==
    {j \in Jobs : \/ job[j].field = f /\ job[j].at \in {"put", "update"}
                  \/ job[j].at = "deleteRow"}

\* A column names an object that is there, but for the time an upload or delete
\* takes between S3 and the database: races alone never leave a broken image,
\* however uploads and deletes overlap.  A failed call can, and updateGroupRoom when it
\* writes the URL of an object.
BrokenOnlyByFailure ==
    \A f \in Fields :
        url[f] = None \/ url[f] \in stored \/ Writers(f) # {} \/ failed \/ planted

\* The objects that a column names, or an upload is going to name.
Named == {url[f] : f \in Fields} \cup {job[j].new : j \in {i \in Jobs : job[i].at = "update"}}

\* An object in S3 that nothing names, and so nobody will ever delete, is one of those
\* that were let go of: by an upload or a delete over an image that came after it
\* had read the column; by an upload whose row was gone, of a user with an old token
\* too; by deleteDirectRoom on a GROUP room; by updateGroupRoom writing the column; or
\* by a failed put or update.  What else happened meanwhile excuses nothing.
LeakExplained == stored \subseteq Named \cup lost

=============================================================================
