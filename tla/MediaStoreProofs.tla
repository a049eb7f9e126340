--------------------------- MODULE MediaStoreProofs -------------------------
(***************************************************************************)
(* Proofs that races alone never leave a column without its object, and    *)
(* that an object is left behind only by the steps LeakExplained names, for*)
(* any number of objects and handlers.                                     *)
(***************************************************************************)
EXTENDS MediaStore, TLAPS

-----------------------------------------------------------------------------
(* Types.                                                                  *)

Awaits == {"idle", "findOld", "deleteOld", "put", "update", "deleteImages", "deleteRow",
           "deleteDirect"}

Uploading == {"deleteOld", "put", "update"}

Slots(keys) ==
    [at : Awaits, field : Fields \cup {None}, old : [Fields -> keys \cup {None}],
     new : keys \cup {None}]

LEMMA TypeShape ==
    TypeOK <=> /\ table \in DOMAIN Columns /\ exists \in BOOLEAN
               /\ url \in [Fields -> used \cup {None}]
               /\ ~exists => url = Nothing
               /\ stored \subseteq used /\ used \subseteq Objects /\ lost \subseteq used
               /\ job \in [Jobs -> Slots(used)]
               /\ \A j \in Jobs : job[j].at \in {"findOld", "deleteOld", "put", "update"} =>
                                  job[j].field \in Fields
               /\ since \in [Jobs -> SUBSET Fields]
               /\ planted \in BOOLEAN /\ failed \in BOOLEAN
  BY DEF TypeOK, Slots, Awaits

LEMMA IdleTyped == Idle \in Slots(used) /\ Nothing \in [Fields -> used \cup {None}]
  BY DEF Idle, Job, Slots, Awaits, Nothing

\* More keys are in use after a put: what was typed stays so.
LEMMA Grows ==
    ASSUME NEW a, NEW b, a \subseteq b
    PROVE  /\ Slots(a) \subseteq Slots(b)
           /\ [Fields -> a \cup {None}] \subseteq [Fields -> b \cup {None}]
  BY DEF Slots

\* What a handler that goes on carries.
LEMMA SlotMoves ==
    ASSUME NEW keys, NEW w \in Slots(keys), NEW at \in Awaits
    PROVE  /\ \A new \in keys : [w EXCEPT !.at = at, !.new = new] \in Slots(keys)
           /\ \A old \in [Fields -> keys \cup {None}] :
                 [w EXCEPT !.at = at, !.old = old] \in Slots(keys)
  BY DEF Slots

LEMMA FieldsKnown == /\ "imageUrl" \in Fields /\ DOMAIN Columns = {"rooms", "users", "banners"}
                     /\ \A t \in DOMAIN Columns : Columns[t] \subseteq Fields
  BY DEF Fields, Columns

LEMMA InitTyped == Init => TypeOK
<1> SUFFICES ASSUME Init PROVE TypeOK
  OBVIOUS
<1>1. table \in DOMAIN Columns
  BY FieldsKnown DEF Init
<1>2. url \in [Fields -> used \cup {None}] /\ stored \subseteq Objects
  BY IdleTyped, FieldsKnown DEF Init, Nothing
<1>3. /\ job \in [Jobs -> Slots(used)] /\ since \in [Jobs -> SUBSET Fields]
      /\ \A j \in Jobs : job[j].at = "idle"
  BY IdleTyped DEF Init, Idle, Job
<1> QED
  BY <1>1, <1>2, <1>3, TypeShape DEF Init

\* The columns written stay columns.
LEMMA SinceTyped ==
    ASSUME since \in [Jobs -> SUBSET Fields], NEW f \in Fields, NEW j
    PROVE  /\ [i \in Jobs |-> Overtakes(i, f)] \in [Jobs -> SUBSET Fields]
           /\ [i \in Jobs |-> IF i = j THEN {} ELSE Overtakes(i, f)] \in [Jobs -> SUBSET Fields]
  BY DEF Overtakes

\* A handler starts with what it has read.
LEMMA StartTyped ==
    ASSUME TypeOK, NEW j \in Jobs, NEW at, NEW f, NEW old,
           Job(at, f, old, None) \in Slots(used),
           at \in {"findOld", "deleteOld", "put", "update"} => f \in Fields,
           Start(j, at, f, old),
           UNCHANGED <<table, exists, url, stored, since, used, lost, planted, failed>>
    PROVE  TypeOK'
<1>1. job' \in [Jobs -> Slots(used)]
  BY TypeShape DEF Start
<1>2. \A i \in Jobs : job'[i] = job[i] \/ (i = j /\ job'[i].at = at /\ job'[i].field = f)
  BY TypeShape DEF Start, Job
<1> QED
  BY <1>1, <1>2 DEF TypeOK, Slots, Awaits

LEMMA NextTyped == TypeOK /\ [Next]_vars => TypeOK'
<1> SUFFICES ASSUME TypeOK, [Next]_vars
             PROVE  TypeOK'
  OBVIOUS
<1> USE TypeShape
<1>1. ASSUME NEW j \in Jobs, NEW f \in Fields, UploadAssertOwner(j, f)
      PROVE  TypeOK'
  <2>1. Job("findOld", f, Nothing, None) \in Slots(used)
    BY IdleTyped DEF Job, Slots, Awaits
  <2> QED
    BY <1>1, <2>1, StartTyped DEF UploadAssertOwner
<1>12. ASSUME NEW j \in Jobs, NEW f \in Fields, UploadFindFirst(j, f)
       PROVE  TypeOK'
  <2>1. [Nothing EXCEPT ![f] = url[f]] \in [Fields -> used \cup {None}]
    BY IdleTyped DEF Nothing
  <2>2. Job("deleteOld", f, [Nothing EXCEPT ![f] = url[f]], None) \in Slots(used)
    BY <2>1 DEF Job, Slots, Awaits
  <2> QED
    BY <1>12, <2>2, StartTyped DEF UploadFindFirst
<1>2. ASSUME NEW j \in Jobs, UploadFind(j)
      PROVE  TypeOK'
  <2>1. PICK f : f = job[j].field /\ job' = [job EXCEPT ![j].at = "deleteOld",
                                               ![j].old = [Nothing EXCEPT ![f] = url[f]]]
    BY <1>2 DEF UploadFind
  <2>2. [Nothing EXCEPT ![f] = url[f]] \in [Fields -> used \cup {None}]
    BY IdleTyped DEF Nothing
  <2>3. [job[j] EXCEPT !.at = "deleteOld", !.old = [Nothing EXCEPT ![f] = url[f]]] \in Slots(used)
    <3>1. job[j] \in Slots(used) /\ "deleteOld" \in Awaits
      BY DEF Awaits
    <3> QED
      BY <2>2, <3>1, SlotMoves
  <2>4. job' \in [Jobs -> Slots(used)]
    BY <2>1, <2>3
  <2> QED
    BY <1>2, <2>4 DEF UploadFind, TypeOK, Slots, Awaits
<1>3. ASSUME NEW j \in Jobs, UploadDeleteOld(j)
      PROVE  TypeOK'
  <2>1. job' \in [Jobs -> Slots(used)]
    BY <1>3, IdleTyped DEF UploadDeleteOld, DeleteObjects, Slots, Awaits
  <2> QED
    BY <1>3, <2>1 DEF UploadDeleteOld, DeleteObjects, TypeOK, Slots, Awaits
<1>4. ASSUME NEW j \in Jobs, NEW o \in Objects, UploadPut(j, o)
      PROVE  TypeOK'
  <2>1. used \subseteq used' /\ o \in used' /\ used' \subseteq Objects
    BY <1>4 DEF UploadPut
  <2>2. job \in [Jobs -> Slots(used')] /\ url \in [Fields -> used' \cup {None}]
    BY <2>1, Grows
  <2>3. [job[j] EXCEPT !.at = "update", !.new = o] \in Slots(used')
    <3>1. job[j] \in Slots(used') /\ "update" \in Awaits
      BY <2>2 DEF Awaits
    <3> QED
      BY <2>1, <3>1, SlotMoves
  <2>4. job' \in [Jobs -> Slots(used')]
    BY <1>4, <2>2, <2>3 DEF UploadPut
  <2> QED
    BY <1>4, <2>1, <2>2, <2>4 DEF UploadPut, TypeOK, Slots, Awaits
<1>5. ASSUME NEW j \in Jobs, UploadUpdate(j)
      PROVE  TypeOK'
  <2>1. job' \in [Jobs -> Slots(used)]
    BY <1>5, IdleTyped DEF UploadUpdate
  <2>2. job[j].new \in used \cup {None} /\ job[j].field \in Fields \cup {None}
    BY DEF Slots
  <2>3. url' \in [Fields -> used \cup {None}] /\ (~exists => url' = Nothing)
    BY <1>5, <2>2 DEF UploadUpdate, SetUrl
  <2>4. lost' \subseteq used
    <3>1. stored \subseteq used /\ lost \subseteq used
      OBVIOUS
    <3>2. CASE exists /\ SetUrl(j)
      BY <3>1, <3>2 DEF SetUrl, Drops
    <3>3. CASE lost' = lost \cup ({job[j].new} \cap stored)
      BY <3>1, <3>3
    <3> QED
      BY <1>5, <3>2, <3>3 DEF UploadUpdate
  <2>5. since' \in [Jobs -> SUBSET Fields]
    <3>1. job[j].field \in Fields
      BY <1>5 DEF UploadUpdate
    <3>2. CASE exists /\ SetUrl(j)
      BY <3>1, <3>2, SinceTyped DEF SetUrl
    <3>3. CASE since' = [since EXCEPT ![j] = {}]
      BY <3>3
    <3> QED
      BY <1>5, <3>2, <3>3 DEF UploadUpdate
  <2>6. \A i \in Jobs : job'[i] \in {job[i], Idle} /\ Idle.at = "idle"
    BY <1>5 DEF UploadUpdate, Idle, Job
  <2> QED
    BY <1>5, <2>1, <2>3, <2>4, <2>5, <2>6 DEF UploadUpdate, TypeOK, Slots, Awaits
<1>6. ASSUME NEW j \in Jobs, DeleteFind(j)
      PROVE  TypeOK'
  <2>1. Job("deleteImages", None, url, None) \in Slots(used)
    BY DEF Job, Slots, Awaits
  <2> QED
    BY <1>6, <2>1, StartTyped DEF DeleteFind
<1>7. ASSUME NEW j \in Jobs, DeleteImages(j)
      PROVE  TypeOK'
  <2>1. job' \in [Jobs -> Slots(used)]
    BY <1>7, IdleTyped DEF DeleteImages, DeleteObjects, Slots, Awaits
  <2> QED
    BY <1>7, <2>1 DEF DeleteImages, DeleteObjects, TypeOK, Slots, Awaits
<1>8. ASSUME NEW j \in Jobs, DeleteRow(j) \/ DirectDeleteRow(j)
      PROVE  TypeOK'
  <2>1. job' \in [Jobs -> Slots(used)]
    BY <1>8, IdleTyped DEF DeleteRow, DirectDeleteRow
  <2>2. lost' \subseteq used
    BY <1>8 DEF DeleteRow, DirectDeleteRow, RowGone, Drops, TypeOK
  <2>3. \A i \in Jobs : job'[i] \in {job[i], Idle} /\ Idle.at = "idle"
    BY <1>8 DEF DeleteRow, DirectDeleteRow, Idle, Job
  <2> QED
    BY <1>8, <2>1, <2>2, <2>3, IdleTyped
       DEF DeleteRow, DirectDeleteRow, RowGone, TypeOK, Slots, Awaits
<1>13. ASSUME NEW j \in Jobs, DirectDeleteFind(j)
       PROVE  TypeOK'
  <2>1. Job("deleteDirect", None, Nothing, None) \in Slots(used)
    BY IdleTyped DEF Job, Slots, Awaits
  <2> QED
    BY <1>13, <2>1, StartTyped DEF DirectDeleteFind
<1>9. ASSUME NEW j \in Jobs, Fail(j)
      PROVE  TypeOK'
  <2>1. /\ used \subseteq used' /\ used' \subseteq Objects
        /\ stored' \subseteq used' /\ lost' \subseteq used'
    BY <1>9 DEF Fail
  <2>2. job \in [Jobs -> Slots(used')] /\ url \in [Fields -> used' \cup {None}]
    BY <2>1, Grows
  <2>3. Idle \in Slots(used')
    BY DEF Idle, Job, Slots, Awaits, Nothing
  <2>4. job' \in [Jobs -> Slots(used')]
    BY <1>9, <2>2, <2>3 DEF Fail, Done
  <2>5. since' \in [Jobs -> SUBSET Fields]
    BY <1>9 DEF Fail, Done
  <2>6. \A i \in Jobs : job'[i] \in {job[i], Idle} /\ Idle.at = "idle"
    BY <1>9 DEF Fail, Done, Idle, Job
  <2> QED
    BY <1>9, <2>1, <2>2, <2>4, <2>5, <2>6 DEF Fail, TypeOK, Slots, Awaits
<1>10. ASSUME NEW f \in Fields, NEW o \in used \cup {None}, UpdateColumn(f, o)
       PROVE  TypeOK'
  <2>1. url' \in [Fields -> used \cup {None}] /\ exists
    BY <1>10 DEF UpdateColumn
  <2>2. since' \in [Jobs -> SUBSET Fields]
    BY <1>10, SinceTyped DEF UpdateColumn
  <2> QED
    BY <1>10, <2>1, <2>2 DEF UpdateColumn, TypeOK, Slots, Awaits
<1>11. CASE UNCHANGED vars
  BY <1>11 DEF vars, TypeOK
<1>14. \A g \in Fields : url[g] \in used \cup {None}
  OBVIOUS
<1> QED
  BY <1>1, <1>2, <1>3, <1>4, <1>5, <1>6, <1>7, <1>8, <1>9, <1>10, <1>11, <1>12, <1>13, <1>14
     DEF Next

\* The row, the store and the handlers keep their types, and a row that was deleted
\* names no object: no late update brings it back.
THEOREM TypeCorrect == Spec => []TypeOK
  BY InitTyped, NextTyped, PTL DEF Spec

-----------------------------------------------------------------------------
(* The inductive invariant.  An object belongs to one column for as long   *)
(* as anybody knows of it, so that a handler only ever deletes what the    *)
(* column it is about to write may name; and what a handler has stored is  *)
(* known to nobody else until the column names it, so that it is there     *)
(* when it does.                                                           *)

\* Column f, or a handler of it, knows the object.
Names(f, o) ==
    /\ o # None
    /\ \/ url[f] = o
       \/ \E j \in Jobs : job[j].old[f] = o \/ (job[j].field = f /\ job[j].new = o)

OneColumn ==
    \A j \in Jobs, f \in Fields :
        job[j].at = "deleteOld" /\ job[j].old[f] # None => f = job[j].field

Apart == \A f, g \in Fields, o \in used : Names(f, o) /\ Names(g, o) => f = g

Fresh ==
    \A j \in Jobs : job[j].at = "update" =>
        /\ job[j].new \in stored
        /\ \A f \in Fields : url[f] # job[j].new /\ \A i \in Jobs : job[i].old[f] # job[j].new
        /\ \A i \in Jobs \ {j} : job[i].at = "update" => job[i].new # job[j].new

\* BrokenOnlyByFailure without its excuses, and without the set.
Whole ==
    \A f \in Fields :
        \/ url[f] = None
        \/ url[f] \in stored
        \/ \E j \in Jobs : \/ job[j].field = f /\ job[j].at \in {"put", "update"}
                         \/ job[j].at = "deleteRow"

IInv == TypeOK /\ (failed \/ planted \/ (OneColumn /\ Apart /\ Fresh /\ Whole))

LEMMA WholeIsBroken == BrokenOnlyByFailure <=> failed \/ planted \/ Whole
  BY DEF BrokenOnlyByFailure, Whole, Writers

LEMMA InitWhole == Init => IInv
<1> SUFFICES ASSUME Init PROVE IInv
  OBVIOUS
<1>1. \A f \in Fields : url[f] = None \/ (f = "imageUrl" /\ url[f] \in stored)
  BY DEF Init, Nothing
<1>2. \A j \in Jobs : /\ job[j].at = "idle" /\ job[j].new = None
                      /\ \A f \in Fields : job[j].old[f] = None
  BY DEF Init, Idle, Job, Nothing
<1>3. Apart
  BY <1>1, <1>2 DEF Apart, Names
<1> QED
  BY <1>1, <1>2, <1>3, InitTyped DEF IInv, OneColumn, Fresh, Whole

\* The columns stay apart when nobody comes to know of an object of another one.
LEMMA StaysApart ==
    ASSUME Apart, used' = used,
           \A f \in Fields, o \in used : Names(f, o)' => Names(f, o)
    PROVE  Apart'
  BY DEF Apart

\* A handler starts, with what it has read of the columns, or with nothing.
LEMMA StartKeeps ==
    ASSUME TypeOK, OneColumn, Apart, Fresh, Whole,
           NEW j \in Jobs, NEW at \in {"findOld", "deleteOld", "deleteImages", "deleteDirect"},
           NEW f, NEW old, \A g \in Fields : old[g] \in {url[g], None},
           at = "deleteOld" => \A g \in Fields : old[g] # None => g = f,
           Start(j, at, f, old), UNCHANGED <<url, stored, used>>
    PROVE  OneColumn' /\ Apart' /\ Fresh' /\ Whole'
<1>1. /\ job[j].at = "idle"
      /\ job'[j].at = at /\ job'[j].field = f /\ job'[j].old = old /\ job'[j].new = None
      /\ \A i \in Jobs \ {j} : job'[i] = job[i]
  BY TypeShape DEF Start, Job, Idle
<1>2. OneColumn'
  BY <1>1 DEF OneColumn
<1>3. \A g \in Fields, o \in used : Names(g, o)' => Names(g, o)
  BY <1>1 DEF Names
<1>4. Apart'
  BY <1>3, StaysApart
<1>5. \A i \in Jobs, g \in Fields : job'[i].old[g] \in {job[i].old[g], url[g], None}
  BY <1>1
<1>6. \A i \in Jobs : job'[i].at = "update" => job[i].at = "update" /\ job'[i] = job[i]
  BY <1>1
<1>7. \A i \in Jobs : job[i].at = "update" => job[i].new # None
  BY TypeShape, MediaAssumption DEF Fresh
<1>8. Fresh'
  BY <1>5, <1>6, <1>7 DEF Fresh
<1>9. Whole'
  BY <1>1 DEF Whole
<1> QED
  BY <1>2, <1>4, <1>8, <1>9

LEMMA NextWhole ==
    ASSUME IInv, Next
    PROVE  IInv'
<1> TypeOK /\ TypeOK'
  BY NextTyped DEF IInv
<1>a. job \in [Jobs -> Slots(used)]
  BY TypeShape
<1>b. CASE failed \/ planted
  <2>1. failed \in BOOLEAN /\ planted \in BOOLEAN
    BY TypeShape
  <2>2. failed' = failed \/ failed' = TRUE
    BY DEF Next, UploadAssertOwner, UploadFind, UploadFindFirst, UploadDeleteOld, UploadPut,
        UploadUpdate, DeleteFind, DeleteImages, DeleteRow, DirectDeleteFind, DirectDeleteRow,
        UpdateColumn, Fail
  <2>3. planted' = planted \/ \E o : planted' = (planted \/ o # None)
    BY DEF Next, UploadAssertOwner, UploadFind, UploadFindFirst, UploadDeleteOld, UploadPut,
        UploadUpdate, DeleteFind, DeleteImages, DeleteRow, DirectDeleteFind, DirectDeleteRow,
        UpdateColumn, Fail
  <2> QED
    BY <1>b, <2>2, <2>3 DEF IInv
<1>c. CASE ~(failed \/ planted)
  <2> USE <1>a
  <2> OneColumn /\ Apart /\ Fresh /\ Whole
    BY <1>c DEF IInv
  <2>n. \A j \in Jobs : job[j].at = "update" => job[j].new # None
    BY TypeShape, MediaAssumption DEF Fresh
  <2> SUFFICES ASSUME ~failed', ~planted' PROVE OneColumn' /\ Apart' /\ Fresh' /\ Whole'
    BY DEF IInv
  <2>1. ASSUME NEW j \in Jobs, NEW f \in Fields, UploadAssertOwner(j, f)
        PROVE  OneColumn' /\ Apart' /\ Fresh' /\ Whole'
    BY <2>1, StartKeeps DEF UploadAssertOwner, Nothing
  <2>2. ASSUME NEW j \in Jobs, DeleteFind(j)
        PROVE  OneColumn' /\ Apart' /\ Fresh' /\ Whole'
    BY <2>2, StartKeeps DEF DeleteFind
  <2>11. ASSUME NEW j \in Jobs, NEW f \in Fields, UploadFindFirst(j, f)
         PROVE  OneColumn' /\ Apart' /\ Fresh' /\ Whole'
    BY <2>11, StartKeeps DEF UploadFindFirst, Nothing
  <2>12. ASSUME NEW j \in Jobs, DirectDeleteFind(j)
         PROVE  OneColumn' /\ Apart' /\ Fresh' /\ Whole'
    BY <2>12, StartKeeps DEF DirectDeleteFind, Nothing
  <2>3. ASSUME NEW j \in Jobs, UploadFind(j)
        PROVE  OneColumn' /\ Apart' /\ Fresh' /\ Whole'
    <3>1. /\ job[j].at = "findOld"
          /\ job'[j].at = "deleteOld" /\ job'[j].field = job[j].field /\ job'[j].new = job[j].new
          /\ \A g \in Fields : job'[j].old[g] = IF g = job[j].field THEN url[g] ELSE None
          /\ \A i \in Jobs \ {j} : job'[i] = job[i]
      BY <2>3 DEF UploadFind, Nothing, Slots
    <3>2. UNCHANGED <<url, stored, used>>
      BY <2>3 DEF UploadFind
    <3>3. OneColumn'
      BY <3>1 DEF OneColumn
    <3>4. \A g \in Fields, o \in used : Names(g, o)' => Names(g, o)
      BY <3>1, <3>2 DEF Names
    <3>5. Apart'
      BY <3>2, <3>4, StaysApart
    <3>6. \A i \in Jobs, g \in Fields : job'[i].old[g] \in {job[i].old[g], url[g], None}
      BY <3>1
    <3>7. \A i \in Jobs : job'[i].at = "update" => job[i].at = "update" /\ job'[i] = job[i]
      BY <3>1
    <3>8. Fresh'
      BY <3>2, <3>6, <3>7, <2>n DEF Fresh
    <3>9. Whole'
      BY <3>1, <3>2 DEF Whole
    <3> QED
      BY <3>3, <3>5, <3>8, <3>9
  <2>4. ASSUME NEW j \in Jobs, UploadDeleteOld(j)
        PROVE  OneColumn' /\ Apart' /\ Fresh' /\ Whole'
    <3>1. /\ job[j].at = "deleteOld"
          /\ job'[j].at = "put" /\ job'[j].field = job[j].field
          /\ job'[j].old = Nothing /\ job'[j].new = job[j].new
          /\ \A i \in Jobs \ {j} : job'[i] = job[i]
      BY <2>4 DEF UploadDeleteOld, DeleteObjects, Slots
    <3>2. UNCHANGED <<url, used>> /\ stored' = stored \ Doomed(j)
      BY <2>4 DEF UploadDeleteOld, DeleteObjects
    <3>3. OneColumn'
      BY <3>1 DEF OneColumn
    <3>4. \A g \in Fields, o \in used : Names(g, o)' => Names(g, o)
      BY <3>1, <3>2 DEF Names, Nothing
    <3>5. Apart'
      BY <3>2, <3>4, StaysApart
    <3>6. \A i \in Jobs : job[i].at = "update" => job[i].new \notin Doomed(j)
      BY DEF Fresh, Doomed
    <3>7. Fresh'
      BY <3>1, <3>2, <3>6, <2>n DEF Fresh, Nothing
    <3>8. ASSUME NEW g \in Fields, url[g] # None, url[g] \in Doomed(j)
          PROVE  g = job[j].field
      <4>1. PICK f \in Fields : job[j].old[f] = url[g]
        BY <3>8 DEF Doomed
      <4>2. f = job[j].field
        BY <4>1, <3>1, <3>8 DEF OneColumn
      <4>3. url[g] \in used
        BY <3>8, TypeShape
      <4>4. Names(f, url[g]) /\ Names(g, url[g])
        BY <4>1, <3>8 DEF Names
      <4> QED
        BY <4>2, <4>3, <4>4 DEF Apart
    <3>9. Whole'
      BY <3>1, <3>2, <3>8 DEF Whole
    <3> QED
      BY <3>3, <3>5, <3>7, <3>9
  <2>5. ASSUME NEW j \in Jobs, NEW o \in Objects, UploadPut(j, o)
        PROVE  OneColumn' /\ Apart' /\ Fresh' /\ Whole'
    <3>1. /\ job[j].at = "put"
          /\ job'[j].at = "update" /\ job'[j].field = job[j].field
          /\ job'[j].old = job[j].old /\ job'[j].new = o
          /\ \A i \in Jobs \ {j} : job'[i] = job[i]
      BY <2>5 DEF UploadPut, Slots
    <3>2. url' = url /\ o \notin used /\ used' = used \cup {o} /\ stored' = stored \cup {o}
      BY <2>5 DEF UploadPut
    <3>3. o # None
      BY MediaAssumption
    <3>4. /\ \A f \in Fields : url[f] # o
          /\ \A i \in Jobs : job[i].new # o /\ \A f \in Fields : job[i].old[f] # o
      <4>1. url \in [Fields -> used \cup {None}] /\ o \notin used \cup {None}
        BY <3>2, <3>3, TypeShape
      <4> QED
        BY <4>1 DEF Slots
    <3>5. OneColumn'
      BY <3>1 DEF OneColumn
    <3>6. \A g \in Fields, p \in used' :
             Names(g, p)' => \/ p \in used /\ Names(g, p)
                             \/ p = o /\ g = job[j].field
      BY <3>1, <3>2, <3>4 DEF Names
    <3>7. Apart'
      BY <3>2, <3>6 DEF Apart
    <3>8. Fresh'
      BY <3>1, <3>2, <3>4 DEF Fresh
    <3>9. Whole'
      BY <3>1, <3>2 DEF Whole
    <3> QED
      BY <3>5, <3>7, <3>8, <3>9
  <2>6. ASSUME NEW j \in Jobs, UploadUpdate(j)
        PROVE  OneColumn' /\ Apart' /\ Fresh' /\ Whole'
    <3>1. /\ job[j].at = "update"
          /\ job'[j].at = "idle" /\ job'[j].field = None /\ job'[j].new = None
          /\ \A g \in Fields : job'[j].old[g] = None
          /\ \A i \in Jobs \ {j} : job'[i] = job[i]
      BY <2>6 DEF UploadUpdate, Idle, Job, Nothing
    <3>2. UNCHANGED <<used, stored>>
      BY <2>6 DEF UploadUpdate
    <3>3. \A g \in Fields :
             \/ url'[g] = url[g] /\ (g # job[j].field \/ url[g] = None)
             \/ url'[g] = job[j].new /\ g = job[j].field
      BY <2>6, TypeShape DEF UploadUpdate, SetUrl, Nothing
    <3>4. OneColumn'
      BY <3>1 DEF OneColumn
    <3>5. \A g \in Fields, o \in used : Names(g, o)' => Names(g, o)
      BY <3>1, <3>3 DEF Names
    <3>6. Apart'
      BY <3>2, <3>5, StaysApart
    <3>7. Fresh'
      BY <3>1, <3>2, <3>3, <2>n DEF Fresh
    <3>8. job[j].new \in stored
      BY <3>1 DEF Fresh
    <3>9. Whole'
      BY <3>1, <3>2, <3>3, <3>8 DEF Whole
    <3> QED
      BY <3>4, <3>6, <3>7, <3>9
  <2>7. ASSUME NEW j \in Jobs, DeleteImages(j)
        PROVE  OneColumn' /\ Apart' /\ Fresh' /\ Whole'
    <3>1. /\ job[j].at = "deleteImages"
          /\ job'[j].at = "deleteRow" /\ job'[j].field = job[j].field
          /\ job'[j].old = Nothing /\ job'[j].new = job[j].new
          /\ \A i \in Jobs \ {j} : job'[i] = job[i]
      BY <2>7 DEF DeleteImages, DeleteObjects, Slots
    <3>2. UNCHANGED <<url, used>> /\ stored' = stored \ Doomed(j)
      BY <2>7 DEF DeleteImages, DeleteObjects
    <3>3. OneColumn'
      BY <3>1 DEF OneColumn
    <3>4. \A g \in Fields, o \in used : Names(g, o)' => Names(g, o)
      BY <3>1, <3>2 DEF Names, Nothing
    <3>5. Apart'
      BY <3>2, <3>4, StaysApart
    <3>6. \A i \in Jobs : job[i].at = "update" => job[i].new \notin Doomed(j)
      BY DEF Fresh, Doomed
    <3>7. Fresh'
      BY <3>1, <3>2, <3>6, <2>n DEF Fresh, Nothing
    <3>8. Whole'
      BY <3>1 DEF Whole
    <3> QED
      BY <3>3, <3>5, <3>7, <3>8
  <2>8. ASSUME NEW j \in Jobs, DeleteRow(j) \/ DirectDeleteRow(j)
        PROVE  OneColumn' /\ Apart' /\ Fresh' /\ Whole'
    <3>1. /\ job'[j].at = "idle" /\ job'[j].field = None /\ job'[j].new = None
          /\ \A g \in Fields : job'[j].old[g] = None
          /\ \A i \in Jobs \ {j} : job'[i] = job[i]
      BY <2>8 DEF DeleteRow, DirectDeleteRow, Idle, Job, Nothing
    <3>2. UNCHANGED <<used, stored>> /\ \A g \in Fields : url'[g] = None
      BY <2>8 DEF DeleteRow, DirectDeleteRow, RowGone, Nothing
    <3>3. OneColumn'
      BY <3>1 DEF OneColumn
    <3>4. \A g \in Fields, o \in used : Names(g, o)' => Names(g, o)
      BY <3>1, <3>2 DEF Names
    <3>5. Apart'
      BY <3>2, <3>4, StaysApart
    <3>6. Fresh'
      BY <3>1, <3>2, <2>n DEF Fresh
    <3>7. Whole'
      BY <3>2 DEF Whole
    <3> QED
      BY <3>3, <3>5, <3>6, <3>7
  <2>9. ASSUME NEW f \in Fields, NEW o \in used \cup {None}, UpdateColumn(f, o)
        PROVE  OneColumn' /\ Apart' /\ Fresh' /\ Whole'
    <3>1. UNCHANGED <<used, stored, job>> /\ \A g \in Fields : url'[g] \in {url[g], None}
      BY <2>9, TypeShape DEF UpdateColumn
    <3>2. OneColumn'
      BY <3>1 DEF OneColumn
    <3>3. \A g \in Fields, p \in used : Names(g, p)' => Names(g, p)
      BY <3>1 DEF Names
    <3>4. Apart'
      BY <3>1, <3>3, StaysApart
    <3>5. Fresh'
      BY <3>1, <2>n DEF Fresh
    <3>6. Whole'
      BY <3>1 DEF Whole
    <3> QED
      BY <3>2, <3>4, <3>5, <3>6
  <2>10. ASSUME NEW j \in Jobs, Fail(j)
         PROVE  OneColumn' /\ Apart' /\ Fresh' /\ Whole'
    BY <2>10 DEF Fail
  <2>13. \A g \in Fields : url[g] \in used \cup {None}
    BY TypeShape
  <2> QED
    BY <2>1, <2>2, <2>3, <2>4, <2>5, <2>6, <2>7, <2>8, <2>9, <2>10, <2>11, <2>12,
       <2>13 DEF Next
<1> QED
  BY <1>b, <1>c

LEMMA StutterWhole == IInv /\ UNCHANGED vars => IInv'
  BY DEF IInv, vars, TypeOK, OneColumn, Apart, Names, Fresh, Whole

\* However uploads, deletes and updates of a row overlap, and however many there
\* are, a column names an object that is in S3 or is about to be written, unless
\* a call has failed or updateGroupRoom has written the URL of an object.
THEOREM NoBrokenImages == Spec => []BrokenOnlyByFailure
<1>1. Init => IInv
  BY InitWhole
<1>2. IInv /\ [Next]_vars => IInv'
  BY NextWhole, StutterWhole
<1>3. IInv => BrokenOnlyByFailure
  BY WholeIsBroken DEF IInv
<1> QED
  BY <1>1, <1>2, <1>3, PTL DEF Spec

-----------------------------------------------------------------------------
(* Leaks.  A handler that has deleted what it read leaves nothing in the   *)
(* columns it is going to write, but for those written since; so that the  *)
(* steps that let go of an object are those that say so.                   *)

\* What a handler has read the columns still name.
StillNamed ==
    \A j \in Jobs : \A f \in Fields \ since[j] :
        (job[j].at = "deleteOld" /\ job[j].field = f) \/ job[j].at = "deleteImages"
        => url[f] = job[j].old[f]

\* What it deleted they name, or nothing.
Emptied ==
    \A j \in Jobs : \A f \in Fields \ since[j] :
        (job[j].at \in {"put", "update"} /\ job[j].field = f) \/ job[j].at = "deleteRow"
        => url[f] \notin stored

LeakInv == TypeOK /\ (exists => StillNamed /\ Emptied) /\ LeakExplained

LEMMA InitExplained == Init => LeakInv
<1> SUFFICES ASSUME Init PROVE LeakInv
  OBVIOUS
<1>1. \A j \in Jobs : job[j].at = "idle"
  BY DEF Init, Idle, Job
<1>2. stored \subseteq {url[f] : f \in Fields}
  BY FieldsKnown DEF Init, Nothing
<1> QED
  BY <1>1, <1>2, InitTyped DEF LeakInv, StillNamed, Emptied, LeakExplained, Named

\* A handler starts, having read nothing, its column or the row.
LEMMA StartExplained ==
    ASSUME LeakInv, TypeOK', NEW j \in Jobs, NEW at, NEW f, NEW old, Start(j, at, f, old),
           at \in {"findOld", "deleteDirect"} \/ (at = "deleteOld" /\ old[f] = url[f])
               \/ (at = "deleteImages" /\ old = url),
           UNCHANGED <<exists, url, stored, since, lost>>
    PROVE  LeakInv'
<1>1. /\ job[j].at = "idle" /\ job'[j].at = at /\ job'[j].field = f /\ job'[j].old = old
      /\ \A i \in Jobs \ {j} : job'[i] = job[i]
  BY TypeShape DEF LeakInv, Start, Job, Idle
<1>2. exists => StillNamed' /\ Emptied'
  BY <1>1 DEF LeakInv, StillNamed, Emptied
<1>3. LeakExplained'
  BY <1>1 DEF LeakInv, LeakExplained, Named
<1> QED
  BY <1>2, <1>3 DEF LeakInv

\* A handler ends, and nothing is said of it any more.
LEMMA EndKeeps ==
    ASSUME StillNamed, Emptied, NEW j \in Jobs, job'[j] = Idle,
           \A i \in Jobs \ {j} : job'[i] = job[i] /\ since'[i] = since[i],
           stored' \cap {url[f] : f \in Fields} \subseteq stored, url' = url
    PROVE  StillNamed' /\ Emptied'
<1>1. Idle.at = "idle"
  BY DEF Idle, Job
<1> QED
  BY <1>1 DEF StillNamed, Emptied

LEMMA NextExplained ==
    ASSUME LeakInv, Next
    PROVE  LeakInv'
<1> TypeOK /\ TypeOK'
  BY NextTyped DEF LeakInv
<1>s. job \in [Jobs -> Slots(used)] /\ url \in [Fields -> used \cup {None}]
  BY TypeShape
<1>i. Idle.at = "idle"
  BY DEF Idle, Job
<1>1. ASSUME NEW j \in Jobs, NEW f \in Fields, UploadAssertOwner(j, f) PROVE LeakInv'
  BY <1>1, StartExplained DEF UploadAssertOwner
<1>2. ASSUME NEW j \in Jobs, NEW f \in Fields, UploadFindFirst(j, f) PROVE LeakInv'
  BY <1>2, StartExplained DEF UploadFindFirst, Nothing
<1>3. ASSUME NEW j \in Jobs, DeleteFind(j) \/ DirectDeleteFind(j) PROVE LeakInv'
  BY <1>3, StartExplained DEF DeleteFind, DirectDeleteFind
<1>4. ASSUME NEW j \in Jobs, UploadFind(j) PROVE LeakInv'
  <2>1. /\ job[j].at = "findOld" /\ job[j].field \in Fields
        /\ job'[j].at = "deleteOld" /\ job'[j].field = job[j].field
        /\ job'[j].old[job[j].field] = url[job[j].field]
        /\ \A i \in Jobs \ {j} : job'[i] = job[i]
    BY <1>4, <1>s, TypeShape DEF UploadFind, Nothing, Slots
  <2>2. UNCHANGED <<exists, url, stored, since, lost>>
    BY <1>4 DEF UploadFind
  <2>3. exists => StillNamed' /\ Emptied'
    BY <2>1, <2>2 DEF LeakInv, StillNamed, Emptied
  <2>4. LeakExplained'
    BY <2>1, <2>2 DEF LeakInv, LeakExplained, Named
  <2> QED
    BY <2>2, <2>3, <2>4 DEF LeakInv
<1>5. ASSUME NEW j \in Jobs, UploadDeleteOld(j) \/ DeleteImages(j) PROVE LeakInv'
  <2>1. /\ \/ job[j].at = "deleteOld" /\ job'[j].at = "put"
           \/ job[j].at = "deleteImages" /\ job'[j].at = "deleteRow"
        /\ job'[j].field = job[j].field
        /\ \A i \in Jobs \ {j} : job'[i] = job[i]
    BY <1>5, <1>s DEF UploadDeleteOld, DeleteImages, DeleteObjects, Slots
  <2>2. /\ UNCHANGED <<exists, url, since>>
        /\ stored' = stored \ Doomed(j) /\ lost' = lost \ Doomed(j)
    BY <1>5 DEF UploadDeleteOld, DeleteImages, DeleteObjects
  <2>3. \A f \in Fields : job[j].old[f] \notin stored'
    BY <2>2, MediaAssumption DEF Doomed, TypeOK
  <2>4. exists => StillNamed' /\ Emptied'
    BY <2>1, <2>2, <2>3 DEF LeakInv, StillNamed, Emptied
  <2>5. LeakExplained'
    BY <2>1, <2>2 DEF LeakInv, LeakExplained, Named
  <2> QED
    BY <2>2, <2>4, <2>5 DEF LeakInv
<1>6. ASSUME NEW j \in Jobs, NEW o \in Objects, UploadPut(j, o) PROVE LeakInv'
  <2>1. /\ job[j].at = "put" /\ job'[j].at = "update" /\ job'[j].new = o
        /\ job'[j].field = job[j].field
        /\ \A i \in Jobs \ {j} : job'[i] = job[i]
    BY <1>6, <1>s DEF UploadPut, Slots
  <2>2. UNCHANGED <<exists, url, since, lost>> /\ stored' = stored \cup {o} /\ o \notin used
    BY <1>6 DEF UploadPut
  <2>3. \A f \in Fields : url[f] # o
    BY <1>s, <2>2, MediaAssumption
  <2>4. exists => StillNamed' /\ Emptied'
    BY <2>1, <2>2, <2>3 DEF LeakInv, StillNamed, Emptied
  <2>5. LeakExplained'
    BY <2>1, <2>2 DEF LeakInv, LeakExplained, Named
  <2> QED
    BY <2>2, <2>4, <2>5 DEF LeakInv
<1>7. ASSUME NEW j \in Jobs, UploadUpdate(j) PROVE LeakInv'
  <2>1. /\ job[j].at = "update" /\ job[j].field \in Fields
        /\ job'[j] = Idle /\ \A i \in Jobs \ {j} : job'[i] = job[i]
        /\ UNCHANGED <<exists, stored>>
    BY <1>7, <1>s DEF UploadUpdate, TypeOK
  <2>2. CASE exists /\ SetUrl(j)
    <3> DEFINE f == job[j].field
    <3>1. /\ url'[f] = job[j].new /\ \A g \in Fields \ {f} : url'[g] = url[g]
          /\ lost' = lost \cup ({url[g] : g \in {f} \cap since[j]} \cap stored)
          /\ \A i \in Jobs \ {j} : since'[i] = Overtakes(i, f)
      BY <2>1, <2>2, <1>s DEF SetUrl, Drops
    <3>2. \A i \in Jobs \ {j} :
             /\ since[i] \subseteq since'[i]
             /\ f \in since'[i] \/ ~(\/ job[i].field = f /\ job[i].at \in Uploading
                                    \/ job[i].at \in {"deleteImages", "deleteRow"})
      BY <3>1 DEF Overtakes, Uploading
    <3>3. StillNamed' /\ Emptied'
      BY <1>i, <2>1, <2>2, <3>1, <3>2 DEF LeakInv, StillNamed, Emptied, Uploading
    <3>4. url[f] \notin stored \/ url[f] \in lost'
      BY <2>1, <2>2, <3>1 DEF LeakInv, Emptied
    <3>5. LeakExplained'
      <4> SUFFICES ASSUME NEW o \in stored PROVE o \in Named' \cup lost'
        BY <2>1 DEF LeakExplained
      <4>1. CASE o \in lost \/ o = url[f]
        BY <3>1, <3>4, <4>1
      <4>2. CASE \E g \in Fields \ {f} : o = url[g]
        BY <3>1, <4>2 DEF Named
      <4>3. CASE o = job[j].new
        BY <2>1, <3>1, <4>3 DEF Named
      <4>4. CASE \E i \in Jobs \ {j} : job[i].at = "update" /\ o = job[i].new
        BY <2>1, <4>4 DEF Named
      <4> QED
        BY <4>1, <4>2, <4>3, <4>4 DEF LeakInv, LeakExplained, Named
    <3> QED
      BY <3>3, <3>5 DEF LeakInv
  <2>3. CASE ~exists /\ lost' = lost \cup ({job[j].new} \cap stored) /\ UNCHANGED url
    <3>1. LeakExplained'
      BY <1>i, <2>1, <2>3 DEF LeakInv, LeakExplained, Named
    <3> QED
      BY <2>1, <2>3, <3>1 DEF LeakInv
  <2> QED
    BY <1>7, <2>2, <2>3 DEF UploadUpdate
<1>8. ASSUME NEW j \in Jobs, DeleteRow(j) \/ DirectDeleteRow(j) PROVE LeakInv'
  <2>1. /\ job[j].at \in {"deleteRow", "deleteDirect"} /\ ~exists' /\ stored' = stored
        /\ job'[j] = Idle /\ \A i \in Jobs \ {j} : job'[i] = job[i]
    BY <1>8, <1>s DEF DeleteRow, DirectDeleteRow, RowGone
  <2>2. lost \subseteq lost' /\ \A f \in Fields : url[f] \in lost' \/ url[f] \notin stored
    <3>1. CASE ~exists
      BY <1>8, <3>1, MediaAssumption
         DEF DeleteRow, DirectDeleteRow, RowGone, Drops, TypeOK, Nothing
    <3>2. CASE exists /\ DeleteRow(j)
      BY <3>2 DEF DeleteRow, RowGone, Drops, LeakInv, Emptied
    <3>3. CASE DirectDeleteRow(j)
      BY <3>3 DEF DirectDeleteRow, RowGone, Drops
    <3> QED
      BY <1>8, <3>1, <3>2, <3>3
  <2>3. LeakExplained'
    BY <1>i, <2>1, <2>2 DEF LeakInv, LeakExplained, Named
  <2> QED
    BY <2>1, <2>3 DEF LeakInv
<1>9. ASSUME NEW f \in Fields, NEW o \in used \cup {None}, UpdateColumn(f, o) PROVE LeakInv'
  <2>1. /\ UNCHANGED <<exists, stored, job>>
        /\ url'[f] = o /\ \A g \in Fields \ {f} : url'[g] = url[g]
        /\ lost' = (lost \cup ({url[f]} \cap stored)) \ {o}
        /\ \A i \in Jobs : since'[i] = Overtakes(i, f)
    BY <1>9, <1>s DEF UpdateColumn
  <2>2. \A i \in Jobs :
           /\ since[i] \subseteq since'[i]
           /\ f \in since'[i] \/ ~(\/ job[i].field = f /\ job[i].at \in Uploading
                                  \/ job[i].at \in {"deleteImages", "deleteRow"})
    BY <2>1 DEF Overtakes, Uploading
  <2>3. exists => StillNamed' /\ Emptied'
    BY <2>1, <2>2 DEF LeakInv, StillNamed, Emptied, Uploading
  <2>4. LeakExplained'
    <3> SUFFICES ASSUME NEW p \in stored PROVE p \in Named' \cup lost'
      BY <2>1 DEF LeakExplained
    <3>1. CASE p = o
      BY <2>1, <3>1 DEF Named
    <3>2. CASE p # o /\ (p \in lost \/ p = url[f])
      BY <2>1, <3>2
    <3>3. CASE \E g \in Fields \ {f} : p = url[g]
      BY <2>1, <3>3 DEF Named
    <3>4. CASE \E i \in Jobs : job[i].at = "update" /\ p = job[i].new
      BY <2>1, <3>4 DEF Named
    <3> QED
      BY <3>1, <3>2, <3>3, <3>4 DEF LeakInv, LeakExplained, Named
  <2> QED
    BY <2>1, <2>3, <2>4 DEF LeakInv
<1>10. ASSUME NEW j \in Jobs, Fail(j) PROVE LeakInv'
  <2>1. /\ job'[j] = Idle /\ \A i \in Jobs \ {j} : job'[i] = job[i] /\ since'[i] = since[i]
        /\ UNCHANGED <<exists, url>>
    BY <1>10, <1>s DEF Fail, Done
  <2>2. CASE stored' = stored /\ lost' = lost \cup ({job[j].new} \cap stored)
    <3>1. LeakExplained'
      BY <1>i, <2>1, <2>2 DEF LeakInv, LeakExplained, Named
    <3> QED
      BY <2>1, <2>2, <3>1, EndKeeps DEF LeakInv
  <2>3. ASSUME job[j].at \in {"deleteOld", "deleteImages"}, NEW some,
               stored' = stored \ some, lost' = lost \ some
        PROVE  LeakInv'
    <3>1. LeakExplained'
      BY <1>i, <2>1, <2>3 DEF LeakInv, LeakExplained, Named
    <3> QED
      BY <2>1, <2>3, <3>1, EndKeeps DEF LeakInv
  <2>4. ASSUME job[j].at = "put", NEW o \in Objects \ used,
               stored' = stored \cup {o}, lost' = lost \cup {o}
        PROVE  LeakInv'
    <3>1. \A f \in Fields : url[f] # o
      BY <1>s, MediaAssumption
    <3>2. LeakExplained'
      BY <1>i, <2>1, <2>4 DEF LeakInv, LeakExplained, Named
    <3> QED
      BY <2>1, <2>4, <3>1, <3>2, EndKeeps DEF LeakInv
  <2> QED
    BY <1>10, <2>2, <2>3, <2>4 DEF Fail
<1>11. \A g \in Fields : url[g] \in used \cup {None}
  BY <1>s
<1> QED
  BY <1>1, <1>2, <1>3, <1>4, <1>5, <1>6, <1>7, <1>8, <1>9, <1>10, <1>11 DEF Next

LEMMA StutterExplained == LeakInv /\ UNCHANGED vars => LeakInv'
  BY DEF LeakInv, vars, TypeOK, StillNamed, Emptied, LeakExplained, Named

\* However uploads, deletes and updates of a row overlap, and whatever fails, an object
\* that no column names, and no upload is about to name, was let go of by one of the
\* steps LeakExplained lists, and by that step: other handlers, and failures of other
\* calls, do not count.
THEOREM LeaksHaveCauses == Spec => []LeakExplained
<1>1. LeakInv /\ [Next]_vars => LeakInv'
  BY NextExplained, StutterExplained
<1>2. LeakInv => LeakExplained
  BY DEF LeakInv
<1> QED
  BY <1>1, <1>2, InitExplained, PTL DEF Spec

=============================================================================
