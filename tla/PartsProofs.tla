----------------------------- MODULE PartsProofs -----------------------------
(***************************************************************************)
(* Proofs about the forms of GROUP rooms (RoomCreator, RoomEditor) and     *)
(* about signing in and up (SignIn), for any number of handlers, tabs,     *)
(* pages, people, saves, attempts and failures, any limit and window, and  *)
(* any offset from UTC; and that MCParts, of which one component at a time *)
(* moves, is a behaviour of each of its seven.                             *)
(***************************************************************************)
EXTENDS MCParts, PanelProofs, SchedulesProofs, FiniteSetTheorems, TLAPS

-----------------------------------------------------------------------------
(* RoomCreator.                                                            *)

\* The creations whose room is not made yet.
Making == {h \in Clicks : creation[h].at = "create"}

\* The room that the page on the screen may still make without an excuse.
ToCome == IF ~isLoading /\ ~pushed THEN 1 ELSE 0

\* At most one handler belongs to the page on the screen.
OneHandler ==
    /\ pages >= 1
    /\ \A k, l \in Clicks : creation[k].page = pages /\ creation[l].page = pages => k = l

\* OneRoomEach with what is under way and what is still to come.
CreatorInv ==
    /\ CreatorTypeOK
    /\ OneHandler
    /\ IsFiniteSet(Making)
    /\ made + Cardinality(Making) + ToCome <= pages + botched + hasty

\* What OneRoomEach follows from.
LEMMA InvBounds == ASSUME CreatorInv PROVE OneRoomEach
<1>1. Cardinality(Making) \in Nat
  BY FS_CardinalityType DEF CreatorInv
<1>2. ToCome \in Nat
  BY DEF ToCome
<1> QED
  BY <1>1, <1>2 DEF CreatorInv, CreatorTypeOK, OneRoomEach

\* No page has the number that a free slot has.
LEMMA CreatorInitial == CreatorInit => CreatorInv
<1> SUFFICES ASSUME CreatorInit PROVE CreatorInv
  OBVIOUS
<1>1. Making = {}
  BY DEF CreatorInit, Idle, Making
<1>2. IsFiniteSet(Making) /\ Cardinality(Making) = 0
  BY <1>1, FS_EmptySet
<1>3. CreatorTypeOK
  <2>1. creation \in [Clicks -> [at : {"idle", "create", "done"} \cup Images,
                                 files : SUBSET Images, page : 0..pages]]
    BY DEF CreatorInit, Idle
  <2>2. isLoading = FALSE /\ \A h \in Clicks : creation[h].page # pages
    BY DEF CreatorInit, Idle
  <2>3. isLoading <=> \E h \in Clicks : creation[h].page = pages
    BY <2>2, Zenon
  <2>4. picked \subseteq Images /\ {made, pages, botched, hasty, faults} \subseteq Nat
    BY DEF CreatorInit
  <2>5. {isLoading, pushed} \subseteq BOOLEAN
    BY Zenon DEF CreatorInit
  <2> QED
    BY <2>1, <2>3, <2>4, <2>5, Zenon DEF CreatorTypeOK
<1>4. OneHandler
  BY DEF CreatorInit, Idle, OneHandler
<1> QED
  BY <1>2, <1>3, <1>4 DEF CreatorInv, CreatorInit, ToCome

LEMMA StartKeepsInv ==
    ASSUME CreatorInv, NEW h \in Clicks, ClickCreate(h)
    PROVE  CreatorInv'
<1> USE DEF ClickCreate, StartCreation, CreatorInv
<1>1. Making' = Making \cup {h} /\ h \notin Making
  BY DEF Making, Idle, CreatorTypeOK
<1>2. IsFiniteSet(Making') /\ Cardinality(Making') = Cardinality(Making) + 1
  BY <1>1, FS_AddElement
<1>3. Cardinality(Making) \in Nat
  BY FS_CardinalityType
<1>4. CreatorTypeOK'
  BY DEF CreatorTypeOK
<1>5. (made + Cardinality(Making) + ToCome <= pages + botched + hasty)'
  BY <1>2, <1>3 DEF ToCome, CreatorTypeOK
<1>6. OneHandler'
  BY DEF OneHandler, CreatorTypeOK
<1> QED
  BY <1>2, <1>4, <1>5, <1>6

\* A request that was answered: a room that is made is not being made any more.
LEMMA DoneKeepsInv ==
    ASSUME CreatorInv, NEW h \in Clicks, RequestDone(h)
    PROVE  CreatorInv'
<1> USE DEF RequestDone, CreatorInv
<1>1. creation' = [creation EXCEPT ![h] =
                     [creation[h] EXCEPT !.at = NextUpload(creation[h].at, creation[h].files)]]
  OBVIOUS
<1>2. NextUpload(creation[h].at, creation[h].files) \in {"done"} \cup Images
  BY DEF NextUpload, Images
<1>3. CreatorTypeOK'
  <2>1. creation[h] \in [at : {"idle", "create", "done"} \cup Images,
                         files : SUBSET Images, page : 0..pages]
    BY DEF CreatorTypeOK
  <2>2. creation' \in [Clicks -> [at : {"idle", "create", "done"} \cup Images,
                                  files : SUBSET Images, page : 0..pages]]
    BY <1>1, <1>2, <2>1 DEF CreatorTypeOK
  <2>3. \A k \in Clicks : creation'[k].page = creation[k].page
    BY <1>1 DEF CreatorTypeOK
  <2> QED
    BY <2>2, <2>3 DEF CreatorTypeOK
<1>4. Making' = Making \ {h}
  BY <1>1, <1>2 DEF Making, Images, CreatorTypeOK
<1>5. /\ IsFiniteSet(Making')
      /\ Cardinality(Making') = IF h \in Making THEN Cardinality(Making) - 1
                                ELSE Cardinality(Making)
  BY <1>4, FS_RemoveElement
<1>6. (made + Cardinality(Making) + ToCome <= pages + botched + hasty)'
  <2>1. made' = IF h \in Making THEN made + 1 ELSE made
    BY DEF Making
  <2>2. Cardinality(Making) \in Nat
    BY FS_CardinalityType
  <2>3. ToCome' = ToCome /\ ToCome \in Nat
    BY DEF ToCome
  <2> QED
    BY <1>5, <2>1, <2>2, <2>3 DEF CreatorTypeOK
<1>7. OneHandler'
  BY <1>1 DEF OneHandler, CreatorTypeOK
<1> QED
  BY <1>3, <1>5, <1>6, <1>7

\* What a handler leaves behind when it ends: its slot is free, and the button of the
\* page is enabled unless another handler belongs to that page.
LEMMA FinallyTyped ==
    ASSUME CreatorTypeOK, OneHandler, NEW h \in Clicks, Finally(h), UNCHANGED <<picked, pages>>,
           pushed' \in BOOLEAN, {made', botched', hasty', faults'} \subseteq Nat
    PROVE  CreatorTypeOK' /\ OneHandler'
<1> USE DEF Finally
<1>1. creation' \in [Clicks -> [at : {"idle", "create", "done"} \cup Images,
                                files : SUBSET Images, page : 0..pages']]
  BY DEF CreatorTypeOK, Idle
<1>2. OneHandler'
  BY DEF OneHandler, CreatorTypeOK, Idle
<1>3. \A k \in Clicks : creation'[k].page = IF k = h THEN 0 ELSE creation[k].page
  BY DEF CreatorTypeOK, Idle
<1>4. isLoading' <=> \E k \in Clicks : creation'[k].page = pages'
  <2>1. CASE creation[h].page = pages
    <3>1. isLoading' = FALSE
      BY <2>1
    <3>2. \A k \in Clicks : creation'[k].page # pages'
      BY <1>3, <2>1 DEF OneHandler, CreatorTypeOK
    <3> QED
      BY <3>1, <3>2, Zenon
  <2>2. CASE creation[h].page # pages
    <3>1. isLoading' <=> isLoading
      BY <2>2, Zenon DEF CreatorTypeOK
    <3>2. ASSUME NEW k \in Clicks PROVE creation'[k].page = pages' <=> creation[k].page = pages
      BY <1>3, <2>2 DEF OneHandler, CreatorTypeOK
    <3> QED
      BY <3>1, <3>2, Zenon DEF CreatorTypeOK
  <2> QED
    BY <2>1, <2>2
<1>5. isLoading' \in BOOLEAN
  BY Zenon
<1>6. {pages'} \subseteq Nat /\ picked' \subseteq Images
  BY DEF CreatorTypeOK
<1> QED
  BY <1>1, <1>2, <1>4, <1>5, <1>6 DEF CreatorTypeOK

\* router.push leaves the page nothing to make: the next click is one in haste.
LEMMA PushKeepsInv ==
    ASSUME CreatorInv, NEW h \in Clicks, Push(h)
    PROVE  CreatorInv'
<1> USE DEF Push, CreatorInv
<1>1. pushed' \in BOOLEAN
  BY Zenon
<1>2. CreatorTypeOK' /\ OneHandler'
  BY <1>1, FinallyTyped DEF CreatorTypeOK
<1>3. Making' = Making
  BY DEF Making, Finally, Idle, CreatorTypeOK
<1>4. ToCome' <= ToCome
  <2>1. (~isLoading' /\ ~pushed') => (~isLoading /\ ~pushed)
    BY Zenon DEF Finally, CreatorTypeOK
  <2> QED
    BY <2>1 DEF ToCome
<1>5. Cardinality(Making) \in Nat /\ ToCome \in Nat /\ ToCome' \in Nat
  BY FS_CardinalityType DEF ToCome
<1> QED
  BY <1>2, <1>3, <1>4, <1>5 DEF CreatorTypeOK

\* A failure gives the page one room more to make, and is counted if one was made.
LEMMA FailKeepsInv ==
    ASSUME CreatorInv, NEW h \in Clicks, RequestFails(h)
    PROVE  CreatorInv'
<1> USE DEF RequestFails, CreatorInv
<1>1. /\ \/ made' = made + 1 /\ botched' = botched + 1 /\ h \in Making
         \/ made' = made /\ botched' = botched + 1 /\ h \notin Making
         \/ made' = made /\ botched' = botched /\ h \in Making
      /\ {made', botched', hasty', faults'} \subseteq Nat
  BY DEF Making, CreatorTypeOK
<1>2. pushed' \in BOOLEAN
  BY Zenon DEF CreatorTypeOK
<1>3. CreatorTypeOK' /\ OneHandler'
  BY <1>1, <1>2, FinallyTyped
<1>4. Making' = Making \ {h}
  BY DEF Making, Finally, Idle, CreatorTypeOK
<1>5. /\ IsFiniteSet(Making')
      /\ Cardinality(Making') = IF h \in Making THEN Cardinality(Making) - 1
                                ELSE Cardinality(Making)
  BY <1>4, FS_RemoveElement
<1>6. Cardinality(Making) \in Nat /\ ToCome \in 0..1 /\ ToCome' \in 0..1
  BY FS_CardinalityType DEF ToCome
<1>7. (made + Cardinality(Making) + ToCome <= pages + botched + hasty)'
  BY <1>1, <1>5, <1>6 DEF CreatorTypeOK
<1> QED
  BY <1>3, <1>5, <1>7

LEMMA OpenKeepsInv ==
    ASSUME CreatorInv, OpenPage
    PROVE  CreatorInv'
<1> USE DEF OpenPage, CreatorInv
<1>1. \A k \in Clicks : creation'[k].page # pages'
  BY DEF CreatorTypeOK
<1>2. OneHandler' /\ pages' \in Nat
  BY <1>1 DEF OneHandler, CreatorTypeOK
<1>3. creation' \in [Clicks -> [at : {"idle", "create", "done"} \cup Images,
                                files : SUBSET Images, page : 0..pages']]
  BY DEF CreatorTypeOK
<1>4. isLoading' <=> \E k \in Clicks : creation'[k].page = pages'
  BY <1>1, Zenon
<1>5. {isLoading', pushed'} \subseteq BOOLEAN
  BY Zenon
<1>6. CreatorTypeOK'
  BY <1>2, <1>3, <1>4, <1>5 DEF CreatorTypeOK
<1>7. Making' = Making
  BY DEF Making
<1>8. Cardinality(Making) \in Nat /\ ToCome \in Nat /\ ToCome' <= 1 /\ ToCome' \in Nat
  BY FS_CardinalityType DEF ToCome
<1> QED
  BY <1>2, <1>6, <1>7, <1>8 DEF CreatorTypeOK

\* Picking an image, and stuttering.
LEMMA RestKeepsInv ==
    ASSUME CreatorInv, (\E i \in Images : PickImage(i)) \/ UNCHANGED creatorVars
    PROVE  CreatorInv'
<1>1. UNCHANGED <<creation, isLoading, pushed, made, pages, botched, hasty, faults>>
  BY DEF PickImage, creatorVars
<1>2. picked' \subseteq Images
  BY DEF PickImage, creatorVars, CreatorInv, CreatorTypeOK
<1>3. CreatorTypeOK' /\ OneHandler'
  BY <1>1, <1>2 DEF CreatorInv, CreatorTypeOK, OneHandler
<1>4. Making' = Making /\ ToCome' = ToCome
  BY <1>1 DEF Making, ToCome
<1> QED
  BY <1>1, <1>3, <1>4 DEF CreatorInv

LEMMA CreatorInvHolds == CreatorSpec => []CreatorInv
<1>1. CreatorInv /\ [CreatorNext]_creatorVars => CreatorInv'
  BY StartKeepsInv, DoneKeepsInv, PushKeepsInv, FailKeepsInv, OpenKeepsInv, RestKeepsInv
  DEF CreatorNext
<1> QED
  BY <1>1, CreatorInitial, PTL DEF CreatorSpec

\* A creation page makes one room, but for one more each time a failure was reported
\* after the room was there and for each click while the next page is fetched, however
\* many handlers are under way and whichever page they belong to.
THEOREM OneRoomForEachPage == CreatorSpec => []OneRoomEach
BY CreatorInvHolds, InvBounds, PTL

\* Handlers, pages and the button of the page keep their types: the button is disabled
\* exactly while a handler of the page on the screen runs.
THEOREM CreatorTypeCorrect == CreatorSpec => []CreatorTypeOK
<1>1. CreatorInv => CreatorTypeOK
  BY DEF CreatorInv
<1> QED
  BY <1>1, CreatorInvHolds, PTL

-----------------------------------------------------------------------------
(* RoomEditor.                                                             *)

Forms == [text : Texts \cup {Blank}, date : Int \cup {Blank},
          loaded : Fields, touched : SUBSET {"text", "date"}, at : {"form", "save"},
          body : Fields, wish : Fields, typed : SUBSET {"text", "date"}]

\* What nobody typed into f of form d is what was loaded, moved by the offset if it is
\* the date.
Untouched(d) ==
    /\ "text" \notin d.touched => d.text = d.loaded.text
    /\ "date" \notin d.touched => d.date = d.loaded.date

\* What is being sent is what was meant if it was typed, and what was loaded otherwise.
Sent(d) ==
    d.at = "save" =>
        /\ d.typed \subseteq d.touched
        /\ d.body.text = d.wish.text /\ d.body.date = d.wish.date
        /\ "text" \notin d.typed => d.body.text = d.loaded.text
        /\ "date" \notin d.typed /\ Offset = 0 => d.body.date = d.loaded.date

\* EditsKept with what is on the screens and on its way.
EditorInv ==
    /\ room \in Fields /\ said \in Fields
    /\ draft \in [Editors -> Forms \cup {Closed}]
    /\ \A e \in Editors : draft[e] # Closed => Untouched(draft[e]) /\ Sent(draft[e])
    /\ EditsKept

LEMMA EditorInitial == EditorInit => EditorInv
<1> SUFFICES ASSUME EditorInit PROVE EditorInv
  OBVIOUS
<1>1. room \in Fields
  BY EditorAssumption DEF EditorInit, Fields
<1> QED
  BY <1>1 DEF EditorInit, EditorInv, EditsKept

\* What reaches the database is what was typed, and otherwise what was there, unless
\* the form was older than that, or the date moved.
LEMMA SavedKept ==
    ASSUME EditorInv, NEW e \in Editors, draft[e] # Closed, draft[e].at = "save", Saved(e)
    PROVE  room' \in Fields /\ said' \in Fields /\ EditsKept'
<1> DEFINE d == draft[e]
<1> DEFINE sent == {f \in DOMAIN room : d.body[f] # Blank}
<1>1. d \in Forms /\ Sent(d)
  BY DEF EditorInv
<1>2. DOMAIN room = {"text", "date"} /\ DOMAIN said = {"text", "date"}
  BY DEF EditorInv, Fields
<1>3. /\ room' = [f \in {"text", "date"} |-> IF f \in sent THEN d.body[f] ELSE room[f]]
      /\ said' = [f \in {"text", "date"} |->
                    IF f \in sent \cap d.typed THEN d.wish[f] ELSE said[f]]
  BY <1>2 DEF Saved
<1>4. room' \in Fields /\ said' \in Fields
  <2>1. d.body \in Fields /\ d.wish \in Fields /\ room \in Fields /\ said \in Fields
    BY <1>1 DEF Forms, EditorInv
  <2> HIDE DEF d
  <2>2. room' = [text |-> room'["text"], date |-> room'["date"]]
    BY <1>3
  <2>3. said' = [text |-> said'["text"], date |-> said'["date"]]
    BY <1>3
  <2>4. room'["text"] \in Texts \cup {Blank} /\ said'["text"] \in Texts \cup {Blank}
    BY <1>3, <2>1 DEF Fields
  <2>5. room'["date"] \in Int \cup {Blank} /\ said'["date"] \in Int \cup {Blank}
    BY <1>3, <2>1 DEF Fields
  <2> QED
    BY <2>2, <2>3, <2>4, <2>5 DEF Fields
<1>5. ASSUME NEW f \in {"text", "date"} PROVE room'[f] = said'[f] \/ f \in overrun'
  <2>1. room[f] = said[f] \/ f \in overrun
    BY <1>2 DEF EditorInv, EditsKept
  <2>2. overrun' = (overrun \ (sent \cap d.typed))
                     \cup {g \in sent \ d.typed : d.loaded[g] # room[g]
                                                  \/ (g = "date" /\ Offset # 0)}
    BY DEF Saved
  <2>3. CASE f \in sent \cap d.typed
    BY <1>1, <1>3, <2>3 DEF Sent
  <2>4. CASE f \in sent \ d.typed
    <3>1. room'[f] = d.body[f] /\ said'[f] = said[f]
      BY <1>3, <2>4
    <3>2. CASE d.loaded[f] # room[f] \/ (f = "date" /\ Offset # 0)
      BY <2>2, <2>4, <3>2
    <3>3. CASE d.loaded[f] = room[f] /\ (f = "text" \/ Offset = 0)
      <4>1. d.body[f] = room[f]
        BY <1>1, <2>4, <3>3 DEF Sent
      <4> QED
        BY <2>1, <2>2, <2>4, <3>1, <4>1
    <3> QED
      BY <3>2, <3>3
  <2>5. CASE f \notin sent
    BY <1>3, <2>1, <2>2, <2>5
  <2> QED
    BY <2>3, <2>4, <2>5
<1>6. DOMAIN room' = {"text", "date"}
  BY <1>3
<1> QED
  BY <1>4, <1>5, <1>6 DEF EditsKept

\* What a form may become.
LEMMA DraftKept ==
    ASSUME EditorInv, NEW e \in Editors, NEW d \in Forms, Untouched(d), Sent(d),
           draft' = [draft EXCEPT ![e] = d],
           room' \in Fields /\ said' \in Fields /\ EditsKept'
    PROVE  EditorInv'
BY DEF EditorInv, Untouched, Sent

LEMMA OpenEditorKeeps ==
    ASSUME EditorInv, NEW e \in Editors, OpenEditor(e)
    PROVE  EditorInv'
<1> DEFINE d == [text |-> room.text, date |-> ToInput(room.date), loaded |-> room, touched |-> {},
                 at |-> "form", body |-> room, wish |-> room, typed |-> {}]
<1>1. d \in Forms
  BY DEF EditorInv, Forms, Fields, ToInput
<1>2. Untouched(d) /\ Sent(d)
  BY DEF Untouched, Sent, ToInput
<1>3. room' \in Fields /\ said' \in Fields /\ EditsKept'
  BY DEF OpenEditor, EditorInv, EditsKept
<1>4. draft' = [draft EXCEPT ![e] = d]
  BY DEF OpenEditor
<1> HIDE DEF d
<1> QED
  BY <1>1, <1>2, <1>3, <1>4, DraftKept

LEMMA TypeTextKeeps ==
    ASSUME EditorInv, NEW e \in Editors, NEW t \in Texts \cup {Blank}, TypeText(e, t)
    PROVE  EditorInv'
<1> DEFINE d == [draft[e] EXCEPT !.text = t, !.touched = @ \cup {"text"}]
<1>1. draft[e] \in Forms /\ Untouched(draft[e]) /\ Sent(draft[e])
  BY DEF TypeText, EditorInv
<1>2. d \in Forms /\ Untouched(d) /\ Sent(d)
  BY <1>1 DEF Forms, Untouched, Sent
<1>3. room' \in Fields /\ said' \in Fields /\ EditsKept'
  BY DEF TypeText, EditorInv, EditsKept
<1>4. draft' = [draft EXCEPT ![e] = d]
  BY DEF TypeText, EditorInv
<1> HIDE DEF d
<1> QED
  BY <1>2, <1>3, <1>4, DraftKept

LEMMA TypeDateKeeps ==
    ASSUME EditorInv, NEW e \in Editors, NEW l \in Hours \cup {Blank}, TypeDate(e, l)
    PROVE  EditorInv'
<1> DEFINE d == [draft[e] EXCEPT !.date = l, !.touched = @ \cup {"date"}]
<1>1. draft[e] \in Forms /\ Untouched(draft[e]) /\ Sent(draft[e])
  BY DEF TypeDate, EditorInv
<1>2. d \in Forms /\ Untouched(d) /\ Sent(d)
  BY <1>1, EditorAssumption DEF Forms, Untouched, Sent
<1>3. room' \in Fields /\ said' \in Fields /\ EditsKept'
  BY DEF TypeDate, EditorInv, EditsKept
<1>4. draft' = [draft EXCEPT ![e] = d]
  BY DEF TypeDate, EditorInv
<1> HIDE DEF d
<1> QED
  BY <1>2, <1>3, <1>4, DraftKept

\* The date that is sent is the one that is meant: the browser reads the input as local
\* time in both.  It is not the one that was loaded, except at offset 0.
LEMMA ClickSaveKeeps ==
    ASSUME EditorInv, NEW e \in Editors, ClickSave(e)
    PROVE  EditorInv'
<1> DEFINE d == [draft[e] EXCEPT
                    !.at = "save",
                    !.body = [text |-> draft[e].text, date |-> ToInstant(draft[e].date)],
                    !.wish = [text |-> draft[e].text, date |-> Meant(draft[e].date)],
                    !.typed = draft[e].touched]
<1>1. draft[e] \in Forms /\ Untouched(draft[e])
  BY DEF ClickSave, EditorInv
<1>2. /\ ToInstant(draft[e].date) = Meant(draft[e].date)
      /\ ToInstant(draft[e].date) \in Int \cup {Blank}
      /\ Offset = 0 => ToInstant(draft[e].date) = draft[e].date
  BY <1>1, EditorAssumption DEF Forms, ToInstant, Meant
<1>3. d \in Forms
  BY <1>1, <1>2 DEF Forms, Fields
<1>4. Untouched(d) /\ Sent(d)
  BY <1>1, <1>2 DEF Forms, Untouched, Sent
<1>5. room' \in Fields /\ said' \in Fields /\ EditsKept'
  BY DEF ClickSave, EditorInv, EditsKept
<1>6. draft' = [draft EXCEPT ![e] = d]
  BY DEF ClickSave, EditorInv
<1> HIDE DEF d
<1> QED
  BY <1>3, <1>4, <1>5, <1>6, DraftKept

\* The end of a save, whether the answer is good, bad or lost.
LEMMA SaveKeeps ==
    ASSUME EditorInv, NEW e \in Editors, SaveDone(e) \/ SaveFails(e)
    PROVE  EditorInv'
<1>1. draft[e] \in Forms /\ Untouched(draft[e]) /\ draft[e] # Closed /\ draft[e].at = "save"
  BY DEF SaveDone, SaveFails, EditorInv
<1>2. Enabled(e) \in Forms /\ Untouched(Enabled(e)) /\ Sent(Enabled(e))
  BY <1>1 DEF Enabled, Forms, Untouched, Sent
<1>3. room' \in Fields /\ said' \in Fields /\ EditsKept'
  <2>1. CASE Saved(e)
    BY <1>1, <2>1, SavedKept
  <2>2. CASE UNCHANGED <<room, saves, said, overrun>>
    BY <2>2 DEF EditorInv, EditsKept
  <2> QED
    BY <2>1, <2>2 DEF SaveDone, SaveFails
<1>4. draft' = [draft EXCEPT ![e] = Enabled(e)]
  BY DEF SaveDone, SaveFails
<1> QED
  BY <1>2, <1>3, <1>4, DraftKept

\* Leaving the page, and stuttering.
LEMMA CloseEditorKeeps ==
    ASSUME EditorInv, (\E e \in Editors : CloseEditor(e)) \/ UNCHANGED editorVars
    PROVE  EditorInv'
<1>1. UNCHANGED <<room, saves, said, overrun, editFaults>>
  BY DEF CloseEditor, editorVars
<1>2. draft' = draft \/ \E e \in Editors : draft' = [draft EXCEPT ![e] = Closed]
  BY DEF CloseEditor, editorVars
<1> QED
  BY <1>1, <1>2 DEF EditorInv, EditsKept

LEMMA EditorInvHolds == EditorSpec => []EditorInv
<1>1. EditorInv /\ [EditorNext]_editorVars => EditorInv'
  BY OpenEditorKeeps, TypeTextKeeps, TypeDateKeeps, ClickSaveKeeps, SaveKeeps, CloseEditorKeeps
  DEF EditorNext
<1> QED
  BY <1>1, EditorInitial, PTL DEF EditorSpec

\* At any offset, for any number of tabs, saves and failures: a field holds what was last
\* typed into it and saved, unless a form that nobody typed it into has since written it
\* from older data, or moved it, being the date.
THEOREM EditsAreKept == EditorSpec => []EditsKept
<1>1. EditorInv => EditsKept
  BY DEF EditorInv
<1> QED
  BY <1>1, EditorInvHolds, PTL

\* What is counted, and that what was typed when the form was sent is still known as
\* typed into it.
EditorBooks ==
    /\ overrun \subseteq {"text", "date"} /\ saves \in Nat /\ editFaults \in Nat
    /\ \A e \in Editors : draft[e] # Closed => draft[e].typed \subseteq draft[e].touched

\* A step of one tab keeps EditorBooks if its form does.
LEMMA BooksKept ==
    ASSUME EditorInv, EditorBooks, NEW e \in Editors, NEW d, d.typed \subseteq d.touched,
           draft' = [draft EXCEPT ![e] = d] \/ draft' = [draft EXCEPT ![e] = Closed],
           overrun' \subseteq {"text", "date"} /\ saves' \in Nat /\ editFaults' \in Nat
    PROVE  EditorBooks'
BY DEF EditorInv, EditorBooks

LEMMA BooksStep ==
    ASSUME EditorInv, EditorBooks, NEW e \in Editors,
           \/ OpenEditor(e) \/ ClickSave(e) \/ SaveDone(e) \/ SaveFails(e) \/ CloseEditor(e)
           \/ \E t \in Texts \cup {Blank} : TypeText(e, t)
           \/ \E l \in Hours \cup {Blank} : TypeDate(e, l)
    PROVE  EditorBooks'
<1>1. /\ overrun \subseteq {"text", "date"} /\ saves \in Nat /\ editFaults \in Nat
      /\ draft \in [Editors -> Forms \cup {Closed}] /\ DOMAIN room = {"text", "date"}
  BY DEF EditorBooks, EditorInv, Fields
<1>2. ASSUME Saved(e) PROVE overrun' \subseteq {"text", "date"} /\ saves' \in Nat
  <2> DEFINE sent == {f \in DOMAIN room : draft[e].body[f] # Blank}
  <2>1. overrun' = (overrun \ (sent \cap draft[e].typed))
                     \cup {f \in sent \ draft[e].typed :
                             draft[e].loaded[f] # room[f] \/ (f = "date" /\ Offset # 0)}
    BY <1>2 DEF Saved
  <2>2. sent \subseteq {"text", "date"}
    BY <1>1
  <2> HIDE DEF sent
  <2>3. overrun' \subseteq {"text", "date"}
    BY <1>1, <2>1, <2>2, Zenon
  <2>4. saves' \in Nat
    BY <1>1, <1>2 DEF Saved
  <2> QED
    BY <2>3, <2>4
<1>3. CASE OpenEditor(e)
  <2> DEFINE d == [text |-> room.text, date |-> ToInput(room.date), loaded |-> room,
                   touched |-> {}, at |-> "form", body |-> room, wish |-> room, typed |-> {}]
  <2>1. draft' = [draft EXCEPT ![e] = d] /\ d.typed \subseteq d.touched
    BY <1>3 DEF OpenEditor
  <2>2. UNCHANGED <<saves, overrun, editFaults>>
    BY <1>3 DEF OpenEditor
  <2> HIDE DEF d
  <2> QED
    BY <1>1, <2>1, <2>2, BooksKept
<1>4. CASE \E t \in Texts \cup {Blank} : TypeText(e, t)
  <2>1. PICK t \in Texts \cup {Blank} : TypeText(e, t)
    BY <1>4
  <2> DEFINE d == [draft[e] EXCEPT !.text = t, !.touched = @ \cup {"text"}]
  <2>2. draft' = [draft EXCEPT ![e] = d] /\ UNCHANGED <<saves, overrun, editFaults>>
    BY <1>1, <2>1 DEF TypeText
  <2>3. draft[e] \in Forms /\ draft[e].typed \subseteq draft[e].touched
    BY <1>1, <2>1 DEF TypeText, EditorBooks
  <2>4. d.typed = draft[e].typed /\ d.touched = draft[e].touched \cup {"text"}
    BY <2>3 DEF Forms
  <2>5. d.typed \subseteq d.touched
    BY <2>3, <2>4
  <2> HIDE DEF d
  <2> QED
    BY <1>1, <2>2, <2>5, BooksKept
<1>5. CASE \E l \in Hours \cup {Blank} : TypeDate(e, l)
  <2>1. PICK l \in Hours \cup {Blank} : TypeDate(e, l)
    BY <1>5
  <2> DEFINE d == [draft[e] EXCEPT !.date = l, !.touched = @ \cup {"date"}]
  <2>2. draft' = [draft EXCEPT ![e] = d] /\ UNCHANGED <<saves, overrun, editFaults>>
    BY <1>1, <2>1 DEF TypeDate
  <2>3. draft[e] \in Forms /\ draft[e].typed \subseteq draft[e].touched
    BY <1>1, <2>1 DEF TypeDate, EditorBooks
  <2>4. d.typed = draft[e].typed /\ d.touched = draft[e].touched \cup {"date"}
    BY <2>3 DEF Forms
  <2>5. d.typed \subseteq d.touched
    BY <2>3, <2>4
  <2> HIDE DEF d
  <2> QED
    BY <1>1, <2>2, <2>5, BooksKept
<1>6. CASE ClickSave(e)
  <2> DEFINE d == [draft[e] EXCEPT
                      !.at = "save",
                      !.body = [text |-> draft[e].text, date |-> ToInstant(draft[e].date)],
                      !.wish = [text |-> draft[e].text, date |-> Meant(draft[e].date)],
                      !.typed = draft[e].touched]
  <2>1. draft' = [draft EXCEPT ![e] = d] /\ UNCHANGED <<saves, overrun, editFaults>>
    BY <1>1, <1>6 DEF ClickSave
  <2>2. d.typed \subseteq d.touched
    BY <1>1, <1>6 DEF ClickSave, Forms
  <2> HIDE DEF d
  <2> QED
    BY <1>1, <2>1, <2>2, BooksKept
<1>7. CASE SaveDone(e) \/ SaveFails(e)
  <2>1. draft' = [draft EXCEPT ![e] = Enabled(e)] /\ draft[e] # Closed
    BY <1>7 DEF SaveDone, SaveFails
  <2>2. Enabled(e).typed \subseteq Enabled(e).touched
    BY <1>1, <2>1 DEF Enabled, Forms
  <2>3. overrun' \subseteq {"text", "date"} /\ saves' \in Nat /\ editFaults' \in Nat
    <3>1. CASE Saved(e)
      <4>1. editFaults' \in Nat
        BY <1>1, <1>7 DEF SaveDone, SaveFails
      <4> QED
        BY <1>2, <3>1, <4>1
    <3>2. CASE UNCHANGED <<room, saves, said, overrun>> /\ SaveFails(e)
      BY <1>1, <3>2 DEF SaveFails
    <3> QED
      BY <1>7, <3>1, <3>2 DEF SaveDone, SaveFails
  <2> QED
    BY <2>1, <2>2, <2>3, BooksKept
<1>8. CASE CloseEditor(e)
  <2>1. /\ draft' = [draft EXCEPT ![e] = Closed] /\ draft[e] # Closed
        /\ UNCHANGED <<saves, overrun, editFaults>>
    BY <1>8 DEF CloseEditor
  <2>2. draft[e].typed \subseteq draft[e].touched
    BY <2>1 DEF EditorBooks
  <2> QED
    BY <1>1, <2>1, <2>2, BooksKept
<1> QED
  BY <1>3, <1>4, <1>5, <1>6, <1>7, <1>8

\* The row and what the forms hold keep their types, and a form sends as typed only what
\* was typed into it.
THEOREM EditorTypeCorrect == EditorSpec => []EditorTypeOK
<1>1. EditorInit => EditorBooks
  BY DEF EditorInit, EditorBooks
<1>2. EditorInv /\ EditorBooks /\ [EditorNext]_editorVars => EditorBooks'
  <2>1. CASE UNCHANGED editorVars
    BY <2>1 DEF editorVars, EditorBooks
  <2> QED
    BY <2>1, BooksStep DEF EditorNext
<1>3. EditorInv /\ EditorBooks => EditorTypeOK
  BY DEF EditorInv, EditorBooks, EditorTypeOK, Forms, Fields
<1> QED
  BY <1>1, <1>2, <1>3, EditorInvHolds, PTL DEF EditorSpec

-----------------------------------------------------------------------------
(* SignIn.                                                                 *)

\* A step of the clock keeps the types.
LEMMA TickTyped ==
    ASSUME SignTypeOK, ClockTick
    PROVE  SignTypeOK'
<1> USE SignInAssumption
<1>1. record' \in [count : 0..MaxLogin, left : 0..Window]
  BY DEF SignTypeOK, ClockTick, NoRecord
<1>2. passed' \in [0..Window -> Nat]
  <2>1. ASSUME NEW t \in 0..Window PROVE (IF t = 0 THEN 0 ELSE passed[t - 1]) \in Nat
    BY <2>1 DEF SignTypeOK
  <2> QED
    BY <2>1 DEF ClockTick
<1> QED
  BY <1>1, <1>2 DEF SignTypeOK, ClockTick

\* An attempt that is let in keeps the types: the count is below the limit.
LEMMA LetInTyped ==
    ASSUME SignTypeOK, NEW a \in Attempts, NEW p \in People \cup {NoOne}, LetIn(a, p)
    PROVE  SignTypeOK'
<1> USE SignInAssumption
<1>1. record' \in [count : 0..MaxLogin, left : 0..Window]
  <2>1. CASE record = NoRecord
    BY <2>1 DEF LetIn
  <2>2. CASE record # NoRecord
    <3>1. record.count + 1 \in 0..MaxLogin
      BY DEF LetIn, Refused, SignTypeOK
    <3> QED
      BY <2>2, <3>1 DEF LetIn, SignTypeOK
  <2> QED
    BY <2>1, <2>2
<1>2. passed' \in [0..Window -> Nat]
  BY DEF LetIn, SignTypeOK
<1>3. attempt' \in [Attempts -> Pending({"find", "match"})]
  <2>1. p # NoOne => Slot("find", p) \in Pending({"find", "match"})
    BY DEF Slot, Pending
  <2>2. attempt' = [attempt EXCEPT ![a] = IF p = NoOne THEN attempt[a] ELSE Slot("find", p)]
    BY DEF LetIn
  <2> QED
    BY <2>1, <2>2 DEF SignTypeOK
<1> QED
  BY <1>1, <1>2, <1>3 DEF SignTypeOK, LetIn

\* The handlers of attempts and sign-ups keep the types.
LEMMA HandlerTyped ==
    ASSUME SignTypeOK,
           \/ \E a \in Attempts : FindUser(a) \/ SignedIn(a)
           \/ \E s \in SignUps :
               (\E p \in People : SignUp(s, p)) \/ FindExisting(s) \/ CreateUser(s)
    PROVE  SignTypeOK'
<1> USE SignInAssumption
<1>1. ASSUME NEW a \in Attempts, FindUser(a) PROVE SignTypeOK'
  <2>1. attempt[a] \in [at : {"find", "match"}, by : People]
    BY <1>1 DEF FindUser, SignTypeOK, Pending, Slot
  <2>2. {Slot("match", attempt[a].by), Slot("idle", NoOne)} \subseteq Pending({"find", "match"})
    BY <2>1 DEF Pending, Slot
  <2> QED
    BY <1>1, <2>2 DEF FindUser, SignTypeOK
<1>2. ASSUME NEW a \in Attempts, SignedIn(a) PROVE SignTypeOK'
  BY <1>2 DEF SignedIn, SignTypeOK, Pending, NoRecord
<1>3. ASSUME NEW s \in SignUps, NEW p \in People, SignUp(s, p) PROVE SignTypeOK'
  <2>1. Slot("find", p) \in Pending({"find", "create"})
    BY DEF Pending, Slot
  <2> QED
    BY <1>3, <2>1 DEF SignUp, SignTypeOK
<1>4. ASSUME NEW s \in SignUps, FindExisting(s) PROVE SignTypeOK'
  <2>1. signup[s] \in [at : {"find", "create"}, by : People]
    BY <1>4 DEF FindExisting, SignTypeOK, Pending, Slot
  <2>2. {Slot("create", signup[s].by), Slot("idle", NoOne)} \subseteq Pending({"find", "create"})
    BY <2>1 DEF Pending, Slot
  <2> QED
    BY <1>4, <2>2 DEF FindExisting, SignTypeOK
<1>5. ASSUME NEW s \in SignUps, CreateUser(s) PROVE SignTypeOK'
  <2>1. signup[s] \in [at : {"find", "create"}, by : People]
    BY <1>5 DEF CreateUser, SignTypeOK, Pending, Slot
  <2>2. account' \in People \cup {Google, NoOne} /\ told' \subseteq People
    BY <1>5, <2>1 DEF CreateUser, SignTypeOK
  <2> QED
    BY <1>5, <2>2 DEF CreateUser, SignTypeOK, Pending
<1> QED
  BY <1>1, <1>2, <1>3, <1>4, <1>5

\* The types are kept by every step.
LEMMA StepTyped ==
    ASSUME SignTypeOK, [SignNext]_signVars
    PROVE  SignTypeOK'
<1>1. ASSUME NEW a \in Attempts, NEW p \in People \cup {NoOne}, LetIn(a, p) PROVE SignTypeOK'
  BY <1>1, LetInTyped
<1>2. CASE TurnAway
  BY <1>2 DEF TurnAway, SignTypeOK, signVars
<1>3. CASE GoogleSignIn
  BY <1>3 DEF GoogleSignIn, SignTypeOK
<1>4. CASE DeleteAccount
  BY <1>4 DEF DeleteAccount, SignTypeOK
<1>5. CASE ClockTick
  BY <1>5, TickTyped
<1>6. CASE UNCHANGED signVars
  BY <1>6 DEF SignTypeOK, signVars
<1> QED
  BY <1>1, <1>2, <1>3, <1>4, <1>5, <1>6, HandlerTyped DEF SignNext

\* In every state record, slots and history have their types: the limiter never counts
\* beyond the limit, and no handler waits for nobody.
THEOREM SignTypeCorrect == SignSpec => []SignTypeOK
<1>1. SignInit => SignTypeOK
  BY SignInAssumption DEF SignInit, SignTypeOK, NoRecord, Pending
<1>2. SignTypeOK /\ [SignNext]_signVars => SignTypeOK'
  BY StepTyped
<1> QED
  BY <1>1, <1>2, PTL DEF SignSpec

-----------------------------------------------------------------------------
\* However many sign-ups find the email free, and whoever signs in with Google in
\* between, who was told that the sign-up went well has the account until it is
\* deleted: the row is only made when there is none.
THEOREM AccountIsOfWhoWasTold == SignSpec => []ToldOwnsAccount
<1>1. SignInit => ToldOwnsAccount
  BY DEF SignInit, ToldOwnsAccount
<1>2. ASSUME SignTypeOK, ToldOwnsAccount, [SignNext]_signVars PROVE ToldOwnsAccount'
  <2> USE <1>2
  <2>1. account = NoOne => told = {}
    BY SignInAssumption DEF SignTypeOK, ToldOwnsAccount
  <2>2. ASSUME NEW s \in SignUps, CreateUser(s) PROVE ToldOwnsAccount'
    BY <2>1, <2>2 DEF CreateUser, ToldOwnsAccount
  <2>3. CASE GoogleSignIn
    BY <2>1, <2>3 DEF GoogleSignIn, ToldOwnsAccount
  <2>4. CASE DeleteAccount
    BY <2>4 DEF DeleteAccount, ToldOwnsAccount
  <2>5. CASE UNCHANGED <<account, told>>
    BY <2>5 DEF ToldOwnsAccount
  <2> QED
    BY <2>2, <2>3, <2>4, <2>5
    DEF SignNext, LetIn, FindUser, SignedIn, TurnAway, SignUp, FindExisting, ClockTick, signVars
<1> QED
  BY <1>1, <1>2, SignTypeCorrect, PTL DEF SignSpec

-----------------------------------------------------------------------------
(* SignIn: how many attempts are let through.                              *)

\* How long ago the record was made.
Age == Window - record.left

\* What was let through is counted by the record since it was made, and before that at
\* most one window reaches into the last stretch, which let through no more than the
\* limit; between two windows nothing has been let through since the clock ticked.
LimiterInv ==
    /\ \A t \in 0..Window, u \in 0..Window : t <= u => passed[t] <= passed[u]
    /\ record.count = 0 => record = NoRecord /\ passed[0] = 0 /\ passed[Window] <= MaxLogin
    /\ record.count # 0 =>
         passed[Age] = record.count /\ passed[Window] <= record.count + MaxLogin

LEMMA LimiterStarts == SignInit => LimiterInv
BY SignInAssumption DEF SignInit, LimiterInv, NoRecord

\* An attempt is let in, the first of a window or a later one.
LEMMA LetInLimited ==
    ASSUME SignTypeOK, LimiterInv, NEW a, NEW p, LetIn(a, p)
    PROVE  LimiterInv'
<1>1. /\ MaxLogin \in Nat /\ Window \in Nat \ {0} /\ passed \in [0..Window -> Nat]
      /\ record \in [count : 0..MaxLogin, left : 0..Window]
  BY SignInAssumption DEF SignTypeOK
<1>2. \A t \in 0..Window : passed'[t] = passed[t] + 1
  BY DEF LetIn
<1>3. \A t \in 0..Window, u \in 0..Window : t <= u => passed'[t] <= passed'[u]
  BY <1>1, <1>2 DEF LimiterInv
<1>4. 0 \in 0..Window /\ Window \in 0..Window
  BY <1>1
<1>5. CASE record = NoRecord
  <2>1. record' = [count |-> 1, left |-> Window] /\ record.count = 0
    BY <1>5 DEF LetIn, NoRecord
  <2>2. passed[0] = 0 /\ passed[Window] <= MaxLogin
    BY <2>1 DEF LimiterInv
  <2>3. Age' = 0 /\ record'.count = 1
    BY <1>1, <2>1 DEF Age
  <2> QED
    BY <1>1, <1>2, <1>3, <1>4, <2>2, <2>3 DEF LimiterInv
<1>6. CASE record # NoRecord
  <2>1. record'.count = record.count + 1 /\ record'.left = record.left
    BY <1>1, <1>6 DEF LetIn
  <2>2. record.count # 0 /\ passed[Age] = record.count /\ passed[Window] <= record.count + MaxLogin
    BY <1>6 DEF LimiterInv
  <2>3. Age' = Age /\ Age \in 0..Window
    BY <1>1, <2>1 DEF Age
  <2> QED
    BY <1>1, <1>2, <1>3, <1>4, <2>1, <2>2, <2>3 DEF LimiterInv
<1> QED
  BY <1>5, <1>6

\* The clock ticks within a window, or ends it.
LEMMA TickLimited ==
    ASSUME SignTypeOK, LimiterInv, ClockTick
    PROVE  LimiterInv'
<1>1. /\ MaxLogin \in Nat /\ Window \in Nat \ {0} /\ passed \in [0..Window -> Nat]
      /\ record \in [count : 0..MaxLogin, left : 0..Window]
  BY SignInAssumption DEF SignTypeOK
<1>2. \A t \in 0..Window : passed'[t] = IF t = 0 THEN 0 ELSE passed[t - 1]
  BY DEF ClockTick
<1>3. /\ 0 \in 0..Window /\ Window \in 0..Window /\ Window - 1 \in 0..Window
      /\ \A t \in 1..Window : t - 1 \in 0..Window
  BY <1>1
<1>4. \A t \in 0..Window, u \in 0..Window : t <= u => passed'[t] <= passed'[u]
  <2> SUFFICES ASSUME NEW t \in 0..Window, NEW u \in 0..Window, t <= u
               PROVE  passed'[t] <= passed'[u]
    OBVIOUS
  <2>1. CASE t = 0
    <3>1. passed'[t] = 0 /\ passed'[u] \in Nat
      BY <1>1, <1>2, <1>3, <2>1
    <3> QED
      BY <3>1
  <2>2. CASE t # 0
    <3>1. t - 1 \in 0..Window /\ u - 1 \in 0..Window /\ t - 1 <= u - 1 /\ u # 0
      BY <1>1, <2>2
    <3>2. passed'[t] = passed[t - 1] /\ passed'[u] = passed[u - 1]
      BY <1>2, <2>2, <3>1
    <3> QED
      BY <3>1, <3>2 DEF LimiterInv
  <2> QED
    BY <2>1, <2>2
<1>5. passed'[0] = 0 /\ passed'[Window] <= passed[Window]
  BY <1>1, <1>2, <1>3 DEF LimiterInv
<1>6. CASE record.left = 0
  <2>1. record' = NoRecord /\ NoRecord' = NoRecord /\ record'.count = 0
    BY <1>6 DEF ClockTick, NoRecord
  <2>2. passed[Window] <= MaxLogin
    <3>1. Age = Window
      BY <1>1, <1>6 DEF Age
    <3> QED
      BY <1>1, <3>1 DEF LimiterInv
  <2>3. passed'[Window] <= MaxLogin
    BY <1>1, <1>2, <1>3, <1>5, <2>2
  <2> QED
    BY <1>4, <1>5, <2>1, <2>3 DEF LimiterInv
<1>7. CASE record.left # 0
  <2>1. record'.count = record.count /\ record'.left = record.left - 1
    BY <1>1, <1>7 DEF ClockTick
  <2>2. record.count # 0 /\ passed[Age] = record.count /\ passed[Window] <= record.count + MaxLogin
    BY <1>7 DEF LimiterInv, NoRecord
  <2>3. Age \in 0..Window /\ Age' = Age + 1 /\ Age + 1 \in 1..Window
    BY <1>1, <1>7, <2>1 DEF Age
  <2>4. passed'[Age'] = passed[Age]
    BY <1>2, <2>3
  <2>5. passed'[Window] \in Nat
    BY <1>1, <1>2, <1>3
  <2> QED
    BY <1>1, <1>3, <1>4, <1>5, <2>1, <2>2, <2>4, <2>5 DEF LimiterInv
<1> QED
  BY <1>6, <1>7

LEMMA LimiterAlways == SignSpec => [](SignTypeOK /\ LimiterInv)
<1>1. ASSUME SignTypeOK, LimiterInv, [SignNext]_signVars PROVE LimiterInv'
  <2> USE <1>1
  <2>1. ASSUME NEW a \in Attempts, NEW p \in People \cup {NoOne}, LetIn(a, p) PROVE LimiterInv'
    BY <2>1, LetInLimited
  <2>2. CASE ClockTick
    BY <2>2, TickLimited
  <2>3. ASSUME NEW a \in Attempts, SignedIn(a) PROVE LimiterInv'
    BY <2>3, SignInAssumption DEF SignedIn, LimiterInv, NoRecord
  <2>4. CASE UNCHANGED <<record, passed>>
    BY <2>4 DEF LimiterInv, Age, NoRecord
  <2> QED
    BY <2>1, <2>2, <2>3, <2>4
    DEF SignNext, FindUser, TurnAway, SignUp, FindExisting, CreateUser, GoogleSignIn, DeleteAccount,
        signVars
<1> QED
  BY <1>1, LimiterStarts, SignTypeCorrect, PTL DEF SignSpec

\* The limiter's windows are fixed, so the end of one and the start of the next lie in
\* one stretch as long as a window; never do more than twice the limit of attempts get
\* through in such a stretch, for any limit, window and number of attempts at a time.
THEOREM TwoWindowsAtMost == SignSpec => []AtMostTwiceTheLimit
<1>1. SignTypeOK /\ LimiterInv => AtMostTwiceTheLimit
  BY SignInAssumption DEF SignTypeOK, LimiterInv, AtMostTwiceTheLimit, Passed
<1> QED
  BY <1>1, LimiterAlways, PTL

\* checkLoginRateLimit refuses nobody without cause: the full limit has been let through
\* since the last success, within the last window.
THEOREM RefusedHasCause == SignSpec => []RefusedForCause
<1>1. ASSUME SignTypeOK, LimiterInv, Refused PROVE Passed >= MaxLogin
  <2>1. /\ MaxLogin \in Nat \ {0} /\ Window \in Nat \ {0} /\ passed \in [0..Window -> Nat]
        /\ record \in [count : 0..MaxLogin, left : 0..Window]
    BY <1>1, SignInAssumption DEF SignTypeOK
  <2>2. record.count = MaxLogin /\ Age \in 0..Window /\ Window \in 0..Window
    BY <1>1, <2>1 DEF Refused, Age
  <2>3. passed[Age] = MaxLogin /\ passed[Age] <= passed[Window]
    BY <1>1, <2>1, <2>2 DEF LimiterInv
  <2> QED
    BY <2>1, <2>2, <2>3 DEF Passed
<1> QED
  BY <1>1, LimiterAlways, PTL DEF RefusedForCause

-----------------------------------------------------------------------------
(* MCParts.                                                                *)

\* A step of one component is a step or a stutter of each.
LEMMA PartsStep ==
    ASSUME [PartsNext]_partsVars
    PROVE  /\ [ReadNext]_readVars /\ [SchedNext]_schedVars /\ [CalNext]_calVars
           /\ [TypNext]_typVars /\ [SignNext]_signVars
           /\ [CreatorNext]_creatorVars /\ [EditorNext]_editorVars
BY DEF PartsNext, partsVars

\* Where one component moves at a time, each does what it does alone, or nothing: what is
\* proved of it alone holds there too.
LEMMA PartsRefine ==
    PartsSpec => /\ ReadSpec /\ SchedSpec /\ CalSpec /\ TypSpec
                 /\ SignSpec /\ CreatorSpec /\ EditorSpec
<1>1. PartsInit => /\ ReadInit /\ SchedInit /\ CalInit /\ TypInit
                   /\ SignInit /\ CreatorInit /\ EditorInit
  BY DEF PartsInit
<1> QED
  BY <1>1, PartsStep, PTL
  DEF PartsSpec, ReadSpec, SchedSpec, CalSpec, TypSpec, SignSpec, CreatorSpec, EditorSpec

\* Whichever component moves keeps its types, and so do those that stand still.
THEOREM PartsTypeCorrect == PartsSpec => []PartsTypeOK
<1>1. PartsInit => part \in Parts
  BY DEF PartsInit
<1>2. part \in Parts /\ [PartsNext]_partsVars => (part \in Parts)'
  BY DEF PartsNext, partsVars
<1>3. /\ part \in Parts
      /\ ReadTypeOK /\ SchedTypeOK /\ CalTypeOK /\ TypTypeOK
      /\ SignTypeOK /\ CreatorTypeOK /\ EditorTypeOK
      => PartsTypeOK
  BY DEF Parts, PartsTypeOK
<1>4. PartsSpec => [](part \in Parts)
  BY <1>1, <1>2, PTL DEF PartsSpec
<1> QED
  BY <1>3, <1>4, PartsRefine, ReadTypeCorrect, SchedTypeCorrect, CalTypeCorrect, TypTypeCorrect,
     SignTypeCorrect, CreatorTypeCorrect, EditorTypeCorrect, PTL

=============================================================================
