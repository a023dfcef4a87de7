------------------------ MODULE ExamAuthoringProofs ------------------------
(***************************************************************************)
(* For any number of templates, questions and changes: what the teacher    *)
(* typed last is somewhere, and one piece of work becomes one template, or *)
(* one of the named causes has come in between.                            *)
(***************************************************************************)
EXTENDS ExamAuthoring, FiniteSetTheorems, TLAPS

\* A form without a version is empty, an edited template is no new work, every
\* version and work was typed, and what was stored or saved had content.
Sound(f) ==
    /\ f.text = 0 => f = Nothing
    /\ f.editing # NoTemplate => f.work = 0
    /\ f.work <= typed /\ f.text <= typed
FormsAreSound ==
    /\ Sound(form) /\ Sound(store) /\ Sound(offered) /\ Sound(request.form)
    /\ \A t \in Templates : /\ origin[t] <= typed /\ title[t] <= typed
                            /\ t >= nextTemplate => origin[t] = 0
    /\ store = Nothing \/ HasContent(store)
    /\ offered = Nothing \/ HasContent(offered)
    /\ timer => HasContent(form)
    /\ request.stage # "none" => HasContent(request.form)
    /\ request.stage = "orphan" => lost
    /\ request.stage \in {"created", "updated"} /\ request.form.text = typed => saved

\* The latest version that is neither saved nor given up is in the form, with
\* its timer, its draft or no content, or in the draft that the page offers.
LatestIsHeld ==
    typed # 0 /\ ~saved /\ ~released =>
        \/ form.text = typed /\ (timer \/ store.text = typed \/ ~HasContent(form))
        \/ /\ form = Nothing /\ ~timer
           /\ store.text = typed /\ offered.text = typed
           /\ request.stage \in {"none", "orphan"}

\* Work that became a template is held only until the page has its answer.
Origins == {origin[t] : t \in Templates}
WorkIsNew ==
    ~lost =>
        /\ \A w \in {form.work, store.work} :
             w # 0 /\ w \in Origins => request.stage = "created" /\ w = request.form.work
        /\ offered.work # 0 =>
             /\ offered.work \notin Origins
             /\ offered.work # form.work
             /\ request.stage # "none" => offered.work # request.form.work
        /\ UnderWay /\ request.form.work # 0 => request.form.work \notin Origins

AuthoringInv == TypeOK /\ FormsAreSound /\ LatestIsHeld /\ WorkIsNew /\ OneTemplatePerWork

USE DEF serverVars, pageVars, ghostVars

-----------------------------------------------------------------------------
(* Forms                                                                   *)

\* A form has a natural number of questions.
LEMMA SizeType == ASSUME NEW f \in Forms PROVE Size(f) \in Nat
<1>1. IsFiniteSet(Rows)
  BY AuthoringBounds, FS_Interval DEF Rows
<1>2. IsFiniteSet(f.kept) /\ f.fresh \in Nat
  BY <1>1, AuthoringBounds, FS_Subset DEF Forms
<1> QED BY <1>2, FS_CardinalityType DEF Size

\* The empty form.
LEMMA NothingTyped ==
    /\ Nothing \in Forms /\ ~HasContent(Nothing) /\ Nothing.work = 0
    /\ typed \in Nat => Sound(Nothing)
<1>1. Cardinality({}) = 0
  BY FS_EmptySet
<1>2. Size(Nothing) = 0
  BY <1>1 DEF Nothing, Size
<1> QED BY <1>2, AuthoringBounds DEF Nothing, Forms, HasContent, Sound, NoTemplate

\* Nothing is typed at first.
LEMMA AuthoringInit == Init => AuthoringInv
<1> SUFFICES ASSUME Init PROVE AuthoringInv
  OBVIOUS
<1>1. TypeOK
  <2>1. 0 \in 0 .. MaxEdits /\ 1 \in 1 .. MaxTemplates + 1 /\ 1 \in 1 .. MaxRows + 1
    BY AuthoringBounds
  <2>2. /\ title \in [Templates -> 0 .. MaxEdits] /\ origin \in [Templates -> 0 .. MaxEdits]
        /\ rows \in [Templates -> SUBSET Rows]
    BY <2>1 DEF Init
  <2>3. request \in [stage : {"none", "sent", "orphan", "created", "updated", "failed"}, form : Forms]
    BY NothingTyped DEF Init, Idle
  <2> QED BY <2>1, <2>2, <2>3, NothingTyped DEF Init, TypeOK
<1>2. FormsAreSound
  BY NothingTyped DEF Init, FormsAreSound, Idle
<1>3. LatestIsHeld /\ WorkIsNew /\ OneTemplatePerWork
  BY NothingTyped DEF Init, LatestIsHeld, WorkIsNew, OneTemplatePerWork, Idle, UnderWay
<1> QED BY <1>1, <1>2, <1>3 DEF AuthoringInv

\* A change makes the next version, of the same work or of work of its own.
LEMMA EditOK == ASSUME AuthoringInv, Edit PROVE AuthoringInv'
<1>1. TypeOK /\ form \in Forms /\ Size(form) \in Nat /\ form.fresh \in Nat /\ typed \in Nat
  BY SizeType, AuthoringBounds DEF AuthoringInv, TypeOK, Forms
<1>2. PICK filled \in SUBSET Words, kept \in SUBSET Rows, fresh \in Nat :
         Change(filled, kept, fresh)
  <2>1. /\ form.kept \in SUBSET Rows /\ {} \in SUBSET Rows /\ form.filled \in SUBSET Words
        /\ \A word \in Words : /\ form.filled \cup {word} \in SUBSET Words
                             /\ form.filled \ {word} \in SUBSET Words
    BY <1>1 DEF Forms
  <2>2. /\ form.fresh + 1 \in Nat /\ Size(form) + 1 \in Nat
        /\ Size(form) > 0 => Size(form) - 1 \in Nat
    BY <1>1
  <2>3. CASE \E word \in Words : EditWords(word)
    BY <1>1, <2>1, <2>3 DEF EditWords
  <2>4. CASE EditDetails \/ ImportQuestion \/ AddQuestion \/ EditQuestion \/ RemoveQuestion
    BY <1>1, <2>1, <2>2, <2>4 DEF EditDetails, ImportQuestion, AddQuestion, EditQuestion,
                                  RemoveQuestion, ChangeQuestions
  <2> QED BY <2>3, <2>4 DEF Edit
<1> DEFINE next == [form EXCEPT !.text = typed + 1, !.filled = filled, !.kept = kept, !.fresh = fresh,
                                !.work = IF form # Nothing THEN @ ELSE typed + 1]
<1>a. /\ form' = next /\ typed' = typed + 1 /\ typed < MaxEdits /\ fresh <= MaxFresh
      /\ timer' = HasContent(form')
      /\ saved' = FALSE /\ released' = FALSE
      /\ UNCHANGED <<serverVars, store, offered, request, lost>>
  BY <1>2 DEF Change, Show
<1>b. typed' \in 0 .. MaxEdits /\ fresh \in 0 .. MaxFresh
  BY <1>1, <1>2, <1>a, AuthoringBounds
<1>3. /\ form' = next /\ typed' = typed + 1 /\ typed' \in 0 .. MaxEdits
      /\ fresh \in 0 .. MaxFresh
      /\ timer' = HasContent(form')
      /\ saved' \in BOOLEAN /\ released' \in BOOLEAN
      /\ UNCHANGED <<serverVars, store, offered, request, lost>>
  BY <1>a, <1>b
<1>4. /\ next \in Forms /\ next.text = typed + 1 /\ next.editing = form.editing
      /\ next.work \in {form.work, typed + 1} /\ (form # Nothing => next.work = form.work)
  BY <1>1, <1>3, AuthoringBounds DEF Forms, TypeOK
<1> HIDE DEF next
<1>5. form'.text = typed' /\ timer' \in BOOLEAN
  <2>1. HasContent(form') \in BOOLEAN
    BY DEF HasContent
  <2> QED BY <1>3, <1>4, <2>1
<1>6. TypeOK'
  BY <1>1, <1>3, <1>4, <1>5 DEF TypeOK
<1>7. Sound(form)'
  <2>1. form.editing # NoTemplate => form # Nothing
    BY DEF Nothing
  <2>2. form.work <= typed /\ (form.editing # NoTemplate => form.work = 0) /\ form.work \in Nat
    BY <1>1 DEF AuthoringInv, FormsAreSound, Sound, Forms
  <2> QED BY <1>1, <1>3, <1>4, <1>5, <2>1, <2>2 DEF Sound
<1>8. FormsAreSound'
  <2>1. /\ \A f \in {store, offered, request.form} : f.work \in Nat /\ f.text \in Nat
        /\ \A t \in Templates : origin[t] \in Nat /\ title[t] \in Nat
    BY <1>1 DEF TypeOK, Forms
  <2>2. timer' => HasContent(form)'
    BY <1>a DEF HasContent, Size
  <2>3. \A f \in {store, offered, request.form} : Sound(f) => Sound(f)'
    BY <1>1, <1>a, <2>1 DEF Sound
  <2>4. request.form.text # typed'
    BY <1>1, <1>a, <2>1 DEF AuthoringInv, FormsAreSound, Sound
  <2>5. \A t \in Templates : origin'[t] <= typed' /\ title'[t] <= typed'
    BY <1>1, <1>a, <2>1 DEF AuthoringInv, FormsAreSound
  <2> QED BY <1>a, <1>7, <2>2, <2>3, <2>4, <2>5 DEF AuthoringInv, FormsAreSound, Sound, HasContent, Size
<1>9. LatestIsHeld'
  <2>1. timer' \/ ~HasContent(form)'
    BY <1>a DEF HasContent, Size
  <2> QED BY <1>5, <2>1 DEF LatestIsHeld
<1>10. WorkIsNew'
  <2>1. typed + 1 \notin Origins /\ offered.work # typed + 1 /\ typed + 1 # 0
    BY <1>1 DEF Origins, AuthoringInv, FormsAreSound, Sound, TypeOK, Forms
  <2> QED BY <1>3, <1>4, <2>1 DEF AuthoringInv, WorkIsNew, Origins, UnderWay
<1> QED BY <1>3, <1>6, <1>8, <1>9, <1>10 DEF AuthoringInv, OneTemplatePerWork

-----------------------------------------------------------------------------
(* The panel                                                               *)

\* What the panel does with form, draft and offer.
LEMMA PanelOK ==
    ASSUME AuthoringInv,
           \/ NewExam \/ (\E t \in Templates : OpenTemplate(t)) \/ Autosave
           \/ RestoreDraft \/ DiscardDraft \/ Reload
    PROVE  AuthoringInv'
<1> USE NothingTyped DEF AuthoringInv
<1>1. typed \in Nat /\ typed' = typed /\ Sound(Nothing)
  <2>1. typed \in Nat
    BY AuthoringBounds DEF TypeOK
  <2>2. typed' = typed
    BY DEF NewExam, OpenTemplate, Autosave, RestoreDraft, DiscardDraft, Reload
  <2> QED BY <2>1, <2>2
<1>2. CASE NewExam
  BY <1>1, <1>2 DEF NewExam, Reset, TypeOK, FormsAreSound, Sound, HasContent, Size, LatestIsHeld,
              WorkIsNew, Origins, UnderWay, OneTemplatePerWork
<1>3. ASSUME NEW t \in Templates, OpenTemplate(t) PROVE AuthoringInv'
  <2>1. PICK filled \in {{"title"}, Words} :
           form' = [editing |-> t, text |-> title[t], work |-> 0, filled |-> filled,
                    kept |-> rows[t], fresh |-> 0]
    BY <1>3 DEF OpenTemplate, Show
  <2>a. /\ title[t] # 0 /\ timer' = HasContent(form') /\ released' = TRUE
        /\ UNCHANGED <<serverVars, store, offered, request, typed, saved, lost>>
    BY <1>3 DEF OpenTemplate, Show, There
  <2>b. filled \in SUBSET Words /\ filled # {}
    BY <2>1 DEF Words
  <2>2. form' \in Forms /\ form'.text # 0 /\ form'.work = 0 /\ form'.text <= typed
    BY <2>1, <2>a, <2>b, AuthoringBounds DEF FormsAreSound, TypeOK, Forms
  <2>3. timer' = TRUE /\ HasContent(form)'
    BY <2>1, <2>a, <2>b DEF HasContent
  <2>4. TypeOK'
    BY <2>a, <2>2, <2>3 DEF TypeOK
  <2>5. FormsAreSound'
    BY <1>1, <2>a, <2>2, <2>3 DEF FormsAreSound, Sound, HasContent, Size
  <2> QED BY <2>a, <2>2, <2>4, <2>5
          DEF LatestIsHeld, WorkIsNew, Origins, UnderWay, OneTemplatePerWork
<1>4. CASE Autosave
  <2>1. TypeOK'
    BY <1>4 DEF Autosave, TypeOK
  <2>a. HasContent(store)' /\ (request.stage # "none" => HasContent(request.form)')
        /\ (offered = Nothing \/ HasContent(offered)')
    BY <1>4 DEF Autosave, FormsAreSound, HasContent, Size
  <2>b. FormsAreSound'
    BY <1>4, <2>a DEF Autosave, FormsAreSound, Sound
  <2>2. LatestIsHeld'
    BY <1>4 DEF Autosave, LatestIsHeld
  <2>3. WorkIsNew' /\ OneTemplatePerWork'
    BY <1>4 DEF Autosave, WorkIsNew, Origins, UnderWay, OneTemplatePerWork
  <2> QED BY <2>1, <2>2, <2>3, <2>b
<1>5. CASE RestoreDraft
  <2>1. /\ form' = offered /\ offered' = Nothing /\ offered # Nothing
        /\ timer' = HasContent(offered) /\ released' = (released \/ form # Nothing)
        /\ UNCHANGED <<serverVars, store, request, typed, saved, lost>>
    BY <1>5 DEF RestoreDraft, Show
  <2>2. HasContent(offered)
    BY <2>1 DEF FormsAreSound
  <2>3. released' \in BOOLEAN /\ timer' = TRUE
    BY <2>1, <2>2
  <2>4. TypeOK'
    BY <2>1, <2>3 DEF TypeOK
  <2>5. FormsAreSound'
    BY <1>1, <2>1, <2>2 DEF FormsAreSound, Sound, HasContent, Size
  <2>6. LatestIsHeld'
    <3> SUFFICES ASSUME typed # 0, ~saved, ~released, form = Nothing
                 PROVE  form'.text = typed' /\ timer'
      BY <2>1 DEF LatestIsHeld
    <3>1. form.text # typed
      BY DEF Nothing
    <3>2. offered.text = typed
      BY <3>1 DEF LatestIsHeld
    <3> QED BY <2>1, <2>3, <3>2
  <2>7. WorkIsNew' /\ OneTemplatePerWork'
    BY <2>1 DEF WorkIsNew, Origins, UnderWay, OneTemplatePerWork
  <2> QED BY <2>4, <2>5, <2>6, <2>7
<1>6. CASE DiscardDraft
  BY <1>1, <1>6 DEF DiscardDraft, TypeOK, FormsAreSound, Sound, HasContent, Size, LatestIsHeld,
              WorkIsNew, Origins, UnderWay, OneTemplatePerWork
<1>7. CASE Reload
  <2>1. /\ form' = Nothing /\ ~timer' /\ timer' \in BOOLEAN /\ offered' = store
        /\ released' = (released \/ timer \/ (form # Nothing /\ ~HasContent(form)))
        /\ lost' = (lost \/ request.stage # "none")
        /\ UNCHANGED <<serverVars, store, typed, saved>>
    BY <1>7 DEF Reload
  <2>2. /\ request' \in [stage : {"none", "sent", "orphan", "created", "updated", "failed"}, form : Forms]
        /\ request'.stage \in {"none", "orphan"}
        /\ request'.stage = "orphan" => request.stage # "none" /\ request'.form = request.form
        /\ request'.form \in {request.form, Nothing}
        /\ request.stage = "none" => request'.stage = "none"
    BY <1>7 DEF Reload, Idle, TypeOK
  <2>3. released' \in BOOLEAN /\ lost' \in BOOLEAN
    BY <2>1
  <2>4. TypeOK'
    BY <2>1, <2>2, <2>3 DEF TypeOK
  <2>5. FormsAreSound'
    BY <1>1, <2>1, <2>2 DEF FormsAreSound, Sound, HasContent, Size
  <2>6. LatestIsHeld'
    BY <1>1, <2>1, <2>2 DEF LatestIsHeld, Nothing
  <2>7. WorkIsNew' /\ OneTemplatePerWork'
    BY <2>1, <2>2 DEF WorkIsNew, Origins, UnderWay, OneTemplatePerWork
  <2> QED BY <2>4, <2>5, <2>6, <2>7
<1> QED BY <1>2, <1>3, <1>4, <1>5, <1>6, <1>7

-----------------------------------------------------------------------------
(* Saving                                                                  *)

\* The save is pressed, and the steps of it that change neither form nor server.
LEMMA RequestOK ==
    ASSUME AuthoringInv, PressSave \/ FailSave \/ LoseReply \/ AfterFailure
    PROVE  AuthoringInv'
<1> USE NothingTyped DEF AuthoringInv
<1> DEFINE Requests == [stage : {"none", "sent", "orphan", "created", "updated", "failed"}, form : Forms]
<1>a. Idle \in Requests /\ request \in Requests /\ form \in Forms
  BY DEF Idle, TypeOK
<1>b. request' \in Requests
  <2>1. [stage |-> "sent", form |-> form] \in Requests /\ [request EXCEPT !.stage = "failed"] \in Requests
    BY <1>a
  <2> QED BY <1>a, <2>1 DEF PressSave, FailSave, LoseReply, AfterFailure, Reply
<1>c. lost' \in BOOLEAN
  BY DEF PressSave, FailSave, LoseReply, AfterFailure, TypeOK
<1>1. /\ request' \in [stage : {"none", "sent", "orphan", "created", "updated", "failed"}, form : Forms]
      /\ lost' \in BOOLEAN
      /\ UNCHANGED <<serverVars, pageVars, typed, saved, released>>
  BY <1>b, <1>c DEF PressSave, FailSave, LoseReply, AfterFailure
<1>2. typed \in Nat /\ Sound(Nothing)
  BY AuthoringBounds DEF TypeOK
<1>3. TypeOK'
  BY <1>1 DEF TypeOK
<1>4. CASE PressSave
  <2>1. request' = [stage |-> "sent", form |-> form] /\ request.stage = "none" /\ HasContent(form)
        /\ lost' = lost
    BY <1>4 DEF PressSave, HasContent
  <2>2. FormsAreSound' /\ LatestIsHeld'
    BY <1>1, <2>1 DEF FormsAreSound, Sound, HasContent, Size, LatestIsHeld
  <2>3. WorkIsNew' /\ OneTemplatePerWork'
    BY <1>1, <2>1 DEF WorkIsNew, Origins, UnderWay, OneTemplatePerWork
  <2> QED BY <1>3, <2>2, <2>3
<1>5. CASE FailSave \/ LoseReply \/ AfterFailure
  <2>1. /\ request.stage # "none"
        /\ request' = Idle \/ (request' = [request EXCEPT !.stage = "failed"])
        /\ request.stage = "created" => lost'
        /\ lost => lost'
    BY <1>5 DEF FailSave, LoseReply, AfterFailure, Reply, UnderWay
  <2>2. /\ request'.stage \in {"none", "failed"} /\ request'.form \in {request.form, Nothing}
        /\ request'.stage # "none" => request'.form = request.form
        /\ request'.stage = "failed" => request.stage # "orphan"
        /\ request.stage = "orphan" => request'.stage = "none"
    BY <1>5, <2>1 DEF FailSave, LoseReply, AfterFailure, Reply, Idle, TypeOK
  <2>3. FormsAreSound'
    BY <1>1, <1>2, <2>1, <2>2 DEF FormsAreSound, Sound, HasContent, Size
  <2>4. LatestIsHeld'
    BY <1>1, <2>1, <2>2 DEF LatestIsHeld
  <2>5. WorkIsNew' /\ OneTemplatePerWork'
    BY <1>1, <2>1, <2>2 DEF WorkIsNew, Origins, UnderWay, OneTemplatePerWork
  <2> QED BY <1>3, <2>3, <2>4, <2>5
<1> QED BY <1>4, <1>5

\* The answer to a save that was done empties what it was saved from.
LEMMA AnswerOK == ASSUME AuthoringInv, AfterCreate \/ AfterUpdate PROVE AuthoringInv'
<1> USE NothingTyped DEF AuthoringInv
<1>1. /\ request.stage \in {"created", "updated"} /\ request' = Idle /\ store' = Nothing
      /\ \/ form' = form /\ timer' = timer /\ request.stage = "updated"
         \/ form' = Nothing /\ timer' = FALSE
      /\ released' = (released \/ form # request.form)
      /\ UNCHANGED <<serverVars, offered, typed, saved, lost>>
  BY DEF AfterCreate, AfterUpdate, Reset
<1>2. typed \in Nat /\ Sound(Nothing) /\ released' \in BOOLEAN
  BY <1>1, AuthoringBounds DEF TypeOK
<1>3. TypeOK'
  BY <1>1, <1>2 DEF TypeOK, Idle
<1>4. FormsAreSound'
  BY <1>1, <1>2 DEF FormsAreSound, Sound, HasContent, Size, Idle
<1>5. LatestIsHeld'
  BY <1>1, <1>2 DEF FormsAreSound, LatestIsHeld
<1>6. WorkIsNew' /\ OneTemplatePerWork'
  BY <1>1, <1>2 DEF WorkIsNew, Origins, UnderWay, Idle, OneTemplatePerWork
<1> QED BY <1>3, <1>4, <1>5, <1>6

\* The server creates a template with the work of the form, or updates one.
LEMMA ServeOK == ASSUME AuthoringInv, Create \/ Update PROVE AuthoringInv'
<1> USE NothingTyped DEF AuthoringInv
<1> DEFINE f == request.form
<1>1. /\ f \in Forms /\ Size(f) \in Nat /\ f.fresh \in Nat /\ f.text \in 1 .. MaxEdits
      /\ f.work \in 0 .. MaxEdits /\ f.kept \subseteq Rows /\ typed \in Nat /\ Sound(Nothing)
  <2>1. f \in Forms /\ request.stage # "none"
    BY DEF TypeOK, Create, Update, UnderWay
  <2>2. f.text # 0 /\ typed \in Nat
    BY <2>1, AuthoringBounds DEF FormsAreSound, Sound, TypeOK
  <2> QED BY <2>1, <2>2, SizeType, AuthoringBounds DEF Forms
<1>2. /\ request' \in [stage : {"none", "sent", "orphan", "created", "updated", "failed"}, form : Forms]
      /\ request.stage \in {"sent", "orphan"}
      /\ request.stage = "orphan" => request' = Idle
      /\ request.stage = "sent" => request'.stage \in {"created", "updated"} /\ request'.form = f
      /\ saved' = (saved \/ f.text = typed)
      /\ UNCHANGED <<pageVars, typed, released, lost>>
  BY DEF Create, Update, UnderWay, Reply, Idle, TypeOK
<1>d. (saved => saved') /\ (f.text = typed => saved')
  <2>1. saved' = (saved \/ f.text = typed)
    BY <1>2
  <2> HIDE DEF f
  <2> QED BY <2>1, Zenon
<1>3. nextRow' \in 1 .. MaxRows + 1 /\ title' \in [Templates -> 0 .. MaxEdits]
      /\ rows' \in [Templates -> SUBSET Rows]
  <2>1. \A n \in Nat : (n > 0 => nextRow + n - 1 \in Rows) =>
                      NewRows(n) \subseteq Rows /\ nextRow + n \in 1 .. MaxRows + 1
    BY AuthoringBounds DEF NewRows, Rows, TypeOK
  <2>2. CASE Create
    <3>1. NewRows(Size(f)) \subseteq Rows /\ nextRow + Size(f) \in 1 .. MaxRows + 1
      BY <1>1, <2>1, <2>2 DEF Create
    <3> QED BY <1>1, <2>2, <3>1 DEF Create, TypeOK
  <2>3. CASE Update
    <3>1. NewRows(f.fresh) \subseteq Rows /\ nextRow + f.fresh \in 1 .. MaxRows + 1
      <4>1. f.fresh > 0 => nextRow + f.fresh - 1 \in Rows
        BY <2>3 DEF Update
      <4> QED BY <1>1, <2>1, <4>1
    <3>2. f.kept \cup NewRows(f.fresh) \in SUBSET Rows /\ f.text \in 0 .. MaxEdits
      BY <1>1, <3>1
    <3>3. /\ title' = [title EXCEPT ![f.editing] = f.text]
          /\ rows' = [rows EXCEPT ![f.editing] = f.kept \cup NewRows(f.fresh)]
          /\ nextRow' = nextRow + f.fresh
      BY <2>3 DEF Update
    <3>4. title \in [Templates -> 0 .. MaxEdits] /\ rows \in [Templates -> SUBSET Rows]
      BY DEF TypeOK
    <3> HIDE DEF f
    <3> QED BY <3>1, <3>2, <3>3, <3>4
  <2> QED BY <2>2, <2>3
<1>4. \/ /\ origin' = [origin EXCEPT ![nextTemplate] = f.work]
         /\ nextTemplate \in Templates /\ nextTemplate' = nextTemplate + 1
         /\ request.stage = "sent" => request'.stage = "created"
      \/ origin' = origin /\ nextTemplate' = nextTemplate
  BY <1>2 DEF Create, Update, Reply, TypeOK
<1>b. \A t \in Templates :
        \/ origin'[t] = origin[t]
        \/ /\ t = nextTemplate /\ origin'[t] = f.work /\ nextTemplate' = nextTemplate + 1
           /\ request.stage = "sent" => request'.stage = "created"
  <2>1. origin \in [Templates -> 0 .. MaxEdits]
    BY DEF TypeOK
  <2> HIDE DEF f
  <2> QED BY <1>4, <2>1
<1>c. origin' \in [Templates -> 0 .. MaxEdits] /\ nextTemplate' \in 1 .. MaxTemplates + 1
      /\ nextTemplate' >= nextTemplate
  <2>1. origin \in [Templates -> 0 .. MaxEdits] /\ nextTemplate \in 1 .. MaxTemplates + 1
    BY DEF TypeOK
  <2>2. f.work \in 0 .. MaxEdits
    BY <1>1
  <2> HIDE DEF f
  <2>3. origin' \in [Templates -> 0 .. MaxEdits]
    BY <1>4, <2>1, <2>2
  <2>4. nextTemplate' \in 1 .. MaxTemplates + 1 /\ nextTemplate' >= nextTemplate
    BY <1>4, <2>1, AuthoringBounds DEF Templates
  <2> QED BY <2>3, <2>4
<1>5. TypeOK'
  BY <1>1, <1>2, <1>3, <1>c DEF TypeOK
<1>6. FormsAreSound'
  <2>1. \A t \in Templates : origin[t] \in Nat /\ origin[t] <= typed
    BY AuthoringBounds DEF TypeOK, FormsAreSound
  <2>2. f.work \in Nat /\ f.work <= typed
    BY <1>1 DEF FormsAreSound, Sound
  <2>3. \A t \in Templates : origin'[t] <= typed /\ (t >= nextTemplate' => origin'[t] = 0)
    <3> HIDE DEF f
    <3> SUFFICES ASSUME NEW t \in Templates
                 PROVE  origin'[t] <= typed /\ (t >= nextTemplate' => origin'[t] = 0)
      OBVIOUS
    <3>1. CASE origin'[t] = origin[t]
      <4>1. t >= nextTemplate' => t >= nextTemplate
        BY <1>c, AuthoringBounds DEF Templates, TypeOK
      <4> QED BY <2>1, <3>1, <4>1 DEF FormsAreSound
    <3>2. CASE /\ t = nextTemplate /\ origin'[t] = f.work /\ nextTemplate' = nextTemplate + 1
      <4>1. ~(t >= nextTemplate')
        BY <3>2, AuthoringBounds DEF Templates
      <4> QED BY <2>2, <3>2, <4>1
    <3> QED BY <1>b, <3>1, <3>2
  <2>4. Sound(form) /\ Sound(store) /\ Sound(offered) /\ Sound(f) /\ HasContent(f)
    BY <1>2 DEF FormsAreSound
  <2>5. request'.form \in {f, Nothing} /\ (request'.stage # "none" => request'.form = f)
    BY <1>2 DEF Idle
  <2>6. request'.stage # "orphan" /\ (f.text = typed => saved')
    BY <1>2, <1>d DEF Idle
  <2>a. \A t \in Templates : title'[t] <= typed
    <3>1. title \in [Templates -> 0 .. MaxEdits] /\ f.text <= typed
          /\ \A t \in Templates : title[t] <= typed
      BY DEF TypeOK, FormsAreSound, Sound
    <3>2. \E u \in Templates : title' = [title EXCEPT ![u] = f.text]
      BY DEF Create, Update, There
    <3> HIDE DEF f
    <3> QED BY <3>1, <3>2
  <2>7. Sound(form)' /\ Sound(store)' /\ Sound(offered)'
    BY <1>2, <2>4 DEF Sound
  <2>8. Sound(request.form)'
    BY <1>1, <1>2, <2>4, <2>5 DEF Sound
  <2>9. typed' = typed /\ (request'.stage # "none" => HasContent(request'.form))
    BY <1>2, <2>4, <2>5
  <2>10. /\ store' = Nothing \/ HasContent(store)'
         /\ offered' = Nothing \/ HasContent(offered)'
         /\ timer' => HasContent(form)'
    BY <1>2 DEF FormsAreSound, HasContent, Size
  <2>11. request'.stage # "none" => HasContent(request.form)'
    BY <2>9 DEF HasContent, Size
  <2> QED BY <2>3, <2>5, <2>6, <2>a, <2>7, <2>8, <2>9, <2>10, <2>11 DEF FormsAreSound
<1>7. LatestIsHeld'
  <2>1. ~saved' /\ ~released' => ~saved /\ ~released
    BY <1>2, <1>d
  <2>2. request.stage = "orphan" => request'.stage = "none"
    BY <1>2 DEF Idle
  <2> QED BY <1>2, <2>1, <2>2 DEF LatestIsHeld, HasContent, Size
<1>8. WorkIsNew'
  <2> SUFFICES ASSUME ~lost PROVE WorkIsNew'
    BY <1>2 DEF WorkIsNew
  <2>1. request.stage = "sent" /\ UnderWay
    BY <1>2 DEF FormsAreSound, UnderWay
  <2>2. ASSUME NEW w, w # 0, w \in Origins'
        PROVE  w \in Origins \/ (w = f.work /\ request'.stage = "created")
    <3>1. PICK t \in Templates : w = origin'[t]
      BY <2>2 DEF Origins
    <3>2. CASE origin'[t] = origin[t]
      BY <3>1, <3>2 DEF Origins
    <3>3. CASE origin'[t] # origin[t]
      BY <1>b, <2>1, <3>1, <3>3
    <3> QED BY <3>2, <3>3
  <2>3. /\ form.work # 0 => form.work \notin Origins
        /\ store.work # 0 => store.work \notin Origins
        /\ offered.work # 0 => /\ offered.work \notin Origins /\ offered.work # form.work
                              /\ offered.work # f.work
    BY <2>1 DEF WorkIsNew
  <2>4. /\ request'.form = f /\ request'.stage \in {"created", "updated"} /\ ~UnderWay'
        /\ form' = form /\ store' = store /\ offered' = offered
    BY <1>2, <2>1 DEF UnderWay
  <2>5. \A w \in {form'.work, store'.work} :
          w # 0 /\ w \in Origins' => request'.stage = "created" /\ w = request'.form.work
    BY <2>2, <2>3, <2>4
  <2>6. offered'.work # 0 => /\ offered'.work \notin Origins' /\ offered'.work # form'.work
                             /\ offered'.work # request'.form.work
    BY <2>2, <2>3, <2>4
  <2> HIDE DEF f
  <2> QED BY <2>4, <2>5, <2>6 DEF WorkIsNew
<1>9. OneTemplatePerWork'
  <2> SUFFICES ASSUME ~lost, NEW t \in Templates, NEW u \in Templates, t # u,
                      origin'[t] = origin'[u], origin'[t] # 0
               PROVE  FALSE
    BY <1>2 DEF OneTemplatePerWork
  <2>1. request.form.work # 0 => f.work \notin Origins
    BY <1>2 DEF WorkIsNew, UnderWay
  <2>2. CASE origin'[t] = origin[t] /\ origin'[u] = origin[u]
    BY <2>2 DEF OneTemplatePerWork
  <2>3. CASE origin'[t] # origin[t]
    <3>1. t = nextTemplate /\ origin'[t] = f.work
      BY <1>b, <2>3
    <3>2. origin'[u] = origin[u]
      BY <1>b, <3>1
    <3> QED BY <2>1, <3>1, <3>2 DEF Origins
  <2>4. CASE origin'[u] # origin[u]
    <3>1. u = nextTemplate /\ origin'[u] = f.work
      BY <1>b, <2>4
    <3>2. origin'[t] = origin[t]
      BY <1>b, <3>1
    <3> QED BY <2>1, <3>1, <3>2 DEF Origins
  <2> QED BY <2>2, <2>3, <2>4
<1> QED BY <1>5, <1>6, <1>7, <1>8, <1>9

-----------------------------------------------------------------------------
(* The library                                                             *)

\* A deleted template or question is nobody's draft, and the work a template
\* came from is remembered.
LEMMA LibraryOK ==
    ASSUME AuthoringInv,
           \E t \in Templates : DeleteTemplate(t) \/ (\E r \in Rows : OtherRemoves(t, r))
    PROVE  AuthoringInv'
<1> USE DEF AuthoringInv
<1>1. UNCHANGED <<origin, nextTemplate, nextRow, pageVars, request, typed, saved, released, lost>>
  BY DEF DeleteTemplate, OtherRemoves
<1>2. title' \in [Templates -> 0 .. MaxEdits] /\ rows' \in [Templates -> SUBSET Rows]
  <2>1. title \in [Templates -> 0 .. MaxEdits] /\ rows \in [Templates -> SUBSET Rows]
        /\ 0 \in 0 .. MaxEdits
    BY AuthoringBounds DEF TypeOK
  <2>2. ASSUME NEW t \in Templates, DeleteTemplate(t)
        PROVE  title' \in [Templates -> 0 .. MaxEdits] /\ rows' \in [Templates -> SUBSET Rows]
    BY <2>1, <2>2 DEF DeleteTemplate
  <2>3. ASSUME NEW t \in Templates, NEW r \in Rows, OtherRemoves(t, r)
        PROVE  title' \in [Templates -> 0 .. MaxEdits] /\ rows' \in [Templates -> SUBSET Rows]
    BY <2>1, <2>3 DEF OtherRemoves
  <2> QED BY <2>2, <2>3
<1>3. TypeOK'
  BY <1>1, <1>2 DEF TypeOK
<1>a. \A t \in Templates : title'[t] \in {title[t], 0}
  <2>1. title \in [Templates -> 0 .. MaxEdits]
    BY DEF TypeOK
  <2> QED BY <2>1 DEF DeleteTemplate, OtherRemoves
<1>b. \A t \in Templates : title'[t] <= typed
  <2>1. typed \in Nat
    BY AuthoringBounds DEF TypeOK
  <2> QED BY <1>a, <2>1 DEF FormsAreSound
<1>4. FormsAreSound' /\ LatestIsHeld'
  BY <1>1, <1>b DEF FormsAreSound, Sound, HasContent, Size, LatestIsHeld
<1>5. WorkIsNew' /\ OneTemplatePerWork'
  BY <1>1 DEF WorkIsNew, Origins, UnderWay, OneTemplatePerWork
<1> QED BY <1>3, <1>4, <1>5

-----------------------------------------------------------------------------
\* The inductive invariant holds of every execution of form, draft and server.
THEOREM AuthoringInvariant == Spec => []AuthoringInv
<1>1. AuthoringInv /\ [Next]_vars => AuthoringInv'
  <2> SUFFICES ASSUME AuthoringInv, [Next]_vars PROVE AuthoringInv'
    OBVIOUS
  <2>1. CASE Edit
    BY <2>1, EditOK
  <2>2. CASE \/ NewExam \/ (\E t \in Templates : OpenTemplate(t)) \/ Autosave
             \/ RestoreDraft \/ DiscardDraft \/ Reload
    BY <2>2, PanelOK
  <2>3. CASE PressSave \/ FailSave \/ LoseReply \/ AfterFailure
    BY <2>3, RequestOK
  <2>4. CASE Create \/ Update
    BY <2>4, ServeOK
  <2>5. CASE AfterCreate \/ AfterUpdate
    BY <2>5, AnswerOK
  <2>6. CASE \E t \in Templates : DeleteTemplate(t) \/ (\E r \in Rows : OtherRemoves(t, r))
    BY <2>6, LibraryOK
  <2>7. CASE UNCHANGED vars
    BY <2>7 DEF vars, AuthoringInv, TypeOK, FormsAreSound, Sound, HasContent, Size, LatestIsHeld, WorkIsNew,
                Origins, UnderWay, OneTemplatePerWork
  <2> QED BY <2>1, <2>2, <2>3, <2>4, <2>5, <2>6, <2>7 DEF Next, Answer
<1> QED BY <1>1, AuthoringInit, PTL DEF Spec

\* Every variable of panel, draft and server has its type.
THEOREM AuthoringTyped == Spec => []TypeOK
<1>1. AuthoringInv => TypeOK
  BY DEF AuthoringInv
<1> QED BY <1>1, AuthoringInvariant, PTL

\* What the teacher typed last is in the form, in a draft, on its way or on the
\* server, or one of the named causes came in between.
THEOREM LatestKept == Spec => []LatestWorkIsSomewhere
<1>1. AuthoringInv => LatestWorkIsSomewhere
  BY DEF AuthoringInv, LatestIsHeld, LatestWorkIsSomewhere
<1> QED BY <1>1, AuthoringInvariant, PTL

\* A piece of work becomes two templates only where a page did not learn that
\* its create was done.
THEOREM OneTemplate == Spec => []OneTemplatePerWork
<1>1. AuthoringInv => OneTemplatePerWork
  BY DEF AuthoringInv
<1> QED BY <1>1, AuthoringInvariant, PTL
=============================================================================
