--------------------------- MODULE ExamAuthoring ---------------------------
(***************************************************************************)
(* A teacher writes exam templates: ExamManagementPanel and                *)
(* ExamQuestionComposer, the autosaved draft of examDraftStore in          *)
(* localStorage, and create, update and delete of                          *)
(* EloquentExamTemplateRepository.  Another teacher may save the same      *)
(* templates, and the page may be reloaded at any moment.  The status of a *)
(* template is left to ExamSessions.                                       *)
(*                                                                         *)
(* What is typed is a version number: each change of the form makes the    *)
(* next one.  Of the fields the form keeps whether title and instructions  *)
(* are filled in, of the questions which rows they name and how many have  *)
(* no id: with none of the three a form has no content for autosave,       *)
(* whatever department, grade, duration, watermark, header or footer say.  *)
(* The list of templates is not kept: what others change after it was      *)
(* loaded counts as changed after a template was opened from it.           *)
(***************************************************************************)
EXTENDS Naturals, FiniteSets

CONSTANTS
    MaxTemplates,  \* bound on templates created
    MaxRows,       \* bound on question rows created
    MaxEdits,      \* bound on changes of the form
    MaxFresh       \* bound on questions of a form without an id

ASSUME AuthoringBounds ==
    MaxTemplates \in Nat /\ MaxRows \in Nat /\ MaxEdits \in Nat /\ MaxFresh \in Nat

Templates == 1 .. MaxTemplates
Rows == 1 .. MaxRows
NoTemplate == 0

VARIABLES
    title,        \* title[t]: version of template t, 0 before and after it is there
    rows,         \* rows[t]: ids of its exam_questions
    origin,       \* origin[t]: the piece of work it was created from, 0 for another's
    nextTemplate, \* next id of exam_templates
    nextRow,      \* next id of exam_questions
    form,         \* the state of the panel: editingId, content, questions
    timer,        \* the autosave of 700 ms is running
    store,        \* the draft in localStorage, Nothing without one
    offered,      \* recoverableDraft, read when the page was mounted
    request,      \* the save: its stage and the form it was pressed with
    typed,        \* versions typed so far
    saved,        \* the latest version reached the server
    released,     \* nothing need keep the latest version: the teacher gave it up or
                  \* left before the timer fired, or a save succeeded after the form
                  \* had changed again, or a page was left with a form that autosave
                  \* does not store
    lost          \* a page did not learn what became of its save

serverVars == <<title, rows, origin, nextTemplate, nextRow>>
pageVars == <<form, timer, store, offered>>
ghostVars == <<saved, released, lost>>
vars == <<serverVars, pageVars, request, typed, ghostVars>>

\* A form that nobody touched; also: no draft.
Nothing == [editing |-> NoTemplate, text |-> 0, work |-> 0, filled |-> {},
            kept |-> {}, fresh |-> 0]
Size(f) == Cardinality(f.kept) + f.fresh

\* hasExamDraftContent
Words == {"title", "instructions"}
HasContent(f) == f.filled # {} \/ Size(f) > 0
Idle == [stage |-> "none", form |-> Nothing]
There == {t \in Templates : title[t] # 0}

Init ==
    /\ title = [t \in Templates |-> 0]
    /\ rows = [t \in Templates |-> {}]
    /\ origin = [t \in Templates |-> 0]
    /\ nextTemplate = 1 /\ nextRow = 1
    /\ form = Nothing
    /\ timer = FALSE
    /\ store = Nothing
    /\ offered = Nothing
    /\ request = Idle
    /\ typed = 0
    /\ saved = FALSE /\ released = FALSE /\ lost = FALSE

-----------------------------------------------------------------------------
(* The form                                                                *)

\* The form shows f; its autosave starts anew, if there is anything to save.
Show(f) == form' = f /\ timer' = HasContent(f)

\* A change by hand: the next version, of the work that was begun or of a new one.
Change(filled, kept, fresh) ==
    /\ typed < MaxEdits
    /\ fresh <= MaxFresh
    /\ typed' = typed + 1
    /\ Show([form EXCEPT !.text = typed + 1, !.filled = filled, !.kept = kept, !.fresh = fresh,
                         !.work = IF form # Nothing THEN @ ELSE typed + 1])
    /\ saved' = FALSE /\ released' = FALSE
    /\ UNCHANGED <<serverVars, store, offered, request, lost>>

\* Title or instructions: filled in, or emptied.
EditWords(word) ==
    \E filled \in {form.filled \cup {word}, form.filled \ {word}} :
        Change(filled, form.kept, form.fresh)

\* Department, grade, duration, watermark, header and footer of the print.
EditDetails == Change(form.filled, form.kept, form.fresh)

ChangeQuestions(kept, fresh) == Change(form.filled, kept, fresh)

\* A question out of the bank or out of the form builder is appended.
ImportQuestion == ChangeQuestions(form.kept, form.fresh + 1)

\* Every change in the composer hands all questions back without their ids.
AddQuestion == ChangeQuestions({}, Size(form) + 1)
EditQuestion == Size(form) > 0 /\ ChangeQuestions({}, Size(form))
RemoveQuestion == Size(form) > 0 /\ ChangeQuestions({}, Size(form) - 1)

\* resetAuthoring
Reset == form' = Nothing /\ timer' = FALSE /\ store' = Nothing

NewExam ==
    /\ Reset
    /\ released' = TRUE
    /\ UNCHANGED <<serverVars, offered, request, typed, saved, lost>>

\* editTemplate: it has a title, and instructions or none.
OpenTemplate(t) ==
    /\ t \in There
    /\ \E filled \in {{"title"}, Words} :
          Show([editing |-> t, text |-> title[t], work |-> 0, filled |-> filled,
                kept |-> rows[t], fresh |-> 0])
    /\ released' = TRUE
    /\ UNCHANGED <<serverVars, store, offered, request, typed, saved, lost>>

\* Mutant: the effect depends on the status it sets, and starts its timer anew.
AutosaveRestarts ==
    timer /\ UNCHANGED vars

Autosave ==
    /\ timer
    /\ timer' = FALSE
    /\ store' = form
    /\ UNCHANGED <<serverVars, form, offered, request, typed, ghostVars>>

RestoreDraft ==
    /\ offered # Nothing
    /\ Show(offered)
    /\ offered' = Nothing
    /\ released' = (released \/ form # Nothing)
    /\ UNCHANGED <<serverVars, store, request, typed, saved, lost>>

DiscardDraft ==
    /\ offered # Nothing
    /\ offered' = Nothing
    /\ store' = Nothing
    /\ released' = TRUE
    /\ UNCHANGED <<serverVars, form, timer, request, typed, saved, lost>>

\* The page is loaded again: what the timer had not stored is gone, so is a form
\* that has no timer, and the answer to a save will not be heard.
Reload ==
    /\ form' = Nothing
    /\ timer' = FALSE
    /\ offered' = store
    /\ request' = IF request.stage = "sent" THEN [request EXCEPT !.stage = "orphan"] ELSE
                  IF request.stage = "orphan" THEN request ELSE Idle
    /\ released' = (released \/ timer \/ (form # Nothing /\ ~HasContent(form)))
    /\ lost' = (lost \/ request.stage # "none")
    /\ UNCHANGED <<serverVars, store, typed, saved>>

-----------------------------------------------------------------------------
(* Saving: the button is disabled meanwhile, the form is not               *)

PressSave ==
    /\ request.stage = "none"
    /\ "title" \in form.filled /\ Size(form) > 0
    /\ request' = [stage |-> "sent", form |-> form]
    /\ UNCHANGED <<serverVars, pageVars, typed, ghostVars>>

\* What the server answers; nobody hears it on a page that was left.
Reply(word) ==
    request' = IF request.stage = "orphan" THEN Idle ELSE [request EXCEPT !.stage = word]

\* Mutant: one row too many.
NewRowsPlusOne(n) == nextRow .. nextRow + n

NewRows(n) == nextRow .. nextRow + n - 1

UnderWay == request.stage \in {"sent", "orphan"}

\* POST /exam-templates, one transaction.
Create ==
    LET f == request.form IN
    /\ UnderWay /\ f.editing = NoTemplate
    /\ nextTemplate \in Templates /\ nextRow + Size(f) - 1 \in Rows
    /\ title' = [title EXCEPT ![nextTemplate] = f.text]
    /\ rows' = [rows EXCEPT ![nextTemplate] = NewRows(Size(f))]
    /\ origin' = [origin EXCEPT ![nextTemplate] = f.work]
    /\ nextTemplate' = nextTemplate + 1
    /\ nextRow' = nextRow + Size(f)
    /\ saved' = (saved \/ f.text = typed)
    /\ Reply("created")
    /\ UNCHANGED <<pageVars, typed, released, lost>>

\* PUT /exam-templates/{id}, one transaction: the rows named are kept, the
\* other questions are created, the other rows deleted.
Update ==
    LET f == request.form IN
    /\ UnderWay /\ f.editing \in There
    /\ f.kept \subseteq rows[f.editing]
    /\ f.fresh > 0 => nextRow + f.fresh - 1 \in Rows
    /\ title' = [title EXCEPT ![f.editing] = f.text]
    /\ rows' = [rows EXCEPT ![f.editing] = f.kept \cup NewRows(f.fresh)]
    /\ nextRow' = nextRow + f.fresh
    /\ saved' = (saved \/ f.text = typed)
    /\ Reply("updated")
    /\ UNCHANGED <<origin, nextTemplate, pageVars, typed, released, lost>>

\* 404 for a deleted template, 422 for a row it does not have; also a request
\* or a process that is lost before the commit.
FailSave ==
    /\ UnderWay
    /\ Reply("failed")
    /\ UNCHANGED <<serverVars, pageVars, typed, ghostVars>>

\* The answer to a save that was done is lost: the page takes it for a failure.
LoseReply ==
    /\ request.stage \in {"created", "updated"}
    /\ request' = [request EXCEPT !.stage = "failed"]
    /\ lost' = TRUE
    /\ UNCHANGED <<serverVars, pageVars, typed, saved, released>>

\* Mutant: a created template is treated like an updated one.
AfterCreateKept ==
    /\ request.stage = "created"
    /\ store' = Nothing
    /\ request' = Idle
    /\ released' = (released \/ form # request.form)
    /\ UNCHANGED <<serverVars, form, timer, offered, typed, saved, lost>>

AfterCreate ==
    /\ request.stage = "created"
    /\ Reset
    /\ request' = Idle
    /\ released' = (released \/ form # request.form)
    /\ UNCHANGED <<serverVars, offered, typed, saved, lost>>

\* The form stays as it is: its new questions still have no id.
AfterUpdate ==
    /\ request.stage = "updated"
    /\ store' = Nothing
    /\ request' = Idle
    /\ released' = (released \/ form # request.form)
    /\ UNCHANGED <<serverVars, form, timer, offered, typed, saved, lost>>

\* Mutant: the form is reset whatever the answer was.
ResetAfterFailure ==
    /\ request.stage = "failed"
    /\ Reset
    /\ request' = Idle
    /\ UNCHANGED <<serverVars, offered, typed, ghostVars>>

AfterFailure ==
    /\ request.stage = "failed"
    /\ request' = Idle
    /\ UNCHANGED <<serverVars, pageVars, typed, ghostVars>>

-----------------------------------------------------------------------------
(* The library of templates, from this page or another teacher's           *)

DeleteTemplate(t) ==
    /\ t \in There
    /\ title' = [title EXCEPT ![t] = 0]
    /\ rows' = [rows EXCEPT ![t] = {}]
    /\ UNCHANGED <<origin, nextTemplate, nextRow, pageVars, request, typed, ghostVars>>

\* Another teacher leaves out a question.
OtherRemoves(t, r) ==
    /\ t \in There
    /\ r \in rows[t]
    /\ rows' = [rows EXCEPT ![t] = @ \ {r}]
    /\ UNCHANGED <<title, origin, nextTemplate, nextRow, pageVars, request, typed, ghostVars>>

-----------------------------------------------------------------------------
Edit == \/ (\E word \in Words : EditWords(word)) \/ EditDetails
        \/ ImportQuestion \/ AddQuestion \/ EditQuestion \/ RemoveQuestion
Answer == AfterCreate \/ AfterUpdate \/ AfterFailure

Next ==
    \/ Edit
    \/ NewExam \/ Autosave \/ RestoreDraft \/ DiscardDraft \/ Reload
    \/ PressSave \/ Create \/ Update \/ FailSave \/ LoseReply \/ Answer
    \/ \E t \in Templates :
         \/ OpenTemplate(t) \/ DeleteTemplate(t)
         \/ \E r \in Rows : OtherRemoves(t, r)

Spec == Init /\ [][Next]_vars

\* The browser fires the timer it was asked for.
LiveSpec == Spec /\ WF_vars(Autosave)

-----------------------------------------------------------------------------
Forms == [editing : Templates \cup {NoTemplate}, text : 0 .. MaxEdits, work : 0 .. MaxEdits,
          filled : SUBSET Words, kept : SUBSET Rows, fresh : 0 .. MaxFresh]

\* Every variable has its type, and only rows that were created are anywhere.
TypeOK ==
    /\ title \in [Templates -> 0 .. MaxEdits]
    /\ rows \in [Templates -> SUBSET Rows]
    /\ origin \in [Templates -> 0 .. MaxEdits]
    /\ nextTemplate \in 1 .. MaxTemplates + 1
    /\ nextRow \in 1 .. MaxRows + 1
    /\ form \in Forms /\ store \in Forms /\ offered \in Forms
    /\ timer \in BOOLEAN
    /\ request \in [stage : {"none", "sent", "orphan", "created", "updated", "failed"},
                    form : Forms]
    /\ typed \in 0 .. MaxEdits
    /\ saved \in BOOLEAN /\ released \in BOOLEAN /\ lost \in BOOLEAN

\* The latest version is in the form, in the draft on this device, on its way
\* or on the server, whatever fails and whenever the page is reloaded, unless
\* the teacher gave it up (or left within the 700 ms), or left a form without
\* title, instructions and questions, or a save made it to the server while the
\* form was changing and cleared the draft or the form.
LatestWorkIsSomewhere ==
    \/ typed = 0
    \/ typed \in {form.text, store.text, offered.text}
    \/ UnderWay /\ request.form.text = typed
    \/ saved \/ released

\* One piece of work becomes one template, although its draft outlives the
\* page, unless a page did not learn that its create was done.
OneTemplatePerWork ==
    \A t, u \in Templates : t # u /\ origin[t] = origin[u] /\ origin[t] # 0 => lost

\* What is typed is in the draft or on the server before long, if it is not
\* replaced by more typing or given up, and is not all in fields without which a
\* form has no content: such a form waits for more, or is lost with its page.
TypedIsKept ==
    []<>\/ typed = 0 \/ store.text = typed \/ saved \/ released
        \/ form.text = typed /\ ~HasContent(form)

\* examDraftStore.test.ts: autosave "persists authored metadata, instructions, or
\* committed questions".
EveryChangeIsDrafted == []<>(typed = 0 \/ store.text = typed \/ saved \/ released)

\* docs/exam-management.md:7 "Existing question IDs are updated in place": an
\* update of a form with as many questions keeps the rows.
UpdatedInPlace ==
    [][\A t \in Templates :
         request.form.editing = t /\ Update /\ Size(request.form) >= Cardinality(rows[t])
             => rows[t] \subseteq rows'[t]]_vars
=============================================================================
