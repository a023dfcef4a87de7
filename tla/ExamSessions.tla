---------------------------- MODULE ExamSessions ----------------------------
(***************************************************************************)
(* One exam template and the session of one student in it: the runner page *)
(* of the browser (StudentExamAccess and ExamRunner), the handlers         *)
(* startSession, event, answer and submit of ExamManagementController, and *)
(* the teacher who edits the template meanwhile.                           *)
(*                                                                         *)
(* The page sends its events and saves without waiting for them, so they   *)
(* arrive and run in any order.  A handler works on the session row it     *)
(* loaded when it began and writes back only the columns it changed;       *)
(* nothing locks the row.  last_event_at, the camera and the full screen   *)
(* are left out; no code writes the status "expired".                      *)
(***************************************************************************)
EXTENDS Naturals, FiniteSets

CONSTANTS
    Questions,    \* ids of questions, out of those the template has or may get
    NoQuestion,   \* a call that is not about a question
    Values,       \* texts of an answer
    NoValue,      \* no answer row, or one with a null answer
    Calls,        \* requests the page sends without waiting: bound on those in flight
    Awaited,      \* the one request the page waits for (start, submit)
    MaxLosses,    \* bound on focus losses
    MaxTime       \* ticks of the countdown

ASSUME CallsAreFew == IsFiniteSet(Calls) /\ Awaited \notin Calls
ASSUME ExamBounds == MaxLosses \in Nat /\ MaxTime \in Nat
ASSUME NothingIsNothing == NoQuestion \notin Questions /\ NoValue \notin Values

VARIABLES
    template,     \* "draft" (or archived), "published", "gone"
    question,     \* question[q]: "unborn", "live", "deleted"
    status,       \* exam_sessions.status, "none" without a row
    losses,       \* event rows of type focus_lost or visibility_hidden
    count,        \* exam_sessions.focus_loss_count
    startedAt,    \* started_at is set
    submittedAt,  \* submitted_at is set
    logged,       \* there is an event row "submitted"
    answers,      \* answers[q]: exam_session_answers
    call,         \* call[r]: a request and, once it has begun, the row it loaded
    page,         \* "menu", "opening", "running", "closing"
    paper,        \* questions of the session the page got from startSession
    shown,        \* shown[q]: what the page shows as the answer
    time,         \* remaining
    loose,        \* loose[q]: the last save of q overlapped another one, or failed
    lost          \* some request died on its way or half-way

rowVars == <<status, losses, count, startedAt, submittedAt, logged>>
sheetVars == <<template, question>>
pageVars == <<page, paper, shown, time>>
ghostVars == <<loose, lost>>
vars == <<sheetVars, rowVars, answers, call, pageVars, ghostVars>>

Slots == Calls \cup {Awaited}
Live == {q \in Questions : question[q] = "live"}
Free == [kind |-> "none", stage |-> "free", q |-> NoQuestion, v |-> NoValue,
         status |-> "none", count |-> 0]
Request(k, q, v) == [kind |-> k, stage |-> "sent", q |-> q, v |-> v,
                     status |-> "none", count |-> 0]
IsFree(r) == call[r].stage = "free"
Saving(q) == \E r \in Slots : call[r].kind = "save" /\ call[r].q = q

Init ==
    /\ template = "published"
    /\ question \in [Questions -> {"live", "unborn"}]
    /\ Live # {}
    /\ status = "none"
    /\ losses = 0 /\ count = 0
    /\ startedAt = FALSE /\ submittedAt = FALSE /\ logged = FALSE
    /\ answers = [q \in Questions |-> NoValue]
    /\ call = [r \in Slots |-> Free]
    /\ page = "menu"
    /\ paper = {}
    /\ shown = [q \in Questions |-> NoValue]
    /\ time = 0
    /\ loose = [q \in Questions |-> FALSE]
    /\ lost = FALSE

-----------------------------------------------------------------------------
(* The runner page                                                         *)

\* The runner is unmounted, and what it showed is gone.
Unmount ==
    /\ page' = "menu"
    /\ paper' = {}
    /\ shown' = [q \in Questions |-> NoValue]
    /\ time' = 0
    /\ loose' = [q \in Questions |-> FALSE]

\* The camera was granted; the list of templates may be an old one.
PressStart ==
    /\ page = "menu"
    /\ IsFree(Awaited)
    /\ page' = "opening"
    /\ call' = [call EXCEPT ![Awaited] = Request("start", NoQuestion, NoValue)]
    /\ loose' = [q \in Questions |-> Saving(q)]
    /\ UNCHANGED <<sheetVars, rowVars, answers, paper, shown, time, lost>>

\* The answer to start is there; the page reports camera_granted.
OpenPage(r) ==
    /\ page = "opening"
    /\ call[Awaited].stage = "back" /\ call[Awaited].status # "none"
    /\ IsFree(r)
    /\ page' = "running"
    /\ time' = MaxTime
    /\ call' = [call EXCEPT ![Awaited] = Free,
                            ![r] = Request("other", NoQuestion, NoValue)]
    /\ UNCHANGED <<sheetVars, rowVars, answers, paper, shown, ghostVars>>

StartRefused ==
    /\ page = "opening"
    /\ call[Awaited].stage = "back" /\ call[Awaited].status = "none"
    /\ page' = "menu"
    /\ call' = [call EXCEPT ![Awaited] = Free]
    /\ UNCHANGED <<sheetVars, rowVars, answers, paper, shown, time, ghostVars>>

\* The listeners stay until onExit, also while the submission is on its way.
ReportLoss(r) ==
    /\ page \in {"running", "closing"}
    /\ IsFree(r)
    /\ losses + Cardinality({s \in Slots : call[s].kind = "loss"}) < MaxLosses
    /\ call' = [call EXCEPT ![r] = Request("loss", NoQuestion, NoValue)]
    /\ UNCHANGED <<sheetVars, rowVars, answers, pageVars, ghostVars>>

\* focus_restored, visibility_visible, fullscreen_entered.
ReportOther(r) ==
    /\ page \in {"running", "closing"}
    /\ IsFree(r)
    /\ call' = [call EXCEPT ![r] = Request("other", NoQuestion, NoValue)]
    /\ UNCHANGED <<sheetVars, rowVars, answers, pageVars, ghostVars>>

\* Each change of a field is sent at once; an emptied field is stored as null,
\* which the page shows as an empty field again.
Save(r, q, v) ==
    /\ page \in {"running", "closing"}
    /\ IsFree(r)
    /\ q \in paper /\ v # shown[q]
    /\ shown' = [shown EXCEPT ![q] = v]
    /\ call' = [call EXCEPT ![r] = Request("save", q, v)]
    /\ loose' = [loose EXCEPT ![q] = Saving(q)]
    /\ UNCHANGED <<sheetVars, rowVars, answers, page, paper, time, lost>>

Submit ==
    /\ page = "running"
    /\ page' = "closing"
    /\ call' = [call EXCEPT ![Awaited] = Request("submit", NoQuestion, NoValue)]
    /\ UNCHANGED <<sheetVars, rowVars, answers, paper, shown, time, ghostVars>>

Tick ==
    /\ page \in {"running", "closing"}
    /\ time > 0
    /\ time' = time - 1
    /\ UNCHANGED <<sheetVars, rowVars, answers, call, page, paper, shown, ghostVars>>

AutoSubmit ==
    time = 0 /\ Submit

\* Whatever submit was answered, the runner exits.
Exit ==
    /\ page = "closing"
    /\ call[Awaited].stage = "back"
    /\ Unmount
    /\ call' = [call EXCEPT ![Awaited] = Free]
    /\ UNCHANGED <<sheetVars, rowVars, answers, lost>>

\* Reload, navigation, or an awaited request given up: the server goes on.
Leave ==
    /\ page # "menu"
    /\ Unmount
    /\ call' = [call EXCEPT ![Awaited] = IF @.stage = "back" THEN Free ELSE @]
    /\ UNCHANGED <<sheetVars, rowVars, answers, lost>>

-----------------------------------------------------------------------------
(* The server.  The last step of a request frees its slot, or leaves the   *)
(* answer for a page that still waits for it.                              *)

Answered(word) ==
    IF page \in {"opening", "closing"}
    THEN [Free EXCEPT !.kind = "reply", !.stage = "back", !.status = word] ELSE Free
Finish(r, word) ==
    call' = [call EXCEPT ![r] = IF r = Awaited THEN Answered(word) ELSE Free]
LooseIfSave(r) ==
    loose' = IF call[r].kind = "save" /\ page # "menu" THEN [loose EXCEPT ![call[r].q] = TRUE] ELSE loose

\* startSession: firstOrCreate, then the session with questions and answers.
ServeStart ==
    /\ call[Awaited].kind = "start" /\ call[Awaited].stage = "sent"
    /\ template = "published"
    /\ status' = IF status = "none" THEN "ready" ELSE status
    /\ paper' = IF page = "opening" THEN Live ELSE paper
    /\ shown' = IF page = "opening" THEN answers ELSE shown
    /\ Finish(Awaited, "ready")
    /\ UNCHANGED <<sheetVars, losses, count, startedAt, submittedAt, logged, answers,
                   page, time, ghostVars>>

RefuseStart ==
    /\ call[Awaited].kind = "start" /\ call[Awaited].stage = "sent"
    /\ template # "published"
    /\ Finish(Awaited, "none")
    /\ UNCHANGED <<sheetVars, rowVars, answers, pageVars, ghostVars>>

\* Mutant: only an exam that is running can be handed in.
RefusedUnlessActive(r) ==
    \/ status = "none"
    \/ call[r].kind = "save" /\ (status = "submitted" \/ call[r].q \notin Live)
    \/ call[r].kind = "submit" /\ status # "active"

\* No session row (404), or a finished exam or a foreign question (422).
Refused(r) ==
    \/ status = "none"
    \/ call[r].kind \in {"save", "submit"} /\ status = "submitted"
    \/ call[r].kind = "save" /\ call[r].q \notin Live

\* The status a handler loaded, up to what it goes by afterwards.
Glance(kind) ==
    CASE kind = "submit" -> "none"
      [] kind = "loss" -> IF status = "flagged" THEN status ELSE "active"
      [] OTHER -> IF status = "ready" THEN status ELSE "active"

Begin(r) ==
    /\ call[r].kind \in {"loss", "other", "save", "submit"} /\ call[r].stage = "sent"
    /\ ~Refused(r)
    /\ call' = [call EXCEPT ![r].stage = "loaded",
                            ![r].status = Glance(call[r].kind),
                            ![r].count = IF call[r].kind = "loss" THEN count ELSE 0]
    /\ UNCHANGED <<sheetVars, rowVars, answers, pageVars, ghostVars>>

Refuse(r) ==
    /\ call[r].kind \in {"loss", "other", "save", "submit"} /\ call[r].stage = "sent"
    /\ Refused(r)
    /\ Finish(r, "none")
    /\ LooseIfSave(r)
    /\ UNCHANGED <<sheetVars, rowVars, answers, pageVars, lost>>

\* Mutant: the whole loaded row is written back.
WriteOfWholeRow(seen) == IF seen = "ready" THEN "active" ELSE seen

\* What event and answer leave in the status column: it is written only when
\* the new value is not the loaded one.
StatusAfterWork(seen) == IF seen = "ready" THEN "active" ELSE status

\* Mutant: the first loss only flags.
LossCountOfFlagged(seen) == IF seen.status = "flagged" THEN seen.count + 1 ELSE seen.count
\* Mutant: a loss is taken off the count.
LossCountDown(seen) == seen.count - 1

LossCount(seen) == seen.count + 1

\* event for focus_lost and visibility_hidden: one transaction.
RecordLoss(r) ==
    /\ call[r].kind = "loss" /\ call[r].stage = "loaded"
    /\ status # "none"
    /\ count' = LossCount(call[r])
    /\ status' = IF call[r].status = "flagged" THEN status ELSE "flagged"
    /\ losses' = losses + 1
    /\ startedAt' = TRUE
    /\ Finish(r, "none")
    /\ UNCHANGED <<sheetVars, submittedAt, logged, answers, pageVars, ghostVars>>

\* event for the other types.
RecordOther(r) ==
    /\ call[r].kind = "other" /\ call[r].stage = "loaded"
    /\ status # "none"
    /\ status' = StatusAfterWork(call[r].status)
    /\ startedAt' = TRUE
    /\ Finish(r, "none")
    /\ UNCHANGED <<sheetVars, losses, count, submittedAt, logged, answers, pageVars, ghostVars>>

\* Mutant: firstOrCreate in place of updateOrCreate.
StoreFirstAnswer(r) ==
    /\ call[r].kind = "save" /\ call[r].stage = "loaded"
    /\ status # "none" /\ call[r].q \in Live
    /\ answers' = [answers EXCEPT ![call[r].q] = IF @ = NoValue THEN call[r].v ELSE @]
    /\ call' = [call EXCEPT ![r].stage = "stored"]
    /\ UNCHANGED <<sheetVars, rowVars, pageVars, ghostVars>>

\* updateOrCreate of the answer row, whose foreign keys must hold.
StoreAnswer(r) ==
    /\ call[r].kind = "save" /\ call[r].stage = "loaded"
    /\ status # "none" /\ call[r].q \in Live
    /\ answers' = [answers EXCEPT ![call[r].q] = call[r].v]
    /\ call' = [call EXCEPT ![r].stage = "stored"]
    /\ UNCHANGED <<sheetVars, rowVars, pageVars, ghostVars>>

\* The row an insert refers to is gone: 500.
ForeignKeyFails(r) ==
    /\ \/ call[r].kind \in {"loss", "other"} /\ call[r].stage = "loaded" /\ status = "none"
       \/ call[r].kind = "save" /\ call[r].stage = "loaded"
          /\ (status = "none" \/ call[r].q \notin Live)
       \/ call[r].kind = "submit" /\ call[r].stage = "closed" /\ status = "none"
    /\ Finish(r, "none")
    /\ LooseIfSave(r)
    /\ UNCHANGED <<sheetVars, rowVars, answers, pageVars, lost>>

\* The update of the session after the answer was stored.
TouchSession(r) ==
    /\ call[r].kind = "save" /\ call[r].stage = "stored"
    /\ status' = IF status = "none" THEN status ELSE StatusAfterWork(call[r].status)
    /\ startedAt' = (status # "none")
    /\ Finish(r, "none")
    /\ UNCHANGED <<sheetVars, losses, count, submittedAt, logged, answers, pageVars, ghostVars>>

CloseSession(r) ==
    /\ call[r].kind = "submit" /\ call[r].stage = "loaded"
    /\ status' = IF status = "none" THEN status ELSE "submitted"
    /\ submittedAt' = (status # "none")
    /\ call' = [call EXCEPT ![r].stage = "closed"]
    /\ UNCHANGED <<sheetVars, losses, count, startedAt, logged, answers, pageVars, ghostVars>>

LogSubmission(r) ==
    /\ call[r].kind = "submit" /\ call[r].stage = "closed"
    /\ status # "none"
    /\ logged' = TRUE
    /\ Finish(r, "none")
    /\ UNCHANGED <<sheetVars, status, losses, count, startedAt, submittedAt, answers,
                   pageVars, ghostVars>>

\* The request is lost, or the process that serves it dies between two statements.
Lose(r) ==
    /\ call[r].stage \notin {"free", "back"}
    /\ Finish(r, "none")
    /\ LooseIfSave(r)
    /\ lost' = TRUE
    /\ UNCHANGED <<sheetVars, rowVars, answers, pageVars>>

-----------------------------------------------------------------------------
(* The teacher                                                             *)

\* Publish or archive, from the list of templates.
SetTemplateStatus(word) ==
    /\ template # "gone"
    /\ template' = word
    /\ UNCHANGED <<question, rowVars, answers, call, pageVars, ghostVars>>

\* Saving an edited template: one transaction; the page sends it as a draft.
\* Answers of a question that is left out go with it.
SaveTemplate(kept, added) ==
    /\ template # "gone"
    /\ template' = "draft"
    /\ question' = [q \in Questions |->
         IF q \in added THEN "live"
         ELSE IF q \in Live \ kept THEN "deleted" ELSE question[q]]
    /\ answers' = [q \in Questions |-> IF q \in Live \ kept THEN NoValue ELSE answers[q]]
    /\ UNCHANGED <<rowVars, call, pageVars, ghostVars>>

\* The session, its answers and its events go with the template.
DeleteTemplate ==
    /\ template # "gone"
    /\ template' = "gone"
    /\ question' = [q \in Questions |-> IF q \in Live THEN "deleted" ELSE question[q]]
    /\ answers' = [q \in Questions |-> NoValue]
    /\ status' = "none"
    /\ losses' = 0 /\ count' = 0
    /\ startedAt' = FALSE /\ submittedAt' = FALSE /\ logged' = FALSE
    /\ UNCHANGED <<call, pageVars, ghostVars>>

-----------------------------------------------------------------------------
Browser ==
    \/ PressStart \/ StartRefused \/ Submit \/ AutoSubmit \/ Tick \/ Exit \/ Leave
    \/ \E r \in Calls :
         \/ OpenPage(r) \/ ReportLoss(r) \/ ReportOther(r)
         \/ \E q \in Questions, v \in Values \cup {NoValue} : Save(r, q, v)

Handler(r) ==
    \/ Begin(r) \/ Refuse(r) \/ RecordLoss(r) \/ RecordOther(r) \/ StoreAnswer(r)
    \/ ForeignKeyFails(r) \/ TouchSession(r) \/ CloseSession(r) \/ LogSubmission(r)

Teacher ==
    \/ \E word \in {"draft", "published"} : SetTemplateStatus(word)
    \/ \E kept \in SUBSET Live, added \in SUBSET {q \in Questions : question[q] = "unborn"} :
         SaveTemplate(kept, added)
    \/ DeleteTemplate

Next ==
    \/ Browser \/ Teacher
    \/ ServeStart \/ RefuseStart
    \/ \E r \in Slots : Handler(r) \/ Lose(r)

Spec == Init /\ [][Next]_vars

\* The countdown runs and the server goes on with the request the page waits for.
LiveSpec == Spec /\ WF_vars(Tick) /\ WF_vars(AutoSubmit) /\ WF_vars(Handler(Awaited))

-----------------------------------------------------------------------------
Words == {"none", "ready", "active", "flagged", "submitted"}
CallRecords ==
    [kind : {"none", "start", "loss", "other", "save", "submit", "reply"},
     stage : {"free", "sent", "loaded", "stored", "closed", "back"},
     q : Questions \cup {NoQuestion}, v : Values \cup {NoValue},
     status : Words, count : Nat]

\* Every variable has its type.
TypeOK ==
    /\ template \in {"draft", "published", "gone"}
    /\ question \in [Questions -> {"unborn", "live", "deleted"}]
    /\ status \in Words
    /\ losses \in Nat /\ count \in Nat
    /\ startedAt \in BOOLEAN /\ submittedAt \in BOOLEAN /\ logged \in BOOLEAN
    /\ answers \in [Questions -> Values \cup {NoValue}]
    /\ call \in [Slots -> CallRecords]
    /\ page \in {"menu", "opening", "running", "closing"}
    /\ paper \subseteq Questions
    /\ shown \in [Questions -> Values \cup {NoValue}]
    /\ time \in 0 .. MaxTime
    /\ loose \in [Questions -> BOOLEAN]
    /\ lost \in BOOLEAN

At(word) == \E r \in Slots : call[r].stage = word

\* The count is what a reviewer of flagged sessions reads: it may miss losses
\* that overlapped, never all of them, and it never invents one.
LossesLeaveATrace == (losses > 0 <=> count > 0) /\ count <= losses
\* A session with work in it was started.
WorkIsStarted ==
    (losses > 0 \/ \E q \in Questions : answers[q] # NoValue) => startedAt \/ At("stored") \/ lost
\* Handed in and logged as handed in are the same, but for the moment between.
HandInIsLogged ==
    /\ logged => submittedAt
    /\ submittedAt => logged \/ At("closed") \/ lost

\* The session row and its trail of answers and events tell the same story,
\* although each handler writes them in several statements from a row it
\* loaded before (ExamManagementController::event, answer, submit).
RowAccountsForTheWork == LossesLeaveATrace /\ WorkIsStarted /\ HandInIsLogged

\* A flagged session stays flagged until it is handed in, and a handed-in one
\* stays so, except for a request that loaded the row before the exam was
\* under way, or a focus loss that is recorded after the submission.
StatusStepsAreExplained ==
    [][/\ status = "flagged" /\ status' \notin {"flagged", "submitted", "none"}
            => \E r \in Slots : call[r].status = "ready"
       /\ status = "submitted" /\ status' \notin {"submitted", "none"}
            => \E r \in Slots : \/ call[r].status = "ready"
                                \/ call[r].kind = "loss" /\ call[r].status # "flagged"]_vars

\* What the runner shows is what is stored, once the saves of a question are
\* over, unless two of them were under way at once or the last one failed.
StoredIsShown ==
    page \in {"running", "closing"} =>
        \A q \in paper \cap Live : loose[q] \/ Saving(q) \/ answers[q] = shown[q]

\* An exam does not stay open: its time ends, and once the page has asked to
\* hand it in, it is handed in, flagged or not and even if the page is left
\* meanwhile, unless a request is lost or the template deleted.
OpenExamIsHandedIn ==
    /\ page = "running" ~> page # "running"
    /\ page = "closing" ~> (submittedAt \/ lost \/ template = "gone")
=============================================================================
