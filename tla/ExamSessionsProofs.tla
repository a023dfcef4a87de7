------------------------- MODULE ExamSessionsProofs -------------------------
(***************************************************************************)
(* For any number of questions, requests in flight and focus losses: the   *)
(* columns of a session agree with its answers and events, its status only *)
(* goes back by the races named, and the page shows what is stored.        *)
(***************************************************************************)
EXTENDS ExamSessions, TLAPS

\* Without a row there is nothing of a session, and a template that is gone has
\* none.
NoRowIsEmpty ==
    /\ template = "gone" => status = "none"
    /\ status = "none" =>
         /\ losses = 0 /\ count = 0
         /\ ~startedAt /\ ~submittedAt /\ ~logged
         /\ \A q \in Questions : answers[q] = NoValue

\* A request that got past its checks did so on a row, which stays as long as
\* the template does, and a count it loaded was of losses recorded before.
RequestsSawTheRow ==
    template # "gone" => \A r \in Slots :
        /\ call[r].stage \in {"loaded", "stored", "closed"} => status # "none"
        /\ call[r].stage = "closed" => submittedAt
        /\ call[r].count <= losses

\* A free slot holds no request, and the page that runs waits for none.
SlotsAreTidy ==
    /\ \A r \in Slots : IsFree(r) => call[r].kind = "none"
    /\ page = "running" => IsFree(Awaited)

RowInv == TypeOK /\ NoRowIsEmpty /\ RequestsSawTheRow /\ SlotsAreTidy /\ RowAccountsForTheWork

\* Questions that a page or a save knows of have been in the template; a page
\* has them from the answer to its start.
KnownQuestions ==
    /\ \A q \in paper : question[q] # "unborn"
    /\ \A r \in Slots : call[r].kind = "save" =>
         call[r].q \in Questions /\ question[call[r].q] # "unborn"
    /\ page = "menu" => paper = {}
    /\ page = "opening" /\ paper # {} =>
         call[Awaited].stage = "back" /\ call[Awaited].status # "none"

\* A question that is not loose has at most one save, which is of what is shown
\* and, once stored, what is stored; an opening page has none.
SavesAreSingle ==
    page # "menu" => \A q \in Questions, r \in Slots :
        ~loose[q] /\ call[r].kind = "save" /\ call[r].q = q =>
            /\ page \in {"running", "closing"}
            /\ \A s \in Slots : call[s].kind = "save" /\ call[s].q = q => s = r
            /\ call[r].v = shown[q]
            /\ call[r].stage = "stored" /\ q \in Live => answers[q] = shown[q]

\* StoredIsShown, on the page that is opening too.
PaperIsStored ==
    page # "menu" =>
        \A q \in paper \cap Live : loose[q] \/ Saving(q) \/ answers[q] = shown[q]

PaperInv == KnownQuestions /\ SavesAreSingle /\ PaperIsStored

-----------------------------------------------------------------------------
(* Slots                                                                   *)

\* An empty slot, and a request as it is sent, are records of their type.
LEMMA SlotsTyped ==
    /\ Free \in CallRecords /\ Free.kind = "none" /\ Free.stage = "free" /\ Free.count = 0
    /\ \A k \in {"start", "loss", "other", "save", "submit"},
          q \in Questions \cup {NoQuestion}, v \in Values \cup {NoValue} :
         /\ Request(k, q, v) \in CallRecords
         /\ Request(k, q, v).kind = k /\ Request(k, q, v).stage = "sent"
         /\ Request(k, q, v).q = q /\ Request(k, q, v).v = v
         /\ Request(k, q, v).count = 0 /\ Request(k, q, v).status = "none"
<1>1. Free \in CallRecords /\ Free.kind = "none" /\ Free.stage = "free" /\ Free.count = 0
  BY DEF Free, CallRecords, Words
<1> QED BY <1>1 DEF Request, CallRecords, Words

\* A request is put into a slot, or a slot freed.
LEMMA FillTyped ==
    ASSUME TypeOK, NEW r \in Slots, NEW new \in CallRecords, call' = [call EXCEPT ![r] = new]
    PROVE  /\ call' \in [Slots -> CallRecords] /\ call'[r] = new
           /\ \A s \in Slots \ {r} : call'[s] = call[s]
BY DEF TypeOK

\* The end of a request touches its own slot alone, which is free or holds the
\* reply that the page waits for.
LEMMA FinishTyped ==
    ASSUME TypeOK, NEW r \in Slots, NEW word \in Words, Finish(r, word)
    PROVE  /\ call' \in [Slots -> CallRecords]
           /\ call'[r].kind \in {"none", "reply"} /\ call'[r].count = 0
           /\ call'[r].stage \in {"free", "back"}
           /\ call'[r].stage = "free" => call'[r].kind = "none"
           /\ page \notin {"opening", "closing"} \/ r # Awaited => call'[r] = Free
           /\ \A s \in Slots \ {r} : call'[s] = call[s]
<1>1. /\ Answered(word) \in CallRecords
      /\ Answered(word).kind \in {"none", "reply"} /\ Answered(word).count = 0
      /\ Answered(word).stage \in {"free", "back"}
      /\ Answered(word).stage = "free" => Answered(word).kind = "none"
      /\ page \notin {"opening", "closing"} => Answered(word) = Free
  BY DEF Answered, Free, CallRecords, Words
<1>2. call' = [call EXCEPT ![r] = IF r = Awaited THEN Answered(word) ELSE Free]
  BY DEF Finish
<1>3. call \in [Slots -> CallRecords]
  BY DEF TypeOK
<1> HIDE DEF Answered, Free, Finish
<1> QED BY <1>1, <1>2, <1>3, SlotsTyped

\* A step that changes slots to no work under way, and no more of the row,
\* keeps the row's invariants.
LEMMA RowUntouched ==
    ASSUME RowInv, TypeOK', SlotsAreTidy', UNCHANGED <<template, rowVars, answers>>,
           lost => lost',
           \A s \in Slots : \/ call'[s] = call[s]
                            \/ /\ call'[s].stage \in {"free", "sent", "back"} /\ call'[s].count = 0
                               /\ call[s].stage \in {"stored", "closed"} => lost'
    PROVE  RowInv'
<1>1. NoRowIsEmpty'
  BY DEF RowInv, NoRowIsEmpty, rowVars
<1>2. RequestsSawTheRow'
  BY DEF RowInv, RequestsSawTheRow, TypeOK, rowVars
<1>3. LossesLeaveATrace'
  BY DEF RowInv, RowAccountsForTheWork, LossesLeaveATrace, rowVars
<1>4. WorkIsStarted' /\ HandInIsLogged'
  <2>1. ASSUME ~lost', NEW word \in {"stored", "closed"}, At(word) PROVE At(word)'
    BY <2>1 DEF At
  <2> QED BY <2>1 DEF RowInv, RowAccountsForTheWork, WorkIsStarted, HandInIsLogged, rowVars
<1> QED BY <1>1, <1>2, <1>3, <1>4 DEF RowInv, RowAccountsForTheWork

-----------------------------------------------------------------------------
(* The row                                                                 *)

\* No session has begun at first.
LEMMA RowInit == Init => RowInv
<1> SUFFICES ASSUME Init PROVE RowInv
  OBVIOUS
<1>1. call \in [Slots -> CallRecords]
  BY SlotsTyped DEF Init
<1>4. loose \in [Questions -> BOOLEAN]
  BY DEF Init
<1>5. question \in [Questions -> {"unborn", "live", "deleted"}]
  BY DEF Init
<1>6. time \in 0 .. MaxTime
  BY ExamBounds DEF Init
<1>3. TypeOK
  BY <1>1, <1>4, <1>5, <1>6 DEF Init, TypeOK, Words
<1>2. SlotsAreTidy /\ RequestsSawTheRow
  BY SlotsTyped DEF Init, SlotsAreTidy, RequestsSawTheRow, IsFree, Slots
<1> QED BY <1>3, <1>2 DEF Init, RowInv, NoRowIsEmpty, RowAccountsForTheWork, LossesLeaveATrace,
                          WorkIsStarted, HandInIsLogged

\* The page only fills free slots, and frees one whose reply has come.
LEMMA BrowserKeepsRow == ASSUME RowInv, Browser PROVE RowInv'
<1> USE SlotsTyped, CallsAreFew, ExamBounds DEF sheetVars, rowVars, pageVars, ghostVars
<1>a. Awaited \in Slots /\ Calls \subseteq Slots /\ TypeOK
  BY DEF Slots, RowInv
<1>1. CASE PressStart
  <2>1. /\ call' \in [Slots -> CallRecords] /\ call'[Awaited] = Request("start", NoQuestion, NoValue)
        /\ \A s \in Slots \ {Awaited} : call'[s] = call[s]
    BY <1>1, <1>a, FillTyped DEF PressStart
  <2>2. SlotsAreTidy'
    BY <1>1, <1>a, <2>1 DEF PressStart, RowInv, SlotsAreTidy, IsFree
  <2>3. loose' \in [Questions -> BOOLEAN]
    BY <1>1 DEF PressStart, Saving
  <2>4. TypeOK'
    BY <1>1, <1>a, <2>1, <2>3 DEF PressStart, TypeOK
  <2> QED BY <1>1, <1>a, <2>1, <2>2, <2>4, RowUntouched DEF PressStart, IsFree
<1>2. ASSUME NEW r \in Calls, OpenPage(r) PROVE RowInv'
  <2>0. /\ Request("other", NoQuestion, NoValue) \in CallRecords /\ Free \in CallRecords
        /\ call \in [Slots -> CallRecords] /\ r # Awaited
    BY <1>a DEF TypeOK
  <2>1. /\ call' \in [Slots -> CallRecords]
        /\ call'[Awaited] = Free /\ call'[r] = Request("other", NoQuestion, NoValue)
        /\ \A s \in Slots \ {Awaited, r} : call'[s] = call[s]
    <3> HIDE SlotsTyped
    <3> QED BY <1>2, <1>a, <2>0 DEF OpenPage
  <2>4. SlotsAreTidy'
    BY <1>2, <1>a, <2>1 DEF OpenPage, RowInv, SlotsAreTidy, IsFree
  <2>2. TypeOK' /\ SlotsAreTidy'
    BY <1>2, <1>a, <2>1, <2>4 DEF OpenPage, TypeOK
  <2> QED BY <1>2, <1>a, <2>1, <2>2, RowUntouched DEF OpenPage, IsFree
<1>3. CASE StartRefused
  <2>1. /\ call' \in [Slots -> CallRecords] /\ call'[Awaited] = Free
        /\ \A s \in Slots \ {Awaited} : call'[s] = call[s]
    BY <1>3, <1>a, FillTyped DEF StartRefused
  <2>2. TypeOK' /\ SlotsAreTidy'
    BY <1>3, <1>a, <2>1 DEF StartRefused, RowInv, TypeOK, SlotsAreTidy, IsFree
  <2> QED BY <1>3, <1>a, <2>1, <2>2, RowUntouched DEF StartRefused
<1>4. ASSUME NEW r \in Calls, ReportLoss(r) \/ ReportOther(r) PROVE RowInv'
  <2>1. PICK k \in {"loss", "other"} : call' = [call EXCEPT ![r] = Request(k, NoQuestion, NoValue)]
    BY <1>4 DEF ReportLoss, ReportOther
  <2>2. /\ call' \in [Slots -> CallRecords] /\ call'[r] = Request(k, NoQuestion, NoValue)
        /\ \A s \in Slots \ {r} : call'[s] = call[s]
    BY <2>1, <1>a, FillTyped
  <2>4. SlotsAreTidy'
    BY <1>4, <1>a, <2>2 DEF ReportLoss, ReportOther, RowInv, SlotsAreTidy, IsFree
  <2>3. TypeOK' /\ SlotsAreTidy'
    BY <1>4, <1>a, <2>2, <2>4 DEF ReportLoss, ReportOther, TypeOK
  <2> QED BY <1>4, <1>a, <2>2, <2>3, RowUntouched DEF ReportLoss, ReportOther, IsFree
<1>5. ASSUME NEW r \in Calls, NEW q \in Questions, NEW v \in Values \cup {NoValue}, Save(r, q, v)
      PROVE RowInv'
  <2>1. /\ call' \in [Slots -> CallRecords] /\ call'[r] = Request("save", q, v)
        /\ \A s \in Slots \ {r} : call'[s] = call[s]
    BY <1>5, <1>a, FillTyped DEF Save
  <2>2. TypeOK' /\ SlotsAreTidy'
    BY <1>5, <1>a, <2>1 DEF Save, Saving, RowInv, TypeOK, SlotsAreTidy, IsFree
  <2> QED BY <1>5, <1>a, <2>1, <2>2, RowUntouched DEF Save, IsFree
<1>6. CASE Submit
  <2>1. /\ call' \in [Slots -> CallRecords] /\ call'[Awaited] = Request("submit", NoQuestion, NoValue)
        /\ \A s \in Slots \ {Awaited} : call'[s] = call[s]
    BY <1>6, <1>a, FillTyped DEF Submit
  <2>4. SlotsAreTidy'
    BY <1>6, <1>a, <2>1 DEF Submit, RowInv, SlotsAreTidy, IsFree
  <2>2. TypeOK' /\ SlotsAreTidy'
    BY <1>6, <1>a, <2>1, <2>4 DEF Submit, TypeOK
  <2>3. call[Awaited].stage = "free"
    BY <1>6 DEF Submit, RowInv, SlotsAreTidy, IsFree
  <2> QED BY <1>6, <1>a, <2>1, <2>2, <2>3, RowUntouched DEF Submit
<1>7. CASE Tick
  <2>1. TypeOK' /\ SlotsAreTidy'
    BY <1>7, <1>a DEF Tick, RowInv, TypeOK, SlotsAreTidy, IsFree
  <2> QED BY <1>7, <2>1, RowUntouched DEF Tick
<1>8. CASE Exit \/ Leave
  <2>1. /\ call' \in [Slots -> CallRecords]
        /\ \/ call'[Awaited] = call[Awaited]
           \/ call'[Awaited] = Free /\ call[Awaited].stage = "back"
        /\ \A s \in Slots \ {Awaited} : call'[s] = call[s]
    <3>1. CASE call' = [call EXCEPT ![Awaited] = Free] /\ call[Awaited].stage = "back"
      BY <1>a, <3>1 DEF TypeOK
    <3>2. CASE call' = [call EXCEPT ![Awaited] = call[Awaited]]
      BY <1>a, <3>2 DEF TypeOK
    <3> QED BY <1>8, <3>1, <3>2 DEF Exit, Leave
  <2>2. SlotsAreTidy'
    BY <1>8, <1>a, <2>1 DEF Exit, Leave, Unmount, RowInv, SlotsAreTidy, IsFree
  <2>3. loose' \in [Questions -> BOOLEAN]
    <3>1. loose' = [q \in Questions |-> FALSE]
      BY <1>8 DEF Exit, Leave, Unmount
    <3> QED BY <3>1
  <2>4. TypeOK'
    BY <1>8, <1>a, <2>1, <2>3 DEF Exit, Leave, Unmount, TypeOK
  <2> QED BY <1>8, <1>a, <2>1, <2>2, <2>4, RowUntouched DEF Exit, Leave, Unmount
<1> QED BY <1>1, <1>2, <1>3, <1>4, <1>5, <1>6, <1>7, <1>8 DEF Browser, AutoSubmit

\* The teacher touches the row only to delete it whole.
LEMMA TeacherKeepsRow == ASSUME RowInv, Teacher PROVE RowInv'
<1> USE DEF rowVars, pageVars, ghostVars
<1>1. ASSUME NEW word \in {"draft", "published"}, SetTemplateStatus(word) PROVE RowInv'
  BY <1>1 DEF SetTemplateStatus, RowInv, TypeOK, NoRowIsEmpty, RequestsSawTheRow, SlotsAreTidy,
              IsFree, RowAccountsForTheWork, LossesLeaveATrace, WorkIsStarted, HandInIsLogged, At
<1>2. ASSUME NEW kept \in SUBSET Live, NEW added \in SUBSET {q \in Questions : question[q] = "unborn"},
             SaveTemplate(kept, added)
      PROVE  RowInv'
  <2>1. TypeOK'
    BY <1>2 DEF SaveTemplate, RowInv, TypeOK
  <2>2. NoRowIsEmpty' /\ RequestsSawTheRow' /\ SlotsAreTidy'
    BY <1>2 DEF SaveTemplate, RowInv, TypeOK, NoRowIsEmpty, RequestsSawTheRow, SlotsAreTidy, IsFree
  <2>3. LossesLeaveATrace' /\ HandInIsLogged'
    BY <1>2 DEF SaveTemplate, RowInv, RowAccountsForTheWork, LossesLeaveATrace, HandInIsLogged, At
  <2>4. \A q \in Questions : answers'[q] # NoValue => answers[q] # NoValue
    BY <1>2 DEF SaveTemplate
  <2>5. WorkIsStarted'
    BY <1>2, <2>4 DEF SaveTemplate, RowInv, RowAccountsForTheWork, WorkIsStarted, At
  <2> QED BY <2>1, <2>2, <2>3, <2>5 DEF RowInv, RowAccountsForTheWork
<1>3. CASE DeleteTemplate
  <2>1. TypeOK'
    BY <1>3 DEF DeleteTemplate, RowInv, TypeOK, Words
  <2> QED BY <1>3, <2>1
          DEF DeleteTemplate, RowInv, NoRowIsEmpty, RequestsSawTheRow, SlotsAreTidy, IsFree,
              RowAccountsForTheWork, LossesLeaveATrace, WorkIsStarted, HandInIsLogged
<1> QED BY <1>1, <1>2, <1>3 DEF Teacher

\* A request that changes no column ends.
LEMMA EndKeepsRow ==
    ASSUME RowInv, NEW r \in Slots, NEW word \in Words, Finish(r, word),
           UNCHANGED <<template, rowVars, answers, page>>, TypeOK', lost => lost',
           call[r].stage \in {"stored", "closed"} => lost'
    PROVE  RowInv'
<1>1. TypeOK
  BY DEF RowInv
<1>2. SlotsAreTidy'
  BY <1>1, FinishTyped, SlotsTyped DEF RowInv, SlotsAreTidy, IsFree, Slots
<1> QED BY <1>1, <1>2, FinishTyped, RowUntouched

\* The request the page waits for creates the row, or is refused.
LEMMA StartKeepsRow == ASSUME RowInv, ServeStart \/ RefuseStart PROVE RowInv'
<1> USE DEF sheetVars, rowVars, pageVars, ghostVars
<1>1. Awaited \in Slots /\ TypeOK
  BY DEF Slots, RowInv
<1>2. CASE ServeStart
  <2>1. /\ call' \in [Slots -> CallRecords]
        /\ call'[Awaited].count = 0 /\ call'[Awaited].stage \in {"free", "back"}
        /\ call'[Awaited].stage = "free" => call'[Awaited].kind = "none"
        /\ page \notin {"opening", "closing"} => call'[Awaited] = Free
        /\ \A s \in Slots \ {Awaited} : call'[s] = call[s]
    BY <1>1, <1>2, FinishTyped DEF ServeStart, Words
  <2>2. TypeOK'
    BY <1>1, <1>2, <2>1 DEF ServeStart, TypeOK, Words, Live
  <2>3. NoRowIsEmpty' /\ RequestsSawTheRow'
    BY <1>1, <1>2, <2>1 DEF ServeStart, RowInv, NoRowIsEmpty, RequestsSawTheRow, TypeOK
  <2>4. SlotsAreTidy'
    BY <1>1, <1>2, <2>1, SlotsTyped DEF ServeStart, RowInv, SlotsAreTidy, IsFree
  <2>5. \A word \in {"stored", "closed"} : At(word) => At(word)'
    BY <1>1, <1>2, <2>1 DEF ServeStart, At
  <2>6. RowAccountsForTheWork'
    BY <1>2, <2>5 DEF ServeStart, RowInv, RowAccountsForTheWork, LossesLeaveATrace, WorkIsStarted,
                      HandInIsLogged
  <2> QED BY <2>2, <2>3, <2>4, <2>6 DEF RowInv
<1>3. CASE RefuseStart
  <2>1. TypeOK'
    BY <1>1, <1>3, FinishTyped DEF RefuseStart, TypeOK, Words
  <2> QED BY <1>1, <1>3, <2>1, EndKeepsRow DEF RefuseStart, Words
<1> QED BY <1>2, <1>3

\* What a handler loads is as old as its step.
LEMMA BeginKeepsRow == ASSUME RowInv, NEW r \in Slots, Begin(r) PROVE RowInv'
<1> USE DEF sheetVars, rowVars, pageVars, ghostVars
<1>1. TypeOK /\ call[r] \in CallRecords /\ status # "none"
  BY DEF RowInv, TypeOK, Begin, Refused
<1>2. /\ call' \in [Slots -> CallRecords]
      /\ call'[r].stage = "loaded" /\ call'[r].kind = call[r].kind
      /\ call'[r].count \in {0, count}
      /\ \A s \in Slots \ {r} : call'[s] = call[s]
  BY <1>1 DEF Begin, TypeOK, CallRecords, Glance, Words
<1>3. TypeOK'
  BY <1>1, <1>2 DEF Begin, TypeOK
<1>4. NoRowIsEmpty' /\ RequestsSawTheRow'
  BY <1>1, <1>2 DEF Begin, RowInv, NoRowIsEmpty, RequestsSawTheRow, TypeOK,
                    RowAccountsForTheWork, LossesLeaveATrace
<1>5. SlotsAreTidy'
  BY <1>2, CallsAreFew DEF Begin, RowInv, SlotsAreTidy, IsFree, Slots
<1>6. \A word \in {"stored", "closed"} : At(word) => At(word)'
  BY <1>2 DEF Begin, At
<1>7. RowAccountsForTheWork'
  BY <1>6 DEF Begin, RowInv, RowAccountsForTheWork, LossesLeaveATrace, WorkIsStarted, HandInIsLogged
<1> QED BY <1>3, <1>4, <1>5, <1>7 DEF RowInv

\* An event is recorded beside the count and the status.
LEMMA RecordKeepsRow ==
    ASSUME RowInv, NEW r \in Slots, RecordLoss(r) \/ RecordOther(r)
    PROVE  RowInv'
<1> USE DEF sheetVars, rowVars, pageVars, ghostVars
<1>1. TypeOK /\ call[r] \in CallRecords /\ call[r].count <= losses /\ status # "none"
  BY DEF RowInv, TypeOK, RecordLoss, RecordOther, RequestsSawTheRow, NoRowIsEmpty
<1>2. /\ call' \in [Slots -> CallRecords]
      /\ call'[r].count = 0 /\ call'[r].stage \in {"free", "back"}
      /\ call'[r].stage = "free" => call'[r].kind = "none"
      /\ page = "running" => call'[r] = Free
      /\ \A s \in Slots \ {r} : call'[s] = call[s]
  BY <1>1, FinishTyped DEF RecordLoss, RecordOther, Words
<1>3. /\ losses' \in Nat /\ count' \in Nat /\ losses <= losses'
      /\ (losses' > 0 <=> count' > 0) /\ count' <= losses'
      /\ status' \in Words \ {"none"} /\ startedAt'
  BY <1>1 DEF RecordLoss, RecordOther, LossCount, StatusAfterWork, TypeOK, CallRecords, Words,
              RowInv, RowAccountsForTheWork, LossesLeaveATrace
<1>4. TypeOK'
  BY <1>1, <1>2, <1>3 DEF RecordLoss, RecordOther, TypeOK
<1>5. NoRowIsEmpty' /\ RequestsSawTheRow'
  BY <1>1, <1>2, <1>3 DEF RecordLoss, RecordOther, RowInv, NoRowIsEmpty, RequestsSawTheRow,
                          TypeOK, CallRecords
<1>6. SlotsAreTidy'
  BY <1>2, SlotsTyped DEF RecordLoss, RecordOther, RowInv, SlotsAreTidy, IsFree, Slots
<1>7. At("closed") => At("closed")'
  BY <1>2 DEF RecordLoss, RecordOther, At
<1>8. RowAccountsForTheWork'
  BY <1>3, <1>7 DEF RecordLoss, RecordOther, RowInv, RowAccountsForTheWork, LossesLeaveATrace,
                    WorkIsStarted, HandInIsLogged
<1> QED BY <1>4, <1>5, <1>6, <1>8 DEF RowInv

\* An answer is stored before the session is touched.
LEMMA StoreKeepsRow == ASSUME RowInv, NEW r \in Slots, StoreAnswer(r) PROVE RowInv'
<1> USE DEF sheetVars, rowVars, pageVars, ghostVars
<1>1. TypeOK /\ call[r] \in CallRecords /\ status # "none" /\ call[r].q \in Questions
  BY DEF RowInv, TypeOK, StoreAnswer, Live
<1>2. /\ call' \in [Slots -> CallRecords]
      /\ call'[r].stage = "stored" /\ call'[r].kind = call[r].kind
      /\ call'[r].count = call[r].count
      /\ \A s \in Slots \ {r} : call'[s] = call[s]
  BY <1>1 DEF StoreAnswer, TypeOK, CallRecords
<1>3. TypeOK'
  BY <1>1, <1>2 DEF StoreAnswer, TypeOK, CallRecords
<1>4. NoRowIsEmpty' /\ RequestsSawTheRow'
  BY <1>1, <1>2 DEF StoreAnswer, RowInv, NoRowIsEmpty, RequestsSawTheRow
<1>5. SlotsAreTidy'
  BY <1>2, CallsAreFew DEF StoreAnswer, RowInv, SlotsAreTidy, IsFree, Slots
<1>6. At("stored")' /\ (At("closed") => At("closed")')
  BY <1>2 DEF StoreAnswer, At
<1>7. RowAccountsForTheWork'
  BY <1>6 DEF StoreAnswer, RowInv, RowAccountsForTheWork, LossesLeaveATrace, WorkIsStarted,
              HandInIsLogged
<1> QED BY <1>3, <1>4, <1>5, <1>7 DEF RowInv

\* The last statement of an answer; the first and the last of a submission.
LEMMA TouchKeepsRow ==
    ASSUME RowInv, NEW r \in Slots, TouchSession(r) \/ LogSubmission(r)
    PROVE  RowInv'
<1> USE DEF sheetVars, rowVars, pageVars, ghostVars
<1>1. TypeOK /\ call[r] \in CallRecords
  BY DEF RowInv, TypeOK
<1>2. /\ call' \in [Slots -> CallRecords]
      /\ call'[r].count = 0 /\ call'[r].stage \in {"free", "back"}
      /\ call'[r].stage = "free" => call'[r].kind = "none"
      /\ page = "running" => call'[r] = Free
      /\ \A s \in Slots \ {r} : call'[s] = call[s]
  BY <1>1, FinishTyped DEF TouchSession, LogSubmission, Words
<1>3. /\ status' \in Words /\ (status' = "none" <=> status = "none")
      /\ startedAt' \in BOOLEAN
      /\ status = "none" => ~startedAt' /\ ~logged'
      /\ startedAt /\ status # "none" => startedAt'
      /\ logged' \in BOOLEAN /\ (logged => logged')
  <2>1. CASE TouchSession(r)
    <3>1. startedAt' \in BOOLEAN /\ (startedAt' <=> status # "none")
      BY <2>1 DEF TouchSession
    <3>2. status' \in Words /\ (status' = "none" <=> status = "none")
      BY <1>1, <2>1 DEF TouchSession, StatusAfterWork, TypeOK, Words
    <3>3. logged' \in BOOLEAN /\ (logged => logged') /\ (status = "none" => ~logged')
      BY <1>1, <2>1 DEF TouchSession, TypeOK, RowInv, NoRowIsEmpty
    <3> QED BY <3>1, <3>2, <3>3
  <2>2. CASE LogSubmission(r)
    BY <1>1, <2>2 DEF LogSubmission, TypeOK, Words, RowInv, NoRowIsEmpty
  <2> QED BY <2>1, <2>2
<1>4. TypeOK'
  BY <1>1, <1>2, <1>3 DEF TouchSession, LogSubmission, TypeOK
<1>5. NoRowIsEmpty' /\ RequestsSawTheRow'
  BY <1>1, <1>2, <1>3 DEF TouchSession, LogSubmission, RowInv, NoRowIsEmpty, RequestsSawTheRow,
                          TypeOK, CallRecords
<1>6. SlotsAreTidy'
  BY <1>2, SlotsTyped DEF TouchSession, LogSubmission, RowInv, SlotsAreTidy, IsFree, Slots
<1>7. WorkIsStarted'
  <2>1. CASE TouchSession(r)
    <3>1. startedAt' <=> status # "none"
      BY <2>1 DEF TouchSession
    <3>2. losses' = losses /\ answers' = answers
      BY <2>1 DEF TouchSession
    <3>3. CASE status = "none"
      BY <3>2, <3>3 DEF RowInv, NoRowIsEmpty, WorkIsStarted
    <3>4. CASE status # "none"
      BY <3>1, <3>4 DEF WorkIsStarted
    <3> QED BY <3>3, <3>4
  <2>2. CASE LogSubmission(r)
    <3>1. At("stored") => At("stored")'
      BY <1>2, <2>2 DEF LogSubmission, At
    <3> QED BY <2>2, <3>1 DEF LogSubmission, RowInv, RowAccountsForTheWork, WorkIsStarted
  <2> QED BY <2>1, <2>2
<1>8. HandInIsLogged'
  <2>1. CASE TouchSession(r)
    <3>1. At("closed") => At("closed")'
      BY <1>2, <2>1 DEF TouchSession, At
    <3> QED BY <2>1, <3>1 DEF TouchSession, RowInv, RowAccountsForTheWork, HandInIsLogged
  <2>2. CASE LogSubmission(r)
    BY <2>2 DEF LogSubmission, RowInv, RowAccountsForTheWork, HandInIsLogged, RequestsSawTheRow,
                NoRowIsEmpty
  <2> QED BY <2>1, <2>2
<1>9. LossesLeaveATrace'
  BY DEF TouchSession, LogSubmission, RowInv, RowAccountsForTheWork, LossesLeaveATrace
<1> QED BY <1>4, <1>5, <1>6, <1>7, <1>8, <1>9 DEF RowInv, RowAccountsForTheWork

\* The session is closed before the submission is logged.
LEMMA CloseKeepsRow == ASSUME RowInv, NEW r \in Slots, CloseSession(r) PROVE RowInv'
<1> USE DEF sheetVars, rowVars, pageVars, ghostVars
<1>1. TypeOK /\ call[r] \in CallRecords
  BY DEF RowInv, TypeOK
<1>2. /\ call' \in [Slots -> CallRecords]
      /\ call'[r].stage = "closed" /\ call'[r].kind = call[r].kind
      /\ call'[r].count = call[r].count
      /\ \A s \in Slots \ {r} : call'[s] = call[s]
  BY <1>1 DEF CloseSession, TypeOK, CallRecords
<1>3. /\ status' \in Words /\ (status' = "none" <=> status = "none")
      /\ submittedAt' \in BOOLEAN /\ (submittedAt' <=> status # "none")
  BY <1>1 DEF CloseSession, TypeOK, Words
<1>4. TypeOK'
  BY <1>1, <1>2, <1>3 DEF CloseSession, TypeOK
<1>5. NoRowIsEmpty' /\ RequestsSawTheRow'
  BY <1>1, <1>2, <1>3 DEF CloseSession, RowInv, NoRowIsEmpty, RequestsSawTheRow
<1>6. SlotsAreTidy'
  BY <1>2, CallsAreFew DEF CloseSession, RowInv, SlotsAreTidy, IsFree, Slots
<1>7. At("closed")' /\ (At("stored") => At("stored")')
  BY <1>2 DEF CloseSession, At
<1>8. RowAccountsForTheWork'
  BY <1>3, <1>7 DEF CloseSession, RowInv, NoRowIsEmpty, RowAccountsForTheWork, LossesLeaveATrace,
                    WorkIsStarted, HandInIsLogged
<1> QED BY <1>4, <1>5, <1>6, <1>8 DEF RowInv

\* A request ends with nothing written, by a refusal, an error or a loss.
LEMMA FailureKeepsRow ==
    ASSUME RowInv, NEW r \in Slots, Refuse(r) \/ ForeignKeyFails(r) \/ Lose(r)
    PROVE  RowInv'
<1> USE DEF sheetVars, rowVars, pageVars, ghostVars
<1>1. TypeOK /\ call[r] \in CallRecords /\ "none" \in Words
  BY DEF RowInv, TypeOK, Words
<1>2. Finish(r, "none") /\ LooseIfSave(r) /\ UNCHANGED <<sheetVars, rowVars, answers, pageVars>>
      /\ lost' \in BOOLEAN /\ (lost => lost')
  BY <1>1 DEF Refuse, ForeignKeyFails, Lose, TypeOK
<1>3. loose' \in [Questions -> BOOLEAN]
  BY <1>1, <1>2 DEF LooseIfSave, TypeOK
<1>4. TypeOK'
  BY <1>1, <1>2, <1>3, FinishTyped DEF TypeOK
<1>5. CASE call[r].stage \in {"stored", "closed"} => lost'
  BY <1>2, <1>1, <1>4, <1>5, EndKeepsRow DEF sheetVars
<1>6. CASE call[r].stage = "closed" /\ status = "none"
  <2>1. /\ call' \in [Slots -> CallRecords]
        /\ call'[r].count = 0 /\ call'[r].stage \in {"free", "back"}
        /\ call'[r].stage = "free" => call'[r].kind = "none"
        /\ page = "running" => call'[r] = Free
        /\ \A s \in Slots \ {r} : call'[s] = call[s]
    BY <1>1, <1>2, FinishTyped
  <2>2. NoRowIsEmpty' /\ RequestsSawTheRow'
    BY <1>2, <1>6, <2>1 DEF RowInv, NoRowIsEmpty, RequestsSawTheRow, TypeOK
  <2>3. SlotsAreTidy'
    BY <1>2, <2>1, SlotsTyped DEF RowInv, SlotsAreTidy, IsFree, Slots
  <2>4. RowAccountsForTheWork'
    BY <1>2, <1>6 DEF RowInv, NoRowIsEmpty, RowAccountsForTheWork, LossesLeaveATrace,
                      WorkIsStarted, HandInIsLogged
  <2> QED BY <1>4, <2>2, <2>3, <2>4 DEF RowInv
<1> QED BY <1>5, <1>6 DEF Refuse, ForeignKeyFails, Lose

\* The invariant of the row, in every reachable state.
THEOREM RowInvariant == Spec => []RowInv
<1>1. RowInv /\ [Next]_vars => RowInv'
  <2> SUFFICES ASSUME RowInv, [Next]_vars PROVE RowInv'
    OBVIOUS
  <2>1. CASE Next
    BY <2>1, BrowserKeepsRow, TeacherKeepsRow, StartKeepsRow, BeginKeepsRow, RecordKeepsRow,
       StoreKeepsRow, TouchKeepsRow, CloseKeepsRow, FailureKeepsRow DEF Next, Handler
  <2>2. CASE UNCHANGED vars
    BY <2>2 DEF vars, sheetVars, rowVars, pageVars, ghostVars, RowInv, TypeOK, NoRowIsEmpty,
                RequestsSawTheRow, SlotsAreTidy, IsFree, RowAccountsForTheWork,
                LossesLeaveATrace, WorkIsStarted, HandInIsLogged, At
  <2> QED BY <2>1, <2>2
<1> QED BY RowInit, <1>1, PTL DEF Spec

\* Every variable keeps its type.
THEOREM ExamTyped == Spec => []TypeOK
BY RowInvariant, PTL DEF RowInv

\* The columns of the session row agree with its answers and events.
THEOREM RowAccounted == Spec => []RowAccountsForTheWork
BY RowInvariant, PTL DEF RowInv

\* The status only goes back by the races that StatusStepsAreExplained names.
THEOREM StatusExplained == Spec => StatusStepsAreExplained
<1> DEFINE Explained ==
      /\ status = "flagged" /\ status' \notin {"flagged", "submitted", "none"}
           => \E r \in Slots : call[r].status = "ready"
      /\ status = "submitted" /\ status' \notin {"submitted", "none"}
           => \E r \in Slots : \/ call[r].status = "ready"
                               \/ call[r].kind = "loss" /\ call[r].status # "flagged"
<1>1. [Next]_vars => [Explained]_vars
  <2> SUFFICES ASSUME Next PROVE Explained
    OBVIOUS
  <2> USE DEF rowVars
  <2>1. CASE Browser
    BY <2>1 DEF Browser, PressStart, StartRefused, Submit, AutoSubmit, Tick, Exit, Leave,
                OpenPage, ReportLoss, ReportOther, Save
  <2>2. CASE Teacher
    BY <2>2 DEF Teacher, SetTemplateStatus, SaveTemplate, DeleteTemplate
  <2>3. CASE ServeStart \/ RefuseStart
    BY <2>3 DEF ServeStart, RefuseStart
  <2>4. ASSUME NEW r \in Slots, Handler(r) PROVE Explained
    <3>1. CASE Begin(r) \/ Refuse(r) \/ StoreAnswer(r) \/ ForeignKeyFails(r) \/ LogSubmission(r)
      BY <3>1 DEF Begin, Refuse, StoreAnswer, ForeignKeyFails, LogSubmission
    <3>2. CASE RecordLoss(r)
      BY <3>2 DEF RecordLoss
    <3>3. CASE RecordOther(r) \/ TouchSession(r)
      BY <3>3 DEF RecordOther, TouchSession, StatusAfterWork
    <3>4. CASE CloseSession(r)
      BY <3>4 DEF CloseSession
    <3> QED BY <2>4, <3>1, <3>2, <3>3, <3>4 DEF Handler
  <2>5. ASSUME NEW r \in Slots, Lose(r) PROVE Explained
    BY <2>5 DEF Lose
  <2> QED BY <2>1, <2>2, <2>3, <2>4, <2>5 DEF Next
<1> QED BY <1>1, PTL DEF Spec, StatusStepsAreExplained

-----------------------------------------------------------------------------
(* The paper                                                               *)

\* A step that leaves questions, answers and page as they are, and changes
\* slots only to something that is no save, or on with the same save, and no
\* save to an end unless its question becomes loose.
LEMMA PaperUntouched ==
    ASSUME PaperInv, TypeOK, TypeOK',
           UNCHANGED <<question, answers, page, paper, shown>>,
           \A q \in Questions : loose[q] => loose'[q],
           call[Awaited].stage = "back" => call'[Awaited] = call[Awaited],
           \A s \in Slots : \/ call'[s] = call[s]
                            \/ /\ call'[s].kind = "save" => call[s].kind = "save"
                               /\ call'[s].kind = "save" =>
                                    /\ call'[s].q = call[s].q /\ call'[s].v = call[s].v
                                    /\ call'[s].stage # "stored"
                               /\ call'[s].kind # "save" /\ call[s].kind = "save" /\ page # "menu"
                                    => loose'[call[s].q]
    PROVE  PaperInv'
<1>1. KnownQuestions'
  BY DEF PaperInv, KnownQuestions
<1>2. SavesAreSingle'
  BY DEF PaperInv, SavesAreSingle, Live
<1>3. PaperIsStored'
  <2> SUFFICES ASSUME page # "menu", NEW q \in paper \cap Live, ~loose'[q], ~Saving(q)'
               PROVE  answers[q] = shown[q]
    BY DEF PaperIsStored, Live
  <2>1. q \in Questions /\ ~loose[q]
    BY DEF TypeOK
  <2>2. ~Saving(q)
    BY <2>1 DEF Saving, TypeOK
  <2> QED BY <2>1, <2>2 DEF PaperInv, PaperIsStored
<1> QED BY <1>1, <1>2, <1>3 DEF PaperInv

\* The page is closed at first.
LEMMA PaperInit == Init => PaperInv
BY SlotsTyped DEF Init, PaperInv, KnownQuestions, SavesAreSingle, PaperIsStored

\* The page: a save is of what is shown, and loose when another one is under way.
LEMMA BrowserKeepsPaper == ASSUME RowInv, RowInv', PaperInv, Browser PROVE PaperInv'
<1> USE SlotsTyped, CallsAreFew DEF sheetVars, pageVars, ghostVars
<1>a. TypeOK /\ TypeOK' /\ Awaited \in Slots /\ Calls \subseteq Slots /\ call \in [Slots -> CallRecords]
  BY DEF RowInv, TypeOK, Slots
<1>b. \A r \in Slots : call[r].kind = "save" => ~IsFree(r)
  BY DEF RowInv, SlotsAreTidy
<1>1. CASE PressStart
  <2>1. /\ call'[Awaited] = Request("start", NoQuestion, NoValue)
        /\ \A s \in Slots \ {Awaited} : call'[s] = call[s]
    BY <1>1, <1>a, FillTyped DEF PressStart
  <2>2. \A s \in Slots : call'[s].kind = "save" => call'[s] = call[s]
    BY <2>1
  <2>3. \A q \in Questions : loose'[q] <=> Saving(q)
    BY <1>1 DEF PressStart
  <2>4. paper' = {}
    BY <1>1 DEF PressStart, PaperInv, KnownQuestions
  <2>5. KnownQuestions'
    BY <1>1, <2>2, <2>4 DEF PressStart, PaperInv, KnownQuestions
  <2>6. SavesAreSingle'
    BY <2>2, <2>3 DEF SavesAreSingle, Saving
  <2>7. PaperIsStored'
    BY <2>4 DEF PaperIsStored
  <2> QED BY <2>5, <2>6, <2>7 DEF PaperInv
<1>2. ASSUME NEW r \in Calls, OpenPage(r) PROVE PaperInv'
  <2>1. /\ call'[Awaited] = Free /\ call'[r] = Request("other", NoQuestion, NoValue)
        /\ \A s \in Slots \ {Awaited, r} : call'[s] = call[s]
    BY <1>2, <1>a DEF OpenPage
  <2>2. page = "opening" /\ page' = "running" /\ UNCHANGED <<question, answers, paper, shown, loose>>
    BY <1>2 DEF OpenPage
  <2>3. \A s \in Slots : call'[s].kind = "save" => call'[s] = call[s]
    BY <2>1
  <2>4. \A q \in Questions : ~loose[q] => ~Saving(q)
    BY <2>2 DEF PaperInv, SavesAreSingle, Saving
  <2>5. KnownQuestions'
    BY <2>2, <2>3 DEF PaperInv, KnownQuestions
  <2>6. SavesAreSingle'
    BY <2>2, <2>3, <2>4 DEF SavesAreSingle, Saving
  <2>7. PaperIsStored'
    BY <1>a, <2>2, <2>4 DEF PaperInv, PaperIsStored, Live, TypeOK
  <2> QED BY <2>5, <2>6, <2>7 DEF PaperInv
<1>3. CASE StartRefused
  <2>1. /\ call'[Awaited] = Free
        /\ \A s \in Slots \ {Awaited} : call'[s] = call[s]
    BY <1>3, <1>a, FillTyped DEF StartRefused
  <2>2. page' = "menu" /\ UNCHANGED <<question, paper>>
    BY <1>3 DEF StartRefused
  <2>3. paper' = {}
    BY <1>3 DEF StartRefused, PaperInv, KnownQuestions
  <2>4. KnownQuestions'
    BY <2>1, <2>2, <2>3 DEF PaperInv, KnownQuestions
  <2>5. SavesAreSingle' /\ PaperIsStored'
    BY <2>2 DEF SavesAreSingle, PaperIsStored
  <2> QED BY <2>4, <2>5 DEF PaperInv
<1>4. ASSUME NEW r \in Calls, ReportLoss(r) \/ ReportOther(r) PROVE PaperInv'
  <2>1. PICK k \in {"loss", "other"} : call' = [call EXCEPT ![r] = Request(k, NoQuestion, NoValue)]
    BY <1>4 DEF ReportLoss, ReportOther
  <2>2. /\ call'[r] = Request(k, NoQuestion, NoValue)
        /\ \A s \in Slots \ {r} : call'[s] = call[s]
    BY <2>1, <1>a, FillTyped
  <2> QED BY <1>4, <1>a, <1>b, <2>2, PaperUntouched DEF ReportLoss, ReportOther
<1>5. ASSUME NEW r \in Calls, NEW q \in Questions, NEW v \in Values \cup {NoValue}, Save(r, q, v)
      PROVE PaperInv'
  <2>1. /\ call'[r] = Request("save", q, v)
        /\ \A s \in Slots \ {r} : call'[s] = call[s]
    BY <1>5, <1>a, FillTyped DEF Save
  <2>2. /\ shown'[q] = v /\ \A p \in Questions \ {q} : shown'[p] = shown[p]
        /\ loose'[q] <=> Saving(q)
        /\ \A p \in Questions \ {q} : loose'[p] = loose[p]
    BY <1>5, <1>a DEF Save, TypeOK
  <2>3. /\ page \in {"running", "closing"} /\ q \in paper
        /\ UNCHANGED <<page, question, answers, paper>>
    BY <1>5 DEF Save
  <2>4. call[r].kind # "save"
    BY <1>5, <1>b, <1>a DEF Save
  <2>5. KnownQuestions'
    BY <1>a, <2>1, <2>3 DEF PaperInv, KnownQuestions
  <2>6. SavesAreSingle'
    BY <2>1, <2>2, <2>3, <2>4, <1>a DEF PaperInv, SavesAreSingle, Saving, Live
  <2>7. Saving(q)'
    BY <1>a, <2>1 DEF Saving
  <2>8. \A p \in Questions : Saving(p) => Saving(p)'
    BY <2>1, <2>4 DEF Saving
  <2>9. PaperIsStored'
    BY <1>a, <2>2, <2>3, <2>7, <2>8 DEF PaperInv, PaperIsStored, Live, TypeOK
  <2> QED BY <2>5, <2>6, <2>9 DEF PaperInv
<1>6. CASE Submit
  <2>1. /\ call'[Awaited] = Request("submit", NoQuestion, NoValue)
        /\ \A s \in Slots \ {Awaited} : call'[s] = call[s]
    BY <1>6, <1>a, FillTyped DEF Submit
  <2>2. /\ page = "running" /\ page' = "closing"
        /\ UNCHANGED <<question, answers, paper, shown, loose>>
    BY <1>6 DEF Submit
  <2>3. call[Awaited].kind # "save"
    BY <1>a, <1>b, <2>2 DEF RowInv, SlotsAreTidy
  <2>4. \A q \in Questions : Saving(q) => Saving(q)'
    BY <2>1, <2>3 DEF Saving
  <2>5. \A s \in Slots : call'[s].kind = "save" => call'[s] = call[s]
    BY <2>1
  <2>6. KnownQuestions'
    BY <2>2, <2>5 DEF PaperInv, KnownQuestions
  <2>7. SavesAreSingle'
    BY <2>2, <2>5 DEF PaperInv, SavesAreSingle, Live
  <2>8. PaperIsStored'
    BY <1>a, <2>2, <2>4 DEF PaperInv, PaperIsStored, Live, TypeOK
  <2> QED BY <2>6, <2>7, <2>8 DEF PaperInv
<1>7. CASE Tick
  BY <1>7, <1>a, PaperUntouched DEF Tick
<1>8. CASE Exit \/ Leave
  <2>1. page' = "menu" /\ paper' = {} /\ question' = question
    BY <1>8 DEF Exit, Leave, Unmount
  <2>2. \A s \in Slots : call'[s].kind = "save" => call'[s] = call[s]
    <3>1. CASE call' = [call EXCEPT ![Awaited] = Free]
      BY <1>a, <3>1
    <3>2. CASE call' = [call EXCEPT ![Awaited] = call[Awaited]]
      BY <1>a, <3>2
    <3> QED BY <1>8, <3>1, <3>2 DEF Exit, Leave
  <2>3. KnownQuestions'
    BY <2>1, <2>2 DEF PaperInv, KnownQuestions
  <2>4. SavesAreSingle' /\ PaperIsStored'
    BY <2>1 DEF SavesAreSingle, PaperIsStored
  <2> QED BY <2>3, <2>4 DEF PaperInv
<1> QED BY <1>1, <1>2, <1>3, <1>4, <1>5, <1>6, <1>7, <1>8 DEF Browser, AutoSubmit

\* The teacher takes the answers of a question only with the question.
LEMMA TeacherKeepsPaper == ASSUME RowInv, RowInv', PaperInv, Teacher PROVE PaperInv'
<1> USE DEF sheetVars, rowVars, pageVars, ghostVars
<1>a. TypeOK /\ TypeOK'
  BY DEF RowInv
<1>1. /\ UNCHANGED <<call, page, paper, shown, loose>>
      /\ \A q \in Questions :
           /\ question[q] # "unborn" => question'[q] # "unborn"
           /\ question[q] # "unborn" /\ q \in Live' => q \in Live /\ answers'[q] = answers[q]
  <2>1. ASSUME NEW word \in {"draft", "published"}, SetTemplateStatus(word)
        PROVE <1>1!:
    BY <2>1 DEF SetTemplateStatus, Live
  <2>2. ASSUME NEW kept \in SUBSET Live, NEW added \in SUBSET {q \in Questions : question[q] = "unborn"},
               SaveTemplate(kept, added)
        PROVE  <1>1!:
    BY <2>2 DEF SaveTemplate, Live
  <2>3. CASE DeleteTemplate
    BY <2>3 DEF DeleteTemplate, Live
  <2> QED BY <2>1, <2>2, <2>3 DEF Teacher
<1>2. KnownQuestions'
  BY <1>1, <1>a DEF PaperInv, KnownQuestions, TypeOK
<1>3. SavesAreSingle'
  BY <1>1, <1>a DEF PaperInv, KnownQuestions, SavesAreSingle
<1>4. PaperIsStored'
  BY <1>1, <1>a DEF PaperInv, KnownQuestions, PaperIsStored, Saving, TypeOK
<1> QED BY <1>2, <1>3, <1>4 DEF PaperInv

\* A page that opens is given what is stored, and no save of it is under way.
LEMMA StartKeepsPaper == ASSUME RowInv, RowInv', PaperInv, ServeStart \/ RefuseStart PROVE PaperInv'
<1> USE DEF sheetVars, rowVars, pageVars, ghostVars
<1>1. TypeOK /\ TypeOK' /\ Awaited \in Slots
  BY DEF RowInv, Slots
<1>2. /\ call[Awaited].kind = "start" /\ call[Awaited].stage = "sent"
      /\ call'[Awaited].kind # "save"
      /\ \A s \in Slots \ {Awaited} : call'[s] = call[s]
  BY <1>1, FinishTyped DEF ServeStart, RefuseStart, Words
<1>3. CASE page # "opening" \/ RefuseStart
  <2>1. UNCHANGED <<question, answers, page, paper, shown, loose>>
    BY <1>3 DEF ServeStart, RefuseStart
  <2> QED BY <1>1, <1>2, <2>1, PaperUntouched
<1>4. CASE page = "opening" /\ ServeStart
  <2>1. /\ paper' = Live /\ shown' = answers
        /\ UNCHANGED <<question, answers, page, loose>>
    BY <1>4 DEF ServeStart
  <2>2. \A s \in Slots : call'[s].kind = "save" => call'[s] = call[s]
    BY <1>2
  <2>6. call'[Awaited].stage = "back" /\ call'[Awaited].status # "none"
    BY <1>1, <1>4 DEF ServeStart, Finish, Answered, Free, TypeOK
  <2>3. KnownQuestions'
    BY <1>4, <2>1, <2>2, <2>6 DEF PaperInv, KnownQuestions, Live
  <2>4. SavesAreSingle'
    BY <1>4, <2>1, <2>2 DEF PaperInv, SavesAreSingle
  <2>5. PaperIsStored'
    BY <2>1 DEF PaperIsStored
  <2> QED BY <2>3, <2>4, <2>5 DEF PaperInv
<1> QED BY <1>3, <1>4

\* The handlers: the single save of a question ends with what is shown.
LEMMA HandlerKeepsPaper ==
    ASSUME RowInv, RowInv', PaperInv, NEW r \in Slots, Handler(r) \/ Lose(r)
    PROVE  PaperInv'
<1> USE DEF sheetVars, rowVars, pageVars, ghostVars
<1>1. TypeOK /\ TypeOK' /\ call[r] \in CallRecords /\ "none" \in Words
  BY DEF RowInv, TypeOK, Words
<1>0. /\ Awaited \in Slots
      /\ call[Awaited].stage = "back" => Awaited # r
  BY DEF Slots, Handler, Begin, Refuse, RecordLoss, RecordOther, StoreAnswer, ForeignKeyFails,
         TouchSession, CloseSession, LogSubmission, Lose
<1>2. CASE Begin(r) \/ CloseSession(r)
  <2>1. /\ call'[r].kind = call[r].kind /\ call'[r].q = call[r].q /\ call'[r].v = call[r].v
        /\ call'[r].stage # "stored"
        /\ \A s \in Slots \ {r} : call'[s] = call[s]
    BY <1>1, <1>2 DEF Begin, CloseSession, TypeOK, CallRecords
  <2>2. UNCHANGED <<question, answers, page, paper, shown, loose>>
    BY <1>2 DEF Begin, CloseSession
  <2> QED BY <1>0, <1>1, <2>1, <2>2, PaperUntouched
<1>3. CASE RecordLoss(r) \/ RecordOther(r) \/ LogSubmission(r)
  <2>1. /\ call[r].kind # "save" /\ call'[r].kind # "save"
        /\ \A s \in Slots \ {r} : call'[s] = call[s]
    BY <1>1, <1>3, FinishTyped DEF RecordLoss, RecordOther, LogSubmission
  <2>2. UNCHANGED <<question, answers, page, paper, shown, loose>>
    BY <1>3 DEF RecordLoss, RecordOther, LogSubmission
  <2> QED BY <1>0, <1>1, <2>1, <2>2, PaperUntouched
<1>4. CASE Refuse(r) \/ ForeignKeyFails(r) \/ Lose(r)
  <2>1. /\ Finish(r, "none") /\ LooseIfSave(r)
        /\ UNCHANGED <<question, answers, page, paper, shown>>
    BY <1>4 DEF Refuse, ForeignKeyFails, Lose
  <2>2. /\ call'[r].kind # "save"
        /\ \A s \in Slots \ {r} : call'[s] = call[s]
    BY <1>1, <2>1, FinishTyped
  <2>3. call[r].kind = "save" => call[r].q \in Questions
    BY DEF PaperInv, KnownQuestions
  <2>4. /\ \A q \in Questions : loose[q] => loose'[q]
        /\ call[r].kind = "save" /\ page # "menu" => loose'[call[r].q]
    BY <1>1, <2>1, <2>3 DEF LooseIfSave, TypeOK
  <2> QED BY <1>0, <1>1, <2>1, <2>2, <2>4, PaperUntouched
<1>5. CASE StoreAnswer(r)
  <2>1. /\ call[r].kind = "save" /\ call[r].q \in Live /\ call[r].q \in Questions
        /\ UNCHANGED <<question, page, paper, shown, loose>>
    BY <1>5 DEF StoreAnswer, Live
  <2>2. /\ call'[r].kind = "save" /\ call'[r].q = call[r].q /\ call'[r].v = call[r].v
        /\ \A s \in Slots \ {r} : call'[s] = call[s]
    BY <1>1, <1>5 DEF StoreAnswer, TypeOK, CallRecords
  <2>3. /\ answers'[call[r].q] = call[r].v
        /\ \A q \in Questions \ {call[r].q} : answers'[q] = answers[q]
    BY <1>1, <1>5, <2>1 DEF StoreAnswer, TypeOK
  <2>4. KnownQuestions'
    BY <1>0, <2>1, <2>2 DEF PaperInv, KnownQuestions
  <2>5. SavesAreSingle'
    <3> SUFFICES ASSUME page # "menu", NEW q \in Questions, NEW s \in Slots,
                        ~loose[q], call'[s].kind = "save", call'[s].q = q
                 PROVE  /\ page \in {"running", "closing"}
                        /\ \A t \in Slots : call'[t].kind = "save" /\ call'[t].q = q => t = s
                        /\ call'[s].v = shown[q]
                        /\ call'[s].stage = "stored" /\ q \in Live => answers'[q] = shown[q]
      BY <2>1 DEF SavesAreSingle, Live
    <3>1. \A t \in Slots : call'[t].kind = call[t].kind /\ call'[t].q = call[t].q /\ call'[t].v = call[t].v
      BY <2>1, <2>2
    <3>2. /\ page \in {"running", "closing"}
          /\ \A t \in Slots : call[t].kind = "save" /\ call[t].q = q => t = s
          /\ call[s].v = shown[q]
          /\ call[s].stage = "stored" /\ q \in Live => answers[q] = shown[q]
      BY <3>1 DEF PaperInv, SavesAreSingle
    <3>3. CASE q = call[r].q
      BY <2>1, <2>3, <3>1, <3>2, <3>3
    <3>4. CASE q # call[r].q
      BY <2>1, <2>2, <2>3, <3>1, <3>2, <3>4
    <3> QED BY <3>3, <3>4
  <2>6. \A q \in Questions : Saving(q) \/ q = call[r].q => Saving(q)'
    BY <2>1, <2>2 DEF Saving
  <2>7. PaperIsStored'
    <3> SUFFICES ASSUME page # "menu", NEW q \in paper \cap Live, ~loose[q], ~Saving(q)'
                 PROVE  answers'[q] = shown[q]
      BY <2>1 DEF PaperIsStored, Live
    <3>1. q \in Questions /\ q # call[r].q /\ ~Saving(q)
      BY <1>1, <2>6 DEF TypeOK
    <3> QED BY <2>3, <3>1 DEF PaperInv, PaperIsStored
  <2> QED BY <2>4, <2>5, <2>7 DEF PaperInv
<1>6. CASE TouchSession(r)
  <2>1. /\ call[r].kind = "save" /\ call[r].stage = "stored"
        /\ UNCHANGED <<question, answers, page, paper, shown, loose>>
    BY <1>6 DEF TouchSession
  <2>2. /\ call'[r].kind # "save"
        /\ \A s \in Slots \ {r} : call'[s] = call[s]
    BY <1>1, <1>6, FinishTyped DEF TouchSession
  <2>3. KnownQuestions'
    BY <1>0, <2>1, <2>2 DEF PaperInv, KnownQuestions
  <2>4. SavesAreSingle'
    BY <2>1, <2>2 DEF PaperInv, SavesAreSingle, Live
  <2>5. PaperIsStored'
    <3> SUFFICES ASSUME page # "menu", NEW q \in paper \cap Live, ~loose[q], ~Saving(q)'
                 PROVE  answers[q] = shown[q]
      BY <2>1 DEF PaperIsStored, Live
    <3>1. q \in Questions
      BY <1>1 DEF TypeOK
    <3>2. CASE call[r].q = q
      BY <2>1, <3>1, <3>2 DEF PaperInv, SavesAreSingle
    <3>3. CASE call[r].q # q
      <4>1. ~Saving(q)
        BY <2>2, <3>3 DEF Saving
      <4> QED BY <4>1 DEF PaperInv, PaperIsStored
    <3> QED BY <3>2, <3>3
  <2> QED BY <2>3, <2>4, <2>5 DEF PaperInv
<1> QED BY <1>2, <1>3, <1>4, <1>5, <1>6 DEF Handler

\* Once its saves are over, the page shows what is stored.
THEOREM ShownIsStored == Spec => []StoredIsShown
<1>1. RowInv /\ RowInv' /\ PaperInv /\ [Next]_vars => PaperInv'
  <2> SUFFICES ASSUME RowInv, RowInv', PaperInv, [Next]_vars PROVE PaperInv'
    OBVIOUS
  <2>1. CASE Next
    BY <2>1, BrowserKeepsPaper, TeacherKeepsPaper, StartKeepsPaper, HandlerKeepsPaper DEF Next
  <2>2. CASE UNCHANGED vars
    BY <2>2 DEF vars, sheetVars, pageVars, ghostVars, PaperInv, KnownQuestions, SavesAreSingle,
                PaperIsStored, Saving, Live
  <2> QED BY <2>1, <2>2
<1>2. PaperInv => StoredIsShown
  BY DEF PaperInv, PaperIsStored, StoredIsShown
<1> QED BY PaperInit, RowInvariant, <1>1, <1>2, PTL DEF Spec
=============================================================================
