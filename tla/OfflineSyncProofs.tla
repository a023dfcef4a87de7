-------------------------- MODULE OfflineSyncProofs --------------------------
(***************************************************************************)
(* OfflineSync for any operations, any number of sync runs and writers and *)
(* any number of faults: types, the inductive invariant IInv, and what     *)
(* follows from it.                                                        *)
(***************************************************************************)
EXTENDS OfflineSync, FiniteSetTheorems, TLAPS

USE DEF pageVars, requestVars, serverVars

\* The two helpers on which every reply and every kept row depends.
LEMMA OutcomeTypes ==
    ASSUME TypeOK, NEW op \in Ops
    PROVE  /\ Unanswered \in [Ops -> Outcomes \cup {"none"}]
           /\ ledger[op] # "none" => StoredOutcome(op) \in Outcomes
           /\ \A word \in Refusals(op) : word \in {"rejected", "conflict"}
  BY DEF TypeOK, Unanswered, StoredOutcome, Outcomes, Terminal, Refusals

\* A claimed operation is a real one while its request is in the two stages
\* that use it; the type of effects and ledger depends on it.
CurrentOK == \A s \in Syncs : Holds(s) => current[s] \in Ops

-----------------------------------------------------------------------------
LEMMA FormTypes ==
    ASSUME TypeOK, NEW op \in Ops, FormStep(op)
    PROVE  TypeOK'
  <1>1. CASE SaveOnline(op)
    BY <1>1 DEF SaveOnline, TypeOK
  <1>2. CASE QueueOffline(op)
    BY <1>2 DEF QueueOffline, BeginEnqueue, TypeOK, Writers
  <1>3. CASE QueueAfterFailure(op)
    BY <1>3 DEF QueueAfterFailure, BeginEnqueue, TypeOK, Writers
  <1>4. CASE PutRow(op)
    BY <1>4 DEF PutRow, TypeOK
  <1>5. CASE Expire(op)
    BY <1>5 DEF Expire, TypeOK
  <1> QED BY <1>1, <1>2, <1>3, <1>4, <1>5 DEF FormStep

LEMMA PageTypes ==
    ASSUME TypeOK, NEW s \in Syncs, PageStep(s)
    PROVE  TypeOK'
  <1>0. Unanswered \in [Ops -> Outcomes \cup {"none"}]
    BY DEF Unanswered
  <1>1. CASE StartSync(s)
    BY <1>1 DEF StartSync, TypeOK, Queued
  <1>2. CASE FinishSync(s)
    BY <1>2 DEF FinishSync, TypeOK
  <1>3. CASE ClientStops(s)
    BY <1>0, <1>3 DEF ClientStops, TypeOK
  <1>4. ASSUME NEW op \in Ops, HandleReply(s, op)
        PROVE  TypeOK'
    <2>1. replies[s][op] \in Outcomes
      BY <1>4 DEF HandleReply, Earliest, TypeOK
    <2>2. RowAfter(op, replies[s][op])
            \in {"absent", "expired", "rejected", "conflict", "processing"}
      BY <2>1 DEF RowAfter, Outcomes
    <2> QED BY <1>4, <2>2 DEF HandleReply, TypeOK
  <1> QED BY <1>1, <1>2, <1>3, <1>4 DEF PageStep

LEMMA RequestTypes ==
    ASSUME TypeOK, CurrentOK, NEW s \in Syncs, RequestStep(s)
    PROVE  TypeOK'
  <1>0. Unanswered \in [Ops -> Outcomes \cup {"none"}]
    BY DEF Unanswered
  <1>1. CASE Refuse(s)
    BY <1>0, <1>1 DEF Refuse, RequestFails, TypeOK
  <1>2. CASE Accept(s)
    BY <1>2 DEF Accept, TypeOK
  <1>3. CASE Commit(s)
    BY <1>3 DEF Commit, TypeOK, CurrentOK, Holds, Terminal, InOtherHands
  <1>4. CASE Decline(s)
    <2>1. PICK word \in Refusals(current[s]) :
              verdict' = [verdict EXCEPT ![s] = word]
      BY <1>4 DEF Decline
    <2>2. word \in Terminal
      BY <2>1 DEF Refusals, Terminal
    <2> QED BY <1>4, <2>1, <2>2 DEF Decline, TypeOK
  <1>5. CASE Record(s)
    <2>1. current[s] \in Ops
      BY <1>5 DEF Record, CurrentOK, Holds
    <2>2. verdict[s] \in Outcomes \cup {"none"}
      BY DEF TypeOK, Terminal, Outcomes
    <2> QED BY <1>5, <2>1, <2>2 DEF Record, TypeOK, Terminal
  <1>6. CASE Respond(s)
    BY <1>0, <1>6 DEF Respond, TypeOK
  <1>7. CASE RequestDies(s)
    BY <1>0, <1>7 DEF RequestDies, RequestFails, TypeOK
  <1>10. CASE Throw(s)
    BY <1>0, <1>10 DEF Throw, RequestFails, TypeOK
  <1>8. ASSUME NEW op \in Ops, Claim(s, op)
        PROVE  TypeOK'
    BY <1>8 DEF Claim, TypeOK
  <1>9. ASSUME NEW op \in Ops, Repeat(s, op)
        PROVE  TypeOK'
    <2>1. StoredOutcome(op) \in Outcomes
      BY <1>9, OutcomeTypes DEF Repeat
    <2> QED BY <1>9, <2>1 DEF Repeat, TypeOK
  <1> QED BY <1>1, <1>2, <1>3, <1>4, <1>5, <1>6, <1>7, <1>8, <1>9, <1>10 DEF RequestStep

LEMMA SessionTypes ==
    ASSUME TypeOK, RevokeToken \/ ClearScope \/ LogIn
    PROVE  TypeOK'
  BY DEF RevokeToken, ClearScope, LogIn, TypeOK

-----------------------------------------------------------------------------
(* The inductive invariant                                                 *)

\* What IInv says beyond the types.
SyncInv ==
    /\ LedgerTellsEffects
    /\ HolderOwnsClaim
    /\ SoleHolder
    /\ RepliesRepeatLedger
    /\ RowsRepeatLedger

\* The invariant reads six variables and the rows; a step that keeps those, and
\* adds no refusal to the outbox, keeps it.
LEMMA InvFrame ==
    ASSUME SyncInv,
           UNCHANGED <<stage, current, verdict, ledger, effects, replies>>,
           \A op \in Ops : outbox'[op] \in {"rejected", "conflict"} =>
                              outbox'[op] = outbox[op]
    PROVE  SyncInv'
  BY DEF SyncInv, LedgerTellsEffects, HolderOwnsClaim, Holds, SoleHolder,
         RepliesRepeatLedger, RowsRepeatLedger

LEMMA FormInv ==
    ASSUME IInv, NEW op \in Ops, FormStep(op)
    PROVE  SyncInv'
  <1>1. SyncInv
    BY DEF IInv, SyncInv
  <1>2. UNCHANGED <<stage, current, verdict, ledger, effects, replies>>
    BY DEF FormStep, SaveOnline, QueueOffline, QueueAfterFailure, BeginEnqueue,
           PutRow, Expire
  <1>3. \A o \in Ops : outbox'[o] \in {"rejected", "conflict"} => outbox'[o] = outbox[o]
    BY DEF FormStep, SaveOnline, QueueOffline, QueueAfterFailure, BeginEnqueue,
           PutRow, Expire, IInv, TypeOK
  <1> QED BY <1>1, <1>2, <1>3, InvFrame

LEMMA SessionInv ==
    ASSUME IInv, RevokeToken \/ ClearScope \/ LogIn
    PROVE  SyncInv'
  <1>1. SyncInv
    BY DEF IInv, SyncInv
  <1>2. UNCHANGED <<stage, current, verdict, ledger, effects, replies>>
    BY DEF RevokeToken, ClearScope, LogIn
  <1>3. \A o \in Ops : outbox'[o] \in {"rejected", "conflict"} => outbox'[o] = outbox[o]
    BY DEF RevokeToken, ClearScope, LogIn
  <1> QED BY <1>1, <1>2, <1>3, InvFrame

\* The page starts no claim and writes a refusal only from a reply, which
\* RepliesRepeatLedger says is the ledger's word.
LEMMA PageInv ==
    ASSUME IInv, NEW s \in Syncs, PageStep(s)
    PROVE  SyncInv'
  <1>0. SyncInv /\ TypeOK
    BY DEF IInv, SyncInv
  <1>1. CASE StartSync(s)
    BY <1>0, <1>1 DEF StartSync, SyncInv, LedgerTellsEffects, HolderOwnsClaim, Holds,
           SoleHolder, RepliesRepeatLedger, RowsRepeatLedger, TypeOK
  <1>2. CASE FinishSync(s)
    BY <1>0, <1>2, InvFrame DEF FinishSync
  <1>3. CASE ClientStops(s)
    BY <1>0, <1>3 DEF ClientStops, SyncInv, LedgerTellsEffects, HolderOwnsClaim, Holds,
           SoleHolder, RepliesRepeatLedger, RowsRepeatLedger, TypeOK, Unanswered
  <1>4. ASSUME NEW op \in Ops, HandleReply(s, op)
        PROVE  SyncInv'
    <2>1. /\ UNCHANGED <<stage, current, verdict, ledger, effects>>
          /\ outbox' = [outbox EXCEPT ![op] = RowAfter(op, replies[s][op])]
          /\ replies' = [replies EXCEPT ![s][op] = "none"]
      BY <1>4 DEF HandleReply
    <2>2. (LedgerTellsEffects /\ HolderOwnsClaim /\ SoleHolder)'
      BY <1>0, <2>1 DEF SyncInv, LedgerTellsEffects, HolderOwnsClaim, Holds, SoleHolder
    <2>3. RepliesRepeatLedger'
      BY <1>0, <2>1 DEF SyncInv, RepliesRepeatLedger, TypeOK
    <2>4. RowsRepeatLedger'
      BY <1>0, <2>1 DEF SyncInv, RepliesRepeatLedger, RowsRepeatLedger, RowAfter, TypeOK
    <2> QED BY <2>2, <2>3, <2>4 DEF SyncInv
  <1> QED BY <1>1, <1>2, <1>3, <1>4 DEF PageStep

\* A request that ends gives up what it holds and answers nothing.
LEMMA FailInv ==
    ASSUME IInv, NEW s \in Syncs, RequestFails(s)
    PROVE  SyncInv'
  BY DEF IInv, RequestFails, SyncInv, LedgerTellsEffects, HolderOwnsClaim, Holds,
         SoleHolder, RepliesRepeatLedger, RowsRepeatLedger, TypeOK, Unanswered

\* Claim finds no ledger row, so nobody holds op, nothing was written for it and
\* no reply about it is in flight.
LEMMA ClaimInv ==
    ASSUME IInv, NEW s \in Syncs, NEW op \in Ops, Claim(s, op)
    PROVE  SyncInv'
  <1>0. TypeOK /\ SyncInv
    BY DEF IInv, SyncInv
  <1>1. /\ stage[s] = "next" /\ ledger[op] = "none"
        /\ ledger' = [ledger EXCEPT ![op] = "processing"]
        /\ current' = [current EXCEPT ![s] = op]
        /\ stage' = [stage EXCEPT ![s] = "apply"]
        /\ UNCHANGED <<outbox, replies, verdict, effects>>
    BY DEF Claim
  <1>2. \A t \in Syncs : Holds(t) => current[t] # op
    BY <1>0, <1>1 DEF SyncInv, HolderOwnsClaim
  <1>3. LedgerTellsEffects'
    BY <1>0, <1>1 DEF SyncInv, LedgerTellsEffects, TypeOK
  <1>4. HolderOwnsClaim'
    BY <1>0, <1>1, <1>2 DEF SyncInv, HolderOwnsClaim, LedgerTellsEffects, Holds, TypeOK
  <1>5. SoleHolder'
    BY <1>0, <1>1, <1>2 DEF SyncInv, SoleHolder, Holds, TypeOK
  <1>6. RepliesRepeatLedger'
    BY <1>0, <1>1 DEF SyncInv, RepliesRepeatLedger, TypeOK
  <1>7. RowsRepeatLedger'
    BY <1>0, <1>1 DEF SyncInv, RowsRepeatLedger, TypeOK
  <1> QED BY <1>3, <1>4, <1>5, <1>6, <1>7 DEF SyncInv

\* Repeat says what the ledger says.
LEMMA RepeatInv ==
    ASSUME IInv, NEW s \in Syncs, NEW op \in Ops, Repeat(s, op)
    PROVE  SyncInv'
  <1>0. TypeOK /\ SyncInv
    BY DEF IInv, SyncInv
  <1>1. /\ ledger[op] # "none"
        /\ replies' = [replies EXCEPT ![s][op] = StoredOutcome(op)]
        /\ UNCHANGED <<outbox, stage, current, verdict, ledger, effects>>
    BY DEF Repeat
  <1>2. (LedgerTellsEffects /\ HolderOwnsClaim /\ SoleHolder /\ RowsRepeatLedger)'
    BY <1>0, <1>1 DEF SyncInv, LedgerTellsEffects, HolderOwnsClaim, Holds, SoleHolder,
           RowsRepeatLedger
  <1>3. RepliesRepeatLedger'
    <2> SUFFICES ASSUME NEW t \in Syncs, NEW o \in Ops
                 PROVE  /\ replies'[t][o] \in {"applied", "duplicate"} => ledger[o] = "applied"
                        /\ replies'[t][o] \in {"rejected", "conflict"}
                              => ledger[o] = replies'[t][o]
      BY <1>1 DEF RepliesRepeatLedger
    <2>1. CASE t = s /\ o = op
      <3>1. replies'[t][o] = StoredOutcome(op)
        BY <1>0, <1>1, <2>1 DEF TypeOK
      <3>2. CASE ledger[op] = "applied"
        BY <2>1, <3>1, <3>2 DEF StoredOutcome
      <3>3. CASE ledger[op] # "applied"
        <4>1. replies'[t][o] = ledger[o] /\ ledger[o] # "duplicate"
          BY <1>0, <2>1, <3>1, <3>3 DEF StoredOutcome, TypeOK, Terminal
        <4> QED BY <2>1, <3>3, <4>1
      <3> QED BY <3>2, <3>3
    <2>2. CASE ~(t = s /\ o = op)
      <3>1. replies'[t][o] = replies[t][o]
        BY <1>0, <1>1, <2>2 DEF TypeOK
      <3> QED BY <1>0, <3>1 DEF SyncInv, RepliesRepeatLedger
    <2> QED BY <2>1, <2>2
  <1> QED BY <1>2, <1>3 DEF SyncInv

\* Commit raises effects from 0 to 1 for an operation that only s holds.
LEMMA CommitInv ==
    ASSUME IInv, NEW s \in Syncs, Commit(s)
    PROVE  SyncInv'
  <1>0. TypeOK /\ SyncInv
    BY DEF IInv, SyncInv
  <1>1. /\ stage[s] = "apply"
        /\ effects' = [effects EXCEPT ![current[s]] = @ + 1]
        /\ verdict' = [verdict EXCEPT ![s] = "applied"]
        /\ stage' = [stage EXCEPT ![s] = "record"]
        /\ UNCHANGED <<outbox, replies, current, ledger>>
    BY DEF Commit
  <1>2. current[s] \in Ops /\ ledger[current[s]] = "processing"
        /\ effects[current[s]] = 0
    BY <1>0, <1>1 DEF SyncInv, HolderOwnsClaim, Holds
  <1>3. effects'[current[s]] = 1
    BY <1>0, <1>1, <1>2 DEF TypeOK
  <1>4. LedgerTellsEffects'
    BY <1>0, <1>1, <1>2, <1>3 DEF SyncInv, LedgerTellsEffects, TypeOK
  <1>5. HolderOwnsClaim'
    <2> SUFFICES ASSUME NEW t \in Syncs, Holds(t)'
                 PROVE  /\ current[t] \in Ops
                        /\ ledger[current[t]] = "processing"
                        /\ stage'[t] = "apply" => effects'[current[t]] = 0
                        /\ stage'[t] = "record" =>
                              /\ verdict'[t] \in Terminal
                              /\ (verdict'[t] = "applied") <=> (effects'[current[t]] = 1)
      BY <1>1 DEF HolderOwnsClaim
    <2>1. CASE t = s
      BY <1>0, <1>1, <1>2, <1>3, <2>1 DEF TypeOK, Terminal
    <2>2. CASE t # s
      <3>1. Holds(t) /\ Holds(s) /\ stage'[t] = stage[t] /\ verdict'[t] = verdict[t]
        BY <1>0, <1>1, <2>2 DEF Holds, TypeOK
      <3>2. current[t] # current[s]
        BY <1>0, <2>2, <3>1 DEF SyncInv, SoleHolder
      <3>3. effects'[current[t]] = effects[current[t]]
        BY <1>0, <1>1, <3>2 DEF TypeOK
      <3> QED BY <1>0, <3>1, <3>3 DEF SyncInv, HolderOwnsClaim
    <2> QED BY <2>1, <2>2
  <1>6. SoleHolder'
    BY <1>0, <1>1 DEF SyncInv, SoleHolder, Holds, TypeOK
  <1>7. (RepliesRepeatLedger /\ RowsRepeatLedger)'
    BY <1>0, <1>1 DEF SyncInv, RepliesRepeatLedger, RowsRepeatLedger
  <1> QED BY <1>4, <1>5, <1>6, <1>7 DEF SyncInv

\* Decline leaves effects at 0 and notes a word other than "applied".
LEMMA DeclineInv ==
    ASSUME IInv, NEW s \in Syncs, Decline(s)
    PROVE  SyncInv'
  <1>0. TypeOK /\ SyncInv
    BY DEF IInv, SyncInv
  <1>1. PICK word \in Refusals(current[s]) : verdict' = [verdict EXCEPT ![s] = word]
    BY DEF Decline
  <1>2. word \in Terminal /\ word # "applied"
    BY <1>1 DEF Refusals, Terminal
  <1>3. /\ stage[s] = "apply"
        /\ stage' = [stage EXCEPT ![s] = "record"]
        /\ UNCHANGED <<outbox, replies, current, ledger, effects>>
    BY DEF Decline
  <1>4. HolderOwnsClaim'
    BY <1>0, <1>1, <1>2, <1>3 DEF SyncInv, HolderOwnsClaim, Holds, TypeOK
  <1>5. SoleHolder'
    BY <1>0, <1>3 DEF SyncInv, SoleHolder, Holds, TypeOK
  <1>6. (LedgerTellsEffects /\ RepliesRepeatLedger /\ RowsRepeatLedger)'
    BY <1>0, <1>3 DEF SyncInv, LedgerTellsEffects, RepliesRepeatLedger, RowsRepeatLedger
  <1> QED BY <1>4, <1>5, <1>6 DEF SyncInv

\* Record stores and answers the verdict; until now the row was "processing",
\* so no reply and no kept row about the operation says otherwise.
LEMMA RecordInv ==
    ASSUME IInv, NEW s \in Syncs, Record(s)
    PROVE  SyncInv'
  <1>0. TypeOK /\ SyncInv
    BY DEF IInv, SyncInv
  <1>1. /\ stage[s] = "record"
        /\ ledger' = [ledger EXCEPT ![current[s]] = verdict[s]]
        /\ replies' = [replies EXCEPT ![s][current[s]] = verdict[s]]
        /\ current' = [current EXCEPT ![s] = NoOp]
        /\ verdict' = [verdict EXCEPT ![s] = "none"]
        /\ stage' = [stage EXCEPT ![s] = "next"]
        /\ UNCHANGED <<outbox, effects>>
    BY DEF Record
  <1>2. /\ current[s] \in Ops /\ ledger[current[s]] = "processing"
        /\ verdict[s] \in Terminal
        /\ (verdict[s] = "applied") <=> (effects[current[s]] = 1)
    BY <1>0, <1>1 DEF SyncInv, HolderOwnsClaim, Holds
  <1>3. effects[current[s]] = 0 \/ effects[current[s]] = 1
    <2>1. effects[current[s]] \in Nat
      BY <1>0, <1>2 DEF TypeOK
    <2>2. effects[current[s]] <= 1
      BY <1>0, <1>2 DEF SyncInv, LedgerTellsEffects
    <2> QED BY <2>1, <2>2
  <1>4. LedgerTellsEffects'
    <2> SUFFICES ASSUME NEW op \in Ops
                 PROVE  /\ ledger'[op] \in {"none", "rejected", "conflict"} => effects[op] = 0
                        /\ ledger'[op] = "applied" => effects[op] = 1
                        /\ effects[op] <= 1
      BY <1>1 DEF LedgerTellsEffects
    <2>1. CASE op = current[s]
      <3>1. ledger'[op] = verdict[s]
        BY <1>0, <1>1, <1>2, <2>1 DEF TypeOK
      <3>2. verdict[s] = "applied" \/ verdict[s] \in {"rejected", "conflict"}
        BY <1>2 DEF Terminal
      <3>3. CASE verdict[s] = "applied"
        BY <1>2, <2>1, <3>1, <3>3
      <3>4. CASE verdict[s] # "applied"
        BY <1>2, <1>3, <2>1, <3>1, <3>2, <3>4
      <3> QED BY <3>3, <3>4
    <2>2. CASE op # current[s]
      <3>1. ledger'[op] = ledger[op]
        BY <1>0, <1>1, <2>2 DEF TypeOK
      <3> QED BY <1>0, <3>1 DEF SyncInv, LedgerTellsEffects
    <2> QED BY <2>1, <2>2
  <1>5. HolderOwnsClaim'
    <2> SUFFICES ASSUME NEW t \in Syncs, Holds(t)'
                 PROVE  /\ current'[t] \in Ops
                        /\ ledger'[current'[t]] = "processing"
                        /\ stage'[t] = "apply" => effects[current'[t]] = 0
                        /\ stage'[t] = "record" =>
                              /\ verdict'[t] \in Terminal
                              /\ (verdict'[t] = "applied") <=> (effects[current'[t]] = 1)
      BY <1>1 DEF HolderOwnsClaim
    <2>1. t # s
      BY <1>0, <1>1 DEF Holds, TypeOK
    <2>2. /\ Holds(t) /\ Holds(s) /\ stage'[t] = stage[t]
          /\ verdict'[t] = verdict[t] /\ current'[t] = current[t]
      BY <1>0, <1>1, <2>1 DEF Holds, TypeOK
    <2>3. current[t] # current[s]
      BY <1>0, <2>1, <2>2 DEF SyncInv, SoleHolder
    <2>4. ledger'[current[t]] = ledger[current[t]]
      BY <1>0, <1>1, <2>3 DEF TypeOK
    <2> QED BY <1>0, <2>2, <2>4 DEF SyncInv, HolderOwnsClaim
  <1>6. SoleHolder'
    BY <1>0, <1>1 DEF SyncInv, SoleHolder, Holds, TypeOK
  <1>7. RepliesRepeatLedger'
    BY <1>0, <1>1, <1>2 DEF SyncInv, RepliesRepeatLedger, TypeOK, Terminal
  <1>8. RowsRepeatLedger'
    BY <1>0, <1>1, <1>2 DEF SyncInv, RowsRepeatLedger, TypeOK
  <1> QED BY <1>4, <1>5, <1>6, <1>7, <1>8 DEF SyncInv

LEMMA RequestInv ==
    ASSUME IInv, NEW s \in Syncs, RequestStep(s)
    PROVE  SyncInv'
  <1>0. TypeOK /\ SyncInv
    BY DEF IInv, SyncInv
  <1>1. CASE Refuse(s)
    BY <1>1, FailInv DEF Refuse
  <1>2. CASE Accept(s)
    BY <1>0, <1>2 DEF Accept, SyncInv, LedgerTellsEffects, HolderOwnsClaim, Holds,
           SoleHolder, RepliesRepeatLedger, RowsRepeatLedger, TypeOK
  <1>3. CASE Respond(s)
    BY <1>0, <1>3 DEF Respond, SyncInv, LedgerTellsEffects, HolderOwnsClaim, Holds,
           SoleHolder, RepliesRepeatLedger, RowsRepeatLedger, TypeOK, Unanswered
  <1>4. CASE RequestDies(s)
    BY <1>4, FailInv DEF RequestDies
  <1>5. CASE Throw(s)
    BY <1>5, FailInv DEF Throw
  <1> QED
    BY <1>1, <1>2, <1>3, <1>4, <1>5, CommitInv, DeclineInv, RecordInv, ClaimInv, RepeatInv
    DEF RequestStep

LEMMA InitInv == Init => IInv
  BY BoundsAreNaturals
  DEF Init, IInv, TypeOK, LedgerTellsEffects, HolderOwnsClaim, Holds, SoleHolder,
      RepliesRepeatLedger, RowsRepeatLedger, Unanswered

LEMMA StepInv == IInv /\ [Next]_vars => IInv'
  <1> SUFFICES ASSUME IInv, [Next]_vars
               PROVE  IInv'
    OBVIOUS
  <1>0. TypeOK /\ SyncInv /\ CurrentOK
    BY DEF IInv, SyncInv, CurrentOK, HolderOwnsClaim
  <1>1. ASSUME NEW op \in Ops, FormStep(op)
        PROVE  IInv'
    BY <1>0, <1>1, FormTypes, FormInv DEF IInv, SyncInv
  <1>2. ASSUME NEW s \in Syncs, PageStep(s)
        PROVE  IInv'
    BY <1>0, <1>2, PageTypes, PageInv DEF IInv, SyncInv
  <1>3. ASSUME NEW s \in Syncs, RequestStep(s)
        PROVE  IInv'
    BY <1>0, <1>3, RequestTypes, RequestInv DEF IInv, SyncInv
  <1>4. CASE RevokeToken \/ ClearScope \/ LogIn
    BY <1>0, <1>4, SessionTypes, SessionInv DEF IInv, SyncInv
  <1>5. CASE UNCHANGED vars
    <2>1. SyncInv'
      BY <1>0, <1>5, InvFrame DEF vars
    <2>2. TypeOK'
      BY <1>0, <1>5 DEF vars, TypeOK
    <2> QED BY <2>1, <2>2 DEF IInv, SyncInv
  <1> QED BY <1>1, <1>2, <1>3, <1>4, <1>5 DEF Next

\* IInv is an invariant of every OfflineSync, with any number of tabs and faults.
THEOREM Invariance == Spec => []IInv
  BY InitInv, StepInv, PTL DEF Spec

-----------------------------------------------------------------------------
(* What follows from it                                                    *)

\* Every variable keeps its type.
THEOREM TypeCorrect == Spec => []TypeOK
  <1>1. IInv => TypeOK
    BY DEF IInv
  <1> QED BY <1>1, Invariance, PTL

\* Reconciling an operation writes at most one record, whatever is retried,
\* concurrent or dead (OfflineSyncService::reconcileOperation).
THEOREM WrittenAtMostOnce == Spec => []AtMostOnce
  <1>1. IInv => AtMostOnce
    BY DEF IInv, LedgerTellsEffects, AtMostOnce
  <1> QED BY <1>1, Invariance, PTL

\* A row kept as rejected or in conflict stands for a stored refusal and no
\* record (syncOfflineQueue and OfflineSyncService::storedOutcome).
THEOREM RefusalsAreTrue == Spec => []RefusalsAreReal
  <1>1. IInv => RefusalsAreReal
    BY DEF IInv, LedgerTellsEffects, RowsRepeatLedger, RefusalsAreReal
  <1> QED BY <1>1, Invariance, PTL

\* Only the four request steps below touch the server's tables; every other step
\* leaves the ledger and the records alone.
LEMMA OthersKeepTables ==
    ASSUME [Next]_vars,
           \A s \in Syncs : ~Commit(s) /\ ~Record(s),
           \A s \in Syncs, op \in Ops : ~Claim(s, op)
    PROVE  UNCHANGED <<ledger, effects>>
  <1>1. CASE UNCHANGED vars
    BY <1>1 DEF vars
  <1>2. ASSUME NEW op \in Ops, FormStep(op)
        PROVE  UNCHANGED <<ledger, effects>>
    BY <1>2 DEF FormStep, SaveOnline, QueueOffline, QueueAfterFailure, BeginEnqueue,
                PutRow, Expire
  <1>3. ASSUME NEW s \in Syncs, PageStep(s)
        PROVE  UNCHANGED <<ledger, effects>>
    BY <1>3 DEF PageStep, StartSync, FinishSync, ClientStops, HandleReply
  <1>4. ASSUME NEW s \in Syncs, RequestStep(s)
        PROVE  UNCHANGED <<ledger, effects>>
    BY <1>4 DEF RequestStep, Refuse, RequestFails, Accept, Decline, Respond,
                RequestDies, Throw, Repeat
  <1>5. CASE RevokeToken \/ ClearScope \/ LogIn
    BY <1>5 DEF RevokeToken, ClearScope, LogIn
  <1> QED BY <1>1, <1>2, <1>3, <1>4, <1>5 DEF Next

\* A stored outcome never changes: no retry, no second request and no late write
\* overwrites it.
THEOREM VerdictsAreFinal == Spec => VerdictIsFinal
  <1>1. ASSUME IInv, [Next]_vars
        PROVE  \A op \in Ops : ledger[op] \in Terminal => ledger'[op] = ledger[op]
    <2> SUFFICES ASSUME NEW op \in Ops, ledger[op] \in Terminal
                 PROVE  ledger'[op] = ledger[op]
      OBVIOUS
    <2>0. ledger[op] # "none" /\ ledger[op] # "processing"
      BY DEF Terminal
    <2>1. ASSUME NEW s \in Syncs, Commit(s)
          PROVE  ledger'[op] = ledger[op]
      BY <2>1 DEF Commit
    <2>2. ASSUME NEW s \in Syncs, Record(s)
          PROVE  ledger'[op] = ledger[op]
      <3>1. ledger[current[s]] = "processing"
        BY <1>1, <2>2 DEF Record, IInv, HolderOwnsClaim, Holds
      <3> QED BY <1>1, <2>0, <2>2, <3>1 DEF Record, IInv, TypeOK
    <2>3. ASSUME NEW s \in Syncs, NEW other \in Ops, Claim(s, other)
          PROVE  ledger'[op] = ledger[op]
      BY <1>1, <2>0, <2>3 DEF Claim, IInv, TypeOK
    <2> QED BY <1>1, <2>1, <2>2, <2>3, OthersKeepTables
  <1>2. IInv /\ [Next]_vars =>
          [\A op \in Ops : ledger[op] \in Terminal => ledger'[op] = ledger[op]]_vars
    BY <1>1
  <1> QED BY <1>2, Invariance, PTL DEF Spec, VerdictIsFinal

\* A row is gone from the outbox only if its record was committed, or if the user
\* signed out (syncOfflineQueue removes on applied and duplicate alone).
THEOREM NothingIsLost == Spec => NoLostOperation
  <1>1. ASSUME IInv, [Next]_vars
        PROVE  \A op \in Ops : outbox[op] # "absent" /\ outbox'[op] = "absent" =>
                   effects[op] = 1 \/ session = "revoked"
    <2> SUFFICES ASSUME NEW op \in Ops, outbox[op] # "absent", outbox'[op] = "absent"
                 PROVE  effects[op] = 1 \/ session = "revoked"
      OBVIOUS
    <2>0. outbox \in [Ops -> {"absent", "expired", "queued", "rejected", "conflict",
                             "processing"}]
      BY <1>1 DEF IInv, TypeOK
    <2>1. CASE UNCHANGED outbox
      BY <2>1
    <2>2. ASSUME NEW o \in Ops, PutRow(o) \/ Expire(o)
          PROVE  FALSE
      BY <2>0, <2>2 DEF PutRow, Expire
    <2>3. ASSUME NEW s \in Syncs, NEW o \in Ops, HandleReply(s, o)
          PROVE  effects[op] = 1
      <3>1. o = op /\ outbox'[op] = RowAfter(op, replies[s][op])
        BY <2>0, <2>3 DEF HandleReply
      <3>2. replies[s][op] \in Outcomes
        BY <1>1, <2>3, <3>1 DEF HandleReply, Earliest, IInv, TypeOK
      <3>3. replies[s][op] \in {"applied", "duplicate"}
        BY <3>1, <3>2 DEF RowAfter, Outcomes
      <3> QED BY <1>1, <3>3 DEF IInv, RepliesRepeatLedger, LedgerTellsEffects
    <2>4. CASE ClearScope
      BY <2>4 DEF ClearScope
    <2>5. CASE UNCHANGED vars
      BY <2>1, <2>5 DEF vars
    <2>6. ASSUME NEW o \in Ops, FormStep(o)
          PROVE  UNCHANGED outbox \/ PutRow(o) \/ Expire(o)
      BY <2>6 DEF FormStep, SaveOnline, QueueOffline, QueueAfterFailure, BeginEnqueue
    <2>7. ASSUME NEW s \in Syncs, PageStep(s)
          PROVE  UNCHANGED outbox \/ \E o \in Ops : HandleReply(s, o)
      BY <2>7 DEF PageStep, StartSync, FinishSync, ClientStops
    <2>8. ASSUME NEW s \in Syncs, RequestStep(s)
          PROVE  UNCHANGED outbox
      BY <2>8 DEF RequestStep, Refuse, RequestFails, Accept, Commit, Decline, Record,
                  Respond, RequestDies, Throw, Claim, Repeat
    <2>9. CASE RevokeToken \/ LogIn
      BY <2>1, <2>9 DEF RevokeToken, LogIn
    <2> QED
      BY <1>1, <2>1, <2>2, <2>3, <2>4, <2>5, <2>6, <2>7, <2>8, <2>9 DEF Next
  <1>2. IInv /\ [Next]_vars =>
          [\A op \in Ops : outbox[op] # "absent" /\ outbox'[op] = "absent" =>
               effects[op] = 1 \/ session = "revoked"]_vars
    BY <1>1
  <1> QED BY <1>2, Invariance, PTL DEF Spec, NoLostOperation

\* A ledger row stands at "processing" with no request working on it only after a
\* fault or an exception nobody catches: the claim and the outcome are two writes with nothing to join them.
THEOREM OrphansNeedFaults == Spec => []OrphanNeedsFault
  <1>1. Init => OrphanNeedsFault
    BY DEF Init, OrphanNeedsFault
  <1>2. ASSUME IInv, OrphanNeedsFault, [Next]_vars
        PROVE  OrphanNeedsFault'
    <2> SUFFICES ASSUME NEW op \in Ops \ Uncaught, ledger'[op] = "processing"
                 PROVE  faults' > 0 \/ \E t \in Syncs : current'[t] = op /\ Holds(t)'
      BY DEF OrphanNeedsFault, Holds
    <2>0. TypeOK /\ HolderOwnsClaim
      BY <1>2 DEF IInv
    <2>a. CASE faults' > 0
      BY <2>a
    <2>b. CASE ~(faults' > 0)
      <3>0. faults = 0 /\ faults' = 0 /\ UNCHANGED faults
        <4>1. faults \in Nat /\ (faults' = faults \/ faults' = faults + 1)
          BY <1>2, <2>0 DEF TypeOK, vars, Next, FormStep, PageStep, RequestStep, SaveOnline,
             QueueOffline, QueueAfterFailure, BeginEnqueue, PutRow, Expire, StartSync,
             FinishSync, ClientStops, HandleReply, Refuse, RequestFails, Accept, Commit,
             Decline, Throw, Record, Respond, RequestDies, Claim, Repeat, RevokeToken,
             ClearScope, LogIn
        <4> QED BY <2>b, <4>1
      <3>1. ASSUME ledger[op] = "processing"
            PROVE  \E t \in Syncs : current[t] = op /\ Holds(t)
        BY <1>2, <3>0, <3>1 DEF OrphanNeedsFault, Holds
      <3>2. ASSUME NEW s \in Syncs, NEW o \in Ops, Claim(s, o)
            PROVE  \E t \in Syncs : current'[t] = op /\ Holds(t)'
        <4>1. CASE o = op
          BY <2>0, <3>2, <4>1 DEF Claim, Holds, TypeOK
        <4>2. CASE o # op
          <5>1. PICK t \in Syncs : current[t] = op /\ Holds(t)
            BY <2>0, <3>1, <3>2, <4>2 DEF Claim, TypeOK
          <5>2. t # s
            BY <3>2, <5>1 DEF Claim, Holds
          <5> QED BY <2>0, <3>2, <5>1, <5>2 DEF Claim, Holds, TypeOK
        <4> QED BY <4>1, <4>2
      <3>3. ASSUME NEW s \in Syncs, Commit(s) \/ Decline(s)
            PROVE  \E t \in Syncs : current'[t] = op /\ Holds(t)'
        <4>1. UNCHANGED <<ledger, current>> /\ stage' = [stage EXCEPT ![s] = "record"]
          BY <3>3 DEF Commit, Decline
        <4>2. PICK t \in Syncs : current[t] = op /\ Holds(t)
          BY <3>1, <4>1
        <4> QED BY <2>0, <4>1, <4>2 DEF Holds, TypeOK
      <3>4. ASSUME NEW s \in Syncs, Record(s)
            PROVE  \E t \in Syncs : current'[t] = op /\ Holds(t)'
        <4>1. current[s] \in Ops /\ verdict[s] \in Terminal
          BY <2>0, <3>4 DEF Record, HolderOwnsClaim, Holds
        <4>2. op # current[s]
          BY <2>0, <3>4, <4>1 DEF Record, Terminal, TypeOK
        <4>3. ledger[op] = "processing"
          BY <2>0, <3>4, <4>2 DEF Record, TypeOK
        <4>4. PICK t \in Syncs : current[t] = op /\ Holds(t)
          BY <3>1, <4>3
        <4> QED BY <2>0, <3>4, <4>2, <4>4 DEF Record, Holds, TypeOK
      <3>5. ASSUME NEW s \in Syncs,
                   Refuse(s) \/ Accept(s) \/ Respond(s) \/ StartSync(s)
            PROVE  \E t \in Syncs : current'[t] = op /\ Holds(t)'
        <4>1. UNCHANGED ledger /\ ~Holds(s)
          BY <3>5 DEF Refuse, RequestFails, Accept, Respond, StartSync, Holds
        <4>2. PICK t \in Syncs : current[t] = op /\ Holds(t)
          BY <3>1, <4>1
        <4>3. current'[t] = current[t] /\ stage'[t] = stage[t]
          BY <2>0, <3>5, <4>1, <4>2
          DEF Refuse, RequestFails, Accept, Respond, StartSync, TypeOK
        <4> QED BY <4>2, <4>3 DEF Holds
      <3>6. CASE UNCHANGED <<ledger, current, stage>>
        BY <3>1, <3>6 DEF Holds
      <3>7. ASSUME NEW o \in Ops, FormStep(o)
            PROVE  UNCHANGED <<ledger, current, stage>>
        BY <3>7 DEF FormStep, SaveOnline, QueueOffline, QueueAfterFailure, BeginEnqueue,
           PutRow, Expire
      <3>8. ASSUME NEW s \in Syncs, PageStep(s)
            PROVE  StartSync(s) \/ UNCHANGED <<ledger, current, stage>>
        BY <3>8 DEF PageStep, FinishSync, ClientStops, HandleReply
      <3>9. ASSUME NEW s \in Syncs, NEW o \in Ops, Repeat(s, o)
            PROVE  UNCHANGED <<ledger, current, stage>>
        BY <3>9 DEF Repeat
      <3>10. ASSUME NEW s \in Syncs, RequestDies(s)
             PROVE  FALSE
        BY <3>0, <3>10 DEF RequestDies
      <3>13. ASSUME NEW s \in Syncs, Throw(s)
             PROVE  \E t \in Syncs : current'[t] = op /\ Holds(t)'
        <4>1. UNCHANGED ledger /\ current[s] # op
          BY <3>13 DEF Throw, RequestFails
        <4>2. PICK t \in Syncs : current[t] = op /\ Holds(t)
          BY <3>1, <4>1
        <4>3. current'[t] = current[t] /\ stage'[t] = stage[t]
          BY <2>0, <3>13, <4>1, <4>2 DEF Throw, RequestFails, TypeOK
        <4> QED BY <4>2, <4>3 DEF Holds
      <3>11. CASE RevokeToken \/ ClearScope \/ LogIn
        BY <3>6, <3>11 DEF RevokeToken, ClearScope, LogIn
      <3>12. CASE UNCHANGED vars
        BY <3>6, <3>12 DEF vars
      <3> QED BY <1>2, <3>2, <3>3, <3>4, <3>5, <3>6, <3>7, <3>8, <3>9, <3>10, <3>11, <3>12,
                 <3>13
              DEF Next, RequestStep
    <2> QED BY <2>a, <2>b
  <1> QED BY <1>1, <1>2, Invariance, PTL DEF Spec

-----------------------------------------------------------------------------
(* Refinement                                                              *)

\* Each step is a step of OfflineContract or changes nothing it can see: Commit
\* writes, Record decides, HandleReply shows or hides, sign-out and expiry hide.
LEMMA ContractStep ==
    ASSUME IInv, [Next]_vars
    PROVE  [Contract!Next]_(Contract!contractVars)
  <1> DEFINE Decided == [op \in Ops |-> IF ledger[op] \in Terminal THEN ledger[op] ELSE "open"]
             Shown == [op \in Ops |-> IF outbox[op] \in {"rejected", "conflict"}
                                      THEN outbox[op] ELSE "none"]
  <1>0. /\ TypeOK /\ LedgerTellsEffects /\ HolderOwnsClaim
        /\ RepliesRepeatLedger /\ RowsRepeatLedger
    BY DEF IInv
  <1>1. CASE UNCHANGED <<effects, ledger, outbox>>
    BY <1>1 DEF Contract!contractVars
  <1>2. ASSUME NEW s \in Syncs, Commit(s)
        PROVE  Contract!Write(current[s]) /\ current[s] \in Ops
    <2>1. current[s] \in Ops /\ ledger[current[s]] = "processing" /\ effects[current[s]] = 0
      BY <1>0, <1>2 DEF Commit, HolderOwnsClaim, Holds
    <2>2. effects' = [effects EXCEPT ![current[s]] = 1]
      BY <1>0, <1>2, <2>1 DEF Commit, TypeOK
    <2> QED BY <1>2, <2>1, <2>2 DEF Commit, Contract!Write, Terminal
  <1>3. ASSUME NEW s \in Syncs, Record(s)
        PROVE  \E op \in Ops, word \in {"applied"} \cup Contract!Refused :
                   Contract!Decide(op, word)
    <2>1. /\ current[s] \in Ops /\ ledger[current[s]] = "processing"
          /\ verdict[s] \in Terminal
          /\ (verdict[s] = "applied") <=> (effects[current[s]] = 1)
      BY <1>0, <1>3 DEF Record, HolderOwnsClaim, Holds
    <2>2. ledger' = [ledger EXCEPT ![current[s]] = verdict[s]] /\ UNCHANGED <<effects, outbox>>
      BY <1>3 DEF Record
    <2>3. Decided' = [Decided EXCEPT ![current[s]] = verdict[s]]
      BY <1>0, <2>1, <2>2 DEF TypeOK
    <2>4. Decided[current[s]] = "open"
      BY <2>1 DEF Terminal
    <2>5. PICK op \in Ops, word \in {"applied"} \cup Contract!Refused :
              op = current[s] /\ word = verdict[s]
      BY <2>1 DEF Terminal, Contract!Refused
    <2>6. Contract!Decide(op, word)
      BY <2>1, <2>2, <2>3, <2>4, <2>5 DEF Contract!Decide
    <2> QED BY <2>6
  <1>4. ASSUME NEW s \in Syncs, NEW op \in Ops, Claim(s, op)
        PROVE  UNCHANGED Contract!contractVars
    <2>1. Decided' = Decided
      BY <1>0, <1>4 DEF Claim, TypeOK, Terminal
    <2> QED BY <1>4, <2>1 DEF Claim, Contract!contractVars
  <1>5. ASSUME NEW op \in Ops, UNCHANGED <<effects, ledger>>,
               NEW status \in {"absent", "expired", "queued", "processing"},
               outbox' = [outbox EXCEPT ![op] = status]
        PROVE  Contract!Hide({op})
    <2>1. Shown' = [o \in Ops |-> IF o \in {op} THEN "none" ELSE Shown[o]]
      BY <1>0, <1>5 DEF TypeOK
    <2> QED BY <1>5, <2>1 DEF Contract!Hide
  <1>6. ASSUME NEW s \in Syncs, NEW op \in Ops, HandleReply(s, op)
        PROVE  Contract!Show(op) \/ Contract!Hide({op})
    <2>1. /\ outbox' = [outbox EXCEPT ![op] = RowAfter(op, replies[s][op])]
          /\ UNCHANGED <<effects, ledger>>
      BY <1>6 DEF HandleReply
    <2>2. replies[s][op] \in Outcomes
      BY <1>0, <1>6 DEF HandleReply, Earliest, TypeOK
    <2>3. CASE RowAfter(op, replies[s][op]) \in {"rejected", "conflict"}
      <3>1. RowAfter(op, replies[s][op]) = replies[s][op]
        BY <2>3 DEF RowAfter
      <3>2. ledger[op] = replies[s][op] /\ ledger[op] \in {"rejected", "conflict"}
        BY <1>0, <2>3, <3>1 DEF RepliesRepeatLedger
      <3>3. Decided[op] = ledger[op]
        BY <3>2 DEF Terminal
      <3>a. outbox' = [outbox EXCEPT ![op] = ledger[op]]
        BY <2>1, <3>1, <3>2
      <3>b. Shown' = [Shown EXCEPT ![op] = ledger[op]]
        BY <1>0, <3>2, <3>a DEF TypeOK
      <3>4. Contract!Show(op)
        BY <2>1, <3>2, <3>3, <3>b DEF Contract!Show, Contract!Refused
      <3> QED BY <3>4
    <2>4. CASE RowAfter(op, replies[s][op]) \notin {"rejected", "conflict"}
      <3>1. RowAfter(op, replies[s][op]) \in {"absent", "expired", "queued", "processing"}
        BY <2>2, <2>4 DEF RowAfter, Outcomes
      <3> QED BY <1>5, <2>1, <3>1
    <2> QED BY <2>3, <2>4
  <1>7. ASSUME ClearScope
        PROVE  Contract!Hide(Ops)
    BY <1>7 DEF ClearScope, Contract!Hide
  <1>8. ASSUME NEW op \in Ops, FormStep(op)
        PROVE  UNCHANGED <<effects, ledger, outbox>> \/ Contract!Hide({op})
    <2>1. CASE PutRow(op)
      BY <1>5, <2>1 DEF PutRow
    <2>2. CASE Expire(op)
      BY <1>5, <2>2 DEF Expire
    <2> QED BY <1>8, <2>1, <2>2
            DEF FormStep, SaveOnline, QueueOffline, QueueAfterFailure, BeginEnqueue
  <1>9. ASSUME NEW s \in Syncs, PageStep(s)
        PROVE  UNCHANGED <<effects, ledger, outbox>> \/ \E op \in Ops : HandleReply(s, op)
    BY <1>9 DEF PageStep, StartSync, FinishSync, ClientStops
  <1>10. ASSUME NEW s \in Syncs, RequestStep(s)
         PROVE  \/ UNCHANGED <<effects, ledger, outbox>> \/ Commit(s) \/ Record(s)
                \/ \E op \in Ops : Claim(s, op)
    BY <1>10 DEF RequestStep, Refuse, RequestFails, Accept, Decline, Throw, Respond,
       RequestDies, Repeat
  <1>11. CASE RevokeToken \/ LogIn
    BY <1>1, <1>11 DEF RevokeToken, LogIn
  <1>12. CASE UNCHANGED vars
    BY <1>1, <1>12 DEF vars
  <1>13. \A op \in Ops : Contract!Show(op) \/ Contract!Hide({op}) => Contract!Next
    BY DEF Contract!Next
  <1>14. Contract!Hide(Ops) => Contract!Next
    BY DEF Contract!Next
  <1>15. ASSUME NEW s \in Syncs, Commit(s) \/ Record(s)
         PROVE  Contract!Next
    <2>1. CASE Commit(s)
      BY <1>2, <2>1 DEF Contract!Next
    <2>2. CASE Record(s)
      BY <1>3, <2>2 DEF Contract!Next
    <2> QED BY <1>15, <2>1, <2>2
  <1> QED
    BY <1>1, <1>4, <1>6, <1>7, <1>8, <1>9, <1>10, <1>11, <1>12, <1>13, <1>14, <1>15 DEF Next

\* The whole protocol, over all its faults, implements docs/offline-sync.md's
\* contract as OfflineContract states it.
THEOREM ContractKept == Spec => KeepsContract
  <1>1. Init => Contract!Init
    BY DEF Init, Contract!Init, Terminal
  <1>2. IInv /\ [Next]_vars => [Contract!Next]_(Contract!contractVars)
    BY ContractStep
  <1> QED BY <1>1, <1>2, Invariance, PTL DEF Spec, KeepsContract, Contract!Spec

-----------------------------------------------------------------------------
(* The order of the records                                                *)

\* An operation that a sync run may yet put into its request.
Waiting(op) ==
    /\ ledger[op] = "none"
    /\ form[op] = "writing" \/ outbox[op] = "queued"

\* One that a request has and that is not decided yet.
InHand(op) ==
    \E s \in Syncs : /\ op \in todo[s]
                     /\ ledger[op] = "none" \/ (stage[s] = "apply" /\ current[s] = op)

MayBeWritten(op) == Waiting(op) \/ InHand(op)

\* A form that is writing has the latest stamp, unless another began meanwhile.
StampsGrow ==
    /\ \A op \in Ops : createdAt[op] <= clock
    /\ \A op \in Writers \ late : createdAt[op] = clock

\* What was queued or sent got its stamp before.
SentWasEntered ==
    \A op \in Ops :
        ledger[op] # "none" \/ outbox[op] = "queued" \/ (\E s \in Syncs : op \in todo[s])
            => form[op] = "done"

\* A request works on the oldest of its operations, and none is younger than one
\* that is still to be sent.
SentInOrder ==
    \A s \in Syncs :
        /\ stage[s] = "idle" => todo[s] = {}
        /\ Holds(s) => current[s] \in Earliest(todo[s])
        /\ \A op \in todo[s], other \in Ops \ todo[s] :
             Waiting(other) /\ other \notin late => createdAt[op] <= createdAt[other]

\* None that was written is younger than one that may be, late ones apart.
WrittenFirst ==
    \A op, other \in Ops :
        effects[op] = 1 /\ MayBeWritten(other) /\ other \notin late
            => createdAt[op] <= createdAt[other]

OrderInv == StampsGrow /\ SentWasEntered /\ SentInOrder /\ WrittenFirst

\* A step that stamps nothing, takes an operation to write only from what a
\* request leaves, and writes nothing.
LEMMA OrderFrame ==
    ASSUME OrderInv, UNCHANGED <<clock, createdAt, effects, late>>, SentWasEntered',
           Writers' \subseteq Writers,
           \A op \in Ops : MayBeWritten(op)' => MayBeWritten(op),
           \A s \in Syncs :
               /\ stage'[s] = "idle" => todo'[s] = {}
               /\ Holds(s)' => current'[s] \in Earliest(todo'[s])
               /\ \A op \in todo'[s], other \in Ops \ todo'[s] :
                    Waiting(other)' /\ other \notin late => createdAt[op] <= createdAt[other]
    PROVE  OrderInv'
<1>1. StampsGrow'
  BY DEF OrderInv, StampsGrow
<1>2. SentInOrder'
  BY DEF SentInOrder, Earliest
<1>3. WrittenFirst'
  BY DEF OrderInv, WrittenFirst
<1> QED BY <1>1, <1>2, <1>3 DEF OrderInv

\* The same where requests go on as they were.
LEMMA OrderKept ==
    ASSUME OrderInv,
           UNCHANGED <<clock, createdAt, effects, late, ledger, stage, todo, current>>,
           SentWasEntered', Writers' \subseteq Writers,
           \A op \in Ops : Waiting(op)' => Waiting(op)
    PROVE  OrderInv'
<1>1. \A op \in Ops : MayBeWritten(op)' => MayBeWritten(op)
  BY DEF MayBeWritten, InHand
<1>2. \A s \in Syncs :
          /\ stage'[s] = "idle" => todo'[s] = {}
          /\ Holds(s)' => current'[s] \in Earliest(todo'[s])
          /\ \A op \in todo'[s], other \in Ops \ todo'[s] :
               Waiting(other)' /\ other \notin late => createdAt[op] <= createdAt[other]
  BY DEF OrderInv, SentInOrder, Holds, Earliest
<1> QED BY <1>1, <1>2, OrderFrame

\* A form takes the latest stamp; those that write at the time become late.
LEMMA FormInOrder ==
    ASSUME IInv, OrderInv, NEW op \in Ops, FormStep(op)
    PROVE  OrderInv'
<1>0. TypeOK /\ LedgerTellsEffects /\ clock \in Nat
  BY DEF IInv, TypeOK
<1>1. CASE SaveOnline(op)
  <2>1. /\ UNCHANGED <<clock, createdAt, effects, outbox, ledger, stage, todo, current, late>>
        /\ form[op] = "blank" /\ form' = [form EXCEPT ![op] = "done"]
    BY <1>1 DEF SaveOnline
  <2>2. Writers' \subseteq Writers /\ \A o \in Ops : Waiting(o)' => Waiting(o)
    BY <1>0, <2>1 DEF Writers, Waiting, TypeOK
  <2>3. SentWasEntered'
    BY <1>0, <2>1 DEF OrderInv, SentWasEntered, TypeOK
  <2> QED BY <2>1, <2>2, <2>3, OrderKept
<1>2. CASE QueueOffline(op) \/ QueueAfterFailure(op)
  <2>1. BeginEnqueue(op)
    BY <1>2 DEF QueueOffline, QueueAfterFailure
  <2>2. PICK stamp \in {clock, clock + 1} :
           clock' = stamp /\ createdAt' = [createdAt EXCEPT ![op] = stamp]
    BY <2>1 DEF BeginEnqueue
  <2>3. /\ UNCHANGED <<effects, outbox, ledger, stage, todo, current>>
        /\ form[op] = "blank" /\ form' = [form EXCEPT ![op] = "writing"]
        /\ late' = late \cup Writers
    BY <2>1 DEF BeginEnqueue
  <2>4. stamp \in Nat /\ stamp >= clock
    BY <1>0, <2>2
  <2>5. Writers' \ late' \subseteq {op}
    BY <1>0, <2>3 DEF Writers, TypeOK
  <2>6. /\ ledger[op] = "none" /\ outbox[op] # "queued" /\ \A s \in Syncs : op \notin todo[s]
        /\ effects[op] # 1
    BY <1>0, <2>3 DEF OrderInv, SentWasEntered, LedgerTellsEffects
  <2>7. \A o \in Ops \ {op} : /\ Waiting(o)' <=> Waiting(o)
                              /\ MayBeWritten(o)' <=> MayBeWritten(o)
    BY <1>0, <2>3 DEF MayBeWritten, Waiting, InHand, TypeOK
  <2>8. /\ \A o \in Ops : createdAt[o] \in Nat /\ createdAt[o] <= clock
        /\ \A o \in Ops \ {op} : createdAt'[o] = createdAt[o]
        /\ createdAt'[op] = stamp
    BY <1>0, <2>2 DEF OrderInv, StampsGrow, TypeOK
  <2>9. \A o \in Ops : createdAt[o] <= stamp
    BY <1>0, <2>4, <2>8
  <2>10. StampsGrow'
    BY <2>2, <2>4, <2>5, <2>8, <2>9 DEF StampsGrow
  <2>11. SentWasEntered'
    BY <1>0, <2>3, <2>6 DEF OrderInv, SentWasEntered, TypeOK
  <2>12. SentInOrder'
    <3> SUFFICES ASSUME NEW s \in Syncs
                 PROVE  /\ stage'[s] = "idle" => todo'[s] = {}
                        /\ (Holds(s) => current[s] \in Earliest(todo[s]))'
                        /\ \A o \in todo'[s], other \in Ops \ todo'[s] :
                             Waiting(other)' /\ other \notin late'
                               => createdAt'[o] <= createdAt'[other]
      BY DEF SentInOrder
    <3>1. todo'[s] = todo[s] /\ todo[s] \subseteq Ops \ {op}
      BY <1>0, <2>3, <2>6 DEF TypeOK
    <3>2. (Holds(s) => current[s] \in Earliest(todo[s]))'
      BY <2>3, <2>8, <3>1 DEF OrderInv, SentInOrder, Holds, Earliest
    <3>3. ASSUME NEW o \in todo'[s], NEW other \in Ops \ todo'[s], Waiting(other)',
                 other \notin late'
          PROVE  createdAt'[o] <= createdAt'[other]
      <4>1. CASE other = op
        BY <2>8, <2>9, <3>1, <4>1
      <4>2. CASE other # op
        BY <2>3, <2>7, <2>8, <3>1, <3>3, <4>2 DEF OrderInv, SentInOrder
      <4> QED BY <4>1, <4>2
    <3> QED BY <2>3, <3>1, <3>2, <3>3 DEF OrderInv, SentInOrder
  <2>13. WrittenFirst'
    <3> SUFFICES ASSUME NEW o \in Ops, NEW other \in Ops, effects'[o] = 1,
                        MayBeWritten(other)', other \notin late'
                 PROVE  createdAt'[o] <= createdAt'[other]
      BY DEF WrittenFirst
    <3>1. o # op /\ effects[o] = 1
      BY <2>3, <2>6
    <3>2. CASE other = op
      BY <2>8, <2>9, <3>1, <3>2
    <3>3. CASE other # op
      BY <2>3, <2>7, <2>8, <3>1, <3>3 DEF OrderInv, WrittenFirst
    <3> QED BY <3>2, <3>3
  <2> QED BY <2>10, <2>11, <2>12, <2>13 DEF OrderInv
<1>3. CASE PutRow(op)
  <2>1. /\ UNCHANGED <<clock, createdAt, effects, ledger, stage, todo, current, late>>
        /\ form[op] = "writing" /\ form' = [form EXCEPT ![op] = "done"]
        /\ outbox' = [outbox EXCEPT ![op] = "queued"]
    BY <1>3 DEF PutRow
  <2>2. Writers' \subseteq Writers /\ \A o \in Ops : Waiting(o)' => Waiting(o)
    BY <1>0, <2>1 DEF Writers, Waiting, TypeOK
  <2>3. SentWasEntered'
    BY <1>0, <2>1 DEF OrderInv, SentWasEntered, TypeOK
  <2> QED BY <2>1, <2>2, <2>3, OrderKept
<1>4. CASE Expire(op)
  <2>1. /\ UNCHANGED <<clock, createdAt, effects, ledger, form, stage, todo, current, late>>
        /\ outbox' = [outbox EXCEPT ![op] = "expired"]
    BY <1>4 DEF Expire, pageVars
  <2>2. Writers' \subseteq Writers /\ \A o \in Ops : Waiting(o)' => Waiting(o)
    BY <1>0, <2>1 DEF Writers, Waiting, TypeOK
  <2>3. SentWasEntered'
    BY <1>0, <2>1 DEF OrderInv, SentWasEntered, TypeOK
  <2> QED BY <2>1, <2>2, <2>3, OrderKept
<1> QED BY <1>1, <1>2, <1>3, <1>4 DEF FormStep

\* Expiry, replies and sign-out queue nothing anew.
LEMMA HiddenInOrder ==
    ASSUME OrderInv,
           UNCHANGED <<clock, createdAt, effects, ledger, form, stage, todo, current, late>>,
           \A o \in Ops : outbox'[o] = "queued" => outbox[o] = "queued"
    PROVE  OrderInv'
<1>1. Writers' \subseteq Writers /\ \A o \in Ops : Waiting(o)' => Waiting(o)
  BY DEF Writers, Waiting
<1>2. SentWasEntered'
  BY DEF OrderInv, SentWasEntered
<1> QED BY <1>1, <1>2, OrderKept

\* A run sends every queued row, so that what it leaves out is younger or late.
LEMMA PageInOrder ==
    ASSUME IInv, OrderInv, NEW s \in Syncs, PageStep(s)
    PROVE  OrderInv'
<1>0. TypeOK
  BY DEF IInv
<1>1. CASE StartSync(s)
  <2>1. /\ UNCHANGED <<clock, createdAt, effects, ledger, form, outbox, current, late>>
        /\ stage[s] = "idle" /\ stage' = [stage EXCEPT ![s] = "received"]
        /\ todo' = [todo EXCEPT ![s] = Queued]
    BY <1>1 DEF StartSync, pageVars, serverVars
  <2>2. /\ todo[s] = {} /\ todo'[s] = Queued /\ stage'[s] = "received"
        /\ \A t \in Syncs \ {s} : todo'[t] = todo[t] /\ stage'[t] = stage[t]
    BY <1>0, <2>1 DEF OrderInv, SentInOrder, TypeOK
  <2>3. \A o \in Ops : Waiting(o)' <=> Waiting(o)
    BY <2>1 DEF Waiting
  <2>4. ASSUME NEW o \in Ops, MayBeWritten(o)' PROVE MayBeWritten(o)
    <3>1. CASE Waiting(o)'
      BY <2>3, <3>1 DEF MayBeWritten
    <3>2. CASE InHand(o)'
      <4>1. PICK t \in Syncs : /\ o \in todo'[t]
                               /\ ledger[o] = "none" \/ (stage'[t] = "apply" /\ current[t] = o)
        BY <2>1, <3>2 DEF InHand
      <4>2. CASE t = s
        BY <2>2, <4>1, <4>2 DEF MayBeWritten, Waiting, Queued
      <4>3. CASE t # s
        BY <2>2, <4>1, <4>3 DEF MayBeWritten, InHand
      <4> QED BY <4>2, <4>3
    <3> QED BY <2>4, <3>1, <3>2 DEF MayBeWritten
  <2>5. SentWasEntered'
    BY <2>1, <2>2 DEF OrderInv, SentWasEntered, Queued
  <2>6. ASSUME NEW o \in Queued, NEW other \in Ops \ Queued, Waiting(other), other \notin late
        PROVE  createdAt[o] <= createdAt[other]
    <3>1. other \in Writers \ late
      BY <2>6 DEF Waiting, Queued, Writers
    <3> QED BY <3>1 DEF OrderInv, StampsGrow, Queued
  <2>7. Writers' = Writers
    BY <2>1 DEF Writers
  <2>8. ASSUME NEW t \in Syncs
        PROVE  /\ stage'[t] = "idle" => todo'[t] = {}
               /\ Holds(t)' => current'[t] \in Earliest(todo'[t])
               /\ \A o \in todo'[t], other \in Ops \ todo'[t] :
                    Waiting(other)' /\ other \notin late => createdAt[o] <= createdAt[other]
    <3>1. CASE t = s
      BY <2>2, <2>3, <2>6, <3>1 DEF Holds
    <3>2. CASE t # s
      BY <2>1, <2>2, <2>3, <3>2 DEF OrderInv, SentInOrder, Holds, Earliest
    <3> QED BY <3>1, <3>2
  <2> QED BY <2>1, <2>4, <2>5, <2>7, <2>8, OrderFrame
<1>2. CASE FinishSync(s) \/ ClientStops(s)
  BY <1>2, HiddenInOrder DEF FinishSync, ClientStops
<1>3. ASSUME NEW op \in Ops, HandleReply(s, op) PROVE OrderInv'
  <2>1. replies[s][op] \in Outcomes
    BY <1>0, <1>3 DEF HandleReply, Earliest, TypeOK
  <2>2. RowAfter(op, replies[s][op]) # "queued"
    BY <2>1 DEF RowAfter, Outcomes
  <2> QED BY <1>0, <1>3, <2>2, HiddenInOrder DEF HandleReply, TypeOK
<1> QED BY <1>1, <1>2, <1>3 DEF PageStep

LEMMA SessionInOrder ==
    ASSUME IInv, OrderInv, RevokeToken \/ ClearScope \/ LogIn
    PROVE  OrderInv'
BY HiddenInOrder DEF RevokeToken, ClearScope, LogIn

\* A request takes its oldest operation first, and lets go of an operation only
\* when it is decided, or of all at once.
LEMMA RequestInOrder ==
    ASSUME IInv, OrderInv, NEW s \in Syncs, RequestStep(s), ~Commit(s)
    PROVE  OrderInv'
<1>0. TypeOK /\ HolderOwnsClaim
  BY DEF IInv
<1>1. UNCHANGED <<clock, createdAt, effects, form, outbox, late>>
  BY DEF RequestStep, Refuse, Accept, Decline, Throw, Record, Respond, RequestDies, Claim,
         Repeat, RequestFails
<1>2. Writers' \subseteq Writers
  BY <1>1 DEF Writers
<1> DEFINE Others == \A t \in Syncs \ {s} : /\ stage'[t] = stage[t] /\ todo'[t] = todo[t]
                                            /\ current'[t] = current[t]
\* What the other requests keep of the order, whatever s does.
<1>3. ASSUME Others, \A o \in Ops : Waiting(o)' => Waiting(o),
             \A o \in Ops : InHand(o)' => InHand(o), SentWasEntered',
             stage'[s] = "idle" => todo'[s] = {},
             Holds(s)' => current'[s] \in Earliest(todo'[s]),
             \A o \in todo'[s], other \in Ops \ todo'[s] :
                Waiting(other)' /\ other \notin late => createdAt[o] <= createdAt[other]
      PROVE  OrderInv'
  <2>1. ASSUME NEW t \in Syncs
        PROVE  /\ stage'[t] = "idle" => todo'[t] = {}
               /\ Holds(t)' => current'[t] \in Earliest(todo'[t])
               /\ \A o \in todo'[t], other \in Ops \ todo'[t] :
                    Waiting(other)' /\ other \notin late => createdAt[o] <= createdAt[other]
    <3>1. CASE t = s
      BY <1>3, <3>1
    <3>2. CASE t # s
      <4>1. stage'[t] = stage[t] /\ todo'[t] = todo[t] /\ current'[t] = current[t]
        BY <1>3, <3>2
      <4> QED BY <1>3, <4>1 DEF OrderInv, SentInOrder, Holds, Earliest
    <3> QED BY <3>1, <3>2
  <2>2. \A o \in Ops : MayBeWritten(o)' => MayBeWritten(o)
    BY <1>3 DEF MayBeWritten
  <2> QED BY <1>1, <1>2, <1>3, <2>1, <2>2, OrderFrame
<1>4. CASE Refuse(s) \/ Throw(s) \/ RequestDies(s)
  <2>1. RequestFails(s)
    BY <1>4 DEF Refuse, Throw, RequestDies
  <2>2. stage'[s] = "idle" /\ todo'[s] = {} /\ ledger' = ledger /\ Others
    BY <1>0, <2>1 DEF RequestFails, TypeOK
  <2>3. \A o \in Ops : (Waiting(o)' => Waiting(o)) /\ (InHand(o)' => InHand(o))
    <3>1. \A o \in Ops : Waiting(o)' => Waiting(o)
      BY <1>1, <2>2 DEF Waiting
    <3>2. ASSUME NEW o \in Ops, InHand(o)' PROVE InHand(o)
      <4>1. PICK t \in Syncs : /\ o \in todo'[t]
                               /\ ledger[o] = "none" \/ (stage'[t] = "apply" /\ current'[t] = o)
        BY <2>2, <3>2 DEF InHand
      <4> QED BY <2>2, <4>1 DEF InHand
    <3> QED BY <3>1, <3>2
  <2>4. SentWasEntered'
    BY <1>0, <1>1, <2>2 DEF OrderInv, SentWasEntered
  <2> QED BY <1>3, <2>2, <2>3, <2>4 DEF Holds
<1>5. CASE Accept(s) \/ Decline(s) \/ Respond(s)
  <2>1. /\ UNCHANGED <<ledger, todo, current>> /\ Others
        /\ stage'[s] # "apply" /\ (stage'[s] = "record" => Holds(s))
        /\ stage'[s] = "idle" => todo[s] = {}
    BY <1>0, <1>5 DEF Accept, Decline, Respond, TypeOK, Holds
  <2>2. \A o \in Ops : (Waiting(o)' => Waiting(o)) /\ (InHand(o)' => InHand(o))
    <3>1. \A o \in Ops : Waiting(o)' => Waiting(o)
      BY <1>1, <2>1 DEF Waiting
    <3>2. ASSUME NEW o \in Ops, InHand(o)' PROVE InHand(o)
      <4>1. PICK t \in Syncs : /\ o \in todo[t]
                               /\ ledger[o] = "none" \/ (stage'[t] = "apply" /\ current[t] = o)
        BY <2>1, <3>2 DEF InHand
      <4> QED BY <2>1, <4>1 DEF InHand
    <3> QED BY <3>1, <3>2
  <2>3. SentWasEntered'
    BY <1>1, <2>1 DEF OrderInv, SentWasEntered
  <2>4. Holds(s)' => current'[s] \in Earliest(todo'[s])
    BY <1>1, <2>1 DEF Holds, OrderInv, SentInOrder, Earliest
  <2> QED BY <1>1, <1>3, <2>1, <2>2, <2>3, <2>4 DEF OrderInv, SentInOrder
<1>6. ASSUME NEW op \in Ops, Claim(s, op) PROVE OrderInv'
  <2>1. /\ todo' = todo /\ stage'[s] = "apply" /\ current'[s] = op /\ ledger[op] = "none"
        /\ op \in Earliest(todo[s]) /\ ledger' = [ledger EXCEPT ![op] = "processing"]
        /\ Others
    BY <1>0, <1>6 DEF Claim, TypeOK
  <2>2. \A o \in Ops : Waiting(o)' => Waiting(o)
    BY <1>0, <1>1, <2>1 DEF Waiting, TypeOK
  <2>3. ASSUME NEW o \in Ops, InHand(o)' PROVE InHand(o)
    <3>1. PICK t \in Syncs : /\ o \in todo[t]
                             /\ ledger'[o] = "none" \/ (stage'[t] = "apply" /\ current'[t] = o)
      BY <2>1, <2>3 DEF InHand
    <3>2. CASE o = op
      BY <2>1, <3>2 DEF InHand, Earliest
    <3>3. CASE o # op
      <4>1. ledger'[o] = ledger[o]
        BY <1>0, <2>1, <3>3 DEF TypeOK
      <4> QED BY <2>1, <3>1, <3>3, <4>1 DEF InHand
    <3> QED BY <3>2, <3>3
  <2>4. SentWasEntered'
    BY <1>0, <1>1, <2>1 DEF OrderInv, SentWasEntered, Earliest, TypeOK
  <2> QED BY <1>1, <1>3, <2>1, <2>2, <2>3, <2>4 DEF OrderInv, SentInOrder
<1>7. ASSUME NEW op \in Ops, todo' = [todo EXCEPT ![s] = @ \ {op}], stage'[s] = "next",
             Others, ledger'[op] # "none", \A o \in Ops \ {op} : ledger'[o] = ledger[o],
             ledger'[op] # ledger[op] => ledger[op] # "none"
      PROVE  OrderInv'
  <2>1. /\ todo'[s] = todo[s] \ {op} /\ ~Waiting(op)'
        /\ \A t \in Syncs : todo'[t] \subseteq todo[t]
    BY <1>0, <1>7 DEF Waiting, TypeOK
  <2>2. \A o \in Ops : Waiting(o)' => Waiting(o)
    BY <1>1, <1>7, <2>1 DEF Waiting
  <2>3. ASSUME NEW o \in Ops, InHand(o)' PROVE InHand(o)
    <3>1. PICK t \in Syncs : /\ o \in todo'[t]
                             /\ ledger'[o] = "none" \/ (stage'[t] = "apply" /\ current'[t] = o)
      BY <2>3 DEF InHand
    <3>2. o \in todo[t]
      BY <2>1, <3>1
    <3>3. CASE ledger'[o] = "none"
      BY <1>7, <3>2, <3>3 DEF InHand
    <3>4. CASE stage'[t] = "apply" /\ current'[t] = o
      BY <1>7, <3>2, <3>4 DEF InHand
    <3> QED BY <3>1, <3>3, <3>4
  <2>4. SentWasEntered'
    BY <1>0, <1>1, <1>7, <2>1 DEF OrderInv, SentWasEntered
  <2>5. \A o \in todo'[s], other \in Ops \ todo'[s] :
           Waiting(other)' /\ other \notin late => createdAt[o] <= createdAt[other]
    BY <2>1, <2>2 DEF OrderInv, SentInOrder
  <2> QED BY <1>3, <1>7, <2>2, <2>3, <2>4, <2>5 DEF Holds
<1>8. CASE Record(s)
  <2>1. /\ current[s] \in Ops /\ ledger[current[s]] = "processing" /\ verdict[s] \in Terminal
    BY <1>0, <1>8 DEF Record, HolderOwnsClaim, Holds
  <2>2. /\ todo' = [todo EXCEPT ![s] = @ \ {current[s]}] /\ stage'[s] = "next" /\ Others
        /\ ledger' = [ledger EXCEPT ![current[s]] = verdict[s]]
    BY <1>0, <1>8 DEF Record, TypeOK
  <2>3. /\ ledger'[current[s]] # "none"
        /\ \A o \in Ops \ {current[s]} : ledger'[o] = ledger[o]
    BY <1>0, <2>1, <2>2 DEF TypeOK, Terminal
  <2> QED BY <1>7, <2>1, <2>2, <2>3
<1>9. ASSUME NEW op \in Ops, Repeat(s, op) PROVE OrderInv'
  BY <1>0, <1>7, <1>9 DEF Repeat, TypeOK
<1> QED BY <1>4, <1>5, <1>6, <1>8, <1>9 DEF RequestStep

\* An older operation that may still be written is with another request, and so
\* becomes late, or was late before.
LEMMA CommitInOrder ==
    ASSUME IInv, OrderInv, NEW s \in Syncs, Commit(s)
    PROVE  /\ OrderInv'
           /\ \A op, other \in Ops :
                effects'[op] > effects[op] /\ effects[other] = 1 =>
                    createdAt[other] <= createdAt[op] \/ op \in late
<1>0. TypeOK /\ HolderOwnsClaim /\ LedgerTellsEffects
  BY DEF IInv
<1> DEFINE c == current[s]
<1>1. /\ UNCHANGED <<clock, createdAt, form, outbox, ledger, todo, current>>
      /\ stage[s] = "apply" /\ stage' = [stage EXCEPT ![s] = "record"]
      /\ effects' = [effects EXCEPT ![c] = @ + 1]
      /\ late' = late \cup InOtherHands(s, c)
  BY DEF Commit, pageVars
<1>2. c \in Ops /\ c \in Earliest(todo[s]) /\ stage'[s] = "record"
  BY <1>0, <1>1 DEF HolderOwnsClaim, Holds, OrderInv, SentInOrder, TypeOK
<1>3. MayBeWritten(c) /\ c \in todo[s]
  BY <1>1, <1>2 DEF MayBeWritten, InHand, Earliest
<1>4. \A o \in Ops : /\ Waiting(o)' <=> Waiting(o)
                     /\ MayBeWritten(o)' => MayBeWritten(o)
  BY <1>0, <1>1, <1>2 DEF MayBeWritten, Waiting, InHand
<1>5. \A o \in Ops : /\ effects[o] \in Nat /\ createdAt[o] \in Nat
                     /\ o # c => effects'[o] = effects[o]
  BY <1>0, <1>1 DEF TypeOK
<1>6. StampsGrow' /\ SentWasEntered'
  BY <1>1 DEF OrderInv, StampsGrow, SentWasEntered, Writers
<1>7. SentInOrder'
  <2> SUFFICES ASSUME NEW t \in Syncs
               PROVE  /\ stage'[t] = "idle" => todo'[t] = {}
                      /\ Holds(t)' => (current[t] \in Earliest(todo[t]))'
                      /\ \A o \in todo'[t], other \in Ops \ todo'[t] :
                           Waiting(other)' /\ other \notin late'
                             => createdAt'[o] <= createdAt'[other]
    BY DEF SentInOrder
  <2>1. Holds(t)' => Holds(t)
    BY <1>0, <1>1 DEF Holds, TypeOK
  <2>2. stage'[t] = "idle" => stage[t] = "idle"
    BY <1>0, <1>1 DEF TypeOK
  <2>3. \A o \in todo'[t], other \in Ops \ todo'[t] :
            Waiting(other)' /\ other \notin late' => createdAt'[o] <= createdAt'[other]
    BY <1>1, <1>4 DEF OrderInv, SentInOrder
  <2>4. Holds(t)' => (current[t] \in Earliest(todo[t]))'
    BY <1>1, <2>1 DEF OrderInv, SentInOrder, Earliest
  <2>5. stage'[t] = "idle" => todo'[t] = {}
    BY <1>1, <2>2 DEF OrderInv, SentInOrder
  <2> QED BY <2>3, <2>4, <2>5
<1>8. WrittenFirst'
  <2> SUFFICES ASSUME NEW op \in Ops, NEW other \in Ops, effects'[op] = 1,
                      MayBeWritten(other)', other \notin late'
               PROVE  createdAt[op] <= createdAt[other]
    BY <1>1 DEF WrittenFirst
  <2>1. CASE op # c
    BY <1>1, <1>4, <1>5, <2>1 DEF OrderInv, WrittenFirst
  <2>2. CASE op = c /\ other \in todo[s]
    BY <1>2, <2>2 DEF Earliest
  <2>3. CASE op = c /\ other \notin todo[s] /\ Waiting(other)
    BY <1>1, <1>3, <2>3 DEF OrderInv, SentInOrder
  <2>4. CASE op = c /\ other \notin todo[s] /\ InHand(other)
    <3>1. PICK t \in Syncs :
              /\ other \in todo[t]
              /\ ledger[other] = "none" \/ (stage[t] = "apply" /\ current[t] = other)
      BY <2>4 DEF InHand
    <3>2. effects[other] = 0
      BY <1>0, <3>1 DEF LedgerTellsEffects, HolderOwnsClaim, Holds
    <3>3. ~(createdAt[other] < createdAt[c])
      BY <1>1, <2>4, <3>1, <3>2 DEF InOtherHands
    <3> QED BY <1>2, <1>5, <2>4, <3>3
  <2> QED BY <1>4, <2>1, <2>2, <2>3, <2>4 DEF MayBeWritten
<1>9. ASSUME NEW op \in Ops, NEW other \in Ops, effects'[op] > effects[op], effects[other] = 1
      PROVE  createdAt[other] <= createdAt[op] \/ op \in late
  <2>1. op = c
    BY <1>5, <1>9
  <2> QED BY <1>3, <1>9, <2>1 DEF OrderInv, WrittenFirst
<1> QED BY <1>6, <1>7, <1>8, <1>9 DEF OrderInv

\* Records are written in the order in which the operations were entered, for any
\* number of overlapping requests, retries and faults, but for an operation that
\* another request had in hand when a younger one was written, or whose form was
\* saving beside another.
THEOREM RecordsInOrder == Spec => AppliedInOrder
<1>1. Init => OrderInv
  <2> SUFFICES ASSUME Init PROVE OrderInv
    OBVIOUS
  <2> QED BY DEF Init, OrderInv, StampsGrow, SentWasEntered, SentInOrder, WrittenFirst, Writers,
                 Holds, MayBeWritten, Waiting, InHand
<1>2. ASSUME IInv, OrderInv, [Next]_vars
      PROVE  /\ OrderInv'
             /\ \A op, other \in Ops :
                  effects'[op] > effects[op] /\ effects[other] = 1 =>
                      createdAt[other] <= createdAt[op] \/ op \in late
  <2>1. ASSUME NEW s \in Syncs, Commit(s)
        PROVE  /\ OrderInv'
               /\ \A op, other \in Ops :
                    effects'[op] > effects[op] /\ effects[other] = 1 =>
                        createdAt[other] <= createdAt[op] \/ op \in late
    BY <1>2, <2>1, CommitInOrder
  <2>2. ASSUME \A s \in Syncs : ~Commit(s)
        PROVE  OrderInv' /\ UNCHANGED effects
    <3>1. CASE UNCHANGED vars
      BY <1>2, <3>1, HiddenInOrder DEF vars
    <3>2. ASSUME NEW op \in Ops, FormStep(op) PROVE OrderInv' /\ UNCHANGED effects
      BY <1>2, <3>2, FormInOrder
         DEF FormStep, SaveOnline, QueueOffline, QueueAfterFailure, BeginEnqueue, PutRow, Expire
    <3>3. ASSUME NEW s \in Syncs, PageStep(s) PROVE OrderInv' /\ UNCHANGED effects
      BY <1>2, <3>3, PageInOrder DEF PageStep, StartSync, FinishSync, ClientStops, HandleReply
    <3>4. ASSUME NEW s \in Syncs, RequestStep(s) PROVE OrderInv' /\ UNCHANGED effects
      BY <1>2, <2>2, <3>4, RequestInOrder
         DEF RequestStep, Refuse, Accept, Decline, Throw, Record, Respond, RequestDies, Claim,
             Repeat, RequestFails
    <3>5. CASE RevokeToken \/ ClearScope \/ LogIn
      BY <1>2, <3>5, SessionInOrder DEF RevokeToken, ClearScope, LogIn
    <3> QED BY <1>2, <3>1, <3>2, <3>3, <3>4, <3>5 DEF Next
  <2>3. ASSUME UNCHANGED effects, NEW op \in Ops PROVE ~(effects'[op] > effects[op])
    BY <1>2, <2>3 DEF IInv, TypeOK
  <2> QED BY <2>1, <2>2, <2>3
<1>3. IInv /\ OrderInv /\ [Next]_vars => OrderInv'
  BY <1>2
<1>4. IInv /\ OrderInv /\ [Next]_vars =>
        [\A op, other \in Ops :
           effects'[op] > effects[op] /\ effects[other] = 1 =>
               createdAt[other] <= createdAt[op] \/ op \in late]_vars
  BY <1>2
<1> QED BY <1>1, <1>3, <1>4, Invariance, PTL DEF Spec, AppliedInOrder
=============================================================================
