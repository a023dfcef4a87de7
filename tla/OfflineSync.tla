----------------------------- MODULE OfflineSync -----------------------------
(***************************************************************************)
(* The offline outbox of one signed-in account and its reconciliation.     *)
(*                                                                         *)
(* Browser side (frontend/src/lms/lib/offlineStore.ts, laravelApi.ts): an  *)
(* IndexedDB outbox shared by every tab, forms that queue an operation     *)
(* when the direct POST cannot reach the server, and sync runs that send   *)
(* every queued row in one request and act on the replies row by row.      *)
(*                                                                         *)
(* Server side (OfflineSyncService.php): per operation, claim a ledger row *)
(* under unique(user_id, client_operation_id), apply the operation in a    *)
(* transaction, and store the outcome in a second, separate write.         *)
(*                                                                         *)
(* A sync slot s is one call of syncOfflineQueue together with the request *)
(* it sent: the call may die while its request runs on, and two slots are  *)
(* two tabs, or the "online" event and the sync button of one tab.         *)
(***************************************************************************)
EXTENDS Naturals, FiniteSets

CONSTANTS
    Ops,          \* the operations the user enters, each with its UUID
    Submits,      \* those that are worksheet submissions with a base version
    Uncaught,     \* those apply may refuse with an exception nobody catches
    Syncs,        \* sync slots: bound on sync runs in progress at once
    NoOp,         \* "no operation in hand"
    MaxBatch,     \* operations the server accepts in a request (50)
    MaxOutbox,    \* MAX_OUTBOX_OPERATIONS (500)
    MaxWriters,   \* bound on forms saving to the outbox at the same time
    MaxFaults     \* bound on lost connections, dead tabs, dead requests

ASSUME KindsAreOps == Submits \subseteq Ops /\ Uncaught \subseteq Ops
ASSUME NoOpIsNoOperation == NoOp \notin Ops
ASSUME BoundsAreNaturals == MaxBatch \in Nat /\ MaxOutbox \in Nat
                            /\ MaxWriters \in Nat /\ MaxFaults \in Nat

VARIABLES
    session,      \* the account's token: "in", "revoked" (signing out), "out"
    form,         \* form[op]: "blank", "writing" (read done, put pending), "done"
    direct,       \* direct[op]: records written by op's direct POST
    clock,        \* latest Date.now() stamp given to an operation
    createdAt,    \* createdAt[op], the replay order
    outbox,       \* outbox[op]: status of op's IndexedDB row
    client,       \* client[s]: "idle", "waiting" for the response, "handling" it
    replies,      \* replies[s][op]: outcomes received and not yet acted upon
    stage,        \* stage[s]: where the server is with s's request
    todo,         \* todo[s]: operations of the request still to reconcile
    current,      \* current[s]: the operation the request has claimed
    verdict,      \* verdict[s]: what apply concluded for current[s]
    ledger,       \* ledger[op]: offline_sync_operations.status
    effects,      \* effects[op]: records written by reconciling op
    faults,       \* faults so far
    late          \* history: operations a younger one may be written before

pageVars == <<form, direct, clock, createdAt>>
requestVars == <<stage, todo, current, verdict>>
serverVars == <<ledger, effects>>
vars == <<session, pageVars, outbox, client, replies, requestVars, serverVars,
          faults, late>>

-----------------------------------------------------------------------------
\* Broken variants, each named for the mistake, stand before the definition they
\* would replace; PROJECT.json pairs them with the property that catches them.

RefusalsWithRetry(op) == {"rejected", "retry"}

Refusals(op) == IF op \in Submits THEN {"rejected", "conflict"} ELSE {"rejected"}

Terminal == {"applied", "rejected", "conflict"}
Outcomes == {"applied", "duplicate", "rejected", "conflict", "processing"}
Unanswered == [op \in Ops |-> "none"]

\* readOfflineOperations: expired rows stay in the store but are never seen.
Visible == {op \in Ops : outbox[op] \notin {"absent", "expired"}}
Queued == {op \in Ops : outbox[op] = "queued"}
Writers == {op \in Ops : form[op] = "writing"}

EarliestUnsorted(S) == S

\* Members of S that createdAt allows to come first (stamps may tie).
Earliest(S) == {op \in S : \A other \in S : createdAt[op] <= createdAt[other]}

StoredOutcomeIgnoringStatus(op) == "duplicate"

\* storedOutcome for a row this request did not create.
StoredOutcome(op) == IF ledger[op] = "applied" THEN "duplicate" ELSE ledger[op]

Init ==
    /\ session = "in"
    /\ form = [op \in Ops |-> "blank"]
    /\ direct = [op \in Ops |-> 0]
    /\ clock = 0
    /\ createdAt = [op \in Ops |-> 0]
    /\ outbox = [op \in Ops |-> "absent"]
    /\ client = [s \in Syncs |-> "idle"]
    /\ replies = [s \in Syncs |-> Unanswered]
    /\ stage = [s \in Syncs |-> "idle"]
    /\ todo = [s \in Syncs |-> {}]
    /\ current = [s \in Syncs |-> NoOp]
    /\ verdict = [s \in Syncs |-> "none"]
    /\ ledger = [op \in Ops |-> "none"]
    /\ effects = [op \in Ops |-> 0]
    /\ faults = 0
    /\ late = {}

-----------------------------------------------------------------------------
(* Forms: createOrQueue and enqueueOfflineOperation                        *)

\* The direct POST is answered: the record exists and nothing is queued.
SaveOnline(op) ==
    /\ session = "in"
    /\ form[op] = "blank"
    /\ form' = [form EXCEPT ![op] = "done"]
    /\ direct' = [direct EXCEPT ![op] = 1]
    /\ UNCHANGED <<session, clock, createdAt, outbox, client, replies,
                   requestVars, serverVars, faults, late>>

\* enqueueOfflineOperation up to its put: read the outbox, refuse when it is
\* full, and stamp createdAt = max(Date.now(), last + 1).  The put is another
\* IndexedDB transaction, so other writers and sync runs may come in between.
BeginEnqueue(op) ==
    /\ session # "out"
    /\ form[op] = "blank"
    /\ Cardinality(Writers) < MaxWriters
    /\ Cardinality(Visible) < MaxOutbox
    /\ \E stamp \in {clock, clock + 1} :
          /\ \A other \in Visible : createdAt[other] < stamp
          /\ createdAt' = [createdAt EXCEPT ![op] = stamp]
          /\ clock' = stamp
    /\ form' = [form EXCEPT ![op] = "writing"]
    /\ late' = late \cup Writers
    /\ UNCHANGED <<session, outbox, client, replies, requestVars, serverVars>>

\* navigator.onLine is false: the POST was never sent.
QueueOffline(op) == BeginEnqueue(op) /\ UNCHANGED <<direct, faults>>

\* fetch failed: the same ApiError(0), whether or not the server had already
\* stored the record when the connection went.
QueueAfterFailure(op) ==
    /\ faults < MaxFaults
    /\ BeginEnqueue(op)
    /\ \E landed \in {0, 1} : direct' = [direct EXCEPT ![op] = landed]
    /\ faults' = faults + 1

PutRow(op) ==
    /\ form[op] = "writing"
    /\ form' = [form EXCEPT ![op] = "done"]
    /\ outbox' = [outbox EXCEPT ![op] = "queued"]
    /\ UNCHANGED <<session, direct, clock, createdAt, client, replies,
                   requestVars, serverVars, faults, late>>

\* A row passes OUTBOX_TTL_MS: oldest first, and hidden ever after.
Expire(op) ==
    /\ op \in Earliest(Visible)
    /\ outbox' = [outbox EXCEPT ![op] = "expired"]
    /\ UNCHANGED <<session, pageVars, client, replies, requestVars, serverVars,
                   faults, late>>

-----------------------------------------------------------------------------
(* A sync run: syncOfflineQueue                                            *)

\* Every queued row goes into one request, however many there are.
StartSync(s) ==
    /\ session # "out"
    /\ client[s] = "idle"
    /\ stage[s] = "idle"
    /\ Queued # {}
    /\ client' = [client EXCEPT ![s] = "waiting"]
    /\ stage' = [stage EXCEPT ![s] = "received"]
    /\ todo' = [todo EXCEPT ![s] = Queued]
    /\ UNCHANGED <<session, pageVars, outbox, replies, current, verdict,
                   serverVars, faults, late>>

RowAfterIgnoringDuplicate(op, outcome) ==
    IF outcome = "applied" THEN "absent"
    ELSE IF outcome = "duplicate" THEN outbox[op] ELSE outcome

\* What the page writes for a reply; put is an upsert, so it brings back a row
\* that is gone, and it cannot make an old row young again.
RowAfter(op, outcome) ==
    IF outcome \in {"applied", "duplicate"} THEN "absent"
    ELSE IF outbox[op] = "expired" THEN "expired" ELSE outcome

HandleReply(s, op) ==
    /\ client[s] = "handling"
    /\ op \in Earliest({o \in Ops : replies[s][o] # "none"})
    /\ outbox' = [outbox EXCEPT ![op] = RowAfter(op, replies[s][op])]
    /\ replies' = [replies EXCEPT ![s][op] = "none"]
    /\ UNCHANGED <<session, pageVars, client, requestVars, serverVars, faults, late>>

FinishSync(s) ==
    /\ client[s] = "handling"
    /\ replies[s] = Unanswered
    /\ client' = [client EXCEPT ![s] = "idle"]
    /\ UNCHANGED <<session, pageVars, outbox, replies, requestVars, serverVars,
                   faults, late>>

\* The tab closes, or the connection or the response is lost: the run ends in
\* its catch or not at all, and a request already sent runs on.
ClientStops(s) ==
    /\ client[s] # "idle"
    /\ faults < MaxFaults
    /\ faults' = faults + 1
    /\ client' = [client EXCEPT ![s] = "idle"]
    /\ replies' = [replies EXCEPT ![s] = IF stage[s] = "idle" THEN Unanswered
                                         ELSE replies[s]]
    /\ UNCHANGED <<session, pageVars, outbox, requestVars, serverVars, late>>

-----------------------------------------------------------------------------
(* The request: OfflineSyncController::reconcile and OfflineSyncService    *)

\* An error response, or none: the page's catch leaves every row as it was.
RequestFails(s) ==
    /\ stage' = [stage EXCEPT ![s] = "idle"]
    /\ todo' = [todo EXCEPT ![s] = {}]
    /\ current' = [current EXCEPT ![s] = NoOp]
    /\ verdict' = [verdict EXCEPT ![s] = "none"]
    /\ client' = [client EXCEPT ![s] = "idle"]
    /\ replies' = [replies EXCEPT ![s] = Unanswered]
    /\ UNCHANGED <<session, pageVars, outbox, serverVars, late>>

\* 422 from the max:50 rule, or 401 because the token is gone.
Refuse(s) ==
    /\ stage[s] = "received"
    /\ Cardinality(todo[s]) > MaxBatch \/ session # "in"
    /\ RequestFails(s)
    /\ UNCHANGED faults

Accept(s) ==
    /\ stage[s] = "received"
    /\ Cardinality(todo[s]) <= MaxBatch
    /\ session = "in"
    /\ stage' = [stage EXCEPT ![s] = "next"]
    /\ UNCHANGED <<session, pageVars, outbox, client, replies, todo, current,
                   verdict, serverVars, faults, late>>

ClaimStuckRow(s, op) ==
    /\ stage[s] = "next"
    /\ op \in Earliest(todo[s])
    /\ ledger[op] \in {"none", "processing"}
    /\ ledger' = [ledger EXCEPT ![op] = "processing"]
    /\ current' = [current EXCEPT ![s] = op]
    /\ stage' = [stage EXCEPT ![s] = "apply"]
    /\ UNCHANGED <<session, pageVars, outbox, client, replies, todo, verdict,
                   effects, faults, late>>

\* firstOrCreate creates the ledger row: this request owns the operation.
Claim(s, op) ==
    /\ stage[s] = "next"
    /\ op \in Earliest(todo[s])
    /\ ledger[op] = "none"
    /\ ledger' = [ledger EXCEPT ![op] = "processing"]
    /\ current' = [current EXCEPT ![s] = op]
    /\ stage' = [stage EXCEPT ![s] = "apply"]
    /\ UNCHANGED <<session, pageVars, outbox, client, replies, todo, verdict,
                   effects, faults, late>>

\* firstOrCreate finds the row: answer with what it says, whatever that is.
Repeat(s, op) ==
    /\ stage[s] = "next"
    /\ op \in Earliest(todo[s])
    /\ ledger[op] # "none"
    /\ replies' = [replies EXCEPT ![s][op] = StoredOutcome(op)]
    /\ todo' = [todo EXCEPT ![s] = @ \ {op}]
    /\ UNCHANGED <<session, pageVars, outbox, client, stage, current, verdict,
                   serverVars, faults, late>>

\* Older operations than op that another request has in hand.
InOtherHands(s, op) ==
    {older \in Ops : /\ effects[older] = 0 /\ createdAt[older] < createdAt[op]
                     /\ \E t \in Syncs \ {s} : older \in todo[t]}

\* DB::transaction(apply) commits the record.
Commit(s) ==
    /\ stage[s] = "apply"
    /\ effects' = [effects EXCEPT ![current[s]] = @ + 1]
    /\ verdict' = [verdict EXCEPT ![s] = "applied"]
    /\ stage' = [stage EXCEPT ![s] = "record"]
    /\ late' = late \cup InOtherHands(s, current[s])
    /\ UNCHANGED <<session, pageVars, outbox, client, replies, todo, current,
                   ledger, faults>>

\* apply throws one of the four exceptions the service catches; rolled back.
Decline(s) ==
    /\ stage[s] = "apply"
    /\ \E word \in Refusals(current[s]) : verdict' = [verdict EXCEPT ![s] = word]
    /\ stage' = [stage EXCEPT ![s] = "record"]
    /\ UNCHANGED <<session, pageVars, outbox, client, replies, todo, current,
                   serverVars, faults, late>>

\* apply throws what the service does not catch: the QueryException of a second
\* attendance record of a day, the HttpException of abort_unless for another
\* student's worksheet.  Rolled back, the claim stays, the whole request is a 4xx
\* or 5xx.
Throw(s) ==
    /\ stage[s] = "apply"
    /\ current[s] \in Uncaught
    /\ RequestFails(s)
    /\ UNCHANGED faults

RecordReplyOnly(s) ==
    /\ stage[s] = "record"
    /\ replies' = [replies EXCEPT ![s][current[s]] = verdict[s]]
    /\ todo' = [todo EXCEPT ![s] = @ \ {current[s]}]
    /\ current' = [current EXCEPT ![s] = NoOp]
    /\ verdict' = [verdict EXCEPT ![s] = "none"]
    /\ stage' = [stage EXCEPT ![s] = "next"]
    /\ UNCHANGED <<session, pageVars, outbox, client, serverVars, faults, late>>

RecordAlwaysApplied(s) ==
    /\ stage[s] = "record"
    /\ ledger' = [ledger EXCEPT ![current[s]] = "applied"]
    /\ replies' = [replies EXCEPT ![s][current[s]] = "applied"]
    /\ todo' = [todo EXCEPT ![s] = @ \ {current[s]}]
    /\ current' = [current EXCEPT ![s] = NoOp]
    /\ verdict' = [verdict EXCEPT ![s] = "none"]
    /\ stage' = [stage EXCEPT ![s] = "next"]
    /\ UNCHANGED <<session, pageVars, outbox, client, effects, faults, late>>

\* $stored->update(...): the outcome, in a write of its own, and the reply.
Record(s) ==
    /\ stage[s] = "record"
    /\ ledger' = [ledger EXCEPT ![current[s]] = verdict[s]]
    /\ replies' = [replies EXCEPT ![s][current[s]] = verdict[s]]
    /\ todo' = [todo EXCEPT ![s] = @ \ {current[s]}]
    /\ current' = [current EXCEPT ![s] = NoOp]
    /\ verdict' = [verdict EXCEPT ![s] = "none"]
    /\ stage' = [stage EXCEPT ![s] = "next"]
    /\ UNCHANGED <<session, pageVars, outbox, client, effects, faults, late>>

Respond(s) ==
    /\ stage[s] = "next"
    /\ todo[s] = {}
    /\ stage' = [stage EXCEPT ![s] = "idle"]
    /\ IF client[s] = "waiting"
       THEN /\ client' = [client EXCEPT ![s] = "handling"]
            /\ UNCHANGED replies
       ELSE /\ replies' = [replies EXCEPT ![s] = Unanswered]
            /\ UNCHANGED client
    /\ UNCHANGED <<session, pageVars, outbox, todo, current, verdict, serverVars,
                   faults, late>>

\* The PHP process dies between two statements.
RequestDies(s) ==
    /\ stage[s] \in {"next", "apply", "record"}
    /\ faults < MaxFaults
    /\ RequestFails(s)
    /\ faults' = faults + 1

-----------------------------------------------------------------------------
(* Signing out and in: laravelApi.logout and login                         *)

\* POST /auth/logout deletes the token.
RevokeToken ==
    /\ session = "in"
    /\ session' = "revoked"
    /\ UNCHANGED <<pageVars, outbox, client, replies, requestVars, serverVars,
                   faults, late>>

\* clearOfflineScope, one transaction, then the scope is forgotten.
ClearScope ==
    /\ session = "revoked"
    /\ session' = "out"
    /\ outbox' = [op \in Ops |-> "absent"]
    /\ UNCHANGED <<pageVars, client, replies, requestVars, serverVars, faults, late>>

LogIn ==
    /\ session = "out"
    /\ session' = "in"
    /\ UNCHANGED <<pageVars, outbox, client, replies, requestVars, serverVars,
                   faults, late>>

-----------------------------------------------------------------------------
FormStep(op) == SaveOnline(op) \/ QueueOffline(op) \/ QueueAfterFailure(op)
                \/ PutRow(op) \/ Expire(op)

PageStep(s) == StartSync(s) \/ FinishSync(s) \/ ClientStops(s)
               \/ \E op \in Ops : HandleReply(s, op)

RequestStep(s) == Refuse(s) \/ Accept(s) \/ Commit(s) \/ Decline(s) \/ Throw(s)
                  \/ Record(s) \/ Respond(s) \/ RequestDies(s)
                  \/ \E op \in Ops : Claim(s, op) \/ Repeat(s, op)

Next ==
    \/ \E op \in Ops : FormStep(op)
    \/ \E s \in Syncs : PageStep(s) \/ RequestStep(s)
    \/ RevokeToken \/ ClearScope \/ LogIn

Spec == Init /\ [][Next]_vars

\* The browser runs a started coroutine on, the server runs an accepted request
\* on, and the account that keeps the page open comes online and syncs again.
\* Nothing forces the user to fill in a form, to sign out or to sign in.
Fairness ==
    /\ \A op \in Ops : WF_vars(PutRow(op))
    /\ \A s \in Syncs :
          /\ WF_vars(StartSync(s)) /\ WF_vars(FinishSync(s))
          /\ WF_vars(\E op \in Ops : HandleReply(s, op))
          /\ WF_vars(Refuse(s)) /\ WF_vars(Accept(s))
          /\ WF_vars(\E op \in Ops : Claim(s, op) \/ Repeat(s, op))
          /\ WF_vars(Commit(s) \/ Decline(s) \/ Throw(s))
          /\ WF_vars(Record(s)) /\ WF_vars(Respond(s))

LiveSpec == Spec /\ Fairness

-----------------------------------------------------------------------------
(* Properties                                                              *)

\* Every variable has its type.
TypeOK ==
    /\ session \in {"in", "revoked", "out"}
    /\ form \in [Ops -> {"blank", "writing", "done"}]
    /\ direct \in [Ops -> {0, 1}]
    /\ clock \in Nat
    /\ createdAt \in [Ops -> Nat]
    /\ outbox \in [Ops -> {"absent", "expired", "queued", "rejected", "conflict",
                           "processing"}]
    /\ client \in [Syncs -> {"idle", "waiting", "handling"}]
    /\ replies \in [Syncs -> [Ops -> Outcomes \cup {"none"}]]
    /\ stage \in [Syncs -> {"idle", "received", "next", "apply", "record"}]
    /\ todo \in [Syncs -> SUBSET Ops]
    /\ current \in [Syncs -> Ops \cup {NoOp}]
    /\ verdict \in [Syncs -> Terminal \cup {"none"}]
    /\ ledger \in [Ops -> Terminal \cup {"none", "processing"}]
    /\ effects \in [Ops -> Nat]
    /\ faults \in Nat
    /\ late \subseteq Ops

\* However often an operation is sent, by however many runs, and whatever dies
\* on the way, reconciling it writes at most one record (firstOrCreate on the
\* unique key decides who applies it).
AtMostOnce == \A op \in Ops : effects[op] <= 1

\* A row kept for review as rejected or conflicting is one the server has so
\* decided, and no record was written for it.
RefusalsAreReal ==
    \A op \in Ops : outbox[op] \in {"rejected", "conflict"} =>
        ledger[op] = outbox[op] /\ effects[op] = 0

\* A ledger row is left at "processing" with nobody working on it only after
\* something failed or apply threw what the service does not catch: otherwise
\* every claim is followed by its outcome.
OrphanNeedsFault ==
    \A op \in Ops :
        ledger[op] = "processing" =>
            \/ faults > 0 \/ op \in Uncaught
            \/ \E s \in Syncs : current[s] = op /\ stage[s] \in {"apply", "record"}

\* A row leaves the outbox only by sign-out or because its record exists: the
\* replies applied and duplicate are never given for a record not committed.
NoLostOperation ==
    [][\A op \in Ops :
          outbox[op] # "absent" /\ outbox'[op] = "absent" =>
              effects[op] = 1 \/ session = "revoked"]_vars

\* Retries and concurrent requests never change an outcome once it is stored.
VerdictIsFinal ==
    [][\A op \in Ops : ledger[op] \in Terminal => ledger'[op] = ledger[op]]_vars

\* Records are written in the order in which the user entered the operations,
\* over lost responses, dead requests and retries, whoever syncs: an operation
\* comes after a younger one only if another request had it in hand when the
\* younger was written, or two forms were saving at once.
AppliedInOrder ==
    [][\A op, other \in Ops :
          effects'[op] > effects[op] /\ effects[other] = 1 =>
              createdAt[other] <= createdAt[op] \/ op \in late]_vars

\* While the account stays signed in, a queued row does not stay queued.
EveryQueuedRowIsAnswered ==
    \A op \in Ops :
        outbox[op] = "queued" /\ session = "in" ~>
            outbox[op] # "queued" \/ session # "in"

\* The server's side and the rows kept for review keep the contract.
Contract == INSTANCE OfflineContract WITH
    records <- effects,
    decided <- [op \in Ops |-> IF ledger[op] \in Terminal THEN ledger[op] ELSE "open"],
    shown <- [op \in Ops |-> IF outbox[op] \in {"rejected", "conflict"}
                             THEN outbox[op] ELSE "none"]

\* Requests, replies, retries and faults together implement OfflineContract.
KeepsContract == Contract!Spec

\* The inductive strengthening of AtMostOnce and RefusalsAreReal.

\* Outside a claim the ledger row tells exactly what was written.
LedgerTellsEffects ==
    \A op \in Ops :
        /\ ledger[op] \in {"none", "rejected", "conflict"} => effects[op] = 0
        /\ ledger[op] = "applied" => effects[op] = 1
        /\ effects[op] <= 1

Holds(s) == stage[s] \in {"apply", "record"}

\* A request that holds an operation is the one whose claim is in the ledger.
HolderOwnsClaim ==
    \A s \in Syncs : Holds(s) =>
        /\ current[s] \in Ops
        /\ ledger[current[s]] = "processing"
        /\ stage[s] = "apply" => effects[current[s]] = 0
        /\ stage[s] = "record" =>
              /\ verdict[s] \in Terminal
              /\ (verdict[s] = "applied") <=> (effects[current[s]] = 1)

SoleHolder ==
    \A s, t \in Syncs : Holds(s) /\ Holds(t) /\ current[s] = current[t] => s = t

\* A reply in flight, or a row kept after one, repeats a stored outcome.
RepliesRepeatLedger ==
    \A s \in Syncs, op \in Ops :
        /\ replies[s][op] \in {"applied", "duplicate"} => ledger[op] = "applied"
        /\ replies[s][op] \in {"rejected", "conflict"} => ledger[op] = replies[s][op]

RowsRepeatLedger ==
    \A op \in Ops : outbox[op] \in {"rejected", "conflict"} => ledger[op] = outbox[op]

IInv ==
    /\ TypeOK
    /\ LedgerTellsEffects
    /\ HolderOwnsClaim
    /\ SoleHolder
    /\ RepliesRepeatLedger
    /\ RowsRepeatLedger

\* What the sources say and the code does not keep:

\* docs/offline-sync.md: creates are idempotent through the operation UUID, so
\* what the user entered once is recorded once.
RecordedOnce == \A op \in Ops : direct[op] + effects[op] <= 1

\* docs/offline-sync.md: an item that met a lost answer is kept in the original
\* order and retried.  A retry, of one tab even, may overtake the first request.
RetriedInOrder ==
    [][\A op, other \in Ops :
          effects'[op] > effects[op] /\ effects[other] = 1 =>
              createdAt[other] <= createdAt[op]]_vars
=============================================================================
