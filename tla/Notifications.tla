---------------------------- MODULE Notifications ----------------------------
(***************************************************************************)
(* One notification campaign: NotificationCampaignService::create writes   *)
(* it with a delivery per recipient and queues one job; queue workers,     *)
(* started by the scheduled drain request, run                             *)
(* DispatchNotificationCampaign::handle, which sends every pending         *)
(* delivery over every selected channel.                                   *)
(*                                                                         *)
(* The jobs table hands a job out again once retry_after has passed,       *)
(* whether its worker is dead or only slow, so two workers may be at the   *)
(* same deliveries, and a job that one of them releases is a new row the   *)
(* other knows nothing of.  Settings, credentials and phone numbers only   *)
(* decide what a channel answers, so the answer is a choice here.          *)
(***************************************************************************)
EXTENDS Naturals, FiniteSets

CONSTANTS
    Deliveries,   \* ids of the campaign's deliveries, one per recipient
    Channels,     \* positions of its channels in $selectedChannels
    Workers,      \* queue workers: bound on drain requests at the same time
    Nobody,       \* "no delivery in hand"
    NoChannel,    \* "no answer to note"
    Tries,        \* $tries of the job (3)
    MaxFaults     \* bound on dead processes and lost databases

ASSUME IdsAreNaturals == Deliveries \subseteq Nat /\ Channels \subseteq Nat
ASSUME NobodyIsNoDelivery == Nobody \notin Deliveries /\ NoChannel \notin Channels
ASSUME TriesIsPositive == Tries \in Nat \ {0} /\ MaxFaults \in Nat
ASSUME WorkersAreFew == IsFiniteSet(Workers)

VARIABLES
    campaign,     \* "none", "open", "completed" (completed_at is set)
    status,       \* status[d] of notification_deliveries, "none" before create
    attempts,     \* attempts[d]
    record,       \* record[d][c]: status of notification_delivery_channels
    copies,       \* copies[d][c]: messages the provider took (outside world)
    dispatch,     \* afterCommit dispatch of the job: "none", "owed", "done", "lost"
    jobs,         \* rows of the jobs table: [id, attempts, state]
    nextId,       \* next id of that table
    at,           \* at[w]: where a worker is in handle
    held,         \* held[w]: id and attempts of the job it holds
    todo,         \* todo[w]: deliveries it loaded and has not settled
    known,        \* known[w]: those loaded together with their channel records
    inHand,       \* inHand[w]: the delivery it is dispatching
    left,         \* left[w]: channels still to try for that delivery
    answer,       \* answer[w]: <<channel, status>> to note, or <<NoChannel, ...>>
    anySent,      \* anySent[w]: $delivered
    faults        \* faults so far

tableVars == <<campaign, status, attempts, record>>
queueVars == <<dispatch, jobs, nextId>>
workerVars == <<at, held, todo, known, inHand, left, answer, anySent>>
vars == <<tableVars, copies, queueVars, workerVars, faults>>

IsFirst(x, S) == x \in S /\ \A y \in S : x <= y
Pending == {d \in Deliveries : status[d] = "pending"}
NoAnswer == <<NoChannel, "none">>
NoJob == [id |-> 0, attempts |-> 0]

Init ==
    /\ campaign = "none"
    /\ status = [d \in Deliveries |-> "none"]
    /\ attempts = [d \in Deliveries |-> 0]
    /\ record = [d \in Deliveries |-> [c \in Channels |-> "none"]]
    /\ copies = [d \in Deliveries |-> [c \in Channels |-> 0]]
    /\ dispatch = "none"
    /\ jobs = {}
    /\ nextId = 1
    /\ at = [w \in Workers |-> "idle"]
    /\ held = [w \in Workers |-> NoJob]
    /\ todo = [w \in Workers |-> {}]
    /\ known = [w \in Workers |-> {}]
    /\ inHand = [w \in Workers |-> Nobody]
    /\ left = [w \in Workers |-> {}]
    /\ answer = [w \in Workers |-> NoAnswer]
    /\ anySent = [w \in Workers |-> FALSE]
    /\ faults = 0

-----------------------------------------------------------------------------
(* The request that creates the campaign                                   *)

\* One transaction; the job is dispatched after its commit.
Create ==
    /\ campaign = "none"
    /\ campaign' = "open"
    /\ status' = [d \in Deliveries |-> "pending"]
    /\ dispatch' = "owed"
    /\ UNCHANGED <<attempts, record, copies, jobs, nextId, workerVars, faults>>

-----------------------------------------------------------------------------
(* The database queue (Laravel)                                            *)

JobRows == [id : Nat, attempts : Nat, state : {"ready", "reserved"}]
Row(id, n, word) == [id |-> id, attempts |-> n, state |-> word]
Without(id) == {j \in jobs : j.id # id}

Dispatch ==
    /\ dispatch = "owed"
    /\ dispatch' = "done"
    /\ jobs' = jobs \cup {Row(nextId, 0, "ready")}
    /\ nextId' = nextId + 1
    /\ UNCHANGED <<tableVars, copies, workerVars, faults>>

\* The process dies between the commit and the dispatch.
DispatchLost ==
    /\ dispatch = "owed"
    /\ faults < MaxFaults
    /\ faults' = faults + 1
    /\ dispatch' = "lost"
    /\ UNCHANGED <<tableVars, copies, jobs, nextId, workerVars>>

Reserve(w, j) ==
    /\ at[w] = "idle"
    /\ j.state = "ready"
    /\ j.attempts < Tries
    /\ jobs' = Without(j.id) \cup {Row(j.id, j.attempts + 1, "reserved")}
    /\ held' = [held EXCEPT ![w] = [id |-> j.id, attempts |-> j.attempts + 1]]
    /\ at' = [at EXCEPT ![w] = "load"]
    /\ UNCHANGED <<tableVars, copies, dispatch, nextId, todo, known, inHand, left,
                   answer, anySent, faults>>

\* A worker pops a job that had its tries: failed without running.
Exhaust(j) ==
    /\ j.state = "ready"
    /\ j.attempts >= Tries
    /\ jobs' = Without(j.id)
    /\ UNCHANGED <<tableVars, copies, dispatch, nextId, workerVars, faults>>

\* retry_after (90 s) has passed: the job may be reserved again.
LeaseEnds(j) ==
    /\ j.state = "reserved"
    /\ jobs' = Without(j.id) \cup {Row(j.id, j.attempts, "ready")}
    /\ UNCHANGED <<tableVars, copies, dispatch, nextId, workerVars, faults>>

\* The worker lets go of everything it held.
Stop(w) ==
    /\ at' = [at EXCEPT ![w] = "idle"]
    /\ held' = [held EXCEPT ![w] = NoJob]
    /\ todo' = [todo EXCEPT ![w] = {}]
    /\ known' = [known EXCEPT ![w] = {}]
    /\ inHand' = [inHand EXCEPT ![w] = Nobody]
    /\ left' = [left EXCEPT ![w] = {}]
    /\ answer' = [answer EXCEPT ![w] = NoAnswer]
    /\ anySent' = [anySent EXCEPT ![w] = FALSE]

\* The process dies: the row stays reserved until its lease ends.
Crash(w) ==
    /\ at[w] # "idle"
    /\ faults < MaxFaults
    /\ faults' = faults + 1
    /\ Stop(w)
    /\ UNCHANGED <<tableVars, copies, queueVars>>

\* handle throws, as when the database was gone: the row is deleted and, unless
\* this was the last try, the job released as a new row with the attempts this
\* worker knows of.
Throw(w) ==
    /\ at[w] \in {"load", "next", "catch"}
    /\ faults < MaxFaults
    /\ faults' = faults + 1
    /\ IF held[w].attempts >= Tries
       THEN jobs' = Without(held[w].id) /\ UNCHANGED nextId
       ELSE /\ jobs' = Without(held[w].id) \cup {Row(nextId, held[w].attempts, "ready")}
            /\ nextId' = nextId + 1
    /\ Stop(w)
    /\ UNCHANGED <<tableVars, copies, dispatch>>

\* handle returns: the row is deleted, if it still is there.
DeleteJob(w) ==
    /\ at[w] = "done"
    /\ jobs' = Without(held[w].id)
    /\ Stop(w)
    /\ UNCHANGED <<tableVars, copies, dispatch, nextId, faults>>

-----------------------------------------------------------------------------
(* DispatchNotificationCampaign::handle                                    *)

\* The pending deliveries, with the channel records they have.  One chunk: the
\* model's campaigns have at most 100 recipients.
Load(w) ==
    /\ at[w] = "load"
    /\ todo' = [todo EXCEPT ![w] = Pending]
    /\ known' = [known EXCEPT ![w] =
                    {d \in Pending : \A c \in Channels : record[d][c] # "none"}]
    /\ at' = [at EXCEPT ![w] = "next"]
    /\ UNCHANGED <<tableVars, copies, queueVars, held, inHand, left, answer, anySent,
                   faults>>

\* Mutant: attempts are counted with the outcome, not before the sending.
BeginUncounted(w, d) ==
    /\ at[w] = "next"
    /\ IsFirst(d, todo[w])
    /\ inHand' = [inHand EXCEPT ![w] = d]
    /\ at' = [at EXCEPT ![w] = "open"]
    /\ UNCHANGED <<tableVars, copies, queueVars, held, todo, known, left, answer,
                   anySent, faults>>

Begin(w, d) ==
    /\ at[w] = "next"
    /\ IsFirst(d, todo[w])
    /\ attempts' = [attempts EXCEPT ![d] = @ + 1]
    /\ inHand' = [inHand EXCEPT ![w] = d]
    /\ at' = [at EXCEPT ![w] = "open"]
    /\ UNCHANGED <<campaign, status, record, copies, queueVars, held, todo, known,
                   left, answer, anySent, faults>>

\* dispatch, first part: the delivery has its channel records already, or they
\* are inserted, or another worker was first and the unique key refuses them.
OpenChannels(w) ==
    /\ at[w] = "open"
    /\ LET d == inHand[w]
           taken == \E c \in Channels : record[d][c] # "none"
       IN  IF d \notin known[w] /\ taken
           THEN /\ at' = [at EXCEPT ![w] = "catch"]
                /\ UNCHANGED <<record, left>>
           ELSE /\ at' = [at EXCEPT ![w] = "channels"]
                /\ left' = [left EXCEPT ![w] = Channels]
                /\ record' = IF d \in known[w] THEN record
                             ELSE [record EXCEPT ![d] = [c \in Channels |-> "pending"]]
    /\ UNCHANGED <<campaign, status, attempts, copies, queueVars, held, todo, known,
                   inHand, answer, anySent, faults>>

\* A driver answers: sent, failed, or skipped (disabled, or not ready).
Send(w, c) ==
    /\ at[w] = "channels"
    /\ IsFirst(c, left[w])
    /\ \E word \in {"sent", "failed", "skipped"} :
          /\ answer' = [answer EXCEPT ![w] = <<c, word>>]
          /\ copies' = IF word = "sent" THEN [copies EXCEPT ![inHand[w]][c] = @ + 1]
                       ELSE copies
    /\ left' = [left EXCEPT ![w] = @ \ {c}]
    /\ at' = [at EXCEPT ![w] = "told"]
    /\ UNCHANGED <<tableVars, queueVars, held, todo, known, inHand, anySent, faults>>

\* A driver throws (Http::post: no connection, or no answer in time), whether or
\* not the provider took the message.
SendThrows(w, c) ==
    /\ at[w] = "channels"
    /\ IsFirst(c, left[w])
    /\ \E landed \in {0, 1} : copies' = [copies EXCEPT ![inHand[w]][c] = @ + landed]
    /\ at' = [at EXCEPT ![w] = "catch"]
    /\ UNCHANGED <<tableVars, queueVars, held, todo, known, inHand, left, answer,
                   anySent, faults>>

\* Mutant: a channel that is switched off counts as one that delivered.
NoteAnswerSkipped(w) ==
    /\ at[w] = "told"
    /\ record' = [record EXCEPT ![inHand[w]][answer[w][1]] = answer[w][2]]
    /\ anySent' = [anySent EXCEPT ![w] = @ \/ answer[w][2] # "failed"]
    /\ answer' = [answer EXCEPT ![w] = NoAnswer]
    /\ at' = [at EXCEPT ![w] = "channels"]
    /\ UNCHANGED <<campaign, status, attempts, copies, queueVars, held, todo, known,
                   inHand, left, faults>>

NoteAnswer(w) ==
    /\ at[w] = "told"
    /\ record' = [record EXCEPT ![inHand[w]][answer[w][1]] = answer[w][2]]
    /\ anySent' = [anySent EXCEPT ![w] = @ \/ answer[w][2] = "sent"]
    /\ answer' = [answer EXCEPT ![w] = NoAnswer]
    /\ at' = [at EXCEPT ![w] = "channels"]
    /\ UNCHANGED <<campaign, status, attempts, copies, queueVars, held, todo, known,
                   inHand, left, faults>>

\* The delivery in hand is done with, and the next one is up.
Put(w, word) ==
    /\ status' = [status EXCEPT ![inHand[w]] = word]
    /\ todo' = [todo EXCEPT ![w] = @ \ {inHand[w]}]
    /\ inHand' = [inHand EXCEPT ![w] = Nobody]
    /\ known' = [known EXCEPT ![w] = @ \ {inHand[w]}]
    /\ left' = [left EXCEPT ![w] = {}]
    /\ anySent' = [anySent EXCEPT ![w] = FALSE]
    /\ at' = [at EXCEPT ![w] = "next"]
    /\ UNCHANGED <<campaign, attempts, record, copies, queueVars, held, answer,
                   faults>>

Settle(w) ==
    /\ at[w] = "channels"
    /\ left[w] = {}
    /\ Put(w, IF anySent[w] THEN "delivered" ELSE "failed")

\* Mutant: a delivery whose channel threw waits for another try.
CatchKeeping(w) ==
    /\ at[w] = "catch"
    /\ Put(w, "pending")

\* Mutant: a delivery whose channel threw is skipped.
CatchSkipping(w) ==
    /\ at[w] = "catch"
    /\ Put(w, "skipped")

Catch(w) ==
    /\ at[w] = "catch"
    /\ Put(w, "failed")

\* Mutant: a campaign with a failed delivery is not complete.
CompleteDelivered(w) ==
    /\ at[w] = "next"
    /\ todo[w] = {}
    /\ campaign' = IF \A d \in Deliveries : status[d] = "delivered" THEN "completed"
                   ELSE campaign
    /\ at' = [at EXCEPT ![w] = "done"]
    /\ UNCHANGED <<status, attempts, record, copies, queueVars, held, todo, known,
                   inHand, left, answer, anySent, faults>>

Complete(w) ==
    /\ at[w] = "next"
    /\ todo[w] = {}
    /\ campaign' = IF Pending = {} THEN "completed" ELSE campaign
    /\ at' = [at EXCEPT ![w] = "done"]
    /\ UNCHANGED <<status, attempts, record, copies, queueVars, held, todo, known,
                   inHand, left, answer, anySent, faults>>

-----------------------------------------------------------------------------
HandleStep(w) ==
    \/ Load(w) \/ OpenChannels(w) \/ NoteAnswer(w) \/ Settle(w) \/ Catch(w)
    \/ Complete(w)
    \/ \E d \in Deliveries : Begin(w, d)
    \/ \E c \in Channels : Send(w, c) \/ SendThrows(w, c)

WorkerStep(w) == HandleStep(w) \/ DeleteJob(w)

Next ==
    \/ Create \/ Dispatch \/ DispatchLost
    \/ \E j \in jobs : Exhaust(j) \/ LeaseEnds(j)
    \/ \E w \in Workers : \/ \E j \in jobs : Reserve(w, j)
                          \/ WorkerStep(w) \/ Crash(w) \/ Throw(w)

Spec == Init /\ [][Next]_vars

\* The scheduler keeps calling the drain endpoint, a worker that lives goes on,
\* a request that committed goes on to dispatch, and time passes.
Fairness ==
    /\ WF_vars(Dispatch)
    /\ WF_vars(\E j \in jobs : Exhaust(j))
    /\ WF_vars(\E j \in jobs : LeaseEnds(j))
    /\ WF_vars(\E w \in Workers, j \in jobs : Reserve(w, j))
    /\ \A w \in Workers : WF_vars(WorkerStep(w))

LiveSpec == Spec /\ Fairness

-----------------------------------------------------------------------------
(* Properties                                                              *)

\* Every variable has its type.
TypeOK ==
    /\ campaign \in {"none", "open", "completed"}
    /\ status \in [Deliveries -> {"none", "pending", "delivered", "failed"}]
    /\ attempts \in [Deliveries -> Nat]
    /\ record \in [Deliveries ->
                      [Channels -> {"none", "pending", "sent", "failed", "skipped"}]]
    /\ copies \in [Deliveries -> [Channels -> Nat]]
    /\ dispatch \in {"none", "owed", "done", "lost"}
    /\ jobs \subseteq JobRows
    /\ nextId \in Nat
    /\ at \in [Workers -> {"idle", "load", "next", "open", "channels", "told",
                           "catch", "done"}]
    /\ held \in [Workers -> [id : Nat, attempts : Nat]]
    /\ todo \in [Workers -> SUBSET Deliveries]
    /\ known \in [Workers -> SUBSET Deliveries]
    /\ inHand \in [Workers -> Deliveries \cup {Nobody}]
    /\ left \in [Workers -> SUBSET Channels]
    /\ answer \in [Workers -> (Channels \cup {NoChannel})
                              \X {"none", "sent", "failed", "skipped"}]
    /\ anySent \in [Workers -> BOOLEAN]
    /\ faults \in Nat

\* No recipient gets a message the attempts column does not account for, and no
\* row of the queue is run for it more often than $tries: a worker that is only slow
\* adds nothing, and each job released after an exception at most the tries it has
\* left.
CopiesAreCounted ==
    \A d \in Deliveries :
        /\ \A c \in Channels : copies[d][c] <= attempts[d]
        /\ attempts[d] <= Tries + faults * (Tries - 1)

\* A delivery is called delivered only if some channel took it, in this run or in
\* an earlier one.
DeliveredWasSent ==
    \A d \in Deliveries :
        status[d] = "delivered" => \E c \in Channels : copies[d][c] > 0

\* While fewer workers died than the job has tries, a pending delivery has a job
\* to come or a worker on its way to it: nothing is left behind by a redelivery, an
\* exception or a slow worker.
PendingIsLookedAfter ==
    \A d \in Pending :
        \/ dispatch = "owed" \/ jobs # {}
        \/ \E w \in Workers : at[w] = "load" \/ d \in todo[w]
        \/ dispatch = "lost" \/ faults >= Tries

\* Then the campaign also comes to its end.
EveryCampaignCompletes ==
    campaign = "open" ~> campaign = "completed" \/ dispatch = "lost" \/ faults >= Tries
=============================================================================
