------------------------- MODULE NotificationsProofs -------------------------
(***************************************************************************)
(* For any number of recipients, channels, workers and faults: however     *)
(* often the queue hands the job out and whoever dies over it, attempts    *)
(* accounts for every message a recipient gets, a delivery called          *)
(* delivered has been sent, and a pending one is looked after until as     *)
(* many processes died as the job has tries.                               *)
(***************************************************************************)
EXTENDS Notifications, FiniteSetTheorems, TLAPS

-----------------------------------------------------------------------------
(* The inductive invariant                                                 *)

\* A worker between Begin and the outcome has a delivery in hand.
HoldsDelivery ==
    \A w \in Workers :
        at[w] \in {"open", "channels", "told", "catch"} => inHand[w] \in Deliveries

\* A worker that goes through the channels and saw an answer saw it from a
\* channel, and a "sent" that it saw or counted means a message went out.
SentIsTrue ==
    \A w \in Workers :
        /\ at[w] = "told" =>
              /\ answer[w][1] \in Channels
              /\ answer[w][2] \in {"sent", "failed", "skipped"}
              /\ answer[w][2] = "sent" => copies[inHand[w]][answer[w][1]] > 0
        /\ anySent[w] =>
              /\ at[w] \in {"channels", "told", "catch"}
              /\ inHand[w] \in Deliveries
              /\ \E c \in Channels : copies[inHand[w]][c] > 0

\* The workers that began delivery d and still may send it over channel c.
Owing(d, c) ==
    {w \in Workers : /\ inHand[w] = d
                     /\ \/ at[w] = "open"
                        \/ at[w] \in {"channels", "told"} /\ c \in left[w]}

\* attempts covers the messages sent and those that may come of a started try.
TriesAreCounted ==
    \A d \in Deliveries, c \in Channels :
        copies[d][c] + Cardinality(Owing(d, c)) <= attempts[d]

USE DEF tableVars, queueVars, workerVars, vars

-----------------------------------------------------------------------------
(* Types                                                                   *)

\* The types of what a worker holds.
WorkerTypes ==
    [Workers -> {"idle", "load", "next", "open", "channels", "told", "catch", "done"}]
    \X [Workers -> [id : Nat, attempts : Nat]]
    \X [Workers -> SUBSET Deliveries] \X [Workers -> SUBSET Deliveries]
    \X [Workers -> Deliveries \cup {Nobody}] \X [Workers -> SUBSET Channels]
    \X [Workers -> (Channels \cup {NoChannel}) \X {"none", "sent", "failed", "skipped"}]
    \X [Workers -> BOOLEAN]

\* No row exists and no worker runs at first.
LEMMA InitTyped == Init => TypeOK
BY NobodyIsNoDelivery DEF Init, TypeOK, NoJob, NoAnswer

\* The queue's steps keep the types.
LEMMA QueueTyped ==
    ASSUME TypeOK,
           \/ Create \/ Dispatch \/ DispatchLost
           \/ \E j \in jobs : Exhaust(j) \/ LeaseEnds(j)
           \/ \E w \in Workers :
                 (\E j \in jobs : Reserve(w, j)) \/ Crash(w) \/ Throw(w) \/ DeleteJob(w)
    PROVE  TypeOK'
<1>1. CASE Create
  BY <1>1 DEF Create, TypeOK
<1>2. ASSUME NEW id \in Nat, NEW n \in Nat
      PROVE  /\ Row(id, n, "ready") \in JobRows /\ Row(id, n, "reserved") \in JobRows
             /\ Without(id) \subseteq JobRows
  BY DEF Row, Without, JobRows, TypeOK
<1>3. CASE Dispatch
  BY <1>2, <1>3 DEF Dispatch, TypeOK
<1>4. CASE DispatchLost
  BY <1>4 DEF DispatchLost, TypeOK
<1>5. ASSUME NEW j \in jobs, Exhaust(j) \/ LeaseEnds(j) PROVE TypeOK'
  <2>1. jobs' \subseteq JobRows
    <3>1. j.id \in Nat /\ j.attempts \in Nat
      BY DEF TypeOK, JobRows
    <3>2. CASE Exhaust(j)
      BY <1>2, <3>1, <3>2 DEF Exhaust
    <3>3. CASE LeaseEnds(j)
      BY <1>2, <3>1, <3>3 DEF LeaseEnds
    <3> QED BY <1>5, <3>2, <3>3
  <2> QED BY <1>5, <2>1 DEF Exhaust, LeaseEnds, TypeOK
<1>6. ASSUME NEW w \in Workers, NEW j \in jobs, Reserve(w, j) PROVE TypeOK'
  <2>1. j.id \in Nat /\ j.attempts \in Nat
    BY DEF TypeOK, JobRows
  <2>2. Without(j.id) \subseteq JobRows /\ Row(j.id, j.attempts + 1, "reserved") \in JobRows
    BY <1>2, <2>1
  <2>3. [id |-> j.id, attempts |-> j.attempts + 1] \in [id : Nat, attempts : Nat]
    BY <2>1
  <2>4. jobs' \subseteq JobRows /\ held' \in [Workers -> [id : Nat, attempts : Nat]]
    BY <1>6, <2>2, <2>3 DEF Reserve, TypeOK
  <2> QED BY <1>6, <2>4 DEF Reserve, TypeOK
<1>7. ASSUME NEW w \in Workers, Stop(w) PROVE workerVars' \in WorkerTypes
  BY <1>7 DEF Stop, TypeOK, NoJob, NoAnswer, WorkerTypes
<1>8. ASSUME NEW w \in Workers, Crash(w) \/ Throw(w) \/ DeleteJob(w) PROVE TypeOK'
  <2>1. held[w].id \in Nat /\ held[w].attempts \in Nat
    BY DEF TypeOK
  <2>2. jobs' \subseteq JobRows /\ nextId' \in Nat
    <3>1. CASE Crash(w)
      BY <3>1 DEF Crash, TypeOK
    <3>2. CASE DeleteJob(w)
      BY <1>2, <2>1, <3>2 DEF DeleteJob, TypeOK
    <3>3. CASE Throw(w) /\ held[w].attempts >= Tries
      BY <1>2, <2>1, <3>3 DEF Throw, TypeOK
    <3>4. CASE Throw(w) /\ ~(held[w].attempts >= Tries)
      <4>1. nextId \in Nat
        BY DEF TypeOK
      <4>2. Without(held[w].id) \subseteq JobRows
            /\ Row(nextId, held[w].attempts, "ready") \in JobRows
        BY <1>2, <2>1, <4>1
      <4>3. /\ jobs' = Without(held[w].id) \cup {Row(nextId, held[w].attempts, "ready")}
            /\ nextId' = nextId + 1
        BY <3>4 DEF Throw
      <4> QED BY <4>1, <4>2, <4>3
    <3> QED BY <1>8, <3>1, <3>2, <3>3, <3>4
  <2>3. workerVars' \in WorkerTypes
    BY <1>7, <1>8 DEF Crash, Throw, DeleteJob
  <2>4. /\ UNCHANGED <<campaign, status, attempts, record, copies, dispatch>>
        /\ faults' \in Nat
    <3>1. CASE DeleteJob(w)
      BY <3>1 DEF DeleteJob, TypeOK
    <3>2. CASE Crash(w)
      BY <3>2 DEF Crash, TypeOK
    <3>3. CASE Throw(w)
      BY <3>3 DEF Throw, TypeOK
    <3> QED BY <1>8, <3>1, <3>2, <3>3
  <2> QED BY <2>2, <2>3, <2>4 DEF TypeOK, WorkerTypes
<1> QED BY <1>1, <1>3, <1>4, <1>5, <1>6, <1>8

\* dispatch inserts all channel records of a delivery or none.
LEMMA OpenedRecords ==
    ASSUME NEW w \in Workers, OpenChannels(w)
    PROVE  /\ \/ record' = record
              \/ record' = [record EXCEPT ![inHand[w]] = [c \in Channels |-> "pending"]]
           /\ \E word \in {"catch", "channels"} : at' = [at EXCEPT ![w] = word]
           /\ left' = left \/ left' = [left EXCEPT ![w] = Channels]
BY DEF OpenChannels

\* So do the steps of handle.
LEMMA HandleTyped ==
    ASSUME TypeOK, HoldsDelivery, SentIsTrue, NEW w \in Workers, HandleStep(w)
    PROVE  TypeOK'
<1> USE DEF TypeOK, NoAnswer
<1>1. CASE Load(w)
  BY <1>1 DEF Load, Pending
<1>2. CASE OpenChannels(w)
  <2>1. inHand[w] \in Deliveries
    BY <1>2 DEF OpenChannels, HoldsDelivery
  <2>2. [c \in Channels |-> "pending"]
           \in [Channels -> {"none", "pending", "sent", "failed", "skipped"}]
    OBVIOUS
  <2>3. record' \in [Deliveries ->
                      [Channels -> {"none", "pending", "sent", "failed", "skipped"}]]
    <3>1. \/ record' = record
          \/ record' = [record EXCEPT ![inHand[w]] = [c \in Channels |-> "pending"]]
      BY <1>2, OpenedRecords
    <3> QED BY <2>1, <2>2, <3>1
  <2>4. at' \in [Workers -> {"idle", "load", "next", "open", "channels", "told",
                             "catch", "done"}]
        /\ left' \in [Workers -> SUBSET Channels]
    BY <1>2, OpenedRecords
  <2> QED BY <1>2, <2>3, <2>4 DEF OpenChannels
<1>3. CASE NoteAnswer(w)
  BY <1>3 DEF NoteAnswer, HoldsDelivery, SentIsTrue
<1>4. ASSUME NEW word \in {"delivered", "failed"}, Put(w, word) PROVE TypeOK'
  BY <1>4 DEF Put
<1>5. CASE Settle(w) \/ Catch(w)
  BY <1>4, <1>5 DEF Settle, Catch
<1>6. CASE Complete(w)
  BY <1>6 DEF Complete
<1>7. ASSUME NEW d \in Deliveries, Begin(w, d) PROVE TypeOK'
  BY <1>7 DEF Begin
<1>8. ASSUME NEW c \in Channels, Send(w, c) PROVE TypeOK'
  BY <1>8 DEF Send, HoldsDelivery
<1>9. ASSUME NEW c \in Channels, SendThrows(w, c) PROVE TypeOK'
  BY <1>9 DEF SendThrows, HoldsDelivery
<1> QED
  BY <1>1, <1>2, <1>3, <1>5, <1>6, <1>7, <1>8, <1>9 DEF HandleStep

-----------------------------------------------------------------------------
(* What was sent                                                           *)

\* Nothing is sent, in hand or delivered at first.
LEMMA InitTrue == Init => HoldsDelivery /\ SentIsTrue /\ DeliveredWasSent
BY DEF Init, HoldsDelivery, SentIsTrue, DeliveredWasSent

\* The queue's steps only take a worker's delivery and answers away from it.
LEMMA QueueTrue ==
    ASSUME TypeOK, HoldsDelivery, SentIsTrue, DeliveredWasSent,
           \/ Create \/ Dispatch \/ DispatchLost
           \/ \E j \in jobs : Exhaust(j) \/ LeaseEnds(j)
           \/ \E w \in Workers :
                 (\E j \in jobs : Reserve(w, j)) \/ Crash(w) \/ Throw(w) \/ DeleteJob(w)
    PROVE  HoldsDelivery' /\ SentIsTrue' /\ DeliveredWasSent'
<1> USE DEF TypeOK, HoldsDelivery, SentIsTrue, DeliveredWasSent, Stop
<1>1. CASE Create \/ Dispatch \/ DispatchLost
  <2>1. UNCHANGED <<copies, at, inHand, answer, anySent>>
    BY <1>1 DEF Create, Dispatch, DispatchLost
  <2>2. status' = status \/ status' = [d \in Deliveries |-> "pending"]
    BY <1>1 DEF Create, Dispatch, DispatchLost
  <2> QED BY <2>1, <2>2
<1>2. ASSUME NEW j \in jobs, Exhaust(j) \/ LeaseEnds(j)
      PROVE  HoldsDelivery' /\ SentIsTrue' /\ DeliveredWasSent'
  <2>1. UNCHANGED <<status, copies, at, inHand, answer, anySent>>
    BY <1>2 DEF Exhaust, LeaseEnds
  <2> QED BY <2>1
<1>3. ASSUME NEW w \in Workers, NEW j \in jobs, Reserve(w, j)
      PROVE  HoldsDelivery' /\ SentIsTrue' /\ DeliveredWasSent'
  BY <1>3 DEF Reserve
<1>4. ASSUME NEW w \in Workers, Crash(w) \/ Throw(w) \/ DeleteJob(w)
      PROVE  HoldsDelivery' /\ SentIsTrue' /\ DeliveredWasSent'
  <2>1. /\ Stop(w)
        /\ UNCHANGED <<status, copies>>
    BY <1>4 DEF Crash, Throw, DeleteJob
  <2>2. at'[w] = "idle" /\ ~anySent'[w]
    BY <2>1
  <2>3. \A v \in Workers : v # w =>
           /\ at'[v] = at[v] /\ inHand'[v] = inHand[v]
           /\ answer'[v] = answer[v] /\ anySent'[v] = anySent[v]
    BY <2>1
  <2>4. HoldsDelivery'
    BY <2>2, <2>3
  <2>5. SentIsTrue'
    BY <2>1, <2>2, <2>3
  <2>6. DeliveredWasSent'
    BY <2>1
  <2> QED BY <2>4, <2>5, <2>6
<1> QED BY <1>1, <1>2, <1>3, <1>4

\* No message is taken back.
LEMMA CopiesGrow ==
    ASSUME TypeOK, HoldsDelivery, NEW w \in Workers, HandleStep(w)
    PROVE  \A d \in Deliveries, c \in Channels : copies'[d][c] >= copies[d][c]
<1> USE DEF TypeOK, HoldsDelivery
<1>1. ASSUME NEW c \in Channels, Send(w, c) \/ SendThrows(w, c)
      PROVE  \A d \in Deliveries, e \in Channels : copies'[d][e] >= copies[d][e]
  <2>1. inHand[w] \in Deliveries
    BY <1>1 DEF Send, SendThrows
  <2>2. \/ UNCHANGED copies
        \/ \E n \in {0, 1} : copies' = [copies EXCEPT ![inHand[w]][c] = @ + n]
    BY <1>1 DEF Send, SendThrows
  <2>3. ASSUME NEW n \in {0, 1}, copies' = [copies EXCEPT ![inHand[w]][c] = @ + n],
               NEW d \in Deliveries, NEW e \in Channels
        PROVE  copies'[d][e] >= copies[d][e]
    <3>1. copies[d][e] \in Nat
      OBVIOUS
    <3>2. copies'[d][e] = copies[d][e] \/ copies'[d][e] = copies[d][e] + n
      BY <2>3
    <3> QED BY <3>1, <3>2
  <2>4. ASSUME UNCHANGED copies, NEW d \in Deliveries, NEW e \in Channels
        PROVE  copies'[d][e] >= copies[d][e]
    BY <2>4
  <2> QED BY <2>2, <2>3, <2>4
<1>2. CASE UNCHANGED copies
  BY <1>2
<1> QED
  BY <1>1, <1>2 DEF HandleStep, Load, OpenChannels, NoteAnswer, Settle, Catch, Put,
                    Complete, Begin

\* handle notes "sent" only of what a driver sent, and "delivered" only of what it
\* noted.
LEMMA HandleTrue ==
    ASSUME TypeOK, HoldsDelivery, SentIsTrue, DeliveredWasSent,
           NEW w \in Workers, HandleStep(w)
    PROVE  HoldsDelivery' /\ SentIsTrue' /\ DeliveredWasSent'
<1> USE CopiesGrow DEF TypeOK, HoldsDelivery, SentIsTrue, DeliveredWasSent
<1>1. CASE Load(w)
  BY <1>1 DEF Load
<1>2. CASE OpenChannels(w)
  <2>1. /\ UNCHANGED <<status, copies, inHand, answer, anySent>>
        /\ at[w] = "open" /\ inHand[w] \in Deliveries
    BY <1>2 DEF OpenChannels
  <2>2. PICK word \in {"catch", "channels"} : at' = [at EXCEPT ![w] = word]
    BY <1>2, OpenedRecords
  <2>3. at'[w] = word /\ ~anySent[w] /\ \A v \in Workers \ {w} : at'[v] = at[v]
    BY <2>1, <2>2
  <2>4. HoldsDelivery'
    BY <2>1, <2>3
  <2>5. SentIsTrue' /\ DeliveredWasSent'
    BY <2>1, <2>3
  <2> QED BY <2>4, <2>5
<1>3. CASE NoteAnswer(w)
  BY <1>3 DEF NoteAnswer, NoAnswer
<1>4. CASE Settle(w) \/ Catch(w)
  <2>1. PICK word \in {"delivered", "failed"} :
           Put(w, word) /\ (word = "delivered" => anySent[w])
    BY <1>4 DEF Settle, Catch
  <2>2. DeliveredWasSent'
    BY <2>1 DEF Put
  <2>3. HoldsDelivery' /\ SentIsTrue'
    BY <2>1 DEF Put
  <2> QED BY <2>2, <2>3
<1>5. CASE Complete(w)
  BY <1>5 DEF Complete
<1>6. ASSUME NEW d \in Deliveries, Begin(w, d)
      PROVE  HoldsDelivery' /\ SentIsTrue' /\ DeliveredWasSent'
  BY <1>6 DEF Begin
<1>7. ASSUME NEW c \in Channels, Send(w, c)
      PROVE  HoldsDelivery' /\ SentIsTrue' /\ DeliveredWasSent'
  <2>1. PICK word \in {"sent", "failed", "skipped"} :
           /\ answer' = [answer EXCEPT ![w] = <<c, word>>]
           /\ copies' = IF word = "sent" THEN [copies EXCEPT ![inHand[w]][c] = @ + 1]
                        ELSE copies
    BY <1>7 DEF Send
  <2>2. answer'[w] = <<c, word>> /\ \A v \in Workers : v # w => answer'[v] = answer[v]
    BY <2>1
  <2>3. word = "sent" => copies'[inHand[w]][c] > 0
    BY <1>7, <2>1 DEF Send
  <2> QED BY <1>7, <2>2, <2>3 DEF Send
<1>8. ASSUME NEW c \in Channels, SendThrows(w, c)
      PROVE  HoldsDelivery' /\ SentIsTrue' /\ DeliveredWasSent'
  <2>1. \A d \in Deliveries, e \in Channels :
           copies[d][e] \in Nat /\ copies'[d][e] \in Nat /\ copies'[d][e] >= copies[d][e]
    BY <1>8, HandleTyped
  <2>2. UNCHANGED <<status, inHand, answer, anySent>>
    BY <1>8 DEF SendThrows
  <2>3. at'[w] = "catch" /\ \A v \in Workers : v # w => at'[v] = at[v]
    BY <1>8 DEF SendThrows
  <2>4. HoldsDelivery'
    BY <1>8, <2>2, <2>3 DEF SendThrows
  <2>5. SentIsTrue'
    <3> SUFFICES ASSUME NEW v \in Workers
                 PROVE  /\ at'[v] = "told" =>
                             /\ answer'[v][1] \in Channels
                             /\ answer'[v][2] \in {"sent", "failed", "skipped"}
                             /\ answer'[v][2] = "sent" =>
                                   copies'[inHand'[v]][answer'[v][1]] > 0
                        /\ anySent'[v] =>
                             /\ at'[v] \in {"channels", "told", "catch"}
                             /\ inHand'[v] \in Deliveries
                             /\ \E e \in Channels : copies'[inHand'[v]][e] > 0
      OBVIOUS
    <3>1. ASSUME at'[v] = "told"
          PROVE  /\ answer'[v][1] \in Channels
                 /\ answer'[v][2] \in {"sent", "failed", "skipped"}
                 /\ answer'[v][2] = "sent" =>
                       copies'[inHand'[v]][answer'[v][1]] > 0
      <4>1. at[v] = "told" /\ inHand[v] \in Deliveries
        BY <2>3, <3>1
      <4> QED BY <2>1, <2>2, <4>1
    <3>2. ASSUME anySent'[v]
          PROVE  /\ at'[v] \in {"channels", "told", "catch"}
                 /\ inHand'[v] \in Deliveries
                 /\ \E e \in Channels : copies'[inHand'[v]][e] > 0
      <4>1. /\ at[v] \in {"channels", "told", "catch"}
            /\ inHand[v] \in Deliveries
            /\ \E e \in Channels : copies[inHand[v]][e] > 0
        BY <2>2, <3>2
      <4>2. at'[v] \in {"channels", "told", "catch"}
        BY <2>3, <4>1
      <4>3. PICK e \in Channels : copies[inHand[v]][e] > 0
        BY <4>1
      <4>4. copies'[inHand[v]][e] > 0
        BY <2>1, <4>1, <4>3
      <4> QED BY <2>2, <4>1, <4>2, <4>4
    <3> QED BY <3>1, <3>2
  <2>6. DeliveredWasSent'
    <3> SUFFICES ASSUME NEW d \in Deliveries, status[d] = "delivered"
                 PROVE  \E e \in Channels : copies'[d][e] > 0
      BY <2>2
    <3>1. PICK e \in Channels : copies[d][e] > 0
      OBVIOUS
    <3> QED BY <2>1, <3>1
  <2> QED BY <2>4, <2>5, <2>6
<1> QED
  BY <1>1, <1>2, <1>3, <1>4, <1>5, <1>6, <1>7, <1>8 DEF HandleStep

-----------------------------------------------------------------------------
(* Messages and attempts                                                   *)

\* A step that starts no try and sends nothing keeps the account.
LEMMA NoNewDebt ==
    ASSUME TypeOK, TriesAreCounted, UNCHANGED <<attempts, copies>>,
           \A d \in Deliveries, c \in Channels : Owing(d, c)' \subseteq Owing(d, c)
    PROVE  TriesAreCounted'
<1> SUFFICES ASSUME NEW d \in Deliveries, NEW c \in Channels
             PROVE  copies'[d][c] + Cardinality(Owing(d, c)') <= attempts'[d]
  BY DEF TriesAreCounted
<1>1. IsFiniteSet(Owing(d, c))
  BY WorkersAreFew, FS_Subset DEF Owing
<1>2. /\ IsFiniteSet(Owing(d, c)')
      /\ Cardinality(Owing(d, c)') <= Cardinality(Owing(d, c))
  BY <1>1, FS_Subset
<1>3. Cardinality(Owing(d, c)) \in Nat /\ Cardinality(Owing(d, c)') \in Nat
  BY <1>1, <1>2, FS_CardinalityType
<1>4. copies[d][c] + Cardinality(Owing(d, c)) <= attempts[d]
  BY DEF TriesAreCounted
<1>5. copies[d][c] \in Nat /\ attempts[d] \in Nat
  BY DEF TypeOK
<1> QED BY <1>2, <1>3, <1>4, <1>5

\* A try is counted before its first message.
LEMMA BeginCounted ==
    ASSUME TypeOK, TriesAreCounted, NEW w \in Workers, NEW d \in Deliveries, Begin(w, d)
    PROVE  TriesAreCounted'
<1> SUFFICES ASSUME NEW e \in Deliveries, NEW c \in Channels
             PROVE  copies'[e][c] + Cardinality(Owing(e, c)') <= attempts'[e]
  BY DEF TriesAreCounted
<1>1. IsFiniteSet(Owing(e, c)) /\ Cardinality(Owing(e, c)) \in Nat
  BY WorkersAreFew, FS_Subset, FS_CardinalityType DEF Owing
<1>2. copies[e][c] \in Nat /\ attempts[e] \in Nat /\ copies' = copies
  BY DEF TypeOK, Begin
<1>3. copies[e][c] + Cardinality(Owing(e, c)) <= attempts[e]
  BY DEF TriesAreCounted
<1>4. CASE e = d
  <2>1. Owing(e, c)' \subseteq Owing(e, c) \cup {w}
    BY DEF Begin, Owing, TypeOK
  <2>2. /\ IsFiniteSet(Owing(e, c) \cup {w})
        /\ Cardinality(Owing(e, c) \cup {w}) <= Cardinality(Owing(e, c)) + 1
        /\ Cardinality(Owing(e, c) \cup {w}) \in Nat
    <3>1. /\ IsFiniteSet(Owing(e, c) \cup {w})
          /\ Cardinality(Owing(e, c) \cup {w}) =
                IF w \in Owing(e, c) THEN Cardinality(Owing(e, c))
                                     ELSE Cardinality(Owing(e, c)) + 1
      BY <1>1, FS_AddElement
    <3> QED BY <1>1, <3>1
  <2>3. /\ IsFiniteSet(Owing(e, c)')
        /\ Cardinality(Owing(e, c)') <= Cardinality(Owing(e, c) \cup {w})
    BY <2>1, <2>2, FS_Subset
  <2>4. Cardinality(Owing(e, c)') \in Nat
    BY <2>3, FS_CardinalityType
  <2>5. attempts'[e] = attempts[e] + 1
    BY <1>4 DEF Begin, TypeOK
  <2> QED BY <1>1, <1>2, <1>3, <2>2, <2>3, <2>4, <2>5
<1>5. CASE e # d
  <2>1. Owing(e, c)' \subseteq Owing(e, c)
    BY <1>5 DEF Begin, Owing, TypeOK
  <2>2. /\ IsFiniteSet(Owing(e, c)')
        /\ Cardinality(Owing(e, c)') <= Cardinality(Owing(e, c))
    BY <1>1, <2>1, FS_Subset
  <2>3. Cardinality(Owing(e, c)') \in Nat
    BY <2>2, FS_CardinalityType
  <2>4. attempts'[e] = attempts[e]
    BY <1>5 DEF Begin, TypeOK
  <2> QED BY <1>1, <1>2, <1>3, <2>2, <2>3, <2>4
<1> QED BY <1>4, <1>5

\* A message uses up the part of a counted try that it belongs to.
LEMMA SendCounted ==
    ASSUME TypeOK, HoldsDelivery, TriesAreCounted,
           NEW w \in Workers, NEW c \in Channels, Send(w, c) \/ SendThrows(w, c)
    PROVE  TriesAreCounted'
<1>1. inHand[w] \in Deliveries /\ w \in Owing(inHand[w], c)
  BY DEF Send, SendThrows, IsFirst, HoldsDelivery, Owing
<1>2. PICK n \in {0, 1} : copies' = [copies EXCEPT ![inHand[w]][c] = @ + n]
  <2>1. UNCHANGED copies \/ \E n \in {0, 1} : copies' = [copies EXCEPT ![inHand[w]][c] = @ + n]
    BY DEF Send, SendThrows
  <2>2. copies[inHand[w]][c] + 0 = copies[inHand[w]][c]
    BY <1>1 DEF TypeOK
  <2>3. copies = [copies EXCEPT ![inHand[w]][c] = @ + 0]
    BY <1>1, <2>2 DEF TypeOK
  <2> QED BY <2>1, <2>3
<1>3. UNCHANGED <<attempts, inHand>>
  BY DEF Send, SendThrows
<1> SUFFICES ASSUME NEW d \in Deliveries, NEW e \in Channels
             PROVE  copies'[d][e] + Cardinality(Owing(d, e)') <= attempts'[d]
  BY DEF TriesAreCounted
<1>4. IsFiniteSet(Owing(d, e)) /\ Cardinality(Owing(d, e)) \in Nat
  BY WorkersAreFew, FS_Subset, FS_CardinalityType DEF Owing
<1>5. copies[d][e] \in Nat /\ attempts[d] \in Nat
  BY DEF TypeOK
<1>6. copies[d][e] + Cardinality(Owing(d, e)) <= attempts[d]
  BY DEF TriesAreCounted
<1>7. Owing(d, e)' \subseteq Owing(d, e)
  BY DEF Send, SendThrows, Owing, TypeOK
<1>8. CASE d = inHand[w] /\ e = c
  <2>1. w \notin Owing(d, e)'
    BY <1>8 DEF Send, SendThrows, Owing, TypeOK
  <2>2. Owing(d, e)' \subseteq Owing(d, e) \ {w}
    BY <1>7, <2>1
  <2>3. /\ IsFiniteSet(Owing(d, e) \ {w})
        /\ Cardinality(Owing(d, e) \ {w}) = Cardinality(Owing(d, e)) - 1
        /\ Cardinality(Owing(d, e) \ {w}) \in Nat
    BY <1>1, <1>4, <1>8, FS_RemoveElement, FS_CardinalityType
  <2>4. /\ IsFiniteSet(Owing(d, e)')
        /\ Cardinality(Owing(d, e)') <= Cardinality(Owing(d, e) \ {w})
    BY <2>2, <2>3, FS_Subset
  <2>5. Cardinality(Owing(d, e)') \in Nat
    BY <2>4, FS_CardinalityType
  <2>6. copies'[d][e] = copies[d][e] + n
    BY <1>2, <1>8 DEF TypeOK
  <2> QED BY <1>3, <1>4, <1>5, <1>6, <2>3, <2>4, <2>5, <2>6
<1>9. CASE ~(d = inHand[w] /\ e = c)
  <2>1. copies'[d][e] = copies[d][e]
    BY <1>2, <1>9 DEF TypeOK
  <2>2. /\ IsFiniteSet(Owing(d, e)')
        /\ Cardinality(Owing(d, e)') <= Cardinality(Owing(d, e))
    BY <1>4, <1>7, FS_Subset
  <2>3. Cardinality(Owing(d, e)') \in Nat
    BY <2>2, FS_CardinalityType
  <2> QED BY <1>3, <1>4, <1>5, <1>6, <2>1, <2>2, <2>3
<1> QED BY <1>8, <1>9

\* A step outside the channels starts no try and sends nothing.
LEMMA OtherStepsCounted ==
    ASSUME TypeOK, TriesAreCounted, [Next]_vars,
           \A w \in Workers :
              /\ \A d \in Deliveries : ~Begin(w, d)
              /\ \A c \in Channels : ~Send(w, c) /\ ~SendThrows(w, c)
    PROVE  TriesAreCounted'
<1>1. CASE Create \/ Dispatch \/ DispatchLost \/ UNCHANGED vars
  <2>1. UNCHANGED <<attempts, copies, at, inHand, left>>
    BY <1>1 DEF Create, Dispatch, DispatchLost
  <2> QED BY <2>1, NoNewDebt DEF Owing
<1>2. ASSUME NEW j \in jobs, Exhaust(j) \/ LeaseEnds(j) PROVE TriesAreCounted'
  <2>1. UNCHANGED <<attempts, copies, at, inHand, left>>
    BY <1>2 DEF Exhaust, LeaseEnds
  <2> QED BY <2>1, NoNewDebt DEF Owing
<1>3. ASSUME NEW w \in Workers, UNCHANGED <<attempts, copies>>,
             \A v \in Workers : v # w =>
                at'[v] = at[v] /\ inHand'[v] = inHand[v] /\ left'[v] = left[v],
             at'[w] \in {"idle", "load", "next", "catch", "done"}
      PROVE  TriesAreCounted'
  BY <1>3, NoNewDebt DEF Owing
<1>4. ASSUME NEW w \in Workers, NEW j \in jobs, Reserve(w, j) PROVE TriesAreCounted'
  BY <1>3, <1>4 DEF Reserve, TypeOK
<1>5. ASSUME NEW w \in Workers, Crash(w) \/ Throw(w) \/ DeleteJob(w)
      PROVE  TriesAreCounted'
  <2>1. Stop(w) /\ UNCHANGED <<attempts, copies>>
    BY <1>5 DEF Crash, Throw, DeleteJob
  <2> QED BY <1>3, <2>1 DEF Stop, TypeOK
<1>6. ASSUME NEW w \in Workers, Load(w) \/ Complete(w) \/ Settle(w) \/ Catch(w)
      PROVE  TriesAreCounted'
  <2>1. UNCHANGED <<attempts, copies>>
    BY <1>6 DEF Load, Complete, Settle, Catch, Put
  <2>2. \A v \in Workers : v # w =>
           at'[v] = at[v] /\ inHand'[v] = inHand[v] /\ left'[v] = left[v]
    BY <1>6 DEF Load, Complete, Settle, Catch, Put, TypeOK
  <2>3. at'[w] \in {"next", "done"}
    BY <1>6 DEF Load, Complete, Settle, Catch, Put, TypeOK
  <2> QED BY <1>3, <2>1, <2>2, <2>3
<1>7. ASSUME NEW w \in Workers, OpenChannels(w) PROVE TriesAreCounted'
  <2>1. at[w] = "open" /\ UNCHANGED <<attempts, copies, inHand>>
    BY <1>7 DEF OpenChannels
  <2>2. \A v \in Workers : v # w => at'[v] = at[v] /\ left'[v] = left[v]
    BY <1>7, OpenedRecords DEF TypeOK
  <2>3. ASSUME NEW d \in Deliveries, NEW c \in Channels, NEW v \in Workers,
               v \in Owing(d, c)'
        PROVE  v \in Owing(d, c)
    BY <2>1, <2>2, <2>3 DEF Owing
  <2>4. \A d \in Deliveries, c \in Channels : Owing(d, c)' \subseteq Workers
    BY DEF Owing
  <2> QED BY <2>1, <2>3, <2>4, NoNewDebt
<1>8. ASSUME NEW w \in Workers, NoteAnswer(w) PROVE TriesAreCounted'
  <2>1. UNCHANGED <<attempts, copies, inHand, left>> /\ at[w] = "told"
    BY <1>8 DEF NoteAnswer
  <2>2. at'[w] = "channels" /\ \A v \in Workers : v # w => at'[v] = at[v]
    BY <1>8 DEF NoteAnswer, TypeOK
  <2>3. ASSUME NEW d \in Deliveries, NEW c \in Channels, NEW v \in Workers,
               v \in Owing(d, c)'
        PROVE  v \in Owing(d, c)
    BY <2>1, <2>2, <2>3 DEF Owing
  <2>4. \A d \in Deliveries, c \in Channels : Owing(d, c)' \subseteq Workers
    BY DEF Owing
  <2> QED BY <2>1, <2>3, <2>4, NoNewDebt
<1> QED
  BY <1>1, <1>2, <1>4, <1>5, <1>6, <1>7, <1>8 DEF Next, WorkerStep, HandleStep

-----------------------------------------------------------------------------
(* Attempts and tries                                                      *)

\* The tries that the rows of the queue still have: try n of row id.
Tickets ==
    {t \in (0 .. nextId) \X (1 .. Tries) :
        \E j \in jobs : (j.id = t[1] /\ j.attempts < t[2])}

\* The workers on a try that may yet begin delivery d.
Coming(d) ==
    {w \in Workers : at[w] = "load" \/ (d \in todo[w] /\ inHand[w] # d)}

ToDispatch == IF dispatch \in {"none", "owed"} THEN Tries ELSE 0

Allowed == Tries + faults * (Tries - 1)

\* The job is dispatched for a campaign, rows have ids that were given out, a worker holds a row whose try is counted,
\* and before its first delivery and between two it has none in hand.
QueueShape ==
    /\ campaign = "none" => dispatch = "none"
    /\ \A j \in jobs : j.id < nextId
    /\ \A w \in Workers : at[w] # "idle" => held[w].attempts >= 1
    /\ \A w \in Workers : at[w] \in {"idle", "load", "next"} => inHand[w] = Nobody

\* The attempts made, and those that may come of workers, rows and the dispatch.
TriesAreLimited ==
    \A d \in Deliveries :
        attempts[d] + Cardinality(Coming(d)) + Cardinality(Tickets) + ToDispatch
            <= Allowed

\* All these numbers are numbers.
LEMMA NumbersTyped ==
    ASSUME TypeOK
    PROVE  /\ IsFiniteSet(Tickets) /\ Cardinality(Tickets) \in Nat
           /\ \A d \in Deliveries :
                 IsFiniteSet(Coming(d)) /\ Cardinality(Coming(d)) \in Nat
           /\ ToDispatch \in Nat /\ Tries \in Nat /\ Tries >= 1
<1>1. nextId \in Nat /\ Tries \in Nat /\ Tries >= 1
  BY TriesIsPositive DEF TypeOK
<1>2. IsFiniteSet(0 .. nextId) /\ IsFiniteSet(1 .. Tries)
  BY <1>1, FS_Interval
<1>3. IsFiniteSet((0 .. nextId) \X (1 .. Tries))
  BY <1>2, FS_Product
<1>4. IsFiniteSet(Tickets) /\ Cardinality(Tickets) \in Nat
  BY <1>3, FS_Subset, FS_CardinalityType DEF Tickets
<1>5. ASSUME NEW d \in Deliveries
      PROVE  IsFiniteSet(Coming(d)) /\ Cardinality(Coming(d)) \in Nat
  BY WorkersAreFew, FS_Subset, FS_CardinalityType DEF Coming
<1> QED BY <1>1, <1>4, <1>5 DEF ToDispatch

\* A row that is taken, put back or deleted has no tries that it had not before.
LEMMA NoNewTickets ==
    ASSUME TypeOK, TypeOK', nextId' = nextId,
           \A j \in jobs' : \E k \in jobs : k.id = j.id /\ k.attempts <= j.attempts
    PROVE  Tickets' \subseteq Tickets
<1> SUFFICES ASSUME NEW t \in (0 .. nextId) \X (1 .. Tries), NEW j \in jobs',
                    j.id = t[1], j.attempts < t[2]
             PROVE  \E k \in jobs : (k.id = t[1] /\ k.attempts < t[2])
  BY DEF Tickets
<1>1. PICK k \in jobs : k.id = j.id /\ k.attempts <= j.attempts
  OBVIOUS
<1>2. k.attempts \in Nat /\ j.attempts \in Nat /\ t[2] \in Nat
  BY TriesIsPositive DEF TypeOK, JobRows
<1> QED BY <1>1, <1>2

\* A fault may only raise what is allowed, and by the tries after the first.
LEMMA FaultAllows ==
    ASSUME TypeOK
    PROVE  /\ Allowed \in Nat
           /\ faults' = faults => Allowed' = Allowed
           /\ faults' = faults + 1 => Allowed' = Allowed + (Tries - 1)
<1> DEFINE T == Tries - 1
<1>1. faults \in Nat /\ Tries \in Nat /\ T \in Nat
  BY TriesIsPositive DEF TypeOK
<1>2. faults * T \in Nat /\ (faults + 1) * T = faults * T + T
  <2> HIDE DEF T
  <2> QED BY <1>1
<1>3. Allowed = Tries + faults * T /\ Allowed' = Tries + faults' * T
  BY DEF Allowed
<1> HIDE DEF T
<1>4. /\ Allowed \in Nat
      /\ faults' = faults => Allowed' = Allowed
      /\ faults' = faults + 1 => Allowed' = Allowed + T
  BY <1>1, <1>2, <1>3
<1> QED BY <1>4 DEF T

\* A step that begins nothing and brings no try keeps the limit.
LEMMA NoNewTries ==
    ASSUME TypeOK, TypeOK', TriesAreLimited, attempts' = attempts,
           faults' = faults \/ faults' = faults + 1,
           Tickets' \subseteq Tickets, ToDispatch' <= ToDispatch,
           \A d \in Deliveries : Coming(d)' \subseteq Coming(d)
    PROVE  TriesAreLimited'
<1> SUFFICES ASSUME NEW d \in Deliveries
             PROVE  attempts[d] + Cardinality(Coming(d)') + Cardinality(Tickets')
                       + ToDispatch' <= Allowed'
  BY DEF TriesAreLimited
<1>1. /\ Cardinality(Tickets) \in Nat /\ Cardinality(Coming(d)) \in Nat
      /\ Cardinality(Tickets') \in Nat /\ Cardinality(Coming(d)') \in Nat
      /\ ToDispatch \in Nat /\ ToDispatch' \in Nat /\ Tries \in Nat /\ Tries >= 1
  <2>1. Cardinality(Tickets) \in Nat /\ Cardinality(Coming(d)) \in Nat
        /\ ToDispatch \in Nat /\ Tries \in Nat /\ Tries >= 1
    BY NumbersTyped
  <2>2. /\ IsFiniteSet(Tickets') /\ IsFiniteSet(Coming(d)')
    BY NumbersTyped, FS_Subset
  <2>3. Cardinality(Tickets') \in Nat /\ Cardinality(Coming(d)') \in Nat
    BY <2>2, FS_CardinalityType
  <2> QED BY <2>1, <2>3 DEF ToDispatch
<1>2. /\ Cardinality(Tickets') <= Cardinality(Tickets)
      /\ Cardinality(Coming(d)') <= Cardinality(Coming(d))
  BY NumbersTyped, FS_Subset
<1>3. /\ attempts[d] \in Nat
      /\ attempts[d] + Cardinality(Coming(d)) + Cardinality(Tickets) + ToDispatch
            <= Allowed
  BY DEF TypeOK, TriesAreLimited
<1>4. Allowed \in Nat /\ (Allowed' = Allowed \/ Allowed' = Allowed + (Tries - 1))
  BY FaultAllows
<1> QED BY <1>1, <1>2, <1>3, <1>4

\* handle goes on with the try its worker has.
LEMMA HandleLimited ==
    ASSUME TypeOK, TypeOK', HoldsDelivery, QueueShape, TriesAreLimited,
           NEW w \in Workers, HandleStep(w)
    PROVE  QueueShape' /\ TriesAreLimited'
<1> USE DEF TypeOK
<1>1. UNCHANGED <<dispatch, jobs, nextId, held, faults>>
  BY DEF HandleStep, Load, OpenChannels, NoteAnswer, Settle, Catch, Put, Complete, Begin,
         Send, SendThrows
<1>2. Tickets' = Tickets /\ ToDispatch' = ToDispatch
  BY <1>1 DEF Tickets, ToDispatch
<1>3. QueueShape'
  <2>1. /\ at[w] \notin {"idle", "done"}
        /\ \A v \in Workers \ {w} : at'[v] = at[v] /\ inHand'[v] = inHand[v]
    BY DEF HandleStep, Load, OpenChannels, NoteAnswer, Settle, Catch, Put, Complete,
           Begin, Send, SendThrows
  <2>2. held[w].attempts >= 1
    BY <2>1 DEF QueueShape
  <2>3. at'[w] \in {"idle", "load", "next"} => inHand'[w] = Nobody
    <3>1. CASE Load(w)
      BY <3>1 DEF Load, QueueShape
    <3>2. CASE Settle(w) \/ Catch(w)
      BY <3>2 DEF Settle, Catch, Put
    <3>3. CASE OpenChannels(w)
      <4>1. PICK word \in {"catch", "channels"} : at' = [at EXCEPT ![w] = word]
        BY <3>3, OpenedRecords
      <4>2. at'[w] = word
        BY <4>1
      <4> QED BY <4>2
    <3>4. CASE NoteAnswer(w) \/ Complete(w) \/ \E d \in Deliveries : Begin(w, d)
      BY <3>4 DEF NoteAnswer, Complete, Begin
    <3>5. CASE \E c \in Channels : Send(w, c) \/ SendThrows(w, c)
      BY <3>5 DEF Send, SendThrows
    <3> QED BY <3>1, <3>2, <3>3, <3>4, <3>5 DEF HandleStep
  <2>4. campaign' = "none" => campaign = "none"
    BY DEF HandleStep, Load, OpenChannels, NoteAnswer, Settle, Catch, Put, Complete,
           Begin, Send, SendThrows
  <2> QED BY <1>1, <2>1, <2>2, <2>3, <2>4 DEF QueueShape
<1>4. ASSUME NEW d \in Deliveries, Begin(w, d) PROVE TriesAreLimited'
  <2>1. w \in Coming(d) /\ d # Nobody
    BY <1>4, NobodyIsNoDelivery DEF Begin, IsFirst, Coming, QueueShape
  <2> SUFFICES ASSUME NEW e \in Deliveries
               PROVE  attempts'[e] + Cardinality(Coming(e)') + Cardinality(Tickets)
                         + ToDispatch <= Allowed
    BY <1>1, <1>2, FaultAllows DEF TriesAreLimited
  <2>2. /\ Cardinality(Tickets) \in Nat /\ Cardinality(Coming(e)) \in Nat
        /\ IsFiniteSet(Coming(e)) /\ ToDispatch \in Nat /\ Allowed \in Nat
        /\ attempts[e] \in Nat
    BY NumbersTyped, FaultAllows
  <2>3. attempts[e] + Cardinality(Coming(e)) + Cardinality(Tickets) + ToDispatch
           <= Allowed
    BY DEF TriesAreLimited
  <2>4. CASE e = d
    <3>1. Coming(e)' \subseteq Coming(e) \ {w} /\ attempts'[e] = attempts[e] + 1
      BY <1>4, <2>4 DEF Begin, Coming
    <3>2. /\ IsFiniteSet(Coming(e) \ {w})
          /\ Cardinality(Coming(e) \ {w}) = Cardinality(Coming(e)) - 1
          /\ Cardinality(Coming(e) \ {w}) \in Nat
      BY <2>1, <2>2, <2>4, FS_RemoveElement, FS_CardinalityType
    <3>3. /\ Cardinality(Coming(e)') <= Cardinality(Coming(e) \ {w})
          /\ Cardinality(Coming(e)') \in Nat
      BY <3>1, <3>2, FS_Subset, FS_CardinalityType
    <3> QED BY <2>2, <2>3, <3>1, <3>2, <3>3
  <2>5. CASE e # d
    <3>1. Coming(e)' \subseteq Coming(e) /\ attempts'[e] = attempts[e]
      BY <1>4, <2>5, NobodyIsNoDelivery DEF Begin, Coming, QueueShape
    <3>2. /\ Cardinality(Coming(e)') <= Cardinality(Coming(e))
          /\ Cardinality(Coming(e)') \in Nat
      BY <2>2, <3>1, FS_Subset, FS_CardinalityType
    <3> QED BY <2>2, <2>3, <3>1, <3>2
  <2> QED BY <2>4, <2>5
<1>5. ASSUME \A d \in Deliveries : ~Begin(w, d) PROVE TriesAreLimited'
  <2>1. UNCHANGED attempts
    BY <1>5 DEF HandleStep, Load, OpenChannels, NoteAnswer, Settle, Catch, Put, Complete,
                Send, SendThrows
  <2>2. ASSUME NEW d \in Deliveries PROVE Coming(d)' \subseteq Coming(d)
    <3>1. CASE Load(w)
      BY <3>1 DEF Load, Coming
    <3>2. ASSUME NEW word \in {"delivered", "failed"}, Put(w, word), at[w] # "load"
          PROVE  Coming(d)' \subseteq Coming(d)
      BY <3>2 DEF Put, Coming
    <3>3. CASE Settle(w) \/ Catch(w)
      BY <3>2, <3>3 DEF Settle, Catch
    <3>4. CASE UNCHANGED <<todo, inHand>> /\ at'[w] # "load"
               /\ \A v \in Workers \ {w} : at'[v] = at[v]
      BY <3>4 DEF Coming
    <3>5. \/ Load(w) \/ Settle(w) \/ Catch(w)
          \/ /\ UNCHANGED <<todo, inHand>> /\ at'[w] # "load"
             /\ \A v \in Workers \ {w} : at'[v] = at[v]
      BY <1>5 DEF HandleStep, OpenChannels, NoteAnswer, Complete, Send, SendThrows
    <3> QED BY <3>1, <3>3, <3>4, <3>5
  <2>3. ToDispatch <= ToDispatch
    BY NumbersTyped
  <2> QED BY <1>1, <1>2, <2>1, <2>2, <2>3, NoNewTries
<1> QED BY <1>3, <1>4, <1>5

\* A row that is dispatched or released brings the tries it has left.
LEMMA RowBrings ==
    ASSUME TypeOK, QueueShape, NEW n \in Nat, n <= Tries, nextId' = nextId + 1,
           jobs' \subseteq jobs \cup {Row(nextId, n, "ready")}
    PROVE  /\ Cardinality(Tickets') \in Nat
           /\ Cardinality(Tickets') <= Cardinality(Tickets) + (Tries - n)
<1> DEFINE new == {nextId} \X (n + 1 .. Tries)
<1>1. nextId \in Nat /\ Tries \in Nat
  BY TriesIsPositive DEF TypeOK
<1>2. Tickets' \subseteq Tickets \cup new
  <2> SUFFICES ASSUME NEW t \in (0 .. nextId + 1) \X (1 .. Tries), NEW j \in jobs',
                      j.id = t[1], j.attempts < t[2]
               PROVE  t \in Tickets \cup new
    BY DEF Tickets
  <2>1. CASE j \in jobs
    <3>1. j.id < nextId /\ j.id \in Nat
      BY <2>1 DEF QueueShape, TypeOK, JobRows
    <3>2. t \in (0 .. nextId) \X (1 .. Tries)
      BY <1>1, <3>1
    <3> QED BY <2>1, <3>2 DEF Tickets
  <2>2. CASE j = Row(nextId, n, "ready")
    <3>1. t[1] = nextId /\ t[2] \in n + 1 .. Tries
      BY <1>1, <2>2 DEF Row
    <3> QED BY <3>1
  <2> QED BY <2>1, <2>2
<1>3. IsFiniteSet(new) /\ Cardinality(new) = Tries - n
  <2>1. IsFiniteSet({nextId}) /\ Cardinality({nextId}) = 1
    BY FS_Singleton
  <2>2. IsFiniteSet(n + 1 .. Tries) /\ Cardinality(n + 1 .. Tries) = Tries - n
    <3>1. n + 1 \in Int /\ Tries \in Int
      BY <1>1
    <3>2. /\ IsFiniteSet(n + 1 .. Tries)
          /\ Cardinality(n + 1 .. Tries) =
                IF n + 1 > Tries THEN 0 ELSE Tries - (n + 1) + 1
      BY <3>1, FS_Interval
    <3> QED BY <1>1, <3>2
  <2>3. IsFiniteSet(new) /\ Cardinality(new) = 1 * (Tries - n)
    BY <2>1, <2>2, FS_Product
  <2> QED BY <1>1, <2>3
<1>4. IsFiniteSet(Tickets) /\ Cardinality(Tickets) \in Nat
  BY NumbersTyped
<1> HIDE DEF new
<1>5. /\ IsFiniteSet(Tickets \cup new)
      /\ Cardinality(Tickets \cup new) <= Cardinality(Tickets) + (Tries - n)
      /\ Cardinality(Tickets \cup new) \in Nat
  <2>1. /\ IsFiniteSet(Tickets \cup new)
        /\ Cardinality(Tickets \cup new) =
              Cardinality(Tickets) + Cardinality(new) - Cardinality(Tickets \cap new)
    BY <1>3, <1>4, FS_Union
  <2>2. Cardinality(Tickets \cap new) \in Nat /\ Cardinality(Tickets \cup new) \in Nat
    BY <1>4, <2>1, FS_Intersection, FS_CardinalityType
  <2> QED BY <1>1, <1>3, <1>4, <2>1, <2>2
<1>6. IsFiniteSet(Tickets') /\ Cardinality(Tickets') <= Cardinality(Tickets \cup new)
  BY <1>2, <1>5, FS_Subset
<1>7. Cardinality(Tickets') \in Nat
  BY <1>6, FS_CardinalityType
<1> QED BY <1>1, <1>4, <1>5, <1>6, <1>7

\* The queue hands out the tries its rows have; only a job released after an
\* exception has any that were not there before.
LEMMA QueueLimited ==
    ASSUME TypeOK, TypeOK', QueueShape, TriesAreLimited,
           \/ Create \/ Dispatch \/ DispatchLost
           \/ \E j \in jobs : Exhaust(j) \/ LeaseEnds(j)
           \/ \E w \in Workers :
                 (\E j \in jobs : Reserve(w, j)) \/ Crash(w) \/ Throw(w) \/ DeleteJob(w)
    PROVE  QueueShape' /\ TriesAreLimited'
<1>0. /\ \A j \in jobs : j.id \in Nat /\ j.attempts \in Nat
      /\ nextId \in Nat /\ Tries \in Nat /\ Tries >= 1 /\ ToDispatch \in Nat
  BY NumbersTyped DEF TypeOK, JobRows
<1>1. CASE Create \/ DispatchLost
  <2>1. /\ UNCHANGED <<attempts, jobs, nextId, at, held, todo, inHand>>
        /\ faults' = faults \/ faults' = faults + 1
    BY <1>1 DEF Create, DispatchLost
  <2>2. Tickets' = Tickets /\ \A d \in Deliveries : Coming(d)' = Coming(d)
    BY <2>1 DEF Tickets, Coming
  <2>3. ToDispatch' <= ToDispatch
    <3>1. CASE Create
      BY <1>0, <3>1 DEF Create, ToDispatch, QueueShape
    <3>2. CASE DispatchLost
      BY <1>0, <3>2 DEF DispatchLost, ToDispatch
    <3> QED BY <1>1, <3>1, <3>2
  <2>4. QueueShape'
    BY <1>1, <2>1 DEF Create, DispatchLost, QueueShape
  <2> QED BY <2>1, <2>2, <2>3, <2>4, NoNewTries
<1>2. CASE Dispatch
  <2>1. /\ UNCHANGED <<campaign, attempts, at, held, todo, inHand, faults>>
        /\ dispatch = "owed"
        /\ jobs' = jobs \cup {Row(nextId, 0, "ready")} /\ nextId' = nextId + 1
        /\ ToDispatch = Tries /\ ToDispatch' = 0
    BY <1>2 DEF Dispatch, ToDispatch
  <2>2. QueueShape'
    BY <1>0, <2>1 DEF QueueShape, Row
  <2>3. /\ Cardinality(Tickets') \in Nat
        /\ Cardinality(Tickets') <= Cardinality(Tickets) + (Tries - 0)
    BY <1>0, <2>1, RowBrings
  <2> SUFFICES ASSUME NEW d \in Deliveries
               PROVE  attempts[d] + Cardinality(Coming(d)') + Cardinality(Tickets') + 0
                         <= Allowed
    BY <2>1, <2>2, FaultAllows DEF TriesAreLimited
  <2>4. Coming(d)' = Coming(d)
    BY <2>1 DEF Coming
  <2>5. /\ Cardinality(Tickets) \in Nat /\ Cardinality(Coming(d)) \in Nat
        /\ attempts[d] \in Nat /\ Allowed \in Nat
    BY NumbersTyped, FaultAllows DEF TypeOK
  <2>6. attempts[d] + Cardinality(Coming(d)) + Cardinality(Tickets) + Tries <= Allowed
    BY <2>1 DEF TriesAreLimited
  <2> QED BY <1>0, <2>3, <2>4, <2>5, <2>6
<1>3. ASSUME NEW j \in jobs, Exhaust(j) \/ LeaseEnds(j)
      PROVE  QueueShape' /\ TriesAreLimited'
  <2>1. /\ UNCHANGED <<campaign, attempts, dispatch, nextId, at, held, todo, inHand,
                       faults>>
        /\ jobs' \subseteq jobs \cup {Row(j.id, j.attempts, "ready")}
    BY <1>3 DEF Exhaust, LeaseEnds, Without
  <2>2. QueueShape'
    BY <1>0, <2>1 DEF QueueShape, Row
  <2>3. \A i \in jobs' : \E k \in jobs : k.id = i.id /\ k.attempts <= i.attempts
    BY <1>0, <2>1 DEF Row
  <2>4. Tickets' \subseteq Tickets
    BY <2>1, <2>3, NoNewTickets
  <2>5. ToDispatch' <= ToDispatch /\ \A d \in Deliveries : Coming(d)' = Coming(d)
    BY <1>0, <2>1 DEF ToDispatch, Coming
  <2> QED BY <2>1, <2>2, <2>4, <2>5, NoNewTries
<1>4. ASSUME NEW w \in Workers, NEW j \in jobs, Reserve(w, j)
      PROVE  QueueShape' /\ TriesAreLimited'
  <2>1. /\ UNCHANGED <<campaign, attempts, dispatch, nextId, todo, inHand, faults>>
        /\ jobs' = Without(j.id) \cup {Row(j.id, j.attempts + 1, "reserved")}
        /\ held' = [held EXCEPT ![w] = [id |-> j.id, attempts |-> j.attempts + 1]]
        /\ at' = [at EXCEPT ![w] = "load"]
        /\ j.attempts < Tries
    BY <1>4 DEF Reserve
  <2>2. QueueShape'
    <3>1. \A k \in jobs' : k.id < nextId'
      BY <2>1 DEF QueueShape, Without, Row
    <3>2. ASSUME NEW v \in Workers
          PROVE  /\ at'[v] # "idle" => held'[v].attempts >= 1
                 /\ at'[v] \in {"idle", "load", "next"} => inHand'[v] = Nobody
      <4>1. CASE v = w
        BY <1>0, <1>4, <2>1, <4>1 DEF Reserve, QueueShape, TypeOK
      <4>2. CASE v # w
        <5>1. at'[v] = at[v] /\ held'[v] = held[v] /\ inHand'[v] = inHand[v]
          BY <2>1, <4>2 DEF TypeOK
        <5> QED BY <5>1 DEF QueueShape
      <4> QED BY <4>1, <4>2
    <3> QED BY <2>1, <3>1, <3>2 DEF QueueShape
  <2> DEFINE used == <<j.id, j.attempts + 1>>
  <2>3. used \in Tickets
    <3>1. used \in (0 .. nextId) \X (1 .. Tries)
      BY <1>0, <2>1 DEF QueueShape
    <3>2. used[1] = j.id /\ used[2] = j.attempts + 1 /\ j.attempts < j.attempts + 1
      BY <1>0
    <3> QED BY <3>1, <3>2 DEF Tickets
  <2>4. Tickets' \subseteq Tickets \ {used}
    <3> SUFFICES ASSUME NEW t \in (0 .. nextId) \X (1 .. Tries), NEW k \in jobs',
                        k.id = t[1], k.attempts < t[2]
                 PROVE  t \in Tickets /\ t # used
      BY <2>1 DEF Tickets
    <3>1. CASE k \in Without(j.id)
      BY <3>1 DEF Tickets, Without
    <3>2. CASE k = Row(j.id, j.attempts + 1, "reserved")
      <4>1. t[1] = j.id /\ j.attempts + 1 < t[2] /\ t[2] \in Nat
        BY <1>0, <3>2 DEF Row
      <4>2. j.attempts < t[2] /\ t[2] # j.attempts + 1
        BY <1>0, <4>1
      <4> QED BY <4>1, <4>2 DEF Tickets
    <3> QED BY <2>1, <3>1, <3>2
  <2>5. /\ IsFiniteSet(Tickets) /\ Cardinality(Tickets) \in Nat
    BY NumbersTyped
  <2> HIDE DEF used
  <2>6. /\ IsFiniteSet(Tickets \ {used})
        /\ Cardinality(Tickets \ {used}) = Cardinality(Tickets) - 1
    BY <2>3, <2>5, FS_RemoveElement
  <2>7. /\ Cardinality(Tickets') <= Cardinality(Tickets) - 1
        /\ Cardinality(Tickets') \in Nat
    BY <2>4, <2>6, FS_Subset, FS_CardinalityType
  <2> SUFFICES ASSUME NEW d \in Deliveries
               PROVE  attempts[d] + Cardinality(Coming(d)') + Cardinality(Tickets')
                         + ToDispatch <= Allowed
    BY <2>1, <2>2, FaultAllows DEF TriesAreLimited, ToDispatch
  <2>8. /\ IsFiniteSet(Coming(d)) /\ Cardinality(Coming(d)) \in Nat
        /\ attempts[d] \in Nat /\ Allowed \in Nat
    BY NumbersTyped, FaultAllows DEF TypeOK
  <2>9. Coming(d)' \subseteq Coming(d) \cup {w}
    BY <2>1 DEF Coming, TypeOK
  <2>10. /\ IsFiniteSet(Coming(d) \cup {w})
         /\ Cardinality(Coming(d) \cup {w}) <= Cardinality(Coming(d)) + 1
         /\ Cardinality(Coming(d) \cup {w}) \in Nat
    <3>1. /\ IsFiniteSet(Coming(d) \cup {w})
          /\ Cardinality(Coming(d) \cup {w}) =
                IF w \in Coming(d) THEN Cardinality(Coming(d))
                                   ELSE Cardinality(Coming(d)) + 1
      BY <2>8, FS_AddElement
    <3> QED BY <2>8, <3>1
  <2>11. /\ Cardinality(Coming(d)') <= Cardinality(Coming(d) \cup {w})
         /\ Cardinality(Coming(d)') \in Nat
    BY <2>9, <2>10, FS_Subset, FS_CardinalityType
  <2>12. attempts[d] + Cardinality(Coming(d)) + Cardinality(Tickets) + ToDispatch
            <= Allowed
    BY DEF TriesAreLimited
  <2> QED BY <1>0, <2>5, <2>7, <2>8, <2>10, <2>11, <2>12
<1>5. ASSUME NEW w \in Workers, Crash(w) \/ Throw(w) \/ DeleteJob(w)
      PROVE  QueueShape' /\ TriesAreLimited'
  <2>1. /\ Stop(w) /\ UNCHANGED <<campaign, attempts, dispatch>>
        /\ faults' = faults \/ faults' = faults + 1
        /\ at[w] # "idle"
    BY <1>5 DEF Crash, Throw, DeleteJob
  <2>2. /\ at'[w] = "idle" /\ todo'[w] = {} /\ inHand'[w] = Nobody
        /\ \A v \in Workers \ {w} : /\ at'[v] = at[v] /\ held'[v] = held[v]
                                    /\ todo'[v] = todo[v] /\ inHand'[v] = inHand[v]
    BY <2>1 DEF Stop, TypeOK
  <2>3. \A d \in Deliveries : Coming(d)' \subseteq Coming(d)
    BY <2>2 DEF Coming
  <2>4. ToDispatch' = ToDispatch
    BY <2>1 DEF ToDispatch
  <2>5. held[w].attempts \in Nat /\ held[w].attempts >= 1
    BY <2>1 DEF QueueShape, TypeOK
  <2>6. CASE jobs' \subseteq jobs /\ nextId' = nextId
    <3>1. QueueShape'
      BY <2>1, <2>2, <2>6 DEF QueueShape
    <3>2. \A i \in jobs' : \E k \in jobs : k.id = i.id /\ k.attempts <= i.attempts
      BY <1>0, <2>6
    <3>3. Tickets' \subseteq Tickets
      BY <2>6, <3>2, NoNewTickets
    <3> QED BY <1>0, <2>1, <2>3, <2>4, <3>1, <3>3, NoNewTries
  <2>7. CASE /\ jobs' \subseteq jobs \cup {Row(nextId, held[w].attempts, "ready")}
             /\ nextId' = nextId + 1 /\ faults' = faults + 1
             /\ held[w].attempts <= Tries
    <3>1. QueueShape'
      BY <1>0, <2>1, <2>2, <2>7 DEF QueueShape, Row
    <3>2. /\ Cardinality(Tickets') \in Nat
          /\ Cardinality(Tickets') <= Cardinality(Tickets) + (Tries - held[w].attempts)
      BY <2>5, <2>7, RowBrings
    <3>3. Allowed \in Nat /\ Allowed' = Allowed + (Tries - 1)
      BY <2>7, FaultAllows
    <3> SUFFICES ASSUME NEW d \in Deliveries
                 PROVE  attempts[d] + Cardinality(Coming(d)') + Cardinality(Tickets')
                           + ToDispatch <= Allowed'
      BY <2>1, <2>4, <3>1 DEF TriesAreLimited
    <3>4. /\ Cardinality(Tickets) \in Nat /\ Cardinality(Coming(d)) \in Nat
          /\ IsFiniteSet(Coming(d)) /\ attempts[d] \in Nat
      BY NumbersTyped DEF TypeOK
    <3>5. /\ Cardinality(Coming(d)') <= Cardinality(Coming(d))
          /\ Cardinality(Coming(d)') \in Nat
      BY <2>3, <3>4, FS_Subset, FS_CardinalityType
    <3>6. attempts[d] + Cardinality(Coming(d)) + Cardinality(Tickets) + ToDispatch
             <= Allowed
      BY DEF TriesAreLimited
    <3> QED BY <1>0, <2>5, <3>2, <3>3, <3>4, <3>5, <3>6
  <2>8. \/ jobs' \subseteq jobs /\ nextId' = nextId
        \/ /\ jobs' \subseteq jobs \cup {Row(nextId, held[w].attempts, "ready")}
           /\ nextId' = nextId + 1 /\ faults' = faults + 1
           /\ held[w].attempts <= Tries
    BY <1>0, <1>5, <2>5 DEF Crash, Throw, DeleteJob, Without
  <2> QED BY <2>6, <2>7, <2>8
<1> QED BY <1>1, <1>2, <1>3, <1>4, <1>5

-----------------------------------------------------------------------------
(* The theorems                                                            *)

CampaignInv ==
    /\ TypeOK /\ HoldsDelivery /\ SentIsTrue /\ DeliveredWasSent
    /\ TriesAreCounted /\ QueueShape /\ TriesAreLimited

\* No worker runs at first, so nothing is owed and nothing was sent.
LEMMA InitInv == Init => CampaignInv
<1> SUFFICES ASSUME Init PROVE CampaignInv
  OBVIOUS
<1>1. TypeOK /\ HoldsDelivery /\ SentIsTrue /\ DeliveredWasSent
  BY InitTyped, InitTrue
<1>2. ASSUME NEW d \in Deliveries, NEW c \in Channels
      PROVE  copies[d][c] + Cardinality(Owing(d, c)) <= attempts[d]
  <2>1. Owing(d, c) = {}
    BY DEF Owing, Init
  <2>2. copies[d][c] = 0 /\ attempts[d] = 0
    BY DEF Init
  <2> QED BY <2>1, <2>2, FS_EmptySet
<1>3. QueueShape
  BY NobodyIsNoDelivery DEF Init, QueueShape
<1>4. ASSUME NEW d \in Deliveries
      PROVE  attempts[d] + Cardinality(Coming(d)) + Cardinality(Tickets) + ToDispatch
                <= Allowed
  <2>1. Coming(d) = {} /\ Tickets = {} /\ attempts[d] = 0 /\ ToDispatch = Tries
    BY DEF Init, Coming, Tickets, ToDispatch
  <2>2. faults = 0 /\ Tries \in Nat /\ Tries - 1 \in Int
    BY TriesIsPositive DEF Init
  <2>3. Allowed = Tries
    BY <2>2 DEF Allowed
  <2> QED BY <2>1, <2>2, <2>3, FS_EmptySet
<1> QED BY <1>1, <1>2, <1>3, <1>4 DEF CampaignInv, TriesAreCounted, TriesAreLimited

\* Every step keeps the invariant.
LEMMA StepInv == CampaignInv /\ [Next]_vars => CampaignInv'
<1> SUFFICES ASSUME CampaignInv, [Next]_vars PROVE CampaignInv'
  OBVIOUS
<1> USE DEF CampaignInv
<1>1. TypeOK' /\ HoldsDelivery' /\ SentIsTrue' /\ DeliveredWasSent'
  <2>1. CASE UNCHANGED vars
    BY <2>1 DEF TypeOK, HoldsDelivery, SentIsTrue, DeliveredWasSent
  <2>2. CASE \E w \in Workers : HandleStep(w)
    BY <2>2, HandleTyped, HandleTrue
  <2>3. CASE \/ Create \/ Dispatch \/ DispatchLost
             \/ \E j \in jobs : Exhaust(j) \/ LeaseEnds(j)
             \/ \E w \in Workers : (\E j \in jobs : Reserve(w, j)) \/ Crash(w)
                                   \/ Throw(w) \/ DeleteJob(w)
    BY <2>3, QueueTyped, QueueTrue
  <2> QED BY <2>1, <2>2, <2>3 DEF Next, WorkerStep
<1>2. TriesAreCounted'
  BY BeginCounted, SendCounted, OtherStepsCounted
<1>3. QueueShape' /\ TriesAreLimited'
  <2>1. CASE UNCHANGED vars
    BY <2>1 DEF QueueShape, TriesAreLimited, Coming, Tickets, ToDispatch, Allowed
  <2>2. CASE \E w \in Workers : HandleStep(w)
    BY <1>1, <2>2, HandleLimited
  <2>3. CASE \/ Create \/ Dispatch \/ DispatchLost
             \/ \E j \in jobs : Exhaust(j) \/ LeaseEnds(j)
             \/ \E w \in Workers : (\E j \in jobs : Reserve(w, j)) \/ Crash(w)
                                   \/ Throw(w) \/ DeleteJob(w)
    BY <1>1, <2>3, QueueLimited
  <2> QED BY <2>1, <2>2, <2>3 DEF Next, WorkerStep
<1> QED BY <1>1, <1>2, <1>3

\* The invariant holds throughout.
THEOREM CampaignInvariant == Spec => []CampaignInv
BY InitInv, StepInv, PTL DEF Spec

\* Every variable has its type.
THEOREM CampaignTyped == Spec => []TypeOK
<1>1. CampaignInv => TypeOK
  BY DEF CampaignInv
<1> QED BY <1>1, CampaignInvariant, PTL

\* No recipient gets a message that attempts does not account for, and attempts
\* stays within the job's tries, with the tries left to jobs released after an
\* exception.
THEOREM MessagesAreCounted == Spec => []CopiesAreCounted
<1>1. CampaignInv => CopiesAreCounted
  <2> SUFFICES ASSUME CampaignInv, NEW d \in Deliveries
               PROVE  /\ \A c \in Channels : copies[d][c] <= attempts[d]
                      /\ attempts[d] <= Tries + faults * (Tries - 1)
    BY DEF CopiesAreCounted
  <2>1. ASSUME NEW c \in Channels PROVE copies[d][c] <= attempts[d]
    <3>1. Cardinality(Owing(d, c)) \in Nat
      BY WorkersAreFew, FS_Subset, FS_CardinalityType DEF Owing
    <3> QED BY <3>1 DEF CampaignInv, TriesAreCounted, TypeOK
  <2>2. attempts[d] <= Allowed
    <3>1. /\ Cardinality(Tickets) \in Nat /\ Cardinality(Coming(d)) \in Nat
          /\ ToDispatch \in Nat /\ attempts[d] \in Nat /\ Allowed \in Nat
      BY NumbersTyped, FaultAllows DEF CampaignInv, TypeOK
    <3>2. attempts[d] + Cardinality(Coming(d)) + Cardinality(Tickets) + ToDispatch
             <= Allowed
      BY DEF CampaignInv, TriesAreLimited
    <3> QED BY <3>1, <3>2
  <2> QED BY <2>1, <2>2 DEF Allowed
<1> QED BY <1>1, CampaignInvariant, PTL

\* A delivery is called delivered only if some channel took it.
THEOREM DeliveredIsTrue == Spec => []DeliveredWasSent
<1>1. CampaignInv => DeliveredWasSent
  BY DEF CampaignInv
<1> QED BY <1>1, CampaignInvariant, PTL

-----------------------------------------------------------------------------
(* Who looks after a pending delivery                                      *)

\* Tries are used up by processes that died and by workers that still run: none
\* ends otherwise while a delivery is pending.
Busy == {w \in Workers : at[w] # "idle"}
Spent == faults + Cardinality(Busy)

\* A worker past Load has every pending delivery still to do.
WorkersHavePending ==
    \A w \in Workers :
        /\ at[w] \notin {"idle", "load"} => Pending \subseteq todo[w]
        /\ at[w] = "done" => todo[w] = {}

\* Before the campaign there is nothing to do and nobody to do it.
NothingBefore ==
    /\ dispatch = "none" => campaign = "none"
    /\ campaign = "none" => dispatch = "none" /\ jobs = {} /\ Busy = {} /\ Pending = {}

\* While something is pending, no row and no worker counts more tries than were
\* spent, and the last row went only when all were.
TriesAreSpent ==
    Pending # {} =>
        /\ \A j \in jobs : j.attempts <= Spent
        /\ \A w \in Busy : held[w].attempts <= Spent
        /\ dispatch = "done" /\ jobs = {} => Tries <= Spent

LooksAfter == WorkersHavePending /\ NothingBefore /\ TriesAreSpent

\* The number of tries spent.
LEMMA SpentType == TypeOK => IsFiniteSet(Busy) /\ Cardinality(Busy) \in Nat /\ Spent \in Nat
<1> SUFFICES ASSUME TypeOK PROVE IsFiniteSet(Busy) /\ Cardinality(Busy) \in Nat /\ Spent \in Nat
  OBVIOUS
<1>1. IsFiniteSet(Busy) /\ Cardinality(Busy) \in Nat
  BY WorkersAreFew, FS_Subset, FS_CardinalityType DEF Busy
<1> QED BY <1>1 DEF Spent, TypeOK

\* A worker that starts spends a try.
LEMMA StartSpends ==
    ASSUME TypeOK, NEW w \in Workers, w \notin Busy, Busy' = Busy \cup {w}, faults' = faults
    PROVE  Spent' = Spent + 1
<1>1. IsFiniteSet(Busy) /\ Cardinality(Busy) \in Nat /\ faults \in Nat
  BY SpentType DEF TypeOK
<1>2. Cardinality(Busy \cup {w}) = Cardinality(Busy) + 1
  BY <1>1, FS_AddElement
<1>3. Spent' = faults' + Cardinality(Busy') /\ Spent = faults + Cardinality(Busy)
  BY DEF Spent
<1>4. Cardinality(Busy') = Cardinality(Busy) + 1
  BY <1>2
<1> QED BY <1>1, <1>3, <1>4

\* A worker that dies leaves its try spent.
LEMMA DeathSpends ==
    ASSUME TypeOK, NEW w \in Workers, w \in Busy, Busy' = Busy \ {w}, faults' = faults + 1
    PROVE  Spent' = Spent
<1>1. IsFiniteSet(Busy) /\ Cardinality(Busy) \in Nat /\ faults \in Nat
  BY SpentType DEF TypeOK
<1>2. Cardinality(Busy \ {w}) = Cardinality(Busy) - 1
  BY <1>1, FS_RemoveElement
<1>3. Spent' = faults' + Cardinality(Busy') /\ Spent = faults + Cardinality(Busy)
  BY DEF Spent
<1>4. Cardinality(Busy') = Cardinality(Busy) - 1
  BY <1>2
<1> QED BY <1>1, <1>3, <1>4

\* handle settles what it takes off its list.
LEMMA HandleLooks ==
    ASSUME TypeOK, HoldsDelivery, LooksAfter, NEW w \in Workers, HandleStep(w)
    PROVE  LooksAfter'
<1>1. /\ UNCHANGED <<jobs, dispatch, held, faults>>
      /\ at[w] \notin {"idle", "done"} /\ at'[w] \notin {"idle", "load"}
      /\ \A v \in Workers \ {w} : at'[v] = at[v] /\ todo'[v] = todo[v]
      /\ campaign' = campaign \/ campaign' = "completed"
  BY DEF HandleStep, Load, OpenChannels, NoteAnswer, Settle, Catch, Put, Complete, Begin,
         Send, SendThrows, TypeOK
<1>2. Pending' \subseteq Pending
  BY DEF HandleStep, Load, OpenChannels, NoteAnswer, Settle, Catch, Put, Complete, Begin,
         Send, SendThrows, TypeOK, Pending
<1>3. Busy' = Busy /\ Spent' = Spent /\ w \in Busy
  BY <1>1 DEF Busy, Spent
<1>4. WorkersHavePending'
  <2>1. Pending' \subseteq todo'[w]
    <3>1. CASE Load(w)
      BY <3>1 DEF Load, Pending, TypeOK
    <3>2. CASE Settle(w) \/ Catch(w)
      <4>1. PICK word \in {"delivered", "failed"} : Put(w, word)
        BY <3>2 DEF Settle, Catch
      <4>2. inHand[w] \in Deliveries /\ Pending \subseteq todo[w]
        BY <3>2 DEF Settle, Catch, HoldsDelivery, LooksAfter, WorkersHavePending
      <4>3. /\ status' = [status EXCEPT ![inHand[w]] = word]
            /\ todo' = [todo EXCEPT ![w] = @ \ {inHand[w]}]
        BY <4>1 DEF Put
      <4> QED BY <4>2, <4>3 DEF Pending, TypeOK
    <3>3. CASE UNCHANGED <<status, todo>> /\ at[w] # "load"
      BY <1>1, <3>3 DEF Pending, LooksAfter, WorkersHavePending
    <3>4. \/ Load(w) \/ Settle(w) \/ Catch(w)
          \/ UNCHANGED <<status, todo>> /\ at[w] # "load"
      BY DEF HandleStep, OpenChannels, NoteAnswer, Complete, Begin, Send, SendThrows
    <3> QED BY <3>1, <3>2, <3>3, <3>4
  <2>2. at'[w] = "done" => todo'[w] = {}
    BY DEF HandleStep, Load, OpenChannels, NoteAnswer, Settle, Catch, Put, Complete, Begin,
           Send, SendThrows, TypeOK
  <2> QED BY <1>1, <1>2, <2>1, <2>2 DEF LooksAfter, WorkersHavePending
<1>5. NothingBefore'
  BY <1>1, <1>3 DEF LooksAfter, NothingBefore
<1>6. TriesAreSpent'
  BY <1>1, <1>2, <1>3 DEF LooksAfter, TriesAreSpent
<1> QED BY <1>4, <1>5, <1>6 DEF LooksAfter

\* The queue loses its last row only when the tries are spent or nothing is
\* pending.
LEMMA QueueLooks ==
    ASSUME TypeOK, LooksAfter,
           \/ Create \/ Dispatch \/ DispatchLost
           \/ \E j \in jobs : Exhaust(j) \/ LeaseEnds(j)
           \/ \E w \in Workers :
                 (\E j \in jobs : Reserve(w, j)) \/ Crash(w) \/ Throw(w) \/ DeleteJob(w)
    PROVE  LooksAfter'
<1> USE DEF LooksAfter
<1>0. Spent \in Nat /\ Tries \in Nat
  BY SpentType, TriesIsPositive
<1>1. CASE Create
  BY <1>1 DEF Create, NothingBefore, WorkersHavePending, TriesAreSpent, Busy, Pending, TypeOK
<1>2. CASE Dispatch \/ DispatchLost
  <2>1. UNCHANGED <<campaign, status, at, todo, held>> /\ Busy' = Busy /\ Pending' = Pending
    BY <1>2 DEF Dispatch, DispatchLost, Busy, Pending
  <2>2. dispatch = "owed" /\ dispatch' \in {"done", "lost"}
    BY <1>2 DEF Dispatch, DispatchLost
  <2>3. WorkersHavePending' /\ NothingBefore'
    BY <2>1, <2>2 DEF WorkersHavePending, NothingBefore
  <2>4. TriesAreSpent'
    <3>1. CASE Dispatch
      <4>1. jobs' = jobs \cup {Row(nextId, 0, "ready")} /\ Spent' = Spent
        BY <2>1, <3>1 DEF Dispatch, Spent
      <4>2. Row(nextId, 0, "ready").attempts = 0 /\ jobs' # {}
        BY <4>1 DEF Row
      <4>3. \A j \in jobs' : j.attempts <= Spent \/ ~(Pending # {})
        BY <1>0, <4>1, <4>2 DEF TriesAreSpent
      <4> QED BY <2>1, <4>1, <4>2, <4>3 DEF TriesAreSpent
    <3>2. CASE DispatchLost
      <4>0. faults \in Nat /\ Cardinality(Busy) \in Nat /\ faults' = faults + 1
        BY <3>2, SpentType DEF DispatchLost, TypeOK
      <4>1. jobs' = jobs /\ Spent' = Spent + 1 /\ dispatch' = "lost"
        <5>1. Cardinality(Busy') = Cardinality(Busy)
          BY <2>1
        <5>2. Spent' = faults' + Cardinality(Busy') /\ Spent = faults + Cardinality(Busy)
          BY DEF Spent
        <5> QED BY <3>2, <4>0, <5>1, <5>2 DEF DispatchLost
      <4>2. /\ \A j \in jobs : j.attempts \in Nat
            /\ \A w \in Workers : held[w].attempts \in Nat
        BY DEF TypeOK, JobRows
      <4>3. Busy \subseteq Workers
        BY DEF Busy
      <4> QED BY <1>0, <2>1, <4>1, <4>2, <4>3 DEF TriesAreSpent
    <3> QED BY <1>2, <3>1, <3>2
  <2> QED BY <2>3, <2>4
<1>3. ASSUME NEW j \in jobs, Exhaust(j) \/ LeaseEnds(j) PROVE LooksAfter'
  <2>1. /\ UNCHANGED <<campaign, status, at, todo, held, dispatch, faults>>
        /\ Busy' = Busy /\ Pending' = Pending /\ Spent' = Spent
    BY <1>3 DEF Exhaust, LeaseEnds, Busy, Pending, Spent
  <2>2. /\ \/ jobs' = Without(j.id) /\ j.attempts >= Tries
           \/ jobs' = Without(j.id) \cup {Row(j.id, j.attempts, "ready")}
        /\ j.attempts \in Nat
    BY <1>3 DEF Exhaust, LeaseEnds, TypeOK, JobRows
  <2>3. WorkersHavePending' /\ NothingBefore'
    BY <2>1 DEF WorkersHavePending, NothingBefore
  <2>4. TriesAreSpent'
    <3> SUFFICES ASSUME Pending # {}
                 PROVE  /\ \A k \in jobs' : k.attempts <= Spent
                        /\ jobs' = {} => Tries <= Spent
      BY <2>1 DEF TriesAreSpent
    <3>1. \A k \in jobs : k.attempts <= Spent
      BY DEF TriesAreSpent
    <3>2. \A k \in jobs' : k.attempts <= Spent
      BY <2>2, <3>1 DEF Without, Row
    <3>3. jobs' = {} => Tries <= Spent
      BY <1>0, <2>2, <3>1
    <3> QED BY <3>2, <3>3
  <2> QED BY <2>3, <2>4
<1>4. ASSUME NEW w \in Workers, NEW j \in jobs, Reserve(w, j) PROVE LooksAfter'
  <2>1. /\ UNCHANGED <<campaign, status, todo, dispatch, faults>> /\ Pending' = Pending
        /\ w \notin Busy /\ Busy' = Busy \cup {w} /\ at' = [at EXCEPT ![w] = "load"]
        /\ held' = [held EXCEPT ![w] = [id |-> j.id, attempts |-> j.attempts + 1]]
        /\ jobs' = Without(j.id) \cup {Row(j.id, j.attempts + 1, "reserved")}
    BY <1>4 DEF Reserve, Busy, Pending, TypeOK
  <2>2. Spent' = Spent + 1
    BY <2>1, StartSpends
  <2>3. /\ \A k \in jobs : k.attempts \in Nat
        /\ \A v \in Workers : held[v].attempts \in Nat
        /\ Busy \subseteq Workers
    BY DEF TypeOK, JobRows, Busy
  <2>4. WorkersHavePending' /\ NothingBefore'
    BY <2>1 DEF WorkersHavePending, NothingBefore, TypeOK
  <2>5. TriesAreSpent'
    <3> SUFFICES ASSUME Pending # {}
                 PROVE  /\ \A k \in jobs' : k.attempts <= Spent'
                        /\ \A v \in Busy' : held'[v].attempts <= Spent'
                        /\ jobs' # {}
      BY <2>1 DEF TriesAreSpent
    <3>1. j.attempts <= Spent /\ \A k \in jobs : k.attempts <= Spent
      BY DEF TriesAreSpent
    <3>2. \A k \in jobs' : k.attempts <= Spent'
      BY <1>0, <2>1, <2>2, <2>3, <3>1 DEF Without, Row
    <3>3. \A v \in Busy' : held'[v].attempts <= Spent'
      <4> SUFFICES ASSUME NEW v \in Busy' PROVE held'[v].attempts <= Spent'
        OBVIOUS
      <4>1. CASE v = w
        BY <1>0, <2>1, <2>2, <2>3, <3>1, <4>1 DEF TypeOK
      <4>2. CASE v # w
        <5>1. v \in Busy /\ held'[v] = held[v]
          BY <2>1, <4>2 DEF TypeOK, Busy
        <5> QED BY <1>0, <2>2, <2>3, <5>1 DEF TriesAreSpent
      <4> QED BY <4>1, <4>2
    <3> QED BY <2>1, <3>2, <3>3
  <2> QED BY <2>4, <2>5
<1>5. ASSUME NEW w \in Workers, Stop(w)
      PROVE  /\ Busy' = Busy \ {w} /\ at'[w] = "idle"
             /\ \A v \in Workers \ {w} : at'[v] = at[v] /\ todo'[v] = todo[v] /\ held'[v] = held[v]
  BY <1>5 DEF Stop, Busy, TypeOK
<1>6. ASSUME NEW w \in Workers, Crash(w) \/ Throw(w) PROVE LooksAfter'
  <2>1. /\ UNCHANGED <<campaign, status, dispatch>> /\ Pending' = Pending /\ Stop(w)
        /\ w \in Busy /\ faults' = faults + 1
    BY <1>6 DEF Crash, Throw, Busy, Pending
  <2>2. Busy' = Busy \ {w} /\ Spent' = Spent
    BY <1>5, <2>1, DeathSpends
  <2>3. \/ jobs' = jobs
        \/ jobs' = Without(held[w].id) /\ held[w].attempts >= Tries
        \/ jobs' = Without(held[w].id) \cup {Row(nextId, held[w].attempts, "ready")}
    BY <1>6 DEF Crash, Throw
  <2>4. WorkersHavePending' /\ NothingBefore'
    BY <1>5, <2>1, <2>2 DEF WorkersHavePending, NothingBefore
  <2>5. held[w].attempts \in Nat
    BY DEF TypeOK
  <2>6. TriesAreSpent'
    <3> SUFFICES ASSUME Pending # {}
                 PROVE  /\ \A k \in jobs' : k.attempts <= Spent
                        /\ \A v \in Busy' : held'[v].attempts <= Spent
                        /\ dispatch = "done" /\ jobs' = {} => Tries <= Spent
      BY <2>1, <2>2 DEF TriesAreSpent
    <3>1. /\ \A k \in jobs : k.attempts <= Spent
          /\ \A v \in Busy : held[v].attempts <= Spent
          /\ dispatch = "done" /\ jobs = {} => Tries <= Spent
      BY DEF TriesAreSpent
    <3>2. \A v \in Busy' : held'[v].attempts <= Spent
      <4> SUFFICES ASSUME NEW v \in Busy' PROVE held'[v].attempts <= Spent
        OBVIOUS
      <4>1. v \in Busy /\ v \in Workers \ {w}
        BY <2>2 DEF Busy
      <4> QED BY <1>5, <2>1, <3>1, <4>1
    <3>3. held[w].attempts <= Spent
      BY <2>1, <3>1
    <3>4. \A k \in jobs' : k.attempts <= Spent
      BY <2>3, <3>1, <3>3 DEF Without, Row
    <3>5. dispatch = "done" /\ jobs' = {} => Tries <= Spent
      BY <1>0, <2>3, <2>5, <3>1, <3>3
    <3> QED BY <3>2, <3>4, <3>5
  <2> QED BY <2>4, <2>6
<1>7. ASSUME NEW w \in Workers, DeleteJob(w) PROVE LooksAfter'
  <2>1. /\ UNCHANGED <<campaign, status, dispatch>> /\ Pending' = Pending /\ Stop(w)
        /\ at[w] = "done" /\ jobs' \subseteq jobs
    BY <1>7 DEF DeleteJob, Pending, Without
  <2>2. Pending = {}
    BY <2>1 DEF WorkersHavePending
  <2>3. WorkersHavePending' /\ NothingBefore' /\ TriesAreSpent'
    BY <1>5, <2>1, <2>2 DEF WorkersHavePending, NothingBefore, TriesAreSpent
  <2> QED BY <2>3
<1> QED BY <1>1, <1>2, <1>3, <1>4, <1>6, <1>7

\* A pending delivery has a job to come or a worker on its way to it, unless the
\* job was never dispatched or as many processes died as it has tries.
THEOREM PendingAttended == Spec => []PendingIsLookedAfter
<1>1. Init => LooksAfter
  <2> SUFFICES ASSUME Init PROVE LooksAfter
    OBVIOUS
  <2>1. Pending = {} /\ Busy = {}
    BY DEF Init, Pending, Busy
  <2> QED BY <2>1 DEF Init, LooksAfter, WorkersHavePending, NothingBefore, TriesAreSpent
<1>2. CampaignInv /\ LooksAfter /\ [Next]_vars => LooksAfter'
  <2> SUFFICES ASSUME CampaignInv, LooksAfter, [Next]_vars PROVE LooksAfter'
    OBVIOUS
  <2>0. TypeOK /\ HoldsDelivery
    BY DEF CampaignInv
  <2>1. CASE UNCHANGED vars
    BY <2>1 DEF LooksAfter, WorkersHavePending, NothingBefore, TriesAreSpent, Busy, Spent, Pending
  <2>2. CASE \E w \in Workers : HandleStep(w)
    BY <2>0, <2>2, HandleLooks
  <2>3. CASE \/ Create \/ Dispatch \/ DispatchLost
             \/ \E j \in jobs : Exhaust(j) \/ LeaseEnds(j)
             \/ \E w \in Workers : (\E j \in jobs : Reserve(w, j)) \/ Crash(w)
                                   \/ Throw(w) \/ DeleteJob(w)
    BY <2>0, <2>3, QueueLooks
  <2> QED BY <2>1, <2>2, <2>3 DEF Next, WorkerStep
<1>3. CampaignInv /\ LooksAfter => PendingIsLookedAfter
  <2> SUFFICES ASSUME CampaignInv, LooksAfter, NEW d \in Pending,
                      dispatch \notin {"owed", "lost"}, jobs = {},
                      \A w \in Workers : at[w] # "load" /\ d \notin todo[w]
               PROVE  faults >= Tries
    BY DEF PendingIsLookedAfter
  <2>1. TypeOK /\ dispatch = "done"
    BY DEF CampaignInv, TypeOK, LooksAfter, NothingBefore
  <2>2. Busy = {}
    BY DEF LooksAfter, WorkersHavePending, Busy
  <2>3. Spent = faults
    BY <2>1, <2>2, FS_EmptySet DEF Spent, TypeOK
  <2> QED BY <2>1, <2>3, TriesIsPositive DEF LooksAfter, TriesAreSpent, TypeOK
<1> QED BY <1>1, <1>2, <1>3, CampaignInvariant, PTL DEF Spec
=============================================================================
