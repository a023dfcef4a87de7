------------------------- MODULE AttendanceMetrics -------------------------
(***************************************************************************)
(* The attendance records of one student (AttendanceDomainService) and the *)
(* cached dashboard summary that every writer of the system forgets        *)
(* (CachedDashboardMetricsRepository), with the two kinds of writers there *)
(* are: requests that write and then forget, and transactions that forget  *)
(* before they commit (a scan, an offline operation).                      *)
(*                                                                         *)
(* An insert waits for a scan that holds the row of its student, and two   *)
(* inserts of one day for each other (foreign key and unique index of the  *)
(* database).  Statuses, notes and amounts are data: a committed write is  *)
(* one more version of its table.  The student is not deleted, others are. *)
(***************************************************************************)
EXTENDS Naturals, FiniteSets

CONSTANTS
    Writers,      \* requests that write: bound on those at the same time
    Readers,      \* requests of the dashboard summary at the same time
    MaxDay,       \* bound on the days that pass
    MaxWrites,    \* bound on committed writes of a table
    SharedStore   \* the cache is a table on the connection of the transaction

ASSUME MetricsBounds == MaxDay \in Nat \ {0} /\ MaxWrites \in Nat
ASSUME StoreIsSharedOrNot == SharedStore \in BOOLEAN

Days == 1 .. MaxDay
NoDay == 0
Tables == {"attendance", "other"}
Nothing == [t \in Tables |-> 0]

VARIABLES
    today,     \* the date of the server
    record,    \* record[d]: attendance_date of the record with date_at d, NoDay without one
    data,      \* data[t]: version of what is committed, from 1
    cache,     \* the cached summary: a version per table, Nothing when there is none
    excuse,    \* how the cached summary came to be out of date, if it is
    at,        \* at[w]: where a writer is
    day,       \* day[w]: attendance_date it will write
    pending,   \* pending[w]: date_at of the row it inserted and has not committed
    table,     \* table[w]: the table its transaction writes
    doomed,    \* writers whose transaction deletes the cached row
    holder,    \* writers that hold the student for update
    sharers,   \* writers whose transaction inserted a row of the student
    step,      \* step[x]: where a reader is
    got        \* got[x]: what it has counted so far

dataVars == <<today, record, data>>
cacheVars == <<cache, excuse>>
writerVars == <<at, day, pending, table, doomed, holder, sharers>>
readerVars == <<step, got>>
vars == <<dataVars, cacheVars, writerVars, readerVars>>

Init ==
    /\ today = 1
    /\ record = [d \in Days |-> NoDay]
    /\ data = [t \in Tables |-> 1]
    /\ cache = Nothing
    /\ excuse = "none"
    /\ at = [w \in Writers |-> "idle"]
    /\ day = [w \in Writers |-> NoDay]
    /\ pending = [w \in Writers |-> NoDay]
    /\ table = [w \in Writers |-> "other"]
    /\ doomed = {} /\ holder = {} /\ sharers = {}
    /\ step = [x \in Readers |-> "idle"]
    /\ got = [x \in Readers |-> Nothing]

Go(w, place) == at' = [at EXCEPT ![w] = place]
\* One more committed write; the bound is on the writes begun.
Written(t) == data' = [data EXCEPT ![t] = @ + 1]
UnderWay(t) == Cardinality({w \in Writers : at[w] # "idle" /\ table[w] = t})
MayWrite(t) == data[t] + UnderWay(t) <= MaxWrites
\* No transaction has an uncommitted row for d.
Unclaimed(d) == \A w \in Writers : pending[w] # d

-----------------------------------------------------------------------------
(* Requests without a transaction: the write is committed, then forgotten  *)

\* AttendanceDomainService::create; a day that is taken is refused.
Create(w, d) ==
    /\ at[w] = "idle" /\ MayWrite("attendance")
    /\ record[d] = NoDay /\ Unclaimed(d)
    /\ holder = {}
    /\ record' = [record EXCEPT ![d] = today]
    /\ Written("attendance")
    /\ Go(w, "owes")
    /\ UNCHANGED <<today, cacheVars, day, pending, table, doomed, holder, sharers, readerVars>>

\* update: date_at may move to a free day, attendance_date stays.
Update(w, d, e) ==
    /\ at[w] = "idle" /\ MayWrite("attendance")
    /\ record[d] # NoDay
    /\ e # d => record[e] = NoDay /\ Unclaimed(e)
    /\ record' = [record EXCEPT ![d] = NoDay, ![e] = record[d]]
    /\ Written("attendance")
    /\ Go(w, "owes")
    /\ UNCHANGED <<today, cacheVars, day, pending, table, doomed, holder, sharers, readerVars>>

Delete(w, d) ==
    /\ at[w] = "idle" /\ MayWrite("attendance")
    /\ record[d] # NoDay
    /\ record' = [record EXCEPT ![d] = NoDay]
    /\ Written("attendance")
    /\ Go(w, "owes")
    /\ UNCHANGED <<today, cacheVars, day, pending, table, doomed, holder, sharers, readerVars>>

\* store and update of a student, store, update and destroy of a payment or a result.
WriteOther(w) ==
    /\ at[w] = "idle" /\ MayWrite("other")
    /\ Written("other")
    /\ Go(w, "owes")
    /\ UNCHANGED <<today, record, cacheVars, day, pending, table, doomed, holder, sharers, readerVars>>

\* destroy of another student: attendance, results and payments go by the cascade.
DeleteStudent(w) ==
    /\ at[w] = "idle" /\ \A t \in Tables : MayWrite(t)
    /\ data' = [t \in Tables |-> data[t] + 1]
    /\ Go(w, "owes")
    /\ UNCHANGED <<today, record, cacheVars, day, pending, table, doomed, holder, sharers, readerVars>>

\* Mutant: forget is left out.
OwesNothing(w) ==
    /\ at[w] = "owes"
    /\ Go(w, "idle")
    /\ UNCHANGED <<dataVars, cacheVars, day, pending, table, doomed, holder, sharers, readerVars>>

Forget(w) ==
    /\ at[w] = "owes"
    /\ doomed = {}
    /\ cache' = Nothing /\ excuse' = "none"
    /\ Go(w, "idle")
    /\ UNCHANGED <<dataVars, day, pending, table, doomed, holder, sharers, readerVars>>

-----------------------------------------------------------------------------
(* Transactions                                                            *)

\* scan: the QR code names the student.
BeginScan(w) ==
    /\ at[w] = "idle" /\ MayWrite("attendance")
    /\ Go(w, "scan")
    /\ table' = [table EXCEPT ![w] = "attendance"]
    /\ UNCHANGED <<dataVars, cacheVars, day, pending, doomed, holder, sharers, readerVars>>

\* Mutant: the student is read without lockForUpdate.
ReadWithoutLock(w) ==
    /\ at[w] = "scan"
    /\ Go(w, "locked")
    /\ UNCHANGED <<dataVars, cacheVars, day, pending, table, doomed, holder, sharers, readerVars>>

LockStudent(w) ==
    /\ at[w] = "scan"
    /\ holder = {} /\ sharers = {}
    /\ holder' = {w}
    /\ Go(w, "locked")
    /\ UNCHANGED <<dataVars, cacheVars, day, pending, table, doomed, sharers, readerVars>>

\* The transaction of w is over.
Release(w) ==
    /\ at' = [at EXCEPT ![w] = "idle"]
    /\ day' = [day EXCEPT ![w] = NoDay]
    /\ pending' = [pending EXCEPT ![w] = NoDay]
    /\ table' = [table EXCEPT ![w] = "other"]
    /\ doomed' = doomed \ {w}
    /\ holder' = holder \ {w}
    /\ sharers' = sharers \ {w}

ScannedToday == \E d \in Days : record[d] = today

\* Mutant: the student stays locked.
RecordedAndHeld(w) ==
    /\ at[w] = "locked"
    /\ ScannedToday
    /\ Go(w, "idle")
    /\ UNCHANGED <<dataVars, cacheVars, day, pending, table, doomed, holder, sharers, readerVars>>

AlreadyRecorded(w) ==
    /\ at[w] = "locked"
    /\ ScannedToday
    /\ Release(w)
    /\ UNCHANGED <<dataVars, cacheVars, readerVars>>

NotRecorded(w) ==
    /\ at[w] = "locked"
    /\ ~ScannedToday
    /\ day' = [day EXCEPT ![w] = today]
    /\ Go(w, "insert")
    /\ UNCHANGED <<dataVars, cacheVars, pending, table, doomed, holder, sharers, readerVars>>

\* date_at is the time of the insert, which may be after midnight.
Insert(w) ==
    /\ at[w] = "insert"
    /\ record[today] = NoDay /\ Unclaimed(today)
    /\ pending' = [pending EXCEPT ![w] = today]
    /\ Go(w, "inserted")
    /\ UNCHANGED <<dataVars, cacheVars, day, table, doomed, holder, sharers, readerVars>>

\* The unique index refuses the row; the scan fails.
InsertFails(w) ==
    /\ at[w] = "insert"
    /\ record[today] # NoDay
    /\ Release(w)
    /\ UNCHANGED <<dataVars, cacheVars, readerVars>>

\* attendance.create of an offline operation, in the transaction of sync.
SyncAttendance(w, d) ==
    /\ at[w] = "idle" /\ MayWrite("attendance")
    /\ record[d] = NoDay /\ Unclaimed(d)
    /\ holder = {}
    /\ day' = [day EXCEPT ![w] = today]
    /\ pending' = [pending EXCEPT ![w] = d]
    /\ table' = [table EXCEPT ![w] = "attendance"]
    /\ sharers' = sharers \cup {w}
    /\ Go(w, "inserted")
    /\ UNCHANGED <<dataVars, cacheVars, doomed, holder, readerVars>>

\* exam_result.create and payment.create of an offline operation.
SyncOther(w) ==
    /\ at[w] = "idle" /\ MayWrite("other")
    /\ Go(w, "inserted")
    /\ UNCHANGED <<dataVars, cacheVars, day, pending, table, doomed, holder, sharers, readerVars>>

\* forget before the commit.  In the database store the row is deleted, and
\* locked, but gone only with the commit.
ForgetEarly(w) ==
    /\ at[w] = "inserted"
    /\ doomed = {}
    /\ IF SharedStore
       THEN doomed' = (IF cache = Nothing THEN {} ELSE {w}) /\ UNCHANGED cacheVars
       ELSE cache' = Nothing /\ excuse' = "none" /\ UNCHANGED doomed
    /\ Go(w, "forgot")
    /\ UNCHANGED <<dataVars, day, pending, table, holder, sharers, readerVars>>

Commit(w) ==
    /\ at[w] = "forgot"
    /\ record' = [d \in Days |-> IF d = pending[w] THEN day[w] ELSE record[d]]
    /\ Written(table[w])
    /\ IF w \in doomed THEN cache' = Nothing /\ excuse' = "none" ELSE UNCHANGED cacheVars
    /\ Release(w)
    /\ UNCHANGED <<today, readerVars>>

\* The process dies: a transaction is rolled back, but a forget that is owed
\* never comes.
Die(w) ==
    /\ at[w] # "idle"
    /\ excuse' = IF at[w] = "owes" THEN "lost" ELSE excuse
    /\ Release(w)
    /\ UNCHANGED <<dataVars, cache, readerVars>>

-----------------------------------------------------------------------------
(* summary                                                                 *)

Miss(x) ==
    /\ step[x] = "idle"
    /\ cache = Nothing
    /\ step' = [step EXCEPT ![x] = "attendance"]
    /\ UNCHANGED <<dataVars, cacheVars, writerVars, got>>

\* buildSummary reads table by table, in no transaction.
ReadAttendance(x) ==
    /\ step[x] = "attendance"
    /\ got' = [got EXCEPT ![x]["attendance"] = data["attendance"]]
    /\ step' = [step EXCEPT ![x] = "other"]
    /\ UNCHANGED <<dataVars, cacheVars, writerVars>>

ReadOther(x) ==
    /\ step[x] = "other"
    /\ got' = [got EXCEPT ![x]["other"] = data["other"]]
    /\ step' = [step EXCEPT ![x] = "put"]
    /\ UNCHANGED <<dataVars, cacheVars, writerVars>>

\* The summary replaces whatever is cached.  It may be out of date already, or
\* about to be, when a transaction that has forgotten commits.
Put(x) ==
    /\ step[x] = "put"
    /\ doomed = {}
    /\ cache' = got[x]
    /\ excuse' = IF got[x] # data THEN "stale"
                 ELSE IF \E w \in Writers : at[w] = "forgot" THEN "early" ELSE "none"
    /\ step' = [step EXCEPT ![x] = "idle"]
    /\ got' = [got EXCEPT ![x] = Nothing]
    /\ UNCHANGED <<dataVars, writerVars>>

\* Five minutes after it was put.
Expire ==
    /\ cache # Nothing
    /\ cache' = Nothing /\ excuse' = "none"
    /\ UNCHANGED <<dataVars, writerVars, readerVars>>

Midnight ==
    /\ today < MaxDay
    /\ today' = today + 1
    /\ UNCHANGED <<record, data, cacheVars, writerVars, readerVars>>

-----------------------------------------------------------------------------
Next ==
    \/ \E w \in Writers :
         \/ \E d \in Days : Create(w, d) \/ Delete(w, d) \/ SyncAttendance(w, d)
         \/ \E d, e \in Days : Update(w, d, e)
         \/ WriteOther(w) \/ DeleteStudent(w) \/ Forget(w)
         \/ BeginScan(w) \/ LockStudent(w) \/ AlreadyRecorded(w) \/ NotRecorded(w)
         \/ Insert(w) \/ InsertFails(w)
         \/ SyncOther(w) \/ ForgetEarly(w) \/ Commit(w) \/ Die(w)
    \/ \E x \in Readers : Miss(x) \/ ReadAttendance(x) \/ ReadOther(x) \/ Put(x)
    \/ Expire \/ Midnight

Spec == Init /\ [][Next]_vars

-----------------------------------------------------------------------------
Summaries == [Tables -> Nat]

\* Every variable has its type, and the locks belong to who is in a transaction.
TypeOK ==
    /\ today \in Days
    /\ record \in [Days -> Days \cup {NoDay}]
    /\ data \in Summaries /\ cache \in Summaries
    /\ excuse \in {"none", "stale", "early", "lost"}
    /\ at \in [Writers -> {"idle", "owes", "scan", "locked", "insert", "inserted", "forgot"}]
    /\ day \in [Writers -> Days \cup {NoDay}]
    /\ pending \in [Writers -> Days \cup {NoDay}]
    /\ table \in [Writers -> Tables]
    /\ doomed \subseteq {w \in Writers : at[w] = "forgot"}
    /\ holder \subseteq {w \in Writers : at[w] \notin {"idle", "owes", "scan"}}
    /\ sharers \subseteq {w \in Writers : at[w] \in {"inserted", "forgot"}}
    /\ step \in [Readers -> {"idle", "attendance", "other", "put"}]
    /\ got \in [Readers -> Summaries]

\* A summary that is cached and no longer right is about to be forgotten, or
\* it was out of date when it was put, or put between the forget and the commit
\* of a transaction, or its writer died before it forgot: no other write leaves
\* the dashboard with old figures.
StaleIsExplained ==
    cache \notin {Nothing, data} => excuse # "none" \/ \E w \in Writers : at[w] = "owes"

\* A scan only fails over a record that was written on another day and moved,
\* or entered ahead, to this one: never because another scan or entry of the
\* same student came between its check and its insert.
ScanFailsForAReason ==
    [][\A w \in Writers :
         InsertFails(w) => record[today] \notin {NoDay, day[w]}]_vars
=============================================================================
