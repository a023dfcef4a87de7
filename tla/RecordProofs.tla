---------------------------- MODULE RecordProofs ----------------------------
(***************************************************************************)
(* Records of the school.  For any number of writers and readers of        *)
(* attendance, and either cache store: old figures on the dashboard have   *)
(* one of three causes, and a scan that its check let through only fails   *)
(* over a record moved to its day.  For any number of submissions of a     *)
(* worksheet: one that names its base replaces nothing unseen but for the  *)
(* races that are named, and what one sent stays until another sends it.   *)
(***************************************************************************)
EXTENDS AttendanceMetrics, Worksheets, TLAPS

-----------------------------------------------------------------------------
(* Attendance and the cached summary: AttendanceMetrics                    *)

\* A summary that a transaction has forgotten too early is excused.
EarlyIsExcused ==
    \A w \in Writers :
        at[w] = "forgot" /\ w \notin doomed /\ cache # Nothing => excuse # "none"

\* One transaction holds the student, and then no other has inserted a row.
OneHolds ==
    /\ \A v, w \in holder : v = w
    /\ holder = {} \/ sharers = {}
    /\ \A w \in Writers : pending[w] # NoDay => w \in holder \cup sharers

\* What a scan found missing stays missing while it holds the student.
StillMissing ==
    \A w \in Writers :
        /\ at[w] \in {"locked", "insert"} => w \in holder
        /\ at[w] = "insert" => day[w] \in Days /\ \A d \in Days : record[d] # day[w]

MetricsInv == TypeOK /\ StaleIsExplained /\ EarlyIsExcused /\ OneHolds /\ StillMissing

USE DEF dataVars, cacheVars, writerVars, readerVars, Go

\* Nothing is recorded or cached at first.
LEMMA MetricsInit == Init => MetricsInv
<1> SUFFICES ASSUME Init PROVE MetricsInv
  OBVIOUS
<1>1. TypeOK
  BY MetricsBounds DEF Init, TypeOK, Days, NoDay, Tables, Nothing, Summaries
<1> QED BY <1>1 DEF Init, MetricsInv, StaleIsExplained, EarlyIsExcused, OneHolds, StillMissing

\* A request that commits first owes the cache a forget.
LEMMA RequestOK ==
    ASSUME MetricsInv, NEW w \in Writers, NEW d \in Days, NEW e \in Days,
           Create(w, d) \/ Update(w, d, e) \/ Delete(w, d) \/ WriteOther(w) \/ DeleteStudent(w)
    PROVE  MetricsInv'
<1> USE DEF Create, Update, Delete, WriteOther, DeleteStudent
<1>1. /\ at[w] = "idle" /\ at' = [at EXCEPT ![w] = "owes"]
      /\ UNCHANGED <<today, cache, excuse, day, pending, table, doomed, holder, sharers, step, got>>
  OBVIOUS
<1>2. /\ record' \in [Days -> Days \cup {NoDay}] /\ data' \in Summaries
      /\ holder = {} \/ \A c \in Days : record'[c] = NoDay \/ \E b \in Days : record'[c] = record[b]
  <2>1. record \in [Days -> Days \cup {NoDay}] /\ data \in Summaries
    BY DEF MetricsInv, TypeOK
  <2>2. CASE DeleteStudent(w)
    BY <2>1, <2>2 DEF Summaries
  <2>3. CASE Create(w, d) \/ Update(w, d, e) \/ Delete(w, d) \/ WriteOther(w)
    <3>1. data' \in Summaries
      BY <2>1, <2>3 DEF Written, Summaries, Tables
    <3>2. record' \in [Days -> Days \cup {NoDay}]
      BY <2>1, <2>3 DEF MetricsInv, TypeOK
    <3>3. holder = {} \/ \A c \in Days : record'[c] = NoDay \/ \E b \in Days : record'[c] = record[b]
      BY <2>1, <2>3
    <3> QED BY <3>1, <3>2, <3>3
  <2> QED BY <2>2, <2>3
<1> HIDE DEF Create, Update, Delete, WriteOther, DeleteStudent
<1>3. TypeOK'
  BY <1>1, <1>2 DEF MetricsInv, TypeOK
<1>4. StaleIsExplained'
  BY <1>1 DEF MetricsInv, TypeOK, StaleIsExplained
<1>5. EarlyIsExcused' /\ OneHolds'
  BY <1>1 DEF MetricsInv, TypeOK, EarlyIsExcused, OneHolds
<1>6. StillMissing'
  BY <1>1, <1>2 DEF MetricsInv, TypeOK, StillMissing, Days, NoDay
<1> QED BY <1>3, <1>4, <1>5, <1>6 DEF MetricsInv

\* A forget leaves no summary to be old.
LEMMA ForgetOK == ASSUME MetricsInv, NEW w \in Writers, Forget(w) PROVE MetricsInv'
<1>1. Nothing \in Summaries
  BY DEF Nothing, Summaries
<1> QED BY <1>1 DEF Forget, MetricsInv, TypeOK, StaleIsExplained, EarlyIsExcused, OneHolds, StillMissing

\* The steps of a transaction before its commit.
LEMMA TransactionOK ==
    ASSUME MetricsInv, NEW w \in Writers, NEW d \in Days,
           \/ BeginScan(w) \/ LockStudent(w) \/ NotRecorded(w) \/ Insert(w)
           \/ SyncAttendance(w, d) \/ SyncOther(w) \/ ForgetEarly(w)
    PROVE  MetricsInv'
<1>1. CASE BeginScan(w) \/ LockStudent(w) \/ SyncOther(w)
  <2> USE <1>1 DEF BeginScan, LockStudent, SyncOther, Tables
  <2>1. TypeOK'
    BY DEF MetricsInv, TypeOK
  <2>2. StaleIsExplained' /\ EarlyIsExcused'
    BY DEF MetricsInv, TypeOK, StaleIsExplained, EarlyIsExcused
  <2>3. OneHolds' /\ StillMissing'
    BY DEF MetricsInv, TypeOK, OneHolds, StillMissing
  <2> QED BY <2>1, <2>2, <2>3 DEF MetricsInv
<1>2. CASE NotRecorded(w) \/ Insert(w)
  <2> USE <1>2 DEF NotRecorded, Insert
  <2>1. TypeOK'
    BY DEF MetricsInv, TypeOK
  <2>2. StaleIsExplained' /\ EarlyIsExcused'
    BY DEF MetricsInv, TypeOK, StaleIsExplained, EarlyIsExcused
  <2>3. OneHolds' /\ StillMissing'
    BY DEF MetricsInv, TypeOK, OneHolds, StillMissing, ScannedToday
  <2> QED BY <2>1, <2>2, <2>3 DEF MetricsInv
<1>3. CASE SyncAttendance(w, d)
  <2> USE <1>3 DEF SyncAttendance, Tables
  <2>1. TypeOK'
    BY DEF MetricsInv, TypeOK
  <2>2. StaleIsExplained' /\ EarlyIsExcused'
    BY DEF MetricsInv, TypeOK, StaleIsExplained, EarlyIsExcused
  <2>3. OneHolds' /\ StillMissing'
    BY DEF MetricsInv, TypeOK, OneHolds, StillMissing
  <2> QED BY <2>1, <2>2, <2>3 DEF MetricsInv
<1>4. CASE ForgetEarly(w)
  <2>0. Nothing \in Summaries
    BY DEF Nothing, Summaries
  <2> USE <1>4, <2>0 DEF ForgetEarly
  <2>1. TypeOK'
    BY DEF MetricsInv, TypeOK
  <2>2. StaleIsExplained' /\ EarlyIsExcused'
    BY DEF MetricsInv, TypeOK, StaleIsExplained, EarlyIsExcused
  <2>3. OneHolds' /\ StillMissing'
    BY DEF MetricsInv, TypeOK, OneHolds, StillMissing
  <2> QED BY <2>1, <2>2, <2>3 DEF MetricsInv
<1> QED BY <1>1, <1>2, <1>3, <1>4

\* The end of a transaction, by a commit, a return, an error or a crash.
LEMMA EndOK ==
    ASSUME MetricsInv, NEW w \in Writers,
           AlreadyRecorded(w) \/ InsertFails(w) \/ Commit(w) \/ Die(w)
    PROVE  MetricsInv'
<1>1. CASE AlreadyRecorded(w) \/ InsertFails(w) \/ Die(w)
  <2> USE <1>1 DEF AlreadyRecorded, InsertFails, Die, Release, NoDay, Tables
  <2>1. TypeOK'
    BY DEF MetricsInv, TypeOK
  <2>2. StaleIsExplained' /\ EarlyIsExcused'
    BY DEF MetricsInv, TypeOK, StaleIsExplained, EarlyIsExcused
  <2>3. OneHolds' /\ StillMissing'
    BY DEF MetricsInv, TypeOK, OneHolds, StillMissing
  <2> QED BY <2>1, <2>2, <2>3 DEF MetricsInv
<1>2. CASE Commit(w)
  <2> USE <1>2 DEF Commit, Release, Tables
  <2>0. Nothing \in Summaries /\ table[w] \in Tables /\ data' \in Summaries
    BY DEF MetricsInv, TypeOK, Nothing, Summaries, Written
  <2>1. TypeOK'
    BY <2>0 DEF MetricsInv, TypeOK
  <2>2. StaleIsExplained' /\ EarlyIsExcused'
    BY DEF MetricsInv, TypeOK, StaleIsExplained, EarlyIsExcused
  <2>3. OneHolds'
    BY DEF MetricsInv, TypeOK, OneHolds
  <2>4. StillMissing'
    BY DEF MetricsInv, TypeOK, OneHolds, StillMissing, Days, NoDay
  <2> QED BY <2>1, <2>2, <2>3, <2>4 DEF MetricsInv
<1> QED BY <1>1, <1>2

\* A reader counts, and says how what it caches may be old.
LEMMA ReaderOK ==
    ASSUME MetricsInv, NEW x \in Readers,
           Miss(x) \/ ReadAttendance(x) \/ ReadOther(x) \/ Put(x)
    PROVE  MetricsInv'
<1>1. CASE Miss(x) \/ ReadAttendance(x) \/ ReadOther(x)
  <2> USE <1>1 DEF Miss, ReadAttendance, ReadOther, Tables, Summaries
  <2>1. TypeOK'
    BY DEF MetricsInv, TypeOK
  <2> QED BY <2>1 DEF MetricsInv, StaleIsExplained, EarlyIsExcused, OneHolds, StillMissing
<1>2. CASE Put(x)
  <2> USE <1>2 DEF Put
  <2>1. TypeOK'
    BY DEF MetricsInv, TypeOK, Nothing, Summaries
  <2> QED BY <2>1 DEF MetricsInv, StaleIsExplained, EarlyIsExcused, OneHolds, StillMissing
<1> QED BY <1>1, <1>2

\* The clocks.
LEMMA ClockOK == ASSUME MetricsInv, Expire \/ Midnight PROVE MetricsInv'
<1>1. TypeOK'
  BY MetricsBounds DEF Expire, Midnight, MetricsInv, TypeOK, Days, Nothing, Summaries
<1> QED BY <1>1 DEF Expire, Midnight, MetricsInv, StaleIsExplained, EarlyIsExcused, OneHolds, StillMissing

\* The inductive invariant, in every reachable state.
THEOREM MetricsInvariant == Spec => []MetricsInv
<1>1. MetricsInv /\ [Next]_vars => MetricsInv'
  <2> SUFFICES ASSUME MetricsInv, [Next]_vars PROVE MetricsInv'
    OBVIOUS
  <2>1. 1 \in Days
    BY MetricsBounds DEF Days
  <2>2. CASE Next
    BY <2>1, <2>2, RequestOK, ForgetOK, TransactionOK, EndOK, ReaderOK, ClockOK DEF Next
  <2>3. CASE UNCHANGED vars
    BY <2>3 DEF vars, MetricsInv, TypeOK, StaleIsExplained, EarlyIsExcused, OneHolds, StillMissing
  <2> QED BY <2>2, <2>3
<1> QED BY MetricsInit, <1>1, PTL DEF Spec

\* Every variable keeps its type.
THEOREM MetricsTyped == Spec => []TypeOK
BY MetricsInvariant, PTL DEF MetricsInv

\* Old figures are about to be forgotten, or have one of the three causes.
THEOREM StaleExplained == Spec => []StaleIsExplained
BY MetricsInvariant, PTL DEF MetricsInv

\* A scan only fails over a record of another day.
THEOREM ScanExplained == Spec => ScanFailsForAReason
<1>1. MetricsInv /\ [Next]_vars =>
        [\A w \in Writers : InsertFails(w) => record[today] \notin {NoDay, day[w]}]_vars
  BY DEF MetricsInv, TypeOK, StillMissing, InsertFails
<1> QED BY MetricsInvariant, <1>1, PTL DEF Spec, ScanFailsForAReason

-----------------------------------------------------------------------------
(* One assignment and its submissions: Worksheets                          *)

\* The writes are stamped without a gap, never backwards in time, and the row
\* tells the second of the last one.
StampsAreInOrder ==
    /\ \E n \in 1 .. MaxVersions : Versions = 1 .. n
    /\ \A v, w \in Versions : v <= w => stamp[v] <= stamp[w] /\ stamp[w] <= now
    /\ row.updatedAt = stamp[Version]

\* What a submission says of the past: its author saw a version, whose second the
\* base is; what passed the comparison was of that second; only a saved one wrote.
SubmissionsTellThePast ==
    \A r \in Requests :
        /\ phase[r] # "new" => seen[r] \in Versions
        /\ phase[r] # "new" /\ base[r] # NoBase => base[r] = stamp[seen[r]]
        /\ phase[r] \in {"loaded", "saved"} => read[r] \in Versions /\ seen[r] <= read[r]
        /\ phase[r] \in {"loaded", "saved"} /\ base[r] # NoBase => base[r] = stamp[read[r]]
        /\ wrote[r] # 0 => phase[r] = "saved" /\ wrote[r] \in Versions

\* A field is as in the model a request holds until a submission has written it.
LoadedIsCurrent ==
    \A r \in Requests : phase[r] = "loaded" =>
        \A field \in Fields : row[field] = loaded[r][field] \/ ReplacedAfter(read[r], field)

WorksheetInv ==
    WorksheetTypeOK /\ StampsAreInOrder /\ SubmissionsTellThePast /\ LoadedIsCurrent
        /\ SentIsStored

\* The largest of the first n numbers.
LEMMA LargestIsLast ==
    ASSUME NEW n \in Nat \ {0}
    PROVE  (CHOOSE v \in 1 .. n : \A w \in 1 .. n : w <= v) = n
<1>1. n \in 1 .. n /\ \A w \in 1 .. n : w <= n
  OBVIOUS
<1>2. \A v \in 1 .. n : (\A w \in 1 .. n : w <= v) => v = n
  OBVIOUS
<1> QED BY <1>1, <1>2

\* Version is the number of the last write.
LEMMA VersionIsLast ==
    ASSUME WorksheetTypeOK, StampsAreInOrder
    PROVE  /\ Version \in 1 .. MaxVersions
           /\ Versions = 1 .. Version
<1>1. PICK n \in 1 .. MaxVersions : Versions = 1 .. n
  BY DEF StampsAreInOrder
<1>2. n \in Nat \ {0}
  BY WorksheetBounds
<1>3. Version = n
  BY <1>1, <1>2, LargestIsLast DEF Version
<1> QED BY <1>1, <1>3

\* The first version is the teacher's assigning.
LEMMA WorksheetInvAtFirst == WorksheetInit => WorksheetInv
<1> SUFFICES ASSUME WorksheetInit PROVE WorksheetInv
  OBVIOUS
<1>1. WorksheetTypeOK
  <2>1. now \in Seconds /\ row \in Rows
    BY WorksheetBounds DEF WorksheetInit, Seconds
  <2>2. NothingSent \in Submissions
    BY DEF NothingSent, Submissions
  <2> QED BY WorksheetBounds, <2>1, <2>2
          DEF WorksheetInit, WorksheetTypeOK, Seconds, Rows, NoBase
<1>2. Versions = 1 .. 1
  BY WorksheetBounds DEF WorksheetInit, Versions, NoTime
<1>3. Version = 1
  BY <1>2, LargestIsLast DEF Version
<1>4. StampsAreInOrder
  BY <1>2, <1>3, WorksheetBounds DEF WorksheetInit, StampsAreInOrder, Rows
<1> QED BY <1>1, <1>4 DEF WorksheetInit, WorksheetInv, SubmissionsTellThePast, LoadedIsCurrent,
                          SentIsStored

\* A write is the next version, of this second, and the versions before it stay.
LEMMA WriteOK ==
    ASSUME WorksheetTypeOK, StampsAreInOrder, NEW new, Write(new), new.updatedAt = now,
           now' = now
    PROVE  /\ Version' = Version + 1 /\ Version + 1 \in 1 .. MaxVersions
           /\ Versions \subseteq Versions' /\ Version' \in Versions'
           /\ \A v \in Versions : stamp'[v] = stamp[v]
           /\ stamp' \in [1 .. MaxVersions -> Seconds \cup {NoTime}]
           /\ StampsAreInOrder'
<1> DEFINE n == Version
<1>1. n \in 1 .. MaxVersions /\ Versions = 1 .. n
  BY VersionIsLast
<1> HIDE DEF n
<1>2. n + 1 \in 1 .. MaxVersions
  BY <1>1, WorksheetBounds DEF Write, n
<1>3. stamp' = [stamp EXCEPT ![n + 1] = now]
  BY DEF Write, n
<1>4. /\ stamp \in [1 .. MaxVersions -> Seconds \cup {NoTime}] /\ now \in Seconds
      /\ stamp' \in [1 .. MaxVersions -> Seconds \cup {NoTime}]
  BY <1>2, <1>3 DEF WorksheetTypeOK
<1>5. stamp'[n + 1] = now /\ \A v \in 1 .. MaxVersions : v # n + 1 => stamp'[v] = stamp[v]
  BY <1>2, <1>3, <1>4
<1>6. \A v \in 1 .. MaxVersions : stamp[v] # NoTime <=> v \in 1 .. n
  BY <1>1 DEF Versions
<1>7. \A v \in 1 .. MaxVersions : stamp'[v] # NoTime <=> v \in 1 .. n + 1
  BY <1>1, <1>2, <1>4, <1>5, <1>6, WorksheetBounds DEF Seconds, NoTime
<1>8. Versions' = 1 .. n + 1
  BY <1>2, <1>7, WorksheetBounds DEF Versions
<1>9. Version' = n + 1
  BY <1>1, <1>8, WorksheetBounds, LargestIsLast DEF Version
<1>10. \A v \in Versions : stamp'[v] = stamp[v]
  BY <1>1, <1>5, WorksheetBounds
<1>11. \A v, w \in Versions' : v <= w => stamp'[v] <= stamp'[w] /\ stamp'[w] <= now'
  <2> SUFFICES ASSUME NEW v \in 1 .. n + 1, NEW w \in 1 .. n + 1, v <= w
               PROVE  stamp'[v] <= stamp'[w] /\ stamp'[w] <= now
    BY <1>8
  <2>1. now \in Nat
    BY <1>4, WorksheetBounds DEF Seconds
  <2>2. \A u \in 1 .. n : stamp[u] <= now
    BY <1>1 DEF StampsAreInOrder
  <2>3. CASE w = n + 1
    BY <2>1, <2>2, <2>3, <1>1, <1>5, <1>10
  <2>4. CASE w # n + 1
    <3>1. v \in 1 .. n /\ w \in 1 .. n
      BY <2>4, <1>1
    <3> QED BY <3>1, <1>1, <1>10 DEF StampsAreInOrder
  <2> QED BY <2>3, <2>4
<1>12. row'.updatedAt = stamp'[Version']
  BY <1>5, <1>9 DEF Write
<1>13. StampsAreInOrder'
  BY <1>2, <1>8, <1>11, <1>12 DEF StampsAreInOrder
<1> QED BY <1>1, <1>2, <1>4, <1>8, <1>9, <1>10, <1>13, WorksheetBounds DEF n

\* What a submission saw and read is not written again.
LEMMA PastStays ==
    ASSUME SubmissionsTellThePast, Versions \subseteq Versions',
           \A v \in Versions : stamp'[v] = stamp[v],
           UNCHANGED <<phase, base, seen, read, wrote>>
    PROVE  SubmissionsTellThePast'
  BY DEF SubmissionsTellThePast

\* A submission sends fields only.
LEMMA SentAreFields ==
    ASSUME WorksheetTypeOK, NEW r \in Requests
    PROVE  DOMAIN payload[r] \subseteq Fields
BY DEF WorksheetTypeOK, Submissions

\* A request that writes has saved, and reads and writes have the numbers of versions.
LEMMA CountsAreVersions ==
    ASSUME WorksheetTypeOK, StampsAreInOrder, SubmissionsTellThePast, NEW r \in Requests
    PROVE  /\ Version \in Nat /\ wrote[r] \in Nat /\ read[r] \in Nat
           /\ wrote[r] <= Version
           /\ phase[r] \in {"loaded", "saved"} => read[r] <= Version
           /\ wrote[r] # 0 => phase[r] = "saved"
<1>1. Versions = 1 .. Version /\ Version \in Nat /\ wrote[r] \in Nat /\ read[r] \in Nat
  BY VersionIsLast, WorksheetBounds DEF WorksheetTypeOK
<1> QED BY <1>1 DEF SubmissionsTellThePast

\* ReplacedAfter after this step, of a number of before it.
ReplacedNext(v, field) ==
    \E p \in Requests : /\ wrote'[p] > v /\ field \in DOMAIN payload'[p]
                       /\ row'[field] = payload'[p][field]

\* A step that writes no field and saves nothing leaves each submission's fields.
LEMMA NothingSaved ==
    ASSUME WorksheetInv, wrote' = wrote, \A field \in Fields : row'[field] = row[field],
           \A p \in Requests : phase[p] \in {"loaded", "saved"} =>
               /\ phase'[p] = phase[p] /\ payload'[p] = payload[p]
               /\ loaded'[p] = loaded[p] /\ read'[p] = read[p],
           \A p \in Requests : phase'[p] = "saved" => phase[p] = "saved",
           \A p \in Requests : phase'[p] = "loaded" =>
               phase[p] = "loaded" \/ \A field \in Fields : loaded'[p][field] = row[field]
    PROVE  LoadedIsCurrent' /\ SentIsStored'
<1>1. ASSUME NEW field \in Fields, NEW v \in Nat, ReplacedAfter(v, field)
      PROVE  ReplacedNext(v, field)
  <2>1. PICK p \in Requests : wrote[p] > v /\ field \in DOMAIN payload[p]
                              /\ row[field] = payload[p][field]
    BY <1>1 DEF ReplacedAfter
  <2>2. phase[p] = "saved"
    BY <2>1, CountsAreVersions DEF WorksheetInv
  <2> QED BY <2>1, <2>2 DEF ReplacedNext
<1>2. LoadedIsCurrent'
  <2> SUFFICES ASSUME NEW p \in Requests, phase'[p] = "loaded", NEW field \in Fields
               PROVE  row'[field] = loaded'[p][field] \/ ReplacedNext(read'[p], field)
    BY DEF LoadedIsCurrent, ReplacedAfter, ReplacedNext
  <2>1. CASE phase[p] = "loaded"
    <3>1. read'[p] = read[p] /\ read[p] \in Nat /\ loaded'[p] = loaded[p]
      BY <2>1, CountsAreVersions DEF WorksheetInv
    <3>2. row[field] = loaded[p][field] \/ ReplacedAfter(read[p], field)
      BY <2>1 DEF WorksheetInv, LoadedIsCurrent
    <3> QED BY <1>1, <3>1, <3>2
  <2>2. CASE phase[p] # "loaded"
    BY <2>2
  <2> QED BY <2>1, <2>2
<1>3. SentIsStored'
  <2> SUFFICES ASSUME NEW p \in Requests, phase'[p] = "saved", NEW field \in DOMAIN payload'[p]
               PROVE  row'[field] = payload'[p][field] \/ ReplacedNext(SentSince(p, field)', field)
    BY DEF SentIsStored, ReplacedAfter, ReplacedNext
  <2>1. /\ phase[p] = "saved" /\ payload'[p] = payload[p] /\ loaded'[p] = loaded[p]
        /\ read'[p] = read[p] /\ wrote'[p] = wrote[p] /\ field \in Fields
    BY SentAreFields DEF WorksheetInv
  <2> DEFINE v == SentSince(p, field)
  <2>2. v \in Nat /\ v = SentSince(p, field)'
    BY <2>1, CountsAreVersions DEF WorksheetInv, SentSince, Changed
  <2>3. row[field] = payload[p][field] \/ ReplacedAfter(v, field)
    BY <2>1 DEF WorksheetInv, SentIsStored
  <2> HIDE DEF v
  <2> QED BY <1>1, <2>1, <2>2, <2>3
<1> QED BY <1>2, <1>3

\* A save writes only fields that were sent, later than everything before it.
LEMMA Saved ==
    ASSUME WorksheetInv, NEW r \in Requests, phase[r] = "loaded",
           phase' = [phase EXCEPT ![r] = "saved"], UNCHANGED <<payload, loaded, read>>,
           \A q \in Requests : q # r => wrote'[q] = wrote[q],
           \A field \in Fields : row'[field] = Stores(r, field),
           \A field \in Fields : Changed(r, field) => wrote'[r] = Version + 1
    PROVE  LoadedIsCurrent' /\ SentIsStored'
<1>0. \A q \in Requests : q # r => phase'[q] = phase[q]
  BY DEF WorksheetInv, WorksheetTypeOK
<1>1. ASSUME NEW field \in Fields, NEW v \in Nat, v <= Version, row'[field] # row[field]
      PROVE  ReplacedNext(v, field)
  <2>1. Changed(r, field) /\ row'[field] = payload[r][field]
    BY <1>1 DEF Stores
  <2>2. wrote'[r] > v /\ field \in DOMAIN payload[r]
    BY <1>1, <2>1, CountsAreVersions DEF WorksheetInv, Changed
  <2> QED BY <2>1, <2>2 DEF ReplacedNext
<1>2. ASSUME NEW field \in Fields, NEW v \in Nat, v <= Version, ReplacedAfter(v, field)
      PROVE  ReplacedNext(v, field)
  <2>1. PICK p \in Requests : wrote[p] > v /\ field \in DOMAIN payload[p]
                              /\ row[field] = payload[p][field]
    BY <1>2 DEF ReplacedAfter
  <2>2. p # r
    BY <2>1, CountsAreVersions DEF WorksheetInv
  <2>3. CASE row'[field] = row[field]
    BY <2>1, <2>2, <2>3 DEF ReplacedNext
  <2>4. CASE row'[field] # row[field]
    BY <1>1, <1>2, <2>4
  <2> QED BY <2>3, <2>4
<1>3. LoadedIsCurrent'
  <2> SUFFICES ASSUME NEW p \in Requests, phase'[p] = "loaded", NEW field \in Fields
               PROVE  row'[field] = loaded[p][field] \/ ReplacedNext(read[p], field)
    BY DEF LoadedIsCurrent, ReplacedAfter, ReplacedNext
  <2>1. p # r /\ phase[p] = "loaded"
    BY <1>0 DEF WorksheetInv, WorksheetTypeOK
  <2>2. read[p] \in Nat /\ read[p] <= Version
    BY <2>1, CountsAreVersions DEF WorksheetInv
  <2>3. row[field] = loaded[p][field] \/ ReplacedAfter(read[p], field)
    BY <2>1 DEF WorksheetInv, LoadedIsCurrent
  <2> QED BY <1>1, <1>2, <2>2, <2>3
<1>4. SentIsStored'
  <2> SUFFICES ASSUME NEW p \in Requests, phase'[p] = "saved", NEW field \in DOMAIN payload[p]
               PROVE  row'[field] = payload[p][field] \/ ReplacedNext(SentSince(p, field)', field)
    BY DEF SentIsStored, ReplacedAfter, ReplacedNext
  <2>1. field \in Fields
    BY SentAreFields DEF WorksheetInv
  <2>2. CASE p # r
    <3> DEFINE v == SentSince(p, field)
    <3>1. phase[p] = "saved"
      BY <1>0, <2>2
    <3>2. v \in Nat /\ v <= Version /\ SentSince(p, field)' = v
      BY <2>2, <3>1, CountsAreVersions DEF WorksheetInv, SentSince, Changed
    <3>3. row[field] = payload[p][field] \/ ReplacedAfter(v, field)
      BY <3>1 DEF WorksheetInv, SentIsStored
    <3> HIDE DEF v
    <3>4. row'[field] = payload[p][field] \/ ReplacedNext(v, field)
      BY <1>1, <1>2, <2>1, <3>2, <3>3
    <3> QED BY <3>2, <3>4
  <2>3. CASE p = r /\ Changed(r, field)
    BY <2>1, <2>3 DEF Stores
  <2>4. CASE p = r /\ ~Changed(r, field)
    <3>1. payload[r][field] = loaded[r][field] /\ row'[field] = row[field]
      BY <2>1, <2>4 DEF Stores, Changed
    <3>2. read[r] \in Nat /\ read[r] <= Version /\ SentSince(r, field)' = read[r]
      BY <2>4, CountsAreVersions DEF WorksheetInv, SentSince, Changed
    <3>3. row[field] = loaded[r][field] \/ ReplacedAfter(read[r], field)
      BY <2>1 DEF WorksheetInv, LoadedIsCurrent
    <3> QED BY <1>2, <2>1, <2>4, <3>1, <3>2, <3>3
  <2> QED BY <2>2, <2>3, <2>4
<1> QED BY <1>3, <1>4

\* Assigning again writes neither score nor feedback.
LEMMA AssignOK == ASSUME WorksheetInv, Assign PROVE WorksheetInv'
<1> DEFINE new == [row EXCEPT !.updatedAt = now]
<1>1. /\ row \in Rows /\ now \in Seconds /\ now' = now /\ UNCHANGED requestVars
      /\ Write(new) /\ row' = new
  BY DEF WorksheetInv, WorksheetTypeOK, Assign, Write
<1>2. /\ new \in Rows /\ new.updatedAt = now
      /\ \A field \in Fields : new[field] = row[field]
  BY <1>1 DEF Rows, Fields
<1> HIDE DEF new
<1>3. /\ Version' = Version + 1 /\ Versions \subseteq Versions'
      /\ \A v \in Versions : stamp'[v] = stamp[v]
      /\ stamp' \in [1 .. MaxVersions -> Seconds \cup {NoTime}]
      /\ StampsAreInOrder'
  BY <1>1, <1>2, WriteOK DEF WorksheetInv
<1>4. WorksheetTypeOK'
  BY <1>1, <1>2, <1>3 DEF WorksheetInv, WorksheetTypeOK, requestVars
<1>5. SubmissionsTellThePast'
  BY <1>1, <1>3, PastStays DEF WorksheetInv, requestVars
<1>6. LoadedIsCurrent' /\ SentIsStored'
  BY <1>1, <1>2, NothingSaved DEF requestVars
<1> QED BY <1>3, <1>4, <1>5, <1>6 DEF WorksheetInv

\* A form or an operation is made from the row as it is.
LEMMA EnterOK == ASSUME WorksheetInv, NEW r \in Requests, Enter(r) PROVE WorksheetInv'
<1> USE DEF WorksheetInv
<1>1. PICK submission \in Submissions, b \in {NoBase, row.updatedAt} :
        payload' = [payload EXCEPT ![r] = submission] /\ base' = [base EXCEPT ![r] = b]
  BY DEF Enter
<1>2. /\ phase[r] = "new" /\ phase' = [phase EXCEPT ![r] = "entered"]
      /\ seen' = [seen EXCEPT ![r] = Version]
      /\ UNCHANGED <<now, row, stamp, loaded, read, wrote>>
      /\ Versions' = Versions /\ Version' = Version
  BY DEF Enter, Versions, Version
<1>3. Version \in Versions /\ Version \in 1 .. MaxVersions /\ row.updatedAt = stamp[Version]
  BY VersionIsLast, WorksheetBounds DEF StampsAreInOrder
<1>4. WorksheetTypeOK'
  <2>1. b \in Seconds \cup {NoBase}
    BY DEF WorksheetTypeOK, Rows
  <2>2. Version \in 0 .. MaxVersions
    BY <1>3
  <2> QED BY <1>1, <1>2, <2>1, <2>2 DEF WorksheetTypeOK
<1>5. StampsAreInOrder'
  BY <1>2 DEF StampsAreInOrder
<1>6. SubmissionsTellThePast'
  BY <1>1, <1>2, <1>3 DEF SubmissionsTellThePast, WorksheetTypeOK
<1>7. LoadedIsCurrent' /\ SentIsStored'
  <2>1. \A q \in Requests : q # r => phase'[q] = phase[q] /\ payload'[q] = payload[q]
    BY <1>1, <1>2 DEF WorksheetTypeOK
  <2>2. phase'[r] = "entered"
    BY <1>2 DEF WorksheetTypeOK
  <2> QED BY <1>2, <2>1, <2>2, NothingSaved
<1> QED BY <1>4, <1>5, <1>6, <1>7

\* A request that finds its base in the row found no second but that of the base.
LEMMA LoadOK == ASSUME WorksheetInv, NEW r \in Requests, Load(r) PROVE WorksheetInv'
<1> USE DEF WorksheetInv
<1>1. /\ phase[r] = "entered" /\ loaded' = [loaded EXCEPT ![r] = row]
      /\ phase' = [phase EXCEPT ![r] = IF IsStale(r) THEN "conflict" ELSE "loaded"]
      /\ read' = [read EXCEPT ![r] = Version]
      /\ UNCHANGED <<now, row, stamp, payload, base, seen, wrote>>
      /\ Versions' = Versions /\ Version' = Version
  BY DEF Load, Versions, Version
<1>2. /\ Version \in Versions /\ Version \in 1 .. MaxVersions /\ Versions = 1 .. Version
      /\ row.updatedAt = stamp[Version]
  BY VersionIsLast, WorksheetBounds DEF StampsAreInOrder
<1>3. WorksheetTypeOK'
  <2>1. Version \in 0 .. MaxVersions
    BY <1>2
  <2> QED BY <1>1, <2>1 DEF WorksheetTypeOK
<1>4. StampsAreInOrder'
  BY <1>1 DEF StampsAreInOrder
<1>5. SubmissionsTellThePast'
  <2>1. ASSUME NEW q \in Requests, q # r
        PROVE  phase'[q] = phase[q] /\ read'[q] = read[q]
    BY <1>1, <2>1 DEF WorksheetTypeOK
  <2>2. phase'[r] \in {"conflict", "loaded"} /\ read'[r] = Version /\ wrote[r] = 0
    BY <1>1 DEF WorksheetTypeOK, SubmissionsTellThePast
  <2>3. phase'[r] = "loaded" /\ base[r] # NoBase => base[r] = stamp[Version]
    BY <1>1, <1>2 DEF IsStale, WorksheetTypeOK
  <2>4. seen[r] \in Versions /\ seen[r] <= Version
    BY <1>1, <1>2, WorksheetBounds DEF SubmissionsTellThePast
  <2> QED BY <1>1, <1>2, <2>1, <2>2, <2>3, <2>4 DEF SubmissionsTellThePast
<1>6. LoadedIsCurrent' /\ SentIsStored'
  <2>1. \A q \in Requests : q # r =>
          phase'[q] = phase[q] /\ loaded'[q] = loaded[q] /\ read'[q] = read[q]
    BY <1>1 DEF WorksheetTypeOK
  <2>2. phase'[r] \in {"conflict", "loaded"} /\ loaded'[r] = row
    BY <1>1 DEF WorksheetTypeOK
  <2> QED BY <1>1, <2>1, <2>2, NothingSaved
<1> QED BY <1>3, <1>4, <1>5, <1>6

\* A save writes what was sent and is not as it was loaded.
LEMMA SaveOK == ASSUME WorksheetInv, NEW r \in Requests, Save(r) PROVE WorksheetInv'
<1> USE DEF WorksheetInv
<1>1. /\ phase[r] = "loaded" /\ phase' = [phase EXCEPT ![r] = "saved"]
      /\ UNCHANGED <<now, payload, base, loaded, seen, read>>
  BY DEF Save
<1>2. \A q \in Requests : q # r => phase'[q] = phase[q]
  BY <1>1 DEF WorksheetTypeOK
<1>3. /\ Version \in 1 .. MaxVersions /\ Version \in Nat
      /\ Versions = 1 .. Version /\ read[r] \in 1 .. Version
  BY <1>1, VersionIsLast, WorksheetBounds DEF SubmissionsTellThePast
<1>4. CASE Write(AfterSave(r)) /\ wrote' = [wrote EXCEPT ![r] = Version + 1]
  <2>1. AfterSave(r) \in Rows /\ AfterSave(r).updatedAt = now /\ row' = AfterSave(r)
    <3>1. /\ payload[r] \in Submissions /\ row \in Rows /\ now \in Seconds
      BY DEF WorksheetTypeOK
    <3>2. \A field \in DOMAIN payload[r] : payload[r][field] \in Values
      BY <3>1 DEF Submissions
    <3>3. \A field \in Fields : Stores(r, field) \in Values
      BY <3>1, <3>2 DEF Stores, Changed, Rows, Fields
    <3>4. Stores(r, "score") \in Values /\ Stores(r, "feedback") \in Values
      BY <3>3 DEF Fields
    <3> QED BY <1>4, <3>1, <3>4 DEF AfterSave, Write, Rows
  <2>2. /\ Version' = Version + 1 /\ Version + 1 \in 1 .. MaxVersions
        /\ Versions \subseteq Versions' /\ Version' \in Versions'
        /\ \A v \in Versions : stamp'[v] = stamp[v]
        /\ stamp' \in [1 .. MaxVersions -> Seconds \cup {NoTime}]
        /\ StampsAreInOrder'
    BY <1>1, <1>4, <2>1, WriteOK
  <2>3. WorksheetTypeOK'
    BY <1>1, <1>4, <2>1, <2>2 DEF WorksheetTypeOK
  <2>4. \A q \in Requests : q # r => wrote'[q] = wrote[q]
    BY <1>4 DEF WorksheetTypeOK
  <2>5. SubmissionsTellThePast'
    <3>1. wrote'[r] \in Versions' /\ phase'[r] = "saved"
      BY <1>1, <1>4, <2>2 DEF WorksheetTypeOK
    <3>2. SubmissionsTellThePast
      OBVIOUS
    <3> HIDE DEF WorksheetInv
    <3> QED BY <1>1, <1>2, <2>2, <2>4, <3>1, <3>2 DEF SubmissionsTellThePast
  <2>6. LoadedIsCurrent' /\ SentIsStored'
    <3>1. \A field \in Fields : row'[field] = Stores(r, field)
      BY <2>1 DEF AfterSave, Fields
    <3>2. wrote'[r] = Version + 1
      BY <1>4 DEF WorksheetTypeOK
    <3> QED BY <1>1, <2>4, <3>1, <3>2, Saved
  <2> QED BY <2>2, <2>3, <2>5, <2>6
<1>5. CASE /\ ~Changed(r, "score") /\ ~Changed(r, "feedback") /\ loaded[r].submittedAt = now
           /\ UNCHANGED <<row, stamp, wrote>>
  <2>1. Versions' = Versions /\ Version' = Version
    BY <1>5 DEF Versions, Version
  <2>2. WorksheetTypeOK'
    BY <1>1, <1>5 DEF WorksheetTypeOK
  <2>3. StampsAreInOrder' /\ SubmissionsTellThePast'
    BY <1>1, <1>2, <1>5, <2>1 DEF StampsAreInOrder, SubmissionsTellThePast, WorksheetTypeOK
  <2>4. LoadedIsCurrent' /\ SentIsStored'
    <3>1. \A field \in Fields : ~Changed(r, field) /\ row'[field] = Stores(r, field)
      BY <1>5 DEF Fields, Stores
    <3> QED BY <1>1, <1>5, <3>1, Saved
  <2> QED BY <2>2, <2>3, <2>4
<1> QED BY <1>4, <1>5 DEF Save

\* Every reachable state satisfies the inductive invariant.
THEOREM WorksheetInvariant == WorksheetSpec => []WorksheetInv
<1>1. WorksheetInv /\ [WorksheetNext]_worksheetVars => WorksheetInv'
  <2> SUFFICES ASSUME WorksheetInv, [WorksheetNext]_worksheetVars PROVE WorksheetInv'
    OBVIOUS
  <2>1. CASE Tick
    <3>1. UNCHANGED <<row, stamp, requestVars>> /\ now' = now + 1 /\ now < MaxSecond
      BY <2>1 DEF Tick
    <3>2. Versions' = Versions /\ Version' = Version
      BY <3>1 DEF Versions, Version
    <3>3. WorksheetTypeOK'
      BY <3>1, WorksheetBounds DEF WorksheetInv, WorksheetTypeOK, Seconds, requestVars
    <3>4. StampsAreInOrder'
      <4>1. now \in Nat /\ \A v \in Versions : stamp[v] \in Nat
        BY WorksheetBounds DEF WorksheetInv, WorksheetTypeOK, Seconds, NoTime, Versions
      <4> QED BY <3>1, <3>2, <4>1 DEF WorksheetInv, StampsAreInOrder
    <3>5. LoadedIsCurrent' /\ SentIsStored'
      BY <3>1, NothingSaved DEF requestVars
    <3> QED BY <3>1, <3>2, <3>3, <3>4, <3>5 DEF WorksheetInv, SubmissionsTellThePast, requestVars
  <2>2. CASE UNCHANGED worksheetVars
    <3>1. Versions' = Versions /\ Version' = Version
      BY <2>2 DEF worksheetVars, Versions, Version
    <3>2. LoadedIsCurrent' /\ SentIsStored'
      BY <2>2, NothingSaved DEF worksheetVars, requestVars
    <3> QED BY <2>2, <3>1, <3>2
            DEF worksheetVars, requestVars, WorksheetInv, WorksheetTypeOK, StampsAreInOrder,
                SubmissionsTellThePast
  <2> QED BY <2>1, <2>2, AssignOK, EnterOK, LoadOK, SaveOK DEF WorksheetNext
<1> QED BY WorksheetInvAtFirst, <1>1, PTL DEF WorksheetSpec

\* Every variable of an assignment keeps its type.
THEOREM WorksheetTyped == WorksheetSpec => []WorksheetTypeOK
  BY WorksheetInvariant, PTL DEF WorksheetInv

\* A submission that names the version its author saw replaces no other write, but
\* one of the very second of its base or one after it had looked.
THEOREM UnseenKept == WorksheetSpec => []UnseenIsKept
<1>1. WorksheetInv => UnseenIsKept
  <2> SUFFICES ASSUME WorksheetInv, NEW r \in Requests, base[r] # NoBase,
                      wrote[r] > seen[r] + 1, ~Overtaken(r), NEW v \in seen[r] + 1 .. read[r]
               PROVE  stamp[v] = base[r]
    BY DEF UnseenIsKept
  <2>1. seen[r] \in Nat /\ read[r] \in Nat /\ wrote[r] \in Nat
    BY WorksheetBounds DEF WorksheetInv, WorksheetTypeOK
  <2>2. phase[r] = "saved"
    BY <2>1 DEF WorksheetInv, SubmissionsTellThePast
  <2>3. /\ seen[r] \in Versions /\ base[r] = stamp[seen[r]]
        /\ read[r] \in Versions /\ base[r] = stamp[read[r]]
    BY <2>2 DEF WorksheetInv, SubmissionsTellThePast
  <2>4. v \in Versions
    BY <2>1, <2>3, VersionIsLast, WorksheetBounds DEF WorksheetInv
  <2>5. stamp[seen[r]] <= stamp[v] /\ stamp[v] <= stamp[read[r]]
    <3>1. seen[r] <= v /\ v <= read[r]
      BY <2>1
    <3>2. \A x, y \in Versions : x <= y => stamp[x] <= stamp[y]
      BY DEF WorksheetInv, StampsAreInOrder
    <3> QED BY <2>3, <2>4, <3>1, <3>2
  <2>6. stamp[v] \in Nat /\ stamp[seen[r]] \in Nat
    BY <2>3, <2>4 DEF WorksheetInv, WorksheetTypeOK, Versions, Seconds, NoTime
  <2> QED BY <2>3, <2>5, <2>6
<1> QED BY <1>1, WorksheetInvariant, PTL

\* What a finished submission sent is in the row, until a submission of the same
\* field that was written later replaces it.
THEOREM SentStored == WorksheetSpec => []SentIsStored
  BY WorksheetInvariant, PTL DEF WorksheetInv
=============================================================================
