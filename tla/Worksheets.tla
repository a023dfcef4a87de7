----------------------------- MODULE Worksheets -----------------------------
(***************************************************************************)
(* One worksheet assignment: submissions from offline operations, which    *)
(* may name the updated_at their author saw (submitWorksheet), submissions *)
(* from forms (WorksheetController::submit), and assigning it again.       *)
(*                                                                         *)
(* A request loads the row without a lock and saves it in one statement,   *)
(* with the columns it was sent that differ from what it had loaded: score *)
(* and feedback may each be left out.  Times are whole seconds, as the     *)
(* columns keep them.  score stands for max_score, too.                    *)
(***************************************************************************)
EXTENDS Naturals

CONSTANTS
    Requests,   \* submissions made
    Values,     \* what may stand in a column
    MaxSecond,  \* bound on the clock
    MaxVersions \* bound on the writes of the row

ASSUME WorksheetBounds == MaxSecond \in Nat \ {0} /\ MaxVersions \in Nat \ {0}

Seconds == 1 .. MaxSecond
NoTime == 0
NoBase == 0

VARIABLES
    now,      \* the server's clock
    row,      \* the assignment; submittedAt is NoTime until it is submitted
    stamp,    \* stamp[v]: the second of the v-th write, NoTime when there is none
    phase,    \* phase[r]: "new", "entered", "loaded", "saved", "conflict"
    payload,  \* payload[r]: the fields it sends, each with its value
    base,     \* base[r]: base_updated_at, NoBase without one
    loaded,   \* loaded[r]: the model the request holds
    seen,     \* seen[r]: writes its author had seen
    read,     \* read[r]: writes before its load
    wrote     \* wrote[r]: the write it made, 0 when it wrote nothing

requestVars == <<phase, payload, base, loaded, seen, read, wrote>>
worksheetVars == <<now, row, stamp, requestVars>>

\* A submission sends some of the fields, or none: it is submitted all the same.
Fields == {"score", "feedback"}
Submissions == UNION {[sent -> Values] : sent \in SUBSET Fields}
NothingSent == [field \in {} |-> NoTime]
Rows == [score : Values, feedback : Values, submittedAt : Seconds \cup {NoTime},
         updatedAt : Seconds]

\* Writes so far, the assigning included.
Versions == {v \in 1 .. MaxVersions : stamp[v] # NoTime}
Version == CHOOSE v \in Versions : \A w \in Versions : w <= v

-----------------------------------------------------------------------------
\* assign has made the row.
WorksheetInit ==
    /\ now = 1
    /\ row \in {new \in Rows : new.submittedAt = NoTime /\ new.updatedAt = now}
    /\ stamp = [v \in 1 .. MaxVersions |-> IF v = 1 THEN now ELSE NoTime]
    /\ phase = [r \in Requests |-> "new"]
    /\ payload = [r \in Requests |-> NothingSent]
    /\ base = [r \in Requests |-> NoBase]
    /\ loaded = [r \in Requests |-> row]
    /\ seen = [r \in Requests |-> 0]
    /\ read = [r \in Requests |-> 0]
    /\ wrote = [r \in Requests |-> 0]

Tick ==
    /\ now < MaxSecond
    /\ now' = now + 1
    /\ UNCHANGED <<row, stamp, requestVars>>

Write(new) ==
    /\ Version < MaxVersions
    /\ row' = new
    /\ stamp' = [stamp EXCEPT ![Version + 1] = now]

\* assign once more: upsert leaves everything but updated_at as it was.
Assign ==
    /\ Write([row EXCEPT !.updatedAt = now])
    /\ UNCHANGED <<now, requestVars>>

\* Somebody reads the row, in a list or in the snapshot, and fills in the form.
\* The snapshot tells updated_at, which an offline operation may take along.
Enter(r) ==
    /\ phase[r] = "new"
    /\ \E submission \in Submissions, b \in {NoBase, row.updatedAt} :
          /\ payload' = [payload EXCEPT ![r] = submission]
          /\ base' = [base EXCEPT ![r] = b]
    /\ seen' = [seen EXCEPT ![r] = Version]
    /\ phase' = [phase EXCEPT ![r] = "entered"]
    /\ UNCHANGED <<now, row, stamp, loaded, read, wrote>>

\* Broken variants, each named for the mistake, stand before the definition they
\* would replace; PROJECT.json pairs them with the property that catches them.
IsStaleIfOlder(r) == base[r] # NoBase /\ base[r] > row.updatedAt

\* OfflineSyncConflictException.
IsStale(r) == base[r] # NoBase /\ base[r] # row.updatedAt

\* findOrFail or the route's binding, and the comparison with what it found.
Load(r) ==
    /\ phase[r] = "entered"
    /\ loaded' = [loaded EXCEPT ![r] = row]
    /\ read' = [read EXCEPT ![r] = Version]
    /\ phase' = [phase EXCEPT ![r] = IF IsStale(r) THEN "conflict" ELSE "loaded"]
    /\ UNCHANGED <<now, row, stamp, payload, base, seen, wrote>>

\* Eloquent's dirty columns: compared with the model, not with the row.
Changed(r, field) == field \in DOMAIN payload[r] /\ payload[r][field] # loaded[r][field]

\* Mutant: all columns of the model are written, not only the dirty ones.
StoresModel(r, field) ==
    IF field \in DOMAIN payload[r] THEN payload[r][field] ELSE loaded[r][field]

Stores(r, field) == IF Changed(r, field) THEN payload[r][field] ELSE row[field]

AfterSaveUnstamped(r) ==
    [score |-> Stores(r, "score"), feedback |-> Stores(r, "feedback"),
     submittedAt |-> now, updatedAt |-> NoTime]

AfterSave(r) ==
    [score |-> Stores(r, "score"), feedback |-> Stores(r, "feedback"),
     submittedAt |-> now, updatedAt |-> now]

\* update: with status 'submitted' and submitted_at now; nothing is written when
\* the model had all of it.
Save(r) ==
    /\ phase[r] = "loaded"
    /\ phase' = [phase EXCEPT ![r] = "saved"]
    /\ \/ /\ Changed(r, "score") \/ Changed(r, "feedback") \/ loaded[r].submittedAt # now
          /\ Write(AfterSave(r))
          /\ wrote' = [wrote EXCEPT ![r] = Version + 1]
       \/ /\ ~Changed(r, "score") /\ ~Changed(r, "feedback") /\ loaded[r].submittedAt = now
          /\ UNCHANGED <<row, stamp, wrote>>
    /\ UNCHANGED <<now, payload, base, loaded, seen, read>>

WorksheetNext == Tick \/ Assign \/ \E r \in Requests : Enter(r) \/ Load(r) \/ Save(r)

WorksheetSpec == WorksheetInit /\ [][WorksheetNext]_worksheetVars

-----------------------------------------------------------------------------
(* Properties                                                              *)

WorksheetTypeOK ==
    /\ now \in Seconds /\ row \in Rows
    /\ stamp \in [1 .. MaxVersions -> Seconds \cup {NoTime}]
    /\ phase \in [Requests -> {"new", "entered", "loaded", "saved", "conflict"}]
    /\ payload \in [Requests -> Submissions] /\ loaded \in [Requests -> Rows]
    /\ base \in [Requests -> Seconds \cup {NoBase}]
    /\ {seen, read, wrote} \subseteq [Requests -> 0 .. MaxVersions]

\* The row was written between the load and the save of r.
Overtaken(r) == wrote[r] > read[r] + 1

\* A submission with a base replaces nothing its author had not seen, unless that
\* was written in the very second of the base, or after the request had looked.
UnseenIsKept ==
    \A r \in Requests :
        base[r] # NoBase /\ wrote[r] > seen[r] + 1 =>
            Overtaken(r) \/ \A v \in seen[r] + 1 .. read[r] : stamp[v] = base[r]

\* What a finished submission sent is in the row, until a later write of a
\* submission that sent the same field replaces it: neither a submission that
\* leaves the field out, with a model loaded before, nor a new assigning takes it
\* back.  Later than what: than its own write, or, where it sent what it had
\* loaded and so did not write the field, than its load.
ReplacedAfter(v, field) ==
    \E p \in Requests : /\ wrote[p] > v /\ field \in DOMAIN payload[p]
                       /\ row[field] = payload[p][field]
SentSince(r, field) == IF Changed(r, field) THEN wrote[r] ELSE read[r]
SentIsStored ==
    \A r \in Requests : phase[r] = "saved" =>
        \A field \in DOMAIN payload[r] :
            row[field] = payload[r][field] \/ ReplacedAfter(SentSince(r, field), field)

\* docs/offline-sync.md: "if the server assignment has changed since the client read
\* it, the server returns conflict and preserves the newer server record."
NewerIsPreserved ==
    \A r, s \in Requests :
        base[r] # NoBase /\ wrote[s] > seen[r] /\ wrote[r] > wrote[s] =>
            stamp[wrote[s]] <= base[r]
=============================================================================
