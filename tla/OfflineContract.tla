-------------------------- MODULE OfflineContract --------------------------
(***************************************************************************)
(* What docs/offline-sync.md promises the user of the offline outbox, with *)
(* neither requests nor tables: a queued operation is written to the       *)
(* school's records at most once, its fate is decided at most once, the    *)
(* decision agrees with the records, and the device only ever shows a      *)
(* refusal that the server has really decided.                             *)
(***************************************************************************)
EXTENDS Naturals

CONSTANT Ops

VARIABLES
    records,    \* records[op]: rows the server wrote on behalf of op
    decided,    \* decided[op]: the server's final word on op, or "open"
    shown       \* shown[op]: the refusal the device shows for op, or "none"

contractVars == <<records, decided, shown>>

Refused == {"rejected", "conflict"}

Init ==
    /\ records = [op \in Ops |-> 0]
    /\ decided = [op \in Ops |-> "open"]
    /\ shown = [op \in Ops |-> "none"]

\* The server writes the record of an operation that has none yet.
Write(op) ==
    /\ decided[op] = "open"
    /\ records[op] = 0
    /\ records' = [records EXCEPT ![op] = 1]
    /\ UNCHANGED <<decided, shown>>

\* The server decides: "applied" exactly when the record was written.
Decide(op, word) ==
    /\ decided[op] = "open"
    /\ (word = "applied") <=> (records[op] = 1)
    /\ decided' = [decided EXCEPT ![op] = word]
    /\ UNCHANGED <<records, shown>>

\* The device shows a refusal for review, only one the server decided.
Show(op) ==
    /\ decided[op] \in Refused
    /\ shown' = [shown EXCEPT ![op] = decided[op]]
    /\ UNCHANGED <<records, decided>>

\* Sign-out or expiry hides rows; neither touches the server.
Hide(ops) ==
    /\ shown' = [op \in Ops |-> IF op \in ops THEN "none" ELSE shown[op]]
    /\ UNCHANGED <<records, decided>>

Next ==
    \/ \E op \in Ops : Write(op) \/ Show(op)
    \/ \E op \in Ops, word \in {"applied"} \cup Refused : Decide(op, word)
    \/ \E ops \in SUBSET Ops : Hide(ops)

Spec == Init /\ [][Next]_contractVars
=============================================================================
