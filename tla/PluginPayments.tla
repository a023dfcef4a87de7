--------------------------- MODULE PluginPayments ---------------------------
(***************************************************************************)
(* Manual payments for paid plugins (PluginPaymentService.php): a customer *)
(* opens a payment for a plugin, sends the provider's reference, and an    *)
(* administrator approves it, which creates the entitlement, or rejects    *)
(* it.                                                                     *)
(*                                                                         *)
(* Only approve runs in a transaction with the row locked.  The other      *)
(* operations load a row, decide on what they loaded and write later, so   *)
(* each is two or three steps of a request r, and any other request, or an *)
(* approval, may come in between.                                          *)
(***************************************************************************)
EXTENDS Naturals, FiniteSets

CONSTANTS
    Orders,       \* (user, paid plugin) pairs
    Payments,     \* rows plugin_payment_transactions may get: bound
    Requests,     \* request slots: bound on requests in progress at once
    References,   \* provider references
    Nil           \* SQL null, or no subject

ASSUME NilIsNothing == Nil \notin Orders \cup Payments \cup References
ASSUME BoundsAreFinite == IsFiniteSet(Payments) /\ IsFiniteSet(Requests)

VARIABLES
    hasRecipient, \* the payment method has a recipient
    isEnabled,    \* the payment method is enabled
    owner,        \* owner[p]: the order a payment is for
    status,       \* status[p]; "none" before the row exists
    reference,    \* reference[p], unique when not null
    fulfilled,    \* fulfilled[p]: fulfilled_at is set
    purchases,    \* orders with a completed plugin_purchases row
    step,         \* step[r]: what a request does next
    subject,      \* subject[r]: the order or payment it works on
    entered,      \* entered[r]: the reference it is about to store
    raced         \* history: open payments that were opened beside another
                  \* checkout of their order, or again after their review

methodVars == <<hasRecipient, isEnabled>>
paymentVars == <<owner, status, reference, fulfilled, purchases>>
requestVars == <<step, subject, entered>>
vars == <<methodVars, paymentVars, requestVars, raced>>

OpenStatuses == {"pending", "submitted"}
OpenFor(order) == {p \in Payments : owner[p] = order /\ status[p] \in OpenStatuses}

Init ==
    /\ hasRecipient = FALSE
    /\ isEnabled = FALSE
    /\ owner = [p \in Payments |-> Nil]
    /\ status = [p \in Payments |-> "none"]
    /\ reference = [p \in Payments |-> Nil]
    /\ fulfilled = [p \in Payments |-> FALSE]
    /\ purchases = {}
    /\ step = [r \in Requests |-> "idle"]
    /\ subject = [r \in Requests |-> Nil]
    /\ entered = [r \in Requests |-> Nil]
    /\ raced = {}

\* A request goes on to its next step, or ends.
GoTo(r, next, what, ref) ==
    /\ step' = [step EXCEPT ![r] = next]
    /\ subject' = [subject EXCEPT ![r] = what]
    /\ entered' = [entered EXCEPT ![r] = ref]

End(r) == GoTo(r, "idle", Nil, Nil)

-----------------------------------------------------------------------------
\* configure: the recipient is left out of the request, given, or null.  The
\* check falls back on the stored one; the update writes what was sent.
Configure(enable, recipient) ==
    /\ enable => hasRecipient \/ recipient = "given"
    /\ isEnabled' = enable
    /\ hasRecipient' = (recipient = "given" \/ (recipient = "omitted" /\ hasRecipient))
    /\ UNCHANGED <<paymentVars, requestVars, raced>>

\* begin, in three steps: the method is enabled and the plugin not yet owned;
\* no payment for it is open; a new one is inserted.
CheckMayBuy(r, order) ==
    /\ step[r] = "idle"
    /\ isEnabled
    /\ order \notin purchases
    /\ GoTo(r, "lookup", order, Nil)
    /\ UNCHANGED <<methodVars, paymentVars, raced>>

\* Mutant: a submitted payment is not taken for an open one.
LookUpPendingOnly(r) ==
    /\ step[r] = "lookup"
    /\ IF \E p \in Payments : owner[p] = subject[r] /\ status[p] = "pending"
          THEN End(r) ELSE GoTo(r, "create", subject[r], Nil)
    /\ UNCHANGED <<methodVars, paymentVars, raced>>

LookUpOpen(r) ==
    /\ step[r] = "lookup"
    /\ IF OpenFor(subject[r]) = {} THEN GoTo(r, "create", subject[r], Nil) ELSE End(r)
    /\ UNCHANGED <<methodVars, paymentVars, raced>>

\* Another checkout of the order has looked and is about to open one too.
CheckoutBeside(r) ==
    \E other \in Requests \ {r} : step[other] = "create" /\ subject[other] = subject[r]

Create(r, p) ==
    /\ step[r] = "create"
    /\ status[p] = "none"
    /\ owner' = [owner EXCEPT ![p] = subject[r]]
    /\ status' = [status EXCEPT ![p] = "pending"]
    /\ raced' = IF CheckoutBeside(r) THEN raced \cup {p} ELSE raced
    /\ End(r)
    /\ UNCHANGED <<methodVars, reference, fulfilled, purchases>>

\* submitReference: the row is loaded and the unique rule evaluated, then the
\* update goes through unless the unique column refuses the reference.
LoadForSubmit(r, p, ref) ==
    /\ step[r] = "idle"
    /\ status[p] = "pending"
    /\ \A q \in Payments : reference[q] # ref
    /\ GoTo(r, "submit", p, ref)
    /\ UNCHANGED <<methodVars, paymentVars, raced>>

TakenByAnother(ref, p) == \E q \in Payments \ {p} : reference[q] = ref

Submit(r) ==
    /\ step[r] = "submit"
    /\ ~TakenByAnother(entered[r], subject[r])
    /\ reference' = [reference EXCEPT ![subject[r]] = entered[r]]
    /\ status' = [status EXCEPT ![subject[r]] = "submitted"]
    /\ raced' = IF status[subject[r]] \in OpenStatuses THEN raced
                ELSE raced \cup {subject[r]}
    /\ End(r)
    /\ UNCHANGED <<methodVars, owner, fulfilled, purchases>>

SubmitFails(r) ==
    /\ step[r] = "submit"
    /\ TakenByAnother(entered[r], subject[r])
    /\ End(r)
    /\ UNCHANGED <<methodVars, paymentVars, raced>>

\* approve: one transaction on the locked row.
Approve(p) ==
    /\ status[p] = "submitted"
    /\ reference[p] # Nil
    /\ purchases' = purchases \cup {owner[p]}
    /\ status' = [status EXCEPT ![p] = "approved"]
    /\ fulfilled' = [fulfilled EXCEPT ![p] = TRUE]
    /\ raced' = raced \ {p}
    /\ UNCHANGED <<methodVars, owner, reference, requestVars>>

\* reject: no transaction and no lock; it writes over whatever is there.
LoadForReject(r, p) ==
    /\ step[r] = "idle"
    /\ status[p] = "submitted"
    /\ GoTo(r, "reject", p, Nil)
    /\ UNCHANGED <<methodVars, paymentVars, raced>>

\* Mutant: a rejection frees the reference for another attempt.
RejectFreeingReference(r) ==
    /\ step[r] = "reject"
    /\ status' = [status EXCEPT ![subject[r]] = "rejected"]
    /\ reference' = [reference EXCEPT ![subject[r]] = Nil]
    /\ End(r)
    /\ UNCHANGED <<methodVars, owner, fulfilled, purchases, raced>>

\* Mutant: a rejection leaves the status null.
RejectUnsettled(r) ==
    /\ step[r] = "reject"
    /\ status' = [status EXCEPT ![subject[r]] = Nil]
    /\ End(r)
    /\ UNCHANGED <<methodVars, owner, reference, fulfilled, purchases, raced>>

Reject(r) ==
    /\ step[r] = "reject"
    /\ status' = [status EXCEPT ![subject[r]] = "rejected"]
    /\ raced' = raced \ {subject[r]}
    /\ End(r)
    /\ UNCHANGED <<methodVars, owner, reference, fulfilled, purchases>>

\* The process dies, or the connection to the database does, before the write.
Abandon(r) ==
    /\ step[r] # "idle"
    /\ End(r)
    /\ UNCHANGED <<methodVars, paymentVars, raced>>

-----------------------------------------------------------------------------
Checkout(r) == \/ \E order \in Orders : CheckMayBuy(r, order)
               \/ LookUpOpen(r)
               \/ \E p \in Payments : Create(r, p)

SubmitReference(r) == \/ \E p \in Payments, ref \in References : LoadForSubmit(r, p, ref)
                      \/ Submit(r)
                      \/ SubmitFails(r)

Review(r) == (\E p \in Payments : LoadForReject(r, p)) \/ Reject(r)

Next ==
    \/ \E enable \in BOOLEAN, recipient \in {"omitted", "given", "null"} :
          Configure(enable, recipient)
    \/ \E r \in Requests : Checkout(r) \/ SubmitReference(r) \/ Review(r) \/ Abandon(r)
    \/ \E p \in Payments : Approve(p)

Spec == Init /\ [][Next]_vars

-----------------------------------------------------------------------------
(* Properties                                                              *)

\* Every variable has its type.
TypeOK ==
    /\ hasRecipient \in BOOLEAN
    /\ isEnabled \in BOOLEAN
    /\ owner \in [Payments -> Orders \cup {Nil}]
    /\ status \in [Payments -> {"none", "pending", "submitted", "approved", "rejected"}]
    /\ reference \in [Payments -> References \cup {Nil}]
    /\ fulfilled \in [Payments -> BOOLEAN]
    /\ purchases \subseteq Orders
    /\ step \in [Requests -> {"idle", "lookup", "create", "submit", "reject"}]
    /\ subject \in [Requests -> Orders \cup Payments \cup {Nil}]
    /\ entered \in [Requests -> References \cup {Nil}]
    /\ raced \subseteq Payments

\* Whatever the requests race, an order is owned exactly when a payment of its own
\* has been through approve, with a reference to show for it.
EntitlementsMatchApprovals ==
    /\ purchases = {owner[p] : p \in {q \in Payments : fulfilled[q]}}
    /\ \A p \in Payments : fulfilled[p] => reference[p] # Nil

\* One receipt never pays for two: the unique rule is checked before the write, the
\* unique column at it.
ReferenceBacksOnePayment ==
    \A p, q \in Payments : reference[p] = reference[q] /\ reference[p] # Nil => p = q

\* An order has one open payment.  Further ones were opened beside another
\* checkout that had looked for one too, or opened again by a reference that came
\* in late over a review; and with those too there are never more than requests
\* ever raced for the order at once, however long that goes on.
OpenPaymentsAreFew ==
    \A order \in Orders :
        /\ Cardinality(OpenFor(order) \ raced) <= 1
        /\ Cardinality(OpenFor(order)) <= Cardinality(Requests)

\* docs/plugin-payments.md: rejecting stores review metadata "without creating an
\* entitlement".
RejectedGrantsNothing == \A p \in Payments : status[p] = "rejected" => ~fulfilled[p]

\* docs/plugin-payments.md: a checkout creates "one open payment transaction for
\* the user and plugin".
OneOpenPayment == \A order \in Orders : Cardinality(OpenFor(order)) <= 1

-----------------------------------------------------------------------------
(* What makes the two invariants above inductive.                          *)

\* A row that does not exist has no owner, no reference and was never approved;
\* one that does belongs to an order.
RowsAreWhole ==
    \A p \in Payments :
        IF status[p] = "none"
        THEN owner[p] = Nil /\ reference[p] = Nil /\ ~fulfilled[p]
        ELSE owner[p] \in Orders

\* A request in progress works on an order or on a row that exists.
RequestsHaveSubjects ==
    \A r \in Requests :
        /\ step[r] \in {"lookup", "create"} => subject[r] \in Orders
        /\ step[r] \in {"submit", "reject"} => /\ subject[r] \in Payments
                                              /\ status[subject[r]] # "none"
        /\ step[r] = "submit" => entered[r] \in References

PaymentInv == /\ TypeOK
              /\ RowsAreWhole
              /\ RequestsHaveSubjects
              /\ EntitlementsMatchApprovals
              /\ ReferenceBacksOnePayment
=============================================================================
