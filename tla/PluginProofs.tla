---------------------------- MODULE PluginProofs ----------------------------
(***************************************************************************)
(* The plugin store.  For any number of orders, payments, requests and     *)
(* references: an entitlement exists exactly where an approval went        *)
(* through, and no reference backs two payments, whatever the unlocked     *)
(* operations race; and an order has one open payment but for races of     *)
(* checkouts and late references, and never more than requests.  For any   *)
(* number of installs, versions and seconds: an install that ran alone is  *)
(* undone when it fails, and a row written by such a request has its       *)
(* version in Modules/<name>.                                              *)
(***************************************************************************)
EXTENDS PluginPayments, PluginInstaller, FiniteSetTheorems, TLAPS

-----------------------------------------------------------------------------
(* Payments and entitlements: PluginPayments                               *)

USE DEF methodVars, paymentVars, requestVars, GoTo, End

\* No payment method is enabled, no row exists and no request runs at first.
LEMMA InitOK == Init => PaymentInv
BY NilIsNothing
   DEF Init, PaymentInv, TypeOK, RowsAreWhole, RequestsHaveSubjects,
       EntitlementsMatchApprovals, ReferenceBacksOnePayment

\* Configuring the payment method leaves payments and requests alone.
LEMMA ConfigureOK ==
    ASSUME PaymentInv, NEW enable \in BOOLEAN,
           NEW recipient \in {"omitted", "given", "null"}, Configure(enable, recipient)
    PROVE  PaymentInv'
<1>1. hasRecipient' \in BOOLEAN /\ isEnabled' \in BOOLEAN
  BY DEF Configure, PaymentInv, TypeOK
<1> QED
  BY <1>1 DEF Configure, PaymentInv, TypeOK, RowsAreWhole, RequestsHaveSubjects,
              EntitlementsMatchApprovals, ReferenceBacksOnePayment

\* begin inserts a row where there was none: nothing approved changes hands.
LEMMA CheckoutOK ==
    ASSUME PaymentInv, NEW r \in Requests, Checkout(r)
    PROVE  PaymentInv'
<1> USE NilIsNothing DEF PaymentInv
<1>1. ASSUME NEW order \in Orders, CheckMayBuy(r, order) PROVE PaymentInv'
  BY <1>1 DEF CheckMayBuy, TypeOK, RowsAreWhole, RequestsHaveSubjects,
              EntitlementsMatchApprovals, ReferenceBacksOnePayment
<1>2. CASE LookUpOpen(r)
  BY <1>2 DEF LookUpOpen, TypeOK, RowsAreWhole, RequestsHaveSubjects,
              EntitlementsMatchApprovals, ReferenceBacksOnePayment
<1>3. ASSUME NEW p \in Payments, Create(r, p) PROVE PaymentInv'
  <2>1. subject[r] \in Orders /\ ~fulfilled[p]
    BY <1>3 DEF Create, RequestsHaveSubjects, RowsAreWhole
  <2>2. TypeOK'
    BY <1>3, <2>1 DEF Create, TypeOK
  <2>3. RowsAreWhole'
    BY <1>3, <2>1 DEF Create, TypeOK, RowsAreWhole
  <2>4. RequestsHaveSubjects'
    BY <1>3 DEF Create, TypeOK, RequestsHaveSubjects
  <2>5. \A q \in Payments : fulfilled[q] => owner'[q] = owner[q]
    BY <1>3, <2>1 DEF Create, TypeOK
  <2>6. EntitlementsMatchApprovals' /\ ReferenceBacksOnePayment'
    BY <1>3, <2>5 DEF Create, EntitlementsMatchApprovals, ReferenceBacksOnePayment
  <2> QED BY <2>2, <2>3, <2>4, <2>6
<1> QED BY <1>1, <1>2, <1>3 DEF Checkout

\* A reference is written only when no other row has it, also over a row that was
\* reviewed meanwhile.
LEMMA SubmitReferenceOK ==
    ASSUME PaymentInv, NEW r \in Requests, SubmitReference(r)
    PROVE  PaymentInv'
<1> USE NilIsNothing DEF PaymentInv
<1>1. ASSUME NEW p \in Payments, NEW ref \in References, LoadForSubmit(r, p, ref)
      PROVE  PaymentInv'
  BY <1>1 DEF LoadForSubmit, TypeOK, RowsAreWhole, RequestsHaveSubjects,
              EntitlementsMatchApprovals, ReferenceBacksOnePayment
<1>2. CASE Submit(r)
  <2>1. /\ subject[r] \in Payments
        /\ status[subject[r]] # "none"
        /\ entered[r] \in References
    BY <1>2 DEF Submit, RequestsHaveSubjects
  <2>2. TypeOK'
    BY <1>2, <2>1 DEF Submit, TypeOK
  <2>3. RowsAreWhole'
    BY <1>2, <2>1 DEF Submit, TypeOK, RowsAreWhole
  <2>4. RequestsHaveSubjects'
    BY <1>2, <2>1 DEF Submit, TypeOK, RequestsHaveSubjects
  <2>5. EntitlementsMatchApprovals'
    BY <1>2, <2>1 DEF Submit, TypeOK, EntitlementsMatchApprovals
  <2>6. ReferenceBacksOnePayment'
    BY <1>2, <2>1 DEF Submit, TakenByAnother, TypeOK, ReferenceBacksOnePayment
  <2> QED BY <2>2, <2>3, <2>4, <2>5, <2>6
<1>3. CASE SubmitFails(r)
  BY <1>3 DEF SubmitFails, TypeOK, RowsAreWhole, RequestsHaveSubjects,
              EntitlementsMatchApprovals, ReferenceBacksOnePayment
<1> QED BY <1>1, <1>2, <1>3 DEF SubmitReference

\* approve writes the entitlement and marks the row in one transaction.
LEMMA ApproveOK ==
    ASSUME PaymentInv, NEW p \in Payments, Approve(p)
    PROVE  PaymentInv'
<1> USE DEF PaymentInv
<1>1. owner[p] \in Orders
  BY DEF Approve, RowsAreWhole
<1>2. TypeOK'
  BY <1>1 DEF Approve, TypeOK
<1>3. RowsAreWhole'
  BY <1>1 DEF Approve, TypeOK, RowsAreWhole
<1>4. RequestsHaveSubjects'
  BY DEF Approve, TypeOK, RequestsHaveSubjects
<1>5. \A q \in Payments : fulfilled'[q] <=> fulfilled[q] \/ q = p
  BY DEF Approve, TypeOK
<1>6. purchases' = {owner'[q] : q \in {q \in Payments : fulfilled'[q]}}
  BY <1>5 DEF Approve, EntitlementsMatchApprovals
<1>7. EntitlementsMatchApprovals'
  BY <1>5, <1>6 DEF Approve, EntitlementsMatchApprovals
<1>8. ReferenceBacksOnePayment'
  BY DEF Approve, ReferenceBacksOnePayment
<1> QED BY <1>2, <1>3, <1>4, <1>7, <1>8

\* A rejection changes the status alone, whatever it writes it over.
LEMMA ReviewOK ==
    ASSUME PaymentInv, NEW r \in Requests, Review(r)
    PROVE  PaymentInv'
<1> USE NilIsNothing DEF PaymentInv
<1>1. ASSUME NEW p \in Payments, LoadForReject(r, p) PROVE PaymentInv'
  BY <1>1 DEF LoadForReject, TypeOK, RowsAreWhole, RequestsHaveSubjects,
              EntitlementsMatchApprovals, ReferenceBacksOnePayment
<1>2. CASE Reject(r)
  <2>1. subject[r] \in Payments /\ status[subject[r]] # "none"
    BY <1>2 DEF Reject, RequestsHaveSubjects
  <2>2. TypeOK'
    BY <1>2, <2>1 DEF Reject, TypeOK
  <2>3. RowsAreWhole'
    BY <1>2, <2>1 DEF Reject, TypeOK, RowsAreWhole
  <2>4. RequestsHaveSubjects'
    BY <1>2, <2>1 DEF Reject, TypeOK, RequestsHaveSubjects
  <2>5. EntitlementsMatchApprovals' /\ ReferenceBacksOnePayment'
    BY <1>2 DEF Reject, EntitlementsMatchApprovals, ReferenceBacksOnePayment
  <2> QED BY <2>2, <2>3, <2>4, <2>5
<1> QED BY <1>1, <1>2 DEF Review

\* A request that dies before its write leaves nothing behind.
LEMMA AbandonOK ==
    ASSUME PaymentInv, NEW r \in Requests, Abandon(r)
    PROVE  PaymentInv'
BY DEF Abandon, PaymentInv, TypeOK, RowsAreWhole, RequestsHaveSubjects,
       EntitlementsMatchApprovals, ReferenceBacksOnePayment

\* Every reachable state satisfies the inductive invariant.
THEOREM PaymentsInvariant == Spec => []PaymentInv
<1>1. PaymentInv /\ [Next]_vars => PaymentInv'
  <2> SUFFICES ASSUME PaymentInv, [Next]_vars PROVE PaymentInv'
    OBVIOUS
  <2>1. CASE Next
    BY <2>1, ConfigureOK, CheckoutOK, SubmitReferenceOK, ReviewOK, ApproveOK, AbandonOK
       DEF Next
  <2>2. CASE UNCHANGED vars
    BY <2>2 DEF vars, PaymentInv, TypeOK, RowsAreWhole, RequestsHaveSubjects,
                EntitlementsMatchApprovals, ReferenceBacksOnePayment
  <2> QED BY <2>1, <2>2
<1> QED BY InitOK, <1>1, PTL DEF Spec

\* Every variable keeps its type.
THEOREM PaymentsTyped == Spec => []TypeOK
BY PaymentsInvariant, PTL DEF PaymentInv

\* An order is owned exactly when a payment of its own was approved with a
\* reference, however many requests race the administrator.
THEOREM EntitlementsEarned == Spec => []EntitlementsMatchApprovals
BY PaymentsInvariant, PTL DEF PaymentInv

\* No reference backs two payments.
THEOREM ReferencesUnique == Spec => []ReferenceBacksOnePayment
BY PaymentsInvariant, PTL DEF PaymentInv

-----------------------------------------------------------------------------
(* How many payments of an order may be open                               *)

\* Requests about to write the reference of a payment for an order, which opens
\* it again if it was reviewed meanwhile; the payments that are or may so become
\* open; and the requests about to create another one.
Submitting(order) == {r \in Requests : step[r] = "submit" /\ owner[subject[r]] = order}
MayBeOpen(order) == OpenFor(order) \cup {subject[r] : r \in Submitting(order)}
Creating(order) == {r \in Requests : step[r] = "create" /\ subject[r] = order}

\* Every payment that is or may become open once had a request to itself.
RacersAreFew ==
    \A order \in Orders :
        Cardinality(MayBeOpen(order)) + Cardinality(Creating(order)) <= Cardinality(Requests)

\* These sets are finite, and numbers of theirs natural.
LEMMA RacersFinite ==
    ASSUME PaymentInv, NEW order
    PROVE  /\ IsFiniteSet(MayBeOpen(order)) /\ Cardinality(MayBeOpen(order)) \in Nat
           /\ IsFiniteSet(Creating(order)) /\ Cardinality(Creating(order)) \in Nat
           /\ MayBeOpen(order) \subseteq Payments
<1>1. \A r \in Submitting(order) : subject[r] \in Payments
  BY DEF Submitting, PaymentInv, RequestsHaveSubjects
<1>2. MayBeOpen(order) \subseteq Payments /\ Creating(order) \subseteq Requests
  BY <1>1 DEF MayBeOpen, OpenFor, Creating
<1>3. IsFiniteSet(MayBeOpen(order)) /\ IsFiniteSet(Creating(order))
  BY <1>2, BoundsAreFinite, FS_Subset
<1> QED BY <1>2, <1>3, FS_CardinalityType

\* A step that adds to neither set of an order.
LEMMA NoNewRacer ==
    ASSUME PaymentInv, RacersAreFew, NEW order \in Orders,
           MayBeOpen(order)' \subseteq MayBeOpen(order),
           Creating(order)' \subseteq Creating(order)
    PROVE  Cardinality(MayBeOpen(order)') + Cardinality(Creating(order)') <= Cardinality(Requests)
<1>1. /\ IsFiniteSet(MayBeOpen(order)) /\ Cardinality(MayBeOpen(order)) \in Nat
      /\ IsFiniteSet(Creating(order)) /\ Cardinality(Creating(order)) \in Nat
  BY RacersFinite
<1>2. /\ IsFiniteSet(MayBeOpen(order)') /\ Cardinality(MayBeOpen(order)') <= Cardinality(MayBeOpen(order))
      /\ IsFiniteSet(Creating(order)') /\ Cardinality(Creating(order)') <= Cardinality(Creating(order))
  BY <1>1, FS_Subset
<1>3. Cardinality(MayBeOpen(order)') \in Nat /\ Cardinality(Creating(order)') \in Nat
  BY <1>2, FS_CardinalityType
<1>4. Cardinality(Requests) \in Nat
  BY BoundsAreFinite, FS_CardinalityType
<1> QED BY <1>1, <1>2, <1>3, <1>4 DEF RacersAreFew

\* Only a request that finds no open payment becomes one to create another, and
\* then every payment that may open still has a request of its own.
LEMMA LookUpFew ==
    ASSUME PaymentInv, RacersAreFew, NEW r \in Requests, LookUpOpen(r)
    PROVE  RacersAreFew'
<1> SUFFICES ASSUME NEW order \in Orders
             PROVE  Cardinality(MayBeOpen(order)') + Cardinality(Creating(order)')
                        <= Cardinality(Requests)
  BY DEF RacersAreFew
<1>1. MayBeOpen(order)' = MayBeOpen(order)
  <2>1. UNCHANGED <<owner, status>> /\ \A s \in Requests : step'[s] = "submit" <=> step[s] = "submit"
    BY DEF LookUpOpen, PaymentInv, TypeOK
  <2>2. \A s \in Requests : step[s] = "submit" => subject'[s] = subject[s]
    BY DEF LookUpOpen, PaymentInv, TypeOK
  <2> QED BY <2>1, <2>2 DEF MayBeOpen, OpenFor, Submitting
<1>2. CASE OpenFor(subject[r]) = {} /\ subject[r] = order
  <2> DEFINE S == Submitting(order)
             C == Creating(order)'
  <2>1. S \cap C = {} /\ S \subseteq Requests /\ C \subseteq Requests
    BY <1>2 DEF LookUpOpen, PaymentInv, TypeOK, Submitting, Creating
  <2>2. IsFiniteSet(S) /\ IsFiniteSet(C)
    BY <2>1, BoundsAreFinite, FS_Subset
  <2>3. MayBeOpen(order) = {subject[s] : s \in S}
    BY <1>2 DEF MayBeOpen
  <2> HIDE DEF S, C
  <2>4. Cardinality(MayBeOpen(order)) <= Cardinality(S)
    <3> DEFINE f == [s \in S |-> subject[s]]
    <3>1. f \in Surjection(S, MayBeOpen(order))
      BY <2>3 DEF Surjection
    <3> HIDE DEF f
    <3> QED BY <2>2, <3>1, FS_Surjection
  <2>5. Cardinality(S \cup C) = Cardinality(S) + Cardinality(C)
    <3>1. /\ Cardinality(S) \in Nat /\ Cardinality(C) \in Nat
          /\ Cardinality(S \cup C) = Cardinality(S) + Cardinality(C) - Cardinality(S \cap C)
      BY <2>2, FS_Union, FS_CardinalityType
    <3>2. Cardinality(S \cap C) = 0
      BY <2>1, FS_EmptySet
    <3> QED BY <3>1, <3>2
  <2>6. Cardinality(S \cup C) <= Cardinality(Requests)
    BY <2>1, BoundsAreFinite, FS_Subset
  <2>7. /\ Cardinality(S) \in Nat /\ Cardinality(C) \in Nat
        /\ Cardinality(MayBeOpen(order)) \in Nat /\ Cardinality(Requests) \in Nat
    BY <2>2, BoundsAreFinite, RacersFinite, FS_CardinalityType
  <2>8. Cardinality(MayBeOpen(order)) + Cardinality(C) <= Cardinality(Requests)
    BY <2>4, <2>5, <2>6, <2>7
  <2> QED BY <1>1, <2>8 DEF C
<1>3. CASE ~(OpenFor(subject[r]) = {} /\ subject[r] = order)
  <2>1. Creating(order)' \subseteq Creating(order)
    BY <1>3 DEF LookUpOpen, PaymentInv, TypeOK, Creating
  <2> QED BY <1>1, <2>1, NoNewRacer
<1> QED BY <1>2, <1>3

\* A payment that is created takes the place of the request that created it.
LEMMA CreateFew ==
    ASSUME PaymentInv, RacersAreFew, NEW r \in Requests, NEW p \in Payments, Create(r, p)
    PROVE  RacersAreFew'
<1> SUFFICES ASSUME NEW order \in Orders
             PROVE  Cardinality(MayBeOpen(order)') + Cardinality(Creating(order)')
                        <= Cardinality(Requests)
  BY DEF RacersAreFew
<1>1. /\ subject[r] \in Orders /\ owner[p] = Nil /\ status[p] = "none"
      /\ owner' = [owner EXCEPT ![p] = subject[r]] /\ status' = [status EXCEPT ![p] = "pending"]
  BY DEF Create, PaymentInv, RowsAreWhole, RequestsHaveSubjects
<1>2. \A s \in Requests : step'[s] = "submit" =>
         step[s] = "submit" /\ subject'[s] = subject[s] /\ subject[s] # p
               /\ subject[s] \in Payments
  BY <1>1 DEF Create, PaymentInv, TypeOK, RequestsHaveSubjects
<1>3. Submitting(order)' \subseteq Submitting(order)
  BY <1>1, <1>2 DEF Submitting, PaymentInv, TypeOK
<1>4. /\ r \notin Creating(order)' /\ Creating(order)' \subseteq Creating(order)
      /\ subject[r] = order => r \in Creating(order)
  BY DEF Create, PaymentInv, TypeOK, Creating
<1>5. CASE subject[r] = order
  <2>1. MayBeOpen(order)' \subseteq MayBeOpen(order) \cup {p}
    BY <1>1, <1>2, <1>3 DEF MayBeOpen, OpenFor, Submitting, PaymentInv, TypeOK
  <2>2. Creating(order)' \subseteq Creating(order) \ {r} /\ r \in Creating(order)
    BY <1>4, <1>5
  <2>3. /\ IsFiniteSet(MayBeOpen(order)) /\ Cardinality(MayBeOpen(order)) \in Nat
        /\ IsFiniteSet(Creating(order)) /\ Cardinality(Creating(order)) \in Nat
    BY RacersFinite
  <2>4. /\ IsFiniteSet(MayBeOpen(order) \cup {p})
        /\ Cardinality(MayBeOpen(order) \cup {p}) <= Cardinality(MayBeOpen(order)) + 1
        /\ IsFiniteSet(Creating(order) \ {r})
        /\ Cardinality(Creating(order) \ {r}) = Cardinality(Creating(order)) - 1
    <3>1. /\ IsFiniteSet(MayBeOpen(order) \cup {p})
          /\ Cardinality(MayBeOpen(order) \cup {p}) =
                IF p \in MayBeOpen(order) THEN Cardinality(MayBeOpen(order))
                                          ELSE Cardinality(MayBeOpen(order)) + 1
      BY <2>3, FS_AddElement
    <3>2. /\ IsFiniteSet(Creating(order) \ {r})
          /\ Cardinality(Creating(order) \ {r}) = Cardinality(Creating(order)) - 1
      BY <2>2, <2>3, FS_RemoveElement
    <3> QED BY <2>3, <3>1, <3>2
  <2>5. /\ IsFiniteSet(MayBeOpen(order)')
        /\ Cardinality(MayBeOpen(order)') <= Cardinality(MayBeOpen(order) \cup {p})
        /\ IsFiniteSet(Creating(order)')
        /\ Cardinality(Creating(order)') <= Cardinality(Creating(order) \ {r})
    BY <2>1, <2>2, <2>4, FS_Subset
  <2>6. /\ Cardinality(MayBeOpen(order)') \in Nat /\ Cardinality(Creating(order)') \in Nat
        /\ Cardinality(MayBeOpen(order) \cup {p}) \in Nat /\ Cardinality(Requests) \in Nat
    BY <2>4, <2>5, BoundsAreFinite, FS_CardinalityType
  <2>7. Cardinality(MayBeOpen(order)) + Cardinality(Creating(order)) <= Cardinality(Requests)
    BY DEF RacersAreFew
  <2> QED BY <2>3, <2>4, <2>5, <2>6, <2>7
<1>6. CASE subject[r] # order
  <2>1. MayBeOpen(order)' \subseteq MayBeOpen(order)
    BY <1>1, <1>2, <1>3, <1>6 DEF MayBeOpen, OpenFor, Submitting, PaymentInv, TypeOK
  <2> QED BY <1>4, <2>1, NoNewRacer
<1> QED BY <1>5, <1>6

\* The other steps open a payment only where it was open or about to be.
LEMMA OtherStepsFew ==
    ASSUME PaymentInv, RacersAreFew, [Next]_vars,
           \A r \in Requests : ~LookUpOpen(r) /\ \A p \in Payments : ~Create(r, p)
    PROVE  RacersAreFew'
<1> SUFFICES ASSUME NEW order \in Orders
             PROVE  /\ MayBeOpen(order)' \subseteq MayBeOpen(order)
                    /\ Creating(order)' \subseteq Creating(order)
  BY NoNewRacer DEF RacersAreFew
<1> DEFINE Fewer == /\ MayBeOpen(order)' \subseteq MayBeOpen(order)
                    /\ Creating(order)' \subseteq Creating(order)
<1> USE DEF PaymentInv, TypeOK, MayBeOpen, OpenFor, OpenStatuses, Submitting, Creating
<1>1. CASE UNCHANGED vars
  BY <1>1 DEF vars
<1>2. ASSUME NEW enable, NEW recipient, Configure(enable, recipient) PROVE Fewer
  BY <1>2 DEF Configure
<1>3. ASSUME NEW p \in Payments, Approve(p) PROVE Fewer
  BY <1>3 DEF Approve
<1>4. ASSUME NEW r \in Requests, NEW o \in Orders, CheckMayBuy(r, o) PROVE Fewer
  BY <1>4 DEF CheckMayBuy
<1>5. ASSUME NEW r \in Requests, NEW p \in Payments, NEW ref \in References,
             LoadForSubmit(r, p, ref)
      PROVE  Fewer
  BY <1>5 DEF LoadForSubmit
<1>6. ASSUME NEW r \in Requests, Submit(r) PROVE Fewer
  BY <1>6 DEF Submit, RequestsHaveSubjects
<1>7. ASSUME NEW r \in Requests, SubmitFails(r) \/ Abandon(r) PROVE Fewer
  BY <1>7 DEF SubmitFails, Abandon
<1>8. ASSUME NEW r \in Requests, NEW p \in Payments, LoadForReject(r, p) PROVE Fewer
  BY <1>8 DEF LoadForReject
<1>9. ASSUME NEW r \in Requests, Reject(r) PROVE Fewer
  BY <1>9 DEF Reject, RequestsHaveSubjects
<1> QED
  BY <1>1, <1>2, <1>3, <1>4, <1>5, <1>6, <1>7, <1>8, <1>9
     DEF Next, Checkout, SubmitReference, Review

\* Of an order's open payments one at most was opened by a checkout alone, and a
\* checkout about to open one finds none of that kind.
IsOpen(p) == status[p] \in OpenStatuses

OneIsAlone ==
    /\ \A p, q \in Payments \ raced :
          IsOpen(p) /\ IsOpen(q) /\ owner[p] = owner[q] => p = q
    /\ \A r \in Requests, p \in Payments :
          step[r] = "create" /\ IsOpen(p) /\ owner[p] = subject[r] => p \in raced

\* Whoever else is about to open one makes what a checkout opens a raced payment.
LEMMA CreateAlone ==
    ASSUME PaymentInv, OneIsAlone, NEW r \in Requests, NEW p \in Payments, Create(r, p)
    PROVE  OneIsAlone'
<1> USE DEF IsOpen, OpenStatuses
<1>1. /\ owner \in [Payments -> Orders \cup {Nil}]
      /\ status \in [Payments -> {"none", "pending", "submitted", "approved", "rejected"}]
      /\ status[p] = "none" /\ step[r] = "create"
      /\ owner' = [owner EXCEPT ![p] = subject[r]] /\ status' = [status EXCEPT ![p] = "pending"]
      /\ raced' = IF CheckoutBeside(r) THEN raced \cup {p} ELSE raced
  BY DEF Create, PaymentInv, TypeOK
<1>2. \A s \in Requests : step'[s] = "create" =>
         s # r /\ step[s] = "create" /\ subject'[s] = subject[s]
  BY DEF Create, PaymentInv, TypeOK
<1>3. \A q \in Payments : q # p => owner'[q] = owner[q] /\ status'[q] = status[q]
  BY <1>1
<1>4. owner'[p] = subject[r] /\ raced \subseteq raced'
  BY <1>1
<1>5. \A q \in Payments : q # p /\ IsOpen(q) /\ owner[q] = subject[r] => q \in raced
  BY <1>1 DEF OneIsAlone
<1>6. ASSUME NEW x \in Payments \ raced', NEW y \in Payments \ raced',
             IsOpen(x)', IsOpen(y)', owner'[x] = owner'[y]
      PROVE  x = y
  <2>1. CASE x # p /\ y # p
    BY <1>3, <1>4, <1>6, <2>1 DEF OneIsAlone
  <2>2. CASE x = p /\ y # p
    BY <1>3, <1>4, <1>5, <1>6, <2>2
  <2>3. CASE x # p /\ y = p
    BY <1>3, <1>4, <1>5, <1>6, <2>3
  <2> QED BY <2>1, <2>2, <2>3
<1>7. ASSUME NEW s \in Requests, NEW q \in Payments,
             step'[s] = "create", IsOpen(q)', owner'[q] = subject'[s]
      PROVE  q \in raced'
  <2>1. CASE q = p
    <3>1. CheckoutBeside(r)
      BY <1>2, <1>4, <1>7, <2>1 DEF CheckoutBeside
    <3> QED BY <1>1, <2>1, <3>1
  <2>2. CASE q # p
    BY <1>2, <1>3, <1>4, <1>7, <2>2 DEF OneIsAlone
  <2> QED BY <2>1, <2>2
<1> QED BY <1>6, <1>7 DEF OneIsAlone

\* The other steps open a payment only by a late reference, which makes it one of
\* those, and let go of one only when it is no longer open.
LEMMA OthersAlone ==
    ASSUME PaymentInv, OneIsAlone, [Next]_vars,
           \A r \in Requests, p \in Payments : ~Create(r, p)
    PROVE  OneIsAlone'
<1> DEFINE NoneOpened ==
        /\ \A p \in Payments : owner'[p] = owner[p]
        /\ \A p \in Payments : IsOpen(p)' => p \in raced' \/ (IsOpen(p) /\ p \notin raced)
           Creators ==
        \A r \in Requests : step'[r] = "create" =>
           /\ subject'[r] = subject[r]
           /\ step[r] = "create" \/ \A p \in Payments : IsOpen(p) => owner[p] # subject[r]
<1>1. ASSUME NoneOpened, Creators
      PROVE  OneIsAlone'
  <2>1. ASSUME NEW x \in Payments \ raced', NEW y \in Payments \ raced',
               IsOpen(x)', IsOpen(y)', owner'[x] = owner'[y]
        PROVE  x = y
    BY <1>1, <2>1 DEF OneIsAlone
  <2>2. ASSUME NEW r \in Requests, NEW p \in Payments,
               step'[r] = "create", IsOpen(p)', owner'[p] = subject'[r]
        PROVE  p \in raced'
    BY <1>1, <2>2 DEF OneIsAlone
  <2> QED BY <2>1, <2>2 DEF OneIsAlone
<1> USE DEF PaymentInv, TypeOK, IsOpen
<1>2. CASE UNCHANGED vars
  BY <1>1, <1>2 DEF vars
<1>3. ASSUME NEW enable, NEW recipient, Configure(enable, recipient) PROVE OneIsAlone'
  BY <1>1, <1>3 DEF Configure
<1>4. ASSUME NEW p \in Payments, Approve(p) PROVE OneIsAlone'
  BY <1>1, <1>4 DEF Approve, OpenStatuses
<1>5. ASSUME NEW r \in Requests, NEW o \in Orders, CheckMayBuy(r, o) PROVE OneIsAlone'
  BY <1>1, <1>5 DEF CheckMayBuy
<1>6. ASSUME NEW r \in Requests, LookUpOpen(r) PROVE OneIsAlone'
  BY <1>1, <1>6 DEF LookUpOpen, OpenFor
<1>7. ASSUME NEW r \in Requests, NEW p \in Payments, NEW ref \in References,
             LoadForSubmit(r, p, ref)
      PROVE  OneIsAlone'
  BY <1>1, <1>7 DEF LoadForSubmit
<1>8. ASSUME NEW r \in Requests, Submit(r) PROVE OneIsAlone'
  BY <1>1, <1>8 DEF Submit, RequestsHaveSubjects
<1>9. ASSUME NEW r \in Requests, SubmitFails(r) \/ Abandon(r) PROVE OneIsAlone'
  BY <1>1, <1>9 DEF SubmitFails, Abandon
<1>10. ASSUME NEW r \in Requests, NEW p \in Payments, LoadForReject(r, p) PROVE OneIsAlone'
  BY <1>1, <1>10 DEF LoadForReject
<1>11. ASSUME NEW r \in Requests, Reject(r) PROVE OneIsAlone'
  BY <1>1, <1>11 DEF Reject, RequestsHaveSubjects, OpenStatuses
<1> QED
  BY <1>2, <1>3, <1>4, <1>5, <1>6, <1>7, <1>8, <1>9, <1>10, <1>11
     DEF Next, Checkout, SubmitReference, Review

\* Of an order's open payments one at most is neither of a race between checkouts
\* nor opened again by a late reference; and those that are outnumber the requests
\* at no time, however long that goes on.
THEOREM OpenPaymentsBounded == Spec => []OpenPaymentsAreFew
<1>1. Init => RacersAreFew /\ OneIsAlone
  <2> SUFFICES ASSUME Init PROVE RacersAreFew /\ OneIsAlone
    OBVIOUS
  <2>1. \A order : OpenFor(order) = {}
    BY DEF Init, OpenFor, OpenStatuses
  <2>2. ASSUME NEW order \in Orders
        PROVE  Cardinality(MayBeOpen(order)) + Cardinality(Creating(order)) <= Cardinality(Requests)
    <3>1. MayBeOpen(order) = {} /\ Creating(order) = {}
      BY <2>1 DEF Init, MayBeOpen, Submitting, Creating
    <3> QED BY <3>1, BoundsAreFinite, FS_EmptySet, FS_CardinalityType
  <2>3. \A p \in Payments : ~IsOpen(p)
    BY DEF Init, IsOpen, OpenStatuses
  <2> QED BY <2>2, <2>3 DEF RacersAreFew, OneIsAlone
<1>2. PaymentInv /\ RacersAreFew /\ [Next]_vars => RacersAreFew'
  BY LookUpFew, CreateFew, OtherStepsFew
<1>3. PaymentInv /\ OneIsAlone /\ [Next]_vars => OneIsAlone'
  BY CreateAlone, OthersAlone
<1>4. PaymentInv /\ RacersAreFew /\ OneIsAlone => OpenPaymentsAreFew
  <2> SUFFICES ASSUME PaymentInv, RacersAreFew, OneIsAlone, NEW order \in Orders
               PROVE  /\ Cardinality(OpenFor(order) \ raced) <= 1
                      /\ Cardinality(OpenFor(order)) <= Cardinality(Requests)
    BY DEF OpenPaymentsAreFew
  <2>1. OpenFor(order) \subseteq MayBeOpen(order)
    BY DEF MayBeOpen
  <2>2. /\ IsFiniteSet(MayBeOpen(order)) /\ Cardinality(MayBeOpen(order)) \in Nat
        /\ Cardinality(Creating(order)) \in Nat /\ Cardinality(Requests) \in Nat
    BY RacersFinite, BoundsAreFinite, FS_CardinalityType
  <2>3. /\ IsFiniteSet(OpenFor(order))
        /\ Cardinality(OpenFor(order)) <= Cardinality(MayBeOpen(order))
    BY <2>1, <2>2, FS_Subset
  <2>4. Cardinality(OpenFor(order)) \in Nat
    BY <2>3, FS_CardinalityType
  <2>5. Cardinality(OpenFor(order) \ raced) <= 1
    <3>1. CASE OpenFor(order) \ raced = {}
      BY <3>1, FS_EmptySet
    <3>2. CASE OpenFor(order) \ raced # {}
      <4>1. PICK p \in OpenFor(order) \ raced : TRUE
        BY <3>2
      <4>2. OpenFor(order) \ raced = {p}
        BY <4>1 DEF OneIsAlone, IsOpen, OpenFor
      <4> QED BY <4>2, FS_Singleton
    <3> QED BY <3>1, <3>2
  <2> QED BY <2>2, <2>3, <2>4, <2>5 DEF RacersAreFew
<1> QED BY <1>1, <1>2, <1>3, <1>4, PaymentsInvariant, PTL DEF Spec

-----------------------------------------------------------------------------
(* One plugin's directory, backups and row: PluginInstaller                *)

\* Who ran alone so far still does, and the row is trusted only beside such.
AloneIsAlone ==
    /\ \A i \in alone : Running \subseteq {i}
    /\ trusted => Running \subseteq alone

\* The backup of a request is of what it found.
KeptBefore(i) ==
    backup[i] # NoBackup /\ before[i] # Absent /\ backups[backup[i]] = before[i]

\* Or there was nothing to keep.
KeptOrNone(i) == KeptBefore(i) \/ (backup[i] = NoBackup /\ before[i] = Absent)

\* What it found is still in place, and its backup directory is not there.
InPlace(i) ==
    /\ backup[i] # NoBackup /\ backups[backup[i]] = Absent
    /\ module = before[i] /\ module # Absent

\* How far a request that runs alone has come.
Progress ==
    \A i \in alone :
        /\ at[i] = "staged" => module = before[i] /\ backup[i] = NoBackup
        /\ at[i] = "backing" => InPlace(i)
        /\ at[i] = "placing" =>
             \/ module = Absent /\ KeptOrNone(i)
             \/ "try" \in refused[i] /\ InPlace(i)
        /\ at[i] \in {"enabling", "recording"} =>
             \/ module = package[i] /\ KeptOrNone(i)
             \/ "try" \in refused[i] /\ module = Absent /\ KeptOrNone(i)
             \/ "try" \in refused[i] /\ InPlace(i)
        /\ at[i] = "failing" =>
             \/ KeptBefore(i)
             \/ /\ ~HasBackup(i)
                /\ module = before[i] \/ (before[i] = Absent /\ module = package[i])
        /\ at[i] \in {"undoing", "restoring"} => KeptBefore(i)
        /\ at[i] = "restoring" => module = Absent \/ "catch" \in refused[i]

\* A row that is trusted says what is there, or was when an install began.
TrustedRow ==
    trusted /\ row.status = "installed" =>
        /\ Running = {} => module = row.version
        /\ \A i \in Running : at[i] \notin {"removing", "removed"} => before[i] = row.version

InstallerInv == InstallerTypeOK /\ AloneIsAlone /\ Progress /\ TrustedRow

USE DEF fileVars, installVars, history, Go, Refused

\* Nothing runs at first.
LEMMA InstallerInvAtFirst == InstallerInit => InstallerInv
<1> SUFFICES ASSUME InstallerInit PROVE InstallerInv
  OBVIOUS
<1>1. InstallerTypeOK
  BY InstallerBounds DEF InstallerInit, InstallerTypeOK, Seconds, Copies
<1> QED BY <1>1 DEF InstallerInit, InstallerInv, AloneIsAlone, Progress, TrustedRow, Running

\* A request begins, alone or not.
LEMMA BeginOK ==
    ASSUME InstallerInv, NEW i \in Installs,
           (\E v \in Versions : Install(i, v)) \/ Uninstall(i)
    PROVE  InstallerInv'
<1>1. /\ at[i] = "idle" /\ at' \in [Installs -> {"idle", "staged", "removing"}
                                               \cup {at[j] : j \in Installs}]
      /\ at'[i] \in {"staged", "removing"}
      /\ \A j \in Installs \ {i} : at'[j] = at[j]
      /\ before' = [before EXCEPT ![i] = module] /\ backup' = [backup EXCEPT ![i] = NoBackup]
      /\ alone' = (IF Running = {} THEN {i} ELSE {}) /\ trusted' = (trusted /\ Running = {})
      /\ refused' = [refused EXCEPT ![i] = {}]
      /\ UNCHANGED <<now, module, backups, row>>
  BY DEF Install, Uninstall, Begin, InstallerInv, InstallerTypeOK
<1>2. InstallerTypeOK'
  <2>1. starts' \in 0 .. MaxStarts
    BY InstallerBounds DEF Install, Uninstall, Begin, InstallerInv, InstallerTypeOK
  <2>2. trusted' \in BOOLEAN
    BY <1>1
  <2>3. package' \in [Installs -> Copies]
    BY DEF Install, Uninstall, InstallerInv, InstallerTypeOK, Copies
  <2> QED BY <1>1, <2>1, <2>2, <2>3 DEF InstallerInv, InstallerTypeOK
<1>3. Running' = Running \cup {i} /\ i \notin Running
  BY <1>1 DEF Running
<1>4. AloneIsAlone'
  BY <1>1, <1>3 DEF AloneIsAlone
<1>5. Progress'
  BY <1>1 DEF InstallerInv, InstallerTypeOK, Progress
<1>6. TrustedRow'
  BY <1>1, <1>3 DEF InstallerInv, InstallerTypeOK, TrustedRow
<1> QED BY <1>2, <1>4, <1>5, <1>6 DEF InstallerInv

\* A refusal leaves the types as they were.
LEMMA RefusedOK ==
    ASSUME InstallerInv, NEW i \in Installs, NEW block \in {"try", "catch"},
           Refused(i, block) \/ UNCHANGED <<refused, trusted>>
    PROVE  refused' \in [Installs -> SUBSET {"try", "catch"}] /\ trusted' \in BOOLEAN
<1>1. CASE Refused(i, block)
  <2>1. refused \in [Installs -> SUBSET {"try", "catch"}]
    BY DEF InstallerInv, InstallerTypeOK
  <2>2. refused' = [refused EXCEPT ![i] = refused[i] \cup {block}]
    BY <1>1
  <2>3. refused[i] \cup {block} \in SUBSET {"try", "catch"}
    BY <2>1
  <2>4. trusted' \in BOOLEAN
    BY <1>1
  <2> HIDE DEF Refused
  <2> QED BY <2>1, <2>2, <2>3, <2>4
<1>2. CASE UNCHANGED <<refused, trusted>>
  BY <1>2 DEF InstallerInv, InstallerTypeOK
<1> QED BY <1>1, <1>2

\* The steps of an install that goes on.
LEMMA StepOK ==
    ASSUME InstallerInv, NEW i \in Installs,
           \/ LookEmpty(i) \/ LookThere(i) \/ MoveAway(i) \/ Place(i) \/ Enable(i) \/ Fail(i)
           \/ DeleteNew(i)
    PROVE  InstallerInv'
<1> USE DEF LookEmpty, LookThere, MoveAway, Place, Enable, Fail, DeleteNew
<1>1. /\ at[i] \notin {"idle", "removing", "removed"} /\ at'[i] \notin {"idle", "removing", "removed"}
      /\ \A j \in Installs \ {i} : at'[j] = at[j]
      /\ UNCHANGED <<row, before, package>>
      /\ alone' \in SUBSET alone /\ (trusted' => trusted)
  BY DEF InstallerInv, InstallerTypeOK
<1>2. InstallerTypeOK'
  <2>1. CASE LookEmpty(i) \/ Enable(i) \/ Fail(i)
    BY <2>1 DEF InstallerInv, InstallerTypeOK
  <2>2. CASE LookThere(i)
    <3>1. now # NoBackup /\ backup' = [backup EXCEPT ![i] = now] /\ at' = [at EXCEPT ![i] = "backing"]
      BY <2>2, InstallerBounds DEF InstallerInv, InstallerTypeOK, Seconds, NoBackup
    <3>2. backup' \in [Installs -> Seconds \cup {NoBackup}]
      BY <3>1 DEF InstallerInv, InstallerTypeOK
    <3>3. \A j \in Installs : at'[j] \in {"backing", "undoing", "restoring"} => backup'[j] # NoBackup
      BY <3>1 DEF InstallerInv, InstallerTypeOK
    <3>4. trusted' \in BOOLEAN /\ alone' \subseteq Installs
      BY <2>2 DEF InstallerInv, InstallerTypeOK
    <3> QED BY <2>2, <3>2, <3>3, <3>4 DEF InstallerInv, InstallerTypeOK
  <2>3. CASE MoveAway(i)
    <3>1. refused' \in [Installs -> SUBSET {"try", "catch"}] /\ trusted' \in BOOLEAN
      BY <2>3, RefusedOK
    <3>2. backups' \in [Seconds -> Copies \cup {Absent}] /\ module' \in Copies \cup {Absent}
      BY <2>3 DEF InstallerInv, InstallerTypeOK
    <3> QED BY <2>3, <3>1, <3>2 DEF InstallerInv, InstallerTypeOK
  <2>4. CASE Place(i) \/ DeleteNew(i)
    <3>1. refused' \in [Installs -> SUBSET {"try", "catch"}] /\ trusted' \in BOOLEAN
      BY <2>4, RefusedOK
    <3>2. module' \in Copies \cup {Absent} /\ backups' = backups
      BY <2>4 DEF InstallerInv, InstallerTypeOK
    <3> QED BY <2>4, <3>1, <3>2 DEF InstallerInv, InstallerTypeOK
  <2> QED BY <2>1, <2>2, <2>3, <2>4
<1>3. Running' = Running /\ i \in Running
  BY <1>1 DEF Running
<1>4. AloneIsAlone'
  BY <1>1, <1>3 DEF InstallerInv, AloneIsAlone
<1>5. Progress'
  <2>1. \A j \in alone : j = i
    BY <1>3 DEF InstallerInv, AloneIsAlone
  <2> USE DEF KeptOrNone, InPlace, KeptBefore
  <2>2. CASE LookEmpty(i) \/ Enable(i)
    BY <2>1, <2>2 DEF InstallerInv, InstallerTypeOK, Progress
  <2>3. CASE LookThere(i)
    <3> SUFFICES ASSUME i \in alone' PROVE Progress'
      BY <2>1, <2>3 DEF Progress
    <3>1. /\ backups[now] = Absent /\ module = before[i] /\ module # Absent
          /\ now # NoBackup /\ backup'[i] = now /\ at'[i] = "backing"
      BY <2>1, <2>3, InstallerBounds DEF InstallerInv, InstallerTypeOK, Progress, Seconds, NoBackup
    <3> QED BY <2>1, <2>3, <3>1 DEF Progress
  <2>4. CASE MoveAway(i)
    <3> SUFFICES ASSUME i \in alone PROVE Progress'
      BY <2>1, <2>4 DEF Progress
    <3>1. InPlace(i) /\ backup[i] \in Seconds /\ at'[i] = "placing"
      BY <2>4 DEF InstallerInv, InstallerTypeOK, Progress
    <3>2. CASE ~Refused(i, "try")
      <4>1. module' = Absent /\ backups'[backup[i]] = before[i]
        BY <2>4, <3>1, <3>2 DEF InstallerInv, InstallerTypeOK
      <4> QED BY <2>1, <2>4, <3>1, <4>1 DEF Progress
    <3>3. CASE Refused(i, "try")
      BY <2>1, <2>4, <3>1, <3>3 DEF InstallerInv, InstallerTypeOK, Progress
    <3> QED BY <2>4, <3>1, <3>2, <3>3
  <2>5. CASE Place(i)
    BY <2>1, <2>5 DEF InstallerInv, InstallerTypeOK, Progress
  <2>6. CASE Fail(i)
    BY <2>1, <2>6 DEF InstallerInv, InstallerTypeOK, Progress, HasBackup
  <2>7. CASE DeleteNew(i)
    BY <2>1, <2>7 DEF InstallerInv, InstallerTypeOK, Progress
  <2> QED BY <2>2, <2>3, <2>4, <2>5, <2>6, <2>7
<1>6. TrustedRow'
  <2>1. \A j \in Running : j \in Installs
    BY DEF Running
  <2> QED BY <1>1, <1>3, <2>1 DEF InstallerInv, TrustedRow
<1> QED BY <1>2, <1>4, <1>5, <1>6 DEF InstallerInv

\* An install ends: recorded, or undone.
LEMMA FinishOK ==
    ASSUME InstallerInv, NEW i \in Installs, Record(i) \/ LookBack(i) \/ MoveBack(i)
    PROVE  InstallerInv'
<1> USE DEF Record, LookBack, MoveBack
<1>1. /\ at[i] \notin {"idle", "removing", "removed"}
      /\ \A j \in Installs \ {i} : at'[j] = at[j]
      /\ UNCHANGED <<before, package, alone>>
  BY DEF InstallerInv, InstallerTypeOK
<1>2. i \in Running /\ Running' \subseteq Running /\ (at'[i] = "idle" => Running' = Running \ {i})
      /\ (at'[i] # "idle" => Running' = Running)
  BY <1>1 DEF Running
<1>3. InstallerTypeOK'
  <2>1. CASE Record(i)
    <3>1. trusted' \in BOOLEAN
      BY <2>1
    <3> QED BY <2>1, <3>1 DEF InstallerInv, InstallerTypeOK
  <2>2. CASE LookBack(i)
    BY <2>2 DEF InstallerInv, InstallerTypeOK, HasBackup
  <2>3. CASE MoveBack(i)
    <3>1. refused' \in [Installs -> SUBSET {"try", "catch"}] /\ trusted' \in BOOLEAN
      BY <2>3, RefusedOK
    <3>2. backups' \in [Seconds -> Copies \cup {Absent}] /\ module' \in Copies \cup {Absent}
      BY <2>3 DEF InstallerInv, InstallerTypeOK
    <3> QED BY <2>3, <3>1, <3>2 DEF InstallerInv, InstallerTypeOK
  <2> QED BY <2>1, <2>2, <2>3
<1>4. AloneIsAlone'
  BY <1>1, <1>2 DEF InstallerInv, InstallerTypeOK, AloneIsAlone
<1>5. \A j \in alone : j = i
  BY <1>2 DEF InstallerInv, AloneIsAlone
<1>6. Progress'
  BY <1>5, <1>1 DEF InstallerInv, InstallerTypeOK, Progress, KeptOrNone, InPlace, KeptBefore, HasBackup
<1>7. TrustedRow'
  <2>1. CASE Record(i)
    BY <1>2, <2>1 DEF InstallerInv, InstallerTypeOK, AloneIsAlone, Progress, TrustedRow
  <2>2. CASE LookBack(i)
    BY <1>2, <2>2, AbsentIsNoCopy
       DEF InstallerInv, InstallerTypeOK, AloneIsAlone, Progress, KeptOrNone, InPlace, KeptBefore, HasBackup, TrustedRow
  <2>3. CASE MoveBack(i)
    BY <1>2, <2>3, AbsentIsNoCopy
       DEF InstallerInv, InstallerTypeOK, AloneIsAlone, Progress, KeptOrNone, InPlace, KeptBefore, TrustedRow
  <2> QED BY <2>1, <2>2, <2>3
<1> QED BY <1>3, <1>4, <1>6, <1>7 DEF InstallerInv

\* The directory goes before the status.
LEMMA UninstallOK ==
    ASSUME InstallerInv, NEW i \in Installs, Remove(i) \/ MarkUninstalled(i)
    PROVE  InstallerInv'
<1> USE DEF Remove, MarkUninstalled
<1>1. /\ at[i] \in {"removing", "removed"} /\ at'[i] \in {"removed", "idle"}
      /\ \A j \in Installs \ {i} : at'[j] = at[j]
      /\ UNCHANGED <<before, package, backup, backups, alone, trusted>>
  BY DEF InstallerInv, InstallerTypeOK
<1>2. i \in Running /\ Running' \subseteq Running
  BY <1>1 DEF Running
<1>3. InstallerTypeOK'
  BY DEF InstallerInv, InstallerTypeOK
<1>4. AloneIsAlone'
  BY <1>1, <1>2 DEF InstallerInv, AloneIsAlone
<1>5. Progress'
  BY <1>1, <1>2 DEF InstallerInv, AloneIsAlone, Progress
<1>6. TrustedRow'
  <2>1. CASE Remove(i)
    <3>1. i \in Running' /\ \A j \in Running' : at'[j] \notin {"removing", "removed"} => at'[j] = at[j]
      BY <1>1, <2>1 DEF Running, InstallerInv, InstallerTypeOK
    <3> QED BY <1>1, <1>2, <2>1, <3>1 DEF InstallerInv, TrustedRow
  <2>2. CASE MarkUninstalled(i)
    BY <2>2 DEF InstallerInv, InstallerTypeOK, TrustedRow
  <2> QED BY <2>1, <2>2
<1> QED BY <1>3, <1>4, <1>5, <1>6 DEF InstallerInv

\* A death takes the trust, the clock nothing.
LEMMA DieOK ==
    ASSUME InstallerInv, (\E i \in Installs : Die(i)) \/ Tick
    PROVE  InstallerInv'
<1>1. CASE Tick
  BY <1>1, InstallerBounds DEF Tick, InstallerInv, InstallerTypeOK, Seconds, AloneIsAlone, Progress,
              KeptOrNone, InPlace, KeptBefore, HasBackup, TrustedRow, Running
<1>2. ASSUME NEW i \in Installs, Die(i) PROVE InstallerInv'
  <2>1. InstallerTypeOK'
    BY <1>2 DEF Die, InstallerInv, InstallerTypeOK
  <2>2. Running' \subseteq Running /\ i \in Running
    BY <1>2 DEF Die, InstallerInv, InstallerTypeOK, Running
  <2>3. AloneIsAlone' /\ TrustedRow'
    BY <1>2, <2>2 DEF Die, InstallerInv, AloneIsAlone, TrustedRow
  <2>4. Progress'
    BY <1>2, <2>2 DEF Die, InstallerInv, InstallerTypeOK, AloneIsAlone, Progress
  <2> QED BY <2>1, <2>3, <2>4 DEF InstallerInv
<1> QED BY <1>1, <1>2

\* The inductive invariant, in every reachable state.
THEOREM InstallerInvariant == InstallerSpec => []InstallerInv
<1>1. InstallerInv /\ [InstallerNext]_installerVars => InstallerInv'
  <2> SUFFICES ASSUME InstallerInv, [InstallerNext]_installerVars PROVE InstallerInv'
    OBVIOUS
  <2>2. CASE InstallerNext
    BY <2>2, BeginOK, StepOK, FinishOK, UninstallOK, DieOK DEF InstallerNext
  <2>3. CASE UNCHANGED installerVars
    BY <2>3 DEF installerVars, InstallerInv, InstallerTypeOK, AloneIsAlone, Progress, KeptOrNone, InPlace, KeptBefore, HasBackup,
                TrustedRow, Running
  <2> QED BY <2>2, <2>3
<1> QED BY InstallerInvAtFirst, <1>1, PTL DEF InstallerSpec

\* Every variable keeps its type.
THEOREM InstallerTyped == InstallerSpec => []InstallerTypeOK
BY InstallerInvariant, PTL DEF InstallerInv

\* A trusted row has its version in Modules/<name> when nothing runs.
THEOREM RowTrue == InstallerSpec => []RowMatchesModule
<1>1. InstallerInv => RowMatchesModule
  BY DEF InstallerInv, TrustedRow, RowMatchesModule
<1> QED BY InstallerInvariant, <1>1, PTL

\* An install that ran alone and fails leaves what it found.
THEOREM FailureUndone == InstallerSpec => FailureIsUndone
<1> DEFINE Undone ==
      \A i \in alone :
         (LookBack(i) \/ MoveBack(i)) /\ at'[i] = "idle" /\ "catch" \notin refused'[i]
            => module' \in {before[i]} \cup (IF before[i] = Absent THEN {package[i]} ELSE {})
<1>1. InstallerInv /\ [InstallerNext]_installerVars => [Undone]_installerVars
  <2> SUFFICES ASSUME InstallerInv, NEW i \in alone, LookBack(i) \/ MoveBack(i), at'[i] = "idle",
                      "catch" \notin refused'[i]
               PROVE  module' \in {before[i]} \cup (IF before[i] = Absent THEN {package[i]} ELSE {})
    OBVIOUS
  <2>1. CASE LookBack(i)
    BY <2>1 DEF LookBack, InstallerInv, InstallerTypeOK, Progress, KeptOrNone, InPlace, KeptBefore, HasBackup
  <2>2. CASE MoveBack(i)
    BY <2>2 DEF MoveBack, InstallerInv, InstallerTypeOK, Progress, KeptBefore
  <2> QED BY <2>1, <2>2
<1> QED BY InstallerInvariant, <1>1, PTL DEF InstallerSpec, FailureIsUndone
=============================================================================
