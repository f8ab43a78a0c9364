---------------------------- MODULE BillingProofs ----------------------------
(***************************************************************************)
(* Theorems about Billing, for any users, invoices, payments and panels.   *)
(***************************************************************************)
EXTENDS Billing, TLAPS

(***************************************************************************)
(* A payment that has left "unused" is its owner's, for a Stars invoice;   *)
(* while it is about to credit, its invoice is closed, not yet credited,   *)
(* and no other payment is about to credit it.                             *)
(***************************************************************************)
PaymentInv ==
  \A p \in Payments : pay[p].at # "unused" =>
    /\ pay[p].invoice \in StarInvoices
    /\ pay[p].user = Owner[pay[p].invoice]

StarInv ==
  /\ \A i \in StarInvoices :
       /\ credits[i] <= 1
       /\ credits[i] > 0 => status[i] \in {"paid", "deleted"}
       /\ status[i] = "paid" =>
            \E p \in Payments : paymentId[i] = p /\ pay[p].at # "unused" /\ pay[p].invoice = i
  /\ \A p \in Payments : pay[p].at = "crediting" =>
       credits[pay[p].invoice] = 0 /\ status[pay[p].invoice] \in {"paid", "deleted"}
  /\ \A p, q \in Payments :
       pay[p].at = "crediting" /\ pay[q].at = "crediting" /\ pay[p].invoice = pay[q].invoice => p = q

(***************************************************************************)
(* The payment_id of a card invoice is a receipt of its customer; what is  *)
(* attached or reviewed exists, and what is reviewed has a receipt.        *)
(***************************************************************************)
ReceiptInv ==
  /\ \A i \in CardInvoices :
       /\ paymentId[i] # None => <<Owner[i], paymentId[i]>> \in sent /\ status[i] # "none"
       /\ status[i] = "paid" => paymentId[i] # None
  /\ attaching # NotAttaching =>
       /\ attaching.invoice \in CardInvoices /\ attaching.ref \in Receipts
       /\ <<Owner[attaching.invoice], attaching.ref>> \in sent
       /\ status[attaching.invoice] # "none"
  /\ \A a \in Panels : review[a].at # "idle" =>
       /\ review[a].invoice \in CardInvoices
       /\ paymentId[review[a].invoice] # None \/ status[review[a].invoice] = "deleted"

(* With one panel a review decides about a pending invoice and credits one *)
(* that it has just paid.                                                  *)
ReviewInv ==
  OnePanel =>
    /\ \A i \in CardInvoices : credits[i] <= 1 /\ (credits[i] > 0 => status[i] \in {"paid", "deleted"})
    /\ \A a \in Panels :
         /\ review[a].at = "writing" => status[review[a].invoice] = "pending"
         /\ review[a].at = "crediting" =>
              status[review[a].invoice] = "paid" /\ credits[review[a].invoice] = 0

IInv == TypeOK /\ PaymentInv /\ StarInv /\ ReceiptInv /\ ReviewInv

-----------------------------------------------------------------------------
(* Nothing is paid, on its way or under review in the beginning. *)
THEOREM InitInv == Init => IInv
<1> SUFFICES ASSUME Init PROVE IInv
  OBVIOUS
<1> USE BillingAssumption
<1>1. TypeOK
  BY DEF Init, TypeOK, Invoices, NoPayment, NotAttaching, NoReview, PayRecord, ReviewRecord
<1>2. PaymentInv /\ StarInv
  BY DEF Init, PaymentInv, StarInv, Invoices, NoPayment
<1>3. ReceiptInv /\ ReviewInv
  BY DEF Init, ReceiptInv, ReviewInv, Invoices, NotAttaching, NoReview
<1> QED
  BY <1>1, <1>2, <1>3 DEF IInv
-----------------------------------------------------------------------------
(* What the moves of a payment and of a review leave as it was. *)
PayTo(p, at) ==
  /\ pay'[p].at = at
  /\ pay'[p].user = pay[p].user /\ pay'[p].invoice = pay[p].invoice
  /\ \A q \in Payments : q # p => pay'[q] = pay[q]

ReviewTo(a, at, invoice) ==
  /\ review'[a].at = at /\ review'[a].invoice = invoice
  /\ \A b \in Panels : b # a => review'[b] = review[b]

SameInvoices(ids) ==
  \A i \in ids : status'[i] = status[i] /\ paymentId'[i] = paymentId[i] /\ credits'[i] = credits[i]

(* What touches neither Stars invoices nor payments keeps their half of IInv. *)
LEMMA StarsSame ==
  ASSUME PaymentInv, StarInv, SameInvoices(StarInvoices), pay' = pay
  PROVE  PaymentInv' /\ StarInv'
<1>1. PaymentInv'
  BY DEF PaymentInv
<1>2. \A i \in StarInvoices :
        status'[i] = status[i] /\ paymentId'[i] = paymentId[i] /\ credits'[i] = credits[i]
  BY DEF SameInvoices
<1>3. \A p \in Payments : pay[p].at = "crediting" => pay[p].invoice \in StarInvoices
  BY DEF PaymentInv
<1> QED
  BY <1>1, <1>2, <1>3 DEF StarInv

(* A payment that moves without paying or crediting keeps it too. *)
LEMMA PaymentQuiet ==
  ASSUME PaymentInv, StarInv, UNCHANGED <<status, paymentId, credits>>,
         NEW p \in Payments, pay[p].at # "unused",
         NEW at, at \notin {"unused", "crediting"}, PayTo(p, at)
  PROVE  PaymentInv' /\ StarInv'
<1>1. PaymentInv'
  BY DEF PaymentInv, PayTo
<1>2. \A q \in Payments :
        /\ pay'[q].invoice = pay[q].invoice
        /\ pay[q].at # "unused" => pay'[q].at # "unused"
        /\ pay'[q].at = "crediting" => pay[q].at = "crediting"
  BY DEF PayTo
<1> QED
  BY <1>1, <1>2 DEF StarInv

(* What touches neither card invoices, receipts nor reviews keeps their half. *)
LEMMA CardsSame ==
  ASSUME ReceiptInv, ReviewInv, SameInvoices(CardInvoices),
         UNCHANGED <<sent, attaching, review>>
  PROVE  ReceiptInv' /\ ReviewInv'
<1>1. \A i \in CardInvoices :
        status'[i] = status[i] /\ paymentId'[i] = paymentId[i] /\ credits'[i] = credits[i]
  BY DEF SameInvoices
<1>2. ReceiptInv'
  BY <1>1 DEF ReceiptInv
<1>3. \A a \in Panels : review[a].at # "idle" => review[a].invoice \in CardInvoices
  BY DEF ReceiptInv
<1>4. ReviewInv'
  BY <1>1, <1>3 DEF ReviewInv
<1> QED
  BY <1>2, <1>4

(* A review that moves to its end keeps it too. *)
LEMMA ReviewQuiet ==
  ASSUME ReceiptInv, ReviewInv, UNCHANGED <<status, paymentId, credits, sent, attaching>>,
         NEW a \in Panels, NEW at \in {"idle", "telling"}, NEW i, ReviewTo(a, at, i),
         at = "telling" => i \in CardInvoices /\ (paymentId[i] # None \/ status[i] = "deleted")
  PROVE  ReceiptInv' /\ ReviewInv'
<1>1. ReceiptInv'
  BY DEF ReceiptInv, ReviewTo
<1>2. \A b \in Panels : b = a \/ review'[b] = review[b]
  BY DEF ReviewTo
<1>3. review'[a].at \notin {"writing", "crediting"}
  BY DEF ReviewTo
<1>4. ReviewInv'
  BY <1>2, <1>3 DEF ReviewInv
<1> QED
  BY <1>1, <1>4

(* A changed entry of pay or review keeps the type. *)
LEMMA PayTyped ==
  ASSUME TypeOK, NEW p \in Payments, NEW r \in PayRecord, pay' = [pay EXCEPT ![p] = r]
  PROVE  /\ pay' \in [Payments -> PayRecord]
         /\ pay'[p] = r
         /\ \A q \in Payments : q # p => pay'[q] = pay[q]
BY DEF TypeOK

(* PayTyped for a move of a payment. *)
LEMMA PayAtTyped ==
  ASSUME TypeOK, NEW p \in Payments,
         NEW at \in {"unused", "charged", "crediting", "added", "already added",
                     "invalid invoice", "ended"},
         pay' = [pay EXCEPT ![p].at = at]
  PROVE  PayTo(p, at) /\ pay' \in [Payments -> PayRecord]
<1> DEFINE r == [pay[p] EXCEPT !.at = at]
<1>1. pay[p] \in PayRecord
  BY DEF TypeOK
<1>2. /\ r \in PayRecord /\ r.at = at
      /\ r.user = pay[p].user /\ r.invoice = pay[p].invoice
  BY <1>1 DEF PayRecord
<1>3. pay' = [pay EXCEPT ![p] = r]
  OBVIOUS
<1> HIDE DEF r
<1> QED
  BY <1>2, <1>3, PayTyped DEF PayTo

(* The same for a review. *)
LEMMA ReviewTyped ==
  ASSUME TypeOK, NEW a \in Panels, NEW r \in ReviewRecord,
         review' = [review EXCEPT ![a] = r]
  PROVE  ReviewTo(a, r.at, r.invoice) /\ (review' \in [Panels -> ReviewRecord])
BY DEF TypeOK, ReviewTo, ReviewRecord

(* What BillingAssumption says of single invoices. *)
LEMMA OwnerTyped ==
  /\ \A i \in Invoices : Owner[i] \in Users
  /\ StarInvoices \subseteq Invoices /\ CardInvoices \subseteq Invoices
  /\ \A i \in StarInvoices : i \notin CardInvoices
  /\ None \notin Receipts /\ None \notin Payments
BY BillingAssumption DEF BillingAssumption, Invoices

-----------------------------------------------------------------------------
(* The steps, one lemma each. *)
LEMMA NewInvoiceKeeps ==
  ASSUME IInv, NEW i \in Invoices, status[i] = "none",
         status' = [status EXCEPT ![i] = "pending"],
         UNCHANGED <<paymentId, credits, pay, sent, attaching, review, result, refused>>
  PROVE  IInv'
<1>1. TypeOK'
  BY DEF IInv, TypeOK
<1>2. status'[i] = "pending" /\ \A j \in Invoices : j # i => status'[j] = status[j]
  BY DEF IInv, TypeOK
<1>3. PaymentInv' /\ StarInv'
  BY <1>2, OwnerTyped DEF IInv, PaymentInv, StarInv
<1>4. ReceiptInv'
  BY <1>2, OwnerTyped DEF IInv, ReceiptInv
<1>5. ReviewInv'
  BY <1>2, OwnerTyped DEF IInv, ReceiptInv, ReviewInv
<1> QED
  BY <1>1, <1>3, <1>4, <1>5 DEF IInv

(* The button of a Stars plan. *)
LEMMA BillingPlanCallbackKeeps ==
  ASSUME IInv, NEW u \in Users, NEW plan \in StarPlans, BillingPlanCallback(u, plan)
  PROVE  IInv'
<1>1. CASE CreateInvoice(u, StarInvoices) /\ refused' = refused
  BY <1>1, NewInvoiceKeeps, OwnerTyped DEF BillingPlanCallback, CreateInvoice
<1>2. CASE refused' = refused \cup {plan} /\ status' = status
  <2>1. UNCHANGED <<status, paymentId, credits, pay, sent, attaching, review, result>>
    BY <1>2 DEF BillingPlanCallback
  <2>2. TypeOK'
    BY <1>2, <2>1 DEF IInv, TypeOK
  <2>3. PaymentInv' /\ StarInv'
    BY <2>1, StarsSame DEF IInv, SameInvoices
  <2>4. ReceiptInv' /\ ReviewInv'
    BY <2>1, CardsSame DEF IInv, SameInvoices
  <2> QED
    BY <2>2, <2>3, <2>4 DEF IInv
<1> QED
  BY <1>1, <1>2 DEF BillingPlanCallback

(* The button of a card plan. *)
LEMMA BillingCardPlanCallbackKeeps ==
  ASSUME IInv, NEW u \in Users, BillingCardPlanCallback(u)
  PROVE  IInv'
BY NewInvoiceKeeps, OwnerTyped DEF BillingCardPlanCallback, CreateInvoice

(* A charge is for a Stars invoice of the user who is charged. *)
LEMMA PreCheckoutKeeps ==
  ASSUME IInv, NEW p \in Payments, NEW u \in Users, NEW i \in StarInvoices, PreCheckout(p, u, i)
  PROVE  IInv'
<1> DEFINE r == [[[pay[p] EXCEPT !.at = "charged"] EXCEPT !.user = u] EXCEPT !.invoice = i]
<1>1. pay[p] \in PayRecord
  BY DEF IInv, TypeOK
<1>2. r \in PayRecord /\ r.at = "charged" /\ r.user = u /\ r.invoice = i
  BY <1>1 DEF PayRecord
<1>3. pay' = [pay EXCEPT ![p] = r]
  BY <1>1 DEF PreCheckout, PayRecord, IInv, TypeOK
<1> HIDE DEF r
<1>4. /\ pay' \in [Payments -> PayRecord]
      /\ pay'[p].at = "charged" /\ pay'[p].user = u /\ pay'[p].invoice = i
      /\ \A q \in Payments : q # p => pay'[q] = pay[q]
  BY <1>2, <1>3, PayTyped DEF IInv
<1>5. pay[p].at = "unused" /\ Owner[i] = u
  BY DEF PreCheckout, CanCheckout
<1>6. UNCHANGED <<status, paymentId, credits, refused, sent, attaching, review, result>>
  BY DEF PreCheckout
<1>7. TypeOK'
  BY <1>4, <1>6 DEF IInv, TypeOK
<1>8. PaymentInv'
  BY <1>4, <1>5 DEF IInv, PaymentInv
<1>9. StarInv'
  BY <1>4, <1>5, <1>6 DEF IInv, StarInv
<1>10. ReceiptInv' /\ ReviewInv'
  BY <1>6, CardsSame DEF IInv, SameInvoices
<1> QED
  BY <1>7, <1>8, <1>9, <1>10 DEF IInv

(* Only a pending invoice is confirmed, so nobody credits or credited it. *)
LEMMA ConfirmNewlyPaidKeeps ==
  ASSUME IInv, NEW p \in Payments, ConfirmNewlyPaid(p)
  PROVE  IInv'
<1> DEFINE i == pay[p].invoice
<1>1. i \in StarInvoices /\ i \in Invoices /\ status[i] = "pending" /\ pay[p].at = "charged"
  BY OwnerTyped DEF IInv, PaymentInv, ConfirmNewlyPaid, Confirmable
<1>2. PayTo(p, "crediting") /\ pay' \in [Payments -> PayRecord]
  BY PayAtTyped DEF IInv, ConfirmNewlyPaid
<1>3. UNCHANGED <<credits, refused, sent, attaching, review, result>>
  BY DEF ConfirmNewlyPaid
<1>4. /\ status'[i] = "paid" /\ paymentId'[i] = p
      /\ \A j \in Invoices : j # i => status'[j] = status[j] /\ paymentId'[j] = paymentId[j]
  BY <1>1 DEF ConfirmNewlyPaid, IInv, TypeOK
<1>5. TypeOK'
  BY <1>1, <1>2, <1>3 DEF ConfirmNewlyPaid, IInv, TypeOK
<1>6. credits[i] = 0
  BY <1>1 DEF IInv, StarInv, TypeOK
<1> HIDE DEF i
<1>7. PaymentInv'
  BY <1>1, <1>2 DEF IInv, PaymentInv, PayTo
<1>8. i = pay[p].invoice
  BY DEF i
<1>9. StarInv'
  <2>1. ASSUME NEW j \in StarInvoices
        PROVE  /\ credits'[j] <= 1
               /\ credits'[j] > 0 => status'[j] \in {"paid", "deleted"}
               /\ status'[j] = "paid" =>
                    \E q \in Payments : paymentId'[j] = q /\ pay'[q].at # "unused"
                                        /\ pay'[q].invoice = j
    <3>1. CASE j = i
      BY <3>1, <1>2, <1>3, <1>4, <1>6, <1>8 DEF PayTo
    <3>2. CASE j # i
      BY <3>2, <1>2, <1>3, <1>4, OwnerTyped DEF IInv, StarInv, PayTo
    <3> QED
      BY <3>1, <3>2
  <2>2. ASSUME NEW q \in Payments, pay'[q].at = "crediting"
        PROVE  credits'[pay'[q].invoice] = 0 /\ status'[pay'[q].invoice] \in {"paid", "deleted"}
    <3>1. CASE q = p
      BY <3>1, <1>2, <1>3, <1>4, <1>6, <1>8 DEF PayTo
    <3>2. CASE q # p
      <4>1. pay'[q] = pay[q] /\ pay[q].invoice \in StarInvoices /\ pay[q].invoice # i
        BY <3>2, <2>2, <1>1, <1>2 DEF IInv, StarInv, PaymentInv, PayTo
      <4> QED
        BY <4>1, <2>2, <1>3, <1>4, OwnerTyped DEF IInv, StarInv
    <3> QED
      BY <3>1, <3>2
  <2>3. ASSUME NEW q \in Payments, q # p, pay[q].at = "crediting"
        PROVE  pay[q].invoice # i
    BY <2>3, <1>1 DEF IInv, StarInv
  <2>4. \A q, s \in Payments :
          pay'[q].at = "crediting" /\ pay'[s].at = "crediting" /\ pay'[q].invoice = pay'[s].invoice
          => q = s
    BY <2>3, <1>2, <1>8 DEF IInv, StarInv, PayTo
  <2> QED
    BY <2>1, <2>2, <2>4 DEF StarInv
<1>10. ReceiptInv' /\ ReviewInv'
  BY <1>1, <1>3, <1>4, CardsSame, OwnerTyped DEF IInv, SameInvoices
<1> QED
  BY <1>5, <1>7, <1>9, <1>10 DEF IInv

(* The one payment that may credit an invoice leaves that place as it does. *)
LEMMA CreditStarsKeeps ==
  ASSUME IInv, NEW p \in Payments, CreditStars(p)
  PROVE  IInv'
<1> DEFINE i == pay[p].invoice
<1>1. /\ i \in StarInvoices /\ i \in Invoices /\ pay[p].at = "crediting"
      /\ credits[i] = 0 /\ status[i] \in {"paid", "deleted"}
  BY OwnerTyped DEF IInv, PaymentInv, StarInv, CreditStars
<1>2. PayTo(p, "added") /\ pay' \in [Payments -> PayRecord]
  BY PayAtTyped DEF IInv, CreditStars
<1>3. UNCHANGED <<status, paymentId, refused, sent, attaching, review, result>>
  BY DEF CreditStars
<1>4. credits'[i] = 1 /\ \A j \in Invoices : j # i => credits'[j] = credits[j]
  BY <1>1 DEF CreditStars, IInv, TypeOK
<1>5. TypeOK'
  BY <1>1, <1>2, <1>3 DEF CreditStars, IInv, TypeOK
<1>6. i = pay[p].invoice
  OBVIOUS
<1> HIDE DEF i
<1>7. PaymentInv'
  BY <1>1, <1>2 DEF IInv, PaymentInv, PayTo
<1>8. \A q \in Payments : q # p /\ pay[q].at = "crediting" =>
        pay[q].invoice # i /\ pay[q].invoice \in StarInvoices
  BY <1>1, <1>6 DEF IInv, StarInv, PaymentInv
<1>9. StarInv'
  <2>1. ASSUME NEW j \in StarInvoices
        PROVE  /\ credits'[j] <= 1
               /\ credits'[j] > 0 => status'[j] \in {"paid", "deleted"}
    BY <1>1, <1>3, <1>4, OwnerTyped DEF IInv, StarInv
  <2>2. ASSUME NEW j \in StarInvoices, status'[j] = "paid"
        PROVE  \E q \in Payments : paymentId'[j] = q /\ pay'[q].at # "unused" /\ pay'[q].invoice = j
    BY <2>2, <1>2, <1>3 DEF IInv, StarInv, PayTo
  <2>3. ASSUME NEW q \in Payments, pay'[q].at = "crediting"
        PROVE  q # p /\ pay'[q] = pay[q]
    BY <2>3, <1>2 DEF PayTo
  <2>4. ASSUME NEW q \in Payments, pay'[q].at = "crediting"
        PROVE  credits'[pay'[q].invoice] = 0 /\ status'[pay'[q].invoice] \in {"paid", "deleted"}
    BY <2>4, <2>3, <1>3, <1>4, <1>8, OwnerTyped DEF IInv, StarInv
  <2>5. \A q, s \in Payments :
          pay'[q].at = "crediting" /\ pay'[s].at = "crediting" /\ pay'[q].invoice = pay'[s].invoice
          => q = s
    BY <2>3 DEF IInv, StarInv
  <2> QED
    BY <2>1, <2>2, <2>4, <2>5 DEF StarInv
<1>10. ReceiptInv' /\ ReviewInv'
  BY <1>1, <1>3, <1>4, CardsSame, OwnerTyped DEF IInv, SameInvoices
<1> QED
  BY <1>5, <1>7, <1>9, <1>10 DEF IInv

(* Every other step of a payment only moves it. *)
LEMMA PaymentMoves ==
  ASSUME IInv, NEW p \in Payments, pay[p].at # "unused",
         NEW at, at \notin {"unused", "crediting"}, PayTo(p, at),
         pay' \in [Payments -> PayRecord],
         UNCHANGED <<status, paymentId, credits, refused, sent, attaching, review, result>>
  PROVE  IInv'
<1>1. TypeOK'
  BY DEF IInv, TypeOK
<1>2. PaymentInv' /\ StarInv'
  BY PaymentQuiet DEF IInv
<1>3. ReceiptInv' /\ ReviewInv'
  BY CardsSame DEF IInv, SameInvoices
<1> QED
  BY <1>1, <1>2, <1>3 DEF IInv

(* A payment that cannot be confirmed moves to its answer. *)
LEMMA ConfirmOtherKeeps ==
  ASSUME IInv, NEW p \in Payments, ConfirmOther(p)
  PROVE  IInv'
<1> DEFINE at == IF status[pay[p].invoice] = "paid" THEN "already added" ELSE "invalid invoice"
<1>1. /\ at \in {"unused", "charged", "crediting", "added", "already added",
                 "invalid invoice", "ended"}
      /\ at \notin {"unused", "crediting"}
  OBVIOUS
<1>2. pay' = [pay EXCEPT ![p].at = at] /\ pay[p].at # "unused"
  BY DEF ConfirmOther
<1>3. UNCHANGED <<status, paymentId, credits, refused, sent, attaching, review, result>>
  BY DEF ConfirmOther
<1> HIDE DEF at
<1> QED
  BY <1>1, <1>2, <1>3, PayAtTyped, PaymentMoves DEF IInv

(* The answer of successful_payment_handler. *)
LEMMA AnswerPaymentKeeps ==
  ASSUME IInv, NEW p \in Payments, AnswerPayment(p)
  PROVE  IInv'
<1> DEFINE r == [[pay[p] EXCEPT !.told = pay[p].at] EXCEPT !.at = "ended"]
<1>1. pay[p] \in PayRecord /\ pay[p].at \in {"added", "already added", "invalid invoice"}
  BY DEF IInv, TypeOK, AnswerPayment
<1>2. r \in PayRecord /\ r.at = "ended" /\ r.user = pay[p].user /\ r.invoice = pay[p].invoice
  BY <1>1 DEF PayRecord
<1>3. pay' = [pay EXCEPT ![p] = r]
  BY <1>1 DEF AnswerPayment, PayRecord, IInv, TypeOK
<1> HIDE DEF r
<1>4. PayTo(p, "ended") /\ pay' \in [Payments -> PayRecord]
  BY <1>2, <1>3, PayTyped DEF IInv, PayTo
<1>5. UNCHANGED <<status, paymentId, credits, refused, sent, attaching, review, result>>
  BY DEF AnswerPayment
<1> QED
  BY <1>1, <1>4, <1>5, PaymentMoves

(* A further attempt of the worker. *)
LEMMA PaymentRaisesKeeps ==
  ASSUME IInv, NEW p \in Payments, PaymentRaises(p)
  PROVE  IInv'
<1> DEFINE r == [[pay[p] EXCEPT !.at = "charged"] EXCEPT !.attempt = pay[p].attempt + 1]
<1>1. pay[p] \in PayRecord /\ pay[p].at # "unused" /\ pay[p].attempt < Attempts
  BY DEF IInv, TypeOK, PaymentRaises
<1>2. pay[p].attempt + 1 \in 1 .. Attempts
  <2>1. pay[p].attempt \in 1 .. Attempts
    BY <1>1 DEF PayRecord
  <2>2. Attempts \in Nat
    BY BillingAssumption
  <2> QED
    BY <2>1, <2>2, <1>1
<1>3. r \in PayRecord /\ r.at = "charged" /\ r.user = pay[p].user /\ r.invoice = pay[p].invoice
  BY <1>1, <1>2 DEF PayRecord
<1>4. pay' = [pay EXCEPT ![p] = r]
  BY <1>1 DEF PaymentRaises, PayRecord, IInv, TypeOK
<1> HIDE DEF r
<1>5. PayTo(p, "charged") /\ pay' \in [Payments -> PayRecord]
  BY <1>3, <1>4, PayTyped DEF IInv, PayTo
<1>6. UNCHANGED <<status, paymentId, credits, refused, sent, attaching, review, result>>
  BY DEF PaymentRaises
<1> QED
  BY <1>1, <1>5, <1>6, PaymentMoves

(* The end of a payment that nobody retries. *)
LEMMA PaymentLostKeeps ==
  ASSUME IInv, NEW p \in Payments, PaymentLost(p)
  PROVE  IInv'
<1>1. PayTo(p, "ended") /\ pay' \in [Payments -> PayRecord] /\ pay[p].at # "unused"
  BY PayAtTyped DEF IInv, PaymentLost
<1>2. UNCHANGED <<status, paymentId, credits, refused, sent, attaching, review, result>>
  BY DEF PaymentLost
<1> QED
  BY <1>1, <1>2, PaymentMoves

(* The receipt in hand is its sender's, for an invoice of the sender. *)
LEMMA AttachReadsKeeps ==
  ASSUME IInv, NEW u \in Users, NEW r \in Receipts, AttachReads(u, r)
  PROVE  IInv'
<1>1. PICK i \in CardInvoices : Owner[i] = u /\ status[i] = "pending"
                                /\ attaching' = [invoice |-> i, ref |-> r]
  BY DEF AttachReads, LatestPendingCardInvoice
<1>2. sent' = sent \cup {<<u, r>>} /\ UNCHANGED <<status, paymentId, credits, refused, pay, review, result>>
  BY DEF AttachReads
<1>3. attaching'.invoice = i /\ attaching'.ref = r
  BY <1>1
<1>4. TypeOK'
  BY <1>1, <1>2 DEF IInv, TypeOK
<1>5. PaymentInv' /\ StarInv'
  BY <1>2, StarsSame DEF IInv, SameInvoices
<1>6. ReceiptInv'
  BY <1>1, <1>2, <1>3 DEF IInv, ReceiptInv
<1>7. ReviewInv'
  BY <1>2 DEF IInv, ReviewInv
<1> QED
  BY <1>4, <1>5, <1>6, <1>7 DEF IInv

(* The receipt of an invoice is its customer's afterwards. *)
LEMMA AttachWritesKeeps ==
  ASSUME IInv, AttachWrites
  PROVE  IInv'
<1> DEFINE i == attaching.invoice
<1>1. /\ i \in CardInvoices /\ i \in Invoices /\ attaching.ref \in Receipts
      /\ <<Owner[i], attaching.ref>> \in sent /\ status[i] # "none"
  BY OwnerTyped DEF IInv, ReceiptInv, AttachWrites, Loop
<1>2. attaching' = NotAttaching /\ UNCHANGED <<status, credits, refused, pay, sent, review, result>>
  BY DEF AttachWrites
<1>3. /\ paymentId'[i] = attaching.ref
      /\ \A j \in Invoices : j # i => paymentId'[j] = paymentId[j]
  BY <1>1 DEF AttachWrites, IInv, TypeOK
<1>4. TypeOK'
  BY <1>1, <1>2 DEF AttachWrites, IInv, TypeOK, NotAttaching
<1> HIDE DEF i
<1>5. PaymentInv' /\ StarInv'
  BY <1>1, <1>2, <1>3, StarsSame, OwnerTyped DEF IInv, SameInvoices
<1>6. attaching.ref # None
  BY <1>1, OwnerTyped
<1>7. ReceiptInv'
  <2>1. ASSUME NEW j \in CardInvoices
        PROVE  /\ paymentId'[j] # None => <<Owner[j], paymentId'[j]>> \in sent' /\ status'[j] # "none"
               /\ status'[j] = "paid" => paymentId'[j] # None
    <3>1. CASE j = i
      BY <3>1, <1>1, <1>2, <1>3, <1>6
    <3>2. CASE j # i
      BY <3>2, <1>2, <1>3, OwnerTyped DEF IInv, ReceiptInv
    <3> QED
      BY <3>1, <3>2
  <2>2. ASSUME NEW a \in Panels, review'[a].at # "idle"
        PROVE  /\ review'[a].invoice \in CardInvoices
               /\ paymentId'[review'[a].invoice] # None \/ status'[review'[a].invoice] = "deleted"
    BY <2>2, <1>2, <1>3, <1>6, OwnerTyped DEF IInv, ReceiptInv
  <2> QED
    BY <2>1, <2>2, <1>2 DEF ReceiptInv
<1>8. ReviewInv'
  BY <1>2 DEF IInv, ReviewInv
<1> QED
  BY <1>4, <1>5, <1>7, <1>8 DEF IInv

(* A receipt that cannot be attached changes no invoice. *)
LEMMA AttachRaisesKeeps ==
  ASSUME IInv, AttachRaises
  PROVE  IInv'
<1>1. attaching' = NotAttaching
      /\ UNCHANGED <<status, paymentId, credits, refused, pay, sent, review, result>>
  BY DEF AttachRaises
<1>2. TypeOK'
  BY <1>1 DEF IInv, TypeOK, NotAttaching
<1>3. PaymentInv' /\ StarInv'
  BY <1>1, StarsSame DEF IInv, SameInvoices
<1>4. ReceiptInv' /\ ReviewInv'
  BY <1>1 DEF IInv, ReceiptInv, ReviewInv
<1> QED
  BY <1>2, <1>3, <1>4 DEF IInv

(* A step of a review that changes no invoice and neither writes nor       *)
(* credits afterwards.                                                     *)
LEMMA ReviewMoves ==
  ASSUME IInv, NEW a \in Panels, NEW at \in {"idle", "telling"}, NEW i, ReviewTo(a, at, i),
         at = "telling" => i \in CardInvoices /\ (paymentId[i] # None \/ status[i] = "deleted"),
         review' \in [Panels -> ReviewRecord], result' \in [Invoices -> SUBSET {"approved", "rejected"}],
         UNCHANGED <<status, paymentId, credits, refused, pay, sent, attaching>>
  PROVE  IInv'
<1>1. TypeOK'
  BY DEF IInv, TypeOK
<1>2. PaymentInv' /\ StarInv'
  BY StarsSame DEF IInv, SameInvoices
<1>3. ReceiptInv' /\ ReviewInv'
  BY ReviewQuiet DEF IInv
<1> QED
  BY <1>1, <1>2, <1>3 DEF IInv

(* A review goes on to write where it has read "pending". *)
LEMMA ReviewReadsKeeps ==
  ASSUME IInv, NEW a \in Panels, NEW i \in CardInvoices, NEW approve \in BOOLEAN,
         ReviewReads(a, i, approve)
  PROVE  IInv'
<1> DEFINE at == IF status[i] = "pending" THEN "writing" ELSE "telling"
           r == [at |-> at, invoice |-> i, approve |-> approve]
<1>1. r \in ReviewRecord /\ r.at = at /\ r.invoice = i
  BY DEF ReviewRecord
<1>2. review' = [review EXCEPT ![a] = r]
      /\ UNCHANGED <<status, paymentId, credits, refused, pay, sent, attaching, result>>
  BY DEF ReviewReads
<1>3. paymentId[i] # None
  BY DEF ReviewReads, Offered
<1> HIDE DEF r
<1>4. ReviewTo(a, at, i) /\ review' \in [Panels -> ReviewRecord]
  BY <1>1, <1>2, ReviewTyped DEF IInv
<1>5. CASE status[i] # "pending"
  <2>1. result' \in [Invoices -> SUBSET {"approved", "rejected"}]
    BY <1>2 DEF IInv, TypeOK
  <2> QED
    BY <2>1, <1>2, <1>3, <1>4, <1>5, ReviewMoves
<1>6. CASE status[i] = "pending"
  <2>1. TypeOK'
    BY <1>2, <1>4 DEF IInv, TypeOK
  <2>2. PaymentInv' /\ StarInv'
    BY <1>2, StarsSame DEF IInv, SameInvoices
  <2>3. ReceiptInv'
    BY <1>2, <1>3, <1>4 DEF IInv, ReceiptInv, ReviewTo
  <2>4. ReviewInv'
    BY <1>2, <1>4, <1>6 DEF IInv, ReviewInv, ReviewTo
  <2> QED
    BY <2>1, <2>2, <2>3, <2>4 DEF IInv
<1> QED
  BY <1>5, <1>6

(* ReviewTyped for a move of a review. *)
LEMMA ReviewAtTyped ==
  ASSUME TypeOK, NEW a \in Panels, NEW at \in {"idle", "writing", "crediting", "telling"},
         Reviewing(a, at)
  PROVE  ReviewTo(a, at, review[a].invoice) /\ review' \in [Panels -> ReviewRecord]
<1> DEFINE r == [review[a] EXCEPT !.at = at]
<1>1. review[a] \in ReviewRecord
  BY DEF TypeOK
<1>2. r \in ReviewRecord /\ r.at = at /\ r.invoice = review[a].invoice
  BY <1>1 DEF ReviewRecord
<1>3. review' = [review EXCEPT ![a] = r]
  BY DEF Reviewing
<1> HIDE DEF r
<1> QED
  BY <1>2, <1>3, ReviewTyped

(* With one panel the row is still pending when it is written. *)
LEMMA ReviewWritesKeeps ==
  ASSUME IInv, NEW a \in Panels, ReviewWrites(a)
  PROVE  IInv'
<1> DEFINE i == review[a].invoice
           at == IF review[a].approve THEN "crediting" ELSE "telling"
           s == IF review[a].approve THEN "paid" ELSE "failed"
<1>1. /\ i \in CardInvoices /\ i \in Invoices
      /\ paymentId[i] # None /\ status[i] # "deleted" /\ review[a].at = "writing"
  BY OwnerTyped DEF IInv, ReceiptInv, ReviewWrites
<1>2. /\ at \in {"crediting", "telling"} /\ s \in {"paid", "failed"}
      /\ at = "crediting" => s = "paid"
  OBVIOUS
<1>3. Reviewing(a, at) /\ UNCHANGED <<paymentId, credits, refused, pay, sent, attaching, result>>
  BY DEF ReviewWrites
<1>4. status' = [status EXCEPT ![i] = s]
  BY DEF ReviewWrites
<1> HIDE DEF at, s
<1>5. status'[i] = s /\ \A j \in Invoices : j # i => status'[j] = status[j]
  BY <1>1, <1>4 DEF IInv, TypeOK
<1>6. ReviewTo(a, at, i) /\ review' \in [Panels -> ReviewRecord]
  BY <1>2, <1>3, ReviewAtTyped DEF IInv
<1>7. TypeOK'
  BY <1>1, <1>2, <1>3, <1>4, <1>6 DEF IInv, TypeOK
<1> HIDE DEF i
<1>8. PaymentInv' /\ StarInv'
  BY <1>1, <1>3, <1>5, StarsSame, OwnerTyped DEF IInv, SameInvoices
<1>9. ReceiptInv'
  <2>1. ASSUME NEW j \in CardInvoices
        PROVE  /\ paymentId'[j] # None => <<Owner[j], paymentId'[j]>> \in sent' /\ status'[j] # "none"
               /\ status'[j] = "paid" => paymentId'[j] # None
    BY <1>1, <1>2, <1>3, <1>5, OwnerTyped DEF IInv, ReceiptInv
  <2>2. attaching' # NotAttaching =>
          /\ attaching'.invoice \in CardInvoices /\ attaching'.ref \in Receipts
          /\ <<Owner[attaching'.invoice], attaching'.ref>> \in sent'
          /\ status'[attaching'.invoice] # "none"
    BY <1>2, <1>3, <1>5, OwnerTyped DEF IInv, ReceiptInv
  <2>3. ASSUME NEW b \in Panels, review'[b].at # "idle"
        PROVE  /\ review'[b].invoice \in CardInvoices
               /\ paymentId'[review'[b].invoice] # None \/ status'[review'[b].invoice] = "deleted"
    <3>1. CASE b = a
      BY <3>1, <1>1, <1>3, <1>6 DEF ReviewTo
    <3>2. CASE b # a
      BY <3>2, <2>3, <1>1, <1>3, <1>5, <1>6, OwnerTyped DEF IInv, ReceiptInv, ReviewTo
    <3> QED
      BY <3>1, <3>2
  <2> QED
    BY <2>1, <2>2, <2>3 DEF ReceiptInv
<1>10. ReviewInv'
  <2> SUFFICES ASSUME OnePanel
               PROVE  /\ \A j \in CardInvoices :
                           credits'[j] <= 1 /\ (credits'[j] > 0 => status'[j] \in {"paid", "deleted"})
                      /\ \A b \in Panels :
                           /\ review'[b].at = "writing" => status'[review'[b].invoice] = "pending"
                           /\ review'[b].at = "crediting" =>
                                status'[review'[b].invoice] = "paid" /\ credits'[review'[b].invoice] = 0
    BY DEF ReviewInv, OnePanel
  <2>1. \A b \in Panels : b = a
    BY DEF OnePanel
  <2>2. status[i] = "pending"
    BY <1>1 DEF IInv, ReviewInv, i
  <2>3. credits[i] = 0
    BY <1>1, <2>2 DEF IInv, ReviewInv, TypeOK
  <2>4. \A j \in CardInvoices :
          credits'[j] <= 1 /\ (credits'[j] > 0 => status'[j] \in {"paid", "deleted"})
    BY <1>3, <1>5, <2>3, OwnerTyped DEF IInv, ReviewInv
  <2> QED
    BY <2>1, <2>3, <2>4, <1>2, <1>3, <1>5, <1>6 DEF ReviewTo
<1> QED
  BY <1>7, <1>8, <1>9, <1>10 DEF IInv

(* With one panel the invoice is paid and not yet credited. *)
LEMMA CreditCardKeeps ==
  ASSUME IInv, NEW a \in Panels, CreditCard(a)
  PROVE  IInv'
<1> DEFINE i == review[a].invoice
<1>1. /\ i \in CardInvoices /\ i \in Invoices /\ review[a].at = "crediting"
      /\ paymentId[i] # None \/ status[i] = "deleted"
  BY OwnerTyped DEF IInv, ReceiptInv, CreditCard
<1>2. Reviewing(a, "telling") /\ UNCHANGED <<status, paymentId, refused, pay, sent, attaching, result>>
  BY DEF CreditCard
<1>3. ReviewTo(a, "telling", i) /\ review' \in [Panels -> ReviewRecord]
  BY <1>2, ReviewAtTyped DEF IInv
<1>4. credits'[i] = credits[i] + 1 /\ \A j \in Invoices : j # i => credits'[j] = credits[j]
  BY <1>1 DEF CreditCard, IInv, TypeOK
<1>5. TypeOK'
  BY <1>1, <1>2, <1>3 DEF CreditCard, IInv, TypeOK
<1>6. OnePanel => status[i] = "paid" /\ credits[i] = 0
  BY <1>1 DEF IInv, ReviewInv
<1> HIDE DEF i
<1>7. PaymentInv' /\ StarInv'
  BY <1>1, <1>2, <1>4, StarsSame, OwnerTyped DEF IInv, SameInvoices
<1>8. ReceiptInv'
  BY <1>1, <1>2, <1>3 DEF IInv, ReceiptInv, ReviewTo
<1>9. ReviewInv'
  <2> SUFFICES ASSUME OnePanel
               PROVE  /\ \A j \in CardInvoices :
                           credits'[j] <= 1 /\ (credits'[j] > 0 => status'[j] \in {"paid", "deleted"})
                      /\ \A b \in Panels : review'[b].at \notin {"writing", "crediting"}
    BY DEF ReviewInv, OnePanel
  <2>1. \A b \in Panels : b = a
    BY DEF OnePanel
  <2>2. \A j \in CardInvoices :
          credits'[j] <= 1 /\ (credits'[j] > 0 => status'[j] \in {"paid", "deleted"})
    BY <1>2, <1>4, <1>6, OwnerTyped DEF IInv, ReviewInv
  <2> QED
    BY <2>1, <2>2, <1>3 DEF ReviewTo
<1> QED
  BY <1>5, <1>7, <1>8, <1>9 DEF IInv

(* ReviewTyped for the end of a review. *)
LEMMA NoReviewTyped ==
  ASSUME TypeOK, NEW a \in Panels, review' = [review EXCEPT ![a] = NoReview]
  PROVE  ReviewTo(a, "idle", None) /\ review' \in [Panels -> ReviewRecord]
<1>1. NoReview \in ReviewRecord /\ NoReview.at = "idle" /\ NoReview.invoice = None
  BY DEF NoReview, ReviewRecord
<1> QED
  BY <1>1, ReviewTyped

(* Telling the owner ends the review. *)
LEMMA NotifyInvoiceResultKeeps ==
  ASSUME IInv, NEW a \in Panels, NotifyInvoiceResult(a)
  PROVE  IInv'
<1>1. review' = [review EXCEPT ![a] = NoReview]
      /\ UNCHANGED <<status, paymentId, credits, refused, pay, sent, attaching>>
  BY DEF NotifyInvoiceResult
<1>2. ReviewTo(a, "idle", None) /\ review' \in [Panels -> ReviewRecord]
  BY <1>1, NoReviewTyped DEF IInv
<1>3. result' \in [Invoices -> SUBSET {"approved", "rejected"}]
  BY DEF NotifyInvoiceResult, IInv, TypeOK
<1> QED
  BY <1>1, <1>2, <1>3, ReviewMoves

(* A failure ends the review where it is. *)
LEMMA ReviewRaisesKeeps ==
  ASSUME IInv, NEW a \in Panels, ReviewRaises(a)
  PROVE  IInv'
<1>1. review' = [review EXCEPT ![a] = NoReview]
      /\ UNCHANGED <<status, paymentId, credits, refused, pay, sent, attaching, result>>
  BY DEF ReviewRaises
<1>2. ReviewTo(a, "idle", None) /\ review' \in [Panels -> ReviewRecord]
  BY <1>1, NoReviewTyped DEF IInv
<1>3. result' \in [Invoices -> SUBSET {"approved", "rejected"}]
  BY <1>1 DEF IInv, TypeOK
<1> QED
  BY <1>1, <1>2, <1>3, ReviewMoves

(* The invoices of a deleted user count as deleted, with nothing credited. *)
LEMMA DeleteUserCompletelyKeeps ==
  ASSUME IInv, NEW a \in Panels, NEW u \in Users, DeleteUserCompletely(a, u)
  PROVE  IInv'
<1>1. review[a].at = "idle" /\ UNCHANGED <<refused, pay, sent, attaching, review, result>>
  BY DEF DeleteUserCompletely
<1>2. ASSUME NEW i \in Invoices
      PROVE  \/ /\ Owner[i] = u /\ paymentId'[i] = None /\ credits'[i] = 0
                /\ status'[i] = IF status[i] # "none" THEN "deleted" ELSE "none"
             \/ /\ Owner[i] # u /\ paymentId'[i] = paymentId[i] /\ credits'[i] = credits[i]
                /\ status'[i] = status[i]
  BY DEF DeleteUserCompletely
<1>3. TypeOK'
  BY <1>1 DEF DeleteUserCompletely, IInv, TypeOK
<1>4. PaymentInv'
  BY <1>1 DEF IInv, PaymentInv
<1>5. StarInv'
  <2>1. ASSUME NEW i \in StarInvoices
        PROVE  /\ credits'[i] <= 1
               /\ credits'[i] > 0 => status'[i] \in {"paid", "deleted"}
               /\ status'[i] = "paid" =>
                    \E p \in Payments : paymentId'[i] = p /\ pay'[p].at # "unused"
                                        /\ pay'[p].invoice = i
    BY <1>1, <1>2, OwnerTyped DEF IInv, StarInv
  <2>2. ASSUME NEW p \in Payments, pay'[p].at = "crediting"
        PROVE  credits'[pay'[p].invoice] = 0 /\ status'[pay'[p].invoice] \in {"paid", "deleted"}
    BY <2>2, <1>1, <1>2, OwnerTyped DEF IInv, StarInv, PaymentInv
  <2> QED
    BY <2>1, <2>2, <1>1 DEF IInv, StarInv
<1>6. ReceiptInv'
  <2>1. \A i \in CardInvoices :
          /\ paymentId'[i] # None => <<Owner[i], paymentId'[i]>> \in sent' /\ status'[i] # "none"
          /\ status'[i] = "paid" => paymentId'[i] # None
    BY <1>1, <1>2, OwnerTyped DEF IInv, ReceiptInv
  <2>2. \A i \in CardInvoices : status[i] # "none" => status'[i] # "none"
    BY <1>2, OwnerTyped
  <2>3. ASSUME NEW b \in Panels, review'[b].at # "idle"
        PROVE  /\ review'[b].invoice \in CardInvoices
               /\ paymentId'[review'[b].invoice] # None \/ status'[review'[b].invoice] = "deleted"
    <3> DEFINE i == review[b].invoice
    <3>1. i \in CardInvoices /\ (paymentId[i] # None \/ status[i] = "deleted")
      BY <2>3, <1>1 DEF IInv, ReceiptInv
    <3>2. status[i] # "none"
      BY <3>1 DEF IInv, ReceiptInv
    <3> HIDE DEF i
    <3>3. paymentId'[i] # None \/ status'[i] = "deleted"
      BY <3>1, <3>2, <1>2, OwnerTyped
    <3> QED
      BY <3>1, <3>3, <1>1 DEF i
  <2> QED
    BY <2>1, <2>2, <2>3, <1>1 DEF IInv, ReceiptInv
<1>7. ReviewInv'
  <2> SUFFICES ASSUME OnePanel
               PROVE  /\ \A j \in CardInvoices :
                           credits'[j] <= 1 /\ (credits'[j] > 0 => status'[j] \in {"paid", "deleted"})
                      /\ \A b \in Panels : review'[b].at \notin {"writing", "crediting"}
    BY DEF ReviewInv, OnePanel
  <2>1. \A b \in Panels : b = a
    BY DEF OnePanel
  <2> QED
    BY <2>1, <1>1, <1>2, OwnerTyped DEF IInv, ReviewInv
<1> QED
  BY <1>3, <1>4, <1>5, <1>6, <1>7 DEF IInv

-----------------------------------------------------------------------------
(* Nothing happens. *)
LEMMA StutterKeeps ==
  ASSUME IInv, UNCHANGED vars
  PROVE  IInv'
BY DEF vars, IInv, TypeOK, PaymentInv, StarInv, ReceiptInv, ReviewInv

(* Every step of a payment. *)
LEMMA PaymentKeeps ==
  ASSUME IInv, NEW p \in Payments, Payment(p)
  PROVE  IInv'
BY PreCheckoutKeeps, ConfirmNewlyPaidKeeps, ConfirmOtherKeeps, CreditStarsKeeps,
   AnswerPaymentKeeps, PaymentRaisesKeeps, PaymentLostKeeps DEF Payment

(* Every step of a panel process. *)
LEMMA ReviewKeeps ==
  ASSUME IInv, NEW a \in Panels, Review(a)
  PROVE  IInv'
BY ReviewReadsKeeps, ReviewWritesKeeps, CreditCardKeeps, NotifyInvoiceResultKeeps,
   ReviewRaisesKeeps, DeleteUserCompletelyKeeps DEF Review

(* Every step of the system keeps IInv. *)
THEOREM NextInv == IInv /\ [Next]_vars => IInv'
<1> SUFFICES ASSUME IInv, [Next]_vars PROVE IInv'
  OBVIOUS
<1> QED
  BY BillingPlanCallbackKeeps, BillingCardPlanCallbackKeeps, PaymentKeeps, AttachReadsKeeps,
     AttachWritesKeeps, AttachRaisesKeeps, ReviewKeeps, StutterKeeps DEF Next

(* Billing's state is always as IInv describes it. *)
THEOREM Invariance == Spec => []IInv
BY InitInv, NextInv, PTL DEF Spec

(* Every variable keeps to its type. *)
THEOREM TypeCorrect == Spec => []TypeOK
<1>1. IInv => TypeOK
  BY DEF IInv
<1> QED
  BY <1>1, Invariance, PTL

(* Nobody is credited an invoice twice: a Stars invoice whatever is        *)
(* repeated and whichever processes run, a card invoice with one panel.    *)
THEOREM CreditOnce == Spec => []CreditedOnce
<1>1. IInv => CreditedOnce
  BY DEF IInv, StarInv, ReviewInv, CreditedOnce
<1> QED
  BY <1>1, Invariance, PTL

(* With one panel, messages are only granted for an invoice that is paid.  *)
THEOREM PaidCredits == Spec => []CreditedMeansPaid
<1>1. IInv => CreditedMeansPaid
  BY DEF IInv, StarInv, ReviewInv, CreditedMeansPaid, Invoices
<1> QED
  BY <1>1, Invariance, PTL

(* An invoice is only ever paid with a payment or a receipt of the         *)
(* customer it was made for.                                               *)
THEOREM CustomersEvidence == Spec => []PaidByCustomer
<1>1. IInv => PaidByCustomer
  <2> SUFFICES ASSUME IInv, NEW i \in Invoices, status[i] = "paid"
               PROVE  IF i \in StarInvoices
                      THEN \E p \in Payments :
                             paymentId[i] = p /\ pay[p].user = Owner[i] /\ pay[p].invoice = i
                      ELSE <<Owner[i], paymentId[i]>> \in sent
    BY DEF PaidByCustomer
  <2>1. CASE i \in StarInvoices
    BY <2>1 DEF IInv, StarInv, PaymentInv
  <2>2. CASE i \notin StarInvoices
    BY <2>2 DEF IInv, ReceiptInv, Invoices
  <2> QED
    BY <2>1, <2>2
<1> QED
  BY <1>1, Invariance, PTL

(* With one panel no step changes the verdict on an invoice.               *)
THEOREM FinalDecisions == Spec => DecisionIsFinal
<1> DEFINE Decided == OnePanel =>
             \A i \in Invoices :
               status[i] \in {"paid", "failed", "deleted"} => status'[i] \in {status[i], "deleted"}
<1>1. ASSUME IInv, [Next]_vars PROVE Decided
  <2> SUFFICES ASSUME OnePanel, NEW i \in Invoices,
                      status[i] \in {"paid", "failed", "deleted"}, status' # status
               PROVE  status'[i] \in {status[i], "deleted"}
    OBVIOUS
  <2>1. ASSUME NEW u \in Users, NEW ids, CreateInvoice(u, ids)
        PROVE  status'[i] = status[i]
    BY <2>1, <1>1 DEF CreateInvoice, IInv, TypeOK
  <2>2. ASSUME NEW p \in Payments, Payment(p)
        PROVE  status'[i] = status[i]
    <3>1. CASE ConfirmNewlyPaid(p)
      BY <3>1, <1>1 DEF ConfirmNewlyPaid, Confirmable, IInv, TypeOK
    <3>2. CASE status' = status
      BY <3>2
    <3> QED
      BY <3>1, <3>2, <2>2 DEF Payment, PreCheckout, ConfirmOther, CreditStars, AnswerPayment,
         PaymentRaises, PaymentLost
  <2>3. ASSUME NEW a \in Panels, ReviewWrites(a)
        PROVE  status'[i] = status[i]
    <3>1. status[review[a].invoice] = "pending"
      BY <1>1, <2>3 DEF ReviewWrites, IInv, ReviewInv
    <3>2. status \in [Invoices -> {"none", "pending", "paid", "failed", "deleted"}]
      BY <1>1 DEF IInv, TypeOK
    <3> QED
      BY <3>1, <3>2, <2>3 DEF ReviewWrites
  <2>4. ASSUME NEW a \in Panels, NEW u \in Users, DeleteUserCompletely(a, u)
        PROVE  status'[i] \in {status[i], "deleted"}
    BY <2>4 DEF DeleteUserCompletely
  <2>5. ASSUME NEW a \in Panels, Review(a)
        PROVE  status'[i] \in {status[i], "deleted"}
    BY <2>3, <2>4, <2>5 DEF Review, ReviewReads, CreditCard, NotifyInvoiceResult, ReviewRaises
  <2>6. ASSUME NEW u \in Users, NEW plan \in StarPlans, BillingPlanCallback(u, plan)
        PROVE  status'[i] = status[i]
    BY <2>1, <2>6 DEF BillingPlanCallback
  <2>7. ASSUME NEW u \in Users, BillingCardPlanCallback(u)
        PROVE  status'[i] = status[i]
    BY <2>1, <2>7 DEF BillingCardPlanCallback
  <2>8. CASE \/ \E u \in Users, r \in Receipts : AttachReads(u, r)
             \/ AttachWrites \/ AttachRaises \/ UNCHANGED vars
    BY <2>8 DEF AttachReads, AttachWrites, AttachRaises, vars
  <2> QED
    BY <1>1, <2>2, <2>5, <2>6, <2>7, <2>8 DEF Next
<1> QED
  BY <1>1, Invariance, PTL DEF Spec, DecisionIsFinal
=============================================================================
