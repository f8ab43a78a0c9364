-------------------------------- MODULE Billing --------------------------------
(***************************************************************************)
(* Buying messages: bot/services/billing_service.py, the payment handlers  *)
(* of bot/handlers.py and the invoice review of bot/admin.                 *)
(*                                                                         *)
(* Marking an invoice paid and granting its messages are two database      *)
(* sessions, and a failure or a crash can fall between them.  A panel      *)
(* process reviews one invoice at a time; it may be the bot's own process  *)
(* or another one, so a review is taken to interleave with the bot, and    *)
(* its session reads the row in one step and writes it in another.         *)
(***************************************************************************)
EXTENDS Naturals

CONSTANTS
  Users,
  StarInvoices,  \* invoices of Stars plans
  CardInvoices,  \* invoices of card plans, natural numbers in the order of created_at
  Owner,         \* the user an invoice is made for
  StarPlans, CardPlans,
  Payments,      \* Telegram's charge ids, each new
  Receipts,      \* references a user can send: a text, a photo, a document
  Panels,        \* processes that serve the admin panel
  Attempts,      \* attempts of the worker at a successful_payment update
  None

Invoices == StarInvoices \cup CardInvoices

ASSUME BillingAssumption ==
  /\ CardInvoices \subseteq Nat
  /\ StarInvoices \cap CardInvoices = {}
  /\ Owner \in [Invoices -> Users]
  /\ None \notin Payments \cup Receipts \cup Invoices
  /\ Payments \cap Receipts = {}
  /\ Attempts \in Nat \ {0}

VARIABLES
  status,     \* an invoice: none yet, pending, paid, failed, deleted
  paymentId,  \* its payment_id column
  credits,    \* how often its message_quota was granted
  refused,    \* plans whose button was answered with "not a valid plan"
  pay,        \* a Stars payment on its way through Telegram and the worker
  sent,       \* receipts and who sent them
  attaching,  \* the receipt that attach_card_receipt is about to write
  review,     \* what a panel process is doing
  result      \* what notify_invoice_result told the owner of an invoice

vars == <<status, paymentId, credits, refused, pay, sent, attaching, review, result>>
invoiceVars == <<status, paymentId, credits>>

NoPayment == [at |-> "unused", user |-> None, invoice |-> None, attempt |-> 1, told |-> "nothing"]
NotAttaching == [invoice |-> None, ref |-> None]
NoReview == [at |-> "idle", invoice |-> None, approve |-> FALSE]

(* A Stars invoice can only be one of an earlier release: see the button   *)
(* of a Stars plan below.                                                  *)
Init ==
  /\ status \in {s \in [Invoices -> {"none", "pending"}] : \A i \in CardInvoices : s[i] = "none"}
  /\ paymentId = [i \in Invoices |-> None]
  /\ credits = [i \in Invoices |-> 0]
  /\ refused = {}
  /\ pay = [p \in Payments |-> NoPayment]
  /\ sent = {}
  /\ attaching = NotAttaching
  /\ review = [a \in Panels |-> NoReview]
  /\ result = [i \in Invoices |-> {}]

(* The event loop is not inside attach_card_receipt. *)
Loop == attaching = NotAttaching

-----------------------------------------------------------------------------
(* The plan buttons.  Callback data is a prefix and what follows it, and   *)
(* get_plan knows the plan ids.                                            *)
RemovePrefix(data, prefix) == IF data[1] = prefix THEN data[2] ELSE data
GetPlan(id) == id \in StarPlans \cup CardPlans

(* create_invoice; a Stars and a card invoice differ in their plan only *)
CreateInvoice(u, ids) ==
  \E i \in ids :
    /\ status[i] = "none" /\ Owner[i] = u
    /\ \A j \in ids \cap CardInvoices : status[j] = "none" /\ Owner[j] = u => i <= j
    /\ status' = [status EXCEPT ![i] = "pending"]

(* billing_plan_callback looks for the prefix of the card plans *)
BillingPlanCallback(u, plan) ==
  /\ Loop
  /\ IF GetPlan(RemovePrefix(<<"billing:plan:", plan>>, "billing:card_plan:"))
     THEN CreateInvoice(u, StarInvoices) /\ UNCHANGED refused
     ELSE refused' = refused \cup {plan} /\ UNCHANGED status
  /\ UNCHANGED <<paymentId, credits, pay, sent, attaching, review, result>>

BillingCardPlanCallback(u) ==
  /\ Loop
  /\ CreateInvoice(u, CardInvoices)
  /\ UNCHANGED <<paymentId, credits, refused, pay, sent, attaching, review, result>>

-----------------------------------------------------------------------------
(* Stars: pre_checkout_handler lets Telegram charge the user.  Nothing      *)
(* stops a second checkout before the first payment is confirmed.          *)
CanCheckout(u, i) == Owner[i] = u /\ status[i] = "pending"

PreCheckout(p, u, i) ==
  /\ Loop
  /\ pay[p].at = "unused"
  /\ CanCheckout(u, i)
  /\ pay' = [pay EXCEPT ![p].at = "charged", ![p].user = u, ![p].invoice = i]
  /\ UNCHANGED <<status, paymentId, credits, refused, sent, attaching, review, result>>

(* mutant: a paid invoice can be paid again *)
ConfirmableAnyStatus(p) == Owner[pay[p].invoice] = pay[p].user

(* confirm_successful_stars_payment, the first session of the handler *)
Confirmable(p) ==
  /\ \A j \in Invoices \ {pay[p].invoice} : paymentId[j] # p
  /\ Owner[pay[p].invoice] = pay[p].user
  /\ status[pay[p].invoice] = "pending"

ConfirmNewlyPaid(p) ==
  /\ Loop
  /\ pay[p].at = "charged"
  /\ Confirmable(p)
  /\ status' = [status EXCEPT ![pay[p].invoice] = "paid"]
  /\ paymentId' = [paymentId EXCEPT ![pay[p].invoice] = p]
  /\ pay' = [pay EXCEPT ![p].at = "crediting"]
  /\ UNCHANGED <<credits, refused, sent, attaching, review, result>>

ConfirmOther(p) ==
  /\ Loop
  /\ pay[p].at = "charged"
  /\ ~Confirmable(p)
  /\ pay' = [pay EXCEPT ![p].at =
               IF status[pay[p].invoice] = "paid" THEN "already added" ELSE "invalid invoice"]
  /\ UNCHANGED <<status, paymentId, credits, refused, sent, attaching, review, result>>

(* add_extra_credit, the second session *)
CreditStars(p) ==
  /\ pay[p].at = "crediting"
  /\ credits' = [credits EXCEPT ![pay[p].invoice] = @ + 1]
  /\ pay' = [pay EXCEPT ![p].at = "added"]
  /\ UNCHANGED <<status, paymentId, refused, sent, attaching, review, result>>

AnswerPayment(p) ==
  /\ pay[p].at \in {"added", "already added", "invalid invoice"}
  /\ pay' = [pay EXCEPT ![p].told = pay[p].at, ![p].at = "ended"]
  /\ UNCHANGED <<status, paymentId, credits, refused, sent, attaching, review, result>>

(* mutant: no bound on the attempts *)
PaymentRaisesUnbounded(p) ==
  /\ pay[p].at \notin {"unused", "ended"}
  /\ pay' = [pay EXCEPT ![p].at = "charged", ![p].attempt = @ + 1]
  /\ UNCHANGED <<status, paymentId, credits, refused, sent, attaching, review, result>>

(* A session or the answer raises: the worker hands the update out again. *)
PaymentRaises(p) ==
  /\ pay[p].at \notin {"unused", "ended"}
  /\ pay[p].attempt < Attempts
  /\ pay' = [pay EXCEPT ![p].at = "charged", ![p].attempt = @ + 1]
  /\ UNCHANGED <<status, paymentId, credits, refused, sent, attaching, review, result>>

(* The last attempt raises, the process crashes, or Telegram cannot charge. *)
PaymentLost(p) ==
  /\ pay[p].at \notin {"unused", "ended"}
  /\ pay' = [pay EXCEPT ![p].at = "ended"]
  /\ UNCHANGED <<status, paymentId, credits, refused, sent, attaching, review, result>>

-----------------------------------------------------------------------------
(* Card: attach_card_receipt takes the newest pending invoice of the user. *)
LatestPendingCardInvoice(u, i) ==
  /\ i \in CardInvoices /\ Owner[i] = u /\ status[i] = "pending"
  /\ \A j \in CardInvoices : Owner[j] = u /\ status[j] = "pending" => j <= i

AttachReads(u, r) ==
  /\ Loop
  /\ \E i \in CardInvoices :
       /\ LatestPendingCardInvoice(u, i)
       /\ attaching' = [invoice |-> i, ref |-> r]
  /\ sent' = sent \cup {<<u, r>>}
  /\ UNCHANGED <<status, paymentId, credits, refused, pay, review, result>>

(* The row's other columns are not written again.  A row that was deleted  *)
(* in between, or a reference another invoice has (the column is unique),  *)
(* raises, as often as the worker tries it.                                *)
AttachWrites ==
  LET i == attaching.invoice
  IN /\ ~Loop
     /\ status[i] # "deleted" /\ \A j \in Invoices \ {i} : paymentId[j] # attaching.ref
     /\ paymentId' = [paymentId EXCEPT ![i] = attaching.ref]
     /\ attaching' = NotAttaching
     /\ UNCHANGED <<status, credits, refused, pay, sent, review, result>>

AttachRaises ==
  /\ ~Loop
  /\ attaching' = NotAttaching
  /\ UNCHANGED <<status, paymentId, credits, refused, pay, sent, review, result>>

-----------------------------------------------------------------------------
(* The panel's invoice page has its buttons where a receipt is attached to *)
(* a pending invoice; it may have been loaded long before it is clicked.   *)
(* review_invoice's own demand for a receipt is met then, and              *)
(* review_card_invoice never has to invent a payment_id.                   *)
Offered(i) == i \in CardInvoices /\ paymentId[i] # None

Reviewing(a, at) == review' = [review EXCEPT ![a].at = at]

(* mutant: an invoice can be reviewed again *)
ReviewReadsAgain(a, i, approve) ==
  /\ review[a].at = "idle"
  /\ Offered(i)
  /\ review' = [review EXCEPT ![a] = [at |-> "writing", invoice |-> i, approve |-> approve]]
  /\ UNCHANGED <<status, paymentId, credits, refused, pay, sent, attaching, result>>

ReviewReads(a, i, approve) ==
  /\ review[a].at = "idle"
  /\ Offered(i)
  /\ review' = [review EXCEPT ![a] =
       [at |-> IF status[i] = "pending" THEN "writing" ELSE "telling",
        invoice |-> i, approve |-> approve]]
  /\ UNCHANGED <<status, paymentId, credits, refused, pay, sent, attaching, result>>

ReviewWrites(a) ==
  /\ review[a].at = "writing"
  /\ status[review[a].invoice] # "deleted"
  /\ status' = [status EXCEPT ![review[a].invoice] = IF review[a].approve THEN "paid" ELSE "failed"]
  /\ Reviewing(a, IF review[a].approve THEN "crediting" ELSE "telling")
  /\ UNCHANGED <<paymentId, credits, refused, pay, sent, attaching, result>>

CreditCard(a) ==
  /\ review[a].at = "crediting"
  /\ credits' = [credits EXCEPT ![review[a].invoice] = @ + 1]
  /\ Reviewing(a, "telling")
  /\ UNCHANGED <<status, paymentId, refused, pay, sent, attaching, result>>

(* An invoice that was reviewed before is accepted too, and its owner told *)
(* what this click asked for.                                              *)
NotifyInvoiceResult(a) ==
  /\ review[a].at = "telling"
  /\ result' = [result EXCEPT ![review[a].invoice] =
                  @ \cup {IF review[a].approve THEN "approved" ELSE "rejected"}]
  /\ review' = [review EXCEPT ![a] = NoReview]
  /\ UNCHANGED <<status, paymentId, credits, refused, pay, sent, attaching>>

(* A session or Telegram raises, or the process ends. *)
ReviewRaises(a) ==
  /\ review[a].at # "idle"
  /\ review' = [review EXCEPT ![a] = NoReview]
  /\ UNCHANGED <<status, paymentId, credits, refused, pay, sent, attaching, result>>

(* delete_user_completely: the user's invoices and quota events go *)
DeleteUserCompletely(a, u) ==
  /\ review[a].at = "idle"
  /\ status' = [i \in Invoices |->
                  IF Owner[i] = u /\ status[i] # "none" THEN "deleted" ELSE status[i]]
  /\ paymentId' = [i \in Invoices |-> IF Owner[i] = u THEN None ELSE paymentId[i]]
  /\ credits' = [i \in Invoices |-> IF Owner[i] = u THEN 0 ELSE credits[i]]
  /\ UNCHANGED <<refused, pay, sent, attaching, review, result>>

-----------------------------------------------------------------------------
Payment(p) ==
  \/ \E u \in Users, i \in StarInvoices : PreCheckout(p, u, i)
  \/ ConfirmNewlyPaid(p) \/ ConfirmOther(p) \/ CreditStars(p)
  \/ AnswerPayment(p) \/ PaymentRaises(p) \/ PaymentLost(p)

Review(a) ==
  \/ \E i \in CardInvoices, approve \in BOOLEAN : ReviewReads(a, i, approve)
  \/ ReviewWrites(a) \/ CreditCard(a) \/ NotifyInvoiceResult(a) \/ ReviewRaises(a)
  \/ \E u \in Users : DeleteUserCompletely(a, u)

Next ==
  \/ \E u \in Users, plan \in StarPlans : BillingPlanCallback(u, plan)
  \/ \E u \in Users : BillingCardPlanCallback(u)
  \/ \E p \in Payments : Payment(p)
  \/ \E u \in Users, r \in Receipts : AttachReads(u, r)
  \/ AttachWrites \/ AttachRaises
  \/ \E a \in Panels : Review(a)

Spec == Init /\ [][Next]_vars

-----------------------------------------------------------------------------
PayRecord ==
  [at : {"unused", "charged", "crediting", "added", "already added", "invalid invoice", "ended"},
   user : Users \cup {None}, invoice : StarInvoices \cup {None}, attempt : 1 .. Attempts,
   told : {"nothing", "added", "already added", "invalid invoice"}]

ReviewRecord ==
  [at : {"idle", "writing", "crediting", "telling"},
   invoice : CardInvoices \cup {None}, approve : BOOLEAN]

TypeOK ==
  /\ status \in [Invoices -> {"none", "pending", "paid", "failed", "deleted"}]
  /\ paymentId \in [Invoices -> Payments \cup Receipts \cup {None}]
  /\ credits \in [Invoices -> Nat]
  /\ refused \subseteq StarPlans
  /\ pay \in [Payments -> PayRecord]
  /\ sent \subseteq Users \X Receipts
  /\ attaching \in [invoice : CardInvoices \cup {None}, ref : Receipts \cup {None}]
  /\ review \in [Panels -> ReviewRecord]
  /\ result \in [Invoices -> SUBSET {"approved", "rejected"}]

(* The panel mounted in the bot is the only process that serves it. *)
OnePanel == \A a, b \in Panels : a = b

(* No invoice is credited twice, however often a payment is handed out     *)
(* again, a second payment arrives or a review is repeated.  Two panel     *)
(* processes could both read a pending row and credit a card invoice each. *)
CreditedOnce ==
  /\ \A i \in StarInvoices : credits[i] <= 1
  /\ OnePanel => \A i \in CardInvoices : credits[i] <= 1

(* A credited invoice is paid, and stays paid: no review overturns another. *)
CreditedMeansPaid ==
  OnePanel => \A i \in Invoices : credits[i] > 0 => status[i] \in {"paid", "deleted"}

(* An invoice is paid on evidence of its own customer: a Stars payment of  *)
(* that user for that invoice, or a receipt that user sent.                *)
PaidByCustomer ==
  \A i \in Invoices : status[i] = "paid" =>
    IF i \in StarInvoices
    THEN \E p \in Payments : paymentId[i] = p /\ pay[p].user = Owner[i] /\ pay[p].invoice = i
    ELSE <<Owner[i], paymentId[i]>> \in sent

(* What was decided about an invoice is not decided again. *)
DecisionIsFinal ==
  [][ OnePanel =>
      \A i \in Invoices :
        status[i] \in {"paid", "failed", "deleted"} => status'[i] \in {status[i], "deleted"} ]_vars

-----------------------------------------------------------------------------
(* successful_payment_handler, "this payment was registered before and its *)
(* capacity had been added".                                               *)
AlreadyAddedIsTrue ==
  \A p \in Payments : pay[p].told = "already added" => credits[pay[p].invoice] > 0
===============================================================================
