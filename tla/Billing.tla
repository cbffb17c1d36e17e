------------------------------ MODULE Billing ------------------------------
(***************************************************************************)
(* What lessons cost and what has been paid: the handlers of phase5.py,    *)
(* on the lessons of LessonSchedule.  The pricing handlers read the lesson *)
(* without a lock; allocations and voids lock the payment, not the lesson. *)
(***************************************************************************)
EXTENDS LessonSchedule

CONSTANTS
  Payments,    \* the payments that may be recorded
  Amounts,     \* cents paid, allocated, or set as a receivable
  NoPayment    \* the request holds no payment

ASSUME BillingAssumption ==
  /\ IsFiniteSet(Payments) /\ NoPayment \notin Payments
  /\ Amounts \subseteq Nat \ {0}

VARIABLES
  payments,     \* amount and void mark of the rows; amount 0: not recorded
  allocations,  \* cents of each payment allocated to each lesson; 0: no row
  paying        \* the payment a request has locked, and what it has read since

paymentVars == <<payments, allocations, paying>>
billingVars == <<scheduleVars, paymentVars>>

PaymentRows == [amount: Nat, voided: BOOLEAN]
Paying == [payment: Payments \cup {NoPayment}, lesson: Lessons \cup {NoLesson}, allocated: Nat,
           voided: BOOLEAN]

BillingTypeOK ==
  /\ ScheduleTypeOK
  /\ payments \in [Payments -> PaymentRows]
  /\ allocations \in [Payments -> [Lessons -> Nat]]
  /\ paying \in [Requests -> Paying]

NotPaying == [payment |-> NoPayment, lesson |-> NoLesson, allocated |-> 0, voided |-> FALSE]

BillingInit ==
  /\ ScheduleInit
  /\ payments = [p \in Payments |-> [amount |-> 0, voided |-> FALSE]]
  /\ allocations = [p \in Payments |-> [l \in Lessons |-> 0]]
  /\ paying = [r \in Requests |-> NotPaying]

Allocated(p) == MapThenSumSet(LAMBDA l : allocations[p][l], Lessons)
-----------------------------------------------------------------------------
(* Prices and receivables.                                                 *)

Billable(r) == reads[r].stage = "lesson" /\ reads[r].row.status # "RESCHEDULED"

UpdateLessonPricing(r, price) ==
  /\ Billable(r)
  /\ WriteLesson(r, Refreshed([reads[r].row EXCEPT !.price = price, !.overridden = FALSE]), None)
  /\ UNCHANGED paymentVars

OverrideReceivable(r, amount) ==
  /\ Billable(r)
  /\ WriteLesson(r, [reads[r].row EXCEPT !.receivable = amount, !.overridden = TRUE], None)
  /\ UNCHANGED paymentVars

ResetReceivable(r) ==
  /\ reads[r].stage = "lesson"
  /\ reads[r].row.overridden
  /\ WriteLesson(r, Refreshed([reads[r].row EXCEPT !.overridden = FALSE]), None)
  /\ UNCHANGED paymentVars
-----------------------------------------------------------------------------
(* Payments and allocations.                                               *)

\* create_payment, with no allocation or one to the lesson the request has read.
CreatePayment(r, p, amount, part) ==
  /\ IF part = 0 THEN reads[r].stage = "idle" ELSE Billable(r)
  /\ payments[p].amount = 0
  /\ part <= amount
  /\ payments' = [payments EXCEPT ![p].amount = amount]
  /\ allocations' = IF part = 0 THEN allocations
                    ELSE [allocations EXCEPT ![p][reads[r].lesson] = part]
  /\ Done(r)
  /\ UNCHANGED <<students, subjects, links, lessons, overlapped, paying>>

\* Mutant: the payment is read without FOR UPDATE.
PaymentRead(p) == payments[p].amount > 0

\* owned_payment(for_update).
PaymentLocked(p) == payments[p].amount > 0 /\ \A r \in Requests : paying[r].payment # p

\* add_payment_allocation, or void_payment with NoLesson: the lock and the reads after
\* it.  The lesson is not locked and may be rescheduled before the commit.
LockPayment(r, p, l) ==
  /\ reads[r].stage = "idle"
  /\ PaymentLocked(p)
  /\ l # NoLesson => lessons[l].status \notin {"ABSENT", "RESCHEDULED"} /\ allocations[p][l] = 0
  /\ paying' = [paying EXCEPT ![r] = [payment |-> p, lesson |-> l, allocated |-> Allocated(p),
                                      voided |-> payments[p].voided]]
  /\ reads' = [reads EXCEPT ![r].stage = "paying"]
  /\ UNCHANGED <<students, subjects, links, lessons, overlapped, payments, allocations>>

EndPayment(r) ==
  /\ paying' = [paying EXCEPT ![r] = NotPaying]
  /\ Done(r)
  /\ UNCHANGED <<students, subjects, links, lessons, overlapped>>

\* UNIQUE (payment_id, lesson_id).
AddAllocation(r, amount) ==
  LET p == paying[r].payment
      l == paying[r].lesson
  IN
  /\ p # NoPayment /\ l # NoLesson
  /\ ~paying[r].voided
  /\ allocations[p][l] = 0
  /\ paying[r].allocated + amount <= payments[p].amount
  /\ allocations' = [allocations EXCEPT ![p][l] = amount]
  /\ EndPayment(r)
  /\ UNCHANGED payments

VoidPayment(r) ==
  LET p == paying[r].payment IN
  /\ p # NoPayment /\ paying[r].lesson = NoLesson
  /\ ~paying[r].voided
  /\ payments' = [payments EXCEPT ![p].voided = TRUE]
  /\ EndPayment(r)
  /\ UNCHANGED allocations

RefusePayment(r) ==
  /\ paying[r].payment # NoPayment
  /\ EndPayment(r)
  /\ UNCHANGED <<payments, allocations>>
-----------------------------------------------------------------------------
(* What the lists, the summary and the dashboard show, for a period that   *)
(* holds every lesson and payment.                                         *)

\* active_allocation_map.
Paid(l) ==
  MapThenSumSet(LAMBDA p : IF payments[p].voided THEN 0 ELSE allocations[p][l], Payments)

\* billing_rows: an overpaid lesson does not pay for another one.
Outstanding(l) == LET due == lessons[l].receivable - Paid(l) IN IF due > 0 THEN due ELSE 0

\* summary_response.
Summary ==
  LET active == {l \in Lessons : lessons[l].status \in {"PLANNED", "COMPLETED"}}
      valid == {p \in Payments : ~payments[p].voided}
  IN  [receivable  |-> MapThenSumSet(LAMBDA l : lessons[l].receivable, active),
       outstanding |-> MapThenSumSet(Outstanding, active),
       received    |-> MapThenSumSet(LAMBDA p : payments[p].amount, valid)]
-----------------------------------------------------------------------------
BillingNext ==
  \/ ScheduleNext /\ UNCHANGED paymentVars
  \/ \E r \in Requests :
       \/ ResetReceivable(r) \/ VoidPayment(r) \/ RefusePayment(r)
       \/ \E price \in Prices : UpdateLessonPricing(r, price)
       \/ \E p \in Payments, l \in Lessons \cup {NoLesson} : LockPayment(r, p, l)
       \/ \E amount \in Amounts :
            \/ OverrideReceivable(r, amount)
            \/ AddAllocation(r, amount)
            \/ \E p \in Payments, part \in {0} \cup Amounts : CreatePayment(r, p, amount, part)

BillingSpec == BillingInit /\ [][BillingNext]_billingVars
-----------------------------------------------------------------------------
\* A payment is never allocated beyond its amount, however many requests allocate it
\* at once (phase5.py:385-413, docs/phase5-billing.md:20).
AllocatedWithinPayment == \A p \in Payments : Allocated(p) <= payments[p].amount

\* The summary never hides a debt: what is shown as outstanding is at least what the
\* lessons cost less what has been received and not voided, however the payments are
\* spread over the lessons and whatever became of a lesson after it was paid
\* (phase5.py:454-513, phase5_service.py:61-80, docs/phase5-billing.md:22).
SummaryHidesNoDebt == Summary.outstanding >= Summary.receivable - Summary.received

\* The ledger agrees with itself: rows, allocations and the sums that are shown.
LedgerAgrees == BillingTypeOK /\ AllocatedWithinPayment /\ SummaryHidesNoDebt

\* A receivable nobody has overridden is the price of the minutes taught, or planned,
\* to the nearest cent, and nothing for a lesson that does not take place; after any
\* sequence of edits, completions and overrides that did not overlap
\* (phase5_service.py:22-45, docs/phase5-billing.md:10-12).
ReceivableFollowsRules ==
  \A l \in Lessons \ overlapped :
    LET row == lessons[l]
        exact == row.price * (IF row.status = "COMPLETED" THEN row.actual ELSE row.planned)
    IN  /\ row.status = "RESCHEDULED" => ~row.overridden
        /\ ~row.overridden /\ row.status \in {"PLANNED", "COMPLETED"} =>
             2 * (60 * row.receivable - exact) \in -59 .. 60
        /\ ~row.overridden /\ row.status \in {"CANCELED", "RESCHEDULED"} => row.receivable = 0

\* A lesson that was canceled or rescheduled is owed nothing by default, that is, as
\* long as nobody has set its receivable (docs/phase5-billing.md:12, phase5_service.py:34).
\* Stated, and false of two requests: a price may be computed before the cancellation.
EndedCostsNothing ==
  \A l \in Lessons :
    lessons[l].status \in {"CANCELED", "RESCHEDULED"} /\ ~lessons[l].overridden =>
      lessons[l].receivable = 0
=============================================================================
