--------------------------- MODULE PaymentService ---------------------------
(***************************************************************************)
(* The handlers of PaymentService and the PaymentRepository methods they   *)
(* call.  A handler is a sequence of statements of one session:            *)
(*                                                                         *)
(*   create_payment         load reference pending number insert           *)
(*                          [sync flush] commit                            *)
(*   update_payment         load reference reload write [sync flush] commit*)
(*   update_payment_status  load reference reload write sync flush commit  *)
(*   delete_payment         load reload write commit                       *)
(*                                                                         *)
(* sync and flush are _sync_booking_payment_state, which is how payments   *)
(* reach the bookings table.                                               *)
(***************************************************************************)
EXTENDS CrmSessions

CONSTANTS SeqLimit,       \* the first sequence number that outgrows %06d
          JoinedRefresh   \* whether refreshing a payment refreshes the booking
                          \* joined to it: up to the ORM, so a set of answers

ASSUME SeqLimitAssumption == SeqLimit \in Nat /\ SeqLimit >= 2
ASSUME JoinedRefreshAssumption == JoinedRefresh \subseteq BOOLEAN

Goto(s, step) == session' = [session EXCEPT ![s].step = step]

\* db.refresh(payment): what becomes of a booking object nobody has changed.
RefreshedBookings(s) ==
  {IF fresh THEN bookings[session[s].booking_id] ELSE session[s].loaded_booking :
     fresh \in JoinedRefresh}
----------------------------------------------------------------------------
(* create_payment, up to the INSERT.                                       *)

ValidateBooking(s) ==
  /\ At(s, "load")
  /\ Request(s).op = "create_payment"
  /\ LET b == Request(s).booking
     IN  /\ bookings[b] # Null
         /\ bookings[b].active
         /\ session' = [session EXCEPT ![s].step = "reference",
                                       ![s].booking_id = b,
                                       ![s].booking = bookings[b],
                                       ![s].loaded_booking = bookings[b]]
  /\ UNCHANGED <<bookings, payments, bookingSeq, clock>>

RejectBooking(s) ==
  /\ At(s, "load")
  /\ Request(s).op = "create_payment"
  /\ LET row == bookings[Request(s).booking] IN ~(row # Null /\ row.active)
  /\ Rollback(s)

\* Another active successful payment carries the reference.
DuplicateReference(s, reference, status) ==
  /\ reference # Null
  /\ status = "SUCCESS"
  /\ \E p \in Payments \ {session[s].payment_id} :
       /\ payments[p] # Null
       /\ payments[p].reference = reference
       /\ payments[p].status = "SUCCESS"
       /\ payments[p].active

\* update_payment looks at the reference only if the request supplies one;
\* update_payment_status looks at the one the payment was loaded with.
ReferenceTaken(s) ==
  LET r == Request(s) IN
  CASE r.op = "create_payment" -> DuplicateReference(s, r.reference, r.status)
    [] r.op = "update_payment" ->
         /\ "reference" \in DOMAIN r.set
         /\ DuplicateReference(s, r.set.reference,
                               Assigned(session[s].payment, r.set).status)
    [] r.op = "update_payment_status" ->
         DuplicateReference(s, session[s].payment.reference, r.set.status)

CheckReference(s) ==
  /\ At(s, "reference")
  /\ ~ReferenceTaken(s)
  /\ Goto(s, IF Request(s).op = "create_payment" THEN "pending" ELSE "reload")
  /\ UNCHANGED <<bookings, payments, bookingSeq, clock>>

RejectReference(s) == /\ At(s, "reference")
                      /\ ReferenceTaken(s)
                      /\ Rollback(s)

\* The amount and the type against the balance: booking_amount and
\* payment_status as loaded, the total paid as of now.
AmountAccepted(r, booking, paid) ==
  LET pending == booking.amount - paid IN
  IF r.type = "REFUND"
  THEN paid > 0
  ELSE /\ r.amount <= pending
       /\ r.type \in {"TOKEN", "ADVANCE"} => booking.payment_status = "PENDING"
       /\ r.type = "INSTALLMENT" =>
            booking.payment_status \in {"PENDING", "PARTIALLY_PAID"}
       /\ r.type = "FULL_PAYMENT" => r.amount = pending

\* Mutant: the session does not see its own flushed payment.
Balance_Committed(s) == TotalPaid(payments, session[s].booking_id)

Balance(s) == TotalPaid(VisiblePayments(s), session[s].booking_id)

CheckAmount(s) ==
  /\ At(s, "pending")
  /\ AmountAccepted(Request(s), session[s].booking, Balance(s))
  /\ Goto(s, "number")
  /\ UNCHANGED <<bookings, payments, bookingSeq, clock>>

RejectAmount(s) ==
  /\ At(s, "pending")
  /\ ~AmountAccepted(Request(s), session[s].booking, Balance(s))
  /\ Rollback(s)
----------------------------------------------------------------------------
(* Payment numbers are PAY-<year>-<sequence>.  The year is the one the     *)
(* server's clock shows when the number is generated, so two servers, or   *)
(* two requests around New Year, may be at different years.  The last      *)
(* number of a year is the greatest as a string; the sequence is padded to *)
(* the width of SeqLimit - 1.                                              *)

NumbersOf(year) ==
  {payments[p].number :
     p \in {q \in Payments : payments[q] # Null /\ payments[q].year = year}}

SortsUpTo(m, n) ==
  \/ m <= n /\ (m < SeqLimit <=> n < SeqLimit)
  \/ m < SeqLimit /\ n >= SeqLimit /\ m <= n \div 10
  \/ m >= SeqLimit /\ n < SeqLimit /\ m \div 10 < n

\* Mutant: the last number is looked for in all years.
LastNumber_AllYears(year) ==
  LET numbers == UNION {NumbersOf(y) : y \in Years}
  IN  IF numbers = {} THEN 0
      ELSE CHOOSE n \in numbers : \A m \in numbers : SortsUpTo(m, n)

LastNumber(year) ==
  IF NumbersOf(year) = {} THEN 0
  ELSE CHOOSE n \in NumbersOf(year) : \A m \in NumbersOf(year) : SortsUpTo(m, n)

\* Mutant: numbers are drawn from a sequence, as booking numbers are.
GeneratePaymentNumber_Sequence(s) ==
  /\ At(s, "number")
  /\ bookingSeq' = bookingSeq + 1
  /\ \E year \in Years :
       session' = [session EXCEPT ![s].step = "insert", ![s].year = year,
                                  ![s].number = bookingSeq']
  /\ UNCHANGED <<bookings, payments, clock>>

GeneratePaymentNumber(s) ==
  /\ At(s, "number")
  /\ \E year \in Years :
       session' = [session EXCEPT ![s].step = "insert", ![s].year = year,
                                  ![s].number = LastNumber(year) + 1]
  /\ UNCHANGED <<bookings, payments, bookingSeq, clock>>

\* The INSERT waits for a transaction that has inserted the same number, its
\* year included, and not ended, and fails if the number is committed.
NumberInFlight_NotUnique(s) == FALSE  \* Mutant: the index is not unique.

NumberInFlight(s) ==
  \E t \in Sessions \ {s}, p \in Payments :
    /\ HoldsPayment(t, p)
    /\ session[t].payment.year = session[s].year
    /\ session[t].payment.number = session[s].number

NumberCommitted(s) == session[s].number \in NumbersOf(session[s].year)

NewPayment(s) ==
  LET r == Request(s)
  IN  [booking |-> r.booking, year |-> session[s].year,
       number |-> session[s].number, amount |-> r.amount,
       status |-> r.status, reference |-> r.reference, active |-> TRUE]

InsertPayment(s) ==
  /\ At(s, "insert")
  /\ ~NumberCommitted(s)
  /\ ~NumberInFlight(s)
  /\ \E p \in Payments, booking \in RefreshedBookings(s) :
       /\ payments[p] = Null
       /\ PaymentFree(s, p)
       /\ session' = [session EXCEPT
            ![s].step = IF Request(s).status = "SUCCESS" THEN "sync" ELSE "commit",
            ![s].payment_id = p,
            ![s].payment = NewPayment(s),
            ![s].booking = booking,
            ![s].loaded_booking = booking]
  /\ UNCHANGED <<bookings, payments, bookingSeq, clock>>

NumberConflict(s) == /\ At(s, "insert")
                     /\ NumberCommitted(s)
                     /\ Rollback(s)
----------------------------------------------------------------------------
(* update_payment, update_payment_status and delete_payment, up to the     *)
(* UPDATE.  set is the columns the request assigns: status, or active for  *)
(* delete_payment, or the supplied fields of update_payment.  The amount   *)
(* stands for amount, mode and type, which are restricted together.        *)

AcceptedChange(row, r) ==
  CASE r.op = "update_payment" ->
         /\ row.status \in {"SUCCESS", "REFUNDED"} => "amount" \notin DOMAIN r.set
         /\ Allowed(PaymentTransitions, row.status, Assigned(row, r.set).status)
    [] r.op = "update_payment_status" ->
         Allowed(PaymentTransitions, row.status, r.set.status)
    [] r.op = "delete_payment" -> row.status # "SUCCESS"

PaymentFound(p) == payments[p] # Null /\ payments[p].active

\* The booking is loaded with its payment: the relationship is joined.
LoadPayment(s) ==
  /\ At(s, "load")
  /\ Request(s).op \in PaymentOps
  /\ LET p == Request(s).payment
     IN  /\ PaymentFound(p)
         /\ AcceptedChange(payments[p], Request(s))
         /\ LET b == payments[p].booking
            IN  session' = [session EXCEPT
                  ![s].step = IF Request(s).op \in ModifyOps
                              THEN "reference" ELSE "reload",
                  ![s].payment_id = p,
                  ![s].payment = payments[p],
                  ![s].loaded_payment = payments[p],
                  ![s].booking_id = b,
                  ![s].booking = bookings[b],
                  ![s].loaded_booking = bookings[b]]
  /\ UNCHANGED <<bookings, payments, bookingSeq, clock>>

RejectPayment(s) ==
  /\ At(s, "load")
  /\ Request(s).op \in PaymentOps
  /\ LET p == Request(s).payment
     IN  ~(PaymentFound(p) /\ AcceptedChange(payments[p], Request(s)))
  /\ Rollback(s)

\* The repository selects the payment again: it must still be active, but
\* the object keeps the values it was loaded with.
ReloadPayment(s) ==
  /\ At(s, "reload")
  /\ IF PaymentFound(session[s].payment_id)
     THEN /\ Goto(s, "write")
          /\ UNCHANGED <<bookings, payments, bookingSeq, clock>>
     ELSE Rollback(s)

\* flush and refresh.  Nothing is written, and no lock is taken, if the
\* request assigns the loaded values.
UpdatePayment(s) ==
  /\ At(s, "write")
  /\ LET p      == session[s].payment_id
         object == Assigned(session[s].payment, Request(s).set)
         row    == Written(payments[p], session[s].loaded_payment, object)
         dirty  == object # session[s].loaded_payment
     IN  /\ dirty => PaymentFree(s, p)
         /\ \E booking \in RefreshedBookings(s) : session' = [session EXCEPT
              ![s].step = IF \/ Request(s).op = "update_payment_status"
                             \/ /\ Request(s).op = "update_payment"
                                /\ row.status \in {"SUCCESS", "REFUNDED"}
                          THEN "sync" ELSE "commit",
              ![s].payment = row,
              ![s].loaded_payment = IF dirty THEN @ ELSE row,
              ![s].booking = booking,
              ![s].loaded_booking = booking]
  /\ UNCHANGED <<bookings, payments, bookingSeq, clock>>
----------------------------------------------------------------------------
(* _sync_booking_payment_state: the total paid is read now, the booking    *)
(* was read when the request was validated.                                *)

\* Mutant: a booking whose payments are all refunded keeps its payment status.
Synced_NeverReset(booking, paid) ==
  IF paid <= 0 THEN booking
  ELSE LET state == PaymentStatusOf(paid, booking.amount)
       IN  [booking EXCEPT !.payment_status = state,
                           !.status = IF state = "PAID" THEN "COMPLETED" ELSE @]

\* Mutant: only a confirmed booking is completed.
Synced_OnlyConfirmed(booking, paid) ==
  LET state == PaymentStatusOf(paid, booking.amount)
  IN  [booking EXCEPT !.payment_status = state,
                      !.status = IF state = "PAID" /\ @ = "CONFIRMED"
                                 THEN "COMPLETED" ELSE @]

Synced(booking, paid) ==
  LET state == PaymentStatusOf(paid, booking.amount)
  IN  [booking EXCEPT !.payment_status = state,
                      !.status = IF state = "PAID" THEN "COMPLETED" ELSE @]

SyncBooking(s) ==
  /\ At(s, "sync")
  /\ session' = [session EXCEPT ![s].step = "flush",
                                ![s].booking = Synced(@, Balance(s))]
  /\ UNCHANGED <<bookings, payments, bookingSeq, clock>>

FlushBooking(s) ==
  /\ At(s, "flush")
  /\ LET b     == session[s].booking_id
         row   == Written(bookings[b], session[s].loaded_booking, session[s].booking)
         dirty == session[s].booking # session[s].loaded_booking
     IN  /\ dirty => BookingFree(s, b)
         /\ session' = [session EXCEPT
              ![s].step = "commit",
              ![s].booking = row,
              ![s].loaded_booking = IF dirty THEN @ ELSE row]
  /\ UNCHANGED <<bookings, payments, bookingSeq, clock>>

PaymentServiceNext(s) ==
  \/ ValidateBooking(s)
  \/ RejectBooking(s)
  \/ CheckReference(s)
  \/ RejectReference(s)
  \/ CheckAmount(s)
  \/ RejectAmount(s)
  \/ GeneratePaymentNumber(s)
  \/ InsertPayment(s)
  \/ NumberConflict(s)
  \/ LoadPayment(s)
  \/ RejectPayment(s)
  \/ ReloadPayment(s)
  \/ UpdatePayment(s)
  \/ SyncBooking(s)
  \/ FlushBooking(s)
  \/ Commit(s)
============================================================================
