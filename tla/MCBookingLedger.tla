-------------------------- MODULE MCBookingLedger --------------------------
(***************************************************************************)
(* Instances of BookingLedger for TLC: request sets and initial bookings.  *)
(***************************************************************************)
EXTENDS BookingLedger, TLC

CONSTANTS b1, b2, p1, p2, p3, s1, s2, s3, pair1, agent1, ref1, y1, y2

BookingSymmetry == Permutations(Sessions)
CreateSymmetry ==
  Permutations(Sessions) \cup Permutations(Payments) \cup Permutations(Years)
SequentialSymmetry ==
  Permutations(Bookings \ {b1}) \cup Permutations(Payments) \cup Permutations(Years)

\* The behaviours of Spec in which YearsApart always holds.
ApartSpec == Init /\ [][Next /\ YearsApart']_vars

NewBooking(amount) ==
  [pair |-> pair1, number |-> 0, created |-> 0, amount |-> amount, token |-> 0,
   status |-> "PENDING", payment_status |-> "PENDING", agent |-> Null,
   active |-> TRUE]

OneBooking(amount) ==
  [b \in Bookings |-> IF b = b1 THEN NewBooking(amount) ELSE Null]
OneBooking2 == OneBooking(2)
OneBooking3 == OneBooking(3)

BothRefreshes == BOOLEAN
----------------------------------------------------------------------------
(* Requests.                                                               *)

CreatePayment(amount, type, status, reference) ==
  [op |-> "create_payment", booking |-> b1, amount |-> amount, type |-> type,
   status |-> status, reference |-> reference]
UpdatePaymentRequest(p, set) ==
  [op |-> "update_payment", payment |-> p, set |-> set]
StatusRequest(p, status) ==
  [op |-> "update_payment_status", payment |-> p, set |-> [status |-> status]]
DeleteRequest(p) ==
  [op |-> "delete_payment", payment |-> p, set |-> [active |-> FALSE]]
BookingRequest(op, b, set) == [op |-> op, booking |-> b, set |-> set]

CreateBooking(active, amount, token) ==
  [op |-> "create_booking",
   row |-> [NewBooking(amount) EXCEPT !.active = active, !.token = token]]

\* Only successful payments are created, of every type that is checked
\* differently, with and without a reference; none of them can still fail.
DepositRequests ==
  {CreatePayment(1, "INSTALLMENT", "SUCCESS", Null),
   CreatePayment(2, "TOKEN", "SUCCESS", ref1),
   CreatePayment(1, "FULL_PAYMENT", "SUCCESS", ref1),
   CreatePayment(1, "REFUND", "SUCCESS", Null)}
  \cup {StatusRequest(p, "FAILED") : p \in Payments}

\* Everything PaymentService does to payments that may be pending, failed,
\* refunded or deleted; two pending ones may share a reference.
PaymentRequests ==
  {CreatePayment(1, "INSTALLMENT", "SUCCESS", Null),
   CreatePayment(2, "TOKEN", "PENDING", ref1)}
  \cup {StatusRequest(p, status) : p \in Payments,
                                   status \in {"SUCCESS", "FAILED", "REFUNDED"}}
  \cup {DeleteRequest(p) : p \in Payments}
  \cup {UpdatePaymentRequest(p, set) : p \in Payments,
          set \in {[amount |-> 1], [active |-> TRUE], [active |-> FALSE],
                   [status |-> "SUCCESS", amount |-> 1]}}

\* The booking handlers that leave the amount and the payment status alone.
LifecycleRequests ==
  {BookingRequest("change_status", b1, [status |-> x]) :
     x \in {"CONFIRMED", "CANCELLED", "COMPLETED"}}
  \cup {BookingRequest("assign_agent", b1, [agent |-> agent1]),
        BookingRequest("soft_delete_booking", b1, [active |-> FALSE])}

SequentialRequests == PaymentRequests \cup LifecycleRequests

\* Bookings of a pair come and go while the first one is paid for.
SequentialWithCreation ==
  SequentialRequests
  \cup {CreateBooking(TRUE, 1, 0), CreateBooking(FALSE, 1, 1), CreateBooking(TRUE, 0, 1)}
  \cup {BookingRequest("soft_delete_booking", b, [active |-> FALSE]) : b \in Bookings}

\* One payment and its booking, changed from both services at once.
SharedRowRequests ==
  {CreatePayment(1, "INSTALLMENT", "PENDING", Null),
   StatusRequest(p1, "SUCCESS"),
   DeleteRequest(p1),
   UpdatePaymentRequest(p1, [amount |-> 2, active |-> TRUE]),
   BookingRequest("change_status", b1, [status |-> "CANCELLED"]),
   BookingRequest("change_payment_status", b1, [payment_status |-> "OVERDUE"]),
   BookingRequest("soft_delete_booking", b1, [active |-> FALSE]),
   BookingRequest("update_booking", b1, [amount |-> 1]),
   BookingRequest("update_booking", b1, [token |-> 2, active |-> TRUE])}

\* Successful payments that are refunded and deleted while others arrive, and
\* a booking handler that waits for the same rows.
LockingRequests ==
  {CreatePayment(1, "INSTALLMENT", "SUCCESS", Null),
   StatusRequest(p1, "REFUNDED"),
   UpdatePaymentRequest(p1, [active |-> FALSE]),
   BookingRequest("assign_agent", b1, [agent |-> agent1])}
============================================================================
