--------------------------- MODULE SerialDeposits ---------------------------
(***************************************************************************)
(* What the payment desk promises of a booking when payments are only ever *)
(* added: each successful payment adds to the total paid and moves the     *)
(* booking's payment status in the same atomic step.                       *)
(***************************************************************************)
EXTENDS Integers

CONSTANTS Bookings, Amount     \* Amount[b]: the agreed value of booking b

VARIABLES paid, payment_status

StatusOf(total, amount) == IF total = 0 THEN "PENDING"
                           ELSE IF total < amount THEN "PARTIALLY_PAID"
                           ELSE "PAID"

Init == /\ paid = [b \in Bookings |-> 0]
        /\ payment_status = [b \in Bookings |-> "PENDING"]

Deposit(b) == /\ paid'[b] > paid[b]
              /\ paid' = [paid EXCEPT ![b] = paid'[b]]
              /\ payment_status' =
                   [payment_status EXCEPT ![b] = StatusOf(paid'[b], Amount[b])]

Spec == Init /\ [][\E b \in Bookings : Deposit(b)]_<<paid, payment_status>>
============================================================================
