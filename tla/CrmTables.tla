----------------------------- MODULE CrmTables -----------------------------
(***************************************************************************)
(* The bookings and payments tables of the CRM, the enumerations of their  *)
(* columns, the allow-lists of status transitions, and the pure functions  *)
(* both services compute over them.                                        *)
(*                                                                         *)
(* Amounts are natural numbers: the smallest currency unit.  A booking     *)
(* amount that is NULL in the database behaves as 0 towards payments.      *)
(***************************************************************************)
EXTENDS Integers, FiniteSets, Functions

CONSTANTS Bookings,     \* primary keys of bookings
          Payments,     \* primary keys of payments
          Pairs,        \* <customer, property> pairs that can be booked
          Agents,       \* users a booking can be assigned to
          References,   \* external transaction references
          Years,        \* years the servers' clocks show: two, around New Year
          Null


----------------------------------------------------------------------------
(* Enumerations.                                                           *)

BookingStatus == {"PENDING", "CONFIRMED", "CANCELLED", "COMPLETED", "REFUNDED"}

BookingPaymentStatus ==
  {"PENDING", "PARTIALLY_PAID", "PAID", "OVERDUE", "REFUNDED"}

PaymentStatus == {"PENDING", "SUCCESS", "FAILED", "REFUNDED", "PARTIAL"}

PaymentType == {"TOKEN", "ADVANCE", "INSTALLMENT", "FULL_PAYMENT", "REFUND"}

----------------------------------------------------------------------------
(* Rows.  created is the start time of the inserting transaction.          *)

BookingRow ==
  [pair: Pairs, number: Nat, created: Nat, amount: Nat, token: Nat,
   status: BookingStatus, payment_status: BookingPaymentStatus,
   agent: Agents \cup {Null}, active: BOOLEAN]

PaymentRow ==
  [booking: Bookings, year: Years, number: Nat, amount: Nat,
   status: PaymentStatus, reference: References \cup {Null}, active: BOOLEAN]

ASSUME NullAssumption ==
  Null \notin Agents \cup References \cup Years \cup Bookings \cup Payments
             \cup BookingRow \cup PaymentRow

ASSUME YearsAssumption == IsFiniteSet(Years)

\* The columns a request may assign, and their values.
BookingChange(set) ==
  /\ DOMAIN set \subseteq {"amount", "token", "status", "payment_status",
                           "agent", "active"}
  /\ "amount" \in DOMAIN set => set.amount \in Nat
  /\ "token" \in DOMAIN set => set.token \in Nat
  /\ "status" \in DOMAIN set => set.status \in BookingStatus
  /\ "payment_status" \in DOMAIN set =>
       set.payment_status \in BookingPaymentStatus
  /\ "agent" \in DOMAIN set => set.agent \in Agents \cup {Null}
  /\ "active" \in DOMAIN set => set.active \in BOOLEAN

PaymentChange(set) ==
  /\ DOMAIN set \subseteq {"amount", "status", "reference", "active"}
  /\ "amount" \in DOMAIN set => set.amount \in Nat \ {0}
  /\ "status" \in DOMAIN set => set.status \in PaymentStatus
  /\ "reference" \in DOMAIN set => set.reference \in References \cup {Null}
  /\ "active" \in DOMAIN set => set.active \in BOOLEAN
----------------------------------------------------------------------------
(* Allow-lists of transitions.                                             *)

BookingTransitions ==
  [PENDING   |-> {"CONFIRMED", "CANCELLED"},
   CONFIRMED |-> {"COMPLETED", "CANCELLED"},
   CANCELLED |-> {"REFUNDED"},
   COMPLETED |-> {},
   REFUNDED  |-> {}]

BookingPaymentTransitions ==
  [PENDING        |-> {"PARTIALLY_PAID", "PAID", "OVERDUE"},
   PARTIALLY_PAID |-> {"PAID", "OVERDUE", "REFUNDED"},
   OVERDUE        |-> {"PARTIALLY_PAID", "PAID"},
   PAID           |-> {"REFUNDED"},
   REFUNDED       |-> {}]

PaymentTransitions ==
  [PENDING  |-> {"SUCCESS", "FAILED"},
   PARTIAL  |-> {"SUCCESS", "FAILED"},
   SUCCESS  |-> {"REFUNDED"},
   FAILED   |-> {},
   REFUNDED |-> {}]

\* Staying put is always accepted.
Allowed(transitions, from, to) == to = from \/ to \in transitions[from]

----------------------------------------------------------------------------
(* Columns: a request assigns the columns in the domain of set to an       *)
(* object, and the UPDATE the session emits for the object writes exactly  *)
(* the columns whose value differs from the one that was loaded, into      *)
(* whatever row is committed by then.                                      *)

Assigned(row, set) ==
  [c \in DOMAIN row |-> IF c \in DOMAIN set THEN set[c] ELSE row[c]]

\* Mutant: the UPDATE writes every column of the object.
Written_WholeRow(row, loaded, object) == object

Written(row, loaded, object) ==
  [c \in DOMAIN row |-> IF object[c] # loaded[c] THEN object[c] ELSE row[c]]

----------------------------------------------------------------------------
(* What the ledger of a booking says.                                      *)

Counted(table, b) ==
  {p \in Payments : /\ table[p] # Null
                    /\ table[p].booking = b
                    /\ table[p].status = "SUCCESS"
                    /\ table[p].active}

Amounts(table, b) == [p \in Counted(table, b) |-> table[p].amount]

TotalPaid(table, b) == SumFunction(Amounts(table, b))

\* Mutant: the Python alias PARTIAL is written instead of the column's value.
PaymentStatusOf_Alias(paid, amount) ==
  IF paid <= 0 THEN "PENDING" ELSE IF paid < amount THEN "PARTIAL" ELSE "PAID"

PaymentStatusOf(paid, amount) ==
  IF paid <= 0 THEN "PENDING"
  ELSE IF paid < amount THEN "PARTIALLY_PAID" ELSE "PAID"
============================================================================
