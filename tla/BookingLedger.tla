--------------------------- MODULE BookingLedger ---------------------------
(***************************************************************************)
(* BookingService and PaymentService over one database, serving any number *)
(* of requests in any interleaving of their statements.                    *)
(***************************************************************************)
EXTENDS BookingService, PaymentService

Init == SessionsInit

Step(s) == BookingServiceNext(s) \/ PaymentServiceNext(s)

Next == \E s \in Sessions :
          \/ \E r \in Requests : Begin(s, r)
          \/ Step(s)
          \/ Abandon(s)

Spec == Init /\ [][Next]_vars

\* The event loop resumes every coroutine and the database answers every
\* statement; row locks and unique-index waits are granted in queue order,
\* so a session that can take its lock again and again gets it.
Blocking(s) == \/ InsertPayment(s) \/ NumberConflict(s) \/ UpdatePayment(s)
               \/ FlushBooking(s) \/ SaveBooking(s) \/ CheckViolated(s)

Fairness == \A s \in Sessions : WF_vars(Step(s)) /\ SF_vars(Blocking(s))

FairSpec == Spec /\ Fairness
----------------------------------------------------------------------------
Live(table) == {id \in DOMAIN table : table[id] # Null}

TypeOK ==
  /\ bookings \in [Bookings -> BookingRow \cup {Null}]
  /\ payments \in [Payments -> PaymentRow \cup {Null}]
  /\ bookingSeq \in Nat
  /\ clock \in Nat
  /\ session \in [Sessions -> SessionState]
----------------------------------------------------------------------------
(* Payment numbers.                                                        *)

\* No two committed payments carry one number, and the committed numbers of
\* a year have no gap, whatever requests interleave, fail or are abandoned:
\* the read-increment-insert of _generate_payment_number is made safe by the
\* UNIQUE constraint alone.
NumbersSerial ==
  \A y \in Years :
    /\ \A p, q \in {id \in Live(payments) : payments[id].year = y} :
         payments[p].number = payments[q].number => p = q
    /\ \A n \in NumbersOf(y) : n >= 1 /\ 1 .. n \subseteq NumbersOf(y)

Inserting(s) == \E p \in Payments : HoldsPayment(s, p) /\ payments[p] = Null

\* At most one create_payment of a year is between its INSERT and its COMMIT:
\* the inserts of a year all want the same number, so the unique index
\* serialises them.  Those of two years do not meet in the index.
OneInsertInFlight ==
  \A s, t \in Sessions :
    Inserting(s) /\ Inserting(t) /\ session[s].payment.year = session[t].payment.year
    => s = t

\* No two payments with numbers of different years are in flight at once: so
\* it is all year round, but for the moment of New Year.
YearsApart ==
  \A s, t \in Sessions :
    Inserting(s) /\ Inserting(t) => session[s].payment.year = session[t].payment.year

\* create_payment implements atomic issuing of the serial numbers of a year.
Numbering == INSTANCE SerialNumbers WITH issued <- [y \in Years |-> NumbersOf(y)]
IssuesSerialNumbers == Numbering!Spec
----------------------------------------------------------------------------
(* The ledger and the bookings it pays for.                                *)

\* The payment status of a booking is the one its committed ledger implies.
LedgerInSync ==
  \A b \in Live(bookings) :
    bookings[b].payment_status =
      PaymentStatusOf(TotalPaid(payments, b), bookings[b].amount)

\* A booking the ledger has paid in full is COMPLETED, even if the column
\* was written by a session that did not change it.
PaidMeansCompleted ==
  \A b \in Live(bookings) :
    bookings[b].payment_status = "PAID" => bookings[b].status = "COMPLETED"

\* Concurrent creations of successful payments act as if each deposit and
\* its effect on the booking were one atomic step, as long as YearsApart:
\* it is the payment number that keeps two of them from totalling the ledger
\* without seeing each other.
Deposits == INSTANCE SerialDeposits
              WITH Bookings <- Live(SeedBookings),
                   Amount <- [b \in Live(SeedBookings) |-> SeedBookings[b].amount],
                   paid <- [b \in Live(SeedBookings) |-> TotalPaid(payments, b)],
                   payment_status <-
                     [b \in Live(SeedBookings) |-> bookings[b].payment_status]
DepositsAreAtomic == Deposits!Spec
----------------------------------------------------------------------------
(* Bookings.                                                               *)

\* A soft-deleted booking or payment is never revived, not even by a request
\* that was loaded before the deletion and supplies is_active = True.
DeletedStaysDeleted ==
  [][/\ \A b \in Live(bookings) : ~bookings[b].active => ~bookings'[b].active
     /\ \A p \in Live(payments) : ~payments[p].active => ~payments'[p].active]_vars

\* The columns of the two tables a request assigns.
BookingColumns(r) == IF r.op \in UpdateOps THEN DOMAIN r.set
                     ELSE {"status", "payment_status"}
PaymentColumns(r) == IF r.op \in PaymentOps
                     THEN DOMAIN r.set ELSE {}

Commits(s) == session[s].step \in {"save", "commit"} /\ session'[s] = Idle

\* A committed column changes only by a request that assigns that column:
\* stale values of the other columns are never written back.
OnlyRequestedColumnsChange ==
  [][/\ \A b \in Live(bookings) : \A c \in DOMAIN bookings[b] :
          bookings'[b][c] # bookings[b][c] =>
            \E s \in Sessions : Commits(s) /\ c \in BookingColumns(Request(s))
     /\ \A p \in Live(payments) : \A c \in DOMAIN payments[p] :
          payments'[p][c] # payments[p][c] =>
            \E s \in Sessions : Commits(s) /\ c \in PaymentColumns(Request(s))]_vars

\* At most one booking of a customer and property is active although only
\* the newest one is looked at.
OneActivePerPair ==
  \A b, c \in Live(bookings) :
    /\ bookings[b].active
    /\ bookings[c].active
    /\ bookings[b].pair = bookings[c].pair
    => b = c

\* Every request ends: no session waits for ever for a row or an index
\* entry another one holds.
RequestsEnd == \A s \in Sessions : ~At(s, "idle") ~> At(s, "idle")
============================================================================
