---------------------------- MODULE CrmSessions ----------------------------
(***************************************************************************)
(* Database sessions: one per HTTP request, as get_db hands them out.      *)
(* Every request runs in a READ COMMITTED transaction of its own:          *)
(*   - a SELECT sees what is committed plus the session's own flushed      *)
(*     writes;                                                             *)
(*   - a row that was loaded once stays as loaded in the session's         *)
(*     identity map: selecting it again does not overwrite its attributes; *)
(*   - an UPDATE takes the row's lock, held until the transaction ends;    *)
(*   - nothing is kept unless a service commits; any exception, or a       *)
(*     request that is cancelled, rolls everything back.                   *)
(*                                                                         *)
(* Awaiting the database is where coroutines interleave, so the services   *)
(* have one action per statement whose answer others can change.           *)
(***************************************************************************)
EXTENDS CrmTables

CONSTANTS Sessions,     \* database sessions that can be open at once
          Requests,     \* what clients may ask for
          SeedBookings, \* the bookings committed before the first request
          MaxClock      \* bound: create_booking transactions ever started

UpdateOps == {"update_booking", "change_status", "change_payment_status",
              "soft_delete_booking", "assign_agent"}
ModifyOps == {"update_payment", "update_payment_status"}
PaymentOps == ModifyOps \cup {"delete_payment"}

\* What a handler without a body, or with a body of one field, assigns.
HandlerColumns ==
  [update_payment_status |-> {"status"}, delete_payment |-> {"active"},
   change_status |-> {"status"}, change_payment_status |-> {"payment_status"},
   soft_delete_booking |-> {"active"}, assign_agent |-> {"agent"}]

HandlerAssigns(r) ==
  /\ r.op \in DOMAIN HandlerColumns => DOMAIN r.set = HandlerColumns[r.op]
  /\ r.op \in {"delete_payment", "soft_delete_booking"} => ~r.set.active

\* A request as the schemas and the path parameters admit it.
ValidRequest(r) ==
  \/ r \in [op: {"create_payment"}, booking: Bookings, amount: Nat \ {0},
           type: PaymentType, status: PaymentStatus,
           reference: References \cup {Null}]
  \/ r \in [op: {"create_booking"}, row: BookingRow]
  \/ /\ r.op \in PaymentOps /\ r.payment \in Payments
     /\ PaymentChange(r.set) /\ HandlerAssigns(r)
  \/ /\ r.op \in UpdateOps /\ r.booking \in Bookings
     /\ BookingChange(r.set) /\ HandlerAssigns(r)

ASSUME RequestsAssumption == Null \notin Requests /\ \A r \in Requests : ValidRequest(r)
ASSUME SeedAssumption == SeedBookings \in [Bookings -> BookingRow \cup {Null}]
ASSUME MaxClockAssumption == MaxClock \in Nat

VARIABLES bookings,     \* committed rows of the bookings table
          payments,     \* committed rows of the payments table
          bookingSeq,   \* last value of bookings_booking_number_seq
          clock,        \* start time of the newest booking transaction
          session       \* what each open session holds

vars == <<bookings, payments, bookingSeq, clock, session>>
----------------------------------------------------------------------------
Steps == {"idle", "load", "nextval", "save",
          "reference", "pending", "number", "insert",
          "reload", "write", "sync", "flush", "commit"}

\* The identity map of a session: booking and payment are its objects,
\* loaded_booking and loaded_payment their values when they were read.
SessionState ==
  [step: Steps, request: Requests \cup {Null},
   booking_id: Bookings \cup {Null}, payment_id: Payments \cup {Null},
   booking: BookingRow \cup {Null}, loaded_booking: BookingRow \cup {Null},
   payment: PaymentRow \cup {Null}, loaded_payment: PaymentRow \cup {Null},
   year: Years \cup {Null}, number: Nat, started: Nat]

Idle == [step |-> "idle", request |-> Null, booking_id |-> Null,
         payment_id |-> Null, booking |-> Null, loaded_booking |-> Null,
         payment |-> Null, loaded_payment |-> Null, year |-> Null, number |-> 0,
         started |-> 0]

SessionsInit == /\ bookings = SeedBookings
                /\ payments = [p \in Payments |-> Null]
                /\ bookingSeq = 0
                /\ clock = 0
                /\ session = [s \in Sessions |-> Idle]
----------------------------------------------------------------------------
At(s, step) == session[s].step = step
Request(s) == session[s].request

\* Rows a session has flushed changes of, and so holds the lock of.
HoldsPayment(s, p) == /\ session[s].payment_id = p
                      /\ session[s].payment # session[s].loaded_payment

HoldsBooking(s, b) == /\ At(s, "commit")
                      /\ session[s].booking_id = b
                      /\ session[s].booking # session[s].loaded_booking

PaymentFree(s, p) == \A t \in Sessions \ {s} : ~HoldsPayment(t, p)
BookingFree(s, b) == \A t \in Sessions \ {s} : ~HoldsBooking(t, b)

\* The payments table as a SELECT of session s sees it.
VisiblePayments(s) ==
  [p \in Payments |-> IF HoldsPayment(s, p) THEN session[s].payment
                                            ELSE payments[p]]
----------------------------------------------------------------------------
(* A request arrives.  created_at defaults to now(), which is the start of *)
(* the transaction: only the requests that insert a booking need it.       *)

\* Bound: a row that is inserted finds an unused key, also if every other
\* insertion under way gets one first.
Serving(op) == {s \in Sessions : session[s].request # Null /\ Request(s).op = op}

RoomFor(r) ==
  /\ r.op = "create_payment" =>
       Cardinality(Serving(r.op)) < Cardinality({p \in Payments : payments[p] = Null})
  /\ r.op = "create_booking" =>
       Cardinality(Serving(r.op)) < Cardinality({b \in Bookings : bookings[b] = Null})

Begin(s, r) ==
  /\ At(s, "idle")
  /\ RoomFor(r)
  /\ clock' = IF r.op = "create_booking" THEN clock + 1 ELSE clock
  /\ clock' <= MaxClock
  /\ session' = [session EXCEPT ![s] =
                   [Idle EXCEPT !.step = "load", !.request = r, !.started = clock']]
  /\ UNCHANGED <<bookings, payments, bookingSeq>>
----------------------------------------------------------------------------
(* Ends of a transaction.                                                  *)

\* Mutant: the session ends without rolling back, and keeps its locks.
Rollback_Forgotten(s) == /\ session' = [session EXCEPT ![s].step = "idle"]
                         /\ UNCHANGED <<bookings, payments, bookingSeq, clock>>

Rollback(s) == /\ session' = [session EXCEPT ![s] = Idle]
               /\ UNCHANGED <<bookings, payments, bookingSeq, clock>>

\* The client goes away, the connection breaks, or a statement that is not
\* modelled raises: get_db rolls back whatever the session has flushed.
Abandon(s) == ~At(s, "idle") /\ Rollback(s)

Commit(s) ==
  /\ At(s, "commit")
  /\ payments' = VisiblePayments(s)
  /\ bookings' = [b \in Bookings |-> IF HoldsBooking(s, b)
                                     THEN session[s].booking ELSE bookings[b]]
  /\ session' = [session EXCEPT ![s] = Idle]
  /\ UNCHANGED <<bookingSeq, clock>>
============================================================================
