--------------------------- MODULE BookingService ---------------------------
(***************************************************************************)
(* The handlers of BookingService and the BookingRepository methods they   *)
(* call.  create_booking looks for an active booking of the same pair,     *)
(* draws a booking number and inserts; the five updating handlers load the *)
(* booking, validate the request against the loaded values, assign columns *)
(* and commit.  Validation and commit are separate actions: other requests *)
(* commit in between.                                                      *)
(***************************************************************************)
EXTENDS CrmSessions

----------------------------------------------------------------------------
(* create_booking.                                                         *)

OfPair(pair) == {b \in Bookings : bookings[b] # Null /\ bookings[b].pair = pair}

\* Mutant: the oldest booking of the pair decides.
DuplicateActive_Oldest(pair) ==
  \E b \in OfPair(pair) :
    /\ \A c \in OfPair(pair) : bookings[b].created <= bookings[c].created
    /\ bookings[b].active

\* get_by_customer_and_property returns only the newest booking of the pair.
DuplicateActive(pair) ==
  \E b \in OfPair(pair) :
    /\ \A c \in OfPair(pair) : bookings[c].created <= bookings[b].created
    /\ bookings[b].active

EnsureNoDuplicate(s) ==
  /\ At(s, "load")
  /\ Request(s).op = "create_booking"
  /\ Request(s).row.token <= Request(s).row.amount
  /\ ~DuplicateActive(Request(s).row.pair)
  /\ session' = [session EXCEPT ![s].step = "nextval"]
  /\ UNCHANGED <<bookings, payments, bookingSeq, clock>>

RejectCreateBooking(s) ==
  /\ At(s, "load")
  /\ Request(s).op = "create_booking"
  /\ \/ Request(s).row.token > Request(s).row.amount
     \/ DuplicateActive(Request(s).row.pair)
  /\ Rollback(s)

\* nextval is never rolled back: an abandoned request leaves a gap.
GenerateBookingNumber(s) ==
  /\ At(s, "nextval")
  /\ bookingSeq' = bookingSeq + 1
  /\ session' = [session EXCEPT ![s].step = "save", ![s].number = bookingSeq']
  /\ UNCHANGED <<bookings, payments, clock>>

InsertBooking(s) ==
  /\ At(s, "save")
  /\ Request(s).op = "create_booking"
  /\ \E b \in Bookings :
       /\ bookings[b] = Null
       /\ bookings' = [bookings EXCEPT ![b] =
            [Request(s).row EXCEPT !.number = session[s].number,
                                   !.created = session[s].started]]
  /\ session' = [session EXCEPT ![s] = Idle]
  /\ UNCHANGED <<payments, bookingSeq, clock>>
----------------------------------------------------------------------------
(* The updating handlers.  set is the columns the request assigns: the     *)
(* supplied fields of update_booking, status, payment_status or agent of   *)
(* the PATCH handlers, active of soft_delete_booking.                      *)

Effective(row, set, column) ==
  IF column \in DOMAIN set THEN set[column] ELSE row[column]

ValidUpdate(row, set) ==
  /\ row.active
  /\ Effective(row, set, "token") <= Effective(row, set, "amount")
  /\ Allowed(BookingTransitions, row.status, Effective(row, set, "status"))
  /\ Allowed(BookingPaymentTransitions, row.payment_status,
             Effective(row, set, "payment_status"))

LoadBooking(s) ==
  /\ At(s, "load")
  /\ Request(s).op \in UpdateOps
  /\ LET b == Request(s).booking
     IN  /\ bookings[b] # Null
         /\ ValidUpdate(bookings[b], Request(s).set)
         /\ session' = [session EXCEPT ![s].step = "save",
                                       ![s].booking_id = b,
                                       ![s].booking = bookings[b],
                                       ![s].loaded_booking = bookings[b]]
  /\ UNCHANGED <<bookings, payments, bookingSeq, clock>>

RejectUpdateBooking(s) ==
  /\ At(s, "load")
  /\ Request(s).op \in UpdateOps
  /\ LET row == bookings[Request(s).booking]
     IN  ~(row # Null /\ ValidUpdate(row, Request(s).set))
  /\ Rollback(s)

\* The repository selects the row again, which leaves the object as it was
\* loaded, assigns the columns and commits; the flush before the commit
\* waits for the row's lock, and the table's CHECK on the amounts decides.
SavedBooking(s) ==
  Written(bookings[session[s].booking_id], session[s].loaded_booking,
          Assigned(session[s].booking, Request(s).set))

ChecksHold(row) == row.token <= row.amount

SaveBooking(s) ==
  /\ At(s, "save")
  /\ Request(s).op \in UpdateOps
  /\ LET b == session[s].booking_id
     IN  /\ BookingFree(s, b)
         /\ ChecksHold(SavedBooking(s))
         /\ bookings' = [bookings EXCEPT ![b] = SavedBooking(s)]
  /\ session' = [session EXCEPT ![s] = Idle]
  /\ UNCHANGED <<payments, bookingSeq, clock>>

CheckViolated(s) ==
  /\ At(s, "save")
  /\ Request(s).op \in UpdateOps
  /\ BookingFree(s, session[s].booking_id)
  /\ ~ChecksHold(SavedBooking(s))
  /\ Rollback(s)

BookingServiceNext(s) ==
  \/ EnsureNoDuplicate(s)
  \/ RejectCreateBooking(s)
  \/ GenerateBookingNumber(s)
  \/ InsertBooking(s)
  \/ LoadBooking(s)
  \/ RejectUpdateBooking(s)
  \/ SaveBooking(s)
  \/ CheckViolated(s)
============================================================================
