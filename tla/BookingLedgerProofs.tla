------------------------ MODULE BookingLedgerProofs ------------------------
(***************************************************************************)
(* Proofs about BookingLedger for any sessions, requests, bookings and     *)
(* payments: type correctness; that create_payment issues the payment      *)
(* numbers 1, 2, 3 ... of each year one at a time although it reads the    *)
(* last number in one statement and inserts in another; what both services *)
(* do to committed rows: which columns a step changes, that deletion is    *)
(* final, and what keeps pairs unique, paid bookings completed, and a      *)
(* booking in step with its payments.  The last three hold under           *)
(* hypotheses on who calls what at the same time; the code admits callers  *)
(* that break them, and the properties are false of those.                 *)
(***************************************************************************)
EXTENDS BookingLedger, FiniteSetTheorems, WellFoundedInduction, TLAPS

----------------------------------------------------------------------------
(* Type correctness is not inductive as it stands: a step may use an object *)
(* that would have to be loaded.  TypeInv adds which request a session can *)
(* be serving at each step, which objects it has loaded by then, and that  *)
(* rows, once inserted, do not go away.                                    *)

CreateSteps == {"pending", "number", "insert"}
ModifySteps == {"reload", "write"}
SyncSteps == {"sync", "flush", "commit"}

\* The request a session x serves at its step.
ServesStep(x) ==
  /\ x.step # "idle" => x.request \in Requests
  /\ x.step = "nextval" => x.request.op = "create_booking"
  /\ x.step = "save" => x.request.op \in UpdateOps \cup {"create_booking"}
  /\ x.step = "reference" => x.request.op \in ModifyOps \cup {"create_payment"}
  /\ x.step \in CreateSteps => x.request.op = "create_payment"
  /\ x.step = "insert" => x.year \in Years
  /\ x.step \in ModifySteps => x.request.op \in PaymentOps
  /\ x.step \in SyncSteps => x.request.op \in PaymentOps \cup {"create_payment"}

Creating(x) == \/ x.step \in CreateSteps
               \/ x.step = "reference" /\ x.request.op = "create_payment"

Modifying(x) == \/ x.step \in ModifySteps
                \/ x.step = "reference" /\ x.request.op # "create_payment"

Updating(x) == x.step = "save" /\ x.request.op \in UpdateOps

Syncing(x) == x.step \in SyncSteps

\* The objects a session x has loaded at its step, from tables b and p.
ObjectsLoaded(x, b, p) ==
  /\ Creating(x) \/ Modifying(x) \/ Updating(x) \/ Syncing(x) =>
       /\ x.booking_id \in Bookings
       /\ b[x.booking_id] # Null
       /\ x.booking # Null
       /\ x.loaded_booking # Null
  /\ Creating(x) => x.booking_id = x.request.booking
  /\ Modifying(x) \/ Syncing(x) =>
       /\ x.payment_id \in Payments
       /\ x.payment # Null
       /\ b[x.payment.booking] # Null
  /\ Modifying(x) =>
       /\ p[x.payment_id] # Null
       /\ x.loaded_payment # Null
  /\ ~(Modifying(x) \/ Syncing(x)) =>
       /\ x.payment_id = Null
       /\ x.payment = Null
       /\ x.loaded_payment = Null

SessionInv(x, b, p) ==
  x \in SessionState /\ ServesStep(x) /\ ObjectsLoaded(x, b, p)

\* Tables hold rows, and the foreign key of payments.
TablesInv(b, p) ==
  /\ b \in [Bookings -> BookingRow \cup {Null}]
  /\ p \in [Payments -> PaymentRow \cup {Null}]
  /\ \A id \in Payments : p[id] # Null => b[p[id].booking] # Null

TypeInv == /\ TablesInv(bookings, payments)
           /\ bookingSeq \in Nat
           /\ clock \in Nat
           /\ session \in [Sessions -> SessionState]
           /\ \A s \in Sessions : SessionInv(session[s], bookings, payments)

\* The type invariant is part of it.
LEMMA TypeInvTypeOK == TypeInv => TypeOK
BY DEF TypeInv, TypeOK, TablesInv
----------------------------------------------------------------------------
(* What the operators on rows preserve.                                    *)

\* Assigning admissible columns to a booking yields a booking.
LEMMA AssignedBooking ==
  ASSUME NEW row \in BookingRow, NEW set, BookingChange(set)
  PROVE  Assigned(row, set) \in BookingRow
BY DEF BookingRow, BookingChange, Assigned

\* Assigning admissible columns to a payment yields a payment with the same
\* year and number, of the same booking.
LEMMA AssignedPayment ==
  ASSUME NEW row \in PaymentRow, NEW set, PaymentChange(set)
  PROVE  /\ Assigned(row, set) \in PaymentRow
         /\ Assigned(row, set).year = row.year
         /\ Assigned(row, set).number = row.number
         /\ Assigned(row, set).booking = row.booking
BY DEF PaymentRow, PaymentChange, Assigned

\* An UPDATE of a booking leaves a booking.
LEMMA WrittenBooking ==
  ASSUME NEW row \in BookingRow, NEW loaded, NEW object \in BookingRow
  PROVE  Written(row, loaded, object) \in BookingRow
BY DEF BookingRow, Written

\* An UPDATE of a payment leaves a payment; its year, its number and its
\* booking are the row's, if the object has them too.
LEMMA WrittenPayment ==
  ASSUME NEW row \in PaymentRow, NEW loaded, NEW object \in PaymentRow
  PROVE  /\ Written(row, loaded, object) \in PaymentRow
         /\ row.year = object.year =>
              Written(row, loaded, object).year = row.year
         /\ row.number = object.number =>
              Written(row, loaded, object).number = row.number
         /\ Written(row, loaded, object).booking \in {row.booking, object.booking}
BY DEF PaymentRow, Written

\* Synchronising a booking leaves a booking.
LEMMA SyncedBooking ==
  ASSUME NEW booking \in BookingRow, NEW paid
  PROVE  Synced(booking, paid) \in BookingRow
BY DEF BookingRow, Synced, PaymentStatusOf, BookingStatus, BookingPaymentStatus
----------------------------------------------------------------------------
(* Frames: steps change one session, and tables only grow.                 *)

\* Rows that are there stay there.
Grows(b, c) == \A id \in DOMAIN b : b[id] # Null => c[id] # Null

\* What a session has loaded stays loaded while tables grow.
LEMMA SessionStable ==
  ASSUME NEW x, NEW b, NEW p, NEW c, NEW q, SessionInv(x, b, p),
         TablesInv(b, p), TablesInv(c, q), Grows(b, c), Grows(p, q)
  PROVE  SessionInv(x, c, q)
<1>1. Modifying(x) \/ Syncing(x) => x.payment.booking \in Bookings
  BY NullAssumption DEF SessionInv, SessionState, ObjectsLoaded, PaymentRow
<1>2. ObjectsLoaded(x, c, q)
  BY <1>1 DEF SessionInv, SessionState, ObjectsLoaded, TablesInv, Grows
<1> QED BY <1>2 DEF SessionInv

\* A step that makes session s become x keeps the invariant, if x satisfies
\* its part in the new tables.
LEMMA Frame ==
  ASSUME TypeInv, NEW s \in Sessions, NEW x,
         session' = [session EXCEPT ![s] = x],
         SessionInv(x, bookings', payments'),
         TablesInv(bookings', payments'),
         Grows(bookings, bookings'), Grows(payments, payments'),
         bookingSeq' \in Nat, clock' \in Nat
  PROVE  TypeInv'
<1>1. x \in SessionState
  BY DEF SessionInv
<1>2. session' \in [Sessions -> SessionState]
  BY <1>1 DEF TypeInv
<1>3. ASSUME NEW t \in Sessions
      PROVE  SessionInv(session'[t], bookings', payments')
  <2>1. CASE t = s
    BY <2>1 DEF TypeInv
  <2>2. CASE t # s
    <3>1. session'[t] = session[t]
      BY <2>2 DEF TypeInv
    <3> QED BY <3>1, SessionStable DEF TypeInv
  <2> QED BY <2>1, <2>2
<1> QED BY <1>2, <1>3 DEF TypeInv

\* The same for a step that leaves the tables alone.
LEMMA SessionFrame ==
  ASSUME TypeInv, NEW s \in Sessions, NEW x,
         session' = [session EXCEPT ![s] = x],
         SessionInv(x, bookings, payments),
         UNCHANGED <<bookings, payments>>,
         bookingSeq' \in Nat, clock' \in Nat
  PROVE  TypeInv'
BY Frame DEF TypeInv, Grows

\* Rolling back keeps the invariant.
LEMMA RollbackType ==
  ASSUME TypeInv, NEW s \in Sessions, Rollback(s)
  PROVE  TypeInv'
<1>1. SessionInv(Idle, bookings, payments)
  BY DEF SessionInv, SessionState, Idle, Steps, ServesStep, ObjectsLoaded, Creating,
         Modifying, Updating, Syncing, CreateSteps, ModifySteps, SyncSteps
<1> QED BY <1>1, SessionFrame DEF Rollback, TypeInv

----------------------------------------------------------------------------
(* What the requests are.                                                  *)

\* A request that creates a payment has the fields of one.
LEMMA CreatePaymentFields ==
  ASSUME NEW r \in Requests, r.op = "create_payment"
  PROVE  /\ r.booking \in Bookings
         /\ r.amount \in Nat /\ r.amount > 0
         /\ r.status \in PaymentStatus
         /\ r.reference \in References \cup {Null}
BY RequestsAssumption DEF ValidRequest, UpdateOps, PaymentOps, ModifyOps

\* A request that creates a booking carries its row.
LEMMA CreateBookingFields ==
  ASSUME NEW r \in Requests, r.op = "create_booking"
  PROVE  r.row \in BookingRow
BY RequestsAssumption DEF ValidRequest, UpdateOps, PaymentOps, ModifyOps

\* A request that modifies a payment assigns columns of payments.
LEMMA PaymentChangeFields ==
  ASSUME NEW r \in Requests, r.op \in PaymentOps
  PROVE  r.payment \in Payments /\ PaymentChange(r.set) /\ HandlerAssigns(r)
BY RequestsAssumption DEF ValidRequest, UpdateOps, PaymentOps, ModifyOps

\* A request that updates a booking assigns columns of bookings.
LEMMA BookingChangeFields ==
  ASSUME NEW r \in Requests, r.op \in UpdateOps
  PROVE  r.booking \in Bookings /\ BookingChange(r.set) /\ HandlerAssigns(r)
BY RequestsAssumption DEF ValidRequest, UpdateOps, PaymentOps, ModifyOps
----------------------------------------------------------------------------
(* Each action of a session keeps TypeInv.                                 *)

\* A new session has loaded nothing.
LEMMA BeginType ==
  ASSUME TypeInv, NEW s \in Sessions, NEW r \in Requests, Begin(s, r)
  PROVE  TypeInv'
<1> DEFINE x == [Idle EXCEPT !.step = "load", !.request = r, !.started = clock']
<1>1. clock' \in Nat
  BY DEF Begin, TypeInv
<1>2. SessionInv(x, bookings, payments)
  BY <1>1 DEF Idle, SessionInv, SessionState, Steps, ServesStep, ObjectsLoaded, Creating,
         Modifying, Updating, Syncing, CreateSteps, ModifySteps, SyncSteps
<1> QED BY <1>1, <1>2, SessionFrame DEF Begin, TypeInv

\* A step that moves on, perhaps with a number, to a step that serves the
\* same request with the same objects.
LEMMA GotoType ==
  ASSUME TypeInv, NEW s \in Sessions, NEW step \in Steps, NEW n \in Nat,
         NEW year \in Years \cup {Null}, step = "insert" => year \in Years,
         session' = [session EXCEPT ![s].step = step, ![s].year = year, ![s].number = n],
         UNCHANGED <<bookings, payments, clock>>, bookingSeq' \in Nat,
         \/ At(s, "load") /\ step = "nextval" /\ Request(s).op = "create_booking"
         \/ At(s, "nextval") /\ step = "save"
         \/ /\ At(s, "reference") /\ step = "pending"
            /\ Request(s).op = "create_payment"
         \/ /\ At(s, "reference") /\ step = "reload"
            /\ Request(s).op # "create_payment"
         \/ At(s, "pending") /\ step = "number"
         \/ At(s, "number") /\ step = "insert"
         \/ At(s, "reload") /\ step = "write"
  PROVE  TypeInv'
<1> DEFINE x == [session[s] EXCEPT !.step = step, !.year = year, !.number = n]
<1>1. session[s] \in SessionState /\ SessionInv(session[s], bookings, payments)
  BY DEF TypeInv
<1>2. x \in SessionState
  BY <1>1 DEF SessionState
<1>3. SessionInv(x, bookings, payments)
  BY <1>1, <1>2 DEF At, Request, UpdateOps, PaymentOps, ModifyOps, SessionInv, SessionState, Steps, ServesStep, ObjectsLoaded, Creating,
         Modifying, Updating, Syncing, CreateSteps, ModifySteps, SyncSteps
<1>4. session' = [session EXCEPT ![s] = x]
  BY DEF TypeInv
<1> QED BY <1>3, <1>4, SessionFrame DEF TypeInv

\* create_booking inserts a row of the bookings table.
LEMMA InsertBookingType ==
  ASSUME TypeInv, NEW s \in Sessions, InsertBooking(s)
  PROVE  TypeInv'
<1>1. session[s] \in SessionState /\ SessionInv(session[s], bookings, payments)
  BY DEF TypeInv
<1> DEFINE row == [Request(s).row EXCEPT !.number = session[s].number,
                                         !.created = session[s].started]
<1>2. row \in BookingRow
  <2>1. Request(s).row \in BookingRow
    BY <1>1, CreateBookingFields DEF InsertBooking, At, Request, SessionInv, ServesStep
  <2> QED BY <1>1, <2>1 DEF BookingRow, SessionState
<1>3. PICK b \in Bookings : bookings[b] = Null /\ bookings' = [bookings EXCEPT ![b] = row]
  BY DEF InsertBooking
<1>4. TablesInv(bookings', payments') /\ Grows(bookings, bookings') /\ Grows(payments, payments')
  BY <1>2, <1>3, NullAssumption DEF InsertBooking, TypeInv, TablesInv, Grows, PaymentRow
<1>5. SessionInv(Idle, bookings', payments')
  BY DEF Idle, SessionInv, SessionState, Steps, ServesStep, ObjectsLoaded, Creating,
         Modifying, Updating, Syncing, CreateSteps, ModifySteps, SyncSteps
<1> QED BY <1>4, <1>5, Frame DEF InsertBooking, TypeInv

\* A booking handler loads a row and assigns admissible columns to it.
LEMMA LoadBookingType ==
  ASSUME TypeInv, NEW s \in Sessions, LoadBooking(s)
  PROVE  TypeInv'
<1>1. session[s] \in SessionState /\ SessionInv(session[s], bookings, payments)
  BY DEF TypeInv
<1> DEFINE b == Request(s).booking
           x == [session[s] EXCEPT !.step = "save", !.booking_id = b,
                                   !.booking = bookings[b],
                                   !.loaded_booking = bookings[b]]
<1>2. b \in Bookings
  BY <1>1, BookingChangeFields DEF LoadBooking, At, Request, SessionInv, ServesStep
<1>3. x \in SessionState
  BY <1>1, <1>2 DEF SessionState, Steps, TypeInv, TablesInv
<1>4. SessionInv(x, bookings, payments)
  BY <1>1, <1>2, <1>3 DEF LoadBooking, At, Request, SessionInv, SessionState, Steps, ServesStep, ObjectsLoaded, Creating,
         Modifying, Updating, Syncing, CreateSteps, ModifySteps, SyncSteps
<1>5. session' = [session EXCEPT ![s] = x]
  BY DEF LoadBooking, TypeInv
<1> QED BY <1>4, <1>5, SessionFrame DEF LoadBooking, TypeInv

\* A booking handler commits a row of the bookings table.
LEMMA SaveBookingType ==
  ASSUME TypeInv, NEW s \in Sessions, SaveBooking(s)
  PROVE  TypeInv'
<1>1. session[s] \in SessionState /\ SessionInv(session[s], bookings, payments)
  BY DEF TypeInv
<1> DEFINE b == session[s].booking_id
<1>2. /\ b \in Bookings
      /\ bookings[b] \in BookingRow
      /\ session[s].booking \in BookingRow
  BY <1>1 DEF SaveBooking, At, Request, SessionInv, SessionState, ObjectsLoaded, Updating,
              TypeInv, TablesInv
<1>3. BookingChange(Request(s).set)
  BY <1>1, BookingChangeFields DEF SaveBooking, At, Request, SessionInv, ServesStep
<1>4. SavedBooking(s) \in BookingRow
  BY <1>2, <1>3, AssignedBooking, WrittenBooking DEF SavedBooking
<1>5. TablesInv(bookings', payments') /\ Grows(bookings, bookings') /\ Grows(payments, payments')
  BY <1>2, <1>4, NullAssumption DEF SaveBooking, TypeInv, TablesInv, Grows, PaymentRow
<1>6. SessionInv(Idle, bookings', payments')
  BY DEF Idle, SessionInv, SessionState, Steps, ServesStep, ObjectsLoaded, Creating,
         Modifying, Updating, Syncing, CreateSteps, ModifySteps, SyncSteps
<1> QED BY <1>5, <1>6, Frame DEF SaveBooking, TypeInv

\* create_payment loads the booking of its request.
LEMMA ValidateBookingType ==
  ASSUME TypeInv, NEW s \in Sessions, ValidateBooking(s)
  PROVE  TypeInv'
<1>1. session[s] \in SessionState /\ SessionInv(session[s], bookings, payments)
  BY DEF TypeInv
<1> DEFINE b == Request(s).booking
           x == [session[s] EXCEPT !.step = "reference", !.booking_id = b,
                                   !.booking = bookings[b],
                                   !.loaded_booking = bookings[b]]
<1>2. b \in Bookings
  BY <1>1, CreatePaymentFields DEF ValidateBooking, At, Request, SessionInv, ServesStep
<1>3. x \in SessionState
  BY <1>1, <1>2 DEF SessionState, Steps, TypeInv, TablesInv
<1>4. SessionInv(x, bookings, payments)
  BY <1>1, <1>2, <1>3 DEF ValidateBooking, At, Request, SessionInv, SessionState, Steps, ServesStep, ObjectsLoaded, Creating,
         Modifying, Updating, Syncing, CreateSteps, ModifySteps, SyncSteps
<1>5. session' = [session EXCEPT ![s] = x]
  BY DEF ValidateBooking, TypeInv
<1> QED BY <1>4, <1>5, SessionFrame DEF ValidateBooking, TypeInv

\* Refreshing a payment leaves the booking object a booking.
LEMMA RefreshedBooking ==
  ASSUME TypeInv, NEW s \in Sessions, Creating(session[s]) \/ Modifying(session[s]),
         NEW booking \in RefreshedBookings(s)
  PROVE  booking \in BookingRow
BY DEF TypeInv, TablesInv, SessionInv, SessionState, ObjectsLoaded, RefreshedBookings

\* What create_payment inserts is a row of the payments table.
LEMMA NewPaymentRow ==
  ASSUME TypeInv, NEW s \in Sessions, InsertPayment(s)
  PROVE  NewPayment(s) \in PaymentRow /\ NewPayment(s) # Null
<1>1. session[s] \in SessionState /\ SessionInv(session[s], bookings, payments)
  BY DEF TypeInv
<1>2. Request(s) \in Requests /\ Request(s).op = "create_payment" /\ session[s].year \in Years
  BY <1>1 DEF InsertPayment, At, Request, SessionInv, ServesStep, CreateSteps
<1>3. session[s].number \in Nat
  BY <1>1 DEF SessionState
<1>4. NewPayment(s) \in PaymentRow
  BY <1>2, <1>3, CreatePaymentFields DEF NewPayment, PaymentRow
<1> QED BY <1>4, NullAssumption

\* An inserted payment keeps the tables and the sessions well-typed.
LEMMA InsertPaymentType ==
  ASSUME TypeInv, NEW s \in Sessions, InsertPayment(s)
  PROVE  TypeInv'
<1>1. session[s] \in SessionState /\ SessionInv(session[s], bookings, payments)
  BY DEF TypeInv
<1>2. PICK p \in Payments, booking \in RefreshedBookings(s) :
        session' = [session EXCEPT
          ![s].step = IF Request(s).status = "SUCCESS" THEN "sync" ELSE "commit",
          ![s].payment_id = p, ![s].payment = NewPayment(s),
          ![s].booking = booking, ![s].loaded_booking = booking]
  BY DEF InsertPayment
<1> DEFINE x == [session[s] EXCEPT
          !.step = IF Request(s).status = "SUCCESS" THEN "sync" ELSE "commit",
          !.payment_id = p, !.payment = NewPayment(s),
          !.booking = booking, !.loaded_booking = booking]
<1>3. Request(s) \in Requests /\ Request(s).op = "create_payment" /\ Creating(session[s])
  BY <1>1 DEF InsertPayment, At, Request, SessionInv, ServesStep, Creating, CreateSteps
<1>4. booking \in BookingRow
  BY <1>3, RefreshedBooking
<1>5. NewPayment(s) \in PaymentRow
  BY NewPaymentRow
<1>6. bookings[Request(s).booking] # Null
  BY <1>1, <1>3 DEF Request, SessionInv, ObjectsLoaded
<1>7. x \in SessionState
  BY <1>1, <1>4, <1>5, ZenonT(60) DEF SessionState, Steps
<1>8. SessionInv(x, bookings, payments)
  <2>1. /\ x.request = Request(s)
        /\ x.step \in {"sync", "commit"}
        /\ x.payment_id = p /\ x.payment = NewPayment(s)
        /\ x.booking_id = session[s].booking_id
        /\ x.booking = booking /\ x.loaded_booking = booking
        /\ x.loaded_payment = session[s].loaded_payment
    BY <1>1 DEF SessionState, Request
  <2>2. /\ session[s].booking_id = Request(s).booking
        /\ session[s].booking_id \in Bookings
        /\ session[s].loaded_payment = Null
    BY <1>1, <1>3 DEF SessionInv, ObjectsLoaded, Request, Creating, Modifying, Syncing,
                      CreateSteps, ModifySteps, SyncSteps
  <2>3. NewPayment(s).booking = Request(s).booking /\ NewPayment(s) # Null
    BY <1>5, NullAssumption DEF NewPayment, PaymentRow
  <2>4. booking # Null
    BY <1>4, NullAssumption DEF BookingRow
  <2> HIDE DEF x
  <2>5. ServesStep(x)
    BY <1>3, <2>1 DEF ServesStep, CreateSteps, ModifySteps, SyncSteps
  <2>6. ~Creating(x) /\ ~Modifying(x) /\ ~Updating(x)
    BY <1>3, <2>1 DEF Creating, Modifying, Updating, CreateSteps, ModifySteps
  <2>7. x.payment_id # Null => Syncing(x)
    BY <1>3, <2>1 DEF Syncing, SyncSteps
  <2>8. ObjectsLoaded(x, bookings, payments)
    BY <1>6, <2>1, <2>2, <2>3, <2>4, <2>6, <2>7, NullAssumption DEF ObjectsLoaded
  <2> QED
    BY <1>7, <2>5, <2>8 DEF SessionInv
<1>9. session' = [session EXCEPT ![s] = x]
  BY <1>2 DEF TypeInv
<1> QED BY <1>8, <1>9, SessionFrame DEF InsertPayment, TypeInv

\* A payment handler loads a row and assigns admissible columns to it.
LEMMA LoadPaymentType ==
  ASSUME TypeInv, NEW s \in Sessions, LoadPayment(s)
  PROVE  TypeInv'
<1>1. session[s] \in SessionState /\ SessionInv(session[s], bookings, payments)
  BY DEF TypeInv
<1> DEFINE p == Request(s).payment
           b == payments[p].booking
           x == [session[s] EXCEPT
                  !.step = IF Request(s).op \in ModifyOps THEN "reference" ELSE "reload",
                  !.payment_id = p, !.payment = payments[p],
                  !.loaded_payment = payments[p], !.booking_id = b,
                  !.booking = bookings[b], !.loaded_booking = bookings[b]]
<1>2. Request(s) \in Requests /\ Request(s).op \in PaymentOps /\ p \in Payments
  BY <1>1, PaymentChangeFields DEF LoadPayment, At, Request, SessionInv, ServesStep
<1>3. /\ payments[p] \in PaymentRow
      /\ payments[p] # Null
      /\ b \in Bookings
      /\ bookings[b] \in BookingRow
      /\ bookings[b] # Null
  BY <1>2, NullAssumption DEF LoadPayment, PaymentFound, TypeInv, TablesInv, PaymentRow
<1>4. x \in SessionState
  BY <1>1, <1>2, <1>3, ZenonT(60) DEF SessionState, Steps
<1>5. SessionInv(x, bookings, payments)
  <2>1. /\ x.request = Request(s)
        /\ x.step = IF Request(s).op \in ModifyOps THEN "reference" ELSE "reload"
        /\ x.payment_id = p /\ x.payment = payments[p] /\ x.loaded_payment = payments[p]
        /\ x.booking_id = b /\ x.booking = bookings[b] /\ x.loaded_booking = bookings[b]
    BY <1>1 DEF SessionState, Request
  <2> HIDE DEF x
  <2>2. Request(s).op # "create_payment"
    BY <1>2 DEF PaymentOps, ModifyOps
  <2>3. Modifying(x) /\ ~Creating(x) /\ ~Updating(x) /\ ~Syncing(x)
    BY <2>1, <2>2 DEF Modifying, Creating, Updating, Syncing, CreateSteps, ModifySteps, SyncSteps
  <2>4. ServesStep(x)
    BY <1>2, <2>1 DEF ServesStep, CreateSteps, ModifySteps, SyncSteps
  <2>5. ObjectsLoaded(x, bookings, payments)
    BY <1>2, <1>3, <2>1, <2>3 DEF ObjectsLoaded
  <2> QED
    BY <1>4, <2>4, <2>5 DEF SessionInv
<1>6. session' = [session EXCEPT ![s] = x]
  BY ZenonT(60) DEF LoadPayment, TypeInv
<1>7. UNCHANGED <<bookings, payments, bookingSeq, clock>>
  BY DEF LoadPayment
<1> HIDE DEF x
<1> QED BY <1>5, <1>6, <1>7, SessionFrame DEF TypeInv

\* The UPDATE of a payment flushes a row of the same booking.
LEMMA UpdatePaymentType ==
  ASSUME TypeInv, NEW s \in Sessions, UpdatePayment(s)
  PROVE  TypeInv'
<1>1. session[s] \in SessionState /\ SessionInv(session[s], bookings, payments)
  BY DEF TypeInv
<1> DEFINE p      == session[s].payment_id
           object == Assigned(session[s].payment, Request(s).set)
           row    == Written(payments[p], session[s].loaded_payment, object)
           dirty  == object # session[s].loaded_payment
           step   == IF \/ Request(s).op = "update_payment_status"
                        \/ /\ Request(s).op = "update_payment"
                           /\ row.status \in {"SUCCESS", "REFUNDED"}
                     THEN "sync" ELSE "commit"
           loaded == IF dirty THEN session[s].loaded_payment ELSE row
<1>2. Modifying(session[s]) /\ Request(s) \in Requests /\ Request(s).op \in PaymentOps
  BY <1>1 DEF UpdatePayment, At, Request, SessionInv, ServesStep, Modifying, ModifySteps
<1>3. /\ p \in Payments
      /\ payments[p] \in PaymentRow
      /\ session[s].payment \in PaymentRow
      /\ session[s].loaded_payment \in PaymentRow
      /\ bookings[session[s].payment.booking] # Null
      /\ bookings[payments[p].booking] # Null
  BY <1>1, <1>2 DEF SessionInv, SessionState, ObjectsLoaded, TypeInv, TablesInv
<1>4. object \in PaymentRow /\ object.booking = session[s].payment.booking
  BY <1>2, <1>3, PaymentChangeFields, AssignedPayment
<1>5. row \in PaymentRow /\ bookings[row.booking] # Null
  BY <1>3, <1>4, WrittenPayment
<1>6. PICK booking \in RefreshedBookings(s) :
        session' = [session EXCEPT ![s].step = step, ![s].payment = row,
                                   ![s].loaded_payment = loaded,
                                   ![s].booking = booking, ![s].loaded_booking = booking]
  BY ZenonT(60) DEF UpdatePayment
<1> DEFINE x == [session[s] EXCEPT !.step = step, !.payment = row,
                                   !.loaded_payment = loaded,
                                   !.booking = booking, !.loaded_booking = booking]
<1>7. booking \in BookingRow
  BY <1>2, RefreshedBooking
<1>8. step \in {"sync", "commit"} /\ loaded \in PaymentRow
  BY <1>3, <1>5
<1> HIDE DEF step, loaded, row
<1>9. x \in SessionState
  BY <1>1, <1>5, <1>7, <1>8 DEF SessionState, Steps
<1>10. SessionInv(x, bookings, payments)
  BY <1>1, <1>2, <1>3, <1>5, <1>7, <1>8, <1>9, NullAssumption
  DEF Request, SessionInv, SessionState, Steps, ServesStep, ObjectsLoaded, Creating,
      Modifying, Updating, Syncing, CreateSteps, ModifySteps, SyncSteps
<1>11. session' = [session EXCEPT ![s] = x]
  BY <1>6 DEF TypeInv
<1>12. UNCHANGED <<bookings, payments, bookingSeq, clock>>
  BY DEF UpdatePayment
<1> HIDE DEF x
<1> QED BY <1>10, <1>11, <1>12, SessionFrame DEF TypeInv

\* The objects of a session that synchronises a booking.
LEMMA SyncingObjects ==
  ASSUME TypeInv, NEW s \in Sessions, Syncing(session[s])
  PROVE  /\ session[s].booking_id \in Bookings
         /\ bookings[session[s].booking_id] \in BookingRow
         /\ session[s].booking \in BookingRow
         /\ session[s].loaded_booking \in BookingRow
         /\ session[s].payment_id \in Payments
         /\ session[s].payment \in PaymentRow
         /\ bookings[session[s].payment.booking] # Null
BY DEF TypeInv, TablesInv, SessionInv, SessionState, ObjectsLoaded

\* Replacing the booking objects of a session that synchronises keeps it one.
LEMMA SyncingStep ==
  ASSUME TypeInv, NEW s \in Sessions, Syncing(session[s]),
         NEW step \in SyncSteps, NEW object \in BookingRow, NEW loaded \in BookingRow,
         session' = [session EXCEPT ![s].step = step, ![s].booking = object,
                                    ![s].loaded_booking = loaded],
         UNCHANGED <<bookings, payments, bookingSeq, clock>>
  PROVE  TypeInv'
<1>1. session[s] \in SessionState /\ SessionInv(session[s], bookings, payments)
  BY DEF TypeInv
<1> DEFINE x == [session[s] EXCEPT !.step = step, !.booking = object,
                                   !.loaded_booking = loaded]
<1>2. x \in SessionState
  BY <1>1 DEF SessionState, Steps, SyncSteps
<1>3. SessionInv(x, bookings, payments)
  BY <1>1, <1>2, NullAssumption DEF SessionInv, SessionState, Steps, ServesStep, ObjectsLoaded, Creating,
      Modifying, Updating, Syncing, CreateSteps, ModifySteps, SyncSteps
<1>4. session' = [session EXCEPT ![s] = x]
  BY DEF TypeInv
<1> QED BY <1>3, <1>4, SessionFrame DEF TypeInv

\* Synchronising assigns two columns of the booking that was loaded.
LEMMA SyncBookingType ==
  ASSUME TypeInv, NEW s \in Sessions, SyncBooking(s)
  PROVE  TypeInv'
<1>1. Syncing(session[s])
  BY DEF SyncBooking, At, Syncing, SyncSteps
<1> DEFINE object == Synced(session[s].booking, Balance(s))
<1>2. object \in BookingRow
  BY <1>1, SyncingObjects, SyncedBooking
<1>3. session' = [session EXCEPT ![s].step = "flush", ![s].booking = object,
                                 ![s].loaded_booking = session[s].loaded_booking]
  BY DEF SyncBooking, TypeInv, SessionState
<1> HIDE DEF object
<1> QED BY <1>1, <1>2, <1>3, SyncingObjects, SyncingStep DEF SyncBooking, SyncSteps

\* The UPDATE of the booking flushes a row of the bookings table.
LEMMA FlushBookingType ==
  ASSUME TypeInv, NEW s \in Sessions, FlushBooking(s)
  PROVE  TypeInv'
<1>1. Syncing(session[s])
  BY DEF FlushBooking, At, Syncing, SyncSteps
<1> DEFINE row    == Written(bookings[session[s].booking_id],
                             session[s].loaded_booking, session[s].booking)
           loaded == IF session[s].booking # session[s].loaded_booking
                     THEN session[s].loaded_booking ELSE row
<1>2. row \in BookingRow
  BY <1>1, SyncingObjects, WrittenBooking
<1>3. session' = [session EXCEPT ![s].step = "commit", ![s].booking = row,
                                 ![s].loaded_booking = loaded]
  BY DEF FlushBooking, TypeInv, SessionState
<1> HIDE DEF row
<1>4. loaded \in BookingRow
  BY <1>1, <1>2, SyncingObjects
<1> HIDE DEF loaded
<1> QED BY <1>1, <1>2, <1>3, <1>4, SyncingStep DEF FlushBooking, SyncSteps

\* A commit writes the objects that were flushed.
LEMMA CommitType ==
  ASSUME TypeInv, NEW s \in Sessions, Commit(s)
  PROVE  TypeInv'
<1>1. Syncing(session[s])
  BY DEF Commit, At, Syncing, SyncSteps
<1>2. bookings' \in [Bookings -> BookingRow \cup {Null}] /\ Grows(bookings, bookings')
  BY <1>1, SyncingObjects, NullAssumption
  DEF Commit, HoldsBooking, At, Grows, TypeInv, TablesInv
<1>3. payments' \in [Payments -> PaymentRow \cup {Null}] /\ Grows(payments, payments')
  BY <1>1, SyncingObjects, NullAssumption
  DEF Commit, VisiblePayments, HoldsPayment, Grows, TypeInv, TablesInv
<1>4. ASSUME NEW p \in Payments, payments'[p] # Null
      PROVE  bookings'[payments'[p].booking] # Null
  <2>1. payments'[p] \in PaymentRow
    BY <1>3, <1>4
  <2>2. bookings[payments'[p].booking] # Null
    BY <1>1, <1>4, SyncingObjects DEF Commit, VisiblePayments, HoldsPayment, TypeInv, TablesInv
  <2> QED BY <1>2, <2>1, <2>2 DEF Grows, PaymentRow, TypeInv, TablesInv
<1>5. TablesInv(bookings', payments')
  BY <1>2, <1>3, <1>4 DEF TablesInv
<1>6. SessionInv(Idle, bookings', payments')
  BY DEF Idle, SessionInv, SessionState, Steps, ServesStep, ObjectsLoaded, Creating,
      Modifying, Updating, Syncing, CreateSteps, ModifySteps, SyncSteps
<1> QED BY <1>2, <1>3, <1>5, <1>6, Frame DEF Commit, TypeInv

\* Every step keeps TypeInv, as long as the last numbers are numbers.
LEMMA TypeStep ==
  ASSUME TypeInv, \A y \in Years : LastNumber(y) \in Nat, [Next]_vars
  PROVE  TypeInv'
<1>1. CASE UNCHANGED vars
  BY <1>1 DEF TypeInv, vars
<1>2. ASSUME NEW s \in Sessions, NEW r \in Requests, Begin(s, r) PROVE TypeInv'
  BY <1>2, BeginType
<1>3. ASSUME NEW s \in Sessions, Abandon(s) PROVE TypeInv'
  BY <1>3, RollbackType DEF Abandon
<1>4. ASSUME NEW s \in Sessions, BookingServiceNext(s) PROVE TypeInv'
  <2>1. session[s] \in SessionState
    BY DEF TypeInv
  <2>2. CASE EnsureNoDuplicate(s)
    <3>1. session' = [session EXCEPT ![s].step = "nextval", ![s].year = session[s].year,
                                 ![s].number = session[s].number]
      BY <2>1, <2>2 DEF EnsureNoDuplicate, TypeInv, SessionState
    <3> QED BY <2>1, <2>2, <3>1, GotoType DEF EnsureNoDuplicate, Steps, SessionState, TypeInv
  <2>3. CASE RejectCreateBooking(s)
    BY <2>3, RollbackType DEF RejectCreateBooking
  <2>4. CASE GenerateBookingNumber(s)
    <3> DEFINE n == bookingSeq + 1
    <3>1. n \in Nat /\ bookingSeq' \in Nat
      BY <2>4 DEF GenerateBookingNumber, TypeInv
    <3>2. session' = [session EXCEPT ![s].step = "save", ![s].year = session[s].year,
                                     ![s].number = n]
      BY <2>1, <2>4 DEF GenerateBookingNumber, TypeInv, SessionState
    <3>3. /\ "save" \in Steps /\ "save" # "insert"
          /\ session[s].year \in Years \cup {Null}
      BY <2>1 DEF Steps, SessionState
    <3> HIDE DEF n
    <3> QED BY <2>4, <3>1, <3>2, <3>3, GotoType DEF GenerateBookingNumber
  <2>5. CASE InsertBooking(s)
    BY <2>5, InsertBookingType
  <2>6. CASE LoadBooking(s)
    BY <2>6, LoadBookingType
  <2>7. CASE RejectUpdateBooking(s)
    BY <2>7, RollbackType DEF RejectUpdateBooking
  <2>8. CASE SaveBooking(s)
    BY <2>8, SaveBookingType
  <2>9. CASE CheckViolated(s)
    BY <2>9, RollbackType DEF CheckViolated
  <2> QED BY <1>4, <2>2, <2>3, <2>4, <2>5, <2>6, <2>7, <2>8, <2>9 DEF BookingServiceNext
<1>5. ASSUME NEW s \in Sessions, PaymentServiceNext(s) PROVE TypeInv'
  <2>1. session[s] \in SessionState
    BY DEF TypeInv
  <2>2. CASE ValidateBooking(s)
    BY <2>2, ValidateBookingType
  <2>3. CASE RejectBooking(s)
    BY <2>3, RollbackType DEF RejectBooking
  <2>4. CASE CheckReference(s)
    <3> DEFINE step == IF Request(s).op = "create_payment" THEN "pending" ELSE "reload"
    <3>1. session' = [session EXCEPT ![s].step = step, ![s].year = session[s].year,
                                 ![s].number = session[s].number]
      BY <2>1, <2>4 DEF CheckReference, Goto, TypeInv, SessionState
    <3>2. /\ step \in Steps /\ step # "insert"
          /\ session[s].year \in Years \cup {Null} /\ session[s].number \in Nat
      BY <2>1 DEF Steps, SessionState
    <3>3. \/ step = "pending" /\ Request(s).op = "create_payment"
          \/ step = "reload" /\ Request(s).op # "create_payment"
      OBVIOUS
    <3> HIDE DEF step
    <3> QED BY <2>4, <3>1, <3>2, <3>3, GotoType DEF CheckReference, TypeInv
  <2>5. CASE RejectReference(s)
    BY <2>5, RollbackType DEF RejectReference
  <2>6. CASE CheckAmount(s)
    <3>1. session' = [session EXCEPT ![s].step = "number", ![s].year = session[s].year,
                                 ![s].number = session[s].number]
      BY <2>1, <2>6 DEF CheckAmount, Goto, TypeInv, SessionState
    <3> QED BY <2>1, <2>6, <3>1, GotoType DEF CheckAmount, Steps, SessionState, TypeInv
  <2>7. CASE RejectAmount(s)
    BY <2>7, RollbackType DEF RejectAmount
  <2>8. CASE GeneratePaymentNumber(s)
    <3>0. PICK year \in Years :
            session' = [session EXCEPT ![s].step = "insert", ![s].year = year,
                                       ![s].number = LastNumber(year) + 1]
      BY <2>8 DEF GeneratePaymentNumber
    <3> DEFINE n == LastNumber(year) + 1
    <3>1. n \in Nat /\ bookingSeq' \in Nat
      BY <2>8 DEF GeneratePaymentNumber, TypeInv
    <3>2. session' = [session EXCEPT ![s].step = "insert", ![s].year = year,
                                     ![s].number = n]
      BY <3>0
    <3>3. "insert" \in Steps
      BY DEF Steps
    <3> HIDE DEF n
    <3> QED BY <2>8, <3>1, <3>2, <3>3, GotoType DEF GeneratePaymentNumber
  <2>9. CASE InsertPayment(s)
    BY <2>9, InsertPaymentType
  <2>10. CASE NumberConflict(s)
    BY <2>10, RollbackType DEF NumberConflict
  <2>11. CASE LoadPayment(s)
    BY <2>11, LoadPaymentType
  <2>12. CASE RejectPayment(s)
    BY <2>12, RollbackType DEF RejectPayment
  <2>13. CASE ReloadPayment(s)
    <3>1. CASE Rollback(s)
      BY <3>1, RollbackType
    <3>2. CASE Goto(s, "write") /\ UNCHANGED <<bookings, payments, bookingSeq, clock>>
      <4>1. session' = [session EXCEPT ![s].step = "write", ![s].year = session[s].year,
                                 ![s].number = session[s].number]
        BY <2>1, <3>2 DEF Goto, TypeInv, SessionState
      <4> QED BY <2>1, <2>13, <3>2, <4>1, GotoType
              DEF ReloadPayment, Steps, SessionState, TypeInv
    <3> QED BY <2>13, <3>1, <3>2 DEF ReloadPayment
  <2>14. CASE UpdatePayment(s)
    BY <2>14, UpdatePaymentType
  <2>15. CASE SyncBooking(s)
    BY <2>15, SyncBookingType
  <2>16. CASE FlushBooking(s)
    BY <2>16, FlushBookingType
  <2>17. CASE Commit(s)
    BY <2>17, CommitType
  <2> QED BY <1>5, <2>2, <2>3, <2>4, <2>5, <2>6, <2>7, <2>8, <2>9, <2>10, <2>11, <2>12,
             <2>13, <2>14, <2>15, <2>16, <2>17 DEF PaymentServiceNext
<1> QED BY <1>1, <1>2, <1>3, <1>4, <1>5 DEF Next, Step

\* The initial state satisfies it.
LEMMA TypeInit == Init => TypeInv
<1> SUFFICES ASSUME Init PROVE TypeInv
  OBVIOUS
<1>1. TablesInv(bookings, payments)
  BY SeedAssumption DEF Init, SessionsInit, TablesInv
<1>2. Idle \in SessionState /\ SessionInv(Idle, bookings, payments)
  BY DEF Idle, SessionInv, SessionState, Steps, ServesStep, ObjectsLoaded, Creating,
         Modifying, Updating, Syncing, CreateSteps, ModifySteps, SyncSteps
<1> QED BY <1>1, <1>2 DEF Init, SessionsInit, TypeInv

----------------------------------------------------------------------------
(* Numbers                                                                 *)
(*                                                                         *)
(* The committed numbers of a year are 1 .. k, so whenever a session draws *)
(* a number of that year it draws at most k + 1, and by the time it        *)
(* inserts, every smaller number is taken.  All inserts of the year under  *)
(* way therefore want the one number k + 1, and the unique index admits    *)
(* one of them at a time.                                                  *)

\* Session x has inserted a payment into table p and not committed it.
InFlight(x, p) == Syncing(x) /\ p[x.payment_id] = Null

\* ... and its number is one of year y.
InFlightOf(x, p, y) == InFlight(x, p) /\ x.payment.year = y

\* What session x knows of the numbers of year y when 1 .. k are committed
\* in table p.
NumberKnown(x, p, y, k) ==
  /\ x.step = "insert" /\ x.year = y => x.number \in 1 .. SeqLimit /\ x.number <= k + 1
  /\ (Modifying(x) \/ Syncing(x)) /\ p[x.payment_id] # Null =>
       /\ x.payment.year = p[x.payment_id].year
       /\ x.payment.number = p[x.payment_id].number
  /\ InFlight(x, p) => x.loaded_payment = Null
  /\ InFlightOf(x, p, y) => x.payment.number = k + 1 /\ k < SeqLimit

Distinct(p, y) == \A id, other \in Payments :
  /\ p[id] # Null /\ p[id].year = y
  /\ p[other] # Null /\ p[other].year = y
  /\ p[id].number = p[other].number
  => id = other

\* No two sessions x[s] have inserted under the same key.
KeysDistinct(x, p) == \A s, t \in Sessions :
  InFlight(x[s], p) /\ InFlight(x[t], p) /\ x[s].payment_id = x[t].payment_id => s = t

\* Numbers 1 .. k of year y are committed.
Issued(y, k) ==
  /\ k \in 0 .. SeqLimit
  /\ NumbersOf(y) = 1 .. k
  /\ Distinct(payments, y)
  /\ \A s \in Sessions : NumberKnown(session[s], payments, y, k)
  /\ \A s, t \in Sessions :
       InFlightOf(session[s], payments, y) /\ InFlightOf(session[t], payments, y) => s = t
  /\ KeysDistinct(session, payments)

\* The inductive invariant.
IInv == TypeInv /\ \A y \in Years : \E k \in Nat : Issued(y, k)
----------------------------------------------------------------------------
\* The last number is the last one issued, until the numbers outgrow their
\* six digits: "1000000" sorts before "999999", which stays the last number.
LEMMA LastNumberIssued ==
  ASSUME NEW y, NEW k \in 0 .. SeqLimit, NumbersOf(y) = 1 .. k
  PROVE  LastNumber(y) = IF k = SeqLimit THEN SeqLimit - 1 ELSE k
<1>1. CASE k = 0
  BY <1>1, SeqLimitAssumption DEF LastNumber
<1>2. CASE k > 0 /\ k < SeqLimit
  <2>1. \A m, n \in 1 .. k : SortsUpTo(m, n) <=> m <= n
    BY <1>2, SeqLimitAssumption DEF SortsUpTo
  <2>2. k \in 1 .. k /\ NumbersOf(y) # {}
    BY <1>2
  <2>3. \A n \in NumbersOf(y) : (\A m \in NumbersOf(y) : SortsUpTo(m, n)) <=> n = k
    BY <2>1, <2>2
  <2>4. LastNumber(y) = k
    BY <2>2, <2>3 DEF LastNumber
  <2> QED BY <1>2, <2>4, SeqLimitAssumption
<1>3. CASE k = SeqLimit
  <2> DEFINE last == SeqLimit - 1
  <2>1. last \in 1 .. k /\ k \in 1 .. k /\ NumbersOf(y) # {}
    BY <1>3, SeqLimitAssumption
  <2>2. \A m \in 1 .. k : SortsUpTo(m, last)
    <3>1. k \div 10 < last
      BY <1>3, SeqLimitAssumption
    <3> QED BY <1>3, <3>1, SeqLimitAssumption DEF SortsUpTo
  <2>3. ASSUME NEW n \in 1 .. k, n # last PROVE ~(\A m \in 1 .. k : SortsUpTo(m, n))
    <3>1. CASE n < last
      <4>1. ~SortsUpTo(last, n)
        BY <1>3, <3>1, SeqLimitAssumption DEF SortsUpTo
      <4> QED BY <2>1, <4>1
    <3>2. CASE n = k
      <4>1. ~SortsUpTo(last, n)
        BY <1>3, <3>2, SeqLimitAssumption DEF SortsUpTo
      <4> QED BY <2>1, <4>1
    <3> QED BY <1>3, <2>3, <3>1, <3>2, SeqLimitAssumption
  <2>4. \A n \in NumbersOf(y) : (\A m \in NumbersOf(y) : SortsUpTo(m, n)) <=> n = last
    BY <2>2, <2>3
  <2> QED BY <1>3, <2>1, <2>4 DEF LastNumber
<1> QED BY <1>1, <1>2, <1>3, SeqLimitAssumption

\* A step that makes session s become x and commits no payment issues none.
LEMMA IssuedFrame ==
  ASSUME TypeInv, NEW y \in Years, NEW k \in Nat, Issued(y, k), NEW s \in Sessions, NEW x,
         session' = [session EXCEPT ![s] = x], UNCHANGED payments,
         NumberKnown(x, payments, y, k),
         \/ ~InFlight(x, payments)
         \/ /\ InFlight(session[s], payments)
            /\ x.payment_id = session[s].payment_id
            /\ x.payment.year = session[s].payment.year
         \/ \A t \in Sessions \ {s} : InFlight(session[t], payments) =>
              /\ session[t].payment_id # x.payment_id
              /\ InFlightOf(session[t], payments, y) => x.payment.year # y
  PROVE  Issued(y, k)'
<1>1. NumbersOf(y)' = NumbersOf(y)
  BY DEF NumbersOf
<1>2. \A t \in Sessions : session'[t] = IF t = s THEN x ELSE session[t]
  BY DEF TypeInv
<1>3. KeysDistinct(session', payments)
  BY <1>2 DEF KeysDistinct, Issued, InFlight
<1>4. \A r, t \in Sessions :
        InFlightOf(session'[r], payments, y) /\ InFlightOf(session'[t], payments, y) => r = t
  BY <1>2 DEF Issued, InFlightOf
<1> QED BY <1>1, <1>2, <1>3, <1>4 DEF Issued, Distinct, KeysDistinct

\* Rolling back issues no number.
LEMMA RollbackIssued ==
  ASSUME TypeInv, NEW y \in Years, NEW k \in Nat, Issued(y, k), NEW s \in Sessions, Rollback(s)
  PROVE  Issued(y, k)'
BY IssuedFrame DEF Rollback, Idle, NumberKnown, InFlightOf, InFlight, Modifying, Syncing,
   ModifySteps, SyncSteps

\* Nor does a step that only moves on with the payment it has, or none.
LEMMA MoveIssued ==
  ASSUME TypeInv, NEW y \in Years, NEW k \in Nat, Issued(y, k), NEW s \in Sessions, NEW x,
         session' = [session EXCEPT ![s] = x], UNCHANGED payments,
         x.step # "insert",
         Syncing(x) => Syncing(session[s]),
         Modifying(x) => Modifying(session[s]),
         Modifying(x) \/ Syncing(x) =>
           /\ x.payment_id = session[s].payment_id
           /\ x.payment = session[s].payment
           /\ x.loaded_payment = session[s].loaded_payment
  PROVE  Issued(y, k)'
<1>1. NumberKnown(session[s], payments, y, k)
  BY DEF Issued
<1>2. NumberKnown(x, payments, y, k)
  BY <1>1 DEF NumberKnown, InFlightOf, InFlight
<1> QED BY <1>2, IssuedFrame DEF InFlight

----------------------------------------------------------------------------
(* The steps that touch a number or a payment.                             *)

\* The number a session draws is at most the successor of the last one.
LEMMA DrawIssued ==
  ASSUME TypeInv, NEW y \in Years, NEW k \in Nat, Issued(y, k), NEW s \in Sessions,
         GeneratePaymentNumber(s)
  PROVE  Issued(y, k)'
<1>1. PICK year \in Years :
        session' = [session EXCEPT ![s].step = "insert", ![s].year = year,
                                   ![s].number = LastNumber(year) + 1]
  BY DEF GeneratePaymentNumber
<1> DEFINE x == [session[s] EXCEPT !.step = "insert", !.year = year,
                                   !.number = LastNumber(year) + 1]
<1>2. LastNumber(y) + 1 \in 1 .. SeqLimit /\ LastNumber(y) + 1 <= k + 1
  BY LastNumberIssued, SeqLimitAssumption DEF Issued
<1>3. session[s] \in SessionState
  BY DEF TypeInv
<1>4. /\ x.step = "insert"
      /\ x.year = y => x.number = LastNumber(y) + 1
  BY <1>3 DEF SessionState
<1>5. session' = [session EXCEPT ![s] = x]
  BY <1>1 DEF TypeInv
<1> HIDE DEF x
<1>6. NumberKnown(x, payments, y, k) /\ ~InFlight(x, payments)
  BY <1>2, <1>4 DEF NumberKnown, InFlightOf, InFlight, Modifying, Syncing, ModifySteps,
                    SyncSteps
<1> QED BY <1>5, <1>6, IssuedFrame DEF GeneratePaymentNumber

\* A session that is under way holds the index entry of its number.
LEMMA InFlightHolds ==
  ASSUME TypeInv, NEW y \in Years, NEW k \in Nat, Issued(y, k), NEW t \in Sessions,
         InFlight(session[t], payments)
  PROVE  /\ HoldsPayment(t, session[t].payment_id)
         /\ session[t].payment_id \in Payments
         /\ session[t].payment.year = y => session[t].payment.number = k + 1 /\ k < SeqLimit
BY DEF TypeInv, Issued, SessionInv, ObjectsLoaded, InFlightOf, InFlight, NumberKnown,
       HoldsPayment

\* An INSERT succeeds with the next number, while no other is under way.
LEMMA InsertIssued ==
  ASSUME TypeInv, NEW y \in Years, NEW k \in Nat, Issued(y, k), NEW s \in Sessions, InsertPayment(s)
  PROVE  Issued(y, k)'
<1>1. session[s] \in SessionState /\ SessionInv(session[s], bookings, payments)
  BY DEF TypeInv
<1>2. PICK p \in Payments, booking \in RefreshedBookings(s) :
        /\ payments[p] = Null
        /\ PaymentFree(s, p)
        /\ session' = [session EXCEPT
             ![s].step = IF Request(s).status = "SUCCESS" THEN "sync" ELSE "commit",
             ![s].payment_id = p, ![s].payment = NewPayment(s),
             ![s].booking = booking, ![s].loaded_booking = booking]
  BY DEF InsertPayment
<1> DEFINE x == [session[s] EXCEPT
          !.step = IF Request(s).status = "SUCCESS" THEN "sync" ELSE "commit",
          !.payment_id = p, !.payment = NewPayment(s),
          !.booking = booking, !.loaded_booking = booking]
<1>3. session[s].year = y => session[s].number = k + 1 /\ k < SeqLimit
  <2> SUFFICES ASSUME session[s].year = y
               PROVE  session[s].number = k + 1 /\ k < SeqLimit
    OBVIOUS
  <2>1. /\ session[s].number \in 1 .. SeqLimit
        /\ session[s].number <= k + 1
        /\ session[s].number \notin 1 .. k
    BY DEF InsertPayment, NumberCommitted, At, Issued, NumberKnown
  <2> QED BY <2>1, SeqLimitAssumption
<1>4. session[s].year = y => \A t \in Sessions : ~InFlightOf(session[t], payments, y)
  <2> SUFFICES ASSUME session[s].year = y, NEW t \in Sessions,
                      InFlightOf(session[t], payments, y)
               PROVE  FALSE
    OBVIOUS
  <2>1. t # s
    BY DEF InsertPayment, At, InFlightOf, InFlight, Syncing, SyncSteps
  <2>2. HoldsPayment(t, session[t].payment_id) /\ session[t].payment_id \in Payments
    BY InFlightHolds DEF InFlightOf
  <2>3. /\ session[t].payment.year = session[s].year
        /\ session[t].payment.number = session[s].number
    BY <1>3, InFlightHolds DEF InFlightOf
  <2>4. NumberInFlight(s)
    BY <2>1, <2>2, <2>3 DEF NumberInFlight
  <2> QED BY <2>4 DEF InsertPayment
<1>5. session[s].loaded_payment = Null
  BY <1>1 DEF InsertPayment, At, SessionInv, ObjectsLoaded, Modifying, Syncing,
              ModifySteps, SyncSteps
<1>6. /\ x.step \in {"sync", "commit"}
      /\ x.payment_id = p
      /\ x.payment.year = session[s].year
      /\ x.payment.number = session[s].number
      /\ x.loaded_payment = Null
  BY <1>1, <1>5 DEF SessionState, NewPayment
<1>7. session' = [session EXCEPT ![s] = x]
  BY <1>2 DEF TypeInv
<1> HIDE DEF x
<1>8. NumberKnown(x, payments, y, k)
  BY <1>2, <1>3, <1>6 DEF NumberKnown, InFlightOf, InFlight
<1>9. ASSUME NEW t \in Sessions \ {s}, InFlight(session[t], payments)
      PROVE  session[t].payment_id # x.payment_id
  BY <1>2, <1>6, <1>9, InFlightHolds DEF PaymentFree
<1> QED BY <1>4, <1>6, <1>7, <1>8, <1>9, IssuedFrame DEF InsertPayment

\* A loaded payment has the year and the number of its row.
LEMMA LoadIssued ==
  ASSUME TypeInv, NEW y \in Years, NEW k \in Nat, Issued(y, k), NEW s \in Sessions, LoadPayment(s)
  PROVE  Issued(y, k)'
<1> DEFINE p == Request(s).payment
           b == payments[p].booking
           x == [session[s] EXCEPT
                  !.step = IF Request(s).op \in ModifyOps THEN "reference" ELSE "reload",
                  !.payment_id = p, !.payment = payments[p],
                  !.loaded_payment = payments[p], !.booking_id = b,
                  !.booking = bookings[b], !.loaded_booking = bookings[b]]
<1>1. session[s] \in SessionState
  BY DEF TypeInv
<1>2. /\ x.step \in {"reference", "reload"}
      /\ x.payment_id = p
      /\ x.payment = payments[p]
  BY <1>1 DEF SessionState
<1>3. session' = [session EXCEPT ![s] = x]
  BY ZenonT(60) DEF LoadPayment, TypeInv
<1> HIDE DEF x
<1>4. NumberKnown(x, payments, y, k) /\ ~InFlight(x, payments)
  BY <1>2 DEF NumberKnown, InFlightOf, InFlight, Syncing, SyncSteps
<1> QED BY <1>3, <1>4, IssuedFrame DEF LoadPayment

\* An UPDATE does not change the number.
LEMMA UpdateIssued ==
  ASSUME TypeInv, NEW y \in Years, NEW k \in Nat, Issued(y, k), NEW s \in Sessions, UpdatePayment(s)
  PROVE  Issued(y, k)'
<1>1. session[s] \in SessionState /\ SessionInv(session[s], bookings, payments)
  BY DEF TypeInv
<1> DEFINE p      == session[s].payment_id
           object == Assigned(session[s].payment, Request(s).set)
           row    == Written(payments[p], session[s].loaded_payment, object)
           dirty  == object # session[s].loaded_payment
           step   == IF \/ Request(s).op = "update_payment_status"
                        \/ /\ Request(s).op = "update_payment"
                           /\ row.status \in {"SUCCESS", "REFUNDED"}
                     THEN "sync" ELSE "commit"
           loaded == IF dirty THEN session[s].loaded_payment ELSE row
<1>2. Modifying(session[s]) /\ Request(s) \in Requests /\ Request(s).op \in PaymentOps
  BY <1>1 DEF UpdatePayment, At, Request, SessionInv, ServesStep, Modifying, ModifySteps
<1>3. /\ p \in Payments
      /\ payments[p] \in PaymentRow
      /\ payments[p] # Null
      /\ session[s].payment \in PaymentRow
      /\ session[s].payment.year = payments[p].year
      /\ session[s].payment.number = payments[p].number
  BY <1>1, <1>2 DEF SessionInv, SessionState, ObjectsLoaded, TypeInv, TablesInv,
                    Issued, NumberKnown
<1>4. /\ object \in PaymentRow
      /\ object.year = payments[p].year
      /\ object.number = payments[p].number
  BY <1>2, <1>3, PaymentChangeFields, AssignedPayment
<1>5. row.year = payments[p].year /\ row.number = payments[p].number
  BY <1>3, <1>4, WrittenPayment
<1>6. PICK booking \in RefreshedBookings(s) :
        session' = [session EXCEPT ![s].step = step, ![s].payment = row,
                                   ![s].loaded_payment = loaded,
                                   ![s].booking = booking, ![s].loaded_booking = booking]
  BY ZenonT(60) DEF UpdatePayment
<1> DEFINE x == [session[s] EXCEPT !.step = step, !.payment = row,
                                   !.loaded_payment = loaded,
                                   !.booking = booking, !.loaded_booking = booking]
<1>7. step \in {"sync", "commit"}
  OBVIOUS
<1> HIDE DEF step, loaded, row
<1>8. x.step \in {"sync", "commit"} /\ x.payment_id = p /\ x.payment = row
  BY <1>1, <1>7 DEF SessionState
<1>9. session' = [session EXCEPT ![s] = x]
  BY <1>6 DEF TypeInv
<1> HIDE DEF x
<1>10. NumberKnown(x, payments, y, k) /\ ~InFlight(x, payments)
  BY <1>3, <1>5, <1>8 DEF NumberKnown, InFlightOf, InFlight
<1>11. UNCHANGED <<bookings, payments, bookingSeq, clock>>
  BY DEF UpdatePayment
<1> QED BY <1>9, <1>10, <1>11, IssuedFrame

\* A commit issues the next number of the year of the payment its session has
\* inserted, if it has, and no other.
LEMMA CommitIssued ==
  ASSUME TypeInv, NEW y \in Years, NEW k \in Nat, Issued(y, k), NEW s \in Sessions, Commit(s)
  PROVE  IF InFlightOf(session[s], payments, y) THEN k < SeqLimit /\ Issued(y, k + 1)'
                                           ELSE Issued(y, k)'
<1> DEFINE id == session[s].payment_id
<1>1. /\ Syncing(session[s])
      /\ id \in Payments
      /\ session[s].payment # Null
  BY SyncingObjects, NullAssumption DEF Commit, At, Syncing, SyncSteps
<1>2. payments' = [p \in Payments |-> IF HoldsPayment(s, p) THEN session[s].payment
                                                           ELSE payments[p]]
  BY DEF Commit, VisiblePayments
<1>3. \A t \in Sessions : session'[t] = IF t = s THEN Idle ELSE session[t]
  BY DEF Commit, TypeInv
<1>4. \A p, k1 : NumberKnown(Idle, p, y, k1) /\ ~InFlight(Idle, p)
  BY DEF Idle, NumberKnown, InFlightOf, InFlight, Modifying, Syncing, ModifySteps, SyncSteps
<1>5. \A t \in Sessions : Modifying(session[t]) \/ Syncing(session[t]) =>
        session[t].payment_id \in Payments
  BY DEF TypeInv, SessionInv, ObjectsLoaded
<1>6. CASE ~InFlight(session[s], payments)
  <2>1. /\ payments[id] # Null
        /\ session[s].payment.year = payments[id].year
        /\ session[s].payment.number = payments[id].number
    BY <1>1, <1>6 DEF InFlight, Issued, NumberKnown
  <2>2. \A p \in Payments : /\ payments'[p] = Null <=> payments[p] = Null
                            /\ payments'[p].year = payments[p].year
                            /\ payments'[p].number = payments[p].number
    BY <1>1, <1>2, <2>1 DEF HoldsPayment
  <2>3. NumbersOf(y)' = NumbersOf(y)
    BY <2>2 DEF NumbersOf
  <2>4. Distinct(payments, y)'
    BY <2>2 DEF Distinct, Issued
  <2>5. ASSUME NEW t \in Sessions
        PROVE  /\ NumberKnown(session'[t], payments', y, k)
               /\ InFlight(session'[t], payments') =>
                    session'[t] = session[t] /\ InFlight(session[t], payments)
    <3>1. CASE t = s
      BY <1>3, <1>4, <3>1
    <3>2. CASE t # s
      <4>1. session'[t] = session[t] /\ NumberKnown(session[t], payments, y, k)
        BY <1>3, <3>2 DEF Issued
      <4>2. InFlight(session[t], payments') <=> InFlight(session[t], payments)
        BY <1>5, <2>2 DEF InFlight
      <4>3. NumberKnown(session[t], payments', y, k)
        BY <1>5, <2>2, <4>1, <4>2 DEF NumberKnown, InFlightOf, InFlight
      <4> QED BY <4>1, <4>2, <4>3
    <3> QED BY <3>1, <3>2
  <2>6. Issued(y, k)'
    BY <2>3, <2>4, <2>5 DEF Issued, InFlightOf, KeysDistinct
  <2> QED BY <1>6, <2>6 DEF InFlightOf
<1>7. CASE InFlight(session[s], payments)
  <2>1. /\ payments[id] = Null
        /\ HoldsPayment(s, id)
    BY <1>7, InFlightHolds DEF InFlight
  <2>2. payments' = [payments EXCEPT ![id] = session[s].payment]
    BY <1>1, <1>2, <2>1 DEF HoldsPayment, TypeInv, TablesInv
  <2>3. \A p \in Payments : payments'[p] = IF p = id THEN session[s].payment ELSE payments[p]
    BY <1>1, <2>2 DEF TypeInv, TablesInv
  <2>4. \A p \in Payments : payments[p] # Null /\ payments[p].year = y =>
          payments[p].number \in 1 .. k
    BY DEF Issued, NumbersOf
  <2>5. ASSUME NEW t \in Sessions \ {s}, Modifying(session[t]) \/ Syncing(session[t])
        PROVE  /\ session[t].payment_id \in Payments
               /\ payments'[session[t].payment_id] = payments[session[t].payment_id]
    <3>1. session[t].payment_id # id
      BY <1>7, <2>1, <2>5 DEF TypeInv, SessionInv, ObjectsLoaded, InFlight, Issued, KeysDistinct
    <3> QED BY <1>5, <2>3, <2>5, <3>1
  <2>6. ASSUME NEW t \in Sessions, InFlight(session'[t], payments')
        PROVE  t # s /\ session'[t] = session[t] /\ InFlight(session[t], payments)
    <3>1. t # s
      BY <1>3, <1>4, <2>6
    <3> QED BY <1>3, <2>5, <2>6, <3>1 DEF InFlight
  <2>7. KeysDistinct(session', payments')
    BY <2>6 DEF KeysDistinct, Issued
  <2>8. CASE session[s].payment.year # y
    <3>1. NumbersOf(y)' = NumbersOf(y)
      BY <1>1, <2>1, <2>3, <2>8 DEF NumbersOf
    <3>2. Distinct(payments, y)'
      BY <1>1, <2>1, <2>3, <2>8 DEF Distinct, Issued
    <3>3. ASSUME NEW t \in Sessions PROVE NumberKnown(session'[t], payments', y, k)
      <4>1. CASE t = s
        BY <1>3, <1>4, <4>1
      <4>2. CASE t # s
        <5>1. session'[t] = session[t] /\ NumberKnown(session[t], payments, y, k)
          BY <1>3, <4>2 DEF Issued
        <5> QED BY <2>5, <4>2, <5>1 DEF NumberKnown, InFlightOf, InFlight
      <4> QED BY <4>1, <4>2
    <3>4. Issued(y, k)'
      BY <2>6, <2>7, <3>1, <3>2, <3>3 DEF Issued, InFlightOf
    <3> QED BY <2>8, <3>4 DEF InFlightOf
  <2>9. CASE session[s].payment.year = y
    <3>1. session[s].payment.number = k + 1 /\ k < SeqLimit
      BY <1>7, <2>9, InFlightHolds DEF InFlightOf
    <3>2. NumbersOf(y)' = NumbersOf(y) \cup {k + 1}
      BY <1>1, <2>1, <2>3, <2>9, <3>1 DEF NumbersOf
    <3>3. NumbersOf(y)' = 1 .. (k + 1) /\ k + 1 \in 0 .. SeqLimit
      BY <3>1, <3>2, SeqLimitAssumption DEF Issued
    <3>4. Distinct(payments, y)'
      BY <1>1, <2>1, <2>3, <2>4, <3>1 DEF Distinct, Issued
    <3>5. \A t \in Sessions \ {s} : ~InFlightOf(session[t], payments, y)
      BY <1>7, <2>9 DEF Issued, InFlightOf
    <3>6. ASSUME NEW t \in Sessions
          PROVE  /\ NumberKnown(session'[t], payments', y, k + 1)
                 /\ ~InFlightOf(session'[t], payments', y)
      <4>1. CASE t = s
        BY <1>3, <1>4, <4>1 DEF InFlightOf
      <4>2. CASE t # s
        <5>1. session'[t] = session[t] /\ NumberKnown(session[t], payments, y, k)
          BY <1>3, <4>2 DEF Issued
        <5>2. session[t].step = "insert" /\ session[t].year = y => session[t].number <= k + 2
          BY <5>1, SeqLimitAssumption DEF NumberKnown
        <5>3. session[t].step = "insert" /\ session[t].year = y =>
                session[t].number \in 1 .. SeqLimit
          BY <5>1 DEF NumberKnown
        <5>4. ~InFlightOf(session[t], payments', y)
          <6>1. InFlight(session[t], payments') => InFlight(session[t], payments)
            BY <2>6, <5>1
          <6>2. ~InFlightOf(session[t], payments, y)
            BY <3>5, <4>2
          <6> QED BY <6>1, <6>2 DEF InFlightOf
        <5> QED BY <2>5, <4>2, <5>1, <5>2, <5>3, <5>4 DEF NumberKnown, InFlightOf, InFlight
      <4> QED BY <4>1, <4>2
    <3>7. Issued(y, k + 1)'
      BY <2>7, <3>3, <3>4, <3>6 DEF Issued
    <3> QED BY <1>7, <2>9, <3>1, <3>7 DEF InFlightOf
  <2> QED BY <2>8, <2>9
<1> QED BY <1>6, <1>7

\* No other step issues a number.
LEMMA BookingIssued ==
  ASSUME TypeInv, NEW y \in Years, NEW k \in Nat, Issued(y, k), NEW s \in Sessions,
         \/ \E r \in Requests : Begin(s, r)
         \/ BookingServiceNext(s)
  PROVE  Issued(y, k)'
<1>1. session[s] \in SessionState
  BY DEF TypeInv
<1>2. PICK x : /\ session' = [session EXCEPT ![s] = x]
               /\ x.step \in {"idle", "load", "nextval", "save"}
  <2>1. session' = [session EXCEPT ![s] = session'[s]]
    BY <1>1 DEF TypeInv, Begin, BookingServiceNext, EnsureNoDuplicate, RejectCreateBooking,
       GenerateBookingNumber, InsertBooking, LoadBooking, RejectUpdateBooking,
       SaveBooking, CheckViolated, Rollback
  <2>2. CASE BookingServiceNext(s)
    <3>1. session'[s].step \in {"idle", "nextval", "save"}
      BY <1>1, <2>2 DEF TypeInv, BookingServiceNext, EnsureNoDuplicate, RejectCreateBooking,
         GenerateBookingNumber, InsertBooking, LoadBooking, RejectUpdateBooking,
         SaveBooking, CheckViolated, Rollback, Idle, SessionState
    <3> QED BY <2>1, <3>1
  <2>3. ASSUME NEW r \in Requests, Begin(s, r)
        PROVE  session'[s].step = "load"
    BY <1>1, <2>3 DEF TypeInv, Begin, Idle
  <2> QED BY <2>1, <2>2, <2>3
<1>3. UNCHANGED payments
  BY DEF Begin, BookingServiceNext, EnsureNoDuplicate, RejectCreateBooking,
         GenerateBookingNumber, InsertBooking, LoadBooking, RejectUpdateBooking,
         SaveBooking, CheckViolated, Rollback
<1> QED BY <1>2, <1>3, MoveIssued DEF Modifying, Syncing, ModifySteps, SyncSteps

\* Nor do the statements that read, or only touch the booking.
LEMMA PaymentIssued ==
  ASSUME TypeInv, NEW y \in Years, NEW k \in Nat, Issued(y, k), NEW s \in Sessions,
         \/ ValidateBooking(s)
         \/ CheckReference(s)
         \/ CheckAmount(s)
         \/ ReloadPayment(s) /\ ~Rollback(s)
         \/ SyncBooking(s)
         \/ FlushBooking(s)
  PROVE  Issued(y, k)'
<1>1. session[s] \in SessionState
  BY DEF TypeInv
<1> DEFINE x == session'[s]
<1>2. session' = [session EXCEPT ![s] = x] /\ UNCHANGED payments
  BY <1>1 DEF TypeInv, ValidateBooking, CheckReference, CheckAmount, ReloadPayment,
     SyncBooking, FlushBooking, Goto
<1>3. /\ x.step # "insert"
      /\ Syncing(x) => Syncing(session[s])
      /\ Modifying(x) => Modifying(session[s])
  BY <1>1 DEF TypeInv, ValidateBooking, CheckReference, CheckAmount, ReloadPayment,
     SyncBooking, FlushBooking, Goto, At, Request, SessionState,
     Modifying, Syncing, ModifySteps, SyncSteps
<1>4. /\ x.payment_id = session[s].payment_id
      /\ x.payment = session[s].payment
      /\ x.loaded_payment = session[s].loaded_payment
  BY <1>1 DEF TypeInv, ValidateBooking, CheckReference, CheckAmount, ReloadPayment,
     SyncBooking, FlushBooking, Goto, SessionState
<1> HIDE DEF x
<1> QED BY <1>2, <1>3, <1>4, MoveIssued

\* A step issues the next number of a year, by committing a payment of it, or
\* none.
CommitsNumber(y) == \E s \in Sessions : Commit(s) /\ session[s].payment.year = y

LEMMA IssuedStep ==
  ASSUME TypeInv, NEW y \in Years, NEW k \in Nat, Issued(y, k), [Next]_vars
  PROVE  Issued(y, k)' \/ (k < SeqLimit /\ Issued(y, k + 1)' /\ CommitsNumber(y))
<1>1. CASE UNCHANGED vars
  BY <1>1 DEF vars, Issued, NumbersOf, Distinct, KeysDistinct
<1>2. ASSUME NEW s \in Sessions, Rollback(s) PROVE Issued(y, k)'
  BY <1>2, RollbackIssued
<1>3. ASSUME NEW s \in Sessions, PaymentServiceNext(s), ~Rollback(s)
      PROVE  Issued(y, k)' \/ (k < SeqLimit /\ Issued(y, k + 1)' /\ CommitsNumber(y))
  <2>1. CASE GeneratePaymentNumber(s)
    BY <2>1, DrawIssued
  <2>2. CASE InsertPayment(s)
    BY <2>2, InsertIssued
  <2>3. CASE LoadPayment(s)
    BY <2>3, LoadIssued
  <2>4. CASE UpdatePayment(s)
    BY <2>4, UpdateIssued
  <2>5. CASE Commit(s)
    BY <2>5, CommitIssued DEF CommitsNumber, InFlightOf
  <2>6. CASE \/ ValidateBooking(s) \/ CheckReference(s) \/ CheckAmount(s)
             \/ ReloadPayment(s) \/ SyncBooking(s) \/ FlushBooking(s)
    BY <1>3, <2>6, PaymentIssued
  <2> QED BY <1>3, <2>1, <2>2, <2>3, <2>4, <2>5, <2>6
          DEF PaymentServiceNext, RejectBooking, RejectReference, RejectAmount,
              NumberConflict, RejectPayment
<1> QED BY <1>1, <1>2, <1>3, BookingIssued DEF Next, Step, Abandon

\* The invariant holds initially, and every step keeps it.
LEMMA IInvInit == Init => IInv
<1> SUFFICES ASSUME Init PROVE TypeInv /\ \A y \in Years : Issued(y, 0)
  <2>1. 0 \in Nat
    OBVIOUS
  <2> QED BY <2>1 DEF IInv
<1> SUFFICES ASSUME NEW y \in Years PROVE Issued(y, 0)
  BY TypeInit
<1>1. NumbersOf(y) = {}
  BY DEF Init, SessionsInit, NumbersOf
<1>2. \A s \in Sessions : NumberKnown(session[s], payments, y, 0) /\ ~InFlight(session[s], payments)
  BY DEF Init, SessionsInit, Idle, NumberKnown, InFlightOf, InFlight, Modifying, Syncing,
         ModifySteps, SyncSteps
<1>3. Distinct(payments, y) /\ KeysDistinct(session, payments)
  BY <1>2 DEF Init, SessionsInit, Distinct, KeysDistinct
<1> QED BY <1>1, <1>2, <1>3, SeqLimitAssumption DEF Issued, InFlightOf

\* Every step leaves the committed numbers 1 .. k of a year alone or extends
\* them by one.
LEMMA IInvStep == IInv /\ [Next]_vars => IInv'
<1> SUFFICES ASSUME IInv, [Next]_vars PROVE IInv'
  OBVIOUS
<1>1. TypeInv'
  <2>1. ASSUME NEW y \in Years PROVE LastNumber(y) \in Nat
    BY LastNumberIssued, SeqLimitAssumption DEF IInv, Issued
  <2> QED BY <2>1, TypeStep DEF IInv
<1>2. ASSUME NEW y \in Years PROVE \E n \in Nat : Issued(y, n)'
  <2>1. PICK k \in Nat : Issued(y, k)
    BY DEF IInv
  <2>2. k + 1 \in Nat
    OBVIOUS
  <2> QED BY <2>1, <2>2, IssuedStep DEF IInv
<1> QED BY <1>1, <1>2 DEF IInv

(* The strengthened invariant: types, objects in step with their rows, and *)
(* payment numbers 1 .. k of every year committed with at most k + 1 being  *)
(* inserted.                                                               *)
THEOREM Invariance == Spec => []IInv
BY IInvInit, IInvStep, PTL DEF Spec
----------------------------------------------------------------------------
(* Type correctness: whatever requests interleave, rows stay rows and      *)
(* objects stay objects of the row they were loaded from.                  *)
THEOREM TypeCorrect == Spec => []TypeOK
<1>1. IInv => TypeOK
  BY TypeInvTypeOK DEF IInv
<1> QED BY <1>1, Invariance, PTL

(* No two payments have one number, and there is no gap before a number of *)
(* a year.                                                                 *)
THEOREM NumbersAreSerial == Spec => []NumbersSerial
<1>1. IInv => NumbersSerial
  <2> SUFFICES ASSUME IInv, NEW y \in Years, NEW k \in Nat, Issued(y, k)
               PROVE  /\ \A p, q \in {id \in Live(payments) : payments[id].year = y} :
                           payments[p].number = payments[q].number => p = q
                      /\ \A n \in NumbersOf(y) : n >= 1 /\ 1 .. n \subseteq NumbersOf(y)
    BY DEF IInv, NumbersSerial
  <2>1. Live(payments) = {p \in Payments : payments[p] # Null}
    BY DEF Live, IInv, TypeInv, TablesInv
  <2>2. \A n \in NumbersOf(y) : n >= 1 /\ 1 .. n \subseteq NumbersOf(y)
    BY DEF Issued
  <2> QED BY <2>1, <2>2 DEF Issued, Distinct
<1> QED BY <1>1, Invariance, PTL

\* What a session has inserted and not committed is in flight.
LEMMA InsertingInFlight ==
  ASSUME IInv, NEW s \in Sessions, Inserting(s)
  PROVE  InFlight(session[s], payments) /\ session[s].payment \in PaymentRow
BY DEF IInv, TypeInv, SessionInv, SessionState, ObjectsLoaded, Inserting, HoldsPayment, InFlight

(* At most one create_payment of a year is between its INSERT and its      *)
(* COMMIT; around New Year, one of each year can be.                       *)
THEOREM InsertsAreSerial == Spec => []OneInsertInFlight
<1>1. IInv => OneInsertInFlight
  <2> SUFFICES ASSUME IInv, NEW s \in Sessions, NEW t \in Sessions, Inserting(s), Inserting(t),
                      session[s].payment.year = session[t].payment.year
               PROVE  s = t
    BY DEF OneInsertInFlight
  <2>1. session[s].payment.year \in Years
    BY InsertingInFlight DEF PaymentRow
  <2>2. PICK k \in Nat : Issued(session[s].payment.year, k)
    BY <2>1 DEF IInv
  <2> QED BY <2>2, InsertingInFlight DEF Issued, InFlightOf
<1> QED BY <1>1, Invariance, PTL

\* A step commits for one session.
LEMMA CommitsOnce ==
  ASSUME IInv, NEW s \in Sessions, NEW t \in Sessions, Commit(s), Commit(t)
  PROVE  s = t
BY DEF IInv, TypeInv, Commit, At, Idle

(* create_payment implements the atomic issuing of serial numbers: every   *)
(* step issues the successor of the last number of one year or leaves the  *)
(* numbers alone.                                                          *)
THEOREM NumberingImplemented == Spec => IssuesSerialNumbers
<1> DEFINE issued == [y \in Years |-> NumbersOf(y)]
<1>1. Init => issued = [y \in Years |-> {}]
  BY DEF Init, SessionsInit, NumbersOf
<1>2. ASSUME IInv, [Next]_vars, issued' # issued
      PROVE  \E y \in Years : Numbering!Issue(y)
  <2>1. PICK y \in Years : NumbersOf(y)' # NumbersOf(y)
    BY <1>2
  <2>2. PICK k \in Nat : Issued(y, k)
    BY <1>2 DEF IInv
  <2>3. NumbersOf(y)' = 1 .. (k + 1) /\ NumbersOf(y) = 1 .. k /\ CommitsNumber(y)
    BY <1>2, <2>1, <2>2, IssuedStep DEF IInv, Issued
  <2>4. ASSUME NEW z \in Years, z # y PROVE NumbersOf(z)' = NumbersOf(z)
    <3>1. ~CommitsNumber(z)
      BY <1>2, <2>3, <2>4, CommitsOnce DEF CommitsNumber
    <3>2. PICK n \in Nat : Issued(z, n)
      BY <1>2 DEF IInv
    <3>3. Issued(z, n)'
      BY <1>2, <3>1, <3>2, IssuedStep DEF IInv
    <3> QED BY <3>2, <3>3 DEF Issued
  <2>5. issued' = [issued EXCEPT ![y] = 1 .. (k + 1)]
    BY <2>3, <2>4
  <2>6. /\ k + 1 \in {1} \cup {m + 1 : m \in issued[y]}
        /\ issued[y] = 1 .. ((k + 1) - 1)
        /\ issued' = [issued EXCEPT ![y] = @ \cup {k + 1}]
    <3>1. issued[y] = 1 .. k
      BY <2>3
    <3>2. 1 .. (k + 1) = (1 .. k) \cup {k + 1}
      OBVIOUS
    <3>3. k + 1 \in {1} \cup {m + 1 : m \in 1 .. k} /\ (k + 1) - 1 = k
      OBVIOUS
    <3> HIDE DEF issued
    <3> QED BY <2>5, <3>1, <3>2, <3>3
  <2> QED BY <2>6 DEF Numbering!Issue
<1>3. Init => Numbering!Init
  BY <1>1 DEF Numbering!Init
<1>4. IInv /\ [Next]_vars => [\E y \in Years : Numbering!Issue(y)]_issued
  BY <1>2
<1> QED BY <1>3, <1>4, Invariance, PTL DEF Spec, IssuesSerialNumbers, Numbering!Spec
----------------------------------------------------------------------------
(* The steps of a session, and what each makes of the session.             *)

\* Statements that only read.
Reads(s) ==
  \/ EnsureNoDuplicate(s)
  \/ GenerateBookingNumber(s)
  \/ CheckReference(s)
  \/ CheckAmount(s)
  \/ GeneratePaymentNumber(s)
  \/ ReloadPayment(s) /\ ~Rollback(s)

\* Every step is one of these.
LEMMA StepCases ==
  ASSUME [Next]_vars
  PROVE  \/ UNCHANGED vars
         \/ \E s \in Sessions :
              \/ Rollback(s)
              \/ \E r \in Requests : Begin(s, r)
              \/ Reads(s)
              \/ InsertBooking(s) \/ LoadBooking(s) \/ SaveBooking(s)
              \/ ValidateBooking(s) \/ InsertPayment(s)
              \/ LoadPayment(s) \/ UpdatePayment(s)
              \/ SyncBooking(s) \/ FlushBooking(s) \/ Commit(s)
<1>1. CASE UNCHANGED vars
  BY <1>1
<1>2. ASSUME NEW s \in Sessions,
             (\E r \in Requests : Begin(s, r)) \/ Abandon(s)
      PROVE  Rollback(s) \/ (\E r \in Requests : Begin(s, r))
  BY <1>2 DEF Abandon
<1>3. ASSUME NEW s \in Sessions, BookingServiceNext(s)
      PROVE  Rollback(s) \/ Reads(s) \/ InsertBooking(s) \/ LoadBooking(s) \/ SaveBooking(s)
  BY <1>3 DEF BookingServiceNext, RejectCreateBooking, RejectUpdateBooking, CheckViolated, Reads
<1>4. ASSUME NEW s \in Sessions, PaymentServiceNext(s)
      PROVE  \/ Rollback(s) \/ Reads(s) \/ ValidateBooking(s) \/ InsertPayment(s)
             \/ LoadPayment(s) \/ UpdatePayment(s) \/ SyncBooking(s) \/ FlushBooking(s)
             \/ Commit(s)
  BY <1>4 DEF PaymentServiceNext, RejectBooking, RejectReference, RejectAmount,
              NumberConflict, RejectPayment, Reads
<1> QED
  BY <1>1, <1>2, <1>3, <1>4, Zenon DEF Next, Step

\* A session holds the objects x holds: only its step and its number, with
\* the year of the number, differ.
SameObjects(x, y) ==
  /\ y.request = x.request /\ y.started = x.started
  /\ y.booking_id = x.booking_id /\ y.payment_id = x.payment_id
  /\ y.booking = x.booking /\ y.loaded_booking = x.loaded_booking
  /\ y.payment = x.payment /\ y.loaded_payment = x.loaded_payment

\* A read leaves the tables and the objects of its session alone.
LEMMA ReadsFields ==
  ASSUME TypeInv, NEW s \in Sessions, Reads(s)
  PROVE  /\ session' = [session EXCEPT ![s] = session'[s]]
         /\ UNCHANGED <<bookings, payments, clock>>
         /\ SameObjects(session[s], session'[s])
         /\ Creating(session'[s]) <=> Creating(session[s])
         /\ Modifying(session'[s]) <=> Modifying(session[s])
         /\ ~Updating(session'[s]) /\ ~Updating(session[s])
         /\ ~Syncing(session'[s]) /\ ~Syncing(session[s])
         /\ session'[s].step \in {"nextval", "save"} =>
              /\ session[s].step \in {"load", "nextval"}
              /\ session'[s].request.op = "create_booking"
         /\ session'[s].step = "nextval" => EnsureNoDuplicate(s)
         /\ session'[s].step = "save" => session[s].step = "nextval"
         /\ session'[s].step # "load"
         /\ session[s].step \notin {"idle", "save"}
<1> DEFINE x == session[s]
           y == session'[s]
<1>1. x \in SessionState /\ ServesStep(x)
  BY DEF TypeInv, SessionInv
<1>2. PICK step, year, n :
        /\ session' = [session EXCEPT ![s].step = step, ![s].year = year, ![s].number = n]
        /\ \/ EnsureNoDuplicate(s) /\ x.step = "load" /\ step = "nextval"
              /\ x.request.op = "create_booking"
           \/ x.step = "nextval" /\ step = "save"
           \/ x.step = "reference" /\ x.request.op = "create_payment" /\ step = "pending"
           \/ x.step = "reference" /\ x.request.op # "create_payment" /\ step = "reload"
           \/ x.step = "pending" /\ step = "number"
           \/ x.step = "number" /\ step = "insert"
           \/ x.step = "reload" /\ step = "write"
  <2>1. CASE EnsureNoDuplicate(s)
    <3>1. session' = [session EXCEPT ![s].step = "nextval", ![s].year = x.year,
                                 ![s].number = x.number]
      BY <1>1, <2>1 DEF EnsureNoDuplicate, TypeInv, SessionState
    <3> QED BY <2>1, <3>1 DEF EnsureNoDuplicate, At, Request
  <2>2. CASE GenerateBookingNumber(s)
    <3>1. session' = [session EXCEPT ![s].step = "save", ![s].year = x.year,
                                     ![s].number = bookingSeq']
      BY <1>1, <2>2 DEF GenerateBookingNumber, TypeInv, SessionState
    <3> QED BY <2>2, <3>1 DEF GenerateBookingNumber, At
  <2>3. CASE CheckReference(s)
    <3> DEFINE step == IF Request(s).op = "create_payment" THEN "pending" ELSE "reload"
    <3>1. session' = [session EXCEPT ![s].step = step, ![s].year = x.year,
                                 ![s].number = x.number]
      BY <1>1, <2>3 DEF CheckReference, Goto, TypeInv, SessionState
    <3>2. x.step = "reference"
      BY <2>3 DEF CheckReference, At
    <3>3. CASE Request(s).op = "create_payment"
      <4>1. step = "pending" /\ x.request.op = "create_payment"
        BY <3>3 DEF Request
      <4> QED BY <3>1, <3>2, <4>1
    <3>4. CASE Request(s).op # "create_payment"
      <4>1. step = "reload" /\ x.request.op # "create_payment"
        BY <3>4 DEF Request
      <4> QED BY <3>1, <3>2, <4>1
    <3> QED BY <3>3, <3>4
  <2>4. CASE CheckAmount(s)
    <3>1. session' = [session EXCEPT ![s].step = "number", ![s].year = x.year,
                                 ![s].number = x.number]
      BY <1>1, <2>4 DEF CheckAmount, Goto, TypeInv, SessionState
    <3> QED BY <2>4, <3>1 DEF CheckAmount, At
  <2>5. CASE GeneratePaymentNumber(s)
    BY <2>5 DEF GeneratePaymentNumber, At
  <2>6. CASE ReloadPayment(s) /\ ~Rollback(s)
    <3>1. session' = [session EXCEPT ![s].step = "write", ![s].year = x.year,
                                 ![s].number = x.number]
      BY <1>1, <2>6 DEF ReloadPayment, Goto, TypeInv, SessionState
    <3> QED BY <2>6, <3>1 DEF ReloadPayment, At
  <2> QED BY <2>1, <2>2, <2>3, <2>4, <2>5, <2>6 DEF Reads
<1>3. y = [x EXCEPT !.step = step, !.year = year, !.number = n]
  BY <1>2 DEF TypeInv
<1>4. session' = [session EXCEPT ![s] = y]
  BY <1>2, <1>3 DEF TypeInv
<1>5. UNCHANGED <<bookings, payments, clock>>
  BY DEF Reads, EnsureNoDuplicate, GenerateBookingNumber, CheckReference, CheckAmount,
         GeneratePaymentNumber, ReloadPayment
<1>6. SameObjects(x, y) /\ y.step = step
  BY <1>1, <1>3 DEF SameObjects, SessionState
<1> HIDE DEF y
<1>7. /\ Creating(y) <=> Creating(x)
      /\ Modifying(y) <=> Modifying(x)
      /\ ~Updating(y) /\ ~Updating(x) /\ ~Syncing(y) /\ ~Syncing(x)
  BY <1>1, <1>2, <1>6 DEF ServesStep, SameObjects, Creating, Modifying, Updating, Syncing,
     CreateSteps, ModifySteps, SyncSteps, UpdateOps
<1>8. /\ y.step \in {"nextval", "save"} =>
           x.step \in {"load", "nextval"} /\ y.request.op = "create_booking"
      /\ y.step = "nextval" => EnsureNoDuplicate(s)
      /\ y.step = "save" => x.step = "nextval"
      /\ y.step # "load"
      /\ x.step \notin {"idle", "save"}
  BY <1>1, <1>2, <1>6 DEF ServesStep, SameObjects
<1> QED
  BY <1>4, <1>5, <1>6, <1>7, <1>8 DEF y

\* A rolled-back or new session holds nothing.
Empty(x) ==
  /\ x.booking_id = Null /\ x.payment_id = Null
  /\ x.booking = Null /\ x.loaded_booking = Null
  /\ x.payment = Null /\ x.loaded_payment = Null
  /\ x.step \in {"idle", "load"}

\* An idle session holds nothing.
LEMMA IdleEmpty == Empty(Idle) /\ Idle.step = "idle" /\ Idle.request = Null
BY DEF Empty, Idle

\* What Begin makes of a session.
LEMMA BeginFields ==
  ASSUME TypeInv, NEW s \in Sessions, NEW r \in Requests, Begin(s, r)
  PROVE  /\ session' = [session EXCEPT ![s] = session'[s]]
         /\ UNCHANGED <<bookings, payments>>
         /\ Empty(session'[s])
         /\ session'[s].step = "load" /\ session'[s].request = r
         /\ session'[s].started = clock'
         /\ clock' = IF r.op = "create_booking" THEN clock + 1 ELSE clock
BY DEF Begin, TypeInv, Idle, Empty

\* The handlers of bookings load the row they validated.
LEMMA LoadBookingFields ==
  ASSUME TypeInv, NEW s \in Sessions, LoadBooking(s)
  PROVE  LET x == session[s]
             y == session'[s]
             b == x.request.booking
         IN  /\ session' = [session EXCEPT ![s] = y]
             /\ UNCHANGED <<bookings, payments, clock>>
             /\ Updating(y) /\ y.request = x.request
             /\ b \in Bookings /\ bookings[b] \in BookingRow
             /\ ValidUpdate(bookings[b], x.request.set)
             /\ y.booking_id = b /\ y.booking = bookings[b] /\ y.loaded_booking = bookings[b]
             /\ y.payment_id = x.payment_id /\ y.payment = x.payment
             /\ y.loaded_payment = x.loaded_payment
<1> DEFINE x == session[s]
           y == session'[s]
           b == x.request.booking
<1>1. x \in SessionState /\ ServesStep(x)
  BY DEF TypeInv, SessionInv
<1>2. y = [x EXCEPT !.step = "save", !.booking_id = b, !.booking = bookings[b],
                    !.loaded_booking = bookings[b]]
  BY DEF LoadBooking, TypeInv, Request
<1>3. /\ session' = [session EXCEPT ![s] = y]
      /\ UNCHANGED <<bookings, payments, clock>>
      /\ ValidUpdate(bookings[b], x.request.set) /\ bookings[b] # Null
      /\ x.step = "load" /\ x.request.op \in UpdateOps
  BY <1>2 DEF LoadBooking, TypeInv, Request, At
<1>4. b \in Bookings /\ bookings[b] \in BookingRow
  BY <1>1, <1>3, BookingChangeFields DEF ServesStep, TypeInv, TablesInv
<1>5. /\ y.step = "save" /\ y.request = x.request
      /\ y.booking_id = b /\ y.booking = bookings[b] /\ y.loaded_booking = bookings[b]
      /\ y.payment_id = x.payment_id /\ y.payment = x.payment
      /\ y.loaded_payment = x.loaded_payment
  BY <1>1, <1>2 DEF SessionState
<1> HIDE DEF y
<1>6. Updating(y)
  BY <1>3, <1>5 DEF Updating
<1> QED
  BY <1>3, <1>4, <1>5, <1>6 DEF y

\* create_payment loads its booking.
LEMMA ValidateBookingFields ==
  ASSUME TypeInv, NEW s \in Sessions, ValidateBooking(s)
  PROVE  LET x == session[s]
             y == session'[s]
             b == x.request.booking
         IN  /\ session' = [session EXCEPT ![s] = y]
             /\ UNCHANGED <<bookings, payments, clock>>
             /\ Creating(y) /\ y.request = x.request /\ y.step = "reference"
             /\ y.request.op = "create_payment"
             /\ b \in Bookings /\ bookings[b] \in BookingRow
             /\ y.booking_id = b /\ y.booking = bookings[b] /\ y.loaded_booking = bookings[b]
             /\ y.payment_id = x.payment_id /\ y.payment = x.payment
             /\ y.loaded_payment = x.loaded_payment
<1> DEFINE x == session[s]
           y == session'[s]
           b == x.request.booking
<1>1. x \in SessionState /\ ServesStep(x)
  BY DEF TypeInv, SessionInv
<1>2. y = [x EXCEPT !.step = "reference", !.booking_id = b, !.booking = bookings[b],
                    !.loaded_booking = bookings[b]]
  BY DEF ValidateBooking, TypeInv, Request
<1>3. /\ session' = [session EXCEPT ![s] = y]
      /\ UNCHANGED <<bookings, payments, clock>>
      /\ bookings[b] # Null
      /\ x.step = "load" /\ x.request.op = "create_payment"
  BY <1>2 DEF ValidateBooking, TypeInv, Request, At
<1>4. b \in Bookings /\ bookings[b] \in BookingRow
  BY <1>1, <1>3, CreatePaymentFields DEF ServesStep, TypeInv, TablesInv
<1>5. /\ y.step = "reference" /\ y.request = x.request
      /\ y.booking_id = b /\ y.booking = bookings[b] /\ y.loaded_booking = bookings[b]
      /\ y.payment_id = x.payment_id /\ y.payment = x.payment
      /\ y.loaded_payment = x.loaded_payment
  BY <1>1, <1>2 DEF SessionState
<1> HIDE DEF y
<1>6. Creating(y)
  BY <1>3, <1>5 DEF Creating
<1> QED
  BY <1>3, <1>4, <1>5, <1>6 DEF y

\* The handlers of payments load a payment and its booking.
LEMMA LoadPaymentFields ==
  ASSUME TypeInv, NEW s \in Sessions, LoadPayment(s)
  PROVE  LET x == session[s]
             y == session'[s]
             p == x.request.payment
             b == payments[p].booking
         IN  /\ session' = [session EXCEPT ![s] = y]
             /\ UNCHANGED <<bookings, payments, clock>>
             /\ Modifying(y) /\ y.request = x.request /\ y.request.op \in PaymentOps
             /\ p \in Payments /\ payments[p] \in PaymentRow /\ PaymentFound(p)
             /\ AcceptedChange(payments[p], x.request)
             /\ b \in Bookings /\ bookings[b] \in BookingRow
             /\ y.payment_id = p /\ y.payment = payments[p] /\ y.loaded_payment = payments[p]
             /\ y.booking_id = b /\ y.booking = bookings[b] /\ y.loaded_booking = bookings[b]
<1> DEFINE x == session[s]
           y == session'[s]
           p == x.request.payment
           b == payments[p].booking
           step == IF x.request.op \in ModifyOps THEN "reference" ELSE "reload"
<1>1. x \in SessionState /\ ServesStep(x)
  BY DEF TypeInv, SessionInv
<1>2. y = [x EXCEPT !.step = step, !.payment_id = p, !.payment = payments[p],
                    !.loaded_payment = payments[p], !.booking_id = b,
                    !.booking = bookings[b], !.loaded_booking = bookings[b]]
  BY ZenonT(60) DEF LoadPayment, TypeInv, Request
<1>3. session' = [session EXCEPT ![s] = y]
  BY <1>2, ZenonT(60) DEF LoadPayment, TypeInv, Request
<1>4. /\ UNCHANGED <<bookings, payments, clock>>
      /\ PaymentFound(p) /\ AcceptedChange(payments[p], x.request)
      /\ x.step = "load" /\ x.request.op \in PaymentOps
  BY DEF LoadPayment, Request, At
<1>5. p \in Payments /\ payments[p] \in PaymentRow
  BY <1>1, <1>4, PaymentChangeFields DEF ServesStep, TypeInv, TablesInv, PaymentFound
<1>6. b \in Bookings /\ bookings[b] \in BookingRow
  BY <1>5, NullAssumption DEF TypeInv, TablesInv, PaymentRow
<1>7. /\ y.step = step /\ y.request = x.request
      /\ y.payment_id = p /\ y.payment = payments[p] /\ y.loaded_payment = payments[p]
      /\ y.booking_id = b /\ y.booking = bookings[b] /\ y.loaded_booking = bookings[b]
  BY <1>1, <1>2 DEF SessionState
<1> HIDE DEF y
<1>8. Modifying(y)
  BY <1>4, <1>7 DEF Modifying, ModifySteps, PaymentOps, ModifyOps
<1> QED
  BY <1>3, <1>4, <1>5, <1>6, <1>7, <1>8 DEF y

\* create_payment inserts a row under an unused key.
LEMMA InsertPaymentFields ==
  ASSUME TypeInv, NEW s \in Sessions, InsertPayment(s)
  PROVE  LET x == session[s]
             y == session'[s]
         IN  /\ session' = [session EXCEPT ![s] = y]
             /\ UNCHANGED <<bookings, payments, clock>>
             /\ Creating(x) /\ x.request.op = "create_payment"
             /\ Syncing(y) /\ y.request = x.request
             /\ y.step = IF x.request.status = "SUCCESS" THEN "sync" ELSE "commit"
             /\ y.payment_id \in Payments /\ payments[y.payment_id] = Null
             /\ PaymentFree(s, y.payment_id)
             /\ y.payment = NewPayment(s)
             /\ y.loaded_payment = x.loaded_payment
             /\ y.booking_id = x.booking_id
             /\ y.booking \in RefreshedBookings(s) /\ y.loaded_booking = y.booking
<1> DEFINE x == session[s]
           y == session'[s]
           step == IF x.request.status = "SUCCESS" THEN "sync" ELSE "commit"
<1>1. x \in SessionState /\ ServesStep(x)
  BY DEF TypeInv, SessionInv
<1>2. PICK p \in Payments, booking \in RefreshedBookings(s) :
        /\ payments[p] = Null
        /\ PaymentFree(s, p)
        /\ session' = [session EXCEPT ![s].step = step, ![s].payment_id = p,
                                      ![s].payment = NewPayment(s), ![s].booking = booking,
                                      ![s].loaded_booking = booking]
  BY ZenonT(60) DEF InsertPayment, Request
<1>3. y = [x EXCEPT !.step = step, !.payment_id = p, !.payment = NewPayment(s),
                    !.booking = booking, !.loaded_booking = booking]
  BY <1>2 DEF TypeInv
<1>4. session' = [session EXCEPT ![s] = y]
  BY <1>2, <1>3 DEF TypeInv
<1>5. /\ UNCHANGED <<bookings, payments, clock>>
      /\ x.step = "insert" /\ x.request.op = "create_payment" /\ Creating(x)
  BY <1>1 DEF InsertPayment, At, ServesStep, Creating, CreateSteps
<1>6. /\ y.step = step /\ y.request = x.request /\ y.payment_id = p
      /\ y.payment = NewPayment(s) /\ y.loaded_payment = x.loaded_payment
      /\ y.booking_id = x.booking_id /\ y.booking = booking /\ y.loaded_booking = booking
  BY <1>1, <1>3 DEF SessionState
<1> HIDE DEF y
<1>7. Syncing(y)
  BY <1>6 DEF Syncing, SyncSteps
<1> QED
  BY <1>2, <1>4, <1>5, <1>6, <1>7 DEF y

\* The UPDATE of a payment: object is what the request makes of the payment
\* as loaded, and row what the UPDATE leaves in the table.
UpdatedPayment(x) == Assigned(x.payment, x.request.set)
UpdatedRow(x) == Written(payments[x.payment_id], x.loaded_payment, UpdatedPayment(x))

\* What an UPDATE of the payment makes of the session.
LEMMA UpdatePaymentFields ==
  ASSUME TypeInv, NEW s \in Sessions, UpdatePayment(s)
  PROVE  LET x == session[s]
             y == session'[s]
             dirty == UpdatedPayment(x) # x.loaded_payment
         IN  /\ session' = [session EXCEPT ![s] = y]
             /\ UNCHANGED <<bookings, payments, clock>>
             /\ Modifying(x) /\ x.request.op \in PaymentOps
             /\ PaymentChange(x.request.set) /\ HandlerAssigns(x.request)
             /\ Syncing(y) /\ y.request = x.request
             /\ y.step = IF \/ x.request.op = "update_payment_status"
                            \/ /\ x.request.op = "update_payment"
                               /\ UpdatedRow(x).status \in {"SUCCESS", "REFUNDED"}
                         THEN "sync" ELSE "commit"
             /\ x.payment_id \in Payments
             /\ dirty => PaymentFree(s, x.payment_id)
             /\ y.payment_id = x.payment_id /\ y.booking_id = x.booking_id
             /\ y.payment = UpdatedRow(x)
             /\ y.loaded_payment = IF dirty THEN x.loaded_payment ELSE UpdatedRow(x)
             /\ y.booking \in RefreshedBookings(s) /\ y.loaded_booking = y.booking
<1> DEFINE x == session[s]
           y == session'[s]
           dirty == UpdatedPayment(x) # x.loaded_payment
           row == UpdatedRow(x)
           step == IF \/ x.request.op = "update_payment_status"
                      \/ /\ x.request.op = "update_payment"
                         /\ row.status \in {"SUCCESS", "REFUNDED"}
                   THEN "sync" ELSE "commit"
           loaded == IF dirty THEN x.loaded_payment ELSE row
<1>1. x \in SessionState /\ ServesStep(x) /\ ObjectsLoaded(x, bookings, payments)
  BY DEF TypeInv, SessionInv
<1>2. PICK booking \in RefreshedBookings(s) :
        session' = [session EXCEPT ![s].step = step, ![s].payment = row,
                                   ![s].loaded_payment = loaded,
                                   ![s].booking = booking, ![s].loaded_booking = booking]
  BY ZenonT(60) DEF UpdatePayment, UpdatedRow, UpdatedPayment, Request
<1>3. y = [x EXCEPT !.step = step, !.payment = row, !.loaded_payment = loaded,
                    !.booking = booking, !.loaded_booking = booking]
  BY <1>2 DEF TypeInv
<1>4. session' = [session EXCEPT ![s] = y]
  BY <1>2, <1>3 DEF TypeInv
<1>5. /\ UNCHANGED <<bookings, payments, clock>>
      /\ x.step = "write"
      /\ dirty => PaymentFree(s, x.payment_id)
  BY ZenonT(60) DEF UpdatePayment, UpdatedPayment, Request, At
<1>6. /\ x.request \in Requests /\ x.request.op \in PaymentOps
      /\ Modifying(x) /\ x.payment_id \in Payments
  BY <1>1, <1>5 DEF ServesStep, ObjectsLoaded, Modifying, ModifySteps
<1>7. PaymentChange(x.request.set) /\ HandlerAssigns(x.request)
  BY <1>6, PaymentChangeFields
<1>8. /\ y.step = step /\ y.request = x.request /\ y.payment_id = x.payment_id
      /\ y.payment = row /\ y.loaded_payment = loaded
      /\ y.booking_id = x.booking_id /\ y.booking = booking /\ y.loaded_booking = booking
  BY <1>1, <1>3 DEF SessionState
<1> HIDE DEF y, row, loaded
<1>9. Syncing(y)
  BY <1>8 DEF Syncing, SyncSteps
<1> QED
  BY <1>4, <1>5, <1>6, <1>7, <1>8, <1>9 DEF y, row, loaded

\* Synchronising assigns to the booking object.
LEMMA SyncBookingFields ==
  ASSUME TypeInv, NEW s \in Sessions, SyncBooking(s)
  PROVE  LET x == session[s]
             y == session'[s]
         IN  /\ session' = [session EXCEPT ![s] = y]
             /\ UNCHANGED <<bookings, payments, clock>>
             /\ Syncing(x) /\ x.step = "sync"
             /\ Syncing(y) /\ y.step = "flush"
             /\ y.booking = Synced(x.booking, Balance(s))
             /\ y.request = x.request
             /\ y.booking_id = x.booking_id /\ y.loaded_booking = x.loaded_booking
             /\ y.payment_id = x.payment_id /\ y.payment = x.payment
             /\ y.loaded_payment = x.loaded_payment
<1> DEFINE x == session[s]
           y == session'[s]
           object == Synced(x.booking, Balance(s))
<1>1. x \in SessionState
  BY DEF TypeInv
<1>2. y = [x EXCEPT !.step = "flush", !.booking = object]
  BY DEF SyncBooking, TypeInv
<1>3. session' = [session EXCEPT ![s] = y]
  BY <1>2 DEF SyncBooking, TypeInv
<1> HIDE DEF object
<1>4. /\ y.step = "flush" /\ y.request = x.request /\ y.payment_id = x.payment_id
      /\ y.payment = x.payment /\ y.loaded_payment = x.loaded_payment
      /\ y.booking_id = x.booking_id /\ y.booking = object
      /\ y.loaded_booking = x.loaded_booking
  BY <1>1, <1>2 DEF SessionState
<1>5. UNCHANGED <<bookings, payments, clock>> /\ x.step = "sync"
  BY DEF SyncBooking, At
<1> QED
  BY <1>3, <1>4, <1>5 DEF object, Syncing, SyncSteps

\* The UPDATE of the booking, and what it leaves in the table.
FlushedRow(x) == Written(bookings[x.booking_id], x.loaded_booking, x.booking)

\* What an UPDATE of the booking makes of the session.
LEMMA FlushBookingFields ==
  ASSUME TypeInv, NEW s \in Sessions, FlushBooking(s)
  PROVE  LET x == session[s]
             y == session'[s]
             dirty == x.booking # x.loaded_booking
         IN  /\ session' = [session EXCEPT ![s] = y]
             /\ UNCHANGED <<bookings, payments, clock>>
             /\ Syncing(x) /\ x.step = "flush"
             /\ Syncing(y) /\ y.step = "commit"
             /\ dirty => BookingFree(s, x.booking_id)
             /\ y.booking = FlushedRow(x)
             /\ y.loaded_booking = IF dirty THEN x.loaded_booking ELSE FlushedRow(x)
             /\ y.request = x.request /\ y.booking_id = x.booking_id
             /\ y.payment_id = x.payment_id /\ y.payment = x.payment
             /\ y.loaded_payment = x.loaded_payment
<1> DEFINE x == session[s]
           y == session'[s]
           row == FlushedRow(x)
           dirty == x.booking # x.loaded_booking
           loaded == IF dirty THEN x.loaded_booking ELSE row
<1>1. x \in SessionState
  BY DEF TypeInv
<1>2. session' = [session EXCEPT ![s].step = "commit", ![s].booking = row,
                                 ![s].loaded_booking = loaded]
  BY ZenonT(60) DEF FlushBooking, FlushedRow
<1>3. y = [x EXCEPT !.step = "commit", !.booking = row, !.loaded_booking = loaded]
  BY <1>2 DEF TypeInv
<1>4. session' = [session EXCEPT ![s] = y]
  BY <1>2, <1>3 DEF TypeInv
<1>5. /\ UNCHANGED <<bookings, payments, clock>>
      /\ x.step = "flush"
      /\ dirty => BookingFree(s, x.booking_id)
  BY ZenonT(60) DEF FlushBooking, At
<1> HIDE DEF row, loaded
<1>6. /\ y.step = "commit" /\ y.request = x.request /\ y.payment_id = x.payment_id
      /\ y.payment = x.payment /\ y.loaded_payment = x.loaded_payment
      /\ y.booking_id = x.booking_id /\ y.booking = row /\ y.loaded_booking = loaded
  BY <1>1, <1>3 DEF SessionState
<1> QED
  BY <1>4, <1>5, <1>6 DEF row, loaded, Syncing, SyncSteps

\* A commit writes the rows its session holds.
LEMMA CommitFields ==
  ASSUME TypeInv, NEW s \in Sessions, Commit(s)
  PROVE  LET x == session[s] IN
         /\ session' = [session EXCEPT ![s] = Idle] /\ session'[s] = Idle
         /\ Syncing(x) /\ x.step = "commit"
         /\ UNCHANGED clock
         /\ x.payment_id \in Payments /\ x.booking_id \in Bookings
         /\ \A p \in Payments : payments'[p] =
              IF p = x.payment_id /\ x.payment # x.loaded_payment THEN x.payment ELSE payments[p]
         /\ \A b \in Bookings : bookings'[b] =
              IF b = x.booking_id /\ x.booking # x.loaded_booking THEN x.booking ELSE bookings[b]
<1>1. Syncing(session[s]) /\ session[s].step = "commit"
  BY DEF Commit, At, Syncing, SyncSteps
<1> QED
  BY <1>1, SyncingObjects DEF Commit, VisiblePayments, HoldsPayment, HoldsBooking, At, TypeInv

\* So does a booking handler.
LEMMA SaveBookingFields ==
  ASSUME TypeInv, NEW s \in Sessions, SaveBooking(s)
  PROVE  LET x == session[s]
             b == x.booking_id
         IN  /\ session' = [session EXCEPT ![s] = Idle] /\ session'[s] = Idle
             /\ Updating(x) /\ x.step = "save"
             /\ UNCHANGED <<payments, clock>>
             /\ b \in Bookings /\ bookings[b] \in BookingRow
             /\ x.booking \in BookingRow /\ x.loaded_booking \in BookingRow
             /\ x.request \in Requests /\ x.request.op \in UpdateOps
             /\ BookingChange(x.request.set)
             /\ BookingFree(s, b)
             /\ bookings' = [bookings EXCEPT ![b] = SavedBooking(s)]
             /\ SavedBooking(s) = Written(bookings[b], x.loaded_booking,
                                          Assigned(x.booking, x.request.set))
<1> DEFINE x == session[s]
<1>1. x \in SessionState /\ ServesStep(x) /\ ObjectsLoaded(x, bookings, payments)
  BY DEF TypeInv, SessionInv
<1>2. Updating(x) /\ x.step = "save" /\ x.request.op \in UpdateOps /\ x.request \in Requests
  BY <1>1 DEF SaveBooking, At, Request, Updating, ServesStep
<1>3. /\ x.booking_id \in Bookings /\ bookings[x.booking_id] \in BookingRow
      /\ x.booking \in BookingRow /\ x.loaded_booking \in BookingRow
  BY <1>1, <1>2 DEF ObjectsLoaded, SessionState, TypeInv, TablesInv
<1>4. BookingChange(x.request.set)
  BY <1>2, BookingChangeFields
<1> QED
  BY <1>2, <1>3, <1>4 DEF SaveBooking, SavedBooking, Request, TypeInv

\* And create_booking.
LEMMA InsertBookingFields ==
  ASSUME TypeInv, NEW s \in Sessions, InsertBooking(s)
  PROVE  LET x == session[s] IN
         /\ session' = [session EXCEPT ![s] = Idle] /\ session'[s] = Idle
         /\ UNCHANGED <<payments, clock>>
         /\ x.step = "save" /\ x.request \in Requests /\ x.request.op = "create_booking"
         /\ x.request.row \in BookingRow
         /\ \E b \in Bookings :
              /\ bookings[b] = Null
              /\ bookings' = [bookings EXCEPT ![b] =
                   [x.request.row EXCEPT !.number = x.number, !.created = x.started]]
<1>1. session[s].step = "save" /\ ServesStep(session[s])
  BY DEF InsertBooking, At, TypeInv, SessionInv
<1>2. session[s].request \in Requests /\ session[s].request.op = "create_booking"
  BY <1>1 DEF InsertBooking, ServesStep, Request
<1> QED
  BY <1>1, <1>2, CreateBookingFields DEF InsertBooking, Request, TypeInv
----------------------------------------------------------------------------
(* Columns.  Between its UPDATE and its commit a session holds the row as   *)
(* it will be: the columns its request does not assign are the committed   *)
(* ones, because nobody else can write a row that is locked (Locks).       *)

\* What an UPDATE writes, column by column.
LEMMA WrittenColumns ==
  ASSUME NEW row, NEW loaded, NEW object
  PROVE  /\ DOMAIN Written(row, loaded, object) = DOMAIN row
         /\ \A c \in DOMAIN row : Written(row, loaded, object)[c] =
              IF object[c] # loaded[c] THEN object[c] ELSE row[c]
BY DEF Written

\* What a request assigns, column by column.
LEMMA AssignedColumns ==
  ASSUME NEW row, NEW set
  PROVE  /\ DOMAIN Assigned(row, set) = DOMAIN row
         /\ \A c \in DOMAIN row : Assigned(row, set)[c] =
              IF c \in DOMAIN set THEN set[c] ELSE row[c]
BY DEF Assigned

\* The columns of a booking and of a payment.
LEMMA RowDomains ==
  /\ \A row \in BookingRow : DOMAIN row = {"pair", "number", "created", "amount", "token",
       "status", "payment_status", "agent", "active"}
  /\ \A row \in PaymentRow : DOMAIN row = {"booking", "year", "number", "amount",
       "status", "reference", "active"}
BY DEF BookingRow, PaymentRow

SyncColumns == {"status", "payment_status"}

\* row and other differ in the given columns at most.
DifferIn(row, other, columns) == \A c \in DOMAIN row \ columns : other[c] = row[c]

\* The payment a session x has written is to be committed over row p: only
\* columns of the request differ, and it is not active again.
PaymentWrite(x, p) ==
  /\ x.request.op \in PaymentOps
  /\ DifferIn(p, x.payment, DOMAIN x.request.set)
  /\ p.active = FALSE => x.payment.active = FALSE

\* Session x against the tables.
SessionColumns(x, b, p) ==
  /\ Modifying(x) => x.payment = x.loaded_payment /\ x.payment.active = TRUE
  /\ Updating(x) => x.booking = x.loaded_booking /\ x.booking.active = TRUE
  /\ Syncing(x) /\ x.payment # x.loaded_payment /\ p[x.payment_id] # Null =>
       PaymentWrite(x, p[x.payment_id])
  /\ x.step = "sync" => x.booking = x.loaded_booking
  /\ x.step = "flush" => DifferIn(x.booking, x.loaded_booking, SyncColumns)
  /\ x.step = "commit" /\ x.booking # x.loaded_booking =>
       DifferIn(b[x.booking_id], x.booking, SyncColumns)

WritesPayment(x, p) == x.payment_id = p /\ x.payment # x.loaded_payment
WritesBooking(x, b) ==
  x.step = "commit" /\ x.booking_id = b /\ x.booking # x.loaded_booking

\* No row is locked twice.
Locks ==
  \A s \in Sessions : \A t \in Sessions \ {s} :
    /\ \A p \in Payments : ~(WritesPayment(session[s], p) /\ WritesPayment(session[t], p))
    /\ \A b \in Bookings : ~(WritesBooking(session[s], b) /\ WritesBooking(session[t], b))

ColumnsInv ==
  /\ TypeInv
  /\ Locks
  /\ \A s \in Sessions : SessionColumns(session[s], bookings, payments)

\* A session that has loaded nothing keeps to it.
LEMMA EmptyColumns ==
  ASSUME NEW x, NEW b, NEW p, Empty(x)
  PROVE  SessionColumns(x, b, p) /\ \A id : ~WritesPayment(x, id) /\ ~WritesBooking(x, id)
BY DEF Empty, SessionColumns, WritesPayment, WritesBooking, Modifying, ModifySteps,
       Updating, Syncing, SyncSteps

\* A session keeps to it while others leave the rows it has locked alone.
LEMMA ColumnsStable ==
  ASSUME NEW x, NEW b, NEW p, NEW b2, NEW p2, SessionColumns(x, b, p),
         SessionInv(x, b, p),
         \A id \in Payments : WritesPayment(x, id) => p2[id] = p[id],
         \A id \in Bookings : WritesBooking(x, id) => b2[id] = b[id]
  PROVE  SessionColumns(x, b2, p2)
<1>1. Syncing(x) => x.payment_id \in Payments /\ x.booking_id \in Bookings
  BY DEF SessionInv, ObjectsLoaded
<1>2. x.step = "commit" => Syncing(x)
  BY DEF Syncing, SyncSteps
<1> QED
  BY <1>1, <1>2 DEF SessionColumns, WritesPayment, WritesBooking

\* A step that makes session s become y, and writes only rows that nobody else
\* has locked, keeps the invariant.
LEMMA ColumnsFrame ==
  ASSUME ColumnsInv, TypeInv', NEW s \in Sessions, NEW y,
         session' = [session EXCEPT ![s] = y],
         SessionColumns(y, bookings', payments'),
         \A id \in Payments : WritesPayment(y, id) =>
           \A t \in Sessions \ {s} : ~WritesPayment(session[t], id),
         \A id \in Bookings : WritesBooking(y, id) =>
           \A t \in Sessions \ {s} : ~WritesBooking(session[t], id),
         \A t \in Sessions \ {s} :
           /\ \A id \in Payments : WritesPayment(session[t], id) => payments'[id] = payments[id]
           /\ \A id \in Bookings : WritesBooking(session[t], id) => bookings'[id] = bookings[id]
  PROVE  ColumnsInv'
<1>1. session'[s] = y /\ \A t \in Sessions \ {s} : session'[t] = session[t]
  BY DEF ColumnsInv, TypeInv
<1>2. Locks'
  BY <1>1 DEF ColumnsInv, Locks
<1>3. ASSUME NEW t \in Sessions
      PROVE  SessionColumns(session'[t], bookings', payments')
  <2>1. CASE t = s
    BY <1>1, <2>1
  <2>2. CASE t # s
    <3>1. SessionInv(session[t], bookings, payments)
      BY DEF ColumnsInv, TypeInv
    <3>2. SessionColumns(session[t], bookings', payments')
      BY <2>2, <3>1, ColumnsStable DEF ColumnsInv
    <3> QED BY <1>1, <2>2, <3>2
  <2> QED BY <2>1, <2>2
<1> QED
  BY <1>2, <1>3 DEF ColumnsInv

\* A session that locks a row found it free.
LEMMA FreeRows ==
  ASSUME NEW s \in Sessions
  PROVE  /\ \A id : PaymentFree(s, id) =>
              \A t \in Sessions \ {s} : ~WritesPayment(session[t], id)
         /\ \A id : BookingFree(s, id) =>
              \A t \in Sessions \ {s} : ~WritesBooking(session[t], id)
BY DEF PaymentFree, BookingFree, HoldsPayment, HoldsBooking, At, WritesPayment, WritesBooking

\* An UPDATE of a payment locks its row, unless it changes nothing.
LEMMA UpdatePaymentColumns ==
  ASSUME ColumnsInv, TypeInv', NEW s \in Sessions, UpdatePayment(s)
  PROVE  ColumnsInv'
<1> DEFINE x == session[s]
           y == session'[s]
           p == payments[x.payment_id]
           set == x.request.set
           object == UpdatedPayment(x)
           row == UpdatedRow(x)
<1>1. /\ session' = [session EXCEPT ![s] = y]
      /\ UNCHANGED <<bookings, payments, clock>>
      /\ Modifying(x) /\ x.request.op \in PaymentOps
      /\ Syncing(y) /\ y.step \in {"sync", "commit"} /\ y.request = x.request
      /\ x.payment_id \in Payments
      /\ object # x.loaded_payment => PaymentFree(s, x.payment_id)
      /\ y.payment_id = x.payment_id
      /\ y.payment = row
      /\ y.loaded_payment = IF object # x.loaded_payment THEN x.loaded_payment ELSE row
      /\ y.loaded_booking = y.booking
  BY UpdatePaymentFields DEF ColumnsInv
<1>2. x \in SessionState /\ ObjectsLoaded(x, bookings, payments)
      /\ SessionColumns(x, bookings, payments)
  BY DEF ColumnsInv, TypeInv, SessionInv
<1>3. /\ p \in PaymentRow /\ x.payment \in PaymentRow
      /\ x.loaded_payment = x.payment /\ x.payment.active = TRUE
  BY <1>1, <1>2 DEF SessionState, ObjectsLoaded, SessionColumns, ColumnsInv, TypeInv, TablesInv
<1> HIDE DEF y
<1>4. ASSUME NEW c \in DOMAIN p \ DOMAIN set
      PROVE  row[c] = p[c]
  <2>1. c \in DOMAIN x.payment
    BY <1>3, RowDomains
  <2>2. object[c] = x.loaded_payment[c]
    BY <1>3, <2>1, AssignedColumns DEF UpdatedPayment
  <2> QED BY <2>2, WrittenColumns DEF UpdatedRow
<1>5. p.active = FALSE => row.active = FALSE
  <2>1. "active" \in DOMAIN p /\ "active" \in DOMAIN x.payment
    BY <1>3, RowDomains
  <2>2. object \in PaymentRow
    BY <1>1, <1>3, AssignedPayment, UpdatePaymentFields DEF UpdatedPayment, ColumnsInv
  <2>3. object.active \in BOOLEAN /\ p.active \in BOOLEAN
    BY <1>3, <2>2 DEF PaymentRow
  <2>4. row["active"] = IF object["active"] # x.loaded_payment["active"]
                        THEN object["active"] ELSE p["active"]
    BY <2>1, WrittenColumns DEF UpdatedRow
  <2> QED BY <1>3, <2>3, <2>4
<1>6. PaymentWrite(y, p)
  BY <1>1, <1>4, <1>5 DEF PaymentWrite, DifferIn
<1>7. SessionColumns(y, bookings, payments)
  BY <1>1, <1>6 DEF SessionColumns, Modifying, Updating, ModifySteps, Syncing, SyncSteps,
     PaymentOps, ModifyOps
<1>8. \A id \in Payments : WritesPayment(y, id) =>
        \A t \in Sessions \ {s} : ~WritesPayment(session[t], id)
  BY <1>1, FreeRows DEF WritesPayment
<1>9. \A id : ~WritesBooking(y, id)
  BY <1>1 DEF WritesBooking
<1>10. SessionColumns(y, bookings', payments')
  BY <1>1, <1>7
<1> QED
  BY <1>1, <1>8, <1>9, <1>10, ColumnsFrame

\* A step that locks no booking and leaves the tables alone.
LEMMA ColumnsLocal ==
  ASSUME ColumnsInv, TypeInv', NEW s \in Sessions, NEW y,
         session' = [session EXCEPT ![s] = y],
         UNCHANGED <<bookings, payments>>,
         SessionColumns(y, bookings, payments),
         \A id : ~WritesBooking(y, id),
         \A id \in Payments : WritesPayment(y, id) =>
           \A t \in Sessions \ {s} : ~WritesPayment(session[t], id)
  PROVE  ColumnsInv'
<1>1. SessionColumns(y, bookings', payments')
  OBVIOUS
<1> QED BY <1>1, ColumnsFrame

\* A session that has loaded no payment, or not written it, has locked none.
LEMMA UnwrittenPayment ==
  ASSUME NEW x, x.payment = x.loaded_payment
  PROVE  \A id : ~WritesPayment(x, id)
BY DEF WritesPayment

\* Steps that end or begin a session.
LEMMA EmptyStepColumns ==
  ASSUME ColumnsInv, TypeInv', NEW s \in Sessions, NEW y, Empty(y),
         session' = [session EXCEPT ![s] = y],
         \A t \in Sessions \ {s} :
           /\ \A id \in Payments : WritesPayment(session[t], id) => payments'[id] = payments[id]
           /\ \A id \in Bookings : WritesBooking(session[t], id) => bookings'[id] = bookings[id]
  PROVE  ColumnsInv'
<1>1. /\ SessionColumns(y, bookings', payments')
      /\ \A id : ~WritesPayment(y, id) /\ ~WritesBooking(y, id)
  BY EmptyColumns
<1> QED BY <1>1, ColumnsFrame

\* A session that has a booking locked has loaded it.
LEMMA LockedLoaded ==
  ASSUME TypeInv, NEW t \in Sessions, NEW id, WritesBooking(session[t], id)
  PROVE  bookings[id] # Null
BY DEF TypeInv, SessionInv, ObjectsLoaded, WritesBooking, Syncing, SyncSteps

\* The statements that only read.
LEMMA ReadsColumns ==
  ASSUME ColumnsInv, TypeInv', NEW s \in Sessions, Reads(s)
  PROVE  ColumnsInv'
<1> DEFINE x == session[s]
           y == session'[s]
<1>1. /\ session' = [session EXCEPT ![s] = y]
      /\ UNCHANGED <<bookings, payments>>
      /\ SameObjects(x, y)
      /\ Modifying(y) <=> Modifying(x)
      /\ ~Updating(y) /\ ~Syncing(y)
  BY ReadsFields DEF ColumnsInv
<1> HIDE DEF y
<1>2. SessionColumns(x, bookings, payments)
  BY DEF ColumnsInv
<1>3. SessionColumns(y, bookings, payments)
  BY <1>1, <1>2 DEF SessionColumns, SameObjects, Syncing, SyncSteps
<1>4. \A id : ~WritesBooking(y, id)
  BY <1>1 DEF WritesBooking, Syncing, SyncSteps
<1>5. \A id \in Payments : WritesPayment(y, id) =>
        \A t \in Sessions \ {s} : ~WritesPayment(session[t], id)
  BY <1>1 DEF ColumnsInv, Locks, WritesPayment, SameObjects
<1> QED BY <1>1, <1>3, <1>4, <1>5, ColumnsLocal

\* Loading a booking, for an update or for a payment.
LEMMA LoadColumns ==
  ASSUME ColumnsInv, TypeInv', NEW s \in Sessions, LoadBooking(s) \/ ValidateBooking(s)
  PROVE  ColumnsInv'
<1> DEFINE y == session'[s]
<1>1. /\ session' = [session EXCEPT ![s] = y]
      /\ UNCHANGED <<bookings, payments>>
      /\ y.booking = y.loaded_booking
      /\ \/ Updating(y) /\ y.booking \in BookingRow /\ y.booking.active
         \/ y.step = "reference" /\ y.request.op = "create_payment"
  BY LoadBookingFields, ValidateBookingFields DEF ColumnsInv, ValidUpdate
<1>2. y \in SessionState /\ ObjectsLoaded(y, bookings', payments')
  BY DEF TypeInv, SessionInv
<1> HIDE DEF y
<1>3. /\ ~Modifying(y) /\ ~Syncing(y) /\ y.step # "commit"
      /\ Updating(y) => y.booking.active = TRUE
  <2>1. Updating(y) => y.step = "save"
    BY DEF Updating
  <2>2. y.booking \in BookingRow => y.booking.active \in BOOLEAN
    BY DEF BookingRow
  <2> QED BY <1>1, <2>1, <2>2 DEF Modifying, ModifySteps, Syncing, SyncSteps, Updating
<1>4. y.payment = y.loaded_payment
  BY <1>2, <1>3 DEF ObjectsLoaded
<1>5. SessionColumns(y, bookings, payments)
  BY <1>1, <1>3, <1>4 DEF SessionColumns, Syncing, SyncSteps
<1>6. \A id : ~WritesBooking(y, id)
  BY <1>3 DEF WritesBooking
<1> QED BY <1>1, <1>4, <1>5, <1>6, UnwrittenPayment, ColumnsLocal

\* Loading a payment.
LEMMA LoadPaymentColumns ==
  ASSUME ColumnsInv, TypeInv', NEW s \in Sessions, LoadPayment(s)
  PROVE  ColumnsInv'
<1> DEFINE y == session'[s]
<1>1. /\ session' = [session EXCEPT ![s] = y]
      /\ UNCHANGED <<bookings, payments>>
      /\ y.booking = y.loaded_booking /\ y.payment = y.loaded_payment
      /\ y.payment \in PaymentRow /\ y.payment.active
      /\ Modifying(y)
  BY LoadPaymentFields DEF ColumnsInv, PaymentFound
<1> HIDE DEF y
<1>2. y.payment.active = TRUE
  BY <1>1 DEF PaymentRow
<1>3. y.step \in {"reference", "reload", "write"}
  BY <1>1 DEF Modifying, ModifySteps
<1>4. SessionColumns(y, bookings, payments)
  BY <1>1, <1>2, <1>3 DEF SessionColumns, Updating, Syncing, SyncSteps
<1>5. \A id : ~WritesBooking(y, id)
  BY <1>3 DEF WritesBooking
<1> QED BY <1>1, <1>4, <1>5, UnwrittenPayment, ColumnsLocal

\* An INSERT of a payment locks its key.
LEMMA InsertPaymentColumns ==
  ASSUME ColumnsInv, TypeInv', NEW s \in Sessions, InsertPayment(s)
  PROVE  ColumnsInv'
<1> DEFINE y == session'[s]
<1>1. /\ session' = [session EXCEPT ![s] = y]
      /\ UNCHANGED <<bookings, payments>>
      /\ y.step \in {"sync", "commit"}
      /\ payments[y.payment_id] = Null
      /\ PaymentFree(s, y.payment_id)
      /\ y.loaded_booking = y.booking
  BY InsertPaymentFields DEF ColumnsInv
<1> HIDE DEF y
<1>2. SessionColumns(y, bookings, payments)
  BY <1>1 DEF SessionColumns, Modifying, ModifySteps, Updating
<1>3. \A id : ~WritesBooking(y, id)
  BY <1>1 DEF WritesBooking
<1>4. \A id \in Payments : WritesPayment(y, id) =>
        \A t \in Sessions \ {s} : ~WritesPayment(session[t], id)
  BY <1>1, FreeRows DEF WritesPayment
<1> QED BY <1>1, <1>2, <1>3, <1>4, ColumnsLocal

\* Synchronising assigns the two columns only.
LEMMA SyncedColumns ==
  ASSUME NEW row \in BookingRow, NEW paid
  PROVE  /\ DOMAIN Synced(row, paid) = DOMAIN row
         /\ \A c \in DOMAIN row \ SyncColumns : Synced(row, paid)[c] = row[c]
<1> DEFINE state == PaymentStatusOf(paid, row.amount)
           one == [row EXCEPT !.payment_status = state]
<1>1. Synced(row, paid) =
        [one EXCEPT !.status = IF state = "PAID" THEN "COMPLETED" ELSE row.status]
  BY DEF Synced, BookingRow
<1>2. DOMAIN one = DOMAIN row /\ \A c \in DOMAIN row \ SyncColumns : one[c] = row[c]
  BY DEF SyncColumns, BookingRow
<1> HIDE DEF one
<1> QED BY <1>1, <1>2 DEF SyncColumns

\* The booking is synchronised.
LEMMA SyncBookingColumns ==
  ASSUME ColumnsInv, TypeInv', NEW s \in Sessions, SyncBooking(s)
  PROVE  ColumnsInv'
<1> DEFINE x == session[s]
           y == session'[s]
<1>1. /\ session' = [session EXCEPT ![s] = y]
      /\ UNCHANGED <<bookings, payments>>
      /\ Syncing(x) /\ x.step = "sync" /\ y.step = "flush"
      /\ y.booking = Synced(x.booking, Balance(s))
      /\ y.request = x.request /\ y.loaded_booking = x.loaded_booking
      /\ y.payment_id = x.payment_id /\ y.payment = x.payment
      /\ y.loaded_payment = x.loaded_payment
  BY SyncBookingFields DEF ColumnsInv
<1> HIDE DEF y
<1>2. SessionColumns(x, bookings, payments) /\ x.booking \in BookingRow
  BY <1>1 DEF ColumnsInv, TypeInv, SessionInv, SessionState, ObjectsLoaded
<1>3. x.booking = x.loaded_booking
  BY <1>1, <1>2 DEF SessionColumns
<1>4. DifferIn(y.booking, y.loaded_booking, SyncColumns)
  BY <1>1, <1>2, <1>3, SyncedColumns DEF DifferIn
<1>5. PaymentWrite(x, payments[x.payment_id]) => PaymentWrite(y, payments[x.payment_id])
  BY <1>1 DEF PaymentWrite
<1>6. SessionColumns(y, bookings, payments)
  BY <1>1, <1>2, <1>4, <1>5 DEF SessionColumns, Modifying, ModifySteps, Updating
<1>7. \A id : ~WritesBooking(y, id)
  BY <1>1 DEF WritesBooking
<1>8. \A id \in Payments : WritesPayment(y, id) =>
        \A t \in Sessions \ {s} : ~WritesPayment(session[t], id)
  BY <1>1 DEF ColumnsInv, Locks, WritesPayment
<1> QED BY <1>1, <1>6, <1>7, <1>8, ColumnsLocal

\* The UPDATE of the booking writes the columns synchronised, into the row
\* that is committed by then, and locks it.
LEMMA FlushBookingColumns ==
  ASSUME ColumnsInv, TypeInv', NEW s \in Sessions, FlushBooking(s)
  PROVE  ColumnsInv'
<1> DEFINE x == session[s]
           y == session'[s]
           b == x.booking_id
<1>1. /\ session' = [session EXCEPT ![s] = y]
      /\ UNCHANGED <<bookings, payments>>
      /\ Syncing(x) /\ x.step = "flush" /\ y.step = "commit"
      /\ x.booking # x.loaded_booking => BookingFree(s, b)
      /\ y.booking = FlushedRow(x)
      /\ x.booking = x.loaded_booking => y.loaded_booking = y.booking
      /\ y.request = x.request /\ y.booking_id = b
      /\ y.payment_id = x.payment_id /\ y.payment = x.payment
      /\ y.loaded_payment = x.loaded_payment
  BY FlushBookingFields DEF ColumnsInv
<1> HIDE DEF y
<1>2. /\ SessionColumns(x, bookings, payments) /\ x.booking \in BookingRow
      /\ b \in Bookings /\ bookings[b] \in BookingRow
  BY <1>1 DEF ColumnsInv, TypeInv, TablesInv, SessionInv, SessionState, ObjectsLoaded
<1>3. DifferIn(x.booking, x.loaded_booking, SyncColumns)
  BY <1>1, <1>2 DEF SessionColumns
<1>4. DifferIn(bookings[b], y.booking, SyncColumns)
  BY <1>1, <1>2, <1>3, WrittenColumns, RowDomains DEF DifferIn, FlushedRow
<1>5. PaymentWrite(x, payments[x.payment_id]) => PaymentWrite(y, payments[x.payment_id])
  BY <1>1 DEF PaymentWrite
<1>6. SessionColumns(y, bookings, payments)
  BY <1>1, <1>2, <1>4, <1>5 DEF SessionColumns, Modifying, ModifySteps, Updating
<1>7. \A id \in Payments : WritesPayment(y, id) =>
        \A t \in Sessions \ {s} : ~WritesPayment(session[t], id)
  BY <1>1 DEF ColumnsInv, Locks, WritesPayment
<1>8. \A id \in Bookings : WritesBooking(y, id) =>
        \A t \in Sessions \ {s} : ~WritesBooking(session[t], id)
  BY <1>1, FreeRows DEF WritesBooking
<1>9. SessionColumns(y, bookings', payments')
  BY <1>1, <1>6
<1> QED BY <1>1, <1>7, <1>8, <1>9, ColumnsFrame

\* Commits write rows nobody else has locked.
LEMMA LockedRowsStay ==
  ASSUME ColumnsInv, NEW s \in Sessions,
         Commit(s) \/ SaveBooking(s) \/ InsertBooking(s),
         NEW t \in Sessions \ {s}
  PROVE  /\ \A id \in Payments : WritesPayment(session[t], id) => payments'[id] = payments[id]
         /\ \A id \in Bookings : WritesBooking(session[t], id) => bookings'[id] = bookings[id]
<1>1. ASSUME NEW id \in Payments, WritesPayment(session[t], id)
      PROVE  payments'[id] = payments[id]
  <2>1. CASE Commit(s)
    <3>1. payments'[id] # payments[id] => WritesPayment(session[s], id)
      BY <2>1, CommitFields DEF ColumnsInv, WritesPayment
    <3> QED BY <1>1, <3>1 DEF ColumnsInv, Locks
  <2>2. CASE ~Commit(s)
    BY <2>2, SaveBookingFields, InsertBookingFields DEF ColumnsInv
  <2> QED BY <2>1, <2>2
<1>2. ASSUME NEW id \in Bookings, WritesBooking(session[t], id)
      PROVE  bookings'[id] = bookings[id]
  <2>1. CASE Commit(s)
    <3>1. bookings'[id] # bookings[id] => WritesBooking(session[s], id)
      BY <2>1, CommitFields DEF ColumnsInv, WritesBooking
    <3> QED BY <1>2, <3>1 DEF ColumnsInv, Locks
  <2>2. CASE SaveBooking(s)
    <3>1. BookingFree(s, session[s].booking_id)
      /\ \E row : bookings' = [bookings EXCEPT ![session[s].booking_id] = row]
      BY <2>2, SaveBookingFields DEF ColumnsInv
    <3>2. id # session[s].booking_id
      BY <1>2, <3>1, FreeRows
    <3> QED BY <3>1, <3>2 DEF ColumnsInv, TypeInv, TablesInv
  <2>3. CASE InsertBooking(s)
    <3>1. PICK b \in Bookings : bookings[b] = Null
            /\ \E row : bookings' = [bookings EXCEPT ![b] = row]
      BY <2>3, InsertBookingFields DEF ColumnsInv
    <3>2. id # b
      BY <1>2, <3>1, LockedLoaded DEF ColumnsInv
    <3> QED BY <3>1, <3>2 DEF ColumnsInv, TypeInv, TablesInv
  <2> QED BY <2>1, <2>2, <2>3
<1> QED BY <1>1, <1>2

\* So they keep the invariant.
LEMMA CommitColumns ==
  ASSUME ColumnsInv, TypeInv', NEW s \in Sessions,
         Commit(s) \/ SaveBooking(s) \/ InsertBooking(s)
  PROVE  ColumnsInv'
<1>1. session' = [session EXCEPT ![s] = Idle]
  BY CommitFields, SaveBookingFields, InsertBookingFields DEF ColumnsInv
<1> QED BY <1>1, LockedRowsStay, IdleEmpty, EmptyStepColumns

\* Every step keeps the invariant.
LEMMA ColumnsStep ==
  ASSUME ColumnsInv, TypeInv', [Next]_vars
  PROVE  ColumnsInv'
<1>1. CASE UNCHANGED vars
  BY <1>1 DEF vars, ColumnsInv, Locks
<1>2. ASSUME NEW s \in Sessions, Rollback(s) \/ \E r \in Requests : Begin(s, r)
      PROVE  ColumnsInv'
  <2>1. PICK y : /\ session' = [session EXCEPT ![s] = y]
                 /\ UNCHANGED <<bookings, payments>>
                 /\ Empty(y)
    BY <1>2, IdleEmpty, BeginFields DEF Rollback, ColumnsInv
  <2> QED BY <2>1, EmptyStepColumns
<1>3. ASSUME NEW s \in Sessions,
             \/ Reads(s) \/ InsertBooking(s) \/ LoadBooking(s) \/ SaveBooking(s)
             \/ ValidateBooking(s) \/ InsertPayment(s) \/ LoadPayment(s) \/ UpdatePayment(s)
             \/ SyncBooking(s) \/ FlushBooking(s) \/ Commit(s)
      PROVE  ColumnsInv'
  BY <1>3, ReadsColumns, CommitColumns, LoadColumns, InsertPaymentColumns, LoadPaymentColumns,
     UpdatePaymentColumns, SyncBookingColumns, FlushBookingColumns
<1> QED BY <1>1, <1>2, <1>3, StepCases

\* The strengthened invariant of the two services.
LEMMA ColumnsInvariance == Spec => []ColumnsInv
<1>1. Init => ColumnsInv
  <2> SUFFICES ASSUME Init PROVE ColumnsInv
    OBVIOUS
  <2>1. \A s \in Sessions : session[s] = Idle
    BY DEF Init, SessionsInit
  <2>2. \A s \in Sessions : SessionColumns(session[s], bookings, payments)
                            /\ \A id : ~WritesPayment(session[s], id) /\ ~WritesBooking(session[s], id)
    BY <2>1, IdleEmpty, EmptyColumns
  <2> QED BY <2>2, TypeInit DEF ColumnsInv, Locks
<1>2. IInv => TypeInv
  BY DEF IInv
<1>3. ColumnsInv /\ TypeInv' /\ [Next]_vars => ColumnsInv'
  BY ColumnsStep
<1> QED BY <1>1, <1>2, <1>3, Invariance, PTL DEF Spec
----------------------------------------------------------------------------
(* What a step may do to a committed row.                                  *)

\* A booking: only columns of the request that commits, and not revived.
BookingKept(b) ==
  /\ \A c \in DOMAIN bookings[b] :
       bookings'[b][c] # bookings[b][c] =>
         \E s \in Sessions : Commits(s) /\ c \in BookingColumns(Request(s))
  /\ bookings[b].active = FALSE => bookings'[b].active = FALSE

\* A handler of bookings saves.
LEMMA SaveKeeps ==
  ASSUME ColumnsInv, NEW s \in Sessions, SaveBooking(s),
         NEW b \in Bookings, bookings[b] # Null
  PROVE  BookingKept(b)
<1> DEFINE x == session[s]
           set == x.request.set
<1>1. /\ session'[s] = Idle /\ Updating(x) /\ x.step = "save"
      /\ x.booking_id \in Bookings /\ bookings[x.booking_id] \in BookingRow
      /\ x.booking \in BookingRow
      /\ x.request.op \in UpdateOps /\ BookingChange(set)
      /\ bookings' = [bookings EXCEPT ![x.booking_id] = SavedBooking(s)]
      /\ SavedBooking(s) = Written(bookings[x.booking_id], x.loaded_booking,
                                   Assigned(x.booking, set))
  BY SaveBookingFields DEF ColumnsInv
<1>2. x.booking = x.loaded_booking /\ x.booking.active = TRUE
  BY <1>1 DEF ColumnsInv, SessionColumns
<1>3. CASE b # x.booking_id
  BY <1>1, <1>3 DEF BookingKept, ColumnsInv, TypeInv, TablesInv
<1>4. CASE b = x.booking_id
  <2> DEFINE row == Written(bookings[b], x.booking, Assigned(x.booking, set))
  <2>1. bookings'[b] = row
    BY <1>1, <1>2, <1>4 DEF ColumnsInv, TypeInv, TablesInv
  <2>2. DOMAIN x.booking = DOMAIN bookings[b] /\ "active" \in DOMAIN bookings[b]
    BY <1>1, <1>4, RowDomains
  <2>3. Assigned(x.booking, set).active \in BOOLEAN
    BY <1>1, AssignedBooking DEF BookingRow
  <2>4. \A c \in DOMAIN bookings[b] :
          row[c] = IF Assigned(x.booking, set)[c] # x.booking[c]
                   THEN Assigned(x.booking, set)[c] ELSE bookings[b][c]
    BY WrittenColumns
  <2>5. \A c \in DOMAIN x.booking \ DOMAIN set : Assigned(x.booking, set)[c] = x.booking[c]
    BY AssignedColumns
  <2> HIDE DEF row
  <2>6. \A c \in DOMAIN bookings[b] \ DOMAIN set : row[c] = bookings[b][c]
    BY <2>2, <2>4, <2>5
  <2>7. bookings[b].active = FALSE => row.active = FALSE
    BY <1>2, <2>2, <2>3, <2>4
  <2>8. Commits(s) /\ BookingColumns(Request(s)) = DOMAIN set
    BY <1>1 DEF Commits, BookingColumns, Request
  <2> QED BY <2>1, <2>6, <2>7, <2>8 DEF BookingKept
<1> QED BY <1>3, <1>4

\* A handler of payments commits what it has synchronised.
LEMMA CommitKeeps ==
  ASSUME ColumnsInv, NEW s \in Sessions, Commit(s),
         NEW b \in Bookings, bookings[b] # Null
  PROVE  BookingKept(b)
<1> DEFINE x == session[s]
<1>1. /\ session'[s] = Idle /\ x.step = "commit" /\ Syncing(x)
      /\ bookings'[b] = IF b = x.booking_id /\ x.booking # x.loaded_booking
                        THEN x.booking ELSE bookings[b]
  BY CommitFields DEF ColumnsInv
<1>2. Commits(s) /\ BookingColumns(Request(s)) = SyncColumns
  BY <1>1 DEF Commits, BookingColumns, Request, SyncColumns, ColumnsInv, TypeInv, SessionInv,
     ServesStep, Syncing, UpdateOps, PaymentOps, ModifyOps
<1>3. CASE b = x.booking_id /\ x.booking # x.loaded_booking
  <2>1. DifferIn(bookings[b], x.booking, SyncColumns)
    BY <1>1, <1>3 DEF ColumnsInv, SessionColumns
  <2>2. bookings[b] \in BookingRow
    BY DEF ColumnsInv, TypeInv, TablesInv
  <2>3. "active" \in DOMAIN bookings[b] \ SyncColumns
    BY <2>2, RowDomains DEF SyncColumns
  <2> QED BY <1>1, <1>2, <1>3, <2>1, <2>3 DEF BookingKept, DifferIn
<1>4. CASE ~(b = x.booking_id /\ x.booking # x.loaded_booking)
  BY <1>1, <1>4 DEF BookingKept
<1> QED BY <1>3, <1>4

\* Every step.
LEMMA BookingsKept ==
  ASSUME ColumnsInv, [Next]_vars, NEW b \in Bookings, bookings[b] # Null
  PROVE  BookingKept(b)
<1>1. CASE UNCHANGED bookings
  BY <1>1 DEF BookingKept
<1>2. ASSUME NEW s \in Sessions, InsertBooking(s)
      PROVE  BookingKept(b)
  <2>1. bookings'[b] = bookings[b]
    BY <1>2, InsertBookingFields DEF ColumnsInv, TypeInv, TablesInv
  <2> QED BY <2>1 DEF BookingKept
<1>3. ASSUME NEW s \in Sessions,
             \/ Rollback(s) \/ (\E r \in Requests : Begin(s, r)) \/ Reads(s)
             \/ LoadBooking(s) \/ ValidateBooking(s) \/ InsertPayment(s) \/ LoadPayment(s)
             \/ UpdatePayment(s) \/ SyncBooking(s) \/ FlushBooking(s)
      PROVE  UNCHANGED bookings
  BY <1>3, BeginFields, ReadsFields, LoadBookingFields, ValidateBookingFields,
     InsertPaymentFields, LoadPaymentFields, UpdatePaymentFields, SyncBookingFields,
     FlushBookingFields DEF Rollback, ColumnsInv
<1> QED
  BY <1>1, <1>2, <1>3, SaveKeeps, CommitKeeps, StepCases DEF vars

\* A payment: the same.
PaymentKept(p) ==
  /\ \A c \in DOMAIN payments[p] :
       payments'[p][c] # payments[p][c] =>
         \E s \in Sessions : Commits(s) /\ c \in PaymentColumns(Request(s))
  /\ payments[p].active = FALSE => payments'[p].active = FALSE

\* Every step.
LEMMA PaymentsKept ==
  ASSUME ColumnsInv, [Next]_vars, NEW p \in Payments, payments[p] # Null
  PROVE  PaymentKept(p)
<1>1. CASE UNCHANGED payments
  BY <1>1 DEF PaymentKept
<1>2. ASSUME NEW s \in Sessions, Commit(s)
      PROVE  PaymentKept(p)
  <2> DEFINE x == session[s]
  <2>1. /\ session'[s] = Idle /\ x.step = "commit" /\ Syncing(x)
        /\ payments'[p] = IF p = x.payment_id /\ x.payment # x.loaded_payment
                          THEN x.payment ELSE payments[p]
    BY <1>2, CommitFields DEF ColumnsInv
  <2>2. CASE p = x.payment_id /\ x.payment # x.loaded_payment
    <3>1. PaymentWrite(x, payments[p])
      BY <2>1, <2>2 DEF ColumnsInv, SessionColumns
    <3>2. Commits(s) /\ PaymentColumns(Request(s)) = DOMAIN x.request.set
      BY <2>1, <3>1 DEF Commits, PaymentColumns, Request, PaymentWrite
    <3> QED BY <2>1, <2>2, <3>1, <3>2 DEF PaymentKept, PaymentWrite, DifferIn
  <2>3. CASE ~(p = x.payment_id /\ x.payment # x.loaded_payment)
    BY <2>1, <2>3 DEF PaymentKept
  <2> QED BY <2>2, <2>3
<1>3. ASSUME NEW s \in Sessions,
             \/ Rollback(s) \/ (\E r \in Requests : Begin(s, r)) \/ Reads(s)
             \/ InsertBooking(s) \/ LoadBooking(s) \/ SaveBooking(s)
             \/ ValidateBooking(s) \/ InsertPayment(s) \/ LoadPayment(s)
             \/ UpdatePayment(s) \/ SyncBooking(s) \/ FlushBooking(s)
      PROVE  UNCHANGED payments
  BY <1>3, BeginFields, ReadsFields, LoadBookingFields, ValidateBookingFields,
     InsertPaymentFields, LoadPaymentFields, UpdatePaymentFields, SyncBookingFields,
     FlushBookingFields, InsertBookingFields, SaveBookingFields DEF Rollback, ColumnsInv
<1> QED
  BY <1>1, <1>2, <1>3, StepCases DEF vars

\* The rows of a table.
LEMMA LiveRows ==
  ASSUME TypeInv
  PROVE  /\ Live(bookings) = {b \in Bookings : bookings[b] # Null}
         /\ Live(payments) = {p \in Payments : payments[p] # Null}
BY DEF Live, TypeInv, TablesInv

(* A committed column changes only by the commit of a request that assigns  *)
(* the column: a session writes the columns that differ from what it had   *)
(* loaded, and nobody else can write a row between its UPDATE and COMMIT.  *)
THEOREM OnlyRequestedColumns == Spec => OnlyRequestedColumnsChange
<1> DEFINE Change ==
      /\ \A b \in Live(bookings) : \A c \in DOMAIN bookings[b] :
           bookings'[b][c] # bookings[b][c] =>
             \E s \in Sessions : Commits(s) /\ c \in BookingColumns(Request(s))
      /\ \A p \in Live(payments) : \A c \in DOMAIN payments[p] :
           payments'[p][c] # payments[p][c] =>
             \E s \in Sessions : Commits(s) /\ c \in PaymentColumns(Request(s))
<1>1. ColumnsInv /\ [Next]_vars => Change
  <2> SUFFICES ASSUME ColumnsInv, [Next]_vars PROVE Change
    OBVIOUS
  <2>1. /\ \A b \in Live(bookings) : BookingKept(b)
        /\ \A p \in Live(payments) : PaymentKept(p)
    BY BookingsKept, PaymentsKept, LiveRows DEF ColumnsInv
  <2> QED BY <2>1 DEF BookingKept, PaymentKept
<1>2. ColumnsInv /\ [Next]_vars => [Change]_vars
  BY <1>1
<1> QED BY <1>2, ColumnsInvariance, PTL DEF Spec, OnlyRequestedColumnsChange

(* A soft-deleted booking or payment is never revived: a session that may  *)
(* assign is_active had loaded the row active, so assigning True to it     *)
(* writes nothing.                                                         *)
THEOREM DeletionIsFinal == Spec => DeletedStaysDeleted
<1> DEFINE Stays ==
      /\ \A b \in Live(bookings) : ~bookings[b].active => ~bookings'[b].active
      /\ \A p \in Live(payments) : ~payments[p].active => ~payments'[p].active
<1>1. ColumnsInv /\ [Next]_vars => Stays
  <2> SUFFICES ASSUME ColumnsInv, [Next]_vars PROVE Stays
    OBVIOUS
  <2>1. /\ \A b \in Live(bookings) : BookingKept(b) /\ bookings[b] \in BookingRow
        /\ \A p \in Live(payments) : PaymentKept(p) /\ payments[p] \in PaymentRow
    BY BookingsKept, PaymentsKept, LiveRows DEF ColumnsInv, TypeInv, TablesInv
  <2>2. /\ \A row \in BookingRow : row.active \in BOOLEAN
        /\ \A row \in PaymentRow : row.active \in BOOLEAN
    BY DEF BookingRow, PaymentRow
  <2> QED BY <2>1, <2>2 DEF BookingKept, PaymentKept
<1>2. ColumnsInv /\ [Next]_vars => [Stays]_vars
  BY <1>1
<1> QED BY <1>2, ColumnsInvariance, PTL DEF Spec, DeletedStaysDeleted
----------------------------------------------------------------------------
(* Steps, seen from a table and from a session.                            *)

\* A step that is not a stutter moves one session.
LEMMA OneMoves ==
  ASSUME TypeInv, NEW s \in Sessions,
         \/ Rollback(s) \/ (\E r \in Requests : Begin(s, r)) \/ Reads(s)
         \/ InsertBooking(s) \/ LoadBooking(s) \/ SaveBooking(s)
         \/ ValidateBooking(s) \/ InsertPayment(s) \/ LoadPayment(s) \/ UpdatePayment(s)
         \/ SyncBooking(s) \/ FlushBooking(s) \/ Commit(s)
  PROVE  /\ session' = [session EXCEPT ![s] = session'[s]]
         /\ \A t \in Sessions \ {s} : session'[t] = session[t]
<1>1. session' = [session EXCEPT ![s] = session'[s]]
  <2>1. Rollback(s) => session' = [session EXCEPT ![s] = session'[s]]
    BY DEF Rollback, TypeInv
  <2>2. (\E r \in Requests : Begin(s, r)) => session' = [session EXCEPT ![s] = session'[s]]
    BY BeginFields
  <2>7. Reads(s) => session' = [session EXCEPT ![s] = session'[s]]
    BY ReadsFields
  <2>3. InsertBooking(s) \/ LoadBooking(s) \/ SaveBooking(s) =>
          session' = [session EXCEPT ![s] = session'[s]]
    BY InsertBookingFields, LoadBookingFields, SaveBookingFields
  <2>4. ValidateBooking(s) \/ InsertPayment(s) \/ LoadPayment(s) =>
          session' = [session EXCEPT ![s] = session'[s]]
    BY ValidateBookingFields, InsertPaymentFields, LoadPaymentFields
  <2>5. UpdatePayment(s) \/ SyncBooking(s) =>
          session' = [session EXCEPT ![s] = session'[s]]
    BY UpdatePaymentFields, SyncBookingFields
  <2>6. FlushBooking(s) \/ Commit(s) =>
          session' = [session EXCEPT ![s] = session'[s]]
    BY FlushBookingFields, CommitFields
  <2> QED
    BY <2>1, <2>2, <2>3, <2>4, <2>5, <2>6, <2>7
<1> QED BY <1>1 DEF TypeInv

\* A session that serves create_booking, from Begin to its end.
CreatesBooking(x) == x.step \in {"load", "nextval", "save"} /\ x.request.op = "create_booking"

\* No request changes these columns of a booking.
IdentityColumns == {"pair", "number", "created"}

SameBooking(row, new) ==
  /\ new \in BookingRow
  /\ new.pair = row.pair /\ new.created = row.created
  /\ row.active = FALSE => new.active = FALSE

\* A committed booking stays the booking it is.
LEMMA BookingStays ==
  ASSUME ColumnsInv, TypeInv', [Next]_vars, NEW b \in Bookings, bookings[b] # Null
  PROVE  SameBooking(bookings[b], bookings'[b])
<1>1. bookings[b] \in BookingRow
  BY DEF ColumnsInv, TypeInv, TablesInv
<1>2. BookingKept(b)
  BY BookingsKept
<1>3. \A s \in Sessions : Commits(s) => BookingColumns(Request(s)) \cap IdentityColumns = {}
  <2> SUFFICES ASSUME NEW s \in Sessions, Request(s).op \in UpdateOps, Commits(s)
               PROVE  DOMAIN Request(s).set \cap IdentityColumns = {}
    BY DEF BookingColumns, IdentityColumns
  <2>1. Request(s) \in Requests
    BY DEF Commits, Request, ColumnsInv, TypeInv, SessionInv, ServesStep
  <2> QED BY <2>1, BookingChangeFields DEF BookingChange, IdentityColumns
<1>4. "pair" \in DOMAIN bookings[b] /\ "created" \in DOMAIN bookings[b]
  BY <1>1, RowDomains
<1>5. bookings'[b].pair = bookings[b].pair /\ bookings'[b].created = bookings[b].created
  <2>1. \A c \in DOMAIN bookings[b] : c \in IdentityColumns => bookings'[b][c] = bookings[b][c]
    BY <1>2, <1>3 DEF BookingKept
  <2> QED BY <1>4, <2>1 DEF IdentityColumns
<1>6. bookings'[b] # Null
  <2>1. CASE UNCHANGED bookings
    BY <2>1
  <2>2. ASSUME NEW s \in Sessions, Commit(s)
        PROVE  bookings'[b] # Null
    BY <2>2, CommitFields DEF ColumnsInv, TypeInv, SessionInv, ObjectsLoaded
  <2>3. ASSUME NEW s \in Sessions, SaveBooking(s)
        PROVE  bookings'[b] # Null
    <3>1. bookings' = [bookings EXCEPT ![session[s].booking_id] = SavedBooking(s)]
      BY <2>3, SaveBookingFields DEF ColumnsInv
    <3>2. session[s].booking_id \in Bookings /\ SavedBooking(s) # Null
      <4>1. /\ bookings[session[s].booking_id] \in BookingRow /\ session[s].booking_id \in Bookings
            /\ session[s].booking \in BookingRow /\ BookingChange(session[s].request.set)
            /\ SavedBooking(s) = Written(bookings[session[s].booking_id],
                 session[s].loaded_booking, Assigned(session[s].booking, session[s].request.set))
        BY <2>3, SaveBookingFields DEF ColumnsInv
      <4>2. Assigned(session[s].booking, session[s].request.set) \in BookingRow
        BY <4>1, AssignedBooking
      <4>3. SavedBooking(s) \in BookingRow
        BY <4>1, <4>2, WrittenBooking
      <4> QED BY <4>1, <4>3, NullAssumption
    <3> QED BY <3>1, <3>2 DEF ColumnsInv, TypeInv, TablesInv
  <2>4. ASSUME NEW s \in Sessions, InsertBooking(s)
        PROVE  bookings'[b] # Null
    BY <2>4, InsertBookingFields DEF ColumnsInv, TypeInv, TablesInv
  <2>5. ASSUME NEW s \in Sessions,
             \/ Rollback(s) \/ (\E r \in Requests : Begin(s, r)) \/ Reads(s)
             \/ LoadBooking(s) \/ ValidateBooking(s) \/ InsertPayment(s) \/ LoadPayment(s)
             \/ UpdatePayment(s) \/ SyncBooking(s) \/ FlushBooking(s)
        PROVE  UNCHANGED bookings
    BY <2>5, BeginFields, ReadsFields, LoadBookingFields, ValidateBookingFields,
       InsertPaymentFields, LoadPaymentFields, UpdatePaymentFields, SyncBookingFields,
       FlushBookingFields DEF Rollback, ColumnsInv
  <2> QED BY <2>1, <2>2, <2>3, <2>4, <2>5, StepCases DEF vars
<1>7. bookings'[b] \in BookingRow
  BY <1>6 DEF TypeInv, TablesInv
<1> QED BY <1>2, <1>5, <1>7 DEF SameBooking, BookingKept

\* A booking that appears was inserted by a session that served create_booking.
LEMMA BookingAppears ==
  ASSUME ColumnsInv, TypeInv', [Next]_vars,
         NEW b \in Bookings, bookings[b] = Null, bookings'[b] # Null
  PROVE  /\ bookings'[b] \in BookingRow
         /\ \E s \in Sessions :
              /\ CreatesBooking(session[s]) /\ session[s].step = "save"
              /\ session'[s] = Idle
              /\ bookings'[b].pair = session[s].request.row.pair
              /\ bookings'[b].created = session[s].started
              /\ \A c \in Bookings \ {b} : bookings'[c] = bookings[c]
              /\ \A t \in Sessions \ {s} : session'[t] = session[t]
              /\ UNCHANGED clock
<1>1. PICK s \in Sessions : InsertBooking(s)
  <2>1. ASSUME NEW s \in Sessions, Commit(s)
        PROVE  bookings'[b] = Null
    BY <2>1, CommitFields DEF ColumnsInv, TypeInv, SessionInv, ObjectsLoaded
  <2>2. ASSUME NEW s \in Sessions, SaveBooking(s)
        PROVE  bookings'[b] = Null
    <3>1. /\ bookings' = [bookings EXCEPT ![session[s].booking_id] = SavedBooking(s)]
          /\ bookings[session[s].booking_id] \in BookingRow
      BY <2>2, SaveBookingFields DEF ColumnsInv
    <3> QED BY <3>1, NullAssumption DEF ColumnsInv, TypeInv, TablesInv
  <2>3. ASSUME NEW s \in Sessions,
             \/ Rollback(s) \/ (\E r \in Requests : Begin(s, r)) \/ Reads(s)
             \/ LoadBooking(s) \/ ValidateBooking(s) \/ InsertPayment(s) \/ LoadPayment(s)
             \/ UpdatePayment(s) \/ SyncBooking(s) \/ FlushBooking(s)
        PROVE  UNCHANGED bookings
    BY <2>3, BeginFields, ReadsFields, LoadBookingFields, ValidateBookingFields,
       InsertPaymentFields, LoadPaymentFields, UpdatePaymentFields, SyncBookingFields,
       FlushBookingFields DEF Rollback, ColumnsInv
  <2> QED BY <2>1, <2>2, <2>3, StepCases DEF vars
<1> DEFINE x == session[s]
<1>2. /\ session'[s] = Idle /\ UNCHANGED clock
      /\ x.step = "save" /\ x.request.op = "create_booking" /\ x.request.row \in BookingRow
  BY <1>1, InsertBookingFields DEF ColumnsInv
<1>3. PICK c \in Bookings :
         bookings' = [bookings EXCEPT ![c] =
                        [x.request.row EXCEPT !.number = x.number, !.created = x.started]]
  BY <1>1, InsertBookingFields DEF ColumnsInv
<1>4. /\ b = c
      /\ bookings'[b] = [x.request.row EXCEPT !.number = x.number, !.created = x.started]
      /\ \A d \in Bookings \ {b} : bookings'[d] = bookings[d]
  BY <1>3 DEF ColumnsInv, TypeInv, TablesInv
<1>5. bookings'[b].pair = x.request.row.pair /\ bookings'[b].created = x.started
  BY <1>2, <1>4 DEF BookingRow
<1>6. bookings'[b] \in BookingRow
  BY DEF TypeInv, TablesInv
<1>7. \A t \in Sessions \ {s} : session'[t] = session[t]
  BY <1>1, OneMoves DEF ColumnsInv
<1> QED BY <1>2, <1>4, <1>5, <1>6, <1>7 DEF CreatesBooking

\* How a session comes to be serving create_booking.
LEMMA CreatorSteps ==
  ASSUME ColumnsInv, TypeInv', [Next]_vars, NEW t \in Sessions, CreatesBooking(session'[t])
  PROVE  \/ /\ session'[t].step = "load" /\ session'[t].started = clock'
            /\ clock' = clock + 1 /\ UNCHANGED bookings
         \/ /\ CreatesBooking(session[t])
            /\ session'[t].request = session[t].request
            /\ session'[t].started = session[t].started
            /\ \/ session'[t].step = "load"
               \/ session[t].step # "load"
               \/ EnsureNoDuplicate(t)
<1> DEFINE x == session[t]
           y == session'[t]
<1>1. CASE y = x
  BY <1>1
<1>2. ASSUME NEW r \in Requests, Begin(t, r)
      PROVE  /\ y.step = "load" /\ y.started = clock'
             /\ clock' = clock + 1 /\ UNCHANGED bookings
  BY <1>2, BeginFields DEF ColumnsInv, CreatesBooking
<1>3. ASSUME Reads(t)
      PROVE  /\ CreatesBooking(x) /\ y.request = x.request /\ y.started = x.started
             /\ y.step = "load" \/ x.step # "load" \/ EnsureNoDuplicate(t)
  <2>1. /\ SameObjects(x, y)
        /\ y.step \in {"nextval", "save"} =>
              x.step \in {"load", "nextval"} /\ y.request.op = "create_booking"
        /\ y.step = "nextval" => EnsureNoDuplicate(t)
        /\ y.step = "save" => x.step = "nextval"
        /\ y.step # "load"
    BY <1>3, ReadsFields DEF ColumnsInv
  <2> QED BY <2>1 DEF CreatesBooking, SameObjects
<1>4. ~Rollback(t) /\ ~InsertBooking(t) /\ ~SaveBooking(t) /\ ~Commit(t)
  <2>1. y # Idle
    BY IdleEmpty DEF CreatesBooking
  <2> QED BY <2>1, InsertBookingFields, SaveBookingFields, CommitFields
          DEF Rollback, ColumnsInv, TypeInv
<1>5. ~LoadBooking(t)
  BY LoadBookingFields DEF ColumnsInv, CreatesBooking, Updating, UpdateOps
<1>6. ~ValidateBooking(t) /\ ~InsertPayment(t) /\ ~LoadPayment(t) /\ ~UpdatePayment(t)
      /\ ~SyncBooking(t) /\ ~FlushBooking(t)
  BY ValidateBookingFields, InsertPaymentFields, LoadPaymentFields, UpdatePaymentFields,
     SyncBookingFields, FlushBookingFields
     DEF ColumnsInv, CreatesBooking, Modifying, ModifySteps, Syncing, SyncSteps
<1>7. ASSUME NEW s \in Sessions,
             \/ Rollback(s) \/ (\E r \in Requests : Begin(s, r)) \/ Reads(s)
             \/ InsertBooking(s) \/ LoadBooking(s) \/ SaveBooking(s)
             \/ ValidateBooking(s) \/ InsertPayment(s) \/ LoadPayment(s) \/ UpdatePayment(s)
             \/ SyncBooking(s) \/ FlushBooking(s) \/ Commit(s)
      PROVE  s = t \/ y = x
  BY <1>7, OneMoves DEF ColumnsInv
<1> QED
  BY <1>1, <1>2, <1>3, <1>4, <1>5, <1>6, <1>7, StepCases, Zenon DEF vars
----------------------------------------------------------------------------
(* One active booking of each pair.  ensure_no_duplicate looks at the newest *)
(* booking of the pair only and nothing locks the pair until the insert, so *)
(* two creations of one pair must not overlap.  Given that, the newest      *)
(* booking is the only one that can be active: an active one keeps later   *)
(* ones from being created, and a deleted one is never revived.            *)

\* No two create_booking requests of one pair are served at the same time.
SerialCreations ==
  \A s, t \in Sessions :
    /\ CreatesBooking(session[s])
    /\ CreatesBooking(session[t])
    /\ session[s].request.row.pair = session[t].request.row.pair
    => s = t

\* The bookings committed before the first request are as old as the clock,
\* and have one active booking of each pair.
SeedsOnePerPair ==
  /\ \A b \in Live(SeedBookings) : SeedBookings[b].created = 0
  /\ \A b, c \in Live(SeedBookings) :
       /\ SeedBookings[b].active
       /\ SeedBookings[c].active
       /\ SeedBookings[b].pair = SeedBookings[c].pair
       => b = c

\* Rows of a pair in table b: the active one is the newest and the only one.
RowPairs(b) ==
  \A id, other \in Bookings :
    /\ b[id] # Null /\ b[other] # Null
    /\ b[id].pair = b[other].pair
    /\ b[id].active = TRUE
    => /\ b[other].created <= b[id].created
       /\ b[other].active = TRUE => id = other

\* What session x has made sure of before it inserts a booking of its pair.
SessionPair(x, b) ==
  CreatesBooking(x) =>
    \A id \in Bookings : b[id] # Null /\ b[id].pair = x.request.row.pair =>
      /\ b[id].created < x.started
      /\ x.step # "load" => b[id].active = FALSE

PairInv ==
  /\ \A b \in Bookings : bookings[b] # Null => bookings[b].created <= clock
  /\ \A s \in Sessions : CreatesBooking(session[s]) => session[s].started <= clock
  /\ RowPairs(bookings)
  /\ \A s \in Sessions : SessionPair(session[s], bookings)

\* ensure_no_duplicate sees any active booking of the pair.
LEMMA NoDuplicateActive ==
  ASSUME ColumnsInv, RowPairs(bookings), NEW s \in Sessions, EnsureNoDuplicate(s),
         NEW b \in Bookings, bookings[b] # Null,
         bookings[b].pair = session[s].request.row.pair
  PROVE  bookings[b].active = FALSE
<1> SUFFICES ASSUME bookings[b].active # FALSE
             PROVE  DuplicateActive(session[s].request.row.pair)
  BY DEF EnsureNoDuplicate, Request
<1>1. bookings[b].active = TRUE
  BY DEF ColumnsInv, TypeInv, TablesInv, BookingRow
<1>2. b \in OfPair(session[s].request.row.pair)
  BY DEF OfPair
<1>3. \A c \in OfPair(session[s].request.row.pair) : bookings[c].created <= bookings[b].created
  BY <1>1 DEF OfPair, RowPairs
<1> QED BY <1>1, <1>2, <1>3 DEF DuplicateActive

\* The clock does not go back.
LEMMA ClockGrows ==
  ASSUME ColumnsInv, [Next]_vars
  PROVE  clock \in Nat /\ clock' \in Nat /\ clock <= clock'
<1>1. clock \in Nat
  BY DEF ColumnsInv, TypeInv
<1>2. ASSUME NEW s \in Sessions, NEW r \in Requests, Begin(s, r)
      PROVE  clock' \in {clock, clock + 1}
  BY <1>2, BeginFields DEF ColumnsInv
<1>3. ASSUME NEW s \in Sessions,
             \/ Rollback(s) \/ Reads(s) \/ InsertBooking(s) \/ LoadBooking(s) \/ SaveBooking(s)
             \/ ValidateBooking(s) \/ InsertPayment(s) \/ LoadPayment(s)
             \/ UpdatePayment(s) \/ SyncBooking(s) \/ FlushBooking(s) \/ Commit(s)
      PROVE  UNCHANGED clock
  BY <1>3, ReadsFields, InsertBookingFields, LoadBookingFields, SaveBookingFields,
     ValidateBookingFields, InsertPaymentFields, LoadPaymentFields, UpdatePaymentFields,
     SyncBookingFields, FlushBookingFields, CommitFields DEF Rollback, ColumnsInv
<1>4. clock' \in {clock, clock + 1}
  BY <1>2, <1>3, StepCases DEF vars
<1> QED BY <1>1, <1>4

\* The rows of a pair after a step, the inserted ones included.
LEMMA RowsStep ==
  ASSUME ColumnsInv, TypeInv', PairInv, [Next]_vars
  PROVE  /\ \A b \in Bookings : bookings'[b] # Null => bookings'[b].created <= clock'
         /\ RowPairs(bookings')
<1>1. clock \in Nat /\ clock' \in Nat /\ clock <= clock'
  BY ClockGrows
<1>2. \A b \in Bookings : bookings[b] # Null => SameBooking(bookings[b], bookings'[b])
  BY BookingStays
<1>3. \A b \in Bookings : bookings[b] # Null => bookings[b] \in BookingRow
  BY DEF ColumnsInv, TypeInv, TablesInv
<1>4. \A row \in BookingRow : row.created \in Nat /\ row.active \in BOOLEAN
  BY DEF BookingRow
<1>5. CASE \A b \in Bookings : bookings'[b] # Null => bookings[b] # Null
  <2>1. ASSUME NEW b \in Bookings, bookings'[b] # Null
        PROVE  bookings'[b].created <= clock'
    BY <1>1, <1>2, <1>3, <1>4, <1>5, <2>1 DEF PairInv, SameBooking
  <2>2. ASSUME NEW b \in Bookings, NEW c \in Bookings,
               bookings'[b] # Null, bookings'[c] # Null,
               bookings'[b].pair = bookings'[c].pair, bookings'[b].active = TRUE
        PROVE  /\ bookings'[c].created <= bookings'[b].created
               /\ bookings'[c].active = TRUE => b = c
    <3>1. bookings[b] # Null /\ bookings[c] # Null
      BY <1>5, <2>2
    <3>2. SameBooking(bookings[b], bookings'[b]) /\ SameBooking(bookings[c], bookings'[c])
          /\ bookings[b].active \in BOOLEAN /\ bookings[c].active \in BOOLEAN
      BY <1>2, <1>3, <1>4, <3>1
    <3>3. bookings[b].active = TRUE /\ bookings[b].pair = bookings[c].pair
      BY <2>2, <3>2 DEF SameBooking
    <3>4. bookings[c].created <= bookings[b].created
          /\ (bookings[c].active = TRUE => b = c)
      BY <3>1, <3>3 DEF PairInv, RowPairs
    <3> QED BY <3>2, <3>4 DEF SameBooking
  <2> QED BY <2>1, <2>2 DEF RowPairs
<1>6. ASSUME NEW new \in Bookings, bookings'[new] # Null, bookings[new] = Null
      PROVE  /\ \A b \in Bookings : bookings'[b] # Null => bookings'[b].created <= clock'
             /\ RowPairs(bookings')
  <2>1. PICK s \in Sessions :
          /\ CreatesBooking(session[s]) /\ session[s].step = "save"
          /\ bookings'[new].pair = session[s].request.row.pair
          /\ bookings'[new].created = session[s].started
          /\ \A c \in Bookings \ {new} : bookings'[c] = bookings[c]
    BY <1>6, BookingAppears
  <2>2. session[s].started <= clock /\ session[s].started \in Nat
    BY <2>1 DEF PairInv, ColumnsInv, TypeInv, SessionState
  <2>3. \A id \in Bookings : bookings[id] # Null /\ bookings[id].pair = bookings'[new].pair =>
          bookings[id].created < bookings'[new].created /\ bookings[id].active = FALSE
    BY <2>1 DEF PairInv, SessionPair
  <2>4. ASSUME NEW b \in Bookings, bookings'[b] # Null
        PROVE  bookings'[b].created <= clock'
    <3>1. CASE b = new
      BY <1>1, <2>1, <2>2, <3>1
    <3>2. CASE b # new
      BY <1>1, <1>3, <1>4, <2>1, <2>4, <3>2 DEF PairInv
    <3> QED BY <3>1, <3>2
  <2>5. ASSUME NEW b \in Bookings, NEW c \in Bookings,
               bookings'[b] # Null, bookings'[c] # Null,
               bookings'[b].pair = bookings'[c].pair, bookings'[b].active = TRUE
        PROVE  /\ bookings'[c].created <= bookings'[b].created
               /\ bookings'[c].active = TRUE => b = c
    <3>1. CASE b # new /\ c # new
      BY <2>1, <2>5, <3>1 DEF PairInv, RowPairs
    <3>2. CASE b = new /\ c # new
      BY <1>3, <1>4, <2>1, <2>2, <2>3, <2>5, <3>2
    <3>3. CASE b # new /\ c = new
      BY <2>1, <2>3, <2>5, <3>3
    <3>4. CASE b = new /\ c = new
      BY <2>1, <2>2, <3>4
    <3> QED BY <3>1, <3>2, <3>3, <3>4
  <2> QED BY <2>4, <2>5 DEF RowPairs
<1> QED BY <1>5, <1>6

\* What a session knows of its pair, after a step of its own or of another.
LEMMA CreatorsStep ==
  ASSUME ColumnsInv, TypeInv', PairInv, SerialCreations, [Next]_vars,
         NEW t \in Sessions, CreatesBooking(session'[t])
  PROVE  session'[t].started <= clock' /\ SessionPair(session'[t], bookings')
<1> DEFINE x == session[t]
           y == session'[t]
<1>1. clock \in Nat /\ clock' \in Nat /\ clock <= clock'
  BY ClockGrows
<1>2. \A b \in Bookings : bookings[b] # Null =>
        SameBooking(bookings[b], bookings'[b]) /\ bookings[b] \in BookingRow
  BY BookingStays DEF ColumnsInv, TypeInv, TablesInv
<1>3. \A row \in BookingRow : row.created \in Nat
  BY DEF BookingRow
<1>4. CASE /\ y.step = "load" /\ y.started = clock'
           /\ clock' = clock + 1 /\ UNCHANGED bookings
  <2>1. \A b \in Bookings : bookings'[b] # Null => bookings'[b].created < y.started
    BY <1>1, <1>2, <1>3, <1>4 DEF PairInv
  <2> QED BY <1>1, <1>4, <2>1 DEF SessionPair
<1>5. CASE /\ CreatesBooking(x)
           /\ y.request = x.request /\ y.started = x.started
           /\ y.step = "load" \/ x.step # "load" \/ EnsureNoDuplicate(t)
  <2>1. x.started \in Nat /\ x.started <= clock /\ SessionPair(x, bookings)
    BY <1>5 DEF PairInv, ColumnsInv, TypeInv, SessionState
  <2>2. ASSUME NEW b \in Bookings, bookings'[b] # Null, bookings'[b].pair = y.request.row.pair
        PROVE  /\ bookings'[b].created < y.started
               /\ y.step # "load" => bookings'[b].active = FALSE
    <3>1. bookings[b] # Null
      <4> SUFFICES ASSUME bookings[b] = Null PROVE FALSE
        OBVIOUS
      <4>1. PICK s \in Sessions :
              /\ CreatesBooking(session[s]) /\ session'[s] = Idle
              /\ bookings'[b].pair = session[s].request.row.pair
        BY <2>2, BookingAppears
      <4>2. s = t
        BY <1>5, <2>2, <4>1 DEF SerialCreations
      <4> QED BY <4>1, <4>2, IdleEmpty DEF CreatesBooking
    <3>2. SameBooking(bookings[b], bookings'[b])
      BY <1>2, <3>1
    <3>3. /\ bookings[b].created < x.started
          /\ x.step # "load" => bookings[b].active = FALSE
      BY <1>5, <2>1, <2>2, <3>1, <3>2 DEF SessionPair, SameBooking
    <3>4. y.step # "load" => bookings[b].active = FALSE
      BY <1>5, <2>2, <3>1, <3>2, <3>3, NoDuplicateActive DEF PairInv, SameBooking
    <3> QED BY <1>5, <3>2, <3>3, <3>4 DEF SameBooking
  <2>3. SessionPair(y, bookings')
    <3> HIDE DEF y
    <3> QED BY <2>2 DEF SessionPair
  <2> QED BY <1>1, <1>5, <2>1, <2>3
<1> QED BY <1>4, <1>5, CreatorSteps

\* With no overlapping creations of a pair, every step keeps it so.
LEMMA PairStep ==
  ASSUME ColumnsInv, TypeInv', PairInv, SerialCreations, [Next]_vars
  PROVE  PairInv'
<1>1. /\ \A b \in Bookings : bookings'[b] # Null => bookings'[b].created <= clock'
      /\ RowPairs(bookings')
  BY RowsStep
<1>2. \A t \in Sessions : CreatesBooking(session'[t]) => session'[t].started <= clock'
  BY CreatorsStep
<1>3. \A t \in Sessions : SessionPair(session'[t], bookings')
  <2> SUFFICES ASSUME NEW t \in Sessions, ~CreatesBooking(session'[t])
               PROVE  SessionPair(session'[t], bookings')
    BY CreatorsStep
  <2> QED BY DEF SessionPair
<1> QED BY <1>1, <1>2, <1>3 DEF PairInv

\* Initially.
LEMMA PairInit ==
  ASSUME SeedsOnePerPair, Init
  PROVE  PairInv
<1>1. \A s \in Sessions : ~CreatesBooking(session[s])
  BY IdleEmpty DEF Init, SessionsInit, CreatesBooking
<1>2. Live(SeedBookings) = {b \in Bookings : SeedBookings[b] # Null}
  BY SeedAssumption DEF Live
<1>3. bookings = SeedBookings /\ clock = 0
  BY DEF Init, SessionsInit
<1>4. RowPairs(SeedBookings)
  BY <1>2 DEF SeedsOnePerPair, RowPairs
<1>5. \A b \in Bookings : bookings[b] # Null => bookings[b].created <= clock
  BY <1>2, <1>3 DEF SeedsOnePerPair
<1>6. \A s \in Sessions : SessionPair(session[s], bookings)
  BY <1>1 DEF SessionPair
<1> QED BY <1>1, <1>3, <1>4, <1>5, <1>6 DEF PairInv

(* At most one booking of a customer and property is active in every       *)
(* behaviour in which the creations of one pair do not overlap, whatever   *)
(* else is served meanwhile, although only the newest booking is looked at.*)
THEOREM PairsStayUnique ==
  SeedsOnePerPair /\ Spec /\ []SerialCreations => []OneActivePerPair
<1>1. SeedsOnePerPair /\ Init => PairInv
  BY PairInit
<1>2. ColumnsInv /\ ColumnsInv' /\ PairInv /\ SerialCreations /\ [Next]_vars => PairInv'
  <2>1. ColumnsInv' => TypeInv'
    BY DEF ColumnsInv
  <2> QED BY <2>1, PairStep
<1>3. ColumnsInv /\ PairInv => OneActivePerPair
  <2> SUFFICES ASSUME ColumnsInv, PairInv PROVE OneActivePerPair
    OBVIOUS
  <2>1. \A b \in Bookings : bookings[b] # Null => bookings[b].active \in BOOLEAN
    BY DEF ColumnsInv, TypeInv, TablesInv, BookingRow
  <2> QED BY <2>1, LiveRows DEF ColumnsInv, PairInv, RowPairs, OneActivePerPair
<1> QED BY <1>1, <1>2, <1>3, ColumnsInvariance, PTL DEF Spec

(* Served one request at a time, the service keeps pairs unique.           *)
COROLLARY SequentialPairsUnique ==
  ASSUME \A s, t \in Sessions : s = t, SeedsOnePerPair
  PROVE  Spec => []OneActivePerPair
<1>1. SerialCreations
  BY DEF SerialCreations
<1> QED BY <1>1, PairsStayUnique, PTL
----------------------------------------------------------------------------
(* A booking paid in full is completed.  Synchronising writes PAID and      *)
(* COMPLETED together, but an UPDATE writes only the column that differs   *)
(* from what was loaded: PAID alone reaches the row if the session had     *)
(* loaded it COMPLETED.  That is safe because nobody takes a booking back   *)
(* from COMPLETED, as long as the booking handlers leave the status alone.  *)

PaidRow(row) == row.payment_status = "PAID" => row.status = "COMPLETED"

\* Bookings get their status from payments: the booking handlers do not
\* assign it, nor PAID, and bookings do not start as PAID but not COMPLETED.
OnlyPaymentsComplete ==
  /\ \A r \in Requests :
       /\ r.op \in UpdateOps =>
            /\ "status" \notin DOMAIN r.set
            /\ "payment_status" \in DOMAIN r.set => r.set.payment_status # "PAID"
       /\ r.op = "create_booking" => PaidRow(r.row)
  /\ \A b \in Live(SeedBookings) : PaidRow(SeedBookings[b])

\* The session x still holds a booking as it was loaded, or synchronised.
Snapshot(x) == Creating(x) \/ Modifying(x) \/ x.step \in {"sync", "flush"}

\* Session x against table b.
SessionPaid(x, b) ==
  /\ Snapshot(x) =>
       /\ PaidRow(x.loaded_booking)
       /\ x.loaded_booking.status = "COMPLETED" => b[x.booking_id].status = "COMPLETED"
  /\ x.step = "flush" =>
       \/ x.booking.status = "COMPLETED"
       \/ x.booking.payment_status # "PAID" /\ x.booking.status = x.loaded_booking.status
  /\ x.step = "commit" /\ x.booking # x.loaded_booking =>
       /\ PaidRow(x.booking)
       /\ b[x.booking_id].status = "COMPLETED" => x.booking.status = "COMPLETED"

PaidInv ==
  /\ \A b \in Bookings : bookings[b] # Null => PaidRow(bookings[b])
  /\ \A s \in Sessions : SessionPaid(session[s], bookings)

\* What a step may do to the status of a booking: COMPLETED is final.
PaidStays(b, c) ==
  /\ \A id \in Bookings : c[id] # Null => PaidRow(c[id])
  /\ \A id \in Bookings : b[id] # Null /\ b[id].status = "COMPLETED" =>
       c[id].status = "COMPLETED"

\* A step that makes session s become y keeps the invariant.
LEMMA PaidFrame ==
  ASSUME ColumnsInv, PaidInv, NEW s \in Sessions, NEW y,
         session' = [session EXCEPT ![s] = y],
         SessionPaid(y, bookings'),
         PaidStays(bookings, bookings'),
         \A t \in Sessions \ {s} : \A id \in Bookings :
           WritesBooking(session[t], id) => bookings'[id] = bookings[id]
  PROVE  PaidInv'
<1>1. session'[s] = y /\ \A t \in Sessions \ {s} : session'[t] = session[t]
  BY DEF ColumnsInv, TypeInv
<1>2. ASSUME NEW t \in Sessions \ {s}
      PROVE  SessionPaid(session[t], bookings')
  <2>1. SessionPaid(session[t], bookings) /\ ObjectsLoaded(session[t], bookings, payments)
    BY DEF PaidInv, ColumnsInv, TypeInv, SessionInv
  <2>2. Snapshot(session[t]) \/ session[t].step = "commit" =>
          session[t].booking_id \in Bookings /\ bookings[session[t].booking_id] # Null
    BY <2>1 DEF ObjectsLoaded, Snapshot, Syncing, SyncSteps
  <2>3. session[t].step = "commit" /\ session[t].booking # session[t].loaded_booking =>
          bookings'[session[t].booking_id] = bookings[session[t].booking_id]
    BY <2>2 DEF WritesBooking
  <2> QED BY <2>1, <2>2, <2>3 DEF SessionPaid, PaidStays
<1>3. \A t \in Sessions : SessionPaid(session'[t], bookings')
  BY <1>1, <1>2
<1> QED BY <1>3 DEF PaidInv, PaidStays

\* The same for a step that leaves the tables alone.
LEMMA PaidLocal ==
  ASSUME ColumnsInv, PaidInv, NEW s \in Sessions, NEW y,
         session' = [session EXCEPT ![s] = y], UNCHANGED bookings,
         SessionPaid(y, bookings)
  PROVE  PaidInv'
<1>1. PaidStays(bookings, bookings')
  BY DEF PaidStays, PaidInv
<1>2. SessionPaid(y, bookings')
  OBVIOUS
<1> QED BY <1>1, <1>2, PaidFrame

\* A session that has loaded nothing.
LEMMA EmptyPaid ==
  ASSUME NEW x, NEW b, Empty(x)
  PROVE  SessionPaid(x, b)
BY DEF Empty, SessionPaid, Snapshot, Creating, CreateSteps, Modifying, ModifySteps

\* A booking row is Paid as loaded, or as refreshed.
LEMMA RefreshedPaid ==
  ASSUME ColumnsInv, PaidInv, NEW s \in Sessions,
         Creating(session[s]) \/ Modifying(session[s]),
         NEW row \in RefreshedBookings(s)
  PROVE  /\ PaidRow(row)
         /\ row.status = "COMPLETED" => bookings[session[s].booking_id].status = "COMPLETED"
<1>1. /\ session[s].booking_id \in Bookings /\ bookings[session[s].booking_id] # Null
      /\ PaidRow(session[s].loaded_booking)
      /\ session[s].loaded_booking.status = "COMPLETED" =>
           bookings[session[s].booking_id].status = "COMPLETED"
  BY DEF ColumnsInv, TypeInv, SessionInv, ObjectsLoaded, PaidInv, SessionPaid, Snapshot
<1>2. row = bookings[session[s].booking_id] \/ row = session[s].loaded_booking
  BY DEF RefreshedBookings
<1> QED BY <1>1, <1>2 DEF PaidInv

\* Steps that load a booking, or keep the one that is loaded.
LEMMA LoadPaid ==
  ASSUME ColumnsInv, PaidInv, NEW s \in Sessions,
         \/ Reads(s) \/ LoadBooking(s) \/ ValidateBooking(s) \/ LoadPayment(s)
         \/ InsertPayment(s) \/ UpdatePayment(s)
  PROVE  PaidInv'
<1> DEFINE x == session[s]
           y == session'[s]
<1>1. session' = [session EXCEPT ![s] = y] /\ UNCHANGED bookings
  BY OneMoves, ReadsFields, LoadBookingFields, ValidateBookingFields, LoadPaymentFields,
     InsertPaymentFields, UpdatePaymentFields DEF ColumnsInv
<1>2. SessionPaid(x, bookings)
  BY DEF PaidInv
<1>3. CASE Reads(s)
  <2>1. /\ SameObjects(x, y) /\ ~Syncing(y)
        /\ Creating(y) <=> Creating(x)
        /\ Modifying(y) <=> Modifying(x)
    BY <1>3, ReadsFields DEF ColumnsInv
  <2> HIDE DEF y
  <2>2. SessionPaid(y, bookings)
    BY <1>2, <2>1 DEF SessionPaid, Snapshot, SameObjects, Syncing, SyncSteps
  <2> QED BY <1>1, <2>2, PaidLocal
<1>4. CASE LoadBooking(s) \/ ValidateBooking(s) \/ LoadPayment(s)
  <2>1. /\ y.step \notin {"flush", "commit"}
        /\ y.booking_id \in Bookings /\ bookings[y.booking_id] \in BookingRow
        /\ y.loaded_booking = bookings[y.booking_id]
    <3>1. CASE LoadBooking(s)
      BY <3>1, LoadBookingFields DEF ColumnsInv, Updating
    <3>2. CASE ValidateBooking(s)
      BY <3>2, ValidateBookingFields DEF ColumnsInv
    <3>3. CASE LoadPayment(s)
      BY <3>3, LoadPaymentFields DEF ColumnsInv, Modifying, ModifySteps
    <3> QED BY <1>4, <3>1, <3>2, <3>3
  <2> HIDE DEF y
  <2>2. SessionPaid(y, bookings)
    BY <2>1, NullAssumption DEF SessionPaid, PaidInv
  <2> QED BY <1>1, <2>2, PaidLocal
<1>5. CASE InsertPayment(s) \/ UpdatePayment(s)
  <2>1. /\ y.step \in {"sync", "commit"}
        /\ y.booking_id = x.booking_id
        /\ y.booking \in RefreshedBookings(s) /\ y.loaded_booking = y.booking
        /\ Creating(x) \/ Modifying(x)
    <3>1. CASE InsertPayment(s)
      BY <3>1, InsertPaymentFields DEF ColumnsInv
    <3>2. CASE UpdatePayment(s)
      BY <3>2, UpdatePaymentFields DEF ColumnsInv
    <3> QED BY <1>5, <3>1, <3>2
  <2> HIDE DEF y
  <2>2. SessionPaid(y, bookings)
    BY <2>1, RefreshedPaid DEF SessionPaid
  <2> QED BY <1>1, <2>2, PaidLocal
<1> QED BY <1>3, <1>4, <1>5

\* What synchronising makes of the two columns.
LEMMA SyncedFields ==
  ASSUME NEW row \in BookingRow, NEW paid
  PROVE  LET state == PaymentStatusOf(paid, row.amount)
         IN  /\ Synced(row, paid).payment_status = state
             /\ Synced(row, paid).status = IF state = "PAID" THEN "COMPLETED" ELSE row.status
BY DEF Synced, BookingRow

\* Synchronising a booking.
LEMMA SyncPaid ==
  ASSUME ColumnsInv, PaidInv, NEW s \in Sessions, SyncBooking(s)
  PROVE  PaidInv'
<1> DEFINE x == session[s]
           y == session'[s]
<1>1. /\ session' = [session EXCEPT ![s] = y] /\ UNCHANGED bookings
      /\ x.step = "sync" /\ Syncing(x) /\ y.step = "flush"
      /\ y.booking = Synced(x.booking, Balance(s))
      /\ y.booking_id = x.booking_id /\ y.loaded_booking = x.loaded_booking
  BY SyncBookingFields DEF ColumnsInv
<1>2. x.booking \in BookingRow /\ x.booking = x.loaded_booking /\ SessionPaid(x, bookings)
  BY <1>1 DEF ColumnsInv, TypeInv, SessionInv, SessionState, ObjectsLoaded, SessionColumns, PaidInv
<1> HIDE DEF y
<1>3. \/ y.booking.status = "COMPLETED"
      \/ y.booking.payment_status # "PAID" /\ y.booking.status = y.loaded_booking.status
  BY <1>1, <1>2, SyncedFields
<1>4. SessionPaid(y, bookings)
  BY <1>1, <1>2, <1>3 DEF SessionPaid, Snapshot
<1> QED BY <1>1, <1>4, PaidLocal

\* Its UPDATE: PAID is not written without COMPLETED unless the row is
\* COMPLETED already.
LEMMA FlushPaid ==
  ASSUME ColumnsInv, PaidInv, NEW s \in Sessions, FlushBooking(s)
  PROVE  PaidInv'
<1> DEFINE x == session[s]
           y == session'[s]
           row == bookings[x.booking_id]
<1>1. /\ session' = [session EXCEPT ![s] = y] /\ UNCHANGED bookings
      /\ x.step = "flush" /\ Syncing(x) /\ y.step = "commit"
      /\ y.booking = FlushedRow(x) /\ y.booking_id = x.booking_id
  BY FlushBookingFields DEF ColumnsInv
<1>2. /\ x.booking \in BookingRow /\ x.loaded_booking \in BookingRow /\ row \in BookingRow
      /\ x.booking_id \in Bookings /\ SessionPaid(x, bookings) /\ row # Null
  BY <1>1 DEF ColumnsInv, TypeInv, TablesInv, SessionInv, SessionState, ObjectsLoaded, PaidInv
<1>3. PaidRow(row) /\ PaidRow(x.loaded_booking)
      /\ (x.loaded_booking.status = "COMPLETED" => row.status = "COMPLETED")
  BY <1>1, <1>2 DEF PaidInv, SessionPaid, Snapshot
<1>4. \/ x.booking.status = "COMPLETED"
      \/ x.booking.payment_status # "PAID" /\ x.booking.status = x.loaded_booking.status
  BY <1>1, <1>2 DEF SessionPaid
<1>5. \A c \in {"status", "payment_status"} : FlushedRow(x)[c] =
        IF x.booking[c] # x.loaded_booking[c] THEN x.booking[c] ELSE row[c]
  BY <1>2, WrittenColumns, RowDomains DEF FlushedRow
<1> HIDE DEF y
<1>6. /\ y.booking.status = IF x.booking.status # x.loaded_booking.status
                            THEN x.booking.status ELSE row.status
      /\ y.booking.payment_status =
           IF x.booking.payment_status # x.loaded_booking.payment_status
           THEN x.booking.payment_status ELSE row.payment_status
  BY <1>1, <1>5
<1>7. PaidRow(y.booking) /\ (row.status = "COMPLETED" => y.booking.status = "COMPLETED")
  BY <1>3, <1>4, <1>6 DEF PaidRow
<1>8. SessionPaid(y, bookings)
  BY <1>1, <1>7 DEF SessionPaid, Snapshot, Creating, CreateSteps, Modifying, ModifySteps
<1> QED BY <1>1, <1>8, PaidLocal

\* Commits.
LEMMA CommitPaid ==
  ASSUME OnlyPaymentsComplete, ColumnsInv, PaidInv, NEW s \in Sessions,
         Commit(s) \/ SaveBooking(s) \/ InsertBooking(s)
  PROVE  PaidInv'
<1> DEFINE x == session[s]
<1>1. session' = [session EXCEPT ![s] = Idle]
  BY CommitFields, SaveBookingFields, InsertBookingFields DEF ColumnsInv
<1>2. PaidStays(bookings, bookings')
  <2>1. CASE Commit(s)
    <3>1. /\ x.step = "commit"
          /\ \A b \in Bookings : bookings'[b] =
               IF b = x.booking_id /\ x.booking # x.loaded_booking THEN x.booking ELSE bookings[b]
      BY <2>1, CommitFields DEF ColumnsInv
    <3>2. x.booking # x.loaded_booking =>
            PaidRow(x.booking)
            /\ (bookings[x.booking_id].status = "COMPLETED" => x.booking.status = "COMPLETED")
      BY <3>1 DEF PaidInv, SessionPaid
    <3> QED BY <3>1, <3>2 DEF PaidStays, PaidInv
  <2>2. CASE SaveBooking(s)
    <3> DEFINE b == x.booking_id
               row == SavedBooking(s)
               object == Assigned(x.booking, x.request.set)
    <3>1. /\ Updating(x) /\ b \in Bookings /\ bookings[b] \in BookingRow
          /\ x.booking \in BookingRow /\ x.request \in Requests /\ x.request.op \in UpdateOps
          /\ BookingChange(x.request.set)
          /\ bookings' = [bookings EXCEPT ![b] = row]
          /\ row = Written(bookings[b], x.loaded_booking, object)
      BY <2>2, SaveBookingFields DEF ColumnsInv
    <3>2. x.booking = x.loaded_booking
      BY <3>1 DEF ColumnsInv, SessionColumns
    <3>3. /\ object.status = x.booking.status
          /\ object.payment_status \in {x.booking.payment_status} \cup
               (BookingPaymentStatus \ {"PAID"})
      BY <3>1 DEF OnlyPaymentsComplete, Assigned, BookingRow, BookingChange
    <3>4. /\ row.status = bookings[b].status
          /\ row.payment_status \in {bookings[b].payment_status, object.payment_status}
          /\ object.payment_status = x.booking.payment_status =>
               row.payment_status = bookings[b].payment_status
      <4> HIDE DEF row, object
      <4>1. \A c \in {"status", "payment_status"} : row[c] =
              IF object[c] # x.booking[c] THEN object[c] ELSE bookings[b][c]
        BY <3>1, <3>2, WrittenColumns, RowDomains
      <4> QED BY <3>3, <4>1
    <3>5. PaidRow(row)
      <4> HIDE DEF row, object
      <4>1. PaidRow(bookings[b])
        BY <3>1, NullAssumption DEF PaidInv
      <4> QED BY <3>3, <3>4, <4>1 DEF PaidRow
    <3>6. \A id \in Bookings : bookings'[id] = IF id = b THEN row ELSE bookings[id]
      BY <3>1 DEF ColumnsInv, TypeInv, TablesInv
    <3> HIDE DEF row
    <3> QED BY <3>4, <3>5, <3>6 DEF PaidStays, PaidInv
  <2>3. CASE InsertBooking(s)
    <3> DEFINE new == [x.request.row EXCEPT !.number = x.number, !.created = x.started]
    <3>1. /\ x.request \in Requests /\ x.request.op = "create_booking"
          /\ x.request.row \in BookingRow
      BY <2>3, InsertBookingFields DEF ColumnsInv
    <3>2. PICK b \in Bookings : bookings[b] = Null /\ bookings' = [bookings EXCEPT ![b] = new]
      BY <2>3, InsertBookingFields DEF ColumnsInv
    <3>3. PaidRow(new)
      BY <3>1 DEF OnlyPaymentsComplete, PaidRow, BookingRow
    <3>4. \A id \in Bookings : bookings'[id] = IF id = b THEN new ELSE bookings[id]
      BY <3>2 DEF ColumnsInv, TypeInv, TablesInv
    <3> HIDE DEF new
    <3> QED BY <3>2, <3>3, <3>4 DEF PaidStays, PaidInv
  <2> QED BY <2>1, <2>2, <2>3
<1> QED BY <1>1, <1>2, IdleEmpty, EmptyPaid, LockedRowsStay, PaidFrame

\* Every step.
LEMMA PaidStep ==
  ASSUME OnlyPaymentsComplete, ColumnsInv, PaidInv, [Next]_vars
  PROVE  PaidInv'
<1>1. CASE UNCHANGED vars
  BY <1>1 DEF vars, PaidInv
<1>2. ASSUME NEW s \in Sessions, Rollback(s) \/ \E r \in Requests : Begin(s, r)
      PROVE  PaidInv'
  <2>1. PICK y : /\ session' = [session EXCEPT ![s] = y]
                 /\ UNCHANGED bookings
                 /\ Empty(y)
    BY <1>2, IdleEmpty, BeginFields DEF Rollback, ColumnsInv
  <2> QED BY <2>1, EmptyPaid, PaidLocal
<1> QED BY <1>1, <1>2, LoadPaid, SyncPaid, FlushPaid, CommitPaid, StepCases

(* A booking the ledger has paid in full is COMPLETED, whatever payments    *)
(* are created, refunded, changed or deleted at once, although the columns *)
(* are written one by one: the column PAID may be written without the      *)
(* column COMPLETED by a session that had loaded the booking COMPLETED.     *)
THEOREM PaidBookingsCompleted ==
  ASSUME OnlyPaymentsComplete
  PROVE  Spec => []PaidMeansCompleted
<1>1. Init => PaidInv
  <2> SUFFICES ASSUME Init PROVE PaidInv
    OBVIOUS
  <2>1. bookings = SeedBookings /\ \A s \in Sessions : session[s] = Idle
    BY DEF Init, SessionsInit
  <2>2. Live(SeedBookings) = {b \in Bookings : SeedBookings[b] # Null}
    BY SeedAssumption DEF Live
  <2>3. \A s \in Sessions : SessionPaid(session[s], bookings)
    BY <2>1, IdleEmpty, EmptyPaid
  <2> QED BY <2>1, <2>2, <2>3 DEF PaidInv, OnlyPaymentsComplete
<1>2. ColumnsInv /\ PaidInv /\ [Next]_vars => PaidInv'
  BY PaidStep
<1>3. ColumnsInv /\ PaidInv => PaidMeansCompleted
  <2> SUFFICES ASSUME ColumnsInv, PaidInv PROVE PaidMeansCompleted
    OBVIOUS
  <2> QED BY LiveRows DEF ColumnsInv, PaidInv, PaidMeansCompleted, PaidRow
<1> QED BY <1>1, <1>2, <1>3, ColumnsInvariance, PTL DEF Spec
----------------------------------------------------------------------------
(* Sums of finitely many natural numbers.                                  *)

\* Among subsets of a finite set there is a minimal one.  What follows uses it
\* where one would use induction over a finite set.
LEMMA MinimalSubset ==
  ASSUME NEW D, IsFiniteSet(D), NEW B, B \subseteq SUBSET D, B # {}
  PROVE  \E s \in B : \A u \in B : u \subseteq s => u = s
<1>1. B \subseteq FiniteSubsetsOf(D)
  BY FS_Subset DEF FiniteSubsetsOf
<1>2. PICK s \in B : \A u \in B : ~(<<u, s>> \in StrictSubsetOrdering(D))
  BY <1>1, WFMin, FS_StrictSubsetOrderingWellFounded
<1>3. ASSUME NEW u \in B, u \subseteq s PROVE u = s
  <2> DEFINE pair == <<u, s>>
  <2>1. pair \in (SUBSET D) \X (SUBSET D) /\ pair[1] = u /\ pair[2] = s
    BY <1>2
  <2> HIDE DEF pair
  <2>2. u # s => pair \in StrictSubsetOrdering(D)
    BY <1>3, <2>1 DEF StrictSubsetOrdering
  <2> QED BY <1>2, <2>2 DEF pair
<1> QED BY <1>2, <1>3

\* The element that a sum takes first, and g as the sums of f over the subsets
\* of D: what SumFunction is made of.
Pick(s) == CHOOSE x \in s : TRUE
IsSums(g, f, D) ==
  g = [s \in SUBSET D |-> IF s = {} THEN 0 ELSE f[Pick(s)] + g[s \ {Pick(s)}]]

\* It is one of them.
LEMMA PickIn == \A s : s # {} => Pick(s) \in s
BY DEF Pick

\* The equations of such sums.
LEMMA SumsFields ==
  ASSUME NEW g, NEW f, NEW D, IsSums(g, f, D)
  PROVE  /\ g[{}] = 0
         /\ \A s \in SUBSET D : s # {} => g[s] = f[Pick(s)] + g[s \ {Pick(s)}]
<1> HIDE DEF Pick
<1>2. \A s \in SUBSET D : g[s] = IF s = {} THEN 0 ELSE f[Pick(s)] + g[s \ {Pick(s)}]
  BY DEF IsSums
<1> QED BY <1>2

\* They determine them.
LEMMA SumsUnique ==
  ASSUME NEW D, IsFiniteSet(D), NEW E, D \subseteq E, NEW f, NEW g, NEW h,
         IsSums(g, f, D), IsSums(h, f, E)
  PROVE  \A s \in SUBSET D : g[s] = h[s]
<1> DEFINE Bad == {s \in SUBSET D : g[s] # h[s]}
<1> SUFFICES ASSUME Bad # {} PROVE FALSE
  OBVIOUS
<1>1. Bad \subseteq SUBSET D /\ \A s \in SUBSET D : s \in Bad <=> g[s] # h[s]
  OBVIOUS
<1> HIDE DEF Bad
<1>2. PICK s \in Bad : \A u \in Bad : u \subseteq s => u = s
  BY <1>1, MinimalSubset
<1>3. s # {}
  BY <1>1, SumsFields
<1> DEFINE u == s \ {Pick(s)}
<1>4. Pick(s) \in s /\ u \in SUBSET D /\ u \subseteq s /\ u # s
  BY <1>1, <1>3, PickIn
<1>5. s \in SUBSET D /\ s \in SUBSET E
  BY <1>1
<1>6. g[s] = f[Pick(s)] + g[u]
  BY <1>3, <1>5, SumsFields
<1>7. h[s] = f[Pick(s)] + h[u]
  BY <1>3, <1>5, SumsFields
<1>8. g[u] = h[u]
  BY <1>1, <1>2, <1>4
<1> QED BY <1>1, <1>5, <1>6, <1>7, <1>8

\* There are such sums: over a minimal set without, one could add the sum of the
\* whole set to those of its subsets.
LEMMA SumsExist ==
  ASSUME NEW D, IsFiniteSet(D), NEW f
  PROVE  \E g : IsSums(g, f, D)
<1> DEFINE Bad == {s \in SUBSET D : ~ \E g : IsSums(g, f, s)}
<1> SUFFICES ASSUME Bad # {} PROVE FALSE
  OBVIOUS
<1>1. Bad \subseteq SUBSET D /\ \A s \in SUBSET D : s \in Bad <=> ~ \E g : IsSums(g, f, s)
  OBVIOUS
<1> HIDE DEF Bad
<1>2. PICK T \in Bad : \A u \in Bad : u \subseteq T => u = T
  BY <1>1, MinimalSubset
<1> DEFINE Sol(s) == CHOOSE g : IsSums(g, f, s)
           Value(s) == IF s = {} THEN 0
                       ELSE f[Pick(s)] + Sol(s \ {Pick(s)})[s \ {Pick(s)}]
           table == [s \in SUBSET T |-> Value(s)]
<1>3. \A s \in SUBSET T : s # T => IsSums(Sol(s), f, s)
  BY <1>1, <1>2
<1> HIDE DEF Sol
<1>4. ASSUME NEW s \in SUBSET T, s # T
      PROVE  Sol(s)[s] = Value(s)
  <2>1. IsSums(Sol(s), f, s)
    BY <1>3, <1>4
  <2>2. CASE s = {}
    <3>1. Sol(s)[{}] = 0
      BY <2>1, SumsFields
    <3> QED BY <2>2, <3>1
  <2>3. CASE s # {}
    <3> DEFINE u == s \ {Pick(s)}
    <3>1. Sol(s)[s] = f[Pick(s)] + Sol(s)[u]
      <4>1. s \in SUBSET s
        OBVIOUS
      <4> QED BY <2>1, <2>3, <4>1, SumsFields
    <3>2. u \subseteq s /\ u \in SUBSET T /\ u # T
      BY <1>4, <2>3, PickIn
    <3>3. IsFiniteSet(u)
      BY <1>1, <3>2, FS_Subset
    <3>4. IsSums(Sol(u), f, u)
      BY <1>3, <3>2
    <3>5. u \in SUBSET u
      OBVIOUS
    <3>6. Sol(u)[u] = Sol(s)[u]
      BY <2>1, <3>2, <3>3, <3>4, <3>5, SumsUnique
    <3> QED BY <2>3, <3>1, <3>6
  <2> QED BY <2>2, <2>3
<1>5. ASSUME NEW s \in SUBSET T, s # {}
      PROVE  table[s] = f[Pick(s)] + table[s \ {Pick(s)}]
  <2>1. s \ {Pick(s)} \in SUBSET T /\ s \ {Pick(s)} # T
    BY <1>5, PickIn
  <2>2. Sol(s \ {Pick(s)})[s \ {Pick(s)}] = Value(s \ {Pick(s)})
    BY <2>1, <1>4
  <2> HIDE DEF Pick
  <2> QED BY <1>5, <2>1, <2>2
<1>6. table[{}] = 0
  OBVIOUS
<1>7. \A s \in SUBSET T : table[s] = IF s = {} THEN 0 ELSE f[Pick(s)] + table[s \ {Pick(s)}]
  BY <1>5, <1>6
<1>8. table = [s \in SUBSET T |-> table[s]]
  OBVIOUS
<1> HIDE DEF table
<1>9. IsSums(table, f, T)
  BY <1>7, <1>8 DEF IsSums
<1> QED BY <1>1, <1>2, <1>9

\* Whichever element is taken first, the sum is the same.
LEMMA SumsAnyOrder ==
  ASSUME NEW D, IsFiniteSet(D), NEW f, NEW g, IsSums(g, f, D),
         \A x \in D : f[x] \in Nat
  PROVE  \A s \in SUBSET D : g[s] \in Nat /\ \A x \in s : g[s] = f[x] + g[s \ {x}]
<1> DEFINE Wrong == {s \in SUBSET D : g[s] \notin Nat}
           Bad == {s \in SUBSET D : \E x \in s : g[s] # f[x] + g[s \ {x}]}
<1>0. g[{}] = 0 /\ 0 \in Nat /\ \A s \in SUBSET D : s # {} => g[s] = f[Pick(s)] + g[s \ {Pick(s)}]
  BY SumsFields
<1>1. Wrong \subseteq SUBSET D /\ \A s \in SUBSET D : s \in Wrong <=> g[s] \notin Nat
  OBVIOUS
<1>2. /\ Bad \subseteq SUBSET D
      /\ \A s \in SUBSET D : s \in Bad <=> \E x \in s : g[s] # f[x] + g[s \ {x}]
  OBVIOUS
<1> HIDE DEF Wrong, Bad
<1>3. Wrong = {}
  <2> SUFFICES ASSUME Wrong # {} PROVE FALSE
    OBVIOUS
  <2>1. PICK s \in Wrong : \A u \in Wrong : u \subseteq s => u = s
    BY <1>1, MinimalSubset
  <2>2. s \in SUBSET D /\ g[s] \notin Nat
    BY <1>1, <2>1
  <2>6. ASSUME s = {} PROVE FALSE
    <3>1. g[s] = g[{}]
      BY <2>6
    <3> QED BY <1>0, <2>2, <3>1
  <2> DEFINE u == s \ {Pick(s)}
  <2>3. Pick(s) \in s /\ u \in SUBSET D /\ u \subseteq s /\ u # s
    BY <2>2, <2>6, PickIn
  <2>4. g[u] \in Nat /\ f[Pick(s)] \in Nat
    BY <1>1, <2>1, <2>2, <2>3
  <2>5. g[s] = f[Pick(s)] + g[u]
    BY <1>0, <2>2, <2>6
  <2> QED BY <1>1, <2>1, <2>2, <2>4, <2>5
<1>4. \A s \in SUBSET D : g[s] \in Nat
  BY <1>1, <1>3
<1>5. Bad = {}
  <2> SUFFICES ASSUME Bad # {} PROVE FALSE
    OBVIOUS
  <2>1. PICK s \in Bad : \A u \in Bad : u \subseteq s => u = s
    BY <1>2, MinimalSubset
  <2>2. PICK x \in s : g[s] # f[x] + g[s \ {x}]
    BY <1>2, <2>1
  <2> DEFINE y == Pick(s)
  <2>3. s \in SUBSET D /\ y \in s /\ g[s] = f[y] + g[s \ {y}]
    BY <1>2, <2>1, <2>2, SumsFields, PickIn
  <2>4. y # x
    BY <2>2, <2>3
  <2> HIDE DEF y
  <2>5. /\ s \ {y} \in SUBSET D /\ s \ {y} # s /\ x \in s \ {y}
        /\ s \ {x} \in SUBSET D /\ s \ {x} # s /\ y \in s \ {x}
        /\ (s \ {y}) \ {x} = (s \ {x}) \ {y}
    BY <2>3, <2>4
  <2>6. g[s \ {y}] = f[x] + g[(s \ {y}) \ {x}]
    BY <1>2, <2>1, <2>5
  <2>7. g[s \ {x}] = f[y] + g[(s \ {y}) \ {x}]
    BY <1>2, <2>1, <2>5
  <2>8. f[x] \in Nat /\ f[y] \in Nat /\ g[(s \ {y}) \ {x}] \in Nat
    BY <1>4, <2>2, <2>3
  <2> QED BY <2>2, <2>3, <2>6, <2>7, <2>8
<1> QED BY <1>2, <1>4, <1>5

\* The sum of all of them.
LEMMA SumsShrink ==
  ASSUME NEW D, IsFiniteSet(D), NEW f, NEW g, IsSums(g, f, D),
         \A x \in D : f[x] \in Nat
  PROVE  g[D] \in Nat /\ \A x \in D : g[D] = f[x] + g[D \ {x}]
<1>1. D \in SUBSET D
  OBVIOUS
<1> QED BY <1>1, SumsAnyOrder

\* SumFunction is that sum.
LEMMA SumIsSums ==
  ASSUME NEW f, IsFiniteSet(DOMAIN f)
  PROVE  \E g : IsSums(g, f, DOMAIN f) /\ SumFunction(f) = g[DOMAIN f]
<1> DEFINE Sums(iter) ==
             iter = [set \in SUBSET (DOMAIN f) |-> IF set = {} THEN 0
                                           ELSE LET x == CHOOSE x \in set : TRUE
                                                IN  f[x] + iter[set \ {x}]]
           table == CHOOSE iter : Sums(iter)
<1>1. \A g : Sums(g) <=> IsSums(g, f, DOMAIN f)
  BY DEF IsSums, Pick
<1>4. PICK g : IsSums(g, f, DOMAIN f)
  BY SumsExist
<1> HIDE DEF Sums
<1>5. Sums(g)
  BY <1>1, <1>4
<1>2. Sums(table)
  BY <1>5
<1> USE DEF Sums
<1>3. SumFunction(f) = table[DOMAIN f]
  BY DEF SumFunction, SumFunctionOnSet, FoldFunctionOnSet, MapThenFoldSet
<1> QED BY <1>1, <1>2, <1>3

\* One more number adds that number.
LEMMA SumExtends ==
  ASSUME NEW D, IsFiniteSet(D), NEW x, x \notin D,
         NEW f \in [D \cup {x} -> Nat], NEW g \in [D -> Nat], \A y \in D : f[y] = g[y]
  PROVE  /\ SumFunction(f) = f[x] + SumFunction(g)
         /\ SumFunction(g) \in Nat
<1> DEFINE E == D \cup {x}
<1>1. IsFiniteSet(E) /\ DOMAIN f = E /\ DOMAIN g = D /\ f \in [E -> Nat]
  BY FS_AddElement
<1> HIDE DEF E
<1>2. PICK a : IsSums(a, f, E) /\ SumFunction(f) = a[E]
  BY <1>1, SumIsSums
<1>3. PICK b : IsSums(b, g, D) /\ SumFunction(g) = b[D]
  BY <1>1, SumIsSums
<1>4. \A s \in SUBSET D : s # {} => f[Pick(s)] = g[Pick(s)]
  BY PickIn
<1>5. IsSums(b, f, D)
  BY <1>3, <1>4 DEF IsSums
<1>6. D \subseteq E /\ D \in SUBSET D /\ E \in SUBSET E /\ x \in E /\ E \ {x} = D
  BY DEF E
<1>7. b[D] = a[D]
  BY <1>2, <1>5, <1>6, SumsUnique
<1>8. a[E] = f[x] + a[E \ {x}]
  BY <1>1, <1>2, <1>6, SumsShrink
<1>9. b[D] \in Nat
  BY <1>3, <1>6, SumsShrink
<1> QED BY <1>2, <1>3, <1>6, <1>7, <1>8, <1>9
----------------------------------------------------------------------------
(* Totals.                                                                 *)

\* The sum of no amounts.
LEMMA SumOfNone ==
  ASSUME NEW f, DOMAIN f = {}
  PROVE  SumFunction(f) = 0
<1> DEFINE Sums(iter) ==
             iter = [set \in SUBSET {} |-> IF set = {} THEN 0
                                           ELSE LET x == CHOOSE x \in set : TRUE
                                                IN  f[x] + iter[set \ {x}]]
<1>1. Sums([set \in SUBSET {} |-> 0])
  OBVIOUS
<1>2. Sums(CHOOSE iter : Sums(iter))
  BY <1>1
<1>3. SumFunction(f) = (CHOOSE iter : Sums(iter))[{}]
  BY DEF SumFunction, SumFunctionOnSet, FoldFunctionOnSet, MapThenFoldSet
<1> QED BY <1>2, <1>3

\* The row counts as paid for a booking.
CountsFor(row, b) ==
  row # Null /\ row.booking = b /\ row.status = "SUCCESS" /\ row.active

\* Tables that differ in rows that do not count have the same total.
LEMMA SameTotal ==
  ASSUME NEW p, NEW q, NEW b,
         \A id \in Payments : p[id] = q[id] \/ ~(CountsFor(p[id], b) \/ CountsFor(q[id], b))
  PROVE  TotalPaid(p, b) = TotalPaid(q, b)
<1>1. Counted(p, b) = Counted(q, b)
  BY DEF Counted, CountsFor
<1>2. \A id \in Counted(p, b) : p[id] = q[id]
  BY DEF Counted, CountsFor
<1>3. Amounts(p, b) = Amounts(q, b)
  BY <1>1, <1>2 DEF Amounts
<1> QED BY <1>3 DEF TotalPaid

\* A booking without payments is owed everything.
LEMMA NothingPaid ==
  ASSUME NEW p, NEW b, \A id \in Payments : p[id] # Null => p[id].booking # b, NEW amount
  PROVE  PaymentStatusOf(TotalPaid(p, b), amount) = "PENDING"
<1>1. DOMAIN Amounts(p, b) = {}
  BY DEF Amounts, Counted
<1>2. TotalPaid(p, b) = 0
  BY <1>1, SumOfNone DEF TotalPaid
<1> QED BY <1>2 DEF PaymentStatusOf
----------------------------------------------------------------------------
(* The ledger and the bookings it pays for.  A payment handler reads its    *)
(* booking and its payment first and what is paid last, so two handlers of *)
(* payments of one booking must not overlap.  Given that, what a session   *)
(* has loaded is what is committed, and the status it is about to commit   *)
(* is the one that the ledger with its own payment implies.                 *)

PaysFor(x) == Creating(x) \/ Modifying(x) \/ Syncing(x)

\* No two handlers of payments of one booking are served at the same time.
SerialPayments ==
  \A s, t \in Sessions :
    /\ PaysFor(session[s])
    /\ PaysFor(session[t])
    /\ session[s].booking_id = session[t].booking_id
    => s = t

\* The booking handlers assign neither the amount of a booking nor its
\* payment status, and bookings start as pending.
OnlyPaymentsPay ==
  /\ \A r \in Requests :
       /\ r.op \in UpdateOps => DOMAIN r.set \cap {"amount", "payment_status"} = {}
       /\ r.op = "create_booking" => r.row.payment_status = "PENDING"
  /\ \A b \in Live(SeedBookings) : SeedBookings[b].payment_status = "PENDING"

\* Payments p as session x sees them.
View(x, p) == [id \in Payments |-> IF WritesPayment(x, id) THEN x.payment ELSE p[id]]

\* The payment status of booking row id that payments p imply.
Due(p, row, id) == PaymentStatusOf(TotalPaid(p, id), row.amount)

SameTerms(row, other) ==
  other.amount = row.amount /\ other.payment_status = row.payment_status

\* The payment of session x belongs to its booking.
OwnPayment(x, p) ==
  /\ x.payment.booking = x.booking_id
  /\ p[x.payment_id] # Null => p[x.payment_id].booking = x.booking_id
  /\ p[x.payment_id] = Null => x.payment # x.loaded_payment

\* Session x against the tables.
SessionLedger(x, b, p) ==
  PaysFor(x) =>
    /\ Modifying(x) \/ Syncing(x) => OwnPayment(x, p)
    /\ Modifying(x) => x.payment = p[x.payment_id] /\ AcceptedChange(x.payment, x.request)
    /\ x.step # "commit" => SameTerms(b[x.booking_id], x.loaded_booking)
    /\ x.step = "flush" =>
         x.booking.payment_status = Due(View(x, p), b[x.booking_id], x.booking_id)
    /\ x.step = "commit" =>
         Due(View(x, p), b[x.booking_id], x.booking_id) =
           IF x.booking # x.loaded_booking THEN x.booking.payment_status
                                           ELSE b[x.booking_id].payment_status

TableLedger(b, p) ==
  \A id \in Bookings : b[id] # Null => b[id].payment_status = Due(p, b[id], id)

LedgerInv ==
  /\ TableLedger(bookings, payments)
  /\ \A s \in Sessions : SessionLedger(session[s], bookings, payments)

\* What a step must leave alone for session x to keep to it.
Spares(x, b, p, c, q) ==
  PaysFor(x) =>
    /\ SameTerms(b[x.booking_id], c[x.booking_id])
    /\ Modifying(x) \/ Syncing(x) => q[x.payment_id] = p[x.payment_id]
    /\ TotalPaid(View(x, q), x.booking_id) = TotalPaid(View(x, p), x.booking_id)

\* Then it does.
LEMMA LedgerStable ==
  ASSUME NEW x, NEW b, NEW p, NEW c, NEW q,
         SessionLedger(x, b, p), Spares(x, b, p, c, q)
  PROVE  SessionLedger(x, c, q)
<1> SUFFICES ASSUME PaysFor(x) PROVE SessionLedger(x, c, q)
  BY DEF SessionLedger
<1>1. /\ SameTerms(b[x.booking_id], c[x.booking_id])
      /\ Modifying(x) \/ Syncing(x) => q[x.payment_id] = p[x.payment_id]
  BY DEF Spares
<1>2. Due(View(x, q), c[x.booking_id], x.booking_id) = Due(View(x, p), b[x.booking_id], x.booking_id)
  BY DEF Spares, Due, SameTerms
<1>3. c[x.booking_id].payment_status = b[x.booking_id].payment_status
  BY <1>1 DEF SameTerms
<1>4. Modifying(x) \/ Syncing(x) => OwnPayment(x, q)
  BY <1>1 DEF SessionLedger, OwnPayment
<1>5. x.step # "commit" => SameTerms(c[x.booking_id], x.loaded_booking)
  BY <1>1 DEF SessionLedger, SameTerms
<1> QED BY <1>1, <1>2, <1>3, <1>4, <1>5 DEF SessionLedger

\* A step that makes session s become y keeps the invariant.
LEMMA LedgerFrame ==
  ASSUME ColumnsInv, LedgerInv, NEW s \in Sessions, NEW y,
         session' = [session EXCEPT ![s] = y],
         SessionLedger(y, bookings', payments'),
         TableLedger(bookings', payments'),
         \A t \in Sessions \ {s} : Spares(session[t], bookings, payments, bookings', payments')
  PROVE  LedgerInv'
<1>1. session'[s] = y /\ \A t \in Sessions \ {s} : session'[t] = session[t]
  BY DEF ColumnsInv, TypeInv
<1>2. ASSUME NEW t \in Sessions \ {s}
      PROVE  SessionLedger(session[t], bookings', payments')
  <2>1. SessionLedger(session[t], bookings, payments)
    BY DEF LedgerInv
  <2> QED BY <2>1, LedgerStable
<1>3. \A t \in Sessions : SessionLedger(session'[t], bookings', payments')
  BY <1>1, <1>2
<1> QED BY <1>3 DEF LedgerInv

\* The same for a step that leaves the tables alone.
LEMMA LedgerLocal ==
  ASSUME ColumnsInv, LedgerInv, NEW s \in Sessions, NEW y,
         session' = [session EXCEPT ![s] = y], UNCHANGED <<bookings, payments>>,
         SessionLedger(y, bookings, payments)
  PROVE  LedgerInv'
<1>1. SessionLedger(y, bookings', payments') /\ TableLedger(bookings', payments')
  BY DEF LedgerInv
<1>2. \A t \in Sessions \ {s} : Spares(session[t], bookings, payments, bookings', payments')
  BY DEF Spares, SameTerms
<1> QED BY <1>1, <1>2, LedgerFrame

\* A session that has loaded nothing.
LEMMA EmptyLedger ==
  ASSUME NEW x, NEW b, NEW p, Empty(x)
  PROVE  SessionLedger(x, b, p)
BY DEF Empty, SessionLedger, PaysFor, Creating, CreateSteps, Modifying, ModifySteps,
       Syncing, SyncSteps

\* Statements that read or load.
LEMMA LoadLedger ==
  ASSUME ColumnsInv, LedgerInv, NEW s \in Sessions,
         Reads(s) \/ LoadBooking(s) \/ ValidateBooking(s) \/ LoadPayment(s)
  PROVE  LedgerInv'
<1> DEFINE x == session[s]
           y == session'[s]
<1>1. session' = [session EXCEPT ![s] = y] /\ UNCHANGED <<bookings, payments>>
  BY OneMoves, ReadsFields, LoadBookingFields, ValidateBookingFields, LoadPaymentFields
     DEF ColumnsInv
<1>2. SessionLedger(x, bookings, payments)
  BY DEF LedgerInv
<1>3. CASE Reads(s)
  <2>1. /\ SameObjects(x, y) /\ ~Syncing(y) /\ ~Syncing(x)
        /\ Creating(y) <=> Creating(x)
        /\ Modifying(y) <=> Modifying(x)
    BY <1>3, ReadsFields DEF ColumnsInv
  <2> HIDE DEF y
  <2>2. y.step \notin {"flush", "commit"} /\ x.step \notin {"flush", "commit"}
    BY <2>1 DEF Syncing, SyncSteps
  <2>3. SessionLedger(y, bookings, payments)
    BY <1>2, <2>1, <2>2 DEF SessionLedger, PaysFor, SameObjects, OwnPayment
  <2> QED BY <1>1, <2>3, LedgerLocal
<1>4. CASE LoadBooking(s)
  <2>1. ~PaysFor(y)
    BY <1>4, LoadBookingFields DEF ColumnsInv, Updating, PaysFor, Creating, CreateSteps,
       Modifying, ModifySteps, Syncing, SyncSteps
  <2>2. SessionLedger(y, bookings, payments)
    BY <2>1 DEF SessionLedger
  <2> QED BY <1>1, <2>2, LedgerLocal
<1>5. CASE ValidateBooking(s)
  <2>1. /\ y.step = "reference" /\ y.request.op = "create_payment"
        /\ y.loaded_booking = bookings[y.booking_id]
    BY <1>5, ValidateBookingFields DEF ColumnsInv
  <2> HIDE DEF y
  <2>2. SessionLedger(y, bookings, payments)
    BY <2>1 DEF SessionLedger, SameTerms, Modifying, ModifySteps, Syncing, SyncSteps
  <2> QED BY <1>1, <2>2, LedgerLocal
<1>6. CASE LoadPayment(s)
  <2>1. /\ Modifying(y)
        /\ y.payment = payments[y.payment_id] /\ y.payment \in PaymentRow
        /\ y.booking_id = y.payment.booking
        /\ y.loaded_booking = bookings[y.booking_id]
        /\ AcceptedChange(y.payment, y.request)
    BY <1>6, LoadPaymentFields DEF ColumnsInv
  <2> HIDE DEF y
  <2>2. OwnPayment(y, payments)
    BY <2>1, NullAssumption DEF OwnPayment
  <2>3. SessionLedger(y, bookings, payments)
    BY <2>1, <2>2 DEF SessionLedger, SameTerms, Modifying, ModifySteps
  <2> QED BY <1>1, <2>3, LedgerLocal
<1> QED BY <1>3, <1>4, <1>5, <1>6

\* A session that has written its payment, or does not change what counts,
\* sees the total it had before.
LEMMA ViewTotal ==
  ASSUME NEW x, NEW p, NEW b,
         \A id \in Payments : WritesPayment(x, id) =>
           ~CountsFor(x.payment, b) /\ ~CountsFor(p[id], b)
  PROVE  TotalPaid(View(x, p), b) = TotalPaid(p, b)
<1>1. \A id \in Payments :
        View(x, p)[id] = p[id] \/ ~(CountsFor(View(x, p)[id], b) \/ CountsFor(p[id], b))
  BY DEF View
<1> HIDE DEF View
<1> QED BY <1>1, SameTotal

\* The booking of a session that has loaded it is committed, and its terms are
\* those that were loaded or refreshed.
LEMMA LoadedTerms ==
  ASSUME ColumnsInv, LedgerInv, NEW s \in Sessions,
         Creating(session[s]) \/ Modifying(session[s])
  PROVE  LET row == bookings[session[s].booking_id]
         IN  /\ session[s].booking_id \in Bookings /\ row # Null
             /\ row.payment_status = Due(payments, row, session[s].booking_id)
             /\ \A object \in RefreshedBookings(s) : SameTerms(row, object)
<1> DEFINE x == session[s]
<1>1. x.booking_id \in Bookings /\ bookings[x.booking_id] # Null
  BY DEF ColumnsInv, TypeInv, SessionInv, ObjectsLoaded
<1>2. SameTerms(bookings[x.booking_id], x.loaded_booking)
  <2>1. x.step # "commit" /\ PaysFor(x)
    BY DEF Creating, CreateSteps, Modifying, ModifySteps, PaysFor
  <2> QED BY <2>1 DEF LedgerInv, SessionLedger
<1>3. \A object \in RefreshedBookings(s) :
        object = bookings[x.booking_id] \/ object = x.loaded_booking
  BY DEF RefreshedBookings
<1> QED BY <1>1, <1>2, <1>3 DEF LedgerInv, TableLedger, SameTerms

\* create_payment inserts a payment of its booking.  One that is not
\* successful does not change what is paid.
LEMMA InsertPaymentLedger ==
  ASSUME ColumnsInv, LedgerInv, NEW s \in Sessions, InsertPayment(s)
  PROVE  LedgerInv'
<1> DEFINE x == session[s]
           y == session'[s]
           row == bookings[y.booking_id]
<1>1. /\ session' = [session EXCEPT ![s] = y]
      /\ UNCHANGED <<bookings, payments>>
      /\ Creating(x) /\ x.request.op = "create_payment"
      /\ Syncing(y)
      /\ y.step = IF x.request.status = "SUCCESS" THEN "sync" ELSE "commit"
      /\ y.payment_id \in Payments /\ payments[y.payment_id] = Null
      /\ y.payment = NewPayment(s)
      /\ y.loaded_payment = x.loaded_payment
      /\ y.booking_id = x.booking_id
      /\ y.booking \in RefreshedBookings(s) /\ y.loaded_booking = y.booking
  BY InsertPaymentFields DEF ColumnsInv
<1>2. x.booking_id = x.request.booking /\ x.loaded_payment = Null
  BY <1>1 DEF ColumnsInv, TypeInv, SessionInv, ObjectsLoaded, Modifying, ModifySteps, Syncing,
     SyncSteps, Creating, CreateSteps
<1>3. NewPayment(s).booking = x.request.booking /\ NewPayment(s).status = x.request.status
      /\ NewPayment(s) # Null
  <2>1. NewPayment(s).booking = x.request.booking /\ NewPayment(s).status = x.request.status
    BY DEF NewPayment, Request
  <2> QED BY <2>1, NewPaymentRow DEF ColumnsInv
<1>4. /\ row # Null /\ row.payment_status = Due(payments, row, y.booking_id)
      /\ SameTerms(row, y.loaded_booking)
  BY <1>1, LoadedTerms
<1> HIDE DEF y
<1>5. OwnPayment(y, payments)
  BY <1>1, <1>2, <1>3 DEF OwnPayment
<1>6. y.step = "commit" => Due(View(y, payments), row, y.booking_id) = row.payment_status
  <2> SUFFICES ASSUME x.request.status # "SUCCESS"
               PROVE  Due(View(y, payments), row, y.booking_id) = row.payment_status
    BY <1>1
  <2>1. \A id \in Payments : WritesPayment(y, id) =>
          ~CountsFor(y.payment, y.booking_id) /\ ~CountsFor(payments[id], y.booking_id)
    BY <1>1, <1>3 DEF WritesPayment, CountsFor
  <2>2. TotalPaid(View(y, payments), y.booking_id) = TotalPaid(payments, y.booking_id)
    BY <2>1, ViewTotal
  <2> QED BY <1>4, <2>2 DEF Due
<1>7. ~Modifying(y) /\ y.step # "flush"
  BY <1>1 DEF Modifying, ModifySteps
<1>8. SessionLedger(y, bookings, payments)
  BY <1>1, <1>4, <1>5, <1>6, <1>7 DEF SessionLedger
<1> QED BY <1>1, <1>8, LedgerLocal

\* A payment handler that goes to commit without synchronising has changed a
\* payment that counts neither before nor after.
LEMMA UncountedUpdate ==
  ASSUME NEW old \in PaymentRow, NEW new \in PaymentRow, NEW r, r.op \in PaymentOps,
         HandlerAssigns(r), AcceptedChange(old, r), new.status = Assigned(old, r.set).status,
         r.op # "update_payment_status",
         r.op = "update_payment" => new.status \notin {"SUCCESS", "REFUNDED"}
  PROVE  old.status # "SUCCESS" /\ new.status # "SUCCESS"
<1>1. CASE r.op = "delete_payment"
  <2>1. DOMAIN r.set = {"active"}
    BY <1>1 DEF HandlerAssigns, HandlerColumns
  <2>2. new.status = old.status
    BY <2>1 DEF Assigned, PaymentRow
  <2> QED BY <1>1, <2>2 DEF AcceptedChange
<1>2. CASE r.op = "update_payment"
  <2>1. Allowed(PaymentTransitions, old.status, new.status)
    BY <1>2 DEF AcceptedChange
  <2> QED BY <1>2, <2>1 DEF Allowed, PaymentTransitions
<1> QED BY <1>1, <1>2 DEF PaymentOps, ModifyOps

\* The UPDATE of a payment.
LEMMA UpdatePaymentLedger ==
  ASSUME ColumnsInv, TypeInv', LedgerInv, NEW s \in Sessions, UpdatePayment(s)
  PROVE  LedgerInv'
<1> DEFINE x == session[s]
           y == session'[s]
           row == bookings[y.booking_id]
           p == payments[x.payment_id]
           object == UpdatedPayment(x)
<1>1. /\ session' = [session EXCEPT ![s] = y]
      /\ UNCHANGED <<bookings, payments>>
      /\ Modifying(x) /\ x.request.op \in PaymentOps
      /\ PaymentChange(x.request.set) /\ HandlerAssigns(x.request)
      /\ Syncing(y)
      /\ y.step = IF \/ x.request.op = "update_payment_status"
                     \/ /\ x.request.op = "update_payment"
                        /\ UpdatedRow(x).status \in {"SUCCESS", "REFUNDED"}
                  THEN "sync" ELSE "commit"
      /\ x.payment_id \in Payments
      /\ y.payment_id = x.payment_id /\ y.booking_id = x.booking_id
      /\ y.payment = UpdatedRow(x)
      /\ y.booking \in RefreshedBookings(s) /\ y.loaded_booking = y.booking
  BY UpdatePaymentFields DEF ColumnsInv
<1>2. /\ p \in PaymentRow /\ p # Null /\ x.payment = p /\ x.loaded_payment = p
      /\ AcceptedChange(p, x.request) /\ p.booking = x.booking_id
  <2>1. p # Null /\ x.payment = x.loaded_payment
    BY <1>1 DEF ColumnsInv, TypeInv, SessionInv, ObjectsLoaded, SessionColumns
  <2>2. x.payment = p /\ AcceptedChange(x.payment, x.request) /\ OwnPayment(x, payments)
    BY <1>1 DEF LedgerInv, SessionLedger, PaysFor
  <2>3. p \in PaymentRow
    BY <1>1, <2>1 DEF ColumnsInv, TypeInv, TablesInv
  <2> QED BY <2>1, <2>2, <2>3 DEF OwnPayment
<1>3. object \in PaymentRow /\ object.booking = p.booking
      /\ object.status = Assigned(p, x.request.set).status
  BY <1>1, <1>2, AssignedPayment DEF UpdatedPayment
<1>4. /\ y.payment \in PaymentRow /\ y.payment # Null
      /\ y.payment.booking = p.booking /\ y.payment.status = object.status
  <2> HIDE DEF object
  <2>1. UpdatedRow(x) = Written(p, p, object)
    BY <1>2 DEF UpdatedRow, object
  <2>2. UpdatedRow(x) \in PaymentRow
    BY <1>2, <1>3, <2>1, WrittenPayment
  <2>3. \A c \in {"booking", "status"} : UpdatedRow(x)[c] = object[c]
    BY <1>2, <2>1, WrittenColumns, RowDomains
  <2> QED BY <1>1, <1>3, <2>2, <2>3, NullAssumption
<1>5. /\ row # Null /\ row.payment_status = Due(payments, row, y.booking_id)
      /\ SameTerms(row, y.loaded_booking)
  BY <1>1, LoadedTerms
<1> HIDE DEF y, object
<1>6. OwnPayment(y, payments)
  BY <1>1, <1>2, <1>4 DEF OwnPayment
<1>7. y.step = "commit" => Due(View(y, payments), row, y.booking_id) = row.payment_status
  <2> SUFFICES ASSUME y.step = "commit"
               PROVE  Due(View(y, payments), row, y.booking_id) = row.payment_status
    OBVIOUS
  <2>1. p.status # "SUCCESS" /\ y.payment.status # "SUCCESS"
    BY <1>1, <1>2, <1>3, <1>4, UncountedUpdate
  <2>2. \A id \in Payments : WritesPayment(y, id) =>
          ~CountsFor(y.payment, y.booking_id) /\ ~CountsFor(payments[id], y.booking_id)
    BY <1>1, <2>1 DEF WritesPayment, CountsFor
  <2>3. TotalPaid(View(y, payments), y.booking_id) = TotalPaid(payments, y.booking_id)
    BY <2>2, ViewTotal
  <2> QED BY <1>5, <2>3 DEF Due
<1>8. ~Modifying(y) /\ y.step # "flush"
  BY <1>1 DEF Modifying, ModifySteps
<1>9. SessionLedger(y, bookings, payments)
  BY <1>1, <1>5, <1>6, <1>7, <1>8 DEF SessionLedger
<1> QED BY <1>1, <1>9, LedgerLocal

\* Synchronising computes what is due.
LEMMA SyncDue ==
  ASSUME ColumnsInv, NEW s \in Sessions, SyncBooking(s),
         session[s].loaded_booking.amount = bookings[session[s].booking_id].amount
  PROVE  LET x == session[s]
             y == session'[s]
         IN  /\ View(y, payments) = View(x, payments)
             /\ y.booking.payment_status =
                  Due(View(y, payments), bookings[y.booking_id], y.booking_id)
<1> DEFINE x == session[s]
           y == session'[s]
<1>1. /\ x.step = "sync" /\ Syncing(x)
      /\ y.booking = Synced(x.booking, Balance(s))
      /\ y.booking_id = x.booking_id
      /\ y.payment_id = x.payment_id /\ y.payment = x.payment
      /\ y.loaded_payment = x.loaded_payment
  BY SyncBookingFields DEF ColumnsInv
<1>2. x.booking \in BookingRow /\ x.booking = x.loaded_booking
  BY <1>1 DEF ColumnsInv, TypeInv, SessionInv, SessionState, ObjectsLoaded, SessionColumns
<1> HIDE DEF y
<1>3. View(y, payments) = View(x, payments)
  BY <1>1 DEF View, WritesPayment
<1>4. Balance(s) = TotalPaid(View(x, payments), x.booking_id)
  BY DEF Balance, VisiblePayments, View, HoldsPayment, WritesPayment
<1>5. y.booking.payment_status = PaymentStatusOf(Balance(s), x.booking.amount)
  BY <1>1, <1>2, SyncedFields
<1> QED BY <1>1, <1>2, <1>3, <1>4, <1>5 DEF Due, y

\* It keeps the invariant.
LEMMA SyncLedger ==
  ASSUME ColumnsInv, LedgerInv, NEW s \in Sessions, SyncBooking(s)
  PROVE  LedgerInv'
<1> DEFINE x == session[s]
           y == session'[s]
<1>1. /\ session' = [session EXCEPT ![s] = y] /\ UNCHANGED <<bookings, payments>>
      /\ x.step = "sync" /\ Syncing(x) /\ y.step = "flush"
      /\ y.booking_id = x.booking_id /\ y.loaded_booking = x.loaded_booking
      /\ y.payment_id = x.payment_id /\ y.payment = x.payment
      /\ y.loaded_payment = x.loaded_payment
  BY SyncBookingFields DEF ColumnsInv
<1>2. /\ OwnPayment(x, payments)
      /\ SameTerms(bookings[x.booking_id], x.loaded_booking)
  BY <1>1 DEF LedgerInv, SessionLedger, PaysFor
<1>3. y.booking.payment_status =
        Due(View(y, payments), bookings[y.booking_id], y.booking_id)
  BY <1>2, SyncDue DEF SameTerms
<1> HIDE DEF y
<1>4. OwnPayment(y, payments)
  BY <1>1, <1>2 DEF OwnPayment
<1>5. SessionLedger(y, bookings, payments)
  BY <1>1, <1>2, <1>3, <1>4 DEF SessionLedger, Modifying, ModifySteps
<1> QED BY <1>1, <1>5, LedgerLocal

\* And the UPDATE writes it, or finds it in the row.
LEMMA FlushDue ==
  ASSUME ColumnsInv, NEW s \in Sessions, FlushBooking(s),
         NEW due, session[s].booking.payment_status = due,
         session[s].loaded_booking.payment_status = due =>
           bookings[session[s].booking_id].payment_status = due
  PROVE  LET x == session[s]
             y == session'[s]
         IN  /\ View(y, payments) = View(x, payments)
             /\ due = IF y.booking # y.loaded_booking
                      THEN y.booking.payment_status
                      ELSE bookings[y.booking_id].payment_status
<1> DEFINE x == session[s]
           y == session'[s]
           row == bookings[x.booking_id]
<1>1. /\ Syncing(x)
      /\ y.booking = FlushedRow(x) /\ y.booking_id = x.booking_id
      /\ y.loaded_booking = IF x.booking # x.loaded_booking THEN x.loaded_booking
                                                            ELSE FlushedRow(x)
      /\ y.payment_id = x.payment_id /\ y.payment = x.payment
      /\ y.loaded_payment = x.loaded_payment
  BY FlushBookingFields DEF ColumnsInv
<1>2. row \in BookingRow
  BY <1>1 DEF ColumnsInv, TypeInv, TablesInv, SessionInv, ObjectsLoaded
<1>3. FlushedRow(x)["payment_status"] =
        IF x.booking["payment_status"] # x.loaded_booking["payment_status"]
        THEN x.booking["payment_status"] ELSE row["payment_status"]
  BY <1>2, WrittenColumns, RowDomains DEF FlushedRow
<1>4. FlushedRow(x).payment_status = due
  BY <1>3
<1> HIDE DEF y
<1>5. y.booking = y.loaded_booking => row.payment_status = due
  BY <1>1, <1>4
<1>6. View(y, payments) = View(x, payments)
  BY <1>1 DEF View, WritesPayment
<1> QED BY <1>1, <1>4, <1>5, <1>6 DEF y

\* It keeps the invariant.
LEMMA FlushLedger ==
  ASSUME ColumnsInv, LedgerInv, NEW s \in Sessions, FlushBooking(s)
  PROVE  LedgerInv'
<1> DEFINE x == session[s]
           y == session'[s]
           row == bookings[x.booking_id]
           due == Due(View(x, payments), row, x.booking_id)
<1>1. /\ session' = [session EXCEPT ![s] = y] /\ UNCHANGED <<bookings, payments>>
      /\ x.step = "flush" /\ Syncing(x) /\ y.step = "commit"
      /\ y.booking_id = x.booking_id /\ y.payment_id = x.payment_id
      /\ y.payment = x.payment /\ y.loaded_payment = x.loaded_payment
  BY FlushBookingFields DEF ColumnsInv
<1>2. /\ OwnPayment(x, payments) /\ SameTerms(row, x.loaded_booking)
      /\ x.booking.payment_status = due
  BY <1>1 DEF LedgerInv, SessionLedger, PaysFor
<1>3. /\ View(y, payments) = View(x, payments)
      /\ due = IF y.booking # y.loaded_booking THEN y.booking.payment_status
                                               ELSE bookings[y.booking_id].payment_status
  <2> HIDE DEF due
  <2> QED BY <1>2, FlushDue DEF SameTerms
<1> HIDE DEF y
<1>4. OwnPayment(y, payments)
  BY <1>1, <1>2 DEF OwnPayment
<1>5. Due(View(y, payments), bookings[y.booking_id], y.booking_id) =
        IF y.booking # y.loaded_booking THEN y.booking.payment_status
                                        ELSE bookings[y.booking_id].payment_status
  BY <1>1, <1>3
<1>6. SessionLedger(y, bookings, payments)
  BY <1>1, <1>4, <1>5 DEF SessionLedger, Modifying, ModifySteps
<1> QED BY <1>1, <1>6, LedgerLocal

\* A commit writes its payment, which is one of its booking, and that booking.
LEMMA CommitRows ==
  ASSUME ColumnsInv, TypeInv', NEW s \in Sessions, Commit(s), OwnPayment(session[s], payments)
  PROVE  LET x == session[s]
             own(row) == row = Null \/ row.booking = x.booking_id
         IN  /\ \A id \in Payments : payments'[id] = View(x, payments)[id]
             /\ \A id \in Payments : payments'[id] # payments[id] =>
                  WritesPayment(x, id) /\ own(payments[id]) /\ own(payments'[id])
             /\ \A b \in Bookings : bookings'[b] # bookings[b] => b = x.booking_id
<1> DEFINE x == session[s]
<1>1. /\ Syncing(x) /\ x.step = "commit"
      /\ x.payment_id \in Payments /\ x.booking_id \in Bookings
      /\ \A p \in Payments : payments'[p] =
           IF p = x.payment_id /\ x.payment # x.loaded_payment THEN x.payment ELSE payments[p]
      /\ \A b \in Bookings : bookings'[b] =
           IF b = x.booking_id /\ x.booking # x.loaded_booking THEN x.booking ELSE bookings[b]
  BY CommitFields DEF ColumnsInv
<1>2. \A id \in Payments : payments'[id] = View(x, payments)[id]
  BY <1>1 DEF View, WritesPayment
<1>3. \A id \in Payments : payments'[id] # payments[id] =>
        /\ WritesPayment(x, id)
        /\ payments[id] = Null \/ payments[id].booking = x.booking_id
        /\ payments'[id].booking = x.booking_id
  BY <1>1 DEF WritesPayment, OwnPayment
<1> QED BY <1>1, <1>2, <1>3

\* A session about to commit.
LEMMA CommitsLedger ==
  ASSUME ColumnsInv, LedgerInv, NEW s \in Sessions, Commit(s)
  PROVE  LET x == session[s]
         IN  /\ PaysFor(x) /\ OwnPayment(x, payments)
             /\ Due(View(x, payments), bookings[x.booking_id], x.booking_id) =
                  IF x.booking # x.loaded_booking
                  THEN x.booking.payment_status ELSE bookings[x.booking_id].payment_status
<1>1. Syncing(session[s]) /\ session[s].step = "commit"
  BY CommitFields DEF ColumnsInv
<1> QED BY <1>1 DEF PaysFor, LedgerInv, SessionLedger

\* So it spares the sessions that pay for other bookings.
LEMMA CommitSpares ==
  ASSUME ColumnsInv, TypeInv', LedgerInv, SerialPayments, NEW s \in Sessions, Commit(s),
         NEW t \in Sessions \ {s}
  PROVE  Spares(session[t], bookings, payments, bookings', payments')
<1> DEFINE x == session[s]
           u == session[t]
<1> SUFFICES ASSUME PaysFor(u) PROVE Spares(u, bookings, payments, bookings', payments')
  BY DEF Spares
<1>1. /\ PaysFor(x)
      /\ \A id \in Payments : payments'[id] # payments[id] =>
           /\ WritesPayment(x, id)
           /\ payments[id] = Null \/ payments[id].booking = x.booking_id
           /\ payments'[id] = Null \/ payments'[id].booking = x.booking_id
      /\ \A b \in Bookings : bookings'[b] # bookings[b] => b = x.booking_id
  BY CommitsLedger, CommitRows
<1>2. u.booking_id # x.booking_id
  BY <1>1 DEF SerialPayments
<1>3. u.booking_id \in Bookings /\ (Modifying(u) \/ Syncing(u) => u.payment_id \in Payments)
  BY DEF PaysFor, ColumnsInv, TypeInv, SessionInv, ObjectsLoaded
<1>4. SameTerms(bookings[u.booking_id], bookings'[u.booking_id])
  BY <1>1, <1>2, <1>3 DEF SameTerms
<1>5. \A id \in Payments : WritesPayment(u, id) => payments'[id] = payments[id]
  BY LockedRowsStay
<1>6. Modifying(u) \/ Syncing(u) => payments'[u.payment_id] = payments[u.payment_id]
  <2> SUFFICES ASSUME Modifying(u) \/ Syncing(u), payments'[u.payment_id] # payments[u.payment_id]
               PROVE  FALSE
    OBVIOUS
  <2>1. OwnPayment(u, payments)
    BY DEF LedgerInv, SessionLedger
  <2>2. payments[u.payment_id] = Null
    BY <1>1, <1>2, <1>3, <2>1 DEF OwnPayment
  <2>3. WritesPayment(u, u.payment_id)
    BY <2>1, <2>2 DEF OwnPayment, WritesPayment
  <2> QED BY <1>3, <1>5, <2>3
<1>7. TotalPaid(View(u, payments'), u.booking_id) = TotalPaid(View(u, payments), u.booking_id)
  <2>1. ASSUME NEW id \in Payments
        PROVE  \/ View(u, payments')[id] = View(u, payments)[id]
               \/ ~(CountsFor(View(u, payments')[id], u.booking_id)
                    \/ CountsFor(View(u, payments)[id], u.booking_id))
    <3>1. CASE payments'[id] = payments[id]
      BY <3>1 DEF View
    <3>2. CASE payments'[id] # payments[id]
      <4>1. ~WritesPayment(u, id)
        BY <1>5, <3>2
      <4>2. View(u, payments')[id] = payments'[id] /\ View(u, payments)[id] = payments[id]
        BY <4>1 DEF View
      <4>3. ~CountsFor(payments'[id], u.booking_id) /\ ~CountsFor(payments[id], u.booking_id)
        BY <1>1, <1>2, <3>2 DEF CountsFor
      <4> QED BY <4>2, <4>3
    <3> QED BY <3>1, <3>2
  <2> HIDE DEF View
  <2> QED BY <2>1, SameTotal
<1> QED BY <1>4, <1>6, <1>7 DEF Spares

\* A commit leaves every booking with the payment status its payments imply.
LEMMA CommitTable ==
  ASSUME ColumnsInv, TypeInv', NEW s \in Sessions, Commit(s),
         TableLedger(bookings, payments), OwnPayment(session[s], payments),
         Due(View(session[s], payments), bookings[session[s].booking_id],
             session[s].booking_id) =
           IF session[s].booking # session[s].loaded_booking
           THEN session[s].booking.payment_status
           ELSE bookings[session[s].booking_id].payment_status
  PROVE  LET B == session[s].booking_id
         IN  /\ TableLedger(bookings', payments')
             /\ bookings[B] \in BookingRow /\ bookings[B] # Null
             /\ bookings'[B].amount = bookings[B].amount
             /\ TotalPaid(payments', B) = TotalPaid(View(session[s], payments), B)
             /\ \A b \in Bookings : b # B =>
                  /\ bookings'[b] = bookings[b]
                  /\ TotalPaid(payments', b) = TotalPaid(payments, b)
<1> DEFINE x == session[s]
           B == x.booking_id
<1>1. /\ Syncing(x) /\ x.step = "commit" /\ B \in Bookings
      /\ \A b \in Bookings : bookings'[b] =
           IF b = B /\ x.booking # x.loaded_booking THEN x.booking ELSE bookings[b]
  BY CommitFields DEF ColumnsInv
<1>2. /\ \A id \in Payments : payments'[id] = View(x, payments)[id]
      /\ \A id \in Payments : payments'[id] # payments[id] =>
           /\ payments[id] = Null \/ payments[id].booking = B
           /\ payments'[id] = Null \/ payments'[id].booking = B
  BY CommitRows
<1>3. bookings[B] # Null /\ bookings[B] \in BookingRow
  BY <1>1 DEF ColumnsInv, TypeInv, TablesInv, SessionInv, ObjectsLoaded
<1>4. bookings'[B].amount = bookings[B].amount
  <2>1. CASE x.booking # x.loaded_booking
    <3>1. DifferIn(bookings[B], x.booking, SyncColumns)
      BY <1>1, <2>1 DEF ColumnsInv, SessionColumns
    <3>2. "amount" \in DOMAIN bookings[B] \ SyncColumns
      BY <1>3, RowDomains DEF SyncColumns
    <3> QED BY <1>1, <2>1, <3>1, <3>2 DEF DifferIn
  <2>2. CASE x.booking = x.loaded_booking
    BY <1>1, <2>2
  <2> QED BY <2>1, <2>2
<1>5. TotalPaid(payments', B) = TotalPaid(View(x, payments), B)
  <2> HIDE DEF View
  <2> QED BY <1>2, SameTotal
<1>6. bookings'[B].payment_status = Due(payments', bookings'[B], B)
  BY <1>1, <1>4, <1>5 DEF Due
<1>7. ASSUME NEW b \in Bookings, b # B
      PROVE  bookings'[b] = bookings[b] /\ TotalPaid(payments', b) = TotalPaid(payments, b)
  <2>1. \A id \in Payments : payments'[id] = payments[id]
          \/ ~(CountsFor(payments'[id], b) \/ CountsFor(payments[id], b))
    BY <1>2, <1>7 DEF CountsFor
  <2> QED BY <1>1, <1>7, <2>1, SameTotal
<1>8. TableLedger(bookings', payments')
  BY <1>6, <1>7 DEF TableLedger, Due
<1> QED BY <1>3, <1>4, <1>5, <1>7, <1>8

\* So it keeps the invariant.
LEMMA CommitLedger ==
  ASSUME ColumnsInv, TypeInv', LedgerInv, SerialPayments, NEW s \in Sessions, Commit(s)
  PROVE  LedgerInv'
<1>1. session' = [session EXCEPT ![s] = Idle]
  BY CommitFields DEF ColumnsInv
<1>2. TableLedger(bookings', payments')
  BY CommitsLedger, CommitTable DEF LedgerInv
<1> QED BY <1>1, <1>2, CommitSpares, IdleEmpty, EmptyLedger, LedgerFrame

\* The booking handlers leave the amounts, and so what is due, alone.
LEMMA SaveTerms ==
  ASSUME OnlyPaymentsPay, ColumnsInv, TableLedger(bookings, payments),
         NEW s \in Sessions, SaveBooking(s)
  PROVE  /\ session' = [session EXCEPT ![s] = Idle] /\ UNCHANGED payments
         /\ TableLedger(bookings', payments')
         /\ \A b \in Bookings : bookings[b] # Null =>
              bookings'[b] # Null /\ SameTerms(bookings[b], bookings'[b])
<1> DEFINE x == session[s]
           B == x.booking_id
           row == SavedBooking(s)
           object == Assigned(x.booking, x.request.set)
<1>1. /\ session' = [session EXCEPT ![s] = Idle]
      /\ Updating(x) /\ B \in Bookings /\ bookings[B] \in BookingRow
      /\ UNCHANGED payments
      /\ x.booking \in BookingRow /\ x.request \in Requests /\ x.request.op \in UpdateOps
      /\ BookingChange(x.request.set) /\ x.loaded_booking \in BookingRow
      /\ bookings' = [bookings EXCEPT ![B] = row]
      /\ row = Written(bookings[B], x.loaded_booking, object)
  BY SaveBookingFields DEF ColumnsInv
<1>2. x.booking = x.loaded_booking
  BY <1>1 DEF ColumnsInv, SessionColumns
<1>3. SameTerms(bookings[B], row)
  <2> HIDE DEF row, object
  <2>1. \A c \in {"amount", "payment_status"} : row[c] =
          IF object[c] # x.booking[c] THEN object[c] ELSE bookings[B][c]
    BY <1>1, <1>2, WrittenColumns, RowDomains
  <2>2. \A c \in {"amount", "payment_status"} : object[c] = x.booking[c]
    BY <1>1, AssignedColumns, RowDomains DEF OnlyPaymentsPay, object
  <2> QED BY <2>1, <2>2 DEF SameTerms
<1>4. row # Null
  <2>1. object \in BookingRow
    BY <1>1, AssignedBooking
  <2> HIDE DEF row, object
  <2>2. row \in BookingRow
    BY <1>1, <2>1, WrittenBooking
  <2> QED BY <2>2, NullAssumption
<1>5. \A b \in Bookings : bookings'[b] = IF b = B THEN row ELSE bookings[b]
  BY <1>1 DEF ColumnsInv, TypeInv, TablesInv
<1> HIDE DEF row
<1>6. \A b \in Bookings : SameTerms(bookings[b], bookings'[b])
  BY <1>3, <1>5 DEF SameTerms
<1>7. bookings[B] # Null
  BY <1>1, NullAssumption
<1>8. TableLedger(bookings', payments')
  <2> SUFFICES ASSUME NEW b \in Bookings, bookings'[b] # Null
               PROVE  bookings'[b].payment_status = Due(payments', bookings'[b], b)
    BY DEF TableLedger
  <2>1. bookings[b] # Null
    BY <1>5, <1>7
  <2> QED BY <1>1, <1>6, <2>1 DEF TableLedger, Due, SameTerms
<1> QED BY <1>1, <1>4, <1>5, <1>6, <1>8

\* A new booking has no payments.
LEMMA InsertBookingTerms ==
  ASSUME OnlyPaymentsPay, ColumnsInv, TableLedger(bookings, payments),
         NEW s \in Sessions, InsertBooking(s)
  PROVE  /\ session' = [session EXCEPT ![s] = Idle] /\ UNCHANGED payments
         /\ TableLedger(bookings', payments')
         /\ \A b \in Bookings : bookings[b] # Null =>
              bookings'[b] # Null /\ SameTerms(bookings[b], bookings'[b])
<1> DEFINE x == session[s]
           new == [x.request.row EXCEPT !.number = x.number, !.created = x.started]
<1>1. /\ session' = [session EXCEPT ![s] = Idle] /\ UNCHANGED payments
      /\ x.request \in Requests /\ x.request.op = "create_booking"
      /\ x.request.row \in BookingRow
  BY InsertBookingFields DEF ColumnsInv
<1>2. PICK b \in Bookings : bookings[b] = Null /\ bookings' = [bookings EXCEPT ![b] = new]
  BY InsertBookingFields DEF ColumnsInv
<1>3. new.payment_status = "PENDING"
  BY <1>1 DEF OnlyPaymentsPay, BookingRow
<1>4. \A id \in Bookings : bookings'[id] = IF id = b THEN new ELSE bookings[id]
  BY <1>2 DEF ColumnsInv, TypeInv, TablesInv
<1> HIDE DEF new
<1>5. \A p \in Payments : payments[p] # Null => payments[p].booking # b
  BY <1>2 DEF ColumnsInv, TypeInv, TablesInv
<1>6. TableLedger(bookings', payments')
  <2> SUFFICES ASSUME NEW id \in Bookings, bookings'[id] # Null
               PROVE  bookings'[id].payment_status = Due(payments', bookings'[id], id)
    BY DEF TableLedger
  <2>1. CASE id = b
    BY <1>1, <1>3, <1>4, <1>5, <2>1, NothingPaid DEF Due
  <2>2. CASE id # b
    BY <1>1, <1>4, <2>2 DEF TableLedger
  <2> QED BY <2>1, <2>2
<1>7. \A id \in Bookings : bookings[id] # Null => bookings'[id] = bookings[id]
  BY <1>2, <1>4
<1> QED BY <1>1, <1>6, <1>7 DEF SameTerms

\* So the handlers of bookings keep the invariant.
LEMMA BookingLedgerKept ==
  ASSUME OnlyPaymentsPay, ColumnsInv, LedgerInv,
         NEW s \in Sessions, SaveBooking(s) \/ InsertBooking(s)
  PROVE  LedgerInv'
<1>1. /\ session' = [session EXCEPT ![s] = Idle] /\ UNCHANGED payments
      /\ TableLedger(bookings', payments')
      /\ \A b \in Bookings : bookings[b] # Null => SameTerms(bookings[b], bookings'[b])
  BY SaveTerms, InsertBookingTerms DEF LedgerInv
<1>2. \A t \in Sessions : Spares(session[t], bookings, payments, bookings', payments')
  <2> SUFFICES ASSUME NEW t \in Sessions, PaysFor(session[t])
               PROVE  Spares(session[t], bookings, payments, bookings', payments')
    BY DEF Spares
  <2>1. session[t].booking_id \in Bookings /\ bookings[session[t].booking_id] # Null
    BY DEF PaysFor, ColumnsInv, TypeInv, SessionInv, ObjectsLoaded
  <2> QED BY <1>1, <2>1 DEF Spares
<1> QED BY <1>1, <1>2, IdleEmpty, EmptyLedger, LedgerFrame

\* Every step.
LEMMA LedgerStep ==
  ASSUME OnlyPaymentsPay, ColumnsInv, TypeInv', LedgerInv, SerialPayments, [Next]_vars
  PROVE  LedgerInv'
<1>1. CASE UNCHANGED vars
  BY <1>1 DEF vars, LedgerInv
<1>2. ASSUME NEW s \in Sessions, Rollback(s) \/ \E r \in Requests : Begin(s, r)
      PROVE  LedgerInv'
  <2>1. PICK y : /\ session' = [session EXCEPT ![s] = y]
                 /\ UNCHANGED <<bookings, payments>>
                 /\ Empty(y)
    BY <1>2, IdleEmpty, BeginFields DEF Rollback, ColumnsInv
  <2> QED BY <2>1, EmptyLedger, LedgerLocal
<1>3. ASSUME NEW s \in Sessions,
             \/ Reads(s) \/ InsertBooking(s) \/ LoadBooking(s) \/ SaveBooking(s)
             \/ ValidateBooking(s) \/ InsertPayment(s) \/ LoadPayment(s) \/ UpdatePayment(s)
             \/ SyncBooking(s) \/ FlushBooking(s) \/ Commit(s)
      PROVE  LedgerInv'
  BY <1>3, LoadLedger, InsertPaymentLedger, UpdatePaymentLedger, SyncLedger, FlushLedger,
     CommitLedger, BookingLedgerKept
<1> QED BY <1>1, <1>2, <1>3, StepCases

(* The payment status of every booking is the one its committed payments    *)
(* imply, in every behaviour in which the payment handlers of one booking   *)
(* do not overlap, whatever other requests are served meanwhile.            *)
THEOREM LedgerStaysInSync ==
  OnlyPaymentsPay /\ Spec /\ []SerialPayments => []LedgerInSync
<1>1. OnlyPaymentsPay /\ Init => LedgerInv
  <2> SUFFICES ASSUME OnlyPaymentsPay, Init PROVE LedgerInv
    OBVIOUS
  <2>1. /\ bookings = SeedBookings /\ \A p \in Payments : payments[p] = Null
        /\ \A s \in Sessions : session[s] = Idle
    BY DEF Init, SessionsInit
  <2>2. Live(SeedBookings) = {b \in Bookings : SeedBookings[b] # Null}
    BY SeedAssumption DEF Live
  <2>3. \A s \in Sessions : SessionLedger(session[s], bookings, payments)
    BY <2>1, IdleEmpty, EmptyLedger
  <2>4. TableLedger(bookings, payments)
    BY <2>1, <2>2, NothingPaid DEF TableLedger, Due, OnlyPaymentsPay
  <2> QED BY <2>3, <2>4 DEF LedgerInv
<1>2. OnlyPaymentsPay /\ ColumnsInv /\ ColumnsInv' /\ LedgerInv /\ SerialPayments /\ [Next]_vars
        => LedgerInv'
  <2>1. ColumnsInv' => TypeInv'
    BY DEF ColumnsInv
  <2> QED BY <2>1, LedgerStep
<1>3. ColumnsInv /\ LedgerInv => LedgerInSync
  <2> SUFFICES ASSUME ColumnsInv, LedgerInv PROVE LedgerInSync
    OBVIOUS
  <2> QED BY LiveRows DEF ColumnsInv, LedgerInv, TableLedger, LedgerInSync, Due
<1>4. CASE OnlyPaymentsPay
  BY <1>1, <1>2, <1>3, <1>4, ColumnsInvariance, PTL DEF Spec
<1> QED BY <1>4

(* Served one request at a time, the ledger and the bookings agree.        *)
COROLLARY SequentialLedgerInSync ==
  ASSUME \A s, t \in Sessions : s = t, OnlyPaymentsPay
  PROVE  Spec => []LedgerInSync
<1>1. SerialPayments
  BY DEF SerialPayments
<1> QED BY <1>1, LedgerStaysInSync, PTL
----------------------------------------------------------------------------
(* Deposits.  Where payments are only ever added, the handlers of a booking *)
(* may overlap.  The unique payment number lets one of them at a time be   *)
(* between its INSERT and its COMMIT, except that around New Year the       *)
(* numbers of two years do not exclude each other: YearsApart is the        *)
(* hypothesis that this does not happen.  What a session has loaded may be  *)
(* behind what is committed, but never ahead: the payment status of a      *)
(* booking only moves forward.  So if the status that is due equals the    *)
(* one loaded, and the UPDATE leaves the column out, it is also the one    *)
(* that is committed.                                                      *)

\* Only successful payments are created, and none is changed: a successful
\* payment is neither deleted nor set to a status but REFUNDED and its own.
DepositsOnly ==
  /\ OnlyPaymentsPay
  /\ \A r \in Requests :
       /\ r.op = "create_payment" => r.status = "SUCCESS"
       /\ r.op # "update_payment"
       /\ r.op = "update_payment_status" => r.set.status \notin {"SUCCESS", "REFUNDED"}

\* How far a booking is paid.
Rank(status) == IF status = "PENDING" THEN 0 ELSE IF status = "PARTIALLY_PAID" THEN 1 ELSE 2

\* What is loaded is not ahead of the committed row.
Behind(object, row) ==
  object.amount = row.amount /\ Rank(object.payment_status) <= Rank(row.payment_status)

\* Session x has inserted a payment.
Deposited(x, p) ==
  p[x.payment_id] = Null /\ CountsFor(x.payment, x.booking_id) /\ x.payment.amount > 0

\* Session x against the tables.
SessionDeposit(x, b, p) ==
  /\ ~Modifying(x)
  /\ Creating(x) \/ x.step \in {"sync", "flush"} => Behind(x.loaded_booking, b[x.booking_id])
  /\ Syncing(x) => Deposited(x, p)
  /\ x.step = "flush" =>
       x.booking.payment_status = Due(View(x, p), b[x.booking_id], x.booking_id)
  /\ x.step = "commit" =>
       Due(View(x, p), b[x.booking_id], x.booking_id) =
         IF x.booking # x.loaded_booking THEN x.booking.payment_status
                                         ELSE b[x.booking_id].payment_status

\* The tables: the first bookings keep their amounts.
TableDeposits(b, p) ==
  /\ TableLedger(b, p)
  /\ \A id \in Payments : p[id] # Null => p[id].status = "SUCCESS" /\ p[id].active = TRUE
  /\ \A id \in Bookings : SeedBookings[id] # Null =>
       b[id] # Null /\ b[id].amount = SeedBookings[id].amount

DepositInv ==
  /\ TableDeposits(bookings, payments)
  /\ \A s \in Sessions : SessionDeposit(session[s], bookings, payments)

\* More paid, further on; and as far on means the same status.
LEMMA RankGrows ==
  ASSUME NEW amount \in Nat, NEW paid \in Nat, NEW more \in Nat, paid <= more
  PROVE  /\ Rank(PaymentStatusOf(paid, amount)) <= Rank(PaymentStatusOf(more, amount))
         /\ Rank(PaymentStatusOf(paid, amount)) = Rank(PaymentStatusOf(more, amount)) =>
              PaymentStatusOf(paid, amount) = PaymentStatusOf(more, amount)
BY DEF Rank, PaymentStatusOf

\* Ranks are numbers.
LEMMA RankType == \A status : Rank(status) \in Nat
BY DEF Rank

\* Finitely many payments are committed: the years are finitely many, and the
\* numbers of each are 1 .. k, at most 1 .. SeqLimit.
LEMMA CountedFinite ==
  ASSUME IInv, NEW b
  PROVE  /\ IsFiniteSet(Counted(payments, b))
         /\ Amounts(payments, b) \in [Counted(payments, b) -> Nat]
<1> DEFINE C == Counted(payments, b)
           number == [p \in C |-> <<payments[p].year, payments[p].number>>]
<1>1. \A p \in C : p \in Payments /\ payments[p] # Null /\ payments[p] \in PaymentRow
  BY DEF Counted, IInv, TypeInv, TablesInv
<1>2. ASSUME NEW p \in C
      PROVE  payments[p].year \in Years /\ payments[p].number \in 1 .. SeqLimit
  <2>1. payments[p].year \in Years
    BY <1>1 DEF PaymentRow
  <2>2. PICK k \in Nat : Issued(payments[p].year, k)
    BY <2>1 DEF IInv
  <2>3. payments[p].number \in NumbersOf(payments[p].year)
    BY <1>1 DEF NumbersOf
  <2> QED BY <2>1, <2>2, <2>3, SeqLimitAssumption DEF Issued
<1>3. ASSUME NEW p \in C, NEW q \in C, payments[p].year = payments[q].year,
             payments[p].number = payments[q].number
      PROVE  p = q
  <2>1. PICK k \in Nat : Issued(payments[p].year, k)
    BY <1>2 DEF IInv
  <2> QED BY <1>1, <1>3, <2>1 DEF Issued, Distinct
<1> HIDE DEF C
<1>4. number \in Injection(C, Years \X (1 .. SeqLimit))
  BY <1>2, <1>3 DEF Injection, IsInjective
<1>5. IsFiniteSet(Years \X (1 .. SeqLimit))
  <2>1. IsFiniteSet(1 .. SeqLimit)
    BY FS_Interval, SeqLimitAssumption
  <2> QED BY <2>1, YearsAssumption, FS_Product
<1>6. IsFiniteSet(C)
  BY <1>4, <1>5, FS_Injection
<1>7. \A p \in C : payments[p].amount \in Nat
  BY <1>1 DEF PaymentRow
<1> QED BY <1>6, <1>7 DEF Amounts, C

\* The payment a session has inserted is its own, and no other session has
\* inserted one.
LEMMA DepositAlone ==
  ASSUME IInv, YearsApart, DepositInv, NEW s \in Sessions, Syncing(session[s])
  PROVE  LET x == session[s] IN
         /\ x.payment_id \in Payments /\ x.booking_id \in Bookings
         /\ bookings[x.booking_id] # Null
         /\ x.payment \in PaymentRow /\ x.payment # Null
         /\ x.loaded_payment = Null /\ Deposited(x, payments) /\ OwnPayment(x, payments)
         /\ \A t \in Sessions \ {s} : ~Syncing(session[t])
<1>1. /\ session[s].payment_id \in Payments /\ session[s].booking_id \in Bookings
      /\ bookings[session[s].booking_id] # Null
      /\ session[s].payment \in PaymentRow /\ session[s].payment # Null
  BY DEF IInv, TypeInv, SessionInv, ObjectsLoaded, SessionState
<1> DEFINE year == session[s].payment.year
<1>2. PICK k \in Nat : Issued(year, k)
  BY <1>1 DEF IInv, PaymentRow
<1>3. \A t \in Sessions : Syncing(session[t]) =>
        InFlight(session[t], payments) /\ Deposited(session[t], payments)
  BY DEF DepositInv, SessionDeposit, Deposited, InFlight
<1>4. \A t \in Sessions : Syncing(session[t]) => Inserting(t)
  <2>1. year \in Years
    BY <1>1 DEF PaymentRow
  <2> QED BY <1>2, <1>3, <2>1, InFlightHolds DEF IInv, Inserting, InFlight
<1>5. session[s].loaded_payment = Null
  BY <1>2, <1>3 DEF Issued, NumberKnown
<1>6. \A t \in Sessions \ {s} : ~Syncing(session[t])
  BY <1>2, <1>3, <1>4 DEF YearsApart, Issued, InFlightOf
<1>7. OwnPayment(session[s], payments)
  BY <1>1, <1>3, <1>5 DEF OwnPayment, Deposited, CountsFor
<1> QED BY <1>1, <1>3, <1>5, <1>6, <1>7

\* It adds to what is paid.
LEMMA DepositAdds ==
  ASSUME IInv, YearsApart, DepositInv, NEW s \in Sessions, Syncing(session[s])
  PROVE  LET x == session[s] IN
         /\ TotalPaid(payments, x.booking_id) \in Nat
         /\ TotalPaid(View(x, payments), x.booking_id) \in Nat
         /\ TotalPaid(View(x, payments), x.booking_id) > TotalPaid(payments, x.booking_id)
<1> DEFINE x == session[s]
           B == x.booking_id
           P == x.payment_id
           C == Counted(payments, B)
           D == Counted(View(x, payments), B)
           f == Amounts(View(x, payments), B)
           g == Amounts(payments, B)
<1>1. /\ P \in Payments /\ payments[P] = Null
      /\ x.payment \in PaymentRow /\ x.payment # Null /\ x.loaded_payment = Null
      /\ CountsFor(x.payment, B) /\ x.payment.amount > 0
  BY DepositAlone DEF Deposited
<1>2. \A id \in Payments :
        View(x, payments)[id] = IF id = P THEN x.payment ELSE payments[id]
  BY <1>1 DEF View, WritesPayment
<1> HIDE DEF x, B, P
<1>3. P \notin C /\ D = C \cup {P}
  BY <1>1, <1>2 DEF Counted, CountsFor
<1>4. \A id \in C : id \in Payments /\ id # P
  BY <1>3 DEF Counted
<1>5. x.payment.amount \in Nat /\ x.payment.amount > 0
  BY <1>1 DEF PaymentRow
<1>6. IsFiniteSet(C) /\ g \in [C -> Nat]
  BY CountedFinite
<1>7. /\ DOMAIN f = D /\ f = [id \in D |-> f[id]]
      /\ f[P] = x.payment.amount
      /\ \A id \in C : f[id] = g[id]
  BY <1>1, <1>2, <1>3, <1>4 DEF Amounts
<1> HIDE DEF C, D, f, g
<1>8. f \in [C \cup {P} -> Nat]
  <2>1. \A id \in D : f[id] \in Nat
    BY <1>3, <1>5, <1>6, <1>7
  <2> QED BY <1>3, <1>7, <2>1
<1>9. SumFunction(f) = f[P] + SumFunction(g) /\ SumFunction(g) \in Nat
  BY <1>3, <1>6, <1>7, <1>8, SumExtends
<1>10. TotalPaid(View(x, payments), B) = SumFunction(f) /\ TotalPaid(payments, B) = SumFunction(g)
  BY DEF TotalPaid, f, g
<1>11. SumFunction(f) = x.payment.amount + SumFunction(g)
  BY <1>7, <1>9
<1>12. SumFunction(f) \in Nat /\ SumFunction(f) > SumFunction(g)
  BY <1>5, <1>9, <1>11
<1> QED BY <1>9, <1>10, <1>12 DEF x, B

\* What a step must leave alone for session x to keep to it.
SparesDeposit(x, b, p, c, q) ==
  /\ Creating(x) \/ x.step \in {"sync", "flush"} => Behind(b[x.booking_id], c[x.booking_id])
  /\ Syncing(x) => q = p /\ SameTerms(b[x.booking_id], c[x.booking_id])

\* Then it does.
LEMMA DepositStable ==
  ASSUME NEW x, NEW b, NEW p, NEW c, NEW q,
         SessionDeposit(x, b, p), SparesDeposit(x, b, p, c, q)
  PROVE  SessionDeposit(x, c, q)
<1>1. Creating(x) \/ x.step \in {"sync", "flush"} => Behind(x.loaded_booking, c[x.booking_id])
  BY RankType DEF SessionDeposit, SparesDeposit, Behind
<1>2. CASE Syncing(x)
  <2>1. q = p /\ SameTerms(b[x.booking_id], c[x.booking_id])
    BY <1>2 DEF SparesDeposit
  <2>2. Due(View(x, q), c[x.booking_id], x.booking_id) =
          Due(View(x, p), b[x.booking_id], x.booking_id)
    BY <2>1 DEF Due, SameTerms
  <2> QED BY <1>1, <1>2, <2>1, <2>2 DEF SessionDeposit, SameTerms
<1>3. CASE ~Syncing(x)
  BY <1>1, <1>3 DEF SessionDeposit, Syncing, SyncSteps
<1> QED BY <1>2, <1>3

\* A step that makes session s become y keeps the invariant.
LEMMA DepositFrame ==
  ASSUME TypeInv, DepositInv, NEW s \in Sessions, NEW y,
         session' = [session EXCEPT ![s] = y],
         SessionDeposit(y, bookings', payments'),
         TableDeposits(bookings', payments'),
         \A t \in Sessions \ {s} :
           SparesDeposit(session[t], bookings, payments, bookings', payments')
  PROVE  DepositInv'
<1>1. session'[s] = y /\ \A t \in Sessions \ {s} : session'[t] = session[t]
  BY DEF TypeInv
<1>2. ASSUME NEW t \in Sessions \ {s}
      PROVE  SessionDeposit(session[t], bookings', payments')
  <2>1. SessionDeposit(session[t], bookings, payments)
    BY DEF DepositInv
  <2> QED BY <2>1, DepositStable
<1>3. \A t \in Sessions : SessionDeposit(session'[t], bookings', payments')
  BY <1>1, <1>2
<1> QED BY <1>3 DEF DepositInv

\* The same for a step that leaves the tables alone.
LEMMA DepositLocal ==
  ASSUME TypeInv, DepositInv, NEW s \in Sessions, NEW y,
         session' = [session EXCEPT ![s] = y], UNCHANGED <<bookings, payments>>,
         SessionDeposit(y, bookings, payments)
  PROVE  DepositInv'
<1>1. SessionDeposit(y, bookings', payments') /\ TableDeposits(bookings', payments')
  BY DEF DepositInv
<1>2. \A t \in Sessions \ {s} :
        SparesDeposit(session[t], bookings, payments, bookings', payments')
  BY RankType DEF SparesDeposit, SameTerms, Behind
<1> QED BY <1>1, <1>2, DepositFrame

\* A session that has loaded nothing.
LEMMA EmptyDeposit ==
  ASSUME NEW x, NEW b, NEW p, Empty(x)
  PROVE  SessionDeposit(x, b, p)
BY DEF Empty, SessionDeposit, Creating, CreateSteps, Modifying, ModifySteps, Syncing, SyncSteps

\* No payment is modified.
LEMMA PaymentsUnmodified ==
  ASSUME DepositsOnly, TypeInv, DepositInv, NEW s \in Sessions
  PROVE  ~LoadPayment(s) /\ ~UpdatePayment(s)
<1>1. ASSUME LoadPayment(s) PROVE FALSE
  <2> DEFINE y == session'[s]
  <2>1. /\ y.request = session[s].request /\ y.request.op \in PaymentOps
        /\ y.payment_id \in Payments /\ y.payment = payments[y.payment_id]
        /\ y.payment \in PaymentRow
        /\ AcceptedChange(y.payment, y.request)
    BY <1>1, LoadPaymentFields
  <2>2. y.request \in Requests
    <3>1. session[s].step = "load" /\ ServesStep(session[s])
      BY <1>1 DEF LoadPayment, At, TypeInv, SessionInv
    <3> QED BY <2>1, <3>1 DEF ServesStep
  <2> HIDE DEF y
  <2>3. y.payment.status = "SUCCESS"
    BY <2>1, NullAssumption DEF DepositInv, TableDeposits
  <2>4. y.request.op = "update_payment_status"
    BY <2>1, <2>2, <2>3 DEF AcceptedChange, DepositsOnly, PaymentOps, ModifyOps
  <2> QED BY <2>1, <2>2, <2>3, <2>4
       DEF AcceptedChange, DepositsOnly, Allowed, PaymentTransitions
<1>2. ASSUME UpdatePayment(s) PROVE FALSE
  BY <1>2 DEF UpdatePayment, At, DepositInv, SessionDeposit, Modifying, ModifySteps
<1> QED BY <1>1, <1>2

\* Statements that read or load.
LEMMA LoadDeposit ==
  ASSUME ColumnsInv, DepositInv, NEW s \in Sessions,
         Reads(s) \/ LoadBooking(s) \/ ValidateBooking(s)
  PROVE  DepositInv'
<1> DEFINE x == session[s]
           y == session'[s]
<1>1. session' = [session EXCEPT ![s] = y] /\ UNCHANGED <<bookings, payments>>
  BY OneMoves, ReadsFields, LoadBookingFields, ValidateBookingFields DEF ColumnsInv
<1>2. SessionDeposit(x, bookings, payments)
  BY DEF DepositInv
<1>3. SessionDeposit(y, bookings, payments)
  <2>1. CASE Reads(s)
    <3>1. /\ SameObjects(x, y) /\ ~Syncing(y)
          /\ Creating(y) <=> Creating(x)
          /\ Modifying(y) <=> Modifying(x)
      BY <2>1, ReadsFields DEF ColumnsInv
    <3> HIDE DEF y
    <3>2. y.step \notin {"sync", "flush", "commit"}
      BY <3>1 DEF Syncing, SyncSteps
    <3> QED BY <1>2, <3>1, <3>2 DEF SessionDeposit, SameObjects
  <2>2. CASE LoadBooking(s)
    <3>1. /\ ~Creating(y) /\ ~Modifying(y) /\ ~Syncing(y)
          /\ y.step \notin {"sync", "flush", "commit"}
      BY <2>2, LoadBookingFields DEF ColumnsInv, Updating, Creating, CreateSteps,
         Modifying, ModifySteps, Syncing, SyncSteps
    <3> QED BY <3>1 DEF SessionDeposit
  <2>3. CASE ValidateBooking(s)
    <3>1. /\ y.step = "reference" /\ y.request.op = "create_payment"
          /\ y.loaded_booking = bookings[y.booking_id]
      BY <2>3, ValidateBookingFields DEF ColumnsInv
    <3> HIDE DEF y
    <3> QED BY <3>1, RankType DEF SessionDeposit, Behind, Modifying, ModifySteps,
         Syncing, SyncSteps
  <2> QED BY <2>1, <2>2, <2>3
<1> QED BY <1>1, <1>3, DepositLocal DEF ColumnsInv

\* create_payment inserts a successful payment.
LEMMA InsertDeposit ==
  ASSUME DepositsOnly, ColumnsInv, DepositInv, NEW s \in Sessions, InsertPayment(s)
  PROVE  DepositInv'
<1> DEFINE x == session[s]
           y == session'[s]
<1>1. /\ session' = [session EXCEPT ![s] = y] /\ UNCHANGED <<bookings, payments>>
      /\ Creating(x) /\ x.request.op = "create_payment"
      /\ Syncing(y)
      /\ y.step = IF x.request.status = "SUCCESS" THEN "sync" ELSE "commit"
      /\ y.payment_id \in Payments /\ payments[y.payment_id] = Null
      /\ y.payment = NewPayment(s)
      /\ y.booking_id = x.booking_id
      /\ y.booking \in RefreshedBookings(s) /\ y.loaded_booking = y.booking
  BY InsertPaymentFields DEF ColumnsInv
<1>2. x.booking_id = x.request.booking /\ x.request \in Requests /\ x.number \in Nat
  BY <1>1 DEF ColumnsInv, TypeInv, SessionInv, ObjectsLoaded, ServesStep, SessionState,
     Creating, CreateSteps
<1>3. x.request.status = "SUCCESS" /\ x.request.amount \in Nat /\ x.request.amount > 0
  BY <1>1, <1>2, CreatePaymentFields DEF DepositsOnly
<1>4. CountsFor(NewPayment(s), x.booking_id) /\ NewPayment(s).amount > 0
  <2>1. /\ NewPayment(s).booking = x.request.booking
        /\ NewPayment(s).status = x.request.status
        /\ NewPayment(s).amount = x.request.amount
        /\ NewPayment(s).active = TRUE
    BY DEF NewPayment, Request
  <2> QED BY <1>2, <1>3, <2>1, NewPaymentRow DEF ColumnsInv, CountsFor
<1>5. Behind(y.loaded_booking, bookings[x.booking_id])
  <2>1. y.loaded_booking \in {bookings[x.booking_id], x.loaded_booking}
    BY <1>1 DEF RefreshedBookings
  <2>2. Behind(x.loaded_booking, bookings[x.booking_id])
    BY <1>1 DEF DepositInv, SessionDeposit
  <2> QED BY <2>1, <2>2, RankType DEF Behind
<1> HIDE DEF y
<1>6. Deposited(y, payments)
  BY <1>1, <1>4 DEF Deposited
<1>7. ~Modifying(y)
  BY <1>1 DEF Modifying, ModifySteps
<1>8. SessionDeposit(y, bookings, payments)
  BY <1>1, <1>3, <1>5, <1>6, <1>7 DEF SessionDeposit
<1> QED BY <1>1, <1>8, DepositLocal DEF ColumnsInv

\* The status that is due is computed from the total with its own payment.
LEMMA SyncDeposit ==
  ASSUME ColumnsInv, DepositInv, NEW s \in Sessions, SyncBooking(s)
  PROVE  DepositInv'
<1> DEFINE x == session[s]
           y == session'[s]
<1>1. /\ session' = [session EXCEPT ![s] = y] /\ UNCHANGED <<bookings, payments>>
      /\ x.step = "sync" /\ Syncing(x) /\ y.step = "flush"
      /\ y.booking_id = x.booking_id /\ y.loaded_booking = x.loaded_booking
      /\ y.payment_id = x.payment_id /\ y.payment = x.payment
  BY SyncBookingFields DEF ColumnsInv
<1>2. Deposited(x, payments) /\ Behind(x.loaded_booking, bookings[x.booking_id])
  BY <1>1 DEF DepositInv, SessionDeposit
<1>3. y.booking.payment_status = Due(View(y, payments), bookings[y.booking_id], y.booking_id)
  BY <1>2, SyncDue DEF Behind
<1> HIDE DEF y
<1>4. Deposited(y, payments)
  BY <1>1, <1>2 DEF Deposited
<1>5. SessionDeposit(y, bookings, payments)
  BY <1>1, <1>2, <1>3, <1>4 DEF SessionDeposit, Modifying, ModifySteps
<1> QED BY <1>1, <1>5, DepositLocal DEF ColumnsInv

\* If the loaded status is the one that is due, so is the committed one, which
\* lies between the two.
LEMMA FlushDeposit ==
  ASSUME IInv, YearsApart, ColumnsInv, DepositInv, NEW s \in Sessions, FlushBooking(s)
  PROVE  DepositInv'
<1> DEFINE x == session[s]
           y == session'[s]
           B == x.booking_id
           row == bookings[B]
           due == Due(View(x, payments), row, B)
<1>1. /\ session' = [session EXCEPT ![s] = y] /\ UNCHANGED <<bookings, payments>>
      /\ x.step = "flush" /\ Syncing(x) /\ y.step = "commit"
      /\ y.booking_id = B /\ y.payment_id = x.payment_id
      /\ y.payment = x.payment
  BY FlushBookingFields DEF ColumnsInv
<1>2. /\ Deposited(x, payments) /\ Behind(x.loaded_booking, row)
      /\ x.booking.payment_status = due
  BY <1>1 DEF DepositInv, SessionDeposit
<1>3. B \in Bookings /\ row # Null
  BY <1>1, DepositAlone
<1>4. row.amount \in Nat /\ row.payment_status = Due(payments, row, B)
  <2>1. row \in BookingRow
    BY <1>3 DEF ColumnsInv, TypeInv, TablesInv
  <2> QED BY <1>3, <2>1 DEF DepositInv, TableDeposits, TableLedger, BookingRow
<1>5. /\ TotalPaid(payments, B) \in Nat /\ TotalPaid(View(x, payments), B) \in Nat
      /\ TotalPaid(View(x, payments), B) > TotalPaid(payments, B)
  BY <1>1, DepositAdds
<1>6. /\ Rank(row.payment_status) <= Rank(due)
      /\ Rank(row.payment_status) = Rank(due) => row.payment_status = due
  BY <1>4, <1>5, RankGrows DEF Due
<1> HIDE DEF due
<1>7. x.loaded_booking.payment_status = due => row.payment_status = due
  BY <1>2, <1>6, RankType DEF Behind
<1>8. /\ View(y, payments) = View(x, payments)
      /\ due = IF y.booking # y.loaded_booking THEN y.booking.payment_status
                                               ELSE bookings[y.booking_id].payment_status
  BY <1>2, <1>7, FlushDue
<1> HIDE DEF y
<1>9. Deposited(y, payments) /\ Syncing(y)
  BY <1>1, <1>2 DEF Deposited, Syncing, SyncSteps
<1>10. SessionDeposit(y, bookings, payments)
  BY <1>1, <1>8, <1>9 DEF SessionDeposit, Modifying, ModifySteps, Creating, CreateSteps, due
<1> QED BY <1>1, <1>10, DepositLocal DEF ColumnsInv

\* A commit moves the status of its booking forward.
LEMMA CommitDeposit ==
  ASSUME IInv, YearsApart, ColumnsInv, TypeInv', DepositInv, NEW s \in Sessions, Commit(s)
  PROVE  LET B == session[s].booking_id
         IN  /\ DepositInv'
             /\ B \in Bookings /\ bookings[B] # Null
             /\ TotalPaid(payments', B) > TotalPaid(payments, B)
             /\ TotalPaid(payments', B) \in Nat
             /\ \A b \in Bookings : b # B =>
                  /\ bookings'[b] = bookings[b]
                  /\ TotalPaid(payments', b) = TotalPaid(payments, b)
<1> DEFINE x == session[s]
           B == x.booking_id
<1>1. /\ session' = [session EXCEPT ![s] = Idle]
      /\ Syncing(x) /\ x.step = "commit"
      /\ \A b \in Bookings : bookings'[b] =
           IF b = B /\ x.booking # x.loaded_booking THEN x.booking ELSE bookings[b]
  BY CommitFields DEF ColumnsInv
<1>2. /\ B \in Bookings /\ bookings[B] # Null
      /\ x.payment # Null /\ Deposited(x, payments) /\ OwnPayment(x, payments)
      /\ \A t \in Sessions \ {s} : ~Syncing(session[t])
  BY <1>1, DepositAlone
<1>3. /\ TotalPaid(payments, B) \in Nat /\ TotalPaid(View(x, payments), B) \in Nat
      /\ TotalPaid(View(x, payments), B) > TotalPaid(payments, B)
  BY <1>1, DepositAdds
<1>4. /\ TableLedger(bookings', payments')
      /\ bookings[B] \in BookingRow
      /\ bookings'[B].amount = bookings[B].amount
      /\ TotalPaid(payments', B) = TotalPaid(View(x, payments), B)
      /\ \A b \in Bookings : b # B =>
           bookings'[b] = bookings[b] /\ TotalPaid(payments', b) = TotalPaid(payments, b)
  <2>1. SessionDeposit(x, bookings, payments) /\ TableLedger(bookings, payments)
    BY DEF DepositInv, TableDeposits
  <2>2. Due(View(x, payments), bookings[B], B) =
          IF x.booking # x.loaded_booking THEN x.booking.payment_status
                                          ELSE bookings[B].payment_status
    BY <1>1, <2>1 DEF SessionDeposit
  <2> QED BY <1>2, <2>1, <2>2, CommitTable
<1>5. \A b \in Bookings : bookings[b] # Null =>
        bookings'[b] # Null /\ bookings'[b].amount = bookings[b].amount
  <2>1. x.booking # Null
    BY <1>1 DEF ColumnsInv, TypeInv, SessionInv, ObjectsLoaded
  <2> QED BY <1>1, <1>4, <2>1
<1>6. \A id \in Payments : payments'[id] # Null =>
        payments'[id].status = "SUCCESS" /\ payments'[id].active = TRUE
  <2>1. \A id \in Payments : payments'[id] = View(x, payments)[id]
    BY <1>2, CommitRows
  <2>2. x.payment.status = "SUCCESS" /\ x.payment.active = TRUE
    <3>1. x.payment.active \in BOOLEAN
      BY <1>1, DepositAlone DEF PaymentRow
    <3> QED BY <1>2, <3>1 DEF Deposited, CountsFor
  <2>3. \A id \in Payments : payments'[id] = x.payment \/ payments'[id] = payments[id]
    BY <2>1 DEF View
  <2> QED BY <2>2, <2>3 DEF DepositInv, TableDeposits
<1>7. TableDeposits(bookings', payments')
  BY <1>4, <1>5, <1>6 DEF DepositInv, TableDeposits
<1>8. Behind(bookings[B], bookings'[B])
  <2>1. bookings[B].amount \in Nat
    BY <1>4 DEF BookingRow
  <2>2. bookings[B].payment_status = Due(payments, bookings[B], B)
    BY <1>2 DEF DepositInv, TableDeposits, TableLedger
  <2>3. bookings'[B].payment_status = Due(payments', bookings'[B], B)
    BY <1>2, <1>4, <1>5 DEF TableLedger
  <2> QED BY <1>3, <1>4, <2>1, <2>2, <2>3, RankGrows DEF Behind, Due
<1>9. ASSUME NEW t \in Sessions \ {s}
      PROVE  SparesDeposit(session[t], bookings, payments, bookings', payments')
  <2>1. ~Syncing(session[t]) /\ session[t].step \notin {"sync", "flush"}
    BY <1>2 DEF Syncing, SyncSteps
  <2>2. Creating(session[t]) => session[t].booking_id \in Bookings
    BY DEF ColumnsInv, TypeInv, SessionInv, ObjectsLoaded
  <2>3. \A b \in Bookings : Behind(bookings[b], bookings'[b])
    BY <1>4, <1>8, RankType DEF Behind
  <2> QED BY <2>1, <2>2, <2>3 DEF SparesDeposit
<1>10. DepositInv'
  BY <1>1, <1>7, <1>9, IdleEmpty, EmptyDeposit, DepositFrame DEF ColumnsInv
<1> QED BY <1>2, <1>3, <1>4, <1>10

\* The handlers of bookings leave amounts and payment statuses alone.
LEMMA BookingDeposit ==
  ASSUME DepositsOnly, ColumnsInv, DepositInv,
         NEW s \in Sessions, SaveBooking(s) \/ InsertBooking(s)
  PROVE  /\ DepositInv' /\ UNCHANGED payments
         /\ \A b \in Bookings : bookings[b] # Null =>
              bookings'[b].payment_status = bookings[b].payment_status
<1>1. /\ session' = [session EXCEPT ![s] = Idle] /\ UNCHANGED payments
      /\ TableLedger(bookings', payments')
      /\ \A b \in Bookings : bookings[b] # Null =>
           bookings'[b] # Null /\ SameTerms(bookings[b], bookings'[b])
  BY SaveTerms, InsertBookingTerms DEF DepositsOnly, DepositInv, TableDeposits
<1>2. TableDeposits(bookings', payments')
  BY <1>1 DEF DepositInv, TableDeposits, SameTerms
<1>3. ASSUME NEW t \in Sessions
      PROVE  SparesDeposit(session[t], bookings, payments, bookings', payments')
  <2>1. Creating(session[t]) \/ Syncing(session[t]) =>
          session[t].booking_id \in Bookings /\ bookings[session[t].booking_id] # Null
    BY DEF ColumnsInv, TypeInv, SessionInv, ObjectsLoaded
  <2>2. session[t].step \in {"sync", "flush"} => Syncing(session[t])
    BY DEF Syncing, SyncSteps
  <2>3. \A b \in Bookings : bookings[b] # Null =>
          Behind(bookings[b], bookings'[b]) /\ SameTerms(bookings[b], bookings'[b])
    BY <1>1, RankType DEF Behind, SameTerms
  <2> QED BY <1>1, <2>1, <2>2, <2>3 DEF SparesDeposit
<1>4. DepositInv'
  BY <1>1, <1>2, <1>3, IdleEmpty, EmptyDeposit, DepositFrame DEF ColumnsInv
<1> QED BY <1>1, <1>4 DEF SameTerms

\* Every step keeps the invariant, and is a commit or moves no status.
LEMMA DepositStep ==
  ASSUME DepositsOnly, IInv, YearsApart, ColumnsInv, TypeInv', DepositInv, [Next]_vars
  PROVE  /\ DepositInv'
         /\ \/ \E s \in Sessions : Commit(s)
            \/ /\ UNCHANGED payments
               /\ \A b \in Bookings : bookings[b] # Null =>
                    bookings'[b].payment_status = bookings[b].payment_status
<1> DEFINE Conclusion ==
      /\ DepositInv'
      /\ \/ \E s \in Sessions : Commit(s)
         \/ /\ UNCHANGED payments
            /\ \A b \in Bookings : bookings[b] # Null =>
                 bookings'[b].payment_status = bookings[b].payment_status
<1>1. CASE UNCHANGED vars
  <2>1. UNCHANGED <<bookings, payments, session>>
    BY <1>1 DEF vars
  <2> QED BY <2>1 DEF DepositInv
<1>2. ASSUME NEW s \in Sessions, Rollback(s) \/ \E r \in Requests : Begin(s, r)
      PROVE  Conclusion
  <2>1. PICK y : /\ session' = [session EXCEPT ![s] = y]
                 /\ UNCHANGED <<bookings, payments>>
                 /\ Empty(y)
    BY <1>2, IdleEmpty, BeginFields DEF Rollback, ColumnsInv
  <2> QED BY <2>1, EmptyDeposit, DepositLocal DEF ColumnsInv
<1>3. ASSUME NEW s \in Sessions,
             \/ Reads(s) \/ LoadBooking(s) \/ ValidateBooking(s) \/ InsertPayment(s)
             \/ SyncBooking(s) \/ FlushBooking(s)
      PROVE  Conclusion
  <2>1. UNCHANGED <<bookings, payments>>
    BY <1>3, ReadsFields, LoadBookingFields, ValidateBookingFields, InsertPaymentFields,
       SyncBookingFields, FlushBookingFields DEF ColumnsInv
  <2>2. DepositInv'
    BY <1>3, LoadDeposit, InsertDeposit, SyncDeposit, FlushDeposit
  <2> QED BY <2>1, <2>2
<1>4. ASSUME NEW s \in Sessions, SaveBooking(s) \/ InsertBooking(s)
      PROVE  Conclusion
  BY <1>4, BookingDeposit
<1>5. ASSUME NEW s \in Sessions, Commit(s)
      PROVE  Conclusion
  BY <1>5, CommitDeposit
<1>6. \A s \in Sessions : ~LoadPayment(s) /\ ~UpdatePayment(s)
  BY PaymentsUnmodified DEF ColumnsInv
<1> HIDE DEF Conclusion
<1>7. Conclusion
  BY <1>1, <1>2, <1>3, <1>4, <1>5, <1>6, StepCases DEF Conclusion
<1> QED BY <1>7 DEF Conclusion

\* The invariant.
LEMMA DepositInit == DepositsOnly /\ Init => DepositInv
<1> SUFFICES ASSUME DepositsOnly, Init PROVE DepositInv
  OBVIOUS
<1>1. /\ bookings = SeedBookings /\ \A p \in Payments : payments[p] = Null
      /\ \A s \in Sessions : session[s] = Idle
  BY DEF Init, SessionsInit
<1>2. Live(SeedBookings) = {b \in Bookings : SeedBookings[b] # Null}
  BY SeedAssumption DEF Live
<1>3. \A s \in Sessions : SessionDeposit(session[s], bookings, payments)
  BY <1>1, IdleEmpty, EmptyDeposit
<1>4. TableDeposits(bookings, payments)
  BY <1>1, <1>2, NothingPaid DEF TableDeposits, TableLedger, Due, DepositsOnly, OnlyPaymentsPay
<1> QED BY <1>3, <1>4 DEF DepositInv

\* It always holds, if YearsApart does.
LEMMA DepositInvariance == DepositsOnly /\ Spec /\ []YearsApart => []DepositInv
<1>1. DepositsOnly /\ IInv /\ YearsApart /\ ColumnsInv /\ ColumnsInv' /\ DepositInv
        /\ [Next]_vars => DepositInv'
  <2>1. ColumnsInv' => TypeInv'
    BY DEF ColumnsInv
  <2> QED BY <2>1, DepositStep
<1>2. CASE DepositsOnly
  BY <1>1, <1>2, DepositInit, ColumnsInvariance, Invariance, PTL DEF Spec
<1> QED BY <1>2

(* When payments are only added, the ledger and the bookings agree at any  *)
(* time, however the handlers of one booking interleave, in every behaviour *)
(* in which no payments with numbers of two years are in flight at once.   *)
THEOREM DepositsStayInSync == DepositsOnly /\ Spec /\ []YearsApart => []LedgerInSync
<1>1. ColumnsInv /\ DepositInv => LedgerInSync
  <2> SUFFICES ASSUME ColumnsInv, DepositInv PROVE LedgerInSync
    OBVIOUS
  <2> QED BY LiveRows DEF ColumnsInv, DepositInv, TableDeposits, TableLedger, LedgerInSync, Due
<1> QED BY <1>1, DepositInvariance, ColumnsInvariance, PTL

\* A commit is an atomic deposit, or one into a booking created meanwhile.
LEMMA CommitRefines ==
  ASSUME IInv, YearsApart, ColumnsInv, TypeInv', DepositInv, NEW s \in Sessions, Commit(s)
  PROVE  LET L == Live(SeedBookings)
             paid == [b \in L |-> TotalPaid(payments, b)]
             status == [b \in L |-> bookings[b].payment_status]
         IN  (\E b \in L : Deposits!Deposit(b)) \/ (UNCHANGED paid /\ UNCHANGED status)
<1> DEFINE L == Live(SeedBookings)
           paid == [b \in L |-> TotalPaid(payments, b)]
           status == [b \in L |-> bookings[b].payment_status]
           new == [b \in L |-> TotalPaid(payments', b)]
           newStatus == [b \in L |-> bookings'[b].payment_status]
           B == session[s].booking_id
<1>1. /\ DepositInv' /\ B \in Bookings
      /\ TotalPaid(payments', B) > TotalPaid(payments, B) /\ TotalPaid(payments', B) \in Nat
      /\ \A b \in Bookings : b # B =>
           bookings'[b] = bookings[b] /\ TotalPaid(payments', b) = TotalPaid(payments, b)
  BY CommitDeposit
<1>2. L = {b \in Bookings : SeedBookings[b] # Null}
  BY SeedAssumption DEF Live
<1>3. \A b \in L \ {B} : new[b] = paid[b] /\ newStatus[b] = status[b]
  BY <1>1, <1>2
<1>4. CASE B \notin L
  <2>1. new = paid /\ newStatus = status
    BY <1>3, <1>4
  <2> QED BY <2>1
<1>5. ASSUME NEW b \in L, b = B
      PROVE  Deposits!Deposit(b)
  <2>1. new[b] > paid[b] /\ new[b] \in Nat
    BY <1>1, <1>5
  <2>2. newStatus[b] = Deposits!StatusOf(new[b], SeedBookings[b].amount)
    <3>1. /\ bookings'[b] # Null /\ bookings'[b].amount = SeedBookings[b].amount
          /\ bookings'[b].payment_status = Due(payments', bookings'[b], b)
      BY <1>1, <1>2, <1>5 DEF DepositInv, TableDeposits, TableLedger
    <3>2. newStatus[b] = PaymentStatusOf(new[b], SeedBookings[b].amount)
      BY <1>5, <3>1 DEF Due
    <3> HIDE DEF new, newStatus
    <3> QED BY <2>1, <3>2 DEF PaymentStatusOf, Deposits!StatusOf
  <2>3. new = [paid EXCEPT ![b] = new[b]]
    BY <1>3, <1>5
  <2>4. newStatus = [status EXCEPT ![b] = newStatus[b]]
    BY <1>3, <1>5
  <2>5. newStatus = [status EXCEPT ![b] =
                       Deposits!StatusOf(new[b], [id \in L |-> SeedBookings[id].amount][b])]
    BY <1>5, <2>2, <2>4
  <2> QED BY <2>1, <2>3, <2>5 DEF Deposits!Deposit
<1> QED BY <1>4, <1>5

(* Concurrent creations of successful payments act as if each payment and  *)
(* its effect on the booking were one atomic step, in every behaviour in   *)
(* which no payments with numbers of two years are in flight at once.      *)
THEOREM DepositsImplemented == DepositsOnly /\ Spec /\ []YearsApart => DepositsAreAtomic
<1> DEFINE L == Live(SeedBookings)
           paid == [b \in L |-> TotalPaid(payments, b)]
           status == [b \in L |-> bookings[b].payment_status]
<1>1. DepositsOnly /\ Init => Deposits!Init
  <2> SUFFICES ASSUME DepositsOnly, Init PROVE Deposits!Init
    OBVIOUS
  <2>1. bookings = SeedBookings /\ \A p \in Payments : payments[p] = Null
    BY DEF Init, SessionsInit
  <2>2. \A b : TotalPaid(payments, b) = 0
    <3> SUFFICES ASSUME NEW b PROVE TotalPaid(payments, b) = 0
      OBVIOUS
    <3>1. DOMAIN Amounts(payments, b) = {}
      BY <2>1 DEF Amounts, Counted
    <3> QED BY <3>1, SumOfNone DEF TotalPaid
  <2> QED BY <2>1, <2>2 DEF DepositsOnly, OnlyPaymentsPay, Deposits!Init
<1>2. DepositsOnly /\ IInv /\ YearsApart /\ ColumnsInv /\ ColumnsInv' /\ DepositInv
        /\ [Next]_vars
        => [\E b \in L : Deposits!Deposit(b)]_<<paid, status>>
  <2> SUFFICES ASSUME DepositsOnly, IInv, YearsApart, ColumnsInv, ColumnsInv', DepositInv, [Next]_vars
               PROVE  [\E b \in L : Deposits!Deposit(b)]_<<paid, status>>
    OBVIOUS
  <2>1. TypeInv'
    BY DEF ColumnsInv
  <2>2. CASE \E s \in Sessions : Commit(s)
    BY <2>1, <2>2, CommitRefines
  <2>3. CASE /\ UNCHANGED payments
             /\ \A b \in Bookings : bookings[b] # Null =>
                  bookings'[b].payment_status = bookings[b].payment_status
    <3>1. L = {b \in Bookings : SeedBookings[b] # Null}
      BY SeedAssumption DEF Live
    <3>2. \A b \in L : bookings'[b].payment_status = bookings[b].payment_status
      BY <2>3, <3>1 DEF DepositInv, TableDeposits
    <3>3. UNCHANGED paid /\ UNCHANGED status
      BY <2>3, <3>2
    <3> QED BY <3>3
  <2> QED BY <2>1, <2>2, <2>3, DepositStep
<1>3. CASE DepositsOnly
  BY <1>1, <1>2, <1>3, DepositInvariance, ColumnsInvariance, Invariance, PTL
     DEF Spec, DepositsAreAtomic, Deposits!Spec
<1> QED BY <1>3

(* Within one calendar year nothing else is needed.                        *)
COROLLARY DepositsOfOneYear ==
  ASSUME \A y, z \in Years : y = z, DepositsOnly
  PROVE  Spec => []LedgerInSync /\ DepositsAreAtomic
<1>1. IInv => YearsApart
  <2> SUFFICES ASSUME IInv, NEW s \in Sessions, NEW t \in Sessions, Inserting(s), Inserting(t)
               PROVE  session[s].payment.year = session[t].payment.year
    BY DEF YearsApart
  <2> QED BY InsertingInFlight DEF PaymentRow
<1>2. Spec => []YearsApart
  BY <1>1, Invariance, PTL
<1> QED BY <1>2, DepositsStayInSync, DepositsImplemented, PTL
=============================================================================
