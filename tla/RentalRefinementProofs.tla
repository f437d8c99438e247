----------------------- MODULE RentalRefinementProofs -----------------------
(***************************************************************************)
(* Three contracts of the rental flow.  The tables implement what clients  *)
(* rely on (RentalService), whatever restarts, repeated and dying requests *)
(* do to the cells; what the owner is told of his revenue (Revenue) is     *)
(* final and complete; and the tables implement the allocation of cells    *)
(* (CellAllocation) in the environment the code takes for granted: a       *)
(* rental is finished once, and the seeding of a new instance meets no     *)
(* selection and no rental.                                                *)
(***************************************************************************)
EXTENDS RentalFlowProofs, Revenue

-----------------------------------------------------------------------------
(* The contract with the clients *)

\* What a client sees of a row q of storage_sessions and the payments P.
State(q) == CASE q.status = "selected" -> "held"
              [] q.status = "expired" -> "lapsed"
              [] q.status = "active" -> "rented"
              [] OTHER -> q.status
Home(q) == IF q.cell = None THEN None ELSE LocationOf[q.cell]
Pay(q, P) == IF q.rental = None THEN "none" ELSE P[q.rental].status
View(q, P) == [state |-> State(q), home |-> Home(q), pay |-> Pay(q, P)]

LEMMA RentalOfIsView ==
    /\ rentalOf = [s \in Sessions |-> View(session[s], payment)]
    /\ rentalOf' = [s \in Sessions |-> View(session'[s], payment')]
BY DEF rentalOf, View, State, Home, Pay

(* A sweep takes the selections whose time is over off the contract and    *)
(* leaves everything else as clients knew it.                              *)
LEMMA SweepIsLapse ==
    ASSUME RentalInv
    PROVE  /\ Lapsed \subseteq Service!Held
           /\ [s \in Sessions |-> View(SweptSessions[s], payment)] = Service!Lapsing(Lapsed)
<1>0. \A s \in Sessions : session[s] \in SessionRow
  BY DEF RentalInv, TypeOK
<1>1. Lapsed \subseteq Service!Held
  BY RentalOfIsView DEF Lapsed, Service!Held, View, State
<1>2. ASSUME NEW s \in Sessions
      PROVE  View(SweptSessions[s], payment) = Service!Lapsing(Lapsed)[s]
  <2>1. CASE s \in Lapsed
    <3>1. SweptSessions[s] = [session[s] EXCEPT !.status = "expired"]
      BY <2>1 DEF SweptSessions
    <3>2. View(SweptSessions[s], payment) = [View(session[s], payment) EXCEPT !.state = "lapsed"]
      BY <1>0, <3>1 DEF View, State, Home, Pay, SessionRow
    <3>. QED  BY <2>1, <3>2, RentalOfIsView DEF Service!Lapsing
  <2>2. CASE s \notin Lapsed
    <3>1. SweptSessions[s] = session[s]
      BY <2>2 DEF SweptSessions
    <3>. QED  BY <2>2, <3>1, RentalOfIsView DEF Service!Lapsing
  <2>. QED  BY <2>1, <2>2
<1>3. Service!Lapsing(Lapsed) = [s \in Sessions |-> Service!Lapsing(Lapsed)[s]]
  BY DEF Service!Lapsing
<1>. QED  BY <1>1, <1>2, <1>3

(* Each step of the tables is a step of the contract or is not seen by     *)
(* clients.                                                                *)
LEMMA ServiceStep ==
    ASSUME RentalInv, [Next]_vars
    PROVE  [Service!ServiceNext]_rentalOf
<1>. USE CellsAssumption, NoneAssumption
<1>0. /\ \A s \in Sessions : session[s] \in SessionRow
      /\ \A r \in Rentals : payment[r] \in PaymentRow
      /\ DOMAIN session = Sessions /\ DOMAIN payment = Rentals
  BY DEF RentalInv, TypeOK
<1>1. CASE CleanupExpiredSelections
  <2>1. session' = SweptSessions /\ payment' = payment
    BY <1>1 DEF CleanupExpiredSelections
  <2>2. rentalOf' = Service!Lapsing(Lapsed) /\ Lapsed \subseteq Service!Held
    BY <2>1, SweepIsLapse, RentalOfIsView
  <2>3. Lapsed \in SUBSET Sessions
    BY DEF Lapsed
  <2>. QED  BY <2>2, <2>3 DEF Service!ServiceNext, Service!Lapse
<1>2. ASSUME NEW s \in Sessions, NEW l \in Locations, NEW z \in Sizes,
             CreateCellSelection(s, l, z)
      PROVE  Service!ServiceNext
  <2>1. PICK c \in Selectable(l, z) :
            session' = [SweptSessions EXCEPT ![s] =
                           [status |-> "selected", cell |-> c,
                            hold |-> AppClock + HoldTTL,
                            rental |-> None, code |-> None]]
    BY <1>2 DEF CreateCellSelection
  <2>2. payment' = payment /\ session[s].status = "none"
    BY <1>2 DEF CreateCellSelection
  <2>3. c \in Cells /\ c # None /\ LocationOf[c] = l
    BY DEF Selectable
  <2>4. rentalOf[s].state = "none"
    BY <2>2, RentalOfIsView DEF View, State
  <2>. DEFINE row == [status |-> "selected", cell |-> c, hold |-> AppClock + HoldTTL,
                      rental |-> None, code |-> None]
              seen == [state |-> "held", home |-> l, pay |-> "none"]
  <2>5. session'[s] = row
    BY <2>1 DEF SweptSessions
  <2>6. View(row, payment') = seen
    BY <2>3 DEF View, State, Home, Pay
  <2>. HIDE DEF row, seen
  <2>7. rentalOf' = [Service!Lapsing(Lapsed) EXCEPT ![s] = seen]
    <3>1. \A t \in Sessions : t # s => session'[t] = SweptSessions[t]
      BY <2>1 DEF SweptSessions
    <3>2. ASSUME NEW t \in Sessions
          PROVE  rentalOf'[t] = IF t = s THEN seen ELSE Service!Lapsing(Lapsed)[t]
      <4>1. CASE t = s
        BY <2>5, <2>6, <4>1, RentalOfIsView
      <4>2. CASE t # s
        <5>1. rentalOf'[t] = View(SweptSessions[t], payment)
          BY <2>2, <3>1, <4>2, RentalOfIsView
        <5>2. Service!Lapsing(Lapsed)[t] = View(SweptSessions[t], payment)
          <6>1. [u \in Sessions |-> View(SweptSessions[u], payment)][t]
                    = View(SweptSessions[t], payment)
            OBVIOUS
          <6>. QED  BY <6>1, SweepIsLapse
        <5>. QED  BY <4>2, <5>1, <5>2
      <4>. QED  BY <4>1, <4>2
    <3>3. DOMAIN rentalOf' = Sessions /\ rentalOf' = [t \in Sessions |-> rentalOf'[t]]
      BY RentalOfIsView
    <3>4. Service!Lapsing(Lapsed) = [t \in Sessions |-> Service!Lapsing(Lapsed)[t]]
      BY DEF Service!Lapsing
    <3>5. [Service!Lapsing(Lapsed) EXCEPT ![s] = seen]
              = [t \in Sessions |-> IF t = s THEN seen ELSE Service!Lapsing(Lapsed)[t]]
      BY <3>4
    <3>. QED  BY <3>2, <3>3, <3>5
  <2>8. Lapsed \in SUBSET Sessions /\ Lapsed \subseteq Service!Held
    BY SweepIsLapse DEF Lapsed
  <2>9. Service!Select(s, l, Lapsed)
    BY <2>4, <2>7, <2>8 DEF Service!Select, seen
  <2>. QED  BY <2>8, <2>9 DEF Service!ServiceNext
<1>3. ASSUME NEW s \in Sessions, NEW l \in Locations, NEW r \in Rentals,
             NEW code \in Codes, CreateBooking(s, l, r, code)
      PROVE  Service!ServiceNext
  <2>1. /\ session[s].status = "selected"
        /\ session' = [session EXCEPT ![s] =
                          [@ EXCEPT !.status = "active", !.rental = r, !.code = code]]
        /\ payment[r].status = "none"
        /\ payment'[r].status = "pending"
        /\ \A q \in Rentals : q # r => payment'[q] = payment[q]
    BY <1>0, <1>3 DEF CreateBooking, Bookable
  <2>2. rentalOf[s].state = "held"
    BY <2>1, RentalOfIsView DEF View, State
  <2>3. /\ session'[s].status = "active" /\ session'[s].rental = r
        /\ session'[s].cell = session[s].cell
    BY <1>0, <2>1 DEF SessionRow
  <2>4. r # None
    OBVIOUS
  <2>5. View(session'[s], payment') =
            [state |-> "rented", home |-> rentalOf[s].home, pay |-> "pending"]
    <3>1. State(session'[s]) = "rented"
      BY <2>3 DEF State
    <3>2. Home(session'[s]) = Home(session[s])
      BY <2>3 DEF Home
    <3>3. Pay(session'[s], payment') = "pending"
      BY <2>1, <2>3, <2>4 DEF Pay
    <3>. QED  BY <3>1, <3>2, <3>3, RentalOfIsView DEF View
  <2>6. ASSUME NEW t \in Sessions, t # s
        PROVE  View(session'[t], payment') = View(session[t], payment)
    <3>1. session'[t] = session[t]
      BY <2>1, <2>6
    <3>2. session[t].rental # r
      BY <2>1, <2>4 DEF RentalInv, BookingIsWhole
    <3>3. session[t].rental \in Rentals \cup {None}
      BY <1>0 DEF SessionRow
    <3>4. Pay(session[t], payment') = Pay(session[t], payment)
      BY <2>1, <3>2, <3>3 DEF Pay
    <3>. QED  BY <3>1, <3>4 DEF View
  <2>7. rentalOf' = [rentalOf EXCEPT ![s] =
                        [state |-> "rented", home |-> rentalOf[s].home, pay |-> "pending"]]
    BY <2>5, <2>6, RentalOfIsView
  <2>8. Service!Book(s)
    BY <2>2, <2>7 DEF Service!Book
  <2>. QED  BY <2>8 DEF Service!ServiceNext
<1>4. ASSUME NEW r \in Rentals, NEW s \in Sessions, FinishRental(r, s)
      PROVE  Service!ServiceNext
  <2>1. /\ session[s].rental = r /\ payment' = payment
        /\ session' = [session EXCEPT ![s].status = "closed"]
    BY <1>4 DEF FinishRental
  <2>2. session[s].status \in {"active", "closed"}
    BY <2>1 DEF RentalInv, BookingIsWhole
  <2>3. rentalOf[s].state \in {"rented", "closed"}
    BY <2>2, RentalOfIsView DEF View, State
  <2>4. View(session'[s], payment') = [View(session[s], payment) EXCEPT !.state = "closed"]
    BY <1>0, <2>1 DEF View, State, Home, Pay, SessionRow
  <2>5. \A t \in Sessions : t # s => session'[t] = session[t]
    BY <2>1
  <2>6. rentalOf' = [rentalOf EXCEPT ![s].state = "closed"]
    BY <2>1, <2>4, <2>5, RentalOfIsView
  <2>7. Service!Finish(s)
    BY <2>3, <2>6 DEF Service!Finish
  <2>. QED  BY <2>7 DEF Service!ServiceNext
<1>5. ASSUME NEW k \in Clients, refreshPaymentStatus(k)
      PROVE  Service!ServiceNext \/ UNCHANGED rentalOf
  <2>. DEFINE r == request[k].rental
              s == payment[r].session
              p == Refreshed(payment[r]).status
  <2>1. session' = session
    BY <1>5 DEF refreshPaymentStatus
  <2>2. r \in Rentals /\ payment[r].status # "none"
    BY <1>5 DEF RentalInv, RequestsAreBooked, TypeOK, Request, refreshPaymentStatus
  <2>3. s \in Sessions /\ session[s].rental = r
    BY <1>0, <2>2 DEF RentalInv, BookingIsWhole, PaymentRow
  <2>4. CASE payment' = [payment EXCEPT ![r] = Refreshed(@)]
    <3>1. p \in Service!Settled(payment[r].status) /\ p \in {"pending", "paid", "expired"}
      BY <1>0, <2>2 DEF Refreshed, Due, PaymentRow, Service!Settled
    <3>2. View(session[s], payment') = [View(session[s], payment) EXCEPT !.pay = p]
      <4>1. Pay(session[s], payment') = p
        BY <1>0, <2>2, <2>3, <2>4 DEF Pay
      <4>. QED  BY <4>1 DEF View
    <3>3. ASSUME NEW t \in Sessions, t # s
          PROVE  View(session[t], payment') = View(session[t], payment)
      <4>1. session[t].rental # r
        BY <2>2, <3>3 DEF RentalInv, BookingIsWhole
      <4>2. session[t].rental \in Rentals \cup {None}
        BY <1>0 DEF SessionRow
      <4>3. Pay(session[t], payment') = Pay(session[t], payment)
        BY <1>0, <2>4, <4>1, <4>2 DEF Pay
      <4>. QED  BY <4>3 DEF View
    <3>4. rentalOf' = [rentalOf EXCEPT ![s].pay = p]
      BY <2>1, <2>3, <3>2, <3>3, RentalOfIsView
    <3>5. rentalOf[s].pay = payment[r].status
      BY <2>2, <2>3, RentalOfIsView DEF View, Pay
    <3>6. Service!Refresh(s, p)
      BY <3>1, <3>4, <3>5 DEF Service!Refresh
    <3>. QED  BY <2>3, <3>1, <3>6 DEF Service!ServiceNext
  <2>5. CASE payment' = payment
    BY <2>1, <2>5, RentalOfIsView
  <2>. QED  BY <1>5, <2>4, <2>5 DEF refreshPaymentStatus
<1>6. CASE UNCHANGED <<session, payment>>
  BY <1>6, RentalOfIsView
<1>7. ASSUME NEW c \in SeededCells, EnsureDemoData(c)
      PROVE  UNCHANGED <<session, payment>>
  BY <1>7 DEF EnsureDemoData
<1>8. CASE UNCHANGED payment
  BY <1>1, <1>2, <1>4, <1>6, <1>7, <1>8, CellWriters, <1>3
<1>. QED  BY <1>3, <1>5, <1>8, PaymentWriters

(* In every environment what clients see of the tables is a behaviour of   *)
(* the contract the screens are checked against.                           *)
THEOREM RentalFlowImplementsService == Spec => ImplementsService
<1>1. Init => Service!ServiceInit
  BY DEF Init, NoSession, rentalOf, Service!ServiceInit, Service!Unselected
<1>2. RentalInv /\ [Next]_vars => [Service!ServiceNext]_rentalOf
  BY ServiceStep
<1>. QED
  BY <1>1, <1>2, RentalInvariant, PTL DEF Spec, ImplementsService, Service!ServiceSpec

-----------------------------------------------------------------------------
(* The contract with the owner *)

(* Dates are days: an instant lies in exactly one of them. *)
LEMMA DayOfInstant ==
    ASSUME NEW at \in 0..MaxTime
    PROVE  /\ at \div Day \in Dates /\ MaxTime \div Day \in Dates /\ 0 \in Dates
           /\ at < (MaxTime \div Day) * Day + Day
           /\ \A day \in Dates : day * Day <= at /\ at < day * Day + Day <=> day = at \div Day
<1>. DEFINE today == at \div Day
            last == MaxTime \div Day
<1>1. ASSUME NEW n \in Nat
      PROVE  /\ n \div Day \in Nat
             /\ (n \div Day) * Day <= n
             /\ n < (n \div Day) * Day + Day
  BY DayAssumption
<1>2. ASSUME NEW p \in Nat, NEW q \in Nat, p < q
      PROVE  p * Day + Day <= q * Day
  BY <1>2, DayAssumption
<1>3. ASSUME NEW p \in Nat PROVE p * Day \in Nat
  BY DayAssumption
<1>4. /\ today \in Nat /\ today * Day <= at /\ at < today * Day + Day
      /\ last \in Nat /\ last * Day <= MaxTime /\ MaxTime < last * Day + Day
  BY <1>1, TimesAssumption
<1>5. at \in Nat /\ at <= MaxTime /\ MaxTime \in Nat /\ Day \in Nat
  BY TimesAssumption, DayAssumption
<1>. HIDE DEF today, last
<1>6. today * Day \in Nat /\ last * Day \in Nat
  BY <1>3, <1>4
<1>7. today <= last
  <2>1. ~(last < today)
    BY <1>2, <1>4, <1>5, <1>6
  <2>. QED  BY <1>4, <2>1
<1>8. ASSUME NEW day \in 0..last
      PROVE  day * Day <= at /\ at < day * Day + Day <=> day = today
  <2>1. day \in Nat /\ day * Day \in Nat
    BY <1>3, <1>4
  <2>2. day < today => day * Day + Day <= at
    BY <1>2, <1>4, <1>5, <1>6, <2>1
  <2>3. today < day => at < day * Day
    BY <1>2, <1>4, <1>5, <1>6, <2>1
  <2>. QED  BY <1>4, <1>5, <2>1, <2>2, <2>3
<1>9. at < last * Day + Day
  BY <1>4, <1>5, <1>6
<1>10. today \in 0..last /\ last \in 0..last /\ 0 \in 0..last
  BY <1>4, <1>7
<1>. QED  BY <1>8, <1>9, <1>10 DEF Dates, today, last

(* A payment that was made, was made within the modelled time. *)
PaidInTime == \A r \in Rentals : payment[r].paidAt \in 0..MaxTime \cup {None}

(* A payment is paid at the moment of the refresh or as it was.            *)
LEMMA PaidNowOrBefore ==
    ASSUME TypeOK, [Next]_vars, NEW r \in Rentals
    PROVE  \/ payment'[r].paidAt \in {payment[r].paidAt, None}
           \/ payment'[r].paidAt = now
<1>0. payment[r] \in PaymentRow
  BY DEF TypeOK
<1>1. CASE UNCHANGED payment
  BY <1>1
<1>2. ASSUME NEW s \in Sessions, NEW l \in Locations, NEW q \in Rentals,
             NEW code \in Codes, CreateBooking(s, l, q, code)
      PROVE  payment'[r].paidAt \in {payment[r].paidAt, None}
  BY <1>2 DEF CreateBooking, TypeOK
<1>3. ASSUME NEW k \in Clients, refreshPaymentStatus(k)
      PROVE  payment'[r].paidAt \in {payment[r].paidAt, now}
  <2>1. payment'[r] = payment[r] \/ payment'[r] = Refreshed(payment[r])
    BY <1>3 DEF refreshPaymentStatus, TypeOK
  <2>2. Refreshed(payment[r]).paidAt \in {payment[r].paidAt, now}
    BY <1>0 DEF Refreshed, PaymentRow
  <2>. QED  BY <2>1, <2>2
<1>. QED  BY <1>1, <1>2, <1>3, PaymentWriters

(* A payment that becomes paid does so at the moment of the refresh.       *)
LEMMA PaidNow ==
    ASSUME TypeOK, [Next]_vars, NEW r \in Rentals,
           payment[r].status # "paid", payment'[r].status = "paid"
    PROVE  payment'[r].paidAt = now /\ now' = now
<1>0. payment[r] \in PaymentRow
  BY DEF TypeOK
<1>1. CASE UNCHANGED payment
  BY <1>1
<1>2. ASSUME NEW s \in Sessions, NEW l \in Locations, NEW q \in Rentals,
             NEW code \in Codes, CreateBooking(s, l, q, code)
      PROVE  FALSE
  BY <1>2 DEF CreateBooking, TypeOK
<1>3. ASSUME NEW k \in Clients, refreshPaymentStatus(k)
      PROVE  payment'[r].paidAt = now /\ now' = now
  <2>1. payment'[r] = Refreshed(payment[r]) /\ now' = now
    BY <1>3 DEF refreshPaymentStatus, TypeOK
  <2>2. Refreshed(payment[r]).status = "paid" => Due(payment[r])
    BY <1>0 DEF Refreshed, PaymentRow
  <2>3. Due(payment[r]) => Refreshed(payment[r]).paidAt = now
    BY <1>0 DEF Refreshed, PaymentRow
  <2>. QED  BY <2>1, <2>2, <2>3
<1>. QED  BY <1>1, <1>2, <1>3, PaymentWriters

LEMMA PaidInTimeHolds == Spec => []PaidInTime
<1>1. Init => PaidInTime
  BY DEF Init, NoPayment, PaidInTime
<1>2. RentalInv /\ PaidInTime /\ [Next]_vars => PaidInTime'
  <2>. SUFFICES ASSUME RentalInv, PaidInTime, [Next]_vars, NEW r \in Rentals
                PROVE  payment'[r].paidAt \in 0..MaxTime \cup {None}
    BY DEF PaidInTime
  <2>1. now \in 0..MaxTime /\ payment[r].paidAt \in 0..MaxTime \cup {None}
    BY DEF RentalInv, TypeOK, PaidInTime
  <2>. QED  BY <2>1, PaidNowOrBefore DEF RentalInv
<1>. QED  BY <1>1, <1>2, RentalInvariant, PTL DEF Spec

(* A report of days that are over never changes, for every length of a day *)
(* and whatever is booked, paid, finished, repeated or restarted after.    *)
THEOREM ReportsStayFinal == Spec => ReportsAreFinal
<1>1. RentalInv /\ [Next]_vars =>
         [\A l \in Locations, from, to \in Dates :
             to * Day + Day <= now =>
                RevenueExport(l, from, to)' = RevenueExport(l, from, to)]_vars
  <2>. SUFFICES ASSUME RentalInv, [Next]_vars, NEW l \in Locations,
                       NEW from \in Dates, NEW to \in Dates, to * Day + Day <= now
                PROVE  RevenueExport(l, from, to)' = RevenueExport(l, from, to)
    OBVIOUS
  <2>. DEFINE start == from * Day
              end == to * Day + Day
  <2>1. start \in Int /\ end \in Int /\ now \in Int
    BY DayAssumption DEF Dates, RentalInv, TypeOK
  <2>2. end <= now
    OBVIOUS
  <2>. HIDE DEF start, end
  <2>3. ASSUME NEW r \in Rentals
        PROVE  r \in RevenueByLocation(l, start, end)'
               <=> r \in RevenueByLocation(l, start, end)
    <3>1. CASE payment[r].status = "paid"
      <4>. DEFINE s == payment[r].session
      <4>1. payment'[r] = payment[r]
        BY <3>1, PaymentStep DEF RentalInv
      <4>2. s \in Sessions /\ session[s].status # "none"
        BY <3>1, NoneAssumption
        DEF RentalInv, TypeOK, PaymentRow, BookingIsWhole
      <4>3. session'[s].cell = session[s].cell
        BY <4>2, SessionStep DEF RentalInv
      <4>. QED  BY <4>1, <4>3 DEF RevenueByLocation, start, end
    <3>2. CASE payment[r].status # "paid" /\ payment'[r].status = "paid"
      <4>1. payment'[r].paidAt = now
        BY <3>2, PaidNow DEF RentalInv
      <4>2. now # None /\ ~(now < end)
        BY <2>1, <2>2, NoneAssumption
      <4>3. r \notin RevenueByLocation(l, start, end)'
        BY <4>1, <4>2 DEF RevenueByLocation, start, end
      <4>. QED  BY <3>2, <4>3 DEF RevenueByLocation
    <3>3. CASE payment[r].status # "paid" /\ payment'[r].status # "paid"
      BY <3>3 DEF RevenueByLocation
    <3>. QED  BY <3>1, <3>2, <3>3
  <2>4. RevenueByLocation(l, start, end)' = RevenueByLocation(l, start, end)
    <3>1. RevenueByLocation(l, start, end) \subseteq Rentals
      BY DEF RevenueByLocation
    <3>2. RevenueByLocation(l, start, end)' \subseteq Rentals
      BY DEF RevenueByLocation
    <3>. QED  BY <2>3, <3>1, <3>2
  <2>. QED  BY <2>4 DEF RevenueExport, start, end
<1>. QED  BY <1>1, RentalInvariant, PTL DEF Spec, ReportsAreFinal

(* What a customer was let in on is in the revenue: in the report of the   *)
(* day it was paid, in that of no other day, and in the report of all.     *)
THEOREM LetInIsReported == Spec => []LetInIsInTheRevenue
<1>1. RentalInv /\ PaidInTime => LetInIsInTheRevenue
  <2>. SUFFICES ASSUME RentalInv, PaidInTime, NEW k \in Clients,
                       request[k].answer \in {"opened", "granted"}
                PROVE  \E l \in Locations : \E day \in Dates :
                          /\ request[k].rental \in RevenueExport(l, 0, MaxTime \div Day)
                          /\ \A m \in Locations, other \in Dates :
                                request[k].rental \in RevenueExport(m, other, other)
                                <=> m = l /\ other = day
    BY DEF LetInIsInTheRevenue
  <2>. DEFINE r == request[k].rental
              s == payment[r].session
              at == payment[r].paidAt
              l == LocationOf[session[s].cell]
  <2>1. r \in Rentals /\ payment[r].status = "paid"
    BY DEF RentalInv, LetInOnlyIfPaid, TypeOK, Request
  <2>2. s \in Sessions /\ session[s].status # "none"
    BY <2>1, NoneAssumption DEF RentalInv, TypeOK, PaymentRow, BookingIsWhole
  <2>3. l \in Locations
    BY <2>2, CellsAssumption DEF RentalInv, TypeOK, SessionRow, BookingIsWhole
  <2>4. at \in 0..MaxTime /\ at # None
    BY <2>1 DEF RentalInv, PaidWithinWindow, PaidInTime
  <2>5. ASSUME NEW m, NEW from, NEW to
        PROVE  r \in RevenueByLocation(m, from, to) <=> m = l /\ from <= at /\ at < to
    BY <2>1, <2>4 DEF RevenueByLocation
  <2>. HIDE DEF r, s, at, l
  <2>6. /\ at \div Day \in Dates /\ MaxTime \div Day \in Dates
        /\ at < (MaxTime \div Day) * Day + Day
        /\ \A day \in Dates : day * Day <= at /\ at < day * Day + Day <=> day = at \div Day
    BY <2>4, DayOfInstant
  <2>7. r \in RevenueExport(l, 0, MaxTime \div Day)
    <3>1. 0 * Day <= at /\ ~(MaxTime \div Day < 0)
      BY <2>4, DayAssumption, TimesAssumption
    <3>. QED  BY <2>5, <2>6, <3>1 DEF RevenueExport
  <2>8. ASSUME NEW m \in Locations, NEW other \in Dates
        PROVE  r \in RevenueExport(m, other, other) <=> m = l /\ other = at \div Day
    <3>1. ~(other < other)
      BY DEF Dates
    <3>2. r \in RevenueExport(m, other, other)
          <=> m = l /\ other * Day <= at /\ at < other * Day + Day
      BY <2>5, <3>1 DEF RevenueExport
    <3>. QED  BY <2>6, <3>2
  <2>. QED  BY <2>3, <2>6, <2>7, <2>8 DEF r
<1>. QED  BY <1>1, RentalInvariant, PaidInTimeHolds, PTL

-----------------------------------------------------------------------------
(* The cells *)

(* The ledger of cells after one step.  Two customers never meet in a cell *)
(* because a cell is taken only when the table says free, and the table    *)
(* says free only when its customer is gone.                               *)
LEMMA CellLedgerKept ==
    ASSUME Faults = {}
    PROVE  RentalInv /\ CellLedger /\ [Next]_vars => CellLedger'
<1>. SUFFICES ASSUME RentalInv, CellLedger, [Next]_vars
              PROVE  CellLedger'
  OBVIOUS
<1>. DEFINE Lives(r) == r.status \in {"selected", "active"}
            InCell(s, S, L) == /\ S[s].status = "selected" => L[S[s].cell] = "reserved"
                               /\ S[s].status = "active" => L[S[s].cell] = "occupied"
            Apart(s, t, S) == Lives(S[s]) /\ Lives(S[t]) /\ S[s].cell = S[t].cell => s = t
<1>0. /\ \A s \in Sessions : session[s] \in SessionRow
      /\ \A s \in Sessions : InCell(s, session, locker)
      /\ \A s, t \in Sessions : Apart(s, t, session)
      /\ \A s \in Sessions : Lives(session[s]) => session[s].cell \in Cells
      /\ TypeOK /\ BookingIsWhole
  BY DEF RentalInv, TypeOK, CellLedger, Live, BookingIsWhole, SessionRow
<1>1. ASSUME NEW s \in Sessions, Lives(SweptSessions[s])
      PROVE  /\ SweptSessions[s] = session[s]
             /\ SweptLockers[session[s].cell] = locker[session[s].cell]
  <2>1. s \notin Lapsed /\ SweptSessions[s] = session[s]
    BY <1>0, <1>1, SweepKeeps DEF SweptSessions
  <2>2. \A t \in Lapsed : session[t].cell # session[s].cell
    BY <1>0, <1>1, <2>1 DEF Lapsed
  <2>. QED  BY <1>0, <1>1, <2>1, <2>2 DEF SweptLockers
<1>2. CASE session' = SweptSessions /\ locker' = SweptLockers
  BY <1>0, <1>1, <1>2 DEF CellLedger, Live
<1>3. ASSUME NEW t \in Sessions, NEW l \in Locations, NEW z \in Sizes,
             CreateCellSelection(t, l, z)
      PROVE  CellLedger'
  <2>1. PICK d \in Cells :
            /\ SweptLockers[d] = "free"
            /\ session' = [SweptSessions EXCEPT ![t] =
                              [status |-> "selected", cell |-> d,
                               hold |-> AppClock + HoldTTL,
                               rental |-> None, code |-> None]]
            /\ locker' = [SweptLockers EXCEPT ![d] = "reserved"]
    BY <1>3 DEF CreateCellSelection, Selectable
  <2>2. /\ session'[t].status = "selected" /\ session'[t].cell = d
        /\ locker'[d] = "reserved"
        /\ \A s \in Sessions : s # t => session'[s] = SweptSessions[s]
        /\ \A c \in Cells : c # d => locker'[c] = SweptLockers[c]
    BY <1>0, <2>1, SweepTypes
  <2>3. ASSUME NEW s \in Sessions, s # t, Lives(session'[s])
        PROVE  /\ session'[s] = session[s]
               /\ session[s].cell # d
               /\ locker'[session[s].cell] = locker[session[s].cell]
    <3>1. session'[s] = session[s] /\ SweptLockers[session[s].cell] = locker[session[s].cell]
      BY <1>1, <2>2, <2>3
    <3>2. locker[session[s].cell] # "free" /\ session[s].cell \in Cells
      BY <1>0, <2>3, <3>1
    <3>. QED  BY <2>1, <2>2, <3>1, <3>2
  <2>4. \A s \in Sessions : InCell(s, session', locker')
    BY <1>0, <2>2, <2>3
  <2>5. \A s, u \in Sessions : Apart(s, u, session')
    <3>. SUFFICES ASSUME NEW s \in Sessions, NEW u \in Sessions
                  PROVE  Apart(s, u, session')
      OBVIOUS
    <3>1. Apart(s, u, session)
      BY <1>0
    <3>. QED  BY <2>2, <2>3, <3>1
  <2>. QED  BY <2>4, <2>5 DEF CellLedger, Live
<1>4. ASSUME NEW t \in Sessions, NEW S1 \in {"active", "closed"},
             NEW L1 \in {"occupied", "free"},
             Lives(session[t]),
             session'[t].status = S1, session'[t].cell = session[t].cell,
             \A s \in Sessions : s # t => session'[s] = session[s],
             locker' = [locker EXCEPT ![session[t].cell] = L1],
             S1 = "active" => L1 = "occupied"
      PROVE  CellLedger'
  <2>1. ASSUME NEW s \in Sessions, s # t, Lives(session'[s])
        PROVE  session'[s] = session[s] /\ session[s].cell # session[t].cell
               /\ locker'[session[s].cell] = locker[session[s].cell]
    BY <1>0, <1>4, <2>1
  <2>2. locker'[session[t].cell] = L1
    BY <1>0, <1>4 DEF TypeOK
  <2>3. \A s \in Sessions : InCell(s, session', locker')
    BY <1>0, <1>4, <2>1, <2>2
  <2>4. \A s, u \in Sessions : Apart(s, u, session')
    <3>. SUFFICES ASSUME NEW s \in Sessions, NEW u \in Sessions
                  PROVE  Apart(s, u, session')
      OBVIOUS
    <3>1. Apart(s, u, session)
      BY <1>0
    <3>. QED  BY <1>4, <2>1, <3>1
  <2>. QED  BY <2>3, <2>4 DEF CellLedger, Live
<1>5. ASSUME NEW s \in Sessions, NEW l \in Locations, NEW r \in Rentals,
             NEW code \in Codes, CreateBooking(s, l, r, code)
      PROVE  CellLedger'
  <2>1. /\ Lives(session[s])
        /\ session'[s].status = "active" /\ session'[s].cell = session[s].cell
        /\ \A t \in Sessions : t # s => session'[t] = session[t]
        /\ locker' = [locker EXCEPT ![session[s].cell] = "occupied"]
    BY <1>0, <1>5 DEF CreateBooking, Bookable, TypeOK, SessionRow
  <2>. QED  BY <1>4, <2>1
<1>6. ASSUME NEW r \in Rentals, NEW s \in Sessions, FinishRental(r, s)
      PROVE  CellLedger'
  <2>1. /\ Lives(session[s])
        /\ session'[s].status = "closed" /\ session'[s].cell = session[s].cell
        /\ \A t \in Sessions : t # s => session'[t] = session[t]
        /\ locker' = [locker EXCEPT ![session[s].cell] = "free"]
    BY <1>0, <1>6 DEF FinishRental, TypeOK, SessionRow
  <2>. QED  BY <1>4, <2>1
<1>7. CASE UNCHANGED <<session, locker>>
  BY <1>7 DEF CellLedger, Live
<1>. QED
  BY <1>2, <1>3, <1>5, <1>6, <1>7, CellWriters
  DEF CleanupExpiredSelections, EnsureDemoData

(* When no rental is finished twice and no seeding meets a rental, the     *)
(* tables agree on every cell and no two customers have the same cell, for *)
(* any number of cells, customers and clients and any skew of the clocks.  *)
THEOREM CellsAreExclusive ==
    ASSUME Faults = {}
    PROVE  Spec => []CellLedger
<1>1. Init => CellLedger
  BY DEF Init, CellLedger, Live, NoSession
<1>. QED  BY <1>1, CellLedgerKept, RentalInvariant, PTL DEF Spec

(* While belongings are inside, the cell is not offered as free: only a    *)
(* second finish or the seeding of a new instance breaks what the domain   *)
(* comments say of an active session.                                      *)
THEOREM BelongingsSafeWithoutFaults ==
    ASSUME Faults = {}
    PROVE  Spec => []BelongingsKeepTheCell
<1>1. CellLedger => BelongingsKeepTheCell
  BY DEF CellLedger, BelongingsKeepTheCell
<1>. QED  BY <1>1, CellsAreExclusive, PTL

-----------------------------------------------------------------------------
(* RentalFlow implements CellAllocation *)

LedgerInv == RentalInv /\ CellLedger

(* How the refinement mapping reads the tables of a consistent state.      *)
LEMMA MappingReads ==
    LedgerInv =>
      /\ useOf \in [Cells -> {"free", "held", "rented"}]
      /\ tenantOf \in [Cells -> Sessions \cup {None}]
      /\ \A s \in Sessions :
            /\ session[s].status = "selected" =>
                  useOf[session[s].cell] = "held" /\ tenantOf[session[s].cell] = s
            /\ session[s].status = "active" =>
                  useOf[session[s].cell] = "rented" /\ tenantOf[session[s].cell] = s
            /\ Live(s) => session[s].cell \in Cells
      /\ \A c \in Cells :
            (\A s \in Sessions : Live(s) => session[s].cell # c) =>
               useOf[c] = "free" /\ tenantOf[c] = None
<1>. SUFFICES ASSUME LedgerInv
              PROVE  /\ useOf \in [Cells -> {"free", "held", "rented"}]
                     /\ tenantOf \in [Cells -> Sessions \cup {None}]
                     /\ \A s \in Sessions : Live(s) =>
                           /\ session[s].cell \in Cells
                           /\ tenantOf[session[s].cell] = s
                           /\ useOf[session[s].cell] =
                                 IF session[s].status = "selected" THEN "held" ELSE "rented"
                     /\ \A c \in Cells :
                           (\A s \in Sessions : Live(s) => session[s].cell # c) =>
                              useOf[c] = "free" /\ tenantOf[c] = None
  BY DEF Live
<1>1. /\ useOf \in [Cells -> {"free", "held", "rented"}]
      /\ tenantOf \in [Cells -> Sessions \cup {None}]
  BY DEF useOf, tenantOf
<1>2. ASSUME NEW s \in Sessions, Live(s)
      PROVE  /\ session[s].cell \in Cells
             /\ tenantOf[session[s].cell] = s
             /\ useOf[session[s].cell] =
                   IF session[s].status = "selected" THEN "held" ELSE "rented"
  <2>1. session[s].cell \in Cells
    BY <1>2 DEF LedgerInv, RentalInv, TypeOK, BookingIsWhole, SessionRow, Live
  <2>2. \A t \in Sessions : Live(t) /\ session[t].cell = session[s].cell => t = s
    BY <1>2 DEF LedgerInv, CellLedger
  <2>3. tenantOf[session[s].cell] = s
    BY <1>2, <2>1, <2>2 DEF tenantOf
  <2>4. useOf[session[s].cell] = IF session[s].status = "selected" THEN "held" ELSE "rented"
    BY <1>2, <2>1 DEF useOf, LedgerInv, CellLedger, Live
  <2>. QED  BY <2>1, <2>3, <2>4
<1>3. ASSUME NEW c \in Cells, \A s \in Sessions : Live(s) => session[s].cell # c
      PROVE  useOf[c] = "free" /\ tenantOf[c] = None
  <2>1. locker[c] \notin {"reserved", "occupied"}
    BY <1>3 DEF LedgerInv, RentalInv, NoLostCell, Live
  <2>. QED  BY <1>3, <2>1 DEF useOf, tenantOf
<1>. QED  BY <1>1, <1>2, <1>3

(* A step of the rental flow is a step of the allocation, or none. *)
LEMMA StepImplements ==
    ASSUME Faults = {}
    PROVE  LedgerInv /\ LedgerInv' /\ [Next]_vars =>
              [Allocation!Next]_<<useOf, tenantOf, seenBy>>
<1>. SUFFICES ASSUME LedgerInv, LedgerInv', [Next]_vars
              PROVE  \/ Allocation!Next
                     \/ UNCHANGED <<useOf, tenantOf, seenBy>>
  OBVIOUS
<1>. DEFINE Lives(r) == r.status \in {"selected", "active"}
            Kind(r) == IF r.status = "selected" THEN "held" ELSE "rented"
<1>0. /\ TypeOK /\ BookingIsWhole
      /\ \A s \in Sessions : session[s] \in SessionRow
  BY DEF LedgerInv, RentalInv, TypeOK
<1>1. /\ useOf \in [Cells -> {"free", "held", "rented"}]
      /\ tenantOf \in [Cells -> Sessions \cup {None}]
      /\ \A s \in Sessions : Lives(session[s]) =>
            /\ session[s].cell \in Cells
            /\ useOf[session[s].cell] = Kind(session[s])
            /\ tenantOf[session[s].cell] = s
      /\ \A c \in Cells : (\A s \in Sessions : Lives(session[s]) => session[s].cell # c)
            => useOf[c] = "free" /\ tenantOf[c] = None
  BY MappingReads DEF Live
<1>2. /\ useOf' \in [Cells -> {"free", "held", "rented"}]
      /\ tenantOf' \in [Cells -> Sessions \cup {None}]
      /\ \A s \in Sessions : Lives(session'[s]) =>
            /\ session'[s].cell \in Cells
            /\ useOf'[session'[s].cell] = Kind(session'[s])
            /\ tenantOf'[session'[s].cell] = s
      /\ \A c \in Cells : (\A s \in Sessions : Lives(session'[s]) => session'[s].cell # c)
            => useOf'[c] = "free" /\ tenantOf'[c] = None
  <2>1. (LedgerInv => MappingReads!2)'
    BY MappingReads, PTL
  <2>. QED  BY <2>1 DEF Live
<1>. DEFINE D == {c \in Cells : \E s \in Lapsed : session[s].cell = c}
            Same(c) == useOf'[c] = useOf[c] /\ tenantOf'[c] = tenantOf[c]
<1>3. \A s \in Lapsed : Lives(session[s]) /\ session[s].status = "selected"
  BY DEF Lapsed
\* A cell whose customers are those the sweep leaves.
<1>4. ASSUME NEW c \in Cells,
             \A s \in Sessions : Lives(session'[s]) /\ session'[s].cell = c =>
                 Lives(session[s]) /\ session[s].cell = c /\ s \notin Lapsed,
             \A s \in Sessions : Lives(session[s]) /\ session[s].cell = c /\ s \notin Lapsed =>
                 session'[s] = session[s]
      PROVE  /\ c \in D => useOf[c] = "held" /\ useOf'[c] = "free" /\ tenantOf'[c] = None
             /\ c \notin D => Same(c)
  <2>1. CASE c \in D
    <3>1. PICK t \in Lapsed : session[t].cell = c
      BY <2>1
    <3>2. t \in Sessions /\ Lives(session[t]) /\ session[t].status = "selected"
      BY <1>3 DEF Lapsed
    <3>3. useOf[c] = "held" /\ tenantOf[c] = t
      BY <1>1, <3>1, <3>2
    <3>4. \A s \in Sessions : Lives(session'[s]) => session'[s].cell # c
      BY <1>1, <1>4, <3>1, <3>3
    <3>. QED  BY <1>2, <2>1, <3>3, <3>4
  <2>2. CASE c \notin D
    <3>1. CASE \E s \in Sessions : Lives(session[s]) /\ session[s].cell = c
      <4>1. PICK s \in Sessions : Lives(session[s]) /\ session[s].cell = c
        BY <3>1
      <4>2. s \notin Lapsed
        BY <2>2, <4>1
      <4>3. session'[s] = session[s]
        BY <1>4, <4>1, <4>2
      <4>. QED  BY <1>1, <1>2, <2>2, <4>1, <4>3
    <3>2. CASE \A s \in Sessions : Lives(session[s]) => session[s].cell # c
      BY <1>1, <1>2, <1>4, <2>2, <3>2
    <3>. QED  BY <3>1, <3>2
  <2>. QED  BY <2>1, <2>2
<1>5. \A s \in Sessions :
         /\ Lives(SweptSessions[s]) => s \notin Lapsed
         /\ s \notin Lapsed => SweptSessions[s] = session[s]
         /\ SweptSessions[s].status = "none" <=> session[s].status = "none"
  BY <1>0, <1>3, SweepKeeps DEF SweptSessions
<1>6. CASE CleanupExpiredSelections
  <2>1. session' = SweptSessions /\ Lapsed # {}
    BY <1>6 DEF CleanupExpiredSelections
  <2>2. \A c \in Cells :
           /\ c \in D => useOf[c] = "held" /\ useOf'[c] = "free" /\ tenantOf'[c] = None
           /\ c \notin D => Same(c)
    BY <1>4, <1>5, <2>1
  <2>3. D # {}
    BY <1>1, <1>3, <2>1 DEF Lapsed
  <2>4. D \subseteq {c \in Cells : useOf[c] = "held"}
    BY <2>2
  <2>5. /\ useOf' = [c \in Cells |-> IF c \in D THEN "free" ELSE useOf[c]]
        /\ tenantOf' = [c \in Cells |-> IF c \in D THEN None ELSE tenantOf[c]]
    BY <1>2, <2>2
  <2>6. UNCHANGED seenBy
    BY <1>5, <2>1 DEF seenBy
  <2>7. Allocation!Lapse(D)
    BY <2>3, <2>4, <2>5, <2>6 DEF Allocation!Lapse
  <2>. QED  BY <2>7 DEF Allocation!Next
<1>7. ASSUME NEW t \in Sessions, NEW l \in Locations, NEW z \in Sizes,
             CreateCellSelection(t, l, z)
      PROVE  Allocation!Next
  <2>1. PICK d \in Cells :
            /\ SweptLockers[d] = "free"
            /\ session' = [SweptSessions EXCEPT ![t] =
                              [status |-> "selected", cell |-> d,
                               hold |-> AppClock + HoldTTL,
                               rental |-> None, code |-> None]]
    BY <1>7 DEF CreateCellSelection, Selectable
  <2>2. session[t].status = "none"
    BY <1>7 DEF CreateCellSelection
  <2>3. /\ session'[t].status = "selected" /\ session'[t].cell = d
        /\ \A s \in Sessions : s # t => session'[s] = SweptSessions[s]
    BY <1>0, <2>1, SweepTypes
  <2>4. \A c \in Cells : c # d =>
           /\ c \in D => useOf[c] = "held" /\ useOf'[c] = "free" /\ tenantOf'[c] = None
           /\ c \notin D => Same(c)
    BY <1>4, <1>5, <2>2, <2>3
  <2>5. useOf'[d] = "held" /\ tenantOf'[d] = t
    BY <1>2, <2>3
  <2>6. useOf[d] = "free" \/ d \in D
    BY <2>1 DEF useOf, SweptLockers
  <2>7. D \subseteq {c \in Cells : useOf[c] = "held"}
    BY <1>1, <1>3 DEF Lapsed
  <2>8. /\ useOf' = [c \in Cells |-> IF c = d THEN "held"
                                     ELSE IF c \in D THEN "free" ELSE useOf[c]]
        /\ tenantOf' = [c \in Cells |-> IF c = d THEN t
                                        ELSE IF c \in D THEN None ELSE tenantOf[c]]
    BY <1>2, <2>4, <2>5
  <2>9. t \notin seenBy /\ seenBy' = seenBy \cup {t}
    BY <1>5, <2>2, <2>3 DEF seenBy
  <2>10. Allocation!Hold(d, t, D)
    BY <2>6, <2>7, <2>8, <2>9 DEF Allocation!Hold
  <2>. QED  BY <2>10 DEF Allocation!Next
\* One customer t moves from Kind k1 to k2 or leaves; the others stay.
<1>8. ASSUME NEW t \in Sessions, Lives(session[t]),
             session'[t].cell = session[t].cell, session'[t].status # "none",
             \A s \in Sessions : s # t => session'[s] = session[s]
      PROVE  /\ \A c \in Cells : c # session[t].cell => Same(c)
             /\ UNCHANGED seenBy
             /\ session[t].cell \in Cells
             /\ ~Lives(session'[t]) =>
                   useOf'[session[t].cell] = "free" /\ tenantOf'[session[t].cell] = None
  <2>1. ASSUME NEW c \in Cells, c # session[t].cell
        PROVE  Same(c)
    <3>1. CASE \E s \in Sessions : Lives(session[s]) /\ session[s].cell = c
      <4>1. PICK s \in Sessions : Lives(session[s]) /\ session[s].cell = c
        BY <3>1
      <4>2. session'[s] = session[s]
        BY <1>8, <2>1, <4>1
      <4>. QED  BY <1>1, <1>2, <4>1, <4>2
    <3>2. CASE \A s \in Sessions : Lives(session[s]) => session[s].cell # c
      <4>1. \A s \in Sessions : Lives(session'[s]) => session'[s].cell # c
        BY <1>8, <2>1, <3>2
      <4>. QED  BY <1>1, <1>2, <3>2, <4>1
    <3>. QED  BY <3>1, <3>2
  <2>2. UNCHANGED seenBy
    BY <1>8 DEF seenBy
  <2>3. session[t].cell \in Cells /\ tenantOf[session[t].cell] = t
    BY <1>1, <1>8
  <2>4. ASSUME ~Lives(session'[t])
        PROVE  useOf'[session[t].cell] = "free" /\ tenantOf'[session[t].cell] = None
    <3>1. \A s \in Sessions : Lives(session'[s]) => session'[s].cell # session[t].cell
      BY <1>1, <1>8, <2>3, <2>4
    <3>. QED  BY <1>2, <2>3, <3>1
  <2>. QED  BY <2>1, <2>2, <2>3, <2>4
<1>9. ASSUME NEW s \in Sessions, NEW l \in Locations, NEW r \in Rentals,
             NEW code \in Codes, CreateBooking(s, l, r, code)
      PROVE  Allocation!Next
  <2>. DEFINE c == session[s].cell
  <2>1. /\ session[s].status = "selected"
        /\ session'[s].status = "active" /\ session'[s].cell = c
        /\ \A t \in Sessions : t # s => session'[t] = session[t]
    BY <1>0, <1>9 DEF CreateBooking, Bookable, TypeOK, SessionRow
  <2>2. /\ \A d \in Cells : d # c => Same(d)
        /\ UNCHANGED seenBy /\ c \in Cells
    BY <1>8, <2>1
  <2>3. useOf[c] = "held" /\ useOf'[c] = "rented" /\ tenantOf'[c] = tenantOf[c]
    BY <1>1, <1>2, <2>1
  <2>4. useOf' = [useOf EXCEPT ![c] = "rented"] /\ tenantOf' = tenantOf
    BY <1>1, <1>2, <2>2, <2>3
  <2>5. Allocation!Rent(c)
    BY <2>2, <2>3, <2>4 DEF Allocation!Rent
  <2>. QED  BY <2>2, <2>5 DEF Allocation!Next
<1>10. ASSUME NEW r \in Rentals, NEW s \in Sessions, FinishRental(r, s)
       PROVE  Allocation!Next
  <2>. DEFINE c == session[s].cell
  <2>1. /\ session[s].status = "active"
        /\ session'[s].status = "closed" /\ session'[s].cell = c
        /\ \A t \in Sessions : t # s => session'[t] = session[t]
    BY <1>0, <1>10 DEF FinishRental, TypeOK, SessionRow
  <2>2. /\ \A d \in Cells : d # c => Same(d)
        /\ UNCHANGED seenBy /\ c \in Cells
        /\ useOf'[c] = "free" /\ tenantOf'[c] = None
    BY <1>8, <2>1
  <2>3. useOf[c] = "rented"
    BY <1>1, <2>1
  <2>4. /\ useOf' = [useOf EXCEPT ![c] = "free"]
        /\ tenantOf' = [tenantOf EXCEPT ![c] = None]
    BY <1>1, <1>2, <2>2
  <2>5. Allocation!Leave(c)
    BY <2>2, <2>3, <2>4 DEF Allocation!Leave
  <2>. QED  BY <2>2, <2>5 DEF Allocation!Next
<1>11. CASE UNCHANGED <<session, locker>>
  BY <1>11 DEF useOf, tenantOf, seenBy, Live
<1>. QED
  BY <1>6, <1>7, <1>9, <1>10, <1>11, CellWriters DEF EnsureDemoData

(* The tables implement the abstract allocation: whatever the number of    *)
(* cells, customers and clients, what an observer of lockers and           *)
(* storage_sessions sees is a behaviour of CellAllocation.                 *)
THEOREM RentalFlowImplementsAllocation ==
    ASSUME Faults = {}
    PROVE  Spec => ImplementsAllocation
<1>1. Init => Allocation!Init
  BY DEF Init, NoSession, useOf, tenantOf, seenBy, Live, Allocation!Init
<1>2. Spec => []LedgerInv
  BY RentalInvariant, CellsAreExclusive, PTL DEF LedgerInv
<1>3. LedgerInv /\ LedgerInv' /\ [Next]_vars =>
         [Allocation!Next]_<<useOf, tenantOf, seenBy>>
  BY StepImplements
<1>. QED
  BY <1>1, <1>2, <1>3, PTL
  DEF Spec, ImplementsAllocation, Allocation!Spec, Allocation!allocVars
=============================================================================
