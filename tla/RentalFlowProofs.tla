-------------------------- MODULE RentalFlowProofs --------------------------
(***************************************************************************)
(* Proofs about RentalFlow, for every value of its constants.              *)
(***************************************************************************)
EXTENDS RentalFlow, TLAPS

-----------------------------------------------------------------------------
(* Types *)

(* The sweep keeps the types of the two tables it writes. *)
LEMMA SweepTypes ==
    ASSUME TypeOK
    PROVE  /\ SweptSessions \in [Sessions -> SessionRow]
           /\ SweptLockers \in [Cells -> CellStatus]
<1>1. \A s \in Sessions : [session[s] EXCEPT !.status = "expired"] \in SessionRow
  BY DEF TypeOK, SessionRow
<1>2. SweptSessions \in [Sessions -> SessionRow]
  BY <1>1 DEF TypeOK, SweptSessions
<1>3. SweptLockers \in [Cells -> CellStatus]
  BY DEF TypeOK, SweptLockers, CellStatus
<1>. QED  BY <1>2, <1>3

(* The refresh of a payment yields a payment. *)
LEMMA RefreshTypes ==
    ASSUME TypeOK, NEW p \in PaymentRow
    PROVE  Refreshed(p) \in PaymentRow
<1>1. now \in Int
  BY TimesAssumption DEF TypeOK
<1>. DEFINE status == IF p.status = "pending" /\ p.expires < now THEN "expired"
                      ELSE IF Due(p) THEN "paid" ELSE p.status
            paidAt == IF Due(p) THEN now ELSE p.paidAt
<1>2. status \in {"none", "pending", "paid", "expired"}
  BY DEF PaymentRow
<1>3. paidAt \in Int \cup {None}
  BY <1>1 DEF PaymentRow
<1>4. Refreshed(p) = [p EXCEPT !.status = status, !.paidAt = paidAt]
  BY DEF Refreshed
<1>. HIDE DEF status, paidAt
<1>. QED  BY <1>2, <1>3, <1>4 DEF PaymentRow

(* An answer or a new question leaves every client with a request. *)
LEMMA RequestTypes ==
    ASSUME TypeOK, NEW k \in Clients
    PROVE  /\ \A a \in Answers : Answer(k, a) => request' \in [Clients -> Request]
           /\ \A op \in {"check", "poll", "open"}, r \in Rentals \cup {None} :
                 Ask(k, op, r) => request' \in [Clients -> Request]
<1>1. ASSUME NEW a \in Answers, Answer(k, a)
      PROVE  request' \in [Clients -> Request]
  BY <1>1 DEF TypeOK, Request, Answer
<1>2. ASSUME NEW op \in {"check", "poll", "open"}, NEW r \in Rentals \cup {None},
             Ask(k, op, r)
      PROVE  request' \in [Clients -> Request]
  <2>1. [op |-> op, at |-> "refresh", rental |-> r, answer |-> "none"] \in Request
    BY DEF Request, Answers
  <2>. QED  BY <1>2, <2>1 DEF Ask, TypeOK
<1>. QED  BY <1>1, <1>2

(* Every column keeps its type, one step per action.  The status a poll    *)
(* answers is that of a payment because the request is about one.          *)
LEMMA TypesKept == TypeOK /\ RequestsAreBooked /\ [Next]_vars => TypeOK'
<1>. SUFFICES ASSUME TypeOK, RequestsAreBooked, [Next]_vars
              PROVE  TypeOK'
  OBVIOUS
<1>. USE CellsAssumption, TimesAssumption
<1>1. CASE CleanupExpiredSelections
  BY <1>1, SweepTypes DEF CleanupExpiredSelections, TypeOK
<1>2. ASSUME NEW s \in Sessions, NEW l \in Locations, NEW z \in Sizes,
             CreateCellSelection(s, l, z)
      PROVE  TypeOK'
  <2>1. PICK c \in Selectable(l, z) :
            /\ session' = [SweptSessions EXCEPT ![s] =
                              [status |-> "selected", cell |-> c,
                               hold |-> AppClock + HoldTTL,
                               rental |-> None, code |-> None]]
            /\ locker' = [SweptLockers EXCEPT ![c] = "reserved"]
    BY <1>2 DEF CreateCellSelection
  <2>2. [status |-> "selected", cell |-> c, hold |-> AppClock + HoldTTL,
         rental |-> None, code |-> None] \in SessionRow
    BY DEF SessionRow, Selectable, AppClock, TypeOK
  <2>3. session' \in [Sessions -> SessionRow]
    BY <2>1, <2>2, SweepTypes
  <2>4. locker' \in [Cells -> CellStatus]
    BY <2>1, SweepTypes DEF CellStatus
  <2>. QED
    BY <1>2, <2>3, <2>4 DEF CreateCellSelection, TypeOK
<1>3. ASSUME NEW s \in Sessions, NEW l \in Locations, NEW r \in Rentals,
             NEW code \in Codes, CreateBooking(s, l, r, code)
      PROVE  TypeOK'
  <2>1. session' \in [Sessions -> SessionRow]
    BY <1>3 DEF CreateBooking, TypeOK, SessionRow
  <2>2. payment' \in [Rentals -> PaymentRow]
    BY <1>3 DEF CreateBooking, TypeOK, PaymentRow, AppClock
  <2>3. locker' \in [Cells -> CellStatus]
    BY <1>3 DEF CreateBooking, TypeOK, CellStatus
  <2>. QED
    BY <1>3, <2>1, <2>2, <2>3 DEF CreateBooking, TypeOK
<1>4. ASSUME NEW r \in Rentals, NEW s \in Sessions, FinishRental(r, s)
      PROVE  TypeOK'
  <2>1. session' \in [Sessions -> SessionRow]
    BY <1>4 DEF FinishRental, TypeOK, SessionRow
  <2>2. locker' \in [Cells -> CellStatus]
    BY <1>4 DEF FinishRental, TypeOK, CellStatus
  <2>. QED
    BY <1>4, <2>1, <2>2 DEF FinishRental, TypeOK
<1>5. ASSUME NEW k \in Clients, refreshPaymentStatus(k)
      PROVE  TypeOK'
  <2>1. request' \in [Clients -> Request]
    BY <1>5 DEF refreshPaymentStatus, TypeOK, Request
  <2>2. payment' \in [Rentals -> PaymentRow]
    BY <1>5, RefreshTypes DEF refreshPaymentStatus, TypeOK
  <2>. QED
    BY <1>5, <2>1, <2>2 DEF refreshPaymentStatus, TypeOK
<1>6. ASSUME NEW k \in Clients, NEW l \in Locations, NEW code \in Codes,
             CheckAccessCode(k, l, code)
      PROVE  TypeOK'
  <2>1. \A s \in Sessions : session[s].rental \in Rentals \cup {None}
    BY DEF TypeOK, SessionRow
  <2>2. [Idle EXCEPT !.answer = "unauthorized"] \in Request
    BY DEF Idle, Request, Answers
  <2>3. request' \in [Clients -> Request]
    BY <1>6, <2>1, <2>2, RequestTypes DEF CheckAccessCode, TypeOK
  <2>. QED
    BY <1>6, <2>3 DEF CheckAccessCode, TypeOK
<1>7. ASSUME NEW k \in Clients, ReadAccess(k)
      PROVE  TypeOK'
  BY <1>7, RequestTypes DEF ReadAccess, TypeOK, Answers
<1>8. ASSUME NEW k \in Clients, NEW r \in Rentals, GetPayment(k, r) \/ OpenRental(k, r)
      PROVE  TypeOK'
  BY <1>8, RequestTypes DEF GetPayment, OpenRental, TypeOK
<1>9. ASSUME NEW k \in Clients, ReadPayment(k)
      PROVE  TypeOK'
  <2>1. request[k].rental \in Rentals
    BY <1>9 DEF ReadPayment, RequestsAreBooked, TypeOK, Request
  <2>2. payment[request[k].rental].status \in Answers
    BY <2>1 DEF TypeOK, PaymentRow, Answers
  <2>3. request' \in [Clients -> Request]
    BY <1>9, <2>2, RequestTypes DEF ReadPayment
  <2>. QED
    BY <1>9, <2>3 DEF ReadPayment, TypeOK
<1>10. ASSUME NEW k \in Clients, ReadOpen(k)
       PROVE  TypeOK'
  BY <1>10, RequestTypes DEF ReadOpen, TypeOK, Answers
<1>11. ASSUME NEW k \in Clients, Die(k)
       PROVE  TypeOK'
  <2>1. Idle \in Request
    BY DEF Idle, Request, Answers
  <2>. QED
    BY <1>11, <2>1 DEF Die, TypeOK
<1>12. ASSUME NEW c \in SeededCells, EnsureDemoData(c)
       PROVE  TypeOK'
  BY <1>12 DEF EnsureDemoData, TypeOK, CellStatus
<1>13. CASE Tick
  BY <1>13 DEF Tick, TypeOK
<1>14. CASE UNCHANGED vars
  BY <1>14 DEF vars, TypeOK
<1>. QED
  BY <1>1, <1>2, <1>3, <1>4, <1>5, <1>6, <1>7, <1>8, <1>9, <1>10, <1>11, <1>12,
     <1>13, <1>14
  DEF Next, RefuseCellSelection, RefuseBooking


-----------------------------------------------------------------------------
(* Who writes which table *)

(* Rows of payments come from bookings and change by refreshes.            *)
LEMMA PaymentWriters ==
    ASSUME [Next]_vars
    PROVE  \/ UNCHANGED payment
           \/ \E s \in Sessions, l \in Locations, r \in Rentals, code \in Codes :
                 CreateBooking(s, l, r, code)
           \/ \E k \in Clients : refreshPaymentStatus(k)
BY DEF Next, vars, CleanupExpiredSelections, CreateCellSelection, RefuseCellSelection,
       RefuseBooking, FinishRental, CheckAccessCode, ReadAccess, GetPayment, OpenRental,
       ReadPayment, ReadOpen, EnsureDemoData, Die, Tick

(* Sessions and lockers are written by the four transactions; the seeding  *)
(* writes lockers alone.                                                   *)
LEMMA CellWriters ==
    ASSUME [Next]_vars
    PROVE  \/ UNCHANGED <<session, locker>>
           \/ CleanupExpiredSelections
           \/ \E s \in Sessions, l \in Locations, z \in Sizes :
                 CreateCellSelection(s, l, z)
           \/ \E s \in Sessions, l \in Locations, r \in Rentals, code \in Codes :
                 CreateBooking(s, l, r, code)
           \/ \E r \in Rentals, s \in Sessions : FinishRental(r, s)
           \/ \E c \in SeededCells : EnsureDemoData(c)
BY DEF Next, vars, RefuseCellSelection, RefuseBooking, CheckAccessCode, ReadAccess,
       GetPayment, OpenRental, ReadPayment, ReadOpen, refreshPaymentStatus, Die, Tick

-----------------------------------------------------------------------------
(* Payments *)

(* A refresh leaves settled payments alone and never changes what a        *)
(* payment is for.                                                         *)
LEMMA RefreshKeeps ==
    ASSUME TypeOK, NEW p \in PaymentRow
    PROVE  /\ Refreshed(p).session = p.session
           /\ Refreshed(p).created = p.created
           /\ Refreshed(p).expires = p.expires
           /\ p.status # "pending" => Refreshed(p) = p
           /\ p.status # "none" => Refreshed(p).status # "none"
<1>1. ASSUME p.status # "pending"
      PROVE  Refreshed(p) = p
  BY <1>1 DEF Refreshed, Due, PaymentRow
<1>2. /\ Refreshed(p).session = p.session
      /\ Refreshed(p).created = p.created
      /\ Refreshed(p).expires = p.expires
  BY DEF Refreshed, PaymentRow
<1>3. ASSUME p.status # "none"
      PROVE  Refreshed(p).status # "none"
  BY <1>3 DEF Refreshed, PaymentRow
<1>. QED  BY <1>1, <1>2, <1>3

(* What one step may do to a payment. *)
LEMMA PaymentStep ==
    ASSUME TypeOK, RequestsAreBooked, [Next]_vars, NEW r \in Rentals
    PROVE  /\ payment[r].status # "none" =>
                 /\ payment'[r].status # "none"
                 /\ payment'[r].session = payment[r].session
           /\ payment[r].status \in {"paid", "expired"} => payment'[r] = payment[r]
<1>1. CASE UNCHANGED payment
  BY <1>1
<1>2. ASSUME NEW s \in Sessions, NEW l \in Locations, NEW q \in Rentals,
             NEW code \in Codes, CreateBooking(s, l, q, code)
      PROVE  payment[r].status # "none" => payment'[r] = payment[r]
  BY <1>2 DEF CreateBooking, TypeOK
<1>3. ASSUME NEW k \in Clients, refreshPaymentStatus(k)
      PROVE  payment'[r] = payment[r] \/ payment'[r] = Refreshed(payment[r])
  BY <1>3 DEF refreshPaymentStatus, TypeOK
<1>4. payment[r] \in PaymentRow
  BY DEF TypeOK
<1>. QED
  BY <1>1, <1>2, <1>3, <1>4, RefreshKeeps, PaymentWriters

(* PaidWithinWindow is inductive by itself. *)
LEMMA PaidWithinWindowKept ==
    TypeOK /\ PaidWithinWindow /\ [Next]_vars => PaidWithinWindow'
<1>. DEFINE P(p) == /\ p.status = "paid" => /\ p.paidAt # None
                                            /\ p.created + PayDelay <= p.paidAt
                                            /\ p.paidAt <= p.expires
                    /\ p.status = "pending" => p.paidAt = None
<1>. SUFFICES ASSUME TypeOK, PaidWithinWindow, [Next]_vars, NEW r \in Rentals
              PROVE  P(payment'[r])
  BY DEF PaidWithinWindow
<1>1. P(payment[r])
  BY DEF PaidWithinWindow
<1>2. now \in Int /\ now # None
  BY TimesAssumption, NoneAssumption DEF TypeOK
<1>3. CASE UNCHANGED payment
  BY <1>1, <1>3
<1>4. ASSUME NEW s \in Sessions, NEW l \in Locations, NEW q \in Rentals,
             NEW code \in Codes, CreateBooking(s, l, q, code)
      PROVE  P(payment'[r])
  <2>1. CASE r = q
    BY <1>4, <2>1 DEF CreateBooking, TypeOK
  <2>2. CASE r # q
    BY <1>1, <1>4, <2>2 DEF CreateBooking, TypeOK
  <2>. QED  BY <2>1, <2>2
<1>5. ASSUME NEW k \in Clients, refreshPaymentStatus(k)
      PROVE  P(payment'[r])
  <2>1. payment'[r] = payment[r] \/ payment'[r] = Refreshed(payment[r])
    BY <1>5 DEF refreshPaymentStatus, TypeOK
  <2>2. payment[r] \in PaymentRow
    BY DEF TypeOK
  <2>3. P(Refreshed(payment[r]))
    BY <1>1, <1>2, <2>2, TimesAssumption DEF Refreshed, Due, PaymentRow
  <2>. QED  BY <1>1, <2>1, <2>3
<1>. QED
  BY <1>3, <1>4, <1>5, PaymentWriters

-----------------------------------------------------------------------------
(* Sessions *)

(* What the sweep does to a session. *)
LEMMA SweepKeeps ==
    ASSUME TypeOK, NEW s \in Sessions
    PROVE  /\ SweptSessions[s].cell = session[s].cell
           /\ SweptSessions[s].rental = session[s].rental
           /\ SweptSessions[s].code = session[s].code
           /\ SweptSessions[s].status =
                 IF s \in Lapsed THEN "expired" ELSE session[s].status
           /\ s \in Lapsed => session[s].status = "selected"
<1>1. session[s] \in SessionRow
  BY DEF TypeOK
<1>2. CASE s \in Lapsed
  BY <1>1, <1>2 DEF SweptSessions, Lapsed, SessionRow
<1>3. CASE s \notin Lapsed
  BY <1>1, <1>3 DEF SweptSessions
<1>. QED  BY <1>2, <1>3

(* What one step may do to a session: the life cycle of SessionLifecycle,  *)
(* and who books it.                                                       *)
LEMMA SessionStep ==
    ASSUME TypeOK, BookingIsWhole, [Next]_vars, NEW s \in Sessions
    PROVE  LET old == session[s] new == session'[s]
           IN  /\ \/ <<old.status, new.status>> \in
                        {<<"none", "selected">>, <<"selected", "active">>,
                         <<"selected", "expired">>, <<"active", "closed">>}
                  \/ old.status = new.status
               /\ old.status # "none" => new.cell = old.cell
               /\ old.rental # None => new.rental = old.rental /\ new.code = old.code
<1>0. session[s] \in SessionRow
  BY DEF TypeOK
<1>1. CASE UNCHANGED session
  BY <1>1
<1>2. CASE session' = SweptSessions
  BY <1>2, SweepKeeps
<1>3. ASSUME NEW t \in Sessions, NEW l \in Locations, NEW z \in Sizes,
             CreateCellSelection(t, l, z)
      PROVE  \/ s # t /\ session'[s] = SweptSessions[s]
             \/ /\ session[s].status = "none" /\ session[s].rental = None
                /\ session'[s].status = "selected"
  BY <1>3, SweepTypes DEF CreateCellSelection, BookingIsWhole
<1>4. ASSUME NEW t \in Sessions, NEW l \in Locations, NEW r \in Rentals,
             NEW code \in Codes, CreateBooking(t, l, r, code)
      PROVE  \/ session'[s] = session[s]
             \/ /\ session[s].status = "selected" /\ session[s].rental = None
                /\ session'[s].status = "active" /\ session'[s].cell = session[s].cell
  BY <1>4, <1>0 DEF CreateBooking, Bookable, BookingIsWhole, TypeOK, SessionRow
<1>5. ASSUME NEW r \in Rentals, NEW t \in Sessions, FinishRental(r, t)
      PROVE  \/ session'[s] = session[s]
             \/ /\ session[s].status \in {"active", "closed"}
                /\ session'[s] = [session[s] EXCEPT !.status = "closed"]
  BY <1>5, NoneAssumption DEF FinishRental, BookingIsWhole, TypeOK
<1>6. ASSUME session'[s] = [session[s] EXCEPT !.status = "closed"]
      PROVE  /\ session'[s].status = "closed"
             /\ session'[s].cell = session[s].cell
             /\ session'[s].rental = session[s].rental
             /\ session'[s].code = session[s].code
  BY <1>0, <1>6 DEF SessionRow
<1>. QED
  BY <1>1, <1>2, <1>3, <1>4, <1>5, <1>6, SweepKeeps, CellWriters
  DEF CleanupExpiredSelections, EnsureDemoData

(* A booking is whole after every step. *)
LEMMA BookingIsWholeKept ==
    TypeOK /\ RequestsAreBooked /\ BookingIsWhole /\ [Next]_vars => BookingIsWhole'
<1>. SUFFICES ASSUME TypeOK, RequestsAreBooked, BookingIsWhole, [Next]_vars
              PROVE  BookingIsWhole'
  OBVIOUS
<1>. DEFINE Row(s, S, P) ==
              /\ S[s].status \in {"active", "closed"} <=> S[s].rental # None
              /\ S[s].status # "none" => S[s].cell # None
              /\ S[s].rental # None => /\ P[S[s].rental].status # "none"
                                       /\ P[S[s].rental].session = s
            Paid(r, S, P) ==
              P[r].status # "none" => /\ P[r].session # None
                                      /\ S[P[r].session].rental = r
<1>0. /\ \A s \in Sessions : session[s] \in SessionRow
      /\ \A r \in Rentals : payment[r] \in PaymentRow
      /\ \A s \in Sessions : Row(s, session, payment)
      /\ \A r \in Rentals : Paid(r, session, payment)
  BY DEF TypeOK, BookingIsWhole
<1>1. ASSUME NEW s \in Sessions, NEW l \in Locations, NEW r \in Rentals,
             NEW code \in Codes, CreateBooking(s, l, r, code)
      PROVE  BookingIsWhole'
  <2>1. /\ session'[s].status = "active" /\ session'[s].rental = r
        /\ session'[s].cell = session[s].cell
        /\ session[s].status = "selected"
    BY <1>1, <1>0 DEF CreateBooking, Bookable, TypeOK, SessionRow
  <2>2. \A t \in Sessions : t # s => session'[t] = session[t]
    BY <1>1 DEF CreateBooking, TypeOK
  <2>3. /\ payment[r].status = "none"
        /\ payment'[r].status = "pending" /\ payment'[r].session = s
        /\ \A q \in Rentals : q # r => payment'[q] = payment[q]
    BY <1>1 DEF CreateBooking, TypeOK
  <2>4. r # None /\ s # None
    BY NoneAssumption
  <2>5. \A t \in Sessions : Row(t, session', payment')
    <3>. SUFFICES ASSUME NEW t \in Sessions PROVE Row(t, session', payment')
      OBVIOUS
    <3>1. CASE t = s
      BY <1>0, <2>1, <2>3, <2>4, <3>1
    <3>2. CASE t # s
      <4>1. session'[t] = session[t] /\ session[t].rental # r
        BY <1>0, <2>2, <2>3, <2>4, <3>2
      <4>2. session[t].rental # None => payment'[session[t].rental] = payment[session[t].rental]
        BY <1>0, <2>3, <4>1 DEF SessionRow
      <4>3. Row(t, session, payment)
        BY <1>0
      <4>. QED  BY <4>1, <4>2, <4>3
    <3>. QED  BY <3>1, <3>2
  <2>6. \A q \in Rentals : Paid(q, session', payment')
    <3>. SUFFICES ASSUME NEW q \in Rentals PROVE Paid(q, session', payment')
      OBVIOUS
    <3>1. CASE q = r
      BY <2>1, <2>3, <2>4, <3>1
    <3>2. CASE q # r
      <4>1. payment'[q] = payment[q]
        BY <2>3, <3>2
      <4>2. payment[q].session # s \/ payment[q].status = "none"
        BY <1>0, <2>1, NoneAssumption
      <4>3. Paid(q, session, payment)
        BY <1>0
      <4>4. payment[q].status # "none" =>
               session'[payment[q].session] = session[payment[q].session]
        BY <1>0, <2>2, <4>2, <4>3 DEF PaymentRow
      <4>. QED  BY <4>1, <4>3, <4>4
    <3>. QED  BY <3>1, <3>2
  <2>. QED  BY <2>5, <2>6 DEF BookingIsWhole
<1>2. ASSUME UNCHANGED payment,
             \A s \in Sessions :
                /\ session'[s].rental = session[s].rental
                /\ session'[s].status \in {"active", "closed"} <=>
                      session[s].status \in {"active", "closed"}
                /\ session'[s].status # "none" => session'[s].cell # None
      PROVE  BookingIsWhole'
  BY <1>0, <1>2 DEF BookingIsWhole, PaymentRow
<1>3. ASSUME session' = SweptSessions, UNCHANGED payment
      PROVE  BookingIsWhole'
  BY <1>0, <1>2, <1>3, SweepKeeps
<1>4. ASSUME NEW t \in Sessions, NEW l \in Locations, NEW z \in Sizes,
             CreateCellSelection(t, l, z)
      PROVE  BookingIsWhole'
  <2>1. PICK c \in Cells :
            session' = [SweptSessions EXCEPT ![t] =
                          [status |-> "selected", cell |-> c,
                           hold |-> AppClock + HoldTTL,
                           rental |-> None, code |-> None]]
    BY <1>4 DEF CreateCellSelection, Selectable
  <2>2. UNCHANGED payment /\ session[t].status = "none" /\ c # None
    BY <1>4, NoneAssumption DEF CreateCellSelection
  <2>3. \A s \in Sessions : s # t => session'[s] = SweptSessions[s]
    BY <2>1, SweepTypes
  <2>4. /\ session'[t].status = "selected" /\ session'[t].rental = None
        /\ session'[t].cell # None
    BY <2>1, <2>2, SweepTypes
  <2>. QED  BY <1>0, <1>2, <2>2, <2>3, <2>4, SweepKeeps
<1>5. ASSUME NEW r \in Rentals, NEW s \in Sessions, FinishRental(r, s)
      PROVE  BookingIsWhole'
  <2>1. /\ UNCHANGED payment
        /\ session' = [session EXCEPT ![s].status = "closed"]
        /\ session[s].rental # None
    BY <1>5, NoneAssumption DEF FinishRental
  <2>2. /\ session'[s].status = "closed"
        /\ session'[s].rental = session[s].rental
        /\ session'[s].cell = session[s].cell
        /\ \A t \in Sessions : t # s => session'[t] = session[t]
    BY <1>0, <2>1 DEF TypeOK, SessionRow
  <2>. QED  BY <1>0, <1>2, <2>1, <2>2
<1>6. CASE UNCHANGED <<session, payment>>
  BY <1>6 DEF BookingIsWhole
<1>7. ASSUME NEW k \in Clients, refreshPaymentStatus(k)
      PROVE  BookingIsWhole'
  <2>1. /\ UNCHANGED session
        /\ \A r \in Rentals : \/ payment'[r] = payment[r]
                              \/ payment'[r] = Refreshed(payment[r])
    BY <1>7 DEF refreshPaymentStatus, TypeOK
  <2>2. \A r \in Rentals : /\ payment'[r].session = payment[r].session
                           /\ payment'[r].status = "none" <=> payment[r].status = "none"
    BY <1>0, <2>1, RefreshKeeps
  <2>. QED  BY <1>0, <2>1, <2>2 DEF BookingIsWhole, SessionRow
<1>. QED
  BY <1>1, <1>3, <1>4, <1>5, <1>6, <1>7, PaymentWriters, CellWriters
  DEF CleanupExpiredSelections, EnsureDemoData, refreshPaymentStatus

-----------------------------------------------------------------------------
(* Requests *)

(* What a client has once a request is answered. *)
LEMMA AnswerGives ==
    ASSUME TypeOK, NEW k \in Clients, NEW a, Answer(k, a)
    PROVE  /\ request'[k].answer = a
           /\ request'[k].at = "answered"
           /\ request'[k].rental = request[k].rental
BY DEF Answer, TypeOK, Request

(* How one step moves the request of a client. *)
LEMMA RequestStep ==
    ASSUME TypeOK, [Next]_vars, NEW k \in Clients
    PROVE  \/ request'[k] = request[k]
           \/ request'[k].rental = None /\ request'[k].at = "answered"
                 /\ request'[k].answer \in {"none", "unauthorized"}
           \/ request'[k] = [request[k] EXCEPT !.at = "read"]
                 /\ request[k].at = "refresh"
           \/ \E r \in Rentals \cup {None} :
                 /\ request'[k].at = "refresh" /\ request'[k].rental = r
                 /\ request'[k].answer = "none"
                 /\ \/ r # None /\ payment[r].status # "none"
                    \/ \E s \in Sessions : /\ session[s].status = "active"
                                           /\ session[s].rental = r
           \/ ReadAccess(k) \/ ReadPayment(k) \/ ReadOpen(k)
<1>0. \A s \in Sessions : session[s].rental \in Rentals \cup {None}
  BY DEF TypeOK, SessionRow
<1>1. ASSUME NEW j \in Clients, refreshPaymentStatus(j)
      PROVE  \/ request'[k] = request[k]
             \/ request'[k] = [request[k] EXCEPT !.at = "read"] /\ request[k].at = "refresh"
  BY <1>1 DEF refreshPaymentStatus, TypeOK
<1>2. ASSUME NEW j \in Clients, NEW l \in Locations, NEW code \in Codes,
             CheckAccessCode(j, l, code), request'[k] # request[k]
      PROVE  \/ request'[k] = [Idle EXCEPT !.answer = "unauthorized"]
             \/ \E s \in Sessions :
                   /\ session[s].status = "active"
                   /\ request'[k] = [op |-> "check", at |-> "refresh",
                                     rental |-> session[s].rental, answer |-> "none"]
  BY <1>2 DEF CheckAccessCode, Ask, TypeOK
<1>3. ASSUME NEW j \in Clients, NEW r \in Rentals, GetPayment(j, r) \/ OpenRental(j, r),
             request'[k] # request[k]
      PROVE  /\ payment[r].status # "none"
             /\ \E op \in {"poll", "open"} :
                   request'[k] = [op |-> op, at |-> "refresh",
                                  rental |-> r, answer |-> "none"]
  BY <1>3 DEF GetPayment, OpenRental, Ask, TypeOK
<1>4. ASSUME NEW j \in Clients, Die(j), request'[k] # request[k]
      PROVE  request'[k] = Idle
  BY <1>4 DEF Die, TypeOK
<1>5. ASSUME NEW j \in Clients, ReadAccess(j) \/ ReadPayment(j) \/ ReadOpen(j), j # k
      PROVE  request'[k] = request[k]
  BY <1>5 DEF ReadAccess, ReadPayment, ReadOpen, Answer, TypeOK
<1>6. UNCHANGED request \/ \E j \in Clients :
         \/ refreshPaymentStatus(j)
         \/ \E l \in Locations, code \in Codes : CheckAccessCode(j, l, code)
         \/ \E r \in Rentals : GetPayment(j, r) \/ OpenRental(j, r)
         \/ Die(j)
         \/ ReadAccess(j) \/ ReadPayment(j) \/ ReadOpen(j)
  BY DEF Next, vars, CleanupExpiredSelections, CreateCellSelection, RefuseCellSelection,
         CreateBooking, RefuseBooking, FinishRental, EnsureDemoData, Tick
<1>7. /\ Idle.rental = None /\ Idle.at = "answered" /\ Idle.answer = "none"
      /\ [Idle EXCEPT !.answer = "unauthorized"].rental = None
      /\ [Idle EXCEPT !.answer = "unauthorized"].at = "answered"
      /\ [Idle EXCEPT !.answer = "unauthorized"].answer = "unauthorized"
  BY DEF Idle
<1>8. ASSUME NEW j \in Clients, NEW l \in Locations, NEW code \in Codes,
             CheckAccessCode(j, l, code), request'[k] # request[k]
      PROVE  \/ request'[k] = [Idle EXCEPT !.answer = "unauthorized"]
             \/ \E r \in Rentals \cup {None} :
                   /\ request'[k].at = "refresh" /\ request'[k].rental = r
                   /\ request'[k].answer = "none"
                   /\ \E s \in Sessions : /\ session[s].status = "active"
                                          /\ session[s].rental = r
  <2>1. CASE \E s \in Sessions :
                /\ session[s].status = "active"
                /\ request'[k] = [op |-> "check", at |-> "refresh",
                                  rental |-> session[s].rental, answer |-> "none"]
    <3>1. PICK s \in Sessions :
              /\ session[s].status = "active"
              /\ request'[k] = [op |-> "check", at |-> "refresh",
                                rental |-> session[s].rental, answer |-> "none"]
      BY <2>1
    <3>2. /\ request'[k].at = "refresh" /\ request'[k].rental = session[s].rental
          /\ request'[k].answer = "none"
      BY <3>1
    <3>. QED  BY <1>0, <3>1, <3>2
  <2>. QED  BY <1>2, <1>8, <2>1
<1>13. ASSUME NEW j \in Clients, NEW r \in Rentals, GetPayment(j, r) \/ OpenRental(j, r),
              request'[k] # request[k]
       PROVE  /\ r # None /\ payment[r].status # "none"
              /\ request'[k].at = "refresh" /\ request'[k].rental = r
              /\ request'[k].answer = "none"
  <2>1. payment[r].status # "none"
    BY <1>13, <1>3
  <2>2. PICK op \in {"poll", "open"} :
            request'[k] = [op |-> op, at |-> "refresh", rental |-> r, answer |-> "none"]
    BY <1>13, <1>3
  <2>3. /\ request'[k].at = "refresh" /\ request'[k].rental = r
        /\ request'[k].answer = "none"
    BY <2>2
  <2>. QED  BY <2>1, <2>3, NoneAssumption
<1>9. CASE UNCHANGED request
  BY <1>9
<1>10. ASSUME NEW j \in Clients, ReadAccess(j) \/ ReadPayment(j) \/ ReadOpen(j)
      PROVE  request'[k] = request[k] \/ ReadAccess(k) \/ ReadPayment(k) \/ ReadOpen(k)
  BY <1>5, <1>10
<1>11. CASE request'[k] = request[k]
  BY <1>11
<1>12. CASE request'[k] = Idle
  BY <1>7, <1>12
<1>14. CASE request'[k] = [Idle EXCEPT !.answer = "unauthorized"]
  BY <1>7, <1>14
<1>. QED
  BY <1>1, <1>4, <1>6, <1>8, <1>9, <1>10, <1>11, <1>12, <1>13, <1>14

(* A request past its first statement stays about a booked rental. *)
LEMMA RequestsAreBookedKept ==
    TypeOK /\ BookingIsWhole /\ RequestsAreBooked /\ [Next]_vars => RequestsAreBooked'
<1>. DEFINE Booked(q, P) == /\ q.at # "answered" => q.rental # None /\ q.answer = "none"
                            /\ q.rental # None => P[q.rental].status # "none"
<1>. SUFFICES ASSUME TypeOK, BookingIsWhole, RequestsAreBooked, [Next]_vars,
                     NEW k \in Clients
              PROVE  Booked(request'[k], payment')
  BY DEF RequestsAreBooked
<1>1. Booked(request[k], payment) /\ request[k] \in Request
  BY DEF RequestsAreBooked, TypeOK
<1>2. \A r \in Rentals : payment[r].status # "none" => payment'[r].status # "none"
  BY PaymentStep
<1>3. Booked(request[k], payment')
  BY <1>1, <1>2 DEF Request
<1>4. CASE request'[k] = request[k]
  BY <1>3, <1>4
<1>5. CASE request'[k].rental = None /\ request'[k].at = "answered"
  BY <1>5
<1>6. CASE request'[k] = [request[k] EXCEPT !.at = "read"] /\ request[k].at = "refresh"
  BY <1>3, <1>6 DEF Request
<1>7. ASSUME NEW r \in Rentals \cup {None}, request'[k].rental = r,
             request'[k].answer = "none",
             \/ r # None /\ payment[r].status # "none"
             \/ \E s \in Sessions : session[s].status = "active" /\ session[s].rental = r
      PROVE  Booked(request'[k], payment')
  <2>1. r # None /\ payment[r].status # "none"
    BY <1>7 DEF BookingIsWhole
  <2>. QED  BY <1>2, <1>7, <2>1
<1>8. CASE ReadAccess(k) \/ ReadPayment(k) \/ ReadOpen(k)
  <2>1. \E a : request' = [request EXCEPT ![k].at = "answered", ![k].answer = a]
    BY <1>8 DEF ReadAccess, ReadPayment, ReadOpen, Answer
  <2>2. request'[k].at = "answered" /\ request'[k].rental = request[k].rental
    BY <2>1, <1>1 DEF TypeOK, Request
  <2>. QED  BY <1>3, <2>2
<1>. QED
  BY <1>4, <1>5, <1>6, <1>7, <1>8, RequestStep

(* What a client was told of a paid rental stays true, because a paid      *)
(* payment is final.                                                       *)
LEMMA LetInOnlyIfPaidKept ==
    TypeOK /\ RequestsAreBooked /\ LetInOnlyIfPaid /\ [Next]_vars => LetInOnlyIfPaid'
<1>. DEFINE Yes == {"opened", "granted", "paid"}
            Sound(q, P) == q.answer \in Yes =>
                              q.rental # None /\ P[q.rental].status = "paid"
<1>. SUFFICES ASSUME TypeOK, RequestsAreBooked, LetInOnlyIfPaid, [Next]_vars,
                     NEW k \in Clients
              PROVE  Sound(request'[k], payment')
  BY DEF LetInOnlyIfPaid
<1>1. /\ Sound(request[k], payment)
      /\ request[k] \in Request
      /\ request[k].at # "answered" => request[k].rental # None
  BY DEF LetInOnlyIfPaid, RequestsAreBooked, TypeOK
<1>2. \A r \in Rentals : payment[r].status = "paid" => payment'[r].status = "paid"
  BY PaymentStep
<1>3. CASE ReadAccess(k) \/ ReadPayment(k) \/ ReadOpen(k)
  <2>1. request[k].rental \in Rentals /\ UNCHANGED payment
    BY <1>1, <1>3 DEF ReadAccess, ReadPayment, ReadOpen, Request
  <2>. DEFINE p == payment[request[k].rental]
  <2>2. CASE ReadAccess(k)
    <3>. DEFINE a == IF session[p.session].status # "active" THEN "closed"
                     ELSE IF p.status = "paid" THEN "granted" ELSE "payment_required"
    <3>1. Answer(k, a)
      BY <2>2 DEF ReadAccess
    <3>2. request'[k].answer = a /\ request'[k].rental = request[k].rental
      BY <3>1, AnswerGives
    <3>3. a \in Yes => p.status = "paid"
      OBVIOUS
    <3>. HIDE DEF a
    <3>. QED  BY <2>1, <3>2, <3>3, NoneAssumption
  <2>3. CASE ReadPayment(k)
    <3>1. Answer(k, p.status)
      BY <2>3 DEF ReadPayment
    <3>2. request'[k].answer = p.status /\ request'[k].rental = request[k].rental
      BY <3>1, AnswerGives
    <3>3. p.status \in {"none", "pending", "paid", "expired"}
      BY <2>1 DEF TypeOK, PaymentRow
    <3>. QED  BY <2>1, <3>2, <3>3, NoneAssumption
  <2>4. CASE ReadOpen(k)
    <3>. DEFINE a == IF p.status = "paid" THEN "opened" ELSE "payment_required"
    <3>1. Answer(k, a)
      BY <2>4 DEF ReadOpen
    <3>2. request'[k].answer = a /\ request'[k].rental = request[k].rental
      BY <3>1, AnswerGives
    <3>. QED  BY <2>1, <3>2, NoneAssumption
  <2>. QED  BY <1>3, <2>2, <2>3, <2>4
<1>4. CASE request'[k] = request[k] \/ request'[k] = [request[k] EXCEPT !.at = "read"]
  <2>1. request'[k].answer = request[k].answer /\ request'[k].rental = request[k].rental
    BY <1>1, <1>4 DEF Request
  <2>. QED  BY <1>1, <1>2, <2>1 DEF Request
<1>5. CASE request'[k].answer \in {"none", "unauthorized"}
  BY <1>5
<1>. QED
  BY <1>3, <1>4, <1>5, RequestStep

-----------------------------------------------------------------------------
(* Cells *)

(* No step loses a cell. *)
LEMMA NoLostCellKept ==
    TypeOK /\ BookingIsWhole /\ NoLostCell /\ [Next]_vars => NoLostCell'
<1>. SUFFICES ASSUME TypeOK, BookingIsWhole, NoLostCell, [Next]_vars
              PROVE  NoLostCell'
  OBVIOUS
<1>0. \A s \in Sessions : session[s] \in SessionRow
  BY DEF TypeOK
<1>1. CASE CleanupExpiredSelections
  <2>1. session' = SweptSessions /\ locker' = SweptLockers
    BY <1>1 DEF CleanupExpiredSelections
  <2>. SUFFICES ASSUME NEW c \in Cells
                PROVE  /\ locker'[c] = "reserved" =>
                             \E s \in Sessions : session'[s].cell = c
                                              /\ session'[s].status = "selected"
                       /\ locker'[c] = "occupied" =>
                             \E s \in Sessions : session'[s].cell = c
                                              /\ session'[s].status = "active"
    BY DEF NoLostCell
  <2>2. /\ locker'[c] = "reserved" =>
             locker[c] = "reserved" /\ \A s \in Lapsed : session[s].cell # c
        /\ locker'[c] = "occupied" => locker[c] = "occupied"
    BY <2>1 DEF SweptLockers
  <2>. QED  BY <2>1, <2>2, SweepKeeps DEF NoLostCell
<1>2. ASSUME NEW t \in Sessions, NEW l \in Locations, NEW z \in Sizes,
             CreateCellSelection(t, l, z)
      PROVE  NoLostCell'
  <2>1. PICK d \in Cells :
            /\ session' = [SweptSessions EXCEPT ![t] =
                              [status |-> "selected", cell |-> d,
                               hold |-> AppClock + HoldTTL,
                               rental |-> None, code |-> None]]
            /\ locker' = [SweptLockers EXCEPT ![d] = "reserved"]
    BY <1>2 DEF CreateCellSelection, Selectable
  <2>2. session[t].status = "none"
    BY <1>2 DEF CreateCellSelection
  <2>3. /\ session'[t].cell = d /\ session'[t].status = "selected"
        /\ \A s \in Sessions : s # t => session'[s] = SweptSessions[s]
    BY <2>1, SweepTypes
  <2>. SUFFICES ASSUME NEW c \in Cells, c # d
                PROVE  /\ locker'[c] = "reserved" =>
                             \E s \in Sessions : session'[s].cell = c
                                              /\ session'[s].status = "selected"
                       /\ locker'[c] = "occupied" =>
                             \E s \in Sessions : session'[s].cell = c
                                              /\ session'[s].status = "active"
    BY <2>1, <2>3, SweepTypes DEF NoLostCell
  <2>4. /\ locker'[c] = "reserved" =>
             locker[c] = "reserved" /\ \A s \in Lapsed : session[s].cell # c
        /\ locker'[c] = "occupied" => locker[c] = "occupied"
    BY <2>1, SweepTypes DEF SweptLockers
  <2>. QED  BY <2>2, <2>3, <2>4, SweepKeeps DEF NoLostCell
<1>3. ASSUME NEW s \in Sessions, NEW l \in Locations, NEW r \in Rentals,
             NEW code \in Codes, CreateBooking(s, l, r, code)
      PROVE  NoLostCell'
  <2>1. /\ session'[s].status = "active" /\ session'[s].cell = session[s].cell
        /\ session[s].status = "selected"
        /\ \A t \in Sessions : t # s => session'[t] = session[t]
        /\ locker' = [locker EXCEPT ![session[s].cell] = "occupied"]
    BY <1>3, <1>0 DEF CreateBooking, Bookable, TypeOK, SessionRow
  <2>. QED  BY <2>1 DEF NoLostCell, TypeOK
<1>4. ASSUME NEW r \in Rentals, NEW s \in Sessions, FinishRental(r, s)
      PROVE  NoLostCell'
  <2>1. /\ \A t \in Sessions : t # s => session'[t] = session[t]
        /\ locker' = [locker EXCEPT ![session[s].cell] = "free"]
    BY <1>4 DEF FinishRental, TypeOK
  <2>. QED  BY <2>1 DEF NoLostCell, TypeOK
<1>5. ASSUME NEW c \in SeededCells, EnsureDemoData(c)
      PROVE  NoLostCell'
  BY <1>5 DEF EnsureDemoData, NoLostCell, TypeOK
<1>6. CASE UNCHANGED <<session, locker>>
  BY <1>6 DEF NoLostCell
<1>. QED
  BY <1>1, <1>2, <1>3, <1>4, <1>5, <1>6, CellWriters

-----------------------------------------------------------------------------
(* Theorems *)

(* The invariant that is inductive for every environment. *)
RentalInv ==
    /\ TypeOK
    /\ BookingIsWhole
    /\ RequestsAreBooked
    /\ NoLostCell
    /\ PaidWithinWindow
    /\ LetInOnlyIfPaid

(* It holds whatever customers, sweeps, restarts and repeated requests do. *)
THEOREM RentalInvariant == Spec => []RentalInv
<1>1. Init => RentalInv
  <2>1. Init => TypeOK
    BY TimesAssumption
    DEF Init, TypeOK, CellStatus, NoSession, SessionRow, NoPayment, PaymentRow,
        Idle, Request, Answers
  <2>. QED
    BY <2>1
    DEF Init, RentalInv, BookingIsWhole, RequestsAreBooked, NoLostCell,
        PaidWithinWindow, LetInOnlyIfPaid, NoSession, NoPayment, Idle
<1>2. RentalInv /\ [Next]_vars => RentalInv'
  BY TypesKept, BookingIsWholeKept, RequestsAreBookedKept, NoLostCellKept,
     PaidWithinWindowKept, LetInOnlyIfPaidKept DEF RentalInv
<1>. QED  BY <1>1, <1>2, PTL DEF Spec

(* Every column, every request and the clock keep their types.             *)
THEOREM TypeCorrect == Spec => []TypeOK
BY RentalInvariant, PTL DEF RentalInv

(* However restarts, repeated and dying requests interleave, a reserved    *)
(* cell has a selection and an occupied cell an active rental: no cell is  *)
(* lost to the pool.                                                       *)
THEOREM CellsNeverLost == Spec => []NoLostCell
BY RentalInvariant, PTL DEF RentalInv

(* CreateBooking leaves a session, its rental and its one payment, or no   *)
(* trace.                                                                  *)
THEOREM BookingsWhole == Spec => []BookingIsWhole
BY RentalInvariant, PTL DEF RentalInv

(* The refresh reports a payment as paid only within its window.           *)
THEOREM PaymentsInWindow == Spec => []PaidWithinWindow
BY RentalInvariant, PTL DEF RentalInv

(* Nobody is told that a cell is open or a code is good for a rental that  *)
(* is not paid.                                                            *)
THEOREM NobodyInUnpaid == Spec => []LetInOnlyIfPaid
BY RentalInvariant, PTL DEF RentalInv

(* A settled payment is never touched again by the refreshes.              *)
THEOREM SettledPaymentsStay == Spec => PaymentFinal
<1>1. RentalInv /\ [Next]_vars =>
         [\A r \in Rentals :
             payment[r].status \in {"paid", "expired"} => payment'[r] = payment[r]]_vars
  BY PaymentStep DEF RentalInv
<1>. QED  BY <1>1, RentalInvariant, PTL DEF Spec, PaymentFinal

(* No step takes a session off its life cycle or changes what its customer *)
(* was told.                                                               *)
THEOREM SessionsKeepTheirCourse == Spec => SessionLifecycle
<1>. DEFINE Course ==
       \A s \in Sessions :
          LET old == session[s] new == session'[s]
          IN  /\ <<old.status, new.status>> \in
                    {<<"none", "selected">>, <<"selected", "active">>,
                     <<"selected", "expired">>, <<"active", "closed">>}
                 \/ old.status = new.status
              /\ old.status # "none" => new.cell = old.cell
              /\ old.rental # None => /\ new.rental = old.rental
                                      /\ new.code = old.code
<1>1. RentalInv /\ [Next]_vars => [Course]_vars
  BY SessionStep DEF RentalInv
<1>. QED  BY <1>1, RentalInvariant, PTL DEF Spec, SessionLifecycle

(* A check of an access code grants a rental only if it is active in the   *)
(* very statement that answers.                                            *)
THEOREM GrantsAreCurrent == Spec => GrantedWhileActive
<1>. DEFINE Current ==
       \A k \in Clients :
          /\ request[k].at # "answered"
          /\ request'[k].answer = "granted"
          => session[payment[request[k].rental].session].status = "active"
<1>1. RentalInv /\ [Next]_vars => Current
  <2>. SUFFICES ASSUME RentalInv, [Next]_vars, NEW k \in Clients,
                       request[k].at # "answered", request'[k].answer = "granted"
                PROVE  session[payment[request[k].rental].session].status = "active"
    OBVIOUS
  <2>1. request[k].answer = "none" /\ request[k] \in Request
    BY DEF RentalInv, RequestsAreBooked, TypeOK
  <2>2. request[k].rental \in Rentals
    BY DEF RentalInv, RequestsAreBooked, TypeOK, Request
  <2>3. ReadAccess(k) \/ ReadPayment(k) \/ ReadOpen(k)
    <3>1. CASE request'[k] = request[k] \/ request'[k] = [request[k] EXCEPT !.at = "read"]
      BY <2>1, <3>1 DEF Request
    <3>. QED  BY <3>1, RequestStep DEF RentalInv
  <2>. DEFINE p == payment[request[k].rental]
  <2>4. CASE ReadAccess(k)
    <3>1. Answer(k, IF session[p.session].status # "active" THEN "closed"
                    ELSE IF p.status = "paid" THEN "granted" ELSE "payment_required")
      BY <2>4 DEF ReadAccess
    <3>2. request'[k].answer = IF session[p.session].status # "active" THEN "closed"
                    ELSE IF p.status = "paid" THEN "granted" ELSE "payment_required"
      BY <3>1, AnswerGives DEF RentalInv
    <3>. QED  BY <3>2
  <2>5. CASE ReadPayment(k)
    <3>1. Answer(k, p.status)
      BY <2>5 DEF ReadPayment
    <3>2. request'[k].answer = p.status
      BY <3>1, AnswerGives DEF RentalInv
    <3>3. p.status \in {"none", "pending", "paid", "expired"}
      BY <2>2 DEF RentalInv, TypeOK, PaymentRow
    <3>. QED  BY <3>2, <3>3
  <2>6. CASE ReadOpen(k)
    <3>1. Answer(k, IF p.status = "paid" THEN "opened" ELSE "payment_required")
      BY <2>6 DEF ReadOpen
    <3>2. request'[k].answer \in {"opened", "payment_required"}
      BY <3>1, AnswerGives DEF RentalInv
    <3>. QED  BY <3>2
  <2>. QED  BY <2>3, <2>4, <2>5, <2>6
<1>. QED  BY <1>1, RentalInvariant, PTL DEF Spec, GrantedWhileActive
=============================================================================
