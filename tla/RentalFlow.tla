----------------------------- MODULE RentalFlow -----------------------------
(***************************************************************************)
(* The rental flow of the LOCK'IT backend: cell selection, booking, access *)
(* code, payment, opening and finishing, as                                *)
(* internal/repository/rental_flow_repository.go performs them on the      *)
(* tables lockers, storage_sessions and payments, together with the cron   *)
(* job that expires selections and the seeding done at every start.        *)
(*                                                                         *)
(* A handler that runs in a database transaction is one action, because    *)
(* the transaction commits or rolls back as a whole.  A handler that runs  *)
(* autocommitted statements is one action per statement, and every other   *)
(* request may be served between two of them.                              *)
(***************************************************************************)
EXTENDS Integers, FiniteSets

CONSTANTS
    Cells,        \* rows of lockers in service
    Locations,    \* rows of locations
    Sizes,        \* S, M, L, XL
    LocationOf,   \* lockers.location_id
    SizeOf,       \* lockers.size
    SeededCells,  \* the cells EnsureDemoData writes
    Sessions,     \* selection ids that can be minted (bounds the sessions)
    Rentals,      \* rental ids that can be minted, one payment id with each
    Codes,        \* access codes that can be drawn
    Clients,      \* concurrent requests to the autocommitted handlers
    HoldTTL,      \* life of a selection: 90 s
    PayDelay,     \* age at which the mock provider reports a payment as paid: 5 s
    PayTTL,       \* life of a payment: 5 min
    ClockSkew,    \* clock of the backend minus clock of the database
    MaxTime,      \* bound on the modelled time
    Faults,       \* what the environment may do: see the two members below
    None          \* SQL NULL

(***************************************************************************)
(* "repeat_finish": POST /rentals/{id}/finish arrives again for a rental   *)
(*   that is closed already (a reply was lost, a second screen was open).  *)
(* "restart": an instance of the backend starts while rentals exist.       *)
(***************************************************************************)
AllFaults == {"repeat_finish", "restart"}

ASSUME CellsAssumption ==
    /\ LocationOf \in [Cells -> Locations]
    /\ SizeOf \in [Cells -> Sizes]
    /\ SeededCells \subseteq Cells
    /\ Faults \subseteq AllFaults

ASSUME TimesAssumption ==
    /\ HoldTTL \in Nat /\ PayDelay \in Nat /\ PayTTL \in Nat /\ MaxTime \in Nat
    /\ ClockSkew \in Int

ASSUME NoneAssumption ==
    /\ None \notin Cells \cup Sessions \cup Rentals \cup Codes
    /\ None \notin Int

VARIABLES
    locker,    \* locker[c]: lockers.status
    session,   \* session[s]: the row of storage_sessions with selection_id s
    payment,   \* payment[r]: the row of payments with rental_id r
    request,   \* request[k]: how far the request of client k has come
    now        \* NOW() of the database

tables == <<locker, session, payment>>
vars == <<locker, session, payment, request, now>>

-----------------------------------------------------------------------------
(* Rows.  Status "none" stands for a row that has not been inserted. *)

CellStatus == {"free", "reserved", "occupied", "locked", "open",
               "maintenance", "out_of_service"}

NoSession == [status |-> "none", cell |-> None, hold |-> 0,
              rental |-> None, code |-> None]

SessionRow == [status : {"none", "selected", "active", "closed", "expired"},
               cell   : Cells \cup {None},
               hold   : Int,
               rental : Rentals \cup {None},
               code   : Codes \cup {None}]

NoPayment == [status |-> "none", session |-> None, created |-> 0,
              expires |-> 0, paidAt |-> None]

PaymentRow == [status  : {"none", "pending", "paid", "expired"},
               session : Sessions \cup {None},
               created : Int,
               expires : Int,
               paidAt  : Int \cup {None}]

Idle == [op |-> "none", at |-> "answered", rental |-> None, answer |-> "none"]

Answers == {"none", "unauthorized", "closed", "granted", "payment_required",
            "opened", "pending", "paid", "expired"}

Request == [op     : {"none", "check", "poll", "open"},
            at     : {"refresh", "read", "answered"},
            rental : Rentals \cup {None},
            answer : Answers]

TypeOK ==
    /\ locker \in [Cells -> CellStatus]
    /\ session \in [Sessions -> SessionRow]
    /\ payment \in [Rentals -> PaymentRow]
    /\ request \in [Clients -> Request]
    /\ now \in 0..MaxTime

Init ==
    /\ locker = [c \in Cells |-> "free"]
    /\ session = [s \in Sessions |-> NoSession]
    /\ payment = [r \in Rentals |-> NoPayment]
    /\ request = [k \in Clients |-> Idle]
    /\ now = 0

AppClock == now + ClockSkew  \* time.Now() of the backend

-----------------------------------------------------------------------------
(* Expiry of selections: the statement that CleanupExpiredSelections and   *)
(* CreateCellSelection share.                                              *)

\* The sweep as it would be if it took only selections whose cell it can free.
LapsedReservedOnly ==
    {s \in Sessions : /\ session[s].status = "selected"
                      /\ session[s].hold < now
                      /\ locker[session[s].cell] = "reserved"}

Lapsed ==
    {s \in Sessions : session[s].status = "selected" /\ session[s].hold < now}

SweptSessions ==
    [s \in Sessions |->
        IF s \in Lapsed THEN [session[s] EXCEPT !.status = "expired"] ELSE session[s]]

\* The sweep as it would be if it left the lockers table alone.
SweptLockersNone == locker

\* The sweep as it would be without the test for reserved.
SweptLockersAnyStatus ==
    [c \in Cells |-> IF \E s \in Lapsed : session[s].cell = c THEN "free" ELSE locker[c]]

SweptLockers ==
    [c \in Cells |->
        IF locker[c] = "reserved" /\ (\E s \in Lapsed : session[s].cell = c)
        THEN "free" ELSE locker[c]]

(* The cron job, once a minute. *)
CleanupExpiredSelections ==
    /\ Lapsed # {}
    /\ session' = SweptSessions
    /\ locker' = SweptLockers
    /\ UNCHANGED <<payment, request, now>>

-----------------------------------------------------------------------------
(* POST /lockers/{location}/cell-selection *)

Selectable(l, z) ==
    {c \in Cells : LocationOf[c] = l /\ SizeOf[c] = z /\ SweptLockers[c] = "free"}

\* Any free cell may be chosen: the query takes the lowest number among the
\* cells no other transaction has locked (SKIP LOCKED).  The last conjunct
\* keeps the end of the hold within the bound on time.
CreateCellSelection(s, l, z) ==
    /\ session[s].status = "none"
    /\ \E c \in Selectable(l, z) :
        /\ session' = [SweptSessions EXCEPT ![s] =
                          [status |-> "selected", cell |-> c,
                           hold |-> AppClock + HoldTTL,
                           rental |-> None, code |-> None]]
        /\ locker' = [SweptLockers EXCEPT ![c] = "reserved"]
    /\ UNCHANGED <<payment, request, now>>
    /\ AppClock + HoldTTL < MaxTime

(* ErrNoCellsAvailable: the deferred Rollback undoes the sweep as well. *)
RefuseCellSelection(l, z) ==
    /\ Selectable(l, z) = {}
    /\ UNCHANGED vars

-----------------------------------------------------------------------------
(* POST /lockers/{location}/bookings *)

\* The test of a booking without status != "selected".
BookableByHold(s) == session[s].status # "none" /\ AppClock <= session[s].hold

Bookable(s) == session[s].status = "selected" /\ AppClock <= session[s].hold

CreateBooking(s, l, r, code) ==
    /\ Bookable(s)
    /\ LocationOf[session[s].cell] = l
    /\ payment[r].status = "none"
    /\ session' = [session EXCEPT ![s] =
                      [@ EXCEPT !.status = "active", !.rental = r, !.code = code]]
    /\ payment' = [payment EXCEPT ![r] =
                      [status |-> "pending", session |-> s, created |-> now,
                       expires |-> AppClock + PayTTL, paidAt |-> None]]
    /\ locker' = [locker EXCEPT ![session[s].cell] = "occupied"]
    /\ UNCHANGED <<request, now>>

\* The refusal as it would be if its two UPDATEs were committed.
RefuseBookingCommitted(s, l) ==
    /\ session[s].status # "none"
    /\ LocationOf[session[s].cell] = l
    /\ ~Bookable(s)
    /\ session' = [session EXCEPT ![s].status = "expired"]
    /\ locker' = [locker EXCEPT ![session[s].cell] = IF @ = "reserved" THEN "free" ELSE @]
    /\ UNCHANGED <<payment, request, now>>

(* ErrSelectionExpired.  The code marks the session expired and frees the  *)
(* cell, but returns the error without a Commit: the deferred Rollback     *)
(* undoes both UPDATEs, so a second submission leaves a booked rental      *)
(* alone.  A selection of another location is not found at all.            *)
RefuseBooking(s, l) ==
    /\ session[s].status # "none"
    /\ ~(Bookable(s) /\ LocationOf[session[s].cell] = l)
    /\ UNCHANGED vars

-----------------------------------------------------------------------------
(* POST /rentals/{id}/finish *)

\* Finishing that closes the session and keeps the cell.
FinishRentalKeepsCell(r, s) ==
    /\ session[s].rental = r
    /\ session[s].status = "active" \/ "repeat_finish" \in Faults
    /\ session' = [session EXCEPT ![s].status = "closed"]
    /\ UNCHANGED <<locker, payment, request, now>>

\* Finishing with a status the rest of the code does not know.
FinishRentalOtherWord(r, s) ==
    /\ session[s].rental = r
    /\ session[s].status = "active" \/ "repeat_finish" \in Faults
    /\ session' = [session EXCEPT ![s].status = "finished"]
    /\ locker' = [locker EXCEPT ![session[s].cell] = "free"]
    /\ UNCHANGED <<payment, request, now>>

\* The handler has no guard on the status.  The second conjunct is about the
\* caller: a second request for one rental is a fault of the environment.
FinishRental(r, s) ==
    /\ session[s].rental = r
    /\ session[s].status = "active" \/ "repeat_finish" \in Faults
    /\ session' = [session EXCEPT ![s].status = "closed"]
    /\ locker' = [locker EXCEPT ![session[s].cell] = "free"]
    /\ UNCHANGED <<payment, request, now>>

-----------------------------------------------------------------------------
(* The mock payment provider: a payment changes only when it is read. *)

Due(p) == p.status = "pending" /\ p.created + PayDelay <= now

\* The refresh with its two WHENs swapped.
RefreshedPaidFirst(p) ==
    [p EXCEPT
        !.status = IF Due(p) THEN "paid"
                   ELSE IF p.status = "pending" /\ p.expires < now THEN "expired"
                   ELSE @,
        !.paidAt = IF Due(p) THEN now ELSE @]

\* The refresh without status='pending' in the first WHEN.
RefreshedAnyStatus(p) ==
    [p EXCEPT
        !.status = IF p.status # "none" /\ p.expires < now THEN "expired"
                   ELSE IF Due(p) THEN "paid" ELSE @,
        !.paidAt = IF Due(p) THEN now ELSE @]

Refreshed(p) ==
    [p EXCEPT
        !.status = IF p.status = "pending" /\ p.expires < now THEN "expired"
                   ELSE IF Due(p) THEN "paid" ELSE @,
        !.paidAt = IF Due(p) THEN now ELSE @]

(* One UPDATE; its callers ignore the error it may return. *)
refreshPaymentStatus(k) ==
    /\ request[k].at = "refresh"
    /\ request' = [request EXCEPT ![k].at = "read"]
    /\ \/ payment' = [payment EXCEPT ![request[k].rental] = Refreshed(@)]
       \/ UNCHANGED payment
    /\ UNCHANGED <<locker, session, now>>

-----------------------------------------------------------------------------
(* Requests of autocommitted statements.  A client has one at a time. *)

Ask(k, op, r) ==
    request' = [request EXCEPT ![k] =
                   [op |-> op, at |-> "refresh", rental |-> r, answer |-> "none"]]

Answer(k, a) ==
    request' = [request EXCEPT ![k].at = "answered", ![k].answer = a]

(* POST /lockers/{location}/access-code/check: the first statement finds   *)
(* some active rental of the location that has the code.                   *)
CheckAccessCode(k, l, code) ==
    /\ request[k].at = "answered"
    /\ LET found == {s \in Sessions : /\ session[s].status = "active"
                                      /\ session[s].code = code
                                      /\ LocationOf[session[s].cell] = l}
       IN  \/ \E s \in found : Ask(k, "check", session[s].rental)
           \/ /\ found = {}
              /\ request' = [request EXCEPT ![k] = [Idle EXCEPT !.answer = "unauthorized"]]
    /\ UNCHANGED <<locker, session, payment, now>>

\* The last statement of the check without its second look at the session.
ReadAccessOnce(k) ==
    LET p == payment[request[k].rental]
    IN  /\ request[k].op = "check" /\ request[k].at = "read"
        /\ Answer(k, IF p.status = "paid" THEN "granted" ELSE "payment_required")
        /\ UNCHANGED <<locker, session, payment, now>>

ReadAccess(k) ==
    LET p == payment[request[k].rental]
    IN  /\ request[k].op = "check" /\ request[k].at = "read"
        /\ Answer(k, IF session[p.session].status # "active" THEN "closed"
                     ELSE IF p.status = "paid" THEN "granted"
                     ELSE "payment_required")
        /\ UNCHANGED <<locker, session, payment, now>>

(* GET /payments/{id} *)
GetPayment(k, r) ==
    /\ request[k].at = "answered"
    /\ payment[r].status # "none"
    /\ Ask(k, "poll", r)
    /\ UNCHANGED <<locker, session, payment, now>>

ReadPayment(k) ==
    /\ request[k].op = "poll" /\ request[k].at = "read"
    /\ Answer(k, payment[request[k].rental].status)
    /\ UNCHANGED <<locker, session, payment, now>>

(* POST /rentals/{id}/open.  The session is not looked at; its opened_at,  *)
(* which the handler stamps with the error ignored, is read by no handler  *)
(* that decides anything and is left out.                                  *)
OpenRental(k, r) ==
    /\ request[k].at = "answered"
    /\ payment[r].status # "none"
    /\ Ask(k, "open", r)
    /\ UNCHANGED <<locker, session, payment, now>>

\* Opening that rejects pending payments only.
ReadOpenNotPending(k) ==
    /\ request[k].op = "open" /\ request[k].at = "read"
    /\ Answer(k, IF payment[request[k].rental].status # "pending" THEN "opened"
                 ELSE "payment_required")
    /\ UNCHANGED <<locker, session, payment, now>>

ReadOpen(k) ==
    /\ request[k].op = "open" /\ request[k].at = "read"
    /\ Answer(k, IF payment[request[k].rental].status = "paid" THEN "opened"
                 ELSE "payment_required")
    /\ UNCHANGED <<locker, session, payment, now>>

-----------------------------------------------------------------------------
(* The environment *)

(* One upsert of EnsureDemoData.  The loop runs before the new instance    *)
(* serves, but an instance that is being replaced may still be serving.    *)
EnsureDemoData(c) ==
    /\ "restart" \in Faults
    /\ c \in SeededCells
    /\ locker' = [locker EXCEPT ![c] = "free"]
    /\ UNCHANGED <<session, payment, request, now>>

(* A request dies with its instance, or its client disconnects and the     *)
(* request context is cancelled between two statements.                    *)
Die(k) ==
    /\ request[k].at # "answered"
    /\ request' = [request EXCEPT ![k] = Idle]
    /\ UNCHANGED <<locker, session, payment, now>>

Tick ==
    /\ now < MaxTime
    /\ now' = now + 1
    /\ UNCHANGED <<locker, session, payment, request>>

Next ==
    \/ CleanupExpiredSelections
    \/ \E s \in Sessions, l \in Locations, z \in Sizes : CreateCellSelection(s, l, z)
    \/ \E l \in Locations, z \in Sizes : RefuseCellSelection(l, z)
    \/ \E s \in Sessions, l \in Locations, r \in Rentals, code \in Codes :
          CreateBooking(s, l, r, code)
    \/ \E s \in Sessions, l \in Locations : RefuseBooking(s, l)
    \/ \E r \in Rentals, s \in Sessions : FinishRental(r, s)
    \/ \E k \in Clients :
          \/ refreshPaymentStatus(k)
          \/ \E l \in Locations, code \in Codes : CheckAccessCode(k, l, code)
          \/ ReadAccess(k)
          \/ \E r \in Rentals : GetPayment(k, r) \/ OpenRental(k, r)
          \/ ReadPayment(k)
          \/ ReadOpen(k)
          \/ Die(k)
    \/ \E c \in SeededCells : EnsureDemoData(c)
    \/ Tick

Spec == Init /\ [][Next]_vars

-----------------------------------------------------------------------------
(* Safety, whatever the environment does *)

Live(s) == session[s].status \in {"selected", "active"}

(* No cell is lost to the pool: a reserved cell has a selection that will  *)
(* expire or be booked, an occupied one an active rental that can be       *)
(* finished.  The free-if-reserved guard of the sweep, the unconditional   *)
(* occupied of CreateBooking and the unconditional free of FinishRental    *)
(* keep it so even when restarts and repeated requests mix the cells up.   *)
NoLostCell ==
    \A c \in Cells :
        /\ locker[c] = "reserved" =>
              \E s \in Sessions : session[s].cell = c /\ session[s].status = "selected"
        /\ locker[c] = "occupied" =>
              \E s \in Sessions : session[s].cell = c /\ session[s].status = "active"

(* CreateBooking is all or nothing: a session has a rental id exactly when *)
(* it has been booked, and there is exactly one payment for it, also when  *)
(* the booking is submitted twice or races the sweep.                      *)
BookingIsWhole ==
    /\ \A s \in Sessions :
          /\ session[s].status \in {"active", "closed"} <=> session[s].rental # None
          /\ session[s].status # "none" => session[s].cell # None
          /\ session[s].rental # None =>
                /\ payment[session[s].rental].status # "none"
                /\ payment[session[s].rental].session = s
    /\ \A r \in Rentals :
          payment[r].status # "none" =>
             /\ payment[r].session # None
             /\ session[payment[r].session].rental = r

(* The order of the two WHENs of refreshPaymentStatus: a payment counts as *)
(* paid only if the refresh saw it old enough and not past its expiry, and *)
(* a payment nobody paid has no time of payment while it is pending.       *)
PaidWithinWindow ==
    \A r \in Rentals :
        /\ payment[r].status = "paid" =>
              /\ payment[r].paidAt # None
              /\ payment[r].created + PayDelay <= payment[r].paidAt
              /\ payment[r].paidAt <= payment[r].expires
        /\ payment[r].status = "pending" => payment[r].paidAt = None

(* Nobody is let in without payment: a cell is reported open, and a code   *)
(* granted, only for a paid rental, although the refresh before the answer *)
(* may fail unnoticed and the payment may expire between two statements.   *)
LetInOnlyIfPaid ==
    \A k \in Clients :
        request[k].answer \in {"opened", "granted", "paid"} =>
            /\ request[k].rental # None
            /\ payment[request[k].rental].status = "paid"

(* What the last statements of the handlers rely on: a request that got    *)
(* past its first statement is about a booked rental.                      *)
RequestsAreBooked ==
    \A k \in Clients :
        /\ request[k].at # "answered" =>
              request[k].rental # None /\ request[k].answer = "none"
        /\ request[k].rental # None => payment[request[k].rental].status # "none"

(* A session only moves selected -> active -> closed or selected ->        *)
(* expired, and what a customer was told (cell, rental, code) never        *)
(* changes: a late or repeated booking, a sweep or a restart cannot revive *)
(* an expired selection or expire a rental.                                *)
SessionLifecycle ==
    [][\A s \in Sessions :
          LET old == session[s] new == session'[s]
          IN  /\ <<old.status, new.status>> \in
                    {<<"none", "selected">>, <<"selected", "active">>,
                     <<"selected", "expired">>, <<"active", "closed">>}
                 \/ old.status = new.status
              /\ old.status # "none" => new.cell = old.cell
              /\ old.rental # None => /\ new.rental = old.rental
                                      /\ new.code = old.code]_vars

(* A payment that is paid or expired stays so, with its time of payment:   *)
(* the refresh runs before every answer and must not touch it again.       *)
PaymentFinal ==
    [][\A r \in Rentals :
          payment[r].status \in {"paid", "expired"} => payment'[r] = payment[r]]_vars

(* A check never grants a rental that was closed before the answer, even   *)
(* though it was found active by an earlier statement.                     *)
GrantedWhileActive ==
    [][\A k \in Clients :
          /\ request[k].at # "answered"
          /\ request'[k].answer = "granted"
          => session[payment[request[k].rental].session].status = "active"]_vars

(* The cron job gives every cell that was selected and not booked back: no *)
(* selection stays open for ever.                                          *)
HoldsEnd ==
    \A s \in Sessions : session[s].status = "selected" ~> session[s].status # "selected"

(* What clients see of the tables is the contract of the rental service:   *)
(* sweeps, refreshes that fail unnoticed, repeated requests and restarts   *)
(* never take a selection, a rental or a payment off it.                   *)
rentalOf ==
    [s \in Sessions |->
        [state |-> CASE session[s].status = "selected" -> "held"
                     [] session[s].status = "expired" -> "lapsed"
                     [] session[s].status = "active" -> "rented"
                     [] OTHER -> session[s].status,
         home  |-> IF session[s].cell = None THEN None ELSE LocationOf[session[s].cell],
         pay   |-> IF session[s].rental = None THEN "none"
                   ELSE payment[session[s].rental].status]]

Service == INSTANCE RentalService WITH
               Lockers <- Locations, Ids <- Sessions, rental <- rentalOf

ImplementsService == Service!ServiceSpec

-----------------------------------------------------------------------------
(* Safety when no rental is finished twice and no seeding meets a rental   *)

(* The tables agree: the cell of a selection is reserved, the cell of a    *)
(* rental is occupied, and no two customers have the same cell.            *)
CellLedger ==
    /\ \A s \in Sessions :
          /\ session[s].status = "selected" => locker[session[s].cell] = "reserved"
          /\ session[s].status = "active" => locker[session[s].cell] = "occupied"
    /\ \A s, t \in Sessions :
          Live(s) /\ Live(t) /\ session[s].cell = session[t].cell => s = t

(* The tables implement the abstract allocation of cells.                  *)
useOf == [c \in Cells |-> CASE locker[c] = "reserved" -> "held"
                            [] locker[c] = "occupied" -> "rented"
                            [] OTHER -> "free"]
tenantOf == [c \in Cells |->
                IF \E s \in Sessions : Live(s) /\ session[s].cell = c
                THEN CHOOSE s \in Sessions : Live(s) /\ session[s].cell = c
                ELSE None]
seenBy == {s \in Sessions : session[s].status # "none"}

Allocation == INSTANCE CellAllocation WITH
                  Customers <- Sessions, Nobody <- None,
                  use <- useOf, tenant <- tenantOf, seen <- seenBy

ImplementsAllocation == Allocation!Spec

-----------------------------------------------------------------------------
(* What the domain comments say of an active rental *)

(* "active // вещи внутри" (domain/session_status.go:10): while belongings *)
(* are inside, the cell is not offered to the next customer as free.       *)
BelongingsKeepTheCell ==
    \A s \in Sessions : session[s].status = "active" => locker[session[s].cell] # "free"

(* "closed // забрал вещи" (domain/session_status.go:11): who has taken    *)
(* his belongings out does not open a cell somebody else is using.         *)
OpensOwnCellOnly ==
    [][\A k \in Clients :
          /\ request[k].at # "answered"
          /\ request'[k].answer = "opened"
          => LET mine == payment[request[k].rental].session
             IN  \A s \in Sessions :
                    session[s].status = "active" /\ session[s].cell = session[mine].cell
                    => s = mine]_vars
=============================================================================
