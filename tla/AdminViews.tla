------------------------------ MODULE AdminViews ------------------------------
(***************************************************************************)
(* What the admin panel shows of the rental flow while it goes on: the     *)
(* list of sessions with its total and the card of a cell, as              *)
(* internal/repository/admin_panel_repository.go reads them.  Neither read *)
(* is a transaction: each statement sees the tables of its own moment, and *)
(* customers and administrators are served between two of them.            *)
(***************************************************************************)
EXTENDS AdminPanel

CONSTANTS
    Viewers,    \* reading requests being served at one time
    Filters,    \* what is asked for: statuses, and the limits of started_at
    Limits      \* page sizes that are asked for

ASSUME ViewsAssumption ==
    /\ Limits \subseteq Nat
    /\ IsFiniteSet(Sessions)
    /\ None \notin Filters
    /\ \A filter \in Filters : filter.from = None \/ filter.from \in Int

VARIABLES
    started,    \* started[s]: started_at of a session that exists
    view        \* view[v]: what a reading request has read so far

viewVars == <<panelVars, started, view>>

View == [at      : {"count", "rental", "payment", "events", "answered"},
         filter  : Filters \cup {None},     \* None: no list is asked for
         rows    : SUBSET Sessions,
         total   : 0..Cardinality(Sessions),
         cell    : Cells \cup {None},
         rental  : Rentals \cup {None},
         payment : Rentals \cup {None},
         missed  : BOOLEAN]

NoView == [at |-> "answered", filter |-> None, rows |-> {}, total |-> 0,
           cell |-> None, rental |-> None, payment |-> None, missed |-> FALSE]

ViewsTypeOK ==
    /\ PanelTypeOK
    /\ started \in [Sessions -> Int]
    /\ view \in [Viewers -> View]

ViewsInit ==
    /\ PanelInit
    /\ started = [s \in Sessions |-> 0]
    /\ view = [v \in Viewers |-> NoView]

-----------------------------------------------------------------------------
(* The rental flow writes started_at twice: with the selection, and again  *)
(* with the booking.                                                       *)

Dated ==
    started' = [s \in Sessions |->
                   IF session'[s].status # session[s].status
                      /\ session'[s].status \in {"selected", "active"}
                   THEN AppClock ELSE started[s]]

-----------------------------------------------------------------------------
(* GET /admin/sessions: a page, then the number of all rows that match.    *)
(* Which rows are on the page (ORDER BY started_at) is left open.  The     *)
(* filters by location and cell, which do not change, and by phone, which  *)
(* is written once, with the booking, are left out.                        *)

Matching(filter) ==
    {s \in Sessions :
        /\ session[s].status # "none"
        /\ filter.statuses = None \/ session[s].status \in filter.statuses
        /\ filter.from = None \/ filter.from <= started[s]
        /\ filter.to = None \/ started[s] <= filter.to}

ListSessions(v, filter, limit) ==
    /\ view[v].at = "answered"
    /\ \E rows \in SUBSET Matching(filter) :
        /\ Cardinality(rows) = IF limit < Cardinality(Matching(filter)) THEN limit
                               ELSE Cardinality(Matching(filter))
        /\ view' = [view EXCEPT ![v] =
                       [NoView EXCEPT !.at = "count", !.filter = filter, !.rows = rows]]
    /\ UNCHANGED panelVars

CountSessions(v) ==
    /\ view[v].at = "count"
    /\ view' = [view EXCEPT ![v] =
                   [@ EXCEPT !.at = "answered",
                             !.total = Cardinality(Matching(view[v].filter))]]
    /\ UNCHANGED panelVars

-----------------------------------------------------------------------------
(* GET /admin/lockers/{id}: the cell, its active rental, the last payment  *)
(* of the cell, its events.  Errors of the second and the third statement  *)
(* are dropped, and the card is shown without what they would have read.   *)

GetLockerDetail(v, c) ==
    /\ view[v].at = "answered"
    /\ view' = [view EXCEPT ![v] = [NoView EXCEPT !.at = "rental", !.cell = c]]
    /\ UNCHANGED panelVars

RentalsOf(c) == {s \in Sessions : session[s].status = "active" /\ session[s].cell = c}

ReadActiveRental(v) ==
    /\ view[v].at = "rental"
    /\ \/ \E s \in RentalsOf(view[v].cell) :
             view' = [view EXCEPT ![v] =
                         [@ EXCEPT !.at = "payment", !.rental = session[s].rental]]
       \/ /\ RentalsOf(view[v].cell) = {}
          /\ view' = [view EXCEPT ![v].at = "payment"]
       \/ view' = [view EXCEPT ![v] = [@ EXCEPT !.at = "payment", !.missed = TRUE]]
    /\ UNCHANGED panelVars

\* ORDER BY created_at that forgets DESC.
FirstPayments(c) ==
    LET ofCell == {r \in Rentals : payment[r].status # "none"
                                   /\ session[payment[r].session].cell = c}
    IN  {r \in ofCell : \A q \in ofCell : payment[r].created <= payment[q].created}

LastPayments(c) ==
    LET ofCell == {r \in Rentals : payment[r].status # "none"
                                   /\ session[payment[r].session].cell = c}
    IN  {r \in ofCell : \A q \in ofCell : payment[q].created <= payment[r].created}

ReadLastPayment(v) ==
    /\ view[v].at = "payment"
    /\ \/ \E r \in LastPayments(view[v].cell) :
             view' = [view EXCEPT ![v] = [@ EXCEPT !.at = "events", !.payment = r]]
       \/ /\ LastPayments(view[v].cell) = {}
          /\ view' = [view EXCEPT ![v].at = "events"]
       \/ view' = [view EXCEPT ![v] = [@ EXCEPT !.at = "events", !.missed = TRUE]]
    /\ UNCHANGED panelVars

\* The events themselves are not kept; their error is not dropped.
ReadEvents(v) ==
    /\ view[v].at = "events"
    /\ view' = [view EXCEPT ![v].at = "answered"]
    /\ UNCHANGED panelVars

(* A statement whose error is not dropped fails, or the request is cancelled. *)
ViewDies(v) ==
    /\ view[v].at # "answered"
    /\ view' = [view EXCEPT ![v] = NoView]
    /\ UNCHANGED panelVars

ViewNext ==
    \E v \in Viewers :
        \/ \E filter \in Filters, limit \in Limits : ListSessions(v, filter, limit)
        \/ CountSessions(v)
        \/ \E c \in Cells : GetLockerDetail(v, c)
        \/ ReadActiveRental(v)
        \/ ReadLastPayment(v)
        \/ ReadEvents(v)
        \/ ViewDies(v)

ViewsNext ==
    \/ PanelNext /\ Dated /\ UNCHANGED view
    \/ ViewNext /\ UNCHANGED started

ViewsSpec == ViewsInit /\ [][ViewsNext]_viewVars

-----------------------------------------------------------------------------
(* What a reader of the panel may conclude *)

(* What matches such a filter goes on matching: all sessions, of whatever  *)
(* beginning but without an end to it, or sessions that are over.          *)
Steady(filter) ==
    IF filter.statuses = None THEN filter.to = None
    ELSE filter.statuses \subseteq {"closed", "expired"}

(* A list of all sessions, from some moment on or ever, and a list of      *)
(* sessions that are over, whatever the limits, is never longer than its   *)
(* own total, although the total is counted later: sessions are not        *)
(* deleted, one that is over stays what it is, and started_at is only      *)
(* moved forward.  (A list of selected or active sessions may well be      *)
(* longer, and so may a list of all sessions up to some moment: a booking  *)
(* between the two statements moves its session out of it.)                *)
PageWithinTotal ==
    \A v \in Viewers :
        view[v].at = "answered" /\ view[v].filter # None /\ Steady(view[v].filter)
        => Cardinality(view[v].rows) <= view[v].total

(* The card never shows an active rental with a payment older than its     *)
(* own, and shows one without a payment only when an error was dropped: a  *)
(* booking commits the rental and its payment together, and payments are   *)
(* read after rentals.                                                     *)
CardInOrder ==
    \A v \in Viewers :
        view[v].at \in {"events", "answered"} /\ view[v].rental # None =>
            IF view[v].payment = None THEN view[v].missed
            ELSE payment[view[v].rental].created <= payment[view[v].payment].created
=============================================================================
