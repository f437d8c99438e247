-------------------------- MODULE AdminPanelProofs --------------------------
(***************************************************************************)
(* What administrators cannot break, for any number of them, whatever they *)
(* ask for and wherever their requests are interrupted.                    *)
(***************************************************************************)
EXTENDS AdminViews, RentalFlowProofs, FiniteSetTheorems, WellFoundedInduction

-----------------------------------------------------------------------------
(* Types *)

(* The request being served names a cell, and a status while it is going   *)
(* to write one.                                                           *)
DeskIsAddressed ==
    \A a \in Admins :
        /\ desk[a].at # "answered" => desk[a].cell \in Cells
        /\ desk[a].at \in {"count", "write"} => desk[a].target \in Targets

(* What one step may do with the tables of the rental flow: a step of the  *)
(* rental flow, the write of one status, or nothing.                       *)
LEMMA PanelStep ==
    ASSUME [PanelNext]_panelVars
    PROVE  \/ [Next]_vars /\ UNCHANGED <<desk, commands>>
           \/ \E a \in Admins : WriteStatus(a)
           \/ AdminNext /\ UNCHANGED vars
<1>1. CASE RentalNext
  BY <1>1 DEF RentalNext
<1>2. CASE AdminNext
  BY <1>2 DEF AdminNext, UpdateLockerStatus, CountActive, ManualOpenLocker, IssueCommand,
              LogEvent, LogAudit, DeskDies
<1>3. CASE UNCHANGED panelVars
  BY <1>3 DEF panelVars, vars
<1>. QED  BY <1>1, <1>2, <1>3 DEF PanelNext

(* The request of an administrator keeps its type and stays addressed.     *)
LEMMA DeskKept ==
    PanelTypeOK /\ DeskIsAddressed /\ [PanelNext]_panelVars =>
        /\ desk' \in [Admins -> Desk]
        /\ commands' \subseteq Cells
        /\ DeskIsAddressed'
<1>. SUFFICES ASSUME PanelTypeOK, DeskIsAddressed, [PanelNext]_panelVars
              PROVE  /\ desk' \in [Admins -> Desk]
                     /\ commands' \subseteq Cells
                     /\ DeskIsAddressed'
  OBVIOUS
<1>. USE TargetsAssumption DEF PanelTypeOK, DeskIsAddressed
<1>1. \A a \in Admins : desk[a] \in Desk
  OBVIOUS
<1>2. \A c \in Cells : locker[c] \in CellStatus
  BY DEF TypeOK
\* A request that is replaced by a row of the right kind.
<1>3. ASSUME NEW a \in Admins, NEW row \in Desk, desk' = [desk EXCEPT ![a] = row],
             row.at # "answered" => row.cell \in Cells,
             row.at \in {"count", "write"} => row.target \in Targets
      PROVE  desk' \in [Admins -> Desk] /\ DeskIsAddressed'
  BY <1>1, <1>3
<1>4. ASSUME NEW a \in Admins, NEW c \in Cells, NEW st \in Targets,
             UpdateLockerStatus(a, c, st)
      PROVE  desk' \in [Admins -> Desk] /\ commands' \subseteq Cells /\ DeskIsAddressed'
  <2>. DEFINE row == [at |-> IF st \in {"free", "maintenance"} THEN "count" ELSE "write",
                      cell |-> c, target |-> st, prev |-> locker[c],
                      answer |-> "none", overtaken |-> FALSE]
  <2>1. row \in Desk
    BY <1>2 DEF Desk
  <2>. QED  BY <1>3, <1>4, <2>1 DEF UpdateLockerStatus
<1>5. ASSUME NEW a \in Admins, CountActive(a)
      PROVE  desk' \in [Admins -> Desk] /\ commands' \subseteq Cells /\ DeskIsAddressed'
  BY <1>1, <1>5 DEF CountActive, Desk
<1>6. ASSUME NEW a \in Admins, WriteStatus(a)
      PROVE  desk' \in [Admins -> Desk] /\ commands' \subseteq Cells /\ DeskIsAddressed'
  <2>1. \A b \in Admins :
           /\ [desk[b] EXCEPT !.at = "event"] \in Desk
           /\ \A o \in BOOLEAN : [desk[b] EXCEPT !.overtaken = o] \in Desk
    BY <1>1 DEF Desk
  <2>2. \A b \in Admins : desk[b].overtaken \in BOOLEAN
    BY <1>1 DEF Desk
  <2>3. ASSUME NEW b \in Admins
        PROVE  /\ Written(a)[b] \in Desk
               /\ Written(a)[b].cell = desk[b].cell /\ Written(a)[b].target = desk[b].target
               /\ Written(a)[b].at \in {"event", desk[b].at}
               /\ b # a => Written(a)[b].at = desk[b].at
               /\ desk[a].at = "write"
    <3>. DEFINE o == desk[b].overtaken \/ (desk[b].at = "command" /\ desk[b].cell = desk[a].cell)
    <3>1. o \in BOOLEAN /\ desk[a].at = "write"
      BY <1>6, <2>2 DEF WriteStatus
    <3>2. Written(a)[b] = IF b = a THEN [desk[b] EXCEPT !.at = "event"]
                          ELSE [desk[b] EXCEPT !.overtaken = o]
      BY DEF Written
    <3>. HIDE DEF o
    <3>. QED  BY <1>1, <2>1, <3>1, <3>2 DEF Desk
  <2>4. desk' = Written(a) /\ DOMAIN Written(a) = Admins /\ UNCHANGED commands
    BY <1>6 DEF WriteStatus, Written
  <2>5. desk' \in [Admins -> Desk]
    BY <2>3, <2>4 DEF Written
  <2>. QED  BY <1>1, <2>3, <2>4, <2>5
<1>7. ASSUME NEW a \in Admins, NEW c \in Cells, ManualOpenLocker(a, c)
      PROVE  desk' \in [Admins -> Desk] /\ commands' \subseteq Cells /\ DeskIsAddressed'
  <2>. DEFINE row == [at |-> "command", cell |-> c, target |-> None,
                      prev |-> locker[c], answer |-> "none", overtaken |-> FALSE]
  <2>1. row \in Desk /\ [row EXCEPT !.at = "answered", !.answer = "not_functional"] \in Desk
    BY <1>2 DEF Desk
  <2>. QED  BY <1>3, <1>7, <2>1 DEF ManualOpenLocker
<1>8. ASSUME NEW a \in Admins, IssueCommand(a)
      PROVE  desk' \in [Admins -> Desk] /\ commands' \subseteq Cells /\ DeskIsAddressed'
  <2>. DEFINE row == [desk[a] EXCEPT !.at = "event", !.overtaken = FALSE]
  <2>1. row \in Desk /\ row.at = "event" /\ row.cell = desk[a].cell
    BY <1>1 DEF Desk
  <2>2. desk' = [desk EXCEPT ![a] = row] /\ desk[a].at = "command"
    BY <1>1, <1>8 DEF IssueCommand
  <2>. QED  BY <1>1, <1>3, <1>8, <2>1, <2>2 DEF IssueCommand
<1>9. ASSUME NEW a \in Admins, LogEvent(a)
      PROVE  desk' \in [Admins -> Desk] /\ commands' \subseteq Cells /\ DeskIsAddressed'
  BY <1>1, <1>9 DEF LogEvent, Desk
<1>10. ASSUME NEW a \in Admins, LogAudit(a)
       PROVE  desk' \in [Admins -> Desk] /\ commands' \subseteq Cells /\ DeskIsAddressed'
  <2>. DEFINE row == [desk[a] EXCEPT !.at = "answered", !.answer = "done"]
  <2>1. row \in Desk /\ row.at = "answered"
    BY <1>1 DEF Desk
  <2>2. desk' = [desk EXCEPT ![a] = row]
    BY <1>1, <1>10 DEF LogAudit
  <2>. QED  BY <1>3, <1>10, <2>1, <2>2 DEF LogAudit
<1>11. ASSUME NEW a \in Admins, DeskDies(a)
       PROVE  desk' \in [Admins -> Desk] /\ commands' \subseteq Cells /\ DeskIsAddressed'
  <2>1. NoDesk \in Desk /\ NoDesk.at = "answered"
    BY DEF NoDesk, Desk
  <2>. QED  BY <1>3, <1>11, <2>1 DEF DeskDies
<1>12. CASE UNCHANGED <<desk, commands>>
  BY <1>12
<1>. QED
  BY <1>4, <1>5, <1>6, <1>7, <1>8, <1>9, <1>10, <1>11, <1>12
  DEF PanelNext, RentalNext, AdminNext, panelVars

-----------------------------------------------------------------------------
(* The rental flow beside the panel *)

(* Inductive whatever administrators write: they touch lockers alone, and  *)
(* none of these conjuncts reads the status of a cell.                     *)
PanelInv ==
    /\ PanelTypeOK
    /\ DeskIsAddressed
    /\ BookingIsWhole
    /\ RequestsAreBooked

LEMMA PanelInvKept == PanelInv /\ [PanelNext]_panelVars => PanelInv'
<1>. SUFFICES ASSUME PanelInv, [PanelNext]_panelVars
              PROVE  TypeOK' /\ BookingIsWhole' /\ RequestsAreBooked'
  BY DeskKept DEF PanelInv, PanelTypeOK
<1>1. CASE [Next]_vars
  BY <1>1, TypesKept, BookingIsWholeKept, RequestsAreBookedKept DEF PanelInv, PanelTypeOK
<1>2. ASSUME NEW a \in Admins, WriteStatus(a)
      PROVE  TypeOK' /\ BookingIsWhole' /\ RequestsAreBooked'
  <2>1. desk[a].target \in CellStatus
    BY <1>2, TargetsAssumption DEF PanelInv, DeskIsAddressed, WriteStatus
  <2>2. TypeOK'
    BY <1>2, <2>1 DEF PanelInv, PanelTypeOK, TypeOK, WriteStatus
  <2>3. BookingIsWhole' /\ RequestsAreBooked'
    BY <1>2 DEF PanelInv, WriteStatus, BookingIsWhole, RequestsAreBooked
  <2>. QED  BY <2>2, <2>3
<1>3. CASE UNCHANGED vars
  BY <1>3 DEF vars, PanelInv, PanelTypeOK, TypeOK, BookingIsWhole, RequestsAreBooked
<1>. QED  BY <1>1, <1>2, <1>3, PanelStep

LEMMA PanelInvStart == PanelInit => PanelInv
<1>1. Init => TypeOK /\ BookingIsWhole /\ RequestsAreBooked
  <2>1. Init => TypeOK
    BY TimesAssumption
    DEF Init, TypeOK, CellStatus, NoSession, SessionRow, NoPayment, PaymentRow,
        Idle, Request, Answers
  <2>. QED  BY <2>1 DEF Init, BookingIsWhole, RequestsAreBooked, NoSession, NoPayment, Idle
<1>. QED  BY <1>1 DEF PanelInit, PanelInv, PanelTypeOK, DeskIsAddressed, NoDesk, Desk

(* What the rental flow and the panel keep together, for any number of     *)
(* customers and administrators.                                           *)
THEOREM PanelInvariant == PanelSpec => []PanelInv
BY PanelInvStart, PanelInvKept, PTL DEF PanelSpec

(* The panel and the rental flow keep the types of everything they store.  *)
THEOREM PanelTypeCorrect == PanelSpec => []PanelTypeOK
<1>1. PanelInv => PanelTypeOK
  BY DEF PanelInv
<1>. QED  BY <1>1, PanelInvariant, PTL

(* Whatever statuses administrators write, and whenever, no session is     *)
(* taken off its life cycle and no customer's cell, rental or code is      *)
(* changed.                                                                *)
THEOREM SessionsSurviveAdmins == PanelSpec => SessionLifecycle
<1>. DEFINE Course ==
       \A s \in Sessions :
          LET old == session[s] new == session'[s]
          IN  /\ <<old.status, new.status>> \in
                    {<<"none", "selected">>, <<"selected", "active">>,
                     <<"selected", "expired">>, <<"active", "closed">>}
                 \/ old.status = new.status
              /\ old.status # "none" => new.cell = old.cell
              /\ old.rental # None => /\ new.rental = old.rental
                                      /\ new.code = old.code
<1>1. PanelInv /\ [PanelNext]_panelVars => [Course]_vars
  <2>. SUFFICES ASSUME PanelInv, [PanelNext]_panelVars
                PROVE  Course \/ UNCHANGED vars
    OBVIOUS
  <2>1. CASE [Next]_vars
    BY <2>1, SessionStep DEF PanelInv, PanelTypeOK
  <2>2. CASE UNCHANGED session
    BY <2>2
  <2>. QED  BY <2>1, <2>2, PanelStep DEF WriteStatus, vars
<1>. QED  BY <1>1, PanelInvariant, PTL DEF PanelSpec, SessionLifecycle

-----------------------------------------------------------------------------
(* Cells taken out of use *)

(* What a step of the rental flow does to the cells of its customers,      *)
(* whatever administrators made of the status of cells before: a selection *)
(* takes a free cell, which has no customer, and a free status is written  *)
(* only for a cell whose one customer is leaving.                          *)
LEMMA SharingKeptByRentals ==
    ASSUME Faults = {}
    PROVE  TypeOK /\ BookingIsWhole /\ NobodySharesACell /\ [Next]_vars => NobodySharesACell'
<1>. SUFFICES ASSUME TypeOK, BookingIsWhole, NobodySharesACell, [Next]_vars
              PROVE  NobodySharesACell'
  OBVIOUS
<1>. DEFINE Lives(r) == r.status \in {"selected", "active"}
            InCell(s, S, L) == Lives(S[s]) => L[S[s].cell] # "free"
            Apart(s, t, S) == Lives(S[s]) /\ Lives(S[t]) /\ S[s].cell = S[t].cell => s = t
<1>0. /\ \A s \in Sessions : session[s] \in SessionRow
      /\ \A s \in Sessions : InCell(s, session, locker)
      /\ \A s, t \in Sessions : Apart(s, t, session)
      /\ \A s \in Sessions : Lives(session[s]) => session[s].cell \in Cells
  BY DEF TypeOK, NobodySharesACell, Live, BookingIsWhole, SessionRow
<1>1. ASSUME \A s \in Sessions : InCell(s, session', locker'),
             \A s, t \in Sessions : Apart(s, t, session')
      PROVE  NobodySharesACell'
  BY <1>1 DEF NobodySharesACell, Live
<1>2. ASSUME NEW s \in Sessions, Lives(SweptSessions[s])
      PROVE  /\ SweptSessions[s] = session[s]
             /\ SweptLockers[session[s].cell] = locker[session[s].cell]
  <2>1. s \notin Lapsed /\ SweptSessions[s] = session[s]
    BY <1>0, <1>2, SweepKeeps DEF SweptSessions
  <2>2. \A t \in Lapsed : session[t].cell # session[s].cell
    BY <1>0, <1>2, <2>1 DEF Lapsed
  <2>. QED  BY <1>0, <1>2, <2>1, <2>2 DEF SweptLockers
<1>3. CASE session' = SweptSessions /\ locker' = SweptLockers
  <2>1. \A s \in Sessions : InCell(s, session', locker')
    BY <1>0, <1>2, <1>3
  <2>2. \A s, t \in Sessions : Apart(s, t, session')
    BY <1>0, <1>2, <1>3
  <2>. QED  BY <1>1, <2>1, <2>2
<1>4. ASSUME NEW t \in Sessions, NEW l \in Locations, NEW z \in Sizes,
             CreateCellSelection(t, l, z)
      PROVE  NobodySharesACell'
  <2>1. PICK d \in Cells :
            /\ SweptLockers[d] = "free"
            /\ session' = [SweptSessions EXCEPT ![t] =
                              [status |-> "selected", cell |-> d,
                               hold |-> AppClock + HoldTTL,
                               rental |-> None, code |-> None]]
            /\ locker' = [SweptLockers EXCEPT ![d] = "reserved"]
    BY <1>4 DEF CreateCellSelection, Selectable
  <2>2. /\ Lives(session'[t]) /\ session'[t].cell = d /\ locker'[d] = "reserved"
        /\ \A s \in Sessions : s # t => session'[s] = SweptSessions[s]
        /\ \A c \in Cells : c # d => locker'[c] = SweptLockers[c]
    BY <2>1, SweepTypes
  <2>3. ASSUME NEW s \in Sessions, s # t, Lives(session'[s])
        PROVE  /\ session'[s] = session[s]
               /\ session[s].cell # d
               /\ locker'[session[s].cell] = locker[session[s].cell]
    <3>1. session'[s] = session[s] /\ SweptLockers[session[s].cell] = locker[session[s].cell]
      BY <1>2, <2>2, <2>3
    <3>2. locker[session[s].cell] # "free" /\ session[s].cell \in Cells
      BY <1>0, <2>3, <3>1
    <3>. QED  BY <2>1, <2>2, <3>1, <3>2
  <2>4. \A s \in Sessions : InCell(s, session', locker')
    BY <1>0, <2>2, <2>3
  <2>5. \A s, u \in Sessions : Apart(s, u, session')
    <3>. SUFFICES ASSUME NEW s \in Sessions, NEW u \in Sessions
                  PROVE  Apart(s, u, session')
      OBVIOUS
    <3>1. Apart(s, u, session)
      BY <1>0
    <3>. QED  BY <2>2, <2>3, <3>1
  <2>. QED  BY <1>1, <2>4, <2>5
\* The customer of a cell books it or leaves it.
<1>5. ASSUME NEW t \in Sessions, NEW S1 \in {"active", "closed"},
             NEW L1 \in {"occupied", "free"},
             Lives(session[t]),
             session'[t].status = S1, session'[t].cell = session[t].cell,
             \A s \in Sessions : s # t => session'[s] = session[s],
             locker' = [locker EXCEPT ![session[t].cell] = L1],
             S1 = "active" => L1 = "occupied"
      PROVE  NobodySharesACell'
  <2>1. ASSUME NEW s \in Sessions, s # t, Lives(session'[s])
        PROVE  session'[s] = session[s] /\ session[s].cell # session[t].cell
               /\ locker'[session[s].cell] = locker[session[s].cell]
    BY <1>0, <1>5, <2>1
  <2>2. locker'[session[t].cell] = L1
    BY <1>0, <1>5 DEF TypeOK
  <2>3. \A s \in Sessions : InCell(s, session', locker')
    BY <1>0, <1>5, <2>1, <2>2
  <2>4. \A s, u \in Sessions : Apart(s, u, session')
    <3>. SUFFICES ASSUME NEW s \in Sessions, NEW u \in Sessions
                  PROVE  Apart(s, u, session')
      OBVIOUS
    <3>1. Apart(s, u, session)
      BY <1>0
    <3>. QED  BY <1>5, <2>1, <3>1
  <2>. QED  BY <1>1, <2>3, <2>4
<1>6. ASSUME NEW s \in Sessions, NEW l \in Locations, NEW r \in Rentals,
             NEW code \in Codes, CreateBooking(s, l, r, code)
      PROVE  NobodySharesACell'
  <2>1. /\ Lives(session[s])
        /\ session'[s].status = "active" /\ session'[s].cell = session[s].cell
        /\ \A t \in Sessions : t # s => session'[t] = session[t]
        /\ locker' = [locker EXCEPT ![session[s].cell] = "occupied"]
    BY <1>0, <1>6 DEF CreateBooking, Bookable, TypeOK, SessionRow
  <2>. QED  BY <1>5, <2>1
<1>7. ASSUME NEW r \in Rentals, NEW s \in Sessions, FinishRental(r, s)
      PROVE  NobodySharesACell'
  <2>1. /\ Lives(session[s])
        /\ session'[s].status = "closed" /\ session'[s].cell = session[s].cell
        /\ \A t \in Sessions : t # s => session'[t] = session[t]
        /\ locker' = [locker EXCEPT ![session[s].cell] = "free"]
    BY <1>0, <1>7 DEF FinishRental, TypeOK, SessionRow
  <2>. QED  BY <1>5, <2>1
<1>8. CASE UNCHANGED <<session, locker>>
  BY <1>8 DEF NobodySharesACell, Live
<1>. QED
  BY <1>3, <1>4, <1>6, <1>7, <1>8, CellWriters
  DEF CleanupExpiredSelections, EnsureDemoData

(* Any number of administrators may take cells out of use in the middle of *)
(* selections, bookings and rentals: as long as they put none back, nobody *)
(* is given a cell that has a customer.                                    *)
THEOREM CellsPutAsideAreNotShared ==
    ASSUME Faults = {}, Targets \subseteq OutOfUse
    PROVE  PanelSpec => []NobodySharesACell
<1>1. PanelInit => NobodySharesACell
  BY DEF PanelInit, Init, NobodySharesACell, Live, NoSession
<1>2. PanelInv /\ NobodySharesACell /\ [PanelNext]_panelVars => NobodySharesACell'
  <2>. SUFFICES ASSUME PanelInv, NobodySharesACell, [PanelNext]_panelVars
                PROVE  NobodySharesACell'
    OBVIOUS
  <2>1. CASE [Next]_vars
    BY <2>1, SharingKeptByRentals DEF PanelInv, PanelTypeOK
  <2>2. ASSUME NEW a \in Admins, WriteStatus(a)
        PROVE  NobodySharesACell'
    <3>1. desk[a].target # "free"
      BY <2>2 DEF PanelInv, DeskIsAddressed, WriteStatus, OutOfUse
    <3>2. \A c \in Cells : locker[c] # "free" => locker'[c] # "free"
      BY <2>2, <3>1 DEF WriteStatus, PanelInv, PanelTypeOK, TypeOK
    <3>3. \A s \in Sessions : Live(s) => session[s].cell \in Cells
      BY DEF PanelInv, PanelTypeOK, TypeOK, BookingIsWhole, SessionRow, Live
    <3>. QED  BY <2>2, <3>2, <3>3 DEF WriteStatus, NobodySharesACell, Live
  <2>3. CASE UNCHANGED vars
    BY <2>3 DEF vars, NobodySharesACell, Live
  <2>. QED  BY <2>1, <2>2, <2>3, PanelStep
<1>. QED  BY <1>1, <1>2, PanelInvariant, PTL DEF PanelSpec

(* In particular no cell is handed out twice: the documented promise holds *)
(* unless an administrator sets a cell free.                               *)
THEOREM OneRentalUnlessFreed ==
    ASSUME Faults = {}, Targets \subseteq OutOfUse
    PROVE  PanelSpec => []OneRentalPerCell
<1>1. NobodySharesACell => OneRentalPerCell
  BY DEF NobodySharesACell, OneRentalPerCell, Live
<1>. QED  BY <1>1, CellsPutAsideAreNotShared, PTL

(* What a step of the rental flow makes of a cell that is out of use: the  *)
(* sweep frees reserved cells only and a selection takes free ones.        *)
LEMMA WhoTakesBack ==
    ASSUME TypeOK, BookingIsWhole, "repeat_finish" \notin Faults, [Next]_vars,
           NEW c \in Cells, locker[c] \in OutOfUse, locker'[c] # locker[c]
    PROVE  \/ \E s \in Sessions :
                 /\ session[s].cell = c
                 /\ <<session[s].status, session'[s].status>> \in
                       {<<"selected", "active">>, <<"active", "closed">>}
           \/ "restart" \in Faults /\ c \in SeededCells /\ session' = session
<1>0. \A s \in Sessions : session[s] \in SessionRow
  BY DEF TypeOK
<1>1. SweptLockers[c] = locker[c] /\ SweptLockers \in [Cells -> CellStatus]
  BY SweepTypes DEF SweptLockers, OutOfUse
<1>2. ASSUME CleanupExpiredSelections PROVE FALSE
  BY <1>1, <1>2 DEF CleanupExpiredSelections
<1>3. ASSUME NEW t \in Sessions, NEW l \in Locations, NEW z \in Sizes,
             CreateCellSelection(t, l, z)
      PROVE  FALSE
  <2>1. PICK d \in Cells : SweptLockers[d] = "free"
                           /\ locker' = [SweptLockers EXCEPT ![d] = "reserved"]
    BY <1>3 DEF CreateCellSelection, Selectable
  <2>2. d # c
    BY <1>1, <2>1 DEF OutOfUse
  <2>. QED  BY <1>1, <2>1, <2>2
<1>4. ASSUME NEW s \in Sessions, NEW l \in Locations, NEW r \in Rentals,
             NEW code \in Codes, CreateBooking(s, l, r, code)
      PROVE  /\ session[s].cell = c
             /\ session[s].status = "selected" /\ session'[s].status = "active"
  BY <1>0, <1>4 DEF CreateBooking, Bookable, TypeOK, SessionRow
<1>5. ASSUME NEW r \in Rentals, NEW s \in Sessions, FinishRental(r, s)
      PROVE  /\ session[s].cell = c
             /\ session[s].status = "active" /\ session'[s].status = "closed"
  BY <1>0, <1>5 DEF FinishRental, TypeOK, SessionRow
<1>6. ASSUME NEW d \in SeededCells, EnsureDemoData(d)
      PROVE  "restart" \in Faults /\ c \in SeededCells /\ session' = session
  BY <1>6 DEF EnsureDemoData, TypeOK
<1>. QED  BY <1>2, <1>3, <1>4, <1>5, <1>6, CellWriters

(* A cell that was taken out of use comes back by a request about that     *)
(* cell, by the customer who had it, or by the seeding, provided a rental  *)
(* is finished once: a second request frees the cell whatever it is.       *)
THEOREM CellsPutAsideStayAside ==
    ASSUME "repeat_finish" \notin Faults
    PROVE  PanelSpec => OutOfUseStays
<1>1. PanelInv /\ [PanelNext]_panelVars =>
         [\A c \in Cells :
             locker[c] \in OutOfUse /\ locker'[c] # locker[c] =>
                \/ \E a \in Admins : desk[a].at = "write" /\ desk[a].cell = c
                \/ \E s \in Sessions :
                      /\ session[s].cell = c
                      /\ <<session[s].status, session'[s].status>> \in
                            {<<"selected", "active">>, <<"active", "closed">>}
                \/ "restart" \in Faults /\ c \in SeededCells /\ session' = session]_panelVars
  <2>. SUFFICES ASSUME PanelInv, [PanelNext]_panelVars, NEW c \in Cells,
                       locker[c] \in OutOfUse, locker'[c] # locker[c]
                PROVE  \/ \E a \in Admins : desk[a].at = "write" /\ desk[a].cell = c
                       \/ \E s \in Sessions :
                             /\ session[s].cell = c
                             /\ <<session[s].status, session'[s].status>> \in
                                   {<<"selected", "active">>, <<"active", "closed">>}
                       \/ "restart" \in Faults /\ c \in SeededCells /\ session' = session
    OBVIOUS
  <2>1. CASE [Next]_vars
    BY <2>1, WhoTakesBack DEF PanelInv, PanelTypeOK
  <2>2. ASSUME NEW a \in Admins, WriteStatus(a)
        PROVE  desk[a].at = "write" /\ desk[a].cell = c
    BY <2>2 DEF WriteStatus, PanelInv, PanelTypeOK, TypeOK
  <2>3. CASE UNCHANGED vars
    BY <2>3 DEF vars
  <2>. QED  BY <2>1, <2>2, <2>3, PanelStep
<1>. QED  BY <1>1, PanelInvariant, PTL DEF PanelSpec, OutOfUseStays

-----------------------------------------------------------------------------
(* Commands to open a lock *)

(* No step of the rental flow puts a cell out of use. *)
LEMMA RentalsPutNothingAside ==
    ASSUME TypeOK, [Next]_vars, NEW c \in Cells, locker[c] \notin OutOfUse
    PROVE  locker'[c] \notin OutOfUse
<1>1. SweptLockers[c] \in {locker[c], "free"} /\ SweptLockers \in [Cells -> CellStatus]
  BY SweepTypes DEF SweptLockers
<1>. QED
  BY <1>1, CellWriters
  DEF CleanupExpiredSelections, CreateCellSelection, CreateBooking, FinishRental,
      EnsureDemoData, OutOfUse, TypeOK

(* An administrator about to send a command is told of a cell in use, or   *)
(* another has written its status since.                                   *)
CommandsInTime ==
    \A a \in Admins :
        desk[a].at = "command" => locker[desk[a].cell] \notin OutOfUse \/ desk[a].overtaken

LEMMA CommandsInTimeKept ==
    PanelInv /\ CommandsInTime /\ [PanelNext]_panelVars => CommandsInTime'
<1>. SUFFICES ASSUME PanelInv, CommandsInTime, [PanelNext]_panelVars,
                     NEW b \in Admins, desk'[b].at = "command"
              PROVE  locker'[desk'[b].cell] \notin OutOfUse \/ desk'[b].overtaken
  BY DEF CommandsInTime
<1>0. /\ desk \in [Admins -> Desk] /\ locker \in [Cells -> CellStatus]
      /\ desk[b].at = "command" =>
            /\ desk[b].cell \in Cells
            /\ locker[desk[b].cell] \notin OutOfUse \/ desk[b].overtaken
  BY DEF PanelInv, PanelTypeOK, TypeOK, DeskIsAddressed, CommandsInTime
\* Customers are served, or somebody else.
<1>1. ASSUME [Next]_vars, desk'[b] = desk[b]
      PROVE  locker'[desk'[b].cell] \notin OutOfUse \/ desk'[b].overtaken
  BY <1>0, <1>1, RentalsPutNothingAside DEF PanelInv, PanelTypeOK
<1>2. ASSUME NEW a \in Admins, WriteStatus(a)
      PROVE  locker'[desk'[b].cell] \notin OutOfUse \/ desk'[b].overtaken
  <2>1. b # a
    BY <1>0, <1>2 DEF WriteStatus, Written, Desk
  <2>2. /\ desk'[b].at = desk[b].at /\ desk'[b].cell = desk[b].cell
        /\ desk'[b].overtaken = (desk[b].overtaken
                                  \/ (desk[b].at = "command" /\ desk[b].cell = desk[a].cell))
    BY <1>0, <1>2, <2>1 DEF WriteStatus, Written, Desk
  <2>3. CASE desk[b].cell = desk[a].cell
    BY <2>2, <2>3
  <2>4. CASE desk[b].cell # desk[a].cell
    BY <1>0, <1>2, <2>2, <2>4 DEF WriteStatus
  <2>. QED  BY <2>3, <2>4
<1>3. ASSUME NEW a \in Admins, NEW c \in Cells, ManualOpenLocker(a, c)
      PROVE  locker'[desk'[b].cell] \notin OutOfUse \/ desk'[b].overtaken
  <2>. DEFINE row == [at |-> "command", cell |-> c, target |-> None,
                      prev |-> locker[c], answer |-> "none", overtaken |-> FALSE]
              refused == [row EXCEPT !.at = "answered", !.answer = "not_functional"]
  <2>1. refused.at = "answered" /\ row.cell = c
    OBVIOUS
  <2>2. /\ \/ desk' = [desk EXCEPT ![a] = refused]
           \/ locker[c] \notin OutOfUse /\ desk' = [desk EXCEPT ![a] = row]
        /\ UNCHANGED locker
    BY <1>3 DEF ManualOpenLocker, vars
  <2>. HIDE DEF row, refused
  <2>. QED  BY <1>0, <2>1, <2>2
<1>4. ASSUME NEW a \in Admins,
             \/ \E c \in Cells, st \in Targets : UpdateLockerStatus(a, c, st)
             \/ CountActive(a) \/ IssueCommand(a) \/ LogEvent(a) \/ LogAudit(a)
             \/ DeskDies(a)
      PROVE  [Next]_vars /\ desk'[b] = desk[b]
  <2>1. UNCHANGED vars
    BY <1>4
    DEF UpdateLockerStatus, CountActive, IssueCommand, LogEvent, LogAudit, DeskDies
  <2>2. b = a => desk'[b].at # "command"
    <3>1. CASE IssueCommand(a)
      <4>. DEFINE row == [desk[a] EXCEPT !.at = "event", !.overtaken = FALSE]
      <4>1. row.at = "event" /\ desk' = [desk EXCEPT ![a] = row]
        BY <1>0, <3>1 DEF IssueCommand, Desk
      <4>. QED  BY <1>0, <4>1
    <3>2. CASE DeskDies(a)
      BY <1>0, <3>2 DEF DeskDies, NoDesk
    <3>. QED
      BY <1>0, <1>4, <3>1, <3>2
      DEF UpdateLockerStatus, CountActive, LogEvent, LogAudit, Desk
  <2>3. b # a => desk'[b] = desk[b]
    BY <1>0, <1>4
    DEF UpdateLockerStatus, CountActive, IssueCommand, LogEvent, LogAudit, DeskDies
  <2>. QED  BY <2>1, <2>2, <2>3
<1>5. CASE RentalNext
  BY <1>1, <1>5 DEF RentalNext
<1>6. CASE UNCHANGED panelVars
  BY <1>1, <1>6 DEF panelVars, vars
<1>. QED  BY <1>1, <1>2, <1>3, <1>4, <1>5, <1>6 DEF PanelNext, AdminNext

(* Whatever customers, sweeps and starting instances do between the look   *)
(* at a cell and the command to open it, the cell is in use when the       *)
(* command is written, unless another administrator has come in between.   *)
THEOREM OpenedByHandInUse == PanelSpec => OpensWhatIsInUse
<1>1. PanelInit => CommandsInTime
  BY DEF PanelInit, CommandsInTime, NoDesk
<1>2. PanelSpec => []CommandsInTime
  BY <1>1, CommandsInTimeKept, PanelInvariant, PTL DEF PanelSpec
<1>3. CommandsInTime /\ [PanelNext]_panelVars =>
         [\A a \in Admins :
             desk[a].at = "command" /\ desk'[a].at = "event" =>
                locker[desk[a].cell] \notin OutOfUse \/ desk[a].overtaken]_panelVars
  BY DEF CommandsInTime
<1>. QED  BY <1>2, <1>3, PTL DEF PanelSpec, OpensWhatIsInUse

-----------------------------------------------------------------------------
(* What a reader of the panel sees *)

(* A payment bears the moment of its booking. *)
CreatedInTime == \A r \in Rentals : payment[r].created \in 0..MaxTime

(* A request that reads, while customers and administrators are served.    *)
(* The page it has read is still a part of what will be counted; the       *)
(* rental it has read is of its cell, and the payment it then reads is     *)
(* not older than the rental's own.                                        *)
ViewInOrder(w) ==
    /\ w.filter # None /\ Steady(w.filter) =>
          IF w.at = "count" THEN w.rows \subseteq Matching(w.filter)
          ELSE Cardinality(w.rows) <= w.total
    /\ w.at \in {"count", "rental"} => w.rental = None
    /\ w.at \in {"count", "rental", "payment"} => w.payment = None
    /\ w.rental # None =>
          /\ payment[w.rental].status # "none"
          /\ w.at = "payment" => session[payment[w.rental].session].cell = w.cell
          /\ w.at \in {"events", "answered"} =>
                IF w.payment = None THEN w.missed
                ELSE /\ payment[w.payment].status # "none"
                     /\ payment[w.rental].created <= payment[w.payment].created

\* No session begins later than now.
StartedInTime == \A s \in Sessions : session[s].status # "none" => started[s] <= AppClock

ViewsInv ==
    /\ PanelInv
    /\ CreatedInTime
    /\ started \in [Sessions -> Int]
    /\ StartedInTime
    /\ view \in [Viewers -> View]
    /\ \A v \in Viewers : ViewInOrder(view[v])

(* A payment that exists keeps its moment. *)
LEMMA CreatedStays ==
    ASSUME TypeOK, [Next]_vars, NEW r \in Rentals
    PROVE  /\ payment[r].status # "none" =>
                 payment'[r].status # "none" /\ payment'[r].created = payment[r].created
           /\ payment'[r].created \in {payment[r].created, now}
<1>1. payment[r] \in PaymentRow
  BY DEF TypeOK
<1>2. CASE UNCHANGED payment
  BY <1>2
<1>3. ASSUME NEW s \in Sessions, NEW l \in Locations, NEW q \in Rentals,
             NEW code \in Codes, CreateBooking(s, l, q, code)
      PROVE  \/ payment'[r] = payment[r]
             \/ payment[r].status = "none" /\ payment'[r].created = now
  BY <1>3 DEF CreateBooking, TypeOK
<1>4. ASSUME NEW k \in Clients, refreshPaymentStatus(k)
      PROVE  payment'[r] = payment[r] \/ payment'[r] = Refreshed(payment[r])
  BY <1>4 DEF refreshPaymentStatus, TypeOK
<1>. QED  BY <1>1, <1>2, <1>3, <1>4, RefreshKeeps, PaymentWriters

(* What the rental flow and the administrators leave as it was read.       *)
LEMMA WhatWasReadStays ==
    ASSUME PanelInv, CreatedInTime, [PanelNext]_panelVars
    PROVE  /\ CreatedInTime'
           /\ \A s \in Sessions :
                 /\ session[s].status # "none" =>
                       session'[s].status # "none" /\ session'[s].cell = session[s].cell
                 /\ session[s].status \in {"closed", "expired"} =>
                       session'[s].status = session[s].status
           /\ \A r \in Rentals : payment[r].status # "none" =>
                 /\ payment'[r].status # "none"
                 /\ payment'[r].session = payment[r].session
                 /\ payment'[r].created = payment[r].created
<1>1. now \in 0..MaxTime
  BY DEF PanelInv, PanelTypeOK, TypeOK
<1>2. CASE [Next]_vars
  <2>1. ASSUME NEW s \in Sessions
        PROVE  /\ session[s].status # "none" =>
                     session'[s].status # "none" /\ session'[s].cell = session[s].cell
               /\ session[s].status \in {"closed", "expired"} =>
                     session'[s].status = session[s].status
    BY <1>2, SessionStep DEF PanelInv, PanelTypeOK
  <2>2. \A r \in Rentals : payment[r].status # "none" =>
           /\ payment'[r].status # "none"
           /\ payment'[r].session = payment[r].session
           /\ payment'[r].created = payment[r].created
    BY <1>2, PaymentStep, CreatedStays DEF PanelInv, PanelTypeOK
  <2>3. CreatedInTime'
    BY <1>1, <1>2, CreatedStays DEF CreatedInTime, PanelInv, PanelTypeOK
  <2>. QED  BY <2>1, <2>2, <2>3
<1>3. CASE UNCHANGED <<session, payment>>
  BY <1>3 DEF CreatedInTime
<1>. QED  BY <1>2, <1>3, PanelStep DEF WriteStatus, vars

LEMMA ClockGoesOn ==
    ASSUME TypeOK, [Next]_vars
    PROVE  now' \in {now, now + 1}
BY DEF Next, vars, CleanupExpiredSelections, CreateCellSelection, RefuseCellSelection,
       CreateBooking, RefuseBooking, FinishRental, CheckAccessCode, ReadAccess, GetPayment,
       OpenRental, ReadPayment, ReadOpen, refreshPaymentStatus, Die, Tick, EnsureDemoData

(* started_at moves forward only, and no more once a session is over. *)
LEMMA StartedMovesForward ==
    ASSUME PanelInv, started \in [Sessions -> Int], StartedInTime,
           [PanelNext]_panelVars, Dated
    PROVE  /\ started' \in [Sessions -> Int]
           /\ StartedInTime'
           /\ \A s \in Sessions :
                 /\ session[s].status # "none" => started[s] <= started'[s]
                 /\ session[s].status \in {"closed", "expired"} => started'[s] = started[s]
<1>1. now \in Int /\ AppClock \in Int
  BY TimesAssumption DEF PanelInv, PanelTypeOK, TypeOK, AppClock
<1>2. AppClock <= AppClock' /\ AppClock' \in Int
  <2>1. now' \in {now, now + 1}
    BY ClockGoesOn, PanelStep DEF PanelInv, PanelTypeOK, WriteStatus, vars
  <2>2. AppClock = now + ClockSkew /\ AppClock' = now' + ClockSkew
    BY DEF AppClock
  <2>3. /\ now \in Int /\ now' \in Int /\ ClockSkew \in Int
        /\ now' = now \/ now' = now + 1
    BY <1>1, <2>1, TimesAssumption
  <2>4. now + ClockSkew <= now' + ClockSkew /\ now' + ClockSkew \in Int
    <3>1. \A m, n, k \in Int : m = n \/ m = n + 1 => n + k <= m + k /\ m + k \in Int
      OBVIOUS
    <3>. QED  BY <2>3, <3>1
  <2>. QED  BY <2>2, <2>4
<1>3. ASSUME NEW s \in Sessions
      PROVE  \/ session'[s].status = session[s].status
             \/ <<session[s].status, session'[s].status>> \in
                   {<<"none", "selected">>, <<"selected", "active">>,
                    <<"selected", "expired">>, <<"active", "closed">>}
  BY PanelStep, SessionStep DEF PanelInv, PanelTypeOK, WriteStatus, vars
<1>4. started' \in [Sessions -> Int]
  BY <1>1 DEF Dated
<1>5. ASSUME NEW s \in Sessions
      PROVE  /\ session[s].status # "none" => started[s] <= started'[s]
             /\ session[s].status \in {"closed", "expired"} => started'[s] = started[s]
             /\ session'[s].status # "none" => started'[s] <= AppClock'
  <2>1. CASE session'[s].status = session[s].status
    BY <1>1, <1>2, <2>1 DEF Dated, StartedInTime
  <2>2. CASE session[s].status # "none"
             /\ <<session[s].status, session'[s].status>> \in
                   {<<"selected", "active">>, <<"selected", "expired">>,
                    <<"active", "closed">>}
    BY <1>1, <1>2, <2>2 DEF Dated, StartedInTime
  <2>3. CASE session[s].status = "none" /\ session'[s].status = "selected"
    BY <1>1, <1>2, <2>3 DEF Dated
  <2>. QED  BY <1>3, <2>1, <2>2, <2>3
<1>. QED  BY <1>4, <1>5 DEF StartedInTime

(* What matches a steady filter goes on matching. *)
LEMMA MatchingStays ==
    ASSUME ViewsInv, [PanelNext]_panelVars, Dated, NEW filter \in Filters, Steady(filter)
    PROVE  Matching(filter) \subseteq Matching(filter)'
<1>. SUFFICES ASSUME NEW s \in Matching(filter)
              PROVE  s \in Matching(filter)'
  OBVIOUS
<1>1. /\ s \in Sessions /\ session[s].status # "none"
      /\ filter.statuses = None \/ session[s].status \in filter.statuses
      /\ filter.from = None \/ filter.from <= started[s]
      /\ filter.to = None \/ started[s] <= filter.to
  BY DEF Matching
<1>2. session'[s].status # "none"
      /\ (session[s].status \in {"closed", "expired"} =>
             session'[s].status = session[s].status)
  BY <1>1, WhatWasReadStays DEF ViewsInv
<1>3. started[s] <= started'[s] /\ started[s] \in Int /\ started'[s] \in Int
      /\ (session[s].status \in {"closed", "expired"} => started'[s] = started[s])
  BY <1>1, StartedMovesForward DEF ViewsInv
<1>4. filter.from = None \/ filter.from \in Int
  BY ViewsAssumption
<1>5. CASE filter.statuses = None /\ filter.to = None
  BY <1>1, <1>2, <1>3, <1>4, <1>5 DEF Matching
<1>6. CASE filter.statuses # None /\ filter.statuses \subseteq {"closed", "expired"}
  <2>1. session'[s].status = session[s].status /\ started'[s] = started[s]
    BY <1>1, <1>2, <1>3, <1>6
  <2>. QED  BY <1>1, <2>1 DEF Matching
<1>. QED  BY <1>5, <1>6 DEF Steady

(* A request that has read something is in order whatever is served next.  *)
LEMMA ViewsStandStill ==
    ASSUME ViewsInv, [PanelNext]_panelVars, Dated, UNCHANGED view
    PROVE  ViewsInv'
<1>1. PanelInv' /\ CreatedInTime' /\ started' \in [Sessions -> Int] /\ StartedInTime'
  BY PanelInvKept, WhatWasReadStays, StartedMovesForward DEF ViewsInv
<1>2. ASSUME NEW v \in Viewers
      PROVE  ViewInOrder(view[v])'
  <2>3. PICK w \in View : view[v] = w /\ view'[v] = w
    BY DEF ViewsInv
  <2>1. ViewInOrder(w)
    BY <2>3 DEF ViewsInv
  <2>2. w.rental \in Rentals \cup {None} /\ w.payment \in Rentals \cup {None}
    BY DEF View
  <2>4. w.filter # None /\ Steady(w.filter) =>
           IF w.at = "count" THEN w.rows \subseteq Matching(w.filter)'
           ELSE Cardinality(w.rows) <= w.total
    <3>. SUFFICES ASSUME w.filter # None, Steady(w.filter)
                  PROVE  IF w.at = "count" THEN w.rows \subseteq Matching(w.filter)'
                         ELSE Cardinality(w.rows) <= w.total
      OBVIOUS
    <3>1. Matching(w.filter) \subseteq Matching(w.filter)'
      BY <2>3, MatchingStays DEF View
    <3>. QED  BY <2>1, <3>1 DEF ViewInOrder
  <2>5. w.rental # None =>
           /\ payment'[w.rental].status # "none"
           /\ w.at = "payment" => session'[payment'[w.rental].session].cell = w.cell
           /\ w.at \in {"events", "answered"} =>
                 IF w.payment = None THEN w.missed
                 ELSE /\ payment'[w.payment].status # "none"
                      /\ payment'[w.rental].created <= payment'[w.payment].created
    <3>. SUFFICES ASSUME w.rental # None
                  PROVE  /\ payment'[w.rental].status # "none"
                         /\ w.at = "payment" => session'[payment'[w.rental].session].cell = w.cell
                         /\ w.at \in {"events", "answered"} =>
                               IF w.payment = None THEN w.missed
                               ELSE /\ payment'[w.payment].status # "none"
                                    /\ payment'[w.rental].created <= payment'[w.payment].created
      OBVIOUS
    <3>1. payment[w.rental].status # "none" /\ w.rental \in Rentals
      BY <2>1, <2>2 DEF ViewInOrder
    <3>2. /\ payment'[w.rental].status # "none"
          /\ payment'[w.rental].session = payment[w.rental].session
          /\ payment'[w.rental].created = payment[w.rental].created
      BY <3>1, WhatWasReadStays DEF ViewsInv
    <3>3. ASSUME w.at = "payment"
          PROVE  session'[payment'[w.rental].session].cell = w.cell
      <4>. DEFINE s == payment[w.rental].session
      <4>1. s \in Sessions /\ session[s].rental = w.rental /\ session[s].status # "none"
        BY <3>1 DEF ViewsInv, PanelInv, PanelTypeOK, TypeOK, PaymentRow, BookingIsWhole
      <4>2. session'[s].cell = session[s].cell
        BY <4>1, WhatWasReadStays DEF ViewsInv
      <4>. QED  BY <2>1, <3>2, <3>3, <4>2 DEF ViewInOrder
    <3>4. ASSUME w.at \in {"events", "answered"}, w.payment # None
          PROVE  /\ payment'[w.payment].status # "none"
                 /\ payment'[w.rental].created <= payment'[w.payment].created
      <4>1. /\ payment[w.payment].status # "none" /\ w.payment \in Rentals
            /\ payment[w.rental].created <= payment[w.payment].created
        BY <2>1, <2>2, <3>4 DEF ViewInOrder
      <4>2. /\ payment'[w.payment].status # "none"
            /\ payment'[w.payment].created = payment[w.payment].created
        BY <4>1, WhatWasReadStays DEF ViewsInv
      <4>. QED  BY <3>2, <4>1, <4>2
    <3>5. ASSUME w.at \in {"events", "answered"}, w.payment = None
          PROVE  w.missed
      BY <2>1, <3>5 DEF ViewInOrder
    <3>. QED  BY <3>2, <3>3, <3>4, <3>5
  <2>6. /\ w.at \in {"count", "rental"} => w.rental = None
        /\ w.at \in {"count", "rental", "payment"} => w.payment = None
    BY <2>1 DEF ViewInOrder
  <2>. QED  BY <2>3, <2>4, <2>5, <2>6 DEF ViewInOrder
<1>. QED  BY <1>1, <1>2 DEF ViewsInv

(* A set of natural numbers that is not empty has a least element: less-   *)
(* than is well founded.                                                   *)
LEMMA LeastNumber ==
    ASSUME NEW T \in SUBSET Nat, T # {}
    PROVE  \E n \in T : \A m \in T : n <= m
<1>. DEFINE R == {p \in Nat \X Nat : p[1] < p[2]}
<1>1. IsWellFoundedOn(R, Nat)
  BY NatLessThanWellFounded DEF OpToRel
<1>2. PICK n \in T : \A m \in T : ~(<<m, n>> \in R)
  <2>. HIDE DEF R
  <2>. QED  BY <1>1, WFMin, Zenon
<1>3. ASSUME NEW m \in T PROVE n <= m
  <2>1. <<m, n>> \notin R
    BY <1>2
  <2>2. m \in Nat /\ n \in Nat
    OBVIOUS
  <2>. QED  BY <2>1, <2>2
<1>. QED  BY <1>3

(* Payments are made within the modelled time, so a cell with payments has *)
(* a last one, however many there are.                                     *)
LEMMA SomePaymentIsLast ==
    ASSUME CreatedInTime, NEW r \in Rentals, payment[r].status # "none",
           NEW c, session[payment[r].session].cell = c
    PROVE  LastPayments(c) # {}
<1>. DEFINE ofCell == {q \in Rentals : payment[q].status # "none"
                                       /\ session[payment[q].session].cell = c}
            T == {MaxTime - payment[q].created : q \in ofCell}
<1>1. \A q \in Rentals : payment[q].created \in 0..MaxTime
  BY DEF CreatedInTime
<1>2. T \in SUBSET Nat /\ T # {}
  BY <1>1, TimesAssumption
<1>3. PICK n \in T : \A m \in T : n <= m
  <2>. HIDE DEF T
  <2>. QED  BY <1>2, LeastNumber
<1>4. PICK p \in ofCell : n = MaxTime - payment[p].created
  OBVIOUS
<1>5. ASSUME NEW q \in ofCell PROVE payment[q].created <= payment[p].created
  <2>1. MaxTime - payment[p].created <= MaxTime - payment[q].created
    BY <1>3, <1>4
  <2>. QED  BY <2>1, <1>1, TimesAssumption
<1>6. p \in LastPayments(c)
  BY <1>5 DEF LastPayments
<1>. QED  BY <1>6

(* A reading request goes one step further.                                *)
LEMMA OneViewGoesOn ==
    ASSUME ViewsInv, NEW v \in Viewers, NEW w \in View, ViewInOrder(w),
           view' = [view EXCEPT ![v] = w], UNCHANGED <<panelVars, started>>
    PROVE  ViewsInv'
<1>1. PanelInv' /\ CreatedInTime' /\ started' \in [Sessions -> Int] /\ StartedInTime'
  BY PanelInvKept, WhatWasReadStays
  DEF ViewsInv, StartedInTime, AppClock, panelVars
<1>2. view' \in [Viewers -> View]
  BY DEF ViewsInv
<1>3. ASSUME NEW u \in Viewers PROVE ViewInOrder(view[u])'
  <2>1. PICK x \in View : view'[u] = x /\ ViewInOrder(x)
    BY DEF ViewsInv
  <2>2. ViewInOrder(x)'
    BY <2>1 DEF ViewInOrder, Matching, panelVars
  <2>. QED  BY <2>1, <2>2 DEF ViewInOrder
<1>. QED  BY <1>1, <1>2, <1>3 DEF ViewsInv

LEMMA NothingRead ==
    NoView \in View /\ ViewInOrder(NoView)
<1>1. Cardinality(Sessions) \in Nat
  BY ViewsAssumption, FS_CardinalityType
<1>. QED  BY <1>1, FS_EmptySet, NoneAssumption DEF NoView, View, ViewInOrder

LEMMA MatchingIsFinite ==
    ASSUME NEW filter
    PROVE  /\ Matching(filter) \subseteq Sessions /\ IsFiniteSet(Matching(filter))
           /\ Cardinality(Matching(filter)) \in 0..Cardinality(Sessions)
<1>1. Matching(filter) \subseteq Sessions
  BY DEF Matching
<1>2. IsFiniteSet(Matching(filter)) /\ Cardinality(Matching(filter)) <= Cardinality(Sessions)
  BY <1>1, ViewsAssumption, FS_Subset
<1>3. Cardinality(Matching(filter)) \in Nat /\ Cardinality(Sessions) \in Nat
  BY <1>2, ViewsAssumption, FS_CardinalityType
<1>. QED  BY <1>1, <1>2, <1>3

LEMMA ListKeeps ==
    ASSUME ViewsInv, NEW v \in Viewers, NEW filter \in Filters, NEW limit \in Limits,
           ListSessions(v, filter, limit), UNCHANGED started
    PROVE  ViewsInv'
<1>1. PICK rows \in SUBSET Matching(filter) :
         view' = [view EXCEPT ![v] =
                    [NoView EXCEPT !.at = "count", !.filter = filter, !.rows = rows]]
  BY DEF ListSessions
<1>. DEFINE w == [NoView EXCEPT !.at = "count", !.filter = filter, !.rows = rows]
<1>2. rows \in SUBSET Sessions
  BY MatchingIsFinite
<1>3. /\ w \in View
      /\ w.at = "count" /\ w.filter = filter /\ w.rows = rows
      /\ w.rental = None /\ w.payment = None
  BY <1>2, NothingRead DEF View, NoView
<1>4. view' = [view EXCEPT ![v] = w] /\ UNCHANGED panelVars
  BY <1>1 DEF ListSessions
<1>. HIDE DEF w
<1>5. ViewInOrder(w)
  BY <1>3 DEF ViewInOrder
<1>. QED  BY <1>3, <1>4, <1>5, OneViewGoesOn

LEMMA CountKeeps ==
    ASSUME ViewsInv, NEW v \in Viewers, CountSessions(v), UNCHANGED started
    PROVE  ViewsInv'
<1>1. PICK old \in View : view[v] = old /\ ViewInOrder(old) /\ old.at = "count"
  BY DEF ViewsInv, CountSessions
<1>. DEFINE n == Cardinality(Matching(old.filter))
            w == [old EXCEPT !.at = "answered", !.total = n]
<1>2. n \in 0..Cardinality(Sessions) /\ IsFiniteSet(Matching(old.filter))
  BY MatchingIsFinite
<1>3. view' = [view EXCEPT ![v] = w] /\ UNCHANGED panelVars
  BY <1>1 DEF CountSessions
<1>. HIDE DEF n
<1>4. /\ w \in View
      /\ w.at = "answered" /\ w.total = n /\ w.filter = old.filter /\ w.rows = old.rows
      /\ w.rental = old.rental
  BY <1>2 DEF View
<1>. HIDE DEF w
<1>5. old.rental = None
  BY <1>1 DEF ViewInOrder
<1>6. ASSUME old.filter # None, Steady(old.filter)
      PROVE  Cardinality(old.rows) <= n
  <2>1. old.rows \subseteq Matching(old.filter)
    BY <1>1, <1>6 DEF ViewInOrder
  <2>. QED  BY <1>2, <2>1, FS_Subset DEF n
<1>7. ViewInOrder(w)
  BY <1>4, <1>5, <1>6 DEF ViewInOrder
<1>. QED  BY <1>3, <1>4, <1>7, OneViewGoesOn

LEMMA CardBeginKeeps ==
    ASSUME ViewsInv, NEW v \in Viewers, NEW c \in Cells, GetLockerDetail(v, c),
           UNCHANGED started
    PROVE ViewsInv'
<1>. DEFINE w == [NoView EXCEPT !.at = "rental", !.cell = c]
<1>1. w \in View
  BY NothingRead DEF View
<1>2. /\ w.at = "rental" /\ w.rental = None /\ w.payment = None /\ w.rows = {} /\ w.total = 0
  BY DEF NoView
<1>3. view' = [view EXCEPT ![v] = w] /\ UNCHANGED panelVars
  BY DEF GetLockerDetail
<1>. HIDE DEF w
<1>4. ViewInOrder(w)
  BY <1>2, FS_EmptySet DEF ViewInOrder
<1>. QED  BY <1>1, <1>3, <1>4, OneViewGoesOn

LEMMA RentalReadKeeps ==
    ASSUME ViewsInv, NEW v \in Viewers, ReadActiveRental(v), UNCHANGED started
    PROVE  ViewsInv'
<1>1. PICK old \in View : view[v] = old /\ ViewInOrder(old) /\ old.at = "rental"
  BY DEF ViewsInv, ReadActiveRental
<1>2. UNCHANGED panelVars /\ old.rental = None
  BY <1>1 DEF ReadActiveRental, ViewInOrder
<1>3. ASSUME NEW s \in RentalsOf(old.cell),
             view' = [view EXCEPT ![v] =
                         [old EXCEPT !.at = "payment", !.rental = session[s].rental]]
      PROVE  ViewsInv'
  <2>. DEFINE r == session[s].rental
              w == [old EXCEPT !.at = "payment", !.rental = r]
  <2>1. /\ s \in Sessions /\ session[s].cell = old.cell /\ r \in Rentals
        /\ payment[r].status # "none" /\ payment[r].session = s
    BY DEF RentalsOf, ViewsInv, PanelInv, PanelTypeOK, TypeOK, SessionRow, BookingIsWhole
  <2>2. /\ w \in View /\ w.at = "payment" /\ w.rental = r /\ w.cell = old.cell
        /\ w.filter = old.filter /\ w.rows = old.rows /\ w.total = old.total
        /\ w.payment = old.payment
    BY <2>1 DEF View
  <2>3. view' = [view EXCEPT ![v] = w]
    BY <1>3
  <2>. HIDE DEF w, r
  <2>4. ViewInOrder(w)
    BY <1>1, <2>1, <2>2 DEF ViewInOrder
  <2>. QED  BY <1>2, <2>2, <2>3, <2>4, OneViewGoesOn
\* No rental is read, whether there is one or not.
<1>4. ASSUME NEW missed \in BOOLEAN, NEW w \in View,
             w = [old EXCEPT !.at = "payment", !.missed = missed],
             view' = [view EXCEPT ![v] = w]
      PROVE  ViewsInv'
  <2>1. /\ w.at = "payment" /\ w.rental = old.rental
        /\ w.filter = old.filter /\ w.rows = old.rows /\ w.total = old.total
        /\ w.payment = old.payment
    BY <1>4 DEF View
  <2>2. ViewInOrder(w)
    BY <1>1, <1>2, <2>1 DEF ViewInOrder
  <2>. QED  BY <1>2, <1>4, <2>2, OneViewGoesOn
<1>5. CASE view' = [view EXCEPT ![v].at = "payment"]
  <2>. DEFINE w == [old EXCEPT !.at = "payment"]
  <2>1. view' = [view EXCEPT ![v] = w]
    BY <1>1, <1>5
  <2>2. /\ w \in View /\ w.at = "payment" /\ w.rental = old.rental
        /\ w.filter = old.filter /\ w.rows = old.rows /\ w.total = old.total
        /\ w.payment = old.payment
    BY DEF View
  <2>. HIDE DEF w
  <2>3. ViewInOrder(w)
    BY <1>1, <1>2, <2>2 DEF ViewInOrder
  <2>. QED  BY <1>2, <2>1, <2>2, <2>3, OneViewGoesOn
<1>6. CASE view' = [view EXCEPT ![v] = [old EXCEPT !.at = "payment", !.missed = TRUE]]
  <2>1. [old EXCEPT !.at = "payment", !.missed = TRUE] \in View
    BY DEF View
  <2>. QED  BY <1>4, <1>6, <2>1
<1>. QED  BY <1>1, <1>3, <1>5, <1>6 DEF ReadActiveRental
LEMMA PaymentReadKeeps ==
    ASSUME ViewsInv, NEW v \in Viewers, ReadLastPayment(v), UNCHANGED started
    PROVE  ViewsInv'
<1>1. PICK old \in View : view[v] = old /\ ViewInOrder(old) /\ old.at = "payment"
  BY DEF ViewsInv, ReadLastPayment
<1>2. UNCHANGED panelVars /\ old.payment = None
  BY <1>1 DEF ReadLastPayment, ViewInOrder
<1>3. old.rental # None =>
         /\ old.rental \in Rentals /\ payment[old.rental].status # "none"
         /\ session[payment[old.rental].session].cell = old.cell
  BY <1>1 DEF ViewInOrder, View
<1>4. ASSUME NEW r \in LastPayments(old.cell),
             view' = [view EXCEPT ![v] = [old EXCEPT !.at = "events", !.payment = r]]
      PROVE  ViewsInv'
  <2>. DEFINE w == [old EXCEPT !.at = "events", !.payment = r]
  <2>1. /\ r \in Rentals /\ payment[r].status # "none"
        /\ old.rental # None => payment[old.rental].created <= payment[r].created
    BY <1>3 DEF LastPayments
  <2>2. /\ w \in View /\ w.at = "events" /\ w.payment = r
        /\ w.filter = old.filter /\ w.rows = old.rows /\ w.total = old.total
        /\ w.rental = old.rental
    BY <2>1 DEF View
  <2>3. view' = [view EXCEPT ![v] = w]
    BY <1>4
  <2>. HIDE DEF w
  <2>4. r # None
    BY <2>1, NoneAssumption
  <2>5. ViewInOrder(w)
    BY <1>1, <1>3, <2>1, <2>2, <2>4 DEF ViewInOrder
  <2>. QED  BY <1>2, <2>2, <2>3, <2>5, OneViewGoesOn
<1>5. ASSUME LastPayments(old.cell) = {}, view' = [view EXCEPT ![v].at = "events"]
      PROVE  ViewsInv'
  <2>. DEFINE w == [old EXCEPT !.at = "events"]
  <2>1. old.rental = None
    BY <1>3, <1>5, SomePaymentIsLast DEF ViewsInv
  <2>2. /\ w \in View /\ w.at = "events" /\ w.rental = old.rental
        /\ w.filter = old.filter /\ w.rows = old.rows /\ w.total = old.total
    BY DEF View
  <2>3. view' = [view EXCEPT ![v] = w]
    BY <1>1, <1>5
  <2>. HIDE DEF w
  <2>4. ViewInOrder(w)
    BY <1>1, <2>1, <2>2 DEF ViewInOrder
  <2>. QED  BY <1>2, <2>2, <2>3, <2>4, OneViewGoesOn
<1>6. CASE view' = [view EXCEPT ![v] = [old EXCEPT !.at = "events", !.missed = TRUE]]
  <2>. DEFINE w == [old EXCEPT !.at = "events", !.missed = TRUE]
  <2>1. /\ w \in View /\ w.at = "events" /\ w.missed = TRUE /\ w.rental = old.rental
        /\ w.filter = old.filter /\ w.rows = old.rows /\ w.total = old.total
        /\ w.payment = old.payment
    BY DEF View
  <2>2. view' = [view EXCEPT ![v] = w]
    BY <1>6
  <2>. HIDE DEF w
  <2>3. ViewInOrder(w)
    BY <1>1, <1>2, <1>3, <2>1 DEF ViewInOrder
  <2>. QED  BY <1>2, <2>1, <2>2, <2>3, OneViewGoesOn
<1>. QED  BY <1>1, <1>4, <1>5, <1>6 DEF ReadLastPayment

LEMMA EventsReadKeeps ==
    ASSUME ViewsInv, NEW v \in Viewers, ReadEvents(v), UNCHANGED started
    PROVE  ViewsInv'
<1>1. PICK old \in View : view[v] = old /\ ViewInOrder(old) /\ old.at = "events"
  BY DEF ViewsInv, ReadEvents
<1>. DEFINE w == [old EXCEPT !.at = "answered"]
<1>2. /\ w \in View /\ w.at = "answered" /\ w.rental = old.rental
      /\ w.filter = old.filter /\ w.rows = old.rows /\ w.total = old.total
      /\ w.payment = old.payment /\ w.missed = old.missed
  BY DEF View
<1>3. view' = [view EXCEPT ![v] = w] /\ UNCHANGED panelVars
  BY <1>1 DEF ReadEvents
<1>. HIDE DEF w
<1>4. ViewInOrder(w)
  BY <1>1, <1>2 DEF ViewInOrder
<1>. QED  BY <1>2, <1>3, <1>4, OneViewGoesOn

LEMMA ViewsStep == ViewsInv /\ [ViewsNext]_viewVars => ViewsInv'
<1>. SUFFICES ASSUME ViewsInv, [ViewsNext]_viewVars PROVE ViewsInv'
  OBVIOUS
<1>1. CASE PanelNext /\ Dated /\ UNCHANGED view
  BY <1>1, ViewsStandStill
<1>2. CASE UNCHANGED viewVars
  <2>1. Dated
    BY <1>2 DEF viewVars, panelVars, Dated, ViewsInv
  <2>. QED  BY <1>2, <2>1, ViewsStandStill DEF viewVars
<1>3. ASSUME NEW v \in Viewers, ViewDies(v), UNCHANGED started PROVE ViewsInv'
  BY <1>3, NothingRead, OneViewGoesOn DEF ViewDies
<1>. QED
  BY <1>1, <1>2, <1>3, ListKeeps, CountKeeps, CardBeginKeeps, RentalReadKeeps,
     PaymentReadKeeps, EventsReadKeeps
  DEF ViewsNext, ViewNext

(* Nobody has read anything when the system starts. *)
LEMMA ViewsStart == ViewsInit => ViewsInv
<1>. SUFFICES ASSUME ViewsInit PROVE ViewsInv
  OBVIOUS
<1>1. PanelInv
  BY PanelInvStart DEF ViewsInit
<1>2. CreatedInTime
  BY TimesAssumption DEF ViewsInit, PanelInit, Init, NoPayment, CreatedInTime
<1>3. started \in [Sessions -> Int] /\ StartedInTime
  BY DEF ViewsInit, PanelInit, Init, NoSession, StartedInTime
<1>. QED  BY <1>1, <1>2, <1>3, NothingRead DEF ViewsInit, ViewsInv

(* However many requests read, whatever is served between their statements. *)
THEOREM ViewsInvariant == ViewsSpec => []ViewsInv
BY ViewsStart, ViewsStep, PTL DEF ViewsSpec

(* The reads of the panel stay within their types. *)
THEOREM ViewsTypesHold == ViewsSpec => []ViewsTypeOK
<1>1. ViewsInv => ViewsTypeOK
  BY DEF ViewsInv, PanelInv, ViewsTypeOK
<1>. QED  BY <1>1, ViewsInvariant, PTL

(* A list of all sessions from some moment on, or of sessions that are     *)
(* over, is never longer than its total, for every page size and all       *)
(* limits, whatever is selected, booked, finished or swept between the     *)
(* page and the count.                                                     *)
THEOREM PagesWithinTotal == ViewsSpec => []PageWithinTotal
<1>1. ViewsInv => PageWithinTotal
  <2>. SUFFICES ASSUME ViewsInv, NEW v \in Viewers, view[v].at = "answered",
                       view[v].filter # None, Steady(view[v].filter)
                PROVE  Cardinality(view[v].rows) <= view[v].total
    BY DEF PageWithinTotal
  <2>. QED  BY DEF ViewsInv, ViewInOrder
<1>. QED  BY <1>1, ViewsInvariant, PTL

(* The card of a cell never shows an active rental with a payment older    *)
(* than its own, nor one without a payment unless an error was dropped,    *)
(* although its statements see the tables of different moments.            *)
THEOREM CardsInOrder == ViewsSpec => []CardInOrder
<1>1. ViewsInv => CardInOrder
  <2>. SUFFICES ASSUME ViewsInv, NEW v \in Viewers,
                       view[v].at \in {"events", "answered"}, view[v].rental # None
                PROVE  IF view[v].payment = None THEN view[v].missed
                       ELSE payment[view[v].rental].created
                               <= payment[view[v].payment].created
    BY DEF CardInOrder
  <2>. QED  BY DEF ViewsInv, ViewInOrder
<1>. QED  BY <1>1, ViewsInvariant, PTL

(* Reading is all that the reading requests do: with them the panel does   *)
(* what it does without them, so what is proved of it holds beside them.   *)
THEOREM ReadsLeaveThePanel == ViewsSpec => PanelSpec
<1>1. ViewsInit => PanelInit
  BY DEF ViewsInit
<1>2. [ViewsNext]_viewVars => [PanelNext]_panelVars
  <2>. SUFFICES ASSUME [ViewsNext]_viewVars PROVE [PanelNext]_panelVars
    OBVIOUS
  <2>1. CASE ViewNext
    BY <2>1
    DEF ViewNext, ListSessions, CountSessions, GetLockerDetail, ReadActiveRental,
        ReadLastPayment, ReadEvents, ViewDies
  <2>. QED  BY <2>1 DEF ViewsNext, viewVars
<1>. QED  BY <1>1, <1>2, PTL DEF ViewsSpec, PanelSpec
=============================================================================
