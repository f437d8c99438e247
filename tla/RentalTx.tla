------------------------------- MODULE RentalTx -------------------------------
(***************************************************************************)
(* The statements of the transactions that RentalFlow takes as one step:   *)
(* the sweep, CreateCellSelection, CreateBooking and FinishRental of       *)
(* internal/repository/rental_flow_repository.go, with the row locks of    *)
(* PostgreSQL at READ COMMITTED.  A statement sees what was committed when *)
(* it began; a row it writes or selects FOR UPDATE is locked until the end *)
(* of the transaction, and looked at again if it had to be waited for.     *)
(* What a transaction writes is in its record until it commits.            *)
(*                                                                         *)
(* Whether a hold is over is a flag, and a booking may find it over or not *)
(* whatever the flag says: its clock is not the clock of the database.     *)
(***************************************************************************)
EXTENDS Naturals, FiniteSets

CONSTANTS
    Cells,      \* rows of lockers, of one location and size
    Sessions,   \* selection ids that can be minted (bounds the sessions)
    Txs,        \* connections: transactions under way at one time
    Place,      \* Place[s]: where the plan of the sweep comes to session s
    None

ASSUME PlaceAssumption ==
    /\ Place \in [Sessions -> Nat]
    /\ \A s, r \in Sessions : Place[s] = Place[r] => s = r
ASSUME RowsAssumption ==
    /\ IsFiniteSet(Sessions)
    /\ Sessions \cap Cells = {}
    /\ None \notin Sessions \cup Cells

VARIABLES
    locker,     \* locker[c]: lockers.status, as committed
    session,    \* session[s]: the row of storage_sessions, as committed
    over,       \* the sessions whose hold_expires_at has passed
    tx          \* tx[t]: the transaction of connection t

txVars == <<locker, session, over, tx>>

NoSession == [status |-> "none", cell |-> None]

SessionRow == [status : {"none", "selected", "active", "closed", "expired"},
               cell   : Cells \cup {None}]

Tx == [op       : {"none", "sweep", "selection", "booking", "finish"},
       at       : {"idle", "sweep", "pick", "session", "cell", "write", "commit"},
       id       : Sessions \cup {None},   \* the session the request is about
       cell     : Cells \cup {None},      \* and its cell
       todo     : SUBSET Sessions,        \* sessions the sweep has not come to
       reserved : SUBSET Cells,           \* and cells, both as its statement saw them
       expired  : SUBSET Sessions,        \* sessions the sweep has expired
       freed    : SUBSET Cells,           \* cells the sweep has freed
       locks    : SUBSET (Sessions \cup Cells)]

NoTx == [op |-> "none", at |-> "idle", id |-> None, cell |-> None, todo |-> {},
         reserved |-> {}, expired |-> {}, freed |-> {}, locks |-> {}]

TxTypeOK ==
    /\ locker \in [Cells -> {"free", "reserved", "occupied"}]
    /\ session \in [Sessions -> SessionRow]
    /\ over \subseteq Sessions
    /\ tx \in [Txs -> Tx]

TxInit ==
    /\ locker = [c \in Cells |-> "free"]
    /\ session = [s \in Sessions |-> NoSession]
    /\ over = {}
    /\ tx = [t \in Txs |-> NoTx]

-----------------------------------------------------------------------------
(* Row locks *)

Holders(row) == {t \in Txs : row \in tx[t].locks}

CanLock(t, row) == Holders(row) \subseteq {t}

\* The transaction ends: its locks are gone, and what was not committed.
End(t) == tx' = [tx EXCEPT ![t] = NoTx]

-----------------------------------------------------------------------------
(* The sweep.  Its two updates are one statement, so that both see the     *)
(* tables as they were when it began; the plan may go on to the cells      *)
(* while there are sessions left.                                          *)

BeginSweep(t, op) ==
    /\ tx[t].at = "idle"
    /\ op \in {"sweep", "selection"}
    /\ tx' = [tx EXCEPT ![t] = [NoTx EXCEPT
                 !.op = op,
                 !.at = "sweep",
                 !.todo = {s \in over : session[s].status = "selected"},
                 !.reserved = {c \in Cells : locker[c] = "reserved"}]]
    /\ UNCHANGED <<locker, session, over>>

\* A plan that takes the sessions as they come.
NextSessionsAnyOrder(t) == tx[t].todo

\* The session the plan comes to next.
NextSessions(t) == {s \in tx[t].todo : \A r \in tx[t].todo : Place[s] <= Place[r]}

\* The cells of the sessions it has expired.
NextCells(t) == {c \in tx[t].reserved : \E s \in tx[t].expired : session[s].cell = c}

\* An update that does not look at the row again.
SweepSessionAsSeen(t, s) ==
    /\ tx[t].at = "sweep"
    /\ s \in NextSessions(t)
    /\ CanLock(t, s)
    /\ tx' = [tx EXCEPT ![t] = [tx[t] EXCEPT
                 !.todo = @ \ {s},
                 !.locks = @ \cup {s},
                 !.expired = @ \cup {s}]]
    /\ UNCHANGED <<locker, session, over>>

(* A row that changed since the statement began is locked before it is     *)
(* looked at again, and stays locked if it is passed over.                 *)
SweepSession(t, s) ==
    /\ tx[t].at = "sweep"
    /\ s \in NextSessions(t)
    /\ CanLock(t, s)
    /\ tx' = [tx EXCEPT ![t] = [tx[t] EXCEPT
                 !.todo = @ \ {s},
                 !.locks = @ \cup {s},
                 !.expired = IF session[s].status = "selected" THEN @ \cup {s} ELSE @]]
    /\ UNCHANGED <<locker, session, over>>

SweepCell(t, c) ==
    /\ tx[t].at = "sweep"
    /\ c \in NextCells(t)
    /\ CanLock(t, c)
    /\ tx' = [tx EXCEPT ![t] = [tx[t] EXCEPT
                 !.reserved = @ \ {c},
                 !.locks = @ \cup {c},
                 !.freed = IF locker[c] = "reserved" THEN @ \cup {c} ELSE @]]
    /\ UNCHANGED <<locker, session, over>>

SweepDone(t) == tx[t].at = "sweep" /\ tx[t].todo = {} /\ NextCells(t) = {}

SweptSessions(t) ==
    [s \in Sessions |->
        IF s \in tx[t].expired THEN [session[s] EXCEPT !.status = "expired"] ELSE session[s]]

SweptLockers(t) == [c \in Cells |-> IF c \in tx[t].freed THEN "free" ELSE locker[c]]

(* CleanupExpiredSelections is a statement of its own. *)
CommitSweep(t) ==
    /\ tx[t].op = "sweep"
    /\ SweepDone(t)
    /\ session' = SweptSessions(t)
    /\ locker' = SweptLockers(t)
    /\ End(t)
    /\ UNCHANGED over

-----------------------------------------------------------------------------
(* CreateCellSelection, after its sweep *)

FindLocation(t) ==
    /\ tx[t].op = "selection"
    /\ SweepDone(t)
    /\ tx' = [tx EXCEPT ![t].at = "pick"]
    /\ UNCHANGED <<locker, session, over>>

(* FOR UPDATE SKIP LOCKED: never waits. *)
PickCell(t, c) ==
    /\ tx[t].at = "pick"
    /\ SweptLockers(t)[c] = "free"
    /\ CanLock(t, c)
    /\ tx' = [tx EXCEPT ![t] = [tx[t] EXCEPT
                 !.at = "write", !.cell = c, !.locks = @ \cup {c}]]
    /\ UNCHANGED <<locker, session, over>>

(* The cell is reserved and the session inserted, with an id of its own. *)
InsertSession(t, s) ==
    /\ tx[t].op = "selection"
    /\ tx[t].at = "write"
    /\ session[s].status = "none"
    /\ \A u \in Txs : tx[u].id # s
    /\ tx' = [tx EXCEPT ![t] = [tx[t] EXCEPT !.at = "commit", !.id = s, !.locks = @ \cup {s}]]
    /\ UNCHANGED <<locker, session, over>>

CommitSelection(t) ==
    /\ tx[t].op = "selection"
    /\ tx[t].at = "commit"
    /\ session' = [SweptSessions(t) EXCEPT
                      ![tx[t].id] = [status |-> "selected", cell |-> tx[t].cell]]
    /\ locker' = [SweptLockers(t) EXCEPT ![tx[t].cell] = "reserved"]
    /\ End(t)
    /\ UNCHANGED over

-----------------------------------------------------------------------------
(* CreateBooking and FinishRental: the session, then its cell *)

BeginBooking(t, s) ==
    /\ tx[t].at = "idle"
    /\ session[s].status # "none"
    /\ tx' = [tx EXCEPT ![t] = [NoTx EXCEPT
                 !.op = "booking", !.at = "session", !.id = s, !.cell = session[s].cell]]
    /\ UNCHANGED <<locker, session, over>>

(* A client finishes a rental once; what happens otherwise is in           *)
(* RentalFlow, under "repeat_finish".                                      *)
BeginFinish(t, s) ==
    /\ tx[t].at = "idle"
    /\ session[s].status = "active"
    /\ \A u \in Txs : tx[u].op = "finish" => tx[u].id # s
    /\ tx' = [tx EXCEPT ![t] = [NoTx EXCEPT
                 !.op = "finish", !.at = "session", !.id = s, !.cell = session[s].cell]]
    /\ UNCHANGED <<locker, session, over>>

LockSession(t) ==
    /\ tx[t].at = "session"
    /\ CanLock(t, tx[t].id)
    /\ tx' = [tx EXCEPT ![t] = [tx[t] EXCEPT !.at = "cell", !.locks = @ \cup {tx[t].id}]]
    /\ UNCHANGED <<locker, session, over>>

LockCell(t) ==
    /\ tx[t].at = "cell"
    /\ CanLock(t, tx[t].cell)
    /\ tx' = [tx EXCEPT ![t] = [tx[t] EXCEPT !.at = "write", !.locks = @ \cup {tx[t].cell}]]
    /\ UNCHANGED <<locker, session, over>>

(* The session is looked at as it is now that it is locked.  Otherwise the *)
(* writes of the refusal are rolled back: see Rollback.                    *)
WriteBooking(t) ==
    /\ tx[t].op = "booking"
    /\ tx[t].at = "write"
    /\ session[tx[t].id].status = "selected"
    /\ tx' = [tx EXCEPT ![t].at = "commit"]
    /\ UNCHANGED <<locker, session, over>>

CommitBooking(t) ==
    /\ tx[t].op = "booking"
    /\ tx[t].at = "commit"
    /\ session' = [session EXCEPT ![tx[t].id].status = "active"]
    /\ locker' = [locker EXCEPT ![tx[t].cell] = "occupied"]
    /\ End(t)
    /\ UNCHANGED over

\* Finishing with a status nobody else knows.
CommitFinishOtherWord(t) ==
    /\ tx[t].op = "finish"
    /\ tx[t].at = "write"
    /\ session' = [session EXCEPT ![tx[t].id].status = "finished"]
    /\ locker' = [locker EXCEPT ![tx[t].cell] = "free"]
    /\ End(t)
    /\ UNCHANGED over

CommitFinish(t) ==
    /\ tx[t].op = "finish"
    /\ tx[t].at = "write"
    /\ session' = [session EXCEPT ![tx[t].id].status = "closed"]
    /\ locker' = [locker EXCEPT ![tx[t].cell] = "free"]
    /\ End(t)
    /\ UNCHANGED over

-----------------------------------------------------------------------------
(* Every return of an error, the ten seconds of the cron job, a client who *)
(* goes away, a lost connection, a victim of the deadlock detector.        *)
Rollback(t) ==
    /\ tx[t].at # "idle"
    /\ End(t)
    /\ UNCHANGED <<locker, session, over>>

(* hold_expires_at passes. *)
HoldEnds(s) ==
    /\ session[s].status = "selected"
    /\ over' = over \cup {s}
    /\ UNCHANGED <<locker, session, tx>>

Statement(t) ==
    \/ \E s \in Sessions : SweepSession(t, s)
    \/ \E c \in Cells : SweepCell(t, c)
    \/ CommitSweep(t)
    \/ FindLocation(t)
    \/ \E c \in Cells : PickCell(t, c)
    \/ \E s \in Sessions : InsertSession(t, s)
    \/ CommitSelection(t)
    \/ LockSession(t)
    \/ LockCell(t)
    \/ WriteBooking(t)
    \/ CommitBooking(t)
    \/ CommitFinish(t)

TxNext ==
    \/ \E t \in Txs :
          \/ \E op \in {"sweep", "selection"} : BeginSweep(t, op)
          \/ \E s \in Sessions : BeginBooking(t, s) \/ BeginFinish(t, s)
          \/ Statement(t)
          \/ Rollback(t)
    \/ \E s \in Sessions : HoldEnds(s)

TxSpec == TxInit /\ [][TxNext]_txVars

-----------------------------------------------------------------------------
(* What the locks are for *)

\* The rows transaction t may have to wait for now, whatever the plan.
Wanted(t) ==
    CASE tx[t].at = "sweep" -> NextSessions(t) \cup NextCells(t)
      [] tx[t].at = "session" -> {tx[t].id}
      [] tx[t].at = "cell" -> {tx[t].cell}
      [] OTHER -> {}

\* A booking that was asked for a session which is over by now, has locked
\* it and comes to its cell, which may be another customer's.
BooksTheEnded(t) ==
    tx[t].at = "cell" /\ session[tx[t].id].status \notin {"selected", "active"}

(* Nobody waits in a circle: sweeps, the selections that sweep in a longer *)
(* transaction, bookings and finishes come to the rows they share in the   *)
(* same order, sessions as the plan has them and a cell after its session. *)
(* The one exception is a booking of a session that is over: CreateBooking *)
(* looks at the status only when it has both locks.  Then one sweep may    *)
(* keep the cell, held for the next customer by now, and wait for a second *)
(* sweep, which saw the session while it was selected and waits for it.    *)
NoWaitInACircle ==
    \A S \in (SUBSET {t \in Txs : ~BooksTheEnded(t)}) \ {{}} :
        \E t \in S : \A row \in Wanted(t) : Holders(row) \cap S \subseteq {t}

\* What the committed tables say of a cell.
useOf == [c \in Cells |-> CASE locker[c] = "reserved" -> "held"
                            [] locker[c] = "occupied" -> "rented"
                            [] OTHER -> "free"]
tenantOf ==
    [c \in Cells |->
        IF \E s \in Sessions : session[s].cell = c /\ session[s].status \in {"selected", "active"}
        THEN CHOOSE s \in Sessions :
                session[s].cell = c /\ session[s].status \in {"selected", "active"}
        ELSE None]
seenBy == {s \in Sessions : session[s].status # "none"}

Allocation == INSTANCE CellAllocation WITH
                  Customers <- Sessions, Nobody <- None,
                  use <- useOf, tenant <- tenantOf, seen <- seenBy

(* However the statements of transactions interleave and wherever they are *)
(* rolled back, what is committed is the abstract allocation of cells: a   *)
(* transaction may be taken as one step, as RentalFlow does.               *)
TxImplementAllocation == Allocation!Spec
=============================================================================
