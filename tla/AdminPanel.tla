----------------------------- MODULE AdminPanel -----------------------------
(***************************************************************************)
(* The two operations of the admin panel that change something, as         *)
(* internal/repository/admin_panel_repository.go performs them beside the  *)
(* rental flow: PATCH /admin/lockers/{id}/status and POST                  *)
(* /admin/lockers/{id}/open.  Neither uses a transaction, so each is a     *)
(* sequence of autocommitted statements, and customers and other           *)
(* administrators are served between any two of them.                      *)
(***************************************************************************)
EXTENDS RentalFlow

CONSTANTS
    Admins,     \* requests of administrators being served at one time
    Targets     \* statuses they ask for

ASSUME TargetsAssumption == Targets \subseteq CellStatus

VARIABLES
    desk,       \* desk[a]: how far the request of administrator a has come
    commands    \* cells with an open_lock command in device_commands

panelVars == <<locker, session, payment, request, now, desk, commands>>

Desk == [at      : {"count", "write", "command", "event", "audit", "answered"},
         cell    : Cells \cup {None},
         target  : CellStatus \cup {None},
         prev    : CellStatus \cup {None},
         answer  : {"none", "done", "active_rental", "not_functional"},
         overtaken : BOOLEAN]   \* history: another wrote the status meanwhile

NoDesk == [at |-> "answered", cell |-> None, target |-> None, prev |-> None,
           answer |-> "none", overtaken |-> FALSE]

PanelTypeOK ==
    /\ TypeOK
    /\ desk \in [Admins -> Desk]
    /\ commands \subseteq Cells

PanelInit ==
    /\ Init
    /\ desk = [a \in Admins |-> NoDesk]
    /\ commands = {}

HasActive(c) == \E s \in Sessions : session[s].status = "active" /\ session[s].cell = c

-----------------------------------------------------------------------------
(* UpdateLockerStatus *)

(* The status is read for the log; only two of the targets are checked. *)
UpdateLockerStatus(a, c, st) ==
    /\ desk[a].at = "answered"
    /\ desk' = [desk EXCEPT ![a] =
                   [at |-> IF st \in {"free", "maintenance"} THEN "count" ELSE "write",
                    cell |-> c, target |-> st, prev |-> locker[c],
                    answer |-> "none", overtaken |-> FALSE]]
    /\ UNCHANGED <<vars, commands>>

CountActive(a) ==
    /\ desk[a].at = "count"
    /\ \/ /\ HasActive(desk[a].cell)
          /\ desk' = [desk EXCEPT ![a].at = "answered", ![a].answer = "active_rental"]
       \/ /\ ~HasActive(desk[a].cell)
          /\ desk' = [desk EXCEPT ![a].at = "write"]
    /\ UNCHANGED <<vars, commands>>

\* The requests when the status is written; whoever is to open the same cell
\* is overtaken.
Written(a) ==
    [b \in Admins |->
        IF b = a THEN [desk[b] EXCEPT !.at = "event"]
        ELSE [desk[b] EXCEPT !.overtaken =
                 @ \/ (desk[b].at = "command" /\ desk[b].cell = desk[a].cell)]]

\* The status written together with the sessions of the cell.
WriteStatusEndsSessions(a) ==
    /\ desk[a].at = "write"
    /\ locker' = [locker EXCEPT ![desk[a].cell] = desk[a].target]
    /\ session' = [s \in Sessions |->
                      IF session[s].cell = desk[a].cell /\ desk[a].target = "out_of_service"
                      THEN [session[s] EXCEPT !.status = "closed"] ELSE session[s]]
    /\ desk' = Written(a)
    /\ UNCHANGED <<payment, request, now, commands>>

WriteStatus(a) ==
    /\ desk[a].at = "write"
    /\ locker' = [locker EXCEPT ![desk[a].cell] = desk[a].target]
    /\ desk' = Written(a)
    /\ UNCHANGED <<session, payment, request, now, commands>>

-----------------------------------------------------------------------------
(* ManualOpenLocker *)

OutOfUse == {"maintenance", "out_of_service"}

\* Opening that looks at out_of_service only.
ManualOpenInMaintenance(a, c) ==
    /\ desk[a].at = "answered"
    /\ LET row == [at |-> "command", cell |-> c, target |-> None,
                   prev |-> locker[c], answer |-> "none", overtaken |-> FALSE]
       IN  \/ /\ locker[c] = "out_of_service"
              /\ desk' = [desk EXCEPT ![a] = [row EXCEPT !.at = "answered",
                                                         !.answer = "not_functional"]]
           \/ /\ locker[c] # "out_of_service"
              /\ desk' = [desk EXCEPT ![a] = row]
    /\ UNCHANGED <<vars, commands>>

ManualOpenLocker(a, c) ==
    /\ desk[a].at = "answered"
    /\ LET row == [at |-> "command", cell |-> c, target |-> None,
                   prev |-> locker[c], answer |-> "none", overtaken |-> FALSE]
       IN  \/ /\ locker[c] \in OutOfUse
              /\ desk' = [desk EXCEPT ![a] = [row EXCEPT !.at = "answered",
                                                         !.answer = "not_functional"]]
           \/ /\ locker[c] \notin OutOfUse
              /\ desk' = [desk EXCEPT ![a] = row]
    /\ UNCHANGED <<vars, commands>>

IssueCommand(a) ==
    /\ desk[a].at = "command"
    /\ commands' = commands \cup {desk[a].cell}
    /\ desk' = [desk EXCEPT ![a] = [@ EXCEPT !.at = "event", !.overtaken = FALSE]]
    /\ UNCHANGED vars

-----------------------------------------------------------------------------
(* Both operations end with a row in locker_events and a row in            *)
(* audit_logs.  The errors of the two INSERTs are ignored and nothing that *)
(* decides reads the rows, so only the steps are kept.                     *)

LogEvent(a) ==
    /\ desk[a].at = "event"
    /\ desk' = [desk EXCEPT ![a].at = "audit"]
    /\ UNCHANGED <<vars, commands>>

LogAudit(a) ==
    /\ desk[a].at = "audit"
    /\ desk' = [desk EXCEPT ![a].at = "answered", ![a].answer = "done"]
    /\ UNCHANGED <<vars, commands>>

(* The request is cancelled between two statements, or its instance dies. *)
DeskDies(a) ==
    /\ desk[a].at # "answered"
    /\ desk' = [desk EXCEPT ![a] = NoDesk]
    /\ UNCHANGED <<vars, commands>>

AdminNext ==
    \E a \in Admins :
        \/ \E c \in Cells, st \in Targets : UpdateLockerStatus(a, c, st)
        \/ CountActive(a)
        \/ WriteStatus(a)
        \/ \E c \in Cells : ManualOpenLocker(a, c)
        \/ IssueCommand(a)
        \/ LogEvent(a)
        \/ LogAudit(a)
        \/ DeskDies(a)

RentalNext == Next /\ UNCHANGED <<desk, commands>>

PanelNext == RentalNext \/ AdminNext

PanelSpec == PanelInit /\ [][PanelNext]_panelVars

(* The cron job is a ticker that is never stopped, and time passes.        *)
(* Customers and administrators need not do anything.                      *)
FairPanelSpec ==
    /\ PanelSpec
    /\ WF_panelVars(CleanupExpiredSelections /\ UNCHANGED <<desk, commands>>)
    /\ WF_panelVars(Tick /\ UNCHANGED <<desk, commands>>)

-----------------------------------------------------------------------------
(* What administrators cannot break *)

(* A cell an administrator took out of use comes back by the hand of an    *)
(* administrator, of the customer who had it already (booking his          *)
(* selection or finishing his rental) or of the seeding, and never because *)
(* a selection expired or a new customer came.                             *)
OutOfUseStays ==
    [][\A c \in Cells :
          locker[c] \in OutOfUse /\ locker'[c] # locker[c] =>
             \/ \E a \in Admins : desk[a].at = "write" /\ desk[a].cell = c
             \/ \E s \in Sessions :
                   /\ session[s].cell = c
                   /\ <<session[s].status, session'[s].status>> \in
                         {<<"selected", "active">>, <<"active", "closed">>}
             \/ "restart" \in Faults /\ c \in SeededCells /\ session' = session]_panelVars

(* Administrators who only take cells out of use, at whatever moment of    *)
(* the flow, never make two customers share a cell: the cell of a customer *)
(* is not offered as free and has no other customer.                       *)
NobodySharesACell ==
    \A s \in Sessions : Live(s) =>
        /\ locker[session[s].cell] # "free"
        /\ \A t \in Sessions :
              Live(t) /\ session[t].cell = session[s].cell => t = s

(* When the command to open a lock is written, the cell is in use, unless  *)
(* another administrator has written its status since this one read it:    *)
(* no sweep, booking, finish or start of an instance between the two       *)
(* statements puts it out of use.                                          *)
OpensWhatIsInUse ==
    [][\A a \in Admins :
          desk[a].at = "command" /\ desk'[a].at = "event" =>
             locker[desk[a].cell] \notin OutOfUse \/ desk[a].overtaken]_panelVars

-----------------------------------------------------------------------------
(* What the docs say of the flow *)

(* backend-api-endpoints.md:455: reserving and handing out a cell has no   *)
(* races, so a cell is never handed out to two customers.                  *)
OneRentalPerCell ==
    \A s, t \in Sessions :
        /\ session[s].status = "active" /\ session[t].status = "active"
        /\ session[s].cell = session[t].cell
        => s = t
=============================================================================
