# LOCK'IT in TLA+

A verification project for the LOCK'IT luggage lockers: a Go backend over PostgreSQL
(`cmd/api`, `internal/`) and a React kiosk (`frontend/`). Paths are relative to the
root of the repository (`src/` in `PROJECT.json`).

Short names: **RF** is `internal/repository/rental_flow_repository.go`, **AP** is
`internal/repository/admin_panel_repository.go`, **LK** is
`frontend/src/pages/Locker/Locker.tsx`.

## 1. The system

A *location* (called locker in the API) is a cabinet; its *cells* are rows of the
table `lockers`. A customer selects a cell by size or dimensions, which holds it for
90 s; books it with a phone number, which makes a rental with an access code and a
payment; types the code, pays, has the cell opened, and finishes the rental.

| Component | State it keeps | Operations | Talks to |
|---|---|---|---|
| Rental flow (RF, `internal/service/rental_flow_service.go`) | `lockers.status`, `storage_sessions`, `payments` | select, book, check a code, get a payment, open, finish, refresh of a payment, sweep of expired selections | the database; called by the HTTP handlers and by the cron job |
| Expiry cron (`internal/cron/expired_selections.go`) | a ticker | one sweep a minute | RF |
| Start-up and seeding (`cmd/api/main.go`, RF:32) | none | upsert of the demo cells at every start | `lockers` |
| HTTP transport (`internal/transport/http/locker_handler.go`) | none | decode and check what was typed, call, encode | service |
| Admin panel repository (AP) | `lockers.status`, `device_commands`, `locker_events`, `audit_logs` | set a status, open by hand; list sessions, show the card of a cell, report the revenue | the same tables as the rental flow, without transactions |
| Admin service and auth (`internal/service/admin_service.go`, `internal/auth/middleware.go`, `internal/transport/http/admin_handler.go`) | rows of `admins`; JWTs held by clients | login, the check of a token, role checks, parsing | AP |
| Kiosk screen (LK, `frontend/src/shared/api/mvpApi.ts`) | reducer state, `isSubmitting`, the timers and flags of the payment effect | buttons, awaited requests, poll, timer, resets | the backend over HTTP |
| Admin screens (`frontend/src/pages/Admin/Admin.tsx`) | login, selection, loaded data, the draft of a status | five loading effects, login, buttons | the backend |
| List of lockers (`LockerList.tsx`) | the list | a load every 20 s | the backend |
| Earlier services (`internal/service/session_service.go` and its neighbours) | the same tables | not wired into `main.go` | |
| Device gateway (`internal/transport/device`) | none | stubs | |
| Observability, configuration, schema | | | |

What is hard here, and what would make it right:

* **Allocation of cells.** A cell's status and the session that uses it are two rows.
  Selection, booking, finishing, the sweep, the seeding and administrators write them.
  Right means: never two customers in one cell, no cell lost to the pool, no
  selection that stays for ever.
* **At-least-once requests.** Every POST of the kiosk can be lost, repeated, or
  served after nobody awaits it. Right means: a repeated booking or finish does no
  harm to anybody.
* **Autocommitted statements.** Checking a code, polling and opening are a refresh and
  a read; the panel's two operations are four or five statements; anything happens in
  between. Right means: nobody is let in unpaid or after the rental was closed, and an
  administrator's change does not break a customer's flow.
* **Time.** Holds and payments end by two clocks, and a payment changes only when it
  is looked at. Right means: paid within its window and never changed again.
* **Row locks.** A sweep locks many sessions and cells, alone or inside a selection;
  bookings and finishes lock a session and its cell. Right means: nobody waits in a
  circle, and what was waited for is looked at again.
* **Reading while others write.** The lists and cards of the panel are read by several
  statements, and a report is asked for again later. Right means: what is shown together
  does not contradict itself, and the past does not change.
* **Power that was taken away.** A token carries the role its account had at login, and
  nothing looks at the account again; during a rolling update two instances check and
  sign tokens, each with its own secret. Right means: power ends at a known time.
* **The administrator's page.** Five effects load what depends on the selection and the
  login, both of which change while they wait, and run after the paint of the render that
  calls for them. Right means: what is shown is what is selected, and a change goes to the
  cell it was drafted for.
* **The kiosk.** One handler, one poll and one timer may be awaiting replies while the
  screen moves on. Right means: no reply acts on a screen that is not its own, and the
  screen always becomes usable again.

`PROJECT.json` lists each hazard with its line and the properties that watch it.

## 2. The modules

| Module | Models | Its role |
|---|---|---|
| `CellAllocation` | what the tables promise about cells | abstract specification: free, held, rented; one tenant |
| `RentalService` | what clients may rely on | abstract specification: a selection lapses or becomes a rental; a payment settles once |
| `RentalFlow` | RF, the cron job, the seeding | the tables, requests and the clock; implements both of the above |
| `AdminPanel` | UpdateLockerStatus and ManualOpenLocker of AP | extends `RentalFlow`; administrators run statement by statement beside it |
| `Kiosk` | LK and the requests of `mvpApi.ts` | extends `RentalService`, which is its backend |
| `RentalTx` | the transactions of RF, statement by statement, with row locks and rollbacks | implements `CellAllocation`; shows why `RentalFlow` may take them as one step |
| `Revenue` | RevenueExport of `admin_service.go`, RevenueByLocation of AP | functions of the tables of `RentalFlow` |
| `AdminViews` | ListSessions and GetLockerDetail of AP | extends `AdminPanel`; readers beside customers and administrators |
| `Api` | `admin_service.go`, `auth/middleware.go`, `admin_handler.go`: logins, tokens, roles | accounts change beside it; instances, each with its `JWT_SECRET`, come and go |
| `Intake` | `locker_handler.go` and the checks of `rental_flow_service.go` | what a customer's request becomes before the repository sees it |
| `AdminPage` | `Admin.tsx` | the page of the administrator, over a backend that may answer anything |
| `MCRentalFlow`, `MCRentalTx`, `MCAdminPanel`, `MCAdminViews`, `MCKiosk`, `MCPages`, `MCApi` | | definitions for the `.cfg` files: constants and symmetry. `MCPages` and `MCApi` put specifications that share nothing into one run: each takes its steps while the other is in an initial state |
| `CellAllocationProofs`, `RentalFlowProofs`, `RentalRefinementProofs`, `RentalTxProofs`, `AdminPanelProofs`, `KioskProofs`, `AdminPageProofs`, `ApiProofs` | | theorems and proofs |

The composition: `Kiosk` is checked against the contract `RentalService`; `RentalFlow`
is checked, and proved, to implement that contract in every environment; so the two
halves of the system meet in one module. `CellAllocation` is implemented by
`RentalFlow` only where the code's own assumptions hold (`Faults = {}`), and the
violations below show that each of these assumptions is needed. `RentalTx` implements the
same `CellAllocation` from below: there a transaction is its statements.

### RentalFlow

State: `locker[c]` is `lockers.status`; `session[s]` the row of `storage_sessions`
whose selection id is `s` (status, cell, end of the hold, rental, code); `payment[r]`
the row of `payments` of rental `r`; `request[k]` the progress of a request made of
autocommitted statements; `now` the clock of the database. The backend's clock is
`now + ClockSkew`. A row with status `"none"` has not been inserted, so ids are drawn
from finite pools and a fresh id is one whose row is `"none"`.

Handlers that run in a transaction are one action each (`CleanupExpiredSelections`,
`CreateCellSelection`, `CreateBooking`, `FinishRental`); a transaction that rolls back
is an action that changes nothing (`RefuseBooking`, `RefuseCellSelection`). That
includes the refusal of a booking, whose two UPDATEs (RF:234-235) never commit because
the function returns an error and the deferred `Rollback` runs. Handlers of
autocommitted statements are one action per statement that matters:
`CheckAccessCode`/`GetPayment`/`OpenRental` start one, `refreshPaymentStatus` may or may
not take place (its error is ignored), `Read...` answers, and `Die` ends it anywhere.

`Faults` names what the environment may do: `"repeat_finish"` (a finish is sent again),
`"restart"` (an instance starts and seeds while rentals exist; Kubernetes replaces
instances one by one, so the old one may be serving).

Choices: the cell a selection takes is any free one, because `ORDER BY ... SKIP LOCKED`
takes the lowest number nobody else is holding at that moment. `opened_at` and
`finished_at` are written and never decide anything. `lockers.is_active` is set and never
cleared by the code. Prices, phones and formatting are left out.

### RentalTx

`tx[t]` is the transaction of connection `t`: which handler it serves, how far it has
come, the rows it has locked, and what it has written and not committed. At READ COMMITTED
a statement sees what was committed when it began, so the sweep takes its two lists
(`todo`, `reserved`) at once; a row it comes to is waited for (`CanLock`) and looked at
again, and stays locked also when it is passed over. `FOR UPDATE SKIP LOCKED` is
`PickCell`, which never waits. `Rollback` may come anywhere: an error, the ten seconds of
the cron job, a lost connection, the deadlock detector. A selection inserts its session
with an id of its own; a booking and a finish lock the session and then the cell.

What is assumed: `Place`, one order in which the plan of the sweep comes to sessions,
shared by all sweeps. The statement is one text and the table has one plan at a time;
with two orders PostgreSQL may find two sweeps waiting for each other and roll one of
them back, which `Rollback` covers as far as the tables are concerned. The table has
finitely many rows. Whether a hold is
over is the flag `over`; a booking may find it over or not, because it asks another
clock. Payments and codes are left to `RentalFlow`.

### Revenue

A report of dates `from..to` is the set of the payments it sums up: paid, in the
location, with `paid_at` (or `created_at` if there is none) in `[from, to + 1 day)`. `Day`
is the length of a day in the units of `now`. The sums and the spreadsheet are left out.

### Intake

`counter` is the request served last and what was made of it: the id in the path is looked
at first, then the body, then the size or dimensions, the phone or the code. Lengths are
in millimetres, so that the code's limits of 25, 45, 65 and 90 cm are 250, 450, 650 and
900 and a length just above a limit is in the model. A phone is how many digits it has,
the first one, and the rest; a code its length and letters.

### AdminPanel

`desk[a]` is the request of an administrator between two statements: the status read at
its start, then the count of active sessions (only for `free` and `maintenance`), the
write, and the two inserts whose errors are ignored; or the test of the status and the
insert into `device_commands`. `DeskDies` ends it anywhere. `overtaken` is history:
while the request was about to open a cell, another administrator wrote the cell's status.
`Targets` is the set of
statuses asked for; a run or a theorem restricts it when a claim depends on it.

### AdminViews

`view[v]` is a reading request between two statements: the page of sessions has been read
and the total has not (`"count"`), or the card of a cell waits for its rental, its payment
or its events. `missed` remembers a statement whose error the code drops. A filter has
statuses and the two limits of `started_at` (`from`, `to`); `started[s]` is that column,
by the clock of the backend, written with the selection and again with the booking
(RF:253). A booking between the page and the total therefore moves a session out of a list
with `to`, and out of a list of selected ones: `Steady` says which lists keep what they
have. Which rows are on a page is left open. The filters by location and cell, which do
not change, and by phone, which is written once, are left out; so are the list of locations
and the list of cells, which are made in the same way.

### Api

`account[a]` is a row of `admins`; `tokens` those handed out that have not expired, each
with the role its account had when the row was read and the secret it was signed with;
`desk[d]` a request between its steps: the row was read and the password is being checked
(`"login"`), or the token was accepted and the handler runs (`"handler"`). A reply is
"OK" or "refused"; which error code it is makes no difference here. `ChangeAccount` is a
hand in the database, since the application has no endpoint for it. `secret[i]` is the
`JWT_SECRET` instance `i` was started with, or `None` when it is not running
(`StartInstance`, `StopInstance`): a deployment of one replica with the default rolling
update (`k8s/backend-deployment.yaml`) runs the old instance beside the new one, each
signs and accepts with its own secret, and a secret may come back. Stopping an instance
ends the requests it serves. `idle` and `age` are history: how long ago an account last had
a role, and how long ago an instance was first started with a secret.
`Patience` bounds how long a request takes: the code has
no such limit on these handlers, their clients do, and `PowerEnds` says what it costs.

### AdminPage

`page` is the login, the selected location and cell, and `draft`, the cell (and login) the
chosen status stands for. `load[k]` is one effect: whether it is loading, whether its
error is shown, what its data are about, and what it awaits. `painted` is what the last
render had of the two, which is what is on the screen and what a click acts on; `due` the
effects that this render called for and that have not run.

The effects are passive (`useEffect`, React 19). What an answer changes is rendered and
painted (`Rendered`), and the page takes clicks before the effects have run
(`RunEffects`); what the effects change in turn is painted later (`Paint`). What a click
changes is rendered and its effects run at once (`RenderedForClick`), and again what they
change is painted later. Every render first runs what is still due. An effect that runs is
cleaned up, which makes what it awaited void (`isDisposed`, `AbortController`), and starts
again or clears its data. `Refused` is a 401 or 403 to a button, which is never made void.

Left out: the text of the reason, messages, the dates of a report.

### Kiosk

`screen` is the reducer's state and `isSubmitting`; `effect` the timer and the poll of
the payment step; `net` the requests, each with who awaits it (a handler, the poll, the
timer, nobody) and its reply once served. Serving is atomic here: which statements it
takes is `RentalFlow`'s matter. `Fail` loses a request before it is served, after it, or
has it fail at the page and be served later; the cleanup of the effect (`CleanedUp`)
turns what it awaited into requests nobody awaits. `change_locker` is the case the
effect at LK:260 is written for, a new `lockerId` under the same page; no link of the
application does it today. `MaxStray` bounds the requests
nobody awaits.

Left out: the action `access-granted` of the reducer, which nothing dispatches, and the
wording of messages, of which `told` keeps the two kinds a property is about.

## 3. The runs

All constants that are pools of ids are bounded by their size; `MaxTime` bounds `now`,
and a selection is only made if its hold ends before `MaxTime`, so that it can expire
within the bound. Symmetry is used in safety runs only.

| Run | Bounds | What it shows |
|---|---|---|
| `rental_faults` | 1 cell, 2 sessions, 2 rentals, 1 client, time 5, days of 3, all faults | `TypeOK`; no cell is lost (`NoLostCell`); bookings are whole (`BookingIsWhole`); payments are paid in their window and never change (`PaidWithinWindow`, `PaymentFinal`); nobody is let in unpaid (`LetInOnlyIfPaid`) or after the rental was closed (`GrantedWhileActive`); whoever was let in is in the report of one day (`LetInIsInTheRevenue`), and reports of past days never change (`ReportsAreFinal`); sessions keep their course (`SessionLifecycle`); the tables implement the contract (`ImplementsService`) |
| `rental_ledger` | 2 cells, 3 sessions, clock of the backend behind, no faults | the tables agree on every cell (`CellLedger`) and implement the allocation (`ImplementsAllocation`) |
| `tx_locks` | 2 cells, 2 sessions, 3 transactions at a time | nobody waits in a circle, bookings of sessions that are over aside (`NoWaitInACircle`); what is committed implements the allocation (`TxImplementAllocation`); `TxTypeOK` |
| `panel_any` | 1 cell, 2 sessions, every kind of status, restarts, with fairness; 2 administrators, of whom one at a time is served once a customer has come | `PanelTypeOK`; sessions keep their course; a cell out of use does not slip back into the pool (`OutOfUseStays`); a command to open a lock goes to a cell in use, unless another administrator came in between (`OpensWhatIsInUse`); every selection ends (`HoldsEnd`) |
| `panel_aside` | 1 cell, 2 sessions, 1 administrator who only takes cells out of use, 1 reader | two customers never share a cell (`NobodySharesACell`); a list of sessions that cannot leave it is never longer than its total, with and without limits of `started_at` (`PageWithinTotal`); a card never shows a rental with an older payment (`CardInOrder`); `ViewsTypeOK` |
| `kiosk_page` | kiosk: 2 lockers, 2 rentals, 1 stray request, reloads and changes of the locker; administrator: 2 logins, a location with 2 cells and one without any | `KioskTypeOK`, `ScreenIsComplete`, `OneHandlerAtATime`, `EffectAwaitsItsOwn`, `PaymentCompletesItsRental`, `BookedWhereChosen`; what is shown is what is selected (`ShownIsSelected`), and a status is written to the cell it was drafted for (`WritesWhatWasShown`), both but for the moment in which the effect that replaces what is shown is already called for |
| `kiosk_ends` | 2 lockers, 1 rental, 1 stray request, with fairness | the buttons come back and the payment screen is left (`ButtonsComeBack`, `PaymentScreenEnds`) |
| `api_power` | 1 account, 1 request at a time, tokens of 1 unit, requests of at most 1, 2 instances, 2 secrets, 1 token at a time; lengths -1, 0, 1 and on both sides of every limit | power ends with the life of a token (`PowerEnds`) and on an instance with a new secret at once (`NewSecretLocksOut`); `ApiTypeOK`; the smallest cell that fits is asked for (`SmallestThatFits`); a phone typed with 7 or 8 is one phone and different ones stay different (`PhonesKeepApart`) |

Why these bounds are enough for what they ask: two customers of one cell are the least
that can share or steal it, and the second one is the next customer; a third session and
a second cell in `rental_ledger` let a sweep, a hold and a rental exist at once. The
holds of 1 or 2 units and payments of 2 units with a delay of 1 give each WHEN of the
refresh its turn and let both the sweep and the booking be the first to see the end of a
hold. One administrator is enough to interleave with customers at every statement; two of
them race in `panel_any` as long as no session exists, which is where they can put a cell
out of use behind each other's back (`OneBesideCustomers`); the theorems hold for any
number, without that restriction. Three transactions are the least that can wait in a circle
of more than two, and two cells and two sessions let each of them hold a row the next one
wants. Tokens and requests of 1 unit let a login, the life of a token and a handler
overlap with every change of the account, and two instances with two secrets let the old
one sign and serve beside the new one and its secret come back. On the administrator's page the answers that
come too late or fail are followed for the card (`Troubled`), whose answers
change the draft, and the buttons are the login and the change of a
status (`Buttons`); opening by hand and the report are served by the same handlers but
for what they send. Two rentals and two lockers are what a
late reply or timer can confuse on the kiosk. The safety theorems of section 4 do not
depend on any bound.

Fairness. `panel_any` (`FairRaceSpec`) assumes that the cron job runs while there is something to
sweep (its ticker is never stopped) and that time passes; customers and administrators
may stop for ever. `kiosk_ends` assumes that the browser's timer fires, that an answer
which arrived is given to the page, and that a request of a handler or of the timer is
answered or fails in the end: `fetch` has no limit of the page's own, so this is the
limit of the browser and of the proxy in front of the backend (`nginx`). Without that
assumption a request that hangs keeps the buttons disabled, or the payment screen up,
for as long as it hangs.

### Disagreements

Each of these runs ends in a counterexample, and `PROJECT.json` quotes the line it
disagrees with.

| Run | What happens |
|---|---|
| `double_finish` | A rental is closed, the next customer rents the cell, the first finish arrives again: RF:451 frees the cell under the second customer |
| `open_closed` | A closed and paid rental opens the cell the next customer uses, because RF:404-421 does not look at the session |
| `panel_shared` | An administrator frees a cell that is selected (AP:310 counts active sessions only), and two customers book it |
| `kiosk_told` | The reply to a booking is lost; the second submission is told that the hold has expired, although the rental is active, and its code is lost to the customer |

A circle of waits is possible with three sessions, and is why `NoWaitInACircle` has the
exception `BooksTheEnded`. CreateBooking locks the session (RF:207) and its cell before it
looks at the status, so a booking of a session that is over by now, and whose cell has
gone to the next customer, holds the old session and waits for that cell. A sweep that
expires the next customer's session has locked the cell and waits for a third session,
which an older sweep has locked; and the older sweep, which began while the old session
was selected, waits for the old session. PostgreSQL finds such a circle after a second and
rolls one of the transactions back, which does no harm to the tables
(`TransactionsImplementAllocation`), but one customer is refused or one sweep is late.

Further observations met on the way that have no run of their own: a start of the backend
sets every seeded cell free, also one in use (RF:61), which with `Faults = {"restart"}`
breaks `BelongingsKeepTheCell` as the second finish does; a selection whose sweep fails is
told LOCKER_NOT_FOUND, because the error is dropped and the aborted transaction refuses
the next statement (RF:147-159); on the administrator's page a 403 for want of a role, or
a 401 to a request of an earlier login, ends the login that is current and calls it
expired (`Admin.tsx:659`); in the frame after an answer has selected another cell
(`Admin.tsx:413`), and before the loading of its card is painted, the old card is still
there and the button works: it sends the draft made for one cell to another
(`Admin.tsx:644`). Without the exception `Outdated` TLC finds this in `ShownIsSelected` and
`WritesWhatWasShown`; nothing in the repository claims otherwise, so there is no run of its
own. On the same page a change that completes reloads the card and with it replaces the
draft, and the reason typed for one cell stays in its field for the next; polls of the
list of lockers may overlap and be answered out of order (`LockerList.tsx:68`); the count and the
write of `UpdateLockerStatus` are two statements, so a booking in between gives a cell
with an active rental the status `maintenance` or `free`; the inserts into `audit_logs`
may fail unnoticed (AP:329); the payment screen's timer shows the active rent whatever
the payment is, and `FinishRental` looks at no payment, so a rental may end unpaid; the
opening the poll sends is not awaited by the timer and may be served after the finish;
a payment nobody looks at for five minutes expires and cannot be replaced.

## 4. The proofs

TLAPS proves the following for every number of cells, sessions, rentals and clients,
every length of holds and payments, and every difference of the clocks. The assumptions
are those of the modules: the shape of the constants, times in `Nat`, that `None`
is no id, and where rows are counted or ordered that they are finitely many.

* `RentalFlowProofs`, in every environment (any `Faults`): the inductive invariant
  `RentalInv` is the conjunction of the five state properties and of `RequestsAreBooked`,
  which says that a request past its first statement is about a booked rental. Without
  it `Read...` would look up a payment that may not exist, and types could not be
  shown to hold. From it follow `TypeCorrect`, `CellsNeverLost`, `BookingsWhole`,
  `PaymentsInWindow`, `NobodyInUnpaid` and, with lemmas about what one step does to a
  session, a payment and a request, the action properties `SettledPaymentsStay`,
  `SessionsKeepTheirCourse` and `GrantsAreCurrent`.
* `RentalRefinementProofs`, three contracts. In every environment,
  `RentalFlowImplementsService`: each table row is read as clients see it (`View`); a
  sweep, a booking, a finish and a refresh of one row are the contract's actions because
  `BookingIsWhole` makes a payment belong to one session. In every environment and for
  every length of a day, `ReportsStayFinal` and `LetInIsReported`: a payment becomes paid
  at the moment of the refresh (`PaidNow`), so never on a day that is over, and is final
  then; an instant lies in exactly one day (`DayOfInstant`); `PaidInTime` is the invariant
  that `RentalInv` lacks. For `Faults = {}`, `CellsAreExclusive`: a cell is taken only when
  the table says free, and with `CellLedger` the table says free only when nobody lives
  there. From it `RentalFlowImplementsAllocation`: first what the mapping reads in a
  state (`MappingReads`), then one abstract step per transaction (`StepImplements`); and
  `BelongingsSafeWithoutFaults`, which says what the finding of `double_finish` needs.
* `CellAllocationProofs`: `OneCellEach`, the promise of the abstract allocation itself.
* `RentalTxProofs`, for any number of connections and cells and finitely many sessions.
  `TxInv` says, beside the types and that the committed tables agree, what each
  transaction knows in the middle of its statements (`Knows`): which rows it has locked,
  that what it is going to expire and free is still as it saw it, and that a sweep has
  passed by every session before those it still has to come to. From it
  `TransactionsImplementAllocation`: what a commit writes is one abstract step, and
  everything before it is none. The promise of `CellAllocation` is then the tables' own
  (`TablesKeepThePromise`, by instantiating `OneCellEach`): `TxInv` does not say that no
  reserved cell is left without a session, the refinement does. `TransactionsGoOn`: in a
  circle everybody would wait for a session that a sweep has locked, because a cell is kept from the others by who has locked its
  customer; of the sessions that sweeps of the circle wait for take the last one in `Place`
  (they are finitely many): the sweep that keeps it waits for a later one.
* `AdminPanelProofs`: `PanelTypeCorrect` and `SessionsSurviveAdmins` for any statuses
  written, by `PanelInv`, which adds to the invariants above that a request at its desk
  has a cell and a target (`DeskIsAddressed`); `CellsPutAsideAreNotShared` and, from it,
  `OneRentalUnlessFreed` for administrators who only take cells out of use;
  `CellsPutAsideStayAside` wherever a rental is finished once (a second finish frees the
  cell whatever it is: that is the finding of `double_finish`, and the hypothesis is needed); and
  `OpenedByHandInUse`, by the invariant `CommandsInTime`: between the look at a cell and the
  command, every step of the rental flow leaves a cell in use in use, so that only another
  administrator's write can put it aside, which `overtaken` remembers. For the readers `ViewsInv` adds that payments were made within the
  modelled time and what each reader has in its hands (`ViewInOrder`): a page is still a
  part of what will be counted, because sessions are not deleted, an ended one stays
  what it is (`WhatWasReadStays`), and `started_at` moves forward only and no more once a
  session is over (`StartedMovesForward`, `MatchingStays`); a payment read after a rental is not older, because
  the rental's own payment is there to be found (`SomePaymentIsLast`). From it
  `ViewsTypesHold`, `PagesWithinTotal` and `CardsInOrder`, for finitely many sessions.
  `ReadsLeaveThePanel` carries the other theorems over to `ViewsSpec`.
* `KioskProofs`, for any faults of the page: the six properties of `kiosk_page` about the
  kiosk.
  `KioskInv` adds to the three state properties that messages name the rental they are
  about (`Addressed`), so that the backend finds a row for each, and that the flags of
  the payment effect tell what it awaits while no handler runs on the payment step
  (`EffectIsAwaited`); without the latter `inFlight` could be clear with a poll under way.
  `PaymentsCompleteTheirRentals` and `SelectionsAreBookedAtHome` single out the one step
  that can do what the action property restricts and look at that step.
* `AdminPageProofs`, for any locations, cells and logins, between a render and its effects
  as well: `PageInv` says of each effect that is not due that what it awaits it would ask
  for with the page of the last render, and that what can be seen of it belongs to that
  page (`InOrder`); that the draft of the last render belongs to its card (`Drafted`); and
  that what the effects have changed since is forgotten data and nothing else (`Behind`).
  A render keeps it because it calls for exactly the effects that depend on what has
  changed (`NewFrame`). From it `ShownBelongsToSelection` and `WritesForTheCardShown`.
* `ApiProofs`. `ApiInv` bounds the age of a role on its way from the row of the account
  into a request, a token (`idle + left <= TokenTTL + Patience`) and a handler; from it
  `PowerOfARoleEnds`. Beside it stand the ages of the secrets: a role in a token is no older
  than the secret it is signed with, and one in a request no older than the secret of the
  instance that serves it, which stays that instance's while it runs; from this
  `SecretEndsAllPower`, for any numbers of accounts, requests, instances and secrets.
  For `Intake`, `SelectionsFit` for sides
  of any length and `PhonesAreOneNumber`.

What TLC said of them first: each inductive invariant was run as an invariant of its
specification before it was proved. One property turned out to be false beyond the bounds
of its run: `NoWaitInACircle` holds for two sessions and for three does not, for the
reason given in section 3; the exception `BooksTheEnded` came out of that.

Only model-checked: the liveness properties (`HoldsEnd`, `ButtonsComeBack`,
`PaymentScreenEnds`), which are out of the prover's reach because of `ENABLED`. Facts by
induction over data are not used either, except that a set of numbers that is not empty has a
least element, which the library states without an operator parameter (`WFMin`).

## 5. Not modelled, and the plan

Not modelled:

* pure I/O and wording: HTTP encoding, logging, metrics, configuration, probes;
* handlers that only pass an id on and return what one statement read (GetRental, the
  lists of locations and of their cells, the list of lockers of the kiosk): they change
  nothing, and a list read in one statement cannot contradict itself;
* `LockerList.tsx`, which keeps nothing but the list it shows; its overlapping polls are
  listed as a hazard;
* the device gateway (stubs that no route reaches) and the earlier session, payment and
  locker services, which nothing constructs: no run of the program reaches a state of
  theirs;
* `AdminRepository.Create`, which has no caller.

Every invariant and every action property of the passing runs is a theorem. What is left
of the plan: what `RentalService` promises, stated and proved on its own and carried over to
the tables as is done for `CellAllocation`; and the parts of the components marked "partly".
