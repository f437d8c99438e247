------------------------------- MODULE Revenue -------------------------------
(***************************************************************************)
(* The revenue report of the admin panel: RevenueExport of                 *)
(* service/admin_service.go turns two dates into an interval, and          *)
(* RevenueByLocation of internal/repository/admin_panel_repository.go      *)
(* collects the payments in it with one statement.  The report is a        *)
(* function of the tables; the sums and the sheet are left out.            *)
(***************************************************************************)
EXTENDS RentalFlow

CONSTANT Day   \* 24 h

ASSUME DayAssumption == Day \in Nat \ {0}

\* An interval that includes the instant at which it ends.
RevenueByLocationClosed(l, from, to) ==
    {r \in Rentals :
        /\ payment[r].status = "paid"
        /\ LocationOf[session[payment[r].session].cell] = l
        /\ LET at == IF payment[r].paidAt # None THEN payment[r].paidAt ELSE payment[r].created
           IN  from <= at /\ at <= to}

\* The payments of the cells of location l that were paid in [from, to).
RevenueByLocation(l, from, to) ==
    {r \in Rentals :
        /\ payment[r].status = "paid"
        /\ LocationOf[session[payment[r].session].cell] = l
        /\ LET at == IF payment[r].paidAt # None THEN payment[r].paidAt ELSE payment[r].created
           IN  from <= at /\ at < to}

\* The end of the interval as it would be at the start of the last day.
RevenueExportWithoutLastDay(l, fromDate, toDate) ==
    IF toDate < fromDate THEN {} ELSE RevenueByLocation(l, fromDate * Day, toDate * Day)

\* Dates count days; the last day is included.
RevenueExport(l, fromDate, toDate) ==
    IF toDate < fromDate THEN {}
    ELSE RevenueByLocation(l, fromDate * Day, toDate * Day + Day)

Dates == 0..(MaxTime \div Day)

(* A report of days that are over never changes: a payment is entered      *)
(* under the moment the refresh saw it, however long after the customer    *)
(* paid or the booking was made, and is not touched again.                 *)
ReportsAreFinal ==
    [][\A l \in Locations, from, to \in Dates :
          to * Day + Day <= now =>
             RevenueExport(l, from, to)' = RevenueExport(l, from, to)]_vars

(* Every rental a customer was let in on is in the report of exactly one   *)
(* day, and the reports of the days make up the report of them all.        *)
LetInIsInTheRevenue ==
    \A k \in Clients :
        request[k].answer \in {"opened", "granted"} =>
            \E l \in Locations : \E day \in Dates :
                /\ request[k].rental \in RevenueExport(l, 0, MaxTime \div Day)
                /\ \A m \in Locations, other \in Dates :
                      request[k].rental \in RevenueExport(m, other, other)
                      <=> m = l /\ other = day
=============================================================================
