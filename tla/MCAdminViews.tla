----------------------------- MODULE MCAdminViews -----------------------------
(* A small instance of AdminViews for TLC. *)
EXTENDS MCAdminPanel, AdminViews

Asked(statuses, from, to) == [statuses |-> statuses, from |-> from, to |-> to]

\* All sessions, all from or up to a moment, and the statuses one at a time.
ListFilters ==
    {Asked(None, None, None), Asked(None, 1, None), Asked(None, None, 0),
     Asked({"selected"}, None, None), Asked({"closed"}, 0, 1),
     Asked({"expired"}, None, 0)}
=============================================================================
