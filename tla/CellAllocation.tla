--------------------------- MODULE CellAllocation ---------------------------
(***************************************************************************)
(* What the rental service promises about the cells of a parcel locker: a  *)
(* cell is free, held for one customer who has not booked yet, or rented   *)
(* by one customer; nobody else gets it until that customer has left, and  *)
(* no customer comes back.  No clocks, payments, requests or tables.       *)
(***************************************************************************)
EXTENDS FiniteSets

CONSTANTS
    Cells,      \* the cells of all lockers
    Customers,  \* identities of customers; each one goes through at most once
    Nobody      \* the tenant of a free cell; not a customer

VARIABLES
    use,        \* use[c]: "free", "held" or "rented"
    tenant,     \* tenant[c]: the customer the cell belongs to, or Nobody
    seen        \* the customers that ever held a cell

allocVars == <<use, tenant, seen>>

TypeOK ==
    /\ use \in [Cells -> {"free", "held", "rented"}]
    /\ tenant \in [Cells -> Customers \cup {Nobody}]
    /\ seen \subseteq Customers

Init ==
    /\ use = [c \in Cells |-> "free"]
    /\ tenant = [c \in Cells |-> Nobody]
    /\ seen = {}

(* Holds lapse, several at a time: the cells in D go back to the pool. *)
Lapse(D) ==
    /\ D # {}
    /\ D \subseteq {c \in Cells : use[c] = "held"}
    /\ use' = [c \in Cells |-> IF c \in D THEN "free" ELSE use[c]]
    /\ tenant' = [c \in Cells |-> IF c \in D THEN Nobody ELSE tenant[c]]
    /\ UNCHANGED seen

(* A new customer takes a free cell, after the holds in D have lapsed. *)
Hold(c, s, D) ==
    /\ s \notin seen
    /\ D \subseteq {d \in Cells : use[d] = "held"}
    /\ use[c] = "free" \/ c \in D
    /\ use' = [d \in Cells |-> IF d = c THEN "held"
                               ELSE IF d \in D THEN "free" ELSE use[d]]
    /\ tenant' = [d \in Cells |-> IF d = c THEN s
                                  ELSE IF d \in D THEN Nobody ELSE tenant[d]]
    /\ seen' = seen \cup {s}

(* The customer who holds the cell books it. *)
Rent(c) ==
    /\ use[c] = "held"
    /\ use' = [use EXCEPT ![c] = "rented"]
    /\ UNCHANGED <<tenant, seen>>

(* The customer who rents the cell leaves. *)
Leave(c) ==
    /\ use[c] = "rented"
    /\ use' = [use EXCEPT ![c] = "free"]
    /\ tenant' = [tenant EXCEPT ![c] = Nobody]
    /\ UNCHANGED seen

Next ==
    \/ \E D \in SUBSET Cells : Lapse(D)
    \/ \E c \in Cells, s \in Customers, D \in SUBSET Cells : Hold(c, s, D)
    \/ \E c \in Cells : Rent(c) \/ Leave(c)

Spec == Init /\ [][Next]_allocVars

(* A cell has a tenant exactly while it is not free, no customer has two   *)
(* cells, and who has left never has one again: what the callers of the    *)
(* rental service rely on.                                                 *)
OneCellPerTenant ==
    /\ \A c \in Cells : use[c] = "free" <=> tenant[c] = Nobody
    /\ \A c, d \in Cells : tenant[c] = tenant[d] /\ c # d => tenant[c] = Nobody
    /\ \A c \in Cells : tenant[c] # Nobody => tenant[c] \in seen
=============================================================================
