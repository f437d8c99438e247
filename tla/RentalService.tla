---------------------------- MODULE RentalService ----------------------------
(***************************************************************************)
(* The rental service as its clients see it: what became of each selection *)
(* and of the payment of the rental it turned into.  RentalFlow implements *)
(* this contract in every environment, and the screen of Kiosk is checked  *)
(* against it.  No cells, clocks or statements.                            *)
(***************************************************************************)
CONSTANTS
    Lockers,    \* locations, which the screens call lockers
    Ids,        \* selections; the rental of a selection has the same identity
    None

VARIABLE rental  \* rental[i]: the selection or rental i

Unselected == [state |-> "none", home |-> None, pay |-> "none"]

Row == [state : {"none", "held", "lapsed", "rented", "closed"},
        home  : Lockers \cup {None},
        pay   : {"none", "pending", "paid", "expired"}]

ServiceTypeOK == rental \in [Ids -> Row]

ServiceInit == rental = [i \in Ids |-> Unselected]

Held == {i \in Ids : rental[i].state = "held"}

\* What a read of a payment may find: the refresh before it settles it or not.
Settled(p) == IF p = "pending" THEN {"pending", "paid", "expired"} ELSE {p}

Lapsing(D) ==
    [i \in Ids |-> IF i \in D THEN [rental[i] EXCEPT !.state = "lapsed"] ELSE rental[i]]

(* Selections in D are swept because their time is over. *)
Lapse(D) ==
    /\ D \subseteq Held
    /\ rental' = Lapsing(D)

(* A selection is made at locker l, after the sweep of those in D. *)
Select(i, l, D) ==
    /\ rental[i].state = "none"
    /\ D \subseteq Held
    /\ rental' = [Lapsing(D) EXCEPT ![i] = [state |-> "held", home |-> l, pay |-> "none"]]

(* The selection becomes a rental whose payment is awaited. *)
Book(i) ==
    /\ rental[i].state = "held"
    /\ rental' = [rental EXCEPT ![i] =
                     [state |-> "rented", home |-> @.home, pay |-> "pending"]]

(* The payment is looked at and found to be p. *)
Refresh(i, p) ==
    /\ p \in Settled(rental[i].pay)
    /\ rental' = [rental EXCEPT ![i].pay = p]

\* Finishing with a status nobody else knows.
FinishOtherWord(i) ==
    /\ rental[i].state \in {"rented", "closed"}
    /\ rental' = [rental EXCEPT ![i].state = "finished"]

(* The rental is over; finishing it again changes nothing. *)
Finish(i) ==
    /\ rental[i].state \in {"rented", "closed"}
    /\ rental' = [rental EXCEPT ![i].state = "closed"]

ServiceNext ==
    \/ \E D \in SUBSET Ids : Lapse(D)
    \/ \E i \in Ids, l \in Lockers, D \in SUBSET Ids : Select(i, l, D)
    \/ \E i \in Ids : Book(i) \/ Finish(i)
    \/ \E i \in Ids, p \in {"pending", "paid", "expired"} : Refresh(i, p)

ServiceSpec == ServiceInit /\ [][ServiceNext]_rental
=============================================================================
