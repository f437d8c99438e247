---------------------------- MODULE MCRentalFlow ----------------------------
(* Small instances of RentalFlow and Revenue for TLC. *)
EXTENDS Revenue, TLC

\* Every cell in one location and of one size.
OneLocation == [c \in Cells |-> CHOOSE l \in Locations : TRUE]
OneSize == [c \in Cells |-> CHOOSE z \in Sizes : TRUE]

\* The clock of the backend is behind the clock of the database.
BehindByOne == -1

Interchangeable ==
    Permutations(Sessions) \cup Permutations(Rentals) \cup Permutations(Clients)
        \cup Permutations(Cells) \cup Permutations(Codes)
=============================================================================
