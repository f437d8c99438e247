---------------------------- MODULE MCAdminPanel ----------------------------
(* Small instances of AdminPanel for TLC. *)
EXTENDS AdminPanel, TLC

\* Every cell in one location and of one size.
OneLocation == [c \in Cells |-> CHOOSE l \in Locations : TRUE]
OneSize == [c \in Cells |-> CHOOSE z \in Sizes : TRUE]

\* Administrators may take cells out of use and nothing else.
PutAside == {"maintenance", "out_of_service"}

\* Every kind of status an administrator may ask for: a free cell, a taken one,
\* and one out of use (which the code treats in the two ways it has).
EveryKind == {"free", "occupied", "maintenance", "out_of_service"}

(* Administrators race each other while no customer has come; when one     *)
(* has, one administrator at a time is served beside the customers.        *)
OneBesideCustomers ==
    \/ \A s \in Sessions : session[s].status = "none"
    \/ \E a \in Admins : \A b \in Admins \ {a} : desk[b] = NoDesk

RaceSpec == PanelInit /\ [][PanelNext /\ OneBesideCustomers']_panelVars

FairRaceSpec ==
    /\ RaceSpec
    /\ WF_panelVars(CleanupExpiredSelections /\ UNCHANGED <<desk, commands>>)
    /\ WF_panelVars(Tick /\ UNCHANGED <<desk, commands>>)

Interchangeable ==
    Permutations(Sessions) \cup Permutations(Rentals) \cup Permutations(Cells)
        \cup Permutations(Admins)
=============================================================================
