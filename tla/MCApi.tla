--------------------------------- MODULE MCApi ---------------------------------
(* Small instances of Api and of Intake for TLC. *)
EXTENDS Api, Intake, TLC

\* Lengths on both sides of every limit, and none that is a length.
AroundTheLimits == {-1, 0, 1} \cup UNION {{n, n + 1} : n \in {250, 450, 650, 900}}

Interchangeable == Permutations(Admins) \cup Permutations(Desks)
                       \cup Permutations(Instances) \cup Permutations(Secrets)

(* Customers' requests and administrators' share nothing: customers are    *)
(* served in the initial states of the panel, and one at a time.           *)
Init == ApiInit /\ IntakeInit

Next ==
    \/ counter = NoRequest /\ ApiNext /\ UNCHANGED counter
    \/ ApiInit /\ IntakeNext /\ UNCHANGED apiVars

Spec == Init /\ [][Next]_<<apiVars, counter>>
=============================================================================
