-------------------------------- MODULE MCPages --------------------------------
(* The two pages that change something, the kiosk and the administrator's. *)
EXTENDS MCKiosk, AdminPage

CONSTANTS here, there, c1, c2

\* A location with two cells, and one without any.
TwoAndNone == here :> {c1, c2} @@ there :> {}

EitherPage == Interchangeable \cup Permutations(Logins) \cup Permutations({c1, c2})

(* They share nothing: one takes its steps while the other is as it was    *)
(* loaded.                                                                 *)
Init == KioskInit /\ PageInit

Next ==
    \/ PageInit /\ KioskNext /\ UNCHANGED pageVars
    \/ KioskInit /\ PageNext /\ UNCHANGED kioskVars

Spec == Init /\ [][Next]_<<kioskVars, pageVars>>
=============================================================================
