------------------------------ MODULE MCRentalTx ------------------------------
(* A small instance of RentalTx for TLC. *)
EXTENDS RentalTx, SequencesExt

\* The sweep comes to the sessions in some one order.
OneAfterTheOther ==
    LET order == SetToSeq(Sessions)
    IN  [s \in Sessions |-> CHOOSE i \in DOMAIN order : order[i] = s]

Interchangeable == Permutations(Txs) \cup Permutations(Cells)
=============================================================================
