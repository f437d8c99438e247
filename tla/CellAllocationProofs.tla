------------------------ MODULE CellAllocationProofs ------------------------
(* The abstract allocation of cells keeps its own promise. *)
EXTENDS CellAllocation, TLAPS

AllocInv == TypeOK /\ OneCellPerTenant

(* Whatever holds, bookings, lapses and departures happen, a cell has one  *)
(* tenant while it is not free and nobody has two cells: the promise that  *)
(* the tables of the rental flow inherit by implementing CellAllocation.   *)
THEOREM OneCellEach ==
    ASSUME Nobody \notin Customers
    PROVE  Spec => []OneCellPerTenant
<1>1. Init => AllocInv
  BY DEF Init, AllocInv, TypeOK, OneCellPerTenant
<1>2. AllocInv /\ [Next]_allocVars => AllocInv'
  <2>. SUFFICES ASSUME AllocInv, [Next]_allocVars
                PROVE  AllocInv'
    OBVIOUS
  <2>. USE DEF AllocInv, TypeOK, OneCellPerTenant
  <2>1. ASSUME NEW D \in SUBSET Cells, Lapse(D)
        PROVE  AllocInv'
    BY <2>1 DEF Lapse
  <2>2. ASSUME NEW c \in Cells, NEW s \in Customers, NEW D \in SUBSET Cells, Hold(c, s, D)
        PROVE  AllocInv'
    <3>1. TypeOK'
      BY <2>2 DEF Hold
    <3>2. \A d \in Cells : tenant[d] # s
      BY <2>2 DEF Hold
    <3>3. OneCellPerTenant'
      BY <2>2, <3>2 DEF Hold
    <3>. QED  BY <3>1, <3>3
  <2>3. ASSUME NEW c \in Cells, Rent(c)
        PROVE  AllocInv'
    BY <2>3 DEF Rent
  <2>4. ASSUME NEW c \in Cells, Leave(c)
        PROVE  AllocInv'
    BY <2>4 DEF Leave
  <2>5. CASE UNCHANGED allocVars
    BY <2>5 DEF allocVars
  <2>. QED  BY <2>1, <2>2, <2>3, <2>4, <2>5 DEF Next
<1>. QED  BY <1>1, <1>2, PTL DEF Spec, AllocInv
=============================================================================
