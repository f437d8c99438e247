---------------------------- MODULE RentalTxProofs ----------------------------
(***************************************************************************)
(* Proofs about the statements and the row locks of RentalTx, for any      *)
(* number of transactions, sessions and cells.                             *)
(***************************************************************************)
EXTENDS RentalTx, TLAPS, FiniteSetTheorems, WellFoundedInduction

-----------------------------------------------------------------------------
(* The inductive invariant *)

Lives(row) == row.status \in {"selected", "active"}

\* The committed tables S and L agree.
Agree(S, L) ==
    /\ \A s \in Sessions : S[s].status # "none" => S[s].cell \in Cells
    /\ \A s \in Sessions : S[s].status = "selected" => L[S[s].cell] = "reserved"
    /\ \A s \in Sessions : S[s].status = "active" => L[S[s].cell] = "occupied"
    /\ \A s, r \in Sessions : Lives(S[s]) /\ Lives(S[r]) /\ S[s].cell = S[r].cell => s = r

(* What a sweep, or a selection, knows in its record x: what it expires    *)
(* and frees is locked and still as it saw it, no cell of what it expires  *)
(* is forgotten, and it has passed by every session before those to come.  *)
Sweeping(x, S, L) ==
    /\ x.at \in {"sweep", "pick", "write", "commit"}
    /\ x.op = "sweep" => x.at = "sweep"
    /\ \A s \in x.todo : S[s].status # "none"
    /\ \A s \in x.expired : s \in x.locks /\ S[s].status = "selected"
    /\ \A s \in x.todo \cup x.expired : S[s].cell \in x.reserved \cup x.freed
    /\ \A c \in x.freed : c \in x.locks /\ \E s \in x.expired : S[s].cell = c
    /\ \A s \in x.locks \cap Sessions : S[s].status = "none" => x.at = "commit" /\ x.id = s
    /\ \A s \in x.locks \cap Sessions, r \in x.todo : Place[s] < Place[r]
    /\ \A c \in x.locks \cap Cells : c \in x.freed \/ x.at \in {"write", "commit"}

Selecting(x, S, L) ==
    /\ x.at \in {"sweep", "pick", "write"} => x.id = None
    /\ x.at \in {"pick", "write", "commit"} =>
          x.todo = {} /\ \A s \in x.expired : S[s].cell \in x.freed
    /\ x.at \in {"write", "commit"} =>
          x.cell \in x.locks \cap Cells /\ (L[x.cell] = "free" \/ x.cell \in x.freed)
    /\ x.at = "commit" => x.id \in x.locks \cap Sessions /\ S[x.id].status = "none"

(* What a booking or a finish knows: the session it is about and its cell, *)
(* which of the two it has locked, and what it found.                      *)
Serving(x, S) ==
    /\ x.at \in {"session", "cell", "write", "commit"}
    /\ x.id \in Sessions /\ x.cell \in Cells
    /\ S[x.id].status # "none" /\ S[x.id].cell = x.cell
    /\ x.expired = {} /\ x.freed = {}
    /\ x.at = "session" => x.locks = {}
    /\ x.at = "cell" => x.locks = {x.id}
    /\ x.at \in {"write", "commit"} => x.locks = {x.id, x.cell}
    /\ x.op = "booking" /\ x.at = "commit" => S[x.id].status = "selected"
    /\ x.op = "finish" => x.at # "commit" /\ S[x.id].status = "active"

Knows(x, S, L) ==
    /\ x.op \in {"sweep", "selection"} => Sweeping(x, S, L) /\ Selecting(x, S, L)
    /\ x.op \in {"booking", "finish"} => Serving(x, S)
    /\ x.op = "none" => x = NoTx

LocksExclude == \A t, u \in Txs : t # u => tx[t].locks \cap tx[u].locks = {}

FinishedOnce ==
    \A t, u \in Txs : tx[t].op = "finish" /\ tx[u].op = "finish" /\ tx[t].id = tx[u].id => t = u

TxInv ==
    /\ TxTypeOK
    /\ Agree(session, locker)
    /\ LocksExclude
    /\ FinishedOnce
    /\ \A t \in Txs : Knows(tx[t], session, locker)

-----------------------------------------------------------------------------
(* Every step keeps the invariant *)

(* What a transaction knows stays true while others write only rows it has *)
(* not locked, cells of sessions do not change, and nobody else closes the *)
(* rental it finishes.                                                     *)
LEMMA KnowsStays ==
    ASSUME NEW x \in Tx,
           NEW S \in [Sessions -> SessionRow], NEW R \in [Sessions -> SessionRow],
           NEW L, NEW M,
           Knows(x, S, L),
           \A s \in Sessions : s \in x.locks => R[s] = S[s],
           \A s \in Sessions : S[s].status # "none" =>
               R[s].status # "none" /\ R[s].cell = S[s].cell,
           x.op = "finish" => R[x.id].status = "active",
           \A c \in Cells : c \in x.locks => M[c] = L[c]
    PROVE  Knows(x, R, M)
<1>1. CASE x.op \in {"sweep", "selection"}
  <2>1. Sweeping(x, S, L) /\ Selecting(x, S, L)
    BY <1>1 DEF Knows
  <2>2. /\ x.todo \subseteq Sessions /\ x.expired \subseteq Sessions
        /\ x.freed \subseteq Cells
    BY DEF Tx
  <2>3. Sweeping(x, R, M)
    BY <2>1, <2>2 DEF Sweeping
  <2>4. Selecting(x, R, M)
    BY <2>1, <2>2 DEF Selecting, Sweeping
  <2>. QED  BY <1>1, <2>3, <2>4 DEF Knows
<1>2. CASE x.op \in {"booking", "finish"}
  <2>1. Serving(x, S)
    BY <1>2 DEF Knows
  <2>2. Serving(x, R)
    BY <1>2, <2>1 DEF Serving
  <2>. QED  BY <1>2, <2>2 DEF Knows
<1>3. CASE x.op = "none"
  BY <1>3 DEF Knows
<1>. QED  BY <1>1, <1>2, <1>3 DEF Tx

(* A statement within transaction t writes nothing that others could see.  *)
LEMMA StatementKeeps ==
    ASSUME TxInv, UNCHANGED <<locker, session>>, over' \subseteq Sessions,
           NEW t \in Txs, NEW x \in Tx,
           tx' = [tx EXCEPT ![t] = x],
           Knows(x, session, locker),
           \A u \in Txs : u # t => x.locks \cap tx[u].locks = {},
           \A u \in Txs : u # t => ~(x.op = "finish" /\ tx[u].op = "finish" /\ x.id = tx[u].id)
    PROVE  TxInv'
<1>1. tx'[t] = x /\ \A u \in Txs : u # t => tx'[u] = tx[u]
  BY DEF TxInv, TxTypeOK
<1>2. TxTypeOK'
  BY DEF TxInv, TxTypeOK
<1>3. LocksExclude'
  BY <1>1 DEF TxInv, LocksExclude
<1>4. FinishedOnce'
  BY <1>1 DEF TxInv, FinishedOnce
<1>5. \A u \in Txs : Knows(tx'[u], session', locker')
  BY <1>1 DEF TxInv
<1>6. Agree(session', locker')
  BY DEF TxInv
<1>. QED  BY <1>2, <1>3, <1>4, <1>5, <1>6 DEF TxInv

(* The end of transaction t writes only rows that t has locked. *)
LEMMA EndKeeps ==
    ASSUME TxInv, NEW t \in Txs, End(t), UNCHANGED over,
           session' \in [Sessions -> SessionRow],
           locker' \in [Cells -> {"free", "reserved", "occupied"}],
           \A s \in Sessions : s \in tx[t].locks \/ session'[s] = session[s],
           \A c \in Cells : c \in tx[t].locks \/ locker'[c] = locker[c],
           \A s \in Sessions : session[s].status # "none" =>
               session'[s].status # "none" /\ session'[s].cell = session[s].cell,
           \A s \in Sessions : session[s].status = "active" =>
               session'[s].status = "active" \/ (tx[t].op = "finish" /\ tx[t].id = s),
           Agree(session', locker')
    PROVE  TxInv'
<1>0. NoTx \in Tx
  BY DEF NoTx, Tx
<1>1. tx'[t] = NoTx /\ \A u \in Txs : u # t => tx'[u] = tx[u]
  BY DEF TxInv, TxTypeOK, End
<1>2. TxTypeOK'
  BY <1>0 DEF TxInv, TxTypeOK, End
<1>3. LocksExclude'
  BY <1>1 DEF TxInv, LocksExclude, NoTx
<1>4. FinishedOnce'
  BY <1>1 DEF TxInv, FinishedOnce, NoTx
<1>5. ASSUME NEW u \in Txs
      PROVE  Knows(tx'[u], session', locker')
  <2>1. CASE u = t
    BY <1>1, <2>1 DEF Knows, NoTx
  <2>2. CASE u # t
    <3>1. /\ tx[u] \in Tx /\ Knows(tx[u], session, locker)
          /\ session \in [Sessions -> SessionRow]
          /\ tx[u].locks \cap tx[t].locks = {}
      BY <2>2 DEF TxInv, TxTypeOK, LocksExclude
    <3>2. tx[u].op = "finish" => session'[tx[u].id].status = "active"
      <4>1. SUFFICES ASSUME tx[u].op = "finish"
                     PROVE  session'[tx[u].id].status = "active"
        OBVIOUS
      <4>2. tx[u].id \in Sessions /\ session[tx[u].id].status = "active"
        BY <3>1, <4>1 DEF Knows, Serving
      <4>3. ~(tx[t].op = "finish" /\ tx[t].id = tx[u].id)
        BY <2>2, <4>1 DEF TxInv, FinishedOnce
      <4>. QED  BY <4>2, <4>3
    <3>3. \A s \in Sessions : s \in tx[u].locks => session'[s] = session[s]
      BY <3>1
    <3>4. \A c \in Cells : c \in tx[u].locks => locker'[c] = locker[c]
      BY <3>1
    <3>5. Knows(tx[u], session', locker')
      BY <3>1, <3>2, <3>3, <3>4, KnowsStays
    <3>. QED  BY <1>1, <2>2, <3>5
  <2>. QED  BY <2>1, <2>2
<1>. QED  BY <1>2, <1>3, <1>4, <1>5 DEF TxInv

(* What a sweep has written when it commits, alone or in a selection. *)
LEMMA SweptTables ==
    ASSUME TxInv, NEW t \in Txs, tx[t].op \in {"sweep", "selection"},
           \A s \in tx[t].expired : session[s].cell \in tx[t].freed
    PROVE  /\ SweptSessions(t) \in [Sessions -> SessionRow]
           /\ SweptLockers(t) \in [Cells -> {"free", "reserved", "occupied"}]
           /\ \A s \in Sessions : s \in tx[t].locks \/ SweptSessions(t)[s] = session[s]
           /\ \A c \in Cells : c \in tx[t].locks \/ SweptLockers(t)[c] = locker[c]
           /\ \A s \in Sessions :
                 /\ SweptSessions(t)[s].cell = session[s].cell
                 /\ SweptSessions(t)[s].status = "none" <=> session[s].status = "none"
                 /\ session[s].status = "active" => SweptSessions(t)[s] = session[s]
           /\ Agree(SweptSessions(t), SweptLockers(t))
<1>0. /\ session \in [Sessions -> SessionRow]
      /\ locker \in [Cells -> {"free", "reserved", "occupied"}]
      /\ tx[t].expired \subseteq Sessions /\ tx[t].freed \subseteq Cells
      /\ Sweeping(tx[t], session, locker)
      /\ Agree(session, locker)
  BY DEF TxInv, TxTypeOK, Tx, Knows
<1>1. ASSUME NEW s \in Sessions
      PROVE  /\ SweptSessions(t)[s] \in SessionRow
             /\ SweptSessions(t)[s].cell = session[s].cell
             /\ s \in tx[t].expired => SweptSessions(t)[s].status = "expired"
                                       /\ session[s].status = "selected" /\ s \in tx[t].locks
             /\ s \notin tx[t].expired => SweptSessions(t)[s] = session[s]
  BY <1>0 DEF SweptSessions, SessionRow, Sweeping
<1>2. ASSUME NEW c \in Cells
      PROVE  /\ c \in tx[t].freed => SweptLockers(t)[c] = "free" /\ c \in tx[t].locks
             /\ c \notin tx[t].freed => SweptLockers(t)[c] = locker[c]
  BY <1>0 DEF SweptLockers, Sweeping
<1>3. ASSUME NEW s \in Sessions, Lives(SweptSessions(t)[s])
      PROVE  /\ SweptSessions(t)[s] = session[s] /\ session[s].cell \in Cells
             /\ SweptLockers(t)[session[s].cell] = locker[session[s].cell]
  <2>1. s \notin tx[t].expired /\ SweptSessions(t)[s] = session[s] /\ session[s].cell \in Cells
    BY <1>0, <1>1, <1>3 DEF Lives, Agree
  <2>2. ASSUME session[s].cell \in tx[t].freed
        PROVE  FALSE
    <3>1. PICK r \in tx[t].expired : session[r].cell = session[s].cell
      BY <1>0, <2>2 DEF Sweeping
    <3>2. r \in Sessions /\ session[r].status = "selected"
      BY <1>0, <1>1
    <3>3. r = s
      BY <1>0, <1>3, <2>1, <3>1, <3>2 DEF Agree, Lives
    <3>. QED  BY <2>1, <3>3
  <2>. QED  BY <1>2, <2>1, <2>2
<1>4. Agree(SweptSessions(t), SweptLockers(t))
  <2>1. \A s \in Sessions : SweptSessions(t)[s].status # "none" =>
           SweptSessions(t)[s].cell \in Cells
    BY <1>0, <1>1 DEF Agree
  <2>2. \A s \in Sessions : SweptSessions(t)[s].status = "selected" =>
           SweptLockers(t)[SweptSessions(t)[s].cell] = "reserved"
    BY <1>0, <1>3 DEF Agree, Lives
  <2>3. \A s \in Sessions : SweptSessions(t)[s].status = "active" =>
           SweptLockers(t)[SweptSessions(t)[s].cell] = "occupied"
    BY <1>0, <1>3 DEF Agree, Lives
  <2>4. \A s, r \in Sessions :
           Lives(SweptSessions(t)[s]) /\ Lives(SweptSessions(t)[r])
           /\ SweptSessions(t)[s].cell = SweptSessions(t)[r].cell => s = r
    BY <1>0, <1>3 DEF Agree
  <2>. QED  BY <2>1, <2>2, <2>3, <2>4 DEF Agree
<1>5. SweptSessions(t) \in [Sessions -> SessionRow]
  BY <1>1 DEF SweptSessions
<1>6. SweptLockers(t) \in [Cells -> {"free", "reserved", "occupied"}]
  BY <1>0 DEF SweptLockers
<1>. QED  BY <1>1, <1>2, <1>4, <1>5, <1>6

(* When the sweep is done, no cell of what it has expired is forgotten. *)
LEMMA SweepLeavesNoCell ==
    ASSUME TxInv, NEW t \in Txs, tx[t].op \in {"sweep", "selection"}, SweepDone(t)
    PROVE  \A s \in tx[t].expired : session[s].cell \in tx[t].freed
<1>1. Sweeping(tx[t], session, locker)
  BY DEF TxInv, Knows
<1>. QED  BY <1>1 DEF Sweeping, SweepDone, NextCells

LEMMA TxStep == TxInv /\ [TxNext]_txVars => TxInv'
<1>. SUFFICES ASSUME TxInv, [TxNext]_txVars
              PROVE  TxInv'
  OBVIOUS
<1>0. /\ TxTypeOK /\ Agree(session, locker) /\ LocksExclude /\ FinishedOnce
      /\ \A t \in Txs : Knows(tx[t], session, locker) /\ tx[t] \in Tx
  BY DEF TxInv, TxTypeOK
<1>1. ASSUME NEW t \in Txs, NEW op \in {"sweep", "selection"}, BeginSweep(t, op)
      PROVE  TxInv'
  <2>. DEFINE x == [NoTx EXCEPT !.op = op, !.at = "sweep",
                       !.todo = {s \in over : session[s].status = "selected"},
                       !.reserved = {c \in Cells : locker[c] = "reserved"}]
  <2>1. x \in Tx
    BY <1>0 DEF Tx, NoTx, TxTypeOK
  <2>2. Knows(x, session, locker)
    BY <1>0 DEF Knows, Sweeping, Selecting, NoTx, Agree, TxTypeOK
  <2>3. tx' = [tx EXCEPT ![t] = x] /\ UNCHANGED <<locker, session, over>>
    BY <1>1 DEF BeginSweep
  <2>4. x.locks = {} /\ x.op # "finish"
    BY DEF NoTx
  <2>. HIDE DEF x
  <2>. QED  BY <1>0, <2>1, <2>2, <2>3, <2>4, StatementKeeps DEF TxTypeOK
<1>2. ASSUME NEW t \in Txs, NEW s \in Sessions, BeginBooking(t, s)
      PROVE  TxInv'
  <2>. DEFINE x == [NoTx EXCEPT !.op = "booking", !.at = "session", !.id = s,
                                !.cell = session[s].cell]
  <2>1. session[s].status # "none" /\ session[s].cell \in Cells
    BY <1>0, <1>2 DEF BeginBooking, Agree
  <2>2. x \in Tx
    BY <2>1 DEF Tx, NoTx
  <2>3. Knows(x, session, locker)
    BY <2>1 DEF Knows, Serving, NoTx
  <2>4. tx' = [tx EXCEPT ![t] = x] /\ UNCHANGED <<locker, session, over>>
    BY <1>2 DEF BeginBooking
  <2>5. x.locks = {} /\ x.op # "finish"
    BY DEF NoTx
  <2>. HIDE DEF x
  <2>. QED  BY <1>0, <2>2, <2>3, <2>4, <2>5, StatementKeeps DEF TxTypeOK
<1>3. ASSUME NEW t \in Txs, NEW s \in Sessions, BeginFinish(t, s)
      PROVE  TxInv'
  <2>. DEFINE x == [NoTx EXCEPT !.op = "finish", !.at = "session", !.id = s,
                                !.cell = session[s].cell]
  <2>1. session[s].status = "active" /\ session[s].cell \in Cells
    BY <1>0, <1>3 DEF BeginFinish, Agree
  <2>2. x \in Tx
    BY <2>1 DEF Tx, NoTx
  <2>3. Knows(x, session, locker)
    BY <2>1 DEF Knows, Serving, NoTx
  <2>4. tx' = [tx EXCEPT ![t] = x] /\ UNCHANGED <<locker, session, over>>
    BY <1>3 DEF BeginFinish
  <2>5. x.locks = {} /\ x.id = s
    BY DEF NoTx
  <2>6. \A u \in Txs : tx[u].op = "finish" => tx[u].id # s
    BY <1>3 DEF BeginFinish
  <2>. HIDE DEF x
  <2>. QED  BY <1>0, <2>2, <2>3, <2>4, <2>5, <2>6, StatementKeeps DEF TxTypeOK
<1>4. ASSUME NEW t \in Txs, NEW s \in Sessions, SweepSession(t, s)
      PROVE  TxInv'
  <2>. DEFINE x == [tx[t] EXCEPT
                       !.todo = @ \ {s}, !.locks = @ \cup {s},
                       !.expired = IF session[s].status = "selected" THEN @ \cup {s} ELSE @]
  <2>1. /\ s \in tx[t].todo /\ tx[t].at = "sweep" /\ tx[t].op \in {"sweep", "selection"}
        /\ \A r \in tx[t].todo : Place[s] <= Place[r]
        /\ \A u \in Txs : u # t => s \notin tx[u].locks
    BY <1>0, <1>4 DEF SweepSession, NextSessions, CanLock, Holders, Tx, Knows, Serving, NoTx
  <2>2. x \in Tx
    BY <1>0 DEF Tx
  <2>3. Knows(x, session, locker)
    <3>1. Sweeping(tx[t], session, locker) /\ Selecting(tx[t], session, locker)
      BY <1>0, <2>1 DEF Knows
    <3>2. tx[t].todo \subseteq Sessions
      BY <1>0 DEF Tx
    <3>3. \A r \in tx[t].todo \ {s} : Place[s] < Place[r]
      BY <2>1, <3>2, PlaceAssumption
    <3>4. Sweeping(x, session, locker)
      BY <1>0, <2>1, <3>1, <3>2, <3>3, RowsAssumption DEF Sweeping, Tx
    <3>5. Selecting(x, session, locker)
      BY <1>0, <2>1, <3>1 DEF Selecting, Tx
    <3>. QED  BY <1>0, <2>1, <3>4, <3>5 DEF Knows, Tx
  <2>4. tx' = [tx EXCEPT ![t] = x] /\ UNCHANGED <<locker, session, over>>
    BY <1>4 DEF SweepSession
  <2>5. x.locks = tx[t].locks \cup {s} /\ x.op # "finish"
    BY <1>0, <2>1 DEF Tx
  <2>6. \A u \in Txs : u # t => x.locks \cap tx[u].locks = {}
    BY <1>0, <2>1, <2>5 DEF LocksExclude
  <2>. HIDE DEF x
  <2>. QED  BY <1>0, <2>2, <2>3, <2>4, <2>5, <2>6, StatementKeeps DEF TxTypeOK
<1>5. ASSUME NEW t \in Txs, NEW c \in Cells, SweepCell(t, c)
      PROVE  TxInv'
  <2>. DEFINE x == [tx[t] EXCEPT
                       !.reserved = @ \ {c}, !.locks = @ \cup {c},
                       !.freed = IF locker[c] = "reserved" THEN @ \cup {c} ELSE @]
  <2>1. /\ tx[t].at = "sweep" /\ tx[t].op \in {"sweep", "selection"}
        /\ \E s \in tx[t].expired : session[s].cell = c
        /\ \A u \in Txs : u # t => c \notin tx[u].locks
    BY <1>0, <1>5 DEF SweepCell, NextCells, CanLock, Holders, Tx, Knows, Serving, NoTx
  <2>2. x \in Tx
    BY <1>0 DEF Tx
  <2>3. Knows(x, session, locker)
    <3>1. Sweeping(tx[t], session, locker) /\ Selecting(tx[t], session, locker)
      BY <1>0, <2>1 DEF Knows
    <3>2. locker[c] = "reserved"
      BY <1>0, <2>1, <3>1 DEF Sweeping, Agree, Tx
    <3>3. Sweeping(x, session, locker)
      BY <1>0, <2>1, <3>1, <3>2, RowsAssumption DEF Sweeping, Tx
    <3>4. Selecting(x, session, locker)
      BY <1>0, <2>1, <3>1 DEF Selecting, Tx
    <3>. QED  BY <1>0, <2>1, <3>3, <3>4 DEF Knows, Tx
  <2>4. tx' = [tx EXCEPT ![t] = x] /\ UNCHANGED <<locker, session, over>>
    BY <1>5 DEF SweepCell
  <2>5. x.locks = tx[t].locks \cup {c} /\ x.op # "finish"
    BY <1>0, <2>1 DEF Tx
  <2>6. \A u \in Txs : u # t => x.locks \cap tx[u].locks = {}
    BY <1>0, <2>1, <2>5 DEF LocksExclude
  <2>. HIDE DEF x
  <2>. QED  BY <1>0, <2>2, <2>3, <2>4, <2>5, <2>6, StatementKeeps DEF TxTypeOK
<1>6. ASSUME NEW t \in Txs, FindLocation(t)
      PROVE  TxInv'
  <2>. DEFINE x == [tx[t] EXCEPT !.at = "pick"]
  <2>1. tx[t].at = "sweep" /\ tx[t].op = "selection" /\ tx[t].todo = {} /\ x \in Tx
    BY <1>0, <1>6 DEF FindLocation, SweepDone, Tx
  <2>2. Knows(x, session, locker)
    <3>1. \A s \in tx[t].expired : session[s].cell \in tx[t].freed
      BY <1>6, <2>1, SweepLeavesNoCell DEF FindLocation
    <3>. QED  BY <1>0, <2>1, <3>1 DEF Knows, Sweeping, Selecting, Tx
  <2>3. tx' = [tx EXCEPT ![t] = x] /\ UNCHANGED <<locker, session, over>>
    BY <1>6 DEF FindLocation
  <2>4. x.locks = tx[t].locks /\ x.op # "finish"
    BY <1>0, <2>1 DEF Tx
  <2>5. \A u \in Txs : u # t => x.locks \cap tx[u].locks = {}
    BY <1>0, <2>4 DEF LocksExclude
  <2>. HIDE DEF x
  <2>. QED  BY <1>0, <2>1, <2>2, <2>3, <2>4, <2>5, StatementKeeps DEF TxTypeOK
<1>7. ASSUME NEW t \in Txs, NEW c \in Cells, PickCell(t, c)
      PROVE  TxInv'
  <2>. DEFINE x == [tx[t] EXCEPT !.at = "write", !.cell = c, !.locks = @ \cup {c}]
  <2>0. tx[t].at = "pick" /\ SweptLockers(t)[c] = "free" /\ CanLock(t, c)
    BY <1>7 DEF PickCell
  <2>1. /\ tx[t].at = "pick" /\ tx[t].op = "selection" /\ x \in Tx
        /\ c \in tx[t].freed \/ locker[c] = "free"
        /\ \A u \in Txs : u # t => c \notin tx[u].locks
    <3>1. tx[t].op = "selection"
      <4>1. tx[t].op \notin {"booking", "finish"}
        BY <1>0, <2>0 DEF Knows, Serving
      <4>2. tx[t].op # "sweep"
        BY <1>0, <2>0 DEF Knows, Sweeping
      <4>3. tx[t].op # "none"
        BY <1>0, <2>0 DEF Knows, NoTx
      <4>. QED  BY <1>0, <4>1, <4>2, <4>3 DEF Tx
    <3>2. x \in Tx
      BY <1>0 DEF Tx
    <3>3. c \in tx[t].freed \/ locker[c] = "free"
      BY <2>0 DEF SweptLockers
    <3>4. \A u \in Txs : u # t => c \notin tx[u].locks
      BY <2>0 DEF CanLock, Holders
    <3>. QED  BY <2>0, <3>1, <3>2, <3>3, <3>4
  <2>2. Knows(x, session, locker)
    BY <1>0, <2>1, RowsAssumption DEF Knows, Sweeping, Selecting, Tx
  <2>3. tx' = [tx EXCEPT ![t] = x] /\ UNCHANGED <<locker, session, over>>
    BY <1>7 DEF PickCell
  <2>4. x.locks = tx[t].locks \cup {c} /\ x.op # "finish"
    BY <1>0, <2>1 DEF Tx
  <2>5. \A u \in Txs : u # t => x.locks \cap tx[u].locks = {}
    BY <1>0, <2>1, <2>4 DEF LocksExclude
  <2>. HIDE DEF x
  <2>. QED  BY <1>0, <2>1, <2>2, <2>3, <2>4, <2>5, StatementKeeps DEF TxTypeOK
<1>8. ASSUME NEW t \in Txs, NEW s \in Sessions, InsertSession(t, s)
      PROVE  TxInv'
  <2>. DEFINE x == [tx[t] EXCEPT !.at = "commit", !.id = s, !.locks = @ \cup {s}]
  <2>1. /\ tx[t].at = "write" /\ tx[t].op = "selection"
        /\ session[s].status = "none"
        /\ \A u \in Txs : tx[u].id # s
    BY <1>8 DEF InsertSession
  <2>2. ASSUME NEW u \in Txs, u # t
        PROVE  s \notin tx[u].locks
    <3>1. CASE tx[u].op \in {"sweep", "selection"}
      BY <1>0, <2>1, <3>1 DEF Knows, Sweeping
    <3>2. CASE tx[u].op \in {"booking", "finish"}
      BY <1>0, <2>1, <3>2, RowsAssumption DEF Knows, Serving
    <3>3. CASE tx[u].op = "none"
      BY <1>0, <3>3 DEF Knows, NoTx
    <3>. QED  BY <1>0, <3>1, <3>2, <3>3 DEF Tx
  <2>3. Knows(x, session, locker)
    BY <1>0, <2>1, RowsAssumption DEF Knows, Sweeping, Selecting, Tx
  <2>4. tx' = [tx EXCEPT ![t] = x] /\ UNCHANGED <<locker, session, over>>
    BY <1>8 DEF InsertSession
  <2>5. x.locks = tx[t].locks \cup {s} /\ x.op # "finish"
    BY <1>0, <2>1 DEF Tx
  <2>6. \A u \in Txs : u # t => x.locks \cap tx[u].locks = {}
    BY <1>0, <2>2, <2>5 DEF LocksExclude
  <2>7. x \in Tx
    BY <1>0 DEF Tx
  <2>. HIDE DEF x
  <2>. QED  BY <1>0, <2>3, <2>4, <2>5, <2>6, <2>7, StatementKeeps DEF TxTypeOK
<1>9. ASSUME NEW t \in Txs, LockSession(t)
      PROVE  TxInv'
  <2>. DEFINE x == [tx[t] EXCEPT !.at = "cell", !.locks = @ \cup {tx[t].id}]
  <2>1. tx[t].at = "session" /\ tx[t].op \in {"booking", "finish"}
    BY <1>0, <1>9 DEF LockSession, Knows, Sweeping, NoTx, Tx
  <2>2. Serving(tx[t], session) /\ tx[t].locks = {} /\ tx[t].id \in Sessions
    BY <1>0, <2>1 DEF Knows, Serving
  <2>3. x \in Tx /\ \A u \in Txs : u # t => tx[t].id \notin tx[u].locks
    BY <1>0, <1>9, <2>2 DEF LockSession, CanLock, Holders, Tx
  <2>4. Knows(x, session, locker)
    BY <1>0, <2>1, <2>2 DEF Knows, Serving, Tx
  <2>5. tx' = [tx EXCEPT ![t] = x] /\ UNCHANGED <<locker, session, over>>
    BY <1>9 DEF LockSession
  <2>6. x.locks = {tx[t].id} /\ x.op = tx[t].op /\ x.id = tx[t].id
    BY <1>0, <2>2 DEF Tx
  <2>7. \A u \in Txs : u # t => x.locks \cap tx[u].locks = {}
    BY <2>3, <2>6
  <2>8. \A u \in Txs : u # t =>
           ~(x.op = "finish" /\ tx[u].op = "finish" /\ x.id = tx[u].id)
    BY <1>0, <2>6 DEF FinishedOnce
  <2>. HIDE DEF x
  <2>. QED  BY <1>0, <2>3, <2>4, <2>5, <2>7, <2>8, StatementKeeps DEF TxTypeOK
<1>10. ASSUME NEW t \in Txs, LockCell(t)
       PROVE  TxInv'
  <2>. DEFINE x == [tx[t] EXCEPT !.at = "write", !.locks = @ \cup {tx[t].cell}]
  <2>1. tx[t].at = "cell" /\ tx[t].op \in {"booking", "finish"}
    BY <1>0, <1>10 DEF LockCell, Knows, Sweeping, NoTx, Tx
  <2>2. Serving(tx[t], session) /\ tx[t].locks = {tx[t].id} /\ tx[t].cell \in Cells
    BY <1>0, <2>1 DEF Knows, Serving
  <2>3. x \in Tx /\ \A u \in Txs : u # t => tx[t].cell \notin tx[u].locks
    BY <1>0, <1>10, <2>2 DEF LockCell, CanLock, Holders, Tx
  <2>4. Knows(x, session, locker)
    BY <1>0, <2>1, <2>2 DEF Knows, Serving, Tx
  <2>5. tx' = [tx EXCEPT ![t] = x] /\ UNCHANGED <<locker, session, over>>
    BY <1>10 DEF LockCell
  <2>6. x.locks = tx[t].locks \cup {tx[t].cell} /\ x.op = tx[t].op /\ x.id = tx[t].id
    BY <1>0, <2>2 DEF Tx
  <2>7. \A u \in Txs : u # t => x.locks \cap tx[u].locks = {}
    BY <1>0, <2>3, <2>6 DEF LocksExclude
  <2>8. \A u \in Txs : u # t =>
           ~(x.op = "finish" /\ tx[u].op = "finish" /\ x.id = tx[u].id)
    BY <1>0, <2>6 DEF FinishedOnce
  <2>. HIDE DEF x
  <2>. QED  BY <1>0, <2>3, <2>4, <2>5, <2>7, <2>8, StatementKeeps DEF TxTypeOK
<1>11. ASSUME NEW t \in Txs, WriteBooking(t)
       PROVE  TxInv'
  <2>. DEFINE x == [tx[t] EXCEPT !.at = "commit"]
  <2>1. /\ tx[t].at = "write" /\ tx[t].op = "booking" /\ x \in Tx
        /\ session[tx[t].id].status = "selected"
    BY <1>0, <1>11 DEF WriteBooking, Tx
  <2>2. Knows(x, session, locker)
    BY <1>0, <2>1 DEF Knows, Serving, Tx
  <2>3. tx' = [tx EXCEPT ![t] = x] /\ UNCHANGED <<locker, session, over>>
    BY <1>11 DEF WriteBooking
  <2>4. x.locks = tx[t].locks /\ x.op # "finish"
    BY <1>0, <2>1 DEF Tx
  <2>5. \A u \in Txs : u # t => x.locks \cap tx[u].locks = {}
    BY <1>0, <2>4 DEF LocksExclude
  <2>. HIDE DEF x
  <2>. QED  BY <1>0, <2>1, <2>2, <2>3, <2>4, <2>5, StatementKeeps DEF TxTypeOK
<1>12. ASSUME NEW t \in Txs, CommitSweep(t)
       PROVE  TxInv'
  <2>1. /\ tx[t].op = "sweep" /\ SweepDone(t) /\ End(t) /\ UNCHANGED over
        /\ session' = SweptSessions(t) /\ locker' = SweptLockers(t)
    BY <1>12 DEF CommitSweep
  <2>2. \A s \in tx[t].expired : session[s].cell \in tx[t].freed
    BY <2>1, SweepLeavesNoCell
  <2>. QED  BY <2>1, <2>2, SweptTables, EndKeeps
<1>13. ASSUME NEW t \in Txs, CommitSelection(t)
       PROVE  TxInv'
  <2>. DEFINE s == tx[t].id
              c == tx[t].cell
              S == SweptSessions(t)
              L == SweptLockers(t)
  <2>1. /\ tx[t].op = "selection" /\ tx[t].at = "commit" /\ End(t) /\ UNCHANGED over
        /\ session' = [S EXCEPT ![s] = [status |-> "selected", cell |-> c]]
        /\ locker' = [L EXCEPT ![c] = "reserved"]
    BY <1>13 DEF CommitSelection
  <2>2. /\ s \in tx[t].locks \cap Sessions /\ session[s].status = "none"
        /\ c \in tx[t].locks \cap Cells
        /\ locker[c] = "free" \/ c \in tx[t].freed
        /\ \A r \in tx[t].expired : session[r].cell \in tx[t].freed
    BY <1>0, <2>1 DEF Knows, Selecting
  <2>3. /\ S \in [Sessions -> SessionRow]
        /\ L \in [Cells -> {"free", "reserved", "occupied"}]
        /\ \A r \in Sessions : r \in tx[t].locks \/ S[r] = session[r]
        /\ \A d \in Cells : d \in tx[t].locks \/ L[d] = locker[d]
        /\ \A r \in Sessions :
              /\ S[r].cell = session[r].cell
              /\ S[r].status = "none" <=> session[r].status = "none"
              /\ session[r].status = "active" => S[r] = session[r]
        /\ Agree(S, L)
    BY <2>1, <2>2, SweptTables
  <2>4. L[c] = "free"
    BY <2>2 DEF SweptLockers
  <2>. HIDE DEF S, L
  <2>5. /\ session'[s] = [status |-> "selected", cell |-> c]
        /\ \A r \in Sessions : r # s => session'[r] = S[r]
        /\ locker'[c] = "reserved"
        /\ \A d \in Cells : d # c => locker'[d] = L[d]
    BY <2>1, <2>2, <2>3
  <2>6. \A r \in Sessions : Lives(S[r]) => S[r].cell # c
    BY <2>3, <2>4 DEF Agree, Lives
  <2>7. Agree(session', locker')
    <3>1. ASSUME NEW r \in Sessions, r # s, session'[r].status # "none"
          PROVE  /\ session'[r].cell \in Cells
                 /\ session'[r].status = "selected" => locker'[session'[r].cell] = "reserved"
                 /\ session'[r].status = "active" => locker'[session'[r].cell] = "occupied"
                 /\ Lives(session'[r]) => session'[r].cell # c
      BY <2>3, <2>5, <2>6, <3>1 DEF Agree, Lives
    <3>2. \A r, q \in Sessions :
             Lives(session'[r]) /\ Lives(session'[q]) /\ session'[r].cell = session'[q].cell
             => r = q
      <4>. SUFFICES ASSUME NEW r \in Sessions, NEW q \in Sessions,
                           Lives(session'[r]), Lives(session'[q]),
                           session'[r].cell = session'[q].cell, r # q
                    PROVE  FALSE
        OBVIOUS
      <4>1. r # s /\ q # s
        BY <2>5, <3>1 DEF Lives
      <4>. QED  BY <2>3, <2>5, <4>1 DEF Agree
    <3>. QED  BY <2>2, <2>5, <3>1, <3>2 DEF Agree
  <2>8. /\ session' \in [Sessions -> SessionRow]
        /\ locker' \in [Cells -> {"free", "reserved", "occupied"}]
    BY <2>1, <2>2, <2>3 DEF SessionRow
  <2>9. \A r \in Sessions : r \in tx[t].locks \/ session'[r] = session[r]
    BY <2>2, <2>3, <2>5
  <2>10. \A d \in Cells : d \in tx[t].locks \/ locker'[d] = locker[d]
    BY <2>2, <2>3, <2>5
  <2>11. \A r \in Sessions : session[r].status # "none" =>
            /\ session'[r].status # "none" /\ session'[r].cell = session[r].cell
            /\ session[r].status = "active" => session'[r].status = "active"
    BY <2>2, <2>3, <2>5
  <2>. QED  BY <2>1, <2>7, <2>8, <2>9, <2>10, <2>11, EndKeeps
\* The session of a booking or a finish moves to W, and its cell to V.
<1>14. ASSUME NEW t \in Txs, NEW W \in {"active", "closed"}, NEW V \in {"occupied", "free"},
              tx[t].op \in {"booking", "finish"}, tx[t].at \in {"write", "commit"},
              Lives(session[tx[t].id]), W = "active" => V = "occupied",
              W = "closed" => tx[t].op = "finish",
              session' = [session EXCEPT ![tx[t].id].status = W],
              locker' = [locker EXCEPT ![tx[t].cell] = V],
              End(t), UNCHANGED over
       PROVE  TxInv'
  <2>. DEFINE s == tx[t].id
              c == tx[t].cell
  <2>1. /\ s \in Sessions /\ c \in Cells /\ session[s].cell = c
        /\ s \in tx[t].locks /\ c \in tx[t].locks
    BY <1>0, <1>14 DEF Knows, Serving
  <2>2. /\ session'[s].status = W /\ session'[s].cell = c
        /\ \A r \in Sessions : r # s => session'[r] = session[r]
        /\ locker'[c] = V
        /\ \A d \in Cells : d # c => locker'[d] = locker[d]
    BY <1>0, <1>14, <2>1 DEF TxTypeOK, SessionRow
  <2>3. /\ session' \in [Sessions -> SessionRow]
        /\ locker' \in [Cells -> {"free", "reserved", "occupied"}]
    BY <1>0, <1>14, <2>1 DEF TxTypeOK, SessionRow
  <2>4. Agree(session', locker')
    <3>1. ASSUME NEW r \in Sessions, r # s, Lives(session[r])
          PROVE  session[r].cell # c
      BY <1>0, <1>14, <2>1, <3>1 DEF Agree
    <3>. QED  BY <1>0, <1>14, <2>1, <2>2, <3>1 DEF Agree, Lives
  <2>5. /\ \A r \in Sessions : r \in tx[t].locks \/ session'[r] = session[r]
        /\ \A d \in Cells : d \in tx[t].locks \/ locker'[d] = locker[d]
    BY <2>1, <2>2
  <2>6. \A r \in Sessions : session[r].status # "none" =>
           session'[r].status # "none" /\ session'[r].cell = session[r].cell
    BY <1>14, <2>1, <2>2
  <2>7. \A r \in Sessions : session[r].status = "active" =>
           session'[r].status = "active" \/ (tx[t].op = "finish" /\ tx[t].id = r)
    BY <1>14, <2>1, <2>2
  <2>. QED  BY <1>14, <2>3, <2>4, <2>5, <2>6, <2>7, EndKeeps
<1>15. ASSUME NEW t \in Txs, CommitBooking(t)
       PROVE  TxInv'
  <2>1. /\ tx[t].op = "booking" /\ tx[t].at = "commit" /\ End(t) /\ UNCHANGED over
        /\ session' = [session EXCEPT ![tx[t].id].status = "active"]
        /\ locker' = [locker EXCEPT ![tx[t].cell] = "occupied"]
    BY <1>15 DEF CommitBooking
  <2>2. Lives(session[tx[t].id])
    BY <1>0, <2>1 DEF Knows, Serving, Lives
  <2>. QED  BY <1>14, <2>1, <2>2
<1>16. ASSUME NEW t \in Txs, CommitFinish(t)
       PROVE  TxInv'
  <2>1. /\ tx[t].op = "finish" /\ tx[t].at = "write" /\ End(t) /\ UNCHANGED over
        /\ session' = [session EXCEPT ![tx[t].id].status = "closed"]
        /\ locker' = [locker EXCEPT ![tx[t].cell] = "free"]
    BY <1>16 DEF CommitFinish
  <2>2. Lives(session[tx[t].id])
    BY <1>0, <2>1 DEF Knows, Serving, Lives
  <2>. QED  BY <1>14, <2>1, <2>2
<1>17. ASSUME NEW t \in Txs, Rollback(t)
       PROVE  TxInv'
  <2>1. End(t) /\ UNCHANGED <<locker, session, over>>
    BY <1>17 DEF Rollback
  <2>. QED  BY <1>0, <2>1, EndKeeps DEF TxTypeOK
<1>18. ASSUME NEW s \in Sessions, HoldEnds(s)
       PROVE  TxInv'
  BY <1>0, <1>18 DEF HoldEnds, TxInv, TxTypeOK, LocksExclude, FinishedOnce
<1>19. CASE UNCHANGED txVars
  BY <1>0, <1>19 DEF txVars, TxInv, TxTypeOK, LocksExclude, FinishedOnce
<1>. QED
  BY <1>1, <1>2, <1>3, <1>4, <1>5, <1>6, <1>7, <1>8, <1>9, <1>10, <1>11, <1>12, <1>13,
     <1>15, <1>16, <1>17, <1>18, <1>19
  DEF TxNext, Statement

(* Rows and locks keep their types, and the invariant above holds, however *)
(* the statements of any number of transactions interleave.                *)
THEOREM TxInvariant == TxSpec => []TxInv
<1>1. TxInit => TxInv
  <2>. SUFFICES ASSUME TxInit PROVE TxInv
    OBVIOUS
  <2>1. NoTx \in Tx /\ NoSession \in SessionRow
    BY DEF NoTx, Tx, NoSession, SessionRow
  <2>2. TxTypeOK
    BY <2>1 DEF TxInit, TxTypeOK
  <2>3. Agree(session, locker)
    BY DEF TxInit, Agree, NoSession, Lives
  <2>4. LocksExclude /\ FinishedOnce /\ \A t \in Txs : Knows(tx[t], session, locker)
    BY DEF TxInit, LocksExclude, FinishedOnce, Knows, NoTx
  <2>. QED  BY <2>2, <2>3, <2>4 DEF TxInv
<1>. QED  BY <1>1, TxStep, PTL DEF TxSpec

(* The type invariant of the run. *)
THEOREM TxTypesHold == TxSpec => []TxTypeOK
<1>1. TxInv => TxTypeOK
  BY DEF TxInv
<1>. QED  BY <1>1, TxInvariant, PTL

-----------------------------------------------------------------------------
(* Nobody waits in a circle *)

LEMMA LeastElement ==
    ASSUME NEW T \in SUBSET Nat, T # {}
    PROVE  \E n \in T : \A m \in T : n <= m
<1>. DEFINE R == {p \in Nat \X Nat : p[1] < p[2]}
<1>1. IsWellFoundedOn(R, Nat)
  BY NatLessThanWellFounded DEF OpToRel
<1>2. PICK n \in T : \A m \in T : ~(<<m, n>> \in R)
  <2>. HIDE DEF R
  <2>. QED  BY <1>1, WFMin, Zenon
<1>3. ASSUME NEW m \in T
      PROVE  n <= m
  <2>1. <<m, n>> \notin R
    BY <1>2
  <2>2. m \in Nat /\ n \in Nat
    OBVIOUS
  <2>. QED  BY <2>1, <2>2
<1>. QED  BY <1>3

\* The plan of a sweep comes to an end.
LEMMA PlanEnds == \E n \in Nat : \A s \in Sessions : Place[s] <= n
<1>0. PICK k \in Nat : ExistsSurjection(1..k, Sessions)
  BY RowsAssumption, FS_NatSurjection
<1>1. PICK f \in [1..k -> Sessions] : \A s \in Sessions : \E i \in 1..k : f[i] = s
  BY <1>0 DEF ExistsSurjection, Surjection
<1>. DEFINE Bounds(j, n) == \A i \in 1..k : j < i => Place[f[i]] <= n
            D == {j \in Nat : j <= k /\ \E n \in Nat : Bounds(j, n)}
<1>2. k \in D
  <2>1. Bounds(k, 0)
    OBVIOUS
  <2>. QED  BY <2>1
<1>3. PICK j \in D : \A m \in D : j <= m
  BY <1>2, LeastElement
<1>4. PICK n \in Nat : Bounds(j, n)
  BY <1>3
<1>5. CASE j = 0
  <2>1. \A i \in 1..k : Place[f[i]] <= n
    BY <1>4, <1>5
  <2>. QED  BY <1>1, <2>1
<1>6. CASE j # 0
  <2>1. j \in 1..k /\ j - 1 \in Nat /\ j - 1 <= k /\ Place[f[j]] \in Nat
    BY <1>1, <1>3, <1>6, PlaceAssumption
  <2>2. \A i \in 1..k : Place[f[i]] \in Nat
    BY <1>1, PlaceAssumption
  <2>3. Bounds(j - 1, n + Place[f[j]])
    BY <1>4, <2>1, <2>2
  <2>4. j - 1 \in D
    <3>1. n + Place[f[j]] \in Nat
      BY <2>1
    <3>. HIDE DEF Bounds
    <3>. QED  BY <2>1, <2>3, <3>1
  <2>5. j <= j - 1
    <3>. HIDE DEF D
    <3>. QED  BY <1>3, <2>4
  <2>. QED  BY <2>1, <2>5
<1>. QED  BY <1>5, <1>6

LEMMA LastPlace ==
    ASSUME NEW T \in SUBSET Sessions, T # {}
    PROVE  \E s \in T : \A r \in T : Place[r] <= Place[s]
<1>1. PICK n \in Nat : \A s \in Sessions : Place[s] <= n
  BY PlanEnds
<1>. DEFINE D == {n - Place[s] : s \in T}
<1>2. \A s \in T : Place[s] \in Nat /\ n - Place[s] \in Nat
  BY <1>1, PlaceAssumption
<1>3. D \in SUBSET Nat /\ D # {}
  BY <1>2
<1>4. PICK d \in D : \A e \in D : d <= e
  <2>. HIDE DEF D
  <2>. QED  BY <1>3, LeastElement
<1>5. PICK s \in T : d = n - Place[s]
  BY <1>4
<1>6. \A r \in T : n - Place[s] <= n - Place[r]
  BY <1>4, <1>5
<1>. QED  BY <1>2, <1>6

LEMMA NoCircle == TxInv => NoWaitInACircle
<1>. SUFFICES ASSUME TxInv,
                     NEW S \in SUBSET {t \in Txs : ~BooksTheEnded(t)}, S # {},
                     \A t \in S : \E row \in Wanted(t) : \E u \in S : u # t /\ row \in tx[u].locks
              PROVE  FALSE
  BY DEF NoWaitInACircle, Holders
<1>0. /\ Agree(session, locker) /\ LocksExclude /\ S \subseteq Txs
      /\ \A t \in Txs : Knows(tx[t], session, locker) /\ tx[t] \in Tx
      /\ \A t \in S : tx[t].at = "cell" => Lives(session[tx[t].id])
  BY DEF TxInv, TxTypeOK, BooksTheEnded, Lives
\* Who waits is sweeping or has not both locks of a booking or a finish.
<1>1. ASSUME NEW t \in S
      PROVE  tx[t].at \in {"sweep", "session", "cell"}
  BY DEF Wanted
<1>2. ASSUME NEW t \in S, tx[t].at = "sweep"
      PROVE  Sweeping(tx[t], session, locker)
  BY <1>0, <1>2 DEF Knows, Serving, NoTx, Tx
<1>3. ASSUME NEW t \in S, tx[t].at # "sweep"
      PROVE  /\ tx[t].id \in Sessions /\ tx[t].cell \in Cells
             /\ session[tx[t].id].cell = tx[t].cell
             /\ tx[t].locks = IF tx[t].at = "session" THEN {} ELSE {tx[t].id}
  <2>1. tx[t].at \in {"session", "cell"}
    BY <1>1, <1>3
  <2>2. Serving(tx[t], session)
    BY <1>0, <2>1 DEF Knows, Sweeping, NoTx, Tx
  <2>. QED  BY <2>1, <2>2 DEF Serving
\* A cell is kept from the others by who has locked its customer.
<1>4. ASSUME NEW t \in S, NEW u \in S, u # t,
             NEW s \in Sessions, s \in tx[t].locks, Lives(session[s]),
             session[s].cell \in tx[u].locks
      PROVE  FALSE
  <2>1. session[s].cell \in Cells
    BY <1>0, <1>4 DEF Agree, Lives
  <2>2. tx[u].at = "sweep"
    BY <1>3, <1>4, <2>1, RowsAssumption
  <2>3. PICK r \in tx[u].expired : session[r].cell = session[s].cell
    BY <1>2, <1>4, <2>1, <2>2 DEF Sweeping
  <2>4. r \in Sessions /\ r \in tx[u].locks /\ Lives(session[r])
    BY <1>0, <1>2, <2>2, <2>3 DEF Sweeping, Tx, Lives
  <2>5. r = s
    BY <1>0, <1>4, <2>3, <2>4 DEF Agree
  <2>. QED  BY <1>0, <1>4, <2>4, <2>5 DEF LocksExclude
\* So whoever waits, waits for a session that a sweep has locked.
<1>5. ASSUME NEW t \in S
      PROVE  /\ tx[t].at # "cell"
             /\ tx[t].at = "sweep" =>
                   \E s \in NextSessions(t) : \E u \in S : u # t /\ s \in tx[u].locks
  <2>1. PICK row \in Wanted(t), u \in S : u # t /\ row \in tx[u].locks
    OBVIOUS
  <2>2. CASE tx[t].at = "cell"
    <3>1. row = tx[t].cell
      BY <2>1, <2>2 DEF Wanted
    <3>. QED  BY <1>0, <1>3, <1>4, <2>1, <2>2, <3>1
  <2>3. CASE tx[t].at = "sweep"
    <3>1. row \in NextSessions(t) \/ row \in NextCells(t)
      BY <2>1, <2>3 DEF Wanted
    <3>2. CASE row \in NextCells(t)
      <4>1. PICK s \in tx[t].expired : session[s].cell = row
        BY <3>2 DEF NextCells
      <4>2. s \in Sessions /\ s \in tx[t].locks /\ Lives(session[s])
        BY <1>0, <1>2, <2>3, <4>1 DEF Sweeping, Tx, Lives
      <4>. QED  BY <1>4, <2>1, <4>1, <4>2
    <3>. QED  BY <2>1, <2>3, <3>1, <3>2
  <2>. QED  BY <2>2, <2>3
<1>6. ASSUME NEW t \in S
      PROVE  \E u \in S : u # t /\ tx[u].at = "sweep"
  <2>1. PICK u \in S : u # t /\ tx[u].locks # {}
    OBVIOUS
  <2>. QED  BY <1>1, <1>3, <1>5, <2>1
\* The last session a sweep of the circle waits for is passed by nobody.
<1>. DEFINE N == {s \in Sessions : \E t \in S : tx[t].at = "sweep" /\ s \in NextSessions(t)}
<1>7. \A t \in S : NextSessions(t) \subseteq Sessions
  BY <1>0 DEF NextSessions, Tx
<1>8. N # {}
  BY <1>5, <1>6, <1>7
<1>9. PICK s \in N : \A r \in N : Place[r] <= Place[s]
  <2>. HIDE DEF N
  <2>1. N \in SUBSET Sessions
    BY DEF N
  <2>. QED  BY <1>8, <2>1, LastPlace
<1>10. PICK t \in S : tx[t].at = "sweep" /\ s \in NextSessions(t)
  BY <1>9
<1>11. PICK u \in S, r \in NextSessions(t) : u # t /\ r \in tx[u].locks
  BY <1>5, <1>10
<1>12. r \in Sessions /\ r \in N
  BY <1>7, <1>10, <1>11
<1>13. r = s
  <2>1. Place[r] <= Place[s] /\ Place[s] <= Place[r]
    BY <1>9, <1>10, <1>11, <1>12 DEF NextSessions
  <2>. QED  BY <1>9, <1>12, <2>1, PlaceAssumption
<1>14. tx[u].at = "sweep"
  BY <1>1, <1>3, <1>5, <1>11
<1>15. PICK q \in NextSessions(u) : TRUE
  BY <1>5, <1>14
<1>16. Place[r] < Place[q]
  BY <1>2, <1>11, <1>12, <1>14, <1>15 DEF Sweeping, NextSessions
<1>17. q \in N
  BY <1>7, <1>14, <1>15
<1>18. Place[q] <= Place[s] /\ Place[s] \in Nat /\ Place[q] \in Nat
  BY <1>7, <1>9, <1>15, <1>17, PlaceAssumption
<1>. QED  BY <1>13, <1>16, <1>18

(* No set of transactions waits for its own members, bookings of sessions  *)
(* that are over aside, for any number of connections, sessions and cells: *)
(* the order in which the statements come to the rows they share.          *)
THEOREM TransactionsGoOn == TxSpec => []NoWaitInACircle
  BY TxInvariant, NoCircle, PTL

-----------------------------------------------------------------------------
(* What is committed implements CellAllocation *)

(* How the mapping reads committed tables that agree. *)
LEMMA TablesRead ==
    TxInv =>
      /\ tenantOf \in [Cells -> Sessions \cup {None}]
      /\ \A s \in Sessions : Lives(session[s]) =>
            session[s].cell \in Cells /\ tenantOf[session[s].cell] = s
      /\ \A c \in Cells :
            (\A s \in Sessions : Lives(session[s]) => session[s].cell # c) => tenantOf[c] = None
<1>. SUFFICES ASSUME TxInv
              PROVE  /\ tenantOf \in [Cells -> Sessions \cup {None}]
                     /\ \A s \in Sessions : Lives(session[s]) =>
                           session[s].cell \in Cells /\ tenantOf[session[s].cell] = s
                     /\ \A c \in Cells :
                           (\A s \in Sessions : Lives(session[s]) => session[s].cell # c)
                              => tenantOf[c] = None
  OBVIOUS
<1>1. tenantOf \in [Cells -> Sessions \cup {None}]
  BY DEF tenantOf
<1>2. ASSUME NEW s \in Sessions, Lives(session[s])
      PROVE  session[s].cell \in Cells /\ tenantOf[session[s].cell] = s
  <2>1. session[s].cell \in Cells
    BY <1>2 DEF TxInv, Agree, Lives
  <2>2. \A r \in Sessions :
           session[r].cell = session[s].cell /\ session[r].status \in {"selected", "active"}
           => r = s
    BY <1>2 DEF TxInv, Agree, Lives
  <2>. QED  BY <1>2, <2>1, <2>2 DEF tenantOf, Lives
<1>3. ASSUME NEW c \in Cells, \A s \in Sessions : Lives(session[s]) => session[s].cell # c
      PROVE  tenantOf[c] = None
  BY <1>3 DEF tenantOf, Lives
<1>. QED  BY <1>1, <1>2, <1>3

(* A step is one of the allocation, or none. *)
LEMMA TxStepImplements ==
    TxInv /\ TxInv' /\ [TxNext]_txVars => [Allocation!Next]_<<useOf, tenantOf, seenBy>>
<1>. SUFFICES ASSUME TxInv, TxInv', [TxNext]_txVars
              PROVE  Allocation!Next \/ UNCHANGED <<useOf, tenantOf, seenBy>>
  OBVIOUS
<1>0. /\ TxTypeOK /\ Agree(session, locker)
      /\ \A t \in Txs : Knows(tx[t], session, locker) /\ tx[t] \in Tx
      /\ Agree(session', locker')
  BY DEF TxInv, TxTypeOK
<1>1. /\ tenantOf \in [Cells -> Sessions \cup {None}]
      /\ \A s \in Sessions : Lives(session[s]) =>
            session[s].cell \in Cells /\ tenantOf[session[s].cell] = s
      /\ \A c \in Cells :
            (\A s \in Sessions : Lives(session[s]) => session[s].cell # c) => tenantOf[c] = None
  BY TablesRead
<1>2. /\ tenantOf' \in [Cells -> Sessions \cup {None}]
      /\ \A s \in Sessions : Lives(session'[s]) =>
            session'[s].cell \in Cells /\ tenantOf'[session'[s].cell] = s
      /\ \A c \in Cells :
            (\A s \in Sessions : Lives(session'[s]) => session'[s].cell # c)
            => tenantOf'[c] = None
  <2>1. (TxInv => TablesRead!2)'
    BY TablesRead, PTL
  <2>. QED  BY <2>1
<1>. DEFINE Use(w) == CASE w = "reserved" -> "held" [] w = "occupied" -> "rented" [] OTHER -> "free"
<1>3. /\ useOf \in [Cells -> {"free", "held", "rented"}]
      /\ useOf' \in [Cells -> {"free", "held", "rented"}]
      /\ \A c \in Cells : useOf[c] = Use(locker[c]) /\ useOf'[c] = Use(locker'[c])
  BY DEF useOf
\* A cell whose customers are the same has the same tenant.
<1>4. ASSUME NEW c \in Cells,
             \A s \in Sessions : (Lives(session[s]) /\ session[s].cell = c) <=>
                                 (Lives(session'[s]) /\ session'[s].cell = c)
      PROVE  tenantOf'[c] = tenantOf[c]
  BY <1>1, <1>2, <1>4
<1>5. ASSUME NEW t \in Txs, CommitSweep(t)
      PROVE  Allocation!Next \/ UNCHANGED <<useOf, tenantOf, seenBy>>
  <2>. DEFINE D == tx[t].freed
              E == tx[t].expired
  <2>1. /\ tx[t].op = "sweep" /\ SweepDone(t)
        /\ session' = SweptSessions(t) /\ locker' = SweptLockers(t)
    BY <1>5 DEF CommitSweep
  <2>2. /\ E \subseteq Sessions /\ D \subseteq Cells
        /\ \A s \in E : session[s].status = "selected" /\ session[s].cell \in D
        /\ \A c \in D : \E s \in E : session[s].cell = c
    BY <1>0, <2>1, SweepLeavesNoCell DEF Knows, Sweeping, Tx
  <2>3. /\ \A s \in E : session'[s].status = "expired"
        /\ \A s \in Sessions \ E : session'[s] = session[s]
        /\ \A c \in D : locker'[c] = "free"
        /\ \A c \in Cells \ D : locker'[c] = locker[c]
    BY <1>0, <2>1, <2>2 DEF SweptSessions, SweptLockers, TxTypeOK, SessionRow
  <2>4. \A c \in D : useOf[c] = "held" /\ useOf'[c] = "free" /\ tenantOf'[c] = None
    <3>. SUFFICES ASSUME NEW c \in D
                  PROVE  useOf[c] = "held" /\ useOf'[c] = "free" /\ tenantOf'[c] = None
      OBVIOUS
    <3>1. PICK s \in E : session[s].cell = c
      BY <2>2
    <3>2. s \in Sessions /\ Lives(session[s]) /\ locker[c] = "reserved"
      BY <1>0, <2>2, <3>1 DEF Agree, Lives
    <3>3. \A r \in Sessions : Lives(session'[r]) => session'[r].cell # c
      BY <1>0, <2>3, <3>1, <3>2 DEF Agree, Lives
    <3>. QED  BY <1>2, <1>3, <2>2, <2>3, <3>2, <3>3
  <2>5. \A c \in Cells \ D : useOf'[c] = useOf[c] /\ tenantOf'[c] = tenantOf[c]
    <3>. SUFFICES ASSUME NEW c \in Cells \ D
                  PROVE  useOf'[c] = useOf[c] /\ tenantOf'[c] = tenantOf[c]
      OBVIOUS
    <3>1. \A s \in Sessions : (Lives(session[s]) /\ session[s].cell = c) <=>
                              (Lives(session'[s]) /\ session'[s].cell = c)
      BY <2>2, <2>3 DEF Lives
    <3>. QED  BY <1>3, <1>4, <2>3, <3>1
  <2>6. UNCHANGED seenBy
    BY <2>2, <2>3 DEF seenBy
  <2>7. /\ useOf' = [c \in Cells |-> IF c \in D THEN "free" ELSE useOf[c]]
        /\ tenantOf' = [c \in Cells |-> IF c \in D THEN None ELSE tenantOf[c]]
    BY <1>2, <1>3, <2>4, <2>5
  <2>8. CASE D # {}
    <3>1. Allocation!Lapse(D)
      BY <2>2, <2>4, <2>6, <2>7, <2>8 DEF Allocation!Lapse
    <3>. QED  BY <2>2, <3>1 DEF Allocation!Next
  <2>9. CASE D = {}
    BY <1>1, <1>2, <1>3, <2>5, <2>6, <2>9
  <2>. QED  BY <2>8, <2>9
<1>6. ASSUME NEW t \in Txs, CommitSelection(t)
      PROVE  Allocation!Next
  <2>. DEFINE D == tx[t].freed
              E == tx[t].expired
              s == tx[t].id
              d == tx[t].cell
  <2>1. /\ tx[t].op = "selection" /\ tx[t].at = "commit"
        /\ session' = [SweptSessions(t) EXCEPT ![s] = [status |-> "selected", cell |-> d]]
        /\ locker' = [SweptLockers(t) EXCEPT ![d] = "reserved"]
    BY <1>6 DEF CommitSelection
  <2>2. /\ E \subseteq Sessions /\ D \subseteq Cells
        /\ s \in Sessions /\ session[s].status = "none"
        /\ d \in Cells /\ (locker[d] = "free" \/ d \in D)
        /\ \A r \in E : session[r].status = "selected" /\ session[r].cell \in D
        /\ \A c \in D : \E r \in E : session[r].cell = c
    BY <1>0, <2>1 DEF Knows, Sweeping, Selecting, Tx
  <2>3. /\ session'[s].status = "selected" /\ session'[s].cell = d
        /\ \A r \in E : session'[r].status = "expired"
        /\ \A r \in Sessions \ E : r # s => session'[r] = session[r]
        /\ locker'[d] = "reserved"
        /\ \A c \in D : c # d => locker'[c] = "free"
        /\ \A c \in Cells \ D : c # d => locker'[c] = locker[c]
    <3>1. s \notin E
      BY <2>2
    <3>. QED  BY <1>0, <2>1, <2>2, <3>1 DEF SweptSessions, SweptLockers, TxTypeOK, SessionRow
  <2>4. \A c \in D : useOf[c] = "held"
    BY <1>0, <1>3, <2>2 DEF Agree
  <2>5. \A c \in D : c # d => useOf'[c] = "free" /\ tenantOf'[c] = None
    <3>. SUFFICES ASSUME NEW c \in D, c # d
                  PROVE  useOf'[c] = "free" /\ tenantOf'[c] = None
      OBVIOUS
    <3>1. PICK q \in E : session[q].cell = c
      BY <2>2
    <3>2. \A r \in Sessions : Lives(session'[r]) => session'[r].cell # c
      BY <1>0, <2>2, <2>3, <3>1 DEF Agree, Lives
    <3>. QED  BY <1>2, <1>3, <2>2, <2>3, <3>2
  <2>6. \A c \in Cells \ D : c # d => useOf'[c] = useOf[c] /\ tenantOf'[c] = tenantOf[c]
    <3>. SUFFICES ASSUME NEW c \in Cells \ D, c # d
                  PROVE  useOf'[c] = useOf[c] /\ tenantOf'[c] = tenantOf[c]
      OBVIOUS
    <3>1. \A r \in Sessions : (Lives(session[r]) /\ session[r].cell = c) <=>
                              (Lives(session'[r]) /\ session'[r].cell = c)
      BY <2>2, <2>3 DEF Lives
    <3>. QED  BY <1>3, <1>4, <2>3, <3>1
  <2>7. useOf'[d] = "held" /\ tenantOf'[d] = s
    BY <1>2, <1>3, <2>2, <2>3 DEF Lives
  <2>8. /\ useOf' = [c \in Cells |-> IF c = d THEN "held"
                                     ELSE IF c \in D THEN "free" ELSE useOf[c]]
        /\ tenantOf' = [c \in Cells |-> IF c = d THEN s
                                        ELSE IF c \in D THEN None ELSE tenantOf[c]]
    BY <1>2, <1>3, <2>5, <2>6, <2>7
  <2>9. s \notin seenBy /\ seenBy' = seenBy \cup {s}
    BY <2>2, <2>3 DEF seenBy
  <2>10. useOf[d] = "free" \/ d \in D
    BY <1>3, <2>2
  <2>11. Allocation!Hold(d, s, D)
    BY <2>2, <2>4, <2>8, <2>9, <2>10 DEF Allocation!Hold
  <2>. QED  BY <2>2, <2>11 DEF Allocation!Next
\* The session of a booking or a finish, and its cell, before and after.
<1>7. ASSUME NEW t \in Txs, CommitBooking(t) \/ CommitFinish(t)
      PROVE  /\ tx[t].id \in Sessions /\ tx[t].cell \in Cells
             /\ session[tx[t].id].cell = tx[t].cell /\ Lives(session[tx[t].id])
             /\ session'[tx[t].id].cell = tx[t].cell
             /\ session'[tx[t].id].status \in {"active", "closed"}
             /\ \A r \in Sessions : r # tx[t].id => session'[r] = session[r]
             /\ \A c \in Cells : c # tx[t].cell =>
                   useOf'[c] = useOf[c] /\ tenantOf'[c] = tenantOf[c]
             /\ UNCHANGED seenBy
  <2>. DEFINE s == tx[t].id
              d == tx[t].cell
  <2>1. /\ tx[t].op \in {"booking", "finish"}
        /\ \E W \in {"active", "closed"}, V \in {"occupied", "free"} :
              session' = [session EXCEPT ![s].status = W] /\ locker' = [locker EXCEPT ![d] = V]
        /\ tx[t].op = "booking" => tx[t].at = "commit"
    BY <1>7 DEF CommitBooking, CommitFinish
  <2>2. /\ s \in Sessions /\ d \in Cells /\ session[s].cell = d /\ Lives(session[s])
    BY <1>0, <2>1 DEF Knows, Serving, Lives
  <2>3. /\ session'[s].cell = d /\ session'[s].status \in {"active", "closed"}
        /\ \A r \in Sessions : r # s => session'[r] = session[r]
        /\ \A c \in Cells : c # d => locker'[c] = locker[c]
    BY <1>0, <2>1, <2>2 DEF TxTypeOK, SessionRow
  <2>4. \A c \in Cells : c # d => useOf'[c] = useOf[c] /\ tenantOf'[c] = tenantOf[c]
    <3>. SUFFICES ASSUME NEW c \in Cells, c # d
                  PROVE  useOf'[c] = useOf[c] /\ tenantOf'[c] = tenantOf[c]
      OBVIOUS
    <3>1. \A r \in Sessions : (Lives(session[r]) /\ session[r].cell = c) <=>
                              (Lives(session'[r]) /\ session'[r].cell = c)
      BY <2>2, <2>3
    <3>. QED  BY <1>3, <1>4, <2>3, <3>1
  <2>5. UNCHANGED seenBy
    BY <2>2, <2>3 DEF seenBy, Lives
  <2>. QED  BY <2>2, <2>3, <2>4, <2>5
<1>8. ASSUME NEW t \in Txs, CommitBooking(t)
      PROVE  Allocation!Next
  <2>. DEFINE s == tx[t].id
              d == tx[t].cell
  <2>1. session[s].status = "selected" /\ locker[d] = "reserved"
    BY <1>0, <1>7, <1>8 DEF CommitBooking, Knows, Serving, Agree
  <2>2. session'[s].status = "active" /\ locker'[d] = "occupied"
    BY <1>0, <1>7, <1>8 DEF CommitBooking, TxTypeOK, SessionRow
  <2>3. useOf[d] = "held" /\ useOf'[d] = "rented" /\ tenantOf[d] = s /\ tenantOf'[d] = s
    BY <1>1, <1>2, <1>3, <1>7, <1>8, <2>1, <2>2 DEF Lives
  <2>4. useOf' = [useOf EXCEPT ![d] = "rented"] /\ tenantOf' = tenantOf
    BY <1>1, <1>2, <1>3, <1>7, <1>8, <2>3
  <2>5. Allocation!Rent(d)
    BY <1>7, <1>8, <2>3, <2>4 DEF Allocation!Rent
  <2>. QED  BY <1>7, <1>8, <2>5 DEF Allocation!Next
<1>9. ASSUME NEW t \in Txs, CommitFinish(t)
      PROVE  Allocation!Next
  <2>. DEFINE s == tx[t].id
              d == tx[t].cell
  <2>1. session[s].status = "active" /\ locker[d] = "occupied"
    BY <1>0, <1>7, <1>9 DEF CommitFinish, Knows, Serving, Agree
  <2>2. session'[s].status = "closed" /\ locker'[d] = "free"
    BY <1>0, <1>7, <1>9 DEF CommitFinish, TxTypeOK, SessionRow
  <2>3. \A r \in Sessions : Lives(session'[r]) => session'[r].cell # d
    BY <1>0, <1>7, <1>9, <2>2 DEF Agree, Lives
  <2>4. useOf[d] = "rented" /\ useOf'[d] = "free" /\ tenantOf'[d] = None
    BY <1>2, <1>3, <1>7, <1>9, <2>1, <2>2, <2>3
  <2>5. useOf' = [useOf EXCEPT ![d] = "free"] /\ tenantOf' = [tenantOf EXCEPT ![d] = None]
    BY <1>1, <1>2, <1>3, <1>7, <1>9, <2>4
  <2>6. Allocation!Leave(d)
    BY <1>7, <1>9, <2>4, <2>5 DEF Allocation!Leave
  <2>. QED  BY <1>7, <1>9, <2>6 DEF Allocation!Next
<1>10. CASE UNCHANGED <<session, locker>>
  BY <1>10 DEF useOf, tenantOf, seenBy
<1>. QED
  BY <1>5, <1>6, <1>8, <1>9, <1>10
  DEF TxNext, Statement, txVars, BeginSweep, BeginBooking, BeginFinish, SweepSession, SweepCell,
      FindLocation, PickCell, InsertSession, LockSession, LockCell, WriteBooking, Rollback, HoldEnds

(* However many transactions there are and wherever they are rolled back,  *)
(* the committed tables are a behaviour of CellAllocation: a transaction   *)
(* may be taken as one step, as RentalFlow takes it.                       *)
THEOREM TransactionsImplementAllocation == TxSpec => TxImplementAllocation
<1>1. TxInit => Allocation!Init
  BY DEF TxInit, NoSession, useOf, tenantOf, seenBy, Allocation!Init
<1>. QED
  BY <1>1, TxInvariant, TxStepImplements, PTL
  DEF TxSpec, TxImplementAllocation, Allocation!Spec, Allocation!allocVars

\* The theorem about CellAllocation, of the cells as the tables have them.
Promise == INSTANCE CellAllocationProofs WITH
               Customers <- Sessions, Nobody <- None,
               use <- useOf, tenant <- tenantOf, seen <- seenBy

(* So the tables keep what CellAllocation promises: a committed cell that  *)
(* is reserved or occupied has exactly one session, and nobody has two,    *)
(* however statements interleave and wherever transactions are rolled      *)
(* back.  In particular no cell is lost to the pool.                       *)
THEOREM TablesKeepThePromise == TxSpec => []Allocation!OneCellPerTenant
<1>1. Promise!Spec => []Promise!OneCellPerTenant
  BY Promise!OneCellEach, RowsAssumption
<1>2. Allocation!Init => Promise!Init
  BY DEF Allocation!Init, Promise!Init
<1>3. [Allocation!Next]_<<useOf, tenantOf, seenBy>> => [Promise!Next]_<<useOf, tenantOf, seenBy>>
  BY DEF Allocation!Next, Allocation!Lapse, Allocation!Hold, Allocation!Rent, Allocation!Leave,
         Promise!Next, Promise!Lapse, Promise!Hold, Promise!Rent, Promise!Leave
<1>4. Promise!OneCellPerTenant => Allocation!OneCellPerTenant
  BY DEF Promise!OneCellPerTenant, Allocation!OneCellPerTenant
<1>. QED
  BY <1>1, <1>2, <1>3, <1>4, TransactionsImplementAllocation, PTL
  DEF TxImplementAllocation, Allocation!Spec, Allocation!allocVars, Promise!Spec, Promise!allocVars
=============================================================================
