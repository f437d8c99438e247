----------------------------- MODULE KioskProofs -----------------------------
(***************************************************************************)
(* Proofs about the screen of a locker, for every number of lockers and    *)
(* rentals, every order of replies, and every loss of them.                *)
(***************************************************************************)
EXTENDS Kiosk, TLAPS

\* Requests name the rental they are about, and those of the payment effect
\* only read the payment or open the cell.
Addressed ==
    \A m \in net :
        /\ m.op # "select" => m.id \in Ids
        /\ m.reply = "ok" => m.id \in Ids
        /\ m.listener \in {"poll", "timer"} => m.op \in {"get", "open"}

\* The flags of the payment effect tell what it awaits, and no handler runs
\* on the payment step, which has no button.
EffectIsAwaited ==
    /\ effect.poll \in {"getting", "opening"} <=> \E m \in net : m.listener = "poll"
    /\ effect.timer = "opening" <=> \E m \in net : m.listener = "timer"
    /\ screen.step # "payment" => effect = NoEffect
    /\ screen.step = "payment" => ~screen.submitting

KioskInv ==
    /\ KioskTypeOK
    /\ ScreenIsComplete
    /\ OneHandlerAtATime
    /\ EffectAwaitsItsOwn
    /\ Addressed
    /\ EffectIsAwaited

-----------------------------------------------------------------------------
(* The types of messages *)

LEMMA MessageFields ==
    ASSUME NEW m \in Message
    PROVE  /\ m.op \in {"select", "book", "check", "finish", "get", "open"}
           /\ m.id \in Ids \cup {None} /\ m.locker \in Lockers
           /\ m.listener \in Listeners /\ m.reply \in Replies
BY DEF Message

(* A reply changes nothing else of a message, and so does the loss of its  *)
(* listener.                                                               *)
LEMMA MessageChanges ==
    ASSUME NEW m \in Message
    PROVE  /\ \A r \in Replies :
                 LET n == [m EXCEPT !.reply = r]
                 IN  /\ n \in Message /\ n.reply = r /\ n.op = m.op /\ n.id = m.id
                     /\ n.listener = m.listener
           /\ LET n == [m EXCEPT !.listener = "nobody"]
              IN  /\ n \in Message /\ n.listener = "nobody" /\ n.op = m.op /\ n.id = m.id
                  /\ n.reply = m.reply
BY DEF Message, Listeners

LEMMA RequestIsMessage ==
    ASSUME KioskTypeOK, NEW op \in {"select", "book", "check", "finish", "get", "open"},
           NEW i \in Ids \cup {None}, NEW who \in Listeners
    PROVE  LET n == Request(op, i, who)
           IN  /\ n \in Message /\ n.op = op /\ n.id = i /\ n.listener = who
               /\ n.reply = "none"
BY DEF KioskTypeOK, Screen, Request, Message, Replies

(* What is left when the listeners in who are gone. *)
LEMMA DeafenedMessages ==
    ASSUME NEW M \in SUBSET Message, NEW who \in SUBSET (Listeners \ {"nobody"})
    PROVE  /\ Deafened(M, who) \subseteq Message
           /\ \A n \in Deafened(M, who) :
                 \/ n \in M /\ n.listener \notin who
                 \/ /\ n.listener = "nobody"
                    /\ \E m \in M : n.op = m.op /\ n.id = m.id /\ n.reply = m.reply
           /\ \A m \in M : m.listener \notin who => m \in Deafened(M, who)
<1>1. ASSUME NEW n \in Deafened(M, who)
      PROVE  /\ n \in Message
             /\ \/ n \in M /\ n.listener \notin who
                \/ /\ n.listener = "nobody"
                   /\ \E m \in M : n.op = m.op /\ n.id = m.id /\ n.reply = m.reply
  <2>1. CASE n \in M /\ n.listener \notin who
    BY <2>1
  <2>2. CASE \E m \in M : n = [m EXCEPT !.listener = "nobody"]
    BY <2>2, MessageChanges
  <2>. QED  BY <1>1, <2>1, <2>2 DEF Deafened
<1>. QED  BY <1>1 DEF Deafened

-----------------------------------------------------------------------------
(* Changes of the network that leave the screen alone *)

(* A message is answered, or loses its answer. *)
LEMMA AnsweredKeeps ==
    ASSUME KioskInv, UNCHANGED <<screen, effect>>, ServiceTypeOK',
           NEW m \in net, NEW n \in Message, net' = (net \ {m}) \cup {n},
           n.op = m.op, n.listener = m.listener,
           m.op # "select" => n.id = m.id,
           n.reply = "ok" => n.id \in Ids
    PROVE  KioskInv'
<1>. USE DEF KioskInv
<1>1. KioskTypeOK' /\ ScreenIsComplete'
  BY DEF KioskTypeOK, ScreenIsComplete
<1>2. OneHandlerAtATime'
  BY DEF OneHandlerAtATime
<1>3. n.listener \in {"poll", "timer"} => n.id = m.id
  BY DEF Addressed
<1>4. EffectAwaitsItsOwn'
  BY <1>3 DEF EffectAwaitsItsOwn
<1>5. Addressed'
  BY DEF Addressed
<1>6. EffectIsAwaited'
  BY DEF EffectIsAwaited
<1>. QED  BY <1>1, <1>2, <1>4, <1>5, <1>6

(* Messages nobody awaits come and go. *)
LEMMA StraysKeep ==
    ASSUME KioskInv, UNCHANGED <<screen, effect>>, ServiceTypeOK',
           net' \subseteq Message,
           \A n \in net' : \/ n \in net
                           \/ /\ n.listener = "nobody"
                              /\ \E m \in net : n.op = m.op /\ n.id = m.id /\ n.reply = m.reply,
           \A m \in net : m.listener # "nobody" => m \in net'
    PROVE  KioskInv'
<1>. USE DEF KioskInv
<1>1. KioskTypeOK' /\ ScreenIsComplete'
  BY DEF KioskTypeOK, ScreenIsComplete
<1>2. OneHandlerAtATime'
  BY DEF OneHandlerAtATime
<1>3. EffectAwaitsItsOwn'
  BY DEF EffectAwaitsItsOwn
<1>4. Addressed'
  BY DEF Addressed
<1>5. EffectIsAwaited'
  BY DEF EffectIsAwaited
<1>. QED  BY <1>1, <1>2, <1>3, <1>4, <1>5

-----------------------------------------------------------------------------
(* The backend *)

(* The contract keeps the types of its rows. *)
LEMMA RowsKept ==
    ASSUME ServiceTypeOK
    PROVE  /\ \A i \in Ids, l \in Lockers, D \in SUBSET Ids : Select(i, l, D) => ServiceTypeOK'
           /\ \A i \in Ids : Book(i) \/ Finish(i) => ServiceTypeOK'
           /\ \A i \in Ids : \A p \in Settled(rental[i].pay) : Refresh(i, p) => ServiceTypeOK'
           /\ \A D \in SUBSET Ids : Lapse(D) => ServiceTypeOK'
<1>0. /\ \A i \in Ids : rental[i] \in Row
      /\ DOMAIN rental = Ids
  BY DEF ServiceTypeOK
<1>1. \A D \in SUBSET Ids : Lapsing(D) \in [Ids -> Row]
  <2>1. \A i \in Ids : [rental[i] EXCEPT !.state = "lapsed"] \in Row
    BY <1>0 DEF Row
  <2>. QED  BY <1>0, <2>1 DEF Lapsing
<1>2. ASSUME NEW i \in Ids, NEW l \in Lockers, NEW D \in SUBSET Ids, Select(i, l, D)
      PROVE  ServiceTypeOK'
  <2>1. [state |-> "held", home |-> l, pay |-> "none"] \in Row
    BY DEF Row
  <2>. QED  BY <1>1, <1>2, <2>1 DEF Select, ServiceTypeOK
<1>3. ASSUME NEW i \in Ids, Book(i)
      PROVE  ServiceTypeOK'
  <2>1. [state |-> "rented", home |-> rental[i].home, pay |-> "pending"] \in Row
    BY <1>0 DEF Row
  <2>. QED  BY <1>3, <2>1 DEF Book, ServiceTypeOK
<1>4. ASSUME NEW i \in Ids, Finish(i)
      PROVE  ServiceTypeOK'
  BY <1>0, <1>4 DEF Finish, ServiceTypeOK, Row
<1>5. ASSUME NEW i \in Ids, NEW p \in Settled(rental[i].pay), Refresh(i, p)
      PROVE  ServiceTypeOK'
  <2>1. p \in {"none", "pending", "paid", "expired"}
    BY <1>0 DEF Settled, Row
  <2>. QED  BY <1>0, <1>5, <2>1 DEF Refresh, ServiceTypeOK, Row
<1>. QED  BY <1>1, <1>2, <1>3, <1>4, <1>5 DEF Lapse, ServiceTypeOK

(* Serving a request answers it and leaves the rest of the network alone.  *)
LEMMA ServeKeeps ==
    ASSUME KioskInv, NEW m \in net, Serve(m)
    PROVE  KioskInv'
<1>. USE DEF KioskInv
<1>0. m \in Message /\ ServiceTypeOK
  BY DEF KioskTypeOK
<1>1. ASSUME NEW r \in Replies, Reply(m, r), UNCHANGED <<screen, effect>>,
             ServiceTypeOK', m.op # "select" \/ r # "ok"
      PROVE  KioskInv'
  <2>. DEFINE n == [m EXCEPT !.reply = r]
  <2>1. /\ n \in Message /\ n.op = m.op /\ n.id = m.id
        /\ n.listener = m.listener /\ n.reply = r
    BY <1>0, MessageChanges
  <2>2. net' = (net \ {m}) \cup {n}
    BY <1>1 DEF Reply
  <2>3. n.reply = "ok" => n.id \in Ids
    BY <1>1, <2>1 DEF Addressed
  <2>. QED  BY <1>1, <2>1, <2>2, <2>3, AnsweredKeeps
<1>2. CASE ServeSelection(m)
  <2>1. ASSUME NEW i \in Ids, NEW D \in SUBSET Ids, Select(i, m.locker, D),
               net' = (net \ {m}) \cup {[m EXCEPT !.reply = "ok", !.id = i]},
               UNCHANGED <<screen, effect>>, m.op = "select"
        PROVE  KioskInv'
    <3>. DEFINE n == [m EXCEPT !.reply = "ok", !.id = i]
    <3>1. ServiceTypeOK'
      BY <1>0, <2>1, RowsKept, MessageFields
    <3>2. /\ n \in Message /\ n.op = m.op /\ n.id = i
          /\ n.listener = m.listener /\ n.reply = "ok"
      BY <1>0 DEF Message, Replies
    <3>. QED  BY <2>1, <3>1, <3>2, AnsweredKeeps
  <2>2. CASE Reply(m, "no_cells") /\ UNCHANGED rental /\ UNCHANGED <<screen, effect>>
    BY <1>0, <1>1, <2>2 DEF Replies, ServiceTypeOK
  <2>. QED  BY <1>2, <2>1, <2>2 DEF ServeSelection, Pending
<1>3. CASE ServeBooking(m)
  <2>1. m.id \in Ids /\ m.op # "select"
    BY <1>3 DEF ServeBooking, Pending, Addressed
  <2>2. ServiceTypeOK'
    BY <1>0, <1>3, <2>1, RowsKept DEF ServeBooking, ServiceTypeOK
  <2>. QED  BY <1>1, <1>3, <2>1, <2>2 DEF ServeBooking, Replies
<1>4. CASE ServeCheck(m)
  <2>1. m.id \in Ids /\ m.op # "select"
    BY <1>4 DEF ServeCheck, Pending, Addressed
  <2>2. ServiceTypeOK'
    BY <1>0, <1>4, <2>1, RowsKept DEF ServeCheck, ServiceTypeOK
  <2>3. \E r \in Replies : Reply(m, r)
    BY <1>4 DEF ServeCheck, Replies
  <2>. QED  BY <1>1, <1>4, <2>1, <2>2, <2>3 DEF ServeCheck
<1>5. CASE ServePayment(m)
  <2>1. m.id \in Ids /\ m.op # "select"
    BY <1>5 DEF ServePayment, Pending, Addressed
  <2>2. ServiceTypeOK'
    BY <1>0, <1>5, <2>1, RowsKept DEF ServePayment
  <2>3. \E r \in Replies : Reply(m, r)
    BY <1>5 DEF ServePayment, Replies
  <2>. QED  BY <1>1, <1>5, <2>1, <2>2, <2>3 DEF ServePayment
<1>6. CASE ServeOpening(m)
  <2>1. m.id \in Ids /\ m.op # "select"
    BY <1>6 DEF ServeOpening, Pending, Addressed
  <2>2. ServiceTypeOK'
    BY <1>0, <1>6, <2>1, RowsKept DEF ServeOpening
  <2>3. \E r \in Replies : Reply(m, r)
    BY <1>6 DEF ServeOpening, Replies
  <2>. QED  BY <1>1, <1>6, <2>1, <2>2, <2>3 DEF ServeOpening
<1>7. CASE ServeFinish(m)
  <2>1. m.id \in Ids /\ m.op # "select"
    BY <1>7 DEF ServeFinish, Pending, Addressed
  <2>2. ServiceTypeOK'
    BY <1>0, <1>7, <2>1, RowsKept DEF ServeFinish
  <2>. QED  BY <1>1, <1>7, <2>1, <2>2 DEF ServeFinish, Replies
<1>. QED  BY <1>2, <1>3, <1>4, <1>5, <1>6, <1>7 DEF Serve

(* Requests and replies are lost, and holds lapse. *)
LEMMA LossKeeps ==
    ASSUME KioskInv, HoldsLapse \/ \E m \in net : Fail(m) \/ Vanish(m)
    PROVE  KioskInv'
<1>. USE DEF KioskInv
<1>0. net \subseteq Message /\ ServiceTypeOK
  BY DEF KioskTypeOK
<1>1. CASE HoldsLapse
  <2>1. ServiceTypeOK'
    BY <1>0, <1>1, RowsKept DEF HoldsLapse
  <2>. QED  BY <1>0, <1>1, <2>1, StraysKeep DEF HoldsLapse
<1>2. ASSUME NEW m \in net, Fail(m)
      PROVE  KioskInv'
  <2>. DEFINE n == [m EXCEPT !.reply = "error"]
              stray == [m EXCEPT !.listener = "nobody"]
  <2>1. /\ n \in Message /\ n.op = m.op /\ n.id = m.id
        /\ n.listener = m.listener /\ n.reply = "error"
    BY <1>0, MessageChanges DEF Replies
  <2>2. ServiceTypeOK' /\ UNCHANGED <<screen, effect>>
    BY <1>0, <1>2 DEF Fail, ServiceTypeOK
  <2>3. CASE net' = (net \ {m}) \cup {n}
    BY <2>1, <2>2, <2>3, AnsweredKeeps
  <2>4. CASE net' = (net \ {m}) \cup {n, stray}
    <3>1. /\ stray \in Message /\ stray.op = m.op /\ stray.id = m.id
          /\ stray.listener = "nobody" /\ stray.reply = m.reply
      BY <1>0, MessageChanges
    <3>. HIDE DEF n, stray
    <3>2. KioskTypeOK' /\ ScreenIsComplete'
      BY <2>1, <2>2, <2>4, <3>1 DEF KioskTypeOK, ScreenIsComplete
    <3>3. OneHandlerAtATime'
      BY <2>1, <2>2, <2>4, <3>1 DEF OneHandlerAtATime
    <3>4. EffectAwaitsItsOwn'
      BY <2>1, <2>2, <2>4, <3>1 DEF EffectAwaitsItsOwn
    <3>5. Addressed'
      BY <2>1, <2>2, <2>4, <3>1 DEF Addressed
    <3>6. EffectIsAwaited'
      BY <2>1, <2>2, <2>4, <3>1 DEF EffectIsAwaited
    <3>. QED  BY <3>2, <3>3, <3>4, <3>5, <3>6
  <2>. QED  BY <1>2, <2>3, <2>4 DEF Fail, Reply
<1>3. ASSUME NEW m \in net, Vanish(m)
      PROVE  KioskInv'
  BY <1>0, <1>3, StraysKeep DEF Vanish, ServiceTypeOK
<1>. QED  BY <1>1, <1>2, <1>3

-----------------------------------------------------------------------------
(* The page *)

(* A handler starts: its request is the only one of a handler.             *)
LEMMA SubmitKeeps ==
    ASSUME KioskInv, NEW op \in {"select", "book", "check", "finish"},
           NEW i \in Ids \cup {None}, op # "select" => i \in Ids,
           Submit(op, i), screen.step # "payment"
    PROVE  KioskInv'
<1>. USE DEF KioskInv
<1>. DEFINE n == Request(op, i, "handler")
<1>1. /\ n \in Message /\ n.op = op /\ n.id = i /\ n.listener = "handler"
      /\ n.reply = "none"
  BY RequestIsMessage DEF Listeners
<1>2. /\ net' = net \cup {n} /\ ~screen.submitting /\ screen'.submitting
      /\ UNCHANGED <<rental, effect>>
      /\ screen' \in Screen
      /\ screen'.step = screen.step /\ screen'.rental = screen.rental
      /\ screen'.selection = screen.selection
  BY DEF Submit, KioskTypeOK, Screen
<1>. HIDE DEF n
<1>3. KioskTypeOK' /\ ScreenIsComplete'
  BY <1>1, <1>2 DEF KioskTypeOK, ServiceTypeOK, ScreenIsComplete
<1>4. OneHandlerAtATime'
  BY <1>1, <1>2 DEF OneHandlerAtATime
<1>5. EffectAwaitsItsOwn'
  BY <1>1, <1>2 DEF EffectAwaitsItsOwn
<1>6. Addressed'
  BY <1>1, <1>2 DEF Addressed
<1>7. EffectIsAwaited'
  BY <1>1, <1>2 DEF EffectIsAwaited
<1>. QED  BY <1>3, <1>4, <1>5, <1>6, <1>7

(* The screen changes off the payment step, with no handler under way or   *)
(* the handler m just returned.                                            *)
LEMMA ScreenMoves ==
    ASSUME KioskInv, screen.step # "payment", UNCHANGED <<rental, effect>>,
           NEW M \in SUBSET net, net' = M,
           \A m \in net : m.listener # "handler" => m \in M,
           screen' \in Screen, screen'.step # "payment",
           screen'.submitting <=> \E m \in M : m.listener = "handler",
           screen'.step = "phone-entry" => screen'.selection # None,
           screen'.step \in {"access-code", "active-rent"} => screen'.rental # None
    PROVE  KioskInv'
<1>. USE DEF KioskInv
<1>1. KioskTypeOK'
  BY DEF KioskTypeOK, ServiceTypeOK
<1>2. ScreenIsComplete'
  BY DEF ScreenIsComplete
<1>3. OneHandlerAtATime'
  BY DEF OneHandlerAtATime
<1>4. EffectAwaitsItsOwn'
  BY DEF EffectAwaitsItsOwn
<1>5. Addressed'
  BY DEF Addressed
<1>6. EffectIsAwaited'
  BY DEF EffectIsAwaited
<1>. QED  BY <1>1, <1>2, <1>3, <1>4, <1>5, <1>6

(* The buttons. *)
LEMMA ButtonsKeep ==
    ASSUME KioskInv,
           SelectCell \/ SubmitPhone \/ EndRent \/ Edit \/ Exit \/ \E i \in Ids : SubmitCode(i)
    PROVE  KioskInv'
<1>. USE DEF KioskInv
<1>0. screen \in Screen
  BY DEF KioskTypeOK
<1>1. CASE SelectCell
  BY <1>1, SubmitKeeps DEF SelectCell
<1>2. CASE SubmitPhone
  <2>1. screen.selection \in Ids
    BY <1>0, <1>2 DEF SubmitPhone, ScreenIsComplete, Screen
  <2>. QED  BY <1>2, <2>1, SubmitKeeps DEF SubmitPhone
<1>3. CASE EndRent
  <2>1. screen.rental \in Ids
    BY <1>0, <1>3 DEF EndRent, ScreenIsComplete, Screen
  <2>. QED  BY <1>3, <2>1, SubmitKeeps DEF EndRent
<1>4. ASSUME NEW i \in Ids, SubmitCode(i)
      PROVE  KioskInv'
  BY <1>4, SubmitKeeps DEF SubmitCode
<1>5. ~screen.submitting => \A m \in net : m.listener # "handler"
  BY DEF OneHandlerAtATime
<1>6. CASE Edit
  <2>1. PICK told \in {"nothing", "failure"} : screen' = [screen EXCEPT !.told = told]
    BY <1>6 DEF Edit
  <2>2. /\ screen' \in Screen /\ screen'.step = screen.step
        /\ screen'.submitting = screen.submitting /\ screen'.rental = screen.rental
        /\ screen'.selection = screen.selection
    BY <1>0, <2>1 DEF Screen
  <2>3. /\ ~screen.submitting /\ screen.step \in {"select-size", "phone-entry"}
        /\ UNCHANGED <<rental, effect, net>>
    BY <1>6 DEF Edit
  <2>. QED  BY <1>5, <2>2, <2>3, ScreenMoves DEF ScreenIsComplete
<1>7. CASE Exit
  <2>1. /\ screen' \in Screen /\ screen'.step = "select-size" /\ ~screen'.submitting
    BY <1>0, <1>7 DEF Exit, FreshScreen, Screen, Steps
  <2>2. /\ ~screen.submitting /\ screen.step # "payment"
        /\ UNCHANGED <<rental, effect, net>>
    BY <1>7 DEF Exit
  <2>. QED  BY <1>5, <2>1, <2>2, ScreenMoves
<1>. QED  BY <1>1, <1>2, <1>3, <1>4, <1>6, <1>7

(* The handler m has returned: nobody else is a handler, and the payment   *)
(* effect awaits nothing.                                                  *)
LEMMA HandlerReturns ==
    ASSUME KioskInv, NEW m \in net, m.listener = "handler"
    PROVE  /\ screen.submitting /\ screen.step # "payment" /\ effect = NoEffect
           /\ \A n \in net \ {m} : n.listener = "nobody"
<1>. USE DEF KioskInv
<1>1. screen.submitting /\ screen.step # "payment" /\ effect = NoEffect
  BY DEF OneHandlerAtATime, EffectIsAwaited
<1>2. \A n \in net : n.listener \notin {"poll", "timer"}
  BY <1>1 DEF EffectAwaitsItsOwn
<1>3. \A n \in net \ {m} : n.listener # "handler"
  BY DEF OneHandlerAtATime
<1>4. \A n \in net : n.listener \in Listeners
  BY MessageFields DEF KioskTypeOK
<1>. QED  BY <1>1, <1>2, <1>3, <1>4 DEF Listeners

(* The handlers other than the check of a code. *)
LEMMA HandlersKeep ==
    ASSUME KioskInv, NEW m \in net,
           SelectionAnswered(m) \/ BookingAnswered(m) \/ FinishAnswered(m)
    PROVE  KioskInv'
<1>. USE DEF KioskInv
<1>0. screen \in Screen /\ m \in Message /\ m.listener = "handler"
  BY DEF KioskTypeOK, SelectionAnswered, BookingAnswered, FinishAnswered, Returned
<1>1. /\ screen.submitting /\ screen.step # "payment" /\ effect = NoEffect
      /\ \A n \in net \ {m} : n.listener = "nobody"
  BY <1>0, HandlerReturns
<1>2. /\ UNCHANGED <<rental, effect>> /\ net' = net \ {m}
  BY DEF SelectionAnswered, BookingAnswered, FinishAnswered
<1>3. ASSUME screen' \in Screen, ~screen'.submitting, screen'.step # "payment",
             screen'.step = "phone-entry" => screen'.selection # None,
             screen'.step \in {"access-code", "active-rent"} => screen'.rental # None
      PROVE  KioskInv'
  <2>1. net \ {m} \in SUBSET net
    OBVIOUS
  <2>2. \A n \in net : n.listener # "handler" => n \in net \ {m}
    BY <1>0
  <2>3. screen'.submitting <=> \E n \in net \ {m} : n.listener = "handler"
    BY <1>1, <1>3
  <2>. QED  BY <1>1, <1>2, <1>3, <2>1, <2>2, <2>3, ScreenMoves
<1>4. CASE SelectionAnswered(m)
  <2>. DEFINE step == CASE m.reply = "ok" -> "phone-entry"
                        [] m.reply = "no_cells" -> "no-cells"
                        [] OTHER -> screen.step
              selection == IF m.reply = "ok" THEN m.id ELSE screen.selection
              told == IF m.reply = "error" THEN "failure" ELSE "nothing"
  <2>1. screen' = [screen EXCEPT !.submitting = FALSE, !.step = step,
                                 !.selection = selection, !.told = told]
    BY <1>4 DEF SelectionAnswered
  <2>2. /\ step \in Steps /\ step # "payment"
        /\ selection \in Ids \cup {None} /\ told \in {"nothing", "failure"}
    BY <1>0, <1>1, MessageFields DEF Screen, Steps
  <2>3. step = "phone-entry" => selection # None
    BY <1>0, NoneAssumption DEF Addressed, ScreenIsComplete
  <2>4. step \in {"access-code", "active-rent"} => screen.rental # None
    BY DEF ScreenIsComplete
  <2>. HIDE DEF step, selection, told
  <2>5. /\ screen' \in Screen /\ ~screen'.submitting /\ screen'.step = step
        /\ screen'.selection = selection /\ screen'.rental = screen.rental
    BY <1>0, <2>1, <2>2 DEF Screen
  <2>. QED  BY <1>3, <2>2, <2>3, <2>4, <2>5
<1>5. CASE BookingAnswered(m)
  <2>1. CASE m.reply = "ok"
    <3>1. m.id \in Ids /\ m.id # None
      BY <2>1, NoneAssumption DEF Addressed
    <3>2. screen' = [screen EXCEPT !.submitting = FALSE, !.step = "access-code",
                                   !.selection = None, !.rental = m.id,
                                   !.polls = FALSE, !.told = "nothing"]
      BY <1>5, <2>1 DEF BookingAnswered
    <3>3. /\ screen' \in Screen /\ ~screen'.submitting /\ screen'.step = "access-code"
          /\ screen'.rental = m.id
      BY <1>0, <3>1, <3>2 DEF Screen, Steps
    <3>. QED  BY <1>3, <3>1, <3>3
  <2>2. CASE m.reply = "expired"
    <3>1. screen' = [FreshScreen(screen.locker) EXCEPT !.told = "hold_expired"]
      BY <1>5, <2>2 DEF BookingAnswered
    <3>2. /\ screen' \in Screen /\ ~screen'.submitting /\ screen'.step = "select-size"
      BY <1>0, <3>1 DEF FreshScreen, Screen, Steps
    <3>. QED  BY <1>3, <3>2
  <2>3. CASE m.reply \notin {"ok", "expired"}
    <3>1. screen' = [screen EXCEPT !.submitting = FALSE, !.told = "failure"]
      BY <1>5, <2>3 DEF BookingAnswered
    <3>2. /\ screen' \in Screen /\ ~screen'.submitting /\ screen'.step = screen.step
          /\ screen'.selection = screen.selection /\ screen'.rental = screen.rental
      BY <1>0, <3>1 DEF Screen
    <3>. QED  BY <1>1, <1>3, <3>2 DEF ScreenIsComplete
  <2>. QED  BY <2>1, <2>2, <2>3
<1>6. CASE FinishAnswered(m)
  <2>1. CASE m.reply = "ok"
    <3>1. screen' = FreshScreen(screen.locker)
      BY <1>6, <2>1 DEF FinishAnswered
    <3>2. /\ screen' \in Screen /\ ~screen'.submitting /\ screen'.step = "select-size"
      BY <1>0, <3>1 DEF FreshScreen, Screen, Steps
    <3>. QED  BY <1>3, <3>2
  <2>2. CASE m.reply # "ok"
    <3>1. screen' = [screen EXCEPT !.submitting = FALSE, !.told = "failure"]
      BY <1>6, <2>2 DEF FinishAnswered
    <3>2. /\ screen' \in Screen /\ ~screen'.submitting /\ screen'.step = screen.step
          /\ screen'.selection = screen.selection /\ screen'.rental = screen.rental
      BY <1>0, <3>1 DEF Screen
    <3>. QED  BY <1>1, <1>3, <3>2 DEF ScreenIsComplete
  <2>. QED  BY <2>1, <2>2
<1>. QED  BY <1>4, <1>5, <1>6

(* The check of a code: the payment step is shown and its effect starts.   *)
LEMMA CodeKeeps ==
    ASSUME KioskInv, NEW m \in net, CodeAnswered(m)
    PROVE  KioskInv'
<1>. USE DEF KioskInv
<1>0. /\ screen \in Screen /\ m \in Message /\ m.listener = "handler"
      /\ m.id \in Ids /\ m.id # None
  BY NoneAssumption DEF KioskTypeOK, CodeAnswered, Returned, Addressed
<1>1. /\ screen.submitting /\ screen.step # "payment" /\ effect = NoEffect
      /\ \A n \in net \ {m} : n.listener = "nobody"
  BY <1>0, HandlerReturns
<1>2. CASE m.reply = "error"
  <2>1. /\ screen' = [screen EXCEPT !.submitting = FALSE, !.told = "failure"]
        /\ net' = net \ {m} /\ UNCHANGED <<rental, effect>>
    BY <1>2 DEF CodeAnswered
  <2>2. /\ screen' \in Screen /\ ~screen'.submitting /\ screen'.step = screen.step
        /\ screen'.selection = screen.selection /\ screen'.rental = screen.rental
    BY <1>0, <2>1 DEF Screen
  <2>3. net \ {m} \in SUBSET net /\ \A n \in net : n.listener # "handler" => n \in net \ {m}
    BY <1>0
  <2>4. screen'.submitting <=> \E n \in net \ {m} : n.listener = "handler"
    BY <1>1, <2>2
  <2>. QED  BY <1>1, <2>1, <2>2, <2>3, <2>4, ScreenMoves DEF ScreenIsComplete
<1>3. CASE m.reply # "error"
  <2>. DEFINE polls == m.reply = "unpaid"
              n == Request("get", m.id, "poll")
  <2>1. /\ screen' = [screen EXCEPT !.submitting = FALSE, !.step = "payment",
                                    !.selection = None, !.rental = m.id,
                                    !.polls = polls, !.told = "nothing"]
        /\ effect' = [timer |-> "armed", poll |-> IF polls THEN "getting" ELSE "off"]
        /\ net' = (net \ {m}) \cup (IF polls THEN {n} ELSE {})
        /\ UNCHANGED rental
    BY <1>3 DEF CodeAnswered
  <2>2. /\ n \in Message /\ n.op = "get" /\ n.id = m.id /\ n.listener = "poll"
        /\ n.reply = "none"
    BY <1>0, RequestIsMessage DEF Listeners
  <2>3. polls \in BOOLEAN
    OBVIOUS
  <2>. HIDE DEF n, polls
  <2>4. /\ screen' \in Screen /\ ~screen'.submitting /\ screen'.step = "payment"
        /\ screen'.rental = m.id
    BY <1>0, <2>1, <2>3 DEF Screen, Steps
  <2>5. KioskTypeOK'
    BY <2>1, <2>2, <2>4 DEF KioskTypeOK, ServiceTypeOK, Effect
  <2>6. ScreenIsComplete'
    BY <1>0, <2>1, <2>4 DEF ScreenIsComplete
  <2>7. OneHandlerAtATime'
    BY <1>1, <2>1, <2>2, <2>4 DEF OneHandlerAtATime
  <2>8. EffectAwaitsItsOwn'
    BY <1>1, <2>1, <2>2, <2>4 DEF EffectAwaitsItsOwn
  <2>9. Addressed'
    BY <1>0, <2>1, <2>2 DEF Addressed
  <2>10. EffectIsAwaited'
    BY <1>1, <2>1, <2>2, <2>4 DEF EffectIsAwaited
  <2>. QED  BY <2>5, <2>6, <2>7, <2>8, <2>9, <2>10
<1>. QED  BY <1>2, <1>3

-----------------------------------------------------------------------------
(* The payment effect *)

LEMMA TimersKeep ==
    ASSUME KioskInv, PollTicks \/ TimerFires
    PROVE  KioskInv'
<1>. USE DEF KioskInv
<1>0. /\ screen \in Screen /\ effect \in Effect /\ screen.step = "payment"
      /\ screen.rental \in Ids
  BY DEF KioskTypeOK, PollTicks, TimerFires, ScreenIsComplete, Screen
<1>1. CASE PollTicks
  <2>. DEFINE n == Request("get", screen.rental, "poll")
  <2>1. /\ n \in Message /\ n.op = "get" /\ n.id = screen.rental
        /\ n.listener = "poll" /\ n.reply = "none"
    BY <1>0, RequestIsMessage DEF Listeners
  <2>2. /\ effect.poll = "idle" /\ effect' = [effect EXCEPT !.poll = "getting"]
        /\ net' = net \cup {n} /\ UNCHANGED <<rental, screen>>
    BY <1>1 DEF PollTicks
  <2>. HIDE DEF n
  <2>3. /\ effect' \in Effect /\ effect'.poll = "getting" /\ effect'.timer = effect.timer
    BY <1>0, <2>2 DEF Effect
  <2>4. \A m \in net : m.listener # "poll"
    BY <2>2 DEF EffectIsAwaited
  <2>5. KioskTypeOK' /\ ScreenIsComplete'
    BY <2>1, <2>2, <2>3 DEF KioskTypeOK, ServiceTypeOK, ScreenIsComplete
  <2>6. OneHandlerAtATime'
    BY <2>1, <2>2 DEF OneHandlerAtATime
  <2>7. EffectAwaitsItsOwn'
    BY <1>0, <2>1, <2>2, <2>4 DEF EffectAwaitsItsOwn
  <2>8. Addressed'
    BY <1>0, <2>1, <2>2 DEF Addressed
  <2>9. EffectIsAwaited'
    BY <1>0, <2>1, <2>2, <2>3 DEF EffectIsAwaited
  <2>. QED  BY <2>5, <2>6, <2>7, <2>8, <2>9
<1>2. CASE TimerFires
  <2>. DEFINE n == Request("open", screen.rental, "timer")
  <2>1. /\ n \in Message /\ n.op = "open" /\ n.id = screen.rental
        /\ n.listener = "timer" /\ n.reply = "none"
    BY <1>0, RequestIsMessage DEF Listeners
  <2>2. /\ effect.timer = "armed" /\ effect' = [effect EXCEPT !.timer = "opening"]
        /\ net' = net \cup {n} /\ UNCHANGED <<rental, screen>>
    BY <1>2 DEF TimerFires
  <2>. HIDE DEF n
  <2>3. /\ effect' \in Effect /\ effect'.timer = "opening" /\ effect'.poll = effect.poll
    BY <1>0, <2>2 DEF Effect
  <2>4. \A m \in net : m.listener # "timer"
    BY <2>2 DEF EffectIsAwaited
  <2>5. KioskTypeOK' /\ ScreenIsComplete'
    BY <1>0, <2>1, <2>2, <2>3 DEF KioskTypeOK, ServiceTypeOK, ScreenIsComplete
  <2>6. OneHandlerAtATime'
    BY <2>1, <2>2 DEF OneHandlerAtATime
  <2>7. EffectAwaitsItsOwn'
    BY <1>0, <2>1, <2>2, <2>4 DEF EffectAwaitsItsOwn
  <2>8. Addressed'
    BY <1>0, <2>1, <2>2 DEF Addressed
  <2>9. EffectIsAwaited'
    BY <1>0, <2>1, <2>2, <2>3 DEF EffectIsAwaited
  <2>. QED  BY <2>5, <2>6, <2>7, <2>8, <2>9
<1>. QED  BY <1>1, <1>2

LEMMA PollKeeps ==
    ASSUME KioskInv, NEW m \in net, PollAnswered(m)
    PROVE  KioskInv'
<1>. USE DEF KioskInv
<1>0. /\ screen \in Screen /\ effect \in Effect /\ m.listener = "poll"
      /\ screen.step = "payment" /\ screen.rental \in Ids
  BY DEF KioskTypeOK, PollAnswered, EffectAwaitsItsOwn, ScreenIsComplete, Screen
<1>1. \A q \in net \ {m} : q.listener # "poll"
  BY <1>0 DEF EffectAwaitsItsOwn
<1>2. UNCHANGED <<rental, screen>>
  BY DEF PollAnswered
<1>3. CASE m.op = "get" /\ m.reply = "paid"
  <2>. DEFINE n == Request("open", screen.rental, "poll")
  <2>1. /\ n \in Message /\ n.op = "open" /\ n.id = screen.rental
        /\ n.listener = "poll" /\ n.reply = "none"
    BY <1>0, RequestIsMessage DEF Listeners
  <2>2. effect' = [effect EXCEPT !.poll = "opening"] /\ net' = (net \ {m}) \cup {n}
    BY <1>3 DEF PollAnswered
  <2>. HIDE DEF n
  <2>3. /\ effect' \in Effect /\ effect'.poll = "opening" /\ effect'.timer = effect.timer
    BY <1>0, <2>2 DEF Effect
  <2>4. KioskTypeOK' /\ ScreenIsComplete'
    BY <1>2, <2>1, <2>2, <2>3 DEF KioskTypeOK, ServiceTypeOK, ScreenIsComplete
  <2>5. OneHandlerAtATime'
    BY <1>0, <1>2, <2>1, <2>2 DEF OneHandlerAtATime
  <2>6. EffectAwaitsItsOwn'
    BY <1>0, <1>1, <1>2, <2>1, <2>2 DEF EffectAwaitsItsOwn
  <2>7. Addressed'
    BY <1>0, <2>1, <2>2 DEF Addressed
  <2>8. EffectIsAwaited'
    BY <1>0, <1>2, <2>1, <2>2, <2>3 DEF EffectIsAwaited
  <2>. QED  BY <2>4, <2>5, <2>6, <2>7, <2>8
<1>4. CASE ~(m.op = "get" /\ m.reply = "paid")
  <2>1. effect' = [effect EXCEPT !.poll = "idle"] /\ net' = net \ {m}
    BY <1>4 DEF PollAnswered
  <2>2. /\ effect' \in Effect /\ effect'.poll = "idle" /\ effect'.timer = effect.timer
    BY <1>0, <2>1 DEF Effect
  <2>3. KioskTypeOK' /\ ScreenIsComplete'
    BY <1>2, <2>1, <2>2 DEF KioskTypeOK, ServiceTypeOK, ScreenIsComplete
  <2>4. OneHandlerAtATime'
    BY <1>0, <1>2, <2>1 DEF OneHandlerAtATime
  <2>5. EffectAwaitsItsOwn' /\ Addressed'
    BY <1>2, <2>1 DEF EffectAwaitsItsOwn, Addressed
  <2>6. EffectIsAwaited'
    BY <1>0, <1>1, <1>2, <2>1, <2>2 DEF EffectIsAwaited
  <2>. QED  BY <2>3, <2>4, <2>5, <2>6
<1>. QED  BY <1>3, <1>4

(* The cleanup of the payment effect: the screen moves on, the handler, if *)
(* one is under way, is still awaited, and nothing else is.                *)
LEMMA CleanupKeeps ==
    ASSUME KioskInv, NEW M \in SUBSET net, NEW who \in SUBSET (Listeners \ {"nobody"}),
           {"poll", "timer"} \subseteq who,
           net' = Deafened(M, who), effect' = NoEffect, rental' = rental,
           screen' \in Screen, screen'.step \in {"select-size", "active-rent"},
           screen'.step = "active-rent" => screen'.rental # None,
           screen'.submitting <=> \E m \in M : m.listener = "handler" /\ "handler" \notin who
    PROVE  KioskInv'
<1>. USE DEF KioskInv
<1>1. M \in SUBSET Message
  BY DEF KioskTypeOK
<1>2. /\ net' \subseteq Message
      /\ \A n \in net' :
           \/ n \in M /\ n.listener \notin who
           \/ /\ n.listener = "nobody"
              /\ \E m \in M : n.op = m.op /\ n.id = m.id /\ n.reply = m.reply
      /\ \A m \in M : m.listener \notin who => m \in net'
  BY <1>1, DeafenedMessages
<1>3. NoEffect \in Effect /\ NoEffect.timer = "off" /\ NoEffect.poll = "off"
  BY DEF NoEffect, Effect
<1>4. \A n \in net' : n.listener \notin {"poll", "timer"}
  BY <1>2
<1>5. KioskTypeOK'
  BY <1>2, <1>3 DEF KioskTypeOK, ServiceTypeOK
<1>6. ScreenIsComplete'
  BY <1>3 DEF ScreenIsComplete
<1>7. OneHandlerAtATime'
  BY <1>2 DEF OneHandlerAtATime
<1>8. EffectAwaitsItsOwn'
  BY <1>4 DEF EffectAwaitsItsOwn
<1>9. Addressed'
  BY <1>2, <1>4 DEF Addressed
<1>10. EffectIsAwaited'
  BY <1>3, <1>4 DEF EffectIsAwaited
<1>. QED  BY <1>5, <1>6, <1>7, <1>8, <1>9, <1>10

LEMMA TimerKeeps ==
    ASSUME KioskInv, NEW m \in net, TimerAnswered(m)
    PROVE  KioskInv'
<1>. USE DEF KioskInv
<1>0. /\ screen \in Screen /\ m.listener = "timer" /\ screen.step = "payment"
      /\ screen.rental # None /\ ~screen.submitting
  BY DEF KioskTypeOK, TimerAnswered, EffectAwaitsItsOwn, ScreenIsComplete, EffectIsAwaited
<1>1. screen' = [screen EXCEPT !.step = "active-rent", !.polls = FALSE, !.told = "nothing"]
  BY DEF TimerAnswered
<1>2. /\ screen' \in Screen /\ screen'.step = "active-rent"
      /\ screen'.rental = screen.rental /\ ~screen'.submitting
  BY <1>0, <1>1 DEF Screen, Steps
<1>3. \A n \in net : n.listener # "handler"
  BY <1>0 DEF OneHandlerAtATime
<1>4. /\ net' = Deafened(net \ {m}, {"poll", "timer"}) /\ effect' = NoEffect
      /\ rental' = rental
  BY DEF TimerAnswered, CleanedUp
<1>5. {"poll", "timer"} \in SUBSET (Listeners \ {"nobody"}) /\ net \ {m} \in SUBSET net
  BY DEF Listeners
<1>. QED  BY <1>0, <1>2, <1>3, <1>4, <1>5, CleanupKeeps

LEMMA PageKeeps ==
    ASSUME KioskInv, Reload \/ \E l \in Lockers : ChangeLocker(l)
    PROVE  KioskInv'
<1>. USE DEF KioskInv
<1>0. screen \in Screen
  BY DEF KioskTypeOK
<1>1. CASE Reload
  <2>1. /\ net' = Deafened(net, {"handler", "poll", "timer"})
        /\ effect' = NoEffect /\ rental' = rental /\ screen' = FreshScreen(screen.locker)
    BY <1>1 DEF Reload
  <2>2. /\ screen' \in Screen /\ screen'.step = "select-size" /\ ~screen'.submitting
    BY <1>0, <2>1 DEF FreshScreen, Screen, Steps
  <2>3. {"handler", "poll", "timer"} \in SUBSET (Listeners \ {"nobody"})
    BY DEF Listeners
  <2>. QED  BY <2>1, <2>2, <2>3, CleanupKeeps
<1>2. ASSUME NEW l \in Lockers, ChangeLocker(l)
      PROVE  KioskInv'
  <2>1. /\ net' = Deafened(net, {"poll", "timer"})
        /\ effect' = NoEffect /\ rental' = rental
        /\ screen' = [FreshScreen(l) EXCEPT !.submitting = screen.submitting]
    BY <1>2 DEF ChangeLocker, CleanedUp
  <2>2. /\ screen' \in Screen /\ screen'.step = "select-size"
        /\ screen'.submitting = screen.submitting
    BY <1>0, <2>1 DEF FreshScreen, Screen, Steps
  <2>3. {"poll", "timer"} \in SUBSET (Listeners \ {"nobody"})
    BY DEF Listeners
  <2>4. screen'.submitting <=> \E m \in net : m.listener = "handler"
                                              /\ "handler" \notin {"poll", "timer"}
    BY <2>2 DEF OneHandlerAtATime
  <2>. QED  BY <2>1, <2>2, <2>3, <2>4, CleanupKeeps
<1>. QED  BY <1>1, <1>2

-----------------------------------------------------------------------------
(* Theorems *)

THEOREM KioskInvariant == KioskSpec => []KioskInv
<1>1. KioskInit => KioskInv
  <2>. SUFFICES ASSUME KioskInit
                PROVE  KioskInv
    OBVIOUS
  <2>0. PICK l \in Lockers : screen = FreshScreen(l)
    BY DEF KioskInit
  <2>1. /\ screen \in Screen /\ screen.step = "select-size" /\ ~screen.submitting
    BY <2>0 DEF FreshScreen, Screen, Steps
  <2>2. NoEffect \in Effect /\ NoEffect.timer = "off" /\ NoEffect.poll = "off"
    BY DEF NoEffect, Effect
  <2>3. ServiceTypeOK
    BY DEF KioskInit, ServiceInit, ServiceTypeOK, Unselected, Row
  <2>4. net = {} /\ effect = NoEffect
    BY DEF KioskInit
  <2>. QED
    BY <2>1, <2>2, <2>3, <2>4
    DEF KioskInv, KioskTypeOK, ScreenIsComplete, OneHandlerAtATime, EffectAwaitsItsOwn,
        Addressed, EffectIsAwaited
<1>2. KioskInv /\ [KioskNext]_kioskVars => KioskInv'
  <2>. SUFFICES ASSUME KioskInv, [KioskNext]_kioskVars
                PROVE  KioskInv'
    OBVIOUS
  <2>1. CASE UNCHANGED kioskVars
    BY <2>1
    DEF kioskVars, KioskInv, KioskTypeOK, ServiceTypeOK, ScreenIsComplete,
        OneHandlerAtATime, EffectAwaitsItsOwn, Addressed, EffectIsAwaited
  <2>2. ASSUME NEW m \in net, Serve(m) \/ Deliver(m) \/ Fail(m) \/ Vanish(m)
        PROVE  KioskInv'
    BY <2>2, ServeKeeps, LossKeeps, HandlersKeep, CodeKeeps, PollKeeps, TimerKeeps
    DEF Deliver
  <2>. QED
    BY <2>1, <2>2, ButtonsKeep, TimersKeep, PageKeeps, LossKeeps DEF KioskNext
<1>. QED  BY <1>1, <1>2, PTL DEF KioskSpec

(* The page, its requests and the rows behind them keep their types.       *)
THEOREM KioskTypesHold == KioskSpec => []KioskTypeOK
BY KioskInvariant, PTL DEF KioskInv

(* Every step finds the selection or the rental it renders and sends, and  *)
(* the payment effect exists exactly on the payment step.                  *)
THEOREM ScreensAreComplete == KioskSpec => []ScreenIsComplete
BY KioskInvariant, PTL DEF KioskInv

(* isSubmitting is a lock: at most one handler awaits a reply, whatever    *)
(* happens to the page and to the requests.                                *)
THEOREM HandlersExclude == KioskSpec => []OneHandlerAtATime
BY KioskInvariant, PTL DEF KioskInv

(* The poll and the timer await one reply each, about the rental on the    *)
(* screen.                                                                 *)
THEOREM EffectsMindTheirOwn == KioskSpec => []EffectAwaitsItsOwn
BY KioskInvariant, PTL DEF KioskInv

-----------------------------------------------------------------------------
(* Steps *)

\* The answers to handlers do not lead from the payment step to the rent.
LEMMA SelectionOrCodeLeads ==
    ASSUME KioskInv, screen.step = "payment", NEW m \in net,
           SelectionAnswered(m) \/ BookingAnswered(m) \/ CodeAnswered(m) \/ FinishAnswered(m)
    PROVE  screen'.step # "active-rent"
<1>1. screen \in Screen /\ m.listener = "handler"
  BY DEF KioskInv, KioskTypeOK, SelectionAnswered, BookingAnswered, CodeAnswered,
         FinishAnswered, Returned
<1>. QED
  BY <1>1 DEF KioskInv, OneHandlerAtATime, EffectIsAwaited

LEMMA PaymentStep ==
    ASSUME KioskInv, [KioskNext]_kioskVars,
           screen.step = "payment", screen'.step = "active-rent"
    PROVE  /\ screen'.rental = screen.rental
           /\ \E m \in net : m.listener = "timer" /\ m.id = screen.rental
<1>0. screen \in Screen
  BY DEF KioskInv, KioskTypeOK
<1>1. screen' # screen
  OBVIOUS
<1>2. PICK m \in net : Deliver(m)
  <2>1. ~SelectCell /\ ~SubmitPhone /\ ~EndRent /\ ~Edit /\ ~Exit
    BY DEF SelectCell, SubmitPhone, EndRent, Edit, Exit
  <2>2. \A i \in Ids : ~SubmitCode(i)
    BY DEF SubmitCode
  <2>3. ~PollTicks /\ ~TimerFires /\ ~HoldsLapse
    BY <1>1 DEF PollTicks, TimerFires, HoldsLapse
  <2>4. ~Reload /\ \A l \in Lockers : ~ChangeLocker(l)
    BY DEF Reload, ChangeLocker, FreshScreen
  <2>5. \A m \in net : ~Serve(m) /\ ~Fail(m) /\ ~Vanish(m)
    BY <1>1 DEF Serve, ServeSelection, ServeBooking, ServeCheck, ServePayment, ServeOpening,
                ServeFinish, Fail, Vanish
  <2>. QED  BY <1>1, <2>1, <2>2, <2>3, <2>4, <2>5 DEF KioskNext, kioskVars
<1>3. TimerAnswered(m)
  BY <1>1, <1>2, SelectionOrCodeLeads DEF Deliver, PollAnswered
<1>. QED
  BY <1>0, <1>3 DEF KioskInv, EffectAwaitsItsOwn, TimerAnswered, Screen

(* Only a booking that the backend serves makes a rental of a selection.   *)
LEMMA BookingStep ==
    ASSUME KioskInv, [KioskNext]_kioskVars, NEW i \in Ids,
           rental[i].state = "held", rental'[i].state = "rented"
    PROVE  \E m \in net : m.op = "book" /\ m.id = i /\ m.locker = rental[i].home
<1>0. rental \in [Ids -> Row]
  BY DEF KioskInv, KioskTypeOK, ServiceTypeOK
<1>1. rental' # rental
  BY <1>0
<1>2. \A D \in SUBSET Ids : ~Lapse(D)
  BY <1>0 DEF Lapse, Lapsing, Row
<1>3. \A j \in Ids, l \in Lockers, D \in SUBSET Ids : ~Select(j, l, D)
  BY <1>0 DEF Select, Lapsing, Row
<1>4. \A j \in Ids : \A p : ~Refresh(j, p)
  BY <1>0 DEF Refresh, Row
<1>5. \A j \in Ids : ~Finish(j)
  BY <1>0 DEF Finish, Row
<1>6. PICK m \in net : Serve(m)
  <2>1. ~SelectCell /\ ~SubmitPhone /\ ~EndRent /\ ~Edit /\ ~Exit
    BY <1>1 DEF SelectCell, SubmitPhone, EndRent, Edit, Exit, Submit
  <2>2. \A j \in Ids : ~SubmitCode(j)
    BY <1>1 DEF SubmitCode, Submit
  <2>3. ~PollTicks /\ ~TimerFires /\ ~HoldsLapse
    BY <1>1, <1>2 DEF PollTicks, TimerFires, HoldsLapse
  <2>4. ~Reload /\ \A l \in Lockers : ~ChangeLocker(l)
    BY <1>1 DEF Reload, ChangeLocker
  <2>5. \A m \in net : ~Deliver(m) /\ ~Fail(m) /\ ~Vanish(m)
    BY <1>1 DEF Deliver, SelectionAnswered, BookingAnswered, CodeAnswered, FinishAnswered,
                PollAnswered, TimerAnswered, Fail, Vanish
  <2>. QED  BY <1>1, <2>1, <2>2, <2>3, <2>4, <2>5 DEF KioskNext, kioskVars
<1>7. m.op # "select" => m.id \in Ids
  BY DEF KioskInv, Addressed
<1>8. m \in Message
  BY DEF KioskInv, KioskTypeOK
<1>9. ~ServeSelection(m)
  BY <1>1, <1>3, <1>8, MessageFields DEF ServeSelection
<1>10. ~ServeCheck(m) /\ ~ServePayment(m) /\ ~ServeOpening(m) /\ ~ServeFinish(m)
  BY <1>1, <1>4, <1>5, <1>7
  DEF ServeCheck, ServePayment, ServeOpening, ServeFinish, Pending
<1>11. /\ m.op = "book" /\ m.id \in Ids /\ Book(m.id) /\ rental[m.id].home = m.locker
  BY <1>1, <1>6, <1>7, <1>9, <1>10 DEF Serve, ServeBooking, Pending
<1>12. m.id = i
  BY <1>0, <1>11 DEF Book, Row
<1>. QED  BY <1>11, <1>12

(* A payment screen ends in the rent only by the timer of its own rental,  *)
(* however replies of earlier screens are delayed.                         *)
THEOREM PaymentsCompleteTheirRentals == KioskSpec => PaymentCompletesItsRental
<1>1. KioskInv /\ [KioskNext]_kioskVars =>
        [screen.step = "payment" /\ screen'.step = "active-rent" =>
           /\ screen'.rental = screen.rental
           /\ \E m \in net : m.listener = "timer" /\ m.id = screen.rental]_kioskVars
  BY PaymentStep
<1>. QED  BY <1>1, KioskInvariant, PTL DEF KioskSpec, PaymentCompletesItsRental

(* What a late reply shows at another locker is not booked there. *)
THEOREM SelectionsAreBookedAtHome == KioskSpec => BookedWhereChosen
<1>1. KioskInv /\ [KioskNext]_kioskVars =>
        [\A i \in Ids :
           rental[i].state = "held" /\ rental'[i].state = "rented" =>
              \E m \in net : m.op = "book" /\ m.id = i /\ m.locker = rental[i].home]_kioskVars
  BY BookingStep
<1>. QED  BY <1>1, KioskInvariant, PTL DEF KioskSpec, BookedWhereChosen
=============================================================================
