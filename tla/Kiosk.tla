-------------------------------- MODULE Kiosk --------------------------------
(***************************************************************************)
(* The screen of a locker, frontend/src/pages/Locker/Locker.tsx: its       *)
(* reducer, its handlers, each of which awaits one request, and the effect *)
(* of the payment step with its poll, its timer and their requests.  The   *)
(* backend is the contract RentalService; requests and replies travel in   *)
(* any order, are lost before or after they are served, or never answered. *)
(***************************************************************************)
EXTENDS RentalService, Naturals, FiniteSets

CONSTANTS
    Faults,    \* what may happen to the page: a subset of AllFaults
    MaxStray   \* bound on requests nobody awaits, for the faults that make them

(* "reload": the page is loaded again; requests under way go unanswered.   *)
(* "change_locker": the route gets another lockerId while the page stays.  *)
AllFaults == {"reload", "change_locker"}

ASSUME FaultsAssumption == Faults \subseteq AllFaults /\ MaxStray \in Nat

ASSUME NoneAssumption == None \notin Ids

VARIABLES
    screen,  \* state of the reducer and isSubmitting
    effect,  \* the effect of the payment step: its timer and its poll
    net      \* requests on their way, being served or being answered

kioskVars == <<rental, screen, effect, net>>

-----------------------------------------------------------------------------
(* State *)

Steps == {"select-size", "no-cells", "phone-entry", "access-code", "payment", "active-rent"}

\* polls: the screen knows a payment id.  told: the formMessage on it.
Screen == [locker : Lockers, step : Steps,
           selection : Ids \cup {None}, rental : Ids \cup {None},
           polls : BOOLEAN, submitting : BOOLEAN,
           told : {"nothing", "hold_expired", "failure"}]

FreshScreen(l) == [locker |-> l, step |-> "select-size", selection |-> None,
                   rental |-> None, polls |-> FALSE, submitting |-> FALSE,
                   told |-> "nothing"]

Effect == [timer : {"off", "armed", "opening"}, poll : {"off", "idle", "getting", "opening"}]

NoEffect == [timer |-> "off", poll |-> "off"]

\* Who awaits the reply: the handler of a button, the poll or the timer of the
\* payment effect, or nobody any more.
Listeners == {"handler", "poll", "timer", "nobody"}

Replies == {"none", "ok", "no_cells", "expired", "granted", "unpaid",
            "pending", "paid", "error"}

Message == [op : {"select", "book", "check", "finish", "get", "open"},
            id : Ids \cup {None}, locker : Lockers,
            listener : Listeners, reply : Replies]

KioskTypeOK ==
    /\ ServiceTypeOK
    /\ screen \in Screen
    /\ effect \in Effect
    /\ net \subseteq Message

KioskInit ==
    /\ ServiceInit
    /\ screen \in {FreshScreen(l) : l \in Lockers}
    /\ effect = NoEffect
    /\ net = {}

Request(op, i, who) ==
    [op |-> op, id |-> i, locker |-> screen.locker, listener |-> who, reply |-> "none"]

\* The listeners in who no longer exist: their answers are lost, and requests
\* that are not answered yet stay on their way.
Deafened(M, who) ==
    {m \in M : m.listener \notin who}
        \cup {[m EXCEPT !.listener = "nobody"] : m \in {n \in M : n.listener \in who
                                                                  /\ n.reply = "none"}}

StrayAllowed == Cardinality({m \in net : m.listener = "nobody"}) < MaxStray

-----------------------------------------------------------------------------
(* The payment effect *)

\* The cleanup without isDisposed: the timer goes on.
CleanedUpForgetful(M) == Deafened(M, {"poll"})

(* The cleanup of the effect: its timers are cleared and what is still     *)
(* awaited finds isDisposed set.                                           *)
CleanedUp(M) == Deafened(M, {"poll", "timer"})

\* The interval without inFlight.
PollTicksAnyway ==
    /\ screen.step = "payment"
    /\ effect.poll # "off"
    /\ effect' = [effect EXCEPT !.poll = "getting"]
    /\ net' = net \cup {Request("get", screen.rental, "poll")}
    /\ UNCHANGED <<rental, screen>>

(* setInterval: a poll that is still under way is not doubled. *)
PollTicks ==
    /\ screen.step = "payment"
    /\ effect.poll = "idle"
    /\ effect' = [effect EXCEPT !.poll = "getting"]
    /\ net' = net \cup {Request("get", screen.rental, "poll")}
    /\ UNCHANGED <<rental, screen>>

(* setTimeout: the cell is asked to open, whether or not the payment is    *)
(* known to be made.                                                       *)
TimerFires ==
    /\ screen.step = "payment"
    /\ effect.timer = "armed"
    /\ effect' = [effect EXCEPT !.timer = "opening"]
    /\ net' = net \cup {Request("open", screen.rental, "timer")}
    /\ UNCHANGED <<rental, screen>>

(* pollPayment goes on: a paid payment opens the cell, every other answer  *)
(* waits for the next interval.                                            *)
PollAnswered(m) ==
    /\ m \in net /\ m.listener = "poll" /\ m.reply # "none"
    /\ IF m.op = "get" /\ m.reply = "paid"
       THEN /\ effect' = [effect EXCEPT !.poll = "opening"]
            /\ net' = (net \ {m}) \cup {Request("open", screen.rental, "poll")}
       ELSE /\ effect' = [effect EXCEPT !.poll = "idle"]
            /\ net' = net \ {m}
    /\ UNCHANGED <<rental, screen>>

\* The timer as it would be if openRental were not wrapped in a catch.
TimerAnsweredUncaught(m) ==
    /\ m \in net /\ m.listener = "timer" /\ m.reply # "none"
    /\ IF m.reply = "ok"
       THEN /\ screen' = [screen EXCEPT !.step = "active-rent", !.polls = FALSE]
            /\ effect' = NoEffect
            /\ net' = CleanedUp(net \ {m})
       ELSE /\ effect' = [effect EXCEPT !.timer = "off"]
            /\ net' = net \ {m}
            /\ UNCHANGED screen
    /\ UNCHANGED rental

(* completePaymentStep: the answer to the opening is not looked at.        *)
TimerAnswered(m) ==
    /\ m \in net /\ m.listener = "timer" /\ m.reply # "none"
    /\ screen' = [screen EXCEPT !.step = "active-rent", !.polls = FALSE, !.told = "nothing"]
    /\ effect' = NoEffect
    /\ net' = CleanedUp(net \ {m})
    /\ UNCHANGED rental

-----------------------------------------------------------------------------
(* Buttons.  Each one sends a request and disables all of them.            *)

Submit(op, i) ==
    /\ ~screen.submitting
    /\ screen' = [screen EXCEPT !.submitting = TRUE, !.told = "nothing"]
    /\ net' = net \cup {Request(op, i, "handler")}
    /\ UNCHANGED <<rental, effect>>

(* By size or by dimensions. *)
SelectCell == screen.step = "select-size" /\ Submit("select", None)

(* A code the customer types: the code of rental i, valid or not. *)
SubmitCode(i) == screen.step = "select-size" /\ Submit("check", i)

SubmitPhone == screen.step = "phone-entry" /\ Submit("book", screen.selection)

(* Without a rental the button only resets; ScreenIsComplete says that this *)
(* does not happen.                                                        *)
EndRent ==
    /\ screen.step = "active-rent"
    /\ screen.rental # None
    /\ Submit("finish", screen.rental)

(* An input is edited, which clears the message, or refused by its button  *)
(* before anything is sent.                                                *)
Edit ==
    /\ screen.step \in {"select-size", "phone-entry"}
    /\ ~screen.submitting
    /\ \E told \in {"nothing", "failure"} : screen' = [screen EXCEPT !.told = told]
    /\ UNCHANGED <<rental, effect, net>>

(* The buttons that only reset: back from no-cells, exit from the others.  *)
Exit ==
    /\ screen.step \in {"no-cells", "phone-entry", "access-code"}
    /\ ~screen.submitting
    /\ screen' = FreshScreen(screen.locker)
    /\ UNCHANGED <<rental, effect, net>>

-----------------------------------------------------------------------------
(* The handlers go on with the reply, whatever the screen shows by then.   *)

\* The reply m arrives and the handler returns.
Returned(m) == m \in net /\ m.listener = "handler" /\ m.reply # "none"

SelectionAnswered(m) ==
    /\ Returned(m) /\ m.op = "select"
    /\ screen' = [screen EXCEPT !.submitting = FALSE,
                     !.step = CASE m.reply = "ok" -> "phone-entry"
                                [] m.reply = "no_cells" -> "no-cells"
                                [] OTHER -> @,
                     !.selection = IF m.reply = "ok" THEN m.id ELSE @,
                     !.told = IF m.reply = "error" THEN "failure" ELSE "nothing"]
    /\ net' = net \ {m}
    /\ UNCHANGED <<rental, effect>>

BookingAnswered(m) ==
    /\ Returned(m) /\ m.op = "book"
    /\ screen' = CASE m.reply = "ok" ->
                        [screen EXCEPT !.submitting = FALSE, !.step = "access-code",
                                       !.selection = None, !.rental = m.id,
                                       !.polls = FALSE, !.told = "nothing"]
                   [] m.reply = "expired" ->
                        [FreshScreen(screen.locker) EXCEPT !.told = "hold_expired"]
                   [] OTHER ->
                        [screen EXCEPT !.submitting = FALSE, !.told = "failure"]
    /\ net' = net \ {m}
    /\ UNCHANGED <<rental, effect>>

(* The payment screen is shown in either case.  Its effect starts with the *)
(* timer armed; the payment is known, and polled at once, only if it is    *)
(* still required.                                                         *)
CodeAnswered(m) ==
    /\ Returned(m) /\ m.op = "check"
    /\ IF m.reply = "error"
       THEN /\ screen' = [screen EXCEPT !.submitting = FALSE, !.told = "failure"]
            /\ net' = net \ {m}
            /\ UNCHANGED effect
       ELSE LET polls == m.reply = "unpaid"
            IN  /\ screen' = [screen EXCEPT !.submitting = FALSE, !.step = "payment",
                                            !.selection = None, !.rental = m.id,
                                            !.polls = polls, !.told = "nothing"]
                /\ effect' = [timer |-> "armed", poll |-> IF polls THEN "getting" ELSE "off"]
                /\ net' = (net \ {m}) \cup
                             (IF polls THEN {Request("get", m.id, "poll")} ELSE {})
    /\ UNCHANGED rental

\* The handler without its finally.
FinishAnsweredOnce(m) ==
    /\ Returned(m) /\ m.op = "finish"
    /\ screen' = IF m.reply = "ok" THEN FreshScreen(screen.locker)
                 ELSE [screen EXCEPT !.told = "failure"]
    /\ net' = net \ {m}
    /\ UNCHANGED <<rental, effect>>

FinishAnswered(m) ==
    /\ Returned(m) /\ m.op = "finish"
    /\ screen' = IF m.reply = "ok" THEN FreshScreen(screen.locker)
                 ELSE [screen EXCEPT !.submitting = FALSE, !.told = "failure"]
    /\ net' = net \ {m}
    /\ UNCHANGED <<rental, effect>>

-----------------------------------------------------------------------------
(* The page *)

\* The reset of the flow with the buttons enabled again.
ChangeLockerFrees(l) ==
    /\ "change_locker" \in Faults /\ StrayAllowed
    /\ l # screen.locker
    /\ screen' = FreshScreen(l)
    /\ effect' = NoEffect
    /\ net' = CleanedUp(net)
    /\ UNCHANGED rental

\* The reset of the flow without the cleanup of the payment effect.
ChangeLockerKeepsEffect(l) ==
    /\ "change_locker" \in Faults /\ StrayAllowed
    /\ l # screen.locker
    /\ screen' = [FreshScreen(l) EXCEPT !.submitting = screen.submitting]
    /\ UNCHANGED <<rental, effect, net>>

(* The effect of resolvedLockerId resets the flow.  The request of a       *)
(* handler is still awaited, and isSubmitting stays set until it returns.  *)
ChangeLocker(l) ==
    /\ "change_locker" \in Faults /\ StrayAllowed
    /\ l # screen.locker
    /\ screen' = [FreshScreen(l) EXCEPT !.submitting = screen.submitting]
    /\ effect' = NoEffect
    /\ net' = CleanedUp(net)
    /\ UNCHANGED rental

(* The page is loaded again; what it had sent may still be served. *)
Reload ==
    /\ "reload" \in Faults /\ StrayAllowed
    /\ screen' = FreshScreen(screen.locker)
    /\ effect' = NoEffect
    /\ net' = Deafened(net, {"handler", "poll", "timer"})
    /\ UNCHANGED rental

-----------------------------------------------------------------------------
(* The backend serves a request.  Which statements it takes and how they   *)
(* interleave is the matter of RentalFlow.                                 *)

Reply(m, r) == net' = (net \ {m}) \cup {[m EXCEPT !.reply = r]}

Pending(m, op) == m \in net /\ m.op = op /\ m.reply = "none"

\* Another customer may have the last cell at any time.
ServeSelection(m) ==
    /\ Pending(m, "select")
    /\ \/ \E i \in Ids, D \in SUBSET Ids :
             /\ Select(i, m.locker, D)
             /\ net' = (net \ {m}) \cup {[m EXCEPT !.reply = "ok", !.id = i]}
       \/ Reply(m, "no_cells") /\ UNCHANGED rental
    /\ UNCHANGED <<screen, effect>>

\* Booking without the location in the WHERE of its first statement.
ServeBookingAnywhere(m) ==
    /\ Pending(m, "book")
    /\ \/ Book(m.id) /\ Reply(m, "ok")
       \/ Reply(m, "expired") /\ UNCHANGED rental
    /\ UNCHANGED <<screen, effect>>

\* The hold of a selection that has not been swept yet may be over.
ServeBooking(m) ==
    /\ Pending(m, "book")
    /\ \/ rental[m.id].home = m.locker /\ Book(m.id) /\ Reply(m, "ok")
       \/ Reply(m, "expired") /\ UNCHANGED rental
    /\ UNCHANGED <<screen, effect>>

ServeCheck(m) ==
    /\ Pending(m, "check")
    /\ IF rental[m.id].state = "rented" /\ rental[m.id].home = m.locker
       THEN \E p \in Settled(rental[m.id].pay) :
               /\ Refresh(m.id, p)
               /\ Reply(m, IF p = "paid" THEN "granted" ELSE "unpaid")
       ELSE Reply(m, "error") /\ UNCHANGED rental
    /\ UNCHANGED <<screen, effect>>

ServePayment(m) ==
    /\ Pending(m, "get")
    /\ \E p \in Settled(rental[m.id].pay) :
          Refresh(m.id, p) /\ Reply(m, IF p = "paid" THEN "paid" ELSE "pending")
    /\ UNCHANGED <<screen, effect>>

ServeOpening(m) ==
    /\ Pending(m, "open")
    /\ \E p \in Settled(rental[m.id].pay) :
          Refresh(m.id, p) /\ Reply(m, IF p = "paid" THEN "ok" ELSE "error")
    /\ UNCHANGED <<screen, effect>>

ServeFinish(m) ==
    /\ Pending(m, "finish")
    /\ Finish(m.id) /\ Reply(m, "ok")
    /\ UNCHANGED <<screen, effect>>

(* The sweep. *)
HoldsLapse ==
    /\ \E D \in (SUBSET Ids) \ {{}} : Lapse(D)
    /\ UNCHANGED <<screen, effect, net>>

(* fetch rejects or the answer is not the backend's: the request is lost,  *)
(* or it is served nevertheless, or its answer is lost.                    *)
Fail(m) ==
    /\ m \in net /\ m.listener # "nobody" /\ m.reply # "error"
    /\ \/ Reply(m, "error")
       \/ /\ m.reply = "none" /\ StrayAllowed
          /\ net' = (net \ {m}) \cup {[m EXCEPT !.reply = "error"],
                                      [m EXCEPT !.listener = "nobody"]}
    /\ UNCHANGED <<rental, screen, effect>>

(* A request, or an answer, that nobody awaits is gone. *)
Vanish(m) ==
    /\ m \in net /\ m.listener = "nobody"
    /\ net' = net \ {m}
    /\ UNCHANGED <<rental, screen, effect>>

Serve(m) ==
    \/ ServeSelection(m) \/ ServeBooking(m) \/ ServeCheck(m)
    \/ ServePayment(m) \/ ServeOpening(m) \/ ServeFinish(m)

Deliver(m) ==
    \/ SelectionAnswered(m) \/ BookingAnswered(m) \/ CodeAnswered(m)
    \/ FinishAnswered(m) \/ PollAnswered(m) \/ TimerAnswered(m)

KioskNext ==
    \/ SelectCell \/ SubmitPhone \/ EndRent \/ Edit \/ Exit
    \/ \E i \in Ids : SubmitCode(i)
    \/ PollTicks \/ TimerFires
    \/ \E l \in Lockers : ChangeLocker(l)
    \/ Reload
    \/ HoldsLapse
    \/ \E m \in net : Serve(m) \/ Deliver(m) \/ Fail(m) \/ Vanish(m)

KioskSpec == KioskInit /\ [][KioskNext]_kioskVars

(* Timers of the browser fire, and an answer that has arrived is given to  *)
(* the page.                                                               *)
TimersFire ==
    /\ WF_kioskVars(TimerFires)
    /\ WF_kioskVars(\E m \in net : m.listener = "timer" /\ Deliver(m))

(* Besides, every request of a handler and of the timer is answered or     *)
(* fails in the end, because the browser gives it up.                      *)
RequestsEnd ==
    \A who \in {"handler", "timer"} :
        WF_kioskVars(\E m \in net : /\ m.listener = who
                                    /\ Serve(m) \/ Fail(m) \/ Deliver(m))

FairKioskSpec == KioskSpec /\ TimersFire /\ RequestsEnd

-----------------------------------------------------------------------------
(* Properties *)

(* The steps find what they render and send: no booking without a          *)
(* selection, no opening or finishing without a rental.  The payment       *)
(* effect exists exactly on the payment step.                              *)
ScreenIsComplete ==
    /\ screen.step = "phone-entry" => screen.selection # None
    /\ screen.step \in {"access-code", "payment", "active-rent"} => screen.rental # None
    /\ screen.step = "payment" <=> effect.timer # "off"

(* isSubmitting is a lock: while it is set exactly one handler awaits its  *)
(* reply, also after the route has changed under it, and no other button   *)
(* sends a request.                                                        *)
OneHandlerAtATime ==
    /\ \A m, n \in net : m.listener = "handler" /\ n.listener = "handler" => m = n
    /\ screen.submitting <=> \E m \in net : m.listener = "handler"

(* The payment effect awaits at most one poll and one opening, and what it *)
(* awaits is about the rental on the screen: inFlight and isDisposed.      *)
EffectAwaitsItsOwn ==
    /\ \A m, n \in net :
          m.listener = n.listener /\ m.listener \in {"poll", "timer"} => m = n
    /\ \A m \in net :
          m.listener \in {"poll", "timer"} =>
             screen.step = "payment" /\ m.id = screen.rental

(* The payment step is left for the rent only by the timer of this very    *)
(* rental: a timer of a payment screen left before completes nothing.      *)
PaymentCompletesItsRental ==
    [][screen.step = "payment" /\ screen'.step = "active-rent" =>
          /\ screen'.rental = screen.rental
          /\ \E m \in net : m.listener = "timer" /\ m.id = screen.rental]_kioskVars

(* A selection made at one locker is never booked at another, although a   *)
(* late reply may show it there: the backend looks at the location.        *)
BookedWhereChosen ==
    [][\A i \in Ids :
          rental[i].state = "held" /\ rental'[i].state = "rented" =>
             \E m \in net : m.op = "book" /\ m.id = i /\ m.locker = rental[i].home]_kioskVars

(* The buttons are enabled again and the payment screen is left, however   *)
(* the requests end.                                                       *)
ButtonsComeBack == screen.submitting ~> ~screen.submitting
PaymentScreenEnds == screen.step = "payment" ~> screen.step # "payment"

-----------------------------------------------------------------------------
(* What the screen says *)

(* Locker.tsx:523: "the hold is over" is said only of a selection that is  *)
(* not a rental by now.                                                    *)
HoldExpiredIsTrue ==
    [][screen'.told = "hold_expired" /\ screen.told # "hold_expired" =>
          rental[screen.selection].state # "rented"]_kioskVars
=============================================================================
