--------------------------- MODULE AdminPageProofs ---------------------------
(***************************************************************************)
(* Proofs about the page of the administrator: what it shows and what it   *)
(* sends, for any number of locations, cells and logins, whatever answers  *)
(* come late, and also between a render and its effects.                   *)
(***************************************************************************)
EXTENDS AdminPage, TLAPS

AllCells == UNION {CellsOf[l] : l \in Locations}

Subject == [of : Locations \cup AllCells \cup {Nil}, login : Logins \cup {Nil}]

Page == [token : Logins \cup {Nil}, profile : BOOLEAN, location : Locations \cup {Nil},
         cell : AllCells \cup {Nil}, draft : Subject]

Effect == [loading : BOOLEAN, error : BOOLEAN, data : Subject, awaits : Subject]

Frame == [page : Page, load : [Kinds -> Effect]]

PageTypeOK ==
    /\ page \in Page
    /\ load \in [Kinds -> Effect]
    /\ painted \in Frame
    /\ due \in SUBSET Kinds

(* An effect in order with page p: what it awaits it would ask for now,    *)
(* and what can be seen of it belongs to the page as it is.  Whatever      *)
(* changes one of the two calls for the effect.                            *)
InOrder(p, k, e) ==
    /\ e.awaits # Nothing => Wanted(p, k) /\ e.awaits = About(p, k)
    /\ p.token # Nil /\ p.profile /\ k \in Dependent /\ Visible(e)
       => e.data = About(p, k) /\ (k = "card" => p.cell # Nil)

(* The draft belongs to the card, as long as there is one. *)
Drafted(p, effects) ==
    effects["card"].data # Nothing => p.draft = effects["card"].data

(* What effects change of the last render: they only forget. *)
Behind ==
    /\ page.draft = painted.page.draft
    /\ \A k \in Kinds : load[k].data \in {painted.load[k].data, Nothing}

PageInv ==
    /\ PageTypeOK
    /\ \A k \in Kinds \ due : InOrder(painted.page, k, load[k])
    /\ Drafted(painted.page, painted.load)
    /\ Behind

(* What can be rendered: the effects that are neither due nor called for   *)
(* are in order with the last render.                                      *)
Ready(p, effects, again) ==
    /\ p \in Page
    /\ effects \in [Kinds -> Effect]
    /\ again \in SUBSET Kinds
    /\ \A k \in Kinds \ (due \cup again) : InOrder(painted.page, k, effects[k])
    /\ Drafted(p, effects)

-----------------------------------------------------------------------------
(* One effect *)

LEMMA Subjects ==
    ASSUME NEW p \in Page, NEW k \in Kinds
    PROVE  Nothing \in Subject /\ About(p, k) \in Subject
BY DEF Page, Subject, Nothing, About

LEMMA StartedInOrder ==
    ASSUME NEW p \in Page, NEW k \in Kinds, NEW e \in Effect
    PROVE  /\ Started(p, k, e) \in Effect
           /\ InOrder(p, k, Started(p, k, e))
           /\ Started(p, k, e).data \in {e.data, Nothing}
<1>. DEFINE new == Started(p, k, e)
<1>1. CASE Wanted(p, k)
  <2>1. new = [e EXCEPT !.loading = TRUE, !.error = FALSE, !.awaits = About(p, k)]
    BY <1>1 DEF Started
  <2>2. new \in Effect /\ new.awaits = About(p, k) /\ new.loading = TRUE /\ new.data = e.data
    BY <2>1, Subjects DEF Effect
  <2>. HIDE DEF new
  <2>3. InOrder(p, k, new)
    BY <1>1, <2>2 DEF InOrder, Visible
  <2>. QED  BY <2>2, <2>3 DEF new
<1>2. CASE ~Wanted(p, k)
  <2>1. new = [e EXCEPT !.loading = (k # "me" /\ @), !.awaits = Nothing,
                        !.data = IF k \in {"me", "locations"} THEN @ ELSE Nothing]
    BY <1>2 DEF Started
  <2>2. /\ new \in Effect /\ new.awaits = Nothing /\ new.data \in {e.data, Nothing}
        /\ k \notin {"me", "locations"} => new.data = Nothing
    BY <2>1, Subjects DEF Effect
  <2>3. k \in {"me", "locations"} => p.token = Nil \/ ~p.profile
    BY <1>2 DEF Wanted
  <2>. HIDE DEF new
  <2>4. InOrder(p, k, new)
    BY <2>2, <2>3 DEF InOrder, Visible
  <2>. QED  BY <2>2, <2>4 DEF new
<1>. QED  BY <1>1, <1>2

(* An effect that is not called for stays in order.                        *)
LEMMA UntouchedInOrder ==
    ASSUME NEW p \in Page, NEW q \in Page, NEW k \in Kinds, NEW e,
           k \notin Touched(p, q), InOrder(p, k, e)
    PROVE  InOrder(q, k, e)
<1>1. About(q, k) = About(p, k) /\ (k = "me" \/ q.profile = p.profile)
  BY DEF Touched
<1>2. /\ q.token = p.token
      /\ k = "cells" => q.location = p.location
      /\ k = "card" => q.cell = p.cell
  BY <1>1 DEF About
<1>3. Wanted(q, k) <=> Wanted(p, k)
  BY <1>1, <1>2 DEF Wanted
<1>. QED  BY <1>1, <1>2, <1>3 DEF InOrder, Dependent

(* What effects leave of a page and of each other.                         *)
LEMMA EffectsLeave ==
    ASSUME NEW p0 \in Page, NEW ks \in SUBSET Kinds, NEW p \in Page,
           NEW effects \in [Kinds -> Effect]
    PROVE  LET new == AfterEffects(p0, ks, p, effects)
           IN  /\ new \in Frame
               /\ new.page.draft = p.draft
               /\ \A k \in Kinds : new.load[k].data \in {effects[k].data, Nothing}
               /\ \A k \in ks : InOrder(p0, k, new.load[k])
               /\ \A k \in Kinds \ ks : new.load[k] = effects[k]
<1>. DEFINE c == IF "cells" \in ks /\ ~Wanted(p0, "cells") THEN Nil ELSE p.cell
            q == [p EXCEPT !.cell = c]
            E == [k \in Kinds |-> IF k \in ks THEN Started(p0, k, effects[k]) ELSE effects[k]]
            new == AfterEffects(p0, ks, p, effects)
<1>1. new = [page |-> q, load |-> E]
  BY DEF AfterEffects
<1>2. c \in AllCells \cup {Nil}
  BY DEF Page
<1>. HIDE DEF c
<1>3. q \in Page /\ q.draft = p.draft
  BY <1>2 DEF Page
<1>4. \A k \in Kinds : /\ E[k] \in Effect
                       /\ E[k].data \in {effects[k].data, Nothing}
                       /\ k \in ks => InOrder(p0, k, E[k])
                       /\ k \notin ks => E[k] = effects[k]
  BY StartedInOrder
<1>5. E \in [Kinds -> Effect]
  BY <1>4
<1>. HIDE DEF q, E
<1>6. new \in Frame /\ new.page = q /\ new.load = E
  BY <1>1, <1>3, <1>5 DEF Frame
<1>. QED  BY <1>3, <1>4, <1>6

-----------------------------------------------------------------------------
(* Renders *)

(* The render as such, with the effects that were due before it.           *)
LEMMA NewFrame ==
    ASSUME PageInv, NEW p, NEW effects, NEW again, Ready(p, effects, again)
    PROVE  LET new == AfterEffects(painted.page, due, p, effects)
           IN  /\ new \in Frame
               /\ Drafted(new.page, new.load)
               /\ \A k \in Kinds \ (again \cup Touched(painted.page, new.page)) :
                     InOrder(new.page, k, new.load[k])
<1>. DEFINE p0 == painted.page
            ks == due
            new == AfterEffects(p0, ks, p, effects)
<1>1. p0 \in Page /\ ks \in SUBSET Kinds /\ p \in Page /\ effects \in [Kinds -> Effect]
  BY DEF PageInv, PageTypeOK, Frame, Ready
<1>. HIDE DEF p0, ks
<1>2. /\ new \in Frame
      /\ new.page.draft = p.draft
      /\ \A k \in Kinds : new.load[k].data \in {effects[k].data, Nothing}
      /\ \A k \in ks : InOrder(p0, k, new.load[k])
      /\ \A k \in Kinds \ ks : new.load[k] = effects[k]
  BY <1>1, EffectsLeave, ZenonT(30)
<1>. HIDE DEF new
<1>3. new.page \in Page
  BY <1>2 DEF Frame
<1>4. \A k \in Kinds \ again : InOrder(p0, k, new.load[k])
  BY <1>2 DEF Ready, p0, ks
<1>5. \A k \in Kinds \ (again \cup Touched(p0, new.page)) :
         InOrder(new.page, k, new.load[k])
  BY <1>1, <1>3, <1>4, UntouchedInOrder
<1>6. Drafted(new.page, new.load)
  BY <1>2 DEF Drafted, Ready, Kinds
<1>. QED  BY <1>2, <1>5, <1>6 DEF new, p0, ks

LEMMA RenderedKeeps ==
    ASSUME PageInv, NEW p, NEW effects, NEW again,
           Ready(p, effects, again), Rendered(p, effects, again)
    PROVE  PageInv'
<1>. DEFINE new == AfterEffects(painted.page, due, p, effects)
<1>1. /\ painted' = new /\ page' = new.page /\ load' = new.load
      /\ due' = again \cup Touched(painted.page, new.page)
  BY DEF Rendered
<1>2. /\ new \in Frame /\ Drafted(new.page, new.load)
      /\ \A k \in Kinds \ (again \cup Touched(painted.page, new.page)) :
            InOrder(new.page, k, new.load[k])
  BY NewFrame
<1>. HIDE DEF new
<1>3. PageTypeOK'
  BY <1>1, <1>2 DEF PageTypeOK, Frame, Ready, Touched
<1>4. Behind'
  BY <1>1 DEF Behind
<1>. QED  BY <1>1, <1>2, <1>3, <1>4 DEF PageInv

LEMMA RenderedForClickKeeps ==
    ASSUME PageInv, NEW p, NEW effects, NEW again,
           Ready(p, effects, again), RenderedForClick(p, effects, again)
    PROVE  PageInv'
<1>. DEFINE new == AfterEffects(painted.page, due, p, effects)
            ran == again \cup Touched(painted.page, new.page)
            left == AfterEffects(new.page, ran, new.page, new.load)
<1>1. painted' = new /\ page' = left.page /\ load' = left.load /\ due' = {}
  BY DEF RenderedForClick
<1>2. /\ new \in Frame /\ Drafted(new.page, new.load)
      /\ \A k \in Kinds \ ran : InOrder(new.page, k, new.load[k])
  BY NewFrame
<1>3. ran \in SUBSET Kinds
  BY DEF Ready, Touched
<1>. HIDE DEF new, ran
<1>4. new.page \in Page /\ new.load \in [Kinds -> Effect]
  BY <1>2 DEF Frame
<1>5. /\ left \in Frame
      /\ left.page.draft = new.page.draft
      /\ \A k \in Kinds : left.load[k].data \in {new.load[k].data, Nothing}
      /\ \A k \in ran : InOrder(new.page, k, left.load[k])
      /\ \A k \in Kinds \ ran : left.load[k] = new.load[k]
  BY <1>3, <1>4, EffectsLeave
<1>. HIDE DEF left
<1>6. PageTypeOK'
  BY <1>1, <1>2, <1>5 DEF PageTypeOK, Frame
<1>7. Behind'
  BY <1>1, <1>5 DEF Behind
<1>. QED  BY <1>1, <1>2, <1>5, <1>6, <1>7 DEF PageInv

LEMMA RunEffectsKeeps == PageInv /\ RunEffects => PageInv'
<1>. SUFFICES ASSUME PageInv, RunEffects PROVE PageInv'
  OBVIOUS
<1>. DEFINE p0 == painted.page
            ks == due
            left == AfterEffects(p0, ks, page, load)
<1>1. page' = left.page /\ load' = left.load /\ due' = {} /\ painted' = painted
  BY DEF RunEffects
<1>2. painted \in Frame /\ p0 \in Page /\ ks \in SUBSET Kinds /\ page \in Page
      /\ load \in [Kinds -> Effect]
  BY DEF PageInv, PageTypeOK, Frame
<1>. HIDE DEF p0, ks
<1>3. /\ left \in Frame
      /\ left.page.draft = page.draft
      /\ \A k \in Kinds : left.load[k].data \in {load[k].data, Nothing}
      /\ \A k \in ks : InOrder(p0, k, left.load[k])
      /\ \A k \in Kinds \ ks : left.load[k] = load[k]
  BY <1>2, EffectsLeave, ZenonT(30)
<1>. HIDE DEF left
<1>4. PageTypeOK'
  BY <1>1, <1>2, <1>3 DEF PageTypeOK, Frame
<1>5. Behind'
  BY <1>1, <1>3 DEF Behind, PageInv
<1>. QED  BY <1>1, <1>3, <1>4, <1>5 DEF PageInv, p0, ks

-----------------------------------------------------------------------------
(* Answers and clicks *)

LEMMA PageIsReady ==
    ASSUME PageInv, NEW again \in SUBSET Kinds
    PROVE  Ready(page, load, again)
BY DEF PageInv, PageTypeOK, Ready, Drafted, Behind, Kinds

(* Effects that are ready stay so with a page that has the same draft.     *)
LEMMA OtherPageIsReady ==
    ASSUME NEW p, NEW q \in Page, NEW effects, NEW again,
           Ready(p, effects, again), q.draft = p.draft
    PROVE  Ready(q, effects, again)
BY DEF Ready, Drafted

(* The effects of which one got the answer it awaited. *)
LEMMA AnswersAreReady ==
    ASSUME PageInv, NEW k \in Kinds, load[k].awaits # Nothing, NEW again \in SUBSET Kinds
    PROVE  /\ k # "card" => Ready(page, Loaded(k), again)
           /\ k = "card" => Ready([page EXCEPT !.draft = load[k].awaits], Loaded(k), again)
           /\ Ready(page, [Ended(k) EXCEPT ![k].error = TRUE], again)
<1>. DEFINE e == load[k]
            end == [e EXCEPT !.loading = FALSE, !.awaits = Nothing]
            fail == [end EXCEPT !.error = TRUE]
            new == [end EXCEPT !.data = e.awaits]
            p == [page EXCEPT !.draft = e.awaits]
            NewLoad == [load EXCEPT ![k] = new]
            FailLoad == [load EXCEPT ![k] = fail]
<1>1. /\ page \in Page /\ load \in [Kinds -> Effect] /\ e \in Effect /\ "card" \in Kinds
      /\ \A j \in Kinds \ due : InOrder(painted.page, j, load[j])
      /\ Drafted(page, load)
  BY DEF PageInv, PageTypeOK, Kinds, Drafted, Behind
<1>2. /\ Loaded(k) = NewLoad
      /\ [Ended(k) EXCEPT ![k].error = TRUE] = FailLoad
  BY <1>1 DEF Ended, Loaded
<1>4. fail \in Effect /\ fail.awaits = Nothing /\ fail.data = e.data /\ fail.error = TRUE
  BY <1>1, Subjects DEF Effect
<1>5. new \in Effect /\ new.awaits = Nothing /\ new.data = e.awaits
  BY <1>1, Subjects DEF Effect
<1>6. p \in Page /\ p.draft = e.awaits
  BY <1>1 DEF Page, Effect
<1>. HIDE DEF new, fail, end, p
<1>7. InOrder(painted.page, k, fail)
  BY <1>4 DEF InOrder, Visible
<1>8. k \notin due => InOrder(painted.page, k, new)
  <2>. SUFFICES ASSUME k \notin due PROVE InOrder(painted.page, k, new)
    OBVIOUS
  <2>1. e.awaits = About(painted.page, k) /\ Wanted(painted.page, k)
    BY <1>1 DEF InOrder
  <2>2. k = "card" => painted.page.cell # Nil
    BY <2>1 DEF Wanted
  <2>. QED  BY <1>5, <2>1, <2>2 DEF InOrder
<1>9. /\ NewLoad \in [Kinds -> Effect] /\ NewLoad[k] = new
      /\ \A j \in Kinds \ {k} : NewLoad[j] = load[j]
      /\ FailLoad \in [Kinds -> Effect] /\ FailLoad[k] = fail
      /\ \A j \in Kinds \ {k} : FailLoad[j] = load[j]
  BY <1>1, <1>4, <1>5
<1>. HIDE DEF NewLoad, FailLoad
<1>10. /\ \A j \in Kinds \ due : InOrder(painted.page, j, NewLoad[j])
       /\ \A j \in Kinds \ due : InOrder(painted.page, j, FailLoad[j])
  BY <1>1, <1>7, <1>8, <1>9
<1>11. /\ k # "card" => Drafted(page, NewLoad)
       /\ k = "card" => Drafted(p, NewLoad)
       /\ Drafted(page, FailLoad)
  <2>1. k # "card" => Drafted(page, NewLoad)
    BY <1>1, <1>9 DEF Drafted
  <2>2. k = "card" => Drafted(p, NewLoad)
    BY <1>5, <1>6, <1>9 DEF Drafted
  <2>3. Drafted(page, FailLoad)
    BY <1>1, <1>4, <1>9 DEF Drafted, e
  <2>. QED  BY <2>1, <2>2, <2>3
<1>. QED  BY <1>1, <1>2, <1>6, <1>9, <1>10, <1>11 DEF Ready, p

(* A login that is forgotten leaves nothing that could be out of order,    *)
(* whichever answer ends it.                                               *)
LEMMA ForgottenIsReady ==
    ASSUME PageInv, NEW again \in SUBSET Kinds
    PROVE  /\ Ready(LoggedOutPage, Forgotten(load), again)
           /\ \A k \in Kinds : load[k].awaits # Nothing =>
                 Ready(LoggedOutPage, Forgotten(Ended(k)), again)
<1>1. /\ page \in Page /\ load \in [Kinds -> Effect] /\ "card" \in Kinds
      /\ \A j \in Kinds \ due : InOrder(painted.page, j, load[j])
  BY DEF PageInv, PageTypeOK, Kinds
<1>2. LoggedOutPage \in Page
  <2>1. LoggedOut \in Page
    BY DEF LoggedOut, Page, Subject, Nothing
  <2>. QED  BY <1>1, <2>1 DEF LoggedOutPage, Page
<1>3. ASSUME NEW effects \in [Kinds -> Effect],
             \A j \in Kinds : effects[j].awaits \in {load[j].awaits, Nothing}
      PROVE  Ready(LoggedOutPage, Forgotten(effects), again)
  <2>. DEFINE E == Forgotten(effects)
  <2>1. ASSUME NEW j \in Kinds
        PROVE  /\ E[j] \in Effect /\ E[j].awaits = effects[j].awaits
               /\ j # "me" => E[j].data = Nothing
    <3>1. effects[j] \in Effect /\ Nothing \in Subject
      BY <1>1, Subjects
    <3>. DEFINE f == effects[j]
                g == [f EXCEPT !.data = Nothing]
    <3>2. g \in Effect /\ g.awaits = f.awaits /\ g.data = Nothing
      BY <3>1 DEF Effect
    <3>3. E[j] = IF j = "me" THEN f ELSE g
      BY DEF Forgotten
    <3>. HIDE DEF f, g
    <3>. QED  BY <3>1, <3>2, <3>3 DEF f
  <2>2. E \in [Kinds -> Effect]
    BY <2>1 DEF Forgotten
  <2>. HIDE DEF E
  <2>3. ASSUME NEW j \in Kinds \ due PROVE InOrder(painted.page, j, E[j])
    <3>1. InOrder(painted.page, j, load[j]) /\ E[j].awaits \in {load[j].awaits, Nothing}
      BY <1>1, <1>3, <2>1
    <3>2. j \in Dependent => E[j].data = Nothing
      BY <2>1 DEF Dependent
    <3>. QED  BY <3>1, <3>2 DEF InOrder, Visible
  <2>4. Drafted(LoggedOutPage, E)
    BY <1>1, <2>1 DEF Drafted
  <2>. QED  BY <1>2, <2>2, <2>3, <2>4 DEF Ready, E
<1>4. ASSUME NEW k \in Kinds
      PROVE  /\ Ended(k) \in [Kinds -> Effect]
             /\ \A j \in Kinds : Ended(k)[j].awaits \in {load[j].awaits, Nothing}
  <2>. DEFINE e == load[k]
              end == [e EXCEPT !.loading = FALSE, !.awaits = Nothing]
  <2>1. end \in Effect /\ end.awaits = Nothing
    BY <1>1, Subjects DEF Effect
  <2>2. Ended(k) = [load EXCEPT ![k] = end]
    BY <1>1 DEF Ended
  <2>. HIDE DEF end, e
  <2>. QED  BY <1>1, <2>1, <2>2
<1>. QED  BY <1>1, <1>3, <1>4

-----------------------------------------------------------------------------
(* Every step of the page, its answers and its administrator.              *)

LEMMA PageStep == PageInv /\ [PageNext]_pageVars => PageInv'
<1>. SUFFICES ASSUME PageInv, [PageNext]_pageVars PROVE PageInv'
  OBVIOUS
<1>. USE PageAssumption
<1>0. /\ page \in Page /\ load \in [Kinds -> Effect] /\ painted \in Frame
      /\ {} \in SUBSET Kinds /\ Dependent \in SUBSET Kinds
      /\ \A again \in SUBSET Kinds : Ready(page, load, again)
      /\ "me" \in Kinds /\ "cells" \in Kinds /\ "card" \in Kinds
      /\ "locations" \in Kinds /\ "sessions" \in Kinds
  BY PageIsReady DEF PageInv, PageTypeOK, Kinds, Dependent
<1>1. CASE LoadProfile
  <2>. DEFINE p == [page EXCEPT !.profile = TRUE]
  <2>1. p \in Page /\ p.draft = page.draft
    BY <1>0 DEF Page
  <2>2. Rendered(p, Loaded("me"), Dependent) /\ load["me"].awaits # Nothing
    BY <1>1 DEF LoadProfile
  <2>. HIDE DEF p
  <2>3. Ready(page, Loaded("me"), Dependent)
    BY <1>0, <2>2, AnswersAreReady
  <2>. QED  BY <2>1, <2>2, <2>3, OtherPageIsReady, RenderedKeeps
<1>2. ASSUME NEW l \in Locations \cup {Nil}, LoadLocations(l) PROVE PageInv'
  <2>. DEFINE p == [page EXCEPT !.location = l]
  <2>1. p \in Page /\ p.draft = page.draft
    BY <1>0 DEF Page
  <2>2. Rendered(p, Loaded("locations"), {}) /\ load["locations"].awaits # Nothing
    BY <1>2 DEF LoadLocations
  <2>. HIDE DEF p
  <2>3. Ready(page, Loaded("locations"), {})
    BY <1>0, <2>2, AnswersAreReady
  <2>. QED  BY <2>1, <2>2, <2>3, OtherPageIsReady, RenderedKeeps
<1>3. ASSUME NEW c \in AllCells \cup {Nil}, LoadLockers(c) PROVE PageInv'
  <2>. DEFINE p == [page EXCEPT !.cell = c]
  <2>1. p \in Page /\ p.draft = page.draft
    BY <1>0 DEF Page
  <2>2. Rendered(p, Loaded("cells"), {}) /\ load["cells"].awaits # Nothing
    BY <1>3 DEF LoadLockers
  <2>. HIDE DEF p
  <2>3. Ready(page, Loaded("cells"), {})
    BY <1>0, <2>2, AnswersAreReady
  <2>. QED  BY <2>1, <2>2, <2>3, OtherPageIsReady, RenderedKeeps
<1>4. CASE LoadLockerDetails
  BY <1>0, <1>4, AnswersAreReady, RenderedKeeps DEF LoadLockerDetails
<1>5. CASE LoadSessions
  BY <1>0, <1>5, AnswersAreReady, RenderedKeeps DEF LoadSessions
<1>6. ASSUME NEW k \in Kinds, LoadRefused(k) PROVE PageInv'
  BY <1>0, <1>6, ForgottenIsReady, RenderedKeeps DEF LoadRefused
<1>7. ASSUME NEW k \in Kinds, LoadFails(k) PROVE PageInv'
  BY <1>0, <1>7, AnswersAreReady, RenderedKeeps DEF LoadFails
<1>8. CASE UNCHANGED <<page, load, painted, due>>
  BY <1>8 DEF PageInv, PageTypeOK, InOrder, Drafted, Behind
<1>9. CASE LoggedIn
  <2>1. PICK t \in Logins :
           Rendered([page EXCEPT !.token = t, !.profile = TRUE], load, Dependent)
    BY <1>9 DEF LoggedIn
  <2>. DEFINE p == [page EXCEPT !.token = t, !.profile = TRUE]
  <2>2. p \in Page /\ p.draft = page.draft
    BY <1>0 DEF Page
  <2>3. Rendered(p, load, Dependent)
    BY <2>1
  <2>. HIDE DEF p
  <2>. QED  BY <1>0, <2>2, <2>3, OtherPageIsReady, RenderedKeeps
<1>10. ASSUME NEW l \in Locations, SelectLocation(l) PROVE PageInv'
  <2>. DEFINE p == [page EXCEPT !.location = l]
  <2>1. p \in Page /\ p.draft = page.draft
    BY <1>0 DEF Page
  <2>2. RenderedForClick(p, load, {})
    BY <1>10 DEF SelectLocation
  <2>. HIDE DEF p
  <2>. QED  BY <1>0, <2>1, <2>2, OtherPageIsReady, RenderedForClickKeeps
<1>11. ASSUME NEW c \in AllCells, SelectLocker(c) PROVE PageInv'
  <2>. DEFINE p == [page EXCEPT !.cell = c]
  <2>1. p \in Page /\ p.draft = page.draft
    BY <1>0 DEF Page
  <2>2. RenderedForClick(p, load, {})
    BY <1>11 DEF SelectLocker
  <2>. HIDE DEF p
  <2>. QED  BY <1>0, <2>1, <2>2, OtherPageIsReady, RenderedForClickKeeps
<1>12. ASSUME NEW k \in {"locations", "cells", "sessions"}, SetFilter(k) PROVE PageInv'
  <2>1. {k} \in SUBSET Kinds
    BY <1>0
  <2>. QED  BY <1>0, <1>12, <2>1, RenderedForClickKeeps DEF SetFilter
<1>13. CASE SetStatusDraft
  <2>. DEFINE d == painted.load["card"].data
              p == [page EXCEPT !.draft = d]
  <2>1. d \in Subject
    BY <1>0 DEF Frame, Effect
  <2>2. p \in Page /\ p.draft = d
    BY <1>0, <2>1 DEF Page
  <2>3. RenderedForClick(p, load, {})
    BY <1>13 DEF SetStatusDraft
  <2>4. load["card"].data \in {d, Nothing}
    BY <1>0 DEF PageInv, Behind
  <2>. HIDE DEF p, d
  <2>5. Ready(p, load, {})
    BY <1>0, <2>2, <2>4 DEF Ready, Drafted
  <2>. QED  BY <2>3, <2>5, RenderedForClickKeeps
<1>14. ASSUME NEW b \in Buttons, Done(b) PROVE PageInv'
  <2>1. (IF b = "export" THEN {} ELSE Dependent) \in SUBSET Kinds
    BY <1>0
  <2>. QED  BY <1>0, <1>14, <2>1, RenderedKeeps DEF Done
<1>15. ASSUME NEW b \in Buttons, Refused(b) PROVE PageInv'
  BY <1>0, <1>15, ForgottenIsReady, RenderedKeeps DEF Refused
<1>16. ASSUME NEW b \in Buttons, Fails(b) PROVE PageInv'
  BY <1>0, <1>16, RenderedKeeps DEF Fails
<1>17. CASE Logout
  BY <1>0, <1>17, ForgottenIsReady, RenderedForClickKeeps DEF Logout
<1>18. CASE ReloadPage
  <2>. DEFINE p == [LoggedOut EXCEPT !.token = page.token, !.profile = page.profile]
  <2>1. LoggedOut \in Page /\ IdleLoad \in Effect /\ IdleLoad.data = Nothing
    BY Subjects, <1>0 DEF LoggedOut, Page, Subject, Nothing, IdleLoad, Effect
  <2>2. p \in Page
    BY <1>0, <2>1 DEF Page
  <2>3. /\ page' = p /\ painted' = [page |-> page', load |-> load'] /\ due' = Kinds
        /\ load' = [k \in Kinds |->
                       [IdleLoad EXCEPT !.loading = k = "me" /\ page.token # Nil]]
    BY <1>18 DEF ReloadPage
  <2>. HIDE DEF p
  <2>4. ASSUME NEW k \in Kinds PROVE load'[k] \in Effect /\ load'[k].data = Nothing
    <3>. DEFINE o == k = "me" /\ page.token # Nil
    <3>1. o \in BOOLEAN /\ load'[k] = [IdleLoad EXCEPT !.loading = o]
      BY <2>3
    <3>. HIDE DEF o
    <3>. QED  BY <2>1, <3>1 DEF Effect
  <2>5. load' \in [Kinds -> Effect]
    BY <2>3, <2>4
  <2>6. PageTypeOK'
    BY <2>2, <2>3, <2>5 DEF PageTypeOK, Frame
  <2>. QED  BY <1>0, <2>3, <2>4, <2>6 DEF PageInv, Drafted, Behind
<1>19. ASSUME NEW k \in Kinds, VoidAnswer(k) PROVE PageInv'
  BY <1>8, <1>19 DEF VoidAnswer
<1>20. CASE SubmitLogin
  BY <1>0, <1>20, RenderedForClickKeeps DEF SubmitLogin
<1>21. ASSUME NEW b \in Buttons, Press(b) PROVE PageInv'
  BY <1>0, <1>21, RenderedForClickKeeps DEF Press
<1>22. CASE Paint
  BY <1>0, <1>22, RenderedKeeps DEF Paint
<1>23. CASE RunEffects
  BY <1>23, RunEffectsKeeps
<1>24. CASE UNCHANGED pageVars
  BY <1>8, <1>24 DEF pageVars
<1>. QED
  BY <1>1, <1>2, <1>3, <1>4, <1>5, <1>6, <1>7, <1>9, <1>10, <1>11, <1>12, <1>13, <1>14,
     <1>15, <1>16, <1>17, <1>18, <1>19, <1>20, <1>21, <1>22, <1>23, <1>24
  DEF PageNext, AllCells

-----------------------------------------------------------------------------
(* Theorems *)

(* Effects that are not due stay in order with what is painted, and the    *)
(* draft with its card, whatever is clicked and answered.                  *)
THEOREM PageInvariant == PageSpec => []PageInv
<1>1. PageInit => PageInv
  <2>. SUFFICES ASSUME PageInit PROVE PageInv
    OBVIOUS
  <2>1. page \in Page /\ \A k \in Kinds : load[k] = IdleLoad
    BY DEF PageInit, LoggedOut, Page, Subject, Nothing
  <2>2. IdleLoad \in Effect /\ IdleLoad.data = Nothing /\ "card" \in Kinds
    BY <2>1, Subjects DEF IdleLoad, Effect, Kinds
  <2>3. /\ load \in [Kinds -> Effect] /\ painted = [page |-> page, load |-> load]
        /\ due = Kinds
    BY <2>2 DEF PageInit
  <2>4. PageTypeOK
    BY <2>1, <2>3 DEF PageTypeOK, Frame
  <2>. QED  BY <2>1, <2>2, <2>3, <2>4 DEF PageInv, Drafted, Behind
<1>. QED  BY <1>1, PageStep, PTL DEF PageSpec

(* In order means that what is shown is what is selected. *)
LEMMA InOrderIsSelected == PageInv => ShownIsSelected
<1>. SUFFICES ASSUME PageInv, NEW k \in Dependent, Shown(k), ~Outdated(k)
              PROVE  /\ painted.load[k].data = About(painted.page, k)
                     /\ k = "card" => painted.page.cell # Nil
  BY DEF ShownIsSelected
<1>1. k \in Kinds \ due /\ Visible(load[k])
  BY DEF Outdated, Dependent
<1>2. InOrder(painted.page, k, load[k]) /\ load[k].data \in {painted.load[k].data, Nothing}
  BY <1>1 DEF PageInv, Behind
<1>3. painted.load[k].data = load[k].data
  BY <1>1, <1>2 DEF Visible
<1>. QED  BY <1>1, <1>2, <1>3 DEF InOrder, Shown, Dashboard

(* What the page shows was loaded for what is selected, in the login that  *)
(* is current, in whatever order answers, clicks and logins come; or the   *)
(* effect that replaces it is already called for.                          *)
THEOREM ShownBelongsToSelection == PageSpec => []ShownIsSelected
BY InOrderIsSelected, PageInvariant, PTL

(* The status sent was drafted with the card on the screen, and is sent    *)
(* for the cell of that card unless the card is already being replaced.    *)
THEOREM WritesForTheCardShown == PageSpec => WritesWhatWasShown
<1>1. PageInv /\ [PageNext]_pageVars =>
         [pending' = pending \cup {"update"} /\ "update" \notin pending =>
             /\ painted.page.draft = painted.load["card"].data
             /\ \/ painted.page.draft = About(painted.page, "card")
                \/ Outdated("card")]_pageVars
  <2>. SUFFICES ASSUME PageInv, PageNext, pending' = pending \cup {"update"},
                       "update" \notin pending
                PROVE  /\ painted.page.draft = painted.load["card"].data
                       /\ \/ painted.page.draft = About(painted.page, "card")
                          \/ Outdated("card")
    BY DEF pageVars
  <2>1. PICK b \in Buttons \ {"login"} : Press(b)
    BY DEF PageNext, LoadProfile, LoadLocations, LoadLockers, LoadLockerDetails, LoadSessions,
           LoadRefused, LoadFails, VoidAnswer, SubmitLogin, LoggedIn, SelectLocation,
           SelectLocker, SetFilter, SetStatusDraft, Done, Refused, Fails, Logout, ReloadPage,
           RunEffects, Paint
  <2>2. b = "update"
    BY <2>1 DEF Press
  <2>3. Shown("card")
    BY <2>1, <2>2 DEF Press, CardShown
  <2>4. painted.load["card"].data # Nothing
    BY <2>3 DEF Shown, Visible
  <2>5. painted.page.draft = painted.load["card"].data
    BY <2>4 DEF PageInv, Drafted
  <2>. QED  BY <2>3, <2>5, InOrderIsSelected DEF ShownIsSelected, Dependent, Kinds
<1>. QED  BY <1>1, PageInvariant, PTL DEF PageSpec, WritesWhatWasShown
=============================================================================
