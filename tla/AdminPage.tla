------------------------------- MODULE AdminPage -------------------------------
(***************************************************************************)
(* The page of the administrator, pages/Admin/Admin.tsx.  Five effects     *)
(* load what the page shows; each starts when what it depends on changes,  *)
(* and its cleanup makes the answer it awaited void.  The buttons' own     *)
(* requests are never made void: they answer to whatever the page has      *)
(* become.                                                                 *)
(*                                                                         *)
(* The effects are passive (useEffect in React 19).  What an answer        *)
(* changes is rendered, painted and can be clicked on before the effects   *)
(* it calls for have run; what a click changes is rendered at once and its *)
(* effects run with it, but what the effects change is painted later.  No  *)
(* render begins before the effects of the last one have run.              *)
(*                                                                         *)
(* The backend may answer anything at any time; Api says what it answers.  *)
(***************************************************************************)
EXTENDS Naturals, FiniteSets

CONSTANTS
    Locations,
    CellsOf,    \* CellsOf[l]: the cells of location l
    Logins,     \* the tokens that can be handed out (bounds the logins)
    Buttons,    \* of "login", "update", "open", "export": those that are pressed
    Troubled,   \* the effects whose failures and void answers are followed (a bound)
    Nil

ASSUME PageAssumption ==
    /\ CellsOf \in [Locations -> SUBSET UNION {CellsOf[l] : l \in Locations}]
    /\ Nil \notin Locations \cup Logins \cup UNION {CellsOf[l] : l \in Locations}

VARIABLES
    page,       \* the login, what is selected, and the draft of a status
    load,       \* load[k]: the effect that loads k
    painted,    \* page and load as the last render had them; they may be ahead
    due,        \* the effects that the last render called for and did not run
    void,       \* the effects of which an answer is still to come to nothing
    pending,    \* the buttons whose handlers await an answer
    issued      \* the tokens handed out

pageVars == <<page, load, painted, due, void, pending, issued>>

Kinds == {"me", "locations", "cells", "card", "sessions"}

Dependent == Kinds \ {"me"}     \* these depend on the profile and on reloadKey

\* What a request or an answer is about, and the login it was made with.
Nothing == [of |-> Nil, login |-> Nil]

About(p, k) == [of    |-> CASE k = "card" -> p.cell
                            [] k \in {"cells", "sessions"} -> p.location
                            [] OTHER -> Nil,
                login |-> p.token]

IdleLoad == [loading |-> FALSE, error |-> FALSE, data |-> Nothing,
             awaits  |-> Nothing]   \* the request the effect awaits

LoggedOut == [token |-> Nil, profile |-> FALSE, location |-> Nil, cell |-> Nil,
              draft |-> Nothing]    \* the cell the draft stands for

Wanted(p, k) == /\ p.token # Nil
                /\ k = "me" \/ p.profile
                /\ k = "cells" => p.location # Nil
                /\ k = "card" => p.cell # Nil

PageInit ==
    /\ page = LoggedOut
    /\ load = [k \in Kinds |-> IdleLoad]
    /\ painted = [page |-> page, load |-> load]
    /\ due = Kinds
    /\ void = {}
    /\ pending = {}
    /\ issued = {}

-----------------------------------------------------------------------------
(* What is on the screen *)

LoginForm == /\ ~painted.load["me"].loading
             /\ painted.page.token = Nil \/ ~painted.page.profile

Dashboard == /\ ~painted.load["me"].loading
             /\ painted.page.token # Nil /\ painted.page.profile

Visible(e) == ~e.loading /\ ~e.error /\ e.data # Nothing

Shown(k) == Dashboard /\ Visible(painted.load[k])

CardShown == Shown("card") /\ painted.page.cell # Nil

-----------------------------------------------------------------------------
(* Effects and renders *)

\* The effect of k starts again on page p; what is not wanted is cleared.
Started(p, k, e) ==
    IF Wanted(p, k)
    THEN [e EXCEPT !.loading = TRUE, !.error = FALSE, !.awaits = About(p, k)]
    ELSE [e EXCEPT !.loading = (k # "me" /\ @), !.awaits = Nothing,
                   !.data = IF k \in {"me", "locations"} THEN @ ELSE Nothing]

\* What is left of p and effects by effects ks of a render that had page p0:
\* without a location, no cell stays selected.
AfterEffects(p0, ks, p, effects) ==
    [page |-> [p EXCEPT !.cell = IF "cells" \in ks /\ ~Wanted(p0, "cells") THEN Nil ELSE @],
     load |-> [k \in Kinds |-> IF k \in ks THEN Started(p0, k, effects[k]) ELSE effects[k]]]

\* The effects that depend on what differs between two renders.
Touched(p, q) == {k \in Kinds : \/ About(p, k) # About(q, k)
                                \/ k # "me" /\ p.profile # q.profile}

Cleaned(effects, ks) == {k \in ks \cap Troubled : effects[k].awaits # Nothing}

(* A render of p and effects, after the effects that are due; those of     *)
(* "again" are called for although nothing the model has was changed.      *)
Rendered(p, effects, again) ==
    LET new == AfterEffects(painted.page, due, p, effects)
    IN  /\ painted' = new
        /\ page' = new.page
        /\ load' = new.load
        /\ due' = again \cup Touched(painted.page, new.page)
        /\ void' = void \cup Cleaned(effects, due)

(* A render for a click, whose effects run with it.                        *)
RenderedForClick(p, effects, again) ==
    LET new == AfterEffects(painted.page, due, p, effects)
        ran == again \cup Touched(painted.page, new.page)
        left == AfterEffects(new.page, ran, new.page, new.load)
    IN  /\ painted' = new
        /\ page' = left.page
        /\ load' = left.load
        /\ due' = {}
        /\ void' = void \cup Cleaned(effects, due) \cup Cleaned(new.load, ran)

RunEffects ==
    /\ due # {}
    /\ LET left == AfterEffects(painted.page, due, page, load)
       IN  page' = left.page /\ load' = left.load
    /\ due' = {}
    /\ void' = void \cup Cleaned(load, due)
    /\ UNCHANGED <<painted, pending, issued>>

(* What the effects changed is rendered. *)
Paint ==
    /\ due = {}
    /\ painted # [page |-> page, load |-> load]
    /\ Rendered(page, load, {})
    /\ UNCHANGED <<pending, issued>>

-----------------------------------------------------------------------------
(* The answers the effects await *)

LoggedOutPage == [LoggedOut EXCEPT !.draft = page.draft]

\* Whoever calls it, the login that is current is forgotten (clearAuth).
Forgotten(effects) == [k \in Kinds |-> IF k = "me" THEN effects[k]
                                       ELSE [effects[k] EXCEPT !.data = Nothing]]

\* An effect whose answer makes nothing but an end of the loading.
Ended(k) == [load EXCEPT ![k].loading = FALSE, ![k].awaits = Nothing]

Loaded(k) == [Ended(k) EXCEPT ![k].data = load[k].awaits]

LoadProfile ==
    /\ load["me"].awaits # Nothing
    /\ Rendered([page EXCEPT !.profile = TRUE], Loaded("me"), Dependent)
    /\ UNCHANGED <<pending, issued>>

(* The selection is kept if the new list has it; otherwise the first takes *)
(* its place, if there is one.                                             *)
LoadLocations(l) ==
    /\ load["locations"].awaits # Nothing
    /\ Rendered([page EXCEPT !.location = l], Loaded("locations"), {})
    /\ UNCHANGED <<pending, issued>>

LoadLockers(c) ==
    /\ load["cells"].awaits # Nothing
    /\ c \in CellsOf[load["cells"].awaits.of] \cup {Nil}
    /\ Rendered([page EXCEPT !.cell = c], Loaded("cells"), {})
    /\ UNCHANGED <<pending, issued>>

\* A card that leaves the draft as it was.
LoadLockerDetailsKeepsDraft ==
    /\ load["card"].awaits # Nothing
    /\ Rendered(page, Loaded("card"), {})
    /\ UNCHANGED <<pending, issued>>

LoadLockerDetails ==
    /\ load["card"].awaits # Nothing
    /\ Rendered([page EXCEPT !.draft = load["card"].awaits], Loaded("card"), {})
    /\ UNCHANGED <<pending, issued>>

LoadSessions ==
    /\ load["sessions"].awaits # Nothing
    /\ Rendered(page, Loaded("sessions"), {})
    /\ UNCHANGED <<pending, issued>>

(* 401 and 403 *)
LoadRefused(k) ==
    /\ load[k].awaits # Nothing
    /\ Rendered(LoggedOutPage, Forgotten(Ended(k)), {})
    /\ UNCHANGED <<pending, issued>>

(* 404 of the profile shows the one that was kept: see LoadProfile. *)
LoadFails(k) ==
    /\ k \in Troubled
    /\ load[k].awaits # Nothing
    /\ Rendered(page, [Ended(k) EXCEPT ![k].error = TRUE], {})
    /\ UNCHANGED <<pending, issued>>

\* An answer that ends the loading although it is void.
VoidAnswerEndsLoading(k) ==
    /\ k \in void
    /\ void' = void \ {k}
    /\ load' = [load EXCEPT ![k].loading = FALSE]
    /\ UNCHANGED <<page, painted, due, pending, issued>>

(* isDisposed, or aborted. *)
VoidAnswer(k) ==
    /\ k \in void
    /\ void' = void \ {k}
    /\ UNCHANGED <<page, load, painted, due, pending, issued>>

-----------------------------------------------------------------------------
(* The administrator, who acts on what is on the screen *)

SubmitLogin ==
    /\ LoginForm
    /\ "login" \notin pending
    /\ pending' = pending \cup {"login"}
    /\ RenderedForClick(page, load, {})
    /\ UNCHANGED issued

LoggedIn ==
    /\ "login" \in pending
    /\ \E t \in Logins \ issued :
        /\ Rendered([page EXCEPT !.token = t, !.profile = TRUE], load, Dependent)
        /\ issued' = issued \cup {t}
    /\ pending' = pending \ {"login"}

SelectLocation(l) ==
    /\ Shown("locations")
    /\ l # painted.page.location
    /\ RenderedForClick([page EXCEPT !.location = l], load, {})
    /\ UNCHANGED <<pending, issued>>

SelectLocker(c) ==
    /\ Shown("cells")
    /\ painted.page.cell # Nil     \* the list is not empty
    /\ c \in CellsOf[painted.load["cells"].data.of] \ {painted.page.cell}
    /\ RenderedForClick([page EXCEPT !.cell = c], load, {})
    /\ UNCHANGED <<pending, issued>>

SetFilter(k) ==
    /\ Dashboard
    /\ RenderedForClick(page, load, {k})
    /\ UNCHANGED <<pending, issued>>

(* A status is chosen for the cell whose card is seen. *)
SetStatusDraft ==
    /\ CardShown
    /\ RenderedForClick([page EXCEPT !.draft = painted.load["card"].data], load, {})
    /\ UNCHANGED <<pending, issued>>

(* What is sent is the cell and the draft of the last render. *)
Press(b) ==
    /\ IF b = "export" THEN Dashboard ELSE CardShown
    /\ b \notin pending
    /\ pending' = pending \cup {b}
    /\ RenderedForClick(page, load, {})
    /\ UNCHANGED issued

(* A change reloads what is shown now. *)
Done(b) ==
    /\ b \in pending
    /\ Rendered(page, load, IF b = "export" THEN {} ELSE Dependent)
    /\ pending' = pending \ {b}
    /\ UNCHANGED issued

(* 401 and 403, also when the request was made with an earlier login. *)
Refused(b) ==
    /\ b \in pending
    /\ Rendered(LoggedOutPage, Forgotten(load), {})
    /\ pending' = pending \ {b}
    /\ UNCHANGED issued

Fails(b) ==
    /\ b \in pending
    /\ Rendered(page, load, {})
    /\ pending' = pending \ {b}
    /\ UNCHANGED issued

Logout ==
    /\ Dashboard
    /\ RenderedForClick(LoggedOutPage, Forgotten(load), {})
    /\ UNCHANGED <<pending, issued>>

(* The token and the profile are kept by the browser; nothing else is. *)
ReloadPage ==
    /\ page' = [LoggedOut EXCEPT !.token = page.token, !.profile = page.profile]
    /\ load' = [k \in Kinds |-> [IdleLoad EXCEPT !.loading = k = "me" /\ page.token # Nil]]
    /\ painted' = [page |-> page', load |-> load']
    /\ due' = Kinds
    /\ void' = {}
    /\ pending' = {}
    /\ UNCHANGED issued

PageNext ==
    \/ RunEffects
    \/ Paint
    \/ LoadProfile
    \/ \E l \in Locations \cup {Nil} : LoadLocations(l)
    \/ \E c \in {Nil} \cup UNION {CellsOf[l] : l \in Locations} : LoadLockers(c)
    \/ LoadLockerDetails
    \/ LoadSessions
    \/ \E k \in Kinds : LoadRefused(k) \/ LoadFails(k) \/ VoidAnswer(k)
    \/ SubmitLogin
    \/ LoggedIn
    \/ \E l \in Locations : SelectLocation(l)
    \/ \E c \in UNION {CellsOf[l] : l \in Locations} : SelectLocker(c)
    \/ \E k \in {"locations", "cells", "sessions"} : SetFilter(k)
    \/ SetStatusDraft
    \/ \E b \in Buttons \ {"login"} : Press(b) \/ Done(b) \/ Refused(b)
    \/ \E b \in Buttons : Fails(b)
    \/ Logout
    \/ ReloadPage

PageSpec == PageInit /\ [][PageNext]_pageVars

-----------------------------------------------------------------------------
(* What the administrator may rely on *)

(* What is seen of k is about to go: its effect is due, or has run and has *)
(* not been painted.                                                       *)
Outdated(k) == k \in due \/ ~Visible(load[k])

(* What is shown was loaded for what is selected, with the login that is   *)
(* current, except for the moment in which the effect that replaces it is  *)
(* already called for: the cleanups and the flags of the loading make      *)
(* every answer that comes too late void, also after a logout and another  *)
(* login.                                                                  *)
ShownIsSelected ==
    \A k \in Dependent :
        Shown(k) =>
           \/ /\ painted.load[k].data = About(painted.page, k)
              /\ k = "card" => painted.page.cell # Nil
           \/ Outdated(k)

(* The status that is sent was loaded or chosen with the card that is on   *)
(* the screen, whatever answers came since; and it is sent for the cell of *)
(* that card, in its login, except in the moment after an answer selected  *)
(* another cell: then its draft goes to the cell selected.                 *)
WritesWhatWasShown ==
    [][pending' = pending \cup {"update"} /\ "update" \notin pending =>
          /\ painted.page.draft = painted.load["card"].data
          /\ \/ painted.page.draft = About(painted.page, "card")
             \/ Outdated("card")]_pageVars
=============================================================================
