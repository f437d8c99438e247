--------------------------------- MODULE Api ---------------------------------
(***************************************************************************)
(* Who may do what in the admin panel, and for how long: logging in        *)
(* (service/admin_service.go), the check of the token                      *)
(* (auth/middleware.go) and the handlers behind it                         *)
(* (transport/http/admin_handler.go).  A token carries the role its        *)
(* account had when the row was read; nothing looks at the account again.  *)
(* Accounts are changed by hand in the database.  Every instance signs and *)
(* checks with the JWT_SECRET it was started with; during a rolling update *)
(* the old instance serves beside the new one.                             *)
(*                                                                         *)
(* Time is the time left: of a token; and, in the history variables, the   *)
(* time since an account last had a role and since a secret was new.       *)
(***************************************************************************)
EXTENDS Integers, FiniteSets

CONSTANTS
    Admins,      \* rows of admins
    Desks,       \* requests being served at one time
    TokenTTL,    \* life of a token: 1 h
    Patience,    \* the longest time a handler takes once its request is in
    Instances,   \* processes of the backend that can run at one time
    Secrets,     \* the values JWT_SECRET takes
    MaxTokens,   \* bound on the tokens of which none has expired
    None         \* nobody, no role, no instance and no secret

ASSUME TimesAssumption == TokenTTL \in Nat \ {0} /\ Patience \in Nat
ASSUME NoneAssumption == None \notin Admins \cup Instances \cup Secrets

VARIABLES
    account,    \* account[a]: the row of admins
    secret,     \* secret[i]: JWT_SECRET of instance i, or None: it is not running
    tokens,     \* the tokens handed out that have not expired
    desk,       \* desk[d]: how far a request has come
    idle,       \* idle[a][r]: the time since account a was active with role r
    age         \* age[k]: the time since an instance was first started with k

apiVars == <<account, secret, tokens, desk, idle, age>>

AdminRole == {"admin", "operator", "support"}

Account == [role : AdminRole, state : {"active", "disabled", "deleted"}]

Token == [sub : Admins, role : AdminRole, key : Secrets, left : 1..TokenTTL]

Operations == {"me", "view", "status", "open", "export"}

Reply == {"none", "OK", "refused"}  \* which error code, makes no difference here

Desk == [at    : {"free", "login", "handler"},
         op    : Operations \cup {"login"},
         on    : Instances \cup {None},
         sub   : Admins \cup {None},
         role  : AdminRole \cup {None},
         spent : 0..Patience,
         reply : Reply]

FreeDesk == [at |-> "free", op |-> "login", on |-> None, sub |-> None,
             role |-> None, spent |-> 0, reply |-> "none"]

\* Longer ago than anything that matters.
LongAgo == TokenTTL + 2 * Patience + 1

Never == -1     \* the age of a secret no instance was started with yet

ApiTypeOK ==
    /\ account \in [Admins -> Account]
    /\ secret \in [Instances -> Secrets \cup {None}]
    /\ tokens \subseteq Token
    /\ desk \in [Desks -> Desk]
    /\ idle \in [Admins -> [AdminRole -> 0..LongAgo]]
    /\ age \in [Secrets -> {Never} \cup 0..LongAgo]

Running == {i \in Instances : secret[i] # None}

Has(a, r) == account[a] = [role |-> r, state |-> "active"]

ApiInit ==
    /\ account \in [Admins -> [role : AdminRole, state : {"active"}]]
    /\ secret \in [Instances -> Secrets \cup {None}]
    /\ Cardinality(Running) = 1
    /\ tokens = {}
    /\ desk = [d \in Desks |-> FreeDesk]
    /\ idle = [a \in Admins |-> [r \in AdminRole |-> IF Has(a, r) THEN 0 ELSE LongAgo]]
    /\ age = [k \in Secrets |-> IF \E i \in Instances : secret[i] = k THEN 0 ELSE Never]

Answer(d, reply) == desk' = [desk EXCEPT ![d] = [FreeDesk EXCEPT !.reply = reply]]

-----------------------------------------------------------------------------
(* POST /admin/login *)

\* Login without the look at is_active.
LoginOfAnybody(d, i, a) ==
    /\ desk[d].at = "free" /\ i \in Running
    /\ account[a].state # "deleted"
    /\ desk' = [desk EXCEPT ![d] = [FreeDesk EXCEPT
                   !.at = "login", !.on = i, !.sub = a, !.role = account[a].role]]
    /\ UNCHANGED <<account, secret, tokens, idle, age>>

(* GetByLogin reads the row once; is_active is tested on what was read.    *)
Login(d, i, a) ==
    /\ desk[d].at = "free" /\ i \in Running
    /\ IF account[a].state = "active"
       THEN desk' = [desk EXCEPT ![d] = [FreeDesk EXCEPT
                        !.at = "login", !.on = i, !.sub = a, !.role = account[a].role]]
       ELSE Answer(d, "refused")
    /\ UNCHANGED <<account, secret, tokens, idle, age>>

(* bcrypt has said no. *)
WrongPassword(d) ==
    /\ desk[d].at = "login"
    /\ Answer(d, "refused")
    /\ UNCHANGED <<account, secret, tokens, idle, age>>

\* A token that lives one unit longer than it says.
generateTokenWithLeeway(d) ==
    /\ desk[d].at = "login"
    /\ Cardinality(tokens) < MaxTokens
    /\ tokens' = tokens \cup {[sub |-> desk[d].sub, role |-> desk[d].role,
                               key |-> secret[desk[d].on], left |-> TokenTTL + 1]}
    /\ Answer(d, "OK")
    /\ UNCHANGED <<account, secret, idle, age>>

(* bcrypt has said yes: the token counts its hour from now, not from the   *)
(* moment the row was read.                                                *)
generateToken(d) ==
    /\ desk[d].at = "login"
    /\ Cardinality(tokens) < MaxTokens
    /\ tokens' = tokens \cup {[sub |-> desk[d].sub, role |-> desk[d].role,
                               key |-> secret[desk[d].on], left |-> TokenTTL]}
    /\ Answer(d, "OK")
    /\ UNCHANGED <<account, secret, idle, age>>

-----------------------------------------------------------------------------
(* RequireAdmin *)

\* A check of the token that reads the claims and not the signature.
RequireAdminUnsigned(d, i, op, t) ==
    /\ desk[d].at = "free" /\ i \in Running
    /\ t \in tokens
    /\ desk' = [desk EXCEPT ![d] = [FreeDesk EXCEPT
                   !.at = "handler", !.on = i, !.op = op, !.sub = t.sub, !.role = t.role]]
    /\ UNCHANGED <<account, secret, tokens, idle, age>>

RequireAdmin(d, i, op, t) ==
    /\ desk[d].at = "free" /\ i \in Running
    /\ t \in tokens
    /\ IF t.key = secret[i]
       THEN desk' = [desk EXCEPT ![d] = [FreeDesk EXCEPT
                        !.at = "handler", !.on = i, !.op = op, !.sub = t.sub, !.role = t.role]]
       ELSE Answer(d, "refused")
    /\ UNCHANGED <<account, secret, tokens, idle, age>>

(* A login without a name or a password, or of nobody; a request without a *)
(* token, or with one that was not signed here or has expired.             *)
Unauthorized(d) ==
    /\ desk[d].at = "free" /\ Running # {}
    /\ Answer(d, "refused")
    /\ UNCHANGED <<account, secret, tokens, idle, age>>

-----------------------------------------------------------------------------
(* The handlers, in the order in which they refuse *)

canManage(role) == role \in {"admin", "operator"}

Serving(d, op) == desk[d].at = "handler" /\ desk[d].op = op

(* What the service replies, by the role in the token.  It refuses what it *)
(* cannot read, rows that are not there, and what the database refuses.    *)
UpdateLockerStatus(role) == IF canManage(role) THEN {"OK", "refused"} ELSE {"refused"}
OpenByHand(role) == IF canManage(role) THEN {"OK", "refused"} ELSE {"refused"}
ExportRevenue(role) == IF role = "admin" THEN {"OK", "refused"} ELSE {"refused"}

\* The account is read again: a disabled one is shown as such.
Profile(a) == IF account[a].state = "deleted" THEN {"refused"} ELSE {"OK", "refused"}

(* GET /admin/me *)
Me(d) ==
    /\ Serving(d, "me")
    /\ \E reply \in Profile(desk[d].sub) : Answer(d, reply)
    /\ UNCHANGED <<account, secret, tokens, idle, age>>

(* The endpoints that only read ask for no role. *)
View(d) ==
    /\ Serving(d, "view")
    /\ \E reply \in {"OK", "refused"} : Answer(d, reply)
    /\ UNCHANGED <<account, secret, tokens, idle, age>>

(* PATCH /admin/lockers/{id}/status *)
PatchLockerStatus(d) ==
    /\ Serving(d, "status")
    /\ \E reply \in UpdateLockerStatus(desk[d].role) : Answer(d, reply)
    /\ UNCHANGED <<account, secret, tokens, idle, age>>

(* POST /admin/lockers/{id}/open *)
ManualOpenLocker(d) ==
    /\ Serving(d, "open")
    /\ \E reply \in OpenByHand(desk[d].role) : Answer(d, reply)
    /\ UNCHANGED <<account, secret, tokens, idle, age>>

(* GET /admin/revenue/export *)
RevenueExport(d) ==
    /\ Serving(d, "export")
    /\ \E reply \in ExportRevenue(desk[d].role) : Answer(d, reply)
    /\ UNCHANGED <<account, secret, tokens, idle, age>>

-----------------------------------------------------------------------------
(* The environment *)

(* An account is changed by hand: another role, disabled, enabled, deleted. *)
ChangeAccount(a, row) ==
    /\ account[a].state # "deleted"
    /\ account' = [account EXCEPT ![a] = row]
    /\ idle' = [idle EXCEPT ![a] = [r \in AdminRole |->
                   IF row = [role |-> r, state |-> "active"] THEN 0 ELSE @[r]]]
    /\ UNCHANGED <<secret, tokens, desk, age>>

(* An instance is started, beside those that run, with any secret: the one *)
(* they have, a new one, or an earlier one again.                          *)
StartInstance(i, k) ==
    /\ secret[i] = None
    /\ secret' = [secret EXCEPT ![i] = k]
    /\ age' = [age EXCEPT ![k] = IF @ = Never THEN 0 ELSE @]
    /\ UNCHANGED <<account, tokens, desk, idle>>

(* An instance is stopped, and the requests it serves with it. *)
StopInstance(i) ==
    /\ i \in Running
    /\ secret' = [secret EXCEPT ![i] = None]
    /\ desk' = [d \in Desks |-> IF desk[d].on = i THEN FreeDesk ELSE desk[d]]
    /\ UNCHANGED <<account, tokens, idle, age>>

Later(n) == IF n < LongAgo THEN n + 1 ELSE n

(* A token is valid while now < exp.  No request is served for longer than *)
(* Patience: a bound the code does not have and its clients do.            *)
Tick ==
    /\ \A d \in Desks : desk[d].at # "free" => desk[d].spent < Patience
    /\ desk' = [d \in Desks |-> IF desk[d].at = "free" THEN desk[d]
                                ELSE [desk[d] EXCEPT !.spent = @ + 1]]
    /\ tokens' = {[t EXCEPT !.left = @ - 1] : t \in {u \in tokens : u.left > 1}}
    /\ idle' = [a \in Admins |-> [r \in AdminRole |->
                   IF Has(a, r) THEN 0 ELSE Later(idle[a][r])]]
    /\ age' = [k \in Secrets |-> IF age[k] = Never THEN Never ELSE Later(age[k])]
    /\ UNCHANGED <<account, secret>>

ApiNext ==
    \/ \E d \in Desks :
          \/ \E i \in Instances, a \in Admins : Login(d, i, a)
          \/ Unauthorized(d)
          \/ WrongPassword(d)
          \/ generateToken(d)
          \/ \E i \in Instances, op \in Operations, t \in tokens : RequireAdmin(d, i, op, t)
          \/ Me(d)
          \/ View(d)
          \/ PatchLockerStatus(d)
          \/ ManualOpenLocker(d)
          \/ RevenueExport(d)
    \/ \E a \in Admins, row \in Account : ChangeAccount(a, row)
    \/ \E i \in Instances : StopInstance(i) \/ \E k \in Secrets : StartInstance(i, k)
    \/ Tick

ApiSpec == ApiInit /\ [][ApiNext]_apiVars

-----------------------------------------------------------------------------
(* What an administrator who was demoted or dismissed can still do *)

(* The roles of admin-panel-api-endpoints.md, section 3. *)
Permitted(op) ==
    CASE op \in {"me", "view"} -> AdminRole
      [] op \in {"status", "open"} -> {"admin", "operator"}
      [] op = "export" -> {"admin"}

Performed(d, op) == Serving(d, op) /\ desk'[d].at = "free" /\ desk'[d].reply = "OK"

(* An operation is performed only for an account that was active, with a   *)
(* role that permits it, at most the life of a token ago (and the time the *)
(* login and the request themselves took): tokens are not revoked, the     *)
(* hour counts from the end of the login, and a request admitted in the    *)
(* last second is still served.                                            *)
PowerEnds ==
    [][\A d \in Desks, op \in Operations :
          Performed(d, op) =>
             \E r \in Permitted(op) :
                idle[desk[d].sub][r] < TokenTTL + 2 * Patience]_apiVars

(* A new JWT_SECRET lets nobody in by what an earlier one gave: who        *)
(* performs an operation on an instance had the role at some time since    *)
(* the secret of that instance was new, although older instances serve and *)
(* log in beside it, logins are under way when they stop, and a later      *)
(* instance may take an earlier secret again.  Once every instance has the *)
(* new secret, all power from before it has ended.                         *)
NewSecretLocksOut ==
    [][\A d \in Desks, op \in Operations :
          Performed(d, op) =>
             \E r \in Permitted(op) :
                idle[desk[d].sub][r] <= age[secret[desk[d].on]]]_apiVars
=============================================================================
