------------------------------ MODULE ApiProofs ------------------------------
(***************************************************************************)
(* Proofs about the requests the backend serves: how long an administrator *)
(* keeps a role in Api, and what Intake makes of the customers' requests.  *)
(***************************************************************************)
EXTENDS Api, Intake, TLAPS

-----------------------------------------------------------------------------
(* The power of a role *)

(* The age of a role, on its way from the row of the account into a token  *)
(* and from the token to a handler.  A login knows how long ago it read    *)
(* the row; a token is as old as its life that is over, and the login; a   *)
(* handler adds what it has spent itself.  A login and a handler were begun *)
(* since the secret of their instance was new, and a token since its own.  *)
AccountsAreCurrent ==
    \A a \in Admins, r \in AdminRole : Has(a, r) => idle[a][r] = 0

TokensAge ==
    \A k \in tokens :
        /\ idle[k.sub][k.role] + k.left <= TokenTTL + Patience
        /\ idle[k.sub][k.role] <= age[k.key]

RequestInOrder(q) ==
    LET old == idle[q.sub][q.role]
    IN  q.at # "free" =>
           /\ q.sub \in Admins /\ q.role \in AdminRole
           /\ q.on \in Instances /\ secret[q.on] \in Secrets
           /\ old <= age[secret[q.on]]
           /\ q.at = "login" => old <= q.spent
           /\ q.at = "handler" => old < TokenTTL + Patience + q.spent

RequestsAge == \A d \in Desks : RequestInOrder(desk[d])

SecretsAge == \A i \in Running : age[secret[i]] # Never

ApiInv == ApiTypeOK /\ AccountsAreCurrent /\ TokensAge /\ RequestsAge /\ SecretsAge

(* A request goes one step further, or is answered, and nothing else        *)
(* happens.                                                                *)
LEMMA OnTheDesk ==
    ASSUME ApiInv, NEW d \in Desks, NEW q \in Desk, RequestInOrder(q),
           desk' = [desk EXCEPT ![d] = q],
           UNCHANGED <<account, secret, idle, age>>,
           tokens' = tokens
    PROVE  ApiInv'
<1>1. ApiTypeOK' /\ AccountsAreCurrent'
  BY DEF ApiInv, ApiTypeOK, AccountsAreCurrent, Has
<1>2. TokensAge' /\ SecretsAge'
  BY DEF ApiInv, TokensAge, SecretsAge, Running
<1>3. RequestsAge'
  <2>. SUFFICES ASSUME NEW e \in Desks PROVE RequestInOrder(desk[e])'
    BY DEF RequestsAge
  <2>1. desk'[e] = desk[e] \/ desk'[e] = q
    BY DEF ApiInv, ApiTypeOK
  <2>2. RequestInOrder(desk[e])
    BY DEF ApiInv, RequestsAge
  <2>. QED  BY <2>1, <2>2 DEF RequestInOrder
<1>. QED  BY <1>1, <1>2, <1>3 DEF ApiInv

LEMMA RowsOfTheDesk ==
    ASSUME NEW i \in Instances, NEW at \in {"login", "handler"}, NEW op \in Operations \cup {"login"},
           NEW sub \in Admins, NEW role \in AdminRole
    PROVE  /\ [FreeDesk EXCEPT !.at = at, !.on = i, !.sub = sub, !.role = role] \in Desk
           /\ [FreeDesk EXCEPT !.at = at, !.on = i, !.op = op, !.sub = sub, !.role = role] \in Desk
<1>1. FreeDesk \in Desk
  BY TimesAssumption DEF FreeDesk, Desk, Reply
<1>2. \A q \in Desk : /\ [q EXCEPT !.at = at] \in Desk /\ [q EXCEPT !.op = op] \in Desk
                      /\ [q EXCEPT !.on = i] \in Desk
                      /\ [q EXCEPT !.sub = sub] \in Desk /\ [q EXCEPT !.role = role] \in Desk
  BY DEF Desk
<1>. QED  BY <1>1, <1>2

LEMMA SpentLonger ==
    ASSUME NEW q \in Desk, q.spent < Patience
    PROVE  LET p == [q EXCEPT !.spent = @ + 1]
           IN  /\ p \in Desk
               /\ p.at = q.at /\ p.sub = q.sub /\ p.role = q.role /\ p.on = q.on
               /\ p.spent = q.spent + 1 /\ q.spent \in Nat
<1>1. q.spent \in 0..Patience
  BY DEF Desk
<1>2. q.spent + 1 \in 0..Patience
  BY <1>1, TimesAssumption
<1>. DEFINE n == q.spent + 1
<1>3. n \in 0..Patience => [q EXCEPT !.spent = n] \in Desk
  <2>. HIDE DEF n
  <2>. QED  BY DEF Desk
<1>. QED  BY <1>1, <1>2, <1>3 DEF Desk

LEMMA FreeIsInOrder ==
    \A reply \in Reply : LET q == [FreeDesk EXCEPT !.reply = reply]
                         IN  q \in Desk /\ RequestInOrder(q)
BY TimesAssumption DEF FreeDesk, Desk, Reply, RequestInOrder

LEMMA Answered ==
    ASSUME ApiInv, NEW d \in Desks, NEW reply \in Reply, Answer(d, reply),
           UNCHANGED <<account, secret, tokens, idle, age>>
    PROVE  ApiInv'
BY OnTheDesk, FreeIsInOrder DEF Answer

(* Steps of the requests, of the accounts and of time. *)
LEMMA RunningSecrets ==
    ASSUME ApiInv, NEW i \in Running
    PROVE  /\ i \in Instances /\ secret[i] \in Secrets
           /\ age[secret[i]] \in Nat
BY TimesAssumption DEF ApiInv, ApiTypeOK, Running, SecretsAge, LongAgo, Never

LEMMA LoginKeeps ==
    ASSUME ApiInv, NEW d \in Desks, NEW i \in Instances, NEW a \in Admins, Login(d, i, a)
    PROVE  ApiInv'
<1>. DEFINE q == [FreeDesk EXCEPT !.at = "login", !.on = i, !.sub = a, !.role = account[a].role]
<1>1. CASE account[a].state = "active"
  <2>1. account[a] \in Account
    BY DEF ApiInv, ApiTypeOK
  <2>2. Has(a, account[a].role) /\ account[a].role \in AdminRole
    BY <1>1, <2>1 DEF Has, Account
  <2>3. /\ idle[a][account[a].role] = 0
        /\ secret[i] \in Secrets /\ age[secret[i]] \in Nat
    BY <2>2, RunningSecrets DEF ApiInv, AccountsAreCurrent, Login
  <2>4. q \in Desk
    BY <2>2, RowsOfTheDesk
  <2>5. q.at = "login" /\ q.on = i /\ q.sub = a /\ q.role = account[a].role /\ q.spent = 0
    BY DEF FreeDesk
  <2>6. RequestInOrder(q)
    BY <2>2, <2>3, <2>5 DEF RequestInOrder
  <2>7. desk' = [desk EXCEPT ![d] = q] /\ UNCHANGED <<account, secret, tokens, idle, age>>
    BY <1>1 DEF Login
  <2>. HIDE DEF q
  <2>. QED  BY <2>4, <2>6, <2>7, OnTheDesk
<1>2. CASE account[a].state # "active"
  BY <1>2, Answered DEF Login, Reply
<1>. QED  BY <1>1, <1>2

LEMMA AdmissionKeeps ==
    ASSUME ApiInv, NEW d \in Desks, NEW i \in Instances, NEW op \in Operations, NEW t \in tokens,
           RequireAdmin(d, i, op, t)
    PROVE  ApiInv'
<1>. DEFINE q == [FreeDesk EXCEPT !.at = "handler", !.on = i, !.op = op,
                                  !.sub = t.sub, !.role = t.role]
<1>1. CASE t.key = secret[i]
  <2>1. t \in Token /\ t.sub \in Admins /\ t.role \in AdminRole /\ t.left \in 1..TokenTTL
    BY DEF ApiInv, ApiTypeOK, Token
  <2>2. /\ idle[t.sub][t.role] + t.left <= TokenTTL + Patience
        /\ idle[t.sub][t.role] <= age[secret[i]]
        /\ secret[i] \in Secrets
    BY <1>1, RunningSecrets DEF ApiInv, TokensAge, RequireAdmin
  <2>3. idle[t.sub][t.role] \in Nat
    BY <2>1, TimesAssumption DEF ApiInv, ApiTypeOK, LongAgo
  <2>4. q \in Desk
    BY <2>1, RowsOfTheDesk
  <2>5. q.at = "handler" /\ q.on = i /\ q.sub = t.sub /\ q.role = t.role /\ q.spent = 0
    BY DEF FreeDesk
  <2>6. RequestInOrder(q)
    BY <2>1, <2>2, <2>3, <2>5, TimesAssumption DEF RequestInOrder
  <2>7. desk' = [desk EXCEPT ![d] = q] /\ UNCHANGED <<account, secret, tokens, idle, age>>
    BY <1>1 DEF RequireAdmin
  <2>. HIDE DEF q
  <2>. QED  BY <2>4, <2>6, <2>7, OnTheDesk
<1>2. CASE t.key # secret[i]
  BY <1>2, Answered DEF RequireAdmin, Reply
<1>. QED  BY <1>1, <1>2

LEMMA TokenKeeps ==
    ASSUME ApiInv, NEW d \in Desks, generateToken(d) PROVE ApiInv'
<1>. DEFINE t == [sub |-> desk[d].sub, role |-> desk[d].role, key |-> secret[desk[d].on],
                 left |-> TokenTTL]
            q == [FreeDesk EXCEPT !.reply = "OK"]
<1>1. RequestInOrder(desk[d]) /\ desk[d] \in Desk /\ desk[d].at = "login"
  BY DEF ApiInv, RequestsAge, ApiTypeOK, generateToken
<1>2. t \in Token
  BY <1>1, TimesAssumption DEF RequestInOrder, Token, ApiInv, ApiTypeOK
<1>3. tokens' = tokens \cup {t} /\ desk' = [desk EXCEPT ![d] = q]
      /\ UNCHANGED <<account, secret, idle, age>>
  BY DEF generateToken, Answer
<1>4. /\ idle[t.sub][t.role] \in Nat
      /\ idle[t.sub][t.role] <= Patience /\ idle[t.sub][t.role] <= age[t.key]
  BY <1>1, TimesAssumption DEF RequestInOrder, Desk, ApiInv, ApiTypeOK, LongAgo
<1>5. ApiTypeOK' /\ AccountsAreCurrent' /\ SecretsAge'
  BY <1>2, <1>3, FreeIsInOrder DEF ApiInv, ApiTypeOK, AccountsAreCurrent, Has, Reply, SecretsAge,
                                  Running
<1>6. TokensAge'
  <2>. SUFFICES ASSUME NEW k \in tokens'
                PROVE  /\ idle[k.sub][k.role] + k.left <= TokenTTL + Patience
                       /\ idle[k.sub][k.role] <= age[k.key]
    BY <1>3 DEF TokensAge
  <2>1. CASE k \in tokens
    BY <2>1 DEF ApiInv, TokensAge
  <2>2. CASE k = t
    BY <2>2, <1>4, TimesAssumption
  <2>. QED  BY <1>3, <2>1, <2>2
<1>7. RequestsAge'
  <2>. SUFFICES ASSUME NEW e \in Desks PROVE RequestInOrder(desk[e])'
    BY DEF RequestsAge
  <2>1. desk'[e] = desk[e] \/ desk'[e] = q
    BY <1>3 DEF ApiInv, ApiTypeOK
  <2>2. RequestInOrder(desk[e])
    BY DEF ApiInv, RequestsAge
  <2>. QED  BY <1>3, <2>1, <2>2, FreeIsInOrder DEF RequestInOrder, FreeDesk
<1>. QED  BY <1>5, <1>6, <1>7 DEF ApiInv

LEMMA AccountKeeps ==
    ASSUME ApiInv, NEW a \in Admins, NEW row \in Account, ChangeAccount(a, row) PROVE ApiInv'
<1>. USE TimesAssumption
<1>1. ApiTypeOK'
  BY DEF ApiInv, ApiTypeOK, ChangeAccount, LongAgo
<1>2. \A b \in Admins, r \in AdminRole :
         /\ idle[b][r] \in Nat
         /\ idle'[b][r] = IF b = a /\ row = [role |-> r, state |-> "active"]
                          THEN 0 ELSE idle[b][r]
  BY DEF ApiInv, ApiTypeOK, ChangeAccount, LongAgo
<1>3. \A b \in Admins, r \in AdminRole : idle'[b][r] <= idle[b][r] /\ idle'[b][r] \in Nat
  BY <1>2
<1>4. AccountsAreCurrent' /\ SecretsAge'
  BY <1>2 DEF ApiInv, ApiTypeOK, AccountsAreCurrent, Has, ChangeAccount, SecretsAge, Running
<1>5. TokensAge'
  <2>1. \A k \in tokens : /\ k.sub \in Admins /\ k.role \in AdminRole /\ k.left \in Nat
                          /\ age[k.key] \in Int
    BY DEF ApiInv, ApiTypeOK, Token, LongAgo, Never
  <2>. QED  BY <1>2, <1>3, <2>1 DEF ApiInv, TokensAge, ChangeAccount
<1>6. RequestsAge'
  <2>. SUFFICES ASSUME NEW e \in Desks PROVE RequestInOrder(desk[e])'
    BY DEF RequestsAge
  <2>1. RequestInOrder(desk[e]) /\ desk[e] \in Desk /\ \A k \in Secrets : age[k] \in Int
    BY DEF ApiInv, RequestsAge, ApiTypeOK, LongAgo, Never
  <2>2. desk[e].spent \in Nat
    BY <2>1 DEF Desk
  <2>. QED  BY <1>2, <1>3, <2>1, <2>2 DEF RequestInOrder, ChangeAccount
<1>. QED  BY <1>1, <1>4, <1>5, <1>6 DEF ApiInv

LEMMA StartKeeps ==
    ASSUME ApiInv, NEW i \in Instances, NEW new \in Secrets, StartInstance(i, new)
    PROVE  ApiInv'
<1>. USE TimesAssumption, NoneAssumption
<1>1. /\ secret' = [secret EXCEPT ![i] = new] /\ secret[i] = None
      /\ age' = [age EXCEPT ![new] = IF @ = Never THEN 0 ELSE @]
      /\ UNCHANGED <<account, tokens, desk, idle>>
  BY DEF StartInstance
<1>2. \A k \in Secrets : /\ age[k] \in {Never} \cup 0..LongAgo
                          /\ age'[k] \in {Never} \cup 0..LongAgo
                          /\ age[k] # Never => age'[k] = age[k]
  BY <1>1 DEF ApiInv, ApiTypeOK, LongAgo, Never
<1>9. \A k \in Secrets : age[k] # Never => age'[k] = age[k]
  BY <1>1 DEF ApiInv, ApiTypeOK, LongAgo, Never
<1>3. age' \in [Secrets -> {Never} \cup 0..LongAgo] /\ age'[new] # Never
  <2>. DEFINE n == IF age[new] = Never THEN 0 ELSE age[new]
  <2>1. age' = [age EXCEPT ![new] = n] /\ age \in [Secrets -> {Never} \cup 0..LongAgo]
    BY <1>1 DEF ApiInv, ApiTypeOK
  <2>2. 0 \in 0..LongAgo /\ 0 # Never
    BY DEF Never, LongAgo
  <2>3. age[new] \in {Never} \cup 0..LongAgo
    BY DEF ApiInv, ApiTypeOK
  <2>4. n \in {Never} \cup 0..LongAgo /\ n # Never
    BY <2>2, <2>3, Zenon
  <2>. HIDE DEF n
  <2>. QED  BY <2>1, <2>4
<1>4. ApiTypeOK' /\ AccountsAreCurrent'
  BY <1>1, <1>3 DEF ApiInv, ApiTypeOK, AccountsAreCurrent, Has
<1>5. \A a \in Admins, r \in AdminRole : idle[a][r] \in Nat
  BY DEF ApiInv, ApiTypeOK, LongAgo
<1>6. TokensAge'
  <2>1. \A k \in tokens : k.sub \in Admins /\ k.role \in AdminRole /\ k.key \in Secrets
    BY DEF ApiInv, ApiTypeOK, Token
  <2>2. ASSUME NEW k \in tokens PROVE age'[k.key] = age[k.key]
    <3>1. idle[k.sub][k.role] \in Nat /\ idle[k.sub][k.role] <= age[k.key]
      BY <1>5, <2>1 DEF ApiInv, TokensAge
    <3>2. age[k.key] # Never
      BY <3>1 DEF Never
    <3>. QED  BY <1>9, <2>1, <3>2
  <2>. QED  BY <1>1, <2>2 DEF ApiInv, TokensAge
<1>7. RequestsAge'
  <2>. SUFFICES ASSUME NEW e \in Desks PROVE RequestInOrder(desk[e])'
    BY DEF RequestsAge
  <2>1. RequestInOrder(desk[e])
    BY DEF ApiInv, RequestsAge
  <2>2. desk[e].at # "free" => /\ desk[e].on # i
                               /\ secret'[desk[e].on] = secret[desk[e].on]
                               /\ age[secret[desk[e].on]] # Never
    BY <1>1, <1>5, <2>1 DEF RequestInOrder, ApiInv, ApiTypeOK, Never
  <2>. QED  BY <1>1, <1>2, <2>1, <2>2 DEF RequestInOrder
<1>8. SecretsAge'
  <2>. SUFFICES ASSUME NEW j \in Running' PROVE age'[secret'[j]] # Never
    BY DEF SecretsAge
  <2>1. CASE j = i
    BY <1>1, <1>3, <2>1 DEF ApiInv, ApiTypeOK
  <2>2. CASE j # i
    <3>1. j \in Running /\ secret'[j] = secret[j] /\ secret[j] \in Secrets
      BY <1>1, <2>2 DEF Running, ApiInv, ApiTypeOK
    <3>2. age[secret[j]] # Never
      BY <3>1 DEF ApiInv, SecretsAge
    <3>3. age'[secret[j]] = age[secret[j]]
      BY <1>9, <3>1, <3>2
    <3>. QED  BY <3>1, <3>2, <3>3
  <2>. QED  BY <2>1, <2>2
<1>. QED  BY <1>4, <1>6, <1>7, <1>8 DEF ApiInv

LEMMA StopKeeps == ASSUME ApiInv, NEW i \in Instances, StopInstance(i) PROVE ApiInv'
<1>. USE TimesAssumption, NoneAssumption
<1>1. FreeDesk \in Desk /\ FreeDesk.at = "free"
  BY DEF FreeDesk, Desk, Reply
<1>2. /\ secret' = [secret EXCEPT ![i] = None]
      /\ desk' = [d \in Desks |-> IF desk[d].on = i THEN FreeDesk ELSE desk[d]]
      /\ UNCHANGED <<account, tokens, idle, age>>
  BY DEF StopInstance
<1>3. ApiTypeOK' /\ AccountsAreCurrent' /\ TokensAge'
  BY <1>1, <1>2 DEF ApiInv, ApiTypeOK, AccountsAreCurrent, Has, TokensAge
<1>4. RequestsAge'
  <2>. SUFFICES ASSUME NEW e \in Desks PROVE RequestInOrder(desk[e])'
    BY DEF RequestsAge
  <2>1. RequestInOrder(desk[e])
    BY DEF ApiInv, RequestsAge
  <2>2. CASE desk[e].on = i
    BY <1>1, <1>2, <2>2 DEF RequestInOrder
  <2>3. CASE desk[e].on # i
    <3>1. desk'[e] = desk[e] /\ (desk[e].at # "free" => secret'[desk[e].on] = secret[desk[e].on])
      BY <1>2, <2>1, <2>3 DEF RequestInOrder, ApiInv, ApiTypeOK
    <3>. QED  BY <1>2, <2>1, <3>1 DEF RequestInOrder
  <2>. QED  BY <2>2, <2>3
<1>5. SecretsAge'
  BY <1>2 DEF ApiInv, ApiTypeOK, SecretsAge, Running
<1>. QED  BY <1>3, <1>4, <1>5 DEF ApiInv

LEMMA TickKeeps == ASSUME ApiInv, Tick PROVE ApiInv'
<1>. USE TimesAssumption, NoneAssumption
<1>1. /\ idle' \in [Admins -> [AdminRole -> 0..LongAgo]]
      /\ \A b \in Admins, r \in AdminRole :
            idle[b][r] \in Nat /\ idle'[b][r] \in Nat /\ idle'[b][r] <= idle[b][r] + 1
  BY DEF ApiInv, ApiTypeOK, Tick, Later, LongAgo
<1>2. /\ age' \in [Secrets -> {Never} \cup 0..LongAgo]
      /\ \A k \in Secrets : /\ age[k] \in {Never} \cup 0..LongAgo
                             /\ age'[k] = IF age[k] = Never THEN Never ELSE Later(age[k])
  BY DEF ApiInv, ApiTypeOK, Tick, Later, LongAgo, Never
<1>3. \A b \in Admins, r \in AdminRole, k \in Secrets :
         idle[b][r] <= age[k] => idle'[b][r] <= age'[k]
  <2>. SUFFICES ASSUME NEW b \in Admins, NEW r \in AdminRole, NEW k \in Secrets,
                       idle[b][r] <= age[k]
                PROVE  idle'[b][r] <= age'[k]
    OBVIOUS
  <2>1. idle[b][r] \in 0..LongAgo /\ idle'[b][r] \in {0, Later(idle[b][r])}
    BY DEF Tick, ApiInv, ApiTypeOK
  <2>2. age[k] \in 0..LongAgo /\ age'[k] = Later(age[k])
    BY <1>2, <2>1 DEF Never, LongAgo
  <2>. QED  BY <2>1, <2>2 DEF Later, LongAgo
<1>4. \A d \in Desks :
         /\ desk[d].at = "free" => desk'[d] = desk[d]
         /\ desk[d].at # "free" => /\ desk[d].spent < Patience
                                   /\ desk'[d] = [desk[d] EXCEPT !.spent = @ + 1]
  BY DEF Tick
<1>5. desk' \in [Desks -> Desk]
  <2>1. ASSUME NEW d \in Desks, desk[d].at # "free"
        PROVE  [desk[d] EXCEPT !.spent = @ + 1] \in Desk
    BY <2>1, <1>4, SpentLonger DEF ApiInv, ApiTypeOK
  <2>2. \A d \in Desks : desk'[d] \in Desk
    BY <2>1, <1>4 DEF ApiInv, ApiTypeOK
  <2>. QED  BY <2>2 DEF Tick
<1>6. \A k \in tokens' : \E u \in tokens :
         u \in Token /\ u.left > 1 /\ k = [u EXCEPT !.left = @ - 1]
  BY DEF Tick, ApiInv, ApiTypeOK
<1>7. \A k \in tokens' : k \in Token
  BY <1>6 DEF Token
<1>8. AccountsAreCurrent'
  BY DEF Tick, ApiInv, ApiTypeOK, AccountsAreCurrent, Has
<1>12. SecretsAge'
  <2>. SUFFICES ASSUME NEW i \in Running' PROVE age'[secret'[i]] # Never
    BY DEF SecretsAge
  <2>1. i \in Running /\ secret' = secret
    BY DEF Tick, Running
  <2>2. secret[i] \in Secrets /\ age[secret[i]] \in Nat
    BY <2>1, RunningSecrets
  <2>. QED  BY <1>2, <2>1, <2>2 DEF Never, Later, LongAgo
<1>9. TokensAge'
  <2>. SUFFICES ASSUME NEW k \in tokens'
                PROVE  /\ idle'[k.sub][k.role] + k.left <= TokenTTL + Patience
                       /\ idle'[k.sub][k.role] <= age'[k.key]
    BY DEF TokensAge
  <2>1. PICK u \in tokens : u \in Token /\ u.left > 1 /\ k = [u EXCEPT !.left = @ - 1]
    BY <1>6
  <2>2. /\ k.sub = u.sub /\ k.role = u.role /\ k.key = u.key /\ k.left = u.left - 1
        /\ u.sub \in Admins /\ u.role \in AdminRole /\ u.left \in Nat
        /\ u.key \in Secrets
    BY <2>1 DEF Token
  <2>3. /\ idle[u.sub][u.role] + u.left <= TokenTTL + Patience
        /\ idle[u.sub][u.role] <= age[u.key]
    BY DEF ApiInv, TokensAge
  <2>. QED  BY <1>1, <1>3, <2>2, <2>3
<1>10. RequestsAge'
  <2>. SUFFICES ASSUME NEW e \in Desks PROVE RequestInOrder(desk[e])'
    BY DEF RequestsAge
  <2>1. RequestInOrder(desk[e]) /\ desk[e] \in Desk
    BY DEF ApiInv, RequestsAge, ApiTypeOK
  <2>2. CASE desk[e].at = "free"
    BY <2>2, <1>4 DEF RequestInOrder
  <2>3. CASE desk[e].at # "free"
    <3>1. /\ desk'[e].sub = desk[e].sub /\ desk'[e].role = desk[e].role
          /\ desk'[e].at = desk[e].at /\ desk'[e].spent = desk[e].spent + 1
          /\ desk'[e].on = desk[e].on /\ secret' = secret
          /\ desk[e].spent \in Nat
      BY <2>1, <2>3, <1>4, SpentLonger DEF Tick
    <3>2. desk[e].sub \in Admins /\ desk[e].role \in AdminRole
      BY <2>1, <2>3 DEF RequestInOrder
    <3>. QED  BY <2>1, <2>3, <3>1, <3>2, <1>1, <1>3 DEF RequestInOrder
  <2>. QED  BY <2>2, <2>3
<1>11. ApiTypeOK'
  BY <1>1, <1>2, <1>5, <1>7 DEF Tick, ApiInv, ApiTypeOK
<1>. QED  BY <1>8, <1>9, <1>10, <1>11, <1>12 DEF ApiInv

LEMMA ApiStep == ApiInv /\ [ApiNext]_apiVars => ApiInv'
<1>. SUFFICES ASSUME ApiInv, [ApiNext]_apiVars PROVE ApiInv'
  OBVIOUS
<1>1. ASSUME NEW d \in Desks, NEW i \in Instances, NEW a \in Admins, Login(d, i, a)
      PROVE  ApiInv'
  BY <1>1, LoginKeeps
<1>2. ASSUME NEW d \in Desks, generateToken(d) PROVE ApiInv'
  BY <1>2, TokenKeeps
<1>3. ASSUME NEW d \in Desks, NEW i \in Instances, NEW op \in Operations, NEW t \in tokens,
             RequireAdmin(d, i, op, t)
      PROVE  ApiInv'
  BY <1>3, AdmissionKeeps
<1>4. ASSUME NEW d \in Desks,
             \/ Unauthorized(d) \/ WrongPassword(d) \/ Me(d) \/ View(d)
             \/ PatchLockerStatus(d) \/ ManualOpenLocker(d) \/ RevenueExport(d)
      PROVE  ApiInv'
  <2>1. /\ \E reply \in Reply : Answer(d, reply)
        /\ UNCHANGED <<account, secret, tokens, idle, age>>
    BY <1>4 DEF Unauthorized, WrongPassword, Me, View, PatchLockerStatus, ManualOpenLocker,
                RevenueExport, Profile, UpdateLockerStatus, OpenByHand, ExportRevenue, Reply
  <2>. QED  BY <2>1, Answered
<1>5. ASSUME NEW a \in Admins, NEW row \in Account, ChangeAccount(a, row) PROVE ApiInv'
  BY <1>5, AccountKeeps
<1>6. ASSUME NEW i \in Instances, StopInstance(i) \/ \E k \in Secrets : StartInstance(i, k)
      PROVE  ApiInv'
  BY <1>6, StartKeeps, StopKeeps
<1>7. CASE Tick
  BY <1>7, TickKeeps
<1>8. CASE UNCHANGED apiVars
  BY <1>8 DEF apiVars, ApiInv, ApiTypeOK, AccountsAreCurrent, Has, TokensAge, RequestsAge,
              RequestInOrder, SecretsAge, Running
<1>. QED  BY <1>1, <1>2, <1>3, <1>4, <1>5, <1>6, <1>7, <1>8 DEF ApiNext

LEMMA ApiStart == ApiInit => ApiInv
<1>. SUFFICES ASSUME ApiInit PROVE ApiInv
  OBVIOUS
<1>. USE TimesAssumption, NoneAssumption
<1>1. FreeDesk \in Desk /\ FreeDesk.at = "free"
  BY DEF FreeDesk, Desk, Reply
<1>2. account \in [Admins -> Account]
  BY DEF ApiInit, Account
<1>3. age \in [Secrets -> {Never} \cup 0..LongAgo] /\ SecretsAge
  BY DEF ApiInit, SecretsAge, Running, Never, LongAgo
<1>. QED  BY <1>1, <1>2, <1>3 DEF ApiInit, ApiInv, ApiTypeOK, AccountsAreCurrent, TokensAge,
                                 RequestsAge, RequestInOrder, LongAgo, Has

(* Ages are kept in the order described above, for any number of accounts, *)
(* of requests and of restarts, and for all times.                         *)
THEOREM ApiInvariant == ApiSpec => []ApiInv
BY ApiStart, ApiStep, PTL DEF ApiSpec

(* Accounts, tokens and requests are always of their types.                *)
THEOREM ApiTypesHold == ApiSpec => []ApiTypeOK
<1>1. ApiInv => ApiTypeOK
  BY DEF ApiInv
<1>. QED  BY <1>1, ApiInvariant, PTL

(* Only the handler itself answers with OK, and only to a role that the    *)
(* operation is for; what the request knows of its age is in order.        *)
LEMMA WhoPerforms ==
    ASSUME ApiInv, [ApiNext]_apiVars, NEW d \in Desks, NEW op \in Operations,
           Performed(d, op)
    PROVE  LET old == idle[desk[d].sub][desk[d].role]
           IN  /\ desk[d].role \in Permitted(op)
               /\ old < TokenTTL + 2 * Patience
               /\ old <= age[secret[desk[d].on]]
<1>. DEFINE old == idle[desk[d].sub][desk[d].role]
<1>1. RequestInOrder(desk[d]) /\ desk[d] \in Desk /\ desk[d].at = "handler" /\ desk[d].op = op
  BY DEF ApiInv, RequestsAge, ApiTypeOK, Performed, Serving
<1>2. desk[d].sub \in Admins /\ desk[d].role \in AdminRole
      /\ old < TokenTTL + Patience + desk[d].spent /\ old <= age[secret[desk[d].on]]
  BY <1>1 DEF RequestInOrder
<1>3. desk[d].spent \in 0..Patience /\ old \in Nat
  BY <1>1, <1>2, TimesAssumption DEF Desk, ApiInv, ApiTypeOK, LongAgo
<1>4. old < TokenTTL + 2 * Patience
  BY <1>2, <1>3, TimesAssumption
<1>5. desk'[d].at = "free" /\ desk'[d].reply = "OK"
  BY DEF Performed
<1>6. ASSUME NEW e \in Desks, NEW q \in Desk, desk' = [desk EXCEPT ![e] = q]
      PROVE  e = d
  BY <1>1, <1>5, <1>6 DEF ApiInv, ApiTypeOK
<1>7. \A e \in Desks, reply \in Reply : Answer(e, reply) => e = d /\ reply = "OK"
  <2>. SUFFICES ASSUME NEW e \in Desks, NEW reply \in Reply, Answer(e, reply)
                PROVE  e = d /\ reply = "OK"
    OBVIOUS
  <2>1. e = d
    BY <1>6, FreeIsInOrder DEF Answer
  <2>. QED  BY <2>1, <1>5 DEF Answer, ApiInv, ApiTypeOK, FreeDesk
<1>8. desk[d].role \in Permitted(op)
  <2>1. ASSUME NEW e \in Desks, NEW i \in Instances, NEW a \in Admins, Login(e, i, a) PROVE FALSE
    <3>1. desk[e].at = "free" /\ desk' = [desk EXCEPT ![e] = desk'[e]]
      BY <2>1 DEF Login, Answer, ApiInv, ApiTypeOK
    <3>. QED  BY <3>1, <1>1, <1>5 DEF ApiInv, ApiTypeOK
  <2>2. ASSUME NEW e \in Desks, generateToken(e) \/ Unauthorized(e) \/ WrongPassword(e)
        PROVE  FALSE
    BY <2>2, <1>1, <1>7 DEF generateToken, Unauthorized, WrongPassword, Reply
  <2>3. ASSUME NEW e \in Desks, NEW i \in Instances, NEW o \in Operations, NEW t \in tokens,
               RequireAdmin(e, i, o, t)
        PROVE  FALSE
    <3>1. desk[e].at = "free" /\ desk' = [desk EXCEPT ![e] = desk'[e]]
      BY <2>3 DEF RequireAdmin, Answer, ApiInv, ApiTypeOK
    <3>. QED  BY <3>1, <1>1, <1>5 DEF ApiInv, ApiTypeOK
  <2>4. ASSUME NEW e \in Desks, Me(e) \/ View(e) PROVE op \in {"me", "view"}
    <3>1. \E reply \in Reply : Answer(e, reply)
      BY <2>4 DEF Me, View, Profile, Reply
    <3>. QED  BY <3>1, <2>4, <1>1, <1>7 DEF Me, View, Serving
  <2>5. ASSUME NEW e \in Desks, PatchLockerStatus(e) \/ ManualOpenLocker(e)
        PROVE  op \in {"status", "open"} /\ desk[d].role \in {"admin", "operator"}
    <3>1. PICK reply \in Reply :
             Answer(e, reply) /\ (reply = "OK" => canManage(desk[e].role))
      BY <2>5 DEF PatchLockerStatus, ManualOpenLocker, UpdateLockerStatus, OpenByHand, Reply
    <3>. QED  BY <3>1, <2>5, <1>1, <1>7 DEF PatchLockerStatus, ManualOpenLocker, Serving,
                                            canManage
  <2>6. ASSUME NEW e \in Desks, RevenueExport(e)
        PROVE  op = "export" /\ desk[d].role = "admin"
    <3>1. PICK reply \in Reply : Answer(e, reply) /\ (reply = "OK" => desk[e].role = "admin")
      BY <2>6 DEF RevenueExport, ExportRevenue, Reply
    <3>. QED  BY <3>1, <2>6, <1>1, <1>7 DEF RevenueExport, Serving
  <2>7. ASSUME NEW a \in Admins, NEW row \in Account, ChangeAccount(a, row) PROVE FALSE
    BY <2>7, <1>1, <1>5 DEF ChangeAccount
  <2>8. ASSUME NEW i \in Instances, StopInstance(i) \/ \E k \in Secrets : StartInstance(i, k)
        PROVE  FALSE
    BY <2>8, <1>1, <1>5 DEF StartInstance, StopInstance, FreeDesk
  <2>9. CASE Tick
    BY <2>9, <1>1, <1>5, <1>6, SpentLonger DEF Tick
  <2>10. CASE UNCHANGED apiVars
    BY <2>10, <1>1, <1>5 DEF apiVars
  <2>. QED  BY <1>2, <2>1, <2>2, <2>3, <2>4, <2>5, <2>6, <2>7, <2>8, <2>9, <2>10
            DEF ApiNext, Permitted, AdminRole
<1>. QED  BY <1>2, <1>4, <1>8

LEMMA WhoPerformsStep ==
    ApiInv /\ [ApiNext]_apiVars =>
       \A d \in Desks, op \in Operations :
          Performed(d, op) =>
             \E r \in Permitted(op) : /\ idle[desk[d].sub][r] < TokenTTL + 2 * Patience
                                      /\ idle[desk[d].sub][r] <= age[secret[desk[d].on]]
BY WhoPerforms

(* An operation is performed only for an account that was active with a    *)
(* role for it at most the life of a token and two requests ago.           *)
THEOREM PowerOfARoleEnds == ApiSpec => PowerEnds
<1>1. ApiInv /\ [ApiNext]_apiVars =>
         [\A d \in Desks, op \in Operations :
             Performed(d, op) =>
                \E r \in Permitted(op) :
                   idle[desk[d].sub][r] < TokenTTL + 2 * Patience]_apiVars
  BY WhoPerformsStep
<1>. QED  BY <1>1, ApiInvariant, PTL DEF ApiSpec, PowerEnds

(* Who performs an operation on an instance had a role for it since the    *)
(* secret of that instance was new, for any number of instances that run   *)
(* at one time and of secrets, in whatever order they come and go.         *)
THEOREM SecretEndsAllPower == ApiSpec => NewSecretLocksOut
<1>1. ApiInv /\ [ApiNext]_apiVars =>
         [\A d \in Desks, op \in Operations :
             Performed(d, op) =>
                \E r \in Permitted(op) : idle[desk[d].sub][r] <= age[secret[desk[d].on]]]_apiVars
  BY WhoPerformsStep
<1>. QED  BY <1>1, ApiInvariant, PTL DEF ApiSpec, NewSecretLocksOut

-----------------------------------------------------------------------------
(* What is made of a customer's request *)

IntakeSpec == IntakeInit /\ [][IntakeNext]_counter

(* The request that was served last has the reply its handler gives it.    *)
IntakeInv ==
    \/ counter = NoRequest
    \/ \E q \in Selection :
          counter = [op |-> "selection", asked |-> q,
                     reply |-> Checked(q, RequestedSize(q.size, q.dims))]
    \/ \E q \in Booking :
          counter = [op |-> "booking", asked |-> q,
                     reply |-> Checked(q, normalizePhone(q.phone))]
    \/ \E q \in Check :
          counter = [op |-> "check", asked |-> q,
                     reply |-> Checked(q, EnteredCode(q.accessCode))]

LEMMA IntakeStep == IntakeInv /\ [IntakeNext]_counter => IntakeInv'
<1>. SUFFICES ASSUME IntakeInv, [IntakeNext]_counter PROVE IntakeInv'
  OBVIOUS
<1>1. CASE Request
  BY <1>1 DEF Request, IntakeInv, CreateCellSelection, CreateBooking, CheckAccessCode, Served
<1>2. CASE NextCustomer
  BY <1>2 DEF NextCustomer, IntakeInv
<1>3. CASE UNCHANGED counter
  BY <1>3 DEF IntakeInv
<1>. QED  BY <1>1, <1>2, <1>3 DEF IntakeNext

(* Whatever was typed, the answer is the one the checks give for it. *)
THEOREM IntakeInvariant == IntakeSpec => []IntakeInv
<1>1. IntakeInit => IntakeInv
  BY DEF IntakeInit, IntakeInv
<1>. QED  BY <1>1, IntakeStep, PTL DEF IntakeSpec

(* The size computed from three sides is the smallest one with room for    *)
(* the longest of them, whatever the sides are.                            *)
LEMMA SizeIsSmallest ==
    ASSUME NEW box, box.length \in Int, box.width \in Int, box.height \in Int,
           box.length > 0, box.width > 0, box.height > 0
    PROVE  LET size == sizeFromDimensions(box.length, box.width, box.height)
           IN  /\ size = "none" => \A z \in DOMAIN Limit : ~Fits(box, z)
               /\ size # "none" =>
                     /\ size \in DOMAIN Limit
                     /\ Fits(box, size)
                     /\ \A z \in DOMAIN Limit : Fits(box, z) => Limit[size] <= Limit[z]
<1>. DEFINE size == sizeFromDimensions(box.length, box.width, box.height)
            wider == IF box.width > box.length THEN box.width ELSE box.length
            maxD == IF box.height > wider THEN box.height ELSE wider
<1>1. /\ DOMAIN Limit = {"s", "m", "l", "xl"}
      /\ Limit["s"] = 250 /\ Limit["m"] = 450 /\ Limit["l"] = 650 /\ Limit["xl"] = 900
  BY DEF Limit
<1>2. maxD \in Int /\ \A n \in Int : maxD <= n <=> /\ box.length <= n /\ box.width <= n
                                                   /\ box.height <= n
  OBVIOUS
<1>3. \A z \in DOMAIN Limit : Fits(box, z) <=> maxD <= Limit[z]
  BY <1>1, <1>2 DEF Fits
<1>4. size = IF maxD <= 250 THEN "s" ELSE IF maxD <= 450 THEN "m"
             ELSE IF maxD <= 650 THEN "l" ELSE IF maxD <= 900 THEN "xl" ELSE "none"
  BY DEF sizeFromDimensions
<1>. HIDE DEF maxD, size
<1>5. /\ maxD <= 250 => size = "s"
      /\ ~(maxD <= 250) /\ maxD <= 450 => size = "m"
      /\ ~(maxD <= 450) /\ maxD <= 650 => size = "l"
      /\ ~(maxD <= 650) /\ maxD <= 900 => size = "xl"
      /\ ~(maxD <= 900) => size = "none"
  BY <1>2, <1>4
<1>6. size = "none" => \A z \in DOMAIN Limit : ~Fits(box, z)
  BY <1>1, <1>2, <1>3, <1>5
<1>7. size # "none" => size \in DOMAIN Limit /\ Fits(box, size)
  BY <1>1, <1>2, <1>3, <1>5
<1>8. size # "none" => \A z \in DOMAIN Limit : Fits(box, z) => Limit[size] <= Limit[z]
  BY <1>1, <1>2, <1>3, <1>5
<1>. QED  BY <1>6, <1>7, <1>8 DEF size

LEMMA MeasuredThing ==
    ASSUME NEW box \in Box, box # Missing
    PROVE  LET reply == RequestedSize("omitted", box)
           IN  /\ reply.code = "OK" =>
                     /\ reply.value \in DOMAIN Limit
                     /\ Fits(box, reply.value)
                     /\ \A z \in DOMAIN Limit : Fits(box, z) => Limit[reply.value] <= Limit[z]
               /\ reply.code = "INVALID_DIMENSIONS" =>
                     box.unit = "in" \/ \A z \in DOMAIN Limit : ~Fits(box, z)
<1>. DEFINE size == sizeFromDimensions(box.length, box.width, box.height)
            reply == RequestedSize("omitted", box)
<1>1. /\ box.unit \in {"omitted", "cm", "in"}
      /\ box.length \in Int /\ box.width \in Int /\ box.height \in Int
  BY LengthsAssumption DEF Box
<1>2. reply = IF \/ box.length <= 0 \/ box.width <= 0 \/ box.height <= 0
                 \/ box.unit \notin {"omitted", "cm"}
                 \/ size = "none"
              THEN Refuse("INVALID_DIMENSIONS") ELSE Accept(size)
  BY DEF RequestedSize
<1>. HIDE DEF size
<1>3. reply.code = "OK" =>
         /\ reply.value = size /\ size # "none"
         /\ ~(box.length <= 0) /\ ~(box.width <= 0) /\ ~(box.height <= 0)
  BY <1>2 DEF Accept, Refuse
<1>4. reply.code = "INVALID_DIMENSIONS" =>
         \/ box.length <= 0 \/ box.width <= 0 \/ box.height <= 0
         \/ box.unit = "in" \/ size = "none"
  BY <1>1, <1>2 DEF Accept, Refuse
<1>. HIDE DEF reply
<1>5. CASE box.length <= 0 \/ box.width <= 0 \/ box.height <= 0
  <2>1. \A z \in DOMAIN Limit : ~Fits(box, z)
    BY <1>1, <1>5 DEF Fits
  <2>. QED  BY <1>3, <1>5, <2>1 DEF reply
<1>6. CASE box.length > 0 /\ box.width > 0 /\ box.height > 0
  <2>1. /\ size = "none" => \A z \in DOMAIN Limit : ~Fits(box, z)
        /\ size # "none" =>
              /\ size \in DOMAIN Limit
              /\ Fits(box, size)
              /\ \A z \in DOMAIN Limit : Fits(box, z) => Limit[size] <= Limit[z]
    BY <1>1, <1>6, SizeIsSmallest DEF size
  <2>2. reply.code = "INVALID_DIMENSIONS" => box.unit = "in" \/ size = "none"
    BY <1>1, <1>4, <1>6
  <2>3. /\ reply.code = "OK" =>
              /\ reply.value \in DOMAIN Limit
              /\ Fits(box, reply.value)
              /\ \A z \in DOMAIN Limit : Fits(box, z) => Limit[reply.value] <= Limit[z]
        /\ reply.code = "INVALID_DIMENSIONS" =>
              box.unit = "in" \/ \A z \in DOMAIN Limit : ~Fits(box, z)
    BY <1>3, <2>1, <2>2
  <2>. QED  BY <2>3 DEF reply
<1>. QED  BY <1>1, <1>5, <1>6

LEMMA NamedSize ==
    ASSUME NEW size \in {"omitted", "m", "huge"}, NEW dims, size # "omitted" \/ dims = Missing
    PROVE  LET reply == RequestedSize(size, dims)
           IN  /\ reply.code = "OK" => size # "omitted" /\ reply.value \in DOMAIN Limit
               /\ reply.code # "INVALID_DIMENSIONS"
<1>1. RequestedSize(size, dims) = IF size = "m" THEN Accept(size) ELSE Refuse("INVALID_SIZE")
  BY DEF RequestedSize, validSize
<1>. QED  BY <1>1 DEF Accept, Refuse, Limit

(* Cells are chosen for the thing the customer measured, for sides of any  *)
(* length.                                                                 *)
THEOREM SelectionsFit == IntakeSpec => []SmallestThatFits
<1>1. IntakeInv => SmallestThatFits
  <2>. SUFFICES ASSUME IntakeInv, counter.op = "selection" PROVE SmallestThatFits
    BY DEF SmallestThatFits
  <2>1. PICK q \in Selection :
           counter = [op |-> "selection", asked |-> q,
                      reply |-> Checked(q, RequestedSize(q.size, q.dims))]
    BY DEF IntakeInv, NoRequest
  <2>2. q.size \in {"omitted", "m", "huge"} /\ q.dims \in Box \cup {Missing}
    BY DEF Selection
  <2>3. /\ counter.asked = q
        /\ counter.reply.code \in {"OK", "INVALID_DIMENSIONS"} =>
              counter.reply = RequestedSize(q.size, q.dims)
    BY <2>1 DEF Checked, Refuse
  <2>4. CASE q.size # "omitted" \/ q.dims = Missing
    BY <2>2, <2>3, <2>4, NamedSize DEF SmallestThatFits
  <2>5. CASE q.size = "omitted" /\ q.dims # Missing
    BY <2>2, <2>3, <2>5, MeasuredThing DEF SmallestThatFits
  <2>. QED  BY <2>4, <2>5
<1>. QED  BY <1>1, IntakeInvariant, PTL

(* Two spellings are one customer exactly if they are one number.          *)
THEOREM PhonesAreOneNumber == IntakeSpec => []PhonesKeepApart
<1>1. IntakeInv => PhonesKeepApart
  <2>. SUFFICES ASSUME IntakeInv, counter.op = "booking", counter.reply.code = "OK",
                       NEW q \in Typed, normalizePhone(q).code = "OK"
                PROVE  normalizePhone(q).value = counter.reply.value
                       <=> q.rest = counter.asked.phone.rest
    BY DEF PhonesKeepApart
  <2>1. PICK b \in Booking :
           counter = [op |-> "booking", asked |-> b,
                      reply |-> Checked(b, normalizePhone(b.phone))]
    BY DEF IntakeInv, NoRequest
  <2>2. counter.reply = normalizePhone(b.phone)
    BY <2>1 DEF Checked, Refuse
  <2>3. \A p : normalizePhone(p).code = "OK" =>
               normalizePhone(p).value = [first |-> 7, rest |-> p.rest]
    BY DEF normalizePhone, Accept, Refuse
  <2>4. /\ normalizePhone(q).value = [first |-> 7, rest |-> q.rest]
        /\ counter.reply.value = [first |-> 7, rest |-> b.phone.rest]
    BY <2>2, <2>3
  <2>5. [first |-> 7, rest |-> q.rest] = [first |-> 7, rest |-> b.phone.rest]
        <=> q.rest = b.phone.rest
    <3>1. [first |-> 7, rest |-> q.rest].rest = q.rest
          /\ [first |-> 7, rest |-> b.phone.rest].rest = b.phone.rest
      OBVIOUS
    <3>. QED  BY <3>1
  <2>. QED  BY <2>1, <2>4, <2>5
<1>. QED  BY <1>1, IntakeInvariant, PTL
=============================================================================
