--------------------------- MODULE AccountsProofs ---------------------------
(***************************************************************************)
(* Proofs about Accounts, for every number of users, of requests served at *)
(* the same time, of tokens and of passwords, and for every choice of the  *)
(* kinds of request that arrive.                                           *)
(***************************************************************************)
EXTENDS Accounts, FiniteSetTheorems, SequenceTheorems, TLAPS

Removals == {"demote", "deactivate", "delete"}

\* What a request knows about its own arguments at each of its steps.
Knows(r) ==
  /\ r.token \in 0..Len(tokens)
  /\ r.pc \in {"owner", "rotate"} => r.token # 0
  /\ r.pc = "insert" => r.op \in Roles
  /\ r.pc = "count" => r.op \in Removals
  /\ r.pc = "write" => r.op \in Changes \cup {"deactivate", "activate", "delete", "unlock"}
  /\ r.pc \in {"change", "reset"} => r.op # "refresh"
  /\ r.pc \in {"rehash", "welcome"} => r.token = 0

RequestOK == \A p \in Proc : Knows(req[p])

Typed == TypeOK /\ RequestOK

-----------------------------------------------------------------------------
(***************************************************************************)
(* The requests that arrive, and what a step leaves of the others          *)
(***************************************************************************)

Arrives(p) ==
  \/ \E u \in User, right \in BOOLEAN : LoginRead(p, u, right)
  \/ \E t \in 1..MaxTokens : RefreshRead(p, t)
  \/ \E u \in User : changePassword(p, u) \/ resetUserPassword(p, u)
  \/ \E u \in User, role \in Roles : create(p, u, role)
  \/ \E u \in User, op \in Kinds : AskUser(p, u, op)
  \/ \E u \in User : activate(p, u) \/ unlockUser(p, u)

\* What has been looked at when a request begins.
Looked(r) ==
  \/ r.pc = "fail"
  \/ r.pc \in {"rehash", "welcome"} /\ SignedIn(r.user) /\ r.password = users[r.user].password
  \/ r.pc \in {"change", "reset"} /\ r.op # "refresh"
  \/ r.pc = "insert" /\ r.op \in Roles
  \/ r.pc = "count" /\ r.op \in Removals
  \/ /\ r.pc = "write"
     /\ r.op \in Changes \cup {"deactivate", "activate", "delete", "unlock"}
     /\ r.op \in Removals => Admins # {} /\ users[r.user].role # "ADMIN"

\* A request as it begins: one that presents a token, or another one.
Entering(r) ==
  /\ r \in Request
  /\ ~r.late
  /\ \/ r.token = 0 /\ Looked(r)
     \/ /\ r.token \in DOMAIN tokens
        /\ r.user = tokens[r.token].user
        /\ r.op = "refresh"
        /\ r.pc \in {"owner", "revokeAll"}
        /\ r.pc = "owner" => tokens[r.token].state = "live"

LEMMA AskFields ==
  ASSUME NEW pc, NEW op, NEW u, NEW t, NEW pw, NEW n
  PROVE  LET r == Ask(pc, op, u, t, pw, n) IN
         /\ r.pc = pc /\ r.op = op /\ r.user = u /\ r.token = t /\ r.password = pw /\ ~r.late
         /\ pc \in Steps /\ op \in {"-"} \cup Kinds \cup Roles /\ u \in User /\ t \in 0..MaxTokens
            /\ pw \in 0..MaxPasswords /\ n \in 0..MaxAttempts => r \in Request
BY DEF Ask, Request

LEMMA IdleType == Idle \in Request /\ Idle.pc = "idle" /\ Idle.token = 0
BY AskFields, AccountsAssumption DEF Idle, Steps

\* The fields of the rows and of the requests of a well-typed state.
LEMMA Fields ==
  ASSUME TypeOK
  PROVE  /\ \A p \in Proc : /\ req[p] \in Request /\ req[p].user \in User
                            /\ req[p].token \in 0..MaxTokens /\ req[p].late \in BOOLEAN
                            /\ req[p].password \in 0..MaxPasswords
         /\ \A u \in User : /\ users[u] \in Account /\ users[u].password \in 0..MaxPasswords
                            /\ users[u].attempts \in 0..MaxAttempts
         /\ Len(tokens) \in 0..MaxTokens /\ DOMAIN tokens = 1..Len(tokens)
         /\ \A t \in DOMAIN tokens : /\ tokens[t] \in Token /\ tokens[t].user \in User
                                     /\ tokens[t].session \in 1..MaxTokens
                                     /\ tokens[t].password \in 0..MaxPasswords
                                     /\ tokens[t].late \in BOOLEAN
<1>1. Len(tokens) \in Nat /\ tokens \in [1..Len(tokens) -> Token] /\ DOMAIN tokens = 1..Len(tokens)
  BY LenProperties DEF TypeOK
<1>2. \A t \in DOMAIN tokens : tokens[t] \in Token
  BY <1>1
<1>3. Len(tokens) \in 0..MaxTokens
  BY <1>1, AccountsAssumption DEF TypeOK
<1>4. QED
  BY <1>1, <1>2, <1>3 DEF TypeOK, Request, Account, Token

\* Every request begins with Begin and has looked at what it needs.
LEMMA Arrival ==
  ASSUME TypeOK, NEW p \in Proc, Arrives(p)
  PROVE  \E kind, r : /\ Begin(p, kind, r)
                      /\ Entering(r)
                      /\ UNCHANGED <<tables, served, history>>
<1> USE AccountsAssumption
<1>1. 0 \in 0..MaxTokens /\ 0 \in 0..MaxPasswords /\ 0 \in 0..MaxAttempts
  OBVIOUS
<1>2. ASSUME NEW u \in User, NEW right \in BOOLEAN, LoginRead(p, u, right)
      PROVE  \E kind, r : Begin(p, kind, r) /\ Entering(r) /\ UNCHANGED <<tables, served, history>>
  BY <1>1, <1>2, AskFields, Fields DEF LoginRead, Entering, Looked, Steps, Kinds
<1>3. ASSUME NEW t \in 1..MaxTokens, RefreshRead(p, t)
      PROVE  \E kind, r : Begin(p, kind, r) /\ Entering(r) /\ UNCHANGED <<tables, served, history>>
  <2>1. tokens[t].state # "revoked" => tokens[t].state = "live"
    BY <1>3, Fields DEF RefreshRead, Token
  <2>2. QED
    BY <1>1, <1>3, <2>1, AskFields, Fields, SMTT(30) DEF RefreshRead, Entering, Steps, Kinds
<1>4. ASSUME NEW u \in User, changePassword(p, u) \/ resetUserPassword(p, u)
      PROVE  \E kind, r : Begin(p, kind, r) /\ Entering(r) /\ UNCHANGED <<tables, served, history>>
  BY <1>1, <1>4, AskFields DEF changePassword, resetUserPassword, Entering, Looked, Steps, Kinds
<1>5. ASSUME NEW u \in User, NEW role \in Roles, create(p, u, role)
      PROVE  \E kind, r : Begin(p, kind, r) /\ Entering(r) /\ UNCHANGED <<tables, served, history>>
  BY <1>1, <1>5, AskFields DEF create, Entering, Looked, Steps, Roles
<1>6. ASSUME NEW u \in User, NEW op \in Kinds, AskUser(p, u, op)
      PROVE  \E kind, r : Begin(p, kind, r) /\ Entering(r) /\ UNCHANGED <<tables, served, history>>
  BY <1>1, <1>6, AskFields DEF AskUser, AdminSignedIn, Entering, Looked, Removals, Steps, Kinds, Changes
<1>7. ASSUME NEW u \in User, activate(p, u) \/ unlockUser(p, u)
      PROVE  \E kind, r : Begin(p, kind, r) /\ Entering(r) /\ UNCHANGED <<tables, served, history>>
  BY <1>1, <1>7, AskFields DEF activate, unlockUser, Entering, Looked, Removals, Steps, Kinds
<1>8. QED
  BY <1>2, <1>3, <1>4, <1>5, <1>6, <1>7 DEF Arrives

\* The steps of a request under way.
Continues(p) ==
  \/ LoginFail(p) \/ LoginRehash(p) \/ LoginWelcome(p) \/ IssueToken(p)
  \/ RefreshOwner(p) \/ RefreshRotate(p)
  \/ NewPassword(p) \/ RevokeAll(p)
  \/ InsertUser(p) \/ CountAdmins(p) \/ UserWrite(p) \/ PasswordWrite(p)
  \/ Crash(p)

\* What happens without a request.
Aside ==
  \/ \E t \in 1..MaxTokens : Expire(t) \/ logout(t)
  \/ \E u \in User : LockExpires(u)
  \/ unlockUsers
  \/ \E isActive \in BOOLEAN : updateTenantStatus(isActive)

LEMMA Steps3 == Next <=> (\E p \in Proc : Arrives(p) \/ Continues(p)) \/ Aside
BY DEF Next, Login, Refresh, Password, Administration, Arrives, Continues, Aside

\* What the step of a request leaves of another one: at most it makes it late.
Onlooker(q) ==
  /\ req'[q].pc = req[q].pc
  /\ req'[q].op = req[q].op
  /\ req'[q].user = req[q].user
  /\ req'[q].token = req[q].token
  /\ req'[q].password = req[q].password
  /\ req'[q].attempts = req[q].attempts
  /\ req'[q].late \in BOOLEAN
  /\ req[q].late => req'[q].late

LEMMA OvertakesOthers ==
  ASSUME TypeOK, NEW p \in Proc, NEW r, NEW U, Overtakes(p, r, U)
  PROVE  /\ req'[p] = r
         /\ \A q \in Proc \ {p} :
              /\ Onlooker(q)
              /\ req[q].pc # "idle" /\ req[q].user \in U => req'[q].late
<1>1. req'[p] = r
  BY DEF Overtakes
<1>2. ASSUME NEW q \in Proc \ {p}
      PROVE  Onlooker(q) /\ (req[q].pc # "idle" /\ req[q].user \in U => req'[q].late)
  <2>1. req'[q] = [req[q] EXCEPT !.late = @ \/ (req[q].pc # "idle" /\ req[q].user \in U)]
    BY <1>2 DEF Overtakes
  <2>2. req[q] \in Request /\ req[q].late \in BOOLEAN
    BY Fields
  <2>3. QED
    BY <2>1, <2>2 DEF Onlooker, Request
<1>3. QED
  BY <1>1, <1>2

LEMMA SlotOthers ==
  ASSUME TypeOK, NEW p \in Proc, NEW r, req' = [req EXCEPT ![p] = r]
  PROVE  req'[p] = r /\ \A q \in Proc \ {p} : req'[q] = req[q] /\ Onlooker(q)
BY Fields DEF Onlooker, TypeOK

LEMMA GotoOthers ==
  ASSUME TypeOK, NEW p \in Proc, NEW pc, Goto(p, pc)
  PROVE  /\ req'[p] = [req[p] EXCEPT !.pc = pc]
         /\ req'[p].pc = pc /\ req'[p].op = req[p].op /\ req'[p].user = req[p].user
         /\ req'[p].token = req[p].token /\ req'[p].password = req[p].password
         /\ req'[p].late = req[p].late
         /\ \A q \in Proc \ {p} : req'[q] = req[q] /\ Onlooker(q)
BY Fields DEF Goto, Onlooker, TypeOK, Request

LEMMA EndsOthers ==
  ASSUME TypeOK, NEW p \in Proc, Ends(p)
  PROVE  req'[p] = Idle /\ \A q \in Proc \ {p} : req'[q] = req[q] /\ Onlooker(q)
BY SlotOthers DEF Ends

-----------------------------------------------------------------------------
(***************************************************************************)
(* Type correctness                                                        *)
(***************************************************************************)

LEMMA SlotType ==
  ASSUME TypeOK, NEW p \in Proc, NEW r \in Request, req' = [req EXCEPT ![p] = r]
  PROVE  req' \in [Proc -> Request]
BY DEF TypeOK

LEMMA GotoType ==
  ASSUME TypeOK, NEW p \in Proc, NEW pc \in Steps, Goto(p, pc)
  PROVE  req' \in [Proc -> Request]
BY DEF TypeOK, Goto, Request

LEMMA EndsType ==
  ASSUME TypeOK, NEW p \in Proc, Ends(p)
  PROVE  req' \in [Proc -> Request]
BY IdleType, SlotType DEF Ends

LEMMA OvertakesType ==
  ASSUME TypeOK, NEW p \in Proc, NEW r \in Request, NEW U, Overtakes(p, r, U)
  PROVE  req' \in [Proc -> Request]
<1>1. \A q \in Proc : req[q] \in Request /\ req[q].late \in BOOLEAN
  BY Fields
<1>2. \A q \in Proc : [req[q] EXCEPT !.late = @ \/ (req[q].pc # "idle" /\ req[q].user \in U)] \in Request
  BY <1>1 DEF Request
<1>3. QED
  BY <1>2 DEF Overtakes

\* A row that is rewritten is a row.
LEMMA RowType ==
  ASSUME TypeOK, NEW u \in User, NEW a \in Account, users' = [users EXCEPT ![u] = a]
  PROVE  users' \in [User -> Account]
BY DEF TypeOK

LEMMA UpdatedType ==
  ASSUME NEW a \in Account, NEW op \in Changes \cup {"deactivate", "activate", "delete", "unlock"},
         op # "password"
  PROVE  Updated(a, op) \in Account
<1> USE AccountsAssumption
<1>1. 0 \in 0..MaxAttempts /\ {"ADMIN", "OTHER"} = Roles
  BY DEF Roles
<1>2. CASE op \in {"demote", "promote"}
  BY <1>1, <1>2 DEF Updated, Account
<1>3. CASE op \in {"off", "deactivate", "on", "activate"}
  BY <1>3 DEF Updated, Account
<1>4. CASE op \in {"delete", "unlock"}
  BY <1>1, <1>4 DEF Updated, Account
<1>5. QED
  BY <1>2, <1>3, <1>4 DEF Changes

\* Tokens whose state is rewritten are tokens, as many as before.
LEMMA TokensType ==
  ASSUME TypeOK, NEW f, DOMAIN f = DOMAIN tokens, f = [t \in DOMAIN tokens |-> f[t]],
         \A t \in DOMAIN tokens : f[t] \in Token
  PROVE  f \in Seq(Token) /\ Len(f) = Len(tokens)
<1>1. Len(tokens) \in Nat /\ DOMAIN tokens = 1..Len(tokens)
  BY Fields
<1>2. f \in [1..Len(tokens) -> Token]
  BY <1>1
<1>3. f \in Seq(Token)
  BY <1>1, <1>2, SeqDef
<1>4. Len(f) \in Nat /\ DOMAIN f = 1..Len(f)
  BY <1>3, LenProperties
<1>5. QED
  BY <1>1, <1>3, <1>4

\* One token whose state is rewritten.
LEMMA TokenStateType ==
  ASSUME TypeOK, NEW t \in DOMAIN tokens, NEW state \in {"live", "revoked", "expired"},
         tokens' = [tokens EXCEPT ![t].state = state]
  PROVE  tokens' \in Seq(Token) /\ Len(tokens') = Len(tokens)
<1>1. \A s \in DOMAIN tokens : tokens'[s] \in Token
  BY Fields DEF Token
<1>2. QED
  BY <1>1, TokensType

LEMMA VacantType == Vacant \in Account
BY AccountsAssumption DEF Vacant, Account, Roles

LEMMA TypeInit == Init => Typed
<1> SUFFICES ASSUME Init PROVE Typed
  OBVIOUS
<1> USE AccountsAssumption
<1>1. Vacant \in Account
  BY VacantType
<1>2. users \in [User -> Account]
  BY <1>1 DEF Init, Account, Roles
<1>3. req \in [Proc -> Request]
  BY IdleType DEF Init
<1>4. tokens \in Seq(Token) /\ Len(tokens) = 0
  BY EmptySeq DEF Init
<1>5. RequestOK
  BY <1>4 DEF Init, RequestOK, Knows, Idle, Ask
<1>6. unrevoked \subseteq User /\ lapsed \subseteq User /\ forked \subseteq 1..MaxTokens
  BY Zenon DEF Init
<1>7. tenantActive \in BOOLEAN /\ miscounted \in BOOLEAN /\ served \in Serves
  BY Zenon DEF Init
<1>8. passwords \in 0..MaxPasswords
  BY DEF Init
<1>9. QED
  BY <1>2, <1>3, <1>4, <1>5, <1>6, <1>7, <1>8 DEF Typed, TypeOK

\* The tables keep their types.
LEMMA TablesStep ==
  ASSUME TypeOK, RequestOK, NEW p \in Proc, Continues(p)
  PROVE  /\ users' \in [User -> Account]
         /\ tokens' \in Seq(Token) /\ Len(tokens') <= MaxTokens /\ Len(tokens) <= Len(tokens')
         /\ tenantActive' \in BOOLEAN
         /\ served' = served
<1> USE AccountsAssumption
<1>1. /\ Len(tokens) \in 0..MaxTokens /\ tokens \in Seq(Token) /\ users \in [User -> Account]
      /\ tenantActive \in BOOLEAN
  BY Fields DEF TypeOK
<1>2. req[p].user \in User /\ users[req[p].user] \in Account /\ req[p].password \in 0..MaxPasswords
  BY Fields
<1>3. CASE LoginFail(p)
  <2> DEFINE a == [users[req[p].user] EXCEPT !.attempts = @ + 1, !.locked = req[p].attempts >= 4]
  <2>1. users[req[p].user].attempts + 1 \in 0..MaxAttempts
    BY <1>2, <1>3, Fields DEF LoginFail
  <2>2. a \in Account
    <3>1. (req[p].attempts >= 4) \in BOOLEAN
      OBVIOUS
    <3>2. QED
      BY <1>2, <2>1, <3>1 DEF Account
  <2>3. users' = [users EXCEPT ![req[p].user] = a]
    BY <1>1, <1>2, <1>3 DEF LoginFail
  <2> HIDE DEF a
  <2>4. users' \in [User -> Account]
    BY <1>2, <2>2, <2>3, RowType
  <2>5. QED
    BY <1>1, <1>3, <2>4 DEF LoginFail
<1>4. CASE LoginRehash(p)
  <2>1. users' \in [User -> Account]
    BY <1>1, <1>2, <1>4 DEF LoginRehash, Account
  <2>2. QED
    BY <1>1, <1>4, <2>1 DEF LoginRehash
<1>5. CASE LoginWelcome(p)
  <2> DEFINE a == [users[req[p].user] EXCEPT !.attempts = 0, !.locked = FALSE]
  <2>1. a \in Account
    <3>1. 0 \in 0..MaxAttempts
      OBVIOUS
    <3>2. QED
      BY <1>2, <3>1 DEF Account
  <2>2. users' = [users EXCEPT ![req[p].user] = a]
    BY <1>1, <1>2, <1>5 DEF LoginWelcome
  <2> HIDE DEF a
  <2>3. users' \in [User -> Account]
    BY <1>2, <2>1, <2>2, RowType
  <2>4. QED
    BY <1>1, <1>5, <2>3 DEF LoginWelcome
<1>6. CASE IssueToken(p)
  <2>1. PICK tok : tokens' = Append(tokens, tok) /\ tok \in Token
    <3>1. CASE req[p].token = 0
      <4> DEFINE tok == [user |-> req[p].user, session |-> Len(tokens) + 1, state |-> "live",
                         password |-> req[p].password, late |-> req[p].late]
      <4>1. Len(tokens) + 1 \in 1..MaxTokens /\ req[p].late \in BOOLEAN
        BY <1>1, <1>6, Fields DEF IssueToken
      <4>2. tok \in Token
        BY <1>2, <4>1 DEF Token
      <4>3. tokens' = Append(tokens, tok)
        BY <1>6, <3>1 DEF IssueToken
      <4>4. QED
        BY <4>2, <4>3
    <3>2. CASE req[p].token # 0
      <4>1. req[p].token \in DOMAIN tokens
        BY <1>1, <3>2, Fields DEF RequestOK, Knows
      <4>2. tokens[req[p].token] \in Token
        BY <4>1, Fields
      <4>3. [tokens[req[p].token] EXCEPT !.state = "live", !.late = @ \/ req[p].late] \in Token
        BY <4>2, Fields DEF Token
      <4>4. QED
        BY <1>6, <3>2, <4>3 DEF IssueToken
    <3>3. QED
      BY <3>1, <3>2
  <2>2. tokens' \in Seq(Token) /\ Len(tokens') = Len(tokens) + 1
    BY <1>1, <2>1
  <2>3. QED
    BY <1>1, <1>6, <2>2 DEF IssueToken
<1>7. CASE RefreshRotate(p)
  <2>1. req[p].token \in DOMAIN tokens
    BY <1>1, <1>7, Fields DEF RefreshRotate, RequestOK, Knows
  <2>2. tokens[req[p].token].state \in {"live", "revoked", "expired"}
    BY <2>1, Fields DEF Token
  <2>3. tokens' \in Seq(Token) /\ Len(tokens') = Len(tokens)
    BY <1>7, <2>1, <2>2, TokenStateType DEF RefreshRotate
  <2>4. QED
    BY <1>1, <1>7, <2>3 DEF RefreshRotate
<1>8. CASE NewPassword(p)
  <2>1. passwords + 1 \in 0..MaxPasswords
    BY <1>8 DEF NewPassword, TypeOK
  <2>2. users' \in [User -> Account]
    BY <1>1, <1>2, <1>8, <2>1 DEF NewPassword, Account
  <2>3. QED
    BY <1>1, <1>8, <2>2 DEF NewPassword
<1>9. CASE RevokeAll(p)
  <2>1. \A t \in DOMAIN tokens : Closed(req[p].user, tokens[t]) \in Token
    BY Fields DEF Closed, Token
  <2>2. tokens' \in Seq(Token) /\ Len(tokens') = Len(tokens)
    BY <1>9, <2>1, TokensType DEF RevokeAll
  <2>3. QED
    BY <1>1, <1>9, <2>2 DEF RevokeAll
<1>10. CASE InsertUser(p)
  <2>1. CASE UNCHANGED users
    BY <1>1, <1>10, <2>1 DEF InsertUser
  <2>2. CASE ~UNCHANGED users
    <3>1. passwords + 1 \in 0..MaxPasswords /\ req[p].op \in Roles
      BY <1>10, <2>2 DEF InsertUser, TypeOK, RequestOK, Knows
    <3>2. [Vacant EXCEPT !.exists = TRUE, !.isActive = TRUE, !.role = req[p].op,
                         !.password = passwords + 1] \in Account
      BY <3>1, VacantType DEF Account
    <3>3. users' \in [User -> Account]
      BY <1>2, <1>10, <2>2, <3>2, RowType DEF InsertUser
    <3>4. QED
      BY <1>1, <1>10, <3>3 DEF InsertUser
  <2>3. QED
    BY <2>1, <2>2
<1>11. CASE UserWrite(p)
  <2>1. Updated(users[req[p].user], req[p].op) \in Account
    BY <1>2, <1>11, UpdatedType DEF UserWrite, RequestOK, Knows
  <2>2. users' \in [User -> Account]
    BY <1>2, <1>11, <2>1, RowType DEF UserWrite
  <2>3. QED
    BY <1>1, <1>11, <2>2 DEF UserWrite
<1>12. CASE PasswordWrite(p)
  <2>1. passwords + 1 \in 0..MaxPasswords
    BY <1>12 DEF PasswordWrite, TypeOK
  <2>2. users' \in [User -> Account]
    BY <1>1, <1>2, <1>12, <2>1 DEF PasswordWrite, Account
  <2>3. QED
    BY <1>1, <1>12, <2>2 DEF PasswordWrite
<1>13. CASE RefreshOwner(p) \/ CountAdmins(p) \/ Crash(p)
  BY <1>1, <1>13 DEF RefreshOwner, CountAdmins, Crash, tables
<1>14. QED
  BY <1>3, <1>4, <1>5, <1>6, <1>7, <1>8, <1>9, <1>10, <1>11, <1>12, <1>13 DEF Continues

\* The requests keep their type and know their arguments.
LEMMA RequestsStep ==
  ASSUME TypeOK, RequestOK, NEW p \in Proc, Continues(p)
  PROVE  req' \in [Proc -> Request] /\ RequestOK'
<1> USE AccountsAssumption
<1>1. Len(tokens) \in Nat /\ Len(tokens') \in Nat /\ Len(tokens) <= Len(tokens')
  BY TablesStep, LenProperties DEF TypeOK
<1>2. /\ req[p] \in Request /\ Knows(req[p])
      /\ req[p].user \in User /\ req[p].token \in 0..Len(tokens)
  BY Fields DEF RequestOK, Knows
<1>3. ASSUME NEW q \in Proc, Onlooker(q) PROVE Knows(req[q])'
  BY <1>1, <1>3 DEF RequestOK, Knows, Onlooker
<1>4. ASSUME Ends(p) PROVE req' \in [Proc -> Request] /\ RequestOK'
  <2>1. Knows(req[p])'
    BY <1>1, <1>4, EndsOthers DEF Knows, Idle, Ask
  <2>2. QED
    BY <1>3, <1>4, <2>1, EndsType, EndsOthers DEF RequestOK
<1>5. ASSUME NEW pc \in Steps, Goto(p, pc), pc \in {"issue", "rotate", "write"},
             pc = "rotate" => req[p].token # 0,
             pc = "write" => req[p].op \in Removals
      PROVE  req' \in [Proc -> Request] /\ RequestOK'
  <2>1. Knows(req[p])'
    <3>1. /\ req'[p].pc = pc /\ req'[p].op = req[p].op /\ req'[p].token = req[p].token
      BY <1>5, GotoOthers
    <3>2. pc = "write" => req[p].op \in Changes \cup {"deactivate", "delete"}
      BY <1>5 DEF Removals, Changes
    <3>3. req[p].token \in 0..Len(tokens')
      BY <1>1, <1>2
    <3>4. QED
      BY <1>5, <3>1, <3>2, <3>3 DEF Knows
  <2>2. QED
    BY <1>3, <1>5, <2>1, GotoType, GotoOthers DEF RequestOK
<1>6. ASSUME NEW r \in Request, NEW U, Overtakes(p, r, U), r.token \in 0..Len(tokens),
             r.pc \in {"idle", "welcome", "revokeAll"}, r.pc = "welcome" => r.token = 0
      PROVE  req' \in [Proc -> Request] /\ RequestOK'
  <2>1. Knows(req[p])'
    BY <1>1, <1>6, OvertakesOthers DEF Knows
  <2>2. QED
    BY <1>3, <1>6, <2>1, OvertakesType, OvertakesOthers DEF RequestOK
<1>7. ASSUME NEW U, Overtakes(p, Idle, U) PROVE req' \in [Proc -> Request] /\ RequestOK'
  BY <1>1, <1>6, <1>7, IdleType
<1>8. ASSUME NEW pc \in {"welcome", "revokeAll"}, pc = "welcome" => req[p].token = 0,
             NEW U, Overtakes(p, [req[p] EXCEPT !.pc = pc], U)
      PROVE  req' \in [Proc -> Request] /\ RequestOK'
  <2>1. LET r == [req[p] EXCEPT !.pc = pc] IN
        r \in Request /\ r.token = req[p].token /\ r.pc = pc
    BY <1>2, <1>8 DEF Request, Steps
  <2>2. QED
    BY <1>2, <1>6, <1>8, <2>1
<1>9. CASE LoginFail(p) \/ IssueToken(p) \/ InsertUser(p) \/ Crash(p)
  BY <1>4, <1>9 DEF LoginFail, IssueToken, InsertUser, Crash
<1>10. CASE LoginRehash(p) \/ NewPassword(p)
  BY <1>2, <1>8, <1>10 DEF LoginRehash, NewPassword, Knows
<1>11. CASE RevokeAll(p) \/ UserWrite(p) \/ PasswordWrite(p)
  BY <1>7, <1>11 DEF RevokeAll, UserWrite, PasswordWrite
<1>12. CASE LoginWelcome(p) \/ RefreshRotate(p)
  BY <1>5, <1>12 DEF LoginWelcome, RefreshRotate, Steps
<1>13. CASE RefreshOwner(p)
  BY <1>2, <1>4, <1>5, <1>13 DEF RefreshOwner, Steps, Knows
<1>14. CASE CountAdmins(p)
  BY <1>2, <1>4, <1>5, <1>14 DEF CountAdmins, Steps, Knows
<1>15. QED
  BY <1>9, <1>10, <1>11, <1>12, <1>13, <1>14 DEF Continues

LEMMA TypeStep == Typed /\ [Next]_vars => Typed'
<1> SUFFICES ASSUME TypeOK, RequestOK, [Next]_vars PROVE TypeOK' /\ RequestOK'
  BY DEF Typed
<1> USE AccountsAssumption
<1>1. CASE UNCHANGED vars
  BY <1>1 DEF vars, tables, history, TypeOK, RequestOK, Knows
<1>2. ASSUME NEW p \in Proc, Arrives(p) PROVE TypeOK' /\ RequestOK'
  <2>1. PICK kind, r : Begin(p, kind, r) /\ Entering(r) /\ UNCHANGED <<tables, served, history>>
    BY <1>2, Arrival
  <2>2. req' = [req EXCEPT ![p] = r] /\ r \in Request
    BY <2>1 DEF Begin, Entering
  <2>3. req' \in [Proc -> Request]
    BY <2>2, SlotType
  <2>4. TypeOK'
    BY <2>1, <2>3 DEF TypeOK, tables, history
  <2>5. Knows(r)
    BY <2>1, Fields DEF Entering, Looked, Knows
  <2>6. \A q \in Proc : Knows(req'[q])
    BY <2>2, <2>5 DEF RequestOK, TypeOK
  <2>7. RequestOK'
    BY <2>1, <2>6 DEF RequestOK, Knows, tables
  <2>8. QED
    BY <2>4, <2>7
<1>3. ASSUME NEW p \in Proc, Continues(p) PROVE TypeOK' /\ RequestOK'
  <2>1. /\ users' \in [User -> Account]
        /\ tokens' \in Seq(Token) /\ Len(tokens') <= MaxTokens
        /\ tenantActive' \in BOOLEAN /\ served' \in Serves
    BY <1>3, TablesStep DEF TypeOK
  <2>2. req' \in [Proc -> Request] /\ RequestOK'
    BY <1>3, RequestsStep
  <2>3. req[p].user \in User /\ \A t \in DOMAIN tokens : tokens[t].session \in 1..MaxTokens
    BY Fields
  <2>4. passwords' \in 0..MaxPasswords
    <3>1. passwords \in 0..MaxPasswords
      BY DEF TypeOK
    <3>2. CASE NewPassword(p)
      BY <3>1, <3>2, AccountsAssumption DEF NewPassword
    <3>3. CASE InsertUser(p)
      BY <3>1, <3>3, AccountsAssumption DEF InsertUser
    <3>4. CASE PasswordWrite(p)
      BY <3>1, <3>4, AccountsAssumption DEF PasswordWrite
    <3>5. CASE passwords' = passwords
      BY <3>1, <3>5
    <3>6. \/ NewPassword(p) \/ InsertUser(p) \/ PasswordWrite(p)
          \/ passwords' = passwords
      BY <1>3
         DEF Continues, LoginFail, LoginRehash, LoginWelcome, IssueToken, RefreshOwner, RefreshRotate,
             RevokeAll, CountAdmins, UserWrite, Crash, history
    <3>7. QED
      BY <3>2, <3>3, <3>4, <3>5, <3>6
  <2>5. unrevoked' \subseteq User
    BY <1>3, <2>3 DEF TypeOK, Continues, LoginFail, LoginRehash, LoginWelcome, IssueToken,
                RefreshOwner, RefreshRotate, NewPassword, RevokeAll, InsertUser, CountAdmins,
                UserWrite, PasswordWrite, Crash, history
  <2>6. lapsed' \subseteq User
    BY <1>3, <2>3 DEF TypeOK, Continues, LoginFail, LoginRehash, LoginWelcome, IssueToken,
                RefreshOwner, RefreshRotate, NewPassword, RevokeAll, InsertUser, CountAdmins,
                UserWrite, PasswordWrite, Crash, history
  <2>7. forked' \subseteq 1..MaxTokens
    <3>1. forked \subseteq 1..MaxTokens
      BY DEF TypeOK
    <3>2. CASE RefreshRotate(p)
      <4>1. req[p].token \in DOMAIN tokens
        BY <3>2, Fields DEF RefreshRotate, RequestOK, Knows
      <4>2. tokens[req[p].token].session \in 1..MaxTokens
        BY <2>3, <4>1
      <4>3. forked' = forked \/ forked' = forked \cup {tokens[req[p].token].session}
        BY <3>2 DEF RefreshRotate
      <4>4. QED
        BY <3>1, <4>2, <4>3
    <3>3. CASE forked' = forked
      BY <3>1, <3>3
    <3>4. RefreshRotate(p) \/ forked' = forked
      BY <1>3 DEF Continues, LoginFail, LoginRehash, LoginWelcome, IssueToken, RefreshOwner,
                  NewPassword, RevokeAll, InsertUser, CountAdmins, UserWrite, PasswordWrite,
                  Crash, history
    <3>5. QED
      BY <3>2, <3>3, <3>4
  <2>8. miscounted' \in BOOLEAN
    BY <1>3 DEF TypeOK, Continues, LoginFail, LoginRehash, LoginWelcome, IssueToken, RefreshOwner,
                RefreshRotate, NewPassword, RevokeAll, InsertUser, CountAdmins, UserWrite,
                PasswordWrite, Crash, history
  <2>9. QED
    BY <2>1, <2>2, <2>4, <2>5, <2>6, <2>7, <2>8 DEF TypeOK
<1>4. ASSUME Aside PROVE TypeOK' /\ RequestOK'
  <2>1. req' = req /\ UNCHANGED <<served, passwords, unrevoked, forked, miscounted>>
    BY <1>4 DEF Aside, Expire, logout, LockExpires, unlockUsers, updateTenantStatus, history
  <2>2. lapsed' \subseteq User /\ tenantActive' \in BOOLEAN
    BY <1>4 DEF TypeOK, Aside, Expire, logout, LockExpires, unlockUsers, updateTenantStatus, history
  <2>3. tokens' \in Seq(Token) /\ Len(tokens') = Len(tokens)
    <3>1. ASSUME NEW t \in 1..MaxTokens, Expire(t) \/ logout(t)
          PROVE  tokens' \in Seq(Token) /\ Len(tokens') = Len(tokens)
      BY <3>1, TokenStateType DEF Expire, logout
    <3>2. CASE UNCHANGED tokens
      BY <3>2 DEF TypeOK
    <3>3. QED
      BY <1>4, <3>1, <3>2 DEF Aside, LockExpires, unlockUsers, updateTenantStatus
  <2>4. users' \in [User -> Account]
    <3>1. ASSUME NEW u \in User, LockExpires(u) PROVE users' \in [User -> Account]
      BY <3>1 DEF LockExpires, TypeOK, Account
    <3>2. CASE unlockUsers
      <4>1. 0 \in 0..MaxAttempts /\ \A u \in User : users[u] \in Account
        BY DEF TypeOK
      <4>2. \A u \in User : [users[u] EXCEPT !.attempts = 0, !.locked = FALSE] \in Account
        BY <4>1 DEF Account
      <4>3. QED
        BY <3>2, <4>2 DEF unlockUsers
    <3>3. CASE UNCHANGED users
      BY <3>3 DEF TypeOK
    <3>4. QED
      BY <1>4, <3>1, <3>2, <3>3 DEF Aside, Expire, logout, updateTenantStatus
  <2>5. TypeOK'
    BY <2>1, <2>2, <2>3, <2>4 DEF TypeOK
  <2>6. RequestOK'
    BY <2>1, <2>3 DEF RequestOK, Knows
  <2>7. QED
    BY <2>5, <2>6
<1>5. QED
  BY <1>1, <1>2, <1>3, <1>4, Steps3

\* Users, tokens and requests keep their shape, whatever is served.
THEOREM TypeCorrect == Spec => []TypeOK
<1>1. Typed => TypeOK
  BY DEF Typed
<1>2. QED
  BY <1>1, TypeInit, TypeStep, PTL DEF Spec

-----------------------------------------------------------------------------
(***************************************************************************)
(* Sessions.  A session is named after the token that opened it, and while *)
(* it was never forked, at most one live token or one request that is      *)
(* about to issue a token claims it.                                       *)
(***************************************************************************)

SessionsNamed ==
  \A t \in DOMAIN tokens : /\ tokens[t].session <= t
                           /\ tokens[tokens[t].session].session = tokens[t].session

Issuing == {p \in Proc : req[p].pc = "issue" /\ req[p].token # 0}
SessionOf(p) == tokens[req[p].token].session

OneClaim ==
  /\ OneTokenPerSession
  /\ \A t \in Live, p \in Issuing : SessionOf(p) = tokens[t].session => tokens[t].session \in forked
  /\ \A p, q \in Issuing : SessionOf(p) = SessionOf(q) => p = q \/ SessionOf(p) \in forked

SessionsOK == SessionsNamed /\ OneClaim

\* Tokens only lose their life; nothing else of them changes.
SameTokens ==
  /\ DOMAIN tokens' = DOMAIN tokens
  /\ \A t \in DOMAIN tokens :
       /\ tokens'[t].user = tokens[t].user
       /\ tokens'[t].session = tokens[t].session
       /\ tokens'[t].password = tokens[t].password
       /\ tokens'[t].late = tokens[t].late
       /\ tokens'[t].state = "live" => tokens[t].state = "live"

LEMMA SameTokensStep ==
  ASSUME TypeOK, RequestOK
  PROVE  /\ UNCHANGED tokens => SameTokens
         /\ Aside => SameTokens
         /\ \A p \in Proc : Arrives(p) => SameTokens
         /\ \A p \in Proc : Continues(p) => SameTokens \/ IssueToken(p)
<1>1. UNCHANGED tokens => SameTokens
  BY DEF SameTokens
<1>2. ASSUME NEW t \in DOMAIN tokens, NEW state, state = "live" => tokens[t].state = "live",
             tokens' = [tokens EXCEPT ![t].state = state]
      PROVE  SameTokens
  BY <1>2, Fields DEF SameTokens, Token
<1>3. ASSUME Aside PROVE SameTokens
  BY <1>1, <1>2, <1>3 DEF Aside, Expire, logout, LockExpires, unlockUsers, updateTenantStatus
<1>4. ASSUME NEW p \in Proc, Arrives(p) PROVE SameTokens
  BY <1>1, <1>4, Arrival DEF tables
<1>5. ASSUME NEW p \in Proc, RefreshRotate(p) PROVE SameTokens
  <2>1. req[p].token \in DOMAIN tokens
    BY <1>5, Fields DEF RefreshRotate, RequestOK, Knows
  <2> DEFINE state == IF tokens[req[p].token].state = "expired" THEN "expired" ELSE "revoked"
  <2>2. tokens' = [tokens EXCEPT ![req[p].token].state = state]
    BY <1>5, <2>1, Fields DEF RefreshRotate, Token
  <2>3. state # "live"
    OBVIOUS
  <2> HIDE DEF state
  <2>4. QED
    BY <1>2, <2>1, <2>2, <2>3
<1>6. ASSUME NEW p \in Proc, RevokeAll(p) PROVE SameTokens
  <2>1. PICK u : tokens' = [t \in DOMAIN tokens |-> Closed(u, tokens[t])]
    BY <1>6 DEF RevokeAll
  <2>2. ASSUME NEW t \in DOMAIN tokens
        PROVE  /\ tokens'[t] = tokens[t]
                  \/ tokens'[t] = [tokens[t] EXCEPT !.state = "revoked"]
               /\ tokens[t] \in Token
    BY <2>1, Fields DEF Closed
  <2>3. DOMAIN tokens' = DOMAIN tokens
    BY <2>1
  <2>4. QED
    BY <2>2, <2>3 DEF SameTokens, Token
<1>7. ASSUME NEW p \in Proc, Continues(p) PROVE SameTokens \/ IssueToken(p)
  BY <1>1, <1>5, <1>6, <1>7
     DEF Continues, LoginFail, LoginRehash, LoginWelcome, RefreshOwner, NewPassword, InsertUser,
         CountAdmins, UserWrite, PasswordWrite, Crash, tables
<1>8. QED
  BY <1>1, <1>3, <1>4, <1>7

\* What IssueToken appends.
LEMMA Issued ==
  ASSUME TypeOK, RequestOK, NEW p \in Proc, IssueToken(p)
  PROVE  LET n == Len(tokens) + 1 IN
         /\ n \in 1..MaxTokens
         /\ DOMAIN tokens = 1..Len(tokens)
         /\ DOMAIN tokens' = 1..n
         /\ \A t \in DOMAIN tokens : tokens'[t] = tokens[t]
         /\ tokens'[n].state = "live"
         /\ req[p].token = 0 => /\ tokens'[n].session = n
                                /\ tokens'[n].user = req[p].user
                                /\ tokens'[n].password = req[p].password
                                /\ tokens'[n].late = req[p].late
         /\ req[p].token # 0 => /\ req[p].token \in DOMAIN tokens
                                /\ tokens'[n].session = tokens[req[p].token].session
                                /\ tokens'[n].user = tokens[req[p].token].user
                                /\ tokens'[n].password = tokens[req[p].token].password
                                /\ tokens'[n].late = (tokens[req[p].token].late \/ req[p].late)
<1> USE AccountsAssumption
<1>1. /\ Len(tokens) \in Nat /\ tokens \in Seq(Token) /\ DOMAIN tokens = 1..Len(tokens)
      /\ Len(tokens) < MaxTokens
  BY Fields DEF TypeOK, IssueToken
<1>2. ASSUME NEW tok, tokens' = Append(tokens, tok)
      PROVE  /\ DOMAIN tokens' = 1..(Len(tokens) + 1)
             /\ \A t \in DOMAIN tokens : tokens'[t] = tokens[t]
             /\ tokens'[Len(tokens) + 1] = tok
  BY <1>1, <1>2
<1>3. CASE req[p].token = 0
  <2> DEFINE tok == [user |-> req[p].user, session |-> Len(tokens) + 1, state |-> "live",
                     password |-> req[p].password, late |-> req[p].late]
  <2>1. tokens' = Append(tokens, tok)
    BY <1>3 DEF IssueToken
  <2>2. /\ DOMAIN tokens' = 1..(Len(tokens) + 1)
        /\ \A t \in DOMAIN tokens : tokens'[t] = tokens[t]
        /\ tokens'[Len(tokens) + 1] = tok
    BY <1>2, <2>1
  <2>3. QED
    BY <1>1, <1>3, <2>2
<1>4. CASE req[p].token # 0
  <2> DEFINE tok == [tokens[req[p].token] EXCEPT !.state = "live", !.late = @ \/ req[p].late]
  <2>1. tokens' = Append(tokens, tok)
    BY <1>4 DEF IssueToken
  <2>2. /\ DOMAIN tokens' = 1..(Len(tokens) + 1)
        /\ \A t \in DOMAIN tokens : tokens'[t] = tokens[t]
        /\ tokens'[Len(tokens) + 1] = tok
    BY <1>2, <2>1
  <2>3. req[p].token \in DOMAIN tokens
    BY <1>1, <1>4, Fields DEF RequestOK, Knows
  <2>4. tokens[req[p].token] \in Token
    BY <2>3, Fields
  <2>5. /\ tok.state = "live"
        /\ tok.session = tokens[req[p].token].session
        /\ tok.user = tokens[req[p].token].user
        /\ tok.password = tokens[req[p].token].password
        /\ tok.late = (tokens[req[p].token].late \/ req[p].late)
    BY <2>4 DEF Token
  <2>6. QED
    BY <1>1, <1>4, <2>2, <2>3, <2>5
<1>5. QED
  BY <1>3, <1>4

\* A step that issues no token and takes nobody into Issuing keeps the claims.
LEMMA ClaimsKept ==
  ASSUME TypeOK, RequestOK, SessionsOK, SameTokens, forked \subseteq forked',
         \A q \in Issuing' : q \in Issuing /\ req'[q].token = req[q].token
  PROVE  SessionsOK'
<1>1. \A t \in DOMAIN tokens : tokens[t].session \in DOMAIN tokens
  BY Fields DEF SessionsOK, SessionsNamed
<1>2. SessionsNamed'
  BY <1>1 DEF SessionsOK, SessionsNamed, SameTokens
<1>3. Live' \subseteq Live /\ \A t \in Live' : tokens'[t].session = tokens[t].session
  BY DEF Live, SameTokens
<1>4. \A q \in Issuing' : q \in Issuing /\ SessionOf(q)' = SessionOf(q)
  <2>1. \A q \in Issuing : req[q].token \in DOMAIN tokens
    BY Fields DEF Issuing, RequestOK, Knows
  <2>2. QED
    BY <2>1 DEF SessionOf, SameTokens
<1>5. OneTokenPerSession'
  BY <1>3 DEF SessionsOK, OneClaim, OneTokenPerSession
<1>6. OneClaim'
  BY <1>3, <1>4, <1>5 DEF SessionsOK, OneClaim
<1>7. QED
  BY <1>2, <1>6 DEF SessionsOK

\* Only RefreshRotate takes a request to Issuing.
LEMMA IssuingStep ==
  ASSUME TypeOK, RequestOK
  PROVE  /\ \A p \in Proc :
              Arrives(p) => \A q \in Issuing' : q \in Issuing /\ req'[q].token = req[q].token
         /\ \A p \in Proc :
              Continues(p) => RefreshRotate(p) \/ \A q \in Issuing' :
                                                    /\ q \in Issuing
                                                    /\ req'[q].token = req[q].token
                                                    /\ IssueToken(p) => q # p
<1>1. ASSUME NEW p \in Proc, \A q \in Proc \ {p} : Onlooker(q),
             ~(req'[p].pc = "issue" /\ req'[p].token # 0)
      PROVE  \A q \in Issuing' : q \in Issuing /\ req'[q].token = req[q].token /\ q # p
  BY <1>1 DEF Issuing, Onlooker
<1>2. ASSUME NEW p \in Proc, Arrives(p)
      PROVE  \A q \in Issuing' : q \in Issuing /\ req'[q].token = req[q].token
  <2>1. PICK kind, r : Begin(p, kind, r) /\ Entering(r)
    BY <1>2, Arrival
  <2>2. ~(r.pc = "issue")
    BY <2>1 DEF Entering, Looked
  <2>3. QED
    BY <1>1, <2>1, <2>2, SlotOthers DEF Begin
<1>3. ASSUME NEW p \in Proc, Continues(p), ~RefreshRotate(p)
      PROVE  \A q \in Issuing' : q \in Issuing /\ req'[q].token = req[q].token /\ q # p
  <2>1. CASE Ends(p)
    BY <1>1, <2>1, EndsOthers, IdleType
  <2>2. CASE LoginWelcome(p)
    <3>1. Goto(p, "issue") /\ req[p].token = 0
      BY <2>2 DEF LoginWelcome, RequestOK, Knows
    <3>2. req'[p].token = 0 /\ \A q \in Proc \ {p} : Onlooker(q)
      BY <3>1, GotoOthers
    <3>3. QED
      BY <1>1, <3>2
  <2>3. CASE Goto(p, "rotate") \/ Goto(p, "write")
    <3>1. req'[p].pc \in {"rotate", "write"} /\ \A q \in Proc \ {p} : Onlooker(q)
      BY <2>3, GotoOthers
    <3>2. QED
      BY <1>1, <3>1
  <2>4. ASSUME NEW r, NEW U, Overtakes(p, r, U), r.pc # "issue"
        PROVE  \A q \in Issuing' : q \in Issuing /\ req'[q].token = req[q].token /\ q # p
    BY <1>1, <2>4, OvertakesOthers
  <2>5. ASSUME NEW U, Overtakes(p, Idle, U) \/ Overtakes(p, [req[p] EXCEPT !.pc = "welcome"], U)
                      \/ Overtakes(p, [req[p] EXCEPT !.pc = "revokeAll"], U)
        PROVE  \A q \in Issuing' : q \in Issuing /\ req'[q].token = req[q].token /\ q # p
    <3>1. /\ [req[p] EXCEPT !.pc = "welcome"].pc # "issue"
          /\ [req[p] EXCEPT !.pc = "revokeAll"].pc # "issue"
          /\ Idle.pc # "issue"
      BY Fields, IdleType DEF Request
    <3>2. QED
      BY <2>4, <2>5, <3>1
  <2>6. QED
    BY <1>3, <2>1, <2>2, <2>3, <2>5
       DEF Continues, LoginFail, LoginRehash, IssueToken, RefreshOwner, NewPassword, RevokeAll,
           InsertUser, CountAdmins, UserWrite, PasswordWrite, Crash
<1>4. QED
  BY <1>2, <1>3

\* A refresh passes the claim from its token to itself, or forks the session.
LEMMA RotateClaims ==
  ASSUME TypeOK, RequestOK, SessionsOK, NEW p \in Proc, RefreshRotate(p)
  PROVE  SessionsOK'
<1> DEFINE t == req[p].token
           s == tokens[t].session
<1>1. t \in DOMAIN tokens
  BY Fields DEF RefreshRotate, RequestOK, Knows
<1>2. SameTokens
  BY SameTokensStep DEF Continues, IssueToken, RefreshRotate
<1>3. \A u \in DOMAIN tokens : tokens[u].session \in DOMAIN tokens
  BY Fields DEF SessionsOK, SessionsNamed
<1>4. SessionsNamed'
  BY <1>2, <1>3 DEF SessionsOK, SessionsNamed, SameTokens
<1>5. Live' \subseteq Live \ {t} /\ \A u \in Live' : tokens'[u].session = tokens[u].session
  <2>1. tokens'[t].state # "live"
    BY <1>1, Fields DEF RefreshRotate, Token
  <2>2. QED
    BY <1>2, <2>1 DEF Live, SameTokens
<1>6. /\ SessionOf(p)' = s
      /\ \A q \in Issuing' \ {p} : q \in Issuing /\ SessionOf(q)' = SessionOf(q)
  <2>1. req'[p].token = t /\ \A q \in Proc \ {p} : req'[q] = req[q]
    BY GotoOthers DEF RefreshRotate
  <2>2. \A q \in Issuing : req[q].token \in DOMAIN tokens
    BY Fields DEF Issuing, RequestOK, Knows
  <2>3. QED
    BY <1>1, <1>2, <2>1, <2>2 DEF SessionOf, Issuing, SameTokens
<1>7. forked' = IF t \in Live THEN forked ELSE forked \cup {s}
  BY <1>1 DEF RefreshRotate, Live
<1> HIDE DEF t, s
<1>8. OneTokenPerSession'
  BY <1>5, <1>7 DEF SessionsOK, OneClaim, OneTokenPerSession
<1>9. \A u \in Live : tokens[u].session = s /\ t \in Live => u = t \/ s \in forked
  BY DEF SessionsOK, OneClaim, OneTokenPerSession, s
<1>10. \A q \in Issuing : SessionOf(q) = s /\ t \in Live => s \in forked
  BY DEF SessionsOK, OneClaim, s
<1>11. ASSUME NEW u \in Live', NEW q \in Issuing', SessionOf(q)' = tokens'[u].session
       PROVE  tokens'[u].session \in forked'
  <2>1. CASE q = p
    BY <1>5, <1>6, <1>7, <1>9, <1>11, <2>1
  <2>2. CASE q # p
    BY <1>5, <1>6, <1>7, <1>11, <2>2 DEF SessionsOK, OneClaim
  <2>3. QED
    BY <2>1, <2>2
<1>12. ASSUME NEW q1 \in Issuing', NEW q2 \in Issuing', SessionOf(q1)' = SessionOf(q2)', q1 # q2
       PROVE  SessionOf(q1)' \in forked'
  <2>1. CASE q1 = p \/ q2 = p
    BY <1>6, <1>7, <1>10, <1>12, <2>1
  <2>2. CASE q1 # p /\ q2 # p
    BY <1>6, <1>7, <1>12, <2>2 DEF SessionsOK, OneClaim
  <2>3. QED
    BY <2>1, <2>2
<1>13. QED
  BY <1>4, <1>8, <1>11, <1>12 DEF SessionsOK, OneClaim

\* A token that is issued takes the claim of its request over, or opens a session
\* that nobody knows of.
LEMMA IssueClaims ==
  ASSUME TypeOK, RequestOK, SessionsOK, NEW p \in Proc, IssueToken(p)
  PROVE  SessionsOK'
<1> DEFINE n == Len(tokens) + 1
<1>1. /\ Len(tokens) \in Nat /\ n \in Nat
      /\ DOMAIN tokens = 1..Len(tokens) /\ DOMAIN tokens' = DOMAIN tokens \cup {n}
      /\ n \notin DOMAIN tokens
  <2>1. Len(tokens) \in Nat /\ DOMAIN tokens = 1..Len(tokens) /\ DOMAIN tokens' = 1..n
    BY Issued, Fields, AccountsAssumption
  <2>2. 1..n = 1..Len(tokens) \cup {n} /\ n \notin 1..Len(tokens) /\ n \in Nat
    BY <2>1
  <2>3. QED
    BY <2>1, <2>2
<1>2. \A t \in DOMAIN tokens : tokens'[t] = tokens[t]
  BY Issued
<1>3. \A t \in DOMAIN tokens : tokens[t].session \in DOMAIN tokens /\ tokens[t].session <= t
  BY Fields DEF SessionsOK, SessionsNamed
<1>4. /\ req[p].token = 0 => tokens'[n].session = n
      /\ req[p].token # 0 => /\ p \in Issuing
                             /\ tokens'[n].session = SessionOf(p)
                             /\ SessionOf(p) \in DOMAIN tokens
                             /\ tokens[SessionOf(p)].session = SessionOf(p)
  BY <1>3, Issued DEF IssueToken, Issuing, SessionOf, SessionsOK, SessionsNamed
<1>5. SessionsNamed'
  <2>1. ASSUME NEW t \in DOMAIN tokens
        PROVE  tokens'[t].session <= t /\ tokens'[tokens'[t].session].session = tokens'[t].session
    BY <1>2, <1>3 DEF SessionsOK, SessionsNamed
  <2>2. tokens'[n].session <= n /\ tokens'[tokens'[n].session].session = tokens'[n].session
    <3>1. CASE req[p].token = 0
      BY <1>1, <1>4, <3>1
    <3>2. CASE req[p].token # 0
      BY <1>1, <1>2, <1>4, <3>2
    <3>3. QED
      BY <3>1, <3>2
  <2>3. QED
    BY <1>1, <2>1, <2>2 DEF SessionsNamed
<1>6. Live' \subseteq Live \cup {n}
  BY <1>1, <1>2 DEF Live
<1>7. /\ p \notin Issuing' /\ Issuing' \subseteq Issuing
      /\ \A q \in Issuing : req[q].token \in DOMAIN tokens
      /\ \A q \in Issuing' : SessionOf(q)' = SessionOf(q) /\ SessionOf(q) \in DOMAIN tokens
  <2>1. \A q \in Issuing : req[q].token \in DOMAIN tokens
    BY Fields DEF Issuing, RequestOK, Knows
  <2>2. \A q \in Issuing' : q \in Issuing /\ q # p /\ req'[q].token = req[q].token
    BY IssuingStep DEF Continues, RefreshRotate, IssueToken
  <2>3. QED
    BY <1>2, <1>3, <2>1, <2>2 DEF SessionOf
<1>8. \A t \in Live : tokens'[t].session = tokens[t].session /\ tokens[t].session \in DOMAIN tokens
  BY <1>2, <1>3 DEF Live
<1>9. forked' = forked
  BY DEF IssueToken, history
<1>10. \A t \in Live : tokens[t].session = tokens'[n].session => tokens[t].session \in forked
  BY <1>1, <1>4, <1>8 DEF SessionsOK, OneClaim
<1>11. \A q \in Issuing' : SessionOf(q) = tokens'[n].session => SessionOf(q) \in forked
  BY <1>1, <1>4, <1>7 DEF SessionsOK, OneClaim
<1> HIDE DEF n
<1>12. OneTokenPerSession'
  BY <1>6, <1>8, <1>9, <1>10 DEF SessionsOK, OneClaim, OneTokenPerSession
<1>13. ASSUME NEW t \in Live', NEW q \in Issuing', SessionOf(q)' = tokens'[t].session
       PROVE  tokens'[t].session \in forked'
  BY <1>6, <1>7, <1>8, <1>9, <1>11, <1>13 DEF SessionsOK, OneClaim
<1>14. ASSUME NEW q1 \in Issuing', NEW q2 \in Issuing', SessionOf(q1)' = SessionOf(q2)', q1 # q2
       PROVE  SessionOf(q1)' \in forked'
  BY <1>7, <1>9, <1>14 DEF SessionsOK, OneClaim
<1>15. QED
  BY <1>5, <1>12, <1>13, <1>14 DEF SessionsOK, OneClaim

LEMMA SessionsStep == Typed /\ SessionsOK /\ [Next]_vars => SessionsOK'
<1> SUFFICES ASSUME TypeOK, RequestOK, SessionsOK, [Next]_vars PROVE SessionsOK'
  BY DEF Typed
<1>1. CASE UNCHANGED vars
  <2>1. SameTokens /\ forked' = forked /\ req' = req
    BY <1>1, SameTokensStep DEF vars, tables, history
  <2>2. QED
    BY <2>1, ClaimsKept DEF Issuing
<1>2. CASE Aside
  <2>1. SameTokens /\ forked' = forked /\ req' = req
    BY <1>2, SameTokensStep
       DEF Aside, Expire, logout, LockExpires, unlockUsers, updateTenantStatus, history
  <2>2. QED
    BY <2>1, ClaimsKept DEF Issuing
<1>3. ASSUME NEW p \in Proc, Arrives(p) PROVE SessionsOK'
  <2>1. forked' = forked
    BY <1>3, Arrival DEF history
  <2>2. QED
    BY <1>3, <2>1, SameTokensStep, IssuingStep, ClaimsKept
<1>4. ASSUME NEW p \in Proc, Continues(p) PROVE SessionsOK'
  <2>1. CASE RefreshRotate(p)
    BY <2>1, RotateClaims
  <2>2. CASE IssueToken(p)
    BY <2>2, IssueClaims
  <2>3. CASE ~RefreshRotate(p) /\ ~IssueToken(p)
    <3>1. forked' = forked
      BY <1>4, <2>3 DEF Continues, LoginFail, LoginRehash, LoginWelcome, RefreshOwner, NewPassword,
         RevokeAll, InsertUser, CountAdmins, UserWrite, PasswordWrite, Crash, history
    <3>2. QED
      BY <1>4, <2>3, <3>1, SameTokensStep, IssuingStep, ClaimsKept
  <2>4. QED
    BY <2>1, <2>2, <2>3
<1>5. QED
  BY <1>1, <1>2, <1>3, <1>4, Steps3

LEMMA SessionsInit == Init => SessionsOK
<1> SUFFICES ASSUME Init PROVE SessionsOK
  OBVIOUS
<1>1. DOMAIN tokens = {} /\ Live = {}
  BY DEF Init, Live
<1>2. Issuing = {}
  BY IdleType DEF Init, Issuing
<1>3. QED
  BY <1>1, <1>2 DEF SessionsOK, SessionsNamed, OneClaim, OneTokenPerSession

\* A session that no two refreshes forked has one refresh token of use.
THEOREM SessionsUnforked == Spec => []OneTokenPerSession
<1>1. SessionsOK => OneTokenPerSession
  BY DEF SessionsOK, OneClaim
<1>2. QED
  BY <1>1, TypeInit, TypeStep, SessionsInit, SessionsStep, PTL DEF Spec

-----------------------------------------------------------------------------
(***************************************************************************)
(* Refresh tokens implement the ledger of sessions                         *)
(***************************************************************************)

\* A session is claimed as long as it is open.
Claimed(s) == UnderWay(s) \/ \E t \in Live : tokens[t].session = s

LEMMA PhaseIs ==
  ASSUME NEW s
  PROVE  Phase(s) = IF s \notin DOMAIN tokens \/ tokens[s].session # s THEN "unused"
                    ELSE IF Claimed(s) THEN "open" ELSE "ended"
BY DEF Phase, Claimed

Opened(s) == s \in DOMAIN tokens /\ tokens[s].session = s

\* When every session keeps its phase, nothing happens in the ledger.
LEMMA LedgerStutters ==
  ASSUME \A s \in 1..MaxTokens : (Opened(s)' <=> Opened(s)) /\ (Claimed(s)' <=> Claimed(s))
  PROVE  [Ledger!Next]_[s \in 1..MaxTokens |-> Phase(s)]
<1>1. \A s \in 1..MaxTokens : Phase(s)' = Phase(s)
  BY PhaseIs DEF Phase, Claimed, Opened
<1>2. QED
  BY <1>1

\* When sessions are only given up, they end in the ledger.
LEMMA LedgerEnds ==
  ASSUME \A s \in 1..MaxTokens : (Opened(s)' <=> Opened(s)) /\ (Claimed(s)' => Claimed(s))
  PROVE  [Ledger!Next]_[s \in 1..MaxTokens |-> Phase(s)]
<1> DEFINE S == {s \in 1..MaxTokens : Phase(s) = "open" /\ ~Claimed(s)'}
<1>1. \A s \in 1..MaxTokens : Phase(s)' = IF s \in S THEN "ended" ELSE Phase(s)
  BY DEF Phase, Claimed, Opened
<1>2. \A s \in S : s \in 1..MaxTokens /\ Phase(s) = "open"
  OBVIOUS
<1>3. S \in SUBSET (1..MaxTokens)
  OBVIOUS
<1> HIDE DEF S
<1>4. [s \in 1..MaxTokens |-> Phase(s)]'
        = [s \in 1..MaxTokens |-> IF s \in S THEN "ended" ELSE [r \in 1..MaxTokens |-> Phase(r)][s]]
  BY <1>1
<1>5. Ledger!End(S)
  BY <1>2, <1>4 DEF Ledger!End
<1>6. QED
  BY <1>3, <1>5 DEF Ledger!Next

\* When a session is opened, it opens in the ledger.
LEMMA LedgerOpens ==
  ASSUME NEW n \in 1..MaxTokens, ~Opened(n), Opened(n)', Claimed(n)',
         \A s \in 1..MaxTokens \ {n} : (Opened(s)' <=> Opened(s)) /\ (Claimed(s)' <=> Claimed(s))
  PROVE  [Ledger!Next]_[s \in 1..MaxTokens |-> Phase(s)]
<1>1. Phase(n) = "unused" /\ Phase(n)' = "open"
  BY DEF Phase, Claimed, Opened
<1>2. \A s \in 1..MaxTokens \ {n} : Phase(s)' = Phase(s)
  BY DEF Phase, Claimed, Opened
<1>3. [s \in 1..MaxTokens |-> Phase(s)]' = [[s \in 1..MaxTokens |-> Phase(s)] EXCEPT ![n] = "open"]
  BY <1>1, <1>2
<1>4. Ledger!Open(n)
  BY <1>1, <1>3 DEF Ledger!Open
<1>5. QED
  BY <1>4 DEF Ledger!Next

InRefresh == {p \in Proc : req[p].token # 0 /\ req[p].pc \in {"owner", "rotate", "issue"}}

LEMMA ClaimedIs ==
  ASSUME NEW s
  PROVE  Claimed(s) <=> \/ \E p \in InRefresh : SessionOf(p) = s
                        \/ \E t \in Live : tokens[t].session = s
BY DEF Claimed, UnderWay, InRefresh, SessionOf

\* Refreshes under way hold tokens, and one that begins holds a live one.
LEMMA InRefreshStep ==
  ASSUME TypeOK, RequestOK
  PROVE  /\ \A q \in InRefresh : req[q].token \in DOMAIN tokens
         /\ \A p \in Proc : Arrives(p) =>
              \A q \in InRefresh' : \/ q \in InRefresh /\ req'[q].token = req[q].token
                                    \/ req'[q].token \in Live
         /\ \A p \in Proc : Continues(p) =>
              \A q \in InRefresh' : /\ q \in InRefresh
                                    /\ req'[q].token = req[q].token
                                    /\ IssueToken(p) => q # p
<1>1. ASSUME NEW p \in Proc, \A q \in Proc \ {p} : Onlooker(q)
      PROVE  \A q \in InRefresh' \ {p} : q \in InRefresh /\ req'[q].token = req[q].token
  BY <1>1 DEF InRefresh, Onlooker
<1>2. ASSUME NEW p \in Proc, Arrives(p)
      PROVE  \A q \in InRefresh' : \/ q \in InRefresh /\ req'[q].token = req[q].token
                                   \/ req'[q].token \in Live
  <2>1. PICK kind, r : Begin(p, kind, r) /\ Entering(r)
    BY <1>2, Arrival
  <2>2. r.pc \in {"owner", "rotate", "issue"} /\ r.token # 0 => r.token \in Live
    BY <2>1 DEF Entering, Looked, Live
  <2>3. req'[p] = r /\ \A q \in Proc \ {p} : Onlooker(q)
    BY <2>1, SlotOthers DEF Begin
  <2>4. p \in InRefresh' => req'[p].token \in Live
    BY <2>2, <2>3 DEF InRefresh
  <2>5. QED
    BY <1>1, <2>3, <2>4
<1>3. ASSUME NEW p \in Proc, Continues(p)
      PROVE  \A q \in InRefresh' : /\ q \in InRefresh
                                   /\ req'[q].token = req[q].token
                                   /\ IssueToken(p) => q # p
  <2>1. CASE Ends(p)
    <3>1. p \notin InRefresh' /\ \A q \in Proc \ {p} : Onlooker(q)
      BY <2>1, EndsOthers, IdleType DEF InRefresh
    <3>2. QED
      BY <1>1, <3>1
  <2>2. ASSUME NEW pc, Goto(p, pc), ~IssueToken(p),
               pc = "write" \/ req[p].pc = "welcome" \/ req[p].pc \in {"owner", "rotate"}
        PROVE  \A q \in InRefresh' : /\ q \in InRefresh
                                     /\ req'[q].token = req[q].token
    <3>1. /\ req'[p].pc = pc /\ req'[p].token = req[p].token
          /\ \A q \in Proc \ {p} : Onlooker(q)
      BY <2>2, GotoOthers
    <3>2. req[p].pc = "welcome" => req[p].token = 0
      BY DEF RequestOK, Knows
    <3>3. p \in InRefresh' => p \in InRefresh /\ req'[p].token = req[p].token
      BY <2>2, <3>1, <3>2 DEF InRefresh
    <3>4. QED
      BY <1>1, <3>1, <3>3
  <2>3. ASSUME NEW r, NEW U, Overtakes(p, r, U), r.pc \in {"idle", "welcome", "revokeAll"}
        PROVE  \A q \in InRefresh' : q \in InRefresh /\ req'[q].token = req[q].token /\ q # p
    <3>1. req'[p] = r /\ \A q \in Proc \ {p} : Onlooker(q)
      BY <2>3, OvertakesOthers
    <3>2. p \notin InRefresh'
      BY <2>3, <3>1 DEF InRefresh
    <3>3. QED
      BY <1>1, <3>1, <3>2
  <2>4. /\ [req[p] EXCEPT !.pc = "welcome"].pc = "welcome"
        /\ [req[p] EXCEPT !.pc = "revokeAll"].pc = "revokeAll"
        /\ Idle.pc = "idle"
    BY Fields, IdleType DEF Request
  <2>5. CASE LoginFail(p) \/ IssueToken(p) \/ InsertUser(p) \/ Crash(p)
    <3>1. Ends(p)
      BY <2>5 DEF LoginFail, IssueToken, InsertUser, Crash
    <3>2. p \notin InRefresh'
      BY <3>1, EndsOthers, IdleType DEF InRefresh
    <3>3. QED
      BY <2>1, <3>1, <3>2
  <2>6. CASE LoginRehash(p) \/ NewPassword(p) \/ RevokeAll(p) \/ UserWrite(p) \/ PasswordWrite(p)
    BY <2>3, <2>4, <2>6 DEF LoginRehash, NewPassword, RevokeAll, UserWrite, PasswordWrite
  <2>7. CASE LoginWelcome(p) \/ RefreshRotate(p)
    BY <2>2, <2>7 DEF LoginWelcome, RefreshRotate, IssueToken
  <2>8. CASE RefreshOwner(p)
    BY <2>1, <2>2, <2>8 DEF RefreshOwner, IssueToken
  <2>9. CASE CountAdmins(p)
    BY <2>1, <2>2, <2>9 DEF CountAdmins, IssueToken
  <2>10. QED
    BY <1>3, <2>5, <2>6, <2>7, <2>8, <2>9 DEF Continues
<1>4. \A q \in InRefresh : req[q].token \in DOMAIN tokens
  BY Fields DEF InRefresh, RequestOK, Knows
<1>5. QED
  BY <1>2, <1>3, <1>4

LEMMA LedgerByIssue ==
  ASSUME TypeOK, RequestOK, SessionsOK, NEW p \in Proc, IssueToken(p)
  PROVE  [Ledger!Next]_[s \in 1..MaxTokens |-> Phase(s)]
<1>1. PICK n \in 1..MaxTokens :
        /\ DOMAIN tokens' = DOMAIN tokens \cup {n}
        /\ n \notin DOMAIN tokens
        /\ \A t \in DOMAIN tokens : tokens'[t] = tokens[t]
        /\ tokens'[n].state = "live"
        /\ req[p].token = 0 => tokens'[n].session = n
        /\ req[p].token # 0 => req[p].token \in DOMAIN tokens /\ tokens'[n].session = SessionOf(p)
  <2> DEFINE m == Len(tokens) + 1
  <2>1. Len(tokens) \in Nat /\ DOMAIN tokens = 1..Len(tokens) /\ DOMAIN tokens' = 1..m
    BY Issued, Fields, AccountsAssumption
  <2>2. 1..m = 1..Len(tokens) \cup {m} /\ m \notin 1..Len(tokens)
    BY <2>1
  <2>3. QED
    BY <2>1, <2>2, Issued DEF SessionOf
<1>2. \A t \in DOMAIN tokens : tokens[t].session \in DOMAIN tokens
  BY Fields DEF SessionsOK, SessionsNamed
<1>3. Live' = Live \cup {n}
  BY <1>1 DEF Live
<1>4. \A q \in InRefresh \ {p} : q \in InRefresh' /\ SessionOf(q)' = SessionOf(q)
  <2>1. \A q \in Proc \ {p} : req'[q] = req[q]
    BY EndsOthers DEF IssueToken
  <2>2. QED
    BY <1>1, <2>1, InRefreshStep DEF InRefresh, SessionOf
<1>5. \A q \in InRefresh' : q \in InRefresh \ {p}
  BY InRefreshStep DEF Continues
<1>6. \A q \in InRefresh : SessionOf(q) \in DOMAIN tokens
  BY <1>2, InRefreshStep DEF SessionOf
<1>7. CASE req[p].token = 0
  <2>1. tokens'[n].session = n
    BY <1>1, <1>7
  <2>2. p \notin InRefresh
    BY <1>7 DEF InRefresh
  <2>3. ~Opened(n) /\ Opened(n)' /\ Claimed(n)'
    <3>1. ~Opened(n) /\ Opened(n)'
      BY <1>1, <2>1 DEF Opened
    <3>2. n \in Live' /\ tokens'[n].session = n
      BY <1>3, <2>1
    <3>3. Claimed(n)'
      BY <3>2 DEF Claimed
    <3>4. QED
      BY <3>1, <3>3
  <2>4. ASSUME NEW s \in 1..MaxTokens \ {n} PROVE Opened(s)' <=> Opened(s)
    BY <1>1, <2>4 DEF Opened
  <2>5. ASSUME NEW s \in 1..MaxTokens \ {n} PROVE Claimed(s)' <=> Claimed(s)
    <3>1. (\E q \in InRefresh' : SessionOf(q)' = s) <=> \E q \in InRefresh : SessionOf(q) = s
      BY <1>4, <1>5, <2>2
    <3>2. (\E t \in Live' : tokens'[t].session = s) <=> \E t \in Live : tokens[t].session = s
      BY <1>1, <1>3, <2>1, <2>5 DEF Live
    <3>3. QED
      BY <3>1, <3>2, ClaimedIs DEF Claimed, UnderWay, InRefresh, SessionOf
  <2>6. QED
    BY <1>1, <2>3, <2>4, <2>5, LedgerOpens
<1>8. CASE req[p].token # 0
  <2>1. p \in InRefresh /\ tokens'[n].session = SessionOf(p) /\ SessionOf(p) \in DOMAIN tokens
    BY <1>1, <1>6, <1>8 DEF IssueToken, InRefresh
  <2>2. ASSUME NEW s \in 1..MaxTokens PROVE Opened(s)' <=> Opened(s)
    BY <1>1, <2>1 DEF Opened
  <2>3. ASSUME NEW s \in 1..MaxTokens PROVE Claimed(s)' <=> Claimed(s)
    <3>1. (\E q \in InRefresh' : SessionOf(q)' = s) <=> \E q \in InRefresh \ {p} : SessionOf(q) = s
      BY <1>4, <1>5
    <3>2. (\E t \in Live' : tokens'[t].session = s)
            <=> \/ \E t \in Live : tokens[t].session = s
                \/ SessionOf(p) = s
      BY <1>1, <1>3, <2>1 DEF Live
    <3>3. QED
      BY <2>1, <3>1, <3>2 DEF Claimed, UnderWay, InRefresh, SessionOf
  <2>4. QED
    BY <2>2, <2>3, LedgerStutters
<1>9. QED
  BY <1>7, <1>8

LEMMA LedgerStep ==
  Typed /\ SessionsOK /\ [Next]_vars => [Ledger!Next]_[s \in 1..MaxTokens |-> Phase(s)]
<1> SUFFICES ASSUME TypeOK, RequestOK, SessionsOK, [Next]_vars
             PROVE  [Ledger!Next]_[s \in 1..MaxTokens |-> Phase(s)]
  BY DEF Typed
<1>1. ASSUME SameTokens,
             \A q \in InRefresh' : \/ q \in InRefresh /\ req'[q].token = req[q].token
                                   \/ req'[q].token \in Live
      PROVE  [Ledger!Next]_[s \in 1..MaxTokens |-> Phase(s)]
  <2>1. \A t \in DOMAIN tokens : tokens[t].session \in DOMAIN tokens
    BY Fields DEF SessionsOK, SessionsNamed
  <2>2. \A s \in 1..MaxTokens : Opened(s)' <=> Opened(s)
    BY <1>1 DEF Opened, SameTokens
  <2>3. Live' \subseteq Live /\ \A t \in Live : tokens'[t].session = tokens[t].session
    BY <1>1 DEF Live, SameTokens
  <2>4. \A q \in InRefresh' : \/ q \in InRefresh /\ SessionOf(q)' = SessionOf(q)
                              \/ req'[q].token \in Live /\ SessionOf(q)' = tokens[req'[q].token].session
    BY <1>1, <2>3, InRefreshStep DEF SessionOf, SameTokens
  <2>5. ASSUME NEW s \in 1..MaxTokens, Claimed(s)' PROVE Claimed(s)
    <3>1. (\E q \in InRefresh' : SessionOf(q)' = s) \/ (\E t \in Live' : tokens'[t].session = s)
      BY <2>5 DEF Claimed, UnderWay, InRefresh, SessionOf
    <3>2. (\E q \in InRefresh : SessionOf(q) = s) \/ (\E t \in Live : tokens[t].session = s)
      BY <2>3, <2>4, <3>1
    <3>3. QED
      BY <3>2, ClaimedIs
  <2>6. QED
    BY <2>2, <2>5, LedgerEnds
<1>2. CASE UNCHANGED vars
  BY <1>1, <1>2, SameTokensStep DEF vars, tables, InRefresh
<1>3. CASE Aside
  <2>1. req' = req
    BY <1>3 DEF Aside, Expire, logout, LockExpires, unlockUsers, updateTenantStatus
  <2>2. QED
    BY <1>1, <1>3, <2>1, SameTokensStep DEF InRefresh
<1>4. ASSUME NEW p \in Proc, Arrives(p) PROVE [Ledger!Next]_[s \in 1..MaxTokens |-> Phase(s)]
  BY <1>1, <1>4, SameTokensStep, InRefreshStep
<1>5. ASSUME NEW p \in Proc, Continues(p) PROVE [Ledger!Next]_[s \in 1..MaxTokens |-> Phase(s)]
  BY <1>1, <1>5, SameTokensStep, InRefreshStep, LedgerByIssue
<1>6. QED
  BY <1>2, <1>3, <1>4, <1>5, Steps3

LEMMA LedgerInit == Init => Ledger!Init
<1> SUFFICES ASSUME Init PROVE Ledger!Init
  OBVIOUS
<1>1. DOMAIN tokens = {}
  BY DEF Init
<1>2. \A s \in 1..MaxTokens : Phase(s) = "unused"
  BY <1>1 DEF Phase
<1>3. QED
  BY <1>2 DEF Ledger!Init

\* The refresh tokens implement the ledger: a session that has ended, by logout, by
\* revocation or because an answer was lost, never comes back.
THEOREM LedgerRefined == Spec => LedgerSpec
BY LedgerInit, LedgerStep, TypeInit, TypeStep, SessionsInit, SessionsStep, PTL
   DEF Spec, LedgerSpec, Ledger!Spec

-----------------------------------------------------------------------------
(***************************************************************************)
(* What the steps of a request do to the rows of users                     *)
(***************************************************************************)

Offs == {"off", "deactivate", "delete"}

\* Does the step of p take the administrator u away?
Removes(p, u) ==
  /\ UserWrite(p)
  /\ u = req[p].user
  /\ u \in AdminRows
  /\ req[p].op \in Offs \cup {"demote"}

LEMMA RowsStep ==
  ASSUME TypeOK, RequestOK, NEW p \in Proc, Continues(p), NEW u \in User
  PROVE  /\ users[u].exists => users'[u].exists
         /\ users[u].exists => \/ users'[u].password = users[u].password
                               \/ u = req[p].user /\ (LoginRehash(p) \/ NewPassword(p) \/ PasswordWrite(p))
         /\ users[u].isActive => \/ users'[u].isActive
                                 \/ UserWrite(p) /\ u = req[p].user /\ req[p].op \in Offs
         /\ u \in AdminRows => u \in AdminRows' \/ Removes(p, u)
         /\ u \in Admins => u \in Admins' \/ Removes(p, u)
<1> DEFINE w == req[p].user
<1>1. w \in User /\ users[u] \in Account /\ users[w] \in Account /\ DOMAIN users = User
  BY Fields DEF TypeOK
<1>2. ASSUME users'[u].exists = users[u].exists, users'[u].password = users[u].password,
             users'[u].isActive = users[u].isActive, users'[u].role = users[u].role,
             users'[u].deleted = users[u].deleted
      PROVE  /\ users'[u].exists = users[u].exists
             /\ users'[u].password = users[u].password
             /\ users'[u].isActive = users[u].isActive
             /\ u \in AdminRows <=> u \in AdminRows'
             /\ u \in Admins <=> u \in Admins'
  BY <1>2 DEF AdminRows, Admins, Present
<1>3. CASE users'[u] = users[u]
  BY <1>2, <1>3
<1>4. CASE u # w \/ UNCHANGED users
  <2>1. users'[u] = users[u]
    BY <1>1, <1>4, Zenon DEF Continues, LoginFail, LoginRehash, LoginWelcome, IssueToken, RefreshOwner, RefreshRotate,
              NewPassword, RevokeAll, InsertUser, CountAdmins, UserWrite, PasswordWrite, Crash, tables
  <2>2. QED
    BY <1>3, <2>1
<1>5. ASSUME u = w, LoginFail(p) \/ LoginWelcome(p)
      PROVE  /\ users'[u].exists = users[u].exists /\ users'[u].password = users[u].password
             /\ users'[u].isActive = users[u].isActive /\ users'[u].role = users[u].role
             /\ users'[u].deleted = users[u].deleted
  BY <1>1, <1>5 DEF LoginFail, LoginWelcome, Account
<1>6. ASSUME u = w, LoginRehash(p) \/ NewPassword(p) \/ PasswordWrite(p)
      PROVE  /\ users'[u].exists = users[u].exists
             /\ users'[u].isActive = users[u].isActive /\ users'[u].role = users[u].role
             /\ users'[u].deleted = users[u].deleted
  BY <1>1, <1>6 DEF LoginRehash, NewPassword, PasswordWrite, Account
<1>7. ASSUME u = w, LoginRehash(p) \/ NewPassword(p) \/ PasswordWrite(p)
      PROVE  /\ u \in AdminRows <=> u \in AdminRows'
             /\ u \in Admins <=> u \in Admins'
  BY <1>6, <1>7 DEF AdminRows, Admins, Present
<1>8. ASSUME u = w, InsertUser(p), ~UNCHANGED users PROVE ~users[u].exists /\ users'[u].isActive /\ users'[u].exists
  <2>1. users' = [users EXCEPT ![u] = [Vacant EXCEPT !.exists = TRUE, !.isActive = TRUE,
                                          !.role = req[p].op, !.password = passwords + 1]]
        /\ ~users[u].exists
    BY <1>8 DEF InsertUser
  <2>2. QED
    BY <1>1, <2>1 DEF Vacant
<1>9. ASSUME u = w, UserWrite(p)
      PROVE  /\ users'[u].exists = users[u].exists /\ users'[u].password = users[u].password
             /\ users[u].isActive => users'[u].isActive \/ req[p].op \in Offs
             /\ req[p].op # "demote" /\ users[u].role = "ADMIN" => users'[u].role = "ADMIN"
             /\ req[p].op \notin Offs => users'[u].deleted = users[u].deleted
  <2>1. /\ users'[u] = Updated(users[u], req[p].op)
        /\ req[p].op \in {"demote", "promote", "off", "on", "deactivate", "activate", "delete", "unlock"}
    BY <1>1, <1>9 DEF UserWrite, RequestOK, Knows, Changes
  <2>2. QED
    BY <1>1, <2>1 DEF Updated, Account, Offs
<1>10. CASE u = w /\ UserWrite(p)
  BY <1>9, <1>10 DEF Removes, AdminRows, Admins, Present, Offs
<1>11. CASE u = w /\ (LoginFail(p) \/ LoginWelcome(p))
  BY <1>2, <1>5, <1>11
<1>12. CASE u = w /\ (LoginRehash(p) \/ NewPassword(p) \/ PasswordWrite(p))
  BY <1>6, <1>7, <1>12
<1>13. CASE u = w /\ InsertUser(p) /\ ~UNCHANGED users
  BY <1>8, <1>13 DEF AdminRows, Admins, Present
<1>14. CASE IssueToken(p) \/ RefreshOwner(p) \/ RefreshRotate(p) \/ RevokeAll(p) \/ CountAdmins(p) \/ Crash(p)
  BY <1>4, <1>14 DEF IssueToken, RefreshOwner, RefreshRotate, RevokeAll, CountAdmins, Crash, tables
<1>15. QED
  BY <1>4, <1>10, <1>11, <1>12, <1>13, <1>14 DEF Continues

\* Without a request, the rows keep what the properties look at.
LEMMA RowsAside ==
  ASSUME TypeOK, Aside, NEW u \in User
  PROVE  /\ users'[u].exists = users[u].exists
         /\ users'[u].password = users[u].password
         /\ users'[u].isActive = users[u].isActive
         /\ users'[u].deleted = users[u].deleted
         /\ u \in AdminRows <=> u \in AdminRows'
         /\ u \in Admins <=> u \in Admins'
<1>1. users[u] \in Account /\ DOMAIN users = User
  BY Fields DEF TypeOK
<1>2. /\ users'[u].exists = users[u].exists /\ users'[u].password = users[u].password
      /\ users'[u].isActive = users[u].isActive /\ users'[u].role = users[u].role
      /\ users'[u].deleted = users[u].deleted
  <2>1. CASE UNCHANGED users
    BY <2>1
  <2>2. ASSUME NEW v \in User, LockExpires(v)
        PROVE  /\ users'[u].exists = users[u].exists /\ users'[u].password = users[u].password
               /\ users'[u].isActive = users[u].isActive /\ users'[u].role = users[u].role
               /\ users'[u].deleted = users[u].deleted
    <3>1. users'[u] = IF u = v THEN [users[u] EXCEPT !.locked = FALSE] ELSE users[u]
      BY <1>1, <2>2 DEF LockExpires
    <3>2. QED
      BY <1>1, <3>1 DEF Account
  <2>3. CASE unlockUsers
    <3>1. users'[u] = [users[u] EXCEPT !.attempts = 0, !.locked = FALSE]
      BY <2>3 DEF unlockUsers
    <3>2. QED
      BY <1>1, <3>1 DEF Account
  <2>4. QED
    BY <2>1, <2>2, <2>3 DEF Aside, Expire, logout, updateTenantStatus
<1>3. QED
  BY <1>2 DEF AdminRows, Admins, Present

\* The steps at which a request has a session in hand.
Holds == {"rehash", "welcome", "owner", "rotate", "issue"}

\* A request that goes on with what it has; at most it becomes late.
Goes(q) ==
  /\ req'[q].user = req[q].user
  /\ req'[q].token = req[q].token
  /\ req'[q].password = req[q].password
  /\ req'[q].op = req[q].op
  /\ req[q].late => req'[q].late

LEMMA HoldersGo ==
  ASSUME TypeOK, RequestOK, NEW p \in Proc, Continues(p), NEW q \in Proc, req'[q].pc \in Holds
  PROVE  req[q].pc \in Holds /\ Goes(q) /\ (IssueToken(p) \/ RevokeAll(p) => q # p)
<1>1. ASSUME Onlooker(q) PROVE req[q].pc \in Holds /\ Goes(q)
  BY <1>1 DEF Onlooker, Goes
<1>2. CASE Ends(p)
  <2>1. q # p /\ Onlooker(q)
    BY <1>2, EndsOthers, IdleType DEF Holds
  <2>2. QED
    BY <1>1, <2>1
<1>3. ASSUME NEW pc, Goto(p, pc), ~IssueToken(p), ~RevokeAll(p), pc = "write" \/ req[p].pc \in Holds
      PROVE  req[q].pc \in Holds /\ Goes(q)
  <2>1. CASE q = p
    BY <1>3, <2>1, GotoOthers DEF Goes, Holds
  <2>2. CASE q # p
    BY <1>1, <1>3, <2>2, GotoOthers
  <2>3. QED
    BY <2>1, <2>2
<1>4. CASE LoginRehash(p)
  <2>1. PICK U : Overtakes(p, [req[p] EXCEPT !.pc = "welcome"], U)
    BY <1>4 DEF LoginRehash
  <2>2. req'[p] = [req[p] EXCEPT !.pc = "welcome"] /\ \A o \in Proc \ {p} : Onlooker(o)
    BY <2>1, OvertakesOthers
  <2>3. CASE q = p
    <3>1. Goes(p)
      BY <2>2, Fields DEF Goes, Request
    <3>2. QED
      BY <1>4, <2>3, <3>1 DEF LoginRehash, Holds, IssueToken, RevokeAll
  <2>4. CASE q # p
    BY <1>1, <1>4, <2>2, <2>4
  <2>5. QED
    BY <2>3, <2>4
<1>5. CASE NewPassword(p)
  <2>1. PICK U : Overtakes(p, [req[p] EXCEPT !.pc = "revokeAll"], U)
    BY <1>5 DEF NewPassword
  <2>2. req'[p] = [req[p] EXCEPT !.pc = "revokeAll"] /\ \A o \in Proc \ {p} : Onlooker(o)
    BY <2>1, OvertakesOthers
  <2>3. req'[p].pc = "revokeAll"
    BY <2>2, Fields DEF Request
  <2>4. QED
    BY <1>1, <2>2, <2>3 DEF Holds
<1>6. CASE RevokeAll(p) \/ UserWrite(p) \/ PasswordWrite(p)
  <2>1. PICK U : Overtakes(p, Idle, U)
    BY <1>6 DEF RevokeAll, UserWrite, PasswordWrite
  <2>2. req'[p] = Idle /\ \A o \in Proc \ {p} : Onlooker(o)
    BY <2>1, OvertakesOthers
  <2>3. QED
    BY <1>1, <2>2, IdleType DEF Holds
<1>7. CASE LoginWelcome(p) \/ RefreshRotate(p)
  BY <1>3, <1>7 DEF LoginWelcome, RefreshRotate, IssueToken, RevokeAll, Holds
<1>8. CASE RefreshOwner(p)
  BY <1>2, <1>3, <1>8 DEF RefreshOwner, IssueToken, RevokeAll, Holds
<1>9. CASE CountAdmins(p)
  BY <1>2, <1>3, <1>9 DEF CountAdmins, IssueToken, RevokeAll, Holds
<1>10. CASE LoginFail(p) \/ IssueToken(p) \/ InsertUser(p) \/ Crash(p)
  BY <1>2, <1>10 DEF LoginFail, IssueToken, InsertUser, Crash
<1>11. QED
  BY <1>4, <1>5, <1>6, <1>7, <1>8, <1>9, <1>10 DEF Continues

-----------------------------------------------------------------------------
(***************************************************************************)
(* Old passwords.  A session in hand or in a live token is late, or was    *)
(* opened with the password in force, unless the sessions of its user are  *)
(* about to be closed, or never are.                                       *)
(***************************************************************************)

ClosingFor(u) == \E p \in Proc : req[p].pc = "revokeAll" /\ req[p].op # "refresh" /\ req[p].user = u

Fresh(u, pw) == pw = users[u].password \/ u \in unrevoked \/ ClosingFor(u)

HeldOK(q) ==
  /\ users[req[q].user].exists
  /\ req[q].token = 0 => req[q].late \/ Fresh(req[q].user, req[q].password)
  /\ req[q].token # 0 => LET t == tokens[req[q].token] IN
                         /\ t.user = req[q].user
                         /\ req[q].late \/ t.late \/ Fresh(t.user, t.password)

TokenOK(t) ==
  /\ users[tokens[t].user].exists
  /\ tokens[t].state = "live" => tokens[t].late \/ Fresh(tokens[t].user, tokens[t].password)

PasswordsOK ==
  /\ \A t \in DOMAIN tokens : TokenOK(t)
  /\ \A q \in Proc : req[q].pc \in Holds => HeldOK(q)

\* Nothing but the closing of the sessions of u makes what is fresh old.
LEMMA FreshKept ==
  ASSUME TypeOK, RequestOK, NEW p \in Proc, Continues(p), NEW u \in User, users[u].exists,
         NEW pw, Fresh(u, pw), ~(RevokeAll(p) /\ u = req[p].user)
  PROVE  Fresh(u, pw)'
<1>1. CASE u \in unrevoked
  <2>1. u \in unrevoked'
    BY <1>1 DEF Continues, LoginFail, LoginRehash, LoginWelcome, IssueToken, RefreshOwner,
       RefreshRotate, NewPassword, RevokeAll, InsertUser, CountAdmins, UserWrite, PasswordWrite,
       Crash, history
  <2>2. QED
    BY <2>1 DEF Fresh
<1>2. CASE ClosingFor(u)
  <2>1. PICK q \in Proc : req[q].pc = "revokeAll" /\ req[q].op # "refresh" /\ req[q].user = u
    BY <1>2 DEF ClosingFor
  <2>2. CASE q = p
    <3>1. Crash(p)
      BY <2>1, <2>2 DEF Continues, LoginFail, LoginRehash, LoginWelcome, IssueToken, RefreshOwner,
         RefreshRotate, NewPassword, RevokeAll, InsertUser, CountAdmins, UserWrite, PasswordWrite
    <3>2. u \in unrevoked'
      BY <2>1, <2>2, <3>1 DEF Crash
    <3>3. QED
      BY <3>2 DEF Fresh
  <2>3. CASE q # p
    <3>1. Onlooker(q)
      BY <2>3, EndsOthers, GotoOthers, OvertakesOthers
         DEF Continues, LoginFail, LoginRehash, LoginWelcome, IssueToken, RefreshOwner,
         RefreshRotate, NewPassword, RevokeAll, InsertUser, CountAdmins, UserWrite, PasswordWrite,
         Crash
    <3>2. ClosingFor(u)'
      BY <2>1, <3>1 DEF Onlooker, ClosingFor
    <3>3. QED
      BY <3>2 DEF Fresh
  <2>4. QED
    BY <2>2, <2>3
<1>3. CASE pw = users[u].password
  <2>1. CASE users'[u].password = users[u].password
    BY <1>3, <2>1 DEF Fresh
  <2>2. CASE u = req[p].user /\ LoginRehash(p) /\ users'[u].password # users[u].password
    <3>1. users'[u].password = req[p].password
      BY <2>2 DEF LoginRehash, TypeOK, Account
    <3>2. u \in unrevoked'
      BY <2>2, <3>1 DEF LoginRehash
    <3>3. QED
      BY <3>2 DEF Fresh
  <2>3. CASE u = req[p].user /\ PasswordWrite(p)
    BY <2>3 DEF PasswordWrite, Fresh
  <2>4. CASE u = req[p].user /\ NewPassword(p)
    <3>1. /\ req'[p] = [req[p] EXCEPT !.pc = "revokeAll"]
          /\ req[p].op # "refresh"
      BY <2>4, OvertakesOthers DEF NewPassword, RequestOK, Knows
    <3>2. req'[p].pc = "revokeAll" /\ req'[p].op # "refresh" /\ req'[p].user = u
      BY <2>4, <3>1, Fields DEF Request
    <3>3. ClosingFor(u)'
      BY <3>2 DEF ClosingFor
    <3>4. QED
      BY <3>3 DEF Fresh
  <2>5. QED
    BY <2>1, <2>2, <2>3, <2>4, RowsStep
<1>4. QED
  BY <1>1, <1>2, <1>3 DEF Fresh

\* Requests that arrive, and what happens aside, make nothing old.
LEMMA FreshQuietly ==
  ASSUME TypeOK, Aside \/ (\E p \in Proc : Arrives(p)), NEW u \in User, NEW pw, Fresh(u, pw)
  PROVE  Fresh(u, pw)'
<1>1. CASE Aside
  <2>1. req' = req /\ unrevoked' = unrevoked
    BY <1>1 DEF Aside, Expire, logout, LockExpires, unlockUsers, updateTenantStatus, history
  <2>2. QED
    BY <1>1, <2>1, RowsAside DEF Fresh, ClosingFor
<1>2. ASSUME NEW p \in Proc, Arrives(p) PROVE Fresh(u, pw)'
  <2>1. PICK kind, r : Begin(p, kind, r) /\ UNCHANGED <<tables, served, history>>
    BY <1>2, Arrival
  <2>2. \A q \in Proc : req[q].pc = "revokeAll" => req'[q] = req[q]
    BY <2>1, SlotOthers DEF Begin
  <2>3. QED
    BY <2>1, <2>2 DEF Fresh, ClosingFor, tables, history
<1>3. QED
  BY <1>1, <1>2

\* Sessions are closed: no token of the user is live, and his requests are late.
LEMMA RevokeAllStep ==
  ASSUME TypeOK, RequestOK, NEW p \in Proc, RevokeAll(p)
  PROVE  /\ \A t \in Live' : tokens[t].user # req[p].user
         /\ \A q \in Proc \ {p} : req[q].pc # "idle" /\ req[q].user = req[p].user => req'[q].late
<1>1. \A t \in DOMAIN tokens : tokens[t].user = req[p].user => tokens'[t].state # "live"
  BY Fields DEF RevokeAll, Closed, Token
<1>2. DOMAIN tokens' = DOMAIN tokens
  BY DEF RevokeAll
<1>3. QED
  BY <1>1, <1>2, OvertakesOthers DEF Live, RevokeAll

\* A token that stays what it was keeps what is said of it.
LEMMA TokenKept ==
  ASSUME TypeOK, NEW t \in DOMAIN tokens, TokenOK(t),
         tokens'[t].user = tokens[t].user, tokens'[t].password = tokens[t].password,
         tokens'[t].late = tokens[t].late, tokens'[t].state = "live" => tokens[t].state = "live",
         \A u \in User : users[u].exists => users'[u].exists,
         \A u \in User, pw \in 0..MaxPasswords :
           tokens'[t].state = "live" /\ u = tokens[t].user /\ users[u].exists /\ Fresh(u, pw) => Fresh(u, pw)'
  PROVE  TokenOK(t)'
<1>1. PICK u \in User, pw \in 0..MaxPasswords : u = tokens[t].user /\ pw = tokens[t].password
  BY Fields
<1>2. tokens'[t].state = "live" /\ Fresh(u, pw) => Fresh(u, pw)'
  BY <1>1 DEF TokenOK
<1>3. tokens'[t].state = "live" => tokens'[t].late \/ Fresh(u, pw)'
  BY <1>1, <1>2 DEF TokenOK
<1>4. QED
  BY <1>1, <1>3 DEF TokenOK, Fresh, ClosingFor

\* So does a request that goes on with what it has.
LEMMA HeldKept ==
  ASSUME TypeOK, RequestOK, NEW q \in Proc, HeldOK(q), Goes(q),
         \A t \in DOMAIN tokens :
           /\ tokens'[t].user = tokens[t].user /\ tokens'[t].password = tokens[t].password
           /\ tokens'[t].late = tokens[t].late,
         \A u \in User : users[u].exists => users'[u].exists,
         \A u \in User, pw \in 0..MaxPasswords :
           u = req[q].user /\ users[u].exists /\ Fresh(u, pw) => req'[q].late \/ Fresh(u, pw)'
  PROVE  HeldOK(q)'
<1>1. req[q].user \in User /\ req[q].password \in 0..MaxPasswords
  BY Fields
<1>2. users'[req'[q].user].exists
  BY <1>1 DEF HeldOK, Goes
<1>3. CASE req[q].token = 0
  <2>1. PICK u \in User, pw \in 0..MaxPasswords : u = req[q].user /\ pw = req[q].password
    BY <1>1
  <2>2. req'[q].late \/ Fresh(u, pw)'
    BY <1>3, <2>1 DEF HeldOK, Goes
  <2>3. u = req'[q].user /\ pw = req'[q].password /\ req'[q].token = 0
    BY <1>3, <2>1 DEF Goes
  <2>4. QED
    BY <1>2, <2>2, <2>3 DEF HeldOK, Fresh, ClosingFor
<1>4. CASE req[q].token # 0
  <2>1. req[q].token \in DOMAIN tokens
    BY <1>4, Fields DEF RequestOK, Knows
  <2>2. PICK t \in DOMAIN tokens, u \in User, pw \in 0..MaxPasswords :
          t = req[q].token /\ u = tokens[t].user /\ pw = tokens[t].password
    BY <2>1, Fields
  <2>3. u = req[q].user /\ users[u].exists /\ (req[q].late \/ tokens[t].late \/ Fresh(u, pw))
    BY <1>4, <2>2 DEF HeldOK
  <2>4. req'[q].late \/ tokens'[t].late \/ Fresh(u, pw)'
    BY <2>2, <2>3 DEF Goes
  <2>5. /\ t = req'[q].token /\ u = tokens'[t].user /\ pw = tokens'[t].password
        /\ u = req'[q].user /\ req'[q].token # 0
    BY <1>4, <2>2, <2>3 DEF Goes
  <2>6. QED
    BY <1>2, <2>4, <2>5 DEF HeldOK, Fresh, ClosingFor
<1>5. QED
  BY <1>3, <1>4

LEMMA PasswordsByRequest ==
  ASSUME TypeOK, RequestOK, PasswordsOK, NEW p \in Proc, Continues(p)
  PROVE  PasswordsOK'
<1>1. \A u \in User : users[u].exists => users'[u].exists
  BY RowsStep
<1>2. ASSUME NEW u \in User, NEW pw \in 0..MaxPasswords, users[u].exists, Fresh(u, pw)
      PROVE  Fresh(u, pw)' \/ (RevokeAll(p) /\ u = req[p].user)
  BY <1>2, FreshKept
<1>3. \A t \in DOMAIN tokens :
        /\ tokens'[t].user = tokens[t].user /\ tokens'[t].password = tokens[t].password
        /\ tokens'[t].late = tokens[t].late
        /\ tokens'[t].state = "live" => tokens[t].state = "live"
  <2>1. CASE SameTokens
    BY <2>1 DEF SameTokens
  <2>2. CASE IssueToken(p)
    BY <2>2, Issued
  <2>3. QED
    BY <2>1, <2>2, SameTokensStep
<1>4. ASSUME NEW t \in DOMAIN tokens, t \in DOMAIN tokens' PROVE TokenOK(t)'
  <2>1. TokenOK(t)
    BY DEF PasswordsOK
  <2>2. RevokeAll(p) /\ tokens'[t].state = "live" => tokens[t].user # req[p].user
    BY <1>4, RevokeAllStep DEF Live
  <2>3. \A u \in User, pw \in 0..MaxPasswords :
          tokens'[t].state = "live" /\ u = tokens[t].user /\ users[u].exists /\ Fresh(u, pw) => Fresh(u, pw)'
    BY <1>2, <2>2
  <2>4. QED
    BY <1>1, <1>3, <2>1, <2>3, TokenKept
<1>5. ASSUME NEW q \in Proc, req'[q].pc \in Holds PROVE HeldOK(q)'
  <2>1. req[q].pc \in Holds /\ Goes(q) /\ (RevokeAll(p) => q # p)
    BY <1>5, HoldersGo
  <2>2. HeldOK(q)
    BY <2>1 DEF PasswordsOK
  <2>3. RevokeAll(p) /\ req[q].user = req[p].user => req'[q].late
    BY <2>1, RevokeAllStep DEF Holds
  <2>4. \A u \in User, pw \in 0..MaxPasswords :
          u = req[q].user /\ users[u].exists /\ Fresh(u, pw) => req'[q].late \/ Fresh(u, pw)'
    BY <1>2, <2>3
  <2>5. QED
    BY <1>1, <1>3, <2>1, <2>2, <2>4, HeldKept
<1>6. CASE ~IssueToken(p)
  <2>1. DOMAIN tokens' = DOMAIN tokens
    BY <1>6, SameTokensStep DEF SameTokens
  <2>2. QED
    BY <1>4, <1>5, <2>1 DEF PasswordsOK
<1>7. CASE IssueToken(p)
  <2>1. PICK n \in 1..MaxTokens : n = Len(tokens) + 1
    BY <1>7, Issued
  <2>2. DOMAIN tokens' = DOMAIN tokens \cup {n}
    <3>1. Len(tokens) \in Nat /\ DOMAIN tokens = 1..Len(tokens) /\ DOMAIN tokens' = 1..n
      BY <1>7, <2>1, Issued, Fields, AccountsAssumption
    <3>2. 1..n = 1..Len(tokens) \cup {n}
      BY <2>1, <3>1
    <3>3. QED
      BY <3>1, <3>2
  <2>3. HeldOK(p)
    BY <1>7 DEF IssueToken, PasswordsOK, Holds
  <2>4. PICK u \in User, pw \in 0..MaxPasswords :
          /\ u = tokens'[n].user /\ u = req[p].user
          /\ pw = tokens'[n].password
          /\ tokens'[n].late \/ Fresh(u, pw)
    <3>1. CASE req[p].token = 0
      <4>1. /\ tokens'[n].user = req[p].user /\ tokens'[n].password = req[p].password
            /\ tokens'[n].late = req[p].late
        BY <1>7, <2>1, <3>1, Issued
      <4>2. req[p].late \/ Fresh(req[p].user, req[p].password)
        BY <2>3, <3>1 DEF HeldOK
      <4>3. QED
        BY <4>1, <4>2, Fields
    <3>2. CASE req[p].token # 0
      <4>1. PICK t \in DOMAIN tokens : t = req[p].token
        BY <1>7, <3>2, Issued
      <4>2. /\ tokens'[n].user = tokens[t].user /\ tokens'[n].password = tokens[t].password
            /\ tokens'[n].late = (tokens[t].late \/ req[p].late)
        BY <1>7, <2>1, <3>2, <4>1, Issued
      <4>3. /\ tokens[t].user = req[p].user
            /\ req[p].late \/ tokens[t].late \/ Fresh(tokens[t].user, tokens[t].password)
        BY <2>3, <3>2, <4>1 DEF HeldOK
      <4>4. tokens[t].user \in User /\ tokens[t].password \in 0..MaxPasswords
        BY Fields
      <4>5. QED
        BY <4>2, <4>3, <4>4
    <3>3. QED
      BY <3>1, <3>2
  <2>5. users[u].exists
    BY <2>3, <2>4 DEF HeldOK
  <2>6. ~RevokeAll(p)
    BY <1>7 DEF IssueToken, RevokeAll
  <2>7. users'[u].exists /\ (tokens'[n].late \/ Fresh(u, pw)')
    BY <1>1, <1>2, <2>4, <2>5, <2>6
  <2>8. TokenOK(n)'
    BY <2>4, <2>7 DEF TokenOK, Fresh, ClosingFor
  <2>9. QED
    BY <1>4, <1>5, <2>2, <2>8 DEF PasswordsOK
<1>8. QED
  BY <1>6, <1>7

LEMMA PasswordsStep == Typed /\ PasswordsOK /\ [Next]_vars => PasswordsOK'
<1> SUFFICES ASSUME TypeOK, RequestOK, PasswordsOK, [Next]_vars PROVE PasswordsOK'
  BY DEF Typed
<1>1. CASE UNCHANGED vars
  BY <1>1 DEF vars, tables, history, PasswordsOK, TokenOK, HeldOK, Fresh, ClosingFor
<1>2. ASSUME Aside \/ (\E p \in Proc : Arrives(p)), SameTokens,
             \A u \in User : users[u].exists => users'[u].exists
      PROVE  /\ \A t \in DOMAIN tokens' : TokenOK(t)'
             /\ \A q \in Proc : req[q].pc \in Holds /\ Goes(q) => HeldOK(q)'
  <2>1. \A u \in User, pw \in 0..MaxPasswords : Fresh(u, pw) => Fresh(u, pw)'
    BY <1>2, FreshQuietly
  <2>2. ASSUME NEW t \in DOMAIN tokens PROVE TokenOK(t)'
    BY <1>2, <2>1, TokenKept DEF PasswordsOK, SameTokens
  <2>3. ASSUME NEW q \in Proc, req[q].pc \in Holds, Goes(q) PROVE HeldOK(q)'
    BY <1>2, <2>1, <2>3, HeldKept DEF PasswordsOK, SameTokens
  <2>4. QED
    BY <1>2, <2>2, <2>3 DEF SameTokens
<1>3. CASE Aside
  <2>1. req' = req
    BY <1>3 DEF Aside, Expire, logout, LockExpires, unlockUsers, updateTenantStatus
  <2>2. \A u \in User : users[u].exists => users'[u].exists
    BY <1>3, RowsAside
  <2>3. QED
    BY <1>2, <1>3, <2>1, <2>2, SameTokensStep DEF PasswordsOK, Goes
<1>4. ASSUME NEW p \in Proc, Arrives(p) PROVE PasswordsOK'
  <2>1. PICK kind, r : Begin(p, kind, r) /\ Entering(r) /\ UNCHANGED <<tables, served, history>>
    BY <1>4, Arrival
  <2>2. req'[p] = r /\ \A q \in Proc \ {p} : req'[q] = req[q]
    BY <2>1, SlotOthers DEF Begin
  <2>3. UNCHANGED <<users, tokens, unrevoked>>
    BY <2>1 DEF tables, history
  <2>4. /\ \A t \in DOMAIN tokens' : TokenOK(t)'
        /\ \A q \in Proc : req[q].pc \in Holds /\ Goes(q) => HeldOK(q)'
    BY <1>2, <1>4, <2>3, SameTokensStep
  <2>5. ASSUME r.pc \in Holds PROVE HeldOK(p)'
    <3>1. CASE r.token = 0
      <4>1. SignedIn(r.user) /\ r.password = users[r.user].password
        <5>1. 0 \notin DOMAIN tokens
          BY Fields, AccountsAssumption
        <5>2. Looked(r)
          BY <2>1, <3>1, <5>1 DEF Entering
        <5>3. QED
          BY <2>5, <5>2 DEF Looked, Holds
      <4>2. users'[req'[p].user].exists /\ req'[p].password = users'[req'[p].user].password
        BY <2>2, <2>3, <4>1 DEF SignedIn, Present
      <4>3. QED
        BY <2>2, <3>1, <4>2 DEF HeldOK, Fresh
    <3>2. CASE r.token # 0
      <4>1. /\ r.token \in DOMAIN tokens
            /\ r.user = tokens[r.token].user
            /\ tokens[r.token].state = "live"
        BY <2>1, <2>5, <3>2 DEF Entering, Looked, Holds
      <4>2. TokenOK(r.token)'
        BY <2>3, <2>4, <4>1
      <4>3. QED
        BY <2>2, <2>3, <3>2, <4>1, <4>2 DEF HeldOK, TokenOK
    <3>3. QED
      BY <3>1, <3>2
  <2>6. \A q \in Proc \ {p} : req'[q].pc \in Holds => HeldOK(q)'
    BY <2>2, <2>4 DEF Goes
  <2>7. QED
    BY <2>2, <2>4, <2>5, <2>6 DEF PasswordsOK
<1>5. ASSUME NEW p \in Proc, Continues(p) PROVE PasswordsOK'
  BY <1>5, PasswordsByRequest
<1>6. QED
  BY <1>1, <1>3, <1>4, <1>5, Steps3

LEMMA PasswordsInit == Init => PasswordsOK
<1> SUFFICES ASSUME Init PROVE PasswordsOK
  OBVIOUS
<1>1. DOMAIN tokens = {} /\ \A q \in Proc : req[q].pc \notin Holds
  BY IdleType DEF Init, Holds
<1>2. QED
  BY <1>1 DEF PasswordsOK

\* A live session that an old password opened was under way when the password
\* changed, or is about to be closed, or was left open for good.
THEOREM OldSessionsClosed == Spec => []OldPasswordClosed
<1>1. Typed /\ PasswordsOK => OldPasswordClosed
  <2> SUFFICES ASSUME TypeOK, PasswordsOK, NEW t \in Live
               PROVE  \/ tokens[t].password = users[tokens[t].user].password
                      \/ tokens[t].late
                      \/ tokens[t].user \in unrevoked
                      \/ \E p \in Proc : req[p].pc = "revokeAll" /\ req[p].user = tokens[t].user
    BY DEF Typed, OldPasswordClosed
  <2>1. tokens[t].late \/ Fresh(tokens[t].user, tokens[t].password)
    BY DEF PasswordsOK, TokenOK, Live
  <2>2. QED
    BY <2>1 DEF Fresh, ClosingFor
<1>2. QED
  BY <1>1, TypeInit, TypeStep, PasswordsInit, PasswordsStep, PTL DEF Spec

-----------------------------------------------------------------------------
(***************************************************************************)
(* Tokens of deleted users: a request that has let its user in is late     *)
(* once the user is switched off.                                          *)
(***************************************************************************)

LetIn == {"rehash", "welcome", "rotate", "issue"}

ActiveOrLate == \A q \in Proc : req[q].pc \in LetIn => users[req[q].user].isActive \/ req[q].late

LEMMA LetInStep ==
  ASSUME TypeOK, RequestOK, NEW p \in Proc, Continues(p), NEW q \in Proc, req'[q].pc \in LetIn
  PROVE  req[q].pc \in LetIn \/ users[req[q].user].isActive
<1>1. CASE q # p
  <2>1. Onlooker(q)
    BY <1>1, EndsOthers, GotoOthers, OvertakesOthers
       DEF Continues, LoginFail, LoginRehash, LoginWelcome, IssueToken, RefreshOwner,
       RefreshRotate, NewPassword, RevokeAll, InsertUser, CountAdmins, UserWrite, PasswordWrite,
       Crash
  <2>2. QED
    BY <2>1 DEF Onlooker
<1>2. CASE q = p /\ RefreshOwner(p)
  <2>1. ~Ends(p)
    BY <1>2, EndsOthers, IdleType DEF LetIn
  <2>2. QED
    BY <1>2, <2>1 DEF RefreshOwner
<1>3. CASE q = p /\ ~RefreshOwner(p)
  <2>1. req[p].pc \in Holds
    BY <1>3, HoldersGo DEF LetIn, Holds
  <2>2. ~Ends(p)
    BY <1>3, EndsOthers, IdleType DEF LetIn
  <2>3. req[p].pc # "owner"
    BY <1>3, <2>1, <2>2 DEF Holds, Continues, LoginFail, LoginRehash, LoginWelcome, IssueToken,
       RefreshRotate, NewPassword, RevokeAll, InsertUser, CountAdmins, UserWrite, PasswordWrite,
       Crash, LetIn
  <2>4. QED
    BY <1>3, <2>1, <2>3 DEF Holds, LetIn
<1>4. QED
  BY <1>1, <1>2, <1>3

\* Switching a user off makes his other requests late.
LEMMA OffMakesLate ==
  ASSUME TypeOK, NEW p \in Proc, UserWrite(p), req[p].op \in Offs, NEW q \in Proc \ {p},
         req[q].pc # "idle", req[q].user = req[p].user
  PROVE  req'[q].late
<1>1. PICK U : /\ Overtakes(p, Idle, U)
               /\ req[p].user \in U
  BY Fields DEF UserWrite, Offs
<1>2. QED
  BY <1>1, OvertakesOthers

LEMMA ActiveByRequest ==
  ASSUME TypeOK, RequestOK, ActiveOrLate, NEW p \in Proc, Continues(p),
         NEW q \in Proc, req'[q].pc \in LetIn
  PROVE  users'[req'[q].user].isActive \/ req'[q].late
<1>1. Goes(q) /\ req[q].pc \in Holds
  BY HoldersGo DEF LetIn, Holds
<1>2. users[req[q].user].isActive \/ req[q].late
  BY LetInStep DEF ActiveOrLate
<1>3. CASE req[q].late
  BY <1>1, <1>3 DEF Goes
<1>4. CASE users[req[q].user].isActive
  <2>1. PICK u \in User : u = req[q].user /\ u = req'[q].user /\ users[u].isActive
    BY <1>1, <1>4, Fields DEF Goes
  <2>2. CASE users'[u].isActive
    BY <2>1, <2>2
  <2>3. CASE UserWrite(p) /\ u = req[p].user /\ req[p].op \in Offs
    <3>1. q # p /\ req[q].pc # "idle"
      BY <1>1, <2>3 DEF UserWrite, Holds
    <3>2. QED
      BY <2>1, <2>3, <3>1, OffMakesLate
  <2>4. QED
    BY <2>1, <2>2, <2>3, RowsStep
<1>5. QED
  BY <1>2, <1>3, <1>4

LEMMA ActiveStep == Typed /\ ActiveOrLate /\ [Next]_vars => ActiveOrLate'
<1> SUFFICES ASSUME TypeOK, RequestOK, ActiveOrLate, [Next]_vars PROVE ActiveOrLate'
  BY DEF Typed
<1>1. CASE UNCHANGED vars
  BY <1>1 DEF vars, tables, ActiveOrLate
<1>2. CASE Aside
  <2>1. req' = req
    BY <1>2 DEF Aside, Expire, logout, LockExpires, unlockUsers, updateTenantStatus
  <2>2. \A u \in User : users'[u].isActive = users[u].isActive
    BY <1>2, RowsAside
  <2>3. QED
    BY <2>1, <2>2, Fields DEF ActiveOrLate
<1>3. ASSUME NEW p \in Proc, Arrives(p) PROVE ActiveOrLate'
  <2>1. PICK kind, r : Begin(p, kind, r) /\ Entering(r) /\ UNCHANGED <<tables, served, history>>
    BY <1>3, Arrival
  <2>2. req'[p] = r /\ \A q \in Proc \ {p} : req'[q] = req[q]
    BY <2>1, SlotOthers DEF Begin
  <2>3. r.pc \in LetIn => users[r.user].isActive
    BY <2>1 DEF Entering, Looked, LetIn, SignedIn
  <2>4. QED
    BY <2>1, <2>2, <2>3 DEF tables, ActiveOrLate
<1>4. ASSUME NEW p \in Proc, Continues(p) PROVE ActiveOrLate'
  BY <1>4, ActiveByRequest DEF ActiveOrLate
<1>5. QED
  BY <1>1, <1>2, <1>3, <1>4, Steps3

LEMMA ActiveInit == Init => ActiveOrLate
BY IdleType DEF Init, ActiveOrLate, LetIn

\* A deleted user gets a token only if his request was under way at the
\* deletion, or if he was activated after it.
THEOREM DeletedGetNoToken == Spec => NoTokenForDeleted
<1>1. ActiveOrLate => [\A p \in Proc :
                         LET u == req[p].user IN
                         IssueToken(p) /\ users[u].deleted => users[u].isActive \/ req[p].late]_vars
  BY DEF ActiveOrLate, IssueToken, LetIn
<1>2. QED
  BY <1>1, TypeInit, TypeStep, ActiveInit, ActiveStep, PTL DEF Spec, NoTokenForDeleted

-----------------------------------------------------------------------------
(***************************************************************************)
(* The last administrator.  A request that has counted and is not late     *)
(* leaves an administrator behind, deleted or not.                         *)
(***************************************************************************)

LeavesOne(q) == AdminRows \ {req[q].user} # {}

Counted ==
  \A q \in Proc : req[q].pc = "write" /\ req[q].op \in Removals => LeavesOne(q) \/ req[q].late

\* More than one of left leaves one beside u.
LEMMA OneBeside ==
  ASSUME NEW left, NEW u, ~(Cardinality(left) <= 1)
  PROVE  left \ {u} # {}
<1> SUFFICES ASSUME left \ {u} = {} PROVE FALSE
  OBVIOUS
<1>1. left = {} \/ left = {u}
  OBVIOUS
<1>2. Cardinality(left) = 0 \/ Cardinality(left) = 1
  BY <1>1, FS_EmptySet, FS_Singleton
<1>3. QED
  BY <1>2

\* A request comes to its write by counting, or is there already.
LEMMA WriteStep ==
  ASSUME TypeOK, RequestOK, NEW p \in Proc, Continues(p), NEW q \in Proc, req'[q].pc = "write"
  PROVE  \/ q # p /\ Onlooker(q)
         \/ q = p /\ CountAdmins(p) /\ Goto(p, "write")
<1>1. CASE q # p
  BY <1>1, EndsOthers, GotoOthers, OvertakesOthers
     DEF Continues, LoginFail, LoginRehash, LoginWelcome, IssueToken, RefreshOwner,
     RefreshRotate, NewPassword, RevokeAll, InsertUser, CountAdmins, UserWrite, PasswordWrite,
     Crash
<1>2. CASE q = p
  <2>1. ~Ends(p)
    BY <1>2, EndsOthers, IdleType
  <2>2. \A pc : Goto(p, pc) => pc = "write"
    BY <1>2, GotoOthers
  <2>3. ASSUME NEW r, NEW U, Overtakes(p, r, U) PROVE r.pc = "write"
    BY <1>2, <2>3, OvertakesOthers
  <2>4. ~LoginRehash(p) /\ ~NewPassword(p)
    BY <2>3, Fields DEF LoginRehash, NewPassword, Request
  <2>5. ~RevokeAll(p) /\ ~UserWrite(p) /\ ~PasswordWrite(p)
    BY <2>3, IdleType DEF RevokeAll, UserWrite, PasswordWrite
  <2>6. QED
    BY <1>2, <2>1, <2>2, <2>4, <2>5 DEF Continues, LoginFail, LoginWelcome, IssueToken, RefreshOwner,
       RefreshRotate, InsertUser, CountAdmins, Crash
<1>3. QED
  BY <1>1, <1>2

\* Taking an administrator away makes every other request late.
LEMMA RemovalMakesLate ==
  ASSUME TypeOK, NEW p \in Proc, NEW u, Removes(p, u), NEW q \in Proc \ {p}, req[q].pc # "idle"
  PROVE  req'[q].late
<1>1. Overtakes(p, Idle, User)
  BY DEF Removes, UserWrite, Offs
<1>2. QED
  BY <1>1, OvertakesOthers, Fields

LEMMA CountedByRequest ==
  ASSUME TypeOK, RequestOK, Counted, NEW p \in Proc, Continues(p), NEW q \in Proc,
         req'[q].pc = "write", req'[q].op \in Removals
  PROVE  LeavesOne(q)' \/ req'[q].late
<1>1. CASE q # p /\ Onlooker(q)
  <2>1. req[q].pc = "write" /\ (LeavesOne(q) \/ req[q].late)
    BY <1>1 DEF Onlooker, Counted
  <2>2. CASE \E u \in User : Removes(p, u)
    BY <1>1, <2>1, <2>2, RemovalMakesLate
  <2>3. CASE ~\E u \in User : Removes(p, u)
    <3>1. AdminRows \subseteq AdminRows'
      BY <2>3, RowsStep DEF AdminRows
    <3>2. QED
      BY <1>1, <2>1, <3>1 DEF Onlooker, LeavesOne
  <2>4. QED
    BY <2>2, <2>3
<1>2. CASE q = p /\ CountAdmins(p) /\ Goto(p, "write")
  <2>1. PICK left : left \subseteq AdminRows /\ ~(Cardinality(left) <= 1)
    <3>1. Admins \subseteq AdminRows
      BY DEF Admins, AdminRows, Present
    <3>2. ~Ends(p)
      BY <1>2, EndsOthers, IdleType
    <3>3. QED
      BY <1>2, <3>1, <3>2 DEF CountAdmins
  <2>2. left \ {req[p].user} # {}
    BY <2>1, OneBeside
  <2>3. AdminRows' = AdminRows /\ req'[p].user = req[p].user
    BY <1>2, GotoOthers DEF CountAdmins, tables, AdminRows
  <2>4. QED
    BY <1>2, <2>1, <2>2, <2>3 DEF LeavesOne
<1>3. QED
  BY <1>1, <1>2, WriteStep

LEMMA CountedStep == Typed /\ Counted /\ [Next]_vars => Counted'
<1> SUFFICES ASSUME TypeOK, RequestOK, Counted, [Next]_vars PROVE Counted'
  BY DEF Typed
<1>1. CASE UNCHANGED vars
  BY <1>1 DEF vars, tables, Counted, LeavesOne, AdminRows
<1>2. CASE Aside
  <2>1. req' = req
    BY <1>2 DEF Aside, Expire, logout, LockExpires, unlockUsers, updateTenantStatus
  <2>2. AdminRows \subseteq AdminRows'
    BY <1>2, RowsAside DEF AdminRows
  <2>3. QED
    BY <2>1, <2>2 DEF Counted, LeavesOne
<1>3. ASSUME NEW p \in Proc, Arrives(p) PROVE Counted'
  <2>1. PICK kind, r : Begin(p, kind, r) /\ Entering(r) /\ UNCHANGED <<tables, served, history>>
    BY <1>3, Arrival
  <2>2. req'[p] = r /\ \A q \in Proc \ {p} : req'[q] = req[q]
    BY <2>1, SlotOthers DEF Begin
  <2>3. AdminRows' = AdminRows
    BY <2>1 DEF tables, AdminRows
  <2>4. ASSUME r.pc = "write", r.op \in Removals PROVE AdminRows \ {r.user} # {}
    <3>1. Admins # {} /\ users[r.user].role # "ADMIN"
      BY <2>1, <2>4 DEF Entering, Looked
    <3>2. QED
      BY <3>1 DEF Admins, AdminRows, Present
  <2>5. QED
    BY <2>2, <2>3, <2>4 DEF Counted, LeavesOne
<1>4. ASSUME NEW p \in Proc, Continues(p) PROVE Counted'
  BY <1>4, CountedByRequest DEF Counted
<1>5. QED
  BY <1>1, <1>2, <1>3, <1>4, Steps3

LEMMA AdminStep == Typed /\ Counted /\ AdminRemains /\ [Next]_vars => AdminRemains'
<1> SUFFICES ASSUME TypeOK, RequestOK, Counted, AdminRemains, [Next]_vars PROVE AdminRemains'
  BY DEF Typed
<1>1. CASE UNCHANGED vars
  BY <1>1 DEF vars, tables, history, AdminRemains, Admins, Present
<1>2. CASE Aside
  <2>1. miscounted' = miscounted
    BY <1>2 DEF Aside, Expire, logout, LockExpires, unlockUsers, updateTenantStatus, history
  <2>2. Admins \subseteq Admins'
    BY <1>2, RowsAside DEF Admins
  <2>3. QED
    BY <2>1, <2>2 DEF AdminRemains
<1>3. ASSUME NEW p \in Proc, Arrives(p) PROVE AdminRemains'
  <2>1. UNCHANGED <<tables, history>>
    BY <1>3, Arrival
  <2>2. QED
    BY <2>1 DEF tables, history, AdminRemains, Admins, Present
<1>4. ASSUME NEW p \in Proc, Continues(p) PROVE AdminRemains'
  <2>1. CASE miscounted
    <3>1. miscounted'
      BY <1>4, <2>1 DEF Continues, LoginFail, LoginRehash, LoginWelcome, IssueToken, RefreshOwner,
         RefreshRotate, NewPassword, RevokeAll, InsertUser, CountAdmins, UserWrite, PasswordWrite,
         Crash, history
    <3>2. QED
      BY <3>1 DEF AdminRemains
  <2>2. ASSUME NEW u \in User, u \in Admins, ~Removes(p, u) PROVE AdminRemains'
    BY <1>4, <2>2, RowsStep DEF AdminRemains
  <2>3. ASSUME NEW u \in User, u \in Admins, Removes(p, u) PROVE AdminRemains'
    <3>1. /\ req[p].pc = "write" /\ u = req[p].user /\ u \in AdminRows
          /\ req[p].op \in Offs \cup {"demote"}
          /\ req[p].op = "off" \/ req[p].late \/ AdminRows # Admins => miscounted'
      BY <2>3 DEF Removes, UserWrite, Offs
    <3>2. CASE req[p].op = "off" \/ req[p].late \/ AdminRows # Admins
      BY <3>1, <3>2 DEF AdminRemains
    <3>3. CASE req[p].op # "off" /\ ~req[p].late /\ AdminRows = Admins
      <4>1. LeavesOne(p)
        BY <3>1, <3>3 DEF Counted, Offs, Removals
      <4>2. PICK v \in Admins : v # u
        BY <3>1, <3>3, <4>1 DEF LeavesOne
      <4>3. v \in User /\ ~Removes(p, v)
        BY <3>1, <4>2 DEF Admins, Removes
      <4>4. QED
        BY <2>2, <4>2, <4>3
    <3>4. QED
      BY <3>2, <3>3
  <2>4. QED
    BY <2>1, <2>2, <2>3 DEF AdminRemains, Admins
<1>5. QED
  BY <1>1, <1>2, <1>3, <1>4, Steps3

LEMMA AdminInit == Init => Counted /\ AdminRemains
<1> SUFFICES ASSUME Init PROVE Counted /\ AdminRemains
  OBVIOUS
<1>1. Counted
  BY IdleType DEF Init, Counted
<1>2. Founder \in Admins
  BY AccountsAssumption DEF Init, Admins, Present, Vacant
<1>3. QED
  BY <1>1, <1>2 DEF AdminRemains

\* The brewery keeps an active administrator: where it does not, removals
\* raced, one counted a deleted administrator, or an update counted nobody.
THEOREM AdminStays == Spec => []AdminRemains
BY TypeInit, TypeStep, AdminInit, CountedStep, AdminStep, PTL DEF Spec

-----------------------------------------------------------------------------
(***************************************************************************)
(* The lock.  A failed login that read fewer than four attempts lifts the  *)
(* lock when it is counted and lets every idle slot in again; one that     *)
(* read more sets it.  With n slots and m such logins under way, at most   *)
(* Ahead(n, m) \div 2 more failures are counted before the lock stays.     *)
(***************************************************************************)

ReadFew(u) == {p \in Proc : req[p].pc = "fail" /\ req[p].user = u /\ req[p].attempts <= 3}
ReadMany(u) == {p \in Proc : req[p].pc = "fail" /\ req[p].user = u /\ req[p].attempts >= 4}

Ahead(n, m) == m * (2 * n - m + 1)

\* What a attempts may come to with n slots, m failures under way that read
\* few attempts and h that read many.
Bounded(n, a, locked, m, h) ==
  a >= 4 =>
    IF locked THEN m >= 1 => 2 * (a + h + 1) + Ahead(n, m - 1) <= 8 + Ahead(n, n - 1)
    ELSE 2 * a + Ahead(n, m) <= 8 + Ahead(n, n - 1)

WithinBound(u) ==
  Bounded(Cardinality(Proc), users[u].attempts, users[u].locked,
          Cardinality(ReadFew(u)), Cardinality(ReadMany(u)))

LockBounded ==
  \A u \in User : /\ u \in lapsed \/ WithinBound(u)
                  /\ Proc = {} => users[u].attempts = 0

LEMMA AheadStep ==
  ASSUME NEW n \in Int, NEW m \in Int
  PROVE  /\ Ahead(n, m) \in Int
         /\ Ahead(n, m) = Ahead(n, m - 1) + 2 * (n - m + 1)
BY DEF Ahead

LEMMA AheadGrows ==
  ASSUME NEW n \in Nat, NEW k \in 0..n, NEW m \in 0..k
  PROVE  Ahead(n, m) <= Ahead(n, k)
<1> DEFINE d == k - m
           e == 2 * n - k - m + 1
<1>1. d \in Nat /\ e \in Nat
  OBVIOUS
<1>2. d * e \in Nat
  <2> HIDE DEF d, e
  <2>1. QED
    BY <1>1
<1>3. Ahead(n, k) = Ahead(n, m) + d * e
  BY DEF Ahead
<1>4. Ahead(n, m) \in Int /\ Ahead(n, k) \in Int
  BY AheadStep
<1> HIDE DEF d, e
<1>5. QED
  BY <1>2, <1>3, <1>4

\* Fewer failures under way.
LEMMA BoundedFewer ==
  ASSUME NEW n \in Nat, NEW a \in Nat, NEW locked \in BOOLEAN, NEW m \in Nat, NEW h \in Nat,
         m + h <= n, NEW m1 \in 0..m, NEW h1 \in 0..h, Bounded(n, a, locked, m, h)
  PROVE  Bounded(n, a, locked, m1, h1)
<1> SUFFICES ASSUME a >= 4 PROVE Bounded(n, a, locked, m1, h1)
  BY DEF Bounded
<1>1. CASE locked
  <2> SUFFICES ASSUME m1 >= 1
               PROVE  2 * (a + h1 + 1) + Ahead(n, m1 - 1) <= 8 + Ahead(n, n - 1)
    BY <1>1 DEF Bounded
  <2>1. Ahead(n, m1 - 1) <= Ahead(n, m - 1)
    BY AheadGrows
  <2>2. 2 * (a + h + 1) + Ahead(n, m - 1) <= 8 + Ahead(n, n - 1)
    BY <1>1 DEF Bounded
  <2>3. Ahead(n, m1 - 1) \in Int /\ Ahead(n, m - 1) \in Int /\ Ahead(n, n - 1) \in Int
    BY DEF Ahead
  <2>4. QED
    BY <2>1, <2>2, <2>3
<1>2. CASE ~locked
  <2>1. Ahead(n, m1) <= Ahead(n, m)
    BY AheadGrows
  <2>2. 2 * a + Ahead(n, m) <= 8 + Ahead(n, n - 1)
    BY <1>2 DEF Bounded
  <2>3. Ahead(n, m1) \in Int /\ Ahead(n, m) \in Int /\ Ahead(n, n - 1) \in Int
    BY DEF Ahead
  <2>4. 2 * a + Ahead(n, m1) <= 8 + Ahead(n, n - 1)
    BY <2>1, <2>2, <2>3
  <2>5. QED
    BY <1>2, <2>4 DEF Bounded
<1>3. QED
  BY <1>1, <1>2

\* A failure that read few attempts is counted, and lifts the lock.
LEMMA BoundedLifted ==
  ASSUME NEW n \in Nat, NEW a \in Nat, NEW locked \in BOOLEAN, NEW m \in Nat, NEW h \in Nat,
         m + h <= n, m >= 1, Bounded(n, a, locked, m, h)
  PROVE  Bounded(n, a + 1, FALSE, m - 1, h)
<1> SUFFICES ASSUME a >= 3 PROVE 2 * (a + 1) + Ahead(n, m - 1) <= 8 + Ahead(n, n - 1)
  BY DEF Bounded
<1>1. Ahead(n, m) \in Int /\ Ahead(n, m - 1) \in Int /\ Ahead(n, n - 1) \in Int
  BY AheadStep
<1>2. CASE a = 3
  <2>1. Ahead(n, m - 1) <= Ahead(n, n - 1)
    BY AheadGrows
  <2>2. QED
    BY <1>1, <1>2, <2>1
<1>3. CASE a >= 4 /\ locked
  <2>1. 2 * (a + h + 1) + Ahead(n, m - 1) <= 8 + Ahead(n, n - 1)
    BY <1>3 DEF Bounded
  <2>2. QED
    BY <1>1, <2>1
<1>4. CASE a >= 4 /\ ~locked
  <2>1. 2 * a + Ahead(n, m) <= 8 + Ahead(n, n - 1)
    BY <1>4 DEF Bounded
  <2>2. Ahead(n, m) = Ahead(n, m - 1) + 2 * (n - m + 1)
    BY AheadStep
  <2>3. QED
    BY <1>1, <2>1, <2>2
<1>5. QED
  BY <1>2, <1>3, <1>4

\* A failure that read many attempts is counted, and sets the lock.
LEMMA BoundedLocked ==
  ASSUME NEW n \in Nat, NEW a \in Nat, NEW locked \in BOOLEAN, NEW m \in Nat, NEW h \in Nat,
         m + h <= n, h >= 1, Bounded(n, a, locked, m, h)
  PROVE  Bounded(n, a + 1, TRUE, m, h - 1)
<1> SUFFICES ASSUME a >= 3, m >= 1
             PROVE  2 * (a + h + 1) + Ahead(n, m - 1) <= 8 + Ahead(n, n - 1)
  <2>1. 2 * ((a + 1) + (h - 1) + 1) = 2 * (a + h + 1)
    OBVIOUS
  <2>2. QED
    BY <2>1 DEF Bounded
<1>1. Ahead(n, m) \in Int /\ Ahead(n, m - 1) \in Int /\ Ahead(n, n - 1) \in Int
  BY AheadStep
<1>2. Ahead(n, m) = Ahead(n, m - 1) + 2 * (n - m + 1)
  BY AheadStep
<1>3. CASE a = 3
  <2>1. Ahead(n, m) <= Ahead(n, n - 1)
    BY AheadGrows
  <2>2. QED
    BY <1>1, <1>2, <1>3, <2>1
<1>4. CASE a >= 4 /\ locked
  BY <1>4 DEF Bounded
<1>5. CASE a >= 4 /\ ~locked
  <2>1. 2 * a + Ahead(n, m) <= 8 + Ahead(n, n - 1)
    BY <1>5 DEF Bounded
  <2>2. QED
    BY <1>1, <1>2, <2>1
<1>6. QED
  BY <1>3, <1>4, <1>5

\* The bound in the words of FailuresLock.
LEMMA BoundedAttempts ==
  ASSUME NEW n \in Nat, NEW a \in Nat, NEW m \in Nat, NEW h \in Nat, m + h <= n,
         Bounded(n, a, FALSE, m, h), n = 0 => a = 0
  PROVE  a <= 4 + ((n - 1) * (n + 2)) \div 2
<1> DEFINE x == (n - 1) * (n + 2)
<1>1. x \in Int /\ (n = 0 => x = -2) /\ (n >= 1 => x >= 0)
  OBVIOUS
<1>2. Ahead(n, n - 1) = x
  BY DEF Ahead
<1>3. 0 <= Ahead(n, m)
  <2>1. Ahead(n, 0) = 0
    BY DEF Ahead
  <2>2. QED
    BY <2>1, AheadGrows
<1>4. Ahead(n, m) \in Int
  BY AheadStep
<1> HIDE DEF x
<1>5. a >= 4 => 2 * a <= 8 + x
  BY <1>1, <1>2, <1>3, <1>4 DEF Bounded
<1>6. a <= 4 + x \div 2
  BY <1>1, <1>5
<1>7. QED
  BY <1>6 DEF x

\* How many failures are under way.
LEMMA UnderWayCounts ==
  ASSUME TypeOK, IsFiniteSet(Proc), NEW u
  PROVE  /\ IsFiniteSet(ReadFew(u)) /\ IsFiniteSet(ReadMany(u))
         /\ Cardinality(Proc) \in Nat
         /\ Cardinality(ReadFew(u)) \in Nat /\ Cardinality(ReadMany(u)) \in Nat
         /\ Cardinality(ReadFew(u)) + Cardinality(ReadMany(u)) <= Cardinality(Proc)
         /\ ReadFew(u) \cap ReadMany(u) = {}
<1>1. ReadFew(u) \in SUBSET Proc /\ ReadMany(u) \in SUBSET Proc
  BY DEF ReadFew, ReadMany
<1>2. IsFiniteSet(ReadFew(u)) /\ IsFiniteSet(ReadMany(u))
  BY <1>1, FS_Subset
<1>3. /\ Cardinality(Proc) \in Nat
      /\ Cardinality(ReadFew(u)) \in Nat /\ Cardinality(ReadMany(u)) \in Nat
  BY <1>2, FS_CardinalityType
<1>4. ReadFew(u) \cap ReadMany(u) = {}
  <2>1. \A p \in Proc : req[p].attempts \in 0..MaxAttempts
    BY DEF TypeOK, Request
  <2>2. \A p \in Proc : ~(req[p].attempts <= 3 /\ req[p].attempts >= 4)
    BY <2>1, AccountsAssumption
  <2>3. QED
    BY <2>2 DEF ReadFew, ReadMany
<1>5. Cardinality(ReadFew(u) \cup ReadMany(u))
        = Cardinality(ReadFew(u)) + Cardinality(ReadMany(u)) - 0
  BY <1>2, <1>4, FS_Union, FS_EmptySet
<1>6. Cardinality(ReadFew(u) \cup ReadMany(u)) <= Cardinality(Proc)
  <2>1. ReadFew(u) \cup ReadMany(u) \in SUBSET Proc
    BY <1>1
  <2>2. QED
    BY <2>1, FS_Subset
<1>7. QED
  BY <1>2, <1>3, <1>4, <1>5, <1>6

\* Whatever a request under way does next, it is no failure under way.
LEMMA FailureEnds ==
  ASSUME TypeOK, RequestOK, NEW p \in Proc, Continues(p)
  PROVE  req'[p].pc # "fail" /\ \A q \in Proc \ {p} : Onlooker(q)
<1>1. \A q \in Proc \ {p} : Onlooker(q)
  BY EndsOthers, GotoOthers, OvertakesOthers
     DEF Continues, LoginFail, LoginRehash, LoginWelcome, IssueToken, RefreshOwner,
     RefreshRotate, NewPassword, RevokeAll, InsertUser, CountAdmins, UserWrite, PasswordWrite,
     Crash
<1>2. CASE Ends(p)
  BY <1>1, <1>2, EndsOthers, IdleType
<1>3. ASSUME NEW pc, Goto(p, pc), pc # "fail" PROVE req'[p].pc # "fail"
  BY <1>3, GotoOthers
<1>4. ASSUME NEW r, NEW U, Overtakes(p, r, U), r.pc # "fail" PROVE req'[p].pc # "fail"
  BY <1>4, OvertakesOthers
<1>5. CASE LoginRehash(p) \/ NewPassword(p)
  <2>1. \A pc : [req[p] EXCEPT !.pc = pc].pc = pc
    BY Fields DEF Request
  <2>2. QED
    BY <1>1, <1>4, <1>5, <2>1 DEF LoginRehash, NewPassword
<1>6. CASE RevokeAll(p) \/ UserWrite(p) \/ PasswordWrite(p)
  BY <1>1, <1>4, <1>6, IdleType DEF RevokeAll, UserWrite, PasswordWrite
<1>7. CASE LoginWelcome(p) \/ RefreshOwner(p) \/ RefreshRotate(p) \/ CountAdmins(p)
  BY <1>1, <1>2, <1>3, <1>7 DEF LoginWelcome, RefreshOwner, RefreshRotate, CountAdmins
<1>8. CASE LoginFail(p) \/ IssueToken(p) \/ InsertUser(p) \/ Crash(p)
  BY <1>2, <1>8 DEF LoginFail, IssueToken, InsertUser, Crash
<1>9. QED
  BY <1>1, <1>5, <1>6, <1>7, <1>8 DEF Continues

LEMMA FailuresStep ==
  ASSUME TypeOK, RequestOK, NEW p \in Proc, Continues(p), NEW u
  PROVE  ReadFew(u)' = ReadFew(u) \ {p} /\ ReadMany(u)' = ReadMany(u) \ {p}
<1>1. /\ req'[p].pc # "fail"
      /\ \A q \in Proc \ {p} : /\ req'[q].pc = req[q].pc /\ req'[q].user = req[q].user
                               /\ req'[q].attempts = req[q].attempts
  BY FailureEnds DEF Onlooker
<1>2. QED
  BY <1>1 DEF ReadFew, ReadMany

\* What the step of a request does to the attempts and the lock of u.
CountsFailure(p, u) ==
  /\ req[p].pc = "fail" /\ u = req[p].user
  /\ users'[u].attempts = users[u].attempts + 1
  /\ req[p].attempts >= 4 => users'[u].locked = TRUE
  /\ ~(req[p].attempts >= 4) => users'[u].locked = FALSE
  /\ lapsed' = lapsed

KeepsAttempts(u) ==
  /\ users'[u].attempts = users[u].attempts
  /\ users'[u].locked = users[u].locked
  /\ u \in lapsed => u \in lapsed'

LEMMA AttemptsByRequest ==
  ASSUME TypeOK, RequestOK, NEW p \in Proc, Continues(p), NEW u \in User
  PROVE  CountsFailure(p, u) \/ users'[u].attempts = 0 \/ KeepsAttempts(u)
<1> DEFINE w == req[p].user
<1>1. w \in User /\ users[u] \in Account /\ users[w] \in Account /\ DOMAIN users = User
  BY Fields DEF TypeOK
<1>2. CASE u = w /\ LoginFail(p)
  <2>1. /\ users'[u].attempts = users[u].attempts + 1
        /\ req[p].attempts >= 4 => users'[u].locked = TRUE
        /\ ~(req[p].attempts >= 4) => users'[u].locked = FALSE
    BY <1>1, <1>2 DEF LoginFail, Account
  <2>2. QED
    BY <1>2, <2>1 DEF LoginFail, CountsFailure, history
<1>3. CASE u = w /\ LoginWelcome(p)
  BY <1>1, <1>3 DEF LoginWelcome, Account
<1>4. CASE u = w /\ (LoginRehash(p) \/ NewPassword(p) \/ PasswordWrite(p))
  <2>1. users'[u].attempts = users[u].attempts /\ users'[u].locked = users[u].locked
    BY <1>1, <1>4 DEF LoginRehash, NewPassword, PasswordWrite, Account
  <2>2. lapsed' = lapsed
    BY <1>4 DEF LoginRehash, NewPassword, PasswordWrite
  <2>3. QED
    BY <2>1, <2>2 DEF KeepsAttempts
<1>5. CASE u = w /\ InsertUser(p) /\ ~UNCHANGED users
  <2>1. users' = [users EXCEPT ![u] = [Vacant EXCEPT !.exists = TRUE, !.isActive = TRUE,
                                          !.role = req[p].op, !.password = passwords + 1]]
    BY <1>5 DEF InsertUser
  <2>2. QED
    BY <1>1, <2>1 DEF Vacant
<1>6. CASE u = w /\ UserWrite(p)
  <2>1. /\ users'[u] = Updated(users[u], req[p].op)
        /\ req[p].op \in {"demote", "promote", "off", "on", "deactivate", "activate", "delete", "unlock"}
        /\ lapsed' = IF req[p].op = "unlock" THEN lapsed \ {u} ELSE lapsed
    BY <1>1, <1>6 DEF UserWrite, RequestOK, Knows, Changes
  <2>2. CASE req[p].op = "unlock"
    BY <1>1, <2>1, <2>2 DEF Updated, Account
  <2>3. CASE req[p].op # "unlock"
    <3>1. users'[u].attempts = users[u].attempts /\ users'[u].locked = users[u].locked
      BY <1>1, <2>1, <2>3 DEF Updated, Account
    <3>2. QED
      BY <2>1, <2>3, <3>1 DEF KeepsAttempts
  <2>4. QED
    BY <2>2, <2>3
<1>7. CASE u # w \/ UNCHANGED users
  <2>1. users'[u] = users[u]
    BY <1>1, <1>7, Zenon DEF Continues, LoginFail, LoginRehash, LoginWelcome, IssueToken, RefreshOwner,
       RefreshRotate, NewPassword, RevokeAll, InsertUser, CountAdmins, UserWrite, PasswordWrite, Crash,
       tables
  <2>2. CASE u \in lapsed => u \in lapsed'
    BY <2>1, <2>2 DEF KeepsAttempts
  <2>3. CASE u = w /\ (LoginWelcome(p) \/ UserWrite(p))
    BY <1>3, <1>6, <2>3
  <2>4. CASE u # w \/ ~(LoginWelcome(p) \/ UserWrite(p))
    <3>1. u \in lapsed => u \in lapsed'
      BY <2>4 DEF Continues, LoginFail, LoginRehash, LoginWelcome, IssueToken, RefreshOwner,
         RefreshRotate, NewPassword, RevokeAll, InsertUser, CountAdmins, UserWrite, PasswordWrite,
         Crash, history
    <3>2. QED
      BY <2>2, <3>1
  <2>5. QED
    BY <2>3, <2>4
<1>8. CASE IssueToken(p) \/ RefreshOwner(p) \/ RefreshRotate(p) \/ RevokeAll(p) \/ CountAdmins(p) \/ Crash(p)
  BY <1>7, <1>8 DEF IssueToken, RefreshOwner, RefreshRotate, RevokeAll, CountAdmins, Crash, tables
<1>9. QED
  BY <1>2, <1>3, <1>4, <1>5, <1>6, <1>7, <1>8 DEF Continues

LEMMA AttemptsAside ==
  ASSUME TypeOK, Aside, NEW u \in User
  PROVE  /\ req' = req
         /\ users'[u].attempts \in {0, users[u].attempts}
         /\ users'[u].attempts = 0 \/ KeepsAttempts(u) \/ u \in lapsed'
<1>1. req' = req
  BY DEF Aside, Expire, logout, LockExpires, unlockUsers, updateTenantStatus
<1>2. users[u] \in Account /\ DOMAIN users = User
  BY Fields DEF TypeOK
<1>3. CASE unlockUsers
  <2>1. users'[u] = [users[u] EXCEPT !.attempts = 0, !.locked = FALSE]
    BY <1>3 DEF unlockUsers
  <2>2. QED
    BY <1>1, <1>2, <2>1 DEF Account
<1>4. ASSUME NEW v \in User, LockExpires(v)
      PROVE  /\ users'[u].attempts = users[u].attempts
             /\ KeepsAttempts(u) \/ u \in lapsed'
  <2>1. CASE u = v
    BY <1>2, <1>4, <2>1 DEF LockExpires, Account
  <2>2. CASE u # v
    <3>1. users'[u] = users[u] /\ lapsed \subseteq lapsed'
      BY <1>2, <1>4, <2>2 DEF LockExpires
    <3>2. QED
      BY <3>1 DEF KeepsAttempts
  <2>3. QED
    BY <2>1, <2>2
<1>5. CASE users' = users /\ lapsed' = lapsed
  BY <1>1, <1>5 DEF KeepsAttempts
<1>6. ASSUME NEW t \in 1..MaxTokens, Expire(t) \/ logout(t) PROVE users' = users /\ lapsed' = lapsed
  BY <1>6 DEF Expire, logout, history
<1>7. ASSUME NEW isActive \in BOOLEAN, updateTenantStatus(isActive)
      PROVE  users' = users /\ lapsed' = lapsed
  BY <1>7 DEF updateTenantStatus, history
<1>8. QED
  BY <1>1, <1>3, <1>4, <1>5, <1>6, <1>7 DEF Aside

\* Only a login that is let in begins a failure.
FailureBegins(r) ==
  /\ r.user \in User
  /\ ~users[r.user].locked
  /\ r.attempts = users[r.user].attempts

LEMMA FailureArrives ==
  ASSUME TypeOK, NEW p \in Proc, Arrives(p)
  PROVE  \E r : /\ req[p].pc = "idle" /\ req' = [req EXCEPT ![p] = r]
                /\ r.pc = "fail" => FailureBegins(r)
                /\ UNCHANGED <<users, lapsed>>
<1>1. \A pc, op, u, t, pw, n : LET r == Ask(pc, op, u, t, pw, n) IN
                               r.pc = pc /\ r.user = u /\ r.attempts = n
  BY DEF Ask
<1>2. ASSUME NEW u \in User, NEW right \in BOOLEAN, LoginRead(p, u, right)
      PROVE  \E r : /\ req[p].pc = "idle" /\ req' = [req EXCEPT ![p] = r]
                    /\ r.pc = "fail" => FailureBegins(r)
                    /\ UNCHANGED <<users, lapsed>>
  <2>1. PICK pc, op : req' = [req EXCEPT ![p] = Ask(pc, op, u, 0, users[u].password, users[u].attempts)]
    BY <1>2 DEF LoginRead, Begin
  <2>2. FailureBegins(Ask(pc, op, u, 0, users[u].password, users[u].attempts))
    BY <1>1, <1>2 DEF LoginRead, FailureBegins
  <2>3. QED
    BY <1>2, <2>1, <2>2 DEF LoginRead, Begin, tables, history
<1>3. ASSUME NEW t \in 1..MaxTokens, RefreshRead(p, t)
      PROVE  \E r : /\ req[p].pc = "idle" /\ req' = [req EXCEPT ![p] = r]
                    /\ r.pc = "fail" => FailureBegins(r)
                    /\ UNCHANGED <<users, lapsed>>
  <2>1. PICK pc \in {"revokeAll", "owner"} :
          req' = [req EXCEPT ![p] = Ask(pc, "refresh", tokens[t].user, t, 0, 0)]
    BY <1>3 DEF RefreshRead, Begin
  <2>2. Ask(pc, "refresh", tokens[t].user, t, 0, 0).pc # "fail"
    BY <1>1
  <2>3. QED
    BY <1>3, <2>1, <2>2 DEF RefreshRead, Begin, tables, history
<1>4. ASSUME NEW u \in User, changePassword(p, u) \/ resetUserPassword(p, u) \/ activate(p, u)
                             \/ unlockUser(p, u)
      PROVE  \E r : /\ req[p].pc = "idle" /\ req' = [req EXCEPT ![p] = r]
                    /\ r.pc = "fail" => FailureBegins(r)
                    /\ UNCHANGED <<users, lapsed>>
  BY <1>1, <1>4 DEF changePassword, resetUserPassword, activate, unlockUser, Begin, tables, history
<1>5. ASSUME NEW u \in User, NEW role \in Roles, create(p, u, role)
      PROVE  \E r : /\ req[p].pc = "idle" /\ req' = [req EXCEPT ![p] = r]
                    /\ r.pc = "fail" => FailureBegins(r)
                    /\ UNCHANGED <<users, lapsed>>
  BY <1>1, <1>5 DEF create, Begin, tables, history
<1>6. ASSUME NEW u \in User, NEW op \in Kinds, AskUser(p, u, op)
      PROVE  \E r : /\ req[p].pc = "idle" /\ req' = [req EXCEPT ![p] = r]
                    /\ r.pc = "fail" => FailureBegins(r)
                    /\ UNCHANGED <<users, lapsed>>
  <2>1. PICK pc \in {"count", "write"} : req' = [req EXCEPT ![p] = Ask(pc, op, u, 0, 0, 0)]
    BY <1>6 DEF AskUser, Begin
  <2>2. Ask(pc, op, u, 0, 0, 0).pc # "fail"
    BY <1>1
  <2>3. QED
    BY <1>6, <2>1, <2>2 DEF AskUser, Begin, tables, history
<1>7. QED
  BY <1>2, <1>3, <1>4, <1>5, <1>6 DEF Arrives

\* A new request for u is one failure more that read many attempts of an open
\* account, or one more while few attempts are stored, or no failure of u.
LEMMA LockArrives ==
  ASSUME TypeOK, IsFiniteSet(Proc), NEW p \in Proc, Arrives(p), NEW u \in User, WithinBound(u)
  PROVE  WithinBound(u)'
<1>1. PICK r : /\ req[p].pc = "idle" /\ req' = [req EXCEPT ![p] = r]
               /\ r.pc = "fail" => FailureBegins(r)
               /\ UNCHANGED <<users, lapsed>>
  BY FailureArrives
<1>2. req'[p] = r /\ \A q \in Proc \ {p} : req'[q] = req[q]
  BY <1>1, SlotOthers
<1>3. users[u].attempts \in Nat
  BY Fields, AccountsAssumption
<1>4. CASE users[u].attempts <= 3
  BY <1>1, <1>3, <1>4 DEF WithinBound, Bounded
<1>5. CASE r.pc = "fail" /\ r.user = u /\ users[u].attempts >= 4
  <2>1. r.attempts = users[u].attempts /\ ~users[u].locked
    BY <1>1, <1>5 DEF FailureBegins
  <2>2. ReadFew(u)' = ReadFew(u)
    BY <1>1, <1>2, <1>3, <1>5, <2>1 DEF ReadFew
  <2>3. QED
    BY <1>1, <2>1, <2>2 DEF WithinBound, Bounded
<1>6. CASE ~(r.pc = "fail" /\ r.user = u)
  <2>1. ReadFew(u)' = ReadFew(u) /\ ReadMany(u)' = ReadMany(u)
    BY <1>1, <1>2, <1>6 DEF ReadFew, ReadMany
  <2>2. QED
    BY <1>1, <2>1 DEF WithinBound
<1>7. QED
  BY <1>3, <1>4, <1>5, <1>6

\* A failure of u is counted, or the row of u keeps its attempts.
LEMMA LockContinues ==
  ASSUME TypeOK, RequestOK, IsFiniteSet(Proc), NEW p \in Proc, Continues(p),
         NEW u \in User, WithinBound(u)
  PROVE  WithinBound(u)'
<1> DEFINE n == Cardinality(Proc)
           m == Cardinality(ReadFew(u))
           h == Cardinality(ReadMany(u))
           a == users[u].attempts
<1>1. /\ IsFiniteSet(ReadFew(u)) /\ IsFiniteSet(ReadMany(u))
      /\ n \in Nat /\ m \in Nat /\ h \in Nat /\ m + h <= n
      /\ ReadFew(u) \cap ReadMany(u) = {}
  BY UnderWayCounts
<1>2. ReadFew(u)' = ReadFew(u) \ {p} /\ ReadMany(u)' = ReadMany(u) \ {p}
  BY FailuresStep
<1>3. /\ Cardinality(ReadFew(u) \ {p}) = IF p \in ReadFew(u) THEN m - 1 ELSE m
      /\ Cardinality(ReadMany(u) \ {p}) = IF p \in ReadMany(u) THEN h - 1 ELSE h
  BY <1>1, FS_RemoveElement
<1>4. p \in ReadFew(u) => m >= 1
  <2>1. Cardinality(ReadFew(u) \ {p}) \in Nat
    BY <1>1, FS_RemoveElement, FS_CardinalityType
  <2>2. QED
    BY <1>1, <1>3, <2>1
<1>5. p \in ReadMany(u) => h >= 1
  <2>1. Cardinality(ReadMany(u) \ {p}) \in Nat
    BY <1>1, FS_RemoveElement, FS_CardinalityType
  <2>2. QED
    BY <1>1, <1>3, <2>1
<1>6. a \in Nat /\ users[u].locked \in BOOLEAN
  BY Fields, AccountsAssumption DEF Account
<1>7. Bounded(n, a, users[u].locked, m, h)
  BY DEF WithinBound
<1>8. CASE users'[u].attempts = 0
  BY <1>8 DEF WithinBound, Bounded
<1>9. CASE KeepsAttempts(u)
  <2>1. PICK m1 \in 0..m, h1 \in 0..h : m1 = Cardinality(ReadFew(u)') /\ h1 = Cardinality(ReadMany(u)')
    BY <1>1, <1>2, <1>3, <1>4, <1>5
  <2>2. Bounded(n, a, users[u].locked, m1, h1)
    BY <1>1, <1>6, <1>7, BoundedFewer
  <2>3. QED
    BY <1>9, <2>1, <2>2 DEF KeepsAttempts, WithinBound
<1>10. CASE CountsFailure(p, u) /\ req[p].attempts >= 4
  <2>1. p \in ReadMany(u)
    BY <1>10 DEF CountsFailure, ReadMany
  <2>2. Cardinality(ReadFew(u)') = m /\ Cardinality(ReadMany(u)') = h - 1
    BY <1>1, <1>2, <1>3, <2>1
  <2>3. Bounded(n, a + 1, TRUE, m, h - 1)
    BY <1>1, <1>5, <1>6, <1>7, <2>1, BoundedLocked
  <2>4. users'[u].attempts = a + 1 /\ users'[u].locked = TRUE
    BY <1>10 DEF CountsFailure
  <2>5. QED
    BY <2>2, <2>3, <2>4 DEF WithinBound
<1>11. CASE CountsFailure(p, u) /\ ~(req[p].attempts >= 4)
  <2>1. req[p].attempts \in Nat
    BY AccountsAssumption DEF TypeOK, Request
  <2>2. p \in ReadFew(u)
    BY <1>11, <2>1 DEF CountsFailure, ReadFew
  <2>3. Cardinality(ReadFew(u)') = m - 1 /\ Cardinality(ReadMany(u)') = h
    BY <1>1, <1>2, <1>3, <2>2
  <2>4. Bounded(n, a + 1, FALSE, m - 1, h)
    BY <1>1, <1>4, <1>6, <1>7, <2>2, BoundedLifted
  <2>5. users'[u].attempts = a + 1 /\ users'[u].locked = FALSE
    BY <1>11 DEF CountsFailure
  <2>6. QED
    BY <2>3, <2>4, <2>5 DEF WithinBound
<1>12. QED
  BY <1>8, <1>9, <1>10, <1>11, AttemptsByRequest

LEMMA LockStep ==
  ASSUME IsFiniteSet(Proc)
  PROVE  Typed /\ LockBounded /\ [Next]_vars => LockBounded'
<1> SUFFICES ASSUME TypeOK, RequestOK, LockBounded, [Next]_vars, NEW u \in User
             PROVE  /\ u \in lapsed' \/ WithinBound(u)'
                    /\ Proc = {} => users'[u].attempts = 0
  BY DEF Typed, LockBounded
<1>1. /\ u \in lapsed \/ WithinBound(u)
      /\ Proc = {} => users[u].attempts = 0
  BY DEF LockBounded
<1>2. CASE UNCHANGED vars
  <2>1. users' = users /\ lapsed' = lapsed /\ req' = req
    BY <1>2 DEF vars, tables, history
  <2>2. ReadFew(u)' = ReadFew(u) /\ ReadMany(u)' = ReadMany(u)
    BY <2>1 DEF ReadFew, ReadMany
  <2>3. QED
    BY <1>1, <2>1, <2>2 DEF WithinBound
<1>3. CASE Aside
  <2>1. /\ req' = req
        /\ users'[u].attempts \in {0, users[u].attempts}
        /\ users'[u].attempts = 0 \/ KeepsAttempts(u) \/ u \in lapsed'
    BY <1>3, AttemptsAside
  <2>2. ReadFew(u)' = ReadFew(u) /\ ReadMany(u)' = ReadMany(u)
    BY <2>1 DEF ReadFew, ReadMany
  <2>3. CASE users'[u].attempts = 0
    BY <2>3 DEF WithinBound, Bounded
  <2>4. CASE KeepsAttempts(u)
    BY <1>1, <2>2, <2>4 DEF KeepsAttempts, WithinBound
  <2>5. QED
    BY <1>1, <2>1, <2>3, <2>4
<1>4. ASSUME NEW p \in Proc, Arrives(p)
      PROVE  u \in lapsed' \/ WithinBound(u)'
  <2>1. lapsed' = lapsed
    BY <1>4, FailureArrives
  <2>2. QED
    BY <1>1, <1>4, <2>1, LockArrives
<1>5. ASSUME NEW p \in Proc, Continues(p)
      PROVE  u \in lapsed' \/ WithinBound(u)'
  <2>1. CASE WithinBound(u)
    BY <1>5, <2>1, LockContinues
  <2>2. CASE u \in lapsed
    <3>1. CASE users'[u].attempts = 0
      BY <3>1 DEF WithinBound, Bounded
    <3>2. CASE KeepsAttempts(u) \/ CountsFailure(p, u)
      BY <2>2, <3>2 DEF KeepsAttempts, CountsFailure
    <3>3. QED
      BY <1>5, <3>1, <3>2, AttemptsByRequest
  <2>3. QED
    BY <1>1, <2>1, <2>2
<1>6. QED
  BY <1>2, <1>3, <1>4, <1>5, Steps3

LEMMA LockInit == Init => LockBounded
<1> SUFFICES ASSUME Init, NEW u \in User PROVE users[u].attempts = 0
  BY DEF LockBounded, WithinBound, Bounded
<1>1. QED
  BY DEF Init, Vacant

\* Failed logins lock the account however they race: an open account whose
\* lock has not run out has counted no more failures than the slots allow.
THEOREM FailuresCounted ==
  ASSUME IsFiniteSet(Proc)
  PROVE  Spec => []FailuresLock
<1>1. Typed /\ LockBounded => FailuresLock
  <2> SUFFICES ASSUME TypeOK, LockBounded, NEW u \in User, ~users[u].locked, u \notin lapsed
               PROVE  users[u].attempts <= 4 + ((Cardinality(Proc) - 1) * (Cardinality(Proc) + 2)) \div 2
    BY DEF Typed, FailuresLock
  <2>1. users[u].locked = FALSE
    BY Fields DEF Account
  <2>2. Bounded(Cardinality(Proc), users[u].attempts, FALSE, Cardinality(ReadFew(u)), Cardinality(ReadMany(u)))
    BY <2>1 DEF LockBounded, WithinBound
  <2>3. Cardinality(Proc) = 0 => users[u].attempts = 0
    BY FS_EmptySet DEF LockBounded
  <2>4. users[u].attempts \in Nat
    BY Fields, AccountsAssumption
  <2>5. QED
    BY <2>2, <2>3, <2>4, UnderWayCounts, BoundedAttempts
<1>2. QED
  BY <1>1, TypeInit, TypeStep, LockInit, LockStep, PTL DEF Spec
=============================================================================
