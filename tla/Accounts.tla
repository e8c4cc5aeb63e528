------------------------------ MODULE Accounts ------------------------------
(***************************************************************************)
(* The user accounts of one brewery and their sessions: passwords, the     *)
(* lock after failed logins, refresh tokens with rotation and reuse        *)
(* detection, and who administers the brewery.  Translated from            *)
(* auth.service.ts, jwt.strategy.ts, user.service.ts, super-admin.service  *)
(* .ts under backend/src and unlock-users.ts under backend/prisma.         *)
(*                                                                         *)
(* Each await that reads or writes this state is one action.  Nothing      *)
(* locks a row: requests of Proc interleave between any two awaits and, if *)
(* "crash" is served, end between any two of them.                         *)
(*                                                                         *)
(* A password is the number of the write that first set it; what is typed  *)
(* at a login is right or wrong when compared with what was read.  Access  *)
(* tokens live for minutes, are not stored, and are left out, and so is    *)
(* mustChangePassword, which the server stores and never reads.            *)
(***************************************************************************)
EXTENDS Integers, Sequences, FiniteSets

CONSTANTS
  Proc,         \* slots for requests being served at the same time
  User,         \* ids, and emails, of the users the brewery may have
  Founder,      \* the administrator the brewery begins with
  LegacyHash,   \* is the founder's password still a bcrypt hash
  MaxTokens,    \* bound of the model: refresh tokens ever issued
  MaxPasswords, \* bound of the model: how often a password is set anew
  MaxAttempts,  \* bound of the model: failed logins counted
  Serves        \* bound of the model: the choices of kinds of request that arrive

Roles == {"ADMIN", "OTHER"}
Changes == {"demote", "promote", "off", "on", "password"}
Kinds == {"login", "guess", "refresh", "logout", "expire", "change", "reset", "unlock",
          "deactivate", "activate", "delete", "create", "tenant", "crash", "browser", "lists", "open"} \cup Changes

ASSUME AccountsAssumption ==
  /\ Founder \in User
  /\ LegacyHash \in BOOLEAN
  /\ MaxTokens \in Nat /\ MaxPasswords \in Nat /\ MaxAttempts \in Nat
  /\ Serves \subseteq SUBSET Kinds
  /\ Serves # {}

VARIABLES
  users,        \* table users
  tokens,       \* table refresh_tokens, in the order of creation
  tenantActive, \* tenants.isActive
  req,          \* the requests being served
  served,       \* the kinds of request that arrive        (chosen at the start)
  passwords,    \* how often a password was set            (history variable)
  unrevoked,    \* users whose last new password closed no session (history variable)
  lapsed,       \* users whose lock ran out, attempts kept (history variable)
  forked,       \* sessions rotated from a token spent before (history variable)
  miscounted    \* an administrator went without a count, on one grown old, or
                \* on one of deleted administrators too    (history variable)

tables == <<users, tokens, tenantActive>>
history == <<passwords, unrevoked, lapsed, forked, miscounted>>
vars == <<tables, req, served, history>>

\* A row of users.
Account == [exists : BOOLEAN, role : Roles, isActive : BOOLEAN, deleted : BOOLEAN,
            password : 0..MaxPasswords, legacy : BOOLEAN,
            attempts : 0..MaxAttempts, locked : BOOLEAN]

Vacant == [exists |-> FALSE, role |-> "OTHER", isActive |-> FALSE, deleted |-> FALSE,
           password |-> 0, legacy |-> FALSE, attempts |-> 0, locked |-> FALSE]

\* A refresh token: its user, the session it belongs to, the password the
\* session was opened with, and whether the request that issued it was
\* under way when sessions of the user were closed (history).
Token == [user : User, session : 1..MaxTokens, state : {"live", "revoked", "expired"},
          password : 0..MaxPasswords, late : BOOLEAN]

Steps == {"idle", "fail", "rehash", "welcome", "issue", "owner", "rotate", "revokeAll",
          "change", "reset", "count", "write", "insert"}

\* A request: the await it runs next, what it was asked for, for whom, with
\* which token, what it has read, and late: was it overtaken by a write that
\* closed sessions or removed an administrator.
Request == [pc : Steps, op : {"-"} \cup Kinds \cup Roles, user : User, token : 0..MaxTokens,
            password : 0..MaxPasswords, attempts : 0..MaxAttempts, late : BOOLEAN]

Ask(pc, op, u, t, pw, n) ==
  [pc |-> pc, op |-> op, user |-> u, token |-> t, password |-> pw, attempts |-> n, late |-> FALSE]
Idle == Ask("idle", "-", Founder, 0, 0, 0)

Begin(p, kind, r) ==
  /\ kind \in served
  /\ req[p].pc = "idle"
  /\ req' = [req EXCEPT ![p] = r]

Goto(p, pc) == req' = [req EXCEPT ![p].pc = pc]
Ends(p) == req' = [req EXCEPT ![p] = Idle]

\* Request p goes on as r; the ones of the users U under way are now late.
Overtakes(p, r, U) ==
  req' = [q \in Proc |->
            IF q = p THEN r
            ELSE [req[q] EXCEPT !.late = @ \/ (req[q].pc # "idle" /\ req[q].user \in U)]]

Present(u) == users[u].exists /\ ~users[u].deleted

Admins == {u \in User : Present(u) /\ users[u].role = "ADMIN" /\ users[u].isActive}

\* What delete counts: administrators, the deleted ones included.
AdminRows == {u \in User : users[u].exists /\ users[u].role = "ADMIN" /\ users[u].isActive}

\* The guard in front of every request of a user, and of an administrator.
SignedIn(u) == Present(u) /\ users[u].isActive /\ tenantActive
AdminSignedIn == tenantActive /\ Admins # {}

Closed(u, t) == IF t.user = u /\ t.state = "live" THEN [t EXCEPT !.state = "revoked"] ELSE t

\* The process stops or a connection drops: what was written stays.
Crash(p) ==
  /\ "crash" \in served
  /\ req[p].pc # "idle"
  /\ unrevoked' = unrevoked \cup {u \in User : req[p].pc = "revokeAll" /\ u = req[p].user
                                               /\ req[p].op # "refresh"}
  /\ Ends(p)
  /\ UNCHANGED <<tables, served, passwords, lapsed, forked, miscounted>>

-----------------------------------------------------------------------------
(***************************************************************************)
(* AuthService: login                                                      *)
(***************************************************************************)

\* The lookup, its checks, and the comparison with the hash that was read.
LoginRead(p, u, right) ==
  /\ SignedIn(u)
  /\ ~users[u].locked
  /\ users[u].attempts < MaxAttempts
  /\ Begin(p, IF right THEN "login" ELSE "guess",
           Ask(CASE ~right -> "fail" [] right /\ users[u].legacy -> "rehash" [] OTHER -> "welcome",
               "login", u, 0, users[u].password, users[u].attempts))
  /\ UNCHANGED <<tables, served, history>>

\* Faulty: the fifth wrong password is only counted.
LoginFailLenient(p) ==
  LET u == req[p].user IN
  /\ req[p].pc = "fail"
  /\ users[u].attempts < MaxAttempts
  /\ users' = [users EXCEPT ![u].attempts = @ + 1, ![u].locked = req[p].attempts >= 5]
  /\ Ends(p)
  /\ UNCHANGED <<tokens, tenantActive, served, history>>

\* The database adds one; the lock is decided from the attempts read before.
LoginFail(p) ==
  LET u == req[p].user IN
  /\ req[p].pc = "fail"
  /\ users[u].attempts < MaxAttempts
  /\ users' = [users EXCEPT ![u].attempts = @ + 1, ![u].locked = req[p].attempts >= 4]
  /\ Ends(p)
  /\ UNCHANGED <<tokens, tenantActive, served, history>>

\* The password that was typed is stored again, hashed the modern way.
LoginRehash(p) ==
  LET u == req[p].user IN
  /\ req[p].pc = "rehash"
  /\ users' = [users EXCEPT ![u].password = req[p].password, ![u].legacy = FALSE]
  /\ unrevoked' = IF users[u].password = req[p].password THEN unrevoked ELSE unrevoked \cup {u}
  /\ Overtakes(p, [req[p] EXCEPT !.pc = "welcome"],
               IF users[u].password = req[p].password THEN {} ELSE {u})
  /\ UNCHANGED <<tokens, tenantActive, served, passwords, lapsed, forked, miscounted>>

LoginWelcome(p) ==
  /\ req[p].pc = "welcome"
  /\ users' = [users EXCEPT ![req[p].user].attempts = 0, ![req[p].user].locked = FALSE]
  /\ lapsed' = lapsed \ {req[p].user}
  /\ Goto(p, "issue")
  /\ UNCHANGED <<tokens, tenantActive, served, passwords, unrevoked, forked, miscounted>>

\* lockedUntil has come.
LockExpires(u) ==
  /\ "guess" \in served
  /\ users[u].locked
  /\ users' = [users EXCEPT ![u].locked = FALSE]
  /\ lapsed' = lapsed \cup {u}
  /\ UNCHANGED <<tokens, tenantActive, req, served, passwords, unrevoked, forked, miscounted>>

\* Faulty: a session is named after the token before it.
IssueTokenNamedBefore(p) ==
  /\ req[p].pc = "issue"
  /\ Len(tokens) < MaxTokens
  /\ tokens' = Append(tokens, [user |-> req[p].user, session |-> Len(tokens), state |-> "live",
                               password |-> req[p].password, late |-> req[p].late])
  /\ Ends(p)
  /\ UNCHANGED <<users, tenantActive, served, history>>

\* createRefreshToken, for login (a new session) and refresh (the same one).
IssueToken(p) ==
  LET r == req[p] IN
  /\ r.pc = "issue"
  /\ Len(tokens) < MaxTokens
  /\ tokens' = Append(tokens,
       IF r.token = 0
       THEN [user |-> r.user, session |-> Len(tokens) + 1, state |-> "live",
             password |-> r.password, late |-> r.late]
       ELSE [tokens[r.token] EXCEPT !.state = "live", !.late = @ \/ r.late])
  /\ Ends(p)
  /\ UNCHANGED <<users, tenantActive, served, history>>

-----------------------------------------------------------------------------
(***************************************************************************)
(* AuthService: refresh, logout, changePassword                            *)
(***************************************************************************)

\* Faulty: a spent token is taken like any other.
RefreshReadAny(p, t) ==
  /\ t \in DOMAIN tokens
  /\ tokens[t].state # "expired"
  /\ Begin(p, "refresh", Ask("owner", "refresh", tokens[t].user, t, 0, 0))
  /\ UNCHANGED <<tables, served, history>>

\* A revoked token that is presented again closes every session of its user.
RefreshRead(p, t) ==
  /\ t \in DOMAIN tokens
  /\ tokens[t].state # "expired"
  /\ Begin(p, "refresh",
           Ask(IF tokens[t].state = "revoked" THEN "revokeAll" ELSE "owner",
               "refresh", tokens[t].user, t, 0, 0))
  /\ UNCHANGED <<tables, served, history>>

\* Faulty: the owner is not looked at.
RefreshOwnerAny(p) ==
  /\ req[p].pc = "owner"
  /\ Goto(p, "rotate")
  /\ UNCHANGED <<tables, served, history>>

\* The owner is found by id, deleted or not.
RefreshOwner(p) ==
  /\ req[p].pc = "owner"
  /\ IF users[req[p].user].isActive /\ tenantActive THEN Goto(p, "rotate") ELSE Ends(p)
  /\ UNCHANGED <<tables, served, history>>

\* Faulty: the old token stays.
RefreshRotateNothing(p) ==
  /\ req[p].pc = "rotate"
  /\ Goto(p, "issue")
  /\ UNCHANGED <<tables, served, history>>

\* The old token is revoked by id, whatever its state is by now.
RefreshRotate(p) ==
  LET t == req[p].token IN
  /\ req[p].pc = "rotate"
  /\ tokens' = [tokens EXCEPT ![t].state = IF @ = "expired" THEN @ ELSE "revoked"]
  /\ forked' = IF tokens[t].state = "live" THEN forked ELSE forked \cup {tokens[t].session}
  /\ Goto(p, "issue")
  /\ UNCHANGED <<users, tenantActive, served, passwords, unrevoked, lapsed, miscounted>>

\* Seven days have passed since the token was created.
Expire(t) ==
  /\ "expire" \in served
  /\ t \in DOMAIN tokens
  /\ \A older \in 1..(t - 1) : tokens[older].state = "expired"
  /\ tokens' = [tokens EXCEPT ![t].state = "expired"]
  /\ UNCHANGED <<users, tenantActive, req, served, history>>

logout(t) ==
  /\ "logout" \in served
  /\ t \in DOMAIN tokens
  /\ tokens[t].state = "live"
  /\ SignedIn(tokens[t].user)
  /\ tokens' = [tokens EXCEPT ![t].state = "revoked"]
  /\ UNCHANGED <<users, tenantActive, req, served, history>>

\* The user types the password in force, and it is compared with what was read.
changePassword(p, u) ==
  /\ SignedIn(u)
  /\ Begin(p, "change", Ask("change", "change", u, 0, 0, 0))
  /\ UNCHANGED <<tables, served, history>>

\* resetUserPassword of the super admin, who belongs to no brewery.
resetUserPassword(p, u) ==
  /\ Present(u)
  /\ Begin(p, "reset", Ask("reset", "reset", u, 0, 0, 0))
  /\ UNCHANGED <<tables, served, history>>

\* A new password is stored; the sessions are closed by the next await.
NewPassword(p) ==
  LET u == req[p].user IN
  /\ req[p].pc \in {"change", "reset"}
  /\ passwords < MaxPasswords
  /\ passwords' = passwords + 1
  /\ users' = [users EXCEPT ![u].password = passwords + 1, ![u].legacy = FALSE]
  /\ Overtakes(p, [req[p] EXCEPT !.pc = "revokeAll"], {u})
  /\ UNCHANGED <<tokens, tenantActive, served, unrevoked, lapsed, forked, miscounted>>

\* Faulty: only the session the request came with is closed.
RevokeOne(p) ==
  LET u == req[p].user IN
  /\ req[p].pc = "revokeAll"
  /\ tokens' = IF \E t \in DOMAIN tokens : tokens[t].user = u
               THEN LET t == CHOOSE t \in DOMAIN tokens : tokens[t].user = u
                    IN  [tokens EXCEPT ![t] = Closed(u, @)]
               ELSE tokens
  /\ unrevoked' = unrevoked \ {u}
  /\ Overtakes(p, Idle, {u})
  /\ UNCHANGED <<users, tenantActive, served, passwords, lapsed, forked, miscounted>>

\* updateMany, for a new password and for a token used twice.
RevokeAll(p) ==
  LET u == req[p].user IN
  /\ req[p].pc = "revokeAll"
  /\ tokens' = [t \in DOMAIN tokens |-> Closed(u, tokens[t])]
  /\ unrevoked' = unrevoked \ {u}
  /\ Overtakes(p, Idle, {u})
  /\ UNCHANGED <<users, tenantActive, served, passwords, lapsed, forked, miscounted>>

-----------------------------------------------------------------------------
(***************************************************************************)
(* UserService, the user part of SuperAdminService, and unlock-users.ts    *)
(***************************************************************************)

\* create, and createTenantAdmin, which makes an administrator: no live row
\* has the email.
create(p, u, role) ==
  /\ ~Present(u)
  /\ Begin(p, "create", Ask("insert", role, u, 0, 0, 0))
  /\ UNCHANGED <<tables, served, history>>

\* The unique index knows the deleted rows as well.
InsertUser(p) ==
  LET u == req[p].user IN
  /\ req[p].pc = "insert"
  /\ IF users[u].exists \/ passwords = MaxPasswords
     THEN UNCHANGED <<users, passwords>>
     ELSE /\ passwords' = passwords + 1
          /\ users' = [users EXCEPT ![u] = [Vacant EXCEPT !.exists = TRUE, !.isActive = TRUE,
                                              !.role = req[p].op, !.password = passwords + 1]]
  /\ Ends(p)
  /\ UNCHANGED <<tokens, tenantActive, served, unrevoked, lapsed, forked, miscounted>>

\* findById, and the checks on what it returned, of update, unlockAccount,
\* deactivate and delete.  Demoting, deactivating and deleting an
\* administrator counts the administrators next.
AskUser(p, u, op) ==
  /\ op \in Changes \cup {"deactivate", "delete", "unlock"}
  /\ AdminSignedIn
  /\ Present(u)
  /\ op = "unlock" => users[u].locked \/ users[u].attempts > 0
  /\ Begin(p, op, Ask(IF users[u].role = "ADMIN" /\ op \in {"demote", "deactivate", "delete"}
                      THEN "count" ELSE "write", op, u, 0, 0, 0))
  /\ UNCHANGED <<tables, served, history>>

\* activate finds deleted users too.
activate(p, u) ==
  /\ AdminSignedIn
  /\ users[u].exists
  /\ Begin(p, "activate", Ask("write", "activate", u, 0, 0, 0))
  /\ UNCHANGED <<tables, served, history>>

\* unlockUser of the super admin.
unlockUser(p, u) ==
  /\ Present(u)
  /\ Begin(p, "unlock", Ask("write", "unlock", u, 0, 0, 0))
  /\ UNCHANGED <<tables, served, history>>

\* Faulty: a deactivation does not count.
CountAdminsForDeleteOnly(p) ==
  LET left == IF req[p].op = "delete" THEN AdminRows ELSE Admins IN
  /\ req[p].pc = "count"
  /\ IF req[p].op = "delete" /\ Cardinality(left) <= 1 THEN Ends(p) ELSE Goto(p, "write")
  /\ UNCHANGED <<tables, served, history>>

CountAdmins(p) ==
  LET left == IF req[p].op = "delete" THEN AdminRows ELSE Admins IN
  /\ req[p].pc = "count"
  /\ IF Cardinality(left) <= 1 THEN Ends(p) ELSE Goto(p, "write")
  /\ UNCHANGED <<tables, served, history>>

\* What the update writes, by id.
Updated(a, op) ==
  CASE op = "demote" -> [a EXCEPT !.role = "OTHER"]
    [] op = "promote" -> [a EXCEPT !.role = "ADMIN"]
    [] op \in {"off", "deactivate"} -> [a EXCEPT !.isActive = FALSE]
    [] op \in {"on", "activate"} -> [a EXCEPT !.isActive = TRUE]
    [] op = "delete" -> [a EXCEPT !.deleted = TRUE, !.isActive = FALSE]
    [] op = "unlock" -> [a EXCEPT !.attempts = 0, !.locked = FALSE]

\* When an administrator is removed, the other requests have counted too many.
\* An update that only sets isActive to FALSE has counted nobody.
UserWrite(p) ==
  LET u == req[p].user
      off == req[p].op \in {"off", "deactivate", "delete"}
      removes == u \in AdminRows /\ (off \/ req[p].op = "demote") IN
  /\ req[p].pc = "write"
  /\ req[p].op # "password"
  /\ users' = [users EXCEPT ![u] = Updated(@, req[p].op)]
  /\ miscounted' = (miscounted \/ (removes /\ (req[p].op = "off" \/ req[p].late \/ AdminRows # Admins)))
  /\ lapsed' = IF req[p].op = "unlock" THEN lapsed \ {u} ELSE lapsed
  /\ Overtakes(p, Idle, CASE removes -> User [] off /\ ~removes -> {u} [] OTHER -> {})
  /\ UNCHANGED <<tokens, tenantActive, served, passwords, unrevoked, forked>>

\* update with a password: the hash is stored and no session is closed.
PasswordWrite(p) ==
  LET u == req[p].user IN
  /\ req[p].pc = "write"
  /\ req[p].op = "password"
  /\ passwords < MaxPasswords
  /\ passwords' = passwords + 1
  /\ users' = [users EXCEPT ![u].password = passwords + 1, ![u].legacy = FALSE]
  /\ unrevoked' = unrevoked \cup {u}
  /\ Overtakes(p, Idle, {u})
  /\ UNCHANGED <<tokens, tenantActive, served, lapsed, forked, miscounted>>

\* The script unlocks every account.
unlockUsers ==
  /\ "unlock" \in served
  /\ users' = [u \in User |-> [users[u] EXCEPT !.attempts = 0, !.locked = FALSE]]
  /\ lapsed' = {}
  /\ UNCHANGED <<tokens, tenantActive, req, served, passwords, unrevoked, forked, miscounted>>

\* The super admin suspends the brewery or lets it in again.
updateTenantStatus(isActive) ==
  /\ "tenant" \in served
  /\ tenantActive' = isActive
  /\ UNCHANGED <<users, tokens, req, served, history>>

-----------------------------------------------------------------------------
Init ==
  /\ users = [u \in User |->
       IF u = Founder THEN [Vacant EXCEPT !.exists = TRUE, !.role = "ADMIN",
                                          !.isActive = TRUE, !.legacy = LegacyHash]
       ELSE Vacant]
  /\ tokens = <<>>
  /\ tenantActive = TRUE
  /\ req = [p \in Proc |-> Idle]
  /\ served \in Serves
  /\ passwords = 0
  /\ unrevoked = {}
  /\ lapsed = {}
  /\ forked = {}
  /\ miscounted = FALSE

Login(p) ==
  \/ \E u \in User, right \in BOOLEAN : LoginRead(p, u, right)
  \/ LoginFail(p) \/ LoginRehash(p) \/ LoginWelcome(p) \/ IssueToken(p)

Refresh(p) ==
  \/ \E t \in 1..MaxTokens : RefreshRead(p, t)
  \/ RefreshOwner(p) \/ RefreshRotate(p)

Password(p) ==
  \/ \E u \in User : changePassword(p, u) \/ resetUserPassword(p, u)
  \/ NewPassword(p) \/ RevokeAll(p)

Administration(p) ==
  \/ \E u \in User, role \in Roles : create(p, u, role)
  \/ InsertUser(p)
  \/ \E u \in User, op \in Kinds : AskUser(p, u, op)
  \/ \E u \in User : activate(p, u) \/ unlockUser(p, u)
  \/ CountAdmins(p) \/ UserWrite(p) \/ PasswordWrite(p)

Next ==
  \/ \E p \in Proc : Login(p) \/ Refresh(p) \/ Password(p) \/ Administration(p) \/ Crash(p)
  \/ \E t \in 1..MaxTokens : Expire(t) \/ logout(t)
  \/ \E u \in User : LockExpires(u)
  \/ unlockUsers
  \/ \E isActive \in BOOLEAN : updateTenantStatus(isActive)

Spec == Init /\ [][Next]_vars

-----------------------------------------------------------------------------
(***************************************************************************)
(* Correctness                                                             *)
(***************************************************************************)

TypeOK ==
  /\ users \in [User -> Account]
  /\ tokens \in Seq(Token) /\ Len(tokens) <= MaxTokens
  /\ tenantActive \in BOOLEAN
  /\ req \in [Proc -> Request]
  /\ served \in Serves
  /\ passwords \in 0..MaxPasswords
  /\ unrevoked \subseteq User /\ lapsed \subseteq User
  /\ forked \subseteq 1..MaxTokens
  /\ miscounted \in BOOLEAN

Live == {t \in DOMAIN tokens : tokens[t].state = "live"}

\* A session that was opened with a password no longer in force is closed, or
\* about to be, unless its last token was issued by a request under way at
\* that time, or the password was set where no code closes sessions: by an
\* administrator's update, by the rehash of a login under way, or by a change
\* that was cut in two.
OldPasswordClosed ==
  \A t \in Live :
    \/ tokens[t].password = users[tokens[t].user].password
    \/ tokens[t].late
    \/ tokens[t].user \in unrevoked
    \/ \E p \in Proc : req[p].pc = "revokeAll" /\ req[p].user = tokens[t].user

\* A session has one refresh token of use, unless two refreshes held the same
\* token before either revoked it.
OneTokenPerSession ==
  \A t1, t2 \in Live :
    tokens[t1].session = tokens[t2].session => t1 = t2 \/ tokens[t1].session \in forked

\* No refresh issues a token to a deleted user, unless it was under way at
\* the deletion or the user was activated after it.
NoTokenForDeleted ==
  [][\A p \in Proc :
       LET u == req[p].user IN
       IssueToken(p) /\ users[u].deleted => users[u].isActive \/ req[p].late]_vars

\* Failed logins lock the account however they race.  One after the other,
\* four are counted without a lock; with n at a time each that read fewer
\* than four lifts the lock again, which lets the others in once more.
FailuresLock ==
  LET n == Cardinality(Proc) IN
  \A u \in User :
    ~users[u].locked /\ u \notin lapsed => users[u].attempts <= 4 + ((n - 1) * (n + 2)) \div 2

\* The brewery keeps an active administrator, unless two removals raced, the
\* count took in a deleted administrator who had been activated, or a plain
\* update switched one off, which counts nobody.
AdminRemains == Admins # {} \/ miscounted

\* Refresh tokens implement the ledger of sessions: a session is open while it
\* has a live token or a refresh of it is under way.
UnderWay(s) ==
  \E p \in Proc : /\ req[p].token # 0 /\ tokens[req[p].token].session = s
                  /\ req[p].pc \in {"owner", "rotate", "issue"}

Phase(s) ==
  IF s \notin DOMAIN tokens \/ tokens[s].session # s THEN "unused"
  ELSE IF UnderWay(s) \/ \E t \in Live : tokens[t].session = s THEN "open"
  ELSE "ended"

Ledger == INSTANCE SessionLedger WITH Session <- 1..MaxTokens,
                                      phase <- [s \in 1..MaxTokens |-> Phase(s)]

LedgerSpec == Ledger!Spec
=============================================================================
