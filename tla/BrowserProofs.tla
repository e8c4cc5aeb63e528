---------------------------- MODULE BrowserProofs ----------------------------
(***************************************************************************)
(* Proofs about Browser, for every number of users, calls and tokens: the  *)
(* browser in front of Accounts, whatever arrives at the server.           *)
(***************************************************************************)
EXTENDS Browser, AccountsProofs

-----------------------------------------------------------------------------
(***************************************************************************)
(* The browser is what arrives at the server, or it is never used.         *)
(***************************************************************************)

InUse == "browser" \in served

Unused ==
  /\ jar = EmptyJar /\ store = Nobody /\ screen = "login"
  /\ calls = [c \in Proc |-> NoCall]
  /\ cachedFor = Nobody /\ shown = Nobody
  /\ temporary = {} /\ ended = FALSE /\ crossed = FALSE /\ out = "in" /\ here = {}

Pages == {"call", "list", "me", "change"}

\* Cookies are of one token and its user, or there are none.
JarOK ==
  \/ jar = EmptyJar
  \/ jar.token \in DOMAIN tokens /\ jar.user = tokens[jar.token].user

\* A call and the request that serves it.
Bond(c) ==
  LET a == calls[c]  r == req[c] IN
  /\ a.pc = "entering" <=> r.op = "login"
  /\ a.pc = "refreshing" <=> r.op = "refresh"
  /\ a.pc = "changing" <=> r.op = "change"
  /\ r.op \in {"login", "refresh", "change", "-"} \cup Roles
  /\ r.pc = "idle" <=> r.op = "-"
  /\ r.op \in Roles => a.pc = "idle" /\ r.pc = "insert"
  /\ r.op = "login" => r.pc \in {"rehash", "welcome", "issue"} /\ r.token = 0 /\ a.user = r.user
  /\ r.op = "refresh" => /\ r.pc \in {"owner", "rotate", "revokeAll", "issue"}
                         /\ r.token \in DOMAIN tokens /\ r.user = tokens[r.token].user
  /\ r.op = "change" => r.pc \in {"change", "revokeAll"}

\* What a call is at each point.
CallOK(c) ==
  LET a == calls[c] IN
  /\ a.pc \in {"entering", "welcomed"} => a.what = "login"
  /\ a.pc \in {"denied", "refreshing", "renewed", "refused"} => a.what \in Pages
  /\ a.pc = "answered" => a.what \in {"call", "list", "me"} /\ a.user \in User
  /\ a.pc \in {"changing", "changed"} => a.what = "change"
  /\ a.pc \in {"welcomed", "renewed"} => a.token \in DOMAIN tokens
  /\ a.pc = "welcomed" => a.user = tokens[a.token].user
  /\ a.pc \in {"denied", "refused", "changed"} => a.waiting
  /\ a.pc = "idle" => ~a.waiting

CallsOK == JarOK /\ \A c \in Proc : Bond(c) /\ CallOK(c)

-----------------------------------------------------------------------------
\* Lists: whoever is on the screen, in the cache or about to be was here.
SeenCall(c) ==
  LET a == calls[c] IN
  a.pc = "answered" =>
    /\ a.what = "list" /\ (a.kept \/ a.waiting) => a.user \in here
    /\ a.what = "me" /\ a.waiting => jar.user \in here \cup {a.user, Nobody}

SeenHere ==
  /\ {shown, cachedFor} \subseteq here \cup {Nobody}
  /\ store # Nobody => jar.user \in here \cup {Nobody}
  /\ \A c \in Proc : SeenCall(c)

\* After a logout that was heard nothing is under way that brings cookies.
QuietCall(c) ==
  /\ req[c].op # "login"
  /\ req[c].op = "refresh" => req[c].pc = "revokeAll"
  /\ calls[c].pc \notin {"welcomed", "renewed"}

Silent ==
  out = "heard" =>
    /\ jar.token = 0 \/ tokens[jar.token].state # "live"
    /\ \A c \in Proc : QuietCall(c)

-----------------------------------------------------------------------------
\* Who has an account may use it, and whoever has a token has an account.
PeopleOK ==
  /\ \A u \in User : users[u].exists => users[u].isActive /\ ~users[u].deleted
  /\ \A t \in DOMAIN tokens : users[tokens[t].user].exists
  /\ \A c \in Proc : req[c].op = "login" => users[req[c].user].exists
  /\ ~ended => tenantActive

\* Whom the calls wait for: at the login only a login, and one that asks who
\* is here has the page to itself.
WaitOK(c) ==
  calls[c].waiting =>
    /\ screen = "login" <=> calls[c].what = "login"
    /\ calls[c].what \in {"login", "me"} => \A d \in Proc : calls[d].waiting => d = c
    /\ calls[c].what = "me" => store = Nobody

PagesOK ==
  /\ screen = "login" => store = Nobody
  /\ \A c \in Proc : WaitOK(c)

\* The token of the cookies is spent by the call c, and no other.
Turning(c) ==
  /\ tokens[jar.token].state # "expired"
  /\ \/ /\ calls[c].pc = "refreshing" /\ req[c].token = jar.token
        /\ req[c].pc \in {"owner", "rotate"} => tokens[jar.token].state = "live"
     \/ calls[c].pc = "renewed" /\ tokens[calls[c].token].state = "live"

\* While nothing ended the session and no refreshes crossed: there was no
\* session yet, or its token is live or being turned, and nothing is refused.
Session0 ==
  /\ jar.token = 0 /\ store = Nobody
  /\ \A c \in Proc : calls[c].pc \in {"idle", "denied", "refused", "entering", "welcomed"}

Session1 ==
  /\ jar.token # 0 /\ screen # "login"
  /\ \A c \in Proc : /\ req[c].pc # "revokeAll"
                     /\ calls[c].pc # "refused"
                     /\ calls[c].pc = "denied" => ~calls[c].again
  /\ \/ Renewing = {} /\ tokens[jar.token].state = "live"
     \/ \E c \in Proc : Renewing = {c} /\ Turning(c)

Sound == ~ended /\ ~crossed => Session0 \/ Session1

IInv ==
  /\ Typed /\ BrowserTypeOK
  /\ IF InUse THEN CallsOK /\ SeenHere /\ Silent /\ PeopleOK /\ PagesOK /\ Sound ELSE Unused

-----------------------------------------------------------------------------
(***************************************************************************)
(* What a step leaves alone                                                *)
(***************************************************************************)

\* The call q goes on, or its page goes.
Follows(q) ==
  calls'[q] \in {calls[q], Orphan(calls[q]), [Orphan(calls[q]) EXCEPT !.kept = FALSE]}

\* Tokens are only added, and the old ones are never live again.
TokensGrow ==
  \A t \in DOMAIN tokens :
    /\ t \in DOMAIN tokens' /\ tokens'[t].user = tokens[t].user
    /\ tokens'[t].state = "live" => tokens[t].state = "live"

\* A call that goes on is the one it was, or idle, or without its page.
LEMMA Followed ==
  ASSUME BrowserTypeOK, NEW q \in Proc, Follows(q)
  PROVE  /\ calls'[q] \in Call
         /\ calls'[q].pc # "idle" =>
              /\ calls'[q].pc = calls[q].pc /\ calls'[q].what = calls[q].what
              /\ calls'[q].user = calls[q].user /\ calls'[q].token = calls[q].token
              /\ calls'[q].again = calls[q].again
              /\ calls'[q].waiting => calls[q].waiting
              /\ calls'[q].kept => calls[q].kept
         /\ calls'[q].waiting \/ calls'[q].pc \in {"denied", "refused", "changed"} =>
              calls'[q] = calls[q]
         /\ calls'[q].pc = "idle" =>
              calls[q].pc \in {"idle", "denied", "refused", "changed", "answered"}
<1>1. calls[q] \in Call
  BY DEF BrowserTypeOK
<1>2. NoCall \in Call /\ NoCall.pc = "idle" /\ ~NoCall.waiting
  BY AccountsAssumption DEF NoCall, Call
<1>3. \/ /\ Orphan(calls[q]) = [calls[q] EXCEPT !.waiting = FALSE]
         /\ calls[q].pc \notin {"denied", "refused", "changed"}
      \/ Orphan(calls[q]) = NoCall /\ calls[q].pc \in {"denied", "refused", "changed", "answered"}
  BY DEF Orphan
<1>4. \A a \in Call :
        /\ [a EXCEPT !.kept = FALSE] \in Call
        /\ [a EXCEPT !.kept = FALSE].pc = a.pc /\ [a EXCEPT !.kept = FALSE].what = a.what
        /\ [a EXCEPT !.kept = FALSE].user = a.user /\ [a EXCEPT !.kept = FALSE].token = a.token
        /\ [a EXCEPT !.kept = FALSE].again = a.again
        /\ [a EXCEPT !.kept = FALSE].waiting = a.waiting /\ ~[a EXCEPT !.kept = FALSE].kept
  BY DEF Call
<1>5. \A a \in Call :
        /\ [a EXCEPT !.waiting = FALSE] \in Call
        /\ [a EXCEPT !.waiting = FALSE].pc = a.pc /\ [a EXCEPT !.waiting = FALSE].what = a.what
        /\ [a EXCEPT !.waiting = FALSE].user = a.user /\ [a EXCEPT !.waiting = FALSE].token = a.token
        /\ [a EXCEPT !.waiting = FALSE].again = a.again
        /\ [a EXCEPT !.waiting = FALSE].kept = a.kept /\ ~[a EXCEPT !.waiting = FALSE].waiting
  BY DEF Call
<1>6. CASE calls'[q] = calls[q]
  BY <1>1, <1>6
<1>7. CASE calls'[q] \in {NoCall, [NoCall EXCEPT !.kept = FALSE]}
           /\ calls[q].pc \in {"denied", "refused", "changed", "answered"}
  BY <1>2, <1>4, <1>7
<1>8. CASE calls'[q] \in {[calls[q] EXCEPT !.waiting = FALSE],
                         [[calls[q] EXCEPT !.waiting = FALSE] EXCEPT !.kept = FALSE]}
           /\ calls[q].pc \notin {"denied", "refused", "changed"}
  <2> DEFINE a == [calls[q] EXCEPT !.waiting = FALSE]
  <2>1. /\ a \in Call /\ a.pc = calls[q].pc /\ a.what = calls[q].what /\ a.user = calls[q].user
        /\ a.token = calls[q].token /\ a.again = calls[q].again /\ a.kept = calls[q].kept /\ ~a.waiting
    BY <1>1, <1>5
  <2>2. calls'[q] \in {a, [a EXCEPT !.kept = FALSE]}
    BY <1>8
  <2> HIDE DEF a
  <2>3. calls'[q] = a \/ calls'[q] = [a EXCEPT !.kept = FALSE]
    BY <2>2
  <2>4. CASE calls'[q] = a
    BY <1>8, <2>1, <2>4
  <2>5. CASE calls'[q] = [a EXCEPT !.kept = FALSE]
    BY <1>4, <1>8, <2>1, <2>5
  <2> QED
    BY <2>3, <2>4, <2>5
<1> QED
  BY <1>3, <1>6, <1>7, <1>8 DEF Follows

\* ... and so is the request that serves it, at most later by now.
LEMMA CallStays ==
  ASSUME BrowserTypeOK, TokensGrow, NEW q \in Proc, Bond(q), CallOK(q), Follows(q), Onlooker(q)
  PROVE  Bond(q)' /\ CallOK(q)'
<1> DEFINE a == calls[q]
           b == calls'[q]
<1>1. /\ b.pc # "idle" => /\ b.pc = a.pc /\ b.what = a.what /\ b.user = a.user /\ b.token = a.token
      /\ b.pc \in {"denied", "refused", "changed"} => b.waiting = a.waiting
      /\ b.waiting => b = a
      /\ b.pc = "idle" => a.pc \in {"idle", "denied", "refused", "changed", "answered"}
  BY Followed
<1>2. /\ req'[q].pc = req[q].pc /\ req'[q].op = req[q].op /\ req'[q].user = req[q].user
      /\ req'[q].token = req[q].token
  BY DEF Onlooker
<1> HIDE DEF a, b
<1>3. b.pc \in {"entering", "refreshing", "changing"} \/ a.pc \in {"entering", "refreshing", "changing"}
        => b.pc = a.pc /\ b.user = a.user
  BY <1>1
<1>4. req[q].op \in Roles => b.pc = "idle"
  BY <1>1 DEF Bond, Roles, a
<1>5. Bond(q)'
  BY <1>2, <1>3, <1>4 DEF Bond, a, b, TokensGrow, Roles
<1>6. /\ b.pc = "idle" => ~b.waiting
      /\ b.pc \in {"denied", "refused", "changed"} => b.waiting
  BY <1>1 DEF CallOK, a
<1>7. CallOK(q)'
  BY <1>1, <1>6 DEF CallOK, a, b, TokensGrow
<1> QED
  BY <1>5, <1>7

\* The tokens and the requests of the steps of Accounts.
LEMMA SameGrow ==
  ASSUME SameTokens
  PROVE  TokensGrow
BY DEF SameTokens, TokensGrow

LEMMA StepGrow ==
  ASSUME Typed, NEW p \in Proc, Arrives(p) \/ Continues(p) \/ Aside \/ UNCHANGED tokens
  PROVE  TokensGrow
<1>1. SameTokens \/ IssueToken(p)
  BY SameTokensStep DEF Typed
<1>2. CASE IssueToken(p)
  BY <1>2, Issued DEF Typed, TokensGrow
<1> QED
  BY <1>1, <1>2, SameGrow

\* A sequence is as long as its domain.
LEMMA LenIs ==
  ASSUME Typed', NEW n \in Nat, DOMAIN tokens' = 1..n
  PROVE  Len(tokens') = n
<1>1. DOMAIN tokens' = 1..Len(tokens') /\ Len(tokens') \in Nat
  BY LenProperties DEF Typed, TypeOK
<1> QED
  BY <1>1

\* The accounts of a browser are made and keep their access.
PeopleStay ==
  \A u \in User :
    /\ users[u].exists => users'[u].exists
    /\ users'[u].exists => users'[u].isActive /\ ~users'[u].deleted

LEMMA SameUsers ==
  ASSUME PeopleOK, UNCHANGED users
  PROVE  PeopleStay
BY DEF PeopleOK, PeopleStay

\* The row of a user whose password, attempts and lock are rewritten.
LEMMA RowStays ==
  ASSUME Typed, PeopleOK, NEW u \in User, NEW a \in Account,
         a.exists = users[u].exists, a.isActive = users[u].isActive, a.deleted = users[u].deleted,
         users' = [users EXCEPT ![u] = a]
  PROVE  PeopleStay
BY DEF Typed, TypeOK, PeopleOK, PeopleStay

-----------------------------------------------------------------------------
(***************************************************************************)
(* The steps of the server                                                 *)
(***************************************************************************)

\* The request of the call c goes on.
Moves(c) ==
  /\ calls' = calls
  /\ req'[c].op = req[c].op /\ req'[c].user = req[c].user /\ req'[c].token = req[c].token
  /\ \/ req[c].pc = "rehash" /\ req'[c].pc = "welcome" /\ UNCHANGED tokens
     \/ req[c].pc = "welcome" /\ req'[c].pc = "issue" /\ UNCHANGED tokens
     \/ req[c].pc = "owner" /\ req'[c].pc = "rotate" /\ UNCHANGED tokens
     \/ req[c].pc = "change" /\ req'[c].pc = "revokeAll" /\ UNCHANGED tokens
     \/ /\ req[c].pc = "rotate" /\ req'[c].pc = "issue"
        /\ tokens' = [tokens EXCEPT ![req[c].token].state = IF @ = "expired" THEN @ ELSE "revoked"]

\* It ends with a token, ...
Brings(c) ==
  LET n == Len(tokens) + 1 IN
  /\ req[c].pc = "issue" /\ req'[c] = Idle
  /\ DOMAIN tokens' = 1..n /\ n \in 1..MaxTokens
  /\ \A t \in DOMAIN tokens : tokens'[t] = tokens[t]
  /\ tokens'[n].user = req[c].user /\ tokens'[n].state = "live"
  /\ calls' = [calls EXCEPT ![c] =
       [calls[c] EXCEPT !.pc = IF calls[c].pc = "entering" THEN "welcomed" ELSE "renewed",
                        !.token = n]]

\* ... or without one.
EndsAs(c, end) ==
  /\ req'[c] = Idle
  /\ calls' = [calls EXCEPT ![c] =
       IF calls[c].waiting THEN [calls[c] EXCEPT !.pc = end, !.token = 0] ELSE NoCall]

Closes(c) ==
  /\ req[c].pc = "revokeAll"
  /\ DOMAIN tokens' = DOMAIN tokens
  /\ \A t \in DOMAIN tokens : tokens'[t].state = "expired" => tokens[t].state = "expired"
  /\ EndsAs(c, IF calls[c].pc = "changing" THEN "changed" ELSE "refused")

Refuses(c) ==
  /\ req[c].pc = "owner" /\ ~(users[req[c].user].isActive /\ tenantActive)
  /\ UNCHANGED tokens
  /\ EndsAs(c, "refused")

LEMMA ServeIs ==
  ASSUME NEW c \in Proc, Serve(c)
  PROVE  Continues(c) /\ UNCHANGED <<served, tenantActive>>
BY DEF Serve, Continues, RefreshOwner, RefreshRotate, RevokeAll, LoginRehash, LoginWelcome, IssueToken,
       NewPassword, tables

LEMMA ServeTypes ==
  ASSUME Typed, NEW c \in Proc, Serve(c)
  PROVE  Typed' /\ TokensGrow
<1>1. Next
  BY ServeIs, Steps3
<1> QED
  BY <1>1, ServeIs, TypeStep, StepGrow

LEMMA ServePeople ==
  ASSUME Typed, CallsOK, PeopleOK, NEW c \in Proc, Serve(c)
  PROVE  PeopleStay
<1>1. /\ req[c].user \in User /\ users[req[c].user] \in Account /\ users \in [User -> Account]
      /\ req[c].password \in 0..MaxPasswords /\ passwords \in 0..MaxPasswords
  BY Fields DEF Typed, TypeOK
<1> DEFINE a == users[req[c].user]
<1>2. CASE LoginRehash(c)
  <2> DEFINE b == [a EXCEPT !.password = req[c].password, !.legacy = FALSE]
  <2>1. b \in Account /\ b.exists = a.exists /\ b.isActive = a.isActive /\ b.deleted = a.deleted
    BY <1>1 DEF Account
  <2>2. users' = [users EXCEPT ![req[c].user] = b]
    BY <1>1, <1>2 DEF LoginRehash
  <2> HIDE DEF b
  <2> QED
    BY <1>1, <2>1, <2>2, RowStays
<1>3. CASE LoginWelcome(c)
  <2> DEFINE b == [a EXCEPT !.attempts = 0, !.locked = FALSE]
  <2>1. b \in Account /\ b.exists = a.exists /\ b.isActive = a.isActive /\ b.deleted = a.deleted
    <3>1. 0 \in 0..MaxAttempts
      BY AccountsAssumption
    <3> QED
      BY <1>1, <3>1 DEF Account
  <2>2. users' = [users EXCEPT ![req[c].user] = b]
    BY <1>1, <1>3 DEF LoginWelcome
  <2> HIDE DEF b
  <2> QED
    BY <1>1, <2>1, <2>2, RowStays
<1>4. CASE NewPassword(c)
  <2> DEFINE b == [a EXCEPT !.password = passwords + 1, !.legacy = FALSE]
  <2>1. passwords + 1 \in 0..MaxPasswords
    BY <1>1, <1>4, AccountsAssumption DEF NewPassword
  <2>2. b \in Account /\ b.exists = a.exists /\ b.isActive = a.isActive /\ b.deleted = a.deleted
    BY <1>1, <2>1 DEF Account
  <2>3. users' = [users EXCEPT ![req[c].user] = b]
    BY <1>1, <1>4 DEF NewPassword
  <2> HIDE DEF b
  <2> QED
    BY <1>1, <2>2, <2>3, RowStays
<1>5. CASE UNCHANGED users
  BY <1>5, SameUsers
<1> QED
  BY <1>2, <1>3, <1>4, <1>5
  DEF Serve, RefreshOwner, RefreshRotate, RevokeAll, IssueToken, tables

LEMMA ServeDoes ==
  ASSUME Typed, BrowserTypeOK, CallsOK, NEW c \in Proc, Serve(c)
  PROVE  /\ \A q \in Proc \ {c} : Onlooker(q) /\ calls'[q] = calls[q]
         /\ Moves(c) \/ Brings(c) \/ Closes(c) \/ Refuses(c)
         /\ calls[c].pc \in {"entering", "refreshing", "changing"}
<1>1. /\ TypeOK /\ RequestOK /\ Bond(c) /\ req[c] \in Request /\ calls \in [Proc -> Call]
      /\ \A t \in DOMAIN tokens : tokens[t] \in Token
  BY Fields DEF Typed, CallsOK, BrowserTypeOK
<1>2. Idle.pc = "idle"
  BY IdleType
<1>3. calls[c].pc \in {"entering", "refreshing", "changing"}
  BY <1>1 DEF Serve, Bond
<1>4. calls' = IF req'[c].pc # "idle" THEN calls
               ELSE LET end == CASE calls[c].pc = "entering" -> "welcomed"
                                 [] calls[c].pc = "changing" -> "changed"
                                 [] calls[c].pc \notin {"entering", "changing"} /\ Len(tokens') > Len(tokens) ->
                                      "renewed"
                                 [] OTHER -> "refused"
                        a == [calls[c] EXCEPT !.pc = end,
                                !.token = IF end \in {"welcomed", "renewed"} THEN Len(tokens') ELSE 0]
                    IN  [calls EXCEPT ![c] = IF a.waiting THEN a ELSE Orphan(a)]
  BY DEF Serve
<1>5. \A q \in Proc \ {c} : calls'[q] = calls[q]
  BY <1>1, <1>4
<1>6. CASE LoginRehash(c)
  <2>1. req'[c] = [req[c] EXCEPT !.pc = "welcome"] /\ \A q \in Proc \ {c} : Onlooker(q)
    BY <1>1, <1>6, OvertakesOthers DEF LoginRehash
  <2>2. Moves(c)
    BY <1>1, <1>4, <1>6, <2>1 DEF LoginRehash, Moves, Request
  <2> QED
    BY <1>3, <1>5, <2>1, <2>2
<1>7. CASE LoginWelcome(c)
  <2>1. Goto(c, "issue") /\ req[c].pc = "welcome" /\ UNCHANGED tokens
    BY <1>7 DEF LoginWelcome
  <2>2. /\ req'[c].pc = "issue" /\ req'[c].op = req[c].op /\ req'[c].user = req[c].user
        /\ req'[c].token = req[c].token
        /\ \A q \in Proc \ {c} : Onlooker(q)
    BY <1>1, <2>1, GotoOthers
  <2>3. calls' = calls
    BY <1>4, <2>2
  <2>4. Moves(c)
    BY <2>1, <2>2, <2>3 DEF Moves
  <2> QED
    BY <1>3, <1>5, <2>2, <2>4
<1>8. CASE NewPassword(c)
  <2>1. req'[c] = [req[c] EXCEPT !.pc = "revokeAll"] /\ \A q \in Proc \ {c} : Onlooker(q)
    BY <1>1, <1>8, OvertakesOthers DEF NewPassword
  <2>2. req[c].pc = "change" /\ UNCHANGED tokens
    BY <1>1, <1>8 DEF NewPassword, Bond, Serve, Roles
  <2>3. Moves(c)
    BY <1>1, <1>4, <2>1, <2>2 DEF Moves, Request
  <2> QED
    BY <1>3, <1>5, <2>1, <2>3
<1>9. CASE RefreshRotate(c)
  <2>1. /\ Goto(c, "issue") /\ req[c].pc = "rotate"
        /\ tokens' = [tokens EXCEPT ![req[c].token].state = IF @ = "expired" THEN @ ELSE "revoked"]
    BY <1>9 DEF RefreshRotate
  <2>2. /\ req'[c].pc = "issue" /\ req'[c].op = req[c].op /\ req'[c].user = req[c].user
        /\ req'[c].token = req[c].token
        /\ \A q \in Proc \ {c} : Onlooker(q)
    BY <1>1, <2>1, GotoOthers
  <2>3. calls' = calls
    BY <1>4, <2>2
  <2>4. Moves(c)
    BY <2>1, <2>2, <2>3 DEF Moves
  <2> QED
    BY <1>3, <1>5, <2>2, <2>4
<1>10. CASE RefreshOwner(c) /\ users[req[c].user].isActive /\ tenantActive
  <2>1. Goto(c, "rotate") /\ req[c].pc = "owner" /\ UNCHANGED tokens
    BY <1>10 DEF RefreshOwner, tables
  <2>2. /\ req'[c].pc = "rotate" /\ req'[c].op = req[c].op /\ req'[c].user = req[c].user
        /\ req'[c].token = req[c].token
        /\ \A q \in Proc \ {c} : Onlooker(q)
    BY <1>1, <2>1, GotoOthers
  <2>3. calls' = calls
    BY <1>4, <2>2
  <2>4. Moves(c)
    BY <2>1, <2>2, <2>3 DEF Moves
  <2> QED
    BY <1>3, <1>5, <2>2, <2>4
<1>11. CASE RefreshOwner(c) /\ ~(users[req[c].user].isActive /\ tenantActive)
  <2>1. Ends(c) /\ req[c].pc = "owner" /\ UNCHANGED tokens
    BY <1>11 DEF RefreshOwner, tables
  <2>2. req'[c] = Idle /\ \A q \in Proc \ {c} : Onlooker(q)
    BY <1>1, <2>1, EndsOthers
  <2>3. calls[c].pc = "refreshing"
    BY <1>1, <1>3, <2>1 DEF Bond
  <2>4. calls' = [calls EXCEPT ![c] =
           LET a == [calls[c] EXCEPT !.pc = "refused", !.token = 0]
           IN  IF a.waiting THEN a ELSE Orphan(a)]
    <3>1. req'[c].pc = "idle" /\ ~(Len(tokens') > Len(tokens))
      BY <1>1, <1>2, <2>1, <2>2, Fields
    <3> QED
      BY <1>4, <2>3, <3>1
  <2>5. Refuses(c)
    BY <1>1, <1>11, <2>1, <2>2, <2>4 DEF Refuses, EndsAs, Orphan, Call
  <2> QED
    BY <1>3, <1>5, <2>2, <2>5
<1>12. CASE RevokeAll(c)
  <2>1. req'[c] = Idle /\ req[c].pc = "revokeAll" /\ \A q \in Proc \ {c} : Onlooker(q)
    BY <1>1, <1>12, OvertakesOthers DEF RevokeAll
  <2>2. calls[c].pc \in {"refreshing", "changing"}
    BY <1>1, <1>3, <2>1 DEF Bond
  <2>3. tokens' = [t \in DOMAIN tokens |-> Closed(req[c].user, tokens[t])]
    BY <1>12 DEF RevokeAll
  <2>4. /\ DOMAIN tokens' = DOMAIN tokens
        /\ \A t \in DOMAIN tokens : tokens'[t].state = "expired" => tokens[t].state = "expired"
    BY <1>1, <2>3 DEF Closed, Token
  <2>5. Len(tokens') = Len(tokens)
    <3>1. Typed' /\ Len(tokens) \in Nat /\ DOMAIN tokens' = 1..Len(tokens)
      BY <1>1, <2>4, ServeTypes, Fields
    <3> QED
      BY <3>1, LenIs
  <2> DEFINE end == IF calls[c].pc = "changing" THEN "changed" ELSE "refused"
  <2>6. calls' = [calls EXCEPT ![c] =
           LET a == [calls[c] EXCEPT !.pc = end, !.token = 0]
           IN  IF a.waiting THEN a ELSE Orphan(a)]
    <3>1. ~(Len(tokens') > Len(tokens))
      BY <1>1, <2>5, Fields
    <3>2. CASE calls[c].pc = "changing"
      BY <1>2, <1>4, <2>1, <3>2
    <3>3. CASE calls[c].pc = "refreshing"
      BY <1>2, <1>4, <2>1, <3>1, <3>3
    <3> QED
      BY <2>2, <3>2, <3>3
  <2>7. Closes(c)
    BY <1>1, <2>1, <2>4, <2>6 DEF Closes, EndsAs, Orphan, Call
  <2> QED
    BY <1>3, <1>5, <2>1, <2>7
<1>13. CASE IssueToken(c)
  <2>1. req[c].pc = "issue" /\ Ends(c)
    BY <1>13 DEF IssueToken
  <2>2. req'[c] = Idle /\ \A q \in Proc \ {c} : Onlooker(q)
    BY <1>1, <2>1, EndsOthers
  <2>3. calls[c].pc \in {"entering", "refreshing"}
    BY <1>1, <1>3, <2>1 DEF Bond
  <2> DEFINE n == Len(tokens) + 1
  <2>4. /\ n \in 1..MaxTokens /\ DOMAIN tokens' = 1..n
        /\ \A t \in DOMAIN tokens : tokens'[t] = tokens[t]
        /\ tokens'[n].state = "live"
        /\ tokens'[n].user = req[c].user
    <3>1. calls[c].pc = "entering" => req[c].token = 0
      BY <1>1 DEF Bond
    <3>2. calls[c].pc = "refreshing" => req[c].token \in DOMAIN tokens /\ req[c].user = tokens[req[c].token].user
      BY <1>1 DEF Bond
    <3> QED
      BY <1>1, <1>13, <2>3, <3>1, <3>2, Issued, Fields
  <2>5. Len(tokens') = n /\ Len(tokens') > Len(tokens)
    BY <1>1, <2>4, ServeTypes, LenIs, Fields
  <2> DEFINE end == IF calls[c].pc = "entering" THEN "welcomed" ELSE "renewed"
  <2>6. calls' = [calls EXCEPT ![c] =
           LET a == [calls[c] EXCEPT !.pc = end, !.token = n]
           IN  IF a.waiting THEN a ELSE Orphan(a)]
    <3>2. CASE calls[c].pc = "entering"
      BY <1>2, <1>4, <2>2, <2>5, <3>2
    <3>3. CASE calls[c].pc = "refreshing"
      BY <1>2, <1>4, <2>2, <2>5, <3>3
    <3> QED
      BY <2>3, <3>2, <3>3
  <2>7. calls' = [calls EXCEPT ![c] = [calls[c] EXCEPT !.pc = end, !.token = n]]
    <3> DEFINE a == [calls[c] EXCEPT !.pc = end, !.token = n]
    <3>1. calls[c] \in Call /\ a.waiting = calls[c].waiting /\ a.pc = end
      BY <1>1 DEF Call
    <3>2. ~a.waiting => Orphan(a) = a
      <4>1. ~a.waiting => Orphan(a) = [a EXCEPT !.waiting = FALSE]
        BY <3>1 DEF Orphan
      <4>2. ~calls[c].waiting => [a EXCEPT !.waiting = FALSE] = a
        BY <3>1 DEF Call
      <4> QED
        BY <3>1, <4>1, <4>2
    <3> QED
      BY <2>6, <3>2
  <2>8. Brings(c)
    BY <2>1, <2>2, <2>4, <2>7 DEF Brings
  <2> QED
    BY <1>3, <1>5, <2>2, <2>8
<1> QED
  BY <1>6, <1>7, <1>8, <1>9, <1>10, <1>11, <1>12, <1>13 DEF Serve

-----------------------------------------------------------------------------
(***************************************************************************)
(* Types, and what a call is                                               *)
(***************************************************************************)

JarType == [user : User \cup {Nobody}, token : 0..MaxTokens, access : BOOLEAN]

LEMMA NoneType ==
  /\ NoCall \in Call /\ NoCall.pc = "idle" /\ NoCall.what = "call" /\ ~NoCall.waiting
  /\ NoCall.user = Nobody /\ NoCall.token = 0
  /\ EmptyJar \in JarType /\ EmptyJar.token = 0 /\ EmptyJar.user = Nobody /\ ~EmptyJar.access
BY AccountsAssumption DEF NoCall, Call, EmptyJar, JarType

\* What a page sends is answered to the user of its cookies, or denied.
LEMMA SentIs ==
  ASSUME NEW what \in Pages, NEW again \in BOOLEAN, NEW j \in JarType, j.access => j.user \in User
  PROVE  LET s == Sent(what, again, j) IN
         /\ s \in Call /\ s.what = what /\ s.waiting /\ s.kept
         /\ \/ Authorized(j) /\ s.pc = "answered" /\ s.user = j.user /\ j.user \in User
            \/ ~Authorized(j) /\ s.pc = "denied" /\ s.again = again
<1>1. CASE Authorized(j)
  <2>1. j.user \in User
    BY <1>1 DEF Authorized
  <2> QED
    BY <1>1, <2>1, NoneType DEF Sent, Call, Pages, NoCall
<1>2. CASE ~Authorized(j)
  BY <1>2, NoneType DEF Sent, Call, Pages, NoCall
<1> QED
  BY <1>1, <1>2

\* The cookies that a token brings.
LEMMA CookiesAre ==
  ASSUME Typed, NEW t \in DOMAIN tokens
  PROVE  /\ Cookies(t) \in JarType /\ Cookies(t).token = t /\ Cookies(t).token # 0
         /\ Cookies(t).user = tokens[t].user /\ Cookies(t).user \in User /\ Cookies(t).access
<1>1. t \in 1..MaxTokens /\ tokens[t].user \in User
  BY Fields, AccountsAssumption DEF Typed
<1> QED
  BY <1>1 DEF Cookies, JarType

LEMMA JarIs ==
  ASSUME Typed, BrowserTypeOK, CallsOK
  PROVE  /\ jar \in JarType
         /\ jar.access => jar.user \in User
         /\ jar.token = 0 => jar = EmptyJar
         /\ jar.token # 0 => jar.token \in DOMAIN tokens /\ jar.user = tokens[jar.token].user
                             /\ jar.user \in User
<1>1. jar \in JarType
  BY DEF BrowserTypeOK, JarType
<1>2. DOMAIN tokens = 1..Len(tokens) /\ \A t \in DOMAIN tokens : tokens[t].user \in User
  BY Fields DEF Typed
<1>3. Len(tokens) \in Nat
  BY Fields, AccountsAssumption DEF Typed
<1> QED
  BY <1>1, <1>2, <1>3, NoneType DEF CallsOK, JarOK

\* Nothing arrives at the server.
LEMMA Quiet ==
  ASSUME Typed, UNCHANGED vars
  PROVE  Typed' /\ TokensGrow /\ \A q \in Proc : Onlooker(q)
<1>1. Typed'
  BY TypeStep
<1>2. UNCHANGED <<tokens, req>>
  BY DEF vars, tables
<1>3. \A q \in Proc : req[q].late \in BOOLEAN
  BY Fields DEF Typed
<1> QED
  BY <1>1, <1>2, <1>3 DEF TokensGrow, Onlooker

\* A request arrives from the call c.
LEMMA Asks ==
  ASSUME Typed, NEW c \in Proc, Arrives(c)
  PROVE  /\ Typed' /\ TokensGrow /\ UNCHANGED <<tables, served, history>>
         /\ \A q \in Proc \ {c} : Onlooker(q)
<1>1. Next
  BY Steps3
<1>2. PICK kind, r : Begin(c, kind, r) /\ UNCHANGED <<tables, served, history>>
  BY Arrival DEF Typed
<1>3. req' = [req EXCEPT ![c] = r]
  BY <1>2 DEF Begin
<1> QED
  BY <1>1, <1>2, <1>3, TypeStep, StepGrow, SlotOthers DEF Typed

\* The screen and the lists are of their types.
ScreenOK ==
  /\ store \in User \cup {Nobody} /\ screen \in {"login", "change", "app"}
  /\ {cachedFor, shown} \subseteq User \cup {Nobody}
  /\ temporary \subseteq User /\ here \subseteq User
  /\ ended \in BOOLEAN /\ crossed \in BOOLEAN /\ out \in {"in", "heard", "unheard"}

\* What a step owes: types, cookies, and the call that it is about.
LEMMA WellDone ==
  ASSUME Typed, BrowserTypeOK, CallsOK, Typed', TokensGrow,
         ScreenOK', jar' \in JarType, JarOK', calls' \in [Proc -> Call],
         \A q \in Proc : (Onlooker(q) /\ Follows(q)) \/ (Bond(q)' /\ CallOK(q)')
  PROVE  BrowserTypeOK' /\ CallsOK'
<1>1. ASSUME NEW q \in Proc
      PROVE  Bond(q)' /\ CallOK(q)'
  <2>1. Bond(q) /\ CallOK(q)
    BY DEF CallsOK
  <2>2. CASE Bond(q)' /\ CallOK(q)'
    BY <2>2
  <2>3. CASE Onlooker(q) /\ Follows(q)
    BY <2>1, <2>3, CallStays
  <2> QED
    BY <2>2, <2>3
<1>2. CallsOK'
  BY <1>1 DEF CallsOK
<1>3. jar'.token # 0 => jar'.token <= Len(tokens') /\ tokens'[jar'.token].user = jar'.user
  <2>1. DOMAIN tokens' = 1..Len(tokens') /\ Len(tokens') \in Nat
    BY LenProperties DEF Typed, TypeOK
  <2> QED
    BY <2>1, NoneType DEF JarOK
<1>4. BrowserTypeOK'
  BY <1>3 DEF BrowserTypeOK, ScreenOK, JarType
<1> QED
  BY <1>2, <1>4

\* Cookies that stay, but for the age of the access token.
LEMMA JarStays ==
  ASSUME Typed, BrowserTypeOK, CallsOK, TokensGrow,
         jar' = jar \/ jar' = EmptyJar
  PROVE  jar' \in JarType /\ JarOK'
<1>1. jar \in JarType /\ JarOK
  BY JarIs DEF CallsOK
<1>2. EmptyJar \in JarType /\ EmptyJar' = EmptyJar
  BY NoneType DEF EmptyJar
<1>3. CASE jar' = EmptyJar
  BY <1>2, <1>3 DEF JarOK
<1>4. CASE jar' = jar
  BY <1>1, <1>2, <1>4 DEF JarOK, TokensGrow
<1> QED
  BY <1>3, <1>4

LEMMA ScreenIs ==
  ASSUME BrowserTypeOK
  PROVE  ScreenOK
BY DEF BrowserTypeOK, ScreenOK

-----------------------------------------------------------------------------
\* The state before a step of the browser.
Before == Typed /\ BrowserTypeOK /\ CallsOK

Well == Typed' /\ TokensGrow /\ BrowserTypeOK' /\ CallsOK'

LEMMA BeforeIs ==
  ASSUME Before
  PROVE  /\ Typed /\ BrowserTypeOK /\ CallsOK /\ ScreenOK
         /\ calls \in [Proc -> Call] /\ \A q \in Proc : calls[q] \in Call /\ Bond(q) /\ CallOK(q)
         /\ jar \in JarType /\ JarOK
         /\ jar.access => jar.user \in User
         /\ jar.token # 0 => jar.token \in DOMAIN tokens
BY JarIs, ScreenIs DEF Before, BrowserTypeOK, CallsOK

\* One call changes, and nothing arrives at the server.
LEMMA OneCall ==
  ASSUME Before, NEW c \in Proc, NEW a \in Call, calls' = [calls EXCEPT ![c] = a],
         UNCHANGED vars, ScreenOK', jar' \in JarType, JarOK', Bond(c)', CallOK(c)'
  PROVE  Well
<1>1. Typed /\ BrowserTypeOK /\ CallsOK /\ calls \in [Proc -> Call]
  BY BeforeIs
<1>2. Typed' /\ TokensGrow /\ \A q \in Proc : Onlooker(q)
  BY <1>1, Quiet
<1>3. /\ calls' \in [Proc -> Call]
      /\ \A q \in Proc : (Onlooker(q) /\ Follows(q)) \/ (Bond(q)' /\ CallOK(q)')
  BY <1>1, <1>2 DEF Follows
<1> QED
  BY <1>1, <1>2, <1>3, WellDone DEF Well

\* The page goes, and with it its calls, but for what becomes of c.
LEMMA PageGoes ==
  ASSUME Before, NEW c \in Proc, NEW a \in Call, calls' = [Gone EXCEPT ![c] = a],
         UNCHANGED vars, ScreenOK', jar' \in JarType, JarOK', Bond(c)', CallOK(c)'
  PROVE  Well
<1>1. Typed /\ BrowserTypeOK /\ CallsOK /\ \A q \in Proc : calls[q] \in Call
  BY BeforeIs
<1>2. Typed' /\ TokensGrow /\ \A q \in Proc : Onlooker(q)
  BY <1>1, Quiet
<1>3. \A q \in Proc : Orphan(calls[q]) \in Call
  <2>1. \A b \in Call : [b EXCEPT !.waiting = FALSE] \in Call
    BY DEF Call
  <2> QED
    BY <1>1, <2>1, NoneType DEF Orphan
<1>4. /\ calls' \in [Proc -> Call]
      /\ \A q \in Proc : (Onlooker(q) /\ Follows(q)) \/ (Bond(q)' /\ CallOK(q)')
  BY <1>1, <1>2, <1>3 DEF Follows, Gone
<1> QED
  BY <1>1, <1>2, <1>4, WellDone DEF Well

\* A call whose request is not at the server.
Alone(a) == a.pc \notin {"entering", "refreshing", "changing"}

LEMMA AloneBond ==
  ASSUME NEW c \in Proc, Bond(c), UNCHANGED <<tokens, req>>,
         Alone(calls[c]), Alone(calls'[c]), req[c].op \in Roles => calls'[c].pc = "idle"
  PROVE  Bond(c)'
BY DEF Bond, Alone, Roles

\* A call that is not idle and not at the server has no request.
LEMMA NotOthers ==
  ASSUME NEW c \in Proc, Bond(c), Alone(calls[c]), calls[c].pc # "idle" \/ req[c].pc = "idle"
  PROVE  req[c].op = "-" /\ req[c].pc = "idle"
BY DEF Bond, Alone, Roles

LEMMA AskWell ==
  ASSUME Before, NEW c \in Proc, NEW what \in {"call", "list"}, NEW fromCache \in BOOLEAN,
         PageAsks(c, what, fromCache)
  PROVE  Well
<1> DEFINE s == Sent(what, FALSE, jar)
           a == IF fromCache THEN Orphan(s) ELSE s
<1>1. /\ calls' = [calls EXCEPT ![c] = a] /\ UNCHANGED vars
      /\ calls[c].pc = "idle" /\ req[c].pc = "idle"
      /\ UNCHANGED <<jar, store, screen, cachedFor, temporary, story>>
      /\ shown' \in {shown, cachedFor} /\ (fromCache => what = "list")
  BY DEF PageAsks, Free
<1>2. /\ s \in Call /\ s.what = what
      /\ (s.pc = "answered" /\ s.user \in User) \/ s.pc = "denied"
      /\ s.waiting
  <2>1. what \in Pages /\ jar \in JarType
    BY BeforeIs DEF Pages
  <2>2. jar.access => jar.user \in User
    BY BeforeIs
  <2> QED
    BY <2>1, <2>2, SentIs
<1>3. /\ a \in Call /\ a.pc \in {"answered", "denied", "idle"}
      /\ a.pc = "answered" => a.what = what /\ a.user \in User
      /\ a.pc = "denied" => a.what = what /\ a.waiting
      /\ a.pc = "idle" => ~a.waiting
  <2> HIDE DEF s
  <2>1. Orphan(s) = NoCall \/ (Orphan(s) = [s EXCEPT !.waiting = FALSE] /\ s.pc = "answered")
    BY <1>2 DEF Orphan
  <2> QED
    BY <1>2, <2>1, NoneType DEF Call
<1> HIDE DEF a
<1>4. calls'[c] = a
  BY <1>1, BeforeIs
<1>5. UNCHANGED <<tokens, req>>
  BY <1>1 DEF vars, tables
<1>6. Bond(c)'
  <2>1. Bond(c) /\ req[c].op = "-"
    BY <1>1, BeforeIs, NotOthers DEF Alone
  <2> QED
    BY <1>1, <1>3, <1>4, <1>5, <2>1, AloneBond DEF Alone, Roles
<1>7. CallOK(c)'
  BY <1>3, <1>4 DEF CallOK, Pages
<1>8. ScreenOK'
  BY <1>1, BeforeIs DEF ScreenOK, story
<1>9. jar' \in JarType /\ JarOK'
  BY <1>1, <1>5, BeforeIs DEF CallsOK, JarOK
<1> QED
  BY <1>1, <1>3, <1>6, <1>7, <1>8, <1>9, OneCall

LEMMA OpenWell ==
  ASSUME Before, NEW c \in Proc, OpenPage(c)
  PROVE  Well
<1> DEFINE a == Sent("me", FALSE, jar)
<1>1. /\ calls' = [Gone EXCEPT ![c] = a] /\ UNCHANGED vars
      /\ calls[c].pc = "idle" /\ req[c].pc = "idle"
      /\ UNCHANGED <<jar, cachedFor, temporary, story>>
      /\ screen' = "app" /\ store' = Nobody /\ shown' = Nobody
  BY DEF OpenPage, Free
<1>2. /\ a \in Call /\ a.what = "me" /\ a.waiting
      /\ (a.pc = "answered" /\ a.user \in User) \/ a.pc = "denied"
  BY BeforeIs, SentIs DEF Pages
<1> HIDE DEF a
<1>4. calls'[c] = a
  BY <1>1 DEF Gone
<1>5. UNCHANGED <<tokens, req>>
  BY <1>1 DEF vars, tables
<1>6. Bond(c)'
  <2>1. Bond(c) /\ req[c].op = "-"
    BY <1>1, BeforeIs, NotOthers DEF Alone
  <2> QED
    BY <1>1, <1>2, <1>4, <1>5, <2>1, AloneBond DEF Alone, Roles
<1>7. CallOK(c)'
  BY <1>2, <1>4 DEF CallOK, Pages
<1>8. ScreenOK'
  BY <1>1, BeforeIs DEF ScreenOK, story
<1>9. jar' \in JarType /\ JarOK'
  BY <1>1, <1>5, BeforeIs DEF CallsOK, JarOK
<1> QED
  BY <1>1, <1>2, <1>6, <1>7, <1>8, <1>9, PageGoes

\* A call that is over.
LEMMA OverWell ==
  ASSUME Before, NEW c \in Proc, calls[c].pc # "idle", Alone(calls[c]), UNCHANGED vars,
         calls' = [calls EXCEPT ![c] = NoCall] \/ calls' = [Gone EXCEPT ![c] = NoCall],
         ScreenOK', jar' \in JarType, JarOK'
  PROVE  Well
<1>1. calls'[c] = NoCall
  BY BeforeIs DEF Gone
<1>2. UNCHANGED <<tokens, req>>
  BY DEF vars, tables
<1>3. Bond(c)' /\ CallOK(c)'
  BY <1>1, <1>2, BeforeIs, AloneBond, NoneType DEF Alone, CallOK
<1> QED
  BY <1>3, OneCall, PageGoes, NoneType

LEMMA AnsweredWell ==
  ASSUME Before, NEW c \in Proc, Answered(c)
  PROVE  Well
<1>1. /\ calls[c].pc = "answered" /\ calls' = [calls EXCEPT ![c] = NoCall]
      /\ UNCHANGED <<vars, jar, screen, temporary, ended, crossed, out>>
      /\ cachedFor' \in {cachedFor, calls[c].user} /\ shown' \in {shown, calls[c].user}
      /\ store' \in {store, calls[c].user} /\ here' \in {here, here \cup {calls[c].user}}
  BY DEF Answered, Over
<1>2. calls[c].user \in User
  BY <1>1, BeforeIs DEF CallOK
<1>3. ScreenOK'
  <2>1. ScreenOK
    BY BeforeIs
  <2>2. here' \subseteq User
    BY <1>1, <1>2, <2>1 DEF ScreenOK
  <2> QED
    BY <1>1, <1>2, <2>1, <2>2 DEF ScreenOK
<1>4. jar' \in JarType /\ JarOK'
  BY <1>1, BeforeIs DEF JarOK, vars, tables
<1> QED
  BY <1>1, <1>3, <1>4, OverWell DEF Alone

LEMMA RefusedWell ==
  ASSUME Before, NEW c \in Proc, Refused(c)
  PROVE  Well
<1>1. /\ calls[c].pc = "refused" /\ calls' = Gone
      /\ UNCHANGED <<vars, jar, cachedFor, temporary, story>> /\ Thrown
  BY DEF Refused
<1>2. calls' = [Gone EXCEPT ![c] = NoCall]
  <2>1. Gone[c] = NoCall /\ Gone = [q \in Proc |-> Orphan(calls[q])]
    BY <1>1 DEF Gone, Orphan
  <2> QED
    BY <1>1, <2>1
<1>3. ScreenOK'
  BY <1>1, BeforeIs DEF ScreenOK, Thrown, story
<1>4. jar' \in JarType /\ JarOK'
  BY <1>1, BeforeIs DEF JarOK, vars, tables
<1> QED
  BY <1>1, <1>2, <1>3, <1>4, OverWell DEF Alone

LEMMA LostWell ==
  ASSUME Before, NEW c \in Proc, Lost(c)
  PROVE  Well
<1>1. /\ calls[c].pc \in {"answered", "denied", "renewed"}
      /\ UNCHANGED <<vars, jar, cachedFor, temporary, ended, out, here>>
      /\ crossed' = TRUE
      /\ calls' = [calls EXCEPT ![c] = NoCall] \/ calls' = [Gone EXCEPT ![c] = NoCall]
      /\ \/ Thrown
         \/ shown' = cachedFor /\ UNCHANGED <<screen, store>>
         \/ UNCHANGED <<screen, store, shown>>
  BY DEF Lost, Fails, Over
<1>2. ScreenOK'
  BY <1>1, BeforeIs DEF ScreenOK, Thrown
<1>3. jar' \in JarType /\ JarOK'
  BY <1>1, BeforeIs DEF JarOK, vars, tables
<1> QED
  BY <1>1, <1>2, <1>3, OverWell DEF Alone

LEMMA ChangedWell ==
  ASSUME Before, NEW c \in Proc, Changed(c)
  PROVE  Well
<1>1. /\ calls[c].pc = "changed" /\ calls' = [calls EXCEPT ![c] = NoCall] /\ screen' = "app"
      /\ UNCHANGED <<vars, jar, store, cachedFor, shown, temporary, story>>
  BY DEF Changed, Over
<1>2. ScreenOK'
  BY <1>1, BeforeIs DEF ScreenOK, story
<1>3. jar' \in JarType /\ JarOK'
  BY <1>1, BeforeIs DEF JarOK, vars, tables
<1> QED
  BY <1>1, <1>2, <1>3, OverWell DEF Alone

LEMMA WelcomedWell ==
  ASSUME Before, NEW c \in Proc, Welcomed(c)
  PROVE  Well
<1> DEFINE a == calls[c]
<1>1. /\ a.pc = "welcomed" /\ calls' = [calls EXCEPT ![c] = NoCall]
      /\ UNCHANGED <<vars, cachedFor, shown, temporary, out>>
      /\ jar' \in {jar, Cookies(a.token)} /\ here' = here \cup {a.user}
      /\ store' \in {store, a.user} /\ screen' \in {screen, "change", "app"}
      /\ ended' \in BOOLEAN /\ crossed' \in BOOLEAN
  BY BeforeIs DEF Welcomed, Over, ScreenOK
<1>2. a.token \in DOMAIN tokens /\ a.user = tokens[a.token].user
  BY <1>1, BeforeIs DEF CallOK
<1>3. a.user \in User
  BY <1>2, CookiesAre, BeforeIs
<1>4. ScreenOK'
  <2>1. ScreenOK
    BY BeforeIs
  <2> QED
    BY <1>1, <1>3, <2>1 DEF ScreenOK
<1>5. UNCHANGED <<tokens, req>>
  BY <1>1 DEF vars, tables
<1>6. jar' \in JarType /\ JarOK'
  <2>1. CASE jar' = jar
    BY <1>5, <2>1, BeforeIs DEF JarOK
  <2>2. CASE jar' = Cookies(a.token)
    BY <1>2, <1>5, <2>2, CookiesAre, BeforeIs DEF JarOK
  <2> QED
    BY <1>1, <2>1, <2>2
<1> QED
  BY <1>1, <1>4, <1>6, OverWell DEF Alone

LEMMA AgeWell ==
  ASSUME Before, AccessExpires
  PROVE  Well
<1>1. /\ jar' = [jar EXCEPT !.access = FALSE]
      /\ UNCHANGED <<vars, store, screen, calls, cachedFor, shown, temporary, story>>
  BY DEF AccessExpires
<1>2. Typed' /\ TokensGrow /\ \A q \in Proc : Onlooker(q)
  BY <1>1, BeforeIs, Quiet
<1>3. UNCHANGED <<tokens, req>>
  BY <1>1 DEF vars, tables
<1>4. jar' \in JarType /\ JarOK'
  <2>1. jar \in JarType /\ JarOK
    BY BeforeIs
  <2>2. jar' \in JarType /\ jar'.user = jar.user /\ jar'.token = jar.token
    BY <1>1, <2>1 DEF JarType
  <2>3. CASE jar = EmptyJar
    BY <1>1, <2>2, <2>3 DEF JarOK, EmptyJar
  <2>4. CASE jar # EmptyJar
    BY <1>3, <2>1, <2>2, <2>4 DEF JarOK
  <2> QED
    BY <2>3, <2>4
<1>5. ScreenOK'
  BY <1>1, BeforeIs DEF ScreenOK, story
<1>6. \A q \in Proc : Follows(q)
  BY <1>1 DEF Follows
<1> QED
  BY <1>1, <1>2, <1>4, <1>5, <1>6, BeforeIs, WellDone DEF Well

\* A request arrives from the call c.
LEMMA ArrivesWell ==
  ASSUME Before, NEW c \in Proc, NEW a \in Call, calls' = [calls EXCEPT ![c] = a], Arrives(c),
         ScreenOK', jar' \in JarType, JarOK', Bond(c)', CallOK(c)'
  PROVE  Well
<1>1. Typed /\ BrowserTypeOK /\ CallsOK /\ calls \in [Proc -> Call]
  BY BeforeIs
<1>2. Typed' /\ TokensGrow /\ \A q \in Proc \ {c} : Onlooker(q)
  BY <1>1, Asks
<1>3. /\ calls' \in [Proc -> Call]
      /\ \A q \in Proc : (Onlooker(q) /\ Follows(q)) \/ (Bond(q)' /\ CallOK(q)')
  BY <1>1, <1>2 DEF Follows
<1> QED
  BY <1>1, <1>2, <1>3, WellDone DEF Well

\* A call with another pc.
LEMMA AtIs ==
  ASSUME NEW a \in Call,
         NEW pc \in {"idle", "answered", "denied", "refreshing", "renewed", "refused",
                     "entering", "welcomed", "changing", "changed"}
  PROVE  LET b == [a EXCEPT !.pc = pc] IN
         /\ b \in Call /\ b.pc = pc /\ b.what = a.what /\ b.user = a.user /\ b.token = a.token
         /\ b.waiting = a.waiting /\ b.kept = a.kept /\ b.again = a.again
BY DEF Call

LEMMA RefreshAsked ==
  ASSUME Typed, NEW c \in Proc, NEW t, RefreshRead(c, t)
  PROVE  /\ Arrives(c) /\ UNCHANGED <<tables, served, history>> /\ req[c].pc = "idle"
         /\ t \in DOMAIN tokens /\ tokens[t].state # "expired"
         /\ req'[c].op = "refresh" /\ req'[c].user = tokens[t].user /\ req'[c].token = t
         /\ req'[c].pc = IF tokens[t].state = "revoked" THEN "revokeAll" ELSE "owner"
         /\ \A q \in Proc \ {c} : req'[q] = req[q]
<1> DEFINE r == Ask(IF tokens[t].state = "revoked" THEN "revokeAll" ELSE "owner",
                    "refresh", tokens[t].user, t, 0, 0)
<1>1. /\ t \in DOMAIN tokens /\ tokens[t].state # "expired" /\ req[c].pc = "idle"
      /\ UNCHANGED <<tables, served, history>>
      /\ req' = [req EXCEPT ![c] = r]
  BY DEF RefreshRead, Begin
<1>2. t \in 1..MaxTokens
  BY <1>1, Fields, AccountsAssumption DEF Typed
<1>3. Arrives(c)
  BY <1>2 DEF Arrives
<1>4. /\ r.pc = (IF tokens[t].state = "revoked" THEN "revokeAll" ELSE "owner")
      /\ r.op = "refresh" /\ r.user = tokens[t].user /\ r.token = t
  BY DEF Ask
<1> HIDE DEF r
<1>5. req'[c] = r /\ \A q \in Proc \ {c} : req'[q] = req[q]
  BY <1>1, SlotOthers DEF Typed
<1> QED
  BY <1>1, <1>3, <1>4, <1>5

LEMMA ChangeAsked ==
  ASSUME Typed, NEW c \in Proc, NEW u \in User, changePassword(c, u)
  PROVE  /\ Arrives(c) /\ UNCHANGED <<tables, served, history>> /\ req[c].pc = "idle"
         /\ SignedIn(u) /\ req'[c].op = "change" /\ req'[c].pc = "change"
         /\ \A q \in Proc \ {c} : req'[q] = req[q]
<1> DEFINE r == Ask("change", "change", u, 0, 0, 0)
<1>1. /\ SignedIn(u) /\ req[c].pc = "idle" /\ UNCHANGED <<tables, served, history>>
      /\ req' = [req EXCEPT ![c] = r]
  BY DEF changePassword, Begin
<1>2. Arrives(c)
  BY DEF Arrives
<1>3. r.pc = "change" /\ r.op = "change"
  BY DEF Ask
<1> HIDE DEF r
<1>4. req'[c] = r /\ \A q \in Proc \ {c} : req'[q] = req[q]
  BY <1>1, SlotOthers DEF Typed
<1> QED
  BY <1>1, <1>2, <1>3, <1>4

LEMMA LoginAsked ==
  ASSUME Typed, NEW c \in Proc, NEW u \in User, LoginRead(c, u, TRUE)
  PROVE  /\ Arrives(c) /\ UNCHANGED <<tables, served, history>> /\ req[c].pc = "idle"
         /\ SignedIn(u) /\ req'[c].op = "login" /\ req'[c].user = u /\ req'[c].token = 0
         /\ req'[c].pc \in {"rehash", "welcome"}
         /\ \A q \in Proc \ {c} : req'[q] = req[q]
<1> DEFINE r == Ask(IF users[u].legacy THEN "rehash" ELSE "welcome",
                    "login", u, 0, users[u].password, users[u].attempts)
<1>1. Arrives(c)
  BY DEF Arrives
<1>2. /\ UNCHANGED <<tables, served, history>> /\ req[c].pc = "idle" /\ SignedIn(u)
      /\ req' = [req EXCEPT ![c] = r]
  <2>1. users[u].legacy \in BOOLEAN
    BY Fields DEF Typed, Account
  <2> QED
    BY <2>1 DEF LoginRead, Begin
<1>3. r.pc \in {"rehash", "welcome"} /\ r.op = "login" /\ r.user = u /\ r.token = 0
  BY DEF Ask
<1> HIDE DEF r
<1>4. req'[c] = r /\ \A q \in Proc \ {c} : req'[q] = req[q]
  BY <1>2, SlotOthers DEF Typed
<1> QED
  BY <1>1, <1>2, <1>3, <1>4

LEMMA DeniedWell ==
  ASSUME Before, NEW c \in Proc, Denied(c)
  PROVE  Well
<1> DEFINE a == calls[c]
<1>1. /\ a.pc = "denied" /\ a \in Call /\ Bond(c) /\ CallOK(c) /\ a.what \in Pages /\ a.waiting
      /\ UNCHANGED <<jar, cachedFor, temporary, ended, out, here>>
  BY BeforeIs DEF Denied, CallOK
<1>2. CASE /\ ~a.again /\ RefreshRead(c, jar.token)
           /\ calls' = [calls EXCEPT ![c].pc = "refreshing"]
           /\ crossed' = (crossed \/ Renewing # {})
           /\ UNCHANGED <<store, screen, shown>>
  <2> DEFINE b == [a EXCEPT !.pc = "refreshing"]
  <2>1. /\ Arrives(c) /\ UNCHANGED tokens /\ jar.token \in DOMAIN tokens
        /\ req'[c].op = "refresh" /\ req'[c].user = tokens[jar.token].user /\ req'[c].token = jar.token
        /\ req'[c].pc \in {"revokeAll", "owner"}
    BY <1>2, BeforeIs, RefreshAsked DEF tables
  <2>2. b \in Call /\ b.pc = "refreshing" /\ b.what = a.what
    BY <1>1, AtIs
  <2>3. calls' = [calls EXCEPT ![c] = b] /\ calls'[c] = b
    BY <1>2, BeforeIs
  <2> HIDE DEF b
  <2>4. Bond(c)' /\ CallOK(c)'
    BY <1>1, <2>1, <2>2, <2>3 DEF Bond, CallOK, Roles, Pages
  <2>5. ScreenOK'
    <3>1. crossed' \in BOOLEAN
      BY <1>2, BeforeIs DEF ScreenOK
    <3> QED
      BY <1>1, <1>2, <3>1, BeforeIs DEF ScreenOK
  <2>6. jar' \in JarType /\ JarOK'
    BY <1>1, <2>1, BeforeIs DEF JarOK
  <2> QED
    BY <2>1, <2>2, <2>3, <2>4, <2>5, <2>6, ArrivesWell
<1>3. CASE /\ calls' = [calls EXCEPT ![c].pc = "refused"]
           /\ UNCHANGED <<vars, store, screen, shown, crossed>>
  <2> DEFINE b == [a EXCEPT !.pc = "refused"]
  <2>1. b \in Call /\ b.pc = "refused" /\ b.what = a.what /\ b.waiting = a.waiting
    BY <1>1, AtIs
  <2>2. calls' = [calls EXCEPT ![c] = b] /\ calls'[c] = b
    BY <1>3, BeforeIs
  <2> HIDE DEF b
  <2>3. UNCHANGED <<tokens, req>>
    BY <1>3 DEF vars, tables
  <2>4. req[c].op = "-"
    BY <1>1, NotOthers DEF Alone
  <2>5. Bond(c)' /\ CallOK(c)'
    <3>1. Bond(c)'
      BY <1>1, <2>1, <2>2, <2>3, <2>4, AloneBond DEF Alone, Roles
    <3> QED
      BY <1>1, <2>1, <2>2, <3>1 DEF CallOK, Pages
  <2>6. ScreenOK' /\ jar' \in JarType /\ JarOK'
    BY <1>1, <1>3, <2>3, BeforeIs DEF ScreenOK, JarOK
  <2> QED
    BY <1>3, <2>1, <2>2, <2>5, <2>6, OneCall
<1>4. CASE Fails(c) /\ UNCHANGED <<vars, crossed>>
  <2>1. /\ calls' = [calls EXCEPT ![c] = NoCall]
        /\ Thrown \/ UNCHANGED <<screen, store, shown>>
    BY <1>4 DEF Fails, Over
  <2>2. ScreenOK'
    BY <1>1, <1>4, <2>1, BeforeIs DEF ScreenOK, Thrown
  <2>3. jar' \in JarType /\ JarOK'
    BY <1>1, <1>4, BeforeIs DEF JarOK, vars, tables
  <2> QED
    BY <1>1, <1>4, <2>1, <2>2, <2>3, OverWell DEF Alone
<1> QED
  BY <1>2, <1>3, <1>4 DEF Denied

LEMMA RenewedWell ==
  ASSUME Before, NEW c \in Proc, Renewed(c)
  PROVE  Well
<1> DEFINE a == calls[c]
           new == Cookies(a.token)
<1>1. /\ a.pc = "renewed" /\ a \in Call /\ Bond(c) /\ CallOK(c)
      /\ a.what \in Pages /\ a.token \in DOMAIN tokens
      /\ UNCHANGED <<store, screen, cachedFor, shown, temporary, ended, out>>
      /\ here' = IF jar' = new THEN here \cup {new.user} ELSE here
      /\ jar' \in {jar, new}
      /\ UNCHANGED vars \/ (UNCHANGED tables /\ crossed' = crossed)
      /\ crossed' \in {crossed, TRUE}
  BY BeforeIs DEF Renewed, CallOK, changePassword
<1>2. /\ new \in JarType /\ new.token = a.token /\ new.user = tokens[a.token].user
      /\ new.user \in User
  BY <1>1, BeforeIs, CookiesAre
<1> HIDE DEF new
<1>3. UNCHANGED tokens
  BY <1>1 DEF vars, tables
<1>4. jar' \in JarType /\ JarOK'
  <2>1. CASE jar' = jar
    BY <1>3, <2>1, BeforeIs DEF JarOK
  <2>2. CASE jar' = new
    BY <1>1, <1>2, <1>3, <2>2 DEF JarOK
  <2> QED
    BY <1>1, <2>1, <2>2
<1>5. ScreenOK'
  <2>1. ScreenOK
    BY BeforeIs
  <2>2. here' \subseteq User /\ crossed' \in BOOLEAN
    BY <1>1, <1>2, <2>1 DEF ScreenOK
  <2> QED
    BY <1>1, <2>1, <2>2 DEF ScreenOK
<1>6. CASE UNCHANGED vars /\ calls' = [calls EXCEPT ![c] = NoCall]
  BY <1>1, <1>4, <1>5, <1>6, OverWell DEF Alone
<1>7. CASE /\ a.what # "change" /\ UNCHANGED vars
           /\ calls' = [calls EXCEPT ![c] = [Sent(a.what, TRUE, new) EXCEPT !.kept = a.kept]]
  <2> DEFINE s == Sent(a.what, TRUE, new)
             b == [s EXCEPT !.kept = a.kept]
  <2>1. /\ s \in Call /\ s.what = a.what /\ s.waiting
        /\ (s.pc = "answered" /\ s.user \in User) \/ s.pc = "denied"
    BY <1>1, <1>2, SentIs
  <2>2. b \in Call /\ b.pc = s.pc /\ b.user = s.user /\ b.what = s.what /\ b.waiting = s.waiting
    <3> HIDE DEF s
    <3> QED
      BY <1>1, <2>1 DEF Call
  <2>3. calls'[c] = b /\ calls' = [calls EXCEPT ![c] = b]
    BY <1>7, BeforeIs
  <2> HIDE DEF s, b
  <2>4. UNCHANGED <<tokens, req>>
    BY <1>7 DEF vars, tables
  <2>5. Bond(c)' /\ CallOK(c)'
    <3>1. req[c].op = "-"
      BY <1>1, NotOthers DEF Alone
    <3>2. Bond(c)'
      BY <1>1, <2>1, <2>2, <2>3, <2>4, <3>1, AloneBond DEF Alone, Roles
    <3> QED
      BY <1>1, <1>7, <2>1, <2>2, <2>3, <3>2 DEF CallOK, Pages
  <2> QED
    BY <1>4, <1>5, <1>7, <2>2, <2>3, <2>5, OneCall
<1>8. CASE /\ a.what = "change" /\ changePassword(c, new.user)
           /\ calls' = [calls EXCEPT ![c].pc = "changing"]
  <2> DEFINE b == [a EXCEPT !.pc = "changing"]
  <2>1. Arrives(c) /\ req'[c].op = "change" /\ req'[c].pc = "change"
    BY <1>2, <1>8, BeforeIs, ChangeAsked
  <2>2. b \in Call /\ b.pc = "changing" /\ b.what = a.what
    BY <1>1, AtIs
  <2>3. calls' = [calls EXCEPT ![c] = b] /\ calls'[c] = b
    BY <1>8, BeforeIs
  <2> HIDE DEF b
  <2>4. Bond(c)' /\ CallOK(c)'
    BY <1>8, <2>1, <2>2, <2>3 DEF Bond, CallOK, Roles
  <2> QED
    BY <1>4, <1>5, <2>1, <2>2, <2>3, <2>4, ArrivesWell
<1> QED
  BY <1>6, <1>7, <1>8 DEF Renewed, Over, new

LEMMA EnterWell ==
  ASSUME Before, NEW c \in Proc, NEW u \in User, Enter(c, u)
  PROVE  Well
<1> DEFINE b == [NoCall EXCEPT !.pc = "entering", !.what = "login", !.user = u, !.waiting = TRUE]
<1>1. /\ LoginRead(c, u, TRUE) /\ calls' = [calls EXCEPT ![c] = b] /\ out' = "in"
      /\ UNCHANGED <<jar, store, screen, cachedFor, shown, temporary, ended, crossed, here>>
  BY DEF Enter
<1>2. b \in Call /\ b.pc = "entering" /\ b.what = "login" /\ b.user = u /\ b.waiting
  BY NoneType DEF Call
<1> HIDE DEF b
<1>3. /\ Arrives(c) /\ UNCHANGED tokens
      /\ req'[c].op = "login" /\ req'[c].user = u /\ req'[c].token = 0
      /\ req'[c].pc \in {"rehash", "welcome"}
  BY <1>1, BeforeIs, LoginAsked DEF tables
<1>4. calls'[c] = b
  BY <1>1, BeforeIs
<1>5. Bond(c)' /\ CallOK(c)'
  BY <1>2, <1>3, <1>4 DEF Bond, CallOK, Roles
<1>6. ScreenOK'
  BY <1>1, BeforeIs DEF ScreenOK
<1>7. jar' \in JarType /\ JarOK'
  BY <1>1, <1>3, BeforeIs DEF JarOK
<1> QED
  BY <1>1, <1>2, <1>3, <1>5, <1>6, <1>7, ArrivesWell

LEMMA ChangeWell ==
  ASSUME Before, NEW c \in Proc, Change(c)
  PROVE  Well
<1>1. /\ Free(c) /\ UNCHANGED <<jar, store, screen, cachedFor, shown, temporary, story>>
      /\ calls[c] \in Call /\ Bond(c) /\ calls[c].pc = "idle" /\ req[c].op = "-"
  <2>1. Free(c) /\ Bond(c) /\ calls[c] \in Call
    BY BeforeIs DEF Change
  <2> QED
    BY <2>1, NotOthers DEF Change, Free, Alone
<1>2. ScreenOK'
  BY <1>1, BeforeIs DEF ScreenOK, story
<1>3. UNCHANGED tokens
  BY DEF Change, changePassword, vars, tables
<1>4. jar' \in JarType /\ JarOK'
  BY <1>1, <1>3, BeforeIs DEF JarOK
<1>5. CASE Authorized(jar)
  <2> DEFINE b == [NoCall EXCEPT !.pc = "changing", !.what = "change", !.waiting = TRUE]
  <2>1. changePassword(c, jar.user) /\ calls' = [calls EXCEPT ![c] = b]
    BY <1>5 DEF Change
  <2>2. b \in Call /\ b.pc = "changing" /\ b.what = "change"
    BY NoneType DEF Call
  <2> HIDE DEF b
  <2>3. Arrives(c) /\ req'[c].op = "change" /\ req'[c].pc = "change"
    BY <1>5, <2>1, BeforeIs, ChangeAsked DEF Authorized
  <2>4. calls'[c] = b
    BY <2>1, BeforeIs
  <2>5. Bond(c)' /\ CallOK(c)'
    BY <2>2, <2>3, <2>4 DEF Bond, CallOK, Roles
  <2> QED
    BY <1>2, <1>4, <2>1, <2>2, <2>3, <2>5, ArrivesWell
<1>6. CASE ~Authorized(jar)
  <2> DEFINE b == Sent("change", FALSE, jar)
  <2>1. UNCHANGED vars /\ calls' = [calls EXCEPT ![c] = b]
    BY <1>6 DEF Change
  <2>2. b \in Call /\ b.pc = "denied" /\ b.what = "change" /\ b.waiting
    BY <1>6, BeforeIs, SentIs DEF Pages
  <2> HIDE DEF b
  <2>3. calls'[c] = b /\ UNCHANGED <<tokens, req>>
    BY <2>1, BeforeIs DEF vars, tables
  <2>4. Bond(c)' /\ CallOK(c)'
    <3>1. Bond(c)'
      BY <1>1, <2>2, <2>3, AloneBond DEF Alone, Roles
    <3> QED
      BY <2>2, <2>3, <3>1 DEF CallOK, Pages
  <2> QED
    BY <1>2, <1>4, <2>1, <2>2, <2>4, OneCall
<1> QED
  BY <1>5, <1>6

\* A logout closes one token.
LEMMA LogoutType ==
  ASSUME Typed, NEW t \in DOMAIN tokens, NEW state \in {"revoked", "expired"},
         tokens' = [tokens EXCEPT ![t].state = state],
         UNCHANGED <<users, tenantActive, req, served, history>>
  PROVE  Typed' /\ TokensGrow
<1>1. TypeOK /\ RequestOK
  BY DEF Typed
<1>2. tokens' \in Seq(Token) /\ Len(tokens') = Len(tokens)
  BY <1>1, TokenStateType
<1>3. TypeOK'
  BY <1>1, <1>2 DEF TypeOK, history
<1>4. RequestOK'
  BY <1>1, <1>2 DEF RequestOK, Knows
<1>5. TokensGrow
  BY <1>1, Fields DEF TokensGrow, Token
<1> QED
  BY <1>3, <1>4, <1>5 DEF Typed

LEMMA LogoutTokens ==
  ASSUME Before, Logout
  PROVE  /\ Typed' /\ TokensGrow
         /\ Authorized(jar) => /\ jar.token \in DOMAIN tokens /\ tokens'[jar.token].state # "live"
                               /\ DOMAIN tokens' = DOMAIN tokens
         /\ ~Authorized(jar) => UNCHANGED tokens
<1>1. UNCHANGED <<users, tenantActive, req, served, history>>
  BY DEF Logout
<1>2. CASE ~Authorized(jar)
  <2>1. UNCHANGED vars
    BY <1>1, <1>2 DEF Logout, vars, tables
  <2> QED
    BY <1>2, <2>1, BeforeIs, Quiet DEF vars, tables
<1>3. CASE Authorized(jar)
  <2>1. jar.token \in DOMAIN tokens
    BY <1>3, BeforeIs, JarIs, NoneType DEF Authorized
  <2> DEFINE s == tokens[jar.token].state
             state == IF s = "live" THEN "revoked" ELSE s
  <2>2. s \in {"live", "revoked", "expired"}
    BY <2>1, BeforeIs, Fields DEF Typed, Token
  <2>3. tokens' = [tokens EXCEPT ![jar.token].state = state]
    BY <1>3 DEF Logout
  <2>4. state \in {"revoked", "expired"}
    BY <2>2
  <2> HIDE DEF s, state
  <2>5. Typed' /\ TokensGrow
    BY <1>1, <2>1, <2>3, <2>4, BeforeIs, LogoutType
  <2>6. tokens'[jar.token].state = state
    BY <2>1, <2>3, BeforeIs, Fields DEF Typed, Token
  <2> QED
    BY <1>3, <2>1, <2>3, <2>4, <2>5, <2>6
<1> QED
  BY <1>2, <1>3

LEMMA LogoutWell ==
  ASSUME Before, Logout
  PROVE  Well
<1>1. Typed' /\ TokensGrow
  BY LogoutTokens
<1>2. /\ calls' = [c \in Proc |-> [Gone[c] EXCEPT !.kept = FALSE]] /\ UNCHANGED req
      /\ jar' \in {jar, EmptyJar} /\ UNCHANGED <<temporary, crossed>>
      /\ screen' = "login" /\ store' = Nobody /\ shown' = Nobody /\ cachedFor' = Nobody
      /\ here' = {} /\ ended' = TRUE /\ out' \in {"heard", "unheard"}
  BY DEF Logout
<1>3. \A q \in Proc : Onlooker(q) /\ Follows(q)
  BY <1>2, BeforeIs, Fields DEF Onlooker, Follows, Gone, Typed
<1>4. calls' \in [Proc -> Call]
  BY <1>2, <1>3, BeforeIs, Followed
<1>5. ScreenOK'
  BY <1>2, BeforeIs DEF ScreenOK
<1>6. jar' \in JarType /\ JarOK'
  BY <1>1, <1>2, BeforeIs, JarStays
<1> QED
  BY <1>1, <1>3, <1>4, <1>5, <1>6, BeforeIs, WellDone DEF Well

\* A call whose request ended without a token.
LEMMA EndsAsIs ==
  ASSUME NEW c \in Proc, calls \in [Proc -> Call], calls[c] \in Call,
         NEW end \in {"refused", "changed"}, EndsAs(c, end)
  PROVE  /\ calls' \in [Proc -> Call]
         /\ calls'[c].pc = IF calls[c].waiting THEN end ELSE "idle"
         /\ calls'[c].waiting = calls[c].waiting
         /\ calls[c].waiting => calls'[c].what = calls[c].what
         /\ req'[c].op = "-" /\ req'[c].pc = "idle"
<1> DEFINE b == [calls[c] EXCEPT !.pc = end, !.token = 0]
<1>1. /\ b \in Call /\ b.pc = end /\ b.waiting = calls[c].waiting
      /\ b.what = calls[c].what
  <2>1. 0 \in 0..MaxTokens
    BY AccountsAssumption
  <2>2. end \in {"idle", "answered", "denied", "refreshing", "renewed", "refused",
                  "entering", "welcomed", "changing", "changed"}
    OBVIOUS
  <2>3. b = [calls[c] EXCEPT !.pc = end, !.token = 0]
    OBVIOUS
  <2> HIDE DEF b
  <2> QED
    <3>1. \A a \in Call, t \in 0..MaxTokens : [a EXCEPT !.pc = end, !.token = t] \in Call
      BY <2>2 DEF Call
    <3>2. b \in Call
      BY <2>1, <2>3, <3>1
    <3>3. b.pc = end
      BY <2>3 DEF Call
    <3>4. b.waiting = calls[c].waiting /\ b.what = calls[c].what
      BY <2>3 DEF Call
    <3> QED
      BY <3>2, <3>3, <3>4
<1> HIDE DEF b
<1>2. calls' = [calls EXCEPT ![c] = IF calls[c].waiting THEN b ELSE NoCall] /\ req'[c] = Idle
  BY DEF EndsAs, b
<1>3. Idle.op = "-" /\ Idle.pc = "idle"
  BY DEF Idle, Ask
<1> QED
  BY <1>1, <1>2, <1>3, NoneType DEF Call

LEMMA ServeWell ==
  ASSUME Before, NEW c \in Proc, Serve(c)
  PROVE  Well
<1>1. /\ Typed' /\ TokensGrow /\ \A q \in Proc \ {c} : Onlooker(q) /\ Follows(q)
      /\ Moves(c) \/ Brings(c) \/ Closes(c) \/ Refuses(c)
      /\ calls[c].pc \in {"entering", "refreshing", "changing"}
      /\ Bond(c) /\ CallOK(c) /\ calls[c] \in Call
  BY BeforeIs, ServeTypes, ServeDoes DEF Follows
<1>2. /\ UNCHANGED <<jar, store, screen, cachedFor, shown, crossed, out, here>>
      /\ temporary' \subseteq temporary /\ ended' \in BOOLEAN
  BY BeforeIs DEF Serve, ScreenOK
<1>3. ScreenOK' /\ jar' \in JarType /\ JarOK'
  <2>1. ScreenOK'
    BY <1>2, BeforeIs DEF ScreenOK
  <2> QED
    BY <1>1, <1>2, <2>1, BeforeIs, JarStays
<1>4. calls' \in [Proc -> Call] /\ Bond(c)' /\ CallOK(c)'
  <2>1. CASE Moves(c)
    <3>1. calls' = calls
      BY <2>1 DEF Moves
    <3>2. /\ req'[c].op = req[c].op /\ req'[c].user = req[c].user /\ req'[c].token = req[c].token
          /\ \/ req[c].pc = "rehash" /\ req'[c].pc = "welcome"
             \/ req[c].pc = "welcome" /\ req'[c].pc = "issue"
             \/ req[c].pc = "owner" /\ req'[c].pc = "rotate"
             \/ req[c].pc = "change" /\ req'[c].pc = "revokeAll"
             \/ req[c].pc = "rotate" /\ req'[c].pc = "issue"
      BY <2>1 DEF Moves
    <3>3. Bond(c)'
      BY <1>1, <3>1, <3>2 DEF Bond, TokensGrow, Roles
    <3>4. CallOK(c)'
      BY <1>1, <3>1 DEF CallOK, TokensGrow
    <3> QED
      BY <3>1, <3>3, <3>4, BeforeIs
  <2>2. CASE Brings(c)
    <3> DEFINE n == Len(tokens) + 1
               pc == IF calls[c].pc = "entering" THEN "welcomed" ELSE "renewed"
               b == [calls[c] EXCEPT !.pc = pc, !.token = n]
    <3>1. /\ n \in 1..MaxTokens /\ n \in DOMAIN tokens' /\ req'[c] = Idle /\ req[c].pc = "issue"
          /\ tokens'[n].user = req[c].user
          /\ calls' = [calls EXCEPT ![c] = b]
      <4>1. n \in 1..n
        BY BeforeIs, Fields DEF Typed
      <4> QED
        BY <2>2, <4>1 DEF Brings
    <3> HIDE DEF n
    <3>2. b \in Call /\ b.pc = pc /\ b.token = n /\ b.what = calls[c].what /\ b.user = calls[c].user
      <4>1. n \in 0..MaxTokens
        BY <3>1, AccountsAssumption
      <4>2. pc \in {"idle", "answered", "denied", "refreshing", "renewed", "refused",
                    "entering", "welcomed", "changing", "changed"}
        OBVIOUS
      <4>3. b = [calls[c] EXCEPT !.pc = pc, !.token = n]
        OBVIOUS
      <4> HIDE DEF pc, b
      <4>4. \A a \in Call, t \in 0..MaxTokens : [a EXCEPT !.pc = pc, !.token = t] \in Call
        BY <4>2 DEF Call
      <4>5. b \in Call
        BY <1>1, <4>1, <4>3, <4>4
      <4>6. b.pc = pc /\ b.token = n
        BY <1>1, <4>3 DEF Call
      <4>7. b.what = calls[c].what /\ b.user = calls[c].user
        BY <1>1, <4>3 DEF Call
      <4> QED
        BY <4>5, <4>6, <4>7
    <3> HIDE DEF b
    <3>3. calls'[c] = b /\ calls' \in [Proc -> Call]
      BY <3>1, <3>2, BeforeIs
    <3>4. req'[c].op = "-" /\ req'[c].pc = "idle"
      BY <3>1 DEF Idle, Ask
    <3>5. Bond(c)'
      BY <3>2, <3>3, <3>4 DEF Bond, Roles
    <3>6. calls[c].pc = "entering" \/ calls[c].pc = "refreshing"
      BY <1>1, <3>1 DEF Bond
    <3>7. /\ calls[c].pc = "entering" => calls[c].what = "login" /\ calls[c].user = req[c].user
          /\ calls[c].pc = "refreshing" => calls[c].what \in Pages
      BY <1>1 DEF Bond, CallOK
    <3>8. CallOK(c)'
      BY <3>1, <3>2, <3>3, <3>6, <3>7 DEF CallOK
    <3> QED
      BY <3>3, <3>5, <3>8
  <2>3. CASE Closes(c) \/ Refuses(c)
    <3>1. PICK end \in {"refused", "changed"} :
            /\ EndsAs(c, end)
            /\ end = "changed" => calls[c].pc = "changing"
            /\ end = "refused" => calls[c].pc = "refreshing"
      <4>1. CASE Closes(c)
        <5>1. calls[c].pc \in {"changing", "refreshing"}
          BY <1>1, <4>1 DEF Bond, Closes
        <5> QED
          BY <4>1, <5>1 DEF Closes
      <4>2. CASE Refuses(c)
        <5>1. calls[c].pc = "refreshing"
          BY <1>1, <4>2 DEF Bond, Refuses
        <5> QED
          BY <4>2, <5>1 DEF Refuses
      <4> QED
        BY <2>3, <4>1, <4>2
    <3>2. /\ calls' \in [Proc -> Call]
          /\ calls'[c].pc = IF calls[c].waiting THEN end ELSE "idle"
          /\ calls'[c].waiting = calls[c].waiting
          /\ calls[c].waiting => calls'[c].what = calls[c].what
          /\ req'[c].op = "-" /\ req'[c].pc = "idle"
      BY <1>1, <3>1, BeforeIs, EndsAsIs
    <3>3. calls[c].waiting \in BOOLEAN
      BY <1>1 DEF Call
    <3>4. Bond(c)'
      BY <3>2 DEF Bond, Roles
    <3>5. /\ calls[c].pc = "changing" => calls[c].what = "change"
          /\ calls[c].pc = "refreshing" => calls[c].what \in Pages
      BY <1>1 DEF CallOK
    <3>6. CallOK(c)'
      BY <3>1, <3>2, <3>3, <3>5 DEF CallOK
    <3> QED
      BY <3>2, <3>4, <3>6
  <2> QED
    BY <1>1, <2>1, <2>2, <2>3
<1> QED
  BY <1>1, <1>3, <1>4, BeforeIs, WellDone DEF Well

LEMMA ElsewhereWell ==
  ASSUME Before, Elsewhere
  PROVE  Well
<1>1. /\ UNCHANGED <<page, temporary, crossed, out, here>> /\ ended' \in BOOLEAN
      /\ \A q \in Proc : Follows(q)
  BY BeforeIs DEF Elsewhere, ScreenOK, Follows, page
<1>2. ScreenOK'
  BY <1>1, BeforeIs DEF ScreenOK, page
<1>3. ASSUME Typed', TokensGrow, NEW p \in Proc, Bond(p)' /\ CallOK(p)',
             \A q \in Proc \ {p} : Onlooker(q)
      PROVE  Well
  <2>1. jar' \in JarType /\ JarOK' /\ calls' \in [Proc -> Call]
    BY <1>1, <1>3, BeforeIs, JarStays DEF page
  <2> QED
    BY <1>1, <1>2, <1>3, <2>1, BeforeIs, WellDone DEF Well
<1>4. ASSUME NEW p \in Proc, NEW u \in User, create(p, u, "OTHER"), calls[p].pc = "idle"
      PROVE  Well /\ Arrives(p)
  <2>1. Arrives(p)
    BY <1>4 DEF Arrives, Roles
  <2>2. Typed' /\ TokensGrow /\ \A q \in Proc \ {p} : Onlooker(q)
    BY <2>1, BeforeIs, Asks
  <2>3. req'[p].op = "OTHER" /\ req'[p].pc = "insert"
    <3> DEFINE r == Ask("insert", "OTHER", u, 0, 0, 0)
    <3>1. req' = [req EXCEPT ![p] = r]
      BY <1>4 DEF create, Begin
    <3>2. r.op = "OTHER" /\ r.pc = "insert"
      BY DEF Ask
    <3> HIDE DEF r
    <3> QED
      BY <3>1, <3>2, BeforeIs, SlotOthers DEF Typed
  <2>4. Bond(p)' /\ CallOK(p)'
    <3>1. calls' = calls /\ CallOK(p)
      BY <1>1, BeforeIs DEF page
    <3>2. Bond(p)'
      BY <1>4, <2>3, <3>1 DEF Bond, Roles
    <3> QED
      BY <1>4, <3>1, <3>2 DEF CallOK
  <2> QED
    BY <1>3, <2>1, <2>2, <2>4
<1>5. ASSUME NEW p \in Proc, InsertUser(p), calls[p].pc = "idle"
      PROVE  Well /\ Continues(p)
  <2>1. Continues(p)
    BY <1>5 DEF Continues
  <2>2. Typed' /\ TokensGrow
    <3>1. Next
      BY <2>1, Steps3
    <3> QED
      BY <2>1, <3>1, BeforeIs, TypeStep, StepGrow
  <2>3. req'[p] = Idle /\ \A q \in Proc \ {p} : Onlooker(q)
    BY <1>5, BeforeIs, EndsOthers DEF InsertUser, Typed
  <2>4. Bond(p)' /\ CallOK(p)'
    <3>1. calls' = calls /\ CallOK(p)
      BY <1>1, BeforeIs DEF page
    <3>2. Bond(p)'
      BY <1>5, <2>3, <3>1 DEF Bond, Roles, Idle, Ask
    <3> QED
      BY <1>5, <3>1, <3>2 DEF CallOK
  <2> QED
    BY <1>3, <2>1, <2>2, <2>3, <2>4
<1>6. ASSUME Aside, UNCHANGED req
      PROVE  Well
  <2>1. Next
    BY <1>6, Steps3
  <2>2. Typed'
    BY <2>1, BeforeIs, TypeStep
  <2>3. TokensGrow
    BY <1>6, BeforeIs, SameTokensStep, SameGrow DEF Typed
  <2>4. \A q \in Proc : Onlooker(q)
    BY <1>6, BeforeIs, Fields DEF Onlooker, Typed
  <2>5. jar' \in JarType /\ JarOK' /\ calls' \in [Proc -> Call]
    BY <1>1, <2>3, BeforeIs, JarStays DEF page
  <2> QED
    BY <1>1, <1>2, <2>2, <2>3, <2>4, <2>5, BeforeIs, WellDone DEF Well
<1>7. CASE \E t \in 1..MaxTokens : Expire(t)
  <2>1. Aside /\ UNCHANGED req
    BY <1>7 DEF Aside, Expire
  <2> QED
    BY <2>1, <1>6
<1>8. CASE \E isActive \in BOOLEAN : updateTenantStatus(isActive)
  <2>1. Aside /\ UNCHANGED req
    BY <1>8 DEF Aside, updateTenantStatus
  <2> QED
    BY <2>1, <1>6
<1> QED
  BY <1>4, <1>5, <1>7, <1>8 DEF Elsewhere

\* Where a call is after a step of the server, and what it still is.
LEMMA ServePc ==
  ASSUME Before, NEW c \in Proc, Serve(c)
  PROVE  /\ calls'[c].pc \in {calls[c].pc, "welcomed", "renewed", "refused", "changed", "idle"}
         /\ calls'[c].waiting => calls[c].waiting /\ calls'[c].what = calls[c].what
<1>1. /\ Moves(c) \/ Brings(c) \/ Closes(c) \/ Refuses(c)
      /\ calls \in [Proc -> Call] /\ calls[c] \in Call
  BY BeforeIs, ServeDoes
<1>2. CASE Moves(c)
  BY <1>2 DEF Moves
<1>3. CASE Brings(c)
  <2> DEFINE n == Len(tokens) + 1
             pc == IF calls[c].pc = "entering" THEN "welcomed" ELSE "renewed"
  <2>1. calls'[c] = [calls[c] EXCEPT !.pc = pc, !.token = n]
    BY <1>1, <1>3 DEF Brings
  <2> HIDE DEF n, pc
  <2>2. calls'[c].pc = pc /\ calls'[c].waiting = calls[c].waiting /\ calls'[c].what = calls[c].what
    BY <1>1, <2>1 DEF Call
  <2> QED
    BY <2>2 DEF pc
<1>4. CASE Closes(c) \/ Refuses(c)
  <2>1. PICK end \in {"refused", "changed"} : EndsAs(c, end)
    BY <1>4 DEF Closes, Refuses
  <2>2. /\ calls'[c].pc = IF calls[c].waiting THEN end ELSE "idle"
        /\ calls'[c].waiting = calls[c].waiting
        /\ calls[c].waiting => calls'[c].what = calls[c].what
    BY <1>1, <2>1, EndsAsIs
  <2> QED
    BY <2>2
<1> QED
  BY <1>1, <1>2, <1>3, <1>4

-----------------------------------------------------------------------------
(***************************************************************************)
(* What every step of the browser keeps                                    *)
(***************************************************************************)

\* The steps that are about the call c, and what they leave of the others.
Acts(c) ==
  \/ \E what \in {"call", "list"}, fromCache \in BOOLEAN : PageAsks(c, what, fromCache)
  \/ OpenPage(c)
  \/ Answered(c) \/ Denied(c) \/ Renewed(c) \/ Refused(c) \/ Lost(c)
  \/ \E u \in User : Enter(c, u)
  \/ Welcomed(c) \/ Change(c) \/ Changed(c)
  \/ Serve(c)

LEMMA BrowseIs == Browse <=> (\E c \in Proc : Acts(c)) \/ AccessExpires \/ Logout \/ Elsewhere
BY DEF Browse, Acts

LEMMA ActsWell ==
  ASSUME Before, NEW c \in Proc, Acts(c)
  PROVE  Well
BY AskWell, OpenWell, AnsweredWell, DeniedWell, RenewedWell, RefusedWell, LostWell, EnterWell, WelcomedWell,
   ChangeWell, ChangedWell, ServeWell DEF Acts

LEMMA BrowseWell ==
  ASSUME Before, Browse
  PROVE  Well
BY ActsWell, BrowseIs, AgeWell, LogoutWell, ElsewhereWell

Others(c) == \A q \in Proc \ {c} : Onlooker(q) /\ Follows(q)

LEMMA OthersStep ==
  ASSUME Before, NEW c \in Proc, Acts(c)
  PROVE  Others(c)
<1>1. /\ Typed /\ calls \in [Proc -> Call]
      /\ UNCHANGED vars => \A q \in Proc : Onlooker(q)
      /\ Arrives(c) => \A q \in Proc \ {c} : Onlooker(q)
  BY BeforeIs, Quiet, Asks
<1>2. ASSUME NEW a, calls' = [calls EXCEPT ![c] = a] \/ calls' = [Gone EXCEPT ![c] = a] \/ calls' = Gone
      PROVE  \A q \in Proc \ {c} : Follows(q)
  BY <1>1, <1>2 DEF Follows, Gone
<1>3. ASSUME UNCHANGED vars \/ Arrives(c), NEW a,
             calls' = [calls EXCEPT ![c] = a] \/ calls' = [Gone EXCEPT ![c] = a] \/ calls' = Gone
      PROVE  Others(c)
  BY <1>1, <1>2, <1>3 DEF Others
<1>4. ASSUME NEW what \in {"call", "list"}, NEW fromCache \in BOOLEAN, PageAsks(c, what, fromCache)
      PROVE  Others(c)
  BY <1>3, <1>4 DEF PageAsks
<1>5. CASE OpenPage(c)
  BY <1>3, <1>5 DEF OpenPage
<1>6. CASE Answered(c)
  BY <1>3, <1>6 DEF Answered, Over
<1>7. CASE Denied(c)
  <2>1. CASE RefreshRead(c, jar.token) /\ calls' = [calls EXCEPT ![c].pc = "refreshing"]
    <3>1. Arrives(c)
      BY <1>1, <2>1, RefreshAsked
    <3> QED
      BY <1>3, <2>1, <3>1
  <2>2. CASE UNCHANGED vars /\ calls' = [calls EXCEPT ![c].pc = "refused"]
    BY <1>3, <2>2
  <2>3. CASE UNCHANGED vars /\ Fails(c)
    BY <1>3, <2>3 DEF Fails, Over
  <2> QED
    BY <1>7, <2>1, <2>2, <2>3 DEF Denied
<1>8. CASE Renewed(c)
  <2> DEFINE a == calls[c]
             new == Cookies(a.token)
  <2>1. CASE UNCHANGED vars /\ calls' = [calls EXCEPT ![c] = [Sent(a.what, TRUE, new) EXCEPT !.kept = a.kept]]
    BY <1>3, <2>1
  <2>2. CASE changePassword(c, new.user) /\ calls' = [calls EXCEPT ![c].pc = "changing"]
    <3>1. new.user \in User
      BY <1>8, BeforeIs, CookiesAre DEF Renewed, CallOK
    <3>2. Arrives(c)
      BY <1>1, <2>2, <3>1, ChangeAsked
    <3> QED
      BY <1>3, <2>2, <3>2
  <2>3. CASE UNCHANGED vars /\ Over(c)
    BY <1>3, <2>3 DEF Over
  <2> QED
    BY <1>8, <2>1, <2>2, <2>3 DEF Renewed
<1>9. CASE Refused(c)
  BY <1>3, <1>9 DEF Refused
<1>10. CASE Lost(c)
  BY <1>3, <1>10 DEF Lost, Fails, Over
<1>11. ASSUME NEW u \in User, Enter(c, u)
       PROVE  Others(c)
  <2>1. Arrives(c)
    BY <1>11 DEF Enter, Arrives
  <2> QED
    BY <1>3, <1>11, <2>1 DEF Enter
<1>12. CASE Welcomed(c)
  BY <1>3, <1>12 DEF Welcomed, Over
<1>13. CASE Change(c)
  <2>1. CASE Authorized(jar)
    <3>1. Arrives(c)
      BY <1>1, <1>13, <2>1, BeforeIs, ChangeAsked DEF Change, Authorized
    <3> QED
      BY <1>3, <1>13, <2>1, <3>1 DEF Change
  <2>2. CASE ~Authorized(jar)
    BY <1>3, <1>13, <2>2 DEF Change
  <2> QED
    BY <2>1, <2>2
<1>14. CASE Changed(c)
  BY <1>3, <1>14 DEF Changed, Over
<1>15. CASE Serve(c)
  BY <1>15, BeforeIs, ServeDoes DEF Follows, Others
<1> QED
  BY <1>4, <1>5, <1>6, <1>7, <1>8, <1>9, <1>10, <1>11, <1>12, <1>13, <1>14, <1>15 DEF Acts

LEMMA BrowseServed ==
  ASSUME Before, Browse
  PROVE  UNCHANGED served
<1>1. ASSUME NEW c \in Proc, Acts(c)
      PROVE  UNCHANGED served
  <2>1. \A what \in {"call", "list"}, fromCache \in BOOLEAN : PageAsks(c, what, fromCache) => UNCHANGED served
    BY DEF PageAsks, vars
  <2>2. OpenPage(c) \/ Answered(c) \/ Refused(c) \/ Lost(c) => UNCHANGED served
    BY DEF OpenPage, Answered, Refused, Lost, vars
  <2>3. Denied(c) => UNCHANGED served
    BY DEF Denied, vars, RefreshRead
  <2>4. Renewed(c) => UNCHANGED served
    BY DEF Renewed, vars, changePassword
  <2>5. Change(c) => UNCHANGED served
    BY DEF Change, vars, changePassword
  <2>6. \A u \in User : Enter(c, u) => UNCHANGED served
    BY DEF Enter, LoginRead
  <2>7. Welcomed(c) \/ Changed(c) => UNCHANGED served
    BY DEF Welcomed, Changed, vars
  <2> QED
    BY <1>1, <2>1, <2>2, <2>3, <2>4, <2>5, <2>6, <2>7, ServeIs DEF Acts
<1> QED
  BY <1>1, BrowseIs
  DEF AccessExpires, Logout, Elsewhere, vars, create, InsertUser, Expire, updateTenantStatus

-----------------------------------------------------------------------------
(***************************************************************************)
(* Whoever has a token may use it                                          *)
(***************************************************************************)

LEMMA PeopleKept ==
  ASSUME Before, Well, PeopleOK, PeopleStay,
         \A t \in DOMAIN tokens' : t \in DOMAIN tokens \/ users'[tokens'[t].user].exists,
         \A q \in Proc : req'[q].op = "login" =>
            (req[q].op = "login" /\ req'[q].user = req[q].user) \/ users'[req'[q].user].exists,
         ~ended' => tenantActive'
  PROVE  PeopleOK'
<1>1. /\ \A t \in DOMAIN tokens : tokens[t].user \in User
      /\ \A q \in Proc : req[q].user \in User
  BY BeforeIs, Fields DEF Typed
<1>2. \A t \in DOMAIN tokens' : users'[tokens'[t].user].exists
  BY <1>1 DEF Well, TokensGrow, PeopleOK, PeopleStay
<1>3. \A q \in Proc : req'[q].op = "login" => users'[req'[q].user].exists
  BY <1>1 DEF PeopleOK, PeopleStay
<1> QED
  BY <1>2, <1>3 DEF PeopleOK, PeopleStay

\* The table of users, the tokens and the requests stay, or a request arrives.
LEMMA PeopleQuietly ==
  ASSUME Before, Well, PeopleOK, UNCHANGED tables,
         \A q \in Proc : req'[q].op = "login" =>
            (req[q].op = "login" /\ req'[q].user = req[q].user) \/ users[req'[q].user].exists,
         ~ended' => tenantActive
  PROVE  PeopleOK'
<1>1. PeopleStay
  BY SameUsers DEF tables
<1> QED
  BY <1>1, PeopleKept DEF tables

LEMMA PeopleServe ==
  ASSUME Before, PeopleOK, NEW c \in Proc, Serve(c)
  PROVE  PeopleOK'
<1>1. /\ Well /\ PeopleStay /\ Others(c) /\ UNCHANGED tenantActive
      /\ Moves(c) \/ Brings(c) \/ Closes(c) \/ Refuses(c)
      /\ Bond(c) /\ CallOK(c)
  BY ServeWell, ServePeople, ServeIs, ServeDoes, OthersStep, BeforeIs DEF Acts
<1>2. ~ended' => tenantActive'
  BY <1>1 DEF Serve, PeopleOK
<1>3. \A q \in Proc \ {c} : req'[q].op = req[q].op /\ req'[q].user = req[q].user
  BY <1>1 DEF Others, Onlooker
<1>4. Idle.op = "-"
  BY DEF Idle, Ask
<1>5. req'[c].op = "login" => req[c].op = "login" /\ req'[c].user = req[c].user
  BY <1>1, <1>4 DEF Moves, Brings, Closes, Refuses, EndsAs
<1>6. CASE DOMAIN tokens' = DOMAIN tokens
  BY <1>1, <1>2, <1>3, <1>5, <1>6, PeopleKept
<1>7. CASE Brings(c)
  <2> DEFINE n == Len(tokens) + 1
  <2>1. /\ DOMAIN tokens' = 1..n /\ tokens'[n].user = req[c].user /\ req[c].pc = "issue"
        /\ DOMAIN tokens = 1..Len(tokens) /\ Len(tokens) \in Nat
    BY <1>7, BeforeIs, Fields, AccountsAssumption DEF Brings, Typed
  <2>2. users[req[c].user].exists
    <3>1. req[c].op = "login" \/ (req[c].op = "refresh" /\ req[c].token \in DOMAIN tokens
                                  /\ req[c].user = tokens[req[c].token].user)
      BY <1>1, <2>1 DEF Bond, Roles
    <3> QED
      BY <3>1 DEF PeopleOK
  <2>3. users'[req[c].user].exists
    BY <1>1, <2>2, BeforeIs, Fields DEF PeopleStay, Typed
  <2>4. \A t \in DOMAIN tokens' : t \in DOMAIN tokens \/ t = n
    BY <2>1
  <2> HIDE DEF n
  <2> QED
    BY <1>1, <1>2, <1>3, <1>5, <2>1, <2>3, <2>4, PeopleKept
<1>8. Moves(c) => DOMAIN tokens' = DOMAIN tokens
  BY DEF Moves
<1> QED
  BY <1>1, <1>6, <1>7, <1>8 DEF Closes, Refuses

LEMMA PeopleElsewhere ==
  ASSUME Before, PeopleOK, Elsewhere
  PROVE  PeopleOK'
<1>1. Well /\ (~ended' => tenantActive' /\ ~ended)
  BY ElsewhereWell DEF Elsewhere
<1>2. ASSUME NEW p \in Proc, NEW u \in User, create(p, u, "OTHER")
      PROVE  PeopleOK'
  <2>1. UNCHANGED tables
    BY <1>2 DEF create
  <2>2. req'[p].op = "OTHER" /\ \A q \in Proc \ {p} : req'[q] = req[q]
    <3> DEFINE r == Ask("insert", "OTHER", u, 0, 0, 0)
    <3>1. req' = [req EXCEPT ![p] = r]
      BY <1>2 DEF create, Begin
    <3>2. r.op = "OTHER"
      BY DEF Ask
    <3> HIDE DEF r
    <3> QED
      BY <3>1, <3>2, BeforeIs, SlotOthers DEF Typed
  <2> QED
    BY <1>1, <2>1, <2>2, PeopleQuietly DEF tables
<1>3. ASSUME NEW p \in Proc, InsertUser(p)
      PROVE  PeopleOK'
  <2>1. PeopleStay
    <3> DEFINE u == req[p].user
               a == [Vacant EXCEPT !.exists = TRUE, !.isActive = TRUE, !.role = req[p].op,
                                   !.password = passwords + 1]
    <3>1. u \in User
      BY BeforeIs, Fields DEF Typed
    <3>2. a.exists /\ a.isActive /\ ~a.deleted
      BY DEF Vacant
    <3>3. UNCHANGED users \/ (~users[u].exists /\ users' = [users EXCEPT ![u] = a])
      BY <1>3 DEF InsertUser
    <3>4. DOMAIN users = User
      BY BeforeIs DEF Typed, TypeOK
    <3> HIDE DEF a, u
    <3>5. CASE UNCHANGED users
      BY <3>5, SameUsers
    <3>6. CASE users' = [users EXCEPT ![u] = a]
      BY <3>1, <3>2, <3>4, <3>6 DEF PeopleStay, PeopleOK
    <3> QED
      BY <3>3, <3>5, <3>6
  <2>2. UNCHANGED tokens /\ Ends(p)
    BY <1>3 DEF InsertUser
  <2>3. req'[p].op = "-" /\ \A q \in Proc \ {p} : req'[q] = req[q]
    BY <2>2, BeforeIs, EndsOthers DEF Typed, Idle, Ask
  <2> QED
    BY <1>1, <2>1, <2>2, <2>3, PeopleKept
<1>4. CASE \E t \in 1..MaxTokens : Expire(t)
  <2>1. UNCHANGED <<users, req>> /\ DOMAIN tokens' = DOMAIN tokens
    BY <1>4 DEF Expire
  <2> QED
    BY <1>1, <2>1, SameUsers, PeopleKept
<1>5. CASE \E isActive \in BOOLEAN : updateTenantStatus(isActive)
  <2>1. UNCHANGED <<users, req, tokens>>
    BY <1>5 DEF updateTenantStatus
  <2> QED
    BY <1>1, <2>1, SameUsers, PeopleKept
<1> QED
  BY <1>2, <1>3, <1>4, <1>5 DEF Elsewhere

LEMMA PeopleStep ==
  ASSUME Before, PeopleOK, Browse
  PROVE  PeopleOK'
<1>1. Well
  BY BrowseWell
<1>2. ASSUME UNCHANGED vars, ended => ended'
      PROVE  PeopleOK'
  BY <1>1, <1>2, PeopleQuietly DEF PeopleOK, vars, tables
<1>3. ASSUME NEW c \in Proc, UNCHANGED <<tables, ended>>,
             \A q \in Proc \ {c} : req'[q] = req[q],
             req'[c].op # "login" \/ users[req'[c].user].exists
      PROVE  PeopleOK'
  BY <1>1, <1>3, PeopleQuietly DEF PeopleOK
<1>4. ASSUME NEW c \in Proc, Acts(c), ~Serve(c)
      PROVE  PeopleOK'
  <2>1. ASSUME NEW what \in {"call", "list"}, NEW fromCache \in BOOLEAN, PageAsks(c, what, fromCache)
        PROVE  PeopleOK'
    BY <1>2, <2>1 DEF PageAsks, story
  <2>2. CASE OpenPage(c)
    BY <1>2, <2>2 DEF OpenPage, story
  <2>3. CASE Answered(c)
    BY <1>2, <2>3 DEF Answered
  <2>4. CASE Denied(c)
    <3>1. CASE RefreshRead(c, jar.token)
      <4>1. UNCHANGED tables /\ req'[c].op = "refresh" /\ \A q \in Proc \ {c} : req'[q] = req[q]
        BY <3>1, BeforeIs, RefreshAsked
      <4>2. UNCHANGED ended
        BY <2>4 DEF Denied
      <4> QED
        BY <1>3, <4>1, <4>2
    <3>2. CASE UNCHANGED vars
      BY <1>2, <2>4, <3>2 DEF Denied
    <3> QED
      BY <2>4, <3>1, <3>2 DEF Denied
  <2>5. CASE Renewed(c)
    <3>1. CASE changePassword(c, Cookies(calls[c].token).user)
      <4>1. Cookies(calls[c].token).user \in User
        BY <2>5, BeforeIs, CookiesAre DEF Renewed, CallOK
      <4>2. UNCHANGED tables /\ req'[c].op = "change" /\ \A q \in Proc \ {c} : req'[q] = req[q]
        BY <3>1, <4>1, BeforeIs, ChangeAsked
      <4>3. UNCHANGED ended
        BY <2>5 DEF Renewed
      <4> QED
        BY <1>3, <4>2, <4>3
    <3>2. CASE UNCHANGED vars
      BY <1>2, <2>5, <3>2 DEF Renewed
    <3> QED
      BY <2>5, <3>1, <3>2 DEF Renewed
  <2>6. CASE Refused(c)
    BY <1>2, <2>6 DEF Refused, story
  <2>7. CASE Lost(c)
    BY <1>2, <2>7 DEF Lost
  <2>8. ASSUME NEW u \in User, Enter(c, u)
        PROVE  PeopleOK'
    <3>1. /\ UNCHANGED tables /\ req'[c].user = u /\ SignedIn(u)
          /\ \A q \in Proc \ {c} : req'[q] = req[q]
      BY <2>8, BeforeIs, LoginAsked DEF Enter
    <3>2. UNCHANGED ended /\ users[req'[c].user].exists
      BY <2>8, <3>1 DEF Enter, SignedIn, Present
    <3> QED
      BY <1>3, <3>1, <3>2
  <2>9. CASE Welcomed(c)
    <3>1. UNCHANGED vars /\ (~ended' => tenantActive \/ ~ended)
      BY <2>9 DEF Welcomed
    <3> QED
      BY <1>1, <3>1, PeopleQuietly DEF PeopleOK, vars, tables
  <2>10. CASE Change(c)
    <3>1. CASE changePassword(c, jar.user) /\ Authorized(jar)
      <4>1. UNCHANGED tables /\ req'[c].op = "change" /\ \A q \in Proc \ {c} : req'[q] = req[q]
        BY <3>1, BeforeIs, ChangeAsked DEF Authorized
      <4>2. UNCHANGED ended
        BY <2>10 DEF Change, story
      <4> QED
        BY <1>3, <4>1, <4>2
    <3>2. CASE UNCHANGED vars
      BY <1>2, <2>10, <3>2 DEF Change, story
    <3> QED
      BY <2>10, <3>1, <3>2 DEF Change
  <2>11. CASE Changed(c)
    BY <1>2, <2>11 DEF Changed, story
  <2> QED
    BY <1>4, <2>1, <2>2, <2>3, <2>4, <2>5, <2>6, <2>7, <2>8, <2>9, <2>10, <2>11 DEF Acts
<1>5. CASE AccessExpires
  BY <1>2, <1>5 DEF AccessExpires, story
<1>6. CASE Logout
  <2>1. UNCHANGED <<users, tenantActive, req>> /\ ended'
    BY <1>6 DEF Logout
  <2>2. DOMAIN tokens' = DOMAIN tokens
    BY <1>6, LogoutTokens
  <2> QED
    BY <1>1, <2>1, <2>2, SameUsers, PeopleKept
<1> QED
  BY <1>4, <1>5, <1>6, BrowseIs, PeopleServe, PeopleElsewhere

\* What happens elsewhere has no part in the calls of the browser.
LEMMA ElsewhereCalls ==
  ASSUME Before, Elsewhere
  PROVE  \A q \in Proc : \/ Onlooker(q)
                         \/ /\ req[q].op \in Roles \cup {"-"} /\ req'[q].op \in Roles \cup {"-"}
                            /\ req'[q].pc # "revokeAll"
                            /\ calls'[q] = calls[q] /\ calls[q].pc = "idle" /\ QuietCall(q)'
<1>1. calls' = calls /\ TypeOK
  BY BeforeIs DEF Elsewhere, page, Typed
<1>2. ASSUME UNCHANGED req
      PROVE  \A q \in Proc : Onlooker(q)
  BY <1>1, <1>2, Fields DEF Onlooker
<1>3. ASSUME NEW p \in Proc, NEW r, req' = [req EXCEPT ![p] = r], r.op \in Roles \cup {"-"},
             r.pc # "revokeAll", calls[p].pc = "idle"
      PROVE  \A q \in Proc : \/ Onlooker(q)
                         \/ /\ req[q].op \in Roles \cup {"-"} /\ req'[q].op \in Roles \cup {"-"}
                            /\ req'[q].pc # "revokeAll"
                            /\ calls'[q] = calls[q] /\ calls[q].pc = "idle" /\ QuietCall(q)'
  <2>1. req'[p] = r /\ \A q \in Proc \ {p} : Onlooker(q)
    BY <1>1, <1>3, SlotOthers
  <2>2. req[p].op \in Roles \cup {"-"}
    BY <1>3, BeforeIs DEF Bond
  <2>3. QuietCall(p)'
    BY <1>1, <1>3, <2>1 DEF QuietCall, Roles
  <2> QED
    BY <1>1, <1>3, <2>1, <2>2, <2>3
<1>4. ASSUME NEW p \in Proc, NEW u \in User, create(p, u, "OTHER"), calls[p].pc = "idle"
      PROVE  \E r : /\ req' = [req EXCEPT ![p] = r] /\ r.op \in Roles \cup {"-"} /\ r.pc # "revokeAll"
  <2> DEFINE r == Ask("insert", "OTHER", u, 0, 0, 0)
  <2>1. req' = [req EXCEPT ![p] = r]
    BY <1>4 DEF create, Begin
  <2>2. r.op \in Roles \cup {"-"} /\ r.pc # "revokeAll"
    BY DEF Ask, Roles
  <2> HIDE DEF r
  <2> QED
    BY <2>1, <2>2
<1>5. ASSUME NEW p \in Proc, InsertUser(p)
      PROVE  \E r : /\ req' = [req EXCEPT ![p] = r] /\ r.op \in Roles \cup {"-"} /\ r.pc # "revokeAll"
  <2>1. req' = [req EXCEPT ![p] = Idle]
    BY <1>5 DEF InsertUser, Ends
  <2>2. Idle.op \in Roles \cup {"-"} /\ Idle.pc # "revokeAll"
    BY DEF Idle, Ask
  <2> QED
    BY <2>1, <2>2
<1> QED
  BY <1>2, <1>3, <1>4, <1>5 DEF Elsewhere, Expire, updateTenantStatus

-----------------------------------------------------------------------------
(***************************************************************************)
(* Lists                                                                   *)
(***************************************************************************)

LEMMA SeenKept ==
  ASSUME Before, SeenHere, here \subseteq here',
         {shown', cachedFor'} \subseteq {shown, cachedFor, Nobody} \cup here',
         store' # Nobody => store # Nobody \/ jar'.user \in here' \cup {Nobody},
         jar'.user \in {jar.user, Nobody} \cup here',
         \A q \in Proc : Follows(q) \/ SeenCall(q)'
  PROVE  SeenHere'
<1>1. ASSUME NEW q \in Proc
      PROVE  SeenCall(q)'
  <2>1. CASE SeenCall(q)'
    BY <2>1
  <2>2. CASE Follows(q)
    <3>1. /\ calls'[q].pc # "idle" =>
              /\ calls'[q].pc = calls[q].pc /\ calls'[q].what = calls[q].what
              /\ calls'[q].user = calls[q].user
              /\ calls'[q].waiting => calls[q].waiting
              /\ calls'[q].kept => calls[q].kept
      BY <2>2, BeforeIs, Followed
    <3>2. SeenCall(q)
      BY DEF SeenHere
    <3> QED
      BY <3>1, <3>2 DEF SeenCall
  <2> QED
    BY <2>1, <2>2
<1>2. {shown', cachedFor'} \subseteq here' \cup {Nobody}
  BY DEF SeenHere
<1>3. store' # Nobody => jar'.user \in here' \cup {Nobody}
  BY DEF SeenHere
<1> QED
  BY <1>1, <1>2, <1>3 DEF SeenHere

LEMMA SeenStep ==
  ASSUME Before, SeenHere, Browse
  PROVE  SeenHere'
<1>1. ASSUME here' = here, {shown', cachedFor'} \subseteq {shown, cachedFor, Nobody},
             store' \in {store, Nobody}, jar'.user \in {jar.user, Nobody},
             \A q \in Proc : Follows(q) \/ SeenCall(q)'
      PROVE  SeenHere'
  BY <1>1, SeenKept
<1>2. ASSUME NEW c \in Proc, Others(c), calls'[c].pc # "answered"
      PROVE  \A q \in Proc : Follows(q) \/ SeenCall(q)'
  BY <1>2 DEF Others, SeenCall
<1>3. NoCall.pc # "answered"
  BY NoneType
<1>4. ASSUME NEW c \in Proc, Acts(c)
      PROVE  SeenHere'
  <2>1. /\ Others(c) /\ calls \in [Proc -> Call] /\ calls[c] \in Call /\ CallOK(c) /\ SeenCall(c)
        /\ jar \in JarType /\ (jar.access => jar.user \in User) /\ Typed
    BY <1>4, BeforeIs, OthersStep DEF SeenHere
  <2>2. ASSUME NEW what \in {"call", "list"}, NEW fromCache \in BOOLEAN, PageAsks(c, what, fromCache)
        PROVE  SeenHere'
    <3> DEFINE s == Sent(what, FALSE, jar)
               b == IF fromCache THEN Orphan(s) ELSE s
    <3>1. /\ calls' = [calls EXCEPT ![c] = b]
          /\ UNCHANGED <<jar, store, cachedFor, here>> /\ store # Nobody
          /\ shown' \in {shown, cachedFor}
      BY <2>2 DEF PageAsks, story
    <3>2. /\ s \in Call /\ s.what = what
          /\ \/ s.pc = "answered" /\ s.user = jar.user /\ jar.user \in User
             \/ s.pc = "denied"
      <4>1. what \in Pages
        BY DEF Pages
      <4> QED
        BY <2>1, <4>1, SentIs
    <3>3. b.pc = "answered" => b.user = jar.user /\ jar.user \in User /\ b.what = what
      <4> HIDE DEF s
      <4>1. Orphan(s) = NoCall \/ Orphan(s) = [s EXCEPT !.waiting = FALSE]
        BY DEF Orphan
      <4>2. CASE b = [s EXCEPT !.waiting = FALSE]
        BY <3>2, <4>2 DEF Call
      <4> QED
        BY <1>3, <3>2, <4>1, <4>2
    <3> HIDE DEF b
    <3>4. calls'[c] = b
      BY <2>1, <3>1
    <3>5. jar.user \in here \cup {Nobody}
      BY <3>1 DEF SeenHere
    <3>6. SeenCall(c)'
      BY <3>1, <3>3, <3>4, <3>5, NobodyAssumption DEF SeenCall
    <3> QED
      BY <1>1, <2>1, <3>1, <3>6 DEF Others
  <2>3. CASE OpenPage(c)
    <3> DEFINE s == Sent("me", FALSE, jar)
    <3>1. /\ calls' = [Gone EXCEPT ![c] = s] /\ UNCHANGED <<jar, cachedFor, here>>
          /\ store' = Nobody /\ shown' = Nobody
      BY <2>3 DEF OpenPage, story
    <3>2. /\ s.what = "me"
          /\ (s.pc = "answered" /\ s.user = jar.user) \/ s.pc = "denied"
      BY <2>1, SentIs DEF Pages
    <3> HIDE DEF s
    <3>3. calls'[c] = s
      BY <3>1 DEF Gone
    <3>4. SeenCall(c)'
      BY <3>1, <3>2, <3>3 DEF SeenCall
    <3> QED
      BY <1>1, <2>1, <3>1, <3>4 DEF Others
  <2>4. CASE Answered(c)
    <3> DEFINE a == calls[c]
    <3>1. /\ a.pc = "answered" /\ calls' = [calls EXCEPT ![c] = NoCall] /\ jar' = jar
          /\ cachedFor' = IF a.what = "list" /\ a.kept THEN a.user ELSE cachedFor
          /\ shown' = IF a.what = "list" /\ a.waiting THEN a.user ELSE shown
          /\ store' = IF a.what = "me" /\ a.waiting THEN a.user ELSE store
          /\ here' = IF a.what = "me" THEN here \cup {a.user} ELSE here
      BY <2>4 DEF Answered, Over
    <3>2. calls'[c].pc # "answered"
      BY <1>3, <2>1, <3>1
    <3>3. /\ a.what = "list" /\ (a.kept \/ a.waiting) => a.user \in here
          /\ a.what = "me" /\ a.waiting => jar.user \in here \cup {a.user, Nobody}
      BY <2>1, <3>1 DEF SeenCall
    <3> HIDE DEF a
    <3>4. here \subseteq here' /\ {shown', cachedFor'} \subseteq {shown, cachedFor} \cup here'
      BY <3>1, <3>3
    <3>5. store' # Nobody => store # Nobody \/ jar'.user \in here' \cup {Nobody}
      BY <3>1, <3>3
    <3>6. \A q \in Proc : Follows(q) \/ SeenCall(q)'
      BY <1>2, <2>1, <3>2
    <3>7. jar'.user \in {jar.user, Nobody} \cup here'
      BY <3>1
    <3> QED
      BY <3>4, <3>5, <3>6, <3>7, SeenKept
  <2>5. CASE Denied(c)
    <3>1. /\ UNCHANGED <<jar, cachedFor, here>>
          /\ store' \in {store, Nobody} /\ shown' \in {shown, Nobody}
          /\ calls' \in {[calls EXCEPT ![c].pc = "refreshing"], [calls EXCEPT ![c].pc = "refused"],
                         [calls EXCEPT ![c] = NoCall]}
      BY <2>5 DEF Denied, Fails, Thrown, Over
    <3>2. calls'[c].pc # "answered"
      BY <1>3, <2>1, <3>1 DEF Call
    <3> QED
      BY <1>1, <1>2, <2>1, <3>1, <3>2
  <2>6. CASE Renewed(c)
    <3> DEFINE a == calls[c]
               new == Cookies(a.token)
    <3>1. /\ a.pc = "renewed" /\ UNCHANGED <<store, cachedFor, shown>>
          /\ here' = IF jar' = new THEN here \cup {new.user} ELSE here
          /\ jar' \in {jar, new}
      BY <2>6 DEF Renewed
    <3>2. /\ new \in JarType /\ new.user \in User /\ (new.access => new.user \in User)
      BY <2>1, <3>1, CookiesAre DEF CallOK
    <3>3. SeenCall(c)'
      <4>1. CASE calls'[c].pc # "answered"
        BY <4>1 DEF SeenCall
      <4>2. CASE /\ a.waiting /\ a.what # "change" /\ jar' = new
                 /\ calls' = [calls EXCEPT ![c] = [Sent(a.what, TRUE, new) EXCEPT !.kept = a.kept]]
        <5> DEFINE s == Sent(a.what, TRUE, new)
        <5>1. a.what \in Pages
          BY <2>1, <3>1 DEF CallOK
        <5>2. s \in Call /\ ((s.pc = "answered" /\ s.user = new.user) \/ s.pc = "denied")
          BY <3>2, <5>1, SentIs
        <5> HIDE DEF s
        <5>3. calls'[c] = [s EXCEPT !.kept = a.kept]
          BY <2>1, <4>2 DEF s
        <5>4. calls'[c].pc = s.pc /\ calls'[c].user = s.user
          BY <5>2, <5>3 DEF Call
        <5>5. new.user \in here'
          BY <3>1, <4>2
        <5> HIDE DEF new
        <5> QED
          BY <4>2, <5>2, <5>4, <5>5 DEF SeenCall
      <4>3. CASE calls' = [calls EXCEPT ![c].pc = "changing"] \/ calls' = [calls EXCEPT ![c] = NoCall]
        <5>1. calls'[c].pc # "answered"
          BY <1>3, <2>1, <4>3 DEF Call
        <5> QED
          BY <4>1, <5>1
      <4> QED
        BY <2>6, <4>2, <4>3 DEF Renewed, Over
    <3> HIDE DEF new
    <3>4. here \subseteq here' /\ jar'.user \in {jar.user} \cup here'
      BY <3>1
    <3>5. store' # Nobody => store # Nobody
      BY <3>1
    <3>6. {shown', cachedFor'} \subseteq {shown, cachedFor, Nobody} \cup here'
      BY <3>1
    <3> QED
      BY <2>1, <3>3, <3>4, <3>5, <3>6, SeenKept DEF Others
  <2>7. CASE Refused(c)
    <3>1. /\ UNCHANGED <<jar, cachedFor, here>> /\ store' = Nobody /\ shown' = Nobody
          /\ calls' = Gone /\ calls[c].pc = "refused"
      BY <2>7 DEF Refused, Thrown, story
    <3>2. calls'[c].pc # "answered"
      BY <1>3, <3>1 DEF Gone, Orphan
    <3> QED
      BY <1>1, <1>2, <2>1, <3>1, <3>2
  <2>8. CASE Lost(c)
    <3>1. /\ UNCHANGED <<jar, cachedFor, here>>
          /\ store' \in {store, Nobody} /\ shown' \in {shown, cachedFor, Nobody}
          /\ calls' \in {[calls EXCEPT ![c] = NoCall], [Gone EXCEPT ![c] = NoCall]}
      BY <2>8 DEF Lost, Fails, Thrown, Over
    <3>2. calls'[c].pc # "answered"
      BY <1>3, <2>1, <3>1 DEF Gone
    <3> QED
      BY <1>1, <1>2, <2>1, <3>1, <3>2
  <2>9. ASSUME NEW u \in User, Enter(c, u)
        PROVE  SeenHere'
    <3>1. /\ UNCHANGED <<jar, store, cachedFor, shown, here>>
          /\ calls' = [calls EXCEPT ![c] = [NoCall EXCEPT !.pc = "entering", !.what = "login",
                                                          !.user = u, !.waiting = TRUE]]
      BY <2>9 DEF Enter
    <3>2. calls'[c].pc # "answered"
      BY <2>1, <3>1 DEF NoCall
    <3> QED
      BY <1>1, <1>2, <2>1, <3>1, <3>2
  <2>10. CASE Welcomed(c)
    <3> DEFINE a == calls[c]
               new == Cookies(a.token)
    <3>1. /\ a.pc = "welcomed" /\ calls' = [calls EXCEPT ![c] = NoCall]
          /\ UNCHANGED <<cachedFor, shown>> /\ here' = here \cup {a.user}
          /\ (jar' = new /\ store' = a.user) \/ (jar' \in {jar, new} /\ store' = store)
      BY <2>10 DEF Welcomed, Over
    <3>2. new.user = a.user
      BY <2>1, <3>1, CookiesAre DEF CallOK
    <3>3. calls'[c].pc # "answered"
      BY <1>3, <2>1, <3>1
    <3> HIDE DEF new
    <3>4. here \subseteq here' /\ jar'.user \in {jar.user} \cup here'
      BY <3>1, <3>2
    <3>5. store' # Nobody => store # Nobody \/ jar'.user \in here'
      BY <3>1, <3>2
    <3>6. {shown', cachedFor'} \subseteq {shown, cachedFor, Nobody} \cup here'
      BY <3>1
    <3>7. \A q \in Proc : Follows(q) \/ SeenCall(q)'
      BY <1>2, <2>1, <3>3
    <3> QED
      BY <3>4, <3>5, <3>6, <3>7, SeenKept
  <2>11. CASE Change(c)
    <3>1. /\ UNCHANGED <<jar, store, cachedFor, shown, here>>
          /\ calls' = [calls EXCEPT ![c] =
               IF Authorized(jar) THEN [NoCall EXCEPT !.pc = "changing", !.what = "change", !.waiting = TRUE]
               ELSE Sent("change", FALSE, jar)]
      BY <2>11 DEF Change, story
    <3>2. calls'[c].pc # "answered"
      <4>1. CASE Authorized(jar)
        BY <2>1, <3>1, <4>1 DEF NoCall
      <4>2. CASE ~Authorized(jar)
        <5>1. Sent("change", FALSE, jar).pc = "denied"
          BY <2>1, <4>2, SentIs DEF Pages
        <5> QED
          BY <2>1, <3>1, <4>2, <5>1
      <4> QED
        BY <4>1, <4>2
    <3> QED
      BY <1>1, <1>2, <2>1, <3>1, <3>2
  <2>12. CASE Changed(c)
    <3>1. /\ UNCHANGED <<jar, store, cachedFor, shown, here>>
          /\ calls' = [calls EXCEPT ![c] = NoCall]
      BY <2>12 DEF Changed, Over, story
    <3>2. calls'[c].pc # "answered"
      BY <1>3, <2>1, <3>1
    <3> QED
      BY <1>1, <1>2, <2>1, <3>1, <3>2
  <2>13. CASE Serve(c)
    <3>1. UNCHANGED <<jar, store, cachedFor, shown, here>>
      BY <2>13 DEF Serve
    <3>2. calls'[c].pc # "answered"
      <4>1. calls[c].pc \in {"entering", "refreshing", "changing"}
        BY <2>13, BeforeIs, ServeDoes
      <4> QED
        BY <2>13, <4>1, ServePc
    <3> QED
      BY <1>1, <1>2, <2>1, <3>1, <3>2
  <2> QED
    BY <1>4, <2>2, <2>3, <2>4, <2>5, <2>6, <2>7, <2>8, <2>9, <2>10, <2>11, <2>12, <2>13 DEF Acts
<1>5. CASE AccessExpires
  <2>1. /\ UNCHANGED <<store, calls, cachedFor, shown, here>> /\ jar'.user = jar.user
    BY <1>5, BeforeIs DEF AccessExpires, story, JarType
  <2>2. \A q \in Proc : Follows(q)
    BY <2>1 DEF Follows
  <2> QED
    BY <1>1, <2>1, <2>2
<1>6. CASE Logout
  <2>1. /\ here' = {} /\ store' = Nobody /\ shown' = Nobody /\ cachedFor' = Nobody
        /\ calls' = [c \in Proc |-> [Gone[c] EXCEPT !.kept = FALSE]]
    BY <1>6 DEF Logout
  <2>2. ASSUME NEW q \in Proc
        PROVE  ~calls'[q].kept /\ ~calls'[q].waiting
    BY <2>1, BeforeIs, NoneType DEF Gone, Orphan, Call, NoCall
  <2> QED
    BY <2>1, <2>2 DEF SeenHere, SeenCall
<1>7. CASE Elsewhere
  <2>1. UNCHANGED <<page, here>>
    BY <1>7 DEF Elsewhere
  <2>2. \A q \in Proc : Follows(q)
    BY <2>1 DEF Follows, page
  <2> QED
    BY <1>1, <2>1, <2>2 DEF page
<1> QED
  BY <1>4, <1>5, <1>6, <1>7, BrowseIs

-----------------------------------------------------------------------------
(***************************************************************************)
(* Logout                                                                  *)
(***************************************************************************)

LEMMA SilentKept ==
  ASSUME Before, Silent, TokensGrow, out' = "heard" => out = "heard",
         jar'.token \in {0, jar.token},
         \A q \in Proc : (Onlooker(q) /\ Follows(q)) \/ QuietCall(q)'
  PROVE  Silent'
<1> SUFFICES ASSUME out' = "heard"
             PROVE  /\ jar'.token = 0 \/ tokens'[jar'.token].state # "live"
                    /\ \A q \in Proc : QuietCall(q)'
  BY DEF Silent
<1>1. /\ jar.token = 0 \/ tokens[jar.token].state # "live"
      /\ \A q \in Proc : QuietCall(q)
  BY DEF Silent
<1>2. jar'.token = 0 \/ tokens'[jar'.token].state # "live"
  BY <1>1, BeforeIs DEF TokensGrow
<1>3. ASSUME NEW q \in Proc, Onlooker(q) /\ Follows(q)
      PROVE  QuietCall(q)'
  <2>1. calls'[q].pc = "idle" \/ calls'[q].pc = calls[q].pc
    BY <1>3, BeforeIs, Followed
  <2> QED
    BY <1>1, <1>3, <2>1 DEF QuietCall, Onlooker
<1> QED
  BY <1>2, <1>3

LEMMA SilentStep ==
  ASSUME Before, Silent, Browse
  PROVE  Silent'
<1>1. Well /\ TokensGrow
  BY BrowseWell DEF Well
<1>2. ASSUME NEW c \in Proc, Others(c), out' = out, jar'.token = jar.token, QuietCall(c)'
      PROVE  Silent'
  BY <1>1, <1>2, SilentKept DEF Others
<1>3. ASSUME NEW c \in Proc, Acts(c)
      PROVE  Silent'
  <2>1. /\ Others(c) /\ calls \in [Proc -> Call] /\ calls[c] \in Call /\ Bond(c) /\ CallOK(c)
    BY <1>3, BeforeIs, OthersStep
  <2>2. out = "heard" => /\ jar.token = 0 \/ tokens[jar.token].state # "live"
                         /\ QuietCall(c)
    BY DEF Silent
  <2>3. ASSUME UNCHANGED vars, out' = out, jar' = jar,
               out = "heard" => calls'[c].pc \notin {"welcomed", "renewed"}
        PROVE  Silent'
    <3>1. CASE out = "heard"
      <4>1. QuietCall(c)'
        BY <2>2, <2>3, <3>1 DEF QuietCall, vars
      <4> QED
        BY <1>2, <2>1, <2>3, <4>1
    <3>2. CASE out # "heard"
      BY <2>3, <3>2 DEF Silent
    <3> QED
      BY <3>1, <3>2
  <2>4. ASSUME NEW what \in {"call", "list"}, NEW fromCache \in BOOLEAN, PageAsks(c, what, fromCache)
        PROVE  Silent'
    <3> DEFINE s == Sent(what, FALSE, jar)
    <3>1. s.pc \in {"answered", "denied"}
      BY DEF Sent, NoCall
    <3>2. Orphan(s).pc # "welcomed" /\ Orphan(s).pc # "renewed"
      <4>1. s \in Call
        <5>1. what \in Pages
          BY DEF Pages
        <5> QED
          BY <5>1, BeforeIs, SentIs
      <4> HIDE DEF s
      <4>2. Orphan(s) = NoCall \/ Orphan(s) = [s EXCEPT !.waiting = FALSE]
        BY DEF Orphan
      <4> QED
        BY <3>1, <4>1, <4>2, NoneType DEF Call
    <3>3. calls'[c] \in {s, Orphan(s)}
      BY <2>1, <2>4 DEF PageAsks
    <3> HIDE DEF s
    <3>4. calls'[c].pc \notin {"welcomed", "renewed"}
      BY <3>1, <3>2, <3>3
    <3> QED
      BY <2>3, <2>4, <3>4 DEF PageAsks, story
  <2>5. CASE OpenPage(c)
    <3>1. calls'[c] = Sent("me", FALSE, jar)
      BY <2>5 DEF OpenPage, Gone
    <3>2. calls'[c].pc \in {"answered", "denied"}
      BY <3>1 DEF Sent, NoCall
    <3> QED
      BY <2>3, <2>5, <3>2 DEF OpenPage, story
  <2>6. CASE Answered(c)
    <3>1. calls'[c].pc = "idle"
      BY <2>1, <2>6, NoneType DEF Answered, Over
    <3> QED
      BY <2>3, <2>6, <3>1 DEF Answered
  <2>7. CASE Denied(c)
    <3>1. jar' = jar /\ out' = out
      BY <2>7 DEF Denied
    <3>2. CASE RefreshRead(c, jar.token) /\ calls' = [calls EXCEPT ![c].pc = "refreshing"]
      <4>1. CASE out = "heard"
        <5>1. /\ jar.token \in DOMAIN tokens /\ tokens[jar.token].state # "expired"
              /\ req'[c].op = "refresh"
              /\ req'[c].pc = IF tokens[jar.token].state = "revoked" THEN "revokeAll" ELSE "owner"
          BY <3>2, BeforeIs, RefreshAsked
        <5>2. tokens[jar.token].state \in {"live", "revoked", "expired"} /\ jar.token # 0
          BY <5>1, BeforeIs, Fields DEF Typed, Token
        <5>3. calls'[c].pc = "refreshing"
          BY <2>1, <3>2 DEF Call
        <5>4. QuietCall(c)'
          BY <2>2, <4>1, <5>1, <5>2, <5>3 DEF QuietCall
        <5> QED
          BY <1>2, <2>1, <3>1, <5>4
      <4>2. CASE out # "heard"
        BY <3>1, <4>2 DEF Silent
      <4> QED
        BY <4>1, <4>2
    <3>3. CASE UNCHANGED vars /\ calls' \in {[calls EXCEPT ![c].pc = "refused"], [calls EXCEPT ![c] = NoCall]}
      <4>1. calls'[c].pc \in {"refused", "idle"}
        BY <2>1, <3>3, NoneType DEF Call
      <4> QED
        BY <2>3, <3>1, <3>3, <4>1
    <3> QED
      BY <2>7, <3>2, <3>3 DEF Denied, Fails, Over
  <2>8. CASE Renewed(c)
    <3>1. out' = out /\ calls[c].pc = "renewed"
      BY <2>8 DEF Renewed
    <3> QED
      BY <2>2, <3>1 DEF Silent, QuietCall
  <2>9. CASE Refused(c)
    <3>1. calls'[c].pc = "idle"
      BY <2>9, NoneType DEF Refused, Gone, Orphan
    <3> QED
      BY <2>3, <2>9, <3>1 DEF Refused, story
  <2>10. CASE Lost(c)
    <3>1. calls' \in {[calls EXCEPT ![c] = NoCall], [Gone EXCEPT ![c] = NoCall]}
      BY <2>10 DEF Lost, Fails, Over
    <3>2. calls'[c].pc = "idle"
      BY <2>1, <3>1, NoneType DEF Gone
    <3> QED
      BY <2>3, <2>10, <3>2 DEF Lost
  <2>11. ASSUME NEW u \in User, Enter(c, u)
         PROVE  Silent'
    BY <2>11 DEF Enter, Silent
  <2>12. CASE Welcomed(c)
    <3>1. out' = out /\ calls[c].pc = "welcomed"
      BY <2>12 DEF Welcomed
    <3> QED
      BY <2>2, <3>1 DEF Silent, QuietCall
  <2>13. CASE Change(c)
    <3>1. jar' = jar /\ out' = out /\ calls[c].pc = "idle"
      BY <2>13 DEF Change, story, Free
    <3>2. CASE Authorized(jar)
      <4>1. req'[c].op = "change"
        BY <2>13, <3>2, BeforeIs, ChangeAsked DEF Change, Authorized
      <4>2. calls'[c].pc = "changing"
        BY <2>1, <2>13, <3>2 DEF Change, NoCall
      <4>3. QuietCall(c)'
        BY <4>1, <4>2 DEF QuietCall
      <4> QED
        BY <1>2, <2>1, <3>1, <4>3
    <3>3. CASE ~Authorized(jar)
      <4>1. calls'[c].pc = "denied"
        BY <2>1, <2>13, <3>3 DEF Change, Sent, NoCall
      <4> QED
        BY <2>3, <2>13, <3>1, <3>3, <4>1 DEF Change
    <3> QED
      BY <3>2, <3>3
  <2>14. CASE Changed(c)
    <3>1. calls'[c].pc = "idle"
      BY <2>1, <2>14, NoneType DEF Changed, Over
    <3> QED
      BY <2>3, <2>14, <3>1 DEF Changed, story
  <2>15. CASE Serve(c)
    <3>1. /\ jar' = jar /\ out' = out
          /\ Moves(c) \/ Brings(c) \/ Closes(c) \/ Refuses(c)
          /\ calls[c].pc \in {"entering", "refreshing", "changing"}
          /\ calls'[c].pc \in {calls[c].pc, "welcomed", "renewed", "refused", "changed", "idle"}
      BY <2>15, BeforeIs, ServeDoes, ServePc DEF Serve
    <3>2. CASE out # "heard"
      BY <3>1, <3>2 DEF Silent
    <3>3. CASE out = "heard"
      <4>1. /\ req[c].op \in {"change", "refresh"}
            /\ req[c].op = "refresh" => req[c].pc = "revokeAll"
            /\ req[c].op = "change" => req[c].pc \in {"change", "revokeAll"}
        BY <2>1, <2>2, <3>1, <3>3 DEF QuietCall, Bond
      <4>2. CASE Moves(c)
        BY <1>2, <2>1, <2>2, <3>1, <3>3, <4>1, <4>2 DEF Moves, QuietCall
      <4>3. ~Brings(c) /\ ~Refuses(c)
        BY <4>1 DEF Brings, Refuses
      <4>4. CASE Closes(c)
        <5>1. PICK end \in {"refused", "changed"} : EndsAs(c, end)
          BY <4>4 DEF Closes
        <5>2. calls'[c].pc \in {end, "idle"} /\ req'[c].op = "-"
          BY <2>1, <5>1, EndsAsIs
        <5>3. QuietCall(c)'
          BY <5>2 DEF QuietCall
        <5> QED
          BY <1>2, <2>1, <3>1, <5>3
      <4> QED
        BY <3>1, <4>2, <4>3, <4>4
    <3> QED
      BY <3>2, <3>3
  <2> QED
    BY <1>3, <2>4, <2>5, <2>6, <2>7, <2>8, <2>9, <2>10, <2>11, <2>12, <2>13, <2>14, <2>15 DEF Acts
<1>4. CASE AccessExpires
  <2>1. UNCHANGED vars /\ calls' = calls /\ out' = out /\ jar'.token = jar.token
    BY <1>4, BeforeIs DEF AccessExpires, story, JarType
  <2>2. \A q \in Proc : Onlooker(q) /\ Follows(q)
    BY <2>1, BeforeIs, Quiet DEF Follows
  <2> QED
    BY <1>1, <2>1, <2>2, SilentKept
<1>5. CASE Logout
  <2> SUFFICES ASSUME out' = "heard"
               PROVE  /\ jar'.token = 0 \/ tokens'[jar'.token].state # "live"
                      /\ \A q \in Proc : QuietCall(q)'
    BY DEF Silent
  <2>1. /\ Authorized(jar) /\ Renewing = {} /\ jar' \in {jar, EmptyJar} /\ req' = req
        /\ calls' = [c \in Proc |-> [Gone[c] EXCEPT !.kept = FALSE]]
    BY <1>5 DEF Logout
  <2>2. jar'.token = 0 \/ tokens'[jar'.token].state # "live"
    BY <1>5, <2>1, LogoutTokens, NoneType
  <2>3. ASSUME NEW q \in Proc
        PROVE  QuietCall(q)'
    <3>1. Follows(q)
      BY <2>1 DEF Follows, Gone
    <3>2. calls'[q].pc = "idle" \/ calls'[q].pc = calls[q].pc
      BY <3>1, BeforeIs, Followed
    <3>3. req[q].op \notin {"login", "refresh"} /\ calls[q].pc \notin {"welcomed", "renewed"}
      BY <2>1 DEF Renewing
    <3> QED
      BY <2>1, <3>2, <3>3 DEF QuietCall
  <2> QED
    BY <2>2, <2>3
<1>6. CASE Elsewhere
  <2>1. UNCHANGED <<page, out>>
    BY <1>6 DEF Elsewhere
  <2>2. \A q \in Proc : Follows(q)
    BY <2>1 DEF Follows, page
  <2>3. \A q \in Proc : Onlooker(q) \/ QuietCall(q)'
    BY <1>6, ElsewhereCalls
  <2>4. \A q \in Proc : (Onlooker(q) /\ Follows(q)) \/ QuietCall(q)'
    BY <2>2, <2>3
  <2> QED
    BY <1>1, <2>1, <2>4, SilentKept DEF page
<1> QED
  BY <1>3, <1>4, <1>5, <1>6, BrowseIs

-----------------------------------------------------------------------------
(***************************************************************************)
(* Whom the pages wait for                                                 *)
(***************************************************************************)

\* A call for which a page waits did so before.
Waited(q) == calls'[q].waiting => calls[q].waiting /\ calls'[q].what = calls[q].what

LEMMA PagesKept ==
  ASSUME PagesOK, \A q \in Proc : Waited(q),
         screen' = "login" => store' = Nobody,
         \A q \in Proc : calls'[q].waiting =>
            /\ screen' = "login" <=> screen = "login"
            /\ calls[q].what = "me" => store' = Nobody
  PROVE  PagesOK'
<1>1. ASSUME NEW q \in Proc
      PROVE  WaitOK(q)'
  BY DEF PagesOK, WaitOK, Waited
<1> QED
  BY <1>1 DEF PagesOK

\* A page begins to wait for the call c.
LEMMA PagesBegin ==
  ASSUME PagesOK, NEW c \in Proc, \A q \in Proc \ {c} : Waited(q),
         UNCHANGED <<screen, store>>, screen = "login" <=> calls'[c].what = "login",
         calls'[c].what \in {"login", "me"} => \A q \in Proc \ {c} : ~calls'[q].waiting,
         calls'[c].what = "me" => store = Nobody,
         \A q \in Proc \ {c} : calls[q].waiting => calls[q].what \notin {"login", "me"}
  PROVE  PagesOK'
<1>1. ASSUME NEW q \in Proc \ {c}
      PROVE  WaitOK(q)'
  BY DEF PagesOK, WaitOK, Waited
<1>2. WaitOK(c)'
  BY DEF WaitOK
<1> QED
  BY <1>1, <1>2 DEF PagesOK

LEMMA FollowsWaited ==
  ASSUME Before, NEW q \in Proc, Follows(q)
  PROVE  Waited(q)
BY BeforeIs, Followed DEF Waited

LEMMA GoneWaits ==
  ASSUME Before, NEW q \in Proc
  PROVE  ~Gone[q].waiting
BY BeforeIs, NoneType DEF Gone, Orphan, Call

LEMMA PagesStep ==
  ASSUME Before, PagesOK, Browse
  PROVE  PagesOK'
<1>1. ASSUME NEW c \in Proc, Acts(c)
      PROVE  PagesOK'
  <2>1. /\ Others(c) /\ calls \in [Proc -> Call] /\ calls[c] \in Call /\ CallOK(c) /\ WaitOK(c)
        /\ \A q \in Proc \ {c} : Waited(q)
        /\ jar \in JarType /\ (jar.access => jar.user \in User)
    BY <1>1, BeforeIs, OthersStep, FollowsWaited DEF Others, PagesOK
  <2>2. ASSUME UNCHANGED <<screen, store>>, Waited(c)
        PROVE  PagesOK'
    <3>1. \A q \in Proc : Waited(q)
      BY <2>1, <2>2
    <3>2. screen' = "login" => store' = Nobody
      BY <2>2 DEF PagesOK
    <3>3. \A q \in Proc : calls'[q].waiting => (calls[q].what = "me" => store' = Nobody)
      BY <2>2, <3>1 DEF Waited, PagesOK, WaitOK
    <3> QED
      BY <2>2, <3>1, <3>2, <3>3, PagesKept
  <2>3. ASSUME \A q \in Proc : ~calls'[q].waiting, screen' = "login" => store' = Nobody
        PROVE  PagesOK'
    BY <2>3 DEF PagesOK, WaitOK
  <2>4. ASSUME calls'[c] = NoCall
        PROVE  Waited(c)
    BY <2>4, NoneType DEF Waited
  <2>5. ASSUME NEW what \in {"call", "list"}, NEW fromCache \in BOOLEAN, PageAsks(c, what, fromCache)
        PROVE  PagesOK'
    <3> DEFINE s == Sent(what, FALSE, jar)
    <3>1. UNCHANGED <<screen, store>> /\ screen = "app" /\ store # Nobody
      BY <2>5 DEF PageAsks
    <3>2. calls'[c] = s \/ calls'[c] = Orphan(s)
      BY <2>1, <2>5 DEF PageAsks
    <3>3. s \in Call /\ s.what = what
      <4>1. what \in Pages
        BY DEF Pages
      <4> QED
        BY <4>1, BeforeIs, SentIs
    <3> HIDE DEF s
    <3>4. CASE calls'[c] = s
      <4>1. \A q \in Proc \ {c} : calls[q].waiting => calls[q].what \notin {"login", "me"}
        BY <3>1 DEF PagesOK, WaitOK
      <4>2. calls'[c].what \notin {"login", "me"}
        BY <3>3, <3>4
      <4> QED
        BY <2>1, <3>1, <4>1, <4>2, PagesBegin
    <3>5. CASE calls'[c] = Orphan(s)
      <4>1. ~calls'[c].waiting
        BY <3>3, <3>5, NoneType DEF Orphan, Call
      <4> QED
        BY <2>2, <3>1, <4>1 DEF Waited
    <3> QED
      BY <3>2, <3>4, <3>5
  <2>6. CASE OpenPage(c)
    <3>1. /\ screen' = "app" /\ store' = Nobody /\ calls'[c] = Sent("me", FALSE, jar)
          /\ \A q \in Proc \ {c} : calls'[q] = Gone[q]
      BY <2>6 DEF OpenPage, Gone
    <3>2. calls'[c].what = "me"
      <4>1. Sent("me", FALSE, jar).what = "me"
        BY <2>1, SentIs DEF Pages
      <4> QED
        BY <3>1, <4>1
    <3>3. \A q \in Proc \ {c} : ~calls'[q].waiting
      BY <3>1, GoneWaits
    <3> QED
      BY <3>1, <3>2, <3>3 DEF PagesOK, WaitOK
  <2>7. CASE Answered(c)
    <3>1. /\ calls'[c] = NoCall /\ screen' = screen
          /\ store' = IF calls[c].what = "me" /\ calls[c].waiting THEN calls[c].user ELSE store
      BY <2>1, <2>7 DEF Answered, Over
    <3>2. CASE calls[c].what = "me" /\ calls[c].waiting
      <4>1. screen # "login" /\ \A q \in Proc : calls[q].waiting => q = c
        BY <2>1, <3>2 DEF WaitOK
      <4>2. \A q \in Proc : ~calls'[q].waiting
        BY <2>1, <3>1, <4>1, NoneType DEF Waited
      <4> QED
        BY <2>3, <3>1, <4>1, <4>2
    <3>3. CASE ~(calls[c].what = "me" /\ calls[c].waiting)
      BY <2>2, <2>4, <3>1, <3>3
    <3> QED
      BY <3>2, <3>3
  <2>8. ASSUME Fails(c), calls[c].waiting
        PROVE  PagesOK'
    <3>1. /\ calls'[c] = NoCall
          /\ IF calls[c].what = "me" THEN screen' = "login" /\ store' = Nobody ELSE UNCHANGED <<screen, store>>
      BY <2>1, <2>8 DEF Fails, Over, Thrown
    <3>2. CASE calls[c].what = "me"
      <4>1. \A q \in Proc : calls[q].waiting => q = c
        BY <2>1, <2>8, <3>2 DEF WaitOK
      <4>2. \A q \in Proc : ~calls'[q].waiting
        BY <2>1, <3>1, <4>1, NoneType DEF Waited
      <4> QED
        BY <2>3, <3>1, <3>2, <4>2
    <3>3. CASE calls[c].what # "me"
      BY <2>2, <2>4, <3>1, <3>3
    <3> QED
      BY <3>2, <3>3
  <2>9. CASE Denied(c)
    <3>1. CASE /\ UNCHANGED <<store, screen>>
               /\ calls' \in {[calls EXCEPT ![c].pc = "refreshing"], [calls EXCEPT ![c].pc = "refused"]}
      <4>1. Waited(c)
        BY <2>1, <3>1 DEF Waited, Call
      <4> QED
        BY <2>2, <3>1, <4>1
    <3>2. CASE Fails(c)
      BY <2>1, <2>8, <2>9, <3>2 DEF Denied, CallOK
    <3> QED
      BY <2>9, <3>1, <3>2 DEF Denied
  <2>10. CASE Renewed(c)
    <3> DEFINE a == calls[c]
               new == Cookies(a.token)
    <3>1. UNCHANGED <<screen, store>> /\ a.pc = "renewed"
      BY <2>10 DEF Renewed
    <3>2. CASE a.waiting /\ calls' = [calls EXCEPT ![c] = [Sent(a.what, TRUE, new) EXCEPT !.kept = a.kept]]
      <4> DEFINE s == Sent(a.what, TRUE, new)
      <4>1. a.what \in Pages /\ new \in JarType /\ (new.access => new.user \in User)
        BY <2>1, <3>1, BeforeIs, CookiesAre DEF CallOK
      <4>2. s \in Call /\ s.what = a.what
        BY <4>1, SentIs
      <4>3. calls'[c] = [s EXCEPT !.kept = a.kept]
        BY <2>1, <3>2
      <4> HIDE DEF s
      <4>4. calls'[c].what = a.what
        BY <4>2, <4>3 DEF Call
      <4> QED
        BY <2>2, <3>1, <3>2, <4>4 DEF Waited
    <3>3. CASE calls' \in {[calls EXCEPT ![c].pc = "changing"], [calls EXCEPT ![c] = NoCall]}
      <4>1. Waited(c)
        BY <2>1, <3>3, NoneType DEF Waited, Call
      <4> QED
        BY <2>2, <3>1, <4>1
    <3> QED
      BY <2>10, <3>2, <3>3 DEF Renewed, Over
  <2>11. CASE Refused(c)
    BY <2>3, <2>11, GoneWaits DEF Refused, Thrown
  <2>12. CASE Lost(c)
    <3>1. calls[c].waiting
      BY <2>12 DEF Lost
    <3>2. CASE Thrown /\ calls' = [Gone EXCEPT ![c] = NoCall]
      <4>1. \A q \in Proc : ~calls'[q].waiting
        BY <3>2, GoneWaits, NoneType DEF Gone
      <4> QED
        BY <2>3, <3>2, <4>1 DEF Thrown
    <3>3. CASE Over(c) /\ UNCHANGED <<screen, store>>
      BY <2>1, <2>2, <2>4, <3>3 DEF Over
    <3>4. CASE Fails(c)
      BY <2>8, <3>1, <3>4
    <3> QED
      BY <2>12, <3>2, <3>3, <3>4 DEF Lost
  <2>13. ASSUME NEW u \in User, Enter(c, u)
         PROVE  PagesOK'
    <3>1. /\ UNCHANGED <<screen, store>> /\ screen = "login"
          /\ \A d \in Proc : ~(calls[d].what = "login" /\ calls[d].waiting)
          /\ calls' = [calls EXCEPT ![c] = [NoCall EXCEPT !.pc = "entering", !.what = "login",
                                                          !.user = u, !.waiting = TRUE]]
      BY <2>13 DEF Enter
    <3>2. \A d \in Proc : ~calls[d].waiting
      BY <3>1 DEF PagesOK, WaitOK
    <3>3. calls'[c].what = "login"
      BY <2>1, <3>1 DEF NoCall
    <3>4. \A q \in Proc \ {c} : ~calls'[q].waiting
      BY <2>1, <3>2 DEF Waited
    <3> QED
      BY <2>1, <3>1, <3>2, <3>3, <3>4, PagesBegin
  <2>14. CASE Welcomed(c)
    <3>1. calls'[c] = NoCall /\ calls[c].pc = "welcomed"
      BY <2>1, <2>14 DEF Welcomed, Over
    <3>2. CASE calls[c].waiting
      <4>1. \A q \in Proc : calls[q].waiting => q = c
        BY <2>1, <3>1, <3>2 DEF WaitOK, CallOK
      <4>2. \A q \in Proc : ~calls'[q].waiting
        BY <2>1, <3>1, <4>1, NoneType DEF Waited
      <4>3. screen' # "login"
        BY <2>14, <3>2 DEF Welcomed
      <4> QED
        BY <2>3, <4>2, <4>3
    <3>3. CASE ~calls[c].waiting
      BY <2>2, <2>4, <2>14, <3>1, <3>3 DEF Welcomed
    <3> QED
      BY <3>2, <3>3
  <2>15. CASE Change(c)
    <3>1. /\ UNCHANGED <<screen, store>> /\ screen = "change" /\ store # Nobody
      BY <2>15 DEF Change
    <3>2. calls'[c].what = "change"
      <4>1. CASE Authorized(jar)
        BY <2>1, <2>15, <4>1 DEF Change, NoCall
      <4>2. CASE ~Authorized(jar)
        <5>1. calls'[c] = Sent("change", FALSE, jar)
          BY <2>1, <2>15, <4>2 DEF Change
        <5>2. Sent("change", FALSE, jar).what = "change"
          BY <2>1, SentIs DEF Pages
        <5> QED
          BY <5>1, <5>2
      <4> QED
        BY <4>1, <4>2
    <3>3. \A q \in Proc \ {c} : calls[q].waiting => calls[q].what \notin {"login", "me"}
      BY <3>1 DEF PagesOK, WaitOK
    <3> QED
      BY <2>1, <3>1, <3>2, <3>3, PagesBegin
  <2>16. CASE Changed(c)
    <3>1. /\ calls'[c] = NoCall /\ screen' = "app" /\ store' = store /\ calls[c].pc = "changed"
      BY <2>1, <2>16 DEF Changed, Over
    <3>2. screen # "login"
      BY <2>1, <3>1 DEF CallOK, WaitOK
    <3>3. \A q \in Proc : Waited(q)
      BY <2>1, <2>4, <3>1
    <3>4. \A q \in Proc : calls'[q].waiting => (calls[q].what = "me" => store' = Nobody)
      BY <3>1, <3>3 DEF Waited, PagesOK, WaitOK
    <3> QED
      BY <3>1, <3>2, <3>3, <3>4, PagesKept
  <2>17. CASE Serve(c)
    <3>1. Waited(c)
      BY <2>17, ServePc DEF Waited
    <3> QED
      BY <2>2, <2>17, <3>1 DEF Serve
  <2> QED
    BY <1>1, <2>5, <2>6, <2>7, <2>9, <2>10, <2>11, <2>12, <2>13, <2>14, <2>15, <2>16, <2>17 DEF Acts
<1>2. ASSUME UNCHANGED <<screen, store, calls>>
      PROVE  PagesOK'
  BY <1>2 DEF PagesOK, WaitOK
<1>3. CASE Logout
  <2>1. \A q \in Proc : calls'[q] = [Gone[q] EXCEPT !.kept = FALSE]
    BY <1>3 DEF Logout
  <2>2. ASSUME NEW q \in Proc
        PROVE  ~calls'[q].waiting
    <3>1. ~Gone[q].waiting /\ Gone[q] \in Call
      BY BeforeIs, GoneWaits, NoneType DEF Gone, Orphan, Call
    <3> HIDE DEF Gone
    <3> QED
      BY <2>1, <3>1 DEF Call
  <2> QED
    BY <1>3, <2>2 DEF PagesOK, WaitOK, Logout
<1> QED
  BY <1>1, <1>2, <1>3, BrowseIs DEF AccessExpires, Elsewhere, page

-----------------------------------------------------------------------------
(***************************************************************************)
(* The session of the browser                                              *)
(***************************************************************************)

\* Nothing that closes sessions, brings cookies or throws out.
Steady(q) ==
  /\ req[q].pc # "revokeAll"
  /\ calls[q].pc # "refused"
  /\ calls[q].pc = "denied" => ~calls[q].again

Calm(q) == Steady(q) /\ req[q].op \notin {"login", "refresh"} /\ calls[q].pc \notin {"welcomed", "renewed"}

LEMMA StaysSteady ==
  ASSUME Before, NEW q \in Proc, Onlooker(q), Follows(q)
  PROVE  /\ q \in Renewing' <=> q \in Renewing
         /\ Steady(q) => Steady(q)'
         /\ calls[q].pc \in {"refreshing", "renewed"} =>
              calls'[q].pc = calls[q].pc /\ calls'[q].token = calls[q].token
<1>1. /\ calls'[q].pc # "idle" =>
           /\ calls'[q].pc = calls[q].pc /\ calls'[q].token = calls[q].token
           /\ calls'[q].again = calls[q].again
      /\ calls'[q].pc = "idle" => calls[q].pc \in {"idle", "denied", "refused", "changed", "answered"}
  BY BeforeIs, Followed
<1>2. q \in Renewing' <=> q \in Renewing
  BY <1>1 DEF Onlooker, Renewing
<1>3. Steady(q) => Steady(q)'
  BY <1>1 DEF Onlooker, Steady
<1> QED
  BY <1>1, <1>2, <1>3

LEMMA Session0Kept ==
  ASSUME Before, Session0, jar'.token = 0, store' = Nobody,
         \A q \in Proc : \/ Follows(q)
                         \/ calls'[q].pc \in {"idle", "denied", "refused", "entering", "welcomed"}
  PROVE  Session0'
<1>1. ASSUME NEW q \in Proc, Follows(q)
      PROVE  calls'[q].pc \in {"idle", "denied", "refused", "entering", "welcomed"}
  <2>1. calls'[q].pc = "idle" \/ calls'[q].pc = calls[q].pc
    BY <1>1, BeforeIs, Followed
  <2> QED
    BY <2>1 DEF Session0
<1> QED
  BY <1>1 DEF Session0

LEMMA Session1Kept ==
  ASSUME Before, Session1, UNCHANGED tokens, jar'.token = jar.token, screen' # "login",
         \A q \in Proc : (Onlooker(q) /\ Follows(q)) \/ (q \notin Renewing /\ Calm(q)')
  PROVE  Session1'
<1>1. ASSUME NEW q \in Proc
      PROVE  Steady(q)' /\ (q \in Renewing' <=> q \in Renewing)
  <2>1. Steady(q)
    BY DEF Session1, Steady
  <2>2. CASE Onlooker(q) /\ Follows(q)
    BY <2>1, <2>2, StaysSteady
  <2>3. CASE q \notin Renewing /\ Calm(q)'
    BY <2>3 DEF Calm, Renewing
  <2> QED
    BY <2>2, <2>3
<1>2. Renewing' = Renewing
  BY <1>1 DEF Renewing
<1>3. ASSUME NEW c \in Proc, Renewing = {c}, Turning(c)
      PROVE  Turning(c)'
  <2>1. Onlooker(c) /\ Follows(c)
    BY <1>3
  <2> QED
    BY <1>3, <2>1, StaysSteady DEF Turning, Onlooker
<1>4. \/ Renewing' = {} /\ tokens'[jar'.token].state = "live"
      \/ \E c \in Proc : Renewing' = {c} /\ Turning(c)'
  BY <1>2, <1>3 DEF Session1
<1> QED
  BY <1>1, <1>4 DEF Session1, Steady

\* A session is made, or its token turned, by the call c.
LEMMA Session1Made ==
  ASSUME Before, NEW c \in Proc, Others(c), Renewing \subseteq {c},
         \A q \in Proc \ {c} : Steady(q),
         Steady(c)', jar'.token # 0, screen' # "login",
         (c \notin Renewing' /\ tokens'[jar'.token].state = "live") \/ (c \in Renewing' /\ Turning(c)')
  PROVE  Session1'
<1>1. ASSUME NEW q \in Proc \ {c}
      PROVE  Steady(q)' /\ q \notin Renewing'
  BY StaysSteady DEF Others
<1>2. \A q \in Proc : Steady(q)'
  BY <1>1
<1>3. Renewing' \subseteq {c}
  BY <1>1 DEF Renewing
<1>4. \/ Renewing' = {} /\ tokens'[jar'.token].state = "live"
      \/ \E d \in Proc : Renewing' = {d} /\ Turning(d)'
  BY <1>3
<1> QED
  BY <1>2, <1>4 DEF Session1, Steady

\* In a session whoever brings cookies turns the token of the browser.
LEMMA TurnsIt ==
  ASSUME Session1, NEW c \in Proc, c \in Renewing
  PROVE  Renewing = {c} /\ Turning(c)
BY DEF Session1

LEMMA SoundServe ==
  ASSUME Before, PeopleOK, Sound, NEW c \in Proc, Serve(c), ~ended', ~crossed'
  PROVE  Session0' \/ Session1'
<1>1. /\ ~ended /\ ~crossed /\ req[c].pc # "change"
      /\ UNCHANGED <<jar, store, screen>>
  BY DEF Serve
<1>2. /\ Others(c) /\ Bond(c) /\ CallOK(c) /\ calls \in [Proc -> Call] /\ calls[c] \in Call
      /\ Moves(c) \/ Brings(c) \/ Closes(c) \/ Refuses(c)
      /\ calls[c].pc \in {"entering", "refreshing", "changing"}
      /\ TokensGrow
  BY BeforeIs, ServeDoes, OthersStep, ServeTypes DEF Acts
<1>3. CASE Session0
  <2>1. calls[c].pc = "entering" /\ req[c].op = "login"
    BY <1>2, <1>3 DEF Session0, Bond
  <2>2. calls'[c].pc \in {"entering", "welcomed"}
    <3>1. ~Closes(c) /\ ~Refuses(c)
      BY <1>2, <2>1 DEF Bond, Closes, Refuses
    <3>2. CASE Moves(c)
      BY <2>1, <3>2 DEF Moves
    <3>3. CASE Brings(c)
      <4> DEFINE n == Len(tokens) + 1
      <4>1. calls'[c] = [calls[c] EXCEPT !.pc = "welcomed", !.token = n]
        BY <1>2, <2>1, <3>3 DEF Brings
      <4> HIDE DEF n
      <4> QED
        BY <1>2, <4>1 DEF Call
    <3> QED
      BY <1>2, <3>1, <3>2, <3>3
  <2>3. jar'.token = 0 /\ store' = Nobody
    BY <1>1, <1>3 DEF Session0
  <2>4. Session0'
    BY <1>2, <1>3, <2>2, <2>3, Session0Kept DEF Others
  <2> QED
    BY <2>4
<1>4. CASE Session1
  <2>1. /\ jar.token # 0 /\ screen # "login" /\ \A q \in Proc : Steady(q)
    BY <1>4 DEF Session1, Steady
  <2>2. req[c].op = "refresh" /\ calls[c].pc = "refreshing"
    <3>1. req[c].op # "login"
      <4>1. ASSUME req[c].op = "login"
            PROVE  FALSE
        <5>1. c \in Renewing /\ calls[c].pc = "entering"
          BY <1>2, <4>1 DEF Renewing, Bond
        <5>2. Turning(c)
          BY <1>4, <5>1, TurnsIt
        <5> QED
          BY <5>1, <5>2 DEF Turning
      <4> QED
        BY <4>1
    <3>2. req[c].op # "change"
      BY <1>1, <1>2, <2>1 DEF Bond, Steady
    <3> QED
      BY <1>2, <3>1, <3>2 DEF Serve, Bond
  <2>3. Renewing = {c} /\ Turning(c)
    BY <1>4, <2>2, TurnsIt DEF Renewing
  <2>4. /\ req[c].token = jar.token /\ tokens[jar.token].state # "expired"
        /\ req[c].pc \in {"owner", "rotate"} => tokens[jar.token].state = "live"
        /\ jar.token \in DOMAIN tokens /\ req[c].pc # "revokeAll"
    BY <1>2, <2>1, <2>2, <2>3, BeforeIs DEF Turning, Steady
  <2>5. CASE Moves(c)
    <3>1. calls' = calls /\ req'[c].op = "refresh" /\ req'[c].token = jar.token
      BY <2>2, <2>4, <2>5 DEF Moves
    <3>2. \/ req'[c].pc = "rotate" /\ req[c].pc = "owner" /\ UNCHANGED tokens
          \/ /\ req'[c].pc = "issue" /\ req[c].pc = "rotate"
             /\ tokens' = [tokens EXCEPT ![jar.token].state = IF @ = "expired" THEN @ ELSE "revoked"]
      BY <1>2, <2>2, <2>4, <2>5 DEF Moves, Bond
    <3>3. tokens'[jar.token].state # "expired" /\ (req'[c].pc = "rotate" => tokens'[jar.token].state = "live")
      <4>1. CASE UNCHANGED tokens /\ req[c].pc = "owner"
        BY <2>4, <4>1
      <4>2. CASE /\ req'[c].pc = "issue"
                 /\ tokens' = [tokens EXCEPT ![jar.token].state = IF @ = "expired" THEN @ ELSE "revoked"]
        <5>1. tokens[jar.token] \in Token
          BY <2>4, BeforeIs, Fields DEF Typed
        <5>2. tokens'[jar.token].state = "revoked"
          BY <2>4, <4>2, <5>1 DEF Token
        <5> QED
          BY <4>2, <5>2
      <4> QED
        BY <3>2, <4>1, <4>2
    <3>4. c \in Renewing'
      BY <3>1 DEF Renewing
    <3>5. Turning(c)' /\ Steady(c)'
      BY <1>1, <2>2, <3>1, <3>2, <3>3 DEF Turning, Steady
    <3> QED
      BY <1>1, <1>2, <2>1, <2>3, <3>4, <3>5, Session1Made
  <2>6. CASE Brings(c)
    <3> DEFINE n == Len(tokens) + 1
               b == [calls[c] EXCEPT !.pc = "renewed", !.token = n]
    <3>1. /\ tokens'[n].state = "live" /\ tokens'[jar.token] = tokens[jar.token] /\ req'[c] = Idle
          /\ calls' = [calls EXCEPT ![c] = b]
      BY <2>2, <2>4, <2>6 DEF Brings
    <3>2. b.pc = "renewed" /\ b.token = n
      <4> HIDE DEF n
      <4> QED
        BY <1>2 DEF Call
    <3> HIDE DEF b, n
    <3>3. calls'[c] = b
      BY <1>2, <3>1
    <3>4. c \in Renewing'
      BY <3>2, <3>3 DEF Renewing
    <3>5. Turning(c)' /\ Steady(c)'
      BY <1>1, <2>4, <3>1, <3>2, <3>3, IdleType DEF Turning, Steady
    <3> QED
      BY <1>1, <1>2, <2>1, <2>3, <3>4, <3>5, Session1Made
  <2>7. ~Closes(c)
    BY <2>4 DEF Closes
  <2>8. ~Refuses(c)
    <3>1. req[c].token \in DOMAIN tokens /\ req[c].user = tokens[req[c].token].user /\ req[c].user \in User
      BY <1>2, <2>2, BeforeIs, Fields DEF Bond, Typed
    <3>2. users[req[c].user].exists /\ tenantActive
      BY <1>1, <3>1 DEF PeopleOK
    <3> QED
      BY <3>1, <3>2 DEF PeopleOK, Refuses
  <2> QED
    BY <1>2, <2>5, <2>6, <2>7, <2>8
<1> QED
  BY <1>1, <1>3, <1>4 DEF Sound

\* The call c is an ordinary one, and nothing arrives at the server.
LEMMA SoundQuietly ==
  ASSUME Before, Sound, NEW c \in Proc, Others(c), UNCHANGED vars, ~ended, ~crossed,
         c \notin Renewing, calls'[c].pc \in {"idle", "answered", "denied", "changing"},
         calls'[c].pc = "denied" => ~calls'[c].again,
         jar'.token = jar.token, screen' = screen \/ screen' # "login",
         Session0 => store' = Nobody /\ calls'[c].pc \in {"idle", "denied"}
  PROVE  Session0' \/ Session1'
<1>1. CASE Session0
  <2>1. Session0'
    BY <1>1, Session0Kept DEF Session0, Others
  <2> QED
    BY <2>1
<1>2. CASE Session1
  <2>1. UNCHANGED <<tokens, req>>
    BY DEF vars, tables
  <2>2. Calm(c)'
    BY <1>2, <2>1 DEF Calm, Steady, Session1, Renewing
  <2>3. Session1'
    BY <1>2, <2>1, <2>2, Session1Kept DEF Others, Session1
  <2> QED
    BY <2>3
<1> QED
  BY <1>1, <1>2 DEF Sound

LEMMA SoundDenied ==
  ASSUME Before, Sound, NEW c \in Proc, Denied(c), ~ended', ~crossed'
  PROVE  Session0' \/ Session1'
<1> DEFINE a == calls[c]
<1>1. /\ a.pc = "denied" /\ UNCHANGED <<jar, ended>> /\ Others(c)
      /\ calls \in [Proc -> Call] /\ a \in Call /\ Bond(c) /\ CallOK(c)
  BY BeforeIs, OthersStep DEF Denied, Acts
<1>2. CASE /\ ~a.again /\ jar.token # 0 /\ tokens[jar.token].state # "expired"
           /\ RefreshRead(c, jar.token)
           /\ calls' = [calls EXCEPT ![c].pc = "refreshing"]
           /\ crossed' = (crossed \/ Renewing # {})
           /\ UNCHANGED <<store, screen, shown>>
  <2>1. ~ended /\ ~crossed /\ Renewing = {}
    BY <1>1, <1>2
  <2>2. Session1
    BY <1>2, <2>1 DEF Sound, Session0
  <2>3. tokens[jar.token].state = "live" /\ screen # "login" /\ \A q \in Proc : Steady(q)
    BY <2>1, <2>2 DEF Session1, Steady
  <2>4. /\ req'[c].op = "refresh" /\ req'[c].token = jar.token /\ req'[c].pc = "owner"
        /\ UNCHANGED tokens
    BY <1>2, <2>3, BeforeIs, RefreshAsked DEF tables
  <2>5. calls'[c].pc = "refreshing"
    BY <1>1, <1>2 DEF Call
  <2>6. c \in Renewing' /\ Turning(c)' /\ Steady(c)'
    BY <1>1, <2>3, <2>4, <2>5 DEF Renewing, Turning, Steady
  <2>7. jar'.token # 0 /\ screen' # "login"
    BY <1>1, <1>2, <2>3
  <2> QED
    BY <1>1, <2>1, <2>3, <2>6, <2>7, Session1Made
<1>3. CASE /\ ~a.again /\ ~(jar.token # 0 /\ tokens[jar.token].state # "expired")
           /\ calls' = [calls EXCEPT ![c].pc = "refused"]
           /\ UNCHANGED <<vars, store, screen, shown, crossed>>
  <2>1. ~Session1
    BY <1>3 DEF Session1, Turning
  <2>2. Session0
    BY <1>1, <1>3, <2>1 DEF Sound
  <2>3. calls'[c].pc = "refused"
    BY <1>1, <1>3 DEF Call
  <2>4. Session0'
    BY <1>1, <1>3, <2>2, <2>3, Session0Kept DEF Session0, Others
  <2> QED
    BY <2>4
<1>4. CASE a.again /\ Fails(c) /\ UNCHANGED <<vars, crossed>>
  <2>1. ~Session1
    BY <1>1, <1>4 DEF Session1
  <2>2. Session0
    BY <1>1, <1>4, <2>1 DEF Sound
  <2>3. calls'[c].pc = "idle" /\ store' \in {store, Nobody}
    BY <1>1, <1>4, NoneType DEF Fails, Over, Thrown
  <2>4. Session0'
    BY <1>1, <1>4, <2>2, <2>3, Session0Kept DEF Session0, Others
  <2> QED
    BY <2>4
<1> QED
  BY <1>2, <1>3, <1>4 DEF Denied

LEMMA SoundRenewed ==
  ASSUME Before, PeopleOK, Sound, NEW c \in Proc, Renewed(c), ~ended', ~crossed'
  PROVE  Session0' \/ Session1'
<1> DEFINE a == calls[c]
           new == Cookies(a.token)
<1>1. /\ a.pc = "renewed" /\ UNCHANGED <<screen, ended>> /\ Others(c)
      /\ calls \in [Proc -> Call] /\ a \in Call /\ Bond(c) /\ CallOK(c) /\ Typed
  BY BeforeIs, OthersStep DEF Renewed, Acts
<1>2. /\ a.waiting /\ jar' = new /\ ~crossed /\ ~ended
  <2>1. a.waiting
    BY Zenon DEF Renewed
  <2>2. crossed' = crossed /\ jar' = new
    BY <2>1, Zenon DEF Renewed
  <2> QED
    BY <1>1, <2>1, <2>2
<1>3. Session1 /\ Renewing = {c} /\ tokens[a.token].state = "live"
  <2>1. Session1 /\ c \in Renewing
    BY <1>1, <1>2 DEF Sound, Session0, Renewing
  <2> QED
    BY <1>1, <2>1, TurnsIt DEF Turning
<1>4. /\ new \in JarType /\ new.token = a.token /\ new.token # 0 /\ new.user = tokens[a.token].user
      /\ new.user \in User /\ new.access /\ a.token \in DOMAIN tokens
  BY <1>1, CookiesAre DEF CallOK
<1>5. SignedIn(new.user) /\ Authorized(new)
  <2>1. users[new.user].exists
    BY <1>4 DEF PeopleOK
  <2>2. users[new.user].isActive /\ ~users[new.user].deleted /\ tenantActive
    BY <1>2, <1>4, <2>1 DEF PeopleOK
  <2> QED
    BY <1>4, <2>1, <2>2 DEF Authorized, SignedIn, Present
<1> HIDE DEF new
<1>6. screen # "login" /\ \A q \in Proc : Steady(q)
  BY <1>3 DEF Session1, Steady
<1>7. UNCHANGED tokens
  BY DEF Renewed, changePassword, vars, tables
<1>8. ASSUME c \notin Renewing', Steady(c)'
      PROVE  Session1'
  <2>1. jar'.token # 0 /\ screen' # "login" /\ tokens'[jar'.token].state = "live"
    BY <1>1, <1>2, <1>3, <1>4, <1>6, <1>7
  <2> QED
    BY <1>1, <1>3, <1>6, <1>8, <2>1, Session1Made
<1>9. req[c].op = "-" /\ req[c].pc = "idle"
  BY <1>1, NotOthers DEF Alone
<1>10. CASE UNCHANGED vars /\ calls' = [calls EXCEPT ![c] = [Sent(a.what, TRUE, new) EXCEPT !.kept = a.kept]]
  <2> DEFINE s == Sent(a.what, TRUE, new)
  <2>1. s \in Call /\ s.pc = "answered"
    <3>1. a.what \in Pages
      BY <1>1 DEF CallOK
    <3>2. s \in Call
      BY <1>4, <3>1, SentIs
    <3>3. s.pc = "answered"
      BY <1>5 DEF Sent, NoCall
    <3> QED
      BY <3>2, <3>3
  <2>2. calls'[c] = [s EXCEPT !.kept = a.kept]
    BY <1>1, <1>10
  <2> HIDE DEF s
  <2>3. calls'[c].pc = "answered"
    BY <2>1, <2>2 DEF Call
  <2>4. req' = req
    BY <1>10 DEF vars
  <2> QED
    BY <1>8, <1>9, <2>3, <2>4 DEF Renewing, Steady
<1>11. CASE changePassword(c, new.user) /\ calls' = [calls EXCEPT ![c].pc = "changing"]
  <2>1. req'[c].op = "change" /\ req'[c].pc = "change"
    BY <1>1, <1>4, <1>11, ChangeAsked
  <2>2. calls'[c].pc = "changing"
    BY <1>1, <1>11 DEF Call
  <2> QED
    BY <1>8, <2>1, <2>2 DEF Renewing, Steady
<1> QED
  BY <1>2, <1>5, <1>10, <1>11 DEF Renewed, new

LEMMA SoundWelcomed ==
  ASSUME Before, PagesOK, NEW c \in Proc, Welcomed(c), ~ended', ~crossed'
  PROVE  Session0' \/ Session1'
<1> DEFINE a == calls[c]
<1>1. /\ a.pc = "welcomed" /\ a.waiting /\ calls' = [calls EXCEPT ![c] = NoCall] /\ UNCHANGED vars
      /\ jar' = Cookies(a.token) /\ screen' # "login"
      /\ tokens[a.token].state = "live" /\ Closing = {} /\ Renewing = {c}
  BY DEF Welcomed, Over
<1>2. Others(c) /\ Bond(c) /\ CallOK(c) /\ WaitOK(c) /\ calls \in [Proc -> Call] /\ Typed
  BY BeforeIs, OthersStep DEF Acts, PagesOK
<1>3. \A q \in Proc \ {c} : ~calls[q].waiting
  BY <1>1, <1>2 DEF WaitOK, CallOK
<1>4. \A q \in Proc \ {c} : Steady(q)
  <2>1. \A q \in Proc \ {c} : calls[q].pc \notin {"denied", "refused"} /\ req[q].pc # "revokeAll"
    BY <1>1, <1>3, BeforeIs DEF CallOK, Closing
  <2> QED
    BY <2>1 DEF Steady
<1>5. calls'[c].pc = "idle" /\ req[c].op = "-" /\ req[c].pc = "idle"
  BY <1>1, <1>2, NoneType, NotOthers DEF Alone
<1>6. UNCHANGED <<tokens, req>>
  BY <1>1 DEF vars, tables
<1>7. c \notin Renewing' /\ Steady(c)'
  BY <1>5, <1>6 DEF Renewing, Steady
<1>8. jar'.token = a.token /\ jar'.token # 0
  BY <1>1, <1>2, CookiesAre DEF CallOK
<1> QED
  BY <1>1, <1>2, <1>4, <1>6, <1>7, <1>8, Session1Made

LEMMA SoundElsewhere ==
  ASSUME Before, Sound, Elsewhere, ~ended', ~crossed'
  PROVE  Session0' \/ Session1'
<1>1. UNCHANGED <<page, tokens>> /\ ~ended /\ ~crossed
  BY DEF Elsewhere
<1>2. UNCHANGED <<jar, store, screen, calls>> /\ \A q \in Proc : Follows(q)
  BY <1>1 DEF page, Follows
<1>3. CASE Session0
  <2>1. Session0'
    BY <1>2, <1>3, Session0Kept DEF Session0
  <2> QED
    BY <2>1
<1>4. CASE Session1
  <2>1. ASSUME NEW q \in Proc
        PROVE  (Onlooker(q) /\ Follows(q)) \/ (q \notin Renewing /\ Calm(q)')
    <3>1. CASE Onlooker(q)
      BY <1>2, <3>1
    <3>2. CASE /\ req[q].op \in Roles \cup {"-"} /\ req'[q].op \in Roles \cup {"-"}
               /\ req'[q].pc # "revokeAll"
               /\ calls'[q] = calls[q] /\ calls[q].pc = "idle"
      BY <3>2 DEF Renewing, Calm, Steady, Roles
    <3> QED
      BY <3>1, <3>2, ElsewhereCalls
  <2>2. Session1'
    BY <1>1, <1>2, <1>4, <2>1, Session1Kept DEF Session1
  <2> QED
    BY <2>2
<1> QED
  BY <1>1, <1>3, <1>4 DEF Sound

LEMMA SoundActs ==
  ASSUME Before, PeopleOK, PagesOK, Sound, NEW c \in Proc, Acts(c), ~ended', ~crossed'
  PROVE  Session0' \/ Session1'
<1>1. /\ Others(c) /\ calls \in [Proc -> Call] /\ calls[c] \in Call /\ Bond(c) /\ CallOK(c)
      /\ jar \in JarType /\ (jar.access => jar.user \in User)
  BY BeforeIs, OthersStep
<1>2. calls[c].pc = "idle" /\ req[c].pc = "idle" => req[c].op = "-" /\ c \notin Renewing
  BY <1>1, NotOthers DEF Alone, Renewing
<1>3. ASSUME NEW what \in {"call", "list"}, NEW fromCache \in BOOLEAN, PageAsks(c, what, fromCache)
      PROVE  Session0' \/ Session1'
  <2> DEFINE s == Sent(what, FALSE, jar)
  <2>1. /\ UNCHANGED <<vars, jar, screen, story>> /\ store # Nobody /\ c \notin Renewing
        /\ calls'[c] = s \/ calls'[c] = Orphan(s)
    BY <1>1, <1>2, <1>3 DEF PageAsks, Free
  <2>2. s \in Call /\ (s.pc = "answered" \/ (s.pc = "denied" /\ s.again = FALSE))
    <3>1. what \in Pages
      BY DEF Pages
    <3> QED
      BY <1>1, <3>1, SentIs
  <2> HIDE DEF s
  <2>3. calls'[c].pc \in {"idle", "answered", "denied"} /\ (calls'[c].pc = "denied" => ~calls'[c].again)
    <3>1. Orphan(s) = NoCall \/ (Orphan(s) = [s EXCEPT !.waiting = FALSE] /\ s.pc = "answered")
      BY <2>2 DEF Orphan
    <3>2. Orphan(s).pc \in {"idle", "answered"}
      BY <2>2, <3>1, NoneType DEF Call
    <3> QED
      BY <2>1, <2>2, <3>2
  <2>4. ~Session0
    BY <2>1 DEF Session0
  <2> QED
    BY <1>1, <2>1, <2>3, <2>4, SoundQuietly DEF story
<1>4. CASE OpenPage(c)
  <2>1. /\ UNCHANGED <<vars, jar, story>> /\ c \notin Renewing /\ screen' = "app" /\ store' = Nobody
        /\ calls'[c] = Sent("me", FALSE, jar)
    BY <1>1, <1>2, <1>4 DEF OpenPage, Free, Gone
  <2>2. /\ calls'[c].pc = "denied" => ~calls'[c].again
        /\ calls'[c].pc \in {"answered", "denied"}
        /\ ~Authorized(jar) => calls'[c].pc = "denied"
    BY <2>1 DEF Sent, NoCall
  <2>3. Session0 => ~Authorized(jar)
    BY <1>1, BeforeIs, JarIs, NoneType DEF Session0, Authorized
  <2> QED
    BY <1>1, <2>1, <2>2, <2>3, SoundQuietly DEF story
<1>5. CASE Answered(c)
  <2>1. /\ UNCHANGED <<vars, jar, screen, ended, crossed>> /\ calls[c].pc = "answered"
        /\ calls'[c].pc = "idle"
    BY <1>1, <1>5, NoneType DEF Answered, Over
  <2>2. ~Session0 /\ c \notin Renewing
    <3>1. req[c].op = "-"
      BY <1>1, <2>1, NotOthers DEF Alone
    <3> QED
      BY <2>1, <3>1 DEF Session0, Renewing
  <2> QED
    BY <1>1, <2>1, <2>2, SoundQuietly
<1>6. CASE Refused(c)
  <2>1. /\ UNCHANGED <<vars, jar, story>> /\ store' = Nobody /\ calls[c].pc = "refused"
        /\ calls'[c].pc = "idle"
    BY <1>1, <1>6, NoneType DEF Refused, Thrown, Gone, Orphan
  <2>2. Session0
    BY <2>1 DEF Sound, Session1, story
  <2>3. Session0'
    BY <1>1, <2>1, <2>2, Session0Kept DEF Session0, Others
  <2> QED
    BY <2>3
<1>7. CASE Lost(c)
  BY <1>7 DEF Lost
<1>8. ASSUME NEW u \in User, Enter(c, u)
      PROVE  Session0' \/ Session1'
  <2>1. /\ screen = "login" /\ UNCHANGED <<jar, store, ended, crossed>>
        /\ calls' = [calls EXCEPT ![c] = [NoCall EXCEPT !.pc = "entering", !.what = "login",
                                                        !.user = u, !.waiting = TRUE]]
    BY <1>8 DEF Enter
  <2>2. Session0
    BY <2>1 DEF Sound, Session1
  <2>3. calls'[c].pc = "entering"
    BY <1>1, <2>1 DEF NoCall
  <2>4. Session0'
    BY <1>1, <2>1, <2>2, <2>3, Session0Kept DEF Session0, Others
  <2> QED
    BY <2>4
<1>9. CASE Change(c)
  <2>1. /\ UNCHANGED <<jar, screen, story>> /\ store # Nobody /\ screen = "change"
        /\ calls[c].pc = "idle" /\ req[c].pc = "idle"
    BY <1>9 DEF Change, Free
  <2>2. ~Session0
    BY <2>1 DEF Session0
  <2>3. CASE Authorized(jar)
    <3>1. UNCHANGED tokens /\ req'[c].op = "change" /\ req'[c].pc = "change"
      BY <1>9, <2>3, BeforeIs, ChangeAsked DEF Change, Authorized, tables
    <3>2. calls'[c].pc = "changing"
      BY <1>1, <1>9, <2>3 DEF Change, NoCall
    <3>3. c \notin Renewing /\ Calm(c)'
      BY <1>2, <2>1, <3>1, <3>2 DEF Calm, Steady
    <3>4. Session1
      BY <2>1, <2>2 DEF Sound, story
    <3>5. Session1'
      BY <1>1, <2>1, <3>1, <3>3, <3>4, Session1Kept DEF Others
    <3> QED
      BY <3>5
  <2>4. CASE ~Authorized(jar)
    <3>1. UNCHANGED vars /\ calls'[c] = Sent("change", FALSE, jar)
      BY <1>1, <1>9, <2>4 DEF Change
    <3>2. calls'[c].pc = "denied" /\ ~calls'[c].again
      BY <2>4, <3>1 DEF Sent, NoCall
    <3> QED
      BY <1>1, <1>2, <2>1, <2>2, <3>1, <3>2, SoundQuietly DEF story
  <2> QED
    BY <2>3, <2>4
<1>10. CASE Changed(c)
  <2>1. /\ UNCHANGED <<vars, jar, story>> /\ screen' # "login" /\ calls[c].pc = "changed"
        /\ calls'[c].pc = "idle"
    BY <1>1, <1>10, NoneType DEF Changed, Over
  <2>2. ~Session0 /\ c \notin Renewing
    <3>1. req[c].op = "-"
      BY <1>1, <2>1, NotOthers DEF Alone
    <3> QED
      BY <2>1, <3>1 DEF Session0, Renewing
  <2> QED
    BY <1>1, <2>1, <2>2, SoundQuietly DEF story
<1> QED
  BY <1>3, <1>4, <1>5, <1>6, <1>7, <1>8, <1>9, <1>10, SoundServe, SoundDenied, SoundRenewed, SoundWelcomed
  DEF Acts

LEMMA SoundStep ==
  ASSUME Before, PeopleOK, PagesOK, Sound, Browse
  PROVE  Sound'
<1> SUFFICES ASSUME ~ended', ~crossed'
             PROVE  Session0' \/ Session1'
  BY DEF Sound
<1>1. ~Logout
  BY DEF Logout
<1>2. CASE AccessExpires
  <2>1. /\ UNCHANGED <<vars, store, screen, calls, ended, crossed>> /\ jar'.token = jar.token
    BY <1>2, BeforeIs DEF AccessExpires, story, JarType
  <2>2. \A q \in Proc : Onlooker(q) /\ Follows(q)
    BY <2>1, BeforeIs, Quiet DEF Follows
  <2>3. UNCHANGED tokens
    BY <2>1 DEF vars, tables
  <2>4. CASE Session0
    <3>1. Session0'
      BY <2>1, <2>2, <2>4, Session0Kept DEF Session0
    <3> QED
      BY <3>1
  <2>5. CASE Session1
    <3>1. Session1'
      BY <2>1, <2>2, <2>3, <2>5, Session1Kept DEF Session1
    <3> QED
      BY <3>1
  <2> QED
    BY <2>1, <2>4, <2>5 DEF Sound
<1> QED
  BY <1>1, <1>2, BrowseIs, SoundActs, SoundElsewhere

-----------------------------------------------------------------------------
(***************************************************************************)
(* The invariant                                                           *)
(***************************************************************************)

Parts == CallsOK /\ SeenHere /\ Silent /\ PeopleOK /\ PagesOK /\ Sound

LEMMA BrowserInitOK == BrowserInit => IInv
<1> SUFFICES ASSUME BrowserInit PROVE IInv
  OBVIOUS
<1>1. Init /\ Typed
  BY TypeInit DEF BrowserInit
<1>2. /\ jar = EmptyJar /\ store = Nobody /\ screen = "login" /\ calls = [c \in Proc |-> NoCall]
      /\ cachedFor = Nobody /\ shown = Nobody /\ ended = FALSE /\ crossed = FALSE
      /\ out = "in" /\ here = {}
      /\ temporary \subseteq User /\ ("browser" \notin served => temporary = {})
  BY AccountsAssumption DEF BrowserInit
<1>3. BrowserTypeOK
  <2>1. EmptyJar \in JarType /\ EmptyJar.token = 0 /\ NoCall \in Call
    BY NoneType
  <2> QED
    BY <1>2, <2>1 DEF BrowserTypeOK, JarType
<1>4. CASE ~InUse
  <2>1. Unused
    BY <1>2, <1>4 DEF Unused, InUse
  <2> QED
    BY <1>1, <1>3, <1>4, <2>1 DEF IInv
<1>5. CASE InUse
  <2>1. /\ \A c \in Proc : req[c] = Idle /\ calls[c] = NoCall
        /\ tokens = <<>> /\ tenantActive = TRUE
    BY <1>1, <1>2 DEF Init
  <2>2. Idle.op = "-" /\ Idle.pc = "idle"
    BY DEF Idle, Ask
  <2>3. CallsOK
    BY <1>2, <2>1, <2>2, NoneType DEF CallsOK, JarOK, Bond, CallOK, Roles
  <2>4. SeenHere /\ Silent
    BY <1>2, <2>1, NoneType DEF SeenHere, SeenCall, Silent
  <2>5. PagesOK
    BY <1>2, <2>1, NoneType DEF PagesOK, WaitOK
  <2>6. PeopleOK
    <3>1. DOMAIN tokens = {}
      BY <2>1
    <3>2. \A u \in User : users[u].exists => users[u].isActive /\ ~users[u].deleted
      BY <1>1 DEF Init, Vacant
    <3> QED
      BY <2>1, <2>2, <3>1, <3>2 DEF PeopleOK
  <2>7. Sound
    BY <1>2, <2>1, NoneType DEF Sound, Session0
  <2> QED
    BY <1>1, <1>3, <1>5, <2>3, <2>4, <2>5, <2>6, <2>7 DEF IInv
<1> QED
  BY <1>4, <1>5

\* A step that leaves everything, ...
LEMMA PartsStay ==
  ASSUME Parts, UNCHANGED <<vars, browser>>
  PROVE  Parts'
<1>1. /\ UNCHANGED <<users, tokens, tenantActive, req, served>>
      /\ UNCHANGED <<jar, store, screen, calls, cachedFor, shown, temporary, ended, crossed, out, here>>
  BY DEF vars, tables, browser, page, story
<1>2. CallsOK'
  BY <1>1 DEF Parts, CallsOK, JarOK, Bond, CallOK
<1>3. SeenHere' /\ Silent'
  BY <1>1 DEF Parts, SeenHere, SeenCall, Silent, QuietCall
<1>4. PeopleOK' /\ PagesOK'
  BY <1>1 DEF Parts, PeopleOK, PagesOK, WaitOK
<1>5. Sound'
  BY <1>1 DEF Parts, Sound, Session0, Session1, Turning, Renewing
<1> QED
  BY <1>2, <1>3, <1>4, <1>5 DEF Parts

\* ... one of the browser, ...
LEMMA PartsStep ==
  ASSUME Before, Parts, Browse
  PROVE  Parts'
BY BrowseWell, SeenStep, SilentStep, PeopleStep, PagesStep, SoundStep DEF Parts, Well

\* ... and one of anything else that arrives at the server.
LEMMA NextServed ==
  ASSUME Typed, Next
  PROVE  UNCHANGED served
<1>1. ASSUME NEW p \in Proc, Arrives(p)
      PROVE  UNCHANGED served
  BY <1>1, Asks
<1>2. ASSUME NEW p \in Proc, Continues(p)
      PROVE  UNCHANGED served
  BY <1>2, TablesStep DEF Typed
<1>3. Aside => UNCHANGED served
  BY DEF Aside, Expire, logout, LockExpires, unlockUsers, updateTenantStatus
<1> QED
  BY <1>1, <1>2, <1>3, Steps3

LEMMA BrowserStep == IInv /\ [BrowserNext]_<<vars, browser>> => IInv'
<1> SUFFICES ASSUME IInv, [BrowserNext]_<<vars, browser>> PROVE IInv'
  OBVIOUS
<1>1. Typed /\ BrowserTypeOK
  BY DEF IInv
<1>2. ASSUME ~InUse, UNCHANGED browser, [Next]_vars
      PROVE  IInv'
  <2>1. Typed'
    BY <1>1, <1>2, TypeStep
  <2>2. UNCHANGED served
    BY <1>1, <1>2, NextServed DEF vars
  <2>3. Unused'
    BY <1>2 DEF IInv, Unused, browser, page, story, EmptyJar, NoCall
  <2>4. BrowserTypeOK'
    <3>1. jar'.token = 0 /\ UNCHANGED browser
      BY <1>2, <2>3, NoneType DEF Unused, IInv, browser, page
    <3> QED
      BY <1>1, <3>1 DEF BrowserTypeOK, browser, page, story
  <2> QED
    BY <1>2, <2>1, <2>2, <2>3, <2>4 DEF IInv, InUse
<1>3. ASSUME InUse, Browse
      PROVE  IInv'
  <2>1. Before /\ Parts
    BY <1>3 DEF IInv, Before, Parts
  <2>2. Well /\ UNCHANGED served /\ Parts'
    BY <1>3, <2>1, BrowseWell, BrowseServed, PartsStep
  <2> QED
    BY <1>3, <2>2 DEF IInv, InUse, Well, Parts
<1>4. ASSUME InUse, UNCHANGED <<vars, browser>>
      PROVE  IInv'
  <2>1. Parts'
    BY <1>4, PartsStay DEF IInv, Parts
  <2>2. Typed' /\ UNCHANGED <<tokens, served>>
    BY <1>1, <1>4, TypeStep DEF vars, tables
  <2>3. BrowserTypeOK'
    BY <1>1, <1>4, <2>2 DEF BrowserTypeOK, browser, page, story
  <2> QED
    BY <1>4, <2>1, <2>2, <2>3 DEF IInv, InUse, Parts
<1> QED
  BY <1>2, <1>3, <1>4 DEF BrowserNext, InUse

LEMMA BrowserHolds == BrowserSpec => []IInv
<1>1. BrowserInit => IInv
  BY BrowserInitOK
<1>2. IInv /\ [BrowserNext]_<<vars, browser>> => IInv'
  BY BrowserStep
<1> QED
  BY <1>1, <1>2, PTL DEF BrowserSpec

-----------------------------------------------------------------------------
(***************************************************************************)
(* The theorems                                                            *)
(***************************************************************************)

\* The cookies, the pages and the calls of the browser have their types, and
\* the cookies name the owner of their token (the cookies of auth.controller,
\* auth-store.ts, api.ts, sw.js).
THEOREM BrowserTypeCorrect == BrowserSpec => []BrowserTypeOK
<1>1. IInv => BrowserTypeOK
  BY DEF IInv
<1> QED
  BY <1>1, BrowserHolds, PTL

\* A logout that the server heard while nothing was under way leaves no token
\* of use in the cookies, whatever answers are lost or late (logout of
\* auth-store.ts, api.ts and auth.controller).
THEOREM LogoutsEnd == BrowserSpec => []LogoutEnds
<1>1. IInv => LogoutEnds
  BY NoneType DEF IInv, LogoutEnds, Silent, Unused
<1> QED
  BY <1>1, BrowserHolds, PTL

\* No page is shown a list of a user from before the last logout, not even by
\* the answer to a call of that time or from the cache (logout of
\* auth-store.ts, the lists of sw.js).
THEOREM ListsEnd == BrowserSpec => []ListsEndWithLogout
<1>1. IInv => ListsEndWithLogout
  BY DEF IInv, ListsEndWithLogout, SeenHere, Unused
<1> QED
  BY <1>1, BrowserHolds, PTL

\* Whoever is thrown out at work had lost his session on the server, or two
\* refreshes of his browser crossed, or an answer was lost (the interceptor of
\* api.ts, refresh of auth.service).
THEOREM ThrownJustly == BrowserSpec => []ThrownForAReason
<1>1. IInv => ThrownForAReason
  <2>1. CASE ~InUse
    <3>1. IInv => \A c \in Proc : calls[c].pc = "idle"
      BY <2>1, NoneType DEF IInv, Unused
    <3> QED
      BY <3>1 DEF ThrownForAReason, ThrownOut
  <2>2. CASE InUse
    BY <2>2 DEF IInv, ThrownForAReason, ThrownOut, Sound, Session0, Session1
  <2> QED
    BY <2>1, <2>2
<1> QED
  BY <1>1, BrowserHolds, PTL

-----------------------------------------------------------------------------
(***************************************************************************)
(* The browser asks nothing of the server that the server does not do      *)
(* anyway: what holds of Accounts holds behind a browser.                  *)
(***************************************************************************)

LEMMA LogoutAsks ==
  ASSUME Before, Logout
  PROVE  UNCHANGED vars \/ \E t \in 1..MaxTokens : logout(t)
<1>1. "logout" \in served /\ UNCHANGED <<users, tenantActive, req, served, history>>
  BY DEF Logout
<1>2. CASE ~Authorized(jar)
  BY <1>1, <1>2 DEF Logout, vars, tables
<1>3. CASE Authorized(jar)
  <2>1. /\ jar.token \in DOMAIN tokens /\ jar.user = tokens[jar.token].user
    BY <1>3, BeforeIs, JarIs, NoneType DEF Authorized
  <2>2. jar.token \in 1..MaxTokens
    BY <2>1, BeforeIs, Fields, AccountsAssumption DEF Typed
  <2>3. CASE tokens[jar.token].state = "live"
    <3>1. tokens' = [tokens EXCEPT ![jar.token].state = "revoked"]
      BY <1>3, <2>1, <2>3 DEF Logout
    <3>2. logout(jar.token)
      BY <1>1, <1>3, <2>1, <2>3, <3>1 DEF logout, Authorized
    <3> QED
      BY <2>2, <3>2
  <2>4. CASE tokens[jar.token].state # "live"
    <3>1. tokens' = [tokens EXCEPT ![jar.token].state = tokens[jar.token].state]
      BY <1>3, <2>1, <2>4 DEF Logout
    <3>2. tokens[jar.token] \in Token /\ DOMAIN tokens = 1..Len(tokens)
          /\ tokens \in [DOMAIN tokens -> Token]
      BY <2>1, BeforeIs, Fields, LenProperties DEF Typed, TypeOK
    <3>3. [tokens[jar.token] EXCEPT !.state = tokens[jar.token].state] = tokens[jar.token]
      BY <3>2 DEF Token
    <3>4. tokens' = [tokens EXCEPT ![jar.token] = tokens[jar.token]]
      BY <3>1, <3>3
    <3>5. tokens' = tokens
      BY <3>2, <3>4
    <3> QED
      BY <1>1, <3>5 DEF vars, tables
  <2> QED
    BY <2>3, <2>4
<1> QED
  BY <1>2, <1>3

LEMMA CallAsks ==
  ASSUME Before, NEW c \in Proc, Acts(c)
  PROVE  UNCHANGED vars \/ Arrives(c) \/ Continues(c)
<1>1. CASE Denied(c)
  <2>1. CASE RefreshRead(c, jar.token)
    <3>1. jar.token \in 1..MaxTokens
      BY <2>1, BeforeIs, Fields, AccountsAssumption DEF RefreshRead, Typed
    <3> QED
      BY <2>1, <3>1 DEF Arrives
  <2> QED
    BY <1>1, <2>1 DEF Denied
<1>2. CASE Renewed(c)
  <2>1. calls[c].token \in DOMAIN tokens
    BY <1>2, BeforeIs DEF Renewed, CallOK
  <2>2. Cookies(calls[c].token).user \in User
    BY <2>1, BeforeIs, Fields DEF Typed, Cookies
  <2>3. changePassword(c, Cookies(calls[c].token).user) => Arrives(c)
    BY <2>2 DEF Arrives
  <2> QED
    BY <1>2, <2>3 DEF Renewed
<1>3. CASE \E u \in User : Enter(c, u)
  BY <1>3 DEF Enter, Arrives
<1>4. CASE Change(c)
  <2>1. Authorized(jar) => jar.user \in User
    BY BeforeIs DEF Authorized
  <2> QED
    BY <1>4, <2>1 DEF Change, Arrives
<1>5. CASE Serve(c)
  BY <1>5, ServeIs
<1>6. CASE \/ \E what \in {"call", "list"}, fromCache \in BOOLEAN : PageAsks(c, what, fromCache)
           \/ OpenPage(c) \/ Answered(c) \/ Refused(c) \/ Lost(c) \/ Welcomed(c) \/ Changed(c)
  BY <1>6 DEF PageAsks, OpenPage, Answered, Refused, Lost, Welcomed, Changed
<1> QED
  BY <1>1, <1>2, <1>3, <1>4, <1>5, <1>6 DEF Acts

LEMMA BrowseAsks ==
  ASSUME Before, Browse
  PROVE  [Next]_vars
<1>1. ASSUME NEW c \in Proc, Acts(c) PROVE [Next]_vars
  BY <1>1, CallAsks, Steps3
<1>2. CASE AccessExpires
  BY <1>2 DEF AccessExpires
<1>3. CASE Logout
  BY <1>3, LogoutAsks, Steps3 DEF Aside
<1>4. CASE Elsewhere
  <2>1. ASSUME NEW p \in Proc, NEW u \in User, create(p, u, "OTHER") PROVE Arrives(p)
    BY <2>1 DEF Arrives, Roles
  <2>2. \A p \in Proc : InsertUser(p) => Continues(p)
    BY DEF Continues
  <2> QED
    BY <1>4, <2>1, <2>2, Steps3 DEF Elsewhere, Aside
<1> QED
  BY <1>1, <1>2, <1>3, <1>4, BrowseIs

\* A browser in front of the server is one of the things that may arrive at
\* it: every step of the two is a step of the server, or none.
THEOREM BrowserAsks == BrowserSpec => Spec
<1>1. BrowserInit => Init
  BY DEF BrowserInit
<1>2. IInv /\ [BrowserNext]_<<vars, browser>> => [Next]_vars
  <2> SUFFICES ASSUME IInv, [BrowserNext]_<<vars, browser>> PROVE [Next]_vars
    OBVIOUS
  <2>1. CASE InUse /\ Browse
    BY <2>1, BrowseAsks DEF IInv, Before
  <2> QED
    BY <2>1 DEF BrowserNext, InUse
<1> QED
  BY <1>1, <1>2, BrowserHolds, PTL DEF BrowserSpec, Spec

\* The promises of the server hold behind a browser: sessions fork only after
\* a race and implement the ledger, old passwords close them, failures lock,
\* deleted users get no token, an administrator remains.
THEOREM KeptBehindBrowser ==
  ASSUME IsFiniteSet(Proc)
  PROVE  BrowserSpec => /\ []OneTokenPerSession /\ []OldPasswordClosed
                        /\ []FailuresLock /\ []AdminRemains
                        /\ NoTokenForDeleted /\ LedgerSpec
BY BrowserAsks, SessionsUnforked, OldSessionsClosed, FailuresCounted, AdminStays, DeletedGetNoToken,
   LedgerRefined
=============================================================================
