------------------------------ MODULE Browser -------------------------------
(***************************************************************************)
(* One browser in front of Accounts: its cookies, the interceptor that     *)
(* answers a 401 with a refresh and one more try, the pages that let a     *)
(* user in or send him to the login, and the service worker that answers   *)
(* lists from its cache.  Translated from lib/api.ts, lib/auth-store.ts,   *)
(* protected-route.tsx, the pages login and change-password and public/    *)
(* sw.js of the frontend, and from auth.controller.ts of the backend.      *)
(*                                                                         *)
(* A call of the page is a process of Proc.  The server looks at an        *)
(* ordinary call when it is sent and its answer arrives later; a login, a  *)
(* refresh and a change of password go through the steps of Accounts.  An  *)
(* answer may be lost.  When a page goes, nobody waits for its answers any *)
(* more, but what the server has begun goes on.                            *)
(***************************************************************************)
EXTENDS Accounts

CONSTANT Nobody

ASSUME NobodyAssumption == Nobody \notin User

VARIABLES
  jar,       \* the cookies: both tokens, and whether the access token is still of use
  store,     \* auth-store: the user the pages believe in, Nobody while they ask
  screen,    \* the page on the screen: the login, change-password, or one of the others
  calls,     \* the requests of the page that are under way
  cachedFor, \* whose list the service worker holds
  shown,     \* whose list is on the screen
  temporary, \* users who were told to choose another password (mustChangePassword)
  ended,     \* since the login the server had a reason to end the session  (history)
  crossed,   \* since the login two refreshes crossed or an answer was lost (history)
  out,       \* "heard" or "unheard": did the logout reach a session        (history)
  here       \* users who were at work since the last logout             (history)

page == <<jar, store, screen, calls, cachedFor, shown>>
story == <<ended, crossed, out, here>>
browser == <<page, temporary, story>>

NoCall == [pc |-> "idle", what |-> "call", again |-> FALSE, token |-> 0,
           user |-> Nobody, waiting |-> FALSE, kept |-> FALSE]

\* Where a call stands, what it is, whether it was tried before, the refresh
\* token and the user of its answer, whether a page waits for the answer, and
\* whether the cache that it would fill still exists.
Call == [pc : {"idle", "answered", "denied", "refreshing", "renewed", "refused",
               "entering", "welcomed", "changing", "changed"},
         what : {"call", "list", "me", "login", "change"}, again : BOOLEAN,
         token : 0..MaxTokens, user : User \cup {Nobody}, waiting : BOOLEAN, kept : BOOLEAN]

EmptyJar == [user |-> Nobody, token |-> 0, access |-> FALSE]

\* Faulty: the cookie of the refresh token stays what it was.
CookiesAccessOnly(t) ==
  [user |-> tokens[t].user, token |-> IF jar.token = 0 THEN t ELSE jar.token, access |-> TRUE]

\* The cookies that login and refresh set.
Cookies(t) == [user |-> tokens[t].user, token |-> t, access |-> TRUE]

\* JwtStrategy: the access token has not run out and its user is let in.
Authorized(j) == j.access /\ SignedIn(j.user)

Free(c) == calls[c].pc = "idle" /\ req[c].pc = "idle"

\* Requests under way whose answers bring cookies.
Renewing == {c \in Proc : req[c].op \in {"login", "refresh"} \/ calls[c].pc \in {"welcomed", "renewed"}}

\* Requests under way that are about to close sessions.
Closing == {c \in Proc : req[c].pc \in {"change", "revokeAll"}}

\* An ordinary request as it is sent with the cookies j, and answered.
Sent(what, again, j) ==
  IF Authorized(j)
  THEN [NoCall EXCEPT !.pc = "answered", !.what = what, !.waiting = TRUE, !.kept = TRUE,
                      !.user = j.user]
  ELSE [NoCall EXCEPT !.pc = "denied", !.what = what, !.waiting = TRUE, !.kept = TRUE,
                      !.again = again]

Over(c) == calls' = [calls EXCEPT ![c] = NoCall]

\* A call without its page: only a list goes on to the cache, and only what
\* may still bring cookies is of interest.
Orphan(a) ==
  IF a.pc \in {"denied", "refused", "changed"} \/ (a.pc = "answered" /\ a.what # "list")
  THEN NoCall ELSE [a EXCEPT !.waiting = FALSE]

\* The page goes: its calls are nobody's.
Gone == [c \in Proc |-> Orphan(calls[c])]

\* window.location.href = '/login', without a logout.
Thrown ==
  /\ screen' = "login"
  /\ store' = Nobody
  /\ shown' = Nobody

-----------------------------------------------------------------------------
(***************************************************************************)
(* Calls of a page, and the service worker                                 *)
(***************************************************************************)

\* A page asks for something.  The worker answers a list from its cache if it
\* has one that is not an hour old, and fetches it again behind the page.
PageAsks(c, what, fromCache) ==
  /\ screen = "app" /\ store # Nobody
  /\ Free(c)
  /\ what = "call" \/ (what = "list" /\ "lists" \in served)
  /\ fromCache => what = "list" /\ cachedFor # Nobody
  /\ calls' = [calls EXCEPT ![c] = IF fromCache THEN Orphan(Sent(what, FALSE, jar))
                                   ELSE Sent(what, FALSE, jar)]
  /\ shown' = IF fromCache THEN cachedFor ELSE shown
  /\ UNCHANGED <<vars, jar, store, screen, cachedFor, temporary, story>>

\* The page is opened by its address or loaded again: checkAuth asks who is here.
OpenPage(c) ==
  /\ "open" \in served
  /\ Free(c)
  /\ screen' = "app"
  /\ store' = Nobody
  /\ shown' = Nobody
  /\ calls' = [Gone EXCEPT ![c] = Sent("me", FALSE, jar)]
  /\ UNCHANGED <<vars, jar, cachedFor, temporary, story>>

\* The answer 200 arrives: a list fills the cache, and is shown if a page waits.
Answered(c) ==
  LET a == calls[c] IN
  /\ a.pc = "answered"
  /\ cachedFor' = IF a.what = "list" /\ a.kept THEN a.user ELSE cachedFor
  /\ shown' = IF a.what = "list" /\ a.waiting THEN a.user ELSE shown
  /\ store' = IF a.what = "me" /\ a.waiting THEN a.user ELSE store
  /\ here' = IF a.what = "me" THEN here \cup {a.user} ELSE here
  /\ Over(c)
  /\ UNCHANGED <<vars, jar, screen, temporary, ended, crossed, out>>

\* A call fails for good: a page that asked who is here sends to the login.
Fails(c) ==
  /\ Over(c)
  /\ IF calls[c].what = "me"
     THEN Thrown
     ELSE UNCHANGED <<screen, store, shown>>

\* The answer 401 arrives.  The first time the interceptor asks for other
\* tokens, with the cookie of this moment.
Denied(c) ==
  LET a == calls[c]
      renew == ~a.again
      held == jar.token # 0 /\ tokens[jar.token].state # "expired" IN
  /\ a.pc = "denied"
  /\ \/ /\ renew /\ held
        /\ RefreshRead(c, jar.token)
        /\ calls' = [calls EXCEPT ![c].pc = "refreshing"]
        /\ crossed' = (crossed \/ Renewing # {})
        /\ UNCHANGED <<store, screen, shown>>
     \/ /\ renew /\ ~held
        /\ calls' = [calls EXCEPT ![c].pc = "refused"]
        /\ UNCHANGED <<vars, store, screen, shown, crossed>>
     \/ /\ ~renew
        /\ Fails(c)
        /\ UNCHANGED <<vars, crossed>>
  /\ UNCHANGED <<jar, cachedFor, temporary, ended, out, here>>

\* The refresh was answered: its cookies are kept and the call is sent again.
\* When its page is gone the browser may have kept them or not.
Renewed(c) ==
  LET a == calls[c]
      new == Cookies(a.token) IN
  /\ a.pc = "renewed"
  /\ \/ /\ a.waiting /\ a.what # "change"
        /\ jar' = new
        /\ calls' = [calls EXCEPT ![c] = [Sent(a.what, TRUE, new) EXCEPT !.kept = a.kept]]
        /\ UNCHANGED <<vars, crossed>>
     \/ /\ a.waiting /\ a.what = "change"
        /\ jar' = new
        /\ IF SignedIn(new.user)
           THEN changePassword(c, new.user) /\ calls' = [calls EXCEPT ![c].pc = "changing"]
           ELSE Over(c) /\ UNCHANGED vars
        /\ UNCHANGED crossed
     \/ /\ ~a.waiting
        /\ jar' \in {jar, new}
        /\ crossed' = TRUE
        /\ Over(c)
        /\ UNCHANGED vars
  /\ here' = IF jar' = new THEN here \cup {new.user} ELSE here
  /\ UNCHANGED <<store, screen, cachedFor, shown, temporary, ended, out>>

\* The refresh was refused: the page goes to the login.
Refused(c) ==
  /\ calls[c].pc = "refused"
  /\ Thrown
  /\ calls' = Gone
  /\ UNCHANGED <<vars, jar, cachedFor, temporary, story>>

\* The connection drops before the answer.  A refresh that fails this way
\* sends to the login as well, and a list is what the cache holds, if anything.
Lost(c) ==
  LET a == calls[c] IN
  /\ a.pc \in {"answered", "denied", "renewed"}
  /\ a.waiting
  /\ CASE a.pc = "renewed" -> Thrown /\ calls' = [Gone EXCEPT ![c] = NoCall]
       [] a.pc # "renewed" /\ a.what = "list" ->
            Over(c) /\ shown' = cachedFor /\ UNCHANGED <<screen, store>>
       [] OTHER -> Fails(c)
  /\ crossed' = TRUE
  /\ UNCHANGED <<vars, jar, cachedFor, temporary, ended, out, here>>

\* The access token is fifteen minutes old.
AccessExpires ==
  /\ jar.access
  /\ jar' = [jar EXCEPT !.access = FALSE]
  /\ UNCHANGED <<vars, store, screen, calls, cachedFor, shown, temporary, story>>

-----------------------------------------------------------------------------
(***************************************************************************)
(* Login, logout, change of password                                       *)
(***************************************************************************)

Enter(c, u) ==
  /\ screen = "login"
  /\ Free(c)
  /\ \A d \in Proc : ~(calls[d].what = "login" /\ calls[d].waiting)
  /\ LoginRead(c, u, TRUE)
  /\ calls' = [calls EXCEPT ![c] = [NoCall EXCEPT !.pc = "entering", !.what = "login",
                                                  !.user = u, !.waiting = TRUE]]
  /\ out' = "in"
  /\ UNCHANGED <<jar, store, screen, cachedFor, shown, temporary, ended, crossed, here>>

\* The answer to a login: cookies, the user, and the page he is sent to.
Welcomed(c) ==
  LET a == calls[c] IN
  /\ a.pc = "welcomed"
  /\ Over(c)
  /\ IF a.waiting
     THEN /\ jar' = Cookies(a.token)
          /\ store' = a.user
          /\ screen' = IF a.user \in temporary THEN "change" ELSE "app"
          /\ ended' = (tokens[a.token].state # "live" \/ ~tenantActive \/ Closing # {})
          /\ crossed' = (Renewing # {c})
     ELSE jar' \in {jar, Cookies(a.token)} /\ crossed' = TRUE
          /\ UNCHANGED <<store, screen, ended>>
  /\ here' = here \cup {a.user}
  /\ UNCHANGED <<vars, cachedFor, shown, temporary, out>>

\* The page of the change asks for it; a 401 goes the way of any call.
Change(c) ==
  /\ screen = "change" /\ store # Nobody
  /\ Free(c)
  /\ IF Authorized(jar)
     THEN /\ changePassword(c, jar.user)
          /\ calls' = [calls EXCEPT ![c] = [NoCall EXCEPT !.pc = "changing", !.what = "change",
                                                          !.waiting = TRUE]]
     ELSE /\ calls' = [calls EXCEPT ![c] = Sent("change", FALSE, jar)]
          /\ UNCHANGED vars
  /\ UNCHANGED <<jar, store, screen, cachedFor, shown, temporary, story>>

Changed(c) ==
  /\ calls[c].pc = "changed"
  /\ Over(c)
  /\ screen' = "app"
  /\ UNCHANGED <<vars, jar, store, cachedFor, shown, temporary, story>>

\* Faulty: the lists of the worker stay.
LogoutKeepsLists ==
  /\ screen = "app" /\ store # Nobody
  /\ screen' = "login"
  /\ store' = Nobody
  /\ shown' = Nobody
  /\ here' = {}
  /\ calls' = Gone
  /\ IF Authorized(jar)
     THEN tokens' = [tokens EXCEPT ![jar.token].state = IF @ = "live" THEN "revoked" ELSE @]
          /\ jar' = EmptyJar
     ELSE UNCHANGED <<tokens, jar>>
  /\ ended' = TRUE
  /\ UNCHANGED <<users, tenantActive, req, served, history, cachedFor, temporary, crossed, out>>

\* Faulty: the cookies are cleared and the token is not revoked.
LogoutClearsOnly ==
  /\ screen = "app" /\ store # Nobody
  /\ screen' = "login"
  /\ store' = Nobody
  /\ shown' = Nobody
  /\ cachedFor' = Nobody
  /\ here' = {}
  /\ calls' = [c \in Proc |-> [Gone[c] EXCEPT !.kept = FALSE]]
  /\ jar' \in {jar, EmptyJar}
  /\ out' = IF Authorized(jar) /\ Renewing = {} THEN "heard" ELSE "unheard"
  /\ ended' = TRUE
  /\ UNCHANGED <<vars, temporary, crossed>>

\* The caches are emptied and the page goes at once: an answer 401 finds nobody
\* to refresh, and the cookies are cleared only if the answer is still heard.
Logout ==
  /\ "logout" \in served
  /\ screen = "app" /\ store # Nobody
  /\ screen' = "login"
  /\ store' = Nobody
  /\ shown' = Nobody
  /\ cachedFor' = Nobody
  /\ here' = {}
  /\ calls' = [c \in Proc |-> [Gone[c] EXCEPT !.kept = FALSE]]
  /\ IF Authorized(jar)
     THEN /\ tokens' = [tokens EXCEPT ![jar.token].state = IF @ = "live" THEN "revoked" ELSE @]
          /\ jar' \in {jar, EmptyJar}
          /\ out' = IF Renewing = {} THEN "heard" ELSE "unheard"
     ELSE out' = "unheard" /\ UNCHANGED <<tokens, jar>>
  /\ ended' = TRUE
  /\ UNCHANGED <<users, tenantActive, req, served, history, temporary, crossed>>

-----------------------------------------------------------------------------
(***************************************************************************)
(* The server                                                              *)
(***************************************************************************)

\* The next await of a login, a refresh or a change of password of this
\* browser.  Its end is the answer.
Serve(c) ==
  /\ req[c].op \in {"login", "refresh", "change"}
  /\ \/ RefreshOwner(c) \/ RefreshRotate(c) \/ RevokeAll(c) \/ LoginRehash(c) \/ LoginWelcome(c)
     \/ IssueToken(c) \/ NewPassword(c)
  /\ calls' = IF req'[c].pc # "idle" THEN calls
              ELSE LET end == CASE calls[c].pc = "entering" -> "welcomed"
                                [] calls[c].pc = "changing" -> "changed"
                                [] calls[c].pc \notin {"entering", "changing"} /\ Len(tokens') > Len(tokens) ->
                                     "renewed"
                                [] OTHER -> "refused"
                       a == [calls[c] EXCEPT !.pc = end,
                               !.token = IF end \in {"welcomed", "renewed"} THEN Len(tokens') ELSE 0]
                   IN  [calls EXCEPT ![c] = IF a.waiting THEN a ELSE Orphan(a)]
  /\ temporary' = IF req[c].pc = "change" THEN temporary \ {req[c].user} ELSE temporary
  /\ ended' = (ended \/ req[c].pc = "change")
  /\ UNCHANGED <<jar, store, screen, cachedFor, shown, crossed, out, here>>

\* What happens to the account elsewhere: a second user is made, a refresh
\* token is seven days old, the brewery is suspended.
Elsewhere ==
  /\ \/ \E p \in Proc : /\ calls[p].pc = "idle"
                        /\ \/ \E u \in User : create(p, u, "OTHER")
                           \/ InsertUser(p)
     \/ \E t \in 1..MaxTokens : Expire(t)
     \/ \E isActive \in BOOLEAN : updateTenantStatus(isActive)
  /\ ended' = (ended \/ tokens' # tokens \/ ~tenantActive')
  /\ UNCHANGED <<page, temporary, crossed, out, here>>

-----------------------------------------------------------------------------
BrowserInit ==
  /\ Init
  /\ jar = EmptyJar
  /\ store = Nobody
  /\ screen = "login"
  /\ calls = [c \in Proc |-> NoCall]
  /\ cachedFor = Nobody
  /\ shown = Nobody
  /\ temporary \in IF "browser" \in served THEN {{}, {Founder}} ELSE {{}}
  /\ ended = FALSE
  /\ crossed = FALSE
  /\ out = "in"
  /\ here = {}

Browse ==
  \/ \E c \in Proc :
       \/ \E what \in {"call", "list"}, fromCache \in BOOLEAN : PageAsks(c, what, fromCache)
       \/ OpenPage(c)
       \/ Answered(c) \/ Denied(c) \/ Renewed(c) \/ Refused(c) \/ Lost(c)
       \/ \E u \in User : Enter(c, u)
       \/ Welcomed(c) \/ Change(c) \/ Changed(c)
       \/ Serve(c)
  \/ AccessExpires
  \/ Logout
  \/ Elsewhere

\* Either this browser is what arrives at the server, or anything else is.
BrowserNext ==
  \/ "browser" \in served /\ Browse
  \/ "browser" \notin served /\ Next /\ UNCHANGED browser

BrowserSpec == BrowserInit /\ [][BrowserNext]_<<vars, browser>>

-----------------------------------------------------------------------------
(***************************************************************************)
(* Correctness                                                             *)
(***************************************************************************)

BrowserTypeOK ==
  /\ jar \in [user : User \cup {Nobody}, token : 0..MaxTokens, access : BOOLEAN]
  /\ jar.token # 0 => jar.token <= Len(tokens) /\ tokens[jar.token].user = jar.user
  /\ store \in User \cup {Nobody}
  /\ screen \in {"login", "change", "app"}
  /\ calls \in [Proc -> Call]
  /\ {cachedFor, shown} \subseteq User \cup {Nobody}
  /\ temporary \subseteq User
  /\ ended \in BOOLEAN /\ crossed \in BOOLEAN
  /\ out \in {"in", "heard", "unheard"}
  /\ here \subseteq User

ThrownOut == \E c \in Proc : calls[c].pc = "refused"

\* A user at work is thrown out to the login only if the server ended the
\* session, two refreshes of the browser crossed, or an answer was lost.
ThrownForAReason == ThrownOut => ended \/ crossed \/ store = Nobody

\* What the flow of an expired token says: the renewal is automatic, and the
\* login comes only when the refresh token has ended too.
RenewalIsTransparent == ThrownOut => ended \/ store = Nobody

\* After a logout the browser holds no token of use, unless the logout met an
\* access token that had run out, or a refresh under way.
LogoutEnds == out = "heard" => jar.token = 0 \/ tokens[jar.token].state # "live"

\* No list of a user who was here before the last logout is shown to those who
\* came after it, by the page or by the worker.
ListsEndWithLogout == shown \in here \cup {Nobody}
=============================================================================
