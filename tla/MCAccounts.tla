----------------------------- MODULE MCAccounts -----------------------------
(* Small instances of Accounts and of Browser in front of it for TLC. *)
EXTENDS Browser, TLC

Symmetry == Permutations(Proc) \cup Permutations(User \ {Founder})

\* What arrives in a behaviour: logins and refreshes with what else may happen
\* to sessions, wrong passwords, or the administration of users.
PasswordChanges == {"login", "refresh", "change"}
ChangeCutShort == {"login", "change", "crash"}
LeftOrOld == {"login", "refresh", "logout", "expire"}
SetByOthers == {"login", "refresh", "password", "reset"}
ComeAndGo == {"refresh", "login", "delete", "create"}
Guesses == {"login", "guess", "unlock", "tenant"}
Staff == {"create", "promote", "demote", "deactivate", "activate", "delete", "on", "off", "crash"}

\* Or one browser: two calls meet an access token that ran out, a password
\* changes, a second user takes over, pages are left and opened again.
BrowserRenews == {"browser", "logout", "login", "refresh", "tenant"}
BrowserChanges == {"browser", "logout", "login", "refresh", "change", "expire"}
BrowserTakenOver == {"browser", "logout", "login", "lists", "create"}
BrowserReopens == {"browser", "logout", "login", "refresh", "open"}

AnyOfThem == {PasswordChanges, ChangeCutShort, LeftOrOld, SetByOthers, ComeAndGo, Guesses, Staff,
              BrowserRenews, BrowserChanges, BrowserTakenOver, BrowserReopens}
\* What the finding needs.
OnlyBrowserRenews == {BrowserRenews}
=============================================================================
