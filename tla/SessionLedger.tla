---------------------------- MODULE SessionLedger ----------------------------
(***************************************************************************)
(* What signing in promises about sessions, whatever the refresh tokens of *)
(* a session are: a session is opened once, and one that has ended, by     *)
(* logout, revocation, expiry or the loss of an answer, never comes back.  *)
(***************************************************************************)
CONSTANT Session

VARIABLE phase

Phases == {"unused", "open", "ended"}

Init == phase = [s \in Session |-> "unused"]

Open(s) ==
  /\ phase[s] = "unused"
  /\ phase' = [phase EXCEPT ![s] = "open"]

\* Any number of open sessions end at once.
End(S) ==
  /\ \A s \in S : phase[s] = "open"
  /\ phase' = [s \in Session |-> IF s \in S THEN "ended" ELSE phase[s]]

Next ==
  \/ \E s \in Session : Open(s)
  \/ \E S \in SUBSET Session : End(S)

Spec == Init /\ [][Next]_phase
=============================================================================
