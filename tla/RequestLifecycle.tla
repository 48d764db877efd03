-------------------------- MODULE RequestLifecycle --------------------------
(***************************************************************************)
(* What the presentation service promises of a request, without calls,     *)
(* caches or clocks: it is issued once and closed once, never reopened; a  *)
(* failed verdict may come at any time after it was issued, a verified one *)
(* only after it was closed; verdicts are forgotten.                       *)
(***************************************************************************)
CONSTANT Ids
VARIABLES phase, verdict

Init ==
  /\ phase = [id \in Ids |-> "new"]
  /\ verdict = [id \in Ids |-> "none"]

Issue(id) ==
  /\ phase[id] = "new"
  /\ phase' = [phase EXCEPT ![id] = "open"]
  /\ UNCHANGED verdict

Close(id) ==
  /\ phase[id] = "open"
  /\ phase' = [phase EXCEPT ![id] = "closed"]
  /\ UNCHANGED verdict

Fail(id) ==
  /\ phase[id] # "new"
  /\ verdict' = [verdict EXCEPT ![id] = "failed"]
  /\ UNCHANGED phase

Verify(id) ==
  /\ phase[id] = "closed"
  /\ verdict' = [verdict EXCEPT ![id] = "verified"]
  /\ UNCHANGED phase

Forget(id) ==
  /\ verdict' = [verdict EXCEPT ![id] = "none"]
  /\ UNCHANGED phase

Next == \E id \in Ids : Issue(id) \/ Close(id) \/ Fail(id) \/ Verify(id) \/ Forget(id)
Spec == Init /\ [][Next]_<<phase, verdict>>
=============================================================================
