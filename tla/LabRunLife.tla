----------------------------- MODULE LabRunLife -----------------------------
(***************************************************************************)
(* What the Campaign Lab promises about its runs: a run waits, is worked   *)
(* on and settles once; it is begun again only so often, and after a       *)
(* cancellation never; and a paid provider is called for it at most once,  *)
(* while it is worked on for the first time.                               *)
(*                                                                         *)
(* There are no leases, tokens, workers or clocks here.  CampaignWorkers   *)
(* implements it.                                                          *)
(***************************************************************************)
EXTENDS Integers, FiniteSets

CONSTANTS Runs, AdmissionBound, MaxClaims, MaxRetries

VARIABLES
  state,   \* what became of each run
  claims,  \* how often it was begun
  result,  \* the claim that its result comes from, or 0
  charged  \* calls of a paid provider

lab == <<state, claims, result, charged>>

Open    == {"waiting", "working", "canceling"}
Settled == {"succeeded", "failed", "canceled"}

Init ==
  /\ state = [r \in Runs |-> "none"]
  /\ claims = [r \in Runs |-> 0]
  /\ result = [r \in Runs |-> 0]
  /\ charged = [r \in Runs |-> 0]

Moves(r, from, to) ==
  /\ state[r] \in from
  /\ state' = [state EXCEPT ![r] = to]

Submit(r) ==
  /\ Cardinality({s \in Runs : state[s] \in Open}) < AdmissionBound
  /\ Moves(r, {"none"}, "waiting")
  /\ UNCHANGED <<claims, result, charged>>

\* The run is taken, or taken over from a worker that was lost.
Begin(r) ==
  /\ claims[r] < MaxClaims
  /\ Moves(r, {"waiting", "working"}, "working")
  /\ claims' = [claims EXCEPT ![r] = @ + 1]
  /\ UNCHANGED <<result, charged>>

Charge(r) ==
  /\ state[r] = "working" /\ claims[r] = 1 /\ charged[r] = 0
  /\ charged' = [charged EXCEPT ![r] = 1]
  /\ UNCHANGED <<state, claims, result>>

Retry(r) ==
  /\ claims[r] < MaxRetries
  /\ Moves(r, {"working"}, "waiting")
  /\ UNCHANGED <<claims, result, charged>>

Succeed(r) ==
  /\ Moves(r, {"working"}, "succeeded")
  /\ result' = [result EXCEPT ![r] = claims[r]]
  /\ UNCHANGED <<claims, charged>>

Fail(r) == Moves(r, {"working"}, "failed") /\ UNCHANGED <<claims, result, charged>>

\* Work that is under way may end first.
Cancel(r) ==
  /\ Moves(r, {"working"}, "canceling") \/ Moves(r, {"waiting", "canceling"}, "canceled")
  /\ UNCHANGED <<claims, result, charged>>

Remove(r) ==
  /\ Moves(r, Settled, "removed")
  /\ claims' = [claims EXCEPT ![r] = 0]
  /\ result' = [result EXCEPT ![r] = 0]
  /\ UNCHANGED charged

Next == \E r \in Runs :
  \/ Submit(r) \/ Begin(r) \/ Charge(r) \/ Retry(r) \/ Succeed(r) \/ Fail(r)
  \/ Cancel(r) \/ Remove(r)

Spec == Init /\ [][Next]_lab

=============================================================================
