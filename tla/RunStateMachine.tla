-------------------------- MODULE RunStateMachine ---------------------------
(***************************************************************************)
(* What the run lifecycle promises its users: the state machine of         *)
(* ADR-0006 for each run, execution under an authority that can be lost,   *)
(* and the bound on the executions of an organization.  There are no       *)
(* leases, outbox rows, jobs or clocks here; RunLifecycle implements it.   *)
(***************************************************************************)
EXTENDS Integers, FiniteSets

CONSTANTS Runs, Orgs, OrgOf, MaxAttempts, OrgCapacity

VARIABLES
  state,      \* state[r]: where the run stands
  tries,      \* tries[r]: executions started
  executing,  \* the runs for which a worker holds authority
  result      \* result[r]: the execution that published the result, or 0

abstract == <<state, tries, executing, result>>

Init ==
  /\ state = [r \in Runs |-> "absent"]
  /\ tries = [r \in Runs |-> 0]
  /\ executing = {}
  /\ result = [r \in Runs |-> 0]

\* Executions that count against the organization.
Active(o) ==
  {r \in Runs : /\ OrgOf[r] = o
                /\ \/ state[r] = "running"
                   \/ state[r] = "cancel_requested" /\ r \in executing}

Move(r, from, to) ==
  /\ state[r] \in from
  /\ state' = [state EXCEPT ![r] = to]

Admit(r) ==
  /\ Move(r, {"absent"}, "queued")
  /\ UNCHANGED <<tries, executing, result>>

RequestCancel(r) ==
  /\ Move(r, {"queued", "running", "retrying"}, "cancel_requested")
  /\ UNCHANGED <<tries, executing, result>>

\* An execution starts only while the organization has room for one more.
Start(r) ==
  /\ Move(r, {"queued", "retrying"}, "running")
  /\ tries[r] < MaxAttempts
  /\ Cardinality(Active(OrgOf[r])) < OrgCapacity
  /\ tries' = [tries EXCEPT ![r] = @ + 1]
  /\ executing' = executing \cup {r}
  /\ UNCHANGED result

\* Only an execution with authority publishes.
Succeed(r) ==
  /\ Move(r, {"running"}, "succeeded")
  /\ r \in executing
  /\ result[r] = 0
  /\ result' = [result EXCEPT ![r] = tries[r]]
  /\ executing' = executing \ {r}
  /\ UNCHANGED tries

\* An execution ends without a result and another may follow.
Retry(r) ==
  /\ Move(r, {"running"}, "retrying")
  /\ tries[r] < MaxAttempts
  /\ executing' = executing \ {r}
  /\ UNCHANGED <<tries, result>>

Fail(r) ==
  /\ Move(r, {"queued", "running", "retrying"}, "failed")
  /\ executing' = executing \ {r}
  /\ UNCHANGED <<tries, result>>

Cancel(r) ==
  /\ Move(r, {"cancel_requested"}, "canceled")
  /\ executing' = executing \ {r}
  /\ UNCHANGED <<tries, result>>

\* Workers lose their authority without a word.
LoseAuthority ==
  /\ executing' \in SUBSET executing
  /\ UNCHANGED <<state, tries, result>>

RunMoves(r) ==
  \/ Admit(r) \/ RequestCancel(r) \/ Start(r) \/ Succeed(r)
  \/ Retry(r) \/ Fail(r) \/ Cancel(r)

Next == LoseAuthority \/ \E r \in Runs : RunMoves(r)

Spec == Init /\ [][Next]_abstract

=============================================================================
