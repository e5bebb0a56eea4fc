---------------------------- MODULE RunCreation ----------------------------
(***************************************************************************)
(* What the creation of runs promises those who ask for one, though asking *)
(* takes a handler, a limiter and four locks: a request takes effect at    *)
(* once or not at all, between its call and its return.  Who is told that  *)
(* the run was created has it; who is told of a failure may still have it, *)
(* and finds out by asking again with the same key.                        *)
(*                                                                         *)
(* There are no locks, markers or transactions here.  RunAdmission         *)
(* implements it.                                                          *)
(***************************************************************************)
EXTENDS Integers, FiniteSets

CONSTANTS Keys, Callers, Transports, MaxUnfinished, MaxRetained

VARIABLES
  calls,    \* what each caller asked for and is going to be told
  runs,     \* the run of each key
  carrier,  \* the transport each run was created under
  enabled,  \* runs may be created
  transport \* the transport in use

creation == <<calls, runs, carrier, enabled, transport>>

NoCall == [answer |-> "none"]

Init ==
  /\ calls = [c \in Callers |-> NoCall]
  /\ runs = [k \in Keys |-> "none"]
  /\ carrier = [k \in Keys |-> "none"]
  /\ enabled = TRUE
  /\ transport \in Transports

Live   == {k \in Keys : runs[k] \in {"queued", "claimed"}}
Stored == {k \in Keys : runs[k] # "none"}

-----------------------------------------------------------------------------
(* A request. *)

Call(c, k) ==
  /\ calls[c] = NoCall
  /\ calls' = [calls EXCEPT ![c] = [answer |-> "open", key |-> k]]
  /\ UNCHANGED <<runs, carrier, enabled, transport>>

Told(c, answer) ==
  /\ calls[c].answer = "open"
  /\ calls' = [calls EXCEPT ![c].answer = answer]

\* The run appears, within the quotas and for the transport in use.  Runs may have been
\* disabled since the request was let pass.
Create(c) ==
  LET k == calls[c].key IN
  /\ Told(c, "created") \/ Told(c, "failed")
  /\ runs[k] = "none"
  /\ Cardinality(Live) < MaxUnfinished /\ Cardinality(Stored) < MaxRetained
  /\ runs' = [runs EXCEPT ![k] = "queued"]
  /\ carrier' = [carrier EXCEPT ![k] = transport]
  /\ UNCHANGED <<enabled, transport>>

\* An earlier request with the key created it.
Find(c) ==
  /\ Told(c, "created")
  /\ runs[calls[c].key] # "none"
  /\ UNCHANGED <<runs, carrier, enabled, transport>>

Fail(c) ==
  /\ Told(c, "failed")
  /\ UNCHANGED <<runs, carrier, enabled, transport>>

\* With the answer, or without one if it is lost.
Return(c) ==
  /\ calls[c] # NoCall
  /\ calls' = [calls EXCEPT ![c] = NoCall]
  /\ UNCHANGED <<runs, carrier, enabled, transport>>

-----------------------------------------------------------------------------
(* The runs, and the operator. *)

RunMoves(k, from, to) ==
  /\ runs[k] \in from
  /\ runs' = [runs EXCEPT ![k] = to]
  /\ UNCHANGED <<calls, carrier, enabled, transport>>

\* Work begins only under the transport the run was created under.
Claim(k) == carrier[k] = transport /\ RunMoves(k, {"queued"}, "claimed")

Retry(k) == RunMoves(k, {"claimed"}, "queued")
End(k)   == RunMoves(k, {"queued", "claimed"}, "ended")

Toggle ==
  /\ enabled' = ~enabled
  /\ UNCHANGED <<calls, runs, carrier, transport>>

\* The transport is changed only while no run needs it.
Switch ==
  /\ ~enabled /\ Live = {}
  /\ transport' \in Transports
  /\ UNCHANGED <<calls, runs, carrier, enabled>>

Next ==
  \/ \E c \in Callers, k \in Keys : Call(c, k)
  \/ \E c \in Callers : Create(c) \/ Find(c) \/ Fail(c) \/ Return(c)
  \/ \E k \in Keys : Claim(k) \/ Retry(k) \/ End(k)
  \/ Toggle \/ Switch

Spec == Init /\ [][Next]_creation

=============================================================================
