----------------------------- MODULE RunPolling -----------------------------
(***************************************************************************)
(* How the web console follows a run.  The views of a page share a poller, *)
(* which asks the API, sleeps and asks again until the run has ended, the  *)
(* API refuses, or half an hour has gone by.  The registry makes a poller  *)
(* for the first view and drops it with the last one, while its request    *)
(* may still be under way.  A view that cancels the run shows the answer   *)
(* to its cancellation or what the poller has, whichever is newer.         *)
(*                                                                         *)
(* A callback runs to its end before another starts, and is one step.  The *)
(* run's versions stand for its states: the last one is final.  A poller   *)
(* that nothing refers to any more may serve as a new one.  The length of  *)
(* a sleep and the results of a finished run are left out.                 *)
(***************************************************************************)
EXTENDS Integers, Sequences, SequencesExt

CONSTANTS
  Views,        \* mounted views of the run
  Pollers,      \* pollers that exist at one time
  LastVersion   \* the run's version when it is final

ASSUME VersionAssumption == LastVersion \in Nat \ {0}
ASSUME RegistryAssumption == "none" \notin Pollers

VARIABLES
  version,    \* the run's version in the database
  pollers,    \* listeners, snapshot, timers and requests of each poller
  registered, \* the poller in the registry, or "none"
  canceled,   \* the answer to each view's cancellation: a version, or 0
  cancels     \* each view's cancellation that is under way

pollingVars == <<version, pollers, registered, canceled, cancels>>

Versions == 1..LastVersion
NewPoller == [listeners |-> {}, run |-> 0, reason |-> "none", timers |-> 0,
              fetches |-> <<>>, late |-> FALSE]

NoRequest == [kind |-> "none", run |-> 0]
Sent      == [kind |-> "sent", run |-> 0]
Failed    == [kind |-> "failed", run |-> 0]
Refused   == [kind |-> "refused", run |-> 0]
Run(n)    == [kind |-> "run", run |-> n]
Answers   == {Failed, Refused} \cup {Run(n) : n \in Versions}

Reasons == {"none", "terminal", "refused", "timed_out"}

PollerRows ==
  [listeners : SUBSET Views, run : 0..LastVersion, reason : Reasons, timers : 0..1,
   fetches : BoundedSeq({Sent} \cup Answers, 1), late : BOOLEAN]

Cancellations == {NoRequest, Sent} \cup {Run(n) : n \in Versions}

PollingTypeOK ==
  /\ version \in Versions
  /\ pollers \in [Pollers -> PollerRows]
  /\ registered \in Pollers \cup {"none"}
  /\ canceled \in [Views -> 0..LastVersion]
  /\ cancels \in [Views -> Cancellations]

PollingInit ==
  /\ version = 1
  /\ pollers = [p \in Pollers |-> NewPoller]
  /\ registered = "none"
  /\ canceled = [v \in Views |-> 0]
  /\ cancels = [v \in Views |-> NoRequest]

-----------------------------------------------------------------------------
(* The poller. *)

InFlight(row) == row.fetches # <<>>

Polled(row) ==
  IF InFlight(row) THEN row ELSE [row EXCEPT !.fetches = Append(@, Sent)]

\* Fault: the timer is forgotten without being cleared.
Cleared_Forgets(row) == row

Cleared(row) == [row EXCEPT !.timers = 0]

\* After half an hour the poller stops instead of sleeping.
Scheduled(row) ==
  IF row.late THEN [row EXCEPT !.reason = "timed_out"]
  ELSE [row EXCEPT !.timers = @ + 1]

\* Fault: an error ends the polling.
Retried_NoErrors(answer) == answer.kind = "run"

\* Every answer but a final version and a refusal is followed by another question.
Retried(answer) == answer # Refused

Settled(row, answer) ==
  LET shown == [row EXCEPT !.run = IF answer.kind = "run" THEN answer.run ELSE @,
                           !.reason = IF answer = Refused THEN "refused"
                                      ELSE IF answer = Run(LastVersion) THEN "terminal"
                                      ELSE "none"]
  IN  IF answer # Run(LastVersion) /\ Retried(answer) /\ row.listeners # {}
        THEN Scheduled(shown) ELSE shown

Answered(row, i) == Settled([row EXCEPT !.fetches = RemoveAt(@, i)], row.fetches[i])

Fired(row) == Polled([row EXCEPT !.timers = @ - 1])

\* Nothing refers to the poller.
Unused(p) ==
  /\ registered # p
  /\ pollers[p].listeners = {} /\ pollers[p].timers = 0 /\ pollers[p].fetches = <<>>

Mounted(v)  == \E p \in Pollers : v \in pollers[p].listeners
PollerOf(v) == CHOOSE p \in Pollers : v \in pollers[p].listeners

-----------------------------------------------------------------------------
(* Views. *)

Joined(row, v) ==
  LET joined == [row EXCEPT !.listeners = @ \cup {v}]
  IN  IF row.listeners = {} /\ row.reason = "none" THEN Polled(joined) ELSE joined

Subscribe(v) ==
  /\ ~Mounted(v)
  /\ IF registered \in Pollers
       THEN /\ pollers' = [pollers EXCEPT ![registered] = Joined(@, v)]
            /\ UNCHANGED registered
       ELSE \E p \in Pollers :
              /\ Unused(p)
              /\ pollers' = [pollers EXCEPT ![p] = Joined(NewPoller, v)]
              /\ registered' = p
  /\ UNCHANGED <<version, canceled, cancels>>

\* Fault: any view that leaves takes the poller out of the registry.
Emptied_ByAnyone(p, v) == TRUE

Emptied(p, v) == pollers[p].listeners = {v}

\* The answer to a cancellation that is under way finds no view.
Unsubscribe(v) ==
  LET p == PollerOf(v)
      row == [pollers[p] EXCEPT !.listeners = @ \ {v}] IN
  /\ Mounted(v)
  /\ pollers' = [pollers EXCEPT ![p] = IF row.listeners = {} THEN Cleared(row) ELSE row]
  /\ registered' = IF Emptied(p, v) THEN "none" ELSE registered
  /\ canceled' = [canceled EXCEPT ![v] = 0]
  /\ cancels' = [cancels EXCEPT ![v] = NoRequest]
  /\ UNCHANGED version

Refreshed(p) == pollers' = [pollers EXCEPT ![p] = Polled([Cleared(@) EXCEPT !.reason = "none"])]

\* By the button, or after a cancellation that was asked for in a view that is gone.
Refresh(v) ==
  /\ Mounted(v)
  /\ Refreshed(PollerOf(v))
  /\ UNCHANGED <<version, registered, canceled, cancels>>

\* Fault: the answer to the cancellation is preferred.
Shown_Canceled(v) == IF canceled[v] > 0 THEN canceled[v] ELSE pollers[PollerOf(v)].run

\* The version that the view shows, 0 when there is none yet.
Shown(v) ==
  LET run == pollers[PollerOf(v)].run
  IN  IF canceled[v] >= run THEN canceled[v] ELSE run

RequestCancel(v) ==
  /\ Mounted(v)
  /\ Shown(v) \in Versions \ {LastVersion}
  /\ cancels[v] = NoRequest
  /\ cancels' = [cancels EXCEPT ![v] = Sent]
  /\ UNCHANGED <<version, pollers, registered, canceled>>

FinishCancel(v) ==
  /\ cancels[v].kind = "run"
  /\ cancels' = [cancels EXCEPT ![v] = NoRequest]
  /\ canceled' = [canceled EXCEPT ![v] = cancels[v].run]
  /\ Refreshed(PollerOf(v))
  /\ UNCHANGED <<version, registered>>

-----------------------------------------------------------------------------
(* The API, the network and the clock. *)

Advance ==
  /\ version < LastVersion
  /\ version' = version + 1
  /\ UNCHANGED <<pollers, registered, canceled, cancels>>

\* A cancellation changes the run, finds it changed or final already, or fails.
ServeCancel(v) ==
  /\ cancels[v] = Sent
  /\ \/ /\ version < LastVersion
        /\ version' = version + 1
        /\ cancels' = [cancels EXCEPT ![v] = Run(version + 1)]
     \/ \E answer \in {Run(version), NoRequest} :
          cancels' = [cancels EXCEPT ![v] = answer] /\ UNCHANGED version
  /\ UNCHANGED <<pollers, registered, canceled>>

\* The version is read, and then is on its way.  A request that is not answered fails
\* after 30 seconds.
ServeFetch(p, i) ==
  /\ pollers[p].fetches[i] = Sent
  /\ \E answer \in {Run(version), Failed, Refused} :
       pollers' = [pollers EXCEPT ![p].fetches[i] = answer]
  /\ UNCHANGED <<version, registered, canceled, cancels>>

SettleFetch(p, i) ==
  /\ pollers[p].fetches[i] # Sent
  /\ pollers' = [pollers EXCEPT ![p] = Answered(@, i)]
  /\ UNCHANGED <<version, registered, canceled, cancels>>

TimerFires(p) ==
  /\ pollers[p].timers > 0
  /\ pollers' = [pollers EXCEPT ![p] = Fired(@)]
  /\ UNCHANGED <<version, registered, canceled, cancels>>

HalfAnHourPasses(p) ==
  /\ registered = p
  /\ ~pollers[p].late
  /\ pollers' = [pollers EXCEPT ![p].late = TRUE]
  /\ UNCHANGED <<version, registered, canceled, cancels>>

-----------------------------------------------------------------------------

FetchStep(p) == \E i \in DOMAIN pollers[p].fetches : ServeFetch(p, i) \/ SettleFetch(p, i)

PollingNext ==
  \/ \E v \in Views :
       \/ Subscribe(v) \/ Unsubscribe(v) \/ Refresh(v)
       \/ RequestCancel(v) \/ ServeCancel(v) \/ FinishCancel(v)
  \/ \E p \in Pollers : FetchStep(p) \/ TimerFires(p) \/ HalfAnHourPasses(p)
  \/ Advance

PollingSpec == PollingInit /\ [][PollingNext]_pollingVars

\* Requests are answered or time out, timers fire, and time goes by; nobody need refresh,
\* cancel or stay.
FairPollingSpec ==
  PollingSpec /\ \A p \in Pollers :
    /\ WF_pollingVars(FetchStep(p))
    /\ WF_pollingVars(TimerFires(p))
    /\ WF_pollingVars(HalfAnHourPasses(p))

-----------------------------------------------------------------------------
(* Properties. *)

\* However views come, go, refresh and cancel, a poller has one timer or one request, so
\* the API is never asked twice at a time (SharedRunPoller: inFlight and timer).
OneLoop ==
  \A p \in Pollers : pollers[p].timers + Len(pollers[p].fetches) <= 1

\* A poller that somebody listens to has stopped for a reason it tells, or goes on
\* (SharedRunPoller).
ListenersAreServed ==
  \A p \in Pollers : pollers[p].listeners # {} =>
    \/ pollers[p].reason # "none"
    \/ pollers[p].timers + Len(pollers[p].fetches) > 0

\* The registered poller has the listeners; any other one has none and does not wake up,
\* though its last request may still be answered (RunPollerRegistry).
OnlyRegisteredPolls ==
  \A p \in Pollers : registered # p =>
    pollers[p].listeners = {} /\ pollers[p].timers = 0

\* Whoever watches a run is served by its one registered poller, which goes on or tells
\* why not, however views come and go while its requests are under way (run-poller.ts).
RegisteredIsServed == ListenersAreServed /\ OnlyRegisteredPolls

-----------------------------------------------------------------------------
(* The inductive invariant. *)

\* An answer that is on its way is not older than what it will replace.
Newer(answer, run, current) ==
  answer.kind = "run" => run <= answer.run /\ answer.run <= current

\* A poller does one thing at a time, does it for somebody or is about to stop, and goes
\* forward only.
RowOK(row, current) ==
  /\ row.timers + Len(row.fetches) <= 1
  /\ row.listeners = {} => row.timers = 0
  /\ row.listeners # {} => row.reason # "none" \/ row.timers + Len(row.fetches) > 0
  /\ row.run <= current
  /\ \A i \in DOMAIN row.fetches : Newer(row.fetches[i], row.run, current)

PollersOK ==
  \A p \in Pollers :
    /\ RowOK(pollers[p], version)
    /\ registered = p <=> pollers[p].listeners # {}

\* A cancellation is under way for a view only, and its answer is newer than the last one.
ViewsOK ==
  \A v \in Views :
    /\ canceled[v] <= version
    /\ Newer(cancels[v], canceled[v], version)
    /\ cancels[v] # NoRequest => Mounted(v)

PollingInv == PollingTypeOK /\ PollersOK /\ ViewsOK

-----------------------------------------------------------------------------
(* Order and progress. *)

\* What a view shows never goes back to an older version of the run, neither when an
\* answer overtakes another nor when the answer to a cancellation is ahead of the poller.
ShownNeverGoesBack ==
  [][\A v \in Views : Mounted(v) /\ Mounted(v)' => Shown(v)' >= Shown(v)]_pollingVars

\* A view that stays learns of the run's end, or that the poller has stopped looking.
EndIsShown ==
  \A v \in Views :
    Mounted(v) /\ version = LastVersion ~>
      ~Mounted(v) \/ Shown(v) = LastVersion \/ pollers[PollerOf(v)].reason # "none"

=============================================================================
