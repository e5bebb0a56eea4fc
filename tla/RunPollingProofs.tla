-------------------------- MODULE RunPollingProofs --------------------------
(***************************************************************************)
(* Proofs about RunPolling for any number of views, pollers and versions:  *)
(* a poller asks one question at a time, whoever watches is served, and    *)
(* what is shown never goes back.                                          *)
(*                                                                         *)
(* The first part is about rows of pollers alone: what the callbacks make  *)
(* of a row that is in order is in order.                                  *)
(***************************************************************************)
EXTENDS RunPolling, SequenceTheorems, TLAPS

-----------------------------------------------------------------------------
(* Sequences of at most one request. *)

Requests == {Sent} \cup Answers

LEMMA ShortSequences ==
  ASSUME NEW S
  PROVE  /\ <<>> \in BoundedSeq(S, 1)
         /\ \A a \in S : <<a>> \in BoundedSeq(S, 1)
         /\ \A s \in BoundedSeq(S, 1) : s = <<>> \/ \E a \in S : s = <<a>>
<1>1. <<>> \in [1..0 -> S] /\ \A a \in S : <<a>> \in [1..1 -> S]
  OBVIOUS
<1>2. \A s \in [1..0 -> S] : s = <<>>
  OBVIOUS
<1>3. \A s \in [1..1 -> S] : \E a \in S : s = <<a>>
  OBVIOUS
<1> QED
  BY <1>1, <1>2, <1>3 DEF BoundedSeq, SeqOf

LEMMA Empty == Len(<<>>) = 0 /\ DOMAIN <<>> = {}
OBVIOUS

LEMMA Single ==
  ASSUME NEW a
  PROVE  /\ Len(<<>>) = 0 /\ Len(<<a>>) = 1
         /\ DOMAIN <<>> = {} /\ DOMAIN <<a>> = {1}
         /\ <<a>> # <<>> /\ <<a>>[1] = a
         /\ Append(<<>>, a) = <<a>>
         /\ \A b : [<<a>> EXCEPT ![1] = b] = <<b>>
<1>1. Len(<<>>) = 0 /\ Len(<<a>>) = 1 /\ DOMAIN <<>> = {} /\ DOMAIN <<a>> = {1}
  OBVIOUS
<1>2. <<a>> # <<>> /\ <<a>>[1] = a /\ Append(<<>>, a) = <<a>>
  OBVIOUS
<1>3. \A b : [<<a>> EXCEPT ![1] = b] = <<b>>
  OBVIOUS
<1> QED
  BY <1>1, <1>2, <1>3

LEMMA SingleRemoved ==
  ASSUME NEW a
  PROVE  RemoveAt(<<a>>, 1) = <<>>
<1>1. SubSeq(<<a>>, 1, 0) = <<>> /\ SubSeq(<<a>>, 2, 1) = <<>>
  BY SubSeqEmpty
<1>2. <<>> \o <<>> = <<>>
  BY ConcatEmptySeq, EmptySeq
<1> QED
  BY <1>1, <1>2, Single DEF RemoveAt

\* A poller has no request under way, or one.
LEMMA Fetches ==
  ASSUME NEW row \in PollerRows
  PROVE  row.fetches = <<>> \/ \E a \in Requests : row.fetches = <<a>>
BY ShortSequences DEF PollerRows, Requests

LEMMA FetchesLength ==
  ASSUME NEW row \in PollerRows
  PROVE  Len(row.fetches) \in 0..1
<1>1. CASE row.fetches = <<>>
  BY <1>1, Single
<1>2. ASSUME NEW a \in Requests, row.fetches = <<a>> PROVE Len(row.fetches) = 1
  BY <1>2, Single
<1> QED
  BY <1>1, <1>2, Fetches

LEMMA FetchesTyped ==
  /\ <<>> \in BoundedSeq({Sent} \cup Answers, 1)
  /\ \A a \in Requests : <<a>> \in BoundedSeq({Sent} \cup Answers, 1)
BY ShortSequences DEF Requests

\* Requests that are no answers, and answers with a version.
LEMMA Kinds ==
  /\ Sent \in Requests /\ Answers \subseteq Requests
  /\ NoRequest.kind # "run" /\ Sent.kind # "run" /\ Failed.kind # "run" /\ Refused.kind # "run"
  /\ Sent # NoRequest /\ Sent # Failed /\ Sent # Refused /\ Failed # Refused
  /\ \A n : Run(n).kind = "run" /\ Run(n).run = n /\ Run(n) # Sent /\ Run(n) # NoRequest
            /\ Run(n) # Refused /\ Run(n) # Failed
  /\ \A a \in Answers : a.kind = "run" => a.run \in Versions /\ a = Run(a.run)
BY DEF Requests, Answers, NoRequest, Sent, Failed, Refused, Run

-----------------------------------------------------------------------------
(* Rows of pollers. *)

\* A row in order, but for what its listeners are owed.
Forward(row, current) ==
  /\ row.run <= current
  /\ \A i \in DOMAIN row.fetches : Newer(row.fetches[i], row.run, current)

\* A poller without a timer that asks is in order.
LEMMA PolledOK ==
  ASSUME NEW row \in PollerRows, NEW n \in Versions, Forward(row, n), row.timers = 0
  PROVE  /\ Polled(row) \in PollerRows /\ RowOK(Polled(row), n)
         /\ Polled(row).listeners = row.listeners /\ Polled(row).run = row.run
<1>1. CASE row.fetches = <<>>
  <2>1. Polled(row) = [row EXCEPT !.fetches = <<Sent>>]
    BY <1>1, Single DEF Polled, InFlight, PollerRows
  <2>2. <<Sent>> \in BoundedSeq({Sent} \cup Answers, 1)
    BY FetchesTyped, Kinds
  <2>3. Polled(row) \in PollerRows
    BY <2>1, <2>2 DEF PollerRows
  <2>4. RowOK(Polled(row), n)
    BY <2>1, Single, Kinds DEF PollerRows, RowOK, Forward, Newer
  <2> QED
    BY <2>1, <2>3, <2>4 DEF PollerRows
<1>2. CASE row.fetches # <<>>
  <2>1. Polled(row) = row
    BY <1>2 DEF Polled, InFlight
  <2>2. PICK a \in Requests : row.fetches = <<a>>
    BY <1>2, Fetches
  <2> QED
    BY <2>1, <2>2, Single DEF RowOK, Forward
<1> QED
  BY <1>1, <1>2

\* A poller forgets its timer.
LEMMA ClearedRow ==
  ASSUME NEW row \in PollerRows
  PROVE  /\ Cleared(row) \in PollerRows /\ Cleared(row).timers = 0
         /\ Cleared(row).fetches = row.fetches /\ Cleared(row).run = row.run
         /\ Cleared(row).listeners = row.listeners /\ Cleared(row).reason = row.reason
<1>1. Cleared(row) = [row EXCEPT !.timers = 0]
  BY DEF Cleared
<1> QED
  BY <1>1 DEF PollerRows

\* A poller without listeners and timer is in order if what it knows and asks is.
LEMMA RestingOK ==
  ASSUME NEW row \in PollerRows, NEW n \in Versions, RowOK(row, n), NEW next \in PollerRows,
         next.listeners = {}, next.timers = 0, next.fetches = row.fetches, next.run = row.run
  PROVE  RowOK(next, n)
<1>1. Len(next.fetches) \in 0..1
  BY FetchesLength
<1>2. \A k \in 0..1 : 0 + k <= 1
  OBVIOUS
<1>3. next.timers + Len(next.fetches) <= 1
  BY <1>1, <1>2, Zenon
<1> QED
  BY <1>3 DEF RowOK

\* A poller that does nothing is in order if it has a reason or nobody listens.
LEMMA StoppedOK ==
  ASSUME NEW n \in Versions, NEW next \in PollerRows, next.fetches = <<>>, next.timers = 0,
         next.run <= n, next.listeners # {} => next.reason # "none"
  PROVE  RowOK(next, n)
<1>1. next.timers + Len(next.fetches) = 0 /\ DOMAIN next.fetches = {}
  BY Empty
<1> QED
  BY <1>1 DEF RowOK

\* A view joins.
LEMMA JoinedOK ==
  ASSUME NEW row \in PollerRows, NEW n \in Versions, RowOK(row, n), NEW v \in Views
  PROVE  /\ Joined(row, v) \in PollerRows /\ RowOK(Joined(row, v), n)
         /\ Joined(row, v).listeners = row.listeners \cup {v} /\ Joined(row, v).run = row.run
<1> DEFINE joined == [row EXCEPT !.listeners = @ \cup {v}]
<1>1. joined \in PollerRows /\ joined.listeners = row.listeners \cup {v} /\ joined.run = row.run
      /\ joined.timers = row.timers /\ joined.fetches = row.fetches /\ joined.reason = row.reason
  BY DEF PollerRows
<1> HIDE DEF joined
<1>2. CASE row.listeners = {} /\ row.reason = "none"
  <2>1. Joined(row, v) = Polled(joined)
    BY <1>2 DEF Joined, joined
  <2> QED
    BY <1>1, <1>2, <2>1, PolledOK DEF RowOK, Forward
<1>3. CASE ~(row.listeners = {} /\ row.reason = "none")
  <2>1. Joined(row, v) = joined
    BY <1>3 DEF Joined, joined
  <2> QED
    BY <1>1, <1>3, <2>1 DEF RowOK
<1> QED
  BY <1>2, <1>3

\* A new poller has nothing to be out of order.
LEMMA NewPollerOK ==
  ASSUME NEW n \in Versions
  PROVE  NewPoller \in PollerRows /\ RowOK(NewPoller, n)
<1>1. NewPoller \in PollerRows
  BY FetchesTyped, VersionAssumption DEF NewPoller, PollerRows, Reasons
<1>2. RowOK(NewPoller, n)
  BY Single DEF NewPoller, RowOK, Versions
<1> QED
  BY <1>1, <1>2

\* A view leaves.
LEMMA LeftOK ==
  ASSUME NEW row \in PollerRows, NEW n \in Versions, RowOK(row, n), NEW v,
         NEW left, left = [row EXCEPT !.listeners = @ \ {v}],
         NEW next, next = IF left.listeners = {} THEN Cleared(left) ELSE left
  PROVE  /\ next \in PollerRows /\ RowOK(next, n)
         /\ next.listeners = row.listeners \ {v} /\ next.run = row.run
<1>1. left \in PollerRows /\ left.listeners = row.listeners \ {v} /\ left.run = row.run
      /\ left.timers = row.timers /\ left.fetches = row.fetches /\ left.reason = row.reason
  BY DEF PollerRows
<1>2. CASE left.listeners = {}
  <2>1. next = Cleared(left)
    BY <1>2
  <2>2. next \in PollerRows /\ next.listeners = {} /\ next.run = row.run /\ next.timers = 0
        /\ next.fetches = row.fetches
    <3>1. /\ Cleared(left) \in PollerRows /\ Cleared(left).timers = 0
          /\ Cleared(left).fetches = left.fetches /\ Cleared(left).run = left.run
          /\ Cleared(left).listeners = left.listeners
      BY <1>1, ClearedRow
    <3> QED
      BY <1>1, <1>2, <2>1, <3>1
  <2> QED
    BY <1>1, <1>2, <2>2, RestingOK
<1>3. CASE left.listeners # {}
  BY <1>1, <1>3 DEF RowOK
<1> QED
  BY <1>2, <1>3

\* A refresh, or the end of a cancellation.
LEMMA RefreshedOK ==
  ASSUME NEW row \in PollerRows, NEW n \in Versions, RowOK(row, n),
         NEW next, next = Polled([Cleared(row) EXCEPT !.reason = "none"])
  PROVE  /\ next \in PollerRows /\ RowOK(next, n)
         /\ next.listeners = row.listeners /\ next.run = row.run
<1> DEFINE cleared == Cleared(row)
<1> DEFINE asked == [cleared EXCEPT !.reason = "none"]
<1>0. cleared \in PollerRows /\ cleared.timers = 0 /\ cleared.fetches = row.fetches
      /\ cleared.listeners = row.listeners /\ cleared.run = row.run
  BY ClearedRow
<1>1. asked \in PollerRows /\ asked.timers = 0 /\ asked.fetches = row.fetches
      /\ asked.listeners = row.listeners /\ asked.run = row.run
  <2> HIDE DEF cleared
  <2> QED
    BY <1>0 DEF PollerRows, Reasons
<1> HIDE DEF asked
<1>2. next = Polled(asked)
  BY DEF asked
<1> QED
  BY <1>1, <1>2, PolledOK DEF RowOK, Forward

\* The timer fires.
LEMMA FiredOK ==
  ASSUME NEW row \in PollerRows, NEW n \in Versions, RowOK(row, n), row.timers > 0,
         NEW next, next = Fired(row)
  PROVE  /\ next \in PollerRows /\ RowOK(next, n)
         /\ next.listeners = row.listeners /\ next.run = row.run
<1> DEFINE asked == [row EXCEPT !.timers = @ - 1]
<1>1. asked \in PollerRows /\ asked.timers = 0 /\ asked.fetches = row.fetches
      /\ asked.listeners = row.listeners /\ asked.run = row.run
  BY DEF PollerRows
<1> HIDE DEF asked
<1>2. next = Polled(asked)
  BY DEF asked, Fired
<1> QED
  BY <1>1, <1>2, PolledOK DEF RowOK, Forward

\* An answer settles.
LEMMA SettledOK ==
  ASSUME NEW row \in PollerRows, NEW n \in Versions, RowOK(row, n),
         NEW a \in Answers, row.fetches = <<a>>,
         NEW left, left = [row EXCEPT !.fetches = <<>>],
         NEW next, next = Settled(left, a)
  PROVE  /\ next \in PollerRows /\ RowOK(next, n)
         /\ next.listeners = row.listeners /\ row.run <= next.run
<1>1. row.timers = 0 /\ Newer(a, row.run, n)
  BY Single DEF RowOK, PollerRows
<1> DEFINE run == IF a.kind = "run" THEN a.run ELSE left.run
<1> DEFINE reason == IF a = Refused THEN "refused"
                     ELSE IF a = Run(LastVersion) THEN "terminal" ELSE "none"
<1> DEFINE shown == [left EXCEPT !.run = run, !.reason = reason]
<1>2. left \in PollerRows /\ left.timers = 0 /\ left.fetches = <<>> /\ left.run = row.run
      /\ left.listeners = row.listeners
  BY <1>1, FetchesTyped DEF PollerRows
<1>3. run \in 0..LastVersion /\ row.run <= run /\ run <= n /\ reason \in Reasons
  BY <1>1, <1>2, Kinds DEF Newer, RowOK, PollerRows, Versions, Reasons
<1>4. Settled(left, a) = IF a # Run(LastVersion) /\ Retried(a) /\ left.listeners # {}
                           THEN Scheduled(shown) ELSE shown
  BY DEF Settled
<1>5. (a # Run(LastVersion) /\ Retried(a)) \/ reason # "none"
  BY DEF Retried
<1> HIDE DEF run, reason
<1>6. shown \in PollerRows /\ shown.timers = 0 /\ shown.fetches = <<>> /\ shown.run = run
      /\ shown.listeners = row.listeners /\ shown.reason = reason
  BY <1>2, <1>3 DEF PollerRows
<1> HIDE DEF shown
<1>7. CASE a # Run(LastVersion) /\ Retried(a) /\ left.listeners # {}
  <2>1. CASE shown.late
    <3>1. next = [shown EXCEPT !.reason = "timed_out"]
      BY <1>4, <1>7, <2>1 DEF Scheduled
    <3> QED
      BY <1>2, <1>3, <1>6, <1>7, <3>1, Single DEF RowOK, PollerRows, Reasons, Versions
  <2>2. CASE ~shown.late
    <3>1. next = [shown EXCEPT !.timers = 1]
      BY <1>4, <1>6, <1>7, <2>2 DEF Scheduled
    <3> QED
      BY <1>2, <1>3, <1>6, <1>7, <3>1, Single DEF RowOK, PollerRows, Versions
  <2> QED
    BY <2>1, <2>2
<1>8. CASE ~(a # Run(LastVersion) /\ Retried(a) /\ left.listeners # {})
  <2>1. next = shown
    BY <1>4, <1>8
  <2>2. next.listeners # {} => next.reason # "none"
    BY <1>2, <1>5, <1>6, <1>8, <2>1
  <2> QED
    BY <1>3, <1>6, <2>1, <2>2, StoppedOK
<1> QED
  BY <1>7, <1>8

\* The API answers with what it reads.
LEMMA ServedOK ==
  ASSUME NEW row \in PollerRows, NEW n \in Versions, RowOK(row, n),
         row.fetches = <<Sent>>, NEW a \in {Run(n), Failed, Refused},
         NEW next, next = [row EXCEPT !.fetches = <<a>>]
  PROVE  /\ next \in PollerRows /\ RowOK(next, n)
         /\ next.listeners = row.listeners /\ next.run = row.run
<1>1. a \in Requests /\ Newer(a, row.run, n)
  BY Kinds DEF Newer, RowOK, Requests, Answers, PollerRows, Versions
<1>2. next \in PollerRows /\ next.listeners = row.listeners /\ next.run = row.run
      /\ next.timers = row.timers /\ next.reason = row.reason /\ next.fetches = <<a>>
  BY <1>1, FetchesTyped DEF PollerRows
<1> QED
  BY <1>1, <1>2, Single DEF RowOK

\* The run goes on.
LEMMA LaterOK ==
  ASSUME NEW row \in PollerRows, NEW n \in Versions, NEW m \in Versions, n <= m, RowOK(row, n)
  PROVE  RowOK(row, m)
<1>1. ASSUME NEW i \in DOMAIN row.fetches PROVE Newer(row.fetches[i], row.run, m)
  <2>1. PICK a \in Requests : row.fetches = <<a>> /\ i = 1
    BY <1>1, Fetches, Single
  <2>2. Newer(a, row.run, n)
    BY <2>1, Single DEF RowOK
  <2>3. a.kind = "run" => a.run \in Versions
    BY Kinds DEF Requests
  <2> QED
    BY <2>1, <2>2, <2>3, Single DEF Newer, PollerRows, Versions
<1> QED
  BY <1>1 DEF RowOK, PollerRows, Versions

-----------------------------------------------------------------------------
(* The registry, and what a step may do to it. *)

\* Whoever is mounted listens to the registered poller.
LEMMA OfRegistered ==
  ASSUME PollingTypeOK, PollersOK, NEW v \in Views
  PROVE  /\ Mounted(v) <=> registered \in Pollers /\ v \in pollers[registered].listeners
         /\ Mounted(v) => PollerOf(v) = registered
<1>1. \A p \in Pollers : v \in pollers[p].listeners => p = registered
  BY DEF PollersOK
<1>2. Mounted(v) => PollerOf(v) \in Pollers /\ v \in pollers[PollerOf(v)].listeners
  BY DEF Mounted, PollerOf
<1> QED
  BY <1>1, <1>2 DEF Mounted

\* For a view that stays, the poller stays, and what it and the view know grows.
Onward ==
  \A v \in Views : Mounted(v) /\ Mounted(v)' =>
    /\ registered' = registered
    /\ pollers[registered].run <= pollers'[registered].run
    /\ canceled[v] <= canceled'[v]

LEMMA StillOnward ==
  ASSUME PollingTypeOK, PollersOK, UNCHANGED <<pollers, registered, canceled>>
  PROVE  Onward
<1> SUFFICES ASSUME NEW v \in Views, Mounted(v)
             PROVE  /\ registered' = registered
                    /\ pollers[registered].run <= pollers'[registered].run
                    /\ canceled[v] <= canceled'[v]
  BY DEF Onward
<1>1. registered \in Pollers
  BY OfRegistered
<1> QED
  BY <1>1 DEF PollingTypeOK, PollerRows

\* A step of a poller.
LEMMA Turn ==
  ASSUME PollingTypeOK, PollersOK, NEW p \in Pollers, NEW row \in PollerRows,
         RowOK(row, version), row.listeners = pollers[p].listeners, pollers[p].run <= row.run,
         pollers' = [pollers EXCEPT ![p] = row], UNCHANGED <<version, registered>>
  PROVE  /\ pollers' \in [Pollers -> PollerRows] /\ PollersOK'
         /\ \A v \in Views : Mounted(v)' <=> Mounted(v)
         /\ \A q \in Pollers : pollers[q].run <= pollers'[q].run
<1>1. /\ pollers' \in [Pollers -> PollerRows] /\ pollers'[p] = row
      /\ \A q \in Pollers : q # p => pollers'[q] = pollers[q]
  BY DEF PollingTypeOK
<1>2. \A q \in Pollers : pollers'[q].listeners = pollers[q].listeners
  BY <1>1
<1>3. \A q \in Pollers : RowOK(pollers'[q], version)
  BY <1>1 DEF PollersOK
<1>4. PollersOK'
  BY <1>2, <1>3 DEF PollersOK
<1>5. \A q \in Pollers : pollers[q].run \in Nat
  BY DEF PollingTypeOK, PollerRows
<1> QED
  BY <1>1, <1>2, <1>4, <1>5 DEF Mounted

\* A step of a poller alone.
LEMMA TurnKeeps ==
  ASSUME PollingInv, NEW p \in Pollers, NEW row \in PollerRows,
         RowOK(row, version), row.listeners = pollers[p].listeners, pollers[p].run <= row.run,
         pollers' = [pollers EXCEPT ![p] = row],
         UNCHANGED <<version, registered, canceled, cancels>>
  PROVE  PollingInv' /\ Onward
<1>0. PollingTypeOK /\ PollersOK /\ ViewsOK
  BY DEF PollingInv
<1>1. /\ pollers' \in [Pollers -> PollerRows] /\ PollersOK'
      /\ \A v \in Views : Mounted(v)' <=> Mounted(v)
      /\ \A q \in Pollers : pollers[q].run <= pollers'[q].run
  BY <1>0, Turn
<1>2. PollingTypeOK'
  BY <1>0, <1>1 DEF PollingTypeOK
<1>3. ViewsOK'
  BY <1>0, <1>1 DEF ViewsOK
<1>4. Onward
  BY <1>0, <1>1, OfRegistered DEF Onward, PollingTypeOK
<1> QED
  BY <1>1, <1>2, <1>3, <1>4 DEF PollingInv

-----------------------------------------------------------------------------
(* The steps. *)

LEMMA SubscribeKeeps ==
  ASSUME PollingInv, NEW v \in Views, Subscribe(v)
  PROVE  PollingInv' /\ Onward
<1>0. PollingTypeOK /\ PollersOK /\ ViewsOK
  BY DEF PollingInv
<1>1. version \in Versions /\ version' = version /\ canceled' = canceled /\ cancels' = cancels
  BY <1>0 DEF Subscribe, PollingTypeOK
<1>2. PICK p \in Pollers, old \in PollerRows :
        /\ RowOK(old, version) /\ pollers' = [pollers EXCEPT ![p] = Joined(old, v)]
        /\ registered' = p
        /\ \/ registered = p /\ old = pollers[p]
           \/ registered = "none" /\ old.listeners = {}
  <2>1. CASE registered \in Pollers
    BY <1>0, <2>1 DEF Subscribe, PollingTypeOK, PollersOK
  <2>2. CASE registered \notin Pollers
    <3>1. registered = "none" /\ NewPoller.listeners = {}
      BY <1>0, <2>2 DEF PollingTypeOK, NewPoller
    <3> QED
      BY <1>1, <2>2, <3>1, NewPollerOK DEF Subscribe
  <2> QED
    BY <2>1, <2>2
<1>3. /\ Joined(old, v) \in PollerRows /\ RowOK(Joined(old, v), version)
      /\ Joined(old, v).listeners = old.listeners \cup {v} /\ Joined(old, v).run = old.run
  BY <1>1, <1>2, JoinedOK
<1>4. /\ pollers' \in [Pollers -> PollerRows] /\ pollers'[p] = Joined(old, v)
      /\ \A q \in Pollers : q # p => pollers'[q] = pollers[q]
  BY <1>0, <1>2, <1>3 DEF PollingTypeOK
<1>5. PollingTypeOK'
  BY <1>0, <1>1, <1>2, <1>4 DEF PollingTypeOK
<1>6. PollersOK'
  <2>1. \A q \in Pollers : q # p => registered # q
    BY <1>2, RegistryAssumption
  <2> QED
    BY <1>0, <1>1, <1>2, <1>3, <1>4, <2>1 DEF PollersOK
<1>7. \A w \in Views : Mounted(w) => Mounted(w)' /\ registered = p
  BY <1>0, <1>2, <1>3, <1>4, OfRegistered, RegistryAssumption DEF Mounted
<1>8. ViewsOK'
  BY <1>0, <1>1, <1>7 DEF ViewsOK
<1>9. Onward
  BY <1>0, <1>1, <1>2, <1>3, <1>4, <1>7, RegistryAssumption DEF Onward, PollingTypeOK, PollerRows
<1> QED
  BY <1>5, <1>6, <1>8, <1>9 DEF PollingInv

LEMMA UnsubscribeKeeps ==
  ASSUME PollingInv, NEW v \in Views, Unsubscribe(v)
  PROVE  PollingInv' /\ Onward
<1>0. PollingTypeOK /\ PollersOK /\ ViewsOK
  BY DEF PollingInv
<1> DEFINE p == registered
<1> DEFINE left == [pollers[p] EXCEPT !.listeners = @ \ {v}]
<1> DEFINE next == IF left.listeners = {} THEN Cleared(left) ELSE left
<1>1. /\ p \in Pollers /\ v \in pollers[p].listeners /\ PollerOf(v) = p
      /\ version \in Versions /\ pollers[p] \in PollerRows /\ RowOK(pollers[p], version)
  BY <1>0, OfRegistered DEF Unsubscribe, PollingTypeOK, PollersOK
<1>2. /\ pollers' = [pollers EXCEPT ![p] = next]
      /\ registered' = IF Emptied(p, v) THEN "none" ELSE registered
      /\ canceled' = [canceled EXCEPT ![v] = 0] /\ cancels' = [cancels EXCEPT ![v] = NoRequest]
      /\ version' = version
  BY <1>1 DEF Unsubscribe
<1>3. /\ next \in PollerRows /\ RowOK(next, version)
      /\ next.listeners = pollers[p].listeners \ {v} /\ next.run = pollers[p].run
  <2>1. /\ left = [pollers[p] EXCEPT !.listeners = pollers[p].listeners \ {v}]
        /\ next = IF left.listeners = {} THEN Cleared(left) ELSE left
    OBVIOUS
  <2> HIDE DEF left, next, p
  <2> QED
    BY <1>1, <2>1, LeftOK
<1> HIDE DEF next, left
<1>4. /\ pollers' \in [Pollers -> PollerRows] /\ pollers'[p] = next
      /\ \A q \in Pollers : q # p => pollers'[q] = pollers[q]
  BY <1>0, <1>1, <1>2, <1>3 DEF PollingTypeOK
<1>5. /\ registered' = IF next.listeners = {} THEN "none" ELSE p
      /\ \A q \in Pollers : q # p => pollers[q].listeners = {}
  BY <1>0, <1>1, <1>2, <1>3 DEF Emptied, PollersOK
<1> HIDE DEF p
<1>6. PollingTypeOK'
  BY <1>0, <1>1, <1>2, <1>4, <1>5, VersionAssumption DEF PollingTypeOK, Cancellations
<1>7. PollersOK'
  BY <1>0, <1>1, <1>2, <1>3, <1>4, <1>5, RegistryAssumption DEF PollersOK
<1>8. \A w \in Views : Mounted(w)' <=> w # v /\ w \in pollers[p].listeners
  BY <1>1, <1>3, <1>4, <1>5 DEF Mounted
<1>9. \A w \in Views : Mounted(w) <=> w \in pollers[p].listeners
  BY <1>1, <1>5 DEF Mounted
<1>10. \A w \in Views : w # v => canceled'[w] = canceled[w] /\ cancels'[w] = cancels[w]
  BY <1>0, <1>2 DEF PollingTypeOK
<1>11. ViewsOK'
  <2>1. canceled'[v] = 0 /\ cancels'[v] = NoRequest
    BY <1>0, <1>2 DEF PollingTypeOK
  <2>2. 0 <= version /\ Newer(NoRequest, 0, version)
    BY <1>1, Kinds DEF Newer, Versions
  <2> QED
    BY <1>0, <1>1, <1>2, <1>8, <1>9, <1>10, <2>1, <2>2 DEF ViewsOK
<1>12. Onward
  <2> SUFFICES ASSUME NEW w \in Views, Mounted(w), Mounted(w)'
               PROVE  /\ registered' = registered
                      /\ pollers[registered].run <= pollers'[registered].run
                      /\ canceled[w] <= canceled'[w]
    BY DEF Onward
  <2>1. w # v /\ next.listeners # {}
    BY <1>3, <1>8
  <2>2. registered' = p /\ registered = p
    BY <1>5, <2>1 DEF p
  <2>3. pollers'[p].run = pollers[p].run /\ pollers[p].run \in Nat /\ canceled[w] \in Nat
    BY <1>0, <1>1, <1>3, <1>4 DEF PollingTypeOK, PollerRows
  <2> QED
    BY <1>10, <2>1, <2>2, <2>3
<1> QED
  BY <1>6, <1>7, <1>11, <1>12 DEF PollingInv

LEMMA RefreshKeeps ==
  ASSUME PollingInv, NEW v \in Views, Refresh(v)
  PROVE  PollingInv' /\ Onward
<1> DEFINE p == PollerOf(v)
<1> DEFINE row == Polled([Cleared(pollers[p]) EXCEPT !.reason = "none"])
<1>1. /\ p \in Pollers /\ version \in Versions
      /\ pollers[p] \in PollerRows /\ RowOK(pollers[p], version)
  BY OfRegistered DEF PollingInv, Refresh, PollingTypeOK, PollersOK
<1>2. /\ row \in PollerRows /\ RowOK(row, version)
      /\ row.listeners = pollers[p].listeners /\ row.run = pollers[p].run
  BY <1>1, RefreshedOK
<1>3. /\ pollers' = [pollers EXCEPT ![p] = row]
      /\ UNCHANGED <<version, registered, canceled, cancels>>
  BY DEF Refresh, Refreshed
<1>4. pollers[p].run <= row.run
  BY <1>1, <1>2 DEF PollerRows
<1> HIDE DEF row, p
<1> QED
  BY <1>1, <1>2, <1>3, <1>4, TurnKeeps

LEMMA RequestCancelKeeps ==
  ASSUME PollingInv, NEW v \in Views, RequestCancel(v)
  PROVE  PollingInv' /\ Onward
<1>1. /\ PollingTypeOK /\ PollersOK /\ ViewsOK /\ Mounted(v)
      /\ cancels' = [cancels EXCEPT ![v] = Sent]
      /\ UNCHANGED <<version, pollers, registered, canceled>>
  BY DEF PollingInv, RequestCancel
<1>2. PollingTypeOK' /\ PollersOK' /\ \A w \in Views : Mounted(w)' <=> Mounted(w)
  BY <1>1 DEF PollingTypeOK, PollersOK, Mounted, Cancellations
<1>3. cancels'[v] = Sent /\ \A w \in Views : w # v => cancels'[w] = cancels[w]
  BY <1>1 DEF PollingTypeOK
<1>4. ViewsOK'
  BY <1>1, <1>2, <1>3, Kinds DEF ViewsOK, Newer
<1>5. Onward
  BY <1>1, StillOnward
<1> QED
  BY <1>2, <1>4, <1>5 DEF PollingInv

\* The database and the answer to a cancellation: the version may have grown.
VersionMoves ==
  /\ version' \in Versions /\ version <= version'
  /\ pollers' = pollers /\ registered' = registered /\ canceled' = canceled
  /\ cancels' \in [Views -> Cancellations]
  /\ \A v \in Views :
       \/ cancels'[v] = cancels[v]
       \/ cancels'[v] = NoRequest
       \/ cancels[v] # NoRequest /\ cancels'[v] = Run(version')

LEMMA VersionKeeps ==
  ASSUME PollingInv, VersionMoves
  PROVE  PollingInv' /\ Onward
<1> USE DEF VersionMoves
<1>1. PollingTypeOK /\ PollersOK /\ ViewsOK /\ version \in Versions
  BY DEF PollingInv, PollingTypeOK
<1>2. PollingTypeOK'
  BY <1>1 DEF PollingTypeOK
<1>3. PollersOK'
  BY <1>1, LaterOK DEF PollersOK, PollingTypeOK
<1>4. \A v \in Views : Mounted(v)' <=> Mounted(v)
  BY DEF Mounted
<1>5. ASSUME NEW v \in Views
      PROVE  /\ canceled[v] <= version'
             /\ Newer(cancels'[v], canceled[v], version')
             /\ cancels'[v] # NoRequest => Mounted(v)'
  <2>1. canceled[v] \in Nat /\ canceled[v] <= version /\ cancels[v] \in Cancellations
    BY <1>1 DEF ViewsOK, PollingTypeOK
  <2>2. canceled[v] <= version'
    BY <1>1, <2>1 DEF Versions
  <2>3. CASE cancels'[v] = cancels[v]
    <3>1. cancels[v].kind = "run" => cancels[v].run \in Versions
      BY <2>1, Kinds DEF Cancellations
    <3> QED
      BY <1>1, <1>4, <2>2, <2>3, <3>1 DEF ViewsOK, Newer, Versions
  <2>4. CASE cancels'[v] = NoRequest
    BY <2>2, <2>4, Kinds DEF Newer
  <2>5. CASE cancels[v] # NoRequest /\ cancels'[v] = Run(version')
    BY <1>1, <1>4, <2>2, <2>5, Kinds DEF ViewsOK, Newer, Versions
  <2> QED
    BY <2>3, <2>4, <2>5
<1>6. ViewsOK'
  BY <1>5 DEF ViewsOK
<1>7. Onward
  BY <1>1, StillOnward
<1> QED
  BY <1>2, <1>3, <1>6, <1>7 DEF PollingInv

LEMMA ServeCancelKeeps ==
  ASSUME PollingInv, NEW v \in Views, ServeCancel(v)
  PROVE  PollingInv' /\ Onward
<1>1. /\ version \in Versions /\ LastVersion \in Nat /\ cancels \in [Views -> Cancellations]
      /\ UNCHANGED <<pollers, registered, canceled>> /\ cancels[v] = Sent
  BY VersionAssumption DEF PollingInv, PollingTypeOK, ServeCancel
<1>2. /\ version' \in Versions /\ version <= version'
      /\ \E answer \in {Run(version'), NoRequest} : cancels' = [cancels EXCEPT ![v] = answer]
  BY <1>1 DEF ServeCancel, Versions
<1>3. PICK answer \in {Run(version'), NoRequest} : cancels' = [cancels EXCEPT ![v] = answer]
  BY <1>2
<1>4. answer \in Cancellations
  BY <1>2 DEF Cancellations
<1>5. /\ cancels' \in [Views -> Cancellations] /\ cancels'[v] = answer
      /\ \A w \in Views : w # v => cancels'[w] = cancels[w]
  BY <1>1, <1>3, <1>4
<1>6. cancels[v] # NoRequest
  BY <1>1, Kinds
<1>7. VersionMoves
  BY <1>1, <1>2, <1>5, <1>6 DEF VersionMoves
<1> QED
  BY <1>7, VersionKeeps

LEMMA AdvanceKeeps ==
  ASSUME PollingInv, Advance
  PROVE  PollingInv' /\ Onward
<1>1. version' \in Versions /\ version <= version' /\ cancels' \in [Views -> Cancellations]
  BY VersionAssumption DEF PollingInv, PollingTypeOK, Advance, Versions
<1>2. VersionMoves
  BY <1>1 DEF Advance, VersionMoves
<1> QED
  BY <1>2, VersionKeeps

LEMMA FinishCancelKeeps ==
  ASSUME PollingInv, NEW v \in Views, FinishCancel(v)
  PROVE  PollingInv' /\ Onward
<1> DEFINE p == PollerOf(v)
<1> DEFINE row == Polled([Cleared(pollers[p]) EXCEPT !.reason = "none"])
<1>0. PollingTypeOK /\ PollersOK /\ ViewsOK
  BY DEF PollingInv
<1>1. cancels[v] # NoRequest /\ Mounted(v) /\ Newer(cancels[v], canceled[v], version)
  BY <1>0, Kinds DEF FinishCancel, ViewsOK
<1>2. /\ p \in Pollers /\ version \in Versions
      /\ pollers[p] \in PollerRows /\ RowOK(pollers[p], version)
  BY <1>0, <1>1, OfRegistered DEF PollingTypeOK, PollersOK
<1>3. /\ row \in PollerRows /\ RowOK(row, version)
      /\ row.listeners = pollers[p].listeners /\ row.run = pollers[p].run
  BY <1>2, RefreshedOK
<1>4. /\ pollers' = [pollers EXCEPT ![p] = row] /\ UNCHANGED <<version, registered>>
      /\ cancels' = [cancels EXCEPT ![v] = NoRequest]
      /\ canceled' = [canceled EXCEPT ![v] = cancels[v].run]
  BY DEF FinishCancel, Refreshed
<1>5. pollers[p].run <= row.run
  BY <1>2, <1>3 DEF PollerRows
<1> HIDE DEF row, p
<1>6. /\ pollers' \in [Pollers -> PollerRows] /\ PollersOK'
      /\ \A w \in Views : Mounted(w)' <=> Mounted(w)
      /\ \A q \in Pollers : pollers[q].run <= pollers'[q].run
  BY <1>0, <1>2, <1>3, <1>4, <1>5, Turn
<1>7. /\ cancels[v].run \in 0..LastVersion
      /\ canceled[v] <= cancels[v].run /\ cancels[v].run <= version
  <2>1. cancels[v] \in Cancellations /\ cancels[v].kind = "run"
    BY <1>0 DEF PollingTypeOK, FinishCancel
  <2>2. cancels[v].run \in Versions
    BY <2>1, Kinds DEF Cancellations
  <2> QED
    BY <1>1, <2>1, <2>2 DEF Newer, Versions
<1>8. /\ canceled' \in [Views -> 0..LastVersion] /\ cancels' \in [Views -> Cancellations]
      /\ canceled'[v] = cancels[v].run /\ cancels'[v] = NoRequest
      /\ \A w \in Views : w # v => canceled'[w] = canceled[w] /\ cancels'[w] = cancels[w]
  BY <1>0, <1>4, <1>7 DEF PollingTypeOK, Cancellations
<1>9. PollingTypeOK'
  BY <1>0, <1>4, <1>6, <1>8 DEF PollingTypeOK
<1>10. ViewsOK'
  <2>1. Newer(NoRequest, canceled'[v], version)
    BY Kinds DEF Newer
  <2> QED
    BY <1>0, <1>4, <1>6, <1>7, <1>8, <2>1 DEF ViewsOK
<1>11. Onward
  <2> SUFFICES ASSUME NEW w \in Views, Mounted(w)
               PROVE  /\ registered' = registered
                      /\ pollers[registered].run <= pollers'[registered].run
                      /\ canceled[w] <= canceled'[w]
    BY DEF Onward
  <2>1. registered \in Pollers /\ canceled[w] \in Nat
    BY <1>0, OfRegistered DEF PollingTypeOK
  <2> QED
    BY <1>4, <1>6, <1>7, <1>8, <2>1
<1> QED
  BY <1>6, <1>9, <1>10, <1>11 DEF PollingInv

LEMMA FetchStepKeeps ==
  ASSUME PollingInv, NEW p \in Pollers, FetchStep(p)
  PROVE  PollingInv' /\ Onward
<1>1. /\ version \in Versions /\ pollers[p] \in PollerRows /\ RowOK(pollers[p], version)
  BY DEF PollingInv, PollingTypeOK, PollersOK
<1>2. PICK a \in Requests : pollers[p].fetches = <<a>> /\ (ServeFetch(p, 1) \/ SettleFetch(p, 1))
  BY <1>1, Fetches, Single, Empty DEF FetchStep
<1>3. CASE ServeFetch(p, 1)
  <2>1. PICK answer \in {Run(version), Failed, Refused} :
          pollers' = [pollers EXCEPT ![p].fetches[1] = answer]
    BY <1>3 DEF ServeFetch
  <2> DEFINE row == [pollers[p] EXCEPT !.fetches = <<answer>>]
  <2>2. pollers[p].fetches = <<Sent>>
    BY <1>2, <1>3, Single DEF ServeFetch
  <2>3. [pollers[p].fetches EXCEPT ![1] = answer] = <<answer>>
    BY <1>2, Single
  <2>4. pollers' = [pollers EXCEPT ![p] = row]
    BY <2>1, <2>3
  <2>5. /\ row \in PollerRows /\ RowOK(row, version)
        /\ row.listeners = pollers[p].listeners /\ row.run = pollers[p].run
    BY <1>1, <2>2, ServedOK
  <2>6. pollers[p].run <= row.run
    BY <1>1, <2>5 DEF PollerRows
  <2>7. UNCHANGED <<version, registered, canceled, cancels>>
    BY <1>3 DEF ServeFetch
  <2> HIDE DEF row
  <2> QED
    BY <2>4, <2>5, <2>6, <2>7, TurnKeeps
<1>4. CASE SettleFetch(p, 1)
  <2> DEFINE left == [pollers[p] EXCEPT !.fetches = <<>>]
  <2> DEFINE row == Settled(left, a)
  <2>1. a \in Answers
    BY <1>2, <1>4, Single DEF SettleFetch, Requests
  <2>2. RemoveAt(pollers[p].fetches, 1) = <<>> /\ pollers[p].fetches[1] = a
    BY <1>2, Single, SingleRemoved
  <2>3. pollers' = [pollers EXCEPT ![p] = row]
    BY <1>4, <2>2 DEF SettleFetch, Answered
  <2>4. /\ row \in PollerRows /\ RowOK(row, version)
        /\ row.listeners = pollers[p].listeners /\ pollers[p].run <= row.run
    BY <1>1, <1>2, <2>1, SettledOK
  <2>5. UNCHANGED <<version, registered, canceled, cancels>>
    BY <1>4 DEF SettleFetch
  <2> HIDE DEF row
  <2> QED
    BY <2>3, <2>4, <2>5, TurnKeeps
<1> QED
  BY <1>2, <1>3, <1>4

LEMMA TimerFiresKeeps ==
  ASSUME PollingInv, NEW p \in Pollers, TimerFires(p)
  PROVE  PollingInv' /\ Onward
<1> DEFINE row == Fired(pollers[p])
<1>1. /\ version \in Versions /\ pollers[p] \in PollerRows /\ RowOK(pollers[p], version)
  BY DEF PollingInv, PollingTypeOK, PollersOK
<1>2. /\ row \in PollerRows /\ RowOK(row, version)
      /\ row.listeners = pollers[p].listeners /\ row.run = pollers[p].run
  BY <1>1, FiredOK DEF TimerFires
<1>3. /\ pollers' = [pollers EXCEPT ![p] = row]
      /\ UNCHANGED <<version, registered, canceled, cancels>>
  BY DEF TimerFires
<1>4. pollers[p].run <= row.run
  BY <1>1, <1>2 DEF PollerRows
<1> HIDE DEF row
<1> QED
  BY <1>2, <1>3, <1>4, TurnKeeps

\* Half an hour is a mark on the row.
LEMMA LateRow ==
  ASSUME NEW row \in PollerRows, NEW next, next = [row EXCEPT !.late = TRUE]
  PROVE  /\ next \in PollerRows /\ next.listeners = row.listeners /\ next.run = row.run
         /\ next.timers = row.timers /\ next.fetches = row.fetches /\ next.reason = row.reason
<1>1. next \in PollerRows
  BY DEF PollerRows
<1>2. /\ next.listeners = row.listeners /\ next.run = row.run
      /\ next.timers = row.timers /\ next.fetches = row.fetches /\ next.reason = row.reason
  BY DEF PollerRows
<1> QED
  BY <1>1, <1>2

LEMMA HalfAnHourKeeps ==
  ASSUME PollingInv, NEW p \in Pollers, HalfAnHourPasses(p)
  PROVE  PollingInv' /\ Onward
<1> DEFINE row == [pollers[p] EXCEPT !.late = TRUE]
<1>1. /\ version \in Versions /\ pollers[p] \in PollerRows /\ RowOK(pollers[p], version)
  BY DEF PollingInv, PollingTypeOK, PollersOK
<1>2. /\ row \in PollerRows /\ row.listeners = pollers[p].listeners /\ row.run = pollers[p].run
      /\ row.timers = pollers[p].timers /\ row.fetches = pollers[p].fetches
      /\ row.reason = pollers[p].reason
  BY <1>1, LateRow
<1>3. /\ pollers' = [pollers EXCEPT ![p] = row]
      /\ UNCHANGED <<version, registered, canceled, cancels>>
  BY DEF HalfAnHourPasses
<1> HIDE DEF row
<1>4. RowOK(row, version)
  BY <1>1, <1>2 DEF RowOK
<1>5. pollers[p].run <= row.run
  BY <1>1, <1>2 DEF PollerRows
<1> QED
  BY <1>2, <1>3, <1>4, <1>5, TurnKeeps

-----------------------------------------------------------------------------
(* The theorems. *)

LEMMA PollingInitOK == PollingInit => PollingInv
<1> SUFFICES ASSUME PollingInit PROVE PollingInv
  OBVIOUS
<1>1. version \in Versions /\ NewPoller \in PollerRows /\ RowOK(NewPoller, version)
  BY NewPollerOK, VersionAssumption DEF PollingInit, Versions
<1>2. PollingTypeOK
  BY <1>1, VersionAssumption DEF PollingInit, PollingTypeOK, Cancellations
<1>3. PollersOK
  BY <1>1, RegistryAssumption DEF PollingInit, PollersOK, NewPoller
<1>4. ViewsOK
  BY Kinds DEF PollingInit, ViewsOK, Newer
<1> QED
  BY <1>2, <1>3, <1>4 DEF PollingInv

LEMMA PollingNextOK ==
  ASSUME PollingInv, [PollingNext]_pollingVars
  PROVE  PollingInv' /\ Onward
<1>1. ASSUME NEW v \in Views,
             \/ Subscribe(v) \/ Unsubscribe(v) \/ Refresh(v)
             \/ RequestCancel(v) \/ ServeCancel(v) \/ FinishCancel(v)
      PROVE  PollingInv' /\ Onward
  BY <1>1, SubscribeKeeps, UnsubscribeKeeps, RefreshKeeps, RequestCancelKeeps,
     ServeCancelKeeps, FinishCancelKeeps
<1>2. ASSUME NEW p \in Pollers, FetchStep(p) \/ TimerFires(p) \/ HalfAnHourPasses(p)
      PROVE  PollingInv' /\ Onward
  BY <1>2, FetchStepKeeps, TimerFiresKeeps, HalfAnHourKeeps
<1>3. CASE UNCHANGED pollingVars
  <2>1. /\ UNCHANGED <<version, pollers, registered, canceled, cancels>>
        /\ version \in Versions /\ cancels \in [Views -> Cancellations]
    BY <1>3 DEF pollingVars, PollingInv, PollingTypeOK
  <2>2. VersionMoves
    BY <2>1 DEF VersionMoves, Versions
  <2> QED
    BY <2>2, VersionKeeps
<1> QED
  BY <1>1, <1>2, <1>3, AdvanceKeeps DEF PollingNext

\* The inductive invariant: whatever views, timers, answers and cancellations do, in any
\* order, the registry and its pollers are in order.
THEOREM PollingInvariant == PollingSpec => []PollingInv
BY PollingInitOK, PollingNextOK, PTL DEF PollingSpec

\* Type correctness of the pollers, the registry and the views (run-poller.ts).
THEOREM PollingTyping == PollingSpec => []PollingTypeOK
<1>1. PollingInv => PollingTypeOK
  BY DEF PollingInv
<1> QED
  BY <1>1, PollingInvariant, PTL

\* A poller never asks while it waits or asks already (SharedRunPoller: inFlight and timer).
THEOREM LoopsAreSingle == PollingSpec => []OneLoop
<1>1. PollingInv => OneLoop
  BY DEF PollingInv, PollersOK, RowOK, OneLoop
<1> QED
  BY <1>1, PollingInvariant, PTL

\* Whoever watches a run is served by the one registered poller, or told why not, and no
\* poller without listeners wakes up again (RunPollerRegistry).
THEOREM WatchersAreServed == PollingSpec => []RegisteredIsServed
<1>1. PollingInv => RegisteredIsServed
  BY DEF PollingInv, PollersOK, RowOK, RegisteredIsServed, ListenersAreServed, OnlyRegisteredPolls
<1> QED
  BY <1>1, PollingInvariant, PTL

\* What a view shows never goes back to an older version, whatever overtakes what
\* (run-workspace.tsx: the newer of the poller's run and the answer to a cancellation).
THEOREM ShownGoesForward == PollingSpec => ShownNeverGoesBack
<1> DEFINE Steady == \A v \in Views : Mounted(v) /\ Mounted(v)' => Shown(v)' >= Shown(v)
<1>1. ASSUME PollingInv, [PollingNext]_pollingVars PROVE Steady
  <2>1. PollingInv' /\ Onward
    BY <1>1, PollingNextOK
  <2>2. SUFFICES ASSUME NEW v \in Views, Mounted(v), Mounted(v)'
                 PROVE  Shown(v)' >= Shown(v)
    OBVIOUS
  <2>3. /\ PollerOf(v) = registered /\ PollerOf(v)' = registered' /\ registered \in Pollers
        /\ registered' = registered
    <3>1. PollerOf(v) = registered /\ registered \in Pollers
      BY <1>1, <2>2, OfRegistered DEF PollingInv
    <3>2. (PollingTypeOK /\ PollersOK /\ Mounted(v) => PollerOf(v) = registered)'
      BY OfRegistered, PTL
    <3> QED
      BY <2>1, <2>2, <3>1, <3>2 DEF PollingInv, Onward
  <2>4. /\ pollers[registered].run <= pollers'[registered].run /\ canceled[v] <= canceled'[v]
        /\ pollers[registered].run \in Nat /\ pollers'[registered].run \in Nat
        /\ canceled[v] \in Nat /\ canceled'[v] \in Nat
    BY <1>1, <2>1, <2>2, <2>3 DEF Onward, PollingInv, PollingTypeOK, PollerRows
  <2> QED
    BY <2>3, <2>4 DEF Shown
<1> QED
  BY <1>1, PollingInvariant, PTL DEF PollingSpec, ShownNeverGoesBack

=============================================================================
