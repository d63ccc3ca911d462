-------------------------- MODULE ExecutionRegistry --------------------------
(***************************************************************************)
(* The registry of Home-dispatched executions of one subscriber lifetime   *)
(* (sdk/cliproxy/executionregistry).  A request reserves a dispatch token,  *)
(* asks Home for a credential, installs an execution scope, binds to it    *)
(* the resource that cancels the attempt, and ends the scope, which        *)
(* reports a cumulative release sequence to a sink.  Drain and Close shut  *)
(* the registry down; ObserveBarrier and FreezeInFlight publish what is in  *)
(* flight.                                                                  *)
(*                                                                         *)
(* Registry.state is an atomic that Drain and Close change WITHOUT the      *)
(* registry mutex, while BeginDispatch, Install and Bind read it inside     *)
(* the mutex.  So these three are two steps here: the check of the state,   *)
(* and the update, with "critical" naming the operation that holds the      *)
(* mutex in between.  Every other critical section is one step.            *)
(***************************************************************************)
EXTENDS Integers, FiniteSets

CONSTANTS
  Groups,         \* release groups: one accounted credential and model
  Sinks,          \* release sinks SetReleaseSink may install
  Setters,        \* calls of SetReleaseSink
  Drainers,       \* calls of Drain
  Closing,        \* whether Close is called
  Bindable,       \* the dispatches that bind a resource
  MaxDispatches,  \* bound on the dispatch counter
  MaxBarrier,     \* highest barrier revision Home sends
  MaxFreezes,     \* bound on the snapshots taken
  Unaccounted,    \* the "group" of a scope with Accounted = FALSE
  NotInstalled,   \* the "group" of a dispatch without a scope
  NoSink

ASSUME BoundsAssumption ==
  /\ Closing \in BOOLEAN
  /\ MaxDispatches \in Nat
  /\ MaxBarrier \in Nat
  /\ MaxFreezes \in Nat

ASSUME NullsAssumption ==
  /\ Unaccounted \notin Groups
  /\ NotInstalled \notin Groups
  /\ Unaccounted # NotInstalled
  /\ NoSink \notin Sinks

VARIABLES
  state,            \* Registry.state
  critical,         \* the two-step operation that holds Registry.mu
  next,             \* Registry.next: the last dispatch id
  pending, scopes,  \* the ids in the two maps
  group,            \* Scope.spec: the release group of each installed id
  ending,           \* how far EndWithRelease has gone, per scope
  resource,         \* Scope.closeFn and closeDone
  releaseSequences, releaseSink,
  held,             \* the sink and sequence an EndWithRelease works with
  delivered,        \* highest sequence each sink was given, per group
  replay,           \* the sink and sequences each SetReleaseSink works with
  replayLeft,       \* the groups it has yet to replay
  drain, toClose,   \* progress of each Drain, and the scopes left to close
  close,            \* progress of Close
  closeQueue, closeWaits, \* scopes Close has left, and the one it waits for
  observedBarrier, pendingBarrierSequence, publishedBarrier,
  freeze            \* the last snapshot; its revision is snapshotRevision

lifecycleVars == <<state, drain, toClose, close, closeQueue, closeWaits>>
releaseVars   == <<releaseSequences, releaseSink, held, delivered, replay,
                   replayLeft>>
barrierVars   == <<observedBarrier, pendingBarrierSequence, publishedBarrier,
                   freeze>>
scopeVars     == <<pending, scopes, group, ending, resource>>
vars == <<critical, next, scopeVars, lifecycleVars, releaseVars, barrierVars>>

Ids == 1..MaxDispatches

Idle == [op |-> "none", id |-> 0]
Free == critical = Idle
Enter(op, id) == critical' = [op |-> op, id |-> id]
Leave == critical' = Idle
Holds(op, id) == critical = [op |-> op, id |-> id]

Later(a, b) == IF a >= b THEN a ELSE b

-----------------------------------------------------------------------------
Init ==
  /\ state = "Accepting"
  /\ critical = Idle
  /\ next = 0
  /\ pending = {}
  /\ scopes = {}
  /\ group = [id \in Ids |-> NotInstalled]
  /\ ending = [id \in Ids |-> "open"]
  /\ resource = [id \in Ids |-> "none"]
  /\ releaseSequences = [g \in Groups |-> 0]
  /\ releaseSink = NoSink
  /\ held = [id \in Ids |-> [sink |-> NoSink, seq |-> 0]]
  /\ delivered = [s \in Sinks |-> [g \in Groups |-> 0]]
  /\ replay = [t \in Setters |-> [pc |-> "idle", sink |-> NoSink,
                                  seqs |-> [g \in Groups |-> 0]]]
  /\ replayLeft = [t \in Setters |-> {}]
  /\ drain = [d \in Drainers |-> "idle"]
  /\ toClose = [d \in Drainers |-> {}]
  /\ close = "idle"
  /\ closeQueue = {}
  /\ closeWaits = 0
  /\ observedBarrier = 0
  /\ pendingBarrierSequence = 0
  /\ publishedBarrier = 0
  /\ freeze = [revision |-> 0, barrier |-> 0, executions |-> {}]

\* signalLocked closes the channel every sleeping Drain captured.
Signal == drain' = [d \in Drainers |->
                      IF drain[d] = "waiting" THEN "woken" ELSE drain[d]]

-----------------------------------------------------------------------------
(* BeginDispatch, PendingDispatch.End, Install and Bind                    *)

\* Faulty variant: the state is not read again once the mutex is held.
BeginDispatchUnchecked ==
  /\ Free
  /\ next < MaxDispatches
  /\ Enter("begin", next + 1)
  /\ UNCHANGED <<next, scopeVars, lifecycleVars, releaseVars, barrierVars>>

BeginDispatchCheck ==
  /\ Free
  /\ next < MaxDispatches
  /\ state = "Accepting"
  /\ Enter("begin", next + 1)
  /\ UNCHANGED <<next, scopeVars, lifecycleVars, releaseVars, barrierVars>>

BeginDispatch ==
  /\ Holds("begin", next + 1)
  /\ next' = next + 1
  /\ pending' = pending \cup {next'}
  /\ Leave
  /\ UNCHANGED <<scopes, group, ending, resource, lifecycleVars, releaseVars,
                 barrierVars>>

\* "once" is done exactly when the id has left the pending map, so End and
\* Install of an id that is not pending change nothing.
EndPending(id) ==
  /\ Free
  /\ id \in pending
  /\ pending' = pending \ {id}
  /\ Signal
  /\ UNCHANGED <<critical, next, scopes, group, ending, resource, state,
                 toClose, close, closeQueue, closeWaits, releaseVars,
                 barrierVars>>

InstallRejected(id) ==
  /\ state # "Accepting"
  /\ EndPending(id)

InstallCheck(id) ==
  /\ Free
  /\ id \in pending
  /\ state = "Accepting"
  /\ Enter("install", id)
  /\ UNCHANGED <<next, scopeVars, lifecycleVars, releaseVars, barrierVars>>

Install(id, g) ==
  /\ Holds("install", id)
  /\ pending' = pending \ {id}
  /\ scopes' = scopes \cup {id}
  /\ group' = [group EXCEPT ![id] = g]
  /\ Signal
  /\ Leave
  /\ UNCHANGED <<next, ending, resource, state, toClose, close, closeQueue,
                 closeWaits, releaseVars, barrierVars>>

\* Scope.active holds from Install to the first step of EndWithRelease.
Active(id) == group[id] # NotInstalled /\ ending[id] = "open"

\* Faulty variant: Bind accepts a resource during a shutdown.
BindDuringShutdown(id) ==
  /\ Free
  /\ Active(id)
  /\ id \in Bindable /\ resource[id] = "none"
  /\ Enter("bind", id)
  /\ UNCHANGED <<next, scopeVars, lifecycleVars, releaseVars, barrierVars>>

\* Faulty variant: Bind does not look at Scope.active.
BindInactive(id) ==
  /\ Free
  /\ state = "Accepting"
  /\ group[id] # NotInstalled
  /\ id \in Bindable /\ resource[id] = "none"
  /\ Enter("bind", id)
  /\ UNCHANGED <<next, scopeVars, lifecycleVars, releaseVars, barrierVars>>

BindCheck(id) ==
  /\ Free
  /\ state = "Accepting"
  /\ Active(id)
  /\ id \in Bindable /\ resource[id] = "none"
  /\ Enter("bind", id)
  /\ UNCHANGED <<next, scopeVars, lifecycleVars, releaseVars, barrierVars>>

Bind(id) ==
  /\ Holds("bind", id)
  /\ resource' = [resource EXCEPT ![id] = "bound"]
  /\ Leave
  /\ UNCHANGED <<next, pending, scopes, group, ending, lifecycleVars,
                 releaseVars, barrierVars>>

-----------------------------------------------------------------------------
(* Scope.EndWithRelease, in the five sections the code has                 *)

\* startBoundResourceClose starts the close function at most once.
StartClose(id) ==
  resource' = [resource EXCEPT ![id] = IF @ = "bound" THEN "closing" ELSE @]

\* waitForBoundResourceClose returns at once when nothing was bound.
CloseFinished(id) == resource[id] \in {"none", "closed"}

EndStep(id, from, to) ==
  /\ ending[id] = from
  /\ ending' = [ending EXCEPT ![id] = to]

\* Faulty variant: the end of a scope is not guarded by sync.Once.
EndAgain(id) ==
  /\ Free
  /\ group[id] # NotInstalled
  /\ EndStep(id, "open", "deactivated") \/ EndStep(id, "ended", "deactivated")
  /\ UNCHANGED <<critical, next, pending, scopes, group, resource,
                 lifecycleVars, releaseVars, barrierVars>>

EndDeactivate(id) ==
  /\ Free
  /\ group[id] # NotInstalled
  /\ EndStep(id, "open", "deactivated")
  /\ UNCHANGED <<critical, next, pending, scopes, group, resource,
                 lifecycleVars, releaseVars, barrierVars>>

EndStartClose(id) ==
  /\ EndStep(id, "deactivated", "closing")
  /\ StartClose(id)
  /\ UNCHANGED <<critical, next, pending, scopes, group, lifecycleVars,
                 releaseVars, barrierVars>>

\* Faulty variant: the sequence handed on is one above the one recorded.
EndMarkReleasedAhead(id) ==
  /\ Free
  /\ CloseFinished(id)
  /\ EndStep(id, "closing", "marked")
  /\ IF group[id] \in Groups
     THEN LET seq == releaseSequences[group[id]] + 1 IN
          /\ releaseSequences' = [releaseSequences EXCEPT ![group[id]] = seq]
          /\ held' = [held EXCEPT ![id] = [sink |-> releaseSink, seq |-> seq + 1]]
     ELSE UNCHANGED <<releaseSequences, held>>
  /\ UNCHANGED <<critical, next, pending, scopes, group, resource,
                 lifecycleVars, releaseSink, delivered, replay, replayLeft,
                 barrierVars>>

\* markReleasedLocked counts an accounted scope and reads the current sink.
EndMarkReleased(id) ==
  /\ Free
  /\ CloseFinished(id)
  /\ EndStep(id, "closing", "marked")
  /\ IF group[id] \in Groups
     THEN LET seq == releaseSequences[group[id]] + 1 IN
          /\ releaseSequences' = [releaseSequences EXCEPT ![group[id]] = seq]
          /\ held' = [held EXCEPT ![id] = [sink |-> releaseSink, seq |-> seq]]
     ELSE UNCHANGED <<releaseSequences, held>>
  /\ UNCHANGED <<critical, next, pending, scopes, group, resource,
                 lifecycleVars, releaseSink, delivered, replay, replayLeft,
                 barrierVars>>

\* A sink keeps the highest sequence of a group (releaseFlusher.MarkDirty).
Deliver(s, g, seq) ==
  delivered' = [delivered EXCEPT ![s][g] = Later(@, seq)]

EndDeliver(id) ==
  /\ EndStep(id, "marked", "delivered")
  /\ IF held[id].sink \in Sinks
     THEN Deliver(held[id].sink, group[id], held[id].seq)
     ELSE UNCHANGED delivered
  /\ UNCHANGED <<critical, next, pending, scopes, group, resource,
                 lifecycleVars, releaseSequences, releaseSink, held, replay,
                 replayLeft, barrierVars>>

EndRemove(id) ==
  /\ Free
  /\ EndStep(id, "delivered", "ended")
  /\ scopes' = scopes \ {id}
  /\ Signal
  /\ UNCHANGED <<critical, next, pending, group, resource, state, toClose,
                 close, closeQueue, closeWaits, releaseVars, barrierVars>>

\* The goroutine of startBoundResourceClose: closeFn returns.
ResourceClosed(id) ==
  /\ resource[id] = "closing"
  /\ resource' = [resource EXCEPT ![id] = "closed"]
  /\ UNCHANGED <<critical, next, pending, scopes, group, ending,
                 lifecycleVars, releaseVars, barrierVars>>

-----------------------------------------------------------------------------
(* SetReleaseSink: swap under the mutex, replay the copied sequences after *)

\* Faulty variant: a new sink is not told the sequences reached before it.
SetSinkWithoutReplay(t, s) ==
  /\ Free
  /\ replay[t].pc = "idle"
  /\ releaseSink' = s
  /\ replay' = [replay EXCEPT ![t].pc = "called", ![t].sink = s]
  /\ UNCHANGED <<replayLeft, critical, next, scopeVars, lifecycleVars, releaseSequences,
                 held, delivered, barrierVars>>

SetReleaseSink(t, s) ==
  /\ Free
  /\ replay[t].pc = "idle"
  /\ releaseSink' = s
  /\ replay' = [replay EXCEPT ![t] =
       [pc |-> "called", sink |-> s, seqs |-> releaseSequences]]
  /\ replayLeft' = [replayLeft EXCEPT ![t] =
       {g \in Groups : s # NoSink /\ releaseSequences[g] > 0}]
  /\ UNCHANGED <<critical, next, scopeVars, lifecycleVars, releaseSequences,
                 held, delivered, barrierVars>>

ReplayGroup(t, g) ==
  /\ g \in replayLeft[t]
  /\ Deliver(replay[t].sink, g, replay[t].seqs[g])
  /\ replayLeft' = [replayLeft EXCEPT ![t] = @ \ {g}]
  /\ UNCHANGED <<critical, next, scopeVars, lifecycleVars, releaseSequences,
                 releaseSink, held, replay, barrierVars>>

-----------------------------------------------------------------------------
(* Drain                                                                   *)

\* The compare-and-swap from Accepting, or a Drain that joins another one.
DrainStart(d) ==
  /\ drain[d] = "idle"
  /\ state \in {"Accepting", "Draining"}
  /\ state' = "Draining"
  /\ drain' = [drain EXCEPT ![d] = "started"]
  /\ UNCHANGED <<critical, next, scopeVars, toClose, close, closeQueue,
                 closeWaits, releaseVars, barrierVars>>

DrainSnapshot(d) ==
  /\ Free
  /\ drain[d] = "started"
  /\ drain' = [drain EXCEPT ![d] = "closing"]
  /\ toClose' = [toClose EXCEPT ![d] = scopes]
  /\ UNCHANGED <<critical, next, scopeVars, state, close, closeQueue,
                 closeWaits, releaseVars, barrierVars>>

\* Faulty variant: Drain waits without cancelling the active resources.
DrainKeepsOpen(d, id) ==
  /\ id \in toClose[d]
  /\ toClose' = [toClose EXCEPT ![d] = @ \ {id}]
  /\ UNCHANGED <<critical, next, scopeVars, state, drain,
                 close, closeQueue, closeWaits, releaseVars, barrierVars>>

DrainStartClose(d, id) ==
  /\ id \in toClose[d]
  /\ toClose' = [toClose EXCEPT ![d] = @ \ {id}]
  /\ StartClose(id)
  /\ UNCHANGED <<critical, next, pending, scopes, group, ending, state, drain,
                 close, closeQueue, closeWaits, releaseVars, barrierVars>>

DrainChecks(d) ==
  /\ Free
  /\ drain[d] \in {"closing", "woken"}
  /\ toClose[d] = {}

DrainSleep(d) ==
  /\ DrainChecks(d)
  /\ pending # {} \/ scopes # {}
  /\ drain' = [drain EXCEPT ![d] = "waiting"]
  /\ UNCHANGED <<critical, next, scopeVars, state, toClose, close, closeQueue,
                 closeWaits, releaseVars, barrierVars>>

DrainFinish(d) ==
  /\ DrainChecks(d)
  /\ pending = {} /\ scopes = {}
  /\ state' = "Closed"
  /\ drain' = [drain EXCEPT ![d] = "drained"]
  /\ UNCHANGED <<critical, next, scopeVars, toClose, close, closeQueue,
                 closeWaits, releaseVars, barrierVars>>

\* The context of the caller expires while Drain sleeps.
DrainExpired(d) ==
  /\ drain[d] \in {"waiting", "woken"}
  /\ drain' = [drain EXCEPT ![d] = "expired"]
  /\ UNCHANGED <<critical, next, scopeVars, state, toClose, close, closeQueue,
                 closeWaits, releaseVars, barrierVars>>

-----------------------------------------------------------------------------
(* Close; a second call only waits for closeDone                           *)

CloseStart ==
  /\ Closing
  /\ close = "idle"
  /\ state # "Closed"
  /\ close' = "started"
  /\ UNCHANGED <<critical, next, scopeVars, state, drain, toClose, closeQueue,
                 closeWaits, releaseVars, barrierVars>>

CloseSwap ==
  /\ close = "started"
  /\ close' = "swapped"
  /\ state' = "Closed"
  /\ UNCHANGED <<critical, next, scopeVars, drain, toClose, closeQueue,
                 closeWaits, releaseVars, barrierVars>>

CloseSnapshot ==
  /\ Free
  /\ close = "swapped"
  /\ close' = "closing"
  /\ closeQueue' = scopes
  /\ UNCHANGED <<critical, next, scopeVars, state, drain, toClose, closeWaits,
                 releaseVars, barrierVars>>

\* Faulty variant: Close waits for a resource it did not start to close.
CloseOnlyWaits(id) ==
  /\ closeWaits = 0
  /\ id \in closeQueue
  /\ closeQueue' = closeQueue \ {id}
  /\ closeWaits' = id
  /\ UNCHANGED <<critical, next, scopeVars, state, drain, toClose, close,
                 releaseVars, barrierVars>>

\* One scope at a time, waiting for its resource before the next.
CloseNext(id) ==
  /\ closeWaits = 0
  /\ id \in closeQueue
  /\ closeQueue' = closeQueue \ {id}
  /\ closeWaits' = id
  /\ StartClose(id)
  /\ UNCHANGED <<critical, next, pending, scopes, group, ending, state, drain,
                 toClose, close, releaseVars, barrierVars>>

CloseWaited ==
  /\ closeWaits # 0
  /\ CloseFinished(closeWaits)
  /\ closeWaits' = 0
  /\ UNCHANGED <<critical, next, scopeVars, state, drain, toClose, close,
                 closeQueue, releaseVars, barrierVars>>

CloseFinish ==
  /\ close = "closing"
  /\ closeQueue = {} /\ closeWaits = 0
  /\ close' = "done"
  /\ UNCHANGED <<critical, next, scopeVars, state, drain, toClose, closeQueue,
                 closeWaits, releaseVars, barrierVars>>

-----------------------------------------------------------------------------
(* ObserveBarrier and FreezeInFlight                                       *)

\* Revisions may arrive late or twice: only a newer one is recorded.
ObserveBarrier(revision) ==
  /\ Free
  /\ revision > observedBarrier
  /\ observedBarrier' = revision
  /\ pendingBarrierSequence' = next
  /\ UNCHANGED <<critical, next, scopeVars, lifecycleVars, releaseVars,
                 publishedBarrier, freeze>>

\* Faulty variant: the youngest dispatch before the barrier is forgotten.
BarrierBlockedOffByOne == \E id \in pending : id < pendingBarrierSequence

BarrierBlocked == \E id \in pending : id <= pendingBarrierSequence

FreezeInFlight ==
  /\ Free
  /\ freeze.revision < MaxFreezes
  /\ publishedBarrier' = IF observedBarrier > publishedBarrier /\ ~BarrierBlocked
                         THEN observedBarrier ELSE publishedBarrier
  /\ freeze' = [revision   |-> freeze.revision + 1,
                barrier    |-> publishedBarrier',
                executions |-> scopes]
  /\ UNCHANGED <<critical, next, scopeVars, lifecycleVars, releaseVars,
                 observedBarrier, pendingBarrierSequence>>

-----------------------------------------------------------------------------
\* The steps of EndWithRelease that do not call the sink.
EndStepQuiet(id) ==
  \/ EndDeactivate(id)
  \/ EndStartClose(id)
  \/ EndMarkReleased(id)
  \/ EndRemove(id)

Dispatch(id) ==
  \/ EndPending(id)
  \/ InstallRejected(id)
  \/ InstallCheck(id)
  \/ \E g \in Groups \cup {Unaccounted} : Install(id, g)
  \/ BindCheck(id)
  \/ Bind(id)

Drain(d) ==
  \/ DrainStart(d)
  \/ DrainSnapshot(d)
  \/ \E id \in Ids : DrainStartClose(d, id)
  \/ DrainSleep(d)
  \/ DrainFinish(d)
  \/ DrainExpired(d)

Close ==
  \/ CloseStart
  \/ CloseSwap
  \/ CloseSnapshot
  \/ \E id \in Ids : CloseNext(id)
  \/ CloseWaited
  \/ CloseFinish

\* Every step but the calls of a release sink.
NextQuiet ==
  \/ BeginDispatchCheck
  \/ BeginDispatch
  \/ \E id \in Ids : Dispatch(id) \/ EndStepQuiet(id) \/ ResourceClosed(id)
  \/ \E t \in Setters, s \in Sinks \cup {NoSink} : SetReleaseSink(t, s)
  \/ \E d \in Drainers : Drain(d)
  \/ Close
  \/ \E revision \in 1..MaxBarrier : ObserveBarrier(revision)
  \/ FreezeInFlight

Next ==
  \/ NextQuiet
  \/ \E id \in Ids : EndDeliver(id)
  \/ \E t \in Setters, g \in Groups : ReplayGroup(t, g)

Spec == Init /\ [][Next]_vars

(* Goroutines that run are scheduled, sync.Mutex starves nobody, and a      *)
(* close function returns.  The caller ends each token it reserved, and the *)
(* owner of a scope ends it once its resource is closed or was never bound: *)
(* an execution whose resource stays open may last for ever.  No fairness   *)
(* makes anyone begin, install, bind, drain, close or expire.               *)
OwnerEnds(id) == EndDeactivate(id) /\ resource[id] # "bound"

EndRuns(id) ==
  \/ EndStartClose(id)
  \/ EndMarkReleased(id)
  \/ EndDeliver(id)
  \/ EndRemove(id)

DrainRuns(d) ==
  \/ DrainSnapshot(d)
  \/ \E id \in Ids : DrainStartClose(d, id)
  \/ DrainSleep(d)
  \/ DrainFinish(d)

CloseRuns ==
  \/ CloseSwap
  \/ CloseSnapshot
  \/ \E id \in Ids : CloseNext(id)
  \/ CloseWaited
  \/ CloseFinish

(* What an id still has to do; each of these steps is taken once at most,   *)
(* so fairness of their disjunction is fairness of each.                    *)
IdRuns(id) ==
  \/ EndPending(id)
  \/ \E g \in Groups \cup {Unaccounted} : Install(id, g)
  \/ Bind(id)
  \/ OwnerEnds(id)
  \/ EndRuns(id)
  \/ ResourceClosed(id)

FairSpec ==
  /\ Spec
  /\ WF_vars(BeginDispatch)
  /\ \A id \in Ids : SF_vars(IdRuns(id))
  /\ \A d \in Drainers : SF_vars(DrainRuns(d))
  /\ SF_vars(CloseRuns)

-----------------------------------------------------------------------------
(* Type invariant: the shape of the registry's state.                      *)
DrainStates == {"idle", "started", "closing", "waiting", "woken", "drained",
                "expired"}

TypeOK ==
  /\ state \in {"Accepting", "Draining", "Closed"}
  /\ critical \in [op : {"none", "begin", "install", "bind"}, id : Ids \cup {0}]
  /\ next \in 0..MaxDispatches
  /\ pending \subseteq 1..next /\ scopes \subseteq 1..next
  /\ group \in [Ids -> Groups \cup {Unaccounted, NotInstalled}]
  /\ ending \in [Ids -> {"open", "deactivated", "closing", "marked",
                         "delivered", "ended"}]
  /\ resource \in [Ids -> {"none", "bound", "closing", "closed"}]
  /\ releaseSequences \in [Groups -> Nat]
  /\ releaseSink \in Sinks \cup {NoSink}
  /\ held \in [Ids -> [sink : Sinks \cup {NoSink}, seq : Nat]]
  /\ delivered \in [Sinks -> [Groups -> Nat]]
  /\ replay \in [Setters -> [pc : {"idle", "called"}, sink : Sinks \cup {NoSink},
                              seqs : [Groups -> Nat]]]
  /\ replayLeft \in [Setters -> SUBSET Groups]
  /\ drain \in [Drainers -> DrainStates]
  /\ toClose \in [Drainers -> SUBSET Ids]
  /\ close \in {"idle", "started", "swapped", "closing", "done"}
  /\ closeQueue \subseteq Ids
  /\ closeWaits \in Ids \cup {0}
  /\ observedBarrier \in 0..MaxBarrier
  /\ pendingBarrierSequence \in 0..next
  /\ publishedBarrier \in 0..observedBarrier
  /\ freeze \in [revision : 0..MaxFreezes, barrier : 0..publishedBarrier,
                 executions : SUBSET Ids]

(* What the holder of the mutex has checked stays true until it acts.        *)
MutexOK ==
  /\ critical.op = "install" => critical.id \in pending
  /\ critical.op = "bind" => /\ critical.id \in Ids
                            /\ Active(critical.id)
                            /\ resource[critical.id] = "none"

(* Once a Drain has returned without error nothing is in flight and nothing *)
(* will be: a BeginDispatch or Install that read Accepting before the       *)
(* compare-and-swap cannot add its entry after the last check of Drain.     *)
DrainedStaysEmpty ==
  (\E d \in Drainers : drain[d] = "drained") => pending = {} /\ scopes = {}

(* A Drain that waits, or has returned, has begun to close every resource   *)
(* there is, and when Close has returned every resource is closed: a Bind   *)
(* racing the shutdown cannot attach one that nobody closes.                *)
ShutdownClosesResources ==
  /\ (\E d \in Drainers : drain[d] \in {"waiting", "woken", "drained", "expired"})
       => \A id \in Ids : resource[id] # "bound"
  /\ close = "done" => \A id \in Ids : CloseFinished(id)

(* A scope's release is counted only once its resource is closed, and no    *)
(* resource is bound to it afterwards: Home never reuses a slot whose       *)
(* upstream attempt still runs.                                             *)
NoReleaseWhileOpen ==
  \A id \in Ids : ending[id] \in {"marked", "delivered", "ended"}
                    => CloseFinished(id)

(* The cumulative sequence of a group is the number of its accounted scopes *)
(* that were released, each counted once however often it is ended, and no  *)
(* sink is ever told of more: Home cannot be made to free a slot twice.     *)
Released(g) == {id \in Ids : /\ group[id] = g
                             /\ ending[id] \in {"marked", "delivered", "ended"}}

ReleasesCountEnds ==
  \A g \in Groups :
    /\ releaseSequences[g] = Cardinality(Released(g))
    /\ \A s \in Sinks : delivered[s][g] <= releaseSequences[g]

(* The current sink knows the latest sequence of each group, unless a       *)
(* replay or a release that will tell it is under way: replacing the sink   *)
(* while scopes end loses no release.                                       *)
SinkCaughtUp ==
  \A g \in Groups :
    \/ releaseSink = NoSink
    \/ \E t \in Setters : replay[t].sink = releaseSink /\ g \in replayLeft[t]
    \/ \E id \in Ids : /\ group[id] = g
                        /\ ending[id] = "marked"
                        /\ held[id].sink = releaseSink
    \/ delivered[releaseSink][g] = releaseSequences[g]

(* A snapshot that publishes the latest barrier accounts for every dispatch *)
(* begun before the barrier was observed: it lists it, or the dispatch was  *)
(* given back, or its release has reached the sink.  A dispatch between the *)
(* pending and the scope map, or a scope removed before its release is      *)
(* handed over, would make Home see a free slot that is in use.             *)
Settled(id) ==
  \/ group[id] = NotInstalled /\ id \notin pending
  \/ group[id] = Unaccounted /\ CloseFinished(id)
  \/ /\ group[id] \in Groups /\ held[id].seq > 0
     /\ held[id].sink \in Sinks
          => delivered[held[id].sink][group[id]] >= held[id].seq

SnapshotAccountsForBarrier ==
  freeze.barrier = observedBarrier =>
    \A id \in 1..pendingBarrierSequence :
      id \in freeze.executions \/ Settled(id)

(* Drain returns although active executions last until they are cancelled.  *)
DrainReturns ==
  \A d \in Drainers :
    drain[d] = "started" ~> drain[d] \in {"drained", "expired"}

(* Close returns although active executions last until they are cancelled.  *)
CloseReturns == close = "started" ~> close = "done"
=============================================================================
