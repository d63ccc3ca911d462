---------------------------- MODULE ReleasePipeline ----------------------------
(***************************************************************************)
(* The execution registry with the release flusher as its sink: what       *)
(* EndWithRelease and SetReleaseSink deliver is what MarkDirty records.    *)
(* Refines ReleaseAccounting, with the sequences of the registry as what    *)
(* has ended and what Home accepted as what is freed.                      *)
(***************************************************************************)
EXTENDS Integers, FiniteSets

CONSTANTS
  Groups, Setters, Bindable, MaxDispatches, MaxSenderSets,
  Flusher,       \* the one sink
  Unaccounted, NotInstalled, NoSink

ASSUME PipelineBounds == MaxDispatches \in Nat /\ MaxSenderSets \in Nat

ASSUME PipelineNulls ==
  /\ Unaccounted \notin Groups /\ NotInstalled \notin Groups
  /\ Unaccounted # NotInstalled /\ NoSink # Flusher

VARIABLES
  \* of the registry
  state, critical, next, pending, scopes, group, ending, resource,
  releaseSequences, releaseSink, held, delivered, replay, replayLeft, drain,
  toClose, close, closeQueue, closeWaits, observedBarrier,
  pendingBarrierSequence, publishedBarrier, freeze,
  \* of the flusher
  latest, acked, waiters, issued, sender, senderSets, wake, force, pc, timer,
  backingOff, todo, frame, sending, failed, callers, target, inFlight, home

\* The two parts, with the theorems about them.
Registry == INSTANCE ExecutionRegistryProofs
  WITH Sinks <- {Flusher}, Drainers <- {}, Closing <- FALSE, MaxBarrier <- 0,
       MaxFreezes <- 0

Flushing == INSTANCE ReleaseFlusherProofs
  WITH Flushers <- {}, MaxSequence <- MaxDispatches

registryVars ==
  <<state, critical, next, pending, scopes, group, ending, resource,
    releaseSequences, releaseSink, held, delivered, replay, replayLeft, drain,
    toClose, close, closeQueue, closeWaits, observedBarrier,
    pendingBarrierSequence, publishedBarrier, freeze>>
flusherVars ==
  <<latest, acked, waiters, issued, sender, senderSets, wake, force, pc, timer,
    backingOff, todo, frame, sending, failed, callers, target, inFlight, home>>
vars == <<registryVars, flusherVars>>

Init == Registry!Init /\ Flushing!FlusherInit

\* The calls of the sink, outside the registry's mutex.
EndDeliver(id) ==
  /\ Registry!EndDeliver(id)
  /\ IF held[id].sink = Flusher
     THEN Flushing!MarkDirty(group[id], held[id].seq)
     ELSE UNCHANGED flusherVars

ReplayGroup(t, g) ==
  /\ Registry!ReplayGroup(t, g)
  /\ Flushing!MarkDirty(g, replay[t].seqs[g])

RegistryStep == Registry!NextQuiet /\ UNCHANGED flusherVars
FlusherStep == Flushing!LoopNext /\ UNCHANGED registryVars

Next ==
  \/ RegistryStep
  \/ FlusherStep
  \/ \E id \in Registry!Ids : EndDeliver(id)
  \/ \E t \in Setters, g \in Groups : ReplayGroup(t, g)

Spec == Init /\ [][Next]_vars

(* The goroutines of both parts run, and the timer of the loop fires.  Home *)
(* is reachable again and again: a frame in flight arrives, and sends do    *)
(* not fail for ever.                                                       *)
FairSpec ==
  /\ Spec
  /\ WF_vars(Flushing!TimerFires /\ UNCHANGED registryVars)
  /\ WF_vars(Flushing!FlushDone /\ UNCHANGED registryVars)
  /\ \A g \in Groups :
       /\ WF_vars(Flushing!SendStart(g) /\ UNCHANGED registryVars)
       /\ SF_vars(Flushing!SendAcknowledged(g) /\ UNCHANGED registryVars)
       /\ WF_vars(/\ Flushing!SendFailed(g) \/ Flushing!SendAcknowledged(g)
                  /\ UNCHANGED registryVars)
       /\ \A seq \in 1..MaxDispatches :
            WF_vars(Flushing!HomeAccepts(g, seq) /\ UNCHANGED registryVars)
  /\ \A id \in Registry!Ids : WF_vars(EndDeliver(id))
  /\ \A t \in Setters, g \in Groups : WF_vars(ReplayGroup(t, g))

-----------------------------------------------------------------------------
Accounting == INSTANCE ReleaseAccounting WITH ended <- releaseSequences, freed <- home

(* The registry and the flusher implement the accounting of releases: Home  *)
(* never frees more slots than executions ended, and never takes one back.  *)
ImplementsAccounting == Accounting!Spec

(* Home never frees a slot of an execution that is still running: there are *)
(* at least as many ended executions, with their resources closed, as slots *)
(* freed, and the flusher holds exactly what the registry delivered.        *)
FreedSlotsAreIdle ==
  \A g \in Groups :
    /\ home[g] <= Cardinality({id \in Registry!Ids :
                    /\ group[id] = g
                    /\ ending[id] \in {"marked", "delivered", "ended"}
                    /\ resource[id] \in {"none", "closed"}})
    /\ latest[g] = delivered[Flusher][g]

(* Every release reaches Home, whether it was counted before or after the   *)
(* sink was set, as long as the sink, the loop and its sender stay.         *)
ReleasesReachHome ==
  \A g \in Groups, n \in 1..MaxDispatches :
    releaseSequences[g] >= n
      ~> home[g] >= n \/ releaseSink = NoSink \/ pc = "returned" \/ ~sender

(* Every release ticket MarkDirty handed out completes, also when a later   *)
(* sequence overtakes it, as long as the loop and its sender stay.          *)
TicketsComplete ==
  \A g \in Groups, seq \in 1..MaxDispatches :
    seq \in waiters[g] ~> seq \notin waiters[g] \/ pc = "returned" \/ ~sender
=============================================================================
