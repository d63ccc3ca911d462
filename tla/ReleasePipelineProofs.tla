------------------------ MODULE ReleasePipelineProofs ------------------------
(***************************************************************************)
(* The registry and the flusher together implement ReleaseAccounting, for  *)
(* any number of groups, dispatches and replacements of the sink.  The      *)
(* pipeline runs each part as its own specification allows, so the theorems *)
(* about the parts hold in it; Linked joins their state.                   *)
(***************************************************************************)
EXTENDS ReleasePipeline, TLAPS

LEMMA PartsAssume ==
  /\ Registry!BoundsAssumption /\ Registry!NullsAssumption
  /\ Flushing!FlusherBounds
BY PipelineBounds, PipelineNulls
   DEF Registry!BoundsAssumption, Registry!NullsAssumption, Flushing!FlusherBounds

\* A step of the pipeline is a step of the registry, or none.
LEMMA RegistrySteps == [Next]_vars => [Registry!Next]_(Registry!vars)
<1> SUFFICES ASSUME [Next]_vars PROVE [Registry!Next]_(Registry!vars)
  OBVIOUS
<1>1. CASE RegistryStep
  BY <1>1 DEF RegistryStep, Registry!Next
<1>2. CASE UNCHANGED registryVars
  BY <1>2 DEF registryVars, Registry!vars, Registry!scopeVars, Registry!lifecycleVars,
     Registry!releaseVars, Registry!barrierVars
<1>3. ASSUME NEW id \in Registry!Ids, EndDeliver(id) PROVE Registry!Next
  BY <1>3 DEF EndDeliver, Registry!Next
<1>4. ASSUME NEW t \in Setters, NEW g \in Groups, ReplayGroup(t, g) PROVE Registry!Next
  BY <1>4 DEF ReplayGroup, Registry!Next
<1> QED BY <1>1, <1>2, <1>3, <1>4 DEF Next, FlusherStep, vars

LEMMA RunsRegistry == Spec => Registry!Spec
<1>1. Init => Registry!Init
  BY DEF Init
<1> QED BY <1>1, RegistrySteps, PTL DEF Spec, Registry!Spec

LEMMA RegistryFacts ==
  Spec => [](Registry!TypeOK /\ Registry!NoReleaseWhileOpen /\ Registry!ReleasesCountEnds
               /\ Registry!SinkCalls)
<1>1. Registry!Spec => [](Registry!TypeOK /\ Registry!NoReleaseWhileOpen
                            /\ Registry!ReleasesCountEnds /\ Registry!SinkCalls)
  BY PartsAssume, Registry!CallsAreCounted
     DEF Registry!BoundsAssumption, Registry!NullsAssumption
<1> QED BY <1>1, RunsRegistry, PTL

\* A step of the pipeline is a step of the flusher, or none: what the registry
\* delivers is a sequence of a group.
LEMMA FlusherSteps ==
  Registry!TypeOK /\ Registry!SinkCalls /\ [Next]_vars
    => [Flushing!FlusherNext]_(Flushing!flusherVars)
<1> SUFFICES ASSUME Registry!TypeOK, Registry!SinkCalls, [Next]_vars
             PROVE  [Flushing!FlusherNext]_(Flushing!flusherVars)
  OBVIOUS
<1>1. CASE FlusherStep
  BY <1>1 DEF FlusherStep, Flushing!FlusherNext
<1>2. CASE UNCHANGED flusherVars
  BY <1>2 DEF flusherVars, Flushing!flusherVars, Flushing!markVars, Flushing!loopVars,
     Flushing!callVars, Flushing!ackVars, Flushing!sendVars
<1>3. ASSUME NEW id \in Registry!Ids, EndDeliver(id)
      PROVE  [Flushing!FlusherNext]_(Flushing!flusherVars)
  <2>1. CASE held[id].sink = Flusher
    <3>1. ending[id] = "marked" /\ Flushing!MarkDirty(group[id], held[id].seq)
      BY <1>3, <2>1 DEF EndDeliver, Registry!EndDeliver, Registry!EndStep
    <3>2. group[id] \in Groups /\ held[id].seq \in 1..releaseSequences[group[id]]
      BY <2>1, <3>1 DEF Registry!SinkCalls
    <3>3. releaseSequences[group[id]] \in Nat /\ releaseSequences[group[id]] <= MaxDispatches
      BY <3>2 DEF Registry!SinkCalls, Registry!TypeOK
    <3>4. held[id].seq \in 1..MaxDispatches
      BY <3>2, <3>3, PipelineBounds
    <3> QED BY <3>1, <3>2, <3>4 DEF Flushing!FlusherNext
  <2>2. CASE held[id].sink # Flusher
    BY <1>2, <1>3, <2>2 DEF EndDeliver
  <2> QED BY <2>1, <2>2
<1>4. ASSUME NEW t \in Setters, NEW g \in Groups, ReplayGroup(t, g)
      PROVE  Flushing!FlusherNext
  <2>1. g \in replayLeft[t] /\ Flushing!MarkDirty(g, replay[t].seqs[g])
    BY <1>4 DEF ReplayGroup, Registry!ReplayGroup
  <2>2. /\ replay[t].seqs[g] \in 1..releaseSequences[g]
        /\ releaseSequences[g] \in Nat /\ releaseSequences[g] <= MaxDispatches
    BY <2>1 DEF Registry!SinkCalls, Registry!TypeOK
  <2>3. replay[t].seqs[g] \in 1..MaxDispatches
    BY <2>2, PipelineBounds
  <2> QED BY <2>1, <2>3 DEF Flushing!FlusherNext
<1> QED BY <1>1, <1>2, <1>3, <1>4 DEF Next, RegistryStep, vars

LEMMA RunsFlusher == Spec => Flushing!FlusherSpec
<1>1. Init => Flushing!FlusherInit
  BY DEF Init
<1> QED BY <1>1, FlusherSteps, RegistryFacts, PTL DEF Spec, Flushing!FlusherSpec

LEMMA FlusherFacts == Spec => []Flushing!Inv
<1>1. Flushing!FlusherSpec => [](Flushing!Inv /\ Flushing!PromptInv)
  BY PartsAssume, Flushing!Invariants DEF Flushing!FlusherBounds
<1> QED BY <1>1, RunsFlusher, PTL

-----------------------------------------------------------------------------
\* The flusher holds exactly what the registry has delivered.
Linked == latest = delivered[Flusher]

\* MarkDirty records what Deliver does, also for a sequence it ignores.
LEMMA MarkFollowsDelivery ==
  ASSUME Registry!TypeOK, Flushing!Inv, Linked, NEW g \in Groups, NEW seq \in Nat,
         Registry!Deliver(Flusher, g, seq), Flushing!MarkDirty(g, seq)
  PROVE  Linked'
<1>1. /\ delivered \in [{Flusher} -> [Groups -> Nat]]
      /\ latest \in [Groups -> Nat] /\ acked \in [Groups -> Nat]
      /\ acked[g] <= latest[g]
  BY PipelineBounds
     DEF Registry!TypeOK, Flushing!Inv, Flushing!FlusherTypeOK, Flushing!AcknowledgedIsAccepted
<1>2. /\ delivered' \in [{Flusher} -> [Groups -> Nat]]
      /\ \A h \in Groups : delivered'[Flusher][h] =
           IF h = g THEN Registry!Later(delivered[Flusher][h], seq) ELSE delivered[Flusher][h]
  BY <1>1, PartsAssume, Registry!DeliverRaises
     DEF Registry!BoundsAssumption, Registry!NullsAssumption
<1>3. /\ latest' \in [Groups -> Int]
      /\ \A h \in Groups :
           latest'[h] = IF h = g THEN Registry!Later(latest[h], seq) ELSE latest[h]
  <2>1. CASE seq <= acked[g]
    <3>1. latest' = latest /\ seq <= latest[g]
      BY <1>1, <2>1 DEF Flushing!MarkDirty
    <3> QED BY <1>1, <3>1 DEF Registry!Later
  <2>2. CASE ~(seq <= acked[g])
    <3>1. latest' = [latest EXCEPT ![g] = Flushing!Higher(latest[g], seq)]
      BY <2>2 DEF Flushing!MarkDirty
    <3>2. Flushing!Higher(latest[g], seq) = Registry!Later(latest[g], seq)
      BY DEF Flushing!Higher, Registry!Later
    <3>3. Flushing!Higher(latest[g], seq) \in Int
      BY <1>1 DEF Flushing!Higher
    <3> QED BY <1>1, <3>1, <3>2, <3>3
  <2> QED BY <2>1, <2>2
<1>4. delivered'[Flusher] \in [Groups -> Int]
  BY <1>2
<1> QED BY <1>2, <1>3, <1>4 DEF Linked

LEMMA LinkedStep ==
  Registry!TypeOK /\ Registry!SinkCalls /\ Flushing!Inv /\ Linked /\ [Next]_vars => Linked'
<1> SUFFICES ASSUME Registry!TypeOK, Registry!SinkCalls, Flushing!Inv, Linked, [Next]_vars
             PROVE  Linked'
  OBVIOUS
<1>1. CASE RegistryStep
  <2>1. delivered' = delivered
    BY <1>1, PartsAssume, Registry!OnlyCallsDeliver
       DEF RegistryStep, Registry!BoundsAssumption, Registry!NullsAssumption
  <2> QED BY <1>1, <2>1 DEF RegistryStep, flusherVars, Linked
<1>2. CASE FlusherStep
  <2>1. latest' = latest
    BY <1>2, PartsAssume, Flushing!LoopMoves DEF FlusherStep, Flushing!FlusherBounds
  <2> QED BY <1>2, <2>1 DEF FlusherStep, registryVars, Linked
<1>3. ASSUME NEW id \in Registry!Ids, EndDeliver(id) PROVE Linked'
  <2>1. CASE held[id].sink = Flusher
    <3>1. /\ ending[id] = "marked" /\ Flushing!MarkDirty(group[id], held[id].seq)
          /\ Registry!Deliver(Flusher, group[id], held[id].seq)
      BY <1>3, <2>1 DEF EndDeliver, Registry!EndDeliver, Registry!EndStep
    <3>2. group[id] \in Groups /\ held[id].seq \in Nat
      BY <2>1, <3>1 DEF Registry!SinkCalls, Registry!TypeOK
    <3> QED BY <3>1, <3>2, MarkFollowsDelivery
  <2>2. CASE held[id].sink # Flusher
    BY <1>3, <2>2 DEF EndDeliver, Registry!EndDeliver, flusherVars, Linked
  <2> QED BY <2>1, <2>2
<1>4. ASSUME NEW t \in Setters, NEW g \in Groups, ReplayGroup(t, g) PROVE Linked'
  <2>1. /\ g \in replayLeft[t] /\ Flushing!MarkDirty(g, replay[t].seqs[g])
        /\ Registry!Deliver(replay[t].sink, g, replay[t].seqs[g])
    BY <1>4 DEF ReplayGroup, Registry!ReplayGroup
  <2>2. replay[t].sink = Flusher /\ replay[t].seqs[g] \in Nat
    BY <2>1 DEF Registry!SinkCalls, Registry!TypeOK
  <2> QED BY <2>1, <2>2, MarkFollowsDelivery
<1>5. CASE UNCHANGED vars
  BY <1>5 DEF vars, registryVars, flusherVars, Linked
<1> QED BY <1>1, <1>2, <1>3, <1>4, <1>5 DEF Next

PipelineInv ==
  /\ Registry!TypeOK /\ Registry!NoReleaseWhileOpen /\ Registry!ReleasesCountEnds
  /\ Registry!SinkCalls /\ Flushing!Inv /\ Linked

LEMMA PipelineFacts == Spec => []PipelineInv
<1>1. Init => Linked
  BY DEF Init, Registry!Init, Flushing!FlusherInit, Flushing!Zeros, Linked
<1> QED BY <1>1, LinkedStep, RegistryFacts, FlusherFacts, PTL DEF Spec, PipelineInv

\* Home frees no slot of an execution that is still running or whose resource is
\* open, and the flusher holds what the registry delivered.  (EndWithRelease,
\* SetReleaseSink, MarkDirty, flush)
THEOREM NoRunningSlotIsFreed == Spec => []FreedSlotsAreIdle
<1>1. PipelineInv => FreedSlotsAreIdle
  <2> SUFFICES ASSUME PipelineInv, NEW g \in Groups
               PROVE  /\ home[g] <= Cardinality({id \in Registry!Ids :
                           /\ group[id] = g
                           /\ ending[id] \in {"marked", "delivered", "ended"}
                           /\ resource[id] \in {"none", "closed"}})
                      /\ latest[g] = delivered[Flusher][g]
    BY DEF FreedSlotsAreIdle
  <2> DEFINE Over == {id \in Registry!Ids :
                        /\ group[id] = g
                        /\ ending[id] \in {"marked", "delivered", "ended"}
                        /\ resource[id] \in {"none", "closed"}}
  <2>1. Registry!Released(g) = Over
    BY DEF PipelineInv, Registry!NoReleaseWhileOpen, Registry!CloseFinished, Registry!Released
  <2>2. /\ home[g] <= latest[g] /\ latest[g] = delivered[Flusher][g]
        /\ home[g] \in Nat /\ latest[g] \in Nat
    BY PipelineBounds
       DEF PipelineInv, Linked, Flushing!Inv, Flushing!FlusherTypeOK,
           Flushing!AcknowledgedIsAccepted
  <2>3. /\ delivered[Flusher][g] <= releaseSequences[g]
        /\ releaseSequences[g] = Cardinality(Registry!Released(g))
        /\ releaseSequences[g] \in Nat
    BY DEF PipelineInv, Registry!ReleasesCountEnds, Registry!TypeOK, Cardinality,
       Registry!Cardinality
  <2> QED BY <2>1, <2>2, <2>3
<1> QED BY <1>1, PipelineFacts, PTL

\* What Home accepts of a frame was counted by the registry.
LEMMA FreesWhatEnded ==
  ASSUME PipelineInv, NEW g \in Groups, NEW seq \in 1..MaxDispatches,
         Flushing!HomeAccepts(g, seq), releaseSequences' = releaseSequences
  PROVE  Accounting!Free(g) \/ home' = home
<1>1. /\ home \in [Groups -> Nat] /\ home' = [home EXCEPT ![g] = Flushing!Higher(home[g], seq)]
      /\ seq <= latest[g] /\ seq \in Nat
  BY PipelineBounds
     DEF PipelineInv, Flushing!Inv, Flushing!FlusherTypeOK, Flushing!FramesOK,
         Flushing!HomeAccepts
<1>2. latest[g] <= releaseSequences[g] /\ latest[g] \in Nat /\ releaseSequences[g] \in Nat
  BY DEF PipelineInv, Linked, Registry!ReleasesCountEnds, Registry!TypeOK
<1>3. CASE home[g] >= seq
  BY <1>1, <1>3 DEF Flushing!Higher
<1>4. CASE ~(home[g] >= seq)
  <2>1. home' = [home EXCEPT ![g] = seq]
    BY <1>1, <1>4 DEF Flushing!Higher
  <2>2. seq \in (home[g] + 1)..releaseSequences[g]
    BY <1>1, <1>2, <1>4
  <2> QED BY <2>1, <2>2 DEF Accounting!Free
<1> QED BY <1>3, <1>4

\* Every step of the registry, the flusher and Home ends an execution, frees slots
\* of executions that have ended, or is invisible to the accounting: Home frees no
\* slot twice, none too early, and takes none back.
THEOREM PipelineImplementsAccounting == Spec => ImplementsAccounting
<1>1. Init => Accounting!Init
  BY DEF Init, Registry!Init, Flushing!FlusherInit, Flushing!Zeros, Accounting!Init
<1>2. PipelineInv /\ [Next]_vars => [Accounting!Next]_<<releaseSequences, home>>
  <2> SUFFICES ASSUME PipelineInv, [Next]_vars
               PROVE  Accounting!Next \/ UNCHANGED <<releaseSequences, home>>
    OBVIOUS
  <2>1. CASE RegistryStep
    <3>1. home' = home
      BY <2>1 DEF RegistryStep, flusherVars
    <3>2. \/ releaseSequences' = releaseSequences
          \/ \E g \in Groups : releaseSequences' = [releaseSequences EXCEPT ![g] = @ + 1]
      BY PartsAssume, RegistrySteps, Registry!SequencesMove
         DEF PipelineInv, Registry!BoundsAssumption, Registry!NullsAssumption
    <3> QED BY <3>1, <3>2 DEF Accounting!Next, Accounting!End
  <2>2. CASE FlusherStep
    <3>1. releaseSequences' = releaseSequences
      BY <2>2 DEF FlusherStep, registryVars
    <3>2. \/ home' = home
          \/ \E g \in Groups, seq \in 1..MaxDispatches : Flushing!HomeAccepts(g, seq)
      BY <2>2, PartsAssume, Flushing!LoopMoves DEF FlusherStep, Flushing!FlusherBounds
    <3> QED BY <3>1, <3>2, FreesWhatEnded DEF Accounting!Next
  <2>3. ASSUME NEW id \in Registry!Ids, EndDeliver(id)
        PROVE  UNCHANGED <<releaseSequences, home>>
    BY <2>3 DEF EndDeliver, Registry!EndDeliver, flusherVars, Flushing!MarkDirty,
       Flushing!ackVars
  <2>4. ASSUME NEW t \in Setters, NEW g \in Groups, ReplayGroup(t, g)
        PROVE  UNCHANGED <<releaseSequences, home>>
    BY <2>4 DEF ReplayGroup, Registry!ReplayGroup, Flushing!MarkDirty, Flushing!ackVars
  <2>5. CASE UNCHANGED vars
    BY <2>5 DEF vars, registryVars, flusherVars
  <2> QED BY <2>1, <2>2, <2>3, <2>4, <2>5 DEF Next
<1> QED BY <1>1, <1>2, PipelineFacts, PTL DEF Spec, ImplementsAccounting, Accounting!Spec
=============================================================================
