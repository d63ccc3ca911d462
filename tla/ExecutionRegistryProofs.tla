---------------------- MODULE ExecutionRegistryProofs ----------------------
(* Theorems of the execution registry, for any number of groups, sinks,     *)
(* setters, drainers and dispatches.                                        *)
EXTENDS ExecutionRegistry, FiniteSetTheorems, TLAPS

USE BoundsAssumption, NullsAssumption

(* Giving a sink a sequence never lowers what any sink knows.               *)
LEMMA DeliverRaises ==
  ASSUME delivered \in [Sinks -> [Groups -> Nat]],
         NEW s, NEW g, NEW seq \in Nat, Deliver(s, g, seq)
  PROVE  /\ delivered' \in [Sinks -> [Groups -> Nat]]
         /\ \A u \in Sinks, h \in Groups :
              /\ delivered'[u][h] = IF u = s /\ h = g THEN Later(delivered[u][h], seq)
                                    ELSE delivered[u][h]
              /\ delivered'[u][h] >= delivered[u][h]
         /\ s \in Sinks /\ g \in Groups => delivered'[s][g] >= seq
<1>1. \A u \in Sinks, h \in Groups : Later(delivered[u][h], seq) \in Nat
  BY DEF Later
<1>2. delivered' = [u \in Sinks |-> IF u = s THEN [delivered[s] EXCEPT ![g] = Later(@, seq)]
                                            ELSE delivered[u]]
  BY DEF Deliver
<1>3. ASSUME NEW u \in Sinks PROVE
        delivered'[u] = [h \in Groups |-> IF u = s /\ h = g THEN Later(delivered[u][h], seq)
                                         ELSE delivered[u][h]]
  BY <1>2
<1> HIDE DEF Later
<1>4. \A u \in Sinks, h \in Groups :
         delivered'[u][h] = IF u = s /\ h = g THEN Later(delivered[u][h], seq)
                            ELSE delivered[u][h]
  BY <1>3
<1>5. delivered' \in [Sinks -> [Groups -> Nat]]
  <2>1. ASSUME NEW u \in Sinks PROVE delivered'[u] \in [Groups -> Nat]
    <3>1. \A h \in Groups : (IF u = s /\ h = g THEN Later(delivered[u][h], seq)
                            ELSE delivered[u][h]) \in Nat
      BY <1>1
    <3> QED BY <1>3, <3>1
  <2>2. delivered' = [u \in Sinks |-> delivered'[u]]
    BY <1>2
  <2> QED BY <2>1, <2>2
<1>6. \A u \in Sinks, h \in Groups : delivered'[u][h] >= delivered[u][h]
  BY <1>4 DEF Later
<1>7. s \in Sinks /\ g \in Groups => delivered'[s][g] >= seq
  BY <1>4 DEF Later
<1> QED BY <1>4, <1>5, <1>6, <1>7

(* The steps that change how far a scope's end has gone, or its resource.   *)
LEMMA ScopeFrame ==
  ASSUME [Next]_vars
  PROVE  \/ \E id \in Ids : \/ Bind(id) \/ ResourceClosed(id) \/ EndMarkReleased(id)
                           \/ EndDeactivate(id) \/ EndDeliver(id) \/ EndRemove(id)
                           \/ /\ StartClose(id)
                              /\ ending' = ending \/ EndStep(id, "deactivated", "closing")
         \/ UNCHANGED <<ending, resource>>
<1> USE DEF scopeVars
<1>1. CASE BeginDispatchCheck \/ BeginDispatch
  BY <1>1 DEF BeginDispatchCheck, BeginDispatch
<1>2. ASSUME NEW id \in Ids, Dispatch(id), ~Bind(id)
      PROVE  UNCHANGED <<ending, resource>>
  BY <1>2 DEF Dispatch, EndPending, InstallRejected, InstallCheck, Install, BindCheck
<1>3. ASSUME NEW id \in Ids, EndStartClose(id)
      PROVE  StartClose(id) /\ EndStep(id, "deactivated", "closing")
  BY <1>3 DEF EndStartClose
<1>4. ASSUME NEW t \in Setters, NEW s, NEW g, SetReleaseSink(t, s) \/ ReplayGroup(t, g)
      PROVE  UNCHANGED <<ending, resource>>
  BY <1>4 DEF SetReleaseSink, ReplayGroup
<1>5. ASSUME NEW d \in Drainers, Drain(d)
      PROVE  \/ UNCHANGED <<ending, resource>>
             \/ \E id \in Ids : StartClose(id) /\ ending' = ending
  BY <1>5 DEF Drain, DrainStart, DrainSnapshot, DrainStartClose, DrainSleep, DrainFinish,
              DrainExpired
<1>6. ASSUME Close
      PROVE  \/ UNCHANGED <<ending, resource>>
             \/ \E id \in Ids : StartClose(id) /\ ending' = ending
  BY <1>6 DEF Close, CloseStart, CloseSwap, CloseSnapshot, CloseNext, CloseWaited, CloseFinish
<1>7. ASSUME NEW revision, ObserveBarrier(revision) \/ FreezeInFlight
      PROVE  UNCHANGED <<ending, resource>>
  BY <1>7 DEF ObserveBarrier, FreezeInFlight
<1>8. CASE UNCHANGED vars
  BY <1>8 DEF vars
<1> QED
  BY <1>1, <1>2, <1>3, <1>4, <1>5, <1>6, <1>7, <1>8 DEF Next, NextQuiet, EndStepQuiet

(* The state keeps its shape, and what the holder of the mutex has checked  *)
(* stays true until it acts: nobody else takes the id out of the pending    *)
(* map, ends the scope or binds another resource.  The two are inductive    *)
(* only together: Install moves an id it knows to be pending.               *)
THEOREM TypesAndMutex == Spec => [](TypeOK /\ MutexOK)
<1>1. Init => TypeOK /\ MutexOK
  BY DEF Init, TypeOK, MutexOK, Ids, Idle, DrainStates
<1>2. TypeOK /\ MutexOK /\ [Next]_vars => TypeOK' /\ MutexOK'
  <2> SUFFICES ASSUME TypeOK, MutexOK, [Next]_vars PROVE TypeOK' /\ MutexOK'
    OBVIOUS
  <2> USE DEF TypeOK, MutexOK, Active, Ids, Idle, Free, Enter, Leave, Holds, Signal,
              DrainStates, scopeVars, lifecycleVars, releaseVars, barrierVars
  <2>1. CASE BeginDispatchCheck
    BY <2>1, SMTT(60) DEF BeginDispatchCheck
  <2>2. CASE BeginDispatch
    <3>1. next' \in 0..MaxDispatches
      BY <2>2, SMTT(60) DEF BeginDispatch
    <3>2. TypeOK'
      BY <2>2, <3>1, SMTT(60) DEF BeginDispatch
    <3>3. MutexOK'
      BY <2>2, SMTT(60) DEF BeginDispatch
    <3> QED BY <3>2, <3>3
  <2>3. ASSUME NEW id \in Ids, EndPending(id)
       PROVE  TypeOK' /\ MutexOK'
    BY <2>3, SMTT(60) DEF EndPending
  <2>4. ASSUME NEW id \in Ids, InstallRejected(id)
       PROVE  TypeOK' /\ MutexOK'
    BY <2>4, SMTT(60) DEF InstallRejected, EndPending
  <2>5. ASSUME NEW id \in Ids, InstallCheck(id)
       PROVE  TypeOK' /\ MutexOK'
    BY <2>5, SMTT(60) DEF InstallCheck
  <2>6. ASSUME NEW id \in Ids, NEW g \in Groups \cup {Unaccounted}, Install(id, g)
       PROVE  TypeOK' /\ MutexOK'
    BY <2>6, SMTT(60) DEF Install
  <2>7. ASSUME NEW id \in Ids, BindCheck(id)
       PROVE  TypeOK' /\ MutexOK'
    BY <2>7, SMTT(60) DEF BindCheck
  <2>8. ASSUME NEW id \in Ids, Bind(id)
       PROVE  TypeOK' /\ MutexOK'
    BY <2>8, SMTT(60) DEF Bind
  <2>9. ASSUME NEW id \in Ids, EndDeactivate(id)
       PROVE  TypeOK' /\ MutexOK'
    BY <2>9, SMTT(60) DEF EndDeactivate, EndStep
  <2>10. ASSUME NEW id \in Ids, EndStartClose(id)
       PROVE  TypeOK' /\ MutexOK'
    <3>1. TypeOK'
      BY <2>10, SMTT(60) DEF EndStartClose, EndStep, StartClose
    <3>2. MutexOK'
      BY <2>10, SMTT(60) DEF EndStartClose, EndStep, StartClose
    <3> QED BY <3>1, <3>2
  <2>11. ASSUME NEW id \in Ids, EndMarkReleased(id)
       PROVE  TypeOK' /\ MutexOK'
    <3>1. releaseSequences' \in [Groups -> Nat]
          /\ held' \in [Ids -> [sink : Sinks \cup {NoSink}, seq : Nat]]
      <4>1. CASE group[id] \in Groups
        <5> DEFINE seq == releaseSequences[group[id]] + 1
        <5>1. seq \in Nat
          BY <4>1
        <5>2. /\ releaseSequences' = [releaseSequences EXCEPT ![group[id]] = seq]
              /\ held' = [held EXCEPT ![id] = [sink |-> releaseSink, seq |-> seq]]
          BY <2>11, <4>1 DEF EndMarkReleased
        <5> HIDE DEF seq
        <5> QED BY <5>1, <5>2
      <4>2. CASE group[id] \notin Groups
        BY <2>11, <4>2 DEF EndMarkReleased
      <4> QED BY <4>1, <4>2
    <3>3. ending' \in [Ids -> {"open", "deactivated", "closing", "marked",
                              "delivered", "ended"}]
      BY <2>11, SMTT(60) DEF EndMarkReleased, EndStep
    <3>4. UNCHANGED <<critical, next, pending, scopes, group, resource, lifecycleVars,
                      releaseSink, delivered, replay, replayLeft, barrierVars>>
      BY <2>11 DEF EndMarkReleased
    <3>5. MutexOK'
      BY <2>11, <3>4 DEF EndMarkReleased
    <3> HIDE DEF MutexOK
    <3>6. TypeOK'
      BY <3>1, <3>3, <3>4
    <3> QED BY <3>5, <3>6
  <2>12. ASSUME NEW id \in Ids, EndDeliver(id)
       PROVE  TypeOK' /\ MutexOK'
    <3>1. delivered' \in [Sinks -> [Groups -> Nat]]
      BY <2>12, DeliverRaises DEF EndDeliver
    <3>2. UNCHANGED <<critical, next, pending, scopes, group, resource, lifecycleVars,
                      releaseSequences, releaseSink, held, replay, replayLeft, barrierVars>>
      BY <2>12 DEF EndDeliver
    <3>3. ending' \in [Ids -> {"open", "deactivated", "closing", "marked",
                              "delivered", "ended"}]
          /\ \A i \in Ids : ending[i] = "open" => ending'[i] = "open"
      BY <2>12 DEF EndDeliver, EndStep
    <3>4. MutexOK'
      BY <3>2, <3>3
    <3> HIDE DEF MutexOK
    <3>5. TypeOK'
      BY <3>1, <3>2, <3>3
    <3> QED BY <3>4, <3>5
  <2>13. ASSUME NEW id \in Ids, EndRemove(id)
       PROVE  TypeOK' /\ MutexOK'
    BY <2>13, SMTT(60) DEF EndRemove, EndStep
  <2>14. ASSUME NEW id \in Ids, ResourceClosed(id)
       PROVE  TypeOK' /\ MutexOK'
    BY <2>14, SMTT(60) DEF ResourceClosed
  <2>15. ASSUME NEW t \in Setters, NEW s \in Sinks \cup {NoSink}, SetReleaseSink(t, s)
       PROVE  TypeOK' /\ MutexOK'
    BY <2>15, SMTT(60) DEF SetReleaseSink
  <2>16. ASSUME NEW t \in Setters, NEW g \in Groups, ReplayGroup(t, g)
       PROVE  TypeOK' /\ MutexOK'
    <3>1. delivered' \in [Sinks -> [Groups -> Nat]]
      BY <2>16, DeliverRaises DEF ReplayGroup
    <3> QED
      BY <2>16, <3>1, SMTT(60) DEF ReplayGroup
  <2>17. ASSUME NEW d \in Drainers, DrainStart(d)
       PROVE  TypeOK' /\ MutexOK'
    BY <2>17, SMTT(60) DEF DrainStart
  <2>18. ASSUME NEW d \in Drainers, DrainSnapshot(d)
       PROVE  TypeOK' /\ MutexOK'
    BY <2>18, SMTT(60) DEF DrainSnapshot
  <2>19. ASSUME NEW d \in Drainers, NEW id \in Ids, DrainStartClose(d, id)
       PROVE  TypeOK' /\ MutexOK'
    BY <2>19, SMTT(60) DEF DrainStartClose, StartClose
  <2>20. ASSUME NEW d \in Drainers, DrainSleep(d)
       PROVE  TypeOK' /\ MutexOK'
    BY <2>20, SMTT(60) DEF DrainSleep, DrainChecks
  <2>21. ASSUME NEW d \in Drainers, DrainFinish(d)
       PROVE  TypeOK' /\ MutexOK'
    BY <2>21, SMTT(60) DEF DrainFinish, DrainChecks
  <2>22. ASSUME NEW d \in Drainers, DrainExpired(d)
       PROVE  TypeOK' /\ MutexOK'
    BY <2>22, SMTT(60) DEF DrainExpired
  <2>23. CASE CloseStart
    BY <2>23, SMTT(60) DEF CloseStart
  <2>24. CASE CloseSwap
    BY <2>24, SMTT(60) DEF CloseSwap
  <2>25. CASE CloseSnapshot
    BY <2>25, SMTT(60) DEF CloseSnapshot
  <2>26. ASSUME NEW id \in Ids, CloseNext(id)
       PROVE  TypeOK' /\ MutexOK'
    BY <2>26, SMTT(60) DEF CloseNext, StartClose
  <2>27. CASE CloseWaited
    BY <2>27, SMTT(60) DEF CloseWaited
  <2>28. CASE CloseFinish
    BY <2>28, SMTT(60) DEF CloseFinish
  <2>29. ASSUME NEW revision \in 1..MaxBarrier, ObserveBarrier(revision)
       PROVE  TypeOK' /\ MutexOK'
    BY <2>29, SMTT(60) DEF ObserveBarrier
  <2>30. CASE FreezeInFlight
    BY <2>30, SMTT(60) DEF FreezeInFlight
  <2>31. CASE UNCHANGED vars
    BY <2>31, SMTT(60) DEF vars
  <2> QED
    BY <2>1, <2>2, <2>3, <2>4, <2>5, <2>6, <2>7, <2>8, <2>9, <2>10, <2>11,
       <2>12, <2>13, <2>14, <2>15, <2>16, <2>17, <2>18, <2>19, <2>20, <2>21,
       <2>22, <2>23, <2>24, <2>25, <2>26, <2>27, <2>28, <2>29, <2>30, <2>31
    DEF Next, NextQuiet, Dispatch, EndStepQuiet, Drain, Close
<1> QED BY <1>1, <1>2, PTL DEF Spec

(* The registry's state keeps its shape.                                    *)
THEOREM TypeCorrect == Spec => []TypeOK
BY TypesAndMutex, PTL

-----------------------------------------------------------------------------
(* A scope's release is counted only after its resource is closed, and      *)
(* nothing is bound to it afterwards.                                       *)
THEOREM ReleasedAreClosed == Spec => []NoReleaseWhileOpen
<1>1. Init => NoReleaseWhileOpen
  BY DEF Init, NoReleaseWhileOpen
<1>2. TypeOK /\ MutexOK /\ NoReleaseWhileOpen /\ [Next]_vars => NoReleaseWhileOpen'
  <2> SUFFICES ASSUME TypeOK, MutexOK, NoReleaseWhileOpen, [Next]_vars,
                      NEW i \in Ids,
                      ending'[i] \in {"marked", "delivered", "ended"}
               PROVE  CloseFinished(i)'
    BY DEF NoReleaseWhileOpen
  <2> USE DEF NoReleaseWhileOpen, CloseFinished
  <2>0. ending \in [Ids -> {"open", "deactivated", "closing", "marked",
                           "delivered", "ended"}]
        /\ resource \in [Ids -> {"none", "bound", "closing", "closed"}]
    BY DEF TypeOK
  <2>1. ASSUME NEW id \in Ids, Bind(id) PROVE CloseFinished(i)'
    \* MutexOK: the scope is still active, so it is not the released one.
    BY <2>0, <2>1 DEF Bind, Holds, MutexOK, Active
  <2>2. ASSUME NEW id \in Ids, StartClose(id),
               ending' = ending \/ EndStep(id, "deactivated", "closing")
        PROVE  CloseFinished(i)'
    BY <2>0, <2>2 DEF StartClose, EndStep
  <2>3. ASSUME NEW id \in Ids, ResourceClosed(id) PROVE CloseFinished(i)'
    BY <2>0, <2>3 DEF ResourceClosed
  <2>4. ASSUME NEW id \in Ids, EndMarkReleased(id) PROVE CloseFinished(i)'
    BY <2>0, <2>4 DEF EndMarkReleased, EndStep
  <2>5. ASSUME NEW id \in Ids,
               EndDeactivate(id) \/ EndDeliver(id) \/ EndRemove(id)
        PROVE  CloseFinished(i)'
    BY <2>0, <2>5 DEF EndDeactivate, EndDeliver, EndRemove, EndStep
  <2>6. CASE UNCHANGED <<ending, resource>>
    BY <2>6
  <2>7. \/ \E id \in Ids : \/ Bind(id) \/ ResourceClosed(id) \/ EndMarkReleased(id)
                          \/ EndDeactivate(id) \/ EndDeliver(id) \/ EndRemove(id)
                          \/ /\ StartClose(id)
                             /\ ending' = ending \/ EndStep(id, "deactivated", "closing")
        \/ UNCHANGED <<ending, resource>>
    BY ScopeFrame
  <2> QED BY <2>1, <2>2, <2>3, <2>4, <2>5, <2>6, <2>7
<1> QED BY <1>1, <1>2, TypesAndMutex, PTL DEF Spec

-----------------------------------------------------------------------------
Drained == \E d \in Drainers : drain[d] = "drained"

(* A closed registry with nothing in flight stays so.                       *)
LEMMA ClosedEmptyStays ==
  ASSUME state = "Closed", critical = Idle, pending = {}, scopes = {}, [Next]_vars
  PROVE  (state = "Closed" /\ critical = Idle /\ pending = {} /\ scopes = {})'
<1> USE DEF scopeVars, lifecycleVars, Idle, Holds
<1>1. ~BeginDispatchCheck /\ ~BeginDispatch
  BY DEF BeginDispatchCheck, BeginDispatch
<1>2. ASSUME NEW id \in Ids PROVE ~Dispatch(id)
  BY DEF Dispatch, EndPending, InstallRejected, InstallCheck, Install, BindCheck, Bind
<1>3. ASSUME NEW id \in Ids, EndStepQuiet(id) \/ EndDeliver(id) \/ ResourceClosed(id)
      PROVE  (state = "Closed" /\ critical = Idle /\ pending = {} /\ scopes = {})'
  BY <1>3 DEF EndStepQuiet, EndDeactivate, EndStartClose, EndMarkReleased, EndDeliver,
              EndRemove, ResourceClosed
<1>4. ASSUME NEW t \in Setters, NEW s, NEW g, SetReleaseSink(t, s) \/ ReplayGroup(t, g)
      PROVE  (state = "Closed" /\ critical = Idle /\ pending = {} /\ scopes = {})'
  BY <1>4 DEF SetReleaseSink, ReplayGroup
<1>5. ASSUME NEW d \in Drainers, Drain(d)
      PROVE  (state = "Closed" /\ critical = Idle /\ pending = {} /\ scopes = {})'
  BY <1>5 DEF Drain, DrainStart, DrainSnapshot, DrainStartClose, DrainSleep, DrainFinish,
              DrainExpired
<1>6. ASSUME Close
      PROVE  (state = "Closed" /\ critical = Idle /\ pending = {} /\ scopes = {})'
  BY <1>6 DEF Close, CloseStart, CloseSwap, CloseSnapshot, CloseNext, CloseWaited, CloseFinish
<1>7. ASSUME NEW revision, ObserveBarrier(revision) \/ FreezeInFlight
      PROVE  (state = "Closed" /\ critical = Idle /\ pending = {} /\ scopes = {})'
  BY <1>7 DEF ObserveBarrier, FreezeInFlight
<1>8. CASE UNCHANGED vars
  BY <1>8 DEF vars
<1> QED BY <1>1, <1>2, <1>3, <1>4, <1>5, <1>6, <1>7, <1>8 DEF Next, NextQuiet

(* Only DrainFinish makes a Drain succeed, and a Drain that has stays so.   *)
LEMMA DrainedOnlyByFinish ==
  ASSUME TypeOK, [Next]_vars, Drained', \A d \in Drainers : ~DrainFinish(d)
  PROVE  Drained
<1> USE DEF scopeVars, lifecycleVars, Drained, Signal
<1>0. drain \in [Drainers -> DrainStates]
  BY DEF TypeOK
<1>1. CASE BeginDispatchCheck \/ BeginDispatch
  BY <1>1 DEF BeginDispatchCheck, BeginDispatch
<1>2. ASSUME NEW id \in Ids, Dispatch(id) PROVE Drained
  BY <1>0, <1>2 DEF Dispatch, EndPending, InstallRejected, InstallCheck, Install, BindCheck, Bind
<1>3. ASSUME NEW id \in Ids, EndStepQuiet(id) \/ EndDeliver(id) \/ ResourceClosed(id) PROVE Drained
  BY <1>0, <1>3 DEF EndStepQuiet, EndDeactivate, EndStartClose, EndMarkReleased, EndDeliver,
                    EndRemove, ResourceClosed
<1>4. ASSUME NEW t \in Setters, NEW s, NEW g, SetReleaseSink(t, s) \/ ReplayGroup(t, g)
      PROVE  Drained
  BY <1>4 DEF SetReleaseSink, ReplayGroup
<1>5. ASSUME NEW d \in Drainers, Drain(d) PROVE Drained
  BY <1>0, <1>5 DEF Drain, DrainStart, DrainSnapshot, DrainStartClose, DrainSleep, DrainExpired
<1>6. ASSUME Close PROVE Drained
  BY <1>6 DEF Close, CloseStart, CloseSwap, CloseSnapshot, CloseNext, CloseWaited, CloseFinish
<1>7. ASSUME NEW revision, ObserveBarrier(revision) \/ FreezeInFlight PROVE Drained
  BY <1>7 DEF ObserveBarrier, FreezeInFlight
<1>8. CASE UNCHANGED vars
  BY <1>8 DEF vars
<1> QED BY <1>1, <1>2, <1>3, <1>4, <1>5, <1>6, <1>7, <1>8 DEF Next, NextQuiet

(* The inductive form of DrainedStaysEmpty: after a successful Drain the     *)
(* registry is closed for ever and nobody is inside a two-step section.      *)
DrainedInv ==
  Drained => state = "Closed" /\ Free /\ pending = {} /\ scopes = {}

(* Nothing is in flight, and nothing will be, once a Drain has succeeded.   *)
THEOREM DrainIsFinal == Spec => []DrainedStaysEmpty
<1>1. Init => DrainedInv
  BY DEF Init, DrainedInv, Drained
<1>2. TypeOK /\ DrainedInv /\ [Next]_vars => DrainedInv'
  <2> SUFFICES ASSUME TypeOK, DrainedInv, [Next]_vars, Drained'
               PROVE  (state = "Closed" /\ Free /\ pending = {} /\ scopes = {})'
    BY DEF DrainedInv
  <2>1. ASSUME NEW d \in Drainers, DrainFinish(d)
        PROVE  (state = "Closed" /\ Free /\ pending = {} /\ scopes = {})'
    BY <2>1 DEF DrainFinish, DrainChecks, Free, scopeVars
  <2>2. CASE Drained
    <3>1. state = "Closed" /\ critical = Idle /\ pending = {} /\ scopes = {}
      BY <2>2 DEF DrainedInv, Free
    <3> QED BY <3>1, ClosedEmptyStays DEF Free
  <2>3. (\A d \in Drainers : ~DrainFinish(d)) => Drained
    BY DrainedOnlyByFinish
  <2> QED BY <2>1, <2>2, <2>3
<1>3. DrainedInv => DrainedStaysEmpty
  BY DEF DrainedInv, DrainedStaysEmpty, Drained
<1> QED BY <1>1, <1>2, <1>3, TypesAndMutex, PTL DEF Spec

-----------------------------------------------------------------------------
(* What has gone out to a sink, or is on its way there: never more than was *)
(* counted, and to the current sink at least what was.  Fresh says that an  *)
(* id is installed once, before its scope can end.                          *)
Fresh == \A id \in Ids :
  /\ id > next \/ id \in pending => group[id] = NotInstalled
  /\ group[id] = NotInstalled => ending[id] = "open"

Counted == \A g \in Groups : releaseSequences[g] = Cardinality(Released(g))

Marked(id, g) == group[id] = g /\ ending[id] = "marked"

NotAhead == \A g \in Groups :
  /\ \A s \in Sinks : delivered[s][g] <= releaseSequences[g]
  /\ \A t \in Setters : replay[t].seqs[g] <= releaseSequences[g]
  /\ \A id \in Ids : Marked(id, g) => held[id].seq <= releaseSequences[g]

OnItsWay(g) ==
  \/ \E t \in Setters : /\ replay[t].sink = releaseSink /\ g \in replayLeft[t]
                        /\ replay[t].seqs[g] = releaseSequences[g]
  \/ \E id \in Ids : /\ Marked(id, g) /\ held[id].sink = releaseSink
                     /\ held[id].seq = releaseSequences[g]

Informed == \A g \in Groups :
  releaseSink \in Sinks => delivered[releaseSink][g] = releaseSequences[g] \/ OnItsWay(g)

(* The steps that install or end a scope, or concern the sinks.              *)
LEMMA ReleaseFrame ==
  ASSUME [Next]_vars
  PROVE  \/ \E id \in Ids : \/ \E g \in Groups \cup {Unaccounted} : Install(id, g)
                           \/ EndDeactivate(id) \/ EndStartClose(id) \/ EndMarkReleased(id)
                           \/ EndDeliver(id) \/ EndRemove(id)
         \/ \E t \in Setters, s \in Sinks \cup {NoSink} : SetReleaseSink(t, s)
         \/ \E t \in Setters, g \in Groups : ReplayGroup(t, g)
         \/ BeginDispatch
         \/ UNCHANGED <<group, ending, releaseVars, next>> /\ pending' \subseteq pending
<1> USE DEF scopeVars, lifecycleVars
<1>1. CASE BeginDispatchCheck
  BY <1>1 DEF BeginDispatchCheck
<1>2. ASSUME NEW id \in Ids,
             EndPending(id) \/ InstallRejected(id) \/ InstallCheck(id) \/ BindCheck(id) \/ Bind(id)
                \/ ResourceClosed(id)
      PROVE  UNCHANGED <<group, ending, releaseVars, next>> /\ pending' \subseteq pending
  BY <1>2 DEF EndPending, InstallRejected, InstallCheck, BindCheck, Bind, ResourceClosed
<1>3. ASSUME NEW d \in Drainers, Drain(d)
      PROVE  UNCHANGED <<group, ending, releaseVars, next>> /\ pending' \subseteq pending
  BY <1>3 DEF Drain, DrainStart, DrainSnapshot, DrainStartClose, DrainSleep, DrainFinish,
              DrainExpired
<1>4. ASSUME Close
      PROVE  UNCHANGED <<group, ending, releaseVars, next>> /\ pending' \subseteq pending
  BY <1>4 DEF Close, CloseStart, CloseSwap, CloseSnapshot, CloseNext, CloseWaited, CloseFinish
<1>5. ASSUME NEW revision, ObserveBarrier(revision) \/ FreezeInFlight
      PROVE  UNCHANGED <<group, ending, releaseVars, next>> /\ pending' \subseteq pending
  BY <1>5 DEF ObserveBarrier, FreezeInFlight
<1>6. CASE UNCHANGED vars
  BY <1>6 DEF vars
<1> QED
  BY <1>1, <1>2, <1>3, <1>4, <1>5, <1>6 DEF Next, NextQuiet, EndStepQuiet, Dispatch

LEMMA FreshStep == TypeOK /\ MutexOK /\ Fresh /\ [Next]_vars => Fresh'
<1> SUFFICES ASSUME TypeOK, MutexOK, Fresh, [Next]_vars PROVE Fresh'
  OBVIOUS
<1> USE DEF Fresh
<1>0. /\ next \in 0..MaxDispatches /\ pending \subseteq 1..next
      /\ group \in [Ids -> Groups \cup {Unaccounted, NotInstalled}]
      /\ ending \in [Ids -> {"open", "deactivated", "closing", "marked", "delivered", "ended"}]
  BY DEF TypeOK
<1>1. ASSUME NEW id \in Ids, NEW g \in Groups \cup {Unaccounted}, Install(id, g)
      PROVE  Fresh'
  <2>1. id \in pending
    BY <1>1 DEF Install, Holds, MutexOK
  <2> QED
    BY <1>0, <1>1, <2>1 DEF Install, Ids
<1>2. ASSUME NEW id \in Ids,
             \/ EndDeactivate(id) \/ EndStartClose(id) \/ EndMarkReleased(id)
             \/ EndDeliver(id) \/ EndRemove(id)
      PROVE  Fresh'
  <2>1. /\ UNCHANGED <<next, group>> /\ pending' = pending
        /\ group[id] # NotInstalled \/ ending[id] # "open"
        /\ \E to : ending' = [ending EXCEPT ![id] = to]
    BY <1>2 DEF EndDeactivate, EndStartClose, EndMarkReleased, EndDeliver, EndRemove,
              EndStep
  <2> QED
    BY <1>0, <2>1
<1>3. ASSUME NEW t \in Setters, NEW s, NEW g, SetReleaseSink(t, s) \/ ReplayGroup(t, g)
      PROVE  Fresh'
  BY <1>3 DEF SetReleaseSink, ReplayGroup, scopeVars
<1>4. CASE BeginDispatch
  BY <1>0, <1>4 DEF BeginDispatch, Ids
<1>5. CASE UNCHANGED <<group, ending, releaseVars, next>> /\ pending' \subseteq pending
  BY <1>5
<1> QED
  BY <1>1, <1>2, <1>3, <1>4, <1>5, ReleaseFrame

LEMMA CountedStep == TypeOK /\ MutexOK /\ Fresh /\ Counted /\ [Next]_vars => Counted'
<1> SUFFICES ASSUME TypeOK, MutexOK, Fresh, Counted, [Next]_vars, NEW g \in Groups
             PROVE  releaseSequences'[g] = Cardinality(Released(g)')
  BY DEF Counted
<1>0. /\ group \in [Ids -> Groups \cup {Unaccounted, NotInstalled}]
      /\ ending \in [Ids -> {"open", "deactivated", "closing", "marked", "delivered", "ended"}]
      /\ releaseSequences \in [Groups -> Nat]
      /\ releaseSequences[g] = Cardinality(Released(g))
  BY DEF TypeOK, Counted
<1>00. IsFiniteSet(Released(g))
  <2>1. IsFiniteSet(Ids)
    BY FS_Interval DEF Ids
  <2>2. Released(g) \in SUBSET Ids
    BY DEF Released
  <2> QED
    BY <2>1, <2>2, FS_Subset
<1>1. ASSUME NEW id \in Ids, NEW h \in Groups \cup {Unaccounted}, Install(id, h)
      PROVE  UNCHANGED <<releaseSequences, Released(g)>>
  <2>1. ending[id] = "open"
    BY <1>1 DEF Install, Holds, MutexOK, Fresh
  <2> QED
    BY <1>0, <1>1, <2>1 DEF Install, Released, releaseVars
<1>2. ASSUME NEW id \in Ids,
             EndDeactivate(id) \/ EndStartClose(id) \/ EndDeliver(id) \/ EndRemove(id)
      PROVE  UNCHANGED <<releaseSequences, Released(g)>>
  <2>1. /\ UNCHANGED <<group, releaseSequences>>
        /\ \/ EndStep(id, "open", "deactivated") \/ EndStep(id, "deactivated", "closing")
           \/ EndStep(id, "marked", "delivered") \/ EndStep(id, "delivered", "ended")
    BY <1>2 DEF EndDeactivate, EndStartClose, EndDeliver, EndRemove, releaseVars
  <2> QED
    BY <1>0, <2>1 DEF EndStep, Released
<1>3. ASSUME NEW id \in Ids, EndMarkReleased(id)
      PROVE  releaseSequences'[g] = Cardinality(Released(g)')
  <2>1. /\ group' = group
        /\ ending[id] = "closing" /\ ending' = [ending EXCEPT ![id] = "marked"]
    BY <1>3 DEF EndMarkReleased, EndStep
  <2>2. CASE group[id] = g
    <3>1. Released(g)' = Released(g) \cup {id} /\ id \notin Released(g)
      BY <1>0, <2>1, <2>2 DEF Released
    <3>2. releaseSequences'[g] = releaseSequences[g] + 1
      BY <1>0, <1>3, <2>2 DEF EndMarkReleased
    <3> QED
      BY <1>0, <1>00, <3>1, <3>2, FS_AddElement
  <2>3. CASE group[id] # g
    <3>1. Released(g)' = Released(g)
      BY <1>0, <2>1, <2>3 DEF Released
    <3>2. releaseSequences'[g] = releaseSequences[g]
      BY <1>0, <1>3, <2>3 DEF EndMarkReleased
    <3> QED
      BY <1>0, <3>1, <3>2
  <2> QED
    BY <2>2, <2>3
<1>4. ASSUME NEW t \in Setters, NEW s, NEW h, SetReleaseSink(t, s) \/ ReplayGroup(t, h)
      PROVE  UNCHANGED <<releaseSequences, Released(g)>>
  BY <1>4 DEF SetReleaseSink, ReplayGroup, scopeVars, Released
<1>5. CASE BeginDispatch
  BY <1>0, <1>5 DEF BeginDispatch, releaseVars, Released
<1>6. CASE UNCHANGED <<group, ending, releaseVars, next>>
  BY <1>0, <1>6 DEF releaseVars, Released
<1> QED
  BY <1>0, <1>1, <1>2, <1>3, <1>4, <1>5, <1>6, ReleaseFrame

LEMMA NotAheadStep == TypeOK /\ MutexOK /\ Fresh /\ NotAhead /\ [Next]_vars => NotAhead'
<1> SUFFICES ASSUME TypeOK, MutexOK, Fresh, NotAhead, [Next]_vars
             PROVE  NotAhead'
  OBVIOUS
<1> USE DEF NotAhead, Marked
<1>0. /\ group \in [Ids -> Groups \cup {Unaccounted, NotInstalled}]
      /\ ending \in [Ids -> {"open", "deactivated", "closing", "marked", "delivered", "ended"}]
      /\ releaseSequences \in [Groups -> Nat]
      /\ delivered \in [Sinks -> [Groups -> Nat]]
      /\ held \in [Ids -> [sink : Sinks \cup {NoSink}, seq : Nat]]
      /\ replay \in [Setters -> [pc : {"idle", "called"}, sink : Sinks \cup {NoSink},
                                 seqs : [Groups -> Nat]]]
      /\ replayLeft \in [Setters -> SUBSET Groups]
  BY DEF TypeOK
<1>1. ASSUME NEW id \in Ids, NEW h \in Groups \cup {Unaccounted}, Install(id, h)
      PROVE  NotAhead'
  <2>1. ending[id] = "open"
    BY <1>1 DEF Install, Holds, MutexOK, Fresh
  <2> QED
    BY <1>0, <1>1, <2>1 DEF Install, releaseVars
<1>2. ASSUME NEW id \in Ids, EndDeactivate(id) \/ EndStartClose(id) \/ EndRemove(id)
      PROVE  NotAhead'
  <2>1. /\ UNCHANGED <<group, releaseVars>>
        /\ \/ EndStep(id, "open", "deactivated") \/ EndStep(id, "deactivated", "closing")
           \/ EndStep(id, "delivered", "ended")
    BY <1>2 DEF EndDeactivate, EndStartClose, EndRemove
  <2> QED
    BY <1>0, <2>1 DEF EndStep, releaseVars
<1>3. ASSUME NEW id \in Ids, EndMarkReleased(id) PROVE NotAhead'
  <2>1. UNCHANGED <<group, delivered, replay>>
        /\ ending[id] = "closing" /\ ending' = [ending EXCEPT ![id] = "marked"]
    BY <1>3 DEF EndMarkReleased, EndStep
  <2>2. CASE group[id] \in Groups
    <3> DEFINE seq == releaseSequences[group[id]] + 1
    <3>1. /\ releaseSequences' = [releaseSequences EXCEPT ![group[id]] = seq]
          /\ held' = [held EXCEPT ![id] = [sink |-> releaseSink, seq |-> seq]]
          /\ seq \in Nat
      BY <1>0, <1>3, <2>2 DEF EndMarkReleased
    <3> HIDE DEF seq
    <3>2. \A g \in Groups : releaseSequences'[g] = IF g = group[id] THEN seq
                                                   ELSE releaseSequences[g]
      BY <1>0, <3>1
    <3>3. held'[id].seq = seq /\ \A i \in Ids \ {id} : held'[i] = held[i]
      BY <1>0, <3>1
    <3>4. \A g \in Groups : releaseSequences'[g] \in Nat /\ releaseSequences'[g] >= releaseSequences[g]
      BY <1>0, <3>1, <3>2 DEF seq
    <3>5. \A g \in Groups : /\ \A s \in Sinks : delivered[s][g] \in Nat
                            /\ \A t \in Setters : replay[t].seqs[g] \in Nat
      BY <1>0
    <3>6. \A i \in Ids : held[i].seq \in Nat
      BY <1>0
    <3>7. \A g \in Groups : /\ \A s \in Sinks : delivered'[s][g] <= releaseSequences'[g]
                            /\ \A t \in Setters : replay'[t].seqs[g] <= releaseSequences'[g]
      BY <1>0, <2>1, <3>4, <3>5
    <3>8. ASSUME NEW g \in Groups, NEW i \in Ids, Marked(i, g)'
          PROVE  held'[i].seq <= releaseSequences'[g]
      <4>1. CASE i = id
        BY <2>1, <3>1, <3>2, <3>3, <3>8, <4>1
      <4>2. CASE i # id
        <5>1. Marked(i, g)
          BY <1>0, <2>1, <3>8, <4>2
        <5> QED
          BY <1>0, <3>3, <3>4, <3>6, <4>2, <5>1
      <4> QED
        BY <4>1, <4>2
    <3> QED
      BY <3>7, <3>8
  <2>3. CASE group[id] \notin Groups
    BY <1>0, <1>3, <2>1, <2>3 DEF EndMarkReleased
  <2> QED
    BY <2>2, <2>3
<1>4. ASSUME NEW id \in Ids, EndDeliver(id) PROVE NotAhead'
  <2>1. UNCHANGED <<group, releaseSequences, replay, held>>
        /\ ending[id] = "marked" /\ ending' = [ending EXCEPT ![id] = "delivered"]
    BY <1>4 DEF EndDeliver, EndStep
  <2>2. CASE held[id].sink \notin Sinks
    BY <1>0, <1>4, <2>1, <2>2 DEF EndDeliver
  <2>3. CASE held[id].sink \in Sinks
    <3>1. \A u \in Sinks, h \in Groups :
            delivered'[u][h] = IF u = held[id].sink /\ h = group[id]
                               THEN Later(delivered[u][h], held[id].seq) ELSE delivered[u][h]
      BY <1>0, <1>4, <2>3, DeliverRaises DEF EndDeliver
    <3>2. \A u \in Sinks, h \in Groups : delivered'[u][h] <= releaseSequences[h]
      BY <1>0, <2>1, <3>1 DEF Later
    <3> QED
      BY <1>0, <2>1, <3>2
  <2> QED
    BY <2>2, <2>3
<1>5. ASSUME NEW t \in Setters, NEW s \in Sinks \cup {NoSink}, SetReleaseSink(t, s)
      PROVE  NotAhead'
  <2>1. /\ UNCHANGED <<group, ending, releaseSequences, delivered, held>>
        /\ replay' = [replay EXCEPT ![t] =
             [pc |-> "called", sink |-> s, seqs |-> releaseSequences]]
    BY <1>5 DEF SetReleaseSink, scopeVars
  <2>2. \A u \in Setters : replay'[u].seqs = IF u = t THEN releaseSequences ELSE replay[u].seqs
    BY <1>0, <2>1
  <2> QED
    BY <1>0, <2>1, <2>2
<1>6. ASSUME NEW t \in Setters, NEW h \in Groups, ReplayGroup(t, h)
      PROVE  NotAhead'
  <2>1. UNCHANGED <<group, ending, releaseSequences, replay, held>>
    BY <1>6 DEF ReplayGroup, scopeVars
  <2>2. \A u \in Sinks, k \in Groups :
          delivered'[u][k] = IF u = replay[t].sink /\ k = h
                             THEN Later(delivered[u][k], replay[t].seqs[h]) ELSE delivered[u][k]
    BY <1>0, <1>6, DeliverRaises DEF ReplayGroup
  <2>3. \A u \in Sinks, k \in Groups : delivered'[u][k] <= releaseSequences[k]
    BY <1>0, <2>2 DEF Later
  <2> QED
    BY <1>0, <2>1, <2>3
<1>7. CASE BeginDispatch
  BY <1>0, <1>7 DEF BeginDispatch, releaseVars
<1>8. CASE UNCHANGED <<group, ending, releaseVars, next>>
  BY <1>0, <1>8 DEF releaseVars
<1> QED
  BY <1>1, <1>2, <1>3, <1>4, <1>5, <1>6, <1>7, <1>8, ReleaseFrame

LEMMA InformedStep ==
  TypeOK /\ MutexOK /\ Fresh /\ NotAhead /\ NotAhead' /\ TypeOK' /\ Informed /\ [Next]_vars
    => Informed'
<1> SUFFICES ASSUME TypeOK, MutexOK, Fresh, NotAhead, NotAhead', TypeOK', Informed, [Next]_vars,
                    NEW g \in Groups, releaseSink' \in Sinks
             PROVE  delivered'[releaseSink'][g] = releaseSequences'[g] \/ OnItsWay(g)'
  BY DEF Informed
<1> USE DEF OnItsWay, Marked
<1>0. /\ group \in [Ids -> Groups \cup {Unaccounted, NotInstalled}]
      /\ ending \in [Ids -> {"open", "deactivated", "closing", "marked", "delivered", "ended"}]
      /\ releaseSequences \in [Groups -> Nat]
      /\ delivered \in [Sinks -> [Groups -> Nat]]
      /\ held \in [Ids -> [sink : Sinks \cup {NoSink}, seq : Nat]]
      /\ replay \in [Setters -> [pc : {"idle", "called"}, sink : Sinks \cup {NoSink},
                                 seqs : [Groups -> Nat]]]
      /\ replayLeft \in [Setters -> SUBSET Groups]
  BY DEF TypeOK
<1>00. delivered' \in [Sinks -> [Groups -> Nat]] /\ releaseSequences' \in [Groups -> Nat]
  BY DEF TypeOK
<1>01. releaseSink \in Sinks => delivered[releaseSink][g] = releaseSequences[g] \/ OnItsWay(g)
  BY DEF Informed
<1>03. releaseSequences[g] \in Nat /\ releaseSequences'[g] \in Nat
  BY <1>0, <1>00
<1>02. \A s \in Sinks : /\ delivered[s][g] \in Nat /\ delivered'[s][g] \in Nat
                        /\ delivered[s][g] <= releaseSequences[g]
                        /\ delivered'[s][g] <= releaseSequences'[g]
  BY <1>0, <1>00 DEF NotAhead
<1>1. ASSUME NEW id \in Ids, NEW h \in Groups \cup {Unaccounted}, Install(id, h)
      PROVE  delivered'[releaseSink'][g] = releaseSequences'[g] \/ OnItsWay(g)'
  <2>1. ending[id] = "open"
    BY <1>1 DEF Install, Holds, MutexOK, Fresh
  <2> QED
    BY <1>0, <1>01, <1>1, <2>1 DEF Install, releaseVars
<1>2. ASSUME NEW id \in Ids, EndDeactivate(id) \/ EndStartClose(id) \/ EndRemove(id)
      PROVE  delivered'[releaseSink'][g] = releaseSequences'[g] \/ OnItsWay(g)'
  <2>1. /\ UNCHANGED <<group, releaseVars>>
        /\ \/ EndStep(id, "open", "deactivated") \/ EndStep(id, "deactivated", "closing")
           \/ EndStep(id, "delivered", "ended")
    BY <1>2 DEF EndDeactivate, EndStartClose, EndRemove
  <2> QED
    BY <1>0, <1>01, <2>1 DEF EndStep, releaseVars
<1>3. ASSUME NEW id \in Ids, EndMarkReleased(id)
      PROVE  delivered'[releaseSink'][g] = releaseSequences'[g] \/ OnItsWay(g)'
  <2>1. UNCHANGED <<group, delivered, replay, replayLeft, releaseSink>>
        /\ ending[id] = "closing" /\ ending' = [ending EXCEPT ![id] = "marked"]
    BY <1>3 DEF EndMarkReleased, EndStep
  <2>2. CASE group[id] = g
    <3>1. /\ releaseSequences'[g] = releaseSequences[g] + 1
          /\ held'[id] = [sink |-> releaseSink, seq |-> releaseSequences[g] + 1]
      BY <1>0, <1>3, <2>2 DEF EndMarkReleased
    <3>2. held'[id].sink = releaseSink' /\ held'[id].seq = releaseSequences'[g] /\ Marked(id, g)'
      BY <1>0, <2>1, <2>2, <3>1
    <3> QED
      BY <3>2
  <2>3. CASE group[id] # g
    <3>1. releaseSequences'[g] = releaseSequences[g] /\ \A i \in Ids \ {id} : held'[i] = held[i]
      BY <1>0, <1>3, <2>3 DEF EndMarkReleased
    <3> QED
      BY <1>0, <1>01, <2>1, <2>3, <3>1
  <2> QED
    BY <2>2, <2>3
<1>4. ASSUME NEW id \in Ids, EndDeliver(id)
      PROVE  delivered'[releaseSink'][g] = releaseSequences'[g] \/ OnItsWay(g)'
  <2>1. UNCHANGED <<group, releaseSequences, replay, replayLeft, releaseSink, held>>
        /\ ending[id] = "marked" /\ ending' = [ending EXCEPT ![id] = "delivered"]
    BY <1>4 DEF EndDeliver, EndStep
  <2>2. \A u \in Sinks : delivered'[u][g] >= delivered[u][g]
    BY <1>0, <1>02, <1>4, DeliverRaises DEF EndDeliver
  <2>3. CASE delivered[releaseSink][g] = releaseSequences[g]
    BY <1>02, <1>03, <2>1, <2>2, <2>3
  <2>4. CASE Marked(id, g) /\ held[id].sink = releaseSink /\ held[id].seq = releaseSequences[g]
    <3>1. delivered'[releaseSink][g] >= held[id].seq
      BY <1>0, <1>4, <2>1, <2>4, DeliverRaises DEF EndDeliver
    <3> QED
      BY <1>02, <1>03, <2>1, <2>4, <3>1
  <2>5. CASE OnItsWay(g)
             /\ ~(Marked(id, g) /\ held[id].sink = releaseSink /\ held[id].seq = releaseSequences[g])
    BY <1>0, <2>1, <2>5
  <2> QED
    BY <1>01, <2>1, <2>3, <2>4, <2>5
<1>5. ASSUME NEW t \in Setters, NEW s \in Sinks \cup {NoSink}, SetReleaseSink(t, s)
      PROVE  delivered'[releaseSink'][g] = releaseSequences'[g] \/ OnItsWay(g)'
  <2>1. /\ UNCHANGED <<releaseSequences, delivered>> /\ releaseSink' = s
        /\ replay'[t] = [pc |-> "called", sink |-> s, seqs |-> releaseSequences]
        /\ replayLeft'[t] = {h \in Groups : s # NoSink /\ releaseSequences[h] > 0}
    BY <1>0, <1>5 DEF SetReleaseSink
  <2>2. CASE releaseSequences[g] > 0
    BY <2>1, <2>2
  <2>3. CASE ~(releaseSequences[g] > 0)
    BY <1>0, <1>02, <2>1, <2>3
  <2> QED
    BY <2>2, <2>3
<1>6. ASSUME NEW t \in Setters, NEW h \in Groups, ReplayGroup(t, h)
      PROVE  delivered'[releaseSink'][g] = releaseSequences'[g] \/ OnItsWay(g)'
  <2>1. /\ UNCHANGED <<group, ending, releaseSequences, replay, releaseSink, held>>
        /\ replayLeft' = [replayLeft EXCEPT ![t] = @ \ {h}]
    BY <1>6 DEF ReplayGroup, scopeVars
  <2>2. \A u \in Sinks : delivered'[u][g] >= delivered[u][g]
    BY <1>0, <1>02, <1>6, DeliverRaises DEF ReplayGroup
  <2>3. CASE delivered[releaseSink][g] = releaseSequences[g]
    BY <1>02, <1>03, <2>1, <2>2, <2>3
  <2>4. CASE h = g /\ replay[t].sink = releaseSink /\ replay[t].seqs[g] = releaseSequences[g]
    <3>1. delivered'[releaseSink][g] >= replay[t].seqs[g]
      BY <1>0, <1>6, <2>1, <2>4, DeliverRaises DEF ReplayGroup
    <3> QED
      BY <1>02, <1>03, <2>1, <2>4, <3>1
  <2>5. CASE OnItsWay(g)
             /\ ~(h = g /\ replay[t].sink = releaseSink /\ replay[t].seqs[g] = releaseSequences[g])
    BY <1>0, <2>1, <2>5
  <2> QED
    BY <1>01, <2>1, <2>3, <2>4, <2>5
<1>7. CASE BeginDispatch
  BY <1>0, <1>01, <1>7 DEF BeginDispatch, releaseVars
<1>8. CASE UNCHANGED <<group, ending, releaseVars, next>>
  BY <1>0, <1>01, <1>8 DEF releaseVars
<1> QED
  BY <1>1, <1>2, <1>3, <1>4, <1>5, <1>6, <1>7, <1>8, ReleaseFrame

LEMMA ReleaseInit == Init => Fresh /\ Counted /\ NotAhead /\ Informed
<1> SUFFICES ASSUME Init PROVE Fresh /\ Counted /\ NotAhead /\ Informed
  OBVIOUS
<1>1. Fresh
  BY DEF Init, Fresh
<1>2. Counted
  <2>1. \A g \in Groups : Released(g) = {}
    BY DEF Init, Released
  <2> QED
    BY <2>1, FS_EmptySet DEF Init, Counted
<1>3. NotAhead
  BY DEF Init, NotAhead, Marked
<1>4. Informed
  BY DEF Init, Informed
<1> QED
  BY <1>1, <1>2, <1>3, <1>4

(* Each release is counted once, however often its scope is ended, and no   *)
(* sink is told of more, for any number of dispatches, groups, sinks and    *)
(* setters.  (EndWithRelease, markReleasedLocked, SetReleaseSink)           *)
THEOREM ReleasesAreCountedOnce == Spec => []ReleasesCountEnds
<1>1. TypeOK /\ Counted /\ NotAhead => ReleasesCountEnds
  BY DEF Counted, NotAhead, ReleasesCountEnds
<1> QED
  BY <1>1, ReleaseInit, TypesAndMutex, FreshStep, CountedStep, NotAheadStep, PTL DEF Spec

(* The current sink has the latest sequence of each group, or it is on its  *)
(* way, whenever sinks are replaced and scopes end.                         *)
(* (SetReleaseSink, EndWithRelease)                                         *)
THEOREM SinkIsInformed == Spec => []SinkCaughtUp
<1>1. TypeOK /\ Informed => SinkCaughtUp
  BY DEF TypeOK, Informed, OnItsWay, Marked, SinkCaughtUp
<1> QED
  BY <1>1, ReleaseInit, TypesAndMutex, FreshStep, NotAheadStep, InformedStep, PTL DEF Spec

-----------------------------------------------------------------------------
(* An id that will never be in flight again: it was given back, or ended.    *)
Done(id) == \/ group[id] = NotInstalled /\ id \notin pending
            \/ group[id] # NotInstalled /\ ending[id] = "ended"

(* Every dispatch is listed until it is done; a barrier is published when no *)
(* dispatch before it is pending; and what the snapshot with the latest      *)
(* barrier leaves out is done.                                               *)
Kept == \A id \in 1..next : id \in pending \/ id \in scopes \/ Done(id)

BarrierClear ==
  publishedBarrier = observedBarrier => \A id \in pending : id > pendingBarrierSequence

LeftOutIsDone ==
  freeze.barrier = observedBarrier =>
    \A id \in 1..pendingBarrierSequence : id \in freeze.executions \/ Done(id)

SnapshotInv == Kept /\ BarrierClear /\ LeftOutIsDone

(* The release of a scope that is done with its delivery has reached a sink. *)
Handed == \A id \in Ids : group[id] \in Groups =>
  /\ ending[id] \in {"marked", "delivered", "ended"} => held[id].seq > 0
  /\ ending[id] \in {"delivered", "ended"} /\ held[id].sink \in Sinks =>
       delivered[held[id].sink][group[id]] >= held[id].seq

LEMMA SnapshotStep == TypeOK /\ MutexOK /\ Fresh /\ SnapshotInv /\ [Next]_vars => SnapshotInv'
<1> SUFFICES ASSUME TypeOK, MutexOK, Fresh, SnapshotInv, [Next]_vars PROVE SnapshotInv'
  OBVIOUS
<1> USE DEF SnapshotInv, Kept, BarrierClear, LeftOutIsDone, Done
<1>0. /\ next \in 0..MaxDispatches /\ pending \subseteq 1..next /\ scopes \subseteq 1..next
      /\ group \in [Ids -> Groups \cup {Unaccounted, NotInstalled}]
      /\ ending \in [Ids -> {"open", "deactivated", "closing", "marked", "delivered", "ended"}]
      /\ pendingBarrierSequence \in 0..next /\ observedBarrier \in 0..MaxBarrier
      /\ publishedBarrier \in 0..observedBarrier /\ freeze.barrier \in 0..publishedBarrier
      /\ \A id \in 1..next : id \in Ids
  BY DEF TypeOK, Ids
<1>1. CASE BeginDispatchCheck
  BY <1>0, <1>1 DEF BeginDispatchCheck, scopeVars, barrierVars
<1>2. CASE BeginDispatch
  <2>1. /\ next' = next + 1 /\ pending' = pending \cup {next + 1}
        /\ UNCHANGED <<scopes, group, ending, barrierVars>>
    BY <1>2 DEF BeginDispatch
  <2>2. Kept'
    BY <1>0, <2>1
  <2>3. BarrierClear'
    BY <1>0, <2>1 DEF barrierVars
  <2>4. LeftOutIsDone'
    BY <1>0, <2>1 DEF barrierVars
  <2> QED
    BY <2>2, <2>3, <2>4
<1>3. ASSUME NEW id \in Ids, EndPending(id) PROVE SnapshotInv'
  <2>1. /\ pending' = pending \ {id} /\ id \in pending
        /\ UNCHANGED <<next, scopes, group, ending, barrierVars>>
    BY <1>3 DEF EndPending
  <2>2. group[id] = NotInstalled
    BY <2>1, <1>0 DEF Fresh
  <2> QED
    BY <1>0, <2>1, <2>2 DEF barrierVars
<1>4. ASSUME NEW id \in Ids, NEW g \in Groups \cup {Unaccounted}, Install(id, g)
      PROVE  SnapshotInv'
  <2>1. /\ pending' = pending \ {id} /\ scopes' = scopes \cup {id}
        /\ group' = [group EXCEPT ![id] = g] /\ g # NotInstalled
        /\ UNCHANGED <<next, ending, barrierVars>> /\ id \in pending
    BY <1>4 DEF Install, Holds, MutexOK
  <2>2. Kept'
    BY <1>0, <2>1
  <2>3. BarrierClear'
    BY <1>0, <2>1 DEF barrierVars
  <2>4. ending[id] = "open"
    BY <1>0, <2>1 DEF Fresh
  <2>5. LeftOutIsDone'
    BY <1>0, <2>1, <2>4 DEF barrierVars
  <2> QED
    BY <2>2, <2>3, <2>5
<1>5. ASSUME NEW id \in Ids,
             InstallCheck(id) \/ BindCheck(id) \/ Bind(id) \/ ResourceClosed(id)
      PROVE  SnapshotInv'
  BY <1>0, <1>5 DEF InstallCheck, BindCheck, Bind, ResourceClosed, scopeVars, barrierVars
<1>6. ASSUME NEW id \in Ids,
             EndDeactivate(id) \/ EndStartClose(id) \/ EndMarkReleased(id) \/ EndDeliver(id)
      PROVE  SnapshotInv'
  <2>1. /\ UNCHANGED <<next, pending, scopes, group, barrierVars>>
        /\ ending[id] # "ended" /\ \E to : ending' = [ending EXCEPT ![id] = to]
    BY <1>6 DEF EndDeactivate, EndStartClose, EndMarkReleased, EndDeliver, EndStep
  <2> QED
    BY <1>0, <2>1 DEF barrierVars
<1>7. ASSUME NEW id \in Ids, EndRemove(id) PROVE SnapshotInv'
  <2>1. /\ UNCHANGED <<next, pending, group, barrierVars>> /\ scopes' = scopes \ {id}
        /\ ending[id] = "delivered" /\ ending' = [ending EXCEPT ![id] = "ended"]
    BY <1>7 DEF EndRemove, EndStep
  <2>2. group[id] # NotInstalled
    BY <2>1 DEF Fresh
  <2> QED
    BY <1>0, <2>1, <2>2 DEF barrierVars
<1>8. ASSUME NEW t \in Setters, NEW s, NEW g, SetReleaseSink(t, s) \/ ReplayGroup(t, g)
      PROVE  SnapshotInv'
  BY <1>0, <1>8 DEF SetReleaseSink, ReplayGroup, scopeVars, barrierVars
<1>9. ASSUME NEW d \in Drainers, Drain(d) PROVE SnapshotInv'
  <2>1. UNCHANGED <<next, pending, scopes, group, ending, barrierVars>>
    BY <1>9 DEF Drain, DrainStart, DrainSnapshot, DrainStartClose, DrainSleep, DrainFinish,
       DrainExpired, scopeVars
  <2> QED
    BY <1>0, <2>1 DEF barrierVars
<1>10. CASE Close
  <2>1. UNCHANGED <<next, pending, scopes, group, ending, barrierVars>>
    BY <1>10 DEF Close, CloseStart, CloseSwap, CloseSnapshot, CloseNext, CloseWaited,
       CloseFinish, scopeVars
  <2> QED
    BY <1>0, <2>1 DEF barrierVars
<1>11. ASSUME NEW revision \in 1..MaxBarrier, ObserveBarrier(revision) PROVE SnapshotInv'
  <2>1. /\ UNCHANGED <<next, pending, scopes, group, ending, publishedBarrier, freeze>>
        /\ observedBarrier' = revision /\ revision > observedBarrier
    BY <1>11 DEF ObserveBarrier, scopeVars
  <2>2. publishedBarrier < observedBarrier' /\ freeze.barrier < observedBarrier'
    BY <1>0, <2>1
  <2> QED
    BY <1>0, <2>1, <2>2
<1>12. CASE FreezeInFlight
  <2>1. /\ UNCHANGED <<next, pending, scopes, group, ending, observedBarrier,
                       pendingBarrierSequence>>
        /\ publishedBarrier' = IF observedBarrier > publishedBarrier /\ ~BarrierBlocked
                               THEN observedBarrier ELSE publishedBarrier
        /\ freeze'.barrier = publishedBarrier' /\ freeze'.executions = scopes
    BY <1>12 DEF FreezeInFlight, scopeVars
  <2>2. BarrierClear'
    BY <1>0, <2>1 DEF BarrierBlocked
  <2>3. LeftOutIsDone'
    BY <1>0, <2>1, <2>2
  <2> QED
    BY <2>1, <2>2, <2>3
<1>13. CASE UNCHANGED vars
  BY <1>0, <1>13 DEF vars, scopeVars, barrierVars
<1> QED
  BY <1>1, <1>2, <1>3, <1>4, <1>5, <1>6, <1>7, <1>8, <1>9, <1>10, <1>11, <1>12, <1>13
     DEF Next, NextQuiet, Dispatch, EndStepQuiet, InstallRejected

LEMMA HandedStep == TypeOK /\ MutexOK /\ Fresh /\ Handed /\ [Next]_vars => Handed'
<1> SUFFICES ASSUME TypeOK, MutexOK, Fresh, Handed, [Next]_vars PROVE Handed'
  OBVIOUS
<1> USE DEF Handed
<1>0. /\ group \in [Ids -> Groups \cup {Unaccounted, NotInstalled}]
      /\ ending \in [Ids -> {"open", "deactivated", "closing", "marked", "delivered", "ended"}]
      /\ releaseSequences \in [Groups -> Nat]
      /\ delivered \in [Sinks -> [Groups -> Nat]]
      /\ held \in [Ids -> [sink : Sinks \cup {NoSink}, seq : Nat]]
      /\ replay \in [Setters -> [pc : {"idle", "called"}, sink : Sinks \cup {NoSink},
                                 seqs : [Groups -> Nat]]]
  BY DEF TypeOK
<1>1. ASSUME NEW id \in Ids, NEW h \in Groups \cup {Unaccounted}, Install(id, h)
      PROVE  Handed'
  <2>1. ending[id] = "open"
    BY <1>1 DEF Install, Holds, MutexOK, Fresh
  <2> QED
    BY <1>0, <1>1, <2>1 DEF Install, releaseVars
<1>2. ASSUME NEW id \in Ids, EndDeactivate(id) \/ EndStartClose(id) \/ EndRemove(id)
      PROVE  Handed'
  <2>1. /\ UNCHANGED <<group, releaseVars>>
        /\ \/ EndStep(id, "open", "deactivated") \/ EndStep(id, "deactivated", "closing")
           \/ EndStep(id, "delivered", "ended")
    BY <1>2 DEF EndDeactivate, EndStartClose, EndRemove
  <2> QED
    BY <1>0, <2>1 DEF EndStep, releaseVars
<1>3. ASSUME NEW id \in Ids, EndMarkReleased(id) PROVE Handed'
  <2>1. UNCHANGED <<group, delivered>>
        /\ ending[id] = "closing" /\ ending' = [ending EXCEPT ![id] = "marked"]
    BY <1>3 DEF EndMarkReleased, EndStep
  <2>2. CASE group[id] \in Groups
    <3>1. /\ held' = [held EXCEPT ![id] = [sink |-> releaseSink,
                                           seq |-> releaseSequences[group[id]] + 1]]
          /\ releaseSequences[group[id]] + 1 > 0
      BY <1>0, <1>3, <2>2 DEF EndMarkReleased
    <3>2. held'[id].seq > 0 /\ \A i \in Ids \ {id} : held'[i] = held[i]
      BY <1>0, <3>1
    <3> QED
      BY <1>0, <2>1, <3>2
  <2>3. CASE group[id] \notin Groups
    BY <1>0, <1>3, <2>1, <2>3 DEF EndMarkReleased
  <2> QED
    BY <2>2, <2>3
<1>4. ASSUME NEW id \in Ids, EndDeliver(id) PROVE Handed'
  <2>1. UNCHANGED <<group, held>>
        /\ ending[id] = "marked" /\ ending' = [ending EXCEPT ![id] = "delivered"]
    BY <1>4 DEF EndDeliver, EndStep
  <2>2. CASE held[id].sink \notin Sinks
    BY <1>0, <1>4, <2>1, <2>2 DEF EndDeliver
  <2>3. CASE held[id].sink \in Sinks
    <3>1. /\ \A u \in Sinks, h \in Groups : delivered'[u][h] >= delivered[u][h]
          /\ group[id] \in Groups => delivered'[held[id].sink][group[id]] >= held[id].seq
          /\ delivered' \in [Sinks -> [Groups -> Nat]]
      BY <1>0, <1>4, <2>3, DeliverRaises DEF EndDeliver
    <3>2. ASSUME NEW i \in Ids, group[i] \in Groups, held[i].sink \in Sinks,
                 ending'[i] \in {"delivered", "ended"}
          PROVE  delivered'[held[i].sink][group[i]] >= held[i].seq
      <4>1. CASE i = id
        BY <3>1, <3>2, <4>1
      <4>2. CASE i # id
        <5>1. delivered[held[i].sink][group[i]] >= held[i].seq
          BY <1>0, <2>1, <3>2, <4>2
        <5>2. /\ delivered[held[i].sink][group[i]] \in Nat /\ held[i].seq \in Nat
              /\ delivered'[held[i].sink][group[i]] \in Nat
              /\ delivered'[held[i].sink][group[i]] >= delivered[held[i].sink][group[i]]
          BY <1>0, <3>1, <3>2
        <5> QED
          BY <5>1, <5>2
      <4> QED
        BY <4>1, <4>2
    <3>3. ASSUME NEW i \in Ids, group[i] \in Groups,
                 ending'[i] \in {"marked", "delivered", "ended"}
          PROVE  held[i].seq > 0
      BY <1>0, <2>1, <3>3
    <3> QED
      BY <2>1, <3>2, <3>3
  <2> QED
    BY <2>2, <2>3
<1>5. ASSUME NEW t \in Setters, NEW s \in Sinks \cup {NoSink}, SetReleaseSink(t, s)
      PROVE  Handed'
  BY <1>0, <1>5 DEF SetReleaseSink, scopeVars
<1>6. ASSUME NEW t \in Setters, NEW h \in Groups, ReplayGroup(t, h)
      PROVE  Handed'
  <2>1. UNCHANGED <<group, ending, held>>
    BY <1>6 DEF ReplayGroup, scopeVars
  <2>2. /\ \A u \in Sinks, k \in Groups : delivered'[u][k] >= delivered[u][k]
        /\ delivered' \in [Sinks -> [Groups -> Nat]]
    BY <1>0, <1>6, DeliverRaises DEF ReplayGroup
  <2>3. ASSUME NEW i \in Ids, group[i] \in Groups, held[i].sink \in Sinks,
               ending[i] \in {"delivered", "ended"}
        PROVE  delivered'[held[i].sink][group[i]] >= held[i].seq
    <3>1. delivered[held[i].sink][group[i]] >= held[i].seq
      BY <2>3
    <3>2. /\ delivered[held[i].sink][group[i]] \in Nat /\ held[i].seq \in Nat
          /\ delivered'[held[i].sink][group[i]] \in Nat
          /\ delivered'[held[i].sink][group[i]] >= delivered[held[i].sink][group[i]]
      BY <1>0, <2>2, <2>3
    <3> QED
      BY <3>1, <3>2
  <2> QED
    BY <2>1, <2>3
<1>7. CASE BeginDispatch
  BY <1>0, <1>7 DEF BeginDispatch, releaseVars
<1>8. CASE UNCHANGED <<group, ending, releaseVars, next>>
  BY <1>0, <1>8 DEF releaseVars
<1> QED
  BY <1>1, <1>2, <1>3, <1>4, <1>5, <1>6, <1>7, <1>8, ReleaseFrame

(* A snapshot that publishes the latest barrier accounts for every dispatch  *)
(* begun before it, for any interleaving of dispatches, releases, sinks and  *)
(* a shutdown.  (ObserveBarrier, FreezeInFlight)                             *)
THEOREM BarrierIsHonest == Spec => []SnapshotAccountsForBarrier
<1>1. Init => SnapshotInv /\ Handed
  BY DEF Init, SnapshotInv, Kept, BarrierClear, LeftOutIsDone, Handed
<1>2. TypeOK /\ NoReleaseWhileOpen /\ SnapshotInv /\ Handed => SnapshotAccountsForBarrier
  <2> SUFFICES ASSUME TypeOK, NoReleaseWhileOpen, SnapshotInv, Handed,
                      freeze.barrier = observedBarrier,
                      NEW id \in 1..pendingBarrierSequence, id \notin freeze.executions
               PROVE  Settled(id)
    BY DEF SnapshotAccountsForBarrier
  <2>1. id \in Ids /\ group[id] \in Groups \cup {Unaccounted, NotInstalled}
    BY DEF TypeOK, Ids
  <2>2. Done(id)
    BY DEF SnapshotInv, LeftOutIsDone
  <2>3. ending[id] = "ended" => CloseFinished(id)
    BY <2>1 DEF NoReleaseWhileOpen
  <2> QED
    BY <2>1, <2>2, <2>3 DEF Done, Settled, Handed
<1> QED
  BY <1>1, <1>2, ReleaseInit, TypesAndMutex, ReleasedAreClosed, FreshStep, SnapshotStep,
     HandedStep, PTL DEF Spec

-----------------------------------------------------------------------------
(* A sink is called only for scopes of a release group, and with sequences. *)
ToSink ==
  /\ \A id \in Ids : held[id].sink \in Sinks => group[id] \in Groups
  /\ \A t \in Setters, g \in Groups :
       g \in replayLeft[t] => replay[t].sink \in Sinks /\ replay[t].seqs[g] > 0

LEMMA ToSinkStep == TypeOK /\ MutexOK /\ Fresh /\ ToSink /\ [Next]_vars => ToSink'
<1> SUFFICES ASSUME TypeOK, MutexOK, Fresh, ToSink, [Next]_vars PROVE ToSink'
  OBVIOUS
<1> USE DEF ToSink
<1>0. /\ group \in [Ids -> Groups \cup {Unaccounted, NotInstalled}]
      /\ releaseSequences \in [Groups -> Nat] /\ releaseSink \in Sinks \cup {NoSink}
      /\ held \in [Ids -> [sink : Sinks \cup {NoSink}, seq : Nat]]
      /\ replay \in [Setters -> [pc : {"idle", "called"}, sink : Sinks \cup {NoSink},
                                 seqs : [Groups -> Nat]]]
      /\ replayLeft \in [Setters -> SUBSET Groups]
  BY DEF TypeOK
<1>1. ASSUME NEW id \in Ids, NEW h \in Groups \cup {Unaccounted}, Install(id, h)
      PROVE  ToSink'
  <2>1. group[id] = NotInstalled
    BY <1>1 DEF Install, Holds, MutexOK, Fresh
  <2>2. held[id].sink \notin Sinks
    BY <2>1
  <2> QED
    BY <1>0, <1>1, <2>2 DEF Install, releaseVars
<1>2. ASSUME NEW id \in Ids,
             EndDeactivate(id) \/ EndStartClose(id) \/ EndRemove(id) \/ EndDeliver(id)
      PROVE  ToSink'
  <2>1. UNCHANGED <<group, held, replay, replayLeft>>
    BY <1>2 DEF EndDeactivate, EndStartClose, EndRemove, EndDeliver, releaseVars
  <2> QED BY <2>1
<1>3. ASSUME NEW id \in Ids, EndMarkReleased(id) PROVE ToSink'
  <2>1. /\ UNCHANGED <<group, replay, replayLeft>>
        /\ \A i \in Ids : held'[i] = held[i] \/ group[i] \in Groups
    BY <1>0, <1>3 DEF EndMarkReleased
  <2> QED BY <2>1
<1>4. ASSUME NEW t \in Setters, NEW s \in Sinks \cup {NoSink}, SetReleaseSink(t, s)
      PROVE  ToSink'
  <2>1. UNCHANGED <<group, held>>
    BY <1>4 DEF SetReleaseSink, scopeVars
  <2>2. /\ replay'[t].sink = s /\ replay'[t].seqs = releaseSequences
        /\ \A u \in Setters \ {t} : replay'[u] = replay[u] /\ replayLeft'[u] = replayLeft[u]
        /\ replayLeft'[t] = {g \in Groups : s # NoSink /\ releaseSequences[g] > 0}
    BY <1>0, <1>4 DEF SetReleaseSink
  <2>3. ASSUME NEW u \in Setters, NEW g \in Groups, g \in replayLeft'[u]
        PROVE  replay'[u].sink \in Sinks /\ replay'[u].seqs[g] > 0
    <3>1. CASE u = t
      BY <2>2, <2>3, <3>1
    <3> QED BY <2>2, <2>3, <3>1
  <2> QED BY <2>1, <2>3
<1>5. ASSUME NEW t \in Setters, NEW h \in Groups, ReplayGroup(t, h)
      PROVE  ToSink'
  <2>1. /\ UNCHANGED <<group, held, replay>>
        /\ \A u \in Setters : replayLeft'[u] \subseteq replayLeft[u]
    BY <1>0, <1>5 DEF ReplayGroup, scopeVars
  <2> QED BY <2>1
<1>6. CASE BeginDispatch
  BY <1>6 DEF BeginDispatch, releaseVars
<1>7. CASE UNCHANGED <<group, ending, releaseVars, next>>
  BY <1>7 DEF releaseVars
<1> QED
  BY <1>1, <1>2, <1>3, <1>4, <1>5, <1>6, <1>7, ReleaseFrame

(* Only the calls of a sink change what sinks know ...                      *)
LEMMA OnlyCallsDeliver == NextQuiet => delivered' = delivered
<1> SUFFICES ASSUME NextQuiet PROVE delivered' = delivered
  OBVIOUS
<1> USE DEF releaseVars
<1>1. CASE BeginDispatchCheck \/ BeginDispatch \/ FreezeInFlight
  BY <1>1 DEF BeginDispatchCheck, BeginDispatch, FreezeInFlight
<1>2. ASSUME NEW id \in Ids, Dispatch(id) PROVE delivered' = delivered
  BY <1>2 DEF Dispatch, EndPending, InstallRejected, InstallCheck, Install, BindCheck, Bind
<1>3. ASSUME NEW id \in Ids, EndStepQuiet(id) \/ ResourceClosed(id)
      PROVE  delivered' = delivered
  BY <1>3 DEF EndStepQuiet, EndDeactivate, EndStartClose, EndMarkReleased, EndRemove,
              ResourceClosed
<1>4. ASSUME NEW t, NEW s, SetReleaseSink(t, s) PROVE delivered' = delivered
  BY <1>4 DEF SetReleaseSink
<1>5. ASSUME NEW d \in Drainers, Drain(d) PROVE delivered' = delivered
  BY <1>5 DEF Drain, DrainStart, DrainSnapshot, DrainStartClose, DrainSleep, DrainFinish,
              DrainExpired
<1>6. CASE Close
  BY <1>6 DEF Close, CloseStart, CloseSwap, CloseSnapshot, CloseNext, CloseWaited, CloseFinish
<1>7. ASSUME NEW revision, ObserveBarrier(revision) PROVE delivered' = delivered
  BY <1>7 DEF ObserveBarrier
<1> QED BY <1>1, <1>2, <1>3, <1>4, <1>5, <1>6, <1>7 DEF NextQuiet

(* ... and a sequence moves on by one.                                       *)
LEMMA SequencesMove ==
  ASSUME [Next]_vars, TypeOK
  PROVE  \/ releaseSequences' = releaseSequences
         \/ \E g \in Groups : releaseSequences' = [releaseSequences EXCEPT ![g] = @ + 1]
<1>1. ASSUME NEW id \in Ids, EndMarkReleased(id)
      PROVE  \/ releaseSequences' = releaseSequences
             \/ \E g \in Groups : releaseSequences' = [releaseSequences EXCEPT ![g] = @ + 1]
  BY <1>1 DEF EndMarkReleased
<1>2. ASSUME NEW id \in Ids,
             \/ \E g \in Groups \cup {Unaccounted} : Install(id, g)
             \/ EndDeactivate(id) \/ EndStartClose(id) \/ EndDeliver(id) \/ EndRemove(id)
      PROVE  releaseSequences' = releaseSequences
  BY <1>2 DEF Install, EndDeactivate, EndStartClose, EndDeliver, EndRemove, releaseVars
<1>3. ASSUME NEW t, NEW s, NEW g, SetReleaseSink(t, s) \/ ReplayGroup(t, g)
      PROVE  releaseSequences' = releaseSequences
  BY <1>3 DEF SetReleaseSink, ReplayGroup
<1>4. CASE BeginDispatch \/ UNCHANGED <<group, ending, releaseVars, next>>
  BY <1>4 DEF BeginDispatch, releaseVars
<1> QED BY <1>1, <1>2, <1>3, <1>4, ReleaseFrame

(* What a sink is told of a group is a sequence that was counted, and no    *)
(* sequence exceeds the number of dispatches.                               *)
SinkCalls ==
  /\ \A g \in Groups : releaseSequences[g] <= MaxDispatches
  /\ \A id \in Ids : ending[id] = "marked" /\ held[id].sink \in Sinks =>
       /\ group[id] \in Groups
       /\ held[id].seq \in 1..releaseSequences[group[id]]
  /\ \A t \in Setters, g \in Groups : g \in replayLeft[t] =>
       /\ replay[t].sink \in Sinks
       /\ replay[t].seqs[g] \in 1..releaseSequences[g]

LEMMA CallsAreCounted ==
  Spec => [](TypeOK /\ NoReleaseWhileOpen /\ ReleasesCountEnds /\ SinkCalls)
<1>1. Init => ToSink /\ Handed
  BY DEF Init, ToSink, Handed
<1>2. TypeOK /\ Counted /\ NotAhead /\ Handed /\ ToSink => SinkCalls
  <2> SUFFICES ASSUME TypeOK, Counted, NotAhead, Handed, ToSink PROVE SinkCalls
    OBVIOUS
  <2>1. ASSUME NEW g \in Groups PROVE releaseSequences[g] <= MaxDispatches
    <3>1. IsFiniteSet(Ids) /\ Cardinality(Ids) = MaxDispatches
      BY FS_Interval DEF Ids
    <3>2. Cardinality(Released(g)) <= MaxDispatches
      BY <3>1, FS_Subset DEF Released
    <3> QED BY <3>2 DEF Counted
  <2>2. ASSUME NEW id \in Ids, ending[id] = "marked", held[id].sink \in Sinks
        PROVE  group[id] \in Groups /\ held[id].seq \in 1..releaseSequences[group[id]]
    <3>1. group[id] \in Groups /\ held[id].seq \in Nat
      BY <2>2 DEF ToSink, TypeOK
    <3>2. held[id].seq > 0 /\ held[id].seq <= releaseSequences[group[id]]
      BY <2>2, <3>1 DEF Handed, NotAhead, Marked
    <3>3. releaseSequences[group[id]] \in Nat
      BY <3>1 DEF TypeOK
    <3> QED BY <3>1, <3>2, <3>3
  <2>3. ASSUME NEW t \in Setters, NEW g \in Groups, g \in replayLeft[t]
        PROVE  replay[t].sink \in Sinks /\ replay[t].seqs[g] \in 1..releaseSequences[g]
    <3>1. replay[t].seqs[g] \in Nat /\ releaseSequences[g] \in Nat
      BY DEF TypeOK
    <3> QED BY <2>3, <3>1 DEF ToSink, NotAhead
  <2> QED BY <2>1, <2>2, <2>3 DEF SinkCalls
<1> QED
  BY <1>1, <1>2, ReleaseInit, TypesAndMutex, FreshStep, CountedStep, NotAheadStep, HandedStep,
     ToSinkStep, ReleasedAreClosed, ReleasesAreCountedOnce, PTL DEF Spec

-----------------------------------------------------------------------------
Opened(id) == resource[id] \in {"bound", "closing"}
Taken(d) == drain[d] \in DrainStates \ {"idle", "started"}
ShutDown == (\E d \in Drainers : Taken(d)) \/ close \in {"closing", "done"}

(* A scope is in the map until it has ended, and so is one whose resource    *)
(* has still to be closed.  Once a shutdown has taken its list of scopes     *)
(* nobody is about to bind; what is bound is on the list of each Drain, and  *)
(* what is not closed is on the list of Close or is what it waits for.       *)
Mapped == \A id \in Ids :
  (group[id] # NotInstalled /\ ending[id] # "ended") \/ Opened(id) => id \in scopes
Refusing ==
  /\ (\E d \in Drainers : drain[d] # "idle") \/ close \in {"swapped", "closing", "done"}
       => state # "Accepting"
  /\ ShutDown => critical.op # "bind"
OnDrainList == \A d \in Drainers :
  /\ Taken(d) => \A id \in Ids : resource[id] = "bound" => id \in toClose[d]
  /\ Taken(d) /\ drain[d] # "closing" => toClose[d] = {}
OnCloseList ==
  /\ close \in {"closing", "done"} => \A id \in Ids : Opened(id) => id \in closeQueue \cup {closeWaits}
  /\ close = "done" => closeQueue = {} /\ closeWaits = 0
ShutdownInv == Mapped /\ Refusing /\ OnDrainList /\ OnCloseList

LEMMA ShutdownStep ==
  TypeOK /\ MutexOK /\ NoReleaseWhileOpen /\ ShutdownInv /\ [Next]_vars => ShutdownInv'
<1> SUFFICES ASSUME TypeOK, MutexOK, NoReleaseWhileOpen, ShutdownInv, [Next]_vars
             PROVE  ShutdownInv'
  OBVIOUS
<1> USE DEF ShutdownInv, Mapped, Refusing, OnDrainList, OnCloseList, ShutDown, Taken, Opened,
      DrainStates
<1>0. /\ state \in {"Accepting", "Draining", "Closed"}
      /\ critical \in [op : {"none", "begin", "install", "bind"}, id : Ids \cup {0}]
      /\ group \in [Ids -> Groups \cup {Unaccounted, NotInstalled}]
      /\ ending \in [Ids -> {"open", "deactivated", "closing", "marked", "delivered", "ended"}]
      /\ resource \in [Ids -> {"none", "bound", "closing", "closed"}]
      /\ drain \in [Drainers -> DrainStates]
      /\ toClose \in [Drainers -> SUBSET Ids]
      /\ close \in {"idle", "started", "swapped", "closing", "done"}
      /\ 0 \notin Ids
  BY DEF TypeOK, Ids
<1>1. ASSUME UNCHANGED <<resource, group, ending, scopes, lifecycleVars>>,
             critical'.op = "bind" => critical.op = "bind" \/ state = "Accepting"
      PROVE  ShutdownInv'
  BY <1>0, <1>1 DEF lifecycleVars
<1>2. CASE BeginDispatchCheck \/ BeginDispatch
  BY <1>1, <1>2 DEF BeginDispatchCheck, BeginDispatch, Enter, Leave, Idle, scopeVars
<1>3. ASSUME NEW id \in Ids, InstallCheck(id) \/ BindCheck(id) PROVE ShutdownInv'
  BY <1>1, <1>3 DEF InstallCheck, BindCheck, Enter, scopeVars
<1>4. ASSUME NEW id \in Ids, EndPending(id) PROVE ShutdownInv'
  <2>1. /\ UNCHANGED <<critical, resource, group, ending, scopes, state, toClose, close, closeQueue, closeWaits>>
        /\ Signal
    BY <1>4 DEF EndPending
  <2>2. \A d \in Drainers : drain'[d] = IF drain[d] = "waiting" THEN "woken" ELSE drain[d]
    BY <2>1 DEF Signal
  <2> QED
    BY <1>0, <2>1, <2>2
<1>5. ASSUME NEW id \in Ids, NEW g \in Groups \cup {Unaccounted}, Install(id, g)
      PROVE  ShutdownInv'
  <2>1. /\ UNCHANGED <<resource, ending, state, toClose, close, closeQueue, closeWaits>>
        /\ scopes' = scopes \cup {id} /\ group' = [group EXCEPT ![id] = g]
        /\ critical'.op = "none" /\ Signal
    BY <1>5 DEF Install, Leave, Idle
  <2>2. \A d \in Drainers : drain'[d] = IF drain[d] = "waiting" THEN "woken" ELSE drain[d]
    BY <2>1 DEF Signal
  <2> QED
    BY <1>0, <2>1, <2>2
<1>6. ASSUME NEW id \in Ids, Bind(id) PROVE ShutdownInv'
  <2>1. /\ UNCHANGED <<group, ending, scopes, lifecycleVars>> /\ critical.op = "bind"
        /\ Active(id) /\ critical'.op = "none" /\ resource' = [resource EXCEPT ![id] = "bound"]
    BY <1>6 DEF Bind, Holds, Leave, Idle, MutexOK
  <2> QED
    BY <1>0, <2>1 DEF Active, lifecycleVars
<1>7. ASSUME NEW id \in Ids, StartClose(id), ending' = ending \/ EndStep(id, "deactivated", "closing"),
             UNCHANGED <<critical, scopes, group, lifecycleVars>>
      PROVE  ShutdownInv'
  BY <1>0, <1>7 DEF StartClose, EndStep, lifecycleVars
<1>8. ASSUME NEW id \in Ids, EndStartClose(id) PROVE ShutdownInv'
  BY <1>7, <1>8 DEF EndStartClose
<1>9. ASSUME NEW id \in Ids, EndDeactivate(id) \/ EndMarkReleased(id) \/ EndDeliver(id)
      PROVE  ShutdownInv'
  <2>1. /\ UNCHANGED <<critical, scopes, group, resource, lifecycleVars>>
        /\ ending[id] # "ended" /\ \E to : ending' = [ending EXCEPT ![id] = to]
    BY <1>9 DEF EndDeactivate, EndMarkReleased, EndDeliver, EndStep
  <2> QED
    BY <1>0, <2>1 DEF lifecycleVars
<1>10. ASSUME NEW id \in Ids, EndRemove(id) PROVE ShutdownInv'
  <2>1. /\ UNCHANGED <<critical, resource, group, state, toClose, close, closeQueue, closeWaits>>
        /\ scopes' = scopes \ {id} /\ ending[id] = "delivered"
        /\ ending' = [ending EXCEPT ![id] = "ended"] /\ Signal
    BY <1>10 DEF EndRemove, EndStep
  <2>2. \A d \in Drainers : drain'[d] = IF drain[d] = "waiting" THEN "woken" ELSE drain[d]
    BY <2>1 DEF Signal
  <2>3. ~Opened(id)
    BY <2>1 DEF NoReleaseWhileOpen, CloseFinished
  <2> QED
    BY <1>0, <2>1, <2>2, <2>3
<1>11. ASSUME NEW id \in Ids, ResourceClosed(id) PROVE ShutdownInv'
  BY <1>0, <1>11 DEF ResourceClosed, lifecycleVars
<1>12. ASSUME NEW t \in Setters, NEW s, NEW g, SetReleaseSink(t, s) \/ ReplayGroup(t, g)
      PROVE  ShutdownInv'
  BY <1>1, <1>12 DEF SetReleaseSink, ReplayGroup, scopeVars
<1>13. ASSUME NEW d \in Drainers, DrainStart(d) PROVE ShutdownInv'
  BY <1>0, <1>13 DEF DrainStart, scopeVars
<1>14. ASSUME NEW d \in Drainers, DrainSnapshot(d) PROVE ShutdownInv'
  BY <1>0, <1>14 DEF DrainSnapshot, scopeVars, Free, Idle
<1>15. ASSUME NEW d \in Drainers, NEW id \in Ids, DrainStartClose(d, id) PROVE ShutdownInv'
  <2>1. /\ UNCHANGED <<critical, group, ending, scopes, state, drain, close, closeQueue, closeWaits>>
        /\ toClose' = [toClose EXCEPT ![d] = @ \ {id}]
    BY <1>15 DEF DrainStartClose
  <2>2. \A i \in Ids : /\ resource'[i] = "bound" => resource[i] = "bound" /\ i # id
                       /\ resource'[i] = "closing" => Opened(i)
    BY <1>0, <1>15 DEF DrainStartClose, StartClose
  <2> QED
    <3>1. \A e \in Drainers : toClose'[e] = IF e = d THEN toClose[d] \ {id} ELSE toClose[e]
      BY <1>0, <2>1
    <3>2. Mapped' /\ Refusing'
      BY <1>0, <2>1, <2>2
    <3>3. OnDrainList'
      BY <1>0, <2>1, <2>2, <3>1
    <3>4. OnCloseList'
      BY <1>0, <2>1, <2>2
    <3> QED
      BY <3>2, <3>3, <3>4
<1>16. ASSUME NEW d \in Drainers, DrainSleep(d) \/ DrainFinish(d) \/ DrainExpired(d)
       PROVE  ShutdownInv'
  <2>1. /\ UNCHANGED <<critical, scopes, group, ending, resource, toClose, close, closeQueue, closeWaits>>
        /\ state' = state \/ state' = "Closed"
        /\ drain[d] \notin {"idle", "started"}
        /\ drain[d] = "closing" => toClose[d] = {}
        /\ \E to \in {"waiting", "drained", "expired"} : drain' = [drain EXCEPT ![d] = to]
    BY <1>16 DEF DrainSleep, DrainFinish, DrainExpired, DrainChecks, scopeVars
  <2> QED
    BY <1>0, <2>1
<1>17. CASE CloseStart \/ CloseSwap
  BY <1>0, <1>17 DEF CloseStart, CloseSwap, scopeVars
<1>18. CASE CloseSnapshot
  BY <1>0, <1>18 DEF CloseSnapshot, scopeVars, Free, Idle
<1>19. ASSUME NEW id \in Ids, CloseNext(id) PROVE ShutdownInv'
  <2>1. /\ UNCHANGED <<critical, group, ending, scopes, state, drain, toClose, close>>
        /\ id \in closeQueue /\ closeWaits = 0
        /\ closeQueue' = closeQueue \ {id} /\ closeWaits' = id
    BY <1>19 DEF CloseNext
  <2>2. \A i \in Ids : /\ resource'[i] = "bound" => resource[i] = "bound"
                       /\ resource'[i] = "closing" => Opened(i)
    BY <1>0, <1>19 DEF CloseNext, StartClose
  <2> QED
    <3>1. Mapped' /\ Refusing'
      BY <1>0, <2>1, <2>2
    <3>2. OnDrainList'
      BY <1>0, <2>1, <2>2
    <3>3. OnCloseList'
      BY <1>0, <2>1, <2>2
    <3> QED
      BY <3>1, <3>2, <3>3
<1>20. CASE CloseWaited
  BY <1>0, <1>20 DEF CloseWaited, scopeVars, CloseFinished
<1>21. CASE CloseFinish
  BY <1>0, <1>21 DEF CloseFinish, scopeVars
<1>22. ASSUME NEW revision, ObserveBarrier(revision) \/ FreezeInFlight
      PROVE  ShutdownInv'
  BY <1>1, <1>22 DEF ObserveBarrier, FreezeInFlight, scopeVars
<1>23. CASE UNCHANGED vars
  BY <1>1, <1>23 DEF vars, scopeVars
<1> QED
  BY <1>2, <1>3, <1>4, <1>5, <1>6, <1>8, <1>9, <1>10, <1>11, <1>12, <1>13, <1>14, <1>15, <1>16,
     <1>17, <1>18, <1>19, <1>20, <1>21, <1>22, <1>23
     DEF Next, NextQuiet, Dispatch, EndStepQuiet, InstallRejected, Drain, Close

(* A Drain that waits or has returned leaves no resource open, and when      *)
(* Close returns every resource is closed, for any number of dispatches and  *)
(* shutdowns that overlap.  (Drain, Close, Bind)                             *)
THEOREM ShutdownIsThorough == Spec => []ShutdownClosesResources
<1>1. Init => ShutdownInv
  BY DEF Init, ShutdownInv, Mapped, Refusing, OnDrainList, OnCloseList, ShutDown, Taken, Opened,
     DrainStates, Idle
<1>2. TypeOK /\ ShutdownInv => ShutdownClosesResources
  <2> SUFFICES ASSUME TypeOK, ShutdownInv PROVE ShutdownClosesResources
    OBVIOUS
  <2>1. resource \in [Ids -> {"none", "bound", "closing", "closed"}] /\ 0 \notin Ids
    BY DEF TypeOK, Ids
  <2> QED
    BY <2>1 DEF ShutdownInv, OnDrainList, OnCloseList, Taken, Opened, DrainStates,
       ShutdownClosesResources, CloseFinished
<1> QED
  BY <1>1, <1>2, TypesAndMutex, ReleasedAreClosed, ShutdownStep, PTL DEF Spec
=============================================================================
