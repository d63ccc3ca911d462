------------------------- MODULE CredentialScheduler -------------------------
(***************************************************************************)
(* How the credential manager (conductor.go), the scheduler that picks a    *)
(* credential per model (scheduler.go) and the cooldown files               *)
(* (cooldown_state.go) keep three copies of one truth: which credential is  *)
(* cooling for which model.  A call changes the manager under its mutex and *)
(* hands a copy, or the very object, to the others after the unlock.        *)
(* One provider, quota failures, and writes of files that succeed.          *)
(***************************************************************************)
EXTENDS Integers, Sequences, FiniteSets

CONSTANTS
  Creds, Models,
  Supports,    \* the models registered for a credential
  Keeping,     \* credentials whose quota cooldown a success does not clear
  Callers,     \* goroutines
  Period,      \* of a cooldown
  MaxRestored, \* cooldowns on file at the start
  MaxCalls, MaxClock

Shared == "shared"   \* the shard of the empty model key
Unused == -1         \* no ModelState
NotListed == -1      \* no entry in a shard
Nobody == "nobody"

ASSUME SchedulerBounds ==
  /\ Supports \in [Creds -> SUBSET Models] /\ Keeping \subseteq Creds
  /\ Shared \notin Models /\ Nobody \notin Callers
  /\ Period \in Nat \ {0} /\ {MaxRestored, MaxCalls, MaxClock} \subseteq Nat

VARIABLES
  heap, object,        \* the Auth objects of a credential, oldest first; auths
  scheduled,           \* the object in the scheduler's meta
  shards, shared,      \* modelShards, sharedModelKeys
  file, saver,         \* the cooldown files, and who holds configCooldownMu
  task,                \* what is left of a goroutine's call
  clock, calls,        \* the time, and the calls so far
  newest,              \* history: the last object that reached the scheduler,
  revived, flattened   \* cooldowns an Update brought back, models without their shard

memory == <<heap, object>>
index  == <<scheduled, shards, shared, newest, flattened>>
disk_  == <<file, saver, revived>>
timing == <<clock, calls>>
schedVars == <<memory, index, disk_, task, timing>>

Gone == [gone |-> TRUE]
Fresh == [gone |-> FALSE, disabled |-> FALSE, retry |-> [m \in Models |-> Unused]]

\* What is left of a call, for which credential, model and object.
Todo(steps, a, m, version) ==
  [steps |-> steps, auth |-> a, model |-> m, version |-> version, copy |-> Fresh,
   versions |-> [c \in Creds |-> 0], records |-> [c \in Creds |-> Fresh.retry]]
Idle == Todo(<<>>, Nobody, Shared, 0)

Present(a) == ~heap[a][object[a]].gone
Retry(a, m) == heap[a][object[a]].retry[m]
Cooling(a, m) == Present(a) /\ Retry(a, m) > clock

\* isAuthBlockedForModel: until when, or zero.  The empty model asks for what
\* updateAggregatedAvailability made of the states of the models.
BlockedUntil(auth, key) ==
  LET used == {m \in Models : auth.retry[m] # Unused} IN
  IF key # Shared THEN IF auth.retry[key] > clock THEN auth.retry[key] ELSE 0
  ELSE IF used = {} \/ \E m \in used : auth.retry[m] <= clock THEN 0
  ELSE CHOOSE t \in {auth.retry[m] : m \in used} : \A m \in used : t <= auth.retry[m]

Listed(auth) == ~auth.gone /\ ~auth.disabled
Serves(a, key) == key = Shared \/ key \in Supports[a]

\* upsertEntryLocked
Entry(a, auth, key) ==
  IF Listed(auth) /\ Serves(a, key) THEN BlockedUntil(auth, key) ELSE NotListed

\* ensureModelLocked; entries whose time has come are looked at again.
Ensured(metas, sh, key) ==
  [k \in DOMAIN sh \cup {key} |-> [a \in Creds |->
     IF k \notin DOMAIN sh \/ (k = key /\ sh[k][a] \in 1..clock)
     THEN Entry(a, heap[a][metas[a]], k) ELSE sh[k][a]]]

\* pickModelShardLocked, with sharedShardCanServeModelLocked.
KeyOf(m) ==
  IF m \in DOMAIN shards THEN m
  ELSE IF m \in shared \/ \A a \in Creds : Listed(heap[a][scheduled[a]]) => Serves(a, m)
  THEN Shared ELSE m

\* pickSingle returns one of these, or else an error.
Offered(m) ==
  LET key == KeyOf(m)  shard == Ensured(scheduled, shards, key)[key]
  IN {a \in Creds : shard[a] = 0}
PickShard(m) ==
  /\ shards' = Ensured(scheduled, shards, KeyOf(m))
  /\ shared' = IF KeyOf(m) = Shared THEN shared \cup {m} ELSE shared
  /\ UNCHANGED <<scheduled, newest, flattened>>

\* The service has started, and RestoreCooldownStates found these files.
SchedInit ==
  /\ \E restored \in SUBSET {p \in Creds \X Models : p[2] \in Supports[p[1]]} :
       /\ Cardinality(restored) <= MaxRestored
       /\ file = [a \in Creds |-> [m \in Models |->
                    IF <<a, m>> \in restored THEN Period ELSE Unused]]
       /\ flattened = {p[2] : p \in restored}
  /\ heap = [a \in Creds |-> <<[Fresh EXCEPT !.retry = file[a]]>>]
  /\ object = [a \in Creds |-> 1] /\ scheduled = object /\ newest = object
  /\ shards = <<>> /\ shared = {}
  /\ saver = Nobody /\ revived = {}
  /\ task = [g \in Callers |-> Idle]
  /\ clock = 0 /\ calls = 0

-----------------------------------------------------------------------------
(* The calls.  What a call does after its first critical section is in the  *)
(* steps of its task.                                                       *)

Call(g, rest) ==
  /\ task[g].steps = <<>> /\ calls < MaxCalls
  /\ calls' = calls + 1
  /\ task' = [task EXCEPT ![g] = rest]
  /\ UNCHANGED <<index, clock>>

\* A mutation in place, and the clone that leaves the critical section.
InPlace(a, retry) ==
  LET auth == [heap[a][object[a]] EXCEPT !.retry = retry] IN
  /\ heap' = [heap EXCEPT ![a] = Append([@ EXCEPT ![object[a]] = auth], auth)]
  /\ UNCHANGED object
Clone(a) == Len(heap[a]) + 1

\* Aggregation clears what has expired.
Settle(retry) == [m \in Models |-> IF retry[m] \in 1..clock THEN 0 ELSE retry[m]]

MarkResult(g, a, m, success) ==
  LET old == heap[a][object[a]].retry
      kept == success /\ a \in Keeping /\ old[m] > clock
      new == Settle([old EXCEPT ![m] = IF kept THEN @ ELSE IF success THEN 0
                                      ELSE clock + Period])
  IN
  /\ Present(a) /\ m \in Supports[a]
  /\ InPlace(a, new)
  /\ Call(g, Todo(IF ~success \/ new # old THEN <<"read", "write", "upsertModel">>
                  ELSE <<"upsertModel">>, a, m, Clone(a)))
  /\ UNCHANGED disk_

ResetQuota(g, a) ==
  LET old == heap[a][object[a]].retry
      new == [m \in Models |-> IF old[m] = Unused THEN Unused ELSE 0]
  IN
  /\ Present(a)
  /\ InPlace(a, new)
  /\ Call(g, Todo(IF new # old THEN <<"upsert", "read", "write">> ELSE <<"upsert">>,
                  a, Shared, Clone(a)))
  /\ UNCHANGED disk_

Install(a, auth) ==
  /\ heap' = [heap EXCEPT ![a] = Append(@, auth)]
  /\ object' = [object EXCEPT ![a] = Len(heap[a]) + 1]

\* The object itself goes to the scheduler.
Register(g, a) ==
  /\ Install(a, Fresh)
  /\ Call(g, Todo(<<"upsert">>, a, Shared, Clone(a)))
  /\ UNCHANGED disk_

RemoveAuth(g, a) ==
  /\ Present(a)
  /\ Install(a, Gone)
  /\ Call(g, Todo(<<"upsert", "read", "write">>, a, Shared, Clone(a)))
  /\ UNCHANGED disk_

\* An edit or a refresh takes a copy, and calls Update with it.
ReadCopy(g, a) ==
  /\ Present(a)
  /\ \E disabled \in BOOLEAN :
       Call(g, [Todo(<<"update">>, a, Shared, 0) EXCEPT
                  !.copy = [heap[a][object[a]] EXCEPT !.disabled = disabled]])
  /\ UNCHANGED <<memory, disk_>>

\* Update brings the cooldowns that were recorded meanwhile into the copy.
Merged(copy, existing) ==
  IF copy.disabled \/ existing.disabled THEN copy
  ELSE IF \A m \in Models : copy.retry[m] = Unused
  THEN [copy EXCEPT !.retry = existing.retry]
  ELSE [copy EXCEPT !.retry = [m \in Models |->
          IF existing.retry[m] > clock /\ existing.retry[m] > @[m]
          THEN existing.retry[m] ELSE @[m]]]

NextStep(g) == task' = [task EXCEPT ![g].steps = Tail(@)]

\* Faulty variant: the scheduler keeps the object that was replaced.
UpdateSilently(g) ==
  /\ task[g].steps # <<>> /\ Head(task[g].steps) = "update"
  /\ LET a == task[g].auth
         auth == Merged(task[g].copy, heap[a][object[a]])
     IN /\ Present(a)
        /\ Install(a, auth)
        /\ revived' = revived \cup {<<a, m>> : m \in
                        {k \in Models : auth.retry[k] # Retry(a, k)}}
  /\ NextStep(g)
  /\ UNCHANGED <<index, file, saver, timing>>

Update(g) ==
  /\ task[g].steps # <<>> /\ Head(task[g].steps) = "update"
  /\ LET a == task[g].auth
         auth == Merged(task[g].copy, heap[a][object[a]])
     IN IF Present(a)
        THEN /\ Install(a, auth)
             /\ task' = [task EXCEPT ![g] = Todo(<<"upsert">>, a, Shared, Clone(a))]
             /\ revived' = revived \cup {<<a, m>> : m \in
                             {k \in Models : auth.retry[k] # Retry(a, k)}}
        ELSE NextStep(g) /\ UNCHANGED <<memory, revived>>
  /\ UNCHANGED <<index, file, saver, timing>>

-----------------------------------------------------------------------------
(* The scheduler, under its own mutex.                                      *)

Larger(i, j) == IF i > j THEN i ELSE j
Upserted(a, version) ==
  [key \in DOMAIN shards |-> [b \in Creds |->
     IF b = a THEN Entry(a, heap[a][version], key) ELSE shards[key][b]]]

\* A result lists its credential again, though an older state had taken it off: the
\* models that share the common shard are not looked at.
Unfit(a, version) ==
  IF Listed(heap[a][version]) /\ ~Listed(heap[a][scheduled[a]])
  THEN shared \ Supports[a] ELSE {}

\* upsertAuth, and removeAuth of a credential that is gone.
Upsert(g) ==
  LET a == task[g].auth  version == task[g].version IN
  /\ task[g].steps # <<>> /\ Head(task[g].steps) = "upsert"
  /\ scheduled' = [scheduled EXCEPT ![a] = version]
  /\ newest' = [newest EXCEPT ![a] = Larger(@, version)]
  /\ shards' = Upserted(a, version)
  /\ shared' = IF heap[a][version].gone THEN shared ELSE {}
  /\ NextStep(g)
  /\ UNCHANGED <<memory, disk_, timing, flattened>>

\* Faulty variant: a model that cools gets no shard of its own.
UpsertForModelShared(g) ==
  LET a == task[g].auth  version == task[g].version IN
  /\ task[g].steps # <<>> /\ Head(task[g].steps) = "upsertModel"
  /\ scheduled' = [scheduled EXCEPT ![a] = version]
  /\ newest' = [newest EXCEPT ![a] = Larger(@, version)]
  /\ shards' = Upserted(a, version)
  /\ flattened' = flattened \cup Unfit(a, version)
  /\ NextStep(g)
  /\ UNCHANGED <<memory, disk_, timing, shared>>

\* upsertAuthForModel
UpsertForModel(g) ==
  LET a == task[g].auth  version == task[g].version  m == task[g].model
      metas == [scheduled EXCEPT ![a] = version]
      blocked == heap[a][version].disabled \/ heap[a][version].retry[m] > clock
  IN
  /\ task[g].steps # <<>> /\ Head(task[g].steps) = "upsertModel"
  /\ scheduled' = metas
  /\ newest' = [newest EXCEPT ![a] = Larger(@, version)]
  /\ shards' = IF blocked THEN Ensured(metas, Upserted(a, version), m)
               ELSE Upserted(a, version)
  /\ shared' = IF blocked THEN shared \ {m} ELSE shared
  /\ flattened' = flattened \cup Unfit(a, version)
  /\ NextStep(g)
  /\ UNCHANGED <<memory, disk_, timing>>

\* pickNext; an error is tried again with a scheduler that is rebuilt.
PickNext(g, m) ==
  /\ PickShard(m)
  /\ task[g].steps = <<>> /\ calls < MaxCalls
  /\ IF Offered(m) # {} THEN UNCHANGED <<task, calls>>
     ELSE /\ calls' = calls + 1
          /\ task' = [task EXCEPT ![g] =
               Todo(<<"snapshot", "rebuild", "again">>, Nobody, m, 0)]
  /\ UNCHANGED <<memory, disk_, clock>>

\* snapshotAuths
Snapshot(g) ==
  /\ task[g].steps # <<>> /\ Head(task[g].steps) = "snapshot"
  /\ heap' = [a \in Creds |-> IF Present(a) THEN Append(heap[a], heap[a][object[a]])
                              ELSE heap[a]]
  /\ task' = [task EXCEPT ![g] = [@ EXCEPT !.steps = Tail(task[g].steps),
       !.versions = [a \in Creds |-> IF Present(a) THEN Clone(a) ELSE object[a]]]]
  /\ UNCHANGED <<object, index, disk_, timing>>

Rebuild(g) ==
  /\ task[g].steps # <<>> /\ Head(task[g].steps) = "rebuild"
  /\ scheduled' = task[g].versions
  /\ newest' = [a \in Creds |-> Larger(newest[a], task[g].versions[a])]
  /\ shards' = <<>> /\ shared' = {}
  /\ flattened' = flattened \cup (DOMAIN shards \ {Shared})
  /\ NextStep(g)
  /\ UNCHANGED <<memory, disk_, timing>>

PickAgain(g) ==
  /\ task[g].steps # <<>> /\ Head(task[g].steps) = "again"
  /\ PickShard(task[g].model)
  /\ NextStep(g)
  /\ UNCHANGED <<memory, disk_, timing>>

-----------------------------------------------------------------------------
(* saveCooldownStates and persistCooldownStates.                            *)

Records(a) == [m \in Models |-> IF Present(a) THEN Retry(a, m) ELSE Unused]

\* Faulty variant: the records are read before the lock is taken.
ReadRecordsUnlocked(g) ==
  /\ task[g].steps # <<>> /\ Head(task[g].steps) = "read"
  /\ task' = [task EXCEPT ![g] = [@ EXCEPT !.steps = Tail(task[g].steps),
                                          !.records = [a \in Creds |-> Records(a)]]]
  /\ revived' = {}
  /\ UNCHANGED <<memory, index, file, saver, timing>>

ReadRecords(g) ==
  /\ task[g].steps # <<>> /\ Head(task[g].steps) = "read"
  /\ saver = Nobody /\ saver' = g
  /\ task' = [task EXCEPT ![g] = [@ EXCEPT !.steps = Tail(task[g].steps),
                                          !.records = [a \in Creds |-> Records(a)]]]
  /\ revived' = {}
  /\ UNCHANGED <<memory, index, file, timing>>

WriteFiles(g) ==
  /\ task[g].steps # <<>> /\ Head(task[g].steps) = "write"
  /\ file' = task[g].records
  /\ saver' = Nobody
  /\ NextStep(g)
  /\ UNCHANGED <<memory, index, revived, timing>>

SchedTick ==
  /\ clock < MaxClock
  /\ clock' = clock + 1
  /\ UNCHANGED <<memory, index, disk_, task, calls>>

Continue(g) ==
  \/ Update(g) \/ Upsert(g) \/ UpsertForModel(g)
  \/ Snapshot(g) \/ Rebuild(g) \/ PickAgain(g) \/ ReadRecords(g) \/ WriteFiles(g)

SchedNext ==
  \/ \E g \in Callers :
       \/ Continue(g)
       \/ \E m \in Models : PickNext(g, m)
       \/ \E a \in Creds :
            \/ \E m \in Models, success \in BOOLEAN : MarkResult(g, a, m, success)
            \/ ResetQuota(g, a) \/ Register(g, a) \/ RemoveAuth(g, a) \/ ReadCopy(g, a)
  \/ SchedTick

SchedSpec == SchedInit /\ [][SchedNext]_schedVars

-----------------------------------------------------------------------------
\* Types; a cooldown never ends later than one period from now.
SchedTypeOK ==
  /\ \A a \in Creds :
       /\ {object[a], scheduled[a], newest[a]} \subseteq DOMAIN heap[a]
       /\ \A m \in Models : Present(a) => Retry(a, m) \in Unused..(clock + Period)
  /\ DOMAIN shards \subseteq Models \cup {Shared} /\ shared \subseteq Models

NoCall == \A g \in Callers : task[g].steps = <<>>

\* What reached the scheduler last was older than what had reached it before.
Overtaken(a) == scheduled[a] < newest[a]

\* When no call is under way the scheduler has what the manager has, unless an
\* older state of the credential overtook a newer one on the way.  (MarkResult,
\* Update, Register, Remove, ResetQuota, syncScheduler)
SchedulerIsCurrent ==
  NoCall => \A a \in Creds :
    Overtaken(a) \/ heap[a][scheduled[a]] = heap[a][object[a]]

\* When no call is under way a cooldown is on file, and survives a restart,
\* unless an Update brought it back after the last save.  (saveCooldownStates,
\* persistCooldownStates)
CooldownsOnFile ==
  NoCall => \A a \in Creds, m \in Models :
    Cooling(a, m) => file[a][m] = Retry(a, m) \/ <<a, m>> \in revived

\* Whom a call may use, whatever the scheduler knows.
Usable(a, m) ==
  Listed(heap[a][object[a]]) /\ m \in Supports[a] /\ ~Cooling(a, m)

\* When no call is under way the scheduler offers nobody who is removed, disabled,
\* cooling for the model or not registered for it, unless an older state of the
\* credential overtook a newer one, or the model shares the common shard since a
\* restart or a rebuild took its own, or since a result listed a credential again
\* that an older state had taken off.  (pickSingle, pickModelShardLocked,
\* upsertAuthForModel)
OfferedIsUsable ==
  NoCall => \A m \in Models : \A a \in Offered(m) :
    Usable(a, m) \/ Overtaken(a) \/ (m \in flattened /\ KeyOf(m) = Shared)

\* The second attempt of a pick finds somebody when there is somebody to find, and
\* no other call is under way.  (pickNext)
UsableIsOffered ==
  \A g \in Callers :
    /\ task[g].steps = <<"again">>
    /\ \A other \in Callers \ {g} : task[other].steps = <<>>
    /\ \E a \in Creds : Usable(a, task[g].model)
    => Offered(task[g].model) # {}
=============================================================================
