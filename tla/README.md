# CPALITE: a TLA+ model of the proxy's shared state

CPALITE packages CLIProxyAPI, a Go proxy that speaks the APIs of several model
providers and spreads requests over a pool of credentials ("auths"), with a
management web interface and a plugin beside it. It may run alone or as a node
of a *Home* server that hands out slots on shared credentials. What makes it
hard is not the translation of requests, which is pure, but the state its
goroutines share: which executions are in flight, what Home is told of them,
which token of a credential is current, when it is refreshed, which credential
is cooling, what is on disk, and what happens to all of this when credentials
are edited, runs are stopped or the node shuts down.

All paths below are relative to `src/src/CLIProxyAPI/` unless they start with `src/`.

1. [Components of the system](#1-components-of-the-system)
2. [Modules](#2-modules)
3. [Model checking runs](#3-model-checking-runs)
4. [Fairness](#4-fairness)
5. [Proofs](#5-proofs)
6. [Findings](#6-findings)
7. [What is not modelled](#7-what-is-not-modelled)
8. [Plan](#8-plan)

Check a run with `tlc -config Components.cfg MCComponents`, and a proof with
`tlapm WatcherProofs.tla`. `PROJECT.json` names the lines of the source behind
each definition, and for each property a faulty variant of a definition (the
operators commented "Faulty variant") under which it fails.

## 1. Components of the system

| component | state | operations | must hold |
|---|---|---|---|
| **Execution registry** `sdk/cliproxy/executionregistry` | dispatch tokens, scopes with their resources, cumulative release sequences, the release sink, barriers; an atomic lifecycle state | BeginDispatch, Install, Bind, EndWithRelease, SetReleaseSink, Drain, Close, ObserveBarrier, FreezeInFlight | shutdown leaves nothing behind and returns; a release is counted once, after the resource is closed; a snapshot accounts for its barrier |
| **Release flusher** `internal/home/concurrency_release.go` | latest and acknowledged sequence and open tickets per group; timer, backoff | MarkDirty, SetSender, Run, Flush | acknowledged implies accepted; tickets complete; nothing dirty is forgotten |
| **Auto refresh loop** `sdk/cliproxy/auth/auto_refresh_loop.go` (in part) | heap of next checks, dirty set, wake-up channel, timer, job channel | rebuild, queueReschedule, applyDirty, handleDueAuth, workers, RefreshQueueSnapshot | a due credential is refreshed; the loop neither oversleeps nor spins |
| **Credential manager** `sdk/cliproxy/auth/conductor.go` (in part) | auths, removed ids, refresh locks, errors and cooldowns | Register, Update, Remove, refreshAuth, MarkResult, ResetQuota | never a refresh with a spent token; removal is final; a cooldown outlives an update |
| **Scheduler, cooldown files** `scheduler.go`, `cooldown_state.go` (in part) | shards of ready and blocked credentials per model; the records on disk | upsert, remove, rebuild, pick; save, load | never offers what is cooling; a restart finds every cooldown |
| **Session caches** `session_cache.go`, `home_session_alias.go` | aliases of a conversation with auth and expiry; groups of names, eviction order | Get, SetAliases, CompareAndDelete, Invalidate; canonical | aliases of one conversation agree; no alias leads nowhere |
| **Credential persistence** `conductor.go`, `sdk/auth/filestore.go` | snapshots to save, the file of a credential | queuePersist, persistLoop, Save, Delete | file and manager agree when all are done |
| **Model registry** `internal/registry` (in part) | counts per model and provider, quota marks, suspensions, shared profiles | RegisterClient, UnregisterClient, SetModelQuotaExceeded, ... | counts match the clients |
| **Watcher** `internal/watcher` (in part) | auths by file, runtime auths, pending updates, the channel to the service | events, reloads, dispatch, dispatchLoop | the manager converges to disk and connections |
| **Websocket relay** `internal/wsrelay` (in part) | pending requests of a session | request, dispatch, cleanup | nobody hangs; an answer arrives whole |
| **OAuth sessions** `internal/api/handlers/management` (in part) | sessions by state | register, complete, cancel, guard | a cancelled login saves nothing; "ok" means saved |
| **Account inspection** `account_inspection_ssfun.go` (in part) | the run, its workers, results and summary | start, pause, resume, stop, probes, actions | workers wake up; actions rest on answers |
| **Usage manager and queue** `sdk/cliproxy/usage`, `internal/redisqueue` | records waiting, items, subscribers, the switch | publish, Enqueue, subscribe, pop, SetEnabled | no record in two places or in none |
| **OpenAI compatibility state** `internal/openai_compat_state` (in part) | dirty states per key, the table | update, flush, Close, replacement | the newest state is kept |
| In-flight publisher | configuration | one frame series per snapshot | only its barrier is modelled, in the registry |
| Home client, stores, plugins, executors, translators, API, configuration, packet capture, replay caches, web interface, Grok manager | connections, files, libraries, documents | I/O and pure transformation | not modelled, see section 7 |

### How they interact

The conductor asks Home for a credential between `BeginDispatch` and `Install`;
the executor binds the resource that cancels the attempt; the end of the stream
ends the scope, whose release goes through the sink (`MarkDirty` of the flusher)
to Home. The publisher freezes the registry at intervals, with the barrier Home
asked for last. The service drains or closes the registry when the connection
to Home ends.

The watcher, the relay and the management API register, update and remove auths
in the manager. The manager tells the refresh loop (`queueReschedule`), the
scheduler, the store and, through the service, the model registry. The loop's
workers and requests that got a 401 refresh an auth through its executor and
write it back with `Update`. Results (`MarkResult`) change errors and cooldowns,
of which the scheduler gets a copy after the unlock and the cooldown files
another. Logins and uploads write files, which the watcher brings back. Every
request publishes a usage record.

The hard behaviour is the same everywhere: a mutex is released and a value read
under it is used (sinks, snapshots of auths, batches of updates, sessions,
results); operations that last seconds, refreshes, exchanges, probes, while what
they began from is edited, removed or cancelled; channels of capacity one as
wake-ups; queues that coalesce, drop or repeat. The hazards in `PROJECT.json`
name each of these at its line.

## 2. Modules

| module | models | checked by |
|---|---|---|
| `ExecutionRegistry` | the registry | `MCExecutionRegistry` (symmetry) |
| `ReleaseFlusher` | the flusher, with a Home that loses, repeats and delays frames | `Components`, `ReleasePipeline` |
| `ReleasePipeline` | registry and flusher composed: the sink is MarkDirty | itself |
| `ReleaseAccounting` | the abstract promise: Home frees slots of ended executions only | refined by `ReleasePipeline` |
| `RefreshSchedule` | the pure functions nextRefreshCheckAt and shouldRefresh | `AutoRefresh` |
| `AutoRefresh` | loop, workers, 401 recovery, edits, results | `MCAutoRefresh` (credentials) |
| `WatcherDispatch` | events, reloads, relay connections, dispatcher, consumer | `Components`, itself |
| `CredentialScheduler` | manager, scheduler and cooldown files as copies of one truth | `Components` |
| `SessionAliases`, `SessionCache`, `HomeSessionAlias` | what the caches share; the affinity cache; the names in Home mode | `Components` |
| `ModelRegistry` | registration, reconciliation, marks | `Components` |
| `RelaySession` | one websocket session and its requests | `Components` |
| `AuthPersistence` | the file of a credential and all its writers | `Components` |
| `OAuthSessions` | login flows and their sessions | `Components` |
| `CompatState` | states of API keys, written behind | `Components` |
| `AccountInspection` | an inspection run beside the user's own calls | `Components` |
| `UsageQueue` | usage manager, queue, subscribers, forwarder | `Components` |
| `Components` | the components that share no modelled state, one at a time | `MCComponents` (registrations, settings) |
| `ExecutionRegistryProofs`, `ReleaseFlusherProofs`, `ReleasePipelineProofs`, `AutoRefreshProofs`, `WatcherProofs`, `CredentialProofs`, `ServiceProofs`, `ComponentsProofs` | theorems, section 5 | |

Conventions: an action is one critical section, one operation on a channel or
an atomic, or one call that leaves the process, with the local code that
follows it. What goroutines carry from one step to the next is in variables
(`hand`, `place`, `spot`, `critical`, ...). A variable commented "history" is
read by properties only and by no guard.

### ExecutionRegistry

Each critical section of `Registry.mu` is one action. `Registry.state` is an
atomic which Drain and Close change *without* that mutex, while BeginDispatch,
Install and Bind read it inside: these three are two actions each, the check and
the update, and `critical` names the one that holds the mutex in between.
EndWithRelease is five actions (deactivate, start closing the resource, count
the release, call the sink, remove the scope), for it drops the lock between
them. `drain[d] = "waiting"` is a Drain asleep on the channel it took;
`signalLocked` turns it into `"woken"`. SetReleaseSink swaps the sink under the
mutex and then replays the sequences it copied, one group at a time.

`WaitPending` and a second call of Close only wait; a second End of a scope is
absorbed by its `sync.Once`. None changes the state, so none has an action.
A close function that returns an error ends as one that does not. The SDK exports
Drain and SetReleaseSink; the service itself calls Close.

### ReleaseFlusher, ReleasePipeline and ReleaseAccounting

The flusher keeps `latest` and `acked` per group and the open tickets. Run is a
select over the two channels and the timer; a flush copies what is dirty under
the mutex and sends group by group without it. A delay is "now" or "later" and
may expire at any time in both cases; the interval and the exponent of the
backoff are left out. Home is external: it keeps the highest sequence it
accepted, frames stay in flight after they arrive (duplicates, reordering), and
a send fails before or after Home accepted it.

In `ReleasePipeline` the two calls of the sink by the registry are
joint actions with MarkDirty; all others are steps of one component. The
refinement takes `releaseSequences` for what has ended and `home` for what is
freed. `FreedSlotsAreIdle` adds what the abstract module does not know:
resources.

### RefreshSchedule and AutoRefresh

`RefreshSchedule` translates the decisions by their conditions: a 401, an API
key, the next refresh time that was set, a refresh interval of the
credential, its expiry, the lead of its provider. shouldRefresh holds the lead
against the clock (`time.Until`) and everything else against the time its caller
has read: it takes both. `ProviderRefreshLead` returns
only positive leads, so the branch of shouldRefresh for others is not there. A credential
with a `RefreshEvaluator` may be answered either way (`Verdicts`).

`AutoRefresh` has one process per goroutine: the loop, workers, requests that
may meet a 401, editors (management calls and the watcher), and inspectors
(RefreshQueueSnapshot). Each critical section of the manager's mutex, of the
loop's and of an auth's refresh lock is one action. An executor's Refresh runs
between `Lock` and `RefreshSucceeds` or `RefreshFails`, and everything else may
happen there. Editors copy an auth and write it back later, as the handlers do.
The heap is a function from an auth to its next check (0: absent); auths due
together are handled in any order.

Tokens are numbers in the order in which they were issued; LastError is "a 401
or not"; cooldowns of all models are one retry time, with `Cooldown = 0` for
cooling disabled; `Enabled = FALSE` is Home mode, where the service starts no
loop. History: `spent`, tokens that a refresh has replaced; `lapsed`, auths that
a result made schedulable (section 6) or that were registered again before a
late unschedule of their removal. Stopping and replacing the loop are left out.

### WatcherDispatch

Three producers, the event goroutine, configuration reloads and the relay's
channels, read their sources, compare them with `currentAuths` and queue the
difference: three steps, under different mutexes. The dispatcher takes a batch of
what is pending, coalesced by id, sends it one by one into a bounded channel and
sleeps on a condition; Stop ends it. The consumer applies an update to the
manager. Events are of a path, may be coalesced by the operating system, and are
debounced (a removal) or skipped when the hash is known. History: `last`, the
last update queued for an id; `excused`, auths with a reload overlapping their
update, a change read before its event, or a debounced removal.

### CredentialScheduler

The manager holds, for a credential, an object; what a call hands to the
scheduler after its unlock is a copy or that very object, so `heap` keeps the
objects of a credential in the order in which they were made and `scheduled` the
one the scheduler last took. A credential has a retry time per model; MarkResult,
Update (with its merge of cooldowns), Register, Remove and ResetQuota
change it and call the scheduler and the cooldown files. The scheduler lists a
credential in the shard of a model or, for models without one, in the shared
shard, where it is blocked by the sum of its models. History: `revived`,
cooldowns that an Update brought back after the last save; `flattened`, models
that share the common shard since a restart or a rebuild took theirs, or in
which a result listed a credential again that an older state had taken off.

### SessionCache and HomeSessionAlias

Both keep groups of identifiers of one conversation, with at most one prompt
cache key and a bounded number of others (`SessionAliases`); which members
compaction drops depends on their order, hence is a choice. Every operation
holds the mutex, and what is hard is the sequence of operations. In Home mode,
entries are kept by alias, groups by canonical name and the eviction order is a
list: a total preorder here, which keeps what the code distinguishes. A limit
evicts whole groups until the aliases fit. History: `gone`, identifiers that
were invalidated and not named since.

### ModelRegistry

Counts are moved by hand when a client registers again with other models or
another provider: the difference of the old and the new list, per model
and per provider, as in `reconcileClientModels`. Lists may repeat a model
(`MaxCopies`), and a client may come without a provider (`NoProvider`), which is
counted in total only. Quota marks and suspensions are sets of clients per model.
History: `ghosts`, marks of clients that do not offer the model, which a late
result leaves.

### RelaySession

The pending map is a `sync.Map`; each access to it, each operation on a channel or
the connection is a step. cleanup ranges over the map in any order, closes what it
finds, replaces the map (`Reset`) and closes the connection (`Unplug`), while
requests, the watchers of their contexts and the reader go on. The watcher of a
context outlives its request, whether that is done or has failed. A send on a
closed channel panics (`panicked`), which the code can do and no property forbids.
A requester's channel has a capacity, and a message that finds it full is dropped
(`lost`).

### AuthPersistence

One credential: its `stored` file, what the watcher `hashed`, what the manager
`kept`, the snapshot for the delayed save, and goroutines with a copy in `hand`.
Refreshes and edits save after the unlock, results leave a copy for persistLoop,
which is a goroutine of its own, uploads, logins and deletions write the file
first. A deletion of one file removes the auth, the deletion of all disables it by
Update. A disabled copy is not written to a file that is gone, but Save looks at
the file before it takes its lock, so that a deletion in between is undone. A
disabled auth is refreshed like any other when a request asks for it. An auth that
was removed is not updated. History: `misled`, the last save of an unchanged hash
was of a copy the manager had replaced.

### OAuthSessions and CompatState

A session is a record under one mutex; the goroutine of its flow looks at it from
time to time, and cancels, polls, expiry and other flows of the provider change it
meanwhile. The login of a plugin has no goroutine: each call of GetAuthStatus
polls the plugin (`Pollers`, `poll`), and two calls may poll and save for one
session at once. A save may fail after the file is written (the hook, or a later
record of a plugin): the session then is in error. `Unguarded` flows do not look
again before they save, `Solitary` ones complete their own session only. History:
`withdrawn`, sessions cancelled while a look was still ahead; `interrupted`,
cancelled during the wait or the exchange; `credited`, whose flow has saved.

In `CompatState` an update makes a key dirty, the writer takes all dirty keys
and commits them outside the mutex, Close does so once more, and the default
service may be replaced while goroutines hold the old one. A commit may lose all that
it took or single keys of it: the error of a statement is ignored as that of
the transaction is. States are numbered. History: `newest_`, and `forsaken`, the keys
whose last update the code gives up: the commit lost it, its service had begun
its last flush, or another service had the key to write. The next update without any
of this takes a key off it.

### AccountInspection

A run lists the accounts, all or a sample of them, or fails at that; its workers
probe one each, pause on a condition, and end; then the automatic actions of the
settings run. An action fails when the credential is gone, and a deletion also
when the file or its record cannot be removed; `Manager.Update` has no error to
return. Stop and the timeout end the context, which wakes nobody by itself: a
watcher of the context does. Meanwhile and between runs users probe single
accounts, refresh tokens and carry out actions; each of their calls (`Operators`)
does so first and enters the outcome in the list later, under the mutex. A probe
finds one of five answers; one that is cut by a stop is an answer of its own.

### UsageQueue

Publish, the goroutine that dispatches, and Stop; Enqueue as three steps (the
switch, the offer to the subscribers, the entry among the items); pollers; the
forwarder, which brings back what Home did not accept; expiry; and the switch,
which clears the items and cuts off subscribers. History: `settled`, the records
that are done; `published`, `since` and `consumed`, what a subscriber should have
read and has.

### Components

`Components` takes one of its components (`focus`) and leaves the others at
rest: they share no state that their models keep, so that their interleavings
say nothing more. One run then checks all of them, and the view tells TLC
to look at the one in focus.

## 3. Model checking runs

| run | instance | shows |
|---|---|---|
| `RegistryShutdown` | 2 dispatches that may both bind, one Drain, one Close | `DrainedStaysEmpty`, `ShutdownClosesResources`, `NoReleaseWhileOpen`; `DrainReturns`, `CloseReturns` |
| `RegistryRelease` | 2 dispatches of one group, 2 sinks, 2 calls of SetReleaseSink, 2 barriers, 2 snapshots | `ReleasesCountEnds`, `SinkCaughtUp`, `SnapshotAccountsForBarrier` |
| `Pipeline` | 2 dispatches of one group, the sink set at any time | `FreedSlotsAreIdle`, `ImplementsAccounting`; `ReleasesReachHome`, `TicketsComplete` |
| `RefreshLoop` | one auth of any of five kinds (`Mixed`), one worker, results, clock to 3 | `ScheduledInTime`, `NeverSpinning`; `DueIsRefreshed` |
| `RefreshEdits` | one auth with an expiry, a worker, an editor, results with a cooldown | `RemovedStaysRemoved`, `SleepsUntilHead`, `CooldownSurvives` |
| `RefreshTokens` | a worker, a request that meets a 401, an inspector | `NoTokenIsRefreshedTwice` |
| `Components` | each component by itself, see below | `TypeOK` and twenty invariants |
| `RefreshForgotten` | results that record and clear a 401 | violates `EveryAuthIsEvaluated` |
| `RefreshInspected` | an editor and an inspector | violates `SleepsUntilHead` |
| `WatcherStale` | one file, one reload | violates `LatestStateIsApplied` |
| `LoginCancelled` | the logins of `Components` | violates `InterruptedSavesNothing` |
| `SchedulerRefuses` | the scheduler of `Components`, with a cooldown on file | violates `UsableIsOffered` |

The last five show what a comment or a document says and the code does not do:
section 6. `TypeOK` of `Components` is the conjunction of the type invariants of
its parts.

| focus in `Components` | instance | invariants |
|---|---|---|
| watcher | a file with a valid and an invalid content, a relay channel, a reload, 2 changes, a channel of capacity 1 | `FinalActionIsApplied`, `SettledMatches` |
| scheduler | 2 credentials and 2 models, one of them served by one credential only, 2 calls | `SchedulerIsCurrent`, `CooldownsOnFile`, `OfferedIsUsable` |
| cache, names | 4 identifiers, 2 of them prompt cache keys, one other allowed in a group; 2 accounts; 3 names at most | `AliasesAgree`; `NamesAgree` |
| models | 2 clients, models and providers, or no provider; a model listed up to twice | `CountsMatchClients` |
| relay | 2 requests, one of them a stream, buffer 1; the context of one may end | `NobodyHangs`, `AnswersAreWhole` |
| files | 2 goroutines, persistLoop and the watcher, 3 tokens, 3 operations | `FileMatchesManager` |
| logins | 2 sessions of 3 builtin providers and a plugin, 2 calls that poll | `CancelledInTimeSavesNothing`, `OkMeansSaved` |
| keys | 2 services, 2 keys, 2 updates | `NewestIsKept` |
| releases | a group with sequences to 2, one Flush, the sender set or unset twice | `FlushMeansAccepted` |
| inspection | 2 accounts of one file, one disabled; 2 workers; a probe finds the account gone, unless a stop cuts it; a run and a call of the user | `SleepersAreWoken`, `ActionsRestOnAnswers`, `SummaryMatchesResults` |
| usage | 2 records, a notice, a subscriber with a buffer of 2, the switch turned twice | `RecordsAreAccounted`, `SubscribersMissNothing` |

### The bounds and why they suffice

Each bound is a constant that guards an action which advances a counter: of
dispatches, barriers and snapshots (`MaxDispatches`, `MaxBarrier`, `MaxFreezes`),
sequences and senders (`MaxSequence`, `MaxSenderSets`), times (`MaxTime`,
`MaxClock`), tokens (`MaxToken`, `MaxIssued`), changes of files and connections,
reloads (`MaxChanges`, `MaxReloads`), calls (`MaxCalls`, `MaxBegun`, `MaxStarts`,
`MaxByHand`), cooldowns at the start (`MaxRestored`), copies of a model in a list
and marks (`MaxCopies`, `MaxMarks`), parts of answers (`MaxChunks`, in all answers
together), requests whose context ends (`MaxCancels`), updates (`MaxStates`),
records, notices and turns of the switch (`MaxRecords`, `MaxNotices`, `MaxFlips`). `MaxStable`, `SoftLimit`, `Capacity`,
`Buffer`, `StreamBuffer`, `PopCount` and `JobBuffer` are limits of the program
itself, made small so that they are reached.

- Two of what competes, and one of what they compete for, is enough for each
  race that the hazards list: two dispatches give a scope that ends while another
  binds, installs or ends, and sequences that overtake each other; two goroutines
  with a snapshot each can reach the scheduler, the file or the table in either
  order; two workers give one that sleeps while the other ends the run.
- One auth in `AutoRefresh`: auths share only the channels, and the job channel
  of capacity one makes the loop block with one auth already, when a request or
  the loop itself queues it again. The five kinds of `Mixed` reach each branch of
  the schedule: an expiry, a refresh interval, an API key, an evaluator that may
  answer either way, and a provider without an executor. Unit delays and a clock
  to 2 or 3 give room for one refresh, its backoff and a second refresh.
- One call of a user at a time in the inspection: two at once are in the model and in
  the proofs, but make the run too long. The list and its summary are
  only changed under the mutex, each time as a whole, so that two calls differ from
  one after the other only in what they bring. Of the answers of a probe the run
  has the one on which the settings delete, and the error of a cut probe, which must
  not be taken for an answer; the others differ in the action they suggest.
- Four identifiers give two groups that a call merges and whose union is beyond
  the bounds, and a limit of three evicts one.
- One group in the flusher: the theorems of section 5 cover any number, and their
  only interaction is the loop, which sends one after the other.
- What a bound cuts off, the theorems cover: but for liveness every
  property of the passing runs is proved for any size.
- Deadlock is not checked: when bounds are reached the instance stops, and a
  registry that is closed, a loop that has returned or a session that is over
  stops as well. That nobody waits for ever is stated where it matters
  (`DrainReturns`, `NobodyHangs`, `SleepersAreWoken`, ...).

## 4. Fairness

- `RegistryShutdown`: goroutines run; `sync.Mutex` hands a starving waiter the
  lock (hence strong fairness of steps that need the mutex); close functions
  return; a caller ends the token it began. An execution with an open resource
  may last for ever, and nothing makes anyone drain, close or expire.
- `Pipeline`: the loop and its timer run, the calls of the sink are made, and a
  send succeeds again and again (strong fairness of the acknowledgement). Without
  a sender or after Run returned nothing is promised, which the properties say.
- `RefreshLoop`: goroutines run, the refresh lock does not starve a waiter, an
  executor returns. Nothing makes the clock advance, nor editors or requests act.

## 5. Proofs

Everything below is checked by TLAPS, from the assumptions on constants that each
module names (finiteness where something is counted, disjointness of names,
bounds that are natural numbers), for every number of actors and every size. The
bounds of the models are arbitrary constants in the proofs. The list of theorems
with the property each states is in `PROJECT.json`; this is how they go.

**`ExecutionRegistryProofs`.** `TypeOK /\ MutexOK` comes first, where `MutexOK`
says that what the holder of the mutex has checked still holds when it acts (the
id is pending; the scope is active and has no resource). `ReleasedAreClosed`
(`NoReleaseWhileOpen`) follows in a step. `DrainIsFinal` (`DrainedStaysEmpty`)
needs that after the compare-and-swap of a Drain no check can begin, and that
one begun before is seen by Drain, because both need the mutex.
`ReleasesAreCountedOnce`: `Counted` relates the sequence of a group to the
cardinality of the scopes past their count, `Fresh` keeps an id that was not
dispatched out of all sets, `NotAhead` bounds what sinks were told. `SinkIsInformed`:
`Informed` follows each sequence from its count to the current sink, in the hand
of an EndWithRelease or of a replay. `BarrierIsHonest`: a frozen snapshot
lists what was begun before its barrier, or it is done or handed on
(`BarrierClear`, `LeftOutIsDone`, `Handed`). `ShutdownIsThorough`: every scope
with an open resource is on the list of each shutdown under way (`OnDrainList`,
`OnCloseList`), because none is installed or bound once the registry refuses
(`Refusing`) and all that is active is in the map (`Mapped`).

**`ReleaseFlusherProofs`.** One inductive invariant: `FramesOK` says that nothing
sent is newer than what was marked and nothing a Flush waits for is. With it
`AcksAreAccepted`, `TicketsAreExact` and `FlushIsHonest` are inductive together;
`PromptInv` adds that what is dirty during a flush is in this flush or has a
wake-up pending, from which `MarksArePrompt`.

**`ReleasePipelineProofs`.** The pipeline implements the registry and the
flusher (every step is one of theirs or a stutter), so that their theorems hold
in it; `Linked` says that what the flusher was told is what the registry counted. With
it `NoRunningSlotIsFreed`, and the refinement `PipelineImplementsAccounting`:
each step ends an execution, frees slots of ended ones, or is a stutter.

**`AutoRefreshProofs`.** `DueIsNeverMissed` and `IdleChecksSleep` relate the two
functions that the code keeps in two files, by arithmetic, for all times and
settings. `RefreshTypes` and an invariant of the refresh lock (`LockInv`) give
`RefreshesAreSerial`. `TokensAreRefreshedOnce`: the stored token is never spent,
spent ones are smaller, and a copy in use under the lock has the stored token
(`StoredTokens`, `SpentTokens`, `CopiedToken`). `CooldownsSurvive` and
`LoopNeverSpins` are action properties; the second needs that a job whose auth
is not due any more was put off. `LoopSleepsUntilHead` and `NothingIsForgotten`
share the invariants of the channel and the timer (`DirtyWakes`: what is dirty
has a wake-up or a loop on its way; `TimerCovers`) and of the schedule
(`LoopFacts`, `AllKnown`). Both assume `Inspectors = {}`, because with an
inspector they are false: `RefreshInspected`. `RemovalIsFinal` follows from the guard
of Update under the manager's mutex.

**`WatcherProofs`.** `UpdatesArrive` (`FinalActionIsApplied`): the last update of
an id is pending, in the batch, in the channel or applied, and whatever of its
id is further on is older (`Carried`); this rests on lemmas about sequences
without two entries of an id. `SourcesAreMatched` (`SettledMatches`): unless an auth is
excused, what was last queued is what the current auths have, which are what the
caches say, and these agree with disk and connection or an event is on its way
(`Agreed`, `Told`, `KeptFile`, `Seen`). `WatcherTypes` adds what the dispatcher's batch
and channel hold (`Shaped`).

**`CredentialProofs`.** `FileAndManagerAgree`: when file and manager differ,
something that will tell one of the other is on its way (`OnTheWay`); two of these
messengers may be refused, and then another is under way (`NoFileToWrite`,
`UpdateInVain`). `SchedulerCatchesUp` and `CooldownsAreSaved`: a difference is in
the hands of a call that will still report (`Arrives`) or save (`OnFile`).
`OffersAreUsable` needs besides that shards list who is registered (`ShardsFit`),
that the shared shard fits its aggregates (`SharedFit`), and that what cools is
noted or is about to be (`CoolingNoted`). `CountsAreKept`: the counts are
cardinalities over clients and their lists (`Tallies`), with lemmas that a call
moves them by its own difference, for any provider or none (`AnyProvider`),
references to profiles are users (`UsesOf`), and marks belong to clients or are
ghosts (`MarksFit`). The types: every copy has a token that was issued by then, or
is none (`Issued`, for `PersistTypesHold`); no cooldown of an object or of a copy
that will be handed to Update ends later than one period from now (`InTime`, for
`CooldownsEnd`); a registration without clients is removed (`Emptied`, for
`RegistrationsGoWhole`).

**`ServiceProofs`.** Relay: while a session lives every open channel is in the
map, when cleanup starts every written request is still to be visited, and none
can be written any more (`Mapped`, `StillVisited`, `NoneOpen`), which gives
`NobodyHangsOnARelay`; `AnswersStayWhole` compares what was sent with what was
read and is queued (`Unasked`, `Underway`, `Returned`). Logins: `CancelHolds` from
where a withdrawn flow can still be (`Doomed`), `OkIsVouchedFor` from who may
complete a session (`Known`, `SavedLast`, `Credited`, `LoginsVouched`). API keys:
`NoStateIsLost` from the roles of writer and Close (`ServiceRoles`, `Phases`,
`SoleWriter`) and where the newest state is (`LastIsNewest`); it excepts the keys
the code gives up (`forsaken`), as `AnswersStayWhole` excepts requests whose
message was dropped on a full buffer, which were cancelled, or whose session is
over. Usage: `EveryRecordCounts` counts the places of a record over all queues
(`PlacesOf`, `Placed`); `SubscribersAreServed` keeps consumed and queued records a
contiguous part of what was published (`Follows`). Inspection: `NobodySleepsOn`
(`SleepInv`), `CutProbesAreHarmless` (`CutInv`), `SummaryNeverDrifts`
(`SummaryInv`, cardinalities moved by differences). Caches:
`ConversationsStayWhole`: `AliasesAgree` is inductive, since groups that share an
alias are one group, so that removing the groups of the identifiers in hand
removes them whole. `OneNamePerConversation` (`NamesAgree`): expired entries and
groups go at different times, so that the invariant says that entries lead to a
group that has them (`EntriesLead`, `GroupsHold`), that the order is total on the
groups (`Ordered`), and that a group that lost its own name has no room for it
(`NoRoomLater`): this is what keeps a later merge from splitting it.
`NamesStayWithinLimit` is the limit. The types need little more: what a requester
has got and what waits for it (`Buffered`, `Chunks`), the numbers of states
(`Numbered`), the capacities of the usage queue (`Limited`), and that a run goes
on exactly while the state says so (`Running`, `HandsHoldAccounts`,
`AccountsOnly`).

**`ComponentsProofs`.** A behaviour of `Components` is one of each component
(`WatcherIsPart` ... `UsageIsPart`): the component that moves takes its own steps,
the others stutter. Hence the theorems above hold of the specification
that the run `Components` checks: `TypesHold` (`TypeOK`), `CredentialsAgree` and
`ServicesKeepTheirPromises` state all of its invariants.

Model-checked only:
- Liveness, as TLAPS does not reason about fairness and ENABLED here:
  `DrainReturns`, `CloseReturns`, `ReleasesReachHome`, `TicketsComplete`,
  `DueIsRefreshed`.

No theorem is by induction over data: facts about queues are stated by index,
and what is counted is the cardinality of a set.

## 6. Findings

Each has a run that finds it.

- `RefreshForgotten` (`sdk/cliproxy/auth/conductor.go`, MarkResult). A result with a
  401 makes nextRefreshCheckAt unschedule the auth, so that the loop drops it; a
  later success clears the error but reschedules nothing. The auth can be refreshed
  and nobody evaluates it, until some Update. The comment of StartAutoRefresh
  promises a loop that "evaluates auth freshness every few seconds".
- `RefreshInspected` (`refresh_queue_snapshot.go`). RefreshQueueSnapshot, a
  "read-only snapshot" by its comment, runs applyDirty on the caller's goroutine. If
  the loop handles its wake-up after the dirty set was drained but before
  the queue is written, it finds nothing and sleeps past the auth.
- `WatcherStale` (`internal/watcher/dispatcher.go`). refreshAuthState reads the
  files without a lock; one that is removed, and whose removal is dispatched, before
  the comparison is added again and stays, though the documentation says that "the
  latest state is eventually applied".
- `LoginCancelled` (`internal/api/handlers/management/auth_files.go`). The Gemini
  flow does not call guardOAuthSessionPendingForSave before it saves, as its comment
  asks of every flow: a login cancelled during the exchange is saved.
- `SchedulerRefuses` (`scheduler.go`). The shared shard blocks a credential when all
  models it has a state for are blocked: one that cools for a model is refused for
  another that has no shard, though isAuthBlockedForModel would allow it.

Seen while modelling, without a run of their own; the models contain the first
seven, most of them as exceptions that their properties name:
- An upsert that an older disable or removal overtook, and a result after it, list a
  credential again without clearing the keys of the shared models; a shared model is
  then offered a credential that is not registered for it (`flattened`).
- The late queueRefreshUnschedule of a removal unschedules an auth that was
  registered again in between (`lapsed`).
- Two results whose snapshots are queued in the other order leave the file enabled
  while the manager has the credential disabled (`misled`).
- A file deleted between the look of a disabled auth's save at it and the save is
  written anew.
- A request of the relay that cleanup or its context ends while the reader has
  loaded it: the send on its closed channel panics (`panicked`).
- Two flushes of two services, or a failed statement, lose the newest state of a key
  (`forsaken`); "ok" may be told for a login when only another of its provider has saved.
- A login cancelled between the guard and the save is told so, and saved.
- A record can enter the usage queue after the switch cleared it and comes out when
  it is switched on again; one offered only to subscribers that are all cut off is lost; the
  forwarder's retries enter behind newer records with their age renewed, and Home gets
  a duplicate when an answer is lost. The process does not wait for the drain.
- Inspection: stop and pause do not reach the automatic actions, and such a run ends
  "completed"; a probe that a stop cuts off marks its credential with an error,
  though the refresh path says it keeps the account as it was; what the user does by
  hand during a run is overwritten by its end; setting an old next run starts one at once.
- `src/src/grok-manager/autoban.go`: saveBans drops sticky rows that expired, which
  loadBansOnStart says are kept; snapshots of two saves overtake each other.

## 7. What is not modelled

Network and file I/O (Home client, remote stores, executors), calls into dynamic
libraries (plugins), pure transformations of documents (translators, thinking,
signatures), configuration, logging, the terminal and web interfaces, packet
capture, the replay and signature caches (a bounded map behind one mutex each), and
the Grok manager.

In the modelled components: the contents of snapshots, frames and records, hooks,
model aliases, log messages, the exact delays, priorities and cursors among
credentials that are ready, and providers that are mixed in one pool. Of the
refresh loop, stopping and replacing it; of the watcher, a remote store and
auths from the configuration; of the logins, the callback files; of the
inspection, when the next run is due. A crash between the files of two cooldowns
is not modelled: they are independent, so that a restart finds for each credential
what some save left. That Update lets the older of two copies win is what the
code does, and no property forbids it; the properties hold but for it.

`PROJECT.json` gives each component a status and a note.

## 8. Plan

Done: the modules and theorems above. What is left, most important first.

1. Two starts of the refresh loop: stopRefresh and the replacement of a running one,
   with the jobs of the old one.
2. Edits that a concurrent refresh loses in Update (`conductor.go:2653`): which
   fields survive, as a property of the merge.
3. The crash between two cooldown files, with the Postgres store beside.
4. The bans of the Grok manager and the schedule of inspections.
