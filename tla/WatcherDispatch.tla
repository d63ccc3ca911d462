---------------------------- MODULE WatcherDispatch ----------------------------
(***************************************************************************)
(* How the files of the auth directory and the runtime auths of the relay   *)
(* reach the credential manager: internal/watcher (events.go, clients.go,   *)
(* config_reload.go, dispatcher.go) and its consumer in                    *)
(* sdk/cliproxy/service.go.                                                *)
(*                                                                         *)
(* Producers are the event goroutine, which holds authRescanMu from the     *)
(* event to its dispatch, configuration reloads, and relay channels.  Each  *)
(* reads its sources, compares them with currentAuths under clientsMutex,   *)
(* and queues the updates under dispatchMu: three steps, and the others run *)
(* in between.  A file holds one auth with the file's name as its id.       *)
(***************************************************************************)
EXTENDS Integers, Sequences, SequencesExt, FiniteSets

CONSTANTS
  Files, Channels, Reloaders,
  Contents,      \* what a file may hold
  Invalid,       \* the contents that yield no auth
  Excluding,     \* files whose auths a changed oauth-excluded-models may drop
  Capacity,      \* of the channel authUpdates
  MaxChanges,    \* of files and of connections
  MaxReloads

ASSUME WatcherBounds ==
  /\ IsFiniteSet(Files \cup Channels)
  /\ Files \cap Channels = {} /\ Reloaders \cap (Files \cup Channels) = {}
  /\ "handler" \notin Files \cup Channels \cup Reloaders
  /\ Contents \subseteq Nat \ {0} /\ Invalid \subseteq Contents
  /\ Excluding \subseteq SUBSET Files
  /\ {Capacity, MaxChanges, MaxReloads} \subseteq Nat

Absent == 0
Torn == -1         \* a file that is truncated, or only half written
Disabled == -2     \* an auth whose source is gone stays in the manager
Handler == "handler"
AuthIds == Files \cup Channels
Producers == AuthIds \cup Reloaders \cup {Handler}

VARIABLES
  disk, events, changes, reloads,   \* the environment
  hashes, known, recent,            \* lastAuthHashes, fileAuthsByPath, lastRemoveTimes
  current,                          \* currentAuths
  link,                             \* of a channel; runtimeAuths holds those "up"
  at, held,                         \* where a producer is, and its updates
  pendingUpdates, loop, batch, stop,       \* the dispatcher
  channel, manager,                 \* the consumer
  last, excused                     \* history: last update queued; see SettledMatches

env      == <<disk, events, changes>>
caches   == <<hashes, known, recent>>
pipeline == <<pendingUpdates, loop, batch, stop, channel, manager, last>>
watcherVars == <<env, reloads, caches, current, link, at, held, pipeline, excused>>

\* SynthesizeAuthFile.
Yields(content) == IF content \in Contents \ Invalid THEN content ELSE Absent

AuthUpdate(id, auth) == [id |-> id, auth |-> auth]
UpdateFor(updates, id) == CHOOSE u \in updates : u.id = id
InQueue(queue, id) == \E i \in DOMAIN queue : queue[i].id = id

\* The service has started, and the first load is over.
WatcherInit ==
  /\ disk \in [Files -> Contents \cup {Absent}]
  /\ events = <<>> /\ changes = 0 /\ reloads = 0
  /\ hashes = disk /\ recent = {}
  /\ known = {f \in Files : Yields(disk[f]) # Absent}
  /\ current = [id \in AuthIds |-> IF id \in Files THEN Yields(disk[id]) ELSE Absent]
  /\ link = [c \in Channels |-> "new"]
  /\ at = [p \in Producers |-> "idle"] /\ held = [p \in Producers |-> {}]
  /\ pendingUpdates = <<>> /\ loop = "take" /\ batch = <<>> /\ stop = "no"
  /\ channel = <<>> /\ manager = current
  /\ last = current /\ excused = {}

Touched(p) == {u.id : u \in held[p]}
Overlapping ==
  {id \in AuthIds : \E p, q \in Producers : p # q /\ id \in Touched(p) \cap Touched(q)}
\* Files that have changed since their last event was handled.
Unhandled == {f \in Files : disk[f] # hashes[f]}
Excuse(ids) == excused' = excused \cup ids \cup Overlapping'

Goto(p, place, updates) ==
  /\ at' = [at EXCEPT ![p] = place]
  /\ held' = [held EXCEPT ![p] = updates]

-----------------------------------------------------------------------------
(* The auth directory.  A replacement may surface as a removal.            *)

FileChanges(f) ==
  /\ stop = "no" /\ changes < MaxChanges
  /\ changes' = changes + 1
  /\ \E content \in (Contents \cup {Absent, Torn}) \ {disk[f]},
        op \in {"write", "remove"} :
       /\ content = Absent => op = "remove"
       /\ content = Torn => op = "write"
       /\ disk' = [disk EXCEPT ![f] = content]
       /\ events' = Append(events, [file |-> f, op |-> op])
  /\ UNCHANGED <<reloads, caches, current, link, at, held, pipeline, excused>>

-----------------------------------------------------------------------------
(* The event goroutine: handleEvent, addOrUpdateClient, removeClient.      *)

\* A file that cannot be read or parsed, or has the hash of the last load, is
\* skipped; otherwise its new contents are compared.
Load(f) ==
  IF disk[f] \in {Absent, Torn, hashes[f]}
  THEN /\ Goto(Handler, "idle", {})
       /\ UNCHANGED <<hashes, known, current>>
  ELSE /\ hashes' = [hashes EXCEPT ![f] = disk[f]]
       /\ Goto(Handler, "compute", {AuthUpdate(f, Yields(disk[f]))})
       /\ UNCHANGED <<known, current>>

Forget(f) ==
  /\ hashes' = [hashes EXCEPT ![f] = Absent]
  /\ known' = known \ {f}
  /\ current' = [current EXCEPT ![f] = IF f \in known THEN Absent ELSE @]
  /\ IF f \in known THEN Goto(Handler, "dispatch", {AuthUpdate(f, Absent)})
     ELSE Goto(Handler, "idle", {})

HandleEvent ==
  LET f == Head(events).file
      removal == Head(events).op = "remove"
      debounced == removal /\ f \in recent
  IN
  /\ at[Handler] = "idle" /\ stop = "no"
  /\ events # <<>>
  /\ events' = Tail(events)
  /\ recent' = IF removal THEN recent \cup {f} ELSE recent
  /\ IF debounced THEN UNCHANGED <<hashes, known, current, at, held>>
     ELSE IF removal /\ disk[f] = Absent /\ hashes[f] # Absent THEN Forget(f)
     ELSE Load(f)
  /\ Excuse(IF debounced THEN {f} ELSE {})
  /\ UNCHANGED <<disk, changes, reloads, link, pipeline>>

\* authRemoveDebounceWindow passes.
WindowEnds(f) ==
  /\ f \in recent /\ stop = "no"
  /\ recent' = recent \ {f}
  /\ UNCHANGED <<env, reloads, hashes, known, current, link, at, held, pipeline,
                 excused>>

\* Faulty variant: fileAuthsByPath is not filled.
ComputePerPathForgetful ==
  /\ at[Handler] = "compute"
  /\ \E u \in held[Handler] :
       LET changed == current[u.id] # u.auth /\ (u.auth = Absent => u.id \in known) IN
       /\ known' = known \ {u.id}
       /\ current' = [current EXCEPT ![u.id] = IF changed THEN u.auth ELSE @]
       /\ Goto(Handler, "dispatch", IF changed THEN {u} ELSE {})
  /\ UNCHANGED <<env, reloads, hashes, recent, link, pipeline, excused>>

\* computePerPathUpdatesLocked, after the synthesis.
ComputePerPath ==
  /\ at[Handler] = "compute"
  /\ \E u \in held[Handler] :
       LET changed == IF u.auth = Absent THEN u.id \in known
                      ELSE current[u.id] # u.auth
       IN  /\ known' = IF u.auth = Absent THEN known \ {u.id} ELSE known \cup {u.id}
           /\ current' = [current EXCEPT ![u.id] = IF changed THEN u.auth ELSE @]
           /\ Goto(Handler, "dispatch", IF changed THEN {u} ELSE {})
  /\ UNCHANGED <<env, reloads, hashes, recent, link, pipeline, excused>>

-----------------------------------------------------------------------------
(* reloadClients and refreshAuthState.                                     *)

\* A changed oauth-excluded-models drops the auths of its providers, so that
\* they are announced again; a changed auth directory is scanned again.
ReloadStart(m) ==
  /\ at[m] = "idle" /\ stop = "no"
  /\ reloads < MaxReloads
  /\ reloads' = reloads + 1
  /\ \E dropped \in Excluding :
       current' = [id \in AuthIds |-> IF id \in dropped THEN Absent ELSE current[id]]
  /\ Goto(m, "rescan", {}) \/ Goto(m, "snapshot", {})
  /\ UNCHANGED <<env, caches, link, pipeline, excused>>

\* loadFileAuthSnapshot, under authRescanMu.
Rescan(m) ==
  /\ at[m] = "rescan"
  /\ at[Handler] = "idle"
  /\ hashes' = [f \in Files |-> IF disk[f] = Torn THEN Absent ELSE disk[f]]
  /\ known' = {f \in Files : Yields(disk[f]) # Absent}
  /\ Goto(m, "snapshot", {})
  /\ Excuse(Unhandled)
  /\ UNCHANGED <<env, reloads, recent, current, link, pipeline>>

\* The files are read without a lock.
TakeSnapshot(m) ==
  /\ at[m] = "snapshot"
  /\ Goto(m, "diff", {AuthUpdate(f, Yields(disk[f])) : f \in Files})
  /\ Excuse(Unhandled)
  /\ UNCHANGED <<env, reloads, caches, current, link, pipeline>>

\* prepareAuthUpdatesLocked; the runtime auths are added under the lock.
Diff(m) ==
  LET new == [id \in AuthIds |->
                IF id \in Channels THEN IF link[id] = "up" THEN 1 ELSE Absent
                ELSE UpdateFor(held[m], id).auth]
  IN
  /\ at[m] = "diff"
  /\ current' = new
  /\ \E force \in BOOLEAN :
       Goto(m, "dispatch", {AuthUpdate(id, new[id]) : id \in
              {i \in AuthIds : new[i] # current[i] \/ (force /\ new[i] # Absent)}})
  /\ Excuse({})
  /\ UNCHANGED <<env, reloads, caches, link, pipeline>>

-----------------------------------------------------------------------------
(* Relay channels: wsOnConnected, wsOnDisconnected and                     *)
(* dispatchRuntimeAuthUpdate.  Every connection has a channel of its own.  *)

SwitchLink(c, from, to, auth) ==
  /\ at[c] = "idle" /\ stop = "no"
  /\ changes < MaxChanges /\ changes' = changes + 1
  /\ link[c] = from
  /\ link' = [link EXCEPT ![c] = to]
  /\ current' = [current EXCEPT ![c] = auth]
  /\ Goto(c, "dispatch", {AuthUpdate(c, auth)})
  /\ Excuse({})
  /\ UNCHANGED <<disk, events, reloads, caches, pipeline>>

Connected(c) == SwitchLink(c, "new", "up", 1)
Disconnected(c) == SwitchLink(c, "up", "down", Absent)

-----------------------------------------------------------------------------
(* The dispatcher.                                                         *)

Unqueued(queue, updates) == SetToSeq({u \in updates : ~InQueue(queue, u.id)})

\* Faulty variant: the first of two updates stays.
CoalescedFirst(queue, updates) == queue \o Unqueued(queue, updates)

\* An update of an id that is pending takes its place.
Coalesced(queue, updates) ==
  [i \in DOMAIN queue |-> IF \E u \in updates : u.id = queue[i].id
                         THEN UpdateFor(updates, queue[i].id) ELSE queue[i]]
    \o Unqueued(queue, updates)

\* dispatchAuthUpdates; without a queue the updates are dropped.
DispatchAuthUpdates(p) ==
  /\ at[p] = "dispatch"
  /\ IF stop = "stopped" \/ held[p] = {} THEN UNCHANGED <<pendingUpdates, last, loop>>
     ELSE /\ pendingUpdates' = Coalesced(pendingUpdates, held[p])
          /\ last' = [id \in AuthIds |->
                        IF id \in Touched(p) THEN UpdateFor(held[p], id).auth ELSE last[id]]
          /\ loop' = IF loop = "wait" THEN "take" ELSE loop
  /\ Goto(p, "idle", {})
  /\ UNCHANGED <<env, reloads, caches, current, link, batch, stop, channel,
                 manager, excused>>

producing == <<env, reloads, caches, current, link, at, held, excused, last>>

\* nextPendingBatch, which waits on dispatchCond while nothing is pending.
TakeBatch ==
  /\ loop = "take"
  /\ IF pendingUpdates = <<>>
     THEN /\ loop' = IF stop = "no" THEN "wait" ELSE "ended"
          /\ UNCHANGED <<pendingUpdates, batch>>
     ELSE /\ pendingUpdates' = <<>>
          /\ batch' = IF stop = "stopped" THEN <<>> ELSE pendingUpdates
          /\ loop' = IF stop = "stopped" THEN "ended" ELSE "send"
  /\ UNCHANGED <<producing, stop, channel, manager>>

\* Faulty variant: the channel is not bounded.
SendUnbounded ==
  /\ loop = "send"
  /\ channel' = Append(channel, Head(batch))
  /\ batch' = Tail(batch)
  /\ loop' = IF Len(batch) = 1 THEN "take" ELSE "send"
  /\ UNCHANGED <<producing, pendingUpdates, stop, manager>>

Send ==
  /\ loop = "send"
  /\ Len(channel) < Capacity
  /\ channel' = Append(channel, Head(batch))
  /\ batch' = Tail(batch)
  /\ loop' = IF Len(batch) = 1 THEN "take" ELSE "send"
  /\ UNCHANGED <<producing, pendingUpdates, stop, manager>>

SendCancelled ==
  /\ loop = "send"
  /\ stop # "no"
  /\ batch' = <<>>
  /\ loop' = "ended"
  /\ UNCHANGED <<producing, pendingUpdates, stop, channel, manager>>

\* stopDispatch: it cancels, clears what is pending and wakes the loop, and
\* unsets the queue.
StopDispatch ==
  /\ \/ stop = "no" /\ stop' = "cancelled" /\ UNCHANGED <<pendingUpdates, loop>>
     \/ /\ stop = "cancelled" /\ stop' = "cleared"
        /\ pendingUpdates' = <<>>
        /\ loop' = IF loop = "wait" THEN "take" ELSE loop
     \/ stop = "cleared" /\ stop' = "stopped" /\ UNCHANGED <<pendingUpdates, loop>>
  /\ UNCHANGED <<producing, batch, channel, manager>>

\* consumeAuthUpdates and handleAuthUpdate.
Consume ==
  LET u == Head(channel) IN
  /\ channel # <<>>
  /\ channel' = Tail(channel)
  /\ manager' = [manager EXCEPT ![u.id] =
                   IF u.auth # Absent THEN u.auth
                   ELSE IF @ = Absent THEN Absent ELSE Disabled]
  /\ UNCHANGED <<producing, pendingUpdates, loop, batch, stop>>

-----------------------------------------------------------------------------
ReloadStep(m) == ReloadStart(m) \/ Rescan(m) \/ TakeSnapshot(m) \/ Diff(m)

WatcherNext ==
  \/ \E f \in Files : FileChanges(f) \/ WindowEnds(f)
  \/ HandleEvent \/ ComputePerPath
  \/ \E m \in Reloaders : ReloadStep(m)
  \/ \E c \in Channels : Connected(c) \/ Disconnected(c)
  \/ \E p \in Producers : DispatchAuthUpdates(p)
  \/ TakeBatch \/ Send \/ SendCancelled \/ StopDispatch \/ Consume

WatcherSpec == WatcherInit /\ [][WatcherNext]_watcherVars

-----------------------------------------------------------------------------
\* Pending updates move only while the dispatcher is awake.
InFlight(id) == \/ loop # "wait" /\ InQueue(pendingUpdates, id)
                \/ InQueue(batch, id) \/ InQueue(channel, id)
Reflects(id, auth) ==
  IF auth = Absent THEN manager[id] \in {Absent, Disabled} ELSE manager[id] = auth

\* Types; the channel is bounded, and one update per id is pending.
WatcherTypeOK ==
  /\ disk \in [Files -> Contents \cup {Absent, Torn}]
  /\ known \subseteq Files /\ recent \subseteq Files /\ excused \subseteq AuthIds
  /\ loop \in {"take", "wait", "send", "ended"} /\ (loop = "send") <=> (batch # <<>>)
  /\ Len(channel) <= Capacity
  /\ \A i, j \in DOMAIN pendingUpdates : pendingUpdates[i].id = pendingUpdates[j].id => i = j

\* An update that was queued reaches the manager, however later ones of its id
\* coalesce with it and overtake the batch that is being sent, and whenever the
\* dispatcher went to sleep.  (dispatchAuthUpdates, nextPendingBatch,
\* handleAuthUpdate)
FinalActionIsApplied ==
  stop = "no" => \A id \in AuthIds : InFlight(id) \/ Reflects(id, last[id])

Settled == /\ stop = "no" /\ events = <<>> /\ pendingUpdates = <<>> /\ batch = <<>>
           /\ channel = <<>> /\ \A p \in Producers : at[p] = "idle"

Matches(id) ==
  IF id \in Channels THEN Reflects(id, IF link[id] = "up" THEN 1 ELSE Absent)
  ELSE disk[id] = Torn \/ Reflects(id, Yields(disk[id]))

\* When nothing is under way the manager has what is on disk and connected,
\* unless a reload overlapped an update of the auth or read a change before
\* its event, or the removal of the file was debounced.  (handleEvent,
\* addOrUpdateClient, removeClient, refreshAuthState)
SettledMatches == Settled => \A id \in AuthIds \ excused : Matches(id)

\* The same without the exceptions.
LatestStateIsApplied == Settled => \A id \in AuthIds : Matches(id)
=============================================================================
