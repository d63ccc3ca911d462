--------------------------- MODULE AuthPersistence ---------------------------
(***************************************************************************)
(* One credential that is a file: what the file says, what the manager      *)
(* holds (conductor.go), and the ways from one to the other.  Refreshes and *)
(* edits change the manager and save after its unlock; results leave a copy *)
(* for persistLoop; uploads, logins and deletions change the file; the      *)
(* watcher brings the file back to the manager, which must not save then.   *)
(* WatcherDispatch models the watcher itself; here a change of the file is  *)
(* noticed at any time, by its hash.                                        *)
(***************************************************************************)
EXTENDS Integers, FiniteSets

CONSTANTS
  Clerks,       \* goroutines of the API, of refreshes and of results
  PersistLoop,  \* persistLoop
  Consumer,     \* consumeAuthUpdates
  MaxIssued,    \* tokens
  MaxBegun      \* operations of the clerks

Writers == Clerks \cup {PersistLoop}

ASSUME PersistenceBounds ==
  PersistLoop \notin Clerks /\ Consumer \notin Writers /\ {MaxIssued, MaxBegun} \subseteq Nat \ {0}

VARIABLES
  stored, hashed,      \* the file, and what the watcher hashed last
  kept, buried,        \* the auth in the manager, its id in removedAuthIDs
  snapshot,            \* persistDirty
  hand,                \* where a goroutine is, with the copy it holds
  minted, begun,       \* tokens and operations so far
  misled               \* history: see SaveFile
persistVars == <<stored, hashed, kept, buried, snapshot, hand, minted, begun, misled>>

Missing == [token |-> 0, off |-> FALSE]
Token(n, disabled) == [token |-> n, off |-> disabled]
AtRest == [at |-> "idle", copy |-> Missing]

holder == <<kept, buried>>
bounds == <<minted, begun>>

PersistInit ==
  /\ stored = Token(1, FALSE) /\ hashed = stored /\ kept = stored /\ buried = FALSE
  /\ snapshot = Missing
  /\ hand = [t \in Writers \cup {Consumer} |-> AtRest]
  /\ minted = 1 /\ begun = 0 /\ misled = FALSE

HandTo(t, place, content) == hand' = [hand EXCEPT ![t] = [at |-> place, copy |-> content]]
Rest(t) == hand' = [hand EXCEPT ![t] = AtRest]
Starts(t) == hand[t].at = "idle" /\ begun < MaxBegun /\ begun' = begun + 1

-----------------------------------------------------------------------------
(* Steps that operations share.                                            *)

\* Manager.Update, up to its unlock.  An id that was removed stays removed.
PutAuth(content) ==
  /\ kept' = IF kept = Missing /\ buried THEN Missing ELSE content
  /\ UNCHANGED buried

Refused == kept = Missing /\ buried

-----------------------------------------------------------------------------
(* Operations that go from the manager to the file.                        *)

\* refreshAuthForRequest (under the lock of the auth) and ForceRefreshForInspection
\* (without it) copy the auth, a disabled one too, and call the executor.
StartRefresh(t, place) ==
  /\ Starts(t) /\ kept # Missing
  /\ place = "refresh" => \A u \in Clerks : hand[u].at \notin {"refresh", "release", "rewrite"}
  /\ HandTo(t, place, kept)
  /\ UNCHANGED <<stored, hashed, holder, snapshot, minted, misled>>

\* The exchange succeeds and Update replaces the auth by the copy with its new token.
Exchange(t) ==
  /\ hand[t].at \in {"refresh", "inspect"} /\ minted < MaxIssued
  /\ minted' = minted + 1
  /\ LET renewed == [hand[t].copy EXCEPT !.token = minted'] IN
       /\ PutAuth(renewed)
       /\ IF Refused THEN Rest(t)
          ELSE HandTo(t, IF hand[t].at = "refresh" THEN "release" ELSE "save", renewed)
  /\ UNCHANGED <<stored, hashed, snapshot, begun, misled>>

RefreshFails(t) ==
  /\ hand[t].at \in {"refresh", "inspect"}
  /\ Rest(t)
  /\ UNCHANGED <<stored, hashed, holder, snapshot, bounds, misled>>

\* PatchAuthFileStatus: a copy is switched, and Update replaces the auth by it.
StartEdit(t) ==
  /\ Starts(t) /\ kept # Missing
  /\ HandTo(t, "edited", [kept EXCEPT !.off = ~@])
  /\ UNCHANGED <<stored, hashed, holder, snapshot, minted, misled>>

WriteEdit(t) ==
  /\ hand[t].at = "edited"
  /\ PutAuth(hand[t].copy)
  /\ IF Refused THEN Rest(t) ELSE HandTo(t, "save", hand[t].copy)
  /\ UNCHANGED <<stored, hashed, snapshot, bounds, misled>>

\* persist, after the unlock of Update, and FileTokenStore.Save: a disabled auth is not
\* written to a file that is gone, but Save looks at the file before it takes its lock.
Persist(t) ==
  /\ hand[t].at \in {"save", "release"} /\ hand[t].copy.off
  /\ IF stored = Missing THEN Rest(t)
     ELSE HandTo(t, IF hand[t].at = "save" THEN "write" ELSE "rewrite", hand[t].copy)
  /\ UNCHANGED <<stored, hashed, holder, snapshot, bounds, misled>>

\* The manager's mutex does not order saves: the last one may write a copy that the
\* manager has replaced, and nothing says so until the watcher hashes a change.
SaveFile(t) ==
  /\ \/ hand[t].at \in {"write", "rewrite"}
     \/ hand[t].at \in {"save", "release"} /\ ~hand[t].copy.off
  /\ stored' = hand[t].copy /\ misled' = (stored' # kept) /\ Rest(t)
  /\ UNCHANGED <<hashed, holder, snapshot, bounds>>

\* MarkResult and the packet filter: a result may disable the auth.  The copy is
\* taken under the mutex and queued after it.
StartResult(t) ==
  /\ Starts(t) /\ kept # Missing
  /\ \E disabled \in {kept.off, TRUE} : kept' = [kept EXCEPT !.off = disabled]
  /\ HandTo(t, "queue", kept')
  /\ UNCHANGED <<stored, hashed, buried, snapshot, minted, misled>>

QueuePersist(t) ==
  /\ hand[t].at = "queue"
  /\ snapshot' = hand[t].copy /\ Rest(t)
  /\ UNCHANGED <<stored, hashed, holder, bounds, misled>>

\* flushQueuedPersist, once a second; the loop saves what it took like the others.
TakeQueued ==
  /\ hand[PersistLoop].at = "idle" /\ snapshot # Missing
  /\ HandTo(PersistLoop, "save", snapshot) /\ snapshot' = Missing
  /\ UNCHANGED <<stored, hashed, holder, bounds, misled>>

-----------------------------------------------------------------------------
(* Operations that go from the file to the manager.                        *)

\* deleteAuthFileByName and the deletion of all files remove the file, then the record
\* in the store, which is the same file.  Then the one removes the auth, the other
\* disables it.
StartDelete(t) ==
  /\ Starts(t) /\ stored # Missing
  /\ stored' = Missing /\ HandTo(t, "record", Missing)
  /\ UNCHANGED <<hashed, holder, snapshot, minted, misled>>

DeleteRecord(t) ==
  /\ hand[t].at = "record"
  /\ stored' = Missing /\ HandTo(t, "forget", Missing)
  /\ UNCHANGED <<hashed, holder, snapshot, bounds, misled>>

\* A file that came back in between is not in the manager any more.
ForgetAuth(t) ==
  /\ hand[t].at = "forget"
  /\ kept' = Missing /\ buried' = (buried \/ kept # Missing)
  /\ misled' = (misled \/ stored # Missing)
  /\ Rest(t)
  /\ UNCHANGED <<stored, hashed, snapshot, bounds>>

\* disableAuth, by a copy that is given to Update.
DisableAuth(t) ==
  /\ hand[t].at = "forget"
  /\ IF kept = Missing THEN Rest(t) ELSE HandTo(t, "edited", [kept EXCEPT !.off = TRUE])
  /\ UNCHANGED <<stored, hashed, holder, snapshot, bounds, misled>>

\* A login (saveTokenRecord) leaves its file to the watcher; an upload
\* (writeAuthFile) gives it to the manager as well.
NewFile(t) ==
  /\ Starts(t) /\ minted < MaxIssued
  /\ minted' = minted + 1
  /\ stored' = Token(minted', FALSE)
  /\ Rest(t) \/ HandTo(t, "look", stored')
  /\ misled' = (stored' # kept)
  /\ UNCHANGED <<hashed, holder, snapshot>>

\* The watcher reads the file and hashes what it read.
Notice ==
  /\ hand[Consumer].at = "idle" /\ stored # hashed
  /\ HandTo(Consumer, IF stored = Missing THEN "disable" ELSE "look", stored)
  /\ hashed' = stored /\ misled' = FALSE
  /\ UNCHANGED <<stored, holder, snapshot, bounds>>

\* applyCoreAuthAddOrUpdate and upsertAuthRecord: GetByID decides.
Look(t) ==
  /\ hand[t].at = "look"
  /\ HandTo(t, IF kept = Missing THEN "register" ELSE "update", hand[t].copy)
  /\ UNCHANGED <<stored, hashed, holder, snapshot, bounds, misled>>

\* applyCoreAuthRemoval: a copy of the auth, disabled, is given to Update.
LookToDisable(t) ==
  /\ hand[t].at = "disable"
  /\ IF kept = Missing THEN Rest(t)
     ELSE HandTo(t, "update", [kept EXCEPT !.off = TRUE])
  /\ UNCHANGED <<stored, hashed, holder, snapshot, bounds, misled>>

\* Faulty variant: the file is hashed again when its contents are applied.
ApplyHashing(t) ==
  /\ \/ hand[t].at = "register" /\ kept' = hand[t].copy /\ buried' = FALSE
     \/ hand[t].at = "update" /\ PutAuth(hand[t].copy)
  /\ misled' = (misled \/ (t \in Clerks /\ stored # kept'))
  /\ Rest(t)
  /\ hashed' = (IF t = Consumer THEN stored ELSE hashed)
  /\ UNCHANGED <<stored, snapshot, bounds>>

\* Register or Update with WithSkipPersist.  An upload may be behind the watcher.
Apply(t) ==
  /\ \/ hand[t].at = "register" /\ kept' = hand[t].copy /\ buried' = FALSE
     \/ hand[t].at = "update" /\ PutAuth(hand[t].copy)
  /\ misled' = (misled \/ (t \in Clerks /\ stored # kept'))
  /\ Rest(t)
  /\ UNCHANGED <<stored, hashed, snapshot, bounds>>

PersistNext ==
  \/ \E t \in Clerks :
       \/ \E place \in {"refresh", "inspect"} : StartRefresh(t, place)
       \/ Exchange(t) \/ RefreshFails(t)
       \/ StartEdit(t) \/ WriteEdit(t)
       \/ StartResult(t) \/ QueuePersist(t)
       \/ StartDelete(t) \/ DeleteRecord(t) \/ ForgetAuth(t) \/ DisableAuth(t)
       \/ NewFile(t)
  \/ \E t \in Writers : Persist(t) \/ SaveFile(t)
  \/ TakeQueued
  \/ Notice
  \/ \E t \in Clerks \cup {Consumer} : Look(t) \/ LookToDisable(t) \/ Apply(t)

PersistSpec == PersistInit /\ [][PersistNext]_persistVars

-----------------------------------------------------------------------------
AllDone ==
  /\ hashed = stored /\ snapshot = Missing
  /\ \A t \in Writers \cup {Consumer} : hand[t] = AtRest

\* Whatever refreshes, edits, results, deletions, logins and uploads overlapped,
\* the file and the manager agree when all of them and the watcher are done,
\* though each writes without knowing of the others.  The exception is misled:
\* the last save of an unchanged hash was of a copy the manager had replaced.
FileMatchesManager ==
  AllDone /\ ~misled =>
    IF stored = Missing THEN kept = Missing \/ kept.off ELSE kept = stored

\* A copy has a token that was issued by then, or is none.
PersistTypeOK ==
  LET Held == {Missing} \cup [token : 1..minted, off : BOOLEAN] IN
  /\ {stored, hashed, kept, snapshot} \subseteq Held
  /\ \A t \in Writers \cup {Consumer} : hand[t].copy \in Held
  /\ {buried, misled} \subseteq BOOLEAN
  /\ minted \in 1..MaxIssued /\ begun \in 0..MaxBegun
=============================================================================
