----------------------------- MODULE AutoRefresh -----------------------------
(***************************************************************************)
(* The background refresh of credentials: the auto refresh loop             *)
(* (auto_refresh_loop.go), its workers, the refresh after a 401 and the     *)
(* operations of the manager that change an auth meanwhile (conductor.go in *)
(* sdk/cliproxy/auth).                                                     *)
(*                                                                         *)
(* Each critical section of Manager.mu, of the loop's mu and of the         *)
(* per-auth refresh lock is one step, together with the local code around   *)
(* it; the other goroutines run between them.  The clock advances on its    *)
(* own.                                                                     *)
(***************************************************************************)
EXTENDS RefreshSchedule, Sequences, Functions

CONSTANTS
  Auths,             \* ids of auths
  Workers, Requests, \* callers of refreshAuthForRequest
  Editors,           \* management calls and the file watcher
  Inspectors,        \* callers of RefreshQueueSnapshot
  Credentials,       \* what a registered auth may look like
  JobBuffer,         \* capacity of the channel jobs
  PendingBackoff, FailureBackoff, IneffectiveBackoff,
  Results,           \* of requests: "success", "unauthorized", "failure"
  Cooldown,          \* after a failure; 0: cooling is disabled
  Enabled,           \* the service starts the loop: not in Home mode
  Switches,          \* what an edit may set Disabled to
  Lifetime,          \* validity of a refreshed token
  MaxTime, MaxToken  \* bounds on the clock and on the tokens issued

ASSUME RefreshBounds ==
  /\ {JobBuffer, PendingBackoff, FailureBackoff, IneffectiveBackoff, Lifetime,
      MaxTime, MaxToken} \subseteq Nat \ {0}
  /\ Cooldown \in Nat /\ Switches \subseteq BOOLEAN
  /\ Enabled \in BOOLEAN

\* A registered auth: what its schedule depends on, its token, whether it is
\* disabled, and until when it cools down.
AuthRecords ==
  [unauthorized : BOOLEAN, apiKey : BOOLEAN, nextRefreshAfter : Nat,
   evaluator : BOOLEAN, lastRefreshedAt : Nat, expiry : Nat, preferred : Nat,
   lead : Nat, executor : BOOLEAN, token : Nat, disabled : BOOLEAN,
   retryAfter : Nat]

ASSUME CredentialsAreRecords ==
  /\ Credentials \subseteq AuthRecords
  /\ \A c \in Credentials : c.token = 1

ASSUME RolesAreDistinct ==
  /\ Workers \cap Requests = {} /\ (Workers \cup Requests) \cap Editors = {}
  /\ "loop" \notin Inspectors
  /\ "none" \notin Auths

None == "none"
NoAuth == [token |-> 0]
Loop == "loop"
Refreshers == Workers \cup Requests
Appliers == Inspectors \cup {Loop}      \* goroutines that run applyDirty
Announcers == Refreshers \cup Editors   \* goroutines that call queueReschedule

VARIABLES
  now,
  auths,      \* Manager.auths
  removed,    \* Manager.removedAuthIDs
  issued,     \* number of tokens issued so far
  running,    \* Manager.refreshLoop is set
  queue,      \* the heap and its index: the next check of an auth, or 0
  dirty, wake, jobs,
  timer,      \* when the loop's timer fires, or 0
  at,         \* where each applier is
  clock,      \* the time it read
  batch,      \* the auths it has still to look at
  plan,       \* what it is about to store in the queue
  entries,    \* what rebuild read
  pc, target, snapshot,  \* a refresher or an editor, its auth and its copy
  failed,     \* the access token a request failed with
  spent,      \* tokens of auths that a refresh has replaced, unless an edit
              \* brought them back (history)
  lapsed      \* auths that a result made schedulable again, or that were
              \* taken off the schedule after they came back (history)

managerVars == <<auths, removed, issued, running, lapsed>>
loopVars    == <<queue, dirty, wake, jobs, timer>>
applierVars == <<at, clock, batch, plan, entries>>
callerVars  == <<pc, target, snapshot, failed, spent>>
vars == <<now, managerVars, loopVars, applierVars, callerVars>>

NoPlan == [auth |-> None, next |-> 0]
Present(a) == auths[a] # NoAuth
NextCheck(a, time) == IF Present(a) THEN NextRefreshCheckAt(time, auths[a]) ELSE 0

\* The answer of shouldRefresh to who has read the clock at some time; a RefreshEvaluator may answer either way.
Verdicts(auth, time) ==
  IF auth.evaluator THEN {~auth.unauthorized /\ ~HeldBack(auth, time), FALSE}
  ELSE {ShouldRefresh(auth, time, now)}

Init ==
  /\ now = 1
  /\ auths \in [Auths -> Credentials \cup {NoAuth}]
  /\ removed = {} /\ issued = 1 /\ running = FALSE /\ lapsed = {}
  /\ queue = [a \in Auths |-> 0] /\ dirty = {} /\ wake = FALSE /\ jobs = <<>>
  /\ timer = 0
  /\ at = [p \in Appliers |-> IF p = Loop THEN "off" ELSE "idle"]
  /\ clock = [p \in Appliers |-> 0]
  /\ batch = [p \in Appliers |-> {}]
  /\ plan = [p \in Appliers |-> NoPlan]
  /\ entries = queue
  /\ pc = [r \in Announcers |-> "idle"]
  /\ target = [r \in Announcers |-> None]
  /\ snapshot = [r \in Announcers |-> NoAuth]
  /\ failed = [r \in Requests |-> 0]
  /\ spent = {}

Tick ==
  /\ now < MaxTime
  /\ now' = now + 1
  /\ UNCHANGED <<managerVars, loopVars, applierVars, callerVars>>

-----------------------------------------------------------------------------
(* StartAutoRefresh: the loop is published, then the queue is rebuilt.     *)

StartAutoRefresh ==
  /\ Enabled
  /\ at[Loop] = "off"
  /\ running' = TRUE
  /\ at' = [at EXCEPT ![Loop] = "rebuild"]
  /\ clock' = [clock EXCEPT ![Loop] = now]
  /\ UNCHANGED <<now, auths, removed, issued, lapsed, loopVars, batch, plan,
                 entries, callerVars>>

RebuildRead ==
  /\ at[Loop] = "rebuild"
  /\ entries' = [a \in Auths |-> NextCheck(a, clock[Loop])]
  /\ at' = [at EXCEPT ![Loop] = "rebuilt"]
  /\ UNCHANGED <<now, managerVars, loopVars, clock, batch, plan, callerVars>>

RebuildWrite ==
  /\ at[Loop] = "rebuilt"
  /\ queue' = entries
  /\ entries' = [a \in Auths |-> 0]
  /\ at' = [at EXCEPT ![Loop] = "apply"]
  /\ UNCHANGED <<now, managerVars, dirty, wake, jobs, timer, clock, batch, plan,
                 callerVars>>

-----------------------------------------------------------------------------
(* The loop, and applyDirty, which RefreshQueueSnapshot calls as well.     *)

\* peek: the earliest time in the queue, 0 if there is none.
IsHead(time) ==
  IF \A a \in Auths : queue[a] = 0 THEN time = 0
  ELSE /\ \E a \in Auths : queue[a] = time /\ time # 0
       /\ \A a \in Auths : queue[a] # 0 => time <= queue[a]

ResetTimer ==
  /\ at[Loop] = "apply"
  /\ batch[Loop] = {}
  /\ timer' \in {0} \cup {queue[a] : a \in Auths}
  /\ IsHead(timer')
  /\ at' = [at EXCEPT ![Loop] = "select"]
  /\ clock' = [clock EXCEPT ![Loop] = 0]
  /\ UNCHANGED <<now, managerVars, queue, dirty, wake, jobs, batch, plan,
                 entries, callerVars>>

LoopWakes ==
  /\ at[Loop] = "select"
  /\ wake
  /\ wake' = FALSE
  /\ at' = [at EXCEPT ![Loop] = "drain"]
  /\ clock' = [clock EXCEPT ![Loop] = now]
  /\ UNCHANGED <<now, managerVars, queue, dirty, jobs, timer, batch, plan,
                 entries, callerVars>>

\* The timer fires and popDue takes what is due.
TimerFires ==
  LET due == {a \in Auths : queue[a] \in 1..now} IN
  /\ at[Loop] = "select"
  /\ timer \in 1..now
  /\ timer' = 0
  /\ queue' = [a \in Auths |-> IF a \in due THEN 0 ELSE queue[a]]
  /\ batch' = [batch EXCEPT ![Loop] = due]
  /\ at' = [at EXCEPT ![Loop] = "due"]
  /\ clock' = [clock EXCEPT ![Loop] = now]
  /\ UNCHANGED <<now, managerVars, dirty, wake, jobs, plan, entries, callerVars>>

Inspect(i) ==
  /\ running
  /\ at[i] = "idle"
  /\ at' = [at EXCEPT ![i] = "drain"]
  /\ clock' = [clock EXCEPT ![i] = now]
  /\ UNCHANGED <<now, managerVars, loopVars, batch, plan, entries, callerVars>>

Plan(p, a, next) == plan' = [plan EXCEPT ![p] = [auth |-> a, next |-> next]]

\* handleDueAuth up to its first unlock.
HandleDue(a) ==
  /\ at[Loop] = "due"
  /\ a \in batch[Loop]
  /\ batch' = [batch EXCEPT ![Loop] = @ \ {a}]
  /\ \/ /\ ~Present(a)
        /\ UNCHANGED <<at, plan>>
     \/ /\ Present(a)
        /\ NextCheck(a, clock[Loop]) = 0
        /\ Plan(Loop, a, 0)
        /\ at' = [at EXCEPT ![Loop] = "store"]
     \/ /\ NextCheck(a, clock[Loop]) # 0
        /\ FALSE \in Verdicts(auths[a], clock[Loop])
        /\ Plan(Loop, a, NextCheck(a, clock[Loop]))
        /\ at' = [at EXCEPT ![Loop] = "store"]
     \/ /\ NextCheck(a, clock[Loop]) # 0
        /\ TRUE \in Verdicts(auths[a], clock[Loop])
        /\ IF auths[a].executor
           THEN Plan(Loop, a, 0) /\ at' = [at EXCEPT ![Loop] = "mark"]
           ELSE /\ Plan(Loop, a, clock[Loop] + CheckInterval)
                /\ at' = [at EXCEPT ![Loop] = "store"]
  /\ UNCHANGED <<now, managerVars, loopVars, clock, entries, callerVars>>

\* The critical section of markRefreshPending: it refuses an auth that was
\* removed or held back since handleDueAuth looked at it.
MarkRefreshPending ==
  LET a == plan[Loop].auth IN
  /\ at[Loop] = "mark"
  /\ IF Present(a) /\ ~HeldBack(auths[a], clock[Loop])
     THEN /\ auths' = [auths EXCEPT ![a].nextRefreshAfter =
                                      clock[Loop] + PendingBackoff]
          /\ at' = [at EXCEPT ![Loop] = "announce"]
     ELSE /\ at' = [at EXCEPT ![Loop] = "reread"]
          /\ UNCHANGED auths
  /\ UNCHANGED <<now, removed, issued, running, lapsed, loopVars, clock, batch,
                 plan, entries, callerVars>>

RereadDue ==
  LET a == plan[Loop].auth IN
  /\ at[Loop] = "reread"
  /\ Plan(Loop, a, NextCheck(a, clock[Loop]))
  /\ at' = [at EXCEPT ![Loop] = "store"]
  /\ UNCHANGED <<now, managerVars, loopVars, clock, batch, entries, callerVars>>

\* queueReschedule, called by the loop itself.
AnnouncePending ==
  /\ at[Loop] = "announce"
  /\ dirty' = dirty \cup {plan[Loop].auth}
  /\ wake' = TRUE
  /\ at' = [at EXCEPT ![Loop] = "send"]
  /\ UNCHANGED <<now, managerVars, queue, jobs, timer, clock, batch, plan,
                 entries, callerVars>>

SendJob ==
  /\ at[Loop] = "send"
  /\ Len(jobs) < JobBuffer
  /\ jobs' = Append(jobs, plan[Loop].auth)
  /\ plan' = [plan EXCEPT ![Loop] = NoPlan]
  /\ at' = [at EXCEPT ![Loop] = "due"]
  /\ UNCHANGED <<now, managerVars, queue, dirty, wake, timer, clock, batch,
                 entries, callerVars>>

\* The loop drains after it has handled what was due.
DrainDirty(p) ==
  /\ at[p] \in {"drain", "due"}
  /\ batch[p] = {}
  /\ batch' = [batch EXCEPT ![p] = dirty]
  /\ dirty' = {}
  /\ at' = [at EXCEPT ![p] = "apply"]
  /\ UNCHANGED <<now, managerVars, queue, wake, jobs, timer, clock, plan,
                 entries, callerVars>>

\* Faulty variant: no check is stored before the next interval.
ApplyReadLate(p, a) ==
  LET next == NextCheck(a, clock[p]) IN
  /\ at[p] = "apply"
  /\ a \in batch[p]
  /\ batch' = [batch EXCEPT ![p] = @ \ {a}]
  /\ Plan(p, a, IF next = 0 THEN 0 ELSE Later(next, clock[p] + CheckInterval))
  /\ at' = [at EXCEPT ![p] = "stored"]
  /\ UNCHANGED <<now, managerVars, loopVars, clock, entries, callerVars>>

ApplyRead(p, a) ==
  /\ at[p] = "apply"
  /\ a \in batch[p]
  /\ batch' = [batch EXCEPT ![p] = @ \ {a}]
  /\ Plan(p, a, NextCheck(a, clock[p]))
  /\ at' = [at EXCEPT ![p] = "stored"]
  /\ UNCHANGED <<now, managerVars, loopVars, clock, entries, callerVars>>

\* upsert or remove; the loop returns to handleDue or to applyDirty.
Store(p) ==
  /\ at[p] \in {"store", "stored"}
  /\ queue' = [queue EXCEPT ![plan[p].auth] = plan[p].next]
  /\ plan' = [plan EXCEPT ![p] = NoPlan]
  /\ at' = [at EXCEPT ![p] = IF @ = "store" THEN "due" ELSE "apply"]
  /\ UNCHANGED <<now, managerVars, dirty, wake, jobs, timer, clock, batch,
                 entries, callerVars>>

Inspected(i) ==
  /\ at[i] = "apply"
  /\ batch[i] = {}
  /\ at' = [at EXCEPT ![i] = "idle"]
  /\ clock' = [clock EXCEPT ![i] = 0]
  /\ UNCHANGED <<now, managerVars, loopVars, batch, plan, entries, callerVars>>

-----------------------------------------------------------------------------
(* refreshAuthForRequest, by a worker or after a 401.                      *)

Goto(r, place) ==
  /\ pc' = [pc EXCEPT ![r] = place]
  /\ IF place = "idle"
     THEN /\ target' = [target EXCEPT ![r] = None]
          /\ failed' = [q \in Requests |-> IF q = r THEN 0 ELSE failed[q]]
     ELSE UNCHANGED <<target, failed>>

\* A refresher or an editor sets out for an auth.
Start(r, place, a) ==
  /\ pc' = [pc EXCEPT ![r] = place]
  /\ target' = [target EXCEPT ![r] = a]

TakeJob(w) ==
  /\ pc[w] = "idle"
  /\ running
  /\ jobs # <<>>
  /\ Start(w, "lock", Head(jobs))
  /\ jobs' = Tail(jobs)
  /\ UNCHANGED <<now, managerVars, queue, dirty, wake, timer, applierVars,
                 snapshot, failed, spent>>

\* A request is executed with the access token of some auth ...
RequestStarts(r, a) ==
  /\ pc[r] = "idle"
  /\ Present(a)
  /\ Start(r, "sent", a)
  /\ failed' = [failed EXCEPT ![r] = auths[a].token]
  /\ UNCHANGED <<now, managerVars, loopVars, applierVars, snapshot, spent>>

\* ... and answered: only a 401 leads to a refresh.
RequestAnswered(r) ==
  /\ pc[r] = "sent"
  /\ Goto(r, "lock") \/ Goto(r, "idle")
  /\ UNCHANGED <<now, managerVars, loopVars, applierVars, snapshot, spent>>

\* The refresh lock of an auth is held from the lookup to the wake-up.
Holds(r, a) == target[r] = a /\ pc[r] \in {"call", "announce", "wake"}

Unlocked(r) == IF r \in Workers THEN "again" ELSE "idle"

\* Faulty variant: a request refreshes whatever token is current.
LockAndRefresh(r) ==
  LET a == target[r] IN
  /\ pc[r] = "lock"
  /\ \A s \in Refreshers : ~Holds(s, a)
  /\ IF Present(a) /\ auths[a].executor
     THEN /\ snapshot' = [snapshot EXCEPT ![r] = auths[a]]
          /\ Goto(r, "call")
     ELSE Goto(r, Unlocked(r)) /\ UNCHANGED snapshot
  /\ UNCHANGED <<now, managerVars, loopVars, applierVars, spent>>

\* The auth is looked up under its lock.  A request whose token was replaced
\* meanwhile reuses the new one.
Lock(r) ==
  LET a == target[r] IN
  /\ pc[r] = "lock"
  /\ \A s \in Refreshers : ~Holds(s, a)
  /\ IF /\ Present(a) /\ auths[a].executor
        /\ r \in Requests => auths[a].token = failed[r]
     THEN /\ snapshot' = [snapshot EXCEPT ![r] = auths[a]]
          /\ Goto(r, "call")
     ELSE Goto(r, Unlocked(r)) /\ UNCHANGED snapshot
  /\ UNCHANGED <<now, managerVars, loopVars, applierVars, spent>>

\* Faulty variant: Update keeps nothing of the auth it replaces.
UpdateReplaces(a, auth) ==
  auths' = IF Present(a) \/ a \notin removed
           THEN [auths EXCEPT ![a] = auth] ELSE auths

\* Faulty variant: Update does not look at the removed ids.
UpdateInserts(a, auth) ==
  LET old == auths[a]
      keeps == /\ Present(a) /\ ~old.disabled /\ ~auth.disabled
               /\ old.retryAfter > now
  IN  auths' = [auths EXCEPT ![a] =
                  IF keeps THEN [auth EXCEPT !.retryAfter = Later(@, old.retryAfter)]
                  ELSE auth]

\* The critical section of Update: the cooldown recorded since the caller took
\* its copy survives, and a removed auth stays removed.
Update(a, auth) ==
  LET old == auths[a]
      keeps == /\ Present(a) /\ ~old.disabled /\ ~auth.disabled
               /\ old.retryAfter > now
  IN  auths' = IF Present(a) \/ a \notin removed
               THEN [auths EXCEPT ![a] =
                  IF keeps THEN [auth EXCEPT !.retryAfter = Later(@, old.retryAfter)]
                  ELSE auth]
               ELSE auths

Updatable(a) == Present(a) \/ a \notin removed

\* Faulty variant: a refresh that changed nothing is not held back.
RefreshedUnthrottled(auth, effective) ==
  {[auth EXCEPT !.lastRefreshedAt = now,
                !.nextRefreshAfter = 0,
                !.unauthorized = FALSE,
                !.token = IF effective THEN issued + 1 ELSE @,
                !.expiry = IF effective THEN now + Lifetime ELSE @]}

Refreshed(auth, effective) ==
  LET result == [auth EXCEPT !.lastRefreshedAt = now,
                             !.nextRefreshAfter = 0,
                             !.unauthorized = FALSE,
                             !.token = IF effective THEN issued + 1 ELSE @,
                             !.expiry = IF effective THEN now + Lifetime ELSE @]
  IN  {IF due THEN [result EXCEPT !.nextRefreshAfter = now + IneffectiveBackoff]
       ELSE result : due \in Verdicts(result, now)}

\* The executor returns a new token, or the old one again.
RefreshSucceeds(r) ==
  LET a == target[r] IN
  /\ pc[r] = "call"
  /\ \E effective \in BOOLEAN :
       /\ effective => issued < MaxToken
       /\ issued' = IF effective THEN issued + 1 ELSE issued
       /\ spent' = IF effective THEN spent \cup {<<a, snapshot[r].token>>} ELSE spent
       /\ \E auth \in Refreshed(snapshot[r], effective) : Update(a, auth)
  /\ Goto(r, IF Updatable(a) THEN "announce" ELSE Unlocked(r))
  /\ snapshot' = [snapshot EXCEPT ![r] = NoAuth]
  /\ UNCHANGED <<now, removed, running, lapsed, loopVars, applierVars>>

\* A 401 ends the refreshes, any other error holds the next one back.
RefreshFails(r) ==
  LET a == target[r] IN
  /\ pc[r] = "call"
  /\ \E unauthorized \in BOOLEAN :
       auths' = IF Present(a)
                THEN [auths EXCEPT
                       ![a].unauthorized = unauthorized,
                       ![a].nextRefreshAfter =
                          IF unauthorized THEN 0 ELSE now + FailureBackoff]
                ELSE auths
  /\ Goto(r, IF Present(a) THEN "announce" ELSE Unlocked(r))
  /\ snapshot' = [snapshot EXCEPT ![r] = NoAuth]
  /\ UNCHANGED <<now, removed, issued, running, lapsed, loopVars, applierVars,
                 spent>>

RefreshCancelled(r) ==
  /\ r \in Requests
  /\ pc[r] = "call"
  /\ Goto(r, Unlocked(r))
  /\ snapshot' = [snapshot EXCEPT ![r] = NoAuth]
  /\ UNCHANGED <<now, managerVars, loopVars, applierVars, spent>>

\* queueReschedule of Update, of a failed refresh, and of the worker ("again").
AfterAnnouncing(r) ==
  IF pc[r] \in {"announce", "wake"} THEN Unlocked(r) ELSE "idle"

Announce(r) ==
  /\ pc[r] \in {"announce", "again"}
  /\ IF running
     THEN /\ dirty' = dirty \cup {target[r]}
          /\ lapsed' = lapsed \ {target[r]}
          /\ Goto(r, IF pc[r] = "again" THEN "wakeAgain" ELSE "wake")
     ELSE /\ Goto(r, AfterAnnouncing(r))
          /\ UNCHANGED <<dirty, lapsed>>
  /\ UNCHANGED <<now, auths, removed, issued, running, queue, wake, jobs, timer,
                 applierVars, snapshot, spent>>

\* Faulty variant: the loop is not woken.
WakeNobody(r) ==
  /\ pc[r] \in {"wake", "wakeAgain"}
  /\ Goto(r, AfterAnnouncing(r))
  /\ UNCHANGED <<now, managerVars, loopVars, applierVars, snapshot,
                 spent>>

WakeLoop(r) ==
  /\ pc[r] \in {"wake", "wakeAgain"}
  /\ wake' = TRUE
  /\ Goto(r, AfterAnnouncing(r))
  /\ UNCHANGED <<now, managerVars, queue, dirty, jobs, timer, applierVars,
                 snapshot, spent>>

-----------------------------------------------------------------------------
(* Register, Update and Remove by management calls and the file watcher,   *)
(* and MarkResult.                                                         *)

Register(e, a) ==
  /\ pc[e] = "idle"
  /\ ~Present(a)
  /\ issued < MaxToken
  /\ issued' = issued + 1
  /\ \E c \in Credentials :
       auths' = [auths EXCEPT ![a] = [c EXCEPT !.token = issued + 1]]
  /\ removed' = removed \ {a}
  /\ Start(e, "announce", a)
  /\ UNCHANGED <<now, running, lapsed, loopVars, applierVars, snapshot, failed,
                 spent>>

EditorReads(e, a) ==
  /\ pc[e] = "idle"
  /\ Present(a)
  /\ Start(e, "edit", a)
  /\ snapshot' = [snapshot EXCEPT ![e] = auths[a]]
  /\ UNCHANGED <<now, managerVars, loopVars, applierVars, failed, spent>>

\* A management call writes back its edited copy; the file watcher an auth
\* without errors that it loaded from disk, with the old token or a new one.
EditorUpdates(e) ==
  LET a == target[e] IN
  /\ pc[e] = "edit"
  /\ \/ /\ \E d \in Switches : Update(a, [snapshot[e] EXCEPT !.disabled = d])
        /\ UNCHANGED issued
     \/ /\ Update(a, [snapshot[e] EXCEPT !.unauthorized = FALSE])
        /\ UNCHANGED issued
     \/ /\ issued < MaxToken
        /\ issued' = issued + 1
        /\ Update(a, [snapshot[e] EXCEPT !.unauthorized = FALSE,
                                         !.token = issued + 1,
                                         !.expiry = now + Lifetime])
  /\ spent' = spent \ {<<a, auths'[a].token>>}
  /\ Goto(e, IF Updatable(a) THEN "announce" ELSE "idle")
  /\ snapshot' = [snapshot EXCEPT ![e] = NoAuth]
  /\ UNCHANGED <<now, removed, running, lapsed, loopVars, applierVars>>

Remove(e, a) ==
  /\ pc[e] = "idle"
  /\ Present(a)
  /\ auths' = [auths EXCEPT ![a] = NoAuth]
  /\ removed' = removed \cup {a}
  /\ Start(e, "unschedule", a)
  /\ UNCHANGED <<now, issued, running, lapsed, loopVars, applierVars, snapshot,
                 failed, spent>>

\* queueRefreshUnschedule, which comes too late for an auth that was registered
\* again.
Unschedule(e) ==
  /\ pc[e] = "unschedule"
  /\ queue' = IF running THEN [queue EXCEPT ![target[e]] = 0] ELSE queue
  /\ lapsed' = IF running /\ Present(target[e]) THEN lapsed \cup {target[e]} ELSE lapsed
  /\ Goto(e, "idle")
  /\ UNCHANGED <<now, auths, removed, issued, running, dirty, wake, jobs, timer,
                 applierVars, snapshot, spent>>

\* The result of a request changes the error and the cooldown of its auth, but
\* does not reschedule the auth.
MarkResult(a, result) ==
  /\ Present(a)
  /\ auths' = [auths EXCEPT ![a].unauthorized = (result = "unauthorized"),
                            ![a].retryAfter = IF result = "success" \/ Cooldown = 0
                                              THEN 0 ELSE now + Cooldown]
  /\ lapsed' = IF auths[a].unauthorized /\ ~auths'[a].unauthorized
               THEN lapsed \cup {a} ELSE lapsed
  /\ UNCHANGED <<now, removed, issued, running, loopVars, applierVars,
                 callerVars>>

-----------------------------------------------------------------------------
LoopStep ==
  \/ RebuildRead \/ RebuildWrite \/ ResetTimer \/ LoopWakes \/ TimerFires
  \/ (\E a \in Auths : HandleDue(a)) \/ MarkRefreshPending \/ RereadDue
  \/ AnnouncePending \/ SendJob

ApplyStep(p) ==
  \/ DrainDirty(p) \/ (\E a \in Auths : ApplyRead(p, a)) \/ Store(p)

RefreshReturns(r) == RefreshSucceeds(r) \/ RefreshFails(r) \/ RefreshCancelled(r)

AnnounceStep(r) == Announce(r) \/ WakeLoop(r)

EditorStep(e) ==
  \/ EditorUpdates(e) \/ Unschedule(e)
  \/ \E a \in Auths : Register(e, a) \/ EditorReads(e, a) \/ Remove(e, a)

Next ==
  \/ Tick \/ StartAutoRefresh \/ LoopStep
  \/ \E i \in Inspectors : Inspect(i) \/ Inspected(i)
  \/ \E p \in Appliers : ApplyStep(p)
  \/ \E w \in Workers : TakeJob(w)
  \/ \E r \in Requests : RequestAnswered(r) \/ \E a \in Auths : RequestStarts(r, a)
  \/ \E r \in Refreshers : Lock(r) \/ RefreshReturns(r)
  \/ \E r \in Announcers : AnnounceStep(r)
  \/ \E e \in Editors : EditorStep(e)
  \/ \E a \in Auths, result \in Results : MarkResult(a, result)

Spec == Init /\ [][Next]_vars

\* Goroutines run on, mutexes do not starve a waiter, and executors return.
FairSpec ==
  /\ Spec
  /\ WF_vars(StartAutoRefresh) /\ WF_vars(LoopStep) /\ WF_vars(ApplyStep(Loop))
  /\ WF_vars(\E w \in Workers : TakeJob(w))
  /\ \A r \in Refreshers : SF_vars(Lock(r)) /\ WF_vars(RefreshReturns(r))
  /\ \A r \in Announcers : WF_vars(AnnounceStep(r))

-----------------------------------------------------------------------------
\* The types of the variables, and what a goroutine holds at each place.
Places == {"off", "idle", "rebuild", "rebuilt", "apply", "select", "drain", "due",
           "store", "stored", "mark", "announce", "reread", "send"}
Planning == {"store", "stored", "mark", "announce", "reread", "send"}
CallPlaces == {"idle", "sent", "lock", "call", "announce", "wake", "again",
               "wakeAgain", "edit", "unschedule"}

ManagerTypes ==
  /\ auths \in [Auths -> AuthRecords \cup {NoAuth}]
  /\ removed \subseteq Auths /\ lapsed \subseteq Auths
  /\ issued \in 1..MaxToken /\ running \in BOOLEAN

QueueTypes ==
  /\ queue \in [Auths -> Nat] /\ dirty \subseteq Auths /\ wake \in BOOLEAN
  /\ jobs \in Seq(Auths) /\ Len(jobs) <= JobBuffer
  /\ timer \in Nat

ApplierTypes ==
  /\ at \in [Appliers -> Places]
  /\ clock \in [Appliers -> 0..now]
  /\ batch \in [Appliers -> SUBSET Auths]
  /\ plan \in [Appliers -> [auth : Auths \cup {None}, next : Nat]]
  /\ \A p \in Appliers : at[p] \in Planning => plan[p].auth \in Auths
  /\ entries \in [Auths -> Nat]

CallTypes ==
  /\ pc \in [Announcers -> CallPlaces]
  /\ target \in [Announcers -> Auths \cup {None}]
  /\ \A r \in Announcers : pc[r] # "idle" => target[r] \in Auths
  /\ snapshot \in [Announcers -> AuthRecords \cup {NoAuth}]
  /\ \A r \in Announcers : pc[r] \in {"call", "edit"} => snapshot[r] \in AuthRecords
  /\ failed \in [Requests -> Nat]
  /\ spent \subseteq Auths \X Nat

TypeOK == now \in 1..MaxTime /\ ManagerTypes /\ QueueTypes /\ ApplierTypes /\ CallTypes

\* A refresh in progress cannot bring back an auth that was removed meanwhile:
\* only Register ends a removal.  (Update, removedAuthIDs)
RemovedStaysRemoved == \A a \in removed : ~Present(a)

\* Between two steps somebody knows of an auth: it is marked dirty, in the hands
\* of the loop, a job, or the goroutine that has it will announce it.
Handled(a) ==
  \/ a \in dirty
  \/ \E p \in Appliers : a \in batch[p] \/ plan[p].auth = a
  \/ a \in Range(jobs)
  \/ \E r \in Announcers : target[r] = a /\ pc[r] \notin {"idle", "sent", "edit"}
  \/ at[Loop] \in {"off", "rebuild"}
  \/ at[Loop] = "rebuilt" /\ entries[a] \in 1..NextCheck(a, now)

\* The next check of an auth is queued in time; without an executor, it may be
\* a check interval late.
Queued(a) ==
  LET next == NextCheck(a, now) IN
  queue[a] \in 1..(IF auths[a].executor THEN next ELSE Later(next, now + CheckInterval))

\* An auth that can be refreshed is handled or queued for a time that is not
\* after its next check, however updates, refreshes and the loop interleave,
\* unless a result made it schedulable again or a late removal unscheduled it.
\* (queueReschedule, applyDirty, handleDueAuth, rebuild)
ScheduledInTime ==
  \A a \in Auths \ lapsed : NextCheck(a, now) # 0 => Handled(a) \/ Queued(a)

\* The same without the exception: the loop evaluates every auth again in time.
EveryAuthIsEvaluated ==
  \A a \in Auths : NextCheck(a, now) # 0 => Handled(a) \/ Queued(a)

\* A loop that sleeps is due to be woken, or it has seen every auth marked dirty
\* and its timer fires no later than the head of the queue.  (queueReschedule,
\* resetTimer)
SleepsUntilHead ==
  (at[Loop] = "select" /\ ~wake /\ \A r \in Announcers : pc[r] \notin {"wake", "wakeAgain"})
  => dirty = {} /\ \A a \in Auths : queue[a] # 0 => timer \in 1..queue[a]

\* Workers and requests never refresh one auth at the same time.
\* (refreshAuthForRequest, refreshLocks)
OneRefreshPerAuth ==
  \A r, s \in Refreshers :
    (pc[r] = "call" /\ pc[s] = "call" /\ target[r] = target[s]) => r = s

\* No refresh starts from a token of its auth that an earlier refresh has
\* replaced, unless an edit brought it back, and a request refreshes only the
\* token it failed with.  (refreshAuthForRequest)
NoTokenIsRefreshedTwice ==
  \A r \in Refreshers : pc[r] = "call" =>
    /\ <<target[r], snapshot[r].token>> \notin spent
    /\ r \in Requests => snapshot[r].token = failed[r]

\* A refresh or an edit that ends keeps a cooldown recorded since it began.
\* (Update)
CooldownSurvives ==
  [][\A a \in Auths :
       (/\ \/ \E r \in Refreshers : RefreshReturns(r)
           \/ \E e \in Editors : EditorUpdates(e)
        /\ Present(a) /\ Present(a)' /\ auths[a].retryAfter > now
        /\ ~auths[a].disabled /\ ~auths'[a].disabled)
       => auths'[a].retryAfter >= auths[a].retryAfter]_vars

\* The loop does not spin: a check that finds nothing to do is repeated later,
\* and an auth is not due when its refresh ends, even if the refresh changed
\* nothing.  (handleDueAuth, refreshIneffectiveBackoff)
NeverSpinning ==
  [][\A a \in Auths :
       /\ HandleDue(a) /\ at'[Loop] = "store"
          => plan'[Loop].next = 0 \/ plan'[Loop].next > clock[Loop]
       /\ (\E r \in Workers : RefreshReturns(r) /\ target[r] = a) /\ Present(a)'
          => auths'[a].evaluator \/ ~ShouldRefresh(auths'[a], now, now)]_vars

\* An auth that is due is refreshed, unless a 401 was recorded meanwhile.
\* (the loop and its workers)
Refreshing(a) == \E r \in Refreshers : pc[r] = "call" /\ target[r] = a
Due(a) == /\ Present(a) /\ a \notin lapsed /\ auths[a].executor
          /\ ~auths[a].apiKey /\ ~auths[a].evaluator /\ ShouldRefresh(auths[a], now, now)
DueIsRefreshed ==
  \A a \in Auths :
    Due(a) ~> (Refreshing(a) \/ ~Present(a) \/ auths[a].unauthorized \/ a \in lapsed)
=============================================================================
