-------------------------- MODULE AutoRefreshProofs --------------------------
(***************************************************************************)
(* Proofs about the refresh of credentials, for every number of auths,      *)
(* workers, requests, editors and inspectors, and for every schedule.       *)
(***************************************************************************)
EXTENDS AutoRefresh, TLAPS

-----------------------------------------------------------------------------
(* The schedule: what nextRefreshCheckAt and shouldRefresh promise each     *)
(* other, for every credential and every time of a clock without an end.   *)

\* nextRefreshCheckAt never schedules a credential after the first time at which
\* shouldRefresh would say yes: the loop looks at it in time.
THEOREM DueIsNeverMissed ==
  ASSUME NEW auth, HasSchedule(auth), NEW present \in Times,
         NEW time \in Times
  PROVE  NeverLate(auth, present, time)
BY DEF NeverLate, NextRefreshCheckAt, ShouldRefresh, DueAt, HeldBack, Later,
       Earlier, HasSchedule, Times

\* When shouldRefresh says no to a credential, nextRefreshCheckAt does not name
\* the time of the check: a check without a refresh puts the credential off.
THEOREM IdleChecksSleep ==
  ASSUME NEW auth, HasSchedule(auth), NEW present \in Times, NEW later \in Times
  PROVE  NeverSpins(auth, present, later)
BY DEF NeverSpins, NextRefreshCheckAt, ShouldRefresh, DueAt, HeldBack, Later,
       Earlier, HasSchedule, Times

-----------------------------------------------------------------------------
(* Types                                                                   *)

\* The next check of a registered auth is a time, or 0.
LEMMA NextCheckType ==
  ASSUME NEW auth \in AuthRecords, NEW time \in Nat
  PROVE  NextRefreshCheckAt(time, auth) \in Nat
BY CheckIntervalIsPositive
   DEF AuthRecords, NextRefreshCheckAt, HeldBack, DueAt, Later, Earlier

\* The next check of any auth is a time, or 0.
LEMMA NextCheckOfType ==
  ASSUME ManagerTypes, NEW a \in Auths, NEW time \in Nat
  PROVE  NextCheck(a, time) \in Nat
BY NextCheckType DEF ManagerTypes, NextCheck, Present

\* What Update stores is an auth.
LEMMA UpdateTypes ==
  ASSUME ManagerTypes, NEW a \in Auths, NEW auth \in AuthRecords, Update(a, auth)
  PROVE  auths' \in [Auths -> AuthRecords \cup {NoAuth}]
<1>1. Present(a) => auths[a] \in AuthRecords
  BY DEF ManagerTypes, Present
<1>2. Present(a) => [auth EXCEPT !.retryAfter = Later(@, auths[a].retryAfter)]
                      \in AuthRecords
  BY <1>1 DEF AuthRecords, Later
<1>3. CASE Present(a) \/ a \notin removed
  BY <1>2, <1>3 DEF Update, ManagerTypes
<1>4. CASE ~(Present(a) \/ a \notin removed)
  BY <1>4 DEF Update, ManagerTypes
<1> QED BY <1>3, <1>4

\* What a refresh returns is an auth.
LEMMA RefreshedTypes ==
  ASSUME TypeOK, NEW auth \in AuthRecords, NEW effective \in BOOLEAN,
         NEW new \in Refreshed(auth, effective)
  PROVE  new \in AuthRecords
<1>1. /\ now \in Nat /\ issued + 1 \in Nat /\ now + Lifetime \in Nat
      /\ now + IneffectiveBackoff \in Nat
  BY RefreshBounds DEF TypeOK, ManagerTypes
<1> DEFINE result == [auth EXCEPT !.lastRefreshedAt = now,
                                  !.nextRefreshAfter = 0,
                                  !.unauthorized = FALSE,
                                  !.token = IF effective THEN issued + 1 ELSE @,
                                  !.expiry = IF effective THEN now + Lifetime ELSE @]
<1>2. result \in AuthRecords
  BY <1>1 DEF AuthRecords
<1>3. [result EXCEPT !.nextRefreshAfter = now + IneffectiveBackoff] \in AuthRecords
  <2> HIDE DEF result
  <2> QED BY <1>1, <1>2 DEF AuthRecords
<1>4. new \in {result, [result EXCEPT !.nextRefreshAfter = now + IneffectiveBackoff]}
  BY DEF Refreshed
<1> QED BY <1>2, <1>3, <1>4

\* What an edit stores is an auth.
LEMMA EditsAreAuths ==
  ASSUME TypeOK, NEW e \in Editors, EditorUpdates(e)
  PROVE  \E auth \in AuthRecords : Update(target[e], auth)
<1>1. snapshot[e] \in AuthRecords
  BY DEF EditorUpdates, Announcers, TypeOK, CallTypes
<1>2. now + Lifetime \in Nat /\ issued + 1 \in Nat
  BY RefreshBounds DEF TypeOK, ManagerTypes
<1>3. /\ \A d \in Switches : [snapshot[e] EXCEPT !.disabled = d] \in AuthRecords
      /\ [snapshot[e] EXCEPT !.unauthorized = FALSE] \in AuthRecords
      /\ [snapshot[e] EXCEPT !.unauthorized = FALSE, !.token = issued + 1,
                             !.expiry = now + Lifetime] \in AuthRecords
  BY <1>1, <1>2, RefreshBounds DEF AuthRecords
<1> QED BY <1>3 DEF EditorUpdates

\* Moving on, or starting, keeps the types of the calls, if the copy a goroutine
\* has is an auth where it needs one.
LEMMA MoveKeepsTypes ==
  ASSUME CallTypes, NEW x \in Announcers, NEW place \in CallPlaces,
         pc' = [pc EXCEPT ![x] = place],
         target' \in [Announcers -> Auths \cup {None}],
         \A y \in Announcers \ {x} : target'[y] = target[y],
         place # "idle" => target'[x] \in Auths,
         failed' \in [Requests -> Nat],
         spent' \subseteq Auths \X Nat,
         snapshot' \in [Announcers -> AuthRecords \cup {NoAuth}],
         \A y \in Announcers \ {x} : snapshot'[y] = snapshot[y],
         place \in {"call", "edit"} => snapshot'[x] \in AuthRecords
  PROVE  CallTypes'
<1>1. /\ pc' \in [Announcers -> CallPlaces] /\ pc'[x] = place
      /\ \A y \in Announcers \ {x} : pc'[y] = pc[y]
  BY DEF CallTypes
<1> QED BY <1>1 DEF CallTypes

\* The variables a move changes have their types.
LEMMA GotoTypes ==
  ASSUME CallTypes, NEW x \in Announcers, NEW place, Goto(x, place),
         pc[x] # "idle"
  PROVE  /\ pc' = [pc EXCEPT ![x] = place]
         /\ target' \in [Announcers -> Auths \cup {None}]
         /\ \A y \in Announcers \ {x} : target'[y] = target[y]
         /\ place # "idle" => target'[x] \in Auths
         /\ failed' \in [Requests -> Nat]
BY DEF Goto, CallTypes

\* A goroutine that moves on and drops its copy, or keeps what it has.
LEMMA GotoKeepsTypes ==
  ASSUME CallTypes, NEW x \in Announcers, NEW place \in CallPlaces, Goto(x, place),
         pc[x] # "idle", place \notin {"call", "edit"},
         spent' \subseteq Auths \X Nat,
         \/ snapshot' = snapshot
         \/ snapshot' = [snapshot EXCEPT ![x] = NoAuth]
  PROVE  CallTypes'
<1>1. /\ snapshot' \in [Announcers -> AuthRecords \cup {NoAuth}]
      /\ \A y \in Announcers \ {x} : snapshot'[y] = snapshot[y]
  BY DEF CallTypes
<1> QED BY <1>1, GotoTypes, MoveKeepsTypes

\* A goroutine that sets out for an auth.
LEMMA StartKeepsTypes ==
  ASSUME CallTypes, NEW x \in Announcers, NEW place \in CallPlaces,
         NEW a \in Auths, Start(x, place, a),
         failed' \in [Requests -> Nat], spent' = spent,
         \/ snapshot' = snapshot /\ place \notin {"call", "edit"}
         \/ snapshot' = [snapshot EXCEPT ![x] = auths[a]] /\ auths[a] \in AuthRecords
  PROVE  CallTypes'
<1>1. /\ snapshot' \in [Announcers -> AuthRecords \cup {NoAuth}]
      /\ \A y \in Announcers \ {x} : snapshot'[y] = snapshot[y]
      /\ place \in {"call", "edit"} => snapshot'[x] \in AuthRecords
  BY DEF CallTypes
<1>2. /\ target' \in [Announcers -> Auths \cup {None}] /\ target'[x] = a
      /\ \A y \in Announcers \ {x} : target'[y] = target[y]
      /\ spent' \subseteq Auths \X Nat
  BY DEF CallTypes, Start
<1> QED BY <1>1, <1>2, MoveKeepsTypes DEF Start

\* The steps of the loop and of whoever applies the dirty auths keep the types.
LEMMA ApplierStepTypes ==
  ASSUME TypeOK,
         \/ LoopStep \/ StartAutoRefresh
         \/ \E p \in Appliers : ApplyStep(p)
         \/ \E i \in Inspectors : Inspect(i) \/ Inspected(i)
  PROVE  TypeOK'
<1> USE DEF TypeOK, Appliers, Loop
<1>c. UNCHANGED callerVars => CallTypes'
  BY DEF CallTypes, callerVars
<1>m. UNCHANGED managerVars => ManagerTypes'
  BY DEF ManagerTypes, managerVars, Present
<1>q. UNCHANGED loopVars => QueueTypes'
  BY DEF QueueTypes, loopVars
<1>n. \A a \in Auths, p \in Appliers : NextCheck(a, clock[p]) \in Nat
  BY NextCheckOfType DEF ApplierTypes
<1> HIDE DEF Appliers
<1>l. Loop \in Appliers
  BY DEF Appliers
<1>1. CASE StartAutoRefresh
  BY <1>1, <1>c, <1>q, <1>l DEF StartAutoRefresh, ManagerTypes, ApplierTypes, Places,
     Planning
<1>2. CASE RebuildRead
  BY <1>2, <1>c, <1>m, <1>q, <1>n, <1>l DEF RebuildRead, ApplierTypes, Places, Planning
<1>3. CASE RebuildWrite
  BY <1>3, <1>c, <1>m, <1>l DEF RebuildWrite, ApplierTypes, QueueTypes, Places,
     Planning
<1>4. CASE ResetTimer
  BY <1>4, <1>c, <1>m, <1>l DEF ResetTimer, ApplierTypes, QueueTypes, Places, Planning
<1>5. CASE LoopWakes
  <2>1. QueueTypes'
    BY <1>5 DEF LoopWakes, QueueTypes
  <2>2. ApplierTypes'
    BY <1>5, <1>l DEF LoopWakes, ApplierTypes, Places, Planning
  <2> QED BY <1>5, <1>c, <1>m, <2>1, <2>2 DEF LoopWakes
<1>6. CASE TimerFires
  BY <1>6, <1>c, <1>m, <1>l DEF TimerFires, ApplierTypes, QueueTypes, Places, Planning
<1>7. ASSUME NEW a \in Auths, HandleDue(a) PROVE TypeOK'
  <2>1. clock[Loop] + CheckInterval \in Nat
    BY <1>l, CheckIntervalIsPositive DEF ApplierTypes
  <2>2. /\ at' \in [Appliers -> Places] /\ plan' \in [Appliers -> [auth : Auths \cup {None}, next : Nat]]
        /\ \A p \in Appliers : at'[p] \in Planning => plan'[p].auth \in Auths
    <3>1. CASE UNCHANGED <<at, plan>>
      BY <3>1 DEF ApplierTypes
    <3>2. CASE \E next \in Nat, place \in {"store", "mark"} :
                 Plan(Loop, a, next) /\ at' = [at EXCEPT ![Loop] = place]
      BY <1>l, <3>2 DEF Plan, ApplierTypes, Places, Planning
    <3> QED BY <1>7, <1>l, <1>n, <2>1, <3>1, <3>2 DEF HandleDue
  <2> QED BY <1>7, <1>c, <1>m, <1>q, <2>2 DEF HandleDue, ApplierTypes
<1>8. CASE MarkRefreshPending
  <2>1. plan[Loop].auth \in Auths /\ clock[Loop] + PendingBackoff \in Nat
    BY <1>8, <1>l, RefreshBounds DEF MarkRefreshPending, ApplierTypes, Planning
  <2>2. CASE auths' = auths
    BY <1>8, <1>c, <1>q, <1>l, <2>1, <2>2
       DEF MarkRefreshPending, ApplierTypes, ManagerTypes, Places, Planning
  <2>3. CASE Present(plan[Loop].auth) /\ auths' = [auths EXCEPT
                ![plan[Loop].auth].nextRefreshAfter = clock[Loop] + PendingBackoff]
    <3>1. auths' \in [Auths -> AuthRecords \cup {NoAuth}]
      BY <2>1, <2>3 DEF ManagerTypes, Present, AuthRecords
    <3> QED BY <1>8, <1>c, <1>q, <1>l, <2>1, <3>1
       DEF MarkRefreshPending, ApplierTypes, ManagerTypes, Places, Planning
  <2> QED BY <1>8, <2>2, <2>3 DEF MarkRefreshPending
<1>9. CASE RereadDue
  BY <1>9, <1>c, <1>m, <1>q, <1>n, <1>l DEF RereadDue, Plan, ApplierTypes, Places, Planning
<1>10. CASE AnnouncePending
  BY <1>10, <1>c, <1>m, <1>l DEF AnnouncePending, ApplierTypes, QueueTypes, Places,
     Planning
<1>11. CASE SendJob
  <2>1. plan[Loop].auth \in Auths
    BY <1>11, <1>l DEF SendJob, ApplierTypes, Planning
  <2>2. QueueTypes'
    BY <1>11, <2>1, RefreshBounds DEF SendJob, QueueTypes
  <2> QED BY <1>11, <1>c, <1>m, <1>l, <2>2
     DEF SendJob, ApplierTypes, NoPlan, Places, Planning
<1>12. ASSUME NEW i \in Inspectors, Inspect(i) \/ Inspected(i) PROVE TypeOK'
  <2>1. i \in Appliers
    BY DEF Appliers
  <2> QED BY <1>12, <1>c, <1>m, <1>q, <2>1
     DEF Inspect, Inspected, ApplierTypes, Places, Planning
<1>13. ASSUME NEW p \in Appliers, DrainDirty(p) PROVE TypeOK'
  BY <1>13, <1>c, <1>m DEF DrainDirty, ApplierTypes, QueueTypes, Places, Planning
<1>14. ASSUME NEW p \in Appliers, NEW a \in Auths, ApplyRead(p, a) PROVE TypeOK'
  BY <1>14, <1>c, <1>m, <1>q, <1>n
     DEF ApplyRead, Plan, ApplierTypes, Places, Planning
<1>15. ASSUME NEW p \in Appliers, Store(p) PROVE TypeOK'
  BY <1>15, <1>c, <1>m DEF Store, NoPlan, ApplierTypes, QueueTypes, Places, Planning
<1> QED
  BY <1>1, <1>2, <1>3, <1>4, <1>5, <1>6, <1>7, <1>8, <1>9, <1>10, <1>11, <1>12,
     <1>13, <1>14, <1>15 DEF LoopStep, ApplyStep

\* The steps of workers and requests keep the types.
LEMMA RefresherStepTypes ==
  ASSUME TypeOK,
         \/ \E w \in Workers : TakeJob(w)
         \/ \E r \in Requests : RequestAnswered(r) \/ \E a \in Auths : RequestStarts(r, a)
         \/ \E r \in Refreshers : Lock(r) \/ RefreshReturns(r)
  PROVE  TypeOK'
<1> USE DEF TypeOK
<1>a. UNCHANGED applierVars /\ now' = now => ApplierTypes'
  BY DEF ApplierTypes, applierVars
<1>m. UNCHANGED managerVars => ManagerTypes'
  BY DEF ManagerTypes, managerVars, Present
<1>q. UNCHANGED loopVars => QueueTypes'
  BY DEF QueueTypes, loopVars
<1>s. spent \subseteq Auths \X Nat /\ failed \in [Requests -> Nat]
  BY DEF CallTypes
<1>1. ASSUME NEW w \in Workers, TakeJob(w) PROVE TypeOK'
  <2>1. jobs' \in Seq(Auths) /\ Len(jobs') <= JobBuffer /\ Head(jobs) \in Auths
    BY <1>1, RefreshBounds DEF TakeJob, QueueTypes
  <2>2. CallTypes'
    BY <1>1, <1>s, <2>1, StartKeepsTypes DEF TakeJob, Announcers, Refreshers, CallPlaces
  <2> QED BY <1>1, <1>a, <1>m, <2>1, <2>2 DEF TakeJob, QueueTypes
<1>2. ASSUME NEW r \in Requests, NEW a \in Auths, RequestStarts(r, a) PROVE TypeOK'
  <2>1. auths[a].token \in Nat
    BY <1>2 DEF RequestStarts, Present, ManagerTypes, AuthRecords
  <2>2. failed' \in [Requests -> Nat]
    BY <1>2, <1>s, <2>1 DEF RequestStarts
  <2>3. CallTypes'
    BY <1>2, <2>2, StartKeepsTypes DEF RequestStarts, Announcers, Refreshers, CallPlaces
  <2> QED BY <1>2, <1>a, <1>m, <1>q, <2>3 DEF RequestStarts
<1>3. ASSUME NEW r \in Requests, RequestAnswered(r) PROVE TypeOK'
  <2>1. CallTypes'
    BY <1>3, <1>s, GotoKeepsTypes DEF RequestAnswered, Announcers, Refreshers, CallPlaces
  <2> QED BY <1>3, <1>a, <1>m, <1>q, <2>1 DEF RequestAnswered
<1>4. ASSUME NEW r \in Refreshers, Lock(r) PROVE TypeOK'
  <2>1. r \in Announcers /\ pc[r] # "idle" /\ target[r] \in Auths
    BY <1>4 DEF Lock, Announcers, CallTypes
  <2>2. ASSUME Goto(r, "call"), snapshot' = [snapshot EXCEPT ![r] = auths[target[r]]],
               Present(target[r])
        PROVE  CallTypes'
    <3>1. auths[target[r]] \in AuthRecords
      BY <2>1, <2>2 DEF Present, ManagerTypes
    <3>2. /\ snapshot' \in [Announcers -> AuthRecords \cup {NoAuth}]
          /\ \A y \in Announcers \ {r} : snapshot'[y] = snapshot[y]
          /\ snapshot'[r] \in AuthRecords
      BY <2>1, <2>2, <3>1 DEF CallTypes
    <3>3. spent' \subseteq Auths \X Nat /\ "call" \in CallPlaces
      BY <1>4, <1>s DEF Lock, CallPlaces
    <3> QED BY <2>1, <2>2, <3>2, <3>3, GotoTypes, MoveKeepsTypes
  <2>3. ASSUME Goto(r, Unlocked(r)), UNCHANGED snapshot PROVE CallTypes'
    BY <1>4, <1>s, <2>1, <2>3, GotoKeepsTypes DEF Lock, Unlocked, CallPlaces
  <2> QED BY <1>4, <1>a, <1>m, <1>q, <2>2, <2>3 DEF Lock
<1>5. ASSUME NEW r \in Refreshers, RefreshSucceeds(r) PROVE TypeOK'
  <2>1. r \in Announcers /\ pc[r] = "call" /\ target[r] \in Auths
        /\ snapshot[r] \in AuthRecords /\ snapshot[r].token \in Nat
    BY <1>5 DEF RefreshSucceeds, Announcers, CallTypes, AuthRecords
  <2>2. PICK effective \in BOOLEAN :
          /\ effective => issued < MaxToken
          /\ issued' = IF effective THEN issued + 1 ELSE issued
          /\ spent' = IF effective THEN spent \cup {<<target[r], snapshot[r].token>>}
                      ELSE spent
          /\ \E auth \in Refreshed(snapshot[r], effective) : Update(target[r], auth)
    BY <1>5 DEF RefreshSucceeds
  <2>3. auths' \in [Auths -> AuthRecords \cup {NoAuth}]
    BY <2>1, <2>2, RefreshedTypes, UpdateTypes
  <2>4. issued' \in 1..MaxToken
    BY <2>2, RefreshBounds DEF ManagerTypes
  <2>5. spent' \subseteq Auths \X Nat
    BY <1>s, <2>1, <2>2
  <2>6. CallTypes'
    BY <1>5, <2>1, <2>5, GotoKeepsTypes DEF RefreshSucceeds, Unlocked, CallPlaces
  <2> QED BY <1>5, <1>a, <1>q, <2>3, <2>4, <2>6 DEF RefreshSucceeds, ManagerTypes
<1>6. ASSUME NEW r \in Refreshers, RefreshFails(r) PROVE TypeOK'
  <2>1. r \in Announcers /\ pc[r] = "call" /\ target[r] \in Auths
    BY <1>6 DEF RefreshFails, Announcers, CallTypes
  <2>2. now + FailureBackoff \in Nat
    BY RefreshBounds
  <2>3. auths' \in [Auths -> AuthRecords \cup {NoAuth}]
    <3>1. CASE Present(target[r])
      <4>1. auths[target[r]] \in AuthRecords
        BY <2>1, <3>1 DEF Present, ManagerTypes
      <4>2. PICK unauthorized \in BOOLEAN :
              auths' = [auths EXCEPT ![target[r]].unauthorized = unauthorized,
                                     ![target[r]].nextRefreshAfter =
                                        IF unauthorized THEN 0 ELSE now + FailureBackoff]
        BY <1>6, <3>1 DEF RefreshFails
      <4> QED BY <2>1, <2>2, <4>1, <4>2 DEF ManagerTypes, AuthRecords
    <3>2. CASE ~Present(target[r])
      BY <1>6, <3>2 DEF RefreshFails, ManagerTypes
    <3> QED BY <3>1, <3>2
  <2>4. CallTypes'
    BY <1>6, <1>s, <2>1, GotoKeepsTypes DEF RefreshFails, Unlocked, CallPlaces
  <2> QED BY <1>6, <1>a, <1>q, <2>3, <2>4 DEF RefreshFails, ManagerTypes
<1>7. ASSUME NEW r \in Refreshers, RefreshCancelled(r) PROVE TypeOK'
  <2>1. CallTypes'
    BY <1>7, <1>s, GotoKeepsTypes DEF RefreshCancelled, Unlocked, CallPlaces, Announcers
  <2> QED BY <1>7, <1>a, <1>m, <1>q, <2>1 DEF RefreshCancelled
<1> QED BY <1>1, <1>2, <1>3, <1>4, <1>5, <1>6, <1>7 DEF RefreshReturns

\* The steps of editors, the announcements, the results of requests and the clock
\* keep the types.
LEMMA OtherStepTypes ==
  ASSUME TypeOK,
         \/ Tick
         \/ \E r \in Announcers : AnnounceStep(r)
         \/ \E e \in Editors : EditorStep(e)
         \/ \E a \in Auths, result \in Results : MarkResult(a, result)
  PROVE  TypeOK'
<1> USE DEF TypeOK
<1>a. UNCHANGED applierVars /\ now' = now => ApplierTypes'
  BY DEF ApplierTypes, applierVars
<1>m. UNCHANGED managerVars => ManagerTypes'
  BY DEF ManagerTypes, managerVars, Present
<1>q. UNCHANGED loopVars => QueueTypes'
  BY DEF QueueTypes, loopVars
<1>c. UNCHANGED callerVars => CallTypes'
  BY DEF CallTypes, callerVars
<1>s. spent \subseteq Auths \X Nat /\ failed \in [Requests -> Nat]
  BY DEF CallTypes
<1>1. CASE Tick
  BY <1>1, <1>m, <1>q, <1>c, RefreshBounds DEF Tick, ApplierTypes, applierVars
<1>2. ASSUME NEW r \in Announcers, Announce(r) PROVE TypeOK'
  <2>1. CallTypes'
    BY <1>2, <1>s, GotoKeepsTypes DEF Announce, AfterAnnouncing, Unlocked, CallPlaces
  <2>2. pc[r] # "idle" /\ target[r] \in Auths
    BY <1>2 DEF Announce, CallTypes
  <2> QED BY <1>2, <1>a, <2>1, <2>2 DEF Announce, ManagerTypes, QueueTypes
<1>3. ASSUME NEW r \in Announcers, WakeLoop(r) PROVE TypeOK'
  <2>1. CallTypes'
    BY <1>3, <1>s, GotoKeepsTypes DEF WakeLoop, AfterAnnouncing, Unlocked, CallPlaces
  <2> QED BY <1>3, <1>a, <1>m, <2>1 DEF WakeLoop, QueueTypes
<1>4. ASSUME NEW e \in Editors, EditorUpdates(e) PROVE TypeOK'
  <2>1. e \in Announcers /\ pc[e] = "edit" /\ target[e] \in Auths
        /\ snapshot[e] \in AuthRecords
    BY <1>4 DEF EditorUpdates, Announcers, CallTypes
  <2>4. \E auth \in AuthRecords : Update(target[e], auth)
    BY <1>4, EditsAreAuths
  <2>5. auths' \in [Auths -> AuthRecords \cup {NoAuth}]
    BY <2>1, <2>4, UpdateTypes
  <2>6. issued' \in 1..MaxToken
    BY <1>4, RefreshBounds DEF EditorUpdates, ManagerTypes
  <2>7. spent' \subseteq Auths \X Nat
    BY <1>4, <1>s DEF EditorUpdates
  <2>8. CallTypes'
    BY <1>4, <2>1, <2>7, GotoKeepsTypes DEF EditorUpdates, CallPlaces
  <2> QED BY <1>4, <1>a, <1>q, <2>5, <2>6, <2>8 DEF EditorUpdates, ManagerTypes
<1>5. ASSUME NEW e \in Editors, Unschedule(e) PROVE TypeOK'
  <2>1. e \in Announcers /\ pc[e] = "unschedule" /\ target[e] \in Auths
    BY <1>5 DEF Unschedule, Announcers, CallTypes
  <2>2. CallTypes'
    BY <1>5, <1>s, <2>1, GotoKeepsTypes DEF Unschedule, CallPlaces
  <2> QED BY <1>5, <1>a, <2>1, <2>2 DEF Unschedule, ManagerTypes, QueueTypes
<1>6. ASSUME NEW e \in Editors, NEW a \in Auths, Register(e, a) PROVE TypeOK'
  <2>1. PICK c \in Credentials : auths' = [auths EXCEPT ![a] = [c EXCEPT !.token = issued + 1]]
    BY <1>6 DEF Register
  <2>2. [c EXCEPT !.token = issued + 1] \in AuthRecords
    BY CredentialsAreRecords DEF AuthRecords, ManagerTypes
  <2>3. auths' \in [Auths -> AuthRecords \cup {NoAuth}]
    BY <2>1, <2>2 DEF ManagerTypes
  <2>4. CallTypes'
    BY <1>6, <1>s, StartKeepsTypes DEF Register, Announcers, CallPlaces
  <2>5. issued' \in 1..MaxToken
    BY <1>6, RefreshBounds DEF Register, ManagerTypes
  <2> QED BY <1>6, <1>a, <1>q, <2>3, <2>4, <2>5 DEF Register, ManagerTypes
<1>7. ASSUME NEW e \in Editors, NEW a \in Auths, EditorReads(e, a) PROVE TypeOK'
  <2>1. auths[a] \in AuthRecords
    BY <1>7 DEF EditorReads, Present, ManagerTypes
  <2>2. CallTypes'
    BY <1>7, <1>s, <2>1, StartKeepsTypes DEF EditorReads, Announcers, CallPlaces
  <2> QED BY <1>7, <1>a, <1>m, <1>q, <2>2 DEF EditorReads
<1>8. ASSUME NEW e \in Editors, NEW a \in Auths, Remove(e, a) PROVE TypeOK'
  <2>1. CallTypes'
    BY <1>8, <1>s, StartKeepsTypes DEF Remove, Announcers, CallPlaces
  <2> QED BY <1>8, <1>a, <1>q, <2>1 DEF Remove, ManagerTypes
<1>9. ASSUME NEW a \in Auths, NEW result \in Results, MarkResult(a, result)
      PROVE  TypeOK'
  <2>1. auths[a] \in AuthRecords /\ now + Cooldown \in Nat
    BY <1>9, RefreshBounds DEF MarkResult, Present, ManagerTypes
  <2>2. auths' \in [Auths -> AuthRecords \cup {NoAuth}]
    BY <1>9, <2>1 DEF MarkResult, ManagerTypes, AuthRecords
  <2> QED BY <1>9, <1>a, <1>q, <1>c, <2>2 DEF MarkResult, ManagerTypes
<1> QED BY <1>1, <1>2, <1>3, <1>4, <1>5, <1>6, <1>7, <1>8, <1>9
        DEF AnnounceStep, EditorStep

\* Every step keeps the types.
LEMMA TypeStep == TypeOK /\ [Next]_vars => TypeOK'
<1>1. TypeOK /\ UNCHANGED vars => TypeOK'
  BY DEF TypeOK, ManagerTypes, QueueTypes, ApplierTypes, CallTypes, Present, vars,
     managerVars, loopVars, applierVars, callerVars
<1> QED BY <1>1, ApplierStepTypes, RefresherStepTypes, OtherStepTypes DEF Next

\* The variables have their types at first.
LEMMA InitTypes == Init => TypeOK
<1> SUFFICES ASSUME Init PROVE TypeOK
  OBVIOUS
<1>1. ManagerTypes
  <2>1. auths \in [Auths -> AuthRecords \cup {NoAuth}]
    BY CredentialsAreRecords DEF Init
  <2>2. issued \in 1..MaxToken
    BY RefreshBounds DEF Init
  <2> QED BY <2>1, <2>2 DEF Init, ManagerTypes
<1>2. QueueTypes
  <2>1. jobs \in Seq(Auths) /\ Len(jobs) <= JobBuffer
    BY RefreshBounds DEF Init
  <2> QED BY <2>1 DEF Init, QueueTypes
<1>3. ApplierTypes
  BY DEF Init, ApplierTypes, NoPlan, Places, Planning, Appliers
<1>4. CallTypes
  BY DEF Init, CallTypes, CallPlaces
<1> QED BY <1>1, <1>2, <1>3, <1>4, RefreshBounds DEF Init, TypeOK

\* The variables keep their types, and no goroutine works with an auth it does
\* not have.
THEOREM RefreshTypes == Spec => []TypeOK
BY InitTypes, TypeStep, PTL DEF Spec

-----------------------------------------------------------------------------
(* The refresh lock                                                        *)

HeldPlaces == {"call", "announce", "wake"}

\* The refresh lock of an auth has one holder at most.
LockInv ==
  /\ pc = [x \in Announcers |-> pc[x]]
  /\ target = [x \in Announcers |-> target[x]]
  /\ \A r, s \in Refreshers :
       (pc[r] \in HeldPlaces /\ pc[s] \in HeldPlaces /\ target[r] = target[s])
       => r = s

\* A step of one goroutine keeps the locks if it ends without a lock, kept the
\* one it had, or took a free one.
LEMMA LockFrame ==
  ASSUME LockInv, NEW x \in Announcers, NEW place,
         pc' = [pc EXCEPT ![x] = place],
         target' = [y \in Announcers |-> target'[y]],
         \A y \in Announcers \ {x} : target'[y] = target[y],
         (x \in Refreshers /\ place \in HeldPlaces) =>
            /\ target'[x] = target[x]
            /\ \/ pc[x] \in HeldPlaces
               \/ \A s \in Refreshers : ~Holds(s, target[x])
  PROVE  LockInv'
<1>1. pc' = [y \in Announcers |-> pc'[y]] /\ pc'[x] = place
      /\ \A y \in Announcers \ {x} : pc'[y] = pc[y]
  BY DEF LockInv
<1>2. ASSUME NEW r \in Refreshers, NEW s \in Refreshers,
             pc'[r] \in HeldPlaces, pc'[s] \in HeldPlaces, target'[r] = target'[s]
      PROVE  r = s
  <2>1. CASE r # x /\ s # x
    BY <1>1, <1>2, <2>1 DEF LockInv, Announcers
  <2>2. ASSUME NEW q \in Refreshers, q # x, x \in Refreshers,
               pc'[q] \in HeldPlaces, pc'[x] \in HeldPlaces,
               target'[q] = target'[x]
        PROVE  FALSE
    <3>1. pc[q] \in HeldPlaces /\ target[q] = target[x]
      BY <1>1, <2>2 DEF Announcers
    <3>2. Holds(q, target[x])
      BY <3>1 DEF Holds, HeldPlaces
    <3>3. pc[x] \in HeldPlaces
      BY <1>1, <2>2, <3>2
    <3> QED BY <2>2, <3>1, <3>3 DEF LockInv
  <2> QED BY <1>2, <2>1, <2>2
<1> QED BY <1>1, <1>2 DEF LockInv

\* Moving on inside a call changes no other goroutine's auth, and not one's own.
LEMMA GotoKeepsTargets ==
  ASSUME LockInv, NEW x \in Announcers, NEW place, Goto(x, place)
  PROVE  /\ pc' = [pc EXCEPT ![x] = place]
         /\ target' = [y \in Announcers |-> target'[y]]
         /\ \A y \in Announcers \ {x} : target'[y] = target[y]
         /\ place # "idle" => target'[x] = target[x]
BY DEF Goto, LockInv

\* Starting a call changes no other goroutine's auth.
LEMMA StartKeepsTargets ==
  ASSUME LockInv, NEW x \in Announcers, NEW place, NEW a, Start(x, place, a)
  PROVE  /\ pc' = [pc EXCEPT ![x] = place]
         /\ target' = [y \in Announcers |-> target'[y]]
         /\ \A y \in Announcers \ {x} : target'[y] = target[y]
BY DEF Start, LockInv

\* Moving on keeps the locks, when no lock is taken that another one holds.
LEMMA GotoKeepsLocks ==
  ASSUME LockInv, NEW x \in Announcers, NEW place, Goto(x, place),
         (x \in Refreshers /\ place \in HeldPlaces) =>
            \/ pc[x] \in HeldPlaces
            \/ \A s \in Refreshers : ~Holds(s, target[x])
  PROVE  LockInv'
<1>1. place \in HeldPlaces => place # "idle"
  BY DEF HeldPlaces
<1> QED BY <1>1, GotoKeepsTargets, LockFrame

\* A call starts without a refresh lock, so it keeps the locks.
LEMMA StartKeepsLocks ==
  ASSUME LockInv, NEW x \in Announcers, NEW place, NEW a, Start(x, place, a),
         x \in Refreshers => place \notin HeldPlaces
  PROVE  LockInv'
BY StartKeepsTargets, LockFrame

\* No step of the system gives a refresh lock to a second holder.
LEMMA LockStep == LockInv /\ [Next]_vars => LockInv'
<1> SUFFICES ASSUME LockInv, [Next]_vars PROVE LockInv'
  OBVIOUS
<1>1. CASE UNCHANGED <<pc, target>>
  BY <1>1 DEF LockInv
<1>2. ASSUME NEW w \in Workers, TakeJob(w) PROVE LockInv'
  BY <1>2, StartKeepsLocks DEF TakeJob, HeldPlaces, Announcers, Refreshers
<1>3. ASSUME NEW r \in Requests, RequestAnswered(r) PROVE LockInv'
  BY <1>3, GotoKeepsLocks DEF RequestAnswered, HeldPlaces, Announcers, Refreshers
<1>4. ASSUME NEW r \in Requests, NEW a \in Auths, RequestStarts(r, a)
      PROVE LockInv'
  BY <1>4, StartKeepsLocks DEF RequestStarts, HeldPlaces, Announcers, Refreshers
<1>5. ASSUME NEW r \in Refreshers, Lock(r) PROVE LockInv'
  BY <1>5, GotoKeepsLocks DEF Lock, Unlocked, HeldPlaces, Announcers
<1>6. ASSUME NEW r \in Refreshers, RefreshReturns(r) PROVE LockInv'
  BY <1>6, GotoKeepsLocks
     DEF RefreshReturns, RefreshSucceeds, RefreshFails, RefreshCancelled,
         HeldPlaces, Announcers
<1>7. ASSUME NEW r \in Announcers, Announce(r) PROVE LockInv'
  <2>1. CASE pc[r] = "announce"
    BY <1>7, <2>1, GotoKeepsLocks DEF Announce, HeldPlaces
  <2>2. CASE pc[r] = "again"
    BY <1>7, <2>2, GotoKeepsLocks DEF Announce, AfterAnnouncing, HeldPlaces
  <2> QED BY <1>7, <2>1, <2>2 DEF Announce
<1>8. ASSUME NEW r \in Announcers, WakeLoop(r) PROVE LockInv'
  BY <1>8, GotoKeepsLocks DEF WakeLoop, AfterAnnouncing, Unlocked, HeldPlaces
<1>9. ASSUME NEW e \in Editors, EditorStep(e) PROVE LockInv'
  <2>0. e \in Announcers /\ e \notin Refreshers
    BY RolesAreDistinct DEF Announcers, Refreshers
  <2>1. CASE EditorUpdates(e)
    BY <2>0, <2>1, GotoKeepsLocks DEF EditorUpdates
  <2>2. CASE Unschedule(e)
    BY <2>0, <2>2, GotoKeepsLocks DEF Unschedule
  <2>3. ASSUME NEW a \in Auths, Register(e, a) \/ EditorReads(e, a) \/ Remove(e, a)
        PROVE LockInv'
    BY <2>0, <2>3, StartKeepsLocks DEF Register, EditorReads, Remove
  <2> QED BY <1>9, <2>1, <2>2, <2>3 DEF EditorStep
<1>10. CASE StartAutoRefresh \/ Tick \/ LoopStep \/ UNCHANGED vars
  BY <1>1, <1>10 DEF StartAutoRefresh, Tick, LoopStep, RebuildRead, RebuildWrite,
     ResetTimer, LoopWakes, TimerFires, HandleDue, MarkRefreshPending, RereadDue,
     AnnouncePending, SendJob, vars, callerVars
<1>11. ASSUME NEW p \in Appliers, ApplyStep(p) \/ Inspect(p) \/ Inspected(p)
       PROVE  LockInv'
  BY <1>1, <1>11 DEF ApplyStep, Inspect, Inspected, DrainDirty, ApplyRead, Store,
     callerVars
<1>12. ASSUME NEW a \in Auths, NEW result \in Results, MarkResult(a, result)
       PROVE  LockInv'
  BY <1>1, <1>12 DEF MarkResult, callerVars
<1> QED
  BY <1>2, <1>3, <1>4, <1>5, <1>6, <1>7, <1>8, <1>9, <1>10, <1>11, <1>12
     DEF Next, Appliers, AnnounceStep

\* Workers and requests never refresh one auth at the same time, however many
\* of them there are.
THEOREM RefreshesAreSerial == Spec => []OneRefreshPerAuth
<1>1. Init => LockInv
  BY DEF Init, LockInv, HeldPlaces, Refreshers, Announcers
<1>2. LockInv => OneRefreshPerAuth
  BY DEF LockInv, OneRefreshPerAuth, HeldPlaces
<1> QED BY <1>1, <1>2, LockStep, PTL DEF Spec

-----------------------------------------------------------------------------
(* Tokens                                                                  *)

StoredTokens ==
  \A a \in Auths : Present(a) =>
    auths[a].token <= issued /\ <<a, auths[a].token>> \notin spent

SpentTokens == \A x \in spent : x[2] <= issued

CopiedToken(r) ==
  /\ pc[r] \in {"call", "edit"} => snapshot[r].token <= issued
  /\ (r \in Refreshers /\ pc[r] = "call") =>
       /\ <<target[r], snapshot[r].token>> \notin spent
       /\ r \in Requests => snapshot[r].token = failed[r]

\* The token of an auth, and of every copy a refresh works with, is one that no
\* refresh has replaced; the next token is a new one.
TokenInv ==
  /\ TypeOK /\ LockInv
  /\ StoredTokens /\ SpentTokens
  /\ \A r \in Announcers : CopiedToken(r)

\* Of the auths, Update changes one: it stores the token it is given, or refuses
\* an auth that is not there.
LEMMA UpdateTokens ==
  ASSUME TypeOK, NEW a \in Auths, NEW auth \in AuthRecords, Update(a, auth)
  PROVE  /\ \A b \in Auths \ {a} : auths'[b] = auths[b]
         /\ \/ auths'[a].token = auth.token
            \/ auths'[a] = auths[a] /\ ~Present(a)
<1>1. [auth EXCEPT !.retryAfter = Later(@, auths[a].retryAfter)].token = auth.token
  BY DEF AuthRecords
<1> QED BY <1>1 DEF Update, TypeOK, ManagerTypes

\* A refresh returns a new token or the one it began with.
LEMMA RefreshedTokens ==
  ASSUME NEW auth \in AuthRecords, NEW effective \in BOOLEAN,
         NEW new \in Refreshed(auth, effective)
  PROVE  new.token = IF effective THEN issued + 1 ELSE auth.token
BY DEF Refreshed, AuthRecords

\* Whoever moves on without a copy, or keeps it where it is, keeps the copies of
\* the others.
LEMMA CopiesKept ==
  ASSUME TokenInv, TypeOK', NEW x \in Announcers,
         \A y \in Announcers \ {x} :
           /\ pc'[y] = pc[y] /\ target'[y] = target[y] /\ snapshot'[y] = snapshot[y]
           /\ y \in Requests => failed'[y] = failed[y],
         issued' >= issued, spent' \subseteq spent,
         pc'[x] \notin {"call", "edit"}
  PROVE  \A r \in Announcers : CopiedToken(r)'
<1> SUFFICES ASSUME NEW r \in Announcers PROVE CopiedToken(r)'
  OBVIOUS
<1>1. CASE r = x
  BY <1>1 DEF CopiedToken
<1>2. CASE r # x
  <2>1. pc[r] \in {"call", "edit"} => snapshot[r].token \in Nat
    BY DEF TokenInv, TypeOK, CallTypes, AuthRecords
  <2> QED BY <1>2, <2>1 DEF CopiedToken, TokenInv, TypeOK, ManagerTypes
<1> QED BY <1>1, <1>2

\* What Goto leaves to the other goroutines.
LEMMA GotoLeavesOthers ==
  ASSUME TypeOK, NEW x \in Announcers, NEW place, Goto(x, place)
  PROVE  /\ pc'[x] = place
         /\ \A y \in Announcers \ {x} :
              /\ pc'[y] = pc[y] /\ target'[y] = target[y]
              /\ y \in Requests => failed'[y] = failed[y]
BY DEF Goto, TypeOK, CallTypes

\* What Start leaves to the other goroutines.
LEMMA StartLeavesOthers ==
  ASSUME TypeOK, NEW x \in Announcers, NEW place, NEW a, Start(x, place, a)
  PROVE  /\ pc'[x] = place
         /\ \A y \in Announcers \ {x} : pc'[y] = pc[y] /\ target'[y] = target[y]
BY DEF Start, TypeOK, CallTypes

\* A step that changes no auth keeps the tokens they have.
LEMMA StoredKept ==
  ASSUME TokenInv, auths' = auths, issued' = issued, spent' \subseteq spent
  PROVE  StoredTokens' /\ SpentTokens'
BY DEF TokenInv, StoredTokens, SpentTokens, Present

\* A step that changes only other fields of an auth keeps the tokens as well.
LEMMA FieldsKept ==
  ASSUME TokenInv, issued' = issued, spent' = spent,
         \A a \in Auths : Present(a)' => Present(a) /\ auths'[a].token = auths[a].token
  PROVE  StoredTokens' /\ SpentTokens'
BY DEF TokenInv, StoredTokens, SpentTokens

\* A step that lets all goroutines be keeps their copies.
LEMMA CallersKept ==
  ASSUME TokenInv, UNCHANGED callerVars, issued' = issued
  PROVE  \A r \in Announcers : CopiedToken(r)'
BY DEF TokenInv, CopiedToken, callerVars

\* A refresh replaces the token it began with by a new one, or keeps it.
LEMMA RefreshTokens ==
  ASSUME TokenInv, TypeOK', NEW r \in Refreshers, RefreshSucceeds(r)
  PROVE  StoredTokens' /\ SpentTokens' /\ \A s \in Announcers : CopiedToken(s)'
<1> DEFINE a == target[r]
<1>1. /\ r \in Announcers /\ pc[r] = "call" /\ a \in Auths
      /\ snapshot[r] \in AuthRecords /\ snapshot[r].token \in Nat
      /\ snapshot[r].token <= issued /\ <<a, snapshot[r].token>> \notin spent
      /\ issued \in Nat
  BY RefreshBounds
     DEF RefreshSucceeds, TokenInv, CopiedToken, Announcers, TypeOK, CallTypes, ManagerTypes,
         AuthRecords
<1>2. PICK effective \in BOOLEAN :
        /\ issued' = IF effective THEN issued + 1 ELSE issued
        /\ spent' = IF effective THEN spent \cup {<<a, snapshot[r].token>>} ELSE spent
        /\ \E auth \in Refreshed(snapshot[r], effective) : Update(a, auth)
  BY DEF RefreshSucceeds
<1>3. PICK auth \in Refreshed(snapshot[r], effective) : Update(a, auth)
  BY <1>2
<1>4. /\ auth \in AuthRecords
      /\ auth.token = IF effective THEN issued + 1 ELSE snapshot[r].token
  BY <1>1, <1>3, RefreshedTypes, RefreshedTokens DEF TokenInv
<1>5. /\ \A b \in Auths \ {a} : auths'[b] = auths[b]
      /\ \/ auths'[a].token = auth.token
         \/ auths'[a] = auths[a] /\ ~Present(a)
  BY <1>1, <1>3, <1>4, UpdateTokens DEF TokenInv
<1>6. SpentTokens'
  BY <1>1, <1>2 DEF TokenInv, SpentTokens, TypeOK, CallTypes
<1>7. <<a, auth.token>> \notin spent' /\ auth.token <= issued'
  BY <1>1, <1>2, <1>4 DEF TokenInv, SpentTokens
<1>8. StoredTokens'
  <2> SUFFICES ASSUME NEW b \in Auths, Present(b)'
               PROVE  auths'[b].token <= issued' /\ <<b, auths'[b].token>> \notin spent'
    BY DEF StoredTokens
  <2>1. CASE b = a
    BY <1>5, <1>7, <2>1 DEF Present
  <2>2. CASE b # a
    <3>1. Present(b) /\ auths'[b] = auths[b] /\ auths[b].token \in Nat
      BY <1>5, <2>2 DEF Present, TokenInv, TypeOK, ManagerTypes, AuthRecords
    <3> QED BY <1>1, <1>2, <2>2, <3>1 DEF TokenInv, StoredTokens
  <2> QED BY <2>1, <2>2
<1>9. ASSUME NEW s \in Announcers PROVE CopiedToken(s)'
  <2>1. pc'[r] \notin {"call", "edit"}
    BY <1>1, GotoLeavesOthers DEF RefreshSucceeds, Unlocked, TokenInv
  <2>2. CASE s = r
    BY <2>1, <2>2 DEF CopiedToken
  <2>3. CASE s # r
    <3>1. /\ pc'[s] = pc[s] /\ target'[s] = target[s] /\ snapshot'[s] = snapshot[s]
          /\ s \in Requests => failed'[s] = failed[s]
      BY <1>1, <2>3, GotoLeavesOthers DEF RefreshSucceeds, TokenInv, TypeOK, CallTypes
    <3>2. (s \in Refreshers /\ pc[s] = "call") => target[s] # a
      BY <1>1, <2>3 DEF TokenInv, LockInv, HeldPlaces
    <3>3. pc[s] \in {"call", "edit"} => snapshot[s].token \in Nat
      BY DEF TokenInv, TypeOK, CallTypes, AuthRecords
    <3> QED BY <1>1, <1>2, <3>1, <3>2, <3>3 DEF TokenInv, CopiedToken
  <2> QED BY <2>2, <2>3
<1> QED BY <1>6, <1>8, <1>9

\* An edit stores the token it read, which is spent no longer, or a new one.
LEMMA EditTokens ==
  ASSUME TokenInv, TypeOK', NEW e \in Editors, EditorUpdates(e)
  PROVE  StoredTokens' /\ SpentTokens' /\ \A s \in Announcers : CopiedToken(s)'
<1> DEFINE a == target[e]
<1>0. /\ e \in Announcers /\ pc[e] = "edit" /\ a \in Auths
      /\ snapshot[e] \in AuthRecords
  BY DEF EditorUpdates, TokenInv, Announcers, TypeOK, CallTypes
<1>1. /\ e \in Announcers /\ pc[e] = "edit" /\ a \in Auths
      /\ snapshot[e] \in AuthRecords /\ snapshot[e].token \in Nat
      /\ snapshot[e].token <= issued /\ issued \in Nat
  <2>1. snapshot[e].token \in Nat
    BY <1>0 DEF AuthRecords
  <2>2. issued \in Nat
    BY RefreshBounds DEF TokenInv, TypeOK, ManagerTypes
  <2>3. snapshot[e].token <= issued
    BY <1>0 DEF TokenInv, CopiedToken
  <2> QED BY <1>0, <2>1, <2>2, <2>3
<1>2. /\ issued' \in {issued, issued + 1}
      /\ spent' = spent \ {<<a, auths'[a].token>>}
      /\ \E auth \in AuthRecords : Update(a, auth) /\ auth.token <= issued'
  <2>1. /\ \A d \in Switches : /\ [snapshot[e] EXCEPT !.disabled = d] \in AuthRecords
                               /\ [snapshot[e] EXCEPT !.disabled = d].token = snapshot[e].token
        /\ [snapshot[e] EXCEPT !.unauthorized = FALSE] \in AuthRecords
        /\ [snapshot[e] EXCEPT !.unauthorized = FALSE].token = snapshot[e].token
    BY <1>1, RefreshBounds DEF AuthRecords
  <2>2. now + Lifetime \in Nat /\ issued + 1 \in Nat
    BY <1>1, RefreshBounds DEF TokenInv, TypeOK
  <2> DEFINE reloaded == [snapshot[e] EXCEPT !.unauthorized = FALSE, !.token = issued + 1,
                                             !.expiry = now + Lifetime]
  <2>3. reloaded \in AuthRecords
    BY <1>1, <2>2 DEF AuthRecords
  <2>4. reloaded.token = issued + 1
    BY <1>1 DEF AuthRecords
  <2>5. \/ /\ \E d \in Switches : Update(a, [snapshot[e] EXCEPT !.disabled = d])
           /\ issued' = issued
        \/ Update(a, [snapshot[e] EXCEPT !.unauthorized = FALSE]) /\ issued' = issued
        \/ Update(a, reloaded) /\ issued' = issued + 1
    BY DEF EditorUpdates
  <2>6. \E auth \in AuthRecords : Update(a, auth) /\ auth.token <= issued'
    <3> HIDE DEF reloaded, a
    <3>1. CASE Update(a, reloaded) /\ issued' = issued + 1
      BY <1>1, <2>3, <2>4, <3>1
    <3>2. ASSUME NEW d \in Switches, Update(a, [snapshot[e] EXCEPT !.disabled = d]),
                 issued' = issued
          PROVE  \E auth \in AuthRecords : Update(a, auth) /\ auth.token <= issued'
      BY <1>1, <2>1, <3>2
    <3>3. CASE Update(a, [snapshot[e] EXCEPT !.unauthorized = FALSE]) /\ issued' = issued
      BY <1>1, <2>1, <3>3
    <3> QED BY <2>5, <3>1, <3>2, <3>3
  <2> QED BY <2>5, <2>6 DEF EditorUpdates
<1>3. PICK auth \in AuthRecords : Update(a, auth) /\ auth.token <= issued'
  BY <1>2
<1>4. /\ \A b \in Auths \ {a} : auths'[b] = auths[b]
      /\ \/ auths'[a].token = auth.token
         \/ auths'[a] = auths[a] /\ ~Present(a)
  BY <1>1, <1>3, UpdateTokens DEF TokenInv
<1>5. SpentTokens'
  BY <1>1, <1>2 DEF TokenInv, SpentTokens, TypeOK, CallTypes
<1>6. StoredTokens'
  <2> SUFFICES ASSUME NEW b \in Auths, Present(b)'
               PROVE  auths'[b].token <= issued' /\ <<b, auths'[b].token>> \notin spent'
    BY DEF StoredTokens
  <2>1. CASE b = a
    BY <1>2, <1>3, <1>4, <2>1 DEF Present
  <2>2. CASE b # a
    <3>1. Present(b) /\ auths'[b] = auths[b] /\ auths[b].token \in Nat
      BY <1>4, <2>2 DEF Present, TokenInv, TypeOK, ManagerTypes, AuthRecords
    <3> QED BY <1>1, <1>2, <3>1 DEF TokenInv, StoredTokens
  <2> QED BY <2>1, <2>2
<1>7. e \notin Refreshers /\ e \notin Requests
  BY RolesAreDistinct DEF Refreshers
<1>8. \A s \in Announcers : CopiedToken(s)'
  <2>1. pc'[e] \notin {"call", "edit"}
    BY <1>1, GotoLeavesOthers DEF EditorUpdates, TokenInv
  <2>2. \A y \in Announcers \ {e} :
           /\ pc'[y] = pc[y] /\ target'[y] = target[y] /\ snapshot'[y] = snapshot[y]
           /\ y \in Requests => failed'[y] = failed[y]
    BY <1>1, GotoLeavesOthers DEF EditorUpdates, TokenInv, TypeOK, CallTypes
  <2> QED BY <1>1, <1>2, <2>1, <2>2, CopiesKept
<1> QED BY <1>5, <1>6, <1>8

\* No step lets a spent token be refreshed.
LEMMA TokenStep == TokenInv /\ [Next]_vars => TokenInv'
<1> SUFFICES ASSUME TokenInv, [Next]_vars
             PROVE  StoredTokens' /\ SpentTokens' /\ \A r \in Announcers : CopiedToken(r)'
  BY TypeStep, LockStep DEF TokenInv
<1>t. TypeOK' /\ TypeOK
  BY TypeStep DEF TokenInv
<1>r. \A a \in Auths : Present(a) => auths[a] \in AuthRecords
  BY <1>t DEF Present, TypeOK, ManagerTypes
<1>0. CASE UNCHANGED <<auths, issued, callerVars>>
  BY <1>0, StoredKept, CallersKept DEF callerVars
<1>1. CASE MarkRefreshPending
  <2>1. plan[Loop].auth \in Auths
    BY <1>1, <1>t DEF MarkRefreshPending, TypeOK, ApplierTypes, Planning, Appliers
  <2>2. \A a \in Auths : Present(a)' => Present(a) /\ auths'[a].token = auths[a].token
    BY <1>1, <1>r, <1>t, <2>1
       DEF MarkRefreshPending, Present, TypeOK, ManagerTypes, AuthRecords
  <2> QED BY <1>1, <2>2, FieldsKept, CallersKept DEF MarkRefreshPending, callerVars
<1>2. ASSUME NEW a \in Auths, NEW result \in Results, MarkResult(a, result)
      PROVE  StoredTokens' /\ SpentTokens' /\ \A r \in Announcers : CopiedToken(r)'
  <2>1. \A b \in Auths : Present(b)' => Present(b) /\ auths'[b].token = auths[b].token
    BY <1>2, <1>r, <1>t DEF MarkResult, Present, TypeOK, ManagerTypes, AuthRecords
  <2> QED BY <1>2, <2>1, FieldsKept, CallersKept DEF MarkResult, callerVars
<1>3. ASSUME NEW w \in Workers, TakeJob(w)
      PROVE  StoredTokens' /\ SpentTokens' /\ \A r \in Announcers : CopiedToken(r)'
  <2>1. w \in Announcers
    BY DEF Announcers, Refreshers
  <2> QED BY <1>3, <1>t, <2>1, StoredKept, CopiesKept, StartLeavesOthers
      DEF TakeJob, managerVars, TypeOK, ManagerTypes
<1>4. ASSUME NEW r \in Requests, NEW a \in Auths, RequestStarts(r, a)
      PROVE  StoredTokens' /\ SpentTokens' /\ \A s \in Announcers : CopiedToken(s)'
  <2>1. r \in Announcers
    BY DEF Announcers, Refreshers
  <2>2. \A y \in Announcers \ {r} : y \in Requests => failed'[y] = failed[y]
    BY <1>4, <1>t DEF RequestStarts, TypeOK, CallTypes
  <2> QED BY <1>4, <1>t, <2>1, <2>2, StoredKept, CopiesKept, StartLeavesOthers
      DEF RequestStarts, managerVars, TypeOK, ManagerTypes
<1>5. ASSUME NEW r \in Requests, RequestAnswered(r)
      PROVE  StoredTokens' /\ SpentTokens' /\ \A s \in Announcers : CopiedToken(s)'
  <2>1. r \in Announcers
    BY DEF Announcers, Refreshers
  <2>2. pc'[r] \notin {"call", "edit"} /\ issued' >= issued
    BY <1>5, <1>t, <2>1, GotoLeavesOthers
       DEF RequestAnswered, managerVars, TypeOK, ManagerTypes
  <2> QED BY <1>5, <1>t, <2>1, <2>2, StoredKept, CopiesKept, GotoLeavesOthers
      DEF RequestAnswered, managerVars
<1>6. ASSUME NEW r \in Refreshers, Lock(r)
      PROVE  StoredTokens' /\ SpentTokens' /\ \A s \in Announcers : CopiedToken(s)'
  <2>1. r \in Announcers /\ target[r] \in Auths /\ issued' >= issued
    BY <1>6, <1>t DEF Lock, Announcers, managerVars, TypeOK, CallTypes, ManagerTypes
  <2>2. CASE Goto(r, Unlocked(r)) /\ UNCHANGED snapshot
    <3>1. pc'[r] \notin {"call", "edit"}
      BY <1>t, <2>1, <2>2, GotoLeavesOthers DEF Unlocked
    <3> QED BY <1>6, <1>t, <2>1, <2>2, <3>1, StoredKept, CopiesKept, GotoLeavesOthers
        DEF Lock, managerVars
  <2>3. CASE /\ Present(target[r])
             /\ r \in Requests => auths[target[r]].token = failed[r]
             /\ snapshot' = [snapshot EXCEPT ![r] = auths[target[r]]]
             /\ Goto(r, "call")
    <3>1. /\ pc'[r] = "call" /\ target'[r] = target[r]
          /\ snapshot'[r] = auths[target[r]] /\ failed' = failed
          /\ spent' = spent /\ issued' = issued
      BY <1>6, <1>t, <2>1, <2>3, GotoLeavesOthers
         DEF Lock, Goto, managerVars, TypeOK, CallTypes
    <3>2. CopiedToken(r)'
      BY <2>1, <2>3, <3>1 DEF CopiedToken, TokenInv, StoredTokens
    <3>3. ASSUME NEW s \in Announcers, s # r PROVE CopiedToken(s)'
      <4>1. pc'[s] = pc[s] /\ target'[s] = target[s] /\ snapshot'[s] = snapshot[s]
        BY <1>t, <2>1, <2>3, <3>3, GotoLeavesOthers DEF TypeOK, CallTypes
      <4> QED BY <3>1, <4>1 DEF CopiedToken, TokenInv
    <3> QED BY <1>6, <3>1, <3>2, <3>3, StoredKept DEF Lock, managerVars
  <2> QED BY <1>6, <2>2, <2>3 DEF Lock
<1>7. ASSUME NEW r \in Refreshers, RefreshReturns(r)
      PROVE  StoredTokens' /\ SpentTokens' /\ \A s \in Announcers : CopiedToken(s)'
  <2>0. r \in Announcers
    BY DEF Announcers
  <2>1. CASE RefreshSucceeds(r)
    BY <1>t, <2>1, RefreshTokens
  <2>2. ASSUME RefreshFails(r) \/ RefreshCancelled(r)
        PROVE  \A s \in Announcers : CopiedToken(s)'
    <3>1. /\ pc'[r] \notin {"call", "edit"} /\ issued' >= issued /\ spent' = spent
          /\ \A y \in Announcers \ {r} :
               /\ pc'[y] = pc[y] /\ target'[y] = target[y] /\ snapshot'[y] = snapshot[y]
               /\ y \in Requests => failed'[y] = failed[y]
      BY <1>t, <2>0, <2>2, GotoLeavesOthers
         DEF RefreshFails, RefreshCancelled, Unlocked, managerVars, TypeOK, CallTypes,
             ManagerTypes
    <3> QED BY <1>t, <2>0, <3>1, CopiesKept
  <2>3. CASE RefreshFails(r)
    <3>1. \A b \in Auths : Present(b)' => Present(b) /\ auths'[b].token = auths[b].token
      BY <1>r, <1>t, <2>3 DEF RefreshFails, Present, TypeOK, ManagerTypes, AuthRecords
    <3> QED BY <2>2, <2>3, <3>1, FieldsKept DEF RefreshFails
  <2>4. CASE RefreshCancelled(r)
    BY <2>2, <2>4, StoredKept DEF RefreshCancelled, managerVars
  <2> QED BY <1>7, <2>1, <2>3, <2>4 DEF RefreshReturns
<1>8. ASSUME NEW r \in Announcers, AnnounceStep(r)
      PROVE  StoredTokens' /\ SpentTokens' /\ \A s \in Announcers : CopiedToken(s)'
  <2>1. /\ pc'[r] \notin {"call", "edit"} /\ issued' >= issued /\ spent' = spent
        /\ \A y \in Announcers \ {r} :
             /\ pc'[y] = pc[y] /\ target'[y] = target[y] /\ snapshot'[y] = snapshot[y]
             /\ y \in Requests => failed'[y] = failed[y]
    BY <1>8, <1>t, GotoLeavesOthers
       DEF AnnounceStep, Announce, WakeLoop, AfterAnnouncing, Unlocked, managerVars, TypeOK,
           CallTypes, ManagerTypes
  <2> QED BY <1>8, <1>t, <2>1, CopiesKept, StoredKept
      DEF AnnounceStep, Announce, WakeLoop, managerVars
<1>9. ASSUME NEW e \in Editors, EditorStep(e)
      PROVE  StoredTokens' /\ SpentTokens' /\ \A s \in Announcers : CopiedToken(s)'
  <2>0. e \in Announcers /\ e \notin Refreshers
    BY RolesAreDistinct DEF Announcers, Refreshers
  <2>1. CASE EditorUpdates(e)
    BY <1>t, <2>1, EditTokens
  <2>2. CASE Unschedule(e)
    <3>1. /\ pc'[e] \notin {"call", "edit"} /\ issued' >= issued /\ spent' = spent
          /\ \A y \in Announcers \ {e} :
               /\ pc'[y] = pc[y] /\ target'[y] = target[y] /\ snapshot'[y] = snapshot[y]
               /\ y \in Requests => failed'[y] = failed[y]
      BY <2>0, <2>2, <1>t, GotoLeavesOthers DEF Unschedule, TypeOK, CallTypes, ManagerTypes
    <3> QED BY <2>0, <2>2, <1>t, <3>1, CopiesKept, StoredKept DEF Unschedule
  <2>3. ASSUME NEW a \in Auths, Register(e, a)
        PROVE  StoredTokens' /\ SpentTokens' /\ \A s \in Announcers : CopiedToken(s)'
    <3>1. issued \in Nat /\ issued' = issued + 1 /\ spent' = spent /\ spent \subseteq Auths \X Nat
      BY <1>t, <2>3, RefreshBounds DEF Register, TypeOK, ManagerTypes, CallTypes
    <3>2. /\ \A b \in Auths \ {a} : auths'[b] = auths[b]
          /\ auths'[a].token = issued + 1
      BY <1>t, <2>3, CredentialsAreRecords DEF Register, TypeOK, ManagerTypes, AuthRecords
    <3>3. SpentTokens'
      BY <3>1 DEF TokenInv, SpentTokens
    <3>4. StoredTokens'
      <4> SUFFICES ASSUME NEW b \in Auths, Present(b)'
                   PROVE  auths'[b].token <= issued' /\ <<b, auths'[b].token>> \notin spent'
        BY DEF StoredTokens
      <4>1. CASE b = a
        BY <3>1, <3>2, <4>1 DEF TokenInv, SpentTokens
      <4>2. CASE b # a
        <5>1. Present(b) /\ auths'[b] = auths[b] /\ auths[b].token \in Nat
          BY <1>t, <3>2, <4>2 DEF Present, TypeOK, ManagerTypes, AuthRecords
        <5> QED BY <3>1, <5>1 DEF TokenInv, StoredTokens
      <4> QED BY <4>1, <4>2
    <3>5. \A s \in Announcers : CopiedToken(s)'
      BY <1>t, <2>0, <2>3, <3>1, CopiesKept, StartLeavesOthers DEF Register
    <3> QED BY <3>3, <3>4, <3>5
  <2>4. ASSUME NEW a \in Auths, EditorReads(e, a)
        PROVE  StoredTokens' /\ SpentTokens' /\ \A s \in Announcers : CopiedToken(s)'
    <3>1. /\ pc'[e] = "edit" /\ snapshot'[e] = auths[a] /\ failed' = failed
          /\ spent' = spent /\ issued' = issued
      BY <1>t, <2>0, <2>4, StartLeavesOthers
         DEF EditorReads, managerVars, TypeOK, CallTypes
    <3>2. CopiedToken(e)'
      BY <2>0, <2>4, <3>1 DEF CopiedToken, TokenInv, StoredTokens, EditorReads
    <3>3. ASSUME NEW s \in Announcers, s # e PROVE CopiedToken(s)'
      <4>1. pc'[s] = pc[s] /\ target'[s] = target[s] /\ snapshot'[s] = snapshot[s]
        BY <1>t, <2>0, <2>4, <3>3, StartLeavesOthers DEF EditorReads, TypeOK, CallTypes
      <4> QED BY <3>1, <4>1 DEF CopiedToken, TokenInv
    <3> QED BY <2>4, <3>2, <3>3, StoredKept DEF EditorReads, managerVars
  <2>5. ASSUME NEW a \in Auths, Remove(e, a)
        PROVE  StoredTokens' /\ SpentTokens' /\ \A s \in Announcers : CopiedToken(s)'
    <3>1. \A b \in Auths : Present(b)' => Present(b) /\ auths'[b].token = auths[b].token
      BY <1>t, <2>5 DEF Remove, Present, TypeOK, ManagerTypes
    <3>2. \A s \in Announcers : CopiedToken(s)'
      BY <1>t, <2>0, <2>5, CopiesKept, StartLeavesOthers
         DEF Remove, TypeOK, ManagerTypes
    <3> QED BY <2>5, <3>1, <3>2, FieldsKept DEF Remove
  <2> QED BY <1>9, <2>1, <2>2, <2>3, <2>4, <2>5 DEF EditorStep
<1>10. CASE Tick \/ StartAutoRefresh \/ (LoopStep /\ ~MarkRefreshPending) \/ UNCHANGED vars
  BY <1>0, <1>10 DEF Tick, StartAutoRefresh, LoopStep, RebuildRead, RebuildWrite,
     ResetTimer, LoopWakes, TimerFires, HandleDue, RereadDue, AnnouncePending, SendJob,
     vars, managerVars, callerVars
<1>11. ASSUME NEW p \in Appliers, ApplyStep(p) \/ Inspect(p) \/ Inspected(p)
       PROVE  UNCHANGED <<auths, issued, callerVars>>
  BY <1>11 DEF ApplyStep, Inspect, Inspected, DrainDirty, ApplyRead, Store, managerVars
<1> QED
  BY <1>0, <1>1, <1>2, <1>3, <1>4, <1>5, <1>6, <1>7, <1>8, <1>9, <1>10, <1>11
     DEF Next, Appliers

\* However workers, requests, edits and removals interleave, a refresh starts from
\* a token that no earlier refresh of the auth has replaced, and a request only
\* from the token it failed with.
THEOREM TokensAreRefreshedOnce == Spec => []NoTokenIsRefreshedTwice
<1>1. Init => TokenInv
  <2> SUFFICES ASSUME Init PROVE TokenInv
    OBVIOUS
  <2>1. TypeOK /\ LockInv
    BY InitTypes DEF Init, LockInv, HeldPlaces, Refreshers, Announcers
  <2>2. StoredTokens
    BY CredentialsAreRecords DEF Init, StoredTokens, Present
  <2>3. SpentTokens /\ \A r \in Announcers : CopiedToken(r)
    BY DEF Init, SpentTokens, CopiedToken
  <2> QED BY <2>1, <2>2, <2>3 DEF TokenInv
<1>2. TokenInv => NoTokenIsRefreshedTwice
  BY DEF TokenInv, CopiedToken, NoTokenIsRefreshedTwice, Announcers
<1> QED BY <1>1, <1>2, TokenStep, PTL DEF Spec

-----------------------------------------------------------------------------
(* What a step never does                                                  *)

\* A registered auth has a schedule.
LEMMA RecordsHaveSchedules == \A auth \in AuthRecords : HasSchedule(auth)
BY DEF AuthRecords, HasSchedule

\* Update keeps the cooldown of an enabled auth that stays enabled.
LEMMA UpdateKeepsCooldown ==
  ASSUME TypeOK, NEW a \in Auths, NEW auth \in AuthRecords, Update(a, auth),
         NEW b \in Auths, Present(b), auths[b].retryAfter > now,
         ~auths[b].disabled, ~auths'[b].disabled
  PROVE  auths'[b].retryAfter >= auths[b].retryAfter
<1>1. auths[b] \in AuthRecords /\ auths[b].retryAfter \in Nat
  BY DEF Present, TypeOK, ManagerTypes, AuthRecords
<1>2. CASE b # a
  BY <1>1, <1>2 DEF Update, TypeOK, ManagerTypes
<1>3. CASE b = a /\ auth.disabled
  BY <1>1, <1>3 DEF Update, TypeOK, ManagerTypes
<1>4. CASE b = a /\ ~auth.disabled
  <2> DEFINE kept == [auth EXCEPT !.retryAfter = Later(@, auths[b].retryAfter)]
  <2>1. auths'[b] = kept
    BY <1>1, <1>4 DEF Update, TypeOK, ManagerTypes
  <2>2. kept.retryAfter = Later(auth.retryAfter, auths[b].retryAfter)
    BY DEF AuthRecords
  <2>3. auth.retryAfter \in Nat
    BY DEF AuthRecords
  <2> QED BY <1>1, <2>1, <2>2, <2>3 DEF Later
<1> QED BY <1>2, <1>3, <1>4

\* A refresh and an edit keep a cooldown that a result recorded since they took
\* their copy of the auth.
THEOREM CooldownsSurvive == Spec => CooldownSurvives
<1>1. ASSUME TypeOK, NEW a \in Auths,
             \/ \E r \in Refreshers : RefreshReturns(r)
             \/ \E e \in Editors : EditorUpdates(e),
             Present(a), Present(a)', auths[a].retryAfter > now,
             ~auths[a].disabled, ~auths'[a].disabled
      PROVE  auths'[a].retryAfter >= auths[a].retryAfter
  <2>0. auths[a] \in AuthRecords /\ auths[a].retryAfter \in Nat
    BY <1>1 DEF Present, TypeOK, ManagerTypes, AuthRecords
  <2>1. ASSUME NEW r \in Refreshers, RefreshSucceeds(r)
        PROVE  auths'[a].retryAfter >= auths[a].retryAfter
    <3>1. snapshot[r] \in AuthRecords /\ target[r] \in Auths
      BY <1>1, <2>1 DEF RefreshSucceeds, Announcers, TypeOK, CallTypes
    <3>2. \E auth \in AuthRecords : Update(target[r], auth)
      BY <1>1, <2>1, <3>1, RefreshedTypes DEF RefreshSucceeds
    <3> QED BY <1>1, <3>1, <3>2, UpdateKeepsCooldown
  <2>2. ASSUME NEW r \in Refreshers, RefreshFails(r)
        PROVE  auths'[a].retryAfter >= auths[a].retryAfter
    <3>1. auths'[a].retryAfter = auths[a].retryAfter
      BY <1>1, <2>0, <2>2 DEF RefreshFails, TypeOK, ManagerTypes, AuthRecords
    <3> QED BY <2>0, <3>1
  <2>3. ASSUME NEW r \in Refreshers, RefreshCancelled(r)
        PROVE  auths'[a].retryAfter >= auths[a].retryAfter
    BY <2>0, <2>3 DEF RefreshCancelled, managerVars
  <2>4. ASSUME NEW e \in Editors, EditorUpdates(e)
        PROVE  auths'[a].retryAfter >= auths[a].retryAfter
    <3>1. snapshot[e] \in AuthRecords /\ target[e] \in Auths
      BY <1>1, <2>4 DEF EditorUpdates, Announcers, TypeOK, CallTypes
    <3>2. \E auth \in AuthRecords : Update(target[e], auth)
      BY <1>1, <2>4, EditsAreAuths
    <3> QED BY <1>1, <3>1, <3>2, UpdateKeepsCooldown
  <2> QED BY <1>1, <2>1, <2>2, <2>3, <2>4 DEF RefreshReturns
<1>2. TypeOK /\ [Next]_vars =>
        [\A a \in Auths :
          (/\ \/ \E r \in Refreshers : RefreshReturns(r)
              \/ \E e \in Editors : EditorUpdates(e)
           /\ Present(a) /\ Present(a)' /\ auths[a].retryAfter > now
           /\ ~auths[a].disabled /\ ~auths'[a].disabled)
          => auths'[a].retryAfter >= auths[a].retryAfter]_vars
  BY <1>1
<1> QED BY <1>2, RefreshTypes, PTL DEF Spec, CooldownSurvives

\* A credential whose next refresh is held back is not due, and neither is one
\* whose last error is a 401.
LEMMA HeldBackIsNotDue ==
  ASSUME NEW auth, auth.nextRefreshAfter \in Nat, NEW time \in Nat,
         auth.nextRefreshAfter > time \/ auth.unauthorized
  PROVE  \A later : ~ShouldRefresh(auth, time, later)
BY DEF ShouldRefresh, HeldBack

\* What a refresh returns is not due again.
LEMMA RefreshedIsNotDue ==
  ASSUME TypeOK, NEW auth \in AuthRecords, NEW effective \in BOOLEAN,
         NEW new \in Refreshed(auth, effective)
  PROVE  new.evaluator \/ ~ShouldRefresh(new, now, now)
<1> DEFINE result == [auth EXCEPT !.lastRefreshedAt = now,
                                  !.nextRefreshAfter = 0,
                                  !.unauthorized = FALSE,
                                  !.token = IF effective THEN issued + 1 ELSE @,
                                  !.expiry = IF effective THEN now + Lifetime ELSE @]
       later == [result EXCEPT !.nextRefreshAfter = now + IneffectiveBackoff]
<1>1. PICK due \in Verdicts(result, now) : new = IF due THEN later ELSE result
  BY DEF Refreshed
<1>2. CASE due
  <2>1. later.nextRefreshAfter = now + IneffectiveBackoff
    BY DEF AuthRecords
  <2>2. now \in Nat /\ now + IneffectiveBackoff \in Nat /\ now + IneffectiveBackoff > now
    BY RefreshBounds DEF TypeOK
  <2> QED BY <1>1, <1>2, <2>1, <2>2, HeldBackIsNotDue
<1>3. CASE ~due
  <2> HIDE DEF result, later
  <2> QED BY <1>1, <1>3 DEF Verdicts
<1> QED BY <1>2, <1>3

\* Update changes nothing that a schedule depends on.
LEMMA UpdateKeepsSchedule ==
  ASSUME TypeOK, NEW a \in Auths, NEW auth \in AuthRecords, Update(a, auth),
         Present(a)', auth.evaluator \/ ~ShouldRefresh(auth, now, now)
  PROVE  auths'[a].evaluator \/ ~ShouldRefresh(auths'[a], now, now)
<1> DEFINE kept == [auth EXCEPT !.retryAfter = Later(@, auths[a].retryAfter)]
<1>1. auths'[a] \in {auth, kept}
  BY DEF Update, Present, TypeOK, ManagerTypes
<1>2. kept.evaluator = auth.evaluator /\ ShouldRefresh(kept, now, now) = ShouldRefresh(auth, now, now)
  BY DEF AuthRecords, ShouldRefresh, HeldBack
<1> QED BY <1>1, <1>2

\* A check by the loop that leads to no refresh is repeated later than it was
\* made, and the auth a worker has refreshed is not due again.
THEOREM LoopNeverSpins == Spec => NeverSpinning
<1>1. ASSUME TypeOK, NEW a \in Auths, HandleDue(a), at'[Loop] = "store"
      PROVE  plan'[Loop].next = 0 \/ plan'[Loop].next > clock[Loop]
  <2>1. Loop \in Appliers /\ clock[Loop] \in Nat
    BY <1>1 DEF Appliers, TypeOK, ApplierTypes
  <2>2. at[Loop] = "due" /\ \A next : Plan(Loop, a, next) => plan'[Loop].next = next
    BY <1>1, <2>1 DEF HandleDue, Plan, TypeOK, ApplierTypes
  <2>3. CASE Plan(Loop, a, 0)
    BY <2>2, <2>3
  <2>4. CASE Plan(Loop, a, clock[Loop] + CheckInterval)
    BY <2>1, <2>2, <2>4, CheckIntervalIsPositive
  <2>5. ASSUME Present(a), NextCheck(a, clock[Loop]) # 0,
               FALSE \in Verdicts(auths[a], clock[Loop]),
               Plan(Loop, a, NextCheck(a, clock[Loop]))
        PROVE  plan'[Loop].next > clock[Loop]
    <3>1. auths[a] \in AuthRecords /\ HasSchedule(auths[a])
      BY <1>1, <2>5, RecordsHaveSchedules DEF Present, TypeOK, ManagerTypes
    <3>2. NextCheck(a, clock[Loop]) \in Nat
      BY <1>1, <2>1, NextCheckOfType DEF TypeOK
    <3>3. CASE clock[Loop] = 0
      BY <2>2, <2>5, <3>2, <3>3
    <3>4. CASE clock[Loop] # 0 /\ auths[a].evaluator
      BY <2>1, <2>2, <2>5, <3>1, <3>4, CheckIntervalIsPositive
         DEF NextCheck, NextRefreshCheckAt, HeldBack, HasSchedule
    <3>5. CASE clock[Loop] # 0 /\ ~auths[a].evaluator
      <4>1. ~ShouldRefresh(auths[a], clock[Loop], now)
        BY <2>5, <3>5 DEF Verdicts
      <4>2. clock[Loop] \in Times /\ now \in Times /\ clock[Loop] <= now
        BY <1>1, <2>1, <3>5 DEF Times, TypeOK, ApplierTypes
      <4>3. NeverSpins(auths[a], clock[Loop], now)
        BY <3>1, <4>2, IdleChecksSleep
      <4> QED BY <2>2, <2>5, <3>5, <4>1, <4>2, <4>3 DEF NextCheck, NeverSpins
    <3> QED BY <3>3, <3>4, <3>5
  <2>6. \A place : at' = [at EXCEPT ![Loop] = place] => place = "store"
    BY <1>1, <2>1 DEF TypeOK, ApplierTypes
  <2>7. CASE UNCHANGED <<at, plan>>
    BY <1>1, <2>2, <2>7
  <2>8. CASE at' = [at EXCEPT ![Loop] = "mark"]
    BY <2>6, <2>8
  <2>9. \/ UNCHANGED <<at, plan>>
        \/ Plan(Loop, a, 0)
        \/ /\ Present(a) /\ NextCheck(a, clock[Loop]) # 0
           /\ FALSE \in Verdicts(auths[a], clock[Loop])
           /\ Plan(Loop, a, NextCheck(a, clock[Loop]))
        \/ Plan(Loop, a, clock[Loop] + CheckInterval)
    BY <1>1 DEF HandleDue, NextCheck
  <2> QED BY <2>3, <2>4, <2>5, <2>7, <2>9
<1>2. ASSUME TypeOK, NEW r \in Workers, NEW a \in Auths, target[r] = a,
             RefreshReturns(r), Present(a)'
      PROVE  auths'[a].evaluator \/ ~ShouldRefresh(auths'[a], now, now)
  <2>0. r \notin Requests /\ r \in Announcers /\ r \in Refreshers
    BY RolesAreDistinct DEF Announcers, Refreshers
  <2>1. pc[r] = "call" /\ snapshot[r] \in AuthRecords
    BY <1>2, <2>0
       DEF RefreshReturns, RefreshSucceeds, RefreshFails, RefreshCancelled, TypeOK, CallTypes
  <2>2. CASE RefreshSucceeds(r)
    <3>1. \E auth \in AuthRecords :
            /\ Update(a, auth)
            /\ auth.evaluator \/ ~ShouldRefresh(auth, now, now)
      BY <1>2, <2>1, <2>2, RefreshedTypes, RefreshedIsNotDue DEF RefreshSucceeds
    <3> QED BY <1>2, <2>1, <3>1, UpdateKeepsSchedule
  <2>3. CASE RefreshFails(r)
    <3>1. Present(a) /\ auths[a] \in AuthRecords
      BY <1>2, <2>1, <2>3 DEF RefreshFails, Present, TypeOK, ManagerTypes
    <3>2. PICK unauthorized \in BOOLEAN :
            auths' = [auths EXCEPT ![a].unauthorized = unauthorized,
                                   ![a].nextRefreshAfter =
                                      IF unauthorized THEN 0 ELSE now + FailureBackoff]
      BY <1>2, <2>3, <3>1 DEF RefreshFails
    <3>3. /\ auths'[a].unauthorized = unauthorized
          /\ auths'[a].nextRefreshAfter =
               IF unauthorized THEN 0 ELSE now + FailureBackoff
      BY <1>2, <2>1, <3>1, <3>2 DEF TypeOK, ManagerTypes, AuthRecords
    <3>4. now \in Nat /\ now + FailureBackoff \in Nat /\ now + FailureBackoff > now
      BY <1>2, RefreshBounds DEF TypeOK
    <3> QED BY <3>3, <3>4, HeldBackIsNotDue
  <2> QED BY <1>2, <2>0, <2>2, <2>3 DEF RefreshReturns, RefreshCancelled
<1>3. TypeOK /\ [Next]_vars =>
        [\A a \in Auths :
          /\ HandleDue(a) /\ at'[Loop] = "store"
             => plan'[Loop].next = 0 \/ plan'[Loop].next > clock[Loop]
          /\ (\E r \in Workers : RefreshReturns(r) /\ target[r] = a) /\ Present(a)'
             => auths'[a].evaluator \/ ~ShouldRefresh(auths'[a], now, now)]_vars
  BY <1>1, <1>2
<1> QED BY <1>3, RefreshTypes, PTL DEF Spec, NeverSpinning

-----------------------------------------------------------------------------
(* The sleep of the loop                                                   *)

Waking == {"wake", "wakeAgain"}
Draining == {"drain", "due", "store", "mark", "announce", "reread", "send"}

\* An auth marked dirty will be seen: the loop has still to drain, or somebody
\* has woken it or is about to.
DirtyWakes ==
  \/ dirty = {}
  \/ wake
  \/ \E r \in Announcers : pc[r] \in Waking
  \/ at[Loop] \in Draining

\* The timer of a loop that sleeps fires no later than the head of the queue.
TimerCovers ==
  at[Loop] = "select" => \A a \in Auths : queue[a] # 0 => timer \in 1..queue[a]

\* A goroutine that moves on, and is not about to wake the loop, leaves the loop
\* as awake as it was.
LEMMA WakingKept ==
  ASSUME TypeOK, DirtyWakes, NEW x \in Announcers, pc[x] \notin Waking,
         \A y \in Announcers \ {x} : pc'[y] = pc[y],
         UNCHANGED <<dirty, wake, at>>
  PROVE  DirtyWakes'
BY DEF DirtyWakes

\* No step lets the loop sleep past an auth that is marked dirty.
LEMMA DirtyStep == TypeOK /\ DirtyWakes /\ [Next]_vars => DirtyWakes'
<1> SUFFICES ASSUME TypeOK, DirtyWakes, [Next]_vars PROVE DirtyWakes'
  OBVIOUS
<1>l. Loop \in Appliers
  BY DEF Appliers
<1>i. \A i \in Inspectors : i \in Appliers /\ i # Loop
  BY RolesAreDistinct DEF Appliers, Loop
<1>0. CASE UNCHANGED <<dirty, wake, at, pc>>
  BY <1>0 DEF DirtyWakes
<1>1. CASE StartAutoRefresh \/ RebuildRead \/ RebuildWrite \/ ResetTimer
  BY <1>1, <1>l DEF StartAutoRefresh, RebuildRead, RebuildWrite, ResetTimer, DirtyWakes,
     Draining, loopVars, callerVars, TypeOK, ApplierTypes
<1>2. CASE LoopWakes \/ TimerFires \/ (\E a \in Auths : HandleDue(a))
           \/ MarkRefreshPending \/ RereadDue \/ AnnouncePending \/ SendJob
  <2>1. at'[Loop] \in Draining
    BY <1>2, <1>l DEF LoopWakes, TimerFires, HandleDue, MarkRefreshPending, RereadDue,
       AnnouncePending, SendJob, Draining, TypeOK, ApplierTypes
  <2> QED BY <2>1 DEF DirtyWakes
<1>3. ASSUME NEW i \in Inspectors, Inspect(i) \/ Inspected(i) PROVE DirtyWakes'
  <2>1. at'[Loop] = at[Loop] /\ UNCHANGED <<dirty, wake, pc>>
    BY <1>3, <1>i, <1>l
       DEF Inspect, Inspected, loopVars, callerVars, TypeOK, ApplierTypes
  <2> QED BY <2>1 DEF DirtyWakes
<1>4. ASSUME NEW p \in Appliers, DrainDirty(p) PROVE DirtyWakes'
  BY <1>4 DEF DrainDirty, DirtyWakes
<1>5. ASSUME NEW p \in Appliers, (\E a \in Auths : ApplyRead(p, a)) \/ Store(p)
      PROVE  DirtyWakes'
  <2>1. at[Loop] \in Draining => at'[Loop] \in Draining
    BY <1>5, <1>l DEF ApplyRead, Store, Draining, TypeOK, ApplierTypes
  <2>2. UNCHANGED <<dirty, wake, pc>>
    BY <1>5 DEF ApplyRead, Store, loopVars, callerVars
  <2> QED BY <2>1, <2>2 DEF DirtyWakes
<1>6. ASSUME NEW r \in Announcers, Announce(r) PROVE DirtyWakes'
  <2>1. CASE running
    <3>1. pc'[r] \in Waking
      BY <1>6, <2>1, GotoLeavesOthers DEF Announce, Waking
    <3> QED BY <3>1 DEF DirtyWakes
  <2>2. CASE ~running
    BY <1>6, <2>2, GotoLeavesOthers, WakingKept DEF Announce, Waking, applierVars
  <2> QED BY <2>1, <2>2
<1>7. ASSUME NEW r \in Announcers, WakeLoop(r) PROVE DirtyWakes'
  BY <1>7 DEF WakeLoop, DirtyWakes
<1>8. ASSUME NEW r \in Refreshers,
             \/ TakeJob(r) \/ RequestAnswered(r) \/ (\E a \in Auths : RequestStarts(r, a))
             \/ Lock(r) \/ RefreshReturns(r)
      PROVE  DirtyWakes'
  <2>0. r \in Announcers
    BY DEF Announcers
  <2>1. CASE TakeJob(r) \/ (\E a \in Auths : RequestStarts(r, a))
    BY <2>0, <2>1, StartLeavesOthers, WakingKept
       DEF TakeJob, RequestStarts, Waking, applierVars, loopVars
  <2>2. CASE RequestAnswered(r) \/ Lock(r)
    BY <2>0, <2>2, GotoLeavesOthers, WakingKept
       DEF RequestAnswered, Lock, Waking, applierVars, loopVars
  <2>3. CASE RefreshReturns(r)
    BY <2>0, <2>3, GotoLeavesOthers, WakingKept
       DEF RefreshReturns, RefreshSucceeds, RefreshFails, RefreshCancelled, Waking,
           applierVars, loopVars
  <2> QED BY <1>8, <2>1, <2>2, <2>3
<1>9. ASSUME NEW e \in Editors, EditorStep(e) PROVE DirtyWakes'
  <2>0. e \in Announcers
    BY DEF Announcers
  <2>1. CASE EditorUpdates(e) \/ Unschedule(e)
    BY <2>0, <2>1, GotoLeavesOthers, WakingKept
       DEF EditorUpdates, Unschedule, Waking, applierVars, loopVars
  <2>2. ASSUME NEW a \in Auths, Register(e, a) \/ EditorReads(e, a) \/ Remove(e, a)
        PROVE  DirtyWakes'
    BY <2>0, <2>2, StartLeavesOthers, WakingKept
       DEF Register, EditorReads, Remove, Waking, applierVars, loopVars
  <2> QED BY <1>9, <2>1, <2>2 DEF EditorStep
<1>10. CASE Tick \/ (\E a \in Auths, result \in Results : MarkResult(a, result))
            \/ UNCHANGED vars
  BY <1>0, <1>10 DEF Tick, MarkResult, vars, loopVars, applierVars, callerVars
<1> QED
  BY <1>1, <1>2, <1>3, <1>4, <1>5, <1>6, <1>7, <1>8, <1>9, <1>10
     DEF Next, LoopStep, ApplyStep, AnnounceStep, Refreshers

\* No step lets the loop sleep past the head of the queue, as long as nobody else
\* stores in the queue.
LEMMA TimerStep ==
  ASSUME Inspectors = {}
  PROVE  TypeOK /\ TimerCovers /\ [Next]_vars => TimerCovers'
<1> SUFFICES ASSUME TypeOK, TimerCovers, [Next]_vars PROVE TimerCovers'
  OBVIOUS
<1>l. Appliers = {Loop}
  BY DEF Appliers
<1>0. CASE UNCHANGED <<queue, timer, at>>
  BY <1>0 DEF TimerCovers
<1>1. CASE ResetTimer
  <2>1. UNCHANGED queue /\ IsHead(timer') /\ timer' \in Nat
    BY <1>1 DEF ResetTimer, TypeOK, QueueTypes
  <2> QED BY <2>1 DEF IsHead, TimerCovers, TypeOK, QueueTypes
<1>2. CASE \/ StartAutoRefresh \/ RebuildRead \/ RebuildWrite \/ LoopWakes \/ TimerFires
           \/ (\E a \in Auths : HandleDue(a)) \/ MarkRefreshPending \/ RereadDue
           \/ AnnouncePending \/ SendJob
           \/ \E p \in Appliers : ApplyStep(p)
  <2>1. at'[Loop] # "select"
    BY <1>2, <1>l DEF StartAutoRefresh, RebuildRead, RebuildWrite, LoopWakes, TimerFires,
       HandleDue, MarkRefreshPending, RereadDue, AnnouncePending, SendJob, ApplyStep,
       DrainDirty, ApplyRead, Store, TypeOK, ApplierTypes
  <2> QED BY <2>1 DEF TimerCovers
<1>3. ASSUME NEW e \in Editors, Unschedule(e) PROVE TimerCovers'
  BY <1>3 DEF Unschedule, TimerCovers, applierVars, TypeOK, QueueTypes
<1>4. CASE UNCHANGED vars \/ Tick \/ (\E a \in Auths, result \in Results : MarkResult(a, result))
  BY <1>0, <1>4 DEF vars, Tick, MarkResult, loopVars, applierVars
<1>5. ASSUME NEW r \in Announcers, AnnounceStep(r) PROVE TimerCovers'
  BY <1>0, <1>5 DEF AnnounceStep, Announce, WakeLoop, applierVars
<1>6. ASSUME NEW r \in Refreshers,
             \/ TakeJob(r) \/ RequestAnswered(r) \/ (\E a \in Auths : RequestStarts(r, a))
             \/ Lock(r) \/ RefreshReturns(r)
      PROVE  TimerCovers'
  BY <1>0, <1>6 DEF TakeJob, RequestAnswered, RequestStarts, Lock, RefreshReturns,
     RefreshSucceeds, RefreshFails, RefreshCancelled, loopVars, applierVars
<1>7. ASSUME NEW e \in Editors, NEW a \in Auths,
             EditorUpdates(e) \/ Register(e, a) \/ EditorReads(e, a) \/ Remove(e, a)
      PROVE  TimerCovers'
  BY <1>0, <1>7 DEF EditorUpdates, Register, EditorReads, Remove, loopVars, applierVars
<1>8. ASSUME NEW e \in Editors, EditorUpdates(e) PROVE TimerCovers'
  BY <1>0, <1>8 DEF EditorUpdates, loopVars, applierVars
<1> QED
  BY <1>1, <1>2, <1>3, <1>4, <1>5, <1>6, <1>7, <1>8
     DEF Next, LoopStep, EditorStep, Refreshers

\* As long as nobody asks for a snapshot of the queue, a loop that sleeps has seen
\* every auth marked dirty, or is about to be woken, and it sleeps no longer than
\* until the head of the queue.
THEOREM LoopSleepsUntilHead ==
  ASSUME Inspectors = {}
  PROVE  Spec => []SleepsUntilHead
<1>1. Init => TypeOK /\ DirtyWakes /\ TimerCovers
  <2> SUFFICES ASSUME Init PROVE TypeOK /\ DirtyWakes /\ TimerCovers
    OBVIOUS
  <2>1. dirty = {} /\ at[Loop] = "off"
    BY DEF Init, Appliers
  <2> QED BY <2>1, InitTypes DEF DirtyWakes, TimerCovers
<1>2. DirtyWakes /\ TimerCovers => SleepsUntilHead
  BY DEF DirtyWakes, TimerCovers, SleepsUntilHead, Waking, Draining
<1> QED BY <1>1, <1>2, TypeStep, DirtyStep, TimerStep, PTL DEF Spec

-----------------------------------------------------------------------------
(* The schedule of the loop                                                *)

\* A check at that time is early enough for the auth.
InTime(a, time) ==
  LET next == NextCheck(a, now) IN
  time \in 1..(IF auths[a].executor THEN next ELSE Later(next, now + CheckInterval))

\* A goroutine that will mark the auth dirty: a worker does so whatever happens.
Calls(r, a) ==
  /\ target[r] = a
  /\ \/ pc[r] = "announce"
     \/ r \in Workers /\ pc[r] \in {"lock", "call", "wake", "again"}

Planned(a) == at[Loop] \in Planning /\ plan[Loop].auth = a

InJobs(a) == \E i \in 1..Len(jobs) : jobs[i] = a

\* The loop has the auth in its hands or in its queue.  What it is about to store
\* replaces what is queued.
InLoop(a) ==
  \/ a \in batch[Loop]
  \/ at[Loop] \in {"off", "rebuild"}
  \/ at[Loop] = "rebuilt" /\ entries[a] \in 1..NextCheck(a, now)
  \/ /\ Planned(a)
     /\ at[Loop] \in {"store", "stored"} => InTime(a, plan[Loop].next)
  \/ /\ ~Planned(a) /\ at[Loop] # "rebuilt"
     /\ InTime(a, queue[a])

Known(a) ==
  \/ a \in dirty \/ InJobs(a) \/ InLoop(a)
  \/ \E r \in Announcers : Calls(r, a)

LoopFacts ==
  /\ running <=> at[Loop] # "off"
  /\ at[Loop] \notin {"apply", "due"} \cup Planning => batch[Loop] = {}
  /\ at[Loop] \notin {"off", "select"} => clock[Loop] # 0

AllKnown == \A a \in Auths \ lapsed : NextCheck(a, now) # 0 => Known(a)

\* Somebody knows of every auth that can be refreshed, and does not lose it.
SchedInv == TypeOK /\ LoopFacts /\ AllKnown

\* The next check moves away as time passes, and none appears.
LEMMA NextCheckGrows ==
  ASSUME NEW auth \in AuthRecords, NEW s \in Nat \ {0}, NEW t \in Nat, s <= t,
         NextRefreshCheckAt(t, auth) # 0
  PROVE  NextRefreshCheckAt(s, auth) \in 1..NextRefreshCheckAt(t, auth)
<1>1. /\ auth.nextRefreshAfter \in Nat /\ auth.lastRefreshedAt \in Nat
      /\ auth.expiry \in Nat /\ auth.preferred \in Nat /\ auth.lead \in Nat
  BY DEF AuthRecords
<1>2. ~auth.unauthorized /\ ~auth.apiKey
  BY DEF NextRefreshCheckAt
<1>3. DueAt(auth) \in Int
  BY <1>1 DEF DueAt, Earlier
<1>4. CASE t < auth.nextRefreshAfter
  BY <1>1, <1>2, <1>4 DEF NextRefreshCheckAt, HeldBack
<1>5. CASE auth.nextRefreshAfter <= t /\ auth.evaluator
  BY <1>1, <1>2, <1>5, CheckIntervalIsPositive DEF NextRefreshCheckAt, HeldBack
<1>6. CASE auth.nextRefreshAfter <= t /\ ~auth.evaluator
  <2>1. NextRefreshCheckAt(t, auth) = Later(t, DueAt(auth))
    BY <1>1, <1>2, <1>6 DEF NextRefreshCheckAt, HeldBack
  <2>2. \/ NextRefreshCheckAt(s, auth) = Later(s, DueAt(auth))
        \/ s < auth.nextRefreshAfter /\ NextRefreshCheckAt(s, auth) = auth.nextRefreshAfter
    BY <1>1, <1>2, <1>6 DEF NextRefreshCheckAt, HeldBack
  <2> QED BY <1>1, <1>3, <1>6, <2>1, <2>2 DEF Later
<1> QED BY <1>1, <1>4, <1>5, <1>6

\* A check planned with the time of an earlier look is in time.
LEMMA PlannedInTime ==
  ASSUME SchedInv, NEW a \in Auths, NEW s \in Nat \ {0}, s <= now,
         NextCheck(a, now) # 0
  PROVE  /\ NextCheck(a, s) \in 1..NextCheck(a, now)
         /\ InTime(a, NextCheck(a, s))
<1>1. Present(a) /\ auths[a] \in AuthRecords /\ now \in Nat
  BY DEF NextCheck, Present, SchedInv, TypeOK, ManagerTypes
<1>2. NextCheck(a, s) \in 1..NextCheck(a, now)
  BY <1>1, NextCheckGrows DEF NextCheck
<1>3. NextCheck(a, now) \in Nat
  BY <1>1, NextCheckOfType DEF SchedInv, TypeOK
<1> QED BY <1>1, <1>2, <1>3, CheckIntervalIsPositive DEF InTime, Later

\* A step that changes neither the auth nor the clock keeps what is in time.
LEMMA SameTimes ==
  ASSUME NEW a, auths'[a] = auths[a], now' = now
  PROVE  /\ NextCheck(a, now)' = NextCheck(a, now)
         /\ \A time : InTime(a, time)' <=> InTime(a, time)
BY DEF NextCheck, InTime, Present

\* A step of a goroutine that leaves the loop alone, marks an auth it knows as
\* dirty before it forgets it, and knows the auth it changes.
LEMMA CallerKeepsKnown ==
  ASSUME SchedInv, TypeOK', NEW x \in Announcers,
         \A y \in Announcers \ {x} : pc'[y] = pc[y] /\ target'[y] = target[y],
         UNCHANGED <<now, running, queue, jobs, applierVars>>,
         dirty \subseteq dirty', lapsed \ dirty' \subseteq lapsed',
         \A a \in Auths : \/ auths'[a] = auths[a] \/ Calls(x, a)' \/ NextCheck(a, now)' = 0,
         \A a \in Auths : Calls(x, a) => Calls(x, a)' \/ a \in dirty' \/ ~running
  PROVE  SchedInv'
<1>1. LoopFacts'
  BY DEF SchedInv, LoopFacts, applierVars
<1>2. ASSUME NEW a \in Auths, a \notin lapsed', NextCheck(a, now)' # 0
      PROVE  Known(a)'
  <2>1. CASE a \in dirty' \/ Calls(x, a)'
    BY <2>1 DEF Known
  <2>2. CASE a \notin dirty' /\ ~Calls(x, a)'
    <3>1. auths'[a] = auths[a] /\ a \notin lapsed
      BY <1>2, <2>2
    <3>2. Known(a)
      BY <1>2, <3>1, SameTimes DEF SchedInv, AllKnown
    <3>3. CASE InJobs(a)
      BY <3>3 DEF InJobs, Known
    <3>4. CASE InLoop(a)
      <4>1. InLoop(a)'
        BY <3>1, <3>4, SameTimes DEF InLoop, Planned, applierVars
      <4> QED BY <4>1 DEF Known
    <3>5. ASSUME NEW r \in Announcers, Calls(r, a) PROVE Known(a)'
      <4>1. CASE r # x
        BY <3>5, <4>1 DEF Calls, Known
      <4>2. CASE r = x
        <5>1. at[Loop] = "off"
          BY <2>2, <3>5, <4>2 DEF SchedInv, LoopFacts
        <5> QED BY <5>1 DEF Known, InLoop, applierVars
      <4> QED BY <4>1, <4>2
    <3> QED BY <2>2, <3>2, <3>3, <3>4, <3>5 DEF Known
  <2> QED BY <2>1, <2>2
<1> QED BY <1>1, <1>2 DEF SchedInv, AllKnown

\* The steps of refreshers, of announcements and of edits lose no auth.
LEMMA CallerStepSchedule ==
  ASSUME SchedInv, TypeOK',
         \/ \E r \in Requests : RequestAnswered(r) \/ \E a \in Auths : RequestStarts(r, a)
         \/ \E r \in Refreshers : Lock(r) \/ RefreshReturns(r)
         \/ \E r \in Announcers : AnnounceStep(r)
         \/ \E e \in Editors : EditorUpdates(e)
         \/ \E e \in Editors, a \in Auths : Register(e, a) \/ EditorReads(e, a) \/ Remove(e, a)
  PROVE  SchedInv'
<1>t. TypeOK
  BY DEF SchedInv
<1>w. /\ \A r \in Requests : r \in Announcers /\ r \notin Workers
      /\ \A e \in Editors : e \in Announcers /\ e \notin Workers
      /\ \A r \in Refreshers : r \in Announcers
  BY RolesAreDistinct DEF Announcers, Refreshers
<1>1. ASSUME NEW r \in Requests, RequestAnswered(r) PROVE SchedInv'
  <2>1. \A a \in Auths : ~Calls(r, a)
    BY <1>1, <1>w DEF RequestAnswered, Calls
  <2> QED BY <1>1, <1>t, <1>w, <2>1, GotoLeavesOthers, CallerKeepsKnown
      DEF RequestAnswered, managerVars, loopVars
<1>2. ASSUME NEW r \in Requests, NEW a \in Auths, RequestStarts(r, a) PROVE SchedInv'
  <2>1. \A b \in Auths : ~Calls(r, b)
    BY <1>2, <1>w DEF RequestStarts, Calls
  <2> QED BY <1>2, <1>t, <1>w, <2>1, StartLeavesOthers, CallerKeepsKnown
      DEF RequestStarts, managerVars, loopVars
<1>3. ASSUME NEW r \in Refreshers, Lock(r) PROVE SchedInv'
  <2>1. pc'[r] \in {"call", Unlocked(r)}
    BY <1>3, <1>t, <1>w, GotoLeavesOthers DEF Lock
  <2>2. r \in Workers => target'[r] = target[r]
    BY <1>3 DEF Lock, Goto, Unlocked
  <2>3. \A a \in Auths : Calls(r, a) => Calls(r, a)'
    BY <1>3, <2>1, <2>2 DEF Calls, Lock, Unlocked
  <2> QED BY <1>3, <1>t, <1>w, <2>3, GotoLeavesOthers, CallerKeepsKnown
      DEF Lock, managerVars, loopVars
<1>4. ASSUME NEW r \in Refreshers, RefreshReturns(r) PROVE SchedInv'
  <2>0. pc[r] = "call" /\ target[r] \in Auths /\ snapshot[r] \in AuthRecords
    BY <1>4, <1>t, <1>w DEF RefreshReturns, RefreshSucceeds, RefreshFails, RefreshCancelled,
       TypeOK, CallTypes
  <2>1. \E place \in {"announce", Unlocked(r)} : Goto(r, place)
    BY <1>4 DEF RefreshReturns, RefreshSucceeds, RefreshFails, RefreshCancelled
  <2>2. /\ pc'[r] \in {"announce", Unlocked(r)}
        /\ pc'[r] # "idle" => target'[r] = target[r]
    <3>1. PICK place \in {"announce", Unlocked(r)} : Goto(r, place)
      BY <2>1
    <3>2. pc'[r] = place
      BY <1>t, <1>w, <3>1, GotoLeavesOthers
    <3>3. place # "idle" => target'[r] = target[r]
      BY <3>1 DEF Goto
    <3> QED BY <3>2, <3>3
  <2>3. \A y \in Announcers \ {r} : pc'[y] = pc[y] /\ target'[y] = target[y]
    BY <1>t, <1>w, <2>1, GotoLeavesOthers
  <2>4. \A a \in Auths : Calls(r, a) => Calls(r, a)'
    BY <2>0, <2>2 DEF Calls, Unlocked
  <2>5. \A a \in Auths : auths'[a] = auths[a] \/ Calls(r, a)' \/ NextCheck(a, now)' = 0
    <3>1. CASE pc'[r] = "announce"
      <4>1. \A a \in Auths \ {target[r]} : auths'[a] = auths[a]
        <5>1. CASE RefreshSucceeds(r)
          <6>1. \E auth \in AuthRecords : Update(target[r], auth)
            BY <1>t, <2>0, <5>1, RefreshedTypes DEF RefreshSucceeds
          <6> QED BY <1>t, <2>0, <6>1, UpdateTokens
        <5>2. CASE RefreshFails(r)
          BY <1>t, <5>2 DEF RefreshFails, TypeOK, ManagerTypes
        <5>3. CASE RefreshCancelled(r)
          BY <5>3 DEF RefreshCancelled, managerVars
        <5> QED BY <1>4, <5>1, <5>2, <5>3 DEF RefreshReturns
      <4>2. ASSUME NEW a \in Auths PROVE auths'[a] = auths[a] \/ Calls(r, a)'
        <5>1. CASE a = target[r]
          BY <2>2, <3>1, <5>1 DEF Calls
        <5> QED BY <4>1, <5>1
      <4> QED BY <4>2
    <3>2. CASE pc'[r] # "announce"
      <4>1. auths' = auths
        BY <1>4, <1>t, <1>w, <3>2, GotoLeavesOthers
           DEF RefreshReturns, RefreshSucceeds, RefreshFails, RefreshCancelled, Updatable,
               Update, managerVars
      <4> QED BY <4>1
    <3> QED BY <3>1, <3>2
  <2>6. /\ UNCHANGED <<now, running, queue, jobs, applierVars>>
        /\ dirty' = dirty /\ lapsed' = lapsed
    BY <1>4 DEF RefreshReturns, RefreshSucceeds, RefreshFails, RefreshCancelled,
       managerVars, loopVars
  <2> QED BY <1>w, <2>3, <2>4, <2>5, <2>6, CallerKeepsKnown
<1>5. ASSUME NEW r \in Announcers, Announce(r) PROVE SchedInv'
  <2>1. \A a \in Auths : Calls(r, a) => a \in dirty' \/ ~running
    BY <1>5 DEF Announce, Calls
  <2>2. \A y \in Announcers \ {r} : pc'[y] = pc[y] /\ target'[y] = target[y]
    BY <1>5, <1>t, GotoLeavesOthers DEF Announce
  <2>3. /\ UNCHANGED <<now, auths, running, queue, jobs, applierVars>>
        /\ dirty \subseteq dirty' /\ lapsed \ dirty' \subseteq lapsed'
    BY <1>5 DEF Announce
  <2> QED BY <2>1, <2>2, <2>3, CallerKeepsKnown
<1>6. ASSUME NEW r \in Announcers, WakeLoop(r) PROVE SchedInv'
  <2>1. pc[r] \in {"wake", "wakeAgain"} /\ Goto(r, AfterAnnouncing(r))
    BY <1>6 DEF WakeLoop
  <2>2. pc'[r] = AfterAnnouncing(r)
    BY <1>t, <2>1, GotoLeavesOthers
  <2>3. pc'[r] # "idle" => target'[r] = target[r]
    BY <2>1, <2>2 DEF Goto
  <2>4. \A a \in Auths : Calls(r, a) => Calls(r, a)'
    BY <2>1, <2>2, <2>3 DEF Calls, AfterAnnouncing, Unlocked
  <2>5. \A y \in Announcers \ {r} : pc'[y] = pc[y] /\ target'[y] = target[y]
    BY <1>t, <2>1, GotoLeavesOthers
  <2> QED BY <1>6, <2>4, <2>5, CallerKeepsKnown DEF WakeLoop, managerVars
<1>7. ASSUME NEW e \in Editors, EditorUpdates(e) PROVE SchedInv'
  <2>0. pc[e] = "edit" /\ target[e] \in Auths
    BY <1>7, <1>t, <1>w DEF EditorUpdates, TypeOK, CallTypes
  <2>1. \A a \in Auths : ~Calls(e, a)
    BY <1>w, <2>0 DEF Calls
  <2>2. \E auth \in AuthRecords : Update(target[e], auth)
    BY <1>7, <1>t, EditsAreAuths
  <2>3. \A a \in Auths \ {target[e]} : auths'[a] = auths[a]
    BY <1>t, <2>0, <2>2, UpdateTokens
  <2>4. auths' = auths \/ Updatable(target[e])
    BY <2>2 DEF Update, Updatable
  <2>5. Updatable(target[e]) => pc'[e] = "announce" /\ target'[e] = target[e]
    BY <1>7, <1>t, <1>w, GotoLeavesOthers DEF EditorUpdates, Goto
  <2>6. \A y \in Announcers \ {e} : pc'[y] = pc[y] /\ target'[y] = target[y]
    BY <1>7, <1>t, <1>w, GotoLeavesOthers DEF EditorUpdates
  <2>7. ASSUME NEW a \in Auths
        PROVE  auths'[a] = auths[a] \/ Calls(e, a)' \/ NextCheck(a, now)' = 0
    <3>1. CASE a = target[e]
      BY <2>4, <2>5, <3>1 DEF Calls
    <3> QED BY <2>3, <3>1
  <2>8. /\ UNCHANGED <<now, running, queue, jobs, applierVars>>
        /\ dirty' = dirty /\ lapsed' = lapsed
    BY <1>7 DEF EditorUpdates, loopVars
  <2> QED BY <1>w, <2>1, <2>6, <2>7, <2>8, CallerKeepsKnown
<1>8. ASSUME NEW e \in Editors, NEW a \in Auths,
             Register(e, a) \/ EditorReads(e, a) \/ Remove(e, a)
      PROVE  SchedInv'
  <2>1. \A b \in Auths : ~Calls(e, b)
    BY <1>8, <1>w DEF Register, EditorReads, Remove, Calls
  <2>2. \A y \in Announcers \ {e} : pc'[y] = pc[y] /\ target'[y] = target[y]
    BY <1>8, <1>t, <1>w, StartLeavesOthers DEF Register, EditorReads, Remove
  <2>3. \A b \in Auths : auths'[b] = auths[b] \/ Calls(e, b)' \/ NextCheck(b, now)' = 0
    <3>1. CASE Register(e, a)
      <4>1. Calls(e, a)'
        BY <1>t, <1>w, <3>1 DEF Register, Start, Calls, TypeOK, CallTypes
      <4>2. \A b \in Auths \ {a} : auths'[b] = auths[b]
        BY <1>t, <3>1 DEF Register, TypeOK, ManagerTypes
      <4> QED BY <4>1, <4>2
    <3>2. CASE EditorReads(e, a)
      BY <3>2 DEF EditorReads, managerVars
    <3>3. CASE Remove(e, a)
      BY <1>t, <3>3 DEF Remove, NextCheck, Present, TypeOK, ManagerTypes
    <3> QED BY <1>8, <3>1, <3>2, <3>3
  <2>4. /\ UNCHANGED <<now, running, queue, jobs, applierVars>>
        /\ dirty' = dirty /\ lapsed' = lapsed
    BY <1>8 DEF Register, EditorReads, Remove, loopVars, managerVars
  <2> QED BY <1>w, <2>1, <2>2, <2>3, <2>4, CallerKeepsKnown
<1> QED BY <1>1, <1>2, <1>3, <1>4, <1>5, <1>6, <1>7, <1>8 DEF AnnounceStep

\* The same for the other steps that are not the loop's: a job that is taken, a
\* removal that unschedules, a result, and the clock.
LEMMA OtherStepSchedule ==
  ASSUME SchedInv, TypeOK',
         \/ \E w \in Workers : TakeJob(w)
         \/ \E e \in Editors : Unschedule(e)
         \/ \E a \in Auths, result \in Results : MarkResult(a, result)
         \/ Tick
  PROVE  SchedInv'
<1>t. TypeOK
  BY DEF SchedInv
<1>1. ASSUME NEW w \in Workers, TakeJob(w) PROVE SchedInv'
  <2>0. w \in Announcers
    BY DEF Announcers, Refreshers
  <2>1. jobs # <<>> /\ jobs \in Seq(Auths) /\ jobs' = Tail(jobs)
    BY <1>1, <1>t DEF TakeJob, TypeOK, QueueTypes
  <2>2. /\ pc'[w] = "lock" /\ target'[w] = Head(jobs)
        /\ \A y \in Announcers \ {w} : pc'[y] = pc[y] /\ target'[y] = target[y]
    BY <1>1, <1>t, <2>0, StartLeavesOthers DEF TakeJob, Start, TypeOK, CallTypes
  <2>3. UNCHANGED <<now, auths, running, lapsed, queue, dirty, applierVars>>
    BY <1>1 DEF TakeJob, managerVars
  <2>4. ASSUME NEW a \in Auths, Known(a) PROVE Known(a)'
    <3>1. CASE a \in dirty
      BY <2>3, <3>1 DEF Known
    <3>2. CASE InLoop(a)
      <4>1. InLoop(a)'
        BY <2>3, <3>2, SameTimes DEF InLoop, Planned, applierVars
      <4> QED BY <4>1 DEF Known
    <3>3. CASE InJobs(a)
      <4>1. PICK i \in 1..Len(jobs) : jobs[i] = a
        BY <3>3 DEF InJobs
      <4>2. CASE i = 1
        BY <2>0, <2>1, <2>2, <4>1, <4>2 DEF Known, Calls
      <4>3. CASE i # 1
        <5>1. i - 1 \in 1..Len(jobs') /\ jobs'[i - 1] = a
          BY <2>1, <4>1, <4>3
        <5> QED BY <5>1 DEF Known, InJobs
      <4> QED BY <4>2, <4>3
    <3>4. ASSUME NEW r \in Announcers, Calls(r, a) PROVE Known(a)'
      <4>1. r # w
        BY <1>1, <3>4 DEF TakeJob, Calls
      <4>2. Calls(r, a)'
        BY <2>2, <3>4, <4>1 DEF Calls
      <4> QED BY <4>2 DEF Known
    <3> QED BY <2>4, <3>1, <3>2, <3>3, <3>4 DEF Known
  <2>5. LoopFacts'
    BY <2>3 DEF SchedInv, LoopFacts, applierVars
  <2> QED BY <2>3, <2>4, <2>5, SameTimes DEF SchedInv, AllKnown
<1>2. ASSUME NEW e \in Editors, Unschedule(e) PROVE SchedInv'
  <2>0. e \in Announcers /\ e \notin Workers /\ target[e] \in Auths /\ pc[e] = "unschedule"
    BY <1>2, <1>t, RolesAreDistinct DEF Announcers, Refreshers, Unschedule, TypeOK, CallTypes
  <2>1. /\ UNCHANGED <<now, auths, running, dirty, jobs, applierVars>>
        /\ \A y \in Announcers \ {e} : pc'[y] = pc[y] /\ target'[y] = target[y]
    BY <1>2, <1>t, <2>0, GotoLeavesOthers DEF Unschedule
  <2>2. \A a \in Auths \ {target[e]} : queue'[a] = queue[a]
    BY <1>2, <1>t DEF Unschedule, TypeOK, QueueTypes
  <2>3. LoopFacts'
    BY <2>1 DEF SchedInv, LoopFacts, applierVars
  <2>4. ASSUME NEW a \in Auths, a \notin lapsed', NextCheck(a, now)' # 0
        PROVE  Known(a)'
    <3>1. Known(a) /\ (a # target[e] \/ ~running)
      BY <1>2, <2>1, <2>4, SameTimes DEF Unschedule, SchedInv, AllKnown, NextCheck
    <3>2. CASE ~running
      BY <2>1, <3>2 DEF SchedInv, LoopFacts, Known, InLoop, applierVars
    <3>3. CASE a # target[e]
      <4>1. CASE a \in dirty \/ InJobs(a)
        BY <2>1, <4>1 DEF Known, InJobs
      <4>2. CASE InLoop(a)
        <5>1. InLoop(a)'
          BY <2>1, <2>2, <3>3, <4>2, SameTimes DEF InLoop, Planned, applierVars
        <5> QED BY <5>1 DEF Known
      <4>3. ASSUME NEW r \in Announcers, Calls(r, a) PROVE Known(a)'
        <5>1. Calls(r, a)'
          BY <2>0, <2>1, <4>3 DEF Calls
        <5> QED BY <5>1 DEF Known
      <4> QED BY <3>1, <4>1, <4>2, <4>3 DEF Known
    <3> QED BY <3>1, <3>2, <3>3
  <2> QED BY <2>3, <2>4 DEF SchedInv, AllKnown
<1>3. ASSUME NEW b \in Auths, NEW result \in Results, MarkResult(b, result)
      PROVE  SchedInv'
  <2>1. UNCHANGED <<now, running, loopVars, applierVars, callerVars>>
    BY <1>3 DEF MarkResult
  <2>2. LoopFacts'
    BY <2>1 DEF SchedInv, LoopFacts, applierVars
  <2>3. ASSUME NEW a \in Auths, a \notin lapsed', NextCheck(a, now)' # 0
        PROVE  Known(a)'
    <3>1. /\ a \notin lapsed
          /\ NextCheck(a, now)' = NextCheck(a, now)
          /\ auths'[a].executor = auths[a].executor
      <4>1. CASE a # b
        BY <1>3, <1>t, <2>1, <2>3, <4>1 DEF MarkResult, NextCheck, Present, TypeOK, ManagerTypes
      <4>2. CASE a = b
        <5>1. auths[b] \in AuthRecords
          BY <1>3, <1>t DEF MarkResult, Present, TypeOK, ManagerTypes
        <5>2. PICK retry :
                auths' = [auths EXCEPT ![b].unauthorized = (result = "unauthorized"),
                                       ![b].retryAfter = retry]
          BY <1>3 DEF MarkResult
        <5> DEFINE new == auths'[b]
        <5>3. /\ new.unauthorized = (result = "unauthorized")
              /\ new.apiKey = auths[b].apiKey /\ new.evaluator = auths[b].evaluator
              /\ new.nextRefreshAfter = auths[b].nextRefreshAfter
              /\ new.lastRefreshedAt = auths[b].lastRefreshedAt
              /\ new.expiry = auths[b].expiry /\ new.preferred = auths[b].preferred
              /\ new.lead = auths[b].lead /\ new.executor = auths[b].executor
          BY <1>t, <5>1, <5>2 DEF TypeOK, ManagerTypes, AuthRecords
        <5>4. ~new.unauthorized
          BY <2>3, <4>2 DEF NextCheck, NextRefreshCheckAt
        <5>5. ~auths[b].unauthorized /\ a \notin lapsed
          BY <1>3, <2>3, <4>2, <5>4 DEF MarkResult
        <5>6. NextRefreshCheckAt(now, new) = NextRefreshCheckAt(now, auths[b])
          BY <5>3, <5>4, <5>5 DEF NextRefreshCheckAt, HeldBack, DueAt
        <5>7. Present(b) /\ Present(b)'
          BY <1>3, <2>3, <4>2 DEF MarkResult, NextCheck
        <5> QED BY <2>1, <4>2, <5>3, <5>5, <5>6, <5>7 DEF NextCheck
      <4> QED BY <4>1, <4>2
    <3>2. Known(a) /\ \A time : InTime(a, time)' <=> InTime(a, time)
      BY <2>1, <2>3, <3>1 DEF SchedInv, AllKnown, InTime
    <3>3. InLoop(a) => InLoop(a)'
      BY <2>1, <3>1, <3>2 DEF InLoop, Planned, applierVars, loopVars
    <3>4. InJobs(a) => InJobs(a)'
      BY <2>1 DEF InJobs, loopVars
    <3>5. \A r \in Announcers : Calls(r, a) => Calls(r, a)'
      BY <2>1 DEF Calls, callerVars
    <3> QED BY <2>1, <3>2, <3>3, <3>4, <3>5 DEF Known, loopVars
  <2> QED BY <2>2, <2>3 DEF SchedInv, AllKnown
<1>4. CASE Tick
  <2>1. UNCHANGED <<managerVars, loopVars, applierVars, callerVars>> /\ now' = now + 1
        /\ now \in Nat \ {0}
    BY <1>4, <1>t DEF Tick, TypeOK
  <2>2. LoopFacts'
    BY <2>1 DEF SchedInv, LoopFacts, applierVars, managerVars
  <2>3. ASSUME NEW a \in Auths, a \notin lapsed, NextCheck(a, now)' # 0
        PROVE  Known(a)'
    <3>1. auths'[a] = auths[a] /\ auths[a] \in AuthRecords /\ Present(a)
      BY <1>t, <2>1, <2>3 DEF managerVars, NextCheck, Present, TypeOK, ManagerTypes
    <3>2. NextCheck(a, now) \in 1..NextCheck(a, now)' /\ NextCheck(a, now)' \in Nat
      BY <2>1, <2>3, <3>1, NextCheckGrows, NextCheckType DEF NextCheck, Present
    <3>3. \A time : InTime(a, time) => InTime(a, time)'
      BY <2>1, <3>1, <3>2, CheckIntervalIsPositive DEF InTime, Later
    <3>4. Known(a)
      BY <2>3, <3>2 DEF SchedInv, AllKnown
    <3>5. InLoop(a) => InLoop(a)'
      BY <2>1, <3>2, <3>3 DEF InLoop, Planned, applierVars, loopVars
    <3>6. InJobs(a) => InJobs(a)'
      BY <2>1 DEF InJobs, loopVars
    <3>7. \A r \in Announcers : Calls(r, a) => Calls(r, a)'
      BY <2>1 DEF Calls, callerVars
    <3> QED BY <2>1, <3>4, <3>5, <3>6, <3>7 DEF Known, loopVars
  <2> QED BY <2>1, <2>2, <2>3 DEF SchedInv, AllKnown, managerVars
<1> QED BY <1>1, <1>2, <1>3, <1>4

\* The loop loses no auth on its way from the dirty set to the queue, to the
\* workers and back, as long as nobody else drains the dirty set.
LEMMA LoopStepSchedule ==
  ASSUME Inspectors = {}, SchedInv, TypeOK',
         StartAutoRefresh \/ LoopStep \/ (\E p \in Appliers : ApplyStep(p))
  PROVE  SchedInv'
<1>t. TypeOK
  BY DEF SchedInv
<1>l. Appliers = {Loop} /\ Loop \in Appliers
  BY DEF Appliers
<1> DEFINE Same == UNCHANGED <<now, auths, lapsed, callerVars>>
<1>k. ASSUME Same, LoopFacts',
             \A a \in Auths \ lapsed : NextCheck(a, now) # 0 /\ ~(\E r \in Announcers : Calls(r, a))
               /\ (a \in dirty \/ InJobs(a) \/ InLoop(a))
               => a \in dirty' \/ InJobs(a)' \/ InLoop(a)'
      PROVE  SchedInv'
  <2>1. \A a \in Auths : NextCheck(a, now)' = NextCheck(a, now)
    BY <1>k, SameTimes
  <2>2. \A a \in Auths, r \in Announcers : Calls(r, a) => Calls(r, a)'
    BY <1>k DEF Calls, callerVars
  <2>3. \A a \in Auths \ lapsed : NextCheck(a, now) # 0 => Known(a)'
    BY <1>k, <2>2 DEF Known, SchedInv, AllKnown
  <2> QED BY <1>k, <2>1, <2>3 DEF SchedInv, AllKnown
<1>s. Same => \A a \in Auths : /\ NextCheck(a, now)' = NextCheck(a, now)
                              /\ \A time : InTime(a, time)' <=> InTime(a, time)
  BY SameTimes
<1>1. CASE StartAutoRefresh
  <2>1. Same /\ LoopFacts'
    BY <1>1, <1>t, <1>l DEF StartAutoRefresh, LoopFacts, SchedInv, TypeOK, ApplierTypes, Planning
  <2>2. \A a \in Auths : InLoop(a)'
    BY <1>1, <1>t, <1>l DEF StartAutoRefresh, InLoop, TypeOK, ApplierTypes
  <2> QED BY <1>k, <2>1, <2>2
<1>2. CASE RebuildRead
  <2>1. Same /\ LoopFacts'
    BY <1>2, <1>t, <1>l DEF RebuildRead, LoopFacts, SchedInv, TypeOK, ApplierTypes, Planning,
       managerVars
  <2>2. ASSUME NEW a \in Auths, NextCheck(a, now) # 0 PROVE InLoop(a)'
    <3>1. clock[Loop] \in Nat \ {0} /\ clock[Loop] <= now
      BY <1>2, <1>t, <1>l DEF RebuildRead, SchedInv, LoopFacts, TypeOK, ApplierTypes
    <3>2. NextCheck(a, clock[Loop]) \in 1..NextCheck(a, now)
      BY <2>2, <3>1, PlannedInTime
    <3>3. at'[Loop] = "rebuilt" /\ entries'[a] = NextCheck(a, clock[Loop])
      BY <1>2, <1>t, <1>l DEF RebuildRead, TypeOK, ApplierTypes
    <3> QED BY <1>s, <2>1, <3>2, <3>3 DEF InLoop
  <2> QED BY <1>k, <2>1, <2>2
<1>3. CASE RebuildWrite
  <2>1. Same /\ LoopFacts'
    BY <1>3, <1>t, <1>l DEF RebuildWrite, LoopFacts, SchedInv, TypeOK, ApplierTypes, Planning,
       managerVars
  <2>2. UNCHANGED <<dirty, jobs, batch>> /\ queue' = entries
        /\ at[Loop] = "rebuilt" /\ at'[Loop] = "apply"
    BY <1>3, <1>t, <1>l DEF RebuildWrite, TypeOK, ApplierTypes
  <2>3. ASSUME NEW a \in Auths, NextCheck(a, now) # 0, InLoop(a) PROVE InLoop(a)'
    <3>1. CASE a \in batch[Loop]
      BY <2>2, <3>1 DEF InLoop
    <3>2. CASE entries[a] \in 1..NextCheck(a, now)
      <4>1. NextCheck(a, now) \in Nat /\ now + CheckInterval \in Nat
        BY <1>t, NextCheckOfType, CheckIntervalIsPositive DEF TypeOK
      <4>2. InTime(a, queue'[a])
        BY <2>2, <3>2, <4>1 DEF InTime, Later
      <4> QED BY <1>s, <2>1, <2>2, <4>2 DEF InLoop, Planned, Planning
    <3> QED BY <2>2, <2>3, <3>1, <3>2 DEF InLoop, Planned, Planning
  <2> QED BY <1>k, <2>1, <2>2, <2>3 DEF InJobs
<1>4. CASE ResetTimer
  <2>1. Same /\ LoopFacts'
    BY <1>4, <1>t, <1>l DEF ResetTimer, LoopFacts, SchedInv, TypeOK, ApplierTypes, Planning,
       managerVars
  <2>2. UNCHANGED <<dirty, jobs, batch, queue>> /\ at[Loop] = "apply" /\ at'[Loop] = "select"
    BY <1>4, <1>t, <1>l DEF ResetTimer, TypeOK, ApplierTypes
  <2>3. \A a \in Auths : InLoop(a) => InLoop(a)'
    BY <1>s, <2>1, <2>2 DEF InLoop, Planned, Planning
  <2> QED BY <1>k, <2>1, <2>2, <2>3 DEF InJobs
<1>5. CASE LoopWakes
  <2>1. Same /\ LoopFacts'
    BY <1>5, <1>t, <1>l DEF LoopWakes, LoopFacts, SchedInv, TypeOK, ApplierTypes, Planning,
       managerVars
  <2>2. UNCHANGED <<dirty, jobs, batch, queue>> /\ at[Loop] = "select" /\ at'[Loop] = "drain"
    BY <1>5, <1>t, <1>l DEF LoopWakes, TypeOK, ApplierTypes
  <2>3. \A a \in Auths : InLoop(a) => InLoop(a)'
    BY <1>s, <2>1, <2>2 DEF InLoop, Planned, Planning
  <2> QED BY <1>k, <2>1, <2>2, <2>3 DEF InJobs
<1>6. CASE TimerFires
  <2> DEFINE due == {a \in Auths : queue[a] \in 1..now}
  <2>1. Same /\ LoopFacts'
    BY <1>6, <1>t, <1>l DEF TimerFires, LoopFacts, SchedInv, TypeOK, ApplierTypes, Planning,
       managerVars
  <2>2. /\ UNCHANGED <<dirty, jobs>> /\ at[Loop] = "select" /\ at'[Loop] = "due"
        /\ batch'[Loop] = due /\ batch[Loop] = {}
        /\ \A a \in Auths \ due : queue'[a] = queue[a]
    BY <1>6, <1>t, <1>l DEF TimerFires, TypeOK, ApplierTypes, SchedInv, LoopFacts, Planning
  <2>3. \A a \in Auths : InLoop(a) => InLoop(a)'
    BY <1>s, <2>1, <2>2 DEF InLoop, Planned, Planning
  <2> QED BY <1>k, <2>1, <2>2, <2>3 DEF InJobs
<1>7. ASSUME NEW b \in Auths, HandleDue(b) PROVE SchedInv'
  <2>1. Same /\ LoopFacts'
    BY <1>7, <1>t, <1>l DEF HandleDue, LoopFacts, SchedInv, TypeOK, ApplierTypes, Planning,
       managerVars
  <2>2. /\ UNCHANGED <<dirty, jobs, queue>> /\ at[Loop] = "due"
        /\ batch'[Loop] = batch[Loop] \ {b}
        /\ clock[Loop] \in Nat \ {0} /\ clock[Loop] <= now
    BY <1>7, <1>t, <1>l DEF HandleDue, loopVars, TypeOK, ApplierTypes, SchedInv, LoopFacts
  <2>3. \/ ~Present(b) /\ at'[Loop] = "due"
        \/ /\ at'[Loop] \in {"mark", "store"} /\ plan'[Loop].auth = b
           /\ at'[Loop] = "store" =>
                \/ plan'[Loop].next = NextCheck(b, clock[Loop])
                \/ ~auths[b].executor /\ plan'[Loop].next = clock[Loop] + CheckInterval
    <3>1. \A next : Plan(Loop, b, next) =>
            plan'[Loop].auth = b /\ plan'[Loop].next = next
      BY <1>t, <1>l DEF Plan, TypeOK, ApplierTypes
    <3>2. \A place : at' = [at EXCEPT ![Loop] = place] => at'[Loop] = place
      BY <1>t, <1>l DEF TypeOK, ApplierTypes
    <3>3. CASE ~Present(b) /\ UNCHANGED <<at, plan>>
      BY <2>2, <3>3
    <3>4. CASE Plan(Loop, b, NextCheck(b, clock[Loop])) /\ at' = [at EXCEPT ![Loop] = "store"]
      BY <3>1, <3>2, <3>4
    <3>5. CASE Plan(Loop, b, 0) /\ at' = [at EXCEPT ![Loop] = "mark"]
      BY <3>1, <3>2, <3>5
    <3>6. CASE /\ ~auths[b].executor
               /\ Plan(Loop, b, clock[Loop] + CheckInterval)
               /\ at' = [at EXCEPT ![Loop] = "store"]
      BY <3>1, <3>2, <3>6
    <3> QED BY <1>7, <3>3, <3>4, <3>5, <3>6 DEF HandleDue
  <2>4. ASSUME NEW a \in Auths, NextCheck(a, now) # 0, InLoop(a) PROVE InLoop(a)'
    <3>1. CASE a # b
      BY <1>s, <2>1, <2>2, <2>3, <2>4, <3>1 DEF InLoop, Planned, Planning
    <3>2. CASE a = b
      <4>1. Present(b)
        BY <2>4, <3>2 DEF NextCheck
      <4>2. InTime(b, NextCheck(b, clock[Loop]))
        BY <2>2, <2>4, <3>2, PlannedInTime
      <4>3. ~auths[b].executor => InTime(b, clock[Loop] + CheckInterval)
        <5>1. NextCheck(b, now) \in Nat /\ CheckInterval \in Nat \ {0} /\ now \in Nat
          BY <1>t, NextCheckOfType, CheckIntervalIsPositive DEF TypeOK
        <5> QED BY <2>2, <5>1 DEF InTime, Later
      <4>4. at'[Loop] = "store" => InTime(b, plan'[Loop].next)
        BY <2>3, <4>1, <4>2, <4>3
      <4> QED BY <1>s, <2>1, <2>3, <3>2, <4>1, <4>4 DEF InLoop, Planned, Planning
    <3> QED BY <3>1, <3>2
  <2> QED BY <1>k, <2>1, <2>2, <2>4 DEF InJobs
<1>8. CASE MarkRefreshPending
  <2> DEFINE b == plan[Loop].auth
  <2>0. b \in Auths
    BY <1>8, <1>t, <1>l DEF MarkRefreshPending, TypeOK, ApplierTypes, Planning
  <2>1. /\ UNCHANGED <<now, lapsed, running, loopVars, clock, batch, plan, entries, callerVars>>
        /\ at[Loop] = "mark" /\ at'[Loop] \in {"announce", "reread"}
        /\ \A a \in Auths \ {b} : auths'[a] = auths[a]
    BY <1>8, <1>t, <1>l DEF MarkRefreshPending, TypeOK, ApplierTypes, ManagerTypes
  <2>2. LoopFacts'
    BY <2>1 DEF SchedInv, LoopFacts, Planning
  <2>3. InLoop(b)'
    BY <2>1 DEF InLoop, Planned, Planning
  <2>4. ASSUME NEW a \in Auths, a # b, a \notin lapsed, NextCheck(a, now)' # 0
        PROVE  Known(a)'
    <3>1. Known(a) /\ \A time : InTime(a, time)' <=> InTime(a, time)
      BY <2>1, <2>4, SameTimes DEF SchedInv, AllKnown
    <3>2. InLoop(a) => InLoop(a)'
      BY <2>1, <2>4, <3>1 DEF InLoop, Planned, Planning, loopVars
    <3>3. InJobs(a) => InJobs(a)'
      BY <2>1 DEF InJobs, loopVars
    <3>4. \A r \in Announcers : Calls(r, a) => Calls(r, a)'
      BY <2>1 DEF Calls, callerVars
    <3> QED BY <2>1, <3>1, <3>2, <3>3, <3>4 DEF Known, loopVars
  <2> QED BY <2>0, <2>1, <2>2, <2>3, <2>4 DEF SchedInv, AllKnown, Known
<1>9. CASE RereadDue
  <2> DEFINE b == plan[Loop].auth
  <2>1. Same /\ LoopFacts'
    BY <1>9, <1>t, <1>l DEF RereadDue, LoopFacts, SchedInv, TypeOK, ApplierTypes, Planning,
       managerVars
  <2>2. /\ UNCHANGED <<dirty, jobs, queue, batch>> /\ b \in Auths
        /\ at[Loop] = "reread" /\ at'[Loop] = "store"
        /\ plan'[Loop].auth = b /\ plan'[Loop].next = NextCheck(b, clock[Loop])
        /\ clock[Loop] \in Nat \ {0} /\ clock[Loop] <= now
    BY <1>9, <1>t, <1>l DEF RereadDue, Plan, loopVars, TypeOK, ApplierTypes, SchedInv, LoopFacts,
       Planning
  <2>3. ASSUME NEW a \in Auths, NextCheck(a, now) # 0, InLoop(a) PROVE InLoop(a)'
    <3>1. CASE a # b
      BY <1>s, <2>1, <2>2, <2>3, <3>1 DEF InLoop, Planned, Planning
    <3>2. CASE a = b
      <4>1. InTime(b, plan'[Loop].next)
        BY <2>2, <2>3, <3>2, PlannedInTime
      <4> QED BY <1>s, <2>1, <2>2, <3>2, <4>1 DEF InLoop, Planned, Planning
    <3> QED BY <3>1, <3>2
  <2> QED BY <1>k, <2>1, <2>2, <2>3 DEF InJobs
<1>10. CASE AnnouncePending
  <2>1. Same /\ LoopFacts'
    BY <1>10, <1>t, <1>l DEF AnnouncePending, LoopFacts, SchedInv, TypeOK, ApplierTypes, Planning,
       managerVars
  <2>2. /\ UNCHANGED <<jobs, queue, batch, plan>> /\ dirty \subseteq dirty'
        /\ at[Loop] = "announce" /\ at'[Loop] = "send"
    BY <1>10, <1>t, <1>l DEF AnnouncePending, TypeOK, ApplierTypes
  <2>3. \A a \in Auths : InLoop(a) => InLoop(a)'
    BY <1>s, <2>1, <2>2 DEF InLoop, Planned, Planning
  <2> QED BY <1>k, <2>1, <2>2, <2>3 DEF InJobs
<1>11. CASE SendJob
  <2>b. PICK b \in Auths : b = plan[Loop].auth
    BY <1>11, <1>t, <1>l DEF SendJob, TypeOK, ApplierTypes, Planning
  <2>1. Same /\ LoopFacts'
    BY <1>11, <1>t, <1>l DEF SendJob, LoopFacts, SchedInv, TypeOK, ApplierTypes, Planning,
       managerVars
  <2>2. /\ UNCHANGED <<dirty, queue, batch>>
        /\ at[Loop] = "send" /\ at'[Loop] = "due"
        /\ jobs' = Append(jobs, b) /\ jobs \in Seq(Auths)
    BY <1>11, <1>t, <1>l, <2>b DEF SendJob, TypeOK, ApplierTypes, QueueTypes, Planning
  <2>3. InJobs(b)'
    <3>1. Len(jobs') = Len(jobs) + 1 /\ jobs'[Len(jobs) + 1] = b /\ Len(jobs) \in Nat
      BY <2>2
    <3> QED BY <3>1 DEF InJobs
  <2>4. \A a \in Auths : InJobs(a) => InJobs(a)'
    BY <2>2 DEF InJobs
  <2>5. \A a \in Auths \ {b} : InLoop(a) => InLoop(a)'
    BY <1>s, <2>1, <2>2, <2>b DEF InLoop, Planned, Planning
  <2>6. ASSUME NEW a \in Auths, a \in dirty \/ InJobs(a) \/ InLoop(a)
        PROVE  a \in dirty' \/ InJobs(a)' \/ InLoop(a)'
    <3>1. CASE a = b
      BY <2>3, <3>1
    <3> QED BY <2>2, <2>4, <2>5, <2>6, <3>1
  <2> QED BY <1>k, <2>1, <2>6
<1>12. CASE DrainDirty(Loop)
  <2>1. Same /\ LoopFacts'
    BY <1>12, <1>t, <1>l DEF DrainDirty, LoopFacts, SchedInv, TypeOK, ApplierTypes, Planning,
       managerVars
  <2>2. /\ UNCHANGED <<jobs, queue, plan>> /\ batch'[Loop] = dirty /\ batch[Loop] = {}
        /\ at[Loop] \in {"drain", "due"} /\ at'[Loop] = "apply"
    BY <1>12, <1>t, <1>l DEF DrainDirty, TypeOK, ApplierTypes
  <2>3. \A a \in Auths : InLoop(a) => InLoop(a)'
    BY <1>s, <2>1, <2>2 DEF InLoop, Planned, Planning
  <2>4. \A a \in dirty : InLoop(a)'
    BY <2>2 DEF InLoop
  <2> QED BY <1>k, <2>1, <2>2, <2>3, <2>4 DEF InJobs
<1>13. ASSUME NEW b \in Auths, ApplyRead(Loop, b) PROVE SchedInv'
  <2>1. Same /\ LoopFacts'
    BY <1>13, <1>t, <1>l DEF ApplyRead, LoopFacts, SchedInv, TypeOK, ApplierTypes, Planning,
       managerVars
  <2>2. /\ UNCHANGED <<dirty, jobs, queue>> /\ batch'[Loop] = batch[Loop] \ {b}
        /\ at[Loop] = "apply" /\ at'[Loop] = "stored"
        /\ plan'[Loop].auth = b /\ plan'[Loop].next = NextCheck(b, clock[Loop])
        /\ clock[Loop] \in Nat \ {0} /\ clock[Loop] <= now
    BY <1>13, <1>t, <1>l DEF ApplyRead, Plan, loopVars, TypeOK, ApplierTypes, SchedInv, LoopFacts
  <2>3. ASSUME NEW a \in Auths, NextCheck(a, now) # 0, InLoop(a) PROVE InLoop(a)'
    <3>1. CASE a # b
      BY <1>s, <2>1, <2>2, <2>3, <3>1 DEF InLoop, Planned, Planning
    <3>2. CASE a = b
      <4>1. InTime(b, plan'[Loop].next)
        BY <2>2, <2>3, <3>2, PlannedInTime
      <4> QED BY <1>s, <2>1, <2>2, <3>2, <4>1 DEF InLoop, Planned, Planning
    <3> QED BY <3>1, <3>2
  <2> QED BY <1>k, <2>1, <2>2, <2>3 DEF InJobs
<1>14. CASE Store(Loop)
  <2> DEFINE b == plan[Loop].auth
  <2>1. Same /\ LoopFacts'
    BY <1>14, <1>t, <1>l DEF Store, LoopFacts, SchedInv, TypeOK, ApplierTypes, Planning,
       managerVars
  <2>2. /\ UNCHANGED <<dirty, jobs, batch>> /\ b \in Auths
        /\ at[Loop] \in {"store", "stored"} /\ at'[Loop] \in {"due", "apply"}
        /\ queue'[b] = plan[Loop].next
        /\ \A a \in Auths \ {b} : queue'[a] = queue[a]
    BY <1>14, <1>t, <1>l DEF Store, TypeOK, ApplierTypes, QueueTypes, Planning
  <2>3. ASSUME NEW a \in Auths, InLoop(a) PROVE InLoop(a)'
    BY <1>s, <2>1, <2>2, <2>3 DEF InLoop, Planned, Planning
  <2> QED BY <1>k, <2>1, <2>2, <2>3 DEF InJobs
<1> QED
  BY <1>1, <1>2, <1>3, <1>4, <1>5, <1>6, <1>7, <1>8, <1>9, <1>10, <1>11, <1>12, <1>13,
     <1>14, <1>l DEF LoopStep, ApplyStep

\* As long as nobody asks for a snapshot of the queue, an auth that can be refreshed
\* is never lost and never scheduled late, however refreshes, edits, registrations,
\* removals and the loop interleave, except the auths listed in lapsed.
THEOREM NothingIsForgotten ==
  ASSUME Inspectors = {}
  PROVE  Spec => []ScheduledInTime
<1>1. Init => SchedInv
  <2> SUFFICES ASSUME Init PROVE SchedInv
    OBVIOUS
  <2>1. at[Loop] = "off" /\ ~running /\ batch[Loop] = {}
    BY DEF Init, Appliers
  <2> QED BY <2>1, InitTypes DEF SchedInv, LoopFacts, AllKnown, Known, InLoop
<1>2. SchedInv /\ [Next]_vars => SchedInv'
  <2> SUFFICES ASSUME SchedInv, [Next]_vars PROVE SchedInv'
    OBVIOUS
  <2>1. TypeOK'
    BY TypeStep DEF SchedInv
  <2>2. CASE UNCHANGED vars
    <3>1. UNCHANGED <<now, auths, running, lapsed, queue, dirty, jobs, at, clock, batch, plan,
                      entries, pc, target>>
      BY <2>2 DEF vars, managerVars, loopVars, applierVars, callerVars
    <3>2. \A a \in Auths : Known(a) => Known(a)'
      BY <3>1, SameTimes DEF Known, InJobs, InLoop, Planned, Calls
    <3>3. LoopFacts'
      BY <3>1 DEF SchedInv, LoopFacts
    <3> QED BY <2>1, <3>1, <3>2, <3>3, SameTimes DEF SchedInv, AllKnown
  <2>3. CASE Next
    BY <2>1, <2>3, CallerStepSchedule, OtherStepSchedule, LoopStepSchedule
       DEF Next, EditorStep
  <2> QED BY <2>2, <2>3
<1>3. SchedInv => ScheduledInTime
  <2> SUFFICES ASSUME SchedInv, NEW a \in Auths \ lapsed, NextCheck(a, now) # 0
               PROVE  Handled(a) \/ Queued(a)
    BY DEF ScheduledInTime
  <2>0. Known(a) /\ Loop \in Appliers
    BY DEF SchedInv, AllKnown, Appliers
  <2>1. CASE InJobs(a)
    <3>1. a \in Range(jobs)
      BY <2>1 DEF InJobs, Range, SchedInv, TypeOK, QueueTypes
    <3> QED BY <3>1 DEF Handled
  <2>2. CASE InLoop(a)
    BY <2>0, <2>2 DEF InLoop, Planned, InTime, Handled, Queued
  <2>3. ASSUME NEW r \in Announcers, Calls(r, a) PROVE Handled(a)
    BY <2>3 DEF Calls, Handled
  <2> QED BY <2>0, <2>1, <2>2, <2>3 DEF Known, Handled
<1> QED BY <1>1, <1>2, <1>3, PTL DEF Spec

-----------------------------------------------------------------------------
(* Removed auths                                                           *)

RemovedInv ==
  /\ auths = [a \in Auths |-> auths[a]]
  /\ removed \subseteq Auths
  /\ RemovedStaysRemoved

\* Update refuses an auth that is not there, so it brings none back.
LEMMA UpdateKeepsRemoved ==
  ASSUME RemovedInv, NEW a, NEW auth, Update(a, auth), UNCHANGED removed
  PROVE  RemovedInv'
BY DEF RemovedInv, RemovedStaysRemoved, Present, Update

\* No step but a new registration brings a removed auth back.
LEMMA RemovedStep == RemovedInv /\ [Next]_vars => RemovedInv'
<1> SUFFICES ASSUME RemovedInv, [Next]_vars PROVE RemovedInv'
  OBVIOUS
<1>1. CASE UNCHANGED <<auths, removed>>
  BY <1>1 DEF RemovedInv, RemovedStaysRemoved, Present
<1>2. ASSUME NEW r \in Refreshers, RefreshReturns(r) PROVE RemovedInv'
  <2>1. CASE RefreshSucceeds(r)
    BY <2>1, UpdateKeepsRemoved DEF RefreshSucceeds
  <2>2. CASE RefreshFails(r)
    BY <2>2 DEF RefreshFails, RemovedInv, RemovedStaysRemoved, Present
  <2>3. CASE RefreshCancelled(r)
    BY <1>1, <2>3 DEF RefreshCancelled, managerVars
  <2> QED BY <1>2, <2>1, <2>2, <2>3 DEF RefreshReturns
<1>3. ASSUME NEW e \in Editors, EditorStep(e) PROVE RemovedInv'
  <2>1. CASE EditorUpdates(e)
    BY <2>1, UpdateKeepsRemoved DEF EditorUpdates
  <2>2. CASE Unschedule(e)
    BY <1>1, <2>2 DEF Unschedule, managerVars
  <2>3. ASSUME NEW a \in Auths, Register(e, a) PROVE RemovedInv'
    BY <2>3 DEF Register, RemovedInv, RemovedStaysRemoved, Present
  <2>4. ASSUME NEW a \in Auths, EditorReads(e, a) PROVE RemovedInv'
    BY <1>1, <2>4 DEF EditorReads, managerVars
  <2>5. ASSUME NEW a \in Auths, Remove(e, a) PROVE RemovedInv'
    BY <2>5 DEF Remove, RemovedInv, RemovedStaysRemoved, Present
  <2> QED BY <1>3, <2>1, <2>2, <2>3, <2>4, <2>5 DEF EditorStep
<1>4. CASE MarkRefreshPending
  BY <1>4 DEF MarkRefreshPending, RemovedInv, RemovedStaysRemoved, Present
<1>5. CASE LoopStep /\ ~MarkRefreshPending
  BY <1>1, <1>5 DEF LoopStep, RebuildRead, RebuildWrite, ResetTimer, LoopWakes,
     TimerFires, HandleDue, RereadDue, AnnouncePending, SendJob, managerVars
<1>6. ASSUME NEW a \in Auths, NEW result \in Results, MarkResult(a, result)
      PROVE  RemovedInv'
  BY <1>6 DEF MarkResult, RemovedInv, RemovedStaysRemoved, Present
<1>7. CASE Tick \/ StartAutoRefresh \/ UNCHANGED vars
  BY <1>1, <1>7 DEF Tick, StartAutoRefresh, vars, managerVars
<1>8. ASSUME NEW p \in Appliers, ApplyStep(p) \/ Inspect(p) \/ Inspected(p)
      PROVE  RemovedInv'
  BY <1>1, <1>8 DEF ApplyStep, Inspect, Inspected, DrainDirty, ApplyRead, Store,
     managerVars
<1>9. ASSUME NEW r \in Announcers, AnnounceStep(r) PROVE RemovedInv'
  BY <1>1, <1>9 DEF AnnounceStep, Announce, WakeLoop, managerVars
<1>10. ASSUME NEW r \in Refreshers, NEW a \in Auths,
              TakeJob(r) \/ RequestAnswered(r) \/ RequestStarts(r, a) \/ Lock(r)
       PROVE  RemovedInv'
  BY <1>1, <1>10 DEF TakeJob, RequestAnswered, RequestStarts, Lock, managerVars
<1>11. ASSUME NEW r \in Refreshers, TakeJob(r) \/ RequestAnswered(r) \/ Lock(r)
       PROVE  RemovedInv'
  BY <1>1, <1>11 DEF TakeJob, RequestAnswered, Lock, managerVars
<1> QED
  BY <1>2, <1>3, <1>4, <1>5, <1>6, <1>7, <1>8, <1>9, <1>10, <1>11
     DEF Next, Appliers, Refreshers

\* However refreshes, edits and removals interleave, only Register brings back
\* an auth that was removed.
THEOREM RemovalIsFinal == Spec => []RemovedStaysRemoved
<1>1. Init => RemovedInv
  BY DEF Init, RemovedInv, RemovedStaysRemoved
<1>2. RemovedInv => RemovedStaysRemoved
  BY DEF RemovedInv
<1> QED BY <1>1, <1>2, RemovedStep, PTL DEF Spec
=============================================================================
