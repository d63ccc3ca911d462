--------------------------- MODULE AccountInspection ---------------------------
(***************************************************************************)
(* The inspection of the accounts (account_inspection_ssfun.go).  A run    *)
(* lists the accounts, probes each on one of its workers, and ends with    *)
(* the automatic actions its settings ask for.  It can be paused, resumed  *)
(* and stopped, and it times out; meanwhile and between runs users probe   *)
(* single accounts, refresh their tokens and carry out actions themselves. *)
(* All share one mutex, which nobody holds while a probe or an action is   *)
(* under way.  Left out: when the next run is due, the log, the stream to  *)
(* the browsers, and the error that a probe leaves in the credential.      *)
(***************************************************************************)
EXTENDS Integers, FiniteSets, TLC

CONSTANTS
  Inspected,      \* the accounts
  OneFile,        \* those of them that come from one file
  Parked,         \* the accounts whose credentials are disabled at first
  Probers,        \* the workers of a run
  Operators,      \* the calls of users that may be under way at once
  Settings,       \* the automatic actions: [invalid, request, limit, recovery]
  Answers,        \* what a probe may find: "healthy", "quota", "denied", "gone", "error"
  MaxStarts,      \* bound on the runs
  MaxByHand       \* bound on the calls of users

ASSUME InspectionAssumption ==
  /\ OneFile \subseteq Inspected /\ Parked \subseteq Inspected
  /\ MaxStarts \in Nat /\ MaxByHand \in Nat
  /\ Answers \subseteq {"healthy", "quota", "denied", "gone", "error"}
  /\ Settings \in [invalid : {"none", "disable", "delete"}, request : {"none", "disable", "delete"},
               limit : BOOLEAN, recovery : BOOLEAN]

VARIABLES
  runState,       \* status.State
  stage,          \* of the goroutine of the run
  ctx,            \* of the run: "live", "canceled" or "deadline"
  told,           \* the goroutine that waits for ctx has signalled the condition
  canceling,      \* stopRun holds the cancel function and has left the mutex
  runErr,         \* of executeInspection
  asListed,       \* the accounts that were disabled when the run listed them
  untaken,        \* the accounts no worker has taken
  spot,           \* where a worker is
  found,          \* results of executeInspection, by account
  deletedFiles,   \* of applyAutomaticActions, each by one of its accounts
  listed,         \* status.Results, by account
  summary,        \* status.Summary
  byHand,         \* where a call of a user is
  off, absent,    \* the credentials that are disabled, that are deleted
  runsBegun, asked  \* how many runs and calls of users there were
run == <<stage, ctx, told, canceling, runErr, asListed, untaken, spot, found, deletedFiles>>
shown == <<listed, summary>>
credentials == <<off, absent>>
inspectionVars == <<run, shown, credentials, runState, byHand, runsBegun, asked>>

NoResults == [a \in {} |-> {}]
Busy == runState \in {"running", "paused", "stopping"}
Siblings(a) == IF a \in OneFile THEN OneFile ELSE {a}
With(f, a, r) == [b \in {a} \cup DOMAIN f |-> IF b = a THEN r ELSE f[b]]
MoveTo(w, to) == spot' = [spot EXCEPT ![w] = to]

-----------------------------------------------------------------------------
(* Results and their summary.                                              *)

\* baseResult, with what the decision functions make of an answer.  The account
\* is disabled or not as of the moment it was read.
Result(answer, disabled) ==
  [answer |-> answer, disabled |-> disabled, executed |-> FALSE, failed |-> FALSE,
   action |-> CASE answer = "healthy" /\ disabled -> "enable"
                [] answer \in {"quota", "denied"} /\ ~disabled -> "disable"
                [] answer = "gone" -> "delete"
                [] OTHER -> "keep"]
Failed(r) == [answer |-> r.answer, disabled |-> r.disabled, executed |-> r.executed,
              failed |-> TRUE, action |-> r.action]
Errored(r) == r.answer \in {"error", "cut"}

Counters == {"sampled", "error", "keep", "disable", "enable", "delete",
             "disabled", "enabled", "deleted"}
Executed == ("disable" :> "disabled") @@ ("enable" :> "enabled") @@ ("delete" :> "deleted")
Counts(r, k) == \/ k = "sampled"
                \/ k = "error" /\ Errored(r)
                \/ k = r.action
                \/ r.executed /\ r.action # "keep" /\ k = Executed[r.action]
Zero == [k \in Counters |-> 0]
Summarize(results) ==
  [k \in Counters |-> Cardinality({a \in DOMAIN results : Counts(results[a], k)})]
Adjust(counts, r, delta) ==
  [k \in Counters |-> IF Counts(r, k) THEN counts[k] + delta ELSE counts[k]]

\* Faulty variant: the result that is replaced stays counted.
ReplaceCounted(a, r) == listed' = With(listed, a, r) /\ summary' = Adjust(summary, r, 1)

\* updateInspectionResultLocked with a summary that follows.
ReplaceResult(a, r) ==
  /\ listed' = With(listed, a, r)
  /\ summary' = IF a \in DOMAIN listed THEN Adjust(Adjust(summary, listed[a], -1), r, 1)
                ELSE Adjust(summary, r, 1)

-----------------------------------------------------------------------------
(* The run is started, paused, resumed and stopped.                        *)

InspectionInit ==
  /\ runState = "idle" /\ stage = "none" /\ ctx = "live" /\ told = FALSE /\ canceling = FALSE
  /\ runErr = "none" /\ asListed = {} /\ untaken = {} /\ spot = [w \in Probers |-> <<"done">>]
  /\ found = NoResults /\ deletedFiles = {} /\ listed = NoResults /\ summary = Zero
  /\ byHand = [u \in Operators |-> <<"idle">>] /\ off = Parked /\ absent = {}
  /\ runsBegun = 0 /\ asked = 0

\* A cancel of the last run that is still under way no longer concerns anyone.
StartRun ==
  /\ ~Busy /\ runsBegun < MaxStarts
  /\ runsBegun' = runsBegun + 1
  /\ runState' = "running" /\ stage' = "listing"
  /\ ctx' = "live" /\ told' = FALSE /\ canceling' = FALSE
  /\ runErr' = "none" /\ found' = NoResults /\ deletedFiles' = {}
  /\ listed' = NoResults /\ summary' = Zero
  /\ UNCHANGED <<asListed, untaken, spot, credentials, byHand, asked>>

\* Broadcast: who sleeps on the condition looks again.
Awake == [w \in Probers |-> IF spot[w] = <<"sleeping">> THEN <<"asking">> ELSE spot[w]]

PauseRun ==
  /\ Busy /\ runState # "stopping"
  /\ runState' = "paused"
  /\ UNCHANGED <<run, shown, credentials, byHand, runsBegun, asked>>

\* Faulty variant: the sleepers are not told.
ResumeRunSilently ==
  /\ runState = "paused"
  /\ runState' = "running"
  /\ UNCHANGED <<run, shown, credentials, byHand, runsBegun, asked>>

ResumeRun ==
  /\ runState = "paused"
  /\ runState' = "running" /\ spot' = Awake
  /\ UNCHANGED <<stage, ctx, told, canceling, runErr, asListed, untaken, found, deletedFiles,
                 shown, credentials, byHand, runsBegun, asked>>

\* The cancel function is called behind the unlock.
StopRun ==
  /\ Busy
  /\ runState' = "stopping" /\ spot' = Awake /\ canceling' = TRUE
  /\ UNCHANGED <<stage, ctx, told, runErr, asListed, untaken, found, deletedFiles,
                 shown, credentials, byHand, runsBegun, asked>>

CtxEnds(why) == ctx = "live" /\ ctx' = why

\* Either cancel is called, or the run has taken accountInspectionMaxRunDuration.
CtxOver ==
  /\ stage # "none"
  /\ \/ canceling /\ CtxEnds("canceled")
     \/ CtxEnds("deadline")
  /\ UNCHANGED <<stage, told, canceling, runErr, asListed, untaken, spot, found, deletedFiles,
                 runState, shown, credentials, byHand, runsBegun, asked>>

\* The goroutine that startRun leaves behind for those who sleep.
TellSleepers ==
  /\ ctx # "live" /\ ~told
  /\ told' = TRUE /\ spot' = Awake
  /\ UNCHANGED <<stage, ctx, canceling, runErr, asListed, untaken, found, deletedFiles,
                 runState, shown, credentials, byHand, runsBegun, asked>>

-----------------------------------------------------------------------------
(* executeInspection: the accounts are probed.                             *)

\* The accounts of the provider that is asked for, or a sample of them, whose files
\* are there.  There are no more workers than accounts.
ListAccounts ==
  /\ stage = "listing" /\ stage' = "probing"
  /\ asListed' = off /\ untaken' \in SUBSET (Inspected \ absent)
  /\ \E W \in SUBSET Probers :
       /\ \/ W = Probers /\ Cardinality(W) <= Cardinality(untaken')
          \/ W # Probers /\ Cardinality(W) = Cardinality(untaken')
       /\ spot' = [w \in Probers |-> IF w \in W THEN <<"asking">> ELSE <<"done">>]
  /\ UNCHANGED <<ctx, told, canceling, runErr, found, deletedFiles,
                 runState, shown, credentials, byHand, runsBegun, asked>>

\* Without a manager of credentials the run fails before it has found anything.
ListingFails ==
  /\ stage = "listing" /\ stage' = "probing"
  /\ runErr' = "failed"
  /\ UNCHANGED <<ctx, told, canceling, asListed, untaken, spot, found, deletedFiles,
                 runState, shown, credentials, byHand, runsBegun, asked>>

\* A worker that gives up: the first error is the one of the run.
GiveUp(w) == MoveTo(w, <<"done">>) /\ runErr' = IF runErr = "none" THEN ctx ELSE runErr

\* waitIfPaused.
Ask(w) ==
  /\ stage = "probing" /\ spot[w] = <<"asking">>
  /\ \/ ctx # "live" /\ GiveUp(w)
     \/ ctx = "live" /\ runState = "paused" /\ MoveTo(w, <<"sleeping">>) /\ UNCHANGED runErr
     \/ ctx = "live" /\ runState # "paused" /\ MoveTo(w, <<"cleared">>) /\ UNCHANGED runErr
  /\ UNCHANGED <<stage, ctx, told, canceling, asListed, untaken, found, deletedFiles,
                 runState, shown, credentials, byHand, runsBegun, asked>>

\* The cursor over the accounts, which may have been shuffled.
Take(w) ==
  /\ stage = "probing" /\ spot[w] = <<"cleared">>
  /\ \/ untaken = {} /\ MoveTo(w, <<"done">>) /\ UNCHANGED untaken
     \/ \E a \in untaken : untaken' = untaken \ {a} /\ MoveTo(w, <<"taken", a>>)
  /\ UNCHANGED <<stage, ctx, told, canceling, runErr, asListed, found, deletedFiles,
                 runState, shown, credentials, byHand, runsBegun, asked>>

Note(w, a, r) == found' = With(found, a, r) /\ MoveTo(w, <<"asking">>)

There(a) == a \notin absent
AsFound(a) == IF There(a) THEN off ELSE asListed

\* The limits on what is under way at one provider, and the refresh of a token
\* that is due: both give up when the context is over, and the account is kept
\* as it was listed.  Otherwise it is probed as it is now, if it is still there.
\* A worker that waits for a free place may find the place and the end of the
\* context ready at once, and takes either.
Refresh(w) ==
  /\ stage = "probing" /\ spot[w][1] = "taken"
  /\ LET a == spot[w][2]
     IN \/ ctx # "live" /\ GiveUp(w) /\ UNCHANGED found
        \/ ctx # "live" /\ Note(w, a, Result("cut", a \in asListed)) /\ UNCHANGED runErr
        \/ Note(w, a, Result("error", a \in asListed)) /\ UNCHANGED runErr
        \/ MoveTo(w, <<"probing", a, a \in AsFound(a)>>) /\ UNCHANGED <<found, runErr>>
  /\ UNCHANGED <<stage, ctx, told, canceling, asListed, untaken, deletedFiles,
                 runState, shown, credentials, byHand, runsBegun, asked>>

Probe(w) ==
  /\ stage = "probing" /\ spot[w][1] = "probing"
  /\ \E answer \in Answers \cup (IF ctx = "live" THEN {} ELSE {"cut"}) :
       Note(w, spot[w][2], Result(answer, spot[w][3]))
  /\ UNCHANGED <<stage, ctx, told, canceling, runErr, asListed, untaken, deletedFiles,
                 runState, shown, credentials, byHand, runsBegun, asked>>

WorkersDone == \A w \in Probers : spot[w] = <<"done">>

-----------------------------------------------------------------------------
(* The end of a run, with or without the automatic actions.                *)

\* Faulty variant: a run that is over carries on with what it found.
NeverOver == FALSE

\* The run is given up: what was found is kept, and nothing is done about it.
Over == runErr # "none" \/ ctx # "live"

ActOnResults ==
  /\ stage = "probing" /\ WorkersDone /\ ~Over
  /\ stage' = "acting" /\ untaken' = DOMAIN found
  /\ spot' = [w \in Probers |-> <<"choosing">>]
  /\ UNCHANGED <<ctx, told, canceling, runErr, asListed, found, deletedFiles,
                 runState, shown, credentials, byHand, runsBegun, asked>>

Ending(why) ==
  CASE why = "canceled" -> "stopped" [] why = "deadline" -> "partial" [] OTHER -> "failed"

EndRun ==
  /\ WorkersDone
  /\ \/ stage = "probing" /\ Over
        /\ runState' = Ending(IF runErr = "none" THEN ctx ELSE runErr)
     \/ stage = "acting" /\ runState' = "completed"
  /\ listed' = found /\ summary' = Summarize(found)
  /\ stage' = "none" /\ canceling' = FALSE
  /\ ctx' = IF ctx = "live" THEN "canceled" ELSE ctx
  /\ UNCHANGED <<told, runErr, asListed, untaken, spot, found, deletedFiles,
                 credentials, byHand, runsBegun, asked>>

\* autoActionForResult
OnError(r, action) == IF action = "disable" /\ r.disabled THEN "none" ELSE action
AutoAction(r) ==
  CASE r.answer \in {"denied", "gone"} -> OnError(r, Settings.invalid)
    [] Errored(r) -> OnError(r, Settings.request)
    [] r.answer = "quota" /\ r.action = "disable" /\ Settings.limit -> "disable"
    [] r.action = "enable" /\ Settings.recovery -> "enable"
    [] OTHER -> "none"

\* A worker has claimed the file of the account in order to delete it.
Claimed(a) == deletedFiles \cap Siblings(a) # {}

\* A worker of applyAutomaticActions takes a result, and claims the file it is
\* going to delete.
Choose(w) ==
  /\ stage = "acting" /\ spot[w] = <<"choosing">>
  /\ \/ untaken = {} /\ MoveTo(w, <<"done">>) /\ UNCHANGED <<untaken, found, deletedFiles>>
     \/ \E a \in untaken :
          LET action == AutoAction(found[a])
          IN /\ untaken' = untaken \ {a}
             /\ \/ action = "none" /\ UNCHANGED <<spot, found, deletedFiles>>
                \/ action = "delete" /\ Claimed(a)
                   /\ found' = [found EXCEPT ![a] = Failed(@)]
                   /\ UNCHANGED <<spot, deletedFiles>>
                \/ action = "delete" /\ ~Claimed(a)
                   /\ deletedFiles' = deletedFiles \cup {a}
                   /\ MoveTo(w, <<"executing", a, action>>) /\ UNCHANGED found
                \/ action \in {"disable", "enable"}
                   /\ MoveTo(w, <<"executing", a, action>>) /\ UNCHANGED <<found, deletedFiles>>
  /\ UNCHANGED <<stage, ctx, told, canceling, runErr, asListed,
                 runState, shown, credentials, byHand, runsBegun, asked>>

\* executeAction: done or not.  Nothing is done with a credential that is gone; and a
\* file that cannot be removed, or forgotten by the store, leaves the credential as
\* it is.  (Update has no error to return.)
Execute(a, action, done) ==
  /\ done => There(a)
  /\ There(a) /\ ~done => action = "delete"
  /\ off' = CASE ~done \/ action = "delete" -> off
              [] action = "disable" -> off \cup {a}
              [] action = "enable" -> off \ {a}
  /\ absent' = IF done /\ action = "delete" THEN absent \cup Siblings(a) ELSE absent

Acted(r, action) ==
  [answer |-> r.answer, executed |-> TRUE, failed |-> r.failed, action |-> action,
   disabled |-> (action = "disable") \/ (action = "delete" /\ r.disabled)]

ExecuteAuto(w) ==
  /\ stage = "acting" /\ spot[w][1] = "executing"
  /\ LET a == spot[w][2]  action == spot[w][3]
     IN \E done \in BOOLEAN :
          /\ Execute(a, action, done)
          /\ found' = [found EXCEPT ![a] = IF done THEN Acted(@, action) ELSE Failed(@)]
  /\ MoveTo(w, <<"choosing">>)
  /\ UNCHANGED <<stage, ctx, told, canceling, runErr, asListed, untaken, deletedFiles,
                 runState, shown, byHand, runsBegun, asked>>

-----------------------------------------------------------------------------
(* The users' own calls.                                                   *)

UserCalls(u) == byHand[u] = <<"idle">> /\ asked < MaxByHand /\ asked' = asked + 1
CallTo(u, to) == byHand' = [byHand EXCEPT ![u] = to]

\* executeManualActions with one item, whatever a run does: it acts, and then
\* enters the outcome in the list of results.
ActByHand(u) ==
  /\ UserCalls(u)
  /\ \E a \in Inspected, action \in {"disable", "enable", "delete"}, done \in BOOLEAN :
       /\ Execute(a, action, done)
       /\ CallTo(u, <<"acted", a, action, done, a \in off>>)
  /\ UNCHANGED <<run, shown, runState, runsBegun>>

\* applyManualActionResultLocked.  The item of a list that has been cleared is
\* entered anew, as it was sent.
Outcome(a, action, ok, disabled) ==
  LET sent == [Result("healthy", disabled) EXCEPT !.action = action]
      r == IF a \in DOMAIN listed THEN listed[a] ELSE sent
      now == [r EXCEPT !.executed = ok, !.failed = ~ok,
                       !.disabled = \/ ok /\ action = "disable"
                                    \/ (disabled /\ ~(ok /\ action = "enable"))]
  IN IF a \in DOMAIN listed /\ ok /\ action # "delete"
     THEN [now EXCEPT !.action = "keep", !.answer = IF Errored(r) THEN "healthy" ELSE @]
     ELSE now

EnterOutcome(u) ==
  /\ byHand[u][1] = "acted"
  /\ LET a == byHand[u][2]  action == byHand[u][3]  ok == byHand[u][4]
     IN IF action = "delete" /\ ok
        THEN /\ listed' = [b \in DOMAIN listed \ {a} |-> listed[b]]
             /\ summary' = IF a \in DOMAIN listed THEN Adjust(summary, listed[a], -1) ELSE summary
        ELSE ReplaceResult(a, Outcome(a, action, ok, byHand[u][5]))
  /\ CallTo(u, <<"idle">>)
  /\ UNCHANGED <<run, credentials, runState, runsBegun, asked>>

\* inspectOne begins between runs, and enters its result only if none is going on.
\* The account is read, its token is refreshed if it is due, and it is probed.
InspectOne(u) ==
  /\ UserCalls(u) /\ ~Busy
  /\ \E a \in Inspected \ absent : CallTo(u, <<"refreshing", a, a \in off>>)
  /\ UNCHANGED <<run, shown, credentials, runState, runsBegun>>

RefreshOne(u) ==
  /\ byHand[u][1] = "refreshing"
  /\ LET a == byHand[u][2]
     IN CallTo(u, <<"probing", a, IF There(a) THEN a \in off ELSE byHand[u][3]>>)
  /\ UNCHANGED <<run, shown, credentials, runState, runsBegun, asked>>

InspectedOne(u) ==
  /\ byHand[u][1] \in {"refreshing", "probing"}
  /\ LET a == byHand[u][2]
     IN \/ (Busy \/ a \notin DOMAIN listed) /\ UNCHANGED shown
        \/ ~Busy /\ a \in DOMAIN listed
           /\ \E answer \in IF byHand[u][1] = "probing" THEN Answers ELSE {"error"} :
                ReplaceResult(a, [Result(answer, byHand[u][3]) EXCEPT
                                    !.executed = listed[a].executed, !.failed = listed[a].failed])
  /\ CallTo(u, <<"idle">>)
  /\ UNCHANGED <<run, credentials, runState, runsBegun, asked>>

\* refreshTokenNow
RefreshTokenByHand(u) ==
  /\ UserCalls(u)
  /\ \E a \in Inspected \ absent, answer \in {"healthy", "error"} :
       CallTo(u, <<"refreshed", a, answer, a \in off>>)
  /\ UNCHANGED <<run, shown, credentials, runState, runsBegun>>

Reread(r, disabled) ==
  [answer |-> r.answer, disabled |-> disabled, executed |-> r.executed, failed |-> r.failed,
   action |-> r.action]

\* mergeTokenRefreshResultLocked: what was learned of an account that is listed
\* leaves the decision alone.
MergeRefresh(u) ==
  /\ byHand[u][1] = "refreshed"
  /\ LET a == byHand[u][2]  answer == byHand[u][3]  disabled == byHand[u][4]
     IN IF a \in DOMAIN listed
        THEN listed' = With(listed, a, Reread(listed[a], disabled)) /\ UNCHANGED summary
        ELSE ReplaceResult(a, [Result(answer, disabled) EXCEPT !.action = "keep"])
  /\ CallTo(u, <<"idle">>)
  /\ UNCHANGED <<run, credentials, runState, runsBegun, asked>>

-----------------------------------------------------------------------------
InspectionNext ==
  \/ StartRun \/ PauseRun \/ ResumeRun \/ StopRun \/ CtxOver \/ TellSleepers
  \/ ListAccounts \/ ListingFails \/ ActOnResults \/ EndRun
  \/ \E w \in Probers :
       Ask(w) \/ Take(w) \/ Refresh(w) \/ Probe(w) \/ Choose(w) \/ ExecuteAuto(w)
  \/ \E u \in Operators :
       ActByHand(u) \/ EnterOutcome(u) \/ InspectOne(u) \/ RefreshOne(u) \/ InspectedOne(u)
         \/ RefreshTokenByHand(u) \/ MergeRefresh(u)

InspectionSpec == InspectionInit /\ [][InspectionNext]_inspectionVars

-----------------------------------------------------------------------------
\* The state says that a run is going on exactly while one is.
InspectionTypeOK ==
  /\ runState \in {"idle", "running", "paused", "stopping",
                  "stopped", "partial", "failed", "completed"}
  /\ Busy <=> stage # "none"
  /\ DOMAIN found \subseteq Inspected /\ DOMAIN listed \subseteq Inspected
  /\ off \subseteq Inspected /\ absent \subseteq Inspected /\ untaken \subseteq Inspected

\* No worker sleeps through what it waits for (waitIfPaused): it sleeps only while
\* the run is paused, and when the context is over, whoever tells the sleepers is
\* still to come.  A worker that nobody wakes keeps its run, and every later one,
\* from ending.
SleepersAreWoken ==
  \A w \in Probers :
    spot[w] = <<"sleeping">> => runState = "paused" /\ (ctx # "live" => ~told)

\* No automatic action rests on a probe that was cut off when the run was stopped
\* or timed out (executeInspection, applyAutomaticActions): it would disable or
\* delete a credential that nothing is wrong with.
ActionsRestOnAnswers ==
  \A a \in DOMAIN found : found[a].executed => found[a].answer # "cut"

\* The summary counts what is listed, however runs, single inspections and manual
\* actions follow each other (adjustAccountInspectionSummaryForResult).
SummaryMatchesResults == summary = Summarize(listed)
=============================================================================
