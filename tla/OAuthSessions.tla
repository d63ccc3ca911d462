---------------------------- MODULE OAuthSessions ----------------------------
(***************************************************************************)
(* The logins that the management API runs (oauth_sessions.go and the       *)
(* Request...Token handlers of auth_files.go).  A session is a record under *)
(* one mutex; the goroutine of its flow looks at it from time to time, and  *)
(* cancels, polls of the status, expiry and flows of the same provider      *)
(* change it meanwhile.  Callback and device-code flows are alike here:     *)
(* both poll, exchange and save.                                            *)
(***************************************************************************)
EXTENDS FiniteSets

CONSTANTS
  States,         \* the session identifiers, "state" in the code
  Builtin,        \* providers whose flow is in auth_files.go
  Plugged,        \* providers of plugins
  Pollers,        \* calls of GetAuthStatus, which poll the plugins
  Unguarded,      \* builtin flows that do not look again before they save
  Solitary        \* builtin flows that complete their own session only

ASSUME ProvidersDiffer ==
  /\ Builtin \cap Plugged = {}
  /\ (Unguarded \cup Solitary) \subseteq Builtin
  /\ "none" \notin Builtin \cup Plugged \cup States

VARIABLES
  session_,       \* oauthSessionStore.sessions
  provider,       \* of a session
  flow,           \* where the goroutine of a session is
  poll,           \* where a call of GetAuthStatus is, and with which session
  credited,       \* history: the sessions that have saved a credential
  withdrawn,      \* history: cancelled while the flow had a check ahead of it
  interrupted     \* history: cancelled while the flow waited for or exchanged a code
oauthVars == <<session_, provider, flow, poll, credited, withdrawn, interrupted>>
cancels == <<withdrawn, interrupted>>
goroutines == <<flow, poll>>

Providers == Builtin \cup Plugged
NoPoll == [at |-> "none", of |-> "none"]

OAuthInit ==
  /\ session_ = [s \in States |-> "unknown"]
  /\ provider = [s \in States |-> "none"]
  /\ flow = [s \in States |-> "none"]
  /\ poll = [q \in Pollers |-> NoPoll]
  /\ credited = {} /\ withdrawn = {} /\ interrupted = {}

Pending(s) == session_[s] = "pending"
FlowTo(s, place) == flow' = [flow EXCEPT ![s] = place] /\ UNCHANGED poll
PollTo(q, place, s) == poll' = [poll EXCEPT ![q] = [at |-> place, of |-> s]] /\ UNCHANGED flow
PollEnds(q) == poll' = [poll EXCEPT ![q] = NoPoll] /\ UNCHANGED flow
MarkSession(s, mark) == session_' = [session_ EXCEPT ![s] = mark]

\* SetError and Complete leave alone what is completed or gone.
MarkLive(s, mark) ==
  IF session_[s] \in {"pending", "error"} THEN MarkSession(s, mark) ELSE UNCHANGED session_

SetError(s) == MarkLive(s, "error")
Fail(s) == SetError(s) /\ FlowTo(s, "over")

\* The flow looks at its session once more before it saves; for a plugin, the next poll.
HasCheckAhead(s) ==
  IF provider[s] \in Plugged THEN \A q \in Pollers : poll[q].of # s
  ELSE flow[s] \in IF provider[s] \in Unguarded THEN {"waiting"}
                   ELSE {"waiting", "polled", "exchanging", "guard"}

-----------------------------------------------------------------------------
(* The session store.                                                      *)

\* Register, or RegisterPlugin.  A handler that cannot start its callback server
\* returns and leaves the session behind.
StartLogin(s) ==
  /\ session_[s] = "unknown" /\ provider[s] = "none"
  /\ \E p \in Providers :
       /\ provider' = [provider EXCEPT ![s] = p]
       /\ \/ p \in Plugged /\ UNCHANGED goroutines
          \/ p \in Builtin /\ FlowTo(s, "waiting")
          \/ p \in Builtin /\ FlowTo(s, "over")
  /\ MarkSession(s, "pending")
  /\ UNCHANGED <<credited, cancels>>

\* CancelAuthSession answers that it cancelled a pending session only.
CancelLogin(s) ==
  /\ Pending(s)
  /\ MarkSession(s, "unknown")
  /\ withdrawn' = IF HasCheckAhead(s) THEN withdrawn \cup {s} ELSE withdrawn
  /\ interrupted' = IF flow[s] \in {"waiting", "polled", "exchanging"}
                    THEN interrupted \cup {s} ELSE interrupted
  /\ UNCHANGED <<provider, goroutines, credited>>

\* purgeExpiredLocked: every call purges what has expired.
ExpireSession(s) ==
  /\ session_[s] \in {"pending", "error", "completed"}
  /\ MarkSession(s, "unknown")
  /\ UNCHANGED <<provider, goroutines, credited, cancels>>

-----------------------------------------------------------------------------
(* The goroutine of a builtin flow.                                        *)

\* IsOAuthSessionPending in the loop that waits for the callback or the device.
PollSession(s) ==
  /\ flow[s] = "waiting"
  /\ FlowTo(s, IF Pending(s) THEN "polled" ELSE "over")
  /\ UNCHANGED <<session_, provider, credited, cancels>>

\* No answer yet; or a code; or the deadline, or an answer that is an error.
AnswerArrives(s) ==
  /\ flow[s] = "polled"
  /\ \/ FlowTo(s, "waiting") /\ UNCHANGED session_
     \/ FlowTo(s, "exchanging") /\ UNCHANGED session_
     \/ Fail(s)
  /\ UNCHANGED <<provider, credited, cancels>>

\* Faulty variant: every flow saves what it exchanged.
ExchangeUnguarded(s) ==
  /\ flow[s] = "exchanging"
  /\ \/ FlowTo(s, "saving") /\ UNCHANGED session_
     \/ Fail(s)
  /\ UNCHANGED <<provider, credited, cancels>>

\* The code is exchanged for tokens, and for Gemini a project is looked up.
ExchangeCode(s) ==
  /\ flow[s] = "exchanging"
  /\ \/ /\ FlowTo(s, IF provider[s] \in Unguarded THEN "saving" ELSE "guard")
        /\ UNCHANGED session_
     \/ Fail(s)
  /\ UNCHANGED <<provider, credited, cancels>>

\* guardOAuthSessionPendingForSave.
GuardForSave(s) ==
  /\ flow[s] = "guard"
  /\ FlowTo(s, IF Pending(s) THEN "saving" ELSE "over")
  /\ UNCHANGED <<session_, provider, credited, cancels>>

\* saveTokenRecord: the hook behind the save may fail when the file is there.
SaveCredential(s) ==
  /\ flow[s] = "saving"
  /\ credited' \in {credited, credited \cup {s}}
  /\ \/ s \in credited' /\ FlowTo(s, "completing") /\ UNCHANGED session_
     \/ Fail(s)
  /\ UNCHANGED <<provider, cancels>>

\* CompleteOAuthSession: a session that is gone is not brought back.
CompleteSession(s) ==
  /\ flow[s] = "completing"
  /\ MarkLive(s, "completed")
  /\ FlowTo(s, IF provider[s] \in Builtin \ Solitary THEN "others" ELSE "over")
  /\ UNCHANGED <<provider, credited, cancels>>

\* Faulty variant: the sessions of all providers are completed.
CompleteEverything(s) ==
  /\ flow[s] = "others"
  /\ session_' = [u \in States |->
       IF session_[u] \in {"pending", "error"} THEN "completed" ELSE session_[u]]
  /\ FlowTo(s, "over")
  /\ UNCHANGED <<provider, credited, cancels>>

\* CompleteOAuthSessionsByProvider: also the sessions of other flows that still
\* run, or that failed, count as done.
CompleteProvider(s) ==
  /\ flow[s] = "others"
  /\ session_' = [u \in States |->
       IF provider[u] = provider[s] /\ session_[u] \in {"pending", "error"} THEN "completed"
       ELSE session_[u]]
  /\ FlowTo(s, "over")
  /\ UNCHANGED <<provider, credited, cancels>>

-----------------------------------------------------------------------------
(* GetAuthStatus asks the plugin of a pending session.  The poll that finds *)
(* the login done saves at once; one that fails ends the session.  Polls    *)
(* overlap, of one session too, and only the first step looks at it.        *)

PollPlugin(q, s) ==
  /\ poll[q].at = "none"
  /\ provider[s] \in Plugged /\ Pending(s)
  /\ PollTo(q, "asked", s)
  /\ UNCHANGED <<session_, provider, credited, cancels>>

PluginAnswers(q, s) ==
  /\ poll[q] = [at |-> "asked", of |-> s]
  /\ \/ PollEnds(q) /\ UNCHANGED session_
     \/ PollTo(q, "saving", s) /\ UNCHANGED session_
     \/ PollEnds(q) /\ SetError(s)
  /\ UNCHANGED <<provider, credited, cancels>>

\* savePluginLoginRecords: what was saved is rolled back when a record fails, if it
\* can be deleted.
SavePlugin(q, s) ==
  /\ poll[q] = [at |-> "saving", of |-> s]
  /\ credited' \in {credited, credited \cup {s}}
  /\ \/ s \in credited' /\ PollTo(q, "completing", s) /\ UNCHANGED session_
     \/ PollEnds(q) /\ SetError(s)
  /\ UNCHANGED <<provider, cancels>>

CompletePlugin(q, s) ==
  /\ poll[q] = [at |-> "completing", of |-> s]
  /\ MarkLive(s, "completed") /\ PollEnds(q)
  /\ UNCHANGED <<provider, credited, cancels>>

OAuthNext ==
  \E s \in States :
    \/ StartLogin(s) \/ CancelLogin(s) \/ ExpireSession(s)
    \/ PollSession(s) \/ AnswerArrives(s) \/ ExchangeCode(s) \/ GuardForSave(s)
    \/ SaveCredential(s) \/ CompleteSession(s) \/ CompleteProvider(s)
    \/ \E q \in Pollers : \/ PollPlugin(q, s) \/ PluginAnswers(q, s)
                          \/ SavePlugin(q, s) \/ CompletePlugin(q, s)

OAuthSpec == OAuthInit /\ [][OAuthNext]_oauthVars

-----------------------------------------------------------------------------
OAuthTypeOK ==
  /\ session_ \in [States -> {"unknown", "pending", "error", "completed"}]
  /\ provider \in [States -> Providers \cup {"none"}]
  /\ flow \in [States -> {"none", "waiting", "polled", "exchanging", "guard", "saving",
                          "completing", "others", "over"}]
  /\ poll \in [Pollers -> {NoPoll} \cup [at : {"asked", "saving", "completing"}, of : States]]
  /\ {credited, withdrawn, interrupted} \subseteq SUBSET States

\* A login that was cancelled while its flow had still to look at the session
\* saves no credential, whatever the flow was doing then: it waits, exchanges the
\* code, or is about to save.  (A cancel between the last look and the save is
\* answered as done and saves all the same, and the Gemini flow looks last before
\* the exchange.)
CancelledInTimeSavesNothing == withdrawn \cap credited = {}

\* The documented form, which no flow is exempt from: a login that was cancelled
\* during the exchange of its code, or before it, saves no credential.
\* (guardOAuthSessionPendingForSave: "a cancel that races with token exchange or
\* metadata fetch cannot save credentials for a cancelled flow")
InterruptedSavesNothing == interrupted \cap credited = {}

\* A client is told "ok" for its session only when its login has saved a credential, or
\* another login of the same provider has, whose flow completes the sessions of all of
\* them; never for a plugin or a flow that completes its own session only, however polls
\* and flows overlap.  (That a rollback then takes the file away again is not seen here.)
OkMeansSaved ==
  \A s \in States : session_[s] = "completed" =>
    \/ s \in credited
    \/ /\ provider[s] \in Builtin \ Solitary
       /\ \E u \in credited : provider[u] = provider[s]
=============================================================================
