----------------------------- MODULE CompatState -----------------------------
(***************************************************************************)
(* The states of API keys that the OpenAI-compatible executor keeps in      *)
(* memory and writes behind (openai_compat_state/service.go).  An update    *)
(* makes a key dirty; the writer takes all dirty keys under the mutex and   *)
(* commits them outside; Close does so once more when the writer is gone.   *)
(* A service may be replaced, and requests may still hold the old one.      *)
(* States are numbered in the order of the updates.                         *)
(***************************************************************************)
EXTENDS Integers, FiniteSets

CONSTANTS
  Services, Keys,
  Starters, Requesters,   \* goroutines
  MaxStates               \* updates

NoService == "no service"

ASSUME CompatBounds ==
  MaxStates \in Nat /\ Starters \cap Requesters = {} /\ NoService \notin Services

VARIABLES
  default,          \* defaultService
  phase,            \* of a service
  states, dirty,    \* its maps; 0: no entry
  writing, closing, \* what a flush of the writer, or of Close, has taken
  db,               \* the table
  holding,          \* the service a goroutine got
  numbered,         \* updates so far
  newest_,          \* history: the last update of a key
  forsaken          \* history: the keys whose last update the code gives up
compatVars == <<default, phase, states, dirty, writing, closing, db, holding, numbered,
                newest_, forsaken>>

Clean == [k \in Keys |-> 0]
Taken(f) == {k \in Keys : f[k] # 0}

CompatInit ==
  /\ default = NoService
  /\ phase = [v \in Services |-> "unused"]
  /\ states = [v \in Services |-> Clean] /\ dirty = states
  /\ writing = states /\ closing = states /\ db = Clean
  /\ holding = [c \in Starters \cup Requesters |-> NoService]
  /\ numbered = 0 /\ newest_ = Clean /\ forsaken = {}

Alive == {v \in Services : phase[v] \in {"open", "stopping", "stopped", "last"}}
ToFlush(v, k) == dirty[v][k] # 0 \/ writing[v][k] # 0 \/ closing[v][k] # 0

memory_ == <<states, dirty, numbered, newest_>>

-----------------------------------------------------------------------------
(* Services: ensureOpenAICompatKeyState, InitDefault, CloseDefault.        *)

\* New loads the table, whatever another service has not written yet.  The one that
\* is the default by now may have come after its callers found none.
NewService(c, v) ==
  /\ holding[c] = NoService
  /\ phase[v] = "unused"
  /\ phase' = [phase EXCEPT ![v] = "open"]
  /\ states' = [states EXCEPT ![v] = db]
  /\ holding' = [holding EXCEPT ![c] = v]
  /\ UNCHANGED <<default, dirty, writing, closing, db, numbered, newest_, forsaken>>

\* InitDefault swaps the services under defaultMu; the previous one is closed.
SwapDefault(c) ==
  /\ c \in Starters /\ holding[c] # NoService
  /\ default' = holding[c]
  /\ phase' = IF default = NoService THEN phase
              ELSE [phase EXCEPT ![default] = "stopping"]
  /\ holding' = [holding EXCEPT ![c] = NoService]
  /\ UNCHANGED <<memory_, writing, closing, db, forsaken>>

\* CloseDefault, and the first half of Close.
CloseDefault ==
  /\ default # NoService
  /\ default' = NoService
  /\ phase' = [phase EXCEPT ![default] = "stopping"]
  /\ UNCHANGED <<memory_, writing, closing, db, holding, forsaken>>

-----------------------------------------------------------------------------
(* update: the executor gets the service first and updates it later.       *)

GetDefault(c) ==
  /\ c \in Requesters /\ holding[c] = NoService /\ default # NoService
  /\ holding' = [holding EXCEPT ![c] = default]
  /\ UNCHANGED <<default, phase, memory_, writing, closing, db, forsaken>>

\* Nobody writes what is updated after the last flush of its service, and a key
\* that another service has yet to write is a race between their writers.
UpdateState(c, k) ==
  /\ c \in Requesters /\ holding[c] # NoService /\ numbered < MaxStates
  /\ LET v == holding[c] IN
       /\ numbered' = numbered + 1
       /\ states' = [states EXCEPT ![v] = [@ EXCEPT ![k] = numbered']]
       /\ dirty' = [dirty EXCEPT ![v] = [@ EXCEPT ![k] = numbered']]
       /\ newest_' = [newest_ EXCEPT ![k] = numbered']
       /\ forsaken' = IF \/ phase[v] \in {"last", "closed"}
                         \/ \E u \in Services \ {v} : ToFlush(u, k)
                      THEN forsaken \cup {k} ELSE forsaken \ {k}
  /\ holding' = [holding EXCEPT ![c] = NoService]
  /\ UNCHANGED <<default, phase, writing, closing, db>>

-----------------------------------------------------------------------------
(* The writer, and flush.                                                  *)

\* The ticker wakes the writer with or without a message in wake; when done is
\* closed at the same moment, either is chosen.
WriterTakes(v) ==
  /\ phase[v] \in {"open", "stopping"} /\ writing[v] = Clean /\ dirty[v] # Clean
  /\ writing' = [writing EXCEPT ![v] = dirty[v]]
  /\ dirty' = [dirty EXCEPT ![v] = Clean]
  /\ UNCHANGED <<default, phase, states, numbered, newest_, closing, db, holding, forsaken>>

\* The transaction may fail, or one of its statements: nobody asks, and what it
\* took is not dirty any more.
Commit(v, taken) ==
  \E lost \in SUBSET Taken(taken) :
    /\ db' = [k \in Keys |-> IF k \in Taken(taken) \ lost THEN taken[k] ELSE db[k]]
    /\ forsaken' = forsaken \cup {k \in lost : dirty[v][k] = 0}

WriterCommits(v) ==
  /\ writing[v] # Clean
  /\ writing' = [writing EXCEPT ![v] = Clean]
  /\ Commit(v, writing[v])
  /\ UNCHANGED <<default, phase, memory_, closing, holding>>

\* Faulty variant: Close does not wait for stopped.
WriterReturnsEarly(v) ==
  /\ phase[v] = "stopping"
  /\ phase' = [phase EXCEPT ![v] = "stopped"]
  /\ UNCHANGED <<default, memory_, writing, closing, db, holding, forsaken>>

\* The writer finds done closed between two flushes.
WriterReturns(v) ==
  /\ phase[v] = "stopping" /\ writing[v] = Clean
  /\ phase' = [phase EXCEPT ![v] = "stopped"]
  /\ UNCHANGED <<default, memory_, writing, closing, db, holding, forsaken>>

\* The second half of Close: the last flush, then the database is closed.
CloseTakes(v) ==
  /\ phase[v] = "stopped"
  /\ phase' = [phase EXCEPT ![v] = "last"]
  /\ closing' = [closing EXCEPT ![v] = dirty[v]]
  /\ dirty' = [dirty EXCEPT ![v] = Clean]
  /\ UNCHANGED <<default, states, numbered, newest_, writing, db, holding, forsaken>>

CloseCommits(v) ==
  /\ phase[v] = "last"
  /\ phase' = [phase EXCEPT ![v] = "closed"]
  /\ closing' = [closing EXCEPT ![v] = Clean]
  /\ Commit(v, closing[v])
  /\ UNCHANGED <<default, memory_, writing, holding>>

CompatNext ==
  \/ \E c \in Starters : (\E v \in Services : NewService(c, v)) \/ SwapDefault(c)
  \/ CloseDefault
  \/ \E c \in Requesters : GetDefault(c) \/ \E k \in Keys : UpdateState(c, k)
  \/ \E v \in Services :
       \/ WriterTakes(v) \/ WriterCommits(v) \/ WriterReturns(v)
       \/ CloseTakes(v) \/ CloseCommits(v)

CompatSpec == CompatInit /\ [][CompatNext]_compatVars

-----------------------------------------------------------------------------
\* What the maps and the table hold are states that were made, and services that
\* have not been opened hold none to write.
CompatTypeOK ==
  LET Map == [Keys -> 0..numbered] IN
  /\ numbered \in 0..MaxStates
  /\ default \in Services \cup {NoService}
  /\ phase \in [Services -> {"unused", "open", "stopping", "stopped", "last", "closed"}]
  /\ {states, dirty, writing, closing} \subseteq [Services -> Map]
  /\ {db, newest_} \subseteq Map
  /\ holding \in [Starters \cup Requesters -> Services \cup {NoService}]
  /\ forsaken \subseteq Keys
  /\ \A v \in Services, k \in Keys : phase[v] = "unused" => ~ToFlush(v, k)

\* The newest state of a key is in the table or on its way there: dirty in a service
\* whose last flush is ahead, or in a flush.  In particular no flush writes an
\* older state over it, and nothing updated during a flush or before the last one
\* of Close is dropped.  Forsaken are the keys whose last update the code gives up:
\* its transaction or its statement failed, its service had begun its last flush,
\* or another service had still to write the key.
NewestIsKept ==
  \A k \in Keys \ forsaken :
    \/ db[k] = newest_[k]
    \/ \E v \in Alive : newest_[k] \in {dirty[v][k], writing[v][k], closing[v][k]}
=============================================================================
