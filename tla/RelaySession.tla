----------------------------- MODULE RelaySession -----------------------------
(***************************************************************************)
(* One websocket session of the relay (internal/wsrelay/session.go) and the *)
(* requests that wait on it (http.go).  The pending map is a sync.Map and   *)
(* nothing else orders the requesters, the watchers of their contexts, the  *)
(* reader and cleanup: each step below is one operation on the map, on a    *)
(* channel or on the connection.                                           *)
(***************************************************************************)
EXTENDS Integers, Sequences, FiniteSets, Functions

CONSTANTS
  Requests, Streams,   \* the requests, and those of Stream
  Buffer,              \* of the channel of a pendingRequest
  MaxChunks,           \* bound: in all the answers together
  MaxCancels           \* bound: contexts that end

ASSUME RelayBounds ==
  /\ Streams \subseteq Requests /\ "none" \notin Requests
  /\ Buffer \in Nat \ {0} /\ {MaxChunks, MaxCancels} \subseteq Nat

VARIABLES
  session,             \* "open", then cleanup: "closing", "reset", "unplugged", "gone"
  pending, toVisit,    \* the map, and what Range has still to visit
  queue, open,         \* the channels
  place, cancelled,    \* of a requester, and its context
  sent, answer,        \* the chunks and the end the client sent
  got, streaming,      \* what the requester received
  reader, visitor,     \* the message in dispatch, the request in Range
  panicked,            \* a send on a closed channel
  lost                 \* history: a message found its buffer full
relayVars == <<session, pending, toVisit, queue, open, place, cancelled, sent, answer,
               got, streaming, reader, visitor, panicked, lost>>

Nothing == [id |-> "none", type |-> "none"]
Terminal == {"response", "end", "error"}

RelayInit ==
  /\ session = "open"
  /\ pending = {} /\ toVisit = {}
  /\ queue = [r \in Requests |-> <<>>] /\ open = {}
  /\ place = [r \in Requests |-> "new"] /\ cancelled = {}
  /\ sent = [r \in Requests |-> 0] /\ answer = [r \in Requests |-> "none"]
  /\ got = [r \in Requests |-> 0] /\ streaming = {}
  /\ reader = Nothing /\ visitor = Nothing
  /\ panicked = FALSE /\ lost = {}

Move(r, to) == place' = [place EXCEPT ![r] = to]

\* A select with a default: the message is dropped when the buffer is full.
Push(r, type) ==
  IF Len(queue[r]) < Buffer
  THEN queue' = [queue EXCEPT ![r] = Append(@, type)] /\ UNCHANGED lost
  ELSE lost' = lost \cup {r} /\ UNCHANGED queue

\* LoadAndDelete and close.
Unregister(r) ==
  /\ pending' = pending \ {r}
  /\ open' = IF r \in pending THEN open \ {r} ELSE open

\* cleanup closes the connection after it has replaced the map.
Wired == session \in {"open", "closing", "reset"}

answers == <<sent, answer, got, streaming>>
threads == <<reader, visitor, panicked, lost>>

-----------------------------------------------------------------------------
(* Manager.Send and session.request.                                       *)

\* A session that is being cleaned up is still found by Manager.Send.
Store(r) ==
  /\ place[r] = "new" /\ session # "gone"
  /\ pending' = pending \cup {r} /\ open' = open \cup {r}
  /\ Move(r, "load")
  /\ UNCHANGED <<session, toVisit, queue, cancelled, answers, threads>>

\* When cleanup has replaced the map, the assertion on what Load returned fails.
LoadStored(r) ==
  /\ place[r] = "load"
  /\ Move(r, IF r \in pending THEN "check" ELSE "aborted")
  /\ UNCHANGED <<session, pending, open, toVisit, queue, cancelled, answers, threads>>

\* Faulty variant: send does not look at closed.
CheckNothing(r) ==
  /\ place[r] = "check"
  /\ Move(r, "write")
  /\ UNCHANGED <<session, pending, open, toVisit, queue, cancelled, answers, threads>>

CheckClosed(r) ==
  /\ place[r] = "check"
  /\ IF session = "open" THEN Move(r, "write") /\ UNCHANGED <<pending, open>>
     ELSE Move(r, "unsent") /\ Unregister(r)
  /\ UNCHANGED <<session, toVisit, queue, cancelled, answers, threads>>

Write(r) ==
  /\ place[r] = "write"
  /\ \/ Move(r, "wait") /\ Wired /\ UNCHANGED <<pending, open>>
     \/ Move(r, "unsent") /\ Unregister(r)
  /\ UNCHANGED <<session, toVisit, queue, cancelled, answers, threads>>

\* The context of a request ends, at the latest when its handler returns, and later the
\* goroutine that watches it.
Cancel(r) ==
  /\ place[r] \in {"load", "check", "write", "wait", "done", "failed"} /\ r \notin cancelled
  /\ Cardinality(cancelled) < MaxCancels
  /\ cancelled' = cancelled \cup {r}
  /\ UNCHANGED <<session, pending, open, toVisit, queue, place, answers, threads>>

Watch(r) ==
  /\ r \in cancelled \cap pending
  /\ place[r] \in {"wait", "done", "failed"}
  /\ Unregister(r)
  /\ UNCHANGED <<session, toVisit, queue, place, cancelled, answers, threads>>

\* NonStream and Stream, until something ends the answer.  A buffered answer
\* in parts is complete for NonStream when its channel is closed.
Receive(r) ==
  LET message == IF queue[r] # <<>> THEN Head(queue[r]) ELSE "closed" IN
  /\ place[r] = "wait"
  /\ \/ /\ r \in cancelled
        /\ Move(r, "failed") /\ UNCHANGED <<queue, got, streaming>>
     \/ /\ queue[r] # <<>> \/ r \notin open
        /\ queue' = [queue EXCEPT ![r] = IF @ = <<>> THEN @ ELSE Tail(@)]
        /\ got' = [got EXCEPT ![r] = IF message = "chunk" THEN @ + 1 ELSE @]
        /\ streaming' = IF message = "chunk" THEN streaming \cup {r} ELSE streaming
        /\ Move(r, IF message = "chunk" THEN "wait"
                   ELSE IF \/ message = "error"
                           \/ message = "closed" /\ r \notin streaming \ Streams
                   THEN "failed" ELSE "done")
  /\ UNCHANGED <<session, pending, open, toVisit, cancelled, sent, answer, threads>>

-----------------------------------------------------------------------------
(* The reader: run and dispatch.  The client answers what was written: any *)
(* number of chunks, then the end, or one response, or an error.           *)

Read(r) ==
  /\ reader = Nothing /\ Wired
  /\ place[r] \in {"wait", "done", "failed"} /\ answer[r] = "none"
  /\ \/ /\ SumFunction(sent) < MaxChunks
        /\ sent' = [sent EXCEPT ![r] = @ + 1] /\ UNCHANGED answer
        /\ reader' = IF r \in pending THEN [id |-> r, type |-> "chunk"] ELSE Nothing
     \/ /\ UNCHANGED sent
        /\ \E type \in Terminal :
             /\ answer' = [answer EXCEPT ![r] = type]
             /\ (type = "response") <=> (type # "error" /\ sent[r] = 0)
             /\ reader' = IF r \in pending THEN [id |-> r, type |-> type] ELSE Nothing
  /\ UNCHANGED <<session, pending, open, toVisit, queue, place, cancelled, got,
                 streaming, visitor, panicked, lost>>

\* Faulty variant: an answer that ends is dropped with its channel.
DispatchUnsent(r) ==
  /\ reader.id = r
  /\ IF reader.type \in Terminal THEN Unregister(r) /\ UNCHANGED <<queue, lost>>
     ELSE Push(r, reader.type) /\ UNCHANGED <<pending, open>>
  /\ reader' = Nothing
  /\ UNCHANGED <<session, toVisit, place, cancelled, answers, visitor, panicked>>

Dispatch(r) ==
  /\ reader.id = r
  /\ IF r \notin open /\ reader.type # "finish"
     THEN panicked' = TRUE /\ UNCHANGED <<pending, open, queue, reader, lost>>
     ELSE /\ IF reader.type = "finish"
             THEN Unregister(r) /\ UNCHANGED <<queue, lost>>
             ELSE Push(r, reader.type) /\ UNCHANGED <<pending, open>>
          /\ reader' = IF reader.type \in Terminal THEN [reader EXCEPT !.type = "finish"]
                       ELSE Nothing
          /\ UNCHANGED panicked
  /\ UNCHANGED <<session, toVisit, place, cancelled, answers, visitor>>

-----------------------------------------------------------------------------
(* cleanup, by the reader, the heartbeat or Manager.Stop.                   *)

CloseSession ==
  /\ session = "open"
  /\ session' = "closing" /\ toVisit' = pending
  /\ UNCHANGED <<pending, open, queue, place, cancelled, answers, threads>>

\* Range: a request stored meanwhile may be visited, or not.
Visit(r) ==
  /\ session = "closing" /\ visitor = Nothing
  /\ r \in pending
  /\ visitor' = [id |-> r, type |-> "error"]
  /\ UNCHANGED <<session, pending, open, toVisit, queue, place, cancelled, answers,
                 reader, panicked, lost>>

Visited(r) ==
  /\ visitor.id = r
  /\ IF visitor.type = "error" /\ r \notin open
     THEN panicked' = TRUE /\ UNCHANGED <<open, queue, toVisit, visitor, lost>>
     ELSE /\ Push(r, "error")
          /\ open' = open \ {r} /\ toVisit' = toVisit \ {r}
          /\ visitor' = Nothing /\ UNCHANGED panicked
  /\ UNCHANGED <<session, pending, place, cancelled, answers, reader>>

Reset ==
  /\ session = "closing" /\ visitor = Nothing
  /\ toVisit \cap pending = {}
  /\ session' = "reset" /\ pending' = {} /\ toVisit' = {}
  /\ UNCHANGED <<open, queue, place, cancelled, answers, threads>>

Unplug ==
  /\ session = "reset" /\ session' = "unplugged"
  /\ UNCHANGED <<pending, open, toVisit, queue, place, cancelled, answers, threads>>

\* handleSessionClosed.
Forgotten ==
  /\ session = "unplugged" /\ session' = "gone"
  /\ UNCHANGED <<pending, open, toVisit, queue, place, cancelled, answers, threads>>

-----------------------------------------------------------------------------
RelayNext ==
  /\ ~panicked
  /\ \/ \E r \in Requests :
          \/ Store(r) \/ LoadStored(r) \/ CheckClosed(r) \/ Write(r) \/ Receive(r)
          \/ Cancel(r) \/ Watch(r) \/ Read(r) \/ Dispatch(r) \/ Visit(r) \/ Visited(r)
     \/ CloseSession \/ Reset \/ Unplug \/ Forgotten

RelaySpec == RelayInit /\ [][RelayNext]_relayVars

-----------------------------------------------------------------------------
RelayTypeOK ==
  /\ session \in {"open", "closing", "reset", "unplugged", "gone"}
  /\ pending \subseteq Requests /\ open \subseteq Requests /\ toVisit \subseteq Requests
  /\ \A r \in Requests : Len(queue[r]) <= Buffer /\ got[r] <= sent[r]

\* Nobody waits for a session that is over: a request that was written is
\* closed, whether its answer, its context, a failed send or cleanup came first.
\* (request, send, cleanup)
NobodyHangs ==
  session \notin {"open", "closing"} => \A r \in Requests : place[r] = "wait" => r \notin open

\* A requester returns what the client answered, a complete answer with every
\* chunk, unless a message was dropped on a full buffer, the request was
\* cancelled or the session closed meanwhile.  (dispatch, NonStream, Stream)
AnswersAreWhole ==
  \A r \in Requests : place[r] \in {"done", "failed"} =>
    \/ r \in lost \cup cancelled \/ session # "open"
    \/ IF place[r] = "done" THEN answer[r] \in {"response", "end"} /\ got[r] = sent[r]
       ELSE answer[r] = "error"
=============================================================================
