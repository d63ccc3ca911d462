----------------------------- MODULE ServiceProofs -----------------------------
(***************************************************************************)
(* What is proved of the components beside the credentials: the websocket   *)
(* relay, the logins, the states of API keys, the queue of usage records,   *)
(* the inspection of accounts and the two caches of session names.  They    *)
(* share no state; each has a part of its own below.                        *)
(***************************************************************************)
EXTENDS RelaySession, OAuthSessions, CompatState, UsageQueue, AccountInspection,
        SessionCache, HomeSessionAlias, SequenceTheorems, FiniteSetTheorems, TLAPS

(***************************************************************************)
(* No request hangs on a session that is over, for any number of requests   *)
(* and any buffer.  The argument: while the session lives every open        *)
(* channel is in the map (Mapped); when cleanup starts it has every written *)
(* request still to visit, and none can be written any more (StillVisited); *)
(* so none of them is open when the map is replaced (NoneOpen).             *)
(***************************************************************************)

RequestPlaces == {"new", "load", "check", "write", "wait", "unsent", "aborted", "done",
                  "failed"}

Written(r) == place[r] \in {"write", "wait"}

Mapped == session \in {"open", "closing"} => open \subseteq pending
StillVisited == session = "closing" =>
                  \A r \in Requests : Written(r) /\ r \in open => r \in toVisit
NoneOpen == session \in {"reset", "unplugged", "gone"} =>
              \A r \in Requests : Written(r) => r \notin open
SessionTypes == /\ session \in {"open", "closing", "reset", "unplugged", "gone"}
                /\ place \in [Requests -> RequestPlaces]

RelayInv == SessionTypes /\ Mapped /\ StillVisited /\ NoneOpen

LEMMA RelayInitInv == RelayInit => RelayInv
BY DEF RelayInit, RelayInv, SessionTypes, RequestPlaces, Mapped, StillVisited, NoneOpen

\* Taking a request out of the map closes its channel and no other.
LEMMA UnregisterKeeps ==
  ASSUME Mapped, NEW r, Unregister(r), session \in {"open", "closing"}
  PROVE  open' \subseteq pending' /\ open' \subseteq open
BY DEF Mapped, Unregister

LEMMA RelayStep == RelayInv /\ [RelayNext]_relayVars => RelayInv'
<1> SUFFICES ASSUME RelayInv, [RelayNext]_relayVars PROVE RelayInv'
  OBVIOUS
<1> USE DEF RelayInv, SessionTypes, RequestPlaces, Written, Mapped, StillVisited, NoneOpen,
      Move, answers, threads
<1>1. CASE UNCHANGED relayVars
  BY <1>1 DEF relayVars
<1>2. ASSUME NEW r \in Requests, Store(r) PROVE RelayInv'
  BY <1>2 DEF Store
<1>3. ASSUME NEW r \in Requests, LoadStored(r) PROVE RelayInv'
  BY <1>3 DEF LoadStored
<1>4. ASSUME NEW r \in Requests, CheckClosed(r) PROVE RelayInv'
  BY <1>4 DEF CheckClosed, Unregister
<1>5. ASSUME NEW r \in Requests, Write(r) PROVE RelayInv'
  BY <1>5 DEF Write, Unregister
<1>6. ASSUME NEW r \in Requests, Receive(r) PROVE RelayInv'
  BY <1>6 DEF Receive
<1>7. ASSUME NEW r \in Requests, Cancel(r) \/ Read(r) PROVE RelayInv'
  BY <1>7 DEF Cancel, Read
<1>8. ASSUME NEW r \in Requests, Watch(r) PROVE RelayInv'
  BY <1>8 DEF Watch, Unregister
<1>9. ASSUME NEW r \in Requests, Dispatch(r) PROVE RelayInv'
  BY <1>9 DEF Dispatch, Unregister, Push
<1>10. ASSUME NEW r \in Requests, Visit(r) \/ Visited(r) PROVE RelayInv'
  BY <1>10 DEF Visit, Visited, Push
<1>11. CASE CloseSession
  BY <1>11 DEF CloseSession
<1>12. CASE Reset
  BY <1>12 DEF Reset
<1>13. CASE Unplug \/ Forgotten
  BY <1>13 DEF Unplug, Forgotten
<1> QED
  BY <1>1, <1>2, <1>3, <1>4, <1>5, <1>6, <1>7, <1>8, <1>9, <1>10, <1>11, <1>12,
     <1>13 DEF RelayNext

\* A request that was written is closed by the time the session has replaced its map,
\* whatever the requests, the reader, their contexts and cleanup do meanwhile.
\* (request, send, cleanup)
THEOREM NobodyHangsOnARelay == RelaySpec => []NobodyHangs
<1>1. RelayInv => NobodyHangs
  BY DEF RelayInv, SessionTypes, NoneOpen, Written, NobodyHangs
<1> QED
  BY <1>1, RelayInitInv, RelayStep, PTL DEF RelaySpec

-----------------------------------------------------------------------------
(***************************************************************************)
(* Answers are whole, for any number of requests, chunks and any buffer.    *)
(* The argument: a request that nothing disturbs has not been asked for yet *)
(* (Unasked), or each of its messages is with the reader or in its channel, *)
(* where only the last can be the end (Underway), or it got all of them     *)
(* (Returned).                                                              *)
(***************************************************************************)

Undisturbed(r) == session = "open" /\ r \notin lost \cup cancelled

Messages == {"chunk"} \cup Terminal
Ended(r) == queue[r] # <<>> /\ queue[r][Len(queue[r])] # "chunk"

MessageTypes ==
  /\ queue \in [Requests -> Seq(Messages)]
  /\ sent \in [Requests -> Nat] /\ got \in [Requests -> Nat]
  /\ answer \in [Requests -> {"none"} \cup Terminal]
  /\ reader \in {Nothing} \cup [id : Requests, type : Messages \cup {"finish"}]
  /\ session = "open" => visitor = Nothing

Unasked(r) ==
  /\ sent[r] = 0 /\ got[r] = 0 /\ answer[r] = "none" /\ queue[r] = <<>> /\ reader.id # r
  /\ place[r] # "new" => r \in pending \cap open

Underway(r) ==
  /\ \A i \in 1..Len(queue[r]) : queue[r][i] # "chunk" => i = Len(queue[r])
  /\ IF Ended(r)
     THEN /\ answer[r] = queue[r][Len(queue[r])]
          /\ reader.id = r => reader.type = "finish"
          /\ got[r] + Len(queue[r]) - 1 = sent[r]
     ELSE /\ r \in pending \cap open
          /\ \/ reader.id # r /\ answer[r] = "none" /\ got[r] + Len(queue[r]) = sent[r]
             \/ /\ reader.id = r /\ reader.type = "chunk" /\ answer[r] = "none"
                /\ got[r] + Len(queue[r]) + 1 = sent[r]
             \/ /\ reader.id = r /\ reader.type = answer[r] /\ answer[r] \in Terminal
                /\ got[r] + Len(queue[r]) = sent[r]

Returned(r) ==
  IF place[r] = "done" THEN answer[r] \in {"response", "end"} /\ got[r] = sent[r]
  ELSE answer[r] = "error"

Whole(r) ==
  /\ place[r] \in {"new", "load", "check", "write"} => Unasked(r)
  /\ place[r] = "wait" => Underway(r)
  /\ place[r] \in {"done", "failed"} => Returned(r)

AnswerInv == MessageTypes /\ \A r \in Requests : Undisturbed(r) => Whole(r)

LEMMA AnswerInitInv == RelayInit => AnswerInv
BY RelayBounds DEF RelayInit, AnswerInv, MessageTypes, Undisturbed, Whole, Unasked, Nothing

LEMMA PushedIsMessage ==
  ASSUME MessageTypes, NEW r \in Requests, NEW type \in Messages, Push(r, type)
  PROVE  queue' \in [Requests -> Seq(Messages)]
<1>1. queue[r] \in Seq(Messages)
  BY DEF MessageTypes
<1>2. Append(queue[r], type) \in Seq(Messages)
  BY <1>1, AppendProperties
<1>3. queue' = queue \/ queue' = [queue EXCEPT ![r] = Append(queue[r], type)]
  BY DEF Push
<1> QED
  BY <1>2, <1>3 DEF MessageTypes

LEMMA MessageTypesStep ==
  ASSUME RelayInv, MessageTypes, [RelayNext]_relayVars
  PROVE  MessageTypes'
<1> USE DEF MessageTypes, answers, threads, Move
<1>1. CASE UNCHANGED relayVars
  BY <1>1 DEF relayVars
<1>2. ASSUME NEW r \in Requests,
             Store(r) \/ LoadStored(r) \/ CheckClosed(r) \/ Write(r) \/ Cancel(r) \/ Watch(r)
      PROVE  MessageTypes'
  BY <1>2 DEF Store, LoadStored, CheckClosed, Write, Cancel, Watch
<1>3. ASSUME NEW r \in Requests, Receive(r) PROVE MessageTypes'
  <2>1. queue' \in [Requests -> Seq(Messages)]
    <3>1. queue[r] \in Seq(Messages)
      OBVIOUS
    <3>2. queue[r] # <<>> => Tail(queue[r]) \in Seq(Messages)
      BY <3>1, HeadTailProperties
    <3>3. \/ queue' = queue
          \/ queue[r] # <<>> /\ queue' = [queue EXCEPT ![r] = Tail(queue[r])]
      <4>1. CASE UNCHANGED queue
        BY <4>1
      <4>2. CASE queue' = [queue EXCEPT ![r] = IF @ = <<>> THEN @ ELSE Tail(@)]
        BY <4>2
      <4> QED
        BY <1>3, <4>1, <4>2 DEF Receive
    <3> QED
      BY <3>2, <3>3
  <2>2. got' \in [Requests -> Nat]
    <3>1. \/ got' = got \/ got' = [got EXCEPT ![r] = got[r] + 1]
          \/ got' = [got EXCEPT ![r] = got[r]]
      BY <1>3 DEF Receive
    <3> QED
      BY <3>1
  <2> QED
    BY <1>3, <2>1, <2>2 DEF Receive
<1>4. ASSUME NEW r \in Requests, Read(r) PROVE MessageTypes'
  <2>1. sent' = sent \/ sent' = [sent EXCEPT ![r] = sent[r] + 1]
    BY <1>4 DEF Read
  <2>2. answer' = answer \/ \E type \in Terminal : answer' = [answer EXCEPT ![r] = type]
    BY <1>4 DEF Read
  <2>3. \/ reader' = Nothing
        \/ \E type \in Messages : reader' = [id |-> r, type |-> type]
    BY <1>4 DEF Read, Messages
  <2>4. session' = session /\ queue' = queue /\ got' = got /\ visitor' = visitor
    BY <1>4 DEF Read
  <2>5. sent' \in [Requests -> Nat] /\ answer' \in [Requests -> {"none"} \cup Terminal]
    <3>0. sent \in [Requests -> Nat] /\ sent[r] + 1 \in Nat
      OBVIOUS
    <3>1. sent' \in [Requests -> Nat]
      BY <2>1, <3>0
    <3>2. answer' \in [Requests -> {"none"} \cup Terminal]
      BY <2>2
    <3> QED
      BY <3>1, <3>2
  <2> QED
    BY <2>3, <2>4, <2>5
<1>5. ASSUME NEW r \in Requests, Dispatch(r) PROVE MessageTypes'
  <2>1. reader' = reader \/ reader' = Nothing \/ reader' = [reader EXCEPT !.type = "finish"]
    BY <1>5 DEF Dispatch
  <2>2. reader \in [id : Requests, type : Messages \cup {"finish"}]
    BY <1>5, RelayBounds DEF Dispatch, Nothing
  <2>3. queue' \in [Requests -> Seq(Messages)]
    BY <1>5, <2>2, PushedIsMessage DEF Dispatch
  <2> QED
    BY <1>5, <2>1, <2>2, <2>3 DEF Dispatch
<1>6. ASSUME NEW r \in Requests, Visit(r) \/ Visited(r) PROVE MessageTypes'
  <2>1. session' # "open"
    BY <1>6, RelayBounds DEF Visit, Visited, Nothing
  <2>2. "error" \in Messages
    BY DEF Messages, Terminal
  <2> QED
    BY <1>6, <2>1, <2>2, PushedIsMessage DEF Visit, Visited
<1>7. CASE CloseSession \/ Reset \/ Unplug \/ Forgotten
  BY <1>7 DEF CloseSession, Reset, Unplug, Forgotten
<1> QED
  BY <1>1, <1>2, <1>3, <1>4, <1>5, <1>6, <1>7 DEF RelayNext

\* What is disturbed stays disturbed.
LEMMA DisturbedStays ==
  ASSUME NEW r \in Requests, [RelayNext]_relayVars, Undisturbed(r)'
  PROVE  Undisturbed(r)
<1> USE DEF Undisturbed, answers, threads
<1>1. session' = "open" => session = "open"
  BY DEF relayVars, RelayNext, Store, LoadStored, CheckClosed, Write, Cancel, Watch, Receive,
     Read, Dispatch, Visit, Visited, CloseSession, Reset, Unplug, Forgotten
<1>2. cancelled \subseteq cancelled'
  BY DEF relayVars, RelayNext, Store, LoadStored, CheckClosed, Write, Cancel, Watch, Receive,
     Read, Dispatch, Visit, Visited, CloseSession, Reset, Unplug, Forgotten
<1>3. lost \subseteq lost'
  BY DEF relayVars, RelayNext, Store, LoadStored, CheckClosed, Write, Cancel, Watch, Receive,
     Read, Dispatch, Visit, Visited, CloseSession, Reset, Unplug, Forgotten, Push
<1> QED
  BY <1>1, <1>2, <1>3

\* The step of another request disturbs neither the messages nor the channel of this one.
LEMMA OthersKeep ==
  ASSUME SessionTypes, MessageTypes, session = "open",
         NEW r \in Requests, Whole(r), NEW q \in Requests, q # r,
         \/ Store(q) \/ LoadStored(q) \/ CheckClosed(q) \/ Write(q) \/ Receive(q)
         \/ Cancel(q) \/ Watch(q) \/ Read(q) \/ Dispatch(q) \/ Visit(q) \/ Visited(q)
  PROVE  Whole(r)'
<1> USE DEF SessionTypes, MessageTypes, answers, threads, Move
<1>1. /\ place'[r] = place[r] /\ sent'[r] = sent[r] /\ got'[r] = got[r]
      /\ answer'[r] = answer[r] /\ queue'[r] = queue[r]
  <2>1. CASE Store(q) \/ LoadStored(q) \/ CheckClosed(q) \/ Write(q) \/ Cancel(q) \/ Watch(q)
    BY <2>1 DEF Store, LoadStored, CheckClosed, Write, Cancel, Watch
  <2>2. CASE Receive(q)
    BY <2>2 DEF Receive
  <2>3. CASE Read(q)
    BY <2>3 DEF Read
  <2>4. CASE Dispatch(q) \/ Visit(q) \/ Visited(q)
    BY <2>4 DEF Dispatch, Visit, Visited, Push
  <2> QED
    BY <2>1, <2>2, <2>3, <2>4
<1>2. r \in pending \cap open => r \in pending' \cap open'
  BY DEF Store, LoadStored, CheckClosed, Write, Cancel, Watch, Receive, Read, Dispatch, Visit,
     Visited, Unregister
<1>3. reader'.id = r <=> reader.id = r
  BY RelayBounds DEF Store, LoadStored, CheckClosed, Write, Cancel, Watch, Receive, Read,
     Dispatch, Visit, Visited, Nothing
<1>4. reader.id = r => reader' = reader
  BY RelayBounds DEF Store, LoadStored, CheckClosed, Write, Cancel, Watch, Receive, Read,
     Dispatch, Visit, Visited, Nothing
<1>5. Unasked(r) => Unasked(r)'
  BY <1>1, <1>2, <1>3 DEF Unasked
<1>6. Returned(r) => Returned(r)'
  BY <1>1 DEF Returned
<1>7. Ended(r)' = Ended(r)
  BY <1>1 DEF Ended
<1>8. Underway(r) => Underway(r)'
  <2>1. CASE Ended(r)
    BY <1>1, <1>3, <1>4, <1>7, <2>1 DEF Underway
  <2>2. CASE ~Ended(r)
    BY <1>1, <1>2, <1>3, <1>4, <1>7, <2>2 DEF Underway
  <2> QED
    BY <2>1, <2>2
<1> QED
  BY <1>1, <1>5, <1>6, <1>8 DEF Whole

LEMMA OwnStep ==
  ASSUME SessionTypes, MessageTypes, NEW r \in Requests, Undisturbed(r), Whole(r),
         Undisturbed(r)',
         \/ Store(r) \/ LoadStored(r) \/ CheckClosed(r) \/ Write(r)
         \/ Cancel(r) \/ Watch(r) \/ Visit(r) \/ Visited(r)
  PROVE  Whole(r)'
<1> USE DEF SessionTypes, MessageTypes, answers, threads, Move, Undisturbed, Whole
<1>1. CASE Store(r) \/ LoadStored(r) \/ CheckClosed(r)
  BY <1>1 DEF Store, LoadStored, CheckClosed, Unasked
<1>2. CASE Write(r)
  <2>1. Unasked(r)
    BY <1>2 DEF Write
  <2>2. CASE place'[r] = "wait"
    <3>1. /\ queue'[r] = <<>> /\ sent'[r] = 0 /\ got'[r] = 0 /\ answer'[r] = "none"
          /\ reader'.id # r /\ r \in pending' \cap open'
      BY <1>2, <2>1, <2>2 DEF Write, Unasked
    <3>2. ~Ended(r)'
      BY <3>1 DEF Ended
    <3>3. Underway(r)'
      BY <3>1, <3>2 DEF Underway
    <3> QED
      BY <2>2, <3>3
  <2> QED
    BY <1>2, <2>2 DEF Write
<1>3. CASE Cancel(r) \/ Watch(r)
  BY <1>3 DEF Cancel, Watch
<1>4. CASE Visit(r) \/ Visited(r)
  BY <1>4, RelayBounds DEF Visit, Visited, Nothing
<1> QED
  BY <1>1, <1>2, <1>3, <1>4

\* The requester takes the messages in the order in which they were sent.
LEMMA ReceiveStep ==
  ASSUME SessionTypes, MessageTypes, NEW r \in Requests, Undisturbed(r), Whole(r), Receive(r)
  PROVE  Whole(r)'
<1> DEFINE q == queue[r]
<1>1. /\ place[r] = "wait" /\ Underway(r) /\ r \notin cancelled
      /\ q \in Seq(Messages)
  BY DEF Receive, Whole, Undisturbed, MessageTypes
<1>2. q # <<>>
  BY <1>1 DEF Receive, Underway, Ended
<1>3. /\ queue'[r] = Tail(q)
      /\ got'[r] = IF Head(q) = "chunk" THEN got[r] + 1 ELSE got[r]
      /\ place'[r] = IF Head(q) = "chunk" THEN "wait"
                     ELSE IF Head(q) = "error" THEN "failed" ELSE "done"
      /\ sent' = sent /\ answer' = answer /\ reader' = reader
      /\ pending' = pending /\ open' = open
  <2>1. Head(q) # "closed"
    BY <1>1, <1>2 DEF Messages, Terminal
  <2> QED
    BY <1>1, <1>2, <2>1 DEF Receive, Move, answers, threads, SessionTypes, MessageTypes
<1> DEFINE n == Len(q)
           tail == Tail(q)
<1>4. /\ n \in Nat \ {0} /\ Head(q) = q[1] /\ tail \in Seq(Messages) /\ Len(tail) = n - 1
      /\ \A i \in 1..n - 1 : tail[i] = q[i + 1]
  BY <1>1, <1>2
<1>5. /\ \A i \in 1..n : q[i] # "chunk" => i = n
      /\ Ended(r) <=> q[n] # "chunk"
      /\ Ended(r)' <=> tail # <<>> /\ tail[Len(tail)] # "chunk"
      /\ got[r] \in Nat /\ sent[r] \in Nat
  BY <1>1, <1>2, <1>3 DEF Underway, Ended, MessageTypes
<1> HIDE DEF q, n, tail
<1>6. CASE Head(q) = "chunk"
  <2>1. \A i \in 1..Len(tail) : tail[i] # "chunk" => i = Len(tail)
    <3> SUFFICES ASSUME NEW i \in 1..Len(tail), tail[i] # "chunk" PROVE i = Len(tail)
      OBVIOUS
    <3>1. Len(tail) = n - 1 /\ i \in 1..n - 1 /\ i + 1 \in 1..n
      BY <1>4
    <3>2. q[i + 1] # "chunk"
      BY <3>1, <1>4
    <3>3. i + 1 = n
      BY <3>1, <3>2, <1>5
    <3> QED
      BY <3>1, <3>3
  <2>2. tail = <<>> <=> n = 1
    BY <1>4
  <2>3. n > 1 => tail[Len(tail)] = q[n]
    BY <1>4
  <2>4. Ended(r)' <=> Ended(r)
    BY <1>4, <1>5, <1>6, <2>2, <2>3
  <2>5. got'[r] = got[r] + 1 /\ Len(queue'[r]) = n - 1 /\ queue'[r] = tail
    BY <1>3, <1>4, <1>6 DEF tail
  <2>6. CASE Ended(r)
    <3>1. n > 1
      BY <1>4, <1>5, <1>6, <2>6
    <3>2. /\ answer[r] = q[n] /\ got[r] + n - 1 = sent[r]
          /\ reader.id = r => reader.type = "finish"
      BY <1>1, <2>6 DEF Underway, q, n
    <3>3. answer'[r] = queue'[r][Len(queue'[r])] /\ got'[r] + Len(queue'[r]) - 1 = sent'[r]
      <4>1. answer' = answer /\ sent' = sent
        BY <1>3
      <4>2. got'[r] + Len(queue'[r]) - 1 = sent[r]
        BY <1>4, <1>5, <2>5, <3>2
      <4>3. queue'[r][Len(queue'[r])] = q[n]
        BY <1>4, <2>3, <2>5, <3>1
      <4> QED
        BY <3>2, <4>1, <4>2, <4>3
    <3>4. Underway(r)'
      BY <1>3, <2>1, <2>4, <2>5, <2>6, <3>2, <3>3 DEF Underway
    <3> QED
      BY <1>3, <1>6, <3>4 DEF Whole
  <2>7. CASE ~Ended(r)
    <3>1. got'[r] + Len(queue'[r]) = got[r] + n
      BY <1>4, <1>5, <2>5
    <3>2. Underway(r)'
      BY <1>1, <1>3, <2>1, <2>4, <2>5, <2>7, <3>1 DEF Underway, q, n
    <3> QED
      BY <1>3, <1>6, <3>2 DEF Whole
  <2> QED
    BY <2>6, <2>7
<1>7. CASE Head(q) # "chunk"
  <2>1. n = 1 /\ Ended(r)
    BY <1>4, <1>5, <1>7
  <2>2. answer[r] = q[n] /\ got[r] + n - 1 = sent[r]
    BY <1>1, <2>1 DEF Underway, q, n
  <2>3. /\ answer[r] = Head(q) /\ got[r] = sent[r] /\ Head(q) \in Messages
    <3>1. Head(q) \in Messages
      BY <1>1, <1>2, HeadTailProperties DEF q
    <3>2. answer[r] = Head(q) /\ got[r] = sent[r]
      BY <1>4, <1>5, <2>1, <2>2
    <3> QED
      BY <3>1, <3>2
  <2>4. got'[r] = got[r] /\ UNCHANGED <<answer, sent>>
    BY <1>3, <1>7
  <2>5. place'[r] = IF Head(q) = "error" THEN "failed" ELSE "done"
    BY <1>3, <1>7
  <2>6. Returned(r)'
    BY <1>7, <2>3, <2>4, <2>5 DEF Returned, Messages, Terminal
  <2> QED
    BY <2>5, <2>6 DEF Whole
<1> QED
  BY <1>6, <1>7

LEMMA ReadStep ==
  ASSUME SessionTypes, MessageTypes, NEW r \in Requests, Undisturbed(r), Whole(r), Read(r)
  PROVE  Whole(r)'
<1>1. /\ reader = Nothing /\ answer[r] = "none" /\ place' = place
      /\ UNCHANGED <<pending, open, queue, got>>
  BY DEF Read
<1>2. place[r] = "wait" /\ Underway(r)
  BY <1>1 DEF Read, Whole, Returned
<1>3. reader.id # r /\ answer[r] \notin Terminal
  BY <1>1, RelayBounds DEF Nothing, Terminal
<1>4. ~Ended(r)
  <2> SUFFICES ASSUME Ended(r) PROVE FALSE
    OBVIOUS
  <2>1. queue[r] \in Seq(Messages) /\ Len(queue[r]) \in 1..Len(queue[r])
    BY DEF Ended, MessageTypes
  <2>2. queue[r][Len(queue[r])] \in Messages
    BY <2>1
  <2> QED
    BY <1>2, <1>3, <2>2 DEF Underway, Ended, Messages
<1>5. r \in pending /\ got[r] + Len(queue[r]) = sent[r]
  BY <1>2, <1>3, <1>4 DEF Underway
<1>6. ~Ended(r)'
  BY <1>1, <1>4 DEF Ended
<1>7. /\ Len(queue[r]) \in Nat /\ got[r] \in Nat /\ sent[r] \in Nat
  BY DEF MessageTypes
<1>8. Underway(r)'
  <2>1. CASE sent' = [sent EXCEPT ![r] = @ + 1] /\ UNCHANGED answer
             /\ reader' = [id |-> r, type |-> "chunk"]
    BY <1>1, <1>2, <1>4, <1>5, <1>6, <1>7, <2>1 DEF Underway, MessageTypes
  <2>2. ASSUME UNCHANGED sent, NEW type \in Terminal,
               answer' = [answer EXCEPT ![r] = type], reader' = [id |-> r, type |-> type]
        PROVE  Underway(r)'
    BY <1>1, <1>2, <1>4, <1>5, <1>6, <1>7, <2>2 DEF Underway, MessageTypes
  <2> QED
    BY <1>5, <2>1, <2>2 DEF Read
<1> QED
  BY <1>1, <1>2, <1>8 DEF Whole

LEMMA DispatchStep ==
  ASSUME SessionTypes, MessageTypes, NEW r \in Requests, Undisturbed(r), Whole(r),
         Dispatch(r), Undisturbed(r)'
  PROVE  Whole(r)'
<1>1. /\ reader.id = r /\ place' = place
      /\ UNCHANGED <<sent, got, answer>>
  BY DEF Dispatch, answers
<1>2. place[r] \notin {"new", "load", "check", "write"}
  BY <1>1 DEF Whole, Unasked
<1>3. CASE place[r] # "wait"
  BY <1>1, <1>2, <1>3 DEF Whole, Returned
<1>4. CASE place[r] = "wait"
  <2>1. Underway(r) /\ queue[r] \in Seq(Messages) /\ got[r] \in Nat /\ sent[r] \in Nat
    BY <1>4 DEF Whole, MessageTypes
  <2>2. CASE reader.type = "finish"
    <3>1. Ended(r)
      BY <1>1, <2>1, <2>2 DEF Underway, Terminal, MessageTypes
    <3>2. UNCHANGED queue /\ reader' = Nothing
      BY <2>2 DEF Dispatch, Terminal
    <3> QED
      BY <1>1, <1>4, <2>1, <3>1, <3>2, RelayBounds DEF Whole, Underway, Ended, Nothing
  <2>3. CASE reader.type # "finish"
    <3>1. ~Ended(r) /\ r \in pending \cap open
      BY <1>1, <2>1, <2>3 DEF Underway
    <3>2. /\ UNCHANGED <<pending, open>>
          /\ queue'[r] = Append(queue[r], reader.type)
      BY <2>3, <3>1 DEF Dispatch, Push, Undisturbed, MessageTypes
    <3>3. /\ reader.type \in Messages
          /\ reader' = IF reader.type \in Terminal THEN [reader EXCEPT !.type = "finish"]
                       ELSE Nothing
      BY <1>1, <2>3, <3>1, RelayBounds DEF Dispatch, MessageTypes, Nothing
    <3> DEFINE n == Len(queue[r])
    <3>4. /\ n \in Nat /\ Len(queue'[r]) = n + 1 /\ queue'[r][n + 1] = reader.type
          /\ \A i \in 1..n : queue'[r][i] = queue[r][i]
          /\ queue'[r] # <<>>
      BY <2>1, <3>2, <3>3
    <3>5. \A i \in 1..n : queue[r][i] = "chunk"
      BY <2>1, <3>1, <3>4 DEF Underway, Ended
    <3>6. \A i \in 1..Len(queue'[r]) : queue'[r][i] # "chunk" => i = Len(queue'[r])
      BY <3>4, <3>5
    <3>7. Ended(r)' <=> reader.type # "chunk"
      BY <3>4 DEF Ended
    <3>8. CASE reader.type = "chunk"
      <4>1. reader' = Nothing /\ answer[r] = "none" /\ got[r] + n + 1 = sent[r]
        BY <1>1, <2>1, <3>1, <3>3, <3>8 DEF Underway, Terminal
      <4>2. reader'.id # r
        BY <4>1, RelayBounds DEF Nothing
      <4>3. got'[r] + Len(queue'[r]) = sent'[r]
        BY <1>1, <2>1, <3>4, <4>1
      <4>4. Underway(r)'
        BY <1>1, <3>1, <3>2, <3>6, <3>7, <3>8, <4>1, <4>2, <4>3 DEF Underway
      <4> QED
        BY <1>1, <1>4, <4>4 DEF Whole
    <3>9. CASE reader.type # "chunk"
      <4>1. reader'.type = "finish" /\ answer[r] = reader.type /\ got[r] + n = sent[r]
        BY <1>1, <2>1, <3>1, <3>3, <3>9 DEF Underway, Messages, MessageTypes, Nothing
      <4>2. Underway(r)'
        BY <1>1, <2>1, <3>4, <3>6, <3>7, <3>9, <4>1 DEF Underway
      <4> QED
        BY <1>1, <1>4, <4>2 DEF Whole
    <3> QED
      BY <3>8, <3>9
  <2> QED
    BY <2>2, <2>3
<1> QED
  BY <1>3, <1>4

LEMMA AnswerStep == RelayInv /\ AnswerInv /\ [RelayNext]_relayVars => AnswerInv'
<1> SUFFICES ASSUME RelayInv, AnswerInv, [RelayNext]_relayVars PROVE AnswerInv'
  OBVIOUS
<1>1. SessionTypes /\ MessageTypes /\ MessageTypes'
  BY MessageTypesStep DEF RelayInv, AnswerInv
<1>2. ASSUME NEW r \in Requests, Undisturbed(r)' PROVE Whole(r)'
  <2>1. Undisturbed(r) /\ Whole(r) /\ session = "open"
    BY <1>2, DisturbedStays DEF AnswerInv, Undisturbed
  <2>2. CASE UNCHANGED relayVars
    BY <2>1, <2>2 DEF relayVars, Whole, Unasked, Underway, Returned, Ended
  <2>3. CASE CloseSession \/ Reset \/ Unplug \/ Forgotten
    BY <1>2, <2>3 DEF CloseSession, Reset, Unplug, Forgotten, Undisturbed
  <2>4. ASSUME NEW q \in Requests,
               \/ Store(q) \/ LoadStored(q) \/ CheckClosed(q) \/ Write(q) \/ Receive(q)
               \/ Cancel(q) \/ Watch(q) \/ Read(q) \/ Dispatch(q) \/ Visit(q) \/ Visited(q)
        PROVE  Whole(r)'
    <3>1. CASE q # r
      BY <1>1, <2>1, <2>4, <3>1, OthersKeep
    <3>2. CASE q = r
      BY <1>1, <1>2, <2>1, <2>4, <3>2, OwnStep, ReceiveStep, ReadStep, DispatchStep
    <3> QED
      BY <3>1, <3>2
  <2> QED
    BY <2>2, <2>3, <2>4 DEF RelayNext
<1> QED
  BY <1>1, <1>2 DEF AnswerInv

\* A requester returns what the client answered, whatever the other requests and the
\* reader do, for any number of chunks and any buffer - unless a message for it was
\* dropped on a full buffer, its context was cancelled, or the session is closing or
\* closed.  (dispatch, NonStream, Stream)
THEOREM AnswersStayWhole == RelaySpec => []AnswersAreWhole
<1>1. AnswerInv => AnswersAreWhole
  BY DEF AnswerInv, Undisturbed, Whole, Returned, AnswersAreWhole
<1> QED
  BY <1>1, RelayInitInv, RelayStep, AnswerInitInv, AnswerStep, PTL DEF RelaySpec

-----------------------------------------------------------------------------
(* What a requester gets is bounded by what the client sent, and what waits *)
(* for it by its buffer, also when messages are dropped, the request is     *)
(* cancelled or the session ends.                                          *)

Chunks(messages) == Cardinality({i \in 1..Len(messages) : messages[i] = "chunk"})
InHand(r) == IF reader.id = r /\ reader.type = "chunk" THEN 1 ELSE 0

Buffered ==
  /\ pending \subseteq Requests /\ open \subseteq Requests /\ toVisit \subseteq Requests
  /\ \A r \in Requests : /\ Len(queue[r]) <= Buffer
                         /\ got[r] + Chunks(queue[r]) + InHand(r) <= sent[r]

LEMMA ChunksAreCounted ==
  ASSUME NEW messages \in Seq(Messages)
  PROVE  /\ IsFiniteSet({i \in 1..Len(messages) : messages[i] = "chunk"})
         /\ Chunks(messages) \in Nat
<1> DEFINE places == {i \in 1..Len(messages) : messages[i] = "chunk"}
<1>1. Len(messages) \in Nat
  BY LenProperties
<1>2. IsFiniteSet(1..Len(messages))
  BY <1>1, FS_Interval
<1>3. IsFiniteSet(places)
  BY <1>2, FS_Subset
<1> QED
  BY <1>3, FS_CardinalityType DEF Chunks

LEMMA ChunksOfMore ==
  ASSUME NEW messages \in Seq(Messages), NEW type \in Messages
  PROVE  Chunks(Append(messages, type)) = Chunks(messages) + (IF type = "chunk" THEN 1 ELSE 0)
<1> DEFINE n == Len(messages)
           more == Append(messages, type)
           before == {i \in 1..n : messages[i] = "chunk"}
           after == {i \in 1..Len(more) : more[i] = "chunk"}
<1>1. /\ n \in Nat /\ Len(more) = n + 1 /\ more[n + 1] = type
      /\ \A i \in 1..n : more[i] = messages[i]
  BY AppendProperties, LenProperties
<1>2. IsFiniteSet(before) /\ Cardinality(before) \in Nat /\ Chunks(messages) = Cardinality(before)
  BY ChunksAreCounted DEF Chunks
<1>3. Chunks(more) = Cardinality(after)
  BY DEF Chunks
<1>4. CASE type = "chunk"
  <2>1. after = before \cup {n + 1} /\ n + 1 \notin before
    BY <1>1, <1>4
  <2>2. Cardinality(after) = Cardinality(before) + 1
    BY <1>2, <2>1, FS_AddElement
  <2> QED
    BY <1>2, <1>3, <1>4, <2>2
<1>5. CASE type # "chunk"
  <2>1. after = before
    BY <1>1, <1>5
  <2>2. Chunks(more) = Chunks(messages) /\ Chunks(messages) \in Nat
    BY <1>2, <1>3, <2>1
  <2> HIDE DEF more, before, after
  <2>3. Chunks(more) = Chunks(messages) + 0
    BY <2>2
  <2> QED
    BY <1>5, <2>3 DEF more
<1> QED
  BY <1>4, <1>5

LEMMA ChunksOfRest ==
  ASSUME NEW messages \in Seq(Messages), messages # <<>>
  PROVE  Chunks(Tail(messages)) + (IF Head(messages) = "chunk" THEN 1 ELSE 0)
           <= Chunks(messages)
<1> DEFINE n == Len(messages)
           rest == Tail(messages)
           all == {i \in 1..n : messages[i] = "chunk"}
           left == {i \in 1..Len(rest) : rest[i] = "chunk"}
           shift == [i \in left |-> i + 1]
<1>1. /\ n \in Nat \ {0} /\ Len(rest) = n - 1 /\ rest \in Seq(Messages)
      /\ \A i \in 1..Len(rest) : rest[i] = messages[i + 1]
      /\ Head(messages) = messages[1]
  BY HeadTailProperties, LenProperties, EmptySeq
<1>2. /\ IsFiniteSet(all) /\ Chunks(messages) = Cardinality(all)
      /\ Chunks(rest) = Cardinality(left)
  BY ChunksAreCounted DEF Chunks
<1>3. /\ IsFiniteSet(all \ {1}) /\ Cardinality(all) \in Nat
      /\ Cardinality(all \ {1}) = IF 1 \in all THEN Cardinality(all) - 1 ELSE Cardinality(all)
  BY <1>2, FS_RemoveElement, FS_CardinalityType
<1>4. shift \in Injection(left, all \ {1})
  <2>1. \A i \in left : i + 1 \in all \ {1}
    BY <1>1
  <2>2. \A i, j \in left : shift[i] = shift[j] => i = j
    BY <1>1
  <2> QED
    BY <2>1, <2>2 DEF Injection, IsInjective
<1>5. Cardinality(left) <= Cardinality(all \ {1})
  <2>1. \E f : f \in Injection(left, all \ {1})
    BY <1>4
  <2>2. IsFiniteSet(all \ {1})
    BY <1>3
  <2> HIDE DEF all, left, shift
  <2> QED
    BY <2>1, <2>2, FS_Injection
<1>6. Head(messages) = "chunk" <=> 1 \in all
  BY <1>1
<1>7. Cardinality(left) \in Nat
  BY <1>1, <1>2, ChunksAreCounted
<1> HIDE DEF all, left
<1> QED
  BY <1>2, <1>3, <1>5, <1>6, <1>7

LEMMA BufferedAtStart == RelayInit => Buffered
<1> SUFFICES ASSUME RelayInit PROVE Buffered
  OBVIOUS
<1>1. Chunks(<<>>) = 0
  <2>1. {i \in 1..Len(<<>>) : <<>>[i] = "chunk"} = {}
    BY EmptySeq
  <2> QED
    BY <2>1, FS_EmptySet DEF Chunks
<1>2. \A r \in Requests : InHand(r) = 0
  BY RelayBounds DEF RelayInit, InHand, Nothing
<1> QED
  BY <1>1, <1>2, RelayBounds, EmptySeq DEF RelayInit, Buffered

LEMMA PushFits ==
  ASSUME MessageTypes, Buffered, NEW r \in Requests, NEW type \in Messages, Push(r, type)
  PROVE  /\ \A q \in Requests : Len(queue'[q]) <= Buffer
         /\ \A q \in Requests : q # r => queue'[q] = queue[q]
         /\ Chunks(queue'[r]) <= Chunks(queue[r]) + (IF type = "chunk" THEN 1 ELSE 0)
<1>1. /\ queue[r] \in Seq(Messages) /\ Len(queue[r]) \in Nat /\ Len(queue[r]) <= Buffer
      /\ Chunks(queue[r]) \in Nat
  BY LenProperties, ChunksAreCounted DEF MessageTypes, Buffered
<1>2. CASE queue' = queue
  BY <1>1, <1>2 DEF Buffered
<1>3. CASE Len(queue[r]) < Buffer /\ queue' = [queue EXCEPT ![r] = Append(queue[r], type)]
  <2>1. queue'[r] = Append(queue[r], type) /\ \A q \in Requests : q # r => queue'[q] = queue[q]
    BY <1>3 DEF MessageTypes
  <2>2. Len(queue'[r]) = Len(queue[r]) + 1
    BY <1>1, <2>1, AppendProperties
  <2>3. Len(queue'[r]) <= Buffer
    BY <1>1, <1>3, <2>2, RelayBounds
  <2>4. Chunks(queue'[r]) = Chunks(queue[r]) + (IF type = "chunk" THEN 1 ELSE 0)
    BY <1>1, <2>1, ChunksOfMore
  <2>5. Chunks(queue'[r]) <= Chunks(queue[r]) + (IF type = "chunk" THEN 1 ELSE 0)
    BY <1>1, <2>4
  <2> QED
    BY <2>1, <2>3, <2>5 DEF Buffered
<1> QED
  BY <1>2, <1>3 DEF Push

LEMMA BufferedStep == MessageTypes /\ Buffered /\ [RelayNext]_relayVars => Buffered'
<1> SUFFICES ASSUME MessageTypes, Buffered, [RelayNext]_relayVars PROVE Buffered'
  OBVIOUS
<1> DEFINE Maps == /\ pending' \subseteq Requests /\ open' \subseteq Requests
                   /\ toVisit' \subseteq Requests
           Flow == \A r \in Requests :
                     /\ Len(queue'[r]) <= Buffer
                     /\ got'[r] + Chunks(queue'[r]) + InHand(r)' <= sent'[r]
<1>1. UNCHANGED <<queue, got, sent, reader>> => Flow
  BY DEF Buffered, InHand
<1>2. \A r \in Requests :
         /\ queue[r] \in Seq(Messages) /\ got[r] \in Nat /\ sent[r] \in Nat
         /\ Chunks(queue[r]) \in Nat /\ Len(queue[r]) <= Buffer
         /\ got[r] + Chunks(queue[r]) + InHand(r) <= sent[r]
  BY ChunksAreCounted DEF MessageTypes, Buffered
<1> SUFFICES Maps /\ Flow
  BY DEF Buffered
<1>3. CASE RelayNext
  <2>1. ASSUME NEW r \in Requests,
               \/ Store(r) \/ LoadStored(r) \/ CheckClosed(r) \/ Write(r) \/ Cancel(r)
               \/ Watch(r) \/ Visit(r)
        PROVE  Maps /\ Flow
    <3>1. UNCHANGED <<queue, got, sent, reader>>
      BY <2>1 DEF Store, LoadStored, CheckClosed, Write, Cancel, Watch, Visit, answers, threads
    <3>2. Maps
      BY <2>1 DEF Store, LoadStored, CheckClosed, Write, Cancel, Watch, Visit, Unregister,
         Buffered
    <3> QED
      BY <1>1, <3>1, <3>2
  <2>2. CASE CloseSession \/ Reset \/ Unplug \/ Forgotten
    <3>1. UNCHANGED <<queue, got, sent, reader>>
      BY <2>2 DEF CloseSession, Reset, Unplug, Forgotten, answers, threads
    <3>2. Maps
      BY <2>2 DEF CloseSession, Reset, Unplug, Forgotten, Buffered
    <3> QED
      BY <1>1, <3>1, <3>2
  <2>3. ASSUME NEW r \in Requests, Receive(r) PROVE Maps /\ Flow
    <3>1. Maps
      BY <2>3 DEF Receive, Buffered
    <3>2. UNCHANGED sent /\ UNCHANGED reader
      BY <2>3 DEF Receive, threads
    <3>3. \/ UNCHANGED <<queue, got>>
          \/ /\ queue' = [queue EXCEPT ![r] = IF @ = <<>> THEN @ ELSE Tail(@)]
             /\ got' = [got EXCEPT ![r] = IF queue[r] # <<>> /\ Head(queue[r]) = "chunk"
                                         THEN @ + 1 ELSE @]
      BY <2>3 DEF Receive
    <3>4. CASE UNCHANGED <<queue, got>>
      BY <1>1, <3>1, <3>2, <3>4
    <3>5. CASE /\ queue' = [queue EXCEPT ![r] = IF @ = <<>> THEN @ ELSE Tail(@)]
               /\ got' = [got EXCEPT ![r] = IF queue[r] # <<>> /\ Head(queue[r]) = "chunk"
                                           THEN @ + 1 ELSE @]
      <4>1. \A q \in Requests : q # r => queue'[q] = queue[q] /\ got'[q] = got[q]
        BY <3>5 DEF MessageTypes
      <4>2. CASE queue[r] = <<>>
        <5>1. queue'[r] = queue[r] /\ got'[r] = got[r]
          BY <3>5, <4>2 DEF MessageTypes
        <5> QED
          BY <1>2, <3>1, <3>2, <4>1, <5>1 DEF InHand
      <4>3. CASE queue[r] # <<>>
        <5> DEFINE one == IF Head(queue[r]) = "chunk" THEN 1 ELSE 0
        <5>1. queue'[r] = Tail(queue[r]) /\ got'[r] = got[r] + one
          BY <1>2, <3>5, <4>3 DEF MessageTypes
        <5>2. /\ Tail(queue[r]) \in Seq(Messages) /\ Len(Tail(queue[r])) = Len(queue[r]) - 1
              /\ Len(queue[r]) \in Nat
          BY <1>2, <4>3, HeadTailProperties, LenProperties
        <5>3. Chunks(Tail(queue[r])) + one <= Chunks(queue[r]) /\ Chunks(Tail(queue[r])) \in Nat
          BY <1>2, <4>3, <5>2, ChunksOfRest, ChunksAreCounted
        <5>4. InHand(r) \in Nat /\ InHand(r)' = InHand(r) /\ one \in Nat
          BY <3>2 DEF InHand
        <5> HIDE DEF one
        <5>5. got'[r] + Chunks(queue'[r]) + InHand(r)' <= sent'[r]
          <6> DEFINE had == got[r]
                     before == Chunks(queue[r])
                     after == Chunks(Tail(queue[r]))
                     hand == InHand(r)
                     whole == sent[r]
          <6>1. /\ had \in Nat /\ before \in Nat /\ after \in Nat /\ hand \in Nat
                /\ whole \in Nat /\ one \in Nat
                /\ had + before + hand <= whole /\ after + one <= before
            BY <1>2, <5>3, <5>4
          <6>2. /\ got'[r] = had + one /\ Chunks(queue'[r]) = after
                /\ InHand(r)' = hand /\ sent'[r] = whole
            BY <3>2, <5>1, <5>4
          <6> HIDE DEF had, before, after, hand, whole
          <6>3. had + one + after + hand <= whole
            BY <6>1
          <6> QED
            BY <6>2, <6>3
        <5>6. Len(queue'[r]) <= Buffer
          BY <1>2, <5>1, <5>2, RelayBounds
        <5> QED
          BY <1>2, <3>1, <3>2, <4>1, <5>5, <5>6 DEF InHand
      <4> QED
        BY <4>2, <4>3
    <3> QED
      BY <3>3, <3>4, <3>5
  <2>4. ASSUME NEW r \in Requests, Read(r) PROVE Maps /\ Flow
    <3>1. Maps /\ UNCHANGED <<queue, got>> /\ reader = Nothing
      BY <2>4 DEF Read, Buffered
    <3>2. \A q \in Requests : InHand(q) = 0
      BY <3>1, RelayBounds DEF InHand, Nothing
    <3>3. \/ /\ sent' = [sent EXCEPT ![r] = sent[r] + 1]
             /\ reader' \in {Nothing, [id |-> r, type |-> "chunk"]}
          \/ /\ sent' = sent
             /\ \E type \in Terminal : reader' \in {Nothing, [id |-> r, type |-> type]}
      BY <2>4 DEF Read
    <3>4. \A q \in Requests : /\ InHand(q)' \in {0, 1}
                              /\ InHand(q)' = 1 => q = r /\ sent'[r] = sent[r] + 1
                              /\ sent'[q] \in {sent[q], sent[q] + 1}
      BY <3>3, RelayBounds DEF InHand, Nothing, Terminal, MessageTypes
    <3> QED
      BY <1>2, <3>1, <3>2, <3>4
  <2>5. ASSUME NEW r \in Requests, Dispatch(r) PROVE Maps /\ Flow
    <3>1. Maps /\ UNCHANGED <<got, sent>> /\ reader.id = r
      BY <2>5 DEF Dispatch, Unregister, answers, Buffered
    <3>2. CASE UNCHANGED <<queue, reader>>
      BY <1>1, <3>1, <3>2
    <3>3. CASE reader.type = "finish" /\ UNCHANGED queue /\ reader' = Nothing
      <4>1. \A q \in Requests : InHand(q) = 0 /\ InHand(q)' = 0
        BY <3>1, <3>3, RelayBounds DEF InHand, Nothing
      <4> QED
        BY <1>2, <3>1, <3>3, <4>1
    <3>4. CASE /\ reader.type # "finish" /\ Push(r, reader.type)
               /\ reader' \in {Nothing, [reader EXCEPT !.type = "finish"]}
      <4>1. reader.type \in Messages /\ reader \in [id : Requests, type : Messages \cup {"finish"}]
        BY <3>1, <3>4, RelayBounds DEF MessageTypes, Nothing
      <4>2. \A q \in Requests : InHand(q)' = 0
        BY <3>4, <4>1, RelayBounds DEF InHand, Nothing
      <4>3. /\ \A q \in Requests : Len(queue'[q]) <= Buffer
            /\ \A q \in Requests : q # r => queue'[q] = queue[q]
            /\ Chunks(queue'[r]) <= Chunks(queue[r]) + InHand(r)
        BY <3>1, <3>4, <4>1, PushFits DEF InHand
      <4>4. queue' \in [Requests -> Seq(Messages)]
        BY <3>4, <4>1, PushedIsMessage
      <4>5. Chunks(queue'[r]) \in Nat
        BY <4>4, ChunksAreCounted
      <4>6. \A q \in Requests : InHand(q) \in Nat
        BY DEF InHand
      <4>7. got'[r] + Chunks(queue'[r]) + InHand(r)' <= sent'[r]
        BY <1>2, <3>1, <4>2, <4>3, <4>5, <4>6
      <4>8. \A q \in Requests \ {r} : got'[q] + Chunks(queue'[q]) + InHand(q)' <= sent'[q]
        BY <1>2, <3>1, <4>2, <4>3, <4>6
      <4> QED
        BY <3>1, <4>3, <4>7, <4>8
    <3>5. \/ UNCHANGED <<queue, reader>>
          \/ reader.type = "finish" /\ UNCHANGED queue /\ reader' = Nothing
          \/ /\ reader.type # "finish" /\ Push(r, reader.type)
             /\ reader' \in {Nothing, [reader EXCEPT !.type = "finish"]}
      <4>1. CASE r \notin open /\ reader.type # "finish"
        BY <2>5, <4>1 DEF Dispatch
      <4>2. CASE reader.type = "finish"
        BY <2>5, <4>2 DEF Dispatch, Terminal
      <4>3. CASE r \in open /\ reader.type # "finish"
        BY <2>5, <4>3 DEF Dispatch
      <4> QED
        BY <4>1, <4>2, <4>3
    <3> QED
      BY <3>2, <3>3, <3>4, <3>5
  <2>6. ASSUME NEW r \in Requests, Visited(r) PROVE Maps /\ Flow
    <3>1. Maps /\ UNCHANGED <<got, sent, reader>>
      BY <2>6 DEF Visited, answers, Buffered
    <3>2. CASE UNCHANGED queue
      BY <1>1, <3>1, <3>2
    <3>3. CASE Push(r, "error")
      <4>1. "error" \in Messages
        BY DEF Messages, Terminal
      <4>2. /\ \A q \in Requests : Len(queue'[q]) <= Buffer
            /\ \A q \in Requests : q # r => queue'[q] = queue[q]
            /\ Chunks(queue'[r]) <= Chunks(queue[r])
        <5>1. /\ \A q \in Requests : Len(queue'[q]) <= Buffer
              /\ \A q \in Requests : q # r => queue'[q] = queue[q]
              /\ Chunks(queue'[r]) <= Chunks(queue[r]) + (IF "error" = "chunk" THEN 1 ELSE 0)
          BY <3>3, <4>1, PushFits
        <5>2. Chunks(queue[r]) + (IF "error" = "chunk" THEN 1 ELSE 0) = Chunks(queue[r])
          BY <1>2
        <5> QED
          BY <5>1, <5>2
      <4>3. queue' \in [Requests -> Seq(Messages)]
        BY <3>3, <4>1, PushedIsMessage
      <4>4. Chunks(queue'[r]) \in Nat
        BY <4>3, ChunksAreCounted
      <4>5. \A q \in Requests : InHand(q) \in Nat /\ InHand(q)' = InHand(q)
        BY <3>1 DEF InHand
      <4>6. got'[r] + Chunks(queue'[r]) + InHand(r)' <= sent'[r]
        <5> DEFINE had == got[r]
                   before == Chunks(queue[r])
                   after == Chunks(queue'[r])
                   hand == InHand(r)
                   whole == sent[r]
        <5>1. /\ had \in Nat /\ before \in Nat /\ after \in Nat /\ hand \in Nat
              /\ whole \in Nat /\ had + before + hand <= whole
          BY <1>2, <4>4, <4>5
        <5>2. after <= before
          BY <4>2
        <5>3. got'[r] = had /\ InHand(r)' = hand /\ sent'[r] = whole
          BY <3>1, <4>5
        <5> HIDE DEF had, before, hand, whole
        <5>4. had + after + hand <= whole
          <6> HIDE DEF after
          <6> QED
            BY <5>1, <5>2
        <5> QED
          BY <5>3, <5>4
      <4> QED
        BY <1>2, <3>1, <4>2, <4>5, <4>6
    <3> QED
      BY <2>6, <3>2, <3>3 DEF Visited
  <2> QED
    BY <1>3, <2>1, <2>2, <2>3, <2>4, <2>5, <2>6 DEF RelayNext
<1>4. CASE UNCHANGED relayVars
  <2>1. UNCHANGED <<queue, got, sent, reader>> /\ Maps
    BY <1>4 DEF relayVars, Buffered
  <2> QED
    BY <1>1, <2>1
<1> QED
  BY <1>3, <1>4

\* A requester never gets more of an answer than the client sent, and its channel never
\* holds more than its buffer, also when messages are dropped, requests are cancelled
\* and the session ends.  (dispatch, cleanup, NonStream, Stream)
THEOREM RelayTypesHold == RelaySpec => []RelayTypeOK
<1>1. RelayInv /\ AnswerInv /\ Buffered => RelayTypeOK
  <2> SUFFICES ASSUME RelayInv, AnswerInv, Buffered PROVE RelayTypeOK
    OBVIOUS
  <2>1. ASSUME NEW r \in Requests PROVE got[r] <= sent[r]
    <3>1. got[r] \in Nat /\ sent[r] \in Nat /\ Chunks(queue[r]) \in Nat
      BY ChunksAreCounted DEF AnswerInv, MessageTypes
    <3>2. InHand(r) \in Nat /\ got[r] + Chunks(queue[r]) + InHand(r) <= sent[r]
      BY DEF InHand, Buffered
    <3> QED
      BY <3>1, <3>2
  <2> QED
    BY <2>1 DEF RelayInv, SessionTypes, Buffered, RelayTypeOK
<1>2. RelayInv /\ AnswerInv /\ Buffered /\ [RelayNext]_relayVars => Buffered'
  BY BufferedStep DEF AnswerInv
<1> QED
  BY <1>1, <1>2, RelayInitInv, RelayStep, AnswerInitInv, AnswerStep, BufferedAtStart, PTL
     DEF RelaySpec

-----------------------------------------------------------------------------
(***************************************************************************)
(* What the logins promise, for any number of sessions, polls and any       *)
(* providers.  The argument: a session has one login (Known), which saves a *)
(* credential at the end of its flow only, when nothing can set it going    *)
(* again, or in a poll that has still to complete it (SavedLast).  A login  *)
(* that is cancelled with a look at its session ahead finds it gone and     *)
(* gives up (Doomed), because no call brings back a session that is gone.   *)
(* Whoever completes sessions has saved a credential (LoginsVouched).       *)
(***************************************************************************)

Known == \A s \in States :
  /\ provider[s] = "none" => session_[s] = "unknown"
  /\ flow[s] # "none" => provider[s] \in Builtin

PolledArePlugged == \A q \in Pollers : poll[q].at # "none" =>
  poll[q].of \in States /\ provider[poll[q].of] \in Plugged

SavedLast == \A s \in credited :
  \/ /\ provider[s] \in Builtin /\ flow[s] \in {"completing", "others", "over"}
     /\ flow[s] # "completing" => ~Pending(s)
  \/ /\ provider[s] \in Plugged
     /\ Pending(s) => \E q \in Pollers : poll[q] = [at |-> "completing", of |-> s]

Credited == \A s \in States :
  /\ flow[s] \in {"completing", "others"} => s \in credited
  /\ flow[s] = "others" => provider[s] \notin Solitary

PollsCredited == \A q \in Pollers : poll[q].at = "completing" => poll[q].of \in credited

Doomed == \A s \in withdrawn :
  /\ session_[s] = "unknown" /\ provider[s] # "none" /\ s \notin credited
  /\ HasCheckAhead(s) \/ flow[s] = "over"

LoginsVouched == \A s \in States : session_[s] = "completed" =>
  \/ s \in credited
  \/ /\ provider[s] \in Builtin \ Solitary
     /\ \E u \in credited : provider[u] = provider[s]

LoginInv ==
  /\ OAuthTypeOK /\ Known /\ PolledArePlugged
  /\ SavedLast /\ Credited /\ PollsCredited /\ Doomed

LEMMA LoginInitInv == OAuthInit => LoginInv /\ LoginsVouched
BY DEF OAuthInit, LoginInv, OAuthTypeOK, Known, PolledArePlugged, SavedLast, Credited,
  PollsCredited, Doomed, LoginsVouched, NoPoll

LEMMA LoginStep == LoginInv /\ [OAuthNext]_oauthVars => LoginInv'
<1> SUFFICES ASSUME LoginInv, [OAuthNext]_oauthVars PROVE LoginInv'
  OBVIOUS
<1> USE ProvidersDiffer DEF LoginInv, OAuthTypeOK, Known, PolledArePlugged, SavedLast,
      Credited, PollsCredited, Doomed, HasCheckAhead, Pending, FlowTo, PollTo, PollEnds, NoPoll, MarkSession, MarkLive,
      SetError, Fail, Providers, cancels, goroutines
<1>1. CASE UNCHANGED oauthVars
  BY <1>1 DEF oauthVars
<1>2. ASSUME NEW s \in States, StartLogin(s) PROVE LoginInv'
  <2>1. /\ session_[s] = "unknown" /\ provider[s] = "none" /\ poll' = poll
        /\ credited' = credited /\ withdrawn' = withdrawn /\ interrupted' = interrupted
        /\ session_' = [session_ EXCEPT ![s] = "pending"]
    BY <1>2 DEF StartLogin
  <2>2. PICK p \in Providers :
          /\ provider' = [provider EXCEPT ![s] = p]
          /\ \/ p \in Plugged /\ flow' = flow
             \/ p \in Builtin /\ flow' = [flow EXCEPT ![s] = "waiting"]
             \/ p \in Builtin /\ flow' = [flow EXCEPT ![s] = "over"]
    BY <1>2 DEF StartLogin
  <2>3. s \notin credited /\ s \notin withdrawn /\ flow[s] = "none"
    <3>1. provider[s] \notin Builtin \cup Plugged
      BY <2>1
    <3>2. s \notin credited
      BY <3>1
    <3>3. s \notin withdrawn
      BY <2>1
    <3> QED
      BY <3>1, <3>2, <3>3
  <2>4. \A q \in Pollers : poll[q].at # "none" => poll[q].of # s
    BY <2>1
  <2>5. OAuthTypeOK'
    BY <2>1, <2>2
  <2>6. Known' /\ PolledArePlugged'
    BY <2>1, <2>2, <2>4
  <2>7. SavedLast' /\ Credited' /\ PollsCredited' /\ Doomed'
    BY <2>1, <2>2, <2>3, <2>4
  <2> QED
    BY <2>5, <2>6, <2>7
<1>3. ASSUME NEW s \in States, CancelLogin(s) PROVE LoginInv'
  <2>1. /\ session_[s] = "pending" /\ session_' = [session_ EXCEPT ![s] = "unknown"]
        /\ UNCHANGED <<provider, flow, poll, credited>>
        /\ withdrawn' = IF HasCheckAhead(s) THEN withdrawn \cup {s} ELSE withdrawn
        /\ interrupted' \subseteq interrupted \cup {s}
    BY <1>3 DEF CancelLogin
  <2>2. \A u \in credited : Pending(u)' => Pending(u)
    BY <2>1
  <2>3. OAuthTypeOK'
    BY <2>1
  <2>4. Known' /\ PolledArePlugged' /\ Credited' /\ PollsCredited' /\ SavedLast'
    BY <2>1, <2>2
  <2>5. HasCheckAhead(s) => s \notin credited
    <3> SUFFICES ASSUME s \in credited, HasCheckAhead(s) PROVE FALSE
      OBVIOUS
    <3>1. CASE provider[s] \in Plugged
      <4>1. \A q \in Pollers : poll[q].of # s
        BY <3>1
      <4>2. PICK q \in Pollers : poll[q] = [at |-> "completing", of |-> s]
        BY <2>1, <3>1
      <4> QED
        BY <4>1, <4>2
    <3>2. CASE provider[s] \notin Plugged
      BY <2>1, <3>2
    <3> QED
      BY <3>1, <3>2
  <2>6. Doomed'
    BY <2>1, <2>5
  <2> QED
    BY <2>3, <2>4, <2>6
<1>4. ASSUME NEW s \in States, ExpireSession(s) PROVE LoginInv'
  BY <1>4 DEF ExpireSession
<1>5. ASSUME NEW s \in States, PollSession(s) PROVE LoginInv'
  BY <1>5 DEF PollSession
<1>6. ASSUME NEW s \in States, AnswerArrives(s) PROVE LoginInv'
  BY <1>6 DEF AnswerArrives
<1>7. ASSUME NEW s \in States, ExchangeCode(s) PROVE LoginInv'
  BY <1>7 DEF ExchangeCode
<1>8. ASSUME NEW s \in States, GuardForSave(s) PROVE LoginInv'
  BY <1>8 DEF GuardForSave
<1>9. ASSUME NEW s \in States, SaveCredential(s) PROVE LoginInv'
  BY <1>9 DEF SaveCredential
<1>10. ASSUME NEW s \in States, CompleteSession(s) PROVE LoginInv'
  BY <1>10 DEF CompleteSession
<1>11. ASSUME NEW s \in States, CompleteProvider(s) PROVE LoginInv'
  BY <1>11 DEF CompleteProvider
<1>12. ASSUME NEW s \in States, NEW q \in Pollers, PollPlugin(q, s) PROVE LoginInv'
  BY <1>12 DEF PollPlugin
<1>13. ASSUME NEW s \in States, NEW q \in Pollers, PluginAnswers(q, s) PROVE LoginInv'
  BY <1>13 DEF PluginAnswers
<1>14. ASSUME NEW s \in States, NEW q \in Pollers, SavePlugin(q, s) PROVE LoginInv'
  BY <1>14 DEF SavePlugin
<1>15. ASSUME NEW s \in States, NEW q \in Pollers, CompletePlugin(q, s) PROVE LoginInv'
  BY <1>15 DEF CompletePlugin
<1> QED
  BY <1>1, <1>2, <1>3, <1>4, <1>5, <1>6, <1>7, <1>8, <1>9, <1>10, <1>11, <1>12, <1>13,
     <1>14, <1>15 DEF OAuthNext

-----------------------------------------------------------------------------
\* Who has saved keeps its provider, and stays among those who saved.
LEMMA SaversStay ==
  ASSUME LoginInv, [OAuthNext]_oauthVars
  PROVE  \A u \in credited : u \in credited' /\ provider'[u] = provider[u]
<1>1. \A u \in credited : u \in States /\ provider[u] # "none"
  <2>1. credited \subseteq States
    BY DEF LoginInv, OAuthTypeOK
  <2>2. \A u \in credited : provider[u] \in Builtin \cup Plugged
    BY DEF LoginInv, SavedLast
  <2> QED
    BY <2>1, <2>2, ProvidersDiffer
<1>2. credited \subseteq credited'
  BY DEF OAuthNext, oauthVars, cancels, StartLogin, CancelLogin, ExpireSession, PollSession,
     AnswerArrives, ExchangeCode, GuardForSave, SaveCredential, CompleteSession,
     CompleteProvider, PollPlugin, PluginAnswers, SavePlugin, CompletePlugin
<1>3. \/ provider' = provider
      \/ \E s \in States, p \in Providers :
           provider[s] = "none" /\ provider' = [provider EXCEPT ![s] = p]
  BY DEF OAuthNext, oauthVars, cancels, StartLogin, CancelLogin, ExpireSession, PollSession,
     AnswerArrives, ExchangeCode, GuardForSave, SaveCredential, CompleteSession,
     CompleteProvider, PollPlugin, PluginAnswers, SavePlugin, CompletePlugin
<1> QED
  BY <1>1, <1>2, <1>3 DEF LoginInv, OAuthTypeOK

\* A session becomes completed by its own login, or by a flow of its provider that
\* completes them all; either has saved.
LEMMA CompletedBySaver ==
  ASSUME LoginInv, [OAuthNext]_oauthVars,
         NEW s \in States, session_'[s] = "completed", session_[s] # "completed"
  PROVE  /\ provider' = provider
         /\ \/ s \in credited
            \/ /\ provider[s] \in Builtin \ Solitary
               /\ \E u \in credited : provider[u] = provider[s]
<1> USE DEF LoginInv, OAuthTypeOK, Known, Credited, Pending, FlowTo, PollTo, PollEnds,
      MarkSession, MarkLive, SetError, Fail, cancels, goroutines
<1>1. CASE UNCHANGED oauthVars
  BY <1>1 DEF oauthVars
<1>2. ASSUME NEW t \in States, StartLogin(t) \/ CancelLogin(t) \/ ExpireSession(t)
      PROVE  FALSE
  BY <1>2 DEF StartLogin, CancelLogin, ExpireSession
<1>3. ASSUME NEW t \in States,
             PollSession(t) \/ AnswerArrives(t) \/ ExchangeCode(t) \/ GuardForSave(t)
      PROVE  FALSE
  BY <1>3 DEF PollSession, AnswerArrives, ExchangeCode, GuardForSave
<1>4. ASSUME NEW t \in States, SaveCredential(t) PROVE FALSE
  BY <1>4 DEF SaveCredential
<1>5. ASSUME NEW t \in States, NEW q \in Pollers,
             PollPlugin(q, t) \/ PluginAnswers(q, t) \/ SavePlugin(q, t)
      PROVE  FALSE
  BY <1>5 DEF PollPlugin, PluginAnswers, SavePlugin
<1>6. ASSUME NEW t \in States, CompleteSession(t)
      PROVE  t = s /\ s \in credited /\ provider' = provider
  <2>1. t \in credited /\ provider' = provider
    BY <1>6 DEF CompleteSession
  <2>2. session_' = session_ \/ session_' = [session_ EXCEPT ![t] = "completed"]
    BY <1>6 DEF CompleteSession
  <2> QED
    BY <2>1, <2>2
<1>7. ASSUME NEW t \in States, CompleteProvider(t)
      PROVE  /\ t \in credited /\ provider[t] = provider[s] /\ provider' = provider
             /\ provider[t] \in Builtin \ Solitary
  <2>1. flow[t] = "others"
    BY <1>7 DEF CompleteProvider
  <2>2. t \in credited /\ provider[t] \in Builtin \ Solitary
    BY <2>1
  <2>3. provider[t] = provider[s] /\ provider' = provider
    BY <1>7 DEF CompleteProvider
  <2> QED
    BY <2>2, <2>3
<1>8. ASSUME NEW t \in States, NEW q \in Pollers, CompletePlugin(q, t)
      PROVE  t = s /\ s \in credited /\ provider' = provider
  BY <1>8 DEF CompletePlugin, PollsCredited
<1> QED
  BY <1>1, <1>2, <1>3, <1>4, <1>5, <1>6, <1>7, <1>8 DEF OAuthNext

LEMMA VouchedStep == LoginInv /\ LoginsVouched /\ [OAuthNext]_oauthVars => LoginsVouched'
<1> SUFFICES ASSUME LoginInv, LoginsVouched, [OAuthNext]_oauthVars,
                    NEW s \in States, session_'[s] = "completed"
             PROVE  \/ s \in credited'
                    \/ /\ provider'[s] \in Builtin \ Solitary
                       /\ \E u \in credited' : provider'[u] = provider'[s]
  BY DEF LoginsVouched
<1>1. /\ provider'[s] = provider[s]
      /\ \/ s \in credited
         \/ /\ provider[s] \in Builtin \ Solitary
            /\ \E u \in credited : provider[u] = provider[s]
  <2>1. CASE session_[s] = "completed"
    <3>1. provider[s] # "none"
      BY <2>1 DEF LoginInv, Known
    <3>2. provider'[s] = provider[s]
      BY <3>1 DEF LoginInv, OAuthTypeOK, OAuthNext, oauthVars, cancels, StartLogin,
         CancelLogin, ExpireSession, PollSession, AnswerArrives, ExchangeCode, GuardForSave,
         SaveCredential, CompleteSession, CompleteProvider, PollPlugin, PluginAnswers,
         SavePlugin, CompletePlugin
    <3> QED
      BY <2>1, <3>2 DEF LoginsVouched
  <2>2. CASE session_[s] # "completed"
    BY <2>2, CompletedBySaver
  <2> QED
    BY <2>1, <2>2
<1> QED
  BY <1>1, SaversStay

-----------------------------------------------------------------------------
\* A login that is cancelled while its flow has still to look at the session saves
\* nothing, whatever other logins, polls and expiries do.  (CancelAuthSession,
\* guardOAuthSessionPendingForSave)
THEOREM CancelHolds == OAuthSpec => []CancelledInTimeSavesNothing
<1>1. LoginInv => CancelledInTimeSavesNothing
  BY DEF LoginInv, Doomed, CancelledInTimeSavesNothing
<1> QED
  BY <1>1, LoginInitInv, LoginStep, PTL DEF OAuthSpec

\* "ok" is only told when the login of the session has saved a credential, or another of
\* its provider whose flow completes them all.  (CompleteOAuthSession,
\* CompleteOAuthSessionsByProvider)
THEOREM OkIsVouchedFor == OAuthSpec => []OkMeansSaved
<1>1. LoginsVouched => OkMeansSaved
  BY DEF LoginsVouched, OkMeansSaved
<1> QED
  BY <1>1, LoginInitInv, LoginStep, VouchedStep, PTL DEF OAuthSpec

\* A session stays one that the store can hold, and its flow where the code can be.
\* (oauth_sessions.go)
THEOREM LoginTypes == OAuthSpec => []OAuthTypeOK
<1>1. LoginInv => OAuthTypeOK
  BY DEF LoginInv
<1> QED
  BY <1>1, LoginInitInv, LoginStep, PTL DEF OAuthSpec

-----------------------------------------------------------------------------
(***************************************************************************)
(* The newest state of a key is kept, for any number of services, keys and  *)
(* goroutines.  The argument: a service that starters hold or that is the   *)
(* default is open (ServiceRoles); what a service has taken in a flush      *)
(* tells its phase (Phases); of a key that is not forsaken only one service *)
(* has something to write (SoleWriter), and the last of it is the newest    *)
(* state (LastIsNewest), so that no flush puts an older state over it.      *)
(***************************************************************************)

Map == [Keys -> Nat]

CompatTypes ==
  /\ default \in Services \cup {NoService}
  /\ phase \in [Services -> {"unused", "open", "stopping", "stopped", "last", "closed"}]
  /\ dirty \in [Services -> Map] /\ writing \in [Services -> Map]
  /\ closing \in [Services -> Map]
  /\ db \in Map /\ newest_ \in Map /\ numbered \in Nat
  /\ holding \in [Starters \cup Requesters -> Services \cup {NoService}]

ServiceRoles ==
  /\ default # NoService => phase[default] = "open"
  /\ \A c \in Starters : holding[c] # NoService =>
       /\ phase[holding[c]] = "open" /\ holding[c] # default
       /\ \A d \in Starters : holding[d] = holding[c] => d = c
  /\ \A c \in Requesters : holding[c] # NoService => phase[holding[c]] # "unused"

Phases == \A v \in Services, k \in Keys :
  /\ writing[v][k] # 0 => phase[v] \in {"open", "stopping"}
  /\ closing[v][k] # 0 => phase[v] = "last"
  /\ dirty[v][k] # 0 => phase[v] # "unused"
  /\ dirty[v][k] # 0 /\ k \notin forsaken => phase[v] \in {"open", "stopping", "stopped"}

SoleWriter == \A k \in Keys \ forsaken : \A v, u \in Services :
  ToFlush(v, k) /\ ToFlush(u, k) => u = v

LastIsNewest == \A k \in Keys \ forsaken :
  /\ \A v \in Services :
       /\ dirty[v][k] # 0 => dirty[v][k] = newest_[k]
       /\ dirty[v][k] = 0 /\ writing[v][k] # 0 => writing[v][k] = newest_[k]
       /\ closing[v][k] # 0 => closing[v][k] = newest_[k]
  /\ (\A v \in Services : ~ToFlush(v, k)) => db[k] = newest_[k]

CompatInv == CompatTypes /\ ServiceRoles /\ Phases /\ SoleWriter /\ LastIsNewest

LEMMA CompatInitInv == CompatInit => CompatInv
<1> SUFFICES ASSUME CompatInit PROVE CompatInv
  OBVIOUS
<1>1. /\ \A k \in Keys : Clean[k] = 0
      /\ Clean \in Map
  BY DEF Clean, Map
<1>2. /\ dirty = [v \in Services |-> Clean] /\ writing = dirty /\ closing = dirty
      /\ db = Clean /\ newest_ = Clean
  BY DEF CompatInit
<1>3. \A v \in Services, k \in Keys : dirty[v][k] = 0 /\ writing[v][k] = 0 /\ closing[v][k] = 0
  BY <1>1, <1>2
<1>4. CompatTypes
  BY <1>1, <1>2 DEF CompatInit, CompatTypes
<1>5. ServiceRoles
  BY DEF CompatInit, ServiceRoles
<1> QED
  BY <1>1, <1>2, <1>3, <1>4, <1>5 DEF CompatInv, Phases, SoleWriter, LastIsNewest, ToFlush

-----------------------------------------------------------------------------
(* The steps: first those of a service's life, then those of its states.     *)

LEMMA NewServiceStep ==
  ASSUME CompatInv, NEW c \in Starters, NEW v \in Services, NewService(c, v)
  PROVE  CompatInv'
<1> USE CompatBounds DEF CompatInv
<1>1. /\ holding[c] = NoService /\ phase[v] = "unused"
      /\ phase' = [phase EXCEPT ![v] = "open"] /\ holding' = [holding EXCEPT ![c] = v]
      /\ UNCHANGED <<default, dirty, writing, closing, db, numbered, newest_, forsaken>>
  BY DEF NewService
<1>2. CompatTypes'
  BY <1>1 DEF CompatTypes
<1>3. ServiceRoles'
  BY <1>1 DEF ServiceRoles, CompatTypes
<1>4. Phases'
  BY <1>1 DEF Phases, CompatTypes
<1>5. SoleWriter' /\ LastIsNewest'
  BY <1>1 DEF SoleWriter, LastIsNewest, ToFlush
<1> QED
  BY <1>2, <1>3, <1>4, <1>5

LEMMA DefaultStep ==
  ASSUME CompatInv, (\E c \in Starters : SwapDefault(c)) \/ CloseDefault
  PROVE  CompatInv'
<1> USE CompatBounds DEF CompatInv
<1>1. /\ phase' = IF default = NoService THEN phase
                  ELSE [phase EXCEPT ![default] = "stopping"]
      /\ UNCHANGED <<dirty, numbered, newest_, writing, closing, db, forsaken>>
  BY DEF SwapDefault, CloseDefault, memory_
<1>2. CompatTypes' /\ ServiceRoles'
  <2>1. ASSUME NEW c \in Starters, SwapDefault(c) PROVE CompatTypes' /\ ServiceRoles'
    <3>1. /\ holding[c] # NoService /\ default' = holding[c]
          /\ holding' = [holding EXCEPT ![c] = NoService]
      BY <2>1 DEF SwapDefault
    <3>2. CompatTypes'
      BY <1>1, <3>1 DEF CompatTypes
    <3> QED
      BY <1>1, <3>1, <3>2 DEF ServiceRoles, CompatTypes
  <2>2. ASSUME CloseDefault PROVE CompatTypes' /\ ServiceRoles'
    BY <1>1, <2>2 DEF CloseDefault, ServiceRoles, CompatTypes
  <2> QED
    BY <2>1, <2>2
<1>3. Phases'
  BY <1>1 DEF Phases, CompatTypes, ServiceRoles
<1>4. SoleWriter' /\ LastIsNewest'
  BY <1>1 DEF SoleWriter, LastIsNewest, ToFlush
<1> QED
  BY <1>2, <1>3, <1>4

LEMMA WriterReturnsStep ==
  ASSUME CompatInv, NEW v \in Services, WriterReturns(v)
  PROVE  CompatInv'
<1> USE DEF CompatInv
<1>1. /\ phase[v] = "stopping" /\ writing[v] = Clean
      /\ phase' = [phase EXCEPT ![v] = "stopped"]
      /\ UNCHANGED <<default, dirty, numbered, newest_, writing, closing, db, holding, forsaken>>
  BY DEF WriterReturns, memory_
<1>2. \A k \in Keys : writing[v][k] = 0
  BY <1>1 DEF Clean
<1>3. CompatTypes' /\ ServiceRoles'
  BY <1>1 DEF CompatTypes, ServiceRoles
<1>4. Phases'
  BY <1>1, <1>2 DEF Phases, CompatTypes
<1>5. SoleWriter' /\ LastIsNewest'
  BY <1>1 DEF SoleWriter, LastIsNewest, ToFlush
<1> QED
  BY <1>3, <1>4, <1>5

LEMMA UpdateStateStep ==
  ASSUME CompatInv, NEW c \in Requesters, NEW q \in Keys, UpdateState(c, q)
  PROVE  CompatInv'
<1> USE CompatBounds DEF CompatInv
<1> DEFINE v == holding[c]
           n == numbered + 1
<1>1. /\ v \in Services /\ phase[v] # "unused" /\ n \in Nat /\ n # 0
      /\ numbered' = n
      /\ dirty' = [dirty EXCEPT ![v] = [@ EXCEPT ![q] = n]]
      /\ newest_' = [newest_ EXCEPT ![q] = n]
      /\ holding' = [holding EXCEPT ![c] = NoService]
      /\ UNCHANGED <<default, phase, writing, closing, db>>
  BY DEF UpdateState, CompatTypes, ServiceRoles
<1>2. /\ \A k \in Keys : k # q => (k \in forsaken' <=> k \in forsaken)
      /\ q \notin forsaken' =>
           /\ phase[v] \notin {"last", "closed"}
           /\ \A u \in Services : u # v => ~ToFlush(u, q)
  BY DEF UpdateState
<1> HIDE DEF v, n
<1>3. \A u \in Services, k \in Keys :
         dirty'[u][k] = IF u = v /\ k = q THEN n ELSE dirty[u][k]
  BY <1>1 DEF CompatTypes, Map
<1>4. \A k \in Keys : newest_'[k] = IF k = q THEN n ELSE newest_[k]
  BY <1>1 DEF CompatTypes, Map
<1>5. CompatTypes'
  <2>1. dirty' \in [Services -> Map] /\ newest_' \in Map
    BY <1>1 DEF CompatTypes, Map
  <2> QED
    BY <1>1, <2>1 DEF CompatTypes
<1>6. ServiceRoles'
  BY <1>1 DEF CompatTypes, ServiceRoles
<1>7. Phases'
  <2> SUFFICES ASSUME NEW u \in Services, NEW k \in Keys
               PROVE  /\ writing[u][k] # 0 => phase[u] \in {"open", "stopping"}
                      /\ closing[u][k] # 0 => phase[u] = "last"
                      /\ dirty'[u][k] # 0 => phase[u] # "unused"
                      /\ dirty'[u][k] # 0 /\ k \notin forsaken' =>
                           phase[u] \in {"open", "stopping", "stopped"}
    BY <1>1 DEF Phases
  <2>1. phase[v] \in {"open", "stopping", "stopped", "last", "closed"}
    BY <1>1 DEF CompatTypes
  <2>2. CASE u = v /\ k = q
    BY <1>1, <1>2, <2>1, <2>2 DEF Phases
  <2>3. CASE k # q \/ u # v
    BY <1>1, <1>2, <1>3, <2>3 DEF Phases, ToFlush
  <2> QED
    BY <2>2, <2>3
<1>8. SoleWriter'
  BY <1>1, <1>2, <1>3 DEF SoleWriter, ToFlush
<1>9. \A u \in Services : closing[u][q] # 0 /\ q \notin forsaken' => FALSE
  BY <1>2 DEF Phases, ToFlush
<1>10. LastIsNewest'
  BY <1>1, <1>2, <1>3, <1>4, <1>9 DEF LastIsNewest, ToFlush
<1> QED
  BY <1>5, <1>6, <1>7, <1>8, <1>10

LEMMA WriterTakesStep ==
  ASSUME CompatInv, NEW v \in Services, WriterTakes(v)
  PROVE  CompatInv'
<1> USE DEF CompatInv
<1>1. /\ phase[v] \in {"open", "stopping"} /\ writing[v] = Clean
      /\ writing' = [writing EXCEPT ![v] = dirty[v]]
      /\ dirty' = [dirty EXCEPT ![v] = Clean]
      /\ UNCHANGED <<default, phase, numbered, newest_, closing, db, holding, forsaken>>
  BY DEF WriterTakes
<1>2. \A u \in Services, k \in Keys :
         /\ writing'[u][k] = IF u = v THEN dirty[v][k] ELSE writing[u][k]
         /\ dirty'[u][k] = IF u = v THEN 0 ELSE dirty[u][k]
         /\ writing[v][k] = 0
  BY <1>1 DEF CompatTypes, Clean
<1>3. CompatTypes'
  BY <1>1 DEF CompatTypes, Clean, Map
<1>4. ServiceRoles'
  BY <1>1 DEF ServiceRoles
<1>5. Phases'
  BY <1>1, <1>2 DEF Phases
<1>6. SoleWriter'
  BY <1>1, <1>2 DEF SoleWriter, ToFlush
<1>7. LastIsNewest'
  BY <1>1, <1>2 DEF LastIsNewest, ToFlush
<1> QED
  BY <1>3, <1>4, <1>5, <1>6, <1>7

LEMMA WriterCommitsStep ==
  ASSUME CompatInv, NEW v \in Services, WriterCommits(v)
  PROVE  CompatInv'
<1> USE DEF CompatInv
<1>1. /\ writing' = [writing EXCEPT ![v] = Clean]
      /\ UNCHANGED <<default, phase, dirty, numbered, newest_, closing, holding>>
  BY DEF WriterCommits, memory_
<1>2. \A u \in Services, k \in Keys : writing'[u][k] = IF u = v THEN 0 ELSE writing[u][k]
  BY <1>1 DEF CompatTypes, Clean
<1>3. PICK failed_ \in SUBSET Taken(writing[v]) :
         /\ db' = [k \in Keys |-> IF k \in Taken(writing[v]) \ failed_ THEN writing[v][k] ELSE db[k]]
         /\ forsaken' = forsaken \cup {k \in failed_ : dirty[v][k] = 0}
  BY DEF WriterCommits, Commit
<1> USE DEF Taken
<1>4. CompatTypes'
  <2>1. writing' \in [Services -> Map]
    BY <1>1 DEF CompatTypes, Clean, Map
  <2>2. db' \in Map
    BY <1>3 DEF CompatTypes, Map
  <2> QED
    BY <1>1, <2>1, <2>2 DEF CompatTypes
<1>5. ServiceRoles'
  BY <1>1 DEF ServiceRoles
<1>6. Phases'
  BY <1>1, <1>2, <1>3 DEF Phases
<1>7. SoleWriter'
  BY <1>1, <1>2, <1>3 DEF SoleWriter, ToFlush
<1>8. ASSUME NEW k \in Keys \ forsaken', \A u \in Services : ~ToFlush(u, k)'
      PROVE  db'[k] = newest_[k]
  <2>1. k \notin forsaken /\ dirty[v][k] = 0
    BY <1>1, <1>3, <1>8 DEF ToFlush
  <2>2. CASE writing[v][k] # 0
    BY <1>3, <1>8, <2>1, <2>2 DEF LastIsNewest
  <2>3. CASE writing[v][k] = 0
    <3>1. \A u \in Services : ~ToFlush(u, k)
      BY <1>1, <1>2, <1>8, <2>3 DEF ToFlush
    <3> QED
      BY <1>3, <1>8, <2>1, <2>3, <3>1 DEF LastIsNewest
  <2> QED
    BY <2>2, <2>3
<1>9. LastIsNewest'
  BY <1>1, <1>2, <1>3, <1>8 DEF LastIsNewest
<1> QED
  BY <1>4, <1>5, <1>6, <1>7, <1>9

LEMMA CloseTakesStep ==
  ASSUME CompatInv, NEW v \in Services, CloseTakes(v)
  PROVE  CompatInv'
<1> USE DEF CompatInv
<1>1. /\ phase[v] = "stopped" /\ phase' = [phase EXCEPT ![v] = "last"]
      /\ closing' = [closing EXCEPT ![v] = dirty[v]]
      /\ dirty' = [dirty EXCEPT ![v] = Clean]
      /\ UNCHANGED <<default, numbered, newest_, writing, db, holding, forsaken>>
  BY DEF CloseTakes
<1>2. \A u \in Services, k \in Keys :
         /\ closing'[u][k] = IF u = v THEN dirty[v][k] ELSE closing[u][k]
         /\ dirty'[u][k] = IF u = v THEN 0 ELSE dirty[u][k]
         /\ writing[v][k] = 0 /\ closing[v][k] = 0
  BY <1>1 DEF CompatTypes, Clean, Phases
<1>3. CompatTypes'
  BY <1>1 DEF CompatTypes, Clean, Map
<1>4. ServiceRoles'
  BY <1>1 DEF ServiceRoles, CompatTypes
<1>5. Phases'
  BY <1>1, <1>2 DEF Phases, CompatTypes
<1>6. SoleWriter'
  BY <1>1, <1>2 DEF SoleWriter, ToFlush
<1>7. LastIsNewest'
  BY <1>1, <1>2 DEF LastIsNewest, ToFlush
<1> QED
  BY <1>3, <1>4, <1>5, <1>6, <1>7

LEMMA CloseCommitsStep ==
  ASSUME CompatInv, NEW v \in Services, CloseCommits(v)
  PROVE  CompatInv'
<1> USE DEF CompatInv
<1>1. /\ phase[v] = "last" /\ phase' = [phase EXCEPT ![v] = "closed"]
      /\ closing' = [closing EXCEPT ![v] = Clean]
      /\ UNCHANGED <<default, dirty, numbered, newest_, writing, holding>>
  BY DEF CloseCommits, memory_
<1>2. \A u \in Services, k \in Keys : closing'[u][k] = IF u = v THEN 0 ELSE closing[u][k]
  BY <1>1 DEF CompatTypes, Clean
<1>3. PICK failed_ \in SUBSET Taken(closing[v]) :
         /\ db' = [k \in Keys |-> IF k \in Taken(closing[v]) \ failed_ THEN closing[v][k] ELSE db[k]]
         /\ forsaken' = forsaken \cup {k \in failed_ : dirty[v][k] = 0}
  BY DEF CloseCommits, Commit
<1> USE DEF Taken
<1>4. CompatTypes'
  <2>1. closing' \in [Services -> Map]
    BY <1>1 DEF CompatTypes, Clean, Map
  <2>2. db' \in Map
    BY <1>3 DEF CompatTypes, Map
  <2> QED
    BY <1>1, <2>1, <2>2 DEF CompatTypes
<1>5. ServiceRoles'
  BY <1>1 DEF ServiceRoles, CompatTypes
<1>6. Phases'
  BY <1>1, <1>2, <1>3 DEF Phases, CompatTypes
<1>7. SoleWriter'
  BY <1>1, <1>2, <1>3 DEF SoleWriter, ToFlush
<1>8. ASSUME NEW k \in Keys \ forsaken', \A u \in Services : ~ToFlush(u, k)'
      PROVE  db'[k] = newest_[k]
  <2>1. k \notin forsaken /\ dirty[v][k] = 0
    BY <1>1, <1>3, <1>8 DEF ToFlush
  <2>2. CASE closing[v][k] # 0
    BY <1>3, <1>8, <2>1, <2>2 DEF LastIsNewest
  <2>3. CASE closing[v][k] = 0
    <3>1. \A u \in Services : ~ToFlush(u, k)
      BY <1>1, <1>2, <1>8, <2>3 DEF ToFlush
    <3> QED
      BY <1>3, <1>8, <2>1, <2>3, <3>1 DEF LastIsNewest
  <2> QED
    BY <2>2, <2>3
<1>9. LastIsNewest'
  BY <1>1, <1>2, <1>3, <1>8 DEF LastIsNewest
<1> QED
  BY <1>4, <1>5, <1>6, <1>7, <1>9

LEMMA CompatStep == CompatInv /\ [CompatNext]_compatVars => CompatInv'
<1> SUFFICES ASSUME CompatInv, [CompatNext]_compatVars PROVE CompatInv'
  OBVIOUS
<1>1. ASSUME NEW c \in Requesters, GetDefault(c) PROVE CompatInv'
  <2>1. /\ default # NoService /\ holding' = [holding EXCEPT ![c] = default]
        /\ UNCHANGED <<default, phase, dirty, numbered, newest_, writing, closing, db, forsaken>>
    BY <1>1 DEF GetDefault, memory_
  <2>2. CompatTypes' /\ ServiceRoles'
    BY <2>1, CompatBounds DEF CompatInv, CompatTypes, ServiceRoles
  <2> QED
    BY <2>1, <2>2 DEF CompatInv, Phases, SoleWriter, LastIsNewest, ToFlush
<1>2. CASE UNCHANGED compatVars
  BY <1>2 DEF compatVars, CompatInv, CompatTypes, ServiceRoles, Phases, SoleWriter, LastIsNewest, ToFlush
<1> QED
  BY <1>1, <1>2, NewServiceStep, DefaultStep, WriterReturnsStep, UpdateStateStep, WriterTakesStep,
     WriterCommitsStep, CloseTakesStep, CloseCommitsStep DEF CompatNext

\* The newest state of a key is in the table or on its way there, whatever services,
\* flushes and updates overlap - unless the key is forsaken: the last commit that took
\* it failed, or its last update came after the last flush of its service had begun
\* or while another service had it to write.  A later update without any of this lifts
\* the exception.  (flush, Close, update)
THEOREM NoStateIsLost == CompatSpec => []NewestIsKept
<1>1. CompatInv => NewestIsKept
  <2> SUFFICES ASSUME CompatInv, NEW k \in Keys \ forsaken, db[k] # newest_[k]
               PROVE  \E v \in Alive : newest_[k] \in {dirty[v][k], writing[v][k], closing[v][k]}
    BY DEF NewestIsKept
  <2>1. PICK v \in Services : ToFlush(v, k)
    BY DEF CompatInv, LastIsNewest
  <2>2. v \in Alive
    BY <2>1 DEF CompatInv, Phases, ToFlush, Alive
  <2>3. newest_[k] \in {dirty[v][k], writing[v][k], closing[v][k]}
    BY <2>1 DEF CompatInv, LastIsNewest, ToFlush
  <2> QED
    BY <2>2, <2>3
<1> QED
  BY <1>1, CompatInitInv, CompatStep, PTL DEF CompatSpec

\* No number but those of the updates gets into a map or into the table.
Numbered ==
  LET Drawn == [Keys -> 0..numbered] IN
  /\ numbered \in 0..MaxStates
  /\ states \in [Services -> Drawn] /\ dirty \in [Services -> Drawn]
  /\ writing \in [Services -> Drawn] /\ closing \in [Services -> Drawn]
  /\ db \in Drawn /\ newest_ \in Drawn /\ forsaken \subseteq Keys

LEMMA NumberedStep == CompatInv /\ Numbered /\ [CompatNext]_compatVars => Numbered'
<1> SUFFICES ASSUME CompatInv, Numbered, [CompatNext]_compatVars PROVE Numbered'
  OBVIOUS
<1> DEFINE Drawn == [Keys -> 0..numbered]
<1>1. /\ numbered \in 0..MaxStates
      /\ states \in [Services -> Drawn] /\ dirty \in [Services -> Drawn]
      /\ writing \in [Services -> Drawn] /\ closing \in [Services -> Drawn]
      /\ db \in Drawn /\ newest_ \in Drawn /\ forsaken \subseteq Keys
  BY DEF Numbered
<1>2. Clean \in Drawn
  BY <1>1, CompatBounds DEF Clean
<1> HIDE DEF Drawn
<1>3. ASSUME NEW c \in Starters, NEW v \in Services, NewService(c, v) PROVE Numbered'
  <2>1. states' \in [Services -> Drawn]
    BY <1>1, <1>3 DEF NewService
  <2> QED
    BY <1>1, <1>3, <2>1 DEF NewService, Numbered, Drawn
<1>4. ASSUME UNCHANGED <<memory_, writing, closing, db, forsaken>> PROVE Numbered'
  BY <1>1, <1>4 DEF memory_, Numbered, Drawn
<1>5. ASSUME NEW c \in Requesters, NEW k \in Keys, UpdateState(c, k) PROVE Numbered'
  <2> DEFINE More == [Keys -> 0..(numbered + 1)]
  <2>1. PICK v \in Services : v = holding[c]
    BY <1>5 DEF UpdateState, CompatInv, CompatTypes
  <2>2. numbered' = numbered + 1 /\ numbered' \in 0..MaxStates
    BY <1>1, <1>5, CompatBounds DEF UpdateState
  <2>3. /\ \A f \in Drawn : f \in More
        /\ \A f \in More : [f EXCEPT ![k] = numbered'] \in More
    BY <1>1, <2>2, CompatBounds DEF Drawn
  <2> HIDE DEF More
  <2>4. /\ states' = [states EXCEPT ![v] = [@ EXCEPT ![k] = numbered']]
        /\ dirty' = [dirty EXCEPT ![v] = [@ EXCEPT ![k] = numbered']]
        /\ newest_' = [newest_ EXCEPT ![k] = numbered']
        /\ forsaken' \in {forsaken \ {k}, forsaken \cup {k}}
        /\ UNCHANGED <<writing, closing, db>>
    BY <1>5, <2>1 DEF UpdateState
  <2>5. /\ states \in [Services -> More] /\ dirty \in [Services -> More]
        /\ writing' \in [Services -> More] /\ closing' \in [Services -> More]
        /\ db' \in More /\ newest_ \in More
    BY <1>1, <2>3, <2>4
  <2>6. states' \in [Services -> More] /\ dirty' \in [Services -> More] /\ newest_' \in More
    BY <2>3, <2>4, <2>5
  <2> QED
    BY <1>1, <2>2, <2>4, <2>5, <2>6 DEF Numbered, More
<1>6. ASSUME NEW v \in Services, WriterTakes(v) PROVE Numbered'
  <2>1. writing' \in [Services -> Drawn] /\ dirty' \in [Services -> Drawn]
    BY <1>1, <1>2, <1>6 DEF WriterTakes
  <2> QED
    BY <1>1, <1>6, <2>1 DEF WriterTakes, Numbered, Drawn
<1>7. ASSUME NEW v \in Services, NEW taken \in Drawn, Commit(v, taken)
      PROVE  db' \in Drawn /\ forsaken' \subseteq Keys
  BY <1>1, <1>7 DEF Commit, Taken, Drawn
<1>8. ASSUME NEW v \in Services, WriterCommits(v) PROVE Numbered'
  <2>1. writing' \in [Services -> Drawn] /\ db' \in Drawn /\ forsaken' \subseteq Keys
    BY <1>1, <1>2, <1>7, <1>8 DEF WriterCommits
  <2> QED
    BY <1>1, <1>8, <2>1 DEF WriterCommits, memory_, Numbered, Drawn
<1>9. ASSUME NEW v \in Services, CloseTakes(v) PROVE Numbered'
  <2>1. closing' \in [Services -> Drawn] /\ dirty' \in [Services -> Drawn]
    BY <1>1, <1>2, <1>9 DEF CloseTakes
  <2> QED
    BY <1>1, <1>9, <2>1 DEF CloseTakes, Numbered, Drawn
<1>10. ASSUME NEW v \in Services, CloseCommits(v) PROVE Numbered'
  <2>1. closing' \in [Services -> Drawn] /\ db' \in Drawn /\ forsaken' \subseteq Keys
    BY <1>1, <1>2, <1>7, <1>10 DEF CloseCommits
  <2> QED
    BY <1>1, <1>10, <2>1 DEF CloseCommits, memory_, Numbered, Drawn
<1>11. CASE UNCHANGED compatVars
  BY <1>4, <1>11 DEF compatVars, memory_
<1>12. ASSUME NEW c, SwapDefault(c) \/ CloseDefault \/ GetDefault(c) PROVE Numbered'
  BY <1>4, <1>12 DEF SwapDefault, CloseDefault, GetDefault
<1>13. ASSUME NEW v, WriterReturns(v) PROVE Numbered'
  BY <1>4, <1>13 DEF WriterReturns, memory_
<1> QED
  BY <1>3, <1>5, <1>6, <1>8, <1>9, <1>10, <1>11, <1>12, <1>13 DEF CompatNext

\* What the maps, the flushes and the table hold are states that were made by then, a
\* service that was never opened has nothing to flush, and a goroutine holds a service
\* or none.  (New, flush, update)
THEOREM CompatTypesHold == CompatSpec => []CompatTypeOK
<1>1. CompatInit => Numbered
  BY CompatBounds DEF CompatInit, Numbered, Clean
<1>2. CompatInv /\ Numbered => CompatTypeOK
  <2> SUFFICES ASSUME CompatInv, Numbered PROVE CompatTypeOK
    OBVIOUS
  <2>1. \A v \in Services, k \in Keys : phase[v] = "unused" => ~ToFlush(v, k)
    BY DEF CompatInv, Phases, ToFlush
  <2> QED
    BY <2>1 DEF CompatInv, CompatTypes, Numbered, CompatTypeOK
<1> QED
  BY <1>1, <1>2, CompatInitInv, CompatStep, NumberedStep, PTL DEF CompatSpec

-----------------------------------------------------------------------------
(***************************************************************************)
(* Sequences without repetitions: where their elements are after a step.    *)
(***************************************************************************)

LEMMA InSequence ==
  ASSUME NEW S, NEW s \in Seq(S)
  PROVE  /\ DOMAIN s = 1..Len(s) /\ Len(s) \in Nat
         /\ ToSet(s) \subseteq S
         /\ \A x : x \in ToSet(s) <=> \E i \in 1..Len(s) : s[i] = x
BY LenProperties DEF ToSet

LEMMA AppendDistinct ==
  ASSUME NEW S, NEW s \in Seq(S), NEW x \in S, x \notin ToSet(s), IsInjective(s)
  PROVE  /\ Append(s, x) \in Seq(S) /\ IsInjective(Append(s, x))
         /\ \A y : y \in ToSet(Append(s, x)) <=> y \in ToSet(s) \/ y = x
<1>1. /\ Append(s, x) \in Seq(S) /\ Len(Append(s, x)) = Len(s) + 1
      /\ \A i \in 1..Len(s) : Append(s, x)[i] = s[i]
      /\ Append(s, x)[Len(s) + 1] = x
  BY AppendProperties
<1> DEFINE t == Append(s, x)
<1>2. /\ Len(s) \in Nat /\ DOMAIN s = 1..Len(s) /\ DOMAIN t = 1..Len(s) + 1
      /\ \A y : y \in ToSet(s) <=> \E i \in 1..Len(s) : s[i] = y
      /\ \A y : y \in ToSet(t) <=> \E i \in 1..Len(s) + 1 : t[i] = y
  BY <1>1, InSequence
<1> HIDE DEF t
<1>3. \A i \in 1..Len(s) + 1 : t[i] = IF i = Len(s) + 1 THEN x ELSE s[i]
  BY <1>1, <1>2 DEF t
<1>4. \A i, j \in 1..Len(s) + 1 : t[i] = t[j] => i = j
  BY <1>2, <1>3 DEF IsInjective
<1>5. \A y : y \in ToSet(t) <=> y \in ToSet(s) \/ y = x
  BY <1>2, <1>3
<1> QED
  BY <1>1, <1>2, <1>4, <1>5 DEF IsInjective, t

LEMMA PartDistinct ==
  ASSUME NEW S, NEW s \in Seq(S), NEW m \in 1..Len(s) + 1, NEW n \in 0..Len(s),
         IsInjective(s)
  PROVE  /\ SubSeq(s, m, n) \in Seq(S) /\ IsInjective(SubSeq(s, m, n))
         /\ \A y : y \in ToSet(SubSeq(s, m, n)) <=> \E i \in m..n : s[i] = y
<1> DEFINE t == SubSeq(s, m, n)
<1>1. /\ Len(s) \in Nat /\ DOMAIN s = 1..Len(s)
      /\ \A i \in m..n : i \in 1..Len(s) /\ s[i] \in S
  BY LenProperties
<1>2. /\ t \in Seq(S) /\ Len(t) = (IF m <= n THEN n - m + 1 ELSE 0)
      /\ \A i \in 1..n - m + 1 : t[i] = s[m + i - 1]
  BY <1>1, SubSeqProperties
<1>3. /\ DOMAIN t = 1..Len(t)
      /\ \A y : y \in ToSet(t) <=> \E i \in 1..Len(t) : t[i] = y
  BY <1>2, InSequence
<1> HIDE DEF t
<1>4. ASSUME NEW i \in 1..Len(t), NEW j \in 1..Len(t), t[i] = t[j] PROVE i = j
  <2>1. /\ m + i - 1 \in 1..Len(s) /\ m + j - 1 \in 1..Len(s)
        /\ t[i] = s[m + i - 1] /\ t[j] = s[m + j - 1]
    <3>1. i \in 1..n - m + 1 /\ j \in 1..n - m + 1
      BY <1>1, <1>2
    <3> QED
      BY <1>1, <1>2, <3>1
  <2>2. m + i - 1 = m + j - 1
    BY <1>1, <1>4, <2>1 DEF IsInjective
  <2> QED
    BY <2>2
<1>5. \A y : y \in ToSet(t) <=> \E i \in m..n : s[i] = y
  <2> TAKE y
  <2>1. ASSUME NEW i \in 1..Len(t), t[i] = y PROVE \E j \in m..n : s[j] = y
    <3>1. m + i - 1 \in m..n
      BY <1>1, <1>2
    <3> QED
      BY <1>2, <2>1, <3>1
  <2>2. ASSUME NEW j \in m..n, s[j] = y PROVE \E i \in 1..Len(t) : t[i] = y
    <3>1. j - m + 1 \in 1..Len(t) /\ t[j - m + 1] = s[j]
      BY <1>1, <1>2
    <3> QED
      BY <2>2, <3>1
  <2> QED
    BY <1>3, <2>1, <2>2
<1> QED
  BY <1>2, <1>3, <1>4, <1>5 DEF IsInjective, t

LEMMA TailDistinct ==
  ASSUME NEW S, NEW s \in Seq(S), s # <<>>, IsInjective(s)
  PROVE  /\ Head(s) \in S /\ Head(s) \in ToSet(s)
         /\ Tail(s) \in Seq(S) /\ IsInjective(Tail(s))
         /\ \A y : y \in ToSet(Tail(s)) <=> y \in ToSet(s) /\ y # Head(s)
<1>1. Len(s) \in Nat \ {0} /\ DOMAIN s = 1..Len(s) /\ Tail(s) = SubSeq(s, 2, Len(s))
      /\ Head(s) = s[1]
  BY EmptySeq, LenProperties, TailIsSubSeq
<1>2. /\ SubSeq(s, 2, Len(s)) \in Seq(S) /\ IsInjective(SubSeq(s, 2, Len(s)))
      /\ \A y : y \in ToSet(SubSeq(s, 2, Len(s))) <=> \E i \in 2..Len(s) : s[i] = y
  <2>1. 2 \in 1..Len(s) + 1 /\ Len(s) \in 0..Len(s)
    BY <1>1
  <2> QED
    BY <2>1, PartDistinct
<1>3. \A y : y \in ToSet(s) <=> \E i \in 1..Len(s) : s[i] = y
  BY InSequence
<1>4. ASSUME NEW y PROVE y \in ToSet(Tail(s)) <=> y \in ToSet(s) /\ y # Head(s)
  <2>1. ASSUME NEW i \in 2..Len(s), s[i] = y PROVE y \in ToSet(s) /\ y # s[1]
    BY <1>1, <1>3, <2>1 DEF IsInjective
  <2>2. ASSUME NEW i \in 1..Len(s), s[i] = y, y # s[1] PROVE i \in 2..Len(s)
    BY <1>1, <2>2
  <2> QED
    BY <1>1, <1>2, <1>3, <2>1, <2>2
<1>5. Head(s) \in S /\ Head(s) \in ToSet(s)
  <2>1. 1 \in 1..Len(s)
    BY <1>1
  <2> QED
    BY <1>1, <1>3, <2>1, HeadTailProperties
<1> QED
  BY <1>1, <1>2, <1>4, <1>5

LEMMA CutDistinct ==
  ASSUME NEW S, NEW s \in Seq(S), NEW n \in 0..Len(s), IsInjective(s)
  PROVE  LET front == SubSeq(s, 1, n)  back == SubSeq(s, n + 1, Len(s)) IN
         /\ front \in Seq(S) /\ IsInjective(front) /\ back \in Seq(S) /\ IsInjective(back)
         /\ \A y : y \in ToSet(s) <=> y \in ToSet(front) \/ y \in ToSet(back)
         /\ \A y : ~(y \in ToSet(front) /\ y \in ToSet(back))
<1> DEFINE front == SubSeq(s, 1, n)
           back == SubSeq(s, n + 1, Len(s))
<1>1. /\ Len(s) \in Nat /\ DOMAIN s = 1..Len(s)
      /\ \A y : y \in ToSet(s) <=> \E i \in 1..Len(s) : s[i] = y
  BY InSequence
<1>2. /\ 1 \in 1..Len(s) + 1 /\ n + 1 \in 1..Len(s) + 1 /\ Len(s) \in 0..Len(s)
  BY <1>1
<1>3. /\ front \in Seq(S) /\ IsInjective(front)
      /\ \A y : y \in ToSet(front) <=> \E i \in 1..n : s[i] = y
  BY <1>2, PartDistinct
<1>4. /\ back \in Seq(S) /\ IsInjective(back)
      /\ \A y : y \in ToSet(back) <=> \E i \in n + 1..Len(s) : s[i] = y
  BY <1>2, PartDistinct
<1> HIDE DEF front, back
<1>5. \A y : y \in ToSet(s) <=> y \in ToSet(front) \/ y \in ToSet(back)
  BY <1>1, <1>3, <1>4
<1>6. ASSUME NEW i \in 1..n, NEW j \in n + 1..Len(s), s[i] = s[j] PROVE FALSE
  BY <1>1, <1>6 DEF IsInjective
<1> QED
  BY <1>3, <1>4, <1>5, <1>6 DEF front, back

LEMMA PrunedDistinct ==
  ASSUME NEW S, NEW s \in Seq(S), IsInjective(s), NEW k \in 1..Len(s) + 1
  PROVE  LET left == SubSeq(s, k, Len(s)) IN
         /\ left \in Seq(S) /\ IsInjective(left)
         /\ \A y : y \in ToSet(left) => y \in ToSet(s)
<1>1. k - 1 \in 0..Len(s) /\ (k - 1) + 1 = k
  BY LenProperties
<1> QED
  BY <1>1, CutDistinct

-----------------------------------------------------------------------------
(***************************************************************************)
(* The queue of usage records, for any number of records, subscribers and   *)
(* turns of the switch.  The argument: the places where a record can be,    *)
(* counted without repetitions, are one for a record that was accepted and  *)
(* none for one that was not (Placed); what waits in the channel of a       *)
(* subscriber is what is due to it, entry by entry (Follows).               *)
(***************************************************************************)

Records_ == Nat \ {0}
If1(p) == IF p THEN 1 ELSE 0

UsageTypes ==
  /\ accepted \in Nat
  /\ waiting \in Seq(Records_) /\ items \in Seq(Records_) /\ popped \in Seq(Records_)
  /\ enqueuing \in [Enqueuers -> [step : {"none", "check", "offer", "append"}, record : Nat]]
  /\ \A e \in Enqueuers : enqueuing[e].step = "none" <=> enqueuing[e].record = 0

NoRepeats == IsInjective(waiting) /\ IsInjective(items) /\ IsInjective(popped)

PlacesOf(r) ==
  If1(r \in ToSet(waiting)) + If1(r \in ToSet(items)) + If1(r \in ToSet(popped))
  + If1(enqueuing["manager"].record = r) + If1(enqueuing["forwarder"].record = r)
  + If1(r \in settled)

Placed == \A r \in Records_ : PlacesOf(r) = If1(r <= accepted)

UsageInv ==
  /\ UsageTypes /\ NoRepeats /\ Placed
  /\ "forwarder" \in passed => popped = <<>>
  /\ worker = "ended" => waiting = <<>>

LEMMA UsageInitInv == UsageInit => UsageInv
<1> SUFFICES ASSUME UsageInit PROVE UsageInv
  OBVIOUS
<1>1. /\ waiting = <<>> /\ items = <<>> /\ popped = <<>> /\ accepted = 0 /\ settled = {}
      /\ enqueuing = [e \in Enqueuers |-> NoEnqueue] /\ passed = {}
  BY DEF UsageInit
<1>2. /\ <<>> \in Seq(Records_) /\ IsInjective(<<>>) /\ \A r : r \notin ToSet(<<>>)
  BY DEF IsInjective, ToSet
<1>3. UsageTypes
  BY <1>1, <1>2 DEF UsageTypes, NoEnqueue
<1>4. Placed
  BY <1>1, <1>2 DEF Placed, PlacesOf, If1, Enqueuers, NoEnqueue, Records_
<1> QED
  BY <1>1, <1>2, <1>3, <1>4 DEF UsageInv, NoRepeats

\* Nobody is in two places, nor is a record that was not accepted in any.
LEMMA PlacedOnce ==
  ASSUME Placed, NEW r \in Records_
  PROVE  /\ r \in ToSet(waiting) => r \notin ToSet(items) \cup ToSet(popped) \cup settled
         /\ r \in ToSet(items) => r \notin ToSet(waiting) \cup ToSet(popped) \cup settled
         /\ r \in ToSet(popped) => r \notin ToSet(waiting) \cup ToSet(items) \cup settled
         /\ \A e \in Enqueuers : enqueuing[e].record = r =>
              r \notin ToSet(waiting) \cup ToSet(items) \cup ToSet(popped) \cup settled
         /\ ~(enqueuing["manager"].record = r /\ enqueuing["forwarder"].record = r)
         /\ ~(r <= accepted) =>
              r \notin ToSet(waiting) \cup ToSet(items) \cup ToSet(popped) \cup settled
<1> DEFINE w == If1(r \in ToSet(waiting))
           i == If1(r \in ToSet(items))
           p == If1(r \in ToSet(popped))
           m == If1(enqueuing["manager"].record = r)
           f == If1(enqueuing["forwarder"].record = r)
           s == If1(r \in settled)
           a == If1(r <= accepted)
<1>1. w + i + p + m + f + s = a
  BY DEF Placed, PlacesOf
<1>2. /\ w \in {0, 1} /\ i \in {0, 1} /\ p \in {0, 1} /\ m \in {0, 1} /\ f \in {0, 1}
      /\ s \in {0, 1} /\ a \in {0, 1}
  BY DEF If1
<1>3. /\ w = 1 <=> r \in ToSet(waiting)
      /\ i = 1 <=> r \in ToSet(items)
      /\ p = 1 <=> r \in ToSet(popped)
      /\ m = 1 <=> enqueuing["manager"].record = r
      /\ f = 1 <=> enqueuing["forwarder"].record = r
      /\ s = 1 <=> r \in settled
      /\ a = 1 <=> r <= accepted
  BY DEF If1
<1> HIDE DEF w, i, p, m, f, s, a
<1>4. /\ w = 1 => i = 0 /\ p = 0 /\ s = 0
      /\ i = 1 => w = 0 /\ p = 0 /\ s = 0
      /\ p = 1 => w = 0 /\ i = 0 /\ s = 0
      /\ m = 1 \/ f = 1 => w = 0 /\ i = 0 /\ p = 0 /\ s = 0
      /\ a = 0 => w = 0 /\ i = 0 /\ p = 0 /\ s = 0
      /\ ~(m = 1 /\ f = 1)
  BY <1>1, <1>2
<1> QED
  BY <1>2, <1>3, <1>4 DEF Enqueuers

LEMMA PublishStep == UsageInv /\ PublishRecord => UsageInv'
<1> SUFFICES ASSUME UsageInv, PublishRecord PROVE UsageInv'
  OBVIOUS
<1> DEFINE n == accepted + 1
<1>1. /\ accepted' = n /\ waiting' = Append(waiting, n) /\ worker = "running"
      /\ UNCHANGED <<worker, enqueuing, items, popped, settled, passed>>
  BY DEF PublishRecord, takerVars
<1>2. n \in Records_ /\ n \notin ToSet(waiting) /\ accepted \in Nat
  <2>1. accepted \in Nat
    BY DEF UsageInv, UsageTypes
  <2>2. n \in Records_ /\ ~(n <= accepted)
    BY <2>1 DEF Records_
  <2> QED
    BY <2>1, <2>2, PlacedOnce DEF UsageInv
<1>3. /\ waiting' \in Seq(Records_) /\ IsInjective(waiting')
      /\ \A y : y \in ToSet(waiting') <=> y \in ToSet(waiting) \/ y = n
  BY <1>1, <1>2, AppendDistinct DEF UsageInv, UsageTypes, NoRepeats
<1>4. UsageTypes' /\ NoRepeats'
  BY <1>1, <1>2, <1>3 DEF UsageInv, UsageTypes, NoRepeats
<1>5. Placed'
  BY <1>1, <1>2, <1>3 DEF UsageInv, Placed, PlacesOf, If1, Records_
<1> QED
  BY <1>1, <1>4, <1>5 DEF UsageInv

LEMMA DispatchRecordStep == UsageInv /\ DispatchRecord => UsageInv'
<1> SUFFICES ASSUME UsageInv, DispatchRecord PROVE UsageInv'
  OBVIOUS
<1> DEFINE r == Head(waiting)
<1>1. /\ worker # "ended" /\ enqueuing["manager"] = NoEnqueue /\ waiting # <<>>
      /\ waiting' = Tail(waiting)
      /\ UNCHANGED <<accepted, worker, items, popped, passed>>
      /\ \/ /\ enqueuing' = [enqueuing EXCEPT !["manager"] = [step |-> "check", record |-> r]]
            /\ settled' = settled
         \/ enqueuing' = enqueuing /\ settled' = settled \cup {r}
  BY DEF DispatchRecord, takerVars, EnqueueAt, Finish
<1>2. /\ r \in Records_ /\ r \in ToSet(waiting)
      /\ waiting' \in Seq(Records_) /\ IsInjective(waiting')
      /\ \A y : y \in ToSet(waiting') <=> y \in ToSet(waiting) /\ y # r
  BY <1>1, TailDistinct DEF UsageInv, UsageTypes, NoRepeats
<1> HIDE DEF r
<1>3. UsageTypes' /\ NoRepeats'
  BY <1>1, <1>2 DEF UsageInv, UsageTypes, NoRepeats, Enqueuers, Records_
<1>4. /\ enqueuing["manager"].record = 0
      /\ enqueuing'["forwarder"] = enqueuing["forwarder"]
      /\ \/ enqueuing'["manager"].record = r /\ settled' = settled
         \/ enqueuing'["manager"].record = 0 /\ settled' = settled \cup {r}
  BY <1>1 DEF UsageInv, UsageTypes, Enqueuers, NoEnqueue
<1>5. Placed'
  BY <1>1, <1>2, <1>4 DEF UsageInv, Placed, PlacesOf, If1, Records_
<1> QED
  BY <1>1, <1>3, <1>5 DEF UsageInv

\* An Enqueue that goes on keeps its record, one that is over has put it somewhere.
LEMMA EnqueueStep ==
  ASSUME UsageInv, NEW e \in Enqueuers, CheckEnabled(e) \/ Offer(e)
  PROVE  UsageInv'
<1> DEFINE r == enqueuing[e].record
<1>1. /\ r \in Records_
      /\ UNCHANGED <<accepted, worker, waiting, items, popped, passed>>
      /\ \/ \E step \in {"offer", "append"} :
              enqueuing' = [enqueuing EXCEPT ![e] = [step |-> step, record |-> r]]
              /\ settled' = settled
         \/ enqueuing' = [enqueuing EXCEPT ![e] = NoEnqueue] /\ settled' = settled \cup {r}
  BY DEF CheckEnabled, Offer, managerVars, takerVars, EnqueueAt, EnqueueOver, Finish, UsageInv,
     UsageTypes, Records_
<1>2. /\ \A f \in Enqueuers \ {e} : enqueuing'[f] = enqueuing[f]
      /\ \/ enqueuing'[e].record = r /\ settled' = settled
         \/ enqueuing'[e].record = 0 /\ settled' = settled \cup {r}
  BY <1>1 DEF UsageInv, UsageTypes, NoEnqueue
<1> HIDE DEF r
<1>3. UsageTypes'
  <2>1. ASSUME NEW step \in {"offer", "append"},
               enqueuing' = [enqueuing EXCEPT ![e] = [step |-> step, record |-> r]]
        PROVE  UsageTypes'
    BY <1>1, <2>1 DEF UsageInv, UsageTypes, Records_
  <2>2. CASE enqueuing' = [enqueuing EXCEPT ![e] = NoEnqueue]
    BY <1>1, <2>2 DEF UsageInv, UsageTypes, NoEnqueue
  <2> QED
    BY <1>1, <2>1, <2>2
<1>4. Placed'
  <2>1. CASE e = "manager"
    <3>1. enqueuing["manager"].record = r /\ enqueuing'["forwarder"] = enqueuing["forwarder"]
      BY <1>2, <2>1 DEF Enqueuers, r
    <3> QED
      BY <1>1, <1>2, <2>1, <3>1 DEF UsageInv, Placed, PlacesOf, If1, Records_
  <2>2. CASE e = "forwarder"
    <3>1. enqueuing["forwarder"].record = r /\ enqueuing'["manager"] = enqueuing["manager"]
      BY <1>2, <2>2 DEF Enqueuers, r
    <3> QED
      BY <1>1, <1>2, <2>2, <3>1 DEF UsageInv, Placed, PlacesOf, If1, Records_
  <2> QED
    BY <2>1, <2>2 DEF Enqueuers
<1> QED
  BY <1>1, <1>3, <1>4 DEF UsageInv, NoRepeats

LEMMA AppendItemStep ==
  ASSUME UsageInv, NEW e \in Enqueuers, AppendItem(e)
  PROVE  UsageInv'
<1> DEFINE r == enqueuing[e].record
<1>1. PICK left \in Prunings :
        items' = Append(left, r) /\ settled' = settled \cup (ToSet(items) \ ToSet(left))
  BY DEF AppendItem, Finish
<1>2. /\ r \in Records_ /\ r \in Nat
      /\ enqueuing' = [enqueuing EXCEPT ![e] = NoEnqueue]
      /\ UNCHANGED <<accepted, worker, waiting, popped, passed>>
  BY DEF AppendItem, managerVars, takerVars, EnqueueOver, UsageInv, UsageTypes, Records_
<1>3. /\ left \in Seq(Records_) /\ IsInjective(left)
      /\ \A y : y \in ToSet(left) => y \in ToSet(items)
  <2>1. PICK k \in 1..Len(items) + 1 : left = SubSeq(items, k, Len(items))
    BY DEF Prunings
  <2> QED
    BY <2>1, PrunedDistinct DEF UsageInv, UsageTypes, NoRepeats
<1>4. \A y \in Records_ : y \in ToSet(items) => r # y
  BY <1>2, PlacedOnce DEF UsageInv
<1>5. /\ items' \in Seq(Records_) /\ IsInjective(items')
      /\ \A y : y \in ToSet(items') <=> y \in ToSet(left) \/ y = r
  BY <1>1, <1>2, <1>3, <1>4, AppendDistinct
<1>6. /\ \A f \in Enqueuers \ {e} : enqueuing'[f] = enqueuing[f]
      /\ enqueuing'[e].record = 0
  BY <1>2 DEF UsageInv, UsageTypes, NoEnqueue
<1>7. UsageTypes' /\ NoRepeats'
  BY <1>2, <1>5 DEF UsageInv, UsageTypes, NoRepeats, NoEnqueue
<1> HIDE DEF r
<1>8. Placed'
  <2>1. CASE e = "manager"
    <3>1. enqueuing["manager"].record = r /\ enqueuing'["forwarder"] = enqueuing["forwarder"]
      BY <1>6, <2>1 DEF Enqueuers, r
    <3> QED
      BY <1>1, <1>2, <1>3, <1>5, <1>6, <2>1, <3>1 DEF UsageInv, Placed, PlacesOf, If1, Records_
  <2>2. CASE e = "forwarder"
    <3>1. enqueuing["forwarder"].record = r /\ enqueuing'["manager"] = enqueuing["manager"]
      BY <1>6, <2>2 DEF Enqueuers, r
    <3> QED
      BY <1>1, <1>2, <1>3, <1>5, <1>6, <2>2, <3>1 DEF UsageInv, Placed, PlacesOf, If1, Records_
  <2> QED
    BY <2>1, <2>2 DEF Enqueuers
<1> QED
  BY <1>2, <1>7, <1>8 DEF UsageInv

LEMMA PopStep ==
  ASSUME UsageInv, NEW t \in {"poller", "forwarder"}, PopOldest(t)
  PROVE  UsageInv'
<1> DEFINE Fits(left) == IF PopCount < Len(left) THEN PopCount ELSE Len(left)
<1>1. PICK left \in Prunings :
        /\ items' = SubSeq(left, Fits(left) + 1, Len(left))
        /\ IF t = "forwarder"
           THEN /\ popped' = SubSeq(left, 1, Fits(left))
                /\ settled' = settled \cup (ToSet(items) \ ToSet(left))
           ELSE /\ popped' = popped
                /\ settled' = settled \cup (ToSet(items) \ ToSet(items'))
  BY DEF PopOldest, Finish
<1> DEFINE n == Fits(left)
           out == SubSeq(left, 1, n)
<1>2. /\ left \in Seq(Records_) /\ IsInjective(left)
      /\ \A y : y \in ToSet(left) => y \in ToSet(items)
  <2>1. PICK k \in 1..Len(items) + 1 : left = SubSeq(items, k, Len(items))
    BY DEF Prunings
  <2> QED
    BY <2>1, PrunedDistinct DEF UsageInv, UsageTypes, NoRepeats
<1>3. n \in 0..Len(left)
  BY <1>2, LenProperties, UsageBounds
<1>4. /\ out \in Seq(Records_) /\ IsInjective(out) /\ items' \in Seq(Records_)
      /\ IsInjective(items')
      /\ \A y : y \in ToSet(left) <=> y \in ToSet(out) \/ y \in ToSet(items')
      /\ \A y : ~(y \in ToSet(out) /\ y \in ToSet(items'))
  BY <1>1, <1>2, <1>3, CutDistinct
<1>5. /\ t \in passed /\ passed' = passed \ {t}
      /\ UNCHANGED <<accepted, worker, waiting, enqueuing>>
  BY DEF PopOldest, managerVars
<1>6. t = "forwarder" => popped = <<>> /\ \A y : y \notin ToSet(popped)
  BY <1>5 DEF UsageInv, ToSet
<1>7. /\ t = "forwarder" => popped' = out
      /\ t # "forwarder" => popped' = popped
  BY <1>1
<1> HIDE DEF n, out
<1>8. UsageTypes' /\ NoRepeats'
  BY <1>4, <1>5, <1>7 DEF UsageInv, UsageTypes, NoRepeats
<1>9. Placed'
  <2>1. CASE t = "forwarder"
    BY <1>1, <1>2, <1>4, <1>5, <1>6, <1>7, <2>1 DEF UsageInv, Placed, PlacesOf, If1, Records_
  <2>2. CASE t # "forwarder"
    BY <1>1, <1>2, <1>4, <1>5, <1>7, <2>2 DEF UsageInv, Placed, PlacesOf, If1, Records_
  <2> QED
    BY <2>1, <2>2
<1> QED
  BY <1>5, <1>7, <1>8, <1>9 DEF UsageInv

LEMMA ForwardStep ==
  ASSUME UsageInv, PushUsage \/ ReturnUsage
  PROVE  UsageInv'
<1> DEFINE r == Head(popped)
<1>1. UNCHANGED <<accepted, worker, waiting, items, passed>>
  BY DEF PushUsage, ReturnUsage, managerVars
<1>2. CASE popped = <<>>
  <2>1. UNCHANGED <<accepted, worker, waiting, enqueuing, items, popped, settled, passed>>
    BY <1>1, <1>2 DEF PushUsage, ReturnUsage
  <2> QED
    BY <2>1 DEF UsageInv, UsageTypes, NoRepeats, Placed, PlacesOf
<1>3. CASE popped # <<>>
  <2>1. /\ r \in Records_ /\ r \in ToSet(popped)
        /\ Tail(popped) \in Seq(Records_) /\ IsInjective(Tail(popped))
        /\ \A y : y \in ToSet(Tail(popped)) <=> y \in ToSet(popped) /\ y # r
    BY <1>3, TailDistinct DEF UsageInv, UsageTypes, NoRepeats
  <2>2. "forwarder" \notin passed
    BY <1>3 DEF UsageInv
  <2> HIDE DEF r
  <2>3. CASE PushUsage
    <3>1. /\ enqueuing' = enqueuing
          /\ \/ popped' = Tail(popped) /\ settled' = settled \cup {r}
             \/ popped' = popped /\ settled' = settled
      BY <2>3 DEF PushUsage, Finish, r
    <3>2. UsageTypes' /\ NoRepeats'
      BY <1>1, <2>1, <3>1 DEF UsageInv, UsageTypes, NoRepeats
    <3>3. CASE popped' = Tail(popped) /\ settled' = settled \cup {r}
      <4>1. Placed'
        BY <1>1, <2>1, <3>1, <3>3, PlacedOnce DEF UsageInv, Placed, PlacesOf, If1
      <4> QED
        BY <1>1, <2>2, <3>2, <4>1 DEF UsageInv
    <3>4. CASE popped' = popped /\ settled' = settled
      <4>1. Placed'
        BY <1>1, <3>1, <3>4 DEF UsageInv, Placed, PlacesOf
      <4> QED
        BY <1>1, <2>2, <3>2, <4>1 DEF UsageInv
    <3> QED
      BY <3>1, <3>3, <3>4
  <2>4. CASE ReturnUsage
    <3>1. /\ enqueuing["forwarder"] = NoEnqueue /\ settled' = settled
          /\ popped' = Tail(popped)
          /\ enqueuing' = [enqueuing EXCEPT !["forwarder"] = [step |-> "check", record |-> r]]
      BY <1>3, <2>4 DEF ReturnUsage, EnqueueAt, r
    <3>2. UsageTypes' /\ NoRepeats'
      BY <1>1, <2>1, <3>1 DEF UsageInv, UsageTypes, NoRepeats, Enqueuers, Records_
    <3>3. /\ enqueuing["forwarder"].record = 0 /\ enqueuing'["forwarder"].record = r
          /\ enqueuing'["manager"] = enqueuing["manager"]
      BY <3>1 DEF UsageInv, UsageTypes, NoEnqueue, Enqueuers
    <3>4. Placed'
      BY <1>1, <2>1, <3>1, <3>3 DEF UsageInv, Placed, PlacesOf, If1, Records_
    <3> QED
      BY <1>1, <2>2, <3>2, <3>4 DEF UsageInv
  <2> QED
    BY <2>3, <2>4
<1> QED
  BY <1>2, <1>3

LEMMA ClearUsageStep == UsageInv /\ ClearUsage => UsageInv'
<1> SUFFICES ASSUME UsageInv, ClearUsage PROVE UsageInv'
  OBVIOUS
<1>1. /\ items' = <<>> /\ settled' = settled \cup ToSet(items)
      /\ UNCHANGED <<accepted, worker, waiting, enqueuing, popped, passed>>
  BY DEF ClearUsage, Finish, managerVars, takerVars
<1>2. <<>> \in Seq(Records_) /\ IsInjective(<<>>) /\ \A r : r \notin ToSet(<<>>)
  BY DEF IsInjective, ToSet
<1>3. UsageTypes' /\ NoRepeats'
  BY <1>1, <1>2 DEF UsageInv, UsageTypes, NoRepeats
<1>4. Placed'
  BY <1>1, <1>2 DEF UsageInv, Placed, PlacesOf, If1
<1> QED
  BY <1>1, <1>3, <1>4 DEF UsageInv

LEMMA UsageStep == UsageInv /\ [UsageNext]_usageVars => UsageInv'
<1> SUFFICES ASSUME UsageInv, [UsageNext]_usageVars PROVE UsageInv'
  OBVIOUS
<1> DEFINE Still == UNCHANGED <<accepted, waiting, enqueuing, items, popped, settled>>
<1>1. ASSUME Still, "forwarder" \in passed' => popped = <<>>,
             worker' = "ended" => waiting = <<>>
      PROVE  UsageInv'
  BY <1>1 DEF UsageInv, UsageTypes, NoRepeats, Placed, PlacesOf
<1>2. CASE UNCHANGED usageVars
  BY <1>1, <1>2 DEF usageVars, managerVars, takerVars, UsageInv
<1>3. CASE StopManager \/ ManagerReturns \/ NotifyRefresh
  BY <1>1, <1>3 DEF StopManager, ManagerReturns, NotifyRefresh, managerVars, takerVars, UsageInv
<1>4. ASSUME NEW s \in Subscriptions, Subscribe(s) \/ ReadStream(s) \/ Unsubscribe(s)
      PROVE  UsageInv'
  BY <1>1, <1>4 DEF Subscribe, ReadStream, Unsubscribe, managerVars, takerVars, UsageInv
<1>5. ASSUME NEW t \in {"poller", "forwarder"}, MayPop(t) PROVE UsageInv'
  BY <1>1, <1>5 DEF MayPop, managerVars, UsageInv
<1>6. ASSUME NEW value \in BOOLEAN, SetEnabled(value) PROVE UsageInv'
  BY <1>1, <1>6 DEF SetEnabled, managerVars, takerVars, UsageInv
<1> QED
  BY <1>2, <1>3, <1>4, <1>5, <1>6, PublishStep, DispatchRecordStep, EnqueueStep,
     AppendItemStep, PopStep, ForwardStep, ClearUsageStep DEF UsageNext

\* A sequence without repetitions has an element once, or not at all.
LEMMA TimesOnce ==
  ASSUME NEW S, NEW s \in Seq(S), IsInjective(s), NEW r
  PROVE  Times_(r, s) = If1(r \in ToSet(s))
<1> DEFINE places == {i \in DOMAIN s : s[i] = r}
<1>1. CASE r \in ToSet(s)
  <2>1. PICK i \in DOMAIN s : s[i] = r
    BY <1>1 DEF ToSet
  <2>2. places = {i}
    BY <2>1 DEF IsInjective
  <2> QED
    BY <1>1, <2>2, FS_Singleton DEF Times_, If1
<1>2. CASE r \notin ToSet(s)
  <2>1. places = {}
    BY <1>2 DEF ToSet
  <2> QED
    BY <1>2, <2>1, FS_EmptySet DEF Times_, If1
<1> QED
  BY <1>1, <1>2

LEMMA EnqueuedOnce ==
  ASSUME UsageInv, NEW r \in Records_
  PROVE  Cardinality({e \in Enqueuers : enqueuing[e].record = r})
           = If1(enqueuing["manager"].record = r) + If1(enqueuing["forwarder"].record = r)
<1> DEFINE with == {e \in Enqueuers : enqueuing[e].record = r}
<1>1. ~(enqueuing["manager"].record = r /\ enqueuing["forwarder"].record = r)
  BY PlacedOnce DEF UsageInv
<1>2. CASE enqueuing["manager"].record = r
  <2>1. with = {"manager"}
    BY <1>1, <1>2 DEF Enqueuers
  <2> QED
    BY <1>1, <1>2, <2>1, FS_Singleton DEF If1
<1>3. CASE enqueuing["forwarder"].record = r
  <2>1. with = {"forwarder"}
    BY <1>1, <1>3 DEF Enqueuers
  <2>2. Cardinality(with) = 1
    BY <2>1, FS_Singleton
  <2> QED
    BY <1>1, <1>3, <2>2 DEF If1
<1>4. CASE enqueuing["manager"].record # r /\ enqueuing["forwarder"].record # r
  <2>1. with = {}
    BY <1>4 DEF Enqueuers
  <2> QED
    BY <1>4, <2>1, FS_EmptySet DEF If1
<1> QED
  BY <1>2, <1>3, <1>4

\* A record that was accepted is in one place or done, never in two and never in none,
\* whoever takes, subscribes, brings back or turns the switch.  (run, Enqueue,
\* popOldest, startHomeUsageForwarder)
THEOREM EveryRecordCounts == UsageSpec => []RecordsAreAccounted
<1>1. UsageInv => RecordsAreAccounted
  <2> SUFFICES ASSUME UsageInv, NEW r \in 1..accepted
               PROVE  1 = Times_(r, waiting) + Times_(r, items) + Times_(r, popped)
                          + Cardinality({e \in Enqueuers : enqueuing[e].record = r})
                          + Cardinality({r} \cap settled)
    BY DEF UsageInv, RecordsAreAccounted
  <2>1. r \in Records_ /\ r <= accepted
    BY DEF UsageInv, UsageTypes, Records_
  <2>2. PlacesOf(r) = 1
    BY <2>1 DEF UsageInv, Placed, If1
  <2>3. /\ Times_(r, waiting) = If1(r \in ToSet(waiting))
        /\ Times_(r, items) = If1(r \in ToSet(items))
        /\ Times_(r, popped) = If1(r \in ToSet(popped))
    BY TimesOnce DEF UsageInv, UsageTypes, NoRepeats
  <2>4. Cardinality({r} \cap settled) = If1(r \in settled)
    <3>1. {r} \cap settled = IF r \in settled THEN {r} ELSE {}
      OBVIOUS
    <3> QED
      BY <3>1, FS_Singleton, FS_EmptySet DEF If1
  <2>5. Cardinality({e \in Enqueuers : enqueuing[e].record = r})
          = If1(enqueuing["manager"].record = r) + If1(enqueuing["forwarder"].record = r)
    BY <2>1, EnqueuedOnce
  <2>6. /\ If1(r \in ToSet(waiting)) \in Nat /\ If1(r \in ToSet(items)) \in Nat
        /\ If1(r \in ToSet(popped)) \in Nat /\ If1(r \in settled) \in Nat
        /\ If1(enqueuing["manager"].record = r) \in Nat
        /\ If1(enqueuing["forwarder"].record = r) \in Nat
    BY DEF If1
  <2> QED
    BY <2>2, <2>3, <2>4, <2>5, <2>6 DEF PlacesOf
<1> QED
  BY <1>1, UsageInitInv, UsageStep, PTL DEF UsageSpec

-----------------------------------------------------------------------------
(* The subscribers.                                                        *)

\* The j-th entry due to a subscriber.
DueAt(s, j) == IF j = 1 THEN Greeting ELSE published[since[s] + j - 1]

StreamTypes ==
  /\ published \in Seq(Int) /\ stream \in [Subscriptions -> Seq(Int)]
  /\ since \in [Subscriptions -> Nat] /\ consumed \in [Subscriptions -> Nat]
  /\ subscription \in [Subscriptions -> {"none", "open", "cut", "left"}]

Follows(s) ==
  /\ subscription[s] = "none" => consumed[s] = 0
  /\ subscription[s] \in {"none", "left"} => Len(stream[s]) = 0
  /\ subscription[s] \in {"open", "cut"} =>
       /\ since[s] <= Len(published)
       /\ consumed[s] + Len(stream[s]) <= Len(published) - since[s] + 1
       /\ subscription[s] = "open" =>
            consumed[s] + Len(stream[s]) = Len(published) - since[s] + 1
       /\ \A i \in 1..Len(stream[s]) : stream[s][i] = DueAt(s, consumed[s] + i)

StreamInv == StreamTypes /\ \A s \in Subscriptions : Follows(s)

LEMMA StreamInitInv == UsageInit => StreamInv
<1> SUFFICES ASSUME UsageInit PROVE StreamInv
  OBVIOUS
<1>1. /\ published = <<>> /\ stream = [s \in Subscriptions |-> <<>>]
      /\ since = [s \in Subscriptions |-> 0] /\ consumed = since
      /\ subscription = [s \in Subscriptions |-> "none"]
  BY DEF UsageInit
<1>2. <<>> \in Seq(Int) /\ Len(<<>>) = 0
  BY EmptySeq
<1> QED
  BY <1>1, <1>2 DEF StreamInv, StreamTypes, Follows

\* What is published is due to everyone, and enters the channels that are open.
LEMMA OfferedToAll ==
  ASSUME StreamInv, NEW payload \in Int, PublishToSubscribers(payload)
  PROVE  StreamInv'
<1>1. /\ published' = Append(published, payload)
      /\ since' = since /\ consumed' = consumed
      /\ \A s \in Subscriptions :
           stream'[s] = IF subscription[s] = "open" /\ ~Full(s) THEN Append(stream[s], payload)
                        ELSE stream[s]
      /\ \A s \in Subscriptions :
           subscription'[s] = IF subscription[s] = "open" /\ Full(s) THEN "cut"
                              ELSE subscription[s]
      /\ DOMAIN stream' = Subscriptions /\ DOMAIN subscription' = Subscriptions
      /\ stream' = [s \in Subscriptions |-> stream'[s]]
      /\ subscription' = [s \in Subscriptions |-> subscription'[s]]
  BY DEF PublishToSubscribers, Sent, Subscribed
<1>2. /\ published' \in Seq(Int) /\ Len(published) \in Nat
      /\ Len(published') = Len(published) + 1
      /\ \A i \in 1..Len(published) : published'[i] = published[i]
      /\ published'[Len(published) + 1] = payload
  BY <1>1, AppendProperties, LenProperties DEF StreamInv, StreamTypes
<1>3. ASSUME NEW s \in Subscriptions
      PROVE  stream'[s] \in Seq(Int) /\ Follows(s)'
  <2>1. /\ stream[s] \in Seq(Int) /\ Len(stream[s]) \in Nat /\ since[s] \in Nat
        /\ consumed[s] \in Nat /\ Follows(s)
    BY LenProperties DEF StreamInv, StreamTypes
  <2>2. CASE subscription[s] \in {"none", "left"}
    BY <1>1, <2>1, <2>2 DEF Follows
  <2>3. CASE subscription[s] \in {"open", "cut"}
    <3> DEFINE c == consumed[s]
               l == Len(stream[s])
               n == Len(published)
               b == since[s]
               Due(j) == IF j = 1 THEN Greeting ELSE published'[b + j - 1]
    <3>1. /\ c \in Nat /\ l \in Nat /\ n \in Nat /\ b \in Nat
          /\ b <= n /\ c + l <= n - b + 1
          /\ subscription[s] = "open" => c + l = n - b + 1
          /\ \A i \in 1..l : stream[s][i] = IF c + i = 1 THEN Greeting
                                            ELSE published[b + (c + i) - 1]
      BY <1>2, <2>1, <2>3 DEF Follows, DueAt
    <3>2. \A j : DueAt(s, j)' = Due(j)
      BY <1>1 DEF DueAt
    <3>3. consumed'[s] = c /\ since'[s] = b /\ Len(published') = n + 1
      BY <1>1, <1>2
    <3>4. \A i \in 1..n : published'[i] = published[i]
      BY <1>2
    <3>5. published'[n + 1] = payload
      BY <1>2
    <3> HIDE DEF c, n, b
    <3>6. ASSUME NEW i \in 1..l PROVE stream[s][i] = Due(c + i)
      <4>1. CASE c + i = 1
        BY <3>1, <4>1
      <4>2. CASE c + i # 1
        <5>1. b + (c + i) - 1 \in 1..n
          <6>1. c + i <= n - b + 1
            BY <3>1
          <6> QED
            BY <3>1, <4>2, <6>1
        <5> QED
          BY <3>1, <3>4, <4>2, <5>1
      <4> QED
        BY <4>1, <4>2
    <3>7. CASE subscription[s] = "open" /\ ~Full(s)
      <4>1. stream'[s] = Append(stream[s], payload) /\ subscription'[s] = "open"
        BY <1>1, <3>7
      <4>2. /\ stream'[s] \in Seq(Int) /\ Len(stream'[s]) = l + 1
            /\ \A i \in 1..l : stream'[s][i] = stream[s][i]
            /\ stream'[s][l + 1] = payload
        BY <2>1, <4>1, AppendProperties
      <4> HIDE DEF l
      <4>3. c + (l + 1) # 1 /\ b + (c + (l + 1)) - 1 = n + 1 /\ c + (l + 1) = (n + 1) - b + 1
        BY <3>1, <3>7
      <4>4. Due(c + (l + 1)) = payload
        BY <3>5, <4>3
      <4> HIDE DEF Due
      <4>5. \A i \in 1..l + 1 : stream'[s][i] = Due(c + i)
        <5> TAKE i \in 1..l + 1
        <5>1. CASE i = l + 1
          BY <4>2, <4>4, <5>1
        <5>2. CASE i # l + 1
          <6>1. i \in 1..l
            BY <3>1, <5>2
          <6> QED
            BY <3>6, <4>2, <6>1
        <5> QED
          BY <5>1, <5>2
      <4>6. b <= n + 1
        BY <3>1
      <4> QED
        <5>1. \A i \in 1..Len(stream'[s]) : stream'[s][i] = DueAt(s, consumed[s] + i)'
          BY <3>2, <3>3, <4>2, <4>5
        <5>2. /\ since'[s] <= Len(published')
              /\ consumed'[s] + Len(stream'[s]) = Len(published') - since'[s] + 1
          BY <3>3, <4>2, <4>3, <4>6
        <5>3. consumed'[s] + Len(stream'[s]) <= Len(published') - since'[s] + 1
          BY <3>1, <3>3, <4>2, <5>2
        <5> QED
          BY <2>1, <4>1, <4>2, <5>1, <5>2, <5>3 DEF Follows
    <3>8. CASE ~(subscription[s] = "open" /\ ~Full(s))
      <4>1. stream'[s] = stream[s] /\ subscription'[s] = "cut"
        BY <1>1, <2>3, <3>8
      <4>2. b <= n + 1 /\ c + l <= (n + 1) - b + 1
        BY <3>1
      <4> HIDE DEF Due
      <4> QED
        BY <2>1, <3>2, <3>3, <3>6, <4>1, <4>2 DEF Follows
    <3> QED
      BY <3>7, <3>8
  <2> QED
    BY <2>2, <2>3, <2>1, <1>1 DEF StreamInv, StreamTypes
<1>4. \A s \in Subscriptions : subscription'[s] \in {"none", "open", "cut", "left"}
  BY <1>1 DEF StreamInv, StreamTypes
<1>5. stream' \in [Subscriptions -> Seq(Int)]
      /\ subscription' \in [Subscriptions -> {"none", "open", "cut", "left"}]
  BY <1>1, <1>3, <1>4
<1> QED
  BY <1>1, <1>2, <1>3, <1>5 DEF StreamInv, StreamTypes

LEMMA SubscribeStep ==
  ASSUME StreamInv, NEW u \in Subscriptions, Subscribe(u)
  PROVE  StreamInv'
<1>1. /\ subscription[u] = "none" /\ subscription' = [subscription EXCEPT ![u] = "open"]
      /\ stream' = [stream EXCEPT ![u] = <<Greeting>>]
      /\ since' = [since EXCEPT ![u] = Len(published)]
      /\ UNCHANGED <<consumed, published>>
  BY DEF Subscribe
<1>2. /\ <<Greeting>> \in Seq(Int) /\ Len(<<Greeting>>) = 1 /\ <<Greeting>>[1] = Greeting
      /\ Len(published) \in Nat
  BY LenProperties DEF Greeting, StreamInv, StreamTypes
<1>3. StreamTypes'
  BY <1>1, <1>2 DEF StreamInv, StreamTypes
<1>4. ASSUME NEW s \in Subscriptions, s # u PROVE Follows(s)'
  <2>1. /\ stream'[s] = stream[s] /\ since'[s] = since[s] /\ consumed' = consumed
        /\ subscription'[s] = subscription[s] /\ published' = published
    BY <1>1, <1>4 DEF StreamInv, StreamTypes
  <2> QED
    BY <2>1 DEF StreamInv, Follows, DueAt
<1>5. Follows(u)'
  <2>1. /\ stream'[u] = <<Greeting>> /\ since'[u] = Len(published) /\ consumed'[u] = 0
        /\ subscription'[u] = "open" /\ published' = published
    BY <1>1 DEF StreamInv, StreamTypes, Follows
  <2>2. \A i \in 1..1 : <<Greeting>>[i] = DueAt(u, consumed[u] + i)'
    BY <1>2, <2>1 DEF DueAt
  <2> QED
    BY <1>2, <2>1, <2>2 DEF Follows
<1> QED
  BY <1>3, <1>4, <1>5 DEF StreamInv

LEMMA ReadStreamStep ==
  ASSUME StreamInv, NEW u \in Subscriptions, ReadStream(u)
  PROVE  StreamInv'
<1>1. /\ stream[u] # <<>> /\ stream' = [stream EXCEPT ![u] = Tail(stream[u])]
      /\ consumed' = [consumed EXCEPT ![u] = consumed[u] + 1]
      /\ UNCHANGED <<subscription, since, published>>
  BY DEF ReadStream
<1>2. /\ stream[u] \in Seq(Int) /\ Len(stream[u]) \in Nat \ {0} /\ consumed[u] \in Nat
      /\ since[u] \in Nat /\ Len(published) \in Nat
  BY <1>1, EmptySeq, LenProperties DEF StreamInv, StreamTypes
<1>3. /\ Tail(stream[u]) \in Seq(Int) /\ Len(Tail(stream[u])) = Len(stream[u]) - 1
      /\ \A i \in 1..Len(stream[u]) - 1 : Tail(stream[u])[i] = stream[u][i + 1]
  BY <1>1, <1>2, HeadTailProperties
<1>4. StreamTypes'
  BY <1>1, <1>2, <1>3 DEF StreamInv, StreamTypes
<1>5. ASSUME NEW s \in Subscriptions, s # u PROVE Follows(s)'
  <2>1. /\ stream'[s] = stream[s] /\ since'[s] = since[s] /\ consumed'[s] = consumed[s]
        /\ subscription'[s] = subscription[s] /\ published' = published
    BY <1>1, <1>5 DEF StreamInv, StreamTypes
  <2> QED
    BY <2>1 DEF StreamInv, Follows, DueAt
<1>6. Follows(u)'
  <2> DEFINE c == consumed[u]
             l == Len(stream[u])
             n == Len(published)
             b == since[u]
             Due(j) == IF j = 1 THEN Greeting ELSE published[b + j - 1]
  <2>1. /\ stream'[u] = Tail(stream[u]) /\ Len(stream'[u]) = l - 1 /\ consumed'[u] = c + 1
        /\ since'[u] = b /\ subscription'[u] = subscription[u] /\ Len(published') = n
        /\ \A j : DueAt(u, j)' = Due(j) /\ DueAt(u, j) = Due(j)
    BY <1>1, <1>3 DEF StreamInv, StreamTypes, DueAt
  <2>2. subscription[u] \in {"open", "cut"}
    BY <1>2 DEF StreamInv, StreamTypes, Follows
  <2>3. /\ b <= n /\ c + l <= n - b + 1
        /\ subscription[u] = "open" => c + l = n - b + 1
        /\ \A i \in 1..l : stream[u][i] = Due(c + i)
    BY <2>1, <2>2 DEF StreamInv, Follows
  <2> HIDE DEF c, l, n, b, Due
  <2>4. (c + 1) + (l - 1) = c + l
    BY <1>2 DEF c, l
  <2>5. \A i \in 1..l - 1 : Tail(stream[u])[i] = Due((c + 1) + i)
    <3> TAKE i \in 1..l - 1
    <3>0. l \in Nat \ {0} /\ c \in Nat
      BY <1>2 DEF c, l
    <3>1. i + 1 \in 1..l /\ c + (i + 1) = (c + 1) + i
      BY <3>0
    <3> QED
      BY <1>3, <2>3, <3>1 DEF l
  <2> QED
    BY <2>1, <2>2, <2>3, <2>4, <2>5 DEF Follows
<1> QED
  BY <1>4, <1>5, <1>6 DEF StreamInv

LEMMA StreamStep == UsageInv /\ StreamInv /\ [UsageNext]_usageVars => StreamInv'
<1> SUFFICES ASSUME UsageInv, StreamInv, [UsageNext]_usageVars PROVE StreamInv'
  OBVIOUS
<1>1. ASSUME UNCHANGED readerVars PROVE StreamInv'
  BY <1>1 DEF readerVars, StreamInv, StreamTypes, Follows, DueAt
<1>2. ASSUME NEW e \in Enqueuers, Offer(e) PROVE StreamInv'
  <2>1. enqueuing[e].record \in Int
    BY DEF UsageInv, UsageTypes
  <2> QED
    BY <1>1, <1>2, <2>1, OfferedToAll DEF Offer
<1>3. CASE NotifyRefresh
  <2>1. RefreshNotice \in Int
    BY DEF RefreshNotice
  <2> QED
    BY <1>1, <1>3, <2>1, OfferedToAll DEF NotifyRefresh
<1>4. ASSUME NEW u \in Subscriptions, Unsubscribe(u) PROVE StreamInv'
  <2>1. /\ subscription[u] \in {"open", "cut"}
        /\ subscription' = [subscription EXCEPT ![u] = "left"]
        /\ stream' = [stream EXCEPT ![u] = <<>>] /\ UNCHANGED <<since, consumed, published>>
    BY <1>4 DEF Unsubscribe
  <2>2. <<>> \in Seq(Int) /\ Len(<<>>) = 0
    BY EmptySeq
  <2>3. StreamTypes'
    BY <2>1, <2>2 DEF StreamInv, StreamTypes
  <2>4. ASSUME NEW s \in Subscriptions PROVE Follows(s)'
    <3>1. CASE s = u
      BY <2>1, <2>2, <3>1 DEF StreamInv, StreamTypes, Follows
    <3>2. CASE s # u
      <4>1. stream'[s] = stream[s] /\ subscription'[s] = subscription[s]
        BY <2>1, <3>2 DEF StreamInv, StreamTypes
      <4> QED
        BY <2>1, <4>1 DEF StreamInv, Follows, DueAt
    <3> QED
      BY <3>1, <3>2
  <2> QED
    BY <2>3, <2>4 DEF StreamInv
<1>5. CASE ClearUsage
  <2>1. /\ subscription' = [s \in Subscriptions |-> IF s \in Subscribed THEN "cut"
                                                    ELSE subscription[s]]
        /\ UNCHANGED <<stream, since, consumed, published>>
    BY <1>5 DEF ClearUsage
  <2>2. StreamTypes'
    BY <2>1 DEF StreamInv, StreamTypes
  <2>3. ASSUME NEW s \in Subscriptions PROVE Follows(s)'
    <3>1. subscription'[s] = IF subscription[s] = "open" THEN "cut" ELSE subscription[s]
      BY <2>1 DEF Subscribed
    <3> QED
      BY <2>1, <3>1 DEF StreamInv, Follows, DueAt
  <2> QED
    BY <2>2, <2>3 DEF StreamInv
<1>6. CASE UNCHANGED usageVars
  BY <1>1, <1>6 DEF usageVars
<1>7. CASE PublishRecord \/ StopManager \/ ManagerReturns \/ DispatchRecord \/ PushUsage
           \/ ReturnUsage
  BY <1>1, <1>7 DEF PublishRecord, StopManager, ManagerReturns, DispatchRecord, PushUsage,
     ReturnUsage
<1>8. ASSUME NEW e \in Enqueuers, CheckEnabled(e) \/ AppendItem(e) PROVE StreamInv'
  BY <1>1, <1>8 DEF CheckEnabled, AppendItem
<1>9. ASSUME NEW t \in {"poller", "forwarder"}, MayPop(t) \/ PopOldest(t) PROVE StreamInv'
  BY <1>1, <1>9 DEF MayPop, PopOldest
<1>10. ASSUME NEW value \in BOOLEAN, SetEnabled(value) PROVE StreamInv'
  BY <1>1, <1>10 DEF SetEnabled
<1> QED
  BY <1>2, <1>3, <1>4, <1>5, <1>6, <1>7, <1>8, <1>9, <1>10, SubscribeStep, ReadStreamStep
     DEF UsageNext

\* What a subscriber has read and what waits for it is all that was published since it
\* subscribed, in order and without a gap, or ends where it was cut off, for any number
\* of subscribers and payloads and any capacity.  (publishToSubscribers, clear)
THEOREM SubscribersAreServed == UsageSpec => []SubscribersMissNothing
<1>1. StreamInv => SubscribersMissNothing
  <2> SUFFICES ASSUME StreamInv, NEW s \in Subscriptions, subscription[s] \in {"open", "cut"}
               PROVE  LET due == <<Greeting>> \o SubSeq(published, since[s] + 1, Len(published))
                          seen == consumed[s] + Len(stream[s])
                      IN  /\ seen <= Len(due)
                          /\ stream[s] = SubSeq(due, consumed[s] + 1, seen)
                          /\ subscription[s] = "open" => seen = Len(due)
    BY DEF SubscribersMissNothing
  <2> DEFINE c == consumed[s]
             l == Len(stream[s])
             n == Len(published)
             b == since[s]
             later == SubSeq(published, b + 1, n)
             due == <<Greeting>> \o later
             part == SubSeq(due, c + 1, c + l)
  <2>1. /\ stream[s] \in Seq(Int) /\ published \in Seq(Int)
        /\ l \in Nat /\ n \in Nat /\ c \in Nat /\ b \in Nat
        /\ b <= n /\ c + l <= n - b + 1
        /\ subscription[s] = "open" => c + l = n - b + 1
        /\ \A i \in 1..l : stream[s][i] = DueAt(s, c + i)
    BY LenProperties DEF StreamInv, StreamTypes, Follows
  <2> HIDE DEF c, l, n, b
  <2>2. \A i \in b + 1..n : published[i] \in Int
    BY <2>1, ElementOfSeq DEF n
  <2>3. /\ later \in Seq(Int) /\ Len(later) = n - b
        /\ \A i \in 1..n - b : later[i] = published[b + i]
    <3>1. /\ later \in Seq(Int) /\ Len(later) = IF b + 1 <= n THEN n - (b + 1) + 1 ELSE 0
          /\ \A i \in 1..n - (b + 1) + 1 : later[i] = published[(b + 1) + i - 1]
      <4>1. b + 1 \in Int /\ n \in Int
        BY <2>1
      <4> DEFINE first == b + 1
      <4>2. first \in Int /\ \A i \in first..n : published[i] \in Int
        BY <4>1, <2>2
      <4> HIDE DEF first
      <4>3. /\ SubSeq(published, first, n) \in Seq(Int)
            /\ Len(SubSeq(published, first, n)) = IF first <= n THEN n - first + 1 ELSE 0
            /\ \A i \in 1..n - first + 1 : SubSeq(published, first, n)[i] = published[first + i - 1]
        BY <4>1, <4>2, SubSeqProperties
      <4> QED
        BY <4>3 DEF first
    <3> HIDE DEF later
    <3>3. Len(later) = n - b
      BY <2>1, <3>1
    <3>4. ASSUME NEW i \in 1..n - b PROVE later[i] = published[b + i]
      <4>1. i \in 1..n - (b + 1) + 1 /\ (b + 1) + i - 1 = b + i
        BY <2>1
      <4> QED
        BY <3>1, <4>1
    <3> QED
      BY <3>1, <3>3, <3>4
  <2> HIDE DEF later
  <2>4. /\ <<Greeting>> \in Seq(Int) /\ Len(<<Greeting>>) = 1 /\ <<Greeting>>[1] = Greeting
    BY DEF Greeting
  <2>5. /\ due \in Seq(Int) /\ Len(due) = 1 + (n - b)
        /\ \A i \in 1..1 + (n - b) :
             due[i] = IF i <= 1 THEN <<Greeting>>[i] ELSE later[i - 1]
    BY <2>3, <2>4, ConcatProperties
  <2> HIDE DEF due
  <2>6. \A i \in c + 1..c + l : due[i] \in Int
    BY <2>1, <2>5, ElementOfSeq
  <2>7. /\ part \in Seq(Int) /\ Len(part) = l
        /\ \A i \in 1..l : part[i] = due[c + i]
    <3>1. /\ part \in Seq(Int)
          /\ Len(part) = IF c + 1 <= c + l THEN (c + l) - (c + 1) + 1 ELSE 0
          /\ \A i \in 1..(c + l) - (c + 1) + 1 : part[i] = due[(c + 1) + i - 1]
      BY <2>1, <2>6, SubSeqProperties
    <3>2. (c + l) - (c + 1) + 1 = l /\ \A i \in 1..l : (c + 1) + i - 1 = c + i
      BY <2>1
    <3> QED
      BY <2>1, <3>1, <3>2
  <2> HIDE DEF part
  <2>8. ASSUME NEW i \in 1..l PROVE stream[s][i] = part[i]
    <3>1. c + i \in 1..1 + (n - b)
      BY <2>1
    <3>2. CASE c + i = 1
      <4>1. part[i] = due[1] /\ 1 \in 1..1 + (n - b)
        BY <2>7, <3>1, <3>2
      <4>2. due[1] = Greeting
        BY <2>4, <2>5, <4>1
      <4> QED
        BY <2>1, <3>2, <4>1, <4>2 DEF DueAt
    <3>3. CASE c + i # 1
      <4>1. (c + i) - 1 \in 1..n - b /\ ~(c + i <= 1) /\ b + ((c + i) - 1) = b + (c + i) - 1
        BY <2>1, <3>1, <3>3
      <4>2. due[c + i] = published[b + (c + i) - 1]
        BY <2>3, <2>5, <3>1, <4>1
      <4> QED
        BY <2>1, <2>7, <3>3, <4>2 DEF DueAt, b
    <3> QED
      BY <3>2, <3>3
  <2>9. stream[s] = part
    BY <2>1, <2>7, <2>8, SeqEqual DEF l
  <2> QED
    <3>1. c + l <= Len(due) /\ (subscription[s] = "open" => c + l = Len(due))
      BY <2>1, <2>5
    <3>2. stream[s] = SubSeq(due, c + 1, c + l)
      BY <2>9 DEF part
    <3> QED
      BY <3>1, <3>2 DEF c, l, n, b, due, later
<1> QED
  BY <1>1, UsageInitInv, UsageStep, StreamInitInv, StreamStep, PTL DEF UsageSpec

-----------------------------------------------------------------------------
(* The limits of the queue, of its subscribers and of a pop.               *)

Limited ==
  /\ accepted <= MaxRecords /\ worker \in {"running", "closed", "ended"}
  /\ settled \subseteq Records_
  /\ \A s \in Subscriptions : Len(stream[s]) <= StreamBuffer
  /\ Len(popped) <= PopCount

LEMMA LimitedAtStart == UsageInit => Limited
BY UsageBounds, EmptySeq DEF UsageInit, Limited

LEMMA SettledAreRecords ==
  ASSUME UsageInv, settled \subseteq Records_, [UsageNext]_usageVars
  PROVE  settled' \subseteq Records_
<1>1. ToSet(items) \subseteq Records_
  BY InSequence DEF UsageInv, UsageTypes
<1>2. \A s \in Seq(Records_) : s # <<>> => Head(s) \in Records_
  BY HeadTailProperties
<1>3. \A e \in Enqueuers : enqueuing[e].step # "none" => enqueuing[e].record \in Records_
  BY DEF UsageInv, UsageTypes, Records_
<1>4. CASE UNCHANGED settled
  BY <1>4
<1>5. CASE DispatchRecord \/ PushUsage
  BY <1>2, <1>5 DEF DispatchRecord, PushUsage, Finish, UsageInv, UsageTypes
<1>6. ASSUME NEW e \in Enqueuers, CheckEnabled(e) \/ Offer(e)
      PROVE  settled' \subseteq Records_
  <2>1. enqueuing[e].record \in Records_
    BY <1>3, <1>6 DEF CheckEnabled, Offer
  <2> QED
    BY <1>6, <2>1 DEF CheckEnabled, Offer, Finish
<1>7. ASSUME NEW e \in Enqueuers, AppendItem(e) PROVE settled' \subseteq Records_
  BY <1>1, <1>7 DEF AppendItem, Finish
<1>8. ASSUME NEW t \in {"poller", "forwarder"}, PopOldest(t) PROVE settled' \subseteq Records_
  BY <1>1, <1>8 DEF PopOldest, Finish
<1>9. CASE ClearUsage
  BY <1>1, <1>9 DEF ClearUsage, Finish
<1>10. CASE PublishRecord \/ StopManager \/ ManagerReturns \/ NotifyRefresh \/ ReturnUsage
            \/ UNCHANGED usageVars
  BY <1>4, <1>10 DEF PublishRecord, StopManager, ManagerReturns, NotifyRefresh, ReturnUsage,
     usageVars
<1>11. ASSUME NEW s \in Subscriptions, Subscribe(s) \/ ReadStream(s) \/ Unsubscribe(s)
       PROVE  settled' \subseteq Records_
  BY <1>4, <1>11 DEF Subscribe, ReadStream, Unsubscribe
<1>12. ASSUME NEW t \in {"poller", "forwarder"}, MayPop(t) PROVE settled' \subseteq Records_
  BY <1>4, <1>12 DEF MayPop
<1>13. ASSUME NEW value \in BOOLEAN, SetEnabled(value) PROVE settled' \subseteq Records_
  BY <1>4, <1>13 DEF SetEnabled
<1> QED
  BY <1>5, <1>6, <1>7, <1>8, <1>9, <1>10, <1>11, <1>12, <1>13 DEF UsageNext

\* A payload goes only into a channel that has room.
LEMMA SentHasRoom ==
  ASSUME StreamInv, Limited, NEW payload \in Int, PublishToSubscribers(payload)
  PROVE  \A s \in Subscriptions : Len(stream'[s]) <= StreamBuffer
<1> SUFFICES ASSUME NEW s \in Subscriptions PROVE Len(stream'[s]) <= StreamBuffer
  OBVIOUS
<1>1. stream'[s] = IF s \in Subscribed /\ ~Full(s) THEN Append(stream[s], payload)
                   ELSE stream[s]
  BY DEF PublishToSubscribers, Sent
<1>2. stream[s] \in Seq(Int) /\ Len(stream[s]) \in Nat /\ Len(stream[s]) <= StreamBuffer
  BY LenProperties DEF StreamInv, StreamTypes, Limited
<1>3. Len(Append(stream[s], payload)) = Len(stream[s]) + 1
  BY <1>2, AppendProperties
<1>4. StreamBuffer \in Nat \ {0}
  BY UsageBounds
<1>5. CASE s \in Subscribed /\ ~Full(s)
  <2>1. Len(stream[s]) < StreamBuffer
    BY <1>2, <1>4, <1>5 DEF Full
  <2>2. Len(stream'[s]) = Len(stream[s]) + 1
    BY <1>1, <1>3, <1>5
  <2> QED
    BY <1>2, <1>4, <2>1, <2>2
<1>6. CASE ~(s \in Subscribed /\ ~Full(s))
  <2>1. stream'[s] = stream[s]
    BY <1>1, <1>6
  <2> QED
    BY <1>2, <2>1
<1> QED
  BY <1>5, <1>6

LEMMA LimitsHold ==
  ASSUME UsageInv, StreamInv, Limited, [UsageNext]_usageVars
  PROVE  Limited'
<1> DEFINE Room == \A s \in Subscriptions : Len(stream'[s]) <= StreamBuffer
           Few == Len(popped') <= PopCount
           Rest == accepted' <= MaxRecords /\ worker' \in {"running", "closed", "ended"}
<1>1. UNCHANGED stream => Room
  BY DEF Limited
<1>2. UNCHANGED popped => Few
  BY DEF Limited
<1>3. UNCHANGED <<accepted, worker>> => Rest
  BY DEF Limited
<1>4. settled' \subseteq Records_
  BY SettledAreRecords DEF Limited
<1> SUFFICES Room /\ Few /\ Rest
  BY <1>4 DEF Limited
<1>5. ASSUME NEW payload \in Int, PublishToSubscribers(payload) PROVE Room
  BY <1>5, SentHasRoom
<1>6. popped \in Seq(Records_) /\ Len(popped) \in Nat /\ Len(popped) <= PopCount
  BY LenProperties DEF UsageInv, UsageTypes, Limited
<1>7. popped # <<>> => Len(Tail(popped)) <= PopCount
  BY <1>6, HeadTailProperties, UsageBounds
<1>8. \A e \in Enqueuers : enqueuing[e].record \in Int
  BY DEF UsageInv, UsageTypes
<1>9. RefreshNotice \in Int /\ Len(<<>>) = 0
  BY EmptySeq DEF RefreshNotice
<1> HIDE DEF Room, Few, Rest
<1>10. CASE PublishRecord
  <2>1. UNCHANGED stream /\ UNCHANGED <<popped, worker>> /\ accepted' = accepted + 1
        /\ accepted < MaxRecords
    BY <1>10 DEF PublishRecord, readerVars, takerVars
  <2>2. Rest
    BY <2>1, UsageBounds DEF Rest, Limited, UsageInv, UsageTypes
  <2> QED
    BY <1>1, <1>2, <2>1, <2>2
<1>11. CASE StopManager \/ ManagerReturns
  <2>1. UNCHANGED stream /\ UNCHANGED popped /\ accepted' = accepted
        /\ worker' \in {"closed", "ended"}
    BY <1>11 DEF StopManager, ManagerReturns, readerVars, takerVars
  <2>2. Rest
    BY <2>1 DEF Rest, Limited
  <2> QED
    BY <1>1, <1>2, <2>1, <2>2
<1>12. ASSUME UNCHANGED managerVars \/ UNCHANGED <<accepted, worker>> PROVE Rest
  BY <1>3, <1>12 DEF managerVars
<1>13. ASSUME UNCHANGED takerVars \/ UNCHANGED popped PROVE Few
  BY <1>2, <1>13 DEF takerVars
<1>14. ASSUME UNCHANGED readerVars \/ UNCHANGED stream PROVE Room
  BY <1>1, <1>14 DEF readerVars
<1>15. CASE DispatchRecord
  BY <1>12, <1>13, <1>14, <1>15 DEF DispatchRecord
<1>16. ASSUME NEW e \in Enqueuers, CheckEnabled(e) \/ AppendItem(e) PROVE Room /\ Few /\ Rest
  BY <1>12, <1>13, <1>14, <1>16 DEF CheckEnabled, AppendItem
<1>17. ASSUME NEW e \in Enqueuers, Offer(e) PROVE Room /\ Few /\ Rest
  <2>1. UNCHANGED readerVars \/ PublishToSubscribers(enqueuing[e].record)
    BY <1>17 DEF Offer
  <2>2. UNCHANGED managerVars /\ UNCHANGED takerVars
    BY <1>17 DEF Offer
  <2> QED
    BY <1>5, <1>8, <1>12, <1>13, <1>14, <2>1, <2>2
<1>18. CASE NotifyRefresh
  <2>1. UNCHANGED readerVars \/ PublishToSubscribers(RefreshNotice)
    BY <1>18 DEF NotifyRefresh
  <2>2. UNCHANGED managerVars /\ UNCHANGED takerVars
    BY <1>18 DEF NotifyRefresh
  <2> QED
    BY <1>5, <1>9, <1>12, <1>13, <1>14, <2>1, <2>2
<1>19. ASSUME NEW u \in Subscriptions, Subscribe(u) \/ ReadStream(u) \/ Unsubscribe(u)
       PROVE  Room /\ Few /\ Rest
  <2>1. UNCHANGED managerVars /\ UNCHANGED takerVars
    BY <1>19 DEF Subscribe, ReadStream, Unsubscribe
  <2>2. \/ stream' = [stream EXCEPT ![u] = <<Greeting>>]
        \/ stream' = [stream EXCEPT ![u] = <<>>]
        \/ stream[u] # <<>> /\ stream' = [stream EXCEPT ![u] = Tail(stream[u])]
    BY <1>19 DEF Subscribe, ReadStream, Unsubscribe
  <2>3. /\ stream \in [Subscriptions -> Seq(Int)] /\ stream[u] \in Seq(Int)
        /\ Len(stream[u]) \in Nat
    BY LenProperties DEF StreamInv, StreamTypes
  <2>4. stream[u] # <<>> => Len(Tail(stream[u])) = Len(stream[u]) - 1
    BY <2>3, HeadTailProperties
  <2>5. Len(<<Greeting>>) = 1
    OBVIOUS
  <2>6. Len(stream'[u]) <= StreamBuffer
    <3>1. StreamBuffer \in Nat \ {0} /\ Len(stream[u]) <= StreamBuffer
      BY UsageBounds DEF Limited
    <3>2. \/ stream'[u] = <<Greeting>> \/ stream'[u] = <<>>
          \/ stream[u] # <<>> /\ stream'[u] = Tail(stream[u])
      BY <2>2, <2>3
    <3>3. \/ Len(stream'[u]) = 1 \/ Len(stream'[u]) = 0
          \/ Len(stream'[u]) = Len(stream[u]) - 1
      BY <1>9, <2>4, <2>5, <3>2
    <3> DEFINE l == Len(stream[u])
               k == Len(stream'[u])
    <3>4. l \in Nat /\ l <= StreamBuffer /\ (k = 1 \/ k = 0 \/ k = l - 1)
      BY <2>3, <3>1, <3>3
    <3> HIDE DEF l, k
    <3>5. k <= StreamBuffer
      BY <3>1, <3>4
    <3> QED
      BY <3>5 DEF k
  <2>7. \A s \in Subscriptions : s # u => stream'[s] = stream[s]
    BY <2>2, <2>3
  <2>8. Room
    BY <2>6, <2>7 DEF Room, Limited
  <2> QED
    BY <1>12, <1>13, <2>1, <2>8
<1>20. ASSUME NEW t \in {"poller", "forwarder"}, MayPop(t) PROVE Room /\ Few /\ Rest
  BY <1>12, <1>13, <1>14, <1>20 DEF MayPop
<1>21. ASSUME NEW t \in {"poller", "forwarder"}, PopOldest(t) PROVE Room /\ Few /\ Rest
  <2> DEFINE Fits(left) == IF PopCount < Len(left) THEN PopCount ELSE Len(left)
  <2>1. PICK left \in Prunings : popped' = SubSeq(left, 1, Fits(left)) \/ popped' = popped
    BY <1>21 DEF PopOldest
  <2>2. left \in Seq(Records_)
    <3>1. PICK k \in 1..Len(items) + 1 : left = SubSeq(items, k, Len(items))
      BY DEF Prunings
    <3> QED
      BY <3>1, PrunedDistinct DEF UsageInv, UsageTypes, NoRepeats
  <2> DEFINE n == Fits(left)
  <2>3. n \in 0..Len(left) /\ n <= PopCount /\ Len(left) \in Nat
    BY <2>2, LenProperties, UsageBounds
  <2> HIDE DEF n
  <2>4. Len(SubSeq(left, 1, n)) = n
    BY <2>2, <2>3, SubSeqProperties
  <2>5. Few
    BY <1>2, <2>1, <2>3, <2>4 DEF Few, n
  <2>6. UNCHANGED managerVars /\ UNCHANGED readerVars
    BY <1>21 DEF PopOldest
  <2> QED
    BY <1>12, <1>14, <2>5, <2>6
<1>22. CASE PushUsage \/ ReturnUsage
  <2>1. popped' = popped \/ (popped # <<>> /\ popped' = Tail(popped))
    BY <1>22 DEF PushUsage, ReturnUsage
  <2>2. Few
    BY <1>2, <1>7, <2>1 DEF Few
  <2> QED
    BY <1>12, <1>14, <1>22, <2>2 DEF PushUsage, ReturnUsage
<1>23. ASSUME NEW value \in BOOLEAN, SetEnabled(value) PROVE Room /\ Few /\ Rest
  BY <1>12, <1>13, <1>14, <1>23 DEF SetEnabled
<1>24. CASE ClearUsage
  BY <1>12, <1>13, <1>1, <1>24 DEF ClearUsage
<1>25. CASE UNCHANGED usageVars
  <2>1. UNCHANGED managerVars /\ UNCHANGED takerVars /\ UNCHANGED readerVars
    BY <1>25 DEF usageVars
  <2> QED
    BY <1>12, <1>13, <1>14, <2>1
<1> QED
  BY <1>10, <1>11, <1>15, <1>16, <1>17, <1>18, <1>19, <1>20, <1>21, <1>22, <1>23, <1>24,
     <1>25 DEF UsageNext

\* Every record that is anywhere was accepted, the channel of a subscriber never holds
\* more than its capacity and the forwarder no more than a pop takes, whoever offers,
\* takes, reads and comes back.  (Publish, publishToSubscribers, popOldest)
THEOREM UsageTypesHold == UsageSpec => []UsageTypeOK
<1>1. UsageInv /\ Limited => UsageTypeOK
  <2> SUFFICES ASSUME UsageInv, Limited PROVE UsageTypeOK
    OBVIOUS
  <2>1. /\ ToSet(waiting) \subseteq Records_ /\ ToSet(items) \subseteq Records_
        /\ ToSet(popped) \subseteq Records_ /\ settled \subseteq Records_
    BY InSequence DEF UsageInv, UsageTypes, Limited
  <2>2. ASSUME NEW r \in Records_,
               r \in ToSet(waiting) \cup ToSet(items) \cup ToSet(popped) \cup settled
        PROVE  r \in 1..accepted
    <3>1. r <= accepted
      BY <2>2, PlacedOnce DEF UsageInv
    <3> QED
      BY <3>1 DEF UsageInv, UsageTypes, Records_
  <2>3. ASSUME NEW e \in Enqueuers PROVE enqueuing[e].record \in 0..accepted
    <3> DEFINE r == enqueuing[e].record
    <3>1. r \in Nat /\ accepted \in Nat
      BY DEF UsageInv, UsageTypes
    <3>2. CASE r = 0
      BY <3>1, <3>2
    <3>3. CASE r # 0
      <4>1. r \in Records_ /\ PlacesOf(r) = If1(r <= accepted)
        BY <3>1, <3>3 DEF Records_, UsageInv, Placed
      <4>2. PlacesOf(r) > 0
        BY DEF PlacesOf, If1, Enqueuers
      <4> HIDE DEF r
      <4>3. r <= accepted
        BY <4>1, <4>2 DEF If1
      <4>4. r \in 0..accepted
        BY <3>1, <4>3
      <4> QED
        BY <4>4 DEF r
    <3> QED
      BY <3>2, <3>3
  <2>4. accepted \in 0..MaxRecords
    BY UsageBounds DEF UsageInv, UsageTypes, Limited
  <2> QED
    BY <2>1, <2>2, <2>3, <2>4 DEF UsageTypeOK, Limited
<1> QED
  BY <1>1, UsageInitInv, UsageStep, StreamInitInv, StreamStep, LimitedAtStart, LimitsHold, PTL
     DEF UsageSpec

-----------------------------------------------------------------------------
(***************************************************************************)
(* The inspection of accounts, for any accounts, workers, settings and      *)
(* answers.  A worker sleeps only while somebody is still to wake it        *)
(* (SleepInv); no probe that was cut off is among the results when the      *)
(* automatic actions begin, and none comes later (CutInv); and the summary  *)
(* counts the list, which a result enters, leaves or is replaced in one at  *)
(* a time (SummaryInv).                                                     *)
(***************************************************************************)

(* The sleepers.                                                           *)

SleepInv ==
  /\ DOMAIN spot = Probers
  /\ ctx = "live" => ~told
  /\ SleepersAreWoken

\* What a worker waits for is told by the first of its tuple.
LEMMA Awakened ==
  ASSUME DOMAIN spot = Probers, spot' = Awake
  PROVE  DOMAIN spot' = Probers /\ \A w \in Probers : spot'[w] # <<"sleeping">>
<1>1. <<"asking">> # <<"sleeping">>
  OBVIOUS
<1> QED
  BY <1>1 DEF Awake

\* A call of a user, which leaves the run alone.
CallOf(u) ==
  ActByHand(u) \/ EnterOutcome(u) \/ InspectOne(u) \/ RefreshOne(u) \/ InspectedOne(u)
    \/ RefreshTokenByHand(u) \/ MergeRefresh(u)

LEMMA CallsLeaveRun == ASSUME NEW u, CallOf(u) PROVE UNCHANGED <<run, runState>>
BY Zenon DEF CallOf, ActByHand, EnterOutcome, InspectOne, RefreshOne, InspectedOne,
             RefreshTokenByHand, MergeRefresh

LEMMA SleepInit == InspectionInit => SleepInv
BY DEF InspectionInit, SleepInv, SleepersAreWoken

LEMMA SleepStep == SleepInv /\ [InspectionNext]_inspectionVars => SleepInv'
<1> SUFFICES ASSUME SleepInv, [InspectionNext]_inspectionVars PROVE SleepInv'
  OBVIOUS
<1> USE DEF SleepInv, SleepersAreWoken, MoveTo, credentials, shown, run
<1>1. CASE UNCHANGED inspectionVars
  BY <1>1 DEF inspectionVars
<1>2. CASE StartRun
  BY <1>2 DEF StartRun, Busy
<1>3. CASE PauseRun
  BY <1>3 DEF PauseRun
<1>4. CASE ResumeRun \/ StopRun \/ TellSleepers
  BY <1>4, Awakened DEF ResumeRun, StopRun, TellSleepers
<1>5. CASE CtxOver
  BY <1>5 DEF CtxOver, CtxEnds
<1>6. CASE ListAccounts \/ ListingFails
  BY <1>6 DEF ListAccounts, ListingFails
<1>7. CASE ActOnResults
  BY <1>7 DEF ActOnResults
<1>8. CASE EndRun
  BY <1>8 DEF EndRun, WorkersDone
<1>9. ASSUME NEW w \in Probers, Ask(w) \/ Take(w) PROVE SleepInv'
  BY <1>9 DEF Ask, Take, GiveUp
<1>10. ASSUME NEW w \in Probers, Refresh(w) \/ Probe(w) PROVE SleepInv'
  BY <1>10 DEF Refresh, Probe, GiveUp, Note
<1>11. ASSUME NEW w \in Probers, Choose(w) \/ ExecuteAuto(w) PROVE SleepInv'
  BY <1>11 DEF Choose, ExecuteAuto
<1>12. ASSUME NEW u \in Operators, CallOf(u) PROVE SleepInv'
  <2>1. UNCHANGED <<run, runState>>
    BY <1>12, CallsLeaveRun
  <2> QED
    BY <2>1
<1> QED
  BY <1>1, <1>2, <1>3, <1>4, <1>5, <1>6, <1>7, <1>8, <1>9, <1>10, <1>11, <1>12
     DEF InspectionNext, CallOf

\* Whoever sleeps in waitIfPaused is woken by a resume, by a stop or by the goroutine
\* that startRun leaves behind for the end of the context.
THEOREM NobodySleepsOn == InspectionSpec => []SleepersAreWoken
<1>1. SleepInv => SleepersAreWoken
  BY DEF SleepInv
<1> QED
  BY <1>1, SleepInit, SleepStep, PTL DEF InspectionSpec

-----------------------------------------------------------------------------
(* The results of cut probes.                                              *)

IsResult(r) == r = [answer |-> r.answer, disabled |-> r.disabled, executed |-> r.executed,
                    failed |-> r.failed, action |-> r.action]

\* What was cut was cut in a context that is over, and is not there when the
\* results are acted upon.
Sound(r) == /\ IsResult(r)
            /\ r.answer = "cut" => ctx # "live" /\ stage # "acting" /\ ~r.executed

CutInv == \A a \in DOMAIN found : Sound(found[a])

LEMMA CutInit == InspectionInit => CutInv
BY DEF InspectionInit, NoResults, CutInv

LEMMA ResultNoted ==
  ASSUME CutInv, NEW w, NEW a, NEW r, Note(w, a, r), UNCHANGED <<ctx, stage>>, Sound(r)
  PROVE  CutInv'
<1>1. /\ DOMAIN found' = {a} \cup DOMAIN found
      /\ \A b \in DOMAIN found' : found'[b] = IF b = a THEN r ELSE found[b]
  BY Zenon DEF Note, With
<1> QED
  BY <1>1 DEF CutInv, Sound, IsResult

LEMMA FreshResult ==
  ASSUME NEW given, NEW disabled
  PROVE  /\ IsResult(Result(given, disabled))
         /\ Result(given, disabled).answer = given /\ ~Result(given, disabled).executed
BY DEF Result, IsResult

LEMMA FailedResult ==
  ASSUME NEW r
  PROVE  IsResult(Failed(r)) /\ Failed(r).answer = r.answer
BY DEF IsResult, Failed

LEMMA ResultsUntouched ==
  ASSUME CutInv, NEW a, NEW r, a \notin DOMAIN found, found' = [found EXCEPT ![a] = r],
         UNCHANGED <<ctx, stage>>
  PROVE  CutInv'
BY DEF CutInv, Sound, IsResult

\* An outcome of an action leaves the answer alone.
LEMMA Entered ==
  ASSUME CutInv, NEW a \in DOMAIN found, NEW r, stage = "acting", UNCHANGED <<ctx, stage>>,
         found' = [found EXCEPT ![a] = r], IsResult(r), r.answer = found[a].answer
  PROVE  CutInv'
BY DEF CutInv, Sound, IsResult

LEMMA CutStep == CutInv /\ [InspectionNext]_inspectionVars => CutInv'
<1> SUFFICES ASSUME CutInv, [InspectionNext]_inspectionVars PROVE CutInv'
  OBVIOUS
<1> USE DEF MoveTo, credentials, shown, run
<1>1. CASE UNCHANGED inspectionVars
  BY <1>1 DEF inspectionVars, CutInv, Sound, IsResult
<1>2. CASE StartRun
  BY <1>2 DEF StartRun, NoResults, CutInv
<1>3. CASE UNCHANGED <<found, ctx, stage>>
  BY <1>3 DEF CutInv, Sound, IsResult
<1>4. CASE CtxOver \/ ListAccounts \/ ListingFails
  BY <1>4 DEF CtxOver, CtxEnds, ListAccounts, ListingFails, CutInv, Sound, IsResult
<1>5. CASE ActOnResults
  BY <1>5 DEF ActOnResults, Over, CutInv, Sound, IsResult
<1>6. CASE EndRun
  BY <1>6 DEF EndRun, CutInv, Sound, IsResult
<1>7. ASSUME NEW w \in Probers, Refresh(w) PROVE CutInv'
  <2>1. \/ UNCHANGED <<found, ctx, stage>>
        \/ \E a, r : Note(w, a, r) /\ Sound(r) /\ UNCHANGED <<ctx, stage>>
    BY <1>7, FreshResult, "cut" # "error", Zenon DEF Refresh, Sound
  <2> QED
    BY <2>1, <1>3, ResultNoted
<1>8. ASSUME NEW w \in Probers, Probe(w) PROVE CutInv'
  <2>1. PICK given \in Answers \cup (IF ctx = "live" THEN {} ELSE {"cut"}) :
          Note(w, spot[w][2], Result(given, spot[w][3]))
    BY <1>8, Zenon DEF Probe
  <2>2. stage = "probing" /\ UNCHANGED <<ctx, stage>>
    BY <1>8, Zenon DEF Probe
  <2>3. given = "cut" => ctx # "live"
    BY <2>1, InspectionAssumption DEF InspectionAssumption
  <2>4. Sound(Result(given, spot[w][3]))
    BY <2>2, <2>3, FreshResult DEF Sound
  <2> QED
    BY <2>1, <2>2, <2>4, ResultNoted
<1>9. ASSUME NEW w \in Probers, Choose(w) PROVE CutInv'
  <2>1. stage = "acting" /\ UNCHANGED <<ctx, stage>>
    BY <1>9 DEF Choose
  <2>2. \/ UNCHANGED found
        \/ \E a : found' = [found EXCEPT ![a] = Failed(found[a])]
    BY <1>9, Zenon DEF Choose
  <2>3. ASSUME NEW a, found' = [found EXCEPT ![a] = Failed(found[a])] PROVE CutInv'
    <3>1. CASE a \in DOMAIN found
      BY <2>1, <2>3, <3>1, FailedResult, Entered DEF CutInv, Sound
    <3>2. CASE a \notin DOMAIN found
      BY <2>1, <2>3, <3>2, ResultsUntouched
    <3> QED
      BY <3>1, <3>2
  <2> QED
    BY <1>3, <2>1, <2>2, <2>3
<1>10. ASSUME NEW w \in Probers, ExecuteAuto(w) PROVE CutInv'
  <2>0. PICK done \in BOOLEAN :
          found' = [found EXCEPT ![spot[w][2]] = IF done THEN Acted(@, spot[w][3])
                                                 ELSE Failed(@)]
    BY <1>10, Zenon DEF ExecuteAuto
  <2> DEFINE a == spot[w][2]
             r == IF done THEN Acted(found[a], spot[w][3]) ELSE Failed(found[a])
  <2>1. stage = "acting" /\ UNCHANGED <<ctx, stage>>
    BY <1>10, Zenon DEF ExecuteAuto
  <2>2. found' = [found EXCEPT ![a] = r]
    BY <2>0, Zenon
  <2>3. ASSUME a \in DOMAIN found PROVE IsResult(r) /\ r.answer = found[a].answer
    <3>1. IsResult(found[a])
      BY <2>3 DEF CutInv, Sound
    <3>2. LET s == Acted(found[a], spot[w][3])
          IN IsResult(s) /\ s.answer = found[a].answer
      BY DEF Acted, IsResult
    <3> QED
      BY <3>1, <3>2, FailedResult
  <2> HIDE DEF a, r
  <2>4. CASE a \in DOMAIN found
    BY <2>1, <2>2, <2>3, <2>4, Entered
  <2>5. CASE a \notin DOMAIN found
    BY <2>1, <2>2, <2>5, ResultsUntouched
  <2> QED
    BY <2>4, <2>5
<1>11. ASSUME NEW w \in Probers, Ask(w) \/ Take(w) PROVE UNCHANGED <<found, ctx, stage>>
  BY <1>11, Zenon DEF Ask, Take
<1>12. CASE PauseRun \/ ResumeRun \/ StopRun \/ TellSleepers
  <2>1. UNCHANGED <<found, ctx, stage>>
    BY <1>12, Zenon DEF PauseRun, ResumeRun, StopRun, TellSleepers
  <2> QED
    BY <2>1, <1>3
<1>13. ASSUME NEW u \in Operators, CallOf(u) PROVE CutInv'
  <2>1. UNCHANGED <<found, ctx, stage>>
    BY <1>13, CallsLeaveRun
  <2> QED
    BY <2>1, <1>3
<1> QED
  BY <1>1, <1>2, <1>3, <1>4, <1>5, <1>6, <1>7, <1>8, <1>9, <1>10, <1>11, <1>12, <1>13
     DEF InspectionNext, CallOf

\* What a stopped or timed-out run leaves of its probes is never a reason to disable
\* or to delete a credential, whatever the settings ask for.  (executeInspection)
THEOREM CutProbesAreHarmless == InspectionSpec => []ActionsRestOnAnswers
<1>1. CutInv => ActionsRestOnAnswers
  BY DEF CutInv, Sound, ActionsRestOnAnswers
<1> QED
  BY <1>1, CutInit, CutStep, PTL DEF InspectionSpec

-----------------------------------------------------------------------------
(* The summary.                                                            *)

Counted(results, k) == {a \in DOMAIN results : Counts(results[a], k)}

LEMMA SummaryIsCardinality ==
  ASSUME NEW results, IsFiniteSet(DOMAIN results), NEW k \in Counters
  PROVE  /\ Summarize(results)[k] = Cardinality(Counted(results, k))
         /\ IsFiniteSet(Counted(results, k)) /\ Summarize(results)[k] \in Nat
<1>1. IsFiniteSet(Counted(results, k))
  BY FS_Subset DEF Counted
<1> QED
  BY <1>1, FS_CardinalityType DEF Summarize, Counted

\* Without one of its results, a list counts as much less as the result counted.
LEMMA SummaryOfRest ==
  ASSUME NEW results, IsFiniteSet(DOMAIN results), NEW a \in DOMAIN results,
         NEW rest, rest = [b \in DOMAIN results \ {a} |-> results[b]]
  PROVE  IsFiniteSet(DOMAIN rest) /\ Summarize(rest) = Adjust(Summarize(results), results[a], -1)
<1>1. IsFiniteSet(DOMAIN rest)
  BY FS_Subset
<1>2. ASSUME NEW k \in Counters
      PROVE  Summarize(rest)[k] = Adjust(Summarize(results), results[a], -1)[k]
  <2>1. Counted(rest, k) = Counted(results, k) \ {a}
    BY DEF Counted
  <2>2. Cardinality(Counted(rest, k)) = IF Counts(results[a], k)
                                        THEN Cardinality(Counted(results, k)) - 1
                                        ELSE Cardinality(Counted(results, k))
    <3>1. IsFiniteSet(Counted(results, k))
      BY SummaryIsCardinality
    <3>2. a \in Counted(results, k) <=> Counts(results[a], k)
      BY DEF Counted
    <3> QED
      BY <2>1, <3>1, <3>2, FS_RemoveElement
  <2> QED
    BY <1>1, <2>2, SummaryIsCardinality DEF Adjust
<1>3. Summarize(rest) = Adjust(Summarize(results), results[a], -1)
  BY <1>2 DEF Summarize, Adjust
<1> QED
  BY <1>1, <1>3

\* With another one, it counts as much more.
LEMMA SummaryOfMore ==
  ASSUME NEW results, IsFiniteSet(DOMAIN results), NEW a, a \notin DOMAIN results, NEW r
  PROVE  /\ IsFiniteSet(DOMAIN With(results, a, r))
         /\ Summarize(With(results, a, r)) = Adjust(Summarize(results), r, 1)
<1> DEFINE more == With(results, a, r)
<1>1. IsFiniteSet(DOMAIN more)
  <2>1. DOMAIN more = DOMAIN results \cup {a}
    BY DEF With
  <2> QED
    BY <2>1, FS_AddElement
<1>2. ASSUME NEW k \in Counters
      PROVE  Summarize(more)[k] = Adjust(Summarize(results), r, 1)[k]
  <2>1. Counted(more, k) = IF Counts(r, k) THEN Counted(results, k) \cup {a}
                           ELSE Counted(results, k)
    BY DEF Counted, With
  <2>2. IsFiniteSet(Counted(results, k)) /\ a \notin Counted(results, k)
    BY SummaryIsCardinality DEF Counted
  <2>3. Cardinality(Counted(more, k)) = IF Counts(r, k)
                                        THEN Cardinality(Counted(results, k)) + 1
                                        ELSE Cardinality(Counted(results, k))
    BY <2>1, <2>2, FS_AddElement
  <2> HIDE DEF more
  <2> QED
    BY <1>1, <2>3, SummaryIsCardinality DEF Adjust
<1>3. Summarize(more) = Adjust(Summarize(results), r, 1)
  <2> HIDE DEF more
  <2> QED
    BY <1>2 DEF Summarize, Adjust
<1> QED
  BY <1>1, <1>3

\* A result that takes the place of another: the one leaves, the other comes.
LEMMA SummaryOfOther ==
  ASSUME NEW results, IsFiniteSet(DOMAIN results), NEW a \in DOMAIN results, NEW r
  PROVE  /\ IsFiniteSet(DOMAIN With(results, a, r))
         /\ Summarize(With(results, a, r))
              = Adjust(Adjust(Summarize(results), results[a], -1), r, 1)
<1> DEFINE rest == [b \in DOMAIN results \ {a} |-> results[b]]
<1>1. With(rest, a, r) = With(results, a, r)
  BY DEF With
<1>2. a \notin DOMAIN rest
  OBVIOUS
<1>3. /\ IsFiniteSet(DOMAIN rest)
      /\ Summarize(rest) = Adjust(Summarize(results), results[a], -1)
  BY SummaryOfRest
<1> HIDE DEF rest
<1> QED
  BY <1>1, <1>2, <1>3, SummaryOfMore

SummaryInv ==
  IsFiniteSet(DOMAIN found) /\ IsFiniteSet(DOMAIN listed) /\ SummaryMatchesResults

LEMMA SummaryInit == InspectionInit => SummaryInv
<1> SUFFICES ASSUME InspectionInit PROVE SummaryInv
  OBVIOUS
<1>1. DOMAIN found = {} /\ DOMAIN listed = {}
  BY DEF InspectionInit, NoResults
<1>2. ASSUME NEW k \in Counters PROVE Summarize(listed)[k] = 0
  BY <1>1, FS_EmptySet, SummaryIsCardinality DEF Counted
<1>3. summary = Summarize(listed)
  BY <1>2 DEF InspectionInit, Zero, Summarize
<1> QED
  BY <1>1, <1>3, FS_EmptySet DEF SummaryInv, SummaryMatchesResults

LEMMA Replaced ==
  ASSUME SummaryInv, NEW a, NEW r, ReplaceResult(a, r), UNCHANGED found
  PROVE  SummaryInv'
BY SummaryOfMore, SummaryOfOther DEF SummaryInv, SummaryMatchesResults, ReplaceResult

LEMMA SummaryStep == SummaryInv /\ [InspectionNext]_inspectionVars => SummaryInv'
<1> SUFFICES ASSUME SummaryInv, [InspectionNext]_inspectionVars PROVE SummaryInv'
  OBVIOUS
<1> USE DEF MoveTo, credentials, shown, run
<1>1. CASE UNCHANGED <<found, listed, summary>>
  BY <1>1 DEF SummaryInv, SummaryMatchesResults
<1>2. CASE UNCHANGED inspectionVars
  BY <1>1, <1>2 DEF inspectionVars
<1>3. CASE StartRun
  <2>1. DOMAIN found' = {} /\ DOMAIN listed' = {} /\ summary' = Zero
    BY <1>3 DEF StartRun, NoResults
  <2>2. ASSUME NEW k \in Counters PROVE Summarize(listed')[k] = 0
    BY <2>1, FS_EmptySet, SummaryIsCardinality DEF Counted
  <2>3. summary' = Summarize(listed')
    BY <2>1, <2>2 DEF Zero, Summarize
  <2> QED
    BY <2>1, <2>3, FS_EmptySet DEF SummaryInv, SummaryMatchesResults
<1>4. CASE EndRun
  BY <1>4 DEF EndRun, SummaryInv, SummaryMatchesResults
<1>5. ASSUME NEW w \in Probers, NEW a, NEW r, Note(w, a, r), UNCHANGED <<listed, summary>>
      PROVE  SummaryInv'
  <2>1. DOMAIN found' = DOMAIN found \cup {a}
    BY <1>5 DEF Note, With
  <2> QED
    BY <1>5, <2>1, FS_AddElement DEF SummaryInv, SummaryMatchesResults
<1>6. ASSUME NEW w \in Probers, Refresh(w) \/ Probe(w) PROVE SummaryInv'
  <2>1. /\ UNCHANGED <<listed, summary>>
        /\ UNCHANGED found \/ \E a, r : Note(w, a, r)
    BY <1>6, Zenon DEF Refresh, Probe
  <2> QED
    BY <1>1, <1>5, <2>1
<1>7. ASSUME NEW w \in Probers, Choose(w) \/ ExecuteAuto(w) PROVE SummaryInv'
  <2>1. /\ UNCHANGED <<listed, summary>>
        /\ UNCHANGED found \/ \E a, r : found' = [found EXCEPT ![a] = r]
    BY <1>7, Zenon DEF Choose, ExecuteAuto
  <2> QED
    BY <2>1 DEF SummaryInv, SummaryMatchesResults
<1>8. ASSUME NEW w \in Probers, Ask(w) \/ Take(w) PROVE SummaryInv'
  BY <1>1, <1>8, Zenon DEF Ask, Take
<1>9. CASE PauseRun \/ ResumeRun \/ StopRun \/ CtxOver \/ TellSleepers \/ ListAccounts
           \/ ListingFails \/ ActOnResults
  BY <1>1, <1>9, Zenon DEF PauseRun, ResumeRun, StopRun, CtxOver, TellSleepers, ListAccounts,
     ListingFails, ActOnResults
<1>13. ASSUME NEW u \in Operators,
              ActByHand(u) \/ InspectOne(u) \/ RefreshOne(u) \/ RefreshTokenByHand(u)
       PROVE  SummaryInv'
  BY <1>1, <1>13, Zenon DEF ActByHand, InspectOne, RefreshOne, RefreshTokenByHand
<1>10. ASSUME NEW u \in Operators, EnterOutcome(u) PROVE SummaryInv'
  <2> DEFINE a == byHand[u][2]
             rest == [b \in DOMAIN listed \ {a} |-> listed[b]]
  <2>1. UNCHANGED found
    BY <1>10, Zenon DEF EnterOutcome
  <2>2. \/ \E r : ReplaceResult(a, r)
        \/ /\ listed' = rest
           /\ summary' = IF a \in DOMAIN listed THEN Adjust(summary, listed[a], -1) ELSE summary
    BY <1>10, Zenon DEF EnterOutcome
  <2>3. CASE listed' = rest /\ a \in DOMAIN listed
             /\ summary' = Adjust(summary, listed[a], -1)
    BY <2>1, <2>3, SummaryOfRest DEF SummaryInv, SummaryMatchesResults
  <2>4. CASE listed' = rest /\ a \notin DOMAIN listed /\ summary' = summary
    <3>1. DOMAIN listed' = DOMAIN listed /\ \A b \in DOMAIN listed : listed'[b] = listed[b]
      BY <2>4
    <3>2. Summarize(listed') = Summarize(listed)
      BY <3>1 DEF Summarize
    <3> QED
      BY <2>1, <2>4, <3>1, <3>2 DEF SummaryInv, SummaryMatchesResults
  <2> QED
    BY <2>1, <2>2, <2>3, <2>4, Replaced
<1>11. ASSUME NEW u \in Operators, InspectedOne(u) PROVE SummaryInv'
  <2>1. /\ UNCHANGED found
        /\ UNCHANGED <<listed, summary>> \/ \E a, r : ReplaceResult(a, r)
    BY <1>11, Zenon DEF InspectedOne
  <2> QED
    BY <1>1, <2>1, Replaced
<1>12. ASSUME NEW u \in Operators, MergeRefresh(u) PROVE SummaryInv'
  <2>1. /\ UNCHANGED found
        /\ \/ \E a, r : ReplaceResult(a, r)
           \/ \E a \in DOMAIN listed : \E d :
                listed' = With(listed, a, Reread(listed[a], d)) /\ UNCHANGED summary
    BY <1>12, Zenon DEF MergeRefresh
  <2>2. ASSUME NEW a \in DOMAIN listed, NEW d,
               listed' = With(listed, a, Reread(listed[a], d)), UNCHANGED summary
        PROVE  SummaryInv'
    <3>1. DOMAIN listed' = DOMAIN listed
      BY <2>2 DEF With
    <3>2. ASSUME NEW b \in DOMAIN listed, NEW k
          PROVE  Counts(listed'[b], k) <=> Counts(listed[b], k)
      BY <2>2 DEF With, Counts, Errored, Reread
    <3>3. Summarize(listed') = Summarize(listed)
      <4>1. ASSUME NEW k
            PROVE  {b \in DOMAIN listed' : Counts(listed'[b], k)}
                     = {b \in DOMAIN listed : Counts(listed[b], k)}
        BY <3>1, <3>2
      <4> QED
        BY <4>1 DEF Summarize
    <3> QED
      BY <2>1, <2>2, <3>1, <3>3 DEF SummaryInv, SummaryMatchesResults
  <2> QED
    BY <2>1, <2>2, Replaced
<1> QED
  BY <1>2, <1>3, <1>4, <1>6, <1>7, <1>8, <1>9, <1>10, <1>11, <1>12, <1>13 DEF InspectionNext

\* The summary never drifts from the list, however many results enter it, leave it and
\* replace each other.  (adjustAccountInspectionSummaryForResult)
THEOREM SummaryNeverDrifts == InspectionSpec => []SummaryMatchesResults
<1>1. SummaryInv => SummaryMatchesResults
  BY DEF SummaryInv
<1> QED
  BY <1>1, SummaryInit, SummaryStep, PTL DEF InspectionSpec

-----------------------------------------------------------------------------
(***************************************************************************)
(* The state of the inspection says that a run is going on exactly while    *)
(* one is, and what workers and calls have in hand are accounts.  Whoever   *)
(* stops or pauses a run that is over leaves its state alone (Running).     *)
(***************************************************************************)

RunStates == {"idle", "running", "paused", "stopping",
              "stopped", "partial", "failed", "completed"}
Actions == {"disable", "enable", "delete"}

Running ==
  /\ runState \in RunStates /\ (Busy <=> stage # "none")
  /\ stage \in {"none", "listing", "probing", "acting"}
AtAccount == {"acted", "refreshing", "probing", "refreshed"}
OnAccount(s) ==
  /\ s[1] \in {"taken", "probing", "executing"} => s[2] \in Inspected
  /\ s[1] = "executing" => s[3] \in Actions
HandsHoldAccounts ==
  /\ DOMAIN spot = Probers /\ \A w \in Probers : OnAccount(spot[w])
  /\ DOMAIN byHand = Operators
  /\ \A u \in Operators : byHand[u][1] \in AtAccount => byHand[u][2] \in Inspected
AccountsOnly ==
  /\ DOMAIN found \subseteq Inspected /\ DOMAIN listed \subseteq Inspected
  /\ off \subseteq Inspected /\ absent \subseteq Inspected /\ untaken \subseteq Inspected
InspectionInv == Running /\ HandsHoldAccounts /\ AccountsOnly

LEMMA RunningStep == Running /\ [InspectionNext]_inspectionVars => Running'
<1> SUFFICES ASSUME Running, [InspectionNext]_inspectionVars PROVE Running'
  OBVIOUS
<1> USE DEF Running, RunStates, Busy
<1>1. ASSUME UNCHANGED <<runState, stage>> PROVE Running'
  BY <1>1
<1>2. CASE StartRun \/ PauseRun \/ ResumeRun \/ StopRun \/ ListAccounts \/ ListingFails
           \/ ActOnResults
  BY <1>2 DEF StartRun, PauseRun, ResumeRun, StopRun, ListAccounts, ListingFails, ActOnResults,
              run
<1>3. CASE EndRun
  BY <1>3 DEF EndRun, Ending
<1>4. CASE CtxOver \/ TellSleepers \/ \E u \in Operators : CallOf(u)
  <2>1. UNCHANGED <<runState, stage>>
    BY <1>4, CallsLeaveRun, Zenon DEF CtxOver, TellSleepers, run
  <2> QED
    BY <1>1, <2>1
<1>5. ASSUME NEW w \in Probers,
             Ask(w) \/ Take(w) \/ Refresh(w) \/ Probe(w) \/ Choose(w) \/ ExecuteAuto(w)
      PROVE  Running'
  <2>1. UNCHANGED <<runState, stage>>
    BY <1>5 DEF Ask, Take, Refresh, Probe, Choose, ExecuteAuto
  <2> QED
    BY <1>1, <2>1
<1>6. CASE UNCHANGED inspectionVars
  BY <1>1, <1>6 DEF inspectionVars, run
<1> QED
  BY <1>2, <1>3, <1>4, <1>5, <1>6 DEF InspectionNext, CallOf

LEMMA WithDomain ==
  ASSUME NEW f, NEW a, NEW r
  PROVE  DOMAIN With(f, a, r) = {a} \cup DOMAIN f
BY DEF With

LEMMA AwakeHands ==
  HandsHoldAccounts => DOMAIN Awake = Probers /\ \A w \in Probers : OnAccount(Awake[w])
BY DEF Awake, HandsHoldAccounts, OnAccount

LEMMA ExecuteKeeps ==
  ASSUME NEW a \in Inspected, NEW action \in Actions, NEW done \in BOOLEAN, AccountsOnly,
         Execute(a, action, done)
  PROVE  off' \subseteq Inspected /\ absent' \subseteq Inspected
<1>1. Siblings(a) \subseteq Inspected
  BY InspectionAssumption DEF Siblings
<1>2. off' \in {off, off \cup {a}, off \ {a}}
  BY DEF Execute, Actions
<1>3. absent' \in {absent, absent \cup Siblings(a)}
  BY DEF Execute, Actions
<1> QED
  BY <1>1, <1>2, <1>3 DEF AccountsOnly

LEMMA WorkerHands ==
  ASSUME HandsHoldAccounts, AccountsOnly, NEW w \in Probers,
         Ask(w) \/ Take(w) \/ Refresh(w) \/ Probe(w) \/ Choose(w) \/ ExecuteAuto(w)
  PROVE  HandsHoldAccounts' /\ AccountsOnly'
<1> DEFINE OnSpots == DOMAIN spot' = Probers /\ \A u \in Probers : OnAccount(spot'[u])
<1>1. DOMAIN spot = Probers /\ \A u \in Probers : OnAccount(spot[u])
  BY DEF HandsHoldAccounts
<1>2. ASSUME NEW to, OnAccount(to), MoveTo(w, to) PROVE OnSpots
  BY <1>1, <1>2 DEF MoveTo
<1>3. /\ OnAccount(<<"done">>) /\ OnAccount(<<"asking">>) /\ OnAccount(<<"sleeping">>)
      /\ OnAccount(<<"cleared">>) /\ OnAccount(<<"choosing">>)
      /\ \A a \in Inspected : OnAccount(<<"taken", a>>)
      /\ \A a \in Inspected : \A d : OnAccount(<<"probing", a, d>>)
      /\ \A a \in Inspected, action \in Actions : OnAccount(<<"executing", a, action>>)
  BY DEF OnAccount
<1>4. UNCHANGED spot => OnSpots
  BY <1>1
<1> HIDE DEF OnSpots
<1>5. ASSUME OnSpots, DOMAIN found' \subseteq Inspected, untaken' \subseteq Inspected,
             UNCHANGED <<shown, byHand>>, off' \subseteq Inspected, absent' \subseteq Inspected
      PROVE  HandsHoldAccounts' /\ AccountsOnly'
  BY <1>5 DEF OnSpots, HandsHoldAccounts, AccountsOnly, shown
<1>6. ASSUME NEW a \in Inspected, NEW r, Note(w, a, r)
      PROVE  OnSpots /\ DOMAIN found' \subseteq Inspected
  <2>1. DOMAIN found' = {a} \cup DOMAIN found
    BY <1>6, WithDomain DEF Note
  <2>2. OnSpots
    BY <1>2, <1>3, <1>6 DEF Note
  <2> QED
    BY <2>1, <2>2 DEF AccountsOnly
<1>7. GiveUp(w) => OnSpots
  BY <1>2, <1>3 DEF GiveUp
<1>8. CASE Ask(w)
  <2>1. OnSpots
    BY <1>2, <1>3, <1>7, <1>8 DEF Ask
  <2> QED
    BY <1>5, <1>8, <2>1 DEF Ask, AccountsOnly, credentials
<1>9. CASE Take(w)
  <2>1. OnSpots /\ untaken' \subseteq Inspected
    BY <1>2, <1>3, <1>9 DEF Take, AccountsOnly
  <2> QED
    BY <1>5, <1>9, <2>1 DEF Take, AccountsOnly, credentials
<1>10. CASE Refresh(w)
  <2>1. PICK a \in Inspected : a = spot[w][2]
    BY <1>1, <1>10 DEF Refresh, OnAccount
  <2>2. \/ GiveUp(w) /\ UNCHANGED found
        \/ \E r : Note(w, a, r)
        \/ \E d : MoveTo(w, <<"probing", a, d>>) /\ UNCHANGED found
    BY <1>10, <2>1 DEF Refresh
  <2>3. OnSpots /\ DOMAIN found' \subseteq Inspected
    BY <1>2, <1>3, <1>6, <1>7, <2>2 DEF AccountsOnly
  <2> QED
    BY <1>5, <1>10, <2>3 DEF Refresh, AccountsOnly, credentials
<1>11. CASE Probe(w)
  <2>1. PICK a \in Inspected : a = spot[w][2]
    BY <1>1, <1>11 DEF Probe, OnAccount
  <2>2. \E r : Note(w, a, r)
    BY <1>11, <2>1 DEF Probe
  <2> QED
    BY <1>5, <1>6, <1>11, <2>2 DEF Probe, AccountsOnly, credentials
<1>12. CASE Choose(w)
  <2>1. DOMAIN found' = DOMAIN found /\ untaken' \subseteq Inspected
    BY <1>12 DEF Choose, AccountsOnly
  <2>2. OnSpots
    <3>1. \/ UNCHANGED spot \/ MoveTo(w, <<"done">>)
          \/ \E a \in Inspected, action \in Actions : MoveTo(w, <<"executing", a, action>>)
      BY <1>12 DEF Choose, AccountsOnly, Actions
    <3> QED
      BY <1>2, <1>3, <1>4, <3>1
  <2> QED
    BY <1>5, <1>12, <2>1, <2>2 DEF Choose, AccountsOnly, credentials
<1>13. CASE ExecuteAuto(w)
  <2>1. PICK a \in Inspected, action \in Actions : a = spot[w][2] /\ action = spot[w][3]
    BY <1>1, <1>13 DEF ExecuteAuto, OnAccount
  <2>2. /\ \E done \in BOOLEAN : Execute(a, action, done)
        /\ DOMAIN found' = DOMAIN found /\ MoveTo(w, <<"choosing">>)
    BY <1>13, <2>1 DEF ExecuteAuto
  <2>3. off' \subseteq Inspected /\ absent' \subseteq Inspected /\ OnSpots
    BY <1>2, <1>3, <2>2, ExecuteKeeps
  <2> QED
    BY <1>5, <1>13, <2>2, <2>3 DEF ExecuteAuto, AccountsOnly
<1> QED
  BY <1>8, <1>9, <1>10, <1>11, <1>12, <1>13

LEMMA CallHands ==
  ASSUME HandsHoldAccounts, AccountsOnly, NEW u \in Operators, CallOf(u)
  PROVE  HandsHoldAccounts' /\ AccountsOnly'
<1>1. ASSUME NEW to, CallTo(u, to), to[1] \in AtAccount => to[2] \in Inspected,
             DOMAIN listed' \subseteq Inspected,
             off' \subseteq Inspected, absent' \subseteq Inspected
      PROVE  HandsHoldAccounts' /\ AccountsOnly'
  <2>1. UNCHANGED <<spot, found, untaken>>
    BY CallsLeaveRun DEF run
  <2>2. /\ DOMAIN byHand' = Operators
        /\ \A v \in Operators : byHand'[v][1] \in AtAccount => byHand'[v][2] \in Inspected
    BY <1>1 DEF CallTo, HandsHoldAccounts
  <2> QED
    BY <1>1, <2>1, <2>2 DEF HandsHoldAccounts, AccountsOnly
<1>2. ASSUME NEW a \in Inspected, NEW r,
             listed' = With(listed, a, r) \/ ReplaceResult(a, r)
      PROVE  DOMAIN listed' \subseteq Inspected
  <2>1. DOMAIN listed' = {a} \cup DOMAIN listed
    BY <1>2, WithDomain DEF ReplaceResult
  <2> QED
    BY <2>1 DEF AccountsOnly
<1>3. <<"idle">>[1] \notin AtAccount
  BY DEF AtAccount
<1>4. byHand[u][1] \in AtAccount => byHand[u][2] \in Inspected
  BY DEF HandsHoldAccounts
<1>5. CASE ActByHand(u)
  <2>1. PICK a \in Inspected, action \in Actions, done \in BOOLEAN :
          /\ Execute(a, action, done)
          /\ CallTo(u, <<"acted", a, action, done, a \in off>>)
    BY <1>5 DEF ActByHand, Actions
  <2>2. off' \subseteq Inspected /\ absent' \subseteq Inspected
    BY <2>1, ExecuteKeeps
  <2>3. <<"acted", a, action, done, a \in off>>[2] \in Inspected
    OBVIOUS
  <2> QED
    BY <1>1, <1>5, <2>1, <2>2, <2>3 DEF ActByHand, shown, AccountsOnly
<1>6. CASE EnterOutcome(u)
  <2>1. PICK a \in Inspected : a = byHand[u][2]
    BY <1>4, <1>6 DEF EnterOutcome, AtAccount
  <2>2. \/ listed' = [b \in DOMAIN listed \ {a} |-> listed[b]]
        \/ \E r : ReplaceResult(a, r)
    BY <1>6, <2>1 DEF EnterOutcome
  <2>3. DOMAIN listed' \subseteq Inspected
    BY <1>2, <2>2 DEF AccountsOnly
  <2>4. CallTo(u, <<"idle">>) /\ UNCHANGED credentials
    BY <1>6, Zenon DEF EnterOutcome
  <2> QED
    BY <1>1, <1>3, <2>3, <2>4 DEF credentials, AccountsOnly
<1>7. CASE InspectOne(u) \/ RefreshTokenByHand(u)
  <2>1. PICK a \in Inspected, at \in {"refreshing", "refreshed"} :
          \/ \E d : CallTo(u, <<at, a, d>>)
          \/ \E ans, d : CallTo(u, <<at, a, ans, d>>)
    BY <1>7 DEF InspectOne, RefreshTokenByHand
  <2>2. \A ans, d : <<at, a, d>>[2] \in Inspected /\ <<at, a, ans, d>>[2] \in Inspected
    OBVIOUS
  <2>3. UNCHANGED <<shown, credentials>>
    BY <1>7, Zenon DEF InspectOne, RefreshTokenByHand
  <2> QED
    BY <1>1, <2>1, <2>2, <2>3 DEF shown, credentials, AccountsOnly
<1>8. CASE RefreshOne(u)
  <2>1. PICK a \in Inspected : a = byHand[u][2]
    BY <1>4, <1>8 DEF RefreshOne, AtAccount
  <2>2. \E d : CallTo(u, <<"probing", a, d>>)
    BY <1>8, <2>1 DEF RefreshOne
  <2>3. \A d : <<"probing", a, d>>[2] \in Inspected
    OBVIOUS
  <2>4. UNCHANGED <<shown, credentials>>
    BY <1>8, Zenon DEF RefreshOne
  <2> QED
    BY <1>1, <2>2, <2>3, <2>4 DEF shown, credentials, AccountsOnly
<1>9. CASE InspectedOne(u)
  <2>1. /\ byHand[u][1] \in {"refreshing", "probing"} /\ UNCHANGED credentials
        /\ CallTo(u, <<"idle">>)
    BY <1>9, Zenon DEF InspectedOne
  <2>2. PICK a \in Inspected : a = byHand[u][2]
    BY <1>4, <2>1 DEF AtAccount
  <2>3. UNCHANGED shown \/ \E r : ReplaceResult(a, r)
    BY <1>9, <2>2, Zenon DEF InspectedOne
  <2>4. DOMAIN listed' \subseteq Inspected
    BY <1>2, <2>3 DEF AccountsOnly, shown
  <2> QED
    BY <1>1, <1>3, <2>1, <2>4 DEF credentials, AccountsOnly
<1>10. CASE MergeRefresh(u)
  <2>1. /\ byHand[u][1] = "refreshed" /\ UNCHANGED credentials
        /\ CallTo(u, <<"idle">>)
    BY <1>10, Zenon DEF MergeRefresh
  <2>2. PICK a \in Inspected : a = byHand[u][2]
    BY <1>4, <2>1 DEF AtAccount
  <2>3. \E r : listed' = With(listed, a, r) \/ ReplaceResult(a, r)
    BY <1>10, <2>2, Zenon DEF MergeRefresh
  <2>4. DOMAIN listed' \subseteq Inspected
    BY <1>2, <2>3
  <2> QED
    BY <1>1, <1>3, <2>1, <2>4 DEF credentials, AccountsOnly
<1> QED
  BY <1>5, <1>6, <1>7, <1>8, <1>9, <1>10 DEF CallOf

LEMMA InspectionStep == InspectionInv /\ [InspectionNext]_inspectionVars => InspectionInv'
<1> SUFFICES ASSUME Running, HandsHoldAccounts, AccountsOnly, [InspectionNext]_inspectionVars
             PROVE  HandsHoldAccounts' /\ AccountsOnly'
  BY RunningStep DEF InspectionInv
<1>1. DOMAIN spot = Probers /\ \A w \in Probers : OnAccount(spot[w])
  BY DEF HandsHoldAccounts
<1>2. ASSUME DOMAIN spot' = Probers, \A w \in Probers : OnAccount(spot'[w]),
             DOMAIN found' \subseteq Inspected, DOMAIN listed' \subseteq Inspected,
             untaken' \subseteq Inspected, UNCHANGED <<credentials, byHand>>
      PROVE  HandsHoldAccounts' /\ AccountsOnly'
  BY <1>2 DEF HandsHoldAccounts, AccountsOnly, credentials
<1>3. /\ DOMAIN NoResults = {} /\ OnAccount(<<"done">>) /\ OnAccount(<<"asking">>)
      /\ OnAccount(<<"choosing">>)
  BY DEF NoResults, OnAccount
<1>4. CASE StartRun
  BY <1>1, <1>2, <1>3, <1>4 DEF StartRun, AccountsOnly
<1>5. CASE UNCHANGED inspectionVars \/ PauseRun \/ CtxOver
  BY <1>1, <1>2, <1>5 DEF inspectionVars, run, shown, PauseRun, CtxOver, AccountsOnly
<1>6. CASE ResumeRun \/ StopRun \/ TellSleepers
  <2>1. DOMAIN spot' = Probers /\ \A w \in Probers : OnAccount(spot'[w])
    BY <1>6, AwakeHands DEF ResumeRun, StopRun, TellSleepers
  <2> QED
    BY <1>2, <1>6, <2>1 DEF ResumeRun, StopRun, TellSleepers, shown, AccountsOnly
<1>7. CASE ListAccounts \/ ListingFails
  <2>1. /\ DOMAIN spot' = Probers /\ \A w \in Probers : OnAccount(spot'[w])
        /\ untaken' \subseteq Inspected
    BY <1>1, <1>3, <1>7 DEF ListAccounts, ListingFails, AccountsOnly
  <2> QED
    BY <1>2, <1>7, <2>1 DEF ListAccounts, ListingFails, shown, AccountsOnly
<1>8. CASE ActOnResults
  <2>1. /\ DOMAIN spot' = Probers /\ \A w \in Probers : OnAccount(spot'[w])
        /\ untaken' \subseteq Inspected
    BY <1>3, <1>8 DEF ActOnResults, AccountsOnly
  <2> QED
    BY <1>2, <1>8, <2>1 DEF ActOnResults, shown, AccountsOnly
<1>9. CASE EndRun
  BY <1>1, <1>2, <1>9 DEF EndRun, AccountsOnly
<1> QED
  BY <1>4, <1>5, <1>6, <1>7, <1>8, <1>9, WorkerHands, CallHands DEF InspectionNext,
     CallOf

\* A run is going on exactly while the state says so, whoever pauses, resumes, stops
\* and starts again meanwhile; and nothing but accounts is probed or listed.
\* (startRun, stopRun, finishRun)
THEOREM RunsAreAnnounced == InspectionSpec => []InspectionTypeOK
<1>1. InspectionInit => InspectionInv
  <2> SUFFICES ASSUME InspectionInit PROVE InspectionInv
    OBVIOUS
  <2>1. DOMAIN NoResults = {} /\ OnAccount(<<"done">>) /\ <<"idle">>[1] \notin AtAccount
    BY DEF NoResults, OnAccount, AtAccount
  <2> QED
    BY <2>1, InspectionAssumption
       DEF InspectionInit, InspectionInv, Running, HandsHoldAccounts, AccountsOnly, RunStates, Busy
<1>2. InspectionInv => InspectionTypeOK
  BY DEF InspectionInv, Running, AccountsOnly, RunStates, InspectionTypeOK
<1> QED
  BY <1>1, <1>2, InspectionStep, PTL DEF InspectionSpec

-----------------------------------------------------------------------------
(***************************************************************************)
(* The two caches of session names, for any identifiers, accounts,          *)
(* lifetimes and bounds.  AliasesAgree is inductive: two groups that share  *)
(* an alias are one group, so that removing the groups of the identifiers   *)
(* in hand removes them whole.  The names of Home mode need one thing more, *)
(* see below.                                                               *)
(***************************************************************************)

CacheInv == CacheTypeOK /\ AliasesAgree

LEMMA CompactedFacts ==
  ASSUME NEW aliases \in SUBSET Ids, NEW first, NEW kept \in Compacted(first, aliases)
  PROVE  kept \subseteq aliases /\ kept \in SUBSET Ids /\ first \in kept /\ Bounded(kept)
BY DEF Compacted

\* A group that loses a member stays within its bounds.
LEMMA SmallerIsBounded ==
  ASSUME NEW group \in SUBSET Ids, NEW smaller \in SUBSET group, Bounded(group)
  PROVE  Bounded(smaller)
<1> DEFINE within(A, B) == IsFiniteSet(B) /\ A \subseteq B
<1>1. ASSUME NEW A, NEW B, within(A, B)
      PROVE  /\ Cardinality(A) \in Nat /\ Cardinality(B) \in Nat
             /\ Cardinality(A) <= Cardinality(B)
  BY <1>1, FS_Subset, FS_CardinalityType
<1>2. IsFiniteSet(group \cap PromptKeys) /\ IsFiniteSet(group \ PromptKeys)
  BY AliasBounds, FS_Subset
<1>3. /\ within(smaller \cap PromptKeys, group \cap PromptKeys)
      /\ within(smaller \ PromptKeys, group \ PromptKeys)
  BY <1>2
<1> HIDE DEF within
<1> QED
  BY <1>1, <1>3, AliasBounds DEF Bounded

\* Replacing whole groups by one group keeps the aliases in agreement, when the new
\* group takes in no alias of a group that stays.
LEMMA ReplaceAgrees ==
  ASSUME CacheInv, NEW groups, NEW auth \in Accounts, NEW aliases \in SUBSET Ids,
         Bounded(aliases), Replace(groups, auth, aliases), UNCHANGED time,
         gone' \in SUBSET Ids,
         \A a \in aliases : Bound(a) => entries[a] \in groups
  PROVE  CacheInv'
<1> DEFINE new == [auth |-> auth, expires |-> time + TTL, aliases |-> aliases]
<1>1. new \in CacheEntry
  BY AliasBounds DEF CacheEntry, CacheInv, CacheTypeOK
<1>2. \A s \in Ids : entries'[s] = IF s \in aliases THEN new ELSE Without(groups)[s]
  BY DEF Replace
<1>3. \A s \in Ids : Without(groups)[s] \in {entries[s], NoGroup}
  BY DEF Without
<1>4. CacheTypeOK'
  BY <1>1, <1>2, <1>3 DEF Replace, CacheInv, CacheTypeOK
<1>5. \A s \in Ids : s \in aliases => entries'[s] = new
  BY <1>2
<1>6. ASSUME NEW s \in Ids, s \notin aliases, Bound(s)'
      PROVE  /\ Bound(s) /\ entries'[s] = entries[s]
             /\ \A a \in entries[s].aliases : a \in Ids /\ entries'[a] = entries[s]
  <2>1. Without(groups)[s] # NoGroup
    BY <1>2, <1>6 DEF Bound
  <2>2. Bound(s) /\ entries'[s] = entries[s]
    BY <1>2, <1>3, <1>6, <2>1 DEF Bound
  <2>3. s \in entries[s].aliases /\ entries[s].aliases \subseteq Ids
    BY <2>2 DEF CacheInv, CacheTypeOK, CacheEntry, AliasesAgree, Bound
  <2>4. entries[s] \notin groups
    BY <2>1, <2>3 DEF Without
  <2>5. ASSUME NEW a \in entries[s].aliases PROVE a \in Ids /\ entries'[a] = entries[s]
    <3>1. a \in Ids /\ entries[a] = entries[s] /\ Bound(a)
      BY <2>2, <2>3 DEF CacheInv, AliasesAgree, Bound
    <3>2. a \notin aliases
      BY <3>1, <2>4
    <3>3. Without(groups)[a] = entries[a]
      BY <3>1, <2>4 DEF Without
    <3> QED
      BY <3>1, <3>2, <3>3, <1>2
  <2> QED
    BY <2>2, <2>5
<1>7. AliasesAgree'
  <2> SUFFICES ASSUME NEW s \in Ids, Bound(s)'
               PROVE  /\ s \in entries'[s].aliases
                      /\ Bounded(entries'[s].aliases)
                      /\ \A a \in entries'[s].aliases : entries'[a] = entries'[s]
    BY DEF AliasesAgree, Bounded
  <2>1. CASE s \in aliases
    <3>1. new.aliases = aliases
      OBVIOUS
    <3> QED
      BY <2>1, <3>1, <1>5
  <2>2. CASE s \notin aliases
    BY <2>2, <1>6 DEF CacheInv, AliasesAgree
  <2> QED
    BY <2>1, <2>2
<1> QED
  BY <1>4, <1>7 DEF CacheInv

\* The aliases that SetAliases merges belong to groups it removes.
LEMMA MergedAreFound ==
  ASSUME CacheInv, NEW ids \in SUBSET Ids,
         NEW previous, previous = {entries[s] : s \in {i \in ids : Live(i)}},
         NEW matched, matched = {entries[s] : s \in {i \in ids : Bound(i)}},
         NEW a \in ids \cup UNION {g.aliases : g \in previous}
  PROVE  a \in Ids /\ (Bound(a) => entries[a] \in matched)
<1>1. CASE a \in ids
  BY <1>1
<1>2. ASSUME NEW i \in ids, Live(i), a \in entries[i].aliases
      PROVE  a \in Ids /\ entries[a] \in matched
  BY <1>2 DEF Live, CacheInv, CacheTypeOK, CacheEntry, AliasesAgree, Bound
<1> QED
  BY <1>1, <1>2

LEMMA SetAliasesAgrees ==
  ASSUME CacheInv, NEW auth \in Accounts, NEW ids \in SUBSET Ids, SetAliases(auth, ids)
  PROVE  CacheInv'
<1> DEFINE previous == {entries[s] : s \in {i \in ids : Live(i)}}
           matched == {entries[s] : s \in {i \in ids : Bound(i)}}
           merged == ids \cup UNION {g.aliases : g \in previous}
<1>1. PICK first \in ids : \E aliases \in Compacted(first, merged) :
                             Replace(matched, auth, aliases)
  BY DEF SetAliases
<1>2. PICK aliases \in Compacted(first, merged) : Replace(matched, auth, aliases)
  BY <1>1
<1>3. \A a \in merged : a \in Ids /\ (Bound(a) => entries[a] \in matched)
  BY MergedAreFound
<1>4. aliases \subseteq merged /\ aliases \in SUBSET Ids /\ Bounded(aliases)
  BY <1>3, CompactedFacts
<1>5. UNCHANGED time /\ gone' \in SUBSET Ids
  BY DEF SetAliases, CacheInv, CacheTypeOK
<1> HIDE DEF merged, matched
<1> QED
  BY <1>2, <1>3, <1>4, <1>5, ReplaceAgrees

LEMMA RefreshAgrees ==
  ASSUME CacheInv, NEW s \in Ids, GetAndRefresh(s)
  PROVE  CacheInv'
<1>1. PICK aliases \in Compacted(s, {s} \cup entries[s].aliases) :
             Replace({entries[s]}, entries[s].auth, aliases)
  BY DEF GetAndRefresh
<1>2. /\ Bound(s) /\ UNCHANGED time /\ gone' \in SUBSET Ids
      /\ entries[s].auth \in Accounts /\ entries[s].aliases \in SUBSET Ids
  BY DEF GetAndRefresh, Live, CacheInv, CacheTypeOK, CacheEntry, Bound
<1>3. aliases \subseteq {s} \cup entries[s].aliases /\ aliases \in SUBSET Ids
      /\ Bounded(aliases)
  <2>1. {s} \cup entries[s].aliases \in SUBSET Ids
    BY <1>2
  <2> QED
    BY <1>1, <2>1, CompactedFacts
<1>4. \A a \in aliases : Bound(a) => entries[a] \in {entries[s]}
  BY <1>2, <1>3 DEF CacheInv, AliasesAgree
<1> QED
  BY <1>1, <1>2, <1>3, <1>4, ReplaceAgrees

\* Get, InvalidateAuth and cleanup remove groups whole: an entry goes with every entry
\* that equals it.
LEMMA RemovalAgrees ==
  ASSUME CacheInv, UNCHANGED time, gone' \in SUBSET Ids,
         entries' \in [Ids -> CacheEntry \cup {NoGroup}],
         \A s \in Ids : entries'[s] \in {entries[s], NoGroup},
         \A s, a \in Ids : Bound(s) /\ entries[a] = entries[s] => entries'[a] = entries'[s]
  PROVE  CacheInv'
<1> SUFFICES ASSUME NEW s \in Ids, Bound(s)'
             PROVE  /\ s \in entries'[s].aliases
                    /\ Bounded(entries'[s].aliases)
                    /\ \A a \in entries'[s].aliases : entries'[a] = entries'[s]
  BY DEF CacheInv, CacheTypeOK, AliasesAgree, Bounded
<1>1. Bound(s) /\ entries'[s] = entries[s]
  BY DEF Bound
<1>2. entries[s].aliases \subseteq Ids
  BY <1>1 DEF CacheInv, CacheTypeOK, CacheEntry, Bound
<1> QED
  BY <1>1, <1>2 DEF CacheInv, AliasesAgree

LEMMA InvalidateAgrees ==
  ASSUME CacheInv, NEW s \in Ids, Invalidate(s)
  PROVE  CacheInv'
<1> DEFINE group == entries[s].aliases
           rest == [entries[s] EXCEPT !.aliases = @ \ {s}]
<1>1. /\ Bound(s) /\ UNCHANGED time /\ entries[s] \in CacheEntry /\ group \in SUBSET Ids
      /\ s \in group /\ Bounded(group)
  BY DEF Invalidate, Bound, CacheInv, CacheTypeOK, CacheEntry, AliasesAgree
<1>2. rest \in CacheEntry /\ rest.aliases = group \ {s}
  BY <1>1 DEF CacheEntry
<1>3. \A a \in group : Bound(a) /\ entries[a] = entries[s]
  BY <1>1 DEF CacheInv, AliasesAgree, Bound
<1>4. \A a \in Ids : entries'[a] = IF a = s THEN NoGroup
                                   ELSE IF a \in group THEN rest ELSE entries[a]
  BY <1>1, <1>3 DEF Invalidate
<1>5. CacheTypeOK'
  <2>1. \A a \in Ids : entries'[a] \in CacheEntry \cup {NoGroup}
    BY <1>2, <1>4 DEF CacheInv, CacheTypeOK
  <2> QED
    BY <1>1, <2>1 DEF Invalidate, CacheInv, CacheTypeOK
<1>6. ASSUME NEW a \in Ids, Bound(a)'
      PROVE  /\ a \in entries'[a].aliases
             /\ Bounded(entries'[a].aliases)
             /\ \A b \in entries'[a].aliases : entries'[b] = entries'[a]
  <2>1. a # s
    BY <1>4, <1>6 DEF Bound
  <2>2. CASE a \in group
    <3>1. Bounded(group \ {s})
      BY <1>1, SmallerIsBounded
    <3> QED
      <4>1. entries'[a] = rest /\ rest.aliases = group \ {s}
        BY <2>1, <2>2, <1>2, <1>4
      <4>2. \A b \in group \ {s} : entries'[b] = rest
        BY <1>1, <1>4
      <4> HIDE DEF rest, group
      <4> QED
        BY <2>1, <2>2, <3>1, <4>1, <4>2
  <2>3. CASE a \notin group
    <3>1. entries'[a] = entries[a] /\ Bound(a)
      BY <1>4, <1>6, <2>1, <2>3 DEF Bound
    <3>2. entries[a].aliases \subseteq Ids
      BY <3>1 DEF CacheInv, CacheTypeOK, CacheEntry, Bound
    <3>3. \A b \in entries[a].aliases : b \notin group
      BY <2>3, <3>1, <1>3 DEF CacheInv, AliasesAgree
    <3>4. s \notin entries[a].aliases
      BY <3>3, <1>1
    <3> QED
      BY <3>1, <3>2, <3>3, <3>4, <1>4 DEF CacheInv, AliasesAgree
  <2> QED
    BY <2>2, <2>3
<1> QED
  BY <1>5, <1>6 DEF CacheInv, AliasesAgree, Bounded

LEMMA CacheStep == CacheInv /\ [CacheNext]_cacheVars => CacheInv'
<1> SUFFICES ASSUME CacheInv, [CacheNext]_cacheVars PROVE CacheInv'
  OBVIOUS
<1>1. CASE UNCHANGED cacheVars
  BY <1>1 DEF cacheVars, CacheInv, CacheTypeOK, AliasesAgree, Bound, Bounded
<1>2. ASSUME NEW auth \in Accounts, NEW ids \in SUBSET Ids, SetAliases(auth, ids)
      PROVE  CacheInv'
  BY <1>2, SetAliasesAgrees
<1>3. ASSUME NEW s \in Ids, GetAndRefresh(s) PROVE CacheInv'
  BY <1>3, RefreshAgrees
<1>4. ASSUME NEW s \in Ids, Invalidate(s) PROVE CacheInv'
  BY <1>4, InvalidateAgrees
<1>5. ASSUME NEW s \in Ids, Get(s) PROVE CacheInv'
  <2>1. \A a \in Ids : entries'[a] \in {entries[a], NoGroup}
    BY <1>5 DEF Get, Without
  <2>2. \A a, b \in Ids : Bound(a) /\ entries[b] = entries[a] => entries'[b] = entries'[a]
    BY <1>5 DEF Get, Without, CacheInv, AliasesAgree, Bound
  <2>3. /\ entries' \in [Ids -> CacheEntry \cup {NoGroup}] /\ UNCHANGED time
        /\ gone' \in SUBSET Ids
    BY <1>5, <2>1 DEF Get, Without, CacheInv, CacheTypeOK
  <2> QED
    BY <2>1, <2>2, <2>3, RemovalAgrees
<1>6. ASSUME NEW auth \in Accounts, InvalidateAuth(auth) PROVE CacheInv'
  <2>1. \A a \in Ids : entries'[a] \in {entries[a], NoGroup}
    BY <1>6 DEF InvalidateAuth
  <2>2. \A a, b \in Ids : Bound(a) /\ entries[b] = entries[a] => entries'[b] = entries'[a]
    BY <1>6 DEF InvalidateAuth, Bound
  <2>3. /\ entries' \in [Ids -> CacheEntry \cup {NoGroup}] /\ UNCHANGED time
        /\ gone' \in SUBSET Ids
    BY <1>6, <2>1 DEF InvalidateAuth, CacheInv, CacheTypeOK
  <2> QED
    BY <2>1, <2>2, <2>3, RemovalAgrees
<1>7. CASE Cleanup
  <2>1. \A a \in Ids : entries'[a] \in {entries[a], NoGroup}
    BY <1>7 DEF Cleanup
  <2>2. \A a, b \in Ids : Bound(a) /\ entries[b] = entries[a] => entries'[b] = entries'[a]
    BY <1>7 DEF Cleanup, Live, Bound
  <2>3. /\ entries' \in [Ids -> CacheEntry \cup {NoGroup}] /\ UNCHANGED time
        /\ gone' \in SUBSET Ids
    BY <1>7, <2>1 DEF Cleanup, CacheInv, CacheTypeOK
  <2> QED
    BY <2>1, <2>2, <2>3, RemovalAgrees
<1>8. CASE CacheTick
  <2>1. entries' = entries /\ gone' = gone /\ time' \in Nat
    BY <1>8 DEF CacheTick, CacheInv, CacheTypeOK
  <2> QED
    BY <2>1 DEF CacheInv, CacheTypeOK, AliasesAgree, Bound, Bounded
<1> QED
  BY <1>1, <1>2, <1>3, <1>4, <1>5, <1>6, <1>7, <1>8 DEF CacheNext

LEMMA CacheInvariant == CacheSpec => []CacheInv
<1>1. CacheInit => CacheInv
  BY DEF CacheInit, CacheInv, CacheTypeOK, AliasesAgree, Bound, NoGroup
<1> QED
  BY <1>1, CacheStep, PTL DEF CacheSpec

\* Every alias of a conversation carries the same entry, and the entry names exactly
\* those aliases.  (SetAliases, replaceAliasGroupsLocked, Invalidate)
THEOREM ConversationsStayWhole == CacheSpec => []AliasesAgree
BY CacheInvariant, PTL DEF CacheInv

\* An identifier has no binding or one that the code can make.  (session_cache.go)
THEOREM CacheTypes == CacheSpec => []CacheTypeOK
BY CacheInvariant, PTL DEF CacheInv

\* No call but SetAliases binds an identifier that had no binding, and SetAliases only
\* one it names: the groups that are merged or refreshed hold no other.
LEMMA OnlyTheNamedAreBound ==
  ASSUME CacheInv, CacheNext, NEW s \in gone, s \in Ids, ~Bound(s), Bound(s)'
  PROVE  s \notin gone'
<1>1. ASSUME NEW auth \in Accounts, NEW ids \in SUBSET Ids, SetAliases(auth, ids)
      PROVE  s \notin gone'
  <2> DEFINE previous == {entries[i] : i \in {i \in ids : Live(i)}}
             matched == {entries[i] : i \in {i \in ids : Bound(i)}}
             merged == ids \cup UNION {g.aliases : g \in previous}
  <2>1. PICK first \in ids : \E aliases \in Compacted(first, merged) :
                               Replace(matched, auth, aliases)
    BY <1>1 DEF SetAliases
  <2>2. PICK aliases \in Compacted(first, merged) : Replace(matched, auth, aliases)
    BY <2>1
  <2>3. s \in aliases
    BY <2>2 DEF Replace, Without, Bound
  <2>4. s \in merged
    BY <2>3 DEF Compacted
  <2>5. \A i \in ids : Live(i) => s \notin entries[i].aliases
    BY DEF Live, CacheInv, AliasesAgree, Bound
  <2>6. s \in ids
    BY <2>4, <2>5
  <2> QED
    BY <1>1, <2>6 DEF SetAliases
<1>2. ASSUME NEW i \in Ids, Get(i) PROVE FALSE
  BY <1>2 DEF Get, Without, Bound
<1>3. ASSUME NEW i \in Ids, GetAndRefresh(i) PROVE FALSE
  <2>1. PICK aliases \in Compacted(i, {i} \cup entries[i].aliases) :
               Replace({entries[i]}, entries[i].auth, aliases)
    BY <1>3 DEF GetAndRefresh
  <2>2. s \in {i} \cup entries[i].aliases
    BY <2>1 DEF Replace, Without, Bound, Compacted
  <2> QED
    BY <1>3, <2>2 DEF GetAndRefresh, Live, CacheInv, AliasesAgree, Bound
<1>4. ASSUME NEW i \in Ids, Invalidate(i) PROVE FALSE
  BY <1>4 DEF Invalidate, Bound
<1>5. ASSUME NEW auth \in Accounts, InvalidateAuth(auth) PROVE FALSE
  BY <1>5 DEF InvalidateAuth, Bound
<1>6. CASE Cleanup \/ CacheTick
  BY <1>6 DEF Cleanup, CacheTick, Bound
<1> QED
  BY <1>1, <1>2, <1>3, <1>4, <1>5, <1>6 DEF CacheNext

\* What is invalidated loses its binding.
LEMMA TheInvalidatedAreUnbound ==
  ASSUME CacheInv, CacheNext, NEW s \in gone', s \notin gone
  PROVE  ~Bound(s)'
<1>1. ASSUME NEW auth \in Accounts, NEW ids \in SUBSET Ids, SetAliases(auth, ids)
      PROVE  FALSE
  BY <1>1 DEF SetAliases
<1>2. ASSUME NEW i \in Ids, Get(i) \/ GetAndRefresh(i) PROVE FALSE
  BY <1>2 DEF Get, GetAndRefresh
<1>3. ASSUME NEW i \in Ids, Invalidate(i) PROVE ~Bound(s)'
  BY <1>3 DEF Invalidate, Bound
<1>4. ASSUME NEW auth \in Accounts, InvalidateAuth(auth) PROVE ~Bound(s)'
  BY <1>4 DEF InvalidateAuth, Bound
<1>5. CASE Cleanup \/ CacheTick
  BY <1>5 DEF Cleanup, CacheTick
<1> QED
  BY <1>1, <1>2, <1>3, <1>4, <1>5 DEF CacheNext

\* An identifier that was invalidated comes back only by a call that names it.
\* (Invalidate, InvalidateAuth, GetAndRefresh, SetAliases)
THEOREM InvalidatedStaysOut == CacheSpec => []NeverRecreated
<1>1. CacheInit => NeverRecreated
  BY DEF CacheInit, NeverRecreated
<1>2. CacheInv /\ NeverRecreated /\ [CacheNext]_cacheVars => NeverRecreated'
  <2> SUFFICES ASSUME CacheInv, NeverRecreated, [CacheNext]_cacheVars, NEW s \in gone'
               PROVE  ~Bound(s)'
    BY DEF NeverRecreated
  <2>1. CASE UNCHANGED cacheVars
    BY <2>1 DEF cacheVars, NeverRecreated, Bound
  <2>2. CASE CacheNext
    <3>1. CASE s \in gone
      BY <2>2, <3>1, OnlyTheNamedAreBound DEF NeverRecreated, CacheInv, CacheTypeOK
    <3> QED
      BY <2>2, <3>1, TheInvalidatedAreUnbound
  <2> QED
    BY <2>1, <2>2
<1> QED
  BY <1>1, <1>2, CacheInvariant, PTL DEF CacheSpec

-----------------------------------------------------------------------------
(***************************************************************************)
(* The names of sessions in Home mode.  The invariant adds to NamesAgree    *)
(* that a group without its own name has no room for it: the name can then  *)
(* not come back when the group is merged, while another group has it.      *)
(***************************************************************************)
HomeGroup == [canonical : Ids, expires : Nat, aliases : SUBSET Ids]
HomeNames == [entries : [Ids -> HomeGroup \cup {NoGroup}],
              groups : [Ids -> HomeGroup \cup {NoGroup}], order : SUBSET (Ids \X Ids)]

EntriesLead(n) ==
  \A s \in Ids : n.entries[s] # NoGroup =>
    /\ s \in n.entries[s].aliases /\ Bounded(n.entries[s].aliases)
    /\ n.groups[n.entries[s].canonical] = n.entries[s]
GroupsHold(n) ==
  \A s \in Ids : n.groups[s] # NoGroup =>
    /\ n.groups[s].canonical = s
    /\ \A a \in n.groups[s].aliases : n.entries[a] = n.groups[s]
    /\ s \in n.groups[s].aliases \/ ~Bounded(n.groups[s].aliases \cup {s})
Ordered(n) ==
  /\ \A s, t \in Ids : <<s, t>> \in n.order =>
       n.groups[s] # NoGroup /\ n.groups[t] # NoGroup
  /\ \A s \in Ids : n.groups[s] # NoGroup => <<s, s>> \in n.order
  /\ \A s, t \in Ids : n.groups[s] # NoGroup /\ n.groups[t] # NoGroup /\ s # t =>
       (<<s, t>> \in n.order <=> <<t, s>> \notin n.order)
EntriesAgree(n) == n \in HomeNames /\ EntriesLead(n) /\ GroupsHold(n) /\ Ordered(n)

\* What remains when groups go: nothing new.
Remains(m, n) ==
  /\ EntriesAgree(m)
  /\ \A s \in Ids : m.entries[s] \in {n.entries[s], NoGroup}
                   /\ m.groups[s] \in {n.groups[s], NoGroup}

\* What removeGroupLocked removes, it removes whole.
LEMMA WholeGroupsGo ==
  ASSUME NEW n, EntriesAgree(n), NEW out
  PROVE  /\ Remains(GroupsOut(n, out), n)
         /\ \A s \in Ids : n.entries[s] \in out => GroupsOut(n, out).entries[s] = NoGroup
         /\ \A s \in Ids : n.groups[s] \in out => GroupsOut(n, out).groups[s] = NoGroup
<1> DEFINE live == {g \in out \ {NoGroup} : n.groups[g.canonical] = g}
           left == Ids \ {g.canonical : g \in live}
           m == GroupsOut(n, out)
<1>1. /\ n \in HomeNames /\ EntriesLead(n) /\ GroupsHold(n) /\ Ordered(n)
  BY DEF EntriesAgree
<1>2. /\ m.entries = [s \in Ids |-> IF n.entries[s] \in live THEN NoGroup ELSE n.entries[s]]
      /\ m.groups = [s \in Ids |-> IF s \in left THEN n.groups[s] ELSE NoGroup]
      /\ m.order = n.order \cap (left \X left)
      /\ m = [entries |-> m.entries, groups |-> m.groups, order |-> m.order]
  BY DEF GroupsOut
<1>3. /\ \A s \in Ids : n.entries[s] \in HomeGroup \cup {NoGroup}
      /\ \A s \in Ids : n.groups[s] \in HomeGroup \cup {NoGroup}
      /\ n.order \subseteq Ids \X Ids
  BY <1>1 DEF HomeNames
<1>4. \A s \in Ids : n.entries[s] # NoGroup => n.entries[s].canonical \in Ids
  BY <1>3 DEF HomeGroup
<1>5. \A s \in Ids : n.groups[s] # NoGroup => n.groups[s].aliases \subseteq Ids
  BY <1>3 DEF HomeGroup
<1>6. \A s \in Ids : n.groups[s] # NoGroup => (n.groups[s] \in out <=> s \notin left)
  <2> SUFFICES ASSUME NEW s \in Ids, n.groups[s] # NoGroup
               PROVE  n.groups[s] \in out <=> s \notin left
    OBVIOUS
  <2>1. n.groups[s].canonical = s
    BY <1>1 DEF GroupsHold
  <2>2. ASSUME n.groups[s] \in out PROVE s \notin left
    <3>1. n.groups[s] \in live
      BY <2>1, <2>2
    <3> QED
      BY <2>1, <3>1
  <2>3. ASSUME s \notin left PROVE n.groups[s] \in out
    <3>1. PICK g \in live : g.canonical = s
      BY <2>3
    <3> QED
      BY <3>1
  <2> QED
    BY <2>2, <2>3
<1>7. \A s \in Ids : n.entries[s] # NoGroup =>
        (n.entries[s] \in live <=> n.entries[s].canonical \notin left)
  <2> SUFFICES ASSUME NEW s \in Ids, n.entries[s] # NoGroup
               PROVE  n.entries[s] \in live <=> n.entries[s].canonical \notin left
    OBVIOUS
  <2>1. n.groups[n.entries[s].canonical] = n.entries[s]
    BY <1>1 DEF EntriesLead
  <2>2. n.entries[s] \in live <=> n.entries[s] \in out
    BY <2>1
  <2> HIDE DEF live, left
  <2> QED
    BY <2>1, <2>2, <1>4, <1>6
<1> HIDE DEF live, left, m
<1>8. \A s \in Ids : m.entries[s] = IF n.entries[s] \in live THEN NoGroup ELSE n.entries[s]
  BY <1>2
<1>9. \A s \in Ids : m.groups[s] = IF s \in left THEN n.groups[s] ELSE NoGroup
  BY <1>2
<1>10. m \in HomeNames
  <2>1. m.entries \in [Ids -> HomeGroup \cup {NoGroup}]
    BY <1>2, <1>3
  <2>2. m.groups \in [Ids -> HomeGroup \cup {NoGroup}]
    BY <1>2, <1>3
  <2>3. m.order \in SUBSET (Ids \X Ids)
    BY <1>2, <1>3
  <2> QED
    BY <1>2, <2>1, <2>2, <2>3 DEF HomeNames
<1>11. EntriesLead(m)
  <2> SUFFICES ASSUME NEW s \in Ids, m.entries[s] # NoGroup
               PROVE  /\ s \in m.entries[s].aliases /\ Bounded(m.entries[s].aliases)
                      /\ m.groups[m.entries[s].canonical] = m.entries[s]
    BY DEF EntriesLead
  <2>1. m.entries[s] = n.entries[s] /\ n.entries[s] # NoGroup /\ n.entries[s] \notin live
    BY <1>8
  <2>2. /\ s \in n.entries[s].aliases /\ Bounded(n.entries[s].aliases)
        /\ n.groups[n.entries[s].canonical] = n.entries[s]
    BY <1>1, <2>1 DEF EntriesLead
  <2> QED
    BY <2>1, <2>2, <1>4, <1>7, <1>9
<1>12. GroupsHold(m)
  <2> SUFFICES ASSUME NEW s \in Ids, m.groups[s] # NoGroup
               PROVE  /\ m.groups[s].canonical = s
                      /\ \A a \in m.groups[s].aliases : m.entries[a] = m.groups[s]
                      /\ s \in m.groups[s].aliases \/ ~Bounded(m.groups[s].aliases \cup {s})
    BY DEF GroupsHold
  <2>1. m.groups[s] = n.groups[s] /\ n.groups[s] # NoGroup /\ s \in left
    BY <1>9
  <2>2. /\ n.groups[s].canonical = s
        /\ \A a \in n.groups[s].aliases : n.entries[a] = n.groups[s]
        /\ s \in n.groups[s].aliases \/ ~Bounded(n.groups[s].aliases \cup {s})
    BY <1>1, <2>1 DEF GroupsHold
  <2>3. \A a \in n.groups[s].aliases : m.entries[a] = n.groups[s]
    BY <2>1, <2>2, <1>5, <1>7, <1>8
  <2> QED
    BY <2>1, <2>2, <2>3
<1>13. Ordered(m)
  <2>1. \A s, t \in Ids : <<s, t>> \in m.order <=>
          <<s, t>> \in n.order /\ s \in left /\ t \in left
    BY <1>2
  <2> QED
    BY <2>1, <1>1, <1>9 DEF Ordered
<1>14. \A s \in Ids : n.entries[s] \in out => m.entries[s] = NoGroup
  <2> SUFFICES ASSUME NEW s \in Ids, n.entries[s] \in out, n.entries[s] # NoGroup
               PROVE  n.entries[s] \in live
    BY <1>8
  <2> QED
    BY <1>1 DEF EntriesLead, live
<1> QED
  BY <1>6, <1>8, <1>9, <1>10, <1>11, <1>12, <1>13, <1>14 DEF Remains, EntriesAgree, m

LEMMA RemainsFurther ==
  ASSUME NEW n, NEW m, NEW l, Remains(m, n), Remains(l, m)
  PROVE  Remains(l, n)
BY DEF Remains

\* A look at an entry removes its group if that has expired.
LEMMA LookedRemains ==
  ASSUME NEW n, EntriesAgree(n), NEW s \in Ids
  PROVE  Remains(Looked(n, s), n)
<1>1. CASE ~Expired(n.entries[s])
  BY <1>1 DEF Looked, Remains
<1>2. CASE Expired(n.entries[s])
  <2> DEFINE m == GroupsOut(n, {n.entries[s]})
  <2>1. Remains(m, n) /\ m.entries[s] = NoGroup
    BY WholeGroupsGo
  <2>2. m \in HomeNames
    BY <2>1 DEF Remains, EntriesAgree
  <2> HIDE DEF m
  <2>3. [m EXCEPT !.entries[s] = NoGroup] = m
    <3>1. [m.entries EXCEPT ![s] = NoGroup] = m.entries
      BY <2>1, <2>2 DEF HomeNames
    <3>2. m = [entries |-> m.entries, groups |-> m.groups, order |-> m.order]
      BY <2>2 DEF HomeNames
    <3>3. [m EXCEPT !.entries[s] = NoGroup] = [m EXCEPT !.entries = [m.entries EXCEPT ![s] = NoGroup]]
      OBVIOUS
    <3> QED
      BY <3>1, <3>2, <3>3
  <2> QED
    BY <1>2, <2>1, <2>3 DEF Looked, m
<1> QED
  BY <1>1, <1>2

LEMMA EvictableAreHeld ==
  ASSUME NEW n, EntriesAgree(n)
  PROVE  \A s \in Ids : s \in Evictable(n) <=> n.groups[s] # NoGroup
<1> SUFFICES ASSUME NEW s \in Ids
             PROVE  s \in Evictable(n) <=> n.groups[s] # NoGroup
  OBVIOUS
<1>1. s \in Evictable(n) <=> <<s, s>> \in n.order
  BY DEF Evictable
<1>2. <<s, s>> \in n.order <=> n.groups[s] # NoGroup
  BY DEF EntriesAgree, Ordered
<1> QED
  BY <1>1, <1>2

\* A group to which no other holds an alias can be added.
LEMMA InsertedAgrees ==
  ASSUME NEW n, EntriesAgree(n), NEW group \in HomeGroup, Bounded(group.aliases),
         \A a \in group.aliases : n.entries[a] = NoGroup,
         \/ group.canonical \in group.aliases
         \/ ~Bounded(group.aliases \cup {group.canonical})
  PROVE  EntriesAgree(Inserted(n, group))
<1> DEFINE name == group.canonical
           free == GroupsOut(n, {n.groups[name]})
           m == Inserted(n, group)
           places == (Evictable(free) \cup {name}) \X {name}
<1>1. name \in Ids /\ group.aliases \in SUBSET Ids
  BY DEF HomeGroup
<1>2. Remains(free, n) /\ free.groups[name] = NoGroup
  <2> DEFINE out == {n.groups[name]}
  <2>1. n.groups[name] \in out
    OBVIOUS
  <2> HIDE DEF out
  <2>2. /\ Remains(GroupsOut(n, out), n)
        /\ \A s \in Ids : n.groups[s] \in out => GroupsOut(n, out).groups[s] = NoGroup
    BY WholeGroupsGo
  <2>3. Remains(GroupsOut(n, out), n) /\ GroupsOut(n, out).groups[name] = NoGroup
    BY <1>1, <2>1, <2>2
  <2> QED
    BY <2>3 DEF out
<1>3. free \in HomeNames /\ EntriesLead(free) /\ GroupsHold(free) /\ Ordered(free)
  BY <1>2 DEF Remains, EntriesAgree
<1>4. \A a \in group.aliases : free.entries[a] = NoGroup
  BY <1>1, <1>2 DEF Remains
<1>5. /\ m.entries = [s \in Ids |-> IF s \in group.aliases THEN group ELSE free.entries[s]]
      /\ m.groups = [free.groups EXCEPT ![name] = group]
      /\ m.order = free.order \cup places
      /\ m = [entries |-> m.entries, groups |-> m.groups, order |-> m.order]
  BY DEF Inserted
<1>6. /\ free.entries \in [Ids -> HomeGroup \cup {NoGroup}]
      /\ free.groups \in [Ids -> HomeGroup \cup {NoGroup}]
      /\ free.order \subseteq Ids \X Ids
  BY <1>3 DEF HomeNames
<1>7. \A s \in Ids : s \in Evictable(free) <=> free.groups[s] # NoGroup
  BY <1>2, EvictableAreHeld DEF Remains
<1>8. \A s, t \in Ids : <<s, t>> \in m.order <=>
        \/ <<s, t>> \in free.order
        \/ t = name /\ (s = name \/ free.groups[s] # NoGroup)
  BY <1>1, <1>5, <1>7
<1>9. group # NoGroup
  BY DEF HomeGroup, NoGroup
<1>10. places \subseteq Ids \X Ids
  BY <1>1 DEF Evictable
<1> HIDE DEF free, m, name, places
<1>11. \A s \in Ids : m.entries[s] = IF s \in group.aliases THEN group ELSE free.entries[s]
  BY <1>5
<1>12. \A s \in Ids : m.groups[s] = IF s = name THEN group ELSE free.groups[s]
  BY <1>5, <1>6
<1>13. m \in HomeNames
  <2>1. m.entries \in [Ids -> HomeGroup \cup {NoGroup}]
    BY <1>5, <1>6
  <2>2. m.groups \in [Ids -> HomeGroup \cup {NoGroup}]
    BY <1>5, <1>6
  <2>3. m.order \in SUBSET (Ids \X Ids)
    BY <1>5, <1>6, <1>10
  <2> QED
    BY <1>5, <2>1, <2>2, <2>3 DEF HomeNames
<1>14. EntriesLead(m)
  <2> SUFFICES ASSUME NEW s \in Ids, m.entries[s] # NoGroup
               PROVE  /\ s \in m.entries[s].aliases /\ Bounded(m.entries[s].aliases)
                      /\ m.groups[m.entries[s].canonical] = m.entries[s]
    BY DEF EntriesLead
  <2>1. CASE s \in group.aliases
    BY <2>1, <1>1, <1>11, <1>12 DEF name
  <2>2. CASE s \notin group.aliases
    <3>1. m.entries[s] = free.entries[s] /\ free.entries[s] # NoGroup
      BY <2>2, <1>11
    <3>2. /\ s \in free.entries[s].aliases /\ Bounded(free.entries[s].aliases)
          /\ free.groups[free.entries[s].canonical] = free.entries[s]
      BY <3>1, <1>3 DEF EntriesLead
    <3>3. free.entries[s].canonical \in Ids
      BY <3>1, <1>6 DEF HomeGroup
    <3>4. free.entries[s].canonical # name
      BY <3>1, <3>2, <1>2
    <3> QED
      BY <3>1, <3>2, <3>3, <3>4, <1>12
  <2> QED
    BY <2>1, <2>2
<1>15. GroupsHold(m)
  <2> SUFFICES ASSUME NEW s \in Ids, m.groups[s] # NoGroup
               PROVE  /\ m.groups[s].canonical = s
                      /\ \A a \in m.groups[s].aliases : m.entries[a] = m.groups[s]
                      /\ s \in m.groups[s].aliases \/ ~Bounded(m.groups[s].aliases \cup {s})
    BY DEF GroupsHold
  <2>1. CASE s = name
    BY <2>1, <1>1, <1>11, <1>12 DEF name
  <2>2. CASE s # name
    <3>1. m.groups[s] = free.groups[s] /\ free.groups[s] # NoGroup
      BY <2>2, <1>12
    <3>2. /\ free.groups[s].canonical = s
          /\ \A a \in free.groups[s].aliases : free.entries[a] = free.groups[s]
          /\ s \in free.groups[s].aliases \/ ~Bounded(free.groups[s].aliases \cup {s})
      BY <3>1, <1>3 DEF GroupsHold
    <3>3. free.groups[s].aliases \subseteq Ids
      BY <3>1, <1>6 DEF HomeGroup
    <3>4. \A a \in free.groups[s].aliases : m.entries[a] = free.groups[s]
      BY <3>1, <3>2, <3>3, <1>4, <1>11
    <3> QED
      BY <3>1, <3>2, <3>4
  <2> QED
    BY <2>1, <2>2
<1>16. Ordered(m)
  <2>1. \A s, t \in Ids : <<s, t>> \in m.order => m.groups[s] # NoGroup /\ m.groups[t] # NoGroup
    BY <1>3, <1>8, <1>9, <1>12 DEF Ordered
  <2>2. \A s \in Ids : m.groups[s] # NoGroup => <<s, s>> \in m.order
    BY <1>3, <1>8, <1>12 DEF Ordered
  <2>3. ASSUME NEW s \in Ids, NEW t \in Ids,
               m.groups[s] # NoGroup, m.groups[t] # NoGroup, s # t
        PROVE  <<s, t>> \in m.order <=> <<t, s>> \notin m.order
    BY <2>3, <1>2, <1>3, <1>8, <1>12 DEF Ordered
  <2> QED
    BY <2>1, <2>2, <2>3 DEF Ordered
<1> QED
  BY <1>13, <1>14, <1>15, <1>16 DEF EntriesAgree, m

LEMMA OneMoreEntry ==
  ASSUME NEW group \in SUBSET Ids, NEW s \in Ids, s \notin group
  PROVE  /\ Cardinality(group \cap PromptKeys) \in Nat
         /\ Cardinality(group \ PromptKeys) \in Nat
         /\ s \in PromptKeys =>
              /\ Cardinality((group \cup {s}) \cap PromptKeys) =
                   Cardinality(group \cap PromptKeys) + 1
              /\ Cardinality((group \cup {s}) \ PromptKeys) = Cardinality(group \ PromptKeys)
         /\ s \notin PromptKeys =>
              /\ Cardinality((group \cup {s}) \cap PromptKeys) =
                   Cardinality(group \cap PromptKeys)
              /\ Cardinality((group \cup {s}) \ PromptKeys) =
                   Cardinality(group \ PromptKeys) + 1
<1> DEFINE prompts == group \cap PromptKeys
           stable == group \ PromptKeys
<1>1. IsFiniteSet(prompts) /\ IsFiniteSet(stable)
  BY AliasBounds, FS_Subset
<1>2. Cardinality(prompts) \in Nat /\ Cardinality(stable) \in Nat
  BY <1>1, FS_CardinalityType
<1>3. s \notin prompts /\ s \notin stable
  OBVIOUS
<1>4. /\ Cardinality(prompts \cup {s}) = Cardinality(prompts) + 1
      /\ Cardinality(stable \cup {s}) = Cardinality(stable) + 1
  <2> HIDE DEF prompts, stable
  <2> QED
    BY <1>1, <1>3, FS_AddElement
<1>5. ASSUME s \in PromptKeys
      PROVE  (group \cup {s}) \cap PromptKeys = prompts \cup {s}
             /\ (group \cup {s}) \ PromptKeys = stable
  BY <1>5
<1>6. ASSUME s \notin PromptKeys
      PROVE  (group \cup {s}) \cap PromptKeys = prompts
             /\ (group \cup {s}) \ PromptKeys = stable \cup {s}
  BY <1>6
<1> QED
  BY <1>2, <1>4, <1>5, <1>6

\* Where a part of the aliases leaves no room for a name, what is kept of them leaves
\* none either.
LEMMA NoRoomLater ==
  ASSUME NEW aliases \in SUBSET Ids, NEW first, NEW chosen \in Compacted(first, aliases),
         NEW name \in Ids, name \notin aliases,
         NEW part \in SUBSET aliases, Bounded(part), ~Bounded(part \cup {name})
  PROVE  ~Bounded(chosen \cup {name})
<1> SUFFICES ASSUME Bounded(chosen \cup {name}) PROVE FALSE
  OBVIOUS
<1>1. /\ chosen \subseteq aliases /\ Bounded(chosen)
      /\ \A s \in aliases \ chosen : ~Bounded(chosen \cup {s})
  BY DEF Compacted
<1>2. chosen \in SUBSET Ids /\ part \in SUBSET Ids /\ name \notin chosen /\ name \notin part
  BY <1>1
<1> DEFINE prompts(group) == Cardinality(group \cap PromptKeys)
           stable(group) == Cardinality(group \ PromptKeys)
<1>b. \A group : Bounded(group) <=> prompts(group) <= 1 /\ stable(group) <= MaxStable
  BY DEF Bounded
<1>m. ASSUME NEW group \in SUBSET Ids, NEW s \in Ids, s \notin group
      PROVE  /\ prompts(group) \in Nat /\ stable(group) \in Nat
             /\ prompts(group \cup {s}) = prompts(group) + IF s \in PromptKeys THEN 1 ELSE 0
             /\ stable(group \cup {s}) = stable(group) + IF s \in PromptKeys THEN 0 ELSE 1
  <2>1. /\ prompts(group) \in Nat /\ stable(group) \in Nat
        /\ s \in PromptKeys => /\ prompts(group \cup {s}) = prompts(group) + 1
                              /\ stable(group \cup {s}) = stable(group)
        /\ s \notin PromptKeys => /\ prompts(group \cup {s}) = prompts(group)
                                 /\ stable(group \cup {s}) = stable(group) + 1
    BY <1>m, OneMoreEntry
  <2> HIDE DEF prompts, stable
  <2> QED
    BY <2>1
<1>n. MaxStable \in Nat
  BY AliasBounds
<1>3. CASE name \in PromptKeys
  <2>1. Cardinality(part \cap PromptKeys) > 0
    <3> HIDE DEF prompts, stable
    <3>1. prompts(part) > 0
      BY <1>b, <1>m, <1>n, <1>2, <1>3
    <3> QED
      BY <3>1 DEF prompts
  <2>2. PICK s : s \in part \cap PromptKeys
    BY <2>1, FS_EmptySet
  <2>3. prompts(chosen) = 0
    <3> HIDE DEF prompts, stable
    <3> QED
      BY <1>b, <1>m, <1>2, <1>3
  <2>4. s \notin chosen
    <3>1. IsFiniteSet(chosen \cap PromptKeys)
      BY AliasBounds, FS_Subset
    <3>2. chosen \cap PromptKeys = {}
      BY <2>3, <3>1, FS_EmptySet
    <3> QED
      BY <2>2, <3>2
  <2>5. Bounded(chosen \cup {s})
    <3>1. s \in Ids /\ s \in PromptKeys
      BY <1>2, <2>2
    <3> HIDE DEF prompts, stable
    <3> QED
      BY <1>b, <1>m, <1>n, <1>1, <1>2, <2>3, <2>4, <3>1
  <2> QED
    BY <1>1, <2>2, <2>4, <2>5
<1>4. CASE name \notin PromptKeys
  <2>1. stable(part) + 1 > MaxStable
    <3> HIDE DEF prompts, stable
    <3> QED
      BY <1>b, <1>m, <1>n, <1>2, <1>4
  <2>2. stable(chosen) + 1 <= MaxStable
    <3> HIDE DEF prompts, stable
    <3> QED
      BY <1>b, <1>m, <1>n, <1>2, <1>4
  <2>3. PICK s : s \in (part \ PromptKeys) \ chosen
    <3> SUFFICES ASSUME part \ PromptKeys \subseteq chosen \ PromptKeys PROVE FALSE
      OBVIOUS
    <3> DEFINE fewer == part \ PromptKeys
               more == chosen \ PromptKeys
    <3>1. IsFiniteSet(more) /\ fewer \subseteq more
      BY <1>2, AliasBounds, FS_Subset
    <3>2. Cardinality(fewer) <= Cardinality(more)
      <4> HIDE DEF fewer, more
      <4> QED
        BY <3>1, FS_Subset
    <3>3. Cardinality(fewer) \in Nat /\ Cardinality(more) \in Nat
      BY <1>2, <1>m
    <3> QED
      BY <2>1, <2>2, <3>2, <3>3, AliasBounds
  <2>4. Bounded(chosen \cup {s})
    <3>1. s \in Ids /\ s \notin PromptKeys /\ s \notin chosen
      BY <1>2, <2>3
    <3> HIDE DEF prompts, stable
    <3>2. /\ prompts(chosen) \in Nat /\ stable(chosen) \in Nat
          /\ prompts(chosen \cup {s}) = prompts(chosen)
          /\ stable(chosen \cup {s}) = stable(chosen) + 1
      BY <1>m, <1>2, <3>1
    <3>3. prompts(chosen) <= 1
      BY <1>b, <1>1
    <3> QED
      BY <1>b, <1>n, <2>2, <3>2, <3>3
  <2> QED
    BY <1>1, <2>3, <2>4
<1> QED
  BY <1>3, <1>4

\* The aliases of a new group; a name that was dropped before is dropped again.
FitFor(group, aliases, name) ==
  /\ group \subseteq aliases \cup {name} /\ Bounded(group)
  /\ name \in group \/ ~Bounded(group \cup {name})
  /\ \/ name \in aliases \/ name \notin group
     \/ \A part \in SUBSET aliases : Bounded(part) => Bounded(part \cup {name})

LEMMA KeptAliases ==
  ASSUME NEW aliases \in SUBSET Ids, NEW first, NEW name \in Ids,
         NEW group \in Kept(first, aliases, name)
  PROVE  FitFor(group, aliases, name)
<1>1. PICK chosen \in Compacted(first, aliases) :
             group = IF Bounded(chosen \cup {name}) THEN chosen \cup {name} ELSE chosen
  BY DEF Kept
<1>2. chosen \subseteq aliases /\ Bounded(chosen)
  BY DEF Compacted
<1>3. \/ name \in aliases \/ name \notin group
      \/ \A part \in SUBSET aliases : Bounded(part) => Bounded(part \cup {name})
  BY <1>1, <1>2, NoRoomLater
<1> QED
  BY <1>1, <1>2, <1>3 DEF FitFor

LEMMA WithinRemains ==
  ASSUME NEW n, NEW m, Remains(m, n), Within(n)
  PROVE  Within(m)
<1> DEFINE before == {s \in Ids : n.entries[s] # NoGroup}
           after == {s \in Ids : m.entries[s] # NoGroup}
<1>1. IsFiniteSet(before) /\ after \subseteq before
  BY AliasBounds, FS_Subset DEF Remains
<1>2. Cardinality(before) \in Nat /\ Cardinality(after) \in Nat
      /\ Cardinality(after) <= Cardinality(before)
  <2> HIDE DEF before, after
  <2> QED
    BY <1>1, FS_Subset, FS_CardinalityType
<1> QED
  BY <1>2, LimitBounds DEF Within

\* The oldest groups go, at worst all of them.
LEMMA EvictedRemains ==
  ASSUME NEW n, EntriesAgree(n), NEW m \in Evicted(n)
  PROVE  Remains(m, n) /\ Within(m)
<1>1. PICK o \in SUBSET Evictable(n) :
             /\ m = GroupsOut(n, {n.groups[s] : s \in o})
             /\ Within(m) \/ o = Evictable(n)
  BY DEF Evicted
<1>2. PICK out : out = {n.groups[s] : s \in o}
  OBVIOUS
<1>3. /\ Remains(m, n)
      /\ \A s \in Ids : n.groups[s] \in out => m.groups[s] = NoGroup
  BY <1>1, <1>2, WholeGroupsGo
<1>4. CASE o = Evictable(n)
  <2>1. \A s \in Ids : m.groups[s] = NoGroup
    <3> SUFFICES ASSUME NEW s \in Ids, n.groups[s] # NoGroup PROVE n.groups[s] \in out
      BY <1>3 DEF Remains
    <3>1. s \in o
      BY <1>4, EvictableAreHeld
    <3> QED
      BY <1>2, <3>1
  <2>2. \A s \in Ids : m.entries[s] = NoGroup
    <3> SUFFICES ASSUME NEW s \in Ids, m.entries[s] # NoGroup PROVE FALSE
      OBVIOUS
    <3>1. m.groups[m.entries[s].canonical] = m.entries[s] /\ m.entries[s] \in HomeGroup
      BY <1>3 DEF Remains, EntriesAgree, EntriesLead, HomeNames
    <3> QED
      BY <2>1, <3>1 DEF HomeGroup
  <2>3. {s \in Ids : m.entries[s] # NoGroup} = {}
    BY <2>2
  <2> QED
    BY <1>3, <2>3, FS_EmptySet, LimitBounds DEF Within
<1> QED
  BY <1>1, <1>3, <1>4

\* The group that canonical makes of what it found: no group that stays holds one of its
\* aliases, for its own name is one of those found or was dropped for good.
LEMMA JoinedAgrees ==
  ASSUME NEW n, EntriesAgree(n), NEW seen, Remains(seen, n),
         NEW primary \in Ids, NEW fallback \in Ids, NEW name \in Ids, NEW ends \in Nat,
         NEW matched, matched = {n.entries[primary], n.entries[fallback]} \ {NoGroup},
         NEW previous, previous = (matched \cup {seen.groups[name]}) \ {NoGroup},
         \/ name = primary
         \/ \E g \in matched : g.canonical = name,
         NEW merged, merged = {primary, fallback} \cup UNION {g.aliases : g \in previous},
         NEW aliases \in Kept(primary, merged, name)
  PROVE  EntriesAgree(Inserted(GroupsOut(seen, previous),
                  [canonical |-> name, expires |-> ends, aliases |-> aliases]))
<1>0. n \in HomeNames /\ EntriesLead(n) /\ GroupsHold(n)
  BY DEF EntriesAgree
<1>1. \A g \in matched : g \in HomeGroup /\ Bounded(g.aliases) /\ n.groups[g.canonical] = g
  BY <1>0 DEF HomeNames, EntriesLead
<1>2. \A g \in previous : g \in HomeGroup /\ n.groups[g.canonical] = g
  <2> SUFFICES ASSUME NEW g \in previous, g \notin matched
               PROVE  g \in HomeGroup /\ n.groups[g.canonical] = g
    BY <1>1
  <2>1. g = n.groups[name] /\ g # NoGroup
    BY DEF Remains
  <2> QED
    BY <1>0, <2>1 DEF HomeNames, GroupsHold
<1>3. \A g \in previous : g # NoGroup /\ g.canonical \in Ids /\ g.aliases \subseteq Ids
  BY <1>2 DEF HomeGroup
<1>4. \A g \in previous : \A a \in g.aliases : n.entries[a] = g
  <2> SUFFICES ASSUME NEW g \in previous, NEW a \in g.aliases PROVE n.entries[a] = g
    OBVIOUS
  <2>1. n.groups[g.canonical] = g /\ g # NoGroup /\ g.canonical \in Ids
    BY <1>2, <1>3
  <2> QED
    BY <1>0, <2>1 DEF GroupsHold
<1>5. merged \in SUBSET Ids
  BY <1>3
<1>6. \A a \in merged : seen.entries[a] \in previous \cup {NoGroup}
  <2> SUFFICES ASSUME NEW a \in merged PROVE n.entries[a] \in previous \cup {NoGroup}
    BY <1>5 DEF Remains
  <2>1. CASE a \in {primary, fallback}
    BY <2>1
  <2>2. CASE a \notin {primary, fallback}
    <3>1. PICK g \in previous : a \in g.aliases
      BY <2>2
    <3> QED
      BY <3>1, <1>4
  <2> QED
    BY <2>1, <2>2
<1>7. EntriesAgree(seen)
  BY DEF Remains
<1>8. PICK m : m = GroupsOut(seen, previous)
  OBVIOUS
<1>9. /\ Remains(m, seen) /\ EntriesAgree(m)
      /\ \A s \in Ids : seen.entries[s] \in previous => m.entries[s] = NoGroup
  BY <1>7, <1>8, WholeGroupsGo DEF Remains
<1>10. \A a \in merged : m.entries[a] = NoGroup
  BY <1>5, <1>6, <1>9 DEF Remains
<1>11. /\ aliases \subseteq merged \cup {name} /\ Bounded(aliases)
       /\ name \in aliases \/ ~Bounded(aliases \cup {name})
       /\ \/ name \in merged \/ name \notin aliases
          \/ \A part \in SUBSET merged : Bounded(part) => Bounded(part \cup {name})
  <2>1. FitFor(aliases, merged, name)
    BY <1>5, KeptAliases
  <2> QED
    BY <2>1 DEF FitFor
<1>12. aliases \subseteq merged
  <2> SUFFICES ASSUME name \in aliases, name \notin merged PROVE FALSE
    BY <1>11
  <2>1. PICK g \in matched : g.canonical = name
    OBVIOUS
  <2>2. g \in previous /\ g # NoGroup
    BY <1>1
  <2>3. g.aliases \in SUBSET merged /\ name \notin g.aliases
    BY <2>2
  <2>4. n.groups[name] = g /\ Bounded(g.aliases)
    BY <1>1, <2>1
  <2>5. ~Bounded(g.aliases \cup {name})
    BY <1>0, <2>2, <2>3, <2>4 DEF GroupsHold
  <2> QED
    BY <1>11, <2>3, <2>4, <2>5
<1> DEFINE group == [canonical |-> name, expires |-> ends, aliases |-> aliases]
<1>13. group \in HomeGroup /\ group.aliases = aliases /\ group.canonical = name
  BY <1>5, <1>12 DEF HomeGroup
<1> HIDE DEF group
<1>14. EntriesAgree(Inserted(m, group))
  BY <1>9, <1>10, <1>11, <1>12, <1>13, InsertedAgrees
<1> QED
  BY <1>8, <1>14 DEF group

HomeInv == EntriesAgree(names) /\ Within(names) /\ hour \in 0..MaxTime

LEMMA CanonicalAgrees ==
  ASSUME HomeInv, NEW primary \in Ids, NEW fallback \in Ids, Canonical(primary, fallback)
  PROVE  HomeInv'
<1>1. PICK swept \in {names, Cleaned(names)} :
        LET looked == Looked(Looked(swept, primary), fallback)
            matched == {looked.entries[primary], looked.entries[fallback]} \ {NoGroup}
            name == IF looked.entries[primary] # NoGroup THEN looked.entries[primary].canonical
                    ELSE IF matched # {} THEN looked.entries[fallback].canonical ELSE primary
            seen == IF Expired(looked.groups[name])
                    THEN GroupsOut(looked, {looked.groups[name]}) ELSE looked
            previous == (matched \cup {seen.groups[name]}) \ {NoGroup}
        IN
        /\ IF matched = {} /\ previous # {} THEN names' = seen
           ELSE \E aliases \in Kept(primary, {primary, fallback}
                                             \cup UNION {g.aliases : g \in previous}, name) :
                  names' \in Evicted(Inserted(GroupsOut(seen, previous),
                               [canonical |-> name, expires |-> hour + TTL, aliases |-> aliases]))
        /\ UNCHANGED hour
  BY DEF Canonical
<1> DEFINE looked == Looked(Looked(swept, primary), fallback)
           matched == {looked.entries[primary], looked.entries[fallback]} \ {NoGroup}
           name == IF looked.entries[primary] # NoGroup THEN looked.entries[primary].canonical
                   ELSE IF matched # {} THEN looked.entries[fallback].canonical ELSE primary
           seen == IF Expired(looked.groups[name])
                   THEN GroupsOut(looked, {looked.groups[name]}) ELSE looked
           previous == (matched \cup {seen.groups[name]}) \ {NoGroup}
           merged == {primary, fallback} \cup UNION {g.aliases : g \in previous}
<1>2. /\ IF matched = {} /\ previous # {} THEN names' = seen
         ELSE \E aliases \in Kept(primary, merged, name) :
                names' \in Evicted(Inserted(GroupsOut(seen, previous),
                  [canonical |-> name, expires |-> hour + TTL, aliases |-> aliases]))
      /\ hour' = hour
  BY <1>1
<1> HIDE DEF merged
<1>7. merged = {primary, fallback} \cup UNION {g.aliases : g \in previous}
  BY DEF merged
<1> HIDE DEF previous
<1>6. previous = (matched \cup {seen.groups[name]}) \ {NoGroup}
  BY DEF previous
<1> HIDE DEF seen
<1>5. seen = IF Expired(looked.groups[name])
             THEN GroupsOut(looked, {looked.groups[name]}) ELSE looked
  BY DEF seen
<1> HIDE DEF name
<1>4. name = IF looked.entries[primary] # NoGroup THEN looked.entries[primary].canonical
             ELSE IF matched # {} THEN looked.entries[fallback].canonical ELSE primary
  BY DEF name
<1> HIDE DEF matched
<1>3. matched = {looked.entries[primary], looked.entries[fallback]} \ {NoGroup}
  BY DEF matched
<1> HIDE DEF looked
<1>9. Remains(swept, names)
  BY WholeGroupsGo DEF HomeInv, Cleaned, Remains
<1>10. EntriesAgree(looked) /\ Remains(looked, names)
  <2>1. PICK once : once = Looked(swept, primary)
    OBVIOUS
  <2>2. Remains(once, swept) /\ EntriesAgree(swept)
    BY <1>9, <2>1, LookedRemains DEF Remains
  <2>3. Remains(looked, once)
    BY <2>1, <2>2, LookedRemains DEF Remains, looked
  <2> QED
    BY <1>9, <2>2, <2>3, RemainsFurther DEF Remains
<1>11. Remains(seen, looked)
  <2>1. CASE Expired(looked.groups[name])
    BY <1>5, <1>10, <2>1, WholeGroupsGo
  <2>2. CASE ~Expired(looked.groups[name])
    BY <1>5, <1>10, <2>2 DEF Remains
  <2> QED
    BY <2>1, <2>2
<1>12. name \in Ids /\ (name = primary \/ \E g \in matched : g.canonical = name)
  <2>1. \A s \in Ids : looked.entries[s] # NoGroup => looked.entries[s].canonical \in Ids
    BY <1>10 DEF EntriesAgree, HomeNames, HomeGroup
  <2>2. CASE looked.entries[primary] # NoGroup
    BY <1>3, <1>4, <2>1, <2>2
  <2>3. CASE looked.entries[primary] = NoGroup /\ matched # {}
    BY <1>3, <1>4, <2>1, <2>3
  <2>4. CASE looked.entries[primary] = NoGroup /\ matched = {}
    BY <1>4, <2>4
  <2> QED
    BY <2>2, <2>3, <2>4
<1>13. hour' \in 0..MaxTime /\ hour + TTL \in Nat
  BY <1>2, AliasBounds DEF HomeInv
<1>14. CASE matched = {} /\ previous # {}
  <2>1. names' = seen
    BY <1>2, <1>14
  <2>2. Remains(seen, names)
    BY <1>10, <1>11, RemainsFurther
  <2>3. EntriesAgree(seen) /\ Within(seen)
    BY <2>2, WithinRemains DEF HomeInv, Remains
  <2> QED
    BY <1>13, <2>1, <2>3 DEF HomeInv
<1>15. CASE ~(matched = {} /\ previous # {})
  <2>1. PICK aliases \in Kept(primary, merged, name) :
               names' \in Evicted(Inserted(GroupsOut(seen, previous),
                 [canonical |-> name, expires |-> hour + TTL, aliases |-> aliases]))
    BY <1>2, <1>15
  <2>2. PICK joined : joined = Inserted(GroupsOut(seen, previous),
                 [canonical |-> name, expires |-> hour + TTL, aliases |-> aliases])
    OBVIOUS
  <2>3. EntriesAgree(joined)
    BY <1>3, <1>6, <1>7, <1>10, <1>11, <1>12, <1>13, <2>2, JoinedAgrees
  <2>4. PICK m \in Evicted(joined) : names' = m
    BY <2>1, <2>2
  <2>5. EntriesAgree(m) /\ Within(m)
    BY <2>3, EvictedRemains DEF Remains
  <2> QED
    BY <1>13, <2>4, <2>5 DEF HomeInv
<1> QED
  BY <1>14, <1>15

LEMMA HomeInvariant == HomeSpec => []HomeInv
<1>1. HomeInit => HomeInv
  <2> SUFFICES ASSUME HomeInit PROVE HomeInv
    OBVIOUS
  <2>1. /\ names.entries = [s \in Ids |-> NoGroup] /\ names.groups = [s \in Ids |-> NoGroup]
        /\ names.order = {} /\ names \in HomeNames
    BY DEF HomeInit, HomeNames
  <2>2. {s \in Ids : names.entries[s] # NoGroup} = {}
    BY <2>1
  <2>3. Within(names)
    BY <2>2, FS_EmptySet, LimitBounds DEF Within
  <2> QED
    BY <2>1, <2>3, AliasBounds
       DEF HomeInit, HomeInv, EntriesAgree, EntriesLead, GroupsHold, Ordered
<1>2. HomeInv /\ [HomeNext]_homeVars => HomeInv'
  <2> SUFFICES ASSUME HomeInv, [HomeNext]_homeVars PROVE HomeInv'
    OBVIOUS
  <2>1. CASE UNCHANGED homeVars
    BY <2>1 DEF homeVars, HomeInv
  <2>2. CASE HomeTick
    BY <2>2, AliasBounds DEF HomeTick, HomeInv
  <2>3. ASSUME NEW primary \in Ids, NEW fallback \in Ids, Canonical(primary, fallback)
        PROVE  HomeInv'
    BY <2>3, CanonicalAgrees
  <2> QED
    BY <2>1, <2>2, <2>3 DEF HomeNext
<1> QED
  BY <1>1, <1>2, PTL DEF HomeSpec

\* One conversation has one name at Home: an alias belongs to one group, which is found
\* under its name, all its aliases lead to it, and it can be evicted.
\* (canonical, setGroupLocked, removeGroupLocked, enforceLimitLocked)
THEOREM OneNamePerConversation == HomeSpec => []NamesAgree
<1>1. HomeInv => NamesAgree
  <2> SUFFICES ASSUME HomeInv PROVE NamesAgree
    OBVIOUS
  <2>1. EntriesLead(names) /\ GroupsHold(names) /\ Ordered(names)
    BY DEF HomeInv, EntriesAgree
  <2>2. \A s \in Ids : s \in Evictable(names) <=> names.groups[s] # NoGroup
    BY EvictableAreHeld DEF HomeInv
  <2>3. Evictable(names) = {s \in Ids : names.groups[s] # NoGroup}
    BY <2>2 DEF Evictable
  <2>4. \A s, t \in Evictable(names) :
          <<s, t>> \in names.order <=> (s = t \/ <<t, s>> \notin names.order)
    <3> SUFFICES ASSUME NEW s \in Evictable(names), NEW t \in Evictable(names)
                 PROVE  <<s, t>> \in names.order <=> (s = t \/ <<t, s>> \notin names.order)
      OBVIOUS
    <3>1. /\ s \in Ids /\ names.groups[s] # NoGroup
          /\ t \in Ids /\ names.groups[t] # NoGroup
      BY <2>3
    <3> QED
      BY <2>1, <3>1 DEF Ordered
  <2> QED
    BY <2>1, <2>3, <2>4 DEF NamesAgree, EntriesLead, GroupsHold
<1> QED
  BY <1>1, HomeInvariant, PTL

\* There are never more entries than the limit, however many groups it takes to evict.
\* (enforceLimitLocked)
THEOREM NamesStayWithinLimit == HomeSpec => []HomeTypeOK
<1>1. HomeInv => HomeTypeOK
  BY DEF HomeInv, HomeTypeOK, EntriesAgree, HomeNames, Within
<1> QED
  BY <1>1, HomeInvariant, PTL
=============================================================================
