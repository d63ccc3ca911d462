------------------------------ MODULE UsageQueue ------------------------------
(***************************************************************************)
(* The way of a usage record: requests publish it to the usage manager      *)
(* (sdk/cliproxy/usage/manager.go), whose one goroutine hands it to the     *)
(* usage queue (internal/redisqueue): to those who subscribe, or else to    *)
(* the items that pollers and the forwarder to Home (service.go) take.  The *)
(* queue can be switched off, and drops what nobody takes in time.          *)
(*                                                                         *)
(* The look at the switch, the offer to the subscribers and the entry among *)
(* the items are three steps, and so are the looks and pops of those who    *)
(* take.  Records are numbered in the order in which the manager accepts    *)
(* them.                                                                    *)
(***************************************************************************)
EXTENDS Integers, Sequences, SequencesExt, FiniteSets

CONSTANTS
  Subscriptions,     \* each is made once
  StreamBuffer,      \* capacity of the channel of a subscription
  PopCount,          \* how many items a pop takes at most
  MaxRecords, MaxNotices, MaxFlips   \* bounds: records, notices, turns of the switch

ASSUME UsageBounds ==
  /\ {StreamBuffer, PopCount} \subseteq Nat \ {0}
  /\ {MaxRecords, MaxNotices, MaxFlips} \subseteq Nat

VARIABLES
  waiting, accepted, worker,     \* Manager.queue, the records so far, run
  enqueuing,                     \* where a call of Enqueue is, with its record
  usageOn, flips, clearing,      \* enabled, and the SetEnabled under way
  items, settled,                \* the items, and history: the records that are done
  passed, popped, returning,     \* those who saw the switch on; of the forwarder
  subscription, stream,          \* the subscribers and their channels
  since, consumed,               \* history: what was published before, what was read
  published, notices             \* history: what the subscribers were offered

managerVars  == <<waiting, accepted, worker>>
switchVars   == <<usageOn, flips, clearing>>
takerVars    == <<passed, popped, returning>>
readerVars   == <<subscription, stream, since, consumed, published>>
usageVars == <<managerVars, enqueuing, switchVars, items, settled, takerVars, readerVars, notices>>

Greeting == -1   \* {"support_refresh":true}
RefreshNotice == 0      \* {"refresh":true}
NoEnqueue == [step |-> "none", record |-> 0]
Enqueuers == {"manager", "forwarder"}

UsageInit ==
  /\ waiting = <<>> /\ accepted = 0 /\ worker = "running"
  /\ enqueuing = [e \in Enqueuers |-> NoEnqueue]
  /\ usageOn = TRUE /\ flips = 0 /\ clearing = FALSE
  /\ items = <<>> /\ settled = {}
  /\ passed = {} /\ popped = <<>> /\ returning = FALSE
  /\ subscription = [s \in Subscriptions |-> "none"]
  /\ stream = [s \in Subscriptions |-> <<>>]
  /\ since = [s \in Subscriptions |-> 0] /\ consumed = since
  /\ published = <<>> /\ notices = 0

EnqueueAt(e, step, r) == enqueuing' = [enqueuing EXCEPT ![e] = [step |-> step, record |-> r]]
EnqueueOver(e) == enqueuing' = [enqueuing EXCEPT ![e] = NoEnqueue]
Finish(records) == settled' = settled \cup records

\* pruneLocked: a prefix of the items is too old.
Prunings == {SubSeq(items, n, Len(items)) : n \in 1..Len(items) + 1}

-----------------------------------------------------------------------------
(* The usage manager.                                                      *)

\* Publish: dropped when the manager is closed.
PublishRecord ==
  /\ worker = "running" /\ accepted < MaxRecords
  /\ accepted' = accepted + 1
  /\ waiting' = Append(waiting, accepted + 1)
  /\ UNCHANGED <<worker, enqueuing, switchVars, items, settled, takerVars, readerVars, notices>>

StopManager ==
  /\ worker = "running" /\ worker' = "closed"
  /\ UNCHANGED <<waiting, accepted, enqueuing, switchVars, items, settled, takerVars,
                 readerVars, notices>>

\* run: what waited when the manager was closed is dispatched as well.
ManagerReturns ==
  /\ worker = "closed" /\ enqueuing["manager"] = NoEnqueue /\ waiting = <<>>
  /\ worker' = "ended"
  /\ UNCHANGED <<waiting, accepted, enqueuing, switchVars, items, settled, takerVars,
                 readerVars, notices>>

\* dispatch.  HandleUsage ends at once when the configuration turned the
\* statistics off; its first look at the switch is one with that of Enqueue.
DispatchRecord ==
  /\ worker # "ended" /\ enqueuing["manager"] = NoEnqueue /\ waiting # <<>>
  /\ waiting' = Tail(waiting)
  /\ \/ EnqueueAt("manager", "check", Head(waiting)) /\ UNCHANGED settled
     \/ Finish({Head(waiting)}) /\ UNCHANGED enqueuing
  /\ UNCHANGED <<accepted, worker, switchVars, items, takerVars, readerVars, notices>>

-----------------------------------------------------------------------------
(* Enqueue and its subscribers.                                            *)

CheckEnabled(e) ==
  /\ enqueuing[e].step = "check"
  /\ IF usageOn THEN EnqueueAt(e, "offer", enqueuing[e].record) /\ UNCHANGED settled
     ELSE EnqueueOver(e) /\ Finish({enqueuing[e].record})
  /\ UNCHANGED <<managerVars, switchVars, items, takerVars, readerVars, notices>>

Subscribed == {s \in Subscriptions : subscription[s] = "open"}
Full(s) == Len(stream[s]) = StreamBuffer
Sent(payload) ==
  [s \in Subscriptions |-> IF s \in Subscribed /\ ~Full(s) THEN Append(stream[s], payload)
                           ELSE stream[s]]

\* Faulty variant: a subscriber that is too slow only misses the payload.
PublishToFast(payload) ==
  /\ published' = Append(published, payload) /\ stream' = Sent(payload)
  /\ UNCHANGED <<subscription, since, consumed>>

\* publishToSubscribers, with a subscriber.  One that is too slow is cut off.
PublishToSubscribers(payload) ==
  /\ published' = Append(published, payload) /\ stream' = Sent(payload)
  /\ subscription' = [s \in Subscriptions |-> IF s \in Subscribed /\ Full(s) THEN "cut"
                                              ELSE subscription[s]]
  /\ UNCHANGED <<since, consumed>>

\* Faulty variant: a record that found subscribers is queued as well.
OfferAndKeep(e) ==
  /\ enqueuing[e].step = "offer"
  /\ EnqueueAt(e, "append", enqueuing[e].record)
  /\ IF Subscribed = {} THEN UNCHANGED <<settled, readerVars>>
     ELSE Finish({enqueuing[e].record}) /\ PublishToSubscribers(enqueuing[e].record)
  /\ UNCHANGED <<managerVars, switchVars, items, takerVars, notices>>

\* A record that found subscribers is not queued, even if all of them were cut off.
Offer(e) ==
  /\ enqueuing[e].step = "offer"
  /\ IF Subscribed = {}
     THEN EnqueueAt(e, "append", enqueuing[e].record) /\ UNCHANGED <<settled, readerVars>>
     ELSE /\ EnqueueOver(e) /\ Finish({enqueuing[e].record})
          /\ PublishToSubscribers(enqueuing[e].record)
  /\ UNCHANGED <<managerVars, switchVars, items, takerVars, notices>>

\* enqueue
AppendItem(e) ==
  /\ enqueuing[e].step = "append"
  /\ \E left \in Prunings :
       /\ items' = Append(left, enqueuing[e].record)
       /\ Finish(ToSet(items) \ ToSet(left))
  /\ EnqueueOver(e)
  /\ UNCHANGED <<managerVars, switchVars, takerVars, readerVars, notices>>

\* NotifyUsageRefresh of the watcher, whether the switch is on or off.
NotifyRefresh ==
  /\ notices < MaxNotices /\ notices' = notices + 1
  /\ IF Subscribed = {} THEN UNCHANGED readerVars ELSE PublishToSubscribers(RefreshNotice)
  /\ UNCHANGED <<managerVars, enqueuing, switchVars, items, settled, takerVars>>

Subscribe(s) ==
  /\ subscription[s] = "none"
  /\ subscription' = [subscription EXCEPT ![s] = "open"]
  /\ stream' = [stream EXCEPT ![s] = <<Greeting>>]
  /\ since' = [since EXCEPT ![s] = Len(published)]
  /\ UNCHANGED <<consumed, published>>
  /\ UNCHANGED <<managerVars, enqueuing, switchVars, items, settled, takerVars, notices>>

\* streamRedisSubscription reads, also what is left in a channel that is closed.
ReadStream(s) ==
  /\ stream[s] # <<>>
  /\ stream' = [stream EXCEPT ![s] = Tail(@)]
  /\ consumed' = [consumed EXCEPT ![s] = @ + 1]
  /\ UNCHANGED <<subscription, since, published>>
  /\ UNCHANGED <<managerVars, enqueuing, switchVars, items, settled, takerVars, notices>>

\* The client goes, or the channel has ended.
Unsubscribe(s) ==
  /\ subscription[s] \in {"open", "cut"}
  /\ subscription' = [subscription EXCEPT ![s] = "left"]
  /\ stream' = [stream EXCEPT ![s] = <<>>]
  /\ UNCHANGED <<since, consumed, published>>
  /\ UNCHANGED <<managerVars, enqueuing, switchVars, items, settled, takerVars, notices>>

-----------------------------------------------------------------------------
(* Those who take: pollers (redis_queue_protocol.go, GetUsageQueue) and the *)
(* forwarder to Home.                                                      *)

\* The first half of PopOldest.  The forwarder asks when it has nothing left.
MayPop(t) ==
  /\ usageOn /\ t \notin passed
  /\ t = "forwarder" => popped = <<>> /\ ~returning
  /\ passed' = passed \cup {t}
  /\ UNCHANGED <<managerVars, enqueuing, switchVars, items, settled, popped, returning,
                 readerVars, notices>>

\* popOldest.  What a poller gets is out of the proxy's hands.
PopOldest(t) ==
  /\ t \in passed /\ passed' = passed \ {t}
  /\ \E left \in Prunings :
       LET n == IF PopCount < Len(left) THEN PopCount ELSE Len(left)
           out == SubSeq(left, 1, n)
       IN
       /\ items' = SubSeq(left, n + 1, Len(left))
       /\ IF t = "forwarder"
          THEN popped' = out /\ Finish(ToSet(items) \ ToSet(left))
          ELSE UNCHANGED popped /\ Finish(ToSet(items) \ ToSet(items'))
  /\ UNCHANGED <<managerVars, enqueuing, switchVars, returning, readerVars, notices>>

\* LPushUsage succeeds, or it fails (before or after Home got the record) and the
\* forwarder enqueues this record and the rest again, one by one.
PushUsage ==
  /\ popped # <<>> /\ ~returning
  /\ \/ popped' = Tail(popped) /\ Finish({Head(popped)}) /\ UNCHANGED returning
     \/ returning' = TRUE /\ UNCHANGED <<popped, settled>>
  /\ UNCHANGED <<managerVars, enqueuing, switchVars, items, passed, readerVars, notices>>

ReturnUsage ==
  /\ returning /\ enqueuing["forwarder"] = NoEnqueue
  /\ IF popped = <<>> THEN returning' = FALSE /\ UNCHANGED <<popped, enqueuing>>
     ELSE /\ EnqueueAt("forwarder", "check", Head(popped)) /\ popped' = Tail(popped)
          /\ UNCHANGED returning
  /\ UNCHANGED <<managerVars, switchVars, items, settled, passed, readerVars, notices>>

-----------------------------------------------------------------------------
(* The switch: routes of the management API come and go with their secret. *)

SetEnabled(value) ==
  /\ ~clearing /\ value # usageOn /\ flips < MaxFlips
  /\ usageOn' = value /\ flips' = flips + 1 /\ clearing' = ~value
  /\ UNCHANGED <<managerVars, enqueuing, items, settled, takerVars, readerVars, notices>>

\* clear takes the items and the subscribers in one critical section; that it
\* closes their channels later is for their readers to see.
ClearUsage ==
  /\ clearing /\ clearing' = FALSE
  /\ items' = <<>> /\ Finish(ToSet(items))
  /\ subscription' = [s \in Subscriptions |-> IF s \in Subscribed THEN "cut"
                                              ELSE subscription[s]]
  /\ UNCHANGED <<stream, since, consumed, published>>
  /\ UNCHANGED <<managerVars, enqueuing, usageOn, flips, takerVars, notices>>

-----------------------------------------------------------------------------
UsageNext ==
  \/ PublishRecord \/ StopManager \/ ManagerReturns \/ DispatchRecord
  \/ \E e \in Enqueuers : CheckEnabled(e) \/ Offer(e) \/ AppendItem(e)
  \/ NotifyRefresh
  \/ \E s \in Subscriptions : Subscribe(s) \/ ReadStream(s) \/ Unsubscribe(s)
  \/ \E t \in {"poller", "forwarder"} : MayPop(t) \/ PopOldest(t)
  \/ PushUsage \/ ReturnUsage
  \/ \E value \in BOOLEAN : SetEnabled(value)
  \/ ClearUsage

UsageSpec == UsageInit /\ [][UsageNext]_usageVars

-----------------------------------------------------------------------------
UsageTypeOK ==
  /\ accepted \in 0..MaxRecords /\ worker \in {"running", "closed", "ended"}
  /\ ToSet(waiting) \cup ToSet(items) \cup ToSet(popped) \cup settled \subseteq 1..accepted
  /\ \A e \in Enqueuers : enqueuing[e].record \in 0..accepted
  /\ \A s \in Subscriptions : Len(stream[s]) <= StreamBuffer
  /\ Len(popped) <= PopCount

Times_(r, seq) == Cardinality({i \in DOMAIN seq : seq[i] = r})

\* A record that the manager accepted is in one place, or it is done for good:
\* nothing is counted twice, for a subscriber and a poller, for two pollers, or for
\* one and Home, and nothing is lost between two places, whoever subscribes, takes,
\* brings back or turns the switch meanwhile, and not by Stop either ("stops the
\* dispatcher and drains the queue").  (run, Enqueue, popOldest,
\* startHomeUsageForwarder)
RecordsAreAccounted ==
  /\ \A r \in 1..accepted :
       1 = Times_(r, waiting) + Times_(r, items) + Times_(r, popped)
           + Cardinality({e \in Enqueuers : enqueuing[e].record = r})
           + Cardinality({r} \cap settled)
  /\ worker = "ended" => waiting = <<>>

\* A subscriber misses nothing: what it has read and what is in its channel is the
\* greeting and all that was published since it subscribed, in order and without a
\* gap, up to now or up to where it was cut off.  (publishToSubscribers, clear)
SubscribersMissNothing ==
  \A s \in Subscriptions : subscription[s] \in {"open", "cut"} =>
    LET due == <<Greeting>> \o SubSeq(published, since[s] + 1, Len(published))
        seen == consumed[s] + Len(stream[s])
    IN
    /\ seen <= Len(due) /\ stream[s] = SubSeq(due, consumed[s] + 1, seen)
    /\ subscription[s] = "open" => seen = Len(due)
=============================================================================
