----------------------------- MODULE WatcherProofs -----------------------------
(***************************************************************************)
(* What is proved of the watcher (WatcherDispatch), for any files,          *)
(* channels, reloads and sizes of the channel: a queued update reaches the  *)
(* manager, and when nothing is under way the manager has what is on disk   *)
(* and connected.                                                           *)
(*                                                                         *)
(* The last update of an id is looked for where it may have got to: among   *)
(* the pending updates, in the batch, in the channel, in the manager        *)
(* (Carried).  Whatever of the id is further on is older.  That it says     *)
(* what the files and the connections say is the second half (SourceInv).   *)
(***************************************************************************)
EXTENDS WatcherDispatch, FiniteSetTheorems, SequenceTheorems, TLAPS

Updates == [id : AuthIds, auth : Int]

\* The last update of the id in the queue brings this auth.
NewestIs(queue, id, auth) ==
  \E i \in DOMAIN queue :
    /\ queue[i].id = id /\ queue[i].auth = auth
    /\ \A j \in DOMAIN queue : j > i => queue[j].id # id

LEMMA QueueAppend ==
  ASSUME NEW queue \in Seq(Updates), NEW u \in Updates, NEW id, NEW auth
  PROVE  /\ Append(queue, u) \in Seq(Updates)
         /\ InQueue(Append(queue, u), id) <=> InQueue(queue, id) \/ id = u.id
         /\ id = u.id /\ auth = u.auth => NewestIs(Append(queue, u), id, auth)
         /\ id # u.id /\ NewestIs(queue, id, auth) => NewestIs(Append(queue, u), id, auth)
<1> DEFINE n == Len(queue)
           more == Append(queue, u)
<1>1. /\ n \in Nat /\ DOMAIN queue = 1..n /\ more \in Seq(Updates)
      /\ DOMAIN more = 1..(n + 1) /\ more[n + 1] = u
      /\ \A i \in 1..n : more[i] = queue[i]
  BY AppendProperties, LenProperties
<1> HIDE DEF n, more
<1>2. InQueue(more, id) <=> InQueue(queue, id) \/ id = u.id
  BY <1>1 DEF InQueue
<1>3. ASSUME id = u.id, auth = u.auth PROVE NewestIs(more, id, auth)
  BY <1>1, <1>3 DEF NewestIs
<1>4. ASSUME id # u.id, NewestIs(queue, id, auth) PROVE NewestIs(more, id, auth)
  BY <1>1, <1>4 DEF NewestIs
<1> QED
  BY <1>1, <1>2, <1>3, <1>4 DEF more

LEMMA QueueTail ==
  ASSUME NEW queue \in Seq(Updates), queue # <<>>, NEW id, NEW auth
  PROVE  /\ Head(queue) \in Updates /\ Tail(queue) \in Seq(Updates)
         /\ Len(queue) = 1 <=> Tail(queue) = <<>>
         /\ InQueue(queue, id) <=> InQueue(Tail(queue), id) \/ id = Head(queue).id
         /\ NewestIs(queue, id, auth) /\ InQueue(Tail(queue), id) => NewestIs(Tail(queue), id, auth)
         /\ NewestIs(queue, id, auth) /\ ~InQueue(Tail(queue), id) => Head(queue).auth = auth
<1> DEFINE n == Len(queue)
           rest == Tail(queue)
<1>1. /\ n \in Nat /\ n > 0 /\ DOMAIN queue = 1..n /\ rest \in Seq(Updates)
      /\ Len(rest) = n - 1 /\ DOMAIN rest = 1..(n - 1)
      /\ \A i \in 1..(n - 1) : rest[i] = queue[i + 1]
      /\ Head(queue) = queue[1] /\ Head(queue) \in Updates
  BY HeadTailProperties, LenProperties, EmptySeq
<1>2. n = 1 <=> rest = <<>>
  <2> HIDE DEF n, rest
  <2>1. Len(rest) = 0 <=> rest = <<>>
    BY <1>1, EmptySeq
  <2> QED
    BY <1>1, <2>1
<1> HIDE DEF n, rest
<1>3. \A i \in 1..n : i = 1 \/ (i - 1 \in 1..(n - 1) /\ queue[i] = rest[i - 1])
  BY <1>1
<1>4. InQueue(queue, id) <=> InQueue(rest, id) \/ id = Head(queue).id
  <2>1. ASSUME InQueue(queue, id) PROVE InQueue(rest, id) \/ id = Head(queue).id
    BY <1>1, <1>3, <2>1 DEF InQueue
  <2>2. ASSUME InQueue(rest, id) \/ id = Head(queue).id PROVE InQueue(queue, id)
    BY <1>1, <2>2 DEF InQueue
  <2> QED
    BY <2>1, <2>2
<1>5. ASSUME NewestIs(queue, id, auth), InQueue(rest, id) PROVE NewestIs(rest, id, auth)
  <2>1. PICK i \in 1..n : /\ queue[i].id = id /\ queue[i].auth = auth
                          /\ \A j \in 1..n : j > i => queue[j].id # id
    BY <1>1, <1>5 DEF NewestIs
  <2>2. PICK k \in 1..(n - 1) : rest[k].id = id
    BY <1>1, <1>5 DEF InQueue
  <2>3. i # 1
    BY <1>1, <2>1, <2>2
  <2>4. i - 1 \in 1..(n - 1) /\ rest[i - 1] = queue[i]
    BY <1>3, <2>3
  <2>5. \A j \in 1..(n - 1) : j > i - 1 => rest[j].id # id
    BY <1>1, <2>1
  <2> QED
    BY <1>1, <2>1, <2>4, <2>5 DEF NewestIs
<1>6. ASSUME NewestIs(queue, id, auth), ~InQueue(rest, id) PROVE Head(queue).auth = auth
  <2>1. PICK i \in 1..n : queue[i].id = id /\ queue[i].auth = auth
    BY <1>1, <1>6 DEF NewestIs
  <2>2. i = 1
    BY <1>1, <1>3, <1>6, <2>1 DEF InQueue
  <2> QED
    BY <1>1, <2>1, <2>2
<1> QED
  BY <1>1, <1>2, <1>4, <1>5, <1>6 DEF rest, n

\* A set of updates with one for each id, as a sequence.
OnePerId(updates) == \A u, v \in updates : u.id = v.id => u = v

LEMMA Sequenced ==
  ASSUME NEW updates \in SUBSET Updates, OnePerId(updates)
  PROVE  /\ SetToSeq(updates) \in Seq(updates)
         /\ \A u \in updates : \E i \in DOMAIN SetToSeq(updates) : SetToSeq(updates)[i] = u
         /\ \A i, j \in DOMAIN SetToSeq(updates) :
              SetToSeq(updates)[i].id = SetToSeq(updates)[j].id => i = j
<1> DEFINE ids == [u \in updates |-> u.id]
           n == Cardinality(updates)
           s == SetToSeq(updates)
<1>1. ids \in Injection(updates, AuthIds)
  BY DEF OnePerId, Injection, IsInjective, Updates
<1>2. IsFiniteSet(AuthIds)
  BY WatcherBounds DEF AuthIds
<1>3. IsFiniteSet(updates)
  BY <1>1, <1>2, FS_Injection
<1>4. n \in Nat /\ ExistsBijection(1..n, updates)
  BY <1>3, FS_CardinalityType
<1>5. \E f \in [1..n -> updates] : IsInjective(f)
  BY <1>4 DEF ExistsBijection, Bijection, Injection
<1>6. s \in [1..n -> updates] /\ IsInjective(s)
  BY <1>5 DEF SetToSeq
<1> HIDE DEF s, n
<1>7. s \in Seq(updates) /\ DOMAIN s = 1..n
  BY <1>4, <1>6
<1>8. s \in Surjection(1..n, updates)
  <2>1. s \in Injection(1..n, updates)
    BY <1>6 DEF Injection
  <2>2. IsFiniteSet(1..n) /\ Cardinality(1..n) = n
    <3>1. PICK k \in Nat : k = n
      BY <1>4
    <3>2. IsFiniteSet(1..k) /\ Cardinality(1..k) = IF 1 > k THEN 0 ELSE k - 1 + 1
      BY FS_Interval
    <3> QED
      BY <3>1, <3>2
  <2> QED
    BY <1>3, <2>1, <2>2, FS_Injection DEF n
<1>9. \A u \in updates : \E i \in 1..n : s[i] = u
  BY <1>8 DEF Surjection
<1>10. \A i, j \in 1..n : s[i].id = s[j].id => i = j
  BY <1>6 DEF IsInjective, OnePerId
<1> QED
  BY <1>7, <1>9, <1>10 DEF s

Sole(queue) == \A i, j \in DOMAIN queue : queue[i].id = queue[j].id => i = j

\* What is queued of an id is the last update of it.
LEMMA QueueCoalesced ==
  ASSUME NEW queue \in Seq(Updates), Sole(queue), NEW updates \in SUBSET Updates, OnePerId(updates),
         NEW more, more = Coalesced(queue, updates), NEW id, NEW auth
  PROVE  /\ more \in Seq(Updates) /\ Sole(more)
         /\ \A u \in updates : InQueue(more, u.id) /\ NewestIs(more, u.id, u.auth)
         /\ (\A u \in updates : u.id # id) =>
              /\ InQueue(more, id) <=> InQueue(queue, id)
              /\ (NewestIs(queue, id, auth) => NewestIs(more, id, auth))
<1> DEFINE ids == {u.id : u \in updates}
           n == Len(queue)
           front == [i \in 1..n |-> IF queue[i].id \in ids
                                    THEN UpdateFor(updates, queue[i].id) ELSE queue[i]]
           new == {u \in updates : ~InQueue(queue, u.id)}
           back == SetToSeq(new)
           m == Len(back)
<1>1. n \in Nat /\ DOMAIN queue = 1..n /\ \A i \in 1..n : queue[i] \in Updates
  BY LenProperties, ElementOfSeq
<1>2. \A u \in updates : UpdateFor(updates, u.id) = u
  <2>1. ASSUME NEW u \in updates PROVE UpdateFor(updates, u.id) = u
    BY <2>1 DEF UpdateFor, OnePerId
  <2> QED
    BY <2>1
<1>3. more = front \o back
  BY <1>1 DEF Coalesced, Unqueued
<1>4. /\ back \in Seq(new) /\ new \in SUBSET updates
      /\ \A u \in new : \E i \in DOMAIN back : back[i] = u
      /\ \A i, j \in DOMAIN back : back[i].id = back[j].id => i = j
  <2>1. new \in SUBSET Updates /\ OnePerId(new) /\ new \in SUBSET updates
    BY DEF OnePerId
  <2> HIDE DEF new
  <2> QED
    BY <2>1, Sequenced
<1>5. \A i \in 1..n : \/ front[i] = queue[i] /\ \A u \in updates : u.id # queue[i].id
                      \/ front[i] \in updates /\ front[i].id = queue[i].id
  BY <1>1, <1>2
<1>6. front \in Seq(Updates) /\ Len(front) = n /\ DOMAIN front = 1..n
  <2>1. \A i \in 1..n : front[i] \in Updates
    BY <1>1, <1>5
  <2>2. front \in [1..n -> Updates]
    BY <2>1
  <2> HIDE DEF front
  <2> QED
    BY <1>1, <2>2
<1> HIDE DEF ids, n, front, back, m
<1>7. m \in Nat /\ DOMAIN back = 1..m /\ back \in Seq(Updates) /\ \A i \in 1..m : back[i] \in new
  <2>1. back \in Seq(new) /\ new \in SUBSET Updates
    BY <1>4
  <2> HIDE DEF new
  <2> QED
    BY <2>1, LenProperties, ElementOfSeq DEF m
<1>8. /\ more \in Seq(Updates) /\ Len(more) = n + m /\ DOMAIN more = 1..(n + m)
      /\ \A i \in 1..n : more[i] = front[i]
      /\ \A i \in 1..m : more[n + i] = back[i]
  <2>1. /\ front \o back \in Seq(Updates) /\ Len(front \o back) = n + m
        /\ \A i \in 1..(n + m) : (front \o back)[i] = IF i <= n THEN front[i] ELSE back[i - n]
    BY <1>6, <1>7, ConcatProperties DEF m
  <2>2. DOMAIN more = 1..(n + m)
    BY <1>3, <2>1, LenProperties
  <2> QED
    BY <1>1, <1>3, <1>7, <2>1, <2>2
<1>9. ASSUME NEW i \in 1..(n + m), i \notin 1..n
      PROVE  i - n \in 1..m /\ more[i] = back[i - n]
  <2>1. i - n \in 1..m /\ n + (i - n) = i
    BY <1>1, <1>7, <1>9
  <2> QED
    BY <1>8, <2>1
<1>10. \A i \in 1..n : more[i].id = queue[i].id
  BY <1>5, <1>8
<1>11. \A i \in 1..m : more[n + i] \in updates /\ ~InQueue(queue, more[n + i].id)
  BY <1>7, <1>8
<1>12. Sole(more)
  <2>1. ASSUME NEW i \in 1..(n + m), NEW j \in 1..(n + m), more[i].id = more[j].id
        PROVE  i = j
    <3>1. CASE i \in 1..n /\ j \in 1..n
      BY <1>1, <1>10, <2>1, <3>1 DEF Sole
    <3>2. CASE i \in 1..n /\ j \notin 1..n
      BY <1>1, <1>7, <1>9, <1>10, <2>1, <3>2 DEF InQueue
    <3>3. CASE i \notin 1..n /\ j \in 1..n
      BY <1>1, <1>7, <1>9, <1>10, <2>1, <3>3 DEF InQueue
    <3>4. CASE i \notin 1..n /\ j \notin 1..n
      <4>1. i - n = j - n
        BY <1>4, <1>7, <1>9, <2>1, <3>4
      <4> QED
        BY <1>1, <4>1
    <3> QED
      BY <3>1, <3>2, <3>3, <3>4
  <2> QED
    BY <1>8, <2>1 DEF Sole
<1>13. ASSUME NEW u \in updates PROVE InQueue(more, u.id) /\ NewestIs(more, u.id, u.auth)
  <2>1. \E i \in 1..(n + m) : more[i] = u
    <3>1. CASE InQueue(queue, u.id)
      <4>1. PICK i \in 1..n : queue[i].id = u.id
        BY <1>1, <3>1 DEF InQueue
      <4>2. front[i] \in updates /\ front[i].id = u.id
        BY <1>5, <4>1
      <4>3. front[i] = u
        BY <4>2 DEF OnePerId
      <4> QED
        BY <1>1, <1>7, <1>8, <4>3
    <3>2. CASE ~InQueue(queue, u.id)
      <4>1. PICK i \in 1..m : back[i] = u
        BY <1>4, <1>7, <3>2
      <4>2. n + i \in 1..(n + m)
        BY <1>1, <1>7
      <4> QED
        BY <1>8, <4>1, <4>2
    <3> QED
      BY <3>1, <3>2
  <2> QED
    BY <1>8, <1>12, <2>1 DEF InQueue, NewestIs, Sole
<1>14. ASSUME \A u \in updates : u.id # id
       PROVE  /\ InQueue(more, id) <=> InQueue(queue, id)
              /\ (NewestIs(queue, id, auth) => NewestIs(more, id, auth))
  <2>1. ASSUME InQueue(more, id) PROVE InQueue(queue, id)
    <3>1. PICK i \in 1..(n + m) : more[i].id = id
      BY <1>8, <2>1 DEF InQueue
    <3>2. i \in 1..n
      BY <1>7, <1>9, <1>14, <3>1
    <3> QED
      BY <1>1, <1>10, <3>1, <3>2 DEF InQueue
  <2>2. ASSUME NEW i \in 1..n, queue[i].id = id
        PROVE  i \in 1..(n + m) /\ more[i] = queue[i]
    <3>1. front[i] = queue[i]
      BY <1>5, <1>14, <2>2
    <3> QED
      BY <1>1, <1>7, <1>8, <3>1
  <2>3. InQueue(queue, id) => InQueue(more, id)
    BY <1>1, <1>8, <2>2 DEF InQueue
  <2>4. NewestIs(queue, id, auth) => NewestIs(more, id, auth)
    BY <1>1, <1>8, <1>12, <2>2 DEF NewestIs, Sole
  <2> QED
    BY <2>1, <2>3, <2>4
<1> QED
  BY <1>8, <1>12, <1>13, <1>14

-----------------------------------------------------------------------------
(* The invariant.                                                          *)

FileEvents == [file : Files, op : {"write", "remove"}]
Places == {"idle", "compute", "rescan", "snapshot", "diff", "dispatch"}

\* What a producer holds has one update for each id.
HeldTypes ==
  /\ disk \in [Files -> Int] /\ events \in Seq(FileEvents) /\ current \in [AuthIds -> Int]
  /\ held \in [Producers -> SUBSET Updates] /\ at \in [Producers -> Places]
  /\ \A p \in Producers : OnePerId(held[p])
  /\ \A p \in Producers : at[p] = "diff" => \A f \in Files : \E u \in held[p] : u.id = f

QueueTypes ==
  /\ pendingUpdates \in Seq(Updates) /\ Sole(pendingUpdates)
  /\ batch \in Seq(Updates) /\ channel \in Seq(Updates)
  /\ manager \in [AuthIds -> Int] /\ last \in [AuthIds -> Int]
  /\ loop = "wait" => pendingUpdates = <<>>
  /\ (loop = "send") <=> (batch # <<>>)

\* Where the last update of an id has got to.
Carried(id) ==
  IF InQueue(pendingUpdates, id) THEN NewestIs(pendingUpdates, id, last[id])
  ELSE IF InQueue(batch, id) THEN NewestIs(batch, id, last[id])
  ELSE IF InQueue(channel, id) THEN NewestIs(channel, id, last[id])
  ELSE Reflects(id, last[id])

DispatchInv ==
  HeldTypes /\ QueueTypes /\ (stop = "no" => \A id \in AuthIds : Carried(id))

LEMMA ContentsAreKnown == Contents \subseteq Int /\ Absent \in Int /\ Torn \in Int
<1>1. Contents \subseteq Nat
  BY WatcherBounds
<1> QED
  BY <1>1 DEF Absent, Torn

LEMMA YieldsAuth == \A content : Yields(content) \in Int
BY ContentsAreKnown DEF Yields

LEMMA NothingQueued == \A id : ~InQueue(<<>>, id)
BY DEF InQueue

LEMMA DispatchStarts == WatcherInit => DispatchInv
<1> SUFFICES ASSUME WatcherInit PROVE DispatchInv
  OBVIOUS
<1>1. HeldTypes
  <2>1. disk \in [Files -> Int]
    <3>1. disk \in [Files -> Contents \cup {Absent}]
      BY DEF WatcherInit
    <3> QED
      BY <3>1, ContentsAreKnown
  <2>2. current \in [AuthIds -> Int]
    BY YieldsAuth, ContentsAreKnown DEF WatcherInit
  <2>3. /\ held = [p \in Producers |-> {}] /\ at = [p \in Producers |-> "idle"]
        /\ events = <<>>
    BY DEF WatcherInit
  <2> QED
    BY <2>1, <2>2, <2>3 DEF HeldTypes, OnePerId, Places
<1>2. current \in [AuthIds -> Int] /\ manager = current /\ last = current
  BY <1>1 DEF HeldTypes, WatcherInit
<1>3. pendingUpdates = <<>> /\ batch = <<>> /\ channel = <<>> /\ loop = "take"
  BY DEF WatcherInit
<1>4. QueueTypes
  BY <1>2, <1>3 DEF QueueTypes, Sole
<1>5. \A id \in AuthIds : Carried(id)
  BY <1>2, <1>3, NothingQueued DEF Carried, Reflects
<1> QED
  BY <1>1, <1>4, <1>5 DEF DispatchInv

\* A step of a producer or of the directory leaves the dispatcher alone.
LEMMA ProducerStep ==
  ASSUME DispatchInv, HeldTypes', UNCHANGED pipeline
  PROVE  DispatchInv'
<1>1. /\ pendingUpdates' = pendingUpdates /\ batch' = batch /\ channel' = channel
      /\ loop' = loop /\ stop' = stop /\ manager' = manager /\ last' = last
  BY DEF pipeline
<1>2. QueueTypes'
  BY <1>1 DEF DispatchInv, QueueTypes, Sole
<1>3. \A id \in AuthIds : Carried(id)' <=> Carried(id)
  BY <1>1 DEF Carried, InQueue, NewestIs, Reflects
<1> QED
  BY <1>1, <1>2, <1>3 DEF DispatchInv

\* A producer goes on with a set of updates that has one for each id.
LEMMA GoesOn ==
  ASSUME HeldTypes, NEW p \in Producers, NEW place \in Places \ {"diff"},
         NEW updates \in SUBSET Updates, OnePerId(updates), Goto(p, place, updates),
         disk' \in [Files -> Int], events' \in Seq(FileEvents), current' \in [AuthIds -> Int]
  PROVE  HeldTypes'
<1>1. \A q \in Producers : held'[q] = (IF q = p THEN updates ELSE held[q])
                        /\ at'[q] = (IF q = p THEN place ELSE at[q])
  BY DEF HeldTypes, Goto
<1>2. held' \in [Producers -> SUBSET Updates] /\ at' \in [Producers -> Places]
  BY DEF HeldTypes, Goto
<1> QED
  BY <1>1, <1>2 DEF HeldTypes

LEMMA FewUpdates ==
  /\ {} \in SUBSET Updates /\ OnePerId({})
  /\ \A u \in Updates : {u} \in SUBSET Updates /\ OnePerId({u})
  /\ \A id \in AuthIds, auth \in Int : AuthUpdate(id, auth) \in Updates /\ AuthUpdate(id, auth).id = id
BY DEF OnePerId, Updates, AuthUpdate

LEMMA FilesStep ==
  ASSUME DispatchInv, \E f \in Files : FileChanges(f) \/ WindowEnds(f)
  PROVE  DispatchInv'
<1>1. UNCHANGED <<current, held, at, pipeline>>
  BY DEF FileChanges, WindowEnds
<1>2. disk' \in [Files -> Int]
  <2>1. disk \in [Files -> Int]
    BY DEF DispatchInv, HeldTypes
  <2> QED
    BY <2>1, ContentsAreKnown DEF FileChanges, WindowEnds, env
<1>3. events' \in Seq(FileEvents)
  <2>1. events \in Seq(FileEvents)
    BY DEF DispatchInv, HeldTypes
  <2>2. \/ events' = events
        \/ \E f \in Files, op \in {"write", "remove"} :
             events' = Append(events, [file |-> f, op |-> op])
    BY DEF FileChanges, WindowEnds, env
  <2>3. \A f \in Files, op \in {"write", "remove"} : [file |-> f, op |-> op] \in FileEvents
    BY DEF FileEvents
  <2> QED
    BY <2>1, <2>2, <2>3, AppendProperties
<1>4. HeldTypes'
  BY <1>1, <1>2, <1>3 DEF DispatchInv, HeldTypes
<1> QED
  BY <1>1, <1>4, ProducerStep

LEMMA EventStep ==
  ASSUME DispatchInv, HandleEvent \/ ComputePerPath
  PROVE  DispatchInv'
<1> USE DEF DispatchInv
<1>1. UNCHANGED <<disk, pipeline>>
  BY DEF HandleEvent, ComputePerPath, env
<1>2. /\ disk' \in [Files -> Int] /\ events \in Seq(FileEvents)
      /\ current \in [AuthIds -> Int] /\ Handler \in Producers
  BY <1>1 DEF HeldTypes, Producers
<1>3. CASE HandleEvent
  <2> DEFINE f == Head(events).file
  <2>1. /\ events # <<>> /\ events' = Tail(events)
        /\ UNCHANGED <<current, held, at>> \/ Forget(f) \/ Load(f)
    BY <1>3 DEF HandleEvent
  <2>2. Head(events) \in FileEvents /\ events' \in Seq(FileEvents)
    BY <1>2, <2>1, HeadTailProperties
  <2>3. f \in Files /\ f \in AuthIds
    BY <2>2 DEF FileEvents, AuthIds
  <2>4. /\ AuthUpdate(f, Absent) \in Updates
        /\ AuthUpdate(f, Yields(disk[f])) \in Updates
    BY <2>3, FewUpdates, YieldsAuth, ContentsAreKnown
  <2> HIDE DEF f
  <2>5. CASE UNCHANGED <<current, held, at>>
    <3>1. HeldTypes'
      BY <1>1, <1>2, <2>2, <2>5 DEF HeldTypes
    <3> QED
      BY <1>1, <3>1, ProducerStep
  <2>6. ASSUME NEW place \in Places \ {"diff"}, NEW updates \in SUBSET Updates,
               OnePerId(updates), Goto(Handler, place, updates), current' \in [AuthIds -> Int]
        PROVE  DispatchInv'
    <3>1. HeldTypes'
      BY <1>2, <2>2, <2>6, GoesOn
    <3> QED
      BY <1>1, <3>1, ProducerStep
  <2>7. CASE Forget(f)
    <3>1. current' \in [AuthIds -> Int]
      BY <1>2, <2>3, <2>7, ContentsAreKnown DEF Forget
    <3>2. \/ Goto(Handler, "dispatch", {AuthUpdate(f, Absent)})
          \/ Goto(Handler, "idle", {})
      BY <2>7 DEF Forget
    <3> QED
      BY <2>4, <2>6, <3>1, <3>2, FewUpdates DEF Places
  <2>8. CASE Load(f)
    <3>1. current' \in [AuthIds -> Int]
      BY <1>2, <2>8 DEF Load
    <3>2. \/ Goto(Handler, "compute", {AuthUpdate(f, Yields(disk[f]))})
          \/ Goto(Handler, "idle", {})
      BY <2>8 DEF Load
    <3> QED
      BY <2>4, <2>6, <3>1, <3>2, FewUpdates DEF Places
  <2> QED
    BY <2>1, <2>5, <2>7, <2>8
<1>4. CASE ComputePerPath
  <2>1. PICK u \in held[Handler] :
          LET changed == IF u.auth = Absent THEN u.id \in known ELSE current[u.id] # u.auth IN
          /\ current' = [current EXCEPT ![u.id] = IF changed THEN u.auth ELSE @]
          /\ Goto(Handler, "dispatch", IF changed THEN {u} ELSE {})
    BY <1>4 DEF ComputePerPath
  <2>2. u \in Updates /\ u.id \in AuthIds /\ u.auth \in Int
    BY <1>2, <2>1 DEF HeldTypes, Updates
  <2>3. current' \in [AuthIds -> Int]
    BY <1>2, <2>1, <2>2
  <2>4. PICK updates \in SUBSET Updates : OnePerId(updates) /\ Goto(Handler, "dispatch", updates)
    BY <2>1, <2>2, FewUpdates
  <2>5. events' \in Seq(FileEvents)
    BY <1>2, <1>4 DEF ComputePerPath, env
  <2>6. HeldTypes'
    BY <1>2, <2>3, <2>4, <2>5, GoesOn DEF Places
  <2> QED
    BY <1>1, <2>6, ProducerStep
<1> QED
  BY <1>3, <1>4

LEMMA ReloadingStep ==
  ASSUME DispatchInv, NEW m \in Reloaders, ReloadStep(m)
  PROVE  DispatchInv'
<1> USE DEF DispatchInv
<1>1. UNCHANGED <<disk, events, pipeline>>
  BY DEF ReloadStep, ReloadStart, Rescan, TakeSnapshot, Diff, env
<1>2. /\ disk \in [Files -> Int] /\ disk' \in [Files -> Int] /\ events' \in Seq(FileEvents)
      /\ current \in [AuthIds -> Int] /\ m \in Producers /\ HeldTypes
  BY <1>1 DEF HeldTypes, Producers
<1>3. ASSUME NEW place \in Places \ {"diff"}, NEW updates \in SUBSET Updates,
             OnePerId(updates), Goto(m, place, updates), current' \in [AuthIds -> Int]
      PROVE  DispatchInv'
  <2>1. HeldTypes'
    BY <1>2, <1>3, GoesOn
  <2> QED
    BY <1>1, <2>1, ProducerStep
<1>4. CASE ReloadStart(m)
  <2>1. current' \in [AuthIds -> Int]
    BY <1>2, <1>4, ContentsAreKnown DEF ReloadStart
  <2>2. Goto(m, "rescan", {}) \/ Goto(m, "snapshot", {})
    BY <1>4 DEF ReloadStart
  <2> QED
    BY <1>3, <2>1, <2>2, FewUpdates DEF Places
<1>5. CASE Rescan(m)
  <2>1. current' \in [AuthIds -> Int] /\ Goto(m, "snapshot", {})
    BY <1>2, <1>5 DEF Rescan
  <2> QED
    BY <1>3, <2>1, FewUpdates DEF Places
<1>6. CASE TakeSnapshot(m)
  <2> DEFINE updates == {AuthUpdate(f, Yields(disk[f])) : f \in Files}
  <2>1. current' \in [AuthIds -> Int] /\ Goto(m, "diff", updates)
    BY <1>2, <1>6 DEF TakeSnapshot
  <2>2. /\ updates \in SUBSET Updates /\ OnePerId(updates)
        /\ \A f \in Files : \E u \in updates : u.id = f
    <3>1. PICK y : y = [f \in Files |-> Yields(disk[f])]
      OBVIOUS
    <3>2. \A f \in Files : y[f] \in Int /\ f \in AuthIds
      BY <3>1, YieldsAuth DEF AuthIds
    <3>3. updates = {AuthUpdate(f, y[f]) : f \in Files}
      BY <3>1
    <3> HIDE DEF updates
    <3>4. \A f \in Files : AuthUpdate(f, y[f]) \in Updates /\ AuthUpdate(f, y[f]).id = f
      BY <3>2, FewUpdates
    <3> QED
      BY <3>3, <3>4 DEF OnePerId
  <2> HIDE DEF updates
  <2>3. \A q \in Producers : held'[q] = (IF q = m THEN updates ELSE held[q])
                          /\ at'[q] = (IF q = m THEN "diff" ELSE at[q])
    BY <1>2, <2>1 DEF HeldTypes, Goto
  <2>4. held' \in [Producers -> SUBSET Updates] /\ at' \in [Producers -> Places]
    BY <1>2, <2>1, <2>2 DEF HeldTypes, Goto, Places
  <2>5. /\ \A q \in Producers : OnePerId(held'[q])
        /\ \A q \in Producers : at'[q] = "diff" => \A f \in Files : \E u \in held'[q] : u.id = f
    <3>1. ASSUME NEW q \in Producers
          PROVE  /\ OnePerId(held'[q])
                 /\ at'[q] = "diff" => \A f \in Files : \E u \in held'[q] : u.id = f
      <4>1. CASE q = m
        BY <2>2, <2>3, <4>1
      <4>2. CASE q # m
        BY <1>2, <2>3, <4>2 DEF HeldTypes
      <4> QED
        BY <4>1, <4>2
    <3> QED
      BY <3>1
  <2>6. HeldTypes'
    BY <1>2, <2>1, <2>4, <2>5 DEF HeldTypes, OnePerId
  <2> QED
    BY <1>1, <2>6, ProducerStep
<1>7. CASE Diff(m)
  <2> DEFINE new == [id \in AuthIds |->
                       IF id \in Channels THEN IF link[id] = "up" THEN 1 ELSE Absent
                       ELSE UpdateFor(held[m], id).auth]
  <2>1. current' = new
    BY <1>7 DEF Diff
  <2>2. new \in [AuthIds -> Int]
    <3>1. ASSUME NEW id \in AuthIds \ Channels PROVE UpdateFor(held[m], id).auth \in Int
      <4>1. at[m] = "diff" /\ id \in Files
        BY <1>7, <3>1 DEF Diff, AuthIds
      <4>2. \E u \in held[m] : u.id = id
        BY <1>2, <4>1 DEF HeldTypes
      <4>3. UpdateFor(held[m], id) \in held[m]
        BY <4>2 DEF UpdateFor
      <4> QED
        BY <1>2, <4>3 DEF HeldTypes, Updates
    <3> QED
      BY <3>1, ContentsAreKnown
  <2>3. PICK ids \in SUBSET AuthIds : Goto(m, "dispatch", {AuthUpdate(id, new[id]) : id \in ids})
    <3>1. PICK force \in BOOLEAN :
            Goto(m, "dispatch", {AuthUpdate(id, new[id]) : id \in
              {i \in AuthIds : new[i] # current[i] \/ (force /\ new[i] # Absent)}})
      BY <1>7 DEF Diff
    <3>2. {i \in AuthIds : new[i] # current[i] \/ (force /\ new[i] # Absent)} \in SUBSET AuthIds
      OBVIOUS
    <3> QED
      BY <3>1, <3>2
  <2> HIDE DEF new
  <2>4. /\ {AuthUpdate(id, new[id]) : id \in ids} \in SUBSET Updates
        /\ OnePerId({AuthUpdate(id, new[id]) : id \in ids})
    BY <2>2 DEF OnePerId, AuthUpdate, Updates
  <2> QED
    BY <1>3, <2>1, <2>2, <2>3, <2>4 DEF Places
<1> QED
  BY <1>4, <1>5, <1>6, <1>7 DEF ReloadStep

LEMMA LinkStep ==
  ASSUME DispatchInv, NEW c \in Channels, Connected(c) \/ Disconnected(c)
  PROVE  DispatchInv'
<1> USE DEF DispatchInv
<1>1. PICK auth \in Int : current' = [current EXCEPT ![c] = auth]
                          /\ Goto(c, "dispatch", {AuthUpdate(c, auth)})
  <2>1. CASE Connected(c)
    <3>1. SwitchLink(c, "new", "up", 1) /\ 1 \in Int
      BY <2>1 DEF Connected
    <3> QED
      BY <3>1 DEF SwitchLink
  <2>2. CASE Disconnected(c)
    <3>1. SwitchLink(c, "up", "down", Absent) /\ Absent \in Int
      BY <2>2, ContentsAreKnown DEF Disconnected
    <3> QED
      BY <3>1 DEF SwitchLink
  <2> QED
    BY <2>1, <2>2
<1>2. UNCHANGED <<disk, events, pipeline>>
  BY DEF Connected, Disconnected, SwitchLink
<1>3. c \in AuthIds /\ c \in Producers
  BY DEF AuthIds, Producers
<1>4. HeldTypes /\ current' \in [AuthIds -> Int] /\ disk' \in [Files -> Int] /\ events' \in Seq(FileEvents)
  BY <1>1, <1>2, <1>3 DEF HeldTypes
<1>5. HeldTypes'
  BY <1>1, <1>3, <1>4, FewUpdates, GoesOn DEF Places
<1> QED
  BY <1>2, <1>5, ProducerStep

\* The updates are queued.
LEMMA DispatchingStep ==
  ASSUME DispatchInv, NEW p \in Producers, DispatchAuthUpdates(p)
  PROVE  DispatchInv'
<1> USE DEF DispatchInv
<1>1. UNCHANGED <<disk, events, current, batch, stop, channel, manager>>
      /\ Goto(p, "idle", {})
  BY DEF DispatchAuthUpdates, env
<1>2. HeldTypes'
  <2>1. HeldTypes /\ disk' \in [Files -> Int] /\ events' \in Seq(FileEvents) /\ current' \in [AuthIds -> Int]
    BY <1>1 DEF HeldTypes
  <2> QED
    BY <1>1, <2>1, FewUpdates, GoesOn DEF Places
<1>3. CASE UNCHANGED <<pendingUpdates, last, loop>>
  <2>1. QueueTypes'
    BY <1>1, <1>3 DEF QueueTypes, Sole
  <2>2. \A id \in AuthIds : Carried(id)' <=> Carried(id)
    BY <1>1, <1>3 DEF Carried, InQueue, NewestIs, Reflects
  <2> QED
    BY <1>1, <1>2, <2>1, <2>2
<1>4. CASE ~UNCHANGED <<pendingUpdates, last, loop>>
  <2>1. /\ pendingUpdates' = Coalesced(pendingUpdates, held[p])
        /\ last' = [id \in AuthIds |->
                      IF id \in Touched(p) THEN UpdateFor(held[p], id).auth ELSE last[id]]
        /\ loop' = IF loop = "wait" THEN "take" ELSE loop
    BY <1>4 DEF DispatchAuthUpdates
  <2>2. PICK updates \in SUBSET Updates : updates = held[p] /\ OnePerId(updates)
    BY DEF HeldTypes
  <2>3. \A u \in updates : last'[u.id] = u.auth
    <3>1. ASSUME NEW u \in updates PROVE UpdateFor(updates, u.id) = u
      BY <2>2, <3>1 DEF UpdateFor, OnePerId
    <3>2. ASSUME NEW u \in updates PROVE u.id \in AuthIds /\ u.id \in Touched(p)
      BY <2>2 DEF Updates, Touched
    <3> QED
      BY <2>1, <2>2, <3>1, <3>2
  <2>4. ASSUME NEW id \in AuthIds
        PROVE  (\A u \in updates : u.id # id) => last'[id] = last[id]
    BY <2>1, <2>2 DEF Touched
  <2>5. last' \in [AuthIds -> Int]
    <3>1. ASSUME NEW id \in AuthIds PROVE last'[id] \in Int
      <4>1. CASE \E u \in updates : u.id = id
        BY <2>3, <4>1 DEF Updates
      <4>2. CASE \A u \in updates : u.id # id
        BY <2>4, <4>2 DEF QueueTypes
      <4> QED
        BY <4>1, <4>2
    <3> QED
      BY <2>1, <3>1
  <2>6. pendingUpdates \in Seq(Updates) /\ Sole(pendingUpdates)
    BY DEF QueueTypes
  <2>7. ASSUME NEW id, NEW auth
        PROVE  /\ pendingUpdates' \in Seq(Updates) /\ Sole(pendingUpdates')
               /\ \A u \in updates : InQueue(pendingUpdates', u.id)
                                     /\ NewestIs(pendingUpdates', u.id, u.auth)
               /\ (\A u \in updates : u.id # id) =>
                    /\ InQueue(pendingUpdates', id) <=> InQueue(pendingUpdates, id)
                    /\ (NewestIs(pendingUpdates, id, auth) => NewestIs(pendingUpdates', id, auth))
    BY <2>1, <2>2, <2>6, QueueCoalesced
  <2>8. ASSUME NEW id \in AuthIds, Carried(id) PROVE Carried(id)'
    <3>1. CASE \E u \in updates : u.id = id
      BY <2>3, <2>7, <3>1 DEF Carried
    <3>2. CASE \A u \in updates : u.id # id
      BY <1>1, <2>4, <2>7, <2>8, <3>2 DEF Carried, Reflects
    <3> QED
      BY <3>1, <3>2
  <2>9. QueueTypes'
    <3>1. pendingUpdates' \in Seq(Updates) /\ Sole(pendingUpdates')
      BY <2>7
    <3>2. loop' # "wait" /\ (loop' = "send" <=> batch' # <<>>)
      BY <1>1, <2>1 DEF QueueTypes
    <3> QED
      BY <1>1, <2>5, <3>1, <3>2 DEF QueueTypes, Sole
  <2> QED
    BY <1>1, <1>2, <2>8, <2>9
<1> QED
  BY <1>3, <1>4

\* The dispatcher and the consumer take an update one place further.
LEMMA TakeStep ==
  ASSUME DispatchInv, TakeBatch
  PROVE  DispatchInv'
<1> USE DEF DispatchInv
<1>1. /\ UNCHANGED <<disk, events, current, at, held, last, stop, channel, manager>>
      /\ loop = "take" /\ batch = <<>>
  BY DEF TakeBatch, producing, env, QueueTypes
<1>2. HeldTypes'
  BY <1>1 DEF HeldTypes
<1>3. /\ manager' \in [AuthIds -> Int] /\ last' \in [AuthIds -> Int] /\ channel' \in Seq(Updates)
      /\ pendingUpdates \in Seq(Updates) /\ Sole(pendingUpdates)
  BY <1>1 DEF QueueTypes
<1>4. CASE pendingUpdates = <<>>
  <2>1. /\ pendingUpdates' = <<>> /\ batch' = <<>> /\ loop' \in {"wait", "ended"}
    BY <1>1, <1>4 DEF TakeBatch
  <2>2. QueueTypes'
    BY <1>3, <2>1 DEF QueueTypes, Sole
  <2>3. \A id \in AuthIds : Carried(id)' <=> Carried(id)
    BY <1>1, <1>4, <2>1 DEF Carried, InQueue, NewestIs, Reflects
  <2> QED
    BY <1>1, <1>2, <2>2, <2>3
<1>5. CASE pendingUpdates # <<>>
  <2>1. /\ pendingUpdates' = <<>> /\ batch' = (IF stop = "stopped" THEN <<>> ELSE pendingUpdates)
        /\ loop' = IF stop = "stopped" THEN "ended" ELSE "send"
    BY <1>5 DEF TakeBatch
  <2>2. QueueTypes'
    BY <1>3, <1>5, <2>1 DEF QueueTypes, Sole
  <2>3. ASSUME stop = "no", NEW id \in AuthIds, Carried(id) PROVE Carried(id)'
    <3>1. batch' = pendingUpdates
      BY <2>1, <2>3
    <3>2. ~InQueue(pendingUpdates', id) /\ ~InQueue(batch, id)
      BY <1>1, <2>1, NothingQueued
    <3> QED
      BY <1>1, <2>3, <3>1, <3>2 DEF Carried, Reflects
  <2> QED
    BY <1>1, <1>2, <2>2, <2>3
<1> QED
  BY <1>4, <1>5

LEMMA SendStep ==
  ASSUME DispatchInv, Send
  PROVE  DispatchInv'
<1> USE DEF DispatchInv
<1> DEFINE u == Head(batch)
<1>1. /\ UNCHANGED <<disk, events, current, at, held, last, stop, pendingUpdates, manager>>
      /\ loop = "send" /\ batch # <<>> /\ batch' = Tail(batch)
      /\ channel' = Append(channel, u)
      /\ loop' = IF Len(batch) = 1 THEN "take" ELSE "send"
  BY DEF Send, producing, env, QueueTypes
<1>2. HeldTypes'
  BY <1>1 DEF HeldTypes
<1>3. /\ batch \in Seq(Updates) /\ channel \in Seq(Updates) /\ Sole(pendingUpdates)
      /\ pendingUpdates' \in Seq(Updates)
      /\ manager' \in [AuthIds -> Int] /\ last' \in [AuthIds -> Int]
  BY <1>1 DEF QueueTypes
<1>4. ASSUME NEW id, NEW auth
      PROVE  /\ u \in Updates /\ batch' \in Seq(Updates)
             /\ Len(batch) = 1 <=> batch' = <<>>
             /\ InQueue(batch, id) <=> InQueue(batch', id) \/ id = u.id
             /\ NewestIs(batch, id, auth) /\ InQueue(batch', id) => NewestIs(batch', id, auth)
             /\ NewestIs(batch, id, auth) /\ ~InQueue(batch', id) => u.auth = auth
  BY <1>1, <1>3, QueueTail
<1> HIDE DEF u
<1>5. ASSUME NEW id, NEW auth
      PROVE  /\ channel' \in Seq(Updates)
             /\ InQueue(channel', id) <=> InQueue(channel, id) \/ id = u.id
             /\ id = u.id /\ auth = u.auth => NewestIs(channel', id, auth)
             /\ id # u.id /\ NewestIs(channel, id, auth) => NewestIs(channel', id, auth)
  BY <1>1, <1>3, <1>4, QueueAppend
<1>6. QueueTypes'
  BY <1>1, <1>3, <1>4, <1>5 DEF QueueTypes, Sole
<1>7. ASSUME NEW id \in AuthIds, Carried(id) PROVE Carried(id)'
  <2>1. CASE InQueue(pendingUpdates, id)
    BY <1>1, <1>7, <2>1 DEF Carried
  <2>2. CASE ~InQueue(pendingUpdates, id) /\ InQueue(batch, id)
    BY <1>1, <1>4, <1>5, <1>7, <2>2 DEF Carried
  <2>3. CASE ~InQueue(pendingUpdates, id) /\ ~InQueue(batch, id)
    BY <1>1, <1>4, <1>5, <1>7, <2>3 DEF Carried, Reflects
  <2> QED
    BY <2>1, <2>2, <2>3
<1> QED
  BY <1>1, <1>2, <1>6, <1>7

LEMMA StopStep ==
  ASSUME DispatchInv, SendCancelled \/ StopDispatch
  PROVE  DispatchInv'
<1> USE DEF DispatchInv
<1>1. UNCHANGED <<disk, events, current, at, held, last, channel, manager>> /\ stop' # "no"
  BY DEF SendCancelled, StopDispatch, producing, env
<1>2. HeldTypes'
  BY <1>1 DEF HeldTypes
<1>3. \/ pendingUpdates' = pendingUpdates /\ batch' = batch /\ loop' = loop
      \/ pendingUpdates' = pendingUpdates /\ batch' = <<>> /\ loop' = "ended"
      \/ pendingUpdates' = <<>> /\ batch' = batch /\ loop' = (IF loop = "wait" THEN "take" ELSE loop)
  BY DEF SendCancelled, StopDispatch
<1>4. pendingUpdates' \in Seq(Updates) /\ Sole(pendingUpdates') /\ batch' \in Seq(Updates)
  <2>1. Sole(<<>>) /\ <<>> \in Seq(Updates)
    BY DEF Sole
  <2> QED
    BY <1>3, <2>1 DEF QueueTypes
<1>5. /\ loop' = "wait" => pendingUpdates' = <<>>
      /\ (loop' = "send") <=> (batch' # <<>>)
  BY <1>3 DEF QueueTypes, SendCancelled, StopDispatch
<1>6. QueueTypes'
  BY <1>1, <1>4, <1>5 DEF QueueTypes, Sole
<1> QED
  BY <1>1, <1>2, <1>6

LEMMA ConsumeStep ==
  ASSUME DispatchInv, Consume
  PROVE  DispatchInv'
<1> USE DEF DispatchInv
<1> DEFINE u == Head(channel)
<1>1. /\ UNCHANGED <<disk, events, current, at, held, last, stop, pendingUpdates, batch, loop>>
      /\ channel # <<>> /\ channel' = Tail(channel)
      /\ manager' = [manager EXCEPT ![u.id] =
                       IF u.auth # Absent THEN u.auth
                       ELSE IF @ = Absent THEN Absent ELSE Disabled]
  BY DEF Consume, producing, env
<1>2. HeldTypes'
  BY <1>1 DEF HeldTypes
<1>3. channel \in Seq(Updates) /\ manager \in [AuthIds -> Int]
  BY DEF QueueTypes
<1>4. ASSUME NEW id, NEW auth
      PROVE  /\ u \in Updates /\ channel' \in Seq(Updates)
             /\ InQueue(channel, id) <=> InQueue(channel', id) \/ id = u.id
             /\ NewestIs(channel, id, auth) /\ InQueue(channel', id) => NewestIs(channel', id, auth)
             /\ NewestIs(channel, id, auth) /\ ~InQueue(channel', id) => u.auth = auth
  BY <1>1, <1>3, QueueTail
<1>5. u.id \in AuthIds /\ u.auth \in Int /\ channel' \in Seq(Updates)
  BY <1>4 DEF Updates
<1> HIDE DEF u
<1>6. /\ manager' \in [AuthIds -> Int]
      /\ \A id \in AuthIds \ {u.id} : manager'[id] = manager[id]
      /\ IF u.auth = Absent THEN manager'[u.id] \in {Absent, Disabled} ELSE manager'[u.id] = u.auth
  BY <1>1, <1>3, <1>5 DEF Absent, Disabled
<1>7. QueueTypes'
  BY <1>1, <1>5, <1>6 DEF QueueTypes, Sole
<1>8. ASSUME NEW id \in AuthIds, Carried(id) PROVE Carried(id)'
  <2>1. CASE InQueue(pendingUpdates, id) \/ InQueue(batch, id)
    BY <1>1, <1>8, <2>1 DEF Carried
  <2>2. CASE ~InQueue(pendingUpdates, id) /\ ~InQueue(batch, id) /\ InQueue(channel', id)
    BY <1>1, <1>4, <1>8, <2>2 DEF Carried
  <2>3. CASE ~InQueue(pendingUpdates, id) /\ ~InQueue(batch, id) /\ ~InQueue(channel', id)
    <3>1. CASE id = u.id
      <4>1. u.auth = last[id]
        BY <1>4, <1>8, <2>3, <3>1 DEF Carried
      <4> QED
        BY <1>1, <1>6, <2>3, <3>1, <4>1 DEF Carried, Reflects
    <3>2. CASE id # u.id
      BY <1>1, <1>4, <1>6, <1>8, <2>3, <3>2 DEF Carried, Reflects
    <3> QED
      BY <3>1, <3>2
  <2> QED
    BY <2>1, <2>2, <2>3
<1> QED
  BY <1>1, <1>2, <1>7, <1>8

LEMMA DispatchInductive == DispatchInv /\ [WatcherNext]_watcherVars => DispatchInv'
<1> SUFFICES ASSUME DispatchInv, [WatcherNext]_watcherVars PROVE DispatchInv'
  OBVIOUS
<1>1. CASE \E f \in Files : FileChanges(f) \/ WindowEnds(f)
  BY <1>1, FilesStep
<1>2. CASE HandleEvent \/ ComputePerPath
  BY <1>2, EventStep
<1>3. ASSUME NEW m \in Reloaders, ReloadStep(m) PROVE DispatchInv'
  BY <1>3, ReloadingStep
<1>4. ASSUME NEW c \in Channels, Connected(c) \/ Disconnected(c) PROVE DispatchInv'
  BY <1>4, LinkStep
<1>5. ASSUME NEW p \in Producers, DispatchAuthUpdates(p) PROVE DispatchInv'
  BY <1>5, DispatchingStep
<1>6. CASE TakeBatch
  BY <1>6, TakeStep
<1>7. CASE Send
  BY <1>7, SendStep
<1>8. CASE SendCancelled \/ StopDispatch
  BY <1>8, StopStep
<1>9. CASE Consume
  BY <1>9, ConsumeStep
<1>10. CASE UNCHANGED watcherVars
  <2>1. UNCHANGED pipeline /\ UNCHANGED <<disk, events, current, held, at>>
    BY <1>10 DEF watcherVars, env
  <2>2. HeldTypes'
    BY <2>1 DEF DispatchInv, HeldTypes
  <2> QED
    BY <2>1, <2>2, ProducerStep
<1> QED
  BY <1>1, <1>2, <1>3, <1>4, <1>5, <1>6, <1>7, <1>8, <1>9, <1>10 DEF WatcherNext

LEMMA CarriedArrives == DispatchInv => FinalActionIsApplied
<1> SUFFICES ASSUME DispatchInv, stop = "no", NEW id \in AuthIds
             PROVE  InFlight(id) \/ Reflects(id, last[id])
  BY DEF FinalActionIsApplied
<1>1. Carried(id) /\ (loop = "wait" => ~InQueue(pendingUpdates, id))
  BY NothingQueued DEF DispatchInv, QueueTypes
<1> QED
  BY <1>1 DEF Carried, InFlight

\* An update that was queued is on its way to the manager or was applied last,
\* whatever coalesces with it, overtakes it or wakes late.  (dispatchAuthUpdates,
\* nextPendingBatch, dispatchLoop, handleAuthUpdate)
THEOREM UpdatesArrive == WatcherSpec => []FinalActionIsApplied
BY DispatchInductive, CarriedArrives, DispatchStarts, PTL DEF WatcherSpec

-----------------------------------------------------------------------------
(***************************************************************************)
(* What the updates say.  Of an auth that no exception names: nobody holds  *)
(* an update with another content than the caches have (Agreed); the last   *)
(* update queued has that content, or the producer that found it is on its  *)
(* way to queue it (Told); currentAuths and fileAuthsByPath follow what was *)
(* queued, and run ahead of it only while the event goroutine is about to   *)
(* queue (KeptFile); and the hash of a file is the file's, or an event that *)
(* will be acted on is waiting (Seen).                                      *)
(***************************************************************************)

Wanted(id) == IF id \in Channels THEN IF link[id] = "up" THEN 1 ELSE Absent
              ELSE Yields(hashes[id])
HeldFor(p, id) == {u \in held[p] : u.id = id}
Source(id) == IF id \in Files THEN Handler ELSE id
Queueing(f) == at[Handler] = "dispatch" /\ HeldFor(Handler, f) # {}
Announced(f) == IF Queueing(f) THEN Wanted(f) ELSE last[f]

Agreed(id) == \A p \in Producers : \A u \in HeldFor(p, id) : u.auth = Wanted(id)
Told(id) == last[id] = Wanted(id) \/ HeldFor(Source(id), id) # {}
KeptFile(f) == current[f] \in {Absent, Announced(f)} /\ (f \in known <=> Announced(f) # Absent)
Vouched(id) == Agreed(id) /\ Told(id) /\ (id \in Files => KeptFile(id))

Awaited(f) == \E i \in DOMAIN events :
                events[i].file = f /\ (disk[f] = Absent => events[i].op = "remove")
Seen(f) == disk[f] \in {Torn, hashes[f]} \/ Awaited(f)

\* A producer that is idle holds nothing, and the event goroutine works on one file.
Roles ==
  /\ disk \in [Files -> Contents \cup {Absent, Torn}]
  /\ hashes \in [Files -> Contents \cup {Absent}]
  /\ \A p \in Producers : at[p] = "idle" => held[p] = {}
  /\ \A u, v \in held[Handler] : u = v /\ u.id \in Files

SourceInv ==
  /\ Roles /\ DOMAIN link = Channels
  /\ Overlapping \subseteq excused
  /\ \A f \in Files \ excused : Seen(f)
  /\ stop = "no" => \A id \in AuthIds \ excused : Vouched(id)

LEMMA ProducersDiffer ==
  /\ Handler \in Producers /\ Handler \notin AuthIds \cup Reloaders
  /\ Files \subseteq AuthIds /\ Channels \subseteq AuthIds /\ Files \cap Channels = {}
  /\ AuthIds \subseteq Producers /\ Reloaders \subseteq Producers
  /\ Reloaders \cap AuthIds = {} /\ \A id \in AuthIds : Source(id) \in Producers
BY WatcherBounds DEF Producers, AuthIds, Handler, Source

LEMMA ContentsApart ==
  /\ Absent \notin Contents /\ Torn \notin Contents /\ Absent # Torn /\ Absent # 1
  /\ Yields(Absent) = Absent /\ Yields(Torn) = Absent
BY WatcherBounds DEF Absent, Torn, Yields

LEMMA SourceStarts == WatcherInit => SourceInv
<1> SUFFICES ASSUME WatcherInit PROVE SourceInv
  OBVIOUS
<1>1. /\ disk \in [Files -> Contents \cup {Absent}] /\ hashes = disk /\ last = current
      /\ held = [p \in Producers |-> {}] /\ excused = {} /\ link = [c \in Channels |-> "new"]
      /\ current = [id \in AuthIds |-> IF id \in Files THEN Yields(disk[id]) ELSE Absent]
      /\ known = {f \in Files : Yields(disk[f]) # Absent} /\ at = [p \in Producers |-> "idle"]
  BY DEF WatcherInit
<1>2. \A p \in Producers : held[p] = {} /\ \A id \in AuthIds : HeldFor(p, id) = {}
  BY <1>1 DEF HeldFor
<1>3. Roles
  <2>1. disk \in [Files -> Contents \cup {Absent, Torn}]
    BY <1>1
  <2> QED
    BY <1>1, <1>2, <2>1, ProducersDiffer DEF Roles
<1>4. Overlapping \subseteq excused
  BY <1>2 DEF Overlapping, Touched
<1>5. \A f \in Files : Seen(f)
  BY <1>1 DEF Seen
<1>6. ASSUME NEW id \in AuthIds PROVE Vouched(id)
  <2>1. last[id] = Wanted(id)
    BY <1>1, ProducersDiffer DEF Wanted, AuthIds
  <2>2. ASSUME id \in Files PROVE KeptFile(id)
    <3>1. ~Queueing(id)
      BY <1>2, ProducersDiffer DEF Queueing
    <3>2. id \in known <=> current[id] # Absent
      BY <1>1, <2>2, ProducersDiffer
    <3> QED
      BY <1>1, <3>1, <3>2 DEF KeptFile, Announced
  <2> QED
    BY <1>2, <2>1, <2>2 DEF Vouched, Agreed, Told
<1> QED
  BY <1>1, <1>3, <1>4, <1>5, <1>6 DEF SourceInv

\* An auth nobody touches stays as it was.
LEMMA Untouched ==
  ASSUME NEW id \in AuthIds, Vouched(id), Wanted(id)' = Wanted(id), last'[id] = last[id],
         \A p \in Producers : HeldFor(p, id)' = HeldFor(p, id),
         id \in Files => /\ Queueing(id)' <=> Queueing(id)
                         /\ current'[id] \in {Absent, current[id]}
                         /\ id \in known' <=> id \in known
  PROVE  Vouched(id)'
<1>1. Agreed(id)'
  BY DEF Vouched, Agreed
<1>2. Told(id)'
  BY ProducersDiffer DEF Vouched, Told, Source
<1>3. ASSUME id \in Files PROVE KeptFile(id)'
  <2>1. Announced(id)' = Announced(id)
    BY <1>3 DEF Announced
  <2> QED
    BY <1>3, <2>1 DEF Vouched, KeptFile
<1> QED
  BY <1>1, <1>2, <1>3 DEF Vouched

\* Who holds an update of an auth that no exception names holds it alone.
LEMMA HeldAlone ==
  ASSUME Overlapping \subseteq excused, NEW id \in AuthIds \ excused,
         NEW p \in Producers, NEW q \in Producers, p # q, HeldFor(p, id) # {}
  PROVE  HeldFor(q, id) = {}
<1>1. \A r \in Producers : HeldFor(r, id) # {} <=> id \in Touched(r)
  BY DEF HeldFor, Touched
<1> QED
  BY <1>1 DEF Overlapping

\* A producer goes on with fewer updates.
LEMMA FewerOverlap ==
  ASSUME Overlapping \subseteq excused, excused \subseteq excused',
         \A p \in Producers : held'[p] \subseteq held[p]
  PROVE  Overlapping' \subseteq excused'
BY DEF Overlapping, Touched

LEMMA GoingOn ==
  ASSUME HeldTypes, NEW p \in Producers, NEW place, NEW updates, Goto(p, place, updates)
  PROVE  \A q \in Producers : /\ held'[q] = (IF q = p THEN updates ELSE held[q])
                              /\ at'[q] = (IF q = p THEN place ELSE at[q])
BY DEF HeldTypes, Goto

\* The directory changes, and the event that tells it waits.
LEMMA SourceFiles ==
  ASSUME DispatchInv, SourceInv, NEW f \in Files, FileChanges(f) \/ WindowEnds(f)
  PROVE  SourceInv'
<1> USE DEF SourceInv
<1>1. /\ UNCHANGED <<hashes, known, current, link, at, held, excused, last>>
      /\ stop' = stop
  BY DEF FileChanges, WindowEnds, pipeline, caches
<1>2. disk \in [Files -> Contents \cup {Absent, Torn}] /\ events \in Seq(FileEvents)
  BY DEF Roles, DispatchInv, HeldTypes
<1>3. disk' \in [Files -> Contents \cup {Absent, Torn}]
  BY <1>2 DEF FileChanges, WindowEnds, env
<1>4. Roles'
  BY <1>1, <1>3 DEF Roles
<1>5. Overlapping' \subseteq excused'
  BY <1>1 DEF Overlapping, Touched
<1>6. ASSUME NEW g \in Files \ excused PROVE Seen(g)'
  <2>1. CASE WindowEnds(f)
    BY <1>1, <2>1 DEF Seen, Awaited, WindowEnds, env
  <2>2. CASE FileChanges(f)
    <3>1. PICK content \in Contents \cup {Absent, Torn}, op \in {"write", "remove"} :
            /\ content = Absent => op = "remove"
            /\ disk' = [disk EXCEPT ![f] = content]
            /\ events' = Append(events, [file |-> f, op |-> op])
      BY <2>2 DEF FileChanges
    <3>2. [file |-> f, op |-> op] \in FileEvents
      BY DEF FileEvents
    <3>3. /\ Len(events) \in Nat /\ DOMAIN events = 1..Len(events)
          /\ DOMAIN events' = 1..(Len(events) + 1)
          /\ events'[Len(events) + 1] = [file |-> f, op |-> op]
          /\ \A i \in DOMAIN events : events'[i] = events[i]
      BY <1>2, <3>1, <3>2, AppendProperties, LenProperties
    <3>4. CASE g = f
      <4>1. disk'[g] = content
        BY <1>2, <3>1, <3>4
      <4>2. Awaited(g)'
        BY <3>1, <3>3, <3>4, <4>1 DEF Awaited
      <4> QED
        BY <4>2 DEF Seen
    <3>5. CASE g # f
      <4>1. disk'[g] = disk[g]
        BY <1>2, <3>1, <3>5
      <4>2. Awaited(g) => Awaited(g)'
        BY <3>3, <4>1 DEF Awaited
      <4> QED
        BY <1>1, <4>1, <4>2 DEF Seen
    <3> QED
      BY <3>4, <3>5
  <2> QED
    BY <2>1, <2>2
<1>7. ASSUME NEW id \in AuthIds, Vouched(id) PROVE Vouched(id)'
  <2>1. Wanted(id)' = Wanted(id) /\ \A p \in Producers : HeldFor(p, id)' = HeldFor(p, id)
    BY <1>1 DEF Wanted, HeldFor
  <2>2. /\ Queueing(id)' <=> Queueing(id)
        /\ current'[id] = current[id] /\ last'[id] = last[id] /\ (id \in known' <=> id \in known)
    BY <1>1, <2>1, ProducersDiffer DEF Queueing
  <2> QED
    BY <1>7, <2>1, <2>2, Untouched
<1> QED
  BY <1>1, <1>4, <1>5, <1>6, <1>7

\* What the removal of an event from the queue leaves of the others.
LEMMA EventTaken ==
  ASSUME HeldTypes, events # <<>>, events' = Tail(events), NEW g \in Files, Awaited(g),
         UNCHANGED disk,
         Head(events).file # g \/ (disk[g] = Absent /\ Head(events).op # "remove")
  PROVE  Awaited(g)'
<1>1. events \in Seq(FileEvents)
  BY DEF HeldTypes
<1>2. /\ Len(events) \in Nat /\ Len(events) > 0 /\ DOMAIN events = 1..Len(events)
      /\ DOMAIN events' = 1..(Len(events) - 1)
      /\ \A i \in 1..(Len(events) - 1) : events'[i] = events[i + 1]
      /\ Head(events) = events[1]
  BY <1>1, HeadTailProperties, LenProperties, EmptySeq
<1>3. PICK i \in DOMAIN events : events[i].file = g /\ (disk[g] = Absent => events[i].op = "remove")
  BY DEF Awaited
<1>4. i # 1
  BY <1>2, <1>3
<1>5. i - 1 \in DOMAIN events' /\ events'[i - 1] = events[i]
  BY <1>2, <1>4
<1> QED
  BY <1>3, <1>5 DEF Awaited

\* The event goroutine loads a file, forgets it, or skips the event.
LEMMA SourceEvent ==
  ASSUME DispatchInv, SourceInv, HandleEvent
  PROVE  SourceInv'
<1> USE DEF SourceInv
<1> PICK f : f = Head(events).file
  OBVIOUS
<1> DEFINE removal == Head(events).op = "remove"
           debounced == removal /\ f \in recent
<1>1. /\ at[Handler] = "idle" /\ events # <<>> /\ events' = Tail(events)
      /\ UNCHANGED <<disk, link, last>> /\ stop' = stop
  BY DEF HandleEvent, pipeline
<1>2. \/ debounced /\ UNCHANGED <<hashes, known, current, at, held>>
      \/ ~debounced /\ removal /\ disk[f] = Absent /\ hashes[f] # Absent /\ Forget(f)
      \/ ~debounced /\ ~(removal /\ disk[f] = Absent /\ hashes[f] # Absent) /\ Load(f)
  BY DEF HandleEvent
<1>3. excused' = excused \cup (IF debounced THEN {f} ELSE {}) \cup Overlapping'
  BY DEF HandleEvent, Excuse
<1>4. /\ HeldTypes /\ QueueTypes /\ Roles /\ Handler \in Producers /\ held[Handler] = {}
      /\ current \in [AuthIds -> Int]
  BY <1>1, ProducersDiffer DEF DispatchInv, HeldTypes, Roles
<1>5. f \in Files /\ f \in AuthIds
  <2>1. events \in Seq(FileEvents)
    BY <1>4 DEF HeldTypes
  <2>2. Head(events) \in FileEvents
    BY <1>1, <2>1, HeadTailProperties
  <2> QED
    BY <2>2, ProducersDiffer DEF FileEvents
<1> HIDE DEF removal, debounced
<1>6. \E updates : /\ \/ updates = {}
                      \/ updates = {AuthUpdate(f, Absent)} /\ Forget(f) /\ f \in known
                      \/ updates = {AuthUpdate(f, Yields(disk[f]))} /\ Load(f)
                         /\ disk[f] \notin {Absent, Torn, hashes[f]}
                   /\ \A p \in Producers : held'[p] = IF p = Handler THEN updates ELSE held[p]
                   /\ at'[Handler] = "idle" => updates = {}
                   /\ \A p \in Producers \ {Handler} : at'[p] = at[p]
  <2>1. CASE UNCHANGED <<hashes, known, current, at, held>>
    BY <1>4, <2>1
  <2>2. CASE Forget(f)
    <3>1. CASE f \in known
      <4>1. Goto(Handler, "dispatch", {AuthUpdate(f, Absent)})
        BY <2>2, <3>1 DEF Forget
      <4> QED
        BY <1>4, <2>2, <3>1, <4>1, GoingOn
    <3>2. CASE f \notin known
      <4>1. Goto(Handler, "idle", {})
        BY <2>2, <3>2 DEF Forget
      <4> QED
        BY <1>4, <4>1, GoingOn
    <3> QED
      BY <3>1, <3>2
  <2>3. CASE Load(f)
    <3>1. CASE disk[f] \in {Absent, Torn, hashes[f]}
      <4>1. Goto(Handler, "idle", {})
        BY <2>3, <3>1 DEF Load
      <4> QED
        BY <1>4, <4>1, GoingOn
    <3>2. CASE disk[f] \notin {Absent, Torn, hashes[f]}
      <4>1. Goto(Handler, "compute", {AuthUpdate(f, Yields(disk[f]))})
        BY <2>3, <3>2 DEF Load
      <4> QED
        BY <1>4, <2>3, <3>2, <4>1, GoingOn
    <3> QED
      BY <3>1, <3>2
  <2> QED
    BY <1>2, <2>1, <2>2, <2>3
<1>7. PICK updates :
        /\ \/ updates = {}
           \/ updates = {AuthUpdate(f, Absent)} /\ Forget(f) /\ f \in known
           \/ updates = {AuthUpdate(f, Yields(disk[f]))} /\ Load(f)
              /\ disk[f] \notin {Absent, Torn, hashes[f]}
        /\ \A p \in Producers : held'[p] = IF p = Handler THEN updates ELSE held[p]
        /\ at'[Handler] = "idle" => updates = {}
        /\ \A p \in Producers \ {Handler} : at'[p] = at[p]
  BY <1>6
<1>8. \A u \in updates : u.id = f
  BY <1>7 DEF AuthUpdate
<1>9. disk' \in [Files -> Contents \cup {Absent, Torn}] /\ hashes' \in [Files -> Contents \cup {Absent}]
  BY <1>1, <1>2, <1>4, <1>5 DEF Roles, Forget, Load
<1>10. Roles'
  <2>1. \A p \in Producers : at'[p] = "idle" => held'[p] = {}
    BY <1>4, <1>7 DEF Roles
  <2>2. \A u, v \in held'[Handler] : u = v /\ u.id \in Files
    BY <1>4, <1>5, <1>7, <1>8
  <2> QED
    BY <1>9, <2>1, <2>2 DEF Roles
<1>11. ASSUME NEW g \in Files \ excused' PROVE Seen(g)'
  <2>1. Seen(g) /\ g \in Files
    BY <1>3, <1>11
  <2>2. CASE g # f
    <3>1. hashes'[g] = hashes[g] /\ disk'[g] = disk[g]
      BY <1>1, <1>2, <1>4, <1>5, <2>2 DEF Roles, Forget, Load
    <3>2. Awaited(g) => Awaited(g)'
      BY <1>1, <1>4, <2>2, EventTaken
    <3> QED
      BY <2>1, <3>1, <3>2 DEF Seen
  <2>3. CASE g = f
    <3>1. ~debounced
      BY <1>3, <1>11, <2>3
    <3>2. CASE Forget(f) /\ disk[f] = Absent
      BY <1>1, <1>4, <1>5, <2>3, <3>2 DEF Seen, Forget, Roles
    <3>3. CASE Load(f) /\ ~(removal /\ disk[f] = Absent /\ hashes[f] # Absent)
      <4>1. CASE disk[f] \notin {Absent, Torn, hashes[f]}
        BY <1>1, <1>4, <1>5, <2>3, <3>3, <4>1 DEF Seen, Load, Roles
      <4>2. CASE disk[f] \in {Torn, hashes[f]}
        BY <1>1, <2>3, <3>3, <4>2 DEF Seen, Load
      <4>3. CASE disk[f] = Absent /\ disk[f] \notin {Torn, hashes[f]}
        <5>1. Awaited(f) /\ ~removal
          BY <2>1, <2>3, <3>3, <4>3 DEF Seen
        <5>2. Awaited(f)'
          BY <1>1, <1>4, <1>5, <2>3, <4>3, <5>1, EventTaken DEF removal
        <5> QED
          BY <2>3, <5>2 DEF Seen
      <4> QED
        BY <4>1, <4>2, <4>3
    <3> QED
      BY <1>2, <3>1, <3>2, <3>3
  <2> QED
    BY <2>2, <2>3
<1>12. ASSUME NEW id \in AuthIds \ excused', stop = "no" PROVE Vouched(id)'
  <2>1. Vouched(id) /\ id \in AuthIds \ excused /\ id \notin Overlapping'
    BY <1>3, <1>12
  <2>2. \A p \in Producers \ {Handler} : HeldFor(p, id)' = HeldFor(p, id)
    BY <1>7 DEF HeldFor
  <2>3. HeldFor(Handler, id) = {} /\ ~Queueing(id)
    BY <1>1, <1>4 DEF HeldFor, Queueing
  <2>4. CASE id # f
    <3>1. HeldFor(Handler, id)' = {}
      BY <1>4, <1>7, <1>8, <2>4 DEF HeldFor
    <3>2. Wanted(id)' = Wanted(id)
      <4>1. id \in Files => hashes'[id] = hashes[id]
        BY <1>2, <1>4, <1>5, <2>4 DEF Roles, Forget, Load
      <4> QED
        BY <1>1, <2>1, <4>1 DEF Wanted, AuthIds
    <3>3. current'[id] = current[id] /\ (id \in known' <=> id \in known)
      BY <1>2, <1>4, <1>5, <2>1, <2>4 DEF Forget, Load
    <3> QED
      BY <1>1, <2>1, <2>2, <2>3, <3>1, <3>2, <3>3, Untouched DEF Queueing
  <2>5. CASE id = f /\ updates = {}
    <3>1. HeldFor(Handler, id)' = {}
      BY <1>4, <1>7, <2>5 DEF HeldFor
    <3>2. last[id] = Wanted(id)
      BY <1>5, <2>1, <2>3, <2>5 DEF Vouched, Told, Source
    <3>3. /\ Wanted(id)' = Wanted(id) /\ current'[id] \in {Absent, current[id]}
          /\ id \in known' <=> id \in known
      <4>1. CASE Forget(f)
        <5>1. f \notin known
          BY <1>4, <1>7, <2>5, <4>1, GoingOn DEF Forget
        <5>2. Wanted(id) = Absent
          BY <1>5, <2>1, <2>3, <2>5, <3>2, <5>1 DEF Vouched, KeptFile, Announced
        <5>3. hashes'[f] = Absent
          BY <1>4, <1>5, <4>1 DEF Forget, Roles
        <5>4. Wanted(id)' = Absent
          BY <1>5, <2>5, <5>3, ProducersDiffer, ContentsApart DEF Wanted
        <5>5. current'[f] = current[f] /\ f \notin known'
          BY <1>4, <1>5, <4>1, <5>1 DEF Forget
        <5> QED
          BY <2>5, <5>1, <5>2, <5>4, <5>5
      <4>2. CASE Load(f)
        <5>1. disk[f] \in {Absent, Torn, hashes[f]}
          BY <1>4, <1>7, <2>5, <4>2, GoingOn DEF Load
        <5>2. UNCHANGED <<hashes, known, current>>
          BY <4>2, <5>1 DEF Load
        <5> QED
          BY <1>1, <5>2 DEF Wanted
      <4>3. CASE UNCHANGED <<hashes, known, current, at, held>>
        BY <1>1, <4>3 DEF Wanted
      <4> QED
        BY <1>2, <4>1, <4>2, <4>3
    <3> QED
      BY <1>1, <2>1, <2>2, <2>3, <3>1, <3>3, Untouched DEF Queueing
  <2>6. CASE id = f /\ updates # {}
    <3>1. /\ HeldFor(Handler, id)' = updates
          /\ \A p \in Producers \ {Handler} : HeldFor(p, id)' = {}
      <4>1. HeldFor(Handler, id)' = updates
        BY <1>4, <1>7, <1>8, <2>6 DEF HeldFor
      <4>2. \A p \in Producers : HeldFor(p, id)' # {} => id \in Touched(p)'
        BY DEF HeldFor, Touched
      <4> QED
        BY <1>4, <2>1, <2>6, <4>1, <4>2 DEF Overlapping
    <3>2. Told(id)'
      BY <1>5, <2>6, <3>1 DEF Told, Source
    <3>3. CASE Forget(f) /\ updates = {AuthUpdate(f, Absent)} /\ f \in known
      <4>1. hashes'[f] = Absent /\ current'[f] = Absent /\ f \notin known'
        BY <1>4, <1>5, <3>3 DEF Forget, Roles
      <4>2. Wanted(id)' = Absent
        BY <1>5, <2>6, <4>1, ProducersDiffer, ContentsApart DEF Wanted
      <4>3. Agreed(id)'
        BY <3>1, <3>3, <4>2 DEF Agreed, AuthUpdate
      <4>4. at'[Handler] = "dispatch"
        <5>1. Goto(Handler, "dispatch", {AuthUpdate(f, Absent)})
          BY <3>3 DEF Forget
        <5> QED
          BY <1>4, <5>1, GoingOn
      <4>5. KeptFile(id)'
        BY <2>6, <3>1, <4>1, <4>2, <4>4 DEF KeptFile, Announced, Queueing
      <4> QED
        BY <3>2, <4>3, <4>5 DEF Vouched
    <3>4. CASE Load(f) /\ updates = {AuthUpdate(f, Yields(disk[f]))}
               /\ disk[f] \notin {Absent, Torn, hashes[f]}
      <4>1. /\ hashes' = [hashes EXCEPT ![f] = disk[f]] /\ UNCHANGED <<known, current>>
            /\ Goto(Handler, "compute", {AuthUpdate(f, Yields(disk[f]))})
        BY <3>4 DEF Load
      <4>2. hashes'[f] = disk[f] /\ at'[Handler] = "compute"
        BY <1>4, <1>5, <4>1, GoingOn DEF Roles
      <4>3. Wanted(id)' = Yields(disk[f])
        BY <1>5, <2>6, <4>2, ProducersDiffer DEF Wanted
      <4>4. Agreed(id)'
        BY <3>1, <3>4, <4>3 DEF Agreed, AuthUpdate
      <4>5. KeptFile(id)'
        BY <1>1, <1>5, <2>1, <2>3, <2>6, <4>1, <4>2 DEF Vouched, KeptFile, Announced, Queueing
      <4> QED
        BY <3>2, <4>4, <4>5 DEF Vouched
    <3> QED
      BY <1>7, <2>6, <3>3, <3>4
  <2> QED
    BY <2>4, <2>5, <2>6
<1> QED
  BY <1>1, <1>3, <1>10, <1>11, <1>12

\* A producer goes on while the environment, the hashes and the history stay.
LEMMA OthersStay ==
  ASSUME DispatchInv, SourceInv, NEW p \in Producers, NEW place, NEW updates,
         Goto(p, place, updates), place = "idle" => updates = {},
         p = Handler => updates \subseteq held[Handler],
         UNCHANGED <<disk, events>>, excused \subseteq excused', Overlapping' \subseteq excused',
         hashes' \in [Files -> Contents \cup {Absent}],
         \A f \in Files \ excused' : hashes'[f] = hashes[f]
  PROVE  Roles' /\ Overlapping' \subseteq excused' /\ \A f \in Files \ excused' : Seen(f)'
<1> USE DEF SourceInv
<1>1. \A q \in Producers : /\ held'[q] = (IF q = p THEN updates ELSE held[q])
                           /\ at'[q] = (IF q = p THEN place ELSE at[q])
  BY GoingOn DEF DispatchInv
<1>2. \A q \in Producers : at'[q] = "idle" => held'[q] = {}
  BY <1>1 DEF Roles
<1>3. \A u, v \in held'[Handler] : u = v /\ u.id \in Files
  BY <1>1, ProducersDiffer DEF Roles
<1>4. Roles'
  BY <1>2, <1>3 DEF Roles
<1>5. \A f \in Files \ excused' : Seen(f)'
  BY DEF Seen, Awaited
<1> QED
  BY <1>4, <1>5

\* The contents of a file are compared with currentAuths.
LEMMA SourceCompute ==
  ASSUME DispatchInv, SourceInv, ComputePerPath
  PROVE  SourceInv'
<1> USE DEF SourceInv
<1>1. /\ at[Handler] = "compute" /\ stop' = stop
      /\ UNCHANGED <<disk, events, hashes, link, last, excused>>
  BY DEF ComputePerPath, pipeline, env
<1>2. PICK u \in held[Handler], changed \in BOOLEAN :
        /\ changed <=> IF u.auth = Absent THEN u.id \in known ELSE current[u.id] # u.auth
        /\ known' = IF u.auth = Absent THEN known \ {u.id} ELSE known \cup {u.id}
        /\ current' = [current EXCEPT ![u.id] = IF changed THEN u.auth ELSE @]
        /\ Goto(Handler, "dispatch", IF changed THEN {u} ELSE {})
  <2>1. PICK u \in held[Handler] :
          LET changed == IF u.auth = Absent THEN u.id \in known ELSE current[u.id] # u.auth
          IN  /\ known' = IF u.auth = Absent THEN known \ {u.id} ELSE known \cup {u.id}
              /\ current' = [current EXCEPT ![u.id] = IF changed THEN u.auth ELSE @]
              /\ Goto(Handler, "dispatch", IF changed THEN {u} ELSE {})
    BY DEF ComputePerPath
  <2> DEFINE c == IF u.auth = Absent THEN u.id \in known ELSE current[u.id] # u.auth
  <2>2. CASE c
    BY <2>1, <2>2
  <2>3. CASE ~c
    BY <2>1, <2>3
  <2> QED
    BY <2>2, <2>3
<1>3. /\ HeldTypes /\ Roles /\ Handler \in Producers /\ held[Handler] = {u}
      /\ u.id \in Files /\ u.id \in AuthIds /\ current \in [AuthIds -> Int]
  BY <1>2, ProducersDiffer DEF DispatchInv, HeldTypes, Roles
<1>4. PICK updates \in SUBSET {u} : updates = IF changed THEN {u} ELSE {}
  OBVIOUS
<1>5. Goto(Handler, "dispatch", updates)
  BY <1>2, <1>4
<1>6. \A q \in Producers : /\ held'[q] = (IF q = Handler THEN updates ELSE held[q])
                           /\ at'[q] = (IF q = Handler THEN "dispatch" ELSE at[q])
  BY <1>3, <1>5, GoingOn
<1>7. Overlapping' \subseteq excused'
  <2>1. \A q \in Producers : held'[q] \subseteq held[q]
    BY <1>3, <1>4, <1>6
  <2> QED
    BY <1>1, <2>1, FewerOverlap
<1>8. Roles' /\ \A f \in Files \ excused' : Seen(f)'
  <2>1. hashes' \in [Files -> Contents \cup {Absent}] /\ "dispatch" # "idle" /\ updates \subseteq held[Handler]
    BY <1>1, <1>3, <1>4 DEF Roles
  <2> QED
    BY <1>1, <1>3, <1>5, <1>7, <2>1, OthersStay
<1>9. ASSUME NEW id \in AuthIds \ excused, stop = "no" PROVE Vouched(id)'
  <2>1. Vouched(id) /\ ~Queueing(id) /\ Wanted(id)' = Wanted(id)
    BY <1>1, <1>9 DEF Queueing, Wanted
  <2>2. \A p \in Producers \ {Handler} : HeldFor(p, id)' = HeldFor(p, id)
    BY <1>6 DEF HeldFor
  <2>3. CASE id # u.id
    <3>1. HeldFor(Handler, id) = {} /\ HeldFor(Handler, id)' = {}
      BY <1>3, <1>4, <1>6, <2>3 DEF HeldFor
    <3>2. ~Queueing(id)' /\ current'[id] = current[id] /\ (id \in known' <=> id \in known)
      BY <1>2, <1>3, <2>3, <3>1 DEF Queueing
    <3> QED
      BY <1>1, <2>1, <2>2, <3>1, <3>2, Untouched
  <2>4. CASE id = u.id
    <3>1. /\ HeldFor(Handler, id) = {u} /\ HeldFor(Handler, id)' = updates
          /\ \A p \in Producers \ {Handler} : HeldFor(p, id)' = {}
      <4>1. HeldFor(Handler, id) = {u} /\ HeldFor(Handler, id)' = updates
        BY <1>3, <1>4, <1>6, <2>4 DEF HeldFor
      <4>2. \A p \in Producers \ {Handler} : HeldFor(p, id) = {}
        BY <1>3, <1>9, <4>1, HeldAlone
      <4> QED
        BY <2>2, <4>1, <4>2
    <3>2. u.auth = Wanted(id)
      BY <1>3, <2>1, <3>1 DEF Vouched, Agreed
    <3>3. Agreed(id)'
      BY <1>4, <2>1, <3>1, <3>2 DEF Agreed
    <3>4. /\ current[id] \in {Absent, last[id]} /\ (id \in known <=> last[id] # Absent)
          /\ current'[id] = (IF changed THEN u.auth ELSE current[id])
          /\ id \in known' <=> u.auth # Absent
      BY <1>2, <1>3, <2>1, <2>4 DEF Vouched, KeptFile, Announced
    <3>5. CASE changed
      <4>1. updates = {u} /\ at'[Handler] = "dispatch"
        BY <1>3, <1>4, <1>6, <3>5
      <4>2. Told(id)' /\ Queueing(id)'
        BY <1>3, <2>4, <3>1, <4>1 DEF Told, Source, Queueing
      <4>3. KeptFile(id)'
        BY <2>1, <3>2, <3>4, <3>5, <4>2 DEF KeptFile, Announced
      <4> QED
        BY <3>3, <4>2, <4>3 DEF Vouched
    <3>6. CASE ~changed
      <4>1. updates = {} /\ last'[id] = last[id]
        BY <1>1, <1>4, <3>6
      <4>2. last[id] = Wanted(id) /\ current[id] \in {Absent, last[id]}
        BY <1>2, <2>4, <3>2, <3>4, <3>6
      <4>3. ~Queueing(id)'
        BY <3>1, <4>1 DEF Queueing
      <4>4. Told(id)' /\ KeptFile(id)'
        BY <2>1, <3>2, <3>4, <3>6, <4>1, <4>2, <4>3 DEF Told, KeptFile, Announced
      <4> QED
        BY <3>3, <4>4 DEF Vouched
    <3> QED
      BY <3>5, <3>6
  <2> QED
    BY <2>3, <2>4
<1> QED
  BY <1>1, <1>7, <1>8, <1>9

\* A reload starts, and may drop auths from currentAuths.
LEMMA SourceReload ==
  ASSUME DispatchInv, SourceInv, NEW m \in Reloaders, ReloadStart(m)
  PROVE  SourceInv'
<1> USE DEF SourceInv
<1>1. /\ at[m] = "idle" /\ stop' = stop
      /\ UNCHANGED <<disk, events, hashes, known, link, last, excused>>
  BY DEF ReloadStart, pipeline, env, caches
<1>2. PICK dropped \in Excluding :
        current' = [id \in AuthIds |-> IF id \in dropped THEN Absent ELSE current[id]]
  BY DEF ReloadStart
<1>3. PICK place \in {"rescan", "snapshot"} : Goto(m, place, {})
  BY DEF ReloadStart
<1>4. m \in Producers /\ m # Handler /\ HeldTypes /\ Handler \in Producers /\ held[m] = {}
  BY <1>1, ProducersDiffer DEF DispatchInv, Roles
<1>5. \A q \in Producers : /\ held'[q] = held[q]
                           /\ at'[q] = (IF q = m THEN place ELSE at[q])
  BY <1>3, <1>4, GoingOn
<1>6. Overlapping' \subseteq excused'
  BY <1>1, <1>5, FewerOverlap
<1>7. Roles' /\ \A f \in Files \ excused' : Seen(f)'
  <2>1. hashes' \in [Files -> Contents \cup {Absent}]
    BY <1>1 DEF Roles
  <2> QED
    BY <1>1, <1>3, <1>4, <1>6, <2>1, OthersStay
<1>8. ASSUME NEW id \in AuthIds, Vouched(id) PROVE Vouched(id)'
  <2>1. Wanted(id)' = Wanted(id) /\ \A p \in Producers : HeldFor(p, id)' = HeldFor(p, id)
    BY <1>1, <1>5 DEF Wanted, HeldFor
  <2>2. current'[id] \in {Absent, current[id]} /\ (Queueing(id)' <=> Queueing(id))
    BY <1>2, <1>4, <1>5, <2>1 DEF Queueing
  <2> QED
    BY <1>1, <1>8, <2>1, <2>2, Untouched
<1> QED
  BY <1>1, <1>6, <1>7, <1>8

\* The directory is hashed again, while no event is being handled.
LEMMA SourceRescan ==
  ASSUME DispatchInv, SourceInv, NEW m \in Reloaders, Rescan(m)
  PROVE  SourceInv'
<1> USE DEF SourceInv
<1>1. /\ at[Handler] = "idle" /\ stop' = stop /\ Goto(m, "snapshot", {})
      /\ UNCHANGED <<disk, events, current, link, last>>
      /\ hashes' = [f \in Files |-> IF disk[f] = Torn THEN Absent ELSE disk[f]]
      /\ known' = {f \in Files : Yields(disk[f]) # Absent}
      /\ excused' = excused \cup Unhandled \cup Overlapping'
  BY DEF Rescan, pipeline, env, Excuse
<1>2. m \in Producers /\ m # Handler /\ HeldTypes /\ Handler \in Producers /\ held[Handler] = {}
  BY <1>1, ProducersDiffer DEF DispatchInv, Roles
<1>3. \A q \in Producers : /\ held'[q] = (IF q = m THEN {} ELSE held[q])
                           /\ at'[q] = (IF q = m THEN "snapshot" ELSE at[q])
  BY <1>1, <1>2, GoingOn
<1>4. \A f \in Files \ excused' : disk[f] = hashes[f] /\ disk[f] # Torn
  BY <1>1, ContentsApart DEF Unhandled, Roles
<1>5. hashes' \in [Files -> Contents \cup {Absent}]
  BY <1>1 DEF Roles
<1>6. \A f \in Files \ excused' : hashes'[f] = hashes[f]
  BY <1>1, <1>4
<1>7. Overlapping' \subseteq excused' /\ excused \subseteq excused'
  BY <1>1
<1>8. Roles' /\ \A f \in Files \ excused' : Seen(f)'
  BY <1>1, <1>2, <1>5, <1>6, <1>7, OthersStay
<1>9. ASSUME NEW id \in AuthIds \ excused', stop = "no" PROVE Vouched(id)'
  <2>1. Vouched(id) /\ id \in AuthIds
    BY <1>7, <1>9
  <2>2. Wanted(id)' = Wanted(id)
    BY <1>1, <1>6, <1>9 DEF Wanted, AuthIds
  <2>3. \A p \in Producers : HeldFor(p, id)' \subseteq HeldFor(p, id)
    BY <1>3 DEF HeldFor
  <2>4. Agreed(id)'
    BY <2>1, <2>2, <2>3 DEF Vouched, Agreed
  <2>5. HeldFor(Handler, id) = {} /\ HeldFor(Handler, id)' = {}
    BY <1>2, <1>3 DEF HeldFor
  <2>6. Told(id)'
    <3>1. CASE id \in Files
      BY <1>1, <2>1, <2>2, <2>5, <3>1 DEF Vouched, Told, Source
    <3>2. CASE id \notin Files
      <4>1. id \in Producers /\ id # m
        BY <2>1, ProducersDiffer
      <4>2. HeldFor(id, id)' = HeldFor(id, id)
        BY <1>3, <4>1 DEF HeldFor
      <4> QED
        BY <1>1, <2>1, <2>2, <3>2, <4>2 DEF Vouched, Told, Source
    <3> QED
      BY <3>1, <3>2
  <2>7. ASSUME id \in Files PROVE KeptFile(id)'
    <3>1. last[id] = Wanted(id) /\ ~Queueing(id) /\ ~Queueing(id)'
      BY <2>1, <2>5, <2>7 DEF Vouched, Told, Source, Queueing
    <3>2. Wanted(id) = Yields(disk[id])
      BY <1>4, <1>9, <2>7, ProducersDiffer DEF Wanted
    <3>3. id \in known' <=> last[id] # Absent
      BY <1>1, <2>7, <3>1, <3>2
    <3> QED
      BY <1>1, <2>1, <2>7, <3>1, <3>3 DEF Vouched, KeptFile, Announced
  <2> QED
    BY <2>4, <2>6, <2>7 DEF Vouched
<1> QED
  BY <1>1, <1>7, <1>8, <1>9

\* A reload reads the files: of those that have not changed, what the hashes say.
LEMMA SourceSnapshot ==
  ASSUME DispatchInv, SourceInv, NEW m \in Reloaders, TakeSnapshot(m)
  PROVE  SourceInv'
<1> USE DEF SourceInv
<1> PICK updates : updates = {AuthUpdate(f, Yields(disk[f])) : f \in Files}
  OBVIOUS
<1>1. /\ stop' = stop /\ Goto(m, "diff", updates)
      /\ UNCHANGED <<disk, events, hashes, known, current, link, last>>
      /\ excused' = excused \cup Unhandled \cup Overlapping'
  BY DEF TakeSnapshot, pipeline, env, caches, Excuse
<1>2. m \in Producers /\ m # Handler /\ HeldTypes /\ Handler \in Producers
  BY ProducersDiffer DEF DispatchInv
<1>3. \A q \in Producers : /\ held'[q] = (IF q = m THEN updates ELSE held[q])
                           /\ at'[q] = (IF q = m THEN "diff" ELSE at[q])
  BY <1>1, <1>2, GoingOn
<1>4. Overlapping' \subseteq excused' /\ excused \subseteq excused'
      /\ hashes' \in [Files -> Contents \cup {Absent}]
  BY <1>1 DEF Roles
<1>5. Roles' /\ \A f \in Files \ excused' : Seen(f)'
  BY <1>1, <1>2, <1>4, OthersStay
<1>6. ASSUME NEW id \in AuthIds \ excused', stop = "no" PROVE Vouched(id)'
  <2>1. Vouched(id) /\ Wanted(id)' = Wanted(id)
    BY <1>1, <1>6 DEF Wanted
  <2>2. \A q \in Producers \ {m} : HeldFor(q, id)' = HeldFor(q, id)
    BY <1>3 DEF HeldFor
  <2>3. \A u \in HeldFor(m, id)' : u.auth = Wanted(id)
    <3>1. ASSUME NEW u \in updates, u.id = id PROVE u.auth = Wanted(id)
      <4>1. id \in Files /\ u.auth = Yields(disk[id])
        BY <3>1 DEF AuthUpdate
      <4>2. disk[id] = hashes[id]
        BY <1>1, <1>6, <4>1 DEF Unhandled
      <4> QED
        BY <4>1, <4>2, ProducersDiffer DEF Wanted
    <3> QED
      BY <1>2, <1>3, <3>1 DEF HeldFor
  <2>4. Agreed(id)'
    BY <2>1, <2>2, <2>3 DEF Vouched, Agreed
  <2>5. Source(id) \in Producers \ {m}
    BY ProducersDiffer DEF Source
  <2>6. Told(id)'
    <3>1. HeldFor(Source(id), id)' = HeldFor(Source(id), id)
      BY <2>2, <2>5 DEF Source
    <3> QED
      BY <1>1, <2>1, <3>1 DEF Vouched, Told
  <2>7. ASSUME id \in Files PROVE KeptFile(id)'
    <3>1. Queueing(id)' <=> Queueing(id)
      BY <1>2, <1>3, <2>2 DEF Queueing
    <3> QED
      BY <1>1, <2>1, <2>7, <3>1 DEF Vouched, KeptFile, Announced
  <2> QED
    BY <2>4, <2>6, <2>7 DEF Vouched
<1> QED
  BY <1>1, <1>4, <1>5, <1>6

\* A reload replaces currentAuths, and goes on with what is new.
LEMMA SourceDiff ==
  ASSUME DispatchInv, SourceInv, NEW m \in Reloaders, Diff(m)
  PROVE  SourceInv'
<1> USE DEF SourceInv
<1> PICK new : new = [id \in AuthIds |->
                       IF id \in Channels THEN IF link[id] = "up" THEN 1 ELSE Absent
                       ELSE UpdateFor(held[m], id).auth]
  OBVIOUS
<1>1. /\ stop' = stop /\ at[m] = "diff" /\ current' = new
      /\ UNCHANGED <<disk, events, hashes, known, link, last>>
      /\ excused' = excused \cup Overlapping'
  BY DEF Diff, pipeline, env, caches, Excuse
<1>2. PICK ids \in SUBSET AuthIds : Goto(m, "dispatch", {AuthUpdate(id, new[id]) : id \in ids})
  <2>1. PICK force \in BOOLEAN :
          Goto(m, "dispatch", {AuthUpdate(id, new[id]) : id \in
            {i \in AuthIds : new[i] # current[i] \/ (force /\ new[i] # Absent)}})
    BY DEF Diff
  <2>2. {i \in AuthIds : new[i] # current[i] \/ (force /\ new[i] # Absent)} \in SUBSET AuthIds
    OBVIOUS
  <2> QED
    BY <2>1, <2>2
<1> PICK updates : updates = {AuthUpdate(id, new[id]) : id \in ids}
  OBVIOUS
<1>3. m \in Producers /\ m # Handler /\ HeldTypes /\ Handler \in Producers
      /\ Goto(m, "dispatch", updates)
  BY <1>2, ProducersDiffer DEF DispatchInv
<1>4. \A q \in Producers : /\ held'[q] = (IF q = m THEN updates ELSE held[q])
                           /\ at'[q] = (IF q = m THEN "dispatch" ELSE at[q])
  BY <1>3, GoingOn
<1>5. Overlapping' \subseteq excused' /\ excused \subseteq excused'
      /\ hashes' \in [Files -> Contents \cup {Absent}]
  BY <1>1 DEF Roles
<1>6. Roles' /\ \A f \in Files \ excused' : Seen(f)'
  BY <1>1, <1>3, <1>5, OthersStay
<1>7. ASSUME NEW id \in AuthIds \ excused', stop = "no" PROVE Vouched(id)'
  <2>1. Vouched(id) /\ id \in AuthIds \ excused /\ Wanted(id)' = Wanted(id)
    BY <1>1, <1>7 DEF Wanted
  <2>2. \A q \in Producers \ {m} : HeldFor(q, id)' = HeldFor(q, id)
    BY <1>4 DEF HeldFor
  <2>3. ASSUME id \in Files PROVE HeldFor(m, id) # {} /\ UpdateFor(held[m], id) \in HeldFor(m, id)
    <3>1. \E u \in held[m] : u.id = id
      BY <1>1, <1>3, <2>3 DEF HeldTypes
    <3> QED
      BY <3>1 DEF UpdateFor, HeldFor
  <2>4. new[id] = Wanted(id)
    <3>1. CASE id \in Channels
      BY <3>1, <2>1 DEF Wanted
    <3>2. CASE id \notin Channels
      <4>1. id \in Files
        BY <2>1, <3>2 DEF AuthIds
      <4>2. UpdateFor(held[m], id).auth = Wanted(id)
        BY <1>3, <2>1, <2>3, <4>1 DEF Vouched, Agreed
      <4> QED
        BY <2>1, <3>2, <4>2
    <3> QED
      BY <3>1, <3>2
  <2>5. Agreed(id)'
    <3>1. \A u \in updates : u.id = id => u.auth = Wanted(id)
      BY <2>4 DEF AuthUpdate
    <3>2. \A u \in HeldFor(m, id)' : u.auth = Wanted(id)
      BY <1>3, <1>4, <3>1 DEF HeldFor
    <3> QED
      BY <2>1, <2>2, <3>2 DEF Vouched, Agreed
  <2>6. Told(id)'
    <3>1. Source(id) \in Producers \ {m}
      BY ProducersDiffer DEF Source
    <3>2. HeldFor(Source(id), id)' = HeldFor(Source(id), id)
      BY <2>2, <3>1 DEF Source
    <3> QED
      BY <1>1, <2>1, <3>2 DEF Vouched, Told
  <2>7. ASSUME id \in Files PROVE KeptFile(id)'
    <3>1. HeldFor(Handler, id) = {}
      BY <1>3, <2>1, <2>3, <2>7, HeldAlone
    <3>2. last[id] = Wanted(id) /\ ~Queueing(id) /\ ~Queueing(id)'
      BY <1>3, <2>1, <2>2, <2>7, <3>1 DEF Vouched, Told, Source, Queueing
    <3> QED
      BY <1>1, <2>1, <2>4, <2>7, <3>2 DEF Vouched, KeptFile, Announced
  <2> QED
    BY <2>5, <2>6, <2>7 DEF Vouched
<1> QED
  BY <1>1, <1>5, <1>6, <1>7

\* A relay channel connects or disconnects.
LEMMA SourceLink ==
  ASSUME DispatchInv, SourceInv, NEW c \in Channels, Connected(c) \/ Disconnected(c)
  PROVE  SourceInv'
<1> USE DEF SourceInv
<1>1. PICK to, auth : /\ at[c] = "idle" /\ link' = [link EXCEPT ![c] = to]
                      /\ current' = [current EXCEPT ![c] = auth]
                      /\ Goto(c, "dispatch", {AuthUpdate(c, auth)})
                      /\ \/ link[c] = "new" /\ to = "up" /\ auth = 1
                         \/ link[c] = "up" /\ to = "down" /\ auth = Absent
                      /\ Excuse({}) /\ stop' = stop
                      /\ UNCHANGED <<disk, events, hashes, known, last>>
  <2>1. CASE Connected(c)
    <3>1. SwitchLink(c, "new", "up", 1)
      BY <2>1 DEF Connected
    <3> QED
      BY <3>1 DEF SwitchLink, caches, pipeline
  <2>2. CASE Disconnected(c)
    <3>1. SwitchLink(c, "up", "down", Absent)
      BY <2>2 DEF Disconnected
    <3> QED
      BY <3>1 DEF SwitchLink, caches, pipeline
  <2> QED
    BY <2>1, <2>2
<1> PICK updates : updates = {AuthUpdate(c, auth)}
  OBVIOUS
<1>2. /\ c \in Producers /\ c # Handler /\ c \in AuthIds /\ c \notin Files /\ HeldTypes
      /\ Handler \in Producers /\ Goto(c, "dispatch", updates) /\ held[c] = {}
  BY <1>1, ProducersDiffer DEF DispatchInv, Roles
<1>3. \A q \in Producers : /\ held'[q] = (IF q = c THEN updates ELSE held[q])
                           /\ at'[q] = (IF q = c THEN "dispatch" ELSE at[q])
  BY <1>2, GoingOn
<1>4. Overlapping' \subseteq excused' /\ excused \subseteq excused'
      /\ hashes' \in [Files -> Contents \cup {Absent}]
  BY <1>1 DEF Roles, Excuse
<1>5. Roles' /\ \A f \in Files \ excused' : Seen(f)'
  BY <1>1, <1>2, <1>4, OthersStay
<1>6. ASSUME NEW id \in AuthIds \ excused', stop = "no" PROVE Vouched(id)'
  <2>1. Vouched(id) /\ id \in AuthIds /\ id \notin Overlapping'
    BY <1>4, <1>6
  <2>2. \A q \in Producers \ {c} : HeldFor(q, id)' = HeldFor(q, id)
    BY <1>3 DEF HeldFor
  <2>3. CASE id # c
    <3>1. HeldFor(c, id) = {} /\ HeldFor(c, id)' = {}
      BY <1>2, <1>3, <2>3 DEF HeldFor, AuthUpdate
    <3>2. Wanted(id)' = Wanted(id)
      <4>1. id \in Channels => (link'[id] = "up" <=> link[id] = "up")
        BY <1>1, <2>3
      <4> QED
        BY <1>1, <4>1 DEF Wanted
    <3>3. /\ Queueing(id)' <=> Queueing(id)
          /\ current'[id] = current[id] /\ last'[id] = last[id] /\ (id \in known' <=> id \in known)
      BY <1>1, <1>2, <1>3, <2>1, <2>2, <2>3 DEF Queueing, HeldTypes
    <3> QED
      BY <2>1, <2>2, <3>1, <3>2, <3>3, Untouched
  <2>4. CASE id = c
    <3>1. HeldFor(c, id)' = updates
      BY <1>2, <1>3, <2>4 DEF HeldFor, AuthUpdate
    <3>2. updates # {}
      OBVIOUS
    <3>3. \A q \in Producers \ {c} : HeldFor(q, id)' = {}
      <4>1. \A q \in Producers : HeldFor(q, id)' # {} => id \in Touched(q)'
        BY DEF HeldFor, Touched
      <4> QED
        BY <1>2, <2>1, <3>1, <3>2, <4>1 DEF Overlapping
    <3>4. Wanted(id)' = auth
      <4>1. link'[c] = to
        BY <1>1
      <4> QED
        BY <1>1, <2>4, <4>1 DEF Wanted
    <3>5. Agreed(id)'
      BY <3>1, <3>3, <3>4 DEF Agreed, AuthUpdate
    <3>6. Told(id)'
      BY <1>2, <2>4, <3>1, <3>2 DEF Told, Source
    <3> QED
      BY <1>2, <2>4, <3>5, <3>6 DEF Vouched
  <2> QED
    BY <2>3, <2>4
<1> QED
  BY <1>1, <1>4, <1>5, <1>6

\* The updates of a producer are queued.
LEMMA SourceDispatch ==
  ASSUME DispatchInv, SourceInv, NEW p \in Producers, DispatchAuthUpdates(p)
  PROVE  SourceInv'
<1> USE DEF SourceInv
<1>1. /\ at[p] = "dispatch" /\ stop' = stop /\ Goto(p, "idle", {})
      /\ UNCHANGED <<disk, events, hashes, known, current, link, excused>>
  BY DEF DispatchAuthUpdates, env, caches
<1>2. HeldTypes /\ QueueTypes /\ Handler \in Producers
  BY ProducersDiffer DEF DispatchInv
<1>3. \A q \in Producers : /\ held'[q] = (IF q = p THEN {} ELSE held[q])
                           /\ at'[q] = (IF q = p THEN "idle" ELSE at[q])
  BY <1>1, <1>2, GoingOn
<1>4. Overlapping' \subseteq excused'
  <2>1. \A q \in Producers : held'[q] \subseteq held[q]
    BY <1>3
  <2> QED
    BY <1>1, <2>1, FewerOverlap
<1>5. Roles' /\ \A f \in Files \ excused' : Seen(f)'
  <2>1. hashes' \in [Files -> Contents \cup {Absent}]
    BY <1>1 DEF Roles
  <2> QED
    BY <1>1, <1>4, <2>1, OthersStay
<1>6. ASSUME NEW id \in AuthIds \ excused, stop = "no" PROVE Vouched(id)'
  <2>1. Vouched(id) /\ id \in AuthIds /\ Wanted(id)' = Wanted(id)
    BY <1>1, <1>6 DEF Wanted
  <2>2. \A q \in Producers \ {p} : HeldFor(q, id)' = HeldFor(q, id)
    BY <1>3 DEF HeldFor
  <2>3. HeldFor(p, id)' = {}
    BY <1>3 DEF HeldFor
  <2>4. Agreed(id)'
    BY <2>1, <2>2, <2>3 DEF Vouched, Agreed
  <2>5. CASE HeldFor(p, id) = {}
    <3>1. last'[id] = last[id]
      <4>1. CASE UNCHANGED last
        BY <4>1
      <4>2. CASE ~UNCHANGED last
        <5>1. last' = [i \in AuthIds |->
                         IF i \in Touched(p) THEN UpdateFor(held[p], i).auth ELSE last[i]]
          BY <4>2 DEF DispatchAuthUpdates
        <5>2. id \notin Touched(p)
          BY <2>5 DEF Touched, HeldFor
        <5> QED
          BY <2>1, <5>1, <5>2
      <4> QED
        BY <4>1, <4>2
    <3>2. \A q \in Producers : HeldFor(q, id)' = HeldFor(q, id)
      BY <2>2, <2>3, <2>5
    <3>3. Queueing(id)' <=> Queueing(id)
      BY <1>2, <1>3, <2>5, <3>2 DEF Queueing
    <3> QED
      BY <1>1, <2>1, <3>1, <3>2, <3>3, Untouched
  <2>6. CASE HeldFor(p, id) # {}
    <3>1. UpdateFor(held[p], id) \in HeldFor(p, id) /\ id \in Touched(p) /\ held[p] # {}
      BY <2>6 DEF UpdateFor, HeldFor, Touched
    <3>2. last'[id] = Wanted(id)
      <4>1. last' = [i \in AuthIds |->
                       IF i \in Touched(p) THEN UpdateFor(held[p], i).auth ELSE last[i]]
        BY <1>6, <3>1 DEF DispatchAuthUpdates
      <4> QED
        BY <2>1, <3>1, <4>1 DEF Vouched, Agreed
    <3>3. Told(id)'
      BY <2>1, <3>2 DEF Told
    <3>4. ASSUME id \in Files PROVE KeptFile(id)'
      <4>1. ~Queueing(id)'
        BY <1>2, <1>3, <2>3, <2>6, HeldAlone, <1>6, <2>2 DEF Queueing
      <4>2. Announced(id) = Wanted(id)
        <5>1. CASE p = Handler
          BY <1>1, <2>6, <5>1 DEF Announced, Queueing
        <5>2. CASE p # Handler
          <6>1. HeldFor(Handler, id) = {}
            BY <1>2, <1>6, <2>6, <5>2, HeldAlone
          <6> QED
            BY <2>1, <3>4, <6>1 DEF Announced, Queueing, Vouched, Told, Source
        <5> QED
          BY <5>1, <5>2
      <4>3. Announced(id)' = Announced(id)
        BY <3>2, <4>1, <4>2 DEF Announced
      <4> QED
        BY <1>1, <2>1, <3>4, <4>3 DEF Vouched, KeptFile
    <3> QED
      BY <2>4, <3>3, <3>4 DEF Vouched
  <2> QED
    BY <2>5, <2>6
<1> QED
  BY <1>1, <1>4, <1>5, <1>6

\* The dispatcher and the consumer produce nothing.
LEMMA SourceQueue ==
  ASSUME DispatchInv, SourceInv, UNCHANGED producing, stop' = "no" => stop = "no"
  PROVE  SourceInv'
<1> USE DEF SourceInv
<1>1. UNCHANGED <<disk, events, hashes, known, current, link, at, held, excused, last>>
  BY DEF producing, env, caches
<1>2. Roles' /\ DOMAIN link' = Channels
  BY <1>1 DEF Roles
<1>3. Overlapping' \subseteq excused'
  BY <1>1 DEF Overlapping, Touched
<1>4. ASSUME NEW f \in Files, Seen(f) PROVE Seen(f)'
  BY <1>1, <1>4 DEF Seen, Awaited
<1>5. ASSUME NEW id \in AuthIds, Vouched(id) PROVE Vouched(id)'
  <2>1. Wanted(id)' = Wanted(id) /\ \A q \in Producers : HeldFor(q, id)' = HeldFor(q, id)
    BY <1>1 DEF Wanted, HeldFor
  <2>2. Queueing(id)' <=> Queueing(id)
    BY <1>1, <2>1, ProducersDiffer DEF Queueing
  <2> QED
    BY <1>1, <1>5, <2>1, <2>2, Untouched
<1> QED
  BY <1>1, <1>2, <1>3, <1>4, <1>5

LEMMA SourceInductive == DispatchInv /\ SourceInv /\ [WatcherNext]_watcherVars => SourceInv'
<1> SUFFICES ASSUME DispatchInv, SourceInv, [WatcherNext]_watcherVars PROVE SourceInv'
  OBVIOUS
<1>1. CASE \E f \in Files : FileChanges(f) \/ WindowEnds(f)
  BY <1>1, SourceFiles
<1>2. CASE HandleEvent \/ ComputePerPath
  BY <1>2, SourceEvent, SourceCompute
<1>3. ASSUME NEW m \in Reloaders, ReloadStep(m) PROVE SourceInv'
  BY <1>3, SourceReload, SourceRescan, SourceSnapshot, SourceDiff DEF ReloadStep
<1>4. ASSUME NEW c \in Channels, Connected(c) \/ Disconnected(c) PROVE SourceInv'
  BY <1>4, SourceLink
<1>5. ASSUME NEW p \in Producers, DispatchAuthUpdates(p) PROVE SourceInv'
  BY <1>5, SourceDispatch
<1>6. CASE TakeBatch \/ Send \/ SendCancelled \/ Consume
  <2>1. UNCHANGED producing /\ stop' = stop
    BY <1>6 DEF TakeBatch, Send, SendCancelled, Consume
  <2> QED
    BY <2>1, SourceQueue
<1>7. CASE StopDispatch
  <2>1. UNCHANGED producing /\ (stop' = "no" => stop = "no")
    BY <1>7 DEF StopDispatch
  <2> QED
    BY <2>1, SourceQueue
<1>8. CASE UNCHANGED watcherVars
  <2>1. UNCHANGED producing /\ stop' = stop
    BY <1>8 DEF watcherVars, producing, env, pipeline
  <2> QED
    BY <2>1, SourceQueue
<1> QED
  BY <1>1, <1>2, <1>3, <1>4, <1>5, <1>6, <1>7, <1>8 DEF WatcherNext

\* When nothing is under way the manager has what is on disk and connected, for any
\* files, channels and reloads, unless a reload overlapped an update of the auth or
\* read a change before its event, or the removal of the file was debounced.
\* (handleEvent, addOrUpdateClient, removeClient, reloadClients, refreshAuthState)
THEOREM SourcesAreMatched == WatcherSpec => []SettledMatches
<1>1. DispatchInv /\ SourceInv => SettledMatches
  <2> SUFFICES ASSUME DispatchInv, SourceInv, Settled, NEW id \in AuthIds \ excused
               PROVE  Matches(id)
    BY DEF SettledMatches
  <2>1. /\ stop = "no" /\ events = <<>> /\ pendingUpdates = <<>> /\ batch = <<>> /\ channel = <<>>
        /\ \A p \in Producers : at[p] = "idle"
    BY DEF Settled
  <2>2. Vouched(id) /\ HeldFor(Source(id), id) = {}
    BY <2>1, ProducersDiffer DEF SourceInv, Roles, HeldFor
  <2>3. last[id] = Wanted(id)
    BY <2>2 DEF Vouched, Told
  <2>4. Reflects(id, last[id])
    <3>1. InFlight(id) \/ Reflects(id, last[id])
      BY <2>1, CarriedArrives DEF FinalActionIsApplied
    <3> QED
      BY <2>1, <3>1, NothingQueued DEF InFlight
  <2>5. CASE id \in Channels
    BY <2>3, <2>4, <2>5 DEF Matches, Wanted
  <2>6. CASE id \notin Channels
    <3>1. id \in Files /\ ~Awaited(id)
      BY <2>1, <2>6 DEF AuthIds, Awaited
    <3>2. disk[id] \in {Torn, hashes[id]}
      BY <3>1 DEF SourceInv, Seen
    <3> QED
      BY <2>3, <2>4, <2>6, <3>2 DEF Matches, Wanted
  <2> QED
    BY <2>5, <2>6
<1> QED
  BY <1>1, DispatchStarts, SourceStarts, DispatchInductive, SourceInductive, PTL DEF WatcherSpec

-----------------------------------------------------------------------------
(* The shape of the state, and the bound on the channel.                   *)

Shaped ==
  /\ disk \in [Files -> Contents \cup {Absent, Torn}]
  /\ known \subseteq Files /\ recent \subseteq Files /\ excused \subseteq AuthIds
  /\ loop \in {"take", "wait", "send", "ended"}
  /\ channel \in Seq(Updates) /\ Len(channel) <= Capacity

LEMMA ShapedAtStart == WatcherInit => Shaped
BY WatcherBounds, EmptySeq DEF WatcherInit, Shaped

LEMMA ShapeStays ==
  ASSUME DispatchInv, SourceInv, Shaped, [WatcherNext]_watcherVars
  PROVE  Shaped'
<1> DEFINE Sources == /\ disk' \in [Files -> Contents \cup {Absent, Torn}]
                      /\ known' \subseteq Files /\ recent' \subseteq Files
                      /\ excused' \subseteq AuthIds
           Queues == /\ loop' \in {"take", "wait", "send", "ended"}
                     /\ channel' \in Seq(Updates) /\ Len(channel') <= Capacity
<1>1. UNCHANGED <<disk, known, recent, excused>> => Sources
  BY DEF Shaped
<1>2. UNCHANGED <<loop, channel>> => Queues
  BY DEF Shaped
<1>3. ASSUME NEW ids \in SUBSET AuthIds, Excuse(ids) PROVE excused' \subseteq AuthIds
  BY <1>3 DEF Excuse, Overlapping, Shaped
<1>4. {} \in SUBSET AuthIds /\ Unhandled \in SUBSET AuthIds
  BY DEF Unhandled, AuthIds
<1>p. UNCHANGED producing => UNCHANGED <<disk, known, recent, excused>>
  BY DEF producing, env, caches
<1> SUFFICES Sources /\ Queues
  BY DEF Shaped
<1> HIDE DEF Sources, Queues
<1>5. ASSUME NEW f \in Files, FileChanges(f) \/ WindowEnds(f) PROVE Sources /\ Queues
  <2>1. UNCHANGED pipeline /\ UNCHANGED <<known, excused>>
    BY <1>5 DEF FileChanges, WindowEnds, caches
  <2>2. disk' \in [Files -> Contents \cup {Absent, Torn}] /\ recent' \subseteq Files
    BY <1>5 DEF FileChanges, WindowEnds, caches, env, Shaped
  <2> QED
    BY <1>2, <2>1, <2>2 DEF pipeline, Sources, Shaped
<1>6. CASE HandleEvent
  <2> DEFINE f == Head(events).file
  <2>1. f \in Files
    <3>1. events # <<>> /\ events \in Seq(FileEvents)
      BY <1>6 DEF HandleEvent, DispatchInv, HeldTypes
    <3>2. Head(events) \in FileEvents
      BY <3>1, HeadTailProperties
    <3> QED
      BY <3>2 DEF FileEvents
  <2>2. /\ UNCHANGED disk /\ UNCHANGED pipeline
        /\ recent' = recent \/ recent' = recent \cup {f}
        /\ known' = known \/ known' = known \ {f}
        /\ Excuse({f}) \/ Excuse({})
    BY <1>6 DEF HandleEvent, Load, Forget
  <2>3. {f} \in SUBSET AuthIds
    BY <2>1 DEF AuthIds
  <2> HIDE DEF f
  <2>4. excused' \subseteq AuthIds
    BY <1>3, <1>4, <2>2, <2>3
  <2> QED
    BY <1>2, <2>1, <2>2, <2>4 DEF pipeline, Sources, Shaped
<1>7. CASE ComputePerPath
  <2>1. PICK u \in held[Handler] :
          known' = IF u.auth = Absent THEN known \ {u.id} ELSE known \cup {u.id}
    BY <1>7 DEF ComputePerPath
  <2>2. u.id \in Files
    BY <2>1 DEF SourceInv, Roles
  <2>3. UNCHANGED pipeline /\ UNCHANGED <<disk, recent, excused>>
    BY <1>7 DEF ComputePerPath, env
  <2> QED
    BY <1>2, <2>1, <2>2, <2>3 DEF pipeline, Sources, Shaped
<1>8. ASSUME NEW m \in Reloaders, ReloadStep(m) PROVE Sources /\ Queues
  <2>1. UNCHANGED pipeline /\ UNCHANGED <<disk, recent>>
    BY <1>8 DEF ReloadStep, ReloadStart, Rescan, TakeSnapshot, Diff, env, caches
  <2>2. known' \subseteq Files
    BY <1>8 DEF ReloadStep, ReloadStart, Rescan, TakeSnapshot, Diff, caches, Shaped
  <2>3. excused' = excused \/ Excuse(Unhandled) \/ Excuse({})
    BY <1>8 DEF ReloadStep, ReloadStart, Rescan, TakeSnapshot, Diff
  <2>4. excused' \subseteq AuthIds
    BY <1>3, <1>4, <2>3 DEF Shaped
  <2> QED
    BY <1>2, <2>1, <2>2, <2>4 DEF pipeline, Sources, Shaped
<1>9. ASSUME NEW c \in Channels, Connected(c) \/ Disconnected(c) PROVE Sources /\ Queues
  <2>1. UNCHANGED pipeline /\ UNCHANGED <<disk, caches>> /\ Excuse({})
    BY <1>9 DEF Connected, Disconnected, SwitchLink
  <2> QED
    BY <1>2, <1>3, <1>4, <2>1 DEF pipeline, caches, Sources, Shaped
<1>10. ASSUME NEW p \in Producers, DispatchAuthUpdates(p) PROVE Sources /\ Queues
  <2>1. UNCHANGED <<disk, known, recent, excused, channel>> /\ loop' \in {loop, "take"}
    BY <1>10 DEF DispatchAuthUpdates, env, caches
  <2> QED
    BY <1>1, <2>1 DEF Queues, Shaped
<1>11. CASE Send
  <2>1. /\ batch # <<>> /\ batch \in Seq(Updates)
        /\ channel' = Append(channel, Head(batch)) /\ Len(channel) < Capacity
        /\ loop' \in {"take", "send"} /\ UNCHANGED producing
    BY <1>11 DEF Send, DispatchInv, QueueTypes
  <2>2. Head(batch) \in Updates
    BY <2>1, HeadTailProperties
  <2>3. channel' \in Seq(Updates) /\ Len(channel') = Len(channel) + 1 /\ Len(channel) \in Nat
    BY <2>1, <2>2, AppendProperties, LenProperties DEF Shaped
  <2>4. Queues
    BY <2>1, <2>3, WatcherBounds DEF Queues
  <2> QED
    BY <1>1, <1>p, <2>1, <2>4
<1>12. CASE Consume
  <2>1. /\ channel # <<>> /\ channel' = Tail(channel) /\ UNCHANGED producing /\ UNCHANGED loop
    BY <1>12 DEF Consume
  <2>2. channel' \in Seq(Updates) /\ Len(channel') = Len(channel) - 1 /\ Len(channel) \in Nat
    BY <2>1, HeadTailProperties, LenProperties DEF Shaped
  <2>3. Queues
    BY <2>1, <2>2, WatcherBounds DEF Queues, Shaped
  <2> QED
    BY <1>1, <1>p, <2>1, <2>3
<1>13. CASE TakeBatch \/ SendCancelled \/ StopDispatch
  <2>1. UNCHANGED producing /\ UNCHANGED channel
    BY <1>13 DEF TakeBatch, SendCancelled, StopDispatch
  <2>2. loop' \in {loop, "wait", "ended", "send", "take"}
    BY <1>13 DEF TakeBatch, SendCancelled, StopDispatch
  <2>3. Queues
    BY <2>1, <2>2 DEF Queues, Shaped
  <2> QED
    BY <1>1, <1>p, <2>1, <2>3
<1>14. CASE UNCHANGED watcherVars
  <2>1. UNCHANGED <<disk, known, recent, excused, loop, channel>>
    BY <1>14 DEF watcherVars, env, caches, pipeline
  <2> QED
    BY <1>1, <1>2, <2>1
<1> QED
  BY <1>5, <1>6, <1>7, <1>8, <1>9, <1>10, <1>11, <1>12, <1>13, <1>14 DEF WatcherNext

\* The state of the watcher keeps its shape, for any files, channels and reloads: the
\* channel never holds more than its capacity, the dispatcher sends as long as its
\* batch lasts, and one update of an id is pending.  (nextPendingBatch, dispatchLoop,
\* dispatchAuthUpdates)
THEOREM WatcherTypes == WatcherSpec => []WatcherTypeOK
<1>1. DispatchInv /\ Shaped => WatcherTypeOK
  BY DEF DispatchInv, QueueTypes, Sole, Shaped, WatcherTypeOK
<1> QED
  BY <1>1, ShapedAtStart, ShapeStays, DispatchStarts, SourceStarts, DispatchInductive,
     SourceInductive, PTL DEF WatcherSpec
=============================================================================
