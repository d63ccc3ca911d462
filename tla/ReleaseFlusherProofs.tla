------------------------- MODULE ReleaseFlusherProofs -------------------------
(***************************************************************************)
(* The flusher's invariants for any number of groups, sequences and calls   *)
(* of Flush.  FramesOK is what makes them inductive: nothing that was sent  *)
(* is newer than what was marked, and what a Flush waits for only grows     *)
(* older.  PromptInv says what a flush under way has still to take care of. *)
(***************************************************************************)
EXTENDS ReleaseFlusher, TLAPS

FramesOK ==
  /\ \A g \in Groups : frame[g] <= latest[g]
  /\ \A g \in todo : frame[g] > 0
  /\ \A g, h \in sending : g = h
  /\ \A g \in Groups, seq \in 1..MaxSequence :
       <<g, seq>> \in inFlight => seq <= latest[g]
  /\ \A c \in Flushers, g \in Groups : target[c][g] <= latest[g]

Inv == /\ FlusherTypeOK /\ FramesOK /\ AcknowledgedIsAccepted /\ TicketsMatchHome
       /\ FlushMeansAccepted

PromptInv ==
  /\ DirtyIsPrompt
  /\ pc = "flush" /\ ~failed /\ sender =>
       \A g \in Groups :
         Dirty(g) => wake \/ (g \in todo \cup sending /\ latest[g] = frame[g])

LEMMA HigherIsMax ==
  ASSUME NEW i \in Nat, NEW j \in Nat
  PROVE  /\ Higher(i, j) \in {i, j} /\ Higher(i, j) >= i /\ Higher(i, j) >= j
         /\ Higher(i, j) \in Nat
BY DEF Higher

LEMMA InitInv == FlusherInit => Inv /\ PromptInv
<1> SUFFICES ASSUME FlusherInit PROVE Inv /\ PromptInv
  OBVIOUS
<1> USE FlusherBounds DEF FlusherInit
<1>1. FlusherTypeOK
  <2>1. Zeros \in [Groups -> 0..MaxSequence]
    BY DEF Zeros
  <2>2. target \in [Flushers -> [Groups -> 0..MaxSequence]]
    BY <2>1
  <2>3. /\ waiters \in [Groups -> SUBSET (1..MaxSequence)]
        /\ issued \in [Groups -> SUBSET (1..MaxSequence)]
    OBVIOUS
  <2>4. callers \in [Flushers -> {"idle", "polling", "flushed", "expired"}]
    OBVIOUS
  <2>5. /\ latest \in [Groups -> 0..MaxSequence]
        /\ acked \in [Groups -> 0..MaxSequence]
        /\ home \in [Groups -> 0..MaxSequence]
        /\ frame \in [Groups -> 0..MaxSequence]
    BY <2>1
  <2>6. /\ todo \subseteq Groups /\ sending \subseteq Groups
        /\ inFlight \subseteq Groups \X (1..MaxSequence)
        /\ senderSets \in 0..MaxSenderSets
    OBVIOUS
  <2>7. /\ wake \in BOOLEAN /\ force \in BOOLEAN /\ sender \in BOOLEAN
        /\ backingOff \in BOOLEAN /\ failed \in BOOLEAN
        /\ pc \in {"select", "flush", "returned"} /\ timer \in {"now", "later"}
    OBVIOUS
  <2> QED
    BY <2>2, <2>3, <2>4, <2>5, <2>6, <2>7 DEF FlusherTypeOK
<1>2. FramesOK /\ AcknowledgedIsAccepted
  BY DEF Zeros, FramesOK, AcknowledgedIsAccepted
<1>3. TicketsMatchHome /\ FlushMeansAccepted
  BY DEF Zeros, TicketsMatchHome, FlushMeansAccepted
<1>4. PromptInv
  BY DEF Zeros, PromptInv, DirtyIsPrompt, Dirty
<1> QED
  BY <1>1, <1>2, <1>3, <1>4 DEF Inv

LEMMA InvStep == Inv /\ [FlusherNext]_flusherVars => Inv'
<1> SUFFICES ASSUME Inv, [FlusherNext]_flusherVars PROVE Inv'
  OBVIOUS
<1> USE FlusherBounds DEF Inv, FlusherTypeOK, FramesOK, AcknowledgedIsAccepted,
      TicketsMatchHome, FlushMeansAccepted, markVars, loopVars, callVars, ackVars,
      sendVars
<1>1. CASE UNCHANGED flusherVars
  BY <1>1 DEF flusherVars
<1>2. ASSUME NEW g \in Groups, NEW seq \in 1..MaxSequence, MarkDirty(g, seq)
      PROVE  Inv'
  <2>1. /\ latest' \in [Groups -> 0..MaxSequence]
        /\ \A h \in Groups : latest'[h] >= latest[h]
    <3>1. CASE seq <= acked[g]
      BY <1>2, <3>1 DEF MarkDirty
    <3>2. CASE ~(seq <= acked[g])
      <4>1. Higher(latest[g], seq) \in 0..MaxSequence /\ Higher(latest[g], seq) >= latest[g]
        BY DEF Higher
      <4>2. latest' = [latest EXCEPT ![g] = Higher(latest[g], seq)]
        BY <1>2, <3>2 DEF MarkDirty
      <4> QED
        BY <4>1, <4>2
    <3> QED
      BY <3>1, <3>2
  <2>2. /\ waiters' \in [Groups -> SUBSET (1..MaxSequence)]
        /\ issued' \in [Groups -> SUBSET (1..MaxSequence)]
    BY <1>2 DEF MarkDirty
  <2>6. FlusherTypeOK'
    BY <1>2, <2>1, <2>2 DEF MarkDirty
  <2>7. FramesOK'
    <3>1. /\ frame' = frame /\ todo' = todo /\ sending' = sending
          /\ inFlight' = inFlight /\ target' = target
      BY <1>2 DEF MarkDirty
    <3>2. \A c \in Flushers, h \in Groups : target[c][h] \in Nat /\ target[c][h] <= latest[h]
      OBVIOUS
    <3> QED
      BY <2>1, <3>1, <3>2
  <2>3. AcknowledgedIsAccepted'
    BY <1>2 DEF MarkDirty, Higher
  <2>4. TicketsMatchHome'
    BY <1>2 DEF MarkDirty, Higher
  <2>5. FlushMeansAccepted'
    BY <1>2 DEF MarkDirty, Higher
  <2> QED
    BY <2>3, <2>4, <2>5, <2>6, <2>7
<1>3. ASSUME NEW s \in BOOLEAN, SetSender(s) PROVE Inv'
  BY <1>3 DEF SetSender
<1>4. CASE RunCancelled \/ Wake \/ FlushDone
  BY <1>4 DEF RunCancelled, Wake, FlushDone
<1>5. CASE TimerFires \/ Forced
  <2>1. FlusherTypeOK'
    BY <1>5 DEF TimerFires, Forced, FlushStart, Dirty
  <2>2. FramesOK'
    BY <1>5 DEF TimerFires, Forced, FlushStart, Dirty
  <2>3. AcknowledgedIsAccepted'
    BY <1>5 DEF TimerFires, Forced, FlushStart, Dirty
  <2>4. TicketsMatchHome'
    BY <1>5 DEF TimerFires, Forced, FlushStart, Dirty
  <2>5. FlushMeansAccepted'
    BY <1>5 DEF TimerFires, Forced, FlushStart, Dirty
  <2> QED
    BY <2>1, <2>2, <2>3, <2>4, <2>5
<1>6. ASSUME NEW g \in Groups, SendStart(g) PROVE Inv'
  BY <1>6 DEF SendStart
<1>7. ASSUME NEW g \in Groups, SendAcknowledged(g) PROVE Inv'
  <2>1. FlusherTypeOK'
    BY <1>7 DEF SendAcknowledged, Higher
  <2>2. FramesOK'
    BY <1>7 DEF SendAcknowledged, Higher
  <2>3. AcknowledgedIsAccepted'
    BY <1>7 DEF SendAcknowledged, Higher
  <2>4. TicketsMatchHome'
    BY <1>7 DEF SendAcknowledged, Higher
  <2>5. FlushMeansAccepted'
    BY <1>7 DEF SendAcknowledged, Higher
  <2> QED
    BY <2>1, <2>2, <2>3, <2>4, <2>5
<1>8. ASSUME NEW g \in Groups, SendFailed(g) PROVE Inv'
  BY <1>8 DEF SendFailed
<1>9. ASSUME NEW c \in Flushers, FlushCall(c) \/ FlushReturns(c) \/ FlushExpires(c)
      PROVE  Inv'
  <2>1. FlusherTypeOK'
    BY <1>9 DEF FlushCall, FlushReturns, FlushExpires, Dirty
  <2>2. FramesOK'
    BY <1>9 DEF FlushCall, FlushReturns, FlushExpires, Dirty
  <2>3. AcknowledgedIsAccepted'
    BY <1>9 DEF FlushCall, FlushReturns, FlushExpires, Dirty
  <2>4. TicketsMatchHome'
    BY <1>9 DEF FlushCall, FlushReturns, FlushExpires, Dirty
  <2>5. FlushMeansAccepted'
    BY <1>9 DEF FlushCall, FlushReturns, FlushExpires, Dirty
  <2> QED
    BY <2>1, <2>2, <2>3, <2>4, <2>5
<1>10. ASSUME NEW g \in Groups, NEW seq \in 1..MaxSequence, HomeAccepts(g, seq)
       PROVE  Inv'
  <2>1. FlusherTypeOK'
    BY <1>10 DEF HomeAccepts, Higher
  <2>2. FramesOK'
    BY <1>10 DEF HomeAccepts, Higher
  <2>3. AcknowledgedIsAccepted'
    BY <1>10 DEF HomeAccepts, Higher
  <2>4. TicketsMatchHome'
    BY <1>10 DEF HomeAccepts, Higher
  <2>5. FlushMeansAccepted'
    BY <1>10 DEF HomeAccepts, Higher
  <2> QED
    BY <2>1, <2>2, <2>3, <2>4, <2>5
<1> QED
  BY <1>1, <1>2, <1>3, <1>4, <1>5, <1>6, <1>7, <1>8, <1>9, <1>10 DEF FlusherNext, LoopNext

LEMMA PromptStep == Inv /\ PromptInv /\ [FlusherNext]_flusherVars => PromptInv'
<1> SUFFICES ASSUME FlusherTypeOK, FramesOK, PromptInv, [FlusherNext]_flusherVars PROVE PromptInv'
  BY DEF Inv
<1> USE FlusherBounds DEF FlusherTypeOK, FramesOK, PromptInv, DirtyIsPrompt, Dirty, markVars,
      loopVars, callVars, ackVars, sendVars
<1>1. CASE UNCHANGED flusherVars
  BY <1>1 DEF flusherVars
<1>2. ASSUME NEW g \in Groups, NEW seq \in 1..MaxSequence, MarkDirty(g, seq)
      PROVE  PromptInv'
  BY <1>2 DEF MarkDirty
<1>3. ASSUME NEW s \in BOOLEAN, SetSender(s) PROVE PromptInv'
  BY <1>3 DEF SetSender
<1>4. CASE RunCancelled
  BY <1>4 DEF RunCancelled
<1>5. CASE Wake
  BY <1>5 DEF Wake
<1>6. CASE FlushDone
  BY <1>6 DEF FlushDone
<1>7. CASE TimerFires \/ Forced
  BY <1>7 DEF TimerFires, Forced, FlushStart
<1>8. ASSUME NEW g \in Groups, SendStart(g) PROVE PromptInv'
  BY <1>8 DEF SendStart
<1>9. ASSUME NEW g \in Groups, SendAcknowledged(g) PROVE PromptInv'
  <2>1. /\ latest' = latest /\ frame' = frame /\ todo' = todo /\ pc' = pc
        /\ wake' = wake /\ timer' = timer /\ sender' = sender /\ failed' = failed
        /\ backingOff' = backingOff
    BY <1>9 DEF SendAcknowledged
  <2>2. /\ acked' \in [Groups -> Nat]
        /\ acked'[g] >= frame[g]
        /\ \A h \in Groups : acked'[h] >= acked[h]
    <3>1. Higher(acked[g], frame[g]) \in Nat /\ Higher(acked[g], frame[g]) >= acked[g]
          /\ Higher(acked[g], frame[g]) >= frame[g]
      BY HigherIsMax
    <3>2. acked' = [acked EXCEPT ![g] = Higher(acked[g], frame[g])]
      BY <1>9 DEF SendAcknowledged
    <3> QED
      BY <3>1, <3>2
  <2>3. \A h \in Groups : Dirty(h)' => Dirty(h) /\ (h = g => latest[h] # frame[h])
    BY <2>1, <2>2
  <2>4. \A h \in sending : h = g
    BY <1>9 DEF SendAcknowledged
  <2> QED
    BY <2>1, <2>3, <2>4
<1>10. ASSUME NEW g \in Groups, SendFailed(g) PROVE PromptInv'
  BY <1>10 DEF SendFailed
<1>11. ASSUME NEW c \in Flushers, FlushCall(c) \/ FlushReturns(c) \/ FlushExpires(c)
       PROVE  PromptInv'
  BY <1>11 DEF FlushCall, FlushReturns, FlushExpires
<1>12. ASSUME NEW g \in Groups, NEW seq \in 1..MaxSequence, HomeAccepts(g, seq)
       PROVE  PromptInv'
  BY <1>12 DEF HomeAccepts
<1> QED
  BY <1>1, <1>2, <1>3, <1>4, <1>5, <1>6, <1>7, <1>8, <1>9, <1>10, <1>11, <1>12
     DEF FlusherNext, LoopNext

\* What Run, Flush and Home do marks nothing, and only a frame moves Home on.
LEMMA LoopMoves ==
  ASSUME LoopNext
  PROVE  /\ latest' = latest
         /\ \/ home' = home
            \/ \E g \in Groups, seq \in 1..MaxSequence : HomeAccepts(g, seq)
<1> USE DEF markVars, ackVars
<1>1. ASSUME NEW s \in BOOLEAN, SetSender(s) PROVE latest' = latest /\ home' = home
  BY <1>1 DEF SetSender
<1>2. CASE RunCancelled \/ Wake \/ TimerFires \/ Forced \/ FlushDone
  BY <1>2 DEF RunCancelled, Wake, TimerFires, Forced, FlushStart, FlushDone
<1>3. ASSUME NEW g \in Groups, SendStart(g) \/ SendAcknowledged(g) \/ SendFailed(g)
      PROVE  latest' = latest /\ home' = home
  BY <1>3 DEF SendStart, SendAcknowledged, SendFailed
<1>4. ASSUME NEW c \in Flushers, FlushCall(c) \/ FlushReturns(c) \/ FlushExpires(c)
      PROVE  latest' = latest /\ home' = home
  BY <1>4 DEF FlushCall, FlushReturns, FlushExpires
<1>5. ASSUME NEW g \in Groups, NEW seq \in 1..MaxSequence, HomeAccepts(g, seq)
      PROVE  latest' = latest
  BY <1>5 DEF HomeAccepts
<1> QED BY <1>1, <1>2, <1>3, <1>4, <1>5 DEF LoopNext

LEMMA Invariants == FlusherSpec => [](Inv /\ PromptInv)
<1> QED BY InitInv, InvStep, PromptStep, PTL DEF FlusherSpec

\* The state of the flusher keeps its shape; in particular no frame carries the
\* sequence zero.  (flush, send)
THEOREM FlusherTypes == FlusherSpec => []FlusherTypeOK
BY Invariants, PTL DEF Inv

\* The flusher never believes more than Home accepted, nor Home more than was
\* marked.  (send, MarkDirty)
THEOREM AcksAreAccepted == FlusherSpec => []AcknowledgedIsAccepted
BY Invariants, PTL DEF Inv

\* The open tickets are those that Home has not acknowledged.  (MarkDirty, send)
THEOREM TicketsAreExact == FlusherSpec => []TicketsMatchHome
BY Invariants, PTL DEF Inv

\* A Flush that returns without error got everything accepted that was dirty when
\* it was called.  (Flush)
THEOREM FlushIsHonest == FlusherSpec => []FlushMeansAccepted
BY Invariants, PTL DEF Inv

\* A release marked while the loop flushes does not wait for the interval.
\* (MarkDirty, SetSender, Run)
THEOREM MarksArePrompt == FlusherSpec => []DirtyIsPrompt
BY Invariants, PTL DEF PromptInv
=============================================================================
