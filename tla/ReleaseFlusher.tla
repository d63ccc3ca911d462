---------------------------- MODULE ReleaseFlusher ----------------------------
(***************************************************************************)
(* The flusher of concurrency releases (internal/home/                     *)
(* concurrency_release.go).  MarkDirty records the cumulative release      *)
(* sequence of a group and hands out a ticket; the Run loop sends the dirty *)
(* groups to Home and completes the tickets Home has acknowledged.  A send  *)
(* may fail before or after Home accepted the frame, and a frame given up   *)
(* may still arrive later, twice, or after a newer one.                     *)
(*                                                                         *)
(* Delays are abstracted: the timer of Run is due at once ("now") or after  *)
(* the flush interval or the backoff ("later"), and may fire in both cases. *)
(***************************************************************************)
EXTENDS Integers

CONSTANTS
  Groups,       \* release groups
  Flushers,     \* calls of Flush
  MaxSequence,  \* bound on the cumulative sequences
  MaxSenderSets \* bound on the calls of SetSender

ASSUME FlusherBounds == MaxSequence \in Nat /\ MaxSenderSets \in Nat

VARIABLES
  latest, acked,   \* releaseState.Latest and Acked, per group
  waiters,         \* the sequences with an open ticket, per group
  issued,          \* the sequences a ticket was given for, per group
  sender,          \* whether a sender is set
  senderSets,      \* calls of SetSender so far
  wake, force,     \* the two channels of capacity one
  pc,              \* Run: "select", "flush" or "returned"
  timer,           \* "now" or "later"
  backingOff,      \* the last flush failed
  todo, frame,     \* groups a flush has left, and the sequences it copied
  sending,         \* the groups of the send under way: none or one
  failed,          \* a send of this flush failed
  callers,         \* progress of each Flush
  target,          \* what was dirty when it was called
  inFlight,        \* frames on their way to Home
  home             \* the highest sequence Home accepted, per group

markVars  == <<latest, waiters, issued>>
loopVars  == <<pc, timer, backingOff, todo, frame, sending, failed>>
callVars  == <<callers, target>>
ackVars  == <<inFlight, home>>
sendVars  == <<sender, senderSets>>
flusherVars == <<acked, wake, force, markVars, loopVars, callVars, ackVars,
                 sendVars>>

Zeros == [g \in Groups |-> 0]
Dirty(g) == latest[g] > acked[g]
Higher(a, b) == IF a >= b THEN a ELSE b

FlusherInit ==
  /\ latest = Zeros /\ acked = Zeros
  /\ waiters = [g \in Groups |-> {}]
  /\ issued = [g \in Groups |-> {}]
  /\ sender = FALSE /\ senderSets = 0
  /\ wake = FALSE /\ force = FALSE
  /\ pc = "select" /\ timer = "now" /\ backingOff = FALSE
  /\ todo = {} /\ frame = Zeros /\ sending = {} /\ failed = FALSE
  /\ callers = [c \in Flushers |-> "idle"]
  /\ target = [c \in Flushers |-> Zeros]
  /\ inFlight = {} /\ home = Zeros

-----------------------------------------------------------------------------
\* A ticket for an acknowledged sequence is complete at once.
MarkDirty(g, seq) ==
  /\ issued' = [issued EXCEPT ![g] = @ \cup {seq}]
  /\ IF seq <= acked[g]
     THEN UNCHANGED <<latest, waiters>>
     ELSE /\ waiters' = [waiters EXCEPT ![g] = @ \cup {seq}]
          /\ latest' = [latest EXCEPT ![g] = Higher(@, seq)]
  /\ wake' = TRUE
  /\ UNCHANGED <<acked, force, loopVars, callVars, ackVars, sendVars>>

SetSender(s) ==
  /\ senderSets < MaxSenderSets
  /\ senderSets' = senderSets + 1
  /\ sender' = s
  /\ wake' = TRUE
  /\ UNCHANGED <<acked, force, markVars, loopVars, callVars, ackVars>>

-----------------------------------------------------------------------------
(* Run                                                                     *)

RunCancelled ==
  /\ pc = "select"
  /\ pc' = "returned"
  /\ UNCHANGED <<acked, wake, force, markVars, timer, backingOff, todo, frame,
                 sending, failed, callVars, ackVars, sendVars>>

\* The wake-up of a loop that backs off is dropped: the timer is running.
Wake ==
  /\ pc = "select"
  /\ wake
  /\ wake' = FALSE
  /\ timer' = IF backingOff THEN timer ELSE "now"
  /\ UNCHANGED <<acked, force, markVars, pc, backingOff, todo, frame, sending,
                 failed, callVars, ackVars, sendVars>>

\* flush copies what is dirty under the mutex; without a sender it does nothing.
FlushStart ==
  /\ pc = "select"
  /\ pc' = "flush"
  /\ todo' = {g \in Groups : sender /\ Dirty(g)}
  /\ frame' = latest
  /\ failed' = FALSE
  /\ UNCHANGED <<acked, wake, markVars, timer, backingOff, sending, callVars,
                 ackVars, sendVars>>

TimerFires == FlushStart /\ UNCHANGED force
Forced == force /\ FlushStart /\ force' = FALSE

SendStart(g) ==
  /\ sending = {}
  /\ g \in todo
  /\ todo' = todo \ {g}
  /\ sending' = {g}
  /\ inFlight' = inFlight \cup {<<g, frame[g]>>}
  /\ UNCHANGED <<acked, wake, force, markVars, pc, timer, backingOff, frame,
                 failed, callVars, home, sendVars>>

\* Faulty variant: only the ticket of the acknowledged sequence completes.
SendAcknowledgedExact(g) ==
  /\ g \in sending
  /\ home[g] >= frame[g]
  /\ sending' = {}
  /\ acked' = [acked EXCEPT ![g] = Higher(@, frame[g])]
  /\ waiters' = [waiters EXCEPT ![g] = @ \ {frame[g]}]
  /\ UNCHANGED <<wake, force, latest, issued, pc, timer, backingOff, todo, frame,
                 failed, callVars, ackVars, sendVars>>

\* Home's answer: acknowledge the sequence sent and complete tickets up to it.
SendAcknowledged(g) ==
  /\ g \in sending
  /\ home[g] >= frame[g]
  /\ sending' = {}
  /\ acked' = [acked EXCEPT ![g] = Higher(@, frame[g])]
  /\ waiters' = [waiters EXCEPT ![g] = {w \in @ : w > acked'[g]}]
  /\ UNCHANGED <<wake, force, latest, issued, pc, timer, backingOff, todo, frame,
                 failed, callVars, ackVars, sendVars>>

\* The request, or its answer, is lost; the next group is still tried.
SendFailed(g) ==
  /\ g \in sending
  /\ sending' = {}
  /\ failed' = TRUE
  /\ UNCHANGED <<acked, wake, force, markVars, pc, timer, backingOff, todo,
                 frame, callVars, ackVars, sendVars>>

FlushDone ==
  /\ pc = "flush"
  /\ todo = {} /\ sending = {}
  /\ pc' = "select"
  /\ timer' = "later"
  /\ backingOff' = failed
  /\ UNCHANGED <<acked, wake, force, markVars, todo, frame, sending, failed,
                 callVars, ackVars, sendVars>>

-----------------------------------------------------------------------------
(* Flush: force the loop, then poll until nothing is dirty                 *)

FlushCall(c) ==
  /\ callers[c] = "idle"
  /\ callers' = [callers EXCEPT ![c] = "polling"]
  /\ target' = [target EXCEPT ![c] = latest]
  /\ force' = TRUE
  /\ UNCHANGED <<acked, wake, markVars, loopVars, ackVars, sendVars>>

\* Faulty variant: Flush returns once its forced flush was taken.
FlushReturnsEarly(c) ==
  /\ callers[c] = "polling"
  /\ ~force /\ pc = "select"
  /\ callers' = [callers EXCEPT ![c] = "flushed"]
  /\ UNCHANGED <<acked, wake, force, markVars, loopVars, target, ackVars,
                 sendVars>>

FlushReturns(c) ==
  /\ callers[c] = "polling"
  /\ \A g \in Groups : ~Dirty(g)
  /\ callers' = [callers EXCEPT ![c] = "flushed"]
  /\ UNCHANGED <<acked, wake, force, markVars, loopVars, target, ackVars,
                 sendVars>>

FlushExpires(c) ==
  /\ callers[c] = "polling"
  /\ callers' = [callers EXCEPT ![c] = "expired"]
  /\ UNCHANGED <<acked, wake, force, markVars, loopVars, target, ackVars,
                 sendVars>>

-----------------------------------------------------------------------------
\* Home applies a cumulative frame; it stays in flight: it may come again.
HomeAccepts(g, seq) ==
  /\ <<g, seq>> \in inFlight
  /\ home' = [home EXCEPT ![g] = Higher(@, seq)]
  /\ UNCHANGED <<acked, wake, force, markVars, loopVars, callVars, inFlight,
                 sendVars>>

\* Everything but the calls of MarkDirty.
LoopNext ==
  \/ \E s \in BOOLEAN : SetSender(s)
  \/ RunCancelled \/ Wake \/ TimerFires \/ Forced \/ FlushDone
  \/ \E g \in Groups : SendStart(g) \/ SendAcknowledged(g) \/ SendFailed(g)
  \/ \E c \in Flushers : FlushCall(c) \/ FlushReturns(c) \/ FlushExpires(c)
  \/ \E g \in Groups, seq \in 1..MaxSequence : HomeAccepts(g, seq)

\* On its own the flusher may be told sequences in any order.
FlusherNext == LoopNext \/ \E g \in Groups, seq \in 1..MaxSequence : MarkDirty(g, seq)

FlusherSpec == FlusherInit /\ [][FlusherNext]_flusherVars

-----------------------------------------------------------------------------
(* Type invariant: the shape of the flusher's state.                       *)
FlusherTypeOK ==
  /\ latest \in [Groups -> 0..MaxSequence] /\ acked \in [Groups -> 0..MaxSequence]
  /\ home \in [Groups -> 0..MaxSequence]
  /\ waiters \in [Groups -> SUBSET (1..MaxSequence)]
  /\ issued \in [Groups -> SUBSET (1..MaxSequence)]
  /\ wake \in BOOLEAN /\ force \in BOOLEAN /\ sender \in BOOLEAN
  /\ backingOff \in BOOLEAN /\ failed \in BOOLEAN
  /\ senderSets \in 0..MaxSenderSets
  /\ pc \in {"select", "flush", "returned"} /\ timer \in {"now", "later"}
  /\ todo \subseteq Groups /\ sending \subseteq Groups
  /\ frame \in [Groups -> 0..MaxSequence]
  /\ inFlight \subseteq Groups \X (1..MaxSequence)
  /\ callers \in [Flushers -> {"idle", "polling", "flushed", "expired"}]
  /\ target \in [Flushers -> [Groups -> 0..MaxSequence]]

(* The flusher never believes Home has more than Home accepted, and Home    *)
(* never has more than was marked, whatever frames are lost, repeated or    *)
(* overtaken: no slot is freed before its execution was released.           *)
AcknowledgedIsAccepted ==
  \A g \in Groups : acked[g] <= home[g] /\ home[g] <= latest[g]

(* The open tickets are exactly those of sequences Home has not             *)
(* acknowledged: one that is complete was accepted by Home, and none is     *)
(* forgotten when a later sequence overtakes it.                            *)
TicketsMatchHome ==
  \A g \in Groups : waiters[g] = {seq \in issued[g] : seq > acked[g]}

(* A release marked while the loop is flushing is not left for the whole    *)
(* flush interval: unless the loop backs off or has no sender, a dirty      *)
(* group means that a wake-up is pending or the timer is due now.           *)
DirtyIsPrompt ==
  pc = "select" /\ ~backingOff /\ sender /\ (\E g \in Groups : Dirty(g))
    => wake \/ timer = "now"

(* Flush returns without error only when Home has accepted everything that  *)
(* was dirty at its call.                                                   *)
FlushMeansAccepted ==
  \A c \in Flushers, g \in Groups :
    callers[c] = "flushed" => home[g] >= target[c][g]
=============================================================================
