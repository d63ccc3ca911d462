--------------------------- MODULE CredentialProofs ---------------------------
(***************************************************************************)
(* What is proved of the copies of a credential: its file and the manager   *)
(* (AuthPersistence), the scheduler and the cooldown files                  *)
(* (CredentialScheduler), the counts of the models it serves                *)
(* (ModelRegistry).                                                        *)
(***************************************************************************)
EXTENDS AuthPersistence, CredentialScheduler, ModelRegistry, FiniteSetTheorems,
        SequenceTheorems, TLAPS

(***************************************************************************)
(* The file and the manager agree when all are done, for any number of      *)
(* goroutines, tokens and operations.  The argument: when they do not       *)
(* agree, something that will tell one of the other is on its way           *)
(* (OnTheWay).  Two of these messengers may be refused, and then another    *)
(* one is on its way: a disabled copy is not written to a file that is gone *)
(* (NoFileToWrite), and an update of an auth that was removed does nothing  *)
(* (UpdateInVain).                                                         *)
(***************************************************************************)

Contents_ == {Missing} \cup [token : Nat \ {0}, off : BOOLEAN]
SavingPlaces == {"save", "release", "write", "rewrite", "queue"}
Deleting == {"record", "forget"}
Applying == {"look", "register", "update"}
Receiving == Deleting \cup Applying
ClerkPlaces == {"idle", "refresh", "inspect", "edited"} \cup SavingPlaces \cup Receiving

PersistTypes ==
  /\ stored \in Contents_ /\ hashed \in Contents_ /\ kept \in Contents_
  /\ snapshot \in Contents_
  /\ buried \in BOOLEAN /\ misled \in BOOLEAN /\ minted \in Nat
  /\ hand \in [Writers \cup {Consumer} ->
       [at : ClerkPlaces \cup {"disable"}, copy : Contents_]]
  /\ \A t \in Writers :
       /\ hand[t].at # "disable"
       /\ hand[t].at \in SavingPlaces \cup {"refresh", "inspect", "edited", "look", "register", "update"}
            => hand[t].copy # Missing
       /\ hand[t].at = "idle" => hand[t] = AtRest

\* What the consumer applies is what the watcher hashed.
ConsumerKnows ==
  LET c == hand[Consumer] IN
  /\ c.at \in {"idle", "disable", "look", "register", "update"}
  /\ c.at = "idle" => c = AtRest
  /\ c.at = "disable" => hashed = Missing
  /\ c.at \in {"look", "register"} => c.copy = hashed /\ hashed # Missing
  /\ c.at = "update" => \/ c.copy = hashed /\ hashed # Missing
                        \/ hashed = Missing /\ c.copy.off

ConsumerBusy == hand[Consumer].at # "idle"
WriterAt(places) == \E t \in Writers : hand[t].at \in places
\* A save that reaches the file whatever was there, and an edit that disables.
Reaches(t) ==
  \/ hand[t].at \in {"save", "release"} /\ ~hand[t].copy.off
  \/ hand[t].at \in {"write", "rewrite"}
Disables(t) == hand[t].at = "edited" /\ hand[t].copy.off

UpdateInVain ==
  /\ hand[Consumer].at = "update" /\ hashed # Missing
  /\ kept = Missing /\ buried /\ stored = hashed
  => misled

NoFileToWrite ==
  stored = Missing /\ kept # Missing /\ ~kept.off =>
    \/ misled \/ hashed # Missing \/ ConsumerBusy \/ WriterAt(Receiving)
    \/ \E t \in Writers : Reaches(t) \/ Disables(t)

Agree == IF stored = Missing THEN kept = Missing \/ kept.off ELSE kept = stored

OnTheWay ==
  \/ misled \/ Agree \/ hashed # stored \/ ConsumerBusy
  \/ WriterAt(SavingPlaces \cup Applying) \/ snapshot # Missing
  \/ stored = Missing /\ \E t \in Writers : hand[t].at \in Deleting \/ Disables(t)

PersistInv ==
  /\ PersistTypes /\ ConsumerKnows /\ UpdateInVain /\ NoFileToWrite /\ OnTheWay

LEMMA PersistInitInv == PersistInit => PersistInv
<1> SUFFICES ASSUME PersistInit PROVE PersistInv
  OBVIOUS
<1>1. /\ stored = [token |-> 1, off |-> FALSE] /\ hashed = stored /\ kept = stored
      /\ snapshot = Missing
      /\ hand = [t \in Writers \cup {Consumer} |-> AtRest]
      /\ buried = FALSE /\ minted = 1 /\ misled = FALSE
  BY DEF PersistInit, Token
<1>2. PersistTypes
  BY <1>1, PersistenceBounds
     DEF PersistTypes, Contents_, AtRest, ClerkPlaces, SavingPlaces, Receiving, Deleting, Applying, Deleting,
         Applying, Missing, Writers
<1>3. stored # Missing
  BY <1>1 DEF Missing
<1> QED
  BY <1>1, <1>2, <1>3
     DEF PersistInv, ConsumerKnows, UpdateInVain, NoFileToWrite, OnTheWay, Agree, AtRest

-----------------------------------------------------------------------------
(* What the steps of a writer have in common.                              *)

\* Its hand alone changes, to a place with a copy that fits it.
Steps(t) ==
  /\ \A u \in (Writers \cup {Consumer}) \ {t} : hand'[u] = hand[u]
  /\ hand' \in [Writers \cup {Consumer} -> [at : ClerkPlaces \cup {"disable"}, copy : Contents_]]

LEMMA HandStep ==
  ASSUME PersistTypes, NEW t \in Writers \cup {Consumer},
         NEW place_ \in ClerkPlaces \cup {"disable"}, NEW content \in Contents_,
         HandTo(t, place_, content)
  PROVE  Steps(t) /\ hand'[t].at = place_ /\ hand'[t].copy = content
BY DEF PersistTypes, HandTo, Steps

LEMMA RestStep ==
  ASSUME PersistTypes, NEW t \in Writers \cup {Consumer}, Rest(t)
  PROVE  Steps(t) /\ hand'[t] = AtRest /\ hand'[t].at = "idle"
BY DEF PersistTypes, Rest, Steps, AtRest, ClerkPlaces, Contents_

\* A messenger stays one while its writer stays where it is.
LEMMA OtherWritersStay ==
  ASSUME NEW t \in Writers, Steps(t)
  PROVE  /\ hand'[Consumer] = hand[Consumer]
         /\ \A places : WriterAt(places) /\ hand[t].at \notin places => WriterAt(places)'
         /\ \A u \in Writers \ {t} : (Reaches(u) <=> Reaches(u)') /\ (Disables(u) <=> Disables(u)')
<1>1. \A u \in Writers \ {t} : hand'[u] = hand[u]
  BY DEF Steps
<1>2. hand'[Consumer] = hand[Consumer]
  BY PersistenceBounds DEF Steps
<1> QED
  BY <1>1, <1>2 DEF WriterAt, Reaches, Disables

\* A clerk that changes neither the file nor the manager, and brings nothing to either.
LEMMA QuietStep ==
  ASSUME PersistInv, NEW t \in Clerks, Steps(t),
         hand[t].at \notin SavingPlaces \cup Receiving,
         Disables(t) => kept = Missing,
         \/ hand'[t] = AtRest
         \/ /\ hand'[t].at \in {"refresh", "inspect", "edited"} /\ hand'[t].copy # Missing,
         minted' \in Nat,
         UNCHANGED <<stored, hashed, kept, buried, snapshot, misled>>
  PROVE  PersistInv'
<1>0. t \in Writers
  BY DEF Writers
<1>1. PersistTypes'
  BY <1>0 DEF PersistInv, PersistTypes, SavingPlaces, AtRest, Steps
<1>2. hand'[Consumer] = hand[Consumer]
  BY <1>0, OtherWritersStay
<1>3. /\ \A places \in {Receiving, SavingPlaces \cup Applying} : WriterAt(places) => WriterAt(places)'
      /\ \A u \in Writers : Reaches(u) => Reaches(u)'
      /\ \A u \in Writers : hand[u].at \in Deleting => hand'[u].at \in Deleting
      /\ \A u \in Writers : Disables(u) => Disables(u)' \/ kept = Missing
  BY <1>0, OtherWritersStay DEF Reaches, SavingPlaces, Receiving, Deleting, Applying, Steps
<1>4. NoFileToWrite'
  BY <1>2, <1>3 DEF PersistInv, NoFileToWrite, ConsumerBusy
<1>5. OnTheWay'
  BY <1>2, <1>3 DEF PersistInv, OnTheWay, ConsumerBusy, Agree
<1> QED
  BY <1>1, <1>2, <1>4, <1>5 DEF PersistInv, ConsumerKnows, UpdateInVain

\* A clerk that has changed the manager, or not, and will save what it holds.
LEMMA ChangeStep ==
  ASSUME PersistInv, NEW t \in Clerks, Steps(t),
         hand[t].at \notin SavingPlaces \cup Receiving,
         hand'[t].copy \in Contents_ \ {Missing}, kept' = hand'[t].copy,
         \/ hand'[t].at \in {"save", "release"}
         \/ /\ hand'[t].at = "queue" /\ kept # Missing /\ (kept.off => kept'.off)
            /\ hand[t].at # "edited",
         minted' \in Nat, buried' = buried,
         UNCHANGED <<stored, hashed, snapshot, misled>>
  PROVE  PersistInv'
<1>0. t \in Writers
  BY DEF Writers
<1>1. PersistTypes'
  BY <1>0 DEF PersistInv, PersistTypes, SavingPlaces, AtRest, Steps
<1>2. hand'[Consumer] = hand[Consumer]
  BY <1>0, OtherWritersStay
<1>3. /\ WriterAt(Receiving) => WriterAt(Receiving)'
      /\ \A u \in Writers : Reaches(u) => Reaches(u)'
      /\ \A u \in Writers : Disables(u) => Disables(u)' \/ (u = t /\ hand[t].at = "edited")
      /\ WriterAt(SavingPlaces \cup Applying)'
  <2>1. WriterAt(Receiving) => WriterAt(Receiving)'
    BY <1>0, OtherWritersStay
  <2>2. \A u \in Writers : Reaches(u) => Reaches(u)'
    BY <1>0, OtherWritersStay DEF Reaches, SavingPlaces
  <2>3. \A u \in Writers : Disables(u) => Disables(u)' \/ (u = t /\ hand[t].at = "edited")
    BY <1>0, OtherWritersStay DEF Disables
  <2>4. WriterAt(SavingPlaces \cup Applying)'
    BY <1>0 DEF WriterAt, SavingPlaces
  <2> QED
    BY <2>1, <2>2, <2>3, <2>4
<1>4. NoFileToWrite'
  <2>1. CASE hand'[t].at \in {"save", "release"}
    BY <1>0, <2>1 DEF NoFileToWrite, Reaches
  <2>2. CASE hand'[t].at = "queue"
    BY <1>2, <1>3, <2>2 DEF PersistInv, NoFileToWrite, ConsumerBusy
  <2> QED
    BY <2>1, <2>2
<1> QED
  BY <1>1, <1>2, <1>3, <1>4
     DEF PersistInv, ConsumerKnows, UpdateInVain, OnTheWay, ConsumerBusy

-----------------------------------------------------------------------------
(* The steps of the component.                                             *)

LEMMA RefreshStep ==
  ASSUME PersistInv, NEW t \in Clerks, NEW place_ \in {"refresh", "inspect"},
         StartRefresh(t, place_) \/ RefreshFails(t) \/ StartEdit(t)
  PROVE  PersistInv'
<1>0. t \in Writers
  BY DEF Writers
<1> USE <1>0 DEF PersistInv
<1>1. /\ UNCHANGED <<stored, hashed, kept, buried, snapshot, misled>>
      /\ hand[t].at \notin SavingPlaces \cup Receiving /\ minted' \in Nat
      /\ ~Disables(t)
  BY DEF StartRefresh, RefreshFails, StartEdit, Starts, holder, bounds, SavingPlaces,
     Receiving, Deleting, Applying, Disables, PersistTypes
<1>2. CASE StartRefresh(t, place_)
  <2>1. HandTo(t, place_, kept) /\ kept \in Contents_ \ {Missing} /\ place_ \in ClerkPlaces
    BY <1>2 DEF StartRefresh, PersistTypes, ClerkPlaces
  <2>2. Steps(t) /\ hand'[t].at = place_ /\ hand'[t].copy = kept
    BY <2>1, HandStep
  <2> QED
    BY <1>1, <2>1, <2>2, QuietStep
<1>3. CASE RefreshFails(t)
  <2>1. Steps(t) /\ hand'[t] = AtRest
    BY <1>3, RestStep DEF RefreshFails
  <2> QED
    BY <1>1, <2>1, QuietStep
<1>4. CASE StartEdit(t)
  <2> DEFINE edited == [kept EXCEPT !.off = ~@]
  <2>1. kept \in [token : Nat \ {0}, off : BOOLEAN]
    BY <1>4 DEF StartEdit, PersistTypes, Contents_
  <2>2. edited \in Contents_ \ {Missing}
    BY <2>1 DEF Contents_, Missing
  <2>3. HandTo(t, "edited", edited) /\ "edited" \in ClerkPlaces
    BY <1>4 DEF StartEdit, ClerkPlaces
  <2> HIDE DEF edited
  <2>4. Steps(t) /\ hand'[t].at = "edited" /\ hand'[t].copy = edited
    BY <2>2, <2>3, HandStep
  <2> QED
    BY <1>1, <2>2, <2>4, QuietStep
<1> QED
  BY <1>2, <1>3, <1>4

LEMMA UpdateStep_ ==
  ASSUME PersistInv, NEW t \in Clerks, Exchange(t) \/ WriteEdit(t)
  PROVE  PersistInv'
<1>0. t \in Writers
  BY DEF Writers
<1> USE <1>0 DEF PersistInv
<1>1. PICK content \in Contents_ \ {Missing}, place_ \in {"save", "release"} :
        /\ PutAuth(content)
        /\ IF Refused THEN Rest(t) ELSE HandTo(t, place_, content)
        /\ hand[t].at \notin SavingPlaces \cup Receiving
        /\ minted' \in Nat
        /\ UNCHANGED <<stored, hashed, snapshot, misled>>
  <2>1. CASE Exchange(t)
    <3> DEFINE renewed == [hand[t].copy EXCEPT !.token = minted']
    <3>1. minted' = minted + 1 /\ minted \in Nat /\ hand[t].at \in {"refresh", "inspect"}
      BY <2>1 DEF Exchange, PersistTypes
    <3>2. hand[t].copy \in [token : Nat \ {0}, off : BOOLEAN]
      BY <3>1 DEF PersistTypes, Contents_
    <3>3. renewed \in Contents_ \ {Missing}
      BY <3>1, <3>2 DEF Contents_, Missing
    <3>4. /\ PutAuth(renewed)
          /\ IF Refused THEN Rest(t)
             ELSE HandTo(t, IF hand[t].at = "refresh" THEN "release" ELSE "save", renewed)
          /\ UNCHANGED <<stored, hashed, snapshot, misled>>
      BY <2>1 DEF Exchange
    <3> HIDE DEF renewed
    <3> QED
      BY <3>1, <3>3, <3>4 DEF SavingPlaces, Receiving, Deleting, Applying
  <2>2. CASE WriteEdit(t)
    <3>1. /\ hand[t].at = "edited" /\ hand[t].copy \in Contents_ \ {Missing}
          /\ PutAuth(hand[t].copy) /\ minted' \in Nat
          /\ IF Refused THEN Rest(t) ELSE HandTo(t, "save", hand[t].copy)
          /\ UNCHANGED <<stored, hashed, snapshot, misled>>
      BY <2>2 DEF WriteEdit, bounds, PersistTypes
    <3> QED
      BY <3>1 DEF SavingPlaces, Receiving, Deleting, Applying
  <2> QED
    BY <2>1, <2>2
<1>2. CASE Refused
  <2>1. Steps(t) /\ hand'[t] = AtRest
    BY <1>1, <1>2, RestStep
  <2>2. UNCHANGED <<kept, buried>> /\ kept = Missing
    BY <1>1, <1>2 DEF PutAuth, Refused
  <2> QED
    BY <1>1, <2>1, <2>2, QuietStep
<1>3. CASE ~Refused
  <2>1. Steps(t) /\ hand'[t].at = place_ /\ hand'[t].copy = content
    BY <1>1, <1>3, HandStep DEF ClerkPlaces, SavingPlaces
  <2>2. kept' = content /\ buried' = buried
    BY <1>1, <1>3 DEF PutAuth, Refused
  <2> QED
    BY <1>1, <2>1, <2>2, ChangeStep
<1> QED
  BY <1>2, <1>3

LEMMA ResultStep ==
  ASSUME PersistInv, NEW t \in Clerks, StartResult(t)
  PROVE  PersistInv'
<1>0. t \in Writers
  BY DEF Writers
<1> USE <1>0 DEF PersistInv
<1>1. PICK disabled \in {kept.off, TRUE} : kept' = [kept EXCEPT !.off = disabled]
  BY DEF StartResult
<1>2. /\ hand[t].at = "idle" /\ kept # Missing /\ HandTo(t, "queue", kept')
      /\ minted' \in Nat
      /\ UNCHANGED <<stored, hashed, buried, snapshot, misled>>
  BY DEF StartResult, Starts, PersistTypes
<1>3. kept \in [token : Nat \ {0}, off : BOOLEAN]
  BY <1>2 DEF PersistTypes, Contents_
<1>4. kept' \in Contents_ \ {Missing} /\ (kept.off => kept'.off)
  BY <1>1, <1>3 DEF Contents_, Missing
<1>5. Steps(t) /\ hand'[t].at = "queue" /\ hand'[t].copy = kept'
  <2>1. PICK content \in Contents_ : content = kept'
    BY <1>4
  <2>2. HandTo(t, "queue", content) /\ "queue" \in ClerkPlaces
    BY <1>2, <2>1 DEF ClerkPlaces, SavingPlaces
  <2>3. Steps(t) /\ hand'[t].at = "queue" /\ hand'[t].copy = content
    BY <2>2, HandStep
  <2> QED
    BY <2>1, <2>3
<1> QED
  BY <1>2, <1>4, <1>5, ChangeStep DEF SavingPlaces, Receiving, Deleting, Applying

LEMMA PersistStep_ ==
  ASSUME PersistInv, NEW t \in Writers, Persist(t)
  PROVE  PersistInv'
<1> USE DEF PersistInv
<1>1. /\ hand[t].at \in {"save", "release"} /\ hand[t].copy \in Contents_ \ {Missing}
      /\ hand[t].copy.off
      /\ UNCHANGED <<stored, hashed, kept, buried, snapshot, minted, misled>>
  BY DEF Persist, holder, bounds, PersistTypes, SavingPlaces
<1>2. CASE stored = Missing
  <2>1. Steps(t) /\ hand'[t] = AtRest /\ hand'[t].at = "idle"
    BY <1>2, RestStep DEF Persist
  <2>2. PersistTypes'
    BY <1>1, <2>1 DEF PersistTypes, Steps, SavingPlaces
  <2>3. /\ hand'[Consumer] = hand[Consumer]
        /\ WriterAt(Receiving) => WriterAt(Receiving)'
        /\ \A u \in Writers : Reaches(u) \/ Disables(u) => (Reaches(u) \/ Disables(u))'
    BY <1>1, OtherWritersStay, <2>1 DEF Reaches, Disables, Receiving, Deleting, Applying
  <2>4. NoFileToWrite'
    BY <1>1, <2>3 DEF NoFileToWrite, ConsumerBusy
  <2>5. OnTheWay'
    <3>1. CASE kept = Missing \/ kept.off
      BY <1>1, <1>2, <3>1 DEF OnTheWay, Agree
    <3>2. CASE kept # Missing /\ ~kept.off
      <4>1. \/ misled' \/ hashed' # stored' \/ ConsumerBusy' \/ WriterAt(Receiving)'
            \/ \E u \in Writers : (Reaches(u) \/ Disables(u))'
        BY <1>1, <1>2, <2>4, <3>2 DEF NoFileToWrite
      <4>2. \A u \in Writers : Reaches(u)' => hand'[u].at \in SavingPlaces
        BY DEF Reaches, SavingPlaces
      <4> QED
        BY <1>1, <1>2, <4>1, <4>2 DEF OnTheWay, WriterAt, Receiving
    <3> QED
      BY <3>1, <3>2
  <2> QED
    BY <1>1, <2>2, <2>3, <2>4, <2>5 DEF ConsumerKnows, UpdateInVain
<1>3. CASE stored # Missing
  <2>1. PICK place_ \in {"write", "rewrite"} : HandTo(t, place_, hand[t].copy)
    BY <1>3 DEF Persist
  <2>2. Steps(t) /\ hand'[t].at = place_ /\ hand'[t].copy = hand[t].copy
    BY <1>1, <2>1, HandStep DEF ClerkPlaces, SavingPlaces
  <2>3. PersistTypes'
    BY <1>1, <2>2 DEF PersistTypes, Steps, SavingPlaces
  <2>4. hand'[Consumer] = hand[Consumer] /\ WriterAt(SavingPlaces \cup Applying)'
    BY <2>2, OtherWritersStay DEF WriterAt, SavingPlaces
  <2> QED
    BY <1>1, <1>3, <2>3, <2>4 DEF ConsumerKnows, UpdateInVain, NoFileToWrite, OnTheWay
<1> QED
  BY <1>2, <1>3

\* A save that reaches the file leaves it alike, or misled.
LEMMA SavedStep ==
  ASSUME PersistInv, NEW t \in Writers, SaveFile(t)
  PROVE  PersistInv'
<1> USE DEF PersistInv
<1>1. /\ hand[t].at \in SavingPlaces /\ hand[t].copy \in Contents_ \ {Missing}
      /\ stored' = hand[t].copy /\ misled' = (stored' # kept) /\ Rest(t)
      /\ UNCHANGED <<hashed, kept, buried, snapshot, minted>>
  BY DEF SaveFile, holder, bounds, PersistTypes, SavingPlaces
<1>2. Steps(t) /\ hand'[t] = AtRest /\ hand'[t].at = "idle"
  BY <1>1, RestStep
<1>3. PersistTypes'
  BY <1>1, <1>2 DEF PersistTypes, Steps, SavingPlaces
<1>4. hand'[Consumer] = hand[Consumer]
  BY <1>2, OtherWritersStay
<1> QED
  BY <1>1, <1>3, <1>4 DEF ConsumerKnows, UpdateInVain, NoFileToWrite, OnTheWay, Agree

LEMMA QueueStep ==
  ASSUME PersistInv, (\E t \in Clerks : QueuePersist(t)) \/ TakeQueued
  PROVE  PersistInv'
<1> USE DEF PersistInv
<1>1. ASSUME NEW t \in Clerks, QueuePersist(t) PROVE PersistInv'
  <2>0. t \in Writers
    BY DEF Writers
  <2>1. /\ hand[t].at = "queue" /\ hand[t].copy \in Contents_ \ {Missing}
        /\ snapshot' = hand[t].copy /\ Rest(t)
        /\ UNCHANGED <<stored, hashed, kept, buried, minted, misled>>
    BY <1>1, <2>0 DEF QueuePersist, holder, bounds, PersistTypes, SavingPlaces
  <2>2. Steps(t) /\ hand'[t] = AtRest /\ hand'[t].at = "idle"
    BY <2>0, <2>1, RestStep
  <2>3. PersistTypes'
    BY <2>0, <2>1, <2>2 DEF PersistTypes, Steps, SavingPlaces
  <2>4. /\ hand'[Consumer] = hand[Consumer]
        /\ WriterAt(Receiving) => WriterAt(Receiving)'
        /\ \A u \in Writers : Reaches(u) \/ Disables(u) => (Reaches(u) \/ Disables(u))'
    BY <2>0, <2>1, <2>2, OtherWritersStay DEF Reaches, Disables, Receiving, Deleting, Applying
  <2>5. NoFileToWrite'
    BY <2>1, <2>4 DEF NoFileToWrite, ConsumerBusy
  <2> QED
    BY <2>1, <2>3, <2>4, <2>5 DEF ConsumerKnows, UpdateInVain, OnTheWay
<1>2. CASE TakeQueued
  <2> DEFINE t == PersistLoop
  <2>1. /\ t \in Writers /\ hand[t].at = "idle" /\ snapshot \in Contents_ \ {Missing}
        /\ HandTo(t, "save", snapshot) /\ snapshot' = Missing
        /\ UNCHANGED <<stored, hashed, kept, buried, minted, misled>>
    BY <1>2 DEF TakeQueued, holder, bounds, PersistTypes, Writers
  <2> HIDE DEF t
  <2>2. Steps(t) /\ hand'[t].at = "save" /\ hand'[t].copy = snapshot
    BY <2>1, HandStep DEF ClerkPlaces, SavingPlaces
  <2>3. PersistTypes'
    BY <2>1, <2>2 DEF PersistTypes, Steps, SavingPlaces, Contents_
  <2>4. /\ hand'[Consumer] = hand[Consumer]
        /\ WriterAt(Receiving) => WriterAt(Receiving)'
        /\ \A u \in Writers : Reaches(u) \/ Disables(u) => (Reaches(u) \/ Disables(u))'
        /\ WriterAt(SavingPlaces \cup Applying)'
    <3>1. hand'[Consumer] = hand[Consumer]
      BY <2>1, <2>2, OtherWritersStay
    <3>2. WriterAt(Receiving) => WriterAt(Receiving)'
      BY <2>1, <2>2, OtherWritersStay DEF Receiving, Deleting, Applying
    <3>3. \A u \in Writers : Reaches(u) \/ Disables(u) => (Reaches(u) \/ Disables(u))'
      BY <2>1, <2>2, OtherWritersStay DEF Reaches, Disables
    <3>4. WriterAt(SavingPlaces \cup Applying)'
      BY <2>1, <2>2 DEF WriterAt, SavingPlaces
    <3> QED
      BY <3>1, <3>2, <3>3, <3>4
  <2>5. NoFileToWrite'
    BY <2>1, <2>4 DEF NoFileToWrite, ConsumerBusy
  <2> QED
    BY <2>1, <2>3, <2>4, <2>5 DEF ConsumerKnows, UpdateInVain, OnTheWay
<1> QED
  BY <1>1, <1>2

LEMMA DeleteStep ==
  ASSUME PersistInv, NEW t \in Clerks, StartDelete(t) \/ DeleteRecord(t)
  PROVE  PersistInv'
<1> USE DEF PersistInv
<1>0. t \in Writers
  BY DEF Writers
<1>1. PICK place_ \in Deleting :
        /\ HandTo(t, place_, Missing) /\ stored' = Missing
        /\ UNCHANGED <<hashed, kept, buried, snapshot, minted, misled>>
  BY DEF StartDelete, DeleteRecord, Starts, holder, bounds, Deleting
<1>2. Missing \in Contents_ /\ place_ \in ClerkPlaces
  BY DEF Contents_, ClerkPlaces, Receiving
<1>3. Steps(t) /\ hand'[t].at = place_ /\ hand'[t].copy = Missing
  BY <1>0, <1>1, <1>2, HandStep
<1>4. PersistTypes'
  BY <1>0, <1>1, <1>2, <1>3 DEF PersistTypes, Steps, SavingPlaces, Deleting
<1>5. hand'[Consumer] = hand[Consumer] /\ WriterAt(Receiving)' /\ hand'[t].at \in Deleting
  BY <1>0, <1>3, OtherWritersStay DEF WriterAt, Receiving
<1> QED
  BY <1>0, <1>1, <1>4, <1>5 DEF ConsumerKnows, UpdateInVain, NoFileToWrite, OnTheWay

LEMMA ForgetStep ==
  ASSUME PersistInv, NEW t \in Clerks, ForgetAuth(t)
  PROVE  PersistInv'
<1> USE DEF PersistInv
<1>0. t \in Writers
  BY DEF Writers
<1>1. /\ kept' = Missing /\ misled' = (misled \/ stored # Missing) /\ Rest(t)
      /\ buried' \in BOOLEAN
      /\ UNCHANGED <<stored, hashed, snapshot, minted>>
  BY DEF ForgetAuth, bounds, PersistTypes
<1>2. Steps(t) /\ hand'[t] = AtRest /\ hand'[t].at = "idle"
  BY <1>0, <1>1, RestStep
<1>3. PersistTypes'
  BY <1>0, <1>1, <1>2 DEF PersistTypes, Steps, SavingPlaces, Contents_
<1>4. hand'[Consumer] = hand[Consumer]
  BY <1>0, <1>2, OtherWritersStay
<1> QED
  BY <1>1, <1>3, <1>4 DEF ConsumerKnows, UpdateInVain, NoFileToWrite, OnTheWay, Agree

LEMMA DisableAuthStep ==
  ASSUME PersistInv, NEW t \in Clerks, DisableAuth(t)
  PROVE  PersistInv'
<1> USE DEF PersistInv
<1>0. t \in Writers /\ hand[t].at = "forget"
  BY DEF DisableAuth, Writers
<1>1. UNCHANGED <<stored, hashed, kept, buried, snapshot, minted, misled>>
  BY DEF DisableAuth, holder, bounds
<1>2. CASE kept = Missing
  <2>1. Steps(t) /\ hand'[t] = AtRest /\ hand'[t].at = "idle"
    BY <1>0, <1>2, RestStep DEF DisableAuth
  <2>2. PersistTypes'
    BY <1>0, <1>1, <2>1 DEF PersistTypes, Steps, SavingPlaces
  <2>3. /\ hand'[Consumer] = hand[Consumer]
        /\ WriterAt(SavingPlaces \cup Applying) => WriterAt(SavingPlaces \cup Applying)'
    BY <1>0, <2>1, OtherWritersStay DEF SavingPlaces, Applying
  <2> QED
    BY <1>1, <1>2, <2>2, <2>3
       DEF ConsumerKnows, UpdateInVain, NoFileToWrite, OnTheWay, ConsumerBusy, Agree
<1>3. CASE kept # Missing
  <2> DEFINE content == [kept EXCEPT !.off = TRUE]
  <2>1. kept \in [token : Nat \ {0}, off : BOOLEAN]
    BY <1>3 DEF PersistTypes, Contents_
  <2>2. content \in Contents_ \ {Missing} /\ content.off
    BY <2>1 DEF Contents_, Missing
  <2>3. HandTo(t, "edited", content) /\ "edited" \in ClerkPlaces
    BY <1>3 DEF DisableAuth, ClerkPlaces
  <2> HIDE DEF content
  <2>4. Steps(t) /\ hand'[t].at = "edited" /\ hand'[t].copy = content
    BY <1>0, <2>2, <2>3, HandStep
  <2>5. PersistTypes'
    BY <1>0, <1>1, <2>2, <2>4 DEF PersistTypes, Steps, SavingPlaces
  <2>6. /\ hand'[Consumer] = hand[Consumer] /\ Disables(t)'
        /\ WriterAt(SavingPlaces \cup Applying) => WriterAt(SavingPlaces \cup Applying)'
    BY <1>0, <2>2, <2>4, OtherWritersStay DEF SavingPlaces, Applying, Disables
  <2>7. OnTheWay'
    BY <1>0, <1>1, <2>6 DEF OnTheWay, ConsumerBusy, Agree
  <2> QED
    BY <1>0, <1>1, <2>5, <2>6, <2>7 DEF ConsumerKnows, UpdateInVain, NoFileToWrite
<1> QED
  BY <1>2, <1>3

LEMMA NewFileStep ==
  ASSUME PersistInv, NEW t \in Clerks, NewFile(t)
  PROVE  PersistInv'
<1>0. t \in Writers
  BY DEF Writers
<1> USE <1>0 DEF PersistInv
<1>1. /\ minted' = minted + 1 /\ stored' = Token(minted', FALSE)
      /\ Rest(t) \/ HandTo(t, "look", stored')
      /\ misled' = (stored' # kept) /\ hand[t].at = "idle"
      /\ UNCHANGED <<hashed, kept, buried, snapshot>>
  BY DEF NewFile, Starts, holder
<1>2. minted' \in Nat /\ stored' \in Contents_ \ {Missing}
  BY <1>1 DEF PersistTypes, Contents_, Token, Missing
<1>3. Steps(t) /\ (hand'[t] = AtRest \/ (hand'[t].at = "look" /\ hand'[t].copy # Missing))
  <2>1. CASE Rest(t)
    BY <2>1, RestStep
  <2>2. CASE HandTo(t, "look", stored')
    <3>1. PICK content \in Contents_ : content = stored'
      BY <1>2
    <3>2. HandTo(t, "look", content) /\ "look" \in ClerkPlaces
      BY <2>2, <3>1 DEF ClerkPlaces, Receiving, Deleting, Applying
    <3>3. Steps(t) /\ hand'[t].at = "look" /\ hand'[t].copy = content
      BY <3>2, HandStep
    <3> QED
      BY <1>2, <3>1, <3>3
  <2> QED
    BY <1>1, <2>1, <2>2
<1>4. PersistTypes'
  BY <1>1, <1>2, <1>3, PersistenceBounds DEF PersistTypes, Steps, SavingPlaces, AtRest
<1>5. hand'[Consumer] = hand[Consumer]
  BY <1>3, PersistenceBounds DEF Steps
<1> QED
  BY <1>1, <1>2, <1>4, <1>5 DEF ConsumerKnows, UpdateInVain, NoFileToWrite, OnTheWay, Agree

LEMMA NoticeStep ==
  ASSUME PersistInv, Notice
  PROVE  PersistInv'
<1> USE DEF PersistInv
<1>1. PICK place_ \in {"disable", "look"} :
        /\ place_ = IF stored = Missing THEN "disable" ELSE "look"
        /\ HandTo(Consumer, place_, stored)
        /\ hashed' = stored /\ misled' = FALSE
        /\ UNCHANGED <<stored, kept, buried, snapshot, minted>>
  BY DEF Notice, holder, bounds
<1>2. Steps(Consumer) /\ hand'[Consumer].at = place_ /\ hand'[Consumer].copy = stored
  <2>1. stored \in Contents_ /\ place_ \in ClerkPlaces \cup {"disable"}
    BY DEF PersistTypes, ClerkPlaces, Receiving, Deleting, Applying
  <2> QED
    BY <1>1, <2>1, HandStep
<1>3. PersistTypes'
  BY <1>1, <1>2, PersistenceBounds DEF PersistTypes, Steps
<1> QED
  BY <1>1, <1>2, <1>3 DEF ConsumerKnows, UpdateInVain, NoFileToWrite, OnTheWay, ConsumerBusy

LEMMA LookStep ==
  ASSUME PersistInv, NEW t \in Clerks \cup {Consumer}, Look(t)
  PROVE  PersistInv'
<1>0. t \in Writers \cup {Consumer}
  BY DEF Writers
<1> USE <1>0 DEF PersistInv
<1>1. PICK place_ \in {"register", "update"} :
        /\ hand[t].at = "look" /\ place_ = IF kept = Missing THEN "register" ELSE "update"
        /\ HandTo(t, place_, hand[t].copy)
        /\ UNCHANGED <<stored, hashed, kept, buried, snapshot, minted, misled>>
  BY DEF Look, holder, bounds
<1>2. Steps(t) /\ hand'[t].at = place_ /\ hand'[t].copy = hand[t].copy
  <2>1. hand[t].copy \in Contents_ /\ place_ \in ClerkPlaces
    BY DEF PersistTypes, ClerkPlaces, Receiving, Deleting, Applying
  <2> QED
    BY <1>1, <2>1, HandStep
<1>3. PersistTypes'
  BY <1>1, <1>2, PersistenceBounds DEF PersistTypes, Steps, SavingPlaces
<1>4. ConsumerKnows' /\ UpdateInVain' /\ (ConsumerBusy => ConsumerBusy')
  BY <1>1, <1>2, PersistenceBounds DEF ConsumerKnows, UpdateInVain, ConsumerBusy, Steps
<1>5. /\ \A places \in {Receiving, SavingPlaces \cup Applying, Deleting} :
           WriterAt(places) => WriterAt(places)'
      /\ \A u \in Writers : Reaches(u) \/ Disables(u) => (Reaches(u) \/ Disables(u))'
  <2>1. CASE t = Consumer
    <3>1. \A u \in Writers : hand'[u] = hand[u]
      BY <1>2, <2>1, PersistenceBounds DEF Steps
    <3> QED
      BY <3>1 DEF WriterAt, Reaches, Disables
  <2>2. CASE t \in Writers
    <3>1. \A u \in Writers \ {t} : hand'[u] = hand[u]
      BY <1>2 DEF Steps
    <3>2. /\ hand'[t].at \in Applying /\ Applying \subseteq Receiving
          /\ hand[t].at \notin Deleting
      BY <1>1, <1>2 DEF Applying, Receiving, Deleting
    <3>3. ~Reaches(t) /\ ~Disables(t)
      BY <1>1 DEF Reaches, Disables
    <3> QED
      BY <2>2, <3>1, <3>2, <3>3 DEF WriterAt, Reaches, Disables
  <2> QED
    BY <2>1, <2>2
<1>6. NoFileToWrite'
  BY <1>1, <1>4, <1>5 DEF NoFileToWrite
<1>7. OnTheWay'
  <2>1. (\E u \in Writers : hand[u].at \in Deleting \/ Disables(u))
           => WriterAt(Deleting)' \/ \E u \in Writers : (Reaches(u) \/ Disables(u))'
    BY <1>5 DEF WriterAt
  <2>2. (\E u \in Writers : Reaches(u)') => WriterAt(SavingPlaces \cup Applying)'
    BY DEF WriterAt, Reaches, SavingPlaces
  <2> QED
    BY <1>1, <1>4, <1>5, <2>1, <2>2 DEF OnTheWay, Agree, WriterAt
<1> QED
  BY <1>1, <1>3, <1>4, <1>6, <1>7

LEMMA DisableStep ==
  ASSUME PersistInv, NEW t \in Clerks \cup {Consumer}, LookToDisable(t)
  PROVE  PersistInv'
<1>0. t \in Writers \cup {Consumer}
  BY DEF Writers
<1> USE <1>0 DEF PersistInv
<1>1. /\ t = Consumer /\ hashed = Missing /\ hand[Consumer].at = "disable"
      /\ UNCHANGED <<stored, hashed, kept, buried, snapshot, minted, misled>>
  BY DEF LookToDisable, PersistTypes, ConsumerKnows, holder, bounds
<1>2. CASE kept = Missing
  <2>1. Steps(Consumer) /\ hand'[Consumer] = AtRest /\ hand'[Consumer].at = "idle"
    BY <1>1, <1>2, RestStep DEF LookToDisable
  <2>2. PersistTypes'
    BY <1>1, <2>1, PersistenceBounds DEF PersistTypes, Steps
  <2> QED
    BY <1>1, <1>2, <2>1, <2>2
       DEF ConsumerKnows, UpdateInVain, NoFileToWrite, OnTheWay, Agree
<1>3. CASE kept # Missing
  <2> DEFINE content == [kept EXCEPT !.off = TRUE]
  <2>1. kept \in [token : Nat \ {0}, off : BOOLEAN]
    BY <1>3 DEF PersistTypes, Contents_
  <2>2. content \in Contents_ /\ content.off
    BY <2>1 DEF Contents_
  <2>3. HandTo(Consumer, "update", content) /\ "update" \in ClerkPlaces
    BY <1>1, <1>3 DEF LookToDisable, ClerkPlaces, Receiving, Deleting, Applying
  <2> HIDE DEF content
  <2>4. Steps(Consumer) /\ hand'[Consumer].at = "update" /\ hand'[Consumer].copy = content
    BY <2>2, <2>3, HandStep
  <2>5. PersistTypes'
    BY <1>1, <2>4, PersistenceBounds DEF PersistTypes, Steps
  <2> QED
    BY <1>1, <2>2, <2>4, <2>5
       DEF ConsumerKnows, UpdateInVain, NoFileToWrite, OnTheWay, ConsumerBusy
<1> QED
  BY <1>2, <1>3

LEMMA ApplyStep ==
  ASSUME PersistInv, NEW t \in Clerks \cup {Consumer}, Apply(t)
  PROVE  PersistInv'
<1>0. t \in Writers \cup {Consumer}
  BY DEF Writers
<1> USE <1>0 DEF PersistInv
<1>1. /\ hand[t].at \in {"register", "update"}
      /\ \/ kept' = hand[t].copy
         \/ hand[t].at = "update" /\ Refused /\ kept' = Missing
      /\ buried' \in BOOLEAN /\ misled' = (misled \/ (t \in Clerks /\ stored # kept'))
      /\ Rest(t)
      /\ UNCHANGED <<stored, hashed, snapshot, minted>>
  BY DEF Apply, PutAuth, Refused, bounds, PersistTypes
<1>2. Steps(t) /\ hand'[t] = AtRest /\ hand'[t].at = "idle"
  BY <1>1, RestStep
<1>3. kept' \in Contents_
  BY <1>1 DEF PersistTypes, Contents_
<1>4. PersistTypes'
  BY <1>1, <1>2, <1>3, PersistenceBounds DEF PersistTypes, Steps, SavingPlaces
<1>5. CASE t \in Clerks
  <2>1. hand'[Consumer] = hand[Consumer]
    BY <1>2, <1>5, PersistenceBounds DEF Steps, Writers
  <2> QED
    BY <1>1, <1>4, <1>5, <2>1 DEF ConsumerKnows, UpdateInVain, NoFileToWrite, OnTheWay, Agree
<1>6. CASE t = Consumer
  <2>1. misled' = misled /\ hand'[Consumer] = AtRest /\ AtRest.at = "idle"
    BY <1>1, <1>2, <1>6, PersistenceBounds DEF AtRest, PersistTypes, Writers
  <2>2. CASE kept' = hashed /\ hashed # Missing
    BY <1>1, <1>4, <2>1, <2>2 DEF ConsumerKnows, UpdateInVain, NoFileToWrite, OnTheWay, Agree
  <2>3. CASE hashed = Missing /\ kept'.off
    BY <1>1, <1>4, <2>1, <2>3 DEF ConsumerKnows, UpdateInVain, NoFileToWrite, OnTheWay, Agree
  <2>4. CASE hand[t].at = "update" /\ Refused /\ kept' = Missing
    BY <1>1, <1>4, <1>6, <2>1, <2>4
       DEF ConsumerKnows, UpdateInVain, NoFileToWrite, OnTheWay, Agree, Refused
  <2> QED
    BY <1>1, <1>6, <2>2, <2>3, <2>4 DEF ConsumerKnows
<1> QED
  BY <1>5, <1>6

LEMMA PersistInductive == PersistInv /\ [PersistNext]_persistVars => PersistInv'
<1> SUFFICES ASSUME PersistInv, [PersistNext]_persistVars PROVE PersistInv'
  OBVIOUS
<1>1. CASE UNCHANGED persistVars
  BY <1>1
     DEF PersistInv, PersistTypes, ConsumerKnows, UpdateInVain, NoFileToWrite, OnTheWay,
         ConsumerBusy, WriterAt, Reaches, Disables, Agree, persistVars
<1>2. ASSUME NEW t \in Clerks,
             \/ \E place_ \in {"refresh", "inspect"} : StartRefresh(t, place_)
             \/ RefreshFails(t) \/ StartEdit(t)
      PROVE PersistInv'
  BY <1>2, RefreshStep
<1>3. ASSUME NEW t \in Clerks, Exchange(t) \/ WriteEdit(t) PROVE PersistInv'
  BY <1>3, UpdateStep_
<1>4. ASSUME NEW t \in Clerks, StartResult(t) PROVE PersistInv'
  BY <1>4, ResultStep
<1>5. ASSUME NEW t \in Writers, Persist(t) \/ SaveFile(t) PROVE PersistInv'
  BY <1>5, PersistStep_, SavedStep
<1>6. ASSUME TakeQueued \/ \E t \in Clerks : QueuePersist(t) PROVE PersistInv'
  BY <1>6, QueueStep
<1>7. ASSUME NEW t \in Clerks,
             StartDelete(t) \/ DeleteRecord(t) \/ ForgetAuth(t) \/ DisableAuth(t) \/ NewFile(t)
      PROVE PersistInv'
  BY <1>7, DeleteStep, ForgetStep, DisableAuthStep, NewFileStep
<1>8. CASE Notice
  BY <1>8, NoticeStep
<1>9. ASSUME NEW t \in Clerks \cup {Consumer}, Look(t) \/ LookToDisable(t) \/ Apply(t)
      PROVE PersistInv'
  BY <1>9, LookStep, DisableStep, ApplyStep
<1> QED
  BY <1>1, <1>2, <1>3, <1>4, <1>5, <1>6, <1>7, <1>8, <1>9 DEF PersistNext

(***************************************************************************)
(* Whatever refreshes, edits, results, deletions, logins and uploads of one *)
(* credential overlap, its file and the manager agree when all of them and  *)
(* the watcher are done, unless the last save was of a copy that the        *)
(* manager had replaced.  (Manager.Update, MarkResult, persist,             *)
(* deleteAuthFileByName, writeAuthFile, applyCoreAuthAddOrUpdate)           *)
(***************************************************************************)
THEOREM FileAndManagerAgree == PersistSpec => []FileMatchesManager
<1>1. PersistInv => FileMatchesManager
  <2> SUFFICES ASSUME PersistInv, AllDone, ~misled PROVE Agree
    BY DEF FileMatchesManager, Agree
  <2>1. /\ hashed = stored /\ snapshot = Missing
        /\ \A t \in Writers \cup {Consumer} : hand[t].at = "idle"
    BY DEF AllDone, AtRest
  <2> QED
    BY <2>1
       DEF PersistInv, OnTheWay, ConsumerBusy, WriterAt, Disables, SavingPlaces, Receiving, Deleting, Applying
<1> QED
  BY <1>1, PersistInitInv, PersistInductive, PTL DEF PersistSpec

\* Every copy has one of the first n tokens, or is none.
Copies_(n) == {Missing} \cup [token : 1..n, off : BOOLEAN]

InHands(n) ==
  /\ DOMAIN hand = Writers \cup {Consumer}
  /\ \A t \in Writers \cup {Consumer} : hand[t].copy \in Copies_(n)

IssuedTo(n) ==
  /\ stored \in Copies_(n) /\ hashed \in Copies_(n) /\ kept \in Copies_(n)
  /\ snapshot \in Copies_(n) /\ InHands(n)
  /\ buried \in BOOLEAN /\ misled \in BOOLEAN /\ begun \in 0..MaxBegun

Issued == minted \in 1..MaxIssued /\ IssuedTo(minted)

\* What the operations make of a copy.
LEMMA CopiesOfCopies ==
  ASSUME NEW n \in Nat \ {0}
  PROVE  /\ Missing \in Copies_(n) /\ Token(n, FALSE) \in Copies_(n)
         /\ \A c \in Copies_(n) \ {Missing} :
              /\ c.off \in BOOLEAN
              /\ [c EXCEPT !.off = ~@] \in Copies_(n)
              /\ \A disabled \in BOOLEAN : [c EXCEPT !.off = disabled] \in Copies_(n)
         /\ \A c \in Copies_(n) : [c EXCEPT !.token = n] \in Copies_(n)
<1>1. Missing \in Copies_(n) /\ Token(n, FALSE) \in Copies_(n)
  BY DEF Copies_, Token
<1>2. \A c \in Copies_(n) \ {Missing} :
        c.off \in BOOLEAN /\ \A disabled \in BOOLEAN : [c EXCEPT !.off = disabled] \in Copies_(n)
  BY DEF Copies_
<1>3. \A c \in Copies_(n) \ {Missing} : [c EXCEPT !.off = ~@] \in Copies_(n)
  BY DEF Copies_
<1>4. \A c \in Copies_(n) : [c EXCEPT !.token = n] \in Copies_(n)
  <2>1. n \in 1..n
    OBVIOUS
  <2>2. \A c \in [token : 1..n, off : BOOLEAN] : [c EXCEPT !.token = n] \in Copies_(n)
    BY <2>1 DEF Copies_
  <2>3. \A c \in [token : {0}, off : BOOLEAN] : [c EXCEPT !.token = n] \in Copies_(n)
    BY <2>1 DEF Copies_
  <2>4. Missing \in [token : {0}, off : BOOLEAN]
    BY DEF Missing
  <2> QED
    BY <2>2, <2>3, <2>4 DEF Copies_
<1> QED
  BY <1>1, <1>2, <1>3, <1>4

LEMMA HandsHoldCopies ==
  ASSUME NEW n \in Nat \ {0}, InHands(n), NEW t \in Writers \cup {Consumer},
         Rest(t) \/ \E content \in Copies_(n) : \E place_ : HandTo(t, place_, content)
  PROVE  InHands(n)'
<1>1. CASE Rest(t)
  BY <1>1, CopiesOfCopies DEF Rest, AtRest, InHands
<1>2. ASSUME NEW place_, NEW content \in Copies_(n), HandTo(t, place_, content)
      PROVE  InHands(n)'
  <2>1. hand' = [hand EXCEPT ![t] = [at |-> place_, copy |-> content]]
    BY <1>2 DEF HandTo
  <2>2. DOMAIN hand' = DOMAIN hand
    BY <2>1
  <2>3. \A u \in Writers \cup {Consumer} :
           hand'[u] = IF u = t THEN [at |-> place_, copy |-> content] ELSE hand[u]
    BY <2>1 DEF InHands
  <2> QED
    BY <2>2, <2>3 DEF InHands
<1> QED
  BY <1>1, <1>2

\* One more token may be issued in a step, and nothing else but copies of copies is made.
LEMMA IssuedStep == Issued /\ [PersistNext]_persistVars => Issued'
<1> SUFFICES ASSUME Issued, [PersistNext]_persistVars PROVE Issued'
  OBVIOUS
<1>1. PICK n \in 1..MaxIssued : n = minted' /\ (minted = n \/ minted = n - 1)
  <2>1. minted' = minted \/ (minted' = minted + 1 /\ minted < MaxIssued)
    BY DEF PersistNext, persistVars, bounds, StartRefresh, Exchange, RefreshFails, StartEdit,
       WriteEdit, StartResult, QueuePersist, StartDelete, DeleteRecord, ForgetAuth, DisableAuth,
       NewFile, Persist, SaveFile, TakeQueued, Notice, Look, LookToDisable, Apply
  <2> QED
    BY <2>1, PersistenceBounds DEF Issued
<1>2. IssuedTo(n) /\ n \in Nat \ {0}
  <2>0. MaxIssued \in Nat \ {0}
    BY PersistenceBounds
  <2>1. n \in Nat \ {0} /\ minted \in Nat /\ minted <= n
    <3>1. minted \in 1..MaxIssued
      BY DEF Issued
    <3>2. n \in 1..MaxIssued /\ (minted = n \/ minted = n - 1)
      BY <1>1
    <3> QED
      BY <2>0, <3>1, <3>2
  <2>2. \A c \in Copies_(minted) : c \in Copies_(n)
    <3>1. 1..minted \subseteq 1..n
      BY <2>1
    <3> QED
      BY <3>1 DEF Copies_
  <2> QED
    BY <2>1, <2>2 DEF Issued, IssuedTo, InHands
<1>3. SUFFICES IssuedTo(n)'
  BY <1>1 DEF Issued
<1> DEFINE Hands(t) == Rest(t) \/ \E content \in Copies_(n) : \E place_ : HandTo(t, place_, content)
<1>4. ASSUME NEW t \in Writers \cup {Consumer}, Hands(t) PROVE InHands(n)'
  BY <1>2, <1>4, HandsHoldCopies DEF IssuedTo
<1> HIDE DEF Hands
<1>5. ASSUME NEW t \in Clerks, Starts(t) PROVE begun' \in 0..MaxBegun
  BY <1>2, <1>5, PersistenceBounds DEF IssuedTo, Starts
<1>6. /\ \A t \in Writers \cup {Consumer} : hand[t].copy \in Copies_(n)
      /\ stored \in Copies_(n) /\ kept \in Copies_(n) /\ snapshot \in Copies_(n)
  BY <1>2 DEF IssuedTo, InHands
<1>7. \A t \in Clerks : t \in Writers
  BY DEF Writers
<1> USE <1>2, <1>7, CopiesOfCopies DEF holder, bounds
<1>8. CASE UNCHANGED persistVars
  BY <1>8 DEF persistVars, InHands, IssuedTo
<1>9. ASSUME NEW t \in Clerks, NEW at_ \in {"refresh", "inspect"}, StartRefresh(t, at_)
      PROVE  IssuedTo(n)'
  <2>1. Hands(t)
    BY <1>6, <1>9 DEF StartRefresh, Hands
  <2> QED
    BY <1>4, <1>5, <1>9, <2>1 DEF StartRefresh, IssuedTo
<1>10. ASSUME NEW t \in Clerks, Exchange(t) PROVE IssuedTo(n)'
  <2> DEFINE renewed == [hand[t].copy EXCEPT !.token = n]
  <2>1. renewed \in Copies_(n)
    BY <1>6
  <2>2. /\ kept' = Missing \/ kept' = renewed
        /\ UNCHANGED <<stored, hashed, buried, snapshot, begun, misled>>
        /\ Rest(t) \/ \E place_ : HandTo(t, place_, renewed)
    BY <1>1, <1>10 DEF Exchange, PutAuth
  <2> HIDE DEF renewed
  <2>3. Hands(t)
    BY <2>1, <2>2 DEF Hands
  <2> QED
    BY <1>4, <2>1, <2>2, <2>3 DEF IssuedTo
<1>11. ASSUME NEW t \in Clerks, RefreshFails(t) PROVE IssuedTo(n)'
  <2>1. Hands(t)
    BY <1>11 DEF RefreshFails, Hands
  <2> QED
    BY <1>4, <1>11, <2>1 DEF RefreshFails, IssuedTo
<1>12. ASSUME NEW t \in Clerks, StartEdit(t) PROVE IssuedTo(n)'
  <2>1. Hands(t)
    BY <1>6, <1>12 DEF StartEdit, Hands
  <2> QED
    BY <1>4, <1>5, <1>12, <2>1 DEF StartEdit, IssuedTo
<1>13. ASSUME NEW t \in Clerks, WriteEdit(t) PROVE IssuedTo(n)'
  <2>1. Hands(t)
    BY <1>6, <1>13 DEF WriteEdit, Hands
  <2> QED
    BY <1>4, <1>6, <1>13, <2>1 DEF WriteEdit, PutAuth, IssuedTo
<1>14. ASSUME NEW t \in Clerks, StartResult(t) PROVE IssuedTo(n)'
  <2>1. kept' \in Copies_(n) /\ HandTo(t, "queue", kept')
    <3>1. PICK disabled \in {kept.off, TRUE} : kept' = [kept EXCEPT !.off = disabled]
      BY <1>14 DEF StartResult
    <3>2. kept \in Copies_(n) \ {Missing} /\ HandTo(t, "queue", kept')
      BY <1>6, <1>14 DEF StartResult
    <3>3. disabled \in BOOLEAN
      BY <3>1, <3>2
    <3> QED
      BY <3>1, <3>2, <3>3
  <2>2. Hands(t)
    BY <2>1 DEF Hands
  <2> QED
    BY <1>4, <1>5, <1>14, <2>1, <2>2 DEF StartResult, IssuedTo
<1>15. ASSUME NEW t \in Clerks, QueuePersist(t) PROVE IssuedTo(n)'
  <2>1. Hands(t)
    BY <1>15 DEF QueuePersist, Hands
  <2> QED
    BY <1>4, <1>6, <1>15, <2>1 DEF QueuePersist, IssuedTo
<1>16. ASSUME NEW t \in Writers, Persist(t) \/ SaveFile(t) PROVE IssuedTo(n)'
  <2>1. Hands(t)
    BY <1>6, <1>16 DEF Persist, SaveFile, Hands
  <2> QED
    BY <1>4, <1>6, <1>16, <2>1 DEF Persist, SaveFile, IssuedTo
<1>17. CASE TakeQueued
  <2>1. Hands(PersistLoop) /\ PersistLoop \in Writers
    BY <1>6, <1>17 DEF TakeQueued, Hands, Writers
  <2> QED
    BY <1>4, <1>17, <2>1 DEF TakeQueued, IssuedTo
<1>18. ASSUME NEW t \in Clerks, StartDelete(t) \/ DeleteRecord(t) \/ ForgetAuth(t)
       PROVE  IssuedTo(n)'
  <2>1. Hands(t)
    BY <1>18 DEF StartDelete, DeleteRecord, ForgetAuth, Hands
  <2> QED
    BY <1>4, <1>5, <1>18, <2>1 DEF StartDelete, DeleteRecord, ForgetAuth, IssuedTo
<1>19. ASSUME NEW t \in Clerks, DisableAuth(t) PROVE IssuedTo(n)'
  <2>1. Hands(t)
    BY <1>6, <1>19 DEF DisableAuth, Hands
  <2> QED
    BY <1>4, <1>19, <2>1 DEF DisableAuth, IssuedTo
<1>20. ASSUME NEW t \in Clerks, NewFile(t) PROVE IssuedTo(n)'
  <2>1. stored' = Token(n, FALSE) /\ stored' \in Copies_(n)
    BY <1>1, <1>20 DEF NewFile
  <2>2. Hands(t)
    BY <1>20, <2>1 DEF NewFile, Hands
  <2> QED
    BY <1>4, <1>5, <1>20, <2>1, <2>2 DEF NewFile, IssuedTo
<1>21. CASE Notice
  <2>1. Hands(Consumer)
    BY <1>6, <1>21 DEF Notice, Hands
  <2> QED
    BY <1>4, <1>6, <1>21, <2>1 DEF Notice, IssuedTo
<1>22. ASSUME NEW t \in Clerks \cup {Consumer}, Look(t) \/ LookToDisable(t) \/ Apply(t)
       PROVE  IssuedTo(n)'
  <2>1. Hands(t) /\ t \in Writers \cup {Consumer}
    BY <1>6, <1>22 DEF Look, LookToDisable, Apply, Hands
  <2> QED
    BY <1>4, <1>6, <1>22, <2>1 DEF Look, LookToDisable, Apply, PutAuth, IssuedTo
<1> QED
  BY <1>8, <1>9, <1>10, <1>11, <1>12, <1>13, <1>14, <1>15, <1>16, <1>17, <1>18, <1>19, <1>20,
     <1>21, <1>22 DEF PersistNext

\* Every copy of a credential, in the file, the manager, the queue or the hand of a
\* goroutine, has a token that some login, upload or refresh had issued by then, or is
\* none at all.  (persist, Manager.Update)
THEOREM PersistTypesHold == PersistSpec => []PersistTypeOK
<1>1. PersistInit => Issued
  <2> SUFFICES ASSUME PersistInit PROVE Issued
    OBVIOUS
  <2>1. MaxIssued \in Nat \ {0} /\ MaxBegun \in Nat \ {0}
    BY PersistenceBounds
  <2>2. Missing \in Copies_(1) /\ Token(1, FALSE) \in Copies_(1)
    BY DEF Copies_, Token
  <2>3. InHands(1)
    BY <2>2 DEF PersistInit, InHands, AtRest
  <2>4. IssuedTo(1)
    <3>1. 0 \in 0..MaxBegun
      BY <2>1
    <3> QED
      BY <2>2, <2>3, <3>1 DEF PersistInit, IssuedTo
  <2> QED
    BY <2>1, <2>4 DEF PersistInit, Issued
<1>2. Issued => PersistTypeOK
  BY DEF Issued, IssuedTo, InHands, PersistTypeOK, Copies_
<1> QED
  BY <1>1, <1>2, IssuedStep, PTL DEF PersistSpec

(***************************************************************************)
(* The scheduler's copies, for any number of credentials, models, callers   *)
(* and calls.                                                              *)
(***************************************************************************)

AuthStates ==
  {Gone} \cup [gone : {FALSE}, disabled : BOOLEAN, retry : [Models -> Int]]

\* What can be left of a call: an upsert to do, a result to report, files to write, a pick.
ToUpsert == {<<"upsert">>, <<"upsert", "read", "write">>}
ToReport == {<<"upsertModel">>, <<"write", "upsertModel">>, <<"read", "write", "upsertModel">>}
ToRead == {<<"upsert", "read", "write">>, <<"read", "write">>, <<"read", "write", "upsertModel">>}
ToWrite == {<<"write">>, <<"write", "upsertModel">>}
ToPick == {<<"snapshot", "rebuild", "again">>, <<"rebuild", "again">>, <<"again">>}
StepLists ==
  {<<>>, <<"update">>} \cup ToPick \cup ToUpsert \cup ToReport \cup ToRead \cup ToWrite

Tasks == [steps : StepLists, auth : Creds \cup {Nobody}, model : Models \cup {Shared},
          version : Nat, copy : AuthStates, versions : [Creds -> Nat],
          records : [Creds -> [Models -> Int]]]

HeapTypes ==
  /\ heap \in [Creds -> Seq(AuthStates)] /\ clock \in Nat
  /\ object \in [Creds -> Nat] /\ scheduled \in [Creds -> Nat] /\ newest \in [Creds -> Nat]
  /\ \A a \in Creds : /\ object[a] \in 1..Len(heap[a]) /\ scheduled[a] \in 1..newest[a]
                      /\ newest[a] <= Len(heap[a])

\* A result that will be reported left a clone of its own, of a credential that was there.
TaskTypes ==
  /\ task \in [Callers -> Tasks]
  /\ \A g \in Callers :
       /\ task[g].steps \in ToUpsert \cup ToReport =>
            task[g].auth \in Creds /\ task[g].version \in 1..Len(heap[task[g].auth])
       /\ task[g].steps \in ToReport =>
            /\ task[g].model \in Models /\ task[g].version # object[task[g].auth]
            /\ ~heap[task[g].auth][task[g].version].gone
       /\ task[g].steps = <<"update">> => task[g].auth \in Creds /\ ~task[g].copy.gone
       /\ task[g].steps \in ToPick => task[g].model \in Models
       /\ task[g].steps = <<"rebuild", "again">> =>
            \A a \in Creds : task[g].versions[a] \in 1..Len(heap[a])

\* configCooldownMu
SaverTypes ==
  /\ file \in [Creds -> [Models -> Int]]
  /\ saver \in Callers \cup {Nobody}
  /\ \A g \in Callers : task[g].steps \in ToWrite <=> saver = g

ShardTypes ==
  /\ DOMAIN shards \subseteq Models \cup {Shared}
  /\ shards = [k \in DOMAIN shards |-> shards[k]]
  /\ shared \subseteq Models

\* From this version on the credential has been what it is.
Current(a, v) == \A w \in v..Len(heap[a]) : heap[a][w] = heap[a][object[a]]
Reaching(g, a) == task[g].steps \in ToUpsert \cup ToReport /\ task[g].auth = a

\* What the credential is has reached the scheduler, or is on its way to it.
Arrives ==
  \A a \in Creds :
    \/ Current(a, newest[a])
    \/ \E g \in Callers : Reaching(g, a) /\ Current(a, task[g].version)

\* What a save will write, or has written.
Saved == IF saver = Nobody THEN file ELSE task[saver].records

OnFile ==
  \A a \in Creds, m \in Models : Cooling(a, m) =>
    \/ Saved[a][m] = Retry(a, m) \/ <<a, m>> \in revived
    \/ \E g \in Callers : task[g].steps \in ToRead

\* A newer state of the credential is on its way.
OnItsWay(a) == \E g \in Callers : Reaching(g, a) /\ task[g].version > newest[a]

MayServe(a, auth, key) ==
  Listed(auth) /\ Serves(a, key) /\ (key # Shared => auth.retry[key] <= clock)

\* A shard offers a credential that may serve, as far as the scheduler knows.
ShardsFit ==
  \A k \in DOMAIN shards, a \in Creds : shards[k][a] = 0 =>
    MayServe(a, heap[a][scheduled[a]], k) \/ OnItsWay(a)

\* Models share the common shard when every listed credential serves them.
SharedFit ==
  \A m \in shared : m \in flattened \/
    \A a \in Creds : Listed(heap[a][scheduled[a]]) => m \in Supports[a]

\* Somebody will report a cooldown of the model that is as long.
Reports(a, m, retry) ==
  \E g \in Callers :
    /\ task[g].steps \in ToReport /\ task[g].auth = a /\ task[g].model = m
    /\ heap[a][task[g].version].retry[m] >= retry
Noted(a, m, auth) ==
  ~auth.gone /\ auth.retry[m] > clock =>
    m \in DOMAIN shards \/ m \in flattened \/ Reports(a, m, auth.retry[m])

\* A model that some credential cools for has a shard of its own, or will have one.
CoolingNoted ==
  /\ \A a \in Creds, m \in Models : \A v \in 1..Len(heap[a]) : Noted(a, m, heap[a][v])
  /\ \A g \in Callers, m \in Models :
       task[g].steps = <<"update">> => Noted(task[g].auth, m, task[g].copy)

SchedInv ==
  /\ HeapTypes /\ TaskTypes /\ SaverTypes /\ ShardTypes
  /\ Arrives /\ OnFile /\ ShardsFit /\ SharedFit /\ CoolingNoted

-----------------------------------------------------------------------------
(* Helpers.                                                                *)

LEMMA FreshIsKnown ==
  Fresh \in AuthStates /\ ~Fresh.gone /\ Gone \in AuthStates /\ Gone.gone
  /\ \A m \in Models : Fresh.retry[m] = Unused
BY DEF Fresh, AuthStates, Unused, Gone

LEMMA TodoFields ==
  ASSUME NEW steps \in StepLists, NEW a \in Creds \cup {Nobody},
         NEW m \in Models \cup {Shared}, NEW version \in Nat
  PROVE  LET t == Todo(steps, a, m, version) IN
           /\ t \in Tasks /\ t.steps = steps /\ t.auth = a /\ t.model = m
           /\ t.version = version
<1>1. Fresh \in AuthStates /\ Fresh.retry \in [Models -> Int]
  BY DEF Fresh, AuthStates, Unused
<1> QED
  BY <1>1 DEF Todo, Tasks

\* What is left after a step.
LEMMA TailList ==
  ASSUME NEW steps \in StepLists \ {<<>>}
  PROVE  \/ steps = <<"update">> /\ Head(steps) = "update" /\ Tail(steps) = <<>>
         \/ /\ steps = <<"snapshot", "rebuild", "again">> /\ Head(steps) = "snapshot"
            /\ Tail(steps) = <<"rebuild", "again">>
         \/ /\ steps = <<"rebuild", "again">> /\ Head(steps) = "rebuild"
            /\ Tail(steps) = <<"again">>
         \/ steps = <<"again">> /\ Head(steps) = "again" /\ Tail(steps) = <<>>
         \/ steps = <<"upsert">> /\ Head(steps) = "upsert" /\ Tail(steps) = <<>>
         \/ /\ steps = <<"upsert", "read", "write">> /\ Head(steps) = "upsert"
            /\ Tail(steps) = <<"read", "write">>
         \/ steps = <<"upsertModel">> /\ Head(steps) = "upsertModel" /\ Tail(steps) = <<>>
         \/ /\ steps = <<"write", "upsertModel">> /\ Head(steps) = "write"
            /\ Tail(steps) = <<"upsertModel">>
         \/ /\ steps = <<"read", "write", "upsertModel">> /\ Head(steps) = "read"
            /\ Tail(steps) = <<"write", "upsertModel">>
         \/ /\ steps = <<"read", "write">> /\ Head(steps) = "read"
            /\ Tail(steps) = <<"write">>
         \/ steps = <<"write">> /\ Head(steps) = "write" /\ Tail(steps) = <<>>
<1>1. CASE steps = <<"update">>
  <2>1. Head(steps) = "update"
    BY <1>1
  <2>2. Tail(steps) = <<>>
    BY <1>1
  <2> QED
    BY <1>1, <2>1, <2>2
<1>2. CASE steps = <<"snapshot", "rebuild", "again">>
  <2>1. Head(steps) = "snapshot"
    BY <1>2
  <2>2. Tail(steps) = <<"rebuild", "again">>
    BY <1>2
  <2> QED
    BY <1>2, <2>1, <2>2
<1>3. CASE steps = <<"rebuild", "again">>
  <2>1. Head(steps) = "rebuild"
    BY <1>3
  <2>2. Tail(steps) = <<"again">>
    BY <1>3
  <2> QED
    BY <1>3, <2>1, <2>2
<1>4. CASE steps = <<"again">>
  <2>1. Head(steps) = "again"
    BY <1>4
  <2>2. Tail(steps) = <<>>
    BY <1>4
  <2> QED
    BY <1>4, <2>1, <2>2
<1>5. CASE steps = <<"upsert">>
  <2>1. Head(steps) = "upsert"
    BY <1>5
  <2>2. Tail(steps) = <<>>
    BY <1>5
  <2> QED
    BY <1>5, <2>1, <2>2
<1>6. CASE steps = <<"upsert", "read", "write">>
  <2>1. Head(steps) = "upsert"
    BY <1>6
  <2>2. Tail(steps) = <<"read", "write">>
    BY <1>6
  <2> QED
    BY <1>6, <2>1, <2>2
<1>7. CASE steps = <<"upsertModel">>
  <2>1. Head(steps) = "upsertModel"
    BY <1>7
  <2>2. Tail(steps) = <<>>
    BY <1>7
  <2> QED
    BY <1>7, <2>1, <2>2
<1>8. CASE steps = <<"write", "upsertModel">>
  <2>1. Head(steps) = "write"
    BY <1>8
  <2>2. Tail(steps) = <<"upsertModel">>
    BY <1>8
  <2> QED
    BY <1>8, <2>1, <2>2
<1>9. CASE steps = <<"read", "write", "upsertModel">>
  <2>1. Head(steps) = "read"
    BY <1>9
  <2>2. Tail(steps) = <<"write", "upsertModel">>
    BY <1>9
  <2> QED
    BY <1>9, <2>1, <2>2
<1>10. CASE steps = <<"read", "write">>
  <2>1. Head(steps) = "read"
    BY <1>10
  <2>2. Tail(steps) = <<"write">>
    BY <1>10
  <2> QED
    BY <1>10, <2>1, <2>2
<1>11. CASE steps = <<"write">>
  <2>1. Head(steps) = "write"
    BY <1>11
  <2>2. Tail(steps) = <<>>
    BY <1>11
  <2> QED
    BY <1>11, <2>1, <2>2
<1> QED
  BY <1>1, <1>2, <1>3, <1>4, <1>5, <1>6, <1>7, <1>8, <1>9, <1>10, <1>11 DEF StepLists,
     ToPick, ToUpsert, ToReport, ToRead, ToWrite

\* No list is of two kinds that exclude each other.
LEMMA Kinds ==
  /\ \A steps \in {<<>>, <<"update">>, <<"snapshot", "rebuild", "again">>,
                    <<"rebuild", "again">>, <<"again">>} :
       steps \notin ToUpsert \cup ToReport \cup ToRead \cup ToWrite
  /\ \A steps \in ToPick :
       steps # <<"update">> /\ steps \notin ToUpsert \cup ToReport \cup ToRead \cup ToWrite
  /\ <<>> \notin ToPick /\ <<"rebuild", "again">> \in ToPick
  /\ ToUpsert \cap ToReport = {} /\ ToUpsert \cap ToWrite = {} /\ ToRead \cap ToWrite = {}
  /\ <<"update">> \notin {<<>>, <<"again">>, <<"snapshot", "rebuild", "again">>,
                         <<"rebuild", "again">>}
  /\ <<"rebuild", "again">> \notin {<<>>, <<"again">>, <<"snapshot", "rebuild", "again">>}
<1>1. \A steps \in {<<>>, <<"update">>, <<"snapshot", "rebuild", "again">>,
                    <<"rebuild", "again">>, <<"again">>} :
        /\ steps \notin ToUpsert /\ steps \notin ToReport
        /\ steps \notin ToRead /\ steps \notin ToWrite
  BY DEF ToUpsert, ToReport, ToRead, ToWrite
<1>2. \A steps \in ToUpsert : steps \notin ToReport /\ steps \notin ToWrite
  BY DEF ToUpsert, ToReport, ToWrite
<1>3. \A steps \in ToRead : steps \notin ToWrite
  BY DEF ToRead, ToWrite
<1>4. \A steps \in ToPick :
        /\ steps # <<"update">> /\ steps \notin ToUpsert /\ steps \notin ToReport
        /\ steps \notin ToRead /\ steps \notin ToWrite /\ steps # <<>>
  BY DEF ToPick, ToUpsert, ToReport, ToRead, ToWrite
<1>5. <<"rebuild", "again">> \in ToPick
  BY DEF ToPick
<1> QED
  BY <1>1, <1>2, <1>3, <1>4, <1>5

\* The step of a goroutine that finishes one of its tasks.
LEMMA Stepped ==
  ASSUME SchedInv, NEW g \in Callers, task[g].steps # <<>>, NextStep(g)
  PROVE  /\ task' \in [Callers -> Tasks]
         /\ \A h \in Callers \ {g} : task'[h] = task[h]
         /\ task'[g].steps = Tail(task[g].steps)
         /\ task'[g].auth = task[g].auth /\ task'[g].model = task[g].model
         /\ task'[g].version = task[g].version /\ task'[g].copy = task[g].copy
         /\ task'[g].versions = task[g].versions /\ task'[g].records = task[g].records
<1>1. task[g] \in Tasks /\ task \in [Callers -> Tasks]
  BY DEF SchedInv, TaskTypes
<1>2. Tail(task[g].steps) \in StepLists
  BY <1>1, TailList DEF Tasks, StepLists, ToPick, ToUpsert, ToReport, ToRead, ToWrite
<1>3. task' = [task EXCEPT ![g].steps = Tail(task[g].steps)]
  BY DEF NextStep
<1> DEFINE left == Tail(task[g].steps)
<1> HIDE DEF left
<1>4. task' = [task EXCEPT ![g].steps = left] /\ left \in StepLists
  BY <1>2, <1>3 DEF left
<1>5. [task[g] EXCEPT !.steps = left] \in Tasks
  BY <1>1, <1>4 DEF Tasks
<1> QED
  BY <1>1, <1>4, <1>5 DEF Tasks, left

\* An object of the credential is changed or added, and a clone of it is the newest.
Grown(a, auth) ==
  /\ heap' \in [Creds -> Seq(AuthStates)]
  /\ \A b \in Creds \ {a} : heap'[b] = heap[b]
  /\ Len(heap'[a]) = Len(heap[a]) + 1 /\ heap'[a][Len(heap[a]) + 1] = auth
  /\ \A v \in 1..Len(heap[a]) : v # object[a] => heap'[a][v] = heap[a][v]

LEMMA Installed ==
  ASSUME HeapTypes, NEW a \in Creds, NEW auth \in AuthStates, Install(a, auth)
  PROVE  /\ Grown(a, auth) /\ heap'[a][object[a]] = heap[a][object[a]]
         /\ object' = [object EXCEPT ![a] = Len(heap[a]) + 1]
<1>1. heap' = [heap EXCEPT ![a] = Append(heap[a], auth)] /\ heap[a] \in Seq(AuthStates)
  BY DEF Install, HeapTypes
<1>2. /\ Append(heap[a], auth) \in Seq(AuthStates)
      /\ Len(Append(heap[a], auth)) = Len(heap[a]) + 1
      /\ Append(heap[a], auth)[Len(heap[a]) + 1] = auth
      /\ \A v \in 1..Len(heap[a]) : Append(heap[a], auth)[v] = heap[a][v]
  BY <1>1, AppendProperties
<1> QED
  BY <1>1, <1>2 DEF Install, HeapTypes, Grown

LEMMA ChangedInPlace ==
  ASSUME HeapTypes, NEW a \in Creds, NEW retry \in [Models -> Int], Present(a),
         InPlace(a, retry)
  PROVE  \E auth \in AuthStates :
           /\ ~auth.gone /\ auth.retry = retry
           /\ Listed(auth) = Listed(heap[a][object[a]])
           /\ Grown(a, auth) /\ heap'[a][object[a]] = auth /\ object' = object
<1> DEFINE auth == [heap[a][object[a]] EXCEPT !.retry = retry]
           changed == [heap[a] EXCEPT ![object[a]] = auth]
<1>1. heap[a] \in Seq(AuthStates) /\ object[a] \in 1..Len(heap[a])
  BY DEF HeapTypes
<1>2. heap[a][object[a]] \in AuthStates
  BY <1>1, ElementOfSeq
<1>3. heap[a][object[a]] \in [gone : {FALSE}, disabled : BOOLEAN, retry : [Models -> Int]]
  BY <1>2, FreshIsKnown DEF AuthStates, Present
<1>4. /\ auth \in AuthStates /\ ~auth.gone /\ auth.retry = retry
      /\ Listed(auth) = Listed(heap[a][object[a]])
  BY <1>3 DEF AuthStates, Listed
<1> HIDE DEF auth
<1>5. /\ changed \in Seq(AuthStates) /\ Len(changed) = Len(heap[a])
      /\ changed[object[a]] = auth
      /\ \A v \in 1..Len(heap[a]) : v # object[a] => changed[v] = heap[a][v]
  BY <1>1, <1>4
<1>6. heap' = [heap EXCEPT ![a] = Append(changed, auth)] /\ object' = object
  BY DEF InPlace, auth, HeapTypes
<1> HIDE DEF changed
<1>7. /\ Append(changed, auth) \in Seq(AuthStates)
      /\ Len(Append(changed, auth)) = Len(heap[a]) + 1
      /\ Append(changed, auth)[Len(heap[a]) + 1] = auth
      /\ \A v \in 1..Len(heap[a]) : Append(changed, auth)[v] = changed[v]
  BY <1>4, <1>5, AppendProperties
<1>8. Grown(a, auth) /\ heap'[a][object[a]] = auth
  BY <1>1, <1>5, <1>6, <1>7 DEF HeapTypes, Grown
<1> QED
  BY <1>4, <1>6, <1>8

-----------------------------------------------------------------------------
(* A call changes a credential and has its clone to bring to the scheduler.  *)

\* The object of the credential is changed, or replaced.
Changed(a, auth) ==
  /\ Grown(a, auth)
  /\ \/ object' = object /\ heap'[a][object[a]] = auth
        /\ Listed(auth) = Listed(heap[a][object[a]])
     \/ object' = [object EXCEPT ![a] = Len(heap[a]) + 1]
        /\ heap'[a][object[a]] = heap[a][object[a]]

\* What the goroutine has to do then.
Announces(g, a, auth) ==
  /\ task' \in [Callers -> Tasks] /\ \A h \in Callers \ {g} : task'[h] = task[h]
  /\ task[g].steps \in {<<>>, <<"update">>}
  /\ task'[g].auth = a /\ task'[g].version = Len(heap[a]) + 1
  /\ \/ task'[g].steps \in ToUpsert
     \/ /\ task'[g].steps \in ToReport /\ task'[g].steps \notin ToWrite
        /\ task'[g].model \in Models /\ ~auth.gone /\ object' = object

\* A cooldown that was there already is on file, or will be.
Recorded(g, a, auth) ==
  /\ revived \subseteq revived'
  /\ \A m \in Models : ~auth.gone /\ auth.retry[m] > clock =>
       \/ Present(a) /\ auth.retry[m] = Retry(a, m)
       \/ <<a, m>> \in revived' \/ task'[g].steps \in ToRead

\* It will be reported, or some state before it was as long.
Inherited(g, a, auth) ==
  \A m \in Models : ~auth.gone /\ auth.retry[m] > clock =>
    \/ task'[g].steps \in ToReport /\ task'[g].model = m
    \/ \E v \in 1..Len(heap[a]) : ~heap[a][v].gone /\ heap[a][v].retry[m] >= auth.retry[m]
    \/ /\ task[g].steps = <<"update">> /\ task[g].auth = a
       /\ task[g].copy.retry[m] >= auth.retry[m]

LEMMA HeapElements ==
  ASSUME HeapTypes, NEW a \in Creds, NEW v \in 1..Len(heap[a])
  PROVE  heap[a][v] \in AuthStates /\ (~heap[a][v].gone => heap[a][v].retry \in [Models -> Int])
<1>1. heap[a] \in Seq(AuthStates)
  BY DEF HeapTypes
<1>2. heap[a][v] \in AuthStates
  BY <1>1, ElementOfSeq
<1> QED
  BY <1>2, FreshIsKnown DEF AuthStates

LEMMA AnnounceTypes ==
  ASSUME SchedInv, NEW g \in Callers, NEW a \in Creds, NEW auth \in AuthStates,
         Changed(a, auth), Announces(g, a, auth), UNCHANGED <<index, clock, file, saver>>
  PROVE  HeapTypes' /\ TaskTypes' /\ SaverTypes' /\ ShardTypes'
<1> USE DEF SchedInv
<1>1. \A b \in Creds : Len(heap[b]) \in Nat /\ Len(heap'[b]) \in Nat /\ Len(heap[b]) <= Len(heap'[b])
  <2>1. \A b \in Creds : heap[b] \in Seq(AuthStates) /\ heap'[b] \in Seq(AuthStates)
    BY DEF HeapTypes, Changed, Grown
  <2>2. \A b \in Creds : Len(heap'[b]) = IF b = a THEN Len(heap[b]) + 1 ELSE Len(heap[b])
    BY DEF Changed, Grown
  <2>3. \A b \in Creds : Len(heap[b]) \in Nat
    BY <2>1
  <2> QED
    BY <2>2, <2>3
<1>2. HeapTypes'
  <2>1. heap' \in [Creds -> Seq(AuthStates)]
    BY DEF Changed, Grown
  <2>2. \A b \in Creds : object[b] \in Nat /\ scheduled[b] \in Nat /\ newest[b] \in Nat
    BY DEF HeapTypes
  <2>3. object' \in [Creds -> Nat] /\ \A b \in Creds : object'[b] \in 1..Len(heap'[b])
    <3>1. object \in [Creds -> Nat] /\ \A b \in Creds : object[b] \in 1..Len(heap[b])
      BY DEF HeapTypes
    <3>2. Len(heap'[a]) = Len(heap[a]) + 1
      BY DEF Changed, Grown
    <3>3. CASE object' = object
      BY <1>1, <2>2, <3>1, <3>3
    <3>4. CASE object' = [object EXCEPT ![a] = Len(heap[a]) + 1]
      <4> DEFINE n == Len(heap[a]) + 1
      <4>1. n \in Nat /\ n \in 1..Len(heap'[a])
        BY <1>1, <3>2
      <4>2. \A b \in Creds : object[b] \in 1..Len(heap'[b])
        BY <1>1, <3>1
      <4>3. object' = [object EXCEPT ![a] = n]
        BY <3>4
      <4> HIDE DEF n
      <4> QED
        BY <3>1, <4>1, <4>2, <4>3
    <3> QED
      BY <3>3, <3>4 DEF Changed
  <2>4. /\ scheduled' \in [Creds -> Nat] /\ newest' \in [Creds -> Nat] /\ clock' \in Nat
        /\ \A b \in Creds : scheduled'[b] \in 1..newest'[b] /\ newest'[b] <= Len(heap'[b])
    BY <1>1, <2>2 DEF HeapTypes, index
  <2> QED
    BY <2>1, <2>3, <2>4 DEF HeapTypes
<1>3. ASSUME NEW h \in Callers \ {g}, task[h].steps \in ToReport
      PROVE  LET b == task[h].auth  v == task[h].version IN
               v # object'[b] /\ ~heap'[b][v].gone
  <2> DEFINE b == task[h].auth  v == task[h].version
  <2>1. b \in Creds /\ v \in 1..Len(heap[b]) /\ v # object[b] /\ ~heap[b][v].gone
    BY <1>3 DEF TaskTypes
  <2>2. heap'[b][v] = heap[b][v]
    BY <2>1 DEF Changed, Grown
  <2>3. v # object'[b]
    BY <1>1, <2>1 DEF Changed, HeapTypes
  <2> QED
    BY <2>1, <2>2, <2>3
<1>4. \A h \in Callers \ {g} : task'[h] = task[h]
  BY DEF Announces
<1>5. /\ task'[g].steps \notin {<<>>, <<"update">>, <<"rebuild", "again">>} \cup ToPick
      /\ task'[g].steps \notin ToWrite /\ task[g].steps \notin ToWrite
  BY Kinds DEF Announces
<1>6. /\ task'[g].auth = a /\ task'[g].version = Len(heap[a]) + 1
      /\ Len(heap'[a]) = Len(heap[a]) + 1
      /\ task'[g].steps \in ToReport =>
           /\ task'[g].model \in Models /\ ~heap'[a][Len(heap[a]) + 1].gone
           /\ Len(heap[a]) + 1 # object'[a]
  BY <1>1, Kinds DEF Announces, Changed, Grown, HeapTypes
<1>7. TaskTypes'
  <2>1. ASSUME NEW h \in Callers \ {g}
        PROVE  /\ task[h].steps \in ToUpsert \cup ToReport =>
                    task[h].auth \in Creds /\ task[h].version \in 1..Len(heap'[task[h].auth])
               /\ task[h].steps \in ToReport => task[h].model \in Models
               /\ task[h].steps = <<"update">> => task[h].auth \in Creds /\ ~task[h].copy.gone
               /\ task[h].steps \in ToPick => task[h].model \in Models
               /\ task[h].steps = <<"rebuild", "again">> =>
                    \A b \in Creds : task[h].versions[b] \in 1..Len(heap'[b])
    BY <1>1 DEF TaskTypes
  <2>2. /\ task'[g].auth \in Creds /\ task'[g].version \in 1..Len(heap'[task'[g].auth])
        /\ task'[g].steps \in ToReport =>
             /\ task'[g].model \in Models /\ task'[g].version # object'[task'[g].auth]
             /\ ~heap'[task'[g].auth][task'[g].version].gone
    BY <1>1, <1>6
  <2>3. ASSUME NEW h \in Callers \ {g}, task[h].steps \in ToReport
        PROVE  /\ task[h].version # object'[task[h].auth]
               /\ ~heap'[task[h].auth][task[h].version].gone
    BY <1>3, <2>3
  <2>4. task' \in [Callers -> Tasks]
    BY DEF Announces
  <2>5. ASSUME NEW h \in Callers \ {g}
        PROVE  /\ task'[h].steps \in ToUpsert \cup ToReport =>
                    task'[h].auth \in Creds /\ task'[h].version \in 1..Len(heap'[task'[h].auth])
               /\ task'[h].steps \in ToReport =>
                    /\ task'[h].model \in Models /\ task'[h].version # object'[task'[h].auth]
                    /\ ~heap'[task'[h].auth][task'[h].version].gone
               /\ task'[h].steps = <<"update">> => task'[h].auth \in Creds /\ ~task'[h].copy.gone
               /\ task'[h].steps \in ToPick => task'[h].model \in Models
               /\ task'[h].steps = <<"rebuild", "again">> =>
                    \A b \in Creds : task'[h].versions[b] \in 1..Len(heap'[b])
    <3>1. task'[h] = task[h]
      BY <1>4
    <3> QED
      BY <2>1, <2>3, <3>1
  <2> QED
    BY <1>5, <2>2, <2>4, <2>5 DEF TaskTypes
<1>8. SaverTypes'
  BY <1>4, <1>5 DEF SaverTypes
<1> QED
  BY <1>2, <1>7, <1>8 DEF ShardTypes, index

LEMMA AnnounceStep ==
  ASSUME SchedInv, NEW g \in Callers, NEW a \in Creds, NEW auth \in AuthStates,
         Changed(a, auth), Announces(g, a, auth), Recorded(g, a, auth), Inherited(g, a, auth),
         UNCHANGED <<index, clock, file, saver>>
  PROVE  SchedInv'
<1> USE DEF SchedInv
<1>1. HeapTypes' /\ TaskTypes' /\ SaverTypes' /\ ShardTypes'
  BY AnnounceTypes
<1>2. /\ \A h \in Callers \ {g} : task'[h] = task[h]
      /\ task[g].steps \notin ToUpsert \cup ToReport \cup ToRead \cup ToWrite
      /\ task'[g].steps \in ToUpsert \cup ToReport /\ task'[g].auth = a
      /\ task'[g].version = Len(heap[a]) + 1
  BY Kinds DEF Announces
<1>3. /\ \A b \in Creds \ {a} : heap'[b] = heap[b] /\ object'[b] = object[b]
      /\ UNCHANGED <<scheduled, shards, shared, newest, flattened>>
      /\ heap[a] \in Seq(AuthStates) /\ Len(heap[a]) \in Nat
      /\ Len(heap'[a]) = Len(heap[a]) + 1 /\ heap'[a][Len(heap[a]) + 1] = auth
      /\ heap'[a][object'[a]] = auth
  BY DEF HeapTypes, Changed, Grown, index
<1>4. Arrives'
  <2>1. Reaching(g, a)' /\ Current(a, task[g].version)'
    BY <1>2, <1>3 DEF Reaching, Current
  <2>2. ASSUME NEW b \in Creds \ {a}
        PROVE  \/ Current(b, newest[b])'
               \/ \E h \in Callers : Reaching(h, b)' /\ Current(b, task[h].version)'
    <3>1. CASE Current(b, newest[b])
      BY <1>3, <3>1 DEF Current
    <3>2. CASE \E h \in Callers : Reaching(h, b) /\ Current(b, task[h].version)
      <4>1. PICK h \in Callers : Reaching(h, b) /\ Current(b, task[h].version)
        BY <3>2
      <4>2. h # g
        BY <1>2, <4>1 DEF Reaching
      <4>3. Reaching(h, b)' /\ task'[h].version = task[h].version
        BY <1>2, <4>1, <4>2 DEF Reaching
      <4>4. heap'[b] = heap[b] /\ object'[b] = object[b]
        BY <1>3
      <4>5. Current(b, task[h].version)'
        BY <4>1, <4>3, <4>4 DEF Current
      <4> QED
        BY <4>3, <4>5
    <3> QED
      BY <3>1, <3>2 DEF Arrives
  <2>3. ASSUME NEW b \in Creds
        PROVE  \/ Current(b, newest[b])'
               \/ \E h \in Callers : Reaching(h, b)' /\ Current(b, task[h].version)'
    BY <1>2, <2>1, <2>2
  <2> QED
    BY <2>3 DEF Arrives
<1>5. OnFile'
  <2>1. Saved' = Saved
    BY <1>2 DEF Saved, SaverTypes
  <2>2. \A h \in Callers : task[h].steps \in ToRead => task'[h].steps \in ToRead
    BY <1>2
  <2>3. ASSUME NEW m \in Models, Cooling(a, m)'
        PROVE  \/ Saved'[a][m] = Retry(a, m)' \/ <<a, m>> \in revived'
               \/ \E h \in Callers : task'[h].steps \in ToRead
    <3>1. ~auth.gone /\ auth.retry[m] > clock /\ Retry(a, m)' = auth.retry[m]
      BY <1>3, <2>3 DEF Cooling, Present, Retry
    <3>2. CASE Present(a) /\ auth.retry[m] = Retry(a, m)
      BY <2>1, <2>2, <3>1, <3>2 DEF OnFile, Cooling, Recorded
    <3> QED
      BY <3>1, <3>2 DEF Recorded
  <2>4. ASSUME NEW b \in Creds \ {a}, NEW m \in Models, Cooling(b, m)'
        PROVE  \/ Saved'[b][m] = Retry(b, m)' \/ <<b, m>> \in revived'
               \/ \E h \in Callers : task'[h].steps \in ToRead
    BY <1>3, <2>1, <2>2, <2>4 DEF OnFile, Cooling, Present, Retry, Recorded
  <2> QED
    BY <2>3, <2>4 DEF OnFile
<1>6. ShardsFit'
  <2>1. OnItsWay(a)'
    BY <1>2, <1>3 DEF OnItsWay, Reaching, HeapTypes
  <2>2. \A b \in Creds \ {a} : OnItsWay(b) => OnItsWay(b)'
    BY <1>2, <1>3 DEF OnItsWay, Reaching
  <2>3. \A b \in Creds \ {a} : \A k \in DOMAIN shards :
          MayServe(b, heap[b][scheduled[b]], k) => MayServe(b, heap[b][scheduled[b]], k)'
    BY <1>3 DEF MayServe, Listed
  <2> QED
    BY <1>3, <2>1, <2>2, <2>3 DEF ShardsFit
<1>7. SharedFit'
  <2>1. Listed(heap'[a][scheduled[a]]) = Listed(heap[a][scheduled[a]])
    BY DEF Changed, Grown, HeapTypes
  <2> QED
    BY <1>3, <2>1 DEF SharedFit, Listed
<1>8. CoolingNoted'
  <2>1. ASSUME NEW b \in Creds, NEW m \in Models, NEW retry \in Int, NEW longer \in Int,
               longer >= retry, Reports(b, m, longer)
        PROVE  Reports(b, m, retry)'
    <3>1. PICK h \in Callers :
            /\ task[h].steps \in ToReport /\ task[h].auth = b /\ task[h].model = m
            /\ heap[b][task[h].version].retry[m] >= longer
      BY <2>1 DEF Reports
    <3>2. h # g
      BY <1>2, <3>1
    <3>3. /\ task[h].version \in 1..Len(heap[b]) /\ task[h].version # object[b]
          /\ ~heap[b][task[h].version].gone
      BY <3>1 DEF TaskTypes
    <3>4. heap'[b][task[h].version] = heap[b][task[h].version]
      BY <3>3 DEF Changed, Grown
    <3>5. heap[b][task[h].version].retry[m] \in Int
      BY <3>3, HeapElements
    <3> QED
      BY <1>2, <2>1, <3>1, <3>2, <3>4, <3>5 DEF Reports
  <2>2. ASSUME NEW m \in Models PROVE Noted(a, m, auth)'
    <3> SUFFICES ASSUME ~auth.gone, auth.retry[m] > clock,
                        m \notin DOMAIN shards, m \notin flattened
                 PROVE  Reports(a, m, auth.retry[m])'
      BY <1>3 DEF Noted
    <3>1. auth.retry[m] \in Int
      BY FreshIsKnown DEF AuthStates
    <3>2. CASE task'[g].steps \in ToReport /\ task'[g].model = m
      BY <1>2, <1>3, <3>1, <3>2 DEF Reports
    <3>3. ASSUME NEW v \in 1..Len(heap[a]), ~heap[a][v].gone,
                 heap[a][v].retry[m] >= auth.retry[m]
          PROVE  Reports(a, m, auth.retry[m])'
      <4>1. heap[a][v].retry[m] \in Int
        BY <3>3, HeapElements
      <4>2. Reports(a, m, heap[a][v].retry[m])
        BY <3>1, <3>3, <4>1 DEF CoolingNoted, Noted, HeapTypes
      <4> QED
        BY <2>1, <3>1, <3>3, <4>1, <4>2
    <3>4. CASE /\ task[g].steps = <<"update">> /\ task[g].auth = a
               /\ task[g].copy.retry[m] >= auth.retry[m]
      <4>1. task[g].copy \in AuthStates /\ ~task[g].copy.gone
        BY <3>4 DEF TaskTypes, Tasks
      <4>2. ~task[g].copy.gone /\ task[g].copy.retry[m] \in Int
        BY <4>1, FreshIsKnown DEF AuthStates
      <4>3. Noted(a, m, task[g].copy)
        BY <3>4 DEF CoolingNoted
      <4>4. Reports(a, m, task[g].copy.retry[m])
        BY <3>1, <3>4, <4>2, <4>3 DEF Noted, HeapTypes
      <4> QED
        BY <2>1, <3>1, <3>4, <4>2, <4>4
    <3> QED
      BY <3>2, <3>3, <3>4 DEF Inherited
  <2>3. ASSUME NEW b \in Creds, NEW m \in Models, NEW content \in AuthStates,
               Noted(b, m, content)
        PROVE  Noted(b, m, content)'
    <3>1. ~content.gone => content.retry[m] \in Int
      BY FreshIsKnown DEF AuthStates
    <3> QED
      BY <1>3, <2>1, <2>3, <3>1 DEF Noted
  <2>4. ASSUME NEW b \in Creds, NEW m \in Models, NEW v \in 1..Len(heap'[b])
        PROVE  Noted(b, m, heap[b][v])'
    <3>1. CASE b = a /\ heap'[b][v] = auth
      BY <2>2, <3>1 DEF Noted, Reports
    <3>2. CASE v \in 1..Len(heap[b]) /\ heap'[b][v] = heap[b][v]
      BY <2>3, <3>2, HeapElements DEF CoolingNoted, Noted, Reports
    <3> QED
      BY <1>3, <3>1, <3>2 DEF Changed, Grown
  <2>5. ASSUME NEW h \in Callers, NEW m \in Models, task'[h].steps = <<"update">>
        PROVE  Noted(task[h].auth, m, task[h].copy)'
    <3>1. h # g
      BY <1>2, <2>5, Kinds
    <3>2. task'[h] = task[h] /\ task[h].auth \in Creds /\ task[h].copy \in AuthStates
      BY <1>2, <2>5, <3>1 DEF TaskTypes, Tasks
    <3>3. PICK b \in Creds, content \in AuthStates : b = task[h].auth /\ content = task[h].copy
      BY <3>2
    <3>4. Noted(b, m, content)
      BY <2>5, <3>2, <3>3 DEF CoolingNoted
    <3>5. Noted(b, m, content)'
      BY <2>3, <3>4
    <3> QED
      BY <3>2, <3>3, <3>5 DEF Noted, Reports
  <2> QED
    BY <2>4, <2>5 DEF CoolingNoted
<1> QED
  BY <1>1, <1>4, <1>5, <1>6, <1>7, <1>8

\* What a call begins with, and what it leaves to do.
LEMMA Called ==
  ASSUME SchedInv, NEW g \in Callers, NEW rest \in Tasks, Call(g, rest)
  PROVE  /\ task' \in [Callers -> Tasks] /\ task'[g] = rest /\ task[g].steps = <<>>
         /\ \A h \in Callers \ {g} : task'[h] = task[h]
         /\ UNCHANGED <<index, clock>>
BY DEF Call, SchedInv, TaskTypes

LEMMA CalledWith ==
  ASSUME SchedInv, NEW g \in Callers, NEW steps \in ToUpsert \cup ToReport, NEW a \in Creds,
         NEW m \in Models \cup {Shared}, NEW auth \in AuthStates,
         Call(g, Todo(steps, a, m, Clone(a))),
         \/ steps \in ToUpsert
         \/ steps \notin ToWrite /\ m \in Models /\ ~auth.gone /\ object' = object
  PROVE  /\ Announces(g, a, auth) /\ task'[g].steps = steps /\ task'[g].model = m
         /\ task[g].steps = <<>> /\ UNCHANGED <<index, clock>>
<1>1. steps \in StepLists /\ Clone(a) \in Nat /\ Clone(a) = Len(heap[a]) + 1
  <2>1. heap[a] \in Seq(AuthStates)
    BY DEF SchedInv, HeapTypes
  <2> QED
    BY <2>1 DEF Clone, StepLists
<1>2. /\ Todo(steps, a, m, Clone(a)) \in Tasks
      /\ Todo(steps, a, m, Clone(a)).steps = steps /\ Todo(steps, a, m, Clone(a)).auth = a
      /\ Todo(steps, a, m, Clone(a)).model = m
      /\ Todo(steps, a, m, Clone(a)).version = Clone(a)
  BY <1>1, TodoFields
<1>3. /\ task' \in [Callers -> Tasks] /\ task'[g] = Todo(steps, a, m, Clone(a))
      /\ task[g].steps = <<>> /\ UNCHANGED <<index, clock>>
      /\ \A h \in Callers \ {g} : task'[h] = task[h]
  BY <1>2, Called
<1> QED
  BY <1>1, <1>2, <1>3 DEF Announces

LEMMA MarkResultStep ==
  ASSUME SchedInv, NEW g \in Callers, NEW a \in Creds, NEW m \in Models,
         NEW success \in BOOLEAN, MarkResult(g, a, m, success)
  PROVE  SchedInv'
<1> DEFINE old == heap[a][object[a]].retry
           kept_ == success /\ a \in Keeping /\ old[m] > clock
           base == [old EXCEPT ![m] = IF kept_ THEN @ ELSE IF success THEN 0 ELSE clock + Period]
           new == Settle(base)
           steps == IF ~success \/ new # old THEN <<"read", "write", "upsertModel">>
                    ELSE <<"upsertModel">>
<1>1. /\ Present(a) /\ InPlace(a, new) /\ Call(g, Todo(steps, a, m, Clone(a)))
      /\ UNCHANGED disk_
  BY DEF MarkResult
<1>2. HeapTypes /\ clock \in Nat /\ Period \in Nat /\ object[a] \in 1..Len(heap[a])
  BY SchedulerBounds DEF SchedInv, HeapTypes
<1>3. old \in [Models -> Int]
  BY <1>1, <1>2, HeapElements DEF Present
<1>4. base \in [Models -> Int] /\ \A k \in Models \ {m} : base[k] = old[k]
  BY <1>2, <1>3
<1>5. /\ new \in [Models -> Int]
      /\ \A k \in Models \ {m} : new[k] > clock => new[k] = old[k]
  <2> HIDE DEF base
  <2> QED
    BY <1>2, <1>4 DEF Settle
<1>6. /\ steps \in ToReport /\ steps \notin ToWrite
      /\ steps \in ToRead \/ new = old
  BY DEF ToReport, ToRead, ToWrite
<1> HIDE DEF new, steps
<1>7. PICK auth \in AuthStates :
        /\ ~auth.gone /\ auth.retry = new /\ Listed(auth) = Listed(heap[a][object[a]])
        /\ Grown(a, auth) /\ heap'[a][object[a]] = auth /\ object' = object
  BY <1>1, <1>2, <1>5, ChangedInPlace
<1>8. /\ Announces(g, a, auth) /\ task'[g].steps = steps /\ task'[g].model = m
      /\ UNCHANGED <<index, clock>>
  BY <1>1, <1>6, <1>7, CalledWith
<1>9. Recorded(g, a, auth)
  BY <1>1, <1>6, <1>7, <1>8 DEF Recorded, Retry, disk_
<1>10. Inherited(g, a, auth)
  <2>1. ASSUME NEW k \in Models, auth.retry[k] > clock
        PROVE  \/ k = m
               \/ \E v \in 1..Len(heap[a]) :
                    ~heap[a][v].gone /\ heap[a][v].retry[k] >= auth.retry[k]
    <3> SUFFICES ASSUME k # m
                 PROVE  ~heap[a][object[a]].gone /\ heap[a][object[a]].retry[k] >= auth.retry[k]
      BY <1>2
    <3>1. auth.retry[k] = old[k] /\ old[k] \in Int
      BY <1>3, <1>5, <1>7, <2>1
    <3> QED
      BY <1>1, <3>1 DEF Present
  <2> QED
    BY <1>6, <1>7, <1>8, <2>1 DEF Inherited
<1> QED
  BY <1>1, <1>7, <1>8, <1>9, <1>10, AnnounceStep DEF Changed, disk_

LEMMA ResetQuotaStep ==
  ASSUME SchedInv, NEW g \in Callers, NEW a \in Creds, ResetQuota(g, a)
  PROVE  SchedInv'
<1> DEFINE old == heap[a][object[a]].retry
           new == [m \in Models |-> IF old[m] = Unused THEN Unused ELSE 0]
           steps == IF new # old THEN <<"upsert", "read", "write">> ELSE <<"upsert">>
<1>1. /\ Present(a) /\ InPlace(a, new) /\ Call(g, Todo(steps, a, Shared, Clone(a)))
      /\ UNCHANGED disk_
  BY DEF ResetQuota
<1>2. HeapTypes /\ clock \in Nat
  BY DEF SchedInv, HeapTypes
<1>3. new \in [Models -> Int] /\ \A m \in Models : ~(new[m] > clock)
  BY <1>2 DEF Unused
<1>4. steps \in ToUpsert
  BY DEF ToUpsert
<1> HIDE DEF new, steps
<1>5. PICK auth \in AuthStates :
        /\ ~auth.gone /\ auth.retry = new /\ Listed(auth) = Listed(heap[a][object[a]])
        /\ Grown(a, auth) /\ heap'[a][object[a]] = auth /\ object' = object
  BY <1>1, <1>2, <1>3, ChangedInPlace
<1>6. Announces(g, a, auth) /\ UNCHANGED <<index, clock>>
  BY <1>1, <1>4, CalledWith
<1>7. Recorded(g, a, auth) /\ Inherited(g, a, auth)
  BY <1>1, <1>3, <1>5 DEF Recorded, Inherited, disk_
<1> QED
  BY <1>1, <1>5, <1>6, <1>7, AnnounceStep DEF Changed, disk_

LEMMA RegisterStep ==
  ASSUME SchedInv, NEW g \in Callers, NEW a \in Creds, Register(g, a) \/ RemoveAuth(g, a)
  PROVE  SchedInv'
<1>1. PICK auth \in {Fresh, Gone}, steps \in ToUpsert :
        Install(a, auth) /\ Call(g, Todo(steps, a, Shared, Clone(a))) /\ UNCHANGED disk_
  BY DEF Register, RemoveAuth, ToUpsert
<1>2. HeapTypes /\ clock \in Nat
  BY DEF SchedInv, HeapTypes
<1>3. /\ auth \in AuthStates
      /\ \A m \in Models : ~auth.gone => ~(auth.retry[m] > clock)
  BY <1>2, FreshIsKnown DEF Unused
<1>4. Changed(a, auth)
  BY <1>1, <1>2, <1>3, Installed DEF Changed
<1>5. Announces(g, a, auth) /\ UNCHANGED <<index, clock>>
  BY <1>1, <1>3, CalledWith
<1>6. Recorded(g, a, auth) /\ Inherited(g, a, auth)
  BY <1>1, <1>3 DEF Recorded, Inherited, disk_
<1> QED
  BY <1>1, <1>3, <1>4, <1>5, <1>6, AnnounceStep DEF disk_


LEMMA MergedIsKnown ==
  ASSUME NEW copy \in AuthStates, NEW existing \in AuthStates, ~copy.gone, ~existing.gone
  PROVE  LET merged == Merged(copy, existing) IN
           /\ merged \in AuthStates /\ ~merged.gone
           /\ \A m \in Models : /\ merged.retry[m] \in Int
                               /\ merged.retry[m] \in {copy.retry[m], existing.retry[m]}
<1>1. /\ copy \in [gone : {FALSE}, disabled : BOOLEAN, retry : [Models -> Int]]
      /\ existing \in [gone : {FALSE}, disabled : BOOLEAN, retry : [Models -> Int]]
  BY FreshIsKnown DEF AuthStates
<1>2. CASE Merged(copy, existing) = copy
  BY <1>1, <1>2
<1>3. CASE Merged(copy, existing) = [copy EXCEPT !.retry = existing.retry]
  BY <1>1, <1>3 DEF AuthStates
<1> DEFINE longer == [m \in Models |->
                       IF existing.retry[m] > clock /\ existing.retry[m] > copy.retry[m]
                       THEN existing.retry[m] ELSE copy.retry[m]]
<1>4. CASE Merged(copy, existing) = [copy EXCEPT !.retry = longer]
  <2>1. /\ longer \in [Models -> Int]
        /\ \A m \in Models : longer[m] \in {copy.retry[m], existing.retry[m]}
    BY <1>1
  <2> HIDE DEF longer
  <2> QED
    BY <1>1, <1>4, <2>1 DEF AuthStates
<1> QED
  BY <1>2, <1>3, <1>4 DEF Merged

-----------------------------------------------------------------------------
(* Calls and steps that change no credential.                              *)

LEMMA EntryFits ==
  ASSUME HeapTypes, NEW a \in Creds, NEW auth \in AuthStates, NEW k \in Models \cup {Shared},
         Entry(a, auth, k) = 0
  PROVE  MayServe(a, auth, k)
<1>1. Listed(auth) /\ Serves(a, k) /\ BlockedUntil(auth, k) = 0
  BY DEF Entry, NotListed
<1>2. auth.retry \in [Models -> Int] /\ clock \in Nat
  BY <1>1, FreshIsKnown DEF Listed, AuthStates, HeapTypes
<1>3. ASSUME k # Shared PROVE auth.retry[k] <= clock
  <2>1. auth.retry[k] \in Int
    BY <1>2, <1>3
  <2> QED
    BY <1>1, <1>2, <1>3, <2>1 DEF BlockedUntil
<1> QED
  BY <1>1, <1>3 DEF MayServe

\* A pick looks at a shard, and may make it.
Fitting ==
  /\ ShardTypes' /\ DOMAIN shards \subseteq DOMAIN shards'
  /\ \A k \in DOMAIN shards', a \in Creds : shards'[k][a] = 0 =>
       MayServe(a, heap[a][scheduled[a]], k) \/ OnItsWay(a)
  /\ \A n \in shared' : n \in flattened \/
       \A a \in Creds : Listed(heap[a][scheduled[a]]) => n \in Supports[a]
  /\ UNCHANGED <<scheduled, newest, flattened>>

LEMMA PickFits ==
  ASSUME SchedInv, NEW m \in Models, PickShard(m)
  PROVE  Fitting
<1> USE DEF SchedInv
<1> DEFINE key == KeyOf(m)
<1>1. key \in Models \cup {Shared}
  BY DEF KeyOf
<1>2. /\ shards' = Ensured(scheduled, shards, key) /\ UNCHANGED <<scheduled, newest, flattened>>
      /\ shared' = IF key = Shared THEN shared \cup {m} ELSE shared
  BY DEF PickShard
<1>3. key = Shared => m \in shared \/ \A a \in Creds : Listed(heap[a][scheduled[a]]) => Serves(a, m)
  BY SchedulerBounds DEF KeyOf
<1> HIDE DEF key
<1>4. /\ DOMAIN shards' = DOMAIN shards \cup {key}
      /\ \A k \in DOMAIN shards', a \in Creds :
           \/ shards'[k][a] = Entry(a, heap[a][scheduled[a]], k)
           \/ k \in DOMAIN shards /\ shards'[k][a] = shards[k][a]
      /\ shards' = [k \in DOMAIN shards' |-> shards'[k]]
  BY <1>2 DEF Ensured
<1>5. ShardTypes'
  BY <1>1, <1>2, <1>4 DEF ShardTypes
<1>6. ASSUME NEW k \in DOMAIN shards', NEW a \in Creds, shards'[k][a] = 0
      PROVE  MayServe(a, heap[a][scheduled[a]], k) \/ OnItsWay(a)
  <2>1. scheduled[a] \in 1..Len(heap[a])
    BY DEF HeapTypes
  <2>2. heap[a][scheduled[a]] \in AuthStates /\ k \in Models \cup {Shared}
    BY <1>5, <2>1, HeapElements DEF ShardTypes
  <2>3. CASE shards'[k][a] = Entry(a, heap[a][scheduled[a]], k)
    BY <1>6, <2>2, <2>3, EntryFits
  <2>4. CASE k \in DOMAIN shards /\ shards'[k][a] = shards[k][a]
    BY <1>6, <2>4 DEF ShardsFit
  <2> QED
    BY <1>4, <2>3, <2>4
<1>7. ASSUME NEW n \in shared'
      PROVE  n \in flattened \/
             \A a \in Creds : Listed(heap[a][scheduled[a]]) => n \in Supports[a]
  <2>1. CASE n \in shared
    BY <2>1 DEF SharedFit
  <2>2. CASE n = m /\ key = Shared /\ n \notin shared
    BY <1>3, <2>2, SchedulerBounds DEF Serves
  <2> QED
    BY <1>2, <1>7, <2>1, <2>2
<1> QED
  BY <1>2, <1>4, <1>5, <1>6, <1>7 DEF Fitting

\* The goroutine has nothing for the scheduler or the files, before and after.
LEMMA QuietCall ==
  ASSUME SchedInv, NEW g \in Callers,
         task' \in [Callers -> Tasks], \A h \in Callers \ {g} : task'[h] = task[h],
         task[g].steps \notin ToUpsert \cup ToReport \cup ToRead \cup ToWrite,
         task'[g].steps \in {<<>>, <<"update">>, <<"snapshot", "rebuild", "again">>},
         task'[g].steps = <<"update">> =>
           \E a \in Creds : \E v \in 1..Len(heap[a]) :
             /\ task'[g].auth = a /\ ~task'[g].copy.gone
             /\ ~heap[a][v].gone /\ task'[g].copy.retry = heap[a][v].retry,
         task'[g].steps \in ToPick => task'[g].model \in Models,
         UNCHANGED <<memory, disk_, clock>>,
         UNCHANGED index \/ \E m \in Models : PickShard(m)
  PROVE  SchedInv'
<1> USE DEF SchedInv
<1>1. /\ UNCHANGED <<heap, object, file, saver, revived, clock>>
      /\ UNCHANGED <<scheduled, newest, flattened>>
  BY PickFits DEF memory, disk_, index, Fitting
<1>2. Fitting
  <2>1. CASE UNCHANGED index
    BY <2>1 DEF index, ShardTypes, ShardsFit, SharedFit, Fitting
  <2> QED
    BY <2>1, PickFits
<1>3. task'[g].steps \notin ToUpsert \cup ToReport \cup ToRead \cup ToWrite \cup {<<"rebuild", "again">>}
  BY Kinds
<1>4. HeapTypes' /\ SaverTypes'
  BY <1>1, <1>3 DEF HeapTypes, SaverTypes
<1>5. TaskTypes'
  <2>1. ASSUME NEW h \in Callers \ {g}
        PROVE  /\ task'[h].steps \in ToUpsert \cup ToReport =>
                    task'[h].auth \in Creds /\ task'[h].version \in 1..Len(heap'[task'[h].auth])
               /\ task'[h].steps \in ToReport =>
                    /\ task'[h].model \in Models /\ task'[h].version # object'[task'[h].auth]
                    /\ ~heap'[task'[h].auth][task'[h].version].gone
               /\ task'[h].steps = <<"update">> => task'[h].auth \in Creds /\ ~task'[h].copy.gone
               /\ task'[h].steps \in ToPick => task'[h].model \in Models
               /\ task'[h].steps = <<"rebuild", "again">> =>
                    \A b \in Creds : task'[h].versions[b] \in 1..Len(heap'[b])
    BY <1>1 DEF TaskTypes
  <2> QED
    BY <1>3, <2>1 DEF TaskTypes
<1>6. Arrives'
  BY <1>1, <1>3 DEF Arrives, Reaching, Current
<1>7. OnFile'
  <2>1. Saved' = Saved
    BY <1>1 DEF Saved, SaverTypes
  <2> QED
    BY <1>1, <1>3, <2>1 DEF OnFile, Cooling, Present, Retry
<1>8. ShardsFit' /\ SharedFit'
  <2>1. \A a \in Creds : OnItsWay(a) => OnItsWay(a)'
    BY <1>1 DEF OnItsWay, Reaching
  <2> QED
    BY <1>1, <1>2, <2>1 DEF ShardsFit, SharedFit, MayServe, Fitting
<1>9. CoolingNoted'
  <2>1. ASSUME NEW a \in Creds, NEW m \in Models, NEW retry, Reports(a, m, retry)
        PROVE  Reports(a, m, retry)'
    BY <1>1, <2>1 DEF Reports
  <2>2. ASSUME NEW a \in Creds, NEW m \in Models, NEW content, Noted(a, m, content)
        PROVE  Noted(a, m, content)'
    BY <1>1, <1>2, <2>1, <2>2 DEF Noted, Fitting
  <2>3. ASSUME NEW a \in Creds, NEW m \in Models, NEW v \in 1..Len(heap'[a])
        PROVE  Noted(a, m, heap[a][v])'
    BY <1>1, <2>2 DEF CoolingNoted, Noted, Reports
  <2>4. ASSUME NEW h \in Callers, NEW m \in Models, task'[h].steps = <<"update">>
        PROVE  Noted(task[h].auth, m, task[h].copy)'
    <3>1. PICK a \in Creds, content \in AuthStates :
            a = task'[h].auth /\ content = task'[h].copy /\ Noted(a, m, content)
      <4>1. CASE h = g
        <5>1. PICK a \in Creds : \E v \in 1..Len(heap[a]) :
                /\ task'[g].auth = a /\ ~task'[g].copy.gone
                /\ ~heap[a][v].gone /\ task'[g].copy.retry = heap[a][v].retry
          BY <2>4, <4>1
        <5>2. Noted(a, m, task'[g].copy)
          BY <5>1 DEF CoolingNoted, Noted
        <5> QED
          BY <4>1, <5>1, <5>2 DEF Tasks
      <4>2. CASE h # g
        <5>1. task'[h] = task[h] /\ task[h].steps = <<"update">> /\ task[h] \in Tasks
          BY <2>4, <4>2 DEF TaskTypes
        <5>2. task[h].auth \in Creds /\ task[h].copy \in AuthStates
          BY <5>1 DEF TaskTypes, Tasks
        <5>3. Noted(task[h].auth, m, task[h].copy)
          BY <5>1 DEF CoolingNoted
        <5> QED
          BY <5>1, <5>2, <5>3
      <4> QED
        BY <4>1, <4>2
    <3>2. Noted(a, m, content)'
      BY <2>2, <3>1
    <3> QED
      BY <3>1, <3>2 DEF Noted, Reports
  <2> QED
    BY <2>3, <2>4 DEF CoolingNoted
<1> QED
  BY <1>2, <1>4, <1>5, <1>6, <1>7, <1>8, <1>9 DEF Fitting

LEMMA UpdateStep ==
  ASSUME SchedInv, NEW g \in Callers, Update(g)
  PROVE  SchedInv'
<1> DEFINE a == task[g].auth
           auth == Merged(task[g].copy, heap[a][object[a]])
           back == {<<a, m>> : m \in {k \in Models : auth.retry[k] # Retry(a, k)}}
<1>1. /\ task[g].steps # <<>> /\ Head(task[g].steps) = "update"
      /\ UNCHANGED <<index, file, saver, clock>>
  BY DEF Update, timing
<1>2. HeapTypes /\ task \in [Callers -> Tasks] /\ task[g] \in Tasks
  BY DEF SchedInv, TaskTypes
<1>3. task[g].steps = <<"update">> /\ Tail(task[g].steps) = <<>>
  BY <1>1, <1>2, TailList DEF Tasks
<1>4. a \in Creds /\ task[g].copy \in AuthStates /\ ~task[g].copy.gone
  BY <1>2, <1>3 DEF SchedInv, TaskTypes, Tasks
<1>5. CASE Present(a)
  <2>1. /\ Install(a, auth) /\ revived' = revived \cup back
        /\ task' = [task EXCEPT ![g] = Todo(<<"upsert">>, a, Shared, Clone(a))]
    BY <1>5 DEF Update
  <2>2. heap[a][object[a]] \in AuthStates /\ ~heap[a][object[a]].gone /\ object[a] \in 1..Len(heap[a])
    BY <1>2, <1>4, <1>5, HeapElements DEF Present, HeapTypes
  <2>3. /\ auth \in AuthStates /\ ~auth.gone
        /\ \A m \in Models : /\ auth.retry[m] \in Int
                            /\ auth.retry[m] \in {task[g].copy.retry[m], heap[a][object[a]].retry[m]}
    BY <1>4, <2>2, MergedIsKnown
  <2> HIDE DEF auth
  <2>4. Changed(a, auth)
    BY <1>2, <1>4, <2>1, <2>3, Installed DEF Changed
  <2>5. Clone(a) \in Nat /\ Clone(a) = Len(heap[a]) + 1 /\ <<"upsert">> \in ToUpsert
        /\ <<"upsert">> \in StepLists
    <3>1. heap[a] \in Seq(AuthStates)
      BY <1>2, <1>4 DEF HeapTypes
    <3> QED
      BY <3>1 DEF Clone, ToUpsert, StepLists
  <2>6. /\ Todo(<<"upsert">>, a, Shared, Clone(a)) \in Tasks
        /\ Todo(<<"upsert">>, a, Shared, Clone(a)).steps = <<"upsert">>
        /\ Todo(<<"upsert">>, a, Shared, Clone(a)).auth = a
        /\ Todo(<<"upsert">>, a, Shared, Clone(a)).version = Clone(a)
    <3> HIDE DEF a
    <3>1. PICK steps \in StepLists, m \in Models \cup {Shared}, version \in Nat :
            steps = <<"upsert">> /\ m = Shared /\ version = Clone(a)
      BY <2>5
    <3>2. /\ Todo(steps, a, m, version) \in Tasks
          /\ Todo(steps, a, m, version).steps = steps
          /\ Todo(steps, a, m, version).auth = a
          /\ Todo(steps, a, m, version).version = version
      BY <1>4, TodoFields
    <3> QED
      BY <3>1, <3>2
  <2>7. Announces(g, a, auth)
    BY <1>2, <1>3, <2>1, <2>5, <2>6 DEF Announces
  <2>8. Recorded(g, a, auth)
    BY <1>5, <2>1 DEF Recorded
  <2>9. Inherited(g, a, auth)
    <3>1. PICK v \in 1..Len(heap[a]) : v = object[a]
      BY <2>2
    <3>2. \A m \in Models :
            \/ heap[a][v].retry[m] = auth.retry[m]
            \/ task[g].copy.retry[m] = auth.retry[m]
      BY <2>3, <3>1
    <3>3. \A m \in Models :
            \/ ~heap[a][v].gone /\ heap[a][v].retry[m] >= auth.retry[m]
            \/ task[g].copy.retry[m] >= auth.retry[m]
      <4> SUFFICES ASSUME NEW m \in Models
                   PROVE  \/ ~heap[a][v].gone /\ heap[a][v].retry[m] >= auth.retry[m]
                          \/ task[g].copy.retry[m] >= auth.retry[m]
        OBVIOUS
      <4>1. ~heap[a][v].gone
        BY <2>2, <3>1
      <4>2. auth.retry[m] >= auth.retry[m]
        <5>1. auth.retry[m] \in Int
          BY <2>3
        <5> QED
          BY <5>1
      <4> QED
        BY <3>2, <4>1, <4>2
    <3> HIDE DEF a
    <3> QED
      BY <1>3, <3>3 DEF Inherited, a
  <2> QED
    BY <1>1, <1>4, <2>3, <2>4, <2>7, <2>8, <2>9, AnnounceStep
<1>6. CASE ~Present(a)
  <2>1. NextStep(g) /\ UNCHANGED <<memory, disk_>>
    BY <1>1, <1>6 DEF Update, disk_
  <2>2. /\ task' \in [Callers -> Tasks] /\ \A h \in Callers \ {g} : task'[h] = task[h]
        /\ task'[g].steps = <<>>
    BY <1>1, <1>3, <2>1, Stepped
  <2>3. task[g].steps \notin ToUpsert \cup ToReport \cup ToRead \cup ToWrite
        /\ task'[g].steps # <<"update">> /\ task'[g].steps \notin ToPick
    BY <1>3, <2>2, Kinds
  <2> QED
    BY <1>1, <2>1, <2>2, <2>3, QuietCall
<1> QED
  BY <1>5, <1>6


LEMMA ReadCopyStep ==
  ASSUME SchedInv, NEW g \in Callers, NEW a \in Creds, ReadCopy(g, a)
  PROVE  SchedInv'
<1> DEFINE auth == heap[a][object[a]]
<1>1. PICK off \in BOOLEAN :
        Call(g, [Todo(<<"update">>, a, Shared, 0) EXCEPT !.copy = [auth EXCEPT !.disabled = off]])
  BY DEF ReadCopy
<1>2. Present(a) /\ UNCHANGED <<memory, disk_>>
  BY DEF ReadCopy
<1>3. object[a] \in 1..Len(heap[a]) /\ auth \in AuthStates /\ ~auth.gone
  BY <1>2, HeapElements DEF SchedInv, HeapTypes, Present
<1> DEFINE copied == [auth EXCEPT !.disabled = off]
           rest == [Todo(<<"update">>, a, Shared, 0) EXCEPT !.copy = copied]
<1>4. copied \in AuthStates /\ ~copied.gone /\ copied.retry = auth.retry
  BY <1>3, FreshIsKnown DEF AuthStates
<1> HIDE DEF copied
<1>5. /\ rest \in Tasks /\ rest.steps = <<"update">> /\ rest.auth = a /\ rest.copy = copied
  <2>1. <<"update">> \in StepLists
    BY DEF StepLists, ToPick
  <2>2. ASSUME NEW steps \in StepLists, NEW m \in Models \cup {Shared}, NEW version \in Nat
        PROVE  /\ Todo(steps, a, m, version) \in Tasks
               /\ Todo(steps, a, m, version).steps = steps
               /\ Todo(steps, a, m, version).auth = a
    BY TodoFields
  <2>3. /\ Todo(<<"update">>, a, Shared, 0) \in Tasks
        /\ Todo(<<"update">>, a, Shared, 0).steps = <<"update">>
        /\ Todo(<<"update">>, a, Shared, 0).auth = a
    BY <2>1, <2>2
  <2> QED
    BY <1>4, <2>3 DEF Tasks
<1>6. Call(g, rest)
  BY <1>1 DEF copied
<1> HIDE DEF rest
<1>7. /\ task' \in [Callers -> Tasks] /\ task'[g] = rest /\ task[g].steps = <<>>
      /\ \A h \in Callers \ {g} : task'[h] = task[h]
      /\ UNCHANGED <<index, clock>>
  BY <1>5, <1>6, Called
<1>8. task[g].steps \notin ToUpsert \cup ToReport \cup ToRead \cup ToWrite
  BY <1>7, Kinds
<1>10. task'[g].steps \notin ToPick
  BY <1>5, <1>7, Kinds
<1>9. \E c \in Creds : \E v \in 1..Len(heap[c]) :
        /\ task'[g].auth = c /\ ~task'[g].copy.gone
        /\ ~heap[c][v].gone /\ task'[g].copy.retry = heap[c][v].retry
  <2>1. /\ task'[g].auth = a /\ ~task'[g].copy.gone
        /\ ~heap[a][object[a]].gone /\ task'[g].copy.retry = heap[a][object[a]].retry
    BY <1>3, <1>4, <1>5, <1>7
  <2> QED
    BY <1>3, <2>1
<1> QED
  BY <1>2, <1>5, <1>7, <1>8, <1>9, <1>10, QuietCall

LEMMA PickNextStep ==
  ASSUME SchedInv, NEW g \in Callers, NEW m \in Models, PickNext(g, m)
  PROVE  SchedInv'
<1>1. /\ PickShard(m) /\ task[g].steps = <<>> /\ UNCHANGED <<memory, disk_, clock>>
      /\ \/ task' = task
         \/ task' = [task EXCEPT ![g] =
                       Todo(<<"snapshot", "rebuild", "again">>, Nobody, m, 0)]
  BY DEF PickNext
<1>2. task \in [Callers -> Tasks]
  BY DEF SchedInv, TaskTypes
<1> DEFINE rest == Todo(<<"snapshot", "rebuild", "again">>, Nobody, m, 0)
<1>3. /\ rest \in Tasks /\ rest.steps = <<"snapshot", "rebuild", "again">>
      /\ rest.model = m
  <2>1. <<"snapshot", "rebuild", "again">> \in StepLists
    BY DEF StepLists, ToPick
  <2>2. ASSUME NEW steps \in StepLists, NEW c \in Creds \cup {Nobody}, NEW version \in Nat
        PROVE  /\ Todo(steps, c, m, version) \in Tasks
               /\ Todo(steps, c, m, version).steps = steps
               /\ Todo(steps, c, m, version).model = m
    BY TodoFields
  <2> QED
    BY <2>1, <2>2
<1> HIDE DEF rest
<1>4. /\ task' \in [Callers -> Tasks] /\ \A h \in Callers \ {g} : task'[h] = task[h]
      /\ \/ task'[g].steps = <<>>
         \/ task'[g].steps = <<"snapshot", "rebuild", "again">> /\ task'[g].model \in Models
  BY <1>1, <1>2, <1>3 DEF rest
<1>5. task[g].steps \notin ToUpsert \cup ToReport \cup ToRead \cup ToWrite
  BY <1>1, Kinds
<1>6. /\ task'[g].steps # <<"update">>
      /\ task'[g].steps \in ToPick => task'[g].model \in Models
  BY <1>4, Kinds
<1> QED
  BY <1>1, <1>4, <1>5, <1>6, QuietCall

LEMMA PickAgainStep ==
  ASSUME SchedInv, NEW g \in Callers, PickAgain(g)
  PROVE  SchedInv'
<1>1. /\ task[g].steps # <<>> /\ Head(task[g].steps) = "again" /\ PickShard(task[g].model)
      /\ NextStep(g) /\ UNCHANGED <<memory, disk_, clock>>
  BY DEF PickAgain, timing
<1>2. task[g].steps \in StepLists
  BY DEF SchedInv, TaskTypes, Tasks
<1>3. task[g].steps = <<"again">> /\ Tail(task[g].steps) = <<>> /\ task[g].model \in Models
  BY <1>1, <1>2, TailList DEF SchedInv, TaskTypes, ToPick
<1>4. /\ task' \in [Callers -> Tasks] /\ \A h \in Callers \ {g} : task'[h] = task[h]
      /\ task'[g].steps = <<>>
  BY <1>1, <1>3, Stepped
<1>5. /\ task[g].steps \notin ToUpsert \cup ToReport \cup ToRead \cup ToWrite
      /\ task'[g].steps # <<"update">> /\ task'[g].steps \notin ToPick
  BY <1>3, <1>4, Kinds
<1> QED
  BY <1>1, <1>3, <1>4, <1>5, QuietCall


-----------------------------------------------------------------------------
(* A version of a credential reaches the scheduler.                        *)

\* The credential is looked at again in every shard; for the others nothing is worse.
TakesOver(g, a, version) ==
  /\ task[g].steps \in ToUpsert \cup {<<"upsertModel">>}
  /\ a = task[g].auth /\ version = task[g].version
  /\ NextStep(g)
  /\ scheduled' = [scheduled EXCEPT ![a] = version]
  /\ newest' = [newest EXCEPT ![a] = Larger(@, version)]
  /\ UNCHANGED <<heap, object, file, saver, revived, clock>>
  /\ ShardTypes' /\ DOMAIN shards \subseteq DOMAIN shards'
  /\ \A k \in DOMAIN shards', b \in Creds : shards'[k][b] = 0 =>
       \/ MayServe(b, heap[b][scheduled'[b]], k)
       \/ b # a /\ k \in DOMAIN shards /\ shards[k][b] = 0
  /\ flattened \subseteq flattened'
  /\ \A n \in shared' :
       \/ n \in flattened'
       \/ n \in shared /\ (Listed(heap[a][version]) => n \in Supports[a])
  /\ task[g].steps \in ToReport =>
       task[g].model \in DOMAIN shards' \/ heap[a][version].retry[task[g].model] <= clock

LEMMA TakesOverStep ==
  ASSUME SchedInv, NEW g \in Callers, NEW a \in Creds, NEW version \in 1..Len(heap[a]),
         TakesOver(g, a, version)
  PROVE  SchedInv'
<1> USE DEF SchedInv
<1>1. /\ UNCHANGED <<heap, object, file, saver, revived, clock>>
      /\ scheduled' = [scheduled EXCEPT ![a] = version]
      /\ newest' = [newest EXCEPT ![a] = Larger(newest[a], version)]
      /\ a = task[g].auth /\ version = task[g].version /\ ShardTypes'
      /\ task[g].steps \in StepLists /\ task[g].steps # <<>> /\ task[g].steps \notin ToWrite
  BY Kinds DEF TakesOver, TaskTypes, Tasks, ToUpsert, ToWrite
<1>2. /\ Len(heap[a]) \in Nat /\ newest[a] \in Nat /\ newest[a] <= Len(heap[a])
      /\ \A b \in Creds : Len(heap[b]) \in Nat
  BY DEF HeapTypes
<1>3. /\ newest'[a] \in Nat /\ newest'[a] <= Len(heap[a])
      /\ newest[a] <= newest'[a] /\ version <= newest'[a]
      /\ \A b \in Creds \ {a} : newest'[b] = newest[b] /\ scheduled'[b] = scheduled[b]
      /\ scheduled'[a] = version
  BY <1>1, <1>2 DEF HeapTypes, Larger
<1>4. /\ task' \in [Callers -> Tasks] /\ \A h \in Callers \ {g} : task'[h] = task[h]
      /\ task'[g].steps = Tail(task[g].steps)
  BY <1>1, Stepped DEF TakesOver
<1>5. /\ task'[g].steps \in {<<>>, <<"read", "write">>}
      /\ task'[g].steps \in ToRead <=> task[g].steps \in ToRead
  <2>1. \/ task[g].steps = <<"upsert">> /\ Tail(task[g].steps) = <<>>
        \/ task[g].steps = <<"upsert", "read", "write">> /\ Tail(task[g].steps) = <<"read", "write">>
        \/ task[g].steps = <<"upsertModel">> /\ Tail(task[g].steps) = <<>>
    <3>1. CASE task[g].steps = <<"upsert">>
      BY <3>1
    <3>2. CASE task[g].steps = <<"upsert", "read", "write">>
      <4>1. Tail(task[g].steps) = <<"read", "write">>
        BY <3>2
      <4> QED
        BY <3>2, <4>1
    <3>3. CASE task[g].steps = <<"upsertModel">>
      BY <3>3
    <3> QED
      BY <3>1, <3>2, <3>3 DEF TakesOver, ToUpsert
  <2>2. /\ <<"upsert">> \notin ToRead /\ <<>> \notin ToRead /\ <<"upsertModel">> \notin ToRead
        /\ <<"upsert", "read", "write">> \in ToRead /\ <<"read", "write">> \in ToRead
    BY DEF ToRead
  <2> QED
    BY <1>4, <2>1, <2>2
<1>6. task'[g].steps \notin ToUpsert \cup ToReport \cup ToWrite \cup ToPick \cup {<<"update">>}
  <2>1. <<"read", "write">> \notin ToUpsert \cup ToReport \cup ToWrite \cup ToPick \cup {<<"update">>}
    BY DEF ToUpsert, ToReport, ToWrite, ToPick
  <2> QED
    BY <1>5, <2>1, Kinds
<1>7. HeapTypes'
  BY <1>1, <1>2, <1>3 DEF HeapTypes
<1>8. TaskTypes'
  <2>1. ASSUME NEW h \in Callers \ {g}
        PROVE  /\ task'[h].steps \in ToUpsert \cup ToReport =>
                    task'[h].auth \in Creds /\ task'[h].version \in 1..Len(heap'[task'[h].auth])
               /\ task'[h].steps \in ToReport =>
                    /\ task'[h].model \in Models /\ task'[h].version # object'[task'[h].auth]
                    /\ ~heap'[task'[h].auth][task'[h].version].gone
               /\ task'[h].steps = <<"update">> => task'[h].auth \in Creds /\ ~task'[h].copy.gone
               /\ task'[h].steps \in ToPick => task'[h].model \in Models
               /\ task'[h].steps = <<"rebuild", "again">> =>
                    \A b \in Creds : task'[h].versions[b] \in 1..Len(heap'[b])
    BY <1>1, <1>4 DEF TaskTypes
  <2> QED
    BY <1>4, <1>6, <2>1, Kinds DEF TaskTypes
<1>9. SaverTypes'
  BY <1>1, <1>4, <1>6 DEF SaverTypes
<1>10. Arrives'
  <2>1. ASSUME NEW b \in Creds
        PROVE  \/ Current(b, newest[b])'
               \/ \E h \in Callers : Reaching(h, b)' /\ Current(b, task[h].version)'
    <3>1. CASE Current(b, newest[b])
      BY <1>1, <1>2, <1>3, <3>1 DEF Current, HeapTypes
    <3>2. ASSUME NEW h \in Callers, Reaching(h, b), Current(b, task[h].version)
          PROVE  \/ Current(b, newest[b])'
                 \/ \E i \in Callers : Reaching(i, b)' /\ Current(b, task[i].version)'
      <4>1. CASE h = g
        <5>1. Current(a, newest[a])'
          <6>1. b = a /\ Current(a, version)
            BY <1>1, <3>2, <4>1 DEF Reaching
          <6>2. /\ heap' = heap /\ object' = object
                /\ \A w \in newest'[a]..Len(heap[a]) : w \in version..Len(heap[a])
            BY <1>1, <1>2, <1>3
          <6> QED
            BY <6>1, <6>2 DEF Current
        <5> QED
          BY <1>1, <3>2, <4>1, <5>1 DEF Reaching
      <4>2. CASE h # g
        BY <1>1, <1>4, <3>2, <4>2 DEF Reaching, Current
      <4> QED
        BY <4>1, <4>2
    <3> QED
      BY <3>1, <3>2 DEF Arrives
  <2> QED
    BY <2>1 DEF Arrives
<1>11. OnFile'
  <2>1. Saved' = Saved
    BY <1>1, <1>4 DEF Saved, SaverTypes
  <2> QED
    BY <1>1, <1>4, <1>5, <2>1 DEF OnFile, Cooling, Present, Retry
<1>12. ShardsFit'
  <2>1. \A b \in Creds \ {a} : OnItsWay(b) => OnItsWay(b)'
    BY <1>1, <1>3, <1>4 DEF OnItsWay, Reaching
  <2>2. ASSUME NEW k \in DOMAIN shards', NEW b \in Creds, shards'[k][b] = 0
        PROVE  MayServe(b, heap[b][scheduled'[b]], k) \/ OnItsWay(b)'
    <3>1. CASE MayServe(b, heap[b][scheduled'[b]], k)
      BY <3>1
    <3>2. CASE b # a /\ k \in DOMAIN shards /\ shards[k][b] = 0
      BY <1>3, <2>1, <3>2 DEF ShardsFit
    <3> QED
      BY <2>2, <3>1, <3>2 DEF TakesOver
  <2> QED
    BY <1>1, <2>2 DEF ShardsFit, MayServe
<1>13. SharedFit'
  BY <1>1, <1>3 DEF TakesOver, SharedFit
<1>14. CoolingNoted'
  <2>1. ASSUME NEW b \in Creds, NEW m \in Models, NEW content \in AuthStates,
               Noted(b, m, content)
        PROVE  Noted(b, m, content)'
    <3> SUFFICES ASSUME ~content.gone, content.retry[m] > clock, m \notin DOMAIN shards',
                        m \notin flattened'
                 PROVE  Reports(b, m, content.retry[m])'
      BY <1>1 DEF Noted
    <3>1. content.retry[m] \in Int /\ clock \in Nat
      BY FreshIsKnown DEF AuthStates, HeapTypes
    <3>2. PICK h \in Callers :
            /\ task[h].steps \in ToReport /\ task[h].auth = b /\ task[h].model = m
            /\ heap[b][task[h].version].retry[m] >= content.retry[m]
      BY <2>1 DEF Noted, Reports, TakesOver
    <3>3. h # g
      <4> SUFFICES ASSUME h = g PROVE FALSE
        OBVIOUS
      <4>1. heap[a][version].retry[m] <= clock /\ b = a /\ ~heap[a][version].gone
        BY <1>1, <3>2 DEF TakesOver, TaskTypes
      <4>2. heap[a][version].retry[m] \in Int
        BY <4>1, HeapElements
      <4> QED
        BY <1>1, <3>1, <3>2, <4>1, <4>2
    <3> QED
      BY <1>1, <1>4, <3>2, <3>3 DEF Reports
  <2>2. ASSUME NEW b \in Creds, NEW m \in Models, NEW v \in 1..Len(heap'[b])
        PROVE  Noted(b, m, heap[b][v])'
    <3>1. PICK content \in AuthStates : content = heap[b][v] /\ Noted(b, m, content)
      BY <1>1, HeapElements DEF CoolingNoted
    <3>2. Noted(b, m, content)'
      BY <2>1, <3>1
    <3> QED
      BY <1>1, <3>1, <3>2 DEF Noted, Reports
  <2>3. ASSUME NEW h \in Callers, NEW m \in Models, task'[h].steps = <<"update">>
        PROVE  Noted(task[h].auth, m, task[h].copy)'
    <3>1. h # g /\ task'[h] = task[h] /\ task[h] \in Tasks
      BY <1>4, <1>6, <2>3 DEF TaskTypes
    <3>2. PICK b \in Creds, content \in AuthStates : b = task[h].auth /\ content = task[h].copy
      BY <2>3, <3>1 DEF TaskTypes, Tasks
    <3>3. Noted(b, m, content)'
      BY <2>1, <2>3, <3>1, <3>2 DEF CoolingNoted
    <3> QED
      BY <3>1, <3>2, <3>3 DEF Noted, Reports
  <2> QED
    BY <2>2, <2>3 DEF CoolingNoted
<1> QED
  BY <1>1, <1>7, <1>8, <1>9, <1>10, <1>11, <1>12, <1>13, <1>14


\* upsertAuthLocked
LEMMA UpsertedFits ==
  ASSUME SchedInv, NEW a \in Creds, NEW version \in 1..Len(heap[a]), NEW sh,
         sh = Upserted(a, version)
  PROVE  /\ DOMAIN sh = DOMAIN shards
         /\ \A k \in DOMAIN sh : DOMAIN sh[k] = Creds
         /\ sh = [k \in DOMAIN sh |-> sh[k]]
         /\ \A k \in DOMAIN sh, b \in Creds : sh[k][b] = 0 =>
              \/ b = a /\ MayServe(a, heap[a][version], k)
              \/ b # a /\ shards[k][b] = 0
<1>1. heap[a][version] \in AuthStates /\ HeapTypes /\ DOMAIN shards \subseteq Models \cup {Shared}
  BY HeapElements DEF SchedInv, ShardTypes
<1>2. /\ DOMAIN sh = DOMAIN shards
      /\ \A k \in DOMAIN sh : DOMAIN sh[k] = Creds
      /\ sh = [k \in DOMAIN sh |-> sh[k]]
      /\ \A k \in DOMAIN sh, b \in Creds :
           sh[k][b] = IF b = a THEN Entry(a, heap[a][version], k) ELSE shards[k][b]
  BY DEF Upserted
<1> QED
  BY <1>1, <1>2, EntryFits

LEMMA UpsertStep ==
  ASSUME SchedInv, NEW g \in Callers, Upsert(g)
  PROVE  SchedInv'
<1> DEFINE a == task[g].auth  version == task[g].version
<1>1. /\ task[g].steps # <<>> /\ Head(task[g].steps) = "upsert"
      /\ scheduled' = [scheduled EXCEPT ![a] = version]
      /\ newest' = [newest EXCEPT ![a] = Larger(@, version)]
      /\ shards' = Upserted(a, version)
      /\ shared' = IF heap[a][version].gone THEN shared ELSE {}
      /\ NextStep(g) /\ UNCHANGED <<heap, object, file, saver, revived, clock, flattened>>
  BY DEF Upsert, memory, disk_, timing
<1>2. task[g].steps \in ToUpsert
  BY <1>1, TailList DEF SchedInv, TaskTypes, Tasks, ToUpsert
<1>3. a \in Creds /\ version \in 1..Len(heap[a]) /\ task[g].steps \notin ToReport
  BY <1>2, Kinds DEF SchedInv, TaskTypes
<1> HIDE DEF a, version
<1>4. /\ DOMAIN shards' = DOMAIN shards /\ shards' = [k \in DOMAIN shards' |-> shards'[k]]
      /\ \A k \in DOMAIN shards', b \in Creds : shards'[k][b] = 0 =>
           \/ b = a /\ MayServe(a, heap[a][version], k)
           \/ b # a /\ shards[k][b] = 0
  BY <1>1, <1>3, UpsertedFits
<1>5. ShardTypes' /\ scheduled'[a] = version
  BY <1>1, <1>3, <1>4 DEF SchedInv, ShardTypes, HeapTypes
<1>6. \A n \in shared' : n \in shared /\ (Listed(heap[a][version]) => n \in Supports[a])
  BY <1>1 DEF Listed
<1>7. TakesOver(g, a, version)
  BY <1>1, <1>2, <1>3, <1>4, <1>5, <1>6 DEF TakesOver, a, version
<1> QED
  BY <1>3, <1>7, TakesOverStep

LEMMA UpsertForModelStep ==
  ASSUME SchedInv, NEW g \in Callers, UpsertForModel(g)
  PROVE  SchedInv'
<1> DEFINE a == task[g].auth  version == task[g].version  m == task[g].model
           metas == [scheduled EXCEPT ![a] = version]
           blocked == heap[a][version].disabled \/ heap[a][version].retry[m] > clock
           sh == Upserted(a, version)
<1>1. /\ task[g].steps # <<>> /\ Head(task[g].steps) = "upsertModel"
      /\ scheduled' = metas /\ newest' = [newest EXCEPT ![a] = Larger(@, version)]
      /\ shards' = IF blocked THEN Ensured(metas, sh, m) ELSE sh
      /\ shared' = IF blocked THEN shared \ {m} ELSE shared
      /\ flattened' = flattened \cup Unfit(a, version)
      /\ NextStep(g) /\ UNCHANGED <<heap, object, file, saver, revived, clock>>
  BY DEF UpsertForModel, memory, disk_, timing
<1>2. task[g].steps = <<"upsertModel">> /\ <<"upsertModel">> \in ToReport
  BY <1>1, TailList DEF SchedInv, TaskTypes, Tasks, ToReport
<1>3. /\ a \in Creds /\ version \in 1..Len(heap[a]) /\ m \in Models
      /\ ~heap[a][version].gone
  BY <1>2 DEF SchedInv, TaskTypes
<1>4. /\ heap[a][version].retry[m] \in Int /\ clock \in Nat /\ HeapTypes
      /\ DOMAIN shards \subseteq Models \cup {Shared}
  BY <1>3, HeapElements DEF SchedInv, HeapTypes, ShardTypes
<1> HIDE DEF a, version, m
<1>5. /\ DOMAIN sh = DOMAIN shards /\ sh = [k \in DOMAIN sh |-> sh[k]]
      /\ \A k \in DOMAIN sh, b \in Creds : sh[k][b] = 0 =>
           \/ b = a /\ MayServe(a, heap[a][version], k)
           \/ b # a /\ shards[k][b] = 0
  BY <1>3, UpsertedFits
<1>6. metas[a] = version /\ \A b \in Creds : metas[b] \in 1..Len(heap[b])
  BY <1>3, <1>4 DEF HeapTypes
<1> HIDE DEF sh, metas
<1>7. \A k \in Models \cup {Shared}, b \in Creds :
        Entry(b, heap[b][metas[b]], k) = 0 => MayServe(b, heap[b][metas[b]], k)
  BY <1>4, <1>6, EntryFits, HeapElements
<1>8. /\ DOMAIN shards \subseteq DOMAIN shards' /\ DOMAIN shards' \subseteq DOMAIN shards \cup {m}
      /\ shards' = [k \in DOMAIN shards' |-> shards'[k]]
      /\ \A k \in DOMAIN shards', b \in Creds : shards'[k][b] = 0 =>
           \/ MayServe(b, heap[b][metas[b]], k)
           \/ b # a /\ k \in DOMAIN shards /\ shards[k][b] = 0
      /\ blocked => m \in DOMAIN shards'
  <2>1. CASE ~blocked
    BY <1>1, <1>5, <1>6, <2>1
  <2>2. CASE blocked
    <3>1. shards' = Ensured(metas, sh, m)
      BY <1>1, <2>2
    <3>2. /\ DOMAIN shards' = DOMAIN sh \cup {m} /\ shards' = [k \in DOMAIN shards' |-> shards'[k]]
          /\ \A k \in DOMAIN shards', b \in Creds :
               \/ shards'[k][b] = Entry(b, heap[b][metas[b]], k)
               \/ k \in DOMAIN sh /\ shards'[k][b] = sh[k][b]
      BY <3>1 DEF Ensured
    <3>3. ASSUME NEW k \in DOMAIN shards', NEW b \in Creds, shards'[k][b] = 0
          PROVE  \/ MayServe(b, heap[b][metas[b]], k)
                 \/ b # a /\ k \in DOMAIN shards /\ shards[k][b] = 0
      <4>1. CASE shards'[k][b] = Entry(b, heap[b][metas[b]], k)
        BY <1>3, <1>4, <1>5, <1>7, <3>2, <3>3, <4>1
      <4>2. CASE k \in DOMAIN sh /\ shards'[k][b] = sh[k][b]
        BY <1>5, <1>6, <3>3, <4>2
      <4> QED
        BY <3>2, <4>1, <4>2
    <3> QED
      BY <1>5, <3>2, <3>3
  <2> QED
    BY <2>1, <2>2
<1>9. ShardTypes'
  BY <1>1, <1>3, <1>8 DEF SchedInv, ShardTypes
<1>10. ASSUME NEW n \in shared'
       PROVE  \/ n \in flattened'
              \/ n \in shared /\ (Listed(heap[a][version]) => n \in Supports[a])
  BY <1>1, <1>3, <1>10 DEF Unfit, SchedInv, SharedFit
<1>11. m \in DOMAIN shards' \/ heap[a][version].retry[m] <= clock
  BY <1>4, <1>8
<1>12. TakesOver(g, a, version)
  BY <1>1, <1>2, <1>8, <1>9, <1>10, <1>11 DEF TakesOver, a, version, m, metas
<1> QED
  BY <1>3, <1>12, TakesOverStep

-----------------------------------------------------------------------------
(* The files, the rebuild and the clock.                                   *)

\* Nothing of the scheduler's changes, nor what the goroutine has for it.
LEMMA FileStep ==
  ASSUME SchedInv, NEW g \in Callers,
         task' \in [Callers -> Tasks], \A h \in Callers \ {g} : task'[h] = task[h],
         task'[g].auth = task[g].auth, task'[g].model = task[g].model,
         task'[g].version = task[g].version,
         task[g].steps \notin ToUpsert, task[g].steps # <<"update">>,
         task'[g].steps \notin ToUpsert \cup ToPick \cup {<<"update">>},
         task'[g].steps \in ToReport <=> task[g].steps \in ToReport,
         UNCHANGED <<memory, index, timing>>
  PROVE  /\ HeapTypes' /\ TaskTypes' /\ ShardTypes'
         /\ Arrives' /\ ShardsFit' /\ SharedFit' /\ CoolingNoted'
<1> USE DEF SchedInv
<1>1. UNCHANGED <<heap, object, scheduled, shards, shared, newest, flattened, clock>>
  BY DEF memory, index, timing
<1>2. HeapTypes' /\ ShardTypes' /\ SharedFit'
  BY <1>1 DEF HeapTypes, ShardTypes, SharedFit
<1>3. TaskTypes'
  <2>1. task'[g].steps # <<"rebuild", "again">>
    BY Kinds
  <2> QED
    BY <1>1, <2>1 DEF TaskTypes
<1>4. \A h \in Callers, a \in Creds :
        Reaching(h, a)' = Reaching(h, a) /\ task'[h].version = task[h].version
  BY DEF Reaching
<1>5. Arrives'
  BY <1>1, <1>4 DEF Arrives, Current
<1>6. ShardsFit'
  BY <1>1, <1>4 DEF ShardsFit, OnItsWay, MayServe
<1>7. CoolingNoted'
  <2>1. ASSUME NEW a \in Creds, NEW m \in Models, NEW retry, Reports(a, m, retry)
        PROVE  Reports(a, m, retry)'
    BY <1>1, <2>1 DEF Reports
  <2>2. ASSUME NEW a \in Creds, NEW m \in Models, NEW content, Noted(a, m, content)
        PROVE  Noted(a, m, content)'
    BY <1>1, <2>1, <2>2 DEF Noted
  <2>3. ASSUME NEW a \in Creds, NEW m \in Models, NEW v \in 1..Len(heap'[a])
        PROVE  Noted(a, m, heap[a][v])'
    BY <1>1, <2>2 DEF CoolingNoted, Noted, Reports
  <2>4. ASSUME NEW h \in Callers, NEW m \in Models, task'[h].steps = <<"update">>
        PROVE  Noted(task[h].auth, m, task[h].copy)'
    <3>1. task'[h] = task[h] /\ task[h].steps = <<"update">>
      BY <2>4
    <3>2. PICK a \in Creds : \E content : a = task[h].auth /\ content = task[h].copy
      BY <3>1 DEF TaskTypes
    <3>3. PICK content : content = task[h].copy /\ Noted(a, m, content)
      BY <3>1, <3>2 DEF CoolingNoted
    <3>4. Noted(a, m, content)'
      BY <2>2, <3>3
    <3> QED
      BY <3>1, <3>2, <3>3, <3>4 DEF Noted, Reports
  <2> QED
    BY <2>3, <2>4 DEF CoolingNoted
<1> QED
  BY <1>2, <1>3, <1>5, <1>6, <1>7

LEMMA ReadRecordsStep ==
  ASSUME SchedInv, NEW g \in Callers, ReadRecords(g)
  PROVE  SchedInv'
<1> USE DEF SchedInv
<1> DEFINE found == [a \in Creds |-> Records(a)]
<1>1. /\ task[g].steps # <<>> /\ Head(task[g].steps) = "read"
      /\ saver = Nobody /\ saver' = g
      /\ task' = [task EXCEPT ![g] = [task[g] EXCEPT !.steps = Tail(task[g].steps),
                                                    !.records = found]]
      /\ UNCHANGED <<memory, index, file, timing>>
  <2> HIDE DEF SchedInv
  <2> QED
    BY DEF ReadRecords
<1>2. /\ task[g] \in Tasks /\ task \in [Callers -> Tasks] /\ task[g].steps \in StepLists
  BY DEF TaskTypes, Tasks
<1>3. \/ task[g].steps = <<"read", "write">> /\ Tail(task[g].steps) = <<"write">>
      \/ /\ task[g].steps = <<"read", "write", "upsertModel">>
         /\ Tail(task[g].steps) = <<"write", "upsertModel">>
  BY <1>1, <1>2, TailList
<1> DEFINE left == Tail(task[g].steps)
<1>4. /\ left \in ToWrite /\ left \in StepLists
      /\ left \notin ToUpsert \cup ToPick \cup {<<"update">>}
      /\ task[g].steps \notin ToUpsert /\ task[g].steps # <<"update">>
      /\ left \in ToReport <=> task[g].steps \in ToReport
  <2>1. CASE task[g].steps = <<"read", "write">> /\ left = <<"write">>
    BY <2>1 DEF ToWrite, StepLists, ToUpsert, ToPick, ToReport
  <2>2. CASE /\ task[g].steps = <<"read", "write", "upsertModel">>
             /\ left = <<"write", "upsertModel">>
    BY <2>2 DEF ToWrite, StepLists, ToUpsert, ToPick, ToReport
  <2> QED
    BY <1>3, <2>1, <2>2
<1> HIDE DEF left
<1>5. found \in [Creds -> [Models -> Int]]
  <2>1. ASSUME NEW a \in Creds PROVE Records(a) \in [Models -> Int]
    <3>1. Present(a) => heap[a][object[a]].retry \in [Models -> Int]
      BY HeapElements DEF HeapTypes, Present
    <3> QED
      BY <3>1 DEF Records, Retry, Unused
  <2> QED
    BY <2>1
<1>6. \A a \in Creds, m \in Models : Present(a) => found[a][m] = Retry(a, m)
  BY DEF Records
<1> HIDE DEF found
<1>7. [task[g] EXCEPT !.steps = left, !.records = found] \in Tasks
  BY <1>2, <1>4, <1>5 DEF Tasks
<1>8. /\ task' \in [Callers -> Tasks] /\ \A h \in Callers \ {g} : task'[h] = task[h]
      /\ task'[g].steps = left /\ task'[g].records = found
      /\ task'[g].auth = task[g].auth /\ task'[g].model = task[g].model
      /\ task'[g].version = task[g].version
  BY <1>1, <1>2, <1>7 DEF left, Tasks
<1>9. /\ HeapTypes' /\ TaskTypes' /\ ShardTypes'
      /\ Arrives' /\ ShardsFit' /\ SharedFit' /\ CoolingNoted'
  BY <1>1, <1>4, <1>8, FileStep
<1>10. SaverTypes'
  BY <1>1, <1>4, <1>8, SchedulerBounds DEF SaverTypes
<1>11. OnFile'
  <2>1. Saved' = found
    BY <1>1, <1>8, SchedulerBounds DEF Saved
  <2>2. \A a \in Creds, m \in Models :
          Cooling(a, m)' => Present(a) /\ Retry(a, m)' = Retry(a, m)
    BY <1>1 DEF Cooling, Present, Retry, memory, timing
  <2> QED
    BY <1>6, <2>1, <2>2 DEF OnFile
<1> QED
  BY <1>9, <1>10, <1>11

LEMMA WriteFilesStep ==
  ASSUME SchedInv, NEW g \in Callers, WriteFiles(g)
  PROVE  SchedInv'
<1> USE DEF SchedInv
<1>1. /\ task[g].steps # <<>> /\ Head(task[g].steps) = "write" /\ NextStep(g)
      /\ file' = task[g].records /\ saver' = Nobody
      /\ UNCHANGED <<memory, index, revived, timing>>
  BY DEF WriteFiles
<1>2. task[g] \in Tasks /\ task[g].steps \in StepLists
  BY DEF TaskTypes, Tasks
<1>3. \/ task[g].steps = <<"write">> /\ Tail(task[g].steps) = <<>>
      \/ task[g].steps = <<"write", "upsertModel">> /\ Tail(task[g].steps) = <<"upsertModel">>
  BY <1>1, <1>2, TailList
<1>4. /\ task' \in [Callers -> Tasks] /\ \A h \in Callers \ {g} : task'[h] = task[h]
      /\ task'[g].steps = Tail(task[g].steps)
      /\ task'[g].auth = task[g].auth /\ task'[g].model = task[g].model
      /\ task'[g].version = task[g].version
  BY <1>1, Stepped
<1> DEFINE left == Tail(task[g].steps)
<1>5. /\ task[g].steps \in ToWrite /\ left \notin ToWrite /\ left \notin ToRead
      /\ left \notin ToUpsert \cup ToPick \cup {<<"update">>}
      /\ task[g].steps \notin ToUpsert \cup ToRead /\ task[g].steps # <<"update">>
      /\ left \in ToReport <=> task[g].steps \in ToReport
  <2>1. CASE task[g].steps = <<"write">> /\ left = <<>>
    BY <2>1 DEF ToWrite, ToRead, ToUpsert, ToPick, ToReport
  <2>2. CASE task[g].steps = <<"write", "upsertModel">> /\ left = <<"upsertModel">>
    BY <2>2 DEF ToWrite, ToRead, ToUpsert, ToPick, ToReport
  <2> QED
    BY <1>3, <2>1, <2>2
<1> HIDE DEF left
<1>6. task'[g].steps = left
  BY <1>4 DEF left
<1>7. /\ HeapTypes' /\ TaskTypes' /\ ShardTypes'
      /\ Arrives' /\ ShardsFit' /\ SharedFit' /\ CoolingNoted'
  BY <1>1, <1>4, <1>5, <1>6, FileStep
<1>8. saver = g /\ g # Nobody
  BY <1>5, SchedulerBounds DEF SaverTypes
<1>9. SaverTypes'
  BY <1>1, <1>2, <1>4, <1>5, <1>6, <1>8, SchedulerBounds DEF SaverTypes, Tasks
<1>10. OnFile'
  <2>1. Saved' = Saved
    BY <1>1, <1>8 DEF Saved
  <2>2. \A h \in Callers : task[h].steps \in ToRead => task'[h].steps \in ToRead
    BY <1>4, <1>5
  <2>3. UNCHANGED <<heap, object, clock, revived>>
    BY <1>1 DEF memory, timing
  <2> QED
    BY <2>1, <2>2, <2>3 DEF OnFile, Cooling, Present, Retry
<1> QED
  BY <1>7, <1>9, <1>10

LEMMA SchedTickStep ==
  ASSUME SchedInv, SchedTick
  PROVE  SchedInv'
<1> USE DEF SchedInv
<1>1. /\ clock \in Nat /\ clock' = clock + 1
      /\ UNCHANGED <<heap, object, scheduled, shards, shared, newest, flattened>>
      /\ UNCHANGED <<file, saver, revived, task>>
  BY DEF SchedTick, HeapTypes, memory, index, disk_
<1>2. HeapTypes' /\ TaskTypes' /\ SaverTypes' /\ ShardTypes' /\ Arrives' /\ SharedFit'
  <2>1. HeapTypes' /\ ShardTypes' /\ SharedFit'
    BY <1>1 DEF HeapTypes, ShardTypes, SharedFit
  <2>2. TaskTypes' /\ SaverTypes'
    BY <1>1 DEF TaskTypes, SaverTypes
  <2>3. Arrives'
    BY <1>1 DEF Arrives, Reaching, Current
  <2> QED
    BY <2>1, <2>2, <2>3
<1>3. OnFile'
  <2>1. ASSUME NEW a \in Creds, NEW m \in Models, Cooling(a, m)'
        PROVE  Cooling(a, m)
    <3>1. ~heap[a][object[a]].gone /\ heap[a][object[a]].retry[m] > clock + 1
      BY <1>1, <2>1 DEF Cooling, Present, Retry
    <3>2. heap[a][object[a]].retry[m] \in Int
      BY <3>1, HeapElements DEF HeapTypes
    <3> QED
      BY <1>1, <3>1, <3>2 DEF Cooling, Present, Retry
  <2> QED
    BY <1>1, <2>1 DEF OnFile, Saved, Retry
<1>4. ShardsFit'
  <2>1. ASSUME NEW k \in DOMAIN shards, NEW a \in Creds, MayServe(a, heap[a][scheduled[a]], k)
        PROVE  MayServe(a, heap[a][scheduled[a]], k)'
    <3>1. heap[a][scheduled[a]] \in AuthStates /\ ~heap[a][scheduled[a]].gone
      BY <2>1, HeapElements DEF HeapTypes, MayServe, Listed
    <3>2. heap[a][scheduled[a]].retry \in [Models -> Int]
      BY <3>1, FreshIsKnown DEF AuthStates
    <3>3. k # Shared => heap[a][scheduled[a]].retry[k] \in Int
      BY <3>2 DEF ShardTypes
    <3> QED
      BY <1>1, <2>1, <3>3 DEF MayServe
  <2> QED
    BY <1>1, <2>1 DEF ShardsFit, OnItsWay, Reaching
<1>5. CoolingNoted'
  <2>1. ASSUME NEW a \in Creds, NEW m \in Models, NEW content \in AuthStates,
               Noted(a, m, content)
        PROVE  Noted(a, m, content)'
    <3>1. ~content.gone => content.retry[m] \in Int
      BY FreshIsKnown DEF AuthStates
    <3> QED
      BY <1>1, <2>1, <3>1 DEF Noted, Reports
  <2>2. ASSUME NEW a \in Creds, NEW m \in Models, NEW v \in 1..Len(heap'[a])
        PROVE  Noted(a, m, heap[a][v])'
    <3>1. PICK content \in AuthStates : content = heap[a][v] /\ Noted(a, m, content)
      BY <1>1, HeapElements DEF CoolingNoted
    <3>2. Noted(a, m, content)'
      BY <2>1, <3>1
    <3> QED
      BY <1>1, <3>1, <3>2 DEF Noted, Reports
  <2>3. ASSUME NEW h \in Callers, NEW m \in Models, task'[h].steps = <<"update">>
        PROVE  Noted(task[h].auth, m, task[h].copy)'
    <3>1. task'[h] = task[h] /\ task[h] \in Tasks
      BY <1>1 DEF TaskTypes
    <3>2. PICK a \in Creds, content \in AuthStates : a = task[h].auth /\ content = task[h].copy
      BY <2>3, <3>1 DEF TaskTypes, Tasks
    <3>3. Noted(a, m, content)'
      BY <2>1, <2>3, <3>1, <3>2 DEF CoolingNoted
    <3> QED
      BY <1>1, <3>2, <3>3 DEF Noted, Reports
  <2> QED
    BY <2>2, <2>3 DEF CoolingNoted
<1> QED
  BY <1>2, <1>3, <1>4, <1>5

LEMMA SnapshotStep ==
  ASSUME SchedInv, NEW g \in Callers, Snapshot(g)
  PROVE  SchedInv'
<1> USE DEF SchedInv
<1> DEFINE seen == [a \in Creds |-> IF Present(a) THEN Clone(a) ELSE object[a]]
<1>1. /\ task[g].steps # <<>> /\ Head(task[g].steps) = "snapshot"
      /\ heap' = [a \in Creds |-> IF Present(a) THEN Append(heap[a], heap[a][object[a]])
                                  ELSE heap[a]]
      /\ task' = [task EXCEPT ![g] = [task[g] EXCEPT !.steps = Tail(task[g].steps),
                                                    !.versions = seen]]
      /\ UNCHANGED <<object, file, saver, revived, clock>>
      /\ UNCHANGED <<scheduled, shards, shared, newest, flattened>>
  <2> HIDE DEF SchedInv
  <2> QED
    BY DEF Snapshot, index, disk_, timing
<1>2. task[g] \in Tasks /\ task \in [Callers -> Tasks] /\ task[g].steps \in StepLists
  BY DEF TaskTypes, Tasks
<1>3. /\ task[g].steps = <<"snapshot", "rebuild", "again">>
      /\ Tail(task[g].steps) = <<"rebuild", "again">>
  BY <1>1, <1>2, TailList
<1>4. \A a \in Creds :
        /\ heap[a] \in Seq(AuthStates) /\ Len(heap[a]) \in Nat
        /\ object[a] \in 1..Len(heap[a]) /\ heap[a][object[a]] \in AuthStates
  BY HeapElements DEF HeapTypes
<1>5. ASSUME NEW a \in Creds
      PROVE  /\ heap'[a] \in Seq(AuthStates)
             /\ Len(heap[a]) <= Len(heap'[a]) /\ Len(heap'[a]) <= Len(heap[a]) + 1
             /\ \A v \in 1..Len(heap[a]) : heap'[a][v] = heap[a][v]
             /\ \A v \in 1..Len(heap'[a]) :
                  v \in 1..Len(heap[a]) \/ heap'[a][v] = heap[a][object[a]]
             /\ seen[a] \in 1..Len(heap'[a])
  <2>1. CASE Present(a)
    <3>1. heap'[a] = Append(heap[a], heap[a][object[a]]) /\ seen[a] = Len(heap[a]) + 1
      BY <1>1, <2>1 DEF Clone
    <3>2. /\ heap'[a] \in Seq(AuthStates) /\ Len(heap'[a]) = Len(heap[a]) + 1
          /\ heap'[a][Len(heap[a]) + 1] = heap[a][object[a]]
          /\ \A v \in 1..Len(heap[a]) : heap'[a][v] = heap[a][v]
      BY <1>4, <3>1, AppendProperties
    <3> HIDE DEF seen
    <3> QED
      BY <1>4, <3>1, <3>2
  <2>2. CASE ~Present(a)
    BY <1>1, <1>4, <2>2
  <2> QED
    BY <2>1, <2>2
<1>6. \A a \in Creds : Len(heap'[a]) \in Nat
  BY <1>5
<1>7. seen \in [Creds -> Nat]
  <2>1. \A a \in Creds : seen[a] \in Nat
    BY <1>5, <1>6
  <2> QED
    BY <2>1
<1> HIDE DEF seen
<1>8. /\ task' \in [Callers -> Tasks] /\ \A h \in Callers \ {g} : task'[h] = task[h]
      /\ task'[g].steps = <<"rebuild", "again">> /\ task'[g].versions = seen
      /\ task'[g].model = task[g].model
  <2> DEFINE after == [task[g] EXCEPT !.steps = <<"rebuild", "again">>, !.versions = seen]
  <2>1. <<"rebuild", "again">> \in StepLists
    BY DEF StepLists, ToPick
  <2>2. /\ after \in Tasks /\ after.steps = <<"rebuild", "again">>
        /\ after.versions = seen /\ after.model = task[g].model
    BY <1>2, <1>7, <2>1 DEF Tasks
  <2>3. task' = [task EXCEPT ![g] = after]
    BY <1>1, <1>3
  <2> HIDE DEF after
  <2> QED
    BY <1>2, <2>2, <2>3
<1>9. /\ task[g].steps \in ToPick
      /\ task[g].steps \notin ToUpsert \cup ToReport \cup ToRead \cup ToWrite \cup {<<"update">>}
      /\ task'[g].steps \notin ToUpsert \cup ToReport \cup ToRead \cup ToWrite \cup {<<"update">>}
  <2>1. task[g].steps \in ToPick /\ task'[g].steps \in ToPick
    BY <1>3, <1>8 DEF ToPick
  <2> QED
    BY <2>1, Kinds
<1>10. HeapTypes' /\ SaverTypes' /\ ShardTypes'
  <2>1. HeapTypes'
    <3>1. heap' \in [Creds -> Seq(AuthStates)]
      BY <1>1, <1>5
    <3>2. ASSUME NEW a \in Creds
          PROVE  object[a] \in 1..Len(heap'[a]) /\ newest[a] <= Len(heap'[a])
      BY <1>4, <1>5, <1>6 DEF HeapTypes
    <3> QED
      BY <1>1, <3>1, <3>2 DEF HeapTypes
  <2> QED
    BY <1>1, <1>8, <1>9, <2>1 DEF SaverTypes, ShardTypes
<1>11. TaskTypes'
  <2>1. ASSUME NEW h \in Callers \ {g}
        PROVE  /\ task'[h].steps \in ToUpsert \cup ToReport =>
                    task'[h].auth \in Creds /\ task'[h].version \in 1..Len(heap'[task'[h].auth])
               /\ task'[h].steps \in ToReport =>
                    /\ task'[h].model \in Models /\ task'[h].version # object'[task'[h].auth]
                    /\ ~heap'[task'[h].auth][task'[h].version].gone
               /\ task'[h].steps = <<"update">> => task'[h].auth \in Creds /\ ~task'[h].copy.gone
               /\ task'[h].steps \in ToPick => task'[h].model \in Models
               /\ task'[h].steps = <<"rebuild", "again">> =>
                    \A b \in Creds : task'[h].versions[b] \in 1..Len(heap'[b])
    <3>1. task'[h] = task[h]
      BY <1>8
    <3>2. ASSUME task[h].steps \in ToUpsert \cup ToReport
          PROVE  /\ task[h].auth \in Creds /\ task[h].version \in 1..Len(heap[task[h].auth])
                 /\ task[h].version \in 1..Len(heap'[task[h].auth])
                 /\ heap'[task[h].auth][task[h].version] = heap[task[h].auth][task[h].version]
      <4>1. task[h].auth \in Creds /\ task[h].version \in 1..Len(heap[task[h].auth])
        BY <3>2 DEF TaskTypes
      <4>2. PICK b \in Creds : b = task[h].auth
        BY <4>1
      <4> QED
        BY <1>4, <1>5, <1>6, <4>1, <4>2
    <3>3. ASSUME task[h].steps = <<"rebuild", "again">>, NEW b \in Creds
          PROVE  task[h].versions[b] \in 1..Len(heap'[b])
      <4>1. task[h].versions[b] \in 1..Len(heap[b])
        BY <3>3 DEF TaskTypes
      <4> QED
        BY <1>4, <1>5, <1>6, <4>1
    <3> QED
      BY <1>1, <3>1, <3>2, <3>3 DEF TaskTypes
  <2>2. \A b \in Creds : task'[g].versions[b] \in 1..Len(heap'[b])
    BY <1>5, <1>8 DEF seen
  <2>3. task'[g].model \in Models
    BY <1>8, <1>9 DEF TaskTypes
  <2> QED
    BY <1>8, <1>9, <2>1, <2>2, <2>3 DEF TaskTypes
<1>12. \A a \in Creds : Reaching(g, a)' = FALSE /\ Reaching(g, a) = FALSE
  BY <1>9 DEF Reaching
<1>13. ASSUME NEW a \in Creds
       PROVE  /\ heap'[a][object[a]] = heap[a][object[a]]
              /\ heap'[a][scheduled[a]] = heap[a][scheduled[a]]
              /\ newest[a] \in 1..Len(heap[a])
  <2>1. /\ scheduled[a] \in Nat /\ newest[a] \in Nat
        /\ scheduled[a] \in 1..newest[a] /\ newest[a] <= Len(heap[a])
    BY DEF HeapTypes
  <2>2. scheduled[a] \in 1..Len(heap[a]) /\ newest[a] \in 1..Len(heap[a])
    BY <1>4, <2>1
  <2> QED
    BY <1>4, <1>5, <2>2
<1>14. Arrives'
  <2>1. ASSUME NEW a \in Creds, NEW v \in 1..Len(heap[a]), Current(a, v)
        PROVE  \A w \in v..Len(heap'[a]) : heap'[a][w] = heap'[a][object[a]]
    <3>1. ASSUME NEW w \in v..Len(heap'[a])
          PROVE  heap'[a][w] = heap[a][object[a]]
      <4>1. w \in 1..Len(heap'[a])
        BY <1>4, <1>6
      <4>2. CASE w \in 1..Len(heap[a])
        <5>1. w \in v..Len(heap[a])
          BY <1>4, <1>6, <4>2
        <5> QED
          BY <1>5, <2>1, <4>2, <5>1 DEF Current
      <4> QED
        BY <1>5, <4>1, <4>2
    <3> QED
      BY <1>13, <3>1
  <2>2. ASSUME NEW a \in Creds
        PROVE  \/ Current(a, newest[a])'
               \/ \E h \in Callers : Reaching(h, a)' /\ Current(a, task[h].version)'
    <3>1. CASE Current(a, newest[a])
      <4>1. Current(a, newest[a])'
        BY <1>1, <1>13, <2>1, <3>1 DEF Current
      <4> QED
        BY <4>1
    <3>2. CASE \E h \in Callers : Reaching(h, a) /\ Current(a, task[h].version)
      <4>1. PICK h \in Callers : Reaching(h, a) /\ Current(a, task[h].version)
        BY <3>2
      <4>2. task'[h] = task[h] /\ task[h].version \in 1..Len(heap[a])
        BY <1>8, <1>12, <4>1 DEF Reaching, TaskTypes
      <4>3. PICK v \in 1..Len(heap[a]) : v = task[h].version /\ Current(a, v)
        BY <4>1, <4>2
      <4>4. \A w \in v..Len(heap'[a]) : heap'[a][w] = heap'[a][object[a]]
        BY <2>1, <4>3
      <4>5. Current(a, task[h].version)'
        BY <1>1, <4>2, <4>3, <4>4 DEF Current
      <4> QED
        BY <4>1, <4>2, <4>5 DEF Reaching
    <3> QED
      BY <3>1, <3>2 DEF Arrives
  <2> QED
    BY <2>2 DEF Arrives
<1>15. OnFile'
  <2>1. Saved' = Saved
    BY <1>1, <1>8, <1>9 DEF Saved, SaverTypes
  <2>2. \A h \in Callers : task[h].steps \in ToRead => task'[h].steps \in ToRead
    BY <1>8, <1>9
  <2>3. \A a \in Creds, m \in Models :
          Cooling(a, m)' = Cooling(a, m) /\ Retry(a, m)' = Retry(a, m)
    BY <1>1, <1>13 DEF Cooling, Present, Retry
  <2> QED
    BY <1>1, <2>1, <2>2, <2>3 DEF OnFile
<1>16. ShardsFit' /\ SharedFit'
  <2>1. \A a \in Creds : OnItsWay(a) => OnItsWay(a)'
    BY <1>1, <1>8, <1>9 DEF OnItsWay, Reaching
  <2> QED
    BY <1>1, <1>13, <2>1 DEF ShardsFit, SharedFit, MayServe
<1>17. CoolingNoted'
  <2>1. ASSUME NEW a \in Creds, NEW m \in Models, NEW retry, Reports(a, m, retry)
        PROVE  Reports(a, m, retry)'
    <3>1. PICK h \in Callers :
            /\ task[h].steps \in ToReport /\ task[h].auth = a /\ task[h].model = m
            /\ heap[a][task[h].version].retry[m] >= retry
      BY <2>1 DEF Reports
    <3>2. task'[h] = task[h] /\ task[h].version \in 1..Len(heap[a])
      BY <1>8, <1>9, <3>1 DEF TaskTypes
    <3>3. heap'[a][task[h].version] = heap[a][task[h].version]
      BY <1>5, <3>2
    <3> QED
      BY <3>1, <3>2, <3>3 DEF Reports
  <2>2. ASSUME NEW a \in Creds, NEW m \in Models, NEW content, Noted(a, m, content)
        PROVE  Noted(a, m, content)'
    BY <1>1, <2>1, <2>2 DEF Noted
  <2>3. ASSUME NEW a \in Creds, NEW m \in Models, NEW v \in 1..Len(heap'[a])
        PROVE  Noted(a, m, heap[a][v])'
    <3>1. PICK w \in 1..Len(heap[a]) : heap'[a][v] = heap[a][w]
      BY <1>4, <1>5
    <3>2. PICK content : content = heap[a][w] /\ Noted(a, m, content)
      BY <3>1 DEF CoolingNoted
    <3>3. Noted(a, m, content)'
      BY <2>2, <3>2
    <3> QED
      BY <3>1, <3>2, <3>3 DEF Noted, Reports
  <2>4. ASSUME NEW h \in Callers, NEW m \in Models, task'[h].steps = <<"update">>
        PROVE  Noted(task[h].auth, m, task[h].copy)'
    <3>1. task'[h] = task[h] /\ task[h].steps = <<"update">>
      BY <1>8, <1>9, <2>4
    <3>2. PICK a \in Creds : a = task[h].auth
      BY <3>1 DEF TaskTypes
    <3>3. PICK content : content = task[h].copy /\ Noted(a, m, content)
      BY <3>1, <3>2 DEF CoolingNoted
    <3>4. Noted(a, m, content)'
      BY <2>2, <3>3
    <3> QED
      BY <3>1, <3>2, <3>3, <3>4 DEF Noted, Reports
  <2> QED
    BY <2>3, <2>4 DEF CoolingNoted
<1> QED
  BY <1>10, <1>11, <1>14, <1>15, <1>16, <1>17

\* syncScheduler
LEMMA RebuildStep ==
  ASSUME SchedInv, NEW g \in Callers, Rebuild(g)
  PROVE  SchedInv'
<1> USE DEF SchedInv
<1>1. /\ task[g].steps # <<>> /\ Head(task[g].steps) = "rebuild" /\ NextStep(g)
      /\ scheduled' = task[g].versions
      /\ newest' = [a \in Creds |-> Larger(newest[a], task[g].versions[a])]
      /\ shards' = <<>> /\ shared' = {}
      /\ flattened' = flattened \cup (DOMAIN shards \ {Shared})
      /\ UNCHANGED <<heap, object, file, saver, revived, clock>>
  <2> HIDE DEF SchedInv
  <2> QED
    BY DEF Rebuild, memory, disk_, timing
<1>2. task[g] \in Tasks /\ task[g].steps \in StepLists /\ task[g].versions \in [Creds -> Nat]
  BY DEF TaskTypes, Tasks
<1>3. task[g].steps = <<"rebuild", "again">> /\ Tail(task[g].steps) = <<"again">>
  BY <1>1, <1>2, TailList
<1>4. /\ task' \in [Callers -> Tasks] /\ \A h \in Callers \ {g} : task'[h] = task[h]
      /\ task'[g].steps = <<"again">> /\ task'[g].model = task[g].model
  BY <1>1, <1>3, Stepped
<1>5. /\ task[g].steps \in ToPick
      /\ task[g].steps \notin ToUpsert \cup ToReport \cup ToRead \cup ToWrite \cup {<<"update">>}
      /\ task'[g].steps \notin ToUpsert \cup ToReport \cup ToRead \cup ToWrite \cup {<<"update">>}
      /\ task'[g].steps # <<"rebuild", "again">>
  BY <1>3, <1>4, Kinds
<1>6. ASSUME NEW a \in Creds
      PROVE  /\ scheduled'[a] \in 1..Len(heap[a]) /\ newest[a] <= newest'[a]
             /\ newest'[a] \in Nat /\ newest'[a] <= Len(heap[a]) /\ scheduled'[a] <= newest'[a]
  <2>1. task[g].versions[a] \in 1..Len(heap[a])
    BY <1>3 DEF TaskTypes
  <2>2. newest[a] \in Nat /\ newest[a] <= Len(heap[a]) /\ Len(heap[a]) \in Nat
    BY DEF HeapTypes
  <2>3. newest'[a] = Larger(newest[a], task[g].versions[a])
    BY <1>1
  <2> QED
    BY <1>1, <2>1, <2>2, <2>3 DEF Larger
<1>7. HeapTypes'
  <2>1. newest' \in [Creds -> Nat] /\ scheduled' \in [Creds -> Nat]
    BY <1>1, <1>2, <1>6
  <2>2. ASSUME NEW a \in Creds
        PROVE  scheduled'[a] \in 1..newest'[a] /\ newest'[a] <= Len(heap[a])
    <3>1. Len(heap[a]) \in Nat
      BY DEF HeapTypes
    <3> QED
      BY <1>6, <3>1
  <2> QED
    BY <1>1, <2>1, <2>2 DEF HeapTypes
<1>8. TaskTypes' /\ SaverTypes'
  <2>1. ASSUME NEW h \in Callers \ {g}
        PROVE  /\ task'[h].steps \in ToUpsert \cup ToReport =>
                    task'[h].auth \in Creds /\ task'[h].version \in 1..Len(heap'[task'[h].auth])
               /\ task'[h].steps \in ToReport =>
                    /\ task'[h].model \in Models /\ task'[h].version # object'[task'[h].auth]
                    /\ ~heap'[task'[h].auth][task'[h].version].gone
               /\ task'[h].steps = <<"update">> => task'[h].auth \in Creds /\ ~task'[h].copy.gone
               /\ task'[h].steps \in ToPick => task'[h].model \in Models
               /\ task'[h].steps = <<"rebuild", "again">> =>
                    \A b \in Creds : task'[h].versions[b] \in 1..Len(heap'[b])
    BY <1>1, <1>4 DEF TaskTypes
  <2>2. task'[g].model \in Models
    BY <1>4, <1>5 DEF TaskTypes
  <2> QED
    BY <1>1, <1>4, <1>5, <2>1, <2>2 DEF TaskTypes, SaverTypes
<1>9. DOMAIN shards' = {} /\ ShardTypes' /\ ShardsFit' /\ SharedFit'
  <2>1. DOMAIN shards' = {}
    BY <1>1
  <2>2. shards' = [k \in DOMAIN shards' |-> shards'[k]]
    BY <1>1
  <2> QED
    BY <1>1, <2>1, <2>2 DEF ShardTypes, ShardsFit, SharedFit
<1>10. Arrives'
  <2>1. ASSUME NEW a \in Creds
        PROVE  \/ Current(a, newest[a])'
               \/ \E h \in Callers : Reaching(h, a)' /\ Current(a, task[h].version)'
    <3>1. CASE Current(a, newest[a])
      <4>1. newest[a] \in Nat /\ Len(heap[a]) \in Nat
        BY DEF HeapTypes
      <4>2. \A w \in newest'[a]..Len(heap[a]) : w \in newest[a]..Len(heap[a])
        BY <1>6, <4>1
      <4> QED
        BY <1>1, <3>1, <4>2 DEF Current
    <3>2. CASE \E h \in Callers : Reaching(h, a) /\ Current(a, task[h].version)
      <4>1. PICK h \in Callers : Reaching(h, a) /\ Current(a, task[h].version)
        BY <3>2
      <4>2. h # g
        BY <1>5, <4>1 DEF Reaching
      <4> QED
        BY <1>1, <1>4, <4>1, <4>2 DEF Reaching, Current
    <3> QED
      BY <3>1, <3>2 DEF Arrives
  <2> QED
    BY <2>1 DEF Arrives
<1>11. OnFile'
  <2>1. Saved' = Saved
    BY <1>1, <1>4, <1>5 DEF Saved, SaverTypes
  <2>2. \A h \in Callers : task[h].steps \in ToRead => task'[h].steps \in ToRead
    BY <1>4, <1>5
  <2> QED
    BY <1>1, <2>1, <2>2 DEF OnFile, Cooling, Present, Retry
<1>12. CoolingNoted'
  <2>1. ASSUME NEW a \in Creds, NEW m \in Models, NEW retry, Reports(a, m, retry)
        PROVE  Reports(a, m, retry)'
    <3>1. PICK h \in Callers :
            /\ task[h].steps \in ToReport /\ task[h].auth = a /\ task[h].model = m
            /\ heap[a][task[h].version].retry[m] >= retry
      BY <2>1 DEF Reports
    <3>2. task'[h] = task[h]
      BY <1>4, <1>5, <3>1
    <3> QED
      BY <1>1, <3>1, <3>2 DEF Reports
  <2>2. ASSUME NEW a \in Creds, NEW m \in Models, NEW content, Noted(a, m, content)
        PROVE  Noted(a, m, content)'
    BY <1>1, <2>1, <2>2, SchedulerBounds DEF Noted
  <2>3. ASSUME NEW a \in Creds, NEW m \in Models, NEW v \in 1..Len(heap'[a])
        PROVE  Noted(a, m, heap[a][v])'
    <3>1. PICK content : content = heap[a][v] /\ Noted(a, m, content)
      BY <1>1 DEF CoolingNoted
    <3>2. Noted(a, m, content)'
      BY <2>2, <3>1
    <3> QED
      BY <1>1, <3>1, <3>2 DEF Noted, Reports
  <2>4. ASSUME NEW h \in Callers, NEW m \in Models, task'[h].steps = <<"update">>
        PROVE  Noted(task[h].auth, m, task[h].copy)'
    <3>1. task'[h] = task[h] /\ task[h].steps = <<"update">>
      BY <1>4, <1>5, <2>4
    <3>2. PICK a \in Creds : a = task[h].auth
      BY <3>1 DEF TaskTypes
    <3>3. PICK content : content = task[h].copy /\ Noted(a, m, content)
      BY <3>1, <3>2 DEF CoolingNoted
    <3>4. Noted(a, m, content)'
      BY <2>2, <3>3
    <3> QED
      BY <3>1, <3>2, <3>3, <3>4 DEF Noted, Reports
  <2> QED
    BY <2>3, <2>4 DEF CoolingNoted
<1> QED
  BY <1>7, <1>8, <1>9, <1>10, <1>11, <1>12

-----------------------------------------------------------------------------
(* The invariant, and what follows when no call is under way.              *)

LEMMA SchedInitInv == SchedInit => SchedInv
<1> SUFFICES ASSUME SchedInit PROVE SchedInv
  OBVIOUS
<1>1. PICK restored \in SUBSET {p \in Creds \X Models : p[2] \in Supports[p[1]]} :
        /\ file = [a \in Creds |-> [m \in Models |->
                     IF <<a, m>> \in restored THEN Period ELSE Unused]]
        /\ flattened = {p[2] : p \in restored}
  BY DEF SchedInit
<1>2. /\ heap = [a \in Creds |-> <<[Fresh EXCEPT !.retry = file[a]]>>]
      /\ object = [a \in Creds |-> 1] /\ scheduled = object /\ newest = object
      /\ shards = <<>> /\ shared = {} /\ saver = Nobody /\ clock = 0
      /\ task = [g \in Callers |-> Idle]
  BY DEF SchedInit
<1>3. file \in [Creds -> [Models -> Int]]
  BY <1>1, SchedulerBounds DEF Unused
<1>4. ASSUME NEW a \in Creds
      PROVE  /\ [Fresh EXCEPT !.retry = file[a]] \in AuthStates
             /\ [Fresh EXCEPT !.retry = file[a]].retry = file[a]
  BY <1>3 DEF Fresh, AuthStates
<1>5. ASSUME NEW a \in Creds
      PROVE  /\ heap[a] \in Seq(AuthStates) /\ Len(heap[a]) = 1 /\ heap[a][1] \in AuthStates
             /\ heap[a][1].retry = file[a]
  <2> DEFINE auth == [Fresh EXCEPT !.retry = file[a]]
  <2>1. auth \in AuthStates /\ auth.retry = file[a] /\ heap[a] = <<auth>>
    BY <1>2, <1>4
  <2> HIDE DEF auth
  <2> QED
    BY <2>1
<1>6. ASSUME NEW g \in Callers
      PROVE  task[g] \in Tasks /\ task[g].steps = <<>>
  <2>1. <<>> \in StepLists /\ Nobody \in Creds \cup {Nobody} /\ Shared \in Models \cup {Shared}
    BY DEF StepLists
  <2>2. ASSUME NEW steps \in StepLists, NEW a \in Creds \cup {Nobody},
               NEW m \in Models \cup {Shared}, NEW version \in Nat
        PROVE  Todo(steps, a, m, version) \in Tasks /\ Todo(steps, a, m, version).steps = steps
    BY TodoFields
  <2>3. Idle \in Tasks /\ Idle.steps = <<>>
    BY <2>1, <2>2 DEF Idle
  <2> QED
    BY <1>2, <2>3
<1>7. \A g \in Callers :
        /\ task[g].steps \notin ToUpsert \cup ToReport \cup ToRead \cup ToWrite \cup ToPick
        /\ task[g].steps # <<"update">> /\ task[g].steps # <<"rebuild", "again">>
  BY <1>6, Kinds
<1>8. HeapTypes
  <2>1. heap \in [Creds -> Seq(AuthStates)]
    BY <1>2, <1>5
  <2> QED
    BY <1>2, <1>5, <2>1 DEF HeapTypes
<1>9. TaskTypes /\ SaverTypes
  <2>1. task \in [Callers -> Tasks]
    BY <1>2, <1>6
  <2> QED
    BY <1>2, <1>3, <1>7, <2>1, SchedulerBounds DEF TaskTypes, SaverTypes
<1>10. ShardTypes /\ ShardsFit /\ SharedFit
  BY <1>2 DEF ShardTypes, ShardsFit, SharedFit
<1>11. Arrives
  <2>1. ASSUME NEW a \in Creds PROVE Current(a, newest[a])
    <3>1. newest[a] = 1 /\ object[a] = 1 /\ Len(heap[a]) = 1
      BY <1>2, <1>5
    <3>2. \A w \in 1..1 : w = 1
      OBVIOUS
    <3> QED
      BY <3>1, <3>2 DEF Current
  <2> QED
    BY <2>1 DEF Arrives
<1>12. OnFile
  BY <1>2, <1>5 DEF OnFile, Saved, Retry
<1>13. CoolingNoted
  <2>1. ASSUME NEW a \in Creds, NEW m \in Models, NEW v \in 1..Len(heap[a])
        PROVE  Noted(a, m, heap[a][v])
    <3>1. v = 1 /\ heap[a][v].retry[m] = file[a][m]
      BY <1>5
    <3>2. file[a][m] > 0 => <<a, m>> \in restored
      BY <1>1 DEF Unused
    <3>3. <<a, m>> \in restored => m \in flattened
      BY <1>1
    <3> QED
      BY <1>2, <3>1, <3>2, <3>3 DEF Noted
  <2> QED
    BY <1>7, <2>1 DEF CoolingNoted
<1> QED
  BY <1>8, <1>9, <1>10, <1>11, <1>12, <1>13 DEF SchedInv

LEMMA SchedInductive == SchedInv /\ [SchedNext]_schedVars => SchedInv'
<1> SUFFICES ASSUME SchedInv, [SchedNext]_schedVars PROVE SchedInv'
  OBVIOUS
<1>1. CASE UNCHANGED schedVars
  <2>1. UNCHANGED <<heap, object, scheduled, shards, shared, newest, flattened, file, saver,
                    revived, task, clock>>
    BY <1>1 DEF schedVars, memory, index, disk_, timing
  <2>2. HeapTypes' /\ TaskTypes' /\ SaverTypes' /\ ShardTypes'
    BY <2>1 DEF SchedInv, HeapTypes, TaskTypes, SaverTypes, ShardTypes
  <2>3. Arrives' /\ OnFile'
    BY <2>1 DEF SchedInv, Arrives, Current, Reaching, OnFile, Saved, Cooling, Present, Retry
  <2>4. ShardsFit' /\ SharedFit'
    BY <2>1 DEF SchedInv, ShardsFit, MayServe, OnItsWay, Reaching, SharedFit
  <2>5. CoolingNoted'
    BY <2>1 DEF SchedInv, CoolingNoted, Noted, Reports
  <2> QED
    BY <2>2, <2>3, <2>4, <2>5 DEF SchedInv
<1>2. CASE SchedTick
  BY <1>2, SchedTickStep
<1>3. ASSUME NEW g \in Callers, Continue(g) PROVE SchedInv'
  BY <1>3, UpdateStep, UpsertStep, UpsertForModelStep, SnapshotStep, RebuildStep, PickAgainStep,
     ReadRecordsStep, WriteFilesStep DEF Continue
<1>4. ASSUME NEW g \in Callers, NEW m \in Models, PickNext(g, m) PROVE SchedInv'
  BY <1>4, PickNextStep
<1>5. ASSUME NEW g \in Callers, NEW a \in Creds,
             \/ \E m \in Models, success \in BOOLEAN : MarkResult(g, a, m, success)
             \/ ResetQuota(g, a) \/ Register(g, a) \/ RemoveAuth(g, a) \/ ReadCopy(g, a)
      PROVE  SchedInv'
  BY <1>5, MarkResultStep, ResetQuotaStep, RegisterStep, ReadCopyStep
<1> QED
  BY <1>1, <1>2, <1>3, <1>4, <1>5 DEF SchedNext

\* Nothing is on its way any more.
LEMMA AtLast ==
  ASSUME SchedInv, NoCall
  PROVE  /\ saver = Nobody
         /\ \A a \in Creds : ~OnItsWay(a)
         /\ \A a \in Creds : \/ Overtaken(a)
                             \/ heap[a][scheduled[a]] = heap[a][object[a]]
         /\ \A a \in Creds, m \in Models, retry \in Int : ~Reports(a, m, retry)
         /\ \A g \in Callers : task[g].steps \notin ToRead
<1>1. \A g \in Callers : task[g].steps \notin ToUpsert \cup ToReport \cup ToRead \cup ToWrite
  BY Kinds DEF NoCall
<1>2. saver = Nobody
  BY <1>1 DEF SchedInv, SaverTypes
<1>3. \A a \in Creds : ~OnItsWay(a)
  BY <1>1 DEF OnItsWay, Reaching
<1>4. ASSUME NEW a \in Creds, ~Overtaken(a)
      PROVE  heap[a][scheduled[a]] = heap[a][object[a]]
  <2>1. Current(a, newest[a])
    BY <1>1 DEF SchedInv, Arrives, Reaching
  <2>2. /\ scheduled[a] \in 1..newest[a] /\ newest[a] <= Len(heap[a])
        /\ newest[a] \in Nat /\ Len(heap[a]) \in Nat
    BY DEF SchedInv, HeapTypes
  <2>3. scheduled[a] = newest[a] /\ newest[a] \in newest[a]..Len(heap[a])
    BY <1>4, <2>2 DEF Overtaken
  <2> QED
    BY <2>1, <2>3 DEF Current
<1> QED
  BY <1>1, <1>2, <1>3, <1>4 DEF Reports

\* Whatever the number of calls that overlap, when none is left the scheduler has what
\* the manager has, but for a credential whose newer state an older one overtook on the
\* way.  (MarkResult, Update, Register, Remove, ResetQuota, syncScheduler)
THEOREM SchedulerCatchesUp == SchedSpec => []SchedulerIsCurrent
<1>1. SchedInv => SchedulerIsCurrent
  BY AtLast DEF SchedulerIsCurrent
<1> QED
  BY <1>1, SchedInitInv, SchedInductive, PTL DEF SchedSpec

\* Whatever the number of calls that overlap, when none is left every cooldown is on
\* file, but for those that an Update brought back since the last save.
\* (saveCooldownStates, persistCooldownStates)
THEOREM CooldownsAreSaved == SchedSpec => []CooldownsOnFile
<1>1. SchedInv => CooldownsOnFile
  <2> SUFFICES ASSUME SchedInv, NoCall, NEW a \in Creds, NEW m \in Models, Cooling(a, m)
               PROVE  file[a][m] = Retry(a, m) \/ <<a, m>> \in revived
    BY DEF CooldownsOnFile
  <2>1. saver = Nobody /\ \A g \in Callers : task[g].steps \notin ToRead
    BY AtLast
  <2> QED
    BY <2>1 DEF SchedInv, OnFile, Saved
<1> QED
  BY <1>1, SchedInitInv, SchedInductive, PTL DEF SchedSpec

\* Whatever the number of calls that overlap, when none is left a pick offers only
\* credentials that are there, enabled, registered for the model and not cooling for it,
\* with the exceptions OfferedIsUsable names.  (pickSingle, pickModelShardLocked)
THEOREM OffersAreUsable == SchedSpec => []OfferedIsUsable
<1>1. SchedInv => OfferedIsUsable
  <2> SUFFICES ASSUME SchedInv, NoCall, NEW m \in Models, NEW a \in Offered(m), ~Overtaken(a),
                      ~(m \in flattened /\ KeyOf(m) = Shared)
               PROVE  Usable(a, m)
    BY DEF OfferedIsUsable
  <2> DEFINE key == KeyOf(m)
             auth == heap[a][scheduled[a]]
  <2>1. a \in Creds /\ Ensured(scheduled, shards, key)[key][a] = 0
    BY DEF Offered
  <2>2. key \in Models \cup {Shared} /\ (key # Shared => key = m)
    BY DEF KeyOf
  <2>3. key = Shared =>
          /\ m \notin DOMAIN shards
          /\ m \in shared \/ \A b \in Creds : Listed(heap[b][scheduled[b]]) => Serves(b, m)
    BY SchedulerBounds DEF KeyOf
  <2> HIDE DEF key
  <2>4. heap[a][object[a]] = auth /\ ~OnItsWay(a) /\ \A retry \in Int : ~Reports(a, m, retry)
    BY <2>1, AtLast
  <2>5. scheduled[a] \in 1..Len(heap[a]) /\ auth \in AuthStates /\ HeapTypes /\ clock \in Nat
    BY <2>1, HeapElements DEF SchedInv, HeapTypes
  <2>6. MayServe(a, auth, key)
    <3>1. \/ Entry(a, auth, key) = 0
          \/ key \in DOMAIN shards /\ shards[key][a] = 0
      BY <2>1 DEF Ensured
    <3> HIDE DEF auth
    <3>2. CASE Entry(a, auth, key) = 0
      BY <2>1, <2>2, <2>5, <3>2, EntryFits
    <3>3. CASE key \in DOMAIN shards /\ shards[key][a] = 0
      BY <2>1, <2>4, <3>3 DEF SchedInv, ShardsFit, auth
    <3> QED
      BY <3>1, <3>2, <3>3
  <2>7. CoolingNoted /\ auth.retry[m] \in Int
    BY <2>1, <2>5, <2>6, HeapElements DEF SchedInv, MayServe, Listed
  <2>8. Noted(a, m, auth)
    BY <2>1, <2>5, <2>7 DEF CoolingNoted
  <2> HIDE DEF auth
  <2>9. CASE key # Shared
    <3>1. m \in Supports[a] /\ auth.retry[m] <= clock
      BY <2>2, <2>6, <2>9, SchedulerBounds DEF MayServe, Serves
    <3> QED
      BY <2>4, <2>5, <2>6, <2>7, <3>1 DEF Usable, MayServe, Cooling, Retry
  <2>10. CASE key = Shared
    <3>1. m \notin flattened
      BY <2>10 DEF key
    <3>2. m \in Supports[a]
      BY <2>1, <2>3, <2>4, <2>6, <2>10, <3>1, SchedulerBounds
         DEF SchedInv, SharedFit, MayServe, Serves, auth
    <3>3. auth.retry[m] <= clock
      BY <2>3, <2>4, <2>5, <2>6, <2>7, <2>8, <2>10, <3>1 DEF Noted, MayServe, Listed
    <3> QED
      BY <2>4, <2>5, <2>6, <2>7, <3>2, <3>3 DEF Usable, MayServe, Cooling, Retry
  <2> QED
    BY <2>9, <2>10
<1> QED
  BY <1>1, SchedInitInv, SchedInductive, PTL DEF SchedSpec

(***************************************************************************)
(* No cooldown ends later than one period from now: not that of any object, *)
(* nor that of a copy which an edit or a refresh will hand to Update.       *)
(***************************************************************************)

EndsWithin(auth, now) == ~auth.gone => \A m \in Models : auth.retry[m] \in Unused..(now + Period)

InTime ==
  /\ \A a \in Creds : \A v \in 1..Len(heap[a]) : EndsWithin(heap[a][v], clock)
  /\ \A g \in Callers : task[g].steps = <<"update">> => EndsWithin(task[g].copy, clock)

LEMMA WithinLater ==
  ASSUME NEW now \in Nat, NEW auth, EndsWithin(auth, now)
  PROVE  EndsWithin(auth, now + 1)
BY SchedulerBounds DEF EndsWithin, Unused

\* A credential is changed, and its clone is on its way.
LEMMA AnnouncedInTime ==
  ASSUME SchedInv, InTime, NEW g \in Callers, NEW a \in Creds, NEW auth \in AuthStates,
         EndsWithin(auth, clock), Changed(a, auth), Announces(g, a, auth), clock' = clock
  PROVE  InTime'
<1>1. ASSUME NEW b \in Creds, NEW v \in 1..Len(heap'[b])
      PROVE  EndsWithin(heap'[b][v], clock)
  <2>1. CASE b # a
    BY <1>1, <2>1 DEF InTime, Changed, Grown
  <2>2. CASE b = a
    <3>1. Len(heap[a]) \in Nat /\ Len(heap'[a]) = Len(heap[a]) + 1
      BY DEF SchedInv, HeapTypes, Changed, Grown
    <3>2. CASE v = Len(heap[a]) + 1
      BY <2>2, <3>2 DEF Changed, Grown
    <3>3. CASE v \in 1..Len(heap[a])
      <4>1. heap'[a][v] \in {auth, heap[a][v]}
        BY <3>3 DEF Changed, Grown
      <4>2. EndsWithin(heap[a][v], clock)
        BY <3>3 DEF InTime
      <4> QED
        BY <2>2, <4>1, <4>2
    <3> QED
      BY <1>1, <2>2, <3>1, <3>2, <3>3
  <2> QED
    BY <2>1, <2>2
<1>2. ASSUME NEW h \in Callers, task'[h].steps = <<"update">>
      PROVE  EndsWithin(task'[h].copy, clock)
  <2>1. task'[g].steps # <<"update">>
    BY Kinds DEF Announces
  <2>2. task'[h] = task[h]
    BY <1>2, <2>1 DEF Announces
  <2> QED
    BY <1>2, <2>2 DEF InTime
<1> QED
  BY <1>1, <1>2 DEF InTime

\* No credential is changed, and no copy is taken but of one that is there.
LEMMA QuietInTime ==
  ASSUME SchedInv, InTime, UNCHANGED <<heap, clock>>,
         \A h \in Callers : task'[h].steps = <<"update">> =>
           \/ task'[h] = task[h]
           \/ EndsWithin(task'[h].copy, clock)
  PROVE  InTime'
BY DEF InTime

\* A task that is taken up is never left with an update.
LEMMA RestIsNoUpdate ==
  ASSUME NEW steps \in StepLists \ {<<>>}
  PROVE  Tail(steps) # <<"update">>
<1> DEFINE rests == {<<>>, <<"rebuild", "again">>, <<"again">>, <<"read", "write">>,
                     <<"upsertModel">>, <<"write", "upsertModel">>, <<"write">>}
<1>1. Tail(steps) \in rests
  <2>1. \/ Tail(steps) = <<>> \/ Tail(steps) = <<"rebuild", "again">>
        \/ Tail(steps) = <<"again">> \/ Tail(steps) = <<"read", "write">>
        \/ Tail(steps) = <<"upsertModel">> \/ Tail(steps) = <<"write", "upsertModel">>
        \/ Tail(steps) = <<"write">>
    BY TailList, Zenon
  <2> QED
    BY <2>1
<1>2. <<"update">> \notin rests
  OBVIOUS
<1> QED
  BY <1>1, <1>2

LEMMA AdvancedInTime ==
  ASSUME SchedInv, InTime, NEW g \in Callers, task[g].steps # <<>>, NextStep(g),
         UNCHANGED <<heap, clock>>
  PROVE  InTime'
<1>1. /\ \A h \in Callers \ {g} : task'[h] = task[h]
      /\ task'[g].steps = Tail(task[g].steps)
  BY Stepped
<1>2. task[g].steps \in StepLists \ {<<>>}
  BY DEF SchedInv, TaskTypes, Tasks
<1>3. Tail(task[g].steps) # <<"update">>
  BY <1>2, RestIsNoUpdate
<1> QED
  BY <1>1, <1>3, QuietInTime

LEMMA MarkResultInTime ==
  ASSUME SchedInv, InTime, NEW g \in Callers, NEW a \in Creds, NEW m \in Models,
         NEW success \in BOOLEAN, MarkResult(g, a, m, success)
  PROVE  InTime'
<1> DEFINE old == heap[a][object[a]].retry
           kept_ == success /\ a \in Keeping /\ old[m] > clock
           base == [old EXCEPT ![m] = IF kept_ THEN @ ELSE IF success THEN 0 ELSE clock + Period]
           new == Settle(base)
           steps == IF ~success \/ new # old THEN <<"read", "write", "upsertModel">>
                    ELSE <<"upsertModel">>
<1>1. /\ Present(a) /\ InPlace(a, new) /\ Call(g, Todo(steps, a, m, Clone(a)))
  BY DEF MarkResult
<1>2. HeapTypes /\ clock \in Nat /\ Period \in Nat /\ object[a] \in 1..Len(heap[a])
  BY SchedulerBounds DEF SchedInv, HeapTypes
<1>3. old \in [Models -> Int] /\ \A k \in Models : old[k] \in Unused..(clock + Period)
  <2>1. old \in [Models -> Int]
    BY <1>1, <1>2, HeapElements DEF Present
  <2>2. EndsWithin(heap[a][object[a]], clock) /\ ~heap[a][object[a]].gone
    BY <1>1, <1>2 DEF Present, InTime
  <2> QED
    BY <2>1, <2>2 DEF EndsWithin
<1>4. base \in [Models -> Int] /\ \A k \in Models : base[k] \in Unused..(clock + Period)
  <2> HIDE DEF old, kept_
  <2>1. PICK until \in Unused..(clock + Period) : base = [old EXCEPT ![m] = until]
    <3>1. 0 \in Unused..(clock + Period) /\ clock + Period \in Unused..(clock + Period)
      BY <1>2 DEF Unused
    <3>2. old[m] \in Unused..(clock + Period)
      BY <1>3
    <3> QED
      BY <3>1, <3>2
  <2>2. until \in Int
    BY <1>2 DEF Unused
  <2> HIDE DEF base
  <2> QED
    BY <1>3, <2>1, <2>2
<1>5. new \in [Models -> Int] /\ \A k \in Models : new[k] \in Unused..(clock + Period)
  <2> HIDE DEF base
  <2> QED
    BY <1>2, <1>4 DEF Settle, Unused
<1>6. steps \in ToReport /\ steps \notin ToWrite
  BY DEF ToReport, ToWrite
<1> HIDE DEF new, steps
<1>7. PICK auth \in AuthStates :
        /\ ~auth.gone /\ auth.retry = new /\ Listed(auth) = Listed(heap[a][object[a]])
        /\ Grown(a, auth) /\ heap'[a][object[a]] = auth /\ object' = object
  BY <1>1, <1>2, <1>5, ChangedInPlace
<1>8. Announces(g, a, auth) /\ UNCHANGED <<index, clock>>
  BY <1>1, <1>6, <1>7, CalledWith
<1>9. EndsWithin(auth, clock)
  BY <1>5, <1>7 DEF EndsWithin
<1> QED
  BY <1>7, <1>8, <1>9, AnnouncedInTime DEF Changed

LEMMA ResetQuotaInTime ==
  ASSUME SchedInv, InTime, NEW g \in Callers, NEW a \in Creds, ResetQuota(g, a)
  PROVE  InTime'
<1> DEFINE old == heap[a][object[a]].retry
           new == [m \in Models |-> IF old[m] = Unused THEN Unused ELSE 0]
           steps == IF new # old THEN <<"upsert", "read", "write">> ELSE <<"upsert">>
<1>1. Present(a) /\ InPlace(a, new) /\ Call(g, Todo(steps, a, Shared, Clone(a)))
  BY DEF ResetQuota
<1>2. HeapTypes /\ clock \in Nat /\ Period \in Nat
  BY SchedulerBounds DEF SchedInv, HeapTypes
<1>3. new \in [Models -> Int] /\ \A m \in Models : new[m] \in Unused..(clock + Period)
  BY <1>2 DEF Unused
<1>4. steps \in ToUpsert
  BY DEF ToUpsert
<1> HIDE DEF new, steps
<1>5. PICK auth \in AuthStates :
        /\ ~auth.gone /\ auth.retry = new /\ Listed(auth) = Listed(heap[a][object[a]])
        /\ Grown(a, auth) /\ heap'[a][object[a]] = auth /\ object' = object
  BY <1>1, <1>2, <1>3, ChangedInPlace
<1>6. Announces(g, a, auth) /\ UNCHANGED <<index, clock>>
  BY <1>1, <1>4, CalledWith
<1>7. EndsWithin(auth, clock)
  BY <1>3, <1>5 DEF EndsWithin
<1> QED
  BY <1>5, <1>6, <1>7, AnnouncedInTime DEF Changed

LEMMA RegisterInTime ==
  ASSUME SchedInv, InTime, NEW g \in Callers, NEW a \in Creds, Register(g, a) \/ RemoveAuth(g, a)
  PROVE  InTime'
<1>1. PICK auth \in {Fresh, Gone}, steps \in ToUpsert :
        Install(a, auth) /\ Call(g, Todo(steps, a, Shared, Clone(a)))
  BY DEF Register, RemoveAuth, ToUpsert
<1>2. HeapTypes /\ clock \in Nat /\ Period \in Nat
  BY SchedulerBounds DEF SchedInv, HeapTypes
<1>3. auth \in AuthStates /\ EndsWithin(auth, clock)
  BY <1>2, FreshIsKnown DEF EndsWithin, Unused
<1>4. Changed(a, auth)
  BY <1>1, <1>2, <1>3, Installed DEF Changed
<1>5. Announces(g, a, auth) /\ UNCHANGED <<index, clock>>
  BY <1>1, <1>3, CalledWith
<1> QED
  BY <1>3, <1>4, <1>5, AnnouncedInTime

LEMMA ReadCopyInTime ==
  ASSUME SchedInv, InTime, NEW g \in Callers, NEW a \in Creds, ReadCopy(g, a)
  PROVE  InTime'
<1> DEFINE auth == heap[a][object[a]]
<1>1. PICK off \in BOOLEAN :
        Call(g, [Todo(<<"update">>, a, Shared, 0) EXCEPT !.copy = [auth EXCEPT !.disabled = off]])
  BY DEF ReadCopy
<1>2. Present(a) /\ UNCHANGED <<heap, clock>>
  BY <1>1 DEF ReadCopy, Call, memory
<1>3. object[a] \in 1..Len(heap[a]) /\ auth \in AuthStates /\ ~auth.gone
  BY <1>2, HeapElements DEF SchedInv, HeapTypes, Present
<1> DEFINE copied == [auth EXCEPT !.disabled = off]
           rest == [Todo(<<"update">>, a, Shared, 0) EXCEPT !.copy = copied]
<1>4. ~copied.gone /\ copied.retry = auth.retry
  BY <1>3, FreshIsKnown DEF AuthStates
<1>5. EndsWithin(copied, clock)
  BY <1>3, <1>4 DEF InTime, EndsWithin
<1> HIDE DEF copied
<1>6. rest.copy = copied
  BY DEF Todo
<1>7. task' = [task EXCEPT ![g] = rest] /\ task \in [Callers -> Tasks]
  BY <1>1 DEF copied, Call, SchedInv, TaskTypes
<1> HIDE DEF rest
<1>8. ASSUME NEW h \in Callers PROVE task'[h] = task[h] \/ EndsWithin(task'[h].copy, clock)
  BY <1>5, <1>6, <1>7
<1> QED
  BY <1>2, <1>8, QuietInTime

LEMMA UpdateInTime ==
  ASSUME SchedInv, InTime, NEW g \in Callers, Update(g)
  PROVE  InTime'
<1> DEFINE a == task[g].auth
           auth == Merged(task[g].copy, heap[a][object[a]])
<1>1. task[g].steps # <<>> /\ Head(task[g].steps) = "update" /\ UNCHANGED <<index, clock>>
  BY DEF Update, timing
<1>2. HeapTypes /\ task \in [Callers -> Tasks] /\ task[g] \in Tasks
  BY DEF SchedInv, TaskTypes
<1>3. task[g].steps = <<"update">> /\ Tail(task[g].steps) = <<>>
  BY <1>1, <1>2, TailList DEF Tasks
<1>4. a \in Creds /\ task[g].copy \in AuthStates /\ ~task[g].copy.gone
  BY <1>2, <1>3 DEF SchedInv, TaskTypes, Tasks
<1>5. CASE Present(a)
  <2>1. Install(a, auth) /\ task' = [task EXCEPT ![g] = Todo(<<"upsert">>, a, Shared, Clone(a))]
    BY <1>5 DEF Update
  <2>2. heap[a][object[a]] \in AuthStates /\ ~heap[a][object[a]].gone /\ object[a] \in 1..Len(heap[a])
    BY <1>2, <1>4, <1>5, HeapElements DEF Present, HeapTypes
  <2>3. /\ auth \in AuthStates /\ ~auth.gone
        /\ \A m \in Models :
             auth.retry[m] \in {task[g].copy.retry[m], heap[a][object[a]].retry[m]}
    BY <1>4, <2>2, MergedIsKnown
  <2> HIDE DEF auth
  <2>4. EndsWithin(heap[a][object[a]], clock) /\ EndsWithin(task[g].copy, clock)
    BY <1>3, <1>4, <2>2 DEF InTime
  <2>5. EndsWithin(auth, clock)
    <3>1. ASSUME NEW m \in Models PROVE auth.retry[m] \in Unused..(clock + Period)
      <4>1. /\ task[g].copy.retry[m] \in Unused..(clock + Period)
            /\ heap[a][object[a]].retry[m] \in Unused..(clock + Period)
        BY <1>4, <2>2, <2>4 DEF EndsWithin
      <4>2. \/ auth.retry[m] = task[g].copy.retry[m]
            \/ auth.retry[m] = heap[a][object[a]].retry[m]
        BY <2>3
      <4> QED
        BY <4>1, <4>2
    <3> QED
      BY <2>3, <3>1 DEF EndsWithin
  <2> HIDE DEF a
  <2>6. Changed(a, auth)
    BY <1>2, <1>4, <2>1, <2>3, Installed DEF Changed
  <2>7. ASSUME NEW b \in Creds, NEW v \in 1..Len(heap'[b])
        PROVE  EndsWithin(heap'[b][v], clock)
    <3>1. CASE b # a
      BY <2>6, <2>7, <3>1 DEF InTime, Changed, Grown
    <3>2. CASE b = a
      <4>1. Len(heap[a]) \in Nat /\ Len(heap'[a]) = Len(heap[a]) + 1
        BY <1>2, <1>4, <2>6 DEF HeapTypes, Changed, Grown
      <4>2. CASE v = Len(heap[a]) + 1
        BY <2>5, <2>6, <3>2, <4>2 DEF Changed, Grown
      <4>3. CASE v \in 1..Len(heap[a])
        <5>1. heap'[a][v] \in {auth, heap[a][v]}
          BY <2>6, <4>3 DEF Changed, Grown
        <5>2. EndsWithin(heap[a][v], clock)
          BY <1>4, <4>3 DEF InTime
        <5> QED
          BY <2>5, <3>2, <5>1, <5>2
      <4> QED
        BY <2>7, <3>2, <4>1, <4>2, <4>3
    <3> QED
      BY <3>1, <3>2
  <2>8. ASSUME NEW h \in Callers, task'[h].steps = <<"update">>
        PROVE  EndsWithin(task'[h].copy, clock)
    <3>1. task'[g].steps = <<"upsert">>
      BY <1>2, <2>1 DEF Todo
    <3>2. task'[h] = task[h]
      BY <1>2, <2>1, <2>8, <3>1
    <3> QED
      BY <2>8, <3>2 DEF InTime
  <2> QED
    BY <1>1, <2>7, <2>8 DEF InTime
<1>6. CASE ~Present(a)
  BY <1>1, <1>6, AdvancedInTime DEF Update, memory
<1> QED
  BY <1>5, <1>6

LEMMA SnapshotInTime ==
  ASSUME SchedInv, InTime, NEW g \in Callers, Snapshot(g)
  PROVE  InTime'
<1> DEFINE seen == [a \in Creds |-> IF Present(a) THEN Clone(a) ELSE object[a]]
<1>1. /\ task[g].steps # <<>> /\ clock' = clock
      /\ heap' = [a \in Creds |-> IF Present(a) THEN Append(heap[a], heap[a][object[a]])
                                  ELSE heap[a]]
      /\ task' = [task EXCEPT ![g] = [task[g] EXCEPT !.steps = Tail(task[g].steps),
                                                    !.versions = seen]]
  BY DEF Snapshot, timing
<1>2. /\ task \in [Callers -> Tasks] /\ task[g] \in Tasks
      /\ task[g].steps \in StepLists \ {<<>>}
  BY <1>1 DEF SchedInv, TaskTypes, Tasks
<1>3. Tail(task[g].steps) # <<"update">>
  BY <1>2, RestIsNoUpdate
<1>4. ASSUME NEW a \in Creds, NEW v \in 1..Len(heap'[a]) PROVE EndsWithin(heap'[a][v], clock)
  <2>1. heap[a] \in Seq(AuthStates) /\ object[a] \in 1..Len(heap[a])
    BY DEF SchedInv, HeapTypes
  <2>2. heap[a][object[a]] \in AuthStates
    BY <2>1, ElementOfSeq
  <2>3. \A w \in 1..Len(heap[a]) : EndsWithin(heap[a][w], clock)
    BY DEF InTime
  <2>4. CASE Present(a)
    <3>1. heap'[a] = Append(heap[a], heap[a][object[a]])
      BY <1>1, <2>4
    <3>2. /\ Len(heap'[a]) = Len(heap[a]) + 1
          /\ heap'[a][Len(heap[a]) + 1] = heap[a][object[a]]
          /\ \A w \in 1..Len(heap[a]) : heap'[a][w] = heap[a][w]
      BY <2>1, <2>2, <3>1, AppendProperties
    <3>3. v = Len(heap[a]) + 1 \/ v \in 1..Len(heap[a])
      BY <1>4, <2>1, <3>2
    <3> QED
      BY <2>1, <2>3, <3>2, <3>3
  <2>5. CASE ~Present(a)
    BY <1>1, <1>4, <2>3, <2>5
  <2> QED
    BY <2>4, <2>5
<1>5. ASSUME NEW h \in Callers, task'[h].steps = <<"update">>
      PROVE  EndsWithin(task'[h].copy, clock)
  <2> DEFINE left == Tail(task[g].steps)
             after == [task[g] EXCEPT !.steps = left, !.versions = seen]
  <2>1. task' = [task EXCEPT ![g] = after] /\ left # <<"update">>
    BY <1>1, <1>3
  <2> HIDE DEF left, seen
  <2>2. after.steps = left
    BY <1>2 DEF Tasks
  <2> HIDE DEF after
  <2>3. task'[h] = task[h]
    BY <1>2, <1>5, <2>1, <2>2
  <2> QED
    BY <1>5, <2>3 DEF InTime
<1> QED
  BY <1>1, <1>4, <1>5 DEF InTime

LEMMA InTimeStep == SchedInv /\ InTime /\ [SchedNext]_schedVars => InTime'
<1> SUFFICES ASSUME SchedInv, InTime, [SchedNext]_schedVars PROVE InTime'
  OBVIOUS
<1>1. CASE UNCHANGED schedVars
  <2>1. UNCHANGED <<heap, task, clock>>
    BY <1>1 DEF schedVars, memory, timing
  <2> QED
    BY <2>1 DEF InTime
<1>2. CASE SchedTick
  <2>1. UNCHANGED <<heap, task>> /\ clock' = clock + 1 /\ clock \in Nat
    BY <1>2 DEF SchedTick, memory, SchedInv, HeapTypes
  <2> QED
    BY <2>1, WithinLater DEF InTime
<1>3. ASSUME NEW g \in Callers,
             \/ Upsert(g) \/ UpsertForModel(g) \/ Rebuild(g) \/ PickAgain(g)
             \/ ReadRecords(g) \/ WriteFiles(g)
      PROVE  InTime'
  <2>1. task[g].steps # <<>> /\ UNCHANGED <<heap, clock>>
    BY <1>3 DEF Upsert, UpsertForModel, Rebuild, PickAgain, ReadRecords, WriteFiles, memory, timing
  <2>2. CASE ReadRecords(g)
    <3> DEFINE left == Tail(task[g].steps)
               seen == [a \in Creds |-> Records(a)]
               after == [task[g] EXCEPT !.steps = left, !.records = seen]
    <3>1. task' = [task EXCEPT ![g] = after]
      BY <2>2 DEF ReadRecords
    <3>2. /\ task \in [Callers -> Tasks] /\ task[g] \in Tasks
          /\ task[g].steps \in StepLists \ {<<>>}
      BY <2>1 DEF SchedInv, TaskTypes, Tasks
    <3>3. left # <<"update">>
      BY <3>2, RestIsNoUpdate
    <3> HIDE DEF left, seen
    <3>4. after.steps = left
      BY <3>2 DEF Tasks
    <3> HIDE DEF after
    <3>5. \A h \in Callers : task'[h].steps = <<"update">> => task'[h] = task[h]
      BY <3>1, <3>2, <3>3, <3>4
    <3> QED
      BY <2>1, <3>5, QuietInTime
  <2>3. CASE ~ReadRecords(g)
    <3>1. NextStep(g)
      BY <1>3, <2>3 DEF Upsert, UpsertForModel, Rebuild, PickAgain, WriteFiles
    <3> QED
      BY <2>1, <3>1, AdvancedInTime
  <2> QED
    BY <2>2, <2>3
<1>4. ASSUME NEW g \in Callers, NEW m \in Models, PickNext(g, m) PROVE InTime'
  <2>1. /\ UNCHANGED <<heap, clock>>
        /\ \/ task' = task
           \/ task' = [task EXCEPT ![g] =
                         Todo(<<"snapshot", "rebuild", "again">>, Nobody, m, 0)]
    BY <1>4 DEF PickNext, memory
  <2>2. task \in [Callers -> Tasks]
    BY DEF SchedInv, TaskTypes
  <2>3. Todo(<<"snapshot", "rebuild", "again">>, Nobody, m, 0).steps # <<"update">>
    BY DEF Todo
  <2>4. \A h \in Callers : task'[h].steps = <<"update">> => task'[h] = task[h]
    BY <2>1, <2>2, <2>3
  <2> QED
    BY <2>1, <2>4, QuietInTime
<1> QED
  BY <1>1, <1>2, <1>3, <1>4, UpdateInTime, SnapshotInTime, MarkResultInTime, ResetQuotaInTime,
     RegisterInTime, ReadCopyInTime DEF SchedNext, Continue

\* No cooldown ends later than one period from now, whatever is restored, merged and
\* reported meanwhile; and the scheduler points at objects and shards there are.
\* (MarkResult, Update, upsertAuth, ensureModelLocked)
THEOREM CooldownsEnd == SchedSpec => []SchedTypeOK
<1>1. SchedInit => InTime
  <2> SUFFICES ASSUME SchedInit PROVE InTime
    OBVIOUS
  <2>1. \A a \in Creds, m \in Models : file[a][m] \in {Period, Unused}
    BY DEF SchedInit
  <2>2. /\ \A a \in Creds : heap[a] = <<[Fresh EXCEPT !.retry = file[a]]>>
        /\ \A g \in Callers : task[g].steps = <<>>
        /\ clock = 0
    BY DEF SchedInit, Idle, Todo
  <2>3. ASSUME NEW a \in Creds, NEW v \in 1..Len(heap[a]) PROVE EndsWithin(heap[a][v], clock)
    <3>1. heap[a][v] = [Fresh EXCEPT !.retry = file[a]]
      BY <2>2
    <3>2. heap[a][v].retry = file[a]
      BY <3>1 DEF Fresh
    <3> QED
      BY <2>1, <2>2, <3>2, SchedulerBounds DEF EndsWithin, Unused
  <2> QED
    BY <2>2, <2>3 DEF InTime
<1>2. SchedInv /\ InTime => SchedTypeOK
  <2> SUFFICES ASSUME SchedInv, InTime PROVE SchedTypeOK
    OBVIOUS
  <2>1. ASSUME NEW a \in Creds
        PROVE  /\ object[a] \in DOMAIN heap[a] /\ scheduled[a] \in DOMAIN heap[a]
               /\ newest[a] \in DOMAIN heap[a]
    <3>1. /\ heap[a] \in Seq(AuthStates) /\ object[a] \in 1..Len(heap[a])
          /\ scheduled[a] \in 1..newest[a] /\ newest[a] <= Len(heap[a]) /\ newest[a] \in Nat
      BY DEF SchedInv, HeapTypes
    <3> QED
      BY <3>1
  <2>2. ASSUME NEW a \in Creds, NEW m \in Models, Present(a)
        PROVE  Retry(a, m) \in Unused..(clock + Period)
    BY <2>2 DEF SchedInv, HeapTypes, InTime, EndsWithin, Present, Retry
  <2> QED
    BY <2>1, <2>2 DEF SchedInv, ShardTypes, SchedTypeOK
<1> QED
  BY <1>1, <1>2, SchedInitInv, SchedInductive, InTimeStep, PTL DEF SchedSpec

(***************************************************************************)
(* The counts of the registry of models, for any clients, providers and     *)
(* models.  An operation changes what one client lists: for each model the  *)
(* counts are what the others list, and what this one adds to them          *)
(* (Tallies); the code takes its part off and puts the new one on.          *)
(***************************************************************************)

Regs == [count : Nat, by : [ProviderNames -> Nat], infos : SUBSET ProviderNames,
         quota : SUBSET Clients, suspended : SUBSET Clients]

\* A client may name no provider; what it lists is counted all the same.
AnyProvider == ProviderNames \cup {NoProvider}

ClientTypes ==
  client \in [Clients -> [provider : AnyProvider,
                          copies : [Catalogue -> 0..MaxCopies], shared : BOOLEAN]]

RegistryInv == ClientTypes /\ regs \in [Catalogue -> Regs] /\ CountsMatchClients

Listings(n, cs) == {e \in cs \X (1..MaxCopies) : e[2] <= n[e[1]]}

\* What one client lists is counted besides what the others list.
LEMMA ListingsAdd ==
  ASSUME NEW cs \in SUBSET Clients, NEW n \in [Clients -> 0..MaxCopies], NEW c \in cs
  PROVE  /\ Cardinality(Listings(n, cs \ {c})) \in Nat
         /\ Cardinality(Listings(n, cs)) = Cardinality(Listings(n, cs \ {c})) + n[c]
<1> DEFINE others == Listings(n, cs \ {c})
           own == {c} \X (1..n[c])
<1>1. IsFiniteSet(cs) /\ IsFiniteSet(cs \ {c}) /\ IsFiniteSet(1..MaxCopies)
  <2>1. IsFiniteSet(Clients) /\ MaxCopies \in Int
    BY RegistryBounds
  <2>2. IsFiniteSet(cs)
    BY <2>1, FS_Subset
  <2>3. IsFiniteSet(cs \ {c})
    BY <2>2, FS_RemoveElement
  <2>4. IsFiniteSet(1..MaxCopies)
    BY <2>1, FS_Interval
  <2> QED
    BY <2>2, <2>3, <2>4
<1>2. n[c] \in Nat /\ n[c] <= MaxCopies /\ MaxCopies \in Nat
  BY RegistryBounds
<1>3. IsFiniteSet(others) /\ Cardinality(others) \in Nat
  <2>1. IsFiniteSet((cs \ {c}) \X (1..MaxCopies))
    BY <1>1, FS_Product
  <2>2. others \in SUBSET ((cs \ {c}) \X (1..MaxCopies))
    BY DEF Listings
  <2> HIDE DEF others
  <2> QED
    BY <2>1, <2>2, FS_Subset, FS_CardinalityType
<1>4. IsFiniteSet(own) /\ Cardinality(own) = n[c]
  <2>1. IsFiniteSet({c}) /\ Cardinality({c}) = 1
    BY FS_Singleton
  <2>2. IsFiniteSet(1..n[c]) /\ Cardinality(1..n[c]) = n[c]
    <3>1. ASSUME NEW j \in Nat PROVE IsFiniteSet(1..j) /\ Cardinality(1..j) = j
      <4>1. IsFiniteSet(1..j) /\ Cardinality(1..j) = IF 1 > j THEN 0 ELSE j - 1 + 1
        BY FS_Interval
      <4> QED
        BY <4>1
    <3> QED
      BY <1>2, <3>1
  <2>3. IsFiniteSet(own) /\ Cardinality(own) = Cardinality({c}) * Cardinality(1..n[c])
    BY <2>1, <2>2, FS_Product
  <2> QED
    BY <1>2, <2>1, <2>2, <2>3
<1>5. Listings(n, cs) = others \cup own /\ others \cap own = {}
  <2>1. Listings(n, cs) \subseteq others \cup own
    BY <1>2 DEF Listings
  <2>2. others \cup own \subseteq Listings(n, cs)
    BY <1>2 DEF Listings
  <2>3. others \cap own = {}
    BY DEF Listings
  <2> QED
    BY <2>1, <2>2, <2>3
<1> HIDE DEF own, others
<1>6. Cardinality(Listings(n, cs)) = Cardinality(others) + Cardinality(own) - Cardinality({})
  BY <1>3, <1>4, <1>5, FS_Union
<1> QED
  BY <1>2, <1>3, <1>4, <1>6, FS_EmptySet DEF others

LEMMA ListingsWithout ==
  ASSUME NEW cs \in SUBSET Clients, NEW n \in [Clients -> 0..MaxCopies]
  PROVE  /\ Cardinality(Listings(n, cs)) \in Nat
         /\ \A ds \in SUBSET cs : Cardinality(Listings(n, ds)) <= Cardinality(Listings(n, cs))
<1>1. IsFiniteSet(cs) /\ IsFiniteSet(1..MaxCopies)
  BY RegistryBounds, FS_Subset, FS_Interval
<1>2. IsFiniteSet(cs \X (1..MaxCopies))
  BY <1>1, FS_Product
<1>3. IsFiniteSet(Listings(n, cs))
  BY <1>2, FS_Subset DEF Listings
<1>4. ASSUME NEW ds \in SUBSET cs
      PROVE  Cardinality(Listings(n, ds)) <= Cardinality(Listings(n, cs))
  <2>1. Listings(n, ds) \in SUBSET Listings(n, cs)
    BY DEF Listings
  <2> QED
    BY <1>3, <2>1, FS_Subset
<1> QED
  BY <1>3, <1>4, FS_CardinalityType

\* The counts of a model: what the other clients list, and n of provider p.
Tallies(reg, rest, share, p, n) ==
  /\ reg \in Regs /\ reg.count = rest + n
  /\ \A q \in ProviderNames : reg.by[q] = share[q] + (IF q = p THEN n ELSE 0)
  /\ reg.infos = {q \in ProviderNames : reg.by[q] > 0}

LEMMA NoRegIsKnown ==
  /\ NoReg \in Regs /\ NoReg.count = 0 /\ NoReg.infos = {}
  /\ NoReg.quota = {} /\ NoReg.suspended = {}
  /\ \A q \in ProviderNames : NoReg.by[q] = 0
BY DEF NoReg, Regs

LEMMA DroppedFromProvider ==
  ASSUME NEW reg \in Regs, NEW p \in ProviderNames, NEW n \in Nat
  PROVE  /\ Dropped(reg, p, n) \in Regs /\ Dropped(reg, p, n).count = reg.count
         /\ \A q \in ProviderNames :
              Dropped(reg, p, n).by[q] = IF q # p THEN reg.by[q] ELSE IF reg.by[p] <= n THEN 0 ELSE reg.by[p] - n
         /\ Dropped(reg, p, n).infos = IF reg.by[p] <= n THEN reg.infos \ {p} ELSE reg.infos
         /\ Dropped(reg, p, n).quota = reg.quota /\ Dropped(reg, p, n).suspended = reg.suspended
<1>1. /\ reg.count \in Nat /\ reg.by \in [ProviderNames -> Nat] /\ reg.by[p] \in Nat
      /\ reg.infos \in SUBSET ProviderNames
  BY DEF Regs
<1> DEFINE left == IF reg.by[p] <= n THEN 0 ELSE reg.by[p] - n
           by == [reg.by EXCEPT ![p] = left]
           infos == IF reg.by[p] <= n THEN reg.infos \ {p} ELSE reg.infos
           one == [reg EXCEPT !.by = by]
           two == [one EXCEPT !.infos = infos]
<1>2. left \in Nat /\ left = reg.by[p] - Least(reg.by[p], n)
  BY <1>1 DEF Least
<1>3. Dropped(reg, p, n) = two
  <2>1. one.infos = reg.infos
    BY <1>1 DEF Regs
  <2> QED
    BY <1>2, <2>1 DEF Dropped
<1> HIDE DEF left
<1>4. by \in [ProviderNames -> Nat] /\ infos \in SUBSET ProviderNames
  BY <1>1, <1>2
<1>5. \A q \in ProviderNames : by[q] = IF q # p THEN reg.by[q] ELSE left
  BY <1>1
<1> HIDE DEF by, infos
<1>6. one \in Regs /\ two \in Regs
  BY <1>1, <1>4 DEF Regs
<1>7. /\ two.count = reg.count /\ two.by = by /\ two.infos = infos
      /\ two.quota = reg.quota /\ two.suspended = reg.suspended
  BY <1>6 DEF Regs
<1> HIDE DEF one, two
<1> QED
  BY <1>3, <1>5, <1>6, <1>7 DEF left, infos

\* A client without a provider has no share to give back.
WithoutInfo(reg, p, n) ==
  IF p \in ProviderNames /\ reg.by[p] <= n THEN reg.infos \ {p} ELSE reg.infos

LEMMA DroppedFields ==
  ASSUME NEW reg \in Regs, NEW p, NEW n \in Nat
  PROVE  /\ Dropped(reg, p, n) \in Regs /\ Dropped(reg, p, n).count = reg.count
         /\ \A q \in ProviderNames :
              Dropped(reg, p, n).by[q] = IF q # p THEN reg.by[q]
                                         ELSE IF reg.by[q] <= n THEN 0 ELSE reg.by[q] - n
         /\ Dropped(reg, p, n).infos = WithoutInfo(reg, p, n)
         /\ Dropped(reg, p, n).quota = reg.quota /\ Dropped(reg, p, n).suspended = reg.suspended
<1>1. CASE p \in ProviderNames
  <2>1. PICK k \in ProviderNames : k = p
    BY <1>1
  <2>2. /\ Dropped(reg, k, n) \in Regs /\ Dropped(reg, k, n).count = reg.count
        /\ \A q \in ProviderNames :
             Dropped(reg, k, n).by[q] = IF q # k THEN reg.by[q] ELSE IF reg.by[k] <= n THEN 0 ELSE reg.by[k] - n
        /\ Dropped(reg, k, n).infos = IF reg.by[k] <= n THEN reg.infos \ {k} ELSE reg.infos
        /\ Dropped(reg, k, n).quota = reg.quota /\ Dropped(reg, k, n).suspended = reg.suspended
    BY DroppedFromProvider
  <2> QED
    BY <2>1, <2>2 DEF WithoutInfo
<1>2. CASE p \notin ProviderNames
  <2>1. Dropped(reg, p, n) = reg /\ \A q \in ProviderNames : q # p
    BY <1>2 DEF Dropped
  <2> QED
    BY <1>2, <2>1 DEF WithoutInfo
<1> QED
  BY <1>1, <1>2

LEMMA RemovedFields ==
  ASSUME NEW reg \in Regs, NEW p, NEW n \in Nat \ {0}, NEW c \in Clients
  PROVE  /\ Removed(reg, c, p, n) \in Regs
         /\ reg.count <= n => Removed(reg, c, p, n) = NoReg
         /\ reg.count > n =>
              /\ Removed(reg, c, p, n).count = reg.count - n
              /\ \A q \in ProviderNames :
                   Removed(reg, c, p, n).by[q] = IF q # p THEN reg.by[q]
                               ELSE IF reg.by[q] <= n THEN 0 ELSE reg.by[q] - n
              /\ Removed(reg, c, p, n).infos = WithoutInfo(reg, p, n)
              /\ Removed(reg, c, p, n).quota = reg.quota \ {c} /\ Removed(reg, c, p, n).suspended = reg.suspended \ {c}
<1>1. reg.count \in Nat
  BY DEF Regs
<1>2. CASE reg.count <= n
  BY <1>1, <1>2, NoRegIsKnown DEF Removed
<1>3. CASE reg.count > n
  <2> DEFINE base == Dropped(reg, p, n)
             one == [base EXCEPT !.count = reg.count - n]
             two == [one EXCEPT !.quota = reg.quota \ {c}]
             three == [two EXCEPT !.suspended = reg.suspended \ {c}]
  <2>1. /\ base \in Regs /\ base.count = reg.count
        /\ \A q \in ProviderNames :
             base.by[q] = IF q # p THEN reg.by[q] ELSE IF reg.by[q] <= n THEN 0 ELSE reg.by[q] - n
        /\ base.infos = WithoutInfo(reg, p, n)
        /\ base.quota = reg.quota /\ base.suspended = reg.suspended
    BY DroppedFields
  <2>2. Removed(reg, c, p, n) = three
    <3>1. ~(reg.count <= n)
      BY <1>1, <1>3
    <3> HIDE DEF base
    <3>2. one.quota = reg.quota /\ two.suspended = reg.suspended
      BY <2>1 DEF Regs
    <3> QED
      BY <2>1, <3>1, <3>2 DEF Removed, base
  <2> HIDE DEF base
  <2>3. reg.count - n \in Nat
    BY <1>1, <1>3
  <2>4. reg.quota \in SUBSET Clients /\ reg.suspended \in SUBSET Clients
    BY DEF Regs
  <2>5. one \in Regs /\ two \in Regs /\ three \in Regs
    BY <2>1, <2>3, <2>4 DEF Regs
  <2>6. /\ three.count = reg.count - n /\ three.by = base.by /\ three.infos = base.infos
        /\ three.quota = reg.quota \ {c} /\ three.suspended = reg.suspended \ {c}
    BY <2>1, <2>5 DEF Regs
  <2> HIDE DEF one, two, three
  <2> QED
    BY <1>1, <1>3, <2>1, <2>2, <2>5, <2>6
<1> QED
  BY <1>1, <1>2, <1>3

LEMMA AddedTallies ==
  ASSUME NEW reg \in Regs, NEW rest \in Nat, NEW share,
         \A k \in ProviderNames : share[k] \in Nat,
         NEW p \in AnyProvider, NEW old, NEW n \in Nat, Tallies(reg, rest, share, old, 0)
  PROVE  /\ Tallies(Added(reg, p, n), rest, share, p, n)
         /\ Added(reg, p, n).quota = reg.quota /\ Added(reg, p, n).suspended = reg.suspended
<1> DEFINE new == Added(reg, p, n)
<1>1. /\ reg \in Regs /\ reg.count = rest
      /\ \A k \in ProviderNames : reg.by[k] = share[k]
      /\ reg.infos = {k \in ProviderNames : reg.by[k] > 0}
  BY DEF Tallies
<1>2. /\ new \in Regs /\ new.count = reg.count + n
      /\ \A k \in ProviderNames : new.by[k] = reg.by[k] + (IF k = p THEN n ELSE 0)
      /\ new.infos = IF n = 0 THEN reg.infos ELSE reg.infos \cup ({p} \cap ProviderNames)
      /\ new.quota = reg.quota /\ new.suspended = reg.suspended
  <2>1. /\ reg.count \in Nat /\ reg.by \in [ProviderNames -> Nat]
        /\ reg.infos \in SUBSET ProviderNames
    BY DEF Regs
  <2>2. CASE n = 0
    BY <2>1, <2>2 DEF Added
  <2>3. CASE n # 0
    <3> DEFINE by == [q \in ProviderNames |-> IF q = p THEN reg.by[q] + n ELSE reg.by[q]]
               one == [reg EXCEPT !.count = reg.count + n]
               two == [one EXCEPT !.by = by]
               three == [two EXCEPT !.infos = reg.infos \cup ({p} \cap ProviderNames)]
    <3>1. by \in [ProviderNames -> Nat]
      BY <2>1
    <3>2. \A k \in ProviderNames : by[k] = reg.by[k] + (IF k = p THEN n ELSE 0)
      BY <2>1
    <3>3. Added(reg, p, n) = three
      <4>1. one.by = reg.by /\ two.infos = reg.infos
        BY <2>1 DEF Regs
      <4> QED
        BY <2>3, <4>1 DEF Added
    <3> HIDE DEF by
    <3>4. one \in Regs /\ two \in Regs /\ three \in Regs
      <4>1. reg.count + n \in Nat /\ reg.infos \cup ({p} \cap ProviderNames) \in SUBSET ProviderNames
        BY <2>1
      <4>2. one \in Regs
        BY <4>1 DEF Regs
      <4> QED
        BY <3>1, <4>1, <4>2 DEF Regs
    <3>5. /\ three.count = reg.count + n /\ three.by = by /\ three.infos = reg.infos \cup ({p} \cap ProviderNames)
          /\ three.quota = reg.quota /\ three.suspended = reg.suspended
      BY <3>4 DEF Regs
    <3> HIDE DEF one, two, three
    <3> QED
      BY <2>3, <3>2, <3>3, <3>4, <3>5
  <2> QED
    BY <2>2, <2>3
<1> HIDE DEF new
<1>3. new.infos = {k \in ProviderNames : new.by[k] > 0}
  BY <1>1, <1>2
<1> QED
  BY <1>1, <1>2, <1>3 DEF Tallies, new

LEMMA RemovedTallies ==
  ASSUME NEW reg \in Regs, NEW rest \in Nat, NEW share,
         \A k \in ProviderNames : share[k] \in 0..rest,
         NEW p, NEW n \in Nat, NEW c \in Clients, Tallies(reg, rest, share, p, n)
  PROVE  LET new == Removed(reg, c, p, n) IN
           /\ \A q : Tallies(new, rest, share, q, 0)
           /\ new.quota \subseteq reg.quota /\ new.suspended \subseteq reg.suspended
           /\ n > 0 => c \notin new.quota \cup new.suspended
<1>1. /\ reg \in Regs /\ reg.count = rest + n
      /\ \A k \in ProviderNames : reg.by[k] = share[k] + (IF k = p THEN n ELSE 0)
      /\ reg.infos = {k \in ProviderNames : reg.by[k] > 0}
      /\ \A k \in ProviderNames : share[k] \in Nat
  BY DEF Tallies
<1>2. CASE n = 0
  <2>1. Removed(reg, c, p, n) = reg
    BY <1>2 DEF Removed
  <2>2. \A k \in ProviderNames : reg.by[k] = share[k]
    BY <1>1, <1>2
  <2>3. \A q : Tallies(reg, rest, share, q, 0)
    BY <1>1, <1>2, <2>2 DEF Tallies
  <2> QED
    BY <1>2, <2>1, <2>3
<1>3. CASE n # 0
  <2> DEFINE new == Removed(reg, c, p, n)
  <2>1. n \in Nat \ {0}
    BY <1>3
  <2>2. /\ new \in Regs
        /\ reg.count <= n => new = NoReg
        /\ reg.count > n =>
             /\ new.count = reg.count - n
             /\ \A k \in ProviderNames :
                  new.by[k] = IF k # p THEN reg.by[k]
                              ELSE IF reg.by[k] <= n THEN 0 ELSE reg.by[k] - n
             /\ new.infos = WithoutInfo(reg, p, n)
             /\ new.quota = reg.quota \ {c} /\ new.suspended = reg.suspended \ {c}
    BY <2>1, RemovedFields
  <2> HIDE DEF new
  <2>3. CASE rest = 0
    <3>1. new = NoReg /\ \A k \in ProviderNames : share[k] = 0
      BY <1>1, <2>2, <2>3
    <3>2. \A q : Tallies(new, rest, share, q, 0)
      BY <2>3, <3>1, NoRegIsKnown DEF Tallies
    <3> QED
      BY <3>1, <3>2, NoRegIsKnown DEF new
  <2>4. CASE rest # 0
    <3>1. /\ new.count = rest
          /\ \A k \in ProviderNames : new.by[k] = share[k]
          /\ new.infos = WithoutInfo(reg, p, n)
          /\ new.quota = reg.quota \ {c} /\ new.suspended = reg.suspended \ {c}
      <4>1. reg.count > n /\ reg.count - n = rest
        BY <1>1, <2>1, <2>4
      <4>2. ASSUME NEW k \in ProviderNames PROVE new.by[k] = share[k]
        BY <1>1, <2>1, <2>2, <4>1
      <4> QED
        BY <2>2, <4>1, <4>2
    <3>2. new.infos = {k \in ProviderNames : new.by[k] > 0}
      BY <1>1, <2>1, <3>1 DEF WithoutInfo
    <3>3. \A q : Tallies(new, rest, share, q, 0)
      BY <2>2, <3>1, <3>2, <1>1 DEF Tallies
    <3> QED
      BY <3>1, <3>3 DEF new
  <2> QED
    BY <2>3, <2>4
<1> QED
  BY <1>2, <1>3

LEMMA DroppedTallies ==
  ASSUME NEW reg \in Regs, NEW rest \in Nat, NEW share,
         \A k \in ProviderNames : share[k] \in Nat,
         NEW p \in AnyProvider, NEW n \in Nat, NEW j \in Nat, Tallies(reg, rest, share, p, n + j)
  PROVE  /\ Tallies(Dropped(reg, p, j), rest + j, share, p, n)
         /\ Dropped(reg, p, j).quota = reg.quota /\ Dropped(reg, p, j).suspended = reg.suspended
<1> DEFINE new == Dropped(reg, p, j)
<1>1. /\ reg.count = rest + n + j
      /\ \A k \in ProviderNames : reg.by[k] = share[k] + (IF k = p THEN n + j ELSE 0)
      /\ reg.infos = {k \in ProviderNames : reg.by[k] > 0}
  BY DEF Tallies
<1>2. /\ new \in Regs /\ new.count = reg.count
      /\ \A k \in ProviderNames :
           new.by[k] = IF k # p THEN reg.by[k] ELSE IF reg.by[k] <= j THEN 0 ELSE reg.by[k] - j
      /\ new.infos = WithoutInfo(reg, p, j)
      /\ new.quota = reg.quota /\ new.suspended = reg.suspended
  BY DroppedFields
<1> HIDE DEF new
<1>3. \A k \in ProviderNames : new.by[k] = share[k] + (IF k = p THEN n ELSE 0)
  BY <1>1, <1>2
<1>4. new.infos = {k \in ProviderNames : new.by[k] > 0}
  <2>1. \A k \in ProviderNames : k \in new.infos <=> k \in reg.infos /\ (k = p => reg.by[k] > j)
    <3>1. \A k \in ProviderNames : reg.by[k] \in Nat
      BY DEF Regs
    <3> QED
      BY <1>2, <3>1 DEF WithoutInfo
  <2>2. \A k \in ProviderNames : new.by[k] > 0 <=> reg.by[k] > 0 /\ (k = p => reg.by[k] > j)
    BY <1>2 DEF Regs
  <2>3. new.infos \subseteq ProviderNames
    BY <1>2 DEF Regs
  <2> QED
    BY <1>1, <2>1, <2>2, <2>3
<1> QED
  BY <1>1, <1>2, <1>3, <1>4 DEF Tallies, new

\* The last step of a registration that changes what is listed of a model.
Relisted(reg, c, p, j) ==
  [reg EXCEPT !.infos = @ \cup ({p} \cap ProviderNames),
              !.quota = @ \ {c}, !.suspended = @ \ {c},
              !.by = [k \in ProviderNames |-> IF k = p THEN @[k] + j ELSE @[k]]]

LEMMA RelistedTallies ==
  ASSUME NEW reg \in Regs, NEW rest \in Nat, NEW share,
         \A k \in ProviderNames : share[k] \in Nat,
         NEW p \in AnyProvider, NEW n \in Nat, NEW j \in Nat, n + j > 0, NEW c \in Clients,
         Tallies(reg, rest + j, share, p, n)
  PROVE  /\ Tallies(Relisted(reg, c, p, j), rest, share, p, n + j)
         /\ Relisted(reg, c, p, j).quota = reg.quota \ {c}
         /\ Relisted(reg, c, p, j).suspended = reg.suspended \ {c}
<1>1. /\ reg.count = rest + j + n
      /\ \A k \in ProviderNames : reg.by[k] = share[k] + (IF k = p THEN n ELSE 0)
      /\ reg.infos = {k \in ProviderNames : reg.by[k] > 0}
      /\ reg.by \in [ProviderNames -> Nat] /\ reg.infos \in SUBSET ProviderNames
      /\ reg.quota \in SUBSET Clients /\ reg.suspended \in SUBSET Clients
  BY DEF Tallies, Regs
<1> DEFINE by == [k \in ProviderNames |-> IF k = p THEN reg.by[k] + j ELSE reg.by[k]]
           one == [reg EXCEPT !.infos = reg.infos \cup ({p} \cap ProviderNames)]
           two == [one EXCEPT !.quota = reg.quota \ {c}]
           three == [two EXCEPT !.suspended = reg.suspended \ {c}]
           four == [three EXCEPT !.by = by]
<1>2. Relisted(reg, c, p, j) = four
  <2>1. one.quota = reg.quota /\ two.suspended = reg.suspended /\ three.by = reg.by
    BY DEF Regs
  <2> QED
    BY <2>1 DEF Relisted
<1>3. by \in [ProviderNames -> Nat]
  BY <1>1
<1>4. \A k \in ProviderNames : by[k] = share[k] + (IF k = p THEN n + j ELSE 0)
  BY <1>1
<1> HIDE DEF by
<1>5. one \in Regs /\ two \in Regs /\ three \in Regs
  <2>1. one \in Regs
    BY <1>1 DEF Regs
  <2> HIDE DEF one
  <2>2. two \in Regs
    BY <1>1, <2>1 DEF Regs
  <2> HIDE DEF two
  <2> QED
    BY <1>1, <2>1, <2>2 DEF Regs
<1>6. four \in Regs
  BY <1>3, <1>5 DEF Regs
<1>7. /\ four.count = reg.count /\ four.by = by /\ four.infos = reg.infos \cup ({p} \cap ProviderNames)
      /\ four.quota = reg.quota \ {c} /\ four.suspended = reg.suspended \ {c}
  BY <1>3, <1>5, <1>6 DEF Regs
<1> HIDE DEF one, two, three, four
<1>8. four.infos = {k \in ProviderNames : four.by[k] > 0}
  BY <1>1, <1>4, <1>7
<1>9. Tallies(four, rest, share, p, n + j)
  <2>1. four.count = rest + (n + j)
    BY <1>1, <1>7
  <2> QED
    BY <1>4, <1>6, <1>7, <1>8, <2>1 DEF Tallies
<1> QED
  BY <1>2, <1>7, <1>9

\* RegisterClient of a client that lists some models already.
LEMMA ReconciledTallies ==
  ASSUME NEW reg \in Regs, NEW rest \in Nat, NEW share,
         \A k \in ProviderNames : share[k] \in 0..rest,
         NEW p \in AnyProvider, NEW old \in Nat, NEW new \in Nat, NEW c \in Clients,
         client[c].provider \in AnyProvider,
         Tallies(reg, rest, share, client[c].provider, old)
  PROVE  LET after == Reconciled(reg, c, p, old, new) IN
           /\ Tallies(after, rest, share, p, new)
           /\ after.quota \subseteq reg.quota /\ after.suspended \subseteq reg.suspended
           /\ old > 0 \/ new > 0 => c \notin after.quota \cup after.suspended
<1> DEFINE q == client[c].provider
           overlap == IF p = q THEN 0 ELSE Least(old, new)
           moved == IF overlap > 0 THEN Dropped(reg, q, overlap) ELSE reg
           less == IF old > new THEN Removed(moved, c, q, old - new) ELSE moved
           more == IF new > old THEN Added(less, p, new - old) ELSE less
           after == Reconciled(reg, c, p, old, new)
<1>1. after = IF new = 0 THEN more ELSE Relisted(more, c, p, overlap)
  BY DEF Reconciled, Relisted
<1>2. /\ q = p => overlap = 0
      /\ q # p /\ old > new => overlap = new
      /\ q # p /\ ~(old > new) => overlap = old
      /\ q \in AnyProvider
  BY DEF Least
<1>3. Tallies(reg, rest, share, q, old)
  OBVIOUS
<1> HIDE DEF after, overlap, q
<1>4. \A k \in ProviderNames : share[k] \in Nat /\ share[k] <= rest
  OBVIOUS
\* What stays with the provider, and what is still counted for it, are one sum.
<1> DEFINE base == IF q = p THEN [k \in ProviderNames |->
                                    share[k] + (IF k = q THEN Least(old, new) ELSE 0)]
                   ELSE [k \in ProviderNames |-> share[k]]
           total == rest + Least(old, new)
<1>5. /\ Least(old, new) \in Nat /\ total \in Nat /\ total = rest + Least(old, new)
      /\ old > new => Least(old, new) = new
      /\ ~(old > new) => Least(old, new) = old
      /\ \A k \in ProviderNames :
           base[k] = share[k] + (IF q = p /\ k = q THEN Least(old, new) ELSE 0)
      /\ \A k \in ProviderNames : base[k] \in 0..total
  BY <1>4 DEF Least
<1> HIDE DEF base, total
<1>6. /\ moved \in Regs
      /\ Tallies(moved, total, base, q, IF old > new THEN old - new ELSE 0)
      /\ moved.quota = reg.quota /\ moved.suspended = reg.suspended
  <2> DEFINE left == IF old > new THEN old - new ELSE 0
  <2>1. left \in Nat /\ left + Least(old, new) = old
    BY <1>5
  <2> HIDE DEF left
  <2>2. CASE overlap = 0
    <3>1. moved = reg
      BY <2>2
    <3>2. \A k \in ProviderNames :
            base[k] + (IF k = q THEN left ELSE 0) = share[k] + (IF k = q THEN old ELSE 0)
      <4>1. q = p \/ Least(old, new) = 0
        BY <1>2, <1>5, <2>2
      <4> QED
        BY <1>4, <1>5, <2>1, <4>1
    <3>3. Tallies(reg, total, base, q, left)
      BY <1>3, <1>5, <2>1, <3>2 DEF Tallies
    <3> QED
      BY <3>1, <3>3 DEF left
  <2>3. CASE overlap # 0
    <3>1. /\ q # p /\ overlap \in Nat /\ overlap = Least(old, new)
          /\ q \in AnyProvider /\ moved = Dropped(reg, q, overlap)
      BY <1>2, <1>5, <2>3
    <3>2. Tallies(reg, rest, share, q, left + overlap)
      BY <1>3, <2>1, <3>1
    <3>3. /\ Tallies(Dropped(reg, q, overlap), rest + overlap, share, q, left)
          /\ Dropped(reg, q, overlap).quota = reg.quota
          /\ Dropped(reg, q, overlap).suspended = reg.suspended
      BY <1>4, <2>1, <3>1, <3>2, DroppedTallies
    <3> HIDE DEF moved
    <3>4. Tallies(moved, total, base, q, left)
      BY <1>4, <1>5, <2>1, <3>1, <3>3 DEF Tallies
    <3> QED
      BY <3>1, <3>3, <3>4 DEF left, Tallies
  <2> QED
    BY <2>2, <2>3
<1> HIDE DEF moved
<1>7. /\ less \in Regs /\ \A k : Tallies(less, total, base, k, 0)
      /\ less.quota \subseteq reg.quota /\ less.suspended \subseteq reg.suspended
      /\ old > new => c \notin less.quota \cup less.suspended
  <2>1. CASE old > new
    <3>1. /\ old - new \in Nat /\ old - new > 0 /\ old > 0
          /\ less = Removed(moved, c, q, old - new)
          /\ Tallies(moved, total, base, q, old - new)
      BY <1>6, <2>1
    <3>2. PICK j \in Nat : j = old - new
      BY <3>1
    <3>3. /\ \A k : Tallies(less, total, base, k, 0)
          /\ less.quota \subseteq moved.quota /\ less.suspended \subseteq moved.suspended
          /\ c \notin less.quota \cup less.suspended
      BY <1>2, <1>5, <1>6, <3>1, <3>2, RemovedTallies
    <3> QED
      BY <1>6, <2>1, <3>3 DEF Tallies
  <2>2. CASE ~(old > new)
    <3>1. less = moved /\ Tallies(moved, total, base, q, 0)
      BY <1>6, <2>2
    <3>2. \A k \in ProviderNames : base[k] \in Nat
      BY <1>5
    <3>3. \A k : Tallies(moved, total, base, k, 0)
      BY <3>1, <3>2 DEF Tallies
    <3> QED
      BY <1>6, <2>2, <3>1, <3>3
  <2> QED
    BY <2>1, <2>2
<1> HIDE DEF less
<1>8. /\ more \in Regs
      /\ Tallies(more, total, base, p, IF new > old THEN new - old ELSE 0)
      /\ more.quota \subseteq reg.quota /\ more.suspended \subseteq reg.suspended
      /\ old > new => c \notin more.quota \cup more.suspended
  <2>1. CASE new > old
    <3>1. PICK j \in Nat : j = new - old
      BY <2>1
    <3>2. more = Added(less, p, j)
      BY <2>1, <3>1
    <3>3. Tallies(less, total, base, p, 0) /\ \A k \in ProviderNames : base[k] \in Nat
      BY <1>5, <1>7
    <3>4. /\ Tallies(Added(less, p, j), total, base, p, j)
          /\ Added(less, p, j).quota = less.quota /\ Added(less, p, j).suspended = less.suspended
      BY <1>5, <1>7, <3>3, AddedTallies
    <3> HIDE DEF more
    <3> QED
      BY <1>7, <2>1, <3>1, <3>2, <3>4 DEF Tallies
  <2>2. CASE ~(new > old)
    BY <1>7, <2>2
  <2> QED
    BY <2>1, <2>2
<1> HIDE DEF more
<1>9. CASE new = 0
  <2>1. after = more /\ Tallies(more, total, base, p, 0) /\ Least(old, new) = 0
    BY <1>1, <1>5, <1>8, <1>9
  <2>2. Tallies(more, rest, share, p, 0)
    BY <1>4, <1>5, <2>1 DEF Tallies
  <2> QED
    BY <1>8, <1>9, <2>1, <2>2 DEF after
<1>10. CASE new # 0
  <2> DEFINE j == IF new > old THEN new - old ELSE 0
             i == overlap
  <2>1. j \in Nat /\ i \in Nat /\ j + Least(old, new) = new
    BY <1>2, <1>5
  <2>2. Tallies(more, total, base, p, j)
    BY <1>8
  <2> HIDE DEF j
  <2>3. PICK n \in Nat : n = new - i /\ Tallies(more, rest + i, share, p, n)
    <3>1. CASE q = p
      <4>1. /\ i = 0 /\ new \in Nat /\ total + j = rest + new
            /\ \A k \in ProviderNames :
                 share[k] + (IF k = p THEN new ELSE 0) = base[k] + (IF k = p THEN j ELSE 0)
        BY <1>2, <1>4, <1>5, <2>1, <3>1
      <4>2. Tallies(more, rest, share, p, new)
        BY <1>5, <2>1, <2>2, <4>1 DEF Tallies
      <4> QED
        BY <4>1, <4>2
    <3>2. CASE q # p
      <4>1. /\ i = Least(old, new) /\ new - i = j /\ rest + i = total
            /\ \A k \in ProviderNames : share[k] = base[k]
        <5>1. i = Least(old, new)
          BY <1>2, <1>5, <3>2
        <5>2. new - i = j /\ rest + i = total
          BY <1>5, <2>1, <5>1
        <5>3. \A k \in ProviderNames : share[k] = base[k]
          BY <1>4, <1>5, <3>2
        <5> QED
          BY <5>1, <5>2, <5>3
      <4>2. Tallies(more, rest + i, share, p, j)
        BY <2>2, <4>1 DEF Tallies
      <4> QED
        BY <2>1, <4>1, <4>2
    <3> QED
      BY <3>1, <3>2
  <2> HIDE DEF i
  <2>4. n + i = new /\ n + i > 0
    BY <1>10, <2>1, <2>3
  <2>5. /\ Tallies(Relisted(more, c, p, i), rest, share, p, n + i)
        /\ Relisted(more, c, p, i).quota = more.quota \ {c}
        /\ Relisted(more, c, p, i).suspended = more.suspended \ {c}
    BY <1>4, <1>8, <2>1, <2>3, <2>4, RelistedTallies
  <2>6. after = Relisted(more, c, p, i)
    BY <1>1, <1>10 DEF i
  <2> QED
    BY <1>8, <2>4, <2>5, <2>6 DEF after
<1> QED
  BY <1>9, <1>10

-----------------------------------------------------------------------------
(* What an operation on one client leaves of the others.                   *)

Having(f, k, cs) == {d \in cs : f[d] = k}

\* The listings of a model, those of one client apart.
Apart(n, f, c, k) ==
  /\ Cardinality(Listings(n, Clients \ {c})) \in Nat
  /\ Cardinality(Listings(n, Having(f, k, Clients \ {c})))
       \in 0..Cardinality(Listings(n, Clients \ {c}))
  /\ Cardinality(Listings(n, Clients)) = Cardinality(Listings(n, Clients \ {c})) + n[c]
  /\ Cardinality(Listings(n, Having(f, k, Clients)))
       = Cardinality(Listings(n, Having(f, k, Clients \ {c}))) + (IF k = f[c] THEN n[c] ELSE 0)

LEMMA ListingsApart ==
  ASSUME NEW n \in [Clients -> 0..MaxCopies], NEW f, NEW c \in Clients, NEW k
  PROVE  Apart(n, f, c, k)
<1> DEFINE cs == Having(f, k, Clients)
           ds == Having(f, k, Clients \ {c})
           all == Clients \ {c}
<1>1. /\ cs \in SUBSET Clients /\ ds \in SUBSET all /\ all \in SUBSET Clients
      /\ cs \ {c} = ds /\ (c \in cs <=> f[c] = k) /\ (c \notin cs => cs = ds)
  BY DEF Having
<1> HIDE DEF cs, ds, all
<1>2. n[c] \in Nat
  BY RegistryBounds
<1>3. /\ Cardinality(Listings(n, all)) \in Nat
      /\ Cardinality(Listings(n, Clients)) = Cardinality(Listings(n, all)) + n[c]
  BY ListingsAdd DEF all
<1>4. Cardinality(Listings(n, ds)) \in Nat /\ Cardinality(Listings(n, ds)) <= Cardinality(Listings(n, all))
  <2>1. ds \in SUBSET Clients
    BY <1>1
  <2>2. Cardinality(Listings(n, ds)) \in Nat
    BY <2>1, ListingsWithout
  <2>3. Cardinality(Listings(n, ds)) <= Cardinality(Listings(n, all))
    BY <1>1, ListingsWithout
  <2> QED
    BY <2>2, <2>3
<1>5. Cardinality(Listings(n, ds)) \in 0..Cardinality(Listings(n, all))
  BY <1>3, <1>4
<1>6. Cardinality(Listings(n, cs)) = Cardinality(Listings(n, ds)) + (IF k = f[c] THEN n[c] ELSE 0)
  <2>1. CASE c \in cs
    <3>1. Cardinality(Listings(n, cs)) = Cardinality(Listings(n, cs \ {c})) + n[c]
      BY <1>1, <2>1, ListingsAdd
    <3> QED
      BY <1>1, <2>1, <3>1
  <2>2. CASE c \notin cs
    BY <1>1, <1>4, <2>2
  <2> QED
    BY <2>1, <2>2
<1> QED
  BY <1>3, <1>5, <1>6 DEF cs, ds, all, Apart

\* The counts of a model.
CountsFit(m) ==
  /\ regs[m] \in Regs /\ regs[m].count = Copies(m, Clients)
  /\ \A k \in ProviderNames :
       regs[m].by[k] = Copies(m, {d \in Clients : client[d].provider = k})
  /\ regs[m].infos = {k \in ProviderNames : regs[m].by[k] > 0}

\* An operation on one client moves its part of the counts.
LEMMA OneClientMoves ==
  ASSUME ClientTypes, ClientTypes', NEW c \in Clients,
         \A d \in Clients \ {c} : client'[d] = client[d],
         NEW m \in Catalogue, CountsFit(m)
  PROVE  \E rest \in Nat : \E share :
           /\ \A k \in ProviderNames : share[k] \in 0..rest
           /\ Tallies(regs[m], rest, share, client[c].provider, client[c].copies[m])
           /\ Tallies(regs'[m], rest, share, client'[c].provider, client'[c].copies[m])
                => CountsFit(m)'
<1> DEFINE before == [d \in Clients |-> client[d].copies[m]]
           after == [d \in Clients |-> client'[d].copies[m]]
           of == [d \in Clients |-> client[d].provider]
           by == [d \in Clients |-> client'[d].provider]
<1>1. before \in [Clients -> 0..MaxCopies] /\ after \in [Clients -> 0..MaxCopies]
  BY DEF ClientTypes
<1>2. /\ before[c] = client[c].copies[m] /\ after[c] = client'[c].copies[m]
      /\ of[c] = client[c].provider /\ by[c] = client'[c].provider
  OBVIOUS
<1>3. \A d \in Clients \ {c} : after[d] = before[d] /\ by[d] = of[d]
  OBVIOUS
<1>4. /\ Copies(m, Clients) = Cardinality(Listings(before, Clients))
      /\ \A k \in ProviderNames :
           Copies(m, {d \in Clients : client[d].provider = k})
             = Cardinality(Listings(before, Having(of, k, Clients)))
  <2>1. \A cs \in SUBSET Clients : Copies(m, cs) = Cardinality(Listings(before, cs))
    BY DEF Copies, Listings
  <2>2. \A k : {d \in Clients : client[d].provider = k} = Having(of, k, Clients)
    BY DEF Having
  <2>3. \A k : Having(of, k, Clients) \in SUBSET Clients
    BY DEF Having
  <2> HIDE DEF before, of
  <2> QED
    BY <2>1, <2>2, <2>3
<1>5. /\ Copies(m, Clients)' = Cardinality(Listings(after, Clients))
      /\ \A k \in ProviderNames :
           Copies(m, {d \in Clients : client[d].provider = k})'
             = Cardinality(Listings(after, Having(by, k, Clients)))
  <2>1. \A cs \in SUBSET Clients :
          Cardinality({e \in cs \X (1..MaxCopies) : e[2] <= client'[e[1]].copies[m]})
            = Cardinality(Listings(after, cs))
    BY DEF Listings
  <2>2. \A k : {d \in Clients : client'[d].provider = k} = Having(by, k, Clients)
    BY DEF Having
  <2>3. \A k : Having(by, k, Clients) \in SUBSET Clients
    BY DEF Having
  <2> HIDE DEF after, by
  <2> QED
    BY <2>1, <2>2, <2>3 DEF Copies
<1> HIDE DEF before, after, of, by
<1> DEFINE rest == Cardinality(Listings(before, Clients \ {c}))
           share == [k \in ProviderNames |->
                       Cardinality(Listings(before, Having(of, k, Clients \ {c})))]
<1>6. /\ Listings(after, Clients \ {c}) = Listings(before, Clients \ {c})
      /\ \A k : Listings(after, Having(by, k, Clients \ {c}))
                  = Listings(before, Having(of, k, Clients \ {c}))
  <2>1. ASSUME NEW cs \in SUBSET (Clients \ {c}) PROVE Listings(after, cs) = Listings(before, cs)
    BY <1>3 DEF Listings
  <2>2. ASSUME NEW k
        PROVE  /\ Having(by, k, Clients \ {c}) = Having(of, k, Clients \ {c})
               /\ Having(of, k, Clients \ {c}) \in SUBSET (Clients \ {c})
    BY <1>3 DEF Having
  <2> QED
    BY <2>1, <2>2
<1>7. ASSUME NEW k \in ProviderNames
      PROVE  /\ rest \in Nat /\ share[k] \in 0..rest
             /\ Cardinality(Listings(before, Having(of, k, Clients)))
                  = share[k] + (IF k = of[c] THEN before[c] ELSE 0)
             /\ Cardinality(Listings(after, Having(by, k, Clients)))
                  = share[k] + (IF k = by[c] THEN after[c] ELSE 0)
  <2>1. share[k] = Cardinality(Listings(before, Having(of, k, Clients \ {c})))
    OBVIOUS
  <2> HIDE DEF share
  <2>2. /\ rest \in Nat
        /\ Cardinality(Listings(before, Having(of, k, Clients \ {c}))) \in 0..rest
        /\ Cardinality(Listings(before, Having(of, k, Clients)))
             = Cardinality(Listings(before, Having(of, k, Clients \ {c})))
                 + (IF k = of[c] THEN before[c] ELSE 0)
    <3>1. Apart(before, of, c, k)
      BY <1>1, ListingsApart
    <3> QED
      BY <3>1 DEF rest, Apart
  <2>3. Cardinality(Listings(after, Having(by, k, Clients)))
          = Cardinality(Listings(after, Having(by, k, Clients \ {c})))
              + (IF k = by[c] THEN after[c] ELSE 0)
    <3>1. Apart(after, by, c, k)
      BY <1>1, ListingsApart
    <3> QED
      BY <3>1 DEF Apart
  <2> QED
    BY <1>6, <2>1, <2>2, <2>3
<1>8. /\ rest \in Nat
      /\ Cardinality(Listings(before, Clients)) = rest + before[c]
      /\ Cardinality(Listings(after, Clients)) = rest + after[c]
  <2>1. Apart(before, of, c, c) /\ Apart(after, by, c, c)
    BY <1>1, ListingsApart
  <2> QED
    BY <1>6, <2>1 DEF Apart
<1> HIDE DEF rest, share
<1>9. Tallies(regs[m], rest, share, client[c].provider, client[c].copies[m])
  <2>1. \A k \in ProviderNames :
          regs[m].by[k] = share[k] + (IF k = of[c] THEN before[c] ELSE 0)
    BY <1>4, <1>7 DEF CountsFit
  <2>2. regs[m].count = rest + before[c]
    BY <1>4, <1>8 DEF CountsFit
  <2> QED
    BY <1>2, <2>1, <2>2 DEF CountsFit, Tallies
<1>10. ASSUME Tallies(regs'[m], rest, share, client'[c].provider, client'[c].copies[m])
       PROVE  CountsFit(m)'
  <2>1. regs'[m].count = Copies(m, Clients)'
    BY <1>2, <1>5, <1>8, <1>10 DEF Tallies
  <2>2. ASSUME NEW k \in ProviderNames
        PROVE  regs'[m].by[k] = Copies(m, {d \in Clients : client[d].provider = k})'
    <3>1. regs'[m].by[k] = share[k] + (IF k = by[c] THEN after[c] ELSE 0)
      BY <1>2, <1>10 DEF Tallies
    <3> QED
      BY <1>5, <1>7, <3>1
  <2> QED
    BY <1>10, <2>1, <2>2 DEF CountsFit, Tallies
<1> QED
  BY <1>7, <1>8, <1>9, <1>10

\* How many use each profile.
UsesOf(cs, f) == [k \in {f[c] : c \in cs} |-> Cardinality(Having(f, k, cs))]
OneLess(uses, p) == IF uses[p] = 1 THEN [k \in DOMAIN uses \ {p} |-> uses[k]]
                    ELSE [uses EXCEPT ![p] = @ - 1]
OneMore(uses, p) == IF p \in DOMAIN uses THEN [uses EXCEPT ![p] = @ + 1]
                    ELSE [k \in DOMAIN uses \cup {p} |-> IF k = p THEN 1 ELSE uses[k]]

LEMMA UsersAreFinite ==
  ASSUME NEW cs \in SUBSET Clients, NEW f, NEW k
  PROVE  IsFiniteSet(Having(f, k, cs)) /\ Cardinality(Having(f, k, cs)) \in Nat
<1>1. IsFiniteSet(Clients) /\ Having(f, k, cs) \in SUBSET Clients
  BY RegistryBounds DEF Having
<1> QED
  BY <1>1, FS_Subset, FS_CardinalityType

LEMMA OneUserLess ==
  ASSUME NEW cs \in SUBSET Clients, NEW f, NEW c \in cs, NEW uses, uses = UsesOf(cs, f)
  PROVE  UsesOf(cs \ {c}, f) = OneLess(uses, f[c])
<1> DEFINE left == UsesOf(cs \ {c}, f)
           ours == Having(f, f[c], cs)
<1>1. /\ DOMAIN uses = {f[d] : d \in cs} /\ f[c] \in DOMAIN uses
      /\ \A k \in DOMAIN uses : uses[k] = Cardinality(Having(f, k, cs))
      /\ uses = [k \in DOMAIN uses |-> uses[k]]
  BY DEF UsesOf
<1>2. /\ DOMAIN left = {f[d] : d \in cs \ {c}}
      /\ \A k \in DOMAIN left : left[k] = Cardinality(Having(f, k, cs \ {c}))
      /\ left = [k \in DOMAIN left |-> left[k]]
  BY DEF UsesOf
<1>3. \A k : k # f[c] => Having(f, k, cs \ {c}) = Having(f, k, cs)
  BY DEF Having
<1>4. /\ Having(f, f[c], cs \ {c}) = ours \ {c} /\ c \in ours /\ IsFiniteSet(ours)
      /\ Cardinality(ours) \in Nat
  BY UsersAreFinite DEF Having
<1>5. Cardinality(Having(f, f[c], cs \ {c})) = Cardinality(ours) - 1
  <2> HIDE DEF ours
  <2> QED
    BY <1>4, FS_RemoveElement
<1>6. uses[f[c]] = Cardinality(ours)
  BY <1>1
<1>7. DOMAIN left \subseteq DOMAIN uses /\ DOMAIN uses \ {f[c]} \subseteq DOMAIN left
  BY <1>1, <1>2
<1>8. f[c] \in DOMAIN left <=> ours \ {c} # {}
  BY <1>2 DEF Having
<1>9. ours \ {c} # {} <=> Cardinality(ours) # 1
  <2>1. IsFiniteSet(ours \ {c}) /\ Cardinality(ours \ {c}) = Cardinality(ours) - 1
    <3> HIDE DEF ours
    <3> QED
      BY <1>4, FS_RemoveElement
  <2> HIDE DEF ours
  <2> QED
    BY <1>4, <2>1, FS_EmptySet
<1> HIDE DEF left, ours
<1>10. CASE uses[f[c]] = 1
  <2>1. DOMAIN left = DOMAIN uses \ {f[c]}
    BY <1>6, <1>7, <1>8, <1>9, <1>10
  <2>2. \A k \in DOMAIN left : left[k] = uses[k]
    BY <1>1, <1>2, <1>3, <2>1
  <2>3. left = [k \in DOMAIN uses \ {f[c]} |-> uses[k]]
    BY <1>2, <2>1, <2>2
  <2> QED
    BY <1>10, <2>3 DEF left, OneLess
<1>11. CASE uses[f[c]] # 1
  <2>1. DOMAIN left = DOMAIN uses
    BY <1>1, <1>6, <1>7, <1>8, <1>9, <1>11
  <2>2. \A k \in DOMAIN uses : left[k] = IF k = f[c] THEN uses[f[c]] - 1 ELSE uses[k]
    BY <1>1, <1>2, <1>3, <1>5, <1>6, <2>1
  <2>3. left = [uses EXCEPT ![f[c]] = @ - 1]
    BY <1>1, <1>2, <2>1, <2>2
  <2> QED
    BY <1>11, <2>3 DEF left, OneLess
<1> QED
  BY <1>10, <1>11

LEMMA OneUserMore ==
  ASSUME NEW cs \in SUBSET Clients, NEW f, NEW c \in Clients \ cs, NEW uses, uses = UsesOf(cs, f)
  PROVE  UsesOf(cs \cup {c}, f) = OneMore(uses, f[c])
<1> DEFINE more == UsesOf(cs \cup {c}, f)
           ours == Having(f, f[c], cs)
<1>1. /\ DOMAIN uses = {f[d] : d \in cs}
      /\ \A k \in DOMAIN uses : uses[k] = Cardinality(Having(f, k, cs))
      /\ uses = [k \in DOMAIN uses |-> uses[k]]
  BY DEF UsesOf
<1>2. /\ DOMAIN more = {f[d] : d \in cs \cup {c}}
      /\ \A k \in DOMAIN more : more[k] = Cardinality(Having(f, k, cs \cup {c}))
      /\ more = [k \in DOMAIN more |-> more[k]]
  BY DEF UsesOf
<1>3. \A k : k # f[c] => Having(f, k, cs \cup {c}) = Having(f, k, cs)
  BY DEF Having
<1>4. /\ Having(f, f[c], cs \cup {c}) = ours \cup {c} /\ c \notin ours /\ IsFiniteSet(ours)
      /\ Cardinality(ours) \in Nat
  BY UsersAreFinite DEF Having
<1>5. Cardinality(Having(f, f[c], cs \cup {c})) = Cardinality(ours) + 1
  <2> HIDE DEF ours
  <2> QED
    BY <1>4, FS_AddElement
<1>6. DOMAIN more = DOMAIN uses \cup {f[c]}
  BY <1>1, <1>2
<1>7. f[c] \notin DOMAIN uses => ours = {}
  BY <1>1 DEF Having
<1> HIDE DEF more, ours
<1>8. \A k \in DOMAIN more : k # f[c] => more[k] = uses[k]
  BY <1>1, <1>2, <1>3, <1>6
<1>9. CASE f[c] \in DOMAIN uses
  <2>1. DOMAIN more = DOMAIN uses /\ more[f[c]] = uses[f[c]] + 1
    BY <1>1, <1>2, <1>5, <1>6, <1>9 DEF ours
  <2>2. more = [uses EXCEPT ![f[c]] = @ + 1]
    BY <1>1, <1>2, <1>8, <2>1
  <2> QED
    BY <1>9, <2>2 DEF more, OneMore
<1>10. CASE f[c] \notin DOMAIN uses
  <2>1. more[f[c]] = 1
    BY <1>2, <1>5, <1>6, <1>7, <1>10, FS_EmptySet
  <2>2. more = [k \in DOMAIN uses \cup {f[c]} |-> IF k = f[c] THEN 1 ELSE uses[k]]
    BY <1>2, <1>6, <1>8, <2>1
  <2> QED
    BY <1>10, <2>2 DEF more, OneMore
<1> QED
  BY <1>9, <1>10

SharedClients == {d \in Clients : client[d].shared}
Profiles == [d \in Clients |-> ProfileOf(d)]
RefsFit == refs = UsesOf(SharedClients, Profiles)

LEMMA ReleasedLeaves ==
  ASSUME RefsFit, NEW c \in Clients
  PROVE  Released(c) = UsesOf(SharedClients \ {c}, Profiles)
<1>1. /\ SharedClients \in SUBSET Clients /\ (c \in SharedClients <=> client[c].shared)
      /\ Profiles[c] = ProfileOf(c)
  BY DEF SharedClients, Profiles
<1>2. CASE c \in SharedClients
  <2>1. PICK cs, f : cs \in SUBSET Clients /\ cs = SharedClients /\ f = Profiles
    BY <1>1
  <2>2. c \in cs /\ refs = UsesOf(cs, f) /\ f[c] = ProfileOf(c)
    BY <1>1, <1>2, <2>1 DEF RefsFit
  <2>3. UsesOf(cs \ {c}, f) = OneLess(refs, f[c])
    BY <2>1, <2>2, OneUserLess
  <2>4. Released(c) = OneLess(refs, f[c])
    BY <1>1, <1>2, <2>2 DEF Released, OneLess
  <2> QED
    BY <2>1, <2>3, <2>4
<1>3. CASE c \notin SharedClients
  BY <1>1, <1>3 DEF Released, RefsFit
<1> QED
  BY <1>2, <1>3

LEMMA RefsStep ==
  ASSUME RefsFit, NEW c \in Clients, \A d \in Clients \ {c} : client'[d] = client[d],
         refs' = IF client'[c].shared THEN OneMore(Released(c), ProfileOf(c)')
                 ELSE Released(c)
  PROVE  RefsFit'
<1>1. PICK cs, f : cs \in SUBSET Clients /\ cs = SharedClients \ {c} /\ f = Profiles'
  <2>1. SharedClients \ {c} \in SUBSET Clients
    BY DEF SharedClients
  <2> QED
    BY <2>1
<1>2. c \notin cs /\ f[c] = ProfileOf(c)'
  BY <1>1 DEF Profiles
<1>3. SharedClients' = IF client'[c].shared THEN cs \cup {c} ELSE cs
  BY <1>1 DEF SharedClients
<1>4. Released(c) = UsesOf(cs, f)
  <2>1. PICK g : g = Profiles
    OBVIOUS
  <2>2. \A d \in cs : f[d] = g[d]
    BY <1>1, <1>2, <2>1 DEF Profiles, ProfileOf
  <2>3. {f[d] : d \in cs} = {g[d] : d \in cs}
    BY <2>2
  <2>4. \A k : Having(f, k, cs) = Having(g, k, cs)
    BY <2>2 DEF Having
  <2>5. UsesOf(cs, f) = UsesOf(cs, g)
    BY <2>3, <2>4 DEF UsesOf
  <2> QED
    BY <1>1, <2>1, <2>5, ReleasedLeaves
<1>5. CASE ~client'[c].shared
  BY <1>1, <1>3, <1>4, <1>5 DEF RefsFit
<1>6. CASE client'[c].shared
  <2>1. PICK uses : uses = Released(c)
    OBVIOUS
  <2>2. refs' = OneMore(uses, f[c])
    BY <1>2, <1>6, <2>1
  <2>3. refs' = UsesOf(cs \cup {c}, f)
    BY <1>1, <1>2, <1>4, <2>1, <2>2, OneUserMore
  <2> QED
    BY <1>1, <1>3, <1>6, <2>3 DEF RefsFit
<1> QED
  BY <1>5, <1>6

\* Marks stay with clients that offer the model, or are known to have come late.
MarksFit(m) ==
  \A d \in regs[m].quota \cup regs[m].suspended : Offers(d, m) \/ <<d, m>> \in ghosts

LEMMA MarksStep ==
  ASSUME NEW c \in Clients, \A d \in Clients \ {c} : client'[d] = client[d], NEW m \in Catalogue,
         regs[m] \in Regs, MarksFit(m), Remark(c),
         regs'[m].quota \subseteq regs[m].quota, regs'[m].suspended \subseteq regs[m].suspended,
         c \in regs'[m].quota \cup regs'[m].suspended => ~Offers(c, m) \/ Offers(c, m)'
  PROVE  MarksFit(m)'
<1> SUFFICES ASSUME NEW d \in regs'[m].quota \cup regs'[m].suspended
             PROVE  Offers(d, m)' \/ <<d, m>> \in ghosts'
  BY DEF MarksFit
<1>1. d \in Clients /\ d \in regs[m].quota \cup regs[m].suspended
  BY DEF Regs
<1>2. CASE <<d, m>> \in ghosts
  BY <1>2 DEF Remark
<1>3. CASE <<d, m>> \notin ghosts
  BY <1>1, <1>3 DEF MarksFit, Offers
<1> QED
  BY <1>2, <1>3

\* The counts in parts.
LEMMA CountsInParts ==
  CountsMatchClients /\ regs \in [Catalogue -> Regs]
    <=> (regs \in [Catalogue -> Regs] /\ RefsFit
         /\ \A m \in Catalogue : CountsFit(m) /\ MarksFit(m))
<1>1. refs = [k \in {ProfileOf(c) : c \in {d \in Clients : client[d].shared}} |->
                Cardinality({c \in Clients : client[c].shared /\ ProfileOf(c) = k})]
        <=> RefsFit
  <2>1. {ProfileOf(c) : c \in {d \in Clients : client[d].shared}} = {Profiles[c] : c \in SharedClients}
    BY DEF Profiles, SharedClients
  <2>2. \A k : {c \in Clients : client[c].shared /\ ProfileOf(c) = k}
                 = Having(Profiles, k, SharedClients)
    BY DEF Profiles, SharedClients, Having
  <2>3. [k \in {ProfileOf(c) : c \in {d \in Clients : client[d].shared}} |->
           Cardinality({c \in Clients : client[c].shared /\ ProfileOf(c) = k})]
          = UsesOf(SharedClients, Profiles)
    BY <2>1, <2>2 DEF UsesOf
  <2> QED
    BY <2>3 DEF RefsFit
<1>2. regs \in [Catalogue -> Regs] =>
        \A m \in Catalogue :
          CountsFit(m) /\ MarksFit(m)
            <=> /\ regs[m].count = Copies(m, Clients)
                /\ \A p \in ProviderNames :
                     regs[m].by[p] = Copies(m, {c \in Clients : client[c].provider = p})
                /\ regs[m].infos = {p \in ProviderNames : regs[m].by[p] > 0}
                /\ \A c \in regs[m].quota \cup regs[m].suspended :
                     Offers(c, m) \/ <<c, m>> \in ghosts
  BY DEF CountsFit, MarksFit
<1> QED
  BY <1>1, <1>2 DEF CountsMatchClients

\* What a client leaves of a model, when its registration is taken off.
LEMMA LeftTallies ==
  ASSUME ClientTypes, NEW c \in Clients, NEW m \in Catalogue, NEW rest \in Nat, NEW share,
         \A k \in ProviderNames : share[k] \in 0..rest, regs[m] \in Regs,
         Tallies(regs[m], rest, share, client[c].provider, client[c].copies[m])
  PROVE  /\ LeftBy(c)[m] \in Regs /\ \A q : Tallies(LeftBy(c)[m], rest, share, q, 0)
         /\ LeftBy(c)[m].quota \subseteq regs[m].quota
         /\ LeftBy(c)[m].suspended \subseteq regs[m].suspended
         /\ Offers(c, m) => c \notin LeftBy(c)[m].quota \cup LeftBy(c)[m].suspended
<1>1. PICK n \in Nat : n = client[c].copies[m]
  BY RegistryBounds DEF ClientTypes
<1>3. LeftBy(c)[m] = Removed(regs[m], c, client[c].provider, n)
  BY <1>1 DEF LeftBy
<1>4. PICK reg, p : reg \in Regs /\ reg = regs[m] /\ p = client[c].provider
  OBVIOUS
<1>5. LET new == Removed(reg, c, p, n) IN
        /\ \A q : Tallies(new, rest, share, q, 0)
        /\ new.quota \subseteq reg.quota /\ new.suspended \subseteq reg.suspended
        /\ n > 0 => c \notin new.quota \cup new.suspended
  BY <1>1, <1>4, RemovedTallies
<1>6. LeftBy(c)[m] \in Regs
  BY <1>3, <1>4, <1>5 DEF Tallies
<1> QED
  BY <1>1, <1>3, <1>4, <1>5, <1>6 DEF Offers

\* Unregistering and registering: one client's part is moved, in every model.
LEMMA RegistrationStep ==
  ASSUME RegistryInv, ClientTypes', NEW c \in Clients,
         \A d \in Clients \ {c} : client'[d] = client[d], Remark(c),
         regs' = [m \in Catalogue |-> regs'[m]],
         refs' = IF client'[c].shared THEN OneMore(Released(c), ProfileOf(c)')
                 ELSE Released(c),
         \A m \in Catalogue, rest \in Nat : \A share :
           /\ \A k \in ProviderNames : share[k] \in 0..rest
           /\ regs[m] \in Regs
           /\ Tallies(regs[m], rest, share, client[c].provider, client[c].copies[m])
           => /\ Tallies(regs'[m], rest, share, client'[c].provider, client'[c].copies[m])
              /\ regs'[m].quota \subseteq regs[m].quota
              /\ regs'[m].suspended \subseteq regs[m].suspended
              /\ Offers(c, m) => c \notin regs'[m].quota \cup regs'[m].suspended
  PROVE  RegistryInv'
<1>1. /\ ClientTypes /\ RefsFit /\ regs \in [Catalogue -> Regs]
      /\ \A m \in Catalogue : regs[m] \in Regs /\ CountsFit(m) /\ MarksFit(m)
  BY CountsInParts DEF RegistryInv
<1>2. RefsFit'
  BY <1>1, RefsStep
<1>3. ASSUME NEW m \in Catalogue
      PROVE  CountsFit(m)' /\ MarksFit(m)' /\ regs'[m] \in Regs
  <2>1. PICK rest \in Nat : \E share :
           /\ \A k \in ProviderNames : share[k] \in 0..rest
           /\ Tallies(regs[m], rest, share, client[c].provider, client[c].copies[m])
           /\ Tallies(regs'[m], rest, share, client'[c].provider, client'[c].copies[m])
                => CountsFit(m)'
    BY <1>1, OneClientMoves
  <2>2. /\ CountsFit(m)' /\ regs'[m] \in Regs
        /\ regs'[m].quota \subseteq regs[m].quota
        /\ regs'[m].suspended \subseteq regs[m].suspended
        /\ Offers(c, m) => c \notin regs'[m].quota \cup regs'[m].suspended
    BY <1>1, <2>1 DEF Tallies
  <2>3. MarksFit(m)'
    BY <1>1, <2>2, MarksStep
  <2> QED
    BY <2>2, <2>3
<1>4. regs' \in [Catalogue -> Regs]
  BY <1>3
<1>5. (regs \in [Catalogue -> Regs] /\ RefsFit
         /\ \A m \in Catalogue : CountsFit(m) /\ MarksFit(m))'
  BY <1>2, <1>3, <1>4
<1>6. (CountsMatchClients /\ regs \in [Catalogue -> Regs])'
  BY <1>5, CountsInParts, PTL
<1> QED
  BY <1>6 DEF RegistryInv

\* What a client may become.
LEMMA ClientTypesStep ==
  ASSUME ClientTypes, NEW c \in Clients, NEW p \in AnyProvider,
         NEW copies \in [Catalogue -> 0..MaxCopies], NEW one \in BOOLEAN,
         \/ client' = [client EXCEPT ![c] = [provider |-> p, copies |-> copies, shared |-> one]]
         \/ client' = [client EXCEPT ![c] = NoClient]
  PROVE  ClientTypes' /\ \A d \in Clients \ {c} : client'[d] = client[d]
<1>1. 0 \in 0..MaxCopies
  BY RegistryBounds
<1>2. CASE client' = [client EXCEPT ![c] = [provider |-> p, copies |-> copies, shared |-> one]]
  BY <1>2 DEF ClientTypes
<1>3. CASE client' = [client EXCEPT ![c] = NoClient]
  <2>1. NoClient \in [provider : AnyProvider,
                      copies : [Catalogue -> 0..MaxCopies], shared : BOOLEAN]
    BY <1>1 DEF NoClient, AnyProvider
  <2> QED
    BY <1>3, <2>1 DEF ClientTypes
<1> QED
  BY <1>2, <1>3

LEMMA UnregisterStep ==
  ASSUME RegistryInv, NEW c \in Clients, UnregisterClient(c)
  PROVE  RegistryInv'
<1>1. client \in [Clients -> [provider : AnyProvider,
                             copies : [Catalogue -> 0..MaxCopies], shared : BOOLEAN]]
  BY DEF RegistryInv, ClientTypes
<1>2. ClientTypes' /\ \A d \in Clients \ {c} : client'[d] = client[d]
  <2>1. 0 \in 0..MaxCopies
    BY RegistryBounds
  <2>2. NoClient \in [provider : AnyProvider,
                      copies : [Catalogue -> 0..MaxCopies], shared : BOOLEAN]
    BY <2>1 DEF NoClient, AnyProvider
  <2> QED
    BY <1>1, <2>2 DEF ClientTypes, RegistryInv, UnregisterClient
<1>3. /\ client'[c].copies = [m \in Catalogue |-> 0] /\ ~client'[c].shared
      /\ regs' = LeftBy(c) /\ refs' = Released(c) /\ Remark(c)
  BY <1>1 DEF UnregisterClient, NoClient
<1>4. regs' = [m \in Catalogue |-> regs'[m]]
  BY <1>3 DEF LeftBy
<1>5. ASSUME NEW m \in Catalogue, NEW rest \in Nat, NEW share,
             \A k \in ProviderNames : share[k] \in 0..rest, regs[m] \in Regs,
             Tallies(regs[m], rest, share, client[c].provider, client[c].copies[m])
      PROVE  /\ Tallies(regs'[m], rest, share, client'[c].provider, client'[c].copies[m])
             /\ regs'[m].quota \subseteq regs[m].quota
             /\ regs'[m].suspended \subseteq regs[m].suspended
             /\ Offers(c, m) => c \notin regs'[m].quota \cup regs'[m].suspended
  <2>1. /\ LeftBy(c)[m] \in Regs /\ \A q : Tallies(LeftBy(c)[m], rest, share, q, 0)
        /\ LeftBy(c)[m].quota \subseteq regs[m].quota
        /\ LeftBy(c)[m].suspended \subseteq regs[m].suspended
        /\ Offers(c, m) => c \notin LeftBy(c)[m].quota \cup LeftBy(c)[m].suspended
    <3>1. ClientTypes
      BY DEF RegistryInv
    <3> QED
      BY <1>5, <3>1, LeftTallies
  <2>2. regs'[m] = LeftBy(c)[m] /\ client'[c].copies[m] = 0
    BY <1>3
  <2> QED
    BY <2>1, <2>2
<1> QED
  BY <1>2, <1>3, <1>4, <1>5, RegistrationStep

LEMMA AddedStep ==
  ASSUME RegistryInv, NEW c \in Clients, NEW m \in Catalogue, NEW p \in AnyProvider,
         NEW n \in Nat, NEW rest \in Nat, NEW share,
         \A k \in ProviderNames : share[k] \in 0..rest, regs[m] \in Regs,
         Tallies(regs[m], rest, share, client[c].provider, client[c].copies[m])
  PROVE  LET new == Added(LeftBy(c)[m], p, n) IN
           /\ Tallies(new, rest, share, p, n)
           /\ new.quota \subseteq regs[m].quota /\ new.suspended \subseteq regs[m].suspended
           /\ Offers(c, m) => c \notin new.quota \cup new.suspended
<1>1. /\ LeftBy(c)[m] \in Regs /\ \A q : Tallies(LeftBy(c)[m], rest, share, q, 0)
      /\ LeftBy(c)[m].quota \subseteq regs[m].quota
      /\ LeftBy(c)[m].suspended \subseteq regs[m].suspended
      /\ Offers(c, m) => c \notin LeftBy(c)[m].quota \cup LeftBy(c)[m].suspended
  BY LeftTallies DEF RegistryInv
<1>2. PICK reg \in Regs : reg = LeftBy(c)[m]
  BY <1>1
<1>3. \A k \in ProviderNames : share[k] \in Nat
  OBVIOUS
<1>4. /\ Tallies(Added(reg, p, n), rest, share, p, n)
      /\ Added(reg, p, n).quota = reg.quota /\ Added(reg, p, n).suspended = reg.suspended
  BY <1>1, <1>2, <1>3, AddedTallies
<1> QED
  BY <1>1, <1>2, <1>4

LEMMA RegisterPlainStep ==
  ASSUME RegistryInv, NEW c \in Clients, NEW p \in AnyProvider,
         NEW copies \in Lists,
         RegisterClient(c, p, copies)
  PROVE  RegistryInv'
<1>1. ClientTypes /\ copies \in [Catalogue -> 0..MaxCopies]
  BY DEF RegistryInv, Lists
<1>2. client' = [client EXCEPT ![c] = [provider |-> p, copies |-> copies, shared |-> FALSE]]
  BY DEF RegisterClient
<1>3. ClientTypes' /\ \A d \in Clients \ {c} : client'[d] = client[d]
  BY <1>1, <1>2, ClientTypesStep
<1>4. client'[c] = [provider |-> p, copies |-> copies, shared |-> FALSE]
  BY <1>1, <1>2 DEF ClientTypes
<1>5. /\ refs' = Released(c) /\ Remark(c) /\ regs' = [m \in Catalogue |-> regs'[m]]
      /\ \A m \in Catalogue :
           regs'[m] = IF ~Registered(c) \/ client[c].shared
                      THEN Added(LeftBy(c)[m], p, copies[m])
                      ELSE Reconciled(regs[m], c, p, client[c].copies[m], copies[m])
  BY DEF RegisterClient
<1>6. ASSUME NEW m \in Catalogue, NEW rest \in Nat, NEW share,
             \A k \in ProviderNames : share[k] \in 0..rest, regs[m] \in Regs,
             Tallies(regs[m], rest, share, client[c].provider, client[c].copies[m])
      PROVE  /\ Tallies(regs'[m], rest, share, client'[c].provider, client'[c].copies[m])
             /\ regs'[m].quota \subseteq regs[m].quota
             /\ regs'[m].suspended \subseteq regs[m].suspended
             /\ Offers(c, m) => c \notin regs'[m].quota \cup regs'[m].suspended
  <2>1. PICK n \in Nat : n = copies[m]
    BY <1>1, RegistryBounds
  <2>2. PICK old \in Nat : old = client[c].copies[m]
    BY <1>1, RegistryBounds DEF ClientTypes
  <2>3. client'[c].provider = p /\ client'[c].copies[m] = n
    BY <1>4, <2>1
  <2>4. CASE regs'[m] = Added(LeftBy(c)[m], p, n)
    BY <1>6, <2>3, <2>4, AddedStep
  <2>5. CASE regs'[m] = Reconciled(regs[m], c, p, old, n)
    <3>1. client[c].provider \in AnyProvider
      BY <1>1 DEF ClientTypes
    <3>2. PICK reg \in Regs : reg = regs[m]
      BY <1>6
    <3>3. LET after == Reconciled(reg, c, p, old, n) IN
            /\ Tallies(after, rest, share, p, n)
            /\ after.quota \subseteq reg.quota /\ after.suspended \subseteq reg.suspended
            /\ old > 0 \/ n > 0 => c \notin after.quota \cup after.suspended
      BY <1>6, <2>2, <3>1, <3>2, ReconciledTallies
    <3> QED
      BY <2>2, <2>3, <2>5, <3>2, <3>3 DEF Offers
  <2> QED
    BY <1>5, <2>1, <2>2, <2>4, <2>5
<1> QED
  BY <1>3, <1>4, <1>5, <1>6, RegistrationStep

LEMMA RegisterSharedStep ==
  ASSUME RegistryInv, NEW c \in Clients, NEW p \in AnyProvider,
         NEW copies \in Lists,
         RegisterClientShared(c, p, copies)
  PROVE  RegistryInv'
<1>1. ClientTypes /\ copies \in [Catalogue -> 0..MaxCopies]
  BY DEF RegistryInv, Lists
<1>2. client' = [client EXCEPT ![c] = [provider |-> p, copies |-> copies, shared |-> TRUE]]
  BY DEF RegisterClientShared
<1>3. ClientTypes' /\ \A d \in Clients \ {c} : client'[d] = client[d]
  BY <1>1, <1>2, ClientTypesStep
<1>4. client'[c] = [provider |-> p, copies |-> copies, shared |-> TRUE]
  BY <1>1, <1>2 DEF ClientTypes
<1>5. /\ Remark(c) /\ regs' = [m \in Catalogue |-> regs'[m]]
      /\ \A m \in Catalogue : regs'[m] = Added(LeftBy(c)[m], p, copies[m])
  BY DEF RegisterClientShared
<1>6. refs' = OneMore(Released(c), ProfileOf(c)')
  <2>1. ProfileOf(c)' = <<p, copies>>
    BY <1>4 DEF ProfileOf
  <2> QED
    BY <2>1 DEF RegisterClientShared, OneMore
<1>7. ASSUME NEW m \in Catalogue, NEW rest \in Nat, NEW share,
             \A k \in ProviderNames : share[k] \in 0..rest, regs[m] \in Regs,
             Tallies(regs[m], rest, share, client[c].provider, client[c].copies[m])
      PROVE  /\ Tallies(regs'[m], rest, share, client'[c].provider, client'[c].copies[m])
             /\ regs'[m].quota \subseteq regs[m].quota
             /\ regs'[m].suspended \subseteq regs[m].suspended
             /\ Offers(c, m) => c \notin regs'[m].quota \cup regs'[m].suspended
  <2>1. PICK n \in Nat : n = copies[m]
    BY <1>1, RegistryBounds
  <2> QED
    BY <1>4, <1>5, <1>7, <2>1, AddedStep
<1> QED
  BY <1>3, <1>4, <1>5, <1>6, <1>7, RegistrationStep

\* An operation on the marks of one model leaves every count alone.
LEMMA MarksOnly ==
  ASSUME RegistryInv, UNCHANGED <<client, refs>>, NEW m0 \in Catalogue, NEW new \in Regs,
         new.count = regs[m0].count, new.by = regs[m0].by, new.infos = regs[m0].infos,
         regs' = [regs EXCEPT ![m0] = new], \A m \in Catalogue : MarksFit(m)'
  PROVE  RegistryInv'
<1>1. /\ ClientTypes /\ RefsFit /\ regs \in [Catalogue -> Regs]
      /\ \A m \in Catalogue : CountsFit(m)
  BY CountsInParts DEF RegistryInv
<1>2. regs' \in [Catalogue -> Regs]
  BY <1>1
<1>3. ASSUME NEW m \in Catalogue PROVE CountsFit(m)'
  <2>1. /\ regs'[m] \in Regs /\ regs'[m].count = regs[m].count
        /\ regs'[m].by = regs[m].by /\ regs'[m].infos = regs[m].infos
    BY <1>1
  <2>2. \A cs : Copies(m, cs)' = Copies(m, cs)
    BY DEF Copies
  <2>3. \A k : {d \in Clients : client'[d].provider = k} = {d \in Clients : client[d].provider = k}
    OBVIOUS
  <2> QED
    BY <1>1, <2>1, <2>2, <2>3 DEF CountsFit, Copies
<1>4. RefsFit' /\ ClientTypes'
  BY <1>1 DEF RefsFit, ClientTypes, Profiles, ProfileOf, SharedClients, Offers
<1>5. (regs \in [Catalogue -> Regs] /\ RefsFit
         /\ \A m \in Catalogue : CountsFit(m) /\ MarksFit(m))'
  BY <1>2, <1>3, <1>4
<1>6. (CountsMatchClients /\ regs \in [Catalogue -> Regs])'
  BY <1>5, CountsInParts, PTL
<1> QED
  BY <1>4, <1>6 DEF RegistryInv

LEMMA MarkStep ==
  ASSUME RegistryInv, NEW c \in Clients, NEW m \in Catalogue,
         SetModelQuotaExceeded(c, m) \/ SuspendClientModel(c, m)
  PROVE  RegistryInv'
<1>1. regs \in [Catalogue -> Regs] /\ \A n \in Catalogue : MarksFit(n)
  BY CountsInParts DEF RegistryInv
<1> DEFINE quota == [regs[m] EXCEPT !.quota = @ \cup {c}]
           suspended == [regs[m] EXCEPT !.suspended = @ \cup {c}]
<1>2. PICK new : /\ new = quota \/ new = suspended
                 /\ Mark(c, m, new)
  BY DEF SetModelQuotaExceeded, SuspendClientModel
<1>3. /\ new \in Regs /\ new.count = regs[m].count /\ new.by = regs[m].by
      /\ new.infos = regs[m].infos
      /\ new.quota \subseteq regs[m].quota \cup {c}
      /\ new.suspended \subseteq regs[m].suspended \cup {c}
  <2>1. regs[m] \in Regs
    BY <1>1
  <2>2. CASE new = quota
    BY <2>1, <2>2 DEF Regs
  <2>3. CASE new = suspended
    BY <2>1, <2>3 DEF Regs
  <2> QED
    BY <1>2, <2>2, <2>3
<1>4. /\ UNCHANGED <<client, refs>> /\ regs' = [regs EXCEPT ![m] = new]
      /\ ghosts' = IF Offers(c, m) THEN ghosts ELSE ghosts \cup {<<c, m>>}
  BY <1>2 DEF Mark
<1>5. ASSUME NEW n \in Catalogue PROVE MarksFit(n)'
  <2>1. \A d \in Clients : Offers(d, n)' <=> Offers(d, n)
    BY <1>4 DEF Offers
  <2>2. SUFFICES ASSUME NEW d \in regs'[n].quota \cup regs'[n].suspended
                 PROVE  Offers(d, n)' \/ <<d, n>> \in ghosts'
    BY DEF MarksFit
  <2>3. d \in regs[n].quota \cup regs[n].suspended \/ (d = c /\ n = m)
    <3>1. CASE n = m
      <4>1. regs'[n] = new
        BY <1>1, <1>4, <3>1
      <4> QED
        BY <1>3, <2>2, <3>1, <4>1
    <3>2. CASE n # m
      BY <1>1, <1>4, <2>2, <3>2
    <3> QED
      BY <3>1, <3>2
  <2>4. d \in Clients
    BY <1>1, <2>3 DEF Regs
  <2> QED
    BY <1>1, <1>4, <2>1, <2>3, <2>4 DEF MarksFit
<1> QED
  BY <1>3, <1>4, <1>5, MarksOnly

LEMMA ClearStep ==
  ASSUME RegistryInv, NEW c \in Clients, NEW m \in Catalogue, Clear(c, m)
  PROVE  RegistryInv'
<1>1. regs \in [Catalogue -> Regs] /\ \A n \in Catalogue : MarksFit(n)
  BY CountsInParts DEF RegistryInv
<1> DEFINE quota == [regs[m] EXCEPT !.quota = @ \ {c}]
           suspended == [regs[m] EXCEPT !.suspended = @ \ {c}]
<1>2. PICK new : /\ new = quota \/ new = suspended
                 /\ regs' = [regs EXCEPT ![m] = new]
  BY DEF Clear
<1>3. /\ new \in Regs /\ new.count = regs[m].count /\ new.by = regs[m].by
      /\ new.infos = regs[m].infos
      /\ new.quota \subseteq regs[m].quota /\ new.suspended \subseteq regs[m].suspended
  <2>1. regs[m] \in Regs
    BY <1>1
  <2>2. CASE new = quota
    BY <2>1, <2>2 DEF Regs
  <2>3. CASE new = suspended
    BY <2>1, <2>3 DEF Regs
  <2> QED
    BY <1>2, <2>2, <2>3
<1>4. UNCHANGED <<client, refs>> /\ Remark(c)
  BY DEF Clear
<1>5. ASSUME NEW n \in Catalogue PROVE MarksFit(n)'
  <2>1. /\ regs'[n].quota \subseteq regs[n].quota
        /\ regs'[n].suspended \subseteq regs[n].suspended /\ regs[n] \in Regs
    BY <1>1, <1>2, <1>3
  <2>2. Offers(c, n)' <=> Offers(c, n)
    BY <1>4 DEF Offers
  <2> QED
    BY <1>1, <1>4, <2>1, <2>2, MarksStep
<1> QED
  BY <1>2, <1>3, <1>4, <1>5, MarksOnly

LEMMA RegistryStarts == RegistryInit => RegistryInv
<1> SUFFICES ASSUME RegistryInit PROVE RegistryInv
  OBVIOUS
<1>1. /\ client = [c \in Clients |-> NoClient] /\ regs = [m \in Catalogue |-> NoReg]
      /\ refs = [profile \in {} |-> 0]
  BY DEF RegistryInit
<1>2. \A c \in Clients : ~client[c].shared /\ \A m \in Catalogue : client[c].copies[m] = 0
  BY <1>1 DEF NoClient, AnyProvider
<1>3. ClientTypes
  <2>1. 0 \in 0..MaxCopies
    BY RegistryBounds
  <2>2. NoClient \in [provider : AnyProvider,
                      copies : [Catalogue -> 0..MaxCopies], shared : BOOLEAN]
    BY <2>1 DEF NoClient, AnyProvider
  <2> QED
    BY <1>1, <1>2, <2>2 DEF ClientTypes, Offers
<1>4. \A m \in Catalogue : regs[m] \in Regs /\ regs[m] = NoReg
  BY <1>1, NoRegIsKnown
<1>5. \A cs \in SUBSET Clients, m \in Catalogue : Copies(m, cs) = 0
  <2>1. ASSUME NEW cs \in SUBSET Clients, NEW m \in Catalogue
        PROVE  {e \in cs \X (1..MaxCopies) : e[2] <= client[e[1]].copies[m]} = {}
    BY <1>2, RegistryBounds
  <2> QED
    BY <2>1, FS_EmptySet DEF Copies
<1>6. RefsFit
  <2>1. SharedClients = {}
    BY <1>2 DEF SharedClients
  <2> QED
    BY <1>1, <2>1 DEF RefsFit, UsesOf
<1>7. \A m \in Catalogue : CountsFit(m) /\ MarksFit(m)
  BY <1>4, <1>5, NoRegIsKnown DEF CountsFit, MarksFit
<1>8. regs \in [Catalogue -> Regs]
  BY <1>1, <1>4
<1> QED
  BY <1>3, <1>6, <1>7, <1>8, CountsInParts DEF RegistryInv

LEMMA RegistryStep == RegistryInv /\ [RegistryNext]_registryVars => RegistryInv'
<1> SUFFICES ASSUME RegistryInv, [RegistryNext]_registryVars PROVE RegistryInv'
  OBVIOUS
<1>1. ASSUME NEW c \in Clients, UnregisterClient(c) PROVE RegistryInv'
  BY <1>1, UnregisterStep
<1>2. ASSUME NEW c \in Clients, NEW p \in AnyProvider,
             NEW copies \in Lists,
             RegisterClient(c, p, copies) \/ RegisterClientShared(c, p, copies)
      PROVE  RegistryInv'
  BY <1>2, RegisterPlainStep, RegisterSharedStep
<1>3. ASSUME NEW c \in Clients, NEW m \in Catalogue,
             SetModelQuotaExceeded(c, m) \/ SuspendClientModel(c, m) \/ Clear(c, m)
      PROVE  RegistryInv'
  BY <1>3, MarkStep, ClearStep
<1>4. CASE UNCHANGED registryVars
  <2>1. client' = client /\ regs' = regs /\ refs' = refs /\ ghosts' = ghosts
    BY <1>4 DEF registryVars
  <2>2. ClientTypes' /\ regs' \in [Catalogue -> Regs]
    BY <2>1 DEF RegistryInv, ClientTypes, Offers
  <2>3. RefsFit /\ \A m \in Catalogue : CountsFit(m) /\ MarksFit(m)
    BY CountsInParts DEF RegistryInv
  <2>4. RefsFit'
    BY <2>1, <2>3 DEF RefsFit, Profiles, ProfileOf, SharedClients
  <2>5. ASSUME NEW m \in Catalogue PROVE CountsFit(m)' /\ MarksFit(m)'
    BY <2>1, <2>3 DEF CountsFit, MarksFit, Copies, Offers
  <2>6. (regs \in [Catalogue -> Regs] /\ RefsFit
           /\ \A m \in Catalogue : CountsFit(m) /\ MarksFit(m))'
    BY <2>2, <2>4, <2>5
  <2>7. (CountsMatchClients /\ regs \in [Catalogue -> Regs])'
    BY <2>6, CountsInParts, PTL
  <2> QED
    BY <2>2, <2>7 DEF RegistryInv
<1> QED
  BY <1>1, <1>2, <1>3, <1>4 DEF RegistryNext, AnyProvider

\* What the clients offer is what is counted, in total and for each provider; a mark
\* belongs to a client that offers the model, unless it came too late; and a shared
\* profile has as many references as users.  The counts are moved by hand, by
\* another path for every way a client can register.  (RegisterClient,
\* RegisterClientShared, unregisterClientInternal, addModelRegistration,
\* removeModelRegistration)
THEOREM CountsAreKept == RegistrySpec => []CountsMatchClients
<1>1. RegistryInv => CountsMatchClients
  BY DEF RegistryInv
<1> QED
  BY <1>1, RegistryStarts, RegistryStep, PTL DEF RegistrySpec

\* The registration of a model goes with its last client, marks and all, and comes
\* back as a new one.
Emptied(reg) == reg.count = 0 => reg = NoReg
AllEmptied == \A m \in Catalogue : Emptied(regs[m])

LEMMA RemovedKnown ==
  ASSUME NEW reg \in Regs, NEW p, NEW n \in Nat \ {0}, NEW c \in Clients
  PROVE  Removed(reg, c, p, n) \in Regs
<1> DEFINE base == Dropped(reg, p, n)
           gone == {c}
<1>1. reg.count \in Nat
  BY DEF Regs
<1>2. CASE reg.count <= n
  BY <1>1, <1>2, NoRegIsKnown DEF Removed
<1>3. CASE reg.count > n
  <2>1. base \in Regs /\ base.count = reg.count
    BY DroppedFields
  <2>2. Removed(reg, c, p, n) = [base EXCEPT !.count = @ - n, !.quota = @ \ {c},
                                             !.suspended = @ \ {c}]
    <3>1. ~(reg.count <= n) /\ n # 0
      BY <1>1, <1>3
    <3> QED
      BY <3>1 DEF Removed
  <2> HIDE DEF base
  <2>3. base.count - n \in Nat
    BY <1>1, <1>3, <2>1
  <2> QED
    BY <2>1, <2>2, <2>3 DEF Regs
<1> QED
  BY <1>1, <1>2, <1>3

LEMMA RemovedCounts ==
  ASSUME NEW reg \in Regs, NEW p, NEW n \in Nat \ {0}, NEW c \in Clients
  PROVE  /\ reg.count <= n => Removed(reg, c, p, n) = NoReg
         /\ reg.count > n => Removed(reg, c, p, n).count = reg.count - n
<1> DEFINE base == Dropped(reg, p, n)
<1>1. reg.count \in Nat
  BY DEF Regs
<1>2. CASE reg.count <= n
  BY <1>1, <1>2 DEF Removed
<1>3. CASE reg.count > n
  <2>1. base \in Regs /\ base.count = reg.count
    BY DroppedFields
  <2>2. Removed(reg, c, p, n).count = base.count - n
    <3>1. Removed(reg, c, p, n) = [base EXCEPT !.count = @ - n, !.quota = @ \ {c},
                                               !.suspended = @ \ {c}]
      <4>1. ~(reg.count <= n) /\ n # 0
        BY <1>1, <1>3
      <4> QED
        BY <4>1 DEF Removed
    <3> HIDE DEF base
    <3> QED
      BY <2>1, <3>1 DEF Regs
  <2> HIDE DEF base
  <2> QED
    BY <1>1, <1>3, <2>1, <2>2 DEF Regs
<1> QED
  BY <1>1, <1>2, <1>3

LEMMA AddedKnown ==
  ASSUME NEW reg \in Regs, NEW p, NEW n \in Nat \ {0}
  PROVE  Added(reg, p, n) \in Regs
<1> DEFINE by == [q \in ProviderNames |-> IF q = p THEN reg.by[q] + n ELSE reg.by[q]]
           infos == reg.infos \cup ({p} \cap ProviderNames)
<1>1. /\ reg.count + n \in Nat /\ reg.by \in [ProviderNames -> Nat]
      /\ reg.infos \in SUBSET ProviderNames
  BY DEF Regs
<1>2. by \in [ProviderNames -> Nat] /\ infos \in SUBSET ProviderNames
  BY <1>1
<1>3. Added(reg, p, n) = [reg EXCEPT !.count = reg.count + n, !.by = by, !.infos = infos]
  BY <1>1 DEF Added, Regs
<1> HIDE DEF by, infos
<1> QED
  BY <1>1, <1>2, <1>3 DEF Regs

LEMMA LeftIsEmptied ==
  ASSUME NEW c \in Clients, NEW m \in Catalogue, ClientTypes, regs[m] \in Regs, Emptied(regs[m])
  PROVE  LeftBy(c)[m] \in Regs /\ Emptied(LeftBy(c)[m])
<1> DEFINE q == client[c].provider
<1>1. PICK n \in Nat : n = client[c].copies[m]
  BY RegistryBounds DEF ClientTypes
<1>2. LeftBy(c)[m] = Removed(regs[m], c, q, n)
  BY <1>1 DEF LeftBy
<1>3. CASE n = 0
  BY <1>2, <1>3 DEF Removed
<1>4. CASE n # 0
  <2>2. PICK reg \in Regs : reg = regs[m]
    OBVIOUS
  <2> HIDE DEF q
  <2>3. /\ Removed(reg, c, q, n) \in Regs
        /\ reg.count <= n => Removed(reg, c, q, n) = NoReg
        /\ reg.count > n => Removed(reg, c, q, n).count = reg.count - n
    <3>1. Removed(reg, c, q, n) \in Regs
      BY <1>4, RemovedKnown
    <3> QED
      BY <1>4, <3>1, RemovedCounts
  <2>4. reg.count \in Nat
    BY DEF Regs
  <2> QED
    BY <1>2, <2>2, <2>3, <2>4 DEF Emptied
<1> QED
  BY <1>3, <1>4

LEMMA AddedIsEmptied ==
  ASSUME NEW reg \in Regs, Emptied(reg), NEW p, NEW n \in Nat
  PROVE  Emptied(Added(reg, p, n))
<1>1. reg.count \in Nat
  BY DEF Regs
<1>2. n # 0 => Added(reg, p, n).count = reg.count + n
  BY DEF Added, Regs
<1>3. n = 0 => Added(reg, p, n) = reg
  BY DEF Added
<1> QED
  BY <1>1, <1>2, <1>3 DEF Emptied

\* Who keeps something of a model is counted, by whatever path.
LEMMA ReconciledIsEmptied ==
  ASSUME NEW reg \in Regs, Emptied(reg), NEW c \in Clients, NEW p \in AnyProvider,
         NEW old \in Nat, NEW new \in Nat, old <= reg.count
  PROVE  Emptied(Reconciled(reg, c, p, old, new))
<1> DEFINE q == client[c].provider
           overlap == IF p = q THEN 0 ELSE Least(old, new)
           moved == IF overlap > 0 THEN Dropped(reg, q, overlap) ELSE reg
           less == IF old > new THEN Removed(moved, c, q, old - new) ELSE moved
           more == IF new > old THEN Added(less, p, new - old) ELSE less
           after == Reconciled(reg, c, p, old, new)
<1>1. after = IF new = 0 THEN more ELSE Relisted(more, c, p, overlap)
  BY DEF Reconciled, Relisted
<1>2. overlap \in Nat /\ (old = 0 \/ new = 0 => overlap = 0)
  BY DEF Least
<1>4. reg.count \in Nat
  BY DEF Regs
<1> HIDE DEF after, overlap, q
<1>5. moved \in Regs /\ moved.count = reg.count /\ (overlap = 0 => moved = reg)
  <2>1. CASE overlap = 0
    BY <2>1
  <2>2. CASE overlap # 0
    <3>1. moved = Dropped(reg, q, overlap)
      BY <1>2, <2>2
    <3>2. Dropped(reg, q, overlap) \in Regs /\ Dropped(reg, q, overlap).count = reg.count
      BY <1>2, <3>1, DroppedFields
    <3> QED
      BY <2>2, <3>1, <3>2
  <2> QED
    BY <2>1, <2>2
<1> HIDE DEF moved
<1>6. old > new =>
        /\ less \in Regs
        /\ moved.count <= old - new => less = NoReg
        /\ moved.count > old - new => less.count = moved.count - (old - new)
  <2> SUFFICES ASSUME old > new
               PROVE  /\ less \in Regs
                      /\ moved.count <= old - new => less = NoReg
                      /\ moved.count > old - new => less.count = moved.count - (old - new)
    OBVIOUS
  <2>1. PICK j \in Nat \ {0} : j = old - new
    OBVIOUS
  <2>2. less = Removed(moved, c, q, j)
    BY <2>1
  <2>3. /\ Removed(moved, c, q, j) \in Regs
        /\ moved.count <= j => Removed(moved, c, q, j) = NoReg
        /\ moved.count > j => Removed(moved, c, q, j).count = moved.count - j
    <3>1. Removed(moved, c, q, j) \in Regs
      BY <1>5, <2>2, RemovedKnown
    <3> QED
      BY <1>5, <2>2, <3>1, RemovedCounts
  <2> QED
    BY <2>1, <2>2, <2>3
<1>7. ~(old > new) => less = moved
  OBVIOUS
<1> HIDE DEF less
<1>8. new > old => more \in Regs /\ more.count = less.count + (new - old)
  <2> SUFFICES ASSUME new > old PROVE more \in Regs /\ more.count = less.count + (new - old)
    OBVIOUS
  <2>1. PICK j \in Nat \ {0} : j = new - old
    OBVIOUS
  <2>2. more = Added(less, p, j) /\ less \in Regs
    BY <1>5, <1>7, <2>1
  <2>3. Added(less, p, j) \in Regs /\ Added(less, p, j).count = less.count + j
    <3>1. Added(less, p, j) \in Regs
      BY <2>2, AddedKnown
    <3>2. Added(less, p, j).count = less.count + j
      BY <2>2 DEF Added, Regs
    <3> QED
      BY <3>1, <3>2
  <2> QED
    BY <2>1, <2>2, <2>3
<1>9. ~(new > old) => more = less
  OBVIOUS
<1> HIDE DEF more
<1>10. CASE new = 0
  <2>1. after = less /\ moved = reg
    BY <1>1, <1>2, <1>5, <1>9, <1>10
  <2>2. CASE old = 0
    BY <1>7, <1>10, <2>1, <2>2 DEF after
  <2>3. CASE old > 0
    BY <1>4, <1>6, <1>10, <2>1, <2>3 DEF Emptied, after
  <2> QED
    BY <2>2, <2>3
<1>11. CASE new > 0
  <2>1. more \in Regs /\ more.count \in Nat /\ more.count > 0
    <3>1. CASE old > new
      BY <1>4, <1>5, <1>6, <1>9, <1>11, <3>1
    <3>2. CASE new > old
      BY <1>4, <1>5, <1>7, <1>8, <1>11, <3>2
    <3>3. CASE old = new
      BY <1>4, <1>5, <1>7, <1>9, <1>11, <3>3
    <3> QED
      BY <3>1, <3>2, <3>3
  <2>2. Relisted(more, c, p, overlap).count = more.count
    BY <2>1 DEF Relisted, Regs
  <2> QED
    BY <1>1, <1>11, <2>1, <2>2 DEF Emptied, after
<1> QED
  BY <1>10, <1>11

LEMMA EmptiedStep == RegistryInv /\ AllEmptied /\ [RegistryNext]_registryVars => AllEmptied'
<1> SUFFICES ASSUME RegistryInv, AllEmptied, [RegistryNext]_registryVars,
                    NEW m \in Catalogue
             PROVE  Emptied(regs'[m])
  BY DEF AllEmptied, Emptied
<1>1. /\ ClientTypes /\ regs[m] \in Regs /\ CountsFit(m) /\ Emptied(regs[m])
      /\ regs \in [Catalogue -> Regs]
  BY CountsInParts DEF RegistryInv, AllEmptied
<1>2. CASE UNCHANGED registryVars
  BY <1>1, <1>2 DEF registryVars
<1>3. ASSUME NEW c \in Clients, UnregisterClient(c) PROVE Emptied(regs'[m])
  BY <1>1, <1>3, LeftIsEmptied DEF UnregisterClient
<1>4. ASSUME NEW c \in Clients, NEW p \in AnyProvider, NEW n \in Nat,
             regs'[m] = Added(LeftBy(c)[m], p, n)
      PROVE  Emptied(regs'[m])
  <2>1. PICK reg \in Regs : reg = LeftBy(c)[m] /\ Emptied(reg)
    BY <1>1, LeftIsEmptied
  <2> QED
    BY <1>4, <2>1, AddedIsEmptied
<1>5. ASSUME NEW c \in Clients, NEW p \in AnyProvider,
             NEW copies \in Lists,
             RegisterClient(c, p, copies)
      PROVE  Emptied(regs'[m])
  <2>1. copies \in [Catalogue -> 0..MaxCopies]
    BY DEF Lists
  <2>2. PICK n \in Nat : n = copies[m]
    BY <2>1, RegistryBounds
  <2>3. PICK old \in Nat : old = client[c].copies[m]
    BY <1>1, RegistryBounds DEF ClientTypes
  <2>4. regs'[m] = Added(LeftBy(c)[m], p, n) \/ regs'[m] = Reconciled(regs[m], c, p, old, n)
    BY <1>5, <2>2, <2>3 DEF RegisterClient
  <2>6. old <= regs[m].count
    <3>1. ClientTypes' /\ \A d \in Clients \ {c} : client'[d] = client[d]
      BY <1>1, <1>5, <2>1, ClientTypesStep DEF RegisterClient
    <3>2. PICK rest \in Nat : \E share :
             Tallies(regs[m], rest, share, client[c].provider, client[c].copies[m])
      BY <1>1, <3>1, OneClientMoves
    <3> QED
      BY <2>3, <3>2 DEF Tallies
  <2>7. PICK reg \in Regs : reg = regs[m] /\ Emptied(reg) /\ old <= reg.count
    BY <1>1, <2>6
  <2>8. Emptied(Reconciled(reg, c, p, old, n))
    BY <2>7, ReconciledIsEmptied
  <2> QED
    BY <1>4, <2>4, <2>7, <2>8
<1>6. ASSUME NEW c \in Clients, NEW p \in AnyProvider,
             NEW copies \in Lists,
             RegisterClientShared(c, p, copies)
      PROVE  Emptied(regs'[m])
  <2>1. copies \in [Catalogue -> 0..MaxCopies]
    BY DEF Lists
  <2>2. PICK n \in Nat : n = copies[m]
    BY <2>1, RegistryBounds
  <2>3. regs'[m] = Added(LeftBy(c)[m], p, n)
    BY <1>6, <2>2 DEF RegisterClientShared
  <2> QED
    BY <1>4, <2>3
<1>7. ASSUME NEW c \in Clients, NEW n \in Catalogue,
             SetModelQuotaExceeded(c, n) \/ SuspendClientModel(c, n) \/ Clear(c, n)
      PROVE  Emptied(regs'[m])
  <2>1. PICK new : /\ new.count = regs[n].count /\ regs' = [regs EXCEPT ![n] = new]
                   /\ regs[n] # NoReg
    <3>1. regs[n] \in Regs
      BY <1>1
    <3>2. ASSUME SetModelQuotaExceeded(c, n) \/ SuspendClientModel(c, n)
          PROVE  /\ regs[n] # NoReg
                 /\ \E new : new.count = regs[n].count /\ regs' = [regs EXCEPT ![n] = new]
      BY <3>1, <3>2 DEF SetModelQuotaExceeded, SuspendClientModel, Mark, Regs
    <3>3. ASSUME Clear(c, n)
          PROVE  /\ regs[n] # NoReg
                 /\ \E new : new.count = regs[n].count /\ regs' = [regs EXCEPT ![n] = new]
      <4>1. PICK new : /\ \/ new = [regs[n] EXCEPT !.quota = @ \ {c}]
                          \/ new = [regs[n] EXCEPT !.suspended = @ \ {c}]
                       /\ regs' = [regs EXCEPT ![n] = new]
        BY <3>3 DEF Clear
      <4>2. new.count = regs[n].count
        BY <3>1, <4>1 DEF Regs
      <4> QED
        BY <3>3, <4>1, <4>2 DEF Clear
    <3> QED
      BY <1>7, <3>2, <3>3
  <2>2. Emptied(regs[n])
    BY DEF AllEmptied
  <2>3. CASE m = n
    <3>1. regs'[m] = new
      BY <1>1, <2>1, <2>3
    <3> QED
      BY <2>1, <2>2, <3>1 DEF Emptied
  <2>4. CASE m # n
    <3>1. regs'[m] = regs[m]
      BY <1>1, <2>1, <2>4
    <3> QED
      BY <1>1, <3>1
  <2> QED
    BY <2>3, <2>4
<1> QED
  BY <1>2, <1>3, <1>5, <1>6, <1>7 DEF RegistryNext, AnyProvider

\* A registration without clients leaves nothing behind, so that a model that comes
\* back is neither out of quota nor suspended; and a client lists what it can.
\* (removeModelRegistration, unregisterClientInternal, RegisterClient)
THEOREM RegistrationsGoWhole == RegistrySpec => []RegistryTypeOK
<1>1. RegistryInit => AllEmptied
  <2> SUFFICES ASSUME RegistryInit PROVE AllEmptied
    OBVIOUS
  <2>1. \A m \in Catalogue : regs[m] = NoReg
    BY DEF RegistryInit
  <2> QED
    BY <2>1 DEF AllEmptied, Emptied
<1>2. RegistryInv /\ AllEmptied => RegistryTypeOK
  BY DEF RegistryInv, ClientTypes, AnyProvider, AllEmptied, Emptied, RegistryTypeOK, NoReg
<1> QED
  BY <1>1, <1>2, RegistryStarts, RegistryStep, EmptiedStep, PTL DEF RegistrySpec
=============================================================================
