--------------------------- MODULE HomeSessionAlias ---------------------------
(***************************************************************************)
(* The names of sessions in Home mode (home_session_alias.go): the primary  *)
(* and the fallback identifier of a request are reconciled to one canonical *)
(* identifier, the only one Home sees.  Groups are kept by canonical name,  *)
(* entries by alias, and the oldest groups go when there are too many       *)
(* entries.  canonical is the only operation, and holds the mutex.          *)
(***************************************************************************)
EXTENDS SessionAliases

CONSTANT SoftLimit   \* homeSessionAliasSoftLimit

ASSUME LimitBounds == SoftLimit \in Nat

VARIABLES names, hour   \* entries, groups and evictionOrder; the time
homeVars == <<names, hour>>

\* In evictionOrder, the set of pairs of a canonical name and one that is not before it.
HomeInit ==
  /\ names = [entries |-> [s \in Ids |-> NoGroup], groups |-> [s \in Ids |-> NoGroup],
              order |-> {}]
  /\ hour = 0

Expired(group) == group # NoGroup /\ hour >= group.expires
Evictable(n) == {s \in Ids : <<s, s>> \in n.order}

\* removeGroupLocked, of several groups: only those that are in the map go.
GroupsOut(n, out) ==
  LET live == {g \in out \ {NoGroup} : n.groups[g.canonical] = g}
      left == Ids \ {g.canonical : g \in live}
  IN  [entries |-> [s \in Ids |-> IF n.entries[s] \in live THEN NoGroup ELSE n.entries[s]],
       groups  |-> [s \in Ids |-> IF s \in left THEN n.groups[s] ELSE NoGroup],
       order   |-> n.order \cap (left \X left)]

\* What a look at an entry does to a group that has expired: entryLocked.
Looked(n, s) ==
  IF ~Expired(n.entries[s]) THEN n
  ELSE [GroupsOut(n, {n.entries[s]}) EXCEPT !.entries[s] = NoGroup]

\* cleanupLocked
Cleaned(n) == GroupsOut(n, {n.groups[s] : s \in {i \in Ids : Expired(n.groups[i])}})

\* setGroupLocked
Inserted(n, group) ==
  LET free == GroupsOut(n, {n.groups[group.canonical]}) IN
  [entries |-> [s \in Ids |-> IF s \in group.aliases THEN group ELSE free.entries[s]],
   groups  |-> [free.groups EXCEPT ![group.canonical] = group],
   order   |-> free.order \cup ((Evictable(free) \cup {group.canonical}) \X {group.canonical})]

\* enforceLimitLocked: the oldest groups go, as few as it takes.
Within(n) == Cardinality({s \in Ids : n.entries[s] # NoGroup}) <= SoftLimit
Evicted(n) ==
  LET oldest == {old \in SUBSET Evictable(n) :
                   \A s \in old, t \in Evictable(n) \ old : <<s, t>> \in n.order}
      Lacking(old) == GroupsOut(n, {n.groups[s] : s \in old})
  IN  {Lacking(old) : old \in
         {o \in oldest : /\ Within(Lacking(o)) \/ o = Evictable(n)
                         /\ \A fewer \in oldest \cap SUBSET o :
                              fewer # o => ~Within(Lacking(fewer))}}

\* The aliases of the new group, of those found and its name, which was added last.
Kept(first, aliases, name) ==
  {IF Bounded(chosen \cup {name}) THEN chosen \cup {name} ELSE chosen :
     chosen \in Compacted(first, aliases)}

\* Faulty variant: the group of the fallback stays.
CanonicalKeeping(primary, fallback) ==
  LET looked == Looked(Looked(names, primary), fallback)
      mine == looked.entries[primary]
      name == IF mine # NoGroup THEN mine.canonical ELSE primary
      group == looked.groups[name]
  IN
  /\ \E aliases \in Kept(primary, {primary, fallback} \cup group.aliases, name) :
       names' = Inserted(GroupsOut(looked, {group}),
                  [canonical |-> name, expires |-> hour + TTL, aliases |-> aliases])
  /\ UNCHANGED hour

\* canonical; a request without a fallback names its primary twice.  Every so
\* many calls everything that has expired is removed.
Canonical(primary, fallback) ==
  \E swept \in {names, Cleaned(names)} :
  LET looked == Looked(Looked(swept, primary), fallback)
      found == {looked.entries[primary], looked.entries[fallback]} \ {NoGroup}
      name == IF looked.entries[primary] # NoGroup THEN looked.entries[primary].canonical
              ELSE IF found # {} THEN looked.entries[fallback].canonical ELSE primary
      seen == IF Expired(looked.groups[name]) THEN GroupsOut(looked, {looked.groups[name]})
              ELSE looked
      previous == (found \cup {seen.groups[name]}) \ {NoGroup}
  IN
  /\ IF found = {} /\ previous # {} THEN names' = seen
     ELSE \E aliases \in Kept(primary, {primary, fallback}
                                       \cup UNION {g.aliases : g \in previous}, name) :
            names' \in Evicted(Inserted(GroupsOut(seen, previous),
                         [canonical |-> name, expires |-> hour + TTL, aliases |-> aliases]))
  /\ UNCHANGED hour

HomeTick == hour < MaxTime /\ hour' = hour + 1 /\ UNCHANGED names

HomeNext == HomeTick \/ \E primary, fallback \in Ids : Canonical(primary, fallback)

HomeSpec == HomeInit /\ [][HomeNext]_homeVars

-----------------------------------------------------------------------------
\* Types; there are never more entries than the limit.
HomeTypeOK ==
  /\ DOMAIN names.entries = Ids /\ DOMAIN names.groups = Ids /\ hour \in 0..MaxTime
  /\ Cardinality({s \in Ids : names.entries[s] # NoGroup}) <= SoftLimit

\* An alias belongs to one group, the group is found under its canonical name,
\* and all its aliases lead to it, so that one conversation has one name at Home;
\* every group can be evicted.  (setGroupLocked, removeGroupLocked, canonical)
NamesAgree ==
  /\ \A s \in Ids : LET e == names.entries[s] IN e # NoGroup =>
       /\ s \in e.aliases /\ Bounded(e.aliases) /\ names.groups[e.canonical] = e
  /\ \A s \in Ids : LET g == names.groups[s] IN g # NoGroup =>
       /\ g.canonical = s /\ \A a \in g.aliases : names.entries[a] = g
  /\ Evictable(names) = {s \in Ids : names.groups[s] # NoGroup}
  /\ \A s, t \in Evictable(names) : <<s, t>> \in names.order <=> (s = t \/ <<t, s>> \notin names.order)
=============================================================================
