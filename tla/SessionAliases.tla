---------------------------- MODULE SessionAliases ----------------------------
(***************************************************************************)
(* What the two session caches of sdk/cliproxy/auth share: session_cache.go *)
(* and home_session_alias.go.  Identifiers of one conversation form a group *)
(* of bounded size with at most one prompt cache key.                       *)
(***************************************************************************)
EXTENDS Integers, FiniteSets

CONSTANTS
  Ids,        \* session identifiers
  PromptKeys, \* those that are prompt cache keys
  MaxStable,  \* maxStableSessionAliases
  TTL, MaxTime

ASSUME AliasBounds ==
  /\ PromptKeys \subseteq Ids /\ IsFiniteSet(Ids)
  /\ MaxStable \in Nat \ {0} /\ TTL \in Nat \ {0} /\ MaxTime \in Nat

\* No group; the nil of the maps.
NoGroup == [aliases |-> {}]

\* A group that is within the bounds of compactSessionAliases.
Bounded(aliases) == /\ Cardinality(aliases \cap PromptKeys) <= 1
                    /\ Cardinality(aliases \ PromptKeys) <= MaxStable

\* compactSessionAliasesWith: which aliases are dropped is a matter of their
\* order, but the first one stays.
Compacted(first, aliases) ==
  {kept \in SUBSET aliases :
     /\ first \in kept /\ Bounded(kept)
     /\ \A dropped \in aliases \ kept : ~Bounded(kept \cup {dropped})}
=============================================================================
