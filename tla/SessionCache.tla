----------------------------- MODULE SessionCache -----------------------------
(***************************************************************************)
(* The session affinity cache (session_cache.go): an identifier maps to an  *)
(* auth, and every alias of a conversation carries the whole entry.  Each   *)
(* operation holds the mutex; what is hard is the sequence of operations.   *)
(***************************************************************************)
EXTENDS SessionAliases

CONSTANT Accounts

VARIABLES
  entries, time,
  gone      \* history: invalidated, and not named by SetAliases since
cacheVars == <<entries, time, gone>>

CacheInit ==
  /\ entries = [s \in Ids |-> NoGroup]
  /\ time = 0 /\ gone = {}

Bound(s) == entries[s] # NoGroup
Live(s) == Bound(s) /\ time < entries[s].expires

\* removeAliasGroupLocked: only identical entries go.
Without(groups) ==
  [s \in Ids |-> IF entries[s] \in groups /\ s \in entries[s].aliases
                 THEN NoGroup ELSE entries[s]]

\* replaceAliasGroupsLocked.
Replace(groups, auth, aliases) ==
  entries' = [s \in Ids |->
                IF s \in aliases
                THEN [auth |-> auth, expires |-> time + TTL, aliases |-> aliases]
                ELSE Without(groups)[s]]

\* Faulty variant: the aliases of the previous groups are not carried over.
SetAliasesAlone(auth, ids) ==
  /\ \E first \in ids : \E aliases \in Compacted(first, ids) : Replace({}, auth, aliases)
  /\ gone' = gone \ ids /\ UNCHANGED time

SetAliases(auth, ids) ==
  LET previous == {entries[s] : s \in {i \in ids : Live(i)}}
      found == {entries[s] : s \in {i \in ids : Bound(i)}}
      merged == ids \cup UNION {g.aliases : g \in previous}
  IN
  /\ \E first \in ids : \E aliases \in Compacted(first, merged) :
       Replace(found, auth, aliases)
  /\ gone' = gone \ ids /\ UNCHANGED time

\* Get removes the group of an expired entry.
Get(s) ==
  /\ Bound(s) /\ ~Live(s)
  /\ entries' = Without({entries[s]})
  /\ UNCHANGED <<time, gone>>

\* GetAndRefresh, and Touch of a matching auth.
GetAndRefresh(s) ==
  /\ Live(s)
  /\ \E aliases \in Compacted(s, {s} \cup entries[s].aliases) :
       Replace({entries[s]}, entries[s].auth, aliases)
  /\ UNCHANGED <<time, gone>>

\* Invalidate, and CompareAndDelete of a matching auth.
Invalidate(s) ==
  /\ Bound(s)
  /\ entries' = [a \in Ids |->
       IF a = s THEN NoGroup
       ELSE IF a \in entries[s].aliases /\ Bound(a) /\ entries[a].auth = entries[s].auth
       THEN [entries[a] EXCEPT !.aliases = @ \ {s}]
       ELSE entries[a]]
  /\ gone' = gone \cup {s} /\ UNCHANGED time

InvalidateAuth(auth) ==
  /\ entries' = [s \in Ids |-> IF Bound(s) /\ entries[s].auth = auth
                               THEN NoGroup ELSE entries[s]]
  /\ gone' = gone \cup {s \in Ids : Bound(s) /\ entries[s].auth = auth}
  /\ UNCHANGED time

Cleanup ==
  /\ entries' = [s \in Ids |-> IF Live(s) THEN entries[s] ELSE NoGroup]
  /\ UNCHANGED <<time, gone>>

CacheTick ==
  /\ time < MaxTime
  /\ time' = time + 1
  /\ UNCHANGED <<entries, gone>>

CacheNext ==
  \/ \E auth \in Accounts, ids \in SUBSET Ids \ {{}} : SetAliases(auth, ids)
  \/ \E s \in Ids : Get(s) \/ GetAndRefresh(s) \/ Invalidate(s)
  \/ \E auth \in Accounts : InvalidateAuth(auth)
  \/ Cleanup \/ CacheTick

CacheSpec == CacheInit /\ [][CacheNext]_cacheVars

-----------------------------------------------------------------------------
\* Types.
CacheEntry == [auth : Accounts, expires : Nat, aliases : SUBSET Ids]
CacheTypeOK ==
  /\ entries \in [Ids -> CacheEntry \cup {NoGroup}] /\ time \in Nat /\ gone \subseteq Ids

\* Every alias of a conversation carries the same entry, and the entry names
\* exactly those aliases: no half of a conversation moves to another account,
\* expires or is removed on its own, and no group outgrows its bounds.
\* (SetAliases, replaceAliasGroupsLocked, removeAliasGroupLocked, Invalidate)
AliasesAgree ==
  \A s \in Ids : Bound(s) =>
    /\ s \in entries[s].aliases
    /\ Bounded(entries[s].aliases)
    /\ \A a \in entries[s].aliases : entries[a] = entries[s]

\* An identifier that was invalidated has no binding until a call names it:
\* another alias of its group does not bring it back.  (Invalidate: "without
\* allowing another alias in the same group to recreate it on its next refresh")
NeverRecreated == \A s \in gone : ~Bound(s)
=============================================================================
