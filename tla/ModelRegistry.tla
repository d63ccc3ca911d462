---------------------------- MODULE ModelRegistry ----------------------------
(***************************************************************************)
(* The registry of models (internal/registry/model_registry.go): how many   *)
(* clients offer a model, how many of each provider, and who is out of      *)
(* quota or suspended.  Counts are moved by hand when a client registers    *)
(* again with other models or another provider.  Every operation holds the  *)
(* mutex.  A quota mark stands for the suspension "quota" that comes with   *)
(* it; the other suspensions are a set of their own.                       *)
(***************************************************************************)
EXTENDS Integers, FiniteSets

CONSTANTS Clients, Catalogue, ProviderNames,
          MaxCopies,  \* how many models a client lists, repetitions counted
          MaxMarks    \* quota marks and suspensions at a time

NoProvider == ""   \* a client may name none

ASSUME RegistryBounds ==
  /\ IsFiniteSet(Clients) /\ MaxCopies \in Nat \ {0} /\ MaxMarks \in Nat
  /\ NoProvider \notin ProviderNames

VARIABLES
  client,   \* clientProviders, clientModels and whether the profile is shared
  regs,     \* models
  refs,     \* of modelProfiles
  ghosts    \* history: marks of clients that do not offer the model
registryVars == <<client, regs, refs, ghosts>>

NoReg == [count |-> 0, by |-> [p \in ProviderNames |-> 0], infos |-> {},
          quota |-> {}, suspended |-> {}]
NoClient == [provider |-> NoProvider, copies |-> [m \in Catalogue |-> 0],
             shared |-> FALSE]
Lists == {c \in [Catalogue -> 0..MaxCopies] :
            Cardinality({e \in Catalogue \X (1..MaxCopies) : e[2] <= c[e[1]]})
              \in 1..MaxCopies}

RegistryInit ==
  /\ client = [c \in Clients |-> NoClient]
  /\ regs = [m \in Catalogue |-> NoReg]
  /\ refs = [profile \in {} |-> 0]
  /\ ghosts = {}

Offers(c, m) == client[c].copies[m] > 0
Registered(c) == client[c] # NoClient
Least(i, j) == IF i < j THEN i ELSE j

\* addModelRegistration, n times.
Added(reg, p, n) ==
  IF n = 0 THEN reg
  ELSE [reg EXCEPT !.count = @ + n,
                   !.by = [q \in ProviderNames |-> IF q = p THEN @[q] + n ELSE @[q]],
                   !.infos = @ \cup ({p} \cap ProviderNames)]

\* The provider's share; its info goes with the last one.
Dropped(reg, p, n) ==
  IF p \in ProviderNames
  THEN [reg EXCEPT !.by[p] = @ - Least(@, n),
                   !.infos = IF reg.by[p] <= n THEN @ \ {p} ELSE @]
  ELSE reg

\* removeModelRegistration and the loop of unregisterClientInternal, n times.
Removed(reg, c, p, n) ==
  IF n = 0 THEN reg
  ELSE IF reg.count <= n THEN NoReg
  ELSE [Dropped(reg, p, n) EXCEPT !.count = @ - n, !.quota = @ \ {c},
                                  !.suspended = @ \ {c}]

LeftBy(c) == [m \in Catalogue |->
                  Removed(regs[m], c, client[c].provider, client[c].copies[m])]
ProfileOf(c) == <<client[c].provider, client[c].copies>>
Released(c) ==
  IF ~client[c].shared THEN refs
  ELSE IF refs[ProfileOf(c)] = 1
  THEN [k \in DOMAIN refs \ {ProfileOf(c)} |-> refs[k]]
  ELSE [refs EXCEPT ![ProfileOf(c)] = @ - 1]

\* Marks disappear with the registration of their model.
Remark(c) ==
  ghosts' = {g \in ghosts : g[1] \in regs'[g[2]].quota \cup regs'[g[2]].suspended}

UnregisterClient(c) ==
  /\ regs' = LeftBy(c)
  /\ refs' = Released(c)
  /\ client' = [client EXCEPT ![c] = NoClient]
  /\ Remark(c)

\* Faulty variant: the provider is changed after the counts have been moved.
ReconciledLate(reg, c, p, old, new) ==
  LET q == client[c].provider
      less == IF old > new THEN Removed(reg, c, q, old - new) ELSE reg
      more == IF new > old THEN Added(less, p, new - old) ELSE less
  IN IF new = 0 THEN more
     ELSE [more EXCEPT !.infos = @ \cup ({p} \cap ProviderNames),
                       !.quota = @ \ {c}, !.suspended = @ \ {c}]

\* The second half of RegisterClient for one model of a client that has some.
Reconciled(reg, c, p, old, new) ==
  LET q == client[c].provider
      overlap == IF p = q THEN 0 ELSE Least(old, new)
      moved == IF overlap > 0 THEN Dropped(reg, q, overlap) ELSE reg
      less == IF old > new THEN Removed(moved, c, q, old - new) ELSE moved
      more == IF new > old THEN Added(less, p, new - old) ELSE less
  IN IF new = 0 THEN more
     ELSE [more EXCEPT !.infos = @ \cup ({p} \cap ProviderNames),
                       !.quota = @ \ {c}, !.suspended = @ \ {c},
                       !.by = [k \in ProviderNames |->
                                 IF k = p THEN @[k] + overlap ELSE @[k]]]

RegisterClient(c, p, copies) ==
  /\ regs' = [m \in Catalogue |->
       IF ~Registered(c) \/ client[c].shared
       THEN Added(LeftBy(c)[m], p, copies[m])
       ELSE Reconciled(regs[m], c, p, client[c].copies[m], copies[m])]
  /\ refs' = Released(c)
  /\ client' = [client EXCEPT ![c] = [provider |-> p, copies |-> copies, shared |-> FALSE]]
  /\ Remark(c)

RegisterClientShared(c, p, copies) ==
  LET profile == <<p, copies>>  released == Released(c) IN
  /\ regs' = [m \in Catalogue |-> Added(LeftBy(c)[m], p, copies[m])]
  /\ refs' = IF profile \in DOMAIN released THEN [released EXCEPT ![profile] = @ + 1]
             ELSE [k \in DOMAIN released \cup {profile} |->
                     IF k = profile THEN 1 ELSE released[k]]
  /\ client' = [client EXCEPT ![c] = [provider |-> p, copies |-> copies, shared |-> TRUE]]
  /\ Remark(c)

Marks == UNION {({m} \X regs[m].quota \X {1}) \cup ({m} \X regs[m].suspended \X {2}) :
                  m \in Catalogue}

\* SetModelQuotaExceeded and SuspendClientModel ask for the model only.
Mark(c, m, new) ==
  /\ regs[m] # NoReg
  /\ Cardinality(Marks) < MaxMarks
  /\ regs' = [regs EXCEPT ![m] = new]
  /\ ghosts' = IF Offers(c, m) THEN ghosts ELSE ghosts \cup {<<c, m>>}
  /\ UNCHANGED <<client, refs>>

SetModelQuotaExceeded(c, m) ==
  Mark(c, m, [regs[m] EXCEPT !.quota = @ \cup {c}])

SuspendClientModel(c, m) ==
  Mark(c, m, [regs[m] EXCEPT !.suspended = @ \cup {c}])

\* ClearModelQuotaExceeded, ResumeClientModel, and the end of the quota window.
Clear(c, m) ==
  /\ regs[m] # NoReg
  /\ \/ regs' = [regs EXCEPT ![m].quota = @ \ {c}]
     \/ regs' = [regs EXCEPT ![m].suspended = @ \ {c}]
  /\ Remark(c)
  /\ UNCHANGED <<client, refs>>

RegistryNext ==
  \/ \E c \in Clients :
       \/ UnregisterClient(c)
       \/ \E p \in ProviderNames \cup {NoProvider}, copies \in Lists :
            RegisterClient(c, p, copies) \/ RegisterClientShared(c, p, copies)
       \/ \E m \in Catalogue :
            SetModelQuotaExceeded(c, m) \/ SuspendClientModel(c, m) \/ Clear(c, m)

RegistrySpec == RegistryInit /\ [][RegistryNext]_registryVars

-----------------------------------------------------------------------------
\* Types; the last client takes the registration with it.
RegistryTypeOK ==
  /\ client \in [Clients -> [provider : ProviderNames \cup {NoProvider},
                             copies : [Catalogue -> 0..MaxCopies], shared : BOOLEAN]]
  /\ \A m \in Catalogue : (regs[m] = NoReg) <=> (regs[m].count = 0)

Copies(m, cs) ==
  Cardinality({e \in cs \X (1..MaxCopies) : e[2] <= client[e[1]].copies[m]})

\* The counts that are moved by hand are what the clients offer, in total and for
\* each provider; marks belong to clients that offer the model, unless they came
\* too late; profiles are shared by as many as use them.  (RegisterClient,
\* RegisterClientShared, unregisterClientInternal)
CountsMatchClients ==
  /\ \A m \in Catalogue :
       /\ regs[m].count = Copies(m, Clients)
       /\ \A p \in ProviderNames :
            regs[m].by[p] = Copies(m, {c \in Clients : client[c].provider = p})
       /\ regs[m].infos = {p \in ProviderNames : regs[m].by[p] > 0}
       /\ \A c \in regs[m].quota \cup regs[m].suspended : Offers(c, m) \/ <<c, m>> \in ghosts
  /\ refs = [k \in {ProfileOf(c) : c \in {d \in Clients : client[d].shared}} |->
               Cardinality({c \in Clients : client[c].shared /\ ProfileOf(c) = k})]
=============================================================================
