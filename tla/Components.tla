------------------------------ MODULE Components ------------------------------
(***************************************************************************)
(* The components around the executions: the watcher that feeds the         *)
(* credential manager, the scheduler of its credentials and their files,    *)
(* the two caches of session names, the registry of models, the websocket   *)
(* relay, the logins, the states of API keys, the flusher of releases, the  *)
(* inspection of accounts and the queue of usage records.  They meet in the *)
(* service and share no state that their models keep, so that a behaviour   *)
(* of this specification is one of a single component: focus.               *)
(***************************************************************************)
EXTENDS WatcherDispatch, CredentialScheduler, SessionCache, HomeSessionAlias,
        ModelRegistry, RelaySession, AuthPersistence, OAuthSessions, CompatState,
        ReleaseFlusher, AccountInspection, UsageQueue

CONSTANT Focuses

VARIABLE focus

\* The others rest in one of their initial states.
Init ==
  /\ focus \in Focuses
  /\ WatcherInit /\ (focus # "watcher" => \A f \in Files : disk[f] = Absent)
  /\ SchedInit /\ (focus # "scheduler" => flattened = {})
  /\ CacheInit /\ HomeInit /\ RegistryInit /\ RelayInit
  /\ PersistInit /\ OAuthInit /\ CompatInit /\ FlusherInit
  /\ InspectionInit /\ UsageInit

Next ==
  /\ UNCHANGED focus
  /\ \/ focus = "watcher" /\ WatcherNext
     \/ focus # "watcher" /\ UNCHANGED watcherVars
  /\ \/ focus = "scheduler" /\ SchedNext
     \/ focus # "scheduler" /\ UNCHANGED schedVars
  /\ \/ focus = "cache" /\ CacheNext
     \/ focus # "cache" /\ UNCHANGED cacheVars
  /\ \/ focus = "names" /\ HomeNext
     \/ focus # "names" /\ UNCHANGED homeVars
  /\ \/ focus = "models" /\ RegistryNext
     \/ focus # "models" /\ UNCHANGED registryVars
  /\ \/ focus = "relay" /\ RelayNext
     \/ focus # "relay" /\ UNCHANGED relayVars
  /\ \/ focus = "files" /\ PersistNext
     \/ focus # "files" /\ UNCHANGED persistVars
  /\ \/ focus = "logins" /\ OAuthNext
     \/ focus # "logins" /\ UNCHANGED oauthVars
  /\ \/ focus = "keys" /\ CompatNext
     \/ focus # "keys" /\ UNCHANGED compatVars
  /\ \/ focus = "releases" /\ FlusherNext
     \/ focus # "releases" /\ UNCHANGED flusherVars
  /\ \/ focus = "inspection" /\ InspectionNext
     \/ focus # "inspection" /\ UNCHANGED inspectionVars
  /\ \/ focus = "usage" /\ UsageNext
     \/ focus # "usage" /\ UNCHANGED usageVars

vars == <<focus, watcherVars, schedVars, cacheVars, homeVars, registryVars, relayVars,
          persistVars, oauthVars, compatVars, flusherVars, inspectionVars,
          usageVars>>
Spec == Init /\ [][Next]_vars

\* What tells two states of a run apart: the others have not moved.
View ==
  CASE focus = "watcher" -> <<focus, watcherVars>>
    [] focus = "scheduler" -> <<focus, schedVars>>
    [] focus = "cache" -> <<focus, cacheVars>>
    [] focus = "names" -> <<focus, homeVars>>
    [] focus = "models" -> <<focus, registryVars>>
    [] focus = "relay" -> <<focus, relayVars>>
    [] focus = "files" -> <<focus, persistVars>>
    [] focus = "logins" -> <<focus, oauthVars>>
    [] focus = "keys" -> <<focus, compatVars>>
    [] focus = "releases" -> <<focus, flusherVars>>
    [] focus = "inspection" -> <<focus, inspectionVars>>
    [] focus = "usage" -> <<focus, usageVars>>

-----------------------------------------------------------------------------
\* Types, and the sizes that the code bounds (channels, groups, entries), of the
\* component that moves.
TypeOK ==
  /\ focus = "watcher" => WatcherTypeOK
  /\ focus = "scheduler" => SchedTypeOK
  /\ focus = "cache" => CacheTypeOK
  /\ focus = "names" => HomeTypeOK
  /\ focus = "models" => RegistryTypeOK
  /\ focus = "relay" => RelayTypeOK
  /\ focus = "files" => PersistTypeOK
  /\ focus = "logins" => OAuthTypeOK
  /\ focus = "keys" => CompatTypeOK
  /\ focus = "releases" => FlusherTypeOK
  /\ focus = "inspection" => InspectionTypeOK
  /\ focus = "usage" => UsageTypeOK
=============================================================================
