--------------------------- MODULE ComponentsProofs ---------------------------
(***************************************************************************)
(* What is proved of each component holds where they stand together.  A     *)
(* behaviour of Components is one of every component, of which one moves    *)
(* and the others rest in an initial state (WatcherIsPart .. UsageIsPart),  *)
(* so that the invariants proved of the components are invariants of the    *)
(* specification that the run Components checks.                            *)
(***************************************************************************)
EXTENDS Components, WatcherProofs, CredentialProofs, ServiceProofs, ReleaseFlusherProofs

\* Seen by the watcher alone, a behaviour of the components is one of its own.
LEMMA WatcherIsPart == Spec => WatcherSpec
<1>1. Init => WatcherInit
  BY DEF Init
<1>2. [Next]_vars => [WatcherNext]_watcherVars
  BY DEF Next, vars
<1> QED
  BY <1>1, <1>2, PTL DEF Spec, WatcherSpec

\* Seen by the scheduler alone, a behaviour of the components is one of its own.
LEMMA SchedIsPart == Spec => SchedSpec
<1>1. Init => SchedInit
  BY DEF Init
<1>2. [Next]_vars => [SchedNext]_schedVars
  BY DEF Next, vars
<1> QED
  BY <1>1, <1>2, PTL DEF Spec, SchedSpec

\* Seen by the session cache alone, a behaviour of the components is one of its own.
LEMMA CacheIsPart == Spec => CacheSpec
<1>1. Init => CacheInit
  BY DEF Init
<1>2. [Next]_vars => [CacheNext]_cacheVars
  BY DEF Next, vars
<1> QED
  BY <1>1, <1>2, PTL DEF Spec, CacheSpec

\* Seen by the session names alone, a behaviour of the components is one of its own.
LEMMA HomeIsPart == Spec => HomeSpec
<1>1. Init => HomeInit
  BY DEF Init
<1>2. [Next]_vars => [HomeNext]_homeVars
  BY DEF Next, vars
<1> QED
  BY <1>1, <1>2, PTL DEF Spec, HomeSpec

\* Seen by the models alone, a behaviour of the components is one of its own.
LEMMA RegistryIsPart == Spec => RegistrySpec
<1>1. Init => RegistryInit
  BY DEF Init
<1>2. [Next]_vars => [RegistryNext]_registryVars
  BY DEF Next, vars
<1> QED
  BY <1>1, <1>2, PTL DEF Spec, RegistrySpec

\* Seen by the relay alone, a behaviour of the components is one of its own.
LEMMA RelayIsPart == Spec => RelaySpec
<1>1. Init => RelayInit
  BY DEF Init
<1>2. [Next]_vars => [RelayNext]_relayVars
  BY DEF Next, vars
<1> QED
  BY <1>1, <1>2, PTL DEF Spec, RelaySpec

\* Seen by the files alone, a behaviour of the components is one of its own.
LEMMA PersistIsPart == Spec => PersistSpec
<1>1. Init => PersistInit
  BY DEF Init
<1>2. [Next]_vars => [PersistNext]_persistVars
  BY DEF Next, vars
<1> QED
  BY <1>1, <1>2, PTL DEF Spec, PersistSpec

\* Seen by the logins alone, a behaviour of the components is one of its own.
LEMMA OAuthIsPart == Spec => OAuthSpec
<1>1. Init => OAuthInit
  BY DEF Init
<1>2. [Next]_vars => [OAuthNext]_oauthVars
  BY DEF Next, vars
<1> QED
  BY <1>1, <1>2, PTL DEF Spec, OAuthSpec

\* Seen by the keys alone, a behaviour of the components is one of its own.
LEMMA CompatIsPart == Spec => CompatSpec
<1>1. Init => CompatInit
  BY DEF Init
<1>2. [Next]_vars => [CompatNext]_compatVars
  BY DEF Next, vars
<1> QED
  BY <1>1, <1>2, PTL DEF Spec, CompatSpec

\* Seen by the releases alone, a behaviour of the components is one of its own.
LEMMA FlusherIsPart == Spec => FlusherSpec
<1>1. Init => FlusherInit
  BY DEF Init
<1>2. [Next]_vars => [FlusherNext]_flusherVars
  BY DEF Next, vars
<1> QED
  BY <1>1, <1>2, PTL DEF Spec, FlusherSpec

\* Seen by the inspection alone, a behaviour of the components is one of its own.
LEMMA InspectionIsPart == Spec => InspectionSpec
<1>1. Init => InspectionInit
  BY DEF Init
<1>2. [Next]_vars => [InspectionNext]_inspectionVars
  BY DEF Next, vars
<1> QED
  BY <1>1, <1>2, PTL DEF Spec, InspectionSpec

\* Seen by the usage alone, a behaviour of the components is one of its own.
LEMMA UsageIsPart == Spec => UsageSpec
<1>1. Init => UsageInit
  BY DEF Init
<1>2. [Next]_vars => [UsageNext]_usageVars
  BY DEF Next, vars
<1> QED
  BY <1>1, <1>2, PTL DEF Spec, UsageSpec

-----------------------------------------------------------------------------
\* Types and bounds of the component that moves: channels, groups, entries and
\* counters keep the sizes that the code gives them.  (all the components' sources)
THEOREM TypesHold == Spec => []TypeOK
<1>1. /\ WatcherTypeOK /\ SchedTypeOK /\ CacheTypeOK /\ HomeTypeOK
      /\ RegistryTypeOK /\ RelayTypeOK /\ PersistTypeOK /\ OAuthTypeOK
      /\ CompatTypeOK /\ FlusherTypeOK /\ InspectionTypeOK /\ UsageTypeOK
      => TypeOK
  BY DEF TypeOK
<1> QED
  BY <1>1, WatcherIsPart, SchedIsPart, CacheIsPart, HomeIsPart, RegistryIsPart,
     RelayIsPart, PersistIsPart, OAuthIsPart, CompatIsPart, FlusherIsPart,
     InspectionIsPart, UsageIsPart, WatcherTypes, CooldownsEnd, CacheTypes,
     NamesStayWithinLimit, RegistrationsGoWhole, RelayTypesHold, PersistTypesHold,
     LoginTypes, CompatTypesHold, FlusherTypes, RunsAreAnnounced, UsageTypesHold, PTL

\* Credentials: what the watcher found in a file or the configuration is what the
\* manager applied, what it applied is what the scheduler offers, its cooldowns and
\* its files are on disk, and the registry counts its models - each with the exceptions
\* that its invariant names: excused, Overtaken, flattened, revived, misled and ghosts.
\* (internal/watcher/dispatcher.go, sdk/cliproxy/auth/conductor.go and scheduler.go,
\* sdk/auth/filestore.go, internal/registry/model_registry.go)
THEOREM CredentialsAgree ==
  Spec => [](/\ FinalActionIsApplied /\ SettledMatches
             /\ SchedulerIsCurrent /\ CooldownsOnFile /\ OfferedIsUsable
             /\ FileMatchesManager /\ CountsMatchClients)
BY WatcherIsPart, SchedIsPart, PersistIsPart, RegistryIsPart, UpdatesArrive,
   SourcesAreMatched, SchedulerCatchesUp, CooldownsAreSaved, OffersAreUsable,
   FileAndManagerAgree, CountsAreKept, PTL

\* The services around the executions: a conversation keeps one name, a relayed call
\* ends with the answer it was sent, a login that was cancelled saves nothing, the
\* newest state of a key is kept, a flush is honest, an inspection's summary is that
\* of its results and every usage record is accounted for - except, as their invariants
\* say, for answers that are lost or cut off and keys that are forsaken.
\* (sdk/cliproxy/auth/session_cache.go and home_session_alias.go,
\* internal/wsrelay/session.go, internal/openai_compat_state/service.go,
\* internal/home/concurrency_release.go, internal/redisqueue/queue.go;
\* internal/api/handlers/management/oauth_sessions.go, account_inspection_ssfun.go)
THEOREM ServicesKeepTheirPromises ==
  Spec => [](/\ AliasesAgree /\ NamesAgree
             /\ NobodyHangs /\ AnswersAreWhole
             /\ CancelledInTimeSavesNothing /\ OkMeansSaved
             /\ NewestIsKept /\ FlushMeansAccepted
             /\ SleepersAreWoken /\ ActionsRestOnAnswers /\ SummaryMatchesResults
             /\ RecordsAreAccounted /\ SubscribersMissNothing)
BY CacheIsPart, HomeIsPart, RelayIsPart, OAuthIsPart, CompatIsPart, FlusherIsPart,
   InspectionIsPart, UsageIsPart, ConversationsStayWhole, OneNamePerConversation,
   NobodyHangsOnARelay, AnswersStayWhole, CancelHolds, OkIsVouchedFor, NoStateIsLost,
   FlushIsHonest, NobodySleepsOn, CutProbesAreHarmless, SummaryNeverDrifts,
   EveryRecordCounts, SubscribersAreServed, PTL
=============================================================================
