--------------------------- MODULE ComponentsProofs ---------------------------
(***************************************************************************)
(* Proofs about Components, the sum of the models that share no variable:  *)
(* whichever part moves behaves as its own specification says, and each    *)
(* promise proved of one component holds in the sum, whatever moves.       *)
(***************************************************************************)
EXTENDS Components, FetchProofs, PlatformProofs, PagesProofs

------------------------------------------------------------------------------
(* The part that moves, and the others.                                      *)

LEMMA AllStart ==
  ComponentsInit =>
    /\ part \in Parts
    /\ OutboxInit /\ RealtimeInit /\ ReadModelInit /\ ProfilesInit /\ IdentityInit /\ VersionsInit
    /\ BatchInit /\ RulesInit /\ YahooInit /\ UniverseInit /\ FiguresInit /\ SchemaInit
<1>1. ComponentsInit => StartOfOthers
  BY Zenon DEF ComponentsInit
<1>2. StartOfOthers => part \in Parts
  BY Zenon DEF StartOfOthers
<1> QED BY <1>1, <1>2, Zenon DEF ComponentsInit

\* The part that moves is chosen at the start.
LEMMA PartStays == [ComponentsNext]_componentsVars => part' = part
BY Zenon DEF ComponentsNext, OthersStay, componentsVars

\* A part without faults from outside takes its own steps, or none.
LEMMA OwnSteps ==
  ASSUME [ComponentsNext]_componentsVars
  PROVE  /\ [ProfilesNext]_profilesVars
         /\ [IdentityNext]_identityVars
         /\ [RulesNext]_rulesVars
         /\ [YahooNext]_yahooVars
         /\ [UniverseNext]_universeVars
         /\ [FiguresNext]_figuresVars
         /\ [SchemaNext]_schemaVars
<1>1. [ProfilesNext]_profilesVars
  <2>1. CASE ComponentsNext /\ part = "profiles"
    BY <2>1, Zenon DEF ComponentsNext
  <2>2. CASE ComponentsNext /\ part # "profiles"
    BY <2>2 DEF ComponentsNext, OthersStay, Stays
  <2>3. CASE UNCHANGED componentsVars
    BY <2>3 DEF componentsVars
  <2> QED BY <2>1, <2>2, <2>3
<1>2. [IdentityNext]_identityVars
  <2>1. CASE ComponentsNext /\ part = "identity"
    BY <2>1, Zenon DEF ComponentsNext
  <2>2. CASE ComponentsNext /\ part # "identity"
    BY <2>2 DEF ComponentsNext, OthersStay, Stays
  <2>3. CASE UNCHANGED componentsVars
    BY <2>3 DEF componentsVars
  <2> QED BY <2>1, <2>2, <2>3
<1>3. [RulesNext]_rulesVars
  <2>1. CASE ComponentsNext /\ part = "rules"
    BY <2>1, Zenon DEF ComponentsNext
  <2>2. CASE ComponentsNext /\ part # "rules"
    BY <2>2 DEF ComponentsNext, OthersStay, Stays
  <2>3. CASE UNCHANGED componentsVars
    BY <2>3 DEF componentsVars
  <2> QED BY <2>1, <2>2, <2>3
<1>4. [YahooNext]_yahooVars
  <2>1. CASE ComponentsNext /\ part = "yahoo"
    BY <2>1, Zenon DEF ComponentsNext
  <2>2. CASE ComponentsNext /\ part # "yahoo"
    BY <2>2 DEF ComponentsNext, OthersStay, Stays
  <2>3. CASE UNCHANGED componentsVars
    BY <2>3 DEF componentsVars
  <2> QED BY <2>1, <2>2, <2>3
<1>5. [UniverseNext]_universeVars
  <2>1. CASE ComponentsNext /\ part = "universe"
    BY <2>1, Zenon DEF ComponentsNext
  <2>2. CASE ComponentsNext /\ part # "universe"
    BY <2>2 DEF ComponentsNext, OthersStay, Stays
  <2>3. CASE UNCHANGED componentsVars
    BY <2>3 DEF componentsVars
  <2> QED BY <2>1, <2>2, <2>3
<1>6. [FiguresNext]_figuresVars
  <2>1. CASE ComponentsNext /\ part = "figures"
    BY <2>1, Zenon DEF ComponentsNext
  <2>2. CASE ComponentsNext /\ part # "figures"
    BY <2>2 DEF ComponentsNext, OthersStay, Stays
  <2>3. CASE UNCHANGED componentsVars
    BY <2>3 DEF componentsVars
  <2> QED BY <2>1, <2>2, <2>3
<1>7. [SchemaNext]_schemaVars
  <2>1. CASE ComponentsNext /\ part = "schema"
    BY <2>1, Zenon DEF ComponentsNext
  <2>2. CASE ComponentsNext /\ part # "schema"
    BY <2>2 DEF ComponentsNext, OthersStay, Stays
  <2>3. CASE UNCHANGED componentsVars
    BY <2>3 DEF componentsVars
  <2> QED BY <2>1, <2>2, <2>3
<1> QED BY <1>1, <1>2, <1>3, <1>4, <1>5, <1>6, <1>7

\* A part with faults does so while it is the one that moves: the faults are its own then.
LEMMA FaultySteps ==
  ASSUME [ComponentsNext]_componentsVars
  PROVE  /\ part = "outbox" => [OutboxNext]_outboxVars
         /\ part = "realtime" => [RealtimeNext]_realtimeVars
         /\ part = "readmodel" => [ReadModelNext]_readModelVars
         /\ part = "versions" => [VersionsNext]_versionsVars
         /\ part = "batch" => [BatchNext]_batchVars
<1>1. ASSUME part = "outbox" PROVE [OutboxNext]_outboxVars
  <2>1. CASE ComponentsNext
    BY <1>1, <2>1 DEF ComponentsNext
  <2>2. CASE UNCHANGED componentsVars
    BY <2>2, Zenon DEF componentsVars, outboxVars
  <2> QED BY <2>1, <2>2
<1>2. ASSUME part = "realtime" PROVE [RealtimeNext]_realtimeVars
  <2>1. CASE ComponentsNext
    BY <1>2, <2>1 DEF ComponentsNext
  <2>2. CASE UNCHANGED componentsVars
    BY <2>2, Zenon DEF componentsVars, realtimeVars
  <2> QED BY <2>1, <2>2
<1>3. ASSUME part = "readmodel" PROVE [ReadModelNext]_readModelVars
  <2>1. CASE ComponentsNext
    BY <1>3, <2>1 DEF ComponentsNext
  <2>2. CASE UNCHANGED componentsVars
    BY <2>2, Zenon DEF componentsVars, readModelVars
  <2> QED BY <2>1, <2>2
<1>4. ASSUME part = "versions" PROVE [VersionsNext]_versionsVars
  <2>1. CASE ComponentsNext
    BY <1>4, <2>1 DEF ComponentsNext
  <2>2. CASE UNCHANGED componentsVars
    BY <2>2, Zenon DEF componentsVars, versionsVars
  <2> QED BY <2>1, <2>2
<1>5. ASSUME part = "batch" PROVE [BatchNext]_batchVars
  <2>1. CASE ComponentsNext
    BY <1>5, <2>1 DEF ComponentsNext
  <2>2. CASE UNCHANGED componentsVars
    BY <2>2, Zenon DEF componentsVars, batchVars
  <2> QED BY <2>1, <2>2
<1> QED BY <1>1, <1>2, <1>3, <1>4, <1>5

\* And rests else.
LEMMA FaultyRest ==
  ASSUME [ComponentsNext]_componentsVars
  PROVE  /\ part # "outbox" => UNCHANGED outboxState
         /\ part # "realtime" => UNCHANGED realtimeState
         /\ part # "readmodel" => UNCHANGED readModelState
         /\ part # "versions" => UNCHANGED versionsState
         /\ part # "batch" => UNCHANGED batchState
<1>1. ASSUME part # "outbox" PROVE UNCHANGED outboxState
  <2>1. CASE ComponentsNext
    BY <1>1, <2>1 DEF ComponentsNext, OthersStay, Stays
  <2>2. CASE UNCHANGED componentsVars
    BY <2>2, Zenon DEF componentsVars
  <2> QED BY <2>1, <2>2
<1>2. ASSUME part # "realtime" PROVE UNCHANGED realtimeState
  <2>1. CASE ComponentsNext
    BY <1>2, <2>1 DEF ComponentsNext, OthersStay, Stays
  <2>2. CASE UNCHANGED componentsVars
    BY <2>2, Zenon DEF componentsVars
  <2> QED BY <2>1, <2>2
<1>3. ASSUME part # "readmodel" PROVE UNCHANGED readModelState
  <2>1. CASE ComponentsNext
    BY <1>3, <2>1 DEF ComponentsNext, OthersStay, Stays
  <2>2. CASE UNCHANGED componentsVars
    BY <2>2, Zenon DEF componentsVars
  <2> QED BY <2>1, <2>2
<1>4. ASSUME part # "versions" PROVE UNCHANGED versionsState
  <2>1. CASE ComponentsNext
    BY <1>4, <2>1 DEF ComponentsNext, OthersStay, Stays
  <2>2. CASE UNCHANGED componentsVars
    BY <2>2, Zenon DEF componentsVars
  <2> QED BY <2>1, <2>2
<1>5. ASSUME part # "batch" PROVE UNCHANGED batchState
  <2>1. CASE ComponentsNext
    BY <1>5, <2>1 DEF ComponentsNext, OthersStay, Stays
  <2>2. CASE UNCHANGED componentsVars
    BY <2>2, Zenon DEF componentsVars
  <2> QED BY <2>1, <2>2
<1> QED BY <1>1, <1>2, <1>3, <1>4, <1>5

\* The sum is faithful to its parts: the part that moves is a behaviour of its own
\* specification, with the faults that are allowed to it, and those without faults
\* are whichever part moves.
THEOREM PartsBehave ==
  ComponentsSpec =>
    /\ ProfilesSpec
    /\ IdentitySpec
    /\ RulesSpec
    /\ YahooSpec
    /\ UniverseSpec
    /\ FiguresSpec
    /\ SchemaSpec
    /\ part = "outbox" => OutboxSpec
    /\ part = "realtime" => RealtimeSpec
    /\ part = "readmodel" => ReadModelSpec
    /\ part = "versions" => VersionsSpec
    /\ part = "batch" => BatchSpec
<1>1. ComponentsSpec => ProfilesSpec
  <2>1. ComponentsInit => ProfilesInit
    BY AllStart
  <2>2. [ComponentsNext]_componentsVars => [ProfilesNext]_profilesVars
    BY OwnSteps
  <2> QED BY <2>1, <2>2, PTL DEF ComponentsSpec, ProfilesSpec
<1>2. ComponentsSpec => IdentitySpec
  <2>1. ComponentsInit => IdentityInit
    BY AllStart
  <2>2. [ComponentsNext]_componentsVars => [IdentityNext]_identityVars
    BY OwnSteps
  <2> QED BY <2>1, <2>2, PTL DEF ComponentsSpec, IdentitySpec
<1>3. ComponentsSpec => RulesSpec
  <2>1. ComponentsInit => RulesInit
    BY AllStart
  <2>2. [ComponentsNext]_componentsVars => [RulesNext]_rulesVars
    BY OwnSteps
  <2> QED BY <2>1, <2>2, PTL DEF ComponentsSpec, RulesSpec
<1>4. ComponentsSpec => YahooSpec
  <2>1. ComponentsInit => YahooInit
    BY AllStart
  <2>2. [ComponentsNext]_componentsVars => [YahooNext]_yahooVars
    BY OwnSteps
  <2> QED BY <2>1, <2>2, PTL DEF ComponentsSpec, YahooSpec
<1>5. ComponentsSpec => UniverseSpec
  <2>1. ComponentsInit => UniverseInit
    BY AllStart
  <2>2. [ComponentsNext]_componentsVars => [UniverseNext]_universeVars
    BY OwnSteps
  <2> QED BY <2>1, <2>2, PTL DEF ComponentsSpec, UniverseSpec
<1>6. ComponentsSpec => FiguresSpec
  <2>1. ComponentsInit => FiguresInit
    BY AllStart
  <2>2. [ComponentsNext]_componentsVars => [FiguresNext]_figuresVars
    BY OwnSteps
  <2> QED BY <2>1, <2>2, PTL DEF ComponentsSpec, FiguresSpec
<1>7. ComponentsSpec => SchemaSpec
  <2>1. ComponentsInit => SchemaInit
    BY AllStart
  <2>2. [ComponentsNext]_componentsVars => [SchemaNext]_schemaVars
    BY OwnSteps
  <2> QED BY <2>1, <2>2, PTL DEF ComponentsSpec, SchemaSpec
<1>8. ComponentsSpec => (part = "outbox" => OutboxSpec)
  <2>1. ComponentsInit => OutboxInit
    BY AllStart
  <2>2. [ComponentsNext]_componentsVars /\ part = "outbox" => [OutboxNext]_outboxVars /\ (part = "outbox")'
    BY FaultySteps, PartStays
  <2> QED BY <2>1, <2>2, PTL DEF ComponentsSpec, OutboxSpec
<1>9. ComponentsSpec => (part = "realtime" => RealtimeSpec)
  <2>1. ComponentsInit => RealtimeInit
    BY AllStart
  <2>2. [ComponentsNext]_componentsVars /\ part = "realtime" => [RealtimeNext]_realtimeVars /\ (part = "realtime")'
    BY FaultySteps, PartStays
  <2> QED BY <2>1, <2>2, PTL DEF ComponentsSpec, RealtimeSpec
<1>10. ComponentsSpec => (part = "readmodel" => ReadModelSpec)
  <2>1. ComponentsInit => ReadModelInit
    BY AllStart
  <2>2. [ComponentsNext]_componentsVars /\ part = "readmodel" => [ReadModelNext]_readModelVars /\ (part = "readmodel")'
    BY FaultySteps, PartStays
  <2> QED BY <2>1, <2>2, PTL DEF ComponentsSpec, ReadModelSpec
<1>11. ComponentsSpec => (part = "versions" => VersionsSpec)
  <2>1. ComponentsInit => VersionsInit
    BY AllStart
  <2>2. [ComponentsNext]_componentsVars /\ part = "versions" => [VersionsNext]_versionsVars /\ (part = "versions")'
    BY FaultySteps, PartStays
  <2> QED BY <2>1, <2>2, PTL DEF ComponentsSpec, VersionsSpec
<1>12. ComponentsSpec => (part = "batch" => BatchSpec)
  <2>1. ComponentsInit => BatchInit
    BY AllStart
  <2>2. [ComponentsNext]_componentsVars /\ part = "batch" => [BatchNext]_batchVars /\ (part = "batch")'
    BY FaultySteps, PartStays
  <2> QED BY <2>1, <2>2, PTL DEF ComponentsSpec, BatchSpec
<1> QED BY <1>1, <1>2, <1>3, <1>4, <1>5, <1>6, <1>7, <1>8, <1>9, <1>10, <1>11, <1>12

------------------------------------------------------------------------------
(* What the components promise, in the sum.                                  *)

\* The types of the parts: those with faults have them while they move.
FaultyTypes ==
  /\ part = "outbox" => OutboxTypeOK
  /\ part = "realtime" => RealtimeTypeOK
  /\ part = "readmodel" => ReadModelTypeOK
  /\ part = "versions" => VersionsTypeOK
  /\ part = "batch" => BatchTypeOK
OwnTypes ==
  /\ ProfilesTypeOK
  /\ IdentityTypeOK
  /\ RulesTypeOK
  /\ YahooTypeOK
  /\ UniverseTypeOK
  /\ FiguresTypeOK
  /\ SchemaTypeOK

LEMMA TypesOfParts == part \in Parts /\ FaultyTypes /\ OwnTypes => ComponentsTypeOK
<1> SUFFICES ASSUME part \in Parts, FaultyTypes, OwnTypes PROVE ComponentsTypeOK
  OBVIOUS
<1>1. CASE part = "outbox"
  BY <1>1 DEF ComponentsTypeOK, FaultyTypes
<1>2. CASE part = "realtime"
  BY <1>2 DEF ComponentsTypeOK, FaultyTypes
<1>3. CASE part = "readmodel"
  BY <1>3 DEF ComponentsTypeOK, FaultyTypes
<1>4. CASE part = "versions"
  BY <1>4 DEF ComponentsTypeOK, FaultyTypes
<1>5. CASE part = "batch"
  BY <1>5 DEF ComponentsTypeOK, FaultyTypes
<1>6. CASE part = "profiles"
  BY <1>6 DEF ComponentsTypeOK, OwnTypes
<1>7. CASE part = "identity"
  BY <1>7 DEF ComponentsTypeOK, OwnTypes
<1>8. CASE part = "rules"
  BY <1>8 DEF ComponentsTypeOK, OwnTypes
<1>9. CASE part = "yahoo"
  BY <1>9 DEF ComponentsTypeOK, OwnTypes
<1>10. CASE part = "universe"
  BY <1>10 DEF ComponentsTypeOK, OwnTypes
<1>11. CASE part = "figures"
  BY <1>11 DEF ComponentsTypeOK, OwnTypes
<1>12. CASE part = "schema"
  BY <1>12 DEF ComponentsTypeOK, OwnTypes
<1> QED BY <1>1, <1>2, <1>3, <1>4, <1>5, <1>6, <1>7, <1>8, <1>9, <1>10, <1>11, <1>12 DEF Parts

LEMMA FaultyTypesHold == ComponentsSpec => []FaultyTypes
<1>1. ComponentsSpec => [](part = "outbox" => OutboxTypeOK)
  <2>1. OutboxInv => OutboxTypeOK
    BY DEF OutboxInv
  <2>2. part = "outbox" /\ [ComponentsNext]_componentsVars => (part = "outbox")'
    BY PartStays
  <2>3. ~(part = "outbox") /\ [ComponentsNext]_componentsVars => ~(part = "outbox")'
    BY PartStays
  <2> QED BY <2>1, <2>2, <2>3, PartsBehave, OutboxInvariant, PTL DEF ComponentsSpec
<1>2. ComponentsSpec => [](part = "realtime" => RealtimeTypeOK)
  <2>1. part = "realtime" /\ [ComponentsNext]_componentsVars => (part = "realtime")'
    BY PartStays
  <2>2. ~(part = "realtime") /\ [ComponentsNext]_componentsVars => ~(part = "realtime")'
    BY PartStays
  <2> QED BY <2>1, <2>2, PartsBehave, RealtimeTypes, PTL DEF ComponentsSpec
<1>3. ComponentsSpec => [](part = "readmodel" => ReadModelTypeOK)
  <2>1. ReadModelInv => ReadModelTypeOK
    BY DEF ReadModelInv
  <2>2. part = "readmodel" /\ [ComponentsNext]_componentsVars => (part = "readmodel")'
    BY PartStays
  <2>3. ~(part = "readmodel") /\ [ComponentsNext]_componentsVars => ~(part = "readmodel")'
    BY PartStays
  <2> QED BY <2>1, <2>2, <2>3, PartsBehave, ReadModelInvariant, PTL DEF ComponentsSpec
<1>4. ComponentsSpec => [](part = "versions" => VersionsTypeOK)
  <2>1. VersionsInv => VersionsTypeOK
    BY DEF VersionsInv
  <2>2. part = "versions" /\ [ComponentsNext]_componentsVars => (part = "versions")'
    BY PartStays
  <2>3. ~(part = "versions") /\ [ComponentsNext]_componentsVars => ~(part = "versions")'
    BY PartStays
  <2> QED BY <2>1, <2>2, <2>3, PartsBehave, VersionsInvariant, PTL DEF ComponentsSpec
<1>5. ComponentsSpec => [](part = "batch" => BatchTypeOK)
  <2>1. BatchRunInv => BatchTypeOK
    BY DEF BatchRunInv
  <2>2. part = "batch" /\ [ComponentsNext]_componentsVars => (part = "batch")'
    BY PartStays
  <2>3. ~(part = "batch") /\ [ComponentsNext]_componentsVars => ~(part = "batch")'
    BY PartStays
  <2> QED BY <2>1, <2>2, <2>3, PartsBehave, BatchInvariant, PTL DEF ComponentsSpec
<1> QED BY <1>1, <1>2, <1>3, <1>4, <1>5, PTL DEF FaultyTypes

LEMMA OwnTypesHold == ComponentsSpec => []OwnTypes
<1>1. ComponentsSpec => []ProfilesTypeOK
  BY PartsBehave, ProfilesTypes
<1>2. ComponentsSpec => []IdentityTypeOK
  BY PartsBehave, IdentityTypes
<1>3. ComponentsSpec => []RulesTypeOK
  BY PartsBehave, TheRankingIsOfTheTable
<1>4. ComponentsSpec => []YahooTypeOK
  <2>1. YahooInv => YahooTypeOK
    BY DEF YahooInv
  <2> QED BY <2>1, PartsBehave, YahooInvariant, PTL
<1>5. ComponentsSpec => []UniverseTypeOK
  <2>1. UniverseInv => UniverseTypeOK
    BY DEF UniverseInv
  <2> QED BY <2>1, PartsBehave, UniverseInvariant, PTL
<1>6. ComponentsSpec => []FiguresTypeOK
  BY PartsBehave, FiguresTypeIsInductive, PTL DEF FiguresSpec
<1>7. ComponentsSpec => []SchemaTypeOK
  BY PartsBehave, SchemaTypeIsOK
<1> QED BY <1>1, <1>2, <1>3, <1>4, <1>5, <1>6, <1>7, PTL DEF OwnTypes

\* Every reachable state has the types of the part that moves.
THEOREM ComponentsTypes == ComponentsSpec => []ComponentsTypeOK
<1>1. ComponentsInit => part \in Parts
  BY AllStart
<1>2. part \in Parts /\ [ComponentsNext]_componentsVars => (part \in Parts)'
  BY PartStays DEF Parts
<1>3. ComponentsSpec => [](part \in Parts)
  BY <1>1, <1>2, PTL DEF ComponentsSpec
<1> QED BY <1>3, TypesOfParts, FaultyTypesHold, OwnTypesHold, PTL

\* The outbox: while it rests its stream is empty.
LEMMA OutboxKeeps == ComponentsSpec => []SentAsCommitted
<1>1. ComponentsInit => SentAsCommitted
  BY AllStart, InitInv, InvGivesOrder
<1>2. SentAsCommitted /\ ~(part = "outbox") /\ [ComponentsNext]_componentsVars =>
        SentAsCommitted' /\ ~(part = "outbox")'
  <2> SUFFICES ASSUME SentAsCommitted, ~(part = "outbox"), [ComponentsNext]_componentsVars
               PROVE  SentAsCommitted' /\ ~(part = "outbox")'
    OBVIOUS
  <2>1. part' = part /\ UNCHANGED outboxState
    BY PartStays, FaultyRest
  <2>2. UNCHANGED <<txn, earlier, marked, log, pc, due>>
    BY <2>1, Zenon DEF outboxState
  <2>3. \A r : InLog(r)' = InLog(r) /\ FirstIn(r)' = FirstIn(r)
    BY <2>2 DEF InLog, FirstIn
  <2>4. Committed' = Committed
    BY <2>2 DEF Committed
  <2>5. OrderKept'
    BY <2>2, <2>3 DEF SentAsCommitted, OrderKept, SentBefore
  <2>6. NothingLost'
    BY <2>2, <2>3, <2>4 DEF SentAsCommitted, NothingLost
  <2> QED BY <2>1, <2>5, <2>6 DEF SentAsCommitted
<1> QED BY <1>1, <1>2, PartsBehave, OutboxSendsAsCommitted, PTL DEF ComponentsSpec

\* The tab: while it rests it is not connected.
LEMMA RealtimeKeeps == ComponentsSpec => []TabFollows
<1>1. ComponentsInit => TabFollows
  BY AllStart, RealtimeInitInv, TabIsRight
<1>2. TabFollows /\ ~(part = "realtime") /\ [ComponentsNext]_componentsVars =>
        TabFollows' /\ ~(part = "realtime")'
  <2> SUFFICES ASSUME TabFollows, ~(part = "realtime"), [ComponentsNext]_componentsVars
               PROVE  TabFollows' /\ ~(part = "realtime")'
    OBVIOUS
  <2>1. part' = part /\ UNCHANGED realtimeState
    BY PartStays, FaultyRest
  <2>2. /\ Arriving' = Arriving /\ Published' = Published
        /\ UNCHANGED <<phase, resume, shown, dirty, queue, nakked, early>>
    BY <2>1 DEF Arriving, Published, realtimeState, consumer, client, browser, history
  <2>3. NothingMissed'
    BY <2>2 DEF TabFollows, NothingMissed
  <2>4. OrderedOnce'
    BY <2>2 DEF TabFollows, OrderedOnce, InOrder
  <2> QED BY <2>1, <2>3, <2>4 DEF TabFollows
<1> QED BY <1>1, <1>2, PartsBehave, TabFollowsAll, PTL DEF ComponentsSpec

\* The pages: while it rests there is nothing to show.
LEMMA ReadModelKeeps == ComponentsSpec => []PagesAreTrue
<1>1. ComponentsInit => PagesAreTrue
  BY AllStart, ReadModelInitInv, PagesFollow
<1>2. PagesAreTrue /\ ~(part = "readmodel") /\ [ComponentsNext]_componentsVars =>
        PagesAreTrue' /\ ~(part = "readmodel")'
  <2> SUFFICES ASSUME PagesAreTrue, ~(part = "readmodel"), [ComponentsNext]_componentsVars
               PROVE  PagesAreTrue' /\ ~(part = "readmodel")'
    OBVIOUS
  <2>1. part' = part /\ UNCHANGED readModelState
    BY PartStays, FaultyRest
  <2>2. \A k : RankingPage(k)' = RankingPage(k) /\ TableRanking(k)' = TableRanking(k)
    BY <2>1 DEF RankingPage, TableRanking, readModelState
  <2>3. \A t : TitlePage(t)' = TitlePage(t) /\ TableTitle(t)' = TableTitle(t)
    BY <2>1 DEF TitlePage, TableTitle, readModelState
  <2> QED BY <2>1, <2>2, <2>3 DEF PagesAreTrue, readModelState
<1> QED BY <1>1, <1>2, PartsBehave, PagesTrue, PTL DEF ComponentsSpec

\* The series: while it rests nothing is stored.
LEMMA VersionsKeeps == ComponentsSpec => [](NoGap /\ StoredSplitIsApplied)
<1>1. ComponentsInit => NoGap /\ StoredSplitIsApplied
  BY AllStart, Zenon DEF VersionsInit, NoGap, Stored, StoredSplitIsApplied, KnownAt
<1>2. NoGap /\ StoredSplitIsApplied /\ ~(part = "versions") /\ [ComponentsNext]_componentsVars =>
        (NoGap /\ StoredSplitIsApplied)' /\ ~(part = "versions")'
  <2> SUFFICES ASSUME NoGap /\ StoredSplitIsApplied, ~(part = "versions"), [ComponentsNext]_componentsVars
               PROVE  (NoGap /\ StoredSplitIsApplied)' /\ ~(part = "versions")'
    OBVIOUS
  <2>1. part' = part /\ UNCHANGED versionsState
    BY PartStays, FaultyRest
  <2> QED BY <2>1 DEF NoGap, StoredSplitIsApplied, Stored, KnownAt, LatestOf, versionsState
<1> QED BY <1>1, <1>2, PartsBehave, VersionsHaveNoGap, SplitsAreApplied, PTL DEF ComponentsSpec

\* The batch: while it rests it has not begun.
LEMMA BatchKeeps == ComponentsSpec => []EndIsTrue
<1>1. ComponentsInit => EndIsTrue
  BY AllStart, BatchInitInv, EndIs
<1>2. EndIsTrue /\ ~(part = "batch") /\ [ComponentsNext]_componentsVars =>
        EndIsTrue' /\ ~(part = "batch")'
  <2> SUFFICES ASSUME EndIsTrue, ~(part = "batch"), [ComponentsNext]_componentsVars
               PROVE  EndIsTrue' /\ ~(part = "batch")'
    OBVIOUS
  <2>1. part' = part /\ UNCHANGED batchState
    BY PartStays, FaultyRest
  <2> QED BY <2>1 DEF EndIsTrue, ExitIsTrue, FailureIsHeard, Has, batchState
<1> QED BY <1>1, <1>2, PartsBehave, EndTrue, PTL DEF ComponentsSpec

\* What is promised of a component holds in the sum in each state, whichever part moves:
\* the other parts rest where they start, and this is a state of theirs.
THEOREM PromisesKept ==
  ComponentsSpec =>
    /\ [](SentAsCommitted /\ TabFollows /\ PagesAreTrue /\ AnswersAreTrue /\ FormIsOfItsVersion)
    /\ [](SessionsEndAsSet /\ LockedForReason /\ RightsAreAsDocumented /\ StoredStays /\ EndIsTrue)
    /\ [](NoGap /\ StoredSplitIsApplied /\ ConsensusIsTrue /\ UniverseFromOneSource /\ UnitsDoNotMatter)
    /\ RankingIsFair /\ IsinsStay
<1>1. ComponentsSpec => [](SentAsCommitted /\ TabFollows /\ PagesAreTrue /\ EndIsTrue /\ NoGap /\ StoredSplitIsApplied)
  BY OutboxKeeps, RealtimeKeeps, ReadModelKeeps, BatchKeeps, VersionsKeeps, PTL
<1>2. ComponentsSpec => [](AnswersAreTrue /\ FormIsOfItsVersion /\ SessionsEndAsSet /\ LockedForReason)
  BY PartsBehave, AnswersTrue, FormOfItsVersion, SessionsEndSet, LockedReason, PTL
<1>3. ComponentsSpec => [](RightsAreAsDocumented /\ StoredStays)
  BY PartsBehave, TheRightsAreAsDocumented, TheStoredStays, PTL
<1>4. ComponentsSpec => [](ConsensusIsTrue /\ UniverseFromOneSource /\ UnitsDoNotMatter)
  BY PartsBehave, ConsensusTrue, UniverseOfOneSource, TheUnitsDoNotMatter, PTL
<1>5. ComponentsSpec => RankingIsFair /\ IsinsStay
  BY PartsBehave, TheRankingIsFair, IsinsNeverChange
<1> QED BY <1>1, <1>2, <1>3, <1>4, <1>5, PTL
===============================================================================
