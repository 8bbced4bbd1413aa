------------------------------ MODULE Components -------------------------------
(***************************************************************************)
(* The components of the system that share no variable with each other,    *)
(* side by side: in a behaviour one of them moves and the others stay as   *)
(* they start.  Since none reads what another one changes, every behaviour *)
(* of a component is one of these, and one model has them all.  Where two  *)
(* components do act on each other they are in one module: ReliableBus     *)
(* with its outbox, RunLifecycle, Screening.                               *)
(***************************************************************************)
EXTENDS Outbox, Realtime, ReadModel, Profiles, Identity, Versions, Batch, Rules, Yahoo, Universe, Figures, Schema

VARIABLE part    \* the component that moves

componentsVars == <<part, outboxState, realtimeState, readModelState, profilesVars, identityVars, versionsState,
                    batchState, rulesVars, yahooVars, universeVars, figuresVars, schemaVars, faults>>

Parts == {"outbox", "realtime", "readmodel", "profiles", "identity", "versions", "batch", "rules",
          "yahoo", "universe", "figures", "schema"}

\* Where a component may start in several ways, one is enough for the others.
StartOfOthers ==
  /\ part \in Parts
  /\ IF part = "versions" THEN TRUE ELSE series = "price_bar"
  /\ IF part = "batch" THEN TRUE ELSE transport = "nats" /\ events = <<>>
  /\ IF part = "rules" THEN TRUE
     ELSE /\ figure = [t \in Stock |-> CHOOSE l \in Lines : TRUE]
          /\ large = {} /\ order = CHOOSE s \in Orders : TRUE
  /\ IF part = "yahoo" THEN TRUE ELSE has = {} /\ foreign = FALSE
  /\ IF part = "figures" THEN TRUE
     ELSE /\ statement = CHOOSE s \in Statements : TRUE
          /\ market = (CHOOSE m \in Markets : TRUE) /\ rate = CHOOSE r \in Rates : TRUE
  /\ IF part = "schema" THEN TRUE ELSE roles = {"va_app", "va_read"}

ComponentsInit ==
  /\ StartOfOthers
  /\ OutboxInit /\ RealtimeInit /\ ReadModelInit /\ ProfilesInit /\ IdentityInit
  /\ VersionsInit /\ BatchInit /\ RulesInit /\ YahooInit /\ UniverseInit /\ FiguresInit /\ SchemaInit

Stays(p, state) == IF part = p THEN TRUE ELSE UNCHANGED state

OthersStay ==
  /\ UNCHANGED part
  /\ Stays("outbox", outboxState) /\ Stays("realtime", realtimeState)
  /\ Stays("readmodel", readModelState) /\ Stays("profiles", profilesVars)
  /\ Stays("identity", identityVars) /\ Stays("versions", versionsState) /\ Stays("batch", batchState)
  /\ Stays("rules", rulesVars) /\ Stays("yahoo", yahooVars) /\ Stays("universe", universeVars)
  /\ Stays("figures", figuresVars) /\ Stays("schema", schemaVars)

ComponentsNext ==
  /\ \/ part = "outbox" /\ OutboxNext
     \/ part = "realtime" /\ RealtimeNext
     \/ part = "readmodel" /\ ReadModelNext
     \/ part = "profiles" /\ ProfilesNext /\ UNCHANGED faults
     \/ part = "identity" /\ IdentityNext /\ UNCHANGED faults
     \/ part = "versions" /\ VersionsNext
     \/ part = "batch" /\ BatchNext
     \/ part = "rules" /\ RulesNext /\ UNCHANGED faults
     \/ part = "yahoo" /\ YahooNext /\ UNCHANGED faults
     \/ part = "universe" /\ UniverseNext /\ UNCHANGED faults
     \/ part = "figures" /\ FiguresNext /\ UNCHANGED faults
     \/ part = "schema" /\ SchemaNext /\ UNCHANGED faults
  /\ OthersStay

\* The relay goes on with its passes (OutboxRelay.run), and the endpoint's tasks
\* have their turns in the event loop (endpoint.realtime, _watch_session).
ComponentsFairness ==
  /\ WF_outboxVars(part = "outbox" /\ Pass(Relay))
  /\ WF_realtimeVars(part = "realtime" /\ Endpoint) /\ WF_realtimeVars(part = "realtime" /\ WatchSession)

ComponentsSpec == ComponentsInit /\ [][ComponentsNext]_componentsVars /\ ComponentsFairness

\* The types of the variables of the component that moves; the others are as they
\* start, which is a state of their own parts as well.
ComponentsTypeOK ==
  CASE part = "outbox" -> OutboxTypeOK [] part = "realtime" -> RealtimeTypeOK
    [] part = "readmodel" -> ReadModelTypeOK [] part = "profiles" -> ProfilesTypeOK
    [] part = "identity" -> IdentityTypeOK [] part = "versions" -> VersionsTypeOK
    [] part = "batch" -> BatchTypeOK [] part = "rules" -> RulesTypeOK
    [] part = "yahoo" -> YahooTypeOK [] part = "universe" -> UniverseTypeOK
    [] part = "figures" -> FiguresTypeOK [] part = "schema" -> SchemaTypeOK
================================================================================
