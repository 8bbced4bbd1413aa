-------------------------------- MODULE Schema --------------------------------
(***************************************************************************)
(* The database: its tables as the migrations make them, the triggers that *)
(* keep what is stored, and the rights of the roles.  Roles come before or *)
(* after the migrations, and a database goes up in steps of any size.      *)
(*                                                                         *)
(*   migrations/versions/*.py                                              *)
(*   packages/va-platform/src/va_platform/db/ddl.py                        *)
(*   src/db/migrate.py, db/init/01_roles.sh                                *)
(*                                                                         *)
(* Columns, keys and indexes are left out.  va_scoring stands for the      *)
(* three services' roles, which differ in their schema only.               *)
(***************************************************************************)
EXTENDS Integers, Sequences

CONSTANTS Revisions,    \* bound: where an upgrade may end
          Watched       \* bound: the tables that may hold the one row looked at

VARIABLES
  revision,    \* of Alembic
  tables,      \* as <<schema, name>>
  protected,   \* those with the triggers of protect_table
  roles,       \* login roles
  rights,      \* granted, as <<role, table, right>>
  defaults,    \* ALTER DEFAULT PRIVILEGES, as <<role, schema, right>>
  bare,        \* roles just made, without their rights yet
  row          \* one row: its table, and what became of it

schemaVars == <<revision, tables, protected, roles, rights, defaults, bare, row>>

Named(schema, names) == {schema} \X names
In(schemas, S) == {t \in S : t[1] \in schemas}
Outbox(schemas) == schemas \X {"outbox"}

\* SCHEMAS, UPDATABLE_TABLES and MUTABLE_TABLES.
AppSchemas == {"batch", "market_data", "scoring", "reporting"}
Updatable == {<<"batch", "run">>, <<"market_data", "fetch_run">>, <<"market_data", "instrument">>}
Mutable == {<<"web", "run_status">>}

------------------------------------------------------------------------------
(* Rights.  finish: UPDATE of the columns of a run's end; publish: of        *)
(* published_at.                                                             *)

Grant(role, S, what) == {role} \X S \X what

\* grant_statements, with the default privileges for tables to come.
GrantApp(schemas, S) ==
  Grant("va_app", In(schemas, S), {"select", "insert"}) \cup Grant("va_app", Updatable, {"update"})
    \cup Grant("va_read", In(schemas, S), {"select"})
DefaultsApp(schemas) == Grant("va_app", schemas, {"select", "insert"}) \cup Grant("va_read", schemas, {"select"})

GrantOutbox(schemas) == Grant("va_app", Outbox(schemas), {"publish"})

GrantProfiles ==
  Grant("va_profiles", Named("scoring", {"profile", "profile_version", "profile_activation"}), {"select"})
    \cup Grant("va_profiles", Named("scoring", {"profile_version", "profile_activation"}), {"insert"})

GrantWeb(S) ==
  Grant("va_web", In({"web"}, S), {"select", "insert"}) \cup Grant("va_web", Mutable, {"update"})
    \cup Grant("va_web", Outbox({"web"}), {"publish"}) \cup Grant("va_read", In({"web"}, S), {"select"})

GrantWebRun == Grant("va_web", {<<"batch", "run">>}, {"select", "insert", "finish"})

GrantIdentity(S) ==
  Grant("va_identity", In({"identity"}, S), {"select", "insert"})
    \cup Grant("va_identity", Outbox({"identity"}), {"publish"})

GrantService(S) ==
  Grant("va_scoring", In({"scoring"}, S), {"select", "insert"})
    \cup Grant("va_scoring", In({"scoring"}, Updatable), {"update"})
    \cup Grant("va_scoring", Outbox({"scoring"}), {"publish"})
DefaultsService == Grant("va_scoring", {"scoring"}, {"select", "insert"})

------------------------------------------------------------------------------
(* The migrations: the tables each makes (op.create_table), those it names to *)
(* protect_table, and the rights it gives.                                   *)

Makes(S, guarded, grants) == [makes |-> S, protects |-> guarded, gives |-> grants, of |-> {t[1] : t \in S}]

RunTables == {<<"batch", "run">>, <<"market_data", "fetch_run">>, <<"market_data", "instrument">>,
              <<"reporting", "report">>, <<"scoring", "scoring_run">>}
LogTables == Named("batch", {"run_log", "import_file"})
FetchTables == Named("market_data",
  {"universe_member", "raw_info", "statement_value", "fx_rate", "fundamental_snapshot"})
ResultTables == {<<"reporting", "delivery">>, <<"scoring", "factor_score">>, <<"scoring", "score_result">>}

\* TABLES of 0001.
InitialTables ==
  Named("batch", {"run", "run_log", "import_file"})
    \cup Named("market_data", {"instrument", "fetch_run", "universe_member", "raw_info", "statement_value",
                               "fx_rate", "fundamental_snapshot"})
    \cup Named("scoring", {"scoring_run", "score_result", "factor_score"})
    \cup Named("reporting", {"report", "delivery"})

IdentityTables_Short == Named("identity",
  {"user_account", "user_profile_version", "user_status", "password_credential", "session", "session_seen",
   "login_event", "inbox", "outbox"})

\* TABLES of 0015.
IdentityTables == Named("identity",
  {"user_account", "user_profile_version", "user_status", "password_credential", "session", "session_seen",
   "session_revocation", "login_event", "inbox", "outbox"})

M0001 == Makes(RunTables \cup LogTables \cup FetchTables \cup ResultTables, InitialTables, {"app"})
M0002 == Makes({<<"market_data", "consensus_snapshot">>}, {<<"market_data", "consensus_snapshot">>}, {"app"})
M0003 == Makes({<<"market_data", "share_count">>}, {<<"market_data", "share_count">>}, {"app"})
M0004 == Makes({<<"market_data", "price_bar">>}, {<<"market_data", "price_bar">>}, {"app"})
M0005 == Makes({}, {}, {})
M0006 == Makes(Named("scoring", {"profile", "profile_version", "profile_activation"}),
               Named("scoring", {"profile", "profile_version", "profile_activation"}), {"app"})
M0007 == Makes({}, {}, {})
M0008 == Makes({}, {}, {"profiles"})
M0009 == Makes(AppSchemas \X {"outbox", "inbox"}, AppSchemas \X {"outbox", "inbox"}, {"app", "outbox"})
M0010 == Makes(Named("web", {"run_status", "ranking_row", "inbox", "outbox"}),
               Named("web", {"inbox", "outbox", "run_status", "ranking_row"}), {"web"})
M0011 == Makes({<<"web", "run_request">>}, {<<"web", "run_request">>}, {"web", "web_run"})
M0012 == Makes(Named("web", {"snapshot_row", "ranking_run"}), Named("web", {"snapshot_row", "ranking_run"}), {"web"})
M0013 == Makes({<<"scoring", "input_snapshot">>}, {<<"scoring", "input_snapshot">>}, {"app"})
M0014 == Makes({}, {}, {"service"})
M0015 == Makes(Named("identity", {"user_account", "user_profile_version", "user_status", "password_credential",
                                  "session", "session_seen", "session_revocation", "login_event",
                                  "inbox", "outbox"}), IdentityTables, {"identity"})
M0016_NoGrant ==
  Makes(Named("web", {"ranking_profile", "ranking_factor"}), Named("web", {"ranking_profile", "ranking_factor"}), {})
M0016 ==
  Makes(Named("web", {"ranking_profile", "ranking_factor"}), Named("web", {"ranking_profile", "ranking_factor"}), {"web"})

Migrations == <<M0001, M0002, M0003, M0004, M0005, M0006, M0007, M0008,
                M0009, M0010, M0011, M0012, M0013, M0014, M0015, M0016>>

ASSUME SchemaAssumption == Revisions \subseteq 1..Len(Migrations)

Given(grant, schemas, S) ==
  CASE grant = "app" -> GrantApp(schemas, S)
    [] grant = "outbox" -> GrantOutbox(schemas)
    [] grant = "profiles" -> GrantProfiles
    [] grant = "web" -> GrantWeb(S)
    [] grant = "web_run" -> GrantWebRun
    [] grant = "identity" -> GrantIdentity(S)
    [] grant = "service" -> GrantService(S)

GivenDefaults(grant, schemas) ==
  CASE grant = "app" -> DefaultsApp(schemas) [] grant = "service" -> DefaultsService [] OTHER -> {}

\* Only to roles that exist: a grant to another one does nothing.
ToExisting(S) == {g \in S : g[1] \in roles}

\* One migration, its tables guarded by protect_table.  New tables first get the default privileges of their schema.
Migrate(db, m) ==
  LET S == db.tables \cup m.makes
      new == UNION {Grant(d[1], In({d[2]}, m.makes), {d[3]}) : d \in db.defaults}
  IN [tables |-> S,
      protected |-> db.protected \cup m.protects,
      rights |-> db.rights \cup new \cup ToExisting(UNION {Given(g, m.of, S) : g \in m.gives}),
      defaults |-> db.defaults \cup ToExisting(UNION {GivenDefaults(g, m.of) : g \in m.gives})]

\* The database after the migrations up to revision n.
Migrated(n) ==
  LET db[k \in revision..n] ==
        IF k = revision
        THEN [tables |-> tables, protected |-> protected, rights |-> rights, defaults |-> defaults]
        ELSE Migrate(db[k - 1], Migrations[k])
  IN db[n]

\* Upgrade: all migrations up to a revision, in one transaction.
Upgrade(n) ==
  /\ n > revision
  /\ revision' = n
  /\ LET db == Migrated(n)
     IN tables' = db.tables /\ protected' = db.protected /\ rights' = db.rights /\ defaults' = db.defaults
  /\ UNCHANGED <<roles, bare, row>>

------------------------------------------------------------------------------
(* Roles.                                                                    *)

OptionalRoles == {"va_profiles", "va_web", "va_identity", "va_scoring"}

\* The revision that knows the role.
Since == [va_app |-> 1, va_read |-> 1, va_profiles |-> 8, va_web |-> 10, va_scoring |-> 14, va_identity |-> 15]

\* 01_roles.sh, in an empty database: the optional roles only with a password.
SchemaInit ==
  /\ revision = 0
  /\ tables = {} /\ protected = {} /\ rights = {} /\ defaults = {} /\ bare = {}
  /\ \E more \in SUBSET OptionalRoles : roles = {"va_app", "va_read"} \cup more
  /\ row = <<>>

\* ensure_login_role: committed before its rights are.
CreateRole(r) ==
  /\ r \in OptionalRoles \ roles /\ Since[r] <= revision
  /\ roles' = roles \cup {r} /\ bare' = bare \cup {r}
  /\ UNCHANGED <<revision, tables, protected, rights, defaults, row>>

\* The second half of ensure_profiles_role and its like, at any start.
GrantRole(r) ==
  /\ r \in OptionalRoles \cap roles /\ Since[r] <= revision
  /\ rights' = rights \cup CASE r = "va_profiles" -> GrantProfiles
                             [] r = "va_web" -> GrantWeb(tables) \cup IF revision < 11 THEN {} ELSE GrantWebRun
                             [] r = "va_identity" -> GrantIdentity(tables)
                             [] r = "va_scoring" -> GrantService(tables)
  /\ defaults' = IF r = "va_scoring" THEN defaults \cup DefaultsService ELSE defaults
  /\ bare' = bare \ {r}
  /\ UNCHANGED <<revision, tables, protected, roles, row>>

------------------------------------------------------------------------------
(* Statements.                                                               *)

Clients == roles \cup {"owner"}
May(r, t, what) == r = "owner" \/ <<r, t, what>> \in rights

InsertRow(r, t) ==
  /\ row = <<>> /\ t \in tables \cap Watched
  /\ May(r, t, "insert")
  /\ row' = <<t, "stored">>
  /\ UNCHANGED <<revision, tables, protected, roles, rights, defaults, bare>>

Becomes(t, state) ==
  /\ row' = <<t, state>>
  /\ UNCHANGED <<revision, tables, protected, roles, rights, defaults, bare>>

\* va_guard_finished, va_guard_instrument, va_guard_outbox: the one change a row of
\* these tables may see.
ClosesOnce(t) == t \in Updatable \/ t[2] = "outbox"
CloseRow(r, t) ==
  /\ row # <<>> /\ row[1] = t
  /\ \E what \in {"update", "finish", "publish"} : May(r, t, what)
  /\ t \notin protected \/ (ClosesOnce(t) /\ row[2] = "stored")
  /\ Becomes(t, IF row[2] = "stored" THEN "closed" ELSE "changed")

\* Any other update: va_no_update, and the same guards.
ChangeRow(r, t) ==
  /\ row # <<>> /\ row[1] = t
  /\ May(r, t, "update")
  /\ t \notin protected \/ t \in Mutable
  /\ Becomes(t, "changed")

\* va_no_delete, va_no_truncate.
DeleteRow(r, t) ==
  /\ row # <<>> /\ row[1] = t
  /\ May(r, t, "delete")
  /\ t \notin protected
  /\ Becomes(t, "gone")

------------------------------------------------------------------------------
SchemaNext ==
  \/ \E n \in Revisions : Upgrade(n)
  \/ \E r \in OptionalRoles : CreateRole(r) \/ GrantRole(r)
  \/ \E r \in Clients, t \in Watched : InsertRow(r, t) \/ CloseRow(r, t) \/ ChangeRow(r, t) \/ DeleteRow(r, t)

SchemaSpec == SchemaInit /\ [][SchemaNext]_schemaVars

------------------------------------------------------------------------------
(* Properties.                                                               *)

SchemaTypeOK ==
  /\ revision \in 0..Len(Migrations)
  /\ protected \subseteq tables
  /\ bare \subseteq roles /\ roles \subseteq OptionalRoles \cup {"va_app", "va_read"}
  /\ \A g \in rights : g[1] \in roles /\ g[2] \in tables
  /\ \A d \in defaults : d[1] \in roles
  /\ row # <<>> => row[1] \in tables /\ row[2] \in {"stored", "closed", "changed", "gone"}

\* The table of the roles in docs/architecture/datenhaltung.md, at a revision.
Documented(r) ==
  CASE r = "va_app" -> GrantApp(AppSchemas, tables) \cup GrantOutbox(AppSchemas)
    [] r = "va_read" -> Grant(r, {t \in tables : t[1] # "identity"}, {"select"})
    [] r = "va_profiles" -> GrantProfiles
    [] r = "va_web" -> GrantWeb(tables) \cup IF revision < 11 THEN {} ELSE GrantWebRun
    [] r = "va_identity" -> GrantIdentity(tables)
    [] r = "va_scoring" -> GrantService(tables)

\* In whatever order roles and tables came into being, and wherever a start broke
\* off: no role has a right that is not in the documentation (nobody but va_identity
\* reads identity, va_read writes nothing), and each has all of them for all tables
\* there are, but for one made by a start that has not yet given it its rights.
RightsAreAsDocumented ==
  \A r \in roles :
    LET has == {g \in rights : g[1] = r}
        due == IF Since[r] > revision THEN {} ELSE {g \in Documented(r) : g[1] = r /\ g[2] \in tables}
    IN has \subseteq due /\ (r \notin bare => due \subseteq has)

\* ddl.py: what is stored is never deleted or overwritten, not by the owner either.
\* A run ends once, an ISIN is added once, an event is published once; only
\* run_status, which the events give again, may change.
StoredStays ==
  row # <<>> => /\ row[2] # "gone"
                /\ row[2] = "changed" => row[1] \in Mutable
                /\ row[2] = "closed" => ClosesOnce(row[1])
==============================================================================
