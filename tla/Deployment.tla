----------------------------- MODULE Deployment -----------------------------
(***************************************************************************)
(* Starting, migrating and seeding.  Replicas of the server and the seed   *)
(* command boot through the same build_container: session secret, schema   *)
(* check, signing key.  Beside them an operator runs Alembic: Postgres     *)
(* runs a migration as one transaction, while the SQLite driver commits    *)
(* every CREATE and DROP by itself and the version row comes last.  Any    *)
(* process may die between two steps.                                      *)
(***************************************************************************)
EXTENDS Naturals, Sequences

CONSTANTS
  Replica, Seeder, \* the processes: servers, and the seed command
  Key,             \* signing keys
  IssuerKey,       \* keys of the demo assertion issuer
  Tables,          \* the tables, in the order in which upgrade creates them
  SeedOrder,       \* the tables that the seed command fills, in its order
  None,            \* absent
  Configurations   \* bound: the settings to deploy with

Settings == [localhost : BOOLEAN, defaultSecret : BOOLEAN, allowDemoSeed : BOOLEAN,
             keyPath : BOOLEAN, keyId : BOOLEAN, backend : {"memory", "sqlite", "postgresql"}]

Process == Replica \union {Seeder}
Table == {Tables[i] : i \in DOMAIN Tables}

ASSUME DeploymentAssumption ==
  /\ Configurations \subseteq Settings
  /\ Tables \in Seq(Table)
  /\ \A i, j \in DOMAIN Tables : Tables[i] = Tables[j] => i = j
  /\ SeedOrder \in Seq(Table)
  /\ \A i, j \in DOMAIN SeedOrder : SeedOrder[i] = SeedOrder[j] => i = j
  /\ Seeder \notin Replica
  /\ None \notin Key \union IssuerKey

VARIABLES
  settings,  \* Settings
  phase,     \* how far each process has come
  key,       \* the signing key that a process runs with
  file,      \* the key file: not there, empty, or a whole key
  tables,    \* the tables of the SQL database
  version,   \* alembic_version is at head
  migration, \* the Alembic command that is running, and the table it is at
  torn,      \* history: a downgrade was interrupted since the database is there
  rows,      \* the tables that hold the demo rows
  issuerKey, \* the key in the row of the demo issuer
  seed,      \* the table of SeedOrder that the seed command is at
  made,      \* the issuer key it generated
  lastRun,   \* history: the key that the last run printed, if it came to its end
  intact,    \* history: no table went since that run started
  late       \* history: the processes that started when the key file was settled

schema == <<tables, version, migration, torn>>
demo == <<rows, issuerKey, seed, made, lastRun, intact>>
booting == <<phase, key, file, late>>
vars == <<settings, booting, schema, demo>>

Empty == "empty"

TypeOK ==
  /\ settings \in Settings
  /\ phase \in [Process -> {"down", "schema", "keys", "create", "write", "ready"}]
  /\ key \in [Process -> Key \union {None}]
  /\ \A p \in Process : phase[p] = "ready" => key[p] \in Key
  /\ file \in Key \union {None, Empty}
  /\ tables \in SUBSET Table /\ version \in BOOLEAN
  /\ migration \in [command : {"none", "upgrade", "downgrade"}, at : 0 .. Len(Tables) + 1]
  /\ torn \in BOOLEAN
  /\ rows \in SUBSET Table
  /\ issuerKey \in IssuerKey \union {None}
  /\ seed \in 1 .. Len(SeedOrder) + 1
  /\ made \in IssuerKey \union {None} /\ lastRun \in IssuerKey \union {None}
  /\ intact \in BOOLEAN
  /\ late \in SUBSET Process

Idle == [command |-> "none", at |-> 0]

Init ==
  /\ settings \in Configurations
  /\ phase = [p \in Process |-> "down"] /\ key = [p \in Process |-> None]
  /\ file = None /\ late = {}
  /\ tables = {} /\ version = FALSE /\ migration = Idle /\ torn = FALSE
  /\ rows = {} /\ issuerKey = None /\ seed = 1 /\ made = None /\ lastRun = None
  /\ intact = FALSE

------------------------------------------------------------------------------
\* build_container, by process p.

\* Nobody is between finding no file and having written one.
Settled == file \in Key /\ \A p \in Process : phase[p] \notin {"create", "write"}

Goes(p, from, to) == phase[p] = from /\ phase' = [phase EXCEPT ![p] = to]

\* _check_session_secret.
SecretWillDo == settings.defaultSecret => settings.localhost

\* _demo_seed_refusal.
MaySeed == settings.localhost \/ settings.allowDemoSeed

Start(p) ==
  /\ Goes(p, "down", "schema")
  /\ SecretWillDo /\ (p = Seeder => MaySeed)
  /\ late' = IF Settled THEN late \union {p} ELSE late
  /\ IF p = Seeder THEN lastRun' = None /\ intact' = TRUE ELSE UNCHANGED <<lastRun, intact>>
  /\ UNCHANGED <<settings, key, file, schema, rows, issuerKey, seed, made>>

AtHead == settings.backend = "memory" \/ version

\* _build_repositories goes on if the schema is at head.
OpenStore(p) ==
  /\ AtHead
  /\ Goes(p, "schema", "keys")
  /\ UNCHANGED <<settings, key, file, late, schema, demo>>

\* Mutant: path.exists() is not asked.
NotAsked == TRUE

\* load_or_create_keypair, its first look.
NoFile == file = None

FindNoKey(p) ==
  /\ settings.keyPath /\ NoFile
  /\ Goes(p, "keys", "create")
  /\ UNCHANGED <<settings, key, file, late, schema, demo>>

\* Mutant: what the file holds is not parsed.
NotParsed == file # None

\* It holds a PEM.
HoldsKey == file \in Key

ReadKey(p) ==
  /\ settings.keyPath /\ HoldsKey
  /\ Goes(p, "keys", "ready")
  /\ key' = [key EXCEPT ![p] = file]
  /\ UNCHANGED <<settings, file, late, schema, demo>>

FreshKey == Key \ ({file} \union {key[p] : p \in Process})

\* No path: a key of its own.
MakeEphemeralKey(p) ==
  /\ ~settings.keyPath
  /\ Goes(p, "keys", "ready")
  /\ \E k \in FreshKey : key' = [key EXCEPT ![p] = k]
  /\ UNCHANGED <<settings, file, late, schema, demo>>

\* os.open with O_CREAT | O_TRUNC, whoever else may have written meanwhile ...
Truncate(p) ==
  /\ Goes(p, "create", "write")
  /\ file' = Empty
  /\ UNCHANGED <<settings, key, late, schema, demo>>

\* ... and os.write.
WriteKey(p) ==
  /\ Goes(p, "write", "ready")
  /\ \E k \in FreshKey : file' = k /\ key' = [key EXCEPT ![p] = k]
  /\ UNCHANGED <<settings, late, schema, demo>>

\* The end of process p, and of what it had in memory.
Ends(p) ==
  /\ phase' = [phase EXCEPT ![p] = "down"] /\ key' = [key EXCEPT ![p] = None]
  /\ late' = late \ {p}
  /\ IF p = Seeder THEN seed' = 1 /\ made' = None ELSE UNCHANGED <<seed, made>>

\* It is stopped, dies, or refuses to go on: the schema is not at head, a table to
\* seed is missing, or the key file is empty, which is no PEM.
Die(p) ==
  /\ phase[p] # "down" /\ Ends(p)
  /\ UNCHANGED <<settings, file, schema, rows, issuerKey, lastRun, intact>>

\* rsa_jwk_thumbprint: one for each key.
Thumbprint(k) == <<"thumbprint", k>>

\* The kid in the header of a token that p signs, and the document at /jwks of q.
Kid(p) == IF settings.keyId THEN <<"jwt_key_id">> ELSE Thumbprint(key[p])

Jwks(q) == [k \in {Kid(q)} |-> key[q]]

Verifies(p, q) == Kid(p) \in DOMAIN Jwks(q) /\ Jwks(q)[Kid(p)] = key[p]

------------------------------------------------------------------------------
\* Alembic: one revision, up or down.

Sql == settings.backend # "memory"

Upgrade ==
  /\ Sql /\ migration = Idle /\ ~version
  /\ IF settings.backend = "postgresql"
     THEN tables' = Table /\ version' = TRUE /\ UNCHANGED migration
     ELSE migration' = [command |-> "upgrade", at |-> 1] /\ UNCHANGED <<tables, version>>
  /\ UNCHANGED <<settings, booting, torn, demo>>

\* SQLite: a table that is there already ends the command.
CreateTable ==
  /\ migration.command = "upgrade" /\ migration.at \in DOMAIN Tables
  /\ IF Tables[migration.at] \in tables THEN migration' = Idle
     ELSE migration' = [migration EXCEPT !.at = @ + 1]
  /\ tables' = tables \union {Tables[migration.at]}
  /\ UNCHANGED <<settings, booting, version, torn, demo>>

\* Mutant: the version row is written first.
AnyTime == TRUE

\* The version row is written when every table is done.
AllTablesDone == migration.at = IF migration.command = "upgrade" THEN Len(Tables) + 1 ELSE 0

Stamp ==
  /\ migration.command # "none" /\ AllTablesDone
  /\ version' = (migration.command = "upgrade") /\ migration' = Idle
  /\ UNCHANGED <<settings, booting, tables, torn, demo>>

Downgrade ==
  /\ Sql /\ migration = Idle /\ version
  /\ IF settings.backend = "postgresql"
     THEN /\ tables' = {} /\ version' = FALSE /\ rows' = {} /\ intact' = FALSE
          /\ UNCHANGED migration
     ELSE /\ migration' = [command |-> "downgrade", at |-> Len(Tables)]
          /\ UNCHANGED <<tables, version, rows, intact>>
  /\ UNCHANGED <<settings, booting, torn, issuerKey, seed, made, lastRun>>

\* SQLite, in reverse order; a table that is not there ends the command.
DropTable ==
  /\ migration.command = "downgrade" /\ migration.at \in DOMAIN Tables
  /\ migration' = IF Tables[migration.at] \in tables THEN [migration EXCEPT !.at = @ - 1] ELSE Idle
  /\ tables' = tables \ {Tables[migration.at]}
  /\ rows' = rows \ {Tables[migration.at]}
  /\ intact' = FALSE
  /\ UNCHANGED <<settings, booting, version, torn, issuerKey, seed, made, lastRun>>

MigrationDies ==
  /\ migration # Idle /\ migration' = Idle
  /\ torn' = (torn \/ migration.command = "downgrade")
  /\ UNCHANGED <<settings, booting, tables, version, demo>>

\* just db-reset: the database file is deleted.
Reset ==
  /\ settings.backend = "sqlite" /\ migration = Idle
  /\ tables' = {} /\ version' = FALSE /\ torn' = FALSE
  /\ rows' = {} /\ intact' = FALSE
  /\ UNCHANGED <<settings, booting, migration, issuerKey, seed, made, lastRun>>

------------------------------------------------------------------------------
\* The seed command, once it has its container.

\* Mutant: save leaves a row that is there as it is.
InsertedKey(old, present, new) == IF present THEN old ELSE new

\* save: insert or update.
SavedKey(old, present, new) == new

\* save of a row: insert or update, and commit.  With memory:// the rows go into a
\* store that ends with the command.
Saved(t) == IF Sql THEN rows \union {t} ELSE rows

\* _run: it has its container.
Seeding == phase[Seeder] = "ready"

\* The rows of one table, which has to be there.
SaveRows ==
  /\ Seeding /\ seed \in DOMAIN SeedOrder /\ (Sql => SeedOrder[seed] \in tables)
  /\ seed' = seed + 1
  /\ rows' = Saved(SeedOrder[seed])
  /\ IF SeedOrder[seed] = "trusted_assertion_issuers"
     THEN \E k \in IssuerKey \ {issuerKey, made} :
            /\ made' = k
            /\ issuerKey' = IF Sql THEN SavedKey(issuerKey, SeedOrder[seed] \in rows, k)
                            ELSE issuerKey
     ELSE UNCHANGED <<made, issuerKey>>
  /\ UNCHANGED <<settings, booting, schema, lastRun, intact>>

\* _render, and the end of the process.
PrintKeys ==
  /\ Seeding /\ seed = Len(SeedOrder) + 1
  /\ lastRun' = made /\ Ends(Seeder)
  /\ UNCHANGED <<settings, file, schema, rows, issuerKey, intact>>

Boot(p) ==
  \/ Start(p) \/ OpenStore(p) \/ FindNoKey(p) \/ ReadKey(p) \/ MakeEphemeralKey(p)
  \/ Truncate(p) \/ WriteKey(p) \/ Die(p)

Migrate == Upgrade \/ CreateTable \/ Stamp \/ Downgrade \/ DropTable \/ MigrationDies \/ Reset

Next == (\E p \in Process : Boot(p)) \/ Migrate \/ SaveRows \/ PrintKeys

Spec == Init /\ [][Next]_vars

------------------------------------------------------------------------------
\* Properties.

\* What the check at boot stands on: a database at head has every table, whatever
\* migrations were interrupted and run again before, as long as none of them was
\* a downgrade.
HeadMeansWhole ==
  version /\ ~torn /\ migration.command # "downgrade" => tables = Table

\* Of the processes that start when the key file is settled, each publishes the
\* key that the others sign with, whoever else starts, dies or starts again: "a
\* verifier can pick the matching JWKS entry" (container.py).
LateStartersAgree ==
  \A p, q \in late :
    settings.keyPath /\ phase[p] = "ready" /\ phase[q] = "ready" => Verifies(p, q)

\* After a seed run that came to its end, until the next one starts and unless a
\* table went: every demo row is there, and the key it printed is the one the
\* server accepts.  (Not so with memory://.)
PrintedKeyWorks ==
  Sql /\ intact /\ lastRun # None =>
    issuerKey = lastRun /\ \A i \in DOMAIN SeedOrder : SeedOrder[i] \in rows
=============================================================================
