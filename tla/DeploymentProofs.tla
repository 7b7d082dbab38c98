-------------------------- MODULE DeploymentProofs --------------------------
(***************************************************************************)
(* Proofs about Deployment, for any number of replicas, tables and keys    *)
(* and for every configuration (TLC: two replicas, three tables).  The     *)
(* invariant has a part for each actor: Alembic, the processes that boot,  *)
(* and the seed command.                                                   *)
(***************************************************************************)
EXTENDS Deployment, TLAPS

\* What a running migration has done, or a downgrade has not yet.
MigrationOK ==
  /\ migration.command = "upgrade" => ~version
  /\ migration.command = "upgrade" \/ (migration.command = "downgrade" /\ ~torn) =>
       \A i \in DOMAIN Tables :
         (migration.command = "upgrade" /\ i < migration.at)
           \/ (migration.command = "downgrade" /\ i <= migration.at) => Tables[i] \in tables
  /\ HeadMeansWhole

\* Once the key file is settled it stays so, and late starters run with its key.
KeysOK ==
  /\ late # {} => Settled
  /\ \A p \in late : phase[p] # "down"
  /\ \A p \in late : settings.keyPath /\ phase[p] = "ready" => key[p] = file

\* How far a seed run has come, and what is left of it when it is over.
SeedOK ==
  /\ phase[Seeder] # "ready" => seed = 1 /\ made = None
  /\ lastRun # None => phase[Seeder] = "down"
  /\ Sql /\ made # None => issuerKey = made
  /\ Sql /\ intact /\ phase[Seeder] = "ready" =>
       \A i \in DOMAIN SeedOrder : i < seed => SeedOrder[i] \in rows
  /\ PrintedKeyWorks

Inv == TypeOK /\ MigrationOK /\ KeysOK /\ SeedOK

------------------------------------------------------------------------------
\* Facts about the constants.

LEMMA TableFacts ==
  /\ Len(Tables) \in Nat /\ DOMAIN Tables = 1 .. Len(Tables)
  /\ \A i \in DOMAIN Tables : Tables[i] \in Table
  /\ \A x \in Table : \E i \in DOMAIN Tables : x = Tables[i]
  /\ Len(SeedOrder) \in Nat /\ DOMAIN SeedOrder = 1 .. Len(SeedOrder)
  /\ \A i \in DOMAIN SeedOrder : SeedOrder[i] \in Table
<1>1. Tables \in Seq(Table) /\ SeedOrder \in Seq(Table)
  BY DeploymentAssumption
<1> QED
  BY <1>1 DEF Table

------------------------------------------------------------------------------
\* Types.

\* The end of a process.
LEMMA EndsType ==
  ASSUME TypeOK, NEW p \in Process, Ends(p)
  PROVE  /\ phase' \in [Process -> {"down", "schema", "keys", "create", "write", "ready"}]
         /\ key' \in [Process -> Key \union {None}]
         /\ \A q \in Process : phase'[q] = "ready" => key'[q] \in Key
         /\ late' \in SUBSET Process
         /\ seed' \in 1 .. Len(SeedOrder) + 1 /\ made' \in IssuerKey \union {None}
  BY TableFacts DEF TypeOK, Ends

LEMMA BootType ==
  ASSUME TypeOK, NEW p \in Process, Boot(p)
  PROVE  TypeOK'
<1>1. CASE Start(p)
  BY <1>1 DEF TypeOK, Start, Goes, schema
<1>2. CASE OpenStore(p)
  BY <1>2 DEF TypeOK, OpenStore, Goes, schema, demo
<1>3. CASE FindNoKey(p)
  BY <1>3 DEF TypeOK, FindNoKey, Goes, schema, demo
<1>4. CASE ReadKey(p)
  BY <1>4 DEF TypeOK, ReadKey, HoldsKey, Goes, schema, demo
<1>5. CASE MakeEphemeralKey(p)
  BY <1>5 DEF TypeOK, MakeEphemeralKey, FreshKey, Goes, schema, demo
<1>6. CASE Truncate(p)
  BY <1>6 DEF TypeOK, Truncate, Goes, schema, demo
<1>7. CASE WriteKey(p)
  BY <1>7 DEF TypeOK, WriteKey, FreshKey, Goes, schema, demo
<1>8. CASE Die(p)
  BY <1>8, EndsType DEF TypeOK, Die, schema
<1> QED
  BY <1>1, <1>2, <1>3, <1>4, <1>5, <1>6, <1>7, <1>8 DEF Boot

LEMMA MigrateType ==
  ASSUME TypeOK, Migrate
  PROVE  TypeOK'
<1> DEFINE Migrations == [command : {"none", "upgrade", "downgrade"}, at : 0 .. Len(Tables) + 1]
<1>0. migration \in Migrations /\ Idle \in Migrations
  BY TableFacts DEF TypeOK, Idle
<1>1. CASE Upgrade
  <2>1. [command |-> "upgrade", at |-> 1] \in Migrations
    BY TableFacts
  <2>2. migration' \in Migrations /\ tables' \in SUBSET Table /\ version' \in BOOLEAN
    BY <1>1, <2>1, <1>0 DEF TypeOK, Upgrade
  <2> QED
    BY <1>1, <2>2 DEF TypeOK, Upgrade, booting, demo
<1>2. CASE CreateTable
  BY <1>2, TableFacts DEF TypeOK, CreateTable, Idle, booting, demo
<1>3. CASE Stamp
  BY <1>3, TableFacts DEF TypeOK, Stamp, Idle, booting, demo
<1>4. CASE Downgrade
  <2>1. [command |-> "downgrade", at |-> Len(Tables)] \in Migrations
    BY TableFacts
  <2>2. /\ migration' \in Migrations /\ tables' \in SUBSET Table /\ version' \in BOOLEAN
        /\ rows' \in SUBSET Table /\ intact' \in BOOLEAN
    BY <1>4, <2>1, <1>0 DEF TypeOK, Downgrade
  <2> QED
    BY <1>4, <2>2 DEF TypeOK, Downgrade, booting
<1>5. CASE DropTable
  <2>1. [migration EXCEPT !.at = @ - 1] \in Migrations
    BY <1>5, <1>0, TableFacts DEF DropTable
  <2>2. migration' \in Migrations
    BY <1>5, <2>1, <1>0 DEF DropTable
  <2>3. tables' \in SUBSET Table /\ rows' \in SUBSET Table
    BY <1>5 DEF TypeOK, DropTable
  <2> QED
    BY <1>5, <2>2, <2>3 DEF TypeOK, DropTable, booting
<1>6. CASE MigrationDies
  BY <1>6, TableFacts DEF TypeOK, MigrationDies, Idle, booting, demo
<1>7. CASE Reset
  BY <1>7 DEF TypeOK, Reset, booting
<1> QED
  BY <1>1, <1>2, <1>3, <1>4, <1>5, <1>6, <1>7 DEF Migrate

LEMMA NextType ==
  ASSUME TypeOK, [Next]_vars
  PROVE  TypeOK'
<1>1. CASE SaveRows
  <2>1. rows' \in SUBSET Table
    BY <1>1, TableFacts DEF TypeOK, SaveRows, Saved
  <2>2. seed' \in 1 .. Len(SeedOrder) + 1
    BY <1>1, TableFacts DEF TypeOK, SaveRows
  <2>3. made' \in IssuerKey \union {None} /\ issuerKey' \in IssuerKey \union {None}
    BY <1>1 DEF TypeOK, SaveRows, SavedKey
  <2> QED
    BY <1>1, <2>1, <2>2, <2>3 DEF TypeOK, SaveRows, booting, schema
<1>2. CASE PrintKeys
  BY <1>2, EndsType DEF TypeOK, PrintKeys, schema, Process
<1>3. CASE UNCHANGED vars
  BY <1>3 DEF TypeOK, vars, booting, schema, demo
<1> QED
  BY <1>1, <1>2, <1>3, BootType, MigrateType DEF Next

------------------------------------------------------------------------------
\* Alembic.

\* Nobody else touches the schema.
LEMMA OthersLeaveSchema ==
  ASSUME Next, ~Migrate
  PROVE  UNCHANGED schema
  BY DEF Next, Boot, Start, OpenStore, FindNoKey, ReadKey, MakeEphemeralKey, Truncate,
         WriteKey, Die, SaveRows, PrintKeys

LEMMA NextMigration ==
  ASSUME TypeOK, MigrationOK, [Next]_vars
  PROVE  MigrationOK'
<1>1. CASE UNCHANGED schema
  BY <1>1 DEF MigrationOK, HeadMeansWhole, schema
<1>2. CASE Upgrade
  BY <1>2, TableFacts DEF TypeOK, MigrationOK, HeadMeansWhole, Upgrade, Idle
<1>3. CASE CreateTable
  <2>1. \A i \in DOMAIN Tables : i < migration.at => Tables[i] \in tables
    BY <1>3 DEF MigrationOK, CreateTable
  <2>2. ~version /\ ~version' /\ tables' = tables \union {Tables[migration.at]}
    BY <1>3 DEF MigrationOK, CreateTable
  <2>3. migration' = Idle
          \/ migration' = [command |-> "upgrade", at |-> migration.at + 1]
    BY <1>3 DEF TypeOK, CreateTable
  <2>4. \A i \in DOMAIN Tables : i < migration.at + 1 => Tables[i] \in tables'
    BY <1>3, <2>1, <2>2, TableFacts DEF TypeOK
  <2> QED
    BY <2>2, <2>3, <2>4 DEF MigrationOK, HeadMeansWhole, Idle
<1>4. CASE Stamp
  <2>1. CASE migration.command = "upgrade"
    <3>1. \A i \in DOMAIN Tables : Tables[i] \in tables
      BY <1>4, <2>1, TableFacts DEF MigrationOK, Stamp, AllTablesDone
    <3>2. tables = Table
      BY <3>1, TableFacts DEF TypeOK
    <3> QED
      BY <1>4, <3>2 DEF MigrationOK, HeadMeansWhole, Stamp, Idle
  <2>2. CASE migration.command # "upgrade"
    BY <1>4, <2>2 DEF MigrationOK, HeadMeansWhole, Stamp, Idle
  <2> QED
    BY <2>1, <2>2
<1>5. CASE Downgrade
  <2>1. CASE settings.backend = "postgresql"
    BY <1>5, <2>1 DEF MigrationOK, HeadMeansWhole, Downgrade, Idle
  <2>2. CASE settings.backend # "postgresql"
    <3>1. /\ migration' = [command |-> "downgrade", at |-> Len(Tables)]
          /\ version /\ migration.command = "none" /\ UNCHANGED <<tables, version, torn>>
      BY <1>5, <2>2 DEF Downgrade, Idle
    <3>2. ~torn => \A i \in DOMAIN Tables : Tables[i] \in tables
      BY <3>1, TableFacts DEF MigrationOK, HeadMeansWhole
    <3> QED
      BY <3>1, <3>2 DEF MigrationOK, HeadMeansWhole
  <2> QED
    BY <2>1, <2>2
<1>6. CASE DropTable
  <2>1. /\ migration.command = "downgrade" /\ migration.at \in DOMAIN Tables
        /\ tables' = tables \ {Tables[migration.at]} /\ UNCHANGED <<version, torn>>
        /\ migration' = IF Tables[migration.at] \in tables
                        THEN [migration EXCEPT !.at = @ - 1] ELSE Idle
    BY <1>6 DEF DropTable
  <2>2. CASE torn
    BY <2>1, <2>2 DEF TypeOK, MigrationOK, HeadMeansWhole, Idle
  <2>3. CASE ~torn
    <3>1. \A i \in DOMAIN Tables : i <= migration.at => Tables[i] \in tables
      BY <2>1, <2>3 DEF MigrationOK
    <3>2. migration' = [command |-> "downgrade", at |-> migration.at - 1]
      BY <2>1, <3>1, TableFacts DEF TypeOK
    <3>3. \A i \in DOMAIN Tables : i <= migration.at - 1 => Tables[i] \in tables'
      BY <2>1, <3>1, TableFacts, DeploymentAssumption
    <3> QED
      BY <3>2, <3>3 DEF MigrationOK, HeadMeansWhole
  <2> QED
    BY <2>2, <2>3
<1>7. CASE MigrationDies
  BY <1>7 DEF TypeOK, MigrationOK, HeadMeansWhole, MigrationDies, Idle
<1>8. CASE Reset
  BY <1>8 DEF MigrationOK, HeadMeansWhole, Reset, Idle
<1> QED
  BY <1>1, <1>2, <1>3, <1>4, <1>5, <1>6, <1>7, <1>8, OthersLeaveSchema DEF Migrate, vars

------------------------------------------------------------------------------
\* Booting.

\* The end of a process takes it out of late and unsettles nothing.
LEMMA EndsKeys ==
  ASSUME TypeOK, KeysOK, NEW p \in Process, Ends(p), UNCHANGED <<settings, file>>
  PROVE  KeysOK'
  BY DEF TypeOK, KeysOK, Ends, Settled

\* Where nobody writes the file, nobody can begin to: it is there.
LEMMA NextKeys ==
  ASSUME TypeOK, KeysOK, [Next]_vars
  PROVE  KeysOK'
<1>1. ASSUME NEW p \in Process, Start(p) PROVE KeysOK'
  BY <1>1 DEF TypeOK, KeysOK, Start, Goes, Settled
<1>2. ASSUME NEW p \in Process, OpenStore(p) PROVE KeysOK'
  BY <1>2 DEF TypeOK, KeysOK, OpenStore, Goes, Settled
<1>3. ASSUME NEW p \in Process, FindNoKey(p) PROVE KeysOK'
  <2>1. ~Settled
    BY <1>3, DeploymentAssumption DEF FindNoKey, NoFile, Settled
  <2>2. late = {} /\ late' = {}
    BY <1>3, <2>1 DEF KeysOK, FindNoKey
  <2> QED
    BY <2>2 DEF KeysOK
<1>4. ASSUME NEW p \in Process, ReadKey(p) PROVE KeysOK'
  BY <1>4 DEF TypeOK, KeysOK, ReadKey, Goes, Settled
<1>5. ASSUME NEW p \in Process, MakeEphemeralKey(p) PROVE KeysOK'
  BY <1>5 DEF TypeOK, KeysOK, MakeEphemeralKey, Goes, Settled
<1>6. ASSUME NEW p \in Process, Truncate(p) PROVE KeysOK'
  <2>1. late = {} /\ late' = {}
    BY <1>6 DEF KeysOK, Truncate, Goes, Settled
  <2> QED
    BY <2>1 DEF KeysOK
<1>7. ASSUME NEW p \in Process, WriteKey(p) PROVE KeysOK'
  <2>1. late = {} /\ late' = {}
    BY <1>7 DEF KeysOK, WriteKey, Goes, Settled
  <2> QED
    BY <2>1 DEF KeysOK
<1>8. ASSUME NEW p \in Process, Die(p) PROVE KeysOK'
  BY <1>8, EndsKeys DEF Die
<1>9. CASE PrintKeys
  BY <1>9, EndsKeys DEF PrintKeys, Process
<1>10. CASE Migrate \/ SaveRows \/ UNCHANGED vars
  <2>1. UNCHANGED <<settings, booting>>
    BY <1>10 DEF Migrate, Upgrade, CreateTable, Stamp, Downgrade, DropTable, MigrationDies,
                 Reset, SaveRows, vars
  <2> QED
    BY <2>1 DEF KeysOK, Settled, booting
<1> QED
  BY <1>1, <1>2, <1>3, <1>4, <1>5, <1>6, <1>7, <1>8, <1>9, <1>10 DEF Next, Boot

------------------------------------------------------------------------------
\* Seeding.

\* A step of a server, or of the boot of the seed command, leaves the demo rows.
LEMMA BootSeed ==
  ASSUME TypeOK, SeedOK, NEW p \in Process, Boot(p)
  PROVE  SeedOK'
<1>1. Seeder \in Process
  BY DEF Process
<1>2. CASE Start(p)
  <2>1. CASE p = Seeder
    BY <1>1, <1>2, <2>1 DEF TypeOK, SeedOK, PrintedKeyWorks, Sql, Start, Goes
  <2>2. CASE p # Seeder
    BY <1>1, <1>2, <2>2 DEF TypeOK, SeedOK, PrintedKeyWorks, Sql, Start, Goes
  <2> QED
    BY <2>1, <2>2
<1>3. CASE Die(p)
  <2>1. CASE p = Seeder
    BY <1>1, <1>3, <2>1 DEF TypeOK, SeedOK, PrintedKeyWorks, Sql, Die, Ends
  <2>2. CASE p # Seeder
    BY <1>1, <1>3, <2>2 DEF TypeOK, SeedOK, PrintedKeyWorks, Sql, Die, Ends
  <2> QED
    BY <2>1, <2>2
<1>4. ASSUME NEW from \in {"schema", "keys", "create", "write"},
             NEW to \in {"keys", "create", "write", "ready"},
             Goes(p, from, to), UNCHANGED <<settings, demo>>
      PROVE  SeedOK'
  <2>1. phase[p] # "down" /\ phase[p] # "ready" /\ phase' = [phase EXCEPT ![p] = to]
    BY <1>4 DEF Goes
  <2>2. UNCHANGED <<settings, rows, issuerKey, seed, made, lastRun, intact>>
    BY <1>4 DEF demo
  <2>3. CASE p = Seeder
    <3>1. seed = 1 /\ made = None /\ lastRun = None /\ phase'[Seeder] # "down"
      BY <1>1, <2>1, <2>3 DEF TypeOK, SeedOK
    <3>2. \A i \in DOMAIN SeedOrder : ~(i < seed)
      BY <3>1, TableFacts
    <3> QED
      BY <2>2, <3>1, <3>2 DEF SeedOK, PrintedKeyWorks, Sql
  <2>4. CASE p # Seeder
    BY <1>1, <2>1, <2>2, <2>4 DEF TypeOK, SeedOK, PrintedKeyWorks, Sql
  <2> QED
    BY <2>3, <2>4
<1> QED
  BY <1>2, <1>3, <1>4
  DEF Boot, OpenStore, FindNoKey, ReadKey, MakeEphemeralKey, Truncate, WriteKey

\* A migration that takes rows away ends what the last run promised.
LEMMA MigrateSeed ==
  ASSUME TypeOK, SeedOK, Migrate
  PROVE  SeedOK'
<1>1. UNCHANGED <<settings, phase, issuerKey, seed, made, lastRun>>
  BY DEF Migrate, Upgrade, CreateTable, Stamp, Downgrade, DropTable, MigrationDies, Reset,
         booting, demo
<1>2. UNCHANGED <<rows, intact>> \/ ~intact'
  BY DEF Migrate, Upgrade, CreateTable, Stamp, Downgrade, DropTable, MigrationDies, Reset, demo
<1> QED
  BY <1>1, <1>2 DEF SeedOK, PrintedKeyWorks, Sql

LEMMA NextSeed ==
  ASSUME TypeOK, SeedOK, [Next]_vars
  PROVE  SeedOK'
<1>1. Seeder \in Process
  BY DEF Process
<1>2. CASE SaveRows
  <2>1. /\ phase[Seeder] = "ready" /\ seed \in DOMAIN SeedOrder /\ seed' = seed + 1
        /\ rows' = (IF Sql THEN rows \union {SeedOrder[seed]} ELSE rows)
        /\ UNCHANGED <<settings, phase, lastRun, intact>>
    BY <1>2 DEF SaveRows, Seeding, Saved, booting
  <2>2. lastRun = None
    BY <2>1 DEF SeedOK
  <2>3. Sql /\ made' # None => issuerKey' = made'
    BY <1>2 DEF SeedOK, SaveRows, SavedKey
  <2>4. Sql /\ intact => \A i \in DOMAIN SeedOrder : i < seed + 1 => SeedOrder[i] \in rows'
    BY <2>1, TableFacts DEF TypeOK, SeedOK
  <2> QED
    BY <2>1, <2>2, <2>3, <2>4 DEF SeedOK, PrintedKeyWorks, Sql
<1>3. CASE PrintKeys
  <2>1. /\ phase[Seeder] = "ready" /\ seed = Len(SeedOrder) + 1
        /\ lastRun' = made /\ seed' = 1 /\ made' = None
        /\ phase' = [phase EXCEPT ![Seeder] = "down"]
        /\ UNCHANGED <<settings, rows, issuerKey, intact>>
    BY <1>3 DEF PrintKeys, Seeding, Ends
  <2>2. phase'[Seeder] = "down"
    BY <1>1, <2>1 DEF TypeOK
  <2>3. Sql /\ intact => \A i \in DOMAIN SeedOrder : SeedOrder[i] \in rows
    BY <2>1, TableFacts DEF SeedOK
  <2> QED
    BY <2>1, <2>2, <2>3 DEF SeedOK, PrintedKeyWorks, Sql
<1>4. CASE UNCHANGED vars
  BY <1>4 DEF SeedOK, PrintedKeyWorks, Sql, vars, booting, demo
<1> QED
  BY <1>2, <1>3, <1>4, BootSeed, MigrateSeed DEF Next

------------------------------------------------------------------------------
\* The invariant holds in every reachable state.
THEOREM InvHolds == Spec => []Inv
<1>1. Init => Inv
  <2>1. ASSUME Init PROVE TypeOK
    <3>1. /\ settings \in Settings /\ 1 \in 1 .. Len(SeedOrder) + 1
          /\ Idle \in [command : {"none", "upgrade", "downgrade"}, at : 0 .. Len(Tables) + 1]
      BY <2>1, TableFacts, DeploymentAssumption DEF Init, Idle
    <3> QED
      BY <2>1, <3>1 DEF Init, TypeOK
  <2>2. ASSUME Init PROVE MigrationOK
    BY <2>2 DEF Init, MigrationOK, HeadMeansWhole, Idle
  <2>3. ASSUME Init PROVE KeysOK
    BY <2>3 DEF Init, KeysOK
  <2>4. ASSUME Init PROVE SeedOK
    BY <2>4 DEF Init, SeedOK, PrintedKeyWorks, Process
  <2> QED
    BY <2>1, <2>2, <2>3, <2>4 DEF Inv
<1>2. Inv /\ [Next]_vars => Inv'
  BY NextType, NextMigration, NextKeys, NextSeed DEF Inv
<1> QED
  BY <1>1, <1>2, PTL DEF Spec

\* Every variable keeps its type.
THEOREM TypeCorrect == Spec => []TypeOK
<1>1. Inv => TypeOK
  BY DEF Inv
<1> QED
  BY <1>1, InvHolds, PTL

\* A database at head is whole unless a downgrade of it was interrupted.
THEOREM HeadIsWhole == Spec => []HeadMeansWhole
<1>1. Inv => HeadMeansWhole
  BY DEF Inv, MigrationOK
<1> QED
  BY <1>1, InvHolds, PTL

\* Processes that start after the key file is settled agree, however many.
THEOREM LateStartersPublishOneKey == Spec => []LateStartersAgree
<1>1. ASSUME Inv, NEW p \in late, NEW q \in late,
             settings.keyPath, phase[p] = "ready", phase[q] = "ready"
      PROVE  Verifies(p, q)
  <2>1. key[p] = key[q]
    BY <1>1 DEF Inv, KeysOK
  <2>2. Kid(p) = Kid(q)
    BY <2>1 DEF Kid
  <2> QED
    BY <2>1, <2>2 DEF Verifies, Jwks
<1>2. Inv => LateStartersAgree
  BY <1>1 DEF LateStartersAgree
<1> QED
  BY <1>2, InvHolds, PTL

\* What a seed run printed works until the next one starts or a table goes.
THEOREM SeedingCompletes == Spec => []PrintedKeyWorks
<1>1. Inv => PrintedKeyWorks
  BY DEF Inv, SeedOK
<1> QED
  BY <1>1, InvHolds, PTL
=============================================================================
