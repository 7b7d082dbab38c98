\* Two servers, the seed command and Alembic, with crashes.
SPECIFICATION Spec
CONSTANTS
  clients = "clients"
  users = "users"
  r1 = r1
  r2 = r2
  Replica = {r1, r2}
  Seeder = Seeder
  Key = {k1, k2, k3, k4}
  IssuerKey = {j1, j2, j3}
  Tables <- MCTables
  SeedOrder <- MCSeedOrder
  None = None
  Configurations <- MCConfigurations
SYMMETRY Symmetric
INVARIANTS TypeOK HeadMeansWhole LateStartersAgree PrintedKeyWorks
CHECK_DEADLOCK FALSE
