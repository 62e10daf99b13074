SPECIFICATION FairSpec
CONSTANTS
  Servers = {p1, p2}
  Migrators = {m1}
  Nobody = Nobody
  Other = Other
INVARIANTS TypeOK SchemaMatchesRecord ListensComplete
PROPERTIES StartupEnds
