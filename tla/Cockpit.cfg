\* Two scripts over one file, three cycles, one damage.
CONSTANTS
  Scripts = {s1, s2}
  Offered = {"native_act_paper_success", "broker_failure"}
  MaxCycles = 3
  MaxDamage = 1
  Failures = {"io", "torn", "fsync"}
SPECIFICATION CockpitSpec
SYMMETRY MCScripts
INVARIANTS
  TypeOK
  VerdictIsRight
  ViewsTellTheTruth
  ReplayAgreesWithTheChain
