CONSTANTS
  Kid = "k1"
  GateOrder <- MCGateOrder
  Trusts <- MCTrusts
  DistributorTrusts = {"k1", "k2"}
  RuleSets = {"r1", "texts", "odd"}
  Content <- MCContent
  Ed25519Keys = {"k1", "k2"}
  Windows <- MCWindows
  Foreign <- MCForeign
  ChosenVersions = {1}
  MaxTime = 1
  MaxBundles = 2
  MaxRevocations = 1
  Commands = {"one", "two"}
  Versions = {1, 2}
  MaxCrashes = 1
  Capabilities = {"c1", "c2"}
  FleetOrder <- MCGateOrder
  MaxSigned = 3
  Objects = {"d1", "d2"}
  Grants = {"c1", "c2"}
  MaxBoots = 3
  MaxNonces = 2
  Readers = {"t1", "t2"}
  Wall = {0, 1, 2}
  MaxForwardJump = 1
  MaxReadings = 3
  MaxResets = 1
  Namespaces = {"demo", "lab"}
  Lasting = {"a1", "a2"}
  Lifetime = 1
  Days = {0, 1, 2}
  MaxIssued = 3
  Things = {"door", "gate"}
  Pointers = {"p1", "p2"}
  MaxDescribed = 3
  FieldOrder <- MCFieldOrder
  Values = {"x", "y"}
  Documents <- MCDocuments
  MaxShown = 2
SPECIFICATION Spec
INVARIANTS
  PartsTypeOK
  SameVersionSameRules
  GatesDecideForThemselves
  ReportHolds
  VerifiersAgree
  ConfirmedChangesSurvive
  PassMeansRevoked
  TrustedTimeGrows
  LookupsTellTruth
  DisclosuresProve
PROPERTIES
  NoSilentDowngrade
  RevokedForGood
  SimulatedIsOneShot
CHECK_DEADLOCK FALSE
