CONSTANTS
  Texts <- MCTexts
  Star = "*"
  Starred = {"*", "door-*"}
  Glob <- MCGlob
  NoValue = NoValue
  KnownActions = {"open", "enter"}
  RequireKnown = FALSE
  MaxAge = 1
  Skew = 0
  KnownObligations = {"emitActionReceipt"}
  t1 = t1
  t2 = t2
  Callers = {t1, t2}
  RulePool <- MCRulePool
  TrustChoices = {{"own"}, {"own", "other"}}
  Requests <- MCRequests
  Capacity = 1
  EndOfTime = 1
  Dated <- MCDated
  MaxChanges = 2
  FirstRules <- MCFirstRules
  Names <- MCNames
  Matching <- MCMatching
  GoMatching <- MCGoMatching
  Decided <- MCDecided
  Grants <- MCGrants
  Narrowings <- MCNarrowings
  Tweaks <- MCTweaks
  Null = Null
  TrustedIssuers = {"issuer"}
  MaxLifetime = 3
  MaxCaps = 3
  MaxUses = 1
  LastTime = 1
  Writers = {t1, t2}
  Executors = {"arm"}
  u2 = u2
  u3 = u3
  Uses = {"u1", u2, u3}
  Obligations <- MCObligations
  Deeds <- MCDeeds
  Filters <- MCFilters
  Commitments = {"log"}
  AuditorTrusts = {{}, {"arm"}, {"stranger"}}
  MaxSigned = 3
  MaxCheckpoints = 1
  MaxRestores = 1
SPECIFICATION Spec
INVARIANTS
  AuthorizationTypeOK
  AnswersFollowPolicy
  StaticAnalysisSound
  ChildVerifies
  LinesNarrow
  RootStopsAll
  CapabilityVerifiersAgree
  EvidenceIsHistory
SYMMETRY Symmetry
CHECK_DEADLOCK FALSE
