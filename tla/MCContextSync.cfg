CONSTANTS
  v1 = v1
  v2 = v2
  RuleIds <- MCRuleIds
  Entries <- MCEntries
  TargetValues <- MCTargetValues
  Misfit = Misfit
  NoTarget = NoTarget
  Natures = {"management", "compression"}
  NoNamespace = NoNamespace
  Namespace <- MCNamespace
  NoTag = NoTag
  Offered = {}
  Digest <- MCDigest
  Undigest <- MCUndigest
  Initial <- MCInitial
  NoCommand = NoCommand
  NoReport = NoReport
  NoFrame = NoFrame
  Modulus = 2
  Lifetime = 1
  MaxExchanges = 3
SPECIFICATION Spec
INVARIANTS
  TypeOK
  CorrelationSound
  OkUpdateAgrees
  CheckEqualSound
  UpdateNeverDiverges
  InSync
  RejectedNotApplied
PROPERTIES
  ReplayNeverReinstalls
