CONSTANTS
  v1 = v1
  v2 = v2
  NotSent = NotSent
  RuleIds <- MCRuleIds
  Entries <- MCEntries
  TargetValues <- MCTargetValues
  Misfit = Misfit
  NoTarget = NoTarget
  Natures = {"management", "compression"}
  NoNamespace = NoNamespace
  Namespace <- MCNamespace
  NoTag = NoTag
  Offered <- MCOffered
  Digest <- MCDigest
  Undigest <- MCUndigest
  Initial <- MCInitial
  Packets <- MCPackets
  Matches <- MCMatches
  Residue <- MCResidue
  Expand <- MCExpand
  Select <- MCSelect
  NoDelivery = NoDelivery
  MaxFrames = 1
  MaxChanges = 4
SPECIFICATION Spec
INVARIANTS
  RouteFollowsOrigin
  ManagementExact
  AlteredOnlyByRuleChange
  AgreedContextDecodes
