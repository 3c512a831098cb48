SPECIFICATION Spec
CONSTANTS
  RuleIds <- MCRuleIds
  Entries <- MCEntries
  TargetValues <- MCTargetValues
  Misfit = Misfit
  NoTarget = NoTarget
  Natures <- MCNatures
  Namespace <- MCNamespace
  NoNamespace = NoNamespace
  NoTag = NoTag
  Offered <- MCOffered
  Initial <- MCInitial
  Digest <- MCDigest
  Undigest <- MCUndigest
  Packets <- MCPackets
  Matches <- MCMatches
  Residue <- MCResidue
  Expand <- MCExpand
  Select <- MCSelect
  FlowEntries <- MCFlowEntries
  Field <- MCField
  NoField = NoField
  HasPayload <- MCHasPayload
  Settable <- MCSettable
  WireBytes <- MCWireBytes
  NoFlow = NoFlow
  NoOutcome = NoOutcome
  NoDestination = NoDestination
  MaxChanges = 1
INVARIANT
  InspectedOnce
