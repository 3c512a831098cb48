CONSTANTS
  t1 = t1
  t2 = t2
  v1 = v1
  v2 = v2
  Threads <- MCThreads
  RuleIds <- MCOverlappingRuleIds
  Entries <- MCEntries
  TargetValues <- MCTargetValues
  Misfit = Misfit
  NoTarget = NoTarget
  Natures = {"management", "compression"}
  NoNamespace = NoNamespace
  Namespace <- MCNamespace
  NoTag = NoTag
  Offered <- MCOffered
  Digest <- MCDigest
  Undigest <- MCUndigest
  Nobody = Nobody
  NoRequest = NoRequest
  Initial <- MCInitial
  MaxGeneration = 3
SPECIFICATION FairSpec
INVARIANTS
  TypeOK
  ProtectedImmutable
  PublishedPrepared
  WritersSerialized
  GenerationIdentifiesContext
PROPERTIES
  ImplementsContextStore
  LockReleased
