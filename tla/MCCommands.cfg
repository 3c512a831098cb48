CONSTANTS
  Unknown = Unknown
  Nothing = Nothing
  CoreRules <- MCCoreRules
  DeviceRules <- MCDeviceRules
  Fields <- MCFields
  Indexes <- MCIndexes
  Positions <- MCPositions
  Numbers <- MCNumbers
  ClientPatches <- MCClientPatches
  Source <- MCSource
  CopyIndexes <- MCCopyIndexes
  CopyNumbers <- MCCopyNumbers
  MatchingNames <- MCMatchingNames
  CdaNames <- MCCdaNames
  Payloads <- MCPayloads
  MaxArguments = 5
SPECIFICATION MCSpec
INVARIANTS
  TargetsFitField
  ChangesWhatWasMeant
  CheckedIsAccepted
  TypedIsInstalled
  ReportTellsCopy
CHECK_DEADLOCK FALSE
