SPECIFICATION FormatsSpec
CONSTANTS
  Base = 5
  Width = 2
  MaxPayload = 5
  KeyBytes <- MCKeyBytes
  ValueBytes <- MCValueBytes
  Raw <- MCRaw
  MaxMessages = 2
  Tables <- MCTables
  Probes <- MCProbes
  Logs <- MCLogs
  Damage <- MCDamage
  MaxErrors = 6
INVARIANTS
  ReadsWhatWasWritten
  CutLosesTheRest
  OnlyOversizedRefused
  RepliesFit
  LookupsRight
  ScanRight
  RecoversPrefix
  TruncationKnown
  IteratesWritten
CHECK_DEADLOCK FALSE
