CONSTANTS
  format = format
  quality = quality
  default = default
  local = local
  broker = broker
  asked = asked
  old_cert = old_cert
  new_cert = new_cert
  None = None
  Fields <- TwoFields
  Values <- FourValues
  Default <- AllDefault
  Locals <- TwoLocals
  Peers <- SomePeers
  Requests <- TwoRequests
  Pin = old_cert
  Attempts = 3
  MaxStarts = 2
  MaxFaults = 2
SPECIFICATION FairSpec
INVARIANTS
  TypeOK
  OnlyPinned
  GivesUpOnlyAtFirst
  ServesAsConfigured
  ShotsAsAsked
PROPERTIES
  Rejoins
CHECK_DEADLOCK FALSE
