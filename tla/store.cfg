SPECIFICATION FairSpec
CONSTANTS
  None = None
  ann = ann  ben = ben
  j1 = j1
  x = x  y = y
  a1 = a1  a2 = a2  b1 = b1
  Jobs = {j1}
  Keys = {x, y}
  Clients = {ann, ben}
  JobOf <- Wanted
  KeyOf <- Sent
  Acceptable = {ann, ben}
  Calls = {a1, a2, b1}
  ClientOf <- Owner
  PoolSize = 2
  MaxFaults = 2
INVARIANTS
  AckedIsDurable
  RefusalIsFinal
  EffectOnSeenVersion
  StartsAgain
  ViewIsOneVersion
  ResourcesComeBack
PROPERTIES
  ImplementsLedger
  ClientsAreSettled
  DrainEnds
