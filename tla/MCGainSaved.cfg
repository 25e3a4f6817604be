SPECIFICATION Spec
CONSTANTS
  None = None
  Clients = {c1, c2}
  Daemons = {d1, d2}
  Ports = {p1, p2}
  Slots = 1
  Settings <- AllSettings
  Default <- NoSettings
  Changes <- AllChanges
  Gains <- AllGains
INVARIANT GainSaved
