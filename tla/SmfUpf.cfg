SPECIFICATION Spec
CONSTANTS
  access = access
  anchor = anchor
  s1 = s1
  s2 = s2
  stranger = stranger
  Upfs = {access, anchor}
  Strangers = {stranger}
  Dnn = {access, anchor, stranger}
  PathTo <- Paths
  Sessions = {s1, s2}
  NoNode = NoNode
  NoSession = NoSession
  Orphan = Orphan
  FarMax = 10
  PdrMod = 8
  AddrMod = 2
  MaxCreate = 3
  MaxSeid = 6
  MaxAssoc = 3
INVARIANTS
  TypeOK
  RoutedBySeid
  RulesAccepted
  OnlyPdrIdsLost
  OwnAddress
  
VIEW Needed
SYMMETRY SessionSymmetry
CHECK_DEADLOCK FALSE
