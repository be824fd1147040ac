SPECIFICATION FairSpec
CONSTANTS
  Primary = primary
  Contexts = {c1}
  Handshake = handshake
INVARIANTS
  OrderlyExit
  ReadyIsMaintained
PROPERTIES
  ActivationServed
  TakeOver
  CloseStops
