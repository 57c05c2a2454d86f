SPECIFICATION ControlSpec
CONSTANTS
  Packets = 2
  RetryLimit = 3
  NakLimit = 2
  ReadNakLimit = 1
  MaxMessages = 3
  MaxCommands = 3
  DataPackets = 3
INVARIANTS
  TypeOK
  LossesArePaidFor
  CommandsReadOnce
  ControlTypeOK
  RequestCarriedOut
PROPERTIES
  CallsReturn
