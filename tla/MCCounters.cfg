SPECIFICATION Spec
CONSTANTS
  Devices <- Machine
  Routes <- Ways
  Removable <- Usb
  Fields = {"bytes"}
  MinWindow = 2
  ReadFails = {"disk", "cpu"}
  Word = 1000
  MaxTicks = 3
  MaxMoves = 2
  MaxDrops = 1
INVARIANTS TypeOK RateTrue ShareIsPercent BusyIsReal
