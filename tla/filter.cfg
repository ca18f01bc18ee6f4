SPECIFICATION FilterSpec
CONSTANTS
  MaxButton = 2
  RELEASE <- IntMin
  withRelease = withRelease
  plain = plain
  door = door
  Switches = {withRelease, plain}
  Contacts = {door}
  Files <- OneFile
  Events <- RadioEvents
  MaxCommands = 6
  Receivers = {usb, proxy}
  Window = 3
  MaxSkew = 1
  MinGap = 2
  MaxTelegrams = 3
  MaxClock = 6
INVARIANTS FilterTypeOK PostedOnce NoCommandLost EchoAnswersHeard
PROPERTIES OneReceiverSpec
CHECK_DEADLOCK FALSE
