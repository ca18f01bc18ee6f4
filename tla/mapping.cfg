SPECIFICATION Spec
CONSTANTS
  MaxButton = 8
  RELEASE <- IntMin
  switch = switch
  contact = contact
  Switches = {switch}
  Contacts = {contact}
  MaxCommands = 4
  MaxLines = 3
  Events <- AllEvents
  Files <- DocumentedFiles
INVARIANTS TypeOK FirstLineDecides EchoAnswersPress
CHECK_DEADLOCK FALSE
