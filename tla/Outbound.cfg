SPECIFICATION Spec
CONSTANTS
  Commands <- MCCommands
  Messages <- MCMessages
  Denials <- MCDenials
  Dispatched <- MCDispatched
  MaxFaults = 2
CHECK_DEADLOCK FALSE
INVARIANTS
  MarkSettles
  OneReplyEach
  OmissionIsNoticed
