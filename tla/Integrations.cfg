\* One session in either host: two updates of a message and two failing calls,
\* two prompts, two compactions at any time and two faults of hooks.
SPECIFICATION HooksFairSpec
CONSTANTS
  Messages = {m}
  MaxUpdates = 2
  MaxFaults = 2
  AtStart = TRUE
  AfterCompact = TRUE
  MaxPrompts = 2
  MaxCompactions = 2
  MaxHookFaults = 2
INVARIANTS
  TypeOK
  TurnNotLost
PROPERTIES
  EveryTurnIsStored
  ImplementsAutoRecall
  NeverBlocks
CHECK_DEADLOCK FALSE
