CONSTANTS
  Messages <- MCCommands
  Command = Command
  None = None
  Delays = {0, 2}
  TickMod = 4
  IndexMod = 4
  MaxItems = 3
SPECIFICATION Spec
INVARIANT CommandsAreKept
