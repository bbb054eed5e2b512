CONSTANTS
  Messages <- MCMessages
  Command = Command
  None = None
  Delays = {0, 2}
  TickMod = 4
  IndexMod = 4
  MaxItems = 3
SPECIFICATION FairSpec
INVARIANTS
  TypeOK
  OnlyRacesSpoilTheList
  AppendEndsBeforeRemoval
PROPERTIES
  ProcessedInTurn
  DelayIsKept
  StateRequestIsAnswered
  MessagesAreHandled
