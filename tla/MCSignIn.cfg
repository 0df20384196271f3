SPECIFICATION FairSpec
CONSTANTS
  Handlers = {h1, h2}
  Addresses = {four, six, outside}
  Nobody = Nobody
  Home = {four, six}
  ThisPC = {four, six}
  SharedSlots = 1
  HomeSlots = 1
  FreeAttempts = 0
  MaxTracked = 1
  AtStart = {0}
  MaxPasswords = 2
  MaxCommands = 1
INVARIANTS SignInSafety
PROPERTIES FirstSetupStays HomeIsAnswered
