CONSTANTS
  DashLetter <- MCDashLetter
  IntOf <- MCIntOf
  Words <- AllWords
  MaxWords = 4

SPECIFICATION ArgsSpec

INVARIANT MalformedGivesUsage
