CONSTANTS
  DashLetter <- MCDashLetter
  IntOf <- MCIntOf
  Words <- OrderWords
  MaxWords = 6

SPECIFICATION ArgsSpec

INVARIANT ParsedAsSpecified
