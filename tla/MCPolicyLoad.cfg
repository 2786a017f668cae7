SPECIFICATION LookupSpec
CHECK_DEADLOCK FALSE
CONSTANTS
  AddressBits = 4
  Octets = 2
  Word <- MCWord
  Commas <- MCCommas
  Dots <- MCDots
  Slash <- MCSlash
  Number <- MCNumber
  Builtin <- MCBuiltin
  Files <- MCFiles
  Addresses <- MCAddresses
  Traffic <- MCTraffic
INVARIANTS
  BaseIsTyped
  OnlyWholeTextRuns
  LoadedIsDeclared
  LookupsFindTheBest
