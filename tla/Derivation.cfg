SPECIFICATION TokenSpec
CONSTANTS
  Base = 2
  Words <- MCWords
INVARIANTS
  TokenTypeOK
  KeyIsAtWirePath
  AnswersUseOwnKey
