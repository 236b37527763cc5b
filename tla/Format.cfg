SPECIFICATION Spec
CONSTANTS
  Items <- MCItems
  MaxItems = 3
  IntBytes = 1
  LongBytes = 2
  Numbers <- MCNumbers
  Texts <- MCTexts
  Sizes = {0, 5}
  SPRINTF_UNLIMITED = 1000
INVARIANTS PrintsWhatIsAsked StaysInBuffer ReadsBack
CHECK_DEADLOCK FALSE
