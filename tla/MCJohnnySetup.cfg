CONSTANTS
  Names <- MCNames
  Irregular <- MCIrregular
  Unreadable <- MCUnreadable
  MaxChanges = 2
SPECIFICATION FairSpec
INVARIANTS TypeOK ServesTheTree ServesWhatWasRead GoesWrongOnlyWhen
PROPERTY StartsUp
CHECK_DEADLOCK FALSE
