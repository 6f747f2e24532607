CONSTANTS
 NoFlush = NoFlush
 RetainDays = 1
 MaxTotal = 4
 MaxDay = 4
 MaxCrashes = 1
SPECIFICATION TotalsSpec
INVARIANTS TotalsTypeOK
PROPERTY TotalsNeverFall
CHECK_DEADLOCK FALSE
