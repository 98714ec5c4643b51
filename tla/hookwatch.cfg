\* Up to three times the shop, its owner, the network or the script interferes.
SPECIFICATION WatchSpec
CONSTANTS
    MaxTrouble = 3
INVARIANTS EachRunReports
PROPERTIES OnlyEnables EnabledAgain
CHECK_DEADLOCK FALSE
