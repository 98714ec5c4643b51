\* Every key with and without another text, both sides, five tables of groups.
SPECIFICATION LabelsSpec
CONSTANTS
    Holds <- MCHolds
    Names <- MCNames
    Tables <- MCTables
    Length <- MCLength
    Rank <- MCRank
    Take = 3
    Products <- MCProducts
INVARIANTS KeysTell CopiesAgree OwnFieldStays
CHECK_DEADLOCK FALSE
