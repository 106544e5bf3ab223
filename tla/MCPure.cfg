SPECIFICATION PureSpec
CONSTANTS
    Radix = 3
    Padded = 9
    Width = 2
    Names = {"id", "name"}
    MaxColumns = 2
    P = 19
    Largest = 3
    MaxRows = 3
    Columns <- MCColumns
    Groups <- MCGroups
    Values <- MCValues
    Fits <- MCFits

INVARIANTS NamesCompare SortedByName Recreatable TypeOK Inv AnsweredExactly RefusedWhenTooLarge
\* Every subject comes to its end.
CHECK_DEADLOCK FALSE
