CONSTANTS
    Times <- MCTimes
    Bad = Bad
    Broken = Broken
    MaxRows = 4
    Capacity = 2
    YieldEvery = 2
    Interval = 2
SPECIFICATION FairSpec
INVARIANTS RowsAccounted NeverEarly
PROPERTY BacktestEnds
CHECK_DEADLOCK FALSE
