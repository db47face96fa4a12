\* Two rows of one item, two bodies, three requests one after the other, and a
\* fault.
SPECIFICATION SendSpec
CONSTANTS
    q1 = q1
    q2 = q2
    b1 = b1
    b2 = b2
    r1 = r1
    NoRow = NoRow
    Items = {"item"}
    Rows <- TwoRows
    ItemOf <- RowsOfItem
    Bodies <- TwoBodies
    Requests = {r1}
    MaxRequests = 3
    MaxFaults = 1
SYMMETRY BodiesAlike
INVARIANTS
    OneSenderPerItem
    OneEmailPerItem
    SentRowsAreRecorded
\* The system stops when every row is settled and the bounds are used up.
CHECK_DEADLOCK FALSE
