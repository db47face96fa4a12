\* No fault is needed: one delivery, and a request that moves the row.
SPECIFICATION SendSpec
CONSTANTS
    q1 = q1
    q2 = q2
    b1 = b1
    b2 = b2
    r1 = r1
    NoRow = NoRow
    Items = {"item"}
    Rows <- OneRow
    ItemOf <- RowOfItem
    Bodies = {b1}
    Requests = {r1}
    MaxRequests = 2
    MaxFaults = 0
PROPERTIES
    SendingRowsAreLeftAlone
\* The system stops when every row is settled and the bounds are used up.
CHECK_DEADLOCK FALSE
