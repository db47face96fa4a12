\* One row and one body that does everything, three requests, two faults; two
\* emails for one place in an inbox; a lead who writes twice; two to be probed.
SPECIFICATION Mail
CONSTANTS
    q1 = q1
    q2 = q2
    b1 = b1
    b2 = b2
    r1 = r1
    NoRow = NoRow
    Items = {"item"}
    Rows <- OneRow
    ItemOf <- RowOfItem
    Bodies = {b1}
    Requests = {r1}
    MaxRequests = 3
    MaxFaults = 2
    Emails = {1, 2}
    Failed = {2}
    Boxes = {1, 2}
    Days = {1, 2, 3}
    Cap = 1
    Planners = {p1, p2}
    MaxCalls = 2
    t1 = t1
    Inbounds = {1, 2}
    Bounces = {}
    Takers = {t1}
    Writers = {w1}
    MaxTurns = 1
    MaxTroubles = 1
    l1 = l1
    l2 = l2
    Leads = {l1, l2}
    Addresses <- TwoAndOne
    Verifiers = {v1, v2}
    MaxHitches = 1
INVARIANTS
    OneAnswerPerInbound
    NoFollowupToAnsweredLead
    OneProbePerCandidate
PROPERTIES
    EveryQueuedEmailSettles
    RecordedSendsLeaveTheQueue
    OverCapIsCorrected
    PlansFillInOrder
    EveryInboundIsSettled
\* The system stops when every row is settled and the bounds are used up.
CHECK_DEADLOCK FALSE
