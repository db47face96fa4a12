\* Two items of one company and two runs that ask for it, two handlers and one
\* fault each.
SPECIFICATION Pipelines
CONSTANTS
    Gone = Gone
    Null = Null
    Dead = Dead
    i1 = i1
    i2 = i2
    a1 = a1
    a2 = a2
    r1 = r1
    r2 = r2
    h1 = h1
    h2 = h2
    firm = firm
    Items <- TwoItems
    Companies = {"acme"}
    CompanyOf <- OneCompany
    Agents = {a1, a2}
    Budget = 3
    MaxAtWork = 2
    MaxFaults = 1
    EnrichmentRuns <- TwoRuns
    ResearchKeys = {firm}
    Wants <- BothWant
    AskedFirst = {r1}
    Handlers = {h1, h2}
    MaxMishaps = 1
SYMMETRY Alike
INVARIANTS
    DraftingTypeOK
    OneExecutionPerItem
    SingleFlight
    PacketIsReused
    DraftsRestOnTheirResearch
    ReservationsCoverOpenJobs
    PreparedBeforeComplete
PROPERTIES
    FinishedRunStays
    OnlyAScanRevivesACancelledRun
\* A pipeline stops when all it has is at rest and the bounds are used up.
CHECK_DEADLOCK FALSE
