\* The same items and runs, one handler for each pipeline, one fault; a campaign
\* that needs one person, of three of whom one can be mailed, and a request of the user.
SPECIFICATION FairSourcing
CONSTANTS
    Gone = Gone
    Null = Null
    Dead = Dead
    i1 = i1
    i2 = i2
    a1 = a1
    a2 = a2
    r1 = r1
    r2 = r2
    h1 = h1
    h2 = h2
    firm = firm
    Items <- TwoItems
    Companies = {"acme"}
    CompanyOf <- OneCompany
    Agents = {a1}
    Budget = 3
    MaxAtWork = 1
    MaxFaults = 1
    EnrichmentRuns <- TwoRuns
    ResearchKeys = {firm}
    Wants <- BothWant
    AskedFirst = {r1}
    Handlers = {h1}
    MaxMishaps = 1
    c1 = c1
    e1 = e1
    Campaigns = {c1}
    Crowd = 3
    Reach <- LatecomerFirst
    Verified = {2, 3}
    Mailed = {3}
    Quota <- QuotaOfOne
    LastDay = 1
    Weekdays = {1}
    Cycles = {e1}
    PerPage = 1
    Batch = 1
    MaxPages = 2
    MaxStep = 1
    ThinDays = 2
    MaxFailures = 1
    MaxEdits = 1
INVARIANTS
    ExhaustedMeansSearched
    SearchFollowsTargeting
PROPERTIES
    ItemEnds
    ParkedItemIsWoken
    RunEnds
    ResearchSettles
    CampaignIsServed
\* A pipeline stops when all it has is at rest and the bounds are used up.
CHECK_DEADLOCK FALSE
