\* Runs of the invoke route, a coordinator of two steps, two requests of reviewers.
SPECIFICATION FairTeamSpec
CONSTANTS
    p1 = p1
    q1 = q1
    q2 = q2
    s1 = s1
    s2 = s2
    t = t
    u = u
    Proposals = {p1}
    Requests = {q1, q2}
    Servers = {s1, s2}
    Tools = {t, u}
    SpecLists <- Lists
    Offers <- Offer
    MaxIterations = 2
    MaxUses = 2
    MaxSteps = 2
    MaxHandoffs = 2
    MaxFaults = 1
    MaxOutages = 1
CHECK_DEADLOCK FALSE
INVARIANTS
    ChainIsWhole
    OverturnedOnlyByRace
    ToolUseIsAccountedFor
    ServersEndWithTheRun
    ReportIsStored
PROPERTY
    EverythingEnds
