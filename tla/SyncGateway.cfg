\* Two clients of one document, one edit, one change of the access list or a token that
\* runs out, one fault; two reads of a heartbeat may be under way.
SPECIFICATION FairSpec
CONSTANTS
    c1 = c1
    c2 = c2
    Conns = {c1, c2}
    Edits = {u1}
    Start <- StartC
    MaxLoads = 2
    MaxChanges = 1
    MaxFaults = 1
CHECK_DEADLOCK FALSE
INVARIANTS
    OneRoom
    NobodyLags
    OnlyWritersChangeTheBody
PROPERTIES
    AccessSettles
    Converges
