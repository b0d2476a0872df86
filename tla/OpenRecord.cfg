\* Four publishes, each of which may fail, beside one load of the feed and one of a
\* page at a time; a page of one record, of two rows of each table.
SPECIFICATION RecordSpec
CONSTANTS
    p1 = p1
    p2 = p2
    p3 = p3
    p4 = p4
    ann = ann
    bob = bob
    k1 = k1
    k2 = k2
    k3 = k3
    Publishers = {p1, p2, p3, p4}
    Signers = {ann, bob}
    Keys = {k1, k2, k3}
    Request <- Requests
    Content <- Contents
    PageLimit = 1
    EntityLimit = 2
    ReviewLimit = 1
CHECK_DEADLOCK FALSE
INVARIANTS
    AtWorstForks
    ServedRecordsVerify
    VerdictIsFinal
    FeedIsCurrent
