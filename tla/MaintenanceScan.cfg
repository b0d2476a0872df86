\* A scan of one document or one vault while two requests run on a ledger with one review.
CONSTANTS
    ada = ada
    ben = ben
    docA = docA
    ca = ca
    cc = cc
    src = src
    People = {ada, ben}
    Vaults = {ada, ben}
    Docs = {docA}
    Claims = {ca, cc}
    Dois = {doi}
    q0 = q0
    doi = doi
    Requests = {q0, q1, q2}
    Earlier = {q0}
    Drafts <- MCDrafts
    Submissions <- MCSubmissions
    Scopes = {docA, ada}
    DocOf <- MCDocOf
    OwnerOf <- MCOwnerOf
    Text <- MCText
    Approved = {ca}
    Suggested = {}
    Retired = {cc}
    Old = {ca}
    ByAgent = {ca}
    Synthesised = {}
    Outdated = {src}
    ImportedBy <- MCImportedBy
    Batch = 1
    Scans = {scan1}
    Clicks = {k1, k2}
SPECIFICATION Spec
SYMMETRY RequestSymmetry
CHECK_DEADLOCK FALSE
INVARIANTS
    SignaturesAreTheAuthors
    ScanIsBracketed
PROPERTY
    ClosedButForStaleClicks
