\* One document, an update and a text written by another program; two sidecar writes
\* and one markdown write at a time, one operation that fails, two lives of the host.
SPECIFICATION Spec
CONSTANTS
    Edits = {e1}
    OutsideEdits = {x}
    SidecarWriters = {s1, s2}
    MarkdownWriters = {m1}
    MaxStarts = 2
    MaxFaults = 1
SYMMETRY WriterSymmetry
CHECK_DEADLOCK FALSE
INVARIANTS
    DamageOnlyByOverlap
    PromisedStays
    QuietDiskIsCurrent
PROPERTIES
    OnlyUnseenTextIsOverwritten
    SidecarIsDurable
