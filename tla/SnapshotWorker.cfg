\* Three tabs of two browsers: one to seed, one to hand on what IndexedDB kept, one to see
\* it; an edit, a restart or a broken socket; a tick, one document y-sweet knows nothing of
\* and a slice of one.
CONSTANTS
    Tabs = {t1, t2, t3}
    Browsers = {home, work}
    Inputs = {u1}
    MaxBreaks = 1
    Ticks = {k1}
    Unopened = 1
    MaxPerTick = 1
SPECIFICATION LifeSpec
SYMMETRY Symmetry
CHECK_DEADLOCK FALSE
INVARIANTS
    TemplateStartsOneTab
    ShownIsStored
    OnlyTheUnsentIsMissing
