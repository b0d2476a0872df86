\* A document that is copied, written again and looked at again.
CONSTANTS
    Tabs = {t1, t2}
    Browsers = {home, work}
    Inputs = {u1}
    MaxBreaks = 1
    Ticks = {k1, k2}
    Unopened = 0
    MaxPerTick = 1
SPECIFICATION LifeSpec
SYMMETRY Symmetry
CHECK_DEADLOCK FALSE
PROPERTY
    WrittenIsSelected
