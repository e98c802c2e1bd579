SPECIFICATION Spec
CONSTANTS
    t1 = t1
    t2 = t2
    old = old
    new = new
    other = other
    e1 = e1
    Tabs = {t1, t2}
    EnvIds = {old, new, other}
    Current <- MCCurrent
    Events = {e1}
    Schedules <- MCSchedules
    None = None
    MaxPages = 4
SYMMETRY TabSymmetry
INVARIANTS TypeOK NoForeignStars ShownIsSaved
PROPERTIES ExitRestores
CHECK_DEADLOCK FALSE
