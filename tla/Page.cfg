\* One build, an activity, a write by somebody else and a load the reader asks for.
SPECIFICATION FairTabSpec
CONSTANTS
    Builds = {b1}
    Slots = {s1}
    MaxActs = 1
    MaxWrites = 1
    MaxVisits = 1
CHECK_DEADLOCK FALSE
INVARIANTS NothingFromBefore TicksAreMeant
PROPERTY PageSettles
