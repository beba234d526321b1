\* One run of a boot or of a suite of one selftest.
SPECIFICATION FairSpec
CONSTANTS
   s1 = s1  s2 = s2
   Selftests = {s1}
   MaxLines = 2
   MaxBeats = 1
   MaxPosts = 1
   MaxFaults = 2
INVARIANTS
   RecordIsTrue
   NeverGreenElsewhere
PROPERTIES
   EveryRunEnds
CHECK_DEADLOCK FALSE
