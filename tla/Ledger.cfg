\* Three runs of one pair, apart or not, one fault, a result delivered twice; and the
\* pages of two tests over four builds.
SPECIFICATION Spec
CONSTANTS
   Runs <- MCRuns
   Builds = {1, 2, 3, 4}
   Tests = {1, 2}
   BuildOf <- MCBuildOf
   TestOf <- MCTestOf
   Clocks <- MCClocks
   Printed = {1, 2}
   Deliveries = 2
   MaxFaults = 1
   Damaged = Damaged
   None = None
   Lined <- MCLined
   Colours = 2
   Standing <- MCStanding
   Counted <- MCCounted
   Asked <- MCAsked
   Comparisons <- MCComparisons
INVARIANTS
   ReadersSeeWholeFiles
   NoteIsTrue
   TrendIsTrue
   DoorsOpenWhatTheyShow
PROPERTY
   HistoryIsKept
CHECK_DEADLOCK FALSE
