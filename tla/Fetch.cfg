\* Pulls of one build, one after the other, over a host that breaks off and refuses.
SPECIFICATION Spec
CONSTANTS
   Processes = {p1, p2}
   Modes = {TRUE}
   Chunks = 3
   Attempts = 2
   MaxKept = 2
   MaxPulls = 3
   MaxFaults = 4
   None = None
SYMMETRY Perms
INVARIANTS
   PublishedIsSound

   
CHECK_DEADLOCK FALSE
