\* Two request threads, two activities of one second; the server stays up.
SPECIFICATION Spec
CONSTANTS
   t1 = t1  t2 = t2
   Threads = {t1, t2}
   MaxNames = 2
   Tries = 2
   MaxRestarts = 0
   MaxRefused = 1
SYMMETRY ThreadSymmetry
INVARIANTS
   RecordsAreTrue
PROPERTIES
   RecordsStay
