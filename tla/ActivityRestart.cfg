\* One request thread, two activities, and a server restarted twice.
SPECIFICATION FairSpec
CONSTANTS
   t1 = t1  t2 = t2
   Threads = {t1}
   MaxNames = 2
   Tries = 2
   MaxRestarts = 2
   MaxRefused = 1
INVARIANTS
   GateSeesWriters
PROPERTIES
   EndedIsSettled
