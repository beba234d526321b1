\* One worker under fair scheduling, one node that never parses, one stop or switch-off.
SPECIFICATION FairSpec
CONSTANTS
    a = a  b = b  c = c  w1 = w1  w2 = w2  g1 = g1
   Nodes = {a, b}
   Workers = {w1}
   Pages = {g1}
   Foreign = {}
   Poison = {b}
   Rejected = {}
   Created <- CreatedStamps
   Now = 4
   SeenLimit = 2
   MaxRetries = 2
   RepostEvery = 1
   PageLimit = 2
   MaxFaults = 1
   NoProc = NoProc
   NoNode = NoNode
PROPERTIES
   EveryJobSettles
   EveryDebtIsPaid
