\* Two workers and the page, every kind of fault, a `seen` list of one entry.
SPECIFICATION Spec
CONSTANTS
    a = a  b = b  c = c  w1 = w1  w2 = w2  g1 = g1
   Nodes = {a, b}
   Workers = {w1, w2}
   Pages = {g1}
   Foreign = {}
   Poison = {}
   Rejected = {}
   Created <- CreatedStamps
   Now = 4
   SeenLimit = 1
   MaxRetries = 2
   RepostEvery = 1
   PageLimit = 2
   MaxFaults = 3
   NoProc = NoProc
   NoNode = NoNode
INVARIANTS
   TypeOK
   FlushedIsOnDisk
   NoUnexcusedRerun
   NoReportLost
   SeenIsAccountedFor
PROPERTIES
   DebtLeavesOnlyPaid
   Promise
SYMMETRY WorkerSymmetry
