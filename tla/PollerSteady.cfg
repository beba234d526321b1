\* No kill, no forget, nothing evicted, and a page that is drawn meanwhile: what the
\* header of poller.py promises outright, and what the queue table says of it.
SPECIFICATION PageSpec
CONSTANTS
    a = a  b = b  c = c  w1 = w1  w2 = w2  g1 = g1
   Nodes = {a, b, c}
   Workers = {w1, w2}
   Pages = {}
   Foreign = {c}
   Poison = {}
   Rejected = {}
   Created <- CreatedStamps
   Now = 4
   SeenLimit = 3
   MaxRetries = 1
   RepostEvery = 0
   PageLimit = 3
   MaxFaults = 0
   NoProc = NoProc
   NoNode = NoNode
   Fields = {"state"}
   Tokens = {"available", "done"}
   Artifacts = {}
   Tests = {}
   States = {}
   DefaultLimit = 2
   MaxLimit = 3
   MaxDays = 1
   ApiNames <- MCNames
   Launch = "http://p"
   Platforms = {"qemu", "board"}
   Runtimes = {"lab", "other"}
   Bootable = "qemu"
   Lab = "lab"
   Typed <- MCTyped
   Age <- MCAge
   Offer <- MCOffer
   Offers <- MCOffers
   Asked <- MCAsked
INVARIANTS
   HandledIsLeftAlone
   EveryMarkIsExplained
   ButtonsDoWhatTheySay
PROPERTY
   CursorWaitsForBatch
SYMMETRY WorkerSymmetry
