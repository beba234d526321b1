\* Two threads of the page's server, one of which may read outside a request.
SPECIFICATION Spec
CONSTANTS
   r1 = r1  r2 = r2
   Requests = {r1, r2}
   Want = 2
   PageSize = 1
   Ttls = {0, 2}
   MaxTtl = 2
   MaxCache = 2
   Budget = 1
   MaxRows = 3
   MaxNow = 2
   MaxServed = 2
   MaxFaults = 1
   Listings <- MCListings
   Windows <- MCWindows
   ArtifactKeys <- MCKeys
   Today = 9
   Tests <- MCTests
   Verdict <- MCVerdict
SYMMETRY Perms
INVARIANTS
   AnswerIsTheTail
   AgesAreKept
   ComparedIsSound
   FoundIsThere
CHECK_DEADLOCK FALSE
