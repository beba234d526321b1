\* Up to four commands, one after the other or two at a time, one death or refusal.
SPECIFICATION Spec
CONSTANTS
   b1 = b1
   b2 = b2
   b3 = b3
   Ids = {b1, b2, b3}
   Processes = {p1, p2}
   Commands <- MCCommands
   Overlapping <- MCOverlapping
   Modes = {TRUE, FALSE}
   ApiUrl <- MCApiUrl
   Keep = 1
   MaxCommands = 4
   MaxFaults = 1
   None = None
   Fields = {"tree", "state"}
   Tokens = {"next", "main", "done", "running"}
   Artifacts = {"kernel", "modules"}
   Tests = {"boot", "kselftest"}
   States = {"pulled", "unrecorded", "registered", "made-here", "empty"}
   DefaultLimit = 1
   MaxLimit = 2
   MaxDays = 2
   ApiNames <- MCNames
   Launch = "http://p"
   Dates <- MCDates
   Rank <- MCRank
   Facts <- MCFacts
   Texts <- MCTexts
   Said <- MCSaid
   RemoteHas <- MCHas
   Some = {"kernel"}
   Asked <- MCAsked
   Today = 3
   Catalogue <- MCCatalogue
   Needs <- MCNeeds
   KindOrder <- MCKindOrder
   Folded = {"table"}
   Shelves <- MCShelves
SYMMETRY Perms
INVARIANTS
   CardsAreThere
   ImagesAreKept
   LinksLeadWhereTheySay
   ButtonsGoThrough
PROPERTIES
   CardsStay
   PassMeansPulled
CHECK_DEADLOCK FALSE
