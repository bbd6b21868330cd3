SPECIFICATION DesktopSpec
CONSTANTS
  Drivers = {"plain", "nvidia", "grid"}
  XClients = {x1}
  Masks <- MCMasks
  GridMax = 2
  Layouts <- MCLayouts
  Codes = {"plain", "rfx", "h264"}
  Depths <- MCDepths
  StartSizes <- MCStartSizes
  MaxMonitors = 3
  Assisted = {"nvidia"}
  Slots = {0, 1}
  Pixmaps = {p1, p2}
  MaxCons = 2
  MaxScripts = 2
INVARIANTS DesktopTypeOK DesktopFollows OutputsShowMonitors ClientsKnowOutputs PixmapsCounted AssistKnowsMonitors
CONSTRAINT OneClientWithScripts
CHECK_DEADLOCK FALSE
SYMMETRY MCSymmetry
