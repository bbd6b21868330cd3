SPECIFICATION Spec
CONSTANTS
  Width <- MCWidth
  Height <- MCHeight
  Drawables <- MCDrawables
  Contexts <- MCContexts
  Rects <- MCRects
  Paths <- MCPaths
  Moves <- MCMoves
  Pictures <- MCPictures
  Bases <- MCBases
  MaxDraws = 1
INVARIANTS
  TypeOK
  EveryChangeIsReported
  VideoStaysInside
  ColourFromItsPlane
