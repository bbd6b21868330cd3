\* Every mode of capture, with drawing, overlays and rearranged monitors at any
\* moment.
SPECIFICATION Spec
CONSTANTS
  Width = 3
  Layouts <- MCLayouts
  Codes = {"simple", "a16", "a2", "pro"}
  TileWidth = 2
  Grid = 2
  MaxRects = 1
  Limits = {2, 3}
  Black = 0
  Colors = {0, 1}
  Blank = Blank
INVARIANTS
  TypeOK
  CleanIsShown
  FrameIntact
  ChecksumsAreShown
