SPECIFICATION Spec
CONSTANTS
  Names = {a, b}
  None = None
  Shapes <- TheShapes
  Blocks <- TheBlocks
  Coords <- TheCoords
  Radii = {1, 2}
  Widths = {1, 2, 3, 4}
  Colour <- TheColour
SYMMETRY Symmetry
INVARIANTS PixelsAreThere EveryBlockHasOneOwner LinesAreBands BitmapHoldsRows
PROPERTIES ImagesAreValues
CHECK_DEADLOCK FALSE
