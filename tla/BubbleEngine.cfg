\* 4 x 3 board, two colours, one random row, two shots and a layer.
CONSTANTS
    gbRows = 4
    gbCols = 3
    gbShooterY = 110
    InitRows = 1
    red = red
    blue = blue
    Color <- TwoColors
    Empty = Empty
    Points <- SomePoints
    MaxShots = 2
    MaxLayers = 2
SPECIFICATION BubbleSpec
SYMMETRY ColorSymmetry
INVARIANTS
    BubbleTypeOK
PROPERTIES
    NothingHangsInAir
    MatchesAreCleared
    OnlyTheUnheldFall
    LayersLoseNoBubble
CHECK_DEADLOCK FALSE
