SPECIFICATION Spec
CONSTANTS
    Shapes = {sh1}
    Codes = {c1, c2}
    Stages = {"TOUCH", "BREAK_UP"}
    Sides = {"HIGH"}
    Rungs = 2
    ChartCap = 7
    Others = {"recheck"}
    MaxUpsets = 1
SYMMETRY SymmetricCodes
CHECK_DEADLOCK FALSE
INVARIANTS TypeOK MarkersFollowPosts RungsInOrder ClosedIsRetired
PROPERTIES OncePerLane
