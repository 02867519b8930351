SPECIFICATION Spec
CONSTANTS
    Shapes = {sh1}
    Codes = {c1, c2}
    Stages = {"TOUCH", "BREAK_UP"}
    Sides = {"HIGH"}
    Rungs = 2
    ChartCap = 7
    Others = {"watch"}
    MaxUpsets = 0
SYMMETRY SymmetricCodes
CHECK_DEADLOCK FALSE
PROPERTIES ChartOnce
