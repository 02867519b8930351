SPECIFICATION Spec
CONSTANTS
    Shapes = {sh1}
    Codes = {c1}
    Stages = {"TOUCH", "NEAR_BREAK", "RETEST", "BREAK_DOWN", "BREAK_UP"}
    Sides = {"HIGH", "LOW"}
    Rungs = 3
    ChartCap = 7
    Others = {}
    MaxUpsets = 0
CHECK_DEADLOCK FALSE
INVARIANTS SevenCharts
