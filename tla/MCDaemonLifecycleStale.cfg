SPECIFICATION Spec
CONSTANTS
    d1 = d1
    d2 = d2
    d3 = d3
    c1 = c1
    c2 = c2
    g = g
    None = None
    Daemons = {d1, d2}
    Clients = {c1, g}
    Gui = {g}
PROPERTIES CleanedBeforeWait
CHECK_DEADLOCK FALSE
