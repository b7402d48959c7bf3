CONSTANTS
    a = a
    b = b
    c = c
    i1 = i1
    i2 = i2
    None = None
    Keys <- MCKeys
    Items <- MCItems
    MAX_ITEMS = 2
    ORDER_BOUND = 6
SYMMETRY MCSymmetry
SPECIFICATION Spec
PROPERTY FIFOContract
