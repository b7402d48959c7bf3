CONSTANTS
    None = None
    N = 5
    PageSizes = {1, 2, 3}
SPECIFICATION Spec
INVARIANT TypeOK
INVARIANT SeenInOrder
INVARIANT PageFullUnlessLast
PROPERTY CursorAdvances
