SPECIFICATION Spec
CONSTANTS
    a = a
    b = b
    Text = {a, b}
    MaxLine = 3
    MaxLength = 3
    None = None
SYMMETRY Symmetry
INVARIANTS
    CacheTransparent
    
