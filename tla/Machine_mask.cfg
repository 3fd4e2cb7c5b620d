SPECIFICATION MSpec
CONSTANTS
    vector_base = 32
    Lines <- MCLines
    h1 = h1
    h2 = h2
    none = none
INVARIANTS AllMasked
