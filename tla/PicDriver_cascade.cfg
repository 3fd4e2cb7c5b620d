SPECIFICATION Spec
CONSTANTS
    vector_base = 32
    Lines <- MCLines
INVARIANTS UnmaskedArrives
