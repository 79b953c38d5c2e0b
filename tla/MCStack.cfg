CONSTANTS
    Values = {a, b, c}
    Holders = {h1}
    Arrays = {1, 2, 3}
    MaxLen = 3
    None = None
SPECIFICATION Spec
PROPERTY
    ImplementsList
