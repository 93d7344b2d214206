SPECIFICATION Spec
CONSTANTS
    c0 = c0
    c1 = c1
    c2 = c2
    a = a
    Commit = {c0, c1, c2}
    Root = c0
    Work = {a}
    None = None
PROPERTIES
    EndedWithNothingLeft
