SPECIFICATION Spec
CONSTANTS
    None = None
    a = a
    b = b
    c = c
    Contents <- MCContents
    Size <- MCSize
    Requests = {r1, r2}
    Paths = {linux, windows}
    Tags = {t1, t2}
    MaxReplaced = 2
SYMMETRY Symmetry
INVARIANT DigestFitsFile
