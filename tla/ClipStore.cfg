\* Two goroutines record two images and a text while two collections and the
\* edits run; room for one image, a cap of one or two entries.
SPECIFICATION Spec
CONSTANTS
    t = t
    i1 = i1
    i2 = i2
    Texts = {t}
    Images = {i1, i2}
    Writer = {w1, w2}
    w1 = w1
    w2 = w2
    g1 = g1
    g2 = g2
    Collector = {g1, g2}
    MaxImages = 1
    Caps = {1, 2}
    NoContent = NoContent
    MaxOp = 5
SYMMETRY Symmetry
INVARIANTS
    TypeOK
    DanglingIsExplained
PROPERTIES
    PinsAndNewestSurvive
CHECK_DEADLOCK FALSE
