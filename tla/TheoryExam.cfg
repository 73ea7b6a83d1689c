SPECIFICATION Spec
CONSTANTS
    t1 = t1
    t2 = t2
    root = root
    ops = ops
    Tabs = {t1, t2}
    Admins = {root, ops}
    right = right
    Choices = {right}
    Right = right
    Blank = Blank
    Missing = Missing
    RowIds = {i1, i2, i3}
    i1 = i1
    i2 = i2
    i3 = i3
    MaxSaves = 3
SYMMETRY Symmetry
INVARIANTS TypeOK SubmittedViewIsTrue DuplicatesNeedRepublish OneSaveSlipsIn
PROPERTIES StaysSubmitted
