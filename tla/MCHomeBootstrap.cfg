SPECIFICATION Spec
CONSTANTS
    Container = {c1, c2}
    Dir = {d1, d2}
    NoDir = NoDir
    MaxKills = 2
SYMMETRY Symmetry
INVARIANTS TypeOK
PROPERTIES FreshHomeUsable HomeOwnershipKept StartupFilesKept
