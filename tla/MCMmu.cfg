SPECIFICATION Spec
SYMMETRY AsidSymmetry
CONSTANTS
    Field = {0, 1}
    Tables <- TableSet
    Roots <- RootSet
    Asids = {a1, a2}
    TLB_SIZE = 2
    Pages <- TwoPages
    Updates <- TableUpdates
INVARIANTS TypeOK TlbCoherent FencedPagesFollowTables
