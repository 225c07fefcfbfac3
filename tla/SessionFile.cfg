SPECIFICATION Spec
CONSTANTS
    w1 = w1
    w2 = w2
    i1 = i1
    i2 = i2
    i3 = i3
    i4 = i4
    NoInode = NoInode
    Writers <- TwoWriters
    Inodes <- FourInodes
    MaxVersion = 3
INVARIANTS
    TornOnlyByOverlap
PROPERTIES
    AtomicSpec
