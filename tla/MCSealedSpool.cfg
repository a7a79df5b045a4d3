CONSTANTS
    i1 = i1
    w1 = w1
    w2 = w2
    k1 = k1
    k2 = k2
    p1 = p1
    p2 = p2
    d1 = d1
    d2 = d2
    NoWrite = NoWrite
    NoCheckout = NoCheckout
    Ids <- MCIds
    Writes <- MCWrites
    Controls <- MCControls
    Publishers <- MCPublishers
    Checkouts <- MCCheckouts
SPECIFICATION Spec
SYMMETRY MCSymmetry
INVARIANTS
    SpoolTypeOK
    SealedMeansComplete
    HeldCheckoutsAgree
PROPERTIES
    DecidesOnce
