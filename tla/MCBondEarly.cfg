\* Three hosts, room for the bonds of two and for fewer CCCDs than they have
\* characteristics to subscribe to.
CONSTANTS
    Peers = {h1, h2, h3}
    Chars = {c1}
    MaxBonds = 2
    MaxCccds = 2
    MaxPairings = 1
    NoPeer = none
SYMMETRY MCSymmetry
SPECIFICATION Spec
INVARIANTS
    EarlierSubscriptionsStored
