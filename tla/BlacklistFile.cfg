CONSTANTS
    Writers = {w1, w2, w3}
    Versions = {v1, v2}
    NoFile = nofile
    Partial = partial
SPECIFICATION Spec
INVARIANTS
    NoPartialDocument
    AckedIsListed
