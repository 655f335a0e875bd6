CONSTANTS
    kA = kA  kB = kB  kC = kC
    Key = {kA, kB, kC}
    None = None
    NoSig = NoSig
    Cond <- MCCond
    MaxSigns = 3
    MaxAdds = 1
SPECIFICATION Spec
PROPERTY SignFailureAtomic
