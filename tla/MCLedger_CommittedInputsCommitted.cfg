CONSTANTS
    c1 = c1  c2 = c2  t1 = t1  t2 = t2  t3 = t3  t4 = t4
    t5 = t5  t6 = t6  t7 = t7  t8 = t8  t9 = t9  t10 = t10  kA = kA  kB = kB
    None = None
    TxId <- MCTxIdCrash
    Cond <- MCCond
    Body <- MCBodyCrash
    MaxBatch = 2
    MaxHeight = 3
    MaxCrashes = 1
CONSTRAINT HeightBound
SPECIFICATION Spec
INVARIANT CommittedInputsCommitted
