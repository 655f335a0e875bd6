CONSTANTS
    c1 = c1  c2 = c2  t1 = t1  t2 = t2  t3 = t3  t4 = t4
    t5 = t5  t6 = t6  t7 = t7  t8 = t8  t9 = t9  t10 = t10  kA = kA  kB = kB
    None = None
    TxId <- MCTxId
    Cond <- MCCond
    Body <- MCBody
    MaxBatch = 2
    MaxHeight = 2
    MaxCrashes = 1
CONSTRAINT HeightBound
SPECIFICATION Spec
INVARIANTS TypeOK NoDoubleSpend SpentIndexCoversChain
PROPERTY AbstractSpec
