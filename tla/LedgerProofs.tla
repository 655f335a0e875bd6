---------------------------- MODULE LedgerProofs ----------------------------
(***************************************************************************)
(* Proofs about the ledger of Ledger.tla, for every catalogue of           *)
(* transactions and every bound.                                           *)
(***************************************************************************)
EXTENDS Ledger, TLAPS

(***************************************************************************)
(* Lemmas on the transaction catalogue                                     *)
(***************************************************************************)

\* The links a transaction's inputs consume are links.
LEMMA SpentOutputsType ==
    ASSUME NEW t \in TxId
    PROVE  SpentOutputs(t) \subseteq Link
<1>1. Body[t] \in TxBody
  BY BodyAssumption
<1>2. \A j \in DOMAIN Body[t].inputs : Body[t].inputs[j] \in Input
  BY <1>1 DEF TxBody
<1>. QED
  BY <1>2 DEF SpentOutputs, LinkedInputs, Fulfills, Input

\* The links of a transaction's outputs are links.
LEMMA UnspentOutputsType ==
    ASSUME NEW t \in TxId
    PROVE  UnspentOutputs(t) \subseteq UtxoLink
<1>1. Body[t].outputs \in Seq(Output)
  BY BodyAssumption DEF TxBody
<1>. QED
  BY <1>1 DEF UnspentOutputs, UtxoLink

(***************************************************************************)
(* Type correctness                                                        *)
(***************************************************************************)

\* Every step keeps the types.
LEMMA TypeStep == TypeOK /\ [Next]_vars => TypeOK'
<1> SUFFICES ASSUME TypeOK, [Next]_vars PROVE TypeOK'
  OBVIOUS
<1>1. ASSUME NEW t \in TxId, DeliverTx(t) PROVE TypeOK'
  BY <1>1 DEF DeliverTx, TypeOK
<1>2. CASE EndBlock
  <2>1. [height |-> height + 1, txs |-> batch] \in PreCommit
    BY DEF TypeOK, PreCommit
  <2>. QED
    BY <1>2, <2>1 DEF EndBlock, StorePreCommitState, TypeOK, Phase
<1>3. CASE CommitTxs
  <2> DEFINE done == {batch[i] : i \in {i \in DOMAIN batch : \A k \in DupPos(batch) : i < k}}
  <2>1. done \subseteq TxId
    BY DEF TypeOK
  <2>2. InputRows(done) \subseteq SpentRow
    BY <2>1, SpentOutputsType DEF InputRows, SpentRow
  <2>. QED
    BY <1>3, <2>1, <2>2 DEF CommitTxs, StoreTransactions, TypeOK, Phase
<1>4. CASE CommitBlock
  <2>1. \A i \in DOMAIN batch : UnspentOutputs(batch[i]) \subseteq UtxoLink
    BY UnspentOutputsType DEF TypeOK
  <2>2. UtxoAfter(utxos, batch) \subseteq UtxoLink
    BY <2>1 DEF UtxoAfter, TypeOK
  <2>3. [height |-> height + 1, txs |-> batch] \in Block
    BY DEF TypeOK, Block
  <2>. QED
    BY <1>4, <2>2, <2>3 DEF CommitBlock, TypeOK, Phase
<1>5. CASE Crash
  BY <1>5 DEF Crash, TypeOK, Phase
<1>6. CASE Recover
  BY <1>6 DEF Recover, DeleteTransactions, TypeOK, Phase
<1>7. CASE UNCHANGED vars
  BY <1>7 DEF vars, TypeOK
<1>. QED
  BY <1>1, <1>2, <1>3, <1>4, <1>5, <1>6, <1>7 DEF Next

\* The store, the block in memory and the node's counters keep their types
\* in every reachable state.
THEOREM TypeCorrect == Spec => []TypeOK
<1>1. Init => TypeOK
  BY DEF Init, TypeOK, Block, Phase
<1>. QED
  BY <1>1, TypeStep, PTL DEF Spec

(***************************************************************************)
(* No double spend                                                         *)
(***************************************************************************)

\* get_spent's first disjunct: the rows of the spent index hold link l.
IndexedIn(rows, l) == \E r \in rows : r.link = l

Indexed(l) == IndexedIn(spentRows, l)

\* Every spend of a block of bl has its row among rows.
CoveredIn(bl, rows) ==
    \A b \in bl : \A k \in DOMAIN b.txs : \A j \in LinkedInputs(b.txs[k]) :
        IndexedIn(rows, Fulfills(b.txs[k], j))

\* Every spend of a committed block has its row in the spent index.
CoveredByIndex == CoveredIn(blocks, spentRows)

\* NoDoubleSpend over a set of blocks bl.
DistinctIn(bl) ==
    \A b1, b2 \in bl :
      \A k1 \in DOMAIN b1.txs, k2 \in DOMAIN b2.txs :
        \A j1 \in LinkedInputs(b1.txs[k1]), j2 \in LinkedInputs(b2.txs[k2]) :
           Fulfills(b1.txs[k1], j1) = Fulfills(b2.txs[k2], j2) =>
              b1 = b2 /\ k1 = k2 /\ j1 = j2

\* The spends of a block bt are not committed in any block of bl, and no two
\* of them consume the same link.
FreshIn(bt, bl) ==
    \A k \in DOMAIN bt : \A j \in LinkedInputs(bt[k]) :
      /\ \A b \in bl : \A k2 \in DOMAIN b.txs : \A j2 \in LinkedInputs(b.txs[k2]) :
            Fulfills(b.txs[k2], j2) # Fulfills(bt[k], j)
      /\ \A k2 \in DOMAIN bt : \A j2 \in LinkedInputs(bt[k2]) :
            Fulfills(bt[k2], j2) = Fulfills(bt[k], j) => k2 = k /\ j2 = j

\* The block being delivered is fresh with respect to the committed blocks.
BatchFresh == FreshIn(batch, blocks)

\* Once store_transactions went through, the block's spends are in rows.
CommittingIn(ph, bt, rows) ==
    ph = "committing" =>
        \A k \in DOMAIN bt : \A j \in LinkedInputs(bt[k]) :
            IndexedIn(rows, Fulfills(bt[k], j))

CommittingIndexed == CommittingIn(phase, batch, spentRows)

\* No block is above the committed height, so the next block's height is new.
HeightsBelow == \A b \in blocks : b.height <= height

IInv ==
    /\ TypeOK
    /\ CoveredByIndex
    /\ NoDoubleSpend
    /\ BatchFresh
    /\ CommittingIndexed
    /\ HeightsBelow

\* NoDoubleSpend is DistinctIn of the committed blocks, in every state.
LEMMA NoDoubleSpendDistinct ==
    /\ NoDoubleSpend <=> DistinctIn(blocks)
    /\ NoDoubleSpend' <=> DistinctIn(blocks')
BY DEF NoDoubleSpend, DistinctIn

\* The spends a transaction joining the block brings, as validation gives
\* them: the link is not indexed, no transaction of the block consumes it,
\* and no other input of the transaction does.
LEMMA DeliverFresh ==
    ASSUME TypeOK, NEW t \in TxId, Validate(t, batch),
           NEW j \in LinkedInputs(t)
    PROVE  /\ ~Indexed(Fulfills(t, j))
           /\ \A k2 \in DOMAIN batch : \A j2 \in LinkedInputs(batch[k2]) :
                 Fulfills(batch[k2], j2) # Fulfills(t, j)
           /\ \A j2 \in LinkedInputs(t) : Fulfills(t, j2) = Fulfills(t, j) => j2 = j
<1>1. Body[t].operation = "TRANSFER"
  BY BodyAssumption, NoneAssumption DEF LinkedInputs, Fulfills, TxBody
<1>2. ValidateTransferInputs(t, batch)
  BY <1>1 DEF Validate
<1>3. ~GetSpent(Fulfills(t, j), batch)
  BY <1>2 DEF ValidateTransferInputs, LinkedInputs, Fulfills
<1>4. \A j2 \in LinkedInputs(t) : j2 # j => Fulfills(t, j2) # Fulfills(t, j)
  BY <1>2 DEF ValidateTransferInputs, LinkedInputs, Fulfills
<1>. QED
  BY <1>3, <1>4 DEF GetSpent, Indexed, IndexedIn, SpentOutputs

\* The inductive invariant holds initially.
LEMMA IInvInit == Init => IInv
BY DEF Init, IInv, TypeOK, Block, Phase, CoveredByIndex, CoveredIn, NoDoubleSpend,
       BatchFresh, FreshIn, CommittingIndexed, CommittingIn, HeightsBelow, LinkedInputs

\* Adding rows to the spent index keeps every indexed spend indexed.
LEMMA CoveredMono ==
    ASSUME NEW bl, NEW r1, NEW r2, r1 \subseteq r2, CoveredIn(bl, r1)
    PROVE  CoveredIn(bl, r2)
BY DEF CoveredIn, IndexedIn

\* A new block whose spends are fresh keeps the committed spends distinct.
LEMMA DistinctAdd ==
    ASSUME NEW bl, NEW nb, DistinctIn(bl), FreshIn(nb.txs, bl)
    PROVE  DistinctIn(bl \cup {nb})
<1> SUFFICES ASSUME NEW b1 \in bl \cup {nb}, NEW b2 \in bl \cup {nb},
                    NEW k1 \in DOMAIN b1.txs, NEW k2 \in DOMAIN b2.txs,
                    NEW j1 \in LinkedInputs(b1.txs[k1]), NEW j2 \in LinkedInputs(b2.txs[k2]),
                    Fulfills(b1.txs[k1], j1) = Fulfills(b2.txs[k2], j2)
             PROVE  b1 = b2 /\ k1 = k2 /\ j1 = j2
  BY DEF DistinctIn
<1>1. CASE b1 \in bl /\ b2 \in bl
  BY <1>1 DEF DistinctIn
<1>2. CASE b1 = nb /\ b2 \in bl
  BY <1>2 DEF FreshIn
<1>3. CASE b1 \in bl /\ b2 = nb
  <2>1. k2 \in DOMAIN nb.txs /\ j2 \in LinkedInputs(nb.txs[k2])
    BY <1>3
  <2>2. \A b \in bl : \A k \in DOMAIN b.txs : \A j \in LinkedInputs(b.txs[k]) :
           Fulfills(b.txs[k], j) # Fulfills(nb.txs[k2], j2)
    BY <2>1 DEF FreshIn
  <2>3. Fulfills(b1.txs[k1], j1) # Fulfills(nb.txs[k2], j2)
    BY <1>3, <2>2
  <2>. QED
    BY <1>3, <2>3
<1>4. CASE b1 = nb /\ b2 = nb
  BY <1>4 DEF FreshIn
<1>. QED
  BY <1>1, <1>2, <1>3, <1>4

\* Every step keeps the inductive invariant.
LEMMA IInvStep == IInv /\ [Next]_vars => IInv'
<1> SUFFICES ASSUME IInv, [Next]_vars PROVE IInv'
  OBVIOUS
<1>0. TypeOK /\ TypeOK'
  BY TypeStep DEF IInv
<1>1. ASSUME NEW t \in TxId, DeliverTx(t) PROVE IInv'
  <2> USE <1>1 DEF DeliverTx
  <2>1. CoveredByIndex' /\ NoDoubleSpend' /\ CommittingIndexed' /\ HeightsBelow'
    <3>1. CoveredByIndex'
      BY DEF IInv, CoveredByIndex, CoveredIn, IndexedIn
    <3>2. NoDoubleSpend'
      BY DEF IInv, NoDoubleSpend
    <3>3. CommittingIndexed'
      BY DEF IInv, CommittingIndexed, CommittingIn
    <3>4. HeightsBelow'
      BY DEF IInv, HeightsBelow
    <3>. QED
      BY <3>1, <3>2, <3>3, <3>4
  <2>2. BatchFresh'
    <3> DEFINE bt == Append(batch, t)
    <3>0. Len(batch) \in Nat
      BY <1>0 DEF TypeOK
    <3>1. DOMAIN bt = 1..(Len(batch) + 1)
      BY <1>0 DEF TypeOK
    <3>2. \A i \in 1..Len(batch) : bt[i] = batch[i]
      BY <1>0 DEF TypeOK
    <3>3. bt[Len(batch) + 1] = t
      BY <1>0 DEF TypeOK
    <3>4. DOMAIN batch = 1..Len(batch)
      BY <1>0 DEF TypeOK
    <3>5. \A j2 \in LinkedInputs(t) :
             /\ ~Indexed(Fulfills(t, j2))
             /\ \A k2 \in DOMAIN batch : \A j3 \in LinkedInputs(batch[k2]) :
                   Fulfills(batch[k2], j3) # Fulfills(t, j2)
             /\ \A j3 \in LinkedInputs(t) : Fulfills(t, j3) = Fulfills(t, j2) => j3 = j2
      BY DeliverFresh, <1>0
    <3>6. \A j2 \in LinkedInputs(t) : \A b \in blocks : \A k2 \in DOMAIN b.txs :
             \A j3 \in LinkedInputs(b.txs[k2]) : Fulfills(b.txs[k2], j3) # Fulfills(t, j2)
      BY <3>5 DEF IInv, CoveredByIndex, CoveredIn, Indexed
    <3>7. FreshIn(batch, blocks)
      BY DEF IInv, BatchFresh
    <3>8. FreshIn(bt, blocks)
      <4> SUFFICES ASSUME NEW k \in DOMAIN bt, NEW j \in LinkedInputs(bt[k])
                   PROVE  /\ \A b \in blocks : \A k2 \in DOMAIN b.txs : \A j2 \in LinkedInputs(b.txs[k2]) :
                                Fulfills(b.txs[k2], j2) # Fulfills(bt[k], j)
                          /\ \A k2 \in DOMAIN bt : \A j2 \in LinkedInputs(bt[k2]) :
                                Fulfills(bt[k2], j2) = Fulfills(bt[k], j) => k2 = k /\ j2 = j
        BY DEF FreshIn
      <4>1. CASE k \in 1..Len(batch)
        <5>1. bt[k] = batch[k]
          BY <3>2, <4>1
        <5>2. \A b \in blocks : \A k2 \in DOMAIN b.txs : \A j2 \in LinkedInputs(b.txs[k2]) :
                 Fulfills(b.txs[k2], j2) # Fulfills(batch[k], j)
          BY <3>7, <3>4, <4>1, <5>1 DEF FreshIn
        <5>3. ASSUME NEW k2 \in DOMAIN bt, NEW j2 \in LinkedInputs(bt[k2]),
                     Fulfills(bt[k2], j2) = Fulfills(bt[k], j)
              PROVE  k2 = k /\ j2 = j
          <6>1. CASE k2 \in 1..Len(batch)
            BY <6>1, <5>3, <5>1, <3>2, <3>4, <3>7, <4>1 DEF FreshIn
          <6>2. CASE k2 = Len(batch) + 1
            BY <6>2, <5>3, <5>1, <3>3, <3>4, <3>5, <4>1
          <6>. QED
            BY <3>0, <3>1, <6>1, <6>2
        <5>. QED
          BY <5>1, <5>2, <5>3
      <4>2. CASE k = Len(batch) + 1
        <5>1. bt[k] = t
          BY <3>3, <4>2
        <5>2. ASSUME NEW k2 \in DOMAIN bt, NEW j2 \in LinkedInputs(bt[k2]),
                     Fulfills(bt[k2], j2) = Fulfills(bt[k], j)
              PROVE  k2 = k /\ j2 = j
          <6>1. CASE k2 \in 1..Len(batch)
            BY <6>1, <5>2, <5>1, <3>2, <3>4, <3>5
          <6>2. CASE k2 = Len(batch) + 1
            BY <6>2, <5>2, <5>1, <3>3, <3>5, <4>2
          <6>. QED
            BY <3>0, <3>1, <6>1, <6>2
        <5>. QED
          BY <5>1, <5>2, <3>6
      <4>3. k \in 1..Len(batch) \/ k = Len(batch) + 1
        BY <3>0, <3>1
      <4>. QED
        BY <4>1, <4>2, <4>3
    <3>. QED
      BY <3>8 DEF BatchFresh
  <2>. QED
    BY <1>0, <2>1, <2>2 DEF IInv
<1>2. CASE EndBlock
  <2>1. UNCHANGED <<spentRows, blocks, batch, height>> /\ phase' = "endblock"
    BY <1>2 DEF EndBlock
  <2>. QED
    BY <1>0, <2>1 DEF IInv, CoveredByIndex, NoDoubleSpend, BatchFresh,
                      CommittingIndexed, CommittingIn, HeightsBelow
<1>3. CASE CommitTxs
  <2> USE <1>3 DEF CommitTxs
  <2>1. spentRows \subseteq spentRows'
    BY DEF StoreTransactions
  <2>2. CoveredByIndex'
    BY <2>1, CoveredMono DEF IInv, CoveredByIndex
  <2>3. NoDoubleSpend' /\ HeightsBelow'
    BY DEF IInv, NoDoubleSpend, HeightsBelow
  <2>4. BatchFresh'
    <3>1. CASE DupPos(batch) = {}
      BY <3>1 DEF IInv, BatchFresh
    <3>2. CASE DupPos(batch) # {}
      <4>1. batch' = <<>>
        BY <3>2
      <4>. QED
        BY <4>1 DEF BatchFresh, FreshIn
    <3>. QED
      BY <3>1, <3>2
  <2>5. CommittingIndexed'
    <3> SUFFICES ASSUME phase' = "committing", NEW k \in DOMAIN batch',
                        NEW j \in LinkedInputs(batch'[k])
                 PROVE  IndexedIn(spentRows', Fulfills(batch'[k], j))
      BY DEF CommittingIndexed, CommittingIn
    <3>1. DupPos(batch) = {} /\ batch' = batch
      OBVIOUS
    <3>2. batch[k] \in {batch[i] : i \in {i \in DOMAIN batch : \A k2 \in DupPos(batch) : i < k2}}
      BY <3>1
    <3>3. Fulfills(batch[k], j) \in SpentOutputs(batch[k])
      BY <3>1 DEF SpentOutputs
    <3>4. [tx |-> batch[k], link |-> Fulfills(batch[k], j)] \in spentRows'
      BY <3>2, <3>3 DEF StoreTransactions, InputRows
    <3>. QED
      BY <3>1, <3>4 DEF IndexedIn
  <2>. QED
    BY <1>0, <2>2, <2>3, <2>4, <2>5 DEF IInv
<1>4. CASE CommitBlock
  <2> USE <1>4 DEF CommitBlock
  <2> DEFINE nb == [height |-> height + 1, txs |-> batch]
  <2>1. blocks' = blocks \cup {nb} /\ spentRows' = spentRows
    OBVIOUS
  <2>2. CoveredByIndex'
    <3>1. CoveredIn(blocks, spentRows)
      BY DEF IInv, CoveredByIndex
    <3>2. CommittingIn("committing", batch, spentRows)
      BY DEF IInv, CommittingIndexed
    <3>3. CoveredIn({nb}, spentRows)
      BY <3>2 DEF CoveredIn, CommittingIn
    <3>. QED
      BY <2>1, <3>1, <3>3 DEF CoveredByIndex, CoveredIn
  <2>3. NoDoubleSpend'
    <3>1. DistinctIn(blocks) /\ FreshIn(nb.txs, blocks)
      BY NoDoubleSpendDistinct DEF IInv, BatchFresh
    <3>2. DistinctIn(blocks \cup {nb})
      BY <3>1, DistinctAdd
    <3>. QED
      BY <2>1, <3>2, NoDoubleSpendDistinct
  <2>4. HeightsBelow'
    BY <1>0, <2>1 DEF IInv, HeightsBelow, TypeOK, Block
  <2>5. BatchFresh' /\ CommittingIndexed'
    BY DEF BatchFresh, FreshIn, CommittingIndexed, CommittingIn
  <2>. QED
    BY <1>0, <2>2, <2>3, <2>4, <2>5 DEF IInv
<1>5. CASE Crash
  <2>1. UNCHANGED <<spentRows, blocks, height>> /\ batch' = <<>> /\ phase' = "down"
    BY <1>5 DEF Crash
  <2>2. BatchFresh' /\ CommittingIndexed'
    BY <2>1 DEF BatchFresh, FreshIn, CommittingIndexed, CommittingIn
  <2>. QED
    BY <1>0, <2>1, <2>2 DEF IInv, CoveredByIndex, NoDoubleSpend, HeightsBelow
<1>6. CASE Recover
  <2>1. UNCHANGED <<spentRows, blocks, batch, height>> /\ phase' = "deliver"
    BY <1>6 DEF Recover, DeleteTransactions
  <2>. QED
    BY <1>0, <2>1 DEF IInv, CoveredByIndex, NoDoubleSpend, BatchFresh,
                      CommittingIndexed, CommittingIn, HeightsBelow
<1>7. CASE UNCHANGED vars
  BY <1>0, <1>7 DEF vars, IInv, CoveredByIndex, NoDoubleSpend, BatchFresh,
                    CommittingIndexed, HeightsBelow
<1>. QED
  BY <1>1, <1>2, <1>3, <1>4, <1>5, <1>6, <1>7 DEF Next

\* No two committed spends consume the same output, for every catalogue of
\* transactions and every bound: the spent index and the scan of the
\* current block in get_spent, with validate_transfer_inputs' distinct-links
\* check, rule out double spends across blocks, within a block and within a
\* transaction, whatever crashes and rollbacks happen.
THEOREM NoDoubleSpendThm == Spec => []NoDoubleSpend
<1>1. IInv => NoDoubleSpend
  BY DEF IInv
<1>. QED
  BY <1>1, IInvInit, IInvStep, PTL DEF Spec


\* SpentIndexCoversChain for every catalogue and every bound: the spent
\* index alone makes get_spent report every link a committed block
\* consumes, through any crash and rollback.  It is CoveredByIndex, the
\* conjunct of IInv that NoDoubleSpend rests on: commit writes the input
\* rows before the block row, and delete_transactions never removes rows.
THEOREM SpentIndexCoversChainThm == Spec => []SpentIndexCoversChain
<1>1. IInv => SpentIndexCoversChain
  BY DEF IInv, CoveredByIndex, CoveredIn, IndexedIn, SpentIndexCoversChain, GetSpent
<1>. QED
  BY <1>1, IInvInit, IInvStep, PTL DEF Spec

====
