----------------------- MODULE LedgerRefinementProofs -----------------------
(***************************************************************************)
(* The node of Ledger.tla implements the committed ledger of               *)
(* AbstractLedger.tla under the mapping Chain, for every catalogue: an     *)
(* input consumes the link it names, the key of get_spent and of the       *)
(* spent index.  Two links that name one output (a negative index) are two *)
(* links here; that case is the negative_index_double_spend run.           *)
(***************************************************************************)
EXTENDS LedgerProofs

(***************************************************************************)
(* The mapping, over any set of blocks and height                          *)
(***************************************************************************)

\* One block per height 0..n, and no two blocks at one height.
HeightsIn(bl, n) ==
    /\ \A h \in 0..n : \E b \in bl : b.height = h
    /\ \A b, c \in bl : b.height = c.height => b = c

ByHeight == HeightsIn(blocks, height)

\* No block of bl is above height n.
BelowIn(bl, n) == \A b \in bl : b.height <= n

\* The chain of the blocks bl up to height n.
ChainOf(bl, n) == [h \in 1..n |-> (CHOOSE b \in bl : b.height = h).txs]

\* Every transaction of bt passes the checks of ValidTx.
ValidIn(bt) == \A k \in DOMAIN bt : ValidTx(bt[k])

BatchValid == ValidIn(batch)

RInv == IInv /\ ByHeight /\ BatchValid

(***************************************************************************)
(* Lemmas                                                                  *)
(***************************************************************************)

\* A transaction deliver_tx accepts passes the state-free checks.
LEMMA ValidateValid ==
    ASSUME NEW t \in TxId, NEW cur, Validate(t, cur)
    PROVE  ValidTx(t)
<1>1. CASE Body[t].operation = "CREATE"
  BY <1>1 DEF Validate, ValidTx
<1>2. CASE Body[t].operation # "CREATE"
  BY <1>2 DEF Validate, ValidTx, ValidateTransferInputs
<1>. QED  BY <1>1, <1>2

\* Committing the block of height n + 1 keeps one block per height.
LEMMA HeightsAdd ==
    ASSUME NEW bl, NEW n \in Nat, NEW bt, HeightsIn(bl, n),
           \A b \in bl : b.height <= n
    PROVE  HeightsIn(bl \cup {[height |-> n + 1, txs |-> bt]}, n + 1)
<1> DEFINE nb == [height |-> n + 1, txs |-> bt]
<1>1. nb.height = n + 1
  OBVIOUS
<1>2. ASSUME NEW h \in 0..(n + 1) PROVE \E b \in bl \cup {nb} : b.height = h
  <2>1. CASE h \in 0..n
    BY <2>1 DEF HeightsIn
  <2>2. CASE h = n + 1
    BY <1>1, <2>2
  <2>. QED  BY <2>1, <2>2
<1>3. ASSUME NEW b \in bl \cup {nb}, NEW c \in bl \cup {nb}, b.height = c.height
      PROVE  b = c
  <2>1. CASE b \in bl /\ c \in bl
    BY <1>3, <2>1 DEF HeightsIn
  <2>2. CASE b \in bl /\ c = nb
    <3>1. b.height <= n
      BY <2>2
    <3>. QED  BY <3>1, <1>1, <1>3, <2>2
  <2>3. CASE b = nb /\ c \in bl
    <3>1. c.height <= n
      BY <2>3
    <3>. QED  BY <3>1, <1>1, <1>3, <2>3
  <2>4. CASE b = nb /\ c = nb
    BY <2>4
  <2>. QED  BY <2>1, <2>2, <2>3, <2>4
<1>. QED  BY <1>2, <1>3 DEF HeightsIn

\* The block a height names in the chain of bl.
LEMMA ChainBlock ==
    ASSUME NEW bl, NEW n \in Nat, HeightsIn(bl, n), NEW h \in 1..n
    PROVE  LET b == CHOOSE b \in bl : b.height = h
           IN  /\ b \in bl
               /\ b.height = h
               /\ ChainOf(bl, n)[h] = b.txs
BY DEF HeightsIn, ChainOf

\* Committing the block of height n + 1 appends its transactions to the chain.
LEMMA ChainAdd ==
    ASSUME NEW bl, NEW n \in Nat, NEW nb, HeightsIn(bl, n), BelowIn(bl, n),
           nb.height = n + 1, NEW bl2, bl2 = bl \cup {nb}
    PROVE  /\ DOMAIN ChainOf(bl2, n + 1) = 1..(n + 1)
           /\ \A h \in 1..n : ChainOf(bl2, n + 1)[h] = ChainOf(bl, n)[h]
           /\ ChainOf(bl2, n + 1)[n + 1] = nb.txs
<1>1. HeightsIn(bl2, n + 1)
  <2>1. ASSUME NEW h \in 0..(n + 1) PROVE \E b \in bl2 : b.height = h
    BY DEF HeightsIn
  <2>2. ASSUME NEW b \in bl2, NEW c \in bl2, b.height = c.height PROVE b = c
    BY <2>2 DEF HeightsIn, BelowIn
  <2>. QED  BY <2>1, <2>2 DEF HeightsIn
<1>2. ASSUME NEW h \in 1..n PROVE ChainOf(bl2, n + 1)[h] = ChainOf(bl, n)[h]
  <2>1. PICK b \in bl : b.height = h /\ ChainOf(bl, n)[h] = b.txs
    BY ChainBlock
  <2>2. PICK c \in bl2 : c.height = h /\ ChainOf(bl2, n + 1)[h] = c.txs
    BY <1>1, ChainBlock
  <2>3. c = b
    BY <1>1, <2>1, <2>2 DEF HeightsIn
  <2>. QED  BY <2>1, <2>2, <2>3
<1>3. ChainOf(bl2, n + 1)[n + 1] = nb.txs
  <2>1. PICK c \in bl2 : c.height = n + 1 /\ ChainOf(bl2, n + 1)[n + 1] = c.txs
    BY <1>1, ChainBlock
  <2>2. c = nb
    BY <2>1 DEF BelowIn
  <2>. QED  BY <2>1, <2>2
<1>. QED  BY <1>2, <1>3 DEF ChainOf

\* Two inputs consume the same link exactly when they fulfill the same link.
LEMMA ConsumesEq ==
    ASSUME NEW t1 \in TxId, NEW t2 \in TxId,
           NEW j1 \in LinkedInputs(t1), NEW j2 \in LinkedInputs(t2),
           Consumes(t1)[j1] = Consumes(t2)[j2]
    PROVE  Fulfills(t1, j1) = Fulfills(t2, j2)
BY DEF Consumes

\* The chain of a set of blocks without double spends consumes every
\* link at one place.
LEMMA SpentOnceOf ==
    ASSUME NEW bl, NEW n \in Nat, HeightsIn(bl, n),
           bl \subseteq Block, DistinctIn(bl)
    PROVE  Abstract!SpentOnce(ChainOf(bl, n))
<1> DEFINE c == ChainOf(bl, n)
<1> SUFFICES ASSUME NEW p \in Abstract!Spends(c), NEW q \in Abstract!Spends(c),
                    p.link = q.link
             PROVE  p = q
  BY DEF Abstract!SpentOnce
<1>0. DOMAIN c = 1..n
  BY DEF ChainOf
<1>1. PICK hp, kp, jp :
            /\ hp \in 1..n
            /\ kp \in DOMAIN c[hp]
            /\ jp \in DOMAIN Consumes(c[hp][kp])
            /\ p = [at |-> <<hp, kp, jp>>, link |-> Consumes(c[hp][kp])[jp]]
  BY <1>0 DEF Abstract!Spends, Abstract!SpendsAt
<1>2. PICK hq, kq, jq :
            /\ hq \in 1..n
            /\ kq \in DOMAIN c[hq]
            /\ jq \in DOMAIN Consumes(c[hq][kq])
            /\ q = [at |-> <<hq, kq, jq>>, link |-> Consumes(c[hq][kq])[jq]]
  BY <1>0 DEF Abstract!Spends, Abstract!SpendsAt
<1>3. PICK bp \in bl : bp.height = hp /\ c[hp] = bp.txs
  BY <1>1, ChainBlock
<1>4. PICK bq \in bl : bq.height = hq /\ c[hq] = bq.txs
  BY <1>2, ChainBlock
<1>5. /\ bp.txs \in Seq(TxId) /\ bq.txs \in Seq(TxId)
      /\ kp \in DOMAIN bp.txs /\ kq \in DOMAIN bq.txs
  BY <1>1, <1>2, <1>3, <1>4 DEF Block
<1>6. bp.txs[kp] \in TxId /\ bq.txs[kq] \in TxId
  BY <1>5
<1>7. jp \in LinkedInputs(bp.txs[kp]) /\ jq \in LinkedInputs(bq.txs[kq])
  BY <1>1, <1>2, <1>3, <1>4 DEF Consumes
<1>8. Fulfills(bp.txs[kp], jp) = Fulfills(bq.txs[kq], jq)
  BY <1>1, <1>2, <1>3, <1>4, <1>6, <1>7, ConsumesEq
<1>9. bp = bq /\ kp = kq /\ jp = jq
  <2>1. \A k1 \in DOMAIN bp.txs, k2 \in DOMAIN bq.txs :
          \A j1 \in LinkedInputs(bp.txs[k1]), j2 \in LinkedInputs(bq.txs[k2]) :
             Fulfills(bp.txs[k1], j1) = Fulfills(bq.txs[k2], j2) =>
                bp = bq /\ k1 = k2 /\ j1 = j2
    BY DEF DistinctIn
  <2>. QED  BY <2>1, <1>5, <1>7, <1>8
<1>10. hp = hq
  BY <1>3, <1>4, <1>9
<1>. QED  BY <1>1, <1>2, <1>9, <1>10

(***************************************************************************)
(* The invariant                                                           *)
(***************************************************************************)

LEMMA RInvInit == Init => RInv
<1> SUFFICES ASSUME Init PROVE RInv
  OBVIOUS
<1>1. IInv
  BY IInvInit
<1>2. ByHeight
  BY DEF Init, ByHeight, HeightsIn
<1>3. BatchValid
  BY DEF Init, BatchValid, ValidIn
<1>. QED  BY <1>1, <1>2, <1>3 DEF RInv

LEMMA RInvStep == RInv /\ [Next]_vars => RInv'
<1> SUFFICES ASSUME RInv, [Next]_vars PROVE RInv'
  OBVIOUS
<1>0. IInv' /\ TypeOK /\ HeightsBelow
  BY IInvStep DEF RInv, IInv
<1>1. ASSUME NEW t \in TxId, DeliverTx(t) PROVE ByHeight' /\ BatchValid'
  <2>1. ValidTx(t)
    BY <1>1, ValidateValid DEF DeliverTx
  <2>2. batch \in Seq(TxId)
    BY <1>0 DEF TypeOK
  <2>3. BatchValid'
    BY <1>1, <2>1, <2>2 DEF DeliverTx, RInv, BatchValid, ValidIn
  <2>. QED  BY <1>1, <2>3 DEF DeliverTx, RInv, ByHeight
<1>2. ASSUME CommitBlock PROVE ByHeight' /\ BatchValid'
  <2>1. height \in Nat
    BY <1>0 DEF TypeOK
  <2>2. HeightsIn(blocks', height')
    BY <1>0, <1>2, <2>1, HeightsAdd DEF CommitBlock, RInv, ByHeight, HeightsBelow
  <2>3. batch' = <<>>
    BY <1>2 DEF CommitBlock
  <2>. QED  BY <2>2, <2>3 DEF ByHeight, BatchValid, ValidIn
<1>3. ASSUME EndBlock \/ CommitTxs \/ Crash \/ Recover \/ UNCHANGED vars
      PROVE  ByHeight' /\ BatchValid'
  <2>1. UNCHANGED <<blocks, height>>
    BY <1>3 DEF EndBlock, CommitTxs, Crash, Recover, vars
  <2>2. batch' = batch \/ batch' = <<>>
    BY <1>3 DEF EndBlock, CommitTxs, Crash, Recover, vars
  <2>3. ByHeight'
    BY <2>1 DEF RInv, ByHeight
  <2>4. BatchValid'
    BY <2>2 DEF RInv, BatchValid, ValidIn
  <2>. QED  BY <2>3, <2>4
<1>. QED  BY <1>0, <1>1, <1>2, <1>3 DEF Next, RInv

(***************************************************************************)
(* The refinement                                                          *)
(***************************************************************************)

\* Every step of the node is a step of the abstract ledger or leaves the
\* chain alone.
LEMMA RefinementStep ==
    ASSUME RInv, RInv', [Next]_vars
    PROVE  [Abstract!AppendBlock]_Chain
<1>1. CASE CommitBlock
  <2>0. TypeOK /\ HeightsBelow /\ ByHeight /\ BatchValid /\ TypeOK' /\ ByHeight' /\ NoDoubleSpend'
    BY DEF RInv, IInv
  <2>1. height \in Nat /\ batch \in Seq(TxId)
    BY <2>0 DEF TypeOK
  <2>2. blocks' = blocks \cup {[height |-> height + 1, txs |-> batch]} /\ height' = height + 1
    BY <1>1 DEF CommitBlock
  <2> DEFINE c0 == ChainOf(blocks, height)
             c1 == ChainOf(blocks', height')
  <2>3. Chain = c0 /\ Chain' = c1
    BY DEF Chain, ChainOf
  <2>4. /\ DOMAIN c1 = 1..(height + 1)
        /\ \A h \in 1..height : c1[h] = c0[h]
        /\ c1[height + 1] = batch
    <3>1. HeightsIn(blocks, height) /\ BelowIn(blocks, height)
      BY <2>0 DEF ByHeight, HeightsBelow, BelowIn
    <3>2. PICK nb : nb.height = height + 1 /\ nb.txs = batch /\ blocks' = blocks \cup {nb}
      BY <2>2
    <3>3. /\ DOMAIN ChainOf(blocks', height + 1) = 1..(height + 1)
          /\ \A h \in 1..height : ChainOf(blocks', height + 1)[h] = ChainOf(blocks, height)[h]
          /\ ChainOf(blocks', height + 1)[height + 1] = nb.txs
      BY <3>1, <3>2, <2>1, ChainAdd
    <3>. QED  BY <2>2, <3>2, <3>3
  <2>5. DOMAIN c0 = 1..height
    BY DEF ChainOf
  <2>6. Len(c1) = Len(c0) + 1
    BY <2>1, <2>4, <2>5
  <2>7. \A h \in DOMAIN c0 : c1[h] = c0[h]
    BY <2>4, <2>5
  <2>8. \A k \in DOMAIN c1[Len(c1)] : ValidTx(c1[Len(c1)][k])
    BY <2>0, <2>1, <2>4, <2>5, <2>6 DEF BatchValid, ValidIn
  <2>9. Abstract!SpentOnce(c1)
    <3>1. blocks' \subseteq Block /\ height' \in Nat
      BY <2>0 DEF TypeOK
    <3>2. DistinctIn(blocks')
      BY <2>0, NoDoubleSpendDistinct
    <3>. QED  BY <2>0, <3>1, <3>2, SpentOnceOf DEF ByHeight
  <2>. QED  BY <2>1, <2>3, <2>4, <2>5, <2>6, <2>7, <2>8, <2>9 DEF Abstract!AppendBlock
<1>2. CASE ~CommitBlock
  <2>1. UNCHANGED <<blocks, height>>
    BY <1>2 DEF Next, DeliverTx, EndBlock, CommitTxs, Crash, Recover, vars
  <2>. QED  BY <2>1 DEF Chain
<1>. QED  BY <1>1, <1>2

\* The node implements the committed ledger (AbstractSpec) for every
\* catalogue and every bound: under the mapping Chain (the block stored at
\* each height up to the last committed one), deliver_tx, end_block, commit, a
\* DuplicateKey, crashes and rollbacks only ever append one block of valid
\* transactions that consume no (transaction_id, output_index) link
\* consumed before.
THEOREM RefinementThm == Spec => AbstractSpec
<1>1. Init => Abstract!Init
  <2>. SUFFICES ASSUME Init PROVE Chain = <<>>
    BY DEF Abstract!Init
  <2>. QED  BY DEF Init, Chain
<1>2. Spec => []RInv
  BY RInvInit, RInvStep, PTL DEF Spec
<1>3. RInv /\ RInv' /\ [Next]_vars => [Abstract!AppendBlock]_Chain
  BY RefinementStep
<1>. QED  BY <1>1, <1>2, <1>3, PTL DEF Spec, AbstractSpec, Abstract!Spec

====
