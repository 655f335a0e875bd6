------------------------------- MODULE Ledger -------------------------------
(***************************************************************************)
(* The UTXO ledger of a Planetmint node: the validation of a delivered     *)
(* transaction against the store and the in-flight block                   *)
(* (Transaction.validate_transfer_inputs, inputs_valid, get_asset_id), the *)
(* commit of a block into the Tarantool store (store_transactions,         *)
(* store_block, the UTXO deltas, store_pre_commit_state), a crash of the   *)
(* node at any point, and the rollback run on restart (latest_block,       *)
(* delete_transactions).                                                   *)
(*                                                                         *)
(* Transactions are content addressed, so a transaction is named by its id *)
(* and Body maps an id to the body the id is the hash of: the catalogue of *)
(* transactions clients may submit.  A fulfillment is abstracted to the    *)
(* condition URI it is for (cond) and whether its signatures validate over *)
(* the transaction's signing message (signed).                             *)
(***************************************************************************)
EXTENDS Integers, Sequences, FiniteSets

CONSTANTS
    TxId,        \* transaction ids (hashes of the bodies in Body)
    Cond,        \* condition URIs
    None,        \* the null of an input's `fulfills`
    Body,        \* Body[t]: the transaction whose id is t
    MaxBatch,    \* bound on the transactions delivered in one block
    MaxCrashes   \* bound on spontaneous crashes of the node process

Link == [txid : TxId, output : Int]     \* TransactionLink (txid, output index)
\* A utxos row: unspent_outputs enumerates the outputs, so its index is >= 0.
UtxoLink == [txid : TxId, output : Nat]
Input == [fulfills : Link \cup {None}, cond : Cond, signed : BOOLEAN]
Output == [amount : Nat \ {0}, cond : Cond]
TxBody == [operation : {"CREATE", "TRANSFER"},
           asset : TxId \cup {None},    \* asset.id of a TRANSFER
           inputs : Seq(Input),
           outputs : Seq(Output)]

ASSUME NoneAssumption == None \notin Link
\* Bodies are well typed, and a CREATE's inputs fulfill nothing (spec 3).
ASSUME BodyAssumption ==
    /\ Body \in [TxId -> TxBody]
    /\ \A t \in TxId : Body[t].operation = "CREATE" =>
          \A j \in DOMAIN Body[t].inputs : Body[t].inputs[j].fulfills = None
ASSUME BoundsAssumption == MaxBatch \in Nat /\ MaxCrashes \in Nat

Phase == {"deliver", "endblock", "committing", "down"}
Block == [height : Nat, txs : Seq(TxId)]     \* a blocks row with its blocks_tx rows
PreCommit == [height : Nat, txs : Seq(TxId)] \* a pre_commits row
SpentRow == [tx : TxId, link : Link]         \* an inputs row, as the spent index sees it

VARIABLES
    stored,      \* ids with a row in the `transactions` space
    spentRows,   \* rows of the `inputs` space that fulfill a link
    utxos,       \* the `utxos` collection
    blocks,      \* the `blocks` space
    preCommits,  \* the `pre_commits` space
    batch,       \* the block being delivered (in memory, lost on a crash)
    height,      \* the last height the node committed
    phase,       \* where the node is in the block cycle
    crashes      \* spontaneous crashes so far

vars == <<stored, spentRows, utxos, blocks, preCommits, batch, height, phase, crashes>>

Ids(s) == {s[i] : i \in DOMAIN s}

(***************************************************************************)
(* Transaction: properties and validation                                  *)
(***************************************************************************)

\* The inputs of t that fulfill a link, and the links they fulfill.
Fulfills(t, j) == Body[t].inputs[j].fulfills
LinkedInputs(t) == {j \in DOMAIN Body[t].inputs : Fulfills(t, j) # None}
SpentOutputs(t) == {Fulfills(t, j) : j \in LinkedInputs(t)}

\* Mutant: output indexes counted from -1.
UnspentOutputsOffByOne(t) == {[txid |-> t, output |-> k - 2] : k \in DOMAIN Body[t].outputs}

\* The links of t's outputs (the transaction_id/output_index of its UTXOs).
UnspentOutputs(t) == {[txid |-> t, output |-> k - 1] : k \in DOMAIN Body[t].outputs}

\* input_tx.outputs[output]: a Python list index, so a negative index
\* counts from the end; outside -len..len-1 it raises IndexError.
IndexOk(l) == -Len(Body[l.txid].outputs) <= l.output /\ l.output < Len(Body[l.txid].outputs)
OutputPos(l) == IF l.output < 0 THEN Len(Body[l.txid].outputs) + l.output + 1 ELSE l.output + 1
OutputAt(l) == Body[l.txid].outputs[OutputPos(l)]

\* tx.id for a CREATE, tx.asset['id'] for a TRANSFER.
AssetIdOf(t) == IF Body[t].operation = "CREATE" THEN t ELSE Body[t].asset

\* sum of a sequence of amounts
SumSeq(s) == LET f[i \in 0..Len(s)] == IF i = 0 THEN 0 ELSE f[i - 1] + s[i]
             IN f[Len(s)]

\* Mutant: get_spent without the scan of current_transactions.
GetSpentStoreOnly(l, cur) == \E r \in spentRows : r.link = l

\* planet.get_spent: a stored input fulfilling l (the spent_search index of
\* the inputs space, query.get_spent) or an input of a transaction of the
\* current block (the scan in Planetmint.get_spent, lib.py, spec 4.5).
GetSpent(l, cur) ==
    \/ \E r \in spentRows : r.link = l
    \/ \E i \in DOMAIN cur : l \in SpentOutputs(cur[i])

\* planet.get_transaction, then the scan of current_transactions.
InputTxExists(id, cur) == id \in stored \cup Ids(cur)

\* _input_valid for every input: the fulfillment validates, and for a
\* TRANSFER its condition URI is the URI of the output it spends.
InputsValid(t) ==
    \A j \in DOMAIN Body[t].inputs :
        /\ Body[t].inputs[j].signed
        /\ Body[t].operation = "TRANSFER" =>
               Body[t].inputs[j].cond = OutputAt(Body[t].inputs[j].fulfills).cond

\* get_asset_id of the input transactions is the declared asset id: the set
\* of their asset ids is a singleton (else AssetIdMismatch, or pop() of an
\* empty set) and equals asset['id'].
GetAssetId(t) ==
    {AssetIdOf(Body[t].inputs[j].fulfills.txid) : j \in DOMAIN Body[t].inputs}
        = {Body[t].asset}

ValidateTransferInputs(t, cur) ==
    LET ins == Body[t].inputs IN
    /\ \A j \in DOMAIN ins :
          /\ ins[j].fulfills # None
          /\ InputTxExists(ins[j].fulfills.txid, cur)          \* InputDoesNotExist
          /\ ~GetSpent(ins[j].fulfills, cur)                    \* DoubleSpend
          /\ IndexOk(ins[j].fulfills)
    /\ \A j, k \in DOMAIN ins : j # k => ins[j].fulfills # ins[k].fulfills
    /\ GetAssetId(t)
    /\ SumSeq([j \in DOMAIN ins |-> OutputAt(ins[j].fulfills).amount])
         = SumSeq([k \in DOMAIN Body[t].outputs |-> Body[t].outputs[k].amount])
    /\ InputsValid(t)

\* Transaction.validate: a CREATE only has its fulfillments checked.
Validate(t, cur) ==
    IF Body[t].operation = "CREATE" THEN InputsValid(t)
                                    ELSE ValidateTransferInputs(t, cur)

(***************************************************************************)
(* Store operations                                                        *)
(***************************************************************************)

\* Rows a stored transaction adds to the spent index.
InputRows(ids) == UNION {{[tx |-> t, link |-> l] : l \in SpentOutputs(t)} : t \in ids}

\* Positions of batch where txspace.insert raises DuplicateKey.
DupPos(b) == {k \in DOMAIN b : b[k] \in stored \/ \E j \in 1..(k - 1) : b[j] = b[k]}

\* store_transactions: one transaction at a time, its row then its input rows;
\* the batch stops at the first duplicate id, so the transactions stored are
\* those before every duplicate position.
StoreTransactions(b) ==
    LET done == {b[i] : i \in {i \in DOMAIN b : \A k \in DupPos(b) : i < k}} IN
    /\ stored' = stored \cup done
    /\ spentRows' = spentRows \cup InputRows(done)

\* The UTXO deltas of a committed block: each transaction deletes the links it
\* consumes and inserts its outputs (duplicate inserts are ignored).
UtxoAfter(u, b) ==
    (u \cup UNION {UnspentOutputs(b[i]) : i \in DOMAIN b})
        \ UNION {SpentOutputs(b[i]) : i \in DOMAIN b}

\* store_pre_commit_state: upsert on the row already holding this height, else
\* a fresh row.
StorePreCommitState(h, txs) ==
    preCommits' = {r \in preCommits : r.height # h} \cup {[height |-> h, txs |-> txs]}

\* latest_block: the first block after sorting by height ascending.
LatestBlock == CHOOSE b \in blocks : \A c \in blocks : b.height <= c.height

\* Mutant: delete_transactions that also deletes the input rows of the
\* transactions it removes.
DeleteTransactionsWithInputs(ids) ==
    /\ stored' = stored \ ids
    /\ spentRows' = {r \in spentRows : r.tx \notin ids}

\* delete_transactions: the transaction rows go; the loop meant for the input
\* and output rows deletes their row ids from the transactions space.
DeleteTransactions(ids) ==
    /\ stored' = stored \ ids
    /\ UNCHANGED spentRows

(***************************************************************************)
(* The node                                                                *)
(***************************************************************************)

\* init_chain: an empty store holding the genesis block at height 0.
Init ==
    /\ stored = {}
    /\ spentRows = {}
    /\ utxos = {}
    /\ blocks = {[height |-> 0, txs |-> <<>>]}
    /\ preCommits = {}
    /\ batch = <<>>
    /\ height = 0
    /\ phase = "deliver"
    /\ crashes = 0

\* deliver_tx: a valid transaction joins the block.
DeliverTx(t) ==
    /\ phase = "deliver"
    /\ Len(batch) < MaxBatch
    /\ Validate(t, batch)
    /\ batch' = Append(batch, t)
    /\ UNCHANGED <<stored, spentRows, utxos, blocks, preCommits, height, phase, crashes>>

\* end_block: the pre-commit state names the block's transactions.
EndBlock ==
    /\ phase = "deliver"
    /\ StorePreCommitState(height + 1, batch)
    /\ phase' = "endblock"
    /\ UNCHANGED <<stored, spentRows, utxos, blocks, batch, height, crashes>>

\* commit, first store call: store_bulk_transactions; a DuplicateKey aborts
\* the commit and the node goes down.
CommitTxs ==
    /\ phase = "endblock"
    /\ StoreTransactions(batch)
    /\ phase' = IF DupPos(batch) = {} THEN "committing" ELSE "down"
    /\ batch' = IF DupPos(batch) = {} THEN batch ELSE <<>>
    /\ UNCHANGED <<utxos, blocks, preCommits, height, crashes>>

\* commit, rest: the UTXO deltas, then store_block as the last write.
CommitBlock ==
    /\ phase = "committing"
    /\ utxos' = UtxoAfter(utxos, batch)
    /\ blocks' = blocks \cup {[height |-> height + 1, txs |-> batch]}
    /\ height' = height + 1
    /\ batch' = <<>>
    /\ phase' = "deliver"
    /\ UNCHANGED <<stored, spentRows, preCommits, crashes>>

\* The node process dies; the block in memory is lost.
Crash ==
    /\ phase # "down"
    /\ crashes < MaxCrashes
    /\ phase' = "down"
    /\ batch' = <<>>
    /\ crashes' = crashes + 1
    /\ UNCHANGED <<stored, spentRows, utxos, blocks, preCommits, height>>

\* Restart: rollback deletes the transactions of a pre-commit state that is
\* ahead of the latest block (get_pre_commit_state returns any stored row).
Recover ==
    /\ phase = "down"
    /\ \/ preCommits = {} /\ UNCHANGED <<stored, spentRows>>
       \/ \E pc \in preCommits :
             IF LatestBlock.height < pc.height
             THEN DeleteTransactions(Ids(pc.txs))
             ELSE UNCHANGED <<stored, spentRows>>
    /\ phase' = "deliver"
    /\ UNCHANGED <<utxos, blocks, preCommits, batch, height, crashes>>

Next ==
    \/ \E t \in TxId : DeliverTx(t)
    \/ EndBlock
    \/ CommitTxs
    \/ CommitBlock
    \/ Crash
    \/ Recover

Spec == Init /\ [][Next]_vars

(***************************************************************************)
(* Refinement of the committed ledger                                      *)
(***************************************************************************)

\* The committed chain: for each height above the genesis block up to the
\* last committed one, the txids of the blocks_tx rows of the blocks row
\* store_block wrote at that height.
Chain == [h \in 1..height |-> (CHOOSE b \in blocks : b.height = h).txs]

\* The link each input of t that fulfills one consumes, as written: the
\* (transaction_id, output_index) key get_spent and the spent index use.
Consumes(t) == [j \in LinkedInputs(t) |-> Fulfills(t, j)]

\* The checks of Transaction.validate that read no state: fulfillments, and
\* for a TRANSFER the output indexes, the asset id and the amounts.
ValidTx(t) ==
    /\ InputsValid(t)
    /\ Body[t].operation = "TRANSFER" =>
          /\ \A j \in DOMAIN Body[t].inputs : IndexOk(Body[t].inputs[j].fulfills)
          /\ GetAssetId(t)
          /\ SumSeq([j \in DOMAIN Body[t].inputs |-> OutputAt(Body[t].inputs[j].fulfills).amount])
             = SumSeq([k \in DOMAIN Body[t].outputs |-> Body[t].outputs[k].amount])

Abstract == INSTANCE AbstractLedger WITH chain <- Chain, Valid <- ValidTx

\* The node implements the abstract ledger: its committed blocks form a
\* chain that grows by one valid block at a time, with no link consumed
\* twice, across deliver, commit, DuplicateKey, crashes and rollbacks.
AbstractSpec == Abstract!Spec

(***************************************************************************)
(* Properties                                                              *)
(***************************************************************************)

TypeOK ==
    /\ stored \subseteq TxId
    /\ spentRows \subseteq SpentRow
    /\ utxos \subseteq UtxoLink
    /\ blocks \subseteq Block
    /\ preCommits \subseteq PreCommit
    /\ batch \in Seq(TxId)
    /\ height \in Nat
    /\ phase \in Phase
    /\ crashes \in Nat

\* No double spend (spec 8, invariant 4): across all committed blocks, a link
\* is consumed by one input of one transaction at one place.  It needs the
\* spent index and the scan of the current block in get_spent, and the
\* distinct-links check, across crashes and rollbacks.
NoDoubleSpend ==
    \A b1, b2 \in blocks :
      \A k1 \in DOMAIN b1.txs, k2 \in DOMAIN b2.txs :
        \A j1 \in LinkedInputs(b1.txs[k1]), j2 \in LinkedInputs(b2.txs[k2]) :
           Fulfills(b1.txs[k1], j1) = Fulfills(b2.txs[k2], j2) =>
              b1 = b2 /\ k1 = k2 /\ j1 = j2

\* Spec 8, invariant 4, over outputs rather than links: no output of a
\* transaction is consumed by two committed inputs, also when one of them
\* names it by a negative index (input_tx.outputs[-1] is the last output).
NoOutputSpentTwice ==
    \A b1, b2 \in blocks :
      \A k1 \in DOMAIN b1.txs, k2 \in DOMAIN b2.txs :
        \A j1 \in LinkedInputs(b1.txs[k1]), j2 \in LinkedInputs(b2.txs[k2]) :
           LET l1 == Fulfills(b1.txs[k1], j1)
               l2 == Fulfills(b2.txs[k2], j2)
           IN  l1.txid = l2.txid /\ OutputPos(l1) = OutputPos(l2) =>
                  b1 = b2 /\ k1 = k2 /\ j1 = j2

\* Spec 3: a TRANSFER input points at an existing output: every output a
\* committed transfer consumes belongs to a transaction of a committed
\* block, even after crashes and rollbacks.
CommittedInputsCommitted ==
    LET committed == UNION {Ids(b.txs) : b \in blocks} IN
    \A t \in committed : \A j \in LinkedInputs(t) : Fulfills(t, j).txid \in committed

\* get_spent reports every link a committed transaction consumes as spent,
\* from the spent index alone, after any crash and rollback: a rollback
\* that deletes the transactions of a committed block (latest_block returns
\* the lowest block) leaves their input rows behind, and those rows are
\* what keeps a later block from spending the same links again.
SpentIndexCoversChain ==
    \A b \in blocks : \A k \in DOMAIN b.txs : \A j \in LinkedInputs(b.txs[k]) :
        GetSpent(Fulfills(b.txs[k], j), <<>>)

\* Every transaction of a committed block keeps its row in the transactions
\* space: rollback on restart only deletes what a failed block stored
\* (spec 4.6, delete_transactions "used only during failed-block rollback").
CommittedTxsStored ==
    \A b \in blocks : Ids(b.txs) \subseteq stored

\* The spent index only holds inputs of stored transactions: once
\* delete_transactions removes a transaction, get_spent no longer reports
\* the outputs it consumed as spent.
SpentIndexOfStoredTxs ==
    \A r \in spentRows : r.tx \in stored

\* store_pre_commit_state keeps one pre-commit record (spec 4.6: "only one
\* pre-commit record is retained"), the one rollback must read.
SinglePreCommit ==
    \A p, q \in preCommits : p = q

\* The UTXO set is exactly the outputs of committed transactions that no
\* committed transaction consumes (spec 3, lifecycle of an output).
UtxoSound ==
    LET committed == UNION {Ids(b.txs) : b \in blocks} IN
    utxos = UNION {UnspentOutputs(t) : t \in committed}
              \ UNION {SpentOutputs(t) : t \in committed}

=============================================================================
