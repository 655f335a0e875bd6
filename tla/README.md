# Formal models of the Planetmint ledger core

TLA+ models of the Planetmint node's ledger core: transaction validation and
signing (`src/planetmint/transactions/common/transaction.py`) and the Tarantool
store (`src/planetmint/backend/tarantool/query.py`). The ledger is driven by
the node's block cycle (deliver, end block, commit, crash and rollback). TLC
checks the models on small instances. TLAPS proves, for every instance:
- type correctness of both models;
- the absence of double spends of a link, and that the spent index keeps
  every committed spend across crashes and rollbacks;
- that the node implements an abstract append-only ledger in which no
  `(transaction_id, output_index)` link is consumed twice. Two links that
  name one output through a negative index are two links there: that case
  is the `negative_index_double_spend` finding, which no theorem excludes;
- that a `sign` with every key validates when `tx_dict` is current.

Every property of the passing runs is proved.

## 1. Inventory

### Components

| Component | Source | State | Operations | Status |
|---|---|---|---|---|
| C1 serialization and hashing | transaction.py `serialized`, `_to_str`, `_to_hash`, `_hash`, `validate_id` | none (pure) | encode, hash | partly (`Signing`): `_hash` and the signed message are injective builders over what goes into them; the byte encoding is not modelled |
| C2 crypto-conditions | outside the repository | none | fulfillment validation | not modelled: a fulfillment is its condition URI plus a validates flag |
| C3 transaction model | transaction.py `__init__`, `spent_outputs`, `unspent_outputs`, `add_output`, `to_dict`, `from_dict`, `from_db` | a Transaction object | construct, convert | partly (`Ledger`, `Signing`); `add_input`, `to_inputs`, `from_db` are not modelled |
| C4 signing | transaction.py `sign`, `_sign_input`, the two signers | the inputs' fulfillments, `_id`, `tx_dict` | sign | modelled (`Signing`) |
| C5 validation | transaction.py `validate_transfer_inputs`, `inputs_valid`, `_inputs_valid`, `_input_valid`, `get_asset_id` | reads the store and the block being delivered | validate | modelled (`Ledger`) |
| C6 store | query.py | spaces `transactions`, `inputs`, `blocks`, `utxos`, `pre_commits` (modelled); `validators`, `elections`, `abci_chains`, `assets`, `meta_data` (not yet) | the store_*, get_*, delete_* queries | partly (`Ledger`) |
| Node commit pipeline | outside src (the node's ABCI application) | the block in memory, the height, the phase | deliver_tx, end_block, commit, rollback | modelled from the spec (`spec_modelled`) |
| Consensus engine | external | none | orders and delivers transactions | the environment: any transaction may be delivered at any time |

### How the components interact

The consensus engine hands the node one transaction at a time, through
`deliver_tx`. The node validates it:

1. `validate_transfer_inputs` looks each input's transaction up with
   `get_transaction`, falling back to the block in memory.
2. It asks `get_spent` whether the output is already spent. `get_spent`
   checks the `inputs` space's spent index and also scans the block in memory.
3. It checks that the transaction's links are distinct, that the asset id
   agrees (`get_asset_id`), that amounts are conserved, and that every
   fulfillment meets the condition of the output it spends (`inputs_valid`).

At `end_block` the node writes a pre-commit record with
`store_pre_commit_state`. At `commit` it writes, in this order:

1. the transactions (`store_transactions`: one `transactions` row, then its
   `inputs`, `outputs` and `keys` rows);
2. the UTXO deltas;
3. the block (`store_block`).

On restart, rollback compares the pre-commit height with `latest_block()`. If
the pre-commit is ahead, it deletes the pre-commit's transactions with
`delete_transactions`.

### The hard behaviours

- Two transfers of one output delivered into the same block. Neither is
  stored yet, so only the scan of the block in memory catches the second.
- A crash during the commit, after the transactions are written and before
  the block row is (the UTXO deltas and `store_block` are one step of the
  model: see section 2).
- Rollback after a restart. It must delete only what a failed block wrote.
- A `DuplicateKey` in the middle of `store_transactions`. The writes before it
  stay, and the node goes down.
- A pre-commit record that is stale or ambiguous when rollback reads it.
- Re-signing, a failure in the middle of `sign`, and a `tx_dict` that is
  stale when `_inputs_valid` rebuilds the message from it (C4).
- An output named by a negative index: Python indexing resolves it, while the
  spent index looks up the index as written.

### What makes each component correct

- **C5 validation:**
  - no committed double spend of a link (`NoDoubleSpend`).
- **C6 store and rollback:**
  - committed transactions stay stored (`CommittedTxsStored`);
  - the spent index only holds inputs of stored transactions
    (`SpentIndexOfStoredTxs`);
  - the spent index holds every spend of a committed block, so `get_spent`
    reports it (`SpentIndexCoversChain`);
  - there is one pre-commit record (`SinglePreCommit`);
  - the UTXO set is exactly the unconsumed outputs of the committed
    transactions (`UtxoSound`);
  - a committed transfer only spends committed transactions
    (`CommittedInputsCommitted`).
- **Ledger as a whole:**
  - the committed chain behaves as the abstract ledger (`AbstractSpec`);
  - no output is spent twice under any index (`NoOutputSpentTwice`).
- **C4 signing:**
  - a fresh `sign` with every key validates (`FreshSignValidates`);
  - `sign` is idempotent (`SignIdempotent`) and leaves no trace when it fails
    (`SignFailureAtomic`);
  - a signed transaction validates also after `from_dict`
    (`SignedInputsValidate`).

`PROJECT.json` lists the hazards, each at the source line where it bites.

## 2. Modules

### `Ledger.tla`: validation, the store and the node's block cycle

**Data.** A transaction is named by its id. The constant `Body` maps an id to
the body whose hash it is: the catalogue of transactions clients may submit.
An input has:
- `fulfills`: a link, or `None` for a CREATE;
- `cond`: the condition URI its fulfillment is for;
- `signed`: whether the fulfillment validates.

**Variables and the parts of the store they model.**

| Variable | Models |
|---|---|
| `stored` | ids with a `transactions` row |
| `spentRows` | `inputs` rows as the spent index sees them |
| `utxos` | the `utxos` collection |
| `blocks` | `blocks` with their `blocks_tx` rows |
| `preCommits` | `pre_commits` |
| `batch`, `height`, `phase` | the node's memory |
| `crashes` | the number of crashes so far |

**Operators, and the code they model.**

| Operator | Code |
|---|---|
| `GetSpent` | `get_spent` (query.py:159-184), the `spent_search` lookup; the second disjunct is the scan of `current_transactions` in `Planetmint.get_spent`, which is in lib.py outside `src/` and is modelled from spec 4.5 |
| `InputTxExists` | `get_transaction`, plus the scan of the block in memory |
| `ValidateTransferInputs` | `validate_transfer_inputs`: every check, each raise a failed conjunct |
| `InputsValid` | `inputs_valid` / `_input_valid` |
| `GetAssetId` | `get_asset_id` |
| `StoreTransactions`, `DupPos` | `store_transactions`; the batch stops at the first duplicate id |
| `UtxoAfter` | `store_unspent_outputs` / `delete_unspent_outputs` |
| `StorePreCommitState` | `store_pre_commit_state`, an upsert keyed by height |
| `LatestBlock` | `latest_block`: sorted ascending, first element taken |
| `DeleteTransactions` | `delete_transactions`: only `transactions` rows go |

**Actions.**

| Action | What it does |
|---|---|
| `DeliverTx(t)` | validate `t` and append it to the block |
| `EndBlock` | write the pre-commit record |
| `CommitTxs` | `store_transactions`; a duplicate takes the node down |
| `CommitBlock` | the UTXO deltas and `store_block`, as one step |
| `Crash` | the block in memory is lost |
| `Recover` | rollback from any pre-commit row, since `get_pre_commit_state` is `find_one`; with no row, the node restarts as it is |

**Links and indexes.** `Link.output` is an integer. `IndexOk` and `OutputPos`
are the Python indexing of `input_tx.outputs[...]` in
`validate_transfer_inputs` (transaction.py:737): an index in
`-n .. n-1` is accepted, and a negative one counts from the end.

**What the model takes as given.**
- The commit is the node's `App.commit`, outside `src/`. The model splits it
  where a crash matters to the ledger: `CommitTxs` writes the transactions
  and their input rows, and `CommitBlock` writes the UTXO deltas and the
  block row together. Spec 5 says the commit is one atomic unit. A crash
  between the UTXO deltas and `store_block` is not modelled.
- `str(output_index)` in the inputs row (query.py:83) against the integer
  `get_spent` selects with: whether these match depends on the space schema,
  which is not in the repository. The model matches spends by link, as
  intended (hazard in `PROJECT.json`).
- No fairness is assumed. All properties are safety properties.

**Refinement mapping.** `Chain` maps the committed blocks to the sequence of
their transaction lists, by height: the `blocks` row and `blocks_tx` rows
`store_block` (query.py:199-207) writes. It does not go through `get_block`,
which reads the `blocks` space twice and does not return the `blocks_tx`
rows. `Consumes(t)` gives, for each linked input, the link it consumes as
written: `spent_outputs` (transaction.py:154-162), the key `get_spent` and
the spent index use. `ValidTx(t)` is the part of `validate_transfer_inputs` that
depends on the transaction alone: the conditions, the index bounds, the asset
and the amounts.

### `AbstractLedger.tla`: what the committed ledger promises

One variable, `chain`. Its only action, `AppendBlock`, appends one block:
- the earlier heights are unchanged;
- every transaction of the new block is `Valid`;
- no link is consumed at two places of the chain (`SpentOnce`).

`Ledger` instantiates it as `Abstract` with `chain <- Chain` and
`Valid <- ValidTx`. The property `AbstractSpec` is `Abstract!Spec`.

### `Signing.tla`: one Transaction object through `sign`

| Variable | Models |
|---|---|
| `sigs[i][k]` | the message the leaf of key `k` in input `i`'s fulfillment signed (`NoSig` if none) |
| `txid` | `self._id` |
| `body` | the unsigned body, as a version that `add_output` bumps |
| `txDict` | `self.tx_dict` |
| `result`, `lastKeys`, `signs` | how the last `sign` ended, its keys, the number of calls |

Hashing and serialization are injective record builders:
- `Message(b, id)` is `_remove_signatures(to_dict())` serialized, which keeps
  the `id` field as it is;
- `Hash(b, sigs, id)` is `_hash` of the dict.

| Action | Code |
|---|---|
| `Sign(keys)` | `sign` returning: every input replaced by `_sign_input`'s signed copy, then `_hash` |
| `SignRaises(keys)` | `sign` raising `KeypairMismatchException` at the first input the keys do not cover; the inputs before it are already replaced |
| `AddOutput` | `add_output` |
| `FromDict` | `Transaction.from_dict(tx.to_dict())`, which keeps the dict as `tx_dict` |

`InputsValid` is `_inputs_valid`: it rebuilds the message from `tx_dict` when
one is set, with `id` None. `Validates` is `_input_valid` for an Ed25519 or a
threshold fulfillment. `IdValid` is `validate_id`.

### `MCSigning.tla`

One Ed25519 input of `kA` and one 2-of-3 threshold input of `kA`, `kB` and
`kC`. A `sign` with `kA` alone replaces the first input and raises at the
second. Bounds: 3 calls of `sign` and 1 call of `add_output`.



### `MCLedger.tla`: the instance TLC checks

The catalogue holds two CREATEs (`c1` pays 2 to `kA`, `c2` pays 1 to `kB`) and
eight transfers:
- `t1`: spends `c1` into outputs for `kB` and `kA`;
- `t2`: a conflicting spend of `c1`;
- `t3`: spends both outputs of `t1`;
- `t4`: breaks amount conservation;
- `t5`: mixes assets;
- `t6`: spends the same link twice;
- `t7`: uses the wrong key;
- `t8`: a fulfillment that does not validate.

Each invalid transfer hits one check of `validate_transfer_inputs`. The valid
ones form a chain and a conflict.

Two smaller catalogues serve the runs whose question needs a transaction the
main one lacks:
- `MCTxIdNeg` is `c1`, `t1` and `t10`. `t10` spends `(c1, -1)`, the same
  output as `t1`'s `(c1, 0)`.
- `MCTxIdCrash` is `c1`, `c2` and `t9`, a transfer of `c2`.

They keep the state space small enough for `MaxHeight = 3`.

### Proof modules

- `LedgerProofs.tla`: type correctness, `NoDoubleSpend` and
  `SpentIndexCoversChain` of `Ledger`.
- `LedgerRefinementProofs.tla`: `Ledger` implements `AbstractLedger`.
- `SigningProofs.tla`: `TypeOK` and `FreshSignValidates` of `Signing`, and
  validation after a sign with a current `tx_dict`.

## 3. Runs

| Run | Expect | Checks | Shows |
|---|---|---|---|
| `ledger` (`MCLedger.cfg`) | pass | `TypeOK`, `NoDoubleSpend`, `SpentIndexCoversChain`, `AbstractSpec` | about 266k states over all orders of deliveries, crashes and rollbacks: no link is spent twice; the spent index keeps every committed spend, also after rollback wrongly deletes a committed block; every step appends one valid block that consumes no consumed link, or leaves the chain as it is |
| `rollback_deletes_committed` | violation | `CommittedTxsStored` | deliver `c1`, commit, crash, restart: rollback deletes `c1` from a committed block, because `latest_block` returns the genesis block (query.py:192) |
| `phantom_spent_rows` | violation | `SpentIndexOfStoredTxs` | `delete_transactions` deletes input and output row ids from the `transactions` space (query.py:327); the input rows stay |
| `precommit_rows_grow` | violation | `SinglePreCommit` | two `end_block`s leave two pre-commit rows (query.py:375) |
| `utxo_resurrected` | violation | `UtxoSound` | see below |
| `negative_index_double_spend` | violation | `NoOutputSpentTwice` | `t1` spends `(c1, 0)` and is committed; `t10` spends `(c1, -1)`, the same output: `get_spent` finds no row for index -1 and it is committed too |
| `stale_precommit_uncommitted_input` | violation | `CommittedInputsCommitted` | rollback reads an old pre-commit row, keeps a failed block's `c2`, and a transfer of `c2` is committed although `c2` is in no block |
| `signing` | pass | `TypeOK`, `FreshSignValidates` | after any `add_output` and failed signs, a `sign` with every key of a transaction without an id validates |
| `sign_not_idempotent` | violation | `SignIdempotent` | a second `sign` with the same keys signs a message holding the first id, and hashes it again |
| `sign_not_atomic` | violation | `SignFailureAtomic` | `sign` with `kA` replaces input 1, then raises at input 2 |
| `stale_tx_dict` | violation | `SignedInputsValidate` | `from_dict`, `add_output`, `sign` with every key: `_inputs_valid` rebuilds the message from the stale `tx_dict`, and the fresh fulfillments fail |

The `utxo_resurrected` trace:
1. The block `[c1, t1]` is committed.
2. The node crashes, and rollback deletes both transactions.
3. `c1` is delivered and committed again. `c1` is a CREATE, and its row is
   gone, so nothing stops it.
4. Output `(c1, 0)` is back in the UTXO set, although `t1` consumed it.

**Bounds.**
- The ledger pass runs use `MaxBatch = 2`, `MaxHeight = 2` and
  `MaxCrashes = 1`.
  - Two transactions per block is enough for a conflict within a block (`t1`
    and `t2`) and for a chain within a block (`c1` then `t1`).
  - Two blocks are enough for a conflict across blocks, for a spend of an
    output of an earlier block (`t3` after `t1`), and for a replayed CREATE.
  - One crash is enough to reach every crash point (down, endblock,
    committing) and rollback.
  - `MaxHeight` is a state constraint, not a guard, so the node is never
    deadlocked at the bound.
- The violation runs use `MaxHeight` 2 or 3 and the small catalogues.
- `signing` allows 3 signs and 1 `add_output`: enough for a failed sign, an
  `add_output` and a full sign in one behaviour, and for a sign after a sign.

**Mutants.** Each property of a pass run is broken by a plausible bug in the
operator it rests on:

| Property | Mutated operator | Mutation |
|---|---|---|
| `TypeOK` (Ledger) | `UnspentOutputs` | output indexes off by one |
| `NoDoubleSpend` | `GetSpent` | without the scan of the block in memory |
| `SpentIndexCoversChain` | `DeleteTransactions` | also deletes the input rows of the transactions it removes |
| `AbstractSpec` | `GetSpent` | without the scan of the block in memory |
| `TypeOK` (Signing) | `SignInput` | a leaf signs only the `id` field |
| `FreshSignValidates` | `Sign` | `_hash` called before the loop replaces the inputs |

## 4. Findings

- `latest_block` returns the lowest block (query.py:192). Rollback after a
  restart therefore deletes committed transactions. It also lets a CREATE be
  committed twice, which brings spent outputs back into
  the UTXO set.
- `delete_transactions` never deletes `inputs`, `outputs` or `keys` rows
  (query.py:327).
- `store_pre_commit_state` keeps one row per height (query.py:375).
  `get_pre_commit_state` may then return any of them, and rollback from an old
  row keeps a failed block's transactions: a transfer of an output of a
  transaction that is in no block is committed (`CommittedInputsCommitted`).
- A negative output index passes `validate_transfer_inputs`
  (transaction.py:737): `input_tx.outputs[-1]` is the last output, while
  `get_spent` finds no row for index -1. So one output can be spent twice,
  once as index 0 and once as index -1. Whether a negative index gets that
  far is not shown from `src/`. `Transaction.validate_schema` (line 711)
  does nothing, but `__init__.py` registers `models.Transaction`, outside
  `src/`, for CREATE and TRANSFER, and its schema check is not here. The spec
  gives `output_index` as `<int>` with no lower bound.
- `sign` is not idempotent: its message holds the `id` the previous sign set
  (transaction.py:273), and that message is one `_inputs_valid` rejects.
- A failed `sign` is not atomic (transaction.py:277), against spec 4.4.
- `_inputs_valid` rebuilds the message from a stale `tx_dict`
  (transaction.py:441). A transaction rebuilt by `from_dict`, changed and
  signed does not validate.

Not modelled, but noted as hazards:
- the `str(output_index)` stored in the inputs row (query.py:83).

Left out as broken code outside the model's question:
- the missing imports in query.py (`token_hex`, `itemgetter`, `formats`);
- `get_spent` raising `IndexError` on a miss. The model gives the lookup
  result the caller expects.

Spec 8's scenario 5 (a 2-of-3 threshold input signed with 2 keys) disagrees
with the code and with spec 4.4: `_sign_threshold_signature_fulfillment`
raises unless every distinct owner has a key. The model follows the code.

## 5. Proofs (TLAPS)

### `LedgerProofs.tla`

**Assumptions.** All theorems assume only the module's named constants
assumptions:
- `NoneAssumption`: `None` is not a link.
- `BodyAssumption`: the catalogue is well typed, and CREATE inputs fulfill
  nothing. The second half is spec 3's data model; no code in `src/` checks
  it (`Transaction.validate` for a CREATE is outside `src/`).
- `BoundsAssumption`: the bounds are naturals.

### `TypeCorrect`: `Spec => []TypeOK`

The proof goes through the lemma `TypeStep`, with one step per action. It uses
two lemmas on the links a transaction spends and creates, `SpentOutputsType`
and `UnspentOutputsType`.

### `NoDoubleSpendThm`: `Spec => []NoDoubleSpend`

`NoDoubleSpend` is not inductive on its own. A step that commits the block in
memory needs to know that the block's spends are fresh. Preserving that
freshness needs the spent index to cover every committed spend, because that
is what `get_spent` checks at delivery.

The inductive invariant `IInv` strengthens `NoDoubleSpend` with:
- `CoveredByIndex`: every committed spend has its row in the spent index;
- `BatchFresh`: the spends of the block in memory are not committed and are
  pairwise distinct;
- `CommittingIndexed`: once `store_transactions` succeeded, the block's spends
  are indexed;
- `HeightsBelow`: no block is above the current height, so the block committed
  next is new.

TLC checked `IInv` as an invariant of the `MCLedger` instance before it was
proved.

### `SpentIndexCoversChainThm`: `Spec => []SpentIndexCoversChain`

`SpentIndexCoversChain` is the conjunct `CoveredByIndex` of `IInv`, read as
what `get_spent` returns, so it follows from `IInvInit` and `IInvStep`.

**Lemmas:**
- `DeliverFresh`: what validation gives for a delivered transaction's spends.
- `CoveredMono`: adding index rows keeps spends covered.
- `DistinctAdd`: a fresh block keeps committed spends distinct.
- `IInvInit` and `IInvStep`.

A crash or a rollback does not disturb `IInv`. The rollback never removes
spent rows, and `DeleteTransactions` leaves `spentRows` unchanged. So the
`delete_transactions` defect that breaks `SpentIndexOfStoredTxs` is also what
keeps the double-spend guarantee across rollbacks.

### `LedgerRefinementProofs.tla`: `RefinementThm`

`THEOREM RefinementThm == Spec => AbstractSpec`, with no hypothesis beyond
the module's assumptions.

`Consumes` is the link as written, so two inputs consume the same link
exactly when they fulfill it (`ConsumesEq`), and `NoDoubleSpend` of the
blocks gives `SpentOnce` of the chain (`SpentOnceOf`). The theorem says
nothing about two different links that name one output: with negative
indexes the node does not implement a ledger of outputs, as the
`negative_index_double_spend` run shows.

The inductive invariant is `RInv`, which is `IInv` strengthened with:
- `ByHeight`: every height `0..height` has exactly one block, so `Chain` is
  a sequence of length `height`;
- `BatchValid`: every transaction in the block in memory satisfies `ValidTx`
  (lemma `ValidateValid`).

`RefinementStep` has one case per action. `CommitBlock` appends a block at
`height + 1` (`HeightsAdd`, `ChainAdd`) whose transactions are valid and
which keeps `SpentOnce` (`SpentOnceOf`). Every other action leaves `blocks`
and `height` as they are, which is a stutter of `Chain`. Rollback deletes only
`transactions` rows and never blocks.

### `SigningProofs.tla`: `FreshSignValidatesThm`

`THEOREM FreshSignValidatesThm == ASSUME Reachable PROVE Spec => FreshSignValidates`.

`Reachable` says that every threshold is at most the number of distinct
owners. The code accepts a larger threshold, and that condition can never be
fulfilled. The invariant `Shape` (lemma `ShapeInvariant`) says that each
input's fulfillment is a map over all keys. `FreshSignStep` shows:
- a `sign` that returns on a transaction with no id and no `tx_dict` signs
  `Message(body, None)`, the message `_inputs_valid` rebuilds;
- it hashes the signed inputs with `id` None, the dict `validate_id` hashes.

`FreshSignStep` assumes only that `tx_dict` is unset or holds the current
body. So the same step proves `CurrentDictSignValidates`: a sign with every
key validates whenever `tx_dict` is current. The `stale_tx_dict` run breaks
`SignedInputsValidate` only through a `tx_dict` that a later `add_output`
made stale.

### `SigningProofs.tla`: `TypeCorrect`

`THEOREM TypeCorrect == Spec => []TypeOK`, for `Signing`.

`TypeOK` says that the ids and the signed messages are built from ids of
depth at most `signs`. The depth is given by the recursive function
`IdField`, so the proof needs two facts about it for every depth:
- `IdFieldUnfold`: `IdField[d + 1] = IdStep(IdField[d])`. It comes from the
  library theorem `NatInductiveDef`, instantiated with a LAMBDA.
- `IdFieldMono`: `IdField[d] \subseteq IdField[d + 1]`. A failed `sign` still
  counts as a call, and the id it leaves must stay typed at the next depth.
  This is proved by induction over `Nat`.

The backends cannot use `NatInduction`, because its predicate parameter is
applied inline. The lemma `NatInd` therefore derives induction from
`NatInductiveUnique`, whose parameter occurs only inside opaque operators:
- `[i \in Nat |-> 1]` satisfies a recursion built from `P`;
- so does `[i \in Nat |-> IF P(i) THEN 1 ELSE 0]`, once `P(0)` and the
  induction step hold;
- uniqueness makes the two functions equal, which gives `P(i)` for every `i`.

`TypeStep` has one step per action, using `SignedUpToType` (the type of the
inputs after the loop of `sign`) and `StepMono`.

### What stays with TLC

- No liveness property is checked. Liveness would need fairness and
  ENABLED, which are out of the prover's reach.
- Every violation is found by TLC. A proof cannot show a counterexample.
- Nothing is proved about `AbstractLedger` on its own. Its properties reach
  the node only through the refinement.

## 6. Not modelled, and why

- **C2 crypto-conditions** are a library outside the repository. A
  fulfillment is the message its leaves signed.
- **C1 byte encoding** (`_to_str`, `_to_hash`, `serialized`) is modelled by
  what it separates. It is an injective map, and the properties only ask which
  fields go into it.
- **`memoize_from_dict` and the other caches** are outside `src/`.
- **The other Tarantool spaces** (`validators`, `elections`, `abci_chains`,
  `assets`, `meta_data`) are written and read by the election and ABCI-chain
  code of the node, which is outside `src/`. Their queries are plain
  inserts and selects with no protocol of their own in the repository.
- **`from_db`, `to_inputs`, `add_input`** build objects and change no shared
  state. No property of the ledger or of signing tells their results apart
  from the catalogue's bodies.
- **The consensus engine** is the environment. It may deliver any
  transaction at any time.
