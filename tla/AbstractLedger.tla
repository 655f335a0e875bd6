--------------------------- MODULE AbstractLedger ---------------------------
(***************************************************************************)
(* What the committed ledger promises its readers (spec 8): a chain of     *)
(* blocks that only grows at its end, one block per height, in which every *)
(* transaction passes the checks that depend on the transaction alone      *)
(* (conditions, asset, amounts) and no output link is consumed twice, by   *)
(* two inputs of one block or of two blocks.                               *)
(***************************************************************************)
EXTENDS Naturals, Sequences

CONSTANTS
    TxId,          \* transaction ids
    Consumes(_),   \* Consumes(t): input position -> the link that input consumes
    Valid(_)       \* Valid(t): t passes the state-free checks of validation

VARIABLE chain     \* chain[h]: the transactions of the block at height h

\* The inputs of the transaction at position k of block h, with the link
\* each consumes.
SpendsAt(c, h, k) ==
    {[at |-> <<h, k, j>>, link |-> Consumes(c[h][k])[j]] : j \in DOMAIN Consumes(c[h][k])}

\* Every input of the chain with the link it consumes.
Spends(c) == UNION {UNION {SpendsAt(c, h, k) : k \in DOMAIN c[h]} : h \in DOMAIN c}

\* Every link is consumed at one place of the chain at most.
SpentOnce(c) == \A p, q \in Spends(c) : p.link = q.link => p = q

Init == chain = <<>>

\* A block is committed at the next height: the chain before it is kept, its
\* transactions are valid and it consumes no link consumed before.
AppendBlock ==
    /\ Len(chain') = Len(chain) + 1
    /\ \A h \in DOMAIN chain : chain'[h] = chain[h]
    /\ chain'[Len(chain')] \in Seq(TxId)
    /\ \A k \in DOMAIN chain'[Len(chain')] : Valid(chain'[Len(chain')][k])
    /\ SpentOnce(chain')

Spec == Init /\ [][AppendBlock]_chain
====
