------------------------------ MODULE MCLedger ------------------------------
(***************************************************************************)
(* A catalogue of transactions for the ledger: two CREATEs and transfers   *)
(* that hit each check of validate_transfer_inputs (spec 8's end-to-end    *)
(* scenarios: a chain, a conflicting transfer, an amount mismatch, an      *)
(* asset mismatch, the same output spent twice, a fulfillment for the      *)
(* wrong condition, an under-signed fulfillment, and two distinct outputs  *)
(* of one transaction spent together).                                     *)
(***************************************************************************)
EXTENDS Ledger

CONSTANTS MaxHeight, c1, c2, t1, t2, t3, t4, t5, t6, t7, t8, t9, t10, kA, kB

In(l, c, s) == [fulfills |-> l, cond |-> c, signed |-> s]
Out(a, c) == [amount |-> a, cond |-> c]
L(t, i) == [txid |-> t, output |-> i]

MCBodyAll ==
    [t \in {c1, c2, t1, t2, t3, t4, t5, t6, t7, t8, t9, t10} |->
       CASE t = c1 -> [operation |-> "CREATE", asset |-> None,
                       inputs |-> <<In(None, kA, TRUE)>>, outputs |-> <<Out(2, kA)>>]
         [] t = c2 -> [operation |-> "CREATE", asset |-> None,
                       inputs |-> <<In(None, kB, TRUE)>>, outputs |-> <<Out(1, kB)>>]
         \* c1 -> B and A
         [] t = t1 -> [operation |-> "TRANSFER", asset |-> c1,
                       inputs |-> <<In(L(c1, 0), kA, TRUE)>>,
                       outputs |-> <<Out(1, kB), Out(1, kA)>>]
         \* conflicts with t1
         [] t = t2 -> [operation |-> "TRANSFER", asset |-> c1,
                       inputs |-> <<In(L(c1, 0), kA, TRUE)>>, outputs |-> <<Out(2, kB)>>]
         \* both outputs of t1 (valid boundary case)
         [] t = t3 -> [operation |-> "TRANSFER", asset |-> c1,
                       inputs |-> <<In(L(t1, 0), kB, TRUE), In(L(t1, 1), kA, TRUE)>>,
                       outputs |-> <<Out(2, kA)>>]
         \* amount mismatch
         [] t = t4 -> [operation |-> "TRANSFER", asset |-> c1,
                       inputs |-> <<In(L(c1, 0), kA, TRUE)>>, outputs |-> <<Out(1, kB)>>]
         \* asset mismatch: an output of c1's history and c2's
         [] t = t5 -> [operation |-> "TRANSFER", asset |-> c1,
                       inputs |-> <<In(L(t1, 0), kB, TRUE), In(L(c2, 0), kB, TRUE)>>,
                       outputs |-> <<Out(2, kB)>>]
         \* the same output twice
         [] t = t6 -> [operation |-> "TRANSFER", asset |-> c1,
                       inputs |-> <<In(L(c1, 0), kA, TRUE), In(L(c1, 0), kA, TRUE)>>,
                       outputs |-> <<Out(4, kB)>>]
         \* B's fulfillment on A's output
         [] t = t7 -> [operation |-> "TRANSFER", asset |-> c1,
                       inputs |-> <<In(L(c1, 0), kB, TRUE)>>, outputs |-> <<Out(2, kB)>>]
         \* fulfillment that does not validate
         [] t = t8 -> [operation |-> "TRANSFER", asset |-> c1,
                       inputs |-> <<In(L(c1, 0), kA, FALSE)>>, outputs |-> <<Out(2, kB)>>]
         \* c2 -> A
         [] t = t9 -> [operation |-> "TRANSFER", asset |-> c2,
                       inputs |-> <<In(L(c2, 0), kB, TRUE)>>, outputs |-> <<Out(1, kA)>>]
         \* c1's only output named by index -1
         [] t = t10 -> [operation |-> "TRANSFER", asset |-> c1,
                        inputs |-> <<In(L(c1, -1), kA, TRUE)>>, outputs |-> <<Out(2, kB)>>]]

\* The heights the model explores.
HeightBound == height <= MaxHeight

\* The catalogue of the main run: spec 8's scenarios.
MCTxId == {c1, c2, t1, t2, t3, t4, t5, t6, t7, t8}
MCBody == [t \in MCTxId |-> MCBodyAll[t]]

\* A transfer naming c1's output by index -1 beside one naming it by 0.
MCTxIdNeg == {c1, t1, t10}
MCBodyNeg == [t \in MCTxIdNeg |-> MCBodyAll[t]]

\* Two CREATEs in two blocks and a transfer of the second.
MCTxIdCrash == {c1, c2, t9}
MCBodyCrash == [t \in MCTxIdCrash |-> MCBodyAll[t]]
MCCond == {kA, kB}
=============================================================================
