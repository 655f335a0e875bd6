----------------------------- MODULE MCSigning -----------------------------
(***************************************************************************)
(* A transaction with an Ed25519 input of kA and a 2-of-3 threshold input  *)
(* of kA, kB and kC: a sign with kA alone replaces the first input and     *)
(* raises at the second.                                                   *)
(***************************************************************************)
EXTENDS Signing

CONSTANTS kA, kB, kC

MCCond ==
    << [kind |-> "ed25519", owners |-> <<kA>>, thr |-> 1],
       [kind |-> "threshold", owners |-> <<kA, kB, kC>>, thr |-> 2] >>
====
