--------------------------- MODULE SigningProofs ---------------------------
(***************************************************************************)
(* Proofs about the signing pipeline of Signing: a sign with every key of *)
(* a transaction that has neither an id nor a tx_dict yields a            *)
(* transaction whose id and fulfillments validate, for every list of      *)
(* input conditions whose thresholds the owners can reach.                *)
(***************************************************************************)
EXTENDS Signing, NaturalsInduction, TLAPS

(***************************************************************************)
(* Type correctness                                                        *)
(***************************************************************************)

\* The leaves, fulfillments and ids whose `id` fields come from the set v:
\* IdField[d + 1] is IdStep(IdField[d]).
LeafT(v) == {NoSig} \cup [body : 0..MaxAdds, id : v]
SigT(v) == [DOMAIN Cond -> [Key -> LeafT(v)]]
IdStep(v) == {None} \cup [body : 0..MaxAdds, sigs : SigT(v), id : v]

\* IdField is the function its recursive definition describes.
LEMMA IdFieldDef == NatInductiveDefConclusion(IdField, {None}, LAMBDA v, n : IdStep(v))
<1>1. NatInductiveDefHypothesis(IdField, {None}, LAMBDA v, n : IdStep(v))
  BY DEF NatInductiveDefHypothesis, IdField, IdStep, SigT, LeafT
<1>. QED  BY <1>1, NatInductiveDef

\* IdField at 0 and at a successor.
LEMMA IdFieldUnfold ==
    /\ IdField[0] = {None}
    /\ \A d \in Nat : IdField[d + 1] = IdStep(IdField[d])
<1>1. IdField = [i \in Nat |-> IF i = 0 THEN {None} ELSE IdStep(IdField[i - 1])]
  BY IdFieldDef DEF NatInductiveDefConclusion
<1>2. ASSUME NEW d \in Nat PROVE d + 1 \in Nat /\ d + 1 # 0 /\ (d + 1) - 1 = d
  OBVIOUS
<1>. QED  BY <1>1, <1>2

\* Induction over Nat, stated with opaque operators so that it can be
\* instantiated with a LAMBDA.
IndHyp(P(_)) == P(0) /\ \A n \in Nat : P(n) => P(n + 1)
IndConcl(P(_)) == \A n \in Nat : P(n)

\* Induction over Nat, from the uniqueness of a function defined by
\* recursion: [i |-> 1] and [i |-> IF P(i) THEN 1 ELSE 0] satisfy the same
\* recursion once P(0) and the induction step hold.
LEMMA NatInd == ASSUME NEW P(_), IndHyp(P) PROVE IndConcl(P)
<1> DEFINE B(i) == IF P(i) THEN 1 ELSE 0
           D(v, i) == IF B(i) = 1 THEN 1 ELSE v
           c == [i \in Nat |-> 1]
           h == [i \in Nat |-> B(i)]
<1>1. NatInductiveDefConclusion(c, 1, D)
  <2>1. c = [i \in Nat |-> IF i = 0 THEN 1 ELSE D(c[i - 1], i)]
    OBVIOUS
  <2>. QED  BY <2>1 DEF NatInductiveDefConclusion
<1>2. NatInductiveDefConclusion(h, 1, D)
  <2>1. ASSUME NEW i \in Nat \ {0} PROVE B(i) = D(B(i - 1), i)
    <3>1. i - 1 \in Nat /\ (i - 1) + 1 = i
      OBVIOUS
    <3>2. P(i - 1) => P(i)
      BY <3>1 DEF IndHyp
    <3>. QED  BY <3>2
  <2>2. B(0) = 1
    BY DEF IndHyp
  <2>3. h = [i \in Nat |-> IF i = 0 THEN 1 ELSE D(h[i - 1], i)]
    BY <2>1, <2>2
  <2>. QED  BY <2>3 DEF NatInductiveDefConclusion
<1>3. c = h
  BY <1>1, <1>2, NatInductiveUnique
<1>. QED  BY <1>3 DEF IndConcl

\* The builders are monotonic in the set of id fields.
LEMMA StepMono ==
    ASSUME NEW v, NEW w, v \subseteq w
    PROVE  /\ LeafT(v) \subseteq LeafT(w)
           /\ SigT(v) \subseteq SigT(w)
           /\ IdStep(v) \subseteq IdStep(w)
<1>1. LeafT(v) \subseteq LeafT(w)
  BY DEF LeafT
<1>2. SigT(v) \subseteq SigT(w)
  BY <1>1 DEF SigT
<1>3. IdStep(v) \subseteq IdStep(w)
  BY <1>2 DEF IdStep
<1>. QED  BY <1>1, <1>2, <1>3

\* The ids after d hashes are among the ids after d + 1 hashes.
IdMono(d) == IdField[d] \subseteq IdField[d + 1]

LEMMA IdFieldMono == \A d \in Nat : IdField[d] \subseteq IdField[d + 1]
<1>1. IdMono(0)
  BY IdFieldUnfold DEF IdStep, IdMono
<1>2. ASSUME NEW d \in Nat, IdMono(d) PROVE IdMono(d + 1)
  <2>1. IdStep(IdField[d]) \subseteq IdStep(IdField[d + 1])
    BY <1>2, StepMono DEF IdMono
  <2>. QED  BY <2>1, IdFieldUnfold DEF IdMono
<1>3. IndHyp(LAMBDA d : IdMono(d))
  BY <1>1, <1>2 DEF IndHyp
<1>4. IndConcl(LAMBDA d : IdMono(d))
  BY <1>3, NatInd
<1>. QED  BY <1>4 DEF IndConcl, IdMono

\* _sign_input copies the fulfillment and signs leaves of owners_before,
\* which are keys, with a message of the leaves' type.
LEMMA SignedUpToType ==
    ASSUME NEW v, sigs \in SigT(v), NEW msg \in [body : 0..MaxAdds, id : v], NEW n
    PROVE  SignedUpTo(n, msg) \in SigT(v)
<1>1. ASSUME NEW i \in DOMAIN Cond PROVE SignInput(i, msg) \in [Key -> LeafT(v)]
  <2>1. Cond[i] \in InputCond /\ Cond[i].owners # <<>>
    BY CondAssumption
  <2>2. Cond[i].owners \in Seq(Key)
    BY <2>1 DEF InputCond
  <2>3. Cond[i].owners[1] \in Key /\ Owners(i) \subseteq Key
    BY <2>1, <2>2 DEF Owners
  <2>4. sigs[i] \in [Key -> LeafT(v)] /\ msg \in LeafT(v)
    BY DEF SigT, LeafT
  <2>. QED  BY <2>3, <2>4 DEF SignInput
<1>. QED  BY <1>1 DEF SignedUpTo, SigT

LEMMA TypeInit == Init => TypeOK
<1> SUFFICES ASSUME Init PROVE TypeOK
  OBVIOUS
<1>1. IdField[0] = {None}
  BY IdFieldUnfold
<1>. QED  BY <1>1, SigningBoundsAssumption DEF Init, TypeOK

\* Every call keeps the types: a sign's message and id are built from the
\* id fields of depth signs, which are among those of depth signs + 1.
LEMMA TypeStep == TypeOK /\ [Next]_vars => TypeOK'
<1> SUFFICES ASSUME TypeOK, [Next]_vars PROVE TypeOK'
  OBVIOUS
<1> DEFINE v == IdField[signs]
           w == IdField[signs + 1]
<1>0. /\ signs \in Nat /\ v \subseteq w /\ w = IdStep(v)
      /\ sigs \in SigT(v) /\ txid \in v
  BY IdFieldUnfold, IdFieldMono DEF TypeOK, SigT, LeafT
<1>1. ASSUME NEW keys \in SUBSET Key, Sign(keys) PROVE TypeOK'
  <2>1. Message(body, txid) \in [body : 0..MaxAdds, id : v]
    BY <1>0 DEF Message, TypeOK
  <2>2. sigs' \in SigT(v)
    BY <1>1, <2>1, <1>0, SignedUpToType DEF Sign
  <2>3. sigs' \in SigT(w)
    BY <2>2, <1>0, StepMono
  <2>4. txid' \in w
    BY <1>1, <2>2, <1>0 DEF Sign, Hash, IdStep, TypeOK
  <2>5. signs' = signs + 1 /\ signs + 1 \in 0..MaxSigns
    BY <1>1, <1>0, SigningBoundsAssumption DEF Sign
  <2>. QED  BY <1>1, <2>3, <2>4, <2>5 DEF Sign, TypeOK, SigT, LeafT
<1>2. ASSUME NEW keys \in SUBSET Key, SignRaises(keys) PROVE TypeOK'
  <2>1. Message(body, txid) \in [body : 0..MaxAdds, id : v]
    BY <1>0 DEF Message, TypeOK
  <2>2. PICK f \in DOMAIN Cond : sigs' = SignedUpTo(f, Message(body, txid))
    BY <1>2 DEF SignRaises
  <2>3. sigs' \in SigT(w)
    BY <2>1, <2>2, <1>0, SignedUpToType, StepMono
  <2>4. txid' \in w
    BY <1>2, <1>0 DEF SignRaises
  <2>5. signs' = signs + 1 /\ signs + 1 \in 0..MaxSigns
    BY <1>2, <1>0, SigningBoundsAssumption DEF SignRaises
  <2>. QED  BY <1>2, <2>3, <2>4, <2>5 DEF SignRaises, TypeOK, SigT, LeafT
<1>3. CASE AddOutput
  <2>1. body' \in 0..MaxAdds
    BY <1>3, SigningBoundsAssumption DEF AddOutput, TypeOK
  <2>. QED  BY <1>3, <2>1 DEF AddOutput, TypeOK
<1>4. CASE FromDict
  BY <1>4 DEF FromDict, TypeOK
<1>5. CASE UNCHANGED vars
  BY <1>5 DEF vars, TypeOK
<1>. QED  BY <1>1, <1>2, <1>3, <1>4, <1>5 DEF Next

\* Signing.TypeOK for every list of input conditions and every bound: after
\* any sequence of sign (returning or raising KeypairMismatch), add_output
\* and from_dict calls, every id and every signed message is built from the
\* body and from ids of at most as many hashes as there were calls of sign.
THEOREM TypeCorrect == Spec => []TypeOK
  BY TypeInit, TypeStep, PTL DEF Spec

\* The fulfillments have one leaf per key for every input, and sign has
\* been called a natural number of times.
Shape ==
    /\ signs \in Nat
    /\ DOMAIN sigs = DOMAIN Cond
    /\ \A i \in DOMAIN Cond : DOMAIN sigs[i] = Key

\* Every threshold condition can be met by the signatures of its owners
\* (the code does not check this: a condition with a larger threshold is
\* accepted and can never be fulfilled).
Reachable ==
    \A i \in DOMAIN Cond :
        Cond[i].kind = "threshold" => Cond[i].thr <= Cardinality(Owners(i))

\* _sign_input leaves the fulfillment of input i a map over the same keys,
\* and the leaves it signs hold the message.
LEMMA SignInputShape ==
    ASSUME Shape, NEW i \in DOMAIN Cond, NEW msg
    PROVE  /\ DOMAIN SignInput(i, msg) = Key
           /\ Cond[i].kind = "ed25519" => SignInput(i, msg)[Cond[i].owners[1]] = msg
           /\ Cond[i].kind # "ed25519" =>
                 \A k \in Owners(i) : SignInput(i, msg)[k] = msg
<1>1. Cond[i] \in InputCond /\ Cond[i].owners # <<>>
  BY CondAssumption
<1>2. Cond[i].owners \in Seq(Key)
  BY <1>1 DEF InputCond
<1>3. Cond[i].owners[1] \in Key
  BY <1>1, <1>2
<1>4. Owners(i) \subseteq Key
  BY <1>2 DEF Owners
<1>5. DOMAIN sigs[i] = Key
  BY DEF Shape
<1>6. CASE Cond[i].kind = "ed25519"
  BY <1>3, <1>5, <1>6 DEF SignInput
<1>7. CASE Cond[i].kind # "ed25519"
  BY <1>4, <1>7 DEF SignInput
<1>. QED  BY <1>6, <1>7

\* Shape holds initially and every step keeps it.
LEMMA ShapeInvariant == Spec => []Shape
<1>1. Init => Shape
  BY DEF Init, Shape
<1>2. Shape /\ [Next]_vars => Shape'
  <2> SUFFICES ASSUME Shape, [Next]_vars PROVE Shape'
    OBVIOUS
  <2>1. ASSUME NEW n, NEW msg
        PROVE  /\ DOMAIN SignedUpTo(n, msg) = DOMAIN Cond
               /\ \A i \in DOMAIN Cond : DOMAIN SignedUpTo(n, msg)[i] = Key
    BY SignInputShape DEF SignedUpTo, Shape
  <2>2. CASE \E keys \in SUBSET Key : Sign(keys) \/ SignRaises(keys)
    BY <2>1, <2>2 DEF Sign, SignRaises, Shape
  <2>3. CASE AddOutput \/ FromDict
    BY <2>3 DEF AddOutput, FromDict, Shape
  <2>4. CASE UNCHANGED vars
    BY <2>4 DEF vars, Shape
  <2>. QED  BY <2>2, <2>3, <2>4 DEF Next
<1>. QED  BY <1>1, <1>2, PTL DEF Spec

\* A sign that returns on a transaction without an id, whose tx_dict is
\* unset or holds the current body, leaves the id valid and every input
\* valid.
LEMMA FreshSignStep ==
    ASSUME Reachable, Shape, [Next]_vars,
           txid = None, txDict \in {None, body}, SignReturned
    PROVE  (IdValid /\ InputsValid)'
<1>1. PICK keys \in SUBSET Key : Sign(keys)
  <2>1. ~(\E ks \in SUBSET Key : SignRaises(ks))
    BY DEF SignRaises, SignReturned
  <2>2. ~(AddOutput \/ FromDict \/ UNCHANGED vars)
    BY DEF AddOutput, FromDict, vars, SignReturned, Shape
  <2>. QED  BY <2>1, <2>2 DEF Next
<1> DEFINE msg == Message(body, None)
<1>2. sigs' = SignedUpTo(Len(Cond) + 1, msg) /\ body' = body /\ txDict' = txDict
  BY <1>1 DEF Sign
<1>3. IdValid'
  BY <1>1, <1>2 DEF Sign, IdValid
<1>4. ASSUME NEW i \in DOMAIN Cond
      PROVE  IF Cond[i].kind = "ed25519"
             THEN sigs'[i][Cond[i].owners[1]] = msg
             ELSE Cardinality({k \in Owners(i) : sigs'[i][k] = msg}) >= Cond[i].thr
  <2>1. i < Len(Cond) + 1 /\ sigs'[i] = SignInput(i, msg)
    <3>1. Cond \in Seq(InputCond)
      BY CondAssumption
    <3>. QED  BY <3>1, <1>2 DEF SignedUpTo
  <2>2. CASE Cond[i].kind = "ed25519"
    BY <2>1, <2>2, SignInputShape
  <2>3. CASE Cond[i].kind # "ed25519"
    <3>1. {k \in Owners(i) : sigs'[i][k] = msg} = Owners(i)
      BY <2>1, <2>3, SignInputShape
    <3>2. Cond[i].kind = "threshold"
      <4>1. Cond[i] \in InputCond
        BY CondAssumption
      <4>. QED  BY <4>1, <2>3 DEF InputCond
    <3>3. Cond[i].thr <= Cardinality(Owners(i))
      BY <3>2 DEF Reachable
    <3>. QED  BY <3>1, <3>3, <2>3
  <2>. QED  BY <2>2, <2>3
<1>5. InputsValid'
  <2>1. (IF txDict' = None THEN body' ELSE txDict') = body
    BY <1>2
  <2>. QED  BY <2>1, <1>4 DEF InputsValid, Validates
<1>. QED  BY <1>3, <1>5

\* FreshSignValidates for every list of input conditions whose thresholds
\* are reachable: Transaction.sign with every key, on a transaction built
\* without an id, gives an id that validate_id accepts and fulfillments
\* that _inputs_valid accepts.
THEOREM FreshSignValidatesThm ==
    ASSUME Reachable PROVE Spec => FreshSignValidates
<1>1. Reachable /\ Shape /\ [Next]_vars =>
        [(txid = None /\ txDict = None /\ SignReturned) => (IdValid /\ InputsValid)']_vars
  BY FreshSignStep
<1>. QED  BY <1>1, ShapeInvariant, PTL DEF FreshSignValidates, Spec

\* A sign with every key validates whenever tx_dict is current: on a
\* transaction without an id whose tx_dict is unset or holds the current
\* body, a sign that returns yields an id validate_id accepts and
\* fulfillments _inputs_valid accepts.  Only a tx_dict made stale by a
\* later add_output (the stale_tx_dict run) breaks SignedInputsValidate.
THEOREM CurrentDictSignValidates ==
    ASSUME Reachable
    PROVE  Spec => [][(txid = None /\ txDict \in {None, body} /\ SignReturned)
                          => (IdValid /\ InputsValid)']_vars
<1>1. Reachable /\ Shape /\ [Next]_vars =>
        [(txid = None /\ txDict \in {None, body} /\ SignReturned) => (IdValid /\ InputsValid)']_vars
  BY FreshSignStep
<1>. QED  BY <1>1, ShapeInvariant, PTL DEF Spec

====
