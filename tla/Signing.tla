------------------------------ MODULE Signing ------------------------------
(***************************************************************************)
(* The signing pipeline of one Transaction object (Transaction.sign,       *)
(* _sign_input and the Ed25519 and threshold signers) together with what   *)
(* reads its result: _hash, validate_id and _inputs_valid / _input_valid,  *)
(* and the two calls that change the object between signs: add_output and *)
(* a rebuild through from_dict, which keeps the dict it was given as       *)
(* tx_dict.                                                                *)
(*                                                                         *)
(* Serialization and hashing are abstracted to injective record builders:  *)
(* the message an input signs is the unsigned body together with the value *)
(* of the `id` field, and the id is the body, the fulfillments and the     *)
(* `id` field that were hashed.  The unsigned body is a version number     *)
(* that add_output bumps.  A fulfillment is the map from its leaves' keys  *)
(* to the message each leaf's signature is over.                           *)
(***************************************************************************)
EXTENDS Naturals, Sequences, FiniteSets

CONSTANTS
    Key,       \* public keys (a private key is named by its public key)
    None,      \* the null of `id` and of tx_dict
    NoSig,     \* a leaf that carries no signature
    Cond,      \* Cond[i]: kind, owners_before and threshold of input i
    MaxSigns,  \* bound on the calls of sign
    MaxAdds    \* bound on the calls of add_output

InputCond == [kind : {"ed25519", "threshold"}, owners : Seq(Key), thr : Nat \ {0}]

ASSUME CondAssumption ==
    /\ Cond \in Seq(InputCond)
    /\ \A i \in DOMAIN Cond : Cond[i].owners # <<>>
ASSUME SigningBoundsAssumption == MaxSigns \in Nat /\ MaxAdds \in Nat
ASSUME SentinelAssumption == None # NoSig

VARIABLES
    sigs,      \* sigs[i][k]: what the leaf of key k in input i's fulfillment signed
    txid,      \* self._id
    body,      \* the unsigned body (operation, asset, outputs, ...), as a version
    txDict,    \* self.tx_dict: the body of the dict from_dict was given, or None
    result,    \* how the last call of sign ended
    lastKeys,  \* the private keys the last call of sign was given
    signs      \* calls of sign so far

vars == <<sigs, txid, body, txDict, result, lastKeys, signs>>

Owners(i) == {Cond[i].owners[n] : n \in DOMAIN Cond[i].owners}

\* _remove_signatures(to_dict()) serialized: the body and the `id` field.
Message(b, idField) == [body |-> b, id |-> idField]

\* hash_data(serialized): the body, the fulfillments and the `id` field.
Hash(b, s, idField) == [body |-> b, sigs |-> s, id |-> idField]

(***************************************************************************)
(* Signing                                                                 *)
(***************************************************************************)

\* _sign_input raises KeypairMismatchException unless the keys cover the
\* leaves it signs: owners_before[0] for an Ed25519 fulfillment, every
\* distinct owner for a threshold one.
CanSign(i, keys) ==
    IF Cond[i].kind = "ed25519" THEN Cond[i].owners[1] \in keys
                                ELSE Owners(i) \subseteq keys

\* Mutant: the leaf signs the `id` field instead of the whole message.
SignInputIdOnly(i, msg) ==
    IF Cond[i].kind = "ed25519"
    THEN [sigs[i] EXCEPT ![Cond[i].owners[1]] = msg.id]
    ELSE [k \in Key |-> IF k \in Owners(i) THEN msg.id ELSE sigs[i][k]]

\* The fulfillment _sign_input returns: a deep copy of input i with the
\* leaves it signs holding a signature over msg.
SignInput(i, msg) ==
    IF Cond[i].kind = "ed25519"
    THEN [sigs[i] EXCEPT ![Cond[i].owners[1]] = msg]
    ELSE [k \in Key |-> IF k \in Owners(i) THEN msg ELSE sigs[i][k]]

\* self.inputs after the loop of sign has replaced the inputs before n.
SignedUpTo(n, msg) ==
    [i \in DOMAIN Cond |-> IF i < n THEN SignInput(i, msg) ELSE sigs[i]]

\* Mutant: _hash called before the loop replaces the inputs.
SignHashFirst(keys) ==
    /\ signs < MaxSigns
    /\ \A i \in DOMAIN Cond : CanSign(i, keys)
    /\ sigs' = SignedUpTo(Len(Cond) + 1, Message(body, txid))
    /\ txid' = Hash(body, sigs, txid)
    /\ result' = "ok"
    /\ lastKeys' = keys
    /\ signs' = signs + 1
    /\ UNCHANGED <<body, txDict>>

\* sign(private_keys) returning: every input is replaced by its signed copy,
\* the message being the serialized dict with the fulfillments removed and
\* the `id` field as it is; then _hash sets the id from the signed dict.
Sign(keys) ==
    /\ signs < MaxSigns
    /\ \A i \in DOMAIN Cond : CanSign(i, keys)
    /\ sigs' = SignedUpTo(Len(Cond) + 1, Message(body, txid))
    /\ txid' = Hash(body, sigs', txid)
    /\ result' = "ok"
    /\ lastKeys' = keys
    /\ signs' = signs + 1
    /\ UNCHANGED <<body, txDict>>

\* sign(private_keys) raising at the first input the keys do not cover: the
\* inputs before it are already replaced, _hash is not reached.
SignRaises(keys) ==
    /\ signs < MaxSigns
    /\ \E f \in DOMAIN Cond :
          /\ ~CanSign(f, keys)
          /\ \A i \in 1..(f - 1) : CanSign(i, keys)
          /\ sigs' = SignedUpTo(f, Message(body, txid))
    /\ result' = "KeypairMismatch"
    /\ lastKeys' = keys
    /\ signs' = signs + 1
    /\ UNCHANGED <<txid, body, txDict>>

(***************************************************************************)
(* The other calls                                                         *)
(***************************************************************************)

\* add_output: one more output; the id and the fulfillments stay.
AddOutput ==
    /\ body < MaxAdds
    /\ body' = body + 1
    /\ UNCHANGED <<sigs, txid, txDict, result, lastKeys, signs>>

\* Transaction.from_dict(tx.to_dict()): the same fields, hash_id the dict's
\* id, and tx_dict the dict itself.
FromDict ==
    /\ txDict' = body
    /\ UNCHANGED <<sigs, txid, body, result, lastKeys, signs>>

Init ==
    /\ sigs = [i \in DOMAIN Cond |-> [k \in Key |-> NoSig]]
    /\ txid = None
    /\ body = 0
    /\ txDict = None
    /\ result = "none"
    /\ lastKeys = {}
    /\ signs = 0

Next ==
    \/ \E keys \in SUBSET Key : Sign(keys) \/ SignRaises(keys)
    \/ AddOutput
    \/ FromDict

Spec == Init /\ [][Next]_vars

(***************************************************************************)
(* Validation of the result                                                *)
(***************************************************************************)

\* _input_valid: the parsed fulfillment validates msg: the Ed25519 leaf
\* signed it, or at least thr leaves of the threshold fulfillment did.
Validates(i, msg) ==
    IF Cond[i].kind = "ed25519"
    THEN sigs[i][Cond[i].owners[1]] = msg
    ELSE Cardinality({k \in Owners(i) : sigs[i][k] = msg}) >= Cond[i].thr

\* _inputs_valid: the message is built from tx_dict when it is set, else
\* from to_dict(), with the fulfillments removed and `id` set to None.
InputsValid ==
    LET b == IF txDict = None THEN body ELSE txDict IN
    \A i \in DOMAIN Cond : Validates(i, Message(b, None))

\* validate_id(to_dict()): the id is the hash of the dict with `id` None.
IdValid == txid = Hash(body, sigs, None)

(***************************************************************************)
(* Properties                                                              *)
(***************************************************************************)

\* The ids and messages after d hashes: an id field is None or the hash of
\* a body, fulfillments over such messages and an earlier id field.
IdField[d \in Nat] ==
    IF d = 0 THEN {None}
    ELSE {None} \cup [body : 0..MaxAdds,
                      sigs : [DOMAIN Cond -> [Key -> {NoSig} \cup
                                 [body : 0..MaxAdds, id : IdField[d - 1]]]],
                      id : IdField[d - 1]]

TypeOK ==
    /\ txid \in IdField[signs]
    /\ sigs \in [DOMAIN Cond -> [Key -> {NoSig} \cup
                    [body : 0..MaxAdds, id : IdField[signs]]]]
    /\ body \in 0..MaxAdds
    /\ txDict \in {None} \cup 0..MaxAdds
    /\ result \in {"none", "ok", "KeypairMismatch"}
    /\ lastKeys \subseteq Key
    /\ signs \in 0..MaxSigns

\* A call of sign that returned.
SignReturned == signs' = signs + 1 /\ result' = "ok"

\* Building a transaction and signing it with every key gives a transaction
\* that validates (validate_id and inputs_valid), whatever add_output calls
\* and failed sign calls came before: sign's message, _hash and the
\* message _inputs_valid rebuilds must agree.
FreshSignValidates ==
    [][(txid = None /\ txDict = None /\ SignReturned) => (IdValid /\ InputsValid)']_vars

\* Spec 8: Sign(sign(t, keys), keys) == sign(t, keys): signing again with
\* the keys of a sign that returned changes neither the fulfillments nor
\* the id.
SignIdempotent ==
    [][(result = "ok" /\ SignReturned /\ lastKeys' = lastKeys) => UNCHANGED <<sigs, txid>>]_vars

\* Spec 4.4: a sign that fails leaves the transaction in its pre-signing
\* state (no input replaced, the id unchanged).
SignFailureAtomic ==
    [][(signs' = signs + 1 /\ result' = "KeypairMismatch") => UNCHANGED <<sigs, txid>>]_vars

\* Signing a transaction that has no id yet with every key makes its
\* fulfillments validate, also for a transaction rebuilt by from_dict and
\* then given another output (spec 4.5: the message is recomputed over the
\* canonical unsigned form of the transaction).
SignedInputsValidate ==
    [][(txid = None /\ SignReturned) => InputsValid']_vars

====
