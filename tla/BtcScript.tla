------------------------------ MODULE BtcScript ------------------------------
(***************************************************************************)
(* Bitcoin scripts, their addresses, and the inputs the client unlocks     *)
(* with its signatures: btc_script.c, btc_address.c, btc_sign.c, and the   *)
(* utxos of btc_types.c.  A script is the sequence of its bytes, with the  *)
(* sizes the network gives them.                                           *)
(***************************************************************************)
EXTENDS Integers, Sequences, SequencesExt

OP_0 == 0
OP_PUSHDATA1 == 76
OP_1 == 81
OP_15 == 95
OP_16 == 96
OP_DUP == 118
OP_EQUAL == 135
OP_EQUALVERIFY == 136
OP_HASH160 == 169
OP_CHECKSIG == 172
OP_CHECKMULTISIG == 174
MaxScript == 10000

(* A byte; what is read before or behind a script is not one the tests ask for. *)
At(s, i) == IF i \in DOMAIN s THEN s[i] ELSE -1
Last1(s) == At(s, Len(s))
Last2(s) == At(s, Len(s) - 1)
Slice(s, a, b) == [i \in 1..(IF b >= a THEN b - a + 1 ELSE 0) |-> At(s, a + i - 1)]

-----------------------------------------------------------------------------
(* btc_script.c: the type of a script. *)

pub_key_is_valid(k) == (Len(k) = 65 /\ At(k, 1) = 4) \/ (Len(k) = 33 /\ At(k, 1) \in {2, 3})

is_p2ms_format(s) ==
  /\ Last1(s) = OP_CHECKMULTISIG
  /\ At(s, 1) <= Last2(s) /\ At(s, 1) >= OP_1 /\ Last2(s) <= OP_15
  /\ Len(s) > 36 /\ Len(s) < 993
btc_get_multisig_pub_key_count(s) == IF is_p2ms_format(s) THEN Last2(s) - 80 ELSE 0
btc_get_multisig_req_sig_count(s) == IF is_p2ms_format(s) THEN At(s, 1) - 80 ELSE 0

is_p2pk(s) == Len(s) = At(s, 1) + 2 /\ At(s, 1) \in {33, 65} /\ Last1(s) = OP_CHECKSIG
is_p2pkh(s) ==
  /\ Len(s) = 25 /\ At(s, 1) = OP_DUP /\ At(s, 2) = OP_HASH160 /\ At(s, 3) = 20
  /\ Last2(s) = OP_EQUALVERIFY /\ Last1(s) = OP_CHECKSIG
is_p2sh(s) == Len(s) = 23 /\ At(s, 1) = OP_HASH160 /\ At(s, 2) = 20 /\ Last1(s) = OP_EQUAL
is_p2wpkh(s) == Len(s) = 22 /\ At(s, 1) = OP_0 /\ At(s, 2) = 20
is_p2wsh(s) == Len(s) = 34 /\ At(s, 1) < OP_PUSHDATA1 /\ At(s, 2) = 32
is_witness_program(s) ==
  Len(s) > 4 /\ Len(s) < 42 /\ At(s, 1) \in {OP_0} \cup OP_1..OP_16 /\ At(s, 2) + 2 = Len(s)

(* Where the i-th key of a multisig script is, by the lengths in front of them. *)
KeyStart(s, i) == FoldLeft(LAMBDA p, j : p + At(s, p) + 1, 2, [j \in 1..i - 1 |-> j])
KeyAt(s, i) == Slice(s, KeyStart(s, i) + 1, KeyStart(s, i) + At(s, KeyStart(s, i)))

(* Mutant: it is enough that the first key is one. *)
FirstKeyIsValid(s) == is_p2ms_format(s) /\ pub_key_is_valid(KeyAt(s, 1))

(* is_p2ms: what lies between the last key and n is not looked at, nor        *)
(* whether the last key ends before them.                                     *)
is_p2ms(s) == is_p2ms_format(s) /\ \A i \in 1..btc_get_multisig_pub_key_count(s) : pub_key_is_valid(KeyAt(s, i))

(* Mutant: a witness program of any version is taken for version 0. *)
TypeOfAnyVersion(s) ==
  CASE is_p2pkh(s) -> "p2pkh" [] is_p2sh(s) -> "p2sh"
    [] Len(s) = 34 /\ At(s, 2) = 32 -> "p2wsh" [] is_p2wpkh(s) -> "p2wpkh"
    [] OTHER -> IF is_p2pk(s) THEN "p2pk" ELSE IF is_p2ms(s) THEN "p2ms" ELSE "non_standard"

btc_get_script_type(s) ==
  IF s = <<>> \/ Len(s) > MaxScript THEN "unsupported"
  ELSE IF is_p2pk(s) THEN "p2pk"
  ELSE IF is_p2pkh(s) THEN "p2pkh"
  ELSE IF is_p2sh(s) THEN "p2sh"
  ELSE IF is_witness_program(s) THEN IF is_p2wpkh(s) THEN "p2wpkh" ELSE IF is_p2wsh(s) THEN "p2wsh" ELSE "non_standard"
  ELSE IF is_p2ms(s) THEN "p2ms" ELSE "non_standard"

script_is_standard(t) == t \notin {"non_standard", "unsupported", "unknown"}
script_is_witness(t) == t \in {"p2wsh", "p2wpkh"}

extract_public_keys_from_multisig(s) ==
  IF ~is_p2ms(s) THEN <<>> ELSE [i \in 1..btc_get_multisig_pub_key_count(s) |-> KeyAt(s, i)]

-----------------------------------------------------------------------------
(* btc_address.c: an address is the prefix or the version, and what it holds. *)

(* RIPEMD-160 of SHA-256: twenty bytes that differ for different inputs. *)
Hash160(b) == [i \in 1..20 |-> (FoldLeft(LAMBDA h, c : (h * 31 + c) % 8191, 7, b) + i) % 251]

NoAddress == [form |-> "none", prefix |-> 0, hash |-> <<>>]
btc_script_type_to_prefix(t) == CASE t = "p2pk" -> 128 [] t = "p2pkh" -> 0 [] t = "p2sh" -> 5 [] OTHER -> 255
btc_addr_from_pub_key_hash(h, prefix) == [form |-> "base58", prefix |-> prefix, hash |-> h]
btc_addr_from_pub_key(k, prefix) == btc_addr_from_pub_key_hash(Hash160(k), prefix)
btc_segwit_addr_from_pub_key_hash(h) == [form |-> "bech32", prefix |-> 0, hash |-> h]
btc_segwit_addr_from_pub_key(k) == IF ~pub_key_is_valid(k) THEN NoAddress ELSE btc_segwit_addr_from_pub_key_hash(Hash160(k))
op_n_to_n(op) == IF op = OP_0 THEN 0 ELSE op - 80
btc_segwit_addr_from_witness_program(s) ==
  IF ~is_witness_program(s) THEN NoAddress
  ELSE [form |-> "bech32", prefix |-> op_n_to_n(s[1]), hash |-> Slice(s, 3, s[2] + 2)]

(* extract_address_from_output: the type comes with the output. *)
extract_address_from_output(s) ==
  LET t == btc_get_script_type(s)
  IN  CASE t = "p2pk" -> IF pub_key_is_valid(Slice(s, 2, s[1] + 1)) THEN btc_addr_from_pub_key(Slice(s, 2, s[1] + 1), 0) ELSE NoAddress
        [] t = "p2pkh" -> btc_addr_from_pub_key_hash(Slice(s, 4, 23), 0)
        [] t = "p2sh" -> btc_addr_from_pub_key_hash(Slice(s, 3, 22), 5)
        [] t = "p2wpkh" -> btc_segwit_addr_from_pub_key_hash(Slice(s, 3, 22))
        [] t = "p2wsh" -> btc_segwit_addr_from_witness_program(s)
        [] OTHER -> NoAddress

(* btc_create_address: the seed is a key, or the script that is hashed. *)
btc_create_address(seed, t) ==
  CASE t \in {"p2pk", "p2pkh"} /\ pub_key_is_valid(seed) -> btc_addr_from_pub_key(seed, btc_script_type_to_prefix(t))
    [] t = "p2sh" /\ script_is_standard(btc_get_script_type(seed)) -> btc_addr_from_pub_key(seed, btc_script_type_to_prefix(t))
    [] t = "p2wpkh" /\ pub_key_is_valid(seed) -> btc_segwit_addr_from_pub_key(seed)
    [] t = "p2wsh" /\ is_p2wsh(seed) -> btc_segwit_addr_from_witness_program(seed)
    [] OTHER -> NoAddress

(* btc_get_addresses: of every output the type, and the address or the keys; *)
(* a type without an address is one the client does not support.             *)
btc_get_addresses(outs) ==
  [i \in DOMAIN outs |->
     LET t == btc_get_script_type(outs[i])
     IN  [type |-> IF script_is_standard(t) THEN t ELSE "unsupported",
          addr |-> IF script_is_standard(t) /\ t # "p2ms" THEN extract_address_from_output(outs[i]) ELSE NoAddress,
          pub_keys |-> IF t = "p2ms" THEN extract_public_keys_from_multisig(outs[i]) ELSE <<>>]]

-----------------------------------------------------------------------------
(* The sequence of an input, bit 22 scaled to TypeFlag and the mask to Mask. *)

CONSTANTS Mask, TypeFlag, DisableFlag     \* powers of two
btc_build_nsequence_relative_locktime(time, value) == (IF time THEN TypeFlag ELSE 0) + value
btc_nsequence_is_relative_locktime(n) == (n \div DisableFlag) % 2 = 0
btc_nsequence_get_relative_locktime_value(n) == IF btc_nsequence_is_relative_locktime(n) THEN n % Mask ELSE 0
DefaultSequence == 2 * DisableFlag - 1

-----------------------------------------------------------------------------
(* Utxos.  The user's [tx_hash, tx_index, script, args]; args is NoArgs or  *)
(* the fields [rlt, script, accounts], each of them perhaps missing.        *)

NoArgs == [given |-> FALSE]
Err == [ok |-> FALSE]

(* handle_utxo_arg; an account is looked for in the array itself, where there *)
(* is none: a multisig needs a list of accounts, and an empty one.            *)
handle_utxo_arg(u, a) ==
  LET raw == IF u.type \in {"p2sh", "p2wsh"} THEN a.script ELSE <<>>
      multi == u.type = "p2ms" \/ (raw # <<>> /\ btc_get_script_type(raw) = "p2ms")
  IN  IF ~a.given THEN u
      ELSE IF \/ a.rlt = "other" \/ ~script_is_standard(u.type)
              \/ u.type \in {"p2sh", "p2wsh"} /\ raw = <<>>
              \/ multi /\ a.accounts # "empty"
           THEN Err
      ELSE [u EXCEPT !.raw = raw,
                     !.sequence = IF a.rlt = "none" THEN DefaultSequence
                                  ELSE btc_build_nsequence_relative_locktime(a.rlt = "time", a.value % Mask)]

(* Index and value are looked for in a number, which has no properties. *)
btc_fill_utxo(i) ==
  handle_utxo_arg([ok |-> TRUE, tx_hash |-> i.tx_hash, tx_index |-> 0, value |-> 0, script |-> i.script,
                   type |-> btc_get_script_type(i.script), raw |-> <<>>, sequence |-> DefaultSequence,
                   req_sigs |-> 0, accounts |-> 0], i.args)

(* The second loop of btc_prepare_utxos: what is signed, and how often. *)
CompleteUtxo(u) ==
  LET hashed == u.type \in {"p2sh", "p2wsh"}
      raw == IF hashed THEN u.raw ELSE u.script
  IN  IF hashed /\ u.raw = <<>> THEN Err
      ELSE [u EXCEPT !.raw = raw, !.accounts = 1, !.req_sigs = IF btc_get_script_type(raw) = "p2ms" THEN raw[2] ELSE 1]

(* btc_prepare_utxos: the utxos, or <<>> for an error. *)
btc_prepare_utxos(inputs) ==
  LET us == [i \in DOMAIN inputs |-> btc_fill_utxo(inputs[i])]
      cs == [i \in DOMAIN us |-> CompleteUtxo(us[i])]
  IN  IF \E i \in DOMAIN us : ~us[i].ok \/ ~script_is_standard(us[i].type) THEN <<>>
      ELSE IF \E i \in DOMAIN cs : ~cs[i].ok THEN <<>> ELSE cs

(* Mutant: only the first utxo decides. *)
FirstIsSegwit(us) == us[1].script[1] < OP_PUSHDATA1

(* btc_set_segwit: the scripts that pay to a key start with a small byte, too. *)
btc_set_segwit(us) == \E i \in DOMAIN us : us[i].script[1] < OP_PUSHDATA1

(* build_unlocking_script: what is written to the script and the witness.    *)
(* Signatures of a script behind a hash are read through a pointer to the    *)
(* first one: the others are undefined.  Such a script has no length in      *)
(* front of it, and two elements are counted besides the signatures.  A      *)
(* key's hash is unlocked in the room of a key of 64 bytes, so that one of   *)
(* 33 has others behind it and one of 65 does not fit.                       *)
MaxP2sh == 520
TooLong(u) == (u.type = "p2sh" /\ Len(u.raw) > MaxP2sh) \/ (u.type = "p2wsh" /\ Len(u.raw) > MaxScript)
Scripts(script, witness) == [ok |-> TRUE, script |-> script, witness |-> witness]
Hashed(u) ==
  (IF u.req_sigs > 1 THEN <<"zero">> ELSE <<>>)
    \o [i \in 1..u.req_sigs |-> IF i = 1 THEN "sig" ELSE "undefined"] \o <<"raw without length">>


build_unlocking_script(u) ==
  CASE TooLong(u) -> Err
    [] u.type = "p2pk" -> Scripts(<<"sig">>, <<>>)
    [] u.type = "p2pkh" -> Scripts(<<"sig", "key that is not of 64 bytes">>, <<>>)
    [] u.type = "p2wpkh" -> Scripts(<<>>, <<"2 elements", "sig", "key">>)
    [] u.type = "p2ms" -> Scripts(<<"zero">> \o [i \in 1..(IF u.req_sigs > u.accounts THEN u.accounts ELSE u.req_sigs) |-> "sig"], <<>>)
    [] u.type = "p2sh" /\ ~TooLong(u) -> Scripts(Hashed(u), <<>>)
    [] u.type = "p2wsh" /\ ~TooLong(u) -> Scripts(<<>>, <<"req_sigs + 2 elements">> \o Hashed(u))

(* btc_serialize_tx_in: the sequence is written where the script begins, and  *)
(* the bytes behind the script stay as they were.                             *)
btc_serialize_tx_in(u, script) ==
  [tx_hash |-> u.tx_hash, tx_index |-> u.tx_index,
   script |-> IF script = <<>> THEN <<>> ELSE <<"sequence over", script>>,
   sequence |-> IF script = <<>> THEN u.sequence ELSE -1]

(* btc_sign_tx: one input after the other; only those with a witness add one. *)
btc_sign_tx(us) ==
  LET built == [i \in DOMAIN us |-> build_unlocking_script(us[i])]
  IN  IF \E i \in DOMAIN us : ~built[i].ok THEN Err
      ELSE [ok |-> TRUE, inputs |-> [i \in DOMAIN us |-> btc_serialize_tx_in(us[i], built[i].script)],
            witnesses |-> SelectSeq([i \in DOMAIN us |-> built[i].witness], LAMBDA w : w # <<>>)]

-----------------------------------------------------------------------------
(* References: the scripts as they are put together. *)

Push(b) == <<Len(b)>> \o b
PayToKey(k) == Push(k) \o <<OP_CHECKSIG>>
PayToKeyHash(h) == <<OP_DUP, OP_HASH160>> \o Push(h) \o <<OP_EQUALVERIFY, OP_CHECKSIG>>
PayToScriptHash(h) == <<OP_HASH160>> \o Push(h) \o <<OP_EQUAL>>
PayToWitness(v, h) == <<v>> \o Push(h)
PayToMultisig(m, ks) == <<80 + m>> \o FoldLeft(LAMBDA s, k : s \o Push(k), <<>>, ks) \o <<80 + Len(ks), OP_CHECKMULTISIG>>

(* What a script of the type is, byte by byte. *)
IsOf(t, s) ==
  CASE t = "p2pk" -> s = PayToKey(Slice(s, 2, Len(s) - 1)) /\ Len(s) \in {35, 67}
    [] t = "p2pkh" -> s = PayToKeyHash(Slice(s, 4, 23))
    [] t = "p2sh" -> s = PayToScriptHash(Slice(s, 3, 22))
    [] t = "p2wpkh" -> s = PayToWitness(OP_0, Slice(s, 3, 22))
    [] t = "p2wsh" -> s = PayToWitness(OP_0, Slice(s, 3, 34))
    [] OTHER -> FALSE

IsMultisig(s) ==
  /\ Len(s) \in 37..992 /\ 81 <= At(s, 1) /\ At(s, 1) <= Last2(s) /\ Last2(s) <= 95
  /\ \A ks \in {[i \in 1..Last2(s) - 80 |-> KeyAt(s, i)]} :
       s = PayToMultisig(s[1] - 80, ks) /\ \A i \in DOMAIN ks : pub_key_is_valid(ks[i])

(* btc_get_script_type: a script is given a type exactly when it is, byte for *)
(* byte, a script of that type; one taken for a multisig has m of n keys, and *)
(* these are the ones that are reported.                                      *)
TypesAreExact(s) ==
  \A t \in {btc_get_script_type(s)} :
    /\ \A u \in {"p2pk", "p2pkh", "p2sh", "p2wpkh", "p2wsh"} : (t = u) <=> IsOf(u, s)
    /\ t = "p2ms" => /\ btc_get_multisig_req_sig_count(s) \in 1..btc_get_multisig_pub_key_count(s)
                     /\ \A ks \in {extract_public_keys_from_multisig(s)} :
                          /\ \A i \in DOMAIN ks : pub_key_is_valid(ks[i])
                          /\ \A m \in {PayToMultisig(btc_get_multisig_req_sig_count(s), ks)} : Slice(m, 1, Len(m) - 2) = Slice(s, 1, Len(m) - 2)
    /\ IsMultisig(s) => t = "p2ms"

(* btc_create_address, extract_address_from_output: the address a user creates *)
(* from a key or a script is the one that is read from an output that pays to  *)
(* it, and two such outputs have different addresses.                          *)
AddressesAgree(k, s) ==
  /\ pub_key_is_valid(k) =>
       /\ btc_create_address(k, "p2pkh") = extract_address_from_output(PayToKeyHash(Hash160(k)))
       /\ btc_create_address(k, "p2pkh") = extract_address_from_output(PayToKey(k))
       /\ btc_create_address(k, "p2wpkh") = extract_address_from_output(PayToWitness(OP_0, Hash160(k)))
       /\ btc_create_address(k, "p2wpkh") # btc_create_address(k, "p2pkh")
  /\ script_is_standard(btc_get_script_type(s)) =>
       btc_create_address(s, "p2sh") = extract_address_from_output(PayToScriptHash(Hash160(s)))
  /\ btc_get_script_type(s) = "p2wsh" => btc_create_address(s, "p2wsh") = extract_address_from_output(s)
  /\ ~pub_key_is_valid(k) => \A t \in {"p2pk", "p2pkh", "p2wpkh"} : btc_create_address(k, t) = NoAddress

(* btc_prepare_utxos, btc_sign_tx: all outputs the user names are spent, or   *)
(* none, in their order, as output 0 of their transactions.  Those of a       *)
(* witness script have the lock time that was asked for, those that pay to    *)
(* the hash of a key the witness the network wants; before it is serialised,  *)
(* the script for a key or a multisig is what takes one signature.  A         *)
(* transaction with a witness is marked as one.                               *)
SpendsAsAsked(inputs) ==
  \A us \in {btc_prepare_utxos(inputs)} : us # <<>> => \A tx \in {btc_sign_tx(us)} : tx.ok =>
    /\ Len(tx.inputs) = Len(inputs)
    /\ \A i \in DOMAIN inputs : \A a \in {inputs[i].args}, built \in {build_unlocking_script(us[i])} :
         /\ tx.inputs[i].tx_hash = inputs[i].tx_hash /\ tx.inputs[i].tx_index = 0
         /\ us[i].type = "p2wpkh" => built.witness = <<"2 elements", "sig", "key">>
         /\ us[i].type = "p2pk" => built.script = <<"sig">>
         /\ us[i].type = "p2ms" => built.script = <<"zero", "sig">>
         /\ script_is_witness(us[i].type) =>
              /\ tx.inputs[i].script = <<>>
              /\ a.given /\ a.rlt \in {"block", "time"} =>
                   /\ btc_nsequence_get_relative_locktime_value(tx.inputs[i].sequence) = a.value % Mask
                   /\ ((tx.inputs[i].sequence \div TypeFlag) % 2 = 1) = (a.rlt = "time")
              /\ ~a.given \/ a.rlt = "none" => ~btc_nsequence_is_relative_locktime(tx.inputs[i].sequence)
    /\ tx.witnesses # <<>> => btc_set_segwit(us)
    /\ btc_set_segwit(us) /\ tx.witnesses = <<>> => \E i \in DOMAIN us : us[i].type = "p2pk"
=============================================================================
