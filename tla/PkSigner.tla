------------------------------ MODULE PkSigner ------------------------------
(***************************************************************************)
(* signer.c: the private keys of a client.  Every key is a plugin of its   *)
(* own, asked in the order of registration; keys come from the             *)
(* configuration, from in3_addRawKey, in3_addJsonKey and in3_addMnemonic,  *)
(* and from the program.                                                   *)
(***************************************************************************)
EXTENDS Integers, Sequences, SequencesExt

CONSTANTS Pk,          \* private keys
          Mnemonics,   \* what bip32 derives from a mnemonic: sequences of keys
          KeyLists,    \* what the options pk and pk_ed25519 may be: sequences of keys and Bad
          Bad, None,
          MaxSigners   \* bound

VARIABLES signers,  \* the plugins that sign: [kind, pk, curve]
          jsons,    \* keys in3_decryptKey is asked for
          told      \* accounts the user was told of

vars == <<signers, jsons, told>>

Ecdsa == "secp256k1"
Ed25519 == "ed25519"
Digests == {"raw", "prefix", "hash", "btc"}

(* The hash of the public key, 20 bytes, or for ed25519 the public key. *)
get_address(pk, curve) == [curve |-> curve, of |-> pk]
signer_key(kind, pk, curve) == [kind |-> kind, pk |-> pk, curve |-> curve]
AccountOf(s) == get_address(s.pk, s.curve)

-----------------------------------------------------------------------------
(* Mutant: the curve of the other key is not compared. *)
KnownOnAnyCurve(ss, pk, curve) == \E i \in DOMAIN ss : ss[i].kind = "pk" /\ ss[i].pk = pk

(* A signer has the same account. *)
Known(ss, pk, curve) == \E i \in DOMAIN ss : ss[i].kind = "pk" /\ ss[i].curve = curve /\ ss[i].pk = pk

(* add_key.  Of an account 20 bytes are allocated and copied, but those of     *)
(* ed25519 are compared with 32: a known one may look like another.            *)
add_key(ss, pk, curve) ==
  LET added == Append(ss, signer_key("pk", pk, curve))
  IN  IF ~Known(ss, pk, curve) THEN {added} ELSE IF curve = Ed25519 THEN {ss, added} ELSE {ss}
AddAll(ss, pks, curve) == FoldLeft(LAMBDA S, k : UNION {add_key(t, k, curve) : t \in S}, {ss}, pks)

(* pk_add_from_config: the keys before one of another length stay. *)
Usable(ks) == IF Contains(ks, Bad) THEN SubSeq(ks, 1, SelectInSeq(ks, LAMBDA k : k = Bad) - 1) ELSE ks

Room(n) == Len(signers) + n <= MaxSigners
TellNew(ss) == told' = told \cup {AccountOf(ss[i]) : i \in Len(signers) + 1..Len(ss)}

ConfigPk(ks, curve) ==
  /\ Room(Len(ks))
  /\ \E ss \in AddAll(signers, Usable(ks), curve) : signers' = ss /\ TellNew(ss)
  /\ UNCHANGED jsons

(* The option key: eth_set_request_signer replaces the signer that was there. *)
ConfigKey(pk) ==
  /\ Room(1)
  /\ LET s == signer_key("req", pk, Ecdsa)
     IN  signers' = IF \E i \in DOMAIN signers : signers[i].kind = "req"
                    THEN [i \in DOMAIN signers |-> IF signers[i].kind = "req" THEN s ELSE signers[i]]
                    ELSE Append(signers, s)
  /\ UNCHANGED <<jsons, told>>

(* add_raw_key: the account is the result, whether the key is new or not. *)
AddRawKey(pk, curve) ==
  /\ Room(1)
  /\ signers' \in add_key(signers, pk, curve)
  /\ told' = told \cup {get_address(pk, curve)}
  /\ UNCHANGED jsons

(* in3_addJsonKey waits for the key that is decrypted, or its error. *)
AddJsonKey(pk) == jsons' = jsons \cup {pk} /\ UNCHANGED <<signers, told>>
Decrypted(pk) ==
  /\ pk \in jsons /\ Room(1)
  /\ signers' \in add_key(signers, pk, Ecdsa)
  /\ told' = told \cup {get_address(pk, Ecdsa)}
  /\ jsons' = jsons \ {pk}
NotDecrypted(pk) == pk \in jsons /\ jsons' = jsons \ {pk} /\ UNCHANGED <<signers, told>>

(* in3_addMnemonic: the result are the keys that were not there. *)
AddMnemonic(ks, curve) ==
  /\ Room(Len(ks))
  /\ \E ss \in AddAll(signers, ks, curve) : signers' = ss /\ TellNew(ss)
  /\ UNCHANGED jsons

(* eth_set_pk_signer, by the program, does not look for the key. *)
SetSigner(pk, curve) ==
  /\ Room(1)
  /\ signers' = Append(signers, signer_key("pk", pk, curve))
  /\ told' = told \cup {get_address(pk, curve)}
  /\ UNCHANGED jsons

Init == signers = <<>> /\ jsons = {} /\ told = {}

Next ==
  \/ \E pk \in Pk : ConfigKey(pk) \/ AddJsonKey(pk) \/ Decrypted(pk) \/ NotDecrypted(pk)
  \/ \E curve \in {Ecdsa, Ed25519} :
       \/ \E pk \in Pk : AddRawKey(pk, curve) \/ SetSigner(pk, curve)
       \/ \E ks \in KeyLists : ConfigPk(ks, curve)
       \/ \E ks \in Mnemonics : AddMnemonic(ks, curve)

Spec == Init /\ [][Next]_vars

-----------------------------------------------------------------------------
(* PLGN_ACT_SIGN: who signs, on which curve and what of the message. *)
Ignored == "EIGNORE"
NotSupported == "ENOTSUP"
Signature(curve, pk, digest) == [curve |-> curve, pk |-> pk, digest |-> digest]

sign_with_pk(pk, digest) == IF digest \in Digests THEN Signature(Ecdsa, pk, digest) ELSE [ret |-> NotSupported]

(* Mutant: the account is not compared. *)
SignForAnyone(s, account, curve, digest) ==
  IF curve = Ecdsa THEN sign_with_pk(s.pk, digest) ELSE Signature(Ed25519, s.pk, "raw")

(* The curve of the key is not compared with the one that is asked for. *)
eth_sign_pk(s, account, curve, digest) ==
  IF account # None /\ account # AccountOf(s) THEN [ret |-> Ignored]
  ELSE IF curve = Ecdsa THEN sign_with_pk(s.pk, digest) ELSE Signature(Ed25519, s.pk, "raw")

eth_sign_req(s, account, digest) ==
  IF account = None \/ account # AccountOf(s) THEN [ret |-> Ignored]
  ELSE IF digest \in {"raw", "hash"} THEN Signature(Ecdsa, s.pk, digest) ELSE [ret |-> NotSupported]

Asked(s, account, curve, digest) == IF s.kind = "pk" THEN eth_sign_pk(s, account, curve, digest) ELSE eth_sign_req(s, account, digest)

(* in3_plugin_execute_first *)
Sign(account, curve, digest) ==
  LET Answers(i) == Asked(signers[i], account, curve, digest) # [ret |-> Ignored]
      willing == {i \in DOMAIN signers : Answers(i)}
  IN  IF willing = {} THEN [ret |-> Ignored]
      ELSE Asked(signers[CHOOSE i \in willing : \A j \in willing : i <= j], account, curve, digest)

(* eth_accounts *)
eth_accounts == LET ks == SelectSeq(signers, LAMBDA s : s.kind = "pk") IN [i \in DOMAIN ks |-> AccountOf(ks[i])]

-----------------------------------------------------------------------------
Digested(a, digest) == IF a.curve = Ecdsa THEN digest ELSE "raw"

(* An account the user was told of stays able to sign, and what is signed for *)
(* it is signed with its key: unless the key is the request signer's too, of  *)
(* which only two digests are known.                                          *)
ToldCanSign ==
  \A a \in told, digest \in Digests :
    LET shadowed == \E i \in DOMAIN signers : signers[i].kind = "req" /\ AccountOf(signers[i]) = a
    IN  digest \in {"raw", "hash"} \/ ~shadowed => Sign(a, a.curve, digest) = Signature(a.curve, a.of, Digested(a, digest))

(* Nobody signs for an account that is not there; and without an account the  *)
(* first account that eth_accounts gives is the one that signs.               *)
OthersDoNotSign ==
  /\ \A pk \in Pk, curve \in {Ecdsa, Ed25519} :
       (\A i \in DOMAIN signers : AccountOf(signers[i]) # get_address(pk, curve)) =>
         Sign(get_address(pk, curve), curve, "raw") = [ret |-> Ignored]
  /\ eth_accounts # <<>> /\ eth_accounts[1].curve = Ecdsa => Sign(None, Ecdsa, "hash") = Signature(Ecdsa, eth_accounts[1].of, "hash")

KeysSign == ToldCanSign /\ OthersDoNotSign
=============================================================================
