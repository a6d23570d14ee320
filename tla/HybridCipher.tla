----------------------------- MODULE HybridCipher -----------------------------
(***************************************************************************)
(* The hybrid encryption of src/src/vault-plugin/plugin: a random key,     *)
(* encapsulated under an attribute policy by one of two schemes, encrypts  *)
(* a payload by AES-GCM; the payload may carry an ML-DSA signature of the  *)
(* policy and the data.                                                    *)
(*                                                                         *)
(* Cryptography is taken as correct: a ciphertext is a record of what was  *)
(* put into it, and what can be taken out is decided by these operators.   *)
(* A key set is the number of the setup that made it; 0 is none.           *)
(***************************************************************************)
EXTENDS Naturals

CONSTANTS
    Satisfies(_, _, _),     \* Satisfies(scheme, attributes, policy)
    Parses(_, _)            \* Parses(scheme, policy): the library accepts the text

Schemes == {"ac17", "tkn20"}
Unsigned == 0

Done(out) == [code |-> "SUCCESS", out |-> out]
Fail(code) == [code |-> code, out |-> "nothing"]
Succeeded(result) == result.code = "SUCCESS"

--------------------------------------------------------------------------------
\* Keys.  The master key and the public key of a set are told apart by their use.
KeySet(scheme, n) == [scheme |-> scheme, set |-> n]

\* rabe keeps all the attributes it is given.
Ac17GenKey(msk, attrs) ==
    IF msk.scheme # "ac17" THEN {}
    ELSE {[scheme |-> "ac17", set |-> msk.set, attrs |-> attrs]}

\* "a:x a:y" is parsed into a Go map, so one value is left of an attribute; which one is last
\* depends on the order in which Python lists a set.
Tkn20GenKey(msk, attrs) ==
    IF msk.scheme # "tkn20" THEN {}
    ELSE {[scheme |-> "tkn20", set |-> msk.set, attrs |-> kept] :
            kept \in {S \in SUBSET attrs : /\ {a[1] : a \in S} = {a[1] : a \in attrs}
                                           /\ \A a, b \in S : a[1] = b[1] => a = b}}

\* The secret keys that generating one may return.
GenKey(msk, attrs) == Ac17GenKey(msk, attrs) \cup Tkn20GenKey(msk, attrs)

--------------------------------------------------------------------------------
Capsule(pk, policy) == [scheme |-> pk.scheme, set |-> pk.set, policy |-> policy]

Ac17Encapsulate(pk, policy) ==
    IF pk.scheme # "ac17" THEN Fail("INVALID_KEY")
    ELSE IF ~Parses("ac17", policy) THEN Fail("CRYPTO_FAILED")
    ELSE Done(Capsule(pk, policy))

Tkn20Encapsulate(pk, policy) ==
    IF pk.scheme # "tkn20" \/ ~Parses("tkn20", policy) THEN Fail("CRYPTO_FAILED")
    ELSE Done(Capsule(pk, policy))

Ac17Decapsulate(sk, capsule) ==
    IF sk.scheme # "ac17" THEN Fail("INVALID_KEY")
    ELSE IF capsule.scheme # "ac17" THEN Fail("CRYPTO_FAILED")
    ELSE IF sk.set # capsule.set \/ ~Satisfies("ac17", sk.attrs, capsule.policy) THEN Fail("POLICY_MISMATCH")
    ELSE Done(capsule)

\* The Go library does not say why it failed.
Tkn20Decapsulate(sk, capsule) ==
    IF /\ sk.scheme = "tkn20" /\ capsule.scheme = "tkn20" /\ sk.set = capsule.set
       /\ Satisfies("tkn20", sk.attrs, capsule.policy)
    THEN Done(capsule) ELSE Fail("POLICY_MISMATCH")

--------------------------------------------------------------------------------
\* Mutant: the writer keeps the format without a scheme byte.
EncryptBufferOldFormat(pk, payload, policy, scheme) ==
    LET capsule == IF scheme = "ac17" THEN Ac17Encapsulate(pk, policy)
                   ELSE Tkn20Encapsulate(pk, policy)
    IN  IF ~Succeeded(capsule) THEN capsule
        ELSE Done([version |-> 1, scheme |-> scheme, capsule |-> capsule.out, payload |-> payload])

\* Written as version 2, with a scheme byte; version 1 had none and meant ac17.
EncryptBuffer(pk, payload, policy, scheme) ==
    LET capsule == IF scheme = "ac17" THEN Ac17Encapsulate(pk, policy)
                   ELSE Tkn20Encapsulate(pk, policy)
    IN  IF ~Succeeded(capsule) THEN capsule
        ELSE Done([version |-> 2, scheme |-> scheme, capsule |-> capsule.out, payload |-> payload])

\* The scheme comes from the ciphertext, whatever the caller believes it to be.
DecryptBuffer(sk, ct) ==
    IF ct.version \notin {1, 2} THEN Fail("VERSION_MISMATCH")
    ELSE LET key == IF ct.version = 1 \/ ct.scheme = "ac17" THEN Ac17Decapsulate(sk, ct.capsule)
                    ELSE Tkn20Decapsulate(sk, ct.capsule)
         IN  IF Succeeded(key) THEN Done(ct.payload) ELSE key

Plain(data) == [signer |-> Unsigned, policy |-> "nothing", data |-> data]

EncryptBufferAndSign(pk, signer, data, policy, scheme) ==
    EncryptBuffer(pk, [signer |-> signer, policy |-> policy, data |-> data], policy, scheme)

\* A payload without a signature is refused too, as one that is too short or does not verify.
DecryptBufferAndVerify(sk, verifier, ct) ==
    LET payload == DecryptBuffer(sk, ct)
    IN  IF ~Succeeded(payload) THEN payload
        ELSE IF payload.out.signer = Unsigned THEN Fail("CRYPTO_FAILED")
        ELSE IF payload.out.signer # verifier THEN Fail("SIGNATURE_INVALID")
        ELSE Done(payload.out.data)
===============================================================================
