------------------------------- MODULE AbePlugin -------------------------------
(***************************************************************************)
(* The master keys in Vault plugin mode: CPABEService._ensure_keys_exist   *)
(* with USE_VAULT_PLUGIN and ENABLE_PQC_FEATURES, over the plugin mounted  *)
(* once per scheme and VaultService.                                       *)
(*                                                                         *)
(* A mount keeps the two secret keys of its scheme where nobody can read   *)
(* them; the public keys are returned by setup once, and recorded in the   *)
(* same Vault document as every other secret, one at a time.  A worker     *)
(* takes a public key it does not find there as a mount without keys, and  *)
(* setup overwrites.  There is no copy of the secret keys.                 *)
(***************************************************************************)
EXTENDS HybridCipher, FiniteSets

CONSTANTS
    Workers,    \* gunicorn worker processes
    Late,       \* workers that get no request before a file was encrypted
    Scheme,     \* CPABE_SCHEME, the scheme files are encrypted with
    Policies,   \* policies, each an attribute that satisfies it
    Faults,     \* what may go wrong: see Hazard
    MaxKeys,    \* bound: key sets generated
    MaxFiles,   \* bound: files encrypted
    MaxFaults   \* bound: outages in a behaviour

Hazard == {"crash",     \* a worker dies, and a request to Vault with it
           "outage"}    \* Vault is sealed or unreachable for a while

ASSUME BoundsAssumption ==
    /\ Late \subseteq Workers /\ Scheme \in Schemes /\ Faults \subseteq Hazard
    /\ MaxKeys \in Nat /\ MaxFiles \in Nat /\ MaxFaults \in Nat

ASSUME PoliciesAssumption == \A s \in Schemes, p \in Policies : Satisfies(s, {p}, p)

Absent == 0
Kinds == {"abe", "pqc"}
Store == [Schemes -> [Kinds -> 0..MaxKeys]]
Empty == [s \in Schemes |-> [k \in Kinds |-> Absent]]

VARIABLES
    mount,      \* msk/abe and msk/pqc in the storage of each mount
    doc,        \* CPABE_PK_<scheme> and PQC_PK_<scheme> in the secrets document
    up,         \* Vault answers
    worker,     \* the process and the request it runs
    generated,  \* setups so far
    files,      \* ciphertexts in the bucket
    faults      \* bounded counter

vars == <<mount, doc, up, worker, generated, files, faults>>

Pcs == {"idle", "fetch", "setup", "setup_pqc", "read", "write", "adopt", "ready"}

NoKey == KeySet("none", Absent)

\* cache: VaultService._cache; scheme, kind: the mount and the key in turn; made: the keys setup
\* returned; read: the document put_secret read; found: the public keys of this pass; pk: self.pk_data.
Process == [pc : Pcs, cache : Store, scheme : Schemes, kind : Kinds, made : 0..MaxKeys, read : Store,
            found : [Schemes -> 0..MaxKeys], pk : [scheme : Schemes \cup {"none"}, set : 0..MaxKeys]]

Started == [pc |-> "idle", cache |-> Empty, scheme |-> "ac17", kind |-> "abe", made |-> Absent,
            read |-> Empty, found |-> [s \in Schemes |-> Absent], pk |-> NoKey]

Ciphertext == [version : {2}, scheme : Schemes,
               capsule : [scheme : Schemes, set : 1..MaxKeys, policy : Policies],
               payload : [signer : 0..MaxKeys, policy : Policies \cup {"nothing"}, data : 1..MaxFiles]]

\* Every variable has its type.
TypeOK ==
    /\ mount \in Store /\ doc \in Store
    /\ up \in BOOLEAN
    /\ worker \in [Workers -> Process]
    /\ generated \in 0..MaxKeys
    /\ files \subseteq Ciphertext
    /\ faults \in 0..MaxFaults

Init ==
    /\ mount = Empty /\ doc = Empty
    /\ up = TRUE
    /\ worker = [w \in Workers |-> Started]
    /\ generated = 0 /\ files = {} /\ faults = 0

At(w, pc) == worker[w].pc = pc
Become(w, job) == worker' = [worker EXCEPT ![w] = job]

\* ac17, then tkn20, then self.pk_data.
NextScheme(job) ==
    IF job.scheme = "ac17" THEN [job EXCEPT !.pc = "fetch", !.scheme = "tkn20", !.kind = "abe"]
    ELSE [job EXCEPT !.pc = "adopt", !.scheme = "ac17", !.kind = "abe"]

\* put_secret has returned, whether or not it wrote: its result is not looked at.
NextKind(job) ==
    IF job.kind = "abe" THEN [job EXCEPT !.pc = "read", !.kind = "pqc"] ELSE NextScheme(job)

\* A request that encrypts or decrypts, or the construction of the service by the first.
Begin(w) ==
    /\ At(w, "idle")
    /\ w \in Late => files # {}
    /\ Become(w, [worker[w] EXCEPT !.pc = "fetch", !.scheme = "ac17", !.kind = "abe"])
    /\ UNCHANGED <<mount, doc, up, generated, files, faults>>

\* Mutant: a secret is looked for in the memory of the process only.
CachedInMemory(job, s, k) == job.cache

(***************************************************************************)
(* VaultService.get_secret(k of s): from the memory of the process, or the *)
(* document, all of which is cached.  None while Vault does not answer.    *)
(***************************************************************************)
Cached(job, s, k) ==
    IF job.cache[s][k] # Absent \/ ~up THEN job.cache
    ELSE [t \in Schemes |-> [j \in Kinds |-> IF doc[t][j] # Absent THEN doc[t][j] ELSE job.cache[t][j]]]

Fetch(w) ==
    LET s == worker[w].scheme
        cache == Cached(worker[w], s, "abe")
        job == [worker[w] EXCEPT !.cache = cache, !.found[s] = cache[s]["abe"]]
    IN  /\ At(w, "fetch")
        /\ Become(w, IF cache[s]["abe"] # Absent THEN NextScheme(job) ELSE [job EXCEPT !.pc = "setup"])
        /\ UNCHANGED <<mount, doc, up, generated, files, faults>>

(***************************************************************************)
(* PUT /setup: the plugin makes new keys and stores msk/abe, then msk/pqc, *)
(* over whatever is there.  An error is logged and the next scheme taken.  *)
(***************************************************************************)
SetupAbe(w) ==
    LET s == worker[w].scheme IN
    /\ At(w, "setup") /\ up
    /\ generated < MaxKeys
    /\ generated' = generated + 1
    /\ mount' = [mount EXCEPT ![s]["abe"] = generated + 1]
    /\ Become(w, [worker[w] EXCEPT !.pc = "setup_pqc", !.made = generated + 1])
    /\ UNCHANGED <<doc, up, files, faults>>

SetupPqc(w) ==
    LET s == worker[w].scheme IN
    /\ At(w, "setup_pqc") /\ up
    /\ mount' = [mount EXCEPT ![s]["pqc"] = worker[w].made]
    /\ Become(w, [worker[w] EXCEPT !.pc = "read", !.found[s] = worker[w].made])
    /\ UNCHANGED <<doc, up, generated, files, faults>>

SetupFails(w) ==
    /\ worker[w].pc \in {"setup", "setup_pqc"} /\ ~up
    /\ Become(w, NextScheme([worker[w] EXCEPT !.made = Absent]))
    /\ UNCHANGED <<mount, doc, up, generated, files, faults>>

(***************************************************************************)
(* VaultService.put_secret, for the CP-ABE and then the signature key.     *)
(***************************************************************************)
ReadDocument(w) ==
    /\ At(w, "read") /\ up
    /\ Become(w, [worker[w] EXCEPT !.pc = "write", !.read = doc])
    /\ UNCHANGED <<mount, doc, up, generated, files, faults>>

WriteDocument(w) ==
    LET job == worker[w] IN
    /\ At(w, "write") /\ up
    /\ doc' = [job.read EXCEPT ![job.scheme][job.kind] = job.made]
    /\ Become(w, NextKind([job EXCEPT !.cache[job.scheme][job.kind] = job.made, !.read = Empty]))
    /\ UNCHANGED <<mount, up, generated, files, faults>>

PutFails(w) ==
    /\ worker[w].pc \in {"read", "write"} /\ ~up
    /\ Become(w, NextKind([worker[w] EXCEPT !.read = Empty]))
    /\ UNCHANGED <<mount, doc, up, generated, files, faults>>

\* self.pk_data: the key of the current scheme, or else that of ac17, or what it was.
Adopt(w) ==
    LET job == worker[w]
        s == IF Scheme = "tkn20" /\ job.found["tkn20"] # Absent THEN "tkn20" ELSE "ac17"
    IN  /\ At(w, "adopt")
        /\ Become(w, [job EXCEPT !.pc = "ready", !.made = Absent,
                        !.pk = IF job.found[s] # Absent THEN KeySet(s, job.found[s]) ELSE job.pk])
        /\ UNCHANGED <<mount, doc, up, generated, files, faults>>

(***************************************************************************)
(* encrypt_buffer_and_sign: the recorded public key, or self.pk_data; the  *)
(* plugin signs if its mount has a signature key.  The request may fail.   *)
(***************************************************************************)
PublicKey(w) ==
    LET known == Cached(worker[w], Scheme, "abe")[Scheme]["abe"]
    IN  IF known # Absent THEN KeySet(Scheme, known) ELSE worker[w].pk

Seal(pk, policy, data) ==
    IF mount[Scheme]["pqc"] # Absent
    THEN EncryptBufferAndSign(pk, mount[Scheme]["pqc"], data, policy, Scheme)
    ELSE EncryptBuffer(pk, Plain(data), policy, Scheme)

\* Mutant: files are encrypted before the service has its keys.
EncryptBeforeKeys(w, policy) ==
    LET sealed == Seal(KeySet(Scheme, worker[w].cache[Scheme]["abe"]), policy, Cardinality(files) + 1)
    IN  /\ up
        /\ Cardinality(files) < MaxFiles
        /\ Succeeded(sealed)
        /\ files' = files \cup {sealed.out}
        /\ Become(w, [worker[w] EXCEPT !.pc = "idle"])
        /\ UNCHANGED <<mount, doc, up, generated, faults>>

Encrypt(w, policy) ==
    LET pk == PublicKey(w)
        sealed == Seal(pk, policy, Cardinality(files) + 1)
    IN  /\ At(w, "ready") /\ up
        /\ Cardinality(files) < MaxFiles
        /\ pk # NoKey /\ Succeeded(sealed)
        /\ files' = files \cup {sealed.out}
        /\ Become(w, [worker[w] EXCEPT !.pc = "idle", !.cache = Cached(worker[w], Scheme, "abe")])
        /\ UNCHANGED <<mount, doc, up, generated, faults>>

(***************************************************************************)
(* The other requests leave nothing but what get_secret remembers: key     *)
(* generation asks for no secret, an encryption that fails for the public  *)
(* key, a decryption for the signature and public key of the row's scheme. *)
(***************************************************************************)
Recalled(job) ==
    {job.cache, Cached(job, Scheme, "abe")}
        \cup {Cached([job EXCEPT !.cache = Cached(job, s, "pqc")], s, "abe") : s \in Schemes}

EndRequest(w) ==
    /\ At(w, "ready")
    /\ \E cache \in Recalled(worker[w]) : Become(w, [worker[w] EXCEPT !.pc = "idle", !.cache = cache])
    /\ UNCHANGED <<mount, doc, up, generated, files, faults>>

--------------------------------------------------------------------------------
Restart(w) ==
    /\ "crash" \in Faults
    /\ worker[w] # Started
    /\ Become(w, Started)
    /\ UNCHANGED <<mount, doc, up, generated, files, faults>>

VaultDown ==
    /\ "outage" \in Faults /\ up /\ faults < MaxFaults
    /\ up' = FALSE /\ faults' = faults + 1
    /\ UNCHANGED <<mount, doc, worker, generated, files>>

VaultUp ==
    /\ ~up /\ up' = TRUE
    /\ UNCHANGED <<mount, doc, worker, generated, files, faults>>

Next ==
    \/ VaultDown \/ VaultUp
    \/ \E w \in Workers :
        \/ Begin(w) \/ Fetch(w) \/ SetupAbe(w) \/ SetupPqc(w) \/ SetupFails(w)
        \/ ReadDocument(w) \/ WriteDocument(w) \/ PutFails(w) \/ Adopt(w)
        \/ \E policy \in Policies : Encrypt(w, policy)
        \/ EndRequest(w) \/ Restart(w)

Spec == Init /\ [][Next]_vars

--------------------------------------------------------------------------------
\* The mount a file was encrypted for still holds the master key of its key set: no setup has
\* replaced it.  Nothing else can make a key that opens the file.  (_ensure_keys_exist is to
\* generate keys only where there are none.)
SealedKeysKept == \A f \in files : mount[f.scheme]["abe"] = f.capsule.set

\* Without an outage of Vault that is so: restarts at any step of the key set-up lose no file.
RestartsKeepKeys == faults = 0 => SealedKeysKept

(***************************************************************************)
(* Without an outage, whichever worker has looked for its keys, a file is  *)
(* read and verified with a key generated now for a user who satisfies its *)
(* policy, provided the key that verifies signatures was ever recorded: a  *)
(* worker that died between the two put_secret calls of a setup leaves it  *)
(* out for good.                                                           *)
(***************************************************************************)
FilesOpen ==
    \A w \in Workers, f \in files :
        LET s == f.scheme
            verifier == Cached(worker[w], s, "pqc")[s]["pqc"]
        IN  /\ At(w, "ready") /\ verifier # Absent /\ faults = 0
            => \A sk \in GenKey(KeySet(s, mount[s]["abe"]), {f.capsule.policy}) :
                   LET opened == DecryptBufferAndVerify(sk, verifier, f)
                   IN  Succeeded(opened) /\ opened.out = f.payload.data
===============================================================================
