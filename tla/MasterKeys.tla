------------------------------ MODULE MasterKeys ------------------------------
(***************************************************************************)
(* The master keys of the CP-ABE service: CPABEService._ensure_keys_exist  *)
(* (library mode, ENABLE_PQC_FEATURES on) over VaultService.               *)
(*                                                                         *)
(* Every gunicorn worker has its own service, created by the first request *)
(* that needs it, and runs _ensure_keys_exist then and before every file   *)
(* it encrypts or decrypts.  The four keys are in one Vault document, which *)
(* put_secret reads and writes back whole, one key at a time, and in four  *)
(* files of a local backup.  A worker may die between any two steps, and   *)
(* in the middle of writing a file; Vault may be sealed or unreachable,    *)
(* and either store may be wiped.                                          *)
(*                                                                         *)
(* A key is modelled by the number of the setup() that made it; a file     *)
(* that was opened for writing, which truncates it, and not written yet is *)
(* Torn.                                                                   *)
(***************************************************************************)
EXTENDS Integers, Sequences

CONSTANTS
    Workers,    \* gunicorn worker processes
    Late,       \* workers that get no request before a file was encrypted
    Faults,     \* what may go wrong: see Hazard
    MaxKeys,    \* bound: calls of setup()
    MaxFaults   \* bound: faults in a behaviour

Hazard == {"outage",        \* Vault is sealed or unreachable for a while
           "vault_wiped", "backup_wiped",
           "save_fails",    \* a file of the backup cannot be opened or written
           "save_dies"}     \* a worker dies between opening a file and writing it

ASSUME BoundsAssumption ==
    /\ Late \subseteq Workers /\ Faults \subseteq Hazard
    /\ MaxKeys \in Nat \ {0} /\ MaxFaults \in Nat

\* The keys, in the order in which they are fetched, pushed and saved.
Order == <<"CPABE_MSK", "CPABE_PK", "PQC_SK", "PQC_PK">>
Steps == 1..4
Parts == {Order[i] : i \in Steps}

Absent == 0
Torn == -1
Store == [Parts -> (0..MaxKeys) \cup {Torn}]
Empty == [k \in Parts |-> Absent]
\* All are there (os.path.exists); what is in them is not looked at.
Whole(store) == \A k \in Parts : store[k] # Absent

VARIABLES
    vault,      \* the document at VAULT_SECRET_PATH
    up,         \* Vault answers
    backup,     \* the files in KEYS_DIR
    worker,     \* the process and the request it runs
    generated,  \* calls of setup() so far
    sealed,     \* the keys files were encrypted and signed with
    faults      \* bounded counter

vars == <<vault, up, backup, worker, generated, sealed, faults>>

Pcs == {"idle", "fetch", "decide", "read", "write", "backup", "saving", "ready", "halted"}

\* mem: the service's key attributes; cache: VaultService._cache; doc: the secrets
\* fetched, or the document put_secret read; step: the key in turn; fresh: whether
\* the keys pushed are new, to be saved next; created: __init__ has returned.
Process == [pc : Pcs, mem : Store, cache : Store, doc : Store, step : Steps, fresh : BOOLEAN,
            created : BOOLEAN]

Started == [pc |-> "idle", mem |-> Empty, cache |-> Empty, doc |-> Empty, step |-> 1,
            fresh |-> FALSE, created |-> FALSE]

TypeOK ==
    /\ vault \in Store /\ backup \in Store
    /\ up \in BOOLEAN
    /\ worker \in [Workers -> Process]
    /\ generated \in 0..MaxKeys
    /\ sealed \subseteq [pk : 1..MaxKeys, sk : 1..MaxKeys]
    /\ faults \in 0..MaxFaults

Init ==
    /\ vault = Empty /\ up = TRUE
    /\ backup = Empty
    /\ worker = [w \in Workers |-> Started]
    /\ generated = 0 /\ sealed = {} /\ faults = 0

At(w, pc) == worker[w].pc = pc
Become(w, job) == worker' = [worker EXCEPT ![w] = job]
Key(w) == Order[worker[w].step]
IsLast(w) == worker[w].step = 4

\* A request that encrypts or decrypts.
Begin(w) ==
    /\ At(w, "idle")
    /\ w \in Late => sealed # {}
    /\ Become(w, [worker[w] EXCEPT !.pc = "fetch", !.step = 1])
    /\ UNCHANGED <<vault, up, backup, generated, sealed, faults>>

(***************************************************************************)
(* VaultService.get_secret: what this process has not cached is read, and  *)
(* all the document holds is cached with it.  None while Vault is down.    *)
(***************************************************************************)
Fetch(w) ==
    LET known == worker[w].cache[Key(w)] # Absent \/ ~up
        cache == IF known THEN worker[w].cache
                 ELSE [k \in Parts |-> IF vault[k] # Absent THEN vault[k] ELSE worker[w].cache[k]]
    IN  /\ At(w, "fetch")
        /\ Become(w, [worker[w] EXCEPT !.cache = cache, !.doc[Key(w)] = cache[Key(w)],
                        !.pc = IF IsLast(w) THEN "decide" ELSE "fetch",
                        !.step = IF IsLast(w) THEN 1 ELSE @ + 1])
        /\ UNCHANGED <<vault, up, backup, generated, sealed, faults>>

(***************************************************************************)
(* What the two stores hold decides.  Reading the backup is one step.      *)
(***************************************************************************)
\* Both are whole: "CRITICAL ERROR", and the request fails, unless the master keys agree.
Compare(w) ==
    /\ At(w, "decide")
    /\ Whole(worker[w].doc) /\ Whole(backup)
    /\ Become(w, IF worker[w].doc["CPABE_MSK"] = backup["CPABE_MSK"]
                 THEN [worker[w] EXCEPT !.pc = "ready", !.mem = worker[w].doc]
                 ELSE [worker[w] EXCEPT !.pc = "halted"])
    /\ UNCHANGED <<vault, up, backup, generated, sealed, faults>>

AdoptVault(w) ==
    /\ At(w, "decide")
    /\ Whole(worker[w].doc) /\ ~Whole(backup)
    /\ Become(w, [worker[w] EXCEPT !.pc = "backup", !.mem = worker[w].doc])
    /\ UNCHANGED <<vault, up, backup, generated, sealed, faults>>

\* mutant: the service keeps what it fetched
AdoptBackupFetched(w) ==
    /\ At(w, "decide")
    /\ ~Whole(worker[w].doc) /\ Whole(backup)
    /\ Become(w, [worker[w] EXCEPT !.pc = "read", !.mem = worker[w].doc, !.fresh = FALSE])
    /\ UNCHANGED <<vault, up, backup, generated, sealed, faults>>
AdoptBackup(w) ==
    /\ At(w, "decide")
    /\ ~Whole(worker[w].doc) /\ Whole(backup)
    /\ Become(w, [worker[w] EXCEPT !.pc = "read", !.mem = backup, !.fresh = FALSE])
    /\ UNCHANGED <<vault, up, backup, generated, sealed, faults>>

\* mutant: keys missing from Vault are generated, backup or not
GenerateRegardless(w) ==
    /\ At(w, "decide")
    /\ ~Whole(worker[w].doc)
    /\ generated < MaxKeys
    /\ generated' = generated + 1
    /\ Become(w, [worker[w] EXCEPT !.pc = "read", !.fresh = TRUE,
                                   !.mem = [k \in Parts |-> generated + 1]])
    /\ UNCHANGED <<vault, up, backup, sealed, faults>>
Generate(w) ==
    /\ At(w, "decide")
    /\ ~Whole(worker[w].doc) /\ ~Whole(backup)
    /\ generated < MaxKeys
    /\ generated' = generated + 1
    /\ Become(w, [worker[w] EXCEPT !.pc = "read", !.fresh = TRUE,
                                   !.mem = [k \in Parts |-> generated + 1]])
    /\ UNCHANGED <<vault, up, backup, sealed, faults>>

(***************************************************************************)
(* VaultService.put_secret, for each key in turn                           *)
(***************************************************************************)
\* mutant: one key too many
PushedPastLast(w, job) ==
    IF worker[w].step <= 4 THEN [job EXCEPT !.pc = "read", !.step = @ + 1]
    ELSE [job EXCEPT !.step = 1, !.pc = IF job.fresh THEN "backup" ELSE "ready"]
Pushed(w, job) ==
    IF ~IsLast(w) THEN [job EXCEPT !.pc = "read", !.step = @ + 1]
    ELSE [job EXCEPT !.step = 1, !.pc = IF job.fresh THEN "backup" ELSE "ready"]

ReadDocument(w) ==
    /\ At(w, "read") /\ up
    /\ Become(w, [worker[w] EXCEPT !.pc = "write", !.doc = vault])
    /\ UNCHANGED <<vault, up, backup, generated, sealed, faults>>

WriteDocument(w) ==
    /\ At(w, "write") /\ up
    /\ vault' = [worker[w].doc EXCEPT ![Key(w)] = worker[w].mem[Key(w)]]
    /\ Become(w, Pushed(w, [worker[w] EXCEPT !.cache[Key(w)] = worker[w].mem[Key(w)]]))
    /\ UNCHANGED <<up, backup, generated, sealed, faults>>

\* put_secret answers False, which nobody looks at.
PutFails(w) ==
    /\ worker[w].pc \in {"read", "write"} /\ ~up
    /\ Become(w, Pushed(w, worker[w]))
    /\ UNCHANGED <<vault, up, backup, generated, sealed, faults>>

(***************************************************************************)
(* _save_backup                                                            *)
(***************************************************************************)
OpenFile(w) ==
    /\ At(w, "backup")
    /\ backup' = [backup EXCEPT ![Key(w)] = Torn]
    /\ Become(w, [worker[w] EXCEPT !.pc = "saving"])
    /\ UNCHANGED <<vault, up, generated, sealed, faults>>

WriteFile(w) ==
    /\ At(w, "saving")
    /\ backup' = [backup EXCEPT ![Key(w)] = worker[w].mem[Key(w)]]
    /\ Become(w, IF IsLast(w) THEN [worker[w] EXCEPT !.pc = "ready", !.step = 1]
                              ELSE [worker[w] EXCEPT !.pc = "backup", !.step = @ + 1])
    /\ UNCHANGED <<vault, up, generated, sealed, faults>>

Fault(kind) ==
    /\ kind \in Faults
    /\ faults < MaxFaults /\ faults' = faults + 1

\* "Could not save CP-ABE key backup": the exception is swallowed.
SaveFails(w) ==
    /\ worker[w].pc \in {"backup", "saving"} /\ Fault("save_fails")
    /\ Become(w, [worker[w] EXCEPT !.pc = "ready", !.step = 1])
    /\ UNCHANGED <<vault, up, backup, generated, sealed>>

SaveDies(w) ==
    /\ At(w, "saving") /\ Fault("save_dies")
    /\ Become(w, Started)
    /\ UNCHANGED <<vault, up, backup, generated, sealed>>

(***************************************************************************)
(* The rest of the request, and the environment                            *)
(***************************************************************************)
\* The first request of a process creates its service, whose __init__ looks for the
\* keys; the operation then looks again.
Create(w) ==
    /\ At(w, "ready") /\ ~worker[w].created
    /\ Become(w, [worker[w] EXCEPT !.pc = "fetch", !.created = TRUE])
    /\ UNCHANGED <<vault, up, backup, generated, sealed, faults>>

\* encrypt_buffer_and_sign; the library refuses what is not a key.
Seal(w) ==
    /\ At(w, "ready") /\ worker[w].created
    /\ Torn \notin {worker[w].mem["CPABE_PK"], worker[w].mem["PQC_SK"]}
    /\ sealed' = sealed \cup {[pk |-> worker[w].mem["CPABE_PK"],
                               sk |-> worker[w].mem["PQC_SK"]]}
    /\ Become(w, [worker[w] EXCEPT !.pc = "idle"])
    /\ UNCHANGED <<vault, up, backup, generated, faults>>

Respond(w) ==
    /\ worker[w].pc \in {"ready", "halted"}
    /\ At(w, "ready") => worker[w].created
    /\ Become(w, [worker[w] EXCEPT !.pc = "idle"])
    /\ UNCHANGED <<vault, up, backup, generated, sealed, faults>>

\* The process dies, or is replaced by gunicorn, at any other step.
Restart(w) ==
    /\ worker[w] # Started /\ ~At(w, "saving")
    /\ Become(w, Started)
    /\ UNCHANGED <<vault, up, backup, generated, sealed, faults>>

\* Vault and the backup are sound until the first file is encrypted.
VaultDown ==
    /\ up /\ sealed # {} /\ Fault("outage") /\ up' = FALSE
    /\ UNCHANGED <<vault, backup, worker, generated, sealed>>
VaultUp ==
    /\ ~up /\ up' = TRUE
    /\ UNCHANGED <<vault, backup, worker, generated, sealed, faults>>
LoseVault ==
    /\ sealed # {} /\ vault # Empty /\ Fault("vault_wiped") /\ vault' = Empty
    /\ UNCHANGED <<up, backup, worker, generated, sealed>>
LoseBackup ==
    /\ sealed # {} /\ backup # Empty /\ Fault("backup_wiped") /\ backup' = Empty
    /\ UNCHANGED <<vault, up, worker, generated, sealed>>

EnsureKeysExist(w) ==
    \/ Begin(w) \/ Fetch(w)
    \/ Compare(w) \/ AdoptVault(w) \/ AdoptBackup(w) \/ Generate(w)
    \/ ReadDocument(w) \/ WriteDocument(w) \/ PutFails(w)
    \/ OpenFile(w) \/ WriteFile(w) \/ SaveFails(w) \/ SaveDies(w)

Next ==
    \/ \E w \in Workers : EnsureKeysExist(w) \/ Create(w) \/ Seal(w) \/ Respond(w) \/ Restart(w)
    \/ VaultDown \/ VaultUp \/ LoseVault \/ LoseBackup

Spec == Init /\ [][Next]_vars

(***************************************************************************)
(* Properties                                                              *)
(***************************************************************************)

\* A set of keys opens a file if its master key matches the public key the file was
\* encrypted with, and its verification key the one it was signed with.
Opens(store, s) == store["CPABE_MSK"] = s.pk /\ store["PQC_PK"] = s.sk

\* A fault, and any number of restarts, never cost the keys of a file: Vault or the
\* backup holds them, complete enough for _ensure_keys_exist to adopt.
SealedRecoverable ==
    \A s \in sealed : \E store \in {vault, backup} : Whole(store) /\ Opens(store, s)

\* Every service, whatever the stores went through while it ran or started, holds the
\* keys of every file there is.
ServiceOpensAll ==
    \A w \in Workers : worker[w].created => \A s \in sealed : Opens(worker[w].mem, s)

\* The stores never contradict each other: a request that finds keys in both reads the
\* same master key, or has caught another one in the middle of writing that file.
NoSplitBrain ==
    \A w \in Workers :
        At(w, "decide") /\ Whole(worker[w].doc) /\ Whole(backup) =>
            \/ worker[w].doc["CPABE_MSK"] = backup["CPABE_MSK"]
            \/ \E v \in Workers : At(v, "saving") /\ Key(v) = "CPABE_MSK"
=============================================================================
