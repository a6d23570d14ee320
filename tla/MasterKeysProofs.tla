--------------------------- MODULE MasterKeysProofs ---------------------------
(***************************************************************************)
(* Proofs about MasterKeys: under the conditions of its run (one worker    *)
(* alone makes the first keys, one fault), but for any number of workers,  *)
(* restarts, key sets and files, no file loses its keys.                   *)
(***************************************************************************)
EXTENDS MasterKeys, TLAPS

\* Two workers that find no keys would both generate.
OneEarly == \A v, w \in Workers \ Late : v = w

\* Pcs of a worker that holds a whole set of keys.
Holding == {"read", "write", "backup", "saving", "ready"}

TypeInv ==
    /\ TypeOK
    /\ \A w \in Workers : worker[w].pc \in Holding => Whole(worker[w].mem)

\* The keys before the one in turn.
Before(step) == {Order[i] : i \in 1..(step - 1)}

\* Keys of one call of setup().
Uniform(store) == \A k \in Parts : store[k] = store["CPABE_MSK"]

\* Every key that a store has is in the other one too.
Within(store, other) == \A k \in Parts : store[k] # Absent => store[k] = other[k]

\* No file of the backup holds another key than the document.
Copies(b, v) == \A k \in Parts : b[k] \in {Absent, Torn, v[k]}

(***************************************************************************)
(* Before the first file.  The last key is pushed last, so a document that *)
(* has it is whole and of one set; the last file is opened last, so with   *)
(* it in the backup the others are what the document holds.                *)
(***************************************************************************)
EarlyTables(v, b) ==
    /\ v["PQC_PK"] # Absent => Whole(v) /\ Uniform(v)
    /\ v["PQC_PK"] = Absent => b = Empty
    /\ Copies(b, v)
    /\ b["PQC_PK"] # Absent => \A k \in Parts \ {"PQC_PK"} : b[k] = v[k]

EarlyJob(j, v, b, n) ==
    /\ Within(j.cache, v)
    /\ j.pc = "fetch" => \A k \in Before(j.step) : j.doc[k] = v[k]
    /\ j.pc \in {"decide", "write"} => j.doc = v
    /\ j.pc \in {"decide", "ready"} => j.step = 1
    /\ j.pc \in {"read", "write"} =>
          /\ j.fresh /\ Uniform(j.mem)
          /\ v["PQC_PK"] = Absent
          /\ \A k \in Before(j.step) : v[k] = j.mem[k]
    /\ j.pc \in {"backup", "saving", "ready"} => Whole(v) /\ j.mem = v
    /\ j.pc \in {"backup", "saving"} =>
          /\ \A k \in Before(j.step) : b[k] = v[k]
          /\ b["PQC_PK"] = Absent \/ (j.pc = "saving" /\ j.step = 4)
    /\ j.pc = "ready" => b = v \/ n # 0

\* A torn file is being written, or its writer died.
EarlyTorn(j, v, b, n) ==
    \A k \in Parts : \/ b[k] \in {Absent, v[k]} \/ n # 0
                     \/ j.pc = "saving" /\ Order[j.step] = k

Early ==
    /\ up
    /\ \A w \in Late : worker[w] = Started
    /\ EarlyTables(vault, backup)
    /\ \A w \in Workers : EarlyJob(worker[w], vault, backup, faults)
    /\ \A w \in Workers \ Late : EarlyTorn(worker[w], vault, backup, faults)

(***************************************************************************)
(* From the first file on.  K is the one key set there is.  A store that   *)
(* lacks keys or has a torn one, or does not answer, or did not when a     *)
(* worker asked, is the fault there was, so the other store holds them.    *)
(***************************************************************************)
Only(store, K) == \A k \in Parts : store[k] # Absent => store[k] = K

LateJob(j, K) ==
    /\ Only(j.cache, K) /\ Only(j.mem, K)
    /\ j.created => Whole(j.mem)
    /\ j.pc = "fetch" => \A k \in Before(j.step) : j.doc[k] \in {Absent, K}
    /\ j.pc \in {"decide", "write"} => Only(j.doc, K)
    /\ j.pc \in {"decide", "ready"} => j.step = 1
    /\ j.pc \in {"read", "write"} => ~j.fresh

\* A worker that missed no key in Vault.
Served(j, K) ==
    /\ j.pc \notin {"read", "write"}
    /\ j.pc = "fetch" => \A k \in Before(j.step) : j.doc[k] = K
    /\ j.pc = "decide" => Whole(j.doc)
VaultHolds(K) == up /\ Whole(vault) /\ \A w \in Workers : Served(worker[w], K)

Rewrites(j) == j.pc \in {"backup", "saving"}
BackupHolds(K) ==
    /\ \A k \in Parts : backup[k] = K
    /\ \A w \in Workers : ~Rewrites(worker[w])

\* A torn master key is being written, or was left before the last file existed and
\* will be written first.
MasterTorn ==
    backup["CPABE_MSK"] = Torn =>
        \/ \E w \in Workers : At(w, "saving") /\ worker[w].step = 1
        \/ /\ backup["PQC_PK"] = Absent
           /\ \A w \in Workers : Rewrites(worker[w]) => worker[w].step = 1

Settled(K) ==
    /\ Only(vault, K) /\ \A k \in Parts : backup[k] \in {Absent, Torn, K}
    /\ \A s \in sealed : s.pk = K /\ s.sk = K
    /\ \A w \in Workers : LateJob(worker[w], K)
    /\ VaultHolds(K) \/ BackupHolds(K)
    /\ faults = 0 => VaultHolds(K) /\ BackupHolds(K)
    /\ MasterTorn

KeyInv == IF sealed = {} THEN Early ELSE \E K \in 1..MaxKeys : Settled(K)

--------------------------------------------------------------------------------
LEMMA Constants == MaxKeys \in Nat /\ MaxFaults \in Nat /\ 1 \in 1..MaxKeys
  BY BoundsAssumption

\* The keys have an order, and the last is PQC_PK.
LEMMA Turns ==
  /\ Parts = {"CPABE_MSK", "CPABE_PK", "PQC_SK", "PQC_PK"}
  /\ \A n \in Steps : Order[n] \in Parts /\ Before(n) \subseteq Parts /\ Order[n] \notin Before(n)
  /\ Before(1) = {}
  /\ \A n \in Steps : n # 4 => /\ n + 1 \in Steps /\ Before(n + 1) = Before(n) \cup {Order[n]}
                               /\ Order[n] # "PQC_PK"
  /\ Before(4) \cup {"PQC_PK"} = Parts /\ Order[4] = "PQC_PK"
<1>1. Order[1] = "CPABE_MSK" /\ Order[2] = "CPABE_PK" /\ Order[3] = "PQC_SK" /\ Order[4] = "PQC_PK"
  BY DEF Order
<1>2. Steps = {1, 2, 3, 4}
  BY DEF Steps
<1>3. Parts = {"CPABE_MSK", "CPABE_PK", "PQC_SK", "PQC_PK"}
  BY <1>1, <1>2 DEF Parts
<1>4. /\ Before(1) = {} /\ Before(2) = {"CPABE_MSK"} /\ Before(3) = {"CPABE_MSK", "CPABE_PK"}
      /\ Before(4) = {"CPABE_MSK", "CPABE_PK", "PQC_SK"}
  <2>1. 1..(1 - 1) = {} /\ 1..(2 - 1) = {1} /\ 1..(3 - 1) = {1, 2} /\ 1..(4 - 1) = {1, 2, 3}
    OBVIOUS
  <2> QED
    BY <1>1, <2>1 DEF Before
<1> QED
  BY <1>1, <1>2, <1>3, <1>4

LEMMA StoreTyped ==
  /\ Empty \in Store /\ Absent \in 0..MaxKeys
  /\ \A d \in Store, k \in Parts, n \in (0..MaxKeys) \cup {Torn} :
        d[k] \in (0..MaxKeys) \cup {Torn} /\ [d EXCEPT ![k] = n] \in Store
  BY Constants DEF Store, Empty, Absent

LEMMA StartedTyped == Started \in Process /\ Started.pc \notin Holding
  BY StoreTyped DEF Started, Process, Pcs, Steps, Holding

\* The key in turn.
LEMMA KeyTyped == ASSUME TypeOK, NEW w \in Workers
                  PROVE  Key(w) \in Parts /\ worker[w].step \in Steps /\ worker[w] \in Process
  BY Turns DEF TypeOK, Process, Key

LEMMA FetchTyped ==
  ASSUME TypeInv, NEW w \in Workers, Fetch(w)
  PROVE  worker'[w] \in Process /\ worker'[w].pc \notin Holding
<1> DEFINE known == worker[w].cache[Key(w)] # Absent \/ ~up
           cache == IF known THEN worker[w].cache
                    ELSE [k \in Parts |-> IF vault[k] # Absent THEN vault[k] ELSE worker[w].cache[k]]
<1>1. worker[w] \in Process /\ Key(w) \in Parts /\ worker[w].step \in Steps
  BY KeyTyped DEF TypeInv
<1>2. cache \in Store
  BY <1>1 DEF TypeInv, TypeOK, Process, Store
<1>3. worker' = [worker EXCEPT ![w] = [worker[w] EXCEPT !.cache = cache, !.doc[Key(w)] = cache[Key(w)],
                        !.pc = IF IsLast(w) THEN "decide" ELSE "fetch",
                        !.step = IF IsLast(w) THEN 1 ELSE @ + 1]]
  BY DEF Fetch, Become
<1> HIDE DEF cache
<1>4. cache[Key(w)] \in (0..MaxKeys) \cup {Torn} /\ [worker[w].doc EXCEPT ![Key(w)] = cache[Key(w)]] \in Store
  BY <1>1, <1>2, StoreTyped DEF Process
<1>5. worker'[w] = [worker[w] EXCEPT !.cache = cache,
                        !.doc = [worker[w].doc EXCEPT ![Key(w)] = cache[Key(w)]],
                        !.pc = IF IsLast(w) THEN "decide" ELSE "fetch",
                        !.step = IF IsLast(w) THEN 1 ELSE worker[w].step + 1]
  BY <1>1, <1>3 DEF TypeInv, TypeOK, Process
<1>6. (IF IsLast(w) THEN 1 ELSE worker[w].step + 1) \in Steps
  BY <1>1, Turns DEF IsLast, Steps
<1> QED
  BY <1>1, <1>2, <1>4, <1>5, <1>6 DEF Process, Pcs, Holding

LEMMA PushedTyped ==
  ASSUME TypeInv, NEW w \in Workers, NEW j \in Process, j.step = worker[w].step, Whole(j.mem)
  PROVE  Pushed(w, j) \in Process /\ Pushed(w, j).mem = j.mem
<1>1. j.step # 4 => j.step + 1 \in Steps
  BY Turns DEF Process
<1>2. 1 \in Steps
  BY DEF Steps
<1> QED
  BY <1>1, <1>2 DEF Pushed, Process, Pcs, IsLast

LEMMA Becomes ==
  ASSUME TypeInv, NEW w \in Workers, NEW j, Become(w, j)
  PROVE  worker'[w] = j /\ worker' = [worker EXCEPT ![w] = worker'[w]]
  BY DEF TypeInv, TypeOK, Become

\* The actions that change one worker and, at most, what it pushes or saves.
LEMMA JobTyped ==
  ASSUME TypeInv, NEW w \in Workers, EnsureKeysExist(w) \/ Create(w) \/ Seal(w) \/ Respond(w) \/ Restart(w)
  PROVE  /\ worker'[w] \in Process /\ (worker'[w].pc \in Holding => Whole(worker'[w].mem))
         /\ worker' = [worker EXCEPT ![w] = worker'[w]]
<1>0. 1 \in Steps
  BY DEF Steps
<1>1. worker[w] \in Process /\ Key(w) \in Parts /\ worker[w].step \in Steps /\ worker \in [Workers -> Process]
  BY KeyTyped DEF TypeInv, TypeOK
<1>2. worker[w].pc \in Holding => Whole(worker[w].mem)
  BY DEF TypeInv
<1>3. vault \in Store /\ backup \in Store /\ generated \in 0..MaxKeys
  BY DEF TypeInv, TypeOK
<1>4. CASE Begin(w)
  <2>1. worker'[w] = [worker[w] EXCEPT !.pc = "fetch", !.step = 1] /\ worker' = [worker EXCEPT ![w] = worker'[w]]
    BY <1>4, Becomes DEF Begin
  <2> QED
    BY <1>1, <1>0, <2>1 DEF Process, Pcs, Holding
<1>5. CASE Fetch(w)
  BY <1>1, <1>5, FetchTyped DEF Fetch, Become
<1>6. CASE Compare(w) \/ AdoptVault(w) \/ AdoptBackup(w)
  <2>1. /\ \/ Whole(worker[w].doc) /\ \E pc \in {"ready", "backup"} :
                worker'[w] = [worker[w] EXCEPT !.pc = pc, !.mem = worker[w].doc]
           \/ worker'[w] = [worker[w] EXCEPT !.pc = "halted"]
           \/ /\ Whole(backup)
              /\ worker'[w] = [worker[w] EXCEPT !.pc = "read", !.mem = backup, !.fresh = FALSE]
        /\ worker' = [worker EXCEPT ![w] = worker'[w]]
    BY <1>6, Becomes DEF Compare, AdoptVault, AdoptBackup
  <2>2. worker[w].doc \in Store
    BY <1>1 DEF Process
  <2> QED
    BY <1>1, <1>3, <2>1, <2>2 DEF Process, Pcs, Holding
<1>7. CASE Generate(w)
  <2> DEFINE made == [k \in Parts |-> generated + 1]
  <2>1. made \in Store /\ Whole(made)
    BY <1>3, <1>7, Constants DEF Generate, Store, Whole, Absent
  <2>2. /\ worker'[w] = [worker[w] EXCEPT !.pc = "read", !.fresh = TRUE, !.mem = made]
        /\ worker' = [worker EXCEPT ![w] = worker'[w]]
    BY <1>7, Becomes DEF Generate
  <2> HIDE DEF made
  <2> QED
    BY <1>1, <2>1, <2>2 DEF Process, Pcs
<1>8. CASE ReadDocument(w)
  <2>1. /\ worker'[w] = [worker[w] EXCEPT !.pc = "write", !.doc = vault]
        /\ worker' = [worker EXCEPT ![w] = worker'[w]]
    BY <1>8, Becomes DEF ReadDocument
  <2>2. Whole(worker[w].mem)
    BY <1>2, <1>8 DEF ReadDocument, At, Holding
  <2> QED
    BY <1>1, <1>3, <2>1, <2>2 DEF Process, Pcs
<1>9. CASE WriteDocument(w)
  <2> DEFINE cache == [worker[w].cache EXCEPT ![Key(w)] = worker[w].mem[Key(w)]]
             j == [worker[w] EXCEPT !.cache = cache]
  <2>1. cache \in Store
    BY <1>1, StoreTyped DEF Process
  <2>2. j \in Process /\ j.step = worker[w].step /\ Whole(j.mem)
    BY <1>1, <1>2, <1>9, <2>1 DEF WriteDocument, At, Process, Holding
  <2>3. worker' = [worker EXCEPT ![w] = Pushed(w, j)]
    BY <1>1, <1>9 DEF WriteDocument, Become, Process
  <2> QED
    BY <1>1, <2>2, <2>3, PushedTyped
<1>10. CASE PutFails(w)
  BY <1>1, <1>2, <1>10, PushedTyped DEF PutFails, Become, Holding
<1>11. CASE OpenFile(w) \/ WriteFile(w) \/ SaveFails(w)
  <2>1. /\ \/ worker'[w] = [worker[w] EXCEPT !.pc = "ready", !.step = 1]
           \/ worker'[w] = [worker[w] EXCEPT !.pc = "saving"]
           \/ /\ worker[w].step # 4
              /\ worker'[w] = [worker[w] EXCEPT !.pc = "backup", !.step = worker[w].step + 1]
        /\ worker' = [worker EXCEPT ![w] = worker'[w]]
    BY <1>1, <1>11, Becomes DEF OpenFile, WriteFile, SaveFails, IsLast, Process
  <2>2. Whole(worker[w].mem) /\ (worker[w].step # 4 => worker[w].step + 1 \in Steps)
    BY <1>1, <1>2, <1>11, Turns DEF OpenFile, WriteFile, SaveFails, At, Holding
  <2> QED
    BY <1>1, <1>0, <2>1, <2>2 DEF Process, Pcs
<1>12. CASE Create(w) \/ Seal(w) \/ Respond(w)
  <2>1. /\ \/ worker'[w] = [worker[w] EXCEPT !.pc = "fetch", !.created = TRUE]
           \/ worker'[w] = [worker[w] EXCEPT !.pc = "idle"]
        /\ worker' = [worker EXCEPT ![w] = worker'[w]]
    BY <1>12, Becomes DEF Create, Seal, Respond
  <2> QED
    BY <1>1, <2>1 DEF Process, Pcs, Holding
<1>13. CASE SaveDies(w) \/ Restart(w)
  BY <1>1, <1>13, StartedTyped DEF SaveDies, Restart, Become
<1> QED
  BY <1>4, <1>5, <1>6, <1>7, <1>8, <1>9, <1>10, <1>11, <1>12, <1>13 DEF EnsureKeysExist

LEMMA TypeStep == TypeInv /\ [Next]_vars => TypeInv'
<1> SUFFICES ASSUME TypeInv, [Next]_vars PROVE TypeInv'
  OBVIOUS
<1>1. /\ vault \in Store /\ backup \in Store /\ up \in BOOLEAN /\ generated \in 0..MaxKeys
      /\ sealed \subseteq [pk : 1..MaxKeys, sk : 1..MaxKeys] /\ faults \in 0..MaxFaults
      /\ worker \in [Workers -> Process]
  BY DEF TypeInv, TypeOK
<1>2. CASE UNCHANGED vars
  BY <1>2 DEF vars, TypeInv, TypeOK, Whole
<1>3. ASSUME NEW w \in Workers,
             EnsureKeysExist(w) \/ Create(w) \/ Seal(w) \/ Respond(w) \/ Restart(w)
      PROVE  TypeInv'
  <2>1. /\ worker'[w] \in Process /\ (worker'[w].pc \in Holding => Whole(worker'[w].mem))
        /\ worker' = [worker EXCEPT ![w] = worker'[w]]
    BY <1>3, JobTyped
  <2>2. worker' \in [Workers -> Process]
    BY <1>1, <2>1
  <2>3. \A v \in Workers : worker'[v].pc \in Holding => Whole(worker'[v].mem)
    BY <1>1, <2>1 DEF TypeInv
  <2>4. vault' \in Store
    <3>1. CASE WriteDocument(w)
      <4>1. worker[w].doc \in Store /\ worker[w].mem[Key(w)] \in (0..MaxKeys) \cup {Torn} /\ Key(w) \in Parts
        BY KeyTyped, StoreTyped DEF TypeInv, Process
      <4> QED
        BY <3>1, <4>1, StoreTyped DEF WriteDocument
    <3> QED
      BY <1>1, <1>3, <3>1 DEF EnsureKeysExist, Begin, Fetch, Compare, AdoptVault, AdoptBackup, Generate,
         ReadDocument, PutFails, OpenFile, WriteFile, SaveFails, SaveDies, Create, Seal, Respond, Restart
  <2>5. backup' \in Store
    <3>1. CASE OpenFile(w) \/ WriteFile(w)
      <4>1. worker[w].mem[Key(w)] \in (0..MaxKeys) \cup {Torn} /\ Key(w) \in Parts
        BY KeyTyped, StoreTyped DEF TypeInv, Process
      <4>2. backup' \in {[backup EXCEPT ![Key(w)] = n] : n \in {Torn, worker[w].mem[Key(w)]}}
        BY <3>1 DEF OpenFile, WriteFile
      <4>3. \A n \in (0..MaxKeys) \cup {Torn} : [backup EXCEPT ![Key(w)] = n] \in Store
        BY <1>1, <4>1, StoreTyped
      <4> QED
        BY <4>1, <4>2, <4>3
    <3> QED
      BY <1>1, <1>3, <3>1 DEF EnsureKeysExist, Begin, Fetch, Compare, AdoptVault, AdoptBackup, Generate,
         ReadDocument, WriteDocument, PutFails, SaveFails, SaveDies, Create, Seal, Respond, Restart
  <2>6. sealed' \subseteq [pk : 1..MaxKeys, sk : 1..MaxKeys]
    <3>1. CASE Seal(w)
      <4>1. worker[w].mem \in Store /\ Whole(worker[w].mem)
        BY <3>1, KeyTyped DEF TypeInv, Process, Seal, At, Holding
      <4>2. worker[w].mem["CPABE_PK"] \in 1..MaxKeys /\ worker[w].mem["PQC_SK"] \in 1..MaxKeys
        BY <3>1, <4>1, Turns, Constants DEF Store, Whole, Absent, Seal
      <4> QED
        BY <1>1, <3>1, <4>2 DEF Seal
    <3> QED
      BY <1>1, <1>3, <3>1 DEF EnsureKeysExist, Begin, Fetch, Compare, AdoptVault, AdoptBackup, Generate,
         ReadDocument, WriteDocument, PutFails, OpenFile, WriteFile, SaveFails, SaveDies, Create, Respond, Restart
  <2>7. up' \in BOOLEAN /\ generated' \in 0..MaxKeys /\ faults' \in 0..MaxFaults
    BY <1>1, <1>3, Constants DEF EnsureKeysExist, Begin, Fetch, Compare, AdoptVault, AdoptBackup, Generate,
       ReadDocument, WriteDocument, PutFails, OpenFile, WriteFile, SaveFails, SaveDies, Fault, Create, Seal, Respond, Restart
  <2> QED
    BY <2>2, <2>3, <2>4, <2>5, <2>6, <2>7 DEF TypeInv, TypeOK
<1>4. CASE VaultDown \/ VaultUp \/ LoseVault \/ LoseBackup
  <2>1. vault' \in Store /\ backup' \in Store /\ UNCHANGED <<worker, generated, sealed>>
    BY <1>1, <1>4, StoreTyped DEF VaultDown, VaultUp, LoseVault, LoseBackup
  <2>2. faults' = faults \/ (faults < MaxFaults /\ faults' = faults + 1)
    <3>1. ASSUME NEW kind, Fault(kind) PROVE faults < MaxFaults /\ faults' = faults + 1
      BY <3>1 DEF Fault
    <3>2. CASE VaultUp
      BY <3>2 DEF VaultUp
    <3> QED
      BY <1>4, <3>1, <3>2 DEF VaultDown, LoseVault, LoseBackup
  <2>3. faults' \in 0..MaxFaults
    BY <1>1, <2>2, Constants
  <2>4. up' \in BOOLEAN
    BY <1>1, <1>4 DEF VaultDown, VaultUp, LoseVault, LoseBackup
  <2> QED
    BY <1>1, <2>1, <2>3, <2>4 DEF TypeInv, TypeOK
<1> QED
  BY <1>2, <1>3, <1>4 DEF Next

LEMMA TypeInit == Init => TypeInv
  BY StoreTyped, StartedTyped, Constants DEF Init, TypeInv, TypeOK

\* Every variable keeps its type: nothing is sealed without keys.
THEOREM TypeCorrect == Spec => []TypeOK
<1>1. TypeInv => TypeOK
  BY DEF TypeInv
<1> QED
  BY <1>1, TypeInit, TypeStep, PTL DEF Spec

--------------------------------------------------------------------------------
(***************************************************************************)
(* Steps before the first file: one worker runs, with Vault answering.     *)
(***************************************************************************)
LEMMA StartedEarly == \A v, b, n : EarlyJob(Started, v, b, n)
  BY DEF EarlyJob, Started, Within, Empty

\* A step of the worker that runs keeps Early if it keeps what is said of it and of the tables.
LEMMA EarlyMove ==
  ASSUME OneEarly, TypeInv, Early, NEW w \in Workers \ Late, NEW j, Become(w, j), UNCHANGED up,
         EarlyJob(j, vault', backup', faults'), EarlyTables(vault', backup'),
         EarlyTorn(j, vault', backup', faults')
  PROVE  Early'
<1>1. \A v \in Workers : v # w => worker[v] = Started /\ worker'[v] = Started
  BY DEF OneEarly, Early, TypeInv, TypeOK, Become
<1>2. worker'[w] = j
  BY Becomes
<1>3. \A v \in Late : worker'[v] = Started
  BY <1>1, BoundsAssumption
<1>4. \A v \in Workers : EarlyJob(worker'[v], vault', backup', faults')
  BY <1>1, <1>2, StartedEarly
<1>5. \A v \in Workers \ Late : EarlyTorn(worker'[v], vault', backup', faults')
  BY <1>2 DEF OneEarly
<1> QED
  BY <1>3, <1>4, <1>5 DEF Early

\* What is torn stays told apart when the worker goes on to another step.
LEMMA TornKept ==
  ASSUME NEW w \in Workers, NEW v, NEW b, NEW n, EarlyTorn(worker[w], v, b, n), worker[w].pc # "saving"
  PROVE  \A j : EarlyTorn(j, v, b, n)
  BY DEF EarlyTorn

\* Nothing is torn in an empty backup.
LEMMA TornEmpty == \A j, v, n : EarlyTorn(j, v, Empty, n)
  BY DEF EarlyTorn, Empty

\* What holds of a worker that takes a step before the first file.
LEMMA EarlyWorker ==
  ASSUME TypeInv, Early, sealed = {}, NEW w \in Workers,
         EnsureKeysExist(w) \/ Create(w) \/ Seal(w) \/ Respond(w) \/ Restart(w)
  PROVE  /\ w \in Workers \ Late /\ EarlyJob(worker[w], vault, backup, faults)
         /\ worker[w] \in Process /\ Key(w) \in Parts /\ worker[w].step \in Steps
         /\ vault \in Store /\ backup \in Store /\ EarlyTables(vault, backup) /\ up
         /\ faults \in Nat
         /\ EarlyTorn(worker[w], vault, backup, faults)
<1>1. w \notin Late
  <2>1. ASSUME w \in Late PROVE worker[w] = Started /\ worker[w].pc = "idle"
    <3>1. worker[w] = Started
      BY <2>1 DEF Early
    <3>2. Started.pc = "idle"
      BY DEF Started
    <3> QED
      BY <3>1, <3>2
  <2> QED
    BY <2>1 DEF EnsureKeysExist, Begin, Fetch, Compare, AdoptVault, AdoptBackup, Generate, ReadDocument,
       WriteDocument, PutFails, OpenFile, WriteFile, SaveFails, SaveDies, Create, Seal, Respond, Restart, At
<1> QED
  BY <1>1, KeyTyped, Constants DEF Early, TypeInv, TypeOK

LEMMA EarlyFetch ==
  ASSUME OneEarly, TypeInv, Early, sealed = {}, NEW w \in Workers, Fetch(w)
  PROVE  Early'
<1> DEFINE known == worker[w].cache[Key(w)] # Absent \/ ~up
           cache == IF known THEN worker[w].cache
                    ELSE [k \in Parts |-> IF vault[k] # Absent THEN vault[k] ELSE worker[w].cache[k]]
           n == worker[w].step
           j == [worker[w] EXCEPT !.cache = cache,
                        !.doc = [worker[w].doc EXCEPT ![Key(w)] = cache[Key(w)]],
                        !.pc = IF IsLast(w) THEN "decide" ELSE "fetch",
                        !.step = IF IsLast(w) THEN 1 ELSE n + 1]
<1>1. /\ w \in Workers \ Late /\ EarlyJob(worker[w], vault, backup, faults)
      /\ worker[w] \in Process /\ Key(w) \in Parts /\ n \in Steps
      /\ vault \in Store /\ backup \in Store /\ EarlyTables(vault, backup) /\ up
      /\ EarlyTorn(worker[w], vault, backup, faults)
  BY EarlyWorker DEF EnsureKeysExist
<1>0. \A i : EarlyTorn(i, vault, backup, faults)
  BY <1>1, TornKept DEF Fetch, At
<1>2. Become(w, j) /\ worker[w].pc = "fetch" /\ UNCHANGED <<vault, up, backup, faults>>
  BY <1>1 DEF Fetch, At, Become, Process
<1>3. Within(cache, vault) /\ cache[Key(w)] = vault[Key(w)]
  BY <1>1 DEF EarlyJob, Within
<1>4. worker[w].doc \in Store /\ \A k \in Before(n) : worker[w].doc[k] = vault[k]
  BY <1>1, <1>2 DEF EarlyJob, Process
<1> HIDE DEF cache
<1> DEFINE doc == [worker[w].doc EXCEPT ![Key(w)] = cache[Key(w)]]
<1>5. doc[Key(w)] = vault[Key(w)] /\ \A k \in Before(n) : doc[k] = vault[k]
  BY <1>1, <1>3, <1>4, Turns DEF Store
<1>6. CASE n = 4
  <2>1. \A k \in Parts : doc[k] = vault[k]
    BY <1>1, <1>5, <1>6, Turns DEF Key
  <2>2. doc = vault
    BY <1>1, <1>4, <2>1 DEF Store
  <2>3. j.cache = cache /\ j.doc = doc /\ j.pc = "decide" /\ j.step = 1
    BY <1>1, <1>6 DEF Process, IsLast
  <2>4. EarlyJob(j, vault, backup, faults)
    BY <1>3, <2>2, <2>3 DEF EarlyJob
  <2> QED
    BY <1>0, <1>1, <1>2, <2>4, EarlyMove
<1>7. CASE n # 4
  <2>1. \A k \in Before(n + 1) : doc[k] = vault[k]
    BY <1>1, <1>5, <1>7, Turns DEF Key
  <2>2. j.cache = cache /\ j.doc = doc /\ j.pc = "fetch" /\ j.step = n + 1
    BY <1>1, <1>7 DEF Process, IsLast
  <2>3. EarlyJob(j, vault, backup, faults)
    BY <1>3, <2>1, <2>2 DEF EarlyJob
  <2> QED
    BY <1>0, <1>1, <1>2, <2>3, EarlyMove
<1> QED
  BY <1>6, <1>7

LEMMA EarlyDecide ==
  ASSUME OneEarly, TypeInv, Early, sealed = {}, NEW w \in Workers,
         Compare(w) \/ AdoptVault(w) \/ AdoptBackup(w) \/ Generate(w)
  PROVE  Early'
<1>1. /\ w \in Workers \ Late /\ EarlyJob(worker[w], vault, backup, faults)
      /\ worker[w] \in Process /\ Key(w) \in Parts /\ worker[w].step \in Steps
      /\ vault \in Store /\ backup \in Store /\ EarlyTables(vault, backup) /\ up
      /\ EarlyTorn(worker[w], vault, backup, faults)
  BY EarlyWorker DEF EnsureKeysExist
<1>0. \A i : EarlyTorn(i, vault, backup, faults)
  BY <1>1, TornKept DEF Compare, AdoptVault, AdoptBackup, Generate, At
<1>2. worker[w].doc = vault /\ Within(worker[w].cache, vault)
  BY <1>1 DEF EarlyJob, Compare, AdoptVault, AdoptBackup, Generate, At
<1>3. "CPABE_MSK" \in Parts /\ "PQC_PK" \in Parts
  BY Turns
<1>4. CASE Compare(w)
  <2> DEFINE j == [worker[w] EXCEPT !.pc = "ready", !.mem = worker[w].doc]
  <2>1. worker[w].doc["CPABE_MSK"] = backup["CPABE_MSK"] /\ Whole(vault) /\ Whole(backup)
    BY <1>1, <1>2, <1>3, <1>4 DEF Compare, EarlyTables, Whole
  <2>5. backup = vault \/ faults # 0
    <3>1. worker[w].pc # "saving"
      BY <1>4 DEF Compare, At
    <3>2. faults # 0 \/ \A k \in Parts : backup[k] = vault[k]
      BY <1>1, <2>1, <3>1 DEF EarlyTorn, Whole
    <3> QED
      BY <1>1, <3>2 DEF Store
  <2>2. Become(w, j) /\ UNCHANGED <<vault, up, backup, faults>>
    BY <1>4, <2>1 DEF Compare
  <2>3. j.cache = worker[w].cache /\ j.pc = "ready" /\ j.mem = vault /\ j.step = 1
    BY <1>1, <1>2, <1>4 DEF Process, EarlyJob, Compare, At
  <2>4. EarlyJob(j, vault, backup, faults)
    BY <1>2, <2>1, <2>3, <2>5 DEF EarlyJob
  <2> QED
    BY <1>0, <1>1, <2>2, <2>4, EarlyMove
<1>5. CASE AdoptVault(w)
  <2> DEFINE j == [worker[w] EXCEPT !.pc = "backup", !.mem = worker[w].doc]
  <2>1. Become(w, j) /\ UNCHANGED <<vault, up, backup, faults>> /\ Whole(vault)
    BY <1>2, <1>5 DEF AdoptVault
  <2>2. j.cache = worker[w].cache /\ j.pc = "backup" /\ j.mem = vault /\ j.step = worker[w].step
    BY <1>1, <1>2 DEF Process
  <2>3. worker[w].step = 1
    BY <1>1, <1>5 DEF EarlyJob, AdoptVault, At
  <2>5. backup["PQC_PK"] = Absent
    BY <1>1, <1>2, <1>3, <1>5 DEF AdoptVault, EarlyTables, Whole
  <2>4. EarlyJob(j, vault, backup, faults)
    BY <1>2, <2>1, <2>2, <2>3, <2>5, Turns DEF EarlyJob
  <2> QED
    BY <1>0, <1>1, <2>1, <2>4, EarlyMove
<1>6. CASE AdoptBackup(w)
  <2>1. ~Whole(vault) /\ Whole(backup)
    BY <1>2, <1>6 DEF AdoptBackup
  <2> QED
    BY <1>1, <1>3, <2>1 DEF EarlyTables, Whole, Empty
<1>7. CASE Generate(w)
  <2> DEFINE made == [k \in Parts |-> generated + 1]
             j == [worker[w] EXCEPT !.pc = "read", !.fresh = TRUE, !.mem = made]
  <2>1. Become(w, j) /\ UNCHANGED <<vault, up, backup, faults>> /\ ~Whole(vault)
    BY <1>2, <1>7 DEF Generate
  <2>2. Uniform(made)
    BY <1>3 DEF Uniform
  <2> HIDE DEF made
  <2>3. j.cache = worker[w].cache /\ j.pc = "read" /\ j.mem = made /\ j.fresh /\ j.step = worker[w].step
    BY <1>1 DEF Process
  <2>4. worker[w].step = 1 /\ vault["PQC_PK"] = Absent
    BY <1>1, <1>7, <2>1 DEF EarlyJob, EarlyTables, Generate, At
  <2>5. EarlyJob(j, vault, backup, faults)
    BY <1>2, <2>2, <2>3, <2>4, Turns DEF EarlyJob
  <2> QED
    BY <1>0, <1>1, <2>1, <2>5, EarlyMove
<1> QED
  BY <1>4, <1>5, <1>6, <1>7

LEMMA EarlyPut ==
  ASSUME OneEarly, TypeInv, Early, sealed = {}, NEW w \in Workers, ReadDocument(w) \/ WriteDocument(w)
  PROVE  Early'
<1> DEFINE n == worker[w].step
<1>1. /\ w \in Workers \ Late /\ EarlyJob(worker[w], vault, backup, faults)
      /\ worker[w] \in Process /\ Key(w) \in Parts /\ n \in Steps
      /\ vault \in Store /\ backup \in Store /\ EarlyTables(vault, backup) /\ up
  BY EarlyWorker DEF EnsureKeysExist
<1>2. /\ worker[w].pc \in {"read", "write"} /\ worker[w].fresh /\ Uniform(worker[w].mem)
      /\ vault["PQC_PK"] = Absent /\ backup = Empty
      /\ \A k \in Before(n) : vault[k] = worker[w].mem[k]
      /\ worker[w].mem \in Store /\ Whole(worker[w].mem)
      /\ worker[w].cache \in Store /\ Within(worker[w].cache, vault)
  BY <1>1 DEF EarlyJob, EarlyTables, ReadDocument, WriteDocument, At, TypeInv, Holding, Process
<1>3. CASE ReadDocument(w)
  <2> DEFINE j == [worker[w] EXCEPT !.pc = "write", !.doc = vault]
  <2>1. Become(w, j) /\ UNCHANGED <<vault, up, backup, faults>>
    BY <1>3 DEF ReadDocument
  <2>2. j.cache = worker[w].cache /\ j.pc = "write" /\ j.doc = vault /\ j.mem = worker[w].mem /\ j.fresh
        /\ j.step = n
    BY <1>1, <1>2 DEF Process
  <2>3. EarlyJob(j, vault, backup, faults)
    BY <1>2, <2>2 DEF EarlyJob
  <2> QED
    BY <1>1, <1>2, <2>1, <2>3, TornEmpty, EarlyMove
<1>4. CASE WriteDocument(w)
  <2> DEFINE cache == [worker[w].cache EXCEPT ![Key(w)] = worker[w].mem[Key(w)]]
             p == [worker[w] EXCEPT !.cache = cache]
             j == Pushed(w, p)
  <2>1. Become(w, j) /\ UNCHANGED <<up, backup, faults>> /\ worker[w].doc = vault
        /\ vault' = [vault EXCEPT ![Key(w)] = worker[w].mem[Key(w)]]
    BY <1>1, <1>4 DEF WriteDocument, EarlyJob, At, Process
  <2>2. Within(cache, vault')
    BY <1>1, <1>2, <2>1 DEF Within, Store
  <2>3. \A k \in Before(n) \cup {Key(w)} : vault'[k] = worker[w].mem[k]
    BY <1>1, <1>2, <2>1, Turns DEF Store
  <2>4. p.cache = cache /\ p.mem = worker[w].mem /\ p.fresh /\ p.step = n
    BY <1>1, <1>2 DEF Process
  <2>5. vault' \in Store
    BY <1>1, <1>2, <2>1, StoreTyped
  <2>6. p \in [pc : Pcs, mem : Store, cache : {cache}, doc : Store, step : Steps, fresh : BOOLEAN,
               created : BOOLEAN]
    BY <1>1 DEF Process
  <2> HIDE DEF cache, p
  <2>7. CASE n = 4
    <3>1. j.cache = cache /\ j.mem = worker[w].mem /\ j.pc = "backup" /\ j.step = 1
      BY <2>4, <2>6, <2>7 DEF Pushed, IsLast
    <3>2. \A k \in Parts : vault'[k] = worker[w].mem[k]
      BY <1>1, <2>3, <2>7, Turns DEF Key
    <3>3. vault' = worker[w].mem
      BY <1>2, <2>5, <3>2 DEF Store
    <3>4. EarlyJob(j, vault', backup', faults')
      <4>1. backup'["PQC_PK"] = Absent
        BY <1>2, <2>1, Turns DEF Empty
      <4> QED
        BY <1>2, <2>2, <3>1, <3>3, <4>1, Turns DEF EarlyJob
    <3>5. EarlyTables(vault', backup')
      <4>1. vault'["PQC_PK"] # Absent
        BY <1>2, <3>3, Turns DEF Whole
      <4>2. Copies(Empty, vault') /\ Empty["PQC_PK"] = Absent
        BY Turns DEF Copies, Empty
      <4> QED
        BY <1>2, <2>1, <3>3, <4>1, <4>2 DEF EarlyTables
    <3> QED
      BY <1>1, <1>2, <2>1, <3>4, <3>5, TornEmpty, EarlyMove
  <2>8. CASE n # 4
    <3>1. j.cache = cache /\ j.mem = worker[w].mem /\ j.pc = "read" /\ j.step = n + 1 /\ j.fresh
      BY <2>4, <2>6, <2>8 DEF Pushed, IsLast
    <3>2. \A k \in Before(n + 1) : vault'[k] = worker[w].mem[k]
      BY <1>1, <2>3, <2>8, Turns DEF Key
    <3>3. vault'["PQC_PK"] = Absent
      BY <1>1, <1>2, <2>1, <2>8, Turns DEF Key, Store
    <3>4. EarlyJob(j, vault', backup', faults')
      BY <1>2, <2>2, <3>1, <3>2, <3>3 DEF EarlyJob
    <3>5. EarlyTables(vault', backup')
      <4>1. Copies(Empty, vault') /\ Empty["PQC_PK"] = Absent
        BY Turns DEF Copies, Empty
      <4> QED
        BY <1>2, <2>1, <3>3, <4>1 DEF EarlyTables
    <3> QED
      BY <1>1, <1>2, <2>1, <3>4, <3>5, TornEmpty, EarlyMove
  <2> QED
    BY <2>7, <2>8
<1> QED
  BY <1>3, <1>4

LEMMA EarlySave ==
  ASSUME OneEarly, TypeInv, Early, sealed = {}, NEW w \in Workers,
         OpenFile(w) \/ WriteFile(w) \/ SaveFails(w) \/ SaveDies(w)
  PROVE  Early'
<1> DEFINE n == worker[w].step
<1>1. /\ w \in Workers \ Late /\ EarlyJob(worker[w], vault, backup, faults)
      /\ worker[w] \in Process /\ Key(w) \in Parts /\ Key(w) = Order[n] /\ n \in Steps
      /\ vault \in Store /\ backup \in Store /\ EarlyTables(vault, backup) /\ up /\ faults \in Nat
      /\ EarlyTorn(worker[w], vault, backup, faults)
  BY EarlyWorker DEF EnsureKeysExist, Key
<1>2. /\ Whole(vault) /\ worker[w].mem = vault /\ Within(worker[w].cache, vault)
      /\ \A k \in Before(n) : backup[k] = vault[k]
      /\ backup["PQC_PK"] = Absent \/ (worker[w].pc = "saving" /\ n = 4)
      /\ worker[w].pc \in {"backup", "saving"}
  BY <1>1 DEF EarlyJob, OpenFile, WriteFile, SaveFails, SaveDies, At
<1>3. "PQC_PK" \in Parts /\ vault["PQC_PK"] # Absent
  BY <1>2, Turns DEF Whole
<1>4. CASE OpenFile(w)
  <2> DEFINE j == [worker[w] EXCEPT !.pc = "saving"]
  <2>1. /\ backup' = [backup EXCEPT ![Order[n]] = Torn] /\ UNCHANGED <<vault, up, faults>>
        /\ Become(w, j) /\ worker[w].pc = "backup"
    BY <1>1, <1>4 DEF OpenFile, At
  <2>2. j.cache = worker[w].cache /\ j.mem = vault /\ j.pc = "saving" /\ j.step = n
    BY <1>1, <1>2 DEF Process
  <2> HIDE DEF j
  <2>3. /\ \A k \in Before(n) : backup'[k] = vault[k]
        /\ \A k \in Parts : backup'[k] \in {backup[k], Torn} /\ (k # Order[n] => backup'[k] = backup[k])
    BY <1>1, <1>2, <2>1, Turns DEF Store
  <2>4. n # 4 => backup'["PQC_PK"] = Absent
    BY <1>1, <1>2, <1>3, <2>1, <2>3, Turns
  <2>5. EarlyJob(j, vault', backup', faults')
    BY <1>2, <2>1, <2>2, <2>3, <2>4 DEF EarlyJob
  <2>6. EarlyTables(vault', backup')
    <3>1. Copies(backup', vault)
      BY <1>1, <2>3 DEF EarlyTables, Copies
    <3>2. backup'["PQC_PK"] # Absent => \A k \in Parts \ {"PQC_PK"} : backup'[k] = vault[k]
      BY <1>1, <2>3, <2>4, Turns
    <3> QED
      BY <1>1, <1>3, <2>1, <3>1, <3>2 DEF EarlyTables
  <2>7. EarlyTorn(j, vault', backup', faults')
    BY <1>1, <2>1, <2>2, <2>3 DEF EarlyTorn
  <2> QED
    BY <1>1, <2>1, <2>5, <2>6, <2>7, EarlyMove
<1>5. CASE WriteFile(w)
  <2>1. /\ backup' = [backup EXCEPT ![Order[n]] = vault[Order[n]]] /\ UNCHANGED <<vault, up, faults>>
        /\ worker[w].pc = "saving"
    BY <1>1, <1>2, <1>5 DEF WriteFile, At
  <2>2. /\ \A k \in Before(n) \cup {Order[n]} : backup'[k] = vault[k]
        /\ \A k \in Parts : backup'[k] \in {backup[k], vault[k]} /\ (k # Order[n] => backup'[k] = backup[k])
    BY <1>1, <1>2, <2>1, Turns DEF Store
  <2>3. n # 4 => backup'["PQC_PK"] = Absent
    BY <1>1, <1>2, <1>3, <2>1, <2>2, Turns
  <2>4. EarlyTables(vault', backup')
    <3>1. Copies(backup', vault)
      BY <1>1, <2>2 DEF EarlyTables, Copies
    <3>2. backup'["PQC_PK"] # Absent => \A k \in Parts \ {"PQC_PK"} : backup'[k] = vault[k]
      BY <1>1, <2>2, <2>3, Turns
    <3> QED
      BY <1>1, <1>3, <2>1, <3>1, <3>2 DEF EarlyTables
  <2>5. \A i : EarlyTorn(i, vault', backup', faults')
    BY <1>1, <2>1, <2>2 DEF EarlyTorn
  <2>6. CASE n = 4
    <3> DEFINE j == [worker[w] EXCEPT !.pc = "ready", !.step = 1]
    <3>1. Become(w, j) /\ j.cache = worker[w].cache /\ j.mem = vault /\ j.pc = "ready" /\ j.step = 1
      BY <1>1, <1>2, <1>5, <2>6 DEF WriteFile, IsLast, Process
    <3> HIDE DEF j
    <3>2. backup' \in Store
      BY <1>1, <2>1, StoreTyped
    <3>3. \A k \in Parts : backup'[k] = vault[k]
      BY <1>1, <2>2, <2>6, Turns
    <3>4. backup' = vault
      BY <1>1, <3>2, <3>3 DEF Store
    <3>5. EarlyJob(j, vault', backup', faults')
      BY <1>2, <2>1, <3>1, <3>4 DEF EarlyJob
    <3> QED
      BY <1>1, <2>1, <2>4, <2>5, <3>1, <3>5, EarlyMove
  <2>7. CASE n # 4
    <3> DEFINE j == [worker[w] EXCEPT !.pc = "backup", !.step = n + 1]
    <3>1. Become(w, j) /\ j.cache = worker[w].cache /\ j.mem = vault /\ j.pc = "backup" /\ j.step = n + 1
      BY <1>1, <1>2, <1>5, <2>7 DEF WriteFile, IsLast, Process
    <3> HIDE DEF j
    <3>2. \A k \in Before(n + 1) : backup'[k] = vault[k]
      BY <1>1, <2>2, <2>7, Turns
    <3>3. EarlyJob(j, vault', backup', faults')
      BY <1>2, <2>1, <2>3, <2>7, <3>1, <3>2 DEF EarlyJob
    <3> QED
      BY <1>1, <2>1, <2>4, <2>5, <3>1, <3>3, EarlyMove
  <2> QED
    BY <2>6, <2>7
<1>6. CASE SaveFails(w) \/ SaveDies(w)
  <2>1. faults' = faults + 1 /\ UNCHANGED <<vault, up, backup>>
    BY <1>6 DEF SaveFails, SaveDies, Fault
  <2>2. faults' # 0
    BY <1>1, <2>1
  <2>3. \A i : EarlyTorn(i, vault', backup', faults')
    BY <2>2 DEF EarlyTorn
  <2>4. CASE SaveFails(w)
    <3> DEFINE j == [worker[w] EXCEPT !.pc = "ready", !.step = 1]
    <3>1. Become(w, j) /\ j.cache = worker[w].cache /\ j.mem = vault /\ j.pc = "ready" /\ j.step = 1
      BY <1>1, <1>2, <2>4 DEF SaveFails, Process
    <3> HIDE DEF j
    <3>2. EarlyJob(j, vault', backup', faults')
      BY <1>2, <2>1, <2>2, <3>1 DEF EarlyJob
    <3> QED
      BY <1>1, <2>1, <2>3, <3>1, <3>2, EarlyMove
  <2>5. CASE SaveDies(w)
    BY <1>1, <2>1, <2>3, <2>5, StartedEarly, EarlyMove DEF SaveDies
  <2> QED
    BY <1>6, <2>4, <2>5
<1> QED
  BY <1>4, <1>5, <1>6


\* The steps that touch no key, and those that need Vault to be down.
LEMMA EarlyRest ==
  ASSUME OneEarly, TypeInv, Early, sealed = {}, NEW w \in Workers,
         Begin(w) \/ PutFails(w) \/ Create(w) \/ Respond(w) \/ Restart(w)
  PROVE  Early'
<1>1. /\ w \in Workers \ Late /\ EarlyJob(worker[w], vault, backup, faults)
      /\ worker[w] \in Process /\ EarlyTables(vault, backup) /\ up
      /\ EarlyTorn(worker[w], vault, backup, faults)
  BY EarlyWorker DEF EnsureKeysExist
<1>0. \A i : EarlyTorn(i, vault, backup, faults)
  BY <1>1, TornKept DEF Begin, PutFails, Create, Respond, Restart, At
<1>2. UNCHANGED <<vault, up, backup, faults>>
  BY DEF Begin, PutFails, Create, Respond, Restart
<1>3. CASE Begin(w)
  <2> DEFINE j == [worker[w] EXCEPT !.pc = "fetch", !.step = 1]
  <2>1. Become(w, j) /\ j.cache = worker[w].cache /\ j.pc = "fetch" /\ j.step = 1
    BY <1>1, <1>3 DEF Begin, Process
  <2>2. EarlyJob(j, vault, backup, faults)
    BY <1>1, <2>1, Turns DEF EarlyJob
  <2> QED
    BY <1>0, <1>1, <1>2, <2>1, <2>2, EarlyMove
<1>4. CASE PutFails(w)
  BY <1>1, <1>4 DEF PutFails
<1>5. CASE Create(w)
  <2> DEFINE j == [worker[w] EXCEPT !.pc = "fetch", !.created = TRUE]
  <2>1. Become(w, j) /\ j.cache = worker[w].cache /\ j.pc = "fetch" /\ j.step = 1
    BY <1>1, <1>5 DEF Create, Process, EarlyJob, At
  <2>2. EarlyJob(j, vault, backup, faults)
    BY <1>1, <2>1, Turns DEF EarlyJob
  <2> QED
    BY <1>0, <1>1, <1>2, <2>1, <2>2, EarlyMove
<1>6. CASE Respond(w)
  <2> DEFINE j == [worker[w] EXCEPT !.pc = "idle"]
  <2>1. Become(w, j) /\ j.cache = worker[w].cache /\ j.pc = "idle"
    BY <1>1, <1>6 DEF Respond, Process
  <2>2. EarlyJob(j, vault, backup, faults)
    BY <1>1, <2>1 DEF EarlyJob
  <2> QED
    BY <1>0, <1>1, <1>2, <2>1, <2>2, EarlyMove
<1>7. CASE Restart(w)
  BY <1>0, <1>1, <1>2, <1>7, StartedEarly, EarlyMove DEF Restart
<1> QED
  BY <1>3, <1>4, <1>5, <1>6, <1>7

\* The first file: both stores hold what it was sealed with, or the backup met the fault.
LEMMA FirstSeal ==
  ASSUME OneEarly, TypeInv, Early, sealed = {}, NEW w \in Workers, Seal(w)
  PROVE  \E K \in 1..MaxKeys : Settled(K)'
<1> DEFINE j == [worker[w] EXCEPT !.pc = "idle"]
<1>1. /\ w \in Workers \ Late /\ EarlyJob(worker[w], vault, backup, faults)
      /\ worker[w] \in Process /\ vault \in Store /\ backup \in Store /\ EarlyTables(vault, backup) /\ up
  BY EarlyWorker
<1>2. /\ Whole(vault) /\ worker[w].mem = vault /\ Within(worker[w].cache, vault)
      /\ backup = vault \/ faults # 0
  BY <1>1 DEF EarlyJob, Seal, At
<1>3. /\ worker' = [worker EXCEPT ![w] = j]
      /\ sealed' = {[pk |-> vault["CPABE_PK"], sk |-> vault["PQC_SK"]]}
      /\ UNCHANGED <<vault, up, backup, generated, faults>>
      /\ vault["CPABE_PK"] # Torn
  BY <1>2 DEF Seal, Become
<1>4. /\ "CPABE_MSK" \in Parts /\ "CPABE_PK" \in Parts /\ "PQC_SK" \in Parts /\ "PQC_PK" \in Parts
  BY Turns
<1>5. Uniform(vault)
  BY <1>1, <1>2, <1>4 DEF EarlyTables, Whole
<1>6. PICK K \in 1..MaxKeys : \A k \in Parts : vault[k] = K
  BY <1>1, <1>2, <1>3, <1>4, <1>5, Constants DEF Store, Whole, Uniform, Absent
<1>7. Only(vault, K) /\ Only(worker[w].cache, K) /\ \A k \in Parts : backup[k] \in {Absent, Torn, K}
  BY <1>1, <1>2, <1>6 DEF Only, EarlyTables, Copies, Within
<1>8. \A s \in sealed' : s.pk = K /\ s.sk = K
  BY <1>3, <1>4, <1>6
<1>9. backup["CPABE_MSK"] = Torn => backup["PQC_PK"] = Absent
  BY <1>1, <1>4, <1>6, Constants DEF EarlyTables, Torn
<1>10. faults = 0 => \A k \in Parts : backup[k] = K
  BY <1>2, <1>6
<1>11. j.cache = worker[w].cache /\ j.mem = vault /\ j.pc = "idle"
  BY <1>1, <1>2 DEF Process
<1>12. worker'[w] = j /\ \A v \in Workers : v # w => worker'[v] = Started
  BY <1>1, <1>3 DEF OneEarly, Early, TypeInv, TypeOK
<1> HIDE DEF j
<1>13. \A v \in Workers : LateJob(worker'[v], K)
  <2>1. LateJob(j, K)
    BY <1>2, <1>7, <1>11 DEF LateJob
  <2>2. LateJob(Started, K)
    BY DEF LateJob, Started, Only, Empty
  <2> QED
    BY <1>12, <2>1, <2>2
<1>14. \A v \in Workers : Served(worker'[v], K) /\ ~Rewrites(worker'[v])
  <2>1. Started.pc = "idle"
    BY DEF Started
  <2> QED
    BY <1>11, <1>12, <2>1 DEF Served, Rewrites
<1>15. VaultHolds(K)' /\ (faults' = 0 => BackupHolds(K)')
  BY <1>1, <1>2, <1>3, <1>10, <1>14 DEF VaultHolds, BackupHolds
<1>16. MasterTorn'
  BY <1>3, <1>9, <1>14 DEF MasterTorn
<1> QED
  BY <1>3, <1>6, <1>7, <1>8, <1>13, <1>15, <1>16 DEF Settled

LEMMA EarlyStep ==
  ASSUME OneEarly, TypeInv, KeyInv, sealed = {}, [Next]_vars
  PROVE  KeyInv'
<1>1. Early
  BY DEF KeyInv
<1>2. CASE UNCHANGED vars
  <2>1. UNCHANGED <<vault, up, backup, worker, generated, sealed, faults>>
    BY <1>2 DEF vars
  <2>2. Early' = Early
    BY <2>1 DEF Early, EarlyJob, EarlyTables, EarlyTorn, Copies, Within, Before, Whole, Uniform
  <2> QED
    BY <1>1, <2>1, <2>2 DEF KeyInv
<1>3. ASSUME NEW w \in Workers,
             EnsureKeysExist(w) \/ Create(w) \/ Respond(w) \/ Restart(w)
      PROVE  KeyInv'
  <2>1. sealed' = {}
    BY <1>3 DEF EnsureKeysExist, Begin, Fetch, Compare, AdoptVault, AdoptBackup, Generate, ReadDocument,
       WriteDocument, PutFails, OpenFile, WriteFile, SaveFails, SaveDies, Create, Respond, Restart
  <2>2. Early'
    BY <1>1, <1>3, EarlyFetch, EarlyDecide, EarlyPut, EarlySave, EarlyRest DEF EnsureKeysExist
  <2> QED
    BY <2>1, <2>2 DEF KeyInv
<1>4. ASSUME NEW w \in Workers, Seal(w) PROVE KeyInv'
  <2>1. sealed' # {}
    BY <1>4 DEF Seal
  <2> QED
    BY <1>1, <1>4, <2>1, FirstSeal DEF KeyInv
<1>5. CASE VaultDown \/ VaultUp \/ LoseVault \/ LoseBackup
  BY <1>1, <1>5 DEF VaultDown, VaultUp, LoseVault, LoseBackup, Early
<1> QED
  BY <1>2, <1>3, <1>4, <1>5 DEF Next

--------------------------------------------------------------------------------
(***************************************************************************)
(* Steps from the first file on.                                           *)
(***************************************************************************)
\* A store that only has keys of one set and has them all.
LEMMA WholeOnly == ASSUME NEW store \in Store, NEW K \in 1..MaxKeys, Only(store, K), Whole(store)
                   PROVE  \A k \in Parts : store[k] = K
  BY DEF Only, Whole

LEMMA StartedLate == \A K : LateJob(Started, K) /\ Served(Started, K) /\ ~Rewrites(Started)
  BY DEF LateJob, Served, Rewrites, Started, Only, Empty

\* A worker's step keeps Settled if it takes nothing from a store that holds the keys, and
\* keeps what is said of the worker.
LEMMA LateMove ==
  ASSUME TypeInv, NEW K \in 1..MaxKeys, Settled(K), NEW w \in Workers, NEW j, Become(w, j),
         UNCHANGED <<up, faults>>, Only(vault', K), \A k \in Parts : backup'[k] \in {Absent, Torn, K},
         \A s \in sealed' : s.pk = K /\ s.sk = K,
         LateJob(j, K),
         VaultHolds(K) => vault' = vault /\ Served(j, K),
         BackupHolds(K) => backup' = backup /\ ~Rewrites(j),
         \/ MasterTorn'
         \/ /\ backup' = backup /\ worker[w].pc # "saving"
            /\ Rewrites(j) => j.step = 1
  PROVE  Settled(K)'
<1>1. worker'[w] = j /\ \A v \in Workers : v # w => worker'[v] = worker[v]
  BY Becomes DEF TypeInv, TypeOK, Become
<1>2. \A v \in Workers : LateJob(worker'[v], K)
  BY <1>1 DEF Settled
<1>3. VaultHolds(K) => VaultHolds(K)'
  BY <1>1 DEF VaultHolds
<1>4. BackupHolds(K) => BackupHolds(K)'
  BY <1>1 DEF BackupHolds
<1>5. MasterTorn'
  BY <1>1 DEF Settled, MasterTorn, At
<1> QED
  BY <1>2, <1>3, <1>4, <1>5 DEF Settled

\* What holds of a worker that takes a step.
LEMMA LateWorker ==
  ASSUME TypeInv, NEW K \in 1..MaxKeys, Settled(K), NEW w \in Workers
  PROVE  /\ LateJob(worker[w], K)
         /\ worker[w] \in Process /\ Key(w) \in Parts /\ worker[w].step \in Steps
         /\ vault \in Store /\ backup \in Store /\ faults \in Nat
         /\ Only(vault, K) /\ \A k \in Parts : backup[k] \in {Absent, Torn, K}
         /\ \A s \in sealed : s.pk = K /\ s.sk = K
         /\ VaultHolds(K) \/ BackupHolds(K)
         /\ VaultHolds(K) => up /\ Whole(vault) /\ Served(worker[w], K)
         /\ BackupHolds(K) => Whole(backup) /\ ~Rewrites(worker[w]) /\ \A k \in Parts : backup[k] = K
<1>1. BackupHolds(K) => Whole(backup)
  BY DEF BackupHolds, Whole, Absent
<1> QED
  BY <1>1, KeyTyped, Constants DEF Settled, TypeInv, TypeOK, VaultHolds, BackupHolds

LEMMA LateFetch ==
  ASSUME TypeInv, NEW K \in 1..MaxKeys, Settled(K), NEW w \in Workers, Fetch(w)
  PROVE  Settled(K)'
<1> DEFINE known == worker[w].cache[Key(w)] # Absent \/ ~up
           cache == IF known THEN worker[w].cache
                    ELSE [k \in Parts |-> IF vault[k] # Absent THEN vault[k] ELSE worker[w].cache[k]]
           n == worker[w].step
           doc == [worker[w].doc EXCEPT ![Key(w)] = cache[Key(w)]]
           j == [worker[w] EXCEPT !.cache = cache, !.doc = doc,
                        !.pc = IF IsLast(w) THEN "decide" ELSE "fetch",
                        !.step = IF IsLast(w) THEN 1 ELSE n + 1]
<1>1. /\ LateJob(worker[w], K)
      /\ worker[w] \in Process /\ Key(w) \in Parts /\ Key(w) = Order[n] /\ n \in Steps
      /\ vault \in Store /\ Only(vault, K) /\ \A k \in Parts : backup[k] \in {Absent, Torn, K}
      /\ \A s \in sealed : s.pk = K /\ s.sk = K
      /\ VaultHolds(K) => up /\ Whole(vault) /\ Served(worker[w], K)
  BY LateWorker DEF Key
<1>2. Become(w, j) /\ worker[w].pc = "fetch" /\ UNCHANGED <<vault, up, backup, sealed, faults>>
  BY <1>1 DEF Fetch, At, Become, Process
<1>3. Only(cache, K) /\ cache[Key(w)] \in {Absent, K} /\ (VaultHolds(K) => cache[Key(w)] = K)
  BY <1>1 DEF LateJob, Only, Whole
<1>4. /\ worker[w].doc \in Store /\ Only(worker[w].mem, K) /\ (worker[w].created => Whole(worker[w].mem))
      /\ \A k \in Before(n) : worker[w].doc[k] \in {Absent, K} /\ (VaultHolds(K) => worker[w].doc[k] = K)
  BY <1>1, <1>2 DEF LateJob, Served, Process
<1> HIDE DEF cache
<1>5. \A k \in Before(n) \cup {Order[n]} : doc[k] \in {Absent, K} /\ (VaultHolds(K) => doc[k] = K)
  BY <1>1, <1>3, <1>4, Turns DEF Store
<1>6. j.cache = cache /\ j.doc = doc /\ j.mem = worker[w].mem /\ j.created = worker[w].created
  BY <1>1 DEF Process
<1>7. LateJob(j, K) /\ (VaultHolds(K) => Served(j, K)) /\ ~Rewrites(j)
  <2>1. CASE n = 4
    <3>1. \A k \in Parts : doc[k] \in {Absent, K} /\ (VaultHolds(K) => doc[k] = K)
      BY <1>1, <1>5, <2>1, Turns
    <3>2. j.pc = "decide" /\ j.step = 1
      BY <1>1, <2>1 DEF Process, IsLast
    <3> HIDE DEF doc, j
    <3>3. Only(doc, K) /\ (VaultHolds(K) => Whole(doc))
      BY <3>1 DEF Only, Whole, Absent
    <3> QED
      BY <1>3, <1>4, <1>6, <3>2, <3>3 DEF LateJob, Served, Rewrites
  <2>2. CASE n # 4
    <3>1. \A k \in Before(n + 1) : doc[k] \in {Absent, K} /\ (VaultHolds(K) => doc[k] = K)
      BY <1>1, <1>5, <2>2, Turns
    <3>2. j.pc = "fetch" /\ j.step = n + 1
      BY <1>1, <2>2 DEF Process, IsLast
    <3> HIDE DEF doc, j
    <3> QED
      BY <1>3, <1>4, <1>6, <3>1, <3>2 DEF LateJob, Served, Rewrites
  <2> QED
    BY <2>1, <2>2
<1> HIDE DEF j
<1> QED
  BY <1>1, <1>2, <1>7, LateMove

\* A store with keys of one set is either whole, and then it is that set, or lacks a key.
LEMMA LateDecide ==
  ASSUME TypeInv, NEW K \in 1..MaxKeys, Settled(K), NEW w \in Workers,
         Compare(w) \/ AdoptVault(w) \/ AdoptBackup(w) \/ Generate(w)
  PROVE  Settled(K)'
<1>1. /\ LateJob(worker[w], K) /\ worker[w] \in Process
      /\ Only(vault, K) /\ \A k \in Parts : backup[k] \in {Absent, Torn, K}
      /\ \A s \in sealed : s.pk = K /\ s.sk = K
      /\ VaultHolds(K) \/ BackupHolds(K)
      /\ VaultHolds(K) => Served(worker[w], K)
      /\ BackupHolds(K) => Whole(backup) /\ \A k \in Parts : backup[k] = K
  BY LateWorker
<1>2. /\ Only(worker[w].cache, K) /\ Only(worker[w].doc, K) /\ worker[w].step = 1
      /\ worker[w].pc = "decide"
      /\ VaultHolds(K) => Whole(worker[w].doc)
  BY <1>1 DEF LateJob, Served, Compare, AdoptVault, AdoptBackup, Generate, At
<1>3. CASE Compare(w)
  <2>1. /\ Whole(worker[w].doc) /\ UNCHANGED <<vault, up, backup, sealed, faults>>
        /\ \/ Become(w, [worker[w] EXCEPT !.pc = "ready", !.mem = worker[w].doc])
           \/ Become(w, [worker[w] EXCEPT !.pc = "halted"])
    BY <1>3 DEF Compare
  <2>2. ASSUME NEW j, \/ j = [worker[w] EXCEPT !.pc = "ready", !.mem = worker[w].doc]
                      \/ j = [worker[w] EXCEPT !.pc = "halted"]
        PROVE  LateJob(j, K) /\ Served(j, K) /\ ~Rewrites(j)
    <3>1. /\ j.cache = worker[w].cache /\ j.mem \in {worker[w].mem, worker[w].doc}
          /\ j.pc \in {"ready", "halted"} /\ j.step = worker[w].step
          /\ j.created => worker[w].created
      BY <1>1, <2>2 DEF Process
    <3> QED
      BY <1>1, <1>2, <2>1, <3>1 DEF LateJob, Served, Rewrites
  <2> QED
    BY <1>1, <1>2, <2>1, <2>2, LateMove
<1>4. CASE AdoptVault(w)
  <2> DEFINE j == [worker[w] EXCEPT !.pc = "backup", !.mem = worker[w].doc]
  <2>1. Become(w, j) /\ Whole(worker[w].doc) /\ ~Whole(backup)
        /\ UNCHANGED <<vault, up, backup, sealed, faults>>
    BY <1>4 DEF AdoptVault
  <2>2. j.cache = worker[w].cache /\ j.mem = worker[w].doc /\ j.pc = "backup" /\ j.step = 1
    BY <1>1, <1>2 DEF Process
  <2> HIDE DEF j
  <2>3. LateJob(j, K) /\ Served(j, K)
    BY <1>2, <2>1, <2>2 DEF LateJob, Served
  <2> QED
    BY <1>1, <1>2, <2>1, <2>2, <2>3, LateMove
<1>5. CASE AdoptBackup(w)
  <2> DEFINE j == [worker[w] EXCEPT !.pc = "read", !.mem = backup, !.fresh = FALSE]
  <2>1. Become(w, j) /\ ~Whole(worker[w].doc) /\ Whole(backup)
        /\ UNCHANGED <<vault, up, backup, sealed, faults>>
    BY <1>5 DEF AdoptBackup
  <2>2. j.cache = worker[w].cache /\ j.mem = backup /\ j.pc = "read" /\ ~j.fresh
    BY <1>1, <1>2 DEF Process
  <2> HIDE DEF j
  <2>3. ~VaultHolds(K) /\ Only(backup, K)
    BY <1>1, <1>2, <2>1 DEF Only
  <2>4. LateJob(j, K) /\ ~Rewrites(j)
    BY <1>2, <2>1, <2>2, <2>3 DEF LateJob, Rewrites
  <2> QED
    BY <1>1, <1>2, <2>1, <2>3, <2>4, LateMove
<1>6. CASE Generate(w)
  BY <1>1, <1>2, <1>6 DEF Generate
<1> QED
  BY <1>3, <1>4, <1>5, <1>6

LEMMA LatePut ==
  ASSUME TypeInv, NEW K \in 1..MaxKeys, Settled(K), NEW w \in Workers,
         ReadDocument(w) \/ WriteDocument(w) \/ PutFails(w)
  PROVE  Settled(K)'
<1>1. /\ LateJob(worker[w], K)
      /\ worker[w] \in Process /\ Key(w) \in Parts /\ worker[w].step \in Steps
      /\ vault \in Store /\ Only(vault, K) /\ \A k \in Parts : backup[k] \in {Absent, Torn, K}
      /\ \A s \in sealed : s.pk = K /\ s.sk = K
      /\ VaultHolds(K) => Served(worker[w], K)
  BY LateWorker
<1>2. /\ Only(worker[w].cache, K) /\ Only(worker[w].mem, K) /\ Whole(worker[w].mem) /\ ~worker[w].fresh
      /\ ~VaultHolds(K) /\ worker[w].pc # "saving"
      /\ worker[w].mem \in Store /\ worker[w].cache \in Store
  BY <1>1 DEF LateJob, Served, ReadDocument, WriteDocument, PutFails, At, TypeInv, Holding, Process
<1>3. CASE ReadDocument(w)
  <2> DEFINE j == [worker[w] EXCEPT !.pc = "write", !.doc = vault]
  <2>1. Become(w, j) /\ UNCHANGED <<vault, up, backup, sealed, faults>>
    BY <1>3 DEF ReadDocument
  <2>2. j.cache = worker[w].cache /\ j.pc = "write" /\ j.doc = vault /\ j.mem = worker[w].mem /\ ~j.fresh
    BY <1>1, <1>2 DEF Process
  <2> HIDE DEF j
  <2>3. LateJob(j, K) /\ ~Rewrites(j)
    BY <1>1, <1>2, <2>2 DEF LateJob, Rewrites
  <2> QED
    BY <1>1, <1>2, <2>1, <2>3, LateMove
<1>4. ASSUME NEW p \in Process, p.step = worker[w].step, Only(p.cache, K), p.mem = worker[w].mem, ~p.fresh
      PROVE  LateJob(Pushed(w, p), K) /\ ~Rewrites(Pushed(w, p))
  <2> DEFINE j == Pushed(w, p)
  <2>1. /\ j.cache = p.cache /\ j.mem = p.mem /\ j.pc \in {"read", "ready"} /\ ~j.fresh
        /\ j.pc = "ready" => j.step = 1
    BY <1>4 DEF Pushed, Process
  <2> QED
    BY <1>2, <1>4, <2>1 DEF LateJob, Rewrites
<1>5. CASE WriteDocument(w)
  <2> DEFINE cache == [worker[w].cache EXCEPT ![Key(w)] = worker[w].mem[Key(w)]]
             p == [worker[w] EXCEPT !.cache = cache]
  <2>1. /\ Become(w, Pushed(w, p)) /\ UNCHANGED <<up, backup, sealed, faults>>
        /\ vault' = [worker[w].doc EXCEPT ![Key(w)] = worker[w].mem[Key(w)]]
        /\ worker[w].doc \in Store /\ Only(worker[w].doc, K)
    BY <1>1, <1>5 DEF WriteDocument, LateJob, At, Process
  <2>2. worker[w].mem[Key(w)] = K
    BY <1>1, <1>2, WholeOnly
  <2>3. Only(cache, K) /\ Only(vault', K)
    BY <1>1, <1>2, <2>1, <2>2 DEF Only, Store
  <2>4. cache \in Store
    BY <1>1, <1>2, <2>2, StoreTyped
  <2>5. p \in Process /\ p.step = worker[w].step /\ p.cache = cache /\ p.mem = worker[w].mem /\ ~p.fresh
    BY <1>1, <1>2, <2>4 DEF Process
  <2> HIDE DEF cache, p
  <2>6. LateJob(Pushed(w, p), K) /\ ~Rewrites(Pushed(w, p))
    BY <1>4, <2>3, <2>5
  <2> QED
    BY <1>1, <1>2, <2>1, <2>3, <2>6, LateMove
<1>6. CASE PutFails(w)
  <2>1. Become(w, Pushed(w, worker[w])) /\ UNCHANGED <<vault, up, backup, sealed, faults>>
    BY <1>6 DEF PutFails
  <2>2. LateJob(Pushed(w, worker[w]), K) /\ ~Rewrites(Pushed(w, worker[w]))
    BY <1>1, <1>2, <1>4
  <2> QED
    BY <1>1, <1>2, <2>1, <2>2, LateMove
<1> QED
  BY <1>3, <1>5, <1>6


\* A worker that saves keys found the backup wanting: that was the fault.
LEMMA LateSave ==
  ASSUME MaxFaults <= 1, TypeInv, NEW K \in 1..MaxKeys, Settled(K), NEW w \in Workers,
         OpenFile(w) \/ WriteFile(w) \/ SaveFails(w) \/ SaveDies(w)
  PROVE  Settled(K)'
<1> DEFINE n == worker[w].step
<1>1. /\ LateJob(worker[w], K)
      /\ worker[w] \in Process /\ Key(w) \in Parts /\ Key(w) = Order[n] /\ n \in Steps
      /\ backup \in Store /\ Only(vault, K) /\ \A k \in Parts : backup[k] \in {Absent, Torn, K}
      /\ \A s \in sealed : s.pk = K /\ s.sk = K
      /\ BackupHolds(K) => ~Rewrites(worker[w])
  BY LateWorker DEF Key
<1>2. /\ Rewrites(worker[w]) /\ ~BackupHolds(K)
      /\ Only(worker[w].cache, K) /\ Only(worker[w].mem, K) /\ Whole(worker[w].mem)
      /\ worker[w].mem \in Store
  BY <1>1 DEF LateJob, Rewrites, OpenFile, WriteFile, SaveFails, SaveDies, At, TypeInv, Holding, Process
<1>3. worker[w].mem[Order[n]] = K
  BY <1>1, <1>2, WholeOnly
<1>4. /\ Order[1] = "CPABE_MSK" /\ "CPABE_MSK" \in Parts /\ "PQC_PK" \in Parts
      /\ n # 1 => Order[n] # "CPABE_MSK"
  <2>1. Order[1] = "CPABE_MSK" /\ Order[2] = "CPABE_PK" /\ Order[3] = "PQC_SK" /\ Order[4] = "PQC_PK"
    BY DEF Order
  <2> QED
    BY <1>1, <2>1, Turns DEF Steps
<1>5. K # Torn
  BY Constants DEF Torn
<1>6. MasterTorn
  BY DEF Settled
<1>7. CASE OpenFile(w)
  <2> DEFINE j == [worker[w] EXCEPT !.pc = "saving"]
  <2>1. /\ Become(w, j) /\ UNCHANGED <<vault, up, sealed, faults>> /\ worker[w].pc = "backup"
        /\ backup' = [backup EXCEPT ![Order[n]] = Torn]
    BY <1>1, <1>7 DEF OpenFile, At
  <2>2. j.cache = worker[w].cache /\ j.mem = worker[w].mem /\ j.pc = "saving" /\ j.step = n
    BY <1>1 DEF Process
  <2> HIDE DEF j
  <2>3. LateJob(j, K) /\ Served(j, K)
    BY <1>2, <2>2 DEF LateJob, Served
  <2>4. \A k \in Parts : backup'[k] \in {Absent, Torn, K} /\ (k # Order[n] => backup'[k] = backup[k])
    BY <1>1, <2>1 DEF Store
  <2>5. worker'[w] = j /\ \A v \in Workers : v # w => worker'[v] = worker[v]
    BY <2>1, Becomes DEF TypeInv, TypeOK, Become
  <2>6. MasterTorn'
    <3>1. CASE n = 1
      BY <2>2, <2>5, <3>1 DEF MasterTorn, At
    <3>2. CASE n # 1
      <4>1. SUFFICES ASSUME backup["CPABE_MSK"] = Torn
                     PROVE  \E v \in Workers : worker'[v].pc = "saving" /\ worker'[v].step = 1
        BY <1>4, <2>4, <3>2 DEF MasterTorn, At
      <4>2. PICK v \in Workers : worker[v].pc = "saving" /\ worker[v].step = 1
        BY <1>2, <1>6, <3>2, <4>1 DEF MasterTorn, At
      <4> QED
        BY <2>1, <2>5, <4>2
    <3> QED
      BY <3>1, <3>2
  <2> QED
    BY <1>1, <1>2, <2>1, <2>3, <2>4, <2>6, LateMove
<1>8. CASE WriteFile(w)
  <2> DEFINE j == IF IsLast(w) THEN [worker[w] EXCEPT !.pc = "ready", !.step = 1]
                               ELSE [worker[w] EXCEPT !.pc = "backup", !.step = n + 1]
  <2>1. /\ Become(w, j) /\ UNCHANGED <<vault, up, sealed, faults>>
        /\ backup' = [backup EXCEPT ![Order[n]] = K]
    BY <1>1, <1>3, <1>8 DEF WriteFile, At, Process
  <2>2. /\ j.cache = worker[w].cache /\ j.mem = worker[w].mem /\ j.pc \in {"ready", "backup"}
        /\ j.pc = "ready" => j.step = 1
    BY <1>1 DEF Process
  <2> HIDE DEF j
  <2>3. LateJob(j, K) /\ Served(j, K)
    BY <1>2, <2>2 DEF LateJob, Served
  <2>4. \A k \in Parts : backup'[k] \in {Absent, Torn, K} /\ (k # Order[n] => backup'[k] = backup[k])
    BY <1>1, <2>1 DEF Store
  <2>5. worker'[w] = j /\ \A v \in Workers : v # w => worker'[v] = worker[v]
    BY <2>1, Becomes DEF TypeInv, TypeOK, Become
  <2>6. MasterTorn'
    <3>1. CASE n = 1
      <4>1. backup'["CPABE_MSK"] = K
        BY <1>1, <1>4, <2>1, <3>1 DEF Store
      <4> QED
        BY <1>5, <4>1 DEF MasterTorn
    <3>2. CASE n # 1
      <4>1. SUFFICES ASSUME backup["CPABE_MSK"] = Torn
                     PROVE  \E v \in Workers : worker'[v].pc = "saving" /\ worker'[v].step = 1
        BY <1>4, <2>4, <3>2 DEF MasterTorn, At
      <4>2. PICK v \in Workers : worker[v].pc = "saving" /\ worker[v].step = 1
        BY <1>2, <1>6, <3>2, <4>1 DEF MasterTorn, At
      <4> QED
        BY <2>5, <3>2, <4>2
    <3> QED
      BY <3>1, <3>2
  <2> QED
    BY <1>1, <1>2, <2>1, <2>3, <2>4, <2>6, LateMove
<1>9. CASE SaveFails(w) \/ SaveDies(w)
  <2>1. faults < MaxFaults /\ faults # 0 /\ faults \in Nat
    BY <1>2, <1>9, Constants DEF SaveFails, SaveDies, Fault, Settled, TypeInv, TypeOK
  <2> QED
    BY <2>1, Constants
<1> QED
  BY <1>7, <1>8, <1>9

LEMMA LateRest ==
  ASSUME TypeInv, NEW K \in 1..MaxKeys, Settled(K), NEW w \in Workers,
         Begin(w) \/ Create(w) \/ Seal(w) \/ Respond(w) \/ Restart(w)
  PROVE  Settled(K)'
<1>1. /\ LateJob(worker[w], K)
      /\ worker[w] \in Process /\ Only(vault, K) /\ \A k \in Parts : backup[k] \in {Absent, Torn, K}
      /\ \A s \in sealed : s.pk = K /\ s.sk = K
  BY LateWorker
<1>2. UNCHANGED <<vault, up, backup, faults>>
  BY DEF Begin, Create, Seal, Respond, Restart
<1>3. \A s \in sealed' : s.pk = K /\ s.sk = K
  <2>1. CASE Seal(w)
    <3>1. worker[w].mem \in Store /\ Whole(worker[w].mem) /\ Only(worker[w].mem, K)
      BY <1>1, <2>1 DEF Seal, At, TypeInv, Holding, LateJob, Process
    <3>2. worker[w].mem["CPABE_PK"] = K /\ worker[w].mem["PQC_SK"] = K
      BY <3>1, WholeOnly, Turns
    <3> QED
      BY <1>1, <2>1, <3>2 DEF Seal
  <2> QED
    BY <1>1, <2>1 DEF Begin, Create, Respond, Restart
<1>4. ASSUME NEW j, Become(w, j), LateJob(j, K), Served(j, K), ~Rewrites(j) PROVE Settled(K)'
  <2>1. worker[w].pc # "saving"
    BY DEF Begin, Create, Seal, Respond, Restart, At
  <2> QED
    BY <1>1, <1>2, <1>3, <1>4, <2>1, LateMove
<1>5. CASE Begin(w)
  <2> DEFINE j == [worker[w] EXCEPT !.pc = "fetch", !.step = 1]
  <2>1. /\ Become(w, j) /\ j.pc = "fetch" /\ j.step = 1 /\ j.cache = worker[w].cache
        /\ j.mem = worker[w].mem /\ j.created = worker[w].created
    BY <1>1, <1>5 DEF Begin, Process
  <2>2. LateJob(j, K) /\ Served(j, K) /\ ~Rewrites(j)
    BY <1>1, <2>1, Turns DEF LateJob, Served, Rewrites
  <2> QED
    BY <1>4, <2>1, <2>2
<1>6. CASE Create(w)
  <2> DEFINE j == [worker[w] EXCEPT !.pc = "fetch", !.created = TRUE]
  <2>1. /\ Become(w, j) /\ j.pc = "fetch" /\ j.step = worker[w].step /\ j.cache = worker[w].cache
        /\ j.mem = worker[w].mem /\ worker[w].pc = "ready"
    BY <1>1, <1>6 DEF Create, At, Process
  <2>2. j.step = 1 /\ Whole(j.mem)
    BY <1>1, <2>1 DEF LateJob, TypeInv, Holding
  <2>3. LateJob(j, K) /\ Served(j, K) /\ ~Rewrites(j)
    BY <1>1, <2>1, <2>2, Turns DEF LateJob, Served, Rewrites
  <2> QED
    BY <1>4, <2>1, <2>3
<1>7. CASE Seal(w) \/ Respond(w)
  <2> DEFINE j == [worker[w] EXCEPT !.pc = "idle"]
  <2>1. /\ Become(w, j) /\ j.pc = "idle" /\ j.cache = worker[w].cache
        /\ j.mem = worker[w].mem /\ j.created = worker[w].created
    BY <1>1, <1>7 DEF Seal, Respond, Process
  <2>2. LateJob(j, K) /\ Served(j, K) /\ ~Rewrites(j)
    BY <1>1, <2>1 DEF LateJob, Served, Rewrites
  <2> QED
    BY <1>4, <2>1, <2>2
<1>8. CASE Restart(w)
  BY <1>4, <1>8, StartedLate DEF Restart
<1> QED
  BY <1>5, <1>6, <1>7, <1>8

\* The fault, if it has not happened yet; then both stores are whole and no worker lacks a key.
LEMMA LateFault ==
  ASSUME MaxFaults <= 1, TypeInv, NEW K \in 1..MaxKeys, Settled(K),
         VaultDown \/ VaultUp \/ LoseVault \/ LoseBackup
  PROVE  Settled(K)'
<1>1. /\ Only(vault, K) /\ \A k \in Parts : backup[k] \in {Absent, Torn, K}
      /\ \A s \in sealed : s.pk = K /\ s.sk = K
      /\ VaultHolds(K) \/ BackupHolds(K)
      /\ faults = 0 => VaultHolds(K) /\ BackupHolds(K)
      /\ MasterTorn
  BY DEF Settled
<1>2. UNCHANGED <<worker, sealed>> /\ \A v \in Workers : LateJob(worker'[v], K)
  BY DEF VaultDown, VaultUp, LoseVault, LoseBackup, Settled
<1>3. ASSUME NEW kind, Fault(kind)
      PROVE  faults' # 0 /\ VaultHolds(K) /\ BackupHolds(K)
  BY <1>1, <1>3, Constants DEF Fault, TypeInv, TypeOK
<1>4. CASE VaultUp
  <2>1. UNCHANGED <<vault, backup, faults>> /\ up'
    BY <1>4 DEF VaultUp
  <2>2. (VaultHolds(K) => VaultHolds(K)') /\ (BackupHolds(K) => BackupHolds(K)') /\ MasterTorn'
    BY <1>1, <1>2, <2>1 DEF VaultHolds, BackupHolds, MasterTorn, At
  <2> QED
    BY <1>1, <1>2, <2>1, <2>2 DEF Settled
<1>5. CASE VaultDown \/ LoseVault
  <2>1. /\ vault' \in {vault, Empty} /\ backup' = backup
        /\ faults' # 0 /\ BackupHolds(K)
    BY <1>3, <1>5 DEF VaultDown, LoseVault
  <2>2. Only(vault', K)
    BY <1>1, <2>1 DEF Only, Empty
  <2>3. BackupHolds(K)' /\ MasterTorn'
    BY <1>1, <1>2, <2>1 DEF BackupHolds, MasterTorn, At
  <2> QED
    BY <1>1, <1>2, <2>1, <2>2, <2>3 DEF Settled
<1>6. CASE LoseBackup
  <2>1. backup' = Empty /\ UNCHANGED <<vault, up>> /\ faults' # 0 /\ VaultHolds(K)
    BY <1>3, <1>6 DEF LoseBackup
  <2>2. \A k \in Parts : backup'[k] = Absent
    BY <2>1 DEF Empty
  <2>3. VaultHolds(K)' /\ MasterTorn'
    BY <1>2, <2>1, <2>2, Turns DEF VaultHolds, MasterTorn, Absent, Torn
  <2> QED
    BY <1>1, <1>2, <2>1, <2>2, <2>3 DEF Settled
<1> QED
  BY <1>4, <1>5, <1>6

LEMMA LateStep ==
  ASSUME MaxFaults <= 1, TypeInv, KeyInv, sealed # {}, [Next]_vars
  PROVE  KeyInv'
<1>1. PICK K \in 1..MaxKeys : Settled(K)
  BY DEF KeyInv
<1>2. sealed' # {}
  BY DEF Next, vars, EnsureKeysExist, Begin, Fetch, Compare, AdoptVault, AdoptBackup, Generate, ReadDocument,
     WriteDocument, PutFails, OpenFile, WriteFile, SaveFails, SaveDies, Create, Seal, Respond, Restart, VaultDown, VaultUp,
     LoseVault, LoseBackup
<1>3. CASE UNCHANGED vars
  BY <1>1, <1>2, <1>3 DEF vars, KeyInv, Settled, LateJob, VaultHolds, BackupHolds, MasterTorn, Served, At, Only,
     Whole, Before
<1>4. ASSUME NEW w \in Workers,
             EnsureKeysExist(w) \/ Create(w) \/ Seal(w) \/ Respond(w) \/ Restart(w)
      PROVE  KeyInv'
  <2>1. Settled(K)'
    BY <1>1, <1>4, LateFetch, LateDecide, LatePut, LateSave, LateRest DEF EnsureKeysExist
  <2> QED
    BY <1>2, <2>1 DEF KeyInv
<1>5. CASE VaultDown \/ VaultUp \/ LoseVault \/ LoseBackup
  BY <1>1, <1>2, <1>5, LateFault DEF KeyInv
<1> QED
  BY <1>3, <1>4, <1>5 DEF Next

--------------------------------------------------------------------------------
LEMMA KeyInit == Init => KeyInv
<1> SUFFICES ASSUME Init PROVE Early
  BY DEF Init, KeyInv
<1>1. EarlyTables(vault, backup)
  BY Turns DEF Init, Empty, EarlyTables, Copies
<1> QED
  BY <1>1, StartedEarly, TornEmpty, BoundsAssumption DEF Init, Early

LEMMA KeyStep == ASSUME OneEarly, MaxFaults <= 1 PROVE TypeInv /\ KeyInv /\ [Next]_vars => KeyInv'
  BY EarlyStep, LateStep

LEMMA KeysKept ==
  ASSUME TypeInv, KeyInv
  PROVE  SealedRecoverable /\ ServiceOpensAll /\ NoSplitBrain
<1>1. CASE sealed = {}
  <2>1. Early
    BY <1>1 DEF KeyInv
  <2>2. NoSplitBrain
    BY <2>1, Turns DEF Early, EarlyTables, EarlyJob, NoSplitBrain, Whole, At
  <2> QED
    BY <1>1, <2>2 DEF SealedRecoverable, ServiceOpensAll
<1>2. CASE sealed # {}
  <2>1. PICK K \in 1..MaxKeys : Settled(K)
    BY <1>2 DEF KeyInv
  <2>2. ASSUME NEW store \in Store, Only(store, K), Whole(store), NEW s \in sealed PROVE Opens(store, s)
    BY <2>1, <2>2, WholeOnly, Turns DEF Opens, Settled
  <2>3. vault \in Store /\ backup \in Store
    BY DEF TypeInv, TypeOK
  <2>4. SealedRecoverable
    <3>1. CASE VaultHolds(K)
      BY <2>1, <2>2, <2>3, <3>1 DEF SealedRecoverable, Settled, VaultHolds
    <3>2. CASE BackupHolds(K)
      <4>1. Only(backup, K) /\ Whole(backup)
        BY <3>2 DEF BackupHolds, Only, Whole, Absent
      <4> QED
        BY <2>2, <2>3, <4>1 DEF SealedRecoverable
    <3> QED
      BY <2>1, <3>1, <3>2 DEF Settled
  <2>5. ServiceOpensAll
    <3>1. \A w \in Workers : worker[w].mem \in Store
      BY DEF TypeInv, TypeOK, Process
    <3> QED
      BY <2>1, <2>2, <3>1 DEF ServiceOpensAll, Settled, LateJob
  <2>6. NoSplitBrain
    <3>1. SUFFICES ASSUME NEW w \in Workers, worker[w].pc = "decide", Whole(worker[w].doc), Whole(backup),
                          backup["CPABE_MSK"] # worker[w].doc["CPABE_MSK"]
                   PROVE  \E v \in Workers : worker[v].pc = "saving" /\ Key(v) = "CPABE_MSK"
      BY DEF NoSplitBrain, At
    <3>2. "CPABE_MSK" \in Parts /\ "PQC_PK" \in Parts /\ Order[1] = "CPABE_MSK"
      BY Turns DEF Order
    <3>3. worker[w].doc["CPABE_MSK"] = K
      BY <2>1, <3>1, <3>2 DEF Settled, LateJob, Only, Whole
    <3>4. backup["CPABE_MSK"] = Torn /\ backup["PQC_PK"] # Absent
      BY <2>1, <3>1, <3>2, <3>3 DEF Settled, Whole
    <3> QED
      BY <2>1, <3>2, <3>4 DEF Settled, MasterTorn, At, Key
  <2> QED
    BY <2>4, <2>5, <2>6
<1> QED
  BY <1>1, <1>2

LEMMA KeysInvariant == ASSUME OneEarly, MaxFaults <= 1 PROVE Spec => [](TypeInv /\ KeyInv)
<1>1. Init => TypeInv /\ KeyInv
  BY TypeInit, KeyInit
<1>2. TypeInv /\ KeyInv /\ [Next]_vars => (TypeInv /\ KeyInv)'
  BY TypeStep, KeyStep
<1> QED
  BY <1>1, <1>2, PTL DEF Spec

\* One fault of Vault or the backup, and any number of restarts, never cost the keys of a file,
\* if one worker alone makes the first keys (_ensure_keys_exist, _save_backup).
THEOREM RecoveryCorrect == ASSUME OneEarly, MaxFaults <= 1 PROVE Spec => []SealedRecoverable
<1>1. TypeInv /\ KeyInv => SealedRecoverable
  BY KeysKept
<1> QED
  BY <1>1, KeysInvariant, PTL

\* Under the same conditions every service that was created holds the keys of every file.
THEOREM ServicesCorrect == ASSUME OneEarly, MaxFaults <= 1 PROVE Spec => []ServiceOpensAll
<1>1. TypeInv /\ KeyInv => ServiceOpensAll
  BY KeysKept
<1> QED
  BY <1>1, KeysInvariant, PTL

\* Under the same conditions Vault and the backup agree, and no request meets "CRITICAL ERROR"
\* unless it reads the backup while another rewrites the master key's file.
THEOREM NeverSplit == ASSUME OneEarly, MaxFaults <= 1 PROVE Spec => []NoSplitBrain
<1>1. TypeInv /\ KeyInv => NoSplitBrain
  BY KeysKept
<1> QED
  BY <1>1, KeysInvariant, PTL
================================================================================
