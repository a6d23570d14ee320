---------------------------- MODULE AbePluginProofs ----------------------------
(***************************************************************************)
(* Proofs about AbePlugin: without an outage of Vault, for any number of   *)
(* workers, restarts, key sets and files, no file loses its keys.  As in   *)
(* the runs, one worker alone sets the keys up.                            *)
(***************************************************************************)
EXTENDS AbePlugin, FiniteSetTheorems, TLAPS

\* Two workers that find no keys would both generate.
OneEarly == \A v, w \in Workers \ Late : v = w

PkOK(pk) == pk = NoKey \/ (pk.scheme \in Schemes /\ pk.set # Absent)

TypeInv ==
    /\ TypeOK
    /\ IsFiniteSet(files)
    /\ \A w \in Workers : PkOK(worker[w].pk)

\* Pcs of a worker that makes keys or records them.
Making == {"setup", "setup_pqc", "read", "write"}

\* A recorded key is that of the mount, which has both keys of one set; the CP-ABE key is
\* recorded first.
Recorded(d, m) ==
    \A s \in Schemes :
        /\ d[s]["abe"] # Absent => m[s]["abe"] = d[s]["abe"] /\ m[s]["pqc"] = d[s]["abe"]
        /\ d[s]["pqc"] # Absent => d[s]["abe"] # Absent /\ d[s]["pqc"] = d[s]["abe"]

Complete(d) == \A s \in Schemes : d[s]["abe"] # Absent

\* What a worker remembers is recorded.  Keys are made only where none are recorded, before
\* there is a file; the document a worker is about to write back is the current one.
WorkerOK(j, d, m, fs) ==
    /\ \A s \in Schemes, k \in Kinds : j.cache[s][k] # Absent => j.cache[s][k] = d[s][k]
    /\ j.pc \in {"fetch"} \cup Making /\ j.scheme = "tkn20" => d["ac17"]["abe"] # Absent
    /\ j.pc \in {"adopt", "ready"} => Complete(d)
    /\ j.pc \in {"fetch", "setup", "setup_pqc"} => j.kind = "abe"
    /\ j.pc \in Making => fs = {} /\ (j.kind = "abe" => d[j.scheme]["abe"] = Absent)
    /\ j.pc \in {"setup_pqc", "read", "write"} => j.made # Absent /\ m[j.scheme]["abe"] = j.made
    /\ j.pc \in {"read", "write"} =>
           m[j.scheme]["pqc"] = j.made /\ (j.kind = "pqc" => d[j.scheme]["abe"] = j.made)
    /\ j.pc = "write" => j.read = d

\* A file is sealed and signed with recorded keys.
FileOK(f, d) ==
    /\ f.version = 2
    /\ f.scheme \in Schemes /\ f.capsule.scheme = f.scheme
    /\ f.capsule.set = d[f.scheme]["abe"] /\ f.payload.signer = d[f.scheme]["abe"]
    /\ f.capsule.policy \in Policies

KeysOK ==
    /\ up
    /\ Recorded(doc, mount)
    /\ files # {} => Complete(doc)
    /\ files = {} => \A w \in Late : worker[w] = Started
    /\ \A f \in files : FileOK(f, doc)
    /\ \A w \in Workers : WorkerOK(worker[w], doc, mount, files)

KeyInv == faults = 0 => KeysOK

LEMMA Constants == MaxKeys \in Nat /\ MaxFiles \in Nat /\ MaxFaults \in Nat /\ Scheme \in Schemes
  BY BoundsAssumption

LEMMA StartedTyped == Started \in Process /\ PkOK(Started.pk)
  BY Constants DEF Started, Process, PkOK, NoKey, KeySet, Pcs, Schemes, Empty, Store, Kinds, Absent

LEMMA StoreTyped ==
  /\ Empty \in Store /\ Absent \in 0..MaxKeys
  /\ \A d \in Store, s \in Schemes, k \in Kinds, n \in 0..MaxKeys :
        d[s][k] \in 0..MaxKeys /\ [d EXCEPT ![s][k] = n] \in Store
  BY Constants DEF Store, Empty, Absent

\* What get_secret leaves in the memory of a process.
LEMMA CachedTyped ==
  ASSUME TypeOK, NEW j \in Process, NEW s \in Schemes, NEW k \in Kinds
  PROVE  Cached(j, s, k) \in Store
  BY DEF TypeOK, Cached, Process, Store

LEMMA RecalledTyped ==
  ASSUME TypeOK, NEW j \in Process
  PROVE  Recalled(j) \subseteq Store
<1>1. ASSUME NEW s \in Schemes PROVE Cached([j EXCEPT !.cache = Cached(j, s, "pqc")], s, "abe") \in Store
  <2>1. Cached(j, s, "pqc") \in Store
    BY CachedTyped DEF Kinds
  <2>2. [j EXCEPT !.cache = Cached(j, s, "pqc")] \in Process
    BY <2>1 DEF Process
  <2> QED
    BY <2>2, CachedTyped DEF Kinds
<1>2. Cached(j, Scheme, "abe") \in Store /\ j.cache \in Store
  BY CachedTyped, Constants DEF Kinds, Process
<1> QED
  BY <1>1, <1>2 DEF Recalled

LEMMA NextSchemeTyped ==
  ASSUME NEW j \in Process
  PROVE  NextScheme(j) \in Process /\ NextScheme(j).pk = j.pk
  BY DEF NextScheme, Process, Pcs, Schemes, Kinds

LEMMA NextKindTyped ==
  ASSUME NEW j \in Process
  PROVE  NextKind(j) \in Process /\ NextKind(j).pk = j.pk
  BY NextSchemeTyped DEF NextKind, Process, Pcs, Kinds

\* A step of one process, that leaves the files.
LEMMA ProcessStep ==
  ASSUME TypeInv, NEW w \in Workers, NEW j \in Process, PkOK(j.pk), Become(w, j)
  PROVE  worker' \in [Workers -> Process] /\ \A v \in Workers : PkOK(worker'[v].pk)
<1>1. /\ worker' \in [Workers -> Process] /\ worker'[w] = j
      /\ \A v \in Workers : v # w => worker'[v] = worker[v]
  BY DEF Become, TypeInv, TypeOK
<1> QED
  BY <1>1 DEF TypeInv

\* A file that encryption makes.
LEMMA SealTyped ==
  ASSUME TypeInv, NEW pk, PkOK(pk), pk # NoKey, pk.set \in 0..MaxKeys, NEW policy \in Policies,
         Cardinality(files) < MaxFiles, Succeeded(Seal(pk, policy, Cardinality(files) + 1))
  PROVE  LET f == Seal(pk, policy, Cardinality(files) + 1).out IN
         /\ f \in Ciphertext
         /\ f.scheme = Scheme /\ f.version = 2
         /\ f.capsule.scheme = pk.scheme /\ f.capsule.set = pk.set /\ f.capsule.policy = policy
         /\ pk.scheme = Scheme
         /\ mount[Scheme]["pqc"] # Absent => f.payload.signer = mount[Scheme]["pqc"]
<1> DEFINE n == Cardinality(files) + 1
           signed == [signer |-> mount[Scheme]["pqc"], policy |-> policy, data |-> n]
           payload == IF mount[Scheme]["pqc"] # Absent THEN signed ELSE Plain(n)
<1>1. n \in 1..MaxFiles
  BY FS_CardinalityType, Constants DEF TypeInv
<1>2. payload \in [signer : 0..MaxKeys, policy : Policies \cup {"nothing"}, data : 1..MaxFiles]
  BY <1>1, Constants DEF TypeInv, TypeOK, Store, Kinds, Plain, Unsigned
<1>3. Seal(pk, policy, n) = EncryptBuffer(pk, payload, policy, Scheme)
  BY DEF Seal, EncryptBufferAndSign
<1> HIDE DEF n, payload
<1>4. pk.set \in 1..MaxKeys /\ pk.scheme \in Schemes
  BY Constants DEF PkOK, NoKey, KeySet, Absent
<1>5. CASE Scheme = "ac17"
  <2>1. Succeeded(Ac17Encapsulate(pk, policy))
    BY <1>3, <1>5 DEF EncryptBuffer, n
  <2>2. Ac17Encapsulate(pk, policy).out = Capsule(pk, policy) /\ pk.scheme = Scheme
    BY <2>1, <1>5 DEF Ac17Encapsulate, Succeeded, Done, Fail
  <2>3. Seal(pk, policy, n).out =
          [version |-> 2, scheme |-> Scheme, capsule |-> Capsule(pk, policy), payload |-> payload]
    BY <2>1, <2>2, <1>3, <1>5 DEF EncryptBuffer, Done
  <2> QED
    BY <2>2, <2>3, <1>2, <1>4 DEF Capsule, Ciphertext, n, payload
<1>6. CASE Scheme # "ac17"
  <2>1. Succeeded(Tkn20Encapsulate(pk, policy))
    BY <1>3, <1>6 DEF EncryptBuffer, n
  <2>2. Tkn20Encapsulate(pk, policy).out = Capsule(pk, policy) /\ pk.scheme = Scheme
    BY <2>1, <1>6, Constants DEF Tkn20Encapsulate, Succeeded, Done, Fail, Schemes
  <2>3. Seal(pk, policy, n).out =
          [version |-> 2, scheme |-> Scheme, capsule |-> Capsule(pk, policy), payload |-> payload]
    BY <2>1, <2>2, <1>3, <1>6 DEF EncryptBuffer, Done
  <2> QED
    BY <2>2, <2>3, <1>2, <1>4 DEF Capsule, Ciphertext, n, payload
<1> QED
  BY <1>5, <1>6

LEMMA PublicKeyTyped ==
  ASSUME TypeInv, NEW w \in Workers
  PROVE  PkOK(PublicKey(w)) /\ PublicKey(w).set \in 0..MaxKeys
<1> DEFINE known == Cached(worker[w], Scheme, "abe")[Scheme]["abe"]
<1>1. known \in 0..MaxKeys
  BY CachedTyped, Constants DEF TypeInv, TypeOK, Store, Kinds
<1>2. worker[w].pk.set \in 0..MaxKeys
  BY DEF TypeInv, TypeOK, Process
<1> HIDE DEF known
<1>3. PublicKey(w) = IF known # Absent THEN KeySet(Scheme, known) ELSE worker[w].pk
  BY DEF PublicKey, known
<1> QED
  BY <1>1, <1>2, <1>3, Constants DEF KeySet, PkOK, TypeInv

LEMMA TypeInit == Init => TypeInv
  BY StartedTyped, Constants, FS_EmptySet DEF Init, TypeInv, TypeOK, Store, Empty, Absent

LEMMA TypeStep == TypeInv /\ [Next]_vars => TypeInv'
<1> SUFFICES ASSUME TypeInv, [Next]_vars PROVE TypeInv'
  OBVIOUS
<1> USE Constants
<1>a. /\ mount \in Store /\ doc \in Store /\ up \in BOOLEAN /\ worker \in [Workers -> Process]
      /\ generated \in 0..MaxKeys /\ files \subseteq Ciphertext /\ faults \in 0..MaxFaults
      /\ IsFiniteSet(files) /\ \A w \in Workers : PkOK(worker[w].pk)
  BY DEF TypeInv, TypeOK
<1> DEFINE Same == UNCHANGED <<mount, doc, up, generated, files, faults>>
<1>b. ASSUME NEW w \in Workers, NEW j \in Process, PkOK(j.pk), Become(w, j), Same
      PROVE  TypeInv'
  BY <1>a, <1>b, ProcessStep DEF TypeInv, TypeOK
<1>1. ASSUME NEW w \in Workers, Begin(w) PROVE TypeInv'
  <2> DEFINE j == [worker[w] EXCEPT !.pc = "fetch", !.scheme = "ac17", !.kind = "abe"]
  <2>1. j \in Process /\ j.pk = worker[w].pk
    BY <1>a DEF Process, Pcs, Schemes, Kinds
  <2>2. Become(w, j) /\ Same
    BY <1>1 DEF Begin
  <2> HIDE DEF j
  <2> QED
    BY <1>a, <1>b, <2>1, <2>2
<1>2. ASSUME NEW w \in Workers, Fetch(w) PROVE TypeInv'
  <2> DEFINE s == worker[w].scheme
             cache == Cached(worker[w], s, "abe")
             job == [worker[w] EXCEPT !.cache = cache, !.found[s] = cache[s]["abe"]]
             next == IF cache[s]["abe"] # Absent THEN NextScheme(job) ELSE [job EXCEPT !.pc = "setup"]
  <2>1. s \in Schemes /\ cache \in Store
    BY <1>a, CachedTyped DEF Process, Kinds, TypeInv
  <2>a. cache[s]["abe"] \in 0..MaxKeys
    BY <2>1, StoreTyped DEF Kinds
  <2> HIDE DEF cache
  <2>2. job \in Process /\ job.pk = worker[w].pk
    BY <1>a, <2>1, <2>a DEF Process
  <2>3. next \in Process /\ next.pk = worker[w].pk
    BY <2>2, NextSchemeTyped DEF Process, Pcs
  <2>4. Become(w, next) /\ Same
    BY <1>2 DEF Fetch, cache
  <2> HIDE DEF next
  <2> QED
    BY <2>3, <2>4, <1>a, <1>b
<1>3. ASSUME NEW w \in Workers, SetupAbe(w) PROVE TypeInv'
  <2> DEFINE j == [worker[w] EXCEPT !.pc = "setup_pqc", !.made = generated + 1]
  <2>1. generated + 1 \in 0..MaxKeys
    BY <1>3, <1>a DEF SetupAbe
  <2>2. j \in Process /\ j.pk = worker[w].pk
    BY <1>a, <2>1 DEF Process, Pcs
  <2>3. mount' \in Store
    BY <1>3, <1>a, <2>1 DEF SetupAbe, Store, Kinds
  <2>4. Become(w, j) /\ generated' = generated + 1 /\ UNCHANGED <<doc, up, files, faults>>
    BY <1>3 DEF SetupAbe
  <2> HIDE DEF j
  <2> QED
    BY <1>a, <2>1, <2>2, <2>3, <2>4, ProcessStep DEF TypeInv, TypeOK
<1>4. ASSUME NEW w \in Workers, SetupPqc(w) PROVE TypeInv'
  <2> DEFINE j == [worker[w] EXCEPT !.pc = "read", !.found[worker[w].scheme] = worker[w].made]
  <2>1. j \in Process /\ j.pk = worker[w].pk
    BY <1>a DEF Process, Pcs
  <2>2. mount' \in Store
    BY <1>4, <1>a DEF SetupPqc, Store, Kinds, Process
  <2>3. Become(w, j) /\ UNCHANGED <<doc, up, generated, files, faults>>
    BY <1>4 DEF SetupPqc
  <2> HIDE DEF j
  <2> QED
    BY <1>a, <2>1, <2>2, <2>3, ProcessStep DEF TypeInv, TypeOK
<1>5. ASSUME NEW w \in Workers, SetupFails(w) PROVE TypeInv'
  <2> DEFINE j == [worker[w] EXCEPT !.made = Absent]
  <2>1. j \in Process /\ j.pk = worker[w].pk
    BY <1>a DEF Process, Absent
  <2>2. Become(w, NextScheme(j)) /\ Same
    BY <1>5 DEF SetupFails
  <2> HIDE DEF j
  <2> QED
    BY <1>a, <1>b, <2>1, <2>2, NextSchemeTyped
<1>6. ASSUME NEW w \in Workers, ReadDocument(w) PROVE TypeInv'
  <2> DEFINE j == [worker[w] EXCEPT !.pc = "write", !.read = doc]
  <2>1. j \in Process /\ j.pk = worker[w].pk
    BY <1>a DEF Process, Pcs
  <2>2. Become(w, j) /\ Same
    BY <1>6 DEF ReadDocument
  <2> HIDE DEF j
  <2> QED
    BY <1>a, <1>b, <2>1, <2>2
<1>7. ASSUME NEW w \in Workers, WriteDocument(w) PROVE TypeInv'
  <2> DEFINE job == worker[w]
             cache == [job.cache EXCEPT ![job.scheme][job.kind] = job.made]
             next == [job EXCEPT !.cache[job.scheme][job.kind] = job.made, !.read = Empty]
  <2>a. cache \in Store
    BY <1>a, StoreTyped DEF Process
  <2>b. next = [job EXCEPT !.cache = cache, !.read = Empty]
    BY <1>a DEF Process
  <2>1. next \in Process /\ next.pk = job.pk
    BY <1>a, <2>a, <2>b, StoreTyped DEF Process
  <2>2. doc' \in Store
    BY <1>7, <1>a DEF WriteDocument, Store, Process
  <2>3. Become(w, NextKind(next)) /\ UNCHANGED <<mount, up, generated, files, faults>>
    BY <1>7 DEF WriteDocument
  <2> HIDE DEF next
  <2> QED
    BY <1>a, <2>1, <2>2, <2>3, ProcessStep, NextKindTyped DEF TypeInv, TypeOK
<1>8. ASSUME NEW w \in Workers, PutFails(w) PROVE TypeInv'
  <2> DEFINE j == [worker[w] EXCEPT !.read = Empty]
  <2>1. j \in Process /\ j.pk = worker[w].pk
    BY <1>a, StoreTyped DEF Process
  <2>2. Become(w, NextKind(j)) /\ Same
    BY <1>8 DEF PutFails
  <2> HIDE DEF j
  <2> QED
    BY <1>a, <1>b, <2>1, <2>2, NextKindTyped
<1>9. ASSUME NEW w \in Workers, Adopt(w) PROVE TypeInv'
  <2> DEFINE job == worker[w]
             s == IF Scheme = "tkn20" /\ job.found["tkn20"] # Absent THEN "tkn20" ELSE "ac17"
             pk == IF job.found[s] # Absent THEN KeySet(s, job.found[s]) ELSE job.pk
             next == [job EXCEPT !.pc = "ready", !.made = Absent, !.pk = pk]
  <2>1. s \in Schemes /\ job.found[s] \in 0..MaxKeys
    BY <1>a DEF Process, Schemes
  <2>2. pk \in [scheme : Schemes \cup {"none"}, set : 0..MaxKeys] /\ PkOK(pk)
    BY <1>a, <2>1 DEF Process, KeySet, PkOK
  <2>3. Become(w, next) /\ Same
    BY <1>9 DEF Adopt
  <2> HIDE DEF pk
  <2>a. "ready" \in Pcs
    BY DEF Pcs
  <2>4. next \in Process /\ next.pk = pk
    BY <1>a, <2>2, <2>a, StoreTyped DEF Process
  <2> HIDE DEF next
  <2> QED
    BY <2>2, <2>3, <2>4, <1>b
<1>10. ASSUME NEW w \in Workers, NEW policy \in Policies, Encrypt(w, policy) PROVE TypeInv'
  <2> DEFINE pk == PublicKey(w)
             sealed == Seal(pk, policy, Cardinality(files) + 1)
             next == [worker[w] EXCEPT !.pc = "idle", !.cache = Cached(worker[w], Scheme, "abe")]
  <2>1. /\ Cardinality(files) < MaxFiles /\ pk # NoKey /\ Succeeded(sealed)
        /\ files' = files \cup {sealed.out}
        /\ Become(w, next) /\ UNCHANGED <<mount, doc, up, generated, faults>>
    BY <1>10 DEF Encrypt
  <2>2. next \in Process /\ next.pk = worker[w].pk
    BY <1>a, CachedTyped DEF Process, Pcs, Kinds, TypeInv
  <2>3. sealed.out \in Ciphertext
    BY <2>1, SealTyped, PublicKeyTyped
  <2>4. files' \subseteq Ciphertext /\ IsFiniteSet(files')
    BY <1>a, <2>1, <2>3, FS_AddElement
  <2> HIDE DEF next, sealed, pk
  <2> QED
    BY <1>a, <2>1, <2>2, <2>4, ProcessStep DEF TypeInv, TypeOK
<1>11. ASSUME NEW w \in Workers, EndRequest(w) PROVE TypeInv'
  <2>1. PICK cache \in Recalled(worker[w]) : Become(w, [worker[w] EXCEPT !.pc = "idle", !.cache = cache])
    BY <1>11 DEF EndRequest
  <2> DEFINE j == [worker[w] EXCEPT !.pc = "idle", !.cache = cache]
  <2>2. cache \in Store
    BY <1>a, RecalledTyped DEF TypeInv
  <2>3. j \in Process /\ j.pk = worker[w].pk
    BY <1>a, <2>2 DEF Process, Pcs
  <2>4. Become(w, j) /\ Same
    BY <1>11, <2>1 DEF EndRequest
  <2> HIDE DEF j
  <2> QED
    BY <1>a, <1>b, <2>3, <2>4
<1>12. ASSUME NEW w \in Workers, Restart(w) PROVE TypeInv'
  BY <1>12, <1>b, StartedTyped DEF Restart
<1>13. CASE VaultDown
  <2>1. faults' \in 0..MaxFaults /\ UNCHANGED <<mount, doc, worker, generated, files>>
    BY <1>13, <1>a DEF VaultDown
  <2>2. up' \in BOOLEAN
    BY <1>13 DEF VaultDown
  <2> QED
    BY <1>a, <2>1, <2>2 DEF TypeInv, TypeOK
<1>14. CASE VaultUp
  BY <1>14, <1>a DEF VaultUp, TypeInv, TypeOK
<1>15. CASE UNCHANGED vars
  BY <1>15, <1>a DEF vars, TypeInv, TypeOK
<1> QED
  BY <1>1, <1>2, <1>3, <1>4, <1>5, <1>6, <1>7, <1>8, <1>9, <1>10, <1>11, <1>12, <1>13, <1>14, <1>15
  DEF Next

\* Every variable of AbePlugin keeps its type, with outages too.
THEOREM TypeCorrect == Spec => []TypeOK
<1>1. TypeInv => TypeOK
  BY DEF TypeInv
<1> QED
  BY <1>1, TypeInit, TypeStep, PTL DEF Spec

--------------------------------------------------------------------------------
LEMMA StartedOK == /\ Started.pc = "idle" /\ \A s \in Schemes, k \in Kinds : Started.cache[s][k] = Absent
                   /\ \A d, m, fs : WorkerOK(Started, d, m, fs)
<1>1. Started.pc = "idle" /\ \A s \in Schemes, k \in Kinds : Started.cache[s][k] = Absent
  BY DEF Started, Empty
<1> QED
  BY <1>1 DEF WorkerOK, Making

\* Whoever makes keys is alone, and there is no file yet.
LEMMA Alone ==
  ASSUME OneEarly, KeysOK, NEW w \in Workers, worker[w].pc \in Making
  PROVE  files = {} /\ \A v \in Workers : v # w => worker[v] = Started
<1>1. files = {}
  BY DEF KeysOK, WorkerOK
<1>2. w \notin Late
  BY <1>1, StartedOK DEF KeysOK, Making
<1> QED
  BY <1>1, <1>2, BoundsAssumption DEF OneEarly, KeysOK

\* A worker that is not idle may be so.
LEMMA NotLate ==
  ASSUME KeysOK, NEW w \in Workers, worker[w].pc # "idle"
  PROVE  files # {} \/ w \notin Late
  BY StartedOK DEF KeysOK

LEMMA Becomes ==
  ASSUME TypeInv, NEW w \in Workers, NEW j, Become(w, j)
  PROVE  worker'[w] = j /\ \A v \in Workers : v # w => worker'[v] = worker[v]
  BY DEF Become, TypeInv, TypeOK

\* A step that neither makes nor records a key, nor makes a file.
LEMMA LocalStep ==
  ASSUME TypeInv, KeysOK, NEW w \in Workers, NEW j, Become(w, j),
         UNCHANGED <<mount, doc, up, files>>, WorkerOK(j, doc, mount, files),
         j = Started \/ files # {} \/ w \notin Late
  PROVE  KeysOK'
<1>1. \A v \in Workers : WorkerOK(worker'[v], doc, mount, files)
  BY Becomes DEF KeysOK
<1>2. files = {} => \A v \in Late : worker'[v] = Started
  BY Becomes, BoundsAssumption DEF KeysOK
<1> QED
  BY <1>1, <1>2 DEF KeysOK

\* A step of the worker that makes keys.
LEMMA MakingStep ==
  ASSUME TypeInv, OneEarly, KeysOK, NEW w \in Workers, NEW j, Become(w, j),
         worker[w].pc \in Making, UNCHANGED <<up, files>>,
         Recorded(doc', mount'), WorkerOK(j, doc', mount', files)
  PROVE  KeysOK'
<1>1. files = {} /\ \A v \in Workers : v # w => worker[v] = Started
  BY Alone
<1>2. w \notin Late
  BY <1>1, StartedOK DEF KeysOK, Making
<1>3. \A v \in Workers : WorkerOK(worker'[v], doc', mount', files')
  BY <1>1, Becomes, StartedOK
<1>4. \A v \in Late : worker'[v] = Started
  BY <1>1, <1>2, Becomes, BoundsAssumption
<1> QED
  BY <1>1, <1>3, <1>4 DEF KeysOK

\* What a process remembers is recorded.
Remembers(j) == \A s \in Schemes, k \in Kinds : j.cache[s][k] # Absent => j.cache[s][k] = doc[s][k]

\* The memory of a process after get_secret, while Vault answers.
LEMMA CachedOK ==
  ASSUME up, NEW j, Remembers(j), NEW s \in Schemes, NEW i \in Kinds, NEW t \in Schemes, NEW k \in Kinds
  PROVE  LET c == Cached(j, s, i) IN
         /\ c[t][k] # Absent => c[t][k] = doc[t][k]
         /\ doc[s][i] # Absent => c[s][i] = doc[s][i]
<1>1. j.cache[t][k] # Absent => j.cache[t][k] = doc[t][k]
  BY DEF Remembers
<1>2. j.cache[s][i] # Absent => j.cache[s][i] = doc[s][i]
  BY DEF Remembers
<1> QED
  BY <1>1, <1>2 DEF Cached

LEMMA WorkersRemember == KeysOK => up /\ \A w \in Workers : Remembers(worker[w])
  BY DEF KeysOK, WorkerOK, Remembers

LEMMA RecalledOK ==
  ASSUME up, NEW j \in Process, Remembers(j), NEW cache \in Recalled(j), NEW t \in Schemes, NEW k \in Kinds
  PROVE  cache[t][k] # Absent => cache[t][k] = doc[t][k]
<1>1. CASE cache \in {j.cache, Cached(j, Scheme, "abe")}
  BY <1>1, CachedOK, Constants DEF Remembers, Kinds
<1>2. ASSUME NEW s \in Schemes, cache = Cached([j EXCEPT !.cache = Cached(j, s, "pqc")], s, "abe")
      PROVE  cache[t][k] # Absent => cache[t][k] = doc[t][k]
  <2> DEFINE i == [j EXCEPT !.cache = Cached(j, s, "pqc")]
  <2>1. i.cache = Cached(j, s, "pqc")
    BY DEF Process
  <2>2. Remembers(i)
    <3>1. ASSUME NEW u \in Schemes, NEW n \in Kinds, i.cache[u][n] # Absent
          PROVE  i.cache[u][n] = doc[u][n]
      <4>1. LET c == Cached(j, s, "pqc") IN c[u][n] # Absent => c[u][n] = doc[u][n]
        BY CachedOK DEF Kinds
      <4> HIDE DEF i
      <4> QED
        BY <3>1, <4>1, <2>1
    <3> QED
      BY <3>1 DEF Remembers
  <2> HIDE DEF i
  <2>3. LET c == Cached(i, s, "abe") IN c[t][k] # Absent => c[t][k] = doc[t][k]
    BY <2>2, CachedOK DEF Kinds
  <2> QED
    BY <1>2, <2>3 DEF i
<1> QED
  BY <1>1, <1>2 DEF Recalled

LEMMA KeyInit == Init => KeyInv
<1> SUFFICES ASSUME Init PROVE KeysOK
  BY DEF KeyInv
<1>1. Recorded(doc, mount)
  BY DEF Init, Recorded, Empty, Kinds
<1>2. \A w \in Workers : worker[w] = Started
  BY DEF Init
<1> QED
  BY <1>1, <1>2, StartedOK, BoundsAssumption DEF Init, KeysOK

\* After a scheme whose key is recorded.
LEMMA NextSchemeOK ==
  ASSUME NEW j \in Process, NEW d, NEW m, NEW fs,
         \A s \in Schemes, k \in Kinds : j.cache[s][k] # Absent => j.cache[s][k] = d[s][k],
         d[j.scheme]["abe"] # Absent, j.scheme = "tkn20" => d["ac17"]["abe"] # Absent
  PROVE  WorkerOK(NextScheme(j), d, m, fs)
<1>1. CASE j.scheme = "ac17"
  <2> DEFINE n == [j EXCEPT !.pc = "fetch", !.scheme = "tkn20", !.kind = "abe"]
  <2>1. n.pc = "fetch" /\ n.scheme = "tkn20" /\ n.kind = "abe" /\ n.cache = j.cache
    BY DEF Process
  <2>2. NextScheme(j) = n
    BY <1>1 DEF NextScheme
  <2> HIDE DEF n
  <2> QED
    BY <1>1, <2>1, <2>2 DEF WorkerOK, Making
<1>2. CASE j.scheme # "ac17"
  <2> DEFINE n == [j EXCEPT !.pc = "adopt", !.scheme = "ac17", !.kind = "abe"]
  <2>1. n.pc = "adopt" /\ n.scheme = "ac17" /\ n.kind = "abe" /\ n.cache = j.cache
    BY DEF Process
  <2>2. NextScheme(j) = n
    BY <1>2 DEF NextScheme
  <2>3. Complete(d)
    BY <1>2 DEF Complete, Process, Schemes
  <2> HIDE DEF n
  <2> QED
    BY <2>1, <2>2, <2>3 DEF WorkerOK, Making
<1> QED
  BY <1>1, <1>2

\* The step that looks for a key.
LEMMA FetchStep ==
  ASSUME TypeInv, KeysOK, OneEarly, NEW w \in Workers, Fetch(w)
  PROVE  KeysOK'
<1> DEFINE s == worker[w].scheme
           cache == Cached(worker[w], s, "abe")
           job == [worker[w] EXCEPT !.cache = cache, !.found[s] = cache[s]["abe"]]
           setup == [job EXCEPT !.pc = "setup"]
<1>1. /\ worker[w].pc = "fetch" /\ s \in Schemes /\ worker[w] \in Process
      /\ UNCHANGED <<mount, doc, up, files>>
      /\ Become(w, IF cache[s]["abe"] # Absent THEN NextScheme(job) ELSE setup)
  BY DEF Fetch, At, TypeInv, TypeOK, Process
<1>2. \A t \in Schemes, k \in Kinds : cache[t][k] # Absent => cache[t][k] = doc[t][k]
  BY <1>1, CachedOK, WorkersRemember DEF Kinds
<1>3. doc[s]["abe"] # Absent => cache[s]["abe"] = doc[s]["abe"]
  BY <1>1, CachedOK, WorkersRemember DEF Kinds, Schemes
<1>4. worker[w].kind = "abe" /\ (s = "tkn20" => doc["ac17"]["abe"] # Absent)
  BY <1>1 DEF KeysOK, WorkerOK
<1>5. cache \in Store
  BY <1>1, CachedTyped DEF TypeInv, Kinds
<1>6. cache[s]["abe"] \in 0..MaxKeys
  BY <1>1, <1>5, StoreTyped DEF Kinds
<1> HIDE DEF cache
<1>7. /\ job \in Process /\ job.scheme = s /\ job.cache = cache
      /\ setup.pc = "setup" /\ setup.scheme = s /\ setup.cache = cache /\ setup.kind = worker[w].kind
  BY <1>1, <1>5, <1>6 DEF Process, Pcs
<1> HIDE DEF job, setup
<1>8. CASE cache[s]["abe"] # Absent
  <2>1. doc[s]["abe"] # Absent
    BY <1>1, <1>2, <1>8 DEF Kinds
  <2>2. WorkerOK(NextScheme(job), doc, mount, files)
    BY <1>2, <1>4, <1>7, <2>1, NextSchemeOK
  <2> QED
    BY <1>1, <1>8, <2>2, LocalStep, NotLate
<1>9. CASE cache[s]["abe"] = Absent
  <2>1. doc[s]["abe"] = Absent
    BY <1>3, <1>9
  <2>2. files = {}
    BY <1>1, <2>1 DEF KeysOK, Complete
  <2>3. WorkerOK(setup, doc, mount, files)
    BY <1>2, <1>4, <1>7, <2>1, <2>2 DEF WorkerOK, Making
  <2> QED
    BY <1>1, <1>9, <2>3, LocalStep, NotLate
<1> QED
  BY <1>8, <1>9

\* The plugin makes the keys of a mount.
LEMMA SetupStep ==
  ASSUME TypeInv, KeysOK, OneEarly, NEW w \in Workers, SetupAbe(w) \/ SetupPqc(w)
  PROVE  KeysOK'
<1> DEFINE s == worker[w].scheme
<1>1. /\ s \in Schemes /\ worker[w] \in Process /\ mount \in Store /\ doc \in Store
      /\ generated \in 0..MaxKeys
  BY DEF TypeInv, TypeOK, Process
<1>2. WorkerOK(worker[w], doc, mount, files)
  BY DEF KeysOK
<1>3. CASE SetupAbe(w)
  <2> DEFINE j == [worker[w] EXCEPT !.pc = "setup_pqc", !.made = generated + 1]
  <2>1. /\ worker[w].pc = "setup" /\ UNCHANGED <<doc, up, files>> /\ Become(w, j)
        /\ mount' = [mount EXCEPT ![s]["abe"] = generated + 1]
    BY <1>3 DEF SetupAbe, At
  <2>2. /\ j.pc = "setup_pqc" /\ j.made = generated + 1 /\ j.scheme = s /\ j.cache = worker[w].cache
        /\ j.kind = worker[w].kind
    BY <1>1 DEF Process
  <2> HIDE DEF j
  <2>3. generated + 1 # Absent
    BY <1>1, Constants DEF Absent
  <2>4. /\ files = {} /\ doc[s]["abe"] = Absent /\ worker[w].kind = "abe"
        /\ (s = "tkn20" => doc["ac17"]["abe"] # Absent)
    BY <1>2, <2>1 DEF WorkerOK, Making
  <2>5. /\ mount'[s]["abe"] = generated + 1
        /\ \A t \in Schemes : t # s => mount'[t] = mount[t]
    BY <1>1, <2>1 DEF Store, Kinds
  <2>6. Recorded(doc', mount')
    BY <2>1, <2>4, <2>5 DEF KeysOK, Recorded
  <2>7. WorkerOK(j, doc', mount', files)
    BY <1>2, <2>1, <2>2, <2>3, <2>4, <2>5 DEF WorkerOK, Making
  <2> QED
    BY <2>1, <2>6, <2>7, MakingStep DEF Making
<1>4. CASE SetupPqc(w)
  <2> DEFINE j == [worker[w] EXCEPT !.pc = "read", !.found[s] = worker[w].made]
  <2>1. /\ worker[w].pc = "setup_pqc" /\ UNCHANGED <<doc, up, files>> /\ Become(w, j)
        /\ mount' = [mount EXCEPT ![s]["pqc"] = worker[w].made]
    BY <1>4 DEF SetupPqc, At
  <2>2. /\ j.pc = "read" /\ j.made = worker[w].made /\ j.scheme = s /\ j.cache = worker[w].cache
        /\ j.kind = worker[w].kind
    BY <1>1 DEF Process
  <2> HIDE DEF j
  <2>3. /\ files = {} /\ doc[s]["abe"] = Absent /\ worker[w].kind = "abe"
        /\ (s = "tkn20" => doc["ac17"]["abe"] # Absent)
        /\ worker[w].made # Absent /\ mount[s]["abe"] = worker[w].made
    BY <1>2, <2>1 DEF WorkerOK, Making
  <2>4. /\ mount'[s]["abe"] = mount[s]["abe"] /\ mount'[s]["pqc"] = worker[w].made
        /\ \A t \in Schemes : t # s => mount'[t] = mount[t]
    BY <1>1, <2>1 DEF Store, Kinds
  <2>5. Recorded(doc', mount')
    BY <2>1, <2>3, <2>4 DEF KeysOK, Recorded
  <2>6. WorkerOK(j, doc', mount', files)
    BY <1>2, <2>1, <2>2, <2>3, <2>4 DEF WorkerOK, Making
  <2> QED
    BY <2>1, <2>5, <2>6, MakingStep DEF Making
<1> QED
  BY <1>3, <1>4

\* put_secret, whose document nobody else has changed.
LEMMA PutStep ==
  ASSUME TypeInv, KeysOK, OneEarly, NEW w \in Workers, ReadDocument(w) \/ WriteDocument(w)
  PROVE  KeysOK'
<1> DEFINE job == worker[w]
           s == job.scheme
<1>1. /\ s \in Schemes /\ job.kind \in Kinds /\ job \in Process /\ mount \in Store /\ doc \in Store
      /\ job.made \in 0..MaxKeys /\ job.cache \in Store
  BY DEF TypeInv, TypeOK, Process
<1>2. WorkerOK(job, doc, mount, files)
  BY DEF KeysOK
<1>3. CASE ReadDocument(w)
  <2> DEFINE j == [worker[w] EXCEPT !.pc = "write", !.read = doc]
  <2>1. worker[w].pc = "read" /\ UNCHANGED <<mount, doc, up, files>> /\ Become(w, j)
    BY <1>3 DEF ReadDocument, At
  <2>2. /\ j.pc = "write" /\ j.made = job.made /\ j.scheme = s /\ j.cache = job.cache
        /\ j.kind = job.kind /\ j.read = doc
    BY <1>1 DEF Process
  <2> HIDE DEF j
  <2>3. WorkerOK(j, doc, mount, files)
    BY <1>2, <2>1, <2>2 DEF WorkerOK, Making
  <2> QED
    BY <2>1, <2>3, LocalStep, NotLate
<1>4. CASE WriteDocument(w)
  <2> DEFINE n == [job EXCEPT !.cache[s][job.kind] = job.made, !.read = Empty]
  <2>1. /\ job.pc = "write" /\ UNCHANGED <<mount, up, files>> /\ Become(w, NextKind(n))
        /\ doc' = [job.read EXCEPT ![s][job.kind] = job.made]
    BY <1>4 DEF WriteDocument, At
  <2>2. /\ files = {} /\ job.read = doc /\ job.made # Absent
        /\ mount[s]["abe"] = job.made /\ mount[s]["pqc"] = job.made
        /\ (s = "tkn20" => doc["ac17"]["abe"] # Absent)
        /\ (job.kind = "abe" => doc[s]["abe"] = Absent) /\ (job.kind = "pqc" => doc[s]["abe"] = job.made)
    BY <1>2, <2>1 DEF WorkerOK, Making
  <2>3. /\ doc'[s][job.kind] = job.made
        /\ \A t \in Schemes, k \in Kinds : ~(t = s /\ k = job.kind) => doc'[t][k] = doc[t][k]
    BY <1>1, <2>1, <2>2 DEF Store
  <2>4. doc'[s]["abe"] = job.made /\ (s = "tkn20" => doc'["ac17"]["abe"] # Absent)
    BY <1>1, <2>2, <2>3 DEF Kinds, Schemes
  <2>5. n \in Process /\ n.pc = "write" /\ n.scheme = s /\ n.kind = job.kind /\ n.made = job.made
    <3> DEFINE c == [job.cache EXCEPT ![s][job.kind] = job.made]
    <3>1. c \in Store
      BY <1>1, StoreTyped
    <3>2. n = [job EXCEPT !.cache = c, !.read = Empty]
      BY <1>1 DEF Process
    <3> QED
      BY <1>1, <2>1, <3>1, <3>2, StoreTyped DEF Process
  <2>6. \A t \in Schemes, k \in Kinds :
          n.cache[t][k] = IF t = s /\ k = job.kind THEN job.made ELSE job.cache[t][k]
    BY <1>1 DEF Process, Store
  <2> HIDE DEF n
  <2>7. \A t \in Schemes, k \in Kinds : n.cache[t][k] # Absent => n.cache[t][k] = doc'[t][k]
    BY <1>1, <1>2, <2>3, <2>6 DEF WorkerOK
  <2>8. Recorded(doc', mount')
    <3>1. ASSUME NEW t \in Schemes
          PROVE  /\ doc'[t]["abe"] # Absent =>
                        mount'[t]["abe"] = doc'[t]["abe"] /\ mount'[t]["pqc"] = doc'[t]["abe"]
                 /\ doc'[t]["pqc"] # Absent => doc'[t]["abe"] # Absent /\ doc'[t]["pqc"] = doc'[t]["abe"]
      <4>1. CASE t = s
        <5>1. doc[s]["pqc"] # Absent => doc[s]["abe"] # Absent /\ doc[s]["pqc"] = doc[s]["abe"]
          BY <1>1 DEF KeysOK, Recorded
        <5>2. doc'[s]["pqc"] = Absent \/ doc'[s]["pqc"] = job.made
          BY <1>1, <2>2, <2>3, <5>1 DEF Kinds
        <5> QED
          BY <2>1, <2>2, <2>4, <4>1, <5>2
      <4>2. CASE t # s
        BY <2>1, <2>3, <4>2 DEF KeysOK, Recorded, Kinds
      <4> QED
        BY <4>1, <4>2
    <3> QED
      BY <3>1 DEF Recorded
  <2>9. WorkerOK(NextKind(n), doc', mount', files)
    <3>1. CASE job.kind = "abe"
      <4> DEFINE j == [n EXCEPT !.pc = "read", !.kind = "pqc"]
      <4>1. /\ j.pc = "read" /\ j.kind = "pqc" /\ j.made = n.made /\ j.scheme = n.scheme
            /\ j.cache = n.cache
        BY <2>5 DEF Process
      <4>2. NextKind(n) = j
        BY <2>5, <3>1 DEF NextKind
      <4> HIDE DEF j
      <4> QED
        BY <2>1, <2>2, <2>4, <2>5, <2>7, <4>1, <4>2 DEF WorkerOK, Making
    <3>2. CASE job.kind # "abe"
      <4>1. NextKind(n) = NextScheme(n)
        BY <2>5, <3>2 DEF NextKind
      <4> QED
        BY <2>2, <2>4, <2>5, <2>7, <4>1, NextSchemeOK
    <3> QED
      BY <3>1, <3>2
  <2> QED
    BY <2>1, <2>8, <2>9, MakingStep DEF Making
<1> QED
  BY <1>3, <1>4

\* A file is sealed with the recorded keys; by then nobody makes keys.
LEMMA EncryptStep ==
  ASSUME TypeInv, KeysOK, OneEarly, NEW w \in Workers, NEW policy \in Policies, Encrypt(w, policy)
  PROVE  KeysOK'
<1> DEFINE pk == PublicKey(w)
           sealed == Seal(pk, policy, Cardinality(files) + 1)
           cache == Cached(worker[w], Scheme, "abe")
           j == [worker[w] EXCEPT !.pc = "idle", !.cache = cache]
<1>1. /\ worker[w].pc = "ready" /\ pk # NoKey /\ Cardinality(files) < MaxFiles /\ Succeeded(sealed)
      /\ files' = files \cup {sealed.out} /\ Become(w, j) /\ UNCHANGED <<mount, doc, up>>
  BY DEF Encrypt, At
<1>2. Complete(doc) /\ Recorded(doc, mount) /\ worker[w] \in Process
  BY <1>1 DEF KeysOK, WorkerOK, TypeInv, TypeOK
<1>3. doc[Scheme]["abe"] # Absent /\ mount[Scheme]["pqc"] = doc[Scheme]["abe"]
  BY <1>2, Constants DEF Complete, Recorded
<1>4. cache[Scheme]["abe"] = doc[Scheme]["abe"]
  BY <1>3, Constants, CachedOK, WorkersRemember DEF Kinds
<1>5. pk = KeySet(Scheme, doc[Scheme]["abe"])
  BY <1>3, <1>4 DEF PublicKey
<1>6. FileOK(sealed.out, doc)
  <2>1. pk.set = doc[Scheme]["abe"]
    BY <1>5 DEF KeySet
  <2>2. mount[Scheme]["pqc"] # Absent
    BY <1>3
  <2> QED
    BY <1>1, <1>3, <2>1, <2>2, SealTyped, PublicKeyTyped, Constants DEF FileOK
<1>7. \A t \in Schemes, k \in Kinds : cache[t][k] # Absent => cache[t][k] = doc[t][k]
  BY Constants, CachedOK, WorkersRemember DEF Kinds
<1> HIDE DEF pk, sealed, cache
<1>8. j.pc = "idle" /\ j.cache = cache
  BY <1>2 DEF Process
<1> HIDE DEF j
<1>9. WorkerOK(j, doc, mount, files')
  BY <1>7, <1>8 DEF WorkerOK, Making
<1>10. ASSUME NEW v \in Workers, v # w PROVE WorkerOK(worker[v], doc, mount, files')
  <2>1. WorkerOK(worker[v], doc, mount, files)
    BY DEF KeysOK
  <2>2. worker[v].pc \notin Making
    BY <1>1, <1>10, Alone, StartedOK DEF Making
  <2> QED
    BY <2>1, <2>2 DEF WorkerOK
<1>11. \A v \in Workers : WorkerOK(worker'[v], doc, mount, files')
  BY <1>1, <1>9, <1>10, Becomes
<1> QED
  BY <1>1, <1>2, <1>6, <1>11 DEF KeysOK

LEMMA KeyStep == OneEarly /\ TypeInv /\ KeyInv /\ [Next]_vars => KeyInv'
<1> SUFFICES ASSUME OneEarly, TypeInv, KeyInv, [Next]_vars, faults' = 0 PROVE KeysOK'
  BY DEF KeyInv
<1>a. faults = 0
  <2>1. ASSUME NEW w \in Workers,
               \/ Begin(w) \/ Fetch(w) \/ SetupAbe(w) \/ SetupPqc(w) \/ SetupFails(w)
               \/ ReadDocument(w) \/ WriteDocument(w) \/ PutFails(w) \/ Adopt(w)
               \/ EndRequest(w) \/ Restart(w)
        PROVE  UNCHANGED faults
    BY <2>1, Zenon DEF Begin, Fetch, SetupAbe, SetupPqc, SetupFails, ReadDocument, WriteDocument, PutFails,
                Adopt, EndRequest, Restart
  <2>2. ASSUME NEW w \in Workers, NEW policy \in Policies, Encrypt(w, policy) PROVE UNCHANGED faults
    BY <2>2 DEF Encrypt
  <2>3. CASE VaultUp \/ UNCHANGED vars
    BY <2>3 DEF VaultUp, vars
  <2>4. VaultDown => faults' = faults + 1
    BY DEF VaultDown
  <2> QED
    BY <2>1, <2>2, <2>3, <2>4, Constants DEF Next, TypeInv, TypeOK
<1>b. KeysOK /\ up
  BY <1>a DEF KeyInv, KeysOK
<1>c. \A w \in Workers : worker[w] \in Process /\ WorkerOK(worker[w], doc, mount, files)
  BY <1>b DEF KeysOK, TypeInv, TypeOK
<1>1. ASSUME NEW w \in Workers, Begin(w) PROVE KeysOK'
  <2> DEFINE j == [worker[w] EXCEPT !.pc = "fetch", !.scheme = "ac17", !.kind = "abe"]
  <2>1. j.pc = "fetch" /\ j.scheme = "ac17" /\ j.kind = "abe" /\ j.cache = worker[w].cache
    BY <1>c DEF Process
  <2>2. Become(w, j) /\ (w \in Late => files # {}) /\ UNCHANGED <<mount, doc, up, files>>
    BY <1>1 DEF Begin
  <2> HIDE DEF j
  <2>3. WorkerOK(j, doc, mount, files)
    BY <1>c, <2>1 DEF WorkerOK, Making
  <2> QED
    BY <1>b, <2>2, <2>3, LocalStep
<1>2. ASSUME NEW w \in Workers, Adopt(w) PROVE KeysOK'
  <2> DEFINE s == IF Scheme = "tkn20" /\ worker[w].found["tkn20"] # Absent THEN "tkn20" ELSE "ac17"
             pk == IF worker[w].found[s] # Absent THEN KeySet(s, worker[w].found[s]) ELSE worker[w].pk
             j == [worker[w] EXCEPT !.pc = "ready", !.made = Absent, !.pk = pk]
  <2>1. j.pc = "ready" /\ j.cache = worker[w].cache
    BY <1>c DEF Process
  <2>2. Become(w, j) /\ worker[w].pc = "adopt" /\ UNCHANGED <<mount, doc, up, files>>
    BY <1>2 DEF Adopt, At
  <2> HIDE DEF j
  <2>3. WorkerOK(j, doc, mount, files)
    BY <1>c, <2>1, <2>2 DEF WorkerOK, Making
  <2> QED
    BY <1>b, <2>2, <2>3, LocalStep, NotLate
<1>3. ASSUME NEW w \in Workers, EndRequest(w) PROVE KeysOK'
  <2>1. PICK cache \in Recalled(worker[w]) : Become(w, [worker[w] EXCEPT !.pc = "idle", !.cache = cache])
    BY <1>3 DEF EndRequest
  <2> DEFINE j == [worker[w] EXCEPT !.pc = "idle", !.cache = cache]
  <2>2. j.pc = "idle" /\ j.cache = cache
    BY <1>c DEF Process
  <2>3. Become(w, j) /\ worker[w].pc = "ready" /\ UNCHANGED <<mount, doc, up, files>>
    BY <1>3, <2>1 DEF EndRequest, At
  <2> HIDE DEF j
  <2>4. \A t \in Schemes, k \in Kinds : cache[t][k] # Absent => cache[t][k] = doc[t][k]
    BY <1>b, <1>c, RecalledOK, WorkersRemember
  <2>5. WorkerOK(j, doc, mount, files)
    BY <2>2, <2>4 DEF WorkerOK, Making
  <2> QED
    BY <1>b, <2>3, <2>5, LocalStep, NotLate
<1>4. ASSUME NEW w \in Workers, Restart(w) PROVE KeysOK'
  BY <1>4, <1>b, LocalStep, StartedOK DEF Restart
<1>5. ASSUME NEW w \in Workers, SetupFails(w) \/ PutFails(w) PROVE FALSE
  BY <1>5, <1>b DEF SetupFails, PutFails
<1>6. ~VaultUp /\ ~VaultDown
  BY <1>a, <1>b DEF VaultUp, VaultDown
<1>7. CASE UNCHANGED vars
  BY <1>7, <1>b DEF vars, KeysOK
<1> QED
  BY <1>1, <1>2, <1>3, <1>4, <1>5, <1>6, <1>7, <1>b, FetchStep, SetupStep, PutStep, EncryptStep DEF Next

--------------------------------------------------------------------------------
\* A file is sealed with the key its mount still has.
LEMMA KeptByKeys == KeyInv => RestartsKeepKeys
<1> SUFFICES ASSUME KeysOK, NEW f \in files PROVE mount[f.scheme]["abe"] = f.capsule.set
  BY DEF KeyInv, RestartsKeepKeys, SealedKeysKept
<1>1. FileOK(f, doc) /\ Complete(doc) /\ Recorded(doc, mount)
  BY DEF KeysOK
<1> QED
  BY <1>1 DEF FileOK, Complete, Recorded

\* A key for the policy of a ciphertext of the same key set opens it, by either scheme.
LEMMA KeyOpens ==
  ASSUME NEW f, NEW n, f.version = 2, f.scheme \in Schemes, f.capsule.scheme = f.scheme,
         f.capsule.set = n, f.capsule.policy \in Policies,
         NEW sk \in GenKey(KeySet(f.scheme, n), {f.capsule.policy})
  PROVE  DecryptBuffer(sk, f) = Done(f.payload)
<1> DEFINE p == f.capsule.policy
<1>1. Satisfies(f.scheme, {p}, p)
  BY PoliciesAssumption
<1>2. sk.scheme = f.scheme /\ sk.set = n /\ sk.attrs = {p}
  <2>1. CASE sk \in Ac17GenKey(KeySet(f.scheme, n), {p})
    BY <2>1 DEF Ac17GenKey, KeySet
  <2>2. CASE sk \in Tkn20GenKey(KeySet(f.scheme, n), {p})
    <3>1. /\ f.scheme = "tkn20"
          /\ \E kept \in SUBSET {p} : /\ {a[1] : a \in kept} = {a[1] : a \in {p}}
                                    /\ sk = [scheme |-> "tkn20", set |-> n, attrs |-> kept]
      BY <2>2 DEF Tkn20GenKey, KeySet
    <3>2. PICK kept \in SUBSET {p} : /\ {a[1] : a \in kept} = {a[1] : a \in {p}}
                                    /\ sk = [scheme |-> "tkn20", set |-> n, attrs |-> kept]
      BY <3>1
    <3>3. kept # {}
      BY <3>2
    <3>4. kept = {p}
      BY <3>3
    <3> QED
      BY <3>1, <3>2, <3>4
  <2> QED
    BY <2>1, <2>2 DEF GenKey
<1>3. CASE f.scheme = "ac17"
  <2>1. Ac17Decapsulate(sk, f.capsule) = Done(f.capsule)
    BY <1>1, <1>2, <1>3 DEF Ac17Decapsulate
  <2> QED
    BY <2>1, <1>3 DEF DecryptBuffer, Done, Succeeded
<1>4. CASE f.scheme = "tkn20"
  <2>1. Tkn20Decapsulate(sk, f.capsule) = Done(f.capsule)
    BY <1>1, <1>2, <1>4 DEF Tkn20Decapsulate
  <2> QED
    BY <2>1, <1>4 DEF DecryptBuffer, Done, Succeeded
<1> QED
  BY <1>3, <1>4 DEF Schemes

LEMMA OpenByKeys == KeyInv => FilesOpen
<1> SUFFICES ASSUME KeysOK, NEW w \in Workers, NEW f \in files,
                    Cached(worker[w], f.scheme, "pqc")[f.scheme]["pqc"] # Absent,
                    NEW sk \in GenKey(KeySet(f.scheme, mount[f.scheme]["abe"]), {f.capsule.policy})
             PROVE  LET opened == DecryptBufferAndVerify(sk,
                                      Cached(worker[w], f.scheme, "pqc")[f.scheme]["pqc"], f)
                    IN  Succeeded(opened) /\ opened.out = f.payload.data
  BY DEF KeyInv, FilesOpen
<1> DEFINE verifier == Cached(worker[w], f.scheme, "pqc")[f.scheme]["pqc"]
<1>1. FileOK(f, doc) /\ Complete(doc) /\ Recorded(doc, mount)
  BY DEF KeysOK
<1>2. f.scheme \in Schemes /\ mount[f.scheme]["abe"] = f.capsule.set
  BY <1>1 DEF FileOK, Complete, Recorded
<1>3. verifier = doc[f.scheme]["pqc"]
  BY <1>2, CachedOK, WorkersRemember DEF Kinds
<1>4. verifier = f.payload.signer /\ f.payload.signer # Unsigned
  BY <1>1, <1>2, <1>3 DEF FileOK, Recorded, Complete, Unsigned, Absent
<1>5. DecryptBuffer(sk, f) = Done(f.payload)
  BY <1>1, <1>2, KeyOpens DEF FileOK
<1> HIDE DEF verifier
<1>6. DecryptBufferAndVerify(sk, verifier, f) = Done(f.payload.data)
  BY <1>4, <1>5 DEF DecryptBufferAndVerify, Done, Succeeded
<1> QED
  BY <1>6 DEF Done, Succeeded, verifier

\* While Vault answers, no worker overwrites the master key of a mount that sealed a file, at
\* whatever step of _ensure_keys_exist processes die, if one worker sets the keys up alone.
THEOREM RestartsCorrect == ASSUME OneEarly PROVE Spec => []RestartsKeepKeys
<1>1. Init => TypeInv /\ KeyInv
  BY TypeInit, KeyInit
<1>2. TypeInv /\ KeyInv /\ [Next]_vars => TypeInv' /\ KeyInv'
  BY TypeStep, KeyStep
<1>3. KeyInv => RestartsKeepKeys
  BY KeptByKeys
<1> QED
  BY <1>1, <1>2, <1>3, PTL DEF Spec

\* Under the same conditions a file opens and verifies with a key generated for its policy.
THEOREM OpenCorrect == ASSUME OneEarly PROVE Spec => []FilesOpen
<1>1. Init => TypeInv /\ KeyInv
  BY TypeInit, KeyInit
<1>2. TypeInv /\ KeyInv /\ [Next]_vars => TypeInv' /\ KeyInv'
  BY TypeStep, KeyStep
<1>3. KeyInv => FilesOpen
  BY OpenByKeys
<1> QED
  BY <1>1, <1>2, <1>3, PTL DEF Spec

===============================================================================
