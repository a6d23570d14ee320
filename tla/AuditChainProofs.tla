-------------------------- MODULE AuditChainProofs --------------------------
(***************************************************************************)
(* Proofs about AuditChain, for any number of workers, users, log entries, *)
(* clock ticks, failures and edits.                                        *)
(***************************************************************************)
EXTENDS AuditChain, TLAPS, FiniteSetTheorems

Finite ==
    /\ IsFiniteSet(rows)
    /\ \A w \in Workers : IsFiniteSet(worker[w].seen)

TypeInv == TypeOK /\ Finite

WorkersTyped ==
    /\ worker \in [Workers -> Job]
    /\ \A w \in Workers : IsFiniteSet(worker[w].seen)

LEMMA NoRowType == NoRow \in Row
  BY BoundsAssumption DEF NoRow, Row, LogIds, Genesis

LEMMA IdleType == Idle \in Job /\ IsFiniteSet(Idle.seen)
  BY NoRowType, FS_EmptySet DEF Idle, Job, Pcs

\* A request's locals stay well typed when the fields a step assigns are.
LEMMA WithPc == ASSUME NEW j \in Job, NEW pc \in Pcs
                PROVE  [j EXCEPT !.pc = pc] \in Job
  BY DEF Job

LEMMA WithSeen == ASSUME NEW j \in Job, NEW S \in SUBSET Row
                  PROVE  [j EXCEPT !.seen = S] \in Job
  BY DEF Job

LEMMA WithRow == ASSUME NEW j \in Job, NEW r \in Row
                 PROVE  [j EXCEPT !.row = r] \in Job
  BY DEF Job

LEMMA WithLocked == ASSUME NEW j \in Job, NEW L \in SUBSET LogIds
                    PROVE  [j EXCEPT !.locked = L] \in Job
  BY DEF Job

LEMMA WithCnt == ASSUME NEW j \in Job, NEW n \in Nat
                 PROVE  [j EXCEPT !.cnt = n] \in Job
  BY DEF Job

LEMMA RowFields == ASSUME NEW r \in Row
                   PROVE  /\ \A p \in LogIds \cup {Genesis} : [r EXCEPT !.prev = p] \in Row
                          /\ \A n \in Nat : [r EXCEPT !.pk = n] \in Row
                          /\ \A u \in Users \cup {System} : [r EXCEPT !.user = u] \in Row
  BY DEF Row

LEMMA WorkerStep ==
  ASSUME TypeInv, NEW w \in Workers, NEW j \in Job, IsFiniteSet(j.seen),
         worker' = [worker EXCEPT ![w] = j]
  PROVE  WorkersTyped'
  BY DEF TypeInv, TypeOK, Finite, WorkersTyped

LEMMA TypeInit == Init => TypeInv
  BY IdleType, FS_EmptySet, BoundsAssumption
  DEF Init, TypeInv, TypeOK, Finite, NoState, ChainState, Genesis

LEMMA TypeStep == TypeInv /\ [Next]_vars => TypeInv'
<1> SUFFICES ASSUME TypeInv, [Next]_vars PROVE TypeInv'
  OBVIOUS
<1> USE DEF TypeInv
<1> DEFINE Keeps == /\ rows' = rows /\ hist' = hist /\ clock' = clock
                    /\ alive' = alive /\ edits' = edits
<1>a. ASSUME NEW w \in Workers PROVE worker[w] \in Job /\ IsFiniteSet(worker[w].seen)
  BY DEF TypeOK, Finite
<1>b. ASSUME WorkersTyped', Keeps, cache' \in ChainState, issued' \in 0..MaxLogs,
             nextPk' \in Nat, aborts' \in Nat
      PROVE  TypeInv'
  BY <1>b DEF TypeOK, Finite, WorkersTyped
<1>c. rows \in SUBSET Row /\ cache \in ChainState /\ issued \in 0..MaxLogs /\ nextPk \in Nat /\ aborts \in Nat
      /\ MaxLogs \in Nat
  BY BoundsAssumption DEF TypeOK
<1>d. ASSUME NEW w \in Workers, Finish(w) PROVE WorkersTyped'
  BY <1>d, IdleType, WorkerStep DEF Finish, Become
<1>e. ASSUME NEW w \in Workers, NEW pc \in Pcs, Goto(w, pc) PROVE WorkersTyped'
  <2> DEFINE j == [worker[w] EXCEPT !.pc = pc]
  <2>1. j \in Job /\ j.seen = worker[w].seen
    BY <1>a, WithPc DEF Job
  <2> QED
    BY <1>a, <1>e, <2>1, WorkerStep DEF Goto, Become
<1>f. ASSUME NEW w \in Workers, NEW pc \in Pcs, NEW S \in SUBSET Row, IsFiniteSet(S),
             Answer(w, pc, S)
      PROVE  WorkersTyped'
  <2> DEFINE j == [Idle EXCEPT !.pc = pc, !.seen = S]
  <2>1. j \in Job /\ j.seen = S
    BY IdleType, WithPc, WithSeen DEF Job
  <2> QED
    BY <1>f, <2>1, WorkerStep DEF Answer, Become
<1>1. ASSUME NEW w \in Workers, NEW u \in alive \cup {System}, LogAccess(w, u)
      PROVE  TypeInv'
  <2> DEFINE r == [NoRow EXCEPT !.log = issued + 1, !.user = u, !.hashed = u, !.ts = clock]
             j == [Idle EXCEPT !.pc = "select", !.row = r]
  <2>1. issued + 1 \in LogIds /\ u \in Users \cup {System} /\ clock \in Nat
    BY <1>1, <1>c DEF LogAccess, TypeOK, LogIds
  <2>2. r \in Row
    BY <2>1, NoRowType DEF Row
  <2>3. j \in Job /\ IsFiniteSet(j.seen)
    BY <2>2, IdleType, WithPc, WithRow DEF Job, Pcs, LogPcs
  <2>4. WorkersTyped'
    BY <1>1, <2>3, WorkerStep DEF LogAccess, Become
  <2> QED
    BY <1>1, <1>b, <1>c, <2>4 DEF LogAccess
<1>2. ASSUME NEW w \in Workers, SelectLast(w) PROVE TypeInv'
  <2> DEFINE j == [worker[w] EXCEPT !.pc = "lock", !.seen = rows]
  <2>1. j \in Job /\ IsFiniteSet(j.seen)
    BY <1>a, WithPc, WithSeen DEF Job, Pcs, LogPcs, TypeOK, Finite
  <2>2. WorkersTyped'
    BY <1>2, <2>1, WorkerStep DEF SelectLast, Become
  <2> QED
    BY <1>2, <1>b, <1>c, <2>2 DEF SelectLast
<1>3. ASSUME NEW w \in Workers, LinkToGenesis(w) PROVE TypeInv'
  <2> DEFINE j == [worker[w] EXCEPT !.pc = "insert", !.row = [@ EXCEPT !.prev = Genesis]]
  <2>1. j \in Job /\ IsFiniteSet(j.seen)
    BY <1>a, WithPc, WithRow, RowFields DEF Job, Pcs, LogPcs
  <2>2. WorkersTyped'
    BY <1>3, <2>1, WorkerStep DEF LinkToGenesis, Become
  <2> QED
    BY <1>3, <1>b, <1>c, <2>2 DEF LinkToGenesis
<1>4. ASSUME NEW w \in Workers, LinkToLast(w) PROVE TypeInv'
  <2>1. PICK r \in worker[w].seen :
          Become(w, [worker[w] EXCEPT !.pc = "insert", !.row = [@ EXCEPT !.prev = r.log],
                                      !.locked = {r.log}, !.seen = {}])
    BY <1>4 DEF LinkToLast
  <2> DEFINE j == [worker[w] EXCEPT !.pc = "insert", !.row = [@ EXCEPT !.prev = r.log],
                                    !.locked = {r.log}, !.seen = {}]
  <2>2. r.log \in LogIds
    BY <1>a DEF Job, Row
  <2>3. j \in Job /\ j.seen = {}
    BY <1>a, <2>2, WithPc, WithRow, WithSeen, WithLocked, RowFields DEF Job, Pcs, LogPcs
  <2>4. WorkersTyped'
    BY <2>1, <2>3, WorkerStep, FS_EmptySet DEF Become
  <2> QED
    BY <1>4, <1>b, <1>c, <2>4 DEF LinkToLast
<1>5. ASSUME NEW w \in Workers, SkipDeleted(w) PROVE TypeInv'
  <2>1. PICK r \in worker[w].seen : Become(w, [worker[w] EXCEPT !.seen = @ \ {r}])
    BY <1>5 DEF SkipDeleted
  <2> DEFINE j == [worker[w] EXCEPT !.seen = @ \ {r}]
  <2>2. j \in Job /\ j.seen = worker[w].seen \ {r}
    BY <1>a, WithSeen DEF Job
  <2>3. WorkersTyped'
    BY <1>a, <2>1, <2>2, WorkerStep, FS_RemoveElement DEF Become
  <2> QED
    BY <1>5, <1>b, <1>c, <2>3 DEF SkipDeleted
<1>6. ASSUME NEW w \in Workers, Insert(w) PROVE TypeInv'
  <2> DEFINE j == [worker[w] EXCEPT !.pc = "count", !.row = [@ EXCEPT !.pk = nextPk]]
  <2>1. j \in Job /\ IsFiniteSet(j.seen)
    BY <1>a, <1>c, WithPc, WithRow, RowFields DEF Job, Pcs, LogPcs
  <2>2. WorkersTyped'
    BY <1>6, <2>1, WorkerStep DEF Insert, Become
  <2> QED
    BY <1>6, <1>b, <1>c, <2>2 DEF Insert
<1>7. ASSUME NEW w \in Workers, CountRows(w) PROVE TypeInv'
  <2> DEFINE j == [worker[w] EXCEPT !.pc = "publish", !.cnt = Cardinality(rows) + 1]
  <2>1. Cardinality(rows) + 1 \in Nat
    BY FS_CardinalityType DEF Finite
  <2>2. j \in Job /\ IsFiniteSet(j.seen)
    BY <1>a, <2>1, WithPc, WithCnt DEF Job, Pcs, LogPcs
  <2>3. WorkersTyped'
    BY <1>7, <2>2, WorkerStep DEF CountRows, Become
  <2> QED
    BY <1>7, <1>b, <1>c, <2>3 DEF CountRows
<1>8. ASSUME NEW w \in Workers, Publish(w) PROVE TypeInv'
  <2>1. WorkersTyped'
    BY <1>8, <1>e DEF Publish, Pcs, LogPcs
  <2>2. cache' \in ChainState
    BY <1>8, <1>a DEF Publish, ChainState, Job, Row
  <2> QED
    BY <1>8, <1>b, <1>c, <2>1, <2>2 DEF Publish
<1>9. ASSUME NEW w \in Workers, Commit(w) PROVE TypeInv'
  <2>1. WorkersTyped'
    BY <1>9, <1>d DEF Commit
  <2>2. rows' \in SUBSET Row /\ hist' \in SUBSET Row
    BY <1>9, <1>a DEF Commit, Job, TypeOK
  <2>3. IsFiniteSet(rows')
    BY <1>9, FS_AddElement DEF Commit, Finite
  <2> QED
    BY <1>9, <2>1, <2>2, <2>3 DEF Commit, TypeOK, Finite, WorkersTyped
<1>10. ASSUME NEW w \in Workers, Abort(w) PROVE TypeInv'
  <2>1. WorkersTyped' /\ aborts' \in Nat
    BY <1>10, <1>c, <1>d DEF Abort
  <2> QED
    BY <1>10, <1>b, <1>c, <2>1 DEF Abort
<1>11. ASSUME NEW w \in Workers, NEW u \in Users, RemoveLogs(w, u) PROVE TypeInv'
  <2> DEFINE j == [Idle EXCEPT !.pc = "removing", !.row = [@ EXCEPT !.user = u],
                              !.locked = {r.log : r \in Owned(u)}]
  <2>1. {r.log : r \in Owned(u)} \in SUBSET LogIds
    BY DEF Owned, TypeOK, Row
  <2>2. j \in Job /\ IsFiniteSet(j.seen)
    BY <2>1, IdleType, WithPc, WithRow, WithLocked, RowFields DEF Job, Pcs
  <2>3. WorkersTyped'
    BY <1>11, <2>2, WorkerStep DEF RemoveLogs, Become
  <2> QED
    BY <1>11, <1>b, <1>c, <2>3 DEF RemoveLogs
<1>12. ASSUME NEW w \in Workers, RemoveUser(w) PROVE TypeInv'
  <2> DEFINE u == worker[w].row.user
             kept == {r \in rows : r.log \notin worker[w].locked}
             f(r) == IF r.user = u THEN [r EXCEPT !.user = System] ELSE r
  <2>1. IsFiniteSet({f(r) : r \in kept})
    <3>1. IsFiniteSet(kept)
      BY FS_Subset, kept \subseteq rows DEF Finite
    <3> DEFINE T == {f(r) : r \in kept}
               g == [r \in kept |-> f(r)]
    <3>2. g \in Surjection(kept, T)
      BY DEF Surjection
    <3> HIDE DEF kept, T, g
    <3>3. IsFiniteSet(T)
      BY <3>1, <3>2, FS_Surjection
    <3> QED
      BY <3>3 DEF T
  <2>2. {f(r) : r \in kept} \in SUBSET Row
    BY RowFields DEF TypeOK
  <2>3. rows' = {f(r) : r \in kept} /\ alive' \in SUBSET Users
    BY <1>12 DEF RemoveUser, TypeOK
  <2>4. WorkersTyped'
    BY <1>12, <1>d DEF RemoveUser
  <2> HIDE DEF u, kept, f
  <2> QED
    BY <1>12, <2>1, <2>2, <2>3, <2>4 DEF RemoveUser, TypeOK, Finite, WorkersTyped
<1>13. ASSUME NEW w \in Workers, Verifier(w) PROVE TypeInv'
  <2> USE DEF Pcs, VerifyPcs, Answers
  <2>1. CASE QuickCount(w)
    <3> DEFINE j == [Idle EXCEPT !.pc = "qlast", !.cnt = Cardinality(rows)]
    <3>1. Cardinality(rows) \in Nat
      BY FS_CardinalityType DEF Finite
    <3>2. j \in Job /\ IsFiniteSet(j.seen)
      BY <3>1, IdleType, WithPc, WithCnt DEF Job
    <3>3. CASE rows = {}
      BY <2>1, <3>3, <1>b, <1>c, <1>f, FS_EmptySet DEF QuickCount
    <3>4. CASE rows # {}
      <4>1. WorkersTyped'
        BY <2>1, <3>2, <3>4, WorkerStep DEF QuickCount, Become
      <4> QED
        BY <2>1, <4>1, <1>b, <1>c DEF QuickCount
    <3> QED
      BY <3>3, <3>4
  <2>2. CASE QuickLast(w)
    <3>1. ASSUME NEW r \in rows, Become(w, [worker[w] EXCEPT !.pc = "qcache", !.row = r])
          PROVE  WorkersTyped'
      <4> DEFINE j == [worker[w] EXCEPT !.pc = "qcache", !.row = r]
      <4>1. [worker[w] EXCEPT !.pc = "qcache"] \in Job /\ r \in Row
        BY <1>a, <1>c, <3>1, WithPc
      <4>2. j \in Job
        BY <4>1, WithRow
      <4>3. j.seen = worker[w].seen
        BY <1>a DEF Job
      <4> QED
        BY <1>a, <3>1, <4>2, <4>3, WorkerStep DEF Become
    <3>2. Answer(w, "qinvalid", {}) => WorkersTyped'
      BY <1>f, FS_EmptySet
    <3>3. WorkersTyped'
      BY <2>2, <3>1, <3>2 DEF QuickLast
    <3> QED
      BY <2>2, <3>3, <1>b, <1>c DEF QuickLast
  <2>3. CASE QuickCache(w)
    <3>1. WorkersTyped'
      BY <2>3, <1>e, <1>f, FS_EmptySet DEF QuickCache
    <3>2. cache' \in ChainState
      BY <2>3, <1>a, <1>c DEF QuickCache, ChainState, Job, Row
    <3> QED
      BY <2>3, <3>1, <3>2, <1>b, <1>c DEF QuickCache
  <2>4. CASE QuickLink(w)
    BY <2>4, <1>b, <1>c, <1>f, FS_EmptySet DEF QuickLink
  <2>5. CASE DeepScan(w)
    <3>1. rows \in SUBSET Row /\ IsFiniteSet(rows)
      BY DEF TypeOK, Finite
    <3> QED
      BY <2>5, <3>1, <1>b, <1>c, <1>f DEF DeepScan
  <2>6. CASE DeepPublish(w)
    <3>1. WorkersTyped'
      BY <2>6, <1>e DEF DeepPublish
    <3>2. cache' \in ChainState
      BY <2>6, <1>a, FS_CardinalityType DEF DeepPublish, ChainState, Job, Row
    <3> QED
      BY <2>6, <3>1, <3>2, <1>b, <1>c DEF DeepPublish
  <2>7. CASE Respond(w)
    BY <2>7, <1>b, <1>c, <1>d DEF Respond
  <2> QED
    BY <1>13, <2>1, <2>2, <2>3, <2>4, <2>5, <2>6, <2>7 DEF Verifier
<1>14. CASE Tick
  BY <1>14 DEF Tick, TypeOK, Finite
<1>15. CASE LoseCache
  BY <1>15 DEF LoseCache, NoState, ChainState, Genesis, TypeOK, Finite
<1>16. CASE EditTable
  <2>1. PICK r \in rows :
          \/ rows' = rows \ {r}
          \/ \E u \in (Users \cup {System}) \ {r.hashed} :
               rows' = (rows \ {r}) \cup {[r EXCEPT !.user = u]}
    BY <1>16 DEF EditTable
  <2>2. IsFiniteSet(rows \ {r})
    BY FS_RemoveElement DEF Finite
  <2>3. rows' \in SUBSET Row
    BY <1>c, <2>1, RowFields
  <2>4. IsFiniteSet(rows')
    BY <2>1, <2>2, FS_AddElement
  <2> QED
    BY <1>16, <2>3, <2>4 DEF EditTable, TypeOK, Finite
<1>17. CASE UNCHANGED vars
  BY <1>17 DEF vars, TypeOK, Finite
<1> QED
  BY <1>1, <1>2, <1>3, <1>4, <1>5, <1>6, <1>7, <1>8, <1>9, <1>10, <1>11, <1>12,
     <1>13, <1>14, <1>15, <1>16, <1>17 DEF Next, Writer, Remover

\* Every reachable state is well typed, and the table stays finite, whatever the
\* bounds are.
THEOREM TypeCorrect == Spec => []TypeOK
<1>1. Spec => []TypeInv
  BY TypeInit, TypeStep, PTL DEF Spec
<1> QED
  BY <1>1, PTL DEF TypeInv

(***************************************************************************)
(* The links.  An entry is linked long before it is committed, so the      *)
(* invariant follows it through its worker: the entry it covers is already *)
(* committed and has a smaller primary key, and its own log_id and key     *)
(* belong to nobody else.  A row of the table is the committed one but for *)
(* its user.                                                               *)
(***************************************************************************)
Inserted == {"count", "publish", "commit"}

Covers(r, H) == r.prev = Genesis \/ \E p \in H : p.log = r.prev
CoversBackward(r, H) == r.prev = Genesis \/ \E p \in H : p.log = r.prev /\ p.pk < r.pk

JobOK(j, H, i, n) ==
    /\ j.pc \in LogPcs => /\ j.row.log <= i
                          /\ j.row.user = j.row.hashed
                          /\ \A h \in H : h.log # j.row.log
    /\ j.pc = "insert" => Covers(j.row, H)
    /\ j.pc \in Inserted => /\ CoversBackward(j.row, H)
                            /\ j.row.pk < n
                            /\ \A h \in H : h.pk # j.row.pk
    /\ j.pc \in {"dcache", "dvalid"} => Intact(j.seen, H)

Apart(i, j) ==
    /\ i.pc \in LogPcs /\ j.pc \in LogPcs => i.row.log # j.row.log
    /\ i.pc \in Inserted /\ j.pc \in Inserted => i.row.pk # j.row.pk

HistoryOK(H, i, n) ==
    /\ \A g, h \in H : g.log = h.log \/ g.pk = h.pk => g = h
    /\ \A h \in H : h.log <= i /\ h.pk < n /\ CoversBackward(h, H)

Original(r) == [r EXCEPT !.user = r.hashed]
Recorded(R, H) == \A r \in R : Original(r) \in H

ChainInv ==
    /\ Recorded(rows, hist)
    /\ HistoryOK(hist, issued, nextPk)
    /\ \A w \in Workers : JobOK(worker[w], hist, issued, nextPk)
    /\ \A v, w \in Workers : v # w => Apart(worker[v], worker[w])

LEMMA ChainInit == Init => ChainInv
  BY DEF Init, ChainInv, Recorded, HistoryOK, JobOK, Apart, Idle, LogPcs, Inserted

\* Later log_ids and keys disturb no request.
LEMMA LaterJob ==
  ASSUME NEW j \in Job, NEW H, NEW i \in Nat, NEW k \in Nat, NEW n \in Nat, NEW m \in Nat,
         i <= k, n <= m, JobOK(j, H, i, n)
  PROVE  JobOK(j, H, k, m)
  BY DEF JobOK, Job, Row, LogIds

\* A step that changes one request only, and no entry.
LEMMA QuietStep ==
  ASSUME TypeInv, ChainInv, NEW w \in Workers, NEW j,
         worker' = [worker EXCEPT ![w] = j],
         JobOK(j, hist, issued, nextPk),
         \A v \in Workers \ {w} : Apart(worker[v], j),
         rows' = rows, hist' = hist, issued' = issued, nextPk' = nextPk
  PROVE  ChainInv'
<1>1. worker'[w] = j /\ \A v \in Workers \ {w} : worker'[v] = worker[v]
  BY DEF TypeInv, TypeOK
<1>2. \A v \in Workers \ {w} : Apart(j, worker[v])
  BY DEF Apart
<1> QED
  BY <1>1, <1>2 DEF ChainInv

\* A request that does not log, or no longer, constrains nobody.
LEMMA NotLogging ==
  ASSUME NEW i, NEW j, j.pc \notin LogPcs
  PROVE  Apart(i, j)
  BY DEF Apart, LogPcs, Inserted

\* An accepted scan is intact: its rows are unaltered, ordered by (timestamp, id),
\* and each covers its predecessor in that order.
LEMMA ScanIntact ==
  ASSUME TypeInv, ChainInv, Corrupted(rows) = {}
  PROVE  Intact(rows, hist)
<1>1. ASSUME NEW r \in rows
      PROVE  /\ Follows(r, Older(r, rows))
             /\ r.user = r.hashed
             /\ r \in Row
  BY DEF Corrupted, Rehash, TypeInv, TypeOK, Row, LogIds, Genesis
<1>2. ASSUME NEW r \in rows PROVE r \in hist
  <2>1. Original(r) = r
    BY <1>1 DEF Original, Row
  <2> QED
    BY <2>1 DEF ChainInv, Recorded
<1>3. \A r \in rows : r.prev = Genesis \/ \E p \in rows : p.log = r.prev
  BY <1>1 DEF Follows, Older, IsLast
<1>4. ASSUME NEW r \in rows, NEW s \in rows, Before(r, s), r.prev = s.prev PROVE FALSE
  <2>1. PICK p \in Older(s, rows) : IsLast(p, Older(s, rows)) /\ s.prev = p.log
    <3>1. r \in Older(s, rows) /\ Follows(s, Older(s, rows))
      BY <1>1, <1>4 DEF Older
    <3> QED
      BY <3>1 DEF Follows
  <2>2. p.log # Genesis
    <3>1. p \in Row
      BY <1>1 DEF Older
    <3> QED
      BY <3>1, BoundsAssumption DEF Row, LogIds, Genesis
  <2>3. PICK q \in Older(r, rows) : r.prev = q.log
    BY <1>1, <1>4, <2>1, <2>2 DEF Follows
  <2>4. p = q
    BY <1>2, <1>4, <2>1, <2>3 DEF Older, ChainInv, HistoryOK
  <2>5. r = p \/ Before(r, p)
    BY <1>4, <2>1 DEF IsLast, Older
  <2>6. Before(p, r)
    BY <2>3, <2>4 DEF Older
  <2>7. p \in Row /\ r \in Row
    BY <1>1 DEF Older
  <2> QED
    BY <2>5, <2>6, <2>7 DEF Before, Row
<1>5. ASSUME NEW r \in rows, NEW s \in rows, r.prev = s.prev PROVE r = s
  <2>1. r.pk = s.pk \/ Before(r, s) \/ Before(s, r)
    BY <1>1 DEF Before, Row
  <2>2. r.pk = s.pk => r = s
    BY <1>2 DEF ChainInv, HistoryOK
  <2> QED
    BY <1>4, <1>5, <2>1, <2>2
<1> QED
  BY <1>2, <1>3, <1>5 DEF Intact

\* hist only grows, and an intact scan stays intact.
LEMMA IntactGrows ==
  ASSUME NEW S, NEW H, NEW G, H \subseteq G, Intact(S, H)
  PROVE  Intact(S, G)
  BY DEF Intact

LEMMA ChainStep == TypeInv /\ ChainInv /\ [Next]_vars => ChainInv'
<1> SUFFICES ASSUME TypeInv, ChainInv, [Next]_vars PROVE ChainInv'
  OBVIOUS
<1>a. ASSUME NEW w \in Workers
      PROVE  worker[w] \in Job /\ JobOK(worker[w], hist, issued, nextPk)
  BY DEF TypeInv, TypeOK, ChainInv
<1>b. ASSUME NEW v \in Workers, NEW w \in Workers, v # w PROVE Apart(worker[v], worker[w])
  BY <1>b DEF ChainInv
<1>c. /\ issued \in Nat /\ nextPk \in Nat
      /\ Recorded(rows, hist) /\ HistoryOK(hist, issued, nextPk)
      /\ rows \subseteq Row /\ hist \subseteq Row
  BY DEF TypeInv, TypeOK, ChainInv
<1>d. ASSUME NEW w \in Workers, NEW j,
             worker' = [worker EXCEPT ![w] = j], j.pc \notin LogPcs,
             j.pc \in {"dcache", "dvalid"} => Intact(j.seen, hist),
             rows' = rows, hist' = hist, issued' = issued, nextPk' = nextPk
      PROVE  ChainInv'
  <2>1. JobOK(j, hist, issued, nextPk)
    BY <1>d DEF JobOK, LogPcs, Inserted
  <2>2. \A v \in Workers \ {w} : Apart(worker[v], j)
    BY <1>d, NotLogging
  <2> QED
    BY <1>d, <2>1, <2>2, QuietStep
<1>e. ASSUME NEW w \in Workers, NEW j,
             worker' = [worker EXCEPT ![w] = j],
             JobOK(j, hist, issued, nextPk),
             worker[w].pc \in LogPcs, j.row.log = worker[w].row.log,
             j.pc \in Inserted => worker[w].pc \in Inserted /\ j.row.pk = worker[w].row.pk,
             rows' = rows, hist' = hist, issued' = issued, nextPk' = nextPk
      PROVE  ChainInv'
  <2>1. \A v \in Workers \ {w} : Apart(worker[v], j)
    BY <1>b, <1>e DEF Apart
  <2> QED
    BY <1>e, <2>1, QuietStep
<1>1. ASSUME NEW w \in Workers, NEW u \in alive \cup {System}, LogAccess(w, u)
      PROVE  ChainInv'
  <2> DEFINE r == [NoRow EXCEPT !.log = issued + 1, !.user = u, !.hashed = u, !.ts = clock]
             j == [Idle EXCEPT !.pc = "select", !.row = r]
  <2>1. j.pc = "select" /\ j.row.log = issued + 1 /\ j.row.user = j.row.hashed
    BY DEF Idle, NoRow
  <2>2. \A h \in hist : h.log < issued + 1
    BY <1>c DEF HistoryOK, Row, LogIds
  <2>3. JobOK(j, hist, issued + 1, nextPk)
    BY <2>1, <2>2, <1>c DEF JobOK, LogPcs, Inserted, Row, LogIds
  <2>4. \A v \in Workers : JobOK(worker[v], hist, issued + 1, nextPk)
    BY <1>a, <1>c, LaterJob
  <2>5. \A v \in Workers : Apart(worker[v], j) /\ Apart(j, worker[v])
    <3>1. \A v \in Workers : worker[v].pc \in LogPcs => worker[v].row.log < issued + 1
      BY <1>a, <1>c DEF JobOK, Job, Row, LogIds
    <3> QED
      BY <2>1, <3>1, <1>c DEF Apart, Inserted
  <2>6. worker'[w] = j /\ \A v \in Workers \ {w} : worker'[v] = worker[v]
    BY <1>1 DEF LogAccess, Become, TypeInv, TypeOK
  <2>7. HistoryOK(hist, issued + 1, nextPk)
    BY <1>c DEF HistoryOK, Row, LogIds
  <2>8. rows' = rows /\ hist' = hist /\ issued' = issued + 1 /\ nextPk' = nextPk
    BY <1>1 DEF LogAccess
  <2> HIDE DEF j
  <2>9. \A v \in Workers : JobOK(worker'[v], hist', issued', nextPk')
    BY <2>3, <2>4, <2>6, <2>8
  <2>10. \A v, x \in Workers : v # x => Apart(worker'[v], worker'[x])
    BY <2>5, <2>6, <1>b
  <2> QED
    BY <2>7, <2>8, <2>9, <2>10, <1>c DEF ChainInv
<1>2. ASSUME NEW w \in Workers, SelectLast(w) PROVE ChainInv'
  <2> DEFINE j == [worker[w] EXCEPT !.pc = "lock", !.seen = rows]
  <2>1. j.pc = "lock" /\ j.row = worker[w].row
    BY <1>a DEF Job
  <2>2. worker[w].pc = "select" /\ worker' = [worker EXCEPT ![w] = j]
    BY <1>2 DEF SelectLast, Become
  <2> HIDE DEF j
  <2>3. JobOK(j, hist, issued, nextPk)
    BY <1>a, <2>1, <2>2 DEF JobOK, LogPcs, Inserted
  <2> QED
    BY <1>2, <1>e, <2>1, <2>2, <2>3 DEF SelectLast, LogPcs, Inserted
<1>3. ASSUME NEW w \in Workers, LinkToGenesis(w) PROVE ChainInv'
  <2> DEFINE j == [worker[w] EXCEPT !.pc = "insert", !.row = [@ EXCEPT !.prev = Genesis]]
  <2>1. /\ j.pc = "insert" /\ j.row.prev = Genesis /\ j.row.log = worker[w].row.log
        /\ j.row.user = worker[w].row.user /\ j.row.hashed = worker[w].row.hashed
    BY <1>a DEF Job, Row
  <2>2. worker[w].pc = "lock" /\ worker' = [worker EXCEPT ![w] = j]
    BY <1>3 DEF LinkToGenesis, Become
  <2> HIDE DEF j
  <2>3. JobOK(j, hist, issued, nextPk)
    BY <1>a, <2>1, <2>2 DEF JobOK, LogPcs, Inserted, Covers
  <2> QED
    BY <1>3, <1>e, <2>1, <2>2, <2>3 DEF LinkToGenesis, LogPcs, Inserted
<1>4. ASSUME NEW w \in Workers, LinkToLast(w) PROVE ChainInv'
  <2>1. PICK r \in worker[w].seen :
          /\ \E cur \in rows : cur.log = r.log
          /\ Become(w, [worker[w] EXCEPT !.pc = "insert", !.row = [@ EXCEPT !.prev = r.log],
                                         !.locked = {r.log}, !.seen = {}])
    BY <1>4 DEF LinkToLast
  <2> DEFINE j == [worker[w] EXCEPT !.pc = "insert", !.row = [@ EXCEPT !.prev = r.log],
                                    !.locked = {r.log}, !.seen = {}]
  <2>2. /\ j.pc = "insert" /\ j.row.prev = r.log /\ j.row.log = worker[w].row.log
        /\ j.row.user = worker[w].row.user /\ j.row.hashed = worker[w].row.hashed
    BY <1>a DEF Job, Row
  <2>3. worker[w].pc = "lock" /\ worker' = [worker EXCEPT ![w] = j]
    BY <1>4, <2>1 DEF LinkToLast, Become
  <2>4. \E p \in hist : p.log = r.log
    <3>1. PICK cur \in rows : cur.log = r.log
      BY <2>1
    <3>2. Original(cur) \in hist /\ Original(cur).log = cur.log
      BY <1>c DEF Recorded, Original, Row
    <3> QED
      BY <3>1, <3>2
  <2> HIDE DEF j
  <2>5. JobOK(j, hist, issued, nextPk)
    BY <1>a, <2>2, <2>3, <2>4 DEF JobOK, LogPcs, Inserted, Covers
  <2> QED
    BY <1>4, <1>e, <2>2, <2>3, <2>5 DEF LinkToLast, LogPcs, Inserted
<1>5. ASSUME NEW w \in Workers, SkipDeleted(w) PROVE ChainInv'
  <2>1. PICK r \in worker[w].seen : Become(w, [worker[w] EXCEPT !.seen = @ \ {r}])
    BY <1>5 DEF SkipDeleted
  <2> DEFINE j == [worker[w] EXCEPT !.seen = @ \ {r}]
  <2>2. j.pc = "lock" /\ j.row = worker[w].row /\ worker[w].pc = "lock"
    BY <1>5, <1>a DEF SkipDeleted, Job
  <2>3. worker' = [worker EXCEPT ![w] = j]
    BY <2>1 DEF Become
  <2> HIDE DEF j
  <2>4. JobOK(j, hist, issued, nextPk)
    BY <1>a, <2>2 DEF JobOK, LogPcs, Inserted
  <2> QED
    BY <1>5, <1>e, <2>2, <2>3, <2>4 DEF SkipDeleted, LogPcs, Inserted
<1>6. ASSUME NEW w \in Workers, Insert(w) PROVE ChainInv'
  <2> DEFINE j == [worker[w] EXCEPT !.pc = "count", !.row = [@ EXCEPT !.pk = nextPk]]
  <2>1. /\ j.pc = "count" /\ j.row.pk = nextPk /\ j.row.log = worker[w].row.log
        /\ j.row.prev = worker[w].row.prev
        /\ j.row.user = worker[w].row.user /\ j.row.hashed = worker[w].row.hashed
    BY <1>a, <1>c DEF Job, Row
  <2>2. worker[w].pc = "insert" /\ worker' = [worker EXCEPT ![w] = j]
    BY <1>6 DEF Insert, Become
  <2> HIDE DEF j
  <2>3. \A h \in hist : h.pk < nextPk /\ h.pk # nextPk
    BY <1>c DEF HistoryOK, Row
  <2>4. JobOK(j, hist, issued, nextPk + 1)
    BY <1>a, <1>c, <2>1, <2>2, <2>3 DEF JobOK, LogPcs, Inserted, Covers, CoversBackward
  <2>5. \A v \in Workers : JobOK(worker[v], hist, issued, nextPk + 1)
    BY <1>a, <1>c, LaterJob
  <2>6. \A v \in Workers \ {w} : Apart(worker[v], j) /\ Apart(j, worker[v])
    <3>1. \A v \in Workers : worker[v].pc \in Inserted => worker[v].row.pk < nextPk
      BY <1>a DEF JobOK
    <3> QED
      BY <1>a, <1>b, <1>c, <2>1, <2>2, <3>1 DEF Apart, LogPcs, Inserted, Job, Row
  <2>7. worker'[w] = j /\ \A v \in Workers \ {w} : worker'[v] = worker[v]
    BY <2>2 DEF TypeInv, TypeOK
  <2>8. HistoryOK(hist, issued, nextPk + 1)
    BY <1>c DEF HistoryOK, Row
  <2>9. rows' = rows /\ hist' = hist /\ issued' = issued /\ nextPk' = nextPk + 1
    BY <1>6 DEF Insert
  <2>10. \A v \in Workers : JobOK(worker'[v], hist', issued', nextPk')
    BY <2>4, <2>5, <2>7, <2>9
  <2>11. \A v, x \in Workers : v # x => Apart(worker'[v], worker'[x])
    BY <2>6, <2>7, <1>b
  <2> QED
    BY <2>8, <2>9, <2>10, <2>11, <1>c DEF ChainInv
<1>7. ASSUME NEW w \in Workers, CountRows(w) PROVE ChainInv'
  <2> DEFINE j == [worker[w] EXCEPT !.pc = "publish", !.cnt = Cardinality(rows) + 1]
  <2>1. j.pc = "publish" /\ j.row = worker[w].row
    BY <1>a DEF Job
  <2>2. worker[w].pc = "count" /\ worker' = [worker EXCEPT ![w] = j]
    BY <1>7 DEF CountRows, Become
  <2> HIDE DEF j
  <2>3. JobOK(j, hist, issued, nextPk)
    BY <1>a, <2>1, <2>2 DEF JobOK, LogPcs, Inserted
  <2> QED
    BY <1>7, <1>e, <2>1, <2>2, <2>3 DEF CountRows, LogPcs, Inserted
<1>8. ASSUME NEW w \in Workers, Publish(w) PROVE ChainInv'
  <2> DEFINE j == [worker[w] EXCEPT !.pc = "commit"]
  <2>1. j.pc = "commit" /\ j.row = worker[w].row
    BY <1>a DEF Job
  <2>2. worker[w].pc = "publish" /\ worker' = [worker EXCEPT ![w] = j]
    BY <1>8 DEF Publish, Goto, Become
  <2> HIDE DEF j
  <2>3. JobOK(j, hist, issued, nextPk)
    BY <1>a, <2>1, <2>2 DEF JobOK, LogPcs, Inserted
  <2> QED
    BY <1>8, <1>e, <2>1, <2>2, <2>3 DEF Publish, LogPcs, Inserted
<1>9. ASSUME NEW w \in Workers, Commit(w) PROVE ChainInv'
  <2> DEFINE x == worker[w].row
  <2>1. /\ x \in Row /\ worker[w].pc = "commit" /\ worker[w].pc \in LogPcs \cap Inserted
        /\ hist' = hist \cup {x} /\ rows' = rows \cup {x}
        /\ issued' = issued /\ nextPk' = nextPk
    BY <1>9, <1>a DEF Commit, Job, LogPcs, Inserted
  <2>2. worker'[w] = Idle /\ \A v \in Workers \ {w} : worker'[v] = worker[v]
    BY <1>9 DEF Commit, Finish, Become, TypeInv, TypeOK
  <2>3. /\ x.log <= issued /\ x.user = x.hashed /\ x.pk < nextPk
        /\ CoversBackward(x, hist)
        /\ \A h \in hist : h.log # x.log /\ h.pk # x.pk
    BY <1>a, <2>1 DEF JobOK
  <2>4. Original(x) = x
    BY <2>1, <2>3 DEF Original, Row
  <2> HIDE DEF x
  <2>5. Recorded(rows', hist')
    BY <1>c, <2>1, <2>4 DEF Recorded
  <2>6. HistoryOK(hist', issued', nextPk')
    BY <1>c, <2>1, <2>3 DEF HistoryOK, CoversBackward
  <2>7. ASSUME NEW v \in Workers \ {w} PROVE JobOK(worker[v], hist', issued', nextPk')
    <3>1. worker[v].pc \in LogPcs => worker[v].row.log # x.log
      BY <1>b, <2>1 DEF Apart, x
    <3>2. worker[v].pc \in Inserted => worker[v].row.pk # x.pk
      BY <1>b, <2>1 DEF Apart, x
    <3>3. Intact(worker[v].seen, hist) => Intact(worker[v].seen, hist')
      BY <2>1, IntactGrows
    <3> QED
      BY <1>a, <2>1, <3>1, <3>2, <3>3 DEF JobOK, Covers, CoversBackward
  <2>8. JobOK(Idle, hist', issued', nextPk')
    BY DEF JobOK, Idle, LogPcs, Inserted
  <2>9. \A v \in Workers : Apart(worker[v], Idle) /\ Apart(Idle, worker[v])
    BY DEF Apart, Idle, LogPcs, Inserted
  <2>10. \A v \in Workers : JobOK(worker'[v], hist', issued', nextPk')
    BY <2>2, <2>7, <2>8
  <2>11. \A v, y \in Workers : v # y => Apart(worker'[v], worker'[y])
    BY <2>2, <2>9, <1>b
  <2> QED
    BY <2>5, <2>6, <2>10, <2>11 DEF ChainInv
<1>f. Idle.pc = "idle" /\ Idle.pc \notin LogPcs /\ Idle.pc \notin {"dcache", "dvalid"}
  BY DEF Idle, LogPcs
<1>10. ASSUME NEW w \in Workers, Abort(w) PROVE ChainInv'
  BY <1>10, <1>d, <1>f DEF Abort, Finish, Become
<1>11. ASSUME NEW w \in Workers, NEW u \in Users, RemoveLogs(w, u) PROVE ChainInv'
  <2> DEFINE j == [Idle EXCEPT !.pc = "removing", !.row = [@ EXCEPT !.user = u],
                              !.locked = {r.log : r \in Owned(u)}]
  <2>1. j.pc = "removing"
    BY DEF Idle
  <2>2. worker' = [worker EXCEPT ![w] = j]
    BY <1>11 DEF RemoveLogs, Become
  <2> HIDE DEF j
  <2> QED
    BY <1>11, <1>d, <2>1, <2>2 DEF RemoveLogs, LogPcs
<1>g. ASSUME Recorded(rows', hist), UNCHANGED <<worker, hist, issued, nextPk>>
      PROVE  ChainInv'
  BY <1>g DEF ChainInv
<1>12. ASSUME NEW w \in Workers, RemoveUser(w) PROVE ChainInv'
  <2>1. /\ worker'[w] = Idle /\ \A v \in Workers \ {w} : worker'[v] = worker[v]
        /\ hist' = hist /\ issued' = issued /\ nextPk' = nextPk
    BY <1>12 DEF RemoveUser, Finish, Become, TypeInv, TypeOK
  <2>2. Recorded(rows', hist)
    <3>1. ASSUME NEW r \in rows PROVE Original([r EXCEPT !.user = System]) = Original(r)
      BY <1>c DEF Original, Row
    <3>2. \A s \in rows' : \E r \in rows : s = r \/ s = [r EXCEPT !.user = System]
      BY <1>12 DEF RemoveUser
    <3> QED
      BY <1>c, <3>1, <3>2 DEF Recorded
  <2>3. JobOK(Idle, hist, issued, nextPk)
    BY DEF JobOK, Idle, LogPcs, Inserted
  <2>4. \A v \in Workers : Apart(worker[v], Idle) /\ Apart(Idle, worker[v])
    BY DEF Apart, Idle, LogPcs, Inserted
  <2>5. \A v \in Workers : JobOK(worker'[v], hist, issued, nextPk)
    BY <1>a, <2>1, <2>3
  <2>6. \A v, y \in Workers : v # y => Apart(worker'[v], worker'[y])
    BY <1>b, <2>1, <2>4
  <2> QED
    BY <1>c, <2>1, <2>2, <2>5, <2>6 DEF ChainInv
<1>h. ASSUME NEW w \in Workers, NEW pc \in {"qvalid", "qinvalid", "dvalid", "dcache", "dinvalid"},
             NEW S, Answer(w, pc, S), pc \in {"dcache", "dvalid"} => Intact(S, hist),
             rows' = rows, hist' = hist, issued' = issued, nextPk' = nextPk
      PROVE  ChainInv'
  <2> DEFINE j == [Idle EXCEPT !.pc = pc, !.seen = S]
  <2>1. j.pc = pc /\ j.seen = S
    BY DEF Idle
  <2>2. worker' = [worker EXCEPT ![w] = j]
    BY <1>h DEF Answer, Become
  <2> HIDE DEF j
  <2> QED
    BY <1>d, <1>h, <2>1, <2>2 DEF LogPcs
<1>13. ASSUME NEW w \in Workers, Verifier(w) PROVE ChainInv'
  <2>1. CASE QuickCount(w)
    <3> DEFINE j == [Idle EXCEPT !.pc = "qlast", !.cnt = Cardinality(rows)]
    <3>1. j.pc = "qlast"
      BY DEF Idle
    <3>2. worker' = [worker EXCEPT ![w] = j] \/ Answer(w, "qvalid", {})
      BY <2>1 DEF QuickCount, Become
    <3> HIDE DEF j
    <3> QED
      BY <2>1, <1>d, <1>h, <3>1, <3>2 DEF QuickCount, LogPcs
  <2>2. CASE QuickLast(w)
    <3>1. ASSUME NEW r \in rows, Become(w, [worker[w] EXCEPT !.pc = "qcache", !.row = r])
          PROVE  ChainInv'
      <4> DEFINE j == [worker[w] EXCEPT !.pc = "qcache", !.row = r]
      <4>1. j.pc = "qcache" /\ worker' = [worker EXCEPT ![w] = j]
        BY <1>a, <3>1 DEF Become, Job
      <4> HIDE DEF j
      <4> QED
        BY <2>2, <1>d, <4>1 DEF QuickLast, LogPcs
    <3>2. Answer(w, "qinvalid", {}) => ChainInv'
      BY <2>2, <1>h DEF QuickLast
    <3> QED
      BY <2>2, <3>1, <3>2 DEF QuickLast
  <2>3. CASE QuickCache(w)
    <3> DEFINE j == [worker[w] EXCEPT !.pc = "qlink"]
    <3>1. j.pc = "qlink"
      BY <1>a DEF Job
    <3>2. worker' = [worker EXCEPT ![w] = j] \/ Answer(w, "qinvalid", {})
      BY <2>3 DEF QuickCache, Goto, Become
    <3> HIDE DEF j
    <3> QED
      BY <2>3, <1>d, <1>h, <3>1, <3>2 DEF QuickCache, LogPcs
  <2>4. CASE QuickLink(w)
    BY <2>4, <1>h DEF QuickLink
  <2>5. CASE DeepScan(w)
    <3>1. rows = {} => Intact(rows, hist)
      BY DEF Intact
    <3>2. Corrupted(rows) = {} => Intact(rows, hist)
      BY ScanIntact
    <3> QED
      BY <2>5, <3>1, <3>2, <1>h DEF DeepScan
  <2>6. CASE DeepPublish(w)
    <3> DEFINE j == [worker[w] EXCEPT !.pc = "dvalid"]
    <3>1. j.pc = "dvalid" /\ j.seen = worker[w].seen
      BY <1>a DEF Job
    <3>2. worker' = [worker EXCEPT ![w] = j] /\ worker[w].pc = "dcache"
      BY <2>6 DEF DeepPublish, Goto, Become
    <3> HIDE DEF j
    <3>3. Intact(j.seen, hist)
      BY <1>a, <3>1, <3>2 DEF JobOK
    <3> QED
      BY <2>6, <1>d, <3>1, <3>2, <3>3 DEF DeepPublish, LogPcs
  <2>7. CASE Respond(w)
    BY <2>7, <1>d, <1>f DEF Respond, Finish, Become
  <2> QED
    BY <1>13, <2>1, <2>2, <2>3, <2>4, <2>5, <2>6, <2>7 DEF Verifier
<1>14. CASE Tick
  BY <1>14, <1>c, <1>g DEF Tick
<1>15. CASE LoseCache
  BY <1>15, <1>c, <1>g DEF LoseCache
<1>16. CASE EditTable
  <2>1. PICK r \in rows :
          \/ rows' = rows \ {r}
          \/ \E u \in (Users \cup {System}) \ {r.hashed} :
               rows' = (rows \ {r}) \cup {[r EXCEPT !.user = u]}
    BY <1>16 DEF EditTable
  <2>2. ASSUME NEW u \in Users \cup {System} PROVE Original([r EXCEPT !.user = u]) = Original(r)
    BY <1>c DEF Original, Row
  <2>3. Recorded(rows', hist)
    BY <1>c, <2>1, <2>2 DEF Recorded
  <2> QED
    BY <1>16, <1>g, <2>3 DEF EditTable
<1>17. CASE UNCHANGED vars
  BY <1>17, <1>c, <1>g DEF vars
<1> QED
  BY <1>1, <1>2, <1>3, <1>4, <1>5, <1>6, <1>7, <1>8, <1>9, <1>10, <1>11, <1>12,
     <1>13, <1>14, <1>15, <1>16, <1>17 DEF Next, Writer, Remover

LEMMA ChainHolds == Spec => [](TypeInv /\ ChainInv)
  BY TypeInit, TypeStep, ChainInit, ChainStep, PTL DEF Spec

\* Whatever fails and however the writers interleave, an entry covers "GENESIS_BLOCK"
\* or an entry committed and inserted before it.
THEOREM LinksBackwardHolds == Spec => []LinksBackward
<1>1. ChainInv => LinksBackward
  BY DEF ChainInv, HistoryOK, CoversBackward, LinksBackward
<1> QED
  BY <1>1, ChainHolds, PTL

\* Whatever was edited or deleted, a deep verification that answers "valid" saw only
\* entries as they were committed, linked without a gap and without a fork.
THEOREM AcceptedIsIntact == Spec => []AcceptedMeansIntact
<1>1. ChainInv => AcceptedMeansIntact
  BY DEF ChainInv, JobOK, AcceptedMeansIntact
<1> QED
  BY <1>1, ChainHolds, PTL

\* The log implements HashLog's tree: it only grows, by entries with a new hash that
\* cover what is already there.
THEOREM ImplementsTree == Spec => GrowsAsTree
<1>1. Init => Log!Empty
  BY DEF Init, Log!Empty, Linked
<1>2. ASSUME TypeInv, ChainInv, [Next]_vars PROVE [Log!AppendAnywhere]_Linked
  <2>1. ASSUME NEW w \in Workers, Commit(w) PROVE Log!AppendAnywhere
    <3> DEFINE x == worker[w].row
    <3>1. /\ x \in Row /\ worker[w].pc \in LogPcs \cap Inserted
          /\ hist' = hist \cup {x}
      BY <1>2, <2>1 DEF Commit, TypeInv, TypeOK, Job, LogPcs, Inserted
    <3>2. JobOK(worker[w], hist, issued, nextPk)
      BY <1>2 DEF ChainInv
    <3>3. CoversBackward(x, hist) /\ \A h \in hist : h.log # x.log
      BY <3>1, <3>2 DEF JobOK
    <3> HIDE DEF x
    <3>4. x.log \in LogIds /\ x.log \notin Log!Hashes
      BY <3>1, <3>3 DEF Row, Log!Hashes, Linked
    <3>5. x.prev \in Log!Hashes \cup {Genesis}
      <4>1. ASSUME NEW p \in hist PROVE p.log \in Log!Hashes
        <5>1. [id |-> p.log, prev |-> p.prev] \in Linked
          BY DEF Linked
        <5> QED
          BY <5>1 DEF Log!Hashes
      <4> QED
        BY <3>3, <4>1 DEF CoversBackward
    <3>6. Linked' = Linked \cup {[id |-> x.log, prev |-> x.prev]}
      BY <3>1 DEF Linked
    <3>7. Log!Append(x.log, x.prev)
      BY <3>4, <3>6 DEF Log!Append
    <3> QED
      BY <3>4, <3>5, <3>7 DEF Log!AppendAnywhere
  <2>2. ASSUME \A w \in Workers : ~Commit(w) PROVE Linked' = Linked
    <3>1. hist' = hist
      BY <1>2, <2>2
      DEF Next, Writer, Remover, Verifier, vars, LogAccess, SelectLast, LinkToGenesis,
          LinkToLast, SkipDeleted, Insert, CountRows, Publish, Abort, RemoveLogs,
          RemoveUser, QuickCount, QuickLast, QuickCache, QuickLink, DeepScan,
          DeepPublish, Respond, Tick, LoseCache, EditTable
    <3> QED
      BY <3>1 DEF Linked
  <2> QED
    BY <2>1, <2>2
<1> QED
  BY <1>1, <1>2, ChainHolds, PTL DEF Spec, GrowsAsTree, Log!TreeSpec

(***************************************************************************)
(* One worker process, nobody removed and nothing edited: the conditions   *)
(* under which the documentation's chain is one.  The worker links an      *)
(* entry to the newest row of a table that nobody else extends meanwhile,  *)
(* and clock and primary keys only grow, so the entry it commits comes     *)
(* after every row there is.                                               *)
(***************************************************************************)
Serial ==
    /\ \A v, w \in Workers : v = w
    /\ Removable = {}
    /\ MaxEdits = 0

\* The table: as it was committed, with a newest row, each row following the one before.
ChainOK(R, t) ==
    /\ R = {} \/ \E r \in R : IsLast(r, R)
    /\ \A r \in R : r.user = r.hashed /\ r.ts <= t /\ Follows(r, Older(r, R))

SerialJob(j, R, t) ==
    /\ j.pc # "removing"
    /\ j.pc \in LogPcs => j.row.ts <= t /\ \A r \in R : r.ts <= j.row.ts
    /\ j.pc = "lock" => j.seen = R
    /\ j.pc \in {"insert"} \cup Inserted => Follows(j.row, R)
    /\ j.pc \in Inserted => \A r \in R : r.pk < j.row.pk

SerialInv ==
    /\ rows = hist
    /\ alive = Users
    /\ ChainOK(rows, clock)
    /\ \A w \in Workers : SerialJob(worker[w], rows, clock)

LEMMA SerialInit == Init => SerialInv
  BY DEF Init, SerialInv, ChainOK, SerialJob, Idle, LogPcs, Inserted

\* x is committed after every row of R: the order of R stays, and x is its end.
LEMMA Extended ==
  ASSUME NEW R \in SUBSET Row, NEW x \in Row,
         \A r \in R : r.ts <= x.ts /\ r.pk < x.pk
  PROVE  /\ x \notin R
         /\ IsLast(x, R \cup {x})
         /\ Older(x, R \cup {x}) = R
         /\ \A r \in R : Older(r, R \cup {x}) = Older(r, R)
<1>1. \A r \in R : Before(r, x) /\ ~Before(x, r)
  BY DEF Before, Row
<1>2. ~Before(x, x)
  BY DEF Before, Row
<1>3. x \notin R
  BY <1>1, <1>2
<1>4. IsLast(x, R \cup {x})
  BY <1>1 DEF IsLast
<1>5. Older(x, R \cup {x}) = R
  BY <1>1, <1>2 DEF Older
<1>6. \A r \in R : Older(r, R \cup {x}) = Older(r, R)
  BY <1>1 DEF Older
<1>7. QED
  BY <1>3, <1>4, <1>5, <1>6

LEMMA ChainExtended ==
  ASSUME NEW R \in SUBSET Row, NEW x \in Row, NEW t \in Nat,
         \A r \in R : r.ts <= x.ts /\ r.pk < x.pk,
         ChainOK(R, t), x.user = x.hashed, x.ts <= t, Follows(x, R)
  PROVE  ChainOK(R \cup {x}, t)
<1>1. IsLast(x, R \cup {x}) /\ Older(x, R \cup {x}) = R
  BY Extended
<1>2. \A r \in R : Older(r, R \cup {x}) = Older(r, R)
  BY Extended
<1>3. ASSUME NEW r \in R \cup {x}
      PROVE  r.user = r.hashed /\ r.ts <= t /\ Follows(r, Older(r, R \cup {x}))
  BY <1>1, <1>2 DEF ChainOK
<1>4. QED
  BY <1>1, <1>3 DEF ChainOK

\* There is one newest row, and no entry of a chain covers it.
LEMMA LastUnique ==
  ASSUME NEW R \in SUBSET Row, NEW r, NEW s, IsLast(r, R), IsLast(s, R)
  PROVE  r = s
<1>1. r \in Row /\ s \in Row
  BY DEF IsLast
<1>2. r # s => Before(r, s) /\ Before(s, r)
  BY DEF IsLast
<1>3. QED
  BY <1>1, <1>2 DEF Before, Row

LEMMA LastIsTip ==
  ASSUME TypeInv, ChainInv, SerialInv, NEW p, IsLast(p, rows), NEW h \in rows
  PROVE  h.prev # p.log
<1>1. p \in rows /\ p \in Row /\ h \in Row
  BY DEF IsLast, TypeInv, TypeOK
<1>2. p.log # Genesis
  BY <1>1, BoundsAssumption DEF Row, LogIds, Genesis
<1>3. SUFFICES ASSUME h.prev = p.log PROVE FALSE
  OBVIOUS
<1>4. PICK q \in Older(h, rows) : h.prev = q.log
  <2>1. Follows(h, Older(h, rows))
    BY DEF SerialInv, ChainOK
  <2>2. QED
    BY <2>1, <1>2, <1>3 DEF Follows
<1>5. q \in rows /\ Before(q, h)
  BY <1>4 DEF Older
<1>6. q = p
  BY <1>1, <1>3, <1>4, <1>5 DEF ChainInv, HistoryOK, SerialInv
<1>7. h = p \/ Before(h, p)
  BY DEF IsLast
<1>8. QED
  BY <1>1, <1>5, <1>6, <1>7 DEF Before, Row

\* The entry a worker commits, and the table it is added to.
LEMMA Committed ==
  ASSUME Serial, TypeInv, ChainInv, SerialInv, NEW w \in Workers, worker[w].pc \in Inserted
  PROVE  /\ worker[w].row \in Row /\ rows \in SUBSET Row
         /\ worker[w].row.user = worker[w].row.hashed
         /\ worker[w].row.ts <= clock
         /\ Follows(worker[w].row, rows)
         /\ \A r \in rows : r.ts <= worker[w].row.ts /\ r.pk < worker[w].row.pk
<1>1. worker[w] \in Job /\ rows \in SUBSET Row
  BY DEF TypeInv, TypeOK
<1>2. JobOK(worker[w], hist, issued, nextPk) /\ SerialJob(worker[w], rows, clock)
  BY DEF ChainInv, SerialInv
<1>3. worker[w].pc \in LogPcs
  BY DEF LogPcs, Inserted
<1>4. QED
  BY <1>1, <1>2, <1>3 DEF Job, JobOK, SerialJob

\* A step that changes the worker's locals only, or the clock, the counters and the cache.
LEMMA SerialQuiet ==
  ASSUME Serial, TypeInv, SerialInv, NEW w \in Workers, NEW j,
         worker' = [worker EXCEPT ![w] = j], SerialJob(j, rows, clock),
         rows' = rows, hist' = hist, clock' = clock, alive' = alive
  PROVE  SerialInv'
<1>1. \A v \in Workers : worker'[v] = j
  BY DEF Serial, TypeInv, TypeOK
<1>2. QED
  BY <1>1 DEF SerialInv

LEMMA SerialStep ==
  ASSUME Serial
  PROVE  TypeInv /\ ChainInv /\ SerialInv /\ [Next]_vars => SerialInv'
<1> SUFFICES ASSUME TypeInv, ChainInv, SerialInv, [Next]_vars PROVE SerialInv'
  OBVIOUS
<1>a. ASSUME NEW w \in Workers
      PROVE  worker[w] \in Job /\ SerialJob(worker[w], rows, clock)
  BY DEF TypeInv, TypeOK, SerialInv
<1>b. /\ rows \in SUBSET Row /\ clock \in Nat /\ hist = rows /\ alive = Users
      /\ ChainOK(rows, clock)
  BY DEF TypeInv, TypeOK, SerialInv
<1>c. ASSUME NEW w \in Workers, NEW j, worker' = [worker EXCEPT ![w] = j],
             j.pc \notin LogPcs \cup {"removing"},
             rows' = rows, hist' = hist, clock' = clock, alive' = alive
      PROVE  SerialInv'
  <2>1. SerialJob(j, rows, clock)
    BY <1>c DEF SerialJob, LogPcs, Inserted
  <2>2. QED
    BY <1>c, <2>1, SerialQuiet
<1>d. Idle.pc = "idle"
  BY DEF Idle
<1>1. ASSUME NEW w \in Workers, NEW u \in alive \cup {System}, LogAccess(w, u)
      PROVE  SerialInv'
  <2> DEFINE r == [NoRow EXCEPT !.log = issued + 1, !.user = u, !.hashed = u, !.ts = clock]
             j == [Idle EXCEPT !.pc = "select", !.row = r]
  <2>1. j.pc = "select" /\ j.row.ts = clock
    BY DEF Idle, NoRow
  <2>2. worker' = [worker EXCEPT ![w] = j]
    BY <1>1 DEF LogAccess, Become
  <2> HIDE DEF j
  <2>3. SerialJob(j, rows, clock)
    BY <2>1, <1>b DEF SerialJob, ChainOK, LogPcs, Inserted
  <2>4. QED
    BY <1>1, <2>2, <2>3, SerialQuiet DEF LogAccess
<1>2. ASSUME NEW w \in Workers, SelectLast(w) PROVE SerialInv'
  <2> DEFINE j == [worker[w] EXCEPT !.pc = "lock", !.seen = rows]
  <2>1. j.pc = "lock" /\ j.row = worker[w].row /\ j.seen = rows
    BY <1>a DEF Job
  <2>2. worker[w].pc = "select" /\ worker' = [worker EXCEPT ![w] = j]
    BY <1>2 DEF SelectLast, Become
  <2> HIDE DEF j
  <2>3. SerialJob(j, rows, clock)
    BY <1>a, <2>1, <2>2 DEF SerialJob, LogPcs, Inserted
  <2>4. QED
    BY <1>2, <2>2, <2>3, SerialQuiet DEF SelectLast
<1>3. ASSUME NEW w \in Workers, LinkToGenesis(w) PROVE SerialInv'
  <2> DEFINE j == [worker[w] EXCEPT !.pc = "insert", !.row = [@ EXCEPT !.prev = Genesis]]
  <2>1. j.pc = "insert" /\ j.row.prev = Genesis /\ j.row.ts = worker[w].row.ts
    BY <1>a DEF Job, Row
  <2>2. worker[w].pc = "lock" /\ worker[w].seen = {} /\ worker' = [worker EXCEPT ![w] = j]
    BY <1>3 DEF LinkToGenesis, Become
  <2> HIDE DEF j
  <2>3. rows = {} /\ worker[w].row.ts <= clock
    BY <1>a, <2>2 DEF SerialJob, LogPcs
  <2>4. SerialJob(j, rows, clock)
    BY <2>1, <2>3 DEF SerialJob, Follows, LogPcs, Inserted
  <2>5. QED
    BY <1>3, <2>2, <2>4, SerialQuiet DEF LinkToGenesis
<1>4. ASSUME NEW w \in Workers, LinkToLast(w) PROVE SerialInv'
  <2>1. PICK r \in worker[w].seen :
          /\ IsLast(r, worker[w].seen)
          /\ Become(w, [worker[w] EXCEPT !.pc = "insert", !.row = [@ EXCEPT !.prev = r.log],
                                         !.locked = {r.log}, !.seen = {}])
    BY <1>4 DEF LinkToLast
  <2> DEFINE j == [worker[w] EXCEPT !.pc = "insert", !.row = [@ EXCEPT !.prev = r.log],
                                    !.locked = {r.log}, !.seen = {}]
  <2>2. j.pc = "insert" /\ j.row.prev = r.log /\ j.row.ts = worker[w].row.ts
    BY <1>a DEF Job, Row
  <2>3. worker[w].pc = "lock" /\ worker' = [worker EXCEPT ![w] = j]
    BY <1>4, <2>1 DEF LinkToLast, Become
  <2> HIDE DEF j
  <2>4. IsLast(r, rows)
    BY <1>a, <2>1, <2>3 DEF SerialJob
  <2>5. Follows(j.row, rows)
    BY <2>2, <2>4 DEF Follows, IsLast
  <2>6. SerialJob(j, rows, clock)
    BY <1>a, <2>2, <2>3, <2>5 DEF SerialJob, LogPcs, Inserted
  <2>7. QED
    BY <1>4, <2>3, <2>6, SerialQuiet DEF LinkToLast
<1>5. ASSUME NEW w \in Workers, SkipDeleted(w) PROVE SerialInv'
  <2>1. PICK r \in worker[w].seen : \A cur \in rows : cur.log # r.log
    BY <1>5 DEF SkipDeleted
  <2>2. worker[w].seen = rows
    BY <1>5, <1>a DEF SkipDeleted, SerialJob
  <2>3. QED
    BY <2>1, <2>2
<1>6. ASSUME NEW w \in Workers, Insert(w) PROVE SerialInv'
  <2> DEFINE j == [worker[w] EXCEPT !.pc = "count", !.row = [@ EXCEPT !.pk = nextPk]]
  <2>1. /\ j.pc = "count" /\ j.row.pk = nextPk /\ j.row.ts = worker[w].row.ts
        /\ j.row.prev = worker[w].row.prev
    BY <1>a DEF Job, Row
  <2>2. worker[w].pc = "insert" /\ worker' = [worker EXCEPT ![w] = j]
    BY <1>6 DEF Insert, Become
  <2> HIDE DEF j
  <2>3. \A r \in rows : r.pk < nextPk
    BY <1>b DEF ChainInv, HistoryOK
  <2>4. SerialJob(j, rows, clock)
    BY <1>a, <2>1, <2>2, <2>3 DEF SerialJob, Follows, LogPcs, Inserted
  <2>5. QED
    BY <1>6, <2>2, <2>4, SerialQuiet DEF Insert
<1>7. ASSUME NEW w \in Workers, CountRows(w) PROVE SerialInv'
  <2> DEFINE j == [worker[w] EXCEPT !.pc = "publish", !.cnt = Cardinality(rows) + 1]
  <2>1. j.pc = "publish" /\ j.row = worker[w].row
    BY <1>a DEF Job
  <2>2. worker[w].pc = "count" /\ worker' = [worker EXCEPT ![w] = j]
    BY <1>7 DEF CountRows, Become
  <2> HIDE DEF j
  <2>3. SerialJob(j, rows, clock)
    BY <1>a, <2>1, <2>2 DEF SerialJob, LogPcs, Inserted
  <2>4. QED
    BY <1>7, <2>2, <2>3, SerialQuiet DEF CountRows
<1>8. ASSUME NEW w \in Workers, Publish(w) PROVE SerialInv'
  <2> DEFINE j == [worker[w] EXCEPT !.pc = "commit"]
  <2>1. j.pc = "commit" /\ j.row = worker[w].row
    BY <1>a DEF Job
  <2>2. worker[w].pc = "publish" /\ worker' = [worker EXCEPT ![w] = j]
    BY <1>8 DEF Publish, Goto, Become
  <2> HIDE DEF j
  <2>3. SerialJob(j, rows, clock)
    BY <1>a, <2>1, <2>2 DEF SerialJob, LogPcs, Inserted
  <2>4. QED
    BY <1>8, <2>2, <2>3, SerialQuiet DEF Publish
<1>9. ASSUME NEW w \in Workers, Commit(w) PROVE SerialInv'
  <2> DEFINE x == worker[w].row
  <2>1. /\ worker[w].pc \in Inserted
        /\ rows' = rows \cup {x} /\ hist' = hist \cup {x}
        /\ worker' = [worker EXCEPT ![w] = Idle]
        /\ clock' = clock /\ alive' = alive
    BY <1>9 DEF Commit, Finish, Become, Inserted
  <2>2. \A v \in Workers : worker'[v] = Idle
    BY <2>1 DEF Serial, TypeInv, TypeOK
  <2>3. /\ x \in Row /\ x.user = x.hashed /\ x.ts <= clock /\ Follows(x, rows)
        /\ \A r \in rows : r.ts <= x.ts /\ r.pk < x.pk
    BY <2>1, Committed
  <2> HIDE DEF x
  <2>4. ChainOK(rows \cup {x}, clock)
    BY <1>b, <2>3, ChainExtended
  <2>5. \A R, t : SerialJob(Idle, R, t)
    BY <1>d DEF SerialJob, LogPcs, Inserted
  <2>6. QED
    BY <1>b, <2>1, <2>2, <2>4, <2>5 DEF SerialInv
<1>10. ASSUME NEW w \in Workers, Abort(w) PROVE SerialInv'
  BY <1>10, <1>c, <1>d DEF Abort, Finish, Become, LogPcs
<1>11. ASSUME NEW w \in Workers, NEW u \in Users, RemoveLogs(w, u) PROVE FALSE
  BY <1>11 DEF RemoveLogs, Serial
<1>12. ASSUME NEW w \in Workers, RemoveUser(w) PROVE FALSE
  BY <1>12, <1>a DEF RemoveUser, SerialJob
<1>e. ASSUME NEW w \in Workers, NEW pc, NEW S, Answer(w, pc, S),
             pc \notin LogPcs \cup {"removing"},
             rows' = rows, hist' = hist, clock' = clock, alive' = alive
      PROVE  SerialInv'
  <2> DEFINE j == [Idle EXCEPT !.pc = pc, !.seen = S]
  <2>1. j.pc = pc
    BY DEF Idle
  <2>2. worker' = [worker EXCEPT ![w] = j]
    BY <1>e DEF Answer, Become
  <2> HIDE DEF j
  <2>3. QED
    BY <1>c, <1>e, <2>1, <2>2
<1>13. ASSUME NEW w \in Workers, Verifier(w) PROVE SerialInv'
  <2>1. CASE QuickCount(w)
    <3> DEFINE j == [Idle EXCEPT !.pc = "qlast", !.cnt = Cardinality(rows)]
    <3>1. j.pc = "qlast"
      BY DEF Idle
    <3>2. worker' = [worker EXCEPT ![w] = j] \/ Answer(w, "qvalid", {})
      BY <2>1 DEF QuickCount, Become
    <3> HIDE DEF j
    <3>3. QED
      BY <2>1, <1>c, <1>e, <3>1, <3>2 DEF QuickCount, LogPcs
  <2>2. CASE QuickLast(w)
    <3>1. ASSUME NEW r \in rows, Become(w, [worker[w] EXCEPT !.pc = "qcache", !.row = r])
          PROVE  SerialInv'
      <4> DEFINE j == [worker[w] EXCEPT !.pc = "qcache", !.row = r]
      <4>1. j.pc = "qcache" /\ worker' = [worker EXCEPT ![w] = j]
        BY <1>a, <3>1 DEF Become, Job
      <4> HIDE DEF j
      <4>2. QED
        BY <2>2, <1>c, <4>1 DEF QuickLast, LogPcs
    <3>2. Answer(w, "qinvalid", {}) => SerialInv'
      BY <2>2, <1>e DEF QuickLast, LogPcs
    <3>3. QED
      BY <2>2, <3>1, <3>2 DEF QuickLast
  <2>3. CASE QuickCache(w)
    <3> DEFINE j == [worker[w] EXCEPT !.pc = "qlink"]
    <3>1. j.pc = "qlink"
      BY <1>a DEF Job
    <3>2. worker' = [worker EXCEPT ![w] = j] \/ Answer(w, "qinvalid", {})
      BY <2>3 DEF QuickCache, Goto, Become
    <3> HIDE DEF j
    <3>3. QED
      BY <2>3, <1>c, <1>e, <3>1, <3>2 DEF QuickCache, LogPcs
  <2>4. CASE QuickLink(w)
    BY <2>4, <1>e DEF QuickLink, LogPcs
  <2>5. CASE DeepScan(w)
    BY <2>5, <1>e DEF DeepScan, LogPcs
  <2>6. CASE DeepPublish(w)
    <3> DEFINE j == [worker[w] EXCEPT !.pc = "dvalid"]
    <3>1. j.pc = "dvalid"
      BY <1>a DEF Job
    <3>2. worker' = [worker EXCEPT ![w] = j]
      BY <2>6 DEF DeepPublish, Goto, Become
    <3> HIDE DEF j
    <3>3. QED
      BY <2>6, <1>c, <3>1, <3>2 DEF DeepPublish, LogPcs
  <2>7. CASE Respond(w)
    BY <2>7, <1>c, <1>d DEF Respond, Finish, Become, LogPcs
  <2>8. QED
    BY <1>13, <2>1, <2>2, <2>3, <2>4, <2>5, <2>6, <2>7 DEF Verifier
<1>14. CASE Tick
  <2>1. /\ rows' = rows /\ hist' = hist /\ worker' = worker /\ alive' = alive
        /\ clock' = clock + 1
    BY <1>14 DEF Tick
  <2>2. \A r \in Row : r.ts <= clock => r.ts <= clock + 1
    BY <1>b DEF Row
  <2>3. ChainOK(rows, clock + 1)
    BY <1>b, <2>2 DEF ChainOK
  <2>4. \A w \in Workers : SerialJob(worker[w], rows, clock + 1)
    BY <1>a, <2>2 DEF SerialJob, Job
  <2>5. QED
    BY <1>b, <2>1, <2>3, <2>4 DEF SerialInv
<1>15. CASE LoseCache
  BY <1>15 DEF LoseCache, SerialInv
<1>16. CASE EditTable
  BY <1>16 DEF EditTable, Serial, TypeInv, TypeOK
<1>17. CASE UNCHANGED vars
  BY <1>17 DEF vars, SerialInv
<1>18. QED
  BY <1>1, <1>2, <1>3, <1>4, <1>5, <1>6, <1>7, <1>8, <1>9, <1>10, <1>11, <1>12,
     <1>13, <1>14, <1>15, <1>16, <1>17 DEF Next, Writer, Remover

LEMMA SerialHolds ==
  ASSUME Serial
  PROVE  Spec => [](TypeInv /\ ChainInv /\ SerialInv)
<1>1. TypeInv /\ ChainInv /\ SerialInv /\ [Next]_vars => SerialInv'
  BY SerialStep
<1>2. QED
  BY <1>1, TypeInit, TypeStep, ChainInit, ChainStep, SerialInit, PTL DEF Spec

\* With one worker, and nobody removed and nothing edited, the log is HashLog's
\* chain, whichever transactions fail: every entry covers the newest one.
THEOREM SerialIsChain ==
  ASSUME Serial
  PROVE  Spec => GrowsAsChain
<1>1. Init => Log!Empty
  BY DEF Init, Log!Empty, Linked
<1>2. ASSUME TypeInv, ChainInv, SerialInv, [Next]_vars PROVE [Log!AppendToTip]_Linked
  <2>1. ASSUME NEW w \in Workers, Commit(w) PROVE Log!AppendToTip
    <3> DEFINE x == worker[w].row
    <3>1. worker[w].pc \in Inserted \cap LogPcs /\ hist' = hist \cup {x}
      BY <2>1 DEF Commit, Inserted, LogPcs
    <3>2. x \in Row /\ Follows(x, rows) /\ hist = rows
      BY <1>2, <3>1, Committed DEF SerialInv
    <3>3. \A h \in hist : h.log # x.log
      BY <1>2, <3>1 DEF ChainInv, JobOK
    <3> HIDE DEF x
    <3>4. x.log \in LogIds /\ x.log \notin Log!Hashes
      BY <3>2, <3>3 DEF Row, Log!Hashes, Linked
    <3>5. Linked' = Linked \cup {[id |-> x.log, prev |-> x.prev]}
      BY <3>1 DEF Linked
    <3>6. Log!Append(x.log, x.prev)
      BY <3>4, <3>5 DEF Log!Append
    <3>7. x.prev \in Log!Tips
      <4>1. CASE rows = {}
        <5>1. Linked = {} /\ x.prev = Genesis
          BY <4>1, <3>2 DEF Linked, Follows
        <5>2. QED
          BY <5>1 DEF Log!Tips
      <4>2. CASE rows # {}
        <5>1. PICK p \in rows : IsLast(p, rows) /\ x.prev = p.log
          BY <4>2, <3>2 DEF Follows
        <5>2. [id |-> p.log, prev |-> p.prev] \in Linked
          BY <3>2 DEF Linked
        <5>3. p.log \in Log!Hashes
          BY <5>2 DEF Log!Hashes
        <5>4. ASSUME NEW e \in Linked PROVE e.prev # p.log
          <6>1. PICK h \in hist : e = [id |-> h.log, prev |-> h.prev]
            BY DEF Linked
          <6>2. h.prev # p.log
            BY <1>2, <3>2, <5>1, LastIsTip
          <6>3. QED
            BY <6>1, <6>2
        <5>5. p.log \notin Log!Covered
          BY <5>4 DEF Log!Covered
        <5>6. QED
          BY <5>1, <5>2, <5>3, <5>5 DEF Log!Tips
      <4>3. QED
        BY <4>1, <4>2
    <3>8. QED
      BY <3>4, <3>6, <3>7 DEF Log!AppendToTip
  <2>2. ASSUME \A w \in Workers : ~Commit(w) PROVE Linked' = Linked
    <3>1. hist' = hist
      BY <1>2, <2>2
      DEF Next, Writer, Remover, Verifier, vars, LogAccess, SelectLast, LinkToGenesis,
          LinkToLast, SkipDeleted, Insert, CountRows, Publish, Abort, RemoveLogs,
          RemoveUser, QuickCount, QuickLast, QuickCache, QuickLink, DeepScan,
          DeepPublish, Respond, Tick, LoseCache, EditTable
    <3>2. QED
      BY <3>1 DEF Linked
  <2>3. QED
    BY <2>1, <2>2
<1>3. Spec => [](TypeInv /\ ChainInv /\ SerialInv)
  BY SerialHolds
<1>4. QED
  BY <1>1, <1>2, <1>3, PTL DEF Spec, GrowsAsChain, Log!ChainSpec

\* What two workers break (no two entries cover the same one) holds for one.
THEOREM SerialHasNoFork ==
  ASSUME Serial
  PROVE  Spec => []NoFork
<1>1. ASSUME TypeInv, ChainInv, SerialInv PROVE NoFork
  <2>1. \A r \in rows : Follows(r, Older(r, rows)) /\ Rehash(r) = r.log
    BY <1>1 DEF SerialInv, ChainOK, Rehash
  <2>2. Corrupted(rows) = {}
    BY <2>1 DEF Corrupted
  <2>3. Intact(rows, hist)
    BY <1>1, <2>2, ScanIntact
  <2>4. QED
    BY <1>1, <2>3 DEF Intact, NoFork, SerialInv
<1>2. Spec => [](TypeInv /\ ChainInv /\ SerialInv)
  BY SerialHolds
<1>3. QED
  BY <1>1, <1>2, PTL

(***************************************************************************)
(* If no transaction fails either, audit_chain_state is the end of the     *)
(* table or missing, but for the moment between Publish and Commit, in     *)
(* which the only worker is writing and not verifying.                     *)
(***************************************************************************)
Fresh(c, R) == c = NoState \/ \E r \in R : IsLast(r, R) /\ c = [last |-> r.log, count |-> Cardinality(R)]

QuickJob(j, R, c) ==
    /\ j.pc # "commit" => Fresh(c, R)
    /\ j.pc \in {"publish", "commit"} => j.cnt = Cardinality(R) + 1
    /\ j.pc = "commit" => c \in {NoState, [last |-> j.row.log, count |-> j.cnt]}
    /\ j.pc = "qlast" => R # {}
    /\ j.pc \in {"qlast", "qcache"} => j.cnt = Cardinality(R)
    /\ j.pc \in {"qcache", "qlink"} => IsLast(j.row, R)
    /\ j.pc = "dcache" => j.seen = R
    /\ j.pc # "qinvalid"

QuickInv == \A w \in Workers : QuickJob(worker[w], rows, cache)

LEMMA QuickInit == Init => QuickInv
  BY DEF Init, QuickInv, QuickJob, Idle, Fresh

LEMMA QuickQuiet ==
  ASSUME Serial, TypeInv, NEW w \in Workers, NEW j,
         worker' = [worker EXCEPT ![w] = j], QuickJob(j, rows', cache')
  PROVE  QuickInv'
<1>1. \A v \in Workers : worker'[v] = j
  BY DEF Serial, TypeInv, TypeOK
<1>2. QED
  BY <1>1 DEF QuickInv

LEMMA QuickStep ==
  ASSUME Serial, MaxAborts = 0
  PROVE  TypeInv /\ ChainInv /\ SerialInv /\ QuickInv /\ [Next]_vars => QuickInv'
<1> SUFFICES ASSUME TypeInv, ChainInv, SerialInv, QuickInv, [Next]_vars PROVE QuickInv'
  OBVIOUS
<1>a. ASSUME NEW w \in Workers
      PROVE  /\ worker[w] \in Job /\ SerialJob(worker[w], rows, clock)
             /\ QuickJob(worker[w], rows, cache)
  BY DEF TypeInv, TypeOK, SerialInv, QuickInv
<1>b. /\ rows \in SUBSET Row /\ IsFiniteSet(rows) /\ Cardinality(rows) \in Nat /\ alive = Users
      /\ rows = {} \/ \E r \in rows : IsLast(r, rows)
      /\ \A r \in rows : r.user = r.hashed /\ Follows(r, Older(r, rows))
  BY FS_CardinalityType DEF TypeInv, TypeOK, Finite, SerialInv, ChainOK
<1>c. ASSUME NEW w \in Workers, NEW j, worker' = [worker EXCEPT ![w] = j],
             worker[w].pc # "commit", rows' = rows, cache' = cache,
             j.pc \notin {"publish", "commit", "qlast", "qcache", "qlink", "dcache", "qinvalid"}
      PROVE  QuickInv'
  <2>1. QuickJob(j, rows, cache)
    BY <1>a, <1>c DEF QuickJob
  <2>2. QED
    BY <1>c, <2>1, QuickQuiet
<1>d. Idle.pc = "idle"
  BY DEF Idle
<1>e. ASSUME NEW w \in Workers, NEW pc, NEW S, Answer(w, pc, S), worker[w].pc # "commit",
             rows' = rows, cache' = cache,
             pc \notin {"publish", "commit", "qlast", "qcache", "qlink", "dcache", "qinvalid"}
      PROVE  QuickInv'
  <2> DEFINE j == [Idle EXCEPT !.pc = pc, !.seen = S]
  <2>1. j.pc = pc
    BY DEF Idle
  <2>2. worker' = [worker EXCEPT ![w] = j]
    BY <1>e DEF Answer, Become
  <2> HIDE DEF j
  <2>3. QED
    BY <1>c, <1>e, <2>1, <2>2
<1>1. ASSUME NEW w \in Workers, NEW u \in alive \cup {System}, LogAccess(w, u)
      PROVE  QuickInv'
  <2> DEFINE r == [NoRow EXCEPT !.log = issued + 1, !.user = u, !.hashed = u, !.ts = clock]
             j == [Idle EXCEPT !.pc = "select", !.row = r]
  <2>1. j.pc = "select"
    BY DEF Idle
  <2>2. worker' = [worker EXCEPT ![w] = j]
    BY <1>1 DEF LogAccess, Become
  <2> HIDE DEF j
  <2>3. QED
    BY <1>1, <1>c, <2>1, <2>2 DEF LogAccess
<1>2. ASSUME NEW w \in Workers, SelectLast(w) PROVE QuickInv'
  <2> DEFINE j == [worker[w] EXCEPT !.pc = "lock", !.seen = rows]
  <2>1. j.pc = "lock" /\ worker' = [worker EXCEPT ![w] = j]
    BY <1>2, <1>a DEF SelectLast, Become, Job
  <2> HIDE DEF j
  <2>2. QED
    BY <1>2, <1>c, <2>1 DEF SelectLast
<1>3. ASSUME NEW w \in Workers, LinkToGenesis(w) PROVE QuickInv'
  <2> DEFINE j == [worker[w] EXCEPT !.pc = "insert", !.row = [@ EXCEPT !.prev = Genesis]]
  <2>1. j.pc = "insert" /\ worker' = [worker EXCEPT ![w] = j]
    BY <1>3, <1>a DEF LinkToGenesis, Become, Job
  <2> HIDE DEF j
  <2>2. QED
    BY <1>3, <1>c, <2>1 DEF LinkToGenesis
<1>4. ASSUME NEW w \in Workers, LinkToLast(w) PROVE QuickInv'
  <2>1. PICK r \in worker[w].seen :
          Become(w, [worker[w] EXCEPT !.pc = "insert", !.row = [@ EXCEPT !.prev = r.log],
                                      !.locked = {r.log}, !.seen = {}])
    BY <1>4 DEF LinkToLast
  <2> DEFINE j == [worker[w] EXCEPT !.pc = "insert", !.row = [@ EXCEPT !.prev = r.log],
                                    !.locked = {r.log}, !.seen = {}]
  <2>2. j.pc = "insert" /\ worker' = [worker EXCEPT ![w] = j]
    BY <2>1, <1>a DEF Become, Job
  <2> HIDE DEF j
  <2>3. QED
    BY <1>4, <1>c, <2>2 DEF LinkToLast
<1>5. ASSUME NEW w \in Workers, SkipDeleted(w) PROVE QuickInv'
  <2>1. PICK r \in worker[w].seen : \A cur \in rows : cur.log # r.log
    BY <1>5 DEF SkipDeleted
  <2>2. worker[w].seen = rows
    BY <1>5, <1>a DEF SkipDeleted, SerialJob
  <2>3. QED
    BY <2>1, <2>2
<1>6. ASSUME NEW w \in Workers, Insert(w) PROVE QuickInv'
  <2> DEFINE j == [worker[w] EXCEPT !.pc = "count", !.row = [@ EXCEPT !.pk = nextPk]]
  <2>1. j.pc = "count" /\ worker' = [worker EXCEPT ![w] = j]
    BY <1>6, <1>a DEF Insert, Become, Job
  <2> HIDE DEF j
  <2>2. QED
    BY <1>6, <1>c, <2>1 DEF Insert
<1>7. ASSUME NEW w \in Workers, CountRows(w) PROVE QuickInv'
  <2> DEFINE j == [worker[w] EXCEPT !.pc = "publish", !.cnt = Cardinality(rows) + 1]
  <2>1. j.pc = "publish" /\ j.cnt = Cardinality(rows) + 1 /\ worker' = [worker EXCEPT ![w] = j]
    BY <1>7, <1>a DEF CountRows, Become, Job
  <2>2. worker[w].pc = "count" /\ rows' = rows /\ cache' = cache
    BY <1>7 DEF CountRows
  <2> HIDE DEF j
  <2>3. QuickJob(j, rows, cache)
    BY <1>a, <2>1, <2>2 DEF QuickJob
  <2>4. QED
    BY <2>1, <2>2, <2>3, QuickQuiet
<1>8. ASSUME NEW w \in Workers, Publish(w) PROVE QuickInv'
  <2> DEFINE j == [worker[w] EXCEPT !.pc = "commit"]
  <2>1. j.pc = "commit" /\ j.cnt = worker[w].cnt /\ j.row = worker[w].row
    BY <1>a DEF Job
  <2>2. /\ worker[w].pc = "publish" /\ worker' = [worker EXCEPT ![w] = j]
        /\ rows' = rows /\ cache' = [last |-> worker[w].row.log, count |-> worker[w].cnt]
    BY <1>8 DEF Publish, Goto, Become
  <2> HIDE DEF j
  <2>3. QuickJob(j, rows', cache')
    BY <1>a, <2>1, <2>2 DEF QuickJob
  <2>4. QED
    BY <2>2, <2>3, QuickQuiet
<1>9. ASSUME NEW w \in Workers, Commit(w) PROVE QuickInv'
  <2> DEFINE x == worker[w].row
  <2>1. /\ worker[w].pc \in Inserted /\ worker[w].pc = "commit"
        /\ rows' = rows \cup {x} /\ cache' = cache
        /\ worker' = [worker EXCEPT ![w] = Idle]
    BY <1>9 DEF Commit, Finish, Become, Inserted
  <2>2. x \in Row /\ \A r \in rows : r.ts <= x.ts /\ r.pk < x.pk
    BY <2>1, Committed
  <2>3. cache \in {NoState, [last |-> x.log, count |-> Cardinality(rows) + 1]}
    BY <1>a, <2>1 DEF QuickJob
  <2> HIDE DEF x
  <2>4. x \notin rows /\ IsLast(x, rows \cup {x})
    BY <1>b, <2>2, Extended
  <2>5. Cardinality(rows \cup {x}) = Cardinality(rows) + 1
    BY <1>b, <2>4, FS_AddElement
  <2>6. Fresh(cache, rows \cup {x})
    BY <2>3, <2>4, <2>5 DEF Fresh
  <2>7. QuickJob(Idle, rows \cup {x}, cache)
    BY <1>d, <2>6 DEF QuickJob
  <2>8. QED
    BY <2>1, <2>7, QuickQuiet
<1>10. ASSUME NEW w \in Workers, Abort(w) PROVE FALSE
  <2>1. worker[w].row.user \in Users \cup {System}
    BY <1>a DEF Job, Row
  <2>2. ~(aborts < MaxAborts)
    BY DEF TypeInv, TypeOK
  <2>3. QED
    BY <1>10, <1>b, <2>1, <2>2 DEF Abort
<1>11. ASSUME NEW w \in Workers, NEW u \in Users, RemoveLogs(w, u) PROVE FALSE
  BY <1>11 DEF RemoveLogs, Serial
<1>12. ASSUME NEW w \in Workers, RemoveUser(w) PROVE FALSE
  BY <1>12, <1>a DEF RemoveUser, SerialJob
<1>13. ASSUME NEW w \in Workers, Verifier(w) PROVE QuickInv'
  <2>1. CASE QuickCount(w)
    <3> DEFINE j == [Idle EXCEPT !.pc = "qlast", !.cnt = Cardinality(rows)]
    <3>1. j.pc = "qlast" /\ j.cnt = Cardinality(rows)
      BY DEF Idle
    <3>2. /\ (rows # {} /\ worker' = [worker EXCEPT ![w] = j]) \/ Answer(w, "qvalid", {})
          /\ worker[w].pc = "idle" /\ rows' = rows /\ cache' = cache
      BY <2>1 DEF QuickCount, Become
    <3> HIDE DEF j
    <3>3. rows # {} => QuickJob(j, rows, cache)
      BY <1>a, <3>1, <3>2 DEF QuickJob
    <3>4. QED
      BY <1>e, <3>2, <3>3, QuickQuiet
  <2>2. CASE QuickLast(w)
    <3>1. worker[w].pc = "qlast" /\ rows' = rows /\ cache' = cache
      BY <2>2 DEF QuickLast
    <3>2. \E r \in rows : IsLast(r, rows) /\ Rehash(r) = r.log
      BY <1>a, <1>b, <3>1 DEF QuickJob, Rehash
    <3>3. PICK r \in rows : IsLast(r, rows) /\ Become(w, [worker[w] EXCEPT !.pc = "qcache", !.row = r])
      BY <2>2, <3>2 DEF QuickLast
    <3> DEFINE j == [worker[w] EXCEPT !.pc = "qcache", !.row = r]
    <3>4. /\ j.pc = "qcache" /\ j.row = r /\ j.cnt = worker[w].cnt
          /\ worker' = [worker EXCEPT ![w] = j]
      BY <1>a, <3>3 DEF Become, Job
    <3> HIDE DEF j
    <3>5. QuickJob(j, rows, cache)
      BY <1>a, <3>1, <3>3, <3>4 DEF QuickJob
    <3>6. QED
      BY <3>1, <3>4, <3>5, QuickQuiet
  <2>3. CASE QuickCache(w)
    <3> DEFINE j == [worker[w] EXCEPT !.pc = "qlink"]
               mine == [last |-> worker[w].row.log, count |-> Cardinality(rows)]
    <3>1. /\ worker[w].pc = "qcache" /\ rows' = rows
          /\ worker[w].cnt = Cardinality(rows) /\ IsLast(worker[w].row, rows) /\ Fresh(cache, rows)
      BY <2>3, <1>a DEF QuickCache, QuickJob
    <3>2. cache \in {mine, NoState}
      BY <1>b, <3>1, LastUnique DEF Fresh
    <3>3. cache' = mine /\ worker' = [worker EXCEPT ![w] = j]
      BY <2>3, <3>1, <3>2 DEF QuickCache, Goto, Become
    <3>4. j.pc = "qlink" /\ j.row = worker[w].row
      BY <1>a DEF Job
    <3> HIDE DEF j
    <3>5. Fresh(cache', rows)
      BY <3>1, <3>3 DEF Fresh, IsLast
    <3>6. QuickJob(j, rows, cache')
      BY <3>1, <3>4, <3>5 DEF QuickJob
    <3>7. QED
      BY <3>1, <3>3, <3>6, QuickQuiet
  <2>4. CASE QuickLink(w)
    <3> DEFINE others == {r \in rows : \E s \in rows : Before(r, s)}
               x == worker[w].row
    <3>1. /\ worker[w].pc = "qlink" /\ rows' = rows /\ cache' = cache
          /\ IsLast(x, rows)
          /\ Answer(w, IF Follows(x, others) THEN "qvalid" ELSE "qinvalid", {})
      BY <2>4, <1>a DEF QuickLink, QuickJob
    <3> HIDE DEF x
    <3>2. x \in rows /\ x \in Row /\ \A s \in rows \ {x} : s \in Row /\ Before(s, x)
      BY <1>b, <3>1 DEF IsLast
    <3>3. \A s \in rows : ~Before(x, s)
      BY <3>2 DEF Before, Row
    <3>4. ~Before(x, x)
      BY <3>2, <3>3
    <3>5. others = Older(x, rows)
      BY <3>2, <3>3 DEF Older
    <3>6. Follows(x, others)
      BY <1>b, <3>2, <3>5
    <3>7. Answer(w, "qvalid", {})
      BY <3>1, <3>6
    <3>8. QED
      BY <1>e, <3>1, <3>7
  <2>5. CASE DeepScan(w)
    <3>1. worker[w].pc = "idle" /\ rows' = rows /\ cache' = cache
      BY <2>5 DEF DeepScan
    <3>2. CASE Answer(w, "dcache", rows)
      <4> DEFINE j == [Idle EXCEPT !.pc = "dcache", !.seen = rows]
      <4>1. j.pc = "dcache" /\ j.seen = rows /\ worker' = [worker EXCEPT ![w] = j]
        BY <3>2 DEF Idle, Answer, Become
      <4> HIDE DEF j
      <4>2. QuickJob(j, rows, cache)
        BY <1>a, <3>1, <4>1 DEF QuickJob
      <4>3. QED
        BY <3>1, <4>1, <4>2, QuickQuiet
    <3>3. CASE Answer(w, "dvalid", rows) \/ Answer(w, "dinvalid", rows)
      BY <1>e, <3>1, <3>3
    <3>4. QED
      BY <2>5, <3>2, <3>3 DEF DeepScan
  <2>6. CASE DeepPublish(w)
    <3> DEFINE j == [worker[w] EXCEPT !.pc = "dvalid"]
    <3>1. j.pc = "dvalid"
      BY <1>a DEF Job
    <3>2. worker' = [worker EXCEPT ![w] = j] /\ worker[w].pc = "dcache" /\ rows' = rows
      BY <2>6 DEF DeepPublish, Goto, Become
    <3> HIDE DEF j
    <3>3. worker[w].seen = rows
      BY <1>a, <3>2 DEF QuickJob
    <3>4. Fresh(cache', rows)
      BY <2>6, <3>3 DEF DeepPublish, Fresh
    <3>5. QuickJob(j, rows, cache')
      BY <3>1, <3>4 DEF QuickJob
    <3>6. QED
      BY <3>2, <3>5, QuickQuiet
  <2>7. CASE Respond(w)
    BY <2>7, <1>c, <1>d DEF Respond, Finish, Become, Answers
  <2>8. QED
    BY <1>13, <2>1, <2>2, <2>3, <2>4, <2>5, <2>6, <2>7 DEF Verifier
<1>14. CASE Tick
  BY <1>14 DEF Tick, QuickInv
<1>15. CASE LoseCache
  <2>1. rows' = rows /\ worker' = worker /\ cache' = NoState
    BY <1>15 DEF LoseCache
  <2>2. ASSUME NEW w \in Workers PROVE QuickJob(worker[w], rows, NoState)
    BY <1>a DEF QuickJob, Fresh
  <2>3. QED
    BY <2>1, <2>2 DEF QuickInv
<1>16. CASE EditTable
  BY <1>16 DEF EditTable, Serial, TypeInv, TypeOK
<1>17. CASE UNCHANGED vars
  BY <1>17 DEF vars, QuickInv
<1>18. QED
  BY <1>1, <1>2, <1>3, <1>4, <1>5, <1>6, <1>7, <1>8, <1>9, <1>10, <1>11, <1>12,
     <1>13, <1>14, <1>15, <1>16, <1>17 DEF Next, Writer, Remover

\* With one worker whose transactions succeed, the quick check finds nothing wrong
\* with a table nobody tampered with, also after the cache was lost or rebuilt by a
\* deep verification.
THEOREM QuickIsQuiet ==
  ASSUME Serial, MaxAborts = 0
  PROVE  Spec => []QuickRaisesNoFalseAlarm
<1>1. TypeInv /\ ChainInv /\ SerialInv /\ QuickInv /\ [Next]_vars => QuickInv'
  BY QuickStep
<1>2. Spec => [](TypeInv /\ ChainInv /\ SerialInv)
  BY SerialHolds
<1>3. QuickInv => QuickRaisesNoFalseAlarm
  BY DEF QuickInv, QuickJob, QuickRaisesNoFalseAlarm
<1>4. QED
  BY <1>1, <1>2, <1>3, QuickInit, PTL DEF Spec
=============================================================================
