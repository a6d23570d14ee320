----------------------------- MODULE AuditChain -----------------------------
(***************************************************************************)
(* The tamper-evident access log of models/audit.py: concurrent writers    *)
(* (AccessLog.save), the two verification modes of the audit API, the      *)
(* removal of a user together with his log entries (UserViewSet.destroy),  *)
(* and the "audit_chain_state" key that all of them share in Redis.        *)
(*                                                                         *)
(* A worker is one gunicorn process; it runs one request at a time.  Every *)
(* action is one database statement, one Redis command or one commit, so   *)
(* workers interleave exactly where the processes can.  The database runs  *)
(* at PostgreSQL's default isolation level: a statement sees what was      *)
(* committed when it started, and SELECT ... FOR UPDATE that had to wait   *)
(* for a row returns that row, never one committed meanwhile.              *)
(*                                                                         *)
(* A log_hash is modelled by the log_id it covers: a log_id holds a uuid   *)
(* and SHA3-256 is taken to be injective, so two entries have equal hashes *)
(* only if they are the same entry.  Of the other hashed fields only the   *)
(* user can change after the save, so Rehash compares that one.            *)
(***************************************************************************)
EXTENDS Integers, FiniteSets

CONSTANTS
    Workers,    \* gunicorn worker processes
    Users,      \* user accounts
    System,     \* the null user of an unauthenticated or orphaned entry
    Removable,  \* users an administrator may delete
    MaxLogs,    \* bound: access requests that get logged
    MaxClock,   \* bound: ticks of the clock behind timezone.now
    MaxAborts,  \* bound: transactions lost to an error or a crash
    MaxEdits    \* bound: out-of-band changes of the table

Genesis == 0    \* "GENESIS_BLOCK"
NoState == [last |-> Genesis, count |-> 0]  \* cache.get answered None
LogIds == 1..MaxLogs

ASSUME BoundsAssumption ==
    /\ MaxLogs \in Nat \ {0} /\ MaxClock \in Nat /\ MaxAborts \in Nat /\ MaxEdits \in Nat
    /\ System \notin Users
    /\ Removable \subseteq Users

VARIABLES
    rows,       \* committed rows of crypto_access_logs
    cache,      \* the value of audit_chain_state, or NoState
    clock,      \* timezone.now()
    issued,     \* log_ids handed out so far
    nextPk,     \* next value of the primary key's sequence
    alive,      \* users that exist
    worker,     \* the request each worker is running
    hist,       \* history: every row as it was committed
    aborts,     \* bounded counters
    edits

vars == <<rows, cache, clock, issued, nextPk, alive, worker, hist, aborts, edits>>

(***************************************************************************)
(* Types                                                                   *)
(***************************************************************************)
Row == [log : LogIds, pk : Nat, user : Users \cup {System},
        hashed : Users \cup {System}, ts : Nat, prev : LogIds \cup {Genesis}]

ChainState == [last : LogIds \cup {Genesis}, count : Nat]

LogPcs == {"select", "lock", "insert", "count", "publish", "commit"}
VerifyPcs == {"qlast", "qcache", "qlink", "dcache"}
Answers == {"qvalid", "qinvalid", "dvalid", "dinvalid"}
Pcs == {"idle", "removing"} \cup LogPcs \cup VerifyPcs \cup Answers

\* Locals of a request.  seen: rows of the running statement's snapshot, or those
\* a deep verification answers for; locked: log_ids whose row this transaction
\* has locked; row: the entry under construction, or the one a verification works
\* on; cnt: a count(*) it read.
Job == [pc : Pcs, row : Row, seen : SUBSET Row, locked : SUBSET LogIds, cnt : Nat]

NoRow == [log |-> 1, pk |-> 0, user |-> System, hashed |-> System, ts |-> 0,
          prev |-> Genesis]
Idle == [pc |-> "idle", row |-> NoRow, seen |-> {}, locked |-> {}, cnt |-> 0]

TypeOK ==
    /\ rows \in SUBSET Row
    /\ cache \in ChainState
    /\ clock \in Nat
    /\ issued \in 0..MaxLogs
    /\ nextPk \in Nat
    /\ alive \in SUBSET Users
    /\ worker \in [Workers -> Job]
    /\ hist \in SUBSET Row
    /\ aborts \in Nat
    /\ edits \in Nat

Init ==
    /\ rows = {}
    /\ cache = NoState
    /\ clock = 0
    /\ issued = 0
    /\ nextPk = 1
    /\ alive = Users
    /\ worker = [w \in Workers |-> Idle]
    /\ hist = {}
    /\ aborts = 0
    /\ edits = 0

(***************************************************************************)
(* The order of the table, hashes and locks                                *)
(***************************************************************************)

\* mutant: order_by('timestamp', '-id')
BeforeTiesReversed(r, s) == r.ts < s.ts \/ (r.ts = s.ts /\ r.pk > s.pk)

\* ORDER BY timestamp, id
Before(r, s) == r.ts < s.ts \/ (r.ts = s.ts /\ r.pk < s.pk)

\* r is what order_by('-timestamp', '-id').first() returns of S
IsLast(r, S) == r \in S /\ \A s \in S \ {r} : Before(s, r)

\* calculate_hash: no row whose user was changed has the hash it was saved with
Rehash(r) == IF r.user = r.hashed THEN r.log ELSE Genesis

Locked == UNION {worker[w].locked : w \in Workers}

Become(w, job) == worker' = [worker EXCEPT ![w] = job]
Goto(w, pc) == Become(w, [worker[w] EXCEPT !.pc = pc])
\* mutant: the row lock outlives its transaction
FinishHoldingLock(w) == Become(w, [Idle EXCEPT !.locked = worker[w].locked])
Finish(w) == Become(w, Idle)

(***************************************************************************)
(* AccessLog.log_access and AccessLog.save                                 *)
(***************************************************************************)

\* log_access builds the instance: the timestamp is stamped here, before the
\* transaction that links the entry into the chain begins.
LogAccess(w, u) ==
    /\ worker[w].pc = "idle"
    /\ issued < MaxLogs
    /\ issued' = issued + 1
    /\ Become(w, [Idle EXCEPT !.pc = "select",
                     !.row = [NoRow EXCEPT !.log = issued + 1, !.user = u,
                                           !.hashed = u, !.ts = clock]])
    /\ UNCHANGED <<rows, cache, clock, nextPk, alive, hist, aborts, edits>>

\* BEGIN; the statement of select_for_update() takes its snapshot.
SelectLast(w) ==
    /\ worker[w].pc = "select"
    /\ Become(w, [worker[w] EXCEPT !.pc = "lock", !.seen = rows])
    /\ UNCHANGED <<rows, cache, clock, issued, nextPk, alive, hist, aborts, edits>>

\* The snapshot shows an empty table: nothing to lock, first() is None.
LinkToGenesis(w) ==
    /\ worker[w].pc = "lock"
    /\ worker[w].seen = {}
    /\ Become(w, [worker[w] EXCEPT !.pc = "insert", !.row = [@ EXCEPT !.prev = Genesis]])
    /\ UNCHANGED <<rows, cache, clock, issued, nextPk, alive, hist, aborts, edits>>

\* mutant: links to the hash in audit_chain_state, saving the table scan
LinkToPublished(w) ==
    /\ worker[w].pc = "lock"
    /\ worker[w].seen # {}
    /\ Become(w, [worker[w] EXCEPT !.pc = "insert", !.row = [@ EXCEPT !.prev = cache.last],
                                   !.seen = {}])
    /\ UNCHANGED <<rows, cache, clock, issued, nextPk, alive, hist, aborts, edits>>

\* The newest row of the snapshot is free (the statement waits until it is):
\* lock it and link to it.
LinkToLast(w) ==
    /\ worker[w].pc = "lock"
    /\ \E r \in worker[w].seen :
         /\ IsLast(r, worker[w].seen)
         /\ \E cur \in rows : cur.log = r.log
         /\ r.log \notin Locked
         /\ Become(w, [worker[w] EXCEPT !.pc = "insert", !.row = [@ EXCEPT !.prev = r.log],
                                        !.locked = {r.log}, !.seen = {}])
    /\ UNCHANGED <<rows, cache, clock, issued, nextPk, alive, hist, aborts, edits>>

\* The newest row of the snapshot was deleted meanwhile: the scan goes on.
SkipDeleted(w) ==
    /\ worker[w].pc = "lock"
    /\ \E r \in worker[w].seen :
         /\ IsLast(r, worker[w].seen)
         /\ \A cur \in rows : cur.log # r.log
         /\ Become(w, [worker[w] EXCEPT !.seen = @ \ {r}])
    /\ UNCHANGED <<rows, cache, clock, issued, nextPk, alive, hist, aborts, edits>>

\* super().save(): INSERT, not visible to others yet.
Insert(w) ==
    /\ worker[w].pc = "insert"
    /\ Become(w, [worker[w] EXCEPT !.pc = "count", !.row = [@ EXCEPT !.pk = nextPk]])
    /\ nextPk' = nextPk + 1
    /\ UNCHANGED <<rows, cache, clock, issued, alive, hist, aborts, edits>>

\* mutant: off by one, as if count() included the row being replaced
CountOthers(w) ==
    /\ worker[w].pc = "count"
    /\ Become(w, [worker[w] EXCEPT !.pc = "publish", !.cnt = Cardinality(rows) - 1])
    /\ UNCHANGED <<rows, cache, clock, issued, nextPk, alive, hist, aborts, edits>>

\* mutant: the count is taken before the INSERT
CountBeforeInsert(w) ==
    /\ worker[w].pc = "count"
    /\ Become(w, [worker[w] EXCEPT !.pc = "publish", !.cnt = Cardinality(rows)])
    /\ UNCHANGED <<rows, cache, clock, issued, nextPk, alive, hist, aborts, edits>>

\* 'total_count': AccessLog.objects.count() sees the committed rows and its own.
CountRows(w) ==
    /\ worker[w].pc = "count"
    /\ Become(w, [worker[w] EXCEPT !.pc = "publish", !.cnt = Cardinality(rows) + 1])
    /\ UNCHANGED <<rows, cache, clock, issued, nextPk, alive, hist, aborts, edits>>

\* cache.set('audit_chain_state'), still inside the transaction.
Publish(w) ==
    /\ worker[w].pc = "publish"
    /\ cache' = [last |-> worker[w].row.log, count |-> worker[w].cnt]
    /\ Goto(w, "commit")
    /\ UNCHANGED <<rows, clock, issued, nextPk, alive, hist, aborts, edits>>

Commit(w) ==
    /\ worker[w].pc = "commit"
    /\ worker[w].row.user \in alive \cup {System}
    /\ rows' = rows \cup {worker[w].row}
    /\ hist' = hist \cup {worker[w].row}
    /\ Finish(w)
    /\ UNCHANGED <<cache, clock, issued, nextPk, alive, aborts, edits>>

\* The deferred foreign key fails at COMMIT when the user was deleted; any
\* statement may also fail or the process die.  The row is gone, audit_chain_state
\* keeps what was published, and the caller swallows the exception.
Abort(w) ==
    /\ worker[w].pc \in LogPcs
    /\ \/ worker[w].pc = "commit" /\ worker[w].row.user \notin alive \cup {System}
          /\ UNCHANGED aborts
       \/ aborts < MaxAborts /\ aborts' = aborts + 1
    /\ Finish(w)
    /\ UNCHANGED <<rows, cache, clock, issued, nextPk, alive, hist, edits>>

(***************************************************************************)
(* UserViewSet.destroy                                                     *)
(***************************************************************************)
Owned(u) == {r \in rows : r.user = u}

\* BEGIN; AccessLog.objects.filter(user=user).delete() locks what it deletes.
RemoveLogs(w, u) ==
    /\ worker[w].pc = "idle"
    /\ u \in Removable \cap alive
    /\ \A x \in Workers : worker[x].pc = "removing" => worker[x].row.user # u
    /\ Locked \cap {r.log : r \in Owned(u)} = {}
    /\ Become(w, [Idle EXCEPT !.pc = "removing", !.row = [@ EXCEPT !.user = u],
                              !.locked = {r.log : r \in Owned(u)}])
    /\ UNCHANGED <<rows, cache, clock, issued, nextPk, alive, hist, aborts, edits>>

\* user.delete(); COMMIT.  An entry of the user committed since RemoveLogs is
\* kept by on_delete=SET_NULL.  audit_chain_state is not touched.
RemoveUser(w) ==
    LET u == worker[w].row.user
        kept == {r \in rows : r.log \notin worker[w].locked}
    IN  /\ worker[w].pc = "removing"
        /\ {r.log : r \in Owned(u)} \cap (Locked \ worker[w].locked) = {}
        /\ rows' = {IF r.user = u THEN [r EXCEPT !.user = System] ELSE r : r \in kept}
        /\ alive' = alive \ {u}
        /\ Finish(w)
        /\ UNCHANGED <<cache, clock, issued, nextPk, hist, aborts, edits>>

(***************************************************************************)
(* AccessLog.verify_chain_quick                                            *)
(***************************************************************************)
Answer(w, pc, scanned) == Become(w, [Idle EXCEPT !.pc = pc, !.seen = scanned])

\* total_count = cls.objects.count()
QuickCount(w) ==
    /\ worker[w].pc = "idle"
    /\ IF rows = {} THEN Answer(w, "qvalid", {})
       ELSE Become(w, [Idle EXCEPT !.pc = "qlast", !.cnt = Cardinality(rows)])
    /\ UNCHANGED <<rows, cache, clock, issued, nextPk, alive, hist, aborts, edits>>

\* 1) recompute the newest entry's hash
QuickLast(w) ==
    /\ worker[w].pc = "qlast"
    /\ \/ \E r \in rows :
            /\ IsLast(r, rows)
            /\ Rehash(r) = r.log
            /\ Become(w, [worker[w] EXCEPT !.pc = "qcache", !.row = r])
       \/ /\ \A r \in rows : IsLast(r, rows) => Rehash(r) # r.log
          /\ Answer(w, "qinvalid", {})
    /\ UNCHANGED <<rows, cache, clock, issued, nextPk, alive, hist, aborts, edits>>

\* 2) compare with audit_chain_state, or rebuild it
QuickCache(w) ==
    LET mine == [last |-> worker[w].row.log, count |-> worker[w].cnt]
    IN  /\ worker[w].pc = "qcache"
        /\ IF cache \in {mine, NoState}
           THEN cache' = mine /\ Goto(w, "qlink")
           ELSE Answer(w, "qinvalid", {}) /\ UNCHANGED cache
        /\ UNCHANGED <<rows, clock, issued, nextPk, alive, hist, aborts, edits>>

\* r's previous_hash is the log_hash of the entry just before it in S, or
\* "GENESIS_BLOCK" if S holds none
Follows(r, S) ==
    IF S = {} THEN r.prev = Genesis ELSE \E p \in S : IsLast(p, S) /\ r.prev = p.log

\* 3) the link between the newest entry and the now second newest one
QuickLink(w) ==
    LET others == {r \in rows : \E s \in rows : Before(r, s)}
    IN  /\ worker[w].pc = "qlink"
        /\ Answer(w, IF Follows(worker[w].row, others) THEN "qvalid" ELSE "qinvalid", {})
        /\ UNCHANGED <<rows, cache, clock, issued, nextPk, alive, hist, aborts, edits>>

(***************************************************************************)
(* AccessLog.deep_verify_chain                                             *)
(***************************************************************************)
Older(r, S) == {s \in S : Before(s, r)}

\* mutant: the scan only follows the links
CorruptedLinks(S) == {r \in S : ~Follows(r, Older(r, S))}
Corrupted(S) == {r \in S : ~Follows(r, Older(r, S)) \/ Rehash(r) # r.log}

\* One SELECT, streamed: the whole scan sees one snapshot.  exists() is taken
\* together with it.
DeepScan(w) ==
    /\ worker[w].pc = "idle"
    /\ Answer(w, IF rows = {} THEN "dvalid"
                 ELSE IF Corrupted(rows) = {} THEN "dcache" ELSE "dinvalid", rows)
    /\ UNCHANGED <<rows, cache, clock, issued, nextPk, alive, hist, aborts, edits>>

\* Nothing corrupted: audit_chain_state is set to what the scan ended with.
DeepPublish(w) ==
    /\ worker[w].pc = "dcache"
    /\ \E r \in worker[w].seen :
         /\ IsLast(r, worker[w].seen)
         /\ cache' = [last |-> r.log, count |-> Cardinality(worker[w].seen)]
    /\ Goto(w, "dvalid")
    /\ UNCHANGED <<rows, clock, issued, nextPk, alive, hist, aborts, edits>>

\* The response leaves; the worker is free for the next request.
Respond(w) ==
    /\ worker[w].pc \in Answers
    /\ Finish(w)
    /\ UNCHANGED <<rows, cache, clock, issued, nextPk, alive, hist, aborts, edits>>

(***************************************************************************)
(* Environment                                                             *)
(***************************************************************************)
Tick ==
    /\ clock < MaxClock
    /\ clock' = clock + 1
    /\ UNCHANGED <<rows, cache, issued, nextPk, alive, worker, hist, aborts, edits>>

\* Redis is restarted or evicts the key.
LoseCache ==
    /\ cache # NoState
    /\ cache' = NoState
    /\ UNCHANGED <<rows, clock, issued, nextPk, alive, worker, hist, aborts, edits>>

\* Somebody edits the table behind the application: a row disappears, or a
\* hashed field of it changes.
EditTable ==
    /\ edits < MaxEdits
    /\ edits' = edits + 1
    /\ \E r \in rows :
         /\ r.log \notin Locked
         /\ \/ rows' = rows \ {r}
            \/ \E u \in (Users \cup {System}) \ {r.hashed} :
                 rows' = (rows \ {r}) \cup {[r EXCEPT !.user = u]}
    /\ UNCHANGED <<cache, clock, issued, nextPk, alive, worker, hist, aborts>>

Writer(w) ==
    \/ \E u \in alive \cup {System} : LogAccess(w, u)
    \/ SelectLast(w) \/ LinkToGenesis(w) \/ LinkToLast(w) \/ SkipDeleted(w)
    \/ Insert(w) \/ CountRows(w) \/ Publish(w) \/ Commit(w) \/ Abort(w)

Remover(w) == (\E u \in Users : RemoveLogs(w, u)) \/ RemoveUser(w)

Verifier(w) ==
    \/ QuickCount(w) \/ QuickLast(w) \/ QuickCache(w) \/ QuickLink(w)
    \/ DeepScan(w) \/ DeepPublish(w) \/ Respond(w)

Next ==
    \/ \E w \in Workers : Writer(w) \/ Remover(w) \/ Verifier(w)
    \/ Tick \/ LoseCache \/ EditTable

Spec == Init /\ [][Next]_vars

\* A request that was started is carried on by its process: every step of it but
\* the failures is eventually taken.  Starting requests is up to the clients.
Proceed(w) ==
    \/ SelectLast(w) \/ LinkToGenesis(w) \/ LinkToLast(w) \/ SkipDeleted(w)
    \/ Insert(w) \/ CountRows(w) \/ Publish(w) \/ Commit(w)
    \/ worker[w].pc = "commit" /\ Abort(w)
    \/ RemoveUser(w)
    \/ QuickLast(w) \/ QuickCache(w) \/ QuickLink(w) \/ DeepPublish(w) \/ Respond(w)

FairSpec == Spec /\ \A w \in Workers : WF_vars(Proceed(w))

(***************************************************************************)
(* Properties                                                              *)
(***************************************************************************)

\* However many workers log at once, and whichever of them fail, a committed
\* entry covers "GENESIS_BLOCK" or an entry that was committed and inserted
\* before it: never one that was rolled back, and never one that covers it.
LinksBackward ==
    \A r \in hist :
        r.prev = Genesis \/ \E p \in hist : p.log = r.prev /\ p.pk < r.pk

\* The entries ever committed form a hash tree that only grows, whatever is
\* deleted from the table.
Linked == {[id |-> r.log, prev |-> r.prev] : r \in hist}
Log == INSTANCE HashLog WITH Ids <- LogIds, Origin <- Genesis, entries <- Linked
GrowsAsTree == Log!TreeSpec

\* With one worker the log is the chain the documentation promises.
GrowsAsChain == Log!ChainSpec

\* A deep scan that answers "valid" saw only entries as they were committed, each
\* with everything it covers, and no entry covered twice: what it missed can only
\* be missing from the end.
Intact(S, H) ==
    /\ S \subseteq H
    /\ \A r \in S : r.prev = Genesis \/ \E p \in S : p.log = r.prev
    /\ \A r, s \in S : r.prev = s.prev => r = s

AcceptedMeansIntact ==
    \A w \in Workers : worker[w].pc = "dvalid" => Intact(worker[w].seen, hist)

\* The quick check raises no alarm over a table nobody tampered with.  It holds
\* for a single worker whose transactions succeed.
QuickRaisesNoFalseAlarm == \A w \in Workers : worker[w].pc # "qinvalid"

\* Two entries never cover the same one: the chain has no fork.
NoFork == \A r, s \in hist : r.prev = s.prev => r = s

\* Row locks are always handed on: a request that logs, verifies or removes ends.
RequestsEnd ==
    \A w \in Workers : worker[w].pc # "idle" ~> worker[w].pc = "idle"
=============================================================================
