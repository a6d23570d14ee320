---------------------------- MODULE FileStoreProofs ----------------------------
(***************************************************************************)
(* Proofs about FileStore: its types, and that acknowledged uploads stay   *)
(* what they were, for any number of paths, policies and uploads: with     *)
(* encrypted paths and assignments that do not encrypt, for any number of  *)
(* requests; with paths in the clear, for one request at a time, whose     *)
(* assignments encrypt as they please.                                     *)
(***************************************************************************)
EXTENDS FileStore, FiniteSetTheorems, SequenceTheorems, TLAPS

RowsTyped(R) == DOMAIN R \subseteq FileIds /\ \A f \in DOMAIN R : R[f] \in File
ObjectsTyped(O) == DOMAIN O \subseteq Name /\ \A n \in DOMAIN O : O[n] \in Object
AckEntry == [file : FileIds, num : VersionNumbers, data : 1..MaxUploads]

\* A request that will assign a policy has one, one that will save or delete a row knows which,
\* and one that uploads has a version number.
Jobs == {j \in Job : /\ j.pc \in {"put", "row", "version", "link"} => j.num \in VersionNumbers
                     /\ j.pc \in {"link", "drop", "assign", "refold"} => j.policy \in Policies
                     /\ j.pc \in {"save", "remove", "cascade"} => j.file \in FileIds}

TypeInv == TypeOK /\ req \in [Requests -> Jobs]

LEMMA Constants ==
  /\ Paths # {} /\ NoPolicy \notin Policies /\ NoPolicy \notin SUBSET AbePolicies
  /\ MaxUploads \in Nat /\ 0 < MaxUploads /\ MaxClock \in Nat /\ 0 < MaxClock
  /\ Ops \subseteq AllOps
  BY ParameterAssumption

LEMMA PlainTyped == ASSUME NEW p \in Paths PROVE PlainName(p) \in Name
  BY Constants DEF PlainName, Name, VersionNumbers

LEMMA SealTyped ==
  ASSUME NEW obj \in Object, NEW pol \in SUBSET AbePolicies
  PROVE  Encrypt(obj, pol) \in Object
<1>1. CASE pol = {}
  BY <1>1 DEF Encrypt
<1>2. CASE pol # {}
  <2>1. Append(obj.enc, pol) \in Seq((SUBSET AbePolicies) \ {{}})
    BY <1>2, AppendProperties DEF Object
  <2> QED
    BY <1>2, <2>1 DEF Encrypt, Object
<1> QED
  BY <1>1, <1>2

LEMMA OpenTyped ==
  ASSUME NEW obj \in Object, NEW pol, Decrypt(obj, pol) # Refused
  PROVE  Decrypt(obj, pol) \in Object
<1>1. CASE pol = {} \/ obj.enc = <<>>
  BY <1>1 DEF Decrypt
<1>2. CASE ~(pol = {} \/ obj.enc = <<>>)
  <2> DEFINE last == Len(obj.enc)
  <2>1. last \in Nat /\ last # 0
    BY <1>2 DEF Object
  <2>2. SubSeq(obj.enc, 1, last - 1) \in Seq((SUBSET AbePolicies) \ {{}})
    BY <2>1, SubSeqProperties DEF Object
  <2> QED
    BY <1>2, <2>2 DEF Decrypt, Object
<1> QED
  BY <1>1, <1>2

LEMMA IdleTyped == Idle \in Job /\ Idle \in Jobs
<1> DEFINE p == CHOOSE q \in Paths : TRUE
<1>1. p \in Paths
  BY Constants
<1>2. PlainName(p) \in Name
  BY <1>1, PlainTyped
<1>3. <<>> \in Seq((SUBSET AbePolicies) \ {{}})
  OBVIOUS
<1>4. [data |-> 1, enc |-> <<>>] \in Object
  BY <1>3, Constants DEF Object
<1> HIDE DEF p
<1>5. [path |-> p, deleted |-> FALSE] \in File
  BY <1>1 DEF File
<1>6. 1 \in VersionNumbers
  BY Constants DEF VersionNumbers
<1> QED
  BY <1>1, <1>2, <1>4, <1>5, <1>6 DEF Idle, Job, Jobs, Pcs, Policy, p

\* Of the versions of a file one is the latest: the numbers not below its own are fewest.
LEMMA LatestExists ==
  ASSUME versions \subseteq Version, NEW f, VersionsOf(f) # {}
  PROVE  \E v \in versions : IsLatest(v, f)
<1> DEFINE All == 1..(MaxUploads + 1)
           Above(v) == v.num..(MaxUploads + 1)
           T == {Above(v) : v \in VersionsOf(f)}
<1>1. \A v \in VersionsOf(f) : v.num \in All
  BY DEF VersionsOf, Version, VersionNumbers
<1>2. T \subseteq FiniteSubsetsOf(All) /\ T # {}
  <2>1. ASSUME NEW v \in VersionsOf(f) PROVE Above(v) \subseteq All /\ IsFiniteSet(Above(v))
    <3>1. Above(v) \subseteq All
      BY <1>1, <2>1, Constants
    <3>2. IsFiniteSet(Above(v))
      BY <1>1, <2>1, Constants, FS_Interval
    <3> QED
      BY <3>1, <3>2
  <2> QED
    BY <2>1 DEF FiniteSubsetsOf
<1>3. PICK x \in T : \A y \in T : <<y, x>> \notin StrictSubsetOrdering(All)
  <2> HIDE DEF T, All
  <2> QED
    BY <1>2, WFMin, FS_StrictSubsetOrderingWellFounded
<1>4. PICK v \in VersionsOf(f) : x = Above(v)
  BY <1>3
<1>5. ASSUME NEW u \in VersionsOf(f), v.num < u.num PROVE FALSE
  <2>1. Above(u) \subseteq Above(v) /\ v.num \in Above(v) /\ v.num \notin Above(u)
    BY <1>1, <1>5, Constants
  <2>2. Above(u) # Above(v) /\ Above(v) \subseteq All
    BY <1>1, <2>1, Constants
  <2> QED
    BY <1>3, <1>4, <2>1, <2>2 DEF StrictSubsetOrdering
<1> QED
  BY <1>1, <1>4, <1>5, Constants DEF IsLatest, VersionsOf

(***************************************************************************)
(* Types                                                                   *)
(***************************************************************************)

\* A step of a request, to a job or to another step of its own.
LEMMA Steps ==
  ASSUME req \in [Requests -> Jobs], NEW r \in Requests
  PROVE  /\ Finish(r) => req' \in [Requests -> Jobs]
         /\ \A pc \in {"reput", "resave"} : Goto(r, pc) => req' \in [Requests -> Jobs]
         /\ Goto(r, "row") /\ At(r, "put") => req' \in [Requests -> Jobs]
         /\ Goto(r, "link") /\ At(r, "version") /\ req[r].policy \in Policies
               => req' \in [Requests -> Jobs]
         /\ Goto(r, "assign") /\ At(r, "drop") => req' \in [Requests -> Jobs]
         /\ Goto(r, "cascade") /\ At(r, "remove") => req' \in [Requests -> Jobs]
         /\ \A op \in Ops : \A j \in Jobs : Start(r, op, j) => req' \in [Requests -> Jobs]
<1>1. Finish(r) => req' \in [Requests -> Jobs]
  BY IdleTyped DEF Finish
<1>2. ASSUME NEW pc \in {"row", "link", "assign", "cascade", "reput", "resave"}, Goto(r, pc),
             pc = "row" => At(r, "put"),
             pc = "link" => At(r, "version") /\ req[r].policy \in Policies,
             pc = "assign" => At(r, "drop"),
             pc = "cascade" => At(r, "remove")
      PROVE  req' \in [Requests -> Jobs]
  <2>1. [req[r] EXCEPT !.pc = pc] \in Jobs
    BY <1>2 DEF Job, Jobs, Pcs, At
  <2> QED
    BY <1>2, <2>1 DEF Goto
<1>3. ASSUME NEW op \in Ops, NEW j \in Jobs, Start(r, op, j) PROVE req' \in [Requests -> Jobs]
  <2>1. [j EXCEPT !.op = op] \in Jobs
    BY DEF Job, Jobs
  <2> QED
    BY <1>3, <2>1 DEF Start
<1> QED
  BY <1>1, <1>2, <1>3

LEMMA RowAdded ==
  ASSUME NEW R, RowsTyped(R), NEW f \in FileIds, NEW row \in File
  PROVE  RowsTyped(With(R, f, row))
  BY DEF RowsTyped, With

LEMMA ObjectAdded ==
  ASSUME NEW O, ObjectsTyped(O), NEW n \in Name, NEW o \in Object
  PROVE  ObjectsTyped(With(O, n, o))
  BY DEF ObjectsTyped, With

\* TypeInv, with its parts about functions named.
LEMMA Types ==
  TypeInv <=> /\ RowsTyped(rows) /\ ObjectsTyped(objects)
              /\ versions \subseteq Version
              /\ links \subseteq Link
              /\ folder \subseteq Policies
              /\ req \in [Requests -> Jobs]
              /\ clock \in 0..MaxClock
              /\ uploads \in 0..MaxUploads
              /\ acked \subseteq AckEntry
  BY DEF TypeInv, TypeOK, RowsTyped, ObjectsTyped, AckEntry, Jobs

LEMMA TypeInit == Init => TypeInv
<1> SUFFICES ASSUME Init PROVE TypeInv
  OBVIOUS
<1>1. clock \in 0..MaxClock /\ uploads \in 0..MaxUploads
  BY Constants DEF Init
<1>2. RowsTyped(rows) /\ ObjectsTyped(objects)
  BY DEF Init, NoEntries, RowsTyped, ObjectsTyped
<1>3. req \in [Requests -> Jobs]
  BY IdleTyped DEF Init
<1> QED
  BY <1>1, <1>2, <1>3, Types DEF Init

\* What a step that reads, or ends, or fails leaves to be shown.
LEMMA Keeps ==
  ASSUME TypeInv, UNCHANGED <<rows, versions, links, folder, objects>>,
         req' \in [Requests -> Jobs], clock' \in 0..MaxClock, uploads' \in 0..MaxUploads,
         acked' \subseteq acked
  PROVE  TypeInv'
  BY DEF TypeInv, TypeOK, Jobs

LEMMA UploadTyped ==
  ASSUME TypeInv, NEW r \in Requests, NEW p \in Paths, NEW policy \in Policies \cup {NoPolicy},
         NEW isNewVersion \in BOOLEAN, Upload(r, p, policy, isNewVersion)
  PROVE  TypeInv'
<1>1. PICK f \in FileIds \cup {Nobody}, pol \in UploadPol(policy, p), num \in VersionNumbers :
        Start(r, "upload",
                   [Idle EXCEPT !.pc = "put", !.file = f, !.row.path = p, !.num = num,
                      !.phys = PhysicalName(p, num), !.pol = pol, !.policy = policy,
                      !.obj = Encrypt([data |-> uploads + 1, enc |-> <<>>],
                                      IF pol = NoPolicy THEN {} ELSE pol)])
  BY DEF Upload
<1> DEFINE obj == Encrypt([data |-> uploads + 1, enc |-> <<>>], IF pol = NoPolicy THEN {} ELSE pol)
<1>2. uploads + 1 \in 1..MaxUploads /\ uploads' \in 0..MaxUploads
  BY Constants DEF Upload, TypeInv, TypeOK
<1>3. PhysicalName(p, num) \in Name
  BY <1>2, PlainTyped DEF PhysicalName, Name
<1>4. pol \in {NoPolicy} \cup SUBSET AbePolicies
  BY DEF UploadPol, ChosenPol
<1>5. obj \in Object
  <2>1. [data |-> uploads + 1, enc |-> <<>>] \in Object
    BY <1>2, EmptySeq DEF Object
  <2> QED
    BY <1>4, <2>1, SealTyped
<1> HIDE DEF obj
<1>6. [Idle EXCEPT !.pc = "put", !.file = f, !.row.path = p, !.num = num,
                   !.phys = PhysicalName(p, num), !.pol = pol, !.policy = policy, !.obj = obj] \in Jobs
  <2> DEFINE j == [Idle EXCEPT !.pc = "put", !.file = f, !.row.path = p, !.num = num,
                     !.phys = PhysicalName(p, num), !.pol = pol, !.policy = policy, !.obj = obj]
  <2>1. Idle \in Job
    BY IdleTyped DEF Jobs
  <2>2. j \in Job
    BY <1>3, <1>4, <1>5, <2>1 DEF Job, Pcs, File, Policy
  <2>3. j.pc = "put" /\ j.num = num
    BY <2>1 DEF Job
  <2> HIDE DEF j
  <2> QED
    BY <2>2, <2>3 DEF Jobs, j
<1>7. req' \in [Requests -> Jobs]
  BY <1>1, <1>6, Steps DEF Upload, May, TypeInv, obj
<1> QED
  BY <1>2, <1>7, Keeps DEF Upload, TypeInv, TypeOK

LEMMA UploadStepTyped ==
  ASSUME TypeInv, NEW r \in Requests, UploadStep(r)
  PROVE  TypeInv'
<1> DEFINE j == req[r]
<1>j. j \in Job /\ j \in Jobs
  BY DEF TypeInv, Jobs
<1>1. CASE UploadPut(r)
  <2>1. ObjectsTyped(objects')
    BY <1>1, <1>j, Types, ObjectAdded DEF UploadPut, Job
  <2>2. req' \in [Requests -> Jobs]
    BY <1>1, Steps DEF UploadPut, TypeInv, Pcs
  <2> QED
    BY <1>1, <2>1, <2>2 DEF UploadPut, TypeInv, TypeOK, RowsTyped, ObjectsTyped, AckEntry, Jobs
<1>2. CASE UploadRow(r)
  <2> DEFINE f == IF j.file = Nobody THEN j.obj.data ELSE j.file
  <2>1. f \in FileIds
    BY <1>j DEF Job, Object, FileIds
  <2>2. RowsTyped(rows')
    <3>1. CASE rows' = With(rows, f, j.row)
      BY <1>j, <2>1, <3>1, Types, RowAdded DEF Job
    <3>2. CASE rows' = [rows EXCEPT ![f].deleted = FALSE]
      BY <3>2 DEF TypeInv, TypeOK, RowsTyped, File
    <3> QED
      BY <1>2, <3>1, <3>2 DEF UploadRow
  <2>3. [j EXCEPT !.pc = "version", !.file = f] \in Jobs
    BY <1>2, <1>j, <2>1 DEF UploadRow, At, Job, Jobs, Pcs
  <2>4. req' = [req EXCEPT ![r] = [j EXCEPT !.pc = "version", !.file = f]]
    BY <1>2 DEF UploadRow, TypeInv, TypeOK
  <2>5. req' \in [Requests -> Jobs]
    BY <2>3, <2>4 DEF TypeInv
  <2> QED
    BY <1>2, <2>2, <2>5 DEF UploadRow, TypeInv, TypeOK, RowsTyped, ObjectsTyped, AckEntry, Jobs
<1>3. CASE UploadVersion(r)
  <2>1. j.file \in FileIds /\ j.num \in VersionNumbers
    BY <1>3, <1>j DEF UploadVersion, At, VersionFits, TypeInv, TypeOK, Jobs
  <2>2. versions' \subseteq Version
    BY <1>3, <1>j, <2>1 DEF UploadVersion, TypeInv, TypeOK, Version, Job
  <2>3. acked' \subseteq AckEntry
    BY <1>3, <1>j, <2>1, Types DEF UploadVersion, Ack, AckEntry, Job, Object
  <2>4. req' \in [Requests -> Jobs]
    BY <1>3, <1>j, Steps DEF UploadVersion, TypeInv, Job
  <2> QED
    BY <1>3, <2>2, <2>3, <2>4 DEF UploadVersion, TypeInv, TypeOK, RowsTyped, ObjectsTyped, AckEntry, Jobs
<1>4. CASE UploadLink(r)
  <2>1. j.file \in FileIds /\ j.policy \in Policies /\ j.num \in VersionNumbers
    BY <1>4, <1>j DEF UploadLink, At, LinkFits, TypeInv, TypeOK, Jobs
  <2>2. acked' \subseteq AckEntry
    BY <1>4, <1>j, <2>1, Types DEF UploadLink, Ack, AckEntry, Job, Object
  <2>3. req' \in [Requests -> Jobs]
    BY <1>4, Steps DEF UploadLink, TypeInv
  <2>4. links' \subseteq Link
    BY <1>4, <2>1 DEF UploadLink, TypeInv, TypeOK, Link
  <2> QED
    BY <1>4, <2>2, <2>3, <2>4 DEF UploadLink, TypeInv, TypeOK, RowsTyped, ObjectsTyped, AckEntry, Jobs
<1>5. CASE UploadRowGone(r) \/ UploadVersionTaken(r) \/ UploadLinkTaken(r)
  <2>1. Refuse(r)
    BY <1>5 DEF UploadRowGone, UploadVersionTaken, UploadLinkTaken
  <2> QED
    BY <2>1, Steps, Keeps DEF Refuse, TypeInv, TypeOK
<1> QED
  BY <1>1, <1>2, <1>3, <1>4, <1>5, UploadTyped DEF UploadStep

\* A handler that reads a row, to save its copy later.
LEMMA ReadRowTyped ==
  ASSUME TypeInv, NEW r \in Requests, NEW op, NEW f, NEW d, NEW row \in File, ReadRow(r, op, f, d, row)
  PROVE  TypeInv'
<1>1. [Idle EXCEPT !.pc = "save", !.file = f, !.row = row] \in Jobs
  BY IdleTyped DEF ReadRow, Job, Jobs, Pcs, TypeInv, TypeOK
<1>2. req' \in [Requests -> Jobs]
  BY <1>1, Steps DEF ReadRow, May, TypeInv
<1> QED
  BY <1>2, Keeps DEF ReadRow, TypeInv, TypeOK

LEMMA RowStepTyped ==
  ASSUME TypeInv, NEW r \in Requests, RowStep(r)
  PROVE  TypeInv'
<1>r. \A f \in DOMAIN rows : /\ f \in FileIds /\ rows[f] \in File
                             /\ \A d \in BOOLEAN : [rows[f] EXCEPT !.deleted = d] \in File
                             /\ \A p \in Paths : [rows[f] EXCEPT !.path = p] \in File
  BY DEF TypeInv, TypeOK, File
<1>1. ASSUME NEW f \in DOMAIN rows, ListVersions(r, f) PROVE TypeInv'
  <2>1. PICK q \in PoliciesOf(f) \cup {NoPolicy} :
          versions' = versions \cup
              {[file |-> f, num |-> 1, phys |-> PlainName(rows[f].path),
                pol |-> IF q \in AbePolicies THEN {q} ELSE NoPolicy]}
    BY <1>1 DEF ListVersions
  <2>2. PlainName(rows[f].path) \in Name /\ 1 \in VersionNumbers
    BY <1>r, PlainTyped, Constants DEF File, VersionNumbers
  <2>3. versions' \subseteq Version
    BY <1>r, <2>1, <2>2 DEF TypeInv, TypeOK, Version, Policy
  <2> QED
    BY <1>1, <2>3 DEF ListVersions, TypeInv, TypeOK, Jobs
<1>2. ASSUME NEW f \in DOMAIN rows,
             \/ SignUrl(r, f) \/ MoveToTrash(r, f) \/ Restore(r, f)
             \/ \E p \in Paths : Rename(r, f, p)
      PROVE  TypeInv'
  BY <1>r, <1>2, ReadRowTyped DEF SignUrl, MoveToTrash, Restore, Rename, RenameTo
<1>3. ASSUME NEW f \in DOMAIN rows, TrashByPath(r, f) PROVE TypeInv'
  <2>1. RowsTyped(rows')
    BY <1>3, <1>r DEF TrashByPath, RowsTyped, TypeInv, TypeOK
  <2> QED
    BY <1>3, <2>1 DEF TrashByPath, TypeInv, TypeOK, RowsTyped, Jobs
<1>4. ASSUME NEW f \in DOMAIN rows, HardDelete(r, f) \/ Destroy(r, f) PROVE TypeInv'
  <2>1. PICK op, d : Delete(r, op, f, d)
    BY <1>4 DEF HardDelete, Destroy
  <2>2. [Idle EXCEPT !.pc = "remove", !.file = f, !.row = rows[f]] \in Jobs
    BY <1>r, IdleTyped DEF Job, Jobs, Pcs
  <2>3. req' \in [Requests -> Jobs]
    BY <2>1, <2>2, Steps DEF Delete, May, TypeInv
  <2> QED
    BY <2>1, <2>3, Keeps DEF Delete, TypeInv, TypeOK
<1>5. CASE SaveRow(r)
  <2>1. req[r].file \in FileIds /\ req[r].row \in File
    BY <1>5 DEF SaveRow, At, TypeInv, Jobs, Job
  <2>2. RowsTyped(rows')
    BY <1>5, <2>1, Types, RowAdded DEF SaveRow
  <2>3. req' \in [Requests -> Jobs]
    BY <1>5, Steps DEF SaveRow, TypeInv
  <2> QED
    BY <1>5, <2>2, <2>3 DEF SaveRow, TypeInv, TypeOK, RowsTyped, Jobs
<1>6. CASE RemoveObject(r)
  <2>1. ObjectsTyped(objects') /\ acked' \subseteq acked
    BY <1>6, Types DEF RemoveObject, ObjectsTyped, Without
  <2>2. req' \in [Requests -> Jobs]
    BY <1>6, Steps DEF RemoveObject, TypeInv
  <2> QED
    BY <1>6, <2>1, <2>2 DEF RemoveObject, TypeInv, TypeOK, ObjectsTyped, Jobs
<1>7. CASE CommitRemoval(r)
  <2>1. RowsTyped(rows')
    BY <1>7, Types DEF CommitRemoval, RowsTyped, Without
  <2>2. req' \in [Requests -> Jobs]
    BY <1>7, Steps DEF CommitRemoval, TypeInv
  <2> QED
    BY <1>7, <2>1, <2>2 DEF CommitRemoval, TypeInv, TypeOK, RowsTyped, Jobs
<1> QED
  BY <1>1, <1>2, <1>3, <1>4, <1>5, <1>6, <1>7 DEF RowStep

LEMMA LinkStepTyped ==
  ASSUME TypeInv, NEW r \in Requests, LinkStep(r)
  PROVE  TypeInv'
<1>1. ASSUME NEW l \in links, RemovePolicy(r, l) PROVE TypeInv'
  BY <1>1 DEF RemovePolicy, TypeInv, TypeOK, Jobs
<1>2. ASSUME NEW q \in Policies, FolderPolicy(r, q) PROVE TypeInv'
  BY <1>2 DEF FolderPolicy, TypeInv, TypeOK, Jobs
<1>3. ASSUME NEW q \in Policies, DropFolder(r, q) PROVE TypeInv'
  <2>1. [Idle EXCEPT !.pc = "refold", !.policy = q] \in Jobs
    BY IdleTyped DEF Job, Jobs, Pcs
  <2>2. req' \in [Requests -> Jobs]
    BY <1>3, <2>1, Steps DEF DropFolder, May, TypeInv
  <2> QED
    BY <1>3, <2>2 DEF DropFolder, TypeInv, TypeOK, Jobs
<1>4. CASE AssignFolder(r)
  <2>1. req[r].policy \in Policies
    BY <1>4 DEF AssignFolder, At, TypeInv, Jobs
  <2>2. req' \in [Requests -> Jobs]
    BY <1>4, Steps DEF AssignFolder, TypeInv
  <2> QED
    BY <1>4, <2>1, <2>2 DEF AssignFolder, TypeInv, TypeOK, Jobs
<1> QED
  BY <1>1, <1>2, <1>3, <1>4 DEF LinkStep

\* assign_policy works on the object of the latest version, or on one named like the path.
LEMMA AssignTyped ==
  ASSUME TypeInv, NEW r \in Requests, NEW p \in Paths, NEW policy \in Policies,
         NEW replace \in BOOLEAN, AssignPolicy(r, p, policy, replace)
  PROVE  TypeInv'
<1>1. PICK f \in DOMAIN rows :
         LET linked == PoliciesOf(f) \cap AbePolicies
             none == VersionsOf(f) = {}
             phys == IF none THEN PlainName(p) ELSE (CHOOSE v \in versions : IsLatest(v, f)).phys
             pol == IF none THEN NoPolicy ELSE (CHOOSE v \in versions : IsLatest(v, f)).pol
             num == IF none THEN 0 ELSE (CHOOSE v \in versions : IsLatest(v, f)).num
             newPol == IF replace \/ linked = {} THEN ChosenPol(policy)
                                                 ELSE linked \cup ChosenPol(policy)
             reencrypt == replace \/ policy \in AbePolicies
             bytes == IF linked = {} THEN objects[phys] ELSE Decrypt(objects[phys], Applied(pol, p))
         IN  /\ reencrypt => phys \in DOMAIN objects /\ bytes # Refused
             /\ Start(r, "assign",
                  [Idle EXCEPT !.pc = IF replace THEN "drop" ELSE "assign", !.file = f,
                     !.policy = policy, !.num = num, !.pol = IF reencrypt THEN newPol ELSE NoPolicy,
                     !.phys = ReencryptedName(phys),
                     !.obj = IF reencrypt THEN Encrypt(bytes, newPol) ELSE @])
  BY DEF AssignPolicy
<1> DEFINE linked == PoliciesOf(f) \cap AbePolicies
           none == VersionsOf(f) = {}
           latest == CHOOSE v \in versions : IsLatest(v, f)
           phys == IF none THEN PlainName(p) ELSE latest.phys
           pol == IF none THEN NoPolicy ELSE latest.pol
           num == IF none THEN 0 ELSE latest.num
           newPol == IF replace \/ linked = {} THEN ChosenPol(policy) ELSE linked \cup ChosenPol(policy)
           reencrypt == replace \/ policy \in AbePolicies
           bytes == IF linked = {} THEN objects[phys] ELSE Decrypt(objects[phys], Applied(pol, p))
           obj == IF reencrypt THEN Encrypt(bytes, newPol) ELSE Idle.obj
           job == [Idle EXCEPT !.pc = IF replace THEN "drop" ELSE "assign", !.file = f,
                     !.policy = policy, !.num = num, !.pol = IF reencrypt THEN newPol ELSE NoPolicy,
                     !.phys = ReencryptedName(phys), !.obj = obj]
<1>2. /\ reencrypt => phys \in DOMAIN objects /\ bytes # Refused
      /\ Start(r, "assign", job)
  BY <1>1
<1>3. phys \in Name /\ num \in VersionNumbers \cup {0}
  <2>1. CASE none
    BY <2>1, PlainTyped, Constants DEF VersionNumbers
  <2>2. CASE ~none
    <3>1. latest \in versions
      BY <2>2, LatestExists DEF TypeInv, TypeOK
    <3> HIDE DEF latest
    <3> QED
      BY <2>2, <3>1 DEF TypeInv, TypeOK, Version
  <2> QED
    BY <2>1, <2>2
<1>4. newPol \in SUBSET AbePolicies
  BY Constants DEF ChosenPol, Policies
<1>5. obj \in Object
  <2>1. CASE ~reencrypt
    BY <2>1, IdleTyped DEF Job
  <2>2. CASE reencrypt
    <3> HIDE DEF phys, linked, pol, newPol, reencrypt
    <3>1. objects[phys] \in Object
      BY <1>2, <2>2 DEF TypeInv, TypeOK
    <3>2. bytes \in Object
      BY <1>2, <2>2, <3>1, OpenTyped
    <3> QED
      BY <1>4, <2>2, <3>2, SealTyped
  <2> QED
    BY <2>1, <2>2
<1>6. ReencryptedName(phys) \in Name
  BY <1>3 DEF ReencryptedName, Name, TypeInv, TypeOK
<1>7. f \in FileIds
  BY DEF TypeInv, TypeOK
<1>8. job \in Jobs
  <2> DEFINE pc == IF replace THEN "drop" ELSE "assign"
             written == IF reencrypt THEN newPol ELSE NoPolicy
             name == ReencryptedName(phys)
  <2>1. pc \in {"drop", "assign"} /\ written \in Policy
    BY <1>4 DEF Policy
  <2> HIDE DEF pc, written, name, num, obj
  <2> DEFINE j == [Idle EXCEPT !.pc = pc, !.file = f, !.policy = policy, !.num = num,
                               !.pol = written, !.phys = name, !.obj = obj]
  <2>2. j \in Job
    BY <1>3, <1>5, <1>6, <1>7, <2>1, IdleTyped DEF Job, Pcs, name
  <2>3. j.pc = pc /\ j.policy = policy
    BY IdleTyped DEF Job
  <2> HIDE DEF j
  <2>4. j \in Jobs
    BY <2>1, <2>2, <2>3 DEF Jobs
  <2> QED
    BY <2>4 DEF pc, written, name, j
<1>9. req' \in [Requests -> Jobs]
  <2> HIDE DEF job
  <2> QED
    BY <1>2, <1>8, Steps DEF AssignPolicy, May, TypeInv
<1> QED
  BY <1>9, Keeps DEF AssignPolicy, TypeInv, TypeOK

LEMMA AssignStepTyped ==
  ASSUME TypeInv, NEW r \in Requests, AssignStep(r)
  PROVE  TypeInv'
<1>j. req[r] \in Job /\ req[r] \in Jobs
  BY DEF TypeInv, Jobs
<1>1. CASE AssignDropLinks(r)
  <2>1. req' \in [Requests -> Jobs]
    BY <1>1, <1>j, Steps DEF AssignDropLinks, At, Jobs, TypeInv
  <2> QED
    BY <1>1, <2>1 DEF AssignDropLinks, TypeInv, TypeOK, Jobs
<1>2. CASE AssignLink(r)
  <2>1. req[r].file \in FileIds /\ req[r].policy \in Policies
    BY <1>2, <1>j DEF AssignLink, At, LinkFits, TypeInv, TypeOK, Jobs
  <2>2. links' \subseteq Link
    BY <1>2, <2>1 DEF AssignLink, TypeInv, TypeOK, Link
  <2>3. req' \in [Requests -> Jobs]
    BY <1>2, Steps DEF AssignLink, TypeInv
  <2> QED
    BY <1>2, <2>2, <2>3 DEF AssignLink, TypeInv, TypeOK, Jobs
<1>3. CASE AssignPut(r)
  <2>1. ObjectsTyped(objects')
    BY <1>3, <1>j, Types, ObjectAdded DEF AssignPut, Job
  <2>2. req' \in [Requests -> Jobs]
    BY <1>3, Steps DEF AssignPut, TypeInv
  <2> QED
    BY <1>3, <2>1, <2>2 DEF AssignPut, TypeInv, TypeOK, ObjectsTyped, Jobs
<1>4. CASE AssignSaveVersion(r)
  <2>1. PICK old \in SUBSET VersionsOf(req[r].file) : versions' = (versions \ old) \cup
             {[v EXCEPT !.phys = req[r].phys, !.pol = req[r].pol] : v \in old}
    BY <1>4 DEF AssignSaveVersion
  <2>2. \A v \in VersionsOf(req[r].file) :
           [v EXCEPT !.phys = req[r].phys, !.pol = req[r].pol] \in Version
    BY <1>j DEF VersionsOf, TypeInv, TypeOK, Version, Job
  <2>3. versions' \subseteq Version
    BY <2>1, <2>2 DEF TypeInv, TypeOK
  <2>4. req' \in [Requests -> Jobs]
    BY <1>4, Steps DEF AssignSaveVersion, TypeInv
  <2> QED
    BY <1>4, <2>3, <2>4 DEF AssignSaveVersion, TypeInv, TypeOK, Jobs
<1>5. CASE AssignLinkTaken(r)
  BY <1>5, Steps, Keeps DEF AssignLinkTaken, Refuse, TypeInv, TypeOK
<1> QED
  BY <1>1, <1>2, <1>3, <1>4, <1>5, AssignTyped DEF AssignStep

LEMMA TypeStep == TypeInv /\ [Next]_vars => TypeInv'
<1> SUFFICES ASSUME TypeInv, [Next]_vars PROVE TypeInv'
  OBVIOUS
<1>1. ASSUME NEW r \in Requests, Fail(r) PROVE TypeInv'
  BY <1>1, Steps, Keeps DEF Fail, TypeInv, TypeOK
<1>2. CASE Tick
  <2>1. clock' \in 0..MaxClock
    BY <1>2, Constants DEF Tick, TypeInv, TypeOK
  <2> QED
    BY <1>2, <2>1 DEF Tick, TypeInv, TypeOK, Jobs
<1>3. CASE UNCHANGED vars
  BY <1>3 DEF vars, TypeInv, TypeOK, Jobs
<1> QED
  BY <1>1, <1>2, <1>3, UploadStepTyped, AssignStepTyped, RowStepTyped, LinkStepTyped DEF Next

\* Requests, rows, versions and objects keep their types (models/storage.py).
THEOREM TypeCorrect == Spec => []TypeOK
<1>1. TypeInv => TypeOK
  BY DEF TypeInv
<1> QED
  BY <1>1, TypeInit, TypeStep, PTL DEF Spec

(***************************************************************************)
(* Acknowledged uploads.  With encrypted paths an upload writes an object  *)
(* of its own, named by a uuid, which here is the number of the upload.    *)
(* Deletion removes none of these (their names are not paths), and an      *)
(* assignment copies one to a name of the same uuid; unless it encrypts,   *)
(* the copy is the same.  A version made by list_versions names its path,  *)
(* uuid 0.                                                                 *)
(***************************************************************************)
\* The conditions of files_concurrent, and of files_assign: no assignment encrypts.
NoReencryption == FieldEncryption /\ (AbePolicies = {} \/ "assign" \notin Ops)

Writing == {"put", "row", "version"}
Assigns == {"drop", "assign", "reput", "resave"}

Sealed(pol) == IF pol \in {NoPolicy, {}} THEN <<>> ELSE <<pol>>

\* The object an upload is writing, and the copy an assignment does; one that keeps the
\* object as it is goes no further than its link (pol = NoPolicy).
JobOK(j, O, n) ==
    /\ j.pc \in Writing \cup {"link"} => /\ j.phys.uuid = j.obj.data /\ j.obj.data <= n
                                         /\ j.obj.enc = Sealed(j.pol)
    /\ j.pc \in {"row", "version"} => j.phys \in DOMAIN O /\ O[j.phys] = j.obj
    /\ j.pc \in Assigns => "assign" \in Ops
    /\ j.pc \in {"drop", "assign", "reput"} =>
          (j.phys.uuid # 0 /\ (j.pc = "reput" \/ j.pol # NoPolicy) => j.obj.data = j.phys.uuid)
    /\ j.pc = "resave" /\ j.phys.uuid # 0 => j.phys \in DOMAIN O

ObjectOK(O) == \A m \in DOMAIN O : m.uuid # 0 => O[m].data = m.uuid

VersionOK(v, O, n) ==
    /\ v.phys.uuid <= n
    /\ v.phys.uuid # 0 => /\ v.phys \in DOMAIN O
                          /\ O[v.phys] = [data |-> v.phys.uuid, enc |-> Sealed(v.pol)]

Distinct(V) ==
    \A u, v \in V :
        (u.file = v.file /\ u.num = v.num) \/ (u.phys.uuid = v.phys.uuid /\ u.phys.uuid # 0)
        => u = v

\* A job that writes an object no version names yet, and no other job.
Unnamed(j, V) == j.pc \in Writing => \A v \in V : v.phys.uuid # j.obj.data
Apart(i, j) == i.pc \in Writing /\ j.pc \in Writing => i.obj.data # j.obj.data

AckedOK(A, V) ==
    \A a \in A : \E v \in V : v.file = a.file /\ v.num = a.num /\ v.phys.uuid = a.data

FilesInv ==
    /\ \A r \in Requests : JobOK(req[r], objects, uploads) /\ Unnamed(req[r], versions)
    /\ \A r, q \in Requests : r # q => Apart(req[r], req[q])
    /\ \A v \in versions : VersionOK(v, objects, uploads)
    /\ ObjectOK(objects)
    /\ Distinct(versions)
    /\ AckedOK(acked, versions)

LEMMA FilesInit == Init => FilesInv
  BY DEF Init, FilesInv, JobOK, Unnamed, Apart, Writing, Assigns, Distinct, AckedOK, ObjectOK,
         NoEntries, Idle

LEMMA IdleOK == ASSUME NEW j, j.pc \in {"idle", "save", "remove", "cascade", "refold"}
                PROVE  \A O, n, V : JobOK(j, O, n) /\ Unnamed(j, V)
  BY DEF JobOK, Unnamed, Writing, Assigns

\* A request that moves on to j, and writes nothing that it was not writing before.
LEMMA Moves ==
  ASSUME TypeInv, FilesInv, NEW r \in Requests, NEW j, req' = [req EXCEPT ![r] = j],
         JobOK(j, objects, uploads),
         j.pc \in Writing => req[r].pc \in Writing /\ j.obj = req[r].obj,
         UNCHANGED <<versions, objects, uploads>>, AckedOK(acked', versions)
  PROVE  FilesInv'
<1>1. req'[r] = j /\ \A q \in Requests : q # r => req'[q] = req[q]
  BY DEF TypeInv
<1>2. Unnamed(j, versions)
  BY DEF FilesInv, Unnamed
<1>3. ASSUME NEW q \in Requests, q # r PROVE Apart(j, req[q]) /\ Apart(req[q], j)
  BY <1>3 DEF FilesInv, Apart
<1> QED
  BY <1>1, <1>2, <1>3 DEF FilesInv

\* A request that ends, or holds a row or a policy it will write.
LEMMA Rests ==
  ASSUME TypeInv, FilesInv, NEW r \in Requests, NEW j, req' = [req EXCEPT ![r] = j],
         j.pc \in {"idle", "save", "remove", "cascade", "refold"},
         UNCHANGED <<versions, objects, uploads, acked>>
  PROVE  FilesInv'
<1>1. JobOK(j, objects, uploads) /\ j.pc \notin Writing
  BY IdleOK DEF Writing
<1>2. AckedOK(acked', versions)
  BY DEF FilesInv
<1> QED
  BY <1>1, <1>2, Moves

LEMMA EndsOK ==
  ASSUME TypeInv, FilesInv, NEW r \in Requests, Finish(r),
         UNCHANGED <<versions, objects, uploads, acked>>
  PROVE  FilesInv'
  BY Rests DEF Finish, Idle

LEMMA UploadOK ==
  ASSUME TypeInv, FilesInv, NoReencryption, NEW r \in Requests, NEW p \in Paths,
         NEW policy \in Policies \cup {NoPolicy}, NEW new, Upload(r, p, policy, new)
  PROVE  FilesInv'
<1>1. PICK f \in FileIds \cup {Nobody}, pol \in UploadPol(policy, p), num \in VersionNumbers :
        Start(r, "upload",
                   [Idle EXCEPT !.pc = "put", !.file = f, !.row.path = p, !.num = num,
                      !.phys = PhysicalName(p, num), !.pol = pol, !.policy = policy,
                      !.obj = Encrypt([data |-> uploads + 1, enc |-> <<>>],
                                      IF pol = NoPolicy THEN {} ELSE pol)])
  BY DEF Upload
<1> DEFINE name == PhysicalName(p, num)
           obj == Encrypt([data |-> uploads + 1, enc |-> <<>>], IF pol = NoPolicy THEN {} ELSE pol)
           j == [[Idle EXCEPT !.pc = "put", !.file = f, !.row.path = p, !.num = num,
                      !.phys = name, !.pol = pol, !.policy = policy, !.obj = obj]
                 EXCEPT !.op = "upload"]
<1>2. name.uuid = uploads + 1
  BY DEF PhysicalName, PlainName, NoReencryption
<1>3. obj.data = uploads + 1 /\ obj.enc = Sealed(pol)
  <2>1. Append(<<>>, pol) = <<pol>>
    OBVIOUS
  <2> QED
    BY <2>1 DEF Encrypt, Sealed
<1> HIDE DEF name, obj
<1>4. j.pc = "put" /\ j.phys = name /\ j.obj = obj /\ j.pol = pol
  BY IdleTyped DEF Idle
<1>5. req' = [req EXCEPT ![r] = j]
  BY <1>1 DEF Start, name, obj
<1> HIDE DEF j
<1>6. req'[r] = j /\ \A q \in Requests : q # r => req'[q] = req[q]
  BY <1>5 DEF TypeInv
<1>7. uploads \in Nat /\ uploads' = uploads + 1 /\ UNCHANGED <<versions, objects, acked>>
  BY Constants DEF Upload, TypeInv, TypeOK
<1>8. JobOK(j, objects, uploads')
  BY <1>2, <1>3, <1>4, <1>7 DEF JobOK, Assigns, Writing
<1>9. \A v \in versions : VersionOK(v, objects, uploads') /\ v.phys.uuid # obj.data
  <2>1. \A v \in versions : v.phys.uuid \in Nat
    BY Constants DEF TypeInv, TypeOK, Version, Name
  <2> QED
    BY <2>1, <1>3, <1>7 DEF FilesInv, VersionOK
<1>10. ASSUME NEW q \in Requests, q # r
       PROVE  JobOK(req[q], objects, uploads') /\ Apart(j, req[q]) /\ Apart(req[q], j)
  <2>1. req[q].obj.data \in Nat
    BY DEF TypeInv, Jobs, Job, Object
  <2>2. JobOK(req[q], objects, uploads)
    BY DEF FilesInv
  <2> QED
    BY <2>1, <2>2, <1>3, <1>4, <1>7 DEF JobOK, Apart
<1>11. Unnamed(j, versions)
  BY <1>4, <1>9 DEF Unnamed
<1> QED
  BY <1>6, <1>7, <1>8, <1>9, <1>10, <1>11 DEF FilesInv

LEMMA PutOK ==
  ASSUME TypeInv, FilesInv, NEW r \in Requests, UploadPut(r)
  PROVE  FilesInv'
<1> DEFINE k == req[r]
           j == [k EXCEPT !.pc = "row"]
<1>1. k \in Job
  BY DEF TypeInv, Jobs
<1>2. j.pc = "row" /\ j.phys = k.phys /\ j.obj = k.obj /\ j.pol = k.pol /\ k.pc = "put"
  BY <1>1 DEF Job, UploadPut, At
<1>3. req' = [req EXCEPT ![r] = j] /\ req'[r] = j /\ \A q \in Requests : q # r => req'[q] = req[q]
  BY DEF UploadPut, Goto, TypeInv
<1>4. objects' = With(objects, k.phys, k.obj) /\ UNCHANGED <<versions, uploads, acked>>
  BY DEF UploadPut
<1>5. JobOK(k, objects, uploads) /\ Unnamed(k, versions)
  BY DEF FilesInv
<1> HIDE DEF j, k
<1>6. JobOK(j, objects', uploads)
  BY <1>2, <1>4, <1>5 DEF JobOK, Assigns, Writing, With
<1>7. Unnamed(j, versions)
  BY <1>2, <1>5 DEF Unnamed, Writing
<1>8. \A v \in versions : VersionOK(v, objects', uploads)
  <2>1. \A v \in versions : v.phys # k.phys
    BY <1>2, <1>5 DEF Unnamed, JobOK, Writing
  <2> QED
    BY <2>1, <1>4 DEF FilesInv, VersionOK, With
<1>9. ASSUME NEW q \in Requests, q # r
      PROVE  JobOK(req[q], objects', uploads) /\ Apart(j, req[q]) /\ Apart(req[q], j)
  <2>1. JobOK(req[q], objects, uploads) /\ Apart(k, req[q]) /\ Apart(req[q], k)
    BY <1>9 DEF FilesInv, k
  <2>2. req[q].pc \in {"row", "version"} => req[q].phys # k.phys
    BY <1>2, <1>5, <2>1 DEF Apart, JobOK, Writing
  <2> QED
    BY <1>2, <1>4, <2>1, <2>2 DEF JobOK, Apart, Writing, With
<1>10. ObjectOK(objects')
  BY <1>2, <1>4, <1>5 DEF ObjectOK, With, FilesInv, JobOK, Writing
<1> QED
  BY <1>3, <1>4, <1>6, <1>7, <1>8, <1>9, <1>10 DEF FilesInv

LEMMA VersionStepOK ==
  ASSUME TypeInv, FilesInv, NEW r \in Requests, UploadVersion(r)
  PROVE  FilesInv'
<1> DEFINE k == req[r]
           new == [file |-> k.file, num |-> k.num, phys |-> k.phys, pol |-> k.pol]
           j == IF k.policy = NoPolicy THEN Idle ELSE [k EXCEPT !.pc = "link"]
<1>1. k \in Job /\ k.pc = "version"
  BY DEF TypeInv, Jobs, UploadVersion, At
<1>2. req' = [req EXCEPT ![r] = j]
  BY DEF UploadVersion, Finish, Goto
<1>3. req'[r] = j /\ \A q \in Requests : q # r => req'[q] = req[q]
  BY <1>2 DEF TypeInv
<1>4. versions' = versions \cup {new} /\ UNCHANGED <<objects, uploads>>
  BY DEF UploadVersion
<1>5. JobOK(k, objects, uploads) /\ Unnamed(k, versions)
  BY DEF FilesInv
<1>6. \A v \in versions : ~(v.file = k.file /\ v.num = k.num)
  BY DEF UploadVersion, VersionFits, VersionsOf
<1>7. acked' \subseteq acked \cup {[file |-> k.file, num |-> k.num, data |-> k.obj.data]}
  BY DEF UploadVersion, Ack
<1>8. j.pc \in {"idle", "link"}
      /\ (j.pc = "link" => j.phys = k.phys /\ j.obj = k.obj /\ j.pol = k.pol)
  BY <1>1 DEF Job, Idle
<1> HIDE DEF j, k
<1>9. JobOK(j, objects, uploads) /\ \A V : Unnamed(j, V)
  BY <1>1, <1>5, <1>8 DEF JobOK, Assigns, Writing, Unnamed
<1>10. k.obj = [data |-> k.obj.data, enc |-> k.obj.enc] /\ k.obj.data # 0
  BY <1>1 DEF Job, Object
<1>11. VersionOK(new, objects, uploads) /\ new.phys.uuid = k.obj.data
  BY <1>1, <1>5, <1>10 DEF VersionOK, JobOK, Writing
<1>12. Distinct(versions')
  <2>1. \A v \in versions : v.phys.uuid # new.phys.uuid
    BY <1>1, <1>5, <1>11 DEF Unnamed, Writing
  <2> QED
    BY <1>4, <1>6, <2>1 DEF Distinct, FilesInv
<1>13. AckedOK(acked', versions')
  BY <1>4, <1>7, <1>11 DEF AckedOK, FilesInv
<1>14. ASSUME NEW q \in Requests, q # r
       PROVE  JobOK(req[q], objects, uploads) /\ Unnamed(req[q], versions')
              /\ Apart(j, req[q]) /\ Apart(req[q], j)
  <2>1. Apart(k, req[q]) /\ Unnamed(req[q], versions) /\ JobOK(req[q], objects, uploads)
    BY <1>14 DEF FilesInv, k
  <2>2. Unnamed(req[q], versions')
    BY <1>1, <1>4, <1>11, <2>1 DEF Unnamed, Apart, Writing
  <2> QED
    BY <1>8, <2>1, <2>2 DEF Apart, Writing
<1> QED
  BY <1>3, <1>4, <1>9, <1>11, <1>12, <1>13, <1>14 DEF FilesInv

LEMMA UploadStepOK ==
  ASSUME TypeInv, FilesInv, NoReencryption, NEW r \in Requests, UploadStep(r)
  PROVE  FilesInv'
<1> DEFINE k == req[r]
<1>k. k \in Job /\ JobOK(k, objects, uploads)
  BY DEF TypeInv, Jobs, FilesInv
<1>a. AckedOK(acked, versions)
  BY DEF FilesInv
<1>1. CASE UploadRow(r)
  <2>1. PICK f : req' = [req EXCEPT ![r].pc = "version", ![r].file = f]
                 /\ k.pc = "row" /\ UNCHANGED <<versions, objects, uploads, acked>>
    BY <1>1 DEF UploadRow, At
  <2> DEFINE j == [k EXCEPT !.pc = "version", !.file = f]
  <2>2. req' = [req EXCEPT ![r] = j]
    BY <2>1 DEF TypeInv
  <2>3. j.pc = "version" /\ j.phys = k.phys /\ j.obj = k.obj /\ j.pol = k.pol
    BY <1>k DEF Job
  <2> HIDE DEF j, k
  <2>4. JobOK(j, objects, uploads)
    BY <1>k, <2>1, <2>3 DEF JobOK, Assigns, Writing
  <2> QED
    BY <1>a, <2>1, <2>2, <2>3, <2>4, Moves DEF Writing, k
<1>2. CASE UploadLink(r)
  <2>1. AckedOK(acked', versions)
    <3>1. CASE Kept(r)
      <4>1. PICK v \in VersionsOf(k.file) : v.num = k.num /\ v.phys.uuid = k.phys.uuid
        BY <3>1 DEF Kept
      <4>2. v \in versions /\ v.file = k.file /\ v.phys.uuid = k.obj.data
        BY <1>2, <1>k, <4>1 DEF VersionsOf, UploadLink, At, JobOK
      <4> QED
        BY <1>2, <1>a, <3>1, <4>1, <4>2 DEF UploadLink, Ack, AckedOK
    <3>2. CASE ~Kept(r)
      BY <1>2, <1>a, <3>2 DEF UploadLink
    <3> QED
      BY <3>1, <3>2
  <2>2. JobOK(Idle, objects, uploads) /\ Idle.pc \notin Writing
    BY IdleOK DEF Idle, Writing
  <2> QED
    BY <1>2, <2>1, <2>2, Moves DEF UploadLink, Finish
<1>3. CASE UploadRowGone(r) \/ UploadVersionTaken(r) \/ UploadLinkTaken(r)
  BY <1>3, EndsOK DEF UploadRowGone, UploadVersionTaken, UploadLinkTaken, Refuse
<1> QED
  BY <1>1, <1>2, <1>3, UploadOK, PutOK, VersionStepOK DEF UploadStep

\* Deletion removes an object named by a path only, and the uploads with the versions.
LEMMA RemoveOK ==
  ASSUME TypeInv, FilesInv, NEW r \in Requests, RemoveObject(r) \/ CommitRemoval(r)
  PROVE  FilesInv'
<1> DEFINE j == IF RemoveObject(r) /\ req[r].file \in DOMAIN rows THEN [req[r] EXCEPT !.pc = "cascade"] ELSE Idle
<1>1. /\ req' = [req EXCEPT ![r] = j]
      /\ \/ UNCHANGED objects
         \/ objects' = Without(objects, {PlainName(req[r].row.path)})
      /\ UNCHANGED uploads
  BY DEF RemoveObject, CommitRemoval, Goto, Finish, At
<1>2. j.pc \in {"idle", "cascade"}
  BY DEF TypeInv, Jobs, Job, Idle
<1> HIDE DEF j
<1>3. ASSUME NEW n \in DOMAIN objects, n.uuid # 0
      PROVE  n \in DOMAIN objects' /\ objects'[n] = objects[n]
  BY <1>1, <1>3 DEF Without, PlainName
<1>4. /\ versions' \subseteq versions
      /\ \A a \in acked' : a \in acked /\ \A v \in versions : v.file = a.file => v \in versions'
  BY DEF RemoveObject, CommitRemoval, VersionsOf
<1>5. ASSUME NEW q \in Requests
      PROVE  JobOK(req'[q], objects', uploads) /\ Unnamed(req'[q], versions')
  <2>1. JobOK(req[q], objects, uploads) /\ Unnamed(req[q], versions)
    BY DEF FilesInv
  <2>2. req[q].obj.data # 0
    BY DEF TypeInv, Jobs, Job, Object
  <2>3. JobOK(req[q], objects', uploads) /\ Unnamed(req[q], versions')
    BY <1>3, <1>4, <2>1, <2>2 DEF JobOK, Unnamed, Writing
  <2>4. req'[q] = j \/ req'[q] = req[q]
    BY <1>1 DEF TypeInv
  <2> QED
    BY <1>2, <2>3, <2>4, IdleOK
<1>6. ASSUME NEW q \in Requests, NEW p \in Requests, p # q PROVE Apart(req'[p], req'[q])
  <2>1. Apart(req[p], req[q])
    BY <1>6 DEF FilesInv
  <2>2. (req'[q] = j \/ req'[q] = req[q]) /\ (req'[p] = j \/ req'[p] = req[p])
    BY <1>1 DEF TypeInv
  <2> QED
    BY <1>2, <2>1, <2>2 DEF Apart, Writing
<1>7. ASSUME NEW v \in versions' PROVE VersionOK(v, objects', uploads)
  BY <1>3, <1>4 DEF FilesInv, VersionOK
<1>8. AckedOK(acked', versions')
  BY <1>4 DEF AckedOK, FilesInv
<1>9. Distinct(versions')
  BY <1>4 DEF Distinct, FilesInv
<1>10. ObjectOK(objects')
  BY <1>1 DEF ObjectOK, Without, FilesInv
<1> QED
  BY <1>1, <1>5, <1>6, <1>7, <1>8, <1>9, <1>10 DEF FilesInv

LEMMA RowStepOK ==
  ASSUME TypeInv, FilesInv, NEW r \in Requests, RowStep(r)
  PROVE  FilesInv'
<1>1. ASSUME NEW f \in DOMAIN rows, ListVersions(r, f) PROVE FilesInv'
  <2>1. PICK pol :
          versions' = versions \cup {[file |-> f, num |-> 1, phys |-> PlainName(rows[f].path), pol |-> pol]}
    BY <1>1 DEF ListVersions
  <2> DEFINE new == [file |-> f, num |-> 1, phys |-> PlainName(rows[f].path), pol |-> pol]
  <2>2. new.phys.uuid = 0 /\ new.file = f
    BY DEF PlainName
  <2>3. \A v \in versions : v.file # f
    BY <1>1 DEF ListVersions, VersionsOf
  <2> HIDE DEF new
  <2>4. versions' = versions \cup {new} /\ UNCHANGED <<objects, req, uploads, acked>>
    BY <1>1, <2>1 DEF ListVersions, new
  <2>5. VersionOK(new, objects, uploads)
    BY <2>2, Constants DEF VersionOK, TypeInv, TypeOK
  <2>6. Distinct(versions')
    BY <2>2, <2>3, <2>4 DEF Distinct, FilesInv
  <2>7. ASSUME NEW q \in Requests PROVE Unnamed(req[q], versions')
    <3>1. req[q].obj.data # 0 /\ Unnamed(req[q], versions)
      BY DEF TypeInv, Jobs, Job, Object, FilesInv
    <3> QED
      BY <2>2, <2>4, <3>1 DEF Unnamed
  <2>8. AckedOK(acked', versions')
    BY <2>4 DEF AckedOK, FilesInv
  <2> QED
    BY <2>4, <2>5, <2>6, <2>7, <2>8 DEF FilesInv
<1>2. ASSUME NEW op, NEW f, NEW d, NEW row, ReadRow(r, op, f, d, row) PROVE FilesInv'
  <2> DEFINE j == [[Idle EXCEPT !.pc = "save", !.file = f, !.row = row] EXCEPT !.op = op]
  <2>1. j.pc = "save"
    BY DEF Idle
  <2>2. req' = [req EXCEPT ![r] = j] /\ UNCHANGED <<versions, objects, uploads, acked>>
    BY <1>2 DEF ReadRow, Start
  <2> HIDE DEF j
  <2> QED
    BY <2>1, <2>2, Rests
<1>3. ASSUME NEW f \in DOMAIN rows, TrashByPath(r, f) PROVE FilesInv'
  BY <1>3 DEF TrashByPath, FilesInv
<1>4. ASSUME NEW f \in DOMAIN rows, HardDelete(r, f) \/ Destroy(r, f) PROVE FilesInv'
  <2>1. PICK op, d : Delete(r, op, f, d)
    BY <1>4 DEF HardDelete, Destroy
  <2> DEFINE j == [[Idle EXCEPT !.pc = "remove", !.file = f, !.row = rows[f]] EXCEPT !.op = op]
  <2>2. j.pc = "remove"
    BY DEF Idle
  <2>3. req' = [req EXCEPT ![r] = j] /\ UNCHANGED <<versions, objects, uploads, acked>>
    BY <2>1 DEF Delete, Start
  <2> HIDE DEF j
  <2> QED
    BY <2>2, <2>3, Rests
<1>5. CASE SaveRow(r)
  BY <1>5, EndsOK DEF SaveRow
<1>6. ASSUME NEW f \in DOMAIN rows, SignUrl(r, f) \/ MoveToTrash(r, f) \/ Restore(r, f) PROVE FilesInv'
  BY <1>2, <1>6 DEF SignUrl, MoveToTrash, Restore
<1>7. ASSUME NEW f \in DOMAIN rows, NEW p \in Paths, Rename(r, f, p) PROVE FilesInv'
  BY <1>2, <1>7 DEF Rename, RenameTo
<1> QED
  BY <1>1, <1>3, <1>4, <1>5, <1>6, <1>7, RemoveOK DEF RowStep

LEMMA LinkStepOK ==
  ASSUME TypeInv, FilesInv, NEW r \in Requests, LinkStep(r)
  PROVE  FilesInv'
<1>1. ASSUME NEW l \in links, RemovePolicy(r, l) PROVE FilesInv'
  BY <1>1 DEF RemovePolicy, FilesInv
<1>2. ASSUME NEW q \in Policies, FolderPolicy(r, q) PROVE FilesInv'
  BY <1>2 DEF FolderPolicy, FilesInv
<1>3. ASSUME NEW q \in Policies, DropFolder(r, q) PROVE FilesInv'
  <2> DEFINE j == [[Idle EXCEPT !.pc = "refold", !.policy = q] EXCEPT !.op = "folder_policy"]
  <2>1. j.pc = "refold"
    BY DEF Idle
  <2>2. req' = [req EXCEPT ![r] = j] /\ UNCHANGED <<versions, objects, uploads, acked>>
    BY <1>3 DEF DropFolder, Start
  <2> HIDE DEF j
  <2> QED
    BY <2>1, <2>2, Rests
<1>4. CASE AssignFolder(r)
  BY <1>4, EndsOK DEF AssignFolder
<1> QED
  BY <1>1, <1>2, <1>3, <1>4 DEF LinkStep

\* Nobody assigns, or nothing is encrypted.
LEMMA Plain ==
  ASSUME TypeInv, NoReencryption, "assign" \in Ops
  PROVE  /\ AbePolicies = {}
         /\ \A pol \in Policy : Sealed(pol) = <<>>
         /\ \A obj \in Object : obj.enc = <<>> /\ obj = [data |-> obj.data, enc |-> <<>>]
<1>1. AbePolicies = {}
  BY DEF NoReencryption
<1>2. \A pol \in Policy : Sealed(pol) = <<>>
  BY <1>1 DEF Policy, Sealed
<1>3. ASSUME NEW obj \in Object PROVE obj.enc = <<>> /\ obj = [data |-> obj.data, enc |-> <<>>]
  <2>1. obj.enc \in Seq({})
    BY <1>1 DEF Object
  <2>2. obj.enc = <<>>
    <3>1. Len(obj.enc) \in Nat
      BY <2>1, LenProperties
    <3>2. Len(obj.enc) = 0
      <4>1. CASE 1 \in 1..Len(obj.enc)
        <5>1. obj.enc[1] \in {}
          BY <2>1, <4>1, ElementOfSeq
        <5> QED
          BY <5>1
      <4>2. CASE 1 \notin 1..Len(obj.enc)
        BY <3>1, <4>2
      <4> QED
        BY <4>1, <4>2
    <3>3. \A seq \in Seq({}) : seq # <<>> => Len(seq) \in Nat \ {0}
      BY EmptySeq
    <3> QED
      BY <2>1, <3>2, <3>3
  <2> QED
    BY <2>2 DEF Object
<1> QED
  BY <1>1, <1>2, <1>3

\* It reads the object of the latest version, and will write it under a name of the same uuid.
LEMMA AssignOK ==
  ASSUME TypeInv, FilesInv, NoReencryption, NEW r \in Requests, NEW p \in Paths,
         NEW policy \in Policies, NEW replace \in BOOLEAN, AssignPolicy(r, p, policy, replace)
  PROVE  FilesInv'
<1>a. "assign" \in Ops
  BY DEF AssignPolicy, May
<1>1. PICK f \in DOMAIN rows :
         LET linked == PoliciesOf(f) \cap AbePolicies
             none == VersionsOf(f) = {}
             phys == IF none THEN PlainName(p) ELSE (CHOOSE v \in versions : IsLatest(v, f)).phys
             pol == IF none THEN NoPolicy ELSE (CHOOSE v \in versions : IsLatest(v, f)).pol
             num == IF none THEN 0 ELSE (CHOOSE v \in versions : IsLatest(v, f)).num
             newPol == IF replace \/ linked = {} THEN ChosenPol(policy)
                                                 ELSE linked \cup ChosenPol(policy)
             reencrypt == replace \/ policy \in AbePolicies
             bytes == IF linked = {} THEN objects[phys] ELSE Decrypt(objects[phys], Applied(pol, p))
         IN  /\ reencrypt => phys \in DOMAIN objects /\ bytes # Refused
             /\ Start(r, "assign",
                  [Idle EXCEPT !.pc = IF replace THEN "drop" ELSE "assign", !.file = f,
                     !.policy = policy, !.num = num, !.pol = IF reencrypt THEN newPol ELSE NoPolicy,
                     !.phys = ReencryptedName(phys),
                     !.obj = IF reencrypt THEN Encrypt(bytes, newPol) ELSE @])
  BY DEF AssignPolicy
<1> DEFINE linked == PoliciesOf(f) \cap AbePolicies
           none == VersionsOf(f) = {}
           latest == CHOOSE v \in versions : IsLatest(v, f)
           phys == IF none THEN PlainName(p) ELSE latest.phys
           pol == IF none THEN NoPolicy ELSE latest.pol
           num == IF none THEN 0 ELSE latest.num
           newPol == IF replace \/ linked = {} THEN ChosenPol(policy) ELSE linked \cup ChosenPol(policy)
           reencrypt == replace \/ policy \in AbePolicies
           bytes == IF linked = {} THEN objects[phys] ELSE Decrypt(objects[phys], Applied(pol, p))
           obj == IF reencrypt THEN Encrypt(bytes, newPol) ELSE Idle.obj
           pc == IF replace THEN "drop" ELSE "assign"
           written == IF reencrypt THEN newPol ELSE NoPolicy
           name == ReencryptedName(phys)
           j == [[Idle EXCEPT !.pc = pc, !.file = f, !.policy = policy, !.num = num,
                     !.pol = written, !.phys = name, !.obj = obj] EXCEPT !.op = "assign"]
<1>2. reencrypt => phys \in DOMAIN objects
  BY <1>1
<1>3. req' = [req EXCEPT ![r] = j]
  BY <1>1 DEF Start
<1>4. name.uuid = phys.uuid
  <2>1. phys \in Name
    <3>1. CASE none
      BY <3>1, PlainTyped
    <3>2. CASE ~none
      <4>1. latest \in versions
        BY <3>2, LatestExists DEF TypeInv, TypeOK
      <4> HIDE DEF latest
      <4> QED
        BY <3>2, <4>1 DEF TypeInv, TypeOK, Version
    <3> QED
      BY <3>1, <3>2
  <2> HIDE DEF phys
  <2> QED
    BY <2>1 DEF ReencryptedName, Name
<1>5. reencrypt => obj = objects[phys]
  <2>1. AbePolicies = {} /\ policy # NoPolicy
    BY <1>a, Plain, Constants
  <2>2. linked = {} /\ newPol = {}
    BY <2>1 DEF ChosenPol
  <2> HIDE DEF linked, newPol, phys
  <2> QED
    BY <2>2 DEF Encrypt
<1>6. written # NoPolicy /\ phys.uuid # 0 => obj.data = phys.uuid
  <2> HIDE DEF phys, obj, newPol, reencrypt
  <2> QED
    BY <1>2, <1>5 DEF FilesInv, ObjectOK
<1>7. j.pc = pc /\ j.phys = name /\ j.obj = obj /\ j.pol = written
  BY DEF Idle
<1> HIDE DEF phys, obj, written, name, j
<1>8. JobOK(j, objects, uploads) /\ j.pc \notin Writing
  BY <1>a, <1>4, <1>6, <1>7 DEF JobOK, Writing, Assigns
<1>9. UNCHANGED <<versions, objects, uploads>> /\ AckedOK(acked', versions)
  BY DEF AssignPolicy, FilesInv
<1> QED
  BY <1>3, <1>8, <1>9, Moves

LEMMA AssignPutOK ==
  ASSUME TypeInv, FilesInv, NoReencryption, NEW r \in Requests, AssignPut(r)
  PROVE  FilesInv'
<1> DEFINE k == req[r]
           j == [k EXCEPT !.pc = "resave"]
<1>1. k \in Job /\ k.pc = "reput" /\ JobOK(k, objects, uploads)
  BY DEF TypeInv, Jobs, AssignPut, At, FilesInv
<1>2. "assign" \in Ops
  BY <1>1 DEF JobOK, Assigns
<1>3. j.pc = "resave" /\ j.phys = k.phys
  BY <1>1 DEF Job
<1>4. req'[r] = j /\ \A q \in Requests : q # r => req'[q] = req[q]
  BY DEF AssignPut, Goto, TypeInv
<1>5. objects' = With(objects, k.phys, k.obj) /\ UNCHANGED <<versions, uploads, acked>>
  BY DEF AssignPut
<1>6. k.phys.uuid # 0 => k.obj.data = k.phys.uuid
  BY <1>1 DEF JobOK
<1> HIDE DEF j, k
<1>7. ObjectOK(objects')
  BY <1>5, <1>6 DEF ObjectOK, With, FilesInv
<1>8. ASSUME NEW m \in DOMAIN objects, m.uuid # 0
      PROVE  m \in DOMAIN objects' /\ objects'[m] = objects[m]
  <2>1. CASE m = k.phys
    <3>1. objects[m] \in Object /\ k.obj \in Object
      BY <1>1 DEF TypeInv, TypeOK, Job
    <3>2. objects[m].data = k.obj.data
      BY <1>6, <1>8, <2>1 DEF FilesInv, ObjectOK
    <3>3. objects[m] = k.obj
      BY <1>2, <3>1, <3>2, Plain
    <3> QED
      BY <1>5, <2>1, <3>3 DEF With
  <2>2. CASE m # k.phys
    BY <1>5, <2>2 DEF With
  <2> QED
    BY <2>1, <2>2
<1>9. JobOK(j, objects', uploads) /\ Unnamed(j, versions)
  BY <1>2, <1>3, <1>5 DEF JobOK, Unnamed, Assigns, Writing, With
<1>10. \A v \in versions : VersionOK(v, objects', uploads)
  BY <1>8 DEF FilesInv, VersionOK
<1>11. ASSUME NEW q \in Requests, q # r
       PROVE  JobOK(req[q], objects', uploads) /\ Apart(j, req[q]) /\ Apart(req[q], j)
  <2>1. JobOK(req[q], objects, uploads) /\ req[q].obj.data # 0
    BY DEF FilesInv, TypeInv, Jobs, Job, Object
  <2>2. JobOK(req[q], objects', uploads)
    BY <1>8, <2>1 DEF JobOK, Writing
  <2> QED
    BY <1>3, <2>2 DEF Apart, Writing
<1> QED
  BY <1>4, <1>5, <1>7, <1>9, <1>10, <1>11 DEF FilesInv

\* The version it changes keeps its file, number and uuid.
LEMMA AssignSaveOK ==
  ASSUME TypeInv, FilesInv, NoReencryption, NEW r \in Requests, AssignSaveVersion(r)
  PROVE  FilesInv'
<1> DEFINE k == req[r]
           old == {v \in VersionsOf(k.file) : v.num = k.num /\ v.phys.uuid = k.phys.uuid}
           Changed(v) == [v EXCEPT !.phys = k.phys, !.pol = k.pol]
<1>1. k \in Job /\ k.pc = "resave" /\ JobOK(k, objects, uploads)
  BY DEF TypeInv, Jobs, AssignSaveVersion, At, FilesInv
<1>2. "assign" \in Ops
  BY <1>1 DEF JobOK, Assigns
<1>3. req' = [req EXCEPT ![r] = Idle]
  BY DEF AssignSaveVersion, Finish
<1>4. req'[r] = Idle /\ \A q \in Requests : q # r => req'[q] = req[q]
  BY <1>3 DEF TypeInv
<1>5. versions' = (versions \ old) \cup {Changed(v) : v \in old}
      /\ UNCHANGED <<objects, uploads, acked>>
  BY DEF AssignSaveVersion
<1>6. ASSUME NEW v \in old
      PROVE  /\ v \in versions /\ Changed(v).file = v.file /\ Changed(v).num = v.num
             /\ Changed(v).phys = k.phys /\ Changed(v).pol = k.pol
             /\ k.phys.uuid = v.phys.uuid
  BY DEF VersionsOf, TypeInv, TypeOK, Version
<1>7. ASSUME NEW w \in versions'
      PROVE  \E v \in versions : /\ w.file = v.file /\ w.num = v.num /\ w.phys.uuid = v.phys.uuid
                                 /\ w = IF v \in old THEN Changed(v) ELSE v
  BY <1>5, <1>6
<1> HIDE DEF old, Changed, k
<1>8. ASSUME NEW v \in versions
      PROVE  \E w \in versions' : w.file = v.file /\ w.num = v.num /\ w.phys.uuid = v.phys.uuid
  BY <1>5, <1>6
<1>9. \A w \in versions' : VersionOK(w, objects, uploads)
  <2>1. ASSUME NEW v \in old PROVE VersionOK(Changed(v), objects, uploads)
    <3>1. VersionOK(v, objects, uploads)
      BY <1>6 DEF FilesInv
    <3>2. k.pol \in Policy
      BY <1>1 DEF Job
    <3>3. ASSUME k.phys.uuid # 0
          PROVE  k.phys \in DOMAIN objects
                 /\ objects[k.phys] = [data |-> k.phys.uuid, enc |-> Sealed(k.pol)]
      <4>1. k.phys \in DOMAIN objects /\ objects[k.phys].data = k.phys.uuid
        BY <1>1, <3>3 DEF JobOK, FilesInv, ObjectOK
      <4>2. objects[k.phys] \in Object
        BY <4>1 DEF TypeInv, TypeOK
      <4> QED
        BY <1>2, <3>2, <4>1, <4>2, Plain
    <3> QED
      BY <1>6, <3>1, <3>3 DEF VersionOK
  <2> QED
    BY <1>5, <2>1 DEF FilesInv
<1>10. Distinct(versions')
  BY <1>7 DEF Distinct, FilesInv
<1>11. AckedOK(acked', versions')
  BY <1>5, <1>8 DEF AckedOK, FilesInv
<1>12. ASSUME NEW q \in Requests
       PROVE  JobOK(req'[q], objects, uploads) /\ Unnamed(req'[q], versions')
  <2>1. CASE q = r
    BY <1>4, <2>1, IdleOK DEF Idle
  <2>2. CASE q # r
    BY <1>4, <1>7, <2>2 DEF FilesInv, Unnamed
  <2> QED
    BY <2>1, <2>2
<1>13. ASSUME NEW q \in Requests, NEW s \in Requests, q # s PROVE Apart(req'[q], req'[s])
  <2>1. Idle.pc \notin Writing
    BY DEF Idle, Writing
  <2> QED
    BY <1>4, <1>13, <2>1 DEF FilesInv, Apart
<1> QED
  BY <1>5, <1>9, <1>10, <1>11, <1>12, <1>13 DEF FilesInv

LEMMA AssignStepOK ==
  ASSUME TypeInv, FilesInv, NoReencryption, NEW r \in Requests, AssignStep(r)
  PROVE  FilesInv'
<1> DEFINE k == req[r]
<1>k. k \in Job /\ JobOK(k, objects, uploads)
  BY DEF TypeInv, Jobs, FilesInv
<1>a. AckedOK(acked, versions)
  BY DEF FilesInv
<1>m. ASSUME NEW pc \in {"assign", "reput"}, Goto(r, pc), k.pc \in {"drop", "assign"},
             pc = "reput" => k.pol # NoPolicy,
             UNCHANGED <<versions, objects, uploads, acked>>
      PROVE  FilesInv'
  <2> DEFINE j == [k EXCEPT !.pc = pc]
  <2>1. j.pc = pc /\ j.phys = k.phys /\ j.obj = k.obj /\ j.pol = k.pol
    BY <1>k DEF Job
  <2>2. req' = [req EXCEPT ![r] = j]
    BY <1>m DEF Goto
  <2> HIDE DEF j
  <2>3. JobOK(j, objects, uploads) /\ j.pc \notin Writing
    BY <1>k, <1>m, <2>1 DEF JobOK, Assigns, Writing
  <2> QED
    BY <1>a, <1>m, <2>2, <2>3, Moves
<1>1. CASE AssignDropLinks(r)
  BY <1>1, <1>m DEF AssignDropLinks, At
<1>2. CASE AssignLink(r)
  BY <1>2, <1>m, EndsOK DEF AssignLink, At
<1>3. CASE AssignLinkTaken(r)
  BY <1>3, EndsOK DEF AssignLinkTaken, Refuse
<1> QED
  BY <1>1, <1>2, <1>3, AssignOK, AssignPutOK, AssignSaveOK DEF AssignStep

LEMMA FilesStep == ASSUME NoReencryption PROVE TypeInv /\ FilesInv /\ [Next]_vars => FilesInv'
<1> SUFFICES ASSUME TypeInv, FilesInv, [Next]_vars PROVE FilesInv'
  OBVIOUS
<1>1. ASSUME NEW r \in Requests, Fail(r) PROVE FilesInv'
  BY <1>1, EndsOK DEF Fail
<1>2. CASE Tick \/ UNCHANGED vars
  BY <1>2 DEF Tick, vars, FilesInv
<1> QED
  BY <1>1, <1>2, UploadStepOK, RowStepOK, LinkStepOK, AssignStepOK DEF Next

LEMMA FilesInvariant == ASSUME NoReencryption PROVE Spec => [](TypeInv /\ FilesInv)
<1>1. Init => TypeInv /\ FilesInv
  BY TypeInit, FilesInit
<1>2. TypeInv /\ FilesInv /\ [Next]_vars => (TypeInv /\ FilesInv)'
  BY TypeStep, FilesStep
<1> QED
  BY <1>1, <1>2, PTL DEF Spec

\* The version of an acknowledged upload, and the object it names.
LEMMA AckedVersion ==
  ASSUME TypeInv, FilesInv, NEW a \in acked
  PROVE  \E v \in versions :
            /\ v.file = a.file /\ v.num = a.num /\ v.phys.uuid = a.data /\ a.data # 0
            /\ v.phys \in DOMAIN objects
            /\ objects[v.phys] = [data |-> a.data, enc |-> Sealed(v.pol)]
<1>1. PICK v \in versions : v.file = a.file /\ v.num = a.num /\ v.phys.uuid = a.data
  BY DEF FilesInv, AckedOK
<1>2. a.data # 0
  BY DEF TypeInv, TypeOK
<1> QED
  BY <1>1, <1>2 DEF FilesInv, VersionOK

\* What decrypts with the policy it was encrypted under is what it was.
LEMMA Opened ==
  ASSUME NEW data, NEW pol \in Policy, NEW p
  PROVE  Decrypt([data |-> data, enc |-> Sealed(pol)], Applied(pol, p)) = [data |-> data, enc |-> <<>>]
<1>1. CASE pol \in {NoPolicy, {}}
  BY <1>1 DEF Decrypt, Sealed
<1>2. CASE pol \notin {NoPolicy, {}}
  <2> DEFINE obj == [data |-> data, enc |-> <<pol>>]
  <2>1. Sealed(pol) = <<pol>> /\ Applied(pol, p) = pol /\ pol # {} /\ pol \cap pol # {}
    BY <1>2 DEF Sealed, Applied, Policy
  <2>2. obj.enc = <<pol>> /\ Len(obj.enc) = 1 /\ obj.enc # <<>> /\ obj.enc[1] = pol
    OBVIOUS
  <2>3. SubSeq(<<pol>>, 1, 1 - 1) = <<>>
    BY SubSeqEmpty
  <2>4. Decrypt(obj, pol) = [obj EXCEPT !.enc = SubSeq(@, 1, 1 - 1)]
    BY <2>1, <2>2 DEF Decrypt
  <2> QED
    BY <2>1, <2>3, <2>4
<1> QED
  BY <1>1, <1>2

\* Unless a file is encrypted again by an assignment, an upload answered 201 can be downloaded
\* as the version it became, whatever else happens (StorageViewSet.download).
THEOREM ReadableCorrect == ASSUME NoReencryption PROVE Spec => []AckedReadable
<1>1. ASSUME TypeInv, FilesInv, NEW a \in acked
      PROVE  \E v \in versions : v.file = a.file /\ v.num = a.num
                                 /\ Served(v) = [data |-> a.data, enc |-> <<>>]
  <2>1. PICK v \in versions :
            /\ v.file = a.file /\ v.num = a.num
            /\ v.phys \in DOMAIN objects
            /\ objects[v.phys] = [data |-> a.data, enc |-> Sealed(v.pol)]
    BY <1>1, AckedVersion
  <2>2. v.pol \in Policy
    BY <1>1 DEF TypeInv, TypeOK, Version
  <2>3. Served(v) = [data |-> a.data, enc |-> <<>>]
    BY <2>1, <2>2, Opened DEF Served
  <2> QED
    BY <2>1, <2>3
<1>2. TypeInv /\ FilesInv => AckedReadable
  BY <1>1 DEF AckedReadable
<1> QED
  BY <1>2, FilesInvariant, PTL

\* The version record of an acknowledged upload is unique, so AckedVersion speaks of it.
LEMMA AckedUnique ==
  ASSUME TypeInv, FilesInv, NEW v \in Acked
  PROVE  /\ v \in versions /\ v.phys.uuid # 0
         /\ v.phys \in DOMAIN objects
         /\ objects[v.phys].enc = Sealed(v.pol)
<1>1. PICK a \in acked : v \in versions /\ a.file = v.file /\ a.num = v.num
  BY DEF Acked
<1>2. PICK w \in versions :
            /\ w.file = a.file /\ w.num = a.num /\ w.phys.uuid = a.data /\ a.data # 0
            /\ w.phys \in DOMAIN objects
            /\ objects[w.phys] = [data |-> a.data, enc |-> Sealed(w.pol)]
  BY AckedVersion
<1>3. w = v
  BY <1>1, <1>2 DEF FilesInv, Distinct
<1> QED
  BY <1>1, <1>2, <1>3

\* Under the same condition no two versions share an object if one is acknowledged (upload's uuid).
THEOREM OwnCorrect == ASSUME NoReencryption PROVE Spec => []OwnObject
<1>1. TypeInv /\ FilesInv => OwnObject
  BY AckedUnique DEF OwnObject, FilesInv, Distinct
<1> QED
  BY <1>1, FilesInvariant, PTL

\* Under the same condition a version records the policy its object is encrypted under.
THEOREM RecordCorrect == ASSUME NoReencryption PROVE Spec => []VersionRecordsPolicy
<1>1. TypeInv /\ FilesInv => VersionRecordsPolicy
  BY AckedUnique DEF VersionRecordsPolicy, Sealed
<1> QED
  BY <1>1, FilesInvariant, PTL

(***************************************************************************)
(* One request at a time, with paths in the clear.  An object is named by  *)
(* its path, the number of its version and the second it was last          *)
(* encrypted in, so a file's versions have names of their own as long as   *)
(* the file keeps its path; and a version is encrypted for the policies    *)
(* linked to its file, which the next assignment and the next upload go    *)
(* by.  Each needs the other: an assignment that misjudges an object       *)
(* leaves it encrypted twice, or not at all.                               *)
(***************************************************************************)
\* The conditions of files_serial, but for its bounds and its handlers that fail.
OneByOne ==
    /\ \E r : Requests = {r}
    /\ ~FieldEncryption
    /\ Ops \cap {"rename", "remove_policy", "folder_policy"} = {}
    /\ "assign" \notin Failing

Linked(f) == PoliciesOf(f) \cap AbePolicies

\* What a file with these policies has its newest version encrypted under.
Fits(pol, linked) == IF linked = {} THEN pol \in {NoPolicy, {}} ELSE pol \in (SUBSET linked) \ {{}}

NamedFor(name, path, num) == name.path = path /\ name.num = num /\ name.uuid = 0

TablesOK ==
    /\ folder = {}
    /\ \A f, g \in DOMAIN rows : rows[f].path = rows[g].path => f = g
    /\ \A f \in DOMAIN rows : f <= uploads
    /\ \A l \in links : l.file \in DOMAIN rows
    /\ \A v \in versions : /\ v.file \in DOMAIN rows
                           /\ NamedFor(v.phys, rows[v.file].path, v.num)
    /\ \A u, v \in versions : u.file = v.file /\ u.num = v.num => u = v

\* Acknowledged bytes are where their version says, and encrypted as it says, but while
\* an assignment has written the object and not yet the version.
HeldOK(j) ==
    \A a \in acked : \E v \in versions :
        /\ v.file = a.file /\ v.num = a.num
        /\ v.phys \in DOMAIN objects /\ objects[v.phys].data = a.data
        /\ \/ objects[v.phys].enc = Sealed(v.pol)
           \/ j.pc = "resave" /\ j.file = a.file /\ j.num = a.num

Reencrypts(j, f) == j.pc \in Assigns /\ j.file = f /\ j.pol # NoPolicy

FollowedOK(j) ==
    \A v \in Acked : IsLatest(v, v.file) /\ ~Reencrypts(j, v.file) => Fits(v.pol, Linked(v.file))

UploadJobOK(j) ==
    /\ j.pc \in Writing \cup {"link"} =>
        /\ j.obj.enc = Sealed(j.pol)
        /\ NamedFor(j.phys, j.row.path, j.num)
        /\ Fits(j.pol, (PoliciesOf(j.file) \cup {j.policy}) \cap AbePolicies)
        /\ j.file \in DOMAIN rows => rows[j.file].path = j.row.path
    /\ j.pc \in {"put", "row"} /\ j.file = Nobody =>
        /\ j.obj.data <= uploads
        /\ \A f \in DOMAIN rows : f < j.obj.data /\ rows[f].path # j.row.path
    /\ j.pc \in {"put", "row"} => j.file \in DOMAIN rows \cup {Nobody}
    /\ j.pc \in {"version", "link"} => j.file \in DOMAIN rows
    /\ j.pc \in Writing => \A v \in VersionsOf(j.file) : v.num < j.num
    /\ j.pc \in {"row", "version", "link"} => j.phys \in DOMAIN objects /\ objects[j.phys] = j.obj
    /\ j.pc = "link" =>
        /\ [file |-> j.file, num |-> j.num, phys |-> j.phys, pol |-> j.pol] \in versions
        /\ \A v \in VersionsOf(j.file) : v.num <= j.num
        /\ \A a \in acked : a.file = j.file => a.num # j.num

AssignJobOK(j) ==
    /\ j.pc \in Assigns =>
        /\ j.op = "assign" /\ j.file \in DOMAIN rows
        /\ j.phys.path = rows[j.file].path /\ j.phys.uuid = 0
        /\ IF j.num = 0 THEN VersionsOf(j.file) = {}
           ELSE j.phys.num = j.num /\ \E v \in versions : IsLatest(v, j.file) /\ v.num = j.num
        /\ j.pol # NoPolicy => \A a \in acked : a.file = j.file /\ a.num = j.num =>
              j.obj = [data |-> a.data, enc |-> Sealed(j.pol)]
    /\ j.pc \in {"drop", "reput", "resave"} => j.pol # NoPolicy
    /\ j.pc = "drop" => j.pol = {j.policy} \cap AbePolicies
    /\ j.pc = "assign" =>
        /\ j.policy \notin PoliciesOf(j.file)
        /\ IF j.pol = NoPolicy THEN j.policy \notin AbePolicies
           ELSE j.pol = (PoliciesOf(j.file) \cup {j.policy}) \cap AbePolicies
    /\ j.pc \in {"reput", "resave"} => j.pol = Linked(j.file)
    /\ j.pc = "resave" => j.phys \in DOMAIN objects /\ objects[j.phys] = j.obj

SaveJobOK(j) ==
    /\ j.pc \in {"save", "remove", "cascade"} =>
          j.file \in DOMAIN rows /\ rows[j.file].path = j.row.path
    /\ j.pc # "refold"

ClearJobOK(j) == HeldOK(j) /\ FollowedOK(j) /\ UploadJobOK(j) /\ AssignJobOK(j) /\ SaveJobOK(j)

ClearInv == TablesOK /\ \A r \in Requests : ClearJobOK(req[r])

LEMMA ClearInit == ASSUME OneByOne PROVE Init => ClearInv
  BY DEF Init, ClearInv, ClearJobOK, TablesOK, HeldOK, FollowedOK, UploadJobOK, AssignJobOK, SaveJobOK,
         Acked, NoEntries, Idle, Writing, Assigns

\* What holds before a step of the only request.
LEMMA Before ==
  ASSUME TypeInv, ClearInv, NEW r \in Requests
  PROVE  /\ req[r] \in Job /\ req[r] \in Jobs /\ TablesOK
         /\ HeldOK(req[r]) /\ FollowedOK(req[r])
         /\ UploadJobOK(req[r]) /\ AssignJobOK(req[r]) /\ SaveJobOK(req[r])
  BY DEF TypeInv, Jobs, ClearInv, ClearJobOK

LEMMA After ==
  ASSUME OneByOne, NEW r \in Requests, TablesOK', HeldOK(req[r])', FollowedOK(req[r])',
         UploadJobOK(req[r])', AssignJobOK(req[r])', SaveJobOK(req[r])'
  PROVE  ClearInv'
<1>1. \A q \in Requests : q = r
  BY DEF OneByOne
<1> QED
  BY <1>1 DEF ClearInv, ClearJobOK

LEMMA NoNobody ==
  ASSUME TypeInv
  PROVE  /\ Nobody \notin DOMAIN rows
         /\ PoliciesOf(Nobody) = {} /\ VersionsOf(Nobody) = {}
         /\ \A f : PoliciesOf(f) \subseteq Policies
  BY DEF TypeInv, TypeOK, Version, Link, FileIds, Nobody, PoliciesOf, VersionsOf

\* A request that ends, or reads a row, to save or to delete it with the path it has.
LEMMA ClearRests ==
  ASSUME OneByOne, TypeInv, ClearInv, NEW r \in Requests, NEW j, req'[r] = j,
         j.pc \in {"idle", "save", "remove"},
         j.pc # "idle" => j.file \in DOMAIN rows /\ rows[j.file].path = j.row.path,
         req[r].pc \notin Assigns,
         DOMAIN rows' = DOMAIN rows, \A f \in DOMAIN rows : rows'[f].path = rows[f].path,
         UNCHANGED <<versions, links, folder, objects, uploads, acked>>
  PROVE  ClearInv'
<1>k. req[r] \in Job /\ req[r] \in Jobs /\ TablesOK /\ HeldOK(req[r]) /\ FollowedOK(req[r])
  BY Before
<1>1. TablesOK'
  BY <1>k DEF TablesOK
<1>2. HeldOK(req[r])'
  BY <1>k DEF HeldOK, Assigns
<1>3. FollowedOK(req[r])'
  BY <1>k DEF FollowedOK, Reencrypts, Acked, IsLatest, VersionsOf, Linked, PoliciesOf
<1>4. UploadJobOK(req[r])' /\ AssignJobOK(req[r])'
  BY DEF UploadJobOK, AssignJobOK, Writing, Assigns
<1>5. SaveJobOK(req[r])'
  BY DEF SaveJobOK
<1> QED
  BY <1>1, <1>2, <1>3, <1>4, <1>5, After

LEMMA ClearEnds ==
  ASSUME OneByOne, TypeInv, ClearInv, NEW r \in Requests, Finish(r), req[r].pc \notin Assigns,
         UNCHANGED <<rows, versions, links, folder, objects, uploads, acked>>
  PROVE  ClearInv'
<1>1. req'[r] = Idle /\ Idle.pc = "idle"
  BY DEF Finish, TypeInv, Idle
<1> QED
  BY <1>1, ClearRests

(***************************************************************************)
(* upload                                                                  *)
(***************************************************************************)

\* The policy it takes is one of those the file has once it is linked.
LEMMA PolicyFits ==
  ASSUME OneByOne, TypeInv, TablesOK, NEW p, NEW f, IsRowAt(f, p), f = Nobody \/ f \in DOMAIN rows,
         NEW policy \in Policies \cup {NoPolicy}, NEW pol \in UploadPol(policy, p)
  PROVE  Fits(pol, (PoliciesOf(f) \cup {policy}) \cap AbePolicies)
<1> DEFINE inherited == PoliciesForPath(p) \cap AbePolicies
<1>1. PoliciesForPath(p) = PoliciesOf(f)
  <2>1. ASSUME NEW g \in DOMAIN rows, IsRowAt(g, p) PROVE g = f
    BY <2>1, NoNobody DEF IsRowAt, TablesOK
  <2>2. f \notin DOMAIN rows => PoliciesOf(f) = {}
    BY NoNobody
  <2>3. \A q : q \in PoliciesForPath(p) <=> q \in Policies /\ \E g \in DOMAIN rows : IsRowAt(g, p) /\ q \in PoliciesOf(g)
    BY DEF PoliciesForPath, TablesOK, OneByOne
  <2>4. \A q : q \in PoliciesForPath(p) <=> q \in PoliciesOf(f)
    BY <2>1, <2>2, <2>3, NoNobody
  <2> QED
    BY <2>4
<1>2. NoPolicy \notin AbePolicies
  BY Constants DEF Policies
<1>3. CASE policy \in AbePolicies
  BY <1>2, <1>3 DEF UploadPol, ChosenPol, Fits
<1>4. CASE policy \notin AbePolicies /\ inherited = {}
  <2>1. (PoliciesOf(f) \cup {policy}) \cap AbePolicies = {}
    BY <1>1, <1>4
  <2>2. pol = ChosenPol(policy)
    BY <1>4 DEF UploadPol
  <2>3. pol \in {NoPolicy, {}}
    BY <1>4, <2>2 DEF ChosenPol
  <2> QED
    BY <2>1, <2>3 DEF Fits
<1>5. CASE policy \notin AbePolicies /\ inherited # {}
  <2>1. PICK q \in inherited : pol = {q}
    BY <1>5 DEF UploadPol
  <2> QED
    BY <1>1, <2>1 DEF Fits
<1> QED
  BY <1>3, <1>4, <1>5

LEMMA SealedBy ==
  ASSUME NEW data, NEW pol \in Policy
  PROVE  Encrypt([data |-> data, enc |-> <<>>], IF pol = NoPolicy THEN {} ELSE pol)
            = [data |-> data, enc |-> Sealed(pol)]
<1>1. CASE pol \in {NoPolicy, {}}
  BY <1>1 DEF Encrypt, Sealed
<1>2. CASE pol \notin {NoPolicy, {}}
  <2>1. Append(<<>>, pol) = <<pol>>
    OBVIOUS
  <2> QED
    BY <1>2, <2>1 DEF Encrypt, Sealed
<1> QED
  BY <1>1, <1>2

LEMMA ClearUpload ==
  ASSUME OneByOne, TypeInv, ClearInv, NEW r \in Requests, NEW p \in Paths,
         NEW policy \in Policies \cup {NoPolicy}, NEW new, Upload(r, p, policy, new)
  PROVE  ClearInv'
<1>1. PICK f \in FileIds \cup {Nobody}, pol \in UploadPol(policy, p) :
        /\ IsRowAt(f, p)
        /\ \E num \in VersionNumbers :
             /\ IF f = Nobody THEN num = 1
                ELSE IF VersionsOf(f) = {} THEN num = 2
                ELSE \E v \in versions : IsLatest(v, f) /\ num = v.num + 1
             /\ Start(r, "upload",
                   [Idle EXCEPT !.pc = "put", !.file = f, !.row.path = p, !.num = num,
                      !.phys = PhysicalName(p, num), !.pol = pol, !.policy = policy,
                      !.obj = Encrypt([data |-> uploads + 1, enc |-> <<>>],
                                      IF pol = NoPolicy THEN {} ELSE pol)])
  BY DEF Upload
<1>2. PICK num \in VersionNumbers :
        /\ IF f = Nobody THEN num = 1
           ELSE IF VersionsOf(f) = {} THEN num = 2
           ELSE \E v \in versions : IsLatest(v, f) /\ num = v.num + 1
        /\ Start(r, "upload",
                   [Idle EXCEPT !.pc = "put", !.file = f, !.row.path = p, !.num = num,
                      !.phys = PhysicalName(p, num), !.pol = pol, !.policy = policy,
                      !.obj = Encrypt([data |-> uploads + 1, enc |-> <<>>],
                                      IF pol = NoPolicy THEN {} ELSE pol)])
  BY <1>1
<1> DEFINE name == PhysicalName(p, num)
           obj == Encrypt([data |-> uploads + 1, enc |-> <<>>], IF pol = NoPolicy THEN {} ELSE pol)
           j == [[Idle EXCEPT !.pc = "put", !.file = f, !.row.path = p, !.num = num,
                      !.phys = name, !.pol = pol, !.policy = policy, !.obj = obj]
                 EXCEPT !.op = "upload"]
<1>k. req[r].pc = "idle" /\ TablesOK /\ HeldOK(req[r]) /\ FollowedOK(req[r])
  BY Before DEF Upload, May
<1>3. pol \in Policy
  BY DEF UploadPol, ChosenPol, Policy
<1>4. obj = [data |-> uploads + 1, enc |-> Sealed(pol)]
  BY <1>3, SealedBy
<1>5. NamedFor(name, p, num)
  BY DEF PhysicalName, PlainName, NamedFor, OneByOne
<1>6. f = Nobody \/ (f \in DOMAIN rows /\ rows[f].path = p)
  BY <1>1 DEF IsRowAt
<1>7. f = Nobody => \A g \in DOMAIN rows : rows[g].path # p
  BY <1>1, NoNobody DEF IsRowAt
<1>8. Fits(pol, (PoliciesOf(f) \cup {policy}) \cap AbePolicies)
  BY <1>k, <1>1, <1>6, PolicyFits
<1>9. \A v \in VersionsOf(f) : v.num < num
  <2>1. ASSUME NEW u \in VersionsOf(f), NEW v \in versions, IsLatest(v, f), num = v.num + 1
        PROVE  u.num < num
    <3>1. u.num <= v.num
      BY <2>1 DEF IsLatest
    <3>2. u.num \in Nat /\ v.num \in Nat
      BY Constants DEF VersionsOf, TypeInv, TypeOK, Version, VersionNumbers
    <3> QED
      BY <2>1, <3>1, <3>2
  <2> QED
    BY <1>2, <2>1, NoNobody
<1>10. /\ j.pc = "put" /\ j.file = f /\ j.row.path = p /\ j.num = num /\ j.phys = name
       /\ j.pol = pol /\ j.policy = policy /\ j.obj = obj
  BY DEF Idle
<1>11. req'[r] = j
  BY <1>2 DEF Start, TypeInv
<1> HIDE DEF name, obj, j
<1>12. UNCHANGED <<rows, versions, links, folder, objects, acked>> /\ uploads' = uploads + 1
  BY DEF Upload
<1>13. uploads \in Nat /\ \A g \in DOMAIN rows : g \in Nat
  BY Constants DEF TypeInv, TypeOK, FileIds
<1>14. TablesOK'
  BY <1>k, <1>12, <1>13 DEF TablesOK
<1>15. HeldOK(req[r])'
  BY <1>k, <1>12 DEF HeldOK
<1>16. FollowedOK(req[r])'
  BY <1>k, <1>12 DEF FollowedOK, Reencrypts, Assigns, Acked, IsLatest, VersionsOf, Linked, PoliciesOf
<1>17. UploadJobOK(req[r])'
  <2>1. PoliciesOf(req[r].file)' = PoliciesOf(f) /\ VersionsOf(req[r].file)' = VersionsOf(f)
    BY <1>10, <1>11, <1>12 DEF PoliciesOf, VersionsOf
  <2>2. f = Nobody => \A g \in DOMAIN rows : g < uploads + 1
    BY <1>k, <1>13 DEF TablesOK
  <2>3. req'[r].pc = "put" /\ req'[r].obj.enc = Sealed(req'[r].pol)
    BY <1>4, <1>10, <1>11
  <2>4. /\ NamedFor(req'[r].phys, req'[r].row.path, req'[r].num)
        /\ Fits(req'[r].pol, (PoliciesOf(f) \cup {req'[r].policy}) \cap AbePolicies)
    BY <1>5, <1>8, <1>10, <1>11
  <2>5. /\ req'[r].file \in DOMAIN rows' \cup {Nobody}
        /\ req'[r].file \in DOMAIN rows' => rows'[req'[r].file].path = req'[r].row.path
    BY <1>6, <1>10, <1>11, <1>12, NoNobody
  <2>6. req'[r].file = Nobody =>
           /\ req'[r].obj.data <= uploads'
           /\ \A g \in DOMAIN rows' : g < req'[r].obj.data /\ rows'[g].path # req'[r].row.path
    BY <2>2, <1>4, <1>7, <1>10, <1>11, <1>12, <1>13
  <2>7. \A v \in VersionsOf(f) : v.num < req'[r].num
    BY <1>9, <1>10, <1>11
  <2> QED
    BY <2>1, <2>3, <2>4, <2>5, <2>6, <2>7 DEF UploadJobOK, Writing
<1>18. AssignJobOK(req[r])' /\ SaveJobOK(req[r])'
  BY <1>10, <1>11 DEF AssignJobOK, SaveJobOK, Assigns
<1> QED
  BY <1>14, <1>15, <1>16, <1>17, <1>18, After

\* No version has the name an upload is about to write.
LEMMA FreshName ==
  ASSUME TypeInv, TablesOK, NEW k \in Job, k.pc = "put", UploadJobOK(k), NEW v \in versions
  PROVE  v.phys # k.phys
<1> SUFFICES ASSUME v.phys = k.phys PROVE FALSE
  OBVIOUS
<1>1. v.file \in DOMAIN rows /\ NamedFor(v.phys, rows[v.file].path, v.num)
  BY DEF TablesOK
<1>2. NamedFor(k.phys, k.row.path, k.num)
  BY DEF UploadJobOK, Writing
<1>3. rows[v.file].path = k.row.path /\ v.num = k.num
  BY <1>1, <1>2 DEF NamedFor
<1>4. CASE k.file = Nobody
  BY <1>1, <1>3, <1>4 DEF UploadJobOK
<1>5. CASE k.file # Nobody
  <2>1. k.file \in DOMAIN rows /\ rows[k.file].path = k.row.path
    BY <1>5 DEF UploadJobOK, Writing
  <2>2. v.file = k.file
    BY <1>1, <1>3, <2>1 DEF TablesOK
  <2>3. v.num < k.num /\ v.num \in Nat
    BY <2>2, Constants DEF UploadJobOK, Writing, VersionsOf, TypeInv, TypeOK, Version, VersionNumbers
  <2> QED
    BY <1>3, <2>3
<1> QED
  BY <1>4, <1>5

LEMMA ClearUploadPut ==
  ASSUME OneByOne, TypeInv, ClearInv, NEW r \in Requests, UploadPut(r)
  PROVE  ClearInv'
<1> DEFINE k == req[r]
           j == [k EXCEPT !.pc = "row"]
<1>k. /\ k \in Job /\ k.pc = "put" /\ TablesOK /\ HeldOK(k) /\ FollowedOK(k)
      /\ UploadJobOK(k)
  BY Before DEF UploadPut, At
<1>1. /\ j.pc = "row" /\ j.op = k.op /\ j.file = k.file /\ j.row = k.row /\ j.num = k.num
      /\ j.phys = k.phys /\ j.pol = k.pol /\ j.obj = k.obj /\ j.policy = k.policy
  BY <1>k DEF Job
<1>2. req'[r] = j
  BY DEF UploadPut, Goto, TypeInv
<1>3. objects' = With(objects, k.phys, k.obj)
      /\ UNCHANGED <<rows, versions, links, folder, uploads, acked>>
  BY DEF UploadPut
<1>4. \A v \in versions : v.phys # k.phys
  BY <1>k, FreshName
<1> HIDE DEF k, j
<1>5. TablesOK'
  BY <1>k, <1>3 DEF TablesOK
<1>6. HeldOK(req[r])'
  <2>1. ASSUME NEW a \in acked
        PROVE  \E v \in versions :
                 /\ v.file = a.file /\ v.num = a.num
                 /\ v.phys \in DOMAIN objects' /\ objects'[v.phys].data = a.data
                 /\ objects'[v.phys].enc = Sealed(v.pol)
    <3>1. PICK v \in versions :
                 /\ v.file = a.file /\ v.num = a.num
                 /\ v.phys \in DOMAIN objects /\ objects[v.phys].data = a.data
                 /\ objects[v.phys].enc = Sealed(v.pol)
      BY <1>k DEF HeldOK
    <3> QED
      BY <1>3, <1>4, <3>1 DEF With
  <2> QED
    BY <1>3, <2>1 DEF HeldOK
<1>7. FollowedOK(req[r])'
  BY <1>k, <1>1, <1>2, <1>3 DEF FollowedOK, Reencrypts, Assigns, Acked, IsLatest, VersionsOf, Linked, PoliciesOf
<1>8. UploadJobOK(req[r])'
  <2>1. PoliciesOf(req[r].file)' = PoliciesOf(k.file) /\ VersionsOf(req[r].file)' = VersionsOf(k.file)
    BY <1>1, <1>2, <1>3 DEF PoliciesOf, VersionsOf
  <2>2. j.phys \in DOMAIN objects' /\ objects'[j.phys] = j.obj
    BY <1>1, <1>3 DEF With
  <2> QED
    BY <1>k, <1>1, <1>2, <1>3, <2>1, <2>2 DEF UploadJobOK, Writing
<1>9. AssignJobOK(req[r])' /\ SaveJobOK(req[r])'
  BY <1>1, <1>2 DEF AssignJobOK, SaveJobOK, Assigns
<1> QED
  BY <1>5, <1>6, <1>7, <1>8, <1>9, After

LEMMA ClearUploadRow ==
  ASSUME OneByOne, TypeInv, ClearInv, NEW r \in Requests, UploadRow(r)
  PROVE  ClearInv'
<1> DEFINE k == req[r]
           f == IF k.file = Nobody THEN k.obj.data ELSE k.file
           j == [k EXCEPT !.pc = "version", !.file = f]
<1>k. /\ k \in Job /\ k.pc = "row" /\ TablesOK /\ HeldOK(k) /\ FollowedOK(k)
      /\ UploadJobOK(k)
  BY Before DEF UploadRow, At
<1>1. /\ j.pc = "version" /\ j.op = k.op /\ j.file = f /\ j.row = k.row /\ j.num = k.num
      /\ j.phys = k.phys /\ j.pol = k.pol /\ j.obj = k.obj /\ j.policy = k.policy
  BY <1>k DEF Job
<1>2. req'[r] = j
  BY DEF UploadRow, TypeInv
<1>3. UNCHANGED <<versions, links, folder, objects, uploads, acked>>
  BY DEF UploadRow
<1>n. uploads \in Nat /\ (\A g \in DOMAIN rows : g \in Nat) /\ k.obj.data \in Nat \ {0}
  BY <1>k, Constants DEF TypeInv, TypeOK, FileIds, Job, Object
<1>4. ASSUME k.file = Nobody
      PROVE  /\ f \notin DOMAIN rows /\ f <= uploads /\ rows' = With(rows, f, k.row)
             /\ \A g \in DOMAIN rows : rows[g].path # k.row.path
             /\ PoliciesOf(f) = {} /\ VersionsOf(f) = {}
  <2>1. /\ f = k.obj.data /\ f <= uploads
        /\ \A g \in DOMAIN rows : g < f /\ rows[g].path # k.row.path
    BY <1>k, <1>4 DEF UploadJobOK
  <2>2. f \notin DOMAIN rows
    BY <1>n, <2>1
  <2>3. PoliciesOf(f) = {} /\ VersionsOf(f) = {}
    BY <1>k, <2>2 DEF TablesOK, PoliciesOf, VersionsOf
  <2> QED
    BY <2>1, <2>2, <2>3 DEF UploadRow
<1>5. ASSUME k.file # Nobody
      PROVE  f = k.file /\ f \in DOMAIN rows /\ rows' = [rows EXCEPT ![f].deleted = FALSE]
  BY <1>5 DEF UploadRow
<1>6. f \in DOMAIN rows' /\ rows'[f].path = k.row.path /\ DOMAIN rows' = DOMAIN rows \cup {f}
      /\ f <= uploads /\ \A g \in DOMAIN rows : rows'[g].path = rows[g].path
  <2> HIDE DEF f
  <2>1. CASE k.file = Nobody
    BY <1>4, <2>1 DEF With
  <2>2. CASE k.file # Nobody
    <3>1. rows[f].path = k.row.path /\ rows[f] \in File /\ f <= uploads
      BY <1>k, <1>5, <2>2 DEF UploadJobOK, TypeInv, TypeOK, Writing, TablesOK
    <3>2. \A g \in DOMAIN rows : rows'[g] = IF g = f THEN [rows[f] EXCEPT !.deleted = FALSE] ELSE rows[g]
      BY <1>5, <2>2
    <3>3. [rows[f] EXCEPT !.deleted = FALSE].path = rows[f].path
      BY <3>1 DEF File
    <3>4. DOMAIN rows' = DOMAIN rows
      BY <1>5, <2>2
    <3> QED
      BY <1>5, <2>2, <3>1, <3>2, <3>3, <3>4
  <2> QED
    BY <2>1, <2>2
<1>7. \A v \in VersionsOf(f) : v.num < k.num
  BY <1>k, <1>4, <1>5 DEF UploadJobOK, Writing
<1>8. Fits(k.pol, (PoliciesOf(f) \cup {k.policy}) \cap AbePolicies)
  BY <1>k, <1>4, <1>5, NoNobody DEF UploadJobOK, Writing
<1>9. f \notin DOMAIN rows => \A g \in DOMAIN rows : rows[g].path # k.row.path
  BY <1>4, <1>5
<1> HIDE DEF k, f, j
<1>10. TablesOK'
  <2>1. \A g, h \in DOMAIN rows' : rows'[g].path = rows'[h].path => g = h
    BY <1>k, <1>6, <1>9 DEF TablesOK
  <2>2. \A v \in versions : v.file \in DOMAIN rows' /\ NamedFor(v.phys, rows'[v.file].path, v.num)
    BY <1>k, <1>6 DEF TablesOK
  <2> QED
    BY <1>k, <1>3, <1>6, <2>1, <2>2 DEF TablesOK
<1>11. HeldOK(req[r])'
  BY <1>k, <1>3 DEF HeldOK
<1>12. FollowedOK(req[r])'
  BY <1>k, <1>1, <1>2, <1>3 DEF FollowedOK, Reencrypts, Assigns, Acked, IsLatest, VersionsOf, Linked, PoliciesOf
<1>13. UploadJobOK(req[r])'
  <2>1. PoliciesOf(req[r].file)' = PoliciesOf(f) /\ VersionsOf(req[r].file)' = VersionsOf(f)
    BY <1>1, <1>2, <1>3 DEF PoliciesOf, VersionsOf
  <2>2. /\ j.obj.enc = Sealed(j.pol) /\ NamedFor(j.phys, j.row.path, j.num)
        /\ j.phys \in DOMAIN objects /\ objects[j.phys] = j.obj
    BY <1>k, <1>1 DEF UploadJobOK, Writing
  <2> QED
    BY <1>1, <1>2, <1>3, <1>6, <1>7, <1>8, <2>1, <2>2 DEF UploadJobOK, Writing
<1>14. AssignJobOK(req[r])' /\ SaveJobOK(req[r])'
  BY <1>1, <1>2 DEF AssignJobOK, SaveJobOK, Assigns
<1> QED
  BY <1>10, <1>11, <1>12, <1>13, <1>14, After

LEMMA ClearUploadVersion ==
  ASSUME OneByOne, TypeInv, ClearInv, NEW r \in Requests, UploadVersion(r)
  PROVE  ClearInv'
<1> DEFINE k == req[r]
           w == [file |-> k.file, num |-> k.num, phys |-> k.phys, pol |-> k.pol]
           entry == [file |-> k.file, num |-> k.num, data |-> k.obj.data]
           j == [k EXCEPT !.pc = "link"]
<1>k. /\ k \in Job /\ k.pc = "version" /\ TablesOK /\ HeldOK(k) /\ FollowedOK(k)
      /\ UploadJobOK(k)
  BY Before DEF UploadVersion, At
<1>1. /\ j.pc = "link" /\ j.op = k.op /\ j.file = k.file /\ j.row = k.row /\ j.num = k.num
      /\ j.phys = k.phys /\ j.pol = k.pol /\ j.obj = k.obj /\ j.policy = k.policy
  BY <1>k DEF Job
<1>2. /\ IF k.policy = NoPolicy THEN acked' = acked \cup {entry} /\ req'[r] = Idle
                               ELSE acked' = acked /\ req'[r] = j
      /\ versions' = versions \cup {w}
      /\ UNCHANGED <<rows, links, folder, objects, uploads>>
  BY DEF UploadVersion, Ack, Finish, Goto, TypeInv
<1>3. k.file \in DOMAIN rows /\ \A v \in VersionsOf(k.file) : v.num # k.num
  BY DEF UploadVersion, VersionFits
<1>4. w.file = k.file /\ w.num = k.num /\ w.phys = k.phys /\ w.pol = k.pol
      /\ entry.file = k.file /\ entry.num = k.num /\ entry.data = k.obj.data
  OBVIOUS
<1>5. /\ k.obj.enc = Sealed(k.pol) /\ NamedFor(k.phys, k.row.path, k.num)
      /\ Fits(k.pol, (PoliciesOf(k.file) \cup {k.policy}) \cap AbePolicies)
      /\ rows[k.file].path = k.row.path
      /\ k.phys \in DOMAIN objects /\ objects[k.phys] = k.obj
      /\ \A v \in VersionsOf(k.file) : v.num < k.num
  BY <1>k, <1>3 DEF UploadJobOK, Writing
<1>6. \A v \in versions : v.file = k.file => v.num # k.num
  BY <1>3 DEF VersionsOf
<1>7. \A a \in acked : a.file = k.file => a.num # k.num
  BY <1>k, <1>6 DEF HeldOK
<1>i. Idle.pc = "idle"
  BY DEF Idle
<1>8. req'[r].pc \in {"idle", "link"} /\ (req'[r].pc = "link" => req'[r] = j /\ k.policy # NoPolicy /\ acked' = acked)
  BY <1>1, <1>2, <1>i
<1>n. k.num \in Nat /\ \A v \in versions : v.num \in Nat
  BY <1>k, Constants DEF Job, TypeInv, TypeOK, Version, VersionNumbers
<1> HIDE DEF k, w, entry, j
<1>10. TablesOK'
  <2>1. \A v \in versions' : v.file \in DOMAIN rows /\ NamedFor(v.phys, rows[v.file].path, v.num)
    BY <1>k, <1>2, <1>3, <1>4, <1>5 DEF TablesOK
  <2>2. \A u, v \in versions' : u.file = v.file /\ u.num = v.num => u = v
    BY <1>k, <1>2, <1>4, <1>6 DEF TablesOK
  <2> QED
    BY <1>k, <1>2, <2>1, <2>2 DEF TablesOK
<1>11. HeldOK(req[r])'
  <2>1. ASSUME NEW a \in acked'
        PROVE  \E v \in versions' :
                 /\ v.file = a.file /\ v.num = a.num
                 /\ v.phys \in DOMAIN objects /\ objects[v.phys].data = a.data
                 /\ objects[v.phys].enc = Sealed(v.pol)
    <3>1. CASE a \in acked
      BY <1>k, <1>2, <3>1 DEF HeldOK
    <3>2. CASE a = entry
      BY <1>2, <1>4, <1>5, <3>2
    <3> QED
      BY <1>2, <2>1, <3>1, <3>2
  <2> QED
    BY <1>2, <2>1 DEF HeldOK
<1>12. FollowedOK(req[r])'
  <2>1. ASSUME NEW v \in versions', NEW a \in acked', a.file = v.file, a.num = v.num,
               \A u \in versions' : u.file = v.file => u.num <= v.num
        PROVE  Fits(v.pol, PoliciesOf(v.file) \cap AbePolicies)
    <3>1. CASE v = w
      <4>1. k.policy = NoPolicy
        BY <1>2, <1>4, <1>7, <2>1, <3>1
      <4>2. (PoliciesOf(k.file) \cup {k.policy}) \cap AbePolicies = PoliciesOf(k.file) \cap AbePolicies
        BY <4>1, Constants DEF Policies
      <4> QED
        BY <1>4, <1>5, <3>1, <4>2
    <3>2. CASE v # w
      <4>1. v \in versions
        BY <1>2, <3>2
      <4>2. a \in acked
        BY <1>2, <1>4, <1>6, <2>1, <4>1
      <4>3. IsLatest(v, v.file) /\ v \in Acked
        BY <1>2, <2>1, <4>1, <4>2 DEF IsLatest, VersionsOf, Acked
      <4> QED
        BY <1>k, <4>3 DEF FollowedOK, Reencrypts, Assigns, Linked
    <3> QED
      BY <3>1, <3>2
  <2>2. ASSUME NEW v \in Acked', IsLatest(v, v.file)'
        PROVE  Fits(v.pol, Linked(v.file)')
    <3>1. PICK a \in acked' : v \in versions' /\ a.file = v.file /\ a.num = v.num
      BY DEF Acked
    <3>2. \A u \in versions' : u.file = v.file => u.num <= v.num
      BY <2>2 DEF IsLatest, VersionsOf
    <3>3. Fits(v.pol, PoliciesOf(v.file) \cap AbePolicies)
      BY <2>1, <3>1, <3>2
    <3>4. Linked(v.file)' = PoliciesOf(v.file) \cap AbePolicies
      BY <1>2 DEF Linked, PoliciesOf
    <3> QED
      BY <3>3, <3>4
  <2> QED
    BY <2>2 DEF FollowedOK
<1>13. UploadJobOK(req[r])'
  <2>1. CASE req'[r].pc = "idle"
    BY <2>1 DEF UploadJobOK, Writing
  <2>2. CASE req'[r].pc = "link"
    <3>1. PoliciesOf(req[r].file)' = PoliciesOf(k.file)
      BY <1>1, <1>2, <1>8, <2>2 DEF PoliciesOf
    <3>2. \A v \in VersionsOf(req[r].file)' : v.num <= k.num
      BY <1>1, <1>2, <1>4, <1>5, <1>8, <1>n, <2>2 DEF VersionsOf
    <3>3. [file |-> req'[r].file, num |-> req'[r].num, phys |-> req'[r].phys, pol |-> req'[r].pol] \in versions'
      BY <1>1, <1>2, <1>8, <2>2 DEF w
    <3>4. req'[r].num = k.num /\ req'[r].file = k.file
      BY <1>1, <1>8, <2>2
    <3>5. \A a \in acked' : a.file = req'[r].file => a.num # req'[r].num
      BY <1>7, <1>8, <2>2, <3>4
    <3>6. /\ req'[r].obj.enc = Sealed(req'[r].pol)
          /\ NamedFor(req'[r].phys, req'[r].row.path, req'[r].num)
          /\ Fits(req'[r].pol, (PoliciesOf(k.file) \cup {req'[r].policy}) \cap AbePolicies)
          /\ req'[r].file \in DOMAIN rows' /\ rows'[req'[r].file].path = req'[r].row.path
          /\ req'[r].phys \in DOMAIN objects' /\ objects'[req'[r].phys] = req'[r].obj
      BY <1>1, <1>2, <1>3, <1>5, <1>8, <2>2
    <3> QED
      BY <2>2, <3>1, <3>2, <3>3, <3>4, <3>5, <3>6 DEF UploadJobOK, Writing
  <2> QED
    BY <1>8, <2>1, <2>2
<1>14. AssignJobOK(req[r])' /\ SaveJobOK(req[r])'
  BY <1>8 DEF AssignJobOK, SaveJobOK, Assigns
<1> QED
  BY <1>10, <1>11, <1>12, <1>13, <1>14, After

LEMMA ClearUploadLink ==
  ASSUME OneByOne, TypeInv, ClearInv, NEW r \in Requests, UploadLink(r)
  PROVE  ClearInv'
<1> DEFINE k == req[r]
           w == [file |-> k.file, num |-> k.num, phys |-> k.phys, pol |-> k.pol]
           entry == [file |-> k.file, num |-> k.num, data |-> k.obj.data]
           link == [file |-> k.file, policy |-> k.policy]
<1>k. /\ k \in Job /\ k.pc = "link" /\ TablesOK /\ HeldOK(k) /\ FollowedOK(k)
      /\ UploadJobOK(k)
  BY Before DEF UploadLink, At
<1>2. /\ acked' \in {acked, acked \cup {entry}} /\ req'[r] = Idle /\ Idle.pc = "idle"
      /\ links' = links \cup {link}
      /\ UNCHANGED <<rows, versions, folder, objects, uploads>>
  BY DEF UploadLink, Ack, Finish, TypeInv, Idle
<1>3. k.file \in DOMAIN rows
  BY DEF UploadLink, LinkFits
<1>4. /\ w.file = k.file /\ w.num = k.num /\ w.phys = k.phys /\ w.pol = k.pol
      /\ entry.file = k.file /\ entry.num = k.num /\ entry.data = k.obj.data
      /\ link.file = k.file /\ link.policy = k.policy
  OBVIOUS
<1>5. /\ w \in versions
      /\ k.obj.enc = Sealed(k.pol)
      /\ Fits(k.pol, (PoliciesOf(k.file) \cup {k.policy}) \cap AbePolicies)
      /\ k.phys \in DOMAIN objects /\ objects[k.phys] = k.obj
      /\ \A v \in VersionsOf(k.file) : v.num <= k.num
  BY <1>k DEF UploadJobOK
<1>n. k.num \in Nat /\ \A v \in versions : v.num \in Nat
  BY <1>k, Constants DEF Job, TypeInv, TypeOK, Version, VersionNumbers
<1>6. \A f : PoliciesOf(f)' = IF f = k.file THEN PoliciesOf(f) \cup {k.policy} ELSE PoliciesOf(f)
  <2>1. ASSUME NEW f PROVE PoliciesOf(f)' = {l.policy : l \in {m \in links' : m.file = f}}
    BY DEF PoliciesOf
  <2>2. ASSUME NEW f
        PROVE  {l.policy : l \in {m \in links' : m.file = f}}
                  = IF f = k.file THEN PoliciesOf(f) \cup {k.policy} ELSE PoliciesOf(f)
    BY <1>2, <1>4 DEF PoliciesOf
  <2> QED
    BY <2>1, <2>2
<1> HIDE DEF k, w, entry, link
<1>10. TablesOK'
  BY <1>k, <1>2, <1>3, <1>4 DEF TablesOK
<1>11. HeldOK(req[r])'
  <2>1. ASSUME NEW a \in acked'
        PROVE  \E v \in versions :
                 /\ v.file = a.file /\ v.num = a.num
                 /\ v.phys \in DOMAIN objects /\ objects[v.phys].data = a.data
                 /\ objects[v.phys].enc = Sealed(v.pol)
    <3>1. CASE a \in acked
      BY <1>k, <3>1 DEF HeldOK
    <3>2. CASE a = entry
      BY <1>4, <1>5, <3>2
    <3> QED
      BY <1>2, <2>1, <3>1, <3>2
  <2> QED
    BY <1>2, <2>1 DEF HeldOK
<1>12. FollowedOK(req[r])'
  <2>1. ASSUME NEW v \in versions, NEW a \in acked', a.file = v.file, a.num = v.num,
               \A u \in versions : u.file = v.file => u.num <= v.num
        PROVE  Fits(v.pol, PoliciesOf(v.file)' \cap AbePolicies)
    <3>1. CASE v.file = k.file
      <4>1. v.num <= k.num /\ k.num <= v.num
        BY <1>4, <1>5, <2>1, <3>1 DEF VersionsOf
      <4>2. v.num = k.num
        BY <1>n, <4>1
      <4>3. v = w
        BY <1>k, <1>4, <1>5, <3>1, <4>2 DEF TablesOK
      <4> QED
        BY <1>4, <1>5, <1>6, <4>3
    <3>2. CASE v.file # k.file
      <4>1. a \in acked
        BY <1>2, <1>4, <2>1, <3>2
      <4>2. IsLatest(v, v.file) /\ v \in Acked
        BY <2>1, <4>1 DEF IsLatest, VersionsOf, Acked
      <4>3. PoliciesOf(v.file)' = PoliciesOf(v.file)
        BY <1>6, <3>2
      <4> QED
        BY <1>k, <4>2, <4>3 DEF FollowedOK, Reencrypts, Assigns, Linked
    <3> QED
      BY <3>1, <3>2
  <2>2. ASSUME NEW v \in Acked', IsLatest(v, v.file)'
        PROVE  Fits(v.pol, Linked(v.file)')
    <3>1. PICK a \in acked' : v \in versions' /\ a.file = v.file /\ a.num = v.num
      BY DEF Acked
    <3>2. \A u \in versions : u.file = v.file => u.num <= v.num
      BY <1>2, <2>2 DEF IsLatest, VersionsOf
    <3>3. Fits(v.pol, PoliciesOf(v.file)' \cap AbePolicies)
      BY <1>2, <2>1, <3>1, <3>2
    <3> QED
      BY <3>3 DEF Linked
  <2> QED
    BY <2>2 DEF FollowedOK
<1>13. UploadJobOK(req[r])' /\ AssignJobOK(req[r])' /\ SaveJobOK(req[r])'
  BY <1>2 DEF UploadJobOK, AssignJobOK, SaveJobOK, Assigns, Writing
<1> QED
  BY <1>10, <1>11, <1>12, <1>13, After

LEMMA ClearUploadStep ==
  ASSUME OneByOne, TypeInv, ClearInv, NEW r \in Requests, UploadStep(r)
  PROVE  ClearInv'
<1>1. ASSUME UploadRowGone(r) \/ UploadVersionTaken(r) \/ UploadLinkTaken(r) PROVE ClearInv'
  BY <1>1, ClearEnds DEF UploadRowGone, UploadVersionTaken, UploadLinkTaken, Refuse, At, Assigns
<1> QED
  BY <1>1, ClearUpload, ClearUploadPut, ClearUploadRow, ClearUploadVersion, ClearUploadLink
     DEF UploadStep

(***************************************************************************)
(* Rows and links                                                          *)
(***************************************************************************)
LEMMA ClearListVersions ==
  ASSUME OneByOne, TypeInv, ClearInv, NEW r \in Requests, NEW f \in DOMAIN rows, ListVersions(r, f)
  PROVE  ClearInv'
<1>k. req[r].pc = "idle" /\ TablesOK /\ HeldOK(req[r]) /\ FollowedOK(req[r])
  BY Before DEF ListVersions, May
<1>1. PICK q \in PoliciesOf(f) \cup {NoPolicy} :
        versions' = versions \cup
              {[file |-> f, num |-> 1, phys |-> PlainName(rows[f].path),
                pol |-> IF q \in AbePolicies THEN {q} ELSE NoPolicy]}
  BY DEF ListVersions
<1> DEFINE w == [file |-> f, num |-> 1, phys |-> PlainName(rows[f].path),
                 pol |-> IF q \in AbePolicies THEN {q} ELSE NoPolicy]
<1>2. versions' = versions \cup {w}
      /\ UNCHANGED <<rows, links, folder, objects, req, uploads, acked>>
  BY <1>1 DEF ListVersions
<1>3. w.file = f /\ w.num = 1 /\ NamedFor(w.phys, rows[f].path, 1)
  BY DEF NamedFor, PlainName
<1>4. \A v \in versions : v.file # f
  BY DEF ListVersions, VersionsOf
<1>5. \A a \in acked : a.file # f
  BY <1>k, <1>4 DEF HeldOK
<1> HIDE DEF w
<1>6. TablesOK'
  BY <1>k, <1>2, <1>3, <1>4 DEF TablesOK
<1>7. HeldOK(req[r])'
  BY <1>k, <1>2 DEF HeldOK
<1>8. FollowedOK(req[r])'
  <2>1. ASSUME NEW v \in Acked', IsLatest(v, v.file)'
        PROVE  Fits(v.pol, Linked(v.file)')
    <3>1. PICK a \in acked : v \in versions' /\ a.file = v.file /\ a.num = v.num
      BY <1>2 DEF Acked
    <3>2. v \in versions /\ v \in Acked
      BY <1>2, <1>3, <1>5, <3>1 DEF Acked
    <3>3. IsLatest(v, v.file)
      BY <1>2, <2>1, <3>2 DEF IsLatest, VersionsOf
    <3>4. Linked(v.file)' = Linked(v.file)
      BY <1>2 DEF Linked, PoliciesOf
    <3> QED
      BY <1>k, <3>2, <3>3, <3>4 DEF FollowedOK, Reencrypts, Assigns
  <2> QED
    BY <2>1 DEF FollowedOK
<1>9. UploadJobOK(req[r])' /\ AssignJobOK(req[r])' /\ SaveJobOK(req[r])'
  BY <1>k, <1>2 DEF UploadJobOK, AssignJobOK, SaveJobOK, Assigns, Writing
<1> QED
  BY <1>6, <1>7, <1>8, <1>9, After

\* No other file's object has the name of the path that goes; the file's version that has it is
\* no longer acknowledged.
LEMMA ClearObject ==
  ASSUME OneByOne, TypeInv, ClearInv, NEW r \in Requests, RemoveObject(r)
  PROVE  ClearInv'
<1> DEFINE k == req[r]
           f == k.file
           name == PlainName(k.row.path)
           j == [k EXCEPT !.pc = "cascade"]
<1>k. /\ k \in Job /\ TablesOK /\ HeldOK(k) /\ FollowedOK(k)
      /\ k.pc = "remove" /\ f \in DOMAIN rows /\ rows[f].path = k.row.path
  BY Before DEF RemoveObject, At, SaveJobOK
<1>1. /\ req'[r] = j
      /\ \/ UNCHANGED <<objects, acked>>
         \/ objects' = Without(objects, {name}) /\ acked' = acked \ AckedIn(f, name)
      /\ UNCHANGED <<rows, versions, links, folder, uploads>>
  BY <1>k DEF RemoveObject, Goto, TypeInv
<1>2. j.pc = "cascade" /\ j.file = f /\ j.row = k.row /\ name.path = k.row.path
  BY <1>k DEF Job, PlainName
<1> HIDE DEF j, k, f, name
<1>3. ASSUME NEW a \in acked', NEW v \in versions, v.file = a.file, v.num = a.num, v.phys \in DOMAIN objects
      PROVE  v.phys \in DOMAIN objects' /\ objects'[v.phys] = objects[v.phys]
  <2>1. CASE objects' = Without(objects, {name}) /\ acked' = acked \ AckedIn(f, name)
    <3>1. v.phys # name
      <4>1. CASE v.file = f
        BY <1>3, <2>1, <4>1 DEF AckedIn, VersionsOf
      <4>2. CASE v.file # f
        BY <1>k, <1>2, <4>2 DEF TablesOK, NamedFor
      <4> QED
        BY <4>1, <4>2
    <3> QED
      BY <1>3, <2>1, <3>1 DEF Without
  <2> QED
    BY <1>1, <1>3, <2>1
<1>4. acked' \subseteq acked
  BY <1>1
<1>5. TablesOK'
  BY <1>1, <1>k DEF TablesOK
<1>6. HeldOK(req[r])'
  <2>1. ASSUME NEW a \in acked'
        PROVE  \E v \in versions' :
                 /\ v.file = a.file /\ v.num = a.num
                 /\ v.phys \in DOMAIN objects' /\ objects'[v.phys].data = a.data
                 /\ objects'[v.phys].enc = Sealed(v.pol)
    <3>1. PICK v \in versions :
                 /\ v.file = a.file /\ v.num = a.num
                 /\ v.phys \in DOMAIN objects /\ objects[v.phys].data = a.data
                 /\ objects[v.phys].enc = Sealed(v.pol)
      BY <1>k, <1>4 DEF HeldOK
    <3> QED
      BY <1>1, <1>3, <3>1
  <2> QED
    BY <2>1 DEF HeldOK
<1>7. FollowedOK(req[r])'
  <2>1. ASSUME NEW v \in Acked', IsLatest(v, v.file)'
        PROVE  Fits(v.pol, Linked(v.file)')
    <3>1. v \in Acked
      BY <1>1, <1>4 DEF Acked
    <3>2. IsLatest(v, v.file) /\ Linked(v.file)' = Linked(v.file)
      BY <1>1, <2>1 DEF IsLatest, VersionsOf, Linked, PoliciesOf
    <3> QED
      BY <1>k, <3>1, <3>2 DEF FollowedOK, Reencrypts, Assigns
  <2> QED
    BY <2>1 DEF FollowedOK
<1>8. UploadJobOK(req[r])' /\ AssignJobOK(req[r])'
  BY <1>1, <1>2 DEF UploadJobOK, AssignJobOK, Assigns, Writing
<1>9. SaveJobOK(req[r])'
  BY <1>k, <1>1, <1>2 DEF SaveJobOK
<1> QED
  BY <1>5, <1>6, <1>7, <1>8, <1>9, After

LEMMA ClearCommit ==
  ASSUME OneByOne, TypeInv, ClearInv, NEW r \in Requests, CommitRemoval(r)
  PROVE  ClearInv'
<1> DEFINE f == req[r].file
<1>k. /\ TablesOK /\ HeldOK(req[r]) /\ FollowedOK(req[r])
      /\ req[r].pc = "cascade"
  BY Before DEF CommitRemoval, At
<1>1. /\ rows' = Without(rows, {f}) /\ versions' = versions \ VersionsOf(f)
      /\ links' = {l \in links : l.file # f}
      /\ acked' = {a \in acked : a.file # f}
      /\ req'[r] = Idle /\ UNCHANGED <<folder, objects, uploads>>
  BY DEF CommitRemoval, Finish, TypeInv
<1>i. Idle.pc = "idle"
  BY DEF Idle
<1> HIDE DEF f
<1>2. versions' = {v \in versions : v.file # f}
  BY <1>1 DEF VersionsOf
<1>3. DOMAIN rows' = DOMAIN rows \ {f} /\ \A g \in DOMAIN rows' : rows'[g] = rows[g]
  BY <1>1 DEF Without
<1>6. TablesOK'
  <2>1. /\ folder' = {}
        /\ \A g, h \in DOMAIN rows' : rows'[g].path = rows'[h].path => g = h
        /\ \A g \in DOMAIN rows' : g <= uploads'
    <3>1. DOMAIN rows' \subseteq DOMAIN rows /\ uploads' = uploads /\ folder' = folder
      BY <1>1, <1>3
    <3>2. ASSUME NEW g \in DOMAIN rows', NEW h \in DOMAIN rows', rows'[g].path = rows'[h].path PROVE g = h
      <4>1. rows[g].path = rows[h].path /\ g \in DOMAIN rows /\ h \in DOMAIN rows
        BY <1>3, <3>1, <3>2
      <4> QED
        BY <1>k, <4>1 DEF TablesOK
    <3>3. folder = {} /\ \A g \in DOMAIN rows : g <= uploads
      BY <1>k DEF TablesOK
    <3> QED
      BY <3>1, <3>2, <3>3
  <2>2. \A l \in links' : l.file \in DOMAIN rows'
    BY <1>k, <1>1, <1>3 DEF TablesOK
  <2>3. \A v \in versions' : v.file \in DOMAIN rows' /\ NamedFor(v.phys, rows'[v.file].path, v.num)
    BY <1>k, <1>2, <1>3 DEF TablesOK
  <2>4. \A u, v \in versions' : u.file = v.file /\ u.num = v.num => u = v
    BY <1>k, <1>2 DEF TablesOK
  <2> QED
    BY <2>1, <2>2, <2>3, <2>4 DEF TablesOK
<1>7. HeldOK(req[r])'
  <2>1. ASSUME NEW a \in acked'
        PROVE  \E v \in versions' :
                 /\ v.file = a.file /\ v.num = a.num
                 /\ v.phys \in DOMAIN objects' /\ objects'[v.phys].data = a.data
                 /\ objects'[v.phys].enc = Sealed(v.pol)
    <3>1. PICK v \in versions :
                 /\ v.file = a.file /\ v.num = a.num
                 /\ v.phys \in DOMAIN objects /\ objects[v.phys].data = a.data
                 /\ objects[v.phys].enc = Sealed(v.pol)
      BY <1>k, <1>1 DEF HeldOK
    <3>2. v \in versions'
      BY <1>1, <1>2, <3>1
    <3> QED
      BY <1>1, <3>1, <3>2
  <2> QED
    BY <1>1, <2>1 DEF HeldOK
<1>8. FollowedOK(req[r])'
  <2>1. ASSUME NEW v \in Acked', IsLatest(v, v.file)'
        PROVE  Fits(v.pol, Linked(v.file)')
    <3>1. v \in Acked /\ v.file # f
      BY <1>1, <1>2 DEF Acked
    <3>2. IsLatest(v, v.file)
      BY <1>2, <2>1, <3>1 DEF IsLatest, VersionsOf
    <3>3. Linked(v.file)' = Linked(v.file)
      BY <1>1, <3>1 DEF Linked, PoliciesOf
    <3> QED
      BY <1>k, <3>1, <3>2, <3>3 DEF FollowedOK, Reencrypts, Assigns
  <2> QED
    BY <2>1 DEF FollowedOK
<1>9. UploadJobOK(req[r])' /\ AssignJobOK(req[r])' /\ SaveJobOK(req[r])'
  BY <1>1, <1>i DEF UploadJobOK, AssignJobOK, SaveJobOK, Assigns, Writing
<1> QED
  BY <1>6, <1>7, <1>8, <1>9, After

LEMMA ClearRead ==
  ASSUME OneByOne, TypeInv, ClearInv, NEW r \in Requests, NEW op, NEW f, NEW d, NEW row,
         ReadRow(r, op, f, d, row), row.path = rows[f].path
  PROVE  ClearInv'
<1> DEFINE j == [[Idle EXCEPT !.pc = "save", !.file = f, !.row = row] EXCEPT !.op = op]
<1>1. j.pc = "save" /\ j.file = f /\ j.row = row
  BY DEF Idle
<1>2. req'[r] = j
  BY DEF ReadRow, Start, TypeInv
<1>3. f \in DOMAIN rows /\ req[r].pc \notin Assigns
      /\ UNCHANGED <<rows, versions, links, folder, objects, uploads, acked>>
  BY DEF ReadRow, May, Assigns
<1> HIDE DEF j
<1> QED
  BY <1>1, <1>2, <1>3, ClearRests

LEMMA ClearRowStep ==
  ASSUME OneByOne, TypeInv, ClearInv, NEW r \in Requests, RowStep(r)
  PROVE  ClearInv'
<1> DEFINE k == req[r]
<1>1. CASE SaveRow(r)
  <2>1. k.pc = "save" /\ k.file \in DOMAIN rows /\ rows[k.file].path = k.row.path
    BY <1>1, Before DEF SaveRow, At, SaveJobOK
  <2>2. DOMAIN rows' = DOMAIN rows /\ \A f \in DOMAIN rows : rows'[f].path = rows[f].path
    BY <1>1, <2>1 DEF SaveRow, With
  <2>3. req'[r] = Idle /\ Idle.pc = "idle"
    BY <1>1 DEF SaveRow, Finish, TypeInv, Idle
  <2>4. UNCHANGED <<versions, links, folder, objects, uploads, acked>>
    BY <1>1 DEF SaveRow
  <2> QED
    BY <2>1, <2>2, <2>3, <2>4, ClearRests DEF Assigns
<1>2. ASSUME NEW f \in DOMAIN rows,
             ListVersions(r, f) \/ SignUrl(r, f) \/ MoveToTrash(r, f) \/ TrashByPath(r, f)
             \/ Restore(r, f) \/ HardDelete(r, f) \/ Destroy(r, f)
      PROVE  ClearInv'
  <2>f. rows[f] \in File
    BY DEF TypeInv, TypeOK
  <2>1. CASE TrashByPath(r, f)
    <3>1. \A g \in DOMAIN rows : rows'[g].path = rows[g].path
      <4>1. \A g \in DOMAIN rows : rows'[g] = IF g = f THEN [rows[f] EXCEPT !.deleted = TRUE] ELSE rows[g]
        BY <2>1 DEF TrashByPath
      <4>2. [rows[f] EXCEPT !.deleted = TRUE].path = rows[f].path
        BY <2>f DEF File
      <4> QED
        BY <4>1, <4>2
    <3>2. DOMAIN rows' = DOMAIN rows /\ req'[r] = req[r] /\ req[r].pc = "idle"
          /\ UNCHANGED <<versions, links, folder, objects, uploads, acked>>
      BY <2>1 DEF TrashByPath, May
    <3> QED
      BY <3>1, <3>2, ClearRests DEF Assigns
  <2>2. CASE SignUrl(r, f)
    BY <2>2, ClearRead DEF SignUrl
  <2>3. CASE MoveToTrash(r, f)
    <3>1. [rows[f] EXCEPT !.deleted = TRUE].path = rows[f].path
      BY <2>f DEF File
    <3> QED
      BY <2>3, <3>1, ClearRead DEF MoveToTrash
  <2>4. CASE Restore(r, f)
    <3>1. [rows[f] EXCEPT !.deleted = FALSE].path = rows[f].path
      BY <2>f DEF File
    <3> QED
      BY <2>4, <3>1, ClearRead DEF Restore
  <2>5. CASE HardDelete(r, f) \/ Destroy(r, f)
    <3>1. PICK op, d : Delete(r, op, f, d)
      BY <2>5 DEF HardDelete, Destroy
    <3> DEFINE j == [[Idle EXCEPT !.pc = "remove", !.file = f, !.row = rows[f]] EXCEPT !.op = op]
    <3>2. j.pc = "remove" /\ j.file = f /\ j.row = rows[f]
      BY DEF Idle
    <3>3. req'[r] = j /\ req[r].pc \notin Assigns
          /\ UNCHANGED <<rows, versions, links, folder, objects, uploads, acked>>
      BY <3>1 DEF Delete, Start, May, Assigns, TypeInv
    <3> HIDE DEF j
    <3> QED
      BY <3>2, <3>3, ClearRests
  <2>6. CASE ListVersions(r, f)
    BY <2>6, ClearListVersions
  <2> QED
    BY <1>2, <2>1, <2>2, <2>3, <2>4, <2>5, <2>6
<1>3. ASSUME NEW f \in DOMAIN rows, NEW p \in Paths, Rename(r, f, p) PROVE FALSE
  BY <1>3 DEF Rename, RenameTo, ReadRow, May, OneByOne
<1> QED
  BY <1>1, <1>2, <1>3, ClearObject, ClearCommit DEF RowStep

LEMMA ClearLinkStep ==
  ASSUME OneByOne, TypeInv, ClearInv, NEW r \in Requests, LinkStep(r)
  PROVE  FALSE
<1>1. ~May("remove_policy", r) /\ ~May("folder_policy", r)
  BY DEF May, OneByOne
<1>2. ~At(r, "refold")
  BY Before DEF At, SaveJobOK
<1> QED
  BY <1>1, <1>2 DEF LinkStep, RemovePolicy, FolderPolicy, DropFolder, AssignFolder

(***************************************************************************)
(* assign_policy                                                           *)
(***************************************************************************)

\* It reads the latest version, decrypts what that was encrypted under, and encrypts it for
\* the policies that will be linked.
LEMMA ClearAssign ==
  ASSUME OneByOne, TypeInv, ClearInv, NEW r \in Requests, NEW p \in Paths,
         NEW policy \in Policies, NEW replace \in BOOLEAN, AssignPolicy(r, p, policy, replace)
  PROVE  ClearInv'
<1>1. PICK f \in DOMAIN rows :
         LET linked == PoliciesOf(f) \cap AbePolicies
             none == VersionsOf(f) = {}
             phys == IF none THEN PlainName(p) ELSE (CHOOSE v \in versions : IsLatest(v, f)).phys
             pol == IF none THEN NoPolicy ELSE (CHOOSE v \in versions : IsLatest(v, f)).pol
             num == IF none THEN 0 ELSE (CHOOSE v \in versions : IsLatest(v, f)).num
             newPol == IF replace \/ linked = {} THEN ChosenPol(policy)
                                                 ELSE linked \cup ChosenPol(policy)
             reencrypt == replace \/ policy \in AbePolicies
             bytes == IF linked = {} THEN objects[phys] ELSE Decrypt(objects[phys], Applied(pol, p))
         IN  /\ IsRowAt(f, p)
             /\ replace \/ policy \notin PoliciesOf(f)
             /\ reencrypt => phys \in DOMAIN objects /\ bytes # Refused
             /\ Start(r, "assign",
                  [Idle EXCEPT !.pc = IF replace THEN "drop" ELSE "assign", !.file = f,
                     !.policy = policy, !.num = num, !.pol = IF reencrypt THEN newPol ELSE NoPolicy,
                     !.phys = ReencryptedName(phys),
                     !.obj = IF reencrypt THEN Encrypt(bytes, newPol) ELSE @])
  BY DEF AssignPolicy
<1> DEFINE linked == PoliciesOf(f) \cap AbePolicies
           none == VersionsOf(f) = {}
           latest == CHOOSE v \in versions : IsLatest(v, f)
           phys == IF none THEN PlainName(p) ELSE latest.phys
           pol == IF none THEN NoPolicy ELSE latest.pol
           num == IF none THEN 0 ELSE latest.num
           newPol == IF replace \/ linked = {} THEN ChosenPol(policy) ELSE linked \cup ChosenPol(policy)
           reencrypt == replace \/ policy \in AbePolicies
           bytes == IF linked = {} THEN objects[phys] ELSE Decrypt(objects[phys], Applied(pol, p))
           obj == IF reencrypt THEN Encrypt(bytes, newPol) ELSE Idle.obj
           pc == IF replace THEN "drop" ELSE "assign"
           written == IF reencrypt THEN newPol ELSE NoPolicy
           name == ReencryptedName(phys)
           j == [[Idle EXCEPT !.pc = pc, !.file = f, !.policy = policy, !.num = num,
                     !.pol = written, !.phys = name, !.obj = obj] EXCEPT !.op = "assign"]
<1>k. req[r].pc = "idle" /\ TablesOK /\ HeldOK(req[r]) /\ FollowedOK(req[r])
  BY Before DEF AssignPolicy, May
<1>2. /\ reencrypt => phys \in DOMAIN objects
      /\ replace \/ policy \notin PoliciesOf(f)
      /\ rows[f].path = p
  <2>1. IsRowAt(f, p)
    BY <1>1
  <2>2. rows[f].path = p
    BY <2>1, NoNobody DEF IsRowAt
  <2> QED
    BY <1>1, <2>2
<1>3. req'[r] = j
  BY <1>1 DEF Start, TypeInv
<1>4. ~none => latest \in versions /\ IsLatest(latest, f)
  BY LatestExists DEF TypeInv, TypeOK
<1>5. j.op = "assign" /\ j.pc = pc /\ j.file = f /\ j.policy = policy /\ j.num = num
      /\ j.pol = written /\ j.phys = name /\ j.obj = obj
  BY DEF Idle
<1>6. UNCHANGED <<rows, versions, links, folder, objects, uploads, acked>>
  BY DEF AssignPolicy
<1> HIDE DEF j, latest
<1>7. ~none => /\ latest.phys \in Name /\ latest.num \in Nat \ {0} /\ latest.pol \in Policy
               /\ latest.file = f
  BY <1>4, Constants DEF TypeInv, TypeOK, Version, VersionNumbers, IsLatest, VersionsOf
<1>8. name.path = p /\ name.uuid = 0 /\ (num # 0 => ~none /\ num = latest.num /\ name.num = num)
  <2>1. CASE none
    BY <2>1, PlainTyped DEF ReencryptedName, PlainName
  <2>2. CASE ~none
    <3>1. NamedFor(latest.phys, p, latest.num)
      BY <1>k, <1>2, <1>4, <1>7, <2>2 DEF TablesOK
    <3>2. /\ ReencryptedName(latest.phys).path = latest.phys.path
          /\ ReencryptedName(latest.phys).num = latest.phys.num
          /\ ReencryptedName(latest.phys).uuid = latest.phys.uuid
      BY <1>7, <2>2 DEF ReencryptedName, Name
    <3> QED
      BY <2>2, <3>1, <3>2 DEF NamedFor
  <2> QED
    BY <2>1, <2>2
<1>9. num = 0 => none
  BY <1>7
<1>10. newPol \in SUBSET AbePolicies /\ newPol # NoPolicy
       /\ newPol = IF replace THEN {policy} \cap AbePolicies
                   ELSE (PoliciesOf(f) \cup {policy}) \cap AbePolicies
  <2>1. ChosenPol(policy) = {policy} \cap AbePolicies
    BY Constants DEF ChosenPol
  <2>2. newPol = IF replace THEN {policy} \cap AbePolicies
                 ELSE (PoliciesOf(f) \cup {policy}) \cap AbePolicies
    <3>1. CASE replace \/ linked # {}
      BY <2>1, <3>1
    <3>2. CASE ~replace /\ linked = {}
      <4>1. (PoliciesOf(f) \cup {policy}) \cap AbePolicies = {policy} \cap AbePolicies
        BY <3>2
      <4> QED
        BY <2>1, <3>2, <4>1
    <3> QED
      BY <3>1, <3>2
  <2>3. newPol \in SUBSET AbePolicies
    BY <2>2
  <2> HIDE DEF newPol
  <2> QED
    BY <2>2, <2>3, Constants
<1>11. ASSUME reencrypt, NEW a \in acked, a.file = f, a.num = num
       PROVE  obj = [data |-> a.data, enc |-> Sealed(newPol)]
  <2>1. PICK v \in versions :
           /\ v.file = a.file /\ v.num = a.num
           /\ v.phys \in DOMAIN objects /\ objects[v.phys].data = a.data
           /\ objects[v.phys].enc = Sealed(v.pol)
    BY <1>k DEF HeldOK
  <2>2. ~none /\ a.num = latest.num
    BY <1>11, <2>1 DEF VersionsOf
  <2>3. v = latest
    BY <1>k, <1>4, <1>7, <1>11, <2>1, <2>2 DEF TablesOK
  <2>4. Fits(latest.pol, linked)
    <3>1. latest \in Acked /\ IsLatest(latest, latest.file)
      BY <1>4, <1>7, <1>11, <2>2 DEF Acked
    <3> QED
      BY <1>k, <1>7, <2>2, <3>1 DEF FollowedOK, Reencrypts, Assigns, Linked
  <2>5. objects[latest.phys] = [data |-> a.data, enc |-> Sealed(latest.pol)]
    <3>1. objects[latest.phys] \in Object
      BY <2>1, <2>3 DEF TypeInv, TypeOK
    <3> QED
      BY <2>1, <2>3, <3>1 DEF Object
  <2>6. bytes = [data |-> a.data, enc |-> <<>>]
    <3>1. CASE linked = {}
      BY <2>2, <2>4, <2>5, <3>1 DEF Fits, Sealed
    <3>2. CASE linked # {}
      <4>1. bytes = Decrypt(objects[latest.phys], Applied(latest.pol, p))
        BY <2>2, <3>2
      <4> QED
        BY <1>7, <2>2, <2>5, <4>1, Opened
    <3> QED
      BY <3>1, <3>2
  <2> HIDE DEF bytes, newPol
  <2>7. newPol \in Policy
    BY <1>10 DEF Policy
  <2>8. Encrypt(bytes, newPol) = [data |-> a.data, enc |-> Sealed(newPol)]
    BY <1>10, <2>6, <2>7, SealedBy
  <2> QED
    BY <1>11, <2>8
<1> HIDE DEF phys, obj, name, num, newPol, none
<1>12. j.pc \in {"drop", "assign"} /\ (j.pc = "drop" <=> replace)
  BY <1>5
<1>13. TablesOK'
  BY <1>k, <1>6 DEF TablesOK
<1>14. HeldOK(req[r])'
  BY <1>k, <1>6 DEF HeldOK
<1>15. FollowedOK(req[r])'
  BY <1>k, <1>6 DEF FollowedOK, Reencrypts, Assigns, Acked, IsLatest, VersionsOf, Linked, PoliciesOf
<1>16. UploadJobOK(req[r])' /\ SaveJobOK(req[r])'
  BY <1>3, <1>12 DEF UploadJobOK, SaveJobOK, Writing
<1>17. AssignJobOK(req[r])'
  <2>1. PoliciesOf(req[r].file)' = PoliciesOf(f) /\ VersionsOf(req[r].file)' = VersionsOf(f)
    BY <1>3, <1>5, <1>6 DEF PoliciesOf, VersionsOf
  <2>2. /\ req'[r].op = "assign" /\ req'[r].file = f /\ f \in DOMAIN rows'
        /\ req'[r].phys.path = rows'[f].path /\ req'[r].phys.uuid = 0
    BY <1>2, <1>3, <1>5, <1>6, <1>8
  <2>3. IF req'[r].num = 0 THEN VersionsOf(f) = {}
        ELSE req'[r].phys.num = req'[r].num /\ latest \in versions /\ IsLatest(latest, f) /\ latest.num = req'[r].num
    BY <1>3, <1>4, <1>5, <1>8, <1>9 DEF none
  <2>4. \A v \in versions : IsLatest(v, f) => IsLatest(v, req[r].file)'
    BY <1>6, <2>1 DEF IsLatest
  <2>5. req'[r].pol # NoPolicy => \A a \in acked' : a.file = f /\ a.num = req'[r].num =>
              req'[r].obj = [data |-> a.data, enc |-> Sealed(req'[r].pol)]
    BY <1>3, <1>5, <1>6, <1>11
  <2>6. req'[r].pc = "drop" => req'[r].pol # NoPolicy /\ req'[r].pol = {req'[r].policy} \cap AbePolicies
    BY <1>3, <1>5, <1>10, <1>12
  <2>7. req'[r].pc = "assign" =>
          /\ req'[r].policy \notin PoliciesOf(f)
          /\ IF req'[r].pol = NoPolicy THEN req'[r].policy \notin AbePolicies
             ELSE req'[r].pol = (PoliciesOf(f) \cup {req'[r].policy}) \cap AbePolicies
    BY <1>2, <1>3, <1>5, <1>10, <1>12
  <2> QED
    BY <1>3, <1>6, <1>12, <2>1, <2>2, <2>3, <2>4, <2>5, <2>6, <2>7 DEF AssignJobOK, Assigns
<1> QED
  BY <1>13, <1>14, <1>15, <1>16, <1>17, After

LEMMA ClearAssignDrop ==
  ASSUME OneByOne, TypeInv, ClearInv, NEW r \in Requests, AssignDropLinks(r)
  PROVE  ClearInv'
<1> DEFINE k == req[r]
           j == [k EXCEPT !.pc = "assign"]
<1>k. /\ k \in Job /\ k.pc = "drop" /\ TablesOK /\ HeldOK(k) /\ FollowedOK(k)
      /\ AssignJobOK(k)
  BY Before DEF AssignDropLinks, At
<1>1. /\ j.pc = "assign" /\ j.op = k.op /\ j.file = k.file /\ j.row = k.row /\ j.num = k.num
      /\ j.phys = k.phys /\ j.pol = k.pol /\ j.obj = k.obj /\ j.policy = k.policy
  BY <1>k DEF Job
<1>2. req'[r] = j
  BY DEF AssignDropLinks, Goto, TypeInv
<1>3. links' = {l \in links : l.file # k.file}
      /\ UNCHANGED <<rows, versions, folder, objects, uploads, acked>>
  BY DEF AssignDropLinks
<1>4. k.pol # NoPolicy /\ k.pol = {k.policy} \cap AbePolicies
  BY <1>k DEF AssignJobOK
<1> HIDE DEF k, j
<1>5. \A f : PoliciesOf(f)' = IF f = k.file THEN {} ELSE PoliciesOf(f)
  <2>1. ASSUME NEW f PROVE PoliciesOf(f)' = {l.policy : l \in {m \in links' : m.file = f}}
    BY DEF PoliciesOf
  <2>2. ASSUME NEW f
        PROVE  {l.policy : l \in {m \in links' : m.file = f}} = IF f = k.file THEN {} ELSE PoliciesOf(f)
    BY <1>3 DEF PoliciesOf
  <2> QED
    BY <2>1, <2>2
<1>6. TablesOK'
  BY <1>k, <1>3 DEF TablesOK
<1>7. HeldOK(req[r])'
  BY <1>k, <1>3 DEF HeldOK
<1>8. FollowedOK(req[r])'
  <2>1. ASSUME NEW v \in Acked', IsLatest(v, v.file)', v.file # k.file
        PROVE  Fits(v.pol, Linked(v.file)')
    <3>1. v \in Acked /\ IsLatest(v, v.file)
      BY <1>3, <2>1 DEF Acked, IsLatest, VersionsOf
    <3>2. Linked(v.file)' = Linked(v.file)
      BY <1>5, <2>1 DEF Linked
    <3> QED
      BY <1>k, <2>1, <3>1, <3>2 DEF FollowedOK, Reencrypts
  <2>2. \A f : f = k.file => Reencrypts(req[r], f)'
    BY <1>1, <1>2, <1>4 DEF Reencrypts, Assigns
  <2> QED
    BY <2>1, <2>2 DEF FollowedOK
<1>9. UploadJobOK(req[r])' /\ SaveJobOK(req[r])'
  BY <1>1, <1>2 DEF UploadJobOK, SaveJobOK, Writing
<1>10. AssignJobOK(req[r])'
  <2>1. PoliciesOf(req[r].file)' = {} /\ VersionsOf(req[r].file)' = VersionsOf(k.file)
    BY <1>1, <1>2, <1>3, <1>5 DEF VersionsOf
  <2>2. \A v \in versions : IsLatest(v, k.file) => IsLatest(v, req[r].file)'
    BY <1>1, <1>2, <1>3, <2>1 DEF IsLatest
  <2>3. /\ req'[r].op = "assign" /\ req'[r].file \in DOMAIN rows'
        /\ req'[r].phys.path = rows'[req'[r].file].path /\ req'[r].phys.uuid = 0
    BY <1>k, <1>1, <1>2, <1>3 DEF AssignJobOK, Assigns
  <2>4. IF req'[r].num = 0 THEN VersionsOf(k.file) = {}
        ELSE req'[r].phys.num = req'[r].num /\ \E v \in versions' : IsLatest(v, req[r].file)' /\ v.num = req'[r].num
    BY <1>k, <1>1, <1>2, <1>3, <2>2 DEF AssignJobOK, Assigns
  <2>5. \A a \in acked' : a.file = req'[r].file /\ a.num = req'[r].num =>
              req'[r].obj = [data |-> a.data, enc |-> Sealed(req'[r].pol)]
    BY <1>k, <1>1, <1>2, <1>3, <1>4 DEF AssignJobOK, Assigns
  <2>6. req'[r].pol # NoPolicy /\ req'[r].pol = ({} \cup {req'[r].policy}) \cap AbePolicies
    BY <1>1, <1>2, <1>4
  <2> QED
    BY <1>1, <1>2, <2>1, <2>3, <2>4, <2>5, <2>6 DEF AssignJobOK
<1> QED
  BY <1>6, <1>7, <1>8, <1>9, <1>10, After

LEMMA ClearAssignLink ==
  ASSUME OneByOne, TypeInv, ClearInv, NEW r \in Requests, AssignLink(r)
  PROVE  ClearInv'
<1> DEFINE k == req[r]
           link == [file |-> k.file, policy |-> k.policy]
           j == [k EXCEPT !.pc = "reput"]
<1>k. /\ k \in Job /\ k.pc = "assign" /\ TablesOK /\ HeldOK(k) /\ FollowedOK(k)
      /\ AssignJobOK(k)
  BY Before DEF AssignLink, At
<1>1. /\ j.pc = "reput" /\ j.op = k.op /\ j.file = k.file /\ j.row = k.row /\ j.num = k.num
      /\ j.phys = k.phys /\ j.pol = k.pol /\ j.obj = k.obj /\ j.policy = k.policy
  BY <1>k DEF Job
<1>2. req'[r] = IF k.pol = NoPolicy THEN Idle ELSE j
  BY DEF AssignLink, Goto, Finish, TypeInv
<1>3. links' = links \cup {link} /\ link.file = k.file /\ link.policy = k.policy
      /\ UNCHANGED <<rows, versions, folder, objects, uploads, acked>>
  BY DEF AssignLink
<1>4. /\ k.file \in DOMAIN rows
      /\ IF k.pol = NoPolicy THEN k.policy \notin AbePolicies
         ELSE k.pol = (PoliciesOf(k.file) \cup {k.policy}) \cap AbePolicies
  BY <1>k DEF AssignJobOK, Assigns
<1>i. Idle.pc = "idle"
  BY DEF Idle
<1>5. \A f : PoliciesOf(f)' = IF f = k.file THEN PoliciesOf(f) \cup {k.policy} ELSE PoliciesOf(f)
  <2>1. ASSUME NEW f PROVE PoliciesOf(f)' = {l.policy : l \in {m \in links' : m.file = f}}
    BY DEF PoliciesOf
  <2>2. ASSUME NEW f
        PROVE  {l.policy : l \in {m \in links' : m.file = f}}
                  = IF f = k.file THEN PoliciesOf(f) \cup {k.policy} ELSE PoliciesOf(f)
    <3> HIDE DEF link
    <3> QED
      BY <1>3 DEF PoliciesOf
  <2> QED
    BY <2>1, <2>2
<1> HIDE DEF k, j, link
<1>6. TablesOK'
  BY <1>k, <1>3, <1>4 DEF TablesOK
<1>7. HeldOK(req[r])'
  BY <1>k, <1>3 DEF HeldOK
<1>8. FollowedOK(req[r])'
  <2>1. ASSUME NEW v \in Acked', IsLatest(v, v.file)', v.file # k.file \/ k.pol = NoPolicy
        PROVE  Fits(v.pol, Linked(v.file)')
    <3>1. v \in Acked /\ IsLatest(v, v.file)
      BY <1>3, <2>1 DEF Acked, IsLatest, VersionsOf
    <3>2. Linked(v.file)' = Linked(v.file)
      BY <1>4, <1>5, <2>1 DEF Linked
    <3> QED
      BY <1>k, <2>1, <3>1, <3>2 DEF FollowedOK, Reencrypts
  <2>2. \A f : k.pol # NoPolicy /\ f = k.file => Reencrypts(req[r], f)'
    BY <1>1, <1>2 DEF Reencrypts, Assigns
  <2> QED
    BY <2>1, <2>2 DEF FollowedOK
<1>9. UploadJobOK(req[r])' /\ SaveJobOK(req[r])'
  BY <1>1, <1>2, <1>i DEF UploadJobOK, SaveJobOK, Writing
<1>10. AssignJobOK(req[r])'
  <2>0. CASE k.pol = NoPolicy
    BY <1>2, <1>i, <2>0 DEF AssignJobOK, Assigns
  <2>a. CASE k.pol # NoPolicy
    <3>0. req'[r] = j
      BY <1>2, <2>a
    <3>1. VersionsOf(req[r].file)' = VersionsOf(k.file)
      BY <1>1, <1>3, <3>0 DEF VersionsOf
    <3>2. \A v \in versions : IsLatest(v, k.file) => IsLatest(v, req[r].file)'
      BY <1>1, <1>3, <3>0, <3>1 DEF IsLatest
    <3>3. /\ req'[r].op = "assign" /\ req'[r].file \in DOMAIN rows'
          /\ req'[r].phys.path = rows'[req'[r].file].path /\ req'[r].phys.uuid = 0
      BY <1>k, <1>1, <1>3, <3>0 DEF AssignJobOK, Assigns
    <3>4. IF req'[r].num = 0 THEN VersionsOf(k.file) = {}
          ELSE req'[r].phys.num = req'[r].num /\ \E v \in versions' : IsLatest(v, req[r].file)' /\ v.num = req'[r].num
      BY <1>k, <1>1, <1>3, <3>0, <3>2 DEF AssignJobOK, Assigns
    <3>5. \A a \in acked' : a.file = req'[r].file /\ a.num = req'[r].num =>
                req'[r].obj = [data |-> a.data, enc |-> Sealed(req'[r].pol)]
      BY <1>k, <1>1, <1>3, <2>a, <3>0 DEF AssignJobOK, Assigns
    <3>6. req'[r].pol # NoPolicy /\ req'[r].pol = Linked(req[r].file)'
      BY <1>1, <1>4, <1>5, <2>a, <3>0 DEF Linked
    <3> QED
      BY <1>1, <3>0, <3>1, <3>3, <3>4, <3>5, <3>6 DEF AssignJobOK
  <2> QED
    BY <2>0, <2>a
<1> QED
  BY <1>6, <1>7, <1>8, <1>9, <1>10, After

\* The name it writes is that of the version it will save, if that second has passed
\* already; it is no other version's.
LEMMA ClearAssignPut ==
  ASSUME OneByOne, TypeInv, ClearInv, NEW r \in Requests, AssignPut(r)
  PROVE  ClearInv'
<1> DEFINE k == req[r]
           j == [k EXCEPT !.pc = "resave"]
<1>k. /\ k \in Job /\ k.pc = "reput" /\ TablesOK /\ HeldOK(k) /\ FollowedOK(k)
      /\ AssignJobOK(k)
  BY Before DEF AssignPut, At
<1>1. /\ j.pc = "resave" /\ j.op = k.op /\ j.file = k.file /\ j.row = k.row /\ j.num = k.num
      /\ j.phys = k.phys /\ j.pol = k.pol /\ j.obj = k.obj /\ j.policy = k.policy
  BY <1>k DEF Job
<1>2. req'[r] = j
  BY DEF AssignPut, Goto, TypeInv
<1>3. objects' = With(objects, k.phys, k.obj)
      /\ UNCHANGED <<rows, versions, links, folder, uploads, acked>>
  BY DEF AssignPut
<1>4. /\ k.op = "assign" /\ k.file \in DOMAIN rows
      /\ k.phys.path = rows[k.file].path /\ k.phys.uuid = 0
      /\ IF k.num = 0 THEN VersionsOf(k.file) = {}
         ELSE k.phys.num = k.num /\ \E v \in versions : IsLatest(v, k.file) /\ v.num = k.num
      /\ \A a \in acked : a.file = k.file /\ a.num = k.num =>
              k.obj = [data |-> a.data, enc |-> Sealed(k.pol)]
      /\ k.pol # NoPolicy /\ k.pol = Linked(k.file)
  BY <1>k DEF AssignJobOK, Assigns
<1> HIDE DEF k, j
<1>5. ASSUME NEW v \in versions, v.phys = k.phys PROVE v.file = k.file /\ v.num = k.num
  <2>1. v.file \in DOMAIN rows /\ NamedFor(v.phys, rows[v.file].path, v.num)
    BY <1>k DEF TablesOK
  <2>2. v.file = k.file
    <3>1. rows[v.file].path = rows[k.file].path
      BY <1>4, <1>5, <2>1 DEF NamedFor
    <3> QED
      BY <1>k, <1>4, <2>1, <3>1 DEF TablesOK
  <2>3. k.num # 0
    BY <1>4, <2>2 DEF VersionsOf
  <2> QED
    BY <1>4, <1>5, <2>1, <2>2, <2>3 DEF NamedFor
<1>6. TablesOK'
  BY <1>k, <1>3 DEF TablesOK
<1>7. HeldOK(req[r])'
  <2>1. ASSUME NEW a \in acked
        PROVE  \E v \in versions :
                 /\ v.file = a.file /\ v.num = a.num
                 /\ v.phys \in DOMAIN objects' /\ objects'[v.phys].data = a.data
                 /\ objects'[v.phys].enc = Sealed(v.pol) \/ (k.file = a.file /\ k.num = a.num)
    <3>1. PICK v \in versions :
                 /\ v.file = a.file /\ v.num = a.num
                 /\ v.phys \in DOMAIN objects /\ objects[v.phys].data = a.data
                 /\ objects[v.phys].enc = Sealed(v.pol)
      BY <1>k DEF HeldOK
    <3>2. CASE v.phys # k.phys
      BY <1>3, <3>1, <3>2 DEF With
    <3>3. CASE v.phys = k.phys
      <4>1. v.file = k.file /\ v.num = k.num
        BY <1>5, <3>3
      <4>a. k.file = a.file /\ k.num = a.num
        BY <3>1, <4>1
      <4>2. k.obj.data = a.data
        <5>1. k.obj = [data |-> a.data, enc |-> Sealed(k.pol)]
          BY <1>4, <4>a
        <5> QED
          BY <5>1
      <4> QED
        BY <1>3, <3>1, <3>3, <4>2, <4>a DEF With
    <3> QED
      BY <3>2, <3>3
  <2> QED
    BY <1>1, <1>2, <1>3, <2>1 DEF HeldOK
<1>8. FollowedOK(req[r])'
  <2>1. \A f : Linked(f)' = Linked(f) /\ (Reencrypts(k, f) => Reencrypts(req[r], f)')
    BY <1>1, <1>2, <1>3 DEF Linked, PoliciesOf, Reencrypts, Assigns
  <2>2. \A v : (v \in Acked' => v \in Acked) /\ (IsLatest(v, v.file)' => IsLatest(v, v.file))
    BY <1>3 DEF Acked, IsLatest, VersionsOf
  <2> QED
    BY <1>k, <2>1, <2>2 DEF FollowedOK
<1>9. UploadJobOK(req[r])' /\ SaveJobOK(req[r])'
  BY <1>1, <1>2 DEF UploadJobOK, SaveJobOK, Writing
<1>10. AssignJobOK(req[r])'
  <2>1. Linked(req[r].file)' = Linked(k.file) /\ VersionsOf(req[r].file)' = VersionsOf(k.file)
    BY <1>1, <1>2, <1>3 DEF VersionsOf, Linked, PoliciesOf
  <2>2. \A v \in versions : IsLatest(v, k.file) => IsLatest(v, req[r].file)'
    BY <1>1, <1>2, <1>3, <2>1 DEF IsLatest
  <2>3. objects'[k.phys] = k.obj /\ k.phys \in DOMAIN objects'
    BY <1>3 DEF With
  <2>4. IF req'[r].num = 0 THEN VersionsOf(k.file) = {}
        ELSE req'[r].phys.num = req'[r].num /\ \E v \in versions' : IsLatest(v, req[r].file)' /\ v.num = req'[r].num
    BY <1>1, <1>2, <1>3, <1>4, <2>2
  <2> QED
    BY <1>1, <1>2, <1>3, <1>4, <2>1, <2>3, <2>4 DEF AssignJobOK
<1> QED
  BY <1>6, <1>7, <1>8, <1>9, <1>10, After

\* The version it changes is still the latest: nothing came in between.
LEMMA ClearAssignSave ==
  ASSUME OneByOne, TypeInv, ClearInv, NEW r \in Requests, AssignSaveVersion(r)
  PROVE  ClearInv'
<1> DEFINE k == req[r]
           old == {v \in VersionsOf(k.file) : v.num = k.num /\ v.phys.uuid = k.phys.uuid}
           Changed(v) == [v EXCEPT !.phys = k.phys, !.pol = k.pol]
<1>k. /\ k \in Job /\ k.pc = "resave" /\ TablesOK /\ HeldOK(k) /\ FollowedOK(k)
      /\ AssignJobOK(k)
  BY Before DEF AssignSaveVersion, At
<1>1. req'[r] = Idle /\ Idle.pc = "idle"
  BY DEF AssignSaveVersion, Finish, TypeInv, Idle
<1>2. versions' = (versions \ old) \cup {Changed(v) : v \in old}
      /\ UNCHANGED <<rows, links, folder, objects, uploads, acked>>
  BY DEF AssignSaveVersion
<1>3. /\ k.op = "assign" /\ k.file \in DOMAIN rows
      /\ k.phys.path = rows[k.file].path /\ k.phys.uuid = 0
      /\ IF k.num = 0 THEN VersionsOf(k.file) = {}
         ELSE k.phys.num = k.num /\ \E v \in versions : IsLatest(v, k.file) /\ v.num = k.num
      /\ \A a \in acked : a.file = k.file /\ a.num = k.num =>
              k.obj = [data |-> a.data, enc |-> Sealed(k.pol)]
      /\ k.pol # NoPolicy /\ k.pol = Linked(k.file)
      /\ k.phys \in DOMAIN objects /\ objects[k.phys] = k.obj
  BY <1>k DEF AssignJobOK, Assigns
<1>4. \A v \in versions : v \in old <=> v.file = k.file /\ v.num = k.num
  BY <1>k, <1>3 DEF VersionsOf, TablesOK, NamedFor
<1>5. ASSUME NEW v \in old
      PROVE  /\ v \in versions /\ Changed(v).file = v.file /\ Changed(v).num = v.num
             /\ Changed(v).phys = k.phys /\ Changed(v).pol = k.pol
             /\ v.file = k.file /\ v.num = k.num /\ k.phys.num = k.num
  <2>1. v \in versions /\ v.file = k.file /\ v.num = k.num
    BY <1>4 DEF VersionsOf
  <2>2. k.num # 0
    BY <1>3, <2>1 DEF VersionsOf
  <2> QED
    BY <1>3, <2>1, <2>2 DEF TypeInv, TypeOK, Version
<1>n. \A v \in versions : v.num \in Nat
  BY Constants DEF TypeInv, TypeOK, Version, VersionNumbers
<1> HIDE DEF k, old, Changed
<1>6. ASSUME NEW w \in versions'
      PROVE  \E v \in versions : /\ w.file = v.file /\ w.num = v.num
                                 /\ w = IF v \in old THEN Changed(v) ELSE v
  BY <1>2, <1>5
<1>7. TablesOK'
  <2>1. ASSUME NEW w \in versions'
        PROVE  w.file \in DOMAIN rows /\ NamedFor(w.phys, rows[w.file].path, w.num)
    <3>1. PICK v \in versions : /\ w.file = v.file /\ w.num = v.num
                                /\ w = IF v \in old THEN Changed(v) ELSE v
      BY <1>6
    <3>2. CASE v \in old
      <4>1. w.phys = k.phys /\ w.file = k.file /\ w.num = k.num /\ k.phys.num = k.num
        BY <1>5, <3>1, <3>2
      <4> QED
        BY <1>3, <4>1 DEF NamedFor
    <3>3. CASE v \notin old
      BY <1>k, <3>1, <3>3 DEF TablesOK
    <3> QED
      BY <3>2, <3>3
  <2>2. ASSUME NEW w \in versions', NEW x \in versions', w.file = x.file, w.num = x.num PROVE w = x
    <3>1. PICK v \in versions : /\ w.file = v.file /\ w.num = v.num
                                /\ w = IF v \in old THEN Changed(v) ELSE v
      BY <1>6
    <3>2. PICK u \in versions : /\ x.file = u.file /\ x.num = u.num
                                /\ x = IF u \in old THEN Changed(u) ELSE u
      BY <1>6
    <3>3. u = v
      BY <1>k, <2>2, <3>1, <3>2 DEF TablesOK
    <3> QED
      BY <3>1, <3>2, <3>3
  <2> QED
    BY <1>k, <1>2, <2>1, <2>2 DEF TablesOK
<1>8. HeldOK(req[r])'
  <2>1. ASSUME NEW a \in acked
        PROVE  \E w \in versions' :
                 /\ w.file = a.file /\ w.num = a.num
                 /\ w.phys \in DOMAIN objects /\ objects[w.phys].data = a.data
                 /\ objects[w.phys].enc = Sealed(w.pol)
    <3>1. PICK v \in versions :
                 /\ v.file = a.file /\ v.num = a.num
                 /\ v.phys \in DOMAIN objects /\ objects[v.phys].data = a.data
                 /\ objects[v.phys].enc = Sealed(v.pol) \/ (k.file = a.file /\ k.num = a.num)
      BY <1>k DEF HeldOK
    <3>2. CASE v \in old
      <4>1. /\ Changed(v) \in versions' /\ Changed(v).file = a.file /\ Changed(v).num = a.num
            /\ Changed(v).phys = k.phys /\ Changed(v).pol = k.pol
            /\ a.file = k.file /\ a.num = k.num
        BY <1>2, <1>5, <3>1, <3>2
      <4>2. objects[k.phys] = [data |-> a.data, enc |-> Sealed(k.pol)] /\ k.phys \in DOMAIN objects
        BY <1>3, <4>1
      <4>3. objects[k.phys].data = a.data /\ objects[k.phys].enc = Sealed(k.pol)
        BY <4>2
      <4> QED
        BY <4>1, <4>2, <4>3
    <3>3. CASE v \notin old
      <4>1. v \in versions'
        BY <1>2, <3>3
      <4>2. ~(k.file = a.file /\ k.num = a.num)
        BY <1>4, <3>1, <3>3
      <4> QED
        BY <3>1, <4>1, <4>2
    <3> QED
      BY <3>2, <3>3
  <2> QED
    BY <1>2, <2>1 DEF HeldOK
<1>9. FollowedOK(req[r])'
  <2>1. ASSUME NEW w \in versions', NEW a \in acked, a.file = w.file, a.num = w.num,
               \A u \in versions' : u.file = w.file => u.num <= w.num
        PROVE  Fits(w.pol, Linked(w.file))
    <3>1. PICK v \in versions : /\ w.file = v.file /\ w.num = v.num
                                /\ w = IF v \in old THEN Changed(v) ELSE v
      BY <1>6
    <3>2. CASE v.file = k.file
      <4>1. k.num # 0
        BY <1>3, <3>1, <3>2 DEF VersionsOf
      <4>2. PICK u \in versions : IsLatest(u, k.file) /\ u.num = k.num
        BY <1>3, <4>1
      <4>3. u \in old
        BY <1>4, <4>2 DEF IsLatest, VersionsOf
      <4>4. Changed(u) \in versions' /\ Changed(u).file = k.file /\ Changed(u).num = k.num
        BY <1>2, <1>5, <4>3
      <4>5. k.num <= v.num
        BY <2>1, <3>1, <3>2, <4>4
      <4>6. v.num <= k.num
        BY <3>1, <3>2, <4>2 DEF IsLatest, VersionsOf
      <4>7. v.num = k.num
        BY <1>n, <3>1, <4>2, <4>5, <4>6
      <4>8. v \in old
        BY <1>4, <3>1, <3>2, <4>7
      <4>9. w.pol = k.pol /\ w.file = k.file
        BY <1>5, <3>1, <4>8
      <4> QED
        BY <1>3, <4>9 DEF Fits
    <3>3. CASE v.file # k.file
      <4>1. w = v
        BY <1>5, <3>1, <3>3
      <4>2. ASSUME NEW u \in versions, u.file = v.file PROVE u.num <= v.num
        <5>1. u \notin old
          BY <1>5, <3>3, <4>2
        <5>2. u \in versions'
          BY <1>2, <5>1
        <5> QED
          BY <2>1, <4>1, <4>2, <5>2
      <4>3. v \in Acked /\ IsLatest(v, v.file)
        BY <2>1, <3>1, <4>1, <4>2 DEF Acked, IsLatest, VersionsOf
      <4> QED
        BY <1>k, <3>3, <4>1, <4>3 DEF FollowedOK, Reencrypts
    <3> QED
      BY <3>2, <3>3
  <2>2. ASSUME NEW w \in Acked', IsLatest(w, w.file)'
        PROVE  Fits(w.pol, Linked(w.file)')
    <3>1. PICK a \in acked : w \in versions' /\ a.file = w.file /\ a.num = w.num
      BY <1>2 DEF Acked
    <3>2. \A u \in versions' : u.file = w.file => u.num <= w.num
      BY <2>2 DEF IsLatest, VersionsOf
    <3>3. Linked(w.file)' = Linked(w.file)
      BY <1>2 DEF Linked, PoliciesOf
    <3> QED
      BY <2>1, <3>1, <3>2, <3>3
  <2> QED
    BY <2>2 DEF FollowedOK
<1>10. UploadJobOK(req[r])' /\ AssignJobOK(req[r])' /\ SaveJobOK(req[r])'
  BY <1>1 DEF UploadJobOK, AssignJobOK, SaveJobOK, Assigns, Writing
<1> QED
  BY <1>7, <1>8, <1>9, <1>10, After

LEMMA ClearAssignStep ==
  ASSUME OneByOne, TypeInv, ClearInv, NEW r \in Requests, AssignStep(r)
  PROVE  ClearInv'
<1>1. ASSUME AssignLinkTaken(r) PROVE FALSE
  <2>1. /\ req[r].file \in DOMAIN rows /\ req[r].policy \notin PoliciesOf(req[r].file)
    BY <1>1, Before DEF AssignLinkTaken, At, AssignJobOK, Assigns
  <2>2. LinkFits(r)
    <3>1. ASSUME [file |-> req[r].file, policy |-> req[r].policy] \in links
          PROVE  req[r].policy \in PoliciesOf(req[r].file)
      BY <3>1 DEF PoliciesOf
    <3> QED
      BY <2>1, <3>1 DEF LinkFits
  <2> QED
    BY <1>1, <2>2 DEF AssignLinkTaken
<1> QED
  BY <1>1, ClearAssign, ClearAssignDrop, ClearAssignLink, ClearAssignPut, ClearAssignSave
     DEF AssignStep

LEMMA ClearStep == ASSUME OneByOne PROVE TypeInv /\ ClearInv /\ [Next]_vars => ClearInv'
<1> SUFFICES ASSUME TypeInv, ClearInv, [Next]_vars PROVE ClearInv'
  OBVIOUS
<1>1. ASSUME NEW r \in Requests, Fail(r) PROVE ClearInv'
  <2>1. req[r].op # "assign"
    BY <1>1 DEF Fail, OneByOne
  <2>2. req[r].pc \notin Assigns
    BY <2>1, Before DEF AssignJobOK
  <2> QED
    BY <1>1, <2>2, ClearEnds DEF Fail
<1>2. CASE Tick \/ UNCHANGED vars
  <2>1. UNCHANGED <<rows, versions, links, folder, objects, req, uploads, acked>>
    BY <1>2 DEF Tick, vars
  <2>2. PICK r : Requests = {r}
    BY DEF OneByOne
  <2>3. TablesOK'
    BY <2>1 DEF TablesOK, ClearInv
  <2>4. HeldOK(req[r])' /\ FollowedOK(req[r])'
    BY <2>1, <2>2, Before DEF HeldOK, FollowedOK, Reencrypts, Acked, IsLatest, VersionsOf, Linked, PoliciesOf
  <2>5. UploadJobOK(req[r])'
    BY <2>1, <2>2, Before DEF UploadJobOK, VersionsOf, PoliciesOf
  <2>6. AssignJobOK(req[r])' /\ SaveJobOK(req[r])'
    BY <2>1, <2>2, Before DEF AssignJobOK, SaveJobOK, IsLatest, VersionsOf, Linked, PoliciesOf
  <2> QED
    BY <2>2, <2>3, <2>4, <2>5, <2>6, After
<1> QED
  BY <1>1, <1>2, ClearUploadStep, ClearRowStep, ClearLinkStep, ClearAssignStep DEF Next

LEMMA ClearInvariant == ASSUME OneByOne PROVE Spec => [](TypeInv /\ ClearInv)
<1>1. Init => TypeInv /\ ClearInv
  BY TypeInit, ClearInit
<1>2. TypeInv /\ ClearInv /\ [Next]_vars => (TypeInv /\ ClearInv)'
  BY TypeStep, ClearStep
<1> QED
  BY <1>1, <1>2, PTL DEF Spec

\* The version of an acknowledged upload, unless its file is being assigned a policy.
LEMMA ClearVersion ==
  ASSUME OneByOne, TypeInv, ClearInv, NEW a \in acked, ~Assigning(a.file)
  PROVE  \E v \in versions :
            /\ v.file = a.file /\ v.num = a.num
            /\ v.phys \in DOMAIN objects
            /\ objects[v.phys] = [data |-> a.data, enc |-> Sealed(v.pol)]
            /\ IsLatest(v, v.file) => Fits(v.pol, Linked(v.file))
<1>1. PICK r : Requests = {r}
  BY DEF OneByOne
<1>2. ~(req[r].pc \in Assigns /\ req[r].file = a.file)
  BY <1>1, Before DEF AssignJobOK, Assigning
<1>3. PICK v \in versions :
            /\ v.file = a.file /\ v.num = a.num
            /\ v.phys \in DOMAIN objects /\ objects[v.phys].data = a.data
            /\ objects[v.phys].enc = Sealed(v.pol)
  BY <1>1, <1>2, Before DEF HeldOK, Assigns
<1>4. objects[v.phys] = [data |-> a.data, enc |-> Sealed(v.pol)]
  <2>1. objects[v.phys] \in Object
    BY <1>3 DEF TypeInv, TypeOK
  <2> QED
    BY <1>3, <2>1 DEF Object
<1>5. IsLatest(v, v.file) => Fits(v.pol, Linked(v.file))
  <2>1. v \in Acked
    BY <1>3 DEF Acked
  <2> QED
    BY <1>1, <1>2, <1>3, <2>1, Before DEF FollowedOK, Reencrypts
<1> QED
  BY <1>3, <1>4, <1>5

\* One request at a time, and any policies assigned, replaced and encrypted for: what an upload
\* was answered 201 for can be downloaded, between assignments (StorageViewSet.download).
THEOREM SerialReadable == ASSUME OneByOne PROVE Spec => []AckedReadable
<1>1. ASSUME TypeInv, ClearInv, NEW a \in acked, ~Assigning(a.file)
      PROVE  \E v \in versions : v.file = a.file /\ v.num = a.num
                                 /\ Served(v) = [data |-> a.data, enc |-> <<>>]
  <2>1. PICK v \in versions :
            /\ v.file = a.file /\ v.num = a.num
            /\ v.phys \in DOMAIN objects
            /\ objects[v.phys] = [data |-> a.data, enc |-> Sealed(v.pol)]
    BY <1>1, ClearVersion
  <2>2. v.pol \in Policy
    BY <1>1 DEF TypeInv, TypeOK, Version
  <2>3. Served(v) = [data |-> a.data, enc |-> <<>>]
    BY <2>1, <2>2, Opened DEF Served
  <2> QED
    BY <2>1, <2>3
<1>2. TypeInv /\ ClearInv => AckedReadable
  BY <1>1 DEF AckedReadable
<1> QED
  BY <1>2, ClearInvariant, PTL

\* The version record of an acknowledged upload is unique, so ClearVersion speaks of it.
LEMMA ClearAcked ==
  ASSUME OneByOne, TypeInv, ClearInv, NEW v \in Acked, ~Assigning(v.file)
  PROVE  /\ v.phys \in DOMAIN objects
         /\ objects[v.phys].enc = Sealed(v.pol)
         /\ IsLatest(v, v.file) => Fits(v.pol, Linked(v.file))
<1>1. PICK a \in acked : v \in versions /\ a.file = v.file /\ a.num = v.num
  BY DEF Acked
<1>2. PICK w \in versions :
            /\ w.file = a.file /\ w.num = a.num
            /\ w.phys \in DOMAIN objects
            /\ objects[w.phys] = [data |-> a.data, enc |-> Sealed(w.pol)]
            /\ IsLatest(w, w.file) => Fits(w.pol, Linked(w.file))
  BY <1>1, ClearVersion
<1>3. w = v
  BY <1>1, <1>2 DEF ClearInv, TablesOK
<1> QED
  BY <1>2, <1>3

\* Under the same conditions the newest version of a file is encrypted for the policies linked to
\* it, and in the clear if none of them asks for encryption (upload, assign_policy).
THEOREM SerialFollows == ASSUME OneByOne PROVE Spec => []EncryptionFollowsLinks
<1>1. ASSUME TypeInv, ClearInv, NEW v \in Acked, IsLatest(v, v.file), ~Assigning(v.file)
      PROVE  IF Linked(v.file) = {} THEN objects[v.phys].enc = <<>>
             ELSE \E P \in SUBSET Linked(v.file) :
                     P # {} /\ objects[v.phys].enc = <<P>> /\ v.pol = P
  <2>1. objects[v.phys].enc = Sealed(v.pol) /\ Fits(v.pol, Linked(v.file))
    BY <1>1, ClearAcked
  <2>2. CASE Linked(v.file) = {}
    BY <2>1, <2>2 DEF Fits, Sealed
  <2>3. CASE Linked(v.file) # {}
    <3>1. v.pol \in SUBSET Linked(v.file) /\ v.pol # {}
      BY <2>1, <2>3 DEF Fits
    <3>2. v.pol # NoPolicy
      BY <3>1, Constants DEF Linked
    <3>3. objects[v.phys].enc = <<v.pol>>
      BY <2>1, <3>1, <3>2 DEF Sealed
    <3> QED
      BY <2>3, <3>1, <3>3
  <2> QED
    BY <2>2, <2>3
<1>2. TypeInv /\ ClearInv => EncryptionFollowsLinks
  <2> SUFFICES ASSUME TypeInv, ClearInv, NEW v \in Acked, IsLatest(v, v.file), ~Assigning(v.file)
               PROVE  LET linked == PoliciesOf(v.file) \cap AbePolicies
                          enc == objects[v.phys].enc
                      IN  IF linked = {} THEN enc = <<>>
                          ELSE \E P \in SUBSET linked : P # {} /\ enc = <<P>> /\ v.pol = P
    BY DEF EncryptionFollowsLinks
  <2> QED
    BY <1>1 DEF Linked
<1> QED
  BY <1>2, ClearInvariant, PTL

\* Under the same conditions an object is named by one version only: its path, number and time.
THEOREM SerialOwn == ASSUME OneByOne PROVE Spec => []OwnObject
<1>1. ASSUME ClearInv, NEW u \in versions, NEW v \in versions, u.phys = v.phys PROVE u = v
  <2>1. /\ u.file \in DOMAIN rows /\ NamedFor(u.phys, rows[u.file].path, u.num)
        /\ v.file \in DOMAIN rows /\ NamedFor(v.phys, rows[v.file].path, v.num)
    BY <1>1 DEF ClearInv, TablesOK
  <2>2. rows[u.file].path = rows[v.file].path /\ u.num = v.num
    BY <1>1, <2>1 DEF NamedFor
  <2>3. u.file = v.file
    BY <1>1, <2>1, <2>2 DEF ClearInv, TablesOK
  <2> QED
    BY <1>1, <2>2, <2>3 DEF ClearInv, TablesOK
<1>2. ClearInv => OwnObject
  BY <1>1 DEF OwnObject, Acked
<1> QED
  BY <1>2, ClearInvariant, PTL

\* Under the same conditions a version records the policy its object is encrypted under.
THEOREM SerialRecord == ASSUME OneByOne PROVE Spec => []VersionRecordsPolicy
<1>1. TypeInv /\ ClearInv => VersionRecordsPolicy
  BY ClearAcked DEF VersionRecordsPolicy, Sealed
<1> QED
  BY <1>1, ClearInvariant, PTL
================================================================================
