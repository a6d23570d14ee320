------------------------------ MODULE FileStore ------------------------------
(***************************************************************************)
(* Versioned, encrypted files: views/storage.py over models/storage.py and *)
(* the object store behind services/storage.  A file is a database row; a  *)
(* version is a row that names the object holding its bytes and the CP-ABE *)
(* policy they were encrypted under; a link assigns an access policy to a  *)
(* file, and a folder policy is inherited by every file.                   *)
(*                                                                         *)
(* There is no transaction around a handler (ATOMIC_REQUESTS is off), so   *)
(* every write is a step of its own, the requests of other workers run in  *)
(* between, and a request may fail at any of them; but deleting a row and  *)
(* what hangs on it is one transaction.  The reads at the start of a       *)
(* handler are one step.                                                   *)
(*                                                                         *)
(* The bytes of an upload are its number; ciphertext is the bytes and the  *)
(* policies they are encrypted under, outermost last.  A policy is a set   *)
(* of CP-ABE policies any of which admits a reader ("(p) or (q)"); {} is   *)
(* the empty string and NoPolicy is None.  All paths lie in one bucket and *)
(* one folder, have an extension, and hold no "_v".                        *)
(***************************************************************************)
EXTENDS Integers, Sequences

CONSTANTS
    Requests,         \* requests that can be in progress at once
    Paths,            \* logical file paths
    AbePolicies,      \* access policies that compile to a CP-ABE policy
    PlainPolicies,    \* access policies whose cpabe_policy is empty
    NoPolicy,         \* no policy chosen; cpabe_policy = None
    FieldEncryption,  \* settings.FIELD_ENCRYPTION
    Ops,              \* handlers the clients call
    Failing,          \* handlers that may fail or crash halfway
    MaxUploads,       \* bound: upload requests
    MaxClock          \* bound: seconds of int(time.time())

Policies == AbePolicies \cup PlainPolicies
AllOps == {"upload", "versions", "sign", "trash", "restore", "hard_delete", "destroy",
           "rename", "assign", "remove_policy", "folder_policy"}
FileIds == 1..MaxUploads        \* an upload creates at most one file
Nobody == 0                     \* no file

ASSUME ParameterAssumption ==
    /\ NoPolicy \notin Policies /\ \A P \in SUBSET AbePolicies : NoPolicy # P
    /\ Paths # {} /\ AbePolicies \cap PlainPolicies = {}
    /\ FieldEncryption \in BOOLEAN
    /\ Ops \subseteq AllOps /\ Failing \subseteq Ops
    /\ MaxUploads \in Nat \ {0} /\ MaxClock \in Nat \ {0}

VARIABLES
    rows,       \* uploaded_files: a function from the ids of existing rows
    versions,   \* file_versions
    links,      \* file_access_policies of files
    folder,     \* policies assigned to the folder
    objects,    \* the bucket: a function from object names
    req,        \* the requests in progress
    clock,
    uploads,    \* uploads so far
    acked       \* history: uploads answered 201 of which no deletion took version or object

vars == <<rows, versions, links, folder, objects, req, clock, uploads, acked>>

(***************************************************************************)
(* Types                                                                   *)
(***************************************************************************)
File == [path : Paths, deleted : BOOLEAN]
Policy == {NoPolicy} \cup SUBSET AbePolicies
VersionNumbers == 1..(MaxUploads + 1)

\* "<path>", "<path>_v<num>", "<stem>_v<time><ext>", "<folder>/<uuid>.<ext>"
Name == [path : Paths, num : VersionNumbers, time : 0..MaxClock, uuid : 0..MaxUploads]
PlainName(p) == [path |-> p, num |-> 1, time |-> 0, uuid |-> 0]

Version == [file : FileIds, num : VersionNumbers, phys : Name, pol : Policy]
Link == [file : FileIds, policy : Policies]
Object == [data : 1..MaxUploads, enc : Seq((SUBSET AbePolicies) \ {{}})]

Pcs == {"idle", "put", "row", "version", "link", "save", "remove", "cascade",
        "drop", "assign", "reput", "resave", "refold"}

\* Locals of a request; what a handler does not use keeps its value in Idle.
\*   file: the row it works on      row: the copy it will save or delete
\*   num, phys, pol: of the version it writes; num = 0 if there is none
\*   obj: the bytes it will put     policy: the policy it was given
Idle == [pc |-> "idle", op |-> "none", file |-> Nobody,
         row |-> [path |-> CHOOSE p \in Paths : TRUE, deleted |-> FALSE],
         num |-> 1, phys |-> PlainName(CHOOSE p \in Paths : TRUE), pol |-> NoPolicy,
         obj |-> [data |-> 1, enc |-> <<>>], policy |-> NoPolicy]

Job == [pc : Pcs, op : Ops \cup {"none"}, file : FileIds \cup {Nobody}, row : File,
        num : VersionNumbers \cup {0}, phys : Name, pol : Policy, obj : Object,
        policy : Policies \cup {NoPolicy}]

TypeOK ==
    /\ DOMAIN rows \subseteq FileIds /\ \A f \in DOMAIN rows : rows[f] \in File
    /\ versions \subseteq Version
    /\ links \subseteq Link
    /\ folder \subseteq Policies
    /\ DOMAIN objects \subseteq Name /\ \A n \in DOMAIN objects : objects[n] \in Object
    /\ req \in [Requests -> Job]
    /\ clock \in 0..MaxClock
    /\ uploads \in 0..MaxUploads
    /\ acked \subseteq [file : FileIds, num : VersionNumbers, data : 1..MaxUploads]

NoEntries == [x \in {} |-> x]

Init ==
    /\ rows = NoEntries
    /\ versions = {} /\ links = {} /\ folder = {}
    /\ objects = NoEntries
    /\ req = [r \in Requests |-> Idle]
    /\ clock = 1 /\ uploads = 0
    /\ acked = {}

(***************************************************************************)
(* Queries                                                                 *)
(***************************************************************************)
With(fun, key, value) ==
    [k \in DOMAIN fun \cup {key} |-> IF k = key THEN value ELSE fun[k]]
Without(fun, keys) == [k \in DOMAIN fun \ keys |-> fun[k]]

\* filter(bucket, file_path).first(): the newest row, trashed or not; its id is
\* Nobody if there is none
IsRowAt(f, p) ==
    LET found == {g \in DOMAIN rows : rows[g].path = p}
    IN  IF found = {} THEN f = Nobody ELSE f \in found /\ \A g \in found : g <= f

VersionsOf(f) == {v \in versions : v.file = f}
IsLatest(v, f) == v \in VersionsOf(f) /\ \A u \in VersionsOf(f) : u.num <= v.num
PoliciesOf(f) == {l.policy : l \in {k \in links : k.file = f}}

\* FileAccessPolicy.get_policies_for_file: it looks the row up by its path, which
\* finds nothing once paths are stored encrypted
PoliciesForPath(p) ==
    folder \cup {q \in Policies : /\ ~FieldEncryption
                                  /\ \E f \in DOMAIN rows : IsRowAt(f, p) /\ q \in PoliciesOf(f)}

(***************************************************************************)
(* _decrypt_file_if_needed, called by an owner: he gets a key that         *)
(* satisfies the policies the handler goes by.  Without any, the bytes are *)
(* returned as they are; so is plaintext, whose format the library         *)
(* rejects.  Refused is the exception.                                     *)
(***************************************************************************)
Refused == [data |-> 0, enc |-> <<>>]

Decrypt(obj, pol) ==
    IF pol = {} \/ obj.enc = <<>> THEN obj
    ELSE LET last == Len(obj.enc)
         IN  IF obj.enc[last] \cap pol = {} THEN Refused
             ELSE [obj EXCEPT !.enc = SubSeq(@, 1, last - 1)]

\* mutant: encrypts under an empty policy
EncryptAlways(obj, pol) == [obj EXCEPT !.enc = Append(@, pol)]
Encrypt(obj, pol) == IF pol = {} THEN obj ELSE [obj EXCEPT !.enc = Append(@, pol)]

\* The policies it goes by: those stored with the version, or those of the path.
Applied(pol, p) == IF pol = NoPolicy THEN PoliciesForPath(p) \cap AbePolicies ELSE pol

\* What GET download?version= answers the owner.
Served(v) ==
    IF v.phys \in DOMAIN objects
    THEN Decrypt(objects[v.phys], Applied(v.pol, rows[v.file].path))
    ELSE Refused

(***************************************************************************)
(* Steps of a request                                                      *)
(***************************************************************************)
May(op, r) == op \in Ops /\ req[r].pc = "idle"
At(r, pc) == req[r].pc = pc
Start(r, op, job) == req' = [req EXCEPT ![r] = [job EXCEPT !.op = op]]
Goto(r, pc) == req' = [req EXCEPT ![r].pc = pc]
Finish(r) == req' = [req EXCEPT ![r] = Idle]

\* No deletion has locked the file's row, and so what refers to it: a write waits for
\* one to end, a read does not.
Free(f) == \A r \in Requests : ~(At(r, "cascade") /\ req[r].file = f)

\* An exception, a killed worker, or a statement the database refuses: what was
\* written stays written, but a deletion that had not committed is rolled back.
Fail(r) ==
    /\ ~At(r, "idle") /\ req[r].op \in Failing
    /\ Finish(r)
    /\ UNCHANGED <<rows, versions, links, folder, objects, clock, uploads, acked>>

Refuse(r) ==
    /\ Finish(r)
    /\ UNCHANGED <<rows, versions, links, folder, objects, clock, uploads, acked>>

(***************************************************************************)
(* upload                                                                  *)
(***************************************************************************)

\* mutant: a new version is put where the first one is
PhysicalNameUnversioned(p, num) ==
    IF FieldEncryption THEN [PlainName(p) EXCEPT !.uuid = uploads + 1] ELSE PlainName(p)
\* mutant: new versions keep their readable name although paths are encrypted
PhysicalNameReadable(p, num) == [PlainName(p) EXCEPT !.num = num]
PhysicalName(p, num) ==
    IF FieldEncryption THEN [PlainName(p) EXCEPT !.uuid = uploads + 1]
                       ELSE [PlainName(p) EXCEPT !.num = num]

\* The policy to encrypt under: the chosen one's, else the first of the path's that
\* has one (their order is arbitrary), else the empty or missing choice.
ChosenPol(policy) ==
    IF policy = NoPolicy THEN NoPolicy ELSE {policy} \cap AbePolicies
UploadPol(policy, p) ==
    LET inherited == PoliciesForPath(p) \cap AbePolicies
    IN  IF policy \in AbePolicies \/ inherited = {} THEN {ChosenPol(policy)}
        ELSE {{q} : q \in inherited}

\* The lookups, and encryption in memory.  Uploading over an existing file without
\* is_new_version is refused.
Upload(r, p, policy, isNewVersion) ==
    /\ May("upload", r)
    /\ uploads < MaxUploads
    /\ uploads' = uploads + 1
    /\ \E f \in FileIds \cup {Nobody}, pol \in UploadPol(policy, p) :
         /\ IsRowAt(f, p)
         /\ f = Nobody \/ isNewVersion
         /\ \E num \in VersionNumbers :
              /\ IF f = Nobody THEN num = 1
                 ELSE IF VersionsOf(f) = {} THEN num = 2
                 ELSE \E v \in versions : IsLatest(v, f) /\ num = v.num + 1
              /\ Start(r, "upload",
                   [Idle EXCEPT !.pc = "put", !.file = f, !.row.path = p, !.num = num,
                      !.phys = PhysicalName(p, num), !.pol = pol, !.policy = policy,
                      !.obj = Encrypt([data |-> uploads + 1, enc |-> <<>>],
                                      IF pol = NoPolicy THEN {} ELSE pol)])
    /\ UNCHANGED <<rows, versions, links, folder, objects, clock, acked>>

\* storage.upload_file(..., upsert=True)
UploadPut(r) ==
    /\ At(r, "put")
    /\ objects' = With(objects, req[r].phys, req[r].obj)
    /\ Goto(r, "row")
    /\ UNCHANGED <<rows, versions, links, folder, clock, uploads, acked>>

\* save(update_fields=...) takes the file out of the trash and fails if it is gone;
\* a new file gets the next id.
UploadRow(r) ==
    LET f == IF req[r].file = Nobody THEN req[r].obj.data ELSE req[r].file
    IN  /\ At(r, "row")
        /\ \/ req[r].file = Nobody /\ rows' = With(rows, f, req[r].row)
           \/ f \in DOMAIN rows /\ Free(f) /\ rows' = [rows EXCEPT ![f].deleted = FALSE]
        /\ req' = [req EXCEPT ![r].pc = "version", ![r].file = f]
        /\ UNCHANGED <<versions, links, folder, objects, clock, uploads, acked>>

UploadRowGone(r) ==
    /\ At(r, "row") /\ req[r].file \notin DOMAIN rows \cup {Nobody}
    /\ Refuse(r)

Ack(r) == acked' = acked \cup {[file |-> req[r].file, num |-> req[r].num,
                                 data |-> req[r].obj.data]}

\* FileVersion.objects.create: (file, version_number) is unique and the file exists.
VersionFits(r) ==
    /\ req[r].file \in DOMAIN rows
    /\ \A v \in VersionsOf(req[r].file) : v.num # req[r].num

\* mutant: records the policy the client chose, not the one inherited
UploadVersionChosen(r) ==
    /\ At(r, "version") /\ VersionFits(r) /\ Free(req[r].file)
    /\ versions' = versions \cup {[file |-> req[r].file, num |-> req[r].num,
                                   phys |-> req[r].phys, pol |-> ChosenPol(req[r].policy)]}
    /\ IF req[r].policy = NoPolicy THEN Ack(r) /\ Finish(r)
                                   ELSE Goto(r, "link") /\ UNCHANGED acked
    /\ UNCHANGED <<rows, links, folder, objects, clock, uploads>>
UploadVersion(r) ==
    /\ At(r, "version") /\ VersionFits(r) /\ Free(req[r].file)
    /\ versions' = versions \cup {[file |-> req[r].file, num |-> req[r].num,
                                   phys |-> req[r].phys, pol |-> req[r].pol]}
    /\ IF req[r].policy = NoPolicy THEN Ack(r) /\ Finish(r)
                                   ELSE Goto(r, "link") /\ UNCHANGED acked
    /\ UNCHANGED <<rows, links, folder, objects, clock, uploads>>

UploadVersionTaken(r) ==
    At(r, "version") /\ ~VersionFits(r) /\ Free(req[r].file) /\ Refuse(r)

\* FileAccessPolicy.objects.create: (uploaded_file, policy) is unique.
LinkFits(r) ==
    /\ req[r].file \in DOMAIN rows
    /\ [file |-> req[r].file, policy |-> req[r].policy] \notin links

\* The version has gone by now if the file was deleted for good; the link then fits only
\* because a request that had read the row before saved it again.
Kept(r) == \E v \in VersionsOf(req[r].file) :
               v.num = req[r].num /\ v.phys.uuid = req[r].phys.uuid

UploadLink(r) ==
    /\ At(r, "link") /\ LinkFits(r) /\ Free(req[r].file)
    /\ links' = links \cup {[file |-> req[r].file, policy |-> req[r].policy]}
    /\ IF Kept(r) THEN Ack(r) ELSE UNCHANGED acked
    /\ Finish(r)
    /\ UNCHANGED <<rows, versions, folder, objects, clock, uploads>>

UploadLinkTaken(r) == At(r, "link") /\ ~LinkFits(r) /\ Free(req[r].file) /\ Refuse(r)

(***************************************************************************)
(* versions: a file without version records gets its first one             *)
(***************************************************************************)
ListVersions(r, f) ==
    /\ May("versions", r)
    /\ f \in DOMAIN rows /\ ~rows[f].deleted /\ VersionsOf(f) = {} /\ Free(f)
    /\ \E q \in PoliciesOf(f) \cup {NoPolicy} :
         /\ PoliciesOf(f) # {} => q # NoPolicy
         /\ versions' = versions \cup
              {[file |-> f, num |-> 1, phys |-> PlainName(rows[f].path),
                pol |-> IF q \in AbePolicies THEN {q} ELSE NoPolicy]}
    /\ UNCHANGED <<rows, links, folder, objects, req, clock, uploads, acked>>

(***************************************************************************)
(* create_signed_url, delete_from_storage, restore, rename_item: the row   *)
(* is read, and later saved whole.                                         *)
(***************************************************************************)
ReadRow(r, op, f, wasDeleted, row) ==
    /\ May(op, r)
    /\ f \in DOMAIN rows /\ rows[f].deleted = wasDeleted
    /\ Start(r, op, [Idle EXCEPT !.pc = "save", !.file = f, !.row = row])
    /\ UNCHANGED <<rows, versions, links, folder, objects, clock, uploads, acked>>

SignUrl(r, f) == ReadRow(r, "sign", f, FALSE, rows[f])
MoveToTrash(r, f) == ReadRow(r, "trash", f, FALSE, [rows[f] EXCEPT !.deleted = TRUE])
Restore(r, f) == ReadRow(r, "restore", f, TRUE, [rows[f] EXCEPT !.deleted = FALSE])

\* file_path is a column; the objects stay where they are.
RenameTo(r, f, p, wasDeleted) ==
    /\ IsRowAt(f, rows[f].path) /\ IsRowAt(Nobody, p)
    /\ ReadRow(r, "rename", f, wasDeleted, [rows[f] EXCEPT !.path = p])
Rename(r, f, p) == \E d \in BOOLEAN : RenameTo(r, f, p, d)

\* save() of a row deleted meanwhile inserts it again.
SaveRow(r) ==
    /\ At(r, "save") /\ Free(req[r].file)
    /\ rows' = With(rows, req[r].file, req[r].row)
    /\ Finish(r)
    /\ UNCHANGED <<versions, links, folder, objects, clock, uploads, acked>>

(***************************************************************************)
(* hard_delete (from the trash) and the ModelViewSet's own DELETE (of any  *)
(* file that is not in it).  delete() opens a transaction, deletes what    *)
(* refers to the row and the row, and calls post_delete, which removes the *)
(* object named like the file's path; then it commits.                     *)
(***************************************************************************)
Delete(r, op, f, wasDeleted) ==
    /\ May(op, r)
    /\ f \in DOMAIN rows /\ rows[f].deleted = wasDeleted
    /\ Start(r, op, [Idle EXCEPT !.pc = "remove", !.file = f, !.row = rows[f]])
    /\ UNCHANGED <<rows, versions, links, folder, objects, clock, uploads, acked>>

HardDelete(r, f) == Delete(r, "hard_delete", f, TRUE)
Destroy(r, f) == Delete(r, "destroy", f, FALSE)

\* Uploads that became the version kept in an object.
AckedIn(f, name) ==
    {a \in acked : a.file = f /\ \E v \in VersionsOf(f) : v.num = a.num /\ v.phys = name}

\* The statements and the signal, which is sent for a row that was deleted meanwhile, too.
\* A failure of the store is logged and forgotten.
RemoveObject(r) ==
    LET name == PlainName(req[r].row.path)
    IN  /\ At(r, "remove") /\ Free(req[r].file)
        /\ IF req[r].file \in DOMAIN rows THEN Goto(r, "cascade") ELSE Finish(r)
        /\ \/ /\ objects' = Without(objects, {name})
              /\ acked' = acked \ AckedIn(req[r].file, name)
           \/ UNCHANGED <<objects, acked>>
        /\ UNCHANGED <<rows, versions, links, folder, clock, uploads>>

CommitRemoval(r) ==
    /\ At(r, "cascade")
    /\ rows' = Without(rows, {req[r].file})
    /\ versions' = versions \ VersionsOf(req[r].file)
    /\ links' = {l \in links : l.file # req[r].file}
    /\ acked' = {a \in acked : a.file # req[r].file}
    /\ Finish(r)
    /\ UNCHANGED <<folder, objects, clock, uploads>>

\* delete_by_path: trashed or not, and only the flag is written.
TrashByPath(r, f) ==
    /\ May("trash", r)
    /\ f \in DOMAIN rows /\ IsRowAt(f, rows[f].path) /\ Free(f)
    /\ rows' = [rows EXCEPT ![f].deleted = TRUE]
    /\ UNCHANGED <<versions, links, folder, objects, req, clock, uploads, acked>>

(***************************************************************************)
(* assign_policy                                                           *)
(***************************************************************************)
\* f"{base_no_v}_v{int(time.time())}{ext}"
ReencryptedName(name) == [name EXCEPT !.time = clock]

\* Everything read and decrypted before the first write.  Whether the object is
\* ciphertext is decided by the file's links, and how to decrypt it by its version.
\* Links, latest version and download are read here; a refused decryption or a
\* missing object ends the request.
AssignPolicy(r, p, policy, replace) ==
    /\ May("assign", r)
    /\ \E f \in DOMAIN rows :
         LET linked == PoliciesOf(f) \cap AbePolicies
             none == VersionsOf(f) = {}
             phys == IF none THEN PlainName(p) ELSE (CHOOSE v \in versions : IsLatest(v, f)).phys
             pol == IF none THEN NoPolicy ELSE (CHOOSE v \in versions : IsLatest(v, f)).pol
             num == IF none THEN 0 ELSE (CHOOSE v \in versions : IsLatest(v, f)).num
             newPol == IF replace \/ linked = {} THEN ChosenPol(policy)
                                                 ELSE linked \cup ChosenPol(policy)
             reencrypt == replace \/ policy \in AbePolicies
             bytes == IF linked = {} THEN objects[phys] ELSE Decrypt(objects[phys], Applied(pol, p))
         IN  /\ IsRowAt(f, p)
             /\ replace \/ policy \notin PoliciesOf(f)
             /\ reencrypt => phys \in DOMAIN objects /\ bytes # Refused
             /\ Start(r, "assign",
                  [Idle EXCEPT !.pc = IF replace THEN "drop" ELSE "assign", !.file = f,
                     !.policy = policy, !.num = num, !.pol = IF reencrypt THEN newPol ELSE NoPolicy,
                     !.phys = ReencryptedName(phys),
                     !.obj = IF reencrypt THEN Encrypt(bytes, newPol) ELSE @])
    /\ UNCHANGED <<rows, versions, links, folder, objects, clock, uploads, acked>>

\* mutant: old assignments survive a replacement
AssignKeepLinks(r) ==
    /\ At(r, "drop") /\ Free(req[r].file)
    /\ Goto(r, "assign")
    /\ UNCHANGED <<rows, versions, links, folder, objects, clock, uploads, acked>>
\* existing_all.delete()
AssignDropLinks(r) ==
    /\ At(r, "drop") /\ Free(req[r].file)
    /\ links' = {l \in links : l.file # req[r].file}
    /\ Goto(r, "assign")
    /\ UNCHANGED <<rows, versions, folder, objects, clock, uploads, acked>>

AssignLink(r) ==
    /\ At(r, "assign") /\ LinkFits(r) /\ Free(req[r].file)
    /\ links' = links \cup {[file |-> req[r].file, policy |-> req[r].policy]}
    /\ IF req[r].pol = NoPolicy THEN Finish(r) ELSE Goto(r, "reput")
    /\ UNCHANGED <<rows, versions, folder, objects, clock, uploads, acked>>

AssignLinkTaken(r) == At(r, "assign") /\ ~LinkFits(r) /\ Free(req[r].file) /\ Refuse(r)

AssignPut(r) ==
    /\ At(r, "reput")
    /\ objects' = With(objects, req[r].phys, req[r].obj)
    /\ Goto(r, "resave")
    /\ UNCHANGED <<rows, versions, links, folder, clock, uploads, acked>>

\* mutant: changes whichever version is the newest by now
AssignSaveNewest(r) ==
    LET newest == {v \in versions : IsLatest(v, req[r].file)}
    IN  /\ At(r, "resave") /\ Free(req[r].file)
        /\ versions' = (versions \ newest) \cup
             {[v EXCEPT !.phys = req[r].phys, !.pol = req[r].pol] : v \in newest}
        /\ Finish(r)
        /\ UNCHANGED <<rows, links, folder, objects, clock, uploads, acked>>

\* latest_version.save(update_fields=...): the version read at the start, if the file
\* has one (not another that got its number once it was deleted).
\* storage.delete_file is handed the old name where it expects a list of names, so the
\* old object stays.
AssignSaveVersion(r) ==
    LET old == {v \in VersionsOf(req[r].file) :
                   v.num = req[r].num /\ v.phys.uuid = req[r].phys.uuid}
    IN  /\ At(r, "resave") /\ Free(req[r].file)
        /\ versions' = (versions \ old) \cup
             {[v EXCEPT !.phys = req[r].phys, !.pol = req[r].pol] : v \in old}
        /\ Finish(r)
        /\ UNCHANGED <<rows, links, folder, objects, clock, uploads, acked>>

(***************************************************************************)
(* remove_policy, and assign_policy and remove_policy of the folder        *)
(***************************************************************************)
RemovePolicy(r, l) ==
    /\ May("remove_policy", r)
    /\ l \in links /\ Free(l.file)
    /\ links' = links \ {l}
    /\ UNCHANGED <<rows, versions, folder, objects, req, clock, uploads, acked>>

FolderPolicy(r, policy) ==
    /\ May("folder_policy", r)
    /\ \/ folder' = folder \cup {policy}        \* assign_policy
       \/ folder' = folder \ {policy}           \* remove_policy
    /\ UNCHANGED <<rows, versions, links, objects, req, clock, uploads, acked>>

\* assign_policy, replace: between the two steps the folder has no policy.
DropFolder(r, policy) ==
    /\ May("folder_policy", r)
    /\ folder' = {}
    /\ Start(r, "folder_policy", [Idle EXCEPT !.pc = "refold", !.policy = policy])
    /\ UNCHANGED <<rows, versions, links, objects, clock, uploads, acked>>

AssignFolder(r) ==
    /\ At(r, "refold")
    /\ folder' = folder \cup {req[r].policy}
    /\ Finish(r)
    /\ UNCHANGED <<rows, versions, links, objects, clock, uploads, acked>>

Tick ==
    /\ clock < MaxClock
    /\ clock' = clock + 1
    /\ UNCHANGED <<rows, versions, links, folder, objects, req, uploads, acked>>

UploadStep(r) ==
    \/ \E p \in Paths, q \in Policies \cup {NoPolicy}, new \in BOOLEAN : Upload(r, p, q, new)
    \/ UploadPut(r) \/ UploadRow(r) \/ UploadRowGone(r)
    \/ UploadVersion(r) \/ UploadVersionTaken(r) \/ UploadLink(r) \/ UploadLinkTaken(r)

AssignStep(r) ==
    \/ \E p \in Paths, q \in Policies, replace \in BOOLEAN : AssignPolicy(r, p, q, replace)
    \/ AssignDropLinks(r) \/ AssignLink(r) \/ AssignLinkTaken(r)
    \/ AssignPut(r) \/ AssignSaveVersion(r)

RowStep(r) ==
    \/ \E f \in DOMAIN rows :
         \/ ListVersions(r, f) \/ SignUrl(r, f) \/ MoveToTrash(r, f) \/ TrashByPath(r, f) \/ Restore(r, f)
         \/ HardDelete(r, f) \/ Destroy(r, f)
         \/ \E p \in Paths : Rename(r, f, p)
    \/ SaveRow(r) \/ RemoveObject(r) \/ CommitRemoval(r)

LinkStep(r) ==
    \/ \E l \in links : RemovePolicy(r, l)
    \/ \E q \in Policies : FolderPolicy(r, q) \/ DropFolder(r, q)
    \/ AssignFolder(r)

Next ==
    \/ \E r \in Requests :
         UploadStep(r) \/ AssignStep(r) \/ RowStep(r) \/ LinkStep(r) \/ Fail(r)
    \/ Tick

Spec == Init /\ [][Next]_vars

(***************************************************************************)
(* Properties                                                              *)
(***************************************************************************)

\* An upload answered 201 can be downloaded again by its owner, byte for byte, as the
\* version it became, whatever was uploaded, assigned, renamed, trashed or restored
\* since, until a deletion for good takes its object (which one that then fails does not
\* give back) or its version.  Not so while a policy is being assigned to the file: an
\* assignment within the same second puts the new bytes under the name of the old ones
\* before it changes the version.
Assigning(f) == \E r \in Requests : req[r].op = "assign" /\ req[r].file = f

\* The version records behind acknowledged uploads.
Acked == {v \in versions : \E a \in acked : a.file = v.file /\ a.num = v.num}

AckedReadable ==
    \A a \in acked : ~Assigning(a.file) =>
        \E v \in versions : v.file = a.file /\ v.num = a.num
                            /\ Served(v) = [data |-> a.data, enc |-> <<>>]

\* Between assignments, a file's newest acknowledged version is encrypted exactly when
\* a CP-ABE policy is assigned to the file, and only for readers one of them admits;
\* the version records what its object was encrypted under.
EncryptionFollowsLinks ==
    \A v \in Acked :
        IsLatest(v, v.file) /\ ~Assigning(v.file) =>
            LET linked == PoliciesOf(v.file) \cap AbePolicies
                enc == objects[v.phys].enc
            IN  IF linked = {} THEN enc = <<>>
                ELSE \E P \in SUBSET linked : P # {} /\ enc = <<P>> /\ v.pol = P

\* An acknowledged version has its object to itself: no other version, of this file or
\* of another, names the same object, so none can overwrite it.
OwnObject ==
    \A v \in Acked : \A u \in versions : u.phys = v.phys => u = v

\* "Each version points to a physical file on the storage bucket and records the
\* CP-ABE policy used to encrypt it" (models/storage.py:128): of an acknowledged
\* version, for as long as no policy is being assigned to its file.
VersionRecordsPolicy ==
    \A v \in Acked : ~Assigning(v.file) =>
        /\ v.phys \in DOMAIN objects
        /\ objects[v.phys].enc = IF v.pol \in {NoPolicy, {}} THEN <<>> ELSE <<v.pol>>
=============================================================================
