-------------------------------- MODULE Access --------------------------------
(***************************************************************************)
(* Who can read a file: StorageViewSet.download and                        *)
(* _decrypt_file_if_needed (views/storage.py) over the policy decision     *)
(* point with its cache (services/casbin_service.py), the policy compiler  *)
(* (models/policy.py) and the ABE library, in Vault plugin mode, where     *)
(* both schemes have keys.                                                 *)
(*                                                                         *)
(* One file of one owner, with one policy.  Meanwhile attributes change,   *)
(* the policy is edited, versions are uploaded, other handlers save the    *)
(* row they read earlier and the scheme of the deployment changes.  Two    *)
(* caches in Redis outlive all that: the keys generated for a user (1 h)   *)
(* and the policies he is allowed (30 s).                                  *)
(***************************************************************************)
EXTENDS PolicyTerms

CONSTANTS
    Users,          \* the owner of the file and others
    Owner,
    Conditions,     \* conditions the policy may be given
    MaxRequests,    \* bound: requests of readers at a time
    MaxChanges      \* bound: changes of attributes, policy, versions and scheme

ASSUME ReadersAssumption ==
    /\ Owner \in Users
    /\ Conditions \subseteq Parts
    /\ MaxRequests \in Nat /\ MaxChanges \in Nat

VARIABLES
    scheme,     \* CPABE_SCHEME
    profile,    \* the attributes of each user
    policy,     \* the AccessPolicy: subject_condition and cpabe_policy
    versions,   \* the FileVersions, with the object each names
    rowScheme,  \* UploadedFile.abe_scheme
    copies,     \* its values in the copies of the row that handlers of this deployment may hold
    upload,     \* the upload of a new version under way
    keys,       \* cpabe_key_...: who, scheme and attributes, with the key
    allowed,    \* allowed_policies_...: who and attributes, with the answer
    job,        \* the listing or download each user runs
    past,       \* history: conditions the policy has had
    torn,       \* history: rowScheme was last written by no upload that made a version
    changes     \* bounded counter

row == <<rowScheme, copies, torn>>
vars == <<scheme, profile, policy, versions, row, upload, keys, allowed, job, past, changes>>

CpabePolicies == {Compile(s, c) : s \in Schemes, c \in Conditions}

\* A version, the ciphertext or the plain object, and (history) the condition it was written for.
Plaintext == [plain |-> TRUE]
Version(text, object, condition) == [text |-> text, object |-> object, condition |-> condition]
Sealed(v) == v.text # Empty

NoKey == [scheme |-> "none"]
NoPolicy == Empty

NoUpload == [step |-> "none", version |-> Version(Empty, Plaintext, Empty), scheme |-> "ac17"]

\* A request waits for its answer, has passed the gate, or downloads a version.
GatePcs == {"gate", "evaluate", "fill", "passed"}
DownloadPcs == {"lookup", "generate", "open", "served", "refused"}

\* asked: the attributes hashed for the cache of answers.  crossed (history): they changed before
\* the answer was evaluated.
Idle == [pc |-> "idle", version |-> 0, scheme |-> "ac17", profile |-> [a \in {} |-> "None"], key |-> NoKey,
         asked |-> [a \in {} |-> "None"], ok |-> FALSE, crossed |-> FALSE]
At(u, pc) == job[u].pc = pc

\* Every variable has its type.
TypeOK ==
    /\ scheme \in Schemes /\ rowScheme \in Schemes
    /\ profile \in [Users -> Profiles]
    /\ policy.condition \in past /\ policy.text \in CpabePolicies /\ past \subseteq Conditions
    /\ Len(versions) \in 1..MaxChanges + 1
    /\ \A v \in Range(versions) \cup {upload.version} :
        v.text \in CpabePolicies \cup {Empty} /\ (Sealed(v) <=> v.object # Plaintext)
    /\ copies \subseteq Schemes /\ rowScheme \in copies
    /\ upload.step \in {"none", "stored", "saved"} /\ upload.scheme \in Schemes /\ torn \in BOOLEAN
    /\ \A k \in keys : k.user \in Users /\ k.scheme \in Schemes /\ k.key.scheme = k.scheme
    /\ \A a \in allowed : a.user \in Users /\ a.profile \in Profiles /\ a.ok \in BOOLEAN
    /\ \A u \in Users :
        \/ job[u] = Idle
        \/ job[u].pc \in GatePcs /\ job[u].asked \in Profiles
        \/ job[u].pc \in DownloadPcs /\ job[u].version \in DOMAIN versions
    /\ changes \in 0..MaxChanges

--------------------------------------------------------------------------------
\* upload: the text is encrypted for the scheme of now, unless it is empty.
Encrypted(text, n) == EncryptBufferAndSign(KeySet(scheme, 1), 1, n, text, scheme)

Object(text, n) ==
    IF text = Empty THEN Done(Plaintext) ELSE Encrypted(text, n)

\* abe_scheme of a new row is 'ac17' unless its first version is encrypted.
Init ==
    /\ scheme \in Schemes
    /\ profile \in [Users -> Profiles]
    /\ \E c \in Conditions :
        LET text == Compile(scheme, c) IN
        /\ policy = [condition |-> c, text |-> text]
        /\ past = {c}
        /\ Succeeded(Object(text, 1))
        /\ versions = <<Version(text, Object(text, 1).out, c)>>
        /\ rowScheme = IF text = Empty THEN "ac17" ELSE scheme
    /\ copies = {rowScheme} /\ upload = NoUpload /\ torn = FALSE
    /\ keys = {} /\ allowed = {}
    /\ job = [u \in Users |-> Idle]
    /\ changes = 0

Change == changes < MaxChanges /\ changes' = changes + 1

(***************************************************************************)
(* A new version for the policy of now: the text and the row are read, the *)
(* object is encrypted and put under its name; then the row is saved; then *)
(* the version is recorded.                                                *)
(***************************************************************************)
Upload ==
    LET n == Len(versions) + 1
        object == Object(policy.text, n)
    IN  /\ Change /\ upload.step = "none" /\ Succeeded(object)
        /\ upload' = [step |-> "stored", version |-> Version(policy.text, object.out, policy.condition),
                      scheme |-> IF policy.text = Empty THEN rowScheme ELSE scheme]
        /\ UNCHANGED <<scheme, profile, policy, versions, row, keys, allowed, job, past>>

\* The scheme s is written on the row.
SaveScheme(s) ==
    /\ rowScheme' = s
    /\ copies' = copies \cup {s}

\* Mutant: the row keeps the scheme it was created with.
UploadRowKeepScheme ==
    /\ upload.step = "stored"
    /\ torn' = (~Sealed(upload.version) /\ (torn \/ rowScheme # upload.scheme))
    /\ upload' = [upload EXCEPT !.step = "saved"]
    /\ UNCHANGED <<scheme, profile, policy, versions, rowScheme, copies, keys, allowed, job, past, changes>>

\* update_fields names abe_scheme: an upload in the clear writes back what it read.
UploadRow ==
    /\ upload.step = "stored"
    /\ SaveScheme(upload.scheme)
    /\ torn' = (~Sealed(upload.version) /\ (torn \/ rowScheme # upload.scheme))
    /\ upload' = [upload EXCEPT !.step = "saved"]
    /\ UNCHANGED <<scheme, profile, policy, versions, keys, allowed, job, past, changes>>

UploadVersion ==
    /\ upload.step = "saved"
    /\ versions' = Append(versions, upload.version)
    /\ upload' = NoUpload
    /\ UNCHANGED <<scheme, profile, policy, row, keys, allowed, job, past, changes>>

\* What an upload that ends here leaves of the row.
Torn == torn \/ (upload.step = "saved" /\ Sealed(upload.version))

\* The upload fails at any step, or another one has recorded its version number.
UploadFails ==
    /\ upload.step # "none"
    /\ upload' = NoUpload /\ torn' = Torn
    /\ UNCHANGED <<scheme, profile, policy, versions, rowScheme, copies, keys, allowed, job, past, changes>>

(***************************************************************************)
(* A handler saves all fields of a row it read earlier: create_signed_url, *)
(* delete_from_storage, restore, rename_item, or an upload that the unique *)
(* version number then refuses.                                            *)
(***************************************************************************)
SaveRow(s) ==
    /\ s # rowScheme
    /\ SaveScheme(s)
    /\ torn' = TRUE
    /\ UNCHANGED <<scheme, profile, policy, versions, upload, keys, allowed, job, past, changes>>

\* AccessPolicy.save compiles for the scheme of now; nothing is re-encrypted, no cache emptied.
EditPolicy(c) ==
    /\ Change
    /\ policy.condition # c
    /\ policy' = [condition |-> c, text |-> Compile(scheme, c)]
    /\ past' = past \cup {c}
    /\ UNCHANGED <<scheme, profile, versions, row, upload, keys, allowed, job>>

SetAttributes(u, new) ==
    /\ Change
    /\ profile[u] # new
    /\ profile' = [profile EXCEPT ![u] = new]
    /\ job' = IF At(u, "gate") THEN [job EXCEPT ![u].crossed = TRUE] ELSE job
    /\ UNCHANGED <<scheme, policy, versions, row, upload, keys, allowed, past>>

\* The processes are replaced, the database and Redis stay.
Redeploy ==
    /\ Change
    /\ scheme' \in Schemes \ {scheme}
    /\ job' = [u \in Users |-> Idle]
    /\ upload' = NoUpload /\ torn' = Torn /\ copies' = {rowScheme}
    /\ UNCHANGED <<profile, policy, versions, rowScheme, keys, allowed, past>>

ExpireKeys ==
    /\ keys # {} /\ keys' = {}
    /\ UNCHANGED <<scheme, profile, policy, versions, row, upload, allowed, job, past, changes>>

ExpireAllowed ==
    /\ allowed # {} /\ allowed' = {}
    /\ UNCHANGED <<scheme, profile, policy, versions, row, upload, keys, job, past, changes>>

--------------------------------------------------------------------------------
\* Mutant: cached under the user alone.
CachedAnswersByUser(u, attrs) == {a \in allowed : a.user = u}

\* The cached answers under the hash of the attributes: one at most.
CachedAnswers(u, attrs) == {a \in allowed : a.user = u /\ a.profile = attrs}

Passed(attrs, crossed) == [Idle EXCEPT !.pc = "passed", !.asked = attrs, !.crossed = crossed]

Serving == {u \in Users : ~At(u, "idle")}

(***************************************************************************)
(* get_queryset hides the file from whom its policy does not allow, except *)
(* the owner, whose answer is left out.  get_allowed_policies_for_user     *)
(* hashes the attributes and looks for a cached answer; a refusal that is  *)
(* cached ends the request.                                                *)
(***************************************************************************)
AskGate(u) ==
    LET hits == CachedAnswers(u, profile[u]) IN
    /\ u # Owner /\ At(u, "idle") /\ Cardinality(Serving) < MaxRequests
    /\ \/ \E a \in hits : a.ok /\ job' = [job EXCEPT ![u] = Passed(profile[u], a.crossed)]
       \/ hits = {} /\ job' = [job EXCEPT ![u] = [Idle EXCEPT !.pc = "gate", !.asked = profile[u]]]
    /\ UNCHANGED <<scheme, profile, policy, versions, row, upload, keys, allowed, past, changes>>

\* The attributes are read again.
ReadAttributes(u) ==
    /\ At(u, "gate")
    /\ job' = [job EXCEPT ![u].pc = "evaluate", ![u].profile = profile[u]]
    /\ UNCHANGED <<scheme, profile, policy, versions, row, upload, keys, allowed, past, changes>>

EvaluatePolicies(u) ==
    /\ At(u, "evaluate")
    /\ job' = [job EXCEPT ![u].pc = "fill", ![u].ok = Evaluates(job[u].profile, policy.condition)]
    /\ UNCHANGED <<scheme, profile, policy, versions, row, upload, keys, allowed, past, changes>>

\* The answer is cached under the attributes read first.
FillCache(u) ==
    LET j == job[u]
        answer == [user |-> u, profile |-> j.asked, ok |-> j.ok, crossed |-> j.crossed]
    IN  /\ At(u, "fill")
        /\ allowed' = (allowed \ CachedAnswers(u, j.asked)) \cup {answer}
        /\ job' = [job EXCEPT ![u] = IF j.ok THEN Passed(j.asked, j.crossed) ELSE Idle]
        /\ UNCHANGED <<scheme, profile, policy, versions, row, upload, keys, past, changes>>

Start(u, n) == [Idle EXCEPT !.version = n, !.profile = profile[u],
                              !.pc = IF Sealed(versions[n]) THEN "lookup" ELSE "served"]

\* Past the gate, a download reads the version and its object; a listing ends.
Download(u, n) ==
    /\ \/ At(u, "passed")
       \/ u = Owner /\ At(u, "idle") /\ Cardinality(Serving) < MaxRequests
    /\ job' = [job EXCEPT ![u] = Start(u, n)]
    /\ UNCHANGED <<scheme, profile, policy, versions, row, upload, keys, allowed, past, changes>>

\* Mutant: the owner is treated as any reader.
KeyAttributesUnpadded(u, n, values) == Plainly(values)

\* The attributes the key of a request is to have: the owner gets those the policy asks for.
KeyAttributes(u, n, values) ==
    IF u = Owner THEN Pad(Plainly(values), versions[n].text) ELSE Plainly(values)

\* Mutant: a key is cached under the user and the scheme.
CachedKeysByUser(u, s, attrs) == {k \in keys : k.user = u /\ k.scheme = s}

\* The cached keys under the hash of the attributes.
CachedKeys(u, s, attrs) == {k \in keys : k.user = u /\ k.scheme = s /\ k.attrs = attrs}

\* The row's scheme and the attributes are read anew.
LookupKey(u) ==
    LET hits == CachedKeys(u, rowScheme, KeyAttributes(u, job[u].version, profile[u]))
        read == [job[u] EXCEPT !.scheme = rowScheme, !.profile = profile[u]]
    IN  /\ At(u, "lookup")
        /\ \/ \E k \in hits : job' = [job EXCEPT ![u] = [read EXCEPT !.pc = "open", !.key = k.key]]
           \/ hits = {} /\ job' = [job EXCEPT ![u] = [read EXCEPT !.pc = "generate"]]
        /\ UNCHANGED <<scheme, profile, policy, versions, row, upload, keys, allowed, past, changes>>

\* Mutant: the key is cached under the scheme the row has by now.
GenerateKeyForRow(u) ==
    LET attrs == KeyAttributes(u, job[u].version, job[u].profile) IN
    /\ At(u, "generate")
    /\ \E sk \in GenKey(KeySet(job[u].scheme, 1), Expand(attrs)) :
        /\ keys' = (keys \ CachedKeys(u, rowScheme, attrs))
                   \cup {[user |-> u, scheme |-> rowScheme, attrs |-> attrs, key |-> sk]}
        /\ job' = [job EXCEPT ![u].pc = "open", ![u].key = sk]
    /\ UNCHANGED <<scheme, profile, policy, versions, row, upload, allowed, past, changes>>

GenerateKey(u) ==
    LET attrs == KeyAttributes(u, job[u].version, job[u].profile) IN
    /\ At(u, "generate")
    /\ \E sk \in GenKey(KeySet(job[u].scheme, 1), Expand(attrs)) :
        /\ keys' = (keys \ CachedKeys(u, job[u].scheme, attrs))
                   \cup {[user |-> u, scheme |-> job[u].scheme, attrs |-> attrs, key |-> sk]}
        /\ job' = [job EXCEPT ![u].pc = "open", ![u].key = sk]
    /\ UNCHANGED <<scheme, profile, policy, versions, row, upload, allowed, past, changes>>

Decrypt(u) ==
    /\ At(u, "open")
    /\ LET opened == DecryptBufferAndVerify(job[u].key, 1, versions[job[u].version].object)
       IN  job' = [job EXCEPT ![u].pc = IF Succeeded(opened) THEN "served" ELSE "refused"]
    /\ UNCHANGED <<scheme, profile, policy, versions, row, upload, keys, allowed, past, changes>>

Respond(u) ==
    /\ job[u].pc \in {"passed", "served", "refused"}
    /\ job' = [job EXCEPT ![u] = Idle]
    /\ UNCHANGED <<scheme, profile, policy, versions, row, upload, keys, allowed, past, changes>>

Next ==
    \/ Upload \/ UploadRow \/ UploadVersion \/ UploadFails
    \/ \E s \in copies : SaveRow(s)
    \/ Redeploy \/ ExpireKeys \/ ExpireAllowed
    \/ \E c \in Conditions : EditPolicy(c)
    \/ \E u \in Users :
        \/ \E new \in Profiles : SetAttributes(u, new)
        \/ \E n \in DOMAIN versions : Download(u, n)
        \/ AskGate(u) \/ ReadAttributes(u) \/ EvaluatePolicies(u) \/ FillCache(u)
        \/ LookupKey(u) \/ GenerateKey(u) \/ Decrypt(u) \/ Respond(u)

Spec == Init /\ [][Next]_vars

--------------------------------------------------------------------------------
Read(u) == versions[job[u].version]

(***************************************************************************)
(* A cached answer or key never outlives the attributes it was given for:  *)
(* whoever holds a key to decrypt with had, when he asked, the attributes  *)
(* it was generated from, though it may be an hour old.                    *)
(***************************************************************************)
NoStaleKey ==
    \A u \in Users : At(u, "open") =>
        /\ job[u].key.scheme = job[u].scheme
        /\ job[u].key.attrs \subseteq
               Expand(KeyAttributes(u, job[u].version, job[u].profile))

(***************************************************************************)
(* A reader other than the owner passes the gate only if the policy, as it *)
(* is or as it was before an edit, holds of the attributes he asked with.  *)
(* The exception is an answer whose request read them twice with a change  *)
(* in between: the cache gives it to whoever asks with the first ones.     *)
(***************************************************************************)
GateFollowsAttributes ==
    \A u \in Users \ {Owner} :
        At(u, "passed") => job[u].crossed \/ \E c \in past : Evaluates(job[u].asked, c)

(***************************************************************************)
(* Nobody but the owner is served an encrypted version whose condition, of *)
(* the day it was written, does not mean to admit him.                     *)
(***************************************************************************)
OnlyAdmitted ==
    \A u \in Users \ {Owner} : At(u, "served") /\ Sealed(Read(u)) => Admits(job[u].profile, Read(u).condition)

(***************************************************************************)
(* Whoever the condition holds of can read the version, if the row still   *)
(* has its scheme, he has every attribute it compares, and it compares     *)
(* them with nothing but equations and memberships; under TKN20, which     *)
(* keeps one value of an attribute, only attributes without ranks.         *)
(***************************************************************************)
AllAdmitted ==
    \A u \in Users \ {Owner} : At(u, "refused") =>
        LET c == Read(u).condition IN
        \/ job[u].scheme # Read(u).object.scheme
        \/ ~Evaluates(job[u].profile, c)
        \/ \E l \in Leaves[c] :
            \/ job[u].profile[l.attr] = "None" \/ l.op = ">="
            \/ job[u].scheme = "tkn20" /\ Levels(l.attr) # << >>

\* The owner opens every AC17 version, whatever its policy, while the row has that scheme.
OwnerOpens ==
    At(Owner, "refused") => ~(job[Owner].scheme = "ac17" /\ Read(Owner).object.scheme = "ac17")

(***************************************************************************)
(* The row names the scheme of the last encrypted version, so that a       *)
(* change of scheme leaves it readable: unless an upload stands or stopped *)
(* between row and version, or an old copy of the row has been saved since *)
(* the last encrypted upload.                                              *)
(***************************************************************************)
RowNamesScheme ==
    \/ torn
    \/ upload.step = "saved" /\ Sealed(upload.version)
    \/ \A n \in DOMAIN versions :
        /\ Sealed(versions[n])
        /\ \A m \in DOMAIN versions : m > n => ~Sealed(versions[m])
        => rowScheme = versions[n].object.scheme
===============================================================================
