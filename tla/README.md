# TLA+ models of Cloud Policy Crypto Access

The program is a Django application (`src/src/crypto_access`) that stores files
encrypted under CP-ABE policies, decides access by attributes, and keeps a
hash-chained audit log; the cryptography runs in a Vault plugin of its own
(`src/src/vault-plugin`). gunicorn runs `2 * cpus + 1` synchronous workers
(`src/scripts/gunicorn.conf.py`); they share PostgreSQL, Redis, an object store and
HashiCorp Vault. A worker runs one request at a time, and almost no handler is
wrapped in a transaction (`ATOMIC_REQUESTS` is off), so what is hard here is what the
workers do to each other, and what is left behind by a request that stops halfway.

## Inventory

| component | state | operations | hard behaviour | what makes it correct |
|---|---|---|---|---|
| Audit chain (`models/audit.py`) | rows of `crypto_access_logs`, Redis key `audit_chain_state` | `log_access`/`save`, `verify_chain_quick`, `deep_verify_chain`, deletion with a user | row locks over a stale snapshot, cache written before the commit, aborts, edits | entries link to entries; what verification accepts is intact; no false alarm |
| File store (`views/storage.py`, `models/storage.py`) | file, version and link rows, folder policies, objects in the bucket | upload, versions, rename, trash, delete, assign and remove policies, signed URLs | writes to two stores without a transaction, whole-row saves of old reads, names that collide | an acknowledged upload can be read back; encryption follows the policies; one version per object |
| Master keys (`services/cpabe_service.py`, `vault_service.py`) | one Vault document, four backup files, keys and a secret cache in each process | `_ensure_keys_exist`, `_save_backup`, `get_secret`, `put_secret` | first use by several workers, a worker that dies, Vault sealed, read-modify-write | no file outlives its keys; the stores agree |
| Vault plugin (`vault-plugin/plugin`) | two secret keys per mount | setup, genkey, encrypt, decrypt, for AC17 and TKN20 | setup overwrites; two ciphertext formats; two schemes with different ideas of a policy | what is sealed opens with a key made for its policy, and with no other |
| User keys and revocation (`views/storage.py`, `signals.py`, `KeyRevocation`) | keys cached in Redis for an hour, revocation rows | key generation, attribute and profile signals | a key cached before and used after a change | no key of old attributes is served |
| Sessions (`models/session.py`, `authentication.py`, `middleware/jwt_middleware.py`) | `ActiveSession` rows, token blacklist | login, refresh, logout, revoke, revoke all | two authentication paths, refresh racing logout, rows saved from old reads | a revoked session stays revoked; one refresh token per sign-in |
| Login, lockout, OTP (`views/auth.py`) | counters and codes in the cache | login, verify_otp, password change and reset | read-compare-write on counters | failures lock, a code works once |
| Decisions (`services/casbin_service.py`, `middleware/abac_middleware.py`) | policies, a 30 s cache | `check_access`, `get_allowed_policies_for_user` | stale answers | a decision follows the attributes and the policy |
| Policy compiler (`models/policy.py`) | `cpabe_policy` of a policy | `_generate_cpabe_policy` | operators translated differently from how they are evaluated, for two libraries | the ciphertext admits whom the condition admits |
| Settings cache (`services/setting_service.py`) | one cached value per key | get, invalidate | a late reader restores the old value | at most 300 s stale |
| Rate limiting (`middleware/rate_limit.py`) | a counter per address | one per request | non-atomic fallback | the limit holds |

PKI, passkeys, ClamAV, the AI assistant, serializers, the storage adapters, field
encryption, the front end and the deployment scripts keep little state of their own
or wrap external code; `PROJECT.json` says of each why it is not modelled.

**How they interact.** The ABAC middleware asks the decision point about a request and
calls `AccessLog.log_access`; before it, the JWT middleware looks for the session row of
the token. Upload and assignment ask the file store's links which policy to encrypt
under, and the CP-ABE service to encrypt; the service looks for its keys in Vault (and,
without the plugin, in the backup) before every operation. A download asks the decision
point whose policies the user is allowed, takes his private key from Redis or has it
generated from his attributes, and decrypts. Deleting a user removes his log entries;
deleting a file row removes an object in a `post_delete` signal. The models meet only
where the code shares state: users and log entries in `AuditChain`; rows, links and
objects in `FileStore`; Vault and backup in `MasterKeys`; Vault, the mounts of the plugin
and ciphertexts in `AbePlugin`; attributes, policies, keys and ciphertexts in `Access`.
`HybridCipher` is what the last two share.

## Modules

| module | of what |
|---|---|
| `HashLog` | what a hash-linked append-only log promises: `TreeSpec`, and `ChainSpec` for one unforked chain |
| `AuditChain`, `MCAuditChain` | the audit log; the second adds the symmetry and the restriction to requests that lock |
| `FileStore`, `MCFileStore` | versioned, encrypted files |
| `MasterKeys` | the four CP-ABE and signature keys, library mode |
| `HybridCipher` | the encryption of the plugin: two schemes, two formats, signatures |
| `AbePlugin`, `MCAbePlugin` | the keys in Vault plugin mode, and files sealed with them |
| `PolicyTerms` | conditions: evaluated and compiled, and what they are meant to admit |
| `PolicyLibraries` | how the two ABE libraries read a compiled condition |
| `Access`, `MCAccess` | who reads a file, over caches, policy edits, new versions and a change of scheme |
| `DeviceSession` | what the session table promises one device |
| `Sessions`, `MCSessions` | sign-in, lockout, one-time codes, refresh, logout, revocation |
| `AuditChainProofs`, `FileStoreProofs`, `MasterKeysProofs`, `AbePluginProofs`, `SessionsProofs`, `RevocationProofs`, `AccessProofs` | theorems |
| `TreeRecursion` | definitions and proofs by recursion on finite trees, for `AccessProofs` |

### AuditChain

`rows` is the committed table, `cache` the Redis key, `worker` the request each process
runs, `hist` a history variable of all rows as they were committed. One action is one
SQL statement, one Redis command, or one commit:

* `LogAccess` stamps and numbers the entry (`log_access`, before `save`). `SelectLast`
  takes the snapshot of `select_for_update()`; `LinkToGenesis`, `LinkToLast` and
  `SkipDeleted` are what that statement does once the row lock is free. At
  PostgreSQL's default isolation a statement that had to wait does not see rows
  committed meanwhile: that is why `LinkToLast` uses the snapshot.
* `Insert`, `CountRows`, `Publish` and `Commit` finish `save`; `Abort` is an exception
  in it, which `_log_access` swallows.
* `RemoveLogs` and `RemoveUser` are `UserViewSet.destroy`, whose transaction locks the
  rows it deletes.
* `QuickCount`, `QuickLast`, `QuickCache`, `QuickLink` are the four reads of
  `verify_chain_quick`, `DeepScan` and `DeepPublish` those of `deep_verify_chain`.
* `Tick`, `LoseCache` and `EditTable` are the clock, Redis, and somebody with access to
  the database.

A hash is represented by the entry it covers (SHA3-256 is taken as injective).

### FileStore

`rows`, `versions`, `links` and `folder` are the tables, `objects` the bucket, `req` the
requests in progress; `acked` is a history variable: which bytes were answered 201 as
which version. A handler is split at its writes. The reads at its start are one step:
`Upload` and `AssignPolicy` carry what they read in `req` until they write it
(`UploadPut`, `UploadRow`, `UploadVersion`, `UploadLink`; `AssignDropLinks`,
`AssignLink`, `AssignPut`, `AssignSaveVersion`). Handlers that read a row and save all
of it share `ReadRow` and `SaveRow`. A deletion for good (`HardDelete`, `Destroy`) reads the
row, then runs `delete()`: `RemoveObject` is its statements and the `post_delete` signal, which
removes the object inside the transaction and swallows a failure of the store;
`CommitRemoval` makes the deletion of row, versions and links visible. In between, writes that
need the row or refer to it wait (`Free`). `Fail` ends a request anywhere: an exception, a
crash, or a refused statement; a deletion that fails between the two is rolled back, and its
object stays gone. Ciphertext is bytes with the list of policies around
them, so double encryption shows. `acked` forgets an upload when a deletion removes its
object or its version. An upload whose version has been deleted for good by the
time it answers is not in `acked`; that it can answer 201 at all (`Kept`) takes three
requests, the upload, the deletion, and one that writes back the row it had read.
`FieldEncryption` is the setting of that name: it changes how objects are named and which
lookups by path work.

### MasterKeys

`vault` and `backup` hold a key-set number per key, `worker` a process with its key attributes
and `VaultService._cache`. `Begin` to `SaveDies` are `_ensure_keys_exist`, in its order: `Fetch`
for each of the four keys, one of the decisions (`Compare`, `AdoptVault`, `AdoptBackup`,
`Generate`), `ReadDocument` and `WriteDocument` for each key pushed (`put_secret` reads the
document and writes it back), `OpenFile` and `WriteFile` for each backup file: opening it for
writing truncates it, so in between it is `Torn`, which `os.path.exists` takes for a key.
`SaveFails` is the exception that `_save_backup` swallows before or after the opening,
`SaveDies` a process that dies with a file open. `Create` is the lazy construction, after which
the operation looks for the keys again. `Seal` records the keys a file was encrypted and signed
with. `Restart` kills a process at any other step.

### HybridCipher and AbePlugin

`HybridCipher` has no state. A ciphertext is a record of what went into it: the format
version, the scheme byte, the capsule (scheme, key set, policy) and the payload with its
signer. `EncryptBuffer`, `DecryptBuffer`, `EncryptBufferAndSign` and
`DecryptBufferAndVerify` are the functions of those names in `hybrid-oqs-abe.cpp`, with
their error codes; `Ac17Encapsulate` to `Tkn20Decapsulate` are the two back ends;
`Tkn20GenKey` keeps one value of each attribute, because `tkn20` keeps attributes in a
map. Which attributes satisfy which policy is a parameter.

`AbePlugin` is `_ensure_keys_exist` with `USE_VAULT_PLUGIN`. `mount` holds `msk/abe` and
`msk/pqc` of each mount, `doc` the public keys in the secrets document, `worker` a process
with its secret cache and `pk_data`. `Fetch` is `get_secret`, `SetupAbe` and `SetupPqc` the
two writes of the plugin's `pathSetup`, `SetupFails` the exception that the service
logs before it goes on, `ReadDocument`, `WriteDocument` and `PutFails` are `put_secret` twice,
whose result nobody looks at, `Adopt` sets `pk_data`. `Encrypt` seals with the public key that
`encrypt_buffer_and_sign` looks up; `EndRequest` is every other request, and leaves what it
read in the cache. `Restart` kills a process anywhere, `VaultDown` and `VaultUp` are an outage.

### PolicyTerms and Access

`PolicyTerms` has two readings of a condition: `Evaluates` (`safe_eval_condition`, with
the exceptions of comparing with None) and `Compile` (`_generate_cpabe_policy`, per scheme).
The third is the libraries' of the compiled text: `Satisfies` and `Parses` are parameters, of
which `LibrariesAssumption` says how they follow the structure of a text, and `Grants` and
`WellFormed` of `PolicyLibraries` are the definitions the run gives them. `Expand` is
`expand_hierarchical_attributes`, `Pad` what `_decrypt_file_if_needed` adds for an owner.
`Admits` is the reference definition: whom a condition is meant to admit to a ciphertext.

A condition is a finite tree; the trees a model has are the domain of `Depth`, and every
operator on them is a function defined by recursion (`Value`, `Texts`, `Leaves`, `Admitted`),
with the step of the recursion (`ValueOf`, `TextOf`, ...) as an operator of its own. A text
keeps its tokens, which the code finds with a regular expression, and the set of its operands:
their order and nesting mean nothing to either library.

`Access` puts them together for one file with one policy: `versions` with the object each
names, `rowScheme` for `UploadedFile.abe_scheme`, `profile` and `policy`, and the two Redis
caches, `keys` under user, scheme and attributes, `allowed` under user and attributes. A
request first passes the gate of `get_queryset`: `AskGate` hashes the attributes and looks for a
cached answer, `ReadAttributes` reads them again, `EvaluatePolicies` evaluates those, and
`FillCache` caches the answer under the hash of the first. A download goes on with `Download`,
`LookupKey`, `GenerateKey`, `Decrypt`; `Respond` ends it, or a listing. Around them are
`EditPolicy`, `SetAttributes`, `Redeploy` (another `CPABE_SCHEME`), the expiry of either cache,
and an upload of a new version in three steps: `Upload` reads the policy and the row, encrypts and
puts; `UploadRow` saves the scheme on the row; `UploadVersion` records the version;
`UploadFails` ends it at either point. `copies` are the schemes that copies of the row in
the memory of other handlers may name, any of which `SaveRow` writes back: `create_signed_url`,
trash, restore and rename save all fields of a row they read earlier. Each user runs one request
at a time. Three histories name the exceptions of the properties: `past`, the conditions the
policy has had; `crossed`, a request (and the answer it cached) whose user's attributes changed
between its two reads; `torn`, a row whose scheme was last written by a stale save or by an
upload that made no version. `assign_policy` writes row and version in the same order (1888-1894)
as an upload, and stands for nothing new here; it is in `FileStore` only.

### Sessions

`row` is the table of `ActiveSession`, `blacklist` that of simplejwt, `attempts` and `code` the
counters and codes in the cache, `owner` and `family` say for whom a token was minted and from
which sign-in it descends; `req` is the request each worker runs. A handler is split where it
reads a counter, code, row or blacklist and later writes it: `Login`, then `WrongPassword` or
`RightPassword`, `AskForCode` or `OpenSession`; `VerifyCode`, then `TooManyTries` or
`CompareCode`, `CountTry` or `SpendCode`; `Refresh` and `Rotate`; `Logout` (or
`LogoutAccess`), `LogoutBlacklist`, `LogoutClose`; `Revoke` and `RevokeSave`; `RevokeAll`, one
UPDATE. `AdmitToken`, `Touch` and `Answer` are a protected route: the middleware needs an active
row, and saves the row it read if that is old. `UnlockUser` and `ExpireCode` are the timeouts of
the cache. `guesses` counts wrong passwords since the counter was last empty; `raced` is a
history variable: the users, codes and families that two requests used between each other's
read and write. A token that expires is one its client no longer sends; whether an account is
disabled or suspended is chosen freely.

## Runs

| run | bounds | what it shows |
|---|---|---|
| `audit_concurrent` | 2 workers, 1 user, 3 entries, 1 abort, 1 edit, all entries in one clock tick | type, `LinksBackward`, `AcceptedMeansIntact`, and `GrowsAsTree`: `AuditChain` implements `HashLog!TreeSpec` |
| `audit_progress` | 2 workers, 3 entries, 1 abort, writers and removals only | `RequestsEnd`: no deadlock on row locks |
| `audit_serial` | 1 worker, 4 entries, 3 clock values | `GrowsAsChain`, `QuickRaisesNoFalseAlarm` |
| `audit_fork` (violation) | 2 workers, 2 entries | `NoFork` fails |
| `files_serial` | 1 request, 1 path, 2 CP-ABE and 1 plain policy, 2 uploads, 2 seconds, paths in the clear; uploads and deletions may fail | type, `AckedReadable`, `EncryptionFollowsLinks` |
| `files_concurrent` | 2 requests, 2 paths, 1 policy, 2 uploads, paths encrypted; everything but assignment; uploads and `hard_delete` may fail | `AckedReadable`, `OwnObject`, `VersionRecordsPolicy` |
| `files_assign` | 2 requests, 1 path, 1 plain policy, 2 uploads, 2 seconds, assignments may fail | `AckedReadable` under assignments |
| `keys_recovery` | 2 workers, the second late, 2 key sets, 1 fault, deaths in the middle of a backup file included | type, `SealedRecoverable`, `ServiceOpensAll`, `NoSplitBrain` |
| `plugin_recovery` | 2 workers, the second late, TKN20, 4 key sets, 2 files, crashes, 1 outage | type, `RestartsKeepKeys`, `FilesOpen` |
| `plugin_outage` (violation) | 1 worker, 1 file, 1 outage | `SealedKeysKept` fails |
| `sessions` | 1 user, 2 requests, 3 tokens, 1 code, limit 1, 1 race | type, `LockoutHolds`, `CodeSpentOnce`, `OneLiveRefresh`, and `RevocationIsFinal`: every sign-in implements `DeviceSession` |
| `access` | owner and reader, 3 profiles, 3 conditions, both schemes, 1 request and 1 upload at a time, 2 changes | type, `NoStaleKey`, `GateFollowsAttributes`, `OnlyAdmitted`, `AllAdmitted`, `OwnerOpens`, `RowNamesScheme` |

**Bounds.** Two workers or requests are enough for each hazard listed: every one of them is a
pair of requests, and the third entry of the audit runs is one that has both a fork and a
deletion below it. Two uploads give a first and a second version, or two files; two seconds let
two assignments share a second or not. Two key sets are the ones that can be confused;
`plugin_recovery` has two schemes, so four: each made twice, or one made again after crashes.
Three tokens are a sign-in, its refresh, and the refresh of that or a second sign-in; a limit of
1 has a counted and a refused attempt, and the theorems about `Sessions` hold for every limit.
The profiles of `access` have a ranked attribute, an unranked one and a missing one, the
conditions each operator, a disjunction, a conjunction and a negation; two changes are an edit
and an upload, a lost attribute and an upload, two edits, and so on. Bounded counters
(`MaxLogs`, `MaxClock`, `MaxAborts`, `MaxEdits`, `MaxUploads`, `MaxKeys`, `MaxFiles`,
`MaxFaults`, `MaxRaced`, `MaxRequests`, `MaxChanges`, and the sets `Tokens` and `Codes`) appear
in guards only. Workers, requests, tokens, codes and CP-ABE policies are symmetric and permuted
where the run checks no liveness; `access` starts the owner with one of the profiles, from which
he may be given another.

**What the runs assume.** A passing run holds under the conditions its configuration or its
property names, and several of these are narrower than the program:

* `audit_serial` has one worker. With two the chain forks (`audit_fork`), and the quick
  check raises alarms over tables nobody touched.
* `files_concurrent` and `files_assign` set `FIELD_ENCRYPTION`, which is off by default.
  Without it objects are named after paths, and racing uploads, or a rename followed by
  an upload, overwrite bytes that a version names.
* `files_serial` leaves out `remove_policy` and `folder_policy`. After either, links no
  longer say whether an object is encrypted, and the next assignment encrypts
  ciphertext or, once the policies have changed, serves it undecrypted.
* `files_assign` has no CP-ABE policy. With one, an assignment racing an upload encrypts
  twice.
* `AckedReadable` promises a version until a deletion for good takes its object or its record.
  That includes a deletion that is rolled back after `post_delete`: with paths in the clear it
  leaves a file and versions of which one has no object. The property also makes an exception
  while an assignment to the file is running: a second assignment within one second replaces the
  object before the version.
* `keys_recovery` lets only one worker run before a file exists, and Vault and the backup fail
  only after that; a worker that dies with a file of the backup open counts as the one fault,
  whenever it does. The torn file stays, so the loss of Vault would then cost the keys.
  `NoSplitBrain` leaves out a request that reads the backup while another worker rewrites the
  file of the master key: it meets the error until that file is written. Two workers at first
  use (`Late = {}`) lose keys, and so do an outage of Vault in the middle of the first set-up
  followed by two crashes. A second fault may lose keys: Vault and the backup are two copies.
* `plugin_recovery` lets only one worker run before a file exists too, and its two properties
  speak of behaviours without an outage, after which `SealedKeysKept` fails
  (`plugin_outage`). The run has outages all the same, for the type invariant. `FilesOpen`
  asks for the recorded signature key: a worker that dies between the two `put_secret`
  calls leaves it unrecorded for good, and decryption then fails.
* `LockoutHolds`, `CodeSpentOnce` and `OneLiveRefresh` leave out what was raced for, where they
  fail: two logins that overlap count as one failure, two requests may both spend a code,
  two refreshes of one token leave two pairs, and so does a refresh that overlaps a logout.
* `RevocationIsFinal` is about routes behind `JWTAuthenticationMiddleware`.
  `CookieJWTAuthentication` (authentication.py:10-31) looks at no session row, so on other
  routes a revoked session works until its tokens expire; a refreshed access token has no
  row, and is refused on protected ones.
* `OnlyAdmitted` is about ciphertexts: `not` compiles to the empty text, with which a file is
  stored in the clear. Its reference, `Admits`, takes a ranked user for every rank below
  his, so a ranked user passes `!=` of his own rank.
* `AllAdmitted` and `OwnerOpens` name what a compiled condition does not admit although it
  evaluates to true: an order, which is compiled as an equation; a missing attribute; under
  TKN20 a ranked attribute, of which a key keeps one value (it is also why the padding of
  views/storage.py:136 does not open TKN20 files); and any version whose scheme is not that of the
  row.
* `RowNamesScheme` leaves out an encrypted upload that stands between row and version, and, until
  the next encrypted version, one that stopped there (a failure, a crash, a version number that
  another upload took first) and a row written back by a handler that had read it earlier.
  In each case the row may name a scheme its last encrypted version does not have, and the
  version then opens for nobody, which `AllAdmitted` and `OwnerOpens` allow.
* `GateFollowsAttributes` allows a policy the file had before an edit, which the 30 s cache may
  still answer for. It also leaves out answers whose request read the attributes twice
  (casbin_service.py:437 and 448) with a change in between: an attribute granted there and lost
  again is answered "allowed" under the old attributes until the entry expires. The key cache is
  harmless for a new request, because its name hashes the attributes; a request that already
  holds a key finishes with it.

**Fairness.** `audit_progress` assumes weak fairness of each worker's `Proceed`: a request
that was started is carried on by its process. Nothing forces clients to send requests,
users to be deleted, or failures to happen. PostgreSQL grants a released row lock to a
waiter, and the run has finitely many writers, so weak fairness suffices. The safety
runs assume no fairness. In the other components a request waits for nobody, so that it
ends says nothing about the code.

**Deadlock.** It is checked in `audit_concurrent`, `audit_serial`, `keys_recovery` and
`plugin_recovery`. In `audit_progress`, the file runs, `sessions` and `access` the system may
rest once clients stop and the bounds are used up.

## What disagrees with the documentation

Shown by a run:

1. README.md:36 "continuous cryptographic hash chain": concurrent writers fork it
   (`audit_fork`).
2. docs/en/project-specs-en.md:177 "if they do not exist, the system automatically generates
   keys": in plugin mode a read of Vault that fails counts as a missing key, and setup
   replaces the master keys of the mount (`plugin_outage`).

Met while modelling, and shown by widening a configuration as said above:

3. docs/en/project-specs-en.md:194 "HISTORICAL versions are retained": with paths in the
   clear a rename and an upload overwrite one (`files_concurrent` with
   `FieldEncryption = FALSE` and one request).
4. models/storage.py:128, a version "records the CP-ABE policy used to encrypt it": an
   assignment that races an upload encrypts twice.
5. services/cpabe_service.py:215 "System halted to prevent data loss": two first requests
   lose keys without a halt (`keys_recovery` with `Late = {}`).
6. views/storage.py:136-137 "We mathematically satisfy the policy": not under TKN20
   (`OwnerOpens` without its first condition).

Read in the code, outside what the models state: changing or resetting a password revokes no
session; `verify_otp` does not look at the account's status; a logout whose refresh token is
blacklisted already answers 400 before it closes the session; revocation signals compute
a key id under which nothing is stored; a policy text compiled for one scheme may not parse in
the other.

## Proofs

Each theorem is about the specification a run checks, for any values of the constants that
satisfy the named assumptions. `Users`, `Workers`, `Requests`, `Paths`, `Profiles`, conditions
and the sets of policies may be any sets, finite or not. Most assumptions only say that bounds
are numbers, that special values are not members of the sets they are special to, and that
`FileStore` has a path. Three say more, of parts outside the model:

* `AbePlugin!PoliciesAssumption`: an attribute satisfies the policy that is that attribute;
* `PolicyTerms!LibrariesAssumption`: `rabe` and CIRCL read a text by its structure, AND by all
  operands, OR by one. They are external; TLC evaluates the assumption on the definitions of
  `PolicyLibraries` in the run `access`;
* `PolicyTerms!PartsAssumption` and `VocabularyAssumption`: conditions are finite trees of
  comparisons with literals, and what a user has is a value the attribute's definition allows
  (`set_user_attribute` calls `validate_value`) or nothing. The first is what Python's parser
  gives. The second leaves out an administrator who takes a value from `allowed_values` while
  users still have it; `NoneOf` would then exclude those users too.

A theorem that holds under a condition the program can break has it as an ASSUME, and is about
the same conditions as the run of the property: `OneEarly`, `NoReencryption`, `Serial`,
`OneByOne`. Each is met by the configuration of that run.

### The audit chain (`AuditChainProofs`)

* `TypeCorrect`: `Spec => []TypeOK`
* `LinksBackwardHolds`: `Spec => []LinksBackward`
* `AcceptedIsIntact`: `Spec => []AcceptedMeansIntact`
* `ImplementsTree`: `Spec => GrowsAsTree`, the refinement of `HashLog!TreeSpec`

`LinksBackward` is not inductive: a commit adds a row whose link was chosen several steps
earlier, from a snapshot. The inductive invariant is `TypeInv /\ ChainInv`. `TypeInv` adds
to `TypeOK` that the table and the scanned sets are finite. `ChainInv` says

* `Recorded`: every row of the table is in `hist`, but for its `user`, which edits and
  removals may have changed;
* `HistoryOK`: no two committed rows share a hash or a key, hashes and keys are among those
  handed out, and each row covers `Genesis` or a row with a smaller key;
* `JobOK`: the entry a writer is building has a hash (and, once inserted, a key) that no
  committed row has, and covers `Genesis` or a committed row; what a deep verification is
  about to accept is intact;
* `Apart`: two writers never build entries with the same hash or key.

Each conjunct is preserved by each action, one step per action; the refinement then follows
because the only action that changes `hist` is `Commit`, whose row `JobOK` and `Apart`
describe. `AcceptedMeansIntact` needs that a scan without corruption walks the order of the
table: the lemmas about `Before` and `IsLast` (a finite set has a last element, and the order
is total on rows with distinct keys) give that consecutive rows link, hence that no two rows
link to the same one.

With one worker (`Serial`: and nobody removes or edits entries; the conditions of
`audit_serial`, but for its bounds) the log is a chain:

* `SerialIsChain`: `ASSUME Serial PROVE Spec => GrowsAsChain`
* `SerialHasNoFork`: `ASSUME Serial PROVE Spec => []NoFork`, the property that `audit_fork`
  shows two workers break
* `QuickIsQuiet`: `ASSUME Serial, MaxAborts = 0 PROVE Spec => []QuickRaisesNoFalseAlarm`

They need that "newest" means the same to everybody: `save` links to the last row by
`(timestamp, id)`, and `HashLog!ChainSpec` to the last row committed. `SerialInv` says that the
table is what was committed; that in its order each row follows the one before (`ChainOK`);
and that the entry in progress is stamped no earlier than any row, covers the last one, and has
a larger key (`SerialJob`). `Extended` is the lemma behind it: a row later than all others is
the end of the order and changes nothing in it. `QuickInv` relates the cache to the table: what
is published is the count and the last hash of the table, or one entry ahead of it between
`Publish` and `Commit`. That is where `MaxAborts = 0` is needed: a rollback after `Publish`
leaves the cache ahead for good, and the next quick check raises an alarm. The refinement does
not need it, because a rolled-back entry is linked to by nobody.

### Sessions (`SessionsProofs`, `RevocationProofs`)

* `TypeCorrect`: `Spec => []TypeOK`
* `LockoutCorrect`: `Spec => []LockoutHolds`
* `CodesCorrect`: `Spec => []CodeSpentOnce`
* `RotationCorrect`: `Spec => []OneLiveRefresh`
* `RevocationCorrect`: `Spec => RevocationIsFinal`, the refinement of `DeviceSession`

`TypeInv` strengthens `TypeOK` by `Lineage` (a token descends from one that founded its family,
and only founders have a row), by a user for every live code, and by what a request may hold
at each step (`Holds`: a login names a user and has read a counter below the limit, a refresh
holds a token that was minted). That is what keeps the counters in their type, races included:
a login writes what it read plus one.

`LockoutHolds` speaks of the moment after several requests, so it needs what each of them has
read. `LockInv`: for a user nobody raced for, the wrong passwords seen are no more than the
counter, and no more than the count any login has read, and one login at most is in progress.
`SpendInv` says the same of a code and its wrong answers, that one request at most holds it, and
that it has opened a session only once it is spent (`CodeUse`). `RefreshInv`: a request that
holds a refresh token of an unraced family is alone, and its token is not yet blacklisted, so
`Rotate` blacklists one live token as it mints another, and a family has at most one that is
live.

For the refinement no invariant beyond `TypeInv` is needed, but one step per action: each
action changes the state of at most one device, or of several in `RevokeAll`, and by
`DeviceSession`'s own actions only. The proof rests on `update_fields`: neither `Touch` nor
`RevokeSave` writes an `active` back, which the mutant of the run does.

### Keys in plugin mode (`AbePluginProofs`)

* `TypeCorrect`: `Spec => []TypeOK`
* `RestartsCorrect`: `ASSUME OneEarly PROVE Spec => []RestartsKeepKeys`
* `OpenCorrect`: `ASSUME OneEarly PROVE Spec => []FilesOpen`

`OneEarly` is the condition of the run: at most one worker is not in `Late`. The inductive
invariant is `TypeInv /\ KeyInv`; `KeyInv` is `faults = 0 => KeysOK`, and `KeysOK` says

* Vault answers, and `Recorded`: a public key in the document is that of the mount, whose
  signature key is of the same set, and the signature key is recorded after the other;
* once there is a file, both schemes are recorded (`Complete`); before, no late worker runs;
* `FileOK`: a file is sealed and signed with recorded keys;
* `WorkerOK`: what a process remembers is recorded; it makes and records keys only before
  the first file and only where none are recorded; the document it is about to write back is
  the current one; and what it has made is what the mount holds.

A crash between the two writes of `setup`, or before either `put_secret`, leaves `Recorded` true,
because it says nothing of a mount without a recorded key; that such a mount may be set up
again loses nothing, because `Complete` makes the making of keys and the existence of files
exclude each other. `FilesOpen` follows from `FileOK`, `Recorded` and `PoliciesAssumption` by
the definitions of `HybridCipher`, for each scheme.

### Master keys (`MasterKeysProofs`)

* `TypeCorrect`: `Spec => []TypeOK`
* `RecoveryCorrect`: `ASSUME OneEarly, MaxFaults <= 1 PROVE Spec => []SealedRecoverable`
* `ServicesCorrect`, `NeverSplit`: the same of `ServiceOpensAll` and `NoSplitBrain`

`MaxFaults` counts a death in the middle of a backup file. The two assumptions are the
conditions of `keys_recovery`; without either the properties fail. The inductive invariant is
`TypeInv /\ KeyInv`, in two phases.

`Early`, until a file is sealed: Vault answers, no late worker has run, and the one that runs
writes the four keys in order, so the last one (`PQC_PK`) in the document says that all are
there and come from one call of `setup`. A file of the backup is absent, torn or holds
what the document does (`Copies`), and there is none as long as the document lacks the last key;
the last file is opened last, so with it there the others are whole (`EarlyTables`), and a
torn one is being written, or was the fault (`EarlyTorn`). `EarlyJob` says how far the worker has
got: what it has pushed is what it holds, and it is ready only once the backup is whole, or
was the fault. Keys of a first attempt that a crash cut short may lie in the document;
they are overwritten before the last key is written, hence before a file exists.

`Settled(K)`, from then on: no store, cache, memory or sealed file holds a key of another set than
K. `VaultHolds` says that Vault answers, has all four keys, and that no worker missed one;
`BackupHolds` that the four files are written and nobody rewrites one. Both are true until the
one fault, and one of them ever after: a worker that missed a key of Vault (`LateJob`, per step)
finds the backup whole, adopts it, and pushes the same keys again; one that finds a file
missing writes all four anew from Vault, opening each before it writes. `MasterTorn` is what
`NoSplitBrain` needs of that: a torn master key is being written, or the backup lacks its last
file, so nobody compares it. `FirstSeal` is the step from one phase to the other.

### Files (`FileStoreProofs`)

* `TypeCorrect`: `Spec => []TypeOK`
* `ReadableCorrect`: `ASSUME NoReencryption PROVE Spec => []AckedReadable`
* `OwnCorrect`, `RecordCorrect`: the same of `OwnObject` and `VersionRecordsPolicy`

`NoReencryption` covers the conditions of `files_concurrent` and of `files_assign`: paths are
encrypted, and either no client assigns policies to files or no policy has a CP-ABE part. Every
other handler may be called, those that the runs leave out to stay small included, and every one
may fail at any step, a deletion between `post_delete` and its commit too. `TypeInv` adds to
`TypeOK` what a request has at some of its steps: a policy to assign, the id of the row to save,
a version number. That `assign_policy` finds a latest version needs that version numbers are
bounded (`LatestExists`).

`FilesInv` rests on the uuid in an object's name: the object of an upload that is on its way
is named by no version and by no other upload (`Unnamed`, `Apart`); once put it holds what the
upload encrypted (`JobOK`), and the version that then names it says how (`VersionOK`). No two
versions agree on file and number, or on the uuid of an upload (`Distinct`). Deletion removes
objects named like a path, which none of these is. An assignment writes under another name
with the same uuid, and whatever lies under a uuid is the bytes of its upload (`ObjectOK`),
so that two assignments in one second may share a name. So an acknowledged upload has
exactly one version (`AckedOK`), whose bytes are what was put, and decrypting by the recorded
policy gives them back (`Opened`).

One case needs three requests, so the runs with two cannot show it: `UploadLink` succeeds after
the file was deleted for good if another request saves the row it had read. Such an upload
answers 201 for a version that is gone; `acked` leaves it out (`Kept`). Another one is why
`AssignSaveVersion` looks for the version it read by its uuid too: another may have its
number by now, which `save` by primary key does not touch.

With paths in the clear, the default, the same holds of one request at a time:

* `SerialReadable`: `ASSUME OneByOne PROVE Spec => []AckedReadable`
* `SerialFollows`, `SerialOwn`, `SerialRecord`: the same of `EncryptionFollowsLinks`,
  `OwnObject` and `VersionRecordsPolicy`

`OneByOne` is the condition of `files_serial`: one request, paths in the clear, no
rename, no removal of a policy, no policy of the folder, and assignments that do not stop
halfway. Every other handler may fail at any step, and there may be any number of paths,
policies, uploads and seconds. Here nothing but order keeps two versions apart: a name is a
path, a version number and the second of the last assignment (`NamedFor`). The two properties
the run checks prove each other. Bytes can be read back after an assignment only if the
assignment judged rightly whether it read ciphertext, which it does by the links of the file;
and the links tell the truth only if every earlier assignment and upload left the newest version
encrypted for exactly them. So `ClearInv` is their conjunction, with what is true in between:

* `TablesOK`: one row per path, no links or versions without a row, `NamedFor`;
* `HeldOK`: the bytes of an acknowledged upload that no deletion took lie where its version
  says, encrypted as it says, but for the one version an assignment has put and not yet saved;
* `FollowedOK`: the newest acknowledged version `Fits` the links, but while an assignment that
  encrypts is between its first and its last write;
* `UploadJobOK`, `AssignJobOK`, `SaveJobOK`: what a request holds. The name an upload will put is
  no version's (`FreshName`). The policy an assignment will save is that of the links as they
  will be then, at each of its steps; what it will put is the bytes of the newest version under
  that policy alone; and that version is still the newest when it is saved.

An object name can be that of the version being replaced (two assignments in one second): the put
then overwrites it, which is the exception in `HeldOK`, and why `AckedReadable` makes one. The
assumption `NoPolicy # P` for every set of policies P keeps "no policy" (None) apart from a text.

### Access and the policy compiler (`AccessProofs`, `TreeRecursion`)

About the compiler alone, for every condition, both schemes, and whether or not the library that
reads the text is the one it was compiled for:

* `CompilerSound`: a key with no more than a profile's attributes that opens the compiled text
  belongs to a profile the condition means to admit;
* `CompilerComplete`: a key that covers what a condition compares opens the text, if the
  condition evaluates to true and compares no order (`Covers`);
* `TokensOpen`: under AC17 the tokens of a text open it.

About the system:

* `AccessTypes`, `NoStaleKeyEver`, `OnlyTheAdmittedRead`, `TheAdmittedRead`,
  `OwnerIsNeverRefused`, `RowKeepsScheme`, `GateFollows`: `Spec => []P` for each invariant of the
  run `access`

The three facts about the compiler are proved by induction on conditions. Neither that nor the
use of a recursive function is available as such: the library's induction theorems take an
operator as a parameter, and a function defined by recursion is a CHOOSE, of which nothing is
known until a function with its equation is shown to exist. `TreeRecursion` proves both for
finite trees, from the least element of a set of depths, and states them about its own
constants: `TreeInduction` over a set `Good` of nodes, `RecursionExists` for a step `Of`.
`AccessProofs` instantiates the module once for each recursive function of `PolicyTerms`, with
its step as `Of`, and gets the equations of `Value`, `Texts`, `Leaves` and `Admitted`.

The inductive invariant `IInv` is `RowNamesScheme` and

* `RowInv`: the policy is a condition it has had (`past`) and its text under one of the schemes;
* `VersionsInv`: every version has the text of its condition under one of the schemes; it is in
  the clear if that is empty, and otherwise a ciphertext of that text, made by a library that
  parses it;
* `PendingInv`: the upload under way holds such a version, encrypted under the scheme it saves on
  the row; once it has, the row has that scheme unless it is torn;
* `KeysInv`: a cached key was generated from the attributes its name hashes;
* `AllowedInv`: a cached answer "allowed" is true, of the attributes it is cached under, of a
  condition the policy has had, or its request was crossed;
* `JobsInv`: what a request holds at each step: at the gate (`GateJob`), that both reads agree
  unless it is crossed; in a download (`DownloadJob`), that its key was made from the
  attributes it read (`HasKey`), and it is served or refused as that key opens the version it
  read or not.

`OnlyAdmitted` is then `CompilerSound` of the version's condition, `AllAdmitted`
`CompilerComplete`, and `OwnerOpens` `TokensOpen` of the padded attributes; that the key need not
be of today's attributes, policy or scheme is in the invariant, not in the compiler. Keys of
TKN20 keep one value of each attribute (`OneOfEach`), without which negation would admit
everyone who has two.

The proof found one flaw of the model: operators of `HybridCipher` were CASE expressions with
overlapping guards, of which TLA+ leaves open which applies. They are nested conditionals now, in
the order of the code.

### Only model-checked

`RequestsEnd`, which is liveness; `SealedKeysKept`, which fails. Every other property of a run is
stated by a theorem, under the conditions above; those of `NoReencryption` and `OneByOne` do not
meet, so nothing is proved, or true, of racing requests with paths in the clear.
That `LibrariesAssumption` holds of `Grants` and `WellFormed` is checked by TLC on the
conditions of the run, not proved: their definitions are recursive.

## Not modelled

* `PROJECT.json` lists what is left out of each component. The main omissions: folder
  operations on several files, the clipboard, and readers other than the owner in `FileStore`
  (`Access` has them, for one file); `check_access` with priorities and deny; superusers;
  several policies of one file; passkey and VPN sign-in; changing and resetting passwords.
* Cryptography is taken as correct: a hash is injective, a ciphertext opens with the right
  key only, a signature verifies with its key only.
* Values are lower case and without spaces: `tkn20.cpp` lowers the text of a policy.
  Lengths are not modelled, nor what 32-bit offsets in a ciphertext do beyond 4 GiB.
* The C, C++ and Go sources of the plugin are some 2,600 lines; the other 60,000 lines of
  those languages are vendored headers (`vault-plugin/include`), which no module models. The
  program itself is Python, so the share of C, C++ and Go lines the map covers says little.

## Plan

Done: the audit chain, the file store, the master keys, the plugin's keys, the sessions, the
policy compiler and access, each with its proofs.

1. Of `FileStore`, what one request at a time promises once `rename` and `remove_policy` are
   called: which files stay readable.
2. The conditions under which several workers keep the audit log a chain.
3. In `FileStore`: folders with several files, clipboard, and readers who are not the owner.
4. `check_access` with priorities and deny, and the settings cache.
