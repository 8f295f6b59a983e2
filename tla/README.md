# Verification of youtrack-agent-cli

TLA+ modules, TLC runs and TLAPS proofs about `youtrack-agent-cli`: whether a
mutation may be sent to YouTrack and what is known about it afterwards; whose
credential a command uses, how it was obtained and where it is kept; which
profile a saved default means; and what two independent programs accept as an
approval. Every definition that models code names its lines in `PROJECT.json`
("map"); paths below are relative to `src/`.

## The system

The program is a command line tool. There is no daemon: every command is a
process of its own, and processes share a directory of small files, the macOS
login Keychain and the YouTrack server. Concurrency is between processes,
serialised by advisory lock files; failure is an I/O error, a canceled context,
a kill, a power loss, or an answer that never comes.

| Part | State | Operations | What makes it correct |
| --- | --- | --- | --- |
| Operator-write ledger, `internal/operatorwrite` (`store.go`, `files_unix.go`) | per plan: `ID.json`, `ID.claim`, `ID.result`, `ID.lock` | Create, Get, Claim, Finalize | one claim is ever granted, a granted claim survives any crash, a settled result is never replaced |
| Operator-write plans, `internal/operatorwrite/plan.go` | none (documents) | snapshot and plan validation, freshness | a plan that is applied is the one that was confirmed, and is not stale |
| Apply and reconcile, `internal/application/operator_writes.go` | one invocation: its progress, its HTTP request | Snapshot, Prepare, Status, Apply, Reconcile | at most one request per plan, sent only under the bound authorization; the recorded outcome does not lie |
| Lock files, `internal/lockfile` | kernel advisory locks | With (exclusive), WithExisting (shared), two-second budget | exclusion between processes, release on death, no wait without end |
| Profile registry, `internal/profile` | `profiles.json`, one lock file per profile, saved defaults | Add, Put, Remove, WithProfileLock, defaults | atomic replacement; committed and uncommitted failures are told apart |
| Write policy registry, `internal/writepolicy` | `policies.json`, one lock file per policy | Set, Clear, RequireProject, WithPolicyLock | a policy is used only for the profile generation it was set for |
| Credential transactions, `internal/auth`, `internal/application/service.go`, `oauth_login.go` | Keychain item and profile metadata, which no single write can change together | Login, Logout, SaveProfile, RemoveProfile, refresh in `client` | credential and profile match or the program refuses; compensation restores both; no unconfirmed overwrite |
| Saved defaults, `internal/profile/defaults.go`, `internal/application/selectionguard.go`, the `profile defaults` commands of both editions | `profile-defaults.json` with its lock | preview, set, clear, ResolveSavedProfile, checkSelectionGuard | a saved slot names an eligible profile when it is saved; a command changes no other slot; a saved choice is not applied to a profile that changed since |
| OAuth, `internal/oauth`, `internal/oauthrecovery`, `internal/application/oauth_login.go` | one browser session, loopback callback server, token endpoint | LoginOAuth, startCallback, Wait, Close, ParseCallback, Exchange, Refresh | one result per session, only its own redirect counts, the command returns and frees its port, a spent code is not presented again |
| Stored credential, `internal/auth/store.go` | the payload of the Keychain item, version 1 or 2 | encode, decode, Validate, BindCredential, ValidateCredentialBinding | a token is used only for the profile it was issued for and claims no scope that was not granted |
| Keychain adapter, `internal/auth/keychain_darwin.go` | the item and its access list | Exists, Load, Save, Delete, MigrateKeychain | a token is written only where this program alone reads it, whoever else works in the Keychain |
| REST client, `internal/youtrack` | one call: attempts, sleep, deadline | bounded reads, AddComment, CreateIssue, UpdateIssue, DeleteComment | a write is sent once and only a definite refusal is reported as one; reads respect the server's wish; every call returns |
| Mutation journal, `internal/journal` | one record per plan, version 1 and 2 | Create, Get, CompareAndSwap (refuses), MigratePreparedV1 | only an untouched version 1 record is migrated, a reported migration survives a crash, other records stay and get a quarantine marker |
| Approval protocol, `internal/approval` (Go) and `native/macos/ApprovalProtocol` (Swift) | signer registry histories, ceremony transcripts, requests and receipts | replay of records, verification of transcripts, request, answer, validation, receipt and signature codecs | both programs give the same verdict; a key never comes back; a receipt counts for one approval, once, in time |
| Skill installer, `internal/skills` | installed directories with manifests | Install, Uninstall | only owned, unmodified files are replaced or removed |
| CLI, output, errors, validation | none | | pure functions; only the order of checks in the commands above is modelled |

How they interact. An operator-write command reads the plan's ledger, builds a
client (profile lock: profile, credential, refresh), reads the target from
YouTrack, then takes the profile lock and the policy lock in that order,
checks the binding again, claims the plan (ledger lock), sends one request,
and finalizes the outcome (ledger lock again) before both locks are released.
`auth login`, `profile policy set` and `clear` take the same locks, so they
are excluded from the claim to the recorded outcome and from nothing else.
`operator-write reconcile` takes the profile lock only while it builds its
client.

A browser login runs three kinds of goroutines in one process: the command,
the handlers of its callback server, and one that closes the server when the
context ends. A saved default is resolved without a lock and checked again
under the profile's lock by whatever operation uses it. The Keychain is shared
with the person and other programs, who take no lock. The Go client and the
Swift helper exchange one request and one answer, and both judge the same
registry and ceremony documents.

What is hard here, with lines in `PROJECT.json` ("hazards"): crashes between
the system calls of one durable write; two invocations of one plan; profile
and policy changing between the first check and the request; the server acting
after the client stopped waiting; a reconcile that read the record before the
apply finished; credential and profile metadata changing in two writes; a
default that outlives the profile it was saved for; redirects, a canceled
context and a failing server that race for one result; an answer that is late,
repeated or of another request; clocks that disagree; an item that is replaced
between two Keychain calls; a retry that sleeps into its deadline; two codecs
of one format that must not differ.

## Modules

| Module | What it is |
| --- | --- |
| `LedgerFile` | one file: the content processes see and the set of contents a power loss may leave; open, write, sync, directory sync, rename |
| `LedgerRecord` | what a reader decodes from the three files, and which result Finalize accepts over which record |
| `ConsumeOnce` | the abstract promise: withdrawn before granted, granted once, settled once |
| `OperatorLedger` | the ledger of one plan, one action per Store operation and per system call it makes under the lock |
| `OperatorWrite` | apply and reconcile over the ledger, the two locks, the authorization state and the server |
| `Operator_proofs` | the theorems about `OperatorWrite` and, as `MCOperator` instantiates it, `OperatorLedger` |
| `CredentialTransaction` | one profile and its credential: login, logout, save, remove, readers, refresh, under the profile's lock |
| `CredentialTransaction_proofs` | the theorems about `CredentialTransaction` |
| `JournalRecord` | records of both journal versions, the frozen reader, the prepared version 2 codec, the marker |
| `JournalLifecycle` | the version 1 transitions: every record an old journal may hold |
| `JournalMigration` | Create and MigratePreparedV1 for one plan, system call by system call, with the quarantine marker |
| `Journal_proofs` | the theorems about `JournalMigration` and, as `MCJournal` instantiates it, `JournalLifecycle` |
| `SkillInstall` | install and uninstall of several releases in one directory, system call by system call, beside its owner |
| `SkillInstall_proofs` | the theorems about `SkillInstall` |
| `SavedDefaults` | the defaults document, the registry and their locks under every command of both editions that reads or changes them |
| `SavedDefaults_proofs` | the theorems about `SavedDefaults` |
| `LoopbackLogin` | browser logins: command, callback handlers and closing goroutine, browser and token endpoint |
| `StoredCredential` | the payload of a credential through logins, uses, refreshes and edits of its profile |
| `KeychainItem` | one Keychain item, call by call, among other programs |
| `Credentials_proofs` | the theorems about `LoopbackLogin` and, as `MCCredentials` instantiates them, `StoredCredential` and `KeychainItem` |
| `RestClient` | one read or write of the REST client in time, beside a server that answers anything |
| `RestClient_proofs` | the theorems about `RestClient` |
| `SignerRegistry` | the replay of a registry's records, in Go and in Swift |
| `SignerCeremony` | a ceremony's transcript over a verified registry, in Go and in Swift; extends `SignerRegistry` |
| `ApprovalExchange` | request, helper, receipts and the validation of answers, in Go and in Swift, with clocks |
| `ReceiptText` | which texts the two receipt decoders accept |
| `P256Signature` | which bytes the two signature codecs accept, and what normalizing makes of them |
| `Approval_proofs` | the theorems about `SignerRegistry`, `SignerCeremony` and, as `MCApproval` instantiates them, `ApprovalExchange`, `ReceiptText` and `P256Signature` |
| `MCOperatorWrite`, `MCCredentialTransaction`, `MCSkillInstall`, `MCSavedDefaults`, `MCRestClient` | constants and symmetry for TLC |
| `MCOperator`, `MCPrograms`, `MCJournal`, `MCCredentials`, `MCApproval` | several modules checked by one run, one of them at a time |

The last five are sums, not compositions. A behaviour chooses a part in its
first state and takes the steps of that part only; the variables of the others
keep their first value. Their components share no state in the code, or share
it through something another module models: a login hands a credential to
`CredentialTransaction`, an approval uses an accepted receipt text. The modules
that compose components which do interact are `OperatorWrite` (ledger, locks,
authorization, server), `CredentialTransaction` (registry, Keychain, refresh),
`SavedDefaults` (defaults, registry, Keychain) and `SignerCeremony`.
Each module names its properties in parts (`WriteInv`, `LoginInv`, ...) and the
run checks the conjunction; the parts are stated and explained one by one in
the module. Where there are proofs the conjunction is inductive: it also says
what each place of the program may rely on. A definition commented as a broken variant belongs to no
specification: it is what a likely defect would make of the definition below
it, and serves to test that a property would notice.


`OperatorLedger`. `files[f].seen` is what a process reads, `files[f].disk`
what may be there after a power loss: `create` adds the empty (`Torn`) and the
whole content to the possible survivors, the file sync removes `Torn`, the
directory sync removes the missing name; `replace` keeps the old and the new
content until its directory sync. `Torn` stands for every content the decoder
refuses. `Create`, `Claim` and `Finalize` take the lock, run the guards and
open the file; `WriteFile`, `SyncFile`, `SyncDir`, `Rename`, `SyncRename`
follow; `Abandon` is an error or a kill at any of them, and `Return` is part
of the last one. A temporary file is written and synced before `Rename` and
nobody reads it, so its own steps are not separate. A call that is refused by
its guards or by the lock timeout changes nothing and is a stutter.
An attempt is named by the process that made it, which is what the random
attempt ID is for; each process claims at most once.

`OperatorWrite`. `pc` follows the code of `ApplyOperatorWrite` from the first
`Get` to `Finalize`, with the locks as variables. A ledger operation is one
action because it runs under the plan's lock file; its failures leave exactly
the states that the file steps of `LedgerFile` can leave
(`CreateFailures`, `ReplaceFailures`). `generation` and `policy` are compared
with the binding the snapshot froze. `edited` says that the target is no
longer what the snapshot froze, by somebody else or by this plan's own
request. `request[a]` is the mutation that invocation `a` sent; the server
applies or refuses it at any later time. `Concludes` is the classification of
`internal/youtrack/writes.go`: an answer that is a success and verifies is
`applied`, a typed refusal is `rejected`, all else is `unknown`, with the
identity the answer named if it named one.

`CredentialTransaction`. `profile` is the registry's entry for one name, again
as what is seen and what may survive (`Registry.write` is a temporary, a
rename and a directory sync; a `CommitError` is a rename whose sync failed);
`keychain` is the Keychain item, which changes as a whole. A login reads the
profile (`LoginBegin`), obtains tokens and verifies the account without any
lock (`LoginVerify`), and under the lock compares the profile again and saves
the credential (`LoginSave`), then publishes the profile (`LoginPublish`) or
restores the credential it found (`LoginRollback`). A logout deletes the item,
then removes the profile, or restores the item. `ReadBegin` and `ReadLoad` are
the two reads under the shared lock, `ClientBegin` the two reads under the
exclusive one, which is kept from `RefreshSend` to `RefreshSave`. Generations
are random in the code and named by their login here. `known[p]`, `held[p]`
and `prior[p]` are what an invocation holds in local variables: the profile it
read, the credential it read or made, and the credential it found.
`interrupted` remembers that a transaction was cut off between its two writes
(a kill, a power loss, a compensation that failed, a logout that could not read
what it deleted) until a later login or logout succeeds; `failed` remembers the
refresh tokens whose use did not end in a save. Neither influences an action.

`OperatorWrite` sees of all this only that a login changes the generation
under the profile's lock, and `ApplyClient` and `ReconcileClient` are the
client of `CredentialTransaction` in one step: it releases the lock before the
invocation goes on, and what it does under the lock cannot be seen outside.

`JournalLifecycle`. One action per group of cases of `applyTransition`
(`Confirm`, `Consume`, `Conclude`, `Resolve`, `Close`), each with the check
`validateRecord` makes before the record is written, and a clock that reads any
instant. `CompareAndSwap` refuses every transition in this release, so the
module describes what earlier journals may have left on disk and what the
frozen reader then makes of it. `uses` remembers the instants at which a
receipt was consumed.

`JournalMigration`. `record`, `marker` and `spare` are the record, its
quarantine marker and the temporary name that is linked to the marker, each as
what is seen and what may survive. They share a directory, so one directory
sync settles all three (`DirectorySynced`). `identity` is what
`journalFileIdentity` compares. A migration reads and classifies (`Read`), then
takes one of three ways: the record is already migrated and is synced and read
again (`Resync`, `Reread`); it is pristine and is replaced (`Replace`, whose
rename may report an error either way), observed, synced and verified; or it is
quarantined (`Mark`, `Link`, `Unlink`, `Recover`, `MarkSync`, `MarkVerify`).
`answer` is what the caller is told: `refused` (a plain error), `committed` (a
`CommitError`), `ok`, `quarantined`, or `unmarked` (a quarantine refusal that
names a marker failure). Another program of the same user may replace either
file at any time. Two windows are open to it, and the model has both: `Create`
looks at the name once (`Inspect`, `os.Lstat` at `store.go:97`), then writes and
syncs a temporary file and renames it over the name (`store.go:451`); the
migration looks once more before its rename (`Recheck`, `migration.go:155`, and
`Replace`, `migration.go:166`), which narrows the window and does not close it.
What another program puts there in a window is overwritten, so `SourceKept`
excepts exactly that (`Overtaken`): the record changed since the identity the
call remembers of its last look (`looked`, which influences no action).
`promised` and `evidenced` remember what callers were told.

`SkillInstall`. `entries` is what each name in the skill directory holds, the
manifest under `manifestName` among them; a file's content is who wrote it and
for which path, since the code compares hashes only. `Begin` is the preflight
without the lock, `Classify` the classification that is made again under it.
An install writes the incomplete manifest (`WriteManifest`), deals with each
file of the plan in path order (`SkipFile`, `RemoveFile`, `WriteFile`) and
writes the complete manifest; an uninstall starts with the files and ends by
removing the manifest (`Finish`). Every exchange and removal goes through the
steps of `writeFile` and `removeIfHashMatches`: `LinkNew` for a free name,
otherwise `Detach` to a random name, `Judge` what was detached, `Discard` it.
The owner of the directory takes no lock (`UserWrites`, `UserRemoves`). `aside`
collects the owner's bytes that a call left under such a random name, `owed`
the bytes nobody agreed to lose: a confirmed install may destroy what its plan
saw under a name, and nothing else. The command line always confirms; a caller
of the package need not. `strays` remembers the installer's own files that a
failed or killed call left unrecorded, or whose manifest the owner removed;
like `owed` and `touched` it influences no action. Strays are what the code
does: the incomplete manifest of an upgrade (`skills.go:538`) records the new
release's files only and replaces the old manifest before the dropped files are
removed. If the call ends in between, the next install no longer knows those
files: it reports success and leaves them beside a complete manifest, and an
uninstall leaves them as well. `NothingForgotten` says that there is no other
way to forget a file, `InstallDelivers` that a success leaves no other.
`NoMixture` is about the files that a complete manifest records.

`SavedDefaults`. `registry` is `profiles.json`, `file` the defaults document
as its fields in order, so that a document with a repeated, misplaced or
unknown field can be told from a good one (`Decodes`); `held` is the lock files
and who holds them, shared or not. `proc[p]` is the command a process runs,
how far it is, and its local variables: the slots it bound, the document or the
registry it copied, the guard it resolved. A `set` previews (`PreviewSet`),
takes the locks of the profiles it names in the order of their names
(`TakeProfileLock`), reads the document under its lock, checks the profiles
(`Bind`) and renames the new document into place (`ReplaceDefaults`); the
read-only edition binds before it reads, as its code does. A `use` resolves
the slot without a lock (`Resolve`, `Look`) and checks the guard under the
profile's lock (`checkSelectionGuard`). The other commands are what changes
profiles: save, remove, login and logout of the full edition, `admit` and
`drop` of the read-only one. A lock wait may time out (`TimeOut`), a write may
fail (`Break`), and the person may put another document in place (`Edit`), only
while no command holds its lock. `Eligible` is wider than the read-only
edition's policy for the profile that a set names: `edition_policy.go:22` with
`profile.go:327` also refuses one that has a credential generation, which here
may be saved; what is shown of every default that is saved here is shown of
those that the code saves.

`LoopbackLogin`. `main[l]` is where `LoginOAuth` is, `handlers[l]` the results
its running handlers have parsed and not sent, `closing[l]` the progress of the
one `Close` that `closeOnce` lets through. `SendOnce` is `callback.send`: the
`sync.Once` around a channel of one element. `Start` opens the listener and
starts the serving goroutine in one step (`oauth_login.go:150`). A request that
reaches the open port before `Serve` runs waits in the listener's queue: it has
not arrived yet. A `Shutdown` that comes first makes `Serve` close the port and
return as soon as it runs, which may be after the command returned; the model
closes it with the `Shutdown`, so that the port is free "when a login returns"
is up to that moment. `Wait` takes the result or the end
of the context, whichever is ready. `Arrive` is a request of any origin:
a redirect of this session, of another, repeated, late, or no redirect. State
values and codes are unguessable, so they are named by their session.
`presented` and `reached` are what the token endpoint saw and what the client
got of its answer, which may be cut off after the code was spent.

`StoredCredential`. `stored` is the payload of the Keychain item field by
field, of either version and at first with any content at all; `decodes`,
`Validate`, `ValidateCredentialBinding` and `encodeCredentialValue` are the
functions of `internal/auth/store.go`, `grantedScopes` and `Acceptable` what
`internal/oauth` makes of a grant. `Login` publishes or rolls back, `Use` and
`Refresh` are what a client does, `Edit` is the person's editor on the profile
document. `issuer` and `granted` remember for which profile and with which
scopes the server issued the token. A bound payload is the only kind any
release has written; an unbound one would be decoded by a login and could not
be put back by it, so `RestoredExactly` speaks of bound ones.

`KeychainItem`. `item` is the one item of a name: its identity, whose secret it
holds and its decrypt access list; `ref` is what a command resolved. Between
any two calls somebody may remove the item, put another one under its name, or
rewrite access or secret (`Somebody`). A reference names one item and fails
when that item is gone. `UpdateItem`, `DeleteItem` and `SetAccess` go by the
reference, `Load` and `Exists` by the name. An update of the program makes it
another program to the Keychain (`Upgrade`), between commands. `vouched` is the
item last found, or created, exclusively this program's; `settled` says that
nobody touched the item since this program wrote or migrated it. `SetAccess`
writes back the access it copied, so what a person edits in between is
overwritten; `MigrationNarrows` says what is promised all the same.

`RestClient`. One call: `attempt`, the clock `now` against the context's
`deadline`, `wake` while it sleeps, the `answer` of the last request and what
the caller was `told`. `handleReadResponse` and `translateWriteStatus` classify
answers, `parseRetryAfter`, `retryBackoff` and `retryDelayFitsContext` decide
about a retry. `Serve` answers anything and performs a write that succeeded,
does not perform one that was refused, and perhaps performs any other.
`Replay` is `net/http` sending a request again by itself, which it does for
bodies it can rewind (`Replayable`). `reached`, `performed` and `wished`
remember what the server got, did and asked for. Time passes in units of the
shortest backoff, timers are punctual, and the machine's clock is right where a
server names a date.

`SignerRegistry`. Records are supplied one after the other (`Supply`) to both
verifiers: `history` is what the Go replay derived, `mirror` what the Swift one
did. Each supplied record is the honest next one with any two fields changed or
signed by other keys. `GoReplay` and `SwiftReplay` are grouped as the two
programs group their rules, not merged; digests do not collide, a signature is
who made it over what. The definitions that enumerate the supplied records are
the adversary's and marked external.

`SignerCeremony`. The transcript is written document by document
(`WriteRequest` to `WriteRecord`), each as the ceremony calls for or with one
field changed, then accepted (`Accept`, the record extends both histories) or
refused. `GoTranscript` and `SwiftTranscript` are the two verifiers. `spent`
is the last accepted transcript, which no verifier takes again.

`ApprovalExchange`. `asked[r]` is what the client expects of request `r`,
`helper[r]` what the person sees and did, `wire` the frames that were sent,
`taken[r]` the answer the client took and when. A frame may be lost, late,
repeated, torn or respelled, and any frame may reach any request. The key and
the context are replaced at any moment (`Reauthorize`). Times are half seconds:
the Go code compares with fractions, receipts are rounded down to whole
seconds. The helper's program is not in the repository; `makeReceipt` and the
frames it may send are in its library and are modelled. The check of the ECDSA
signature (`ipc.go:356`, `IPC.swift:159`) is cryptography and left out of
`validateIPCSuccess`: instead only receipts that a helper signed reach the wire,
so `ExchangeSound` is about replayed, delayed and misdirected answers and says
nothing of forged ones.

`ReceiptText` and `P256Signature` are pure: a state is an input, and the
invariants compare the two programs' answers on it. A receipt is the sequence
of its fields, whether there is space between them, and what follows; it starts
as what the encoder writes of any times and revisions, and one thing in it is
changed. Version, revision, the two times, key generation and signature are
fields of their own, which each decoder judges by its own rules
(`validateReceipt` with `canonicalReceiptTime` and `keyGenerationRevision`;
`validate` with `wholeSecondUTCValue`). The fourteen ids, digests and names are
one field, inside its grammar or outside: both programs write those grammars in
the same words, so their agreement there is not examined. The first second of
the year 1 is the one text about which the decoders differ; `SameTexts` excepts
it and `OneVerdict` shows it. A signature is two
integers of digits, so that comparison, borrow and sign octet are done digit by
digit as in Swift, and with numbers as in Go. How many values a digit has
(`Base`), how many digits a scalar (`Width`) and the order of the group are
parameters: 256, 32 and the order of P-256 in the code, small in the runs. What
P-256 has and the parameters must have is `P256Assumption`: an even base over
two, an odd order, and the sign bit in the order's first digit.

## Runs

| Run | Question | Instance |
| --- | --- | --- |
| `operator_write` | Is a plan consumed once and for ever, whatever system call fails, whoever is killed and whatever a power loss leaves; is at most one request sent, only under the bound authorization and never for a target that had changed before the start; is the recorded outcome true? | ledger: 3 processes, every result of a write, 2 power losses; apply and reconcile: 2 applies, 1 reconcile, all 4 kinds, 2 faults, 1 cancellation, 2 profile or policy changes |
| `programs_end` | Does every program come to an end: is an outcome recorded although contexts are canceled, does a login return and leave no handler waiting, do commands that hold several locks get them? | 2 applies, 1 reconcile, 2 kinds, 2 cancellations; 1 login, 3 requests; 2 processes, 4 commands, 1 edit |
| `credential_transaction` | Do credential and profile match, or refuse, whatever is cut off; is nothing overwritten unconfirmed, no refresh token presented twice without need, and no half-done transaction seen? | 2 logins (1 confirmed), 1 logout, 2 clients, 2 topologies, 2 refresh tokens, 2 edits, 2 faults |
| `journal` | Is a reported migration durable, is any record but the untouched source ever replaced that was there at the last look, does a refusal leave its evidence; which version 1 records exist, is a receipt spent once and in time? | 2 callers, 3 instants (one that version 2 cannot spell), 2 pristine and 1 canceled record, 2 power losses or replacements |
| `skill_install` | Are the owner's bytes ever lost, does a complete manifest record a file of another release, does a success deliver its release, what does the installer forget of its own? | 2 callers, 2 releases of 3 files, 2 edits |
| `approval` | Do both programs give the same verdict on records, transcripts, answers, texts and signatures, does an accepted one prove what it should, and does an answer that counts answer this request, in time and once? | 3 records, 2 changed fields; 2 requests, 2 plans, 2 revisions, 3 clock offsets, 3 half seconds; receipts of 6 times, 4 revisions and 4 key generations, with one change; order 61 in 3 digits of base 4 |
| `saved_defaults` | Is what a command read and decided under its locks still so when it acts, does a saved slot name an eligible profile when it is saved, does no command take another one's change back, and is a saved default used only as it was saved? | any 2 commands of both editions by 2 processes, 2 names, 3 topologies, 5 edited documents, 1 edit; 4 commands about a profile that is replaced |
| `credentials` | Whose approval ends a login; for whom and with which scopes is a stored token used; which item does a Keychain command work on? | 2 logins, 3 requests; 3 scopes, 2 topologies, every payload; 1 item, 2 programs |
| `rest_client` | Is a write sent once and told truly, does a read respect the server's wish and its own deadline, does every call return? | deadlines 1, 4, 7 and 12, pages of 1 and 2, 3 items, waits up to 4, 1 repetition by net/http |
| `operator_write_identity` | (violated) Is a remote identity, once recorded, kept? | 1 apply, 1 reconcile |
| `receipt_verdict` | (violated) Do both receipt decoders give the same verdict on every text? | the texts of `approval` |
| `operator_write_change` | (violated) Does every change of generation or policy invalidate a plan? | 1 apply, 2 changes |

Bounds. In `operator_write` three processes on the ledger's files let one hold
the lock, one wait with an old handle and one start afresh; two power losses
let the second one hit the state the first one left. Two applies are needed for
every race about the claim, one reconcile for every race with a running apply; two faults
make a failed claim followed by a power loss possible, two changes make
clear-then-set possible. In `credential_transaction` two logins are needed for
an unconfirmed one to meet another's credential, two clients for two refreshes
of one token, two edits for a profile replaced during a login, and two faults
for a failed compensation or a power loss after a warning. In `journal` the
second caller meets what the first one left (a link, an unsynced rename, a
record somebody replaced), the two pristine records differ in whether version 2
can spell their time, the canceled one never was attempted, and two troubles
let a power loss follow a replacement or another power loss; three instants put
a consumption before, at and after the expiry of its receipt. In
`skill_install` the second caller makes the first one's preflight stale; of the
two releases' files one is rewritten, one is dropped and one is added; two
edits let a person first put a file in the installer's way and then change it
again. Its callers are not bounded: each may install and uninstall for ever.

In `approval` three records reach an enrollment, a rotation, and a revocation
or recovery of a key that is no longer active; two changed fields let one error
hide another. In the texts a lifetime is up to two seconds, so that there are
times before the zero instant, at it, and up to twice the longest lifetime
after it, and two revisions, so that there is one below and one above; one
change makes a field more, a field less, a repeated, misplaced, escaped or
wrong one. The group's order
has the sign bit and the odd value that P-256's has, and every pair of integers
of up to four digits is checked. In the exchange two requests may be of
the same plan; the clock offsets are fast, slow within the tolerance and slow beyond it, odd ones among them, so that both
ends of the window are met with and without fractions, and the receipt's
lifetime and the tolerance are one second because only their comparison
matters. In `saved_defaults` any two commands meet in the short
histories; the long ones, and for their end `programs_end`, are about one
profile, where four commands allow a
default to be resolved, its profile to be logged out, replaced and logged in
again, and the guard to be checked. The two read-only topologies differ in what
is not a role. In `credentials` the second login meets the port, the redirects
and the codes of the first, and the three scopes let two configured lists
overlap. In `rest_client` the deadlines end at once, inside the first sleep,
inside the second, and beyond all of them.

Symmetry is over processes, logins, requests and plans of the same role, which
no definition tells apart; no liveness property is checked under it. Deadlock
is checked in `journal`, where a caller may always call again and only a
record's life ends, and in `skill_install`. It is not checked where invocations
end and nothing restarts them; that no invocation is stuck before its end is
what `programs_end` and `rest_client` check.

Fairness. In `programs_end` and `rest_client` only the program itself is fair.

* An operator-write invocation that has started takes its next step: every lock
  wait ends after two seconds (`lockfile.acquire`), every request has a
  deadline, and a wait that ends without success is a step of its own
  (`ApplyRefused`, `ReconcileGivesUp`, `ApplyAnswer` with an unknown outcome).
* The goroutines of a login run, and its context ends: `--timeout` is positive
  and always set. Neither browser nor person owes anything.
* A process that runs a command on defaults takes its next step, and a free
  lock that is tried again and again is taken. The two-second limit is left out
  there, so that a cycle of waiting processes would show.
* A REST call takes its next step, time passes, and a request whose context has
  ended comes back. Neither server nor network owes anything.

Operators, servers and other users owe nothing, and faults are bounded, not
fair.

## Findings

* `operator_write_identity`: reconcile reads the record, then waits for the
  profile lock held by the running apply. The apply finalizes `unknown` with
  the identity of the created issue, and the reconcile, which still holds the
  older record, finalizes `operator_resolution_required` without it.
  `docs/operator-writes.md` says the record keeps the identity and reconcile
  reads that issue.
* `operator_write_change`: `Clear` forgets the policy's revision and `Set`
  starts at 1 again, so a plan prepared before both is applicable after both.
  `docs/operator-writes.md` says a policy change invalidates applicability.
* `receipt_verdict`: the Go decoder refuses a receipt issued at
  `0001-01-01T00:00:00Z`, which is the zero `time.Time`
  (`internal/approval/approval.go:161`); the Swift one accepts it
  (`ApprovalReceipt.swift:209`), and `ReceiptFactory.swift:54` has that instant
  within its bounds. `docs/gate1a-native-boundary.md:402` calls a disagreement
  in wire acceptance a blocking failure. No clock that is right reads that
  instant.

## Proofs

`Operator_proofs` proves of the ledger, for every set of processes and results
and every number of power losses:

* `TypeCorrect`: the type invariant;
* `LedgerInvariant`: the inductive invariant `LedgerInv`;
* `ClaimedOnce`, `GrantDurable`: the two safety invariants of the claim;
* `SettledStays`: the action property of settled results;
* `LedgerImplementsPromise`: `OperatorLedger` implements `ConsumeOnce`.

They assume only that the special contents are none of the values and that the
bound is a number (`LedgerAssumption` and the assumptions of `LedgerFile` and
`LedgerRecord`). The safety properties are not inductive by themselves.
`LedgerInv` adds to them who may be in the middle of a write (`Exclusive`: the
holder of the lock and nobody else), that what is seen may survive and what is
not seen was never opened (`Visible`), which contents may survive at each
system call (`Progress`), and that a claim is written by its own attempt while
nothing is granted (`Claiming`). The proof of each step is split by action:
starting an operation, a system call that continues one, its return, an
abandoned one and a power loss. The refinement follows from the same
invariant: a claim's `openat` withdraws the plan, the return of `Claim` grants
it, the last sync of a settled result settles it, a power loss can only forget
a marker that granted nothing, and everything else stutters.

`CredentialTransaction_proofs` proves for every set of logins, confirmed
logins, logouts, clients and topologies and every bound on tokens, edits and
faults:

* `TransactionInvariant`: the inductive invariant `TransactionInv`, and with
  it `TransactionTypes`;
* `PairsMatch`, `ClientsVerified`, `PublicationFenced`, `TokenPresentedOnce`:
  the safety invariants;
* `ConfirmedOverwrite`, `ReadersSeeWholePairs`: the two action properties.

They assume only that the roles are disjoint, that the special values are not
values, and that the bounds are numbers. `PairMatches` alone is not inductive:
a login that is about to publish or to restore must hold the right things.
`PairInv` adds who has the lock at which place (`Locked`), that every
credential anywhere was verified (`AllVerified`), and what each lock holder
would leave if it went on or went back (`LoginHolds`, `LogoutHolds`,
`ClientHolds`, in terms of `Whole`: the pair would match). The invariant is
rewritten as one condition on the pair, the lock and each invocation
(`OwnParts`). `OthersKeep` shows that a step of one invocation leaves the
conditions of the others alone, either because it changes neither file or
because whoever may change one is alone (`ExclusiveAlone`); what is left per
action is its own condition, the lock and the pair (`OwnStep`).
`PresentedOnce` needs where a token may be: `TransactionInv` is `PairInv` with
`TokensIssued` (no token is stored or held before it was issued),
`FreshTokens` (a token that a login has not saved yet is nowhere else; a client
presents the credential it found and brings back another) and `TokensSpent` (a
token that was presented, and did not fail, was presented once, and either its
answer is awaited or it is gone from the Keychain and every rollback copy).

`Journal_proofs` proves for every set of callers, instants and historical
records and every number of power losses and replacements:

* `MigrationInvariant`: the inductive invariant `MigrationInv`, and with it
  `MigrationTypes`;
* `MigrationDurable`, `MarkerPublished`: the two safety invariants;
* `SourceSafe`, `RefusalHonest`, `MarkerStays`: the three action properties;
  the first one with the exception of the two open windows;
* `LifecycleSafe`: the invariant of the version 1 life of a record.

They assume that the special contents are not values and that historical
records are what the frozen validator accepts. `PromiseKept` is not inductive:
it needs that a call which is about to succeed sees a record that is alone on
disk. `Established` says what each step of a call may rely on; there is at most
one caller in a call (`Alone`), so a step has to show its own part only
(`Assembled`). The action properties follow from what is established when the
rename, the observation and the link are made.

`EvidenceVisible` is about a machine that stays up. A marker whose directory
sync failed is accepted by the next call without a sync, so a power loss may
still take it; the next refused migration then writes it again.

In the lifecycle a record stays legal because the rules of `applyTransition`
imply those of `validateRecord` from any legal record (`RulesSuffice`), and the
frozen reader's verdict follows from which phases a legal record has
(`HistoryRead`). `NoValueAssumption` says that an empty field is no value of
that field.

`Operator_proofs` also proves, for every set of applies, reconciles, kinds and
results and every bound on faults, cancellations and changes:

* `WriteInvariant`: the inductive invariant `WriteInv`;
* `SentOnce`, `OutcomeTrue`: at most one request, and a recorded result that
  agrees with the server;
* `Authorized`: what is true when the request leaves;
* `ApplyImplementsPromise`: `OperatorWrite` implements `ConsumeOnce`.

`AtMostOneRequest` is not inductive: it needs that whoever is past the claim is
the one the durable claim names, that the claim stays durable, and that both
locks are held from the second check to the recorded outcome, so that the
binding checked is the one the request is sent with. `TruthfulOutcome` needs
what an invocation has learned of the server, and that a server's verdict on a
request is final. In the refinement what happens once is the request: a claim
that is opened withdraws the plan, one that is durable grants it, a settled
result that can no longer be lost settles it.

`SavedDefaults_proofs` proves for every set of processes, names, topologies,
commands and documents:

* `DefaultsSafe`: the inductive invariant `DefaultsInv`; `UseFenced`: the fence
  around a use;
* `DefaultsSafeSteps`: the six parts of `DefaultsKept`.

The argument is that of two-phase locking. Locks exclude each other
(`LocksExclude`), a command has the locks that its place in the program needs
(`LocksHeld`), and so what it copied or decided under them is still so
(`LocksHeld`, `Decided`). A step changes nothing but what its process has
locked alone (`StepOf`), so it leaves the others what they have (`OthersKept`);
`Finished` and `Moved` say what is left to show for the process itself. A
document that is written is read back as it was meant (`EncodeRead`). The
assumptions say which flags a command may have, that an identity in a document
is that of some name and topology, and that the empty value is no value.

`SkillInstall_proofs` proves for every set of callers, releases and files:

* `SkillSafe`: the inductive invariant `SkillInv`;
* `NothingLost`: the invariant `NothingForgotten`;
* `SuccessDelivers`: the action property `InstallDelivers`.

The directory's owner acts between any two steps, so a call can rely on little:
on its own record (`CallOK`, `CallLegal`), on what it has in hand between two
steps of an exchange (`WriteLegal`), on files it has settled and nobody touched
since (`FilesInPlace`), and on nobody calling the manifest complete while it
works (`ManifestOpen`), which the installer's lock gives. Bytes of the owner
under a name are destroyed only if the classification under the lock found them
there and the caller had confirmed; the complete manifest is linked when
nothing is left to do and every file is settled, hence the two halves of the
invariant. For `NothingForgotten` (`Remembered`): under the lock every file of
the installer's that is no stray is of the release being installed already, or
the call still has it to exchange or to remove (`Pending`), so when the last
manifest is in place nothing else is unrecorded (`Final`). Assumed are that each release ships and rewrites a set of files,
that files are numbered, and that the special values are not in use.

`Credentials_proofs` proves for every set of logins, accounts and browser
requests, for one Keychain item, and for every set of scopes, topologies and
lists of scopes a profile may be configured with:

* `LoginSafe`: the invariant `LoginInv` of the browser logins;
* `ItemSafe`, `ItemProper`: the invariant and the action properties of the
  Keychain adapter;
* `CredentialSafe`, `CredentialHonest`: the invariant and the action properties
  of the stored credential.

A login's own approval is what its channel can hold: a result enters it once
(`once`), from a handler that parsed a redirect of that session or from the
closing goroutine. The item's part rests on `WorksOnResolved`: what a command
found out about an item is so while `ref` still names the item and nobody
touched it. The credential's part (`PayloadIInv`) adds to the invariant that
the token is of the profile the payload names, and that a bound payload which
names no scopes was granted all of that profile's. Its lemmas are about lists:
every list can be sorted and keeps its members (`Sorts`, `SortedKeeps`), and
the walk of `scopeSubset` along two increasing lists decides whether one
contains the other (`WalkDecides`). They are proved by induction over numbers
(`AllNumbers`), stated with a set in the place of a predicate and derived from
the library's `WFMin`, since a theorem with an operator as parameter cannot be
used. That scopes are numbers and that configured lists are increasing and not
empty is assumed (`PayloadAssumption`).

`RestClient_proofs` proves for every deadline, page size, number of items and
wait:

* `ToldTruly`: the invariant `CallToldTruly`;
* `RetriesWorthIt`: the action property `RetriesPay`.

`CallToldTruly` contains what it rests on: requests are counted by the attempts
(`RequestsCounted`), an effect has an answer that says so or says nothing
(`EffectsAnswered`), and a sleep is bounded by the time left
(`SleepsBounded`).

`Approval_proofs` proves for every number of records, ceremonies, requests and
plans, every window, lifetime, tolerance and set of clock offsets, every length
of a text, and every base, width and order of the signatures:

* `RegistryReplayed`: the invariant of the replay, the agreement of the two
  verifiers among it; `NoKeyComesBack`: what a record can never undo;
* `SameCeremonies`, `ConsentGoverns`: both verifiers accept the same
  transcripts, and what they accept was consented to;
* `ReceiptsCountForTheirRequest`: the invariant of the exchange;
* `TextsAreOne`: both programs accept the same receipt texts after the zero
  instant, one of each receipt;
* `SignaturesAreOne`: both programs accept the same signatures; `CodecsAreOne`
  states the two together, as the run checks them (`CodecsAgree`).

That the programs agree is proved of any record over a legal history
(`VerdictsAgree`) and of any transcript (`TranscriptsAgree`), not only of those
that the model enumerates. The replay's invariant is inductive once it says
that no key is of a later generation than there are records (`KeysEnrolled`).
For ceremonies `CeremonyIInv` adds that a document's times are numbers
(`TimesWritten`) and that what was accepted is of a registry that is gone
(`SpentBefore`), which is why it is refused ever after. For the exchange
`ExchangeIInv` adds of what each approval, frame and taken answer is: a receipt
is signed for a request that was asked and shown (`Signs`), every frame carries
something that was sent (`WireSent`), and an answer was judged by what the
client expected at its time (`TakenTruly`). The Go validator compares with
fractions and the Swift one in whole seconds; they agree since receipts are
issued on whole seconds (`WholeSeconds`, `SameLife`). The assumptions
(`BoundsAssumption`, `NoneAssumption`, `ChangesAssumption`,
`ExchangeAssumption`) say that bounds are numbers and that the value for
nothing is none of the others.

For the codecs the inductive invariants (`TextIInv`, `SignatureIInv`) only say
what a text and a signature are: the agreement is of any text and any
signature. Each text decoder is shown to accept only what the encoder writes of
the receipt it reads, if its own rules take that receipt (`GoTakes`,
`SwiftNeeds`, `SwiftTakes`): the Go one since it writes again what it kept and
compares, the Swift one since it cuts the signature off the end and parses what
is left. What is left is that the two sets of rules differ at the zero instant
only (`RulesDiffer`): an expiry is after an issue, so it is never at that
instant when the issue is not before it. For the signatures:

* `Magnitude` and the borrows are recursive functions; that there are such
  functions is itself proved (`Recursion`, by `AllNumbers`), since a recursive
  definition says nothing otherwise (`ValuesOf`, `BorrowsExist`);
* digits compare as their numbers do, and a number has one sequence of digits
  of a length (`BeforeIsLess`, `Comparison`), so the Swift comparisons with the
  order and its half are the Go ones (`BelowTable`, `ScalarIs`). A shorter
  scalar is below both tables because the first digit of neither is zero; for
  the half that follows from the sign bit in the order's first digit
  (`HalfDigits`);
* both accept the same integers (`SameScalar`): what is longer than a scalar is
  over the order (`TooLong`), and a sign octet changes nothing (`ParsedIs`). An
  integer read and written again is the same bytes (`PlainParsed`,
  `PlainAppended`);
* the subtraction is right (`Difference`): the prefixes of the difference and of
  the scalar add up to the order's, less the borrow that the prefix owes, and
  no borrow leaves the first digit. Hence the order without a scalar is another
  one, low when the scalar is high, and taken off once more it is the scalar
  (`Negated`), which is what normalizing and the twin of a signature rest on.

The two lemmas about numbers that `Credentials_proofs` has too (`LeastOf`,
`AllNumbers`) are repeated, since neither module can extend the other.

Only model-checked: liveness, which is out of the prover's reach
(`OutcomeRecorded`, `LoginEnds`, `CommandsEnd`, `CallReturns`).

## Not modelled

The encoding and validation of documents (a file is whole or refused) except
where two programs or two versions have to agree on it; the checks of directory
ownership and access lists of files; clock readings of the operator-write
ledger (so neither plan expiry nor the refusal of a clock that went backwards);
the contents of requests and answers; cryptography; the prompts of terminal and
Keychain. Power losses are modelled for the ledger, the credential transaction
and the journal, which promise to survive them, not for the skill installer and
the defaults document. The compensation of a failed login or logout is
`CredentialTransaction`'s and not repeated in `SavedDefaults`. The helper's
executable is not in the repository. The components marked `not_modelled` in
`PROJECT.json` are pure checks of single documents or build tooling, each with
its reason; a policy file's own replacement is the registry's, which
`CredentialTransaction` models, and was not repeated.

## Plan

Done and checked: all modules above. Done and proved: `OperatorLedger`,
`OperatorWrite`, `CredentialTransaction`, `JournalMigration`,
`JournalLifecycle`, `SavedDefaults`, `SkillInstall`, `LoopbackLogin`,
`StoredCredential`, `KeychainItem`, `RestClient`, `SignerRegistry`,
`SignerCeremony`, `ApprovalExchange`, `ReceiptText` and `P256Signature`: every
invariant and every action property of a passing run is stated by a theorem.

The assumptions of `StoredCredential`, `ApprovalExchange` and `P256Signature`
are operators and not `ASSUME`s, because `MC` modules instantiate them; those
modules assume them by name (`PayloadAssumption` in `MCCredentials`,
`ExchangeAssumption` and `SignatureAssumption` in `MCApproval`).
