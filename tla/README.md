# Certificates, tokens and restarts: a TLA+ model of the example's trust layer

The repository is two Xime applications, `server` and `client`, that talk gRPC
over mutual TLS and, on one machine, msgpack over a Unix socket. What the
applications do for each other is deliberately trivial (hash, count bytes, emit
chunks). What they do for *themselves* is not: each keeps an mTLS identity alive
across years, restarts and a Trust Service that hands out one-time tokens. That
trust layer (`app/integration/trust`, the same files byte for byte in both
applications) is the core of this project.

Paths below are relative to `src/server/app` unless they say otherwise. Where
the client has an identical copy, `PROJECT.json` maps some modules to the
server's copy (`CertSync`) and some to the client's (`CertStore`,
`CertRegister`, `TrustIdentity`, `RotationClock`).

## 1. Inventory

| Component | State it keeps | Operations | What makes it correct |
|---|---|---|---|
| `TrustCertificateSynchronizer` | none of its own: moves certificates between the others | `synchronize_on_startup`, `synchronize`, `_synchronize_bootstrap`, `_synchronize_runtime`, `_rotate`, `_publish`, `_activate` | serve only what is stored, lose no successor, never reach BROKEN |
| `GrpcTrustCertificateClient` | credentials, channel, stub | `set_credentials`, `_ensure_stub`, `rotate_certificate`, `pre_destroy` | a token travels over a channel of its own certificate |
| `TrustCertificateResolver` | current certificate | `update`, `current` | agrees with the store |
| `TrustSslContextProvider` | channel credentials | `reload`, `current` | agrees with the resolver |
| `Bootstrap*` | `bootstrap.txt` | `exists`, `load`, `delete` | used once |
| `FileCertificateStore` | `cert.json`, `cert.json.tmp`, key | `save`, `find_latest`, `delete_all` | an atomic register |
| `Certificate`, `CertRotationJob`, `config/scheduler.py` | `issued_at`, the timer | `needs_rotation`, `run` | rotation in time |
| `TrustStartupOrchestrator` | - | `post_construct`: root CA, then certificate | both before anything is served |
| `publicca/*` | root CA in memory | `initialize`, `current` | still the CA of the peer |
| `TrustGrpcCertificateProvider` | - | `version`, `current`, per handshake | a consistent, current identity |
| `PemNormalizer` | - | `to_certificate_pem`, `to_private_key_pem` | one block, nothing lost, idempotent |
| `tools/generate_dev_certs.py` | both applications' files | `main` | both applications trust each other afterwards |
| Crypto Engine, Vault and their callers | a byte count per upload, an index per download | `hash`, `encrypt`/`store`, `download`/`fetch`, `run_demo` | counts and chunk order per session |
| `VaultDemoRunner`, `CryptoDemoRunner` | - | `post_construct` | a failing demo stops nothing |
| `main.py`, `config/dependency.py` | the component graph | construction, hooks, adapters | trust before use, in every order the framework may choose |
| External: Trust Service, gRPC, APScheduler, Xime | tokens and their certificates | `RotateCertificate` | |

How they interact. At start-up the orchestrator awaits
`synchronize_on_startup`, which looks at two files (`bootstrap.txt`,
`cert.json`) and takes one of four ways, NEW, ACTIVE, RECOVERABLE or BROKEN.
Once an hour `CertRotationJob` awaits `synchronize`. Both end in the same three
calls: activate what was loaded, rotate it if need be, publish the result. All
of it runs on one asyncio loop; every await in it except one returns without
suspending (the "transaction" is a no-op, the store's methods never wait). The
exception is `await stub.RotateCertificate(request)`
(`GrpcTrustCertificateClient.py:62`), and everything that is hard happens across
it: other tasks replace the identity and the cached stub, the reply is lost
after the token was spent, the process dies, the operator replaces files.

The hazards, each at its line, are listed in `PROJECT.json`.

## 2. Modules

| Module | Models | Used by |
|---|---|---|
| `CertSync` | the certificate life cycle of one application | its runs, `CertSyncOnDisk`, `CertSync_proofs` |
| `TrustIdentity` | abstract: what that life cycle promises | `CertSync` (`INSTANCE`) |
| `CertStore` | `FileCertificateStore`, one disk operation at a time | its run, `CertStore_proofs` |
| `CertRegister` | abstract: an atomic register under changing keys | `CertStore` (`INSTANCE`) |
| `CertSyncOnDisk` | the life cycle over the files: every disk operation of a save is a step of its own | its run, `CertSyncOnDisk_proofs`; it uses `CertSync` by `INSTANCE` |
| `RotationClock` | whole days of age, the hourly job, outages, expiry | its run, `RotationClock_proofs` |
| `DynamicTls` | both applications, their handshakes, the root CA, the development tool | its run, `DynamicTls_proofs` |
| `MCDynamicTls` | how far handshakes and the runs of the tool are combined, for TLC | its run |
| `AppLifecycle` | both applications from launch to serving: components, constructors, hooks, adapters | `MCAppLifecycle`, `AppLifecycle_proofs` |
| `MCAppLifecycle` | the disks a start may find, for TLC | its run |
| `DemoSessions` | the demo calls, command, upload and download, and the handlers that serve them | `MCDemoSessions`, `DemoSessions_proofs` |
| `DemoCalls` | abstract: what a caller is promised, without connections | `DemoSessions` (`INSTANCE`) |
| `MCDemoSessions` | the callers' chunks and parts, for TLC | its run |
| `PemNormalizer` | the armouring and line breaking of certificates and keys, a word at a time | its run, `PemNormalizer_proofs` |
| `*_proofs` | theorems and their proofs, each about the module it is named for | |

The layers fit as follows. `AppLifecycle` is the start-up around everything
else: when the trust start-up runs, what waits for it, and what its failure
stops. What that start-up does to certificates and tokens, and the hourly job
after it, is `CertSync`. `CertSync` treats a save as one step; `CertSyncOnDisk`
replaces it by the disk operations and is proved to implement `CertSync`, which
in turn implements `TrustIdentity`; `CertStore` is the store on its own, where
it is proved an atomic register. `CertSync` lets a certificate become due at any
moment (`Age`); `RotationClock` says when that is and whether it is soon enough.
`DynamicTls` takes a start or a job run as two steps, up to the rotate call and
after it, and asks what the peers see of it. `DemoSessions` is what the applications say to each
other over the connections so made, and implements `DemoCalls`; that
its streams come to their end, if the server goes on, is shown there;
`AppLifecycle` says what a start waits for if it does not.
`PemNormalizer` is the function every credential passes through.

### CertSync

A certificate is a number, in the order of issue, and stands for its refresh
token too (`Certificate.py:12`: "one-time, bound to this cert"). The state:

* disk - `bootstrap` and `bootstrapOk` (what `exists` and what `load` with the
  validator would say), `store` and `storeOk` (what is in `cert.json`, and
  whether it decrypts), `due` (`needs_rotation`);
* process - `phase` (down, starting, that is inside `post_construct`, or up),
  `resolver`, `client` (credentials and the stub that remembers the credentials
  its channel was opened with), `task` (what each task is suspended in: the
  token it presented, the channel it took, the reply);
* Trust Service - `issued`, `spent`, `orphans` (requests whose caller is gone);
* history - `lost` (tokens whose successor reached no one), `bootCerts`,
  `newest`. Only properties read these.

One action is the code between two suspensions:

| Action | Code |
|---|---|
| `StartBootstrap` | NEW and RECOVERABLE: (clear the store,) load, activate, call |
| `StartBootstrapRejected` | RECOVERABLE with a file that does not load: the store is already cleared |
| `StartRuntime` | ACTIVE: activate; if due, call |
| `JobRun(r)` | `synchronize`: load, activate; if due, call |
| `TrustRotate(t)` | the Trust Service honours the token, the reply is on its way |
| `TrustRefuse(t)`, `CallFails(t)`, `SuccessorLost(t)` | the call raises: refused; unreachable, or broken after the request left; the reply lost or `save` raising on it. The runtime flow logs and keeps its certificate, the bootstrap flow ends the process |
| `Publish(t)` | save, activate |
| `DeleteBootstrap` | delete, which may fail silently |
| `Crash` | the process dies at any point; `ProcessGone` is the memory lost |
| `TrustHandlesOrphan(c)` | a request of a dead process is executed after all |
| `Age`, `ProvideBootstrap`, `BootstrapExpires`, `GenerateDevCerts`, `ChangeEncryptionKey` | time, the operator, the development tool |

`DeleteBootstrap` is separate from `Publish` only because a process can die
between the two; `LoopFree` keeps every other task from running there, as the
event loop does. A start that raises without changing anything (BROKEN, an
unreadable store, no root CA) is a stuttering step. The scheduler's own limit on
overlapping runs of one job is outside `src/`, so runs may overlap freely: what
holds with two holds with one.

External and assumed: a token is honoured once, and only over a channel
authenticated by its certificate (`TrustHonours`). The placeholder token of the
development tool is never honoured.

### CertSyncOnDisk

The variables of `CertSync`, with `store` and `storeOk` replaced by what they
stand for: `file` (`cert.json`), `tmp` (`cert.json.tmp`), each the certificate
meant for it and the key that seals it, and `key`, the one the application is
configured with. `saving` is the task inside `save` and how far it is.

| Action | Code |
|---|---|
| `OpenTmp(t)`, `WriteTmp(t)`, `Replace(t)` | open and truncate the temporary file, whatever is in it; fill it; `os.replace`, after which `_publish` activates and its callers go on without suspending |
| `SaveRaises(t)` | any of the three raises; the flow fails as if the call had, and the temporary file stays |
| `Crash` | the process dies between any two, and keeps its files |
| `StartBootstrap`, `StartBootstrapRejected` | with `delete_all`, which unlinks `cert.json` and leaves the temporary file |
| `GenerateDevCerts` | writes `cert.json` in place, under the key of `application.yml`, and may be killed before it is filled |
| `ChangeEncryptionKey(k)` | the operator configures another key, or the first one again |

Actions that touch the certificate file are written out here from the code; the
others are `CertSync`'s (`LoopStep`, `WorldStep`). While `saving`, no other task
of the loop runs, but requests of dead processes, the operator and the Trust
Service go on.

### CertStore

`save` is three steps, open and truncate `cert.json.tmp`, fill it, `os.replace`;
each may raise and the process may die between any two. Nothing removes a
leftover temporary file. The key is read when the process starts and may be
another one than last time; a load under the wrong key raises. Death of the
process, not loss of power, is what can happen (the code does not fsync).

### RotationClock

Time in hours. `NeedsRotation(age)` is `.days >= threshold`, a floor; the job
runs every `Period` hours while the application is up and the schedule starts
anew with it; a rotation fails while the Trust Service is out, and always once
the certificate has expired. A start rotates a due certificate first and serves
with the old one if that fails.

### DynamicTls

Two applications, each with `ca-cert.pem` and `cert.json` on disk; in memory the
two resolvers (`app`), what the TLS layer read last (`cache`) and the handshake
in progress. A certificate is its authority and its number. The actions:

| Action | Code |
|---|---|
| `LoadRootCa(a)` | `TrustStartupOrchestrator.post_construct` takes the CA file as it is (`RootCertificateFileStore.py:25` checks only that it exists) |
| `StartFails(a)`, `StartActive(a)`, `StartBootstrap(a)` | `synchronize_on_startup`: a torn `cert.json` raises before anything else is looked at, and BROKEN; ACTIVE, with a rotation if one is due; NEW and RECOVERABLE, which delete `cert.json` before the bootstrap file is read, whoever wrote it |
| `JobRun(a)` | `CertRotationJob` rereads the certificate, but not the CA |
| `Rotated(a)`, `RotationFailed(a)` | the rotate call of any of these: save, activate and, after a bootstrap, delete its file, which may fail; or the error, logged by the runtime flow and the end of a bootstrap start |
| `ProvideBootstrap(a)` | the operator puts a bootstrap file in place, at any time |
| `BeginHandshake(a)`, `Handshake(a)` | `version()` and, if it differs from last time, `current()`; the event loop may rotate between them |
| `ToolBegins`, `ToolOpens`, `ToolFills`, `ToolDies` | `generate_dev_certs.main`: for each application `cert.json`, then `ca-cert.pem`, each truncated and filled in place |
| `Stop(a)` | the process ends |

The decision to call `current()` only on a new version is the framework's, taken
from what the provider's comments say of it, and one handshake of an application
is in progress at a time. How a rotation can fail and what is lost then is in
`CertSync`. The certificates of the tool become due like any other, after
150 of their 365 days, but their token is a placeholder that the Trust Service
refuses: only its own certificates rotate, and those a bootstrap starts with.

From reading the files to the rotate call or the end of the start the event
loop does not wait, so that is one step; the tool, another process, runs between
the root CA and the certificate and at every other point. `Torn` is a
`cert.json` cut short, which raises; `NoCert` is none at all, which is BROKEN or,
with a bootstrap file, NEW. Two histories relate memory and files to the last
run of the tool: `kept` (no rotation was in flight during it and no bootstrap
start took its certificate since, so its files are in place as it wrote them or
rotated from there) and `since` (the application started after it, when it was
complete and kept).

### AppLifecycle

`Components`, `Bindings` and `Parameters` are `config/dependency.py` and the
constructors it leads to; `Needs` follows from them. `proc` holds the phase of
each process (down, failed, building, starting, serving) and the components
built, started and with a running hook; `identity` what the two resolvers hold;
`disk` what the application finds at its start.

| Action | Code |
|---|---|
| `Launch(a)`, `Build(a)` | the process starts; components are constructed, each after its parameters. `FileCertificateStore` raises without a key |
| `StartPlain(a)` | components without a hook |
| `TrustCannotStart(a)` | `post_construct` of the orchestrator: no root CA, an unreadable store, or BROKEN |
| `TrustBootstraps(a)`, `TrustLoads(a)` | NEW and RECOVERABLE up to the call (the store is cleared, a bad file raises after that); ACTIVE, with or without a call |
| `TrustAnswers(a)`, `TrustFails(a)` | what becomes of the call: when it fails, the bootstrap flow raises and the runtime flow logs |
| `BeginDemo(h)`, `DemoAnswered(h)`, `DemoGivesUp(h)` | the hooks of the demo runners: an answer or an error from a server that serves; or a failure that needs no server (a deadline, nobody listening), which the Crypto demo has not while the engine serves (`MayHang`). What fails in them is logged |
| `Serve(a)` | the adapters of `main.py`: gRPC, and the socket only where the platform has one |
| `Stop(a)`, `Age(a)`, `Prepare(a, d)` | the process ends; a certificate becomes due; the operator changes files of a stopped application |

External: that the framework constructs and starts a component after those it
needs, and may overlap hooks that do not depend on each other. Every order it
could choose is in the model, so what holds rests on the declared dependencies.

### DemoSessions

A caller runs `run_demo`: connect, `hash`, the upload (`encrypt` or `store`), the
download (`download` or `fetch`), close. `uplink` and `downlink` are the stream
of its current session, `handler` the coroutine that serves it, with its local
count or index. `Managed` callers use the Vault over a channel that the
framework owns; the others a `SocketClient` of their own. `Count` and `Emit` are
one iteration of the handlers' loops, `ReturnTotal` and `ReturnFromDownload`
their ends, `Breaks` any exception in the middle, `Close` the `finally`. The
command and its answer are one step, because nothing else of the session exists
yet. The runner catches what `run_demo` raises, hence `over` in every case.
Chunks are their sizes and parts their indices; digests, names and message
framing are left out.

`DemoCalls` is what each caller is promised: one answer with the size of its own
upload, then its parts one by one, then done, or failed at any point before
that. `DemoSessions` implements it with its streams, handlers and failures
hidden.

### PemNormalizer

A value is a number of BEGIN/END pairs around lines of words; a word is an
interval of the body's characters, so that a lost, doubled or moved character
shows in the intervals. `KeepArmoured` is the early return of `_wrap`, on the
stripped value; `BeginWrap` hands the body to `textwrap.wrap`, and `Finish` puts
what comes back between header and footer.

`textwrap.wrap` is external and modelled word by word as `_wrap` calls it: a word
that fits joins the line (`TakeWord`), one that does not ends it (`BreakLine`),
and one longer than any line is cut to fill it (`BreakWord`), unless nothing but
the blanks before it fits, which then stay at the end of the line
(`BreakLineAtBlanks`). The loop was compared with the real function on 60 000
random inputs. A body that is already broken into lines is not joined first: the
words keep their blanks between them, and `ProperPem` asks for full lines only of
a body without blanks. That is what the code does, and base64 decoders ignore
the blanks.

## 3. What is checked

| Run | Instance | Shows |
|---|---|---|
| `CertSync` | 2 job runs, 5 certificates; 115 813 states | the six invariants below, the refinement of `TrustIdentity`, `RotationCompletes` |
| `CertSyncOnDisk` | the same with 2 keys; 396 862 states | `TypeOK`, `RestartLoads`, `ImplementsCertSync` |
| `CertStore` | 3 certificates, 2 keys; 1 260 states | `ImplementsRegister` |
| `RotationClock` | 2 days, every 3 h, 6 h outage, lifetime 57 h | `TypeOK`, `NeverServesExpired` with no hour to spare |
| `DynamicTls` | 2 runs of the tool, 6 certificates; 2 003 820 states | `TypeOK`, `FreshHandshake`, `PeersTrust` |
| `AppLifecycle` | 7 disks, with and without Unix sockets; 104 960 states | `TypeOK`, `IdentityBeforeUse`, `FailsForOwnReason`, `StartWaitsOnlyForAnswers` |
| `DemoSessions` | 2 socket callers, 1 Vault caller, uploads 2+1, 4 and 3, parts 2, 0 and 1; 15 732 states | `TypeOK`, `OwnAnswers`, `NoConnectionLeft`, `DemoEnds`, `ImplementsDemoCalls` |
| `PemNormalizer` | lines of 4, bodies up to 11, up to 4 pieces, 1 or 2 blanks between; 58 068 states | `ProperPem`, `KeepsBody`, `Idempotent` |
| `CertSync_BootstrapUsedOnce` | 1 run, 4 certificates | a documented claim that fails (section 5) |
| `CertSync_PrefersFreshBootstrap` | 1 run, 4 certificates | likewise |
| `CertSync_RotatesWhenDue` | 1 run, 4 certificates, fairness | likewise |
| `CertSync_DevCertsActive` | 1 run, 4 certificates | likewise |

Properties of `CertSync`:

* `ServesStoredIdentity` - resolver, client credentials and `cert.json` agree
  whenever the application is up, though three places are written by several
  tasks around an await.
* `BootstrapIsEphemeral` - the bootstrap certificate is in memory for one call
  and is never stored or served with afterwards.
* `CallPresentsOwnCert` - no overlap puts a token on the channel of another
  certificate through the cached stub.
* `SpentTokenHasSuccessor` - if the stored token is spent, a task holds the
  successor or it was really lost outside the application.
* `NeverBroken` - the application never brings about "neither exists" itself.
* `ImplementsTrustIdentity` - an application serves only what is durable; an
  identity replaced once never comes back, not by a late result of an
  overlapping run either; the durable one is given up only while nothing is
  served.

Properties of `CertSyncOnDisk`:

* `RestartLoads` - while an application serves, `cert.json` is whole, sealed with
  the key it is configured with, and holds the certificate it serves, after any
  number of interrupted saves, leftover temporary files, other keys and runs of
  the tool.
* `ImplementsCertSync` - every behaviour over the files is one of `CertSync`, so
  all its safety properties hold of the files as well.

Properties of `DynamicTls`:

* `FreshHandshake` - a handshake never answers with a certificate older than the
  one in service when it began. The two reads may straddle a rotation; then the
  certificate is newer than the version it is filed under, and the next
  handshake reads again.
* `PeersTrust` - two applications that started after the tool's last run accept
  each other, through rotations and restarts, whatever ran, crashed or was cut
  short before that run, and whether or not they were running during it. What is
  excluded really fails: an application that was running and has not been
  restarted rereads the certificate but not the CA; a run that was cut short
  leaves the two applications with different authorities, until the next run; a
  rotation in flight during the run publishes a certificate of the Trust Service
  over the tool's, next to the tool's CA, and a bootstrap file makes the next
  start delete what the tool wrote (`since` and `kept` say which of these an
  application met). Before any run of the tool a bootstrap does no harm, because
  the Trust Service's CA is still in place.

Properties of `AppLifecycle`:

* `IdentityBeforeUse` - no application serves and no Vault demo runs before both
  resolvers are filled, and never with the bootstrap certificate. Nothing but a
  constructor parameter that is never used ensures the second
  (`src/client/app/application/runner/VaultDemoRunner.py:28`); the mutant of the
  run drops it.
* `FailsForOwnReason` - a start fails only for what is on the application's own
  disk or because its first rotation failed. The other application, a demo and
  a later rotation never stop it; and the components can always be built.
* `StartWaitsOnlyForAnswers` - if the calls without a deadline are answered or
  refused, every start comes to serving or to an error, whichever application is
  launched first or stopped meanwhile. Those calls are the rotate call and the
  socket calls of the Crypto demo to an engine that serves; no hook waits for
  another in a circle, and the Vault demo cannot hold a start up for ever.

Properties of `PemNormalizer`: `ProperPem` (one block, lines of at most 64
columns, full ones but the last), `KeepsBody` (no character lost, doubled or
moved, no empty word) and `Idempotent`.

Properties of `DemoSessions`: `OwnAnswers` (a caller's total is that of its own
bytes, its parts are an ordered prefix and complete when it reports success),
`NoConnectionLeft` (closed on every path), `DemoEnds` (caller and handler never
wait for each other) and `ImplementsDemoCalls`.

Bounds. Two overlapping runs with the start-up task make three tasks that can
hold the same token; a third run adds no new kind of overlap, and the proofs are
for any number. Five certificates allow a bootstrap, its rotation, a second
bootstrap (RECOVERABLE), its rotation and one more rotation, which is every
start state twice. `MaxCert` limits `TrustRotate`, `Age`, `ProvideBootstrap` and
`GenerateDevCerts`; the operator's actions leave the last number to a rotation,
so that a due certificate can always be rotated in the model, as it can in the
system. Deadlock is not checked for `CertSync` and `CertSyncOnDisk`, because
the bounded number of certificates runs out and a stopped application with an
unusable disk really stays stopped, nor for `PemNormalizer`, a computation that
ends after two rounds; it is checked for the other modules. Two keys are one
before and one after a change. The seven disks are one for each way a start can
go (fresh, NEW, RECOVERABLE with a bad file, unreadable, BROKEN, no CA, no key);
due certificates and RECOVERABLE with a good file come about by steps of the
model. Bodies of up to 11 characters on lines of 4 make one, two and three
lines, the last of them full or not. In `DynamicTls` the two
certificates of the start and four more are what two complete runs of the tool
need, the second over whatever the first left, complete or cut short, or one of
them and two rotations before, between or after its writes. To keep that in
reach (`Bounded`) the applications shake hands one at a time, before the last
run only while two certificates are left to issue, and after it only if
they were started since; these are bounds of the run, not of the proofs. In
`DemoSessions` two callers share the use case object and their uploads differ in
length and size, one download is empty, and the third caller is served by the
other controller.

Fairness (`FairSpec`). Weak for `JobRun` (the hourly schedule) and `Publish`
(the event loop resumes an answered call), and for `TrustRefuse` (a spent token
is answered). Strong for `TrustRotate`: calls may fail any number of times but
the Trust Service is not unreachable for ever. Nothing is assumed of failures,
crashes, operators or the passage of time. There is no deadline on the call, so
an answer is an assumption, not something the code enforces. `RotationCompletes`
excuses an application that is stopped and a successor that was lost; section 5
says what the second excuse hides. `DemoSessions` assumes weak fairness of each
caller and each handler, which is one asyncio loop on either side running what
is runnable; connections need not break nor applications
restart. `AppLifecycle` assumes weak fairness of each application's own loop,
nothing of the Trust Service and nothing of the other application. A demo fails by
itself where the code or the platform makes it: the Vault client has
`deadline_ms: 3000`, and a connection that nobody accepts or that breaks raises.
The socket calls of the Crypto demo have no deadline, so while the Crypto Engine
serves (`MayHang`) only an answer or an error of its own ends them, and that is
not in the fairness. `StartWaitsOnlyForAnswers` takes it, with the answers of
the Trust Service, as its premise (`AnswersCome`); without the premise the run
refutes it.

## 4. What is proved

With TLAPS, for every value of the constants allowed by the named assumptions
(`ConstantsAssumption`, `DistinctAssumption`, `ClockAssumption`,
`TlsAssumption`, `LifecycleAssumption`, `OnDiskAssumption`,
`SessionsAssumption`, `PemAssumption`).

*CertSync.* None of the safety properties is inductive. `IInv` adds:
`PhaseInv` (which tasks may exist in which phase; the bootstrap flow runs alone,
because with an empty store the job returns at once), `IdentityInv` (memory
agrees with the store except inside the bootstrap call), `IssueInv` (nothing is
numbered beyond `issued`), `CallInv` (a call was made for the stored certificate
or its token is spent by now) and `ReplyInv`. The last is the heart of the
argument: at most one call in flight has an answer, for the stored certificate,
with a successor younger than anything stored. Two runs with the same token
cannot both be answered, and a run that is answered cannot find the store
changed under it: changing it takes another answer to the same token. So a late
`Publish` never replaces a younger certificate. `Invariance` proves `IInv` with
one lemma per action; the properties follow, and `Implements` maps each step to
a step of `TrustIdentity` or a stutter.

*CertStore.* The invariant is that `cert.json` is never torn and a finished
temporary file is whole. `Implements` shows that only `os.replace` and the
deletion are visible.

*RotationClock.* While a certificate that was not due at the start is in
service, its age at the next run of the job is at most the threshold less one
hour, plus one period, plus the outage so far. `InTime` concludes that a
lifetime beyond `24 * ThresholdDays - 1 + Period + MaxOutage` hours is enough,
and the run shows that bound is not generous.

*CertSyncOnDisk.* Outside the bootstrap flow's call `cert.json` is sealed, under
the application's key, for the certificate it serves (`IdentityInv`): only the
rename and the deletion change it while a process lives, the rename puts in
place what is activated in the same step, and the deletion opens that call. For
the rename to be what `CertSync` calls `Publish`, the task that saves was
answered and is alone on the loop, and a temporary file that it has filled is
its own certificate, whole (`SaveInv`); of what earlier attempts left in it
nothing need be known, because opening truncates it. `Restart` follows, and
`Implements` with one lemma per action: opening and filling are stutters, the
rename is `Publish`, a save that raises is `SuccessorLost`, a tool that is killed
while it writes leaves a store that cannot be read. The
refinement then carries over what is proved of `CertSync`: `CertSync_proofs` is
instantiated with the store read from `cert.json`, and `LifeIsSafe` and
`ImplementsIdentity` are its theorems about the application with its files.
`TypeCorrect` adds the type of the temporary file, which is whatever some save or
an earlier process left there.

*DynamicTls.* `FreshHandshake` needs that numbers only grow: a file is never
older than what was read from it, and what is cached for an application never
older than the version it is filed under (`NumberInv`); a handshake in progress
began under a version no younger than the certificate in service, and an
application that is not up has no cache and no handshake (`ServiceInv`).
`PeersTrust` needs what the tool has written so far: for an application whose
files are `kept`, which of them are the last run's after each of its four writes,
and that every rotation then in flight is of a certificate of that run
(`FilesInv`); that everything in the memory, the cache and the last handshake of
an application started after the last run is of that run (`MemoryInv`); and that
counting as started after a run means that it has ended and is kept
(`StartInv`). What happened before the last run appears nowhere in the argument,
which is why a run repairs whatever came before it. A rotation keeps the
authority, because the Trust Service honours only tokens of its own, and a
bootstrap is of the last run's authority only as long as there was no run.

*AppLifecycle.* The invariant says that everything is built before the first
hook runs and every hook is over before an application serves (`PhaseInv`), that
the orchestrator leaves an identity when it returns and the Vault demo began
after that, and that the bootstrap identity is held only during a call made with
the store cleared (`TrustInv`). Two lemmas are about the wiring itself:
`Wiring` (the orchestrator is a component of both applications, and the Vault
demo needs it) and `Buildable` (as long as a component is missing, one can be
built: there is no circle). `OwnReason` proves the action property from the same
step lemmas, for any set of disks.

*DemoSessions.* What a caller was told, what its handler has counted and what is
on its way must add up to what it sends. Stated as a sum over the stream this
needs an induction at every step, so a chunk is given by the offsets at which it
begins and ends, and the sum of some chunks in a row is a difference. `IInv` says
where each caller is: before its first call nothing was said (`Fresh`); while it
uploads, its handler has counted up to some chunk and the next ones, up to the
last it wrote, are on their way (`Uploading`), and while it downloads, it has
read up to some part and the next ones are on their way (`Downloading`). Both
streams are thus a `Window` of the whole, and every step moves one end of it by
one. A session that is over has nothing on its way (`Ended`), which is what keeps
a broken connection out of the next session. `Own`, `Closed` and `TypeCorrect`
follow; `Implements` needs that a total or a part that is read is the next one
the caller is owed, and that everything else is a stutter.

*PemNormalizer.* Lines, the line that is being filled and the words not yet
placed follow each other without a gap: for some `p` and `q` the lines hold the
characters up to `p`, the line goes on to `q`, and the words have the rest
(`Wrapping`). No complete line is empty or too long, and the unfinished one fits
without the blanks before its next word, so it may end at any time. With a body
in one piece every line before the last is full (`FullLines`), because then
nothing but the end of the body ends a line early. `Proper` and `Keeps` follow
for every width, body and number of blanks, and `Stays` because what was
returned is armoured, so that a second round only strips it. The model is a
loop with a step for each word rather than a recursive operator, so that this is
an argument about steps, and no induction over the words is needed.

Only model-checked: the liveness properties (`RotationCompletes`, `DemoEnds`,
`StartWaitsOnlyForAnswers`), which are beyond the prover. Every other
property of a passing run is also the statement of a theorem. The claims of
section 5 are refuted.

## 5. Where documents and code disagree

1. *bootstrap.txt is used once* (`src/server/runtime/security/README.md:36`).
   A death between publish and delete, or a delete that fails and is only
   logged, leaves the file; the next start is RECOVERABLE, deletes the rotated
   certificate and presents the spent token. Nothing but a new bootstrap file
   helps then (`BootstrapUsedOnce`).
2. *RECOVERABLE prefers a fresh bootstrap* (synchronizer line 81). The store is
   cleared before the file is read, whatever it holds (`PrefersFreshBootstrap`).
3. *The periodic job rotates when expiry approaches* (synchronizer line 21).
   If one reply is lost after the token was spent, every later run is refused
   and the certificate runs out (`RotatesWhenDue`).
4. *"Both apps now start in the ACTIVE state"* (`generate_dev_certs.py:254`).
   The tool encrypts with the key of `application.yml`, the application prefers
   the environment's, and a leftover `bootstrap.txt` makes the start
   RECOVERABLE, which deletes what the tool wrote (`DevCertsActive`).

Remarks that are not findings, and where the models show them:

* "Approaches expiry" (`CertRotationJob.py:10`) is decided by the age alone.
  Whether 150 days is before the expiry is left to whoever issues the
  certificate; `NeverServesExpired` needs the lifetime as an assumption.
* A later start with a due certificate awaits a call of the Trust Service that
  has no deadline before it serves with the certificate it has, and the client's
  start a Crypto Engine that accepts the connection and never answers; these
  are the premise of `StartWaitsOnlyForAnswers`.
* A bootstrap file that the operator puts in place during the bootstrap call is
  deleted by the flow of the old one.
* After a change of the key, `find_latest` raises before the bootstrap file is
  looked at, so a good bootstrap file does not repair the start until
  `cert.json` is removed by hand.
* A rotation in flight overwrites what the development tool wrote, and a start
  with a bootstrap file deletes it (`kept` of `DynamicTls`); and the tool's own
  certificates are asked to be rotated after 150 of their 365 days, in vain,
  every hour.

## 6. Not modelled, and the plan

Not modelled on purpose: generated stubs, servicers and messages (tables without
decisions; what a call of the SDK promises is `DemoCalls`), logging, the body of
the no-op transaction, the JSON format of the files, loss of power (the code
does not fsync, and its comment claims no more than a crash), and calls that
hang, beyond what is said of them above.

Left of the plan:

1. `AppLifecycle` and `CertSync` as one composition, with the restarts of one
   application seen by the handshakes of the other.
2. The bounds of `RotationClock` and `CertSync` in one model, so that a rotation
   that is refused for a spent token is seen by the clock.
