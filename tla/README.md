# PteroBackup in TLA+

PteroBackup copies files out of Docker containers on a remote host, over SSH, into a local directory, on a
schedule or on request, and puts them back on request. These modules model the parts of it where steps of
several actors, failures and restarts meet, check them with TLC on small instances and prove the most
important properties for all instances with TLAPS. Line numbers are those of the repository's files.

## Inventory

| Component | State | Operations | Talks to |
|---|---|---|---|
| Backup service (`internal/backup/service.go`) | none of its own: staging directories on the remote host, artifact files in a local subdirectory per item | `RunBackup`, `RunRestore`; inside: stage, copy, digest, skip or archive, download, prune; pick, upload, extract, inject | remote executor, file transfer, local files |
| Naming (`internal/backup/naming.go`) | none | artifact base name, item subdirectory, staging directory | clock |
| File transfer and executor (`internal/remote/transfer.go`, `executor.go`) | open files, one SSH session per command | `Download`, `Upload`, `Run` | remote host |
| SSH connection (`internal/remote/ssh_factory.go`) | SSH and SFTP clients, the goroutine and the channel of a dial | `Connect`, `Dial`, `Close` | remote host |
| SSH key rotation (`internal/httpapi/server.go`) | the configured key, `authorized_keys` and a temporary file on the remote host | show the public key, generate a key pair, revoke | store, SSH connection, remote host |
| Scheduler (`internal/scheduler/scheduler.go`) | four maps by item id (next run, last success, last error, last interval) under a mutex | `Start`, `runOnce`, `Snapshot` | config store (`Load`), backup service |
| Config store (`internal/config/`) | one JSON file behind an RWMutex | `Load`, `Save`; defaults and validation | local files |
| HTTP API (`internal/httpapi/server.go`) | none: every request loads the configuration | get and put config, backup and restore (all, one item), artifact list, download, contents, delete, schedule, SSH keys | store, backup service, scheduler's `Snapshot` |
| Web UI (`internal/web/`) | the form, a pending and a displayed public key, requests under way | load, save, generate and revoke keys, run | HTTP API |
| Process (`cmd/pterobackup/main.go`) | | starts scheduler and HTTP server | |

What is hard: a backup service is created per request and per scheduled run, and nothing keeps two of them off
the same item, so that runs on one item share a staging directory and a local subdirectory; every step of a run
is a remote command or a file operation that can fail or be the last one before the process dies; the scheduler
works on a configuration that changes under it and drops its lock during a run; the configuration file is
truncated before it is written; a revocation works for seconds on a configuration it read at the start and on a
temporary file that all revocations share; a dial outlives the context of its caller; answers reach a page after
what they answer has changed.

What makes each component correct:

- Backup service: a file name tells what is in the file; pruning keeps the newest data and no more than
  `maxBackups` files; a run that skips an item has a backup of it; a restore takes the newest artifact and puts
  every file of it into the container or fails; every run ends.
- Scheduler: no item runs before its interval since its last recorded success is over, and one that is repeated after a
  failed run shows the error; edits take effect at the next evaluation; maps agree with each other and forget removed
  items; every healthy item is backed up.
- Config store: concurrent calls act on one atomic value; what is loaded can be used by id and interval.
- Naming: items that differ get different directories, so that no run deletes what is another's.
- SSH connection: whoever is done with a connection has closed it; no goroutine hangs on its result.
- Key rotation: the host loses the revoked key and no other; a reported revocation has replaced the configuration it
  read, and nothing brings the revoked key back.
- Web UI: the key shown is the pending one, or comes to be the saved one, whatever errors and late answers came first.

`PROJECT.json` lists the hazards with their lines and the properties that cover them.

## Modules

| Module | Contents |
|---|---|
| `BackupService` | runs of the backup service, any number at once |
| `MCBackupService`, `MCBackupService_*.cfg` | its instances for TLC |
| `BackupServiceProofs`, `BackupNamesProofs`, `BackupOrderProofs` | type correctness; under exclusive workers: names and restores; order, pruning, retention and skips |
| `Vault` | what the runs promise together: complete copies in the order they were made; `BackupService` states that it implements it |
| `DockerCp` | `docker cp` in both directions, external; both modules above extend it |
| `Naming` | subdirectory and staging names of an item; `MCBackupService` takes the directories of its instances from them and checks the names on short texts |
| `VaultProofs` | `BackupService` implements `Vault` |
| `Scheduler`, `MCScheduler`, `SchedulerProofs` | the scheduler, its instances, its proofs |
| `AppConfig` | the configuration, `applyDefaults`, `validate` |
| `ConfigRegister` | what the store promises: an atomic register that only a save cut short loses |
| `ConfigStore`, `MCConfigStore`, `ConfigStoreProofs` | `Load` and `Save` in steps, instances, proofs |
| `SSHConnect` | how one caller gets and gives back a connection; composed into `KeyRotation` |
| `KeyRotation`, `KeyRotationProofs` | the SSH key endpoints over `SSHConnect`, the host's keys; proofs |
| `WebUI`, `MCWebUI`, `WebUIProofs` | the key handling of the pages over `KeyRotation`; instances; proofs |

Operators whose comment begins with "Mutant:" stand before the definition they are a faulty variant of. They are
not used by any specification; `PROJECT.json` pairs each property with a variant that violates it.

### BackupService

A worker is a goroutine inside `RunBackup` or `RunRestore`. `pc[w]` is its next step, `todo[w]` the items its
loop has left, `local[w]` the local variables of the current item. Steps of the code and actions:

| `runSingleBackup` | Action | `runSingleRestore` | Action |
|---|---|---|---|
| `rm -rf`, `mkdir -p` (70) | `StageBackup` | latest artifact (132) | `Pick` |
| `docker cp` out (76) | `Copy` | `rm -rf`, `mkdir -p` (138) | `Restage` |
| `[ -d payload ]` (81) | `Detect` | upload (143) | `Send` |
| digest (88) | `Digest` | `tar -xzf` (149) | `Extract` |
| stored digest equal (93) | `Skip` / `NameArtifact` | `docker cp` in (154) | `Inject` |
| `tar -czf` (109) | `Archive` | `rm -rf` (164) | `CleanRestore` |
| download (114) | `Open`, `Receive` | | |
| `pruneBackups` (118) | `Prune`, `RemoveVictim` | | |
| `rm -rf` (122) | `CleanBackup` | | |

`Fail` is every error return, of a step whose input is gone (`Broken`) or that fails on its own (`Faults`), with
what the failing command may have left (`Spoil`). `Crash` is the end of the process. `DeleteFile` is `DELETE` of an
artifact, `ContainerWrite` the game server, `Tick` the clock.

`docker cp` is the external module `DockerCp`. Out of a container (`CopiedOut`) it reads one file after the other: of an
item in `Live`, whose container is running, a successful copy may be any content, one that no instant ever held
included. Into a container (`CopiedIn`) it replaces a file but lays the files of a directory over those that are there:
`Merged[c][x]` is what a directory of content `c` holds after the files of `x`, and `Has` says that a directory has
every file of a content. `MCBackupService` has two such tables: in `Growing` the second content is the first and one
more file, so that restoring the first over the second leaves the second; in `Crossing` restoring one over the other
makes a third. What lies below a directory that was left torn is any content.

Abstractions: a content is a number and its digest the same number; `Torn` is any truncated payload, or one that two
commands have mixed. Apart from `docker cp` out of a running container, a remote command takes effect at one instant (a
failing one may leave a torn result). A download has two steps, creation and last byte; the data it gets is that of the
remote file when it was opened. Two file writes never get the same modification time. The directory listing of
`pruneBackups` and the `stat` of its entries are one step. A file truncated again by a second download belongs to the
second. Items that share directories are of one kind. The retention and the kind of an item are constants. A remote
command that outlives its dropped connection is not modelled. The clock is never set back.

### Vault

`Vault` is the view of the owner of the items: per item its data, per subdirectory a set of copies in the order of their
times, per worker the copy it has made and not yet stored (`snapshot`) and the one it has fetched and not yet put back
(`fetched`). `BackupService!KeepsVault` is the refinement:

| `Vault` | `BackupService` | Step |
|---|---|---|
| `vault[d]` | the complete files of `d`, each as its modification time and its data (`Complete`) | |
| `snapshot[w]` | the staged payload, from the `docker cp` to the last byte of the download (`Held`) | `Copy` takes it, `Receive` stores it |
| `fetched[w]` | the upload, if it is complete (`Fetched`) | `Send` fetches it, `Inject` puts it back |
| `Expire`, `Delete` | | `RemoveVictim`, `DeleteFile` |
| `LetGo` | | `Fail`, `Crash`, `Skip`, and the other steps at which a run gives up what it holds |

The promise is more than the sum of the properties of `BackupService`: what is stored is what one `docker cp` read of its
item (not a mixture of two runs, not another item's), and what is laid over a container is the copy that was the newest
when it was fetched. A restore picks a file before it uploads it; the fetch is said to happen at the upload, and that the
file picked is then still the newest is part of what is checked. That a copy is of one instant is not promised: of a
running container it need not be, and `Vault` says so by the same `CopiedOut` and `CopiedIn`. `MayTear` says where a
restore may leave a torn container: a download, a `docker cp` into the container or the process must be able to stop
midway. Copies go from the oldest on and not the last one; where users delete (`Deletable`), any copy may go, and the
pruning of a run may take the last one if its user deletes the run's own file before. Torn files are not copies: creating
and pruning them are stutters.

### Scheduler

A unit of time is a minute, the period of the ticker. `Begin` is `runOnce` up to the end of its first lock
section, `BackUp(i)` the work of `RunBackup` on one item, `Succeed` and `RunFails` the last lock section of either
outcome, `LoadFails` the early return, `Tick` the ticker with its channel of one, `Edit` a saved configuration,
`Restart` the process. `Sick` items always fail; `Outages` lets loads and connections fail. `lastDone` is a history
variable: when the process has last backed up an item, whether or not the run then succeeded as a whole; like the
scheduler's maps it does not outlive a restart or the removal of the item.

`NotEarly` is about successes the scheduler has recorded. A run that fails at a later item records nothing for those
before it, which are due, and backed up, again at the next tick: that an item is backed up at most once an interval is
not true of the code. `EarlyShowsError` says what is: while an item is backed up early, the schedule shows an error for
it.

### ConfigStore

`Load` and `Read` are the two ends of `Load` (the read lock is held between them); `Save`, `Lock`, `Open`, `Write`
are those of `Save`, `Open` being the truncation. `ReadFails`, `OpenFails`, `WriteFails` are its error returns,
`Restart` the process ending at any moment (fault "crash") or while no `Save` holds the lock ("restart"). `before` is
a history variable: the file as the write under way found it; with it `Content(Effective)` maps the state to
`ConfigRegister`, whose `begun` is what the writer at work is writing (`Begun`). Only while that is not empty may an error
or a restart change the register's value. Of the SSH settings only what `applyDefaults` and `validate` look at is kept; container names and
paths are always there. A generated id is any id not used in the configuration. Waiting for a lock is a guard; which
waiting caller is next is left open.

### SSHConnect, KeyRotation, WebUI

Three layers, each extending the one before.

`SSHConnect` is `Connect` (28) with `Dial` (76): `call[c]` is where the caller is, `dialer[c]` where the goroutine of
`Dial` is, `channel[c]` what it has sent. `Obtain` and `Abandon` are the two branches of the `select`, which chooses freely
when both are open; `SFTPFails` is the error return of `Connect` that closes the client; `CloseSFTP` and `CloseClient`
are `multiCloser`. What `ssh.Dial` does before it returns is one step of the host; its errors are one error.

`KeyRotation` is `handleSSHRevokeKey` (server.go:555). `Begin` is `Load`, the key of the configuration and the
credential, with their error returns, `Handshake` and `Network` the connection, `OpenTemp`, `Filter` and `Move` the command
on the host: the shell opens and truncates the temporary file, awk reads `authorized_keys` and writes, `mv` replaces the one
by the other. `onFile` is the file a running awk has open: after another revocation's `mv` it is `authorized_keys` itself.
awk compares the second field, so that it keeps the line of a key in `Optioned`, which begins with options. `RunFails` is
any failure of the command, after the `mv` included, `Save` and `SaveFails` the rest, `Return` the end of the handler. A
key is a number, in the order keys come up; its private and its public half are one. A `Garbled` key does not parse: it
can be saved, but no public key is derived from it. A configuration is its method, its key value and its key file. The
store is a register, which `ConfigStore` is proved to implement; a failing save leaves it as it was (that it may also
empty it is `ConfigStore`'s subject). Users save configurations, generate keys and add keys to the host.

`WebUI` is `app.js`: `form`, `pending` and `shown` are the fields of a page, `doing` the click whose answer its handler
awaits, `body` the configuration that its `PUT` took from the form at the click, `ask` the requests of `loadPublicKey`
under way, one of the timer and one of a click, and `fetch` that of the `loadConfig` after a revocation.

| `app.js` | Action | Server | Action |
|---|---|---|---|
| `setInterval` (543) | `Timer` | `handleSSHPublicKey` | `Serve`, its errors `ServeFails` |
| answer or error of `loadPublicKey` (422) | `Arrive` | | |
| Save (456) and after its await (458) | `ClickSave`, `SaveAnswered` | `PUT` of `handleConfig` | `HandlePut` |
| Revoke (498) and after its await (499) | `ClickRevoke`, `RevokeAnswered`, `RevokeUnanswered` | `handleSSHRevokeKey` | `KeyRotation` |
| after the await of `loadConfig` (397), then `loadPublicKey` (501) | `ConfigArrives` | `GET` of `handleConfig` | `ServeConfig` |
| Generate (510), pasting or loading a key | `Generate`, `Edit` | `handleSSHGenerateKeypair` | `GenerateKeypair` |

A request is sent, handled and answered at different moments. A failed `loadConfig` is only logged: the form keeps what it
had. A failed `loadPublicKey` puts the error on display (`Failed`). The next click needs no more than the answer of the last
one: what a handler awaits after that, `loadConfig` after a revocation and `loadPublicKey`, does not keep users from editing,
saving and generating meanwhile. Two pages stand for users who do not wait even for that. Nobody pastes a key whose revocation
was reported. The item rows of the form are left out, a `PUT` of the form is one of its keys.

`Patient` says that users wait: none saves, revokes or adds the revoked key to the host while a revocation is under way.
Without it a revocation saves the configuration it read over a newer one (server.go:561 to 611), or adds to what
`overlap_revokes` shows.

### Naming

A text is a sequence of words and special characters, a word being letters, digits and dashes. `SanitizeName`, `PathPart`
and `SubdirectoryName` are `sanitizeName` and `backupSubdirectoryName`; `Base` is `filepath.Base` of a text. TLC evaluates, as
assumptions of `MCBackupService`, over all texts of up to four pieces: sanitising twice is sanitising once; default names are
one directory below the root; items whose containers and paths are tidy (no unsafe characters, no underscore at an
end or doubled) get different directories. Untidy ones may collide (`a b` and `a_b`, or `/a__b` and `/a/b`): what two such
items do to each other is what overlapping runs do.

The instances of `BackupService` take `StagingOf` and `DirOf` from these names: two items share a directory exactly where
their settings give them one name.

## Runs

| Run | Question | Result |
|---|---|---|
| `serial` | one worker, a directory of a running container and a file whose artifacts are deleted, every step may fail, crashes: names, pruning, retention, the artifact a restore picks and what the container then holds; the runs keep a vault | holds |
| `disjoint` | two workers on different items, failing copies and cleanups, missing digests, deletions, nothing cut short: the inductive invariants of the proofs; a skip means there is a backup; they keep a vault, and tear no container | holds |
| `overlap_restore` | a request restores the item that the scheduler backs up, interrupted downloads, deletions: a container gets the data its artifact is named after; both runs end | holds |
| `stuck_truncated` | interrupted downloads: a skip means there is a backup | violated |
| `overlap_name` | two backups of one item: names tell content | violated |
| `edits` | edits, failures, restarts: the maps, early runs and their errors, effect of edits; afterwards every item is backed up | holds |
| `starved` | the first item always fails: the second is backed up | violated |
| `calls` | concurrent calls, failing reads, opens and writes, crashes: register that only a cut-short save loses, usable loads | holds |
| `rotation` | one page, one revocation, everything about it may fail: what leaves the host, what a reported revocation has done, connections, the key shown | holds |
| `overlap_revokes` | two revocations at once: the host loses the revoked keys only | violated |
| `stale_reply` | the timer against a generation: the pending key stays on display | violated |
| `revoked_returns` | a save after a reported revocation: the revoked key stays out of the configuration | violated |

The violated runs are real disagreements of code and documentation; `findings` in `PROJECT.json` quotes the lines.
Others are easily seen from the models, and have no run:

- With two workers that back up one item and `maxBackups` 1, `OnlyOlderPruned` fails: each prunes, by the listing it has,
  the artifact of the other.
- With two instants per second (`PerSecond = 2`) `RestoreNewest` fails: names of one second are ordered by digest.
- A save whose write fails (fault "write" of `ConfigStore`) leaves an empty or partial file, which is why the register it
  implements may be lost.
- `Read` of a file without ids may return other ids each time, and nothing writes them back: such an item is new to the
  scheduler at every tick, and a request by an id that was shown before finds nothing (defaults.go:45 against
  README.md:44 of the repository and the endpoints after it).
- With `Sick` the second of two items, the first is backed up at every tick (scheduler.go:151).
- A key in `Optioned` stays in `authorized_keys` after a revocation that reports success (server.go:594).

Bounds. `Horizon` stops the clock: no run starts after it, so that an execution has two to four runs with names
of different seconds, enough for a first artifact, a changed one, a failed one and a prune with
`maxBackups` 1 and 2 and a restore that has two artifacts to choose from; the
off-by-one variants of pruning are found there. Two contents suffice for "changed" and "changed back" and for a restore
over other files; `overlap_restore` has three, two of which make the third when one is laid over the other. Two workers
suffice for every race found: each involves one step of another run between two steps of one. Two scheduler items with
intervals 1 and 3 over 4 minutes let an interval be shortened and lengthened before, during and after a run. One
revocation and one page are enough for every single fault, two revocations for the race on the temporary file. Three keys
are one that is configured or in the key file, one that is pasted and does not parse, and one that is generated, so that
late answers carry an older key, a newer key or an error. A revocation of a generated key would take a fourth; the theorems
have any number. A page has one `loadPublicKey` of the timer, one of a click and one `loadConfig` under way at most: a
second one of a kind waits for the answer of the first. What more revocations and pages may do is proved, except for
liveness.
Two callers of the store, each with four bodies (without an id, with one generated and one given id, with repeated
ids, without a credential), cover a reader and a writer, and two writers. Data is not made symmetric since digests
order names.

Fairness. `BackupService!FairSpec` lets every worker go on: a remote command or transfer ends, well or badly. The
code has no timeout of its own for this (`executor.Run` ignores its context), so it is an assumption about the
remote host and about TCP. `Scheduler!FairSpec` adds that the ticker ticks and that the scheduler's goroutine, which
is alone in `Start`, goes on. `WebUI!FairSpec` asks that the timer of a page fires, that its requests are served and
answered, and that a send to a channel with room ends; hosts, connections and handlers need not go on. No fairness is
asked of users, restarts or failures: `KeyShown` is about behaviours in which, from some moment on, no request for the public
key fails, `HealthyItemsRun` about those in which, from some moment on, loads and connections work and nothing restarts.

## Proofs

`BackupServiceProofs!TypeCorrect` proves the type invariant of `BackupService` for any workers, items, faults and
bounds. It carries the one relation that the loop rests on: a worker is idle exactly when its list is empty.

`BackupNamesProofs` proves, under the constant assumption `Exclusive` (two workers share neither a staging directory
nor a subdirectory), `NamesTellContent`, `RestoresMatchNames` and `FreshSurvives`. `RestoresMatchNames` says of the container
that it has every file of what the picked name stands for, not that it has no other: `docker cp` lays files over it, and
what `DockerCp` assumes of that is that files laid over are there (`DockerCpAssumption`). `NameTellsContent` is not
inductive: a file is named two steps before it exists. `NamesInv` adds that between the copy and the download the
payload is there, that digest, name and archive are its own, and that uploads and extracted trees agree with their
names. `FreshInv` adds that no file has a modification time of the future and that names are unique, from which the
file of the run at hand is the newest when it prunes. `Exclusive` is needed: `overlap_name` violates the property
without it. The code does not establish it; it holds as long as users do not start runs while scheduled ones are under
way and no two items get one directory.

`BackupOrderProofs` proves, under `Exclusive`, that a run leaves at most `maxBackups` files (`RetentionKept`) and, if
also no two instants share the second of a name (`PerSecond = 1`), that a restore picks the newest artifact
(`RestoresNewest`) and that only older artifacts go (`OlderArePruned`). `OrderInv` says that names order the files of
a subdirectory as modification times do, and that the name a run has made is later than all that is there (`Latest`).
`KeptInv` follows the file of the run from its creation to the pruning. `RetainInv` adds that subdirectories are
finite, that no two files of one share a modification time and that the files not condemned yet are few enough. That
all but the victims of `Victims` number at most `max` (`FewAreKept`) takes the oldest kept file: the other kept ones
are newer than it, and fewer than `max` files are. `SkipsAreBackedUp` proves `SkipMeansBackedUp` where no download is
cut short (`DownloadsComplete`; `stuck_truncated` violates it otherwise). Its invariant `WholeInv` says that every
incomplete file is that of a download under way, whose worker can read what it downloads; a run that skips has none
under way, and with `NamesInv` the digest in the name is that of the file's data.

`VaultProofs` proves that any number of runs implement `Vault` (`VaultKept`), under `Exclusive` and `PerSecond = 1`,
with every failure, crash and deletion, one lemma per action. The steps rest on the invariants above and on three
more. `CarriedInv` follows the data of a run: a copy goes to an empty place, the file being downloaded holds the
staged payload, and what a restore uploads and extracts is one artifact. `ChosenInv` says that the file a restore has
picked is the newest, and that the files a pruning run has condemned are the oldest; that a newer one stays is
`KeptInv`. `KindInv` says that a name ends in `.tar.gz` exactly when the item is a directory, so that a restore
unpacks what was packed. `WholeUploads` is used where `MayTear` is false: every upload is then complete, and no step
of a restore tears the container. Both assumptions are needed: a second run on the item replaces the copy that the
first holds, and with two instants in a second a restore fetches an older copy.

`SchedulerProofs` proves `NoOrphans`, `Cadence`, `NotEarly`, `EditTakesEffect` and `EarlyShowsError` for any items,
configurations, failures and restarts. The inductive invariant is the conjunction of the first three with the types and
`RunUpToDate` (what runs is what `lastInterval` was last set to); `Cadence` after a success needs `RunUpToDate`, and
`NotEarly` at the next evaluation needs `Cadence` and `NoOrphans`. For `EarlyAlwaysShowsError` a second invariant says of
every item that has been backed up that this is recorded as its last success, or is the work of the run under way, or that
an error is shown for it.

`ConfigStoreProofs` proves the type invariant, and that `ConfigStore` implements `ConfigRegister` for any callers,
bodies and faults: an atomic register, whose value only a save that has begun to write and then fails or dies can lose (`CutShort`, the
faults "write" and "crash"); a failing load, a save that is refused and a restart while nobody writes leave it. The invariant behind it is that a writer holds the lock alone (`Locking`), that what
waits to be written was sent by a user and completed (`Sent`), and that the file is empty while it is being written
(`Blanked`). `LoadsAlwaysUsable` proves that what `Load` returns has an id, an interval and a retention for every
item, and no id twice, if the ids in the file found at first differ (`FoundIdsDiffer`; `validate` sees to it for files
that `Save` wrote). It does not say that an item keeps its
id, which is not so for a file without ids.

`KeyRotationProofs` proves, for any number of revocations at once, the types and `OnlyUnreadLeft`. `Stage` lists, for
every stage of a connection, where its client is; its last line is the property. With `Patient`, `Alone` is inductive:
one revocation is under way, the temporary file is its own, and until it saves the configuration is the one it read.
From it follow `OnlyRevokedEverRemoved` and `RotationsDone`, the latter for keys whose lines have no options. Both fail
without `Patient`.

`WebUIProofs` proves that any number of pages implement `KeyRotation` (`PagesUseRotation`), so that these theorems
hold of `WebUI` as well, and its type invariant. Both rest on `Known`: a page holds no key that has not come up, which
a `PUT` of its form needs.

Only model-checked: the liveness properties `RunEnds`, `HealthyItemsRun`, `DialerEnds` and `KeyShown` (liveness is out
of the prover's reach), and the facts about names, which are about texts of any length and would need induction over
data. Of the backup service all but the types is proved for
exclusive workers only.

## Not modelled, and planned

`PteroBackup`, planned: the scheduler, HTTP requests, the register and the backup service composed, with one
configuration loaded per run; changes of `maxBackups` and of names during a run; restarts of all at once.

Not modelled at all: a clock that steps back; file names with blanks, which the digest pipeline skips; a host that
accepts a connection and stays silent (the client's timeout bounds the TCP connect only) and commands that never end;
the checking of host keys, which the code leaves out. Left out for good: rendering and styling of the UI, JSON
encoding, artifact listings, downloads and contents (they change nothing), flags, Docker packaging.
