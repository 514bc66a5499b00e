# Verification of the workload agent

`wlagent` is the agent on a compute host that lets libvirt launch VMs from
encrypted images. Libvirt's qemu hook calls it three times in the life of a VM:
*prepare* opens the dm-crypt volumes of the image and of the VM, *start* attests
the VM and counts it as a user of its image, *stopped* closes the volumes, the
image's too if the VM was the last one to use it. This directory models that
core, the daemon around it with its file watcher and shutdown, the key provider
for containers, and the setup commands that prepare the agent's keys, in TLA+,
checks them with TLC on small instances and proves much of it with TLAPS for every
number of VMs, images, keys and requests. Five runs show where the code does not do
what its comments say.

Paths below are relative to `src/`.

## 1. Inventory

| Component | State | Operations | Talks to |
|---|---|---|---|
| Hooks: `libvirt/qemu`, `main.go` (`start-vm`, `prepare-vm`, `stop-vm`) | none | one RPC each, exit status is the verdict for libvirt | RPC handlers over a Unix socket |
| RPC handlers: `rpc/server.go` | `wlaMtx` | `Start`, `Prepare`, `Stop`; `Prepare` and `Stop` hold `wlaMtx`, `Start` does not | `wlavm` |
| VM life cycle: `wlavm/prepare.go`, `start.go`, `stop.go` | sparse files, device mappers, mounts, placeholders, disk files and symlinks of the host | one long sequence of external calls each | volume library, `qemu-img`, TPM, WLS, association, file watcher |
| Image-VM association: `wlavm/image_VM_association.go`, `util/util.go` | map image -> (path, `VMCount`), yaml file, `MapMtx` | `Create`, `Delete`, `imagePathFromVMAssociationFile`, `Save`, `Load` (`DeleteEntry` has no caller) | file system |
| File watcher: `filewatch/filewatch.go` | inotify watches, map of handlers | `HandleEvent`, `UnhandleEvent`, `Watch` | `Prepare` registers the removal of a mount path |
| Key unwrapping: `util/util.go` | none (TPM) | `UnwrapKey`, `GetTpmInstance` | `Prepare`, key provider |
| Daemon: `main.go` `runservice`, `runGRPCService` | tasks counted for the shutdown | start (load the association), serve, wait for quit | all of the above |
| Key provider for containers: `keyprovider-grpc`, `flavor` | none (the map of `flavor.Fetch` has no user) | `UnWrapKey` | WLS, TPM |
| Clients: `clients` | none | HTTP requests to HVS and WLS | |
| Setup: `setup`, `common` | key files, certificates, secrets in the configuration | create and register binding and signing key, update service configuration | TPM, HVS, configuration |
| Configuration: `config/config.go` | `config.yml` | load at start, `Save`, `SaveConfiguration` | setup |
| `dist`, `upgrades`, `build` | none | shell scripts and images around `wlagent setup` | |

What is hard about it:

* **Concurrency.** net/rpc runs every call in a goroutine. `Prepare` and `Stop`
  exclude each other, `Start` runs beside both. The association has its own
  mutex, but marshals and unmarshals the map outside of it.
* **Distance between cause and effect.** The image is opened by `Prepare`,
  counted by `Start` and closed by the `Stop` of whoever brings the count to
  zero. Nothing ties the three together but libvirt's order of calls, and that
  order breaks when a launch is denied or fails.
* **Partial failure.** `Prepare` is a dozen external steps. None is undone when a
  later one fails; instead the next attempt guesses from sparse files, device
  mappers and symlinks how far the previous one got.
* **Crash and restart.** The daemon loads the association file; volumes, mounts
  and disks are as it left them; running VMs keep running.
* **Timeouts.** Shutdown waits ten seconds for calls in flight, and always the
  whole of them, as the task of the file watcher never ends.
* **Events.** The removal of a VM's mount path hangs on an inotify event, a watch
  that goes with the file, and a handler that only lives in memory.
* **A TPM that takes few connections**, and an error of opening one that ends the
  process instead of the request.

What makes each component correct:

* association: the count is the number of users; last means last; the file is
  the map; no call hangs;
* VM life cycle: a running VM is attested, reads its decrypted image and writes to
  its own volume, locked with its key; the volume of a VM in shutoff is closed; the
  image is closed after the last VM; no failure loses or overwrites data;
* file watcher: every VM deleted after it was prepared has its mount path
  removed;
* setup: the secret in the configuration opens the key on disk and the
  certificate certifies it;
* daemon: the shutdown counts every call and ends; no call waits longer than for
  the calls before it;
* key provider: an accepted request is answered, also when the TPM fails.

The hazards, with the lines where they bite and the properties that cover them,
are in `PROJECT.json`.

## 2. Plan

1. `ImageVMAssociation` with its abstract specification `AttachmentRegistry`,
   runs and proofs - done.
2. `VirtualMachine`, the three handlers over the volumes of the host, with the
   association as the atomic registry that 1 shows it to implement, failing
   steps, crashes and reboots - done, with proofs of what no fault may do to data, of
   what a running VM has whatever fails, and of images and counts until a step fails.
3. `SetupKeys`: the setup commands over the key files, certificates and
   `config.yml`, killed at any step, repeated, forced - done, every property proved.
4. `Service`: the task count, `wlaMtx`, the shutdown, the RPC task, and the file
   watcher composed with `Prepare` and the deletion of the VM - done; the count and the
   wait proved, liveness model-checked.
5. `KeyProvider`: requests, TPM connections and the shutdown of the second daemon
   - done.
6. The association file across crashes and re-reads, and the VM life cycle until and
   after a failing step: the inductive invariants, checked and proved - done. With
   that every invariant and every action property of the passing runs is a theorem.
7. Left: what the violations leave to be claimed of the image volume where steps fail,
   and a running daemon beside a setup.

## 3. Modules

### ImageVMAssociation

A VM is also the process that runs the call made for it, since libvirt makes
the calls for one domain one after the other.

| TLA+ | Code |
|---|---|
| `assocs`, `assocFile` | `util.ImageVMAssociations`, the yaml file; an entry is its `VMCount`, as its path is a function of the image id |
| `mapMtx`, `wlaMtx` | writer of `util.MapMtx`, holder of `wlaMtx`; readers of `MapMtx` hold it for one step, so they only wait for it to be free |
| `ptr` | the entry `Create` looked up: `Unmarshal` of another call can replace it (`orphan`) |
| `buf` | bytes marshalled or read |
| `verdict` | what `Delete` returned |
| `attached` | history: VMs counted by `Create` and not yet taken off; a VM that stops while the daemon is down leaves it too |
| `CallStart`, `CallStop`, `CallPrepare`, `Enter`, `Return` | a hook's call, `wlaMtx.Lock()`, the return |
| `CreateLookUp`, `CreateStore` | `Create` under `MapMtx` |
| `DeleteCounted`, `DeleteMissing` | `Delete` up to its `MapMtx.Unlock()` |
| `Marshal`, `StatFile`, `StatFails`, `WriteOpen`, `WriteFile`, `WriteFails` | `SaveImageVMAssociation` |
| `LookUpLen`, `LoadOpen`, `LoadRead`, `Unmarshal`, `LookUpGet` | `imagePathFromVMAssociationFile` and `LoadImageVMAssociation` |
| `Crash`, `StopWhileDown`, `Restart` | death of the daemon, a VM stopping meanwhile, `runservice` loading the file |

`Delete`'s look-up and store are one step, `Create`'s are two: only `Unmarshal`
runs outside `MapMtx`, and its caller `Prepare` holds `wlaMtx`, as does the
caller of `Delete` but not that of `Create`. A step outside the mutex is one
access to shared state. Reading the map while another goroutine writes it is a
race that Go's runtime may also answer by killing the process; that is a `Crash`.

The environment is a set of constants: `Overlap`, `PathlessPrepare`,
`UncountedStop`, `SaveFails`, `TornWrite`, `MaxCrashes`.

### AttachmentRegistry

What the association promises: a VM is attached at one instant, detached at
another, and the detached VM learns whether another VM of its image is attached.
`ImplementsRegistry` says that `ImageVMAssociation` implements it
(`Registry == INSTANCE AttachmentRegistry WITH ...`), with the history variable
`attached` and `verdict` as the mapping.

### VirtualMachine

| TLA+ | Code |
|---|---|
| `sparse`, `open`, `mounted`, `filled` | sparse files, device mappers, mounts and contents, one per image and per VM |
| `keyed` | the volumes that were formatted with the unwrapped key |
| `placed` | placeholder files below mount points (`checkMountPathExistsAndMountVolume`) |
| `disk` | the VM's disk path: nova's overlay on the encrypted image, an overlay rebased to the decrypted image, nothing, or the symlink into the VM's volume |
| `known`, `count` | the association |
| `vol`, `fresh`, `key` | locals: the volume `imageVolumeManager` or `vmVolumeManager` works on, the stat of its sparse file, whether the `key` in scope is the unwrapped one |
| `dom` | what libvirt thinks of the domain; `failed` is a launch that the hook refused |
| `attested`, `stray` | history: VMs attested in their present launch, images of which a VM was stopped that did not run |
| `Resolve` .. `WatchDisk` | `Prepare`; the steps from `CreateVolume` to `FillVolume` stand for both volume managers, which differ in what they do when the device mapper exists (`VolumeExists`) |
| `OnDecrypted`, `Verify`, `Attest`, `CountVM`, `Started` | `Start`; whether the backing file of the VM's disk, as the domain XML has it, is a decrypted image decides whether there is anything to attest; `Attest` is the trust report, signed by the TPM and posted to WLS |
| `StatDisk`, `Unmount`, `DeleteVolume`, `UncountVM`, `NotCounted` | `Stop`; the second round of `Unmount` and `DeleteVolume` is the image's |
| `NoKey`, `NoFlavor`, `ReportRefused` | WLS has no key for `Prepare`, no flavor for `Start`, or refuses the trust report |
| `Fail`, `FailLogged`, `Crash`, `Unheard` | a step fails and the handler returns false; `Stop` logs and goes on; the daemon dies; a stopped hook finds no daemon |
| `Reboot` | device mappers, mounts and the association file are gone; sparse files, placeholders and disks stay |
| `Redeploy` | the VM is deleted and another one gets its UUID; its device mapper and mount stay as they are |

`Plain` are the images without an encryption header: `Prepare` and `Start` let
their VMs through, and `Stop` finds no volume and no entry for them. `Prepare` sees the
header; `Start` does not look for it, but at the backing file of the disk that `Prepare`
left (`OnDecrypted`). That the two agree is `RunningAttested`.

The stopped hook is called for VMs that ran, for launches that a hook refused, and for
prepared VMs that libvirt gave up before the start hook.

The volume library, `qemu-img` and the file system are not part of the repository and
are modelled from their use: `CreateVolume` makes the sparse file if there is none,
formats it with the key it is given, and refuses an existing device mapper; umount wants
a mount point; a mounted volume cannot be closed; `qemu-img create` refuses an empty
backing file or format. Three lines of the code meet these:

* `prepare.go:187` assigns the unwrapped key to a variable of an inner block that hides
  the `key` of `Prepare` (`FetchKey` and `QemuImgInfo`, where the block begins and ends).
  The image volume is made with it, the VM's with the nil key of `Prepare`:
  `vm_unkeyed_disk`. That `CreateVolume` takes an empty key is an assumption; if it did
  not, no VM of an encrypted image could be launched and nothing here would matter.
* `stop.go:104` unmounts the image by the path of the decrypted *file*, which is no
  mount point, so `Unmount` does nothing for an image, and `DeleteVolume` cannot close it.
  An image that was opened stays open until the host reboots, although the comments at
  `stop.go:75-76` have it closed after its last VM; a property that says so fails at the
  first Stop. It is also why `ImageStays` holds in every order of launches and stops. If
  that line alone were mended, the image would be torn down under VMs between `Prepare`
  and `Start` (`stop.go:97`), and a VM started again from
  shutoff would find the placeholder in its place (`prepare.go:117`): with
  `mounted' = mounted \ {vol[v]}` in `Unmount`, TLC finds both as violations of
  `ImageStays`.
* `prepare.go:261` runs with an empty backing file and format for a disk that an
  earlier, failed `Prepare` rebased: the launch fails, and so does every further one
  (third case of `RecreateDisk`).

### SetupKeys

| TLA+ | Code |
|---|---|
| `saved`, `extent` | the configuration written to `config.yml` last, the length of the file |
| `keyFile`, `key` | `bindingkey.json`, `signingkey.json`: which exist, the key in each (0: truncated, not written) |
| `certFile`, `cert` | the `.pem` files likewise; a certificate is named by the key it is of |
| `conf` | `config.Configuration` of the command that runs |
| `todo`, `force`, `whole`, `pc`, `got`, `done` | its tasks left, its flags, the step of the task, the answer of HVS, its exit status |
| `Begin`, `SetupAll`, `SetupTask` | `init`, `SaveConfiguration` and the choice of tasks in `main` |
| `KeyExists` .. `WriteKey` | `SigningKey.Run`, `BindingKey.Run`, with `ValidateKey`, `createKey` and `writeCertifiedKeyToDisk` |
| `CertExists` .. `ChownCert` | `RegisterBindingKey.Run`, `RegisterSigningKey.Run` |
| `ServiceConfigured`, `UpdateService` | `Update_Service_Config.Run` |
| `Interrupt` | a step fails and `main` exits, or the process is killed |

Keys are numbered in the order the TPM makes them and a secret has the number of
its key, so "the secret opens the key" is equality. The settings are reduced to
what they add to the length of the file, since `config.Save` does not truncate
it: after a shorter configuration the end of the longer one stays, and the next
start may or may not be able to decode the file (`Loaded`). If it is not, the
command goes on with an empty configuration and saves that, which is why
`SecretKept` speaks of commands that found a file no longer than its
configuration; without that restriction TLC shows a secret that a shorter
configuration and an unforced setup lose. One command runs at a
time, as the installation scripts do it; one `Save` is one write. The runner of
the tasks and the download of the CA certificate belong to a library.

### Service

| TLA+ | Code |
|---|---|
| `daemon`, `elapsed`, `downs` | the process: up, between the signal and the exit, down; the time of `WaitForQuitAndCleanup` |
| `rpc` | the RPC task: not yet listening, serving, or returned because it could not listen |
| `tasks`, `ServiceTasks` | the count of `proc`'s WaitGroup; those of the two tasks of the service that have not ended |
| `wlaMtx`, `pc`, `since`, `used` | the mutex, the step of each call, when the call was made and how long the holder of the mutex has run since the signal |
| `sparse`, `mountPath` | what `Prepare` left behind: the sparse file, files at the mount path |
| `watched`, `handlers`, `events` | the inotify watches of `disk.info`, `Watcher.handlers`, events on their way to `Watch` |
| `promised`, `stuck` | history: VMs whose handler was registered since they were deployed, in this life of the daemon; VMs whose mount path could not be removed since the last deletion |
| `CallPrepare`, `CallStart`, `CallStop` | `AddTask(false)` refuses once the daemon quits, `AddTask(true)` of `Stop` does not |
| `Enter`, `Return` | `wlaMtx.Lock()`; the deferred `Unlock` and `TaskDone` |
| `MakeVolume`, `AddWatch`, `RegisterHandler`, `PrepareFails` | `vmVolumeManager` and `HandleEvent`, in which `w.Add` and the entry of the handler are two steps |
| `FinishStart`, `FinishStop` | the rest of the handlers, whose work on volumes `VirtualMachine` has |
| `Delete`, `Touch`, `Rebuild`, `Event` | nova and the kernel: `disk.info` is removed or changed, a VM of that UUID deployed again |
| `Handle` | one event through `Watch` and the handler that `Prepare` gave it, at any time after the event, with a `RemoveAll` that may fail |
| `Signal`, `Tick`, `Exit`, `GoDown`, `Panic` | SIGTERM, time, `WaitForQuitAndCleanup`, the end of the process, `GetTpmInstance` without a TPM |
| `Restart`, `Listen`, `ListenFails`, `StopUnheard` | `runservice` up to its RPC task, that task, its return if the socket cannot be removed or made or the service not registered, a stopped hook that reaches nobody |

Time passes only between the signal and the exit. `Tick` waits for a call that
has held `wlaMtx` for `Duration`, and for a queued call while the mutex is free;
`Duration` is thus the longest a handler may run, and `WaitIsBounded` is the
bound on the queue: the call itself and two for every other VM, since a VM's `Prepare` may be
followed by its `Stop`, but not by another `Prepare` after the signal. The bound is the
tightest there is. `rpc/server.go:119` says a Stop "needs to be completed even if
there is pending signal termination": it is if `WaitBound`, which
counts its own `Duration`, fits into the ten seconds, and cut short if not, which
the code does not control.

### KeyProvider

| TLA+ | Code |
|---|---|
| `server` | serving, waiting in `WaitForQuitAndCleanup`, in `GracefulStop`, down, or dead of a panic |
| `pc` | the step of each `UnWrapKey` request, or how it ended |
| `open` | the requests that hold a connection to the TPM |
| `RetrieveKeyWithURL`, `GetKeyWithURL` | the key from WLS, for this host |
| `OpenTpm`, `OpenTpmPanics`, `Unbind` | `GetTpmInstance` and `UnwrapKey`, with the deferred `Close` |
| `AesDecrypt` | the rest of `UnWrapKey` |
| `Signal`, `WaitEnds`, `GracefulStop` | the end of `runGRPCService` |

How many connections a TPM takes is the constant `Sessions`; opening one may also fail
for any other reason. What the code does then is no assumption: `UnwrapKey` defers
`Close` of a nil provider and panics, before it looks at the error: `OpenTpmPanics` ends
the process and loses every request in flight, where `util.go:115` means to return an
error to one.

### MC modules, proofs

`MCImageVMAssociation` and `MCVirtualMachine` declare the model values and the
image of each VM, `MCService` and `MCKeyProvider` the model values of theirs;
`SetupKeys` needs none. The theorems about a module `M` and their proofs are in
`MProofs`: `ImageVMAssociationProofs`, `VirtualMachineProofs`, `SetupKeysProofs`,
`ServiceProofs` and `KeyProviderProofs`. Three modules go on from there:
`ImageVMAssociationFileProofs`, about the yaml file, `VirtualMachineRunningProofs`, about
what a running VM has whatever fails, and `VirtualMachineFaultlessProofs`, about what
holds until a step fails.

Definitions commented as *Mutant* are plausible bugs of the definition that
follows them. Nothing uses them; put in its place, each makes a run fail.

## 4. Runs

All runs finish within a few minutes and exhaust their state space.

| Run | Instance | Shows |
|---|---|---|
| `assoc_steady` | 2 VMs of one image, 1 of another; calls overlap, saves fail | `CountMatchesUsers`, `LastMeansNoOtherUser`, `ImplementsRegistry`, and `SteadyInv`, the invariant of the proofs |
| `assoc_reload` | 3 VMs of one image; calls overlap, look-ups re-read the file; fair | `CountNeverExceedsUsers`, `OneWriter`, `EveryCallReturns`; the type invariant where it is hard to keep |
| `assoc_crash` | 2+1 VMs, one call at a time, 2 crashes | `CountCoversUsers`, `FileMatchesMap` |
| `vm_life` | 2 VMs of an encrypted image (symmetric), 1 of a plain one; launches, relaunches, refusals at three points, stops and redeployments in every order, 1 failing step, unheard hook, crash or reboot anywhere | until that: `ImageStays`, `OffVolumeClosed`, `CountMatchesRunning`; also after it: `RunningDiskInVolume`, `RunningAttested`, `ChangeDiskKept`, `DataStays`, the type invariant |
| `setup_repair` | 3 keys created, 2 lengths of settings, any sequence of commands, each killed anywhere | `ForcedSetupRepairs`, `SecretBeforeKey`, `SecretKept`, `KeptUnlessForced` |
| `service` | 2 VMs, 2 exits or deaths, 1 event under way, a timeout of 4 calls; fair | `TaskPerCall`, `WaitIsBounded`, `Exits`, `MountPathRemoved` |
| `key_provider` | 3 requests, 2 TPM connections; fair | `AcceptedAnswered`, `Ends` |
| `assoc_stale_file` | 2 VMs | **violation** of `FileMatchesMap`: with overlapping calls the older snapshot may be written last |
| `assoc_uncounted_stop` | 2 VMs | **violation** of `LastMeansNoOtherUser`: the Stop of a VM never counted takes another one off |
| `vm_half_mounted` | 2 VMs, 1 failing step | **violation** of `RunningHasImage`: a device mapper left behind is taken for a decrypted, mounted image |
| `vm_unkeyed_disk` | 1 VM, no fault | **violation** of `RunningDiskKeyed`: the VM's volume is made with a nil key |
| `service_late_event` | 2 VMs, 2 events under way | **violation** of `MountPathKept`: the handler gets to the deletion of a VM when the next one of its UUID is prepared |

**Bounds.** Two VMs of one image give every race between two users of an entry;
the third, of another image, that entries do not disturb each other; three of
one image a reload between two counts. An image has one entry and one volume, so
more images add nothing new. Two crashes allow a crash after a restart. One
fault lets any step fail, or the daemon die between any two, and everything that may be
tried after it; what `vm_life` claims beyond the first failure is proved for any number
of them. Three keys allow a command
that is killed with one key made and a forced setup that makes both; two lengths
allow a configuration that grows and one that shrinks. Two VMs queue behind each
other for `wlaMtx`; a timeout of four lies beyond the bound of three calls, so a
longer wait would show; two exits let a restarted daemon quit again. One event
under way lets Watch get to a deletion when the VM is deployed and prepared again, and
`service_late_event` has two. Three requests on two
connections give both the free and the refused connection. Values are not bounded
otherwise: counts are bounded by the VMs.

**What the environment constants exclude.** The passing runs state what the code
does under the assumptions they name. Lifting one of them:

* `Overlap` in `assoc_crash`: the file may be behind the map (`assoc_stale_file`),
  so a restart may count too little;
* `TornWrite` in `assoc_crash`: the file may be empty after a crash inside
  WriteFile, and every count is lost;
* `Faultless` in `ImageStays`, `OffVolumeClosed` and `CountMatchesRunning`:
  `vm_half_mounted`; a failing Stop leaves the volume
  of its VM open, a failing save counts a VM that does not run, a reboot forgets the
  count;
* `stray` in `CountMatchesRunning`: the Stop of a VM that did not run takes another
  one off;
* `DeleteInPrepare` in `service`: a VM that is deleted between `w.Add` and the entry
  of its handler has its event dropped; deployed and deleted again, its mount path
  stays (`MountPathRemoved`);
* `promised` in `MountPathRemoved`: VMs prepared before a restart of the daemon, or
  prepared again with an existing sparse file, have no handler in this daemon, and
  their mount paths stay.

`ForcedSetupRepairs` is about `setup all --force`. Without `--force` a command may
succeed and leave a key that its secret does not open, an empty key file, or the
certificate of an older key: each `Validate` only looks for a file, as the comment
at `common/key_creation.go:153` says.

Two remarks on the code that no run is about: the entry of an image stays in the
file with a count of zero, although `Delete`'s comment
(`wlavm/image_VM_association.go:47`) says it is deleted; and `prepare.go:143`
reads the header of the encrypted image again, so that "skipping the image
dm-crypt volume creation" never happens and `VolumeExists` is what a second VM
relies on.

**Fairness** (`FairSpec`, and `Spec` of `KeyProvider`): weak for steps that wait
for nothing - a runnable goroutine runs, the file watcher included, and the time of a
shutdown passes - and strong for steps that wait for
a mutex, since a Go mutex hands itself over to a waiter it has starved for a
millisecond. Nothing is assumed of the hooks, of signals, crashes, restarts,
deletions or failing steps. In `KeyProvider` a step that may fail is fair as a
whole: the request goes on or ends.

**Deadlock** is checked in every run but `key_provider`: there the server ends, and with
it everything.

## 5. Proofs

The theorems hold for every value of the constants that satisfies the named
assumptions of the module they are about; TLC evaluates those in every run. Where a
theorem needs more of the environment, it says so in an `ASSUME` over the environment
constants, and never needs more than the run that checks the property grants:

| Theorem | Environment | Run |
|---|---|---|
| `CountsBelowUsers` | no crash | `assoc_reload` |
| `FileIsTheMap` | one call at a time, no failing save | `assoc_crash` |
| `CountsCoverUsers` | that, no Stop of an uncounted VM, no torn write | `assoc_crash` |
| `CountIsExact`, `LastIsLast`, `RegistryImplemented` | `Steady` | `assoc_steady` |
| all others | any | |

The inductive invariants were checked by TLC on these instances, and in the wider
environments the theorems allow, before they were proved.

### ImageVMAssociation

`ImageVMAssociationProofs` proves, for every finite set of VMs, every set of
images and every assignment of one to the other:

* in every environment, with any number of crashes: `TypeCorrect`,
  `MutexInvariant`, `WritersExclude`;
* under `Steady` (no crash, no look-up that re-reads the file, Stop only for
  counted VMs; saves may fail, calls overlap): `SteadyInvariant`, `CountIsExact`,
  `LastIsLast`, `RegistryImplemented`.

`TypeOK` is not inductive: that a count stays a natural number is
`DeleteCounted`'s guard, but that `Create` increments an entry that is still
there, and that the writer is alone, needs `MutexInv` - `MapMtx` is held exactly
at two program points, and a looked-up entry is in the map until it is stored,
since entries are replaced but never removed while the daemon runs. `SteadyInv`
adds where each VM is in its call while it is or is not `attached`, and that the
look-up of a VM at its store is still true: `MapMtx` keeps other `Create`s and
`Delete`s out, and nobody unmarshals. The count then equals the number of users
through the cardinality facts `UsersAttach` and `UsersDetach`, and `Delete`'s
test for one is the test for no other user; that is `LastIsLast` and the step of
`RegistryImplemented`.

`ImageVMAssociationFileProofs` is about what a restart or a look-up finds in the file.

* `FileIsTheMap`: an idle daemon has in the file what it has in the map, after any
  number of crashes, some of which tore a write, and any look-ups. `FileInv` says that
  the call in flight is alone (`Alone`), that the two agree while it is not saving
  (`Saved`), and that its buffer is not stale (`BuffersTrue`). The last is what fails
  in `assoc_stale_file`.
* `CountsCoverUsers`: no count is below the users, so a restarted daemon never tears an
  image down under a VM that kept running. That the map covers the users is not
  inductive: what a restart loads must cover them, too. `FileCovers` asks that only of
  the users with no call in flight, as a crash fails the hook of the others; so `Create`
  may be ahead of its save, while `Delete` must have a user to take off (`Calls`).
  After a crash the file may count too much, never too little.
* `CountsBelowUsers`: in a daemon that does not die no count exceeds the users, with
  calls that overlap, saves that fail, Stops of VMs never counted, and look-ups that
  replace the entry `Create` has in hand. A re-read could restore a count from before a
  `Delete`. It cannot, as a look-up only loads when it found the map empty, that is,
  before anybody was counted (`FirstUser`), and holds `wlaMtx` until it is done
  (`LookUpHolds`), which keeps every `Delete` out; so whatever it loads, and whatever
  another call has in its buffer meanwhile, counts VMs that are still there
  (`CopiesBelow`). An orphaned entry loses a count and adds none.

### VirtualMachine

`TypeCorrect`, `DisksKept` and `NothingOverwritten` hold for any VMs and images and
in every environment: any number of faults, crashes and reboots, overlapping calls,
refused launches, plain images. What carries them is `KeptInv`:

* `Locked`: a VM between `Enter` and `Return` of `Prepare` or `Stop` holds `wlaMtx`,
  so two VMs are never both at such a step; `VolOf`: it works on its own volume or
  on that of its image;
* `MountedOpen` and `Opening`: a volume that `CreateVolume` finds without device
  mapper is still closed when it is opened, and not mounted before `MountVolume`, as
  the only steps that open or mount are of the VM that holds the mutex. So the
  placeholder, which truncates whatever file its path leads to, is never written
  into a mounted volume with data: that is `NothingOverwritten`;
* `Copied`: a VM about to remove its disk has its volume filled. Nothing empties a
  volume but `Redeploy`, which takes a VM that libvirt does not run, and
  `OffIsIdle` says that such a VM has no call in flight. That gives `DisksKept`.

`Start` runs outside of the mutex; it opens and removes nothing.

`VirtualMachineRunningProofs` says what a running VM has, in the same environments:
`RunningDisksInVolume`, `RunningVMsAttested`. `RunInv` adds to `KeptInv`

* `Phase`: the call in flight for a VM is the one libvirt waits for;
* `Made`: a volume is made before it is opened, mounted and filled;
* `LaunchStage`: what the launch of a VM of an encrypted image has at each step. It comes
  to a mounted, filled volume in one of two ways: the volume is made now (`fresh`), and
  the disk, no longer nova's overlay, is copied into it; or the disk is a symlink,
  which, by `ChangeDiskKept`, only exists once the volume holds the disk. A sparse file
  without a symlink, what a failed attempt leaves, never gets past `RecreateDisk`: this
  is the case that a retry could go wrong in, and the proof rests on `qemu-img` refusing
  an empty backing file there. From `WatchDisk` to the Stop the VM is `Ready`;
* `Report`: the disk of a VM at `Start` is its symlink into a volume with contents, so
  `OnDecrypted` holds and it is attested before it runs; `PlainStage`: the VM of a plain
  image keeps nova's disk and is not.

`VirtualMachineFaultlessProofs` is about what holds until a step fails; launches, stops and
deployments come in any order and overlap, and WLS and the TPM may refuse any launch.
The inductive invariant `UntilFault` is `RunInv` and, as long as nothing failed,
`FaultlessInv`, which adds to it

* `Images`: what the volume of an image lacks - a mount, contents - the holder of
  `wlaMtx` is about to give it (`ImageWhole`), and it is whole whenever a disk or the
  association leads to it. Nothing takes it away again, since Stop unmounts nothing and a
  mounted volume is not closed (`StaysWhole`). `RunningKeepsImage` follows;
* `Disks`: the disk of a VM is only in between while its `Prepare` is at work on it, its
  symlink never leads nowhere, so that Stop does not return early (`DiskStage`), and its
  volume is closed from one launch to the next (`ClosedStage`), which is
  `StopClosesVolume`;
* `Counts`: as long as every Stop was of a VM that ran, `VMCount` is the number of VMs
  between `CountVM` and `UncountVM`; after that it is at most their number, since only
  `CountVM` increments. `CountsRunning` is that between calls.

### SetupKeys

All four properties and `TypeOK` are proved, for any number of keys and any lengths
of the settings, over any sequence of commands killed anywhere. `Inv` has `Synced`
(but for the moment between the creation of a key and its Save, the configuration in
memory is the one saved), `OneSecretAhead` (in that moment they differ in the secret
of the key just created), `NoFileNoKey` and `NothingReplaced` (a task that is not
forced only gets to its writes where there was nothing). From them `SecretSavedFirst`,
`NothingReplacedUnlessForced` and `SecretNeverLost` follow step by step.

`ForcedSetupLeavesAllInOrder` needs the order of the runner as well: `AtPos` says
which end of the list of tasks is left, and `RepairInv` what every task before that
point has done: keys are in their files and their secrets in the configuration once
the position is beyond their creation, certificates are of them once it is beyond
their registration. It rests on both creations coming before both registrations:
`RegisterRepairs` uses that the keys no longer change.

### Service and KeyProvider

`TasksAreCalls`: the count the shutdown waits for is one for each of the service's own two
tasks that has not ended - the RPC task does if it cannot listen - and one for every
call in flight, for any finite set of VMs. `AddTask` and `TaskDone` are
far apart and on both sides of a restart, so the invariant also has `DownIsQuiet` (a
daemon that is down has no call, and its RPC task begins anew) and, for the types,
`ExitsBounded`. The cardinality facts are `CallBegins`, `CallGoesOn` and `CallReturns`.

`WaitBounded` puts the bound on the wait of a Stop in every environment, deletions
during `Prepare` included. That a call has waited no longer than `WaitBound` is not
inductive; `Waited` says what it has waited for: calls of other VMs that are over, at
most `Duration` each, and the time of the holder. Calls that are over are counted by two
sets that only grow during the shutdown (`OverStaysOver`): `Past`, the VMs that have no
`Prepare` left, and `Gone`, those that have no Stop left either. A return from the mutex
puts its VM into one of them (`ReturnIsBefore`), and together they have at most two
places for every other VM. It rests on `Locked`, who holds `wlaMtx`, and `Placed`,
which step of a call goes with which state of the domain.

`KeyProvider` has its types proved, for any number of requests and sessions: connections
are counted, and a request that cannot open one takes them all along.

### Only model-checked

Liveness: `EveryCallReturns`, `Exits`, `AcceptedAnswered`, `Ends` and
`MountPathRemoved` rest on fairness, which is out of the prover's reach; TLC exhausts
their instances. The five violations are runs only.

## 6. Not modelled

* parsing and validation of the domain XML, logging, HTTP, TPM and cryptography:
  no state of the agent; that they fail is a step that fails or is denied;
* an encrypted image whose flavor does not require encryption: `Prepare` passes over the
  image volume and ends at `qemu-img create` with an empty backing format
  (`prepare.go:261`), which is `NoKey`. The key is missing on the other path, too: the
  VM's volume is made without it even where it was unwrapped (`prepare.go:187`,
  `vm_unkeyed_disk`);
* `UnhandleEvent`, `DeleteEntry`, `flavor.Fetch`, `RetrieveKey`, `GetImageFlavor`: the
  program does not call them; `WrapKey` does nothing;
* an overflow of the inotify queue, which `Watch` logs and which loses events;
* a daemon that runs during a setup: it keeps the secrets of its start in memory
  and reads the new key file, until it is restarted;
* the launch of VMs after a reboot as a property: a VM whose domain XML has no
  image path is refused, as the association is gone;
* `vmVolumeMtx`, `imgVolumeMtx`, `TpmMtx` and `stop.go`'s `mtx`: each is only
  taken under `wlaMtx`, or by calls without state;
* installation scripts, containers and upgrades.
