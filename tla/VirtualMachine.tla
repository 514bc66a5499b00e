--------------------------- MODULE VirtualMachine ---------------------------
(***************************************************************************)
(* The life of a VM through the three hooks: Prepare opens the dm-crypt    *)
(* volumes of the image and of the VM, Start attests the VM and counts it, *)
(* Stop closes the volumes.  One host, its VMs, the volumes and disk files *)
(* the handlers leave behind, and the steps that may fail or be cut short. *)
(*                                                                         *)
(* A step is one call of the volume library, of qemu-img or of the file    *)
(* system.  The association is the atomic registry of ImageVMAssociation.  *)
(***************************************************************************)
EXTENDS Integers, FiniteSets

CONSTANTS
  VM, Image,
  Plain,     \* the images that are not encrypted
  ImageOf,   \* the image of each VM
  NoVM,      \* "no holder" of wlaMtx
  MaxFaults  \* bound on the failing steps, crashes, reboots and unheard hooks

ASSUME ImageOfAssumption == ImageOf \in [VM -> Image]
ASSUME NamesAssumption == NoVM \notin VM /\ VM \cap Image = {} /\ Plain \subseteq Image
ASSUME EnvironmentAssumption == MaxFaults \in Nat

VARIABLES
  sparse,   \* the sparse files that exist, by volume
  open,     \* the device mappers that exist
  mounted,  \* the volumes that are mounted
  placed,   \* the mount points that hold the placeholder file
  filled,   \* the volumes that hold their data: decrypted image, change disk
  keyed,    \* the volumes that were formatted with the unwrapped key
  disk,     \* what the VM's disk path is
  known,    \* the images with an entry in the association
  count,    \* VMCount of the entry
  wlaMtx,
  pc,       \* the next step of the handler that runs for the VM
  vol,      \* the volume this handler works on
  fresh,    \* the sparse file did not exist before CreateVolume, which
            \* nobody asks once the volume is filled
  key,      \* the key in scope is the unwrapped one, not Prepare's nil key
  dom,      \* the domain, as libvirt sees it
  attested, \* history: the VMs attested in their present launch
  stray,    \* history: the images of which a VM was stopped that did not run
  faults

past == <<attested, stray>>
volumes == <<sparse, open, mounted, placed, filled, keyed>>
assoc == <<known, count>>
locals == <<vol, fresh, key>>
vars == <<volumes, disk, assoc, wlaMtx, pc, locals, dom, past, faults>>

Volume == VM \cup Image

ImageSteps == {"create", "open", "placeholder", "mount", "fill"}
PrepareSteps == ImageSteps \cup
  {"resolve", "key", "info", "recreate", "resize", "remove", "symlink", "watch"}
StartSteps == {"verify", "attest", "count", "saved"}
StopSteps == {"stat", "unmount", "close", "delete"}

TypeOK ==
  /\ sparse \subseteq Volume
  /\ open \subseteq Volume
  /\ mounted \subseteq Volume
  /\ placed \subseteq Volume
  /\ filled \subseteq Volume
  /\ keyed \subseteq Volume
  /\ disk \in [VM -> {"overlay", "rebased", "none", "symlink"}]
  /\ known \subseteq Image
  /\ count \in [Image -> Nat]
  /\ wlaMtx \in VM \cup {NoVM}
  /\ pc \in [VM -> {"idle", "queued"} \cup PrepareSteps \cup StartSteps \cup StopSteps]
  /\ vol \in [VM -> Volume]
  /\ fresh \in [VM -> BOOLEAN]
  /\ key \in [VM -> BOOLEAN]
  /\ dom \in [VM -> {"shutoff", "preparing", "prepared", "starting",
                     "running", "stopping", "failed"}]
  /\ attested \subseteq VM
  /\ stray \subseteq Image
  /\ faults \in 0 .. MaxFaults

Init ==
  /\ sparse = {}
  /\ open = {}
  /\ mounted = {}
  /\ placed = {}
  /\ filled = {}
  /\ keyed = {}
  /\ disk = [v \in VM |-> "overlay"]
  /\ known = {}
  /\ count = [i \in Image |-> 0]
  /\ wlaMtx = NoVM
  /\ pc = [v \in VM |-> "idle"]
  /\ vol = [v \in VM |-> v]
  /\ fresh = [v \in VM |-> FALSE]
  /\ key = [v \in VM |-> FALSE]
  /\ dom = [v \in VM |-> "shutoff"]
  /\ attested = {}
  /\ stray = {}
  /\ faults = 0

-----------------------------------------------------------------------------
(* What the handlers can see.                                              *)

(* The decrypted image file: in the volume if that is mounted, else the    *)
(* placeholder in the directory below it.                                  *)
FileAt(x) == IF x \in mounted THEN x \in filled ELSE x \in placed

(* os.Stat of the disk path follows the symlink.                           *)
DiskExists(v) == disk[v] # "none" /\ (disk[v] = "symlink" => FileAt(v))

(* The domain XML gives Start the backing file of the VM's disk, which is  *)
(* read through the symlink; the placeholder has none.                     *)
OnDecrypted(v) ==
  \/ disk[v] = "rebased"
  \/ disk[v] = "symlink" /\ v \in mounted \cap filled

-----------------------------------------------------------------------------
(* libvirt and the hooks.                                                  *)

Call(v, step, state) ==
  /\ pc[v] = "idle"
  /\ pc' = [pc EXCEPT ![v] = step]
  /\ dom' = [dom EXCEPT ![v] = state]
  /\ UNCHANGED <<volumes, disk, assoc, wlaMtx, locals, faults>>

CallPrepare(v) ==
  /\ dom[v] = "shutoff"
  /\ Call(v, "queued", "preparing")
  /\ attested' = attested \ {v}
  /\ UNCHANGED stray

CallStart(v) ==
  /\ dom[v] = "prepared"
  /\ Call(v, "verify", "starting")
  /\ UNCHANGED past

(* The stopped hook also ends a launch that a hook refused, and one that   *)
(* libvirt gave up before the start hook.                                  *)
CallStop(v) ==
  /\ dom[v] \in {"running", "prepared", "failed"}
  /\ Call(v, "queued", "stopping")
  /\ stray' = IF dom[v] = "running" THEN stray ELSE stray \cup {ImageOf[v]}
  /\ UNCHANGED attested

(* The VM and its directory are deleted and another one is deployed under  *)
(* its UUID.  A device mapper left open stays; the mount path goes if the  *)
(* handler of disk.info is there, and only while nothing is mounted on it. *)
Redeploy(v) ==
  /\ dom[v] = "shutoff"
  /\ disk' = [disk EXCEPT ![v] = "overlay"]
  /\ sparse' = sparse \ {v}
  /\ filled' = filled \ {v}
  /\ keyed' = keyed \ {v}
  /\ \/ UNCHANGED placed
     \/ v \notin mounted /\ placed' = placed \ {v}
  /\ UNCHANGED <<open, mounted, assoc, wlaMtx, pc, locals, dom, past, faults>>

-----------------------------------------------------------------------------
(* Control flow of the handlers.                                           *)

At(v, step) == pc[v] = step

Goto(v, step) == pc' = [pc EXCEPT ![v] = step] /\ UNCHANGED <<wlaMtx, dom>>

Outcome(v, ok) ==
  CASE dom[v] = "stopping"         -> "shutoff"
    [] dom[v] = "preparing" /\ ok  -> "prepared"
    [] dom[v] = "starting" /\ ok   -> "running"
    [] OTHER                       -> "failed"

(* The handler returns ok to the hook, and releases wlaMtx if it holds it. *)
Finish(v, ok) ==
  /\ pc' = [pc EXCEPT ![v] = "idle"]
  /\ wlaMtx' = IF wlaMtx = v THEN NoVM ELSE wlaMtx
  /\ dom' = [dom EXCEPT ![v] = Outcome(v, ok)]

(* Mutant: Prepare and Stop run without wlaMtx.                            *)
EnterUnlocked(v) ==
  /\ At(v, "queued")
  /\ pc' = [pc EXCEPT ![v] = IF dom[v] = "stopping" THEN "stat" ELSE "resolve"]
  /\ UNCHANGED <<volumes, disk, assoc, wlaMtx, locals, dom, past, faults>>

(* wlaMtx.Lock() of rpc Prepare and Stop.                                  *)
Enter(v) ==
  /\ At(v, "queued")
  /\ wlaMtx = NoVM
  /\ wlaMtx' = v
  /\ pc' = [pc EXCEPT ![v] = IF dom[v] = "stopping" THEN "stat" ELSE "resolve"]
  /\ UNCHANGED <<volumes, disk, assoc, locals, dom, past, faults>>

-----------------------------------------------------------------------------
(* Prepare: which image does the VM boot from, and is it encrypted?        *)

(* A disk of nova's has the image as its backing file: if that is not      *)
(* encrypted, there is nothing to prepare.  Any other disk leads to the    *)
(* decrypted path: through its backing file, or, as the domain XML has no  *)
(* path, through the association.                                          *)
Resolve(v) ==
  LET i == ImageOf[v]
      decrypted == (disk[v] = "rebased" \/ i \in known) /\ FileAt(i)
  IN
  /\ At(v, "resolve")
  /\ key' = [key EXCEPT ![v] = FALSE]
  /\ \/ disk[v] = "overlay" /\ i \notin Plain /\ Goto(v, "key")
     \/ disk[v] = "overlay" /\ i \in Plain /\ Finish(v, TRUE)
     \/ disk[v] \notin {"overlay", "none"} /\ decrypted /\ Goto(v, "recreate")
     \/ disk[v] # "overlay" /\ (disk[v] = "none" \/ ~decrypted) /\ Finish(v, FALSE)
  /\ UNCHANGED <<volumes, disk, assoc, vol, fresh, past, faults>>

(* The key that WLS has is unwrapped into a variable of the inner block,   *)
(* which hides the key that Prepare declared; then the image volume.       *)
FetchKey(v) ==
  /\ At(v, "key")
  /\ key' = [key EXCEPT ![v] = TRUE]
  /\ vol' = [vol EXCEPT ![v] = ImageOf[v]]
  /\ Goto(v, "create")
  /\ UNCHANGED <<volumes, disk, assoc, fresh, past, faults>>

(* Mutants: "already exists" is tolerated by going on with the mount, or   *)
(* taken for a complete volume of the VM, too.                             *)
VolumeReused(v) ==
  /\ At(v, "create")
  /\ vol[v] \in open
  /\ Goto(v, "placeholder")
  /\ UNCHANGED <<volumes, disk, assoc, locals, past, faults>>

VolumeTrusted(v) ==
  /\ At(v, "create")
  /\ vol[v] \in open
  /\ IF vol[v] = v THEN Finish(v, TRUE) ELSE Goto(v, "info")
  /\ UNCHANGED <<volumes, disk, assoc, locals, past, faults>>

(* imageVolumeManager is done when the device mapper exists already,       *)
(* vmVolumeManager fails.                                                  *)
VolumeExists(v) ==
  /\ At(v, "create")
  /\ vol[v] \in open
  /\ IF vol[v] = v THEN Finish(v, FALSE) ELSE Goto(v, "info")
  /\ UNCHANGED <<volumes, disk, assoc, locals, past, faults>>

(* vml.CreateVolume makes and formats the sparse file if there is none,    *)
(* with the key it is given, and opens it.                                 *)
CreateVolume(v) ==
  /\ At(v, "create")
  /\ vol[v] \notin open
  /\ fresh' = [fresh EXCEPT ![v] = vol[v] \notin sparse]
  /\ sparse' = sparse \cup {vol[v]}
  /\ keyed' = IF vol[v] \notin sparse /\ key[v] THEN keyed \cup {vol[v]} ELSE keyed
  /\ Goto(v, "open")
  /\ UNCHANGED <<open, mounted, placed, filled, disk, assoc, vol, key, past, faults>>

OpenVolume(v) ==
  /\ At(v, "open")
  /\ open' = open \cup {vol[v]}
  /\ Goto(v, "placeholder")
  /\ UNCHANGED <<sparse, mounted, placed, filled, keyed, disk, assoc, locals, past, faults>>

(* checkMountPathExistsAndMountVolume truncates the file of the name of    *)
(* the placeholder, wherever the mount point leads, and then mounts.       *)
PlacePlaceholder(v) ==
  /\ At(v, "placeholder")
  /\ IF vol[v] \in mounted
     THEN filled' = filled \ {vol[v]} /\ UNCHANGED placed
     ELSE placed' = placed \cup {vol[v]} /\ UNCHANGED filled
  /\ Goto(v, "mount")
  /\ UNCHANGED <<sparse, open, mounted, keyed, disk, assoc, locals, past, faults>>

(* A sparse file that existed is taken to hold its data.                   *)
MountVolume(v) ==
  /\ At(v, "mount")
  /\ mounted' = mounted \cup {vol[v]}
  /\ IF fresh[v] THEN Goto(v, "fill")
     ELSE IF vol[v] = v THEN Finish(v, TRUE) ELSE Goto(v, "info")
  /\ UNCHANGED <<sparse, open, placed, filled, keyed, disk, assoc, locals, past, faults>>

(* Mutant: Prepare goes on when the copy failed.                           *)
FillVolumeUnchecked(v) ==
  /\ At(v, "fill")
  /\ filled' \in {filled, filled \cup {vol[v]}}
  /\ Goto(v, IF vol[v] = v THEN "remove" ELSE "info")
  /\ UNCHANGED <<sparse, open, mounted, placed, keyed, disk, assoc, locals, past, faults>>

(* Decrypt the image into its volume, or copy the VM's disk into its own.  *)
FillVolume(v) ==
  /\ At(v, "fill")
  /\ filled' = filled \cup {vol[v]}
  /\ fresh' = [fresh EXCEPT ![v] = FALSE]
  /\ Goto(v, IF vol[v] = v THEN "remove" ELSE "info")
  /\ UNCHANGED <<sparse, open, mounted, placed, keyed, disk, assoc, vol, key, past, faults>>

(* qemu-img info on the decrypted image, the last step of the inner block: *)
(* the key in scope is Prepare's again.                                    *)
QemuImgInfo(v) ==
  /\ At(v, "info")
  /\ key' = [key EXCEPT ![v] = FALSE]
  /\ IF FileAt(ImageOf[v]) THEN Goto(v, "recreate") ELSE Finish(v, FALSE)
  /\ UNCHANGED <<volumes, disk, assoc, vol, fresh, past, faults>>

(* The disk is created anew on top of the decrypted image, unless it is    *)
(* the symlink of a VM in shutoff.  A disk that an earlier Prepare rebased *)
(* came here without decryptedImagePath and vmBackFileFormat, and qemu-img *)
(* refuses to create a disk on an empty backing file.                      *)
RecreateDisk(v) ==
  /\ At(v, "recreate")
  /\ \/ /\ disk[v] = "symlink"
        /\ vol' = [vol EXCEPT ![v] = v]
        /\ Goto(v, "create")
        /\ UNCHANGED disk
     \/ /\ disk[v] = "overlay"
        /\ disk' = [disk EXCEPT ![v] = "rebased"]
        /\ Goto(v, "resize")
        /\ UNCHANGED vol
     \/ /\ disk[v] = "rebased"
        /\ Finish(v, FALSE)
        /\ UNCHANGED <<disk, vol>>
  /\ UNCHANGED <<volumes, assoc, fresh, key, past, faults>>

ResizeDisk(v) ==
  /\ At(v, "resize")
  /\ vol' = [vol EXCEPT ![v] = v]
  /\ Goto(v, "create")
  /\ UNCHANGED <<volumes, disk, assoc, fresh, key, past, faults>>

RemoveDisk(v) ==
  /\ At(v, "remove")
  /\ disk' = [disk EXCEPT ![v] = "none"]
  /\ Goto(v, "symlink")
  /\ UNCHANGED <<volumes, assoc, locals, past, faults>>

SymlinkDisk(v) ==
  /\ At(v, "symlink")
  /\ disk' = [disk EXCEPT ![v] = "symlink"]
  /\ Goto(v, "watch")
  /\ UNCHANGED <<volumes, assoc, locals, past, faults>>

(* Ownership is set, the handler of disk.info registered.                  *)
WatchDisk(v) ==
  /\ At(v, "watch")
  /\ Finish(v, TRUE)
  /\ UNCHANGED <<volumes, disk, assoc, locals, past, faults>>

-----------------------------------------------------------------------------
(* Start, without wlaMtx.                                                  *)

(* Mutant: the backing file of a disk behind a symlink is not found.       *)
VerifyDiskOnly(v) ==
  /\ At(v, "verify")
  /\ IF disk[v] = "rebased" THEN Goto(v, "attest") ELSE Finish(v, TRUE)
  /\ UNCHANGED <<volumes, disk, assoc, locals, past, faults>>

(* If the disk is on a file below the directory of the decrypted images,   *)
(* the flavor is fetched from WLS, the manifest of the VM made; if not,    *)
(* the VM goes through.                                                    *)
Verify(v) ==
  /\ At(v, "verify")
  /\ IF OnDecrypted(v) THEN Goto(v, "attest") ELSE Finish(v, TRUE)
  /\ UNCHANGED <<volumes, disk, assoc, locals, past, faults>>

(* The trust report is made, signed by the TPM and accepted by WLS.        *)
Attest(v) ==
  /\ At(v, "attest")
  /\ attested' = attested \cup {v}
  /\ Goto(v, "count")
  /\ UNCHANGED <<volumes, disk, assoc, locals, stray, faults>>

(* Mutant: an existing entry is overwritten by a new one.                  *)
CountVMOverwrites(v) ==
  /\ At(v, "count")
  /\ known' = known \cup {ImageOf[v]}
  /\ count' = [count EXCEPT ![ImageOf[v]] = 1]
  /\ Goto(v, "saved")
  /\ UNCHANGED <<volumes, disk, locals, past, faults>>

CountVM(v) ==
  /\ At(v, "count")
  /\ known' = known \cup {ImageOf[v]}
  /\ count' = [count EXCEPT ![ImageOf[v]] = @ + 1]
  /\ Goto(v, "saved")
  /\ UNCHANGED <<volumes, disk, locals, past, faults>>

Started(v) ==
  /\ At(v, "saved")
  /\ Finish(v, TRUE)
  /\ UNCHANGED <<volumes, disk, assoc, locals, past, faults>>

-----------------------------------------------------------------------------
(* Stop.                                                                   *)

(* Mutant: the volume is closed without being unmounted.                   *)
StatDiskClosesOnly(v) ==
  /\ At(v, "stat")
  /\ vol' = [vol EXCEPT ![v] = v]
  /\ IF DiskExists(v)
     THEN Goto(v, IF v \in open THEN "close" ELSE "delete")
     ELSE Finish(v, FALSE)
  /\ UNCHANGED <<volumes, disk, assoc, fresh, key, past, faults>>

StatDisk(v) ==
  /\ At(v, "stat")
  /\ vol' = [vol EXCEPT ![v] = v]
  /\ IF DiskExists(v)
     THEN Goto(v, IF v \in open THEN "unmount" ELSE "delete")
     ELSE Finish(v, FALSE)
  /\ UNCHANGED <<volumes, disk, assoc, fresh, key, past, faults>>

(* The VM's volume is unmounted by its mount point.  The image is not: its *)
(* path in the association is that of the decrypted file, of which umount  *)
(* knows no mount, and Stop only logs the error.                           *)
Unmount(v) ==
  /\ At(v, "unmount")
  /\ mounted' = IF vol[v] = v THEN mounted \ {v} ELSE mounted
  /\ Goto(v, "close")
  /\ UNCHANGED <<sparse, open, placed, filled, keyed, disk, assoc, locals, past, faults>>

(* A mounted volume cannot be closed.  The VM's comes before the image's,  *)
(* with which Stop ends.                                                   *)
DeleteVolume(v) ==
  /\ At(v, "close")
  /\ open' = IF vol[v] \in mounted THEN open ELSE open \ {vol[v]}
  /\ vol' = [vol EXCEPT ![v] = v]
  /\ IF vol[v] = v THEN Goto(v, "delete") ELSE Finish(v, TRUE)
  /\ UNCHANGED <<sparse, mounted, placed, filled, keyed, disk, assoc, fresh, key, past, faults>>

(* Mutant: VMCount is not checked.                                         *)
UncountVMUnchecked(v) ==
  /\ At(v, "delete")
  /\ count' = [count EXCEPT ![ImageOf[v]] = @ - 1]
  /\ Finish(v, TRUE)
  /\ UNCHANGED <<volumes, disk, known, locals, past, faults>>

(* iAssoc.Delete(): without an entry the image counts as not encrypted.    *)
UncountVM(v) ==
  LET i == ImageOf[v] IN
  /\ At(v, "delete")
  /\ count[i] > 0
  /\ count' = [count EXCEPT ![i] = @ - 1]
  /\ vol' = IF count[i] = 1 THEN [vol EXCEPT ![v] = i] ELSE vol
  /\ IF count[i] = 1 THEN Goto(v, "unmount") ELSE Finish(v, TRUE)
  /\ UNCHANGED <<volumes, disk, known, fresh, key, past, faults>>

NotCounted(v) ==
  /\ At(v, "delete")
  /\ count[ImageOf[v]] = 0
  /\ Finish(v, TRUE)
  /\ UNCHANGED <<volumes, disk, assoc, locals, past, faults>>

-----------------------------------------------------------------------------
(* What goes wrong.                                                        *)

Refuse(v, step) ==
  /\ At(v, step)
  /\ Finish(v, FALSE)
  /\ UNCHANGED <<volumes, disk, assoc, locals, past, faults>>

(* WLS has no key for this host and image, or the flavor of the image asks *)
(* for none, and qemu-img refuses the empty format of its decrypted file;  *)
(* by the time of Start, there is no flavor (not found is an empty one);   *)
(* or WLS does not accept the trust report.                                *)
NoKey(v) == Refuse(v, "key")
NoFlavor(v) == OnDecrypted(v) /\ Refuse(v, "verify")
ReportRefused(v) == Refuse(v, "attest")

Fault == faults < MaxFaults /\ faults' = faults + 1 /\ UNCHANGED past

(* A step fails without its effect and the handler returns false; nothing  *)
(* done before is undone.                                                  *)
Fail(v) ==
  /\ Fault
  /\ pc[v] \in PrepareSteps \cup {"verify", "attest", "saved", "stat"}
  /\ Finish(v, FALSE)
  /\ UNCHANGED <<volumes, disk, assoc, locals>>

(* Stop logs a failing unmount or close and goes on.                       *)
FailLogged(v) ==
  /\ Fault
  /\ \/ At(v, "unmount") /\ Goto(v, "close")
     \/ At(v, "close") /\ vol[v] = v /\ Goto(v, "delete")
     \/ At(v, "close") /\ vol[v] # v /\ Finish(v, TRUE)
  /\ UNCHANGED <<volumes, disk, assoc, locals>>

(* The stopped hook finds no daemon.                                       *)
Unheard(v) ==
  /\ Fault
  /\ pc[v] = "idle"
  /\ dom[v] \in {"running", "prepared", "failed"}
  /\ dom' = [dom EXCEPT ![v] = "shutoff"]
  /\ UNCHANGED <<volumes, disk, assoc, wlaMtx, pc, locals>>

(* The daemon dies and is restarted: the hooks of all calls in flight      *)
(* fail.  The file keeps the association (ImageVMAssociation).             *)
Crash ==
  /\ Fault
  /\ \E v \in VM : pc[v] # "idle"
  /\ pc' = [v \in VM |-> "idle"]
  /\ wlaMtx' = NoVM
  /\ dom' = [v \in VM |-> IF pc[v] = "idle" THEN dom[v] ELSE Outcome(v, FALSE)]
  /\ UNCHANGED <<volumes, disk, assoc, locals>>

(* The host reboots: device mappers, mounts and the run directory with the *)
(* association file are gone; sparse files, disks and what lies below the  *)
(* mount points stay.  No stopped hook ran.                                *)
Reboot ==
  /\ Fault
  /\ pc' = [v \in VM |-> "idle"]
  /\ wlaMtx' = NoVM
  /\ open' = {}
  /\ mounted' = {}
  /\ known' = {}
  /\ count' = [i \in Image |-> 0]
  /\ dom' = [v \in VM |-> "shutoff"]
  /\ UNCHANGED <<sparse, placed, filled, keyed, disk, locals>>

-----------------------------------------------------------------------------

Hook(v) == CallPrepare(v) \/ CallStart(v) \/ CallStop(v) \/ Redeploy(v)

Prepare(v) ==
  \/ Resolve(v) \/ FetchKey(v)
  \/ VolumeExists(v) \/ CreateVolume(v) \/ OpenVolume(v)
  \/ PlacePlaceholder(v) \/ MountVolume(v) \/ FillVolume(v)
  \/ QemuImgInfo(v) \/ RecreateDisk(v) \/ ResizeDisk(v)
  \/ RemoveDisk(v) \/ SymlinkDisk(v) \/ WatchDisk(v)

Start(v) == Verify(v) \/ Attest(v) \/ CountVM(v) \/ Started(v)

Stop(v) ==
  StatDisk(v) \/ Unmount(v) \/ DeleteVolume(v) \/ UncountVM(v) \/ NotCounted(v)

Next ==
  \/ \E v \in VM : \/ Hook(v) \/ Enter(v)
                   \/ Prepare(v) \/ Start(v) \/ Stop(v)
                   \/ NoKey(v) \/ NoFlavor(v) \/ ReportRefused(v)
                   \/ Fail(v) \/ FailLogged(v) \/ Unheard(v)
  \/ Crash
  \/ Reboot

Spec == Init /\ [][Next]_vars

-----------------------------------------------------------------------------
(* Properties.                                                             *)

(* The VMs of encrypted images.                                            *)
Secured == {v \in VM : ImageOf[v] \notin Plain}

(* Nothing has failed yet.                                                 *)
Faultless == faults = 0

(* A running VM reads its base image from the mounted, decrypted image     *)
(* volume: what Prepare leaves is complete, although it takes an image     *)
(* whose device mapper exists for complete (prepare.go:130-223, 381-383).  *)
RunningHasImage ==
  \A v \in Secured : dom[v] = "running" => ImageOf[v] \in open \cap mounted \cap filled

(* Until something fails, Prepare never lets a VM run without its image,   *)
(* and Stop of another VM never takes it away (stop.go:75-113).            *)
ImageStays == Faultless => RunningHasImage

(* Whatever fails, a running VM of an encrypted image writes to the        *)
(* dm-crypt volume of its own, through the symlink at its disk path, and   *)
(* that holds its disk: no retry, relaunch or redeployment lets it run     *)
(* from the file beside the volume or from the placeholder                 *)
(* (prepare.go:292-345).                                                   *)
RunningDiskInVolume ==
  \A v \in Secured :
    dom[v] = "running" => disk[v] = "symlink" /\ v \in open \cap mounted \cap filled

(* The dm-crypt volume of a running VM is locked with the key that was     *)
(* unwrapped for its launch: "vm volume is encrypted" (stop.go:60).        *)
RunningDiskKeyed == \A v \in Secured : dom[v] = "running" => v \in keyed

(* Whatever fails, a VM runs attested in this launch if, and only if, its  *)
(* image is encrypted: Start looks at the disk that Prepare left, not at   *)
(* the image (start.go:55-99).                                             *)
RunningAttested ==
  \A v \in VM : dom[v] = "running" => (v \in attested <=> v \in Secured)

(* Until something fails, the volume of a VM that Stop brought to shutoff  *)
(* is closed (stop.go:60-73).                                              *)
OffVolumeClosed == Faultless => \A v \in VM : dom[v] = "shutoff" => v \notin open

(* Until something fails, VMCount between calls is the number of running   *)
(* VMs of the image, all the way through Prepare, Start and Stop, and at   *)
(* most that once a VM was stopped that did not run and took another one   *)
(* off (stop.go:79).                                                       *)
CountMatchesRunning ==
  Faultless /\ (\A v \in VM : pc[v] = "idle") =>
    \A i \in Image \ Plain :
      LET n == Cardinality({v \in VM : ImageOf[v] = i /\ dom[v] = "running"})
      IN  count[i] <= n /\ (i \notin stray => count[i] = n)

(* Whatever fails, a VM's disk file is only removed, or replaced by the    *)
(* symlink, once its contents are in the VM's volume (prepare.go:324-345). *)
ChangeDiskKept ==
  \A v \in VM : disk[v] \in {"none", "symlink"} => v \in filled

(* Whatever fails, a decrypted image or a change disk stays in its volume  *)
(* until the volume is deleted with its VM: the placeholder, which is      *)
(* created with O_TRUNC under the name of the real file, is only created   *)
(* while the volume is not mounted (prepare.go:513-541).                   *)
DataStays == [][\A x \in filled : x \in filled' \/ x \notin sparse']_vars
=============================================================================
