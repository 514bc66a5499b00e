-------------------- MODULE VirtualMachineFaultlessProofs --------------------
(***************************************************************************)
(* Theorems about VirtualMachine until a step fails: the image stays as    *)
(* long as a VM is on it, Stop closes the volume of its VM, and VMCount is *)
(* right.  For any VMs and images, launches and stops in any order, and    *)
(* any answers of WLS and of the TPM.                                      *)
(***************************************************************************)
EXTENDS VirtualMachineRunningProofs, FiniteSetTheorems

(* What the volume of an image lacks, the holder of wlaMtx is about to     *)
(* give it.                                                                *)
Holder(i, steps) == wlaMtx \in VM /\ OnImage(wlaMtx, steps) /\ ImageOf[wlaMtx] = i

ImageWhole(i) ==
  /\ i \in open => i \in mounted \/ Holder(i, {"placeholder", "mount"})
  /\ i \in mounted => i \in filled \/ Holder(i, {"fill"})
  /\ i \in sparse => i \in filled \/ ( /\ Holder(i, {"open", "placeholder", "mount", "fill"})
                                      /\ fresh[wlaMtx])

(* The image is there from the moment a Prepare is done with it, and as    *)
(* long as a disk or the association leads to it.                          *)
Whole(i) == i \in open \cap mounted \cap filled

OnWhole(v) == disk[v] # "overlay" \/ pc[v] \in {"info", "recreate"} => Whole(ImageOf[v])

Images ==
  /\ \A i \in Image : ImageWhole(i)
  /\ \A v \in VM : OnWhole(v)
  /\ \A i \in known : Whole(i)

(* A VM's disk is only in between while its Prepare is at work on it, and  *)
(* the symlink never leads nowhere.                                        *)
DiskStage(v) ==
  /\ disk[v] \in {"rebased", "none"} =>
       pc[v] \in {"resize", "remove", "symlink"} \/ OnOwn(v, ImageSteps)
  /\ \/ disk[v] \in {"none", "symlink"} \/ pc[v] \in {"remove", "symlink"}
     \/ OnOwn(v, {"mount", "fill"})
     => v \in placed

(* Its volume is closed from one launch to the next.                       *)
ClosedStage(v) ==
  /\ \/ dom[v] = "shutoff"
     \/ dom[v] = "preparing" /\ pc[v] \in {"queued", "resolve", "key", "info", "recreate"}
     \/ OnImage(v, ImageSteps \cup {"unmount", "close"}) \/ OnOwn(v, {"create", "open"})
     \/ pc[v] \in {"resize", "delete"}
     => v \notin open
  /\ OnOwn(v, {"close"}) => v \notin mounted

Disks == \A v \in VM : DiskStage(v) /\ ClosedStage(v)

(* The VMs that Start has counted, or whose Stop may take one off.         *)
Counted(v) ==
  \/ dom[v] = "running" \/ pc[v] = "saved"
  \/ dom[v] = "stopping" /\ ~ OnImage(v, {"unmount", "close"})

CountedOf(i) == {v \in VM : ImageOf[v] = i /\ Counted(v)}

(* As long as every Stop was of a VM that ran, VMCount is their number.    *)
CountOf(i) ==
  LET n == Cardinality(CountedOf(i))
  IN  IsFiniteSet(CountedOf(i)) /\ count[i] <= n /\ (i \notin stray => count[i] = n)

Counts == \A i \in Image \ Plain : CountOf(i)

FaultlessInv == RunInv /\ Images /\ Disks /\ Counts

(* The inductive invariant: a step that fails ends what is promised.       *)
UntilFault == RunInv /\ (Faultless => FaultlessInv)

-----------------------------------------------------------------------------
(* Before the first failure no step failed, and nothing crashed.           *)
LEMMA NoFaults ==
  ASSUME TypeOK, [Next]_vars, Faultless'
  PROVE  Faultless /\ ((\E v \in VM : Action(v)) \/ UNCHANGED vars)
<1>1. faults \in Nat /\ ~ Fault
  BY DEF Faultless, TypeOK, Fault
<1>2. (\E v \in VM : Action(v)) \/ UNCHANGED vars
  BY <1>1 DEF Next, Action, Refused, Fail, FailLogged, Unheard, Crash, Reboot
<1>3. faults' = faults
  <2>1. ASSUME NEW v \in VM, Hook(v) \/ Enter(v) \/ Refused(v) PROVE faults' = faults
    BY <2>1 DEF Hook, CallPrepare, CallStart, CallStop, Call, Redeploy, Enter, Refused,
       NoKey, NoFlavor, ReportRefused, Refuse
  <2>2. ASSUME NEW v \in VM, Prepare(v) PROVE faults' = faults
    BY <2>2 DEF Prepare, Resolve, FetchKey, VolumeExists, CreateVolume, OpenVolume,
       PlacePlaceholder, MountVolume, FillVolume, QemuImgInfo, RecreateDisk, ResizeDisk,
       RemoveDisk, SymlinkDisk, WatchDisk
  <2>3. ASSUME NEW v \in VM, Start(v) \/ Stop(v) PROVE faults' = faults
    BY <2>3 DEF Start, Verify, Attest, CountVM, Started, Stop, StatDisk, Unmount,
       DeleteVolume, UncountVM, NotCounted
  <2> QED
    BY <1>2, <2>1, <2>2, <2>3 DEF Action, vars
<1> QED
  BY <1>2, <1>3 DEF Faultless

(* What every step of a VM may use of the invariant.                       *)
LEMMA Facts ==
  ASSUME RunInv, NEW v \in VM
  PROVE  /\ Stage(v) /\ Phase(v)
         /\ v \in Secured <=> ImageOf[v] \notin Plain
         /\ disk[v] \in {"none", "symlink"} => v \in filled
         /\ pc[v] = "open" => vol[v] \notin open
         /\ pc[v] = "placeholder" => vol[v] \notin mounted
         /\ pc[v] \in {"placeholder", "mount"} => vol[v] \in open
         /\ pc[v] \in {"open", "placeholder", "mount", "fill"} => vol[v] \in sparse
         /\ pc[v] = "fill" => vol[v] \in open \cap mounted
         /\ mounted \subseteq open /\ filled \subseteq sparse
         /\ pc[v] \in PrepareSteps \cup StopSteps => wlaMtx = v
BY DEF RunInv, KeptInv, Kept, ChangeDiskKept, Opening, MountedOpen, Locked, Made, WorksOn,
   Stage, Secured

-----------------------------------------------------------------------------
(* Images.                                                                 *)

(* The holder of wlaMtx keeps it while others take steps.                  *)
LEMMA HolderStays ==
  ASSUME RunInv, NEW v \in VM, Action(v), wlaMtx \in VM \ {v}
  PROVE  wlaMtx' = wlaMtx
<1> USE DEF Goto, Finish
<1>1. NoVM \notin VM
  BY NamesAssumption
<1>2. CASE Hook(v) \/ Enter(v)
  BY <1>1, <1>2 DEF Hook, CallPrepare, CallStart, CallStop, Call, Redeploy, Enter
<1>3. CASE Prepare(v)
  BY <1>3 DEF Prepare, Resolve, FetchKey, VolumeExists, CreateVolume, OpenVolume,
     PlacePlaceholder, MountVolume, FillVolume, QemuImgInfo, RecreateDisk, ResizeDisk,
     RemoveDisk, SymlinkDisk, WatchDisk
<1>4. CASE Start(v)
  BY <1>4 DEF Start, Verify, Attest, CountVM, Started
<1>5. CASE Stop(v)
  BY <1>5 DEF Stop, StatDisk, Unmount, DeleteVolume, UncountVM, NotCounted
<1>6. CASE Refused(v)
  BY <1>6 DEF Refused, NoKey, NoFlavor, ReportRefused, Refuse
<1> QED
  BY <1>2, <1>3, <1>4, <1>5, <1>6 DEF Action

(* A whole image stays whole: Stop never unmounts it, and what is mounted  *)
(* is not closed.                                                          *)
LEMMA StaysWhole ==
  ASSUME RunInv, NEW v \in VM, Action(v), NEW i \in Image, Whole(i)
  PROVE  Whole(i)'
<1> USE DEF Whole, volumes, At
<1>0. i # v /\ (pc[v] = "placeholder" => vol[v] \notin mounted)
  BY Types, Facts DEF RunInv
<1>1. CASE Hook(v) \/ Enter(v)
  BY <1>0, <1>1 DEF Hook, CallPrepare, CallStart, CallStop, Call, Redeploy, Enter
<1>2. CASE Prepare(v)
  <2>1. CASE PlacePlaceholder(v)
    BY <1>0, <2>1 DEF PlacePlaceholder
  <2>2. CASE ~PlacePlaceholder(v)
    BY <1>0, <1>2, <2>2 DEF Prepare, Resolve, FetchKey, VolumeExists, CreateVolume, OpenVolume,
       MountVolume, FillVolume, QemuImgInfo, RecreateDisk, ResizeDisk, RemoveDisk, SymlinkDisk,
       WatchDisk
  <2> QED
    BY <2>1, <2>2
<1>3. CASE Start(v)
  BY <1>3 DEF Start, Verify, Attest, CountVM, Started
<1>4. CASE Stop(v)
  BY <1>0, <1>4 DEF Stop, StatDisk, Unmount, DeleteVolume, UncountVM, NotCounted
<1>5. CASE Refused(v)
  BY <1>5 DEF Refused, NoKey, NoFlavor, ReportRefused, Refuse
<1> QED
  BY <1>1, <1>2, <1>3, <1>4, <1>5 DEF Action

(* The volume of an image that the VM does not boot from.                  *)
LEMMA OtherImage ==
  ASSUME RunInv, NEW v \in VM, Action(v), NEW i \in Image, ImageWhole(i),
         i # ImageOf[v] \/ pc[v] \notin PrepareSteps \cup StopSteps
  PROVE  ImageWhole(i)'
<1>1. SameVolume(i)
  <2>1. i \in Volume /\ i # v
    BY Types DEF RunInv, Volume
  <2> QED
    BY <2>1, Frame DEF RunInv, Step
<1>2. ASSUME NEW steps, steps \subseteq ImageSteps, Holder(i, steps)
      PROVE  Holder(i, steps)' /\ fresh'[wlaMtx'] = fresh[wlaMtx]
  <2>1. wlaMtx \in VM \ {v}
    BY <1>2 DEF Holder, OnImage, PrepareSteps
  <2>2. SameLocals(wlaMtx) /\ wlaMtx' = wlaMtx
    BY <2>1, HolderStays, Frame DEF RunInv, Step
  <2> QED
    BY <1>2, <2>1, <2>2 DEF Holder, OnImage, SameLocals
<1>3. /\ Holder(i, {"placeholder", "mount"}) => Holder(i, {"placeholder", "mount"})'
      /\ Holder(i, {"fill"}) => Holder(i, {"fill"})'
      /\ Holder(i, {"open", "placeholder", "mount", "fill"}) =>
           /\ Holder(i, {"open", "placeholder", "mount", "fill"})'
           /\ fresh'[wlaMtx'] = fresh[wlaMtx]
  BY <1>2 DEF ImageSteps
<1> QED
  BY <1>1, <1>3 DEF ImageWhole, SameVolume

(* The volume of the image that a handler has in hand, under wlaMtx.       *)
LEMMA OwnImage ==
  ASSUME RunInv, NEW v \in VM, Action(v), ImageWhole(ImageOf[v]),
         pc[v] \in PrepareSteps \cup StopSteps
  PROVE  ImageWhole(ImageOf[v])'
<1> DEFINE i == ImageOf[v]
<1> USE DEF At, Goto, Finish, Holder, OnImage, ImageWhole, volumes, locals
<1>0. /\ pc \in [VM -> {"idle", "queued"} \cup PrepareSteps \cup StartSteps \cup StopSteps]
      /\ vol \in [VM -> Volume] /\ fresh \in [VM -> BOOLEAN]
      /\ vol[v] \in {v, i} /\ v # i /\ wlaMtx = v
  BY Types, Facts DEF RunInv
<1>1. /\ pc[v] = "placeholder" => vol[v] \notin mounted
      /\ pc[v] \in {"placeholder", "mount"} => vol[v] \in open
      /\ pc[v] \in {"open", "placeholder", "mount", "fill"} => vol[v] \in sparse
      /\ pc[v] = "fill" => vol[v] \in open \cap mounted
      /\ mounted \subseteq open /\ filled \subseteq sparse
  BY Facts
<1>2. ~Hook(v) /\ ~Enter(v) /\ ~Start(v)
  <2>1. pc[v] \notin {"idle", "queued", "verify", "attest", "count", "saved"}
    BY DEF PrepareSteps, ImageSteps, StopSteps
  <2>2. dom[v] # "shutoff"
    BY <2>1, Facts DEF Phase
  <2> QED
    BY <2>1, <2>2 DEF Hook, CallPrepare, CallStart, CallStop, Call, Redeploy, Enter, Start,
       Verify, Attest, CountVM, Started
<1>3. CASE Resolve(v) \/ FetchKey(v) \/ VolumeExists(v) \/ QemuImgInfo(v)
  BY <1>0, <1>3 DEF Resolve, FetchKey, VolumeExists, QemuImgInfo
<1>4. CASE CreateVolume(v)
  BY <1>0, <1>1, <1>4 DEF CreateVolume
<1>5. CASE OpenVolume(v)
  BY <1>0, <1>1, <1>5 DEF OpenVolume
<1>6. CASE PlacePlaceholder(v)
  BY <1>0, <1>1, <1>6 DEF PlacePlaceholder
<1>7. CASE MountVolume(v)
  <2>1. CASE fresh[v]
    BY <1>0, <1>1, <1>7, <2>1 DEF MountVolume
  <2>2. CASE ~fresh[v] /\ vol[v] = i
    <3>1. i \in filled
      BY <1>0, <1>1, <1>7, <2>2 DEF MountVolume
    <3> QED
      BY <1>0, <1>1, <1>7, <2>2, <3>1 DEF MountVolume
  <2>3. CASE ~fresh[v] /\ vol[v] = v
    BY <1>0, <1>1, <1>7, <2>3 DEF MountVolume
  <2> QED
    BY <1>0, <2>1, <2>2, <2>3
<1>8. CASE FillVolume(v)
  BY <1>0, <1>1, <1>8 DEF FillVolume
<1>9. CASE RecreateDisk(v) \/ ResizeDisk(v) \/ RemoveDisk(v) \/ SymlinkDisk(v) \/ WatchDisk(v)
  BY <1>0, <1>9 DEF RecreateDisk, ResizeDisk, RemoveDisk, SymlinkDisk, WatchDisk
<1>10. CASE Stop(v)
  BY <1>0, <1>1, <1>10 DEF Stop, StatDisk, Unmount, DeleteVolume, UncountVM, NotCounted
<1>11. CASE Refused(v)
  BY <1>0, <1>11 DEF Refused, NoKey, NoFlavor, ReportRefused, Refuse
<1> QED
  BY <1>2, <1>3, <1>4, <1>5, <1>6, <1>7, <1>8, <1>9, <1>10, <1>11 DEF Action, Prepare

(* A handler that leaves the image behind leaves it whole.                 *)
LEMMA OwnWhole ==
  ASSUME RunInv, NEW v \in VM, Action(v), ImageWhole(ImageOf[v]), OnWhole(v)
  PROVE  OnWhole(v)'
<1> DEFINE i == ImageOf[v]
<1> USE DEF At, Goto, Finish, OnWhole, Whole, locals
<1>0. /\ pc \in [VM -> {"idle", "queued"} \cup PrepareSteps \cup StartSteps \cup StopSteps]
      /\ disk \in [VM -> {"overlay", "rebased", "none", "symlink"}]
      /\ vol[v] \in {v, i} /\ v # i /\ i \in Image
  BY Types DEF RunInv
<1>1. Whole(i) => Whole(i)'
  BY <1>0, StaysWhole
<1>2. CASE Hook(v) \/ Enter(v)
  BY <1>0, <1>1, <1>2 DEF Hook, CallPrepare, CallStart, CallStop, Call, Redeploy, Enter
<1>3. CASE Resolve(v) \/ FetchKey(v) \/ CreateVolume(v) \/ OpenVolume(v)
  BY <1>0, <1>1, <1>3 DEF Resolve, FetchKey, CreateVolume, OpenVolume
<1>4. CASE VolumeExists(v)
  <2>1. vol[v] = i => Whole(i)
    BY <1>4, Facts DEF VolumeExists, ImageWhole, Holder, OnImage, PrepareSteps, ImageSteps
  <2> QED
    BY <1>0, <1>1, <1>4, <2>1 DEF VolumeExists
<1>5. CASE PlacePlaceholder(v)
  BY <1>0, <1>1, <1>5 DEF PlacePlaceholder
<1>6. CASE MountVolume(v)
  <2>1. wlaMtx = v /\ vol[v] \in open /\ vol[v] \in sparse
    BY <1>6, Facts DEF MountVolume, PrepareSteps, ImageSteps
  <2>2. vol[v] = i /\ ~fresh[v] => i \in filled
    BY <2>1 DEF ImageWhole
  <2>3. vol[v] = i /\ ~fresh[v] => Whole(i)'
    BY <1>6, <2>1, <2>2 DEF MountVolume
  <2> QED
    BY <1>0, <1>1, <1>6, <2>3 DEF MountVolume
<1>7. CASE FillVolume(v)
  <2>1. vol[v] \in open \cap mounted
    BY <1>7, Facts DEF FillVolume
  <2>2. vol[v] = i => Whole(i)'
    BY <1>7, <2>1 DEF FillVolume
  <2> QED
    BY <1>0, <1>1, <1>7, <2>2 DEF FillVolume
<1>8. CASE QemuImgInfo(v) \/ RecreateDisk(v) \/ ResizeDisk(v)
  BY <1>0, <1>1, <1>8 DEF QemuImgInfo, RecreateDisk, ResizeDisk
<1>9. CASE RemoveDisk(v) \/ SymlinkDisk(v) \/ WatchDisk(v)
  <2>1. disk[v] # "overlay"
    BY <1>9, Facts DEF RemoveDisk, SymlinkDisk, WatchDisk, Stage, LaunchStage, Ready, PlainStage,
       StopSteps
  <2>2. Whole(i)'
    BY <1>1, <2>1
  <2> QED
    BY <2>2
<1>10. CASE Start(v)
  BY <1>0, <1>1, <1>10 DEF Start, Verify, Attest, CountVM, Started
<1>11. CASE Stop(v)
  BY <1>0, <1>1, <1>11 DEF Stop, StatDisk, Unmount, DeleteVolume, UncountVM, NotCounted
<1>12. CASE Refused(v)
  BY <1>0, <1>1, <1>12 DEF Refused, NoKey, NoFlavor, ReportRefused, Refuse
<1> QED
  BY <1>2, <1>3, <1>4, <1>5, <1>6, <1>7, <1>8, <1>9, <1>10, <1>11, <1>12 DEF Action, Prepare

(* Every step keeps the images: only a VM whose disk is on the image is    *)
(* counted.                                                                *)
LEMMA ImagesKept ==
  ASSUME RunInv, Images, NEW v \in VM, Action(v)
  PROVE  Images'
<1>1. ASSUME NEW i \in Image PROVE ImageWhole(i)'
  BY <1>1, OtherImage, OwnImage DEF Images
<1>2. OnWhole(v)'
  BY OwnWhole, Types DEF Images, RunInv
<1>3. ASSUME NEW w \in VM \ {v} PROVE OnWhole(w)'
  <2>1. SameLocals(w) /\ OnWhole(w) /\ ImageOf[w] \in Image
    BY Frame, Types DEF RunInv, Step, Images
  <2> QED
    BY <2>1, StaysWhole DEF OnWhole, SameLocals
<1>4. ASSUME NEW i \in known' PROVE Whole(i)'
  <2>1. CASE CountVM(v)
    <3>1. v \in Secured /\ dom[v] = "starting"
      BY <2>1, Facts DEF CountVM, At, Stage, PlainStage, Phase, PrepareSteps, ImageSteps, StopSteps,
         KeptInv, RunInv, TypeOK
    <3>2. disk[v] = "symlink"
      BY <3>1, Facts DEF Stage, LaunchStage, Ready
    <3>3. Whole(ImageOf[v])
      BY <3>2 DEF Images, OnWhole
    <3>4. i \in known \/ i = ImageOf[v]
      BY <1>4, <2>1 DEF CountVM
    <3>5. Whole(i) /\ i \in Image
      BY <3>3, <3>4, Types DEF Images, RunInv, KeptInv, TypeOK
    <3> QED
      BY <3>5, StaysWhole
  <2>2. CASE ~CountVM(v)
    <3>1. known' = known
      BY <2>2 DEF Action, Hook, CallPrepare, CallStart, CallStop, Call, Redeploy, Enter, Prepare,
         Resolve, FetchKey, VolumeExists, CreateVolume, OpenVolume, PlacePlaceholder, MountVolume,
         FillVolume, QemuImgInfo, RecreateDisk, ResizeDisk, RemoveDisk, SymlinkDisk, WatchDisk,
         Start, Verify, Attest, Started, Stop, StatDisk, Unmount, DeleteVolume, UncountVM,
         NotCounted, Refused, NoKey, NoFlavor, ReportRefused, Refuse, assoc
    <3>2. Whole(i) /\ i \in Image
      BY <1>4, <3>1 DEF Images, RunInv, KeptInv, TypeOK
    <3> QED
      BY <3>2, StaysWhole
  <2> QED
    BY <2>1, <2>2
<1> QED
  BY <1>1, <1>2, <1>3, <1>4 DEF Images

-----------------------------------------------------------------------------
(* Disks and volumes of VMs.                                               *)

(* Stop finds the VM's disk: the symlink leads to the file in the volume,  *)
(* or to the placeholder below it.                                         *)
LEMMA DiskFound ==
  ASSUME RunInv, NEW v \in VM, DiskStage(v), pc[v] = "stat"
  PROVE  DiskExists(v)
BY Facts DEF DiskExists, FileAt, DiskStage, OnOwn, ImageSteps

(* Every step of a VM takes its disk and its volume from stage to stage.   *)
LEMMA OwnDisk ==
  ASSUME RunInv, NEW v \in VM, Action(v), DiskStage(v), ClosedStage(v)
  PROVE  DiskStage(v)' /\ ClosedStage(v)'
<1> USE DEF At, Goto, Finish, DiskStage, ClosedStage, OnOwn, OnImage, ImageSteps, volumes, locals
<1>0. /\ pc \in [VM -> {"idle", "queued"} \cup PrepareSteps \cup StartSteps \cup StopSteps]
      /\ dom \in [VM -> {"shutoff", "preparing", "prepared", "starting",
                         "running", "stopping", "failed"}]
      /\ disk \in [VM -> {"overlay", "rebased", "none", "symlink"}]
      /\ vol \in [VM -> Volume] /\ fresh \in [VM -> BOOLEAN]
      /\ vol[v] \in {v, ImageOf[v]} /\ v # ImageOf[v]
  BY Types DEF RunInv
<1>1. /\ disk[v] \in {"none", "symlink"} => v \in filled
      /\ pc[v] = "placeholder" => vol[v] \notin mounted
      /\ mounted \subseteq open
  BY Facts
<1>2. CASE CallPrepare(v) \/ CallStart(v) \/ CallStop(v)
  BY <1>0, <1>2 DEF CallPrepare, CallStart, CallStop, Call
<1>3. CASE Redeploy(v)
  BY <1>0, <1>3, Facts DEF Redeploy, Phase
<1>4. CASE Enter(v)
  BY <1>0, <1>4, Facts DEF Enter, Phase, PrepareSteps, StopSteps
<1>5. CASE Prepare(v)
  <2>1. dom[v] = "preparing"
    BY <1>0, <1>5, Facts DEF Phase, Prepare, Resolve, FetchKey, VolumeExists, CreateVolume,
       OpenVolume, PlacePlaceholder, MountVolume, FillVolume, QemuImgInfo, RecreateDisk,
       ResizeDisk, RemoveDisk, SymlinkDisk, WatchDisk, StartSteps, StopSteps
  <2> USE DEF Outcome
  <2>2. CASE Resolve(v)
    BY <1>0, <2>1, <2>2 DEF Resolve
  <2>3. CASE FetchKey(v)
    BY <1>0, <2>1, <2>3 DEF FetchKey
  <2>4. CASE VolumeExists(v)
    BY <1>0, <2>1, <2>4 DEF VolumeExists
  <2>5. CASE CreateVolume(v)
    BY <1>0, <2>1, <2>5 DEF CreateVolume
  <2>6. CASE OpenVolume(v)
    BY <1>0, <2>1, <2>6 DEF OpenVolume
  <2>7. CASE PlacePlaceholder(v)
    BY <1>0, <1>1, <2>1, <2>7 DEF PlacePlaceholder
  <2>8. CASE MountVolume(v)
    <3>1. pc[v] = "mount" /\ vol[v] = v /\ ~fresh[v] => disk[v] = "symlink"
      BY Facts DEF Stage, LaunchStage, PlainStage, StopSteps
    <3> QED
      BY <1>0, <2>1, <2>8, <3>1 DEF MountVolume
  <2>9. CASE FillVolume(v)
    BY <1>0, <2>1, <2>9 DEF FillVolume
  <2>10. CASE QemuImgInfo(v)
    BY <1>0, <2>1, <2>10 DEF QemuImgInfo
  <2>11. CASE RecreateDisk(v)
    BY <1>0, <2>1, <2>11 DEF RecreateDisk
  <2>12. CASE ResizeDisk(v)
    BY <1>0, <2>1, <2>12 DEF ResizeDisk
  <2>13. CASE RemoveDisk(v) \/ SymlinkDisk(v)
    BY <1>0, <2>1, <2>13 DEF RemoveDisk, SymlinkDisk
  <2>14. CASE WatchDisk(v)
    BY <1>0, <2>1, <2>14 DEF WatchDisk
  <2> QED
    BY <1>5, <2>2, <2>3, <2>4, <2>5, <2>6, <2>7, <2>8, <2>9, <2>10, <2>11, <2>12, <2>13, <2>14
       DEF Prepare
<1>6. CASE Start(v)
  <2>1. dom[v] = "starting"
    BY <1>0, <1>6, Facts
       DEF Phase, Start, Verify, Attest, CountVM, Started, PrepareSteps, StopSteps
  <2> QED
    BY <1>0, <1>6, <2>1 DEF Start, Verify, Attest, CountVM, Started, Outcome
<1>7. CASE Stop(v)
  <2>1. CASE StatDisk(v)
    BY <1>0, <2>1, DiskFound DEF StatDisk
  <2>2. CASE Unmount(v)
    BY <1>0, <2>2 DEF Unmount
  <2>3. CASE DeleteVolume(v)
    BY <1>0, <2>3 DEF DeleteVolume
  <2>4. CASE UncountVM(v) \/ NotCounted(v)
    BY <1>0, <2>4 DEF UncountVM, NotCounted
  <2> QED
    BY <1>7, <2>1, <2>2, <2>3, <2>4 DEF Stop
<1>8. CASE Refused(v)
  <2>1. pc[v] \in {"key", "verify", "attest"} /\ dom[v] # "stopping"
    BY <1>8, Facts DEF Refused, NoKey, NoFlavor, ReportRefused, Refuse, Phase, StopSteps
  <2> QED
    BY <1>0, <1>8, <2>1 DEF Refused, NoKey, NoFlavor, ReportRefused, Refuse, Outcome
<1> QED
  BY <1>2, <1>3, <1>4, <1>5, <1>6, <1>7, <1>8 DEF Action, Hook

(* Every step keeps the disks in their stages.                             *)
LEMMA DisksKeptStaged ==
  ASSUME RunInv, Disks, NEW v \in VM, Action(v)
  PROVE  Disks'
<1>1. DiskStage(v)' /\ ClosedStage(v)'
  BY OwnDisk DEF Disks
<1>2. ASSUME NEW w \in VM \ {v} PROVE DiskStage(w)' /\ ClosedStage(w)'
  <2>1. SameLocals(w) /\ SameVolume(w) /\ DiskStage(w) /\ ClosedStage(w)
    BY Frame, Types DEF RunInv, Step, Volume, Disks
  <2> QED
    BY <2>1 DEF SameLocals, SameVolume, DiskStage, ClosedStage, OnOwn, OnImage
<1> QED
  BY <1>1, <1>2 DEF Disks

-----------------------------------------------------------------------------
(* VMCount.                                                                *)

(* What a step other than the two that count does to who is counted: only  *)
(* the Stop of a VM that did not run adds one, and only a Stop that finds  *)
(* no count takes one off.                                                 *)
LEMMA CountedSteps ==
  ASSUME RunInv, NEW v \in VM, Action(v), v \in Secured, DiskStage(v),
         ~CountVM(v), ~UncountVM(v)
  PROVE  /\ count' = count /\ stray \subseteq stray'
         /\ \/ Counted(v)' <=> Counted(v)
            \/ ~Counted(v) /\ Counted(v)' /\ ImageOf[v] \in stray'
            \/ Counted(v) /\ ~Counted(v)' /\ NotCounted(v)
<1> USE DEF At, Goto, Finish, Outcome, Counted, OnImage, past, assoc
<1>0. /\ pc \in [VM -> {"idle", "queued"} \cup PrepareSteps \cup StartSteps \cup StopSteps]
      /\ dom \in [VM -> {"shutoff", "preparing", "prepared", "starting",
                         "running", "stopping", "failed"}]
      /\ vol \in [VM -> Volume] /\ v # ImageOf[v]
      /\ Phase(v) /\ Stage(v)
  BY Types, Facts DEF RunInv
<1>1. CASE CallPrepare(v) \/ CallStart(v) \/ CallStop(v)
  BY <1>0, <1>1 DEF CallPrepare, CallStart, CallStop, Call, Phase
<1>2. CASE Redeploy(v) \/ Enter(v)
  BY <1>0, <1>2 DEF Redeploy, Enter, locals
<1>3. CASE Prepare(v)
  <2>1. dom[v] = "preparing" /\ pc[v] \in PrepareSteps
    BY <1>0, <1>3 DEF Phase, Prepare, Resolve, FetchKey, VolumeExists, CreateVolume,
       OpenVolume, PlacePlaceholder, MountVolume, FillVolume, QemuImgInfo, RecreateDisk,
       ResizeDisk, RemoveDisk, SymlinkDisk, WatchDisk, PrepareSteps, ImageSteps, StartSteps,
       StopSteps
  <2>2. CASE Resolve(v) \/ FetchKey(v) \/ VolumeExists(v) \/ CreateVolume(v) \/ OpenVolume(v)
    BY <1>0, <2>1, <2>2 DEF Resolve, FetchKey, VolumeExists, CreateVolume, OpenVolume
  <2>3. CASE PlacePlaceholder(v) \/ MountVolume(v) \/ FillVolume(v)
    BY <1>0, <2>1, <2>3 DEF PlacePlaceholder, MountVolume, FillVolume
  <2>4. CASE QemuImgInfo(v) \/ RecreateDisk(v) \/ ResizeDisk(v)
    BY <1>0, <2>1, <2>4 DEF QemuImgInfo, RecreateDisk, ResizeDisk
  <2>5. CASE RemoveDisk(v) \/ SymlinkDisk(v) \/ WatchDisk(v)
    BY <1>0, <2>1, <2>5 DEF RemoveDisk, SymlinkDisk, WatchDisk
  <2> QED
    BY <1>3, <2>2, <2>3, <2>4, <2>5 DEF Prepare
<1>4. CASE Start(v)
  <2>1. dom[v] = "starting"
    BY <1>0, <1>4 DEF Phase, Start, Verify, Attest, CountVM, Started, PrepareSteps, ImageSteps,
       StopSteps
  <2>2. OnDecrypted(v)
    BY <1>0, <2>1 DEF Stage, LaunchStage, Ready, OnDecrypted
  <2> QED
    BY <1>0, <1>4, <2>1, <2>2 DEF Start, Verify, Attest, Started
<1>5. CASE Stop(v)
  <2>1. dom[v] = "stopping"
    BY <1>0, <1>5 DEF Phase, Stop, StatDisk, Unmount, DeleteVolume, UncountVM, NotCounted,
       PrepareSteps, ImageSteps, StartSteps, StopSteps
  <2>2. CASE StatDisk(v)
    BY <1>0, <2>1, <2>2, DiskFound DEF StatDisk
  <2>3. CASE Unmount(v) \/ DeleteVolume(v)
    <3>1. vol[v] \in {v, ImageOf[v]}
      BY Types DEF RunInv
    <3> QED
      BY <1>0, <2>1, <2>3, <3>1 DEF Unmount, DeleteVolume, locals
  <2>4. CASE NotCounted(v)
    BY <1>0, <2>1, <2>4 DEF NotCounted
  <2> QED
    BY <1>5, <2>2, <2>3, <2>4 DEF Stop
<1>6. CASE Refused(v)
  <2>1. pc[v] \in {"key", "verify", "attest"} /\ dom[v] \notin {"stopping", "running"}
    BY <1>0, <1>6 DEF Refused, NoKey, NoFlavor, ReportRefused, Refuse, Phase, StopSteps
  <2> QED
    BY <1>0, <1>6, <2>1 DEF Refused, NoKey, NoFlavor, ReportRefused, Refuse
<1> QED
  BY <1>1, <1>2, <1>3, <1>4, <1>5, <1>6 DEF Action, Hook

(* VMCount follows the VMs that are counted.                               *)
LEMMA CountFollows ==
  ASSUME RunInv, Disks, NEW v \in VM, Action(v), NEW i \in Image \ Plain, CountOf(i)
  PROVE  CountOf(i)'
<1> DEFINE C == CountedOf(i)
<1>0. /\ IsFiniteSet(C) /\ Cardinality(C) \in Nat /\ count \in [Image -> Nat]
      /\ count[i] <= Cardinality(C) /\ (i \notin stray => count[i] = Cardinality(C))
      /\ Phase(v) /\ Stage(v) /\ DiskStage(v) /\ (v \in Secured <=> ImageOf[v] \notin Plain)
      /\ pc \in [VM -> {"idle", "queued"} \cup PrepareSteps \cup StartSteps \cup StopSteps]
      /\ dom \in [VM -> {"shutoff", "preparing", "prepared", "starting",
                         "running", "stopping", "failed"}]
      /\ vol \in [VM -> Volume] /\ v # ImageOf[v] /\ ImageOf[v] \in Image
  BY Facts, Types, FS_CardinalityType DEF CountOf, RunInv, KeptInv, TypeOK, Disks
<1>1. \A w \in VM \ {v} : Counted(w)' <=> Counted(w)
  <2>1. \A w \in VM \ {v} : SameLocals(w)
    BY Frame DEF RunInv, Step
  <2> QED
    BY <2>1 DEF SameLocals, Counted, OnImage
<1>2. CASE i # ImageOf[v]
  <2>1. CountedOf(i)' = C
    BY <1>1, <1>2 DEF CountedOf
  <2>2. count'[i] = count[i] /\ (i \in stray' <=> i \in stray)
    BY <1>0, <1>2 DEF Action, Hook, CallPrepare, CallStart, CallStop, Call, Redeploy, Enter,
       Prepare, Resolve, FetchKey, VolumeExists, CreateVolume, OpenVolume, PlacePlaceholder,
       MountVolume, FillVolume, QemuImgInfo, RecreateDisk, ResizeDisk, RemoveDisk, SymlinkDisk,
       WatchDisk, Start, Verify, Attest, CountVM, Started, Stop, StatDisk, Unmount,
       DeleteVolume, UncountVM, NotCounted, Refused, NoKey, NoFlavor, ReportRefused, Refuse,
       assoc, past
  <2> QED
    BY <1>0, <2>1, <2>2 DEF CountOf
<1>3. ASSUME i = ImageOf[v], Counted(v)', ~Counted(v)
      PROVE  IsFiniteSet(CountedOf(i)') /\ Cardinality(CountedOf(i)') = Cardinality(C) + 1
  <2>1. CountedOf(i)' = C \cup {v} /\ v \notin C
    BY <1>1, <1>3 DEF CountedOf
  <2> QED
    BY <1>0, <2>1, FS_AddElement
<1>4. ASSUME i = ImageOf[v], ~Counted(v)', Counted(v)
      PROVE  /\ IsFiniteSet(CountedOf(i)') /\ Cardinality(CountedOf(i)') = Cardinality(C) - 1
             /\ Cardinality(C) >= 1
  <2>1. CountedOf(i)' = C \ {v} /\ v \in C
    BY <1>1, <1>4 DEF CountedOf
  <2>2. IsFiniteSet(C \ {v}) /\ Cardinality(C \ {v}) = Cardinality(C) - 1
    BY <1>0, <2>1, FS_RemoveElement
  <2>3. Cardinality(C \ {v}) \in Nat
    BY <2>2, FS_CardinalityType
  <2> QED
    BY <1>0, <2>1, <2>2, <2>3
<1>5. CASE i = ImageOf[v] /\ CountVM(v)
  <2>1. ~Counted(v) /\ Counted(v)'
    BY <1>0, <1>5 DEF CountVM, At, Goto, Counted, OnImage, Phase, PrepareSteps, ImageSteps,
       StopSteps
  <2>2. count'[i] = count[i] + 1 /\ stray' = stray
    BY <1>0, <1>5 DEF CountVM, past
  <2> QED
    BY <1>0, <1>3, <1>5, <2>1, <2>2 DEF CountOf
<1>6. CASE i = ImageOf[v] /\ UncountVM(v)
  <2>1. dom[v] = "stopping" /\ pc[v] = "delete"
    BY <1>0, <1>6 DEF UncountVM, At, Phase, PrepareSteps, ImageSteps, StartSteps
  <2>2. Counted(v) /\ ~Counted(v)'
    BY <1>0, <1>6, <2>1 DEF UncountVM, Goto, Finish, Outcome, Counted, OnImage
  <2>3. count'[i] = count[i] - 1 /\ stray' = stray
    BY <1>0, <1>6 DEF UncountVM, past
  <2> QED
    BY <1>0, <1>4, <1>6, <2>2, <2>3 DEF CountOf
<1>7. CASE i = ImageOf[v] /\ ~CountVM(v) /\ ~UncountVM(v)
  <2>1. /\ count' = count /\ stray \subseteq stray'
        /\ \/ Counted(v)' <=> Counted(v)
           \/ ~Counted(v) /\ Counted(v)' /\ i \in stray'
           \/ Counted(v) /\ ~Counted(v)' /\ NotCounted(v)
    BY <1>0, <1>7, CountedSteps
  <2>2. CASE Counted(v)' <=> Counted(v)
    <3>1. CountedOf(i)' = C
      BY <1>1, <2>2 DEF CountedOf
    <3> QED
      BY <1>0, <2>1, <3>1 DEF CountOf
  <2>3. CASE ~Counted(v) /\ Counted(v)' /\ i \in stray'
    BY <1>0, <1>3, <1>7, <2>1, <2>3 DEF CountOf
  <2>4. CASE Counted(v) /\ ~Counted(v)' /\ NotCounted(v)
    <3>1. count[i] = 0
      BY <1>7, <2>4 DEF NotCounted
    <3> QED
      BY <1>0, <1>4, <1>7, <2>1, <2>4, <3>1 DEF CountOf
  <2> QED
    BY <2>1, <2>2, <2>3, <2>4
<1> QED
  BY <1>2, <1>5, <1>6, <1>7

-----------------------------------------------------------------------------
(* Theorems.                                                               *)

(* The invariant holds initially.                                          *)
LEMMA FaultlessInit == Init => FaultlessInv
<1> SUFFICES ASSUME Init PROVE FaultlessInv
  OBVIOUS
<1>1. Images
  BY DEF Init, Images, ImageWhole, OnWhole
<1>2. Disks
  BY DEF Init, Disks, DiskStage, ClosedStage, OnOwn, OnImage, ImageSteps
<1>3. Counts
  <2>1. SUFFICES ASSUME NEW i \in Image PROVE CountOf(i)
    BY DEF Counts
  <2>2. CountedOf(i) = {}
    BY DEF Init, CountedOf, Counted
  <2>3. count[i] = 0
    BY DEF Init
  <2> QED
    BY <2>2, <2>3, FS_EmptySet DEF CountOf
<1> QED
  BY <1>1, <1>2, <1>3, RunInit DEF FaultlessInv

(* Every step preserves it.                                                *)
LEMMA FaultlessStep == ASSUME FaultlessInv, [Next]_vars, Faultless' PROVE FaultlessInv'
<1>1. RunInv'
  BY RunStep DEF FaultlessInv
<1>2. CASE UNCHANGED vars
  <2> USE <1>2 DEF vars, volumes, assoc, locals, past
  <2>1. Images'
    BY DEF FaultlessInv, Images, ImageWhole, OnWhole, Whole, Holder, OnImage
  <2>2. Disks'
    BY DEF FaultlessInv, Disks, DiskStage, ClosedStage, OnOwn, OnImage
  <2>3. \A i \in Image : CountedOf(i)' = CountedOf(i)
    BY DEF CountedOf, Counted, OnImage
  <2>4. Counts'
    BY <2>3 DEF FaultlessInv, Counts, CountOf
  <2> QED
    BY <1>1, <2>1, <2>2, <2>4 DEF FaultlessInv
<1>3. ASSUME NEW v \in VM, Action(v) PROVE FaultlessInv'
  <2>1. Counts'
    BY <1>3, CountFollows DEF FaultlessInv, Counts
  <2> QED
    BY <1>1, <1>3, <2>1, ImagesKept, DisksKeptStaged DEF FaultlessInv
<1> QED
  BY <1>2, <1>3, NoFaults DEF FaultlessInv, RunInv, KeptInv

(* What holds until a step fails.                                          *)
LEMMA UntilFaultHolds == Spec => []UntilFault
<1>1. Init => UntilFault
  BY RunInit, FaultlessInit DEF UntilFault
<1>2. UntilFault /\ [Next]_vars => UntilFault'
  <2>1. SUFFICES ASSUME UntilFault, [Next]_vars
                 PROVE  RunInv' /\ (Faultless' => FaultlessInv')
    BY DEF UntilFault
  <2>2. RunInv'
    BY <2>1, RunStep DEF UntilFault
  <2>3. ASSUME Faultless' PROVE FaultlessInv'
    <3>1. Faultless
      BY <2>1, <2>3, NoFaults DEF UntilFault, RunInv, KeptInv
    <3> QED
      BY <2>1, <2>3, <3>1, FaultlessStep DEF UntilFault
  <2> QED
    BY <2>2, <2>3
<1> QED
  BY <1>1, <1>2, PTL DEF Spec

(* A running VM has its decrypted image: whoever stops or is launched      *)
(* meanwhile, its disk keeps the image, and Prepare only leaves one that   *)
(* is open, mounted and filled.                                            *)
THEOREM RunningKeepsImage == Spec => []ImageStays
<1>1. FaultlessInv => RunningHasImage
  BY DEF FaultlessInv, Images, OnWhole, Whole, RunInv, Stage, LaunchStage, Ready, Secured,
     RunningHasImage
<1>2. UntilFault => ImageStays
  BY <1>1 DEF UntilFault, ImageStays
<1> QED
  BY <1>2, UntilFaultHolds, PTL

(* Stop closes the volume of its VM.                                       *)
THEOREM StopClosesVolume == Spec => []OffVolumeClosed
<1>1. UntilFault => OffVolumeClosed
  BY DEF UntilFault, FaultlessInv, Disks, ClosedStage, OffVolumeClosed
<1> QED
  BY <1>1, UntilFaultHolds, PTL

(* Between calls VMCount counts the running VMs of the image, and never    *)
(* more, once a VM was stopped that did not run.                           *)
THEOREM CountsRunning == Spec => []CountMatchesRunning
<1>1. UntilFault => CountMatchesRunning
  <2>1. SUFFICES ASSUME FaultlessInv, \A v \in VM : pc[v] = "idle", NEW i \in Image \ Plain
                 PROVE  LET n == Cardinality({v \in VM : ImageOf[v] = i /\ dom[v] = "running"})
                        IN  count[i] <= n /\ (i \notin stray => count[i] = n)
    BY DEF CountMatchesRunning, UntilFault
  <2>2. \A v \in VM : dom[v] # "stopping"
    BY <2>1, Facts DEF FaultlessInv, Phase, StopSteps
  <2>3. CountedOf(i) = {v \in VM : ImageOf[v] = i /\ dom[v] = "running"}
    BY <2>1, <2>2 DEF CountedOf, Counted
  <2> QED
    BY <2>1, <2>3 DEF FaultlessInv, Counts, CountOf
<1> QED
  BY <1>1, UntilFaultHolds, PTL
=============================================================================
