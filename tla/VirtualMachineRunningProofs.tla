--------------------- MODULE VirtualMachineRunningProofs ---------------------
(***************************************************************************)
(* Theorems about VirtualMachine: what a running VM has, in every          *)
(* environment, with any number of failing steps, crashes and reboots.     *)
(***************************************************************************)
EXTENDS VirtualMachineProofs

(* The call that is in flight for a VM is the one libvirt waits for.       *)
Phase(v) ==
  /\ dom[v] \in {"shutoff", "prepared", "running", "failed"} => pc[v] = "idle"
  /\ dom[v] = "preparing" => pc[v] \in {"queued"} \cup PrepareSteps
  /\ dom[v] = "starting" => pc[v] \in StartSteps
  /\ dom[v] = "stopping" => pc[v] \in {"queued"} \cup StopSteps

(* A handler works on the volume of the VM's image before that of the VM,  *)
(* Stop the other way round.                                               *)
OnOwn(v, steps) == pc[v] \in steps /\ vol[v] = v
OnImage(v, steps) == pc[v] \in steps /\ vol[v] = ImageOf[v]

(* A volume is made before it is opened, mounted and filled.               *)
WorksOn(v) ==
  /\ pc[v] \in {"open", "placeholder", "mount", "fill"} => vol[v] \in sparse
  /\ pc[v] = "fill" => vol[v] \in open \cap mounted

Made == filled \subseteq sparse /\ \A v \in VM : WorksOn(v)

(* What a launched VM has, and what it gets it from: a volume just made,   *)
(* or the one its symlink leads to.                                        *)
Ready(v) == disk[v] = "symlink" /\ v \in open \cap mounted \cap filled

LaunchStage(v) ==
  /\ disk[v] = "overlay" \/ pc[v] = "resize" => v \notin sparse
  /\ pc[v] \in {"resize", "remove", "symlink"} \/ OnOwn(v, ImageSteps) => disk[v] # "overlay"
  /\ OnOwn(v, {"create"}) => disk[v] = "symlink" \/ v \notin sparse
  /\ OnOwn(v, {"open", "placeholder", "mount"}) => disk[v] = "symlink" \/ fresh[v]
  /\ pc[v] \in {"remove", "symlink"} => v \in open \cap mounted \cap filled
  /\ pc[v] = "watch" \/ dom[v] \in {"prepared", "starting", "running"} => Ready(v)

(* The VM of a plain image keeps nova's disk, and no Prepare or Start goes *)
(* past the look at its disk.                                              *)
PlainStage(v) ==
  disk[v] = "overlay" /\ pc[v] \in {"idle", "queued", "resolve", "verify"} \cup StopSteps

(* Who was attested.                                                       *)
Report(v) == pc[v] \in {"count", "saved"} \/ dom[v] = "running" => v \in attested

Stage(v) ==
  /\ Phase(v)
  /\ v \in Secured => LaunchStage(v) /\ Report(v)
  /\ v \notin Secured => PlainStage(v)

(* The inductive invariant of what a running VM has.                       *)
RunInv == KeptInv /\ Made /\ attested \subseteq Secured /\ \A v \in VM : Stage(v)

-----------------------------------------------------------------------------
(* What a step leaves alone.                                               *)

Refused(v) == NoKey(v) \/ NoFlavor(v) \/ ReportRefused(v)

Action(v) == Hook(v) \/ Enter(v) \/ Prepare(v) \/ Start(v) \/ Stop(v) \/ Refused(v)

Step(v) == Action(v) \/ Fail(v) \/ FailLogged(v) \/ Unheard(v)

SameLocals(w) ==
  /\ pc'[w] = pc[w] /\ dom'[w] = dom[w] /\ disk'[w] = disk[w]
  /\ vol'[w] = vol[w] /\ fresh'[w] = fresh[w]
  /\ w \in attested' <=> w \in attested

SameVolume(x) ==
  /\ x \in sparse' <=> x \in sparse
  /\ x \in open' <=> x \in open
  /\ x \in mounted' <=> x \in mounted
  /\ x \in placed' <=> x \in placed
  /\ x \in filled' <=> x \in filled

(* The types that the steps of a VM need.                                  *)
LEMMA Types ==
  ASSUME KeptInv, NEW v \in VM
  PROVE  /\ pc \in [VM -> {"idle", "queued"} \cup PrepareSteps \cup StartSteps \cup StopSteps]
         /\ dom \in [VM -> {"shutoff", "preparing", "prepared", "starting",
                            "running", "stopping", "failed"}]
         /\ disk \in [VM -> {"overlay", "rebased", "none", "symlink"}]
         /\ vol \in [VM -> Volume] /\ fresh \in [VM -> BOOLEAN] /\ attested \subseteq VM
         /\ vol[v] \in {v, ImageOf[v]} /\ v # ImageOf[v]
         /\ ImageOf[v] \in Image /\ VM \cap Image = {}
BY ImageOfAssumption, NamesAssumption DEF KeptInv, TypeOK, VolOf

(* Redeploy works on the VM's own volume, the handlers on the one they     *)
(* have in hand, and Start on none.                                        *)
LEMMA Frame ==
  ASSUME KeptInv, NEW v \in VM, Step(v)
  PROVE  /\ \A w \in VM \ {v} : SameLocals(w)
         /\ \A x \in Volume \ {v, ImageOf[v]} : SameVolume(x)
         /\ pc[v] \notin PrepareSteps \cup StopSteps => SameVolume(ImageOf[v])
<1> USE DEF Goto, Finish, SameLocals, SameVolume, volumes, locals, past
<1>0. /\ pc \in [VM -> {"idle", "queued"} \cup PrepareSteps \cup StartSteps \cup StopSteps]
      /\ dom \in [VM -> {"shutoff", "preparing", "prepared", "starting",
                         "running", "stopping", "failed"}]
      /\ disk \in [VM -> {"overlay", "rebased", "none", "symlink"}]
      /\ vol \in [VM -> Volume] /\ fresh \in [VM -> BOOLEAN] /\ attested \subseteq VM
      /\ vol[v] \in {v, ImageOf[v]} /\ v # ImageOf[v]
  BY Types
<1>1. CASE Hook(v) \/ Enter(v)
  BY <1>0, <1>1 DEF Hook, CallPrepare, CallStart, CallStop, Call, Redeploy, Enter
<1>2. CASE Prepare(v)
  <2> USE DEF At, PrepareSteps, ImageSteps
  <2>1. CASE Resolve(v) \/ FetchKey(v) \/ VolumeExists(v) \/ CreateVolume(v)
    BY <1>0, <2>1 DEF Resolve, FetchKey, VolumeExists, CreateVolume
  <2>2. CASE OpenVolume(v) \/ FillVolume(v)
    BY <1>0, <2>2 DEF OpenVolume, FillVolume
  <2>3. CASE PlacePlaceholder(v)
    BY <1>0, <2>3 DEF PlacePlaceholder
  <2>4. CASE MountVolume(v)
    BY <1>0, <2>4 DEF MountVolume
  <2>5. CASE QemuImgInfo(v) \/ RecreateDisk(v) \/ ResizeDisk(v)
    BY <1>0, <2>5 DEF QemuImgInfo, RecreateDisk, ResizeDisk
  <2>6. CASE RemoveDisk(v) \/ SymlinkDisk(v) \/ WatchDisk(v)
    BY <1>0, <2>6 DEF RemoveDisk, SymlinkDisk, WatchDisk
  <2> QED
    BY <1>2, <2>1, <2>2, <2>3, <2>4, <2>5, <2>6 DEF Prepare
<1>3. CASE Start(v)
  BY <1>0, <1>3 DEF Start, Verify, Attest, CountVM, Started
<1>4. CASE Stop(v)
  BY <1>0, <1>4 DEF Stop, StatDisk, Unmount, DeleteVolume, UncountVM, NotCounted, At, StopSteps
<1>5. CASE Refused(v)
  BY <1>0, <1>5 DEF Refused, NoKey, NoFlavor, ReportRefused, Refuse
<1>6. CASE Fail(v) \/ FailLogged(v) \/ Unheard(v)
  BY <1>0, <1>6 DEF Fail, FailLogged, Unheard, Fault
<1> QED
  BY <1>1, <1>2, <1>3, <1>4, <1>5, <1>6 DEF Step, Action

-----------------------------------------------------------------------------
(* What a step does to its VM.                                             *)

(* Every step of a VM takes it from stage to stage.                        *)
LEMMA StageKept ==
  ASSUME RunInv, NEW v \in VM, Step(v)
  PROVE  Stage(v)' /\ attested' \subseteq Secured
<1> USE DEF At, Goto, Finish, Outcome, Stage, Phase, LaunchStage, Ready, PlainStage, Report,
            OnOwn, PrepareSteps, ImageSteps, StartSteps, StopSteps, volumes, locals, past
<1>0. /\ pc \in [VM -> {"idle", "queued"} \cup PrepareSteps \cup StartSteps \cup StopSteps]
      /\ dom \in [VM -> {"shutoff", "preparing", "prepared", "starting",
                         "running", "stopping", "failed"}]
      /\ disk \in [VM -> {"overlay", "rebased", "none", "symlink"}]
      /\ vol \in [VM -> Volume] /\ fresh \in [VM -> BOOLEAN] /\ attested \subseteq VM
      /\ vol[v] \in {v, ImageOf[v]} /\ v # ImageOf[v]
  BY Types DEF RunInv
<1>1. /\ Stage(v) /\ attested \subseteq Secured
      /\ disk[v] \in {"none", "symlink"} => v \in filled
      /\ pc[v] = "placeholder" => vol[v] \notin mounted
      /\ pc[v] \in {"placeholder", "mount"} => vol[v] \in open
      /\ pc[v] = "fill" => vol[v] \in open \cap mounted
      /\ v \in Secured <=> ImageOf[v] \notin Plain
  BY DEF RunInv, KeptInv, Kept, ChangeDiskKept, Opening, Made, WorksOn, Secured
<1>2. CASE CallPrepare(v) \/ CallStart(v) \/ CallStop(v)
  BY <1>0, <1>1, <1>2 DEF CallPrepare, CallStart, CallStop, Call
<1>3. CASE Redeploy(v)
  BY <1>0, <1>1, <1>3 DEF Redeploy
<1>4. CASE Enter(v)
  BY <1>0, <1>1, <1>4 DEF Enter
<1>5. CASE Resolve(v)
  BY <1>0, <1>1, <1>5 DEF Resolve
<1>6. CASE FetchKey(v) \/ QemuImgInfo(v)
  BY <1>0, <1>1, <1>6 DEF FetchKey, QemuImgInfo
<1>7. CASE VolumeExists(v)
  BY <1>0, <1>1, <1>7 DEF VolumeExists
<1>8. CASE CreateVolume(v)
  BY <1>0, <1>1, <1>8 DEF CreateVolume
<1>9. CASE OpenVolume(v)
  BY <1>0, <1>1, <1>9 DEF OpenVolume
<1>10. CASE PlacePlaceholder(v)
  BY <1>0, <1>1, <1>10 DEF PlacePlaceholder
<1>11. CASE MountVolume(v)
  BY <1>0, <1>1, <1>11 DEF MountVolume
<1>12. CASE FillVolume(v)
  BY <1>0, <1>1, <1>12 DEF FillVolume
<1>13. CASE RecreateDisk(v)
  BY <1>0, <1>1, <1>13 DEF RecreateDisk
<1>14. CASE ResizeDisk(v)
  BY <1>0, <1>1, <1>14 DEF ResizeDisk
<1>15. CASE RemoveDisk(v) \/ SymlinkDisk(v) \/ WatchDisk(v)
  BY <1>0, <1>1, <1>15 DEF RemoveDisk, SymlinkDisk, WatchDisk
<1>16. CASE Verify(v) \/ Attest(v)
  BY <1>0, <1>1, <1>16 DEF Verify, Attest, OnDecrypted
<1>17. CASE CountVM(v) \/ Started(v)
  BY <1>0, <1>1, <1>17 DEF CountVM, Started
<1>18. CASE StatDisk(v) \/ UncountVM(v) \/ NotCounted(v)
  BY <1>0, <1>1, <1>18 DEF StatDisk, UncountVM, NotCounted
<1>19. CASE Unmount(v) \/ DeleteVolume(v)
  BY <1>0, <1>1, <1>19 DEF Unmount, DeleteVolume
<1>20. CASE Refused(v)
  BY <1>0, <1>1, <1>20 DEF Refused, NoKey, NoFlavor, ReportRefused, Refuse
<1>21. CASE Fail(v) \/ FailLogged(v) \/ Unheard(v)
  BY <1>0, <1>1, <1>21 DEF Fail, FailLogged, Unheard, Fault
<1> QED
  BY <1>2, <1>3, <1>4, <1>5, <1>6, <1>7, <1>8, <1>9, <1>10, <1>11, <1>12, <1>13, <1>14,
     <1>15, <1>16, <1>17, <1>18, <1>19, <1>20, <1>21
     DEF Step, Action, Hook, Prepare, Start, Stop

(* A step of one VM leaves the others in their stages.                     *)
LEMMA OtherStages ==
  ASSUME RunInv, NEW v \in VM, Step(v), NEW w \in VM \ {v}
  PROVE  Stage(w)'
<1>1. SameLocals(w) /\ SameVolume(w) /\ Stage(w)
  BY Frame, Types DEF RunInv, Volume
<1> QED
  BY <1>1 DEF SameLocals, SameVolume, Stage, Phase, LaunchStage, Ready, PlainStage, Report,
     OnOwn, Secured

(* A step makes a volume before it opens and fills it.                     *)
LEMMA WorkKept ==
  ASSUME RunInv, NEW v \in VM, Step(v)
  PROVE  filled' \subseteq sparse' /\ WorksOn(v)'
<1> USE DEF At, Goto, Finish, WorksOn, volumes, locals
<1>0. /\ pc \in [VM -> {"idle", "queued"} \cup PrepareSteps \cup StartSteps \cup StopSteps]
      /\ vol \in [VM -> Volume] /\ fresh \in [VM -> BOOLEAN]
      /\ filled \subseteq sparse /\ WorksOn(v)
      /\ pc[v] \in {"placeholder", "mount"} => vol[v] \in open
      /\ dom[v] = "shutoff" => pc[v] = "idle"
  BY Types DEF RunInv, Made, KeptInv, Opening, OffIsIdle
<1>1. CASE Hook(v) \/ Enter(v)
  BY <1>0, <1>1 DEF Hook, CallPrepare, CallStart, CallStop, Call, Redeploy, Enter
<1>2. CASE Prepare(v)
  <2>1. CASE Resolve(v) \/ FetchKey(v) \/ VolumeExists(v)
    BY <1>0, <2>1 DEF Resolve, FetchKey, VolumeExists
  <2>2. CASE CreateVolume(v) \/ OpenVolume(v)
    BY <1>0, <2>2 DEF CreateVolume, OpenVolume
  <2>3. CASE PlacePlaceholder(v) \/ MountVolume(v) \/ FillVolume(v)
    BY <1>0, <2>3 DEF PlacePlaceholder, MountVolume, FillVolume
  <2>4. CASE QemuImgInfo(v) \/ RecreateDisk(v) \/ ResizeDisk(v)
    BY <1>0, <2>4 DEF QemuImgInfo, RecreateDisk, ResizeDisk
  <2>5. CASE RemoveDisk(v) \/ SymlinkDisk(v) \/ WatchDisk(v)
    BY <1>0, <2>5 DEF RemoveDisk, SymlinkDisk, WatchDisk
  <2> QED
    BY <1>2, <2>1, <2>2, <2>3, <2>4, <2>5 DEF Prepare
<1>3. CASE Start(v)
  BY <1>0, <1>3 DEF Start, Verify, Attest, CountVM, Started
<1>4. CASE Stop(v)
  BY <1>0, <1>4 DEF Stop, StatDisk, Unmount, DeleteVolume, UncountVM, NotCounted
<1>5. CASE Refused(v)
  BY <1>0, <1>5 DEF Refused, NoKey, NoFlavor, ReportRefused, Refuse
<1>6. CASE Fail(v) \/ FailLogged(v) \/ Unheard(v)
  BY <1>0, <1>6 DEF Fail, FailLogged, Unheard, Fault
<1> QED
  BY <1>1, <1>2, <1>3, <1>4, <1>5, <1>6 DEF Step, Action

(* It leaves the volume another handler has in hand: if that is the one of *)
(* the image, the other handler holds wlaMtx.                              *)
LEMMA OthersWork ==
  ASSUME RunInv, NEW v \in VM, Step(v), NEW w \in VM \ {v}
  PROVE  WorksOn(w)'
<1>1. SameLocals(w) /\ SameVolume(w) /\ WorksOn(w) /\ vol[w] \in {w, ImageOf[w]}
  BY Frame, Types DEF RunInv, Made, Volume
<1>2. CASE pc[w] \notin {"open", "placeholder", "mount", "fill"}
  BY <1>1, <1>2 DEF SameLocals, WorksOn
<1>3. CASE pc[w] \in {"open", "placeholder", "mount", "fill"}
  <2>1. pc[v] \notin PrepareSteps \cup StopSteps
    BY <1>3, Alone DEF RunInv, PrepareSteps, ImageSteps
  <2>2. SameVolume(ImageOf[w])
    <3>1. CASE ImageOf[w] = ImageOf[v]
      BY <2>1, <3>1, Frame DEF RunInv
    <3>2. CASE ImageOf[w] # ImageOf[v]
      <4>1. ImageOf[w] \in Volume \ {v, ImageOf[v]}
        BY <3>2, Types DEF RunInv, Volume
      <4> QED
        BY <4>1, Frame DEF RunInv
    <3> QED
      BY <3>1, <3>2
  <2>3. SameVolume(vol[w])
    BY <1>1, <2>2
  <2> QED
    BY <1>1, <2>3 DEF SameLocals, SameVolume, WorksOn
<1> QED
  BY <1>2, <1>3

(* What is left of a VM when the daemon dies or the host reboots.          *)
LEMMA CutShort ==
  ASSUME RunInv, Crash \/ Reboot
  PROVE  Made' /\ attested' \subseteq Secured /\ \A v \in VM : Stage(v)'
<1>0. /\ pc \in [VM -> {"idle", "queued"} \cup PrepareSteps \cup StartSteps \cup StopSteps]
      /\ dom \in [VM -> {"shutoff", "preparing", "prepared", "starting",
                         "running", "stopping", "failed"}]
      /\ \A v \in VM : Stage(v)
      /\ filled \subseteq sparse /\ attested \subseteq Secured
  BY DEF RunInv, KeptInv, TypeOK, Made
<1>1. /\ pc' = [v \in VM |-> "idle"] /\ sparse' = sparse /\ filled' = filled
      /\ disk' = disk /\ attested' = attested
  BY DEF Crash, Reboot, Fault, volumes, past
<1>2. Made'
  BY <1>0, <1>1 DEF Made, WorksOn
<1>3. ASSUME NEW v \in VM PROVE Stage(v)'
  <2>1. CASE Reboot
    BY <1>0, <1>1, <2>1 DEF Reboot, Stage, Phase, LaunchStage, Ready, PlainStage, Report, OnOwn,
       Secured, ImageSteps
  <2>2. CASE Crash
    <3>1. UNCHANGED <<open, mounted, filled>>
      BY <2>2 DEF Crash, volumes
    <3>2. \/ pc[v] = "idle" /\ dom'[v] = dom[v]
          \/ dom'[v] \in {"shutoff", "failed"}
      BY <1>0, <2>2 DEF Crash, Outcome
    <3> QED
      BY <1>0, <1>1, <3>1, <3>2 DEF Stage, Phase, LaunchStage, Ready, PlainStage, Report, OnOwn,
         Secured, ImageSteps
  <2> QED
    BY <2>1, <2>2
<1> QED
  BY <1>0, <1>1, <1>2, <1>3

-----------------------------------------------------------------------------
(* Theorems.                                                               *)

(* The invariant holds initially.                                          *)
LEMMA RunInit == Init => RunInv
<1> SUFFICES ASSUME Init PROVE RunInv
  OBVIOUS
<1>1. Made /\ attested \subseteq Secured
  BY DEF Init, Made, WorksOn
<1>2. \A v \in VM : Stage(v)
  BY DEF Init, Stage, Phase, LaunchStage, PlainStage, Report, OnOwn, ImageSteps
<1> QED
  BY <1>1, <1>2, KeptInit DEF RunInv

(* Every step preserves it.                                                *)
LEMMA RunStep == ASSUME RunInv, [Next]_vars PROVE RunInv'
<1>1. KeptInv'
  BY KeptStep DEF RunInv
<1>2. CASE UNCHANGED vars
  BY <1>1, <1>2 DEF vars, volumes, locals, past, RunInv, Made, WorksOn, Secured, Stage, Phase,
     LaunchStage, Ready, PlainStage, Report, OnOwn
<1>3. CASE Crash \/ Reboot
  BY <1>1, <1>3, CutShort DEF RunInv, Secured
<1>4. ASSUME NEW v \in VM, Step(v) PROVE RunInv'
  <2>1. attested' \subseteq Secured /\ \A w \in VM : Stage(w)'
    BY <1>4, StageKept, OtherStages
  <2>2. Made'
    BY <1>4, WorkKept, OthersWork DEF Made
  <2> QED
    BY <1>1, <2>1, <2>2 DEF RunInv, Secured
<1> QED
  BY <1>2, <1>3, <1>4 DEF Next, Step, Action, Refused

(* Whatever fails, a running VM of an encrypted image writes to its own    *)
(* volume.                                                                 *)
THEOREM RunningDisksInVolume == Spec => []RunningDiskInVolume
<1>1. RunInv => RunningDiskInVolume
  BY DEF RunInv, Stage, LaunchStage, Ready, RunningDiskInVolume, Secured
<1> QED
  BY <1>1, RunInit, RunStep, PTL DEF Spec

(* Whatever fails, the VMs of encrypted images run attested, and no other. *)
THEOREM RunningVMsAttested == Spec => []RunningAttested
<1>1. RunInv => RunningAttested
  BY DEF RunInv, Stage, Report, RunningAttested
<1> QED
  BY <1>1, RunInit, RunStep, PTL DEF Spec
=============================================================================
