------------------------- MODULE VirtualMachineProofs ------------------------
(***************************************************************************)
(* Theorems about VirtualMachine, for any VMs and images, in every         *)
(* environment, with any number of failing steps, crashes and reboots.     *)
(***************************************************************************)
EXTENDS VirtualMachine, TLAPS

(* Prepare and Stop run under wlaMtx.                                      *)
Locked == \A v \in VM : pc[v] \in PrepareSteps \cup StopSteps => wlaMtx = v

(* A handler works on the volume of its VM or on that of its image.        *)
VolOf == \A v \in VM : vol[v] \in {v, ImageOf[v]}

(* A VM that may be deleted has no call in flight.                         *)
OffIsIdle == \A v \in VM : dom[v] \in {"shutoff", "failed"} => pc[v] = "idle"

MountedOpen == mounted \subseteq open

(* Between CreateVolume and the mount nobody else opens, mounts or closes  *)
(* the volume.                                                             *)
Opening ==
  \A v \in VM :
    /\ pc[v] = "open" => vol[v] \notin open
    /\ pc[v] = "placeholder" => vol[v] \notin mounted
    /\ pc[v] \in {"placeholder", "mount"} => vol[v] \in open

(* The disk is removed after it was copied.                                *)
Copied == \A v \in VM : pc[v] \in {"remove", "symlink"} => v \in filled

Kept == ChangeDiskKept /\ Copied

(* The inductive invariant that ChangeDiskKept and DataStays rest on.      *)
KeptInv == TypeOK /\ Locked /\ VolOf /\ OffIsIdle /\ MountedOpen /\ Opening /\ Kept

-----------------------------------------------------------------------------
(* Control flow.                                                           *)

Rest == Locked /\ VolOf /\ OffIsIdle

(* No step of a handler leaves a held point without releasing wlaMtx, or   *)
(* takes it from another.                                                  *)
LEMMA ControlStep ==
  ASSUME KeptInv, [Next]_vars
  PROVE  TypeOK' /\ Rest'
<1> USE DEF TypeOK, Rest, Locked, VolOf, OffIsIdle, PrepareSteps, ImageSteps, StartSteps,
            StopSteps, volumes, assoc, locals, past, Volume, At, Goto, Finish, Outcome
<1>0. TypeOK /\ Rest /\ ImageOf \in [VM -> Image] /\ NoVM \notin VM
  BY ImageOfAssumption, NamesAssumption DEF KeptInv
<1>1. ASSUME NEW v \in VM, CallPrepare(v) \/ CallStart(v) \/ CallStop(v) PROVE TypeOK' /\ Rest'
  BY <1>0, <1>1 DEF CallPrepare, CallStart, CallStop, Call
<1>2. ASSUME NEW v \in VM, Redeploy(v) PROVE TypeOK' /\ Rest'
  BY <1>0, <1>2 DEF Redeploy
<1>3. ASSUME NEW v \in VM, Enter(v) PROVE TypeOK' /\ Rest'
  BY <1>0, <1>3 DEF Enter
<1>4. ASSUME NEW v \in VM, Resolve(v) PROVE TypeOK' /\ Rest'
  BY <1>0, <1>4 DEF Resolve
<1>5. ASSUME NEW v \in VM, FetchKey(v) PROVE TypeOK' /\ Rest'
  BY <1>0, <1>5 DEF FetchKey
<1>6. ASSUME NEW v \in VM, VolumeExists(v) PROVE TypeOK' /\ Rest'
  BY <1>0, <1>6 DEF VolumeExists
<1>7. ASSUME NEW v \in VM, CreateVolume(v) PROVE TypeOK' /\ Rest'
  BY <1>0, <1>7 DEF CreateVolume
<1>8. ASSUME NEW v \in VM, OpenVolume(v) PROVE TypeOK' /\ Rest'
  BY <1>0, <1>8 DEF OpenVolume
<1>9. ASSUME NEW v \in VM, PlacePlaceholder(v) PROVE TypeOK' /\ Rest'
  BY <1>0, <1>9 DEF PlacePlaceholder
<1>10. ASSUME NEW v \in VM, MountVolume(v) PROVE TypeOK' /\ Rest'
  BY <1>0, <1>10 DEF MountVolume
<1>11. ASSUME NEW v \in VM, FillVolume(v) PROVE TypeOK' /\ Rest'
  BY <1>0, <1>11 DEF FillVolume
<1>12. ASSUME NEW v \in VM, QemuImgInfo(v) PROVE TypeOK' /\ Rest'
  BY <1>0, <1>12 DEF QemuImgInfo
<1>13. ASSUME NEW v \in VM, RecreateDisk(v) PROVE TypeOK' /\ Rest'
  BY <1>0, <1>13 DEF RecreateDisk
<1>14. ASSUME NEW v \in VM, ResizeDisk(v) PROVE TypeOK' /\ Rest'
  BY <1>0, <1>14 DEF ResizeDisk
<1>15. ASSUME NEW v \in VM, RemoveDisk(v) \/ SymlinkDisk(v) PROVE TypeOK' /\ Rest'
  BY <1>0, <1>15 DEF RemoveDisk, SymlinkDisk
<1>16. ASSUME NEW v \in VM, WatchDisk(v) PROVE TypeOK' /\ Rest'
  BY <1>0, <1>16 DEF WatchDisk
<1>17. ASSUME NEW v \in VM, Verify(v) PROVE TypeOK' /\ Rest'
  BY <1>0, <1>17 DEF Verify
<1>18. ASSUME NEW v \in VM, Attest(v) PROVE TypeOK' /\ Rest'
  BY <1>0, <1>18 DEF Attest
<1>19. ASSUME NEW v \in VM, CountVM(v) PROVE TypeOK' /\ Rest'
  BY <1>0, <1>19 DEF CountVM
<1>20. ASSUME NEW v \in VM, Started(v) PROVE TypeOK' /\ Rest'
  BY <1>0, <1>20 DEF Started
<1>21. ASSUME NEW v \in VM, StatDisk(v) PROVE TypeOK' /\ Rest'
  BY <1>0, <1>21 DEF StatDisk
<1>22. ASSUME NEW v \in VM, Unmount(v) PROVE TypeOK' /\ Rest'
  BY <1>0, <1>22 DEF Unmount
<1>23. ASSUME NEW v \in VM, DeleteVolume(v) PROVE TypeOK' /\ Rest'
  BY <1>0, <1>23 DEF DeleteVolume
<1>24. ASSUME NEW v \in VM, UncountVM(v) PROVE TypeOK' /\ Rest'
  BY <1>0, <1>24 DEF UncountVM
<1>25. ASSUME NEW v \in VM, NotCounted(v) PROVE TypeOK' /\ Rest'
  BY <1>0, <1>25 DEF NotCounted
<1>26. ASSUME NEW v \in VM, NoKey(v) \/ NoFlavor(v) \/ ReportRefused(v) PROVE TypeOK' /\ Rest'
  <2>1. PICK step \in {"key", "verify", "attest"} : Refuse(v, step)
    BY <1>26 DEF NoKey, NoFlavor, ReportRefused
  <2>2. TypeOK'
    BY <1>0, <2>1 DEF Refuse
  <2>3. Rest'
    BY <1>0, <2>1 DEF Refuse
  <2> QED
    BY <2>2, <2>3
<1>27. ASSUME NEW v \in VM, Fail(v) PROVE TypeOK' /\ Rest'
  BY <1>0, <1>27, EnvironmentAssumption DEF Fail, Fault
<1>28. ASSUME NEW v \in VM, FailLogged(v) \/ Unheard(v) PROVE TypeOK' /\ Rest'
  BY <1>0, <1>28, EnvironmentAssumption DEF FailLogged, Unheard, Fault
<1>29. ASSUME Crash PROVE TypeOK' /\ Rest'
  BY <1>0, <1>29, EnvironmentAssumption DEF Crash, Fault
<1>30. ASSUME Reboot PROVE TypeOK' /\ Rest'
  BY <1>0, <1>30, EnvironmentAssumption DEF Reboot, Fault
<1>31. ASSUME UNCHANGED vars PROVE TypeOK' /\ Rest'
  BY <1>0, <1>31 DEF vars
<1> QED
  BY <1>1, <1>2, <1>3, <1>4, <1>5, <1>6, <1>7, <1>8, <1>9, <1>10, <1>11, <1>12, <1>13,
     <1>14, <1>15, <1>16, <1>17, <1>18, <1>19, <1>20, <1>21, <1>22, <1>23, <1>24, <1>25,
     <1>26, <1>27, <1>28, <1>29, <1>30, <1>31
     DEF Next, Hook, Prepare, Start, Stop

-----------------------------------------------------------------------------
(* Volumes and disks.                                                      *)

Data == MountedOpen /\ Opening /\ Kept

(* What a step may do to the contents of volumes.                          *)
Stays == \A x \in filled : x \in filled' \/ x \notin sparse'

(* Handlers that hold wlaMtx are alone among them.                         *)
LEMMA Alone ==
  ASSUME KeptInv, NEW v \in VM, pc[v] \in PrepareSteps \cup StopSteps,
         NEW w \in VM \ {v}
  PROVE  pc[w] \notin PrepareSteps \cup StopSteps
BY DEF KeptInv, Locked

(* A step that leaves volumes and disks alone.                             *)
LEMMA VolumesAlone ==
  ASSUME KeptInv, UNCHANGED <<volumes, disk>>,
         \A v \in VM : pc'[v] \in {"open", "placeholder", "mount", "remove", "symlink"} =>
                       pc'[v] = pc[v] /\ vol'[v] = vol[v]
  PROVE  Data' /\ Stays
BY DEF KeptInv, Data, MountedOpen, Opening, Kept, ChangeDiskKept, Copied, Stays, volumes

(* Every step keeps volumes, disks and contents together.                  *)
LEMMA DataStep ==
  ASSUME KeptInv, [Next]_vars
  PROVE  Data' /\ Stays
<1> USE DEF Data, MountedOpen, Opening, Kept, ChangeDiskKept, Copied, Stays, At, Goto, Finish
<1>0. /\ TypeOK /\ Locked /\ VolOf /\ OffIsIdle /\ Data
      /\ ImageOf \in [VM -> Image] /\ VM \cap Image = {}
  BY ImageOfAssumption, NamesAssumption DEF KeptInv
<1>a. pc \in [VM -> {"idle", "queued"} \cup PrepareSteps \cup StartSteps \cup StopSteps]
  BY <1>0 DEF TypeOK
<1>b. \A v, w \in VM : pc[v] \in PrepareSteps \cup StopSteps /\ w # v =>
        pc[w] \notin PrepareSteps \cup StopSteps
  BY Alone
<1>1. ASSUME NEW v \in VM, CallPrepare(v) \/ CallStart(v) \/ CallStop(v) PROVE Data' /\ Stays
  BY <1>1, <1>a, VolumesAlone DEF CallPrepare, CallStart, CallStop, Call, locals
<1>2. ASSUME NEW v \in VM, Redeploy(v) PROVE Data' /\ Stays
  <2>1. pc[v] = "idle" /\ \A w \in VM \ {v} : vol[w] # v
    BY <1>0, <1>2 DEF OffIsIdle, VolOf, Redeploy
  <2>2. disk \in [VM -> {"overlay", "rebased", "none", "symlink"}]
    BY <1>0 DEF TypeOK
  <2> QED
    BY <1>0, <1>2, <2>1, <2>2 DEF Redeploy, locals
<1>3. ASSUME NEW v \in VM, Enter(v) PROVE Data' /\ Stays
  BY <1>3, <1>a, VolumesAlone DEF Enter, locals
<1>4. ASSUME NEW v \in VM, Resolve(v) PROVE Data' /\ Stays
  BY <1>4, <1>a, VolumesAlone DEF Resolve
<1>5. ASSUME NEW v \in VM, FetchKey(v) PROVE Data' /\ Stays
  <2>1. vol \in [VM -> Volume]
    BY <1>0 DEF TypeOK
  <2> QED
    BY <1>5, <1>a, <2>1, VolumesAlone DEF FetchKey
<1>6. ASSUME NEW v \in VM, VolumeExists(v) PROVE Data' /\ Stays
  BY <1>6, <1>a, VolumesAlone DEF VolumeExists, locals
<1>7. ASSUME NEW v \in VM, CreateVolume(v) PROVE Data' /\ Stays
  BY <1>0, <1>7, <1>a DEF CreateVolume
<1>8. ASSUME NEW v \in VM, OpenVolume(v) PROVE Data' /\ Stays
  BY <1>0, <1>8, <1>a, <1>b DEF OpenVolume, locals, PrepareSteps, ImageSteps
<1>9. ASSUME NEW v \in VM, PlacePlaceholder(v) PROVE Data' /\ Stays
  BY <1>0, <1>9, <1>a DEF PlacePlaceholder, locals
<1>10. ASSUME NEW v \in VM, MountVolume(v) PROVE Data' /\ Stays
  <2>1. \A w \in VM \ {v} : pc[w] \notin PrepareSteps /\ pc'[w] = pc[w]
    BY <1>10, <1>a, <1>b DEF MountVolume, PrepareSteps, ImageSteps
  <2>2. pc'[v] \in {"fill", "idle", "info"}
    BY <1>10, <1>a DEF MountVolume
  <2>3. \A w \in VM : pc'[w] \notin {"open", "placeholder", "mount", "remove", "symlink"}
    BY <2>1, <2>2 DEF PrepareSteps, ImageSteps
  <2>4. vol[v] \in open /\ mounted' \subseteq open' /\ filled' = filled /\ disk' = disk
    BY <1>0, <1>10 DEF MountVolume
  <2> QED
    BY <1>0, <2>3, <2>4
<1>11. ASSUME NEW v \in VM, FillVolume(v) PROVE Data' /\ Stays
  BY <1>0, <1>11, <1>a DEF FillVolume, locals
<1>12. ASSUME NEW v \in VM, QemuImgInfo(v) PROVE Data' /\ Stays
  BY <1>12, <1>a, VolumesAlone DEF QemuImgInfo, locals
<1>13. ASSUME NEW v \in VM, RecreateDisk(v) PROVE Data' /\ Stays
  <2>1. /\ disk \in [VM -> {"overlay", "rebased", "none", "symlink"}]
        /\ vol \in [VM -> Volume]
    BY <1>0 DEF TypeOK
  <2> QED
    BY <1>0, <1>13, <1>a, <2>1 DEF RecreateDisk, volumes
<1>14. ASSUME NEW v \in VM, ResizeDisk(v) PROVE Data' /\ Stays
  <2>1. vol \in [VM -> Volume]
    BY <1>0 DEF TypeOK
  <2> QED
    BY <1>14, <1>a, <2>1, VolumesAlone DEF ResizeDisk
<1>15. ASSUME NEW v \in VM, RemoveDisk(v) \/ SymlinkDisk(v) PROVE Data' /\ Stays
  <2>1. disk \in [VM -> {"overlay", "rebased", "none", "symlink"}]
    BY <1>0 DEF TypeOK
  <2> QED
    BY <1>0, <1>15, <1>a, <2>1 DEF RemoveDisk, SymlinkDisk, volumes, locals
<1>16. ASSUME NEW v \in VM, WatchDisk(v) PROVE Data' /\ Stays
  BY <1>16, <1>a, VolumesAlone DEF WatchDisk, locals
<1>17. ASSUME NEW v \in VM, Verify(v) \/ Attest(v) \/ CountVM(v) \/ Started(v)
       PROVE  Data' /\ Stays
  BY <1>17, <1>a, VolumesAlone DEF Verify, Attest, CountVM, Started, locals
<1>18. ASSUME NEW v \in VM, StatDisk(v) PROVE Data' /\ Stays
  <2>1. vol \in [VM -> Volume]
    BY <1>0 DEF TypeOK
  <2> QED
    BY <1>18, <1>a, <2>1, VolumesAlone DEF StatDisk
<1>19. ASSUME NEW v \in VM, Unmount(v) PROVE Data' /\ Stays
  BY <1>0, <1>19, <1>a DEF Unmount, locals
<1>20. ASSUME NEW v \in VM, DeleteVolume(v) PROVE Data' /\ Stays
  <2>1. \A w \in VM \ {v} : pc[w] \notin PrepareSteps /\ pc'[w] = pc[w]
    BY <1>20, <1>a, <1>b DEF DeleteVolume, StopSteps
  <2>2. pc'[v] \in {"delete", "idle"}
    BY <1>20, <1>a DEF DeleteVolume
  <2>3. \A w \in VM : pc'[w] \notin {"open", "placeholder", "mount", "remove", "symlink"}
    BY <2>1, <2>2 DEF PrepareSteps, ImageSteps
  <2>4. mounted' \subseteq open' /\ filled' = filled /\ disk' = disk
    BY <1>0, <1>20 DEF DeleteVolume
  <2> QED
    BY <1>0, <2>3, <2>4
<1>21. ASSUME NEW v \in VM, UncountVM(v) PROVE Data' /\ Stays
  <2>1. vol \in [VM -> Volume]
    BY <1>0 DEF TypeOK
  <2> QED
    BY <1>21, <1>a, <2>1, VolumesAlone DEF UncountVM
<1>22. ASSUME NEW v \in VM, NotCounted(v) PROVE Data' /\ Stays
  BY <1>22, <1>a, VolumesAlone DEF NotCounted, locals
<1>23. ASSUME NEW v \in VM, NoKey(v) \/ NoFlavor(v) \/ ReportRefused(v) PROVE Data' /\ Stays
  BY <1>23, <1>a, VolumesAlone DEF NoKey, NoFlavor, ReportRefused, Refuse, locals
<1>24. ASSUME NEW v \in VM, Fail(v) \/ FailLogged(v) \/ Unheard(v) PROVE Data' /\ Stays
  BY <1>24, <1>a, VolumesAlone DEF Fail, FailLogged, Unheard, locals
<1>25. ASSUME Crash PROVE Data' /\ Stays
  BY <1>25, VolumesAlone DEF Crash, locals
<1>26. ASSUME Reboot PROVE Data' /\ Stays
  BY <1>0, <1>26 DEF Reboot, locals
<1>27. ASSUME UNCHANGED vars PROVE Data' /\ Stays
  BY <1>27, VolumesAlone DEF vars, locals
<1> QED
  BY <1>1, <1>2, <1>3, <1>4, <1>5, <1>6, <1>7, <1>8, <1>9, <1>10, <1>11, <1>12, <1>13,
     <1>14, <1>15, <1>16, <1>17, <1>18, <1>19, <1>20, <1>21, <1>22, <1>23, <1>24, <1>25,
     <1>26, <1>27
     DEF Next, Hook, Prepare, Start, Stop

-----------------------------------------------------------------------------
(* Theorems.                                                               *)

(* The invariant holds initially.                                          *)
LEMMA KeptInit == Init => KeptInv
<1> SUFFICES ASSUME Init PROVE KeptInv
  OBVIOUS
<1>1. TypeOK
  <2>1. 0 \in 0 .. MaxFaults
    BY EnvironmentAssumption
  <2>2. /\ vol \in [VM -> Volume]
        /\ pc \in [VM -> {"idle", "queued"} \cup PrepareSteps \cup StartSteps \cup StopSteps]
        /\ count \in [Image -> Nat]
    BY DEF Init, Volume
  <2>3. /\ fresh \in [VM -> BOOLEAN]
        /\ key \in [VM -> BOOLEAN]
    BY DEF Init
  <2> QED
    BY <2>1, <2>2, <2>3 DEF Init, TypeOK
<1>2. Locked /\ VolOf /\ OffIsIdle
  BY DEF Init, Locked, VolOf, OffIsIdle, PrepareSteps, ImageSteps, StopSteps
<1>3. MountedOpen /\ Opening /\ Kept
  BY DEF Init, MountedOpen, Opening, Kept, ChangeDiskKept, Copied
<1> QED
  BY <1>1, <1>2, <1>3 DEF KeptInv

(* Every step preserves it and overwrites no data.                         *)
LEMMA KeptStep ==
  ASSUME KeptInv, [Next]_vars
  PROVE  KeptInv' /\ Stays
BY ControlStep, DataStep DEF KeptInv, Rest, Data

(* Every variable keeps its type, whatever fails: no VMCount drops below   *)
(* zero.                                                                   *)
THEOREM TypeCorrect == Spec => []TypeOK
<1>1. KeptInv => TypeOK
  BY DEF KeptInv
<1> QED
  BY <1>1, KeptInit, KeptStep, PTL DEF Spec

(* No failing step, crash or reboot loses the disk of a VM: it is removed  *)
(* or replaced by the symlink only with its contents in the VM's volume.   *)
THEOREM DisksKept == Spec => []ChangeDiskKept
<1>1. KeptInv => ChangeDiskKept
  BY DEF KeptInv, Kept
<1> QED
  BY <1>1, KeptInit, KeptStep, PTL DEF Spec

(* No retry truncates a decrypted image or a change disk: the placeholder  *)
(* is only made while the volume is not mounted.                           *)
THEOREM NothingOverwritten == Spec => DataStays
<1>1. ASSUME KeptInv, [Next]_vars PROVE [Stays]_vars
  BY <1>1, KeptStep
<1> QED
  BY <1>1, KeptInit, KeptStep, PTL DEF Spec, DataStays, Stays
=============================================================================
