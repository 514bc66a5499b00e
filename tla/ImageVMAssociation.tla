------------------------- MODULE ImageVMAssociation -------------------------
(***************************************************************************)
(* The image-VM association of the workload agent: how many VMs use each   *)
(* image.  It is a map in memory (util.ImageVMAssociations), a yaml file   *)
(* that survives a restart of the daemon, and the three RPC handlers that  *)
(* touch them:                                                             *)
(*   Start   -> iAssoc.Create()                   (no lock but MapMtx)     *)
(*   Stop    -> iAssoc.Delete()                   (under wlaMtx)           *)
(*   Prepare -> imagePathFromVMAssociationFile()  (under wlaMtx)           *)
(* A handler runs on behalf of one VM, and libvirt makes the calls for one *)
(* VM one after the other, so a VM is also the process that executes its   *)
(* current call.                                                           *)
(*                                                                         *)
(* An entry is modelled by its VMCount.  Its ImagePath is MountPath/id/id  *)
(* for the image id, a function of the key.                                *)
(***************************************************************************)
EXTENDS Integers, FiniteSets

CONSTANTS
  VM, Image,        \* the domains of this host and the images they boot from
  ImageOf,          \* the image of each VM
  NoVM,             \* "no holder" of a mutex
  Overlap,          \* calls for different VMs may be in flight together
  PathlessPrepare,  \* Prepare may get a domain XML without an image path
  UncountedStop,    \* Stop may be called for a VM whose Start never counted it
  SaveFails,        \* Stat may report wrong permissions, WriteFile may fail
  TornWrite,        \* the daemon may die between truncating and writing the file
  MaxCrashes        \* bound on the number of crashes of the daemon

ASSUME FiniteAssumption == IsFiniteSet(VM)
ASSUME ImageOfAssumption == ImageOf \in [VM -> Image]
ASSUME NoVMAssumption == NoVM \notin VM
ASSUME EnvironmentAssumption ==
  /\ {Overlap, PathlessPrepare, UncountedStop, SaveFails, TornWrite} \subseteq BOOLEAN
  /\ MaxCrashes \in Nat

VARIABLES
  assocs,     \* util.ImageVMAssociations: image -> VMCount
  assocFile,  \* the contents of the yaml file
  mapMtx,     \* writer of util.MapMtx
  wlaMtx,     \* holder of wlaMtx
  pc, op,     \* the next step and the kind of the call made for each VM
  ptr,        \* imageAttributes, ok of Create: did it find the entry, is it in the map
  buf,        \* the marshalled map (SaveImage...) or the bytes read (LoadImage...)
  verdict,    \* what Delete returned last for the VM
  up,         \* the daemon is running
  crashes,
  attached    \* history: VMs counted by Create and not yet taken off by Delete

locks == <<mapMtx, wlaMtx>>
vars == <<assocs, assocFile, locks, pc, op, ptr, buf, verdict, up, crashes, attached>>

-----------------------------------------------------------------------------

IsAssociations(m) == DOMAIN m \subseteq Image /\ m \in [DOMAIN m -> Nat]
NoAssociations == [i \in {} |-> 0]

Put(m, i, n) == [j \in DOMAIN m \cup {i} |-> IF j = i THEN n ELSE m[j]]

(* yaml.Unmarshal into a map that is not empty: the keys of the file win.  *)
Merge(file, m) ==
  [j \in DOMAIN file \cup DOMAIN m |-> IF j \in DOMAIN file THEN file[j] ELSE m[j]]

Count(m, i) == IF i \in DOMAIN m THEN m[i] ELSE 0

StartSteps   == {"create", "store"}
StopSteps    == {"queued", "delete"}
PrepareSteps == {"queued", "len", "load", "read", "unmarshal", "get"}
SaveSteps    == {"marshal", "stat", "open", "write"}

TypeOK ==
  /\ IsAssociations(assocs)
  /\ IsAssociations(assocFile)
  /\ mapMtx \in VM \cup {NoVM}
  /\ wlaMtx \in VM \cup {NoVM}
  /\ op \in [VM -> {"Start", "Stop", "Prepare"}]
  /\ pc \in [VM -> {"idle"} \cup StartSteps \cup StopSteps \cup PrepareSteps \cup SaveSteps]
  /\ ptr \in [VM -> {"none", "live", "orphan"}]
  /\ DOMAIN buf = VM /\ \A v \in VM : IsAssociations(buf[v])
  /\ verdict \in [VM -> {"none", "last", "shared", "missing"}]
  /\ up \in BOOLEAN
  /\ crashes \in 0 .. MaxCrashes
  /\ attached \subseteq VM

Init ==
  /\ assocs = NoAssociations
  /\ assocFile = NoAssociations
  /\ mapMtx = NoVM
  /\ wlaMtx = NoVM
  /\ pc = [v \in VM |-> "idle"]
  /\ op = [v \in VM |-> "Stop"]
  /\ ptr = [v \in VM |-> "none"]
  /\ buf = [v \in VM |-> NoAssociations]
  /\ verdict = [v \in VM |-> "none"]
  /\ up = TRUE
  /\ crashes = 0
  /\ attached = {}

-----------------------------------------------------------------------------
(* The hooks call the daemon.                                              *)

Goto(v, step) == pc' = [pc EXCEPT ![v] = step]

Idle(v) == pc[v] = "idle"

Call(v, kind, step) ==
  /\ up
  /\ Idle(v)
  /\ Overlap \/ \A w \in VM : Idle(w)
  /\ Goto(v, step)
  /\ op' = [op EXCEPT ![v] = kind]
  /\ verdict' = [verdict EXCEPT ![v] = "none"]
  /\ UNCHANGED <<assocs, assocFile, locks, ptr, buf, up, crashes, attached>>

CallStart(v) == v \notin attached /\ Call(v, "Start", "create")

CallStop(v) == (v \in attached \/ UncountedStop) /\ Call(v, "Stop", "queued")

CallPrepare(v) ==
  PathlessPrepare /\ v \notin attached /\ Call(v, "Prepare", "queued")

(* wlaMtx.Lock() of Prepare and Stop.                                      *)
Enter(v) ==
  /\ pc[v] = "queued"
  /\ wlaMtx = NoVM
  /\ wlaMtx' = v
  /\ Goto(v, IF op[v] = "Stop" THEN "delete" ELSE "len")
  /\ UNCHANGED <<assocs, assocFile, mapMtx, op, ptr, buf, verdict, up, crashes, attached>>

(* The call returns: its locals are gone, the deferred wlaMtx.Unlock() ran.*)
Return(v) ==
  /\ Goto(v, "idle")
  /\ wlaMtx' = IF wlaMtx = v THEN NoVM ELSE wlaMtx
  /\ ptr' = [ptr EXCEPT ![v] = "none"]
  /\ buf' = [buf EXCEPT ![v] = NoAssociations]

-----------------------------------------------------------------------------
(* Create: look the entry up, then count the VM, all under MapMtx.  The    *)
(* two steps are told apart because Unmarshal runs outside the mutex and   *)
(* may replace the entry between them.                                     *)

(* Mutant: Create looks up without MapMtx.                                 *)
CreateLookUpUnlocked(v) ==
  /\ pc[v] = "create"
  /\ mapMtx' = v
  /\ ptr' = [ptr EXCEPT ![v] = IF ImageOf[v] \in DOMAIN assocs THEN "live" ELSE "none"]
  /\ Goto(v, "store")
  /\ UNCHANGED <<assocs, assocFile, wlaMtx, op, buf, verdict, up, crashes, attached>>

CreateLookUp(v) ==
  /\ pc[v] = "create"
  /\ mapMtx = NoVM
  /\ mapMtx' = v
  /\ ptr' = [ptr EXCEPT ![v] = IF ImageOf[v] \in DOMAIN assocs THEN "live" ELSE "none"]
  /\ Goto(v, "store")
  /\ UNCHANGED <<assocs, assocFile, wlaMtx, op, buf, verdict, up, crashes, attached>>

(* Mutant: an existing entry is counted without being looked at again      *)
(* under the lock, which is given back too late.                           *)
CreateStoreKeepsLock(v) ==
  /\ pc[v] = "store"
  /\ assocs' = Put(assocs, ImageOf[v], Count(assocs, ImageOf[v]) + 1)
  /\ attached' = attached \cup {v}
  /\ Goto(v, "marshal")
  /\ UNCHANGED <<assocFile, locks, op, ptr, buf, verdict, up, crashes>>

CreateStore(v) ==
  /\ pc[v] = "store"
  /\ assocs' = CASE ptr[v] = "none"   -> Put(assocs, ImageOf[v], 1)
                 [] ptr[v] = "live"   -> Put(assocs, ImageOf[v], assocs[ImageOf[v]] + 1)
                 [] ptr[v] = "orphan" -> assocs
  /\ mapMtx' = NoVM
  /\ attached' = attached \cup {v}
  /\ Goto(v, "marshal")
  /\ UNCHANGED <<assocFile, wlaMtx, op, ptr, buf, verdict, up, crashes>>

(* Mutants: isLastVM is computed before the decrement, with an off-by-one, *)
(* without the check of VMCount, or the map is not saved.                  *)
DeleteWith(v, isLast, next) ==
  /\ pc[v] = "delete"
  /\ mapMtx = NoVM
  /\ ImageOf[v] \in DOMAIN assocs
  /\ assocs' = Put(assocs, ImageOf[v], assocs[ImageOf[v]] - 1)
  /\ verdict' = [verdict EXCEPT ![v] = IF isLast THEN "last" ELSE "shared"]
  /\ attached' = attached \ {v}
  /\ next
  /\ UNCHANGED <<assocFile, mapMtx, op, up, crashes>>

DeleteGoesOn(v) == Goto(v, "marshal") /\ UNCHANGED <<wlaMtx, ptr, buf>>

DeleteChecksFirst(v) == DeleteWith(v, Count(assocs, ImageOf[v]) = 0, DeleteGoesOn(v))
DeleteOffByOne(v) == DeleteWith(v, Count(assocs, ImageOf[v]) <= 2, DeleteGoesOn(v))
DeleteUnchecked(v) == DeleteWith(v, Count(assocs, ImageOf[v]) = 1, DeleteGoesOn(v))
DeleteNotSaved(v) ==
  Count(assocs, ImageOf[v]) > 0 /\ DeleteWith(v, Count(assocs, ImageOf[v]) = 1, Return(v))

(* Delete up to its MapMtx.Unlock().  One step: whoever replaces entries   *)
(* holds wlaMtx, as the caller of Delete does.                             *)
DeleteCounted(v) ==
  LET i == ImageOf[v] IN
  /\ pc[v] = "delete"
  /\ mapMtx = NoVM
  /\ Count(assocs, i) > 0
  /\ assocs' = Put(assocs, i, assocs[i] - 1)
  /\ verdict' = [verdict EXCEPT ![v] = IF assocs[i] = 1 THEN "last" ELSE "shared"]
  /\ attached' = attached \ {v}
  /\ Goto(v, "marshal")
  /\ UNCHANGED <<assocFile, locks, op, ptr, buf, up, crashes>>

(* Mutant: the early return forgets MapMtx.Unlock().                       *)
DeleteMissingKeepsLock(v) ==
  /\ pc[v] = "delete"
  /\ mapMtx = NoVM
  /\ Count(assocs, ImageOf[v]) = 0
  /\ mapMtx' = v
  /\ verdict' = [verdict EXCEPT ![v] = "missing"]
  /\ attached' = attached \ {v}
  /\ Return(v)
  /\ UNCHANGED <<assocs, assocFile, op, up, crashes>>

(* "image VM association does not exist": Stop returns true with nothing   *)
(* to tear down.                                                           *)
DeleteMissing(v) ==
  /\ pc[v] = "delete"
  /\ mapMtx = NoVM
  /\ Count(assocs, ImageOf[v]) = 0
  /\ verdict' = [verdict EXCEPT ![v] = "missing"]
  /\ attached' = attached \ {v}
  /\ Return(v)
  /\ UNCHANGED <<assocs, assocFile, mapMtx, op, up, crashes>>

-----------------------------------------------------------------------------
(* SaveImageVMAssociation, the tail of Create and of Delete.  The map is   *)
(* marshalled before MapMtx is taken.  WriteFile truncates, then writes.   *)

Marshal(v) ==
  /\ pc[v] = "marshal"
  /\ buf' = [buf EXCEPT ![v] = assocs]
  /\ Goto(v, "stat")
  /\ UNCHANGED <<assocs, assocFile, locks, op, ptr, verdict, up, crashes, attached>>

StatFile(v) ==
  /\ pc[v] = "stat"
  /\ Goto(v, "open")
  /\ UNCHANGED <<assocs, assocFile, locks, op, ptr, buf, verdict, up, crashes, attached>>

StatFails(v) ==
  /\ SaveFails
  /\ pc[v] = "stat"
  /\ Return(v)
  /\ UNCHANGED <<assocs, assocFile, mapMtx, op, verdict, up, crashes, attached>>

(* Mutant: the file is written without MapMtx.                             *)
WriteOpenUnlocked(v) ==
  /\ pc[v] = "open"
  /\ assocFile' = NoAssociations
  /\ Goto(v, "write")
  /\ UNCHANGED <<assocs, locks, op, ptr, buf, verdict, up, crashes, attached>>

WriteOpen(v) ==
  /\ pc[v] = "open"
  /\ mapMtx = NoVM
  /\ mapMtx' = v
  /\ assocFile' = NoAssociations
  /\ Goto(v, "write")
  /\ UNCHANGED <<assocs, wlaMtx, op, ptr, buf, verdict, up, crashes, attached>>

WriteClose(v, contents) ==
  /\ pc[v] = "write"
  /\ assocFile' = contents
  /\ mapMtx' = NoVM
  /\ Return(v)
  /\ UNCHANGED <<assocs, op, verdict, up, crashes, attached>>

WriteFile(v) == WriteClose(v, buf[v])

WriteFails(v) == SaveFails /\ WriteClose(v, NoAssociations)

-----------------------------------------------------------------------------
(* imagePathFromVMAssociationFile: load the file first if the map is empty.*)
(* The length, the file and the map are read, and the map is filled,       *)
(* outside MapMtx.                                                         *)

(* Mutant: the file is loaded even if the map is not empty.                *)
LookUpAlwaysLoads(v) ==
  /\ pc[v] = "len"
  /\ Goto(v, "load")
  /\ UNCHANGED <<assocs, assocFile, locks, op, ptr, buf, verdict, up, crashes, attached>>

LookUpLen(v) ==
  /\ pc[v] = "len"
  /\ Goto(v, IF assocs = NoAssociations THEN "load" ELSE "get")
  /\ UNCHANGED <<assocs, assocFile, locks, op, ptr, buf, verdict, up, crashes, attached>>

LoadOpen(v) ==
  /\ pc[v] = "load"
  /\ mapMtx = NoVM
  /\ Goto(v, "read")
  /\ UNCHANGED <<assocs, assocFile, locks, op, ptr, buf, verdict, up, crashes, attached>>

LoadRead(v) ==
  /\ pc[v] = "read"
  /\ buf' = [buf EXCEPT ![v] = assocFile]
  /\ Goto(v, "unmarshal")
  /\ UNCHANGED <<assocs, assocFile, locks, op, ptr, verdict, up, crashes, attached>>

(* Every key of the file gets a new entry; a Create that holds the old one *)
(* will increment an entry nobody can see any more.                        *)
Unmarshal(v) ==
  /\ pc[v] = "unmarshal"
  /\ assocs' = Merge(buf[v], assocs)
  /\ ptr' = [w \in VM |-> IF ptr[w] = "live" /\ ImageOf[w] \in DOMAIN buf[v]
                          THEN "orphan" ELSE ptr[w]]
  /\ Goto(v, "get")
  /\ UNCHANGED <<assocFile, locks, op, buf, verdict, up, crashes, attached>>

LookUpGet(v) ==
  /\ pc[v] = "get"
  /\ mapMtx = NoVM
  /\ Return(v)
  /\ UNCHANGED <<assocs, assocFile, mapMtx, op, verdict, up, crashes, attached>>

-----------------------------------------------------------------------------
(* The daemon dies and systemd restarts it.  The hook of a call in flight  *)
(* sees the connection break: a VM being started does not run, a VM being  *)
(* stopped stops all the same.  A VM that stops while the daemon is down   *)
(* is never taken off.                                                     *)

Crash ==
  /\ up
  /\ crashes < MaxCrashes
  /\ TornWrite \/ \A v \in VM : pc[v] # "write"
  /\ up' = FALSE
  /\ crashes' = crashes + 1
  /\ assocs' = NoAssociations
  /\ mapMtx' = NoVM
  /\ wlaMtx' = NoVM
  /\ pc' = [v \in VM |-> "idle"]
  /\ ptr' = [v \in VM |-> "none"]
  /\ buf' = [v \in VM |-> NoAssociations]
  /\ attached' = {v \in attached : Idle(v)}
  /\ UNCHANGED <<assocFile, op, verdict>>

StopWhileDown(v) ==
  /\ ~up
  /\ attached' = attached \ {v}
  /\ UNCHANGED <<assocs, assocFile, locks, pc, op, ptr, buf, verdict, up, crashes>>

(* Mutant: the daemon starts without LoadImageVMAssociation.               *)
RestartEmpty ==
  /\ ~up
  /\ up' = TRUE
  /\ UNCHANGED <<assocs, assocFile, locks, pc, op, ptr, buf, verdict, crashes, attached>>

Restart ==
  /\ ~up
  /\ up' = TRUE
  /\ assocs' = assocFile
  /\ UNCHANGED <<assocFile, locks, pc, op, ptr, buf, verdict, crashes, attached>>

-----------------------------------------------------------------------------

(* The steps that wait for a mutex, and the ones that do not.              *)
LockStep(v) ==
  \/ Enter(v)
  \/ CreateLookUp(v)
  \/ DeleteCounted(v)
  \/ DeleteMissing(v)
  \/ WriteOpen(v)
  \/ LoadOpen(v)
  \/ LookUpGet(v)

FreeStep(v) ==
  \/ CreateStore(v)
  \/ Marshal(v)
  \/ StatFile(v)
  \/ WriteFile(v)
  \/ LookUpLen(v)
  \/ LoadRead(v)
  \/ Unmarshal(v)

Step(v) ==
  \/ CallStart(v)
  \/ CallStop(v)
  \/ CallPrepare(v)
  \/ LockStep(v)
  \/ FreeStep(v)
  \/ StatFails(v)
  \/ WriteFails(v)
  \/ StopWhileDown(v)

Next == (\E v \in VM : Step(v)) \/ Crash \/ Restart

Spec == Init /\ [][Next]_vars

(* A runnable goroutine runs, and a Go mutex hands itself over to a waiter *)
(* it has starved for a millisecond.                                       *)
Fairness ==
  \A v \in VM : WF_vars(FreeStep(v)) /\ SF_vars(LockStep(v))

FairSpec == Spec /\ Fairness

-----------------------------------------------------------------------------
(* Properties.                                                             *)

Users(i) == {v \in attached : ImageOf[v] = i}

(* What CountMatchesUsers needs of the environment: the daemon does not    *)
(* crash, no association is re-read from the file and Stop is only called  *)
(* for a VM that Start counted.                                            *)
Steady == MaxCrashes = 0 /\ ~PathlessPrepare /\ ~UncountedStop

(* MapMtx is held exactly from Create's look-up to its store and around    *)
(* WriteFile.                                                              *)
MapMtxHeld == \A v \in VM : mapMtx = v <=> pc[v] \in {"store", "write"}

(* What holds in every environment: MapMtx is held as it should be, no     *)
(* call survives a crash, and an entry that Create found is not gone when  *)
(* it increments it.                                                       *)
MutexInv ==
  /\ TypeOK
  /\ MapMtxHeld
  /\ \A v \in VM :
       /\ up \/ Idle(v)
       /\ pc[v] = "store" /\ ptr[v] = "live" => ImageOf[v] \in DOMAIN assocs

(* The inductive invariant behind CountMatchesUsers.  A VM in Create is    *)
(* not counted yet, one in Delete is; between Create's look-up and its     *)
(* store nobody adds or replaces the entry it found; and nobody looks up.  *)
SteadyInv ==
  /\ MutexInv
  /\ up
  /\ \A v \in VM :
       /\ pc[v] \in StartSteps => v \notin attached
       /\ pc[v] \in StopSteps => v \in attached /\ op[v] = "Stop"
       /\ pc[v] \notin PrepareSteps \ StopSteps
       /\ pc[v] = "store" =>
            ptr[v] = IF ImageOf[v] \in DOMAIN assocs THEN "live" ELSE "none"
  /\ \A i \in Image : Count(assocs, i) = Cardinality(Users(i))

(* VMCount is the number of VMs that Create counted and Delete did not     *)
(* take off again, whatever calls for different VMs interleave: no         *)
(* increment and no decrement is lost between a look-up and its store      *)
(* (image_VM_association.go, Create and Delete).                           *)
CountMatchesUsers == \A i \in Image : Count(assocs, i) = Cardinality(Users(i))

(* With look-ups that re-read the file, VMCount may fall behind but never  *)
(* exceeds the number of users: the image of a host without VMs of it      *)
(* cannot stay counted (imagePathFromVMAssociationFile against Create).    *)
CountNeverExceedsUsers == \A i \in Image : Count(assocs, i) <= Cardinality(Users(i))

(* While the daemon runs, VMCount covers every running VM, even after      *)
(* crashes: an early count of zero would tear an image down under a VM.    *)
(* Needs calls one at a time and a file that is never left truncated.      *)
CountCoversUsers ==
  up => \A i \in Image : Count(assocs, i) >= Cardinality(Users(i))

(* When no call is in flight the file holds the map: what a restart loads  *)
(* is what the daemon knew ("SaveImageVMAssociation method saves vm image  *)
(* association to yaml file", util.go:63).                                 *)
FileMatchesMap == up /\ (\A v \in VM : Idle(v)) => assocFile = assocs

(* Two calls that save at the same time do not mix their bytes: only one   *)
(* of them is between WriteFile's truncation and its write                 *)
(* (SaveImageVMAssociation).                                               *)
OneWriter == \A v, w \in VM : pc[v] = "write" /\ pc[w] = "write" => v = w

(* Delete reports the last VM exactly when no other VM uses the image at   *)
(* that moment: Stop tears the image down on this answer (stop.go:75-97).  *)
LastMeansNoOtherUser ==
  [][\A v \in VM :
       verdict'[v] # verdict[v] =>
         /\ verdict'[v] = "last"   => Users(ImageOf[v]) \subseteq {v}
         /\ verdict'[v] = "shared" => ~ Users(ImageOf[v]) \subseteq {v}
         /\ verdict'[v] = "missing" => v \notin attached]_vars

(* Every call returns: no handler is stuck behind MapMtx or wlaMtx.        *)
EveryCallReturns == \A v \in VM : []<>(Idle(v))

(* Whatever the interleaving, the three handlers look like an atomic       *)
(* registry of VMs: Create and Delete take effect at one instant each.     *)
Registry == INSTANCE AttachmentRegistry
              WITH VM <- VM, ImageOf <- ImageOf, attached <- attached, verdict <- verdict
ImplementsRegistry == Registry!Spec
=============================================================================
