----------------------- MODULE ImageVMAssociationProofs ----------------------
(***************************************************************************)
(* Theorems about ImageVMAssociation, for any finite set of VMs.           *)
(***************************************************************************)
EXTENDS ImageVMAssociation, FiniteSetTheorems, TLAPS

-----------------------------------------------------------------------------
(* The operators on maps.                                                  *)

(* The empty map is a map of associations.                                 *)
LEMMA NoAssociationsType == IsAssociations(NoAssociations)
BY DEF IsAssociations, NoAssociations

(* Setting one count of an image yields a map of associations.             *)
LEMMA PutType ==
  ASSUME NEW m, IsAssociations(m), NEW i \in Image, NEW n \in Nat
  PROVE  IsAssociations(Put(m, i, n))
BY DEF IsAssociations, Put

(* So does reading a file into a map.                                      *)
LEMMA MergeType ==
  ASSUME NEW file, IsAssociations(file), NEW m, IsAssociations(m)
  PROVE  IsAssociations(Merge(file, m))
BY DEF IsAssociations, Merge

(* Setting one count changes that count and no other, and drops no key.    *)
LEMMA PutCount ==
  ASSUME NEW m, NEW i \in Image, NEW n, NEW j \in Image
  PROVE  /\ Count(Put(m, i, n), i) = n
         /\ j # i => Count(Put(m, i, n), j) = Count(m, j)
BY DEF Put, Count

(* Put gives the map an entry for i and removes none.                      *)
LEMMA PutDomain ==
  ASSUME NEW m, NEW i \in Image, NEW n
  PROVE  DOMAIN Put(m, i, n) = DOMAIN m \cup {i}
BY DEF Put

(* A count is a natural number, the one of the entry if there is one.      *)
LEMMA CountType ==
  ASSUME NEW m, IsAssociations(m), NEW i \in Image
  PROVE  /\ Count(m, i) \in Nat
         /\ i \in DOMAIN m => m[i] = Count(m, i)
         /\ Count(m, i) > 0 => i \in DOMAIN m
BY DEF IsAssociations, Count

-----------------------------------------------------------------------------
(* Every environment: types and MapMtx.                                    *)

(* What Create does to the map: the count of its image goes up by one if   *)
(* it found the entry in the map, or is set to one if it found none.       *)
LEMMA CreateStoreEffect ==
  ASSUME MutexInv, NEW v \in VM, CreateStore(v)
  PROVE  /\ IsAssociations(assocs')
         /\ DOMAIN assocs \subseteq DOMAIN assocs'
         /\ ptr[v] = "none" => assocs' = Put(assocs, ImageOf[v], 1)
         /\ ptr[v] = "live" =>
              assocs' = Put(assocs, ImageOf[v], Count(assocs, ImageOf[v]) + 1)
<1> DEFINE i == ImageOf[v]
<1>1. i \in Image /\ IsAssociations(assocs)
  BY ImageOfAssumption DEF MutexInv, TypeOK
<1>2. CASE ptr[v] = "none"
  <2>1. assocs' = Put(assocs, i, 1)
    BY <1>2 DEF CreateStore
  <2>2. IsAssociations(Put(assocs, i, 1))
    BY <1>1, PutType
  <2>3. DOMAIN Put(assocs, i, 1) = DOMAIN assocs \cup {i}
    BY <1>1, PutDomain
  <2> QED
    BY <1>2, <2>1, <2>2, <2>3
<1>3. CASE ptr[v] = "orphan"
  BY <1>1, <1>3 DEF CreateStore
<1>4. CASE ptr[v] = "live"
  <2>1. assocs' = Put(assocs, i, assocs[i] + 1)
    BY <1>4 DEF CreateStore
  <2>2. assocs[i] = Count(assocs, i) /\ Count(assocs, i) \in Nat
    BY <1>1, <1>4, CountType DEF MutexInv, CreateStore
  <2>3. IsAssociations(Put(assocs, i, Count(assocs, i) + 1))
    BY <1>1, <2>2, PutType
  <2>4. DOMAIN Put(assocs, i, Count(assocs, i) + 1) = DOMAIN assocs \cup {i}
    BY <1>1, PutDomain
  <2> QED
    BY <1>4, <2>1, <2>2, <2>3, <2>4
<1> QED
  BY <1>2, <1>3, <1>4 DEF MutexInv, TypeOK

(* What a Delete that found a counted entry does to the map.               *)
LEMMA DeleteEffect ==
  ASSUME MutexInv, NEW v \in VM, DeleteCounted(v)
  PROVE  /\ IsAssociations(assocs')
         /\ DOMAIN assocs' = DOMAIN assocs
         /\ assocs' = Put(assocs, ImageOf[v], Count(assocs, ImageOf[v]) - 1)
         /\ Count(assocs, ImageOf[v]) \in Nat \ {0}
         /\ verdict' = [verdict EXCEPT ![v] =
              IF Count(assocs, ImageOf[v]) = 1 THEN "last" ELSE "shared"]
<1> DEFINE i == ImageOf[v]
<1>1. i \in Image /\ IsAssociations(assocs)
  BY ImageOfAssumption DEF MutexInv, TypeOK
<1>2. /\ Count(assocs, i) \in Nat \ {0}
      /\ i \in DOMAIN assocs
      /\ assocs[i] = Count(assocs, i)
  BY <1>1, CountType DEF DeleteCounted
<1>3. assocs' = Put(assocs, i, Count(assocs, i) - 1)
  BY <1>2 DEF DeleteCounted
<1>4. IsAssociations(Put(assocs, i, Count(assocs, i) - 1))
  BY <1>1, <1>2, PutType
<1>5. DOMAIN Put(assocs, i, Count(assocs, i) - 1) = DOMAIN assocs \cup {i}
  BY <1>1, PutDomain
<1> QED
  BY <1>2, <1>3, <1>4, <1>5 DEF DeleteCounted

(* The initial state satisfies the invariant.                              *)
LEMMA MutexInit == Init => MutexInv
BY NoAssociationsType, NoVMAssumption, EnvironmentAssumption
   DEF Init, MutexInv, TypeOK, MapMtxHeld, Idle, StartSteps, StopSteps, PrepareSteps

(* Every step preserves the types.                                         *)
LEMMA TypeStep ==
  ASSUME MutexInv, [Next]_vars
  PROVE  TypeOK'
<1> USE DEF TypeOK, Goto, Return, StartSteps, StopSteps, PrepareSteps, SaveSteps, locks
<1>0. TypeOK
  BY DEF MutexInv
<1>1. ASSUME NEW v \in VM, CallStart(v) \/ CallStop(v) \/ CallPrepare(v) PROVE TypeOK'
  BY <1>0, <1>1 DEF CallStart, CallStop, CallPrepare, Call
<1>2. ASSUME NEW v \in VM, Enter(v) PROVE TypeOK'
  BY <1>0, <1>2 DEF Enter
<1>3. ASSUME NEW v \in VM, CreateLookUp(v) PROVE TypeOK'
  BY <1>0, <1>3 DEF CreateLookUp
<1>4. ASSUME NEW v \in VM, CreateStore(v) PROVE TypeOK'
  BY <1>0, <1>4, CreateStoreEffect DEF CreateStore
<1>5. ASSUME NEW v \in VM, DeleteCounted(v) PROVE TypeOK'
  BY <1>0, <1>5, DeleteEffect DEF DeleteCounted
<1>6. ASSUME NEW v \in VM, DeleteMissing(v) PROVE TypeOK'
  BY <1>0, <1>6, NoAssociationsType DEF DeleteMissing
<1>7. ASSUME NEW v \in VM, Marshal(v) PROVE TypeOK'
  BY <1>0, <1>7 DEF Marshal
<1>8. ASSUME NEW v \in VM, StatFile(v) \/ StatFails(v) PROVE TypeOK'
  BY <1>0, <1>8, NoAssociationsType DEF StatFile, StatFails
<1>9. ASSUME NEW v \in VM, WriteOpen(v) PROVE TypeOK'
  BY <1>0, <1>9, NoAssociationsType DEF WriteOpen
<1>10. ASSUME NEW v \in VM, WriteFile(v) \/ WriteFails(v) PROVE TypeOK'
  BY <1>0, <1>10, NoAssociationsType DEF WriteFile, WriteFails, WriteClose
<1>11. ASSUME NEW v \in VM, LookUpLen(v) \/ LoadOpen(v) \/ LoadRead(v) PROVE TypeOK'
  BY <1>0, <1>11 DEF LookUpLen, LoadOpen, LoadRead
<1>12. ASSUME NEW v \in VM, Unmarshal(v) PROVE TypeOK'
  BY <1>0, <1>12, MergeType DEF Unmarshal
<1>13. ASSUME NEW v \in VM, LookUpGet(v) PROVE TypeOK'
  BY <1>0, <1>13, NoAssociationsType DEF LookUpGet
<1>14. ASSUME NEW v \in VM, StopWhileDown(v) PROVE TypeOK'
  BY <1>0, <1>14 DEF StopWhileDown
<1>15. CASE Crash
  <2>1. crashes' \in 0 .. MaxCrashes
    BY <1>0, <1>15, EnvironmentAssumption DEF Crash
  <2>2. attached' \subseteq VM
    BY <1>0, <1>15 DEF Crash
  <2> QED
    BY <1>0, <1>15, <2>1, <2>2, NoAssociationsType DEF Crash
<1>16. CASE Restart
  BY <1>0, <1>16 DEF Restart
<1>17. CASE UNCHANGED vars
  BY <1>0, <1>17 DEF vars
<1> QED
  BY <1>1, <1>2, <1>3, <1>4, <1>5, <1>6, <1>7, <1>8, <1>9, <1>10, <1>11, <1>12,
     <1>13, <1>14, <1>15, <1>16, <1>17
     DEF Next, Step, LockStep, FreeStep

(* The steps that neither take MapMtx nor touch the map nor leave a        *)
(* critical section.                                                       *)
LEMMA QuietStep ==
  ASSUME MutexInv, TypeOK', NEW v \in VM,
         UNCHANGED <<assocs, mapMtx, up>>,
         \E step : Goto(v, step) /\ step \notin {"store", "write"},
         pc[v] \notin {"store", "write"},
         up,
         \A w \in VM : w # v => ptr'[w] = ptr[w]
  PROVE  MutexInv'
BY DEF MutexInv, MapMtxHeld, Goto, TypeOK, Idle

(* Every step preserves the invariant.                                     *)
LEMMA MutexStep == MutexInv /\ [Next]_vars => MutexInv'
<1> SUFFICES ASSUME MutexInv, [Next]_vars PROVE MutexInv'
  OBVIOUS
<1>0. TypeOK /\ TypeOK'
  BY TypeStep DEF MutexInv
<1>u. ASSUME NEW v \in VM, pc[v] # "idle" PROVE up
  BY <1>u DEF MutexInv, Idle
<1>1. ASSUME NEW v \in VM, CallStart(v) \/ CallStop(v) \/ CallPrepare(v) PROVE MutexInv'
  <2>1. \/ Goto(v, "create")
        \/ Goto(v, "queued")
    BY <1>1 DEF CallStart, CallStop, CallPrepare, Call
  <2> QED
    BY <1>0, <1>1, <2>1, QuietStep
       DEF CallStart, CallStop, CallPrepare, Call, Idle, locks
<1>2. ASSUME NEW v \in VM, Enter(v) PROVE MutexInv'
  <2>1. Goto(v, "delete") \/ Goto(v, "len")
    BY <1>2 DEF Enter
  <2> QED
    BY <1>0, <1>2, <1>u, <2>1, QuietStep DEF Enter
<1>3. ASSUME NEW v \in VM, CreateLookUp(v) PROVE MutexInv'
  BY <1>0, <1>3, <1>u, NoVMAssumption
     DEF CreateLookUp, MutexInv, MapMtxHeld, Goto, TypeOK, Idle
<1>4. ASSUME NEW v \in VM, CreateStore(v) PROVE MutexInv'
  <2>1. DOMAIN assocs \subseteq DOMAIN assocs'
    BY <1>4, CreateStoreEffect
  <2>2. /\ pc[v] = "store" /\ pc' = [pc EXCEPT ![v] = "marshal"]
        /\ mapMtx' = NoVM
        /\ UNCHANGED <<ptr, up>>
    BY <1>4 DEF CreateStore, Goto
  <2> QED
    BY <1>0, <1>u, <2>1, <2>2, NoVMAssumption DEF MutexInv, MapMtxHeld, TypeOK, Idle
<1>5. ASSUME NEW v \in VM, DeleteCounted(v) PROVE MutexInv'
  <2>1. DOMAIN assocs' = DOMAIN assocs
    BY <1>5, DeleteEffect
  <2>2. /\ pc[v] = "delete" /\ pc' = [pc EXCEPT ![v] = "marshal"]
        /\ UNCHANGED <<ptr, up, mapMtx>>
    BY <1>5 DEF DeleteCounted, Goto, locks
  <2> QED
    BY <1>0, <1>u, <2>1, <2>2 DEF MutexInv, MapMtxHeld, TypeOK, Idle
<1>6. ASSUME NEW v \in VM, DeleteMissing(v) \/ LookUpGet(v) \/ StatFails(v) PROVE MutexInv'
  <2>1. /\ UNCHANGED <<assocs, mapMtx, up>>
        /\ Goto(v, "idle")
        /\ pc[v] \in {"delete", "get", "stat"}
        /\ ptr' = [ptr EXCEPT ![v] = "none"]
    BY <1>6 DEF DeleteMissing, LookUpGet, StatFails, Return
  <2> QED
    BY <1>0, <1>u, <2>1, QuietStep DEF TypeOK
<1>7. ASSUME NEW v \in VM, Marshal(v) \/ StatFile(v) \/ LoadOpen(v) \/ LoadRead(v) PROVE MutexInv'
  <2>1. Goto(v, "stat") \/ Goto(v, "open") \/ Goto(v, "read") \/ Goto(v, "unmarshal")
    BY <1>7 DEF Marshal, StatFile, LoadOpen, LoadRead
  <2>2. /\ UNCHANGED <<assocs, mapMtx, up, ptr>>
        /\ pc[v] \in {"marshal", "stat", "load", "read"}
    BY <1>7 DEF Marshal, StatFile, LoadOpen, LoadRead, locks
  <2> QED
    BY <1>0, <1>u, <2>1, <2>2, QuietStep
<1>8. ASSUME NEW v \in VM, LookUpLen(v) PROVE MutexInv'
  <2>1. Goto(v, "load") \/ Goto(v, "get")
    BY <1>8 DEF LookUpLen
  <2> QED
    BY <1>0, <1>8, <1>u, <2>1, QuietStep DEF LookUpLen, locks
<1>9. ASSUME NEW v \in VM, WriteOpen(v) PROVE MutexInv'
  BY <1>0, <1>9, <1>u, NoVMAssumption
     DEF WriteOpen, MutexInv, MapMtxHeld, Goto, TypeOK, Idle
<1>10. ASSUME NEW v \in VM, WriteFile(v) \/ WriteFails(v) PROVE MutexInv'
  <2>1. /\ pc[v] = "write" /\ pc' = [pc EXCEPT ![v] = "idle"]
        /\ mapMtx' = NoVM
        /\ ptr' = [ptr EXCEPT ![v] = "none"]
        /\ UNCHANGED <<assocs, up>>
    BY <1>10 DEF WriteFile, WriteFails, WriteClose, Return, Goto
  <2> QED
    BY <1>0, <1>u, <2>1, NoVMAssumption DEF MutexInv, MapMtxHeld, TypeOK, Idle
<1>11. ASSUME NEW v \in VM, Unmarshal(v) PROVE MutexInv'
  <2>1. DOMAIN assocs \subseteq DOMAIN assocs'
    BY <1>11 DEF Unmarshal, Merge
  <2>2. \A w \in VM : ptr'[w] = "live" => ptr[w] = "live"
    BY <1>0, <1>11 DEF Unmarshal, TypeOK
  <2>3. /\ pc[v] = "unmarshal" /\ pc' = [pc EXCEPT ![v] = "get"]
        /\ UNCHANGED <<mapMtx, up>>
    BY <1>11 DEF Unmarshal, Goto, locks
  <2> QED
    BY <1>0, <1>u, <2>1, <2>2, <2>3 DEF MutexInv, MapMtxHeld, TypeOK, Idle
<1>12. ASSUME NEW v \in VM, StopWhileDown(v) PROVE MutexInv'
  BY <1>0, <1>12 DEF StopWhileDown, MutexInv, MapMtxHeld, Idle, locks
<1>13. CASE Crash
  BY <1>0, <1>13, NoVMAssumption DEF Crash, MutexInv, MapMtxHeld, TypeOK, Idle
<1>14. CASE Restart
  BY <1>0, <1>14 DEF Restart, MutexInv, MapMtxHeld, Idle, locks
<1>15. CASE UNCHANGED vars
  BY <1>0, <1>15 DEF vars, locks, MutexInv, MapMtxHeld, Idle
<1> QED
  BY <1>1, <1>2, <1>3, <1>4, <1>5, <1>6, <1>7, <1>8, <1>9, <1>10, <1>11, <1>12,
     <1>13, <1>14, <1>15
     DEF Next, Step, LockStep, FreeStep

(* In every environment the types are right and MapMtx is held exactly     *)
(* where the code holds it.                                                *)
THEOREM MutexInvariant == Spec => []MutexInv
BY MutexInit, MutexStep, PTL DEF Spec

(* Type correctness, in every environment.                                 *)
THEOREM TypeCorrect == Spec => []TypeOK
<1>1. MutexInv => TypeOK
  BY DEF MutexInv
<1> QED
  BY <1>1, MutexInvariant, PTL

(* Two saves never interleave their truncation and their write, in every   *)
(* environment, crashes and failing writes included.                       *)
THEOREM WritersExclude == Spec => []OneWriter
<1>1. MutexInv => OneWriter
  BY DEF MutexInv, MapMtxHeld, OneWriter
<1> QED
  BY <1>1, MutexInvariant, PTL

-----------------------------------------------------------------------------
(* The steady environment: the count is the number of users.               *)

(* The users of an image are finitely many.                                *)
LEMMA UsersFinite ==
  ASSUME TypeOK, NEW i \in Image
  PROVE  IsFiniteSet(Users(i)) /\ Cardinality(Users(i)) \in Nat
<1>1. Users(i) \in SUBSET VM
  BY DEF TypeOK, Users
<1> QED
  BY <1>1, FiniteAssumption, FS_Subset, FS_CardinalityType

(* Attaching a VM adds one user to its image.                              *)
LEMMA UsersAttach ==
  ASSUME TypeOK, NEW v \in VM, v \notin attached, attached' = attached \cup {v},
         NEW i \in Image
  PROVE  Cardinality(Users(i))' =
           IF i = ImageOf[v] THEN Cardinality(Users(i)) + 1 ELSE Cardinality(Users(i))
<1>1. CASE i = ImageOf[v]
  <2>1. Users(i)' = Users(i) \cup {v} /\ v \notin Users(i)
    BY <1>1 DEF Users
  <2> QED
    BY <1>1, <2>1, UsersFinite, FS_AddElement
<1>2. CASE i # ImageOf[v]
  <2>1. Users(i)' = Users(i)
    BY <1>2 DEF Users
  <2> QED
    BY <1>2, <2>1
<1> QED
  BY <1>1, <1>2

(* Detaching one removes one user.                                         *)
LEMMA UsersDetach ==
  ASSUME TypeOK, NEW v \in VM, v \in attached, attached' = attached \ {v},
         NEW i \in Image
  PROVE  Cardinality(Users(i))' =
           IF i = ImageOf[v] THEN Cardinality(Users(i)) - 1 ELSE Cardinality(Users(i))
<1>1. CASE i = ImageOf[v]
  <2>1. Users(i)' = Users(i) \ {v} /\ v \in Users(i)
    BY <1>1 DEF Users
  <2> QED
    BY <1>1, <2>1, UsersFinite, FS_RemoveElement
<1>2. CASE i # ImageOf[v]
  <2>1. Users(i)' = Users(i)
    BY <1>2 DEF Users
  <2> QED
    BY <1>2, <2>1
<1> QED
  BY <1>1, <1>2

(* The count of the image of an attached VM is positive, and one only if   *)
(* the VM is the only user.                                                *)
LEMMA CountOfAttached ==
  ASSUME SteadyInv, NEW v \in attached
  PROVE  /\ Count(assocs, ImageOf[v]) \in Nat \ {0}
         /\ Count(assocs, ImageOf[v]) = 1 <=> Users(ImageOf[v]) \subseteq {v}
<1> DEFINE i == ImageOf[v]
           U == Users(i)
<1>1. TypeOK /\ v \in VM
  BY DEF SteadyInv, MutexInv, TypeOK
<1>2. i \in Image /\ v \in U
  BY <1>1, ImageOfAssumption DEF Users
<1>3. IsFiniteSet(U) /\ Cardinality(U) \in Nat
  BY <1>1, <1>2, UsersFinite
<1>4. Count(assocs, i) = Cardinality(U)
  BY <1>2 DEF SteadyInv
<1>5. IsFiniteSet(U \ {v}) /\ Cardinality(U \ {v}) = Cardinality(U) - 1
  BY <1>2, <1>3, FS_RemoveElement
<1>6. Cardinality(U \ {v}) \in Nat /\ (Cardinality(U \ {v}) = 0 <=> U \ {v} = {})
  BY <1>5, FS_EmptySet, FS_CardinalityType
<1>7. U \ {v} = {} <=> U \subseteq {v}
  OBVIOUS
<1> QED
  BY <1>3, <1>4, <1>5, <1>6, <1>7

(* Init establishes the invariant.                                         *)
LEMMA SteadyInit == Init => SteadyInv
<1> SUFFICES ASSUME Init PROVE SteadyInv
  OBVIOUS
<1>1. \A i \in Image : Count(assocs, i) = 0
  BY DEF Init, Count, NoAssociations
<1>2. \A i \in Image : Users(i) = {}
  BY DEF Init, Users
<1>3. \A i \in Image : Count(assocs, i) = Cardinality(Users(i))
  BY <1>1, <1>2, FS_EmptySet
<1> QED
  BY <1>3, MutexInit
     DEF SteadyInv, Init, StartSteps, StopSteps, PrepareSteps

(* A step that leaves the map and the users alone, and does not bring its  *)
(* VM before a Create or a Delete, preserves the invariant.                *)
LEMMA SteadyQuietStep ==
  ASSUME SteadyInv, MutexInv', NEW v \in VM,
         UNCHANGED <<assocs, attached, up, op>>,
         \E step : /\ Goto(v, step)
                   /\ step \notin StartSteps \cup StopSteps \cup PrepareSteps,
         \A w \in VM : w # v => ptr'[w] = ptr[w]
  PROVE  SteadyInv'
BY DEF SteadyInv, Goto, MutexInv, TypeOK, Users, StartSteps, StopSteps, PrepareSteps

(* In a steady environment nothing crashes, nobody looks an image up and   *)
(* Delete finds what it deletes: these are the steps that are left.        *)
LEMMA SteadySteps ==
  ASSUME Steady, SteadyInv, Next
  PROVE  \E v \in VM :
           \/ CallStart(v) \/ CallStop(v) \/ Enter(v)
           \/ CreateLookUp(v) \/ CreateStore(v) \/ DeleteCounted(v)
           \/ Marshal(v) \/ StatFile(v) \/ StatFails(v)
           \/ WriteOpen(v) \/ WriteFile(v) \/ WriteFails(v)
<1>1. up /\ crashes = 0
  BY DEF Steady, SteadyInv, MutexInv, TypeOK
<1>2. ~Crash /\ ~Restart
  BY <1>1 DEF Crash, Restart, Steady
<1>3. ASSUME NEW v \in VM PROVE ~StopWhileDown(v) /\ ~CallPrepare(v)
  BY <1>1 DEF StopWhileDown, CallPrepare, Steady
<1>4. ASSUME NEW v \in VM
      PROVE  ~LookUpLen(v) /\ ~LoadOpen(v) /\ ~LoadRead(v) /\ ~Unmarshal(v) /\ ~LookUpGet(v)
  BY DEF SteadyInv, PrepareSteps, StopSteps, LookUpLen, LoadOpen, LoadRead, Unmarshal, LookUpGet
<1>5. ASSUME NEW v \in VM, DeleteMissing(v) PROVE FALSE
  <2>1. v \in attached
    BY <1>5 DEF DeleteMissing, SteadyInv, StopSteps
  <2> QED
    BY <1>5, <2>1, CountOfAttached DEF DeleteMissing
<1> QED
  BY <1>2, <1>3, <1>4, <1>5 DEF Next, Step, LockStep, FreeStep

(* Every step of a steady environment preserves the invariant.             *)
LEMMA SteadyStep ==
  ASSUME Steady, SteadyInv, [Next]_vars
  PROVE  SteadyInv'
<1> USE DEF StartSteps, StopSteps, PrepareSteps
<1>0. MutexInv /\ TypeOK /\ MutexInv' /\ up
  BY MutexStep DEF SteadyInv, MutexInv
<1>1. ASSUME NEW v \in VM, CallStart(v) PROVE SteadyInv'
  BY <1>0, <1>1 DEF CallStart, Call, Goto, SteadyInv, TypeOK, Users, Idle
<1>2. ASSUME NEW v \in VM, CallStop(v) PROVE SteadyInv'
  BY <1>0, <1>2 DEF CallStop, Call, Goto, SteadyInv, TypeOK, Users, Idle, Steady
<1>3. ASSUME NEW v \in VM, Enter(v) PROVE SteadyInv'
  BY <1>0, <1>3 DEF Enter, Goto, SteadyInv, TypeOK, Users
<1>4. ASSUME NEW v \in VM, CreateLookUp(v) PROVE SteadyInv'
  BY <1>0, <1>4 DEF CreateLookUp, Goto, SteadyInv, TypeOK, Users
<1>5. ASSUME NEW v \in VM, CreateStore(v) PROVE SteadyInv'
  <2> DEFINE i == ImageOf[v]
  <2>1. /\ pc[v] = "store" /\ pc' = [pc EXCEPT ![v] = "marshal"]
        /\ mapMtx = v
        /\ v \notin attached /\ attached' = attached \cup {v}
        /\ UNCHANGED <<ptr, op, up>>
    BY <1>0, <1>5 DEF CreateStore, Goto, SteadyInv, MutexInv, MapMtxHeld
  <2>2. /\ i \in Image
        /\ IsAssociations(assocs)
        /\ ptr[v] = IF i \in DOMAIN assocs THEN "live" ELSE "none"
    BY <1>0, <2>1, ImageOfAssumption DEF SteadyInv, TypeOK
  <2>3. assocs' = Put(assocs, i, Count(assocs, i) + 1)
    <3>1. CASE ptr[v] = "live"
      BY <1>0, <1>5, <3>1, CreateStoreEffect
    <3>2. CASE ptr[v] = "none"
      <4>1. Count(assocs, i) = 0
        BY <2>2, <3>2 DEF Count
      <4> QED
        BY <1>0, <1>5, <3>2, <4>1, CreateStoreEffect
    <3> QED
      BY <2>2, <3>1, <3>2
  <2>4. ASSUME NEW j \in Image PROVE Count(assocs', j) = Cardinality(Users(j)')
    <3>1. i \in Image /\ j \in Image
      BY ImageOfAssumption
    <3>2. /\ Count(Put(assocs, i, Count(assocs, i) + 1), i) = Count(assocs, i) + 1
          /\ j # i => Count(Put(assocs, i, Count(assocs, i) + 1), j) = Count(assocs, j)
      BY <3>1, PutCount
    <3>3. /\ Count(assocs', i) = Count(assocs, i) + 1
          /\ j # i => Count(assocs', j) = Count(assocs, j)
      BY <3>2, <2>3
    <3>4. Cardinality(Users(j)') =
            IF j = i THEN Cardinality(Users(j)) + 1 ELSE Cardinality(Users(j))
      BY <1>0, <2>1, UsersAttach
    <3> QED
      BY <3>3, <3>4 DEF SteadyInv
  <2>5. ASSUME NEW w \in VM, pc'[w] = "store" PROVE FALSE
    BY <1>0, <2>1, <2>5 DEF TypeOK, MutexInv, MapMtxHeld
  <2> QED
    BY <1>0, <2>1, <2>4, <2>5 DEF SteadyInv, TypeOK
<1>6. ASSUME NEW v \in VM, DeleteCounted(v) PROVE SteadyInv'
  <2> DEFINE i == ImageOf[v]
  <2>1. /\ pc[v] = "delete" /\ pc' = [pc EXCEPT ![v] = "marshal"]
        /\ v \in attached /\ attached' = attached \ {v}
        /\ UNCHANGED <<ptr, op, up>>
    BY <1>6 DEF DeleteCounted, Goto, SteadyInv
  <2>2. /\ DOMAIN assocs' = DOMAIN assocs
        /\ assocs' = Put(assocs, i, Count(assocs, i) - 1)
    BY <1>0, <1>6, DeleteEffect
  <2>3. ASSUME NEW j \in Image PROVE Count(assocs', j) = Cardinality(Users(j)')
    <3>1. i \in Image /\ j \in Image
      BY ImageOfAssumption
    <3>2. /\ Count(Put(assocs, i, Count(assocs, i) - 1), i) = Count(assocs, i) - 1
          /\ j # i => Count(Put(assocs, i, Count(assocs, i) - 1), j) = Count(assocs, j)
      BY <3>1, PutCount
    <3>3. /\ Count(assocs', i) = Count(assocs, i) - 1
          /\ j # i => Count(assocs', j) = Count(assocs, j)
      BY <3>2, <2>2
    <3>4. Cardinality(Users(j)') =
            IF j = i THEN Cardinality(Users(j)) - 1 ELSE Cardinality(Users(j))
      BY <1>0, <2>1, UsersDetach
    <3> QED
      BY <3>3, <3>4 DEF SteadyInv
  <2> QED
    BY <1>0, <2>1, <2>2, <2>3 DEF SteadyInv, TypeOK
<1>7. ASSUME NEW v \in VM,
             Marshal(v) \/ StatFile(v) \/ StatFails(v) \/ WriteOpen(v) \/ WriteFile(v) \/ WriteFails(v)
      PROVE  SteadyInv'
  <2>1. Goto(v, "stat") \/ Goto(v, "open") \/ Goto(v, "write") \/ Goto(v, "idle")
    BY <1>7 DEF Marshal, StatFile, StatFails, WriteOpen, WriteFile, WriteFails, WriteClose, Return
  <2>2. UNCHANGED <<assocs, attached, up, op>>
    BY <1>7 DEF Marshal, StatFile, StatFails, WriteOpen, WriteFile, WriteFails, WriteClose
  <2>3. ptr' = ptr \/ ptr' = [ptr EXCEPT ![v] = "none"]
    BY <1>7 DEF Marshal, StatFile, StatFails, WriteOpen, WriteFile, WriteFails, WriteClose, Return
  <2> QED
    BY <1>0, <2>1, <2>2, <2>3, SteadyQuietStep DEF TypeOK
<1>8. CASE UNCHANGED vars
  BY <1>0, <1>8 DEF vars, locks, SteadyInv, Users
<1> QED
  BY <1>1, <1>2, <1>3, <1>4, <1>5, <1>6, <1>7, <1>8, SteadySteps

(* The invariant of the steady environment.                                *)
THEOREM SteadyInvariant == ASSUME Steady PROVE Spec => []SteadyInv
<1>1. Init => SteadyInv
  BY SteadyInit
<1>2. SteadyInv /\ [Next]_vars => SteadyInv'
  BY SteadyStep
<1> QED
  BY <1>1, <1>2, PTL DEF Spec

(* However the calls for different VMs interleave, and whether saves fail  *)
(* or not, VMCount is the number of users of the image.                    *)
THEOREM CountIsExact == ASSUME Steady PROVE Spec => []CountMatchesUsers
<1>1. SteadyInv => CountMatchesUsers
  BY DEF SteadyInv, CountMatchesUsers
<1> QED
  BY <1>1, SteadyInvariant, PTL

(* Delete answers "last" exactly when the VM is the only user of its image *)
(* and never misses a VM it counted.                                       *)
THEOREM LastIsLast == ASSUME Steady PROVE Spec => LastMeansNoOtherUser
<1> DEFINE Answer(v) ==
      verdict'[v] # verdict[v] =>
        /\ verdict'[v] = "last"   => Users(ImageOf[v]) \subseteq {v}
        /\ verdict'[v] = "shared" => ~ Users(ImageOf[v]) \subseteq {v}
        /\ verdict'[v] = "missing" => v \notin attached
<1>1. ASSUME SteadyInv, [Next]_vars, NEW w \in VM PROVE Answer(w)
  <2>0. TypeOK /\ MutexInv
    BY <1>1 DEF SteadyInv, MutexInv
  <2>1. ASSUME NEW v \in VM, CallStart(v) \/ CallStop(v) PROVE Answer(w)
    BY <2>0, <2>1 DEF CallStart, CallStop, Call, TypeOK
  <2>2. ASSUME NEW v \in VM, DeleteCounted(v) PROVE Answer(w)
    <3>1. v \in attached
      BY <1>1, <2>2 DEF DeleteCounted, SteadyInv, StopSteps
    <3>2. verdict' = [verdict EXCEPT ![v] =
                        IF Users(ImageOf[v]) \subseteq {v} THEN "last" ELSE "shared"]
      BY <1>1, <2>0, <2>2, <3>1, DeleteEffect, CountOfAttached
    <3> QED
      BY <2>0, <3>2 DEF TypeOK
  <2>3. CASE UNCHANGED verdict
    BY <2>3
  <2> QED
    BY <1>1, <2>1, <2>2, <2>3, SteadySteps
       DEF Enter, CreateLookUp, CreateStore, Marshal, StatFile, StatFails,
           WriteOpen, WriteFile, WriteFails, WriteClose, vars
<1>2. SteadyInv /\ [Next]_vars => [\A v \in VM : Answer(v)]_vars
  BY <1>1
<1> QED
  BY <1>2, SteadyInvariant, PTL DEF Spec, LastMeansNoOtherUser

(* The handlers, their locks, the map and the file implement the atomic    *)
(* registry.                                                               *)
THEOREM RegistryImplemented == ASSUME Steady PROVE Spec => ImplementsRegistry
<1>1. Init => Registry!Init
  BY DEF Init, Registry!Init
<1>2. ASSUME SteadyInv, [Next]_vars PROVE [Registry!Next]_(Registry!vars)
  <2>0. TypeOK /\ MutexInv
    BY <1>2 DEF SteadyInv, MutexInv
  <2> USE DEF Registry!Next, Registry!vars
  <2>1. ASSUME NEW v \in VM, CallStart(v) \/ CallStop(v) PROVE Registry!Next
    <3>1. Registry!Request(v)
      BY <2>1 DEF CallStart, CallStop, Call, Registry!Request
    <3> QED
      BY <3>1
  <2>2. ASSUME NEW v \in VM, CreateStore(v) PROVE Registry!Next
    <3>1. Registry!Attach(v)
      BY <1>2, <2>2 DEF CreateStore, SteadyInv, StartSteps, Registry!Attach
    <3> QED
      BY <3>1
  <2>3. ASSUME NEW v \in VM, DeleteCounted(v) PROVE Registry!Next
    <3>1. v \in attached /\ attached' = attached \ {v}
      BY <1>2, <2>3 DEF DeleteCounted, SteadyInv, StopSteps
    <3>2. Registry!Others(v) = {} <=> Users(ImageOf[v]) \subseteq {v}
      BY DEF Registry!Others, Users
    <3>3. verdict' = [verdict EXCEPT ![v] =
                        IF Registry!Others(v) = {} THEN "last" ELSE "shared"]
      BY <1>2, <2>0, <2>3, <3>1, <3>2, DeleteEffect, CountOfAttached
    <3>4. Registry!Detach(v)
      BY <3>1, <3>3 DEF Registry!Detach
    <3> QED
      BY <3>4
  <2>4. CASE UNCHANGED <<attached, verdict>>
    BY <2>4
  <2> QED
    BY <1>2, <2>1, <2>2, <2>3, <2>4, SteadySteps
       DEF Enter, CreateLookUp, Marshal, StatFile, StatFails,
           WriteOpen, WriteFile, WriteFails, WriteClose, vars
<1> QED
  BY <1>1, <1>2, SteadyInvariant, PTL DEF Spec, ImplementsRegistry, Registry!Spec
=============================================================================
