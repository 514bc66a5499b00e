--------------------- MODULE ImageVMAssociationFileProofs --------------------
(***************************************************************************)
(* Theorems about the association file: what a restart or a look-up finds  *)
(* in it, and what VMCount is worth then.  For any finite set of VMs.      *)
(***************************************************************************)
EXTENDS ImageVMAssociationProofs

-----------------------------------------------------------------------------
(* One call at a time.                                                     *)

(* What FileMatchesMap needs of the environment, and what CountCoversUsers *)
(* needs besides.                                                          *)
OneAtATime == ~Overlap /\ ~SaveFails
Careful == OneAtATime /\ ~UncountedStop /\ ~TornWrite

Alone == \A v, w \in VM : ~Idle(v) /\ ~Idle(w) => v = w

Saved == up /\ (\A v \in VM : pc[v] \notin SaveSteps) => assocFile = assocs

(* What a handler has read or is about to write is still true.             *)
BuffersTrue ==
  \A v \in VM : /\ pc[v] \in {"stat", "open", "write"} => buf[v] = assocs
                /\ pc[v] = "unmarshal" => buf[v] = assocFile

FileInv == MutexInv /\ Alone /\ Saved /\ BuffersTrue

(* The users that a crash leaves: the hook of a call in flight fails.      *)
IdleUsers(i) == {v \in Users(i) : Idle(v)}

Calls ==
  \A v \in VM :
    /\ pc[v] \in StartSteps => v \notin attached
    /\ pc[v] = "delete" \/ (pc[v] = "queued" /\ op[v] = "Stop") => v \in attached
    /\ pc[v] = "store" => ptr[v] = IF ImageOf[v] \in DOMAIN assocs THEN "live" ELSE "none"

MapCovers == up => \A i \in Image : Count(assocs, i) >= Cardinality(Users(i))

FileCovers ==
  (\A v \in VM : pc[v] # "write") =>
    \A i \in Image : Count(assocFile, i) >= Cardinality(IdleUsers(i))

CoverInv == FileInv /\ Calls /\ MapCovers /\ FileCovers

(* Look-ups that load the file: wlaMtx keeps Delete out, and they began    *)
(* when nobody was counted yet.                                            *)
LookUpHolds ==
  \A v \in VM : pc[v] \in {"delete", "len", "load", "read", "unmarshal", "get"} => wlaMtx = v

Loading == \E v \in VM : pc[v] \in {"load", "read", "unmarshal"}

NotTwice == \A v \in VM : pc[v] \in StartSteps => v \notin attached

FoundEntry ==
  \A v \in VM : pc[v] = "store" /\ ptr[v] # "none" => ImageOf[v] \in DOMAIN assocs

FirstUser == assocs = NoAssociations => attached = {}

Below(m) == \A i \in Image : Count(m, i) <= Cardinality(Users(i))

CopiesBelow ==
  assocs = NoAssociations \/ Loading => Below(assocFile) /\ \A v \in VM : Below(buf[v])

ReloadInv ==
  /\ MutexInv /\ up
  /\ LookUpHolds /\ NotTwice /\ FoundEntry /\ FirstUser
  /\ Below(assocs) /\ CopiesBelow

-----------------------------------------------------------------------------
(* One call at a time: the file holds the map between calls.               *)

(* A step of the call in flight.                                           *)
LEMMA OnlyCall ==
  ASSUME FileInv, NEW v \in VM, ~Idle(v), \E step : Goto(v, step)
  PROVE  Alone' /\ \A w \in VM \ {v} : Idle(w) /\ Idle(w)'
BY DEF FileInv, MutexInv, TypeOK, Alone, Idle, Goto

(* Every step keeps the file true to the map, or a handler to make it so.  *)
LEMMA FileStep ==
  ASSUME OneAtATime, FileInv, [Next]_vars
  PROVE  FileInv'
<1> USE DEF Idle, Goto, SaveSteps
<1>0. /\ MutexInv /\ MutexInv' /\ TypeOK /\ Alone /\ Saved /\ BuffersTrue
      /\ pc \in [VM -> {"idle"} \cup StartSteps \cup StopSteps \cup PrepareSteps \cup SaveSteps]
      /\ DOMAIN buf = VM
  BY MutexStep DEF FileInv, MutexInv, TypeOK
<1>u. ASSUME NEW v \in VM, pc[v] # "idle" PROVE up
  BY <1>0, <1>u DEF MutexInv
<1>1. ASSUME NEW v \in VM, CallStart(v) \/ CallStop(v) \/ CallPrepare(v) PROVE FileInv'
  <2>1. \A w \in VM : Idle(w)
    BY <1>1 DEF CallStart, CallStop, CallPrepare, Call, OneAtATime
  <2>2. /\ pc' = [pc EXCEPT ![v] = "create"] \/ pc' = [pc EXCEPT ![v] = "queued"]
        /\ up /\ UNCHANGED <<assocs, assocFile, buf, up>>
    BY <1>1 DEF CallStart, CallStop, CallPrepare, Call
  <2> QED
    BY <1>0, <2>1, <2>2 DEF FileInv, Alone, Saved, BuffersTrue
<1>2. ASSUME NEW v \in VM, pc[v] # "idle", pc[v] \notin SaveSteps, assocFile' = assocs',
             \E step : Goto(v, step) /\ step \notin SaveSteps \cup {"unmarshal"}
      PROVE  FileInv'
  <2>1. Alone' /\ \A w \in VM \ {v} : Idle(w) /\ Idle(w)'
    BY <1>0, <1>2, OnlyCall DEF FileInv
  <2> QED
    BY <1>0, <1>2, <2>1 DEF FileInv, Saved, BuffersTrue
<1>3. ASSUME NEW v \in VM, pc[v] # "idle", pc[v] \notin SaveSteps PROVE assocFile = assocs
  BY <1>0, <1>3, <1>u DEF Alone, Saved
<1>4. ASSUME NEW v \in VM,
             \/ Enter(v) \/ CreateLookUp(v) \/ DeleteMissing(v) \/ LookUpLen(v) \/ LoadOpen(v)
             \/ LookUpGet(v)
      PROVE  FileInv'
  <2>1. pc[v] # "idle" /\ pc[v] \notin SaveSteps
    BY <1>4 DEF Enter, CreateLookUp, DeleteMissing, LookUpLen, LoadOpen, LookUpGet
  <2>2. assocFile' = assocs'
    BY <1>3, <1>4, <2>1 DEF Enter, CreateLookUp, DeleteMissing, LookUpLen, LoadOpen, LookUpGet
  <2>3. \E step : Goto(v, step) /\ step \notin SaveSteps \cup {"unmarshal"}
    <3>1. \/ Goto(v, "delete") \/ Goto(v, "len") \/ Goto(v, "store") \/ Goto(v, "idle")
          \/ Goto(v, "load") \/ Goto(v, "get") \/ Goto(v, "read")
      BY <1>4 DEF Enter, CreateLookUp, DeleteMissing, LookUpLen, LoadOpen, LookUpGet, Return
    <3> QED
      BY <3>1
  <2> QED
    BY <1>2, <2>1, <2>2, <2>3
<1>5. ASSUME NEW v \in VM, LoadRead(v) PROVE FileInv'
  <2>1. Alone' /\ \A w \in VM \ {v} : Idle(w) /\ Idle(w)'
    BY <1>0, <1>5, OnlyCall DEF FileInv, LoadRead
  <2> QED
    BY <1>0, <1>3, <1>5, <2>1 DEF LoadRead, FileInv, Saved, BuffersTrue
<1>6. ASSUME NEW v \in VM, Unmarshal(v) PROVE FileInv'
  <2>1. buf[v] = assocs /\ pc[v] = "unmarshal"
    BY <1>0, <1>3, <1>6 DEF Unmarshal, BuffersTrue
  <2>2. IsAssociations(assocs)
    BY <1>0 DEF TypeOK
  <2>3. Merge(assocs, assocs) = assocs
    BY <2>2 DEF Merge, IsAssociations
  <2>4. assocFile' = assocs'
    BY <1>3, <1>6, <2>1, <2>3 DEF Unmarshal
  <2>5. \E step : Goto(v, step) /\ step \notin SaveSteps \cup {"unmarshal"}
    <3>1. Goto(v, "get") /\ "get" \notin SaveSteps \cup {"unmarshal"}
      BY <1>6 DEF Unmarshal
    <3> QED
      BY <3>1, Zenon
  <2> QED
    BY <1>2, <2>1, <2>4, <2>5
<1>7. ASSUME NEW v \in VM, CreateStore(v) \/ DeleteCounted(v) \/ Marshal(v) \/ StatFile(v)
      PROVE  FileInv'
  <2>1. /\ pc[v] \in {"store", "delete", "marshal", "stat"} /\ up'
        /\ pc' = [pc EXCEPT ![v] = "marshal"] \/ pc' = [pc EXCEPT ![v] = "stat"]
           \/ pc' = [pc EXCEPT ![v] = "open"]
    BY <1>7, <1>u DEF CreateStore, DeleteCounted, Marshal, StatFile
  <2>2. Alone' /\ \A w \in VM \ {v} : Idle(w) /\ Idle(w)'
    BY <1>0, <2>1, OnlyCall DEF FileInv
  <2>3. Saved'
    BY <1>0, <2>1 DEF Saved
  <2>4. BuffersTrue'
    BY <1>0, <1>7, <2>2 DEF BuffersTrue, CreateStore, DeleteCounted, Marshal, StatFile
  <2> QED
    BY <1>0, <2>2, <2>3, <2>4 DEF FileInv
<1>8. ASSUME NEW v \in VM, WriteOpen(v) PROVE FileInv'
  <2>1. Alone' /\ \A w \in VM \ {v} : Idle(w) /\ Idle(w)'
    BY <1>0, <1>8, OnlyCall DEF FileInv, WriteOpen
  <2> QED
    BY <1>0, <1>8, <2>1 DEF WriteOpen, FileInv, Saved, BuffersTrue
<1>9. ASSUME NEW v \in VM, WriteFile(v) PROVE FileInv'
  <2>1. /\ pc[v] = "write" /\ pc' = [pc EXCEPT ![v] = "idle"]
        /\ assocFile' = buf[v] /\ assocs' = assocs
    BY <1>9 DEF WriteFile, WriteClose, Return
  <2>2. Alone' /\ \A w \in VM \ {v} : Idle(w) /\ Idle(w)'
    BY <1>0, <2>1, OnlyCall DEF FileInv
  <2>3. assocFile' = assocs'
    BY <1>0, <2>1 DEF BuffersTrue
  <2> QED
    BY <1>0, <2>1, <2>2, <2>3 DEF FileInv, Saved, BuffersTrue
<1>10. ASSUME NEW v \in VM, StatFails(v) \/ WriteFails(v) PROVE FileInv'
  BY <1>10 DEF StatFails, WriteFails, OneAtATime
<1>11. ASSUME NEW v \in VM, StopWhileDown(v) PROVE FileInv'
  BY <1>0, <1>11 DEF StopWhileDown, FileInv, Alone, Saved, BuffersTrue
<1>12. CASE Crash
  BY <1>0, <1>12 DEF Crash, FileInv, Alone, Saved, BuffersTrue
<1>13. CASE Restart
  BY <1>0, <1>13 DEF Restart, FileInv, Alone, Saved, BuffersTrue, MutexInv
<1>14. CASE UNCHANGED vars
  BY <1>0, <1>14 DEF vars, FileInv, Alone, Saved, BuffersTrue
<1> QED
  BY <1>1, <1>4, <1>5, <1>6, <1>7, <1>8, <1>9, <1>10, <1>11, <1>12, <1>13, <1>14
     DEF Next, Step, LockStep, FreeStep

(* Nothing is in flight initially, and both are empty.                     *)
LEMMA FileInit == Init => FileInv
BY MutexInit DEF Init, FileInv, Alone, Saved, BuffersTrue, Idle

-----------------------------------------------------------------------------
(* One call at a time: the counts cover the users, crashes or not.         *)

(* Fewer users are finitely many.                                          *)
LEMMA Fewer ==
  ASSUME TypeOK, NEW i \in Image, NEW U \in SUBSET Users(i)
  PROVE  Cardinality(U) \in Nat /\ Cardinality(U) <= Cardinality(Users(i))
BY UsersFinite, FS_Subset, FS_CardinalityType

(* The map covers the idle users if it covers all.                         *)
LEMMA MapCoversIdle ==
  TypeOK /\ up /\ assocFile = assocs /\ MapCovers => FileCovers
<1>1. SUFFICES ASSUME TypeOK, up, assocFile = assocs, MapCovers, NEW i \in Image
               PROVE  Count(assocFile, i) >= Cardinality(IdleUsers(i))
  BY DEF FileCovers
<1>2. IsAssociations(assocs)
  BY <1>1 DEF TypeOK
<1>3. Count(assocs, i) \in Nat /\ Cardinality(Users(i)) \in Nat
  BY <1>1, <1>2, CountType, UsersFinite
<1>4. IdleUsers(i) \in SUBSET Users(i)
  BY DEF IdleUsers
<1>5. Cardinality(IdleUsers(i)) \in Nat /\ Cardinality(IdleUsers(i)) <= Cardinality(Users(i))
  BY <1>1, <1>4, Fewer
<1> QED
  BY <1>1, <1>3, <1>5 DEF MapCovers

(* A step that leaves the map alone and adds no user.                      *)
LEMMA MapStillCovers ==
  ASSUME CoverInv, assocs' = assocs, attached' \subseteq attached, up' => up
  PROVE  MapCovers'
<1>1. SUFFICES ASSUME up, NEW i \in Image PROVE Count(assocs, i) >= Cardinality(Users(i)')
  BY DEF MapCovers
<1>2. TypeOK /\ IsAssociations(assocs) /\ Count(assocs, i) >= Cardinality(Users(i))
  BY <1>1 DEF CoverInv, FileInv, MutexInv, TypeOK, MapCovers
<1>3. Count(assocs, i) \in Nat /\ Cardinality(Users(i)) \in Nat
  BY <1>1, <1>2, CountType, UsersFinite
<1>4. Users(i)' \in SUBSET Users(i)
  BY DEF Users
<1>5. Cardinality(Users(i)') \in Nat /\ Cardinality(Users(i)') <= Cardinality(Users(i))
  BY <1>1, <1>2, <1>4, Fewer
<1> QED
  BY <1>2, <1>3, <1>5

(* A step that leaves the file alone and adds no idle user.                *)
LEMMA FileStillCovers ==
  ASSUME CoverInv, assocFile' = assocFile, \A v \in VM : pc[v] # "write",
         \A i \in Image : IdleUsers(i)' \subseteq IdleUsers(i)
  PROVE  FileCovers'
<1>1. SUFFICES ASSUME NEW i \in Image PROVE Count(assocFile, i) >= Cardinality(IdleUsers(i)')
  BY DEF FileCovers
<1>2. TypeOK /\ IsAssociations(assocFile) /\ Count(assocFile, i) >= Cardinality(IdleUsers(i))
  BY <1>1 DEF CoverInv, FileInv, MutexInv, TypeOK, FileCovers
<1>3. IdleUsers(i) \in SUBSET Users(i) /\ IdleUsers(i)' \in SUBSET IdleUsers(i)
  BY <1>1 DEF IdleUsers
<1>4. IsFiniteSet(IdleUsers(i))
  BY <1>1, <1>2, <1>3, UsersFinite, FS_Subset
<1>5. /\ Cardinality(IdleUsers(i)) \in Nat /\ Cardinality(IdleUsers(i)') \in Nat
      /\ Cardinality(IdleUsers(i)') <= Cardinality(IdleUsers(i))
  BY <1>3, <1>4, FS_Subset, FS_CardinalityType
<1>6. Count(assocFile, i) \in Nat
  BY <1>1, <1>2, CountType
<1> QED
  BY <1>2, <1>5, <1>6

(* Every step keeps who is counted before and after a call.                *)
LEMMA CallsStep ==
  ASSUME Careful, CoverInv, [Next]_vars
  PROVE  Calls'
<1> USE DEF Calls, Idle, Goto, StartSteps, Return
<1>0. /\ MutexInv /\ TypeOK /\ Alone /\ Calls
      /\ pc \in [VM -> {"idle"} \cup StartSteps \cup StopSteps \cup PrepareSteps \cup SaveSteps]
      /\ op \in [VM -> {"Start", "Stop", "Prepare"}]
      /\ ptr \in [VM -> {"none", "live", "orphan"}]
  BY DEF CoverInv, FileInv, MutexInv, TypeOK
<1>a. \A v, w \in VM : pc[v] # "idle" /\ w # v => pc[w] = "idle"
  BY <1>0 DEF Alone
<1>1. ASSUME NEW v \in VM, CallStart(v) \/ CallStop(v) \/ CallPrepare(v) PROVE Calls'
  BY <1>0, <1>1 DEF CallStart, CallStop, CallPrepare, Call, Careful
<1>2. ASSUME NEW v \in VM, Enter(v) \/ CreateLookUp(v) PROVE Calls'
  BY <1>0, <1>a, <1>2 DEF Enter, CreateLookUp
<1>3. ASSUME NEW v \in VM,
             \/ CreateStore(v) \/ DeleteCounted(v) \/ DeleteMissing(v) \/ Marshal(v) \/ StatFile(v)
             \/ StatFails(v) \/ WriteOpen(v) \/ WriteFile(v) \/ WriteFails(v) \/ LookUpLen(v)
             \/ LoadOpen(v) \/ LoadRead(v) \/ Unmarshal(v) \/ LookUpGet(v)
      PROVE  Calls'
  <2>1. /\ pc[v] # "idle"
        /\ pc'[v] \notin {"create", "store", "queued", "delete"}
        /\ \A w \in VM \ {v} : pc'[w] = pc[w]
    BY <1>0, <1>3 DEF CreateStore, DeleteCounted, DeleteMissing, Marshal, StatFile, StatFails,
       WriteOpen, WriteFile, WriteFails, WriteClose, LookUpLen, LoadOpen, LoadRead, Unmarshal,
       LookUpGet
  <2> QED
    BY <1>a, <2>1
<1>4. ASSUME NEW v \in VM, StopWhileDown(v) PROVE Calls'
  BY <1>0, <1>4 DEF StopWhileDown, MutexInv
<1>5. CASE Crash \/ Restart
  BY <1>0, <1>5 DEF Crash, Restart, MutexInv
<1>6. CASE UNCHANGED vars
  BY <1>0, <1>6 DEF vars
<1> QED
  BY <1>1, <1>2, <1>3, <1>4, <1>5, <1>6 DEF Next, Step, LockStep, FreeStep

(* Create and Delete keep the map in step with the users.                  *)
LEMMA CountStep ==
  ASSUME CoverInv, NEW v \in VM, CreateStore(v) \/ DeleteCounted(v)
  PROVE  MapCovers'
<1> DEFINE i == ImageOf[v]
           n == IF CreateStore(v) THEN Count(assocs, i) + 1 ELSE Count(assocs, i) - 1
<1>1. MutexInv /\ TypeOK /\ IsAssociations(assocs) /\ up /\ i \in Image
  BY ImageOfAssumption
     DEF CoverInv, FileInv, MutexInv, TypeOK, Idle, CreateStore, DeleteCounted
<1>2. \A j \in Image : /\ Count(assocs, j) \in Nat /\ Cardinality(Users(j)) \in Nat
                       /\ Count(assocs, j) >= Cardinality(Users(j))
  BY <1>1, CountType, UsersFinite DEF CoverInv, MapCovers
<1>3. CASE CreateStore(v)
  <2>1. ptr[v] = IF i \in DOMAIN assocs THEN "live" ELSE "none"
    BY <1>3 DEF CreateStore, CoverInv, Calls
  <2>2. assocs' = Put(assocs, i, Count(assocs, i) + 1)
    <3>1. CASE i \in DOMAIN assocs
      BY <1>1, <1>3, <2>1, <3>1, CreateStoreEffect
    <3>2. CASE i \notin DOMAIN assocs
      <4>1. Count(assocs, i) = 0
        BY <3>2 DEF Count
      <4> QED
        BY <1>1, <1>3, <2>1, <3>2, <4>1, CreateStoreEffect
    <3> QED
      BY <3>1, <3>2
  <2>3. v \notin attached /\ attached' = attached \cup {v}
    BY <1>3 DEF CreateStore, CoverInv, Calls, StartSteps
  <2>4. ASSUME NEW j \in Image PROVE Count(assocs', j) >= Cardinality(Users(j)')
    <3>1. /\ Count(assocs', i) = Count(assocs, i) + 1
          /\ j # i => Count(assocs', j) = Count(assocs, j)
      BY <1>1, <2>2, <2>4, PutCount
    <3>2. Cardinality(Users(j)') =
            IF j = i THEN Cardinality(Users(j)) + 1 ELSE Cardinality(Users(j))
      BY <1>1, <2>3, <2>4, UsersAttach
    <3> QED
      BY <1>1, <1>2, <2>4, <3>1, <3>2
  <2> QED
    BY <2>4 DEF MapCovers
<1>4. CASE DeleteCounted(v)
  <2>1. assocs' = Put(assocs, i, Count(assocs, i) - 1)
    BY <1>1, <1>4, DeleteEffect
  <2>2. v \in attached /\ attached' = attached \ {v}
    BY <1>4 DEF DeleteCounted, CoverInv, Calls
  <2>3. ASSUME NEW j \in Image PROVE Count(assocs', j) >= Cardinality(Users(j)')
    <3>1. /\ Count(assocs', i) = Count(assocs, i) - 1
          /\ j # i => Count(assocs', j) = Count(assocs, j)
      BY <1>1, <2>1, <2>3, PutCount
    <3>2. Cardinality(Users(j)') =
            IF j = i THEN Cardinality(Users(j)) - 1 ELSE Cardinality(Users(j))
      BY <1>1, <2>2, <2>3, UsersDetach
    <3> QED
      BY <1>1, <1>2, <2>3, <3>1, <3>2
  <2> QED
    BY <2>3 DEF MapCovers
<1> QED
  BY <1>3, <1>4

(* Every step keeps the users covered, by the map and by the file.         *)
LEMMA CoverStep ==
  ASSUME Careful, CoverInv, [Next]_vars
  PROVE  CoverInv'
<1> USE DEF Idle, Goto, Return
<1>0. /\ FileInv /\ FileInv' /\ Calls' /\ MutexInv /\ TypeOK /\ TypeOK'
      /\ pc \in [VM -> {"idle"} \cup StartSteps \cup StopSteps \cup PrepareSteps \cup SaveSteps]
  BY FileStep, CallsStep DEF CoverInv, Careful, FileInv, MutexInv, TypeOK
<1>a. \A v, w \in VM : pc[v] # "idle" /\ w # v => pc[w] = "idle"
  BY <1>0 DEF FileInv, Alone, Idle
<1>b. up' /\ assocFile' = assocs' /\ MapCovers' => FileCovers'
  <2>1. (TypeOK /\ up /\ assocFile = assocs /\ MapCovers => FileCovers)'
    BY MapCoversIdle, PTL
  <2> QED
    BY <1>0, <2>1
<1>1. SUFFICES MapCovers' /\ FileCovers'
  BY <1>0 DEF CoverInv
<1>2. ASSUME NEW v \in VM,
             \/ CallStart(v) \/ CallStop(v) \/ CallPrepare(v) \/ Enter(v) \/ CreateLookUp(v)
             \/ Marshal(v) \/ StatFile(v) \/ LookUpLen(v) \/ LoadOpen(v) \/ LoadRead(v)
      PROVE  MapCovers' /\ FileCovers'
  <2>1. /\ UNCHANGED <<assocs, assocFile, attached, up>> /\ pc'[v] # "idle"
        /\ \A w \in VM \ {v} : pc'[w] = pc[w]
    BY <1>0, <1>2 DEF CallStart, CallStop, CallPrepare, Call, Enter, CreateLookUp, Marshal,
       StatFile, LookUpLen, LoadOpen, LoadRead
  <2>2. \A w \in VM : pc[w] # "write"
    <3>1. CASE pc[v] = "idle"
      BY <1>2, <3>1 DEF CallStart, CallStop, CallPrepare, Call, Enter, CreateLookUp, Marshal,
         StatFile, LookUpLen, LoadOpen, LoadRead, Careful, OneAtATime
    <3>2. CASE pc[v] # "idle"
      BY <1>a, <1>2, <3>2 DEF CallStart, CallStop, CallPrepare, Call, Enter, CreateLookUp, Marshal,
         StatFile, LookUpLen, LoadOpen, LoadRead
    <3> QED
      BY <3>1, <3>2
  <2>3. \A i \in Image : IdleUsers(i)' \subseteq IdleUsers(i)
    BY <1>0, <2>1 DEF IdleUsers, Users, TypeOK
  <2> QED
    BY <2>1, <2>2, <2>3, MapStillCovers, FileStillCovers
<1>3. ASSUME NEW v \in VM, CreateStore(v) \/ DeleteCounted(v) PROVE MapCovers' /\ FileCovers'
  <2>1. /\ assocFile' = assocFile /\ pc[v] # "write" /\ pc'[v] # "idle"
        /\ \A w \in VM \ {v} : pc'[w] = pc[w] /\ pc[w] # "write"
        /\ \A w \in VM \ {v} : w \in attached' => w \in attached
    BY <1>0, <1>a, <1>3 DEF CreateStore, DeleteCounted
  <2>2. \A i \in Image : IdleUsers(i)' \subseteq IdleUsers(i)
    BY <1>0, <2>1 DEF IdleUsers, Users, TypeOK
  <2> QED
    BY <1>3, <2>1, <2>2, CountStep, FileStillCovers
<1>4. ASSUME NEW v \in VM, DeleteMissing(v) \/ LookUpGet(v) \/ WriteFile(v)
      PROVE  MapCovers' /\ FileCovers'
  <2>1. pc'[v] = "idle" /\ pc[v] # "idle" /\ \A w \in VM \ {v} : pc'[w] = pc[w]
    BY <1>0, <1>4 DEF DeleteMissing, LookUpGet, WriteFile, WriteClose
  <2>2. \A w \in VM : pc'[w] = "idle"
    BY <1>a, <2>1
  <2>3. assocs' = assocs /\ attached' \subseteq attached /\ up' = up /\ up
    BY <1>0, <1>4, <2>1 DEF DeleteMissing, LookUpGet, WriteFile, WriteClose, MutexInv
  <2>4. assocFile' = assocs'
    BY <1>0, <2>2, <2>3 DEF FileInv, Saved, SaveSteps
  <2> QED
    BY <1>b, <2>3, <2>4, MapStillCovers
<1>5. ASSUME NEW v \in VM, WriteOpen(v) PROVE MapCovers' /\ FileCovers'
  <2>1. UNCHANGED <<assocs, attached, up>> /\ pc'[v] = "write"
    BY <1>0, <1>5 DEF WriteOpen
  <2> QED
    BY <2>1, MapStillCovers DEF FileCovers
<1>6. ASSUME NEW v \in VM, Unmarshal(v) PROVE MapCovers' /\ FileCovers'
  <2>1. /\ pc[v] = "unmarshal" /\ pc'[v] = "get" /\ \A w \in VM \ {v} : pc'[w] = "idle"
        /\ assocs' = Merge(buf[v], assocs) /\ UNCHANGED <<assocFile, attached, up>> /\ up
    BY <1>0, <1>a, <1>6 DEF Unmarshal, MutexInv
  <2>2. assocFile = assocs /\ assocFile' = assocs'
    BY <1>0, <1>a, <2>1 DEF FileInv, Saved, SaveSteps
  <2>3. assocs' = assocs
    BY <2>1, <2>2
  <2> QED
    BY <1>b, <2>1, <2>2, <2>3, MapStillCovers
<1>7. ASSUME NEW v \in VM, StatFails(v) \/ WriteFails(v) PROVE MapCovers' /\ FileCovers'
  BY <1>7 DEF StatFails, WriteFails, Careful, OneAtATime
<1>8. ASSUME NEW v \in VM, StopWhileDown(v) PROVE MapCovers' /\ FileCovers'
  <2>1. /\ UNCHANGED <<assocs, assocFile, pc, up>> /\ attached' \subseteq attached
        /\ \A w \in VM : pc[w] # "write"
    BY <1>0, <1>8 DEF StopWhileDown, MutexInv
  <2>2. \A i \in Image : IdleUsers(i)' \subseteq IdleUsers(i)
    BY <2>1 DEF IdleUsers, Users
  <2> QED
    BY <2>1, <2>2, MapStillCovers, FileStillCovers
<1>9. CASE Crash
  <2>1. /\ ~up' /\ assocFile' = assocFile /\ attached' = {w \in attached : Idle(w)}
        /\ \A w \in VM : pc[w] # "write"
    BY <1>9 DEF Crash, Careful
  <2>2. \A i \in Image : IdleUsers(i)' \subseteq IdleUsers(i)
    BY <2>1 DEF IdleUsers, Users
  <2> QED
    BY <2>1, <2>2, FileStillCovers DEF MapCovers
<1>10. CASE Restart
  <2>1. /\ up' /\ assocs' = assocFile /\ UNCHANGED <<assocFile, attached, pc>>
        /\ \A w \in VM : pc[w] = "idle"
    BY <1>0, <1>10 DEF Restart, MutexInv
  <2>2. \A i \in Image : IdleUsers(i) = Users(i) /\ Users(i)' = Users(i)
    BY <1>0, <2>1 DEF IdleUsers, Users, TypeOK
  <2>3. MapCovers'
    BY <2>1, <2>2 DEF CoverInv, FileCovers, MapCovers
  <2> QED
    BY <1>b, <2>1, <2>3
<1>11. CASE UNCHANGED vars
  BY <1>11 DEF vars, CoverInv, MapCovers, FileCovers, IdleUsers, Users
<1> QED
  BY <1>2, <1>3, <1>4, <1>5, <1>6, <1>7, <1>8, <1>9, <1>10, <1>11
     DEF Next, Step, LockStep, FreeStep

(* Nobody is counted initially.                                            *)
LEMMA CoverInit == Init => CoverInv
<1> SUFFICES ASSUME Init PROVE CoverInv
  OBVIOUS
<1>1. FileInv /\ Calls
  BY FileInit DEF Init, Calls, StartSteps
<1>2. \A i \in Image : Users(i) = {} /\ IdleUsers(i) = {}
  BY DEF Init, Users, IdleUsers
<1>3. \A i \in Image : Count(assocs, i) = 0 /\ Count(assocFile, i) = 0
  BY DEF Init, Count, NoAssociations
<1> QED
  BY <1>1, <1>2, <1>3, FS_EmptySet DEF CoverInv, MapCovers, FileCovers

(* A restart between calls loads what the daemon knew: with one call at a  *)
(* time and no failing save, the file holds the map, crashes or not, even  *)
(* if one leaves the file empty.                                           *)
THEOREM FileIsTheMap == ASSUME OneAtATime PROVE Spec => []FileMatchesMap
<1>1. FileInv => FileMatchesMap
  BY DEF FileInv, Saved, FileMatchesMap, Idle, SaveSteps
<1> QED
  BY <1>1, FileInit, FileStep, PTL DEF Spec

(* After any number of crashes and restarts VMCount covers the running     *)
(* VMs: no image is torn down under one.                                   *)
THEOREM CountsCoverUsers == ASSUME Careful PROVE Spec => []CountCoversUsers
<1>1. CoverInv => CountCoversUsers
  BY DEF CoverInv, MapCovers, CountCoversUsers
<1> QED
  BY <1>1, CoverInit, CoverStep, PTL DEF Spec

-----------------------------------------------------------------------------
(* Look-ups that load the file: the counts never exceed the users.         *)

Held == LookUpHolds /\ NotTwice /\ FoundEntry /\ FirstUser

(* Every step of a daemon that does not crash keeps the critical section   *)
(* of wlaMtx and the entries that Create found.                            *)
LEMMA HeldStep ==
  ASSUME MaxCrashes = 0, ReloadInv, [Next]_vars
  PROVE  up' /\ Held'
<1> USE DEF Held, LookUpHolds, NotTwice, FoundEntry, FirstUser, Goto, Return, StartSteps, Idle
<1>0. /\ MutexInv /\ TypeOK /\ up /\ Held /\ NoVM \notin VM
      /\ pc \in [VM -> {"idle"} \cup StartSteps \cup StopSteps \cup PrepareSteps \cup SaveSteps]
      /\ ptr \in [VM -> {"none", "live", "orphan"}]
      /\ attached \subseteq VM
  BY NoVMAssumption DEF ReloadInv, MutexInv, TypeOK
<1>1. ASSUME NEW v \in VM, CallStart(v) \/ CallStop(v) \/ CallPrepare(v) PROVE up' /\ Held'
  BY <1>0, <1>1 DEF CallStart, CallStop, CallPrepare, Call, locks
<1>2. ASSUME NEW v \in VM, Enter(v) PROVE up' /\ Held'
  BY <1>0, <1>2 DEF Enter
<1>3. ASSUME NEW v \in VM, CreateLookUp(v) PROVE up' /\ Held'
  BY <1>0, <1>3 DEF CreateLookUp
<1>4. ASSUME NEW v \in VM, CreateStore(v) PROVE up' /\ Held'
  <2>1. /\ pc[v] = "store" /\ pc' = [pc EXCEPT ![v] = "marshal"]
        /\ attached' = attached \cup {v} /\ UNCHANGED <<wlaMtx, ptr, up>>
    BY <1>4 DEF CreateStore
  <2>2. DOMAIN assocs \subseteq DOMAIN assocs'
    BY <1>0, <1>4, CreateStoreEffect
  <2>3. ImageOf[v] \in DOMAIN assocs'
    <3>1. CASE ptr[v] = "none"
      <4>1. assocs' = Put(assocs, ImageOf[v], 1)
        BY <1>0, <1>4, <3>1, CreateStoreEffect
      <4>2. ImageOf[v] \in Image
        BY ImageOfAssumption
      <4>3. DOMAIN Put(assocs, ImageOf[v], 1) = DOMAIN assocs \cup {ImageOf[v]}
        BY <4>2, PutDomain
      <4> QED
        BY <4>1, <4>3
    <3>2. CASE ptr[v] # "none"
      BY <1>0, <2>1, <2>2, <3>2
    <3> QED
      BY <3>1, <3>2
  <2>4. assocs' # NoAssociations
    BY <2>3 DEF NoAssociations
  <2> QED
    BY <1>0, <2>1, <2>2, <2>4
<1>5. ASSUME NEW v \in VM, DeleteCounted(v) PROVE up' /\ Held'
  <2>1. /\ pc' = [pc EXCEPT ![v] = "marshal"] /\ attached' = attached \ {v}
        /\ UNCHANGED <<wlaMtx, ptr, up>>
    BY <1>5 DEF DeleteCounted, locks
  <2>2. DOMAIN assocs' = DOMAIN assocs /\ Count(assocs, ImageOf[v]) # 0
    BY <1>0, <1>5, DeleteEffect
  <2>3. ImageOf[v] \in DOMAIN assocs'
    BY <2>2 DEF Count
  <2>4. assocs' # NoAssociations
    BY <2>3 DEF NoAssociations
  <2> QED
    BY <1>0, <2>1, <2>2, <2>4
<1>6. ASSUME NEW v \in VM, DeleteMissing(v) PROVE up' /\ Held'
  BY <1>0, <1>6 DEF DeleteMissing
<1>7. ASSUME NEW v \in VM,
             \/ Marshal(v) \/ StatFile(v) \/ WriteOpen(v) \/ LookUpLen(v) \/ LoadOpen(v)
             \/ LoadRead(v)
      PROVE  up' /\ Held'
  BY <1>0, <1>7 DEF Marshal, StatFile, WriteOpen, LookUpLen, LoadOpen, LoadRead, locks
<1>8. ASSUME NEW v \in VM, StatFails(v) \/ WriteFile(v) \/ WriteFails(v) \/ LookUpGet(v)
      PROVE  up' /\ Held'
  BY <1>0, <1>8 DEF StatFails, WriteFile, WriteFails, WriteClose, LookUpGet
<1>9. ASSUME NEW v \in VM, Unmarshal(v) PROVE up' /\ Held'
  <2>1. /\ pc[v] = "unmarshal" /\ pc' = [pc EXCEPT ![v] = "get"]
        /\ UNCHANGED <<wlaMtx, attached, up>>
        /\ \A w \in VM : ptr'[w] # "none" => ptr[w] # "none"
    BY <1>0, <1>9 DEF Unmarshal, locks
  <2>2. DOMAIN assocs \subseteq DOMAIN assocs'
    BY <1>9 DEF Unmarshal, Merge
  <2>3. assocs' = NoAssociations => assocs = NoAssociations
    BY <1>0, <2>2 DEF NoAssociations, TypeOK, IsAssociations
  <2> QED
    BY <1>0, <2>1, <2>2, <2>3
<1>10. ASSUME NEW v \in VM, StopWhileDown(v) PROVE up' /\ Held'
  BY <1>0, <1>10 DEF StopWhileDown
<1>11. CASE Crash \/ Restart
  BY <1>0, <1>11 DEF Crash, Restart, TypeOK
<1>12. CASE UNCHANGED vars
  BY <1>0, <1>12 DEF vars, locks
<1> QED
  BY <1>1, <1>2, <1>3, <1>4, <1>5, <1>6, <1>7, <1>8, <1>9, <1>10, <1>11, <1>12
     DEF Next, Step, LockStep, FreeStep

(* A map that is below the users stays below more of them.                 *)
LEMMA MoreUsers ==
  ASSUME TypeOK, TypeOK', attached \subseteq attached', NEW m, IsAssociations(m), Below(m)
  PROVE  \A i \in Image : Count(m, i) <= Cardinality(Users(i)')
<1>1. SUFFICES ASSUME NEW i \in Image PROVE Count(m, i) <= Cardinality(Users(i)')
  OBVIOUS
<1>2. Users(i) \subseteq Users(i)' /\ Users(i)' \subseteq VM
  BY DEF Users, TypeOK
<1>3. /\ Cardinality(Users(i)) \in Nat /\ Cardinality(Users(i)') \in Nat
      /\ Cardinality(Users(i)) <= Cardinality(Users(i)')
  BY <1>2, FiniteAssumption, FS_Subset, FS_CardinalityType
<1>4. Count(m, i) \in Nat /\ Count(m, i) <= Cardinality(Users(i))
  BY <1>1, CountType DEF Below
<1> QED
  BY <1>3, <1>4

(* The empty map is below any users.                                       *)
LEMMA NothingBelow ==
  ASSUME TypeOK'
  PROVE  \A i \in Image : Count(NoAssociations, i) <= Cardinality(Users(i)')
<1>1. SUFFICES ASSUME NEW i \in Image PROVE Count(NoAssociations, i) <= Cardinality(Users(i)')
  OBVIOUS
<1>2. Users(i)' \subseteq VM
  BY DEF Users, TypeOK
<1>3. Cardinality(Users(i)') \in Nat
  BY <1>2, FiniteAssumption, FS_Subset, FS_CardinalityType
<1>4. Count(NoAssociations, i) = 0
  BY DEF Count, NoAssociations
<1> QED
  BY <1>3, <1>4

(* Create and Delete keep the map below the users.                         *)
LEMMA CreateBelow ==
  ASSUME ReloadInv, TypeOK', NEW v \in VM, CreateStore(v)
  PROVE  Below(assocs)'
<1> DEFINE i == ImageOf[v]
<1>1. MutexInv /\ TypeOK /\ IsAssociations(assocs) /\ i \in Image
  BY ImageOfAssumption DEF ReloadInv, MutexInv, TypeOK
<1>2. v \notin attached /\ attached' = attached \cup {v}
  BY DEF CreateStore, ReloadInv, NotTwice, StartSteps
<1>3. SUFFICES ASSUME NEW j \in Image PROVE Count(assocs', j) <= Cardinality(Users(j)')
  BY DEF Below
<1>4. Cardinality(Users(j)') = IF j = i THEN Cardinality(Users(j)) + 1 ELSE Cardinality(Users(j))
  BY <1>1, <1>2, <1>3, UsersAttach
<1>5. /\ Count(assocs, j) \in Nat /\ Cardinality(Users(j)) \in Nat
      /\ Count(assocs, j) <= Cardinality(Users(j))
  BY <1>1, <1>3, CountType, UsersFinite DEF ReloadInv, Below
<1>6. CASE ptr[v] = "none"
  <2>1. assocs' = Put(assocs, i, 1)
    BY <1>1, <1>6, CreateStoreEffect
  <2>2. Count(assocs', i) = 1 /\ (j # i => Count(assocs', j) = Count(assocs, j))
    BY <1>1, <1>3, <2>1, PutCount
  <2> QED
    BY <1>4, <1>5, <2>2
<1>7. CASE ptr[v] = "live"
  <2>1. assocs' = Put(assocs, i, Count(assocs, i) + 1)
    BY <1>1, <1>7, CreateStoreEffect
  <2>2. Count(assocs', i) = Count(assocs, i) + 1 /\ (j # i => Count(assocs', j) = Count(assocs, j))
    BY <1>1, <1>3, <2>1, PutCount
  <2> QED
    BY <1>4, <1>5, <2>2
<1>8. CASE ptr[v] = "orphan"
  <2>1. assocs' = assocs
    BY <1>8 DEF CreateStore
  <2> QED
    BY <1>4, <1>5, <2>1
<1> QED
  BY <1>1, <1>6, <1>7, <1>8 DEF TypeOK

(* Delete takes a VM off that may not have been counted.                   *)
LEMMA DeleteBelow ==
  ASSUME ReloadInv, TypeOK', NEW v \in VM, DeleteCounted(v) \/ DeleteMissing(v)
  PROVE  Below(assocs)'
<1> DEFINE i == ImageOf[v]
<1>1. MutexInv /\ TypeOK /\ IsAssociations(assocs) /\ i \in Image
  BY ImageOfAssumption DEF ReloadInv, MutexInv, TypeOK
<1>2. SUFFICES ASSUME NEW j \in Image PROVE Count(assocs', j) <= Cardinality(Users(j)')
  BY DEF Below
<1>3. /\ Cardinality(Users(j)') \in Nat
      /\ Cardinality(Users(j)') >=
           IF j = i THEN Cardinality(Users(j)) - 1 ELSE Cardinality(Users(j))
  <2>1. attached' = attached \ {v}
    BY DEF DeleteCounted, DeleteMissing
  <2>2. CASE v \in attached
    <3>1. Cardinality(Users(j)') =
            IF j = i THEN Cardinality(Users(j)) - 1 ELSE Cardinality(Users(j))
      BY <1>1, <1>2, <2>1, <2>2, UsersDetach
    <3>2. Users(j)' \subseteq VM
      BY <1>2 DEF Users, TypeOK
    <3>3. Cardinality(Users(j)') \in Nat /\ Cardinality(Users(j)) \in Nat
      BY <1>1, <1>2, <3>2, FiniteAssumption, FS_Subset, FS_CardinalityType, UsersFinite
    <3> QED
      BY <3>1, <3>3
  <2>3. CASE v \notin attached
    <3>1. Users(j)' = Users(j)
      BY <2>1, <2>3 DEF Users
    <3> QED
      BY <1>1, <1>2, <3>1, UsersFinite
  <2> QED
    BY <2>2, <2>3
<1>4. /\ Count(assocs, j) \in Nat /\ Cardinality(Users(j)) \in Nat
      /\ Count(assocs, j) <= Cardinality(Users(j))
  BY <1>1, <1>2, CountType, UsersFinite DEF ReloadInv, Below
<1>5. CASE DeleteCounted(v)
  <2>1. assocs' = Put(assocs, i, Count(assocs, i) - 1)
    BY <1>1, <1>5, DeleteEffect
  <2>2. Count(assocs', i) = Count(assocs, i) - 1 /\ (j # i => Count(assocs', j) = Count(assocs, j))
    BY <1>1, <1>2, <2>1, PutCount
  <2> QED
    BY <1>3, <1>4, <2>2
<1>6. CASE DeleteMissing(v)
  <2>1. assocs' = assocs /\ Count(assocs, i) = 0
    BY <1>6 DEF DeleteMissing
  <2> QED
    BY <1>3, <1>4, <2>1
<1> QED
  BY <1>5, <1>6

(* Unmarshal runs only in a look-up that found the map empty.              *)
LEMMA UnmarshalBelow ==
  ASSUME ReloadInv, NEW v \in VM, Unmarshal(v)
  PROVE  Below(assocs)'
<1>1. Below(buf[v]) /\ Below(assocs) /\ attached' = attached /\ assocs' = Merge(buf[v], assocs)
  BY DEF Unmarshal, ReloadInv, CopiesBelow, Loading
<1>2. \A i \in Image : Count(Merge(buf[v], assocs), i) \in {Count(buf[v], i), Count(assocs, i)}
  BY DEF Merge, Count
<1>3. \A i \in Image : Users(i)' = Users(i)
  BY <1>1 DEF Users
<1> QED
  BY <1>1, <1>2, <1>3 DEF Below

(* Whoever reads or writes copies the map, the file or nothing.            *)
LEMMA Copies ==
  ASSUME ReloadInv, MaxCrashes = 0, [Next]_vars
  PROVE  /\ assocFile' \in {assocFile, NoAssociations} \cup {buf[v] : v \in VM}
         /\ \A w \in VM : buf'[w] \in {buf[w], NoAssociations, assocs, assocFile}
<1> USE DEF Return
<1>0. TypeOK /\ up /\ crashes = 0 /\ DOMAIN buf = VM
  BY DEF ReloadInv, MutexInv, TypeOK
<1>1. ASSUME NEW v \in VM, Step(v)
      PROVE  /\ assocFile' \in {assocFile, NoAssociations} \cup {buf[w] : w \in VM}
             /\ \A w \in VM : buf'[w] \in {buf[w], NoAssociations, assocs, assocFile}
  <2>1. CASE CallStart(v) \/ CallStop(v) \/ CallPrepare(v) \/ StopWhileDown(v)
    BY <2>1 DEF CallStart, CallStop, CallPrepare, Call, StopWhileDown
  <2>2. CASE Enter(v) \/ CreateLookUp(v) \/ DeleteCounted(v) \/ DeleteMissing(v) \/ LoadOpen(v)
    BY <1>0, <2>2 DEF Enter, CreateLookUp, DeleteCounted, DeleteMissing, LoadOpen
  <2>3. CASE WriteOpen(v) \/ LookUpGet(v) \/ CreateStore(v) \/ StatFile(v) \/ LookUpLen(v)
    BY <1>0, <2>3 DEF WriteOpen, LookUpGet, CreateStore, StatFile, LookUpLen
  <2>4. CASE Marshal(v) \/ LoadRead(v) \/ Unmarshal(v) \/ StatFails(v)
    BY <1>0, <2>4 DEF Marshal, LoadRead, Unmarshal, StatFails
  <2>5. CASE WriteFile(v) \/ WriteFails(v)
    BY <1>0, <1>1, <2>5 DEF WriteFile, WriteFails, WriteClose
  <2> QED
    BY <1>1, <2>1, <2>2, <2>3, <2>4, <2>5 DEF Step, LockStep, FreeStep
<1>2. ~Crash /\ ~Restart
  BY <1>0 DEF Crash, Restart
<1> QED
  BY <1>1, <1>2 DEF Next, vars

(* While the file may still be loaded, nobody is taken off.                *)
LEMMA NobodyLeaves ==
  ASSUME MaxCrashes = 0, ReloadInv, [Next]_vars, (assocs = NoAssociations \/ Loading)'
  PROVE  (assocs = NoAssociations \/ Loading) /\ attached \subseteq attached'
<1> USE DEF Goto, Return, Loading
<1>0. /\ TypeOK /\ MutexInv /\ up /\ LookUpHolds /\ FirstUser /\ crashes = 0
      /\ pc \in [VM -> {"idle"} \cup StartSteps \cup StopSteps \cup PrepareSteps \cup SaveSteps]
  BY DEF ReloadInv, MutexInv, TypeOK
<1>1. ASSUME NEW v \in VM, CreateStore(v) \/ Unmarshal(v)
      PROVE  (assocs = NoAssociations \/ Loading) /\ attached \subseteq attached'
  <2>1. CASE CreateStore(v)
    <3>1. DOMAIN assocs \subseteq DOMAIN assocs'
      BY <1>0, <2>1, CreateStoreEffect
    <3>2. assocs' = NoAssociations => assocs = NoAssociations
      BY <1>0, <3>1 DEF NoAssociations, TypeOK, IsAssociations
    <3>3. Loading' => Loading
      BY <1>0, <2>1 DEF CreateStore
    <3>4. attached \subseteq attached'
      BY <2>1 DEF CreateStore
    <3> QED
      BY <3>2, <3>3, <3>4
  <2>2. CASE Unmarshal(v)
    BY <2>2 DEF Unmarshal
  <2> QED
    BY <1>1, <2>1, <2>2
<1>2. ASSUME NEW v \in VM, DeleteCounted(v) \/ DeleteMissing(v)
      PROVE  (assocs = NoAssociations \/ Loading) /\ attached \subseteq attached'
  <2>1. wlaMtx = v /\ pc'[v] \in {"marshal", "idle"} /\ \A w \in VM \ {v} : pc'[w] = pc[w]
    BY <1>0, <1>2 DEF LookUpHolds, DeleteCounted, DeleteMissing
  <2>2. ~Loading'
    BY <1>0, <2>1 DEF LookUpHolds
  <2>3. CASE DeleteCounted(v)
    <3>1. DOMAIN assocs' = DOMAIN assocs /\ Count(assocs, ImageOf[v]) # 0
      BY <1>0, <2>3, DeleteEffect
    <3>2. assocs' # NoAssociations
      BY <3>1 DEF Count, NoAssociations
    <3> QED
      BY <2>2, <3>2
  <2>4. CASE DeleteMissing(v)
    BY <1>0, <2>2, <2>4 DEF DeleteMissing, FirstUser
  <2> QED
    BY <1>2, <2>3, <2>4
<1>3. ASSUME NEW v \in VM,
             \/ CallStart(v) \/ CallStop(v) \/ CallPrepare(v) \/ Enter(v) \/ CreateLookUp(v)
             \/ WriteOpen(v) \/ Marshal(v) \/ StatFile(v)
      PROVE  (assocs = NoAssociations \/ Loading) /\ attached \subseteq attached'
  BY <1>0, <1>3 DEF CallStart, CallStop, CallPrepare, Call, Enter, CreateLookUp, WriteOpen, Marshal,
     StatFile
<1>4. ASSUME NEW v \in VM,
             \/ LookUpLen(v) \/ LoadOpen(v) \/ LoadRead(v) \/ LookUpGet(v) \/ StatFails(v)
             \/ WriteFile(v) \/ WriteFails(v)
      PROVE  (assocs = NoAssociations \/ Loading) /\ attached \subseteq attached'
  BY <1>0, <1>4 DEF LookUpLen, LoadOpen, LoadRead, LookUpGet, StatFails, WriteFile, WriteFails,
     WriteClose
<1>5. CASE UNCHANGED vars
  BY <1>5 DEF vars
<1>6. (~\E v \in VM : StopWhileDown(v)) /\ ~Crash /\ ~Restart
  BY <1>0 DEF StopWhileDown, Crash, Restart
<1> QED
  BY <1>1, <1>2, <1>3, <1>4, <1>5, <1>6 DEF Next, Step, LockStep, FreeStep

(* Every step keeps the map below the users, and with it what may still be *)
(* loaded.                                                                 *)
LEMMA ReloadStep ==
  ASSUME MaxCrashes = 0, ReloadInv, [Next]_vars
  PROVE  ReloadInv'
<1>0. /\ MutexInv' /\ up' /\ Held' /\ TypeOK /\ TypeOK' /\ up /\ crashes = 0
      /\ IsAssociations(NoAssociations)
  BY MutexStep, HeldStep, NoAssociationsType DEF ReloadInv, MutexInv, TypeOK
<1>1. Below(assocs)'
  <2>1. ASSUME NEW v \in VM, CreateStore(v) \/ DeleteCounted(v) \/ DeleteMissing(v) \/ Unmarshal(v)
        PROVE  Below(assocs)'
    BY <1>0, <2>1, CreateBelow, DeleteBelow, UnmarshalBelow
  <2>2. ASSUME UNCHANGED <<assocs, attached>> PROVE Below(assocs)'
    BY <2>2 DEF ReloadInv, Below, Users
  <2>3. ASSUME NEW v \in VM, Step(v),
               ~CreateStore(v), ~DeleteCounted(v), ~DeleteMissing(v), ~Unmarshal(v)
        PROVE  UNCHANGED <<assocs, attached>>
    BY <1>0, <2>3 DEF Step, LockStep, FreeStep, CallStart, CallStop, CallPrepare, Call, Enter,
       CreateLookUp, WriteOpen, LoadOpen, LookUpGet, Marshal, StatFile, WriteFile, LookUpLen,
       LoadRead, StatFails, WriteFails, WriteClose, StopWhileDown
  <2>4. ~Crash /\ ~Restart
    BY <1>0 DEF Crash, Restart
  <2> QED
    BY <2>1, <2>2, <2>3, <2>4 DEF Next, vars
<1>2. CopiesBelow'
  <2>1. SUFFICES ASSUME (assocs = NoAssociations \/ Loading)'
                 PROVE  /\ Below(assocFile)'
                        /\ \A w \in VM : \A i \in Image :
                             Count(buf'[w], i) <= Cardinality(Users(i)')
    BY DEF CopiesBelow, Below
  <2>2. (assocs = NoAssociations \/ Loading) /\ attached \subseteq attached'
    BY <2>1, NobodyLeaves
  <2>3. /\ IsAssociations(assocs) /\ Below(assocs)
        /\ IsAssociations(assocFile) /\ Below(assocFile)
        /\ \A w \in VM : IsAssociations(buf[w]) /\ Below(buf[w])
    BY <1>0, <2>2 DEF ReloadInv, CopiesBelow, TypeOK
  <2>4. ASSUME NEW m, m \in {assocs, assocFile, NoAssociations} \cup {buf[w] : w \in VM}
        PROVE  \A i \in Image : Count(m, i) <= Cardinality(Users(i)')
    <3>1. CASE m = NoAssociations
      BY <1>0, <3>1, NothingBelow
    <3>2. CASE m # NoAssociations
      <4>1. IsAssociations(m) /\ Below(m)
        BY <2>3, <2>4, <3>2
      <4> QED
        BY <1>0, <2>2, <4>1, MoreUsers
    <3> QED
      BY <3>1, <3>2
  <2> QED
    BY <2>4, Copies DEF Below
<1> QED
  BY <1>0, <1>1, <1>2 DEF ReloadInv, Held

(* Nobody is counted initially.                                            *)
LEMMA ReloadInit == Init => ReloadInv
<1> SUFFICES ASSUME Init PROVE ReloadInv
  OBVIOUS
<1>1. MutexInv /\ up /\ LookUpHolds /\ NotTwice /\ FoundEntry /\ FirstUser
  BY MutexInit DEF Init, LookUpHolds, NotTwice, FoundEntry, FirstUser, StartSteps
<1>2. \A i \in Image : Count(NoAssociations, i) = 0 /\ Users(i) = {}
  BY DEF Init, Count, NoAssociations, Users
<1>3. Below(NoAssociations)
  BY <1>2, FS_EmptySet DEF Below
<1>4. Below(assocs) /\ CopiesBelow
  BY <1>3 DEF Init, CopiesBelow
<1> QED
  BY <1>1, <1>4 DEF ReloadInv

(* As long as the daemon does not die, no re-read of the file makes        *)
(* VMCount exceed the number of users, whatever calls interleave, saves    *)
(* fail or Stop is called for a VM that was never counted.                 *)
THEOREM CountsBelowUsers == ASSUME MaxCrashes = 0 PROVE Spec => []CountNeverExceedsUsers
<1>1. ReloadInv => CountNeverExceedsUsers
  BY DEF ReloadInv, Below, CountNeverExceedsUsers
<1> QED
  BY <1>1, ReloadInit, ReloadStep, PTL DEF Spec
=============================================================================
