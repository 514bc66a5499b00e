---------------------------- MODULE ServiceProofs ----------------------------
(***************************************************************************)
(* Theorems about Service, for any finite set of VMs, any timeout and any  *)
(* number of restarts, in every environment.                               *)
(***************************************************************************)
EXTENDS Service, FiniteSetTheorems, TLAPS

(* The VMs with a call in flight.                                          *)
InCall == {v \in VM : ~At(v, "idle")}

(* A daemon that is down runs nothing, and its RPC task begins anew.       *)
DownIsQuiet == ~Running => rpc = "starting" /\ InCall = {}

(* The signal is within the bound on exits, so the exit is.                *)
ExitsBounded == daemon = "quitting" => downs < MaxDowns

Inv == TypeOK /\ TaskPerCall /\ DownIsQuiet /\ ExitsBounded

PC == {"idle", "queued", "make", "add", "register", "sign", "close"}

-----------------------------------------------------------------------------
(* The calls in flight.                                                    *)

(* There are finitely many.                                                *)
LEMMA InCallFinite == IsFiniteSet(InCall) /\ Cardinality(InCall) \in Nat
BY VMAssumption, FS_Subset, FS_CardinalityType DEF InCall

(* A call that begins is one more.                                         *)
LEMMA CallBegins ==
  ASSUME NEW v \in VM, pc \in [VM -> PC], At(v, "idle"),
         NEW step \in PC \ {"idle"}, pc' = [pc EXCEPT ![v] = step]
  PROVE  Cardinality(InCall') = Cardinality(InCall) + 1
<1>1. InCall' = InCall \cup {v} /\ v \notin InCall
  BY DEF InCall, At, PC
<1> QED
  BY <1>1, InCallFinite, FS_AddElement

(* A call that goes on to another step still is one.                       *)
LEMMA CallGoesOn ==
  ASSUME NEW v \in VM, pc \in [VM -> PC], ~At(v, "idle"),
         NEW step \in PC \ {"idle"}, pc' = [pc EXCEPT ![v] = step]
  PROVE  InCall' = InCall
BY DEF InCall, At, PC

(* A call that returns is one less, and there was one.                     *)
LEMMA CallReturns ==
  ASSUME NEW v \in VM, pc \in [VM -> PC], ~At(v, "idle"), pc' = [pc EXCEPT ![v] = "idle"]
  PROVE  /\ Cardinality(InCall') = Cardinality(InCall) - 1
         /\ Cardinality(InCall) \in Nat \ {0}
<1>1. InCall' = InCall \ {v} /\ v \in InCall
  BY DEF InCall, At, PC
<1>2. Cardinality(InCall) # 0
  BY <1>1, InCallFinite, FS_EmptySet
<1> QED
  BY <1>1, <1>2, InCallFinite, FS_RemoveElement

(* A call in flight means that the daemon runs.                            *)
LEMMA CallsNeedDaemon ==
  ASSUME Inv, NEW v \in VM, ~At(v, "idle")
  PROVE  Running /\ tasks = ServiceTasks + Cardinality(InCall)
BY DEF Inv, DownIsQuiet, TaskPerCall, InCall

-----------------------------------------------------------------------------
(* What the operators shared by the actions do to the count.               *)

(* The parts of the invariant that are about tasks.                        *)
Counted == tasks \in Nat /\ TaskPerCall /\ DownIsQuiet

(* A call that is accepted is counted.                                     *)
LEMMA AcceptCounts ==
  ASSUME Inv, NEW v \in VM, NEW step \in PC \ {"idle"}, NEW state, Accept(v, step, state)
  PROVE  Counted'
<1>1. Running /\ tasks = ServiceTasks + Cardinality(InCall)
  BY DEF Inv, DownIsQuiet, TaskPerCall, Accept, InCall
<1>2. Cardinality(InCall') = Cardinality(InCall) + 1
  BY CallBegins DEF Inv, TypeOK, Accept, PC
<1>3. Running' /\ tasks' = tasks + 1 /\ ServiceTasks' = ServiceTasks
  BY <1>1 DEF Accept, shutdown, Running, ServiceTasks
<1> QED
  BY <1>1, <1>2, <1>3, InCallFinite DEF Counted, TaskPerCall, DownIsQuiet, ServiceTasks, InCall

(* So does a step from one point of a handler to another.                  *)
LEMMA GotoCounts ==
  ASSUME Inv, NEW v \in VM, ~At(v, "idle"), NEW step \in PC \ {"idle"},
         pc' = [pc EXCEPT ![v] = step], UNCHANGED <<tasks, daemon, rpc>>
  PROVE  Counted'
<1>1. InCall' = InCall
  BY CallGoesOn DEF Inv, TypeOK, PC
<1> QED
  BY <1>1 DEF Inv, TypeOK, Counted, TaskPerCall, DownIsQuiet, Running, InCall, ServiceTasks

(* A return takes exactly one call off.                                    *)
LEMMA ReturnCounts ==
  ASSUME Inv, NEW v \in VM, ~At(v, "idle"), NEW state, Return(v, state),
         UNCHANGED <<daemon, rpc>>
  PROVE  Counted'
<1>1. /\ Running
      /\ tasks = ServiceTasks + Cardinality(InCall)
  BY CallsNeedDaemon
<1>2. /\ Cardinality(InCall') = Cardinality(InCall) - 1
      /\ Cardinality(InCall) \in Nat \ {0}
  BY CallReturns DEF Inv, TypeOK, PC, Return
<1>3. Running' /\ tasks' = tasks - 1 /\ ServiceTasks' = ServiceTasks
  BY <1>1 DEF Return, Running, ServiceTasks
<1> QED
  BY <1>1, <1>2, <1>3, InCallFinite DEF Counted, TaskPerCall, DownIsQuiet, ServiceTasks, InCall

-----------------------------------------------------------------------------
(* The count of every action.                                              *)

(* Every step keeps the count.                                             *)
LEMMA CountStep ==
  ASSUME Inv, [Next]_vars
  PROVE  Counted'
<1> USE DEF shutdown, watcher, files
<1>1. ASSUME NEW v \in VM, CallPrepare(v) \/ CallStart(v) \/ CallStop(v) PROVE Counted'
  BY <1>1, AcceptCounts DEF CallPrepare, CallStart, CallStop, PC
<1>2. ASSUME NEW v \in VM, Enter(v) PROVE Counted'
  BY <1>2, GotoCounts DEF Enter, At, PC
<1>3. ASSUME NEW v \in VM, MakeVolume(v) PROVE Counted'
  BY <1>3, GotoCounts, ReturnCounts DEF MakeVolume, Goto, At, PC
<1>4. ASSUME NEW v \in VM, AddWatch(v) PROVE Counted'
  BY <1>4, GotoCounts, ReturnCounts DEF AddWatch, Goto, At, PC
<1>5. ASSUME NEW v \in VM, RegisterHandler(v) PROVE Counted'
  BY <1>5, ReturnCounts DEF RegisterHandler, At
<1>6. ASSUME NEW v \in VM, PrepareFails(v) PROVE Counted'
  BY <1>6, ReturnCounts DEF PrepareFails, At
<1>7. ASSUME NEW v \in VM, FinishStart(v) PROVE Counted'
  BY <1>7, ReturnCounts DEF FinishStart, At
<1>8. ASSUME NEW v \in VM, FinishStop(v) PROVE Counted'
  BY <1>8, ReturnCounts DEF FinishStop, At
<1>9. ASSUME UNCHANGED <<tasks, pc, daemon, rpc>> PROVE Counted'
  BY <1>9 DEF Inv, TypeOK, Counted, TaskPerCall, DownIsQuiet, InCall, At, Running, ServiceTasks
<1>10. ASSUME GoDown PROVE Counted'
  <2>1. ~Running' /\ tasks' = tasks /\ rpc' = "starting"
    BY <1>10 DEF GoDown, Running
  <2>2. InCall' = {}
    BY <1>10 DEF GoDown, InCall, At
  <2> QED
    BY <2>1, <2>2 DEF Inv, TypeOK, Counted, TaskPerCall, DownIsQuiet
<1>11. ASSUME Restart PROVE Counted'
  <2>1. InCall = {} /\ InCall' = InCall
    BY <1>11 DEF Restart, Inv, DownIsQuiet, Running, InCall, At
  <2>2. tasks' = ServiceTasks' /\ Running' /\ Cardinality({}) = 0
    BY <1>11, FS_EmptySet DEF Restart, Running, Inv, DownIsQuiet, ServiceTasks
  <2> QED
    BY <2>1, <2>2 DEF Counted, TaskPerCall, DownIsQuiet, ServiceTasks, InCall
<1>12. ASSUME Signal \/ Listen PROVE Counted'
  <2>1. /\ Running /\ Running' /\ UNCHANGED <<tasks, pc>> /\ InCall' = InCall
        /\ ServiceTasks' = ServiceTasks
    BY <1>12 DEF Signal, Listen, Running, InCall, At, ServiceTasks
  <2> QED
    BY <2>1 DEF Inv, TypeOK, Counted, TaskPerCall, DownIsQuiet, InCall
<1>13. ASSUME NEW v \in VM, Delete(v) \/ Touch(v) \/ Rebuild(v) \/ StopUnheard(v)
       PROVE  Counted'
  BY <1>9, <1>13 DEF Delete, Touch, Rebuild, StopUnheard
<1>14. ASSUME Handle \/ Tick \/ UNCHANGED vars PROVE Counted'
  BY <1>9, <1>14 DEF Handle, Tick, vars
<1>15. ASSUME ListenFails PROVE Counted'
  <2>1. /\ Running /\ Running' /\ InCall' = InCall
        /\ tasks' = tasks - 1 /\ ServiceTasks = 2 /\ ServiceTasks' = 1
    BY <1>15 DEF ListenFails, Running, InCall, At, ServiceTasks
  <2>2. tasks = ServiceTasks + Cardinality(InCall)
    BY <2>1 DEF Inv, TaskPerCall, InCall
  <2> QED
    BY <2>1, <2>2, InCallFinite DEF Counted, TaskPerCall, DownIsQuiet, InCall
<1> QED
  BY <1>1, <1>2, <1>3, <1>4, <1>5, <1>6, <1>7, <1>8, <1>10, <1>11, <1>12, <1>13, <1>14, <1>15
     DEF Next, Hook, Work, Panic, Exit

-----------------------------------------------------------------------------
(* The types.                                                              *)

(* An event is delivered to Watch or not, and is one of two kinds.         *)
LEMMA EventType ==
  ASSUME TypeOK, NEW v \in VM, NEW kind \in {"remove", "chmod"}, Event(v, kind)
  PROVE  events' \in Seq(VM \X {"remove", "chmod"})
BY DEF TypeOK, Event

(* Every step keeps the types; the count is CountStep's.                   *)
LEMMA TypeStep ==
  ASSUME Inv, [Next]_vars
  PROVE  TypeOK' /\ ExitsBounded'
<1> USE DEF TypeOK, ExitsBounded, shutdown, watcher, files, Goto, Return
<1>0. TypeOK /\ ExitsBounded /\ tasks' \in Nat /\ 0 \in 0 .. Timeout
  BY CountStep, BoundsAssumption DEF Inv, Counted
<1> HIDE DEF TypeOK, ExitsBounded
<1>1. ASSUME NEW v \in VM, CallPrepare(v) \/ CallStart(v) \/ CallStop(v)
      PROVE  TypeOK' /\ ExitsBounded'
  <2>1. PICK step \in {"queued", "sign"}, state \in {"preparing", "starting", "stopping"} :
          Accept(v, step, state)
    BY <1>1 DEF CallPrepare, CallStart, CallStop
  <2>2. since' \in [VM -> 0 .. Timeout]
    BY <1>0, <2>1 DEF TypeOK, Accept
  <2>3. pc' \in [VM -> {"idle", "queued", "make", "add", "register", "sign", "close"}]
    BY <1>0, <2>1 DEF TypeOK, Accept
  <2>4. dom' \in [VM -> {"shutoff", "preparing", "prepared", "starting",
                         "running", "stopping", "deleted"}]
    BY <1>0, <2>1 DEF TypeOK, Accept
  <2> QED
    BY <1>0, <2>1, <2>2, <2>3, <2>4 DEF TypeOK, ExitsBounded, Accept
<1>2. ASSUME NEW v \in VM, Enter(v) PROVE TypeOK' /\ ExitsBounded'
  BY <1>0, <1>2, BoundsAssumption DEF TypeOK, ExitsBounded, Enter
<1>3. ASSUME NEW v \in VM, MakeVolume(v) PROVE TypeOK' /\ ExitsBounded'
  BY <1>0, <1>3 DEF TypeOK, ExitsBounded, MakeVolume
<1>4. ASSUME NEW v \in VM, AddWatch(v) PROVE TypeOK' /\ ExitsBounded'
  BY <1>0, <1>4 DEF TypeOK, ExitsBounded, AddWatch
<1>5. ASSUME NEW v \in VM, RegisterHandler(v) PROVE TypeOK' /\ ExitsBounded'
  BY <1>0, <1>5 DEF TypeOK, ExitsBounded, RegisterHandler
<1>6. ASSUME NEW v \in VM, PrepareFails(v) PROVE TypeOK' /\ ExitsBounded'
  BY <1>0, <1>6 DEF TypeOK, ExitsBounded, PrepareFails
<1>7. ASSUME NEW v \in VM, FinishStart(v) PROVE TypeOK' /\ ExitsBounded'
  BY <1>0, <1>7 DEF TypeOK, ExitsBounded, FinishStart
<1>8. ASSUME NEW v \in VM, FinishStop(v) PROVE TypeOK' /\ ExitsBounded'
  BY <1>0, <1>8 DEF TypeOK, ExitsBounded, FinishStop
<1>9. ASSUME NEW v \in VM, StopUnheard(v) \/ Rebuild(v) PROVE TypeOK' /\ ExitsBounded'
  BY <1>0, <1>9 DEF TypeOK, ExitsBounded, StopUnheard, Rebuild
<1>10. ASSUME NEW v \in VM, Delete(v) PROVE TypeOK' /\ ExitsBounded'
  <2>1. events' \in Seq(VM \X {"remove", "chmod"})
    BY <1>0, <1>10, EventType DEF Delete
  <2> QED
    BY <1>0, <1>10, <2>1 DEF TypeOK, ExitsBounded, Delete
<1>11. ASSUME NEW v \in VM, Touch(v) PROVE TypeOK' /\ ExitsBounded'
  <2>1. events' \in Seq(VM \X {"remove", "chmod"})
    BY <1>0, <1>11, EventType DEF Touch
  <2> QED
    BY <1>0, <1>11, <2>1 DEF TypeOK, ExitsBounded, Touch
<1>12. ASSUME Handle PROVE TypeOK' /\ ExitsBounded'
  <2>1. events' \in Seq(VM \X {"remove", "chmod"})
    BY <1>0, <1>12 DEF TypeOK, Handle
  <2>2. mountPath' \subseteq VM
    BY <1>0, <1>12 DEF TypeOK, Handle
  <2>3. stuck' \subseteq VM
    <3>1. Head(events) \in VM \X {"remove", "chmod"}
      BY <1>0, <1>12 DEF TypeOK, Handle
    <3>2. Head(events)[1] \in VM
      BY <3>1
    <3> QED
      BY <1>0, <1>12, <3>2 DEF TypeOK, Handle
  <2> QED
    BY <1>0, <1>12, <2>1, <2>2, <2>3 DEF TypeOK, ExitsBounded, Handle
<1>13. ASSUME Signal PROVE TypeOK' /\ ExitsBounded'
  BY <1>0, <1>13, BoundsAssumption DEF TypeOK, ExitsBounded, Signal
<1>14. ASSUME Tick PROVE TypeOK' /\ ExitsBounded'
  BY <1>0, <1>14, BoundsAssumption DEF TypeOK, ExitsBounded, Tick
<1>15. ASSUME GoDown, downs < MaxDowns PROVE TypeOK' /\ ExitsBounded'
  <2>1. events' \in Seq(VM \X {"remove", "chmod"})
    BY <1>15 DEF GoDown
  <2>2. dom' \in [VM -> {"shutoff", "preparing", "prepared", "starting",
                         "running", "stopping", "deleted"}]
    BY <1>0, <1>15 DEF TypeOK, GoDown
  <2> QED
    BY <1>0, <1>15, <2>1, <2>2, BoundsAssumption DEF TypeOK, ExitsBounded, GoDown
<1>16. ASSUME Restart \/ Listen \/ ListenFails PROVE TypeOK' /\ ExitsBounded'
  BY <1>0, <1>16, BoundsAssumption DEF TypeOK, ExitsBounded, Restart, Listen, ListenFails
<1>17. ASSUME UNCHANGED vars PROVE TypeOK' /\ ExitsBounded'
  BY <1>0, <1>17 DEF TypeOK, ExitsBounded, vars
<1>18. ASSUME Exit PROVE downs < MaxDowns
  BY <1>0, <1>18 DEF ExitsBounded, Exit
<1> QED
  BY <1>1, <1>2, <1>3, <1>4, <1>5, <1>6, <1>7, <1>8, <1>9, <1>10, <1>11, <1>12, <1>13,
     <1>14, <1>15, <1>16, <1>17, <1>18
     DEF Next, Hook, Work, Panic, Exit

-----------------------------------------------------------------------------
(* The types and the count.                                                *)

(* The invariant holds initially.                                          *)
LEMMA InvInit == Init => Inv
<1> SUFFICES ASSUME Init PROVE Inv
  OBVIOUS
<1>1. InCall = {} /\ Cardinality({}) = 0
  BY FS_EmptySet DEF Init, InCall, At
<1>2. TaskPerCall
  <2>1. tasks = ServiceTasks + Cardinality(InCall)
    BY <1>1 DEF Init, ServiceTasks
  <2> QED
    BY <2>1 DEF TaskPerCall, InCall
<1>3. TypeOK
  BY BoundsAssumption DEF Init, TypeOK, ServiceTasks
<1> QED
  BY <1>1, <1>2, <1>3 DEF Init, Inv, DownIsQuiet, ExitsBounded, Running

(* Every step preserves it.                                                *)
LEMMA InvStep ==
  ASSUME Inv, [Next]_vars
  PROVE  Inv'
BY CountStep, TypeStep DEF Inv, Counted

(* The types hold: the WaitGroup's count never drops below zero, which     *)
(* would be a panic of the daemon (server.go:80, 100, 125).                *)
THEOREM TypeCorrect == Spec => []TypeOK
<1>1. Inv => TypeOK
  BY DEF Inv
<1> QED
  BY <1>1, InvInit, InvStep, PTL DEF Spec

(* The WaitGroup counts the tasks of the service that have not ended, the  *)
(* RPC task among them where it cannot listen, and every call in flight,   *)
(* whichever way calls begin and return, across exits and restarts         *)
(* (server.go:75-141, main.go:486-529).                                    *)
THEOREM TasksAreCalls == Spec => []TaskPerCall
<1>1. Inv => TaskPerCall
  BY DEF Inv
<1> QED
  BY <1>1, InvInit, InvStep, PTL DEF Spec

-----------------------------------------------------------------------------
(* Where a call is.                                                        *)

InMutex(v) == pc[v] \in {"make", "add", "register", "close"}

(* wlaMtx is held by the call that is past Enter.                          *)
Locked == \A v \in VM : InMutex(v) <=> wlaMtx = v

(* The step of a call fits the domain.  A VM may be deleted under its      *)
(* Prepare, never under its Start or Stop.                                 *)
Placed ==
  \A v \in VM :
    /\ pc[v] = "idle" => dom[v] \notin {"preparing", "starting", "stopping"}
    /\ pc[v] = "queued" => dom[v] \in {"preparing", "stopping", "deleted"}
    /\ pc[v] \in {"make", "add", "register"} => dom[v] \in {"preparing", "deleted"}
    /\ pc[v] = "close" => dom[v] = "stopping"
    /\ pc[v] = "sign" => dom[v] = "starting"

CallInv == Inv /\ Locked /\ Placed

(* A return from the mutex, or from Start, keeps both.                     *)
LEMMA ReturnPlaced ==
  ASSUME CallInv, NEW v \in VM, pc[v] \notin {"idle", "queued"},
         NEW state \in {"shutoff", "prepared", "running"}, Return(v, state)
  PROVE  Locked' /\ Placed'
<1>1. TypeOK /\ Locked /\ Placed
  BY DEF CallInv, Inv
<1>2. ASSUME NEW u \in VM
      PROVE  /\ pc'[u] = IF u = v THEN "idle" ELSE pc[u]
             /\ dom'[u] = IF u = v /\ dom[v] # "deleted" THEN state ELSE dom[u]
  BY <1>1 DEF TypeOK, Return
<1>3. Placed'
  BY <1>1, <1>2 DEF Placed
<1>4. wlaMtx' = IF wlaMtx = v THEN NoVM ELSE wlaMtx
  BY DEF Return
<1>5. Locked'
  <2> SUFFICES ASSUME NEW u \in VM PROVE InMutex(u)' <=> wlaMtx' = u
    BY DEF Locked
  <2> QED
    BY <1>1, <1>2, <1>4, VMAssumption DEF Locked, InMutex
<1> QED
  BY <1>3, <1>5

(* Every step keeps both.                                                  *)
LEMMA PlacedStep ==
  ASSUME CallInv, [Next]_vars
  PROVE  Locked' /\ Placed'
<1> USE DEF shutdown, files, watcher, InMutex, At
<1>0. TypeOK /\ Locked /\ Placed
  BY DEF CallInv, Inv
<1>1. ASSUME NEW v \in VM, CallPrepare(v) \/ CallStart(v) \/ CallStop(v)
      PROVE  Locked' /\ Placed'
  <2>1. PICK step, state :
          /\ <<step, state>> \in {<<"queued", "preparing">>, <<"sign", "starting">>,
                                  <<"queued", "stopping">>}
          /\ Accept(v, step, state)
    BY <1>1 DEF CallPrepare, CallStart, CallStop
  <2>2. /\ pc' = [pc EXCEPT ![v] = step] /\ dom' = [dom EXCEPT ![v] = state]
        /\ pc[v] = "idle" /\ wlaMtx' = wlaMtx
    BY <2>1 DEF Accept
  <2>3. Locked'
    BY <1>0, <2>1, <2>2 DEF TypeOK, Locked
  <2>4. Placed'
    BY <1>0, <2>1, <2>2 DEF TypeOK, Placed
  <2> QED
    BY <2>3, <2>4
<1>2. ASSUME NEW v \in VM, Enter(v) PROVE Locked' /\ Placed'
  <2>1. Locked'
    BY <1>0, <1>2, VMAssumption DEF TypeOK, Locked, Enter
  <2>2. Placed'
    BY <1>0, <1>2 DEF TypeOK, Placed, Enter
  <2> QED
    BY <2>1, <2>2
<1>3. ASSUME NEW v \in VM, NEW step \in {"add", "register"}, pc[v] \in {"make", "add"},
             Goto(v, step)
      PROVE  Locked' /\ Placed'
  <2>1. Locked'
    BY <1>0, <1>3 DEF TypeOK, Locked, Goto
  <2>2. Placed'
    BY <1>0, <1>3 DEF TypeOK, Placed, Goto
  <2> QED
    BY <2>1, <2>2
<1>4. ASSUME NEW v \in VM, Work(v) \/ PrepareFails(v) PROVE Locked' /\ Placed'
  <2>1. CASE MakeVolume(v)
    BY <2>1, <1>3, ReturnPlaced DEF MakeVolume
  <2>2. CASE AddWatch(v)
    BY <2>2, <1>3, ReturnPlaced DEF AddWatch
  <2>3. CASE RegisterHandler(v)
    BY <2>3, ReturnPlaced DEF RegisterHandler
  <2>4. CASE FinishStart(v)
    BY <2>4, ReturnPlaced DEF FinishStart
  <2>5. CASE FinishStop(v)
    BY <2>5, ReturnPlaced DEF FinishStop
  <2>6. CASE PrepareFails(v)
    BY <2>6, ReturnPlaced DEF PrepareFails
  <2> QED
    BY <1>4, <2>1, <2>2, <2>3, <2>4, <2>5, <2>6 DEF Work
<1>5. ASSUME NEW v \in VM, Delete(v) \/ Rebuild(v) \/ StopUnheard(v) PROVE Locked' /\ Placed'
  <2>1. PICK state \in {"deleted", "shutoff"} : dom' = [dom EXCEPT ![v] = state]
    BY <1>5 DEF Delete, Rebuild, StopUnheard
  <2>2. /\ pc' = pc /\ wlaMtx' = wlaMtx
        /\ \/ state = "deleted" /\ dom[v] \in {"shutoff", "preparing"}
           \/ state = "shutoff" /\ dom[v] = "deleted" /\ pc[v] = "idle"
           \/ state = "shutoff" /\ dom[v] \in {"prepared", "running"}
    BY <1>0, <1>5, <2>1 DEF TypeOK, Delete, Rebuild, StopUnheard
  <2>3. Placed'
    BY <1>0, <2>1, <2>2 DEF TypeOK, Placed
  <2> QED
    BY <1>0, <2>2, <2>3 DEF Locked
<1>6. ASSUME GoDown PROVE Locked' /\ Placed'
  <2>1. \A v \in VM : pc'[v] = "idle" /\ dom'[v] \notin {"preparing", "starting", "stopping"}
    BY <1>6 DEF GoDown
  <2>2. wlaMtx' = NoVM
    BY <1>6 DEF GoDown
  <2> QED
    BY <2>1, <2>2, VMAssumption DEF Locked, Placed
<1>7. ASSUME UNCHANGED <<pc, dom, wlaMtx>> PROVE Locked' /\ Placed'
  BY <1>0, <1>7 DEF Locked, Placed
<1>8. ASSUME NEW v \in VM, Touch(v) PROVE Locked' /\ Placed'
  BY <1>7, <1>8 DEF Touch
<1>9. ASSUME Handle \/ Signal \/ Tick \/ Restart \/ Listen \/ ListenFails
              \/ UNCHANGED vars
      PROVE  Locked' /\ Placed'
  BY <1>7, <1>9 DEF Handle, Signal, Tick, Restart, Listen, ListenFails, vars
<1> QED
  BY <1>1, <1>2, <1>4, <1>5, <1>6, <1>8, <1>9 DEF Next, Hook, Panic, Exit

(* It holds initially.                                                     *)
LEMMA CallInit == Init => CallInv
BY InvInit, VMAssumption DEF Init, CallInv, Locked, Placed, InMutex

(* Every step preserves it.                                                *)
LEMMA CallStep ==
  ASSUME CallInv, [Next]_vars
  PROVE  CallInv'
BY InvStep, PlacedStep DEF CallInv

-----------------------------------------------------------------------------
(* The wait for wlaMtx during the shutdown.  A VM may hold it twice more:  *)
(* for a Prepare under way and for its Stop.                               *)

Waiting(v) == pc[v] \notin {"idle", "sign"}

(* The VMs that have their Prepare behind them, and those that have their  *)
(* Stop behind them, too, or will not have one.                            *)
Past == {v \in VM : ~(dom[v] = "preparing" \/ (dom[v] = "deleted" /\ ~At(v, "idle")))}
Gone == {v \in VM : dom[v] \in {"shutoff", "deleted"} /\ At(v, "idle")}

(* The time of the holder.                                                 *)
Held == IF wlaMtx = NoVM THEN 0 ELSE used

(* Calls of the other VMs that may be over, at most.                       *)
CallsBefore(v) == Cardinality(Past \ {v}) + Cardinality(Gone \ {v})

(* A call has waited for calls that are over, at most Duration each, and   *)
(* for the holder.                                                         *)
Waited ==
  daemon = "quitting" =>
    \A v \in VM : Waiting(v) => elapsed - since[v] <= Duration * CallsBefore(v) + Held

WaitInv == CallInv /\ Waited

(* Sets of other VMs are finite.                                           *)
LEMMA OthersFinite ==
  ASSUME NEW v \in VM, NEW S \in SUBSET VM
  PROVE  IsFiniteSet(S \ {v}) /\ Cardinality(S \ {v}) \in Nat
BY VMAssumption, FS_Subset, FS_CardinalityType

(* More calls that are over mean more time.                                *)
LEMMA DurationTimes ==
  ASSUME NEW m \in Nat, NEW n \in Nat, m <= n
  PROVE  /\ Duration * m \in Nat /\ Duration * n \in Nat
         /\ Duration * m <= Duration * n
         /\ Duration * (m + 1) = Duration * m + Duration
BY BoundsAssumption

(* No more calls are over than every other VM can have made, two each.     *)
LEMMA CallsBeforeBound ==
  ASSUME NEW v \in VM
  PROVE  /\ CallsBefore(v) \in Nat
         /\ CallsBefore(v) <= 2 * (Cardinality(VM) - 1)
         /\ Cardinality(VM) \in Nat \ {0}
<1>1. Cardinality(VM \ {v}) = Cardinality(VM) - 1
  BY VMAssumption, FS_RemoveElement
<1>2. /\ Cardinality(Past \ {v}) <= Cardinality(VM \ {v})
      /\ Cardinality(Gone \ {v}) <= Cardinality(VM \ {v})
  BY VMAssumption, FS_Subset DEF Past, Gone
<1>3. Cardinality(Past \ {v}) \in Nat /\ Cardinality(Gone \ {v}) \in Nat
  BY OthersFinite DEF Past, Gone
<1>4. Cardinality(VM) \in Nat /\ Cardinality(VM \ {v}) \in Nat
  BY VMAssumption, FS_CardinalityType, OthersFinite
<1> QED
  BY <1>1, <1>2, <1>3, <1>4 DEF CallsBefore

(* So the invariant gives the bound.                                       *)
LEMMA WaitedIsBounded == WaitInv => WaitIsBounded
<1> SUFFICES ASSUME WaitInv, daemon = "quitting", NEW v \in VM, pc[v] \notin {"idle", "sign"}
             PROVE  elapsed - since[v] <= WaitBound
  BY DEF WaitIsBounded
<1> DEFINE n == CallsBefore(v)  m == 2 * (Cardinality(VM) - 1)
<1>1. elapsed - since[v] <= Duration * n + Held
  BY DEF WaitInv, Waited, Waiting
<1>2. n \in Nat /\ m \in Nat /\ n <= m /\ Cardinality(VM) \in Nat
  BY CallsBeforeBound
<1>3. WaitBound = Duration * m + Duration
  BY <1>2, BoundsAssumption DEF WaitBound
<1>4. TypeOK
  BY DEF WaitInv, CallInv, Inv
<1>5. Held \in 0 .. Duration /\ elapsed - since[v] \in Int
  BY <1>4, BoundsAssumption DEF TypeOK, Held
<1>6. Duration * n \in Nat /\ Duration * m \in Nat /\ Duration * n <= Duration * m
  <2> HIDE DEF n, m
  <2> QED
    BY <1>2, DurationTimes
<1> QED
  BY <1>1, <1>3, <1>5, <1>6, BoundsAssumption

(* While the daemon quits, no Prepare begins: what is over stays over.     *)
LEMMA OverStaysOver ==
  ASSUME CallInv, [Next]_vars, daemon = "quitting", daemon' = "quitting"
  PROVE  Past \subseteq Past' /\ Gone \subseteq Gone'
<1> USE DEF shutdown, files, watcher, At, Past, Gone
<1>0. TypeOK /\ Placed
  BY DEF CallInv, Inv
<1>1. ASSUME NEW v \in VM, Hook(v) PROVE Past \subseteq Past' /\ Gone \subseteq Gone'
  BY <1>0, <1>1 DEF TypeOK, Placed, Hook, CallPrepare, CallStart, CallStop, StopUnheard, Accept
<1>2. ASSUME NEW v \in VM, Enter(v) PROVE Past \subseteq Past' /\ Gone \subseteq Gone'
  BY <1>0, <1>2 DEF TypeOK, Placed, Enter
<1>3. ASSUME NEW v \in VM, Work(v) \/ PrepareFails(v)
      PROVE  Past \subseteq Past' /\ Gone \subseteq Gone'
  BY <1>0, <1>3 DEF TypeOK, Placed, Work, MakeVolume, AddWatch, RegisterHandler, FinishStart,
                    FinishStop, PrepareFails, Goto, Return
<1>4. ASSUME NEW v \in VM, Delete(v) \/ Rebuild(v)
      PROVE  Past \subseteq Past' /\ Gone \subseteq Gone'
  BY <1>0, <1>4 DEF TypeOK, Placed, Delete, Rebuild
<1>5. ASSUME UNCHANGED <<pc, dom>> PROVE Past \subseteq Past' /\ Gone \subseteq Gone'
  BY <1>5
<1>6. ASSUME NEW v \in VM, Touch(v) PROVE UNCHANGED <<pc, dom>>
  BY <1>6 DEF Touch
<1>7. ASSUME Handle \/ Signal \/ Tick \/ Restart \/ Listen \/ ListenFails
              \/ UNCHANGED vars
      PROVE  UNCHANGED <<pc, dom>>
  BY <1>7 DEF Handle, Signal, Tick, Restart, Listen, ListenFails, vars
<1>8. ~GoDown
  BY DEF GoDown
<1> QED
  BY <1>1, <1>2, <1>3, <1>4, <1>5, <1>6, <1>7, <1>8 DEF Next, Panic, Exit

(* So the calls before a call only get more.                               *)
LEMMA CallsBeforeGrow ==
  ASSUME CallInv, [Next]_vars, daemon = "quitting", daemon' = "quitting", NEW v \in VM
  PROVE  /\ CallsBefore(v) \in Nat /\ CallsBefore(v)' \in Nat
         /\ CallsBefore(v) <= CallsBefore(v)'
<1>1. /\ Past \subseteq Past' /\ Gone \subseteq Gone'
      /\ Past' \subseteq VM /\ Gone' \subseteq VM
  BY OverStaysOver DEF Past, Gone
<1> DEFINE P == Past'  G == Gone'
<1>2. /\ Past \ {v} \subseteq P \ {v} /\ Gone \ {v} \subseteq G \ {v}
      /\ IsFiniteSet(P \ {v}) /\ Cardinality(P \ {v}) \in Nat
      /\ IsFiniteSet(G \ {v}) /\ Cardinality(G \ {v}) \in Nat
  <2> HIDE DEF P, G
  <2>1. P \in SUBSET VM /\ G \in SUBSET VM /\ Past \subseteq P /\ Gone \subseteq G
    BY <1>1 DEF P, G
  <2> QED
    BY <2>1, OthersFinite
<1>3. /\ Cardinality(Past \ {v}) \in Nat /\ Cardinality(Past \ {v}) <= Cardinality(P \ {v})
      /\ Cardinality(Gone \ {v}) \in Nat /\ Cardinality(Gone \ {v}) <= Cardinality(G \ {v})
  BY <1>2, OthersFinite, FS_Subset DEF Past, Gone
<1>4. CallsBefore(v)' = Cardinality(P \ {v}) + Cardinality(G \ {v})
  BY DEF CallsBefore
<1> QED
  BY <1>2, <1>3, <1>4 DEF CallsBefore

(* The call of another VM that leaves the mutex is one of them.            *)
LEMMA ReturnIsBefore ==
  ASSUME CallInv, [Next]_vars, daemon = "quitting", daemon' = "quitting",
         NEW v \in VM, NEW w \in VM \ {v}, InMutex(w), pc'[w] = "idle",
         \/ dom[w] = "preparing" \/ dom[w] = "deleted"
         \/ dom[w] = "stopping" /\ dom'[w] = "shutoff",
         dom'[w] \in {"shutoff", "prepared", "deleted"}
  PROVE  CallsBefore(v) + 1 <= CallsBefore(v)'
<1>1. /\ Past \subseteq Past' /\ Gone \subseteq Gone'
      /\ Past' \subseteq VM /\ Gone' \subseteq VM
  BY OverStaysOver DEF Past, Gone
<1> DEFINE P == Past' \ {v}  G == Gone' \ {v}
<1>2. \/ w \in P \ Past
      \/ w \in G \ Gone
  BY DEF Past, Gone, At, InMutex
<1>3. /\ IsFiniteSet(P) /\ Cardinality(P) \in Nat
      /\ IsFiniteSet(G) /\ Cardinality(G) \in Nat
      /\ Past \ {v} \subseteq P /\ Gone \ {v} \subseteq G
  BY <1>1, OthersFinite
<1> HIDE DEF P, G
<1>4. /\ Cardinality(Past \ {v}) \in Nat /\ Cardinality(Past \ {v}) <= Cardinality(P)
      /\ Cardinality(Gone \ {v}) \in Nat /\ Cardinality(Gone \ {v}) <= Cardinality(G)
  BY <1>3, OthersFinite, FS_Subset DEF Past, Gone
<1>5. /\ w \in P \ Past => Cardinality(Past \ {v}) + 1 <= Cardinality(P)
      /\ w \in G \ Gone => Cardinality(Gone \ {v}) + 1 <= Cardinality(G)
  <2>1. /\ w \in P => Cardinality(P \ {w}) = Cardinality(P) - 1
        /\ w \in G => Cardinality(G \ {w}) = Cardinality(G) - 1
        /\ IsFiniteSet(P \ {w}) /\ IsFiniteSet(G \ {w})
    BY <1>3, FS_RemoveElement, FS_Subset
  <2>2. /\ w \in P \ Past => Cardinality(Past \ {v}) <= Cardinality(P \ {w})
        /\ w \in G \ Gone => Cardinality(Gone \ {v}) <= Cardinality(G \ {w})
    <3>1. w \in P \ Past => Past \ {v} \subseteq P \ {w}
      BY <1>3
    <3>2. w \in G \ Gone => Gone \ {v} \subseteq G \ {w}
      BY <1>3
    <3> QED
      BY <2>1, <3>1, <3>2, FS_Subset
  <2> QED
    BY <1>3, <1>4, <2>1, <2>2
<1>6. CallsBefore(v)' = Cardinality(P) + Cardinality(G)
  BY DEF CallsBefore, P, G
<1> QED
  BY <1>2, <1>3, <1>4, <1>5, <1>6 DEF CallsBefore

(* A step that lets no time pass and leaves the holder of wlaMtx alone.    *)
LEMMA WaitedElsewhere ==
  ASSUME WaitInv, [Next]_vars, daemon = "quitting", daemon' = "quitting",
         elapsed' = elapsed, Held' = Held,
         \A v \in VM : Waiting(v)' => (since'[v] = elapsed \/ (Waiting(v) /\ since'[v] = since[v]))
  PROVE  Waited'
<1> SUFFICES ASSUME NEW v \in VM, Waiting(v)'
             PROVE  elapsed' - since'[v] <= Duration * CallsBefore(v)' + Held'
  BY DEF Waited
<1>1. TypeOK /\ CallInv
  BY DEF WaitInv, CallInv, Inv
<1> DEFINE n == CallsBefore(v)  m == CallsBefore(v)'
<1>2. n \in Nat /\ m \in Nat /\ n <= m
  BY <1>1, CallsBeforeGrow
<1>3. Held \in 0 .. Duration /\ elapsed \in Nat /\ since[v] \in Nat
  BY <1>1, BoundsAssumption DEF TypeOK, Held
<1>4. Waiting(v) => elapsed - since[v] <= Duration * n + Held
  BY DEF WaitInv, Waited
<1>5. Duration * n \in Nat /\ Duration * m \in Nat /\ Duration * n <= Duration * m
  <2> HIDE DEF n, m
  <2> QED
    BY <1>2, DurationTimes
<1>6. CASE since'[v] = elapsed
  BY <1>3, <1>5, <1>6
<1>7. CASE Waiting(v) /\ since'[v] = since[v]
  BY <1>3, <1>4, <1>5, <1>7
<1> QED
  BY <1>6, <1>7

(* A return from the mutex: the time of the holder is that of one call     *)
(* more that is over.                                                      *)
LEMMA WaitedReturn ==
  ASSUME WaitInv, [Next]_vars, daemon = "quitting", daemon' = "quitting",
         elapsed' = elapsed, used' = used,
         NEW w \in VM, InMutex(w),
         NEW state \in {"shutoff", "prepared"}, Return(w, state),
         dom[w] = "stopping" => state = "shutoff"
  PROVE  Waited'
<1>1. TypeOK /\ CallInv /\ Locked /\ Placed
  BY DEF WaitInv, CallInv, Inv
<1>2. /\ wlaMtx = w /\ wlaMtx' = NoVM
      /\ \A v \in VM : pc'[v] = IF v = w THEN "idle" ELSE pc[v]
  BY <1>1 DEF TypeOK, Locked, Return
<1>3. /\ dom[w] \in {"preparing", "deleted", "stopping"}
      /\ dom'[w] = IF dom[w] = "deleted" THEN "deleted" ELSE state
  BY <1>1 DEF TypeOK, Placed, InMutex, Return
<1> SUFFICES ASSUME NEW v \in VM, Waiting(v)'
             PROVE  elapsed' - since'[v] <= Duration * CallsBefore(v)' + Held'
  BY DEF Waited
<1>4. v # w /\ Waiting(v) /\ since'[v] = since[v]
  BY <1>1, <1>2 DEF Waiting, Return, TypeOK
<1> DEFINE n == CallsBefore(v)  m == CallsBefore(v)'
<1>5. n \in Nat /\ m \in Nat /\ n + 1 <= m
  BY <1>1, <1>2, <1>3, <1>4, CallsBeforeGrow, ReturnIsBefore
<1>6. /\ Held = used /\ Held' = 0
      /\ used \in 0 .. Duration /\ elapsed \in Nat /\ since[v] \in Nat
  BY <1>1, <1>2, BoundsAssumption, VMAssumption DEF TypeOK, Held
<1>7. elapsed - since[v] <= Duration * n + used
  BY <1>4, <1>6 DEF WaitInv, Waited
<1>8. Duration * n \in Nat /\ Duration * m \in Nat /\ Duration * n + Duration <= Duration * m
  <2> HIDE DEF n, m
  <2>1. n + 1 \in Nat /\ n <= n + 1
    BY <1>5
  <2> QED
    BY <1>5, <2>1, DurationTimes
<1> QED
  BY <1>4, <1>6, <1>7, <1>8, BoundsAssumption

(* Every step keeps the invariant.                                         *)
LEMMA WaitedStep ==
  ASSUME WaitInv, [Next]_vars
  PROVE  Waited'
<1> USE DEF shutdown, files, watcher, At
<1>0. TypeOK /\ CallInv /\ Locked /\ Placed
  BY DEF WaitInv, CallInv, Inv
<1>1. CASE daemon' # "quitting"
  BY <1>1 DEF Waited
<1>2. CASE daemon' = "quitting" /\ daemon # "quitting"
  <2>1. elapsed' = 0 /\ used' = 0 /\ since' = since
    <3>1. ASSUME NEW v \in VM, \/ Hook(v) \/ Enter(v) \/ Work(v) \/ PrepareFails(v)
                               \/ Delete(v) \/ Touch(v) \/ Rebuild(v)
          PROVE  daemon' = daemon
      BY <3>1 DEF Hook, CallPrepare, CallStart, CallStop, StopUnheard, Accept, Enter, Work,
                  MakeVolume, AddWatch, RegisterHandler, FinishStart, FinishStop, PrepareFails,
                  Delete, Touch, Rebuild
    <3>2. ASSUME Handle \/ Tick \/ Listen \/ ListenFails \/ UNCHANGED vars PROVE daemon' = daemon
      BY <3>2 DEF Handle, Tick, Listen, ListenFails, vars
    <3>3. ASSUME GoDown \/ Restart PROVE daemon' # "quitting"
      BY <3>3 DEF GoDown, Restart
    <3>4. Signal
      BY <1>2, <3>1, <3>2, <3>3 DEF Next, Panic, Exit
    <3> QED
      BY <3>4 DEF Signal
  <2> SUFFICES ASSUME NEW v \in VM PROVE 0 - since[v] <= Duration * CallsBefore(v)' + Held'
    BY <2>1 DEF Waited
  <2>2. Held' = 0 /\ since[v] \in Nat
    BY <1>0, <2>1 DEF TypeOK, Held
  <2>3. Past' \ {v} \subseteq VM /\ Gone' \ {v} \subseteq VM
    BY DEF Past, Gone
  <2>4. CallsBefore(v)' \in Nat
    <3> DEFINE P == Past' \ {v}  G == Gone' \ {v}
    <3>1. IsFiniteSet(P) /\ IsFiniteSet(G)
      BY <2>3, VMAssumption, FS_Subset
    <3>2. Cardinality(P) \in Nat /\ Cardinality(G) \in Nat
      <4> HIDE DEF P, G
      <4> QED
        BY <3>1, FS_CardinalityType
    <3> QED
      BY <3>2 DEF CallsBefore
  <2> DEFINE m == CallsBefore(v)'
  <2>5. Duration * m \in Nat
    <3> HIDE DEF m
    <3> QED
      BY <2>4, DurationTimes DEF m
  <2> QED
    BY <2>2, <2>5
<1>3. CASE daemon' = "quitting" /\ daemon = "quitting"
  <2>1. ASSUME NEW v \in VM, Hook(v) PROVE Waited'
    <3>1. elapsed' = elapsed /\ Held' = Held
      BY <2>1 DEF Hook, CallPrepare, CallStart, CallStop, StopUnheard, Accept, Held
    <3>2. \A u \in VM : Waiting(u)' =>
            (since'[u] = elapsed \/ (Waiting(u) /\ since'[u] = since[u]))
      BY <1>0, <2>1 DEF TypeOK, Waiting, Hook, CallPrepare, CallStart, CallStop, StopUnheard,
                        Accept
    <3> QED
      BY <1>3, <3>1, <3>2, WaitedElsewhere
  <2>2. ASSUME NEW v \in VM, Enter(v) PROVE Waited'
    <3>1. elapsed' = elapsed /\ Held' = Held
      BY <2>2 DEF Enter, Held
    <3>2. \A u \in VM : Waiting(u)' => Waiting(u) /\ since'[u] = since[u]
      BY <1>0, <2>2 DEF TypeOK, Waiting, Enter
    <3> QED
      BY <1>3, <3>1, <3>2, WaitedElsewhere
  <2>3. ASSUME NEW v \in VM, pc[v] \in {"make", "add"}, NEW step \in {"add", "register"},
               Goto(v, step), UNCHANGED <<elapsed, used>>
        PROVE  Waited'
    <3>1. elapsed' = elapsed /\ Held' = Held
      BY <2>3 DEF Goto, Held
    <3>2. \A u \in VM : Waiting(u)' => Waiting(u) /\ since'[u] = since[u]
      BY <1>0, <2>3 DEF TypeOK, Waiting, Goto
    <3> QED
      BY <1>3, <3>1, <3>2, WaitedElsewhere
  <2>4. ASSUME NEW v \in VM, pc[v] \in {"make", "add", "register"},
               NEW state \in {"shutoff", "prepared"}, Return(v, state),
               UNCHANGED <<elapsed, used>>
        PROVE  Waited'
    BY <1>0, <1>3, <2>4, WaitedReturn DEF Placed, InMutex
  <2>5. ASSUME NEW v \in VM, MakeVolume(v) PROVE Waited'
    BY <2>3, <2>4, <2>5 DEF MakeVolume
  <2>6. ASSUME NEW v \in VM, AddWatch(v) PROVE Waited'
    BY <2>3, <2>4, <2>6 DEF AddWatch
  <2>7. ASSUME NEW v \in VM, RegisterHandler(v) PROVE Waited'
    BY <2>4, <2>7 DEF RegisterHandler
  <2>8. ASSUME NEW v \in VM, PrepareFails(v) PROVE Waited'
    BY <2>4, <2>8 DEF PrepareFails
  <2>9. ASSUME NEW v \in VM, FinishStart(v) PROVE Waited'
    <3>1. wlaMtx # v
      BY <1>0, <2>9 DEF Locked, InMutex, FinishStart
    <3>2. elapsed' = elapsed /\ Held' = Held
      BY <2>9, <3>1 DEF FinishStart, Return, Held
    <3>3. \A u \in VM : Waiting(u)' => Waiting(u) /\ since'[u] = since[u]
      BY <1>0, <2>9 DEF TypeOK, Waiting, FinishStart, Return
    <3> QED
      BY <1>3, <3>2, <3>3, WaitedElsewhere
  <2>10. ASSUME NEW v \in VM, FinishStop(v) PROVE Waited'
    BY <1>3, <2>10, WaitedReturn DEF InMutex, FinishStop
  <2>11. ASSUME UNCHANGED <<elapsed, wlaMtx, used, pc, since>> PROVE Waited'
    <3>1. Held' = Held /\ \A u \in VM : Waiting(u)' => Waiting(u) /\ since'[u] = since[u]
      BY <2>11 DEF Held, Waiting
    <3> QED
      BY <1>3, <2>11, <3>1, WaitedElsewhere
  <2>12. ASSUME NEW v \in VM, Delete(v) \/ Touch(v) \/ Rebuild(v) PROVE Waited'
    BY <2>11, <2>12 DEF Delete, Touch, Rebuild
  <2>13. ASSUME Handle \/ Listen \/ ListenFails \/ UNCHANGED vars PROVE Waited'
    BY <2>11, <2>13 DEF Handle, Listen, ListenFails, vars
  <2>14. ASSUME Tick PROVE Waited'
    <3>1. CASE wlaMtx = NoVM
      <4>1. \A v \in VM : ~Waiting(v)'
        BY <1>0, <2>14, <3>1, VMAssumption DEF TypeOK, Locked, InMutex, Tick, Waiting
      <4> QED
        BY <4>1 DEF Waited
    <3>2. CASE wlaMtx # NoVM
      <4> SUFFICES ASSUME NEW v \in VM, Waiting(v)
                   PROVE  elapsed' - since'[v] <= Duration * CallsBefore(v)' + Held'
        BY <2>14 DEF Waited, Waiting, Tick
      <4>1. /\ elapsed' = elapsed + 1 /\ since' = since
            /\ Held = used /\ Held' = used + 1 /\ CallsBefore(v)' = CallsBefore(v)
        BY <2>14, <3>2 DEF Tick, Held, CallsBefore, Past, Gone
      <4>2. elapsed - since[v] <= Duration * CallsBefore(v) + Held
        BY <1>3 DEF WaitInv, Waited
      <4> DEFINE n == CallsBefore(v)
      <4>3. Duration * n \in Nat
        <5>1. n \in Nat
          BY CallsBeforeBound
        <5> HIDE DEF n
        <5> QED
          BY <5>1, DurationTimes
      <4>4. elapsed \in Nat /\ since[v] \in Nat /\ used \in Nat
        BY <1>0, BoundsAssumption DEF TypeOK
      <4> QED
        BY <4>1, <4>2, <4>3, <4>4
    <3> QED
      BY <3>1, <3>2
  <2>15. ~Signal /\ ~Restart /\ ~GoDown
    BY <1>3 DEF Signal, Restart, GoDown
  <2> QED
    BY <2>1, <2>2, <2>5, <2>6, <2>7, <2>8, <2>9, <2>10, <2>12, <2>13, <2>14, <2>15
       DEF Next, Work, Panic, Exit
<1> QED
  BY <1>1, <1>2, <1>3

-----------------------------------------------------------------------------
(* The theorem about waits.                                                *)

(* During a shutdown a call waits for wlaMtx, and runs, no longer than a   *)
(* call of its own and two of every other VM take, however the calls,      *)
(* deletions and events interleave: so long a timeout lets every Stop      *)
(* finish (server.go:97, 121; main.go:533).                                *)
THEOREM WaitBounded == Spec => []WaitIsBounded
<1>1. Init => WaitInv
  <2>1. Init => daemon # "quitting"
    BY DEF Init
  <2> QED
    BY <2>1, CallInit DEF WaitInv, Waited
<1>2. WaitInv /\ [Next]_vars => WaitInv'
  BY CallStep, WaitedStep DEF WaitInv
<1> QED
  BY <1>1, <1>2, WaitedIsBounded, PTL DEF Spec
=============================================================================
