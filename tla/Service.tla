------------------------------- MODULE Service -------------------------------
(***************************************************************************)
(* The daemon around the three handlers (wlagent runservice): calls that   *)
(* are counted for the shutdown and wait for wlaMtx, the file watcher that *)
(* removes the mount path of a deleted VM, the ten seconds between the     *)
(* signal and the exit, deaths and restarts.                               *)
(*                                                                         *)
(* What the handlers do to volumes is in VirtualMachine; here Prepare      *)
(* makes the sparse file and the mount path and watches disk.info.  Time   *)
(* is only counted during the shutdown.                                    *)
(***************************************************************************)
EXTENDS Integers, FiniteSets, Sequences

CONSTANTS
  VM,
  NoVM,             \* "no holder" of wlaMtx
  Timeout,          \* of WaitForQuitAndCleanup
  Duration,         \* the longest a call holds wlaMtx
  DeleteInPrepare,  \* a VM may be deleted while Prepare runs for it
  MaxEvents,        \* bound on the events under way
  MaxDowns          \* bound on the exits and deaths of the daemon

ASSUME VMAssumption == IsFiniteSet(VM) /\ NoVM \notin VM
ASSUME BoundsAssumption == {Timeout, Duration, MaxEvents, MaxDowns} \subseteq Nat
ASSUME EnvironmentAssumption == DeleteInPrepare \in BOOLEAN

VARIABLES
  daemon,     \* "up", "quitting" after the signal, "down"
  rpc,        \* the RPC task: "starting", "serving" or, with an error, "ended"
  elapsed,    \* time since the signal
  tasks,      \* the count of proc's WaitGroup
  wlaMtx,
  used,       \* time the holder of wlaMtx spent during the shutdown
  pc,         \* the next step of the call made for each VM
  since,      \* elapsed when the call was made, 0 if there is none
  dom,        \* the domain, as libvirt sees it
  sparse,     \* the VMs that have a sparse file
  mountPath,  \* the VMs that have files at their mount path
  watched,    \* the VMs whose disk.info has an inotify watch
  handlers,   \* the VMs with an entry in Watcher.handlers
  events,     \* file system events on their way to Watch
  promised,   \* history: VMs whose handler was registered since they were
              \* deployed and the daemon was started
  stuck,      \* history: VMs whose mount path could not be removed since the
              \* last deletion
  downs

shutdown == <<daemon, rpc, elapsed, downs>>
files == <<sparse, mountPath>>
watcher == <<watched, handlers, events, promised, stuck>>
vars == <<shutdown, tasks, wlaMtx, used, pc, since, dom, files, watcher>>

TypeOK ==
  /\ daemon \in {"up", "quitting", "down"}
  /\ rpc \in {"starting", "serving", "ended"}
  /\ elapsed \in 0 .. Timeout
  /\ tasks \in Nat
  /\ wlaMtx \in VM \cup {NoVM}
  /\ used \in 0 .. Duration
  /\ pc \in [VM -> {"idle", "queued", "make", "add", "register", "sign", "close"}]
  /\ since \in [VM -> 0 .. Timeout]
  /\ dom \in [VM -> {"shutoff", "preparing", "prepared", "starting",
                     "running", "stopping", "deleted"}]
  /\ sparse \subseteq VM
  /\ mountPath \subseteq VM
  /\ watched \subseteq VM
  /\ handlers \subseteq VM
  /\ events \in Seq(VM \X {"remove", "chmod"})
  /\ promised \subseteq handlers
  /\ stuck \subseteq VM
  /\ downs \in 0 .. MaxDowns

(* The tasks of the file watcher, which never ends, and of the RPC server. *)
ServiceTasks == IF rpc = "ended" THEN 1 ELSE 2

Running == daemon # "down"

Init ==
  /\ daemon = "up"
  /\ rpc = "starting"
  /\ elapsed = 0
  /\ tasks = 2
  /\ wlaMtx = NoVM
  /\ used = 0
  /\ pc = [v \in VM |-> "idle"]
  /\ since = [v \in VM |-> 0]
  /\ dom = [v \in VM |-> "shutoff"]
  /\ sparse = {}
  /\ mountPath = {}
  /\ watched = {}
  /\ handlers = {}
  /\ events = <<>>
  /\ promised = {}
  /\ stuck = {}
  /\ downs = 0

-----------------------------------------------------------------------------
(* The calls.  Prepare and Start are refused once the daemon quits, and    *)
(* fail in the hook when nobody listens; neither changes anything.         *)

At(v, step) == pc[v] = step

Goto(v, step) == pc' = [pc EXCEPT ![v] = step] /\ UNCHANGED <<tasks, wlaMtx, dom, since>>

Accept(v, step, state) ==
  /\ rpc = "serving"
  /\ At(v, "idle")
  /\ tasks' = tasks + 1
  /\ pc' = [pc EXCEPT ![v] = step]
  /\ since' = [since EXCEPT ![v] = elapsed]
  /\ dom' = [dom EXCEPT ![v] = state]
  /\ UNCHANGED <<shutdown, wlaMtx, used, files, watcher>>

(* Mutant: Prepare is added to the tasks after the signal, too.            *)
CallPrepareAlways(v) == dom[v] = "shutoff" /\ Accept(v, "queued", "preparing")

CallPrepare(v) == daemon = "up" /\ dom[v] = "shutoff" /\ Accept(v, "queued", "preparing")

CallStart(v) == daemon = "up" /\ dom[v] = "prepared" /\ Accept(v, "sign", "starting")

(* Mutant: Stop does not add the task that it ends.                        *)
CallStopUncounted(v) ==
  /\ rpc = "serving"
  /\ dom[v] \in {"prepared", "running"}
  /\ At(v, "idle")
  /\ pc' = [pc EXCEPT ![v] = "queued"]
  /\ since' = [since EXCEPT ![v] = elapsed]
  /\ dom' = [dom EXCEPT ![v] = "stopping"]
  /\ UNCHANGED <<shutdown, tasks, wlaMtx, used, files, watcher>>

(* Of a running VM, or of one whose Start was refused.                     *)
CallStop(v) == dom[v] \in {"prepared", "running"} /\ Accept(v, "queued", "stopping")

Enter(v) ==
  /\ At(v, "queued")
  /\ wlaMtx = NoVM
  /\ wlaMtx' = v
  /\ used' = 0
  /\ pc' = [pc EXCEPT ![v] = IF dom[v] = "stopping" THEN "close" ELSE "make"]
  /\ UNCHANGED <<shutdown, tasks, since, dom, files, watcher>>

(* The deferred wlaMtx.Unlock() and TaskDone().                            *)
Return(v, state) ==
  /\ since' = [since EXCEPT ![v] = 0]
  /\ pc' = [pc EXCEPT ![v] = "idle"]
  /\ tasks' = tasks - 1
  /\ wlaMtx' = IF wlaMtx = v THEN NoVM ELSE wlaMtx
  /\ dom' = [dom EXCEPT ![v] = IF @ = "deleted" THEN @ ELSE state]

(* A sparse file that exists ends the work on the VM's volume early, and   *)
(* with it the registration of the handler.                                *)
MakeVolume(v) ==
  /\ At(v, "make")
  /\ sparse' = sparse \cup {v}
  /\ mountPath' = mountPath \cup {v}
  /\ IF v \in sparse THEN Return(v, "prepared") ELSE Goto(v, "add")
  /\ UNCHANGED <<shutdown, used, watcher>>

(* Mutant: a file that has a handler is not added again.                   *)
AddWatchOnce(v) ==
  /\ At(v, "add")
  /\ watched' = IF v \in handlers THEN watched ELSE watched \cup {v}
  /\ Goto(v, "register")
  /\ UNCHANGED <<shutdown, used, files, handlers, events, promised, stuck>>

(* HandleEvent: w.Add, then the handler.  Add fails if the file is gone,   *)
(* which Prepare only logs.                                                *)
AddWatch(v) ==
  /\ At(v, "add")
  /\ IF dom[v] = "deleted"
     THEN Return(v, "prepared") /\ UNCHANGED watched
     ELSE watched' = watched \cup {v} /\ Goto(v, "register")
  /\ UNCHANGED <<shutdown, used, files, handlers, events, promised, stuck>>

RegisterHandler(v) ==
  /\ At(v, "register")
  /\ handlers' = handlers \cup {v}
  /\ promised' = promised \cup {v}
  /\ Return(v, "prepared")
  /\ UNCHANGED <<shutdown, used, files, watched, events, stuck>>

(* A step of Prepare fails, with the volume made or not.                   *)
PrepareFails(v) ==
  /\ pc[v] \in {"make", "add"}
  /\ Return(v, "shutoff")
  /\ UNCHANGED <<shutdown, used, files, watcher>>

(* Start signs the trust report with the TPM, posts it, counts the VM; the *)
(* launch goes on or is refused.                                           *)
FinishStart(v) ==
  /\ At(v, "sign")
  /\ \E state \in {"running", "prepared"} : Return(v, state)
  /\ UNCHANGED <<shutdown, used, files, watcher>>

FinishStop(v) ==
  /\ At(v, "close")
  /\ Return(v, "shutoff")
  /\ UNCHANGED <<shutdown, used, files, watcher>>

-----------------------------------------------------------------------------
(* The instance directory and the file watcher.                            *)

Event(v, kind) ==
  events' = IF v \in watched THEN Append(events, <<v, kind>>) ELSE events

(* The VM is deleted: disk.info is removed, and its watch with it.         *)
Delete(v) ==
  /\ dom[v] = "shutoff" \/ (DeleteInPrepare /\ dom[v] = "preparing")
  /\ Len(events) < MaxEvents
  /\ dom' = [dom EXCEPT ![v] = "deleted"]
  /\ sparse' = sparse \ {v}
  /\ Event(v, "remove")
  /\ watched' = watched \ {v}
  /\ stuck' = stuck \ {v}
  /\ UNCHANGED <<shutdown, tasks, wlaMtx, used, pc, since, mountPath, handlers, promised>>

(* disk.info changes in another way.                                       *)
Touch(v) ==
  /\ v \in watched
  /\ Len(events) < MaxEvents
  /\ Event(v, "chmod")
  /\ UNCHANGED <<shutdown, tasks, wlaMtx, used, pc, since, dom, files, watched, handlers,
                 promised, stuck>>

(* A VM of the same name is deployed again, perhaps before Watch got to    *)
(* the event of the deletion.                                              *)
Rebuild(v) ==
  /\ dom[v] = "deleted"
  /\ At(v, "idle")
  /\ dom' = [dom EXCEPT ![v] = "shutoff"]
  /\ promised' = promised \ {v}
  /\ UNCHANGED <<shutdown, tasks, wlaMtx, used, pc, since, files, watched, handlers, events,
                 stuck>>

(* Watch drops an event without a handler.  The handler of a VM that was   *)
(* deleted removes its mount path, whatever is mounted there by then, and  *)
(* only logs that it could not.  A handler is never taken off.             *)
Handle ==
  LET v == Head(events)[1]
      ofDeleted == v \in handlers /\ Head(events)[2] = "remove"
  IN
  /\ Running
  /\ events # <<>>
  /\ events' = Tail(events)
  /\ \/ ofDeleted /\ mountPath' = mountPath \ {v} /\ UNCHANGED stuck
     \/ ofDeleted /\ stuck' = stuck \cup {v} /\ UNCHANGED mountPath
     \/ ~ofDeleted /\ UNCHANGED <<mountPath, stuck>>
  /\ UNCHANGED <<shutdown, tasks, wlaMtx, used, pc, since, dom, sparse, watched, handlers,
                 promised>>

-----------------------------------------------------------------------------
(* Shutdown, death and restart.                                            *)

Signal ==
  /\ daemon = "up"
  /\ downs < MaxDowns
  /\ daemon' = "quitting"
  /\ elapsed' = 0
  /\ used' = 0
  /\ UNCHANGED <<downs, rpc, tasks, wlaMtx, pc, since, dom, files, watcher>>

(* Time passes, but a call is done after Duration, and an unlocked wlaMtx  *)
(* is taken at once.                                                       *)
Tick ==
  /\ daemon = "quitting"
  /\ elapsed < Timeout
  /\ IF wlaMtx = NoVM
     THEN (\A v \in VM : ~At(v, "queued")) /\ UNCHANGED used
     ELSE used < Duration /\ used' = used + 1
  /\ elapsed' = elapsed + 1
  /\ UNCHANGED <<daemon, rpc, downs, tasks, wlaMtx, pc, since, dom, files, watcher>>

(* The process ends, and with it every call: the hook of a launch refuses  *)
(* the VM, a VM that stops stops all the same.                             *)
GoDown ==
  /\ daemon' = "down"
  /\ rpc' = "starting"
  /\ downs' = downs + 1
  /\ wlaMtx' = NoVM
  /\ used' = 0
  /\ pc' = [v \in VM |-> "idle"]
  /\ dom' = [v \in VM |->
       IF dom[v] \in {"preparing", "starting", "stopping"} THEN "shutoff" ELSE dom[v]]
  /\ watched' = {}
  /\ handlers' = {}
  /\ events' = <<>>
  /\ promised' = {}
  /\ stuck' = {}
  /\ since' = [v \in VM |-> 0]
  /\ UNCHANGED <<elapsed, tasks, files>>

(* Mutant: the daemon waits for its tasks and nothing else.                *)
ExitWhenDone == daemon = "quitting" /\ tasks = 0 /\ GoDown

(* WaitForQuitAndCleanup returns when all tasks are done or the time is    *)
(* over.                                                                   *)
Exit == daemon = "quitting" /\ (tasks > 0 => elapsed = Timeout) /\ GoDown

(* GetTpmInstance drops the error of NewTpmProvider; the deferred Close of *)
(* the nil provider panics and takes the daemon along.                     *)
Panic(v) == pc[v] \in {"make", "sign"} /\ downs < MaxDowns /\ GoDown

(* The stopped hook reaches nobody.                                        *)
StopUnheard(v) ==
  /\ rpc # "serving"
  /\ dom[v] \in {"prepared", "running"}
  /\ dom' = [dom EXCEPT ![v] = "shutoff"]
  /\ UNCHANGED <<shutdown, tasks, wlaMtx, used, pc, since, files, watcher>>

Restart ==
  /\ daemon = "down"
  /\ daemon' = "up"
  /\ elapsed' = 0
  /\ tasks' = 2
  /\ UNCHANGED <<downs, rpc, wlaMtx, used, pc, since, dom, files, watcher>>

(* The RPC task removes the socket of a daemon before it, listens and      *)
(* accepts calls.                                                          *)
Listen ==
  /\ Running
  /\ rpc = "starting"
  /\ rpc' = "serving"
  /\ UNCHANGED <<daemon, elapsed, downs, tasks, wlaMtx, used, pc, since, dom, files, watcher>>

(* Mutant: the RPC task ends without TaskDone.                             *)
ListenFailsUndone ==
  /\ Running
  /\ rpc = "starting"
  /\ rpc' = "ended"
  /\ UNCHANGED <<daemon, elapsed, downs, tasks, wlaMtx, used, pc, since, dom, files, watcher>>

(* The socket cannot be removed, listened to, or the service registered:   *)
(* the RPC task returns, and the daemon stays up without it.               *)
ListenFails ==
  /\ Running
  /\ rpc = "starting"
  /\ rpc' = "ended"
  /\ tasks' = tasks - 1
  /\ UNCHANGED <<daemon, elapsed, downs, wlaMtx, used, pc, since, dom, files, watcher>>

-----------------------------------------------------------------------------

Hook(v) == CallPrepare(v) \/ CallStart(v) \/ CallStop(v) \/ StopUnheard(v)

Work(v) ==
  \/ MakeVolume(v) \/ AddWatch(v) \/ RegisterHandler(v)
  \/ FinishStart(v) \/ FinishStop(v)

Next ==
  \/ \E v \in VM : \/ Hook(v) \/ Enter(v) \/ Work(v)
                   \/ PrepareFails(v) \/ Panic(v)
                   \/ Delete(v) \/ Touch(v) \/ Rebuild(v)
  \/ Handle \/ Signal \/ Tick \/ Exit \/ Restart \/ Listen \/ ListenFails

Spec == Init /\ [][Next]_vars

(* Goroutines that can run do, time passes, and a Go mutex hands itself    *)
(* over to a starved waiter.                                               *)
Fairness ==
  /\ \A v \in VM : WF_vars(Work(v)) /\ SF_vars(Enter(v))
  /\ WF_vars(Handle)
  /\ WF_vars(Tick)
  /\ WF_vars(Exit)

FairSpec == Spec /\ Fairness

-----------------------------------------------------------------------------
(* Properties.                                                             *)

(* The WaitGroup counts the tasks of the service that have not ended and   *)
(* the calls in flight, whichever way they return (server.go:75-141,       *)
(* main.go:486-529).                                                       *)
TaskPerCall ==
  Running => tasks = ServiceTasks + Cardinality({v \in VM : ~At(v, "idle")})

(* After the signal a call waits for at most two calls of every other VM:  *)
(* a Prepare or Start under way, and its Stop.  So if the time of the      *)
(* shutdown covers that many calls, no Stop that was waiting at the signal *)
(* is cut short (server.go:97, 121; main.go:533).                          *)
WaitBound == (2 * Cardinality(VM) - 1) * Duration
WaitIsBounded ==
  daemon = "quitting" =>
    \A v \in VM : pc[v] \notin {"idle", "sign"} => elapsed - since[v] <= WaitBound

(* The daemon ends after the signal, although the task of the file watcher *)
(* never calls TaskDone (main.go:470-477).                                 *)
Exits == daemon = "quitting" ~> daemon = "down"

(* The mount path of a VM that is deleted goes away, if the handler was    *)
(* registered for it, the removal does not fail and the daemon stays up,   *)
(* also if a VM of that name was deployed and deleted before               *)
(* (prepare.go:347-361).                                                   *)
MountPathRemoved ==
  \A v \in VM :
    (dom[v] = "deleted" /\ v \in promised)
      ~> (v \notin mountPath \/ v \in stuck \/ daemon = "down")

(* No mount path is removed under a VM that was prepared: "delete VM mount *)
(* path when disk.info file is deleted on VM delete" (prepare.go:347).     *)
MountPathKept ==
  [][\A v \in mountPath :
       v \in mountPath' \/ dom[v] \notin {"prepared", "starting", "running"}]_vars
=============================================================================
