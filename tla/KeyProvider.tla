----------------------------- MODULE KeyProvider -----------------------------
(***************************************************************************)
(* The key provider for containers (wlagent rungrpcservice): concurrent    *)
(* UnWrapKey requests that fetch a wrapped key from WLS, unwrap it with    *)
(* the TPM and decrypt the image key with it, and a shutdown that waits,   *)
(* then lets the accepted requests finish.                                 *)
(***************************************************************************)
EXTENDS Integers, FiniteSets

CONSTANTS
  Request,  \* the UnWrapKey requests
  Sessions  \* how many connections to the TPM can be open at a time

ASSUME RequestAssumption == IsFiniteSet(Request)
ASSUME SessionsAssumption == Sessions \in Nat

VARIABLES
  server,  \* "serving", "waiting" after the signal, "stopping" in
           \* GracefulStop, "down", or "dead" after a panic
  pc,      \* the next step of each request, or how it ended
  open     \* the requests that hold a connection to the TPM

vars == <<server, pc, open>>

InFlight == {"retrieve", "get", "open", "unbind", "decrypt"}
Answered == {"key", "error"}

TypeOK ==
  /\ server \in {"serving", "waiting", "stopping", "down", "dead"}
  /\ pc \in [Request -> {"new", "lost"} \cup InFlight \cup Answered]
  /\ open \subseteq Request
  /\ Cardinality(open) <= Sessions

Init ==
  /\ server = "serving"
  /\ pc = [r \in Request |-> "new"]
  /\ open = {}

-----------------------------------------------------------------------------
(* A request.  A step that fails ends it with an error.                    *)

Step(r, from, to) ==
  /\ pc[r] = from
  /\ \E end \in {to, "error"} : pc' = [pc EXCEPT ![r] = end]
  /\ UNCHANGED server

(* The task of Serve does not end before GracefulStop, so requests are     *)
(* still accepted while the shutdown waits for it.  A packet that cannot   *)
(* be decoded is refused here.                                             *)
Accept(r) ==
  /\ server \in {"serving", "waiting"}
  /\ Step(r, "new", "retrieve")
  /\ UNCHANGED open

RetrieveKeyWithURL(r) == Step(r, "retrieve", "get") /\ UNCHANGED open

(* WLS has the key, or it has none for this host.                          *)
GetKeyWithURL(r) == Step(r, "get", "open") /\ UNCHANGED open

(* Mutant: a connection that could not be opened is used like one.         *)
OpenTpmUnchecked(r) ==
  /\ pc[r] = "open"
  /\ pc' = [pc EXCEPT ![r] = "unbind"]
  /\ open' = open \cup {r}
  /\ UNCHANGED server

OpenTpm(r) ==
  /\ Cardinality(open) < Sessions
  /\ pc[r] = "open"
  /\ pc' = [pc EXCEPT ![r] = "unbind"]
  /\ open' = open \cup {r}
  /\ UNCHANGED server

(* The process ends, and with it every request that is not answered.       *)
End(state) ==
  /\ server' = state
  /\ pc' = [r \in Request |-> IF pc[r] \in InFlight THEN "lost" ELSE pc[r]]
  /\ open' = {}

(* The TPM cannot be opened, for want of a connection or for any other     *)
(* reason.  GetTpmInstance returns no provider, with the error of the      *)
(* factory or, that of NewTpmProvider dropped, with none, and the deferred *)
(* Close of the nil provider panics before the error is looked at.         *)
OpenTpmPanics(r) == pc[r] = "open" /\ End("dead")

(* The key file is read, the key unbound, the connection closed.           *)
Unbind(r) == Step(r, "unbind", "decrypt") /\ open' = open \ {r}

AesDecrypt(r) == Step(r, "decrypt", "key") /\ UNCHANGED open

-----------------------------------------------------------------------------
(* The shutdown.                                                           *)

Signal ==
  /\ server = "serving"
  /\ server' = "waiting"
  /\ UNCHANGED <<pc, open>>

(* Mutant: the wait ends with the task of Serve and not before.            *)
WaitEndsWithTask ==
  /\ server = "down"
  /\ server' = "stopping"
  /\ UNCHANGED <<pc, open>>

(* The ten seconds of WaitForQuitAndCleanup are over.                      *)
WaitEnds ==
  /\ server = "waiting"
  /\ server' = "stopping"
  /\ UNCHANGED <<pc, open>>

(* Mutant: the server is stopped without waiting for its requests.         *)
Stop == server = "stopping" /\ End("down")

GracefulStop ==
  /\ server = "stopping"
  /\ \A r \in Request : pc[r] \notin InFlight
  /\ End("down")

-----------------------------------------------------------------------------

Work(r) ==
  \/ RetrieveKeyWithURL(r) \/ GetKeyWithURL(r)
  \/ OpenTpm(r) \/ OpenTpmPanics(r) \/ Unbind(r) \/ AesDecrypt(r)

Next ==
  \/ \E r \in Request : Accept(r) \/ Work(r)
  \/ Signal \/ WaitEnds \/ GracefulStop

(* A goroutine that can run does, and the time of the shutdown passes.     *)
Spec ==
  /\ Init
  /\ [][Next]_vars
  /\ \A r \in Request : WF_vars(Work(r))
  /\ WF_vars(WaitEnds)
  /\ WF_vars(GracefulStop)

-----------------------------------------------------------------------------
(* Properties.                                                             *)

(* A request that was accepted is answered, with the key or with an error, *)
(* also when the signal comes while it runs; only the death of the process *)
(* takes it away (main.go:592-598).                                        *)
AcceptedAnswered ==
  \A r \in Request :
    pc[r] \in InFlight ~> (pc[r] \in Answered \/ server = "dead")

(* The signal ends the server, whatever requests arrive while it waits     *)
(* (main.go:580-598).                                                      *)
Ends == server = "waiting" ~> server \in {"down", "dead"}
=============================================================================
