------------------------- MODULE AttachmentRegistry -------------------------
(***************************************************************************)
(* What the image-VM association promises its callers: a registry of the   *)
(* VMs that use an image.  A VM is attached once, detached once, and the   *)
(* detached VM learns whether it was the last one of its image.            *)
(***************************************************************************)
CONSTANTS VM, ImageOf

VARIABLES attached, verdict

vars == <<attached, verdict>>

Init ==
  /\ attached = {}
  /\ verdict = [v \in VM |-> "none"]

Others(v) == {w \in attached \ {v} : ImageOf[w] = ImageOf[v]}

(* A new request forgets the answer to the previous one.                   *)
Request(v) ==
  /\ verdict' = [verdict EXCEPT ![v] = "none"]
  /\ UNCHANGED attached

Attach(v) ==
  /\ v \notin attached
  /\ attached' = attached \cup {v}
  /\ UNCHANGED verdict

Detach(v) ==
  /\ v \in attached
  /\ attached' = attached \ {v}
  /\ verdict' = [verdict EXCEPT ![v] = IF Others(v) = {} THEN "last" ELSE "shared"]

Next == \E v \in VM : Request(v) \/ Attach(v) \/ Detach(v)

Spec == Init /\ [][Next]_vars
=============================================================================
