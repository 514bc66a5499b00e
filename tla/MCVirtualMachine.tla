-------------------------- MODULE MCVirtualMachine --------------------------
(* Instances of VirtualMachine for TLC.                                    *)
EXTENDS VirtualMachine, TLC

CONSTANTS a1, a2, c1, imgA, imgC

(* VMs of one image and one of another.                                    *)
ImageOfEach == [v \in VM |-> IF v = c1 THEN imgC ELSE imgA]

(* VMs of the same image are alike.                                        *)
Alike == Permutations({a1, a2})
=============================================================================
