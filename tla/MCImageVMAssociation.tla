------------------------ MODULE MCImageVMAssociation ------------------------
(* Instances of ImageVMAssociation for TLC.                                *)
EXTENDS ImageVMAssociation

CONSTANTS a1, a2, a3, b1, imgA, imgB

(* Two VMs of one image and one of another.                                *)
TwoAndOne == [v \in VM |-> IF v = b1 THEN imgB ELSE imgA]

(* All VMs of one image.                                                   *)
OneImage == [v \in VM |-> imgA]
=============================================================================
