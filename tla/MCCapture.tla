------------------------------ MODULE MCCapture ------------------------------
(* Small instances of CaptureSupervision for TLC. *)
EXTENDS CaptureSupervision, TLC

CONSTANTS m, d1, d2

Tree2 == {m, d1}
Tree3 == {m, d1, d2}
Descendants == Permutations(Tree3 \ {m})

Bytes(out, err) == [s \in Outputs |-> IF s = "stdout" THEN out ELSE err]
None == Bytes(0, 0)
OneOut == Bytes(1, 0)
TwoOut == Bytes(2, 0)
=============================================================================
