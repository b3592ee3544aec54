--------------------------- MODULE MCOperatorCtl ---------------------------
(* Releases for the runs of OperatorCtl: the second has the kernel of the  *)
(* first, the third another one, and not every image.                      *)
EXTENDS OperatorCtl

OneKernel == [r \in Releases |-> IF r = 3 THEN "linux-b" ELSE "linux-a"]
Everything == [r \in Releases |-> IF r = 3 THEN {CHOOSE i \in Ids : TRUE} ELSE Ids]
=============================================================================
