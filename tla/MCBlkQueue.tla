----------------------------- MODULE MCBlkQueue -----------------------------
(***************************************************************************)
(* Instances of BlkQueue for TLC: two processes, groups of one or two      *)
(* requests, with an ATA disk or a driver that answers at once.            *)
(***************************************************************************)
EXTENDS BlkQueue

CONSTANTS p1, p2
=============================================================================
