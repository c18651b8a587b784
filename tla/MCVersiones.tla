---------------------------- MODULE MCVersiones ----------------------------
(***************************************************************************)
(* Instance of Versiones for TLC: see MCVersiones.cfg.                     *)
(***************************************************************************)
EXTENDS Versiones

(* Bound: a behaviour is followed until the two versions need not agree    *)
(* any more: a height is taken for a near range by the program and the     *)
(* port only, or a near and a far echo come within a cell of each other.   *)
HastaQueDifieran == ~alturaCerca /\ ~vecinas
=============================================================================
