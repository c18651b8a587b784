----------------------------- MODULE MCSockets -----------------------------
(* Two handles, which are interchangeable, and one port. *)
EXTENDS Respuestas, TLC

Simetria == Permutations(Descriptores)
=============================================================================
