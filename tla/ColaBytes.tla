----------------------------- MODULE ColaBytes -----------------------------
(***************************************************************************)
(* What the serial output promises: the bytes of the frames leave in the   *)
(* order they were queued, each once, and all of them leave.               *)
(***************************************************************************)
EXTENDS Integers, Sequences

CONSTANTS
  Tramas,    (* the frames, sequences of bytes                             *)
  Libre      (* the line is idle                                           *)

VARIABLES
  cola,      (* bytes queued                                               *)
  linea      (* the byte on the line, or Libre                             *)

cvars == <<cola, linea>>

CInit == cola = <<>> /\ linea = Libre

Mete(t) == cola' = cola \o t /\ UNCHANGED linea

Saca ==
  /\ cola # <<>> /\ linea = Libre
  /\ linea' = Head(cola)
  /\ cola' = Tail(cola)

Termina == linea # Libre /\ linea' = Libre /\ UNCHANGED cola

CNext == Saca \/ Termina \/ \E t \in Tramas : Mete(t)

CSpec == CInit /\ [][CNext]_cvars /\ WF_cvars(Saca) /\ WF_cvars(Termina)
=============================================================================
