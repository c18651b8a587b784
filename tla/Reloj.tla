------------------------------- MODULE Reloj -------------------------------
(***************************************************************************)
(* Clock(), capi/clock.c: ticks since its first call, from the counter of  *)
(* the BIOS, which goes back to 0 at midnight and is known to go back a    *)
(* little for no reason.  The counter is external.                         *)
(***************************************************************************)
EXTENDS Integers

CONSTANTS
  DIA,      (* ticks of a day, 0x1800b0                                    *)
  Rebote,   (* steps back under this are not midnight, 10                  *)
  W         (* the integers of the clock are modulo W, 2^32                *)

ASSUME RelojAssumption ==
  /\ {DIA, Rebote, W} \subseteq Nat \ {0}
  /\ Rebote < DIA /\ 2 * DIA <= W

VARIABLES bios, ctBase, ctLastTics

reloj == <<bios, ctBase, ctLastTics>>

InitReloj ==
  /\ bios \in 0 .. DIA - 1
  /\ ctBase = 0 /\ ctLastTics = 0

Base == IF ctBase = 0 THEN bios ELSE ctBase

Retrocede == ctLastTics > bios

ClockSinMedianoche ==          (* mutant: midnight is a step back *)
  /\ ctBase' = Base
  /\ ctLastTics' = IF Retrocede THEN ctLastTics ELSE bios
  /\ UNCHANGED bios

(* A step back of less than Rebote is taken for no step; a larger one is   *)
(* midnight.                                                               *)
Clock ==
  /\ \/ /\ ~Retrocede
        /\ ctBase' = Base /\ ctLastTics' = bios
     \/ /\ Retrocede /\ ctLastTics - bios < Rebote
        /\ ctBase' = Base /\ UNCHANGED ctLastTics
     \/ /\ Retrocede /\ ctLastTics - bios >= Rebote
        /\ ctBase' = (Base - DIA) % W /\ ctLastTics' = bios
  /\ UNCHANGED bios

(* What the last call returned. *)
Hora == (ctLastTics - ctBase) % W

Tictac == bios' = (bios + 1) % DIA /\ UNCHANGED <<ctBase, ctLastTics>>
=============================================================================
