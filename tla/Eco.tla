-------------------------------- MODULE Eco --------------------------------
(***************************************************************************)
(* Primario_eco(): with JMP0 set the window detector is off and every      *)
(* range word is a plot at the last azimuth, with no correlation.  The     *)
(* words come from the FIFO gate: see Extractor.                           *)
(***************************************************************************)
EXTENDS Salida

VARIABLE aztprom    (* the last azimuth, without the prefix                *)

InitEco == aztprom = 0

AzimutEco(w) ==
  /\ EsAzimut(w)
  /\ aztprom' = w - AZ
  /\ CambiaSector(Sector(w - AZ))
  /\ UNCHANGED PlotBuffUDP

(* The ranges of the FPGA are 19 counts short. *)
Corregido(w) == w + 19

RangoEco(w) ==
  /\ EsRango(w) /\ EsRango(Corregido(w))
  /\ blancos(aztprom, Corregido(w), 0)
  /\ UNCHANGED <<aztprom, sectores>>

(* Ranges the correction takes out of scale, and heights. *)
IgnoraEco(w) ==
  /\ EsAltura(w) \/ (EsRango(w) /\ ~EsRango(Corregido(w)))
  /\ salida' = Nada
  /\ UNCHANGED <<aztprom, sectores, PlotBuffUDP>>

Primario_eco(w) == AzimutEco(w) \/ RangoEco(w) \/ IgnoraEco(w)
=============================================================================
