------------------------------- MODULE Antena -------------------------------
(***************************************************************************)
(* Extractor fed by a working front end.  External: an azimuth word per    *)
(* step of the antenna, with any ranges and heights in between; a height   *)
(* is followed by the range it belongs to.  The FIFO fills up when the     *)
(* main loop is late, so any number of words may be lost.                  *)
(***************************************************************************)
EXTENDS Extractor

(* What a reset drops, the words behind the refused one, is less than a    *)
(* sector.  Otherwise the refused azimuth and the one after the reset may  *)
(* straddle the whole sector 15, and north is taken for a step back: the   *)
(* next azimuths may be refused too.                                       *)
ASSUME AntenaAssumption == Capacidad - 2 < VUELTA \div 16

VARIABLES
  antena,   (* its azimuth, and whether the range of a height is owed      *)
  margen    (* refusals that the losses so far may still cause             *)

avars == <<evars, antena, margen>>

AInit ==
  /\ EInit /\ ~eco
  /\ antena \in [az : Azimuts, debe : {FALSE}]
  /\ margen = 0

GiraAntena ==
  /\ ~antena.debe
  /\ antena' = [antena EXCEPT !.az = (@ + 1) % VUELTA]
  /\ LlegaPalabra(AZ + antena'.az)
  /\ UNCHANGED margen

EnviaRango(r) ==
  /\ EsRango(r)
  /\ antena' = [antena EXCEPT !.debe = FALSE]
  /\ LlegaPalabra(r)
  /\ UNCHANGED margen

EnviaAltura(h) ==
  /\ EsAltura(h) /\ ~antena.debe
  /\ antena' = [antena EXCEPT !.debe = TRUE]
  /\ LlegaPalabra(h)
  /\ UNCHANGED margen

(* One iteration of the main loop, with what it does to the margin. *)
Itera ==
  /\ Iteracion
  /\ \/ Pierde /\ margen' = 1
     \/ Rechaza /\ margen' = margen - 1
     \/ (PrimerDato \/ DatoBueno) /\ UNCHANGED margen
  /\ UNCHANGED antena

Recorrido == Recorre /\ UNCHANGED <<antena, margen>>

ANext ==
  \/ Itera \/ Recorrido
  \/ GiraAntena
  \/ \E w \in Palabras : EnviaRango(w) \/ EnviaAltura(w)

(* The main loop polls for ever; the antenna turns, whatever it sees.      *)
ASpec ==
  /\ AInit /\ [][ANext]_avars
  /\ WF_avars(Itera \/ Recorrido)
  /\ SF_avars(GiraAntena)
  /\ WF_avars(antena.debe /\ \E w \in Palabras : EnviaRango(w))
-----------------------------------------------------------------------------
(* A working front end is refused nothing before the first loss, and one   *)
(* word at most after each loss: the azimuth that the AzAnt of before the  *)
(* loss may refuse.                                                        *)
RechazosAcotados == margen >= 0

(* The tracker refuses an azimuth only when the gate begins a session with *)
(* it: the gap of a loss costs the tracker one azimuth, and neither north  *)
(* nor what the gate refuses costs it another.                             *)
SoloTrasPerdida ==
  [][Iteracion /\ EsAzimut(lectura') /\ azimuth' # lectura' =>
       ultimo = Ninguna]_avars

(* If the FIFO stops filling up, azimuths reach the tracker for ever and   *)
(* from some moment on it takes them all: no state left by the losses, in  *)
(* the gate or in the tracker, lasts.                                      *)
Recupera ==
  <>[]~lleno =>
    /\ []<>EsAzimut(lectura)
    /\ <>[](EsAzimut(lectura) => azimuth = lectura)
=============================================================================
