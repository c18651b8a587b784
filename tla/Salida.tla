------------------------------ MODULE Salida ------------------------------
(***************************************************************************)
(* The two routines every mode of the program reports with: cabecera(),    *)
(* the header that opens a sector, and blancos(), a plot.  Both queue      *)
(* bytes for the serial ring and send a datagram.                          *)
(***************************************************************************)
EXTENDS Palabra

VARIABLES
  sectoranterior, (* sector of the last azimuth taken                      *)
  SectorActual,   (* sector of the last header sent                        *)
  PlotBuffUDP,    (* the plot in the datagram buffer, and whether its      *)
                  (* bytes are in the order of the network                 *)
  salida          (* the frame the last step queued for transmission       *)

sectores == <<sectoranterior, SectorActual>>

(* What a step hands to the serial ring and to the datagram socket. *)
Nada           == [tipo |-> "nada"]
TramaCab(s)    == [tipo |-> "cabecera", sector |-> s]
TramaBlanco(a, r, h, s) ==
  [tipo |-> "blanco", az |-> a, rg |-> r, alt |-> h, serie |-> s]

InitSalida ==
  /\ sectoranterior = 0 /\ SectorActual = 0
  /\ PlotBuffUDP = [az |-> 0, rg |-> 0, alt |-> 0, girado |-> FALSE]
  /\ salida = Nada
-----------------------------------------------------------------------------
CambiaSectorSinMemoria(s) ==   (* mutant: sectoranterior is not updated *)
  /\ sectoranterior' = sectoranterior
  /\ SectorActual' = IF s # sectoranterior THEN s ELSE SectorActual
  /\ salida' = IF s # sectoranterior THEN TramaCab(s) ELSE Nada

(* cabecera(): sent when the sector changes. *)
CambiaSector(s) ==
  /\ sectoranterior' = s
  /\ SectorActual' = IF s # sectoranterior THEN s ELSE SectorActual
  /\ salida' = IF s # sectoranterior THEN TramaCab(s) ELSE Nada

(***************************************************************************)
(* blancos(): a plot goes to the serial ring if its sector is the one of   *)
(* the last header or SectAnt; the datagram buffer is refilled in that     *)
(* case only, but its bytes are swapped and it is sent in every case.      *)
(***************************************************************************)
SectAnt == Modulo(SectorActual, 1)

AlSerie(a) == Sector(a) \in {SectorActual, SectAnt}

blancos(a, r, h) ==
  /\ PlotBuffUDP' = IF AlSerie(a)
                    THEN [az |-> a, rg |-> r, alt |-> h, girado |-> TRUE]
                    ELSE [PlotBuffUDP EXCEPT !.girado = ~@]
  /\ salida' = TramaBlanco(a, r, h, AlSerie(a))

(* The datagram that goes with a plot carries that plot. *)
DatagramaFiel ==
  salida.tipo = "blanco" =>
    PlotBuffUDP = [az |-> salida.az, rg |-> salida.rg, alt |-> salida.alt,
                   girado |-> TRUE]
=============================================================================
