----------------------------- MODULE Extractor -----------------------------
(***************************************************************************)
(* The main loop: the FIFO gate (CtrlFifo) hands each word to the tracker  *)
(* (Primario) or, with JMP0, to the eco mode (Eco).  The gate and the      *)
(* tracker share banderainic and disagree on what an azimuth may be: the   *)
(* gate compares it with the last one it saw, the tracker with the last    *)
(* one it took, and each has its own idea of the north mark.               *)
(*                                                                         *)
(* GetDato() and Primario() run in one iteration, so they are one action;  *)
(* the ageing loop stays one action per target, as in Primario, and the    *)
(* FIFO goes on filling meanwhile.  Any words may arrive, and any heights  *)
(* of COM3, which Com3 takes from the line.                                *)
(***************************************************************************)
EXTENDS CtrlFifo

CONSTANTS AREA_INHIBICION, SectoresCom3, AlturasCom3

ASSUME ExtractorAssumption ==
  /\ AREA_INHIBICION \in 0 .. 4095
  /\ SectoresCom3 \subseteq 0 .. 15
  /\ AlturasCom3 \subseteq 0 .. 1023

VARIABLES
  eco,                                          (* JMP0                    *)
  prs, bandera, rangoinic, banderainic, azimuth, aztant, bandera_azt,
  PrsAltura, AlturaTemp, Flag_alt, sector_alt, alt_alt,
  sectoranterior, SectorActual, PlotBuffUDP, salida, pc, j,
  aztprom

P == INSTANCE Primario WITH Lecturas <- {w \in Palabras : EsValida(w)}
E == INSTANCE Eco

rastreo == <<prs, bandera, rangoinic, banderainic, azimuth, aztant, bandera_azt,
             PrsAltura, AlturaTemp, Flag_alt, sector_alt, alt_alt, pc, j>>
reporte == <<sectoranterior, SectorActual, PlotBuffUDP, salida>>
evars   == <<vars, eco, rastreo, reporte, aztprom>>

EInit ==
  /\ Init /\ P!Init /\ E!InitEco
  /\ eco \in BOOLEAN

(* What main() does with the word it has got, if any. *)
Procesa ==
  \/ /\ lectura' # Ninguna /\ ~eco
     /\ P!Lee(lectura')
     /\ UNCHANGED aztprom
  \/ /\ lectura' # Ninguna /\ eco
     /\ E!Primario_eco(lectura')
     /\ UNCHANGED rastreo
  \/ /\ lectura' = Ninguna /\ pide'
     /\ P!PideResincronia
     /\ UNCHANGED aztprom
  \/ /\ lectura' = Ninguna /\ ~pide'
     /\ salida' = P!Nada
     /\ UNCHANGED <<rastreo, sectoranterior, SectorActual, PlotBuffUDP, aztprom>>

(* One iteration that finds something in the FIFO. *)
Iteracion ==
  /\ pc = "lee"
  /\ Sondea
  /\ Procesa
  /\ UNCHANGED eco

(* The ageing loop of Primario(), before main() looks at the FIFO again. *)
Recorre == P!Barre /\ UNCHANGED <<vars, eco, aztprom>>

(* lee_altura() completes a packet; the eco mode does not call it. *)
LlegaCom3(s, h) ==
  /\ ~eco
  /\ P!LlegaAltura(s, h)
  /\ UNCHANGED <<vars, eco, aztprom>>

LlegaPalabra(w) ==
  /\ Llega(w)
  /\ UNCHANGED <<eco, rastreo, reporte, aztprom>>

ENext ==
  \/ Iteracion
  \/ Recorre
  \/ \E s \in SectoresCom3, h \in AlturasCom3 : LlegaCom3(s, h)
  \/ \E w \in Palabras : LlegaPalabra(w)

ESpec == EInit /\ [][ENext]_evars
-----------------------------------------------------------------------------
(* Gate and tracker agree: within a session the tracker's azimuth is the   *)
(* last one that the gate let through, unless the tracker refused it, and  *)
(* then it takes the next one whatever it is.                              *)
Coherentes ==
  ultimo # Ninguna /\ ~eco => azimuth = ultimo \/ banderainic = 1

(* The window of line 525 takes 0x8000..0x8002 after any azimuth.  The     *)
(* gate in front of it makes good for that within a session: with no       *)
(* resynchronisation pending, an azimuth that is taken, and with it the    *)
(* targets kept, is at most three steps ahead, or is just after north and  *)
(* comes from sector 15.                                                   *)
SaltoAcotado ==
  [][azimuth' # azimuth /\ banderainic = 0 /\ ultimo # Ninguna =>
       \/ (azimuth' - azimuth) % VUELTA <= 3
       \/ Sector(azimuth - AZ) = 15 /\ azimuth' - AZ < 3]_evars

(* An azimuth that repeats the last one makes the tracker keep its targets *)
(* and take anything next (line 686).  The gate lets none through but the  *)
(* first of a session.                                                     *)
RepetidoSoloAlEmpezar ==
  [][Iteracion /\ EsAzimut(lectura') /\ lectura' = azimuth /\ ~eco
       /\ banderainic = 0 => ultimo = Ninguna]_evars

(* A COM3 height is given to one plot at most, of its sector or of one     *)
(* next to it, and is spent with it, whatever resets, resynchronisations   *)
(* and heights of the FIFO come in between.  COM3 heights above 255 are    *)
(* told apart from those of the FIFO.                                      *)
AlturaUnaVez ==
  [][Recorre /\ salida'.tipo = "blanco" /\ salida'.alt > 255 =>
       /\ Flag_alt = 1 /\ Flag_alt' = 0
       /\ salida'.alt = alt_alt
       /\ (Sector(salida'.az) - sector_alt) % 16 \in {0, 1, 15}]_evars

(* In eco mode every plot is in the sector of the last header, so it goes  *)
(* to the serial line and the datagram is its own: the stale datagrams     *)
(* that blancos() can send do not happen, whatever the gate drops.         *)
EcoFiel ==
  eco => E!DatagramaFiel /\ (salida.tipo = "blanco" => salida.serie)
=============================================================================
