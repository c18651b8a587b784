--------------------------- MODULE PrimeraVersion ---------------------------
(***************************************************************************)
(* priwest2x.c, the program before JMP5 was given a meaning, and the one   *)
(* that was in service.  Its routines are those of priwest2x_new.c but for *)
(* the inhibited area, a constant in Primario(): each is here the action   *)
(* of Extractor with that constant, and the main loop is put together      *)
(* again from them.                                                        *)
(***************************************************************************)
EXTENDS Palabra

CONSTANTS Capacidad, Palabras, SectoresCom3, AlturasCom3

VARIABLES
  fifo, lleno, FlagIni, DatoAnt, AzAnt, lectura, pide, ultimo, eco,
  prs, bandera, rangoinic, banderainic, azimuth, aztant, bandera_azt,
  PrsAltura, AlturaTemp, Flag_alt, sector_alt, alt_alt,
  sectoranterior, SectorActual, PlotBuffUDP, salida, pc, j, aztprom

AREA_LARGA == 160      (* mutant: fifteen miles of another scale *)

(* The fifteen miles nearest to the radar are not processed. *)
AREA_FIJA == 65

X == INSTANCE Extractor WITH AREA_INHIBICION <- AREA_FIJA

puerta  == <<fifo, lleno, FlagIni, DatoAnt, AzAnt, lectura, pide, ultimo>>
rastreo == <<prs, bandera, rangoinic, banderainic, azimuth, aztant, bandera_azt,
             PrsAltura, AlturaTemp, Flag_alt, sector_alt, alt_alt, pc, j>>

(* main() before its loop: InicializaPr(), and JMP0 into eco. *)
Inicia == X!EInit
-----------------------------------------------------------------------------
ChkFlag == X!Desborde

CtrlDato == X!ErrorClase \/ X!PrimerDato \/ X!ErrorAzimut \/ X!ErrorAltura \/ X!DatoBueno

(* Primario(), by the class of the word. *)
Azimut(w) == X!P!AzimutAceptado(w)

AzimutRechazado(w) == X!P!AzimutRechazado(w)

Rango(w) ==
  \/ X!P!RangoIgnorado(w)
  \/ X!P!PrimerEco(w) \/ X!P!OtroEco(w)
  \/ X!P!RangoAltura(w)

Altura(w) == X!P!Altura(w)

Primario(w) == Azimut(w) \/ AzimutRechazado(w) \/ Rango(w) \/ Altura(w)

(* Its loop over the targets, after an azimuth that was taken. *)
Barrido == X!P!Barre /\ UNCHANGED <<puerta, eco, aztprom>>

blancos(a, r, h) == X!P!blancos(a, r, h)

cabecera(s) ==
  /\ SectorActual' = s
  /\ salida' = X!P!TramaCab(s)

(* Every range is a plot; those of the FPGA are 19 counts short. *)
Primario_eco(w) ==
  \/ /\ EsAzimut(w)
     /\ aztprom' = w - AZ
     /\ sectoranterior' = Sector(w - AZ)
     /\ IF sectoranterior' # sectoranterior THEN cabecera(sectoranterior')
        ELSE salida' = X!P!Nada /\ UNCHANGED SectorActual
     /\ UNCHANGED PlotBuffUDP
  \/ /\ EsRango(w) /\ EsRango(w + 19)
     /\ blancos(aztprom, w + 19, 0)
     /\ UNCHANGED <<aztprom, sectoranterior, SectorActual>>
  \/ /\ EsAltura(w) \/ (EsRango(w) /\ ~EsRango(w + 19))
     /\ salida' = X!P!Nada
     /\ UNCHANGED <<aztprom, sectoranterior, SectorActual, PlotBuffUDP>>
-----------------------------------------------------------------------------
main_Procesa ==
  \/ /\ lectura' # X!Ninguna
     /\ \/ eco /\ Primario_eco(lectura') /\ UNCHANGED rastreo
        \/ ~eco /\ Primario(lectura') /\ UNCHANGED aztprom
  \/ /\ lectura' = X!Ninguna
     /\ IF pide' THEN X!P!PideResincronia
        ELSE /\ salida' = X!P!Nada
             /\ UNCHANGED <<rastreo, sectoranterior, SectorActual, PlotBuffUDP>>
     /\ UNCHANGED aztprom

(* One turn of the loop that finds something in the FIFO. *)
main ==
  /\ pc = "lee"
  /\ ChkFlag \/ CtrlDato
  /\ main_Procesa
  /\ UNCHANGED eco

(* lee_altura() completes a packet of the line of COM3, in the sector s. *)
lee_altura(s, h) == X!LlegaCom3(s, h)

(* External: what the FPGA puts in the FIFO. *)
LlegaPalabra(w) == X!LlegaPalabra(w)
=============================================================================
