------------------------------ MODULE PuertoSoC ------------------------------
(***************************************************************************)
(* pri113/pri113-20181219.c, the port of the program to a SoC: registers   *)
(* are reached over a bridge, by writing the number of one at A_addr and   *)
(* then reading or writing D_addr.  Nothing comes between the two, so an   *)
(* access is one step here as there.  Of the routines only main() differs: *)
(* it does not empty the FIFO before its loop, where here it is empty      *)
(* anyway, and it has no lee_altura(), so there are no heights of COM3.    *)
(*                                                                         *)
(* The port is in progress: the file is not yet one that builds, and       *)
(* nobody maps the bridge before main() uses it.  The module is the        *)
(* program that its routines make on a bridge that works.                  *)
(***************************************************************************)
EXTENDS Palabra

CONSTANTS Capacidad, Palabras, AREA_INHIBICION

VARIABLES
  fifo, lleno, FlagIni, DatoAnt, AzAnt, lectura, pide, ultimo, eco,
  prs, bandera, rangoinic, banderainic, azimuth, aztant, bandera_azt,
  PrsAltura, AlturaTemp, Flag_alt, sector_alt, alt_alt,
  sectoranterior, SectorActual, PlotBuffUDP, salida, pc, j, aztprom

X == INSTANCE Extractor WITH SectoresCom3 <- {}, AlturasCom3 <- {}

puerta  == <<fifo, lleno, FlagIni, DatoAnt, AzAnt, lectura, pide, ultimo>>
rastreo == <<prs, bandera, rangoinic, banderainic, azimuth, aztant, bandera_azt,
             PrsAltura, AlturaTemp, Flag_alt, sector_alt, alt_alt, pc, j>>

(* main() before its loop: InicializaPr(), and JMP0 of register 0x4300 into *)
(* eco.                                                                    *)
Inicia == X!EInit
-----------------------------------------------------------------------------
(* Register 0x4310 says that the FIFO is full: ResetFifo(). *)
ChkFlag == X!Desborde

CtrlDato == X!ErrorClase \/ X!PrimerDato \/ X!ErrorAzimut \/ X!ErrorAltura \/ X!DatoBueno

(* Register 0x4330 gives its next word. *)
GetDato == X!HayDato /\ CtrlDato

(* Primario(), by the class of the word. *)
Azimut(w) == X!P!AzimutAceptado(w)

AzimutRechazado(w) == X!P!AzimutRechazado(w)

Rango(w) ==
  \/ X!P!RangoIgnorado(w)
  \/ X!P!PrimerEco(w) \/ X!P!OtroEco(w)
  \/ X!P!RangoAltura(w)

AlturaSinMascara(w) ==         (* mutant: & 0x00ff is lost with int of 32 bits *)
  /\ pc = "lee" /\ EsAltura(w)
  /\ PrsAltura' = 1 /\ AlturaTemp' = w
  /\ salida' = X!P!Nada
  /\ UNCHANGED <<prs, bandera, rangoinic, banderainic, azimuth, aztant,
                 bandera_azt, Flag_alt, sector_alt, alt_alt, sectoranterior,
                 SectorActual, PlotBuffUDP, pc, j>>

Altura(w) == X!P!Altura(w)

Primario(w) == Azimut(w) \/ AzimutRechazado(w) \/ Rango(w) \/ Altura(w)

(* Its loop over the targets, after an azimuth that was taken. *)
Barrido == X!P!Barre /\ UNCHANGED <<puerta, eco, aztprom>>

blancos(a, r, h) == X!P!blancos(a, r, h)

cabecera(s) ==
  /\ SectorActual' = s
  /\ salida' = X!P!TramaCab(s)

(* Every range is a plot; those of the FPGA are 19 counts short. *)
Primario_eco(w) ==
  \/ /\ EsAzimut(w)
     /\ aztprom' = w - AZ
     /\ sectoranterior' = Sector(w - AZ)
     /\ IF sectoranterior' # sectoranterior THEN cabecera(sectoranterior')
        ELSE salida' = X!P!Nada /\ UNCHANGED SectorActual
     /\ UNCHANGED PlotBuffUDP
  \/ /\ EsRango(w) /\ EsRango(w + 19)
     /\ blancos(aztprom, w + 19, 0)
     /\ UNCHANGED <<aztprom, sectoranterior, SectorActual>>
  \/ /\ EsAltura(w) \/ (EsRango(w) /\ ~EsRango(w + 19))
     /\ salida' = X!P!Nada
     /\ UNCHANGED <<aztprom, sectoranterior, SectorActual, PlotBuffUDP>>
-----------------------------------------------------------------------------
main_Procesa ==
  \/ /\ lectura' # X!Ninguna
     /\ \/ eco /\ Primario_eco(lectura') /\ UNCHANGED rastreo
        \/ ~eco /\ Primario(lectura') /\ UNCHANGED aztprom
  \/ /\ lectura' = X!Ninguna
     /\ IF pide' THEN X!P!PideResincronia
        ELSE /\ salida' = X!P!Nada
             /\ UNCHANGED <<rastreo, sectoranterior, SectorActual, PlotBuffUDP>>
     /\ UNCHANGED aztprom

(* One turn of the loop that finds something in the FIFO. *)
main ==
  /\ pc = "lee"
  /\ ChkFlag \/ GetDato
  /\ main_Procesa
  /\ UNCHANGED eco

(* External: what the FPGA puts in the FIFO. *)
LlegaPalabra(w) == X!LlegaPalabra(w)
=============================================================================
