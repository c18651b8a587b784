----------------------------- MODULE Versiones -----------------------------
(***************************************************************************)
(* The program beside the version it replaced and the port meant to        *)
(* replace it, in front of the same radar.  Leer_Primario_SIS.txt says     *)
(* that the program is the same version with JMP5 enabled, not yet tried   *)
(* at the radar.  Here each word reaches the three FIFOs, the three        *)
(* programs poll at the same pace, and what they do is compared.           *)
(***************************************************************************)
EXTENDS Extractor, Lejanos

VARIABLES
  a_fifo, a_lleno, a_FlagIni, a_DatoAnt, a_AzAnt, a_lectura, a_pide, a_ultimo,
  a_prs, a_bandera, a_rangoinic, a_banderainic, a_azimuth, a_aztant,
  a_bandera_azt, a_PrsAltura, a_AlturaTemp, a_Flag_alt, a_sector_alt, a_alt_alt,
  a_sectoranterior, a_SectorActual, a_PlotBuffUDP, a_salida, a_pc, a_j, a_aztprom,
  s_fifo, s_lleno, s_FlagIni, s_DatoAnt, s_AzAnt, s_lectura, s_pide, s_ultimo,
  s_prs, s_bandera, s_rangoinic, s_banderainic, s_azimuth, s_aztant,
  s_bandera_azt, s_PrsAltura, s_AlturaTemp, s_Flag_alt, s_sector_alt, s_alt_alt,
  s_sectoranterior, s_SectorActual, s_PlotBuffUDP, s_salida, s_pc, s_j, s_aztprom,
  alturaCerca,   (* history: a height was followed by a near range          *)
  vecinas        (* history: a near and a far echo were a cell apart        *)

antes ==
  <<a_fifo, a_lleno, a_FlagIni, a_DatoAnt, a_AzAnt, a_lectura, a_pide, a_ultimo,
    a_prs, a_bandera, a_rangoinic, a_banderainic, a_azimuth, a_aztant,
    a_bandera_azt, a_PrsAltura, a_AlturaTemp, a_Flag_alt, a_sector_alt, a_alt_alt,
    a_sectoranterior, a_SectorActual, a_PlotBuffUDP, a_salida, a_pc, a_j, a_aztprom>>

puerto ==
  <<s_fifo, s_lleno, s_FlagIni, s_DatoAnt, s_AzAnt, s_lectura, s_pide, s_ultimo,
    s_prs, s_bandera, s_rangoinic, s_banderainic, s_azimuth, s_aztant,
    s_bandera_azt, s_PrsAltura, s_AlturaTemp, s_Flag_alt, s_sector_alt, s_alt_alt,
    s_sectoranterior, s_SectorActual, s_PlotBuffUDP, s_salida, s_pc, s_j, s_aztprom>>

historia == <<alturaCerca, vecinas>>

vvars == <<evars, antes, puerto, historia>>

(* All read the same jumpers. *)
Antes == INSTANCE PrimeraVersion WITH
  fifo <- a_fifo, lleno <- a_lleno, FlagIni <- a_FlagIni, DatoAnt <- a_DatoAnt,
  AzAnt <- a_AzAnt, lectura <- a_lectura, pide <- a_pide, ultimo <- a_ultimo,
  prs <- a_prs, bandera <- a_bandera, rangoinic <- a_rangoinic,
  banderainic <- a_banderainic, azimuth <- a_azimuth, aztant <- a_aztant,
  bandera_azt <- a_bandera_azt, PrsAltura <- a_PrsAltura,
  AlturaTemp <- a_AlturaTemp, Flag_alt <- a_Flag_alt,
  sector_alt <- a_sector_alt, alt_alt <- a_alt_alt,
  sectoranterior <- a_sectoranterior, SectorActual <- a_SectorActual,
  PlotBuffUDP <- a_PlotBuffUDP, salida <- a_salida, pc <- a_pc, j <- a_j,
  aztprom <- a_aztprom

Puerto == INSTANCE PuertoSoC WITH
  fifo <- s_fifo, lleno <- s_lleno, FlagIni <- s_FlagIni, DatoAnt <- s_DatoAnt,
  AzAnt <- s_AzAnt, lectura <- s_lectura, pide <- s_pide, ultimo <- s_ultimo,
  prs <- s_prs, bandera <- s_bandera, rangoinic <- s_rangoinic,
  banderainic <- s_banderainic, azimuth <- s_azimuth, aztant <- s_aztant,
  bandera_azt <- s_bandera_azt, PrsAltura <- s_PrsAltura,
  AlturaTemp <- s_AlturaTemp, Flag_alt <- s_Flag_alt,
  sector_alt <- s_sector_alt, alt_alt <- s_alt_alt,
  sectoranterior <- s_sectoranterior, SectorActual <- s_SectorActual,
  PlotBuffUDP <- s_PlotBuffUDP, salida <- s_salida, pc <- s_pc, j <- s_j,
  aztprom <- s_aztprom

(* The ranges that only the new program processes; those of Lejos, both do. *)
Cerca(r) == EsRango(r) /\ r - RG \in AREA_INHIBICION .. QuinceMillas - 1

(* JMP5 sets 3 or 7 miles.                                                 *)
ASSUME VersionesAssumption == AREA_INHIBICION <= QuinceMillas

(* The echoes that either program follows, or is still deciding about.     *)
Pendiente(b, r) == IF b = 0 THEN {r} ELSE {}

Vivos ==
  UNION {RangosDe(prs), RangosDe(a_prs),
         Pendiente(bandera, rangoinic), Pendiente(a_bandera, a_rangoinic)}

(* A word of interest to either.                                           *)
DeInteres(w) == IF Cerca(w) \/ Lejos(w) THEN {w} ELSE {}
-----------------------------------------------------------------------------
VInit ==
  /\ EInit /\ Antes!Inicia /\ Puerto!Inicia
  /\ alturaCerca = FALSE /\ vecinas = FALSE

(* All poll, on their own copies of the same words. *)
Sondean ==
  /\ Iteracion /\ Antes!main /\ Puerto!main
  /\ alturaCerca' = (alturaCerca \/ (PrsAltura = 1 /\ Cerca(lectura')))
  /\ vecinas' = (vecinas \/ ~Separadas(Vivos \cup DeInteres(lectura')))

(* The loops over the targets touch nothing common: the program and the    *)
(* port first, the old program then.                                       *)
Recorren ==
  /\ \/ Recorre /\ Puerto!Barrido /\ UNCHANGED antes
     \/ pc = "lee" /\ Antes!Barrido /\ UNCHANGED <<evars, puerto>>
  /\ UNCHANGED historia

(* Each of the two with COM3 takes the height if it has none waiting. *)
LlegaAmbosCom3(s, h) ==
  /\ LlegaCom3(s, h) \/ (pc = "lee" /\ Flag_alt = 1 /\ UNCHANGED evars)
  /\ Antes!lee_altura(s, h) \/ (a_pc = "lee" /\ a_Flag_alt = 1 /\ UNCHANGED antes)
  /\ UNCHANGED <<eco, puerto, historia>>

LlegaATodos(w) ==
  /\ LlegaPalabra(w) /\ Antes!LlegaPalabra(w) /\ Puerto!LlegaPalabra(w)
  /\ UNCHANGED historia

VNext ==
  \/ Sondean
  \/ Recorren
  \/ \E s \in SectoresCom3, h \in AlturasCom3 : LlegaAmbosCom3(s, h)
  \/ \E w \in Palabras : LlegaATodos(w)

VSpec == VInit /\ [][VNext]_vvars
-----------------------------------------------------------------------------
Presentes(p) == {p[i] : i \in {k \in DOMAIN p : Lejos(p[k].rangoinic)}}

(* Leer_Primario_SIS.txt: "the same version" with JMP5.  Between two words *)
(* both follow the same targets beyond the miles the old one left out,     *)
(* with the same ages and the same heights, through resynchronisations,    *)
(* resets and north, whatever the new one finds in those miles: until an   *)
(* echo comes within a cell of one on the other side of the border, which  *)
(* the new program takes for the same target, or a height is followed by a *)
(* near range, which the old one does not take for the range of the        *)
(* height.                                                                 *)
MismosBlancos ==
  pc = "lee" /\ a_pc = "lee" /\ ~alturaCerca /\ ~vecinas =>
    Presentes(prs) = Presentes(a_prs)

(* The port follows the same targets as the program, and its plots are the *)
(* program's one by one, although it never hears COM3: a height of COM3    *)
(* goes into the plot it is given to and has no effect on anything else.   *)
MismosPlots ==
  /\ s_prs = prs
  /\ salida.tipo = "blanco" =>
       /\ s_salida = [salida EXCEPT !.alt = s_salida.alt]
       /\ s_salida.alt # salida.alt => salida.alt = alt_alt
=============================================================================
