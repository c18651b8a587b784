----------------------------- MODULE Primario -----------------------------
(***************************************************************************)
(* The plot extractor: Primario(lectura) with cabecera() and blancos(),    *)
(* the routine that turns azimuth, range and height words into sector      *)
(* headers and plots.                                                      *)
(*                                                                         *)
(* The module is an open component.  Its inputs are any word of Lecturas,  *)
(* the height packets of COM3 (LlegaAltura) and CtrlDato's write to        *)
(* banderainic (PideResincronia); CtrlFifo and Com3 model where they come  *)
(* from, and Extractor is the tracker with its gate.                       *)
(*                                                                         *)
(* Primario() is one action per word, except for the ageing loop of an     *)
(* azimuth word, which is one action per iteration (pc = "barre"): the     *)
(* plots leave in the order of the loop and each one may consume the       *)
(* pending height.                                                         *)
(***************************************************************************)
EXTENDS Salida, SequencesExt

CONSTANTS
  AREA_INHIBICION,  (* first range count that is processed, set by JMP5     *)
  Lecturas,         (* the words the FIFO may deliver                       *)
  SectoresCom3,     (* the sectors of the COM3 heights (sector_alt)         *)
  AlturasCom3       (* and their values (alt_alt)                           *)

ASSUME PrimarioAssumption ==
  /\ AREA_INHIBICION \in 0 .. 4095
  /\ \A w \in Lecturas : EsValida(w)
  /\ \A w \in Lecturas : EsAzimut(w) => w - AZ \in Azimuts
  /\ SectoresCom3 \subseteq 0 .. 15
  /\ AlturasCom3 \subseteq 0 .. 1023

VARIABLES
  prs,            (* prs[0..indice-1], the live targets; Len(prs) = indice *)
  bandera,        (* 0: rangoinic holds an echo not yet given to a target  *)
  rangoinic,      (* that echo                                             *)
  banderainic,    (* 1: the next azimuth is taken whatever it is           *)
  azimuth,        (* the last azimuth word that was taken                  *)
  aztant,         (* its value without the prefix                          *)
  bandera_azt,    (* 0: no azimuth yet, range words are skipped            *)
  PrsAltura,      (* 1: the next range word belongs to a height            *)
  AlturaTemp,     (* that height                                           *)
  Flag_alt,       (* 1: a COM3 height waits for its plot                   *)
  sector_alt,     (* its sector                                            *)
  alt_alt,        (* its value                                             *)
  pc,             (* "lee": between words; "barre": in the ageing loop     *)
  j               (* index of the ageing loop, from 1                      *)

seguimiento == <<prs, bandera, rangoinic, banderainic, azimuth, aztant,
                 bandera_azt>>
altura3     == <<Flag_alt, sector_alt, alt_alt>>
alturaFifo  == <<PrsAltura, AlturaTemp>>
vars == <<seguimiento, altura3, alturaFifo, sectores, PlotBuffUDP, pc, j, salida>>

(* An element of prs. *)
Presencia == [rangoinic : Nat, aztinic : Azimuts,
              auscons : 0 .. max_aus_cons - 1, Altura : 0 .. 255]

Init ==
  /\ prs = <<>>
  /\ bandera = 0 /\ rangoinic = 0
  /\ banderainic = 1 /\ azimuth = 0 /\ aztant = 0 /\ bandera_azt = 0
  /\ PrsAltura = 0 /\ AlturaTemp = 0
  /\ Flag_alt = 0 /\ sector_alt = 0 /\ alt_alt = 0
  /\ InitSalida
  /\ pc = "lee" /\ j = 1
-----------------------------------------------------------------------------
(***************************************************************************)
(* Correlation: the search of the nearest target, first index on ties.     *)
(***************************************************************************)
CorrelacionEstricta(r) ==      (* mutant: < for <= at the edge of the gate *)
  {i \in DOMAIN prs : Modulo(r, prs[i].rangoinic) < Puerta}

Correlacion(r) ==
  {i \in DOMAIN prs : Modulo(r, prs[i].rangoinic) <= Puerta}

MasCercano(r) ==
  CHOOSE i \in Correlacion(r) : \A k \in Correlacion(r) :
    \/ Modulo(r, prs[i].rangoinic) < Modulo(r, prs[k].rangoinic)
    \/ Modulo(r, prs[i].rangoinic) = Modulo(r, prs[k].rangoinic) /\ i <= k

Nuevo(r) == [rangoinic |-> r, aztinic |-> aztant, auscons |-> 0, Altura |-> 0]

(* An echo refreshes the target it correlates with, or opens a new one. *)
Registra(r) ==
  IF Correlacion(r) # {}
  THEN [prs EXCEPT ![MasCercano(r)].auscons = 0]
  ELSE Append(prs, Nuevo(r))
-----------------------------------------------------------------------------
(***************************************************************************)
(* Azimuth words.                                                          *)
(***************************************************************************)

EnVentanaSinNorte(w) ==        (* mutant: north is out of the window *)
  w < azimuth + 4 /\ w > azimuth

(* The window around the previous azimuth, or a pending resynchronisation. *)
EnVentana(w) == w < azimuth + 4 /\ (w > azimuth \/ w < AZ + 3)

Aceptable(w) == EnVentana(w) \/ banderainic = 1

AzimutAceptado(w) ==
  /\ pc = "lee" /\ EsAzimut(w) /\ Aceptable(w)
  /\ PrsAltura' = 0
  /\ banderainic' = 0
  /\ azimuth' = w
  /\ bandera_azt' = 1
  /\ CambiaSector(Sector(w - AZ))
  /\ prs' = IF bandera = 0 THEN Registra(rangoinic) ELSE prs
  /\ bandera' = 1
  /\ aztant' = w - AZ
  /\ pc' = "barre" /\ j' = 1
  /\ UNCHANGED <<rangoinic, AlturaTemp, altura3, PlotBuffUDP>>

AzimutRechazadoSinPedir(w) ==  (* mutant: the next azimuth is compared too *)
  /\ pc = "lee" /\ EsAzimut(w) /\ ~Aceptable(w)
  /\ PrsAltura' = 0
  /\ bandera_azt' = IF w = azimuth THEN 0 ELSE bandera_azt
  /\ prs' = IF w = azimuth THEN prs ELSE <<>>
  /\ salida' = Nada
  /\ UNCHANGED <<bandera, rangoinic, banderainic, azimuth, aztant, sectores,
                 AlturaTemp, altura3, PlotBuffUDP, pc, j>>

(* Out of the window: the targets are dropped, unless the azimuth is the   *)
(* same one again.                                                         *)
AzimutRechazado(w) ==
  /\ pc = "lee" /\ EsAzimut(w) /\ ~Aceptable(w)
  /\ PrsAltura' = 0
  /\ banderainic' = 1
  /\ bandera_azt' = IF w = azimuth THEN 0 ELSE bandera_azt
  /\ prs' = IF w = azimuth THEN prs ELSE <<>>
  /\ salida' = Nada
  /\ UNCHANGED <<bandera, rangoinic, azimuth, aztant, sectores, AlturaTemp,
                 altura3, PlotBuffUDP, pc, j>>
-----------------------------------------------------------------------------
(***************************************************************************)
(* The ageing loop: one step per live target.                              *)
(***************************************************************************)
Caduca == prs[j].auscons + 1 >= max_aus_cons

Envejece ==
  /\ pc = "barre" /\ j <= Len(prs) /\ ~Caduca
  /\ prs' = [prs EXCEPT ![j].auscons = @ + 1]
  /\ j' = j + 1
  /\ salida' = Nada
  /\ UNCHANGED <<bandera, rangoinic, banderainic, azimuth, aztant, bandera_azt,
                 altura3, alturaFifo, sectores, PlotBuffUDP, pc>>

CaducaCortoUltimo ==           (* mutant: the shift drops the last target *)
  /\ pc = "barre" /\ j <= Len(prs) /\ Caduca
  /\ Ancho(prs[j].aztinic, aztant) < blancocorto
  /\ prs' = Front(prs)
  /\ salida' = Nada
  /\ UNCHANGED <<bandera, rangoinic, banderainic, azimuth, aztant, bandera_azt,
                 altura3, alturaFifo, sectores, PlotBuffUDP, pc, j>>

(* A target that ends too narrow is forgotten. *)
CaducaCorto ==
  /\ pc = "barre" /\ j <= Len(prs) /\ Caduca
  /\ Ancho(prs[j].aztinic, aztant) < blancocorto
  /\ prs' = RemoveAt(prs, j)
  /\ salida' = Nada
  /\ UNCHANGED <<bandera, rangoinic, banderainic, azimuth, aztant, bandera_azt,
                 altura3, alturaFifo, sectores, PlotBuffUDP, pc, j>>

(* A COM3 height is tried on plots of its own sector and the two next to   *)
(* it; the first such plot consumes it.                                    *)
AlturaVecina(a) ==
  /\ Flag_alt = 1
  /\ \E d \in {0, 1, 15} : sector_alt = (Sector(a) + d) % 16

CaducaBlancoRetiene(cerca) ==  (* mutant: a height that is used is kept *)
  /\ pc = "barre" /\ j <= Len(prs) /\ Caduca
  /\ Ancho(prs[j].aztinic, aztant) >= blancocorto
  /\ LET a == Centro(prs[j].aztinic, aztant) IN
       /\ cerca => AlturaVecina(a)
       /\ blancos(a, prs[j].rangoinic, IF cerca THEN alt_alt ELSE prs[j].Altura)
       /\ Flag_alt' = IF AlturaVecina(a) /\ ~cerca THEN 0 ELSE Flag_alt
  /\ prs' = RemoveAt(prs, j)
  /\ UNCHANGED <<bandera, rangoinic, banderainic, azimuth, aztant, bandera_azt,
                 sector_alt, alt_alt, alturaFifo, sectores, pc, j>>

(* The others become a plot.  cerca is Dist < Dist_max, the distance in    *)
(* miles between the plot and the COM3 height; positions are left out.     *)
CaducaBlanco(cerca) ==
  /\ pc = "barre" /\ j <= Len(prs) /\ Caduca
  /\ Ancho(prs[j].aztinic, aztant) >= blancocorto
  /\ LET a == Centro(prs[j].aztinic, aztant) IN
       /\ cerca => AlturaVecina(a)
       /\ blancos(a, prs[j].rangoinic, IF cerca THEN alt_alt ELSE prs[j].Altura)
       /\ Flag_alt' = IF AlturaVecina(a) THEN 0 ELSE Flag_alt
  /\ prs' = RemoveAt(prs, j)
  /\ UNCHANGED <<bandera, rangoinic, banderainic, azimuth, aztant, bandera_azt,
                 sector_alt, alt_alt, alturaFifo, sectores, pc, j>>

FinBarrido ==
  /\ pc = "barre" /\ j > Len(prs)
  /\ pc' = "lee" /\ j' = 1
  /\ salida' = Nada
  /\ UNCHANGED <<seguimiento, altura3, alturaFifo, sectores, PlotBuffUDP>>
-----------------------------------------------------------------------------
(***************************************************************************)
(* Range and height words.                                                 *)
(***************************************************************************)
ProcesableSinArea(w) == EsRango(w)             (* mutant: JMP5 is ignored *)

Procesable(w) == EsRango(w) /\ w - RG >= AREA_INHIBICION

(* Ranges inside the inhibited area, ranges before the first azimuth, and  *)
(* further cells of the pending echo.                                      *)
RangoIgnorado(w) ==
  /\ pc = "lee" /\ EsRango(w)
  /\ \/ ~Procesable(w)
     \/ PrsAltura = 0 /\ bandera_azt # 1
     \/ PrsAltura = 0 /\ bandera = 0 /\ w - rangoinic <= tolerancia
  /\ salida' = Nada
  /\ UNCHANGED <<seguimiento, altura3, alturaFifo, sectores, PlotBuffUDP, pc, j>>

PrimerEco(w) ==
  /\ pc = "lee" /\ Procesable(w) /\ PrsAltura = 0 /\ bandera_azt = 1
  /\ bandera = 1
  /\ rangoinic' = w /\ bandera' = 0
  /\ salida' = Nada
  /\ UNCHANGED <<prs, banderainic, azimuth, aztant, bandera_azt, altura3,
                 alturaFifo, sectores, PlotBuffUDP, pc, j>>

OtroEcoOlvida(w) ==            (* mutant: the pending echo is overwritten *)
  /\ pc = "lee" /\ Procesable(w) /\ PrsAltura = 0 /\ bandera_azt = 1
  /\ bandera = 0 /\ w - rangoinic > tolerancia
  /\ rangoinic' = w
  /\ salida' = Nada
  /\ UNCHANGED <<prs, bandera, banderainic, azimuth, aztant, bandera_azt, altura3,
                 alturaFifo, sectores, PlotBuffUDP, pc, j>>

OtroEco(w) ==
  /\ pc = "lee" /\ Procesable(w) /\ PrsAltura = 0 /\ bandera_azt = 1
  /\ bandera = 0 /\ w - rangoinic > tolerancia
  /\ prs' = Registra(rangoinic)
  /\ rangoinic' = w
  /\ salida' = Nada
  /\ UNCHANGED <<bandera, banderainic, azimuth, aztant, bandera_azt, altura3,
                 alturaFifo, sectores, PlotBuffUDP, pc, j>>

(* The range that follows a height: the height goes to the target it       *)
(* correlates with.                                                        *)
RangoAltura(w) ==
  /\ pc = "lee" /\ Procesable(w) /\ PrsAltura = 1
  /\ PrsAltura' = 0
  /\ bandera' = 1
  /\ prs' = IF Correlacion(w) # {}
            THEN [prs EXCEPT ![MasCercano(w)].Altura = AlturaTemp]
            ELSE prs
  /\ salida' = Nada
  /\ UNCHANGED <<rangoinic, banderainic, azimuth, aztant, bandera_azt,
                 AlturaTemp, altura3, sectores, PlotBuffUDP, pc, j>>

Altura(w) ==
  /\ pc = "lee" /\ EsAltura(w)
  /\ PrsAltura' = 1
  /\ AlturaTemp' = w % 256
  /\ salida' = Nada
  /\ UNCHANGED <<seguimiento, altura3, sectores, PlotBuffUDP, pc, j>>
-----------------------------------------------------------------------------
(***************************************************************************)
(* Inputs of the component, and the specification.                         *)
(***************************************************************************)

(* lee_altura() completes a packet; main() polls it only while no height   *)
(* is waiting.                                                             *)
LlegaAltura(s, h) ==
  /\ pc = "lee" /\ Flag_alt = 0
  /\ Flag_alt' = 1 /\ sector_alt' = s /\ alt_alt' = h
  /\ salida' = Nada
  /\ UNCHANGED <<seguimiento, alturaFifo, sectores, PlotBuffUDP, pc, j>>

(* CtrlDato(), after a height that no range followed. *)
PideResincronia ==
  /\ pc = "lee"
  /\ banderainic' = 1
  /\ salida' = Nada
  /\ UNCHANGED <<prs, bandera, rangoinic, azimuth, aztant, bandera_azt, altura3,
                 alturaFifo, sectores, PlotBuffUDP, pc, j>>

Lee(w) ==
  \/ AzimutAceptado(w) \/ AzimutRechazado(w)
  \/ RangoIgnorado(w) \/ PrimerEco(w) \/ OtroEco(w) \/ RangoAltura(w)
  \/ Altura(w)

Barre ==
  \/ Envejece
  \/ CaducaCorto
  \/ \E cerca \in BOOLEAN : CaducaBlanco(cerca)
  \/ FinBarrido

Next ==
  \/ \E w \in Lecturas : Lee(w)
  \/ Barre
  \/ \E s \in SectoresCom3, h \in AlturasCom3 : LlegaAltura(s, h)
  \/ PideResincronia

Spec == Init /\ [][Next]_vars
-----------------------------------------------------------------------------
TypeOK ==
  /\ prs \in Seq(Presencia)
  /\ bandera \in {0, 1} /\ banderainic \in {0, 1} /\ bandera_azt \in {0, 1}
  /\ rangoinic \in Nat /\ azimuth \in Nat
  /\ aztant \in Azimuts
  /\ sectoranterior \in 0 .. 15 /\ SectorActual \in 0 .. 15
  /\ PrsAltura \in {0, 1} /\ AlturaTemp \in 0 .. 255
  /\ Flag_alt \in {0, 1} /\ sector_alt \in 0 .. 15 /\ alt_alt \in 0 .. 1023
  /\ PlotBuffUDP \in [az : Azimuts, rg : Nat, alt : 0 .. 1023, girado : BOOLEAN]
  /\ pc \in {"lee", "barre"}
  /\ j \in 1 .. Len(prs) + 1 /\ (pc = "lee" => j = 1)

(* No two live targets are within the gate of each other: an object in the *)
(* beam is one entry of prs, however its echoes were interleaved with the  *)
(* other echoes, resynchronisations and height words.  This is also what   *)
(* keeps prs[1024] from overflowing, which the code never checks.          *)
Separados ==
  \A i, k \in DOMAIN prs :
    i # k => Modulo(prs[i].rangoinic, prs[k].rangoinic) > Puerta

(* Nothing inside the inhibited area becomes a target, apart from the      *)
(* range 0 that InicializaPr() leaves pending.                             *)
FueraDeInhibicion ==
  \A i \in DOMAIN prs :
    prs[i].rangoinic = 0 \/ prs[i].rangoinic - RG \in AREA_INHIBICION .. 4095

(* prs[1024] has room: the code appends without looking at indice, and is  *)
(* safe only because targets are Puerta + 1 counts apart in 4096 counts    *)
(* of range, plus the range 0.                                             *)
Casillas == 4095 \div (Puerta + 1) + 2

CabeEnPrs == Len(prs) <= Casillas

(* A pending echo is never lost on an azimuth or on another echo: once it  *)
(* is given up, a target in its gate has just been refreshed.  Only the    *)
(* range of a height drops it.                                             *)
EcoNoSePierde ==
  [][\/ bandera = 1
     \/ bandera' = 0 /\ rangoinic' = rangoinic
     \/ PrsAltura = 1 /\ pc = "lee" /\ aztant' = aztant
     \/ \E i \in DOMAIN prs' :
          /\ Modulo(prs'[i].rangoinic, rangoinic) <= Puerta
          /\ prs'[i].auscons = 0]_vars

(* prs never shrinks except through the end of a target in the ageing      *)
(* loop, one at a time, or a resynchronisation that forgets all of them;   *)
(* and no target is ever moved to another range.                           *)
SoloCaducan ==
  [][\A i \in DOMAIN prs :
       \/ \E k \in DOMAIN prs' : prs'[k].rangoinic = prs[i].rangoinic
                              /\ prs'[k].aztinic = prs[i].aztinic
       \/ prs' = <<>> /\ banderainic' = 1
       \/ pc = "barre" /\ i = j /\ prs[i].auscons = max_aus_cons - 1]_vars
=============================================================================
