------------------------------ MODULE Barrido ------------------------------
(***************************************************************************)
(* Primario behind a front end that loses nothing: the azimuths come one   *)
(* by one, and after each azimuth the echoes of some of the objects, in    *)
(* order of range, as the FPGA reads them out along a radar trigger.  In   *)
(* this environment Primario implements Deteccion: one plot per object     *)
(* and pass, at the middle of its presence, across the north mark too.     *)
(***************************************************************************)
EXTENDS Primario

CONSTANTS
  Rangos,      (* the ranges of the objects                               *)
  Arranque,    (* where the antenna may look when the program starts      *)
  AnchoMaximo  (* the most azimuths between an object's first and last    *)
               (* echo: less than a turn, or it would meet itself         *)

ASSUME BarridoAssumption ==
  /\ Arranque \subseteq Azimuts
  /\ AnchoMaximo \in 0 .. VUELTA - max_aus_cons - 1
  /\ Rangos \subseteq RG + AREA_INHIBICION .. RG + 4095
  /\ \A r, s \in Rangos : r # s => Modulo(r, s) > tolerancia

(* External: the antenna, an azimuth word per step of the turn. *)
Giro(w) ==
  /\ IF bandera_azt = 1 THEN w = AZ + ((aztant + 1) % VUELTA)
                        ELSE w - AZ \in Arranque
  /\ AzimutAceptado(w)

(* External: the receiver, echoes of one azimuth in order of range. *)
Receptor(r) ==
  /\ bandera = 0 => r > rangoinic
  /\ bandera_azt = 1
  /\ \A i \in DOMAIN prs :
       prs[i].rangoinic = r => (aztant - prs[i].aztinic) % VUELTA <= AnchoMaximo
  /\ PrimerEco(r) \/ OtroEco(r)

BNext ==
  \/ \E a \in Azimuts : Giro(AZ + a)
  \/ \E r \in Rangos : Receptor(r)
  \/ Barre

(* The main loop never stops polling, and the antenna never stops. *)
BSpec ==
  /\ Init /\ [][BNext]_vars
  /\ WF_vars(Barre)
  /\ WF_vars(\E a \in Azimuts : Giro(AZ + a))
-----------------------------------------------------------------------------
(***************************************************************************)
(* The presences that the state of Primario stands for.  A target already  *)
(* aged in this azimuth had its last echo auscons azimuths ago; one that   *)
(* the loop has not reached yet, one more.  A pending echo belongs to the  *)
(* current azimuth.                                                        *)
(***************************************************************************)
Pendiente(r) == bandera_azt = 1 /\ bandera = 0 /\ rangoinic = r

Ausencias(i) ==
  prs[i].auscons + IF pc = "barre" /\ i >= j THEN 1 ELSE 0

PresenciaDe(r) ==
  LET suyos == {i \in DOMAIN prs : prs[i].rangoinic = r}
      i == CHOOSE i \in suyos : TRUE
  IN  IF suyos = {} /\ ~Pendiente(r) THEN [ini |-> VUELTA, fin |-> VUELTA]
      ELSE [ini |-> IF suyos = {} THEN aztant ELSE prs[i].aztinic,
            fin |-> IF Pendiente(r) THEN aztant
                    ELSE (aztant - Ausencias(i)) % VUELTA]

(* The range 0 of the first pass is not an object: see InicializaPr. *)
PlotDe ==
  IF salida.tipo = "blanco" /\ salida.rg \in Rangos
  THEN [rg |-> salida.rg, az |-> salida.az]
  ELSE [rg |-> 0, az |-> VUELTA]

D == INSTANCE Deteccion WITH
       azimut    <- IF bandera_azt = 0 THEN VUELTA ELSE aztant,
       presencia <- [r \in Rangos |-> PresenciaDe(r)],
       plot      <- PlotDe

(* One plot per object and pass, with its true centre, and none invented   *)
(* or repeated; each ended presence is reported before the antenna moves   *)
(* on, and eventually.                                                     *)
ImplementaDeteccion == D!DSpec

(* What a comment says of the plots, and the code does not do.             *)

(* priwest2x_new.c:664, a plot goes to the transmission buffer whether or  *)
(* not a height is associated with it.                                     *)
PlotAlBuffer ==
  salida.tipo = "blanco" /\ salida.rg \in Rangos => salida.serie
=============================================================================
