------------------------------ MODULE CtrlFifo ------------------------------
(***************************************************************************)
(* The gate between the FPGA's FIFO and the tracker: ChkFlag() looks at    *)
(* the status of the FIFO, GetDato() takes a word and CtrlDato() decides   *)
(* whether Primario() sees it.  Whatever is wrong, the answer is the same: *)
(* ResetFifo() empties the FIFO and a new session begins (FlagIni = 0),    *)
(* whose first word is believed.  AzAnt survives the session.              *)
(* The component is open: any words may arrive.  Antena feeds it with the  *)
(* words of a working radar.                                               *)
(***************************************************************************)
EXTENDS Palabra, SequencesExt

CONSTANTS
  Capacidad,   (* words the FIFO holds                                     *)
  Palabras     (* the words that may arrive, good or bad                   *)

MaxPalabra == 65535

(* External: sixteen bits, whose azimuths are those of the turn. *)
Legibles == {w \in 1 .. MaxPalabra : EsAzimut(w) => w - AZ \in Azimuts}

ASSUME CtrlFifoAssumption ==
  /\ Capacidad \in Nat /\ Capacidad > 1
  /\ Palabras \subseteq Legibles

VARIABLES
  fifo,      (* external: the words waiting in the FIFO, unless it is full *)
  lleno,     (* external: it is full; nobody will read what it holds       *)
  FlagIni,   (* 1: a session is open                                       *)
  DatoAnt,   (* the last word that passed                                  *)
  AzAnt,     (* the last azimuth seen, passed or not                       *)
  lectura,   (* the word this step hands to Primario(), or Ninguna         *)
  pide,      (* this step sets banderainic                                 *)
  ultimo     (* history: the last azimuth handed over in this session      *)

control == <<FlagIni, DatoAnt, AzAnt>>
vars == <<fifo, lleno, control, lectura, pide, ultimo>>

Ninguna == 0

Init ==
  /\ fifo = <<>> /\ lleno = FALSE
  /\ FlagIni = 0 /\ DatoAnt = 0 /\ AzAnt = 0
  /\ lectura = Ninguna /\ pide = FALSE
  /\ ultimo = Ninguna
-----------------------------------------------------------------------------
(***************************************************************************)
(* One iteration of the main loop.                                         *)
(***************************************************************************)

(* ResetFifo() and the end of the session. *)
Reinicia ==
  /\ fifo' = <<>> /\ lleno' = FALSE
  /\ FlagIni' = 0
  /\ lectura' = Ninguna
  /\ ultimo' = Ninguna

(* ChkFlag(): the FIFO is full, something may have been lost. *)
Desborde ==
  /\ lleno
  /\ Reinicia
  /\ pide' = FALSE
  /\ UNCHANGED <<DatoAnt, AzAnt>>

(* External: the FPGA answers 0x02 when the FIFO is full, 0x01 (EMPTY) when *)
(* it is empty and 0x00 between, the three answers ChkFlag() tells apart.   *)
(* Fifo2.h also names HALF, 0x0003, which no code reads: an FPGA that       *)
(* answered it would not be read from there until the FIFO overflows.       *)
HayDato == ~lleno /\ fifo # <<>>
Dato    == Head(fifo)

Pasa ==
  /\ fifo' = Tail(fifo)
  /\ UNCHANGED lleno
  /\ lectura' = Dato
  /\ pide' = FALSE
  /\ ultimo' = IF EsAzimut(Dato) THEN Dato ELSE ultimo

(* ERROR0: the tag is none of the three. *)
ErrorClase ==
  /\ HayDato /\ ~EsValida(Dato)
  /\ Reinicia
  /\ pide' = FALSE
  /\ UNCHANGED <<DatoAnt, AzAnt>>

(* The first word of a session is not compared with anything. *)
PrimerDato ==
  /\ HayDato /\ EsValida(Dato) /\ FlagIni = 0
  /\ AzAnt' = IF EsAzimut(Dato) THEN Dato ELSE AzAnt
  /\ DatoAnt' = Dato
  /\ FlagIni' = 1
  /\ Pasa

CambioDeVueltaAncho(a, d) ==   (* mutant: sector 14 is before north too *)
  a - AZ >= 14 * (VUELTA \div 16) /\ d - AZ < VUELTA \div 16

(* The azimuth goes back, and not from sector 15 to sector 0.  AzAnt is    *)
(* 0 or an azimuth word, so masking it with 0x8FFF changes nothing.        *)
CambioDeVuelta(a, d) ==
  a - AZ >= 15 * (VUELTA \div 16) /\ d - AZ < VUELTA \div 16

RetrocedeMenor(d) == d < AzAnt /\ ~CambioDeVuelta(AzAnt, d)  (* mutant: < *)

Retrocede(d) == d <= AzAnt /\ ~CambioDeVuelta(AzAnt, d)

ErrorAzimutOlvida ==           (* mutant: AzAnt is left as it was *)
  /\ HayDato /\ EsAzimut(Dato) /\ FlagIni = 1 /\ Retrocede(Dato)
  /\ Reinicia
  /\ pide' = FALSE
  /\ UNCHANGED <<DatoAnt, AzAnt>>

(* ERROR1. *)
ErrorAzimut ==
  /\ HayDato /\ EsAzimut(Dato) /\ FlagIni = 1 /\ Retrocede(Dato)
  /\ AzAnt' = Dato
  /\ Reinicia
  /\ pide' = FALSE
  /\ UNCHANGED DatoAnt

(* ERROR2: a height that no range follows.  An azimuth has already         *)
(* replaced DatoAnt when the code looks at it, so only another height is   *)
(* refused.                                                                *)
ErrorAltura ==
  /\ HayDato /\ EsAltura(Dato) /\ FlagIni = 1 /\ EsAltura(DatoAnt)
  /\ Reinicia
  /\ pide' = TRUE
  /\ UNCHANGED <<DatoAnt, AzAnt>>

DatoBueno ==
  /\ HayDato /\ EsValida(Dato) /\ FlagIni = 1
  /\ EsAzimut(Dato) => ~Retrocede(Dato)
  /\ EsAltura(Dato) => ~EsAltura(DatoAnt)
  /\ AzAnt' = IF EsAzimut(Dato) THEN Dato ELSE AzAnt
  /\ DatoAnt' = Dato
  /\ Pasa
  /\ UNCHANGED FlagIni

Pierde  == Desborde \/ ErrorClase
Rechaza == ErrorAzimut \/ ErrorAltura
Sondea  == Pierde \/ Rechaza \/ PrimerDato \/ DatoBueno
-----------------------------------------------------------------------------
(* External: a word arrives.  The last that fits fills the FIFO, which the *)
(* next ChkFlag() empties unread; until then the words that come are lost. *)
Llega(w) ==
  /\ lleno' = (lleno \/ Len(fifo) = Capacidad - 1)
  /\ fifo' = IF lleno' THEN <<>> ELSE Append(fifo, w)
  /\ lectura' = Ninguna /\ pide' = FALSE
  /\ UNCHANGED <<control, ultimo>>

Next ==
  \/ Sondea
  \/ \E w \in Palabras : Llega(w)

Spec == Init /\ [][Next]_vars
-----------------------------------------------------------------------------
TypeOK ==
  /\ fifo \in Seq(Legibles) /\ Len(fifo) < Capacidad
  /\ lleno \in BOOLEAN
  /\ FlagIni \in {0, 1}
  /\ {DatoAnt, lectura, ultimo} \subseteq Legibles \cup {0}
  /\ AzAnt = 0 \/ (AzAnt \in Legibles /\ EsAzimut(AzAnt))
  /\ pide \in BOOLEAN

(* Within a session, the azimuths handed to Primario() go forward, or from *)
(* sector 15 to sector 0: neither the words refused in between nor the     *)
(* AzAnt left by earlier sessions let one go back.                         *)
SesionCreciente ==
  [][EsAzimut(lectura') /\ ultimo # Ninguna =>
       lectura' > ultimo \/ CambioDeVuelta(ultimo, lectura')]_vars
=============================================================================
