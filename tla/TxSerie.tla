------------------------------ MODULE TxSerie ------------------------------
(***************************************************************************)
(* The serial output.  cabecera() and blancos() append the bytes of a      *)
(* frame to the ring Buff at iwr; the tail of the main loop waits for the  *)
(* transmitter to be empty and enables its interrupt; TxBuf() sends one    *)
(* byte from ird and disables the interrupt again.                         *)
(***************************************************************************)
EXTENDS Integers, Sequences, SequencesExt

CONSTANTS
  N,         (* bytes of the ring: 256, as iwr and ird are unsigned char   *)
  Tramas,    (* the frames: headers of 4 bytes, plots of 6                 *)
  Libre,     (* the transmitter is empty, LSR = 0x60                       *)
  Pronta,    (* TRUE: an interrupt is served before the next statement of  *)
             (* the main loop; FALSE: at any later time                    *)
  Lugar      (* most bytes waiting: the code has no such limit             *)

ASSUME TxSerieAssumption ==
  /\ N \in Nat /\ N > 1
  /\ \A t \in Tramas : t \in Seq(0 .. 255) /\ t # <<>>
  /\ Libre \notin 0 .. 255
  /\ Pronta \in BOOLEAN
  /\ Lugar \in Nat

VARIABLES
  Buff, iwr, ird,
  IER,       (* INTER1: the transmitter interrupt is enabled               *)
  transmisor,(* external: the byte the UART is sending, or Libre           *)
  pc         (* the main loop: "procesa" a word, "mira" iwr!=ird, "espera" *)
             (* the LSR, "habilita" the interrupt                          *)

vars == <<Buff, iwr, ird, IER, transmisor, pc>>

Init ==
  /\ Buff = [i \in 0 .. N - 1 |-> 0] /\ iwr = 0 /\ ird = 0
  /\ IER = FALSE
  /\ transmisor = Libre
  /\ pc = "procesa"
-----------------------------------------------------------------------------
EnCola == (iwr - ird) % N

(* The interrupt line is up. *)
Interrumpe == IER /\ transmisor = Libre

(* The main loop runs. *)
Corre(estado) == pc = estado /\ ~(Pronta /\ Interrumpe)

(* Primario() queues the frame of a header or of a plot.  A word may queue *)
(* several; the loop takes one byte out per iteration.                     *)
Encola(t) ==
  /\ Corre("procesa")
  /\ EnCola + Len(t) <= Lugar
  /\ Buff' = [i \in 0 .. N - 1 |->
                LET k == (i - iwr) % N IN IF k < Len(t) THEN t[k + 1] ELSE Buff[i]]
  /\ iwr' = (iwr + Len(t)) % N
  /\ UNCHANGED <<ird, IER, transmisor, pc>>

(* The word of this iteration, if any, is done. *)
FinProcesa ==
  /\ Corre("procesa")
  /\ pc' = "mira"
  /\ UNCHANGED <<Buff, iwr, ird, IER, transmisor>>

Mira ==
  /\ Corre("mira")
  /\ pc' = IF iwr # ird THEN "espera" ELSE "procesa"
  /\ UNCHANGED <<Buff, iwr, ird, IER, transmisor>>

(* while(((inp(LSR1))&0x60) != 0x60) *)
Espera ==
  /\ Corre("espera")
  /\ transmisor = Libre
  /\ pc' = "habilita"
  /\ UNCHANGED <<Buff, iwr, ird, IER, transmisor>>

HabilitaVacio ==               (* mutant: INTER1 is not written *)
  /\ Corre("habilita")
  /\ pc' = "procesa"
  /\ UNCHANGED <<Buff, iwr, ird, IER, transmisor>>

Habilita ==
  /\ Corre("habilita")
  /\ IER' = TRUE
  /\ pc' = "procesa"
  /\ UNCHANGED <<Buff, iwr, ird, transmisor>>

TxBufSinApagar ==              (* mutant: INTER1 stays enabled *)
  /\ Interrumpe
  /\ transmisor' = Buff[ird]
  /\ ird' = (ird + 1) % N
  /\ UNCHANGED <<Buff, iwr, IER, pc>>

(* The interrupt routine does not look at iwr. *)
TxBuf ==
  /\ Interrumpe
  /\ transmisor' = Buff[ird]
  /\ ird' = (ird + 1) % N
  /\ IER' = FALSE
  /\ UNCHANGED <<Buff, iwr, pc>>

(* External: the UART has sent the byte. *)
SaleByte ==
  /\ transmisor # Libre
  /\ transmisor' = Libre
  /\ UNCHANGED <<Buff, iwr, ird, IER, pc>>

Bucle == FinProcesa \/ Mira \/ Espera \/ Habilita

Next == (\E t \in Tramas : Encola(t)) \/ Bucle \/ TxBuf \/ SaleByte

(* The program never stops, interrupts are served, the UART sends. *)
Spec ==
  /\ Init /\ [][Next]_vars
  /\ WF_vars(Bucle) /\ WF_vars(TxBuf) /\ WF_vars(SaleByte)
-----------------------------------------------------------------------------
TypeOK ==
  /\ Buff \in [0 .. N - 1 -> 0 .. 255]
  /\ iwr \in 0 .. N - 1 /\ ird \in 0 .. N - 1
  /\ IER \in BOOLEAN
  /\ transmisor \in 0 .. 255 \cup {Libre}
  /\ pc \in {"procesa", "mira", "espera", "habilita"}

(* The interrupt is never up with nothing to send: TxBuf(), which does not *)
(* look, would send an old byte and leave ird one ahead of iwr, and the    *)
(* whole ring would follow.                                                *)
NuncaEnVacio == Interrumpe => iwr # ird

(* Why: from the test of iwr to the interrupt nobody else takes a byte.    *)
HayQueMandar ==
  /\ pc \in {"espera", "habilita"} => iwr # ird /\ ~IER
  /\ pc = "habilita" => transmisor = Libre
  /\ IER => pc = "procesa" /\ transmisor = Libre /\ iwr # ird

C == INSTANCE ColaBytes WITH
       cola  <- [i \in 1 .. EnCola |-> Buff[(ird + i - 1) % N]],
       linea <- transmisor

(* The frames leave whole, in order, once, and all of them leave.          *)
ImplementaCola == C!CSpec
=============================================================================
