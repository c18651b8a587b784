-------------------------------- MODULE Com3 --------------------------------
(***************************************************************************)
(* Heights from COM3: the receive interrupt intRxCom3() fills a ring, and  *)
(* lee_altura() takes one byte per iteration of the main loop, slides it   *)
(* into a window of eight (bu1..bu8) and looks for a packet               *)
(*     FF FF azL 8.azH rgL 3.rgH altL C.altH                               *)
(* in it.  A packet raises Flag_alt, which stops the polling until the     *)
(* tracker has used the height.                                            *)
(***************************************************************************)
EXTENDS Integers, Sequences, SequencesExt

CONSTANTS
  N,          (* bytes of the ring: 256, the mask 0xFF                     *)
  Paquetes,   (* the packets of the height finder                          *)
  EsperaMax   (* most bytes left waiting in the ring                       *)

Byte == 0 .. 255

ASSUME Com3Assumption ==
  /\ N \in Nat /\ N > 0 /\ N % 8 = 0
  /\ \A p \in Paquetes : p \in Seq(Byte) /\ Len(p) = 8
  /\ EsperaMax \in Nat

VARIABLES
  InBuff, IndWr, IndRd,    (* the ring                                     *)
  bu,                      (* <<bu1, ..., bu7>>, the last seven bytes      *)
  ok1, ok2, ok3,           (* azimuth, range and height have been seen     *)
  sector_alt, rango_alt,   (* the position; rango_alt stands for X_alt and *)
  alt_alt,                 (* Y_alt.  The height                           *)
  Flag_alt,                (* 1: a height waits for its plot               *)
  envio,                   (* external: what is left of the packet on the  *)
                           (* line                                         *)
  (* what the properties remember *)
  sinLeer,                 (* bytes received and not read                  *)
  cola                     (* packets begun and not delivered              *)

anillo  == <<InBuff, IndWr, IndRd>>
oks     == <<ok1, ok2, ok3>>
dato    == <<sector_alt, rango_alt, alt_alt>>
vars    == <<anillo, bu, oks, dato, Flag_alt, envio, sinLeer, cola>>

(* The program may start in the middle of a packet. *)
Init ==
  /\ InBuff = [i \in 0 .. N - 1 |-> 0] /\ IndWr = 0 /\ IndRd = 0
  /\ bu = <<0, 0, 0, 0, 0, 0, 0>>
  /\ ok1 = FALSE /\ ok2 = FALSE /\ ok3 = FALSE
  /\ sector_alt = 0 /\ rango_alt = 0 /\ alt_alt = 0 /\ Flag_alt = 0
  /\ envio \in {SubSeq(p, k, 8) : p \in Paquetes, k \in 2 .. 9}
  /\ sinLeer = 0 /\ cola = <<>>
-----------------------------------------------------------------------------
(* External: the height finder begins a packet. *)
Empieza(p) ==
  /\ envio = <<>>
  /\ envio' = p
  /\ cola' = Append(cola, p)
  /\ UNCHANGED <<anillo, bu, oks, dato, Flag_alt, sinLeer>>

avanza(k) == (k + 1) % N

RecibeCorto ==                 (* mutant: the ring is one byte short *)
  /\ envio # <<>> /\ sinLeer < EsperaMax
  /\ InBuff' = [InBuff EXCEPT ![IndWr] = Head(envio)]
  /\ IndWr' = (IndWr + 1) % (N - 1)
  /\ envio' = Tail(envio)
  /\ sinLeer' = sinLeer + 1
  /\ UNCHANGED <<IndRd, bu, oks, dato, Flag_alt, cola>>

(* intRxCom3(): there is no test for a full ring. *)
Recibe ==
  /\ envio # <<>> /\ sinLeer < EsperaMax
  /\ InBuff' = [InBuff EXCEPT ![IndWr] = Head(envio)]
  /\ IndWr' = avanza(IndWr)
  /\ envio' = Tail(envio)
  /\ sinLeer' = sinLeer + 1
  /\ UNCHANGED <<IndRd, bu, oks, dato, Flag_alt, cola>>
-----------------------------------------------------------------------------
(* lee_altura(). *)
Ventana == Append(bu, InBuff[IndRd])
Marco   == Ventana[1] = 255 /\ Ventana[2] = 255
Clase(i, c) == Marco /\ Ventana[i] \div 16 = c
HayAz  == Clase(4, 8)
HayRg  == Clase(6, 3)
HayAlt == Clase(8, 12)

(* Ten bits from two bytes. *)
Diez(alto, bajo) == (alto % 4) * 256 + bajo

Completo == Marco /\ (ok1 \/ HayAz) /\ (ok2 \/ HayRg) /\ (ok3 \/ HayAlt)

(* az_alt and intrgo are locals without a value: if ok1 or ok2 come from   *)
(* an earlier call, what this call reads in them is anything.  Basura is   *)
(* a range no packet has.                                                  *)
Basura == 1024

MarcaOkSinBorrar ==            (* mutant: ok1..3 are not cleared *)
  /\ ok1' = (ok1 \/ HayAz)
  /\ ok2' = (ok2 \/ HayRg)
  /\ ok3' = (ok3 \/ HayAlt)

MarcaOk ==
  /\ ok1' = (~Completo /\ (ok1 \/ HayAz))
  /\ ok2' = (~Completo /\ (ok2 \/ HayRg))
  /\ ok3' = (~Completo /\ (ok3 \/ HayAlt))

LeeByte ==
  /\ Flag_alt = 0
  /\ IndWr # IndRd
  /\ alt_alt' = IF HayAlt THEN Diez(Ventana[8], Ventana[7]) ELSE alt_alt
  /\ MarcaOk
  /\ IF Completo
     THEN /\ sector_alt' \in IF HayAz THEN {Ventana[4] % 16} ELSE 0 .. 15
          /\ rango_alt' = IF HayRg THEN Diez(Ventana[6], Ventana[5]) ELSE Basura
          /\ Flag_alt' = 1
          /\ cola' = IF cola = <<>> THEN <<>> ELSE Tail(cola)
     ELSE UNCHANGED <<sector_alt, rango_alt, Flag_alt, cola>>
  /\ bu' = Tail(Ventana)
  /\ IndRd' = avanza(IndRd)
  /\ sinLeer' = sinLeer - 1
  /\ UNCHANGED <<InBuff, IndWr, envio>>

(* External: Primario() has a plot near the height, Primario!CaducaBlanco. *)
UsaAltura ==
  /\ Flag_alt = 1
  /\ Flag_alt' = 0
  /\ UNCHANGED <<anillo, bu, oks, dato, envio, sinLeer, cola>>

Next ==
  \/ \E p \in Paquetes : Empieza(p)
  \/ Recibe \/ LeeByte \/ UsaAltura

Spec == Init /\ [][Next]_vars
-----------------------------------------------------------------------------
TypeOK ==
  /\ InBuff \in [0 .. N - 1 -> Byte]
  /\ IndWr \in 0 .. N - 1 /\ IndRd \in 0 .. N - 1
  /\ bu \in Seq(Byte) /\ Len(bu) = 7
  /\ ok1 \in BOOLEAN /\ ok2 \in BOOLEAN /\ ok3 \in BOOLEAN
  /\ sector_alt \in 0 .. 15 /\ rango_alt \in 0 .. Basura /\ alt_alt \in 0 .. 1023
  /\ Flag_alt \in {0, 1}

Entrega == Flag_alt = 0 /\ Flag_alt' = 1

Datos(p) == <<p[4] % 16, Diez(p[6], p[5]), Diez(p[8], p[7])>>

(* Heights are delivered in the order of their packets, each with its own  *)
(* azimuth, range and height: the windows that are out of step with the    *)
(* packets, and what they leave in ok1..3, deliver nothing.                *)
EntregaEnOrden ==
  [][Entrega => /\ cola # <<>>
                /\ <<sector_alt', rango_alt', alt_alt'>> = Datos(Head(cola))]_vars

(* No packet is missed: once everything sent has been read, every packet   *)
(* that began has been delivered.                                          *)
NadaSeQueda == envio = <<>> /\ IndWr = IndRd => cola = <<>>
=============================================================================
