------------------------------ MODULE Palabra ------------------------------
(***************************************************************************)
(* The 16-bit words the FPGA puts in the FIFO, and the arithmetic the      *)
(* extractor does on them.  A word carries its class in the top nibble:    *)
(*   0x8xxx  azimuth   (VUELTA = 4096 steps per turn of the antenna)       *)
(*   0x3xxx  range                                                         *)
(*   0xCxxx  height                                                        *)
(* Words are kept as integers, with the prefix; the C expressions          *)
(* (w & 0xf000) == p become membership of an interval, w & 0x0fff becomes  *)
(* subtraction of the prefix.                                              *)
(***************************************************************************)
EXTENDS Integers, Sequences

CONSTANTS
  VUELTA,         (* azimuth steps per turn: max_vuelta, 4096 in the code  *)
  tolerancia,     (* range gate, 9 in the code                             *)
  max_aus_cons,   (* azimuths without an echo that end a target, 5         *)
  blancocorto     (* narrowest target that is reported, 3                  *)

(* VUELTA is a multiple of the 16 sectors so that a turn may be scaled     *)
(* down for TLC; the other three are the #define's of Primari1.h.          *)
ASSUME PalabraAssumption ==
  /\ VUELTA \in 16 .. 4096
  /\ VUELTA % 16 = 0
  /\ tolerancia \in Nat
  /\ max_aus_cons \in Nat \ {0}
  /\ blancocorto \in Nat

AZ  == 32768
RG  == 12288
ALT == 49152

EsAzimut(w) == w \in AZ .. AZ + 4095
EsRango(w)  == w \in RG .. RG + 4095
EsAltura(w) == w \in ALT .. ALT + 4095
EsValida(w) == EsAzimut(w) \/ EsRango(w) \/ EsAltura(w)

(* Azimuth values, without the prefix. *)
Azimuts == 0 .. VUELTA - 1

(* modulo = |x - y|, the ~/++ of the three correlation loops. *)
Modulo(x, y) == IF x < y THEN y - x ELSE x - y

(* tolerancia >> 1: the gate in which two ranges are the same target. *)
Puerta == tolerancia \div 2

(* (a & 0x0f00) >> 8: one of the 16 sectors of the turn. *)
Sector(a) == (16 * a) \div VUELTA

(* Centre and width of a target first seen at azimuth ini, computed at     *)
(* azimuth act, max_aus_cons azimuths after its last echo.  The end of the *)
(* target may fall before the north mark and come out negative: >> is an   *)
(* arithmetic shift, so \div (which rounds down) is the same operation.    *)
AztFinal(act) == act - max_aus_cons

CentroSinNorte(ini, act) == (ini + AztFinal(act)) \div 2  (* mutant: no wrap *)

Centro(ini, act) ==
  LET prom == (ini + AztFinal(act)) \div 2
  IN  IF AztFinal(act) < ini THEN (prom + VUELTA \div 2) % VUELTA ELSE prom

Ancho(ini, act) ==
  IF AztFinal(act) < ini THEN AztFinal(act) + VUELTA - ini ELSE AztFinal(act) - ini
=============================================================================
