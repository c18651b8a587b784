---------------------------- MODULE Direcciones ----------------------------
(***************************************************************************)
(* Addresses and numbers in text, bsdsock/socket.c: inet_addr(),           *)
(* inet_ntoa(), inet_ntop() and the byte order.  A text is the sequence of *)
(* its numbers, or of its numbers and separators; digits are left out.     *)
(***************************************************************************)
EXTENDS Integers, SequencesExt

CONSTANT BYTE    (* values of a byte, 256                                  *)

ASSUME DireccionesAssumption == BYTE \in Nat /\ BYTE > 1

WORD  == BYTE * BYTE
DWORD == WORD * WORD

htons(n) == (n % BYTE) * BYTE + n \div BYTE
ntohs(n) == htons(n)

(* What n bytes hold. *)
Cabida(n) == <<1, BYTE, WORD, WORD * BYTE, DWORD>>[n + 1]

(* The byte i of a DWORD, the lowest first. *)
ByteDe(n, i) == (n \div Cabida(i)) % BYTE

INADDR_NONE == <<BYTE - 1, BYTE - 1, BYTE - 1, BYTE - 1>>

(* The address, the first byte on the wire first, of the numbers between   *)
(* the dots.  They are kept in 32 bits; one that is not there is 0.  What  *)
(* has a letter is INADDR_NONE and is left out.                            *)
inet_addrAlReves(numeros) ==    (* mutant: the last part, lowest byte first *)
  LET parte == [i \in DOMAIN numeros |-> numeros[i] % DWORD]
      dots  == Len(numeros) - 1
  IN  IF \/ dots > 3
         \/ \E i \in 1 .. dots : parte[i] > BYTE - 1
         \/ parte[dots + 1] > Cabida(4 - dots) - 1
      THEN INADDR_NONE
      ELSE [b \in 1 .. 4 |-> IF b <= dots THEN parte[b] ELSE ByteDe(parte[dots + 1], b - 1 - dots)]

inet_addr(numeros) ==
  LET parte == [i \in DOMAIN numeros |-> numeros[i] % DWORD]
      dots  == Len(numeros) - 1
  IN  IF \/ dots > 3
         \/ \E i \in 1 .. dots : parte[i] > BYTE - 1
         \/ parte[dots + 1] > Cabida(4 - dots) - 1
      THEN INADDR_NONE
      ELSE [b \in 1 .. 4 |-> IF b <= dots THEN parte[b] ELSE ByteDe(parte[dots + 1], 4 - b)]

inet_ntoa(dir) == dir
-----------------------------------------------------------------------------
(***************************************************************************)
(* inet_ntop() of an IPv6 address, a sequence of 8 words.                  *)
(***************************************************************************)
DosPuntos == -1

(* The loop that looks for zeros, words counted from 0: ini and num are    *)
(* the run kept, desde (-1, none) and van the current one.  Word 8, past   *)
(* the end, closes the last run.                                           *)
Racha(a) ==
  FoldLeft(LAMBDA r, i :
             IF i < 8 /\ a[i + 1] = 0
             THEN [r EXCEPT !.van = @ + 1, !.desde = IF @ < 0 THEN i ELSE @]
             ELSE LET mejor == r.van > r.num IN
                  [num |-> IF mejor THEN r.van ELSE r.num,
                   ini |-> IF mejor THEN r.desde ELSE r.ini,
                   van |-> 0, desde |-> -1],
           [num |-> 0, ini |-> 0, van |-> 0, desde |-> -1],
           [k \in 1 .. 9 |-> k - 1])

PalabraSinDoble(a, i) ==        (* mutant: one ":" when the run comes first *)
  LET r == Racha(a) IN
  CASE a[i + 1] = 0 /\ i > r.ini /\ i <= r.ini + r.num -> <<>>
    [] a[i + 1] = 0 /\ i = r.ini -> <<DosPuntos>>
    [] OTHER -> IF i = 7 THEN <<a[i + 1]>> ELSE <<a[i + 1], DosPuntos>>

(* What the word i prints: nothing inside the run; where it begins, the    *)
(* second ":" of the pair, and the first one too if nothing was before it. *)
Palabra(a, i) ==
  LET r == Racha(a) IN
  CASE a[i + 1] = 0 /\ i > r.ini /\ i <= r.ini + r.num -> <<>>
    [] a[i + 1] = 0 /\ i = r.ini ->
         IF i = 0 THEN <<DosPuntos, DosPuntos>> ELSE <<DosPuntos>>
    [] OTHER -> IF i = 7 THEN <<a[i + 1]>> ELSE <<a[i + 1], DosPuntos>>

inet_ntop(a) == FlattenSeq([k \in 1 .. 8 |-> Palabra(a, k - 1)])
=============================================================================
