----------------------------- MODULE Com3Proofs -----------------------------
(* Invariance proof for Com3, for every ring and set of packets.           *)
EXTENDS Com3, SequenceTheorems, TLAPS

LEMMA Resto == ASSUME NEW a \in Int, NEW n \in Nat, n > 0
               PROVE  a % n \in 0 .. n - 1
  OBVIOUS

LEMMA Elemento == ASSUME NEW S, NEW s \in Seq(S), NEW j \in 1 .. Len(s)
                  PROVE  s[j] \in S
  OBVIOUS

(* A byte slides into a window that is never empty. *)
LEMMA Desliza ==
  ASSUME NEW S, NEW s \in Seq(S), NEW x \in S
  PROVE  /\ Append(s, x) \in Seq(S) /\ Len(Append(s, x)) = Len(s) + 1
         /\ Tail(Append(s, x)) \in Seq(S) /\ Len(Tail(Append(s, x))) = Len(s)
<1>1. Append(s, x) \in Seq(S) /\ Len(Append(s, x)) = Len(s) + 1
  OBVIOUS
<1>2. Len(Append(s, x)) # 0
  BY <1>1
<1>3. Tail(Append(s, x)) \in Seq(S) /\ Len(Tail(Append(s, x))) = Len(Append(s, x)) - 1
  <2> DEFINE r == Append(s, x)
  <2>1. r \in Seq(S) /\ Len(r) # 0
    BY <1>1, <1>2
  <2> HIDE DEF r
  <2>2. r # <<>>
    BY <2>1
  <2>3. Tail(r) \in Seq(S) /\ Len(Tail(r)) = Len(r) - 1
    BY <2>1, <2>2
  <2> QED
    BY <2>3 DEF r
<1> QED
  BY <1>1, <1>3

LEMMA Anade ==
  ASSUME NEW S, NEW s \in Seq(S), NEW x \in S
  PROVE  /\ \A i \in 1 .. Len(s) : Append(s, x)[i] = s[i]
         /\ Append(s, x)[Len(s) + 1] = x
  OBVIOUS

LEMMA Trozo ==
  ASSUME NEW S, NEW s \in Seq(S), NEW k \in 1 .. Len(s) + 1
  PROVE  SubSeq(s, k, Len(s)) \in Seq(S)
  OBVIOUS

LEMMA Anillo == N \in Nat /\ N > 0
  BY Com3Assumption

(* Ten bits, whatever the two bytes. *)
LEMMA DiezBits ==
  ASSUME NEW a \in Byte, NEW b \in Byte
  PROVE  Diez(a, b) \in 0 .. 1023
<1>1. a \in Int /\ b \in Int /\ 0 <= b /\ b <= 255
  BY DEF Byte
<1>2. a % 4 \in 0 .. 3
  BY <1>1, Resto
<1> QED
  BY <1>1, <1>2 DEF Diez
-----------------------------------------------------------------------------
(* What is left of the packet on the line is bytes.                        *)
EnvioBien == envio \in Seq(Byte)

LEMMA Empezado == Init => TypeOK /\ EnvioBien
<1> SUFFICES ASSUME Init
             PROVE  TypeOK /\ EnvioBien
  OBVIOUS
<1>1. InBuff \in [0 .. N - 1 -> Byte] /\ IndWr \in 0 .. N - 1 /\ IndRd \in 0 .. N - 1
  BY Anillo DEF Init, Byte
<1>2. bu \in Seq(Byte) /\ Len(bu) = 7
  BY DEF Init, Byte
<1>3. EnvioBien
  <2>1. PICK p \in Paquetes, k \in 2 .. 9 : envio = SubSeq(p, k, 8)
    BY DEF Init
  <2>2. p \in Seq(Byte) /\ Len(p) = 8
    BY Com3Assumption
  <2>3. SubSeq(p, k, Len(p)) \in Seq(Byte)
    <3>1. k \in 1 .. Len(p) + 1
      BY <2>2
    <3> QED
      BY <2>2, <3>1, Trozo
  <2> QED
    BY <2>1, <2>2, <2>3 DEF EnvioBien
<1>4. sector_alt \in 0 .. 15 /\ rango_alt \in 0 .. Basura /\ alt_alt \in 0 .. 1023
  BY DEF Init, Basura
<1>5. ok1 \in BOOLEAN /\ ok2 \in BOOLEAN /\ ok3 \in BOOLEAN /\ Flag_alt \in {0, 1}
  BY DEF Init
<1> QED
  BY <1>1, <1>2, <1>3, <1>4, <1>5 DEF TypeOK

(* The interrupt stores a byte in a place of the ring.                     *)
LEMMA PasoRecibe ==
  TypeOK /\ EnvioBien /\ Recibe => TypeOK' /\ EnvioBien'
<1> SUFFICES ASSUME TypeOK, EnvioBien, Recibe
             PROVE  TypeOK' /\ EnvioBien'
  OBVIOUS
<1>1. Head(envio) \in Byte /\ Tail(envio) \in Seq(Byte)
  BY DEF EnvioBien, Recibe
<1>2. InBuff' \in [0 .. N - 1 -> Byte]
  BY <1>1 DEF TypeOK, Recibe
<1>3. IndWr' \in 0 .. N - 1
  <2>1. IndWr + 1 \in Int
    BY Anillo DEF TypeOK
  <2> QED
    BY <2>1, Anillo, Resto DEF Recibe, avanza
<1>4. UNCHANGED <<IndRd, bu, ok1, ok2, ok3, sector_alt, rango_alt, alt_alt, Flag_alt>>
      /\ envio' = Tail(envio)
  BY DEF Recibe, oks, dato
<1> QED
  BY <1>1, <1>2, <1>3, <1>4 DEF TypeOK, EnvioBien

(* Whatever the window holds, what lee_altura() takes out of it is in the  *)
(* range of a sector, of a distance and of a height.                       *)
LEMMA PasoLeeByte ==
  TypeOK /\ EnvioBien /\ LeeByte => TypeOK' /\ EnvioBien'
<1> SUFFICES ASSUME TypeOK, EnvioBien, LeeByte
             PROVE  TypeOK' /\ EnvioBien'
  OBVIOUS
<1>1. InBuff[IndRd] \in Byte
  BY DEF TypeOK
<1>2. /\ Ventana \in Seq(Byte) /\ Len(Ventana) = 8
      /\ Tail(Ventana) \in Seq(Byte) /\ Len(Tail(Ventana)) = 7
  <2>1. bu \in Seq(Byte) /\ Len(bu) = 7
    BY DEF TypeOK
  <2> DEFINE x == InBuff[IndRd]
  <2>2. x \in Byte
    BY <1>1
  <2> HIDE DEF x
  <2>3. /\ Append(bu, x) \in Seq(Byte) /\ Len(Append(bu, x)) = Len(bu) + 1
        /\ Tail(Append(bu, x)) \in Seq(Byte) /\ Len(Tail(Append(bu, x))) = Len(bu)
    BY <2>1, <2>2, Desliza
  <2>4. Ventana = Append(bu, x)
    BY DEF Ventana, x
  <2> QED
    BY <2>1, <2>3, <2>4
<1>3. \A i \in 1 .. 8 : Ventana[i] \in Byte
  BY <1>2, Elemento
<1>4. alt_alt' \in 0 .. 1023
  <2>1. Diez(Ventana[8], Ventana[7]) \in 0 .. 1023
    BY <1>3, DiezBits
  <2> QED
    BY SMTT(40), <2>1 DEF LeeByte, TypeOK
<1>5. sector_alt' \in 0 .. 15
  <2>1. Ventana[4] % 16 \in 0 .. 15
    BY <1>3, Resto DEF Byte
  <2>2. \/ sector_alt' = sector_alt
        \/ sector_alt' \in IF HayAz THEN {Ventana[4] % 16} ELSE 0 .. 15
    BY DEF LeeByte
  <2>3. sector_alt \in 0 .. 15
    BY DEF TypeOK
  <2> QED
    BY <2>1, <2>2, <2>3
<1>6. rango_alt' \in 0 .. Basura
  <2>1. Diez(Ventana[6], Ventana[5]) \in 0 .. 1023
    BY <1>3, DiezBits
  <2>2. rango_alt' \in {rango_alt, Diez(Ventana[6], Ventana[5]), Basura}
    BY DEF LeeByte
  <2>3. rango_alt \in 0 .. Basura
    BY DEF TypeOK
  <2> QED
    BY <2>1, <2>2, <2>3 DEF Basura
<1>7. IndRd' \in 0 .. N - 1
  <2>1. IndRd + 1 \in Int
    BY Anillo DEF TypeOK
  <2> QED
    BY <2>1, Anillo, Resto DEF LeeByte, avanza
<1>8. ok1' \in BOOLEAN /\ ok2' \in BOOLEAN /\ ok3' \in BOOLEAN
  BY DEF LeeByte, MarcaOk
<1>9. Flag_alt' \in {0, 1}
  BY DEF LeeByte, TypeOK
<1>10. bu' \in Seq(Byte) /\ Len(bu') = 7
  BY <1>2 DEF LeeByte
<1>11. InBuff' = InBuff /\ IndWr' = IndWr /\ envio' = envio
  BY DEF LeeByte
<1> QED
  BY <1>4, <1>5, <1>6, <1>7, <1>8, <1>9, <1>10, <1>11 DEF TypeOK, EnvioBien

LEMMA PasoTipo == TypeOK /\ EnvioBien /\ [Next]_vars => TypeOK' /\ EnvioBien'
<1> SUFFICES ASSUME TypeOK, EnvioBien, [Next]_vars
             PROVE  TypeOK' /\ EnvioBien'
  OBVIOUS
<1>1. ASSUME NEW p \in Paquetes, Empieza(p)
      PROVE  TypeOK' /\ EnvioBien'
  <2>1. p \in Seq(Byte)
    BY Com3Assumption
  <2> QED
    BY <1>1, <2>1 DEF TypeOK, EnvioBien, Empieza, anillo, oks, dato
<1>2. CASE Recibe
  BY <1>2, PasoRecibe
<1>3. CASE LeeByte
  BY <1>3, PasoLeeByte
<1>4. CASE UsaAltura
  BY <1>4 DEF TypeOK, EnvioBien, UsaAltura, anillo, oks, dato
<1>5. CASE UNCHANGED vars
  BY <1>5 DEF TypeOK, EnvioBien, vars, anillo, oks, dato
<1> QED
  BY <1>1, <1>2, <1>3, <1>4, <1>5 DEF Next

(***************************************************************************)
(* The state of the COM3 reader keeps its types for every ring and every   *)
(* packet, even when the ring laps and when it joins parts of different    *)
(* packets: sector, distance and height never leave their ranges.          *)
(***************************************************************************)
THEOREM TipoCorrecto == Spec => []TypeOK
  BY Empezado, PasoTipo, PTL DEF Spec
-----------------------------------------------------------------------------
(***************************************************************************)
(* What is on its way: the last seven bytes read, those in the ring and    *)
(* those on the line, as one stream.  Antes is the place in it of the last *)
(* byte before the first packet that is not delivered.                     *)
(***************************************************************************)
Total == 7 + sinLeer + Len(envio)

Lug(r, k) == (r + k) % N

Flujo(i) ==
  IF i <= 7 THEN bu[i]
  ELSE IF i <= 7 + sinLeer THEN InBuff[Lug(IndRd, i - 8)]
  ELSE envio[i - 7 - sinLeer]

Antes == Total - 8 * Len(cola)

(* The packets of the height finder. *)
Formato(p) ==
  /\ p[1] = 255 /\ p[2] = 255
  /\ p[4] \div 16 = 8 /\ p[6] \div 16 = 3 /\ p[8] \div 16 = 12

EnAnillo == sinLeer \in 0 .. N - 1 /\ Lug(IndRd, sinLeer) = IndWr

(* Behind Antes come the packets; before it, the end of another or, before *)
(* the first, the zeros of the start and the end of a packet: no two bytes *)
(* of it are the head of a packet, but one byte late.                      *)
EnOrden ==
  /\ cola \in Seq(Paquetes)
  /\ Antes \in 0 .. 14
  /\ \A i \in 1 .. Total, q \in 1 .. Len(cola), o \in 1 .. 8 :
       i = Antes + 8 * (q - 1) + o => Flujo(i) = cola[q][o]
  /\ \A i \in 1 .. Antes :
       /\ Antes - i \in {0, 2, 4} => Flujo(i) # 255
       /\ Antes - i >= 7 => Flujo(i) = 0

C3Inv == TypeOK /\ EnvioBien /\ EnAnillo /\ EnOrden /\ ~ok3

(* Remainders: one turn of the ring is all that is ever taken away. *)
LEMMA UnaVuelta ==
  ASSUME NEW a \in Int, NEW n \in Nat, n > 0
  PROVE  /\ a \in 0 .. n - 1 => a % n = a
         /\ a \in n .. 2 * n - 1 => a % n = a - n
<1> DEFINE q == a \div n
           r == a % n
<1>1. q \in Int /\ r \in 0 .. n - 1 /\ a = n * q + r
  OBVIOUS
<1> HIDE DEF q, r
<1>2. /\ q >= 2 => n * q >= 2 * n
      /\ q >= 1 => n * q >= n
      /\ q <= -1 => n * q <= -n
  BY <1>1
<1>3. q = 0 \/ q = 1 \/ q >= 2 \/ q <= -1
  BY <1>1
<1> QED
  BY <1>1, <1>2, <1>3 DEF r

LEMMA Sitio ==
  ASSUME NEW r \in 0 .. N - 1, NEW k \in 0 .. N
  PROVE  /\ Lug(r, k) = IF r + k < N THEN r + k ELSE r + k - N
         /\ Lug(r, k) \in 0 .. N - 1
<1>1. N \in Nat /\ N > 0 /\ r \in Int /\ k \in Int /\ r + k \in Int
  BY Anillo
<1>2. CASE r + k < N
  <2>1. r + k \in 0 .. N - 1
    BY <1>1, <1>2
  <2>2. Lug(r, k) = r + k
    BY <1>1, <2>1, UnaVuelta DEF Lug
  <2> QED
    BY <1>2, <2>1, <2>2
<1>3. CASE ~(r + k < N)
  <2>1. r + k \in N .. 2 * N - 1 /\ r + k - N \in 0 .. N - 1
    BY <1>1, <1>3
  <2>2. Lug(r, k) = r + k - N
    BY <1>1, <2>1, UnaVuelta DEF Lug
  <2> QED
    BY <1>3, <2>1, <2>2
<1> QED
  BY <1>2, <1>3

(* Two bytes of the ring are not in the same place, and the next place of  *)
(* a byte is that of the next.                                             *)
LEMMA Sitios ==
  ASSUME NEW r \in 0 .. N - 1, NEW k \in 0 .. N - 1
  PROVE  /\ \A i \in 0 .. k - 1 : Lug(r, i) # Lug(r, k)
         /\ avanza(Lug(r, k)) = Lug(r, k + 1)
         /\ Lug(r, 0) = r
         /\ \A i \in 0 .. k : Lug(avanza(r), i) = Lug(r, i + 1)
<1>1. N \in Nat /\ N > 0 /\ r \in Int /\ k \in Int
  BY Anillo
<1>2. ASSUME NEW a \in 0 .. N - 1
      PROVE  avanza(a) = (IF a + 1 < N THEN a + 1 ELSE a + 1 - N) /\ avanza(a) \in 0 .. N - 1
  <2>1. 1 \in 0 .. N
    BY <1>1
  <2> QED
    BY <2>1, Sitio DEF avanza, Lug
<1>3. ASSUME NEW i \in 0 .. k - 1
      PROVE  Lug(r, i) # Lug(r, k)
  <2>1. i \in 0 .. N /\ k \in 0 .. N
    BY <1>1
  <2>2. /\ Lug(r, i) = IF r + i < N THEN r + i ELSE r + i - N
        /\ Lug(r, k) = IF r + k < N THEN r + k ELSE r + k - N
    BY <2>1, Sitio
  <2> QED
    BY <1>1, <2>1, <2>2
<1>4. avanza(Lug(r, k)) = Lug(r, k + 1)
  <2>1. k \in 0 .. N /\ k + 1 \in 0 .. N
    BY <1>1
  <2> DEFINE b == Lug(r, k)
  <2>2. b = (IF r + k < N THEN r + k ELSE r + k - N) /\ b \in 0 .. N - 1
    BY <2>1, Sitio
  <2>3. Lug(r, k + 1) = IF r + (k + 1) < N THEN r + (k + 1) ELSE r + (k + 1) - N
    BY <2>1, Sitio
  <2> HIDE DEF b
  <2>4. avanza(b) = IF b + 1 < N THEN b + 1 ELSE b + 1 - N
    BY <1>2, <2>2
  <2>5. avanza(b) = Lug(r, k + 1)
    BY <1>1, <2>2, <2>3, <2>4
  <2> QED
    BY <2>5 DEF b
<1>5. Lug(r, 0) = r
  <2>1. 0 \in 0 .. N
    BY <1>1
  <2>2. Lug(r, 0) = IF r + 0 < N THEN r + 0 ELSE r + 0 - N
    BY <2>1, Sitio
  <2> QED
    BY <1>1, <2>2
<1>6. ASSUME NEW i \in 0 .. k
      PROVE  Lug(avanza(r), i) = Lug(r, i + 1)
  <2>1. i \in 0 .. N /\ i + 1 \in 0 .. N
    BY <1>1
  <2> DEFINE b == avanza(r)
  <2>2. b = (IF r + 1 < N THEN r + 1 ELSE r + 1 - N) /\ b \in 0 .. N - 1
    BY <1>2
  <2> HIDE DEF b
  <2>3. /\ Lug(b, i) = IF b + i < N THEN b + i ELSE b + i - N
        /\ Lug(r, i + 1) = IF r + (i + 1) < N THEN r + (i + 1) ELSE r + (i + 1) - N
    BY <2>1, <2>2, Sitio
  <2> QED
    BY <1>1, <2>1, <2>2, <2>3 DEF b
<1> QED
  BY <1>3, <1>4, <1>5, <1>6

(* Nothing is left in the ring when its two indices meet. *)
LEMMA SinNada ==
  ASSUME TypeOK, EnAnillo
  PROVE  sinLeer = 0 <=> IndWr = IndRd
<1>1. IndRd \in 0 .. N - 1 /\ sinLeer \in 0 .. N - 1 /\ N \in Nat
  BY Anillo DEF TypeOK, EnAnillo
<1>2. Lug(IndRd, 0) = IndRd /\ \A i \in 0 .. sinLeer - 1 : Lug(IndRd, i) # IndWr
  BY <1>1, Sitios DEF EnAnillo
<1>3. sinLeer # 0 => 0 \in 0 .. sinLeer - 1
  BY <1>1
<1> QED
  BY <1>2, <1>3 DEF EnAnillo
-----------------------------------------------------------------------------
(***************************************************************************)
(* How each step moves the stream.                                         *)
(***************************************************************************)
LEMMA Largos ==
  ASSUME C3Inv
  PROVE  /\ sinLeer \in Nat /\ Len(envio) \in Nat /\ Total \in Nat /\ Total >= 7
         /\ Len(cola) \in Nat /\ Antes = Total - 8 * Len(cola)
<1>1. Len(envio) \in Nat /\ Len(cola) \in Nat
  BY LenProperties DEF C3Inv, EnvioBien, EnOrden
<1>2. sinLeer \in Nat
  BY Anillo DEF C3Inv, EnAnillo
<1> QED
  BY <1>1, <1>2 DEF Total, Antes

LEMMA MueveEmpieza ==
  ASSUME C3Inv, NEW p \in Paquetes, Empieza(p)
  PROVE  /\ Total' = Total + 8 /\ Antes' = Antes
         /\ \A i \in 1 .. Total : Flujo(i)' = Flujo(i)
         /\ \A i \in Total + 1 .. Total + 8 : Flujo(i)' = p[i - Total]
         /\ cola' \in Seq(Paquetes) /\ Len(cola') = Len(cola) + 1
         /\ \A q \in 1 .. Len(cola) : cola'[q] = cola[q]
         /\ cola'[Len(cola) + 1] = p
         /\ UNCHANGED <<sinLeer, IndRd, IndWr, ok3>>
<1>1. /\ envio = <<>> /\ envio' = p /\ cola' = Append(cola, p)
      /\ UNCHANGED <<bu, sinLeer, IndRd, IndWr, InBuff, ok3>>
  BY DEF Empieza, anillo, oks
<1>2. Len(envio) = 0 /\ Len(envio') = 8
  BY <1>1, EmptySeq, Com3Assumption
<1>3. /\ cola' \in Seq(Paquetes) /\ Len(cola') = Len(cola) + 1
      /\ \A q \in 1 .. Len(cola) : cola'[q] = cola[q]
      /\ cola'[Len(cola) + 1] = p
  BY <1>1, AppendProperties DEF C3Inv, EnOrden
<1>4. Total' = Total + 8 /\ Antes' = Antes /\ Total = 7 + sinLeer
  BY <1>1, <1>2, <1>3, Largos DEF Total, Antes
<1>5. \A i \in 1 .. Total : Flujo(i)' = Flujo(i)
  BY <1>1, <1>4, Largos DEF Flujo
<1>6. ASSUME NEW i \in Total + 1 .. Total + 8
      PROVE  Flujo(i)' = p[i - Total]
  <2>1. ~(i <= 7) /\ ~(i <= 7 + sinLeer) /\ i - 7 - sinLeer = i - Total
    <3>1. Total = 7 + sinLeer /\ sinLeer \in Nat
      BY <1>4, Largos
    <3> QED
      BY <3>1
  <2> QED
    BY <1>1, <2>1 DEF Flujo
<1> QED
  BY <1>1, <1>3, <1>4, <1>5, <1>6

LEMMA MueveRecibe ==
  ASSUME C3Inv, Recibe, EsperaMax < N
  PROVE  /\ Total' = Total /\ Antes' = Antes /\ EnAnillo'
         /\ \A i \in 1 .. Total : Flujo(i)' = Flujo(i)
         /\ UNCHANGED <<cola, ok3>>
<1>1. /\ envio # <<>> /\ sinLeer < EsperaMax
      /\ InBuff' = [InBuff EXCEPT ![IndWr] = Head(envio)]
      /\ IndWr' = avanza(IndWr) /\ envio' = Tail(envio) /\ sinLeer' = sinLeer + 1
      /\ UNCHANGED <<IndRd, bu, ok3, cola>>
  BY DEF Recibe, oks
<1>2. /\ Len(envio) \in Nat \ {0} /\ Len(envio') = Len(envio) - 1 /\ Head(envio) = envio[1]
      /\ \A i \in 1 .. Len(envio) - 1 : envio'[i] = envio[i + 1]
  BY <1>1, HeadTailProperties, LenProperties, EmptySeq DEF C3Inv, EnvioBien
<1>3. /\ IndRd \in 0 .. N - 1 /\ IndWr \in 0 .. N - 1 /\ InBuff \in [0 .. N - 1 -> Byte]
      /\ sinLeer \in 0 .. N - 1 /\ sinLeer + 1 \in 0 .. N - 1 /\ N \in Nat
      /\ IndWr = Lug(IndRd, sinLeer)
  BY <1>1, Anillo, Com3Assumption DEF C3Inv, TypeOK, EnAnillo
<1>4. EnAnillo'
  BY <1>1, <1>3, Sitios DEF EnAnillo
<1>5. Total' = Total /\ Antes' = Antes
  BY <1>1, <1>2, <1>3, Largos DEF Total, Antes
<1>6. ASSUME NEW i \in 1 .. Total
      PROVE  Flujo(i)' = Flujo(i)
  <2>0. i \in Int /\ Total = 7 + sinLeer + Len(envio)
    BY Largos DEF Total
  <2>1. CASE i <= 7
    BY <1>1, <2>1 DEF Flujo
  <2>2. CASE ~(i <= 7) /\ i <= 7 + sinLeer
    <3>1. i - 8 \in 0 .. sinLeer - 1 /\ i <= 7 + sinLeer'
      BY <1>1, <1>3, <2>0, <2>2
    <3>2. Lug(IndRd, i - 8) # IndWr
      BY <1>3, <3>1, Sitios
    <3>3. Lug(IndRd, i - 8) \in 0 .. N - 1
      <4>1. i - 8 \in 0 .. N
        BY <1>3, <3>1
      <4> QED
        BY <1>3, <4>1, Sitio
    <3>4. InBuff'[Lug(IndRd, i - 8)] = InBuff[Lug(IndRd, i - 8)]
      BY <1>1, <1>3, <3>2, <3>3
    <3> QED
      BY <1>1, <2>2, <3>1, <3>4 DEF Flujo
  <2>3. CASE i = 8 + sinLeer
    <3>1. i - 8 = sinLeer /\ ~(i <= 7) /\ ~(i <= 7 + sinLeer) /\ i <= 7 + sinLeer'
          /\ i - 7 - sinLeer = 1
      BY <1>1, <1>3, <2>0, <2>3
    <3>2. InBuff'[IndWr] = Head(envio)
      BY <1>1, <1>3
    <3> QED
      BY <1>1, <1>2, <1>3, <3>1, <3>2 DEF Flujo
  <2>4. CASE i > 8 + sinLeer
    <3>1. /\ ~(i <= 7) /\ ~(i <= 7 + sinLeer) /\ ~(i <= 7 + sinLeer')
          /\ i - 7 - sinLeer' \in 1 .. Len(envio) - 1
          /\ (i - 7 - sinLeer') + 1 = i - 7 - sinLeer
      BY <1>1, <1>2, <1>3, <2>0, <2>4
    <3> QED
      BY <1>2, <3>1 DEF Flujo
  <2> QED
    BY <1>3, <2>0, <2>1, <2>2, <2>3, <2>4
<1> QED
  BY <1>1, <1>4, <1>5, <1>6

LEMMA MueveLee ==
  ASSUME C3Inv, LeeByte
  PROVE  /\ Total' = Total - 1 /\ Total >= 8 /\ EnAnillo'
         /\ \A i \in 1 .. Total - 1 : Flujo(i)' = Flujo(i + 1)
         /\ \A i \in 1 .. 8 : Ventana[i] = Flujo(i)
<1>1. /\ IndWr # IndRd /\ bu' = Tail(Ventana) /\ IndRd' = avanza(IndRd)
      /\ sinLeer' = sinLeer - 1
      /\ UNCHANGED <<InBuff, IndWr, envio>>
  BY DEF LeeByte
<1>2. /\ IndRd \in 0 .. N - 1 /\ sinLeer \in 0 .. N - 1 /\ N \in Nat
      /\ sinLeer # 0 /\ IndWr = Lug(IndRd, sinLeer)
      /\ bu \in Seq(Byte) /\ Len(bu) = 7 /\ InBuff[IndRd] \in Byte
  BY <1>1, Anillo, SinNada DEF C3Inv, TypeOK, EnAnillo
<1>3. sinLeer - 1 \in 0 .. N - 1 /\ (sinLeer - 1) + 1 = sinLeer
  BY <1>2
<1>4. EnAnillo'
  BY <1>1, <1>2, <1>3, Sitios DEF EnAnillo
<1>5. Total' = Total - 1 /\ Total >= 8
  BY <1>1, <1>2, Largos DEF Total
<1>6. /\ Ventana \in Seq(Byte) /\ Len(Ventana) = 8 /\ Ventana[8] = InBuff[IndRd]
      /\ \A i \in 1 .. 7 : Ventana[i] = bu[i]
      /\ \A i \in 1 .. 7 : Tail(Ventana)[i] = Ventana[i + 1]
  <2> DEFINE x == InBuff[IndRd]
  <2>1. x \in Byte
    BY <1>2
  <2> HIDE DEF x
  <2>2. /\ Append(bu, x) \in Seq(Byte) /\ Len(Append(bu, x)) = Len(bu) + 1
        /\ \A i \in 1 .. Len(bu) : Append(bu, x)[i] = bu[i]
        /\ Append(bu, x)[Len(bu) + 1] = x
    <3>1. Append(bu, x) \in Seq(Byte) /\ Len(Append(bu, x)) = Len(bu) + 1
      BY <1>2, <2>1, Desliza
    <3>2. /\ \A i \in 1 .. Len(bu) : Append(bu, x)[i] = bu[i]
          /\ Append(bu, x)[Len(bu) + 1] = x
      BY <1>2, <2>1, Anade
    <3> QED
      BY <3>1, <3>2
  <2>3. Ventana = Append(bu, x)
    BY DEF Ventana, x
  <2>4. Ventana \in Seq(Byte) /\ Len(Ventana) = 8 /\ Ventana # <<>>
    BY <1>2, <2>2, <2>3, EmptySeq
  <2>5. \A i \in 1 .. Len(Ventana) - 1 : Tail(Ventana)[i] = Ventana[i + 1]
    BY <2>4, HeadTailProperties
  <2> QED
    BY <1>2, <2>2, <2>3, <2>4, <2>5 DEF x
<1>7. Ventana[8] = Flujo(8)
  <2>1. Lug(IndRd, 0) = IndRd
    BY <1>2, Sitios
  <2>2. ~(8 <= 7) /\ 8 <= 7 + sinLeer /\ 8 - 8 = 0
    BY <1>2
  <2> QED
    BY <1>6, <2>1, <2>2 DEF Flujo
<1>8. \A i \in 1 .. 8 : Ventana[i] = Flujo(i)
  <2>1. \A i \in 1 .. 7 : Ventana[i] = Flujo(i)
    BY <1>6 DEF Flujo
  <2> QED
    BY <1>7, <2>1
<1>9. ASSUME NEW i \in 1 .. Total - 1
      PROVE  Flujo(i)' = Flujo(i + 1)
  <2>0. i \in Int /\ i >= 1
    BY Largos
  <2>1. CASE i <= 7
    <3>1. i \in 1 .. 7 /\ i + 1 \in 1 .. 8
      BY <2>0, <2>1
    <3>2. Flujo(i)' = Tail(Ventana)[i]
      BY <1>1, <2>1 DEF Flujo
    <3> QED
      BY <1>6, <1>8, <3>1, <3>2
  <2>2. CASE ~(i <= 7) /\ i <= 7 + (sinLeer - 1)
    <3>1. /\ i - 8 \in 0 .. sinLeer - 1 /\ ~(i + 1 <= 7) /\ i + 1 <= 7 + sinLeer
          /\ (i - 8) + 1 = (i + 1) - 8
      BY <1>2, <2>0, <2>2
    <3>2. Lug(avanza(IndRd), i - 8) = Lug(IndRd, (i - 8) + 1)
      BY <1>2, <1>3, <3>1, Sitios
    <3> QED
      BY <1>1, <2>2, <3>1, <3>2 DEF Flujo
  <2>3. CASE i > 7 + (sinLeer - 1) /\ ~(i <= 7)
    <3>1. /\ ~(i <= 7 + (sinLeer - 1)) /\ ~(i + 1 <= 7) /\ ~(i + 1 <= 7 + sinLeer)
          /\ i - 7 - (sinLeer - 1) = (i + 1) - 7 - sinLeer
      BY <1>2, <2>0, <2>3
    <3> QED
      BY <1>1, <2>3, <3>1 DEF Flujo
  <2> QED
    BY <1>2, <2>0, <2>1, <2>2, <2>3
<1> QED
  BY <1>4, <1>5, <1>8, <1>9
-----------------------------------------------------------------------------
(***************************************************************************)
(* What lee_altura() finds: a packet when its last byte is read, and never *)
(* a height otherwise.                                                     *)
(***************************************************************************)
Formados == \A p \in Paquetes : Formato(p)

LEMMA Primero ==
  ASSUME C3Inv, cola # <<>>
  PROVE  Len(cola) >= 1 /\ cola[1] = Head(cola) /\ Head(cola) \in Paquetes
<1>1. cola \in Seq(Paquetes) /\ cola # <<>>
  BY DEF C3Inv, EnOrden
<1>2. Len(cola) >= 1 /\ cola[1] = Head(cola) /\ Head(cola) \in Paquetes
  BY <1>1, HeadTailProperties, LenProperties, EmptySeq
<1> QED
  BY <1>2

LEMMA ByteDePaquete ==
  ASSUME EnOrden, NEW i \in 1 .. Total, NEW q \in 1 .. Len(cola), NEW o \in 1 .. 8,
         i = Antes + 8 * (q - 1) + o
  PROVE  Flujo(i) = cola[q][o]
BY SMTT(40) DEF EnOrden

LEMMA Ventanas ==
  ASSUME C3Inv, LeeByte, Formados
  PROVE  /\ Antes = 0 => /\ cola # <<>> /\ HayAz /\ HayRg /\ HayAlt
                         /\ \A i \in 1 .. 8 : Ventana[i] = Head(cola)[i]
         /\ Antes # 0 => ~HayAlt
<1>1. /\ Total >= 8 /\ \A i \in 1 .. 8 : Ventana[i] = Flujo(i)
      /\ Antes = Total - 8 * Len(cola) /\ Len(cola) \in Nat /\ Total \in Nat
  BY Largos, MueveLee
<1>2. /\ Antes \in 0 .. 14
      /\ \A i \in 1 .. Total, q \in 1 .. Len(cola), o \in 1 .. 8 :
           i = Antes + 8 * (q - 1) + o => Flujo(i) = cola[q][o]
      /\ \A i \in 1 .. Antes : /\ Antes - i \in {0, 2, 4} => Flujo(i) # 255
                               /\ Antes - i >= 7 => Flujo(i) = 0
  BY DEF C3Inv, EnOrden
<1>3. Antes <= 7 => cola # <<>>
  <2>1. Len(cola) = 0 => Antes >= 8
    BY <1>1
  <2> QED
    BY <1>2, <2>1, EmptySeq
<1>4. ASSUME Antes <= 7, NEW o \in 1 .. 8, NEW i \in 1 .. 8, i = Antes + o
      PROVE  Ventana[i] = Head(cola)[o]
  <2>1. Len(cola) >= 1 /\ cola[1] = Head(cola)
    BY <1>3, <1>4, Primero
  <2>2. i \in 1 .. Total /\ i = Antes + 8 * (1 - 1) + o
    <3>1. Antes \in Int /\ Total \in Nat /\ Total >= 8
      BY <1>1, <1>2
    <3>2. i \in 1 .. Total
      BY <3>1
    <3>3. i = Antes + 8 * (1 - 1) + o
      BY <1>4, <3>1
    <3> QED
      BY <3>2, <3>3
  <2>3. 1 \in 1 .. Len(cola)
    BY <1>1, <2>1
  <2>4. Flujo(i) = cola[1][o]
    BY <2>2, <2>3, ByteDePaquete DEF C3Inv
  <2> QED
    BY <1>1, <2>1, <2>4
<1>5. Antes <= 7 => Formato(Head(cola))
  BY <1>3, Primero DEF Formados
<1>6. CASE Antes = 0
  <2>1. \A i \in 1 .. 8 : Ventana[i] = Head(cola)[i]
    BY <1>4, <1>6
  <2>2. HayAz /\ HayRg /\ HayAlt
    BY <1>5, <1>6, <2>1 DEF Formato, HayAz, HayRg, HayAlt, Clase, Marco
  <2> QED
    BY <1>3, <1>6, <2>1, <2>2
<1>7. CASE Antes \in 1 .. 5
  <2>1. Flujo(1) # 255 \/ Flujo(2) # 255
    <3>1. CASE Antes \in {1, 3, 5}
      <4>1. 1 \in 1 .. Antes /\ Antes - 1 \in {0, 2, 4}
        BY <3>1
      <4> QED
        BY <1>2, <4>1
    <3>2. CASE Antes \in {2, 4}
      <4>1. 2 \in 1 .. Antes /\ Antes - 2 \in {0, 2, 4}
        BY <3>2
      <4> QED
        BY <1>2, <4>1
    <3> QED
      BY <1>7, <3>1, <3>2
  <2>2. ~Marco
    BY <1>1, <2>1 DEF Marco
  <2> QED
    BY <1>7, <2>2 DEF HayAlt, Clase
<1>8. CASE Antes \in {6, 7}
  <2>1. Ventana[8] = Head(cola)[1] \/ Ventana[8] = Head(cola)[2]
    BY <1>4, <1>8
  <2>2. Ventana[8] = 255
    BY <1>5, <1>8, <2>1 DEF Formato
  <2>3. 255 \div 16 # 12
    OBVIOUS
  <2> QED
    BY <1>8, <2>2, <2>3 DEF HayAlt, Clase
<1>9. CASE Antes \in 8 .. 14
  <2>1. 1 \in 1 .. Antes /\ Antes - 1 >= 7
    BY <1>9
  <2>2. Flujo(1) = 0
    BY <1>2, <2>1
  <2>3. ~Marco
    BY <1>1, <2>2 DEF Marco
  <2> QED
    BY <1>9, <2>3 DEF HayAlt, Clase
<1> QED
  BY <1>2, <1>6, <1>7, <1>8, <1>9

(* A packet is complete exactly when its last byte is read. *)
LEMMA CompletoEsUltimo ==
  ASSUME C3Inv, LeeByte, Formados
  PROVE  /\ Completo <=> Antes = 0
         /\ ~ok3'
         /\ cola' = IF Antes = 0 THEN Tail(cola) ELSE cola
<1>1. Completo <=> Antes = 0
  BY Ventanas DEF C3Inv, Completo, HayAlt, Clase
<1>2. ~ok3'
  BY <1>1, Ventanas DEF C3Inv, LeeByte, MarcaOk
<1>3. cola' = IF Antes = 0 THEN Tail(cola) ELSE cola
  BY <1>1, Ventanas DEF LeeByte
<1> QED
  BY <1>1, <1>2, <1>3

LEMMA OrdenLee ==
  ASSUME C3Inv, LeeByte, Formados
  PROVE  EnOrden'
<1>1. /\ Total' = Total - 1 /\ Total >= 8 /\ Total \in Nat /\ Len(cola) \in Nat
      /\ \A i \in 1 .. Total - 1 : Flujo(i)' = Flujo(i + 1)
      /\ \A i \in 1 .. 8 : Ventana[i] = Flujo(i)
      /\ Antes = Total - 8 * Len(cola) /\ Antes' = Total' - 8 * Len(cola')
  BY Largos, MueveLee DEF Antes
<1>2. EnOrden /\ cola \in Seq(Paquetes) /\ Antes \in 0 .. 14
  BY DEF C3Inv, EnOrden
<1>3. CASE Antes = 0
  <2>1. cola # <<>> /\ cola' = Tail(cola)
    BY <1>3, Ventanas, CompletoEsUltimo
  <2>2. /\ cola' \in Seq(Paquetes) /\ Len(cola') = Len(cola) - 1
        /\ \A q \in 1 .. Len(cola) - 1 : cola'[q] = cola[q + 1]
    BY <1>2, <2>1, HeadTailProperties
  <2>3. Antes' = 7
    BY <1>1, <1>3, <2>2
  <2>4. ASSUME NEW i \in 1 .. Total', NEW q \in 1 .. Len(cola'), NEW o \in 1 .. 8,
               i = 7 + 8 * (q - 1) + o
        PROVE  Flujo(i)' = cola'[q][o]
    <3>1. /\ i + 1 \in 1 .. Total /\ q + 1 \in 1 .. Len(cola) /\ i \in 1 .. Total - 1
          /\ i + 1 = Antes + 8 * ((q + 1) - 1) + o /\ q \in 1 .. Len(cola) - 1
      <4>1. i \in 1 .. Total - 1 /\ i + 1 \in 1 .. Total
        BY <1>1
      <4>2. q \in 1 .. Len(cola) - 1 /\ q + 1 \in 1 .. Len(cola)
        BY <1>1, <2>2
      <4>3. i + 1 = Antes + 8 * ((q + 1) - 1) + o
        BY <1>3, <2>4, <4>1, <4>2
      <4> QED
        BY <4>1, <4>2, <4>3
    <3>2. Flujo(i + 1) = cola[q + 1][o]
      BY <1>2, <3>1, ByteDePaquete
    <3> QED
      BY <1>1, <2>2, <3>1, <3>2
  <2>5. ASSUME NEW i \in 1 .. 7, 7 - i \in {0, 2, 4}
        PROVE  Flujo(i)' # 255
    <3>1. i + 1 \in {4, 6, 8} /\ i + 1 \in 1 .. 8 /\ i \in 1 .. Total - 1
      BY <1>1, <2>5
    <3>2. Flujo(i)' = Ventana[i + 1]
      BY <1>1, <3>1
    <3>3. Ventana[4] \div 16 = 8 /\ Ventana[6] \div 16 = 3 /\ Ventana[8] \div 16 = 12
      BY <1>3, Ventanas DEF HayAz, HayRg, HayAlt, Clase
    <3>4. 255 \div 16 = 15
      OBVIOUS
    <3> QED
      BY <3>1, <3>2, <3>3, <3>4
  <2>6. \A i \in 1 .. 7 : ~(7 - i >= 7)
    OBVIOUS
  <2> QED
    BY <2>2, <2>3, <2>4, <2>5, <2>6 DEF EnOrden
<1>4. CASE Antes # 0
  <2>1. cola' = cola
    BY <1>4, CompletoEsUltimo
  <2>2. Antes' = Antes - 1
    BY <1>1, <2>1
  <2>3. ASSUME NEW i \in 1 .. Total', NEW q \in 1 .. Len(cola'), NEW o \in 1 .. 8,
               i = Antes' + 8 * (q - 1) + o
        PROVE  Flujo(i)' = cola'[q][o]
    <3>1. /\ i + 1 \in 1 .. Total /\ q \in 1 .. Len(cola) /\ i \in 1 .. Total - 1
          /\ i + 1 = Antes + 8 * (q - 1) + o
      BY <1>1, <1>2, <2>1, <2>2, <2>3
    <3>2. Flujo(i + 1) = cola[q][o]
      BY <1>2, <3>1, ByteDePaquete
    <3> QED
      BY <1>1, <2>1, <3>1, <3>2
  <2>4. ASSUME NEW i \in 1 .. Antes - 1
        PROVE  /\ (Antes - 1) - i \in {0, 2, 4} => Flujo(i)' # 255
               /\ (Antes - 1) - i >= 7 => Flujo(i)' = 0
    <3>1. Antes \in Int /\ Total \in Int /\ Antes <= Total
      BY <1>1, <1>2
    <3>2. i + 1 \in 1 .. Antes /\ (Antes - 1) - i = Antes - (i + 1) /\ i \in 1 .. Total - 1
      BY <3>1
    <3>3. Flujo(i)' = Flujo(i + 1)
      BY <1>1, <3>2
    <3> QED
      BY <1>2, <3>2, <3>3 DEF EnOrden
  <2>5. Antes' \in 0 .. 14
    BY <1>2, <1>4, <2>2
  <2>6. \A i \in 1 .. Antes' :
          /\ Antes' - i \in {0, 2, 4} => Flujo(i)' # 255
          /\ Antes' - i >= 7 => Flujo(i)' = 0
    BY <2>2, <2>4
  <2> QED
    BY <1>2, <2>1, <2>3, <2>5, <2>6 DEF EnOrden
<1> QED
  BY <1>3, <1>4

LEMMA OrdenEmpieza ==
  ASSUME C3Inv, NEW p \in Paquetes, Empieza(p)
  PROVE  EnOrden'
<1>1. /\ Total' = Total + 8 /\ Antes' = Antes
      /\ \A i \in 1 .. Total : Flujo(i)' = Flujo(i)
      /\ \A i \in Total + 1 .. Total + 8 : Flujo(i)' = p[i - Total]
      /\ cola' \in Seq(Paquetes) /\ Len(cola') = Len(cola) + 1
      /\ \A q \in 1 .. Len(cola) : cola'[q] = cola[q]
      /\ cola'[Len(cola) + 1] = p
  BY MueveEmpieza
<1>2. EnOrden /\ Antes \in 0 .. 14
  BY DEF C3Inv, EnOrden
<1>3. Antes = Total - 8 * Len(cola) /\ Total \in Nat /\ Len(cola) \in Nat
  BY Largos
<1>4. ASSUME NEW i \in 1 .. Total', NEW q \in 1 .. Len(cola'), NEW o \in 1 .. 8,
             i = Antes' + 8 * (q - 1) + o
      PROVE  Flujo(i)' = cola'[q][o]
  <2>1. CASE q <= Len(cola)
    <3>1. q \in 1 .. Len(cola) /\ i \in 1 .. Total
      BY <1>1, <1>2, <1>3, <1>4, <2>1
    <3>2. i = Antes + 8 * (q - 1) + o
      BY <1>1, <1>4
    <3>3. Flujo(i) = cola[q][o]
      BY <1>2, <3>1, <3>2, ByteDePaquete
    <3> QED
      BY <1>1, <3>1, <3>3
  <2>2. CASE q = Len(cola) + 1
    <3>1. i = Total + o
      BY <1>1, <1>2, <1>3, <1>4, <2>2
    <3>2. i \in Total + 1 .. Total + 8 /\ i - Total = o
      BY <1>3, <3>1
    <3> QED
      BY <1>1, <2>2, <3>2
  <2> QED
    BY <1>1, <1>3, <2>1, <2>2
<1>5. ASSUME NEW i \in 1 .. Antes'
      PROVE  /\ Antes' - i \in {0, 2, 4} => Flujo(i)' # 255
             /\ Antes' - i >= 7 => Flujo(i)' = 0
  <2>1. i \in 1 .. Antes /\ i \in 1 .. Total
    BY <1>1, <1>2, <1>3
  <2> QED
    BY <1>1, <1>2, <2>1 DEF EnOrden
<1> QED
  BY <1>1, <1>2, <1>4, <1>5 DEF EnOrden

(* A start in the middle of a packet, or before the first. *)
LEMMA C3Empezado ==
  ASSUME Init, Formados
  PROVE  C3Inv
<1>1. TypeOK /\ EnvioBien
  BY Empezado
<1>2. /\ cola = <<>> /\ sinLeer = 0 /\ ~ok3 /\ IndWr = 0 /\ IndRd = 0
      /\ bu = <<0, 0, 0, 0, 0, 0, 0>>
  BY DEF Init
<1>3. EnAnillo
  <2>1. 0 \in 0 .. N - 1
    BY Anillo
  <2>2. Lug(0, 0) = 0
    BY <2>1, Sitios
  <2> QED
    BY <1>2, <2>1, <2>2 DEF EnAnillo
<1>4. EnOrden
  <2>1. PICK p \in Paquetes, k \in 2 .. 9 : envio = SubSeq(p, k, 8)
    BY DEF Init
  <2>2. p \in Seq(Byte) /\ Len(p) = 8 /\ Formato(p)
    BY Com3Assumption DEF Formados
  <2>3. Len(envio) = 9 - k /\ \A i \in 1 .. 9 - k : envio[i] = p[k + i - 1]
    BY <2>1, <2>2, SubSeqProperties
  <2>4. Len(cola) = 0 /\ cola \in Seq(Paquetes)
    BY <1>2, EmptySeq
  <2>5. Total = 16 - k /\ Antes = 16 - k
    BY <1>2, <2>3, <2>4 DEF Total, Antes
  <2>6. ASSUME NEW i \in 1 .. 16 - k
        PROVE  Flujo(i) = IF i <= 7 THEN 0 ELSE p[k + i - 8]
    <3>1. CASE i <= 7
      BY <1>2, <3>1 DEF Flujo
    <3>2. CASE ~(i <= 7)
      <4>1. i - 7 \in 1 .. 9 - k /\ i - 7 - 0 = i - 7 /\ k + (i - 7) - 1 = k + i - 8
            /\ ~(i <= 7 + 0)
        BY <3>2
      <4>2. Flujo(i) = envio[i - 7]
        BY <1>2, <3>2, <4>1 DEF Flujo
      <4>3. envio[i - 7] = p[k + (i - 7) - 1]
        BY <2>3, <4>1
      <4> QED
        BY <3>2, <4>1, <4>2, <4>3
    <3> QED
      BY <3>1, <3>2
  <2>7. ASSUME NEW i \in 1 .. Antes
        PROVE  /\ Antes - i \in {0, 2, 4} => Flujo(i) # 255
               /\ Antes - i >= 7 => Flujo(i) = 0
    <3>1. i \in 1 .. 16 - k /\ (Antes - i >= 7 => i <= 7)
          /\ (Antes - i \in {0, 2, 4} => k + i - 8 \in {8, 6, 4})
      BY <2>5
    <3>2. p[4] # 255 /\ p[6] # 255 /\ p[8] # 255
      <4>1. 255 \div 16 = 15
        OBVIOUS
      <4> QED
        BY <2>2, <4>1 DEF Formato
    <3> QED
      BY <2>6, <3>1, <3>2
  <2>8. Antes \in 0 .. 14
    BY <2>5
  <2>9. 1 .. Len(cola) = {}
    BY <2>4
  <2> QED
    BY <2>4, <2>7, <2>8, <2>9 DEF EnOrden
<1> QED
  BY <1>1, <1>2, <1>3, <1>4 DEF C3Inv

LEMMA PasoC3 ==
  ASSUME C3Inv, [Next]_vars, Formados, EsperaMax < N, TypeOK', EnvioBien'
  PROVE  C3Inv'
<1>1. ASSUME NEW p \in Paquetes, Empieza(p)
      PROVE  C3Inv'
  <2>1. EnAnillo' /\ ~ok3'
    BY <1>1, MueveEmpieza DEF C3Inv, EnAnillo, Lug
  <2> QED
    BY <1>1, <2>1, OrdenEmpieza DEF C3Inv
<1>2. CASE Recibe
  <2>1. /\ Total' = Total /\ Antes' = Antes /\ EnAnillo'
        /\ \A i \in 1 .. Total : Flujo(i)' = Flujo(i)
        /\ cola' = cola /\ ok3' = ok3
    BY <1>2, MueveRecibe
  <2>2. EnOrden /\ Antes <= Total
    BY Largos DEF C3Inv, EnOrden
  <2>3. \A i \in 1 .. Antes : i \in 1 .. Total
    BY <2>2, Largos
  <2>4. /\ cola' \in Seq(Paquetes) /\ Antes' \in 0 .. 14
        /\ \A i \in 1 .. Total', q \in 1 .. Len(cola'), o \in 1 .. 8 :
             i = Antes' + 8 * (q - 1) + o => Flujo(i)' = cola'[q][o]
    BY <2>1, <2>2 DEF EnOrden
  <2>5. \A i \in 1 .. Antes' :
          /\ Antes' - i \in {0, 2, 4} => Flujo(i)' # 255
          /\ Antes' - i >= 7 => Flujo(i)' = 0
    BY <2>1, <2>2, <2>3 DEF EnOrden
  <2>6. EnOrden'
    BY <2>4, <2>5 DEF EnOrden
  <2> QED
    BY <2>1, <2>6 DEF C3Inv
<1>3. CASE LeeByte
  BY <1>3, MueveLee, CompletoEsUltimo, OrdenLee DEF C3Inv
<1>4. CASE UsaAltura \/ UNCHANGED vars
  <2>1. UNCHANGED <<anillo, bu, oks, envio, sinLeer, cola>>
    BY <1>4 DEF UsaAltura, vars
  <2>2. EnAnillo' /\ ~ok3'
    BY <2>1 DEF C3Inv, EnAnillo, Lug, anillo, oks
  <2>3. EnOrden'
    BY <2>1 DEF C3Inv, EnOrden, Total, Antes, Flujo, Lug, anillo
  <2> QED
    BY <2>2, <2>3 DEF C3Inv
<1> QED
  BY <1>1, <1>2, <1>3, <1>4 DEF Next

LEMMA SiempreC3 ==
  ASSUME Formados, EsperaMax < N
  PROVE  Spec => []C3Inv
<1>1. Init => C3Inv
  BY C3Empezado
<1>2. C3Inv /\ [Next]_vars => C3Inv'
  <2>1. C3Inv /\ [Next]_vars => TypeOK' /\ EnvioBien'
    BY PasoTipo DEF C3Inv
  <2> QED
    BY <2>1, PasoC3
<1> QED
  BY <1>1, <1>2, PTL DEF Spec

(***************************************************************************)
(* While the ring does not overflow, no packet is missed, for every ring   *)
(* and all the packets of the format.                                      *)
(***************************************************************************)
THEOREM NadaFalta ==
  ASSUME Formados, EsperaMax < N
  PROVE  Spec => []NadaSeQueda
<1>1. C3Inv => NadaSeQueda
  <2> SUFFICES ASSUME C3Inv, envio = <<>>, IndWr = IndRd
               PROVE  cola = <<>>
    BY DEF NadaSeQueda
  <2>1. sinLeer = 0 /\ Len(envio) = 0
    BY SinNada, EmptySeq DEF C3Inv
  <2>2. Antes = 7 - 8 * Len(cola) /\ Antes >= 0 /\ Len(cola) \in Nat
    BY <2>1, Largos DEF C3Inv, EnOrden, Total
  <2>3. Len(cola) = 0
    BY <2>2
  <2> QED
    BY <2>3, EmptySeq DEF C3Inv, EnOrden
<1> QED
  BY <1>1, SiempreC3, PTL

(***************************************************************************)
(* Each height is delivered with its own azimuth and range, in the order   *)
(* of the packets: also when the program starts in the middle of a packet, *)
(* and whatever the windows out of step leave in ok1 and ok2.              *)
(***************************************************************************)
THEOREM SiempreEnOrden ==
  ASSUME Formados, EsperaMax < N
  PROVE  Spec => EntregaEnOrden
<1>1. C3Inv /\ [Next]_vars =>
        [Entrega => /\ cola # <<>>
                    /\ <<sector_alt', rango_alt', alt_alt'>> = Datos(Head(cola))]_vars
  <2> SUFFICES ASSUME C3Inv, Next, Entrega
               PROVE  /\ cola # <<>>
                      /\ <<sector_alt', rango_alt', alt_alt'>> = Datos(Head(cola))
    BY DEF Entrega
  <2>1. LeeByte
    BY DEF Next, Empieza, Recibe, UsaAltura, Entrega
  <2>2. Completo
    BY <2>1 DEF LeeByte, Entrega
  <2>3. /\ cola # <<>> /\ HayAz /\ HayRg /\ HayAlt
        /\ \A i \in 1 .. 8 : Ventana[i] = Head(cola)[i]
    BY <2>1, <2>2, Ventanas, CompletoEsUltimo
  <2>4. /\ sector_alt' = Ventana[4] % 16
        /\ rango_alt' = Diez(Ventana[6], Ventana[5])
        /\ alt_alt' = Diez(Ventana[8], Ventana[7])
    BY <2>1, <2>2, <2>3 DEF LeeByte
  <2> QED
    BY <2>3, <2>4 DEF Datos
<1> QED
  BY <1>1, SiempreC3, PTL DEF Spec, EntregaEnOrden
=============================================================================
