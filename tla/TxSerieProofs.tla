--------------------------- MODULE TxSerieProofs ---------------------------
(***************************************************************************)
(* Proofs about TxSerie, for every ring, set of frames and load: its types *)
(* and NuncaEnVacio even when the ring overflows, and, when it does not,   *)
(* that the ring is the queue of ColaBytes.                                *)
(***************************************************************************)
EXTENDS TxSerie, SequenceTheorems, TLAPS

LEMMA HayQueMandarInicial == Init => HayQueMandar
  BY DEF Init, HayQueMandar

LEMMA PasoHayQueMandar ==
  Pronta /\ HayQueMandar /\ [Next]_vars => HayQueMandar'
<1> SUFFICES ASSUME Pronta, HayQueMandar, [Next]_vars
             PROVE  HayQueMandar'
  OBVIOUS
<1> USE DEF HayQueMandar, Corre, Interrumpe
<1>1. ASSUME NEW t \in Tramas, Encola(t)
      PROVE  HayQueMandar'
  BY <1>1 DEF Encola
<1>2. CASE FinProcesa
  BY <1>2 DEF FinProcesa
<1>3. CASE Mira
  <2>1. pc' = "espera" => iwr # ird
    BY <1>3 DEF Mira
  <2>2. pc' \in {"espera", "procesa"} /\ ~IER
    BY <1>3 DEF Mira
  <2> QED
    BY <1>3, <2>1, <2>2 DEF Mira
<1>4. CASE Espera
  BY <1>4 DEF Espera
<1>5. CASE Habilita
  BY <1>5 DEF Habilita
<1>6. CASE TxBuf
  BY <1>6 DEF TxBuf
<1>7. CASE SaleByte
  BY <1>7 DEF SaleByte
<1>8. CASE UNCHANGED vars
  BY <1>8 DEF vars
<1> QED
  BY <1>1, <1>2, <1>3, <1>4, <1>5, <1>6, <1>7, <1>8 DEF Next, Bucle

(***************************************************************************)
(* With interrupts served before the next statement of the main loop,      *)
(* TxBuf() never runs on an empty ring, whatever is queued and even when   *)
(* the ring overflows.                                                     *)
(***************************************************************************)
THEOREM SiempreConDatos == ASSUME Pronta PROVE Spec => []NuncaEnVacio
<1>1. HayQueMandar => NuncaEnVacio
  BY DEF HayQueMandar, NuncaEnVacio, Interrumpe
<1>2. HayQueMandar /\ [Next]_vars => HayQueMandar'
  BY PasoHayQueMandar
<1> QED
  BY HayQueMandarInicial, <1>1, <1>2, PTL DEF Spec
-----------------------------------------------------------------------------
LEMMA Resto == ASSUME NEW a \in Int, NEW n \in Nat, n > 0
               PROVE  a % n \in 0 .. n - 1
  OBVIOUS

LEMMA Elemento == ASSUME NEW S, NEW s \in Seq(S), NEW j \in 1 .. Len(s)
                  PROVE  s[j] \in S
  OBVIOUS

LEMMA Anillo == N \in Nat /\ N > 0
  BY TxSerieAssumption

(* The frame goes to places of the ring, and only bytes go there.          *)
LEMMA PasoEncola ==
  ASSUME NEW t \in Tramas, TypeOK, Encola(t)
  PROVE  TypeOK'
<1>1. t \in Seq(0 .. 255)
  BY TxSerieAssumption
<1>2. ASSUME NEW i \in 0 .. N - 1
      PROVE  Buff'[i] \in 0 .. 255
  <2> DEFINE k == (i - iwr) % N
  <2>1. k \in 0 .. N - 1
    <3>1. i - iwr \in Int
      BY Anillo DEF TypeOK
    <3> QED
      BY <3>1, Anillo, Resto
  <2>2. Buff'[i] = IF k < Len(t) THEN t[k + 1] ELSE Buff[i]
    BY DEF Encola
  <2>3. k \in Nat
    BY <2>1, Anillo
  <2> HIDE DEF k
  <2>4. CASE k < Len(t)
    <3>1. k + 1 \in 1 .. Len(t)
      BY <1>1, <2>3, <2>4
    <3>2. t[k + 1] \in 0 .. 255
      BY <1>1, <3>1, Elemento
    <3> QED
      BY <2>2, <2>4, <3>2
  <2>5. CASE ~(k < Len(t))
    BY <2>2, <2>5 DEF TypeOK
  <2> QED
    BY <2>4, <2>5
<1>3. Buff' \in [0 .. N - 1 -> 0 .. 255]
  <2>1. Buff' = [i \in 0 .. N - 1 |-> Buff'[i]]
    BY DEF Encola
  <2> QED
    BY <1>2, <2>1
<1>4. iwr' \in 0 .. N - 1
  <2>1. iwr + Len(t) \in Int
    BY <1>1, Anillo DEF TypeOK
  <2> QED
    BY <2>1, Anillo, Resto DEF Encola
<1> QED
  BY <1>3, <1>4 DEF Encola, Corre, TypeOK

(***************************************************************************)
(* The state of the serial output keeps its types, for every ring and      *)
(* frames, even when the ring overflows: the indexes stay in it.           *)
(***************************************************************************)
THEOREM TipoCorrecto == Spec => []TypeOK
<1>1. Init => TypeOK
  <2> SUFFICES ASSUME Init
               PROVE  TypeOK
    OBVIOUS
  <2>1. Buff \in [0 .. N - 1 -> 0 .. 255]
    BY DEF Init
  <2>2. iwr \in 0 .. N - 1 /\ ird \in 0 .. N - 1
    BY Anillo DEF Init
  <2> QED
    BY <2>1, <2>2 DEF Init, TypeOK
<1>2. TypeOK /\ [Next]_vars => TypeOK'
  <2> SUFFICES ASSUME TypeOK, [Next]_vars
               PROVE  TypeOK'
    OBVIOUS
  <2>1. ASSUME NEW t \in Tramas, Encola(t)
        PROVE  TypeOK'
    BY <2>1, PasoEncola
  <2>2. CASE Bucle
    BY ZenonT(60), <2>2 DEF TypeOK, Bucle, FinProcesa, Mira, Espera, Habilita
  <2>3. CASE TxBuf
    <3>1. transmisor' \in 0 .. 255
      BY <2>3 DEF TypeOK, TxBuf
    <3>2. ird' \in 0 .. N - 1
      <4>1. ird + 1 \in Int
        BY Anillo DEF TypeOK
      <4> QED
        BY <2>3, <4>1, Anillo, Resto DEF TxBuf
    <3> QED
      BY <2>3, <3>1, <3>2 DEF TypeOK, TxBuf
  <2>4. CASE SaleByte
    BY <2>4 DEF TypeOK, SaleByte
  <2>5. CASE UNCHANGED vars
    BY <2>5 DEF TypeOK, vars
  <2> QED
    BY <2>1, <2>2, <2>3, <2>4, <2>5 DEF Next
<1> QED
  BY <1>1, <1>2, PTL DEF Spec
-----------------------------------------------------------------------------
(* Remainders of the ring: one turn of N is all that is ever taken away.   *)
LEMMA UnaVuelta ==
  ASSUME NEW a \in Int, NEW n \in Nat, n > 0
  PROVE  /\ a \in 0 .. n - 1 => a % n = a
         /\ a \in n .. 2 * n - 1 => a % n = a - n
         /\ a \in -n .. -1 => a % n = a + n
<1> DEFINE q == a \div n
           r == a % n
<1>1. q \in Int /\ r \in 0 .. n - 1 /\ a = n * q + r
  OBVIOUS
<1> HIDE DEF q, r
<1>2. /\ q >= 2 => n * q >= 2 * n
      /\ q >= 1 => n * q >= n
      /\ q <= -1 => n * q <= -n
      /\ q <= -2 => n * q <= -(2 * n)
  BY <1>1
<1>3. q = 0 \/ q = 1 \/ q = -1 \/ q >= 2 \/ q <= -2
  BY <1>1
<1> QED
  BY <1>1, <1>2, <1>3 DEF r

(* The i-th place from d, and the n bytes of the ring b from there.        *)
Lug(d, i)      == (d + i - 1) % N
Trozo(b, d, n) == [i \in 1 .. n |-> b[Lug(d, i)]]

Indices == 0 .. N - 1

LEMMA LugTipo ==
  ASSUME NEW d \in Indices, NEW i \in 1 .. N
  PROVE  /\ Lug(d, i) \in Indices
         /\ Lug(d, i) = IF d + i - 1 < N THEN d + i - 1 ELSE d + i - 1 - N
<1> DEFINE a == d + i - 1
<1>1. d \in Nat /\ i \in Nat /\ N \in Nat /\ a \in Int /\ a % N = Lug(d, i)
  BY Anillo DEF Indices, Lug
<1>2. CASE a \in 0 .. N - 1
  <2>1. a % N = a
    BY <1>1, <1>2, Anillo, UnaVuelta
  <2> QED
    BY <1>1, <1>2, <2>1 DEF Indices
<1>3. CASE a \in N .. 2 * N - 1
  <2>1. a % N = a - N
    BY <1>1, <1>3, Anillo, UnaVuelta
  <2> QED
    BY <1>1, <1>3, <2>1 DEF Indices
<1> QED
  BY <1>1, <1>2, <1>3 DEF Indices

LEMMA DistanciaTipo ==
  ASSUME NEW w \in Indices, NEW d \in Indices
  PROVE  /\ (w - d) % N \in Indices
         /\ (w - d) % N = IF w >= d THEN w - d ELSE w - d + N
<1>1. w - d \in Int /\ N \in Nat
  BY Anillo DEF Indices
<1>2. CASE w >= d
  <2>1. w - d \in 0 .. N - 1
    BY <1>1, <1>2 DEF Indices
  <2> QED
    BY <1>1, <1>2, <2>1, Anillo, UnaVuelta DEF Indices
<1>3. CASE ~(w >= d)
  <2>1. w - d \in -N .. -1
    BY <1>1, <1>3 DEF Indices
  <2>2. (w - d) % N = w - d + N
    BY <1>1, <2>1, Anillo, UnaVuelta
  <2> QED
    BY <1>1, <1>3, <2>1, <2>2 DEF Indices
<1> QED
  BY <1>2, <1>3

LEMMA TrozoTipo ==
  ASSUME NEW b \in [Indices -> 0 .. 255], NEW d \in Indices, NEW n \in 0 .. N
  PROVE  /\ Trozo(b, d, n) \in Seq(0 .. 255)
         /\ Len(Trozo(b, d, n)) = n
         /\ \A i \in 1 .. n : Trozo(b, d, n)[i] = b[Lug(d, i)]
<1>1. n \in Nat
  BY Anillo
<1>2. ASSUME NEW i \in 1 .. n
      PROVE  b[Lug(d, i)] \in 0 .. 255
  <2>1. i \in 1 .. N
    BY Anillo
  <2>2. Lug(d, i) \in Indices
    BY <2>1, LugTipo
  <2> QED
    BY <2>2
<1> HIDE DEF Lug
<1> QED
  BY <1>1, <1>2, IsASeq DEF Trozo

LEMMA TramaTipo ==
  ASSUME NEW t \in Tramas
  PROVE  t \in Seq(0 .. 255) /\ Len(t) \in Nat /\ t # <<>>
<1>1. t \in Seq(0 .. 255) /\ t # <<>>
  BY TxSerieAssumption
<1> QED
  BY <1>1, LenProperties

(* What waits, and what holds of the indexes.                              *)
Pendientes == Trozo(Buff, ird, EnCola)

LEMMA Forma ==
  TypeOK => /\ Buff \in [Indices -> 0 .. 255] /\ iwr \in Indices /\ ird \in Indices
            /\ EnCola \in Indices
            /\ EnCola = IF iwr >= ird THEN iwr - ird ELSE iwr - ird + N
  BY DistanciaTipo DEF TypeOK, EnCola, Indices

LEMMA PasoSaca ==
  ASSUME TypeOK, TypeOK', NuncaEnVacio, TxBuf
  PROVE  /\ Pendientes # <<>> /\ transmisor = Libre
         /\ transmisor' = Head(Pendientes)
         /\ Pendientes' = Tail(Pendientes)
<1> DEFINE n == EnCola
<1>1. /\ transmisor = Libre /\ iwr # ird /\ transmisor' = Buff[ird]
      /\ ird' = Lug(ird, 2) /\ Buff' = Buff /\ iwr' = iwr
  <2>1. ird' = (ird + 1) % N /\ ird + 2 - 1 = ird + 1
    BY Anillo DEF TxBuf, TypeOK
  <2> QED
    BY <2>1 DEF NuncaEnVacio, TxBuf, Interrumpe, Lug
<1>2. /\ iwr \in 0 .. N - 1 /\ ird \in 0 .. N - 1 /\ N \in Nat /\ 2 \in 1 .. N
      /\ ird' \in 0 .. N - 1
  BY TxSerieAssumption DEF TypeOK
<1>3. ird' = IF ird + 1 = N THEN 0 ELSE ird + 1
  BY <1>1, <1>2, LugTipo DEF Indices
<1>4. n \in 1 .. N - 1 /\ n' = n - 1
  <2>1. n \in 0 .. N - 1 /\ n = IF iwr >= ird THEN iwr - ird ELSE iwr - ird + N
    BY Forma DEF Indices
  <2>2. n' = (iwr - ird') % N
    BY <1>1 DEF EnCola
  <2>3. (iwr - ird') % N = IF iwr >= ird' THEN iwr - ird' ELSE iwr - ird' + N
    BY <1>2, DistanciaTipo DEF Indices
  <2> HIDE DEF n
  <2> QED
    BY <1>1, <1>2, <1>3, <2>1, <2>2, <2>3
<1> HIDE DEF n
<1>5. /\ Pendientes \in Seq(0 .. 255) /\ Len(Pendientes) = n
      /\ \A i \in 1 .. n : Pendientes[i] = Buff[Lug(ird, i)]
  <2>1. n \in 0 .. N
    BY <1>2, <1>4
  <2>2. Buff \in [Indices -> 0 .. 255] /\ ird \in Indices
    BY Forma
  <2> QED
    BY <2>1, <2>2, TrozoTipo DEF Pendientes, n
<1>6. /\ Pendientes' \in Seq(0 .. 255) /\ Len(Pendientes') = n - 1
      /\ \A i \in 1 .. n - 1 : Pendientes'[i] = Buff[Lug(ird', i)]
  <2>1. n - 1 \in 0 .. N
    BY <1>2, <1>4
  <2>2. Buff \in [Indices -> 0 .. 255] /\ ird' \in Indices
    BY <1>2, Forma DEF Indices
  <2>3. Pendientes' = Trozo(Buff, ird', n - 1)
    BY <1>1, <1>4 DEF Pendientes, n
  <2> QED
    BY ZenonT(60), <2>1, <2>2, <2>3, TrozoTipo
<1>7. Pendientes # <<>> /\ Head(Pendientes) = Buff[ird]
  <2>1. Pendientes[1] = Buff[Lug(ird, 1)] /\ Len(Pendientes) >= 1
    BY <1>4, <1>5
  <2>2. Lug(ird, 1) = ird
    BY <1>2, LugTipo DEF Indices
  <2> QED
    BY <1>5, <2>1, <2>2
<1>8. Pendientes' = Tail(Pendientes)
  <2>1. /\ Tail(Pendientes) \in Seq(0 .. 255) /\ Len(Tail(Pendientes)) = n - 1
        /\ \A i \in 1 .. n - 1 : Tail(Pendientes)[i] = Pendientes[i + 1]
    BY <1>5, <1>7, HeadTailProperties
  <2>2. ASSUME NEW i \in 1 .. n - 1
        PROVE  Pendientes'[i] = Tail(Pendientes)[i]
    <3>1. i \in 1 .. N /\ i + 1 \in 1 .. N /\ i + 1 \in 1 .. n
      BY <1>2, <1>4
    <3>2. Lug(ird', i) = Lug(ird, i + 1)
      <4>1. Lug(ird', i) = IF ird' + i - 1 < N THEN ird' + i - 1 ELSE ird' + i - 1 - N
        BY <1>2, <3>1, LugTipo DEF Indices
      <4>2. Lug(ird, i + 1) = IF ird + i < N THEN ird + i ELSE ird + i - N
        <5>1. ird + (i + 1) - 1 = ird + i
          BY <1>2, <3>1
        <5> QED
          BY <1>2, <3>1, <5>1, LugTipo DEF Indices
      <4> QED
        BY <1>2, <1>3, <1>4, <4>1, <4>2
    <3> QED
      BY <1>5, <1>6, <2>1, <3>1, <3>2
  <2> QED
    BY <1>6, <2>1, <2>2, SeqEqual
<1> QED
  BY <1>1, <1>7, <1>8

LEMMA PasoMete ==
  ASSUME Lugar < N, TypeOK, TypeOK', NEW t \in Tramas, Encola(t)
  PROVE  Pendientes' = Pendientes \o t
<1> DEFINE n == EnCola
           l == Len(t)
<1>1. /\ n + l <= Lugar
      /\ Buff' = [i \in Indices |->
                    IF (i - iwr) % N < l THEN t[((i - iwr) % N) + 1] ELSE Buff[i]]
      /\ iwr' = (iwr + l) % N /\ ird' = ird
  BY DEF Encola, Indices
<1>2. /\ iwr \in 0 .. N - 1 /\ ird \in 0 .. N - 1 /\ N \in Nat /\ N > 1 /\ Lugar \in Nat
      /\ iwr' \in 0 .. N - 1 /\ Buff \in [Indices -> 0 .. 255]
      /\ Buff' \in [Indices -> 0 .. 255]
  BY TxSerieAssumption DEF TypeOK, Indices
<1>3. /\ t \in Seq(0 .. 255) /\ l \in Nat
  BY TramaTipo
<1>4. n \in 0 .. N - 1 /\ n = IF iwr >= ird THEN iwr - ird ELSE iwr - ird + N
  BY Forma DEF Indices
<1>5. n' = (iwr' - ird) % N
  BY <1>1 DEF EnCola
<1>6. Pendientes = Trozo(Buff, ird, n) /\ Pendientes' = Trozo(Buff', ird, n')
  BY <1>1 DEF Pendientes
<1> HIDE DEF n, l
<1>7. n + l \in 0 .. N - 1
  BY <1>1, <1>2, <1>3, <1>4
<1>8. iwr' = IF iwr + l < N THEN iwr + l ELSE iwr + l - N
  <2>1. l + 1 \in 1 .. N /\ iwr + (l + 1) - 1 = iwr + l
    BY <1>2, <1>3, <1>4, <1>7
  <2>2. iwr' = Lug(iwr, l + 1)
    BY <1>1, <2>1 DEF Lug
  <2>3. Lug(iwr, l + 1) = IF iwr + (l + 1) - 1 < N THEN iwr + (l + 1) - 1
                          ELSE iwr + (l + 1) - 1 - N
    BY <1>2, <2>1, LugTipo DEF Indices
  <2> QED
    BY <1>2, <1>3, <2>1, <2>2, <2>3
<1>9. n' = n + l
  <2>1. n' = IF iwr' >= ird THEN iwr' - ird ELSE iwr' - ird + N
    BY <1>2, <1>5, DistanciaTipo DEF Indices
  <2> QED
    BY <1>2, <1>3, <1>4, <1>7, <1>8, <2>1
<1>10. ASSUME NEW i \in 1 .. n + l
       PROVE  Buff'[Lug(ird, i)] = IF i <= n THEN Buff[Lug(ird, i)] ELSE t[i - n]
  <2> DEFINE p == Lug(ird, i)
             k == (p - iwr) % N
  <2>1. i \in 1 .. N
    BY <1>2, <1>7
  <2>2. p \in 0 .. N - 1 /\ p = IF ird + i - 1 < N THEN ird + i - 1 ELSE ird + i - 1 - N
    BY <1>2, <2>1, LugTipo DEF Indices
  <2>3. Buff'[p] = IF k < l THEN t[k + 1] ELSE Buff[p]
    BY <1>1, <2>2 DEF Indices
  <2> HIDE DEF p
  <2>4. k = IF p >= iwr THEN p - iwr ELSE p - iwr + N
    BY <1>2, <2>2, DistanciaTipo DEF Indices
  <2> HIDE DEF k
  <2>5. CASE i <= n
    <3>1. k >= l
      BY <1>2, <1>3, <1>4, <1>7, <2>1, <2>2, <2>4, <2>5
    <3>2. k \in Int
      BY <1>2, <2>2, <2>4
    <3>3. ~(k < l)
      BY <1>3, <3>1, <3>2
    <3> QED
      BY <2>3, <2>5, <3>3 DEF p
  <2>6. CASE ~(i <= n)
    <3>1. k = i - 1 - n
      BY <1>2, <1>3, <1>4, <1>7, <2>1, <2>2, <2>4, <2>6
    <3>2. k < l /\ k + 1 = i - n
      BY <1>3, <1>4, <2>1, <3>1
    <3> QED
      BY <2>3, <2>6, <3>2 DEF p
  <2> QED
    BY <2>5, <2>6
<1>11. /\ Pendientes \in Seq(0 .. 255) /\ Len(Pendientes) = n
       /\ \A i \in 1 .. n : Pendientes[i] = Buff[Lug(ird, i)]
  <2>1. n \in 0 .. N /\ ird \in Indices
    BY <1>2, <1>4 DEF Indices
  <2> QED
    BY <1>2, <1>6, <2>1, TrozoTipo
<1>12. /\ Pendientes' \in Seq(0 .. 255) /\ Len(Pendientes') = n + l
       /\ \A i \in 1 .. n + l : Pendientes'[i] = Buff'[Lug(ird, i)]
  <2>1. n + l \in 0 .. N /\ ird \in Indices
    BY <1>2, <1>7 DEF Indices
  <2>2. Pendientes' = Trozo(Buff', ird, n + l)
    BY <1>6, <1>9
  <2> QED
    BY ZenonT(60), <1>2, <2>1, <2>2, TrozoTipo
<1>13. /\ Pendientes \o t \in Seq(0 .. 255) /\ Len(Pendientes \o t) = n + l
       /\ \A i \in 1 .. n + l : (Pendientes \o t)[i] = IF i <= n THEN Pendientes[i] ELSE t[i - n]
  <2>1. Len(t) = l
    BY DEF l
  <2>2. /\ Pendientes \o t \in Seq(0 .. 255)
        /\ Len(Pendientes \o t) = Len(Pendientes) + Len(t)
        /\ \A i \in 1 .. Len(Pendientes) + Len(t) :
             (Pendientes \o t)[i] = IF i <= Len(Pendientes) THEN Pendientes[i]
                                    ELSE t[i - Len(Pendientes)]
    BY <1>3, <1>11, ConcatProperties
  <2> QED
    BY <1>11, <2>1, <2>2
<1>14. ASSUME NEW i \in 1 .. n + l
       PROVE  Pendientes'[i] = (Pendientes \o t)[i]
  <2>1. i <= n => i \in 1 .. n
    BY <1>4, <1>7
  <2> QED
    BY <1>10, <1>11, <1>12, <1>13, <2>1
<1> QED
  BY <1>12, <1>13, <1>14, SeqEqual
-----------------------------------------------------------------------------
(* Every step of the ring is a step of the queue or leaves it as it is.    *)
PasoDeCola ==
  \/ Pendientes # <<>> /\ transmisor = Libre /\ transmisor' = Head(Pendientes)
     /\ Pendientes' = Tail(Pendientes)
  \/ transmisor # Libre /\ transmisor' = Libre /\ UNCHANGED Pendientes
  \/ \E t \in Tramas : Pendientes' = Pendientes \o t /\ UNCHANGED transmisor
  \/ UNCHANGED <<Pendientes, transmisor>>

LEMMA MismaCola == UNCHANGED <<Buff, iwr, ird>> => UNCHANGED Pendientes
  BY DEF Pendientes, EnCola

LEMMA PasoCola ==
  ASSUME Lugar < N, TypeOK, TypeOK', NuncaEnVacio, [Next]_vars
  PROVE  PasoDeCola
<1>1. ASSUME NEW t \in Tramas, Encola(t)
      PROVE  PasoDeCola
  BY <1>1, PasoMete DEF Encola, PasoDeCola
<1>2. CASE Bucle \/ UNCHANGED vars
  BY <1>2, MismaCola DEF Bucle, FinProcesa, Mira, Espera, Habilita, vars, PasoDeCola
<1>3. CASE TxBuf
  BY <1>3, PasoSaca DEF PasoDeCola
<1>4. CASE SaleByte
  BY <1>4, MismaCola DEF SaleByte, PasoDeCola
<1> QED
  BY <1>1, <1>2, <1>3, <1>4 DEF Next

(***************************************************************************)
(* While the bytes waiting are fewer than the ring has places, and the     *)
(* interrupts are prompt, the safety part of ImplementaCola: the bytes of  *)
(* the frames leave in the order they were queued, each once.              *)
(***************************************************************************)
THEOREM ImplementaPasosDeCola ==
  ASSUME Pronta, Lugar < N
  PROVE  Spec => C!CInit /\ [][C!CNext]_(C!cvars)
<1>1. Init => C!CInit
  <2> SUFFICES ASSUME Init
               PROVE  C!CInit
    OBVIOUS
  <2>1. EnCola = 0
    <3>1. 0 \in Indices /\ EnCola = (0 - 0) % N
      BY TxSerieAssumption DEF Init, EnCola, Indices
    <3> QED
      BY <3>1, DistanciaTipo
  <2>2. [i \in 1 .. 0 |-> Buff[(ird + i - 1) % N]] = <<>>
    OBVIOUS
  <2> QED
    BY <2>1, <2>2 DEF Init, C!CInit
<1>2. TypeOK /\ TypeOK' /\ NuncaEnVacio /\ [Next]_vars => [C!CNext]_(C!cvars)
  <2> USE DEF Pendientes, Trozo, Lug
  <2>1. C!Saca <=> /\ Pendientes # <<>> /\ transmisor = Libre
                   /\ transmisor' = Head(Pendientes) /\ Pendientes' = Tail(Pendientes)
    BY Zenon DEF C!Saca
  <2>2. C!Termina <=> transmisor # Libre /\ transmisor' = Libre /\ UNCHANGED Pendientes
    BY Zenon DEF C!Termina
  <2>3. \A t : C!Mete(t) <=> Pendientes' = Pendientes \o t /\ UNCHANGED transmisor
    BY Zenon DEF C!Mete
  <2>4. UNCHANGED C!cvars <=> UNCHANGED <<Pendientes, transmisor>>
    BY DEF C!cvars
  <2> QED
    BY <2>1, <2>2, <2>3, <2>4, PasoCola, Zenon DEF PasoDeCola, C!CNext
<1> QED
  BY <1>1, <1>2, TipoCorrecto, SiempreConDatos, PTL DEF Spec
=============================================================================
