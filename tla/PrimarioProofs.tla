-------------------------- MODULE PrimarioProofs --------------------------
(***************************************************************************)
(* Proofs about the invariants and the steps of Primario, for every turn   *)
(* length, gate, ageing limit, inhibited area and set of input words.      *)
(***************************************************************************)
EXTENDS Primario, SequenceTheorems, FiniteSetTheorems, WellFoundedInduction, TLAPS

(* RemoveAt drops one entry and keeps the order of the others: the shift   *)
(* loop at the end of the ageing loop.                                     *)
LEMMA RemoveAtProp ==
  ASSUME NEW S, NEW s \in Seq(S), NEW i \in 1 .. Len(s)
  PROVE  /\ RemoveAt(s, i) \in Seq(S)
         /\ Len(RemoveAt(s, i)) = Len(s) - 1
         /\ \A k \in 1 .. Len(s) - 1 :
              RemoveAt(s, i)[k] = IF k < i THEN s[k] ELSE s[k + 1]
<1> DEFINE a == SubSeq(s, 1, i - 1)
           b == SubSeq(s, i + 1, Len(s))
<1>1. /\ a \in Seq(S) /\ Len(a) = i - 1
      /\ \A k \in 1 .. i - 1 : a[k] = s[k]
  OBVIOUS
<1>2. /\ b \in Seq(S) /\ Len(b) = Len(s) - i
      /\ \A k \in 1 .. Len(s) - i : b[k] = s[k + i]
  OBVIOUS
<1>3. RemoveAt(s, i) = a \o b
  BY DEF RemoveAt
<1> HIDE DEF a, b
<1>4. /\ a \o b \in Seq(S)
      /\ Len(a \o b) = Len(a) + Len(b)
      /\ \A k \in 1 .. Len(a) + Len(b) :
           (a \o b)[k] = IF k <= Len(a) THEN a[k] ELSE b[k - Len(a)]
  BY <1>1, <1>2, ConcatProperties
<1>5. Len(s) \in Nat /\ Len(a) + Len(b) = Len(s) - 1
  BY <1>1, <1>2
<1>6. ASSUME NEW k \in 1 .. Len(s) - 1
      PROVE  (a \o b)[k] = IF k < i THEN s[k] ELSE s[k + 1]
  <2>1. CASE k < i
    BY <2>1, <1>1, <1>4, <1>5
  <2>2. CASE ~(k < i)
    <3>1. /\ k - Len(a) \in 1 .. Len(s) - i
          /\ (a \o b)[k] = b[k - Len(a)]
      BY <2>2, <1>1, <1>4, <1>5
    <3>2. b[k - Len(a)] = s[k - Len(a) + i]
      BY <3>1, <1>2
    <3>3. k - Len(a) + i = k + 1
      BY <1>1
    <3> QED
      BY <3>1, <3>2, <3>3, <2>2
  <2> QED
    BY <2>1, <2>2
<1> QED
  BY <1>3, <1>4, <1>5, <1>6
-----------------------------------------------------------------------------
(* Arithmetic of the words. *)

(* A turn has 16 sectors. *)
LEMMA SectorTipo ==
  ASSUME NEW a \in Azimuts
  PROVE  Sector(a) \in 0 .. 15
<1>1. VUELTA \in Nat \ {0} /\ 16 * a \in Nat
  BY PalabraAssumption DEF Azimuts
<1>2. /\ Sector(a) \in Int
      /\ VUELTA * Sector(a) <= 16 * a
      /\ 16 * a < VUELTA * (Sector(a) + 1)
  BY <1>1 DEF Sector
<1>3. 16 * a < VUELTA * 16
  BY PalabraAssumption DEF Azimuts
<1>4. VUELTA * Sector(a) < VUELTA * 16 /\ 0 < VUELTA * (Sector(a) + 1)
  BY <1>1, <1>2, <1>3
<1> QED
  BY <1>1, <1>2, <1>4

(* The centre of a target is an azimuth, whichever side of the north mark  *)
(* its two ends are.                                                       *)
LEMMA CentroTipo ==
  ASSUME NEW ini \in Azimuts, NEW act \in Azimuts
  PROVE  Centro(ini, act) \in Azimuts
<1>1. /\ VUELTA \in Nat \ {0} /\ ini \in 0 .. VUELTA - 1
      /\ AztFinal(act) \in Int /\ AztFinal(act) < VUELTA
  BY PalabraAssumption DEF Azimuts, AztFinal
<1>2. CASE AztFinal(act) < ini
  <2>1. (ini + AztFinal(act)) \div 2 + VUELTA \div 2 \in Int
    BY <1>1
  <2>2. \A x \in Int : x % VUELTA \in 0 .. VUELTA - 1
    BY <1>1
  <2> QED
    BY <1>2, <2>1, <2>2 DEF Centro, Azimuts
<1>3. CASE ~(AztFinal(act) < ini)
  BY <1>1, <1>3 DEF Centro, Azimuts
<1> QED
  BY <1>2, <1>3

-----------------------------------------------------------------------------
(***************************************************************************)
(* What the four ways to change prs do to the ranges in it.  Sep and Fuera *)
(* are Separados and FueraDeInhibicion of any sequence of targets.         *)
(***************************************************************************)
Sep(s) == \A i, k \in DOMAIN s :
            i # k => Modulo(s[i].rangoinic, s[k].rangoinic) > Puerta

Admitido(r) == r = 0 \/ r - RG \in AREA_INHIBICION .. 4095

Fuera(s) == \A i \in DOMAIN s : Admitido(s[i].rangoinic)

(* The fields of a target. *)
LEMMA Campos ==
  ASSUME NEW x \in Presencia
  PROVE  /\ x.rangoinic \in Nat /\ x.aztinic \in Azimuts
         /\ x.auscons \in 0 .. max_aus_cons - 1 /\ x.Altura \in 0 .. 255
         /\ \A c \in 0 .. max_aus_cons - 1 :
              /\ [x EXCEPT !.auscons = c] \in Presencia
              /\ [x EXCEPT !.auscons = c].rangoinic = x.rangoinic
         /\ \A h \in 0 .. 255 :
              /\ [x EXCEPT !.Altura = h] \in Presencia
              /\ [x EXCEPT !.Altura = h].rangoinic = x.rangoinic
  BY DEF Presencia

(* Changing other fields. *)
LEMMA MismosRangos ==
  ASSUME NEW s \in Seq(Presencia), NEW t,
         t = [k \in DOMAIN s |-> t[k]],
         \A k \in DOMAIN s : /\ t[k] \in Presencia
                             /\ t[k].rangoinic = s[k].rangoinic
  PROVE  /\ t \in Seq(Presencia) /\ Len(t) = Len(s)
         /\ Sep(s) => Sep(t)
         /\ Fuera(s) => Fuera(t)
<1>1. DOMAIN s = 1 .. Len(s) /\ Len(s) \in Nat /\ DOMAIN t = DOMAIN s
  BY LenProperties
<1>2. t \in Seq(Presencia) /\ Len(t) = Len(s)
  BY <1>1
<1>3. Sep(s) => Sep(t)
  BY <1>1, Zenon DEF Sep
<1>4. Fuera(s) => Fuera(t)
  BY <1>1, Zenon DEF Fuera
<1> QED
  BY <1>2, <1>3, <1>4

(* Setting the age or the height of a target. *)
LEMMA CambiaEdad ==
  ASSUME NEW s \in Seq(Presencia), NEW m, NEW c \in 0 .. max_aus_cons - 1
  PROVE  /\ [s EXCEPT ![m].auscons = c] \in Seq(Presencia)
         /\ Len([s EXCEPT ![m].auscons = c]) = Len(s)
         /\ Sep(s) => Sep([s EXCEPT ![m].auscons = c])
         /\ Fuera(s) => Fuera([s EXCEPT ![m].auscons = c])
<1> DEFINE t == [s EXCEPT ![m].auscons = c]
<1>1. t = [k \in DOMAIN s |-> t[k]] /\ DOMAIN t = DOMAIN s
  BY Zenon
<1>2. ASSUME NEW k \in DOMAIN s
      PROVE  t[k] \in Presencia /\ t[k].rangoinic = s[k].rangoinic
  <2>1. s[k] \in Presencia
    BY ElementOfSeq, LenProperties
  <2>2. t[k] = [s[k] EXCEPT !.auscons = c] \/ t[k] = s[k]
    BY Zenon
  <2>3. /\ [s[k] EXCEPT !.auscons = c] \in Presencia
        /\ [s[k] EXCEPT !.auscons = c].rangoinic = s[k].rangoinic
    BY <2>1, Campos
  <2> HIDE DEF t
  <2> QED
    BY <2>1, <2>2, <2>3, Zenon
<1> HIDE DEF t
<1>3. /\ t \in Seq(Presencia) /\ Len(t) = Len(s)
      /\ Sep(s) => Sep(t)
      /\ Fuera(s) => Fuera(t)
  BY <1>1, <1>2, MismosRangos, Zenon
<1> QED
  BY <1>3 DEF t

LEMMA CambiaAltura ==
  ASSUME NEW s \in Seq(Presencia), NEW m, NEW h \in 0 .. 255
  PROVE  /\ [s EXCEPT ![m].Altura = h] \in Seq(Presencia)
         /\ Len([s EXCEPT ![m].Altura = h]) = Len(s)
         /\ Sep(s) => Sep([s EXCEPT ![m].Altura = h])
         /\ Fuera(s) => Fuera([s EXCEPT ![m].Altura = h])
<1> DEFINE t == [s EXCEPT ![m].Altura = h]
<1>1. t = [k \in DOMAIN s |-> t[k]] /\ DOMAIN t = DOMAIN s
  BY Zenon
<1>2. ASSUME NEW k \in DOMAIN s
      PROVE  t[k] \in Presencia /\ t[k].rangoinic = s[k].rangoinic
  <2>1. s[k] \in Presencia
    BY ElementOfSeq, LenProperties
  <2>2. t[k] = [s[k] EXCEPT !.Altura = h] \/ t[k] = s[k]
    BY Zenon
  <2>3. /\ [s[k] EXCEPT !.Altura = h] \in Presencia
        /\ [s[k] EXCEPT !.Altura = h].rangoinic = s[k].rangoinic
    BY <2>1, Campos
  <2> HIDE DEF t
  <2> QED
    BY <2>1, <2>2, <2>3, Zenon
<1> HIDE DEF t
<1>3. /\ t \in Seq(Presencia) /\ Len(t) = Len(s)
      /\ Sep(s) => Sep(t)
      /\ Fuera(s) => Fuera(t)
  BY <1>1, <1>2, MismosRangos, Zenon
<1> QED
  BY <1>3 DEF t

(* Removing a target. *)
LEMMA UnoMenos ==
  ASSUME NEW s \in Seq(Presencia), NEW i \in 1 .. Len(s)
  PROVE  /\ RemoveAt(s, i) \in Seq(Presencia)
         /\ Len(RemoveAt(s, i)) = Len(s) - 1
         /\ Sep(s) => Sep(RemoveAt(s, i))
         /\ Fuera(s) => Fuera(RemoveAt(s, i))
<1> DEFINE t == RemoveAt(s, i)
           de(k) == IF k < i THEN k ELSE k + 1
<1>1. /\ t \in Seq(Presencia) /\ Len(t) = Len(s) - 1
      /\ \A k \in 1 .. Len(s) - 1 : t[k] = s[de(k)]
  BY RemoveAtProp
<1> HIDE DEF t
<1>2. \A k \in DOMAIN t : de(k) \in DOMAIN s /\ t[k] = s[de(k)]
  BY <1>1
<1>3. \A k, l \in DOMAIN t : k # l => de(k) # de(l)
  BY <1>1
<1>4. Sep(s) => Sep(t)
  BY <1>2, <1>3 DEF Sep
<1>5. Fuera(s) => Fuera(t)
  BY <1>2 DEF Fuera
<1> QED
  BY <1>1, <1>4, <1>5 DEF t

(* An echo: it opens a target only if no other is in its gate. *)
LEMMA RegistraProp ==
  ASSUME prs \in Seq(Presencia), aztant \in Azimuts, NEW r \in Nat
  PROVE  /\ Registra(r) \in Seq(Presencia)
         /\ Sep(prs) => Sep(Registra(r))
         /\ Fuera(prs) /\ Admitido(r) => Fuera(Registra(r))
<1>1. CASE Correlacion(r) # {}
  <2>1. 0 \in 0 .. max_aus_cons - 1
    BY PalabraAssumption
  <2>2. Registra(r) = [prs EXCEPT ![MasCercano(r)].auscons = 0]
    BY <1>1, Zenon DEF Registra
  <2> QED
    <3>1. /\ [prs EXCEPT ![MasCercano(r)].auscons = 0] \in Seq(Presencia)
          /\ Sep(prs) => Sep([prs EXCEPT ![MasCercano(r)].auscons = 0])
          /\ Fuera(prs) => Fuera([prs EXCEPT ![MasCercano(r)].auscons = 0])
      BY <2>1, CambiaEdad
    <3> QED
      BY <2>2, <3>1, Zenon
<1>2. CASE Correlacion(r) = {}
  <2> DEFINE t == Append(prs, Nuevo(r))
  <2>1. Nuevo(r) \in Presencia /\ Nuevo(r).rangoinic = r
    BY PalabraAssumption DEF Nuevo, Presencia
  <2>2. /\ t \in Seq(Presencia) /\ Len(t) = Len(prs) + 1
        /\ \A k \in 1 .. Len(prs) : t[k] = prs[k]
        /\ t[Len(prs) + 1] = Nuevo(r)
    BY <2>1, AppendProperties
  <2> HIDE DEF t
  <2>3. \A k \in 1 .. Len(prs) : /\ Modulo(r, prs[k].rangoinic) > Puerta
                                 /\ Modulo(prs[k].rangoinic, r) > Puerta
    <3> SUFFICES ASSUME NEW k \in 1 .. Len(prs)
                 PROVE  /\ Modulo(r, prs[k].rangoinic) > Puerta
                        /\ Modulo(prs[k].rangoinic, r) > Puerta
      OBVIOUS
    <3>1. prs[k].rangoinic \in Nat /\ k \in DOMAIN prs
      <4>1. prs[k] \in Presencia /\ k \in DOMAIN prs
        BY ElementOfSeq, LenProperties
      <4> QED
        BY <4>1, Campos, Zenon
    <3>2. Puerta \in Nat
      BY PalabraAssumption DEF Puerta
    <3>3. ~(Modulo(r, prs[k].rangoinic) <= Puerta)
      BY <1>2, <3>1 DEF Correlacion
    <3> QED
      BY <3>1, <3>2, <3>3 DEF Modulo
  <2>4. Sep(prs) => Sep(t)
    BY <2>1, <2>2, <2>3 DEF Sep
  <2>5. Fuera(prs) /\ Admitido(r) => Fuera(t)
    BY <2>1, <2>2 DEF Fuera
  <2> QED
    BY <1>2, <2>2, <2>4, <2>5 DEF Registra, t
<1> QED
  BY <1>1, <1>2
-----------------------------------------------------------------------------
(***************************************************************************)
(* The inductive invariant.  The pending echo must not be inside the       *)
(* inhibited area either, since it is what becomes the next target.        *)
(***************************************************************************)
IInv ==
  /\ TypeOK /\ Separados /\ FueraDeInhibicion
  /\ Admitido(rangoinic)

(* The part of it that is about prs. *)
PrsBien(s) == s \in Seq(Presencia) /\ Sep(s) /\ Fuera(s)

LEMMA PrsDeIInv ==
  /\ IInv => PrsBien(prs) /\ Len(prs) \in Nat
  /\ PrsBien(prs) => Separados /\ FueraDeInhibicion
  /\ PrsBien(prs)' => Separados' /\ FueraDeInhibicion'
<1>1. IInv => Len(prs) \in Nat
  BY LenProperties DEF IInv, TypeOK
<1>2. PrsBien(prs) <=> prs \in Seq(Presencia) /\ Separados /\ FueraDeInhibicion
  BY Zenon DEF PrsBien, Sep, Fuera, Separados, FueraDeInhibicion, Admitido
<1>3. IInv => prs \in Seq(Presencia) /\ Separados /\ FueraDeInhibicion
  BY SMTT(40) DEF IInv, TypeOK
<1>4. PrsBien(prs)' => Separados' /\ FueraDeInhibicion'
  BY Zenon DEF PrsBien, Sep, Fuera, Separados, FueraDeInhibicion, Admitido
<1> QED
  BY <1>1, <1>2, <1>3, <1>4

LEMMA IInvInicial == Init => IInv
<1> SUFFICES ASSUME Init PROVE IInv
  OBVIOUS
<1>1. TypeOK
  BY PalabraAssumption DEF Init, InitSalida, TypeOK, Azimuts
<1>2. Separados /\ FueraDeInhibicion
  BY DEF Init, InitSalida, Separados, FueraDeInhibicion
<1>3. Admitido(rangoinic)
  BY DEF Init, InitSalida, Admitido
<1> QED
  BY <1>1, <1>2, <1>3 DEF IInv

(* Words are classified by disjoint intervals. *)
LEMMA Lectura ==
  ASSUME NEW w \in Lecturas
  PROVE  /\ w \in Nat
         /\ EsAzimut(w) => w - AZ \in Azimuts
         /\ Procesable(w) => Admitido(w)
<1>1. EsValida(w) /\ (EsAzimut(w) => w - AZ \in Azimuts)
  BY PrimarioAssumption
<1>2. w \in Nat
  <2>1. CASE EsAzimut(w)
    BY <2>1 DEF EsAzimut, AZ
  <2>2. CASE EsRango(w)
    BY <2>2 DEF EsRango, RG
  <2>3. CASE EsAltura(w)
    BY <2>3 DEF EsAltura, ALT
  <2> QED
    BY <1>1, <2>1, <2>2, <2>3 DEF EsValida
<1>3. Procesable(w) => Admitido(w)
  BY <1>2, PrimarioAssumption DEF Procesable, Admitido, EsRango, RG
<1> QED
  BY <1>1, <1>2, <1>3

LEMMA PasoAzimut ==
  ASSUME IInv, NEW w \in Lecturas, AzimutAceptado(w) \/ AzimutRechazado(w)
  PROVE  IInv'
<1>1. w \in Nat /\ w - AZ \in Azimuts /\ Sector(w - AZ) \in 0 .. 15
  BY Lectura, SectorTipo DEF AzimutAceptado, AzimutRechazado
<1>2. CASE AzimutAceptado(w)
  <2>1. PrsBien(prs') /\ Len(prs') \in Nat
    <3>1. rangoinic \in Nat /\ aztant \in Azimuts /\ Admitido(rangoinic)
      BY DEF IInv, TypeOK
    <3>2. PrsBien(Registra(rangoinic))
      BY <3>1, PrsDeIInv, RegistraProp, Zenon DEF PrsBien
    <3>3. PrsBien(prs')
      BY <1>2, <3>2, PrsDeIInv, Zenon DEF AzimutAceptado
    <3> QED
      BY <3>3, LenProperties DEF PrsBien
  <2>2. TypeOK'
    BY <1>1, <1>2, <2>1 DEF IInv, TypeOK, AzimutAceptado, CambiaSector,
                            PrsBien, altura3
  <2>3. Admitido(rangoinic)'
    BY <1>2 DEF IInv, AzimutAceptado, Admitido
  <2> QED
    BY <2>1, <2>2, <2>3, PrsDeIInv, Zenon DEF IInv, PrsBien
<1>3. CASE AzimutRechazado(w)
  <2>1. PrsBien(prs') /\ Len(prs') \in Nat /\ (prs' = prs \/ prs' = <<>>)
    <3>1. PrsBien(<<>>)
      BY DEF PrsBien, Sep, Fuera
    <3>2. PrsBien(prs')
      BY <1>3, <3>1, PrsDeIInv, Zenon DEF AzimutRechazado
    <3> QED
      BY <1>3, <3>2, LenProperties DEF PrsBien, AzimutRechazado
  <2>2. TypeOK'
    <3>1. pc' = "lee" /\ j' = 1
      BY <1>3 DEF IInv, TypeOK, AzimutRechazado
    <3> QED
      BY <1>3, <2>1, <3>1 DEF IInv, TypeOK, AzimutRechazado, PrsBien, altura3,
                              sectores
  <2>3. Admitido(rangoinic)'
    BY <1>3 DEF IInv, AzimutRechazado, Admitido
  <2> QED
    BY <2>1, <2>2, <2>3, PrsDeIInv, Zenon DEF IInv, PrsBien
<1> QED
  BY <1>2, <1>3

(* The ageing loop. *)
LEMMA PasoBarre ==
  ASSUME IInv, Barre
  PROVE  IInv'
<1>1. PrsBien(prs) /\ Len(prs) \in Nat /\ j \in 1 .. Len(prs) + 1
      /\ aztant \in Azimuts
  BY PrsDeIInv DEF IInv, TypeOK
<1>2. ASSUME j <= Len(prs)
      PROVE  /\ j \in 1 .. Len(prs)
             /\ prs[j].aztinic \in Azimuts /\ prs[j].rangoinic \in Nat
             /\ prs[j].auscons \in Nat /\ prs[j].Altura \in 0 .. 255
             /\ PrsBien(RemoveAt(prs, j))
             /\ Len(RemoveAt(prs, j)) = Len(prs) - 1
  <2>1. j \in 1 .. Len(prs) /\ prs \in Seq(Presencia)
    BY <1>1, <1>2 DEF PrsBien
  <2>2. prs[j] \in Presencia
    BY <2>1, ElementOfSeq
  <2>3. /\ prs[j].aztinic \in Azimuts /\ prs[j].rangoinic \in Nat
        /\ prs[j].auscons \in 0 .. max_aus_cons - 1
        /\ prs[j].Altura \in 0 .. 255
    BY <2>2, Campos, Zenon
  <2>4. /\ PrsBien(RemoveAt(prs, j))
        /\ Len(RemoveAt(prs, j)) = Len(prs) - 1
    BY <1>1, <2>1, UnoMenos, Zenon DEF PrsBien
  <2> QED
    BY <2>1, <2>3, <2>4
<1>3. CASE Envejece
  <2>1. prs[j].auscons + 1 \in 0 .. max_aus_cons - 1
    BY <1>2, <1>3, PalabraAssumption DEF Envejece, Caduca
  <2>2. prs' = [prs EXCEPT ![j].auscons = prs[j].auscons + 1]
    BY <1>3, Zenon DEF Envejece
  <2>3. PrsBien(prs') /\ Len(prs') = Len(prs)
    BY <1>1, <2>1, <2>2, CambiaEdad, Zenon DEF PrsBien
  <2>4. TypeOK'
    BY SMTT(40), <1>1, <1>2, <1>3, <2>3 DEF IInv, TypeOK, Envejece, PrsBien, altura3,
                                  alturaFifo, sectores
  <2>5. Admitido(rangoinic)'
    BY <1>3 DEF IInv, Admitido, Envejece, sectores
  <2> QED
    BY <2>3, <2>4, <2>5, PrsDeIInv, Zenon DEF IInv, PrsBien
<1>4. CASE CaducaCorto
  <2>1. PrsBien(prs') /\ Len(prs') = Len(prs) - 1
    BY <1>2, <1>4 DEF CaducaCorto
  <2>2. TypeOK'
    BY <1>1, <1>2, <1>4, <2>1 DEF IInv, TypeOK, CaducaCorto, PrsBien, altura3,
                                  alturaFifo, sectores
  <2>3. Admitido(rangoinic)'
    BY <1>4 DEF IInv, Admitido, CaducaCorto, sectores
  <2> QED
    BY <2>1, <2>2, <2>3, PrsDeIInv, Zenon DEF IInv, PrsBien
<1>5. ASSUME NEW cerca \in BOOLEAN, CaducaBlanco(cerca)
      PROVE  IInv'
  <2>1. PrsBien(prs') /\ Len(prs') = Len(prs) - 1
    BY <1>2, <1>5 DEF CaducaBlanco
  <2> DEFINE a == Centro(prs[j].aztinic, aztant)
             h == IF cerca THEN alt_alt ELSE prs[j].Altura
  <2>2. a \in Azimuts /\ h \in 0 .. 1023 /\ prs[j].rangoinic \in Nat
    BY SMTT(40), <1>1, <1>2, <1>5, CentroTipo DEF CaducaBlanco, IInv, TypeOK
  <2>3. blancos(a, prs[j].rangoinic, h)
    BY <1>5 DEF CaducaBlanco
  <2>4. PlotBuffUDP' \in [az : Azimuts, rg : Nat, alt : 0 .. 1023,
                          girado : BOOLEAN]
    <3>1. PlotBuffUDP \in [az : Azimuts, rg : Nat, alt : 0 .. 1023,
                           girado : BOOLEAN]
      BY DEF IInv, TypeOK
    <3> HIDE DEF a, h
    <3>2. CASE AlSerie(a)
      BY <2>2, <2>3, <3>2 DEF blancos
    <3>3. CASE ~AlSerie(a)
      <4>1. PICK b \in BOOLEAN : PlotBuffUDP' = [PlotBuffUDP EXCEPT !.girado = b]
        <5>1. PlotBuffUDP' = [PlotBuffUDP EXCEPT !.girado = ~PlotBuffUDP.girado]
          BY <2>3, <3>3 DEF blancos
        <5>2. (~PlotBuffUDP.girado) \in BOOLEAN
          OBVIOUS
        <5> QED
          BY <5>1, <5>2, Zenon
      <4> QED
        BY <3>1, <4>1
    <3> QED
      BY <3>2, <3>3
  <2>5. TypeOK'
    BY SMTT(40), <1>1, <1>2, <1>5, <2>1, <2>4 DEF IInv, TypeOK, CaducaBlanco, PrsBien,
                                        alturaFifo, sectores
  <2>6. Admitido(rangoinic)'
    BY <1>5 DEF IInv, Admitido, CaducaBlanco, sectores
  <2> QED
    BY <2>1, <2>5, <2>6, PrsDeIInv, Zenon DEF IInv, PrsBien
<1>6. CASE FinBarrido
  BY <1>6 DEF FinBarrido, IInv, TypeOK, Separados, FueraDeInhibicion,
              Admitido, seguimiento, altura3, alturaFifo, sectores
<1> QED
  BY <1>3, <1>4, <1>5, <1>6 DEF Barre

(* Range and height words. *)
LEMMA PasoEco ==
  ASSUME IInv, NEW w \in Lecturas,
         RangoIgnorado(w) \/ PrimerEco(w) \/ OtroEco(w) \/ RangoAltura(w)
           \/ Altura(w)
  PROVE  IInv'
<1>1. /\ w \in Nat /\ (Procesable(w) => Admitido(w))
      /\ PrsBien(prs) /\ Len(prs) \in Nat
      /\ aztant \in Azimuts /\ rangoinic \in Nat /\ Admitido(rangoinic)
  BY Lectura, PrsDeIInv DEF IInv, TypeOK
<1>2. CASE RangoIgnorado(w) \/ Altura(w)
  <2>1. w % 256 \in 0 .. 255
    BY <1>1
  <2>2. UNCHANGED <<seguimiento, altura3, sectores, PlotBuffUDP, pc, j>>
    BY <1>2 DEF RangoIgnorado, Altura
  <2>3. PrsAltura' \in {0, 1} /\ AlturaTemp' \in 0 .. 255
    <3>1. CASE RangoIgnorado(w)
      BY <3>1 DEF RangoIgnorado, IInv, TypeOK, alturaFifo
    <3>2. CASE Altura(w)
      BY <2>1, <3>2 DEF Altura
    <3> QED
      BY <1>2, <3>1, <3>2
  <2>4. TypeOK'
    BY <2>2, <2>3 DEF IInv, TypeOK, seguimiento, altura3, sectores
  <2> QED
    BY <2>2, <2>4 DEF IInv, Separados, FueraDeInhibicion,
                      Admitido, seguimiento, sectores
<1>3. CASE PrimerEco(w)
  BY <1>1, <1>3 DEF PrimerEco, IInv, TypeOK, Separados, FueraDeInhibicion,
     Admitido, altura3, alturaFifo, sectores
<1>4. CASE OtroEco(w)
  <2>1. PrsBien(prs') /\ Len(prs') \in Nat
    <3>1. PrsBien(Registra(rangoinic))
      BY <1>1, RegistraProp, Zenon DEF PrsBien
    <3> QED
      BY <1>4, <3>1, LenProperties DEF OtroEco, PrsBien
  <2>2. TypeOK'
    BY <1>1, <1>4, <2>1 DEF IInv, TypeOK, OtroEco, PrsBien, altura3, alturaFifo,
                            sectores
  <2>3. Admitido(rangoinic)'
    BY <1>1, <1>4 DEF IInv, Admitido, OtroEco, sectores
  <2> QED
    BY <2>1, <2>2, <2>3, PrsDeIInv, Zenon DEF IInv, PrsBien
<1>5. CASE RangoAltura(w)
  <2>1. PrsBien(prs') /\ Len(prs') = Len(prs)
    <3>1. AlturaTemp \in 0 .. 255 /\ prs \in Seq(Presencia)
      BY <1>1 DEF IInv, TypeOK, PrsBien
    <3>2. PrsBien([prs EXCEPT ![MasCercano(w)].Altura = AlturaTemp])
          /\ Len([prs EXCEPT ![MasCercano(w)].Altura = AlturaTemp]) = Len(prs)
      BY ZenonT(60), <1>1, <3>1, CambiaAltura DEF PrsBien
    <3> QED
      BY <1>1, <1>5, <3>2, Zenon DEF RangoAltura
  <2>2. TypeOK'
    BY SMTT(40), <1>1, <1>5, <2>1 DEF IInv, TypeOK, RangoAltura, PrsBien, altura3, sectores
  <2>3. Admitido(rangoinic)'
    BY <1>5 DEF IInv, Admitido, RangoAltura, sectores
  <2> QED
    BY <2>1, <2>2, <2>3, PrsDeIInv, Zenon DEF IInv, PrsBien
<1> QED
  BY <1>2, <1>3, <1>4, <1>5

LEMMA PasoIInv == IInv /\ [Next]_vars => IInv'
<1> SUFFICES ASSUME IInv, [Next]_vars
             PROVE  IInv'
  OBVIOUS
<1>1. ASSUME NEW w \in Lecturas, Lee(w)
      PROVE  IInv'
  BY <1>1, PasoAzimut, PasoEco DEF Lee
<1>2. CASE Barre
  BY <1>2, PasoBarre
<1>3. ASSUME NEW s \in SectoresCom3, NEW h \in AlturasCom3, LlegaAltura(s, h)
      PROVE  IInv'
  <2>1. TypeOK'
    BY <1>3, PrimarioAssumption DEF LlegaAltura, IInv, TypeOK, seguimiento, alturaFifo, sectores
  <2>2. Separados' /\ FueraDeInhibicion' /\ Admitido(rangoinic)'
    BY <1>3 DEF LlegaAltura, IInv, Separados, FueraDeInhibicion, Admitido, seguimiento
  <2> QED
    BY <2>1, <2>2 DEF IInv
<1>4. CASE PideResincronia
  BY <1>4 DEF PideResincronia, IInv, TypeOK, Separados, FueraDeInhibicion,
     Admitido, altura3, alturaFifo, sectores
<1>5. CASE UNCHANGED vars
  BY <1>5 DEF vars, IInv, TypeOK, Separados, FueraDeInhibicion,
     Admitido, seguimiento, altura3, alturaFifo, sectores
<1> QED
  BY <1>1, <1>2, <1>3, <1>4, <1>5 DEF Next

(***************************************************************************)
(* Type correctness of the tracker's state, for every input.               *)
(***************************************************************************)
THEOREM TipoCorrecto == Spec => []TypeOK
<1>1. IInv => TypeOK
  BY DEF IInv
<1> QED
  BY IInvInicial, PasoIInv, <1>1, PTL DEF Spec

(***************************************************************************)
(* No object is ever two entries of prs: live targets stay out of each     *)
(* other's gate through every interleaving of echoes, heights,             *)
(* resynchronisations and ageing.                                          *)
(***************************************************************************)
THEOREM SiempreSeparados == Spec => []Separados
<1>1. IInv => Separados
  BY DEF IInv
<1> QED
  BY IInvInicial, PasoIInv, <1>1, PTL DEF Spec

(***************************************************************************)
(* Ranges of the inhibited area are never tracked, except the range 0 that *)
(* the start-up leaves pending.                                            *)
(***************************************************************************)
THEOREM SiempreFueraDeInhibicion == Spec => []FueraDeInhibicion
<1>1. IInv => FueraDeInhibicion
  BY DEF IInv
<1> QED
  BY IInvInicial, PasoIInv, <1>1, PTL DEF Spec
-----------------------------------------------------------------------------
(***************************************************************************)
(* The bound on the number of targets, by counting: cut the ranges in      *)
(* slots of Puerta + 1 counts; two targets never share a slot.             *)
(***************************************************************************)
Casilla(r) == IF r = 0 THEN 0 ELSE 1 + (r - RG) \div (Puerta + 1)

(* Numbers with the same quotient differ by less than the divisor. *)
LEMMA MismoCociente ==
  ASSUME NEW d \in Nat \ {0}, NEW x \in Nat, NEW y \in Nat,
         x \div d = y \div d
  PROVE  x - y < d /\ y - x < d
<1>1. /\ x \div d \in Nat
      /\ d * (x \div d) <= x /\ x < d * (x \div d) + d
      /\ d * (y \div d) <= y /\ y < d * (y \div d) + d
  OBVIOUS
<1> QED
  BY <1>1

LEMMA CasillaTipo ==
  ASSUME NEW r \in Nat, Admitido(r)
  PROVE  Casilla(r) \in 0 .. Casillas - 1
<1>1. Puerta \in Nat
  BY PalabraAssumption DEF Puerta
<1>2. CASE r = 0
  BY <1>1, <1>2 DEF Casilla, Casillas
<1>3. CASE r # 0
  <2> DEFINE d == Puerta + 1
             x == r - RG
  <2>1. x \in 0 .. 4095 /\ d \in Nat \ {0}
    BY <1>1, <1>3, PrimarioAssumption DEF Admitido, RG
  <2> HIDE DEF d, x
  <2>2. /\ x \div d \in Nat /\ 4095 \div d \in Nat
        /\ d * (x \div d) <= x /\ 4095 < d * (4095 \div d) + d
    BY <2>1
  <2>3. x \div d <= 4095 \div d
    BY <2>1, <2>2
  <2> QED
    BY <1>3, <2>2, <2>3 DEF Casilla, Casillas, d, x
<1> QED
  BY <1>2, <1>3

LEMMA CasillaSepara ==
  ASSUME NEW r \in Nat, NEW s \in Nat, Admitido(r), Admitido(s),
         Casilla(r) = Casilla(s)
  PROVE  Modulo(r, s) <= Puerta
<1>1. Puerta \in Nat /\ (r # 0 => r - RG \in Nat) /\ (s # 0 => s - RG \in Nat)
  BY PalabraAssumption, PrimarioAssumption DEF Puerta, Admitido, RG
<1>2. CASE r = 0 \/ s = 0
  <2>1. r = 0 /\ s = 0
    BY <1>1, <1>2 DEF Casilla
  <2> QED
    BY <1>1, <2>1 DEF Modulo
<1>3. CASE r # 0 /\ s # 0
  <2> DEFINE d == Puerta + 1
             x == r - RG
             y == s - RG
  <2>1. d \in Nat \ {0} /\ x \in Nat /\ y \in Nat /\ x \div d = y \div d
    BY <1>1, <1>3 DEF Casilla
  <2> HIDE DEF d, x, y
  <2>2. x - y < d /\ y - x < d
    BY <2>1, MismoCociente
  <2> QED
    BY <1>1, <2>2 DEF Modulo, d, x, y, RG
<1> QED
  BY <1>2, <1>3

LEMMA SeparadosCaben == IInv => CabeEnPrs
<1> SUFFICES ASSUME IInv, ~CabeEnPrs
             PROVE  FALSE
  OBVIOUS
<1>1. /\ prs \in Seq(Presencia) /\ Len(prs) \in Nat
      /\ Casillas \in Nat /\ Len(prs) > Casillas
  <2>1. Puerta \in Nat
    BY PalabraAssumption DEF Puerta
  <2>2. Casillas \in Nat
    BY <2>1 DEF Casillas
  <2> QED
    BY <2>2, PrsDeIInv DEF PrsBien, CabeEnPrs
<1> DEFINE S == 1 .. Len(prs)
           T == 0 .. Casillas - 1
           f == [i \in S |-> Casilla(prs[i].rangoinic)]
<1>2. \A i \in S : prs[i].rangoinic \in Nat /\ Admitido(prs[i].rangoinic)
  <2> TAKE i \in S
  <2>1. prs[i] \in Presencia
    BY <1>1, ElementOfSeq
  <2>2. Fuera(prs) /\ i \in DOMAIN prs
    BY <1>1, PrsDeIInv, LenProperties DEF PrsBien
  <2> QED
    BY <2>1, <2>2, Campos, Zenon DEF Fuera
<1>3. f \in [S -> T]
  BY <1>2, CasillaTipo
<1>4. /\ IsFiniteSet(S) /\ IsFiniteSet(T)
      /\ Cardinality(T) < Cardinality(S)
  <2>1. 1 \in Int /\ 0 \in Int /\ Len(prs) \in Int /\ Casillas - 1 \in Int
    BY <1>1
  <2>2. /\ IsFiniteSet(S)
        /\ Cardinality(S) = IF 1 > Len(prs) THEN 0 ELSE Len(prs) - 1 + 1
    BY <2>1, FS_Interval, Zenon
  <2>3. /\ IsFiniteSet(T)
        /\ Cardinality(T) = IF 0 > Casillas - 1 THEN 0 ELSE (Casillas - 1) - 0 + 1
    BY <2>1, FS_Interval, Zenon
  <2> HIDE DEF S, T
  <2> QED
    BY <1>1, <2>2, <2>3
<1>5. PICK x \in S, y \in S : x # y /\ f[x] = f[y]
  <2> HIDE DEF S, T, f
  <2> QED
    BY <1>3, <1>4, FS_PigeonHole, Zenon
<1>6. Modulo(prs[x].rangoinic, prs[y].rangoinic) <= Puerta
  BY <1>2, <1>5, CasillaSepara
<1>7. Modulo(prs[x].rangoinic, prs[y].rangoinic) > Puerta
  BY <1>1, <1>5, LenProperties DEF IInv, Separados
<1>8. Modulo(prs[x].rangoinic, prs[y].rangoinic) \in Nat /\ Puerta \in Nat
  BY <1>2, PalabraAssumption DEF Modulo, Puerta
<1> QED
  BY <1>6, <1>7, <1>8

(***************************************************************************)
(* The number of live targets is bounded, although Primario() appends to   *)
(* prs without any check of indice.                                        *)
(***************************************************************************)
THEOREM SiempreCabe == Spec => []CabeEnPrs
  BY IInvInicial, PasoIInv, SeparadosCaben, PTL DEF Spec

(* With the gate of Primari1.h, the bound is below prs[1024]. *)
COROLLARY SiempreCabeEn1024 ==
  ASSUME tolerancia = 9
  PROVE  Spec => [](Len(prs) <= 1023)
<1>1. Casillas = 821
  BY DEF Casillas, Puerta
<1>2. IInv => Len(prs) <= 1023
  BY <1>1, SeparadosCaben, PrsDeIInv DEF CabeEnPrs
<1> QED
  BY IInvInicial, PasoIInv, <1>2, PTL DEF Spec
-----------------------------------------------------------------------------
(* A set of numbers has a least one. *)
LEMMA HayMinimo ==
  ASSUME NEW T, T \subseteq Nat, T # {}
  PROVE  \E x \in T : \A y \in T : x <= y
<1>1. PICK x \in T : \A y \in T : ~(<<y, x>> \in OpToRel(<, Nat))
  BY NatLessThanWellFounded, WFMin, Zenon
<1>2. ASSUME NEW y \in T
      PROVE  x <= y
  <2>1. x \in Nat /\ y \in Nat
    BY <1>2
  <2>2. ~(<<y, x>> \in OpToRel(<, Nat))
    BY <1>1, <1>2
  <2>3. ~(y < x)
    BY <2>1, <2>2 DEF OpToRel
  <2> QED
    BY <2>1, <2>3
<1> QED
  BY <1>2

(* The search of the nearest target finds one that correlates. *)
LEMMA MasCercanoProp ==
  ASSUME prs \in Seq(Presencia), NEW r \in Nat, Correlacion(r) # {}
  PROVE  MasCercano(r) \in Correlacion(r)
<1> DEFINE S == Correlacion(r)
           d(i) == Modulo(r, prs[i].rangoinic)
<1>1. S \subseteq Nat /\ \A i \in S : d(i) \in Nat
  <2>1. S \subseteq DOMAIN prs /\ DOMAIN prs = 1 .. Len(prs) /\ Len(prs) \in Nat
    BY LenProperties DEF Correlacion
  <2>2. ASSUME NEW i \in S
        PROVE  d(i) \in Nat
    <3>1. prs[i] \in Presencia
      BY <2>1, ElementOfSeq
    <3>2. prs[i].rangoinic \in Nat
      BY <3>1, Campos
    <3> QED
      BY <3>2 DEF Modulo
  <2> QED
    BY <2>1, <2>2
<1>2. PICK m \in S : \A k \in S : d(m) <= d(k)
  <2> DEFINE D == {d(i) : i \in S}
  <2>1. D \subseteq Nat /\ D # {}
    BY <1>1
  <2>2. PICK x \in D : \A y \in D : x <= y
    BY <2>1, HayMinimo
  <2> QED
    BY <2>2
<1>3. PICK i \in S : d(i) = d(m) /\ \A k \in S : d(k) = d(m) => i <= k
  <2> DEFINE T == {k \in S : d(k) = d(m)}
  <2>1. T \subseteq Nat /\ T # {}
    BY <1>1
  <2>2. PICK x \in T : \A y \in T : x <= y
    BY <2>1, HayMinimo
  <2> QED
    BY <2>2
<1>4. \A k \in S : d(i) < d(k) \/ (d(i) = d(k) /\ i <= k)
  BY <1>1, <1>2, <1>3
<1> QED
  BY <1>4, Zenon DEF MasCercano

Igual(x, y) == x.rangoinic = y.rangoinic /\ x.aztinic = y.aztinic

(* An echo leaves every target where it was, and one in its gate is fresh. *)
LEMMA RegistraRefresca ==
  ASSUME prs \in Seq(Presencia), NEW r \in Nat
  PROVE  /\ \A i \in DOMAIN prs : i \in DOMAIN Registra(r) /\ Igual(Registra(r)[i], prs[i])
         /\ \E i \in DOMAIN Registra(r) : /\ Modulo(Registra(r)[i].rangoinic, r) <= Puerta
                                          /\ Registra(r)[i].auscons = 0
<1>1. CASE Correlacion(r) # {}
  <2> DEFINE m == MasCercano(r)
             t == [prs EXCEPT ![m].auscons = 0]
  <2>1. m \in DOMAIN prs /\ Modulo(r, prs[m].rangoinic) <= Puerta
    BY <1>1, MasCercanoProp DEF Correlacion
  <2>2. prs[m] \in Presencia
    BY <2>1, ElementOfSeq, LenProperties
  <2> HIDE DEF m
  <2>3. /\ DOMAIN t = DOMAIN prs
        /\ \A i \in DOMAIN prs : t[i] = IF i = m THEN [prs[i] EXCEPT !.auscons = 0] ELSE prs[i]
    BY Zenon
  <2>4. /\ t[m].rangoinic = prs[m].rangoinic /\ t[m].aztinic = prs[m].aztinic
        /\ t[m].auscons = 0
    BY <2>1, <2>2, <2>3 DEF Presencia
  <2> HIDE DEF t
  <2>5. \A i \in DOMAIN prs : Igual(t[i], prs[i])
    BY <2>3, <2>4, Zenon DEF Igual
  <2>6. Modulo(t[m].rangoinic, r) <= Puerta
    <3>1. prs[m].rangoinic \in Nat
      BY <2>2, Campos
    <3> QED
      BY <2>1, <2>4, <3>1 DEF Modulo
  <2>7. Registra(r) = t
    BY <1>1, Zenon DEF Registra, t, m
  <2> QED
    BY <2>1, <2>3, <2>4, <2>5, <2>6, <2>7, Zenon
<1>2. CASE Correlacion(r) = {}
  <2> DEFINE t == Append(prs, Nuevo(r))
  <2>1. /\ DOMAIN t = 1 .. Len(prs) + 1 /\ DOMAIN prs = 1 .. Len(prs) /\ Len(prs) \in Nat
        /\ \A k \in 1 .. Len(prs) : t[k] = prs[k]
        /\ t[Len(prs) + 1] = Nuevo(r)
    BY LenProperties
  <2> HIDE DEF t
  <2>2. /\ Modulo(t[Len(prs) + 1].rangoinic, r) <= Puerta
        /\ t[Len(prs) + 1].auscons = 0
    BY <2>1, PalabraAssumption DEF Nuevo, Modulo, Puerta
  <2>3. Registra(r) = t
    BY <1>2 DEF Registra, t
  <2> QED
    BY <2>1, <2>2, <2>3 DEF Igual
<1> QED
  BY <1>1, <1>2
-----------------------------------------------------------------------------
(* The two action properties, of one step. *)
Queda(s, i) == \E k \in DOMAIN s : Igual(s[k], prs[i])

LEMMA PasoEcoNoSePierde ==
  ASSUME IInv, [Next]_vars
  PROVE  \/ bandera = 1
         \/ bandera' = 0 /\ rangoinic' = rangoinic
         \/ PrsAltura = 1 /\ pc = "lee" /\ aztant' = aztant
         \/ \E i \in DOMAIN prs' : /\ Modulo(prs'[i].rangoinic, rangoinic) <= Puerta
                                   /\ prs'[i].auscons = 0
<1>1. prs \in Seq(Presencia) /\ rangoinic \in Nat /\ bandera \in {0, 1}
  BY DEF IInv, TypeOK
<1> SUFFICES ASSUME bandera = 0
             PROVE  \/ bandera' = 0 /\ rangoinic' = rangoinic
                    \/ PrsAltura = 1 /\ pc = "lee" /\ aztant' = aztant
                    \/ prs' = Registra(rangoinic)
  BY <1>1, RegistraRefresca, Zenon
<1>2. ASSUME NEW w \in Lecturas, Lee(w)
      PROVE  \/ bandera' = 0 /\ rangoinic' = rangoinic
             \/ PrsAltura = 1 /\ pc = "lee" /\ aztant' = aztant
             \/ prs' = Registra(rangoinic)
  <2>1. CASE AzimutAceptado(w) \/ OtroEco(w)
    BY <2>1 DEF AzimutAceptado, OtroEco
  <2>2. CASE RangoAltura(w)
    BY <2>2 DEF RangoAltura
  <2>3. CASE AzimutRechazado(w) \/ RangoIgnorado(w) \/ PrimerEco(w) \/ Altura(w)
    BY <2>3 DEF AzimutRechazado, RangoIgnorado, PrimerEco, Altura, seguimiento
  <2> QED
    BY <1>2, <2>1, <2>2, <2>3 DEF Lee
<1>3. CASE Barre
  BY <1>3 DEF Barre, Envejece, CaducaCorto, CaducaBlanco, FinBarrido, seguimiento
<1>4. ASSUME NEW s \in SectoresCom3, NEW h \in AlturasCom3, LlegaAltura(s, h)
      PROVE  bandera' = 0 /\ rangoinic' = rangoinic
  BY <1>4 DEF LlegaAltura, seguimiento
<1>5. CASE PideResincronia \/ UNCHANGED vars
  BY <1>5 DEF PideResincronia, vars, seguimiento
<1> QED
  BY <1>2, <1>3, <1>4, <1>5 DEF Next

(* The ageing loop forgets the target it is at, when it has aged.          *)
LEMMA SoloElQueCaduca ==
  ASSUME prs \in Seq(Presencia), j \in 1 .. Len(prs), Caduca, NEW i \in DOMAIN prs
  PROVE  \/ Queda(RemoveAt(prs, j), i)
         \/ i = j /\ prs[i].auscons = max_aus_cons - 1
<1> DEFINE t == RemoveAt(prs, j)
<1>1. /\ t \in Seq(Presencia) /\ Len(t) = Len(prs) - 1
      /\ \A k \in 1 .. Len(prs) - 1 : t[k] = IF k < j THEN prs[k] ELSE prs[k + 1]
  BY RemoveAtProp
<1>2. /\ Len(prs) \in Nat /\ DOMAIN prs = 1 .. Len(prs)
      /\ DOMAIN t = 1 .. Len(prs) - 1
  BY <1>1, LenProperties
<1> HIDE DEF t
<1>3. CASE i = j
  <2>1. prs[i] \in Presencia
    BY <1>3, ElementOfSeq
  <2>2. prs[i].auscons \in 0 .. max_aus_cons - 1
    BY <2>1, Campos, Zenon
  <2> QED
    BY <1>3, <2>2, PalabraAssumption DEF Caduca
<1>4. CASE i < j
  <2>1. i \in DOMAIN t /\ t[i] = prs[i]
    BY <1>1, <1>2, <1>4
  <2> QED
    BY <2>1, Zenon DEF Queda, Igual, t
<1>5. CASE j < i
  <2>1. i - 1 \in DOMAIN t /\ t[i - 1] = prs[i]
    BY <1>1, <1>2, <1>5
  <2> QED
    BY <2>1, Zenon DEF Queda, Igual, t
<1> QED
  BY <1>2, <1>3, <1>4, <1>5

LEMMA PasoSoloCaducan ==
  ASSUME IInv, [Next]_vars, NEW i \in DOMAIN prs
  PROVE  \/ Queda(prs', i)
         \/ prs' = <<>> /\ banderainic' = 1
         \/ pc = "barre" /\ i = j /\ prs[i].auscons = max_aus_cons - 1
<1>1. /\ prs \in Seq(Presencia) /\ rangoinic \in Nat /\ DOMAIN prs = 1 .. Len(prs)
      /\ Len(prs) \in Nat /\ j \in 1 .. Len(prs) + 1 /\ prs[i] \in Presencia
  BY ElementOfSeq, LenProperties DEF IInv, TypeOK
<1>2. Queda(prs, i) /\ Queda(Registra(rangoinic), i)
  BY <1>1, RegistraRefresca, Zenon DEF Queda, Igual
<1>3. ASSUME NEW m, NEW x
      PROVE  Queda([prs EXCEPT ![m].auscons = x], i) /\ Queda([prs EXCEPT ![m].Altura = x], i)
  <2>1. /\ [prs EXCEPT ![m].auscons = x][i] \in {prs[i], [prs[i] EXCEPT !.auscons = x]}
        /\ i \in DOMAIN [prs EXCEPT ![m].auscons = x]
    BY Zenon
  <2>2. /\ [prs EXCEPT ![m].Altura = x][i] \in {prs[i], [prs[i] EXCEPT !.Altura = x]}
        /\ i \in DOMAIN [prs EXCEPT ![m].Altura = x]
    BY Zenon
  <2>3. /\ [prs[i] EXCEPT !.auscons = x].rangoinic = prs[i].rangoinic
        /\ [prs[i] EXCEPT !.auscons = x].aztinic = prs[i].aztinic
        /\ [prs[i] EXCEPT !.Altura = x].rangoinic = prs[i].rangoinic
        /\ [prs[i] EXCEPT !.Altura = x].aztinic = prs[i].aztinic
    BY <1>1 DEF Presencia
  <2> QED
    BY <2>1, <2>2, <2>3, Zenon DEF Queda, Igual
<1>4. ASSUME NEW w \in Lecturas, Lee(w)
      PROVE  Queda(prs', i) \/ (prs' = <<>> /\ banderainic' = 1)
  <2>1. CASE AzimutAceptado(w) \/ OtroEco(w)
    <3>1. prs' = Registra(rangoinic) \/ prs' = prs
      BY <2>1 DEF AzimutAceptado, OtroEco
    <3> QED
      BY <1>2, <3>1
  <2>2. CASE RangoAltura(w)
    <3>1. prs' = [prs EXCEPT ![MasCercano(w)].Altura = AlturaTemp] \/ prs' = prs
      BY <2>2 DEF RangoAltura
    <3>2. Queda([prs EXCEPT ![MasCercano(w)].Altura = AlturaTemp], i)
      BY <1>3
    <3> QED
      BY <1>2, <3>1, <3>2, Zenon
  <2>3. CASE AzimutRechazado(w)
    BY <1>2, <2>3 DEF AzimutRechazado
  <2>4. CASE RangoIgnorado(w) \/ PrimerEco(w) \/ Altura(w)
    BY <1>2, <2>4 DEF RangoIgnorado, PrimerEco, Altura, seguimiento
  <2> QED
    BY <1>4, <2>1, <2>2, <2>3, <2>4 DEF Lee
<1>5. CASE Barre
  <2>1. CASE Envejece
    <3>1. prs' = [prs EXCEPT ![j].auscons = prs[j].auscons + 1]
      BY <2>1, Zenon DEF Envejece
    <3> QED
      BY <1>3, <3>1
  <2>2. CASE CaducaCorto \/ \E cerca \in BOOLEAN : CaducaBlanco(cerca)
    <3>1. /\ pc = "barre" /\ j \in 1 .. Len(prs) /\ Caduca
          /\ prs' = RemoveAt(prs, j)
      BY <1>1, <2>2 DEF CaducaCorto, CaducaBlanco
    <3> QED
      BY <1>1, <3>1, SoloElQueCaduca
  <2>3. CASE FinBarrido
    BY <1>2, <2>3 DEF FinBarrido, seguimiento
  <2> QED
    BY <1>5, <2>1, <2>2, <2>3 DEF Barre
<1>6. ASSUME NEW s \in SectoresCom3, NEW h \in AlturasCom3, LlegaAltura(s, h)
      PROVE  Queda(prs', i)
  BY <1>2, <1>6 DEF LlegaAltura, seguimiento
<1>7. CASE PideResincronia \/ UNCHANGED vars
  BY <1>2, <1>7 DEF PideResincronia, vars, seguimiento
<1> QED
  BY <1>4, <1>5, <1>6, <1>7 DEF Next

(***************************************************************************)
(* An echo is never lost: see EcoNoSePierde.                               *)
(***************************************************************************)
THEOREM NuncaSePierdeUnEco == Spec => EcoNoSePierde
<1>1. IInv /\ [Next]_vars =>
        [\/ bandera = 1
         \/ bandera' = 0 /\ rangoinic' = rangoinic
         \/ PrsAltura = 1 /\ pc = "lee" /\ aztant' = aztant
         \/ \E i \in DOMAIN prs' : /\ Modulo(prs'[i].rangoinic, rangoinic) <= Puerta
                                   /\ prs'[i].auscons = 0]_vars
  BY PasoEcoNoSePierde
<1> QED
  BY IInvInicial, PasoIInv, <1>1, PTL DEF Spec, EcoNoSePierde

(***************************************************************************)
(* A target disappears only by ageing or with all the others: see          *)
(* SoloCaducan.                                                            *)
(***************************************************************************)
THEOREM SiempreSoloCaducan == Spec => SoloCaducan
<1>1. IInv /\ [Next]_vars =>
        [\A i \in DOMAIN prs :
           \/ \E k \in DOMAIN prs' : prs'[k].rangoinic = prs[i].rangoinic
                                  /\ prs'[k].aztinic = prs[i].aztinic
           \/ prs' = <<>> /\ banderainic' = 1
           \/ pc = "barre" /\ i = j /\ prs[i].auscons = max_aus_cons - 1]_vars
  BY PasoSoloCaducan, Zenon DEF Queda, Igual
<1> QED
  BY IInvInicial, PasoIInv, <1>1, PTL DEF Spec, SoloCaducan
=============================================================================
