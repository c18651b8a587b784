-------------------------- MODULE ExtractorProofs --------------------------
(***************************************************************************)
(* Proofs about the gate and about its composition with the tracker and    *)
(* the eco mode, for every turn, FIFO and set of words.  First the gate    *)
(* alone: every step of Extractor is one of CtrlFifo.  At the end, what a  *)
(* working front end is refused (Antena).                                  *)
(***************************************************************************)
EXTENDS Antena, Lejanos, SequenceTheorems, WellFoundedInduction, TLAPS

(***************************************************************************)
(* Lists of targets, and those beyond the area of the old program in them: *)
(* what VersionesProofs needs of the tracker, apart from its state.        *)
(***************************************************************************)

(* The ranges heard, as numbers.                                           *)
LEMMA OidosSon ==
  ASSUME NEW c \in Oidos
  PROVE  /\ c \in Nat /\ Puerta \in Nat /\ Puerta <= tolerancia
         /\ c # 0 => c \in Palabras /\ EsRango(c) /\ c >= RG
<1>1. \A w : EsRango(w) => w \in Nat /\ w >= RG
  BY DEF EsRango, RG
<1> QED
  BY <1>1, PalabraAssumption DEF Oidos, Puerta

(* An echo beyond the old area is never within the gate of one inside it,  *)
(* nor a cell of the same target.                                          *)
LEMMA Alejados ==
  ASSUME NEW O, Separadas(O), NEW c \in O, NEW l \in O,
         c \in Oidos, l \in Oidos, Lejos(l), ~Lejos(c)
  PROVE  /\ l - c > tolerancia
         /\ Modulo(l, c) > Puerta /\ Modulo(c, l) > Puerta
<1>1. c \in Nat /\ l \in Nat /\ Puerta \in Nat /\ Puerta <= tolerancia /\ tolerancia \in Nat
  BY OidosSon, PalabraAssumption
<1>2. l - c > tolerancia
  BY DEF Separadas
<1> QED
  BY <1>1, <1>2 DEF Modulo

(* The fields of a target, for the provers.                                *)
LEMMA CamposDe ==
  ASSUME NEW x \in Blancos
  PROVE  x.rangoinic \in Oidos /\ x.auscons \in Int
  BY DEF Blancos

LEMMA CambiaEdadDe ==
  ASSUME NEW x \in Blancos, NEW v \in Int, NEW e, e = [x EXCEPT !.auscons = v]
  PROVE  e \in Blancos /\ e.rangoinic = x.rangoinic /\ e.auscons = v
  BY DEF Blancos

LEMMA CambiaAlturaDe ==
  ASSUME NEW x \in Blancos, NEW v \in Int, NEW e, e = [x EXCEPT !.Altura = v]
  PROVE  e \in Blancos /\ e.rangoinic = x.rangoinic
  BY DEF Blancos

(* A set of naturals that is not empty has a least element.                *)
LEMMA MinimoDe ==
  ASSUME NEW T, T \subseteq Nat, T # {}
  PROVE  \E x \in T : \A y \in T : x <= y
<1>1. PICK x \in T : \A y \in T : ~(<<y, x>> \in OpToRel(<, Nat))
  BY NatLessThanWellFounded, WFMin, Zenon
<1>2. ASSUME NEW y \in T
      PROVE  x <= y
  <2>1. x \in Nat /\ y \in Nat
    BY <1>2
  <2>2. ~(<<y, x>> \in OpToRel(<, Nat))
    BY <1>1, <1>2
  <2>3. ~(y < x)
    BY <2>1, <2>2 DEF OpToRel
  <2> QED
    BY <2>1, <2>3
<1> QED
  BY <1>2

(* The search of Correlaciono() finds a target when there is one: the      *)
(* nearest, the first of those at the same distance.                       *)
LEMMA HayMasCercano ==
  ASSUME NEW p \in Seq(Blancos), NEW r \in Oidos, Correlacionan(p, r) # {}
  PROVE  /\ ElMasCercano(p, r) \in Correlacionan(p, r)
         /\ \A k \in Correlacionan(p, r) :
              LET i == ElMasCercano(p, r) IN
              \/ Modulo(r, p[i].rangoinic) < Modulo(r, p[k].rangoinic)
              \/ Modulo(r, p[i].rangoinic) = Modulo(r, p[k].rangoinic) /\ i <= k
<1> DEFINE S == Correlacionan(p, r)
           d(i) == Modulo(r, p[i].rangoinic)
<1>1. S \subseteq Nat /\ \A i \in S : d(i) \in Nat
  <2>1. S \subseteq DOMAIN p /\ DOMAIN p = 1 .. Len(p) /\ Len(p) \in Nat
    BY LenProperties DEF Correlacionan
  <2>2. ASSUME NEW i \in S
        PROVE  d(i) \in Nat
    <3>1. p[i] \in Blancos
      BY <2>1, ElementOfSeq
    <3>2. p[i].rangoinic \in Nat /\ r \in Nat
      <4>1. p[i].rangoinic \in Oidos
        BY <3>1, CamposDe
      <4> QED
        BY <4>1, OidosSon
    <3> QED
      BY <3>2 DEF Modulo
  <2> QED
    BY <2>1, <2>2
<1>2. PICK m \in S : \A k \in S : d(m) <= d(k)
  <2> DEFINE D == {d(i) : i \in S}
  <2>1. D \subseteq Nat /\ D # {}
    BY <1>1
  <2>2. PICK x \in D : \A y \in D : x <= y
    BY <2>1, MinimoDe
  <2> QED
    BY <2>2
<1>3. PICK i \in S : d(i) = d(m) /\ \A k \in S : d(k) = d(m) => i <= k
  <2> DEFINE T == {k \in S : d(k) = d(m)}
  <2>1. T \subseteq Nat /\ T # {}
    BY <1>1
  <2>2. PICK x \in T : \A y \in T : x <= y
    BY <2>1, MinimoDe
  <2> QED
    BY <2>2
<1>4. \A k \in S : d(i) < d(k) \/ (d(i) = d(k) /\ i <= k)
  BY <1>1, <1>2, <1>3
<1> QED
  BY <1>4, Zenon DEF ElMasCercano

(* Both lists give an echo beyond the old area to the same target.         *)
LEMMA PasaAlOtro ==
  ASSUME NEW O, Separadas(O), NEW p, NEW q, Serie(p), Serie(q), Mismos(p, q),
         RangosDe(p) \subseteq O, RangosDe(q) \subseteq O,
         NEW r \in O, r \in Oidos, Lejos(r), NEW i \in Correlacionan(p, r)
  PROVE  /\ Lejos(p[i].rangoinic) /\ i \in DOMAIN p
         /\ \E k \in Correlacionan(q, r) : q[k] = p[i]
<1>1. i \in DOMAIN p /\ Modulo(r, p[i].rangoinic) <= Puerta
  BY DEF Correlacionan
<1>2. p[i].rangoinic \in Oidos /\ p[i].rangoinic \in O
  BY <1>1, CamposDe, ElementOfSeq DEF Serie, RangosDe
<1>3. Lejos(p[i].rangoinic)
  <2>1. Modulo(r, p[i].rangoinic) \in Nat /\ Puerta \in Nat
    BY <1>2, OidosSon DEF Modulo
  <2> QED
    BY <1>1, <1>2, <2>1, Alejados
<1>4. i \in Nat
  BY <1>1, LenProperties DEF Serie
<1>5. Ordenados(p, p[i], p[i])
  BY <1>1, <1>3, <1>4 DEF Ordenados
<1>6. Ordenados(q, p[i], p[i])
  BY <1>5 DEF Mismos
<1> QED
  BY <1>1, <1>3, <1>6 DEF Ordenados, Correlacionan

(* Lists that agree beyond the old area give an echo there to the same     *)
(* target.                                                                 *)
LEMMA MismoElegido ==
  ASSUME NEW O, Separadas(O), NEW p, NEW q, Serie(p), Serie(q), Mismos(p, q),
         RangosDe(p) \subseteq O, RangosDe(q) \subseteq O,
         NEW r \in O, r \in Oidos, Lejos(r), Correlacionan(p, r) # {}
  PROVE  /\ Correlacionan(q, r) # {}
         /\ ElMasCercano(p, r) \in DOMAIN p /\ ElMasCercano(q, r) \in DOMAIN q
         /\ Lejos(p[ElMasCercano(p, r)].rangoinic)
         /\ p[ElMasCercano(p, r)] = q[ElMasCercano(q, r)]
<1> DEFINE i == ElMasCercano(p, r)
           k == ElMasCercano(q, r)
           d(x) == Modulo(r, x.rangoinic)
<1>1. /\ i \in Correlacionan(p, r)
      /\ \A n \in Correlacionan(p, r) :
           d(p[i]) < d(p[n]) \/ (d(p[i]) = d(p[n]) /\ i <= n)
  BY HayMasCercano DEF Serie
<1>2. PICK k1 \in Correlacionan(q, r) : q[k1] = p[i]
  BY <1>1, PasaAlOtro
<1>3. /\ k \in Correlacionan(q, r)
      /\ \A n \in Correlacionan(q, r) :
           d(q[k]) < d(q[n]) \/ (d(q[k]) = d(q[n]) /\ k <= n)
  BY <1>2, HayMasCercano DEF Serie
<1>4. Mismos(q, p)
  BY DEF Mismos
<1>5. PICK i1 \in Correlacionan(p, r) : p[i1] = q[k]
  BY <1>3, <1>4, PasaAlOtro
<1> HIDE DEF i, k
<1>6. /\ i \in DOMAIN p /\ Lejos(p[i].rangoinic)
      /\ i1 \in DOMAIN p /\ Lejos(p[i1].rangoinic)
      /\ k \in DOMAIN q /\ k1 \in DOMAIN q
  BY <1>1, <1>2, <1>3, <1>4, <1>5, PasaAlOtro
<1>7. d(p[i]) \in Nat /\ d(p[i1]) \in Nat
  <2>1. ASSUME NEW x \in Blancos PROVE d(x) \in Nat
    BY CamposDe, OidosSon DEF Modulo
  <2> QED
    BY <1>6, <2>1, ElementOfSeq DEF Serie
<1>8. /\ i \in Nat /\ i1 \in Nat /\ k \in Nat /\ k1 \in Nat
  BY <1>6, LenProperties DEF Serie
<1> HIDE DEF d
<1>9. i <= i1 /\ k <= k1
  BY <1>1, <1>2, <1>3, <1>5, <1>7
<1>10. Ordenados(q, p[i], p[i1])
  BY <1>6, <1>9 DEF Ordenados, Mismos
<1>11. PICK a \in DOMAIN q, b \in DOMAIN q : a <= b /\ q[a] = p[i] /\ q[b] = p[i1]
  BY <1>10 DEF Ordenados
<1>12. a = k1 /\ b = k
  BY <1>2, <1>5, <1>6, <1>11 DEF Serie
<1>13. k = k1
  BY <1>8, <1>9, <1>11, <1>12
<1> QED
  BY <1>2, <1>3, <1>6, <1>13 DEF i, k

(* One element changes: the list is what it was with the change made.      *)
LEMMA TrasCambiar ==
  ASSUME NEW p, Serie(p), NEW m \in DOMAIN p, NEW e \in Blancos,
         e.rangoinic = p[m].rangoinic, NEW t, t = [p EXCEPT ![m] = e]
  PROVE  /\ Serie(t)
         /\ \A x, y : Ordenados(t, x, y) <=> OrdenadosCon(p, p[m], e, x, y)
<1> DEFINE s(u) == Cambiado(p[m], e, u)
<1>1. /\ t \in Seq(Blancos) /\ DOMAIN t = DOMAIN p
      /\ \A i \in DOMAIN p : t[i] = IF i = m THEN e ELSE p[i]
  <2>1. p \in Seq(Blancos)
    BY DEF Serie
  <2>2. DOMAIN p = 1 .. Len(p) /\ Len(p) \in Nat
    BY <2>1, LenProperties
  <2> QED
    BY <2>1, <2>2, ExceptSeq
<1>2. ASSUME NEW i \in DOMAIN p
      PROVE  t[i] = s(p[i]) /\ t[i].rangoinic = p[i].rangoinic
  BY <1>1 DEF Serie, Cambiado
<1>3. Serie(t)
  BY <1>1, <1>2 DEF Serie
<1>4. ASSUME NEW x, NEW y, Ordenados(t, x, y)
      PROVE  OrdenadosCon(p, p[m], e, x, y)
  <2>1. PICK i \in DOMAIN p, k \in DOMAIN p :
          /\ i <= k /\ x = t[i] /\ y = t[k]
          /\ Lejos(x.rangoinic) /\ Lejos(y.rangoinic)
    BY <1>1, <1>4 DEF Ordenados
  <2>2. Ordenados(p, p[i], p[k])
    BY <1>2, <2>1 DEF Ordenados
  <2>3. x = s(p[i]) /\ y = s(p[k])
    BY <1>2, <2>1
  <2> QED
    BY <2>2, <2>3 DEF OrdenadosCon
<1>5. ASSUME NEW x, NEW y, OrdenadosCon(p, p[m], e, x, y)
      PROVE  Ordenados(t, x, y)
  <2>1. PICK u, v : Ordenados(p, u, v) /\ x = s(u) /\ y = s(v)
    BY <1>5 DEF OrdenadosCon
  <2>2. PICK i \in DOMAIN p, k \in DOMAIN p :
          /\ i <= k /\ u = p[i] /\ v = p[k]
          /\ Lejos(u.rangoinic) /\ Lejos(v.rangoinic)
    BY <2>1 DEF Ordenados
  <2>3. /\ x = t[i] /\ y = t[k]
        /\ Lejos(x.rangoinic) /\ Lejos(y.rangoinic)
    BY <1>2, <2>1, <2>2
  <2> QED
    BY <1>1, <2>2, <2>3 DEF Ordenados
<1> QED
  BY <1>3, <1>4, <1>5

(* The same change on both lists.                                          *)
LEMMA MismosAlCambiar ==
  ASSUME NEW p, NEW q, Serie(p), Serie(q), Mismos(p, q),
         NEW m \in DOMAIN p, NEW n \in DOMAIN q, p[m] = q[n],
         NEW e \in Blancos, e.rangoinic = p[m].rangoinic
  PROVE  Mismos([p EXCEPT ![m] = e], [q EXCEPT ![n] = e])
<1>1. PICK t, s : t = [p EXCEPT ![m] = e] /\ s = [q EXCEPT ![n] = e]
  OBVIOUS
<1>2. \A x, y : Ordenados(t, x, y) <=> OrdenadosCon(p, p[m], e, x, y)
  BY <1>1, TrasCambiar
<1>3. \A x, y : Ordenados(s, x, y) <=> OrdenadosCon(q, p[m], e, x, y)
  BY <1>1, TrasCambiar
<1>4. \A x, y : OrdenadosCon(p, p[m], e, x, y) <=> OrdenadosCon(q, p[m], e, x, y)
  BY DEF OrdenadosCon, Mismos
<1> QED
  BY <1>1, <1>2, <1>3, <1>4 DEF Mismos

(* A target nearer than that does not count. *)
LEMMA CambiaCercano ==
  ASSUME NEW p, Serie(p), NEW m \in DOMAIN p, NEW e \in Blancos,
         e.rangoinic = p[m].rangoinic, ~Lejos(p[m].rangoinic)
  PROVE  Mismos([p EXCEPT ![m] = e], p)
<1>1. PICK t : t = [p EXCEPT ![m] = e]
  OBVIOUS
<1>2. \A x, y : Ordenados(t, x, y) <=> OrdenadosCon(p, p[m], e, x, y)
  BY <1>1, TrasCambiar
<1>3. ASSUME NEW x, NEW y
      PROVE  OrdenadosCon(p, p[m], e, x, y) <=> Ordenados(p, x, y)
  <2>1. ASSUME NEW u, NEW v, Ordenados(p, u, v)
        PROVE  Cambiado(p[m], e, u) = u /\ Cambiado(p[m], e, v) = v
    BY <2>1 DEF Ordenados, Cambiado
  <2> QED
    BY <2>1 DEF OrdenadosCon
<1> QED
  BY <1>1, <1>2, <1>3 DEF Mismos

(* One element more, at the end: it is after all the others.               *)
LEMMA TrasAgregar ==
  ASSUME NEW p, Serie(p), NEW e \in Blancos,
         \A i \in DOMAIN p : p[i].rangoinic # e.rangoinic
  PROVE  /\ Serie(Append(p, e))
         /\ \A x, y : Ordenados(Append(p, e), x, y) <=>
              \/ Ordenados(p, x, y)
              \/ Lejos(e.rangoinic) /\ y = e /\ (x = e \/ Ordenados(p, x, x))
<1> DEFINE t == Append(p, e)
           l == Len(p)
<1>1. /\ l \in Nat /\ DOMAIN p = 1 .. l /\ t \in Seq(Blancos)
      /\ DOMAIN t = 1 .. l + 1 /\ t[l + 1] = e
      /\ \A i \in 1 .. l : t[i] = p[i]
  BY AppendProperties, LenProperties DEF Serie
<1> HIDE DEF t, l
<1>2. Serie(t)
  BY <1>1 DEF Serie
<1>3. ASSUME NEW x, NEW y, Ordenados(t, x, y)
      PROVE  \/ Ordenados(p, x, y)
             \/ Lejos(e.rangoinic) /\ y = e /\ (x = e \/ Ordenados(p, x, x))
  <2>1. PICK i \in 1 .. l + 1, k \in 1 .. l + 1 :
          /\ i <= k /\ x = t[i] /\ y = t[k]
          /\ Lejos(x.rangoinic) /\ Lejos(y.rangoinic)
    BY <1>1, <1>3 DEF Ordenados
  <2>2. CASE k # l + 1
    <3>1. i \in 1 .. l /\ k \in 1 .. l
      BY <1>1, <2>1, <2>2
    <3> QED
      BY <1>1, <2>1, <3>1 DEF Ordenados
  <2>3. CASE k = l + 1 /\ i # l + 1
    <3>1. i \in 1 .. l /\ i <= i
      BY <1>1, <2>1, <2>3
    <3> QED
      BY <1>1, <2>1, <2>3, <3>1 DEF Ordenados
  <2>4. CASE k = l + 1 /\ i = l + 1
    BY <1>1, <2>1, <2>4
  <2> QED
    BY <2>2, <2>3, <2>4
<1>4. ASSUME NEW x, NEW y, Ordenados(p, x, y)
      PROVE  Ordenados(t, x, y)
  <2>1. PICK i \in 1 .. l, k \in 1 .. l :
          /\ i <= k /\ x = p[i] /\ y = p[k]
          /\ Lejos(x.rangoinic) /\ Lejos(y.rangoinic)
    BY <1>1, <1>4 DEF Ordenados
  <2>2. i \in 1 .. l + 1 /\ k \in 1 .. l + 1 /\ x = t[i] /\ y = t[k]
    BY <1>1, <2>1
  <2> QED
    BY <1>1, <2>1, <2>2 DEF Ordenados
<1>5. ASSUME NEW x, Lejos(e.rangoinic), x = e \/ Ordenados(p, x, x)
      PROVE  Ordenados(t, x, e)
  <2>1. PICK i \in 1 .. l + 1 : x = t[i] /\ Lejos(x.rangoinic)
    <3>1. CASE x = e
      <4>1. l + 1 \in 1 .. l + 1
        BY <1>1
      <4> QED
        BY <1>1, <1>5, <3>1, <4>1
    <3>2. CASE Ordenados(p, x, x)
      <4>1. Ordenados(t, x, x)
        BY <1>4, <3>2
      <4> QED
        BY <1>1, <4>1 DEF Ordenados
    <3> QED
      BY <1>5, <3>1, <3>2
  <2>2. l + 1 \in 1 .. l + 1 /\ i <= l + 1
    BY <1>1
  <2> QED
    BY <1>1, <1>5, <2>1, <2>2 DEF Ordenados
<1> QED
  BY <1>2, <1>3, <1>4, <1>5 DEF t

(* The same new target on both lists.                                      *)
LEMMA MismosAlAgregar ==
  ASSUME NEW p, NEW q, Serie(p), Serie(q), Mismos(p, q), NEW e \in Blancos,
         \A i \in DOMAIN p : p[i].rangoinic # e.rangoinic,
         \A i \in DOMAIN q : q[i].rangoinic # e.rangoinic
  PROVE  Mismos(Append(p, e), Append(q, e))
  BY TrasAgregar DEF Mismos

(* An echo that correlates with no target is not the range of any.         *)
LEMMA SinCorrelacion ==
  ASSUME NEW p, NEW r \in Oidos, Correlacionan(p, r) = {}, NEW i \in DOMAIN p
  PROVE  p[i].rangoinic # r
<1>1. Modulo(r, r) <= Puerta
  BY OidosSon DEF Modulo
<1> QED
  BY <1>1 DEF Correlacionan

LEMMA CambioDeCampo ==
  ASSUME NEW p, Serie(p), NEW m \in DOMAIN p, NEW v \in Int
  PROVE  /\ p[m] \in Blancos
         /\ [p EXCEPT ![m].auscons = v] = [p EXCEPT ![m] = [p[m] EXCEPT !.auscons = v]]
         /\ [p EXCEPT ![m].Altura = v] = [p EXCEPT ![m] = [p[m] EXCEPT !.Altura = v]]
  BY ElementOfSeq DEF Serie

(* What an echo leaves is a list of targets again.                         *)
LEMMA AnotadaSerie ==
  ASSUME NEW p, Serie(p), NEW r \in Oidos, NEW a \in Int
  PROVE  Serie(Anotada(p, r, a))
<1>1. CASE Correlacionan(p, r) # {}
  <2>1. PICK m : m = ElMasCercano(p, r)
    OBVIOUS
  <2>2. m \in DOMAIN p
    BY <1>1, <2>1, HayMasCercano DEF Serie, Correlacionan
  <2>3. PICK e : e = [p[m] EXCEPT !.auscons = 0]
    OBVIOUS
  <2>4. e \in Blancos /\ e.rangoinic = p[m].rangoinic
    <3>1. p[m] \in Blancos
      BY <2>2, CambioDeCampo
    <3> QED
      BY <2>3, <3>1, CambiaEdadDe
  <2>5. PICK t : t = [p EXCEPT ![m] = e]
    OBVIOUS
  <2>6. Serie(t)
    BY <2>2, <2>4, <2>5, TrasCambiar
  <2>7. Anotada(p, r, a) = t
    BY <1>1, <2>1, <2>2, <2>3, <2>5, CambioDeCampo DEF Anotada
  <2> QED
    BY <2>6, <2>7
<1>2. CASE Correlacionan(p, r) = {}
  <2>1. PICK e : e = [rangoinic |-> r, aztinic |-> a, auscons |-> 0, Altura |-> 0]
    OBVIOUS
  <2>2. e \in Blancos /\ e.rangoinic = r
    BY <2>1 DEF Blancos
  <2> QED
    BY <1>2, <2>1, <2>2, SinCorrelacion, TrasAgregar DEF Anotada
<1> QED
  BY <1>1, <1>2

(* The same far echo leaves the same far targets.                          *)
LEMMA AnotadaLejos ==
  ASSUME NEW O, Separadas(O), NEW p, NEW q, Serie(p), Serie(q), Mismos(p, q),
         RangosDe(p) \subseteq O, RangosDe(q) \subseteq O,
         NEW r \in O, r \in Oidos, Lejos(r), NEW a \in Int
  PROVE  Mismos(Anotada(p, r, a), Anotada(q, r, a))
<1>0. Mismos(q, p)
  BY DEF Mismos
<1>1. CASE Correlacionan(p, r) # {}
  <2>1. PICK m, n : m = ElMasCercano(p, r) /\ n = ElMasCercano(q, r)
    OBVIOUS
  <2>2. /\ m \in DOMAIN p /\ n \in DOMAIN q /\ p[m] = q[n]
        /\ Correlacionan(q, r) # {}
    BY <1>1, <2>1, MismoElegido
  <2>3. PICK e : e = [p[m] EXCEPT !.auscons = 0]
    OBVIOUS
  <2>4. e \in Blancos /\ e.rangoinic = p[m].rangoinic
    <3>1. p[m] \in Blancos
      BY <2>2, CambioDeCampo
    <3> QED
      BY <2>3, <3>1, CambiaEdadDe
  <2>5. Mismos([p EXCEPT ![m] = e], [q EXCEPT ![n] = e])
    BY <2>2, <2>4, MismosAlCambiar
  <2>6. Anotada(p, r, a) = [p EXCEPT ![m] = e]
    BY <1>1, <2>1, <2>2, <2>3, CambioDeCampo DEF Anotada
  <2>7. Anotada(q, r, a) = [q EXCEPT ![n] = e]
    BY <2>1, <2>2, <2>3, CambioDeCampo DEF Anotada
  <2> QED
    BY <2>5, <2>6, <2>7
<1>2. CASE Correlacionan(p, r) = {}
  <2>1. Correlacionan(q, r) = {}
    BY <1>0, <1>2, MismoElegido
  <2>2. PICK e : e = [rangoinic |-> r, aztinic |-> a, auscons |-> 0, Altura |-> 0]
    OBVIOUS
  <2>3. e \in Blancos /\ e.rangoinic = r
    BY <2>2 DEF Blancos
  <2>4. Mismos(Append(p, e), Append(q, e))
    BY <1>2, <2>1, <2>3, SinCorrelacion, MismosAlAgregar
  <2> QED
    BY <1>2, <2>1, <2>2, <2>4 DEF Anotada
<1> QED
  BY <1>1, <1>2

(* A near echo leaves the far targets as they were.                        *)
LEMMA AnotadaCerca ==
  ASSUME NEW O, Separadas(O), NEW p, Serie(p), RangosDe(p) \subseteq O,
         NEW r \in O, r \in Oidos, ~Lejos(r), NEW a \in Int
  PROVE  Mismos(Anotada(p, r, a), p)
<1>1. CASE Correlacionan(p, r) # {}
  <2>1. PICK m : m = ElMasCercano(p, r)
    OBVIOUS
  <2>2. m \in DOMAIN p /\ Modulo(r, p[m].rangoinic) <= Puerta
    BY <1>1, <2>1, HayMasCercano DEF Serie, Correlacionan
  <2>3. p[m] \in Blancos /\ p[m].rangoinic \in Oidos /\ p[m].rangoinic \in O
    BY <2>2, CambioDeCampo, CamposDe DEF RangosDe
  <2>4. ~Lejos(p[m].rangoinic)
    <3>1. Modulo(r, p[m].rangoinic) \in Nat /\ Puerta \in Nat
      BY <2>3, OidosSon DEF Modulo
    <3> QED
      BY <2>2, <2>3, <3>1, Alejados
  <2>5. PICK e : e = [p[m] EXCEPT !.auscons = 0]
    OBVIOUS
  <2>6. e \in Blancos /\ e.rangoinic = p[m].rangoinic
    BY <2>3, <2>5, CambiaEdadDe
  <2>7. Mismos([p EXCEPT ![m] = e], p)
    BY <2>2, <2>4, <2>6, CambiaCercano
  <2>8. Anotada(p, r, a) = [p EXCEPT ![m] = e]
    BY <1>1, <2>1, <2>2, <2>5, CambioDeCampo DEF Anotada
  <2> QED
    BY <2>7, <2>8
<1>2. CASE Correlacionan(p, r) = {}
  <2>1. PICK e : e = [rangoinic |-> r, aztinic |-> a, auscons |-> 0, Altura |-> 0]
    OBVIOUS
  <2>2. e \in Blancos /\ e.rangoinic = r
    BY <2>1 DEF Blancos
  <2>3. Anotada(p, r, a) = Append(p, e)
    BY <1>2, <2>1 DEF Anotada
  <2>4. \A i \in DOMAIN p : p[i].rangoinic # e.rangoinic
    BY <1>2, <2>2, SinCorrelacion
  <2>5. ~Lejos(e.rangoinic)
    BY <2>2
  <2>6. ASSUME NEW x, NEW y
        PROVE  Ordenados(Append(p, e), x, y) <=> Ordenados(p, x, y)
    BY <2>2, <2>4, <2>5, TrasAgregar
  <2> QED
    BY <2>3, <2>6 DEF Mismos
<1> QED
  BY <1>1, <1>2

(* What a height leaves is a list of targets again.                        *)
LEMMA ConAlturaSerie ==
  ASSUME NEW p, Serie(p), NEW r \in Oidos, NEW h \in Int
  PROVE  Serie(ConAltura(p, r, h))
<1>1. CASE Correlacionan(p, r) # {}
  <2>1. PICK m : m = ElMasCercano(p, r)
    OBVIOUS
  <2>2. m \in DOMAIN p
    BY <1>1, <2>1, HayMasCercano DEF Serie, Correlacionan
  <2>3. PICK e : e = [p[m] EXCEPT !.Altura = h]
    OBVIOUS
  <2>4. e \in Blancos /\ e.rangoinic = p[m].rangoinic
    <3>1. p[m] \in Blancos
      BY <2>2, CambioDeCampo
    <3> QED
      BY <2>3, <3>1, CambiaAlturaDe
  <2>5. PICK t : t = [p EXCEPT ![m] = e]
    OBVIOUS
  <2>6. Serie(t)
    BY <2>2, <2>4, <2>5, TrasCambiar
  <2>7. ConAltura(p, r, h) = t
    BY <1>1, <2>1, <2>2, <2>3, <2>5, CambioDeCampo DEF ConAltura
  <2> QED
    BY <2>6, <2>7
<1> QED
  BY <1>1 DEF ConAltura

(* The same height at the same far range leaves the same far targets.      *)
LEMMA ConAlturaLejos ==
  ASSUME NEW O, Separadas(O), NEW p, NEW q, Serie(p), Serie(q), Mismos(p, q),
         RangosDe(p) \subseteq O, RangosDe(q) \subseteq O,
         NEW r \in O, r \in Oidos, Lejos(r), NEW h \in Int
  PROVE  Mismos(ConAltura(p, r, h), ConAltura(q, r, h))
<1>0. Mismos(q, p)
  BY DEF Mismos
<1>1. CASE Correlacionan(p, r) # {}
  <2>1. PICK m, n : m = ElMasCercano(p, r) /\ n = ElMasCercano(q, r)
    OBVIOUS
  <2>2. /\ m \in DOMAIN p /\ n \in DOMAIN q /\ p[m] = q[n]
        /\ Correlacionan(q, r) # {}
    BY <1>1, <2>1, MismoElegido
  <2>3. PICK e : e = [p[m] EXCEPT !.Altura = h]
    OBVIOUS
  <2>4. e \in Blancos /\ e.rangoinic = p[m].rangoinic
    <3>1. p[m] \in Blancos
      BY <2>2, CambioDeCampo
    <3> QED
      BY <2>3, <3>1, CambiaAlturaDe
  <2>5. Mismos([p EXCEPT ![m] = e], [q EXCEPT ![n] = e])
    BY <2>2, <2>4, MismosAlCambiar
  <2>6. ConAltura(p, r, h) = [p EXCEPT ![m] = e]
    BY <1>1, <2>1, <2>2, <2>3, CambioDeCampo DEF ConAltura
  <2>7. ConAltura(q, r, h) = [q EXCEPT ![n] = e]
    BY <2>1, <2>2, <2>3, CambioDeCampo DEF ConAltura
  <2> QED
    BY <2>5, <2>6, <2>7
<1>2. CASE Correlacionan(p, r) = {}
  <2>1. Correlacionan(q, r) = {}
    BY <1>0, <1>2, MismoElegido
  <2> QED
    BY <1>2, <2>1 DEF ConAltura
<1> QED
  BY <1>1, <1>2

(* Between words the loop has nothing left to do.                          *)
LEMMA AlLeer ==
  ASSUME NEW p, NEW n, NEW x, NEW y
  PROVE  Seguiran(p, n, "lee", x, y) <=> Ordenados(p, x, y)
  BY DEF Seguiran, Vive, Sera, Ordenados

(* At the start of the loop: those that last, a step older.                *)
LEMMA AlEmpezar ==
  ASSUME NEW p, Serie(p), NEW x, NEW y
  PROVE  Seguiran(p, 1, "barre", x, y) <=> OrdenadosMayores(p, x, y)
<1>1. \A i \in DOMAIN p : i >= 1
  BY LenProperties DEF Serie
<1>2. ASSUME Seguiran(p, 1, "barre", x, y)
      PROVE  OrdenadosMayores(p, x, y)
  <2>1. PICK i \in DOMAIN p, k \in DOMAIN p :
          /\ i <= k /\ Vive(p, 1, "barre", i) /\ Vive(p, 1, "barre", k)
          /\ x = Sera(p, 1, "barre", i) /\ y = Sera(p, 1, "barre", k)
    BY <1>2 DEF Seguiran
  <2>2. Ordenados(p, p[i], p[k])
    BY <2>1 DEF Ordenados, Vive
  <2>3. Dura(p[i]) /\ Dura(p[k]) /\ x = Mayor(p[i]) /\ y = Mayor(p[k])
    BY <1>1, <2>1 DEF Vive, Sera
  <2> QED
    BY <2>2, <2>3 DEF OrdenadosMayores
<1>3. ASSUME OrdenadosMayores(p, x, y)
      PROVE  Seguiran(p, 1, "barre", x, y)
  <2>1. PICK u, v : /\ Ordenados(p, u, v) /\ Dura(u) /\ Dura(v)
                    /\ x = Mayor(u) /\ y = Mayor(v)
    BY <1>3 DEF OrdenadosMayores
  <2>2. PICK i \in DOMAIN p, k \in DOMAIN p :
          /\ i <= k /\ u = p[i] /\ v = p[k]
          /\ Lejos(u.rangoinic) /\ Lejos(v.rangoinic)
    BY <2>1 DEF Ordenados
  <2>3. /\ Vive(p, 1, "barre", i) /\ Vive(p, 1, "barre", k)
        /\ x = Sera(p, 1, "barre", i) /\ y = Sera(p, 1, "barre", k)
    BY <1>1, <2>1, <2>2 DEF Vive, Sera
  <2> QED
    BY <2>2, <2>3 DEF Seguiran
<1> QED
  BY <1>2, <1>3

(* Lists that agree beyond the old area will agree after the loop.         *)
LEMMA MismosAlEmpezar ==
  ASSUME NEW p, NEW q, Serie(p), Serie(q), Mismos(p, q), NEW x, NEW y
  PROVE  Seguiran(p, 1, "barre", x, y) <=> Seguiran(q, 1, "barre", x, y)
<1>1. OrdenadosMayores(p, x, y) <=> OrdenadosMayores(q, x, y)
  BY DEF OrdenadosMayores, Mismos
<1> QED
  BY <1>1, AlEmpezar

(* A turn that ages its target: the list, and what was going to be left.   *)
LEMMA SerieAlEnvejecer ==
  ASSUME NEW p, Serie(p), NEW n \in 1 .. Len(p),
         NEW t, t = [p EXCEPT ![n].auscons = @ + 1]
  PROVE  Serie(t) /\ Envejecida(p, n, t)
<1>1. n \in DOMAIN p /\ DOMAIN p = 1 .. Len(p) /\ Len(p) \in Nat
  BY LenProperties DEF Serie
<1>2. p[n] \in Blancos /\ p[n].auscons + 1 \in Int
  <2>1. p[n] \in Blancos
    BY <1>1, ElementOfSeq DEF Serie
  <2> QED
    BY <2>1, CamposDe
<1>3. PICK e : e = Mayor(p[n])
  OBVIOUS
<1>4. e \in Blancos /\ e.rangoinic = p[n].rangoinic
  BY <1>2, <1>3, CambiaEdadDe DEF Mayor
<1>5. t = [p EXCEPT ![n] = e]
  BY <1>1, <1>3 DEF Mayor
<1>6. Serie(t)
  BY <1>1, <1>4, <1>5, TrasCambiar
<1>7. /\ DOMAIN t = DOMAIN p
      /\ \A i \in DOMAIN p : t[i] = IF i = n THEN e ELSE p[i]
  BY <1>1, <1>4, <1>5, ExceptSeq DEF Serie
<1> QED
  BY <1>3, <1>4, <1>6, <1>7 DEF Envejecida

LEMMA AlEnvejecer ==
  ASSUME NEW p, Serie(p), NEW n \in 1 .. Len(p), Dura(p[n]),
         NEW t, Envejecida(p, n, t), NEW l, l = n + 1, NEW x, NEW y
  PROVE  Seguiran(t, l, "barre", x, y) <=> Seguiran(p, n, "barre", x, y)
<1>1. DOMAIN p = 1 .. Len(p) /\ Len(p) \in Nat
  BY LenProperties DEF Serie
<1>2. PICK e : e = Mayor(p[n])
  OBVIOUS
<1>3. /\ DOMAIN t = DOMAIN p /\ e.rangoinic = p[n].rangoinic
      /\ \A i \in DOMAIN p : t[i] = IF i = n THEN e ELSE p[i]
  BY <1>2 DEF Envejecida
<1>4. ASSUME NEW i \in DOMAIN p
      PROVE  /\ Vive(t, l, "barre", i) <=> Vive(p, n, "barre", i)
             /\ Sera(t, l, "barre", i) = Sera(p, n, "barre", i)
  <2>1. CASE i = n
    BY <1>1, <1>2, <1>3, <2>1 DEF Vive, Sera
  <2>2. CASE i # n
    <3>1. t[i] = p[i] /\ (i >= l <=> i >= n)
      BY <1>1, <1>3, <2>2
    <3> QED
      BY <3>1 DEF Vive, Sera
  <2> QED
    BY <2>1, <2>2
<1>5. ASSUME Seguiran(t, l, "barre", x, y)
      PROVE  Seguiran(p, n, "barre", x, y)
  <2>1. PICK i \in DOMAIN p, k \in DOMAIN p :
          /\ i <= k /\ Vive(t, l, "barre", i) /\ Vive(t, l, "barre", k)
          /\ x = Sera(t, l, "barre", i) /\ y = Sera(t, l, "barre", k)
    BY <1>3, <1>5 DEF Seguiran
  <2> QED
    BY <1>4, <2>1 DEF Seguiran
<1>6. ASSUME Seguiran(p, n, "barre", x, y)
      PROVE  Seguiran(t, l, "barre", x, y)
  <2>1. PICK i \in DOMAIN p, k \in DOMAIN p :
          /\ i <= k /\ Vive(p, n, "barre", i) /\ Vive(p, n, "barre", k)
          /\ x = Sera(p, n, "barre", i) /\ y = Sera(p, n, "barre", k)
    BY <1>6 DEF Seguiran
  <2> QED
    BY <1>3, <1>4, <2>1 DEF Seguiran
<1> QED
  BY <1>5, <1>6

(* The targets after the one that ends move down one place.                *)
LEMMA RemoveAtProp ==
  ASSUME NEW S, NEW s \in Seq(S), NEW i \in 1 .. Len(s)
  PROVE  /\ RemoveAt(s, i) \in Seq(S)
         /\ Len(RemoveAt(s, i)) = Len(s) - 1
         /\ \A k \in 1 .. Len(s) - 1 :
              RemoveAt(s, i)[k] = IF k < i THEN s[k] ELSE s[k + 1]
<1> DEFINE a == SubSeq(s, 1, i - 1)
           b == SubSeq(s, i + 1, Len(s))
<1>1. /\ a \in Seq(S) /\ Len(a) = i - 1
      /\ \A k \in 1 .. i - 1 : a[k] = s[k]
  OBVIOUS
<1>2. /\ b \in Seq(S) /\ Len(b) = Len(s) - i
      /\ \A k \in 1 .. Len(s) - i : b[k] = s[k + i]
  OBVIOUS
<1>3. RemoveAt(s, i) = a \o b
  BY DEF RemoveAt
<1> HIDE DEF a, b
<1>4. /\ a \o b \in Seq(S)
      /\ Len(a \o b) = Len(a) + Len(b)
      /\ \A k \in 1 .. Len(a) + Len(b) :
           (a \o b)[k] = IF k <= Len(a) THEN a[k] ELSE b[k - Len(a)]
  BY <1>1, <1>2, ConcatProperties
<1>5. Len(s) \in Nat /\ Len(a) + Len(b) = Len(s) - 1
  BY <1>1, <1>2
<1>6. ASSUME NEW k \in 1 .. Len(s) - 1
      PROVE  (a \o b)[k] = IF k < i THEN s[k] ELSE s[k + 1]
  <2>1. CASE k < i
    BY <2>1, <1>1, <1>4, <1>5
  <2>2. CASE ~(k < i)
    <3>1. /\ k - Len(a) \in 1 .. Len(s) - i
          /\ (a \o b)[k] = b[k - Len(a)]
      BY <2>2, <1>1, <1>4, <1>5
    <3>2. b[k - Len(a)] = s[k - Len(a) + i]
      BY <3>1, <1>2
    <3>3. k - Len(a) + i = k + 1
      BY <1>1
    <3> QED
      BY <3>1, <3>2, <3>3, <2>2
  <2> QED
    BY <2>1, <2>2
<1> QED
  BY <1>3, <1>4, <1>5, <1>6

(* The list without one target is a list of targets.                       *)
LEMMA QuitaUno ==
  ASSUME NEW p, Serie(p), NEW n \in 1 .. Len(p), NEW t, t = RemoveAt(p, n)
  PROVE  /\ Serie(t) /\ Len(p) \in Nat
         /\ DOMAIN p = 1 .. Len(p) /\ DOMAIN t = 1 .. Len(p) - 1
         /\ \A k \in 1 .. Len(p) - 1 : t[k] = IF k < n THEN p[k] ELSE p[k + 1]
<1>0. p \in Seq(Blancos) /\ Len(p) \in Nat /\ DOMAIN p = 1 .. Len(p)
  BY LenProperties DEF Serie
<1>1. /\ t \in Seq(Blancos) /\ Len(t) = Len(p) - 1
      /\ \A k \in 1 .. Len(p) - 1 : t[k] = IF k < n THEN p[k] ELSE p[k + 1]
  BY <1>0, RemoveAtProp
<1>2. DOMAIN t = 1 .. Len(p) - 1
  BY <1>1, LenProperties
<1>3. ASSUME NEW i \in DOMAIN t, NEW k \in DOMAIN t, i # k
      PROVE  t[i].rangoinic # t[k].rangoinic
  <2>1. PICK a, b : /\ a = (IF i < n THEN i ELSE i + 1)
                    /\ b = (IF k < n THEN k ELSE k + 1)
    OBVIOUS
  <2>2. a \in DOMAIN p /\ b \in DOMAIN p /\ a # b /\ t[i] = p[a] /\ t[k] = p[b]
    BY <1>0, <1>1, <1>2, <1>3, <2>1
  <2> QED
    BY <2>2 DEF Serie
<1> QED
  BY <1>0, <1>1, <1>2, <1>3 DEF Serie

(* A turn that ends its target leaves what was going to be left.           *)
LEMMA AlQuitar ==
  ASSUME NEW p, Serie(p), NEW n \in 1 .. Len(p), ~Dura(p[n]),
         NEW t, t = RemoveAt(p, n), NEW x, NEW y
  PROVE  Seguiran(t, n, "barre", x, y) <=> Seguiran(p, n, "barre", x, y)
<1> DEFINE g(k) == IF k < n THEN k ELSE k + 1
           f(k) == IF k < n THEN k ELSE k - 1
<1>0. /\ Len(p) \in Nat
      /\ DOMAIN p = 1 .. Len(p) /\ DOMAIN t = 1 .. Len(p) - 1
      /\ \A k \in 1 .. Len(p) - 1 : t[k] = IF k < n THEN p[k] ELSE p[k + 1]
  BY QuitaUno
<1>1. ASSUME NEW k \in DOMAIN t
      PROVE  /\ g(k) \in DOMAIN p
             /\ Vive(t, n, "barre", k) <=> Vive(p, n, "barre", g(k))
             /\ Sera(t, n, "barre", k) = Sera(p, n, "barre", g(k))
  <2>1. g(k) \in DOMAIN p /\ t[k] = p[g(k)] /\ (k >= n <=> g(k) >= n)
    BY <1>0
  <2> HIDE DEF g
  <2> QED
    BY <2>1 DEF Vive, Sera
<1>2. ASSUME NEW i \in DOMAIN p, Vive(p, n, "barre", i)
      PROVE  i # n /\ f(i) \in DOMAIN t /\ g(f(i)) = i
  <2>1. i # n
    BY <1>0, <1>2 DEF Vive
  <2> QED
    BY <1>0, <2>1
<1>3. ASSUME NEW a \in DOMAIN t, NEW b \in DOMAIN t
      PROVE  a <= b <=> g(a) <= g(b)
  BY <1>0
<1> HIDE DEF f, g
<1>4. ASSUME Seguiran(t, n, "barre", x, y)
      PROVE  Seguiran(p, n, "barre", x, y)
  <2>1. PICK i \in DOMAIN t, k \in DOMAIN t :
          /\ i <= k /\ Vive(t, n, "barre", i) /\ Vive(t, n, "barre", k)
          /\ x = Sera(t, n, "barre", i) /\ y = Sera(t, n, "barre", k)
    BY <1>4 DEF Seguiran
  <2>2. /\ g(i) \in DOMAIN p /\ g(k) \in DOMAIN p /\ g(i) <= g(k)
        /\ Vive(p, n, "barre", g(i)) /\ Vive(p, n, "barre", g(k))
        /\ x = Sera(p, n, "barre", g(i)) /\ y = Sera(p, n, "barre", g(k))
    BY <1>1, <1>3, <2>1
  <2> QED
    BY <2>2 DEF Seguiran
<1>5. ASSUME Seguiran(p, n, "barre", x, y)
      PROVE  Seguiran(t, n, "barre", x, y)
  <2>1. PICK i \in DOMAIN p, k \in DOMAIN p :
          /\ i <= k /\ Vive(p, n, "barre", i) /\ Vive(p, n, "barre", k)
          /\ x = Sera(p, n, "barre", i) /\ y = Sera(p, n, "barre", k)
    BY <1>5 DEF Seguiran
  <2>2. /\ f(i) \in DOMAIN t /\ f(k) \in DOMAIN t /\ f(i) <= f(k)
        /\ Vive(t, n, "barre", f(i)) /\ Vive(t, n, "barre", f(k))
        /\ x = Sera(t, n, "barre", f(i)) /\ y = Sera(t, n, "barre", f(k))
    BY <1>1, <1>2, <1>3, <2>1
  <2> QED
    BY <2>2 DEF Seguiran
<1> QED
  BY <1>4, <1>5

(* After the last turn nothing more changes.                               *)
LEMMA AlTerminar ==
  ASSUME NEW p, Serie(p), NEW n \in Int, n > Len(p), NEW x, NEW y
  PROVE  Seguiran(p, n, "barre", x, y) <=> Seguiran(p, 1, "lee", x, y)
<1>1. \A i \in DOMAIN p : ~(i >= n)
  BY LenProperties DEF Serie
<1> QED
  BY <1>1 DEF Seguiran, Vive, Sera
-----------------------------------------------------------------------------
(***************************************************************************)
(* The gate.                                                               *)
(***************************************************************************)

(* While a session has given an azimuth, AzAnt is that azimuth: the words  *)
(* refused in between end the session.                                     *)
UltimoEsAzAnt ==
  /\ FlagIni = 0 => ultimo = Ninguna
  /\ ultimo # Ninguna => ultimo = AzAnt

IInv == TypeOK /\ UltimoEsAzAnt

LEMMA IInvInicial == Init => IInv
<1>1. <<>> \in Seq(Legibles) /\ Len(<<>>) < Capacidad
  BY CtrlFifoAssumption
<1> QED
  BY <1>1 DEF Init, IInv, TypeOK, UltimoEsAzAnt, Ninguna

(* The word at the head of the FIFO is one the FIFO can hold. *)
LEMMA DatoLegible ==
  ASSUME TypeOK, HayDato
  PROVE  /\ Dato \in Legibles /\ Dato # Ninguna
         /\ Tail(fifo) \in Seq(Legibles) /\ Len(Tail(fifo)) < Capacidad
<1>1. fifo \in Seq(Legibles) /\ fifo # <<>> /\ Len(fifo) < Capacidad
  BY DEF TypeOK, HayDato
<1>2. /\ Head(fifo) \in Legibles /\ Tail(fifo) \in Seq(Legibles)
      /\ Len(Tail(fifo)) = Len(fifo) - 1
  BY <1>1, HeadTailProperties
<1>3. Len(fifo) \in Nat /\ Capacidad \in Nat
  BY <1>1, LenProperties, CtrlFifoAssumption
<1>4. Dato \in Legibles
  BY <1>2 DEF Dato
<1>5. Dato # Ninguna
  BY <1>4 DEF Legibles, Ninguna
<1> QED
  BY <1>1, <1>2, <1>3, <1>4, <1>5

(* A step of the gate, for any words that its FIFO can hold. *)
Paso == Sondea \/ \E w \in Legibles : Llega(w)

LEMMA NextEsPaso == Next => Paso
  BY CtrlFifoAssumption DEF Next, Paso

LEMMA PasoIInv == IInv /\ [Paso]_vars => IInv'
<1> SUFFICES ASSUME IInv, [Paso]_vars
             PROVE  IInv'
  OBVIOUS
<1> USE DEF IInv, UltimoEsAzAnt
<1>0. <<>> \in Seq(Legibles) /\ Len(<<>>) < Capacidad
  BY CtrlFifoAssumption
<1>1. CASE Desborde
  BY <1>0, <1>1 DEF Desborde, Reinicia, TypeOK, Ninguna
<1>2. CASE ErrorClase
  BY <1>0, <1>2 DEF ErrorClase, Reinicia, TypeOK, Ninguna
<1>3. CASE PrimerDato
  <2>1. HayDato
    BY <1>3 DEF PrimerDato
  <2>2. TypeOK'
    BY <1>3, <2>1, DatoLegible DEF PrimerDato, Pasa, TypeOK, Ninguna
  <2> QED
    BY <1>3, <2>2 DEF PrimerDato, Pasa, Ninguna
<1>4. CASE ErrorAzimut
  <2>1. Dato \in Legibles
    BY <1>4, DatoLegible DEF ErrorAzimut
  <2> QED
    BY <1>0, <1>4, <2>1 DEF ErrorAzimut, Reinicia, TypeOK, Ninguna
<1>5. CASE ErrorAltura
  BY <1>0, <1>5 DEF ErrorAltura, Reinicia, TypeOK, Ninguna
<1>6. CASE DatoBueno
  <2>1. HayDato
    BY <1>6 DEF DatoBueno
  <2>2. TypeOK'
    BY <1>6, <2>1, DatoLegible DEF DatoBueno, Pasa, TypeOK, Ninguna
  <2> QED
    BY <1>6, <2>2 DEF DatoBueno, Pasa, Ninguna
<1>7. ASSUME NEW w \in Legibles, Llega(w)
      PROVE  IInv'
  <2>1. /\ fifo \in Seq(Legibles)
        /\ Len(fifo) \in Nat /\ Capacidad \in Nat /\ Len(fifo) < Capacidad
    BY CtrlFifoAssumption, LenProperties DEF TypeOK
  <2>2. /\ Append(fifo, w) \in Seq(Legibles)
        /\ Len(Append(fifo, w)) = Len(fifo) + 1
    BY <2>1, AppendProperties
  <2>3. fifo' \in Seq(Legibles) /\ Len(fifo') < Capacidad /\ lleno' \in BOOLEAN
    <3>1. CASE lleno \/ Len(fifo) = Capacidad - 1
      BY <1>0, <1>7, <3>1 DEF Llega
    <3>2. CASE ~(lleno \/ Len(fifo) = Capacidad - 1)
      BY <1>7, <2>1, <2>2, <3>2 DEF Llega
    <3> QED
      BY <3>1, <3>2
  <2> QED
    BY <1>7, <2>3 DEF Llega, TypeOK, control, Ninguna
<1>8. CASE UNCHANGED vars
  BY <1>8 DEF vars, control, TypeOK
<1> QED
  BY <1>1, <1>2, <1>3, <1>4, <1>5, <1>6, <1>7, <1>8
     DEF Paso, Sondea, Pierde, Rechaza

LEMMA SiempreIInv == Spec => []IInv
  BY IInvInicial, PasoIInv, NextEsPaso, PTL DEF Spec

THEOREM TipoCorrecto == Spec => []TypeOK
  BY SiempreIInv, PTL DEF IInv

(* The step of SesionCreciente. *)
LEMMA CrecienteAlPasar ==
  ASSUME IInv, Paso, EsAzimut(lectura'), ultimo # Ninguna
  PROVE  lectura' > ultimo \/ CambioDeVuelta(ultimo, lectura')
<1>1. ultimo = AzAnt /\ FlagIni = 1
  BY DEF IInv, UltimoEsAzAnt, TypeOK
<1>2. lectura' # Ninguna
  BY DEF EsAzimut, Ninguna, AZ
<1>3. DatoBueno
  BY <1>1, <1>2
     DEF Paso, Sondea, Pierde, Rechaza, Desborde, ErrorClase, PrimerDato,
         ErrorAzimut, ErrorAltura, Llega, Reinicia
<1>4. lectura' = Dato /\ Dato \in Legibles /\ ~Retrocede(Dato)
  BY <1>3, DatoLegible DEF DatoBueno, Pasa, IInv
<1>5. AzAnt \in Int /\ Dato \in Int
  <2>1. \A w \in Legibles : w \in Int
    BY DEF Legibles
  <2>2. AzAnt = 0 \/ AzAnt \in Legibles
    BY DEF IInv, TypeOK
  <2> QED
    BY <1>4, <2>1, <2>2
<1>6. CASE CambioDeVuelta(AzAnt, Dato)
  BY <1>1, <1>4, <1>6
<1>7. CASE ~(Dato <= AzAnt)
  BY <1>1, <1>4, <1>5, <1>7
<1> QED
  BY <1>4, <1>6, <1>7 DEF Retrocede

LEMMA PasoCreciente ==
  IInv /\ [Paso]_vars =>
    [EsAzimut(lectura') /\ ultimo # Ninguna =>
       lectura' > ultimo \/ CambioDeVuelta(ultimo, lectura')]_vars
  BY CrecienteAlPasar

(***************************************************************************)
(* Whatever words arrive, and however the FIFO is reset, the azimuths of a *)
(* session never go back.                                                  *)
(***************************************************************************)
THEOREM SiempreCreciente == Spec => SesionCreciente
  BY SiempreIInv, NextEsPaso, PasoCreciente, PTL DEF Spec, SesionCreciente
-----------------------------------------------------------------------------
(***************************************************************************)
(* The composition.                                                        *)
(***************************************************************************)

(* The proofs of the tracker, for any words that the FIFO can hold. *)
PP == INSTANCE PrimarioProofs WITH Lecturas <- {x \in Legibles : EsValida(x)}

(* Each iteration, arrival and step of the ageing loop is a step of the    *)
(* gate or leaves it alone.                                                *)
LEMMA PasoCompuerta == [ENext]_evars => [Next]_vars
  BY DEF ENext, Iteracion, Recorre, LlegaCom3, LlegaPalabra, Next, evars, vars, control

(***************************************************************************)
(* The main loop implements the gate: what is proved of CtrlFifo alone     *)
(* holds of it in the program.                                             *)
(***************************************************************************)
THEOREM ImplementaCompuerta == ESpec => Spec
<1>1. EInit => Init
  BY DEF EInit
<1> QED
  BY <1>1, PasoCompuerta, PTL DEF ESpec, Spec

(* A step of the composition, for any words that the FIFO can hold: also   *)
(* those of the antenna, which follow one another.                         *)
EPaso ==
  \/ Iteracion
  \/ Recorre
  \/ \E s \in SectoresCom3, h \in AlturasCom3 : LlegaCom3(s, h)
  \/ \E w \in Legibles : LlegaPalabra(w)

LEMMA ENextEsEPaso == ENext => EPaso
  BY CtrlFifoAssumption DEF ENext, EPaso

LEMMA PasoDeCompuerta == [EPaso]_evars => [Paso]_vars
  BY DEF EPaso, Iteracion, Recorre, LlegaCom3, LlegaPalabra, Paso, evars, vars, control

(* The words of an iteration. *)
LEMMA LoQuePasa ==
  ASSUME IInv, Sondea
  PROVE  \/ lectura' = Ninguna /\ ultimo' = Ninguna
         \/ /\ lectura' # Ninguna /\ lectura' \in Legibles /\ EsValida(lectura')
            /\ ultimo' = IF EsAzimut(lectura') THEN lectura' ELSE ultimo
<1>1. CASE Pierde \/ Rechaza
  BY <1>1 DEF Pierde, Rechaza, Desborde, ErrorClase, ErrorAzimut, ErrorAltura, Reinicia
<1>2. CASE PrimerDato \/ DatoBueno
  BY <1>2, DatoLegible DEF PrimerDato, DatoBueno, Pasa, IInv
<1> QED
  BY <1>1, <1>2 DEF Sondea

-----------------------------------------------------------------------------
(***************************************************************************)
(* The tracker of the composition is the one of PrimarioProofs.  P and PP  *)
(* are two instances of the same definitions: these lemmas say so.         *)
(***************************************************************************)

(* The assumptions of Primario hold of the instance. *)
LEMMA AsuncionPrimario ==
  LET L == {x \in Legibles : EsValida(x)} IN
  /\ AREA_INHIBICION \in 0 .. 4095
  /\ \A w \in L : PP!EsValida(w)
  /\ \A w \in L : PP!EsAzimut(w) => w - PP!AZ \in PP!Azimuts
  /\ SectoresCom3 \subseteq 0 .. 15
  /\ AlturasCom3 \subseteq 0 .. 1023
<1>1. ASSUME NEW x
      PROVE  /\ EsValida(x) <=> PP!EsValida(x)
             /\ EsAzimut(x) <=> PP!EsAzimut(x)
             /\ x - PP!AZ = x - AZ /\ PP!Azimuts = Azimuts
  BY DEF EsValida, EsAzimut, EsRango, EsAltura, AZ, RG, ALT, Azimuts,
         PP!EsValida, PP!EsAzimut, PP!EsRango, PP!EsAltura, PP!AZ, PP!RG,
         PP!ALT, PP!Azimuts
<1>2. ASSUME NEW x \in Legibles
      PROVE  EsAzimut(x) => x - AZ \in Azimuts
  BY DEF Legibles
<1> QED
  BY <1>1, <1>2, ExtractorAssumption

LEMMA MismaCorrelacion ==
  ASSUME NEW r
  PROVE  P!Correlacion(r) = PP!Correlacion(r) /\ P!MasCercano(r) = PP!MasCercano(r)
<1>1. P!Correlacion(r) = PP!Correlacion(r)
  BY Zenon
    DEF P!Correlacion, PP!Correlacion, P!Modulo, PP!Modulo, P!Puerta, PP!Puerta
<1>2. P!MasCercano(r) = PP!MasCercano(r)
  BY Zenon
    DEF P!Correlacion, PP!Correlacion, P!MasCercano, PP!MasCercano, P!Modulo,
        PP!Modulo, P!Puerta, PP!Puerta
<1> QED
  BY <1>1, <1>2

LEMMA MismoRegistro ==
  ASSUME NEW r
  PROVE  P!Registra(r) = PP!Registra(r)
  BY MismaCorrelacion
    DEF P!Registra, PP!Registra, P!Nuevo, PP!Nuevo

LEMMA MismaClase ==
  ASSUME NEW w
  PROVE  /\ P!EsAzimut(w) <=> PP!EsAzimut(w)
         /\ P!EsAltura(w) <=> PP!EsAltura(w)
         /\ P!EsRango(w) <=> PP!EsRango(w)
         /\ P!Procesable(w) <=> PP!Procesable(w)
  BY DEF P!EsAzimut, PP!EsAzimut, P!EsRango, PP!EsRango, P!EsAltura,
         PP!EsAltura, P!AZ, PP!AZ, P!RG, PP!RG, P!ALT, PP!ALT, P!Procesable,
         PP!Procesable

LEMMA MismaLectura ==
  ASSUME NEW w, P!Lee(w)
  PROVE  PP!Lee(w)
<1> USE DEF P!altura3, PP!altura3, P!alturaFifo, PP!alturaFifo, P!sectores,
            PP!sectores, P!seguimiento, PP!seguimiento, P!Nada, PP!Nada
<1>1. P!AzimutAceptado(w) => PP!AzimutAceptado(w)
  BY MismaClase, MismoRegistro
     DEF P!AzimutAceptado, PP!AzimutAceptado, P!AZ, PP!AZ, P!Aceptable,
         PP!Aceptable, P!EnVentana, PP!EnVentana, P!CambiaSector,
         PP!CambiaSector, P!Sector, PP!Sector, P!TramaCab, PP!TramaCab
<1>2. P!AzimutRechazado(w) => PP!AzimutRechazado(w)
  BY MismaClase
     DEF P!AzimutRechazado, PP!AzimutRechazado, P!AZ, PP!AZ, P!Aceptable,
         PP!Aceptable, P!EnVentana, PP!EnVentana
<1>3. P!RangoIgnorado(w) => PP!RangoIgnorado(w)
  BY MismaClase
     DEF P!RangoIgnorado, PP!RangoIgnorado
<1>4. P!PrimerEco(w) => PP!PrimerEco(w)
  BY MismaClase
     DEF P!PrimerEco, PP!PrimerEco
<1>5. P!OtroEco(w) => PP!OtroEco(w)
  BY MismaClase, MismoRegistro
     DEF P!OtroEco, PP!OtroEco
<1>6. P!Altura(w) => PP!Altura(w)
  BY MismaClase
     DEF P!Altura, PP!Altura
<1>7. P!RangoAltura(w) => PP!RangoAltura(w)
  <2>1. P!Correlacion(w) = PP!Correlacion(w) /\ P!MasCercano(w) = PP!MasCercano(w)
    BY MismaCorrelacion
  <2> QED
    BY <2>1, MismaClase DEF P!RangoAltura, PP!RangoAltura
<1> QED
  BY <1>1, <1>2, <1>3, <1>4, <1>5, <1>6, <1>7 DEF P!Lee, PP!Lee

LEMMA MismoBarrido ==
  ASSUME P!Barre
  PROVE  PP!Barre
<1> USE DEF P!altura3, PP!altura3, P!alturaFifo, PP!alturaFifo, P!sectores,
            PP!sectores, P!seguimiento, PP!seguimiento, P!Nada, PP!Nada,
            P!Caduca, PP!Caduca, P!RemoveAt, PP!RemoveAt
<1>1. P!Envejece => PP!Envejece
  BY DEF P!Envejece, PP!Envejece
<1>2. P!CaducaCorto => PP!CaducaCorto
  BY DEF P!CaducaCorto, PP!CaducaCorto, P!Ancho, PP!Ancho, P!AztFinal,
         PP!AztFinal
<1>3. P!FinBarrido => PP!FinBarrido
  BY DEF P!FinBarrido, PP!FinBarrido
<1>4. ASSUME NEW cerca \in BOOLEAN, P!CaducaBlanco(cerca)
      PROVE  PP!CaducaBlanco(cerca)
  BY <1>4
     DEF P!CaducaBlanco, PP!CaducaBlanco, P!Ancho, PP!Ancho, P!AztFinal,
         PP!AztFinal, P!Centro, PP!Centro, P!AlturaVecina, PP!AlturaVecina,
         P!Sector, PP!Sector, P!blancos, PP!blancos, P!AlSerie, PP!AlSerie,
         P!SectAnt, PP!SectAnt, P!Modulo, PP!Modulo, P!TramaBlanco,
         PP!TramaBlanco
<1> QED
  BY <1>1, <1>2, <1>3, <1>4 DEF P!Barre, PP!Barre

LEMMA MismoInicio == P!Init => PP!Init
  BY DEF P!Init, PP!Init, P!InitSalida, PP!InitSalida, P!Nada, PP!Nada
-----------------------------------------------------------------------------
(* In tracker mode, the inductive invariant of the tracker. *)
Rastreo == ~eco => PP!IInv

LEMMA PasoRastreo == IInv /\ Rastreo /\ [EPaso]_evars => Rastreo'
<1> SUFFICES ASSUME IInv, PP!IInv, [EPaso]_evars, ~eco
             PROVE  PP!IInv'
  BY DEF EPaso, Iteracion, Recorre, LlegaCom3, LlegaPalabra, evars, Rastreo
<1>1. UNCHANGED <<rastreo, sectoranterior, SectorActual, PlotBuffUDP>> => PP!IInv'
  BY DEF rastreo, PP!IInv, PP!TypeOK, PP!Separados, PP!FueraDeInhibicion,
         PP!Admitido
<1>2. PP!Next => PP!IInv'
  BY PP!PasoIInv, AsuncionPrimario, PalabraAssumption
<1>3. CASE Iteracion
  <2>1. CASE lectura' # Ninguna
    <3>1. lectura' \in {x \in Legibles : EsValida(x)}
      BY <1>3, <2>1, LoQuePasa DEF Iteracion
    <3>2. P!Lee(lectura')
      BY <1>3, <2>1 DEF Iteracion, Procesa
    <3> QED
      BY <1>2, <3>1, <3>2, MismaLectura DEF PP!Next
  <2>2. CASE lectura' = Ninguna /\ pide'
    BY <1>2, <1>3, <2>2
       DEF Iteracion, Procesa, PP!Next, P!PideResincronia, PP!PideResincronia,
           P!altura3, PP!altura3, P!alturaFifo, PP!alturaFifo, P!sectores,
           PP!sectores, P!Nada, PP!Nada
  <2>3. CASE lectura' = Ninguna /\ ~pide'
    BY <1>1, <1>3, <2>3 DEF Iteracion, Procesa
  <2> QED
    BY <2>1, <2>2, <2>3
<1>4. CASE Recorre
  BY <1>2, <1>4, MismoBarrido DEF Recorre, PP!Next
<1>5. ASSUME NEW s \in SectoresCom3, NEW h \in AlturasCom3, LlegaCom3(s, h)
      PROVE  PP!IInv'
  <2>1. PP!LlegaAltura(s, h)
    BY <1>5 DEF LlegaCom3, P!LlegaAltura, PP!LlegaAltura, P!seguimiento, PP!seguimiento,
       P!alturaFifo, PP!alturaFifo, P!sectores, PP!sectores, P!Nada, PP!Nada
  <2> QED
    BY <1>2, <2>1 DEF PP!Next
<1>6. ASSUME NEW w \in Legibles, LlegaPalabra(w)
      PROVE  PP!IInv'
  BY <1>1, <1>6 DEF LlegaPalabra, reporte
<1>7. CASE UNCHANGED evars
  BY <1>1, <1>7 DEF evars, reporte
<1> QED
  BY <1>3, <1>4, <1>5, <1>6, <1>7 DEF EPaso

(* What holds of the gate and the tracker together, and in eco mode.  The  *)
(* last azimuth of the session is the tracker's unless it was refused; in  *)
(* eco mode the tracker never runs and the headers are those of aztprom.   *)
EnEco ==
  eco => /\ pc = "lee"
         /\ Sector(aztprom) = SectorActual /\ sectoranterior = SectorActual
         /\ E!DatagramaFiel /\ (salida.tipo = "blanco" => salida.serie)

EIInv == IInv /\ Rastreo /\ Coherentes /\ EnEco

LEMMA NoEsAzimut ==
  ASSUME NEW w, P!EsRango(w) \/ P!EsAltura(w)
  PROVE  ~P!EsAzimut(w)
<1>1. ASSUME P!EsAzimut(w)
      PROVE  w \in Int /\ 32768 <= w /\ w <= 36863
  BY <1>1 DEF P!EsAzimut, P!AZ
<1>2. w \in Int /\ (w <= 16383 \/ 49152 <= w)
  <2>1. CASE P!EsRango(w)
    BY <2>1 DEF P!EsRango, P!RG
  <2>2. CASE P!EsAltura(w)
    BY <2>2 DEF P!EsAltura, P!ALT
  <2> QED
    BY <2>1, <2>2
<1> QED
  BY <1>1, <1>2

LEMMA EcoFijo == [EPaso]_evars => UNCHANGED eco
  BY DEF EPaso, Iteracion, Recorre, LlegaCom3, LlegaPalabra, evars

LEMMA PasoCoherentes == IInv /\ Coherentes /\ [EPaso]_evars => Coherentes'
<1> SUFFICES ASSUME IInv, Coherentes, [EPaso]_evars, ~eco, ~eco',
                    ultimo' # Ninguna
             PROVE  azimuth' = ultimo' \/ banderainic' = 1
  BY EcoFijo DEF Coherentes
<1>1. CASE Iteracion
  <2>1. /\ lectura' # Ninguna /\ P!Lee(lectura')
        /\ ultimo' = IF EsAzimut(lectura') THEN lectura' ELSE ultimo
    BY <1>1, LoQuePasa DEF Iteracion, Procesa
  <2>2. P!EsAzimut(lectura') <=> EsAzimut(lectura')
    BY DEF P!EsAzimut, EsAzimut, P!AZ, AZ
  <2>3. CASE P!AzimutAceptado(lectura') \/ P!AzimutRechazado(lectura')
    BY <2>1, <2>2, <2>3 DEF P!AzimutAceptado, P!AzimutRechazado
  <2>4. CASE ~(P!AzimutAceptado(lectura') \/ P!AzimutRechazado(lectura'))
    <3>1. CASE P!RangoIgnorado(lectura') \/ P!PrimerEco(lectura')
      BY <2>1, <2>2, <3>1, NoEsAzimut
         DEF P!RangoIgnorado, P!PrimerEco, P!Procesable, P!seguimiento, Coherentes
    <3>2. CASE P!OtroEco(lectura') \/ P!RangoAltura(lectura') \/ P!Altura(lectura')
      BY <2>1, <2>2, <3>2, NoEsAzimut
         DEF P!OtroEco, P!RangoAltura, P!Altura, P!Procesable, P!seguimiento, Coherentes
    <3> QED
      BY <2>1, <2>4, <3>1, <3>2 DEF P!Lee
  <2> QED
    BY <2>3, <2>4
<1>2. CASE Recorre
  BY <1>2 DEF Recorre, vars, P!Barre, P!Envejece, P!CaducaCorto, P!CaducaBlanco,
     P!FinBarrido, P!seguimiento, Coherentes
<1>3. ASSUME NEW s \in SectoresCom3, NEW h \in AlturasCom3, LlegaCom3(s, h)
      PROVE  azimuth' = ultimo' \/ banderainic' = 1
  BY <1>3 DEF LlegaCom3, vars, P!LlegaAltura, P!seguimiento, Coherentes
<1>4. ASSUME NEW w \in Legibles, LlegaPalabra(w)
      PROVE  azimuth' = ultimo' \/ banderainic' = 1
  BY <1>4 DEF LlegaPalabra, Llega, rastreo, Coherentes
<1>5. CASE UNCHANGED evars
  BY <1>5 DEF evars, vars, rastreo, Coherentes
<1> QED
  BY <1>1, <1>2, <1>3, <1>4, <1>5 DEF EPaso

LEMMA PasoEco == IInv /\ EnEco /\ [EPaso]_evars => EnEco'
<1> SUFFICES ASSUME IInv, EnEco, [EPaso]_evars, eco, eco'
             PROVE  EnEco'
  BY EcoFijo DEF EnEco
<1>1. CASE UNCHANGED <<pc, aztprom, reporte>>
  BY <1>1 DEF EnEco, reporte, E!DatagramaFiel
<1>2. CASE salida' = P!Nada /\ UNCHANGED <<pc, aztprom, sectoranterior, SectorActual>>
  BY <1>2 DEF EnEco, E!DatagramaFiel, P!Nada
<1>3. CASE Iteracion
  <2>1. UNCHANGED pc
    BY <1>3 DEF Iteracion, Procesa, rastreo, P!PideResincronia
  <2>2. CASE lectura' # Ninguna
    <3>1. E!Primario_eco(lectura')
      BY <1>3, <2>2 DEF Iteracion, Procesa
    <3>2. CASE E!AzimutEco(lectura')
      <4>1. E!Sector(aztprom') = Sector(aztprom') /\ E!AZ = AZ
        BY DEF E!Sector, Sector, E!AZ, AZ
      <4>2. /\ sectoranterior' = Sector(aztprom') /\ SectorActual' = Sector(aztprom')
            /\ salida'.tipo # "blanco"
        BY <3>2, <4>1 DEF E!AzimutEco, E!CambiaSector, E!TramaCab, E!Nada, EnEco
      <4> QED
        BY <2>1, <4>2 DEF EnEco, E!DatagramaFiel
    <3>3. CASE E!RangoEco(lectura')
      <4>1. E!AlSerie(aztprom)
        BY DEF EnEco, E!AlSerie, E!Sector, Sector
      <4>2. /\ PlotBuffUDP' = [az |-> aztprom, rg |-> E!Corregido(lectura'), alt |-> 0,
                               girado |-> TRUE]
            /\ salida' = E!TramaBlanco(aztprom, E!Corregido(lectura'), 0, TRUE)
            /\ UNCHANGED <<aztprom, sectoranterior, SectorActual>>
        BY <3>3, <4>1 DEF E!RangoEco, E!blancos, E!sectores
      <4> QED
        BY <2>1, <4>2 DEF EnEco, E!DatagramaFiel, E!TramaBlanco
    <3>4. CASE E!IgnoraEco(lectura')
      BY <1>2, <2>1, <3>4 DEF E!IgnoraEco, E!Nada, P!Nada, E!sectores
    <3> QED
      BY <3>1, <3>2, <3>3, <3>4 DEF E!Primario_eco
  <2>3. CASE lectura' = Ninguna
    BY <1>2, <1>3, <2>1, <2>3
       DEF Iteracion, Procesa, P!PideResincronia, P!sectores
  <2> QED
    BY <2>2, <2>3
<1>4. CASE Recorre
  BY <1>4 DEF Recorre, P!Barre, P!Envejece, P!CaducaCorto, P!CaducaBlanco,
     P!FinBarrido, EnEco
<1>5. ASSUME NEW s \in SectoresCom3, NEW h \in AlturasCom3, LlegaCom3(s, h)
      PROVE  EnEco'
  BY <1>5 DEF LlegaCom3
<1>6. ASSUME NEW w \in Legibles, LlegaPalabra(w)
      PROVE  EnEco'
  BY <1>1, <1>6 DEF LlegaPalabra, rastreo
<1>7. CASE UNCHANGED evars
  BY <1>1, <1>7 DEF evars, rastreo
<1> QED
  BY <1>3, <1>4, <1>5, <1>6, <1>7 DEF EPaso

LEMMA EIInvInicial == EInit => EIInv
<1> SUFFICES ASSUME EInit PROVE EIInv
  OBVIOUS
<1>1. IInv
  BY IInvInicial DEF EInit
<1>2. PP!IInv
  BY MismoInicio, PP!IInvInicial, AsuncionPrimario, PalabraAssumption DEF EInit
<1>3. Coherentes
  BY DEF EInit, Init, Coherentes
<1>4. EnEco
  <2>1. /\ pc = "lee" /\ aztprom = 0 /\ SectorActual = 0 /\ sectoranterior = 0
        /\ salida = P!Nada
    BY DEF EInit, P!Init, P!InitSalida, E!InitEco
  <2>2. Sector(0) = 0
    BY PalabraAssumption DEF Sector
  <2> QED
    BY <2>1, <2>2 DEF EnEco, E!DatagramaFiel, P!Nada
<1> QED
  BY <1>1, <1>2, <1>3, <1>4 DEF EIInv, Rastreo

LEMMA PasoEIInv == EIInv /\ [EPaso]_evars => EIInv'
  BY PasoDeCompuerta, PasoIInv, PasoRastreo, PasoCoherentes, PasoEco DEF EIInv

LEMMA SiempreEIInv == ESpec => []EIInv
  BY EIInvInicial, PasoEIInv, ENextEsEPaso, PTL DEF ESpec
-----------------------------------------------------------------------------
(***************************************************************************)
(* Gate and tracker agree: within a session the tracker's azimuth is the   *)
(* last that the gate let through, or the next is taken whatever it is.    *)
(***************************************************************************)
THEOREM SiempreCoherentes == ESpec => []Coherentes
<1>1. EIInv => Coherentes
  BY DEF EIInv
<1> QED
  BY <1>1, SiempreEIInv, PTL

(***************************************************************************)
(* In eco mode every plot goes to the serial line and its datagram carries *)
(* it.                                                                     *)
(***************************************************************************)
THEOREM SiempreEcoFiel == ESpec => []EcoFiel
<1>1. EIInv => EcoFiel
  BY DEF EIInv, EnEco, EcoFiel
<1> QED
  BY <1>1, SiempreEIInv, PTL

(***************************************************************************)
(* What is proved of the tracker for any words holds behind the gate too:  *)
(* targets are apart and out of the inhibited area.                        *)
(***************************************************************************)
THEOREM SiempreRastreo ==
  ESpec => [](~eco => PP!Separados /\ PP!FueraDeInhibicion)
<1>1. EIInv => (~eco => PP!Separados /\ PP!FueraDeInhibicion)
  BY DEF EIInv, Rastreo, PP!IInv
<1> QED
  BY <1>1, SiempreEIInv, PTL

(* What being in Legibles says of a word. *)
LEMMA DeLegibles ==
  ASSUME NEW x \in Legibles
  PROVE  /\ x \in Int
         /\ EsAzimut(x) => x - AZ \in Azimuts
BY SMT DEF Legibles

(* The step of the next two.  In a session the gate's comparison is with   *)
(* the tracker's azimuth, if that was taken.                               *)
LEMMA Creciente ==
  ASSUME EIInv, Iteracion, ~eco, banderainic = 0, ultimo # Ninguna,
         EsAzimut(lectura')
  PROVE  /\ azimuth = ultimo /\ azimuth - AZ \in Azimuts /\ lectura' \in Int
         /\ lectura' > azimuth \/ CambioDeVuelta(azimuth, lectura')
<1>1. azimuth = ultimo
  BY DEF EIInv, Coherentes
<1>2. ultimo \in Legibles /\ EsAzimut(ultimo)
  BY DEF EIInv, IInv, TypeOK, UltimoEsAzAnt, Ninguna
<1>3. ultimo - AZ \in Azimuts
  BY <1>2, DeLegibles
<1>4. Sondea
  BY DEF Iteracion
<1>5. lectura' \in Int
  BY DEF EsAzimut, AZ
<1> QED
  BY <1>1, <1>3, <1>4, <1>5, CrecienteAlPasar DEF EIInv, Paso

(* The last sixteenth of the turn is sector 15. *)
LEMMA SectorQuince ==
  ASSUME NEW x \in Azimuts, 15 * (VUELTA \div 16) <= x
  PROVE  Sector(x) = 15
<1>1. PICK k \in Nat : k > 0 /\ VUELTA = 16 * k /\ VUELTA \div 16 = k
  <2>1. VUELTA \in Nat /\ VUELTA >= 16 /\ VUELTA % 16 = 0
    BY PalabraAssumption
  <2>2. VUELTA \div 16 \in Nat /\ VUELTA \div 16 > 0 /\ VUELTA = 16 * (VUELTA \div 16)
    BY <2>1
  <2> QED
    BY <2>2
<1>2. x \in Nat /\ 15 * k <= x /\ x < 16 * k
  BY <1>1 DEF Azimuts
<1>3. Sector(x) = (16 * x) \div (16 * k)
  BY <1>1 DEF Sector
<1> DEFINE q == (16 * x) \div (16 * k)
<1>4. q \in Int /\ (16 * k) * q <= 16 * x /\ 16 * x < (16 * k) * (q + 1)
  BY <1>1, <1>2
<1>5. k * q <= x /\ x < k * (q + 1)
  BY <1>1, <1>2, <1>4
<1>6. k * q < k * 16 /\ k * 15 < k * (q + 1)
  BY <1>1, <1>2, <1>4, <1>5
<1> HIDE DEF q
<1>7. q < 16 /\ 15 < q + 1
  BY <1>1, <1>4, <1>6
<1> QED
  BY <1>3, <1>4, <1>7 DEF q

(* An azimuth that changes is one that the tracker takes. *)
LEMMA SoloSiSeAcepta ==
  ASSUME EIInv, [EPaso]_evars, azimuth' # azimuth
  PROVE  /\ ~eco /\ Iteracion /\ EsAzimut(lectura') /\ azimuth' = lectura'
         /\ (banderainic = 0 => P!EnVentana(lectura'))
<1>1. ~UNCHANGED rastreo
  BY DEF rastreo
<1>2. ~Recorre
  BY DEF Recorre, P!Barre, P!Envejece, P!CaducaCorto, P!CaducaBlanco, P!FinBarrido,
     P!seguimiento
<1>3. Iteracion
  BY <1>1, <1>2 DEF EPaso, evars, LlegaCom3, LlegaPalabra, P!LlegaAltura, P!seguimiento
<1>4. ~eco /\ P!Lee(lectura')
  BY <1>1, <1>3 DEF Iteracion, Procesa, P!PideResincronia
<1>5. P!AzimutAceptado(lectura')
  BY <1>4 DEF P!Lee, P!AzimutRechazado, P!RangoIgnorado, P!PrimerEco, P!OtroEco,
     P!RangoAltura, P!Altura, P!seguimiento
<1>6. P!EsAzimut(lectura') <=> EsAzimut(lectura')
  BY DEF P!EsAzimut, EsAzimut, P!AZ, AZ
<1> QED
  BY <1>3, <1>4, <1>5, <1>6 DEF P!AzimutAceptado, P!Aceptable

(* The two ways through the window, as arithmetic. *)
LEMMA PocoAdelante ==
  ASSUME NEW a \in Int, NEW d \in Int, NEW n \in Nat, n >= 16, d > a, d < a + 4
  PROVE  (d - a) % n <= 3
<1>1. d - a \in Int /\ 0 <= d - a /\ d - a <= 3
  OBVIOUS
<1>2. (d - a) % n = d - a
  BY <1>1
<1> QED
  BY <1>1, <1>2

LEMMA TrasElNorte ==
  ASSUME NEW a \in Int, NEW d \in Int, d < AZ + 3
  PROVE  d - AZ < 3
BY DEF AZ

LEMMA PasoSalto ==
  ASSUME EIInv, [EPaso]_evars, azimuth' # azimuth, banderainic = 0, ultimo # Ninguna
  PROVE  \/ (azimuth' - azimuth) % VUELTA <= 3
         \/ Sector(azimuth - AZ) = 15 /\ azimuth' - AZ < 3
<1>1. /\ ~eco /\ Iteracion /\ EsAzimut(lectura') /\ azimuth' = lectura'
      /\ P!EnVentana(lectura')
  BY SoloSiSeAcepta
<1>2. /\ azimuth - AZ \in Azimuts /\ lectura' \in Int
      /\ lectura' > azimuth \/ CambioDeVuelta(azimuth, lectura')
  BY <1>1, Creciente
<1>3. azimuth \in Int /\ VUELTA \in Nat /\ VUELTA >= 16
  <2>1. ultimo \in Legibles /\ azimuth = ultimo
    BY <1>1, Creciente DEF EIInv, IInv, TypeOK, Ninguna
  <2> QED
    BY <2>1, DeLegibles, PalabraAssumption
<1>4. /\ azimuth' < azimuth + 4
      /\ azimuth' > azimuth \/ azimuth' < AZ + 3
      /\ azimuth' \in Int
  BY <1>1, <1>2 DEF P!EnVentana, P!AZ, AZ
<1>5. CASE azimuth' > azimuth
  BY <1>3, <1>4, <1>5, PocoAdelante
<1>6. CASE ~(azimuth' > azimuth)
  <2>1. CambioDeVuelta(azimuth, azimuth')
    BY <1>1, <1>2, <1>6
  <2>2. azimuth' - AZ < 3
    BY <1>3, <1>4, <1>6, TrasElNorte
  <2>3. Sector(azimuth - AZ) = 15
    <3>1. 15 * (VUELTA \div 16) <= azimuth - AZ
      BY <1>2, <1>3, <2>1 DEF CambioDeVuelta, Azimuts
    <3> QED
      BY <1>2, <3>1, SectorQuince
  <2> QED
    BY <2>2, <2>3
<1> QED
  BY <1>5, <1>6

LEMMA PasoRepetido ==
  ASSUME EIInv, Iteracion, EsAzimut(lectura'), lectura' = azimuth, ~eco,
         banderainic = 0
  PROVE  ultimo = Ninguna
<1> SUFFICES ASSUME ultimo # Ninguna PROVE FALSE
  OBVIOUS
<1>1. /\ azimuth - AZ \in Azimuts /\ azimuth \in Int
      /\ azimuth > azimuth \/ CambioDeVuelta(azimuth, azimuth)
  BY Creciente
<1>2. CambioDeVuelta(azimuth, azimuth)
  BY <1>1
<1>3. 15 * (VUELTA \div 16) < VUELTA \div 16 /\ VUELTA \div 16 \in Nat
  BY <1>1, <1>2, PalabraAssumption DEF CambioDeVuelta, AZ
<1> QED
  BY <1>3

LEMMA PasoAltura ==
  ASSUME EIInv, Recorre, salida'.tipo = "blanco", salida'.alt > 255
  PROVE  /\ Flag_alt = 1 /\ Flag_alt' = 0
         /\ salida'.alt = alt_alt
         /\ (Sector(salida'.az) - sector_alt) % 16 \in {0, 1, 15}
<1>1. /\ P!Barre /\ pc = "barre" /\ ~eco
  BY DEF Recorre, P!Barre, P!Envejece, P!CaducaCorto, P!CaducaBlanco, P!FinBarrido,
     EIInv, EnEco
<1>2. PP!TypeOK
  BY <1>1 DEF EIInv, Rastreo, PP!IInv
<1>3. PICK cerca \in BOOLEAN : P!CaducaBlanco(cerca)
  BY <1>1 DEF P!Barre, P!Envejece, P!CaducaCorto, P!FinBarrido, P!Nada
<1> DEFINE a == P!Centro(prs[j].aztinic, aztant)
           h == IF cerca THEN alt_alt ELSE prs[j].Altura
<1>4. /\ j \in 1 .. Len(prs)
      /\ cerca => P!AlturaVecina(a)
      /\ P!blancos(a, prs[j].rangoinic, h)
      /\ Flag_alt' = IF P!AlturaVecina(a) THEN 0 ELSE Flag_alt
  BY <1>2, <1>3 DEF P!CaducaBlanco, PP!TypeOK
<1>5. salida'.alt = h /\ salida'.az = a
  BY <1>4 DEF P!blancos, P!TramaBlanco
<1>6. prs[j] \in PP!Presencia
  BY <1>2, <1>4 DEF PP!TypeOK
<1>7. prs[j].Altura \in 0 .. 255 /\ prs[j].aztinic \in PP!Azimuts
  BY <1>6 DEF PP!Presencia
<1>8. cerca
  BY <1>5, <1>7
<1>9. Sector(a) \in 0 .. 15
  <2>1. PP!Centro(prs[j].aztinic, aztant) \in PP!Azimuts
    BY SMTT(40), <1>2, <1>7, PP!CentroTipo, AsuncionPrimario, PalabraAssumption DEF PP!TypeOK
  <2>2. PP!Centro(prs[j].aztinic, aztant) = a
    BY DEF PP!Centro, P!Centro, PP!AztFinal, P!AztFinal
  <2>3. PP!Sector(a) \in 0 .. 15
    BY <2>1, <2>2, PP!SectorTipo, AsuncionPrimario, PalabraAssumption
  <2> QED
    BY <2>3 DEF PP!Sector, Sector
<1>10. Flag_alt = 1 /\ \E d \in {0, 1, 15} : sector_alt = (Sector(a) + d) % 16
  BY <1>4, <1>8 DEF P!AlturaVecina, P!Sector, Sector
<1>11. (Sector(a) - sector_alt) % 16 \in {0, 1, 15}
  BY <1>9, <1>10
<1> QED
  BY <1>4, <1>5, <1>8, <1>10, <1>11

(***************************************************************************)
(* The window of line 525 takes 0x8000..0x8002 after any azimuth; the gate *)
(* makes good for it within a session: with no resynchronisation pending,  *)
(* the azimuth moves three steps at most, or over north from sector 15.    *)
(***************************************************************************)
THEOREM SiempreSaltoAcotado == ESpec => SaltoAcotado
<1>1. EIInv /\ [EPaso]_evars =>
        [azimuth' # azimuth /\ banderainic = 0 /\ ultimo # Ninguna =>
           \/ (azimuth' - azimuth) % VUELTA <= 3
           \/ Sector(azimuth - AZ) = 15 /\ azimuth' - AZ < 3]_evars
  BY PasoSalto
<1> QED
  BY <1>1, SiempreEIInv, ENextEsEPaso, PTL DEF ESpec, SaltoAcotado

(***************************************************************************)
(* The branch of line 686, for an azimuth that repeats the last one, is    *)
(* reached by the first azimuth of a session only.                         *)
(***************************************************************************)
THEOREM SiempreRepetidoAlEmpezar == ESpec => RepetidoSoloAlEmpezar
<1>1. EIInv /\ [EPaso]_evars =>
        [Iteracion /\ EsAzimut(lectura') /\ lectura' = azimuth /\ ~eco
           /\ banderainic = 0 => ultimo = Ninguna]_evars
  BY PasoRepetido
<1> QED
  BY <1>1, SiempreEIInv, ENextEsEPaso, PTL DEF ESpec, RepetidoSoloAlEmpezar

(***************************************************************************)
(* A height of COM3 is given to one plot at most, near it, and spent.      *)
(***************************************************************************)
THEOREM SiempreAlturaUnaVez == ESpec => AlturaUnaVez
<1>1. EIInv /\ [EPaso]_evars =>
        [Recorre /\ salida'.tipo = "blanco" /\ salida'.alt > 255 =>
           /\ Flag_alt = 1 /\ Flag_alt' = 0
           /\ salida'.alt = alt_alt
           /\ (Sector(salida'.az) - sector_alt) % 16 \in {0, 1, 15}]_evars
  BY PasoAltura
<1> QED
  BY <1>1, SiempreEIInv, ENextEsEPaso, PTL DEF ESpec, AlturaUnaVez
-----------------------------------------------------------------------------
(***************************************************************************)
(* With the words of a working front end (Antena).                         *)
(***************************************************************************)

(* The words still to be read and, behind them, the azimuth that the       *)
(* antena will send next.                                                  *)
Grado(w) == w - AZ

Sigue(a, n) == (a + n) % VUELTA

Cola == Append(fifo, AZ + Sigue(antena.az, 1))

(* Two azimuths with none between them follow one another, and no azimuth  *)
(* is further from another than the words that separate them.              *)
Seguidas(c) ==
  \A i, k \in DOMAIN c :
    i < k /\ EsAzimut(c[i]) /\ EsAzimut(c[k]) =>
      /\ \E n \in 1 .. k - i : Grado(c[k]) = Sigue(Grado(c[i]), n)
      /\ (\A m \in i + 1 .. k - 1 : ~EsAzimut(c[m])) =>
           Grado(c[k]) = Sigue(Grado(c[i]), 1)

(* The first azimuth of c is between one and n ahead of a. *)
Proxima(c, a, n) ==
  \A i \in DOMAIN c :
    EsAzimut(c[i]) /\ (\A m \in 1 .. i - 1 : ~EsAzimut(c[m])) =>
      \E g \in 1 .. n : Grado(c[i]) = Sigue(a, g)

(* A height is followed by its range. *)
Emparejadas ==
  /\ \A i \in 1 .. Len(fifo) - 1 : EsAltura(fifo[i]) => EsRango(fifo[i + 1])
  /\ fifo # <<>> /\ EsAltura(fifo[Len(fifo)]) => antena.debe
  /\ ~lleno /\ FlagIni = 1 /\ EsAltura(DatoAnt) =>
       IF fifo = <<>> THEN antena.debe ELSE EsRango(fifo[1])

(* What is still to be read is in order: behind AzAnt, but for the one     *)
(* refusal that a loss may cause, and behind the last azimuth of the       *)
(* session.                                                                *)
EnOrden ==
  /\ Seguidas(Cola)
  /\ ~lleno /\ margen = 0 /\ AzAnt # 0 => Proxima(Cola, Grado(AzAnt), VUELTA \div 16)
  /\ ~lleno /\ ultimo # Ninguna => Proxima(Cola, Grado(ultimo), 1)

AIInv ==
  /\ EIInv /\ ~eco
  /\ antena \in [az : Azimuts, debe : BOOLEAN]
  /\ margen \in {0, 1}
  /\ Emparejadas
  /\ EnOrden
-----------------------------------------------------------------------------
(***************************************************************************)
(* Arithmetic of the turn.                                                 *)
(***************************************************************************)
LEMMA Vuelta ==
  /\ VUELTA \in Nat /\ VUELTA >= 16
  /\ VUELTA \div 16 \in Nat /\ VUELTA \div 16 > 0 /\ VUELTA = 16 * (VUELTA \div 16)
<1>1. VUELTA \in Nat /\ VUELTA >= 16 /\ VUELTA % 16 = 0
  BY PalabraAssumption
<1> QED
  BY <1>1

(* A remainder is the only one. *)
LEMMA RestoUnico ==
  ASSUME NEW n \in Nat, n > 0, NEW q \in Int, NEW r \in 0 .. n - 1
  PROVE  (n * q + r) % n = r
<1> DEFINE a == n * q + r
           p == a \div n
           s == a % n
<1>1. a \in Int
  OBVIOUS
<1> HIDE DEF a
<1>2. p \in Int /\ s \in 0 .. n - 1 /\ a = n * p + s
  BY <1>1
<1>3. n * q + r = n * p + s
  BY <1>2 DEF a
<1> HIDE DEF p, s
<1>4. n * (q - p) = s - r
  BY <1>2, <1>3
<1>5. /\ q - p >= 1 => n * (q - p) >= n
      /\ q - p <= -1 => n * (q - p) <= -n
  BY <1>2
<1>6. q - p = 0
  BY <1>2, <1>4, <1>5
<1>7. s = r
  BY <1>2, <1>4, <1>6
<1> QED
  BY <1>7 DEF s, a

LEMMA SigueProp ==
  ASSUME NEW a \in Azimuts, NEW n \in Nat
  PROVE  /\ Sigue(a, n) \in Azimuts
         /\ Sigue(Sigue(a, n), 1) = Sigue(a, n + 1)
         /\ n <= VUELTA => Sigue(a, n) = IF a + n < VUELTA THEN a + n ELSE a + n - VUELTA
<1>1. a \in Nat /\ a < VUELTA
  BY Vuelta DEF Azimuts
<1> DEFINE r == (a + n) % VUELTA
           q == (a + n) \div VUELTA
<1>2. /\ r \in 0 .. VUELTA - 1 /\ q \in Int /\ a + n = VUELTA * q + r
  BY <1>1, Vuelta
<1> HIDE DEF r, q
<1>3. (r + 1) % VUELTA = (a + n + 1) % VUELTA
  <2>1. CASE r + 1 < VUELTA
    <3>1. a + n + 1 = VUELTA * q + (r + 1) /\ r + 1 \in 0 .. VUELTA - 1
      BY <1>1, <1>2, <2>1, Vuelta
    <3>0. VUELTA \in Nat /\ VUELTA > 0 /\ 0 \in Int
      BY Vuelta
    <3>2. (VUELTA * q + (r + 1)) % VUELTA = r + 1
      BY <1>2, <3>0, <3>1, RestoUnico
    <3>3. (VUELTA * 0 + (r + 1)) % VUELTA = r + 1
      BY <3>0, <3>1, RestoUnico
    <3>4. VUELTA * 0 + (r + 1) = r + 1
      BY <1>2, Vuelta
    <3> QED
      BY <3>1, <3>2, <3>3, <3>4
  <2>2. CASE r + 1 = VUELTA
    <3>1. a + n + 1 = VUELTA * (q + 1) + 0
      BY <1>1, <1>2, <2>2, Vuelta
    <3>2. (VUELTA * (q + 1) + 0) % VUELTA = 0
      BY <1>2, Vuelta, RestoUnico
    <3>3. (VUELTA * 1 + 0) % VUELTA = 0
      BY Vuelta, RestoUnico
    <3>4. VUELTA * 1 + 0 = r + 1 /\ VUELTA * (q + 1) + 0 = a + n + 1
      BY <2>2, <3>1, Vuelta
    <3> QED
      BY <3>2, <3>3, <3>4
  <2> QED
    BY <1>2, <2>1, <2>2, Vuelta
<1>4. n <= VUELTA => r = IF a + n < VUELTA THEN a + n ELSE a + n - VUELTA
  <2>1. CASE a + n < VUELTA
    <3>1. (VUELTA * 0 + (a + n)) % VUELTA = a + n
      BY <1>1, <2>1, Vuelta, RestoUnico
    <3> QED
      BY <1>1, <2>1, <3>1, Vuelta DEF r
  <2>2. CASE ~(a + n < VUELTA) /\ n <= VUELTA
    <3>1. a + n - VUELTA \in 0 .. VUELTA - 1 /\ VUELTA * 1 + (a + n - VUELTA) = a + n
      BY <1>1, <2>2, Vuelta
    <3>2. (VUELTA * 1 + (a + n - VUELTA)) % VUELTA = a + n - VUELTA
      BY <3>1, Vuelta, RestoUnico
    <3> QED
      BY <2>2, <3>1, <3>2 DEF r
  <2> QED
    BY <2>1, <2>2
<1> QED
  BY <1>1, <1>2, <1>3, <1>4 DEF Sigue, r, Azimuts

(* The word of an azimuth. *)
LEMMA PalabraDe ==
  ASSUME NEW z \in Azimuts
  PROVE  AZ + z \in Legibles /\ EsAzimut(AZ + z) /\ Grado(AZ + z) = z
<1> DEFINE w == AZ + z
<1>1. z \in Nat /\ z <= 4095
  BY PalabraAssumption DEF Azimuts
<1>2. w \in 1 .. MaxPalabra
  <2>1. w \in Int /\ 1 <= w /\ w <= MaxPalabra /\ MaxPalabra \in Int
    BY <1>1 DEF AZ, MaxPalabra
  <2> HIDE DEF w
  <2> QED
    BY <2>1
<1>3. w - AZ = z
  BY <1>1 DEF AZ
<1>4. w \in AZ .. AZ + 4095
  BY <1>1 DEF AZ
<1> HIDE DEF w
<1>5. w \in Legibles /\ EsAzimut(w) /\ Grado(w) = z
  BY <1>2, <1>3, <1>4 DEF Legibles, EsAzimut, Grado
<1> QED
  BY <1>5 DEF w

LEMMA GradoTipo ==
  ASSUME NEW w \in Legibles, EsAzimut(w)
  PROVE  Grado(w) \in Azimuts /\ w \in Nat /\ w = AZ + Grado(w)
<1>1. w \in Nat /\ w - AZ \in Azimuts
  BY DEF Legibles
<1> QED
  BY <1>1 DEF Grado, AZ

(* An azimuth at most a sector ahead of another is not taken for a step    *)
(* back by the gate, over north either.                                    *)
LEMMA NoRetrocede ==
  ASSUME NEW d \in Legibles, EsAzimut(d), AzAnt \in Legibles, EsAzimut(AzAnt),
         NEW g \in 1 .. VUELTA \div 16, Grado(d) = Sigue(Grado(AzAnt), g)
  PROVE  ~Retrocede(d)
<1>1. /\ Grado(d) \in Azimuts /\ d \in Nat /\ d = AZ + Grado(d)
      /\ Grado(AzAnt) \in Azimuts /\ AzAnt \in Nat /\ AzAnt = AZ + Grado(AzAnt)
  BY GradoTipo
<1> DEFINE x == Grado(AzAnt)
           y == Grado(d)
           k == VUELTA \div 16
<1>2. /\ x \in Nat /\ y \in Nat /\ x < VUELTA /\ y < VUELTA
      /\ k \in Nat /\ k > 0 /\ VUELTA = 16 * k /\ g \in 1 .. k
  BY <1>1, Vuelta DEF Azimuts
<1>3. y = IF x + g < VUELTA THEN x + g ELSE x + g - VUELTA
  <2>1. g \in Nat /\ g <= VUELTA
    BY <1>2
  <2> QED
    BY <1>1, <2>1, SigueProp
<1>4. d - AZ = y /\ AzAnt - AZ = x /\ (d <= AzAnt <=> y <= x)
  BY <1>1, <1>2 DEF AZ
<1> HIDE DEF x, y
<1>5. CASE x + g < VUELTA
  <2>1. ~(d <= AzAnt)
    BY <1>2, <1>3, <1>4, <1>5
  <2> QED
    BY <2>1 DEF Retrocede
<1>6. CASE ~(x + g < VUELTA)
  <2>1. x >= 15 * k /\ y < k
    BY <1>2, <1>3, <1>6
  <2> QED
    BY <1>4, <2>1 DEF Retrocede, CambioDeVuelta
<1> QED
  BY <1>5, <1>6
-----------------------------------------------------------------------------
(***************************************************************************)
(* The words to come, and how they change: f is a FIFO and w the azimuth   *)
(* that the antenna sends next.                                            *)
(***************************************************************************)
LEMMA Indices ==
  ASSUME NEW f \in Seq(Legibles), NEW w \in Legibles
  PROVE  /\ Len(f) \in Nat /\ DOMAIN f = 1 .. Len(f)
         /\ DOMAIN Append(f, w) = 1 .. Len(f) + 1
         /\ Append(f, w) \in Seq(Legibles) /\ Len(Append(f, w)) = Len(f) + 1
         /\ \A i \in 1 .. Len(f) : Append(f, w)[i] = f[i] /\ f[i] \in Legibles
         /\ Append(f, w)[Len(f) + 1] = w
  BY AppendProperties, LenProperties, ElementOfSeq

LEMMA Quita ==
  ASSUME NEW f \in Seq(Legibles), NEW w \in Legibles, f # <<>>
  PROVE  /\ Len(f) \in Nat \ {0} /\ Tail(f) \in Seq(Legibles)
         /\ DOMAIN Append(Tail(f), w) = 1 .. Len(f)
         /\ Head(f) = Append(f, w)[1]
         /\ \A i \in 1 .. Len(f) : Append(Tail(f), w)[i] = Append(f, w)[i + 1]
<1>1. /\ Len(f) \in Nat \ {0} /\ Tail(f) \in Seq(Legibles) /\ Len(Tail(f)) = Len(f) - 1
      /\ \A i \in 1 .. Len(f) - 1 : Tail(f)[i] = f[i + 1]
      /\ Head(f) = f[1]
  BY HeadTailProperties, LenProperties, EmptySeq
<1>2. /\ DOMAIN Append(Tail(f), w) = 1 .. Len(f)
      /\ \A i \in 1 .. Len(f) - 1 : Append(Tail(f), w)[i] = Tail(f)[i]
      /\ Append(Tail(f), w)[Len(f)] = w
  BY <1>1, Indices
<1>3. /\ \A i \in 1 .. Len(f) : Append(f, w)[i] = f[i]
      /\ Append(f, w)[Len(f) + 1] = w
  BY Indices
<1>4. ASSUME NEW i \in 1 .. Len(f)
      PROVE  Append(Tail(f), w)[i] = Append(f, w)[i + 1]
  <2>1. CASE i = Len(f)
    BY <1>2, <1>3, <2>1
  <2>2. CASE i # Len(f)
    <3>0. Len(f) \in Nat
      BY <1>1
    <3>1. i \in 1 .. Len(f) - 1 /\ i + 1 \in 1 .. Len(f)
      BY <2>2, <3>0
    <3>2. Append(Tail(f), w)[i] = Tail(f)[i] /\ Tail(f)[i] = f[i + 1]
      BY <1>1, <1>2, <3>1
    <3>3. Append(f, w)[i + 1] = f[i + 1]
      BY <1>3, <3>1
    <3> QED
      BY <3>2, <3>3
  <2> QED
    BY <2>1, <2>2
<1>5. Head(f) = Append(f, w)[1]
  BY <1>1, <1>3
<1> QED
  BY <1>1, <1>2, <1>4, <1>5

(* The antenna sends w, and v comes next. *)
LEMMA LlegaAzimut ==
  ASSUME NEW f \in Seq(Legibles), NEW w \in Legibles, NEW v \in Legibles,
         EsAzimut(w), EsAzimut(v), Grado(v) = Sigue(Grado(w), 1)
  PROVE  LET c == Append(f, w)  d == Append(c, v) IN
         /\ Seguidas(c) => Seguidas(d)
         /\ \A a, n : Proxima(c, a, n) => Proxima(d, a, n)
<1> DEFINE c == Append(f, w)
           d == Append(c, v)
           l == Len(f)
<1>1. /\ l \in Nat /\ DOMAIN c = 1 .. l + 1 /\ c \in Seq(Legibles) /\ Len(c) = l + 1
      /\ c[l + 1] = w /\ \A i \in 1 .. l + 1 : c[i] \in Legibles
  BY Indices
<1>2. /\ DOMAIN d = 1 .. l + 2 /\ d[l + 2] = v
      /\ \A i \in 1 .. l + 1 : d[i] = c[i]
  <2>1. DOMAIN d = 1 .. Len(c) + 1 /\ d[Len(c) + 1] = v
        /\ \A i \in 1 .. Len(c) : d[i] = c[i]
    BY <1>1, Indices
  <2> QED
    BY <1>1, <2>1
<1> HIDE DEF c, d, l
<1>3. ASSUME Seguidas(c), NEW i \in DOMAIN d, NEW k \in DOMAIN d,
             i < k, EsAzimut(d[i]), EsAzimut(d[k])
      PROVE  /\ \E n \in 1 .. k - i : Grado(d[k]) = Sigue(Grado(d[i]), n)
             /\ (\A m \in i + 1 .. k - 1 : ~EsAzimut(d[m])) =>
                  Grado(d[k]) = Sigue(Grado(d[i]), 1)
  <2>1. CASE k <= l + 1
    <3>1. i \in DOMAIN c /\ k \in DOMAIN c /\ d[i] = c[i] /\ d[k] = c[k]
      BY <1>1, <1>2, <1>3, <2>1
    <3>2. \A m \in i + 1 .. k - 1 : d[m] = c[m]
      BY <1>1, <1>2, <1>3, <2>1
    <3> QED
      BY <1>3, <3>1, <3>2 DEF Seguidas
  <2>2. CASE k = l + 2 /\ i = l + 1
    <3>1. 1 \in 1 .. k - i /\ d[i] = w /\ d[k] = v
      BY <1>1, <1>2, <2>2
    <3> QED
      BY <3>1
  <2>3. CASE k = l + 2 /\ i < l + 1
    <3>1. /\ i \in DOMAIN c /\ l + 1 \in DOMAIN c /\ d[i] = c[i] /\ d[k] = v
          /\ c[i] \in Legibles
      BY <1>1, <1>2, <1>3, <2>3
    <3>2. PICK n \in 1 .. (l + 1) - i : Grado(w) = Sigue(Grado(c[i]), n)
      BY <1>1, <1>3, <2>3, <3>1 DEF Seguidas
    <3>3. Grado(v) = Sigue(Grado(c[i]), n + 1)
      <4>1. Grado(c[i]) \in Azimuts
        BY <1>3, <3>1, GradoTipo
      <4>2. n \in Nat
        BY <1>1, <1>3, <2>3
      <4> QED
        BY <3>2, <4>1, <4>2, SigueProp
    <3>4. n + 1 \in 1 .. k - i
      BY <1>1, <1>2, <2>3
    <3>5. l + 1 \in i + 1 .. k - 1 /\ d[l + 1] = w
      BY <1>1, <1>2, <2>3
    <3> QED
      BY <3>1, <3>3, <3>4, <3>5
  <2> QED
    BY <1>1, <1>2, <1>3, <2>1, <2>2, <2>3
<1>4. Seguidas(c) => Seguidas(d)
  BY <1>3 DEF Seguidas
<1>5. ASSUME NEW a, NEW n, Proxima(c, a, n), NEW i \in DOMAIN d, EsAzimut(d[i]),
             \A m \in 1 .. i - 1 : ~EsAzimut(d[m])
      PROVE  \E g \in 1 .. n : Grado(d[i]) = Sigue(a, g)
  <2>1. i <= l + 1
    <3>1. i = l + 2 => l + 1 \in 1 .. i - 1 /\ d[l + 1] = w
      BY <1>1, <1>2
    <3> QED
      BY <1>1, <1>2, <1>5, <3>1
  <2>2. i \in DOMAIN c /\ d[i] = c[i] /\ \A m \in 1 .. i - 1 : d[m] = c[m]
    BY <1>1, <1>2, <2>1
  <2> QED
    BY <1>5, <2>2 DEF Proxima
<1>6. ASSUME NEW a, NEW n, Proxima(c, a, n)
      PROVE  Proxima(d, a, n)
  BY <1>5, <1>6 DEF Proxima
<1> QED
  BY <1>4, <1>6 DEF c, d

(* Another word v comes before w. *)
LEMMA LlegaOtra ==
  ASSUME NEW f \in Seq(Legibles), NEW w \in Legibles, NEW v \in Legibles,
         ~EsAzimut(v)
  PROVE  LET c == Append(f, w)  d == Append(Append(f, v), w) IN
         /\ Seguidas(c) => Seguidas(d)
         /\ \A a, n : Proxima(c, a, n) => Proxima(d, a, n)
<1> DEFINE c == Append(f, w)
           e == Append(f, v)
           d == Append(e, w)
           l == Len(f)
           u(i) == IF i = l + 2 THEN l + 1 ELSE i
<1>1. /\ l \in Nat /\ DOMAIN c = 1 .. l + 1 /\ c[l + 1] = w
      /\ \A i \in 1 .. l : c[i] = f[i]
  BY Indices
<1>2. /\ DOMAIN d = 1 .. l + 2 /\ d[l + 2] = w /\ d[l + 1] = v
      /\ \A i \in 1 .. l : d[i] = f[i]
  <2>1. /\ e \in Seq(Legibles) /\ Len(e) = l + 1 /\ e[l + 1] = v
        /\ \A i \in 1 .. l : e[i] = f[i]
    BY Indices
  <2>2. /\ DOMAIN d = 1 .. Len(e) + 1 /\ d[Len(e) + 1] = w
        /\ \A i \in 1 .. Len(e) : d[i] = e[i]
    BY <2>1, Indices
  <2> QED
    BY <1>1, <2>1, <2>2
<1> HIDE DEF c, d, e, l
<1>3. ASSUME NEW i \in DOMAIN d, EsAzimut(d[i])
      PROVE  /\ u(i) \in DOMAIN c /\ d[i] = c[u(i)] /\ u(i) <= i /\ i <= u(i) + 1
             /\ (u(i) = i /\ i <= l) \/ (u(i) = l + 1 /\ i = l + 2)
  <2>1. i # l + 1
    BY <1>2, <1>3
  <2>2. CASE i \in 1 .. l
    BY <1>1, <1>2, <2>2
  <2>3. CASE i = l + 2
    BY <1>1, <1>2, <2>3
  <2>4. i \in 1 .. l \/ i = l + 2
    BY <1>1, <1>2, <2>1
  <2> QED
    BY <2>2, <2>3, <2>4
<1>4. ASSUME Seguidas(c), NEW i \in DOMAIN d, NEW k \in DOMAIN d,
             i < k, EsAzimut(d[i]), EsAzimut(d[k])
      PROVE  /\ \E n \in 1 .. k - i : Grado(d[k]) = Sigue(Grado(d[i]), n)
             /\ (\A m \in i + 1 .. k - 1 : ~EsAzimut(d[m])) =>
                  Grado(d[k]) = Sigue(Grado(d[i]), 1)
  <2>1. /\ u(i) \in DOMAIN c /\ u(k) \in DOMAIN c /\ u(i) = i /\ i <= l
        /\ u(i) < u(k) /\ u(k) <= k /\ d[i] = c[u(i)] /\ d[k] = c[u(k)]
    BY <1>1, <1>2, <1>3, <1>4
  <2>2. PICK n \in 1 .. u(k) - u(i) : Grado(d[k]) = Sigue(Grado(d[i]), n)
    BY <1>4, <2>1 DEF Seguidas
  <2>3. n \in 1 .. k - i
    BY <1>1, <1>2, <2>1
  <2>4. \A m \in u(i) + 1 .. u(k) - 1 : m \in i + 1 .. k - 1 /\ c[m] = d[m]
    BY <1>1, <1>2, <2>1
  <2> QED
    BY <1>4, <2>1, <2>2, <2>3, <2>4 DEF Seguidas
<1>5. Seguidas(c) => Seguidas(d)
  BY <1>4 DEF Seguidas
<1>6. ASSUME NEW a, NEW n, Proxima(c, a, n), NEW i \in DOMAIN d, EsAzimut(d[i]),
             \A m \in 1 .. i - 1 : ~EsAzimut(d[m])
      PROVE  \E g \in 1 .. n : Grado(d[i]) = Sigue(a, g)
  <2>1. u(i) \in DOMAIN c /\ d[i] = c[u(i)]
    BY <1>3, <1>6
  <2>2. \A m \in 1 .. u(i) - 1 : m \in 1 .. i - 1 /\ c[m] = d[m]
    BY <1>1, <1>2, <1>3, <1>6
  <2> QED
    BY <1>6, <2>1, <2>2 DEF Proxima
<1>7. ASSUME NEW a, NEW n, Proxima(c, a, n)
      PROVE  Proxima(d, a, n)
  BY <1>6, <1>7 DEF Proxima
<1> QED
  BY <1>5, <1>7 DEF c, d, e

(* The gate takes a word. *)
LEMMA SaleUna ==
  ASSUME NEW f \in Seq(Legibles), NEW w \in Legibles, f # <<>>
  PROVE  LET c == Append(f, w)  d == Append(Tail(f), w) IN
         /\ Seguidas(c) => Seguidas(d)
         /\ Seguidas(c) /\ EsAzimut(Head(f)) => Proxima(d, Grado(Head(f)), 1)
         /\ \A a, n : Proxima(c, a, n) /\ ~EsAzimut(Head(f)) => Proxima(d, a, n)
<1> DEFINE c == Append(f, w)
           d == Append(Tail(f), w)
           l == Len(f)
<1>1. /\ l \in Nat \ {0} /\ DOMAIN c = 1 .. l + 1 /\ DOMAIN d = 1 .. l /\ Head(f) = c[1]
      /\ \A i \in 1 .. l : d[i] = c[i + 1]
  BY Indices, Quita
<1> HIDE DEF c, d, l
<1>2. ASSUME Seguidas(c), NEW i \in DOMAIN d, NEW k \in DOMAIN d,
             i < k, EsAzimut(d[i]), EsAzimut(d[k])
      PROVE  /\ \E n \in 1 .. k - i : Grado(d[k]) = Sigue(Grado(d[i]), n)
             /\ (\A m \in i + 1 .. k - 1 : ~EsAzimut(d[m])) =>
                  Grado(d[k]) = Sigue(Grado(d[i]), 1)
  <2>1. /\ i + 1 \in DOMAIN c /\ k + 1 \in DOMAIN c /\ d[i] = c[i + 1] /\ d[k] = c[k + 1]
        /\ i + 1 < k + 1 /\ (k + 1) - (i + 1) = k - i
    BY SMTT(40), <1>1, <1>2
  <2>2. \A m \in (i + 1) + 1 .. (k + 1) - 1 :
          m - 1 \in i + 1 .. k - 1 /\ d[m - 1] = c[m]
    <3> SUFFICES ASSUME NEW m \in (i + 1) + 1 .. (k + 1) - 1
                 PROVE  m - 1 \in i + 1 .. k - 1 /\ d[m - 1] = c[m]
      OBVIOUS
    <3>1. /\ i \in 1 .. l /\ k \in 1 .. l /\ m \in Int /\ i + 2 <= m /\ m <= k
      BY <1>1, <1>2
    <3>2. m - 1 \in i + 1 .. k - 1 /\ m - 1 \in 1 .. l /\ (m - 1) + 1 = m
      BY SMTT(40), <1>1, <3>1
    <3> QED
      BY <1>1, <3>2
  <2> QED
    BY <1>2, <2>1, <2>2 DEF Seguidas
<1>3. Seguidas(c) => Seguidas(d)
  BY <1>2 DEF Seguidas
<1>4. ASSUME Seguidas(c), EsAzimut(c[1]), NEW i \in DOMAIN d, EsAzimut(d[i]),
             \A m \in 1 .. i - 1 : ~EsAzimut(d[m])
      PROVE  \E g \in 1 .. 1 : Grado(d[i]) = Sigue(Grado(c[1]), g)
  <2>1. 1 \in DOMAIN c /\ i + 1 \in DOMAIN c /\ 1 < i + 1 /\ d[i] = c[i + 1]
    BY <1>1
  <2>2. \A m \in 1 + 1 .. (i + 1) - 1 : ~EsAzimut(c[m])
    <3> SUFFICES ASSUME NEW m \in 1 + 1 .. (i + 1) - 1
                 PROVE  ~EsAzimut(c[m])
      OBVIOUS
    <3>1. m - 1 \in 1 .. i - 1 /\ m - 1 \in 1 .. l /\ (m - 1) + 1 = m
      BY <1>1
    <3> QED
      BY <1>1, <1>4, <3>1
  <2>3. Grado(c[i + 1]) = Sigue(Grado(c[1]), 1)
    BY <1>4, <2>1, <2>2 DEF Seguidas
  <2> QED
    BY <2>1, <2>3
<1>5. Seguidas(c) /\ EsAzimut(Head(f)) => Proxima(d, Grado(Head(f)), 1)
  BY <1>1, <1>4 DEF Proxima
<1>6. ASSUME NEW a, NEW n, Proxima(c, a, n), ~EsAzimut(c[1]), NEW i \in DOMAIN d,
             EsAzimut(d[i]), \A m \in 1 .. i - 1 : ~EsAzimut(d[m])
      PROVE  \E g \in 1 .. n : Grado(d[i]) = Sigue(a, g)
  <2>1. i + 1 \in DOMAIN c /\ d[i] = c[i + 1]
    BY <1>1
  <2>2. ASSUME NEW m \in 1 .. (i + 1) - 1
        PROVE  ~EsAzimut(c[m])
    <3>1. CASE m = 1
      BY <1>6, <3>1
    <3>2. CASE m # 1
      <4>1. m - 1 \in 1 .. i - 1 /\ m - 1 \in 1 .. l /\ (m - 1) + 1 = m
        BY <1>1, <3>2
      <4> QED
        BY <1>1, <1>6, <4>1
    <3> QED
      BY <3>1, <3>2
  <2> QED
    BY <1>6, <2>1, <2>2 DEF Proxima
<1>7. ASSUME NEW a, NEW n, Proxima(c, a, n), ~EsAzimut(Head(f))
      PROVE  Proxima(d, a, n)
  <2>1. ~EsAzimut(c[1])
    BY <1>1, <1>7
  <2> QED
    BY <1>6, <1>7, <2>1 DEF Proxima
<1> QED
  BY <1>3, <1>5, <1>7 DEF c, d

(* The FIFO is emptied, perhaps behind an azimuth. *)
LEMMA SeVacia ==
  ASSUME NEW f \in Seq(Legibles), NEW w \in Legibles, EsAzimut(w)
  PROVE  /\ Seguidas(Append(<<>>, w))
         /\ f # <<>> /\ EsAzimut(Head(f)) /\ Seguidas(Append(f, w)) =>
              Proxima(Append(<<>>, w), Grado(Head(f)), Len(f))
<1>1. <<>> \in Seq(Legibles) /\ Len(<<>>) = 0
  BY EmptySeq
<1>2. DOMAIN Append(<<>>, w) = {1} /\ Append(<<>>, w)[1] = w
  <2>1. DOMAIN Append(<<>>, w) = 1 .. 0 + 1 /\ Append(<<>>, w)[0 + 1] = w
    BY <1>1, Indices
  <2> QED
    BY <2>1
<1>3. Seguidas(Append(<<>>, w))
  BY <1>2 DEF Seguidas
<1>4. ASSUME f # <<>>, EsAzimut(Head(f)), Seguidas(Append(f, w))
      PROVE  Proxima(Append(<<>>, w), Grado(Head(f)), Len(f))
  <2>1. /\ Len(f) \in Nat \ {0} /\ Head(f) = Append(f, w)[1]
        /\ DOMAIN Append(f, w) = 1 .. Len(f) + 1 /\ Append(f, w)[Len(f) + 1] = w
    BY <1>4, Indices, Quita
  <2>2. /\ 1 \in DOMAIN Append(f, w) /\ Len(f) + 1 \in DOMAIN Append(f, w)
        /\ 1 < Len(f) + 1 /\ (Len(f) + 1) - 1 = Len(f)
    BY <2>1
  <2>3. \E n \in 1 .. Len(f) : Grado(w) = Sigue(Grado(Head(f)), n)
    BY <1>4, <2>1, <2>2 DEF Seguidas
  <2> QED
    BY <1>2, <2>3 DEF Proxima
<1> QED
  BY <1>3, <1>4
-----------------------------------------------------------------------------
(***************************************************************************)
(* The steps.                                                              *)
(***************************************************************************)
LEMMA UnaClase ==
  ASSUME NEW w
  PROVE  /\ EsAzimut(w) => ~EsRango(w) /\ ~EsAltura(w)
         /\ EsRango(w) => ~EsAltura(w)
<1>1. EsAzimut(w) => w \in Int /\ 32768 <= w /\ w <= 36863
  BY DEF EsAzimut, AZ
<1>2. EsRango(w) => w \in Int /\ 12288 <= w /\ w <= 16383
  BY DEF EsRango, RG
<1>3. EsAltura(w) => w \in Int /\ 49152 <= w
  BY DEF EsAltura, ALT
<1> QED
  BY <1>1, <1>2, <1>3

Siguiente == AZ + Sigue(antena.az, 1)

LEMMA Base ==
  ASSUME AIInv
  PROVE  /\ IInv /\ TypeOK /\ fifo \in Seq(Legibles) /\ Len(fifo) \in Nat
         /\ Len(fifo) < Capacidad
         /\ AzAnt = 0 \/ (AzAnt \in Legibles /\ EsAzimut(AzAnt))
         /\ antena.az \in Azimuts /\ antena.debe \in BOOLEAN
         /\ Siguiente \in Legibles /\ EsAzimut(Siguiente)
         /\ Grado(Siguiente) = Sigue(antena.az, 1) /\ Cola = Append(fifo, Siguiente)
<1>1. antena.az \in Azimuts /\ antena.debe \in BOOLEAN
  BY DEF AIInv
<1>2. Sigue(antena.az, 1) \in Azimuts
  BY <1>1, SigueProp
<1>3. IInv /\ TypeOK
  BY DEF AIInv, EIInv, IInv
<1>4. fifo \in Seq(Legibles) /\ Len(fifo) < Capacidad
  BY <1>3 DEF TypeOK
<1> QED
  BY <1>1, <1>2, <1>3, <1>4, PalabraDe, LenProperties DEF Siguiente, Cola, TypeOK

(* What the antena sends: the word v, and then the next azimuth.           *)
LEMMA LoQueManda ==
  ASSUME AIInv, GiraAntena \/ \E w \in Palabras : EnviaRango(w) \/ EnviaAltura(w)
  PROVE  /\ margen' = margen /\ antena' \in [az : Azimuts, debe : BOOLEAN]
         /\ \E v \in Legibles :
              /\ LlegaPalabra(v)
              /\ \/ /\ v = Siguiente /\ antena'.az = Sigue(antena.az, 1)
                    /\ ~antena.debe /\ ~antena'.debe
                 \/ EsRango(v) /\ antena'.az = antena.az /\ ~antena'.debe
                 \/ EsAltura(v) /\ antena'.az = antena.az /\ ~antena.debe /\ antena'.debe
<1>0. antena \in [az : Azimuts, debe : BOOLEAN] /\ Siguiente \in Legibles
      /\ Sigue(antena.az, 1) \in Azimuts
  BY Base, SigueProp DEF AIInv
<1>1. CASE GiraAntena
  <2>1. /\ ~antena.debe /\ antena' = [antena EXCEPT !.az = Sigue(antena.az, 1)]
        /\ LlegaPalabra(AZ + antena'.az) /\ margen' = margen
    BY <1>1 DEF GiraAntena, Sigue
  <2>2. antena'.az = Sigue(antena.az, 1) /\ antena'.debe = antena.debe
        /\ antena' \in [az : Azimuts, debe : BOOLEAN]
    BY <1>0, <2>1
  <2> QED
    BY <1>0, <2>1, <2>2 DEF Siguiente
<1>2. ASSUME NEW w \in Palabras, EnviaRango(w)
      PROVE  /\ margen' = margen /\ antena' \in [az : Azimuts, debe : BOOLEAN]
             /\ LlegaPalabra(w) /\ EsRango(w) /\ antena'.az = antena.az /\ ~antena'.debe
  BY <1>0, <1>2 DEF EnviaRango
<1>3. ASSUME NEW w \in Palabras, EnviaAltura(w)
      PROVE  /\ margen' = margen /\ antena' \in [az : Azimuts, debe : BOOLEAN]
             /\ LlegaPalabra(w) /\ EsAltura(w) /\ antena'.az = antena.az
             /\ ~antena.debe /\ antena'.debe
  BY <1>0, <1>3 DEF EnviaAltura
<1>4. Palabras \subseteq Legibles
  BY CtrlFifoAssumption
<1> QED
  BY <1>1, <1>2, <1>3, <1>4

(* Antena is the composition with the words that a radar sends. *)
LEMMA PasoDeAntena == AIInv /\ [ANext]_avars => [EPaso]_evars
<1> SUFFICES ASSUME AIInv, ANext
             PROVE  EPaso
  BY DEF avars
<1>1. CASE Itera \/ Recorrido
  BY <1>1 DEF Itera, Recorrido, EPaso
<1>2. CASE GiraAntena \/ \E w \in Palabras : EnviaRango(w) \/ EnviaAltura(w)
  BY <1>2, LoQueManda DEF EPaso
<1> QED
  BY <1>1, <1>2 DEF ANext

(* What the arrival of a word does to the order. *)
LEMMA OrdenAlLlegar ==
  ASSUME AIInv, NEW v \in Legibles, LlegaPalabra(v), margen' = margen,
         \/ v = Siguiente /\ antena'.az = Sigue(antena.az, 1)
         \/ ~EsAzimut(v) /\ antena'.az = antena.az
  PROVE  EnOrden'
<1> DEFINE w == Siguiente
           x == AZ + Sigue(antena'.az, 1)
<1>1. /\ fifo \in Seq(Legibles) /\ w \in Legibles /\ EsAzimut(w) /\ antena.az \in Azimuts
      /\ Grado(w) = Sigue(antena.az, 1) /\ Cola = Append(fifo, w)
  BY Base
<1>2. antena'.az \in Azimuts
  BY <1>1, SigueProp
<1>3. /\ x \in Legibles /\ EsAzimut(x) /\ Grado(x) = Sigue(antena'.az, 1)
      /\ Cola' = Append(fifo', x)
  BY <1>2, SigueProp, PalabraDe DEF Cola
<1>4. /\ fifo' = IF lleno' THEN <<>> ELSE Append(fifo, v)
      /\ ~lleno' => ~lleno
      /\ AzAnt' = AzAnt /\ ultimo' = ultimo
  BY DEF LlegaPalabra, Llega, control
<1>5. CASE lleno'
  <2>1. Cola' = Append(<<>>, x)
    BY <1>3, <1>4, <1>5
  <2> QED
    BY <1>1, <1>3, <1>5, <2>1, SeVacia DEF EnOrden
<1>6. CASE ~lleno'
  <2>1. /\ Seguidas(Cola) => Seguidas(Cola')
        /\ \A a, n : Proxima(Cola, a, n) => Proxima(Cola', a, n)
    <3>1. CASE v = Siguiente /\ antena'.az = Sigue(antena.az, 1)
      <4>1. Cola' = Append(Append(fifo, w), x) /\ Grado(x) = Sigue(Grado(w), 1)
        BY <1>1, <1>3, <1>4, <1>6, <3>1
      <4> QED
        BY <1>1, <1>3, <4>1, LlegaAzimut
    <3>2. CASE ~EsAzimut(v) /\ antena'.az = antena.az
      <4>1. Cola' = Append(Append(fifo, v), w)
        BY <1>3, <1>4, <1>6, <3>2 DEF Siguiente
      <4> QED
        BY <1>1, <3>2, <4>1, LlegaOtra
    <3> QED
      BY <3>1, <3>2
  <2>2. EnOrden
    BY DEF AIInv
  <2> QED
    BY <1>4, <1>6, <2>1, <2>2 DEF EnOrden
<1> QED
  BY <1>5, <1>6

LEMMA ParejasAlLlegar ==
  ASSUME AIInv, NEW v \in Legibles, LlegaPalabra(v),
         \/ EsAzimut(v) /\ ~antena.debe
         \/ EsRango(v)
         \/ EsAltura(v) /\ ~antena.debe /\ antena'.debe
  PROVE  Emparejadas'
<1> DEFINE l == Len(fifo)
<1>1. /\ fifo \in Seq(Legibles) /\ l \in Nat
      /\ fifo = <<>> <=> l = 0
  BY Base, EmptySeq
<1>2. /\ fifo' = IF lleno' THEN <<>> ELSE Append(fifo, v)
      /\ ~lleno' => ~lleno
      /\ FlagIni' = FlagIni /\ DatoAnt' = DatoAnt
  BY DEF LlegaPalabra, Llega, control
<1>3. Emparejadas
  BY DEF AIInv
<1>4. CASE lleno'
  <2>1. fifo' = <<>> /\ Len(fifo') = 0
    BY <1>2, <1>4, EmptySeq
  <2> QED
    BY <1>4, <2>1 DEF Emparejadas
<1>5. CASE ~lleno'
  <2>1. /\ fifo' \in Seq(Legibles) /\ Len(fifo') = l + 1 /\ fifo' # <<>>
        /\ fifo'[l + 1] = v
        /\ \A i \in 1 .. l : fifo'[i] = fifo[i]
    BY <1>1, <1>2, <1>5, AppendProperties
  <2> HIDE DEF l
  <2>2. ASSUME NEW i \in 1 .. l, EsAltura(fifo'[i])
        PROVE  EsRango(fifo'[i + 1])
    <3>1. CASE i = l
      <4>1. antena.debe
        BY <1>1, <1>3, <2>1, <2>2, <3>1 DEF Emparejadas, l
      <4> QED
        BY <2>1, <3>1, <4>1
    <3>2. CASE i # l
      <4>1. i \in 1 .. l - 1 /\ i + 1 \in 1 .. l
        BY <1>1, <3>2
      <4> QED
        BY <1>3, <2>1, <2>2, <4>1 DEF Emparejadas, l
    <3> QED
      BY <3>1, <3>2
  <2>3. EsAltura(v) => antena'.debe
    BY UnaClase
  <2>4. ASSUME FlagIni = 1, EsAltura(DatoAnt)
        PROVE  EsRango(fifo'[1])
    <3>1. CASE l = 0
      <4>1. antena.debe
        BY <1>1, <1>2, <1>3, <1>5, <2>4, <3>1 DEF Emparejadas
      <4> QED
        BY <2>1, <3>1, <4>1
    <3>2. CASE l # 0
      <4>1. 1 \in 1 .. l
        BY <1>1, <3>2
      <4> QED
        BY <1>1, <1>2, <1>3, <1>5, <2>1, <2>4, <3>2, <4>1 DEF Emparejadas
    <3> QED
      BY <3>1, <3>2
  <2>5. \A i \in 1 .. Len(fifo') - 1 : EsAltura(fifo'[i]) => EsRango(fifo'[i + 1])
    BY <1>1, <2>1, <2>2
  <2>6. EsAltura(fifo'[Len(fifo')]) => antena'.debe
    BY <2>1, <2>3
  <2> QED
    BY <1>2, <2>1, <2>4, <2>5, <2>6 DEF Emparejadas
<1> QED
  BY <1>4, <1>5

LEMMA MasLejos ==
  ASSUME NEW c, NEW a, NEW m \in Int, NEW n \in Int, m <= n, Proxima(c, a, m)
  PROVE  Proxima(c, a, n)
<1>1. \A g \in 1 .. m : g \in 1 .. n
  OBVIOUS
<1> QED
  BY <1>1 DEF Proxima

(* A reset of the FIFO. *)
LEMMA TrasReinicio ==
  ASSUME AIInv, Reinicia, UNCHANGED antena
  PROVE  /\ Emparejadas'
         /\ Cola' = Append(<<>>, Siguiente) /\ Seguidas(Cola')
         /\ ~lleno' /\ ultimo' = Ninguna
<1>1. /\ fifo' = <<>> /\ ~lleno' /\ FlagIni' = 0 /\ ultimo' = Ninguna /\ Len(fifo') = 0
  BY EmptySeq DEF Reinicia
<1>2. Emparejadas'
  BY <1>1 DEF Emparejadas
<1>3. Cola' = Append(<<>>, Siguiente)
  BY <1>1 DEF Cola, Siguiente
<1>4. Seguidas(Cola')
  BY <1>3, Base, SeVacia
<1> QED
  BY <1>1, <1>2, <1>3, <1>4

LEMMA AlPerder ==
  ASSUME AIInv, Pierde, margen' = 1, UNCHANGED antena
  PROVE  Emparejadas' /\ EnOrden'
<1>1. Reinicia
  BY DEF Pierde, Desborde, ErrorClase
<1> QED
  BY <1>1, TrasReinicio DEF EnOrden

(* The word that the gate looks at is the first of those to come. *)
LEMMA ElPrimero ==
  ASSUME AIInv, HayDato
  PROVE  /\ Dato \in Legibles /\ Dato = Cola[1] /\ Dato = fifo[1]
         /\ 1 \in DOMAIN Cola /\ fifo # <<>> /\ ~lleno
         /\ Tail(fifo) \in Seq(Legibles) /\ Len(fifo) \in Nat \ {0}
         /\ Len(Tail(fifo)) = Len(fifo) - 1
         /\ \A i \in 1 .. Len(fifo) - 1 : Tail(fifo)[i] = fifo[i + 1]
<1>1. fifo \in Seq(Legibles) /\ fifo # <<>> /\ ~lleno /\ TypeOK
  BY Base DEF HayDato
<1>2. /\ Tail(fifo) \in Seq(Legibles) /\ Len(fifo) \in Nat \ {0}
      /\ Len(Tail(fifo)) = Len(fifo) - 1 /\ Dato = fifo[1]
      /\ \A i \in 1 .. Len(fifo) - 1 : Tail(fifo)[i] = fifo[i + 1]
  BY <1>1, HeadTailProperties, LenProperties, EmptySeq DEF Dato
<1>3. /\ Cola = Append(fifo, Siguiente) /\ Siguiente \in Legibles
  BY Base
<1>4. /\ Dato = Cola[1] /\ DOMAIN Cola = 1 .. Len(fifo) + 1
  BY <1>1, <1>3, Quita, Indices DEF Dato
<1> QED
  BY <1>1, <1>2, <1>4, DatoLegible

(* With no margin left, the gate refuses no azimuth. *)
LEMMA SinMargen ==
  ASSUME AIInv, ErrorAzimut
  PROVE  margen = 1
<1> SUFFICES ASSUME margen = 0 PROVE FALSE
  BY DEF AIInv
<1>1. HayDato /\ EsAzimut(Dato) /\ Retrocede(Dato)
  BY DEF ErrorAzimut
<1>2. Dato \in Legibles /\ Dato = Cola[1] /\ 1 \in DOMAIN Cola /\ ~lleno
  BY <1>1, ElPrimero
<1>3. CASE AzAnt = 0
  <2>1. \A w : EsAzimut(w) => w \in Int /\ ~(w <= 0)
    BY DEF EsAzimut, AZ
  <2>2. Dato <= AzAnt /\ ~(Dato <= 0)
    BY <1>1, <2>1 DEF Retrocede
  <2> QED
    BY <1>3, <2>2
<1>4. CASE AzAnt # 0
  <2>1. Proxima(Cola, Grado(AzAnt), VUELTA \div 16)
    BY <1>2, <1>4 DEF AIInv, EnOrden
  <2>2. \A m \in 1 .. 1 - 1 : ~EsAzimut(Cola[m])
    OBVIOUS
  <2>3. \E g \in 1 .. VUELTA \div 16 : Grado(Dato) = Sigue(Grado(AzAnt), g)
    BY <1>1, <1>2, <2>1, <2>2 DEF Proxima
  <2> QED
    BY <1>1, <1>2, <1>4, <2>3, Base, NoRetrocede
<1> QED
  BY <1>3, <1>4

(* The azimuth refused and the ones to come are less than a sector apart:  *)
(* what the reset drops is less than that.                                 *)
LEMMA AlRechazarAzimut ==
  ASSUME AIInv, ErrorAzimut, UNCHANGED antena
  PROVE  Emparejadas' /\ EnOrden'
<1>1. HayDato /\ EsAzimut(Dato) /\ Reinicia /\ AzAnt' = Dato
  BY DEF ErrorAzimut
<1>2. /\ Emparejadas' /\ Cola' = Append(<<>>, Siguiente) /\ Seguidas(Cola')
      /\ ~lleno' /\ ultimo' = Ninguna
  BY <1>1, TrasReinicio
<1>3. Proxima(Cola', Grado(Dato), Len(fifo))
  <2>1. Seguidas(Append(fifo, Siguiente)) /\ fifo # <<>> /\ EsAzimut(Head(fifo))
    BY <1>1, Base, ElPrimero DEF AIInv, EnOrden, Dato
  <2> QED
    BY <1>2, <2>1, Base, SeVacia DEF Dato
<1>4. Len(fifo) \in Int /\ VUELTA \div 16 \in Int /\ Len(fifo) <= VUELTA \div 16
  <2>1. Len(fifo) \in Nat /\ Capacidad \in Nat /\ Len(fifo) < Capacidad
    BY Base, CtrlFifoAssumption
  <2> QED
    BY <2>1, Vuelta, AntenaAssumption
<1>5. Proxima(Cola', Grado(Dato), VUELTA \div 16)
  BY <1>3, <1>4, MasLejos
<1> QED
  BY <1>1, <1>2, <1>5 DEF EnOrden

(* A height is never refused: its range follows it. *)
LEMMA SinErrorAltura ==
  ASSUME AIInv
  PROVE  ~ErrorAltura
<1> SUFFICES ASSUME ErrorAltura PROVE FALSE
  OBVIOUS
<1>1. HayDato /\ EsAltura(Dato) /\ FlagIni = 1 /\ EsAltura(DatoAnt)
  BY DEF ErrorAltura
<1>2. ~lleno /\ fifo # <<>> /\ Dato = fifo[1]
  BY <1>1, ElPrimero
<1>3. EsRango(Dato)
  BY <1>1, <1>2 DEF AIInv, Emparejadas
<1> QED
  BY <1>1, <1>3, UnaClase

LEMMA AlPasar ==
  ASSUME AIInv, PrimerDato \/ DatoBueno, UNCHANGED <<antena, margen>>
  PROVE  Emparejadas' /\ EnOrden'
<1>1. /\ HayDato /\ fifo' = Tail(fifo) /\ lleno' = lleno
      /\ DatoAnt' = Dato
      /\ AzAnt' = IF EsAzimut(Dato) THEN Dato ELSE AzAnt
      /\ ultimo' = IF EsAzimut(Dato) THEN Dato ELSE ultimo
      /\ antena' = antena /\ margen' = margen
  BY DEF PrimerDato, DatoBueno, Pasa
<1>2. /\ Dato = fifo[1] /\ fifo # <<>> /\ ~lleno
      /\ fifo' \in Seq(Legibles) /\ Len(fifo) \in Nat \ {0}
      /\ Len(fifo') = Len(fifo) - 1
      /\ \A i \in 1 .. Len(fifo) - 1 : fifo'[i] = fifo[i + 1]
  BY <1>1, ElPrimero
<1>3. Emparejadas /\ EnOrden
  BY DEF AIInv
<1>4. Emparejadas'
  <2>1. ASSUME NEW i \in 1 .. Len(fifo') - 1, EsAltura(fifo'[i])
        PROVE  EsRango(fifo'[i + 1])
    <3>1. /\ i \in 1 .. Len(fifo) - 1 /\ i + 1 \in 1 .. Len(fifo) - 1
      BY <1>2
    <3>2. fifo'[i] = fifo[i + 1] /\ fifo'[i + 1] = fifo[(i + 1) + 1]
      BY <1>2, <3>1
    <3> QED
      BY <1>3, <2>1, <3>1, <3>2 DEF Emparejadas
  <2>2. ASSUME fifo' # <<>>, EsAltura(fifo'[Len(fifo')])
        PROVE  antena'.debe
    <3>1. Len(fifo') # 0
      BY <1>2, <2>2, EmptySeq
    <3>2. Len(fifo') \in 1 .. Len(fifo) - 1 /\ Len(fifo') + 1 = Len(fifo)
      BY <1>2, <3>1
    <3>3. fifo'[Len(fifo')] = fifo[Len(fifo)]
      BY <1>2, <3>2
    <3> QED
      BY <1>1, <1>2, <1>3, <2>2, <3>3 DEF Emparejadas
  <2>3. ASSUME EsAltura(Dato)
        PROVE  IF fifo' = <<>> THEN antena'.debe ELSE EsRango(fifo'[1])
    <3>1. CASE Len(fifo) = 1
      <4>1. fifo' = <<>> /\ antena.debe
        BY <1>2, <1>3, <2>3, <3>1, EmptySeq DEF Emparejadas
      <4> QED
        BY <1>1, <4>1
    <3>2. CASE Len(fifo) # 1
      <4>1. 1 \in 1 .. Len(fifo) - 1 /\ Len(fifo') # 0
        BY <1>2, <3>2
      <4>2. fifo'[1] = fifo[1 + 1] /\ fifo' # <<>>
        BY <1>2, <4>1, EmptySeq
      <4> QED
        BY <1>2, <1>3, <2>3, <4>1, <4>2 DEF Emparejadas
    <3> QED
      BY <3>1, <3>2
  <2> QED
    BY <1>1, <2>1, <2>2, <2>3 DEF Emparejadas
<1>5. EnOrden'
  <2>1. /\ Siguiente \in Legibles /\ fifo \in Seq(Legibles)
        /\ Cola = Append(fifo, Siguiente) /\ Cola' = Append(Tail(fifo), Siguiente)
    BY <1>1, Base DEF Cola, Siguiente
  <2>2. /\ Seguidas(Cola) /\ Seguidas(Cola')
        /\ EsAzimut(Dato) => Proxima(Cola', Grado(Dato), 1)
        /\ \A a, n : Proxima(Cola, a, n) /\ ~EsAzimut(Dato) => Proxima(Cola', a, n)
    <3>1. Seguidas(Cola)
      BY <1>3 DEF EnOrden
    <3> QED
      BY <1>2, <2>1, <3>1, SaleUna DEF Dato
  <2>3. CASE EsAzimut(Dato)
    <3>1. Proxima(Cola', Grado(Dato), VUELTA \div 16)
      BY <2>2, <2>3, Vuelta, MasLejos
    <3> QED
      BY <1>1, <2>2, <2>3, <3>1 DEF EnOrden
  <2>4. CASE ~EsAzimut(Dato)
    BY <1>1, <1>2, <1>3, <2>2, <2>4 DEF EnOrden
  <2> QED
    BY <2>3, <2>4
<1> QED
  BY <1>4, <1>5
-----------------------------------------------------------------------------
LEMMA AIInvInicial == AInit => AIInv
<1> SUFFICES ASSUME AInit PROVE AIInv
  OBVIOUS
<1>1. EIInv /\ ~eco
  BY EIInvInicial DEF AInit
<1>2. /\ fifo = <<>> /\ AzAnt = 0 /\ ultimo = Ninguna /\ FlagIni = 0 /\ margen = 0
      /\ antena \in [az : Azimuts, debe : BOOLEAN] /\ Len(fifo) = 0
  BY EmptySeq DEF AInit, EInit, Init
<1>3. Emparejadas
  BY <1>2 DEF Emparejadas
<1>4. Seguidas(Cola)
  <2>1. antena.az \in Azimuts
    BY <1>2
  <2>2. AZ + Sigue(antena.az, 1) \in Legibles /\ EsAzimut(AZ + Sigue(antena.az, 1))
    BY <2>1, SigueProp, PalabraDe
  <2>3. <<>> \in Seq(Legibles)
    BY EmptySeq
  <2> QED
    BY <1>2, <2>2, <2>3, SeVacia DEF Cola
<1>5. EnOrden
  BY <1>2, <1>4 DEF EnOrden
<1> QED
  BY <1>1, <1>2, <1>3, <1>5 DEF AIInv

LEMMA PasoAIInv == AIInv /\ [ANext]_avars => AIInv'
<1> SUFFICES ASSUME AIInv, [ANext]_avars
             PROVE  AIInv'
  OBVIOUS
<1>1. EIInv' /\ ~eco'
  <2>1. [EPaso]_evars
    BY PasoDeAntena
  <2>2. eco' = eco
    BY <2>1, EcoFijo
  <2> QED
    BY <2>1, <2>2, PasoEIInv DEF AIInv
<1> SUFFICES /\ antena' \in [az : Azimuts, debe : BOOLEAN] /\ margen' \in {0, 1}
             /\ Emparejadas' /\ EnOrden'
  BY <1>1 DEF AIInv
<1>0. antena \in [az : Azimuts, debe : BOOLEAN] /\ margen \in {0, 1}
  BY DEF AIInv
<1>2. ASSUME UNCHANGED <<vars, antena, margen>>
      PROVE  /\ antena' \in [az : Azimuts, debe : BOOLEAN] /\ margen' \in {0, 1}
             /\ Emparejadas' /\ EnOrden'
  <2>1. UNCHANGED <<fifo, lleno, FlagIni, DatoAnt, AzAnt, ultimo, antena, margen>>
    BY <1>2 DEF vars, control
  <2> QED
    BY <2>1 DEF AIInv, Emparejadas, EnOrden, Cola
<1>3. CASE Itera
  <2>1. antena' = antena
    BY <1>3 DEF Itera
  <2>2. CASE Pierde /\ margen' = 1
    BY <1>0, <2>1, <2>2, AlPerder
  <2>3. CASE Rechaza /\ margen' = margen - 1
    <3>1. ErrorAzimut
      BY <2>3, SinErrorAltura DEF Rechaza
    <3>2. margen' = 0
      BY <2>3, <3>1, SinMargen
    <3> QED
      BY <1>0, <2>1, <3>1, <3>2, AlRechazarAzimut
  <2>4. CASE (PrimerDato \/ DatoBueno) /\ margen' = margen
    BY <1>0, <2>1, <2>4, AlPasar
  <2> QED
    BY <1>3, <2>2, <2>3, <2>4 DEF Itera
<1>4. CASE Recorrido
  BY <1>2, <1>4 DEF Recorrido, Recorre
<1>5. CASE GiraAntena \/ \E w \in Palabras : EnviaRango(w) \/ EnviaAltura(w)
  <2>1. PICK v \in Legibles :
          /\ LlegaPalabra(v)
          /\ \/ /\ v = Siguiente /\ antena'.az = Sigue(antena.az, 1)
                /\ ~antena.debe /\ ~antena'.debe
             \/ EsRango(v) /\ antena'.az = antena.az /\ ~antena'.debe
             \/ EsAltura(v) /\ antena'.az = antena.az /\ ~antena.debe /\ antena'.debe
    BY <1>5, LoQueManda
  <2>2. margen' = margen /\ antena' \in [az : Azimuts, debe : BOOLEAN]
    BY <1>5, LoQueManda
  <2>3. EnOrden'
    BY <2>1, <2>2, UnaClase, OrdenAlLlegar
  <2>4. Emparejadas'
    BY <2>1, Base, ParejasAlLlegar
  <2> QED
    BY <1>0, <2>2, <2>3, <2>4
<1>6. CASE UNCHANGED avars
  BY <1>2, <1>6 DEF avars, evars
<1> QED
  BY <1>3, <1>4, <1>5, <1>6 DEF ANext

LEMMA SiempreAIInv == ASpec => []AIInv
  BY AIInvInicial, PasoAIInv, PTL DEF ASpec
-----------------------------------------------------------------------------
(***************************************************************************)
(* A working front end is refused nothing before the first loss and one    *)
(* word at most after each, for every turn, every FIFO shorter than a      *)
(* sector and every moment at which words are lost.                        *)
(***************************************************************************)
THEOREM SiempreAcotados == ASpec => []RechazosAcotados
<1>1. AIInv => RechazosAcotados
  BY DEF AIInv, RechazosAcotados
<1> QED
  BY <1>1, SiempreAIInv, PTL

(* The step of SoloTrasPerdida: within a session the azimuth that passes   *)
(* is the one after the tracker's.                                         *)
LEMMA ElSiguiente ==
  ASSUME AIInv, Iteracion, EsAzimut(lectura'), ultimo # Ninguna
  PROVE  azimuth' = lectura'
<1>1. PrimerDato \/ DatoBueno
  <2>1. lectura' # Ninguna
    BY DEF EsAzimut, AZ, Ninguna
  <2> QED
    BY <2>1 DEF Iteracion, Sondea, Pierde, Rechaza, Desborde, ErrorClase, ErrorAzimut,
       ErrorAltura, Reinicia
<1>2. HayDato /\ lectura' = Dato
  BY <1>1 DEF PrimerDato, DatoBueno, Pasa
<1>3. Dato \in Legibles /\ Dato = Cola[1] /\ 1 \in DOMAIN Cola /\ ~lleno /\ EsAzimut(Dato)
  BY <1>2, ElPrimero
<1>4. Grado(Dato) = Sigue(Grado(ultimo), 1)
  <2>1. Proxima(Cola, Grado(ultimo), 1)
    BY <1>3 DEF AIInv, EnOrden
  <2>2. \A m \in 1 .. 1 - 1 : ~EsAzimut(Cola[m])
    OBVIOUS
  <2>3. \E g \in 1 .. 1 : Grado(Dato) = Sigue(Grado(ultimo), g)
    BY <1>3, <2>1, <2>2 DEF Proxima
  <2> QED
    BY <2>3
<1>5. P!Aceptable(Dato)
  <2>1. CASE banderainic = 1
    BY <2>1 DEF P!Aceptable
  <2>2. CASE azimuth = ultimo
    <3>1. ultimo \in Legibles /\ EsAzimut(ultimo)
      BY DEF AIInv, EIInv, IInv, TypeOK, UltimoEsAzAnt, Ninguna
    <3>2. /\ Grado(ultimo) \in Azimuts /\ ultimo \in Nat /\ ultimo = AZ + Grado(ultimo)
          /\ Dato \in Nat /\ Dato = AZ + Grado(Dato)
      BY <1>3, <3>1, GradoTipo
    <3>3. Grado(Dato) = IF Grado(ultimo) + 1 < VUELTA THEN Grado(ultimo) + 1
                        ELSE Grado(ultimo) + 1 - VUELTA
      <4>1. 1 \in Nat /\ 1 <= VUELTA
        BY Vuelta
      <4> QED
        BY <1>4, <3>2, <4>1, SigueProp
    <3> DEFINE x == Grado(ultimo)
               y == Grado(Dato)
    <3>4. x \in Nat /\ x < VUELTA /\ VUELTA \in Nat /\ VUELTA >= 16
      BY <3>2, Vuelta DEF Azimuts
    <3>5. y = IF x + 1 < VUELTA THEN x + 1 ELSE x + 1 - VUELTA
      BY <3>3
    <3>6. Dato = AZ + y /\ azimuth = AZ + x
      BY <2>2, <3>2
    <3> HIDE DEF x, y
    <3>7. y = x + 1 \/ y = 0
      BY <3>4, <3>5
    <3>8. AZ + y < AZ + x + 4 /\ (AZ + y > AZ + x \/ AZ + y < AZ + 3)
      BY <3>4, <3>7 DEF AZ
    <3> QED
      BY <3>4, <3>6, <3>7, <3>8 DEF P!Aceptable, P!EnVentana, P!AZ, AZ
  <2> QED
    BY <2>1, <2>2 DEF AIInv, EIInv, Coherentes
<1>6. P!Lee(Dato)
  <2>1. lectura' # Ninguna /\ ~eco
    BY DEF EsAzimut, AZ, Ninguna, AIInv
  <2> QED
    BY <1>2, <2>1 DEF Iteracion, Procesa
<1>7. P!AzimutAceptado(Dato)
  <2>1. P!EsAzimut(Dato) /\ ~P!EsRango(Dato) /\ ~P!EsAltura(Dato)
    <3>1. EsAzimut(Dato) /\ ~EsRango(Dato) /\ ~EsAltura(Dato)
      BY <1>3, UnaClase
    <3> QED
      BY SMTT(40), <3>1 DEF EsAzimut, EsRango, EsAltura, AZ, RG, ALT, P!EsAzimut, P!EsRango,
         P!EsAltura, P!AZ, P!RG, P!ALT
  <2>2. ~P!AzimutRechazado(Dato)
    BY <1>5 DEF P!AzimutRechazado
  <2> QED
    BY <1>6, <2>1, <2>2 DEF P!Lee, P!RangoIgnorado, P!PrimerEco, P!OtroEco,
       P!RangoAltura, P!Altura, P!Procesable
<1> QED
  BY <1>2, <1>7 DEF P!AzimutAceptado

(***************************************************************************)
(* The tracker refuses an azimuth of a working radar only when the gate    *)
(* begins a session with it: neither north nor what the gate drops makes   *)
(* gate and tracker disagree.                                              *)
(***************************************************************************)
THEOREM SiempreSoloTrasPerdida == ASpec => SoloTrasPerdida
<1>1. AIInv /\ [ANext]_avars =>
        [Iteracion /\ EsAzimut(lectura') /\ azimuth' # lectura' =>
           ultimo = Ninguna]_avars
  BY ElSiguiente
<1> QED
  BY <1>1, SiempreAIInv, PTL DEF ASpec, SoloTrasPerdida

(***************************************************************************)
(* With the antenna's words too, gate and tracker agree, and the targets   *)
(* are apart and out of the inhibited area.                                *)
(***************************************************************************)
THEOREM SiempreCoherentesConAntena ==
  ASpec => [](Coherentes /\ PP!Separados /\ PP!FueraDeInhibicion)
<1>1. AIInv => Coherentes /\ PP!Separados /\ PP!FueraDeInhibicion
  BY DEF AIInv, EIInv, Rastreo, PP!IInv
<1> QED
  BY <1>1, SiempreAIInv, PTL
=============================================================================
