------------------------------ MODULE Lejanos ------------------------------
(***************************************************************************)
(* The targets beyond the fifteen miles that the first version of the      *)
(* program leaves out, in lists of targets: what VersionesProofs compares, *)
(* with the search, the changes and the ageing loop of the tracker as      *)
(* functions of the list.                                                  *)
(***************************************************************************)
EXTENDS CtrlFifo

(* The fifteen miles of the old program end at count 0x41. *)
QuinceMillas == 65

Lejos(r) == EsRango(r) /\ r - RG >= QuinceMillas

(* An echo just beyond the old area may be a cell of one just inside it,   *)
(* which the old program does not see, unless it is further than that from *)
(* all of them.                                                            *)
Separadas(O) ==
  \A c, l \in O : ~Lejos(c) /\ Lejos(l) => l - c > tolerancia
-----------------------------------------------------------------------------
(* The ranges that may wait or be followed: those of the words that        *)
(* arrive, and the 0 that InicializaPr() leaves.                           *)
Oidos == {w \in Palabras : EsRango(w)} \cup {0}

Blancos == [rangoinic : Oidos, aztinic : Int, auscons : Int, Altura : Int]

Serie(p) ==
  /\ p \in Seq(Blancos)
  /\ \A i, k \in DOMAIN p : i # k => p[i].rangoinic # p[k].rangoinic

RangosDe(p) == {p[i].rangoinic : i \in DOMAIN p}

(* Of two targets beyond the old area, x is before y, or they are one.     *)
Ordenados(p, x, y) ==
  \E i, k \in DOMAIN p : /\ i <= k /\ x = p[i] /\ y = p[k]
                         /\ Lejos(x.rangoinic) /\ Lejos(y.rangoinic)

Mismos(p, q) == \A x, y : Ordenados(p, x, y) <=> Ordenados(q, x, y)

Correlacionan(p, r) == {i \in DOMAIN p : Modulo(r, p[i].rangoinic) <= Puerta}

ElMasCercano(p, r) ==
  CHOOSE i \in Correlacionan(p, r) : \A k \in Correlacionan(p, r) :
    \/ Modulo(r, p[i].rangoinic) < Modulo(r, p[k].rangoinic)
    \/ Modulo(r, p[i].rangoinic) = Modulo(r, p[k].rangoinic) /\ i <= k

(* What the steps of the tracker do to a list.                             *)
Cambiado(z, e, u) == IF u = z THEN e ELSE u

OrdenadosCon(p, z, e, x, y) ==
  \E u, v : /\ Ordenados(p, u, v)
            /\ x = Cambiado(z, e, u) /\ y = Cambiado(z, e, v)

(* Registra() and the height of a range, on a list.                        *)
Anotada(p, r, a) ==
  IF Correlacionan(p, r) # {}
  THEN [p EXCEPT ![ElMasCercano(p, r)].auscons = 0]
  ELSE Append(p, [rangoinic |-> r, aztinic |-> a, auscons |-> 0, Altura |-> 0])

ConAltura(p, r, h) ==
  IF Correlacionan(p, r) # {}
  THEN [p EXCEPT ![ElMasCercano(p, r)].Altura = h]
  ELSE p

(* What the loop over the targets will leave of the far ones, when it has  *)
(* looked at those before n.                                               *)
Dura(u) == u.auscons + 1 < max_aus_cons
Mayor(u) == [u EXCEPT !.auscons = @ + 1]

(* t is p with the target n a step older. *)
Envejecida(p, n, t) ==
  /\ DOMAIN t = DOMAIN p
  /\ Mayor(p[n]).rangoinic = p[n].rangoinic
  /\ \A i \in DOMAIN p : t[i] = IF i = n THEN Mayor(p[n]) ELSE p[i]

Vive(p, n, c, i) ==
  Lejos(p[i].rangoinic) /\ (c = "barre" /\ i >= n => Dura(p[i]))

Sera(p, n, c, i) == IF c = "barre" /\ i >= n THEN Mayor(p[i]) ELSE p[i]

Seguiran(p, n, c, x, y) ==
  \E i, k \in DOMAIN p : /\ i <= k /\ Vive(p, n, c, i) /\ Vive(p, n, c, k)
                         /\ x = Sera(p, n, c, i) /\ y = Sera(p, n, c, k)

OrdenadosMayores(p, x, y) ==
  \E u, v : /\ Ordenados(p, u, v) /\ Dura(u) /\ Dura(v)
            /\ x = Mayor(u) /\ y = Mayor(v)
=============================================================================
