--------------------------- MODULE NombresProofs ---------------------------
(***************************************************************************)
(* Proofs about the names of the BSD layer, for every file, search and     *)
(* request: what a search gives, what getaddrinfo() gives, and that        *)
(* inet_addr() undoes inet_ntoa().                                         *)
(***************************************************************************)
EXTENDS Nombres, SequenceTheorems, WellFoundedInduction, TLAPS

-----------------------------------------------------------------------------
(***************************************************************************)
(* Arithmetic of bytes.                                                    *)
(***************************************************************************)
LEMMA DivisionUnica ==
  ASSUME NEW b \in Nat, b > 0, NEW q \in Nat, NEW r \in 0 .. b - 1
  PROVE  (q * b + r) \div b = q /\ (q * b + r) % b = r
<1> DEFINE a == q * b + r
           p == a \div b
           s == a % b
<1>1. a \in Int
  OBVIOUS
<1> HIDE DEF a
<1>2. p \in Int /\ s \in 0 .. b - 1 /\ a = b * p + s
  BY <1>1
<1>3. q * b + r = b * p + s
  BY <1>2 DEF a
<1> HIDE DEF p, s
<1>4. b * (q - p) = s - r
  BY <1>2, <1>3
<1>5. /\ q - p >= 1 => b * (q - p) >= b
      /\ q - p <= -1 => b * (q - p) <= -b
  BY <1>2
<1>6. q - p = 0
  BY <1>2, <1>4, <1>5
<1>7. s = r /\ p = q
  BY <1>2, <1>4, <1>6
<1> QED
  BY <1>7 DEF a, p, s

LEMMA Cociente ==
  ASSUME NEW n \in Nat, NEW b \in Nat, b > 0
  PROVE  n \div b \in Nat /\ n % b \in 0 .. b - 1 /\ n = (n \div b) * b + (n % b)
<1> DEFINE q == n \div b
           r == n % b
<1>1. q \in Nat
  OBVIOUS
<1>2. r \in 0 .. b - 1 /\ n = b * q + r
  OBVIOUS
<1>3. b * q = q * b
  BY <1>1
<1> QED
  BY <1>1, <1>2, <1>3

(* To divide twice is to divide by the product. *)
LEMMA DosDivisiones ==
  ASSUME NEW n \in Nat, NEW a \in Nat, a > 0, NEW b \in Nat, b > 0
  PROVE  n \div (b * a) = (n \div a) \div b
<1> DEFINE q == n \div a
           r == n % a
           p == q \div b
           s == q % b
<1>1. q \in Nat /\ r \in 0 .. a - 1 /\ n = q * a + r
  BY Cociente
<1>2. p \in Nat /\ s \in 0 .. b - 1 /\ q = p * b + s
  BY <1>1, Cociente
<1> HIDE DEF q, r, p, s
<1>3. n = p * (b * a) + (s * a + r)
  <2>1. q * a = (p * b) * a + s * a
    BY <1>1, <1>2
  <2>2. (p * b) * a = p * (b * a)
    BY <1>2
  <2> QED
    BY <1>1, <1>2, <2>1, <2>2
<1>4. s * a + r \in 0 .. b * a - 1 /\ b * a \in Nat /\ b * a > 0
  <2>1. s * a >= 0 /\ s * a <= (b - 1) * a
    BY <1>2
  <2>2. (b - 1) * a = b * a - a /\ s * a \in Int /\ b * a \in Nat /\ b * a >= a
    BY <1>2
  <2> QED
    BY <1>1, <2>1, <2>2
<1>5. n \div (b * a) = p
  <2> DEFINE m == b * a
             v == s * a + r
  <2>1. m \in Nat /\ m > 0 /\ v \in 0 .. m - 1 /\ n = p * m + v
    BY <1>3, <1>4
  <2> HIDE DEF m, v
  <2>2. n \div m = p
    BY <1>2, <2>1, DivisionUnica
  <2> QED
    BY <2>2 DEF m
<1> QED
  BY <1>5 DEF p, q

LEMMA Tamanos ==
  /\ BYTE \in Nat /\ BYTE > 1
  /\ WORD \in Nat /\ WORD > BYTE /\ WORD = BYTE * BYTE
  /\ WORD * BYTE \in Nat /\ WORD * BYTE > WORD /\ WORD * BYTE = (BYTE * BYTE) * BYTE
  /\ DWORD \in Nat /\ DWORD > WORD * BYTE /\ DWORD = (WORD * BYTE) * BYTE
<1>1. BYTE \in Nat /\ BYTE > 1
  BY DireccionesAssumption
<1>2. WORD \in Nat /\ WORD > BYTE /\ WORD = BYTE * BYTE
  BY <1>1 DEF WORD
<1>3. WORD * BYTE \in Nat /\ WORD * BYTE > WORD
  BY <1>1, <1>2
<1>4. DWORD = (WORD * BYTE) * BYTE
  BY <1>1, <1>2 DEF DWORD
<1>5. DWORD \in Nat /\ DWORD > WORD * BYTE
  <2> DEFINE m == WORD * BYTE
  <2>1. m \in Nat /\ m > 0
    BY <1>2, <1>3
  <2> HIDE DEF m
  <2>2. m * BYTE \in Nat /\ m * BYTE > m
    BY <1>1, <2>1
  <2> QED
    BY <1>4, <2>2 DEF m
<1> QED
  BY <1>1, <1>2, <1>3, <1>4, <1>5

LEMMA Cabidas ==
  /\ Cabida(0) = 1 /\ Cabida(1) = BYTE /\ Cabida(2) = WORD
  /\ Cabida(3) = WORD * BYTE /\ Cabida(4) = DWORD
  BY DEF Cabida

(* The order of the net, twice, is the one of the machine. *)
LEMMA OrdenDeRed ==
  ASSUME NEW n \in 0 .. WORD - 1
  PROVE  htons(n) \in 0 .. WORD - 1 /\ ntohs(htons(n)) = n
<1> DEFINE q == n \div BYTE
           r == n % BYTE
<1>1. n \in Nat /\ q \in Nat /\ r \in 0 .. BYTE - 1 /\ n = q * BYTE + r
  BY Tamanos, Cociente
<1> HIDE DEF q, r
<1>2. q < BYTE
  <2>1. q >= BYTE => q * BYTE >= BYTE * BYTE
    BY <1>1, Tamanos
  <2> QED
    BY <1>1, <2>1, Tamanos
<1>3. htons(n) = r * BYTE + q
  BY DEF htons, q, r
<1>4. r * BYTE + q \in 0 .. WORD - 1
  <2>1. r * BYTE <= (BYTE - 1) * BYTE /\ r * BYTE >= 0 /\ r * BYTE \in Int
    BY <1>1, Tamanos
  <2>2. (BYTE - 1) * BYTE = BYTE * BYTE - BYTE /\ BYTE * BYTE \in Int
    BY Tamanos
  <2> QED
    BY <1>1, <1>2, <2>1, <2>2, Tamanos
<1>5. (r * BYTE + q) \div BYTE = r /\ (r * BYTE + q) % BYTE = q
  BY <1>1, <1>2, Tamanos, DivisionUnica
<1>6. ntohs(r * BYTE + q) = q * BYTE + r
  BY <1>5 DEF ntohs, htons
<1> QED
  BY <1>1, <1>3, <1>4, <1>6
-----------------------------------------------------------------------------
(***************************************************************************)
(* What a search has left behind it.                                       *)
(***************************************************************************)

(* A search has passed all the lines read so far, and is for none of them. *)
Pasadas ==
  busca \notin {Fuera, Colgada} =>
    /\ pos \in 0 .. Len(archivo)
    /\ \A k \in 1 .. pos : Pasable(archivo[k]) /\ k \notin Casan(archivo, busca)

LEMMA HayMinimo ==
  ASSUME NEW T, T \subseteq Nat, T # {}
  PROVE  \E x \in T : \A y \in T : x <= y
<1>1. PICK x \in T : \A y \in T : ~(<<y, x>> \in OpToRel(<, Nat))
  BY NatLessThanWellFounded, WFMin, Zenon
<1>2. ASSUME NEW y \in T
      PROVE  x <= y
  <2>1. x \in Nat /\ y \in Nat
    BY <1>2
  <2>2. ~(<<y, x>> \in OpToRel(<, Nat))
    BY <1>1, <1>2
  <2>3. ~(y < x)
    BY <2>1, <2>2 DEF OpToRel
  <2> QED
    BY <2>1, <2>3
<1> QED
  BY <1>2

LEMMA LineasDelArchivo ==
  ASSUME archivo \in Archivos
  PROVE  /\ Len(archivo) \in Nat /\ DOMAIN archivo = 1 .. Len(archivo)
         /\ \A i \in 1 .. Len(archivo) : archivo[i] \in Lineas
<1>1. archivo \in Seq(Lineas)
  BY ServiciosAssumption
<1> QED
  BY <1>1

(* The line that is read next is the first one that is not empty, if it is *)
(* an entry.                                                               *)
LEMMA EntradaLeida ==
  ASSUME archivo \in Archivos, NEW d \in 0 .. Len(archivo)
  PROVE  LET i == GetServiceEntry(d) IN
         /\ i = 0 => \/ \A k \in d + 1 .. Len(archivo) : archivo[k].que = "nada"
                     \/ \E r \in d + 1 .. Len(archivo) :
                          archivo[r].que = "rota" /\ \A k \in d + 1 .. r - 1 : archivo[k].que = "nada"
         /\ i # 0 => /\ i \in d + 1 .. Len(archivo) /\ archivo[i].que = "entrada"
                     /\ \A k \in d + 1 .. i - 1 : archivo[k].que = "nada"
<1> DEFINE resto == {k \in d + 1 .. Len(archivo) : archivo[k].que # "nada"}
           m == CHOOSE k \in resto : \A n \in resto : k <= n
<1>0. Len(archivo) \in Nat /\ \A k \in 1 .. Len(archivo) : archivo[k] \in Lineas
  BY LineasDelArchivo
<1>1. CASE resto = {}
  BY <1>0, <1>1 DEF GetServiceEntry
<1>2. CASE resto # {}
  <2>1. resto \subseteq Nat
    BY <1>0
  <2>2. \E k \in resto : \A n \in resto : k <= n
    BY <1>2, <2>1, HayMinimo
  <2>3. m \in resto /\ \A n \in resto : m <= n
    BY <2>2
  <2>4. GetServiceEntry(d) = IF archivo[m].que = "rota" THEN 0 ELSE m
    BY <1>2 DEF GetServiceEntry
  <2> HIDE DEF m
  <2>5. m \in d + 1 .. Len(archivo) /\ m # 0 /\ archivo[m].que \in {"rota", "entrada"}
    BY <1>0, <2>3 DEF Lineas
  <2>6. \A k \in d + 1 .. m - 1 : archivo[k].que = "nada"
    BY <1>0, <2>3, <2>5
  <2> QED
    BY <2>4, <2>5, <2>6
<1> QED
  BY <1>1, <1>2

(* An entry that a search stops at is one that it is for, or one whose     *)
(* aliases did not fit; one that it passes is not for it.                  *)
LEMMA CoincideProp ==
  ASSUME archivo \in Archivos, NEW i \in Entradas(archivo), NEW basura \in BOOLEAN
  PROVE  /\ Coincide(archivo[i], basura) => i \in Casan(archivo, busca) \cup Dudan(archivo, busca)
         /\ ~Coincide(archivo[i], basura) => i \notin Casan(archivo, busca)
<1> DEFINE proto == busca.proto \in {Nadie, archivo[i].proto}
<1>1. Coincide(archivo[i], basura) <=> proto /\ Igual(archivo[i], basura)
  BY DEF Coincide
<1>2. CASE busca.por = "nombre"
  <2>1. i \in Casan(archivo, busca) <=> proto /\ busca.nombre \in Nombra(archivo[i])
    BY <1>2 DEF Casan
  <2>2. i \in Dudan(archivo, busca) <=> proto /\ archivo[i].larga
    BY <1>2 DEF Dudan
  <2>3. Igual(archivo[i], basura) <=>
          busca.nombre \in Nombra(archivo[i]) \/ (archivo[i].larga /\ basura)
    BY <1>2 DEF Igual
  <2> QED
    BY <1>1, <2>1, <2>2, <2>3, Zenon
<1>3. CASE busca.por # "nombre"
  <2>1. i \in Casan(archivo, busca) <=> proto /\ archivo[i].num = NumeroDe(busca)
    BY <1>3 DEF Casan
  <2>2. Igual(archivo[i], basura) <=> archivo[i].num = NumeroDe(busca)
    BY <1>3 DEF Igual
  <2> QED
    BY <1>1, <2>1, <2>2, Zenon
<1> QED
  BY <1>2, <1>3
-----------------------------------------------------------------------------
(***************************************************************************)
(* The list of getaddrinfo().                                              *)
(***************************************************************************)
Ofertas ==
  [familia : Familias, proto : Campo({"tcp", "udp"}), puerto : 0 .. WORD - 1,
   dir : DOMAIN Nodos \cup {"cero", "loopback"}]

(* The answer to a request tells lines of the file. *)
Lineal(r) == r.tcp \in 0 .. Len(archivo) /\ r.udp \in 0 .. Len(archivo)

LEMMA RespuestaLineal ==
  ASSUME archivo \in Archivos, NEW p, NEW r \in Respuestas(p)
  PROVE  Lineal(r)
<1>1. Len(archivo) \in Nat /\ DOMAIN archivo = 1 .. Len(archivo)
  BY LineasDelArchivo
<1>2. \A b : Hallables(archivo, b) \subseteq 0 .. Len(archivo)
  BY <1>1 DEF Hallables, Casan, Dudan, Entradas
<1>3. \A q : Linea(p, q) \subseteq 0 .. Len(archivo)
  BY <1>1, <1>2 DEF Linea
<1> QED
  BY <1>3 DEF Respuestas, Lineal

LEMMA PuertoTipo ==
  ASSUME archivo \in Archivos, NEW p \in Peticiones, NEW proto \in {"tcp", "udp"}, NEW r, Lineal(r)
  PROVE  Puerto(p, proto, r) \in 0 .. WORD - 1 \cup {Cerrado}
<1>1. CASE Protocolo(p) \notin {Nadie, proto}
  BY <1>1 DEF Puerto
<1>2. CASE Protocolo(p) \in {Nadie, proto} /\ p.num \in 1 .. WORD - 1
  <2>1. p.num \in 0 .. WORD - 1
    BY <1>2
  <2> QED
    BY <1>2, <2>1, OrdenDeRed DEF Puerto
<1>3. CASE Protocolo(p) \in {Nadie, proto} /\ p.num \notin 1 .. WORD - 1
  <2> DEFINE i == r[proto]
  <2>1. CASE i = 0
    BY <1>3, <2>1 DEF Puerto
  <2>2. CASE i # 0
    <3>1. archivo[i] \in Lineas
      BY <2>2, LineasDelArchivo DEF Lineal
    <3>2. htons(archivo[i].num) \in 0 .. WORD - 1
      BY <3>1, OrdenDeRed DEF Lineas
    <3>3. Puerto(p, proto, r) = htons(archivo[i].num)
      BY <1>3, <2>2 DEF Puerto
    <3> QED
      BY <3>2, <3>3
  <2> QED
    BY <2>1, <2>2
<1> QED
  BY <1>1, <1>2, <1>3

LEMMA EntradaTipo ==
  ASSUME archivo \in Archivos, NEW p \in Peticiones, NEW r, Lineal(r),
         NEW c \in Familias \X {"tcp", "udp"}, SeUsa(p, c, r)
  PROVE  Entrada(p, c, r) \in Ofertas
<1>1. c[1] \in Familias /\ c[2] \in {"tcp", "udp"}
  OBVIOUS
<1>2. (IF ConServicio(p) THEN PuertoDe(p, c, r) ELSE 0) \in 0 .. WORD - 1
  BY PuertoTipo, Tamanos DEF SeUsa, PuertoDe
<1>3. (IF ConServicio(p) THEN c[2] ELSE Nadie) \in Campo({"tcp", "udp"})
  BY <1>1 DEF Campo
<1>4. (IF ~ConFamilia(p, c[1], r) THEN "cero" ELSE IF p.nodo # Nadie THEN p.nodo
       ELSE IF p.pasivo THEN "cero" ELSE "loopback") \in DOMAIN Nodos \cup {"cero", "loopback"}
  BY DEF Peticiones
<1> QED
  BY <1>1, <1>2, <1>3, <1>4 DEF Entrada, Ofertas

(* The sequence of up to four elements, each one taken or not. *)
Quiza(b, e) == IF b THEN <<e>> ELSE <<>>

Junta(b, e) == Quiza(b[1], e[1]) \o Quiza(b[2], e[2]) \o Quiza(b[3], e[3]) \o Quiza(b[4], e[4])

LEMMA Cuatro ==
  ASSUME NEW S, NEW b \in [1 .. 4 -> BOOLEAN], NEW e,
         \A k \in 1 .. 4 : b[k] => e[k] \in S
  PROVE  /\ Junta(b, e) \in Seq(S) /\ Len(Junta(b, e)) \in 0 .. 4
         /\ \A i \in 1 .. Len(Junta(b, e)) : \E k \in 1 .. 4 : b[k] /\ Junta(b, e)[i] = e[k]
         /\ \A k \in 1 .. 4 : b[k] => \E i \in 1 .. Len(Junta(b, e)) : Junta(b, e)[i] = e[k]
         /\ (\A k, m \in 1 .. 4 : e[k] = e[m] => k = m) =>
              \A i, j \in 1 .. Len(Junta(b, e)) : Junta(b, e)[i] = Junta(b, e)[j] => i = j
<1> DEFINE n1 == IF b[1] THEN 1 ELSE 0
           n2 == n1 + IF b[2] THEN 1 ELSE 0
           n3 == n2 + IF b[3] THEN 1 ELSE 0
           n4 == n3 + IF b[4] THEN 1 ELSE 0
           s == Junta(b, e)
<1>0. b[1] \in BOOLEAN /\ b[2] \in BOOLEAN /\ b[3] \in BOOLEAN /\ b[4] \in BOOLEAN
  OBVIOUS
<1>1. /\ Quiza(b[1], e[1]) \in Seq(S) /\ Quiza(b[2], e[2]) \in Seq(S)
      /\ Quiza(b[3], e[3]) \in Seq(S) /\ Quiza(b[4], e[4]) \in Seq(S)
  BY DEF Quiza
<1>2. s \in Seq(S)
  BY <1>1 DEF Junta
<1>3. Len(s) = n4
  BY <1>0 DEF Quiza, Junta
<1>4. /\ b[1] => s[n1] = e[1]
      /\ b[2] => s[n2] = e[2]
      /\ b[3] => s[n3] = e[3]
      /\ b[4] => s[n4] = e[4]
  BY <1>0 DEF Quiza, Junta
<1>5. /\ n1 \in {0, 1} /\ (b[1] <=> n1 = 1)
      /\ n2 \in {n1, n1 + 1} /\ (b[2] <=> n2 = n1 + 1)
      /\ n3 \in {n2, n2 + 1} /\ (b[3] <=> n3 = n2 + 1)
      /\ n4 \in {n3, n3 + 1} /\ (b[4] <=> n4 = n3 + 1)
  BY <1>0
<1> HIDE DEF s, n1, n2, n3, n4
<1>6. /\ n4 \in 0 .. 4
      /\ b[1] => n1 \in 1 .. n4
      /\ b[2] => n2 \in 1 .. n4
      /\ b[3] => n3 \in 1 .. n4
      /\ b[4] => n4 \in 1 .. n4
  BY <1>5
<1>7. ASSUME NEW i \in 1 .. Len(s)
      PROVE  \/ b[1] /\ i = n1
             \/ b[2] /\ i = n2
             \/ b[3] /\ i = n3
             \/ b[4] /\ i = n4
  <2>1. i <= n1 => b[1] /\ i = n1
    BY <1>5
  <2>2. i > n1 /\ i <= n2 => b[2] /\ i = n2
    BY <1>5
  <2>3. i > n2 /\ i <= n3 => b[3] /\ i = n3
    BY <1>5
  <2>4. i > n3 /\ i <= n4 => b[4] /\ i = n4
    BY <1>5
  <2>5. i <= n1 \/ (i > n1 /\ i <= n2) \/ (i > n2 /\ i <= n3) \/ (i > n3 /\ i <= n4)
    BY <1>3, <1>5
  <2> QED
    BY <2>1, <2>2, <2>3, <2>4, <2>5
<1>8. \A i \in 1 .. Len(s) : \E k \in 1 .. 4 : b[k] /\ s[i] = e[k]
  <2> SUFFICES ASSUME NEW i \in 1 .. Len(s)
               PROVE  \E k \in 1 .. 4 : b[k] /\ s[i] = e[k]
    OBVIOUS
  <2>1. 1 \in 1 .. 4 /\ 2 \in 1 .. 4 /\ 3 \in 1 .. 4 /\ 4 \in 1 .. 4
    OBVIOUS
  <2> QED
    BY <1>4, <1>7, <2>1
<1>9. ASSUME NEW k \in 1 .. 4, b[k]
      PROVE  \E i \in 1 .. Len(s) : s[i] = e[k]
  <2>1. k = 1 \/ k = 2 \/ k = 3 \/ k = 4
    OBVIOUS
  <2> QED
    BY <1>3, <1>4, <1>6, <1>9, <2>1
<1>10. ASSUME \A k, m \in 1 .. 4 : e[k] = e[m] => k = m,
              NEW i \in 1 .. Len(s), NEW j \in 1 .. Len(s), s[i] = s[j]
       PROVE  i = j
  <2>1. 1 \in 1 .. 4 /\ 2 \in 1 .. 4 /\ 3 \in 1 .. 4 /\ 4 \in 1 .. 4
    OBVIOUS
  <2>2. e[1] # e[2] /\ e[1] # e[3] /\ e[1] # e[4] /\ e[2] # e[3] /\ e[2] # e[4] /\ e[3] # e[4]
    BY <1>10, <2>1
  <2> QED
    BY <1>4, <1>7, <1>10, <2>2
<1> QED
  BY <1>2, <1>3, <1>6, <1>8, <1>9, <1>10 DEF s

LEMMA LasClases ==
  /\ Clases[1] = <<"INET", "tcp">> /\ Clases[2] = <<"INET", "udp">>
  /\ Clases[3] = <<"INET6", "tcp">> /\ Clases[4] = <<"INET6", "udp">>
  /\ \A i \in 1 .. 4 : Clases[i] \in Familias \X {"tcp", "udp"}
  /\ \A c \in Familias \X {"tcp", "udp"} : \E i \in 1 .. 4 : Clases[i] = c
  /\ Len(Clases) = 4
  BY DEF Clases, Familias

LEMMA ResultadoProp ==
  ASSUME archivo \in Archivos, NEW p \in Peticiones, NEW r, Lineal(r)
  PROVE  /\ Resultado(p, r) \in Seq(Ofertas) /\ Len(Resultado(p, r)) \in 0 .. 4
         /\ \A i \in 1 .. Len(Resultado(p, r)) :
              \E c \in Familias \X {"tcp", "udp"} :
                SeUsa(p, c, r) /\ Resultado(p, r)[i] = Entrada(p, c, r)
         /\ \A c \in Familias \X {"tcp", "udp"} :
              SeUsa(p, c, r) =>
                \E i \in 1 .. Len(Resultado(p, r)) : Resultado(p, r)[i] = Entrada(p, c, r)
         /\ ConServicio(p) =>
              \A i, k \in 1 .. Len(Resultado(p, r)) :
                Resultado(p, r)[i] = Resultado(p, r)[k] => i = k
<1> DEFINE b == [i \in 1 .. 4 |-> SeUsa(p, Clases[i], r)]
           e == [i \in 1 .. 4 |-> Entrada(p, Clases[i], r)]
           s == Junta(b, e)
<1>1. Resultado(p, r) = s
  BY DEF Resultado, Uso, Junta, Quiza
<1>2. b \in [1 .. 4 -> BOOLEAN]
  BY DEF SeUsa, ConFamilia, Pedida
<1>3. \A i \in 1 .. 4 : b[i] => e[i] \in Ofertas
  BY LasClases, EntradaTipo
<1>4. ASSUME ConServicio(p)
      PROVE  \A i, k \in 1 .. 4 : e[i] = e[k] => i = k
  <2>1. \A i \in 1 .. 4 : e[i].familia = Clases[i][1] /\ e[i].proto = Clases[i][2]
    BY <1>4 DEF Entrada
  <2>2. \A i, k \in 1 .. 4 : Clases[i][1] = Clases[k][1] /\ Clases[i][2] = Clases[k][2] => i = k
    BY DEF Clases
  <2> QED
    BY <2>1, <2>2
<1>5. \A i \in 1 .. 4 : b[i] = SeUsa(p, Clases[i], r) /\ e[i] = Entrada(p, Clases[i], r)
  OBVIOUS
<1> HIDE DEF b, e
<1>6. /\ s \in Seq(Ofertas) /\ Len(s) \in 0 .. 4
      /\ \A i \in 1 .. Len(s) : \E k \in 1 .. 4 : b[k] /\ s[i] = e[k]
      /\ \A k \in 1 .. 4 : b[k] => \E i \in 1 .. Len(s) : s[i] = e[k]
      /\ (\A k, m \in 1 .. 4 : e[k] = e[m] => k = m) =>
           \A i, j \in 1 .. Len(s) : s[i] = s[j] => i = j
  BY <1>2, <1>3, Cuatro, ZenonT(60)
<1>7. \A i \in 1 .. Len(s) : \E c \in Familias \X {"tcp", "udp"} :
        SeUsa(p, c, r) /\ s[i] = Entrada(p, c, r)
  BY <1>5, <1>6, LasClases
<1>8. ASSUME NEW c \in Familias \X {"tcp", "udp"}, SeUsa(p, c, r)
      PROVE  \E i \in 1 .. Len(s) : s[i] = Entrada(p, c, r)
  <2>1. PICK k \in 1 .. 4 : Clases[k] = c
    BY LasClases
  <2>2. b[k] /\ e[k] = Entrada(p, c, r)
    BY <1>5, <1>8, <2>1
  <2>3. \E i \in 1 .. Len(s) : s[i] = e[k]
    BY <1>6, <2>2, Zenon
  <2> QED
    BY <2>2, <2>3
<1>9. ConServicio(p) => \A i, j \in 1 .. Len(s) : s[i] = s[j] => i = j
  BY <1>4, <1>6
<1> QED
  BY <1>1, <1>6, <1>7, <1>8, <1>9
-----------------------------------------------------------------------------
(***************************************************************************)
(* The inductive invariant: the types, what the search has left behind,    *)
(* that a list is the answer to its request and that a conversion is the   *)
(* one that was asked for.                                                 *)
(***************************************************************************)
DelPedido ==
  retorno.res = "0" =>
    /\ retorno.pide \in Pedidos /\ Lineal(retorno.responde)
    /\ lista = Resultado(retorno.pide, retorno.responde)

Convertido ==
  \/ convierte = [f |-> "nada"]
  \/ \E t \in Textos : convierte = [f |-> "inet_addr", arg |-> t, res |-> inet_addr(t)]
  \/ \E d \in Direccion6 : convierte = [f |-> "inet_ntop", arg |-> d, res |-> inet_ntop(d)]

NIInv == TypeOK /\ Pasadas /\ DelPedido /\ Convertido

LEMMA NIInvInicial == NInit => NIInv
<1> SUFFICES ASSUME NInit
             PROVE  NIInv
  OBVIOUS
<1> USE DEF NInit, ServInit
<1>1. archivo \in Archivos /\ Len(archivo) \in Nat
  BY LineasDelArchivo
<1>2. TypeOK
  <2>1. pos \in Cerrado .. Len(archivo)
    BY <1>1 DEF Cerrado
  <2>2. leido \in [linea : 0 .. Len(archivo), puerto : 0 .. WORD - 1]
    BY <1>1, Tamanos
  <2>3. phe \in [nombre : Campo(DOMAIN Nodos), de : Campo(DOMAIN Nodos)]
    BY DEF Nada, Campo
  <2>4. hostname \in Campo({Anfitrion})
    BY DEF Campo
  <2>5. lista \in Seq([familia : Familias, proto : Campo({"tcp", "udp"}), puerto : 0 .. WORD - 1,
                       dir : DOMAIN Nodos \cup {"cero", "loopback"}])
    OBVIOUS
  <2>6. busca \in Buscados \cup {Fuera, Colgada} /\ hallado \in BOOLEAN
    OBVIOUS
  <2> QED
    BY <1>1, <2>1, <2>2, <2>3, <2>4, <2>5, <2>6 DEF TypeOK
<1>3. Pasadas /\ DelPedido /\ Convertido
  BY DEF Pasadas, DelPedido, Sin, Convertido
<1> QED
  BY <1>2, <1>3 DEF NIInv

(* What only the searches change, and what only getaddrinfo() does. *)
LEMMA LoQueQueda ==
  /\ TypeOK /\ UNCHANGED srvars =>
       /\ archivo' \in Archivos /\ pos' \in Cerrado .. Len(archivo')
       /\ busca' \in Buscados \cup {Fuera, Colgada}
       /\ leido' \in [linea : 0 .. Len(archivo'), puerto : 0 .. WORD - 1]
       /\ hallado' \in BOOLEAN
  /\ Pasadas /\ UNCHANGED <<archivo, pos, busca>> => Pasadas'
  /\ DelPedido /\ UNCHANGED <<archivo, info>> => DelPedido'
  /\ Convertido /\ UNCHANGED convierte => Convertido'
<1>1. ASSUME TypeOK, UNCHANGED srvars
      PROVE  /\ archivo' \in Archivos /\ pos' \in Cerrado .. Len(archivo')
             /\ busca' \in Buscados \cup {Fuera, Colgada}
             /\ leido' \in [linea : 0 .. Len(archivo'), puerto : 0 .. WORD - 1]
             /\ hallado' \in BOOLEAN
  BY <1>1 DEF TypeOK, srvars
<1>2. ASSUME Pasadas, UNCHANGED <<archivo, pos, busca>>
      PROVE  Pasadas'
  BY <1>2 DEF Pasadas
<1>3. ASSUME DelPedido, UNCHANGED <<archivo, info>>
      PROVE  DelPedido'
  <2>1. ASSUME NEW p, NEW r
        PROVE  Resultado(p, r)' = Resultado(p, r)
    BY <1>3 DEF Resultado, Uso, SeUsa, Entrada, PuertoDe, Puerto
  <2> QED
    BY <1>3, <2>1 DEF DelPedido, Lineal, info
<1> QED
  BY <1>1, <1>2, <1>3 DEF Convertido

(* A search that begins has nothing behind it; one that goes on leaves an  *)
(* entry that does not match, and nothing else, behind it.                 *)
LEMMA PasoBusca ==
  ASSUME NIInv, ServNext, UNCHANGED <<info, host, convierte>>
  PROVE  NIInv'
<1> USE DEF NIInv
<1>0. /\ archivo' = archivo /\ archivo \in Archivos /\ Len(archivo) \in Nat
      /\ DOMAIN archivo = 1 .. Len(archivo)
  BY LineasDelArchivo DEF ServNext, AbreArchivo, LeeEntrada, NoAvanza, srvars, TypeOK
<1>1. DelPedido' /\ Convertido'
  BY <1>0, LoQueQueda DEF host
<1>2. /\ lista' \in Seq([familia : Familias, proto : Campo({"tcp", "udp"}), puerto : 0 .. WORD - 1,
                        dir : DOMAIN Nodos \cup {"cero", "loopback"}])
      /\ hostname' \in Campo({Anfitrion})
      /\ phe' \in [nombre : Campo(DOMAIN Nodos), de : Campo(DOMAIN Nodos)]
  BY DEF TypeOK, info, host
<1>3. ASSUME NEW b \in Buscados, AbreArchivo(b)
      PROVE  TypeOK' /\ Pasadas'
  <2>1. pos' \in Cerrado .. Len(archivo)
    BY <1>0, <1>3 DEF AbreArchivo, TypeOK, Cerrado
  <2>2. busca' \in Buscados \cup {Fuera, Colgada} /\ hallado' \in BOOLEAN
    BY <1>3 DEF AbreArchivo, TypeOK
  <2>3. leido' \in [linea : 0 .. Len(archivo), puerto : 0 .. WORD - 1]
    BY <1>3 DEF AbreArchivo, TypeOK
  <2>4. busca' # Fuera => pos' = 0
    BY <1>3 DEF AbreArchivo
  <2> QED
    BY <1>0, <1>2, <2>1, <2>2, <2>3, <2>4 DEF TypeOK, Pasadas
<1>4. CASE NoAvanza
  BY <1>4, LoQueQueda, <1>0, <1>2 DEF NoAvanza, srvars, TypeOK
<1>5. CASE LeeEntrada
  <2> DEFINE i == GetServiceEntry(pos)
             deLinea == [linea : 0 .. Len(archivo), puerto : 0 .. WORD - 1]
  <2>1. pos \in 0 .. Len(archivo) /\ busca \notin {Fuera, Colgada}
    BY <1>5 DEF LeeEntrada, Pasadas
  <2>2. i # 0 => /\ i \in pos + 1 .. Len(archivo) /\ archivo[i].que = "entrada"
                 /\ \A k \in pos + 1 .. i - 1 : archivo[k].que = "nada"
    BY <1>0, <2>1, EntradaLeida
  <2>3. \/ i = 0 /\ Acaba(FALSE) /\ leido' \in {leido, [linea |-> 0, puerto |-> 0]}
        \/ i # 0 /\ Cuelga(i)
        \/ i # 0 /\ Acaba(TRUE) /\ leido' = [linea |-> i, puerto |-> Numero(archivo[i], TRUE)]
        \/ /\ i # 0 /\ ~SeCuelga(archivo[i])
           /\ \E basura \in BOOLEAN : ~Coincide(archivo[i], basura)
           /\ leido' = [linea |-> i, puerto |-> Numero(archivo[i], FALSE)]
           /\ pos' = i /\ busca' = busca /\ hallado' = hallado
    BY <1>5 DEF LeeEntrada
  <2> HIDE DEF i
  <2>4. i # 0 => /\ i \in 1 .. Len(archivo) /\ i \in 0 .. Len(archivo)
                 /\ Numero(archivo[i], TRUE) \in 0 .. WORD - 1
                 /\ Numero(archivo[i], FALSE) \in 0 .. WORD - 1
    <3> SUFFICES ASSUME i # 0
                 PROVE  /\ i \in 1 .. Len(archivo) /\ i \in 0 .. Len(archivo)
                        /\ Numero(archivo[i], TRUE) \in 0 .. WORD - 1
                        /\ Numero(archivo[i], FALSE) \in 0 .. WORD - 1
      OBVIOUS
    <3>1. i \in 1 .. Len(archivo)
      BY <1>0, <2>1, <2>2
    <3>2. archivo[i].num \in 0 .. WORD - 1
      BY <1>0, <3>1, LineasDelArchivo DEF Lineas
    <3> QED
      BY <3>1, <3>2, OrdenDeRed DEF Numero
  <2>5. /\ [linea |-> 0, puerto |-> 0] \in deLinea /\ leido \in deLinea
        /\ i # 0 => /\ [linea |-> i, puerto |-> Numero(archivo[i], TRUE)] \in deLinea
                    /\ [linea |-> i, puerto |-> Numero(archivo[i], FALSE)] \in deLinea
    <3>1. 0 \in 0 .. Len(archivo) /\ 0 \in 0 .. WORD - 1
      BY <1>0, Tamanos
    <3>2. leido \in deLinea
      BY DEF TypeOK
    <3>3. ASSUME NEW k \in 0 .. Len(archivo), NEW n \in 0 .. WORD - 1
          PROVE  [linea |-> k, puerto |-> n] \in deLinea
      OBVIOUS
    <3> HIDE DEF deLinea
    <3> QED
      BY <2>4, <3>1, <3>2, <3>3, Zenon
  <2>6. leido' \in deLinea
    <3> HIDE DEF deLinea
    <3> QED
      BY <2>3, <2>5, Zenon DEF Cuelga
  <2>7. /\ pos' \in Cerrado .. Len(archivo) /\ hallado' \in BOOLEAN
        /\ busca' \in Buscados \cup {Fuera, Colgada}
    <3>1. pos' = Cerrado \/ (i # 0 /\ pos' = i)
      BY <2>3, Zenon DEF Acaba, Cuelga
    <3>2. hallado' \in {TRUE, FALSE, hallado} /\ busca' \in {Fuera, Colgada, busca}
      BY <2>3, Zenon DEF Acaba, Cuelga
    <3>3. pos' \in Cerrado .. Len(archivo)
      <4>1. Cerrado \in Cerrado .. Len(archivo) /\ 0 .. Len(archivo) \subseteq Cerrado .. Len(archivo)
        BY <1>0 DEF Cerrado
      <4> QED
        BY <2>4, <3>1, <4>1, Zenon
    <3>4. hallado' \in BOOLEAN /\ busca' \in Buscados \cup {Fuera, Colgada}
      BY <3>2, Zenon DEF TypeOK
    <3> QED
      BY <3>3, <3>4
  <2>8. TypeOK'
    BY <1>0, <1>2, <2>6, <2>7 DEF TypeOK
  <2>9. Pasadas'
    <3>1. CASE busca' \in {Fuera, Colgada}
      BY <3>1 DEF Pasadas
    <3>2. CASE busca' \notin {Fuera, Colgada}
      <4>1. i # 0 /\ ~SeCuelga(archivo[i]) /\ pos' = i /\ busca' = busca
        BY <2>3, <3>2 DEF Acaba, Cuelga
      <4>2. PICK basura \in BOOLEAN : ~Coincide(archivo[i], basura)
        BY <2>3, <3>2 DEF Acaba, Cuelga
      <4>3. ASSUME NEW k \in 1 .. i
            PROVE  Pasable(archivo[k]) /\ (k # i => k \notin Casan(archivo, busca))
        <5>1. CASE k \in 1 .. pos
          BY <2>1, <5>1, <2>2, <4>1 DEF Pasadas
        <5>2. CASE k \in pos + 1 .. i - 1
          BY <2>2, <4>1, <5>2 DEF Pasable, Casan, Entradas
        <5>3. CASE k = i
          BY <2>2, <4>1, <5>3 DEF Pasable
        <5> QED
          BY <1>0, <2>1, <2>4, <4>1, <5>1, <5>2, <5>3
      <4>4. i \in Entradas(archivo)
        BY <1>0, <2>2, <2>4, <4>1, <4>3 DEF Entradas
      <4>5. i \notin Casan(archivo, busca)
        BY <1>0, <4>2, <4>4, CoincideProp
      <4> QED
        BY <1>0, <2>4, <4>1, <4>3, <4>5 DEF Pasadas
    <3> QED
      BY <3>1, <3>2
  <2> QED
    BY <1>1, <2>8, <2>9
<1> QED
  BY <1>1, <1>3, <1>4, <1>5 DEF ServNext

(* A request leaves the list as it was, empty, or gives its whole answer. *)
LEMMA PasoPide ==
  ASSUME NIInv, NEW p \in Pedidos, NEW r \in Respuestas(p), getaddrinfo(p, r)
  PROVE  NIInv'
<1> USE DEF NIInv
<1>0. /\ archivo' = archivo /\ archivo \in Archivos /\ Len(archivo) \in Nat
      /\ p \in Peticiones /\ Lineal(r)
  BY LineasDelArchivo, RespuestaLineal, NombresAssumption DEF getaddrinfo, TypeOK
<1>1. UNCHANGED <<archivo, pos, busca, host, convierte>> /\ busca = Fuera /\ lista = <<>>
  BY DEF getaddrinfo
<1>2. \/ lista' = lista /\ retorno'.res # "0"
      \/ /\ lista' = Resultado(p, r)
         /\ retorno' = [pide |-> p, res |-> "0", responde |-> r]
  <2>1. \/ \E res \in {"EAI_NONAME", "EAI_BADHINTS", "EAI_SERVICE", "EAI_FAIL",
                       "EAI_MEMORY", "0 sin lista"} : Falla(res)
        \/ /\ lista' = Resultado(p, r)
           /\ retorno' = [pide |-> p, res |-> "0", responde |-> r]
    BY Zenon DEF getaddrinfo
  <2>2. ASSUME NEW res, res # "0", Falla(res)
        PROVE  lista' = lista /\ retorno'.res # "0"
    BY <2>2 DEF Falla
  <2> QED
    BY <2>1, <2>2
<1>3. Pasadas' /\ Convertido'
  BY <1>1, LoQueQueda DEF host
<1>5. Resultado(p, r) \in Seq(Ofertas)
  BY <1>0, ResultadoProp
<1>6. lista' \in Seq(Ofertas)
  <2>1. <<>> \in Seq(Ofertas)
    OBVIOUS
  <2> QED
    BY <1>1, <1>2, <1>5, <2>1, Zenon
<1>7. DelPedido'
  <2>2. CASE retorno'.res # "0"
    BY <2>2 DEF DelPedido
  <2>3. CASE retorno'.res = "0"
    <3>1. retorno'.pide = p /\ retorno'.responde = r /\ lista' = Resultado(p, r)
      BY <1>2, <2>3
    <3>2. \A c : Uso(retorno.pide, c, retorno.responde)' = Uso(p, c, r)
      <4> TAKE c
      <4>1. PuertoDe(retorno.pide, c, retorno.responde)' = PuertoDe(p, c, r)
        BY <1>0, <3>1 DEF PuertoDe, Puerto, Protocolo
      <4>2. ConFamilia(retorno.pide, c[1], retorno.responde)' = ConFamilia(p, c[1], r)
        BY <3>1 DEF ConFamilia, Pedida
      <4>3. SeUsa(retorno.pide, c, retorno.responde)' = SeUsa(p, c, r)
        BY <3>1, <4>1, <4>2 DEF SeUsa, PuertoDe, ConServicio
      <4>4. Entrada(retorno.pide, c, retorno.responde)' = Entrada(p, c, r)
        BY <3>1, <4>1, <4>2 DEF Entrada, ConServicio
      <4> QED
        BY <4>3, <4>4 DEF Uso
    <3>3. lista' = Resultado(retorno.pide, retorno.responde)'
      BY <3>1, <3>2 DEF Resultado, Clases
    <3> QED
      BY <1>0, <3>1, <3>3 DEF DelPedido, Lineal
  <2> QED
    BY <2>2, <2>3
<1>8. leido' \in [linea : 0 .. Len(archivo), puerto : 0 .. WORD - 1] /\ hallado' \in BOOLEAN
  <2>1. \/ leido' = leido /\ hallado' = hallado
        \/ leido' = [linea |-> 0, puerto |-> 0] /\ hallado' = FALSE
    BY DEF getaddrinfo
  <2>2. [linea |-> 0, puerto |-> 0] \in [linea : 0 .. Len(archivo), puerto : 0 .. WORD - 1]
    BY <1>0, Tamanos
  <2> QED
    BY <2>1, <2>2 DEF TypeOK
<1>9. TypeOK'
  <2>1. /\ pos' \in Cerrado .. Len(archivo) /\ busca' \in Buscados \cup {Fuera, Colgada}
        /\ hostname' \in Campo({Anfitrion})
        /\ phe' \in [nombre : Campo(DOMAIN Nodos), de : Campo(DOMAIN Nodos)]
    BY <1>1 DEF TypeOK, host
  <2> QED
    BY <1>0, <1>6, <1>8, <2>1 DEF TypeOK, Ofertas
<1> QED
  BY <1>3, <1>7, <1>9

(* A request that does not come back leaves a search that does not. *)
LEMMA PasoNoVuelve ==
  ASSUME NIInv, NEW p \in Pedidos, getaddrinfoNoVuelve(p)
  PROVE  NIInv'
<1> USE DEF NIInv
<1>1. /\ UNCHANGED <<archivo, info, host, convierte>> /\ UNCHANGED hallado
      /\ busca' = Colgada /\ pos' = 0 /\ leido' = [linea |-> 0, puerto |-> 0]
  BY DEF getaddrinfoNoVuelve, Cuelga
<1>2. DelPedido' /\ Convertido' /\ Pasadas'
  BY <1>1, LoQueQueda DEF Pasadas
<1>3. archivo \in Archivos /\ Len(archivo) \in Nat
  BY LineasDelArchivo DEF TypeOK
<1>4. TypeOK'
  BY <1>1, <1>3, Tamanos DEF TypeOK, info, host, Cerrado
<1> QED
  BY <1>2, <1>4

LEMMA PasoLibera == NIInv /\ freeaddrinfo => NIInv'
<1> SUFFICES ASSUME NIInv, freeaddrinfo
             PROVE  NIInv'
  OBVIOUS
<1> USE DEF NIInv
<1>1. UNCHANGED <<srvars, host, convierte>> /\ lista' = <<>> /\ retorno' = Sin
  BY DEF freeaddrinfo
<1>2. Pasadas' /\ Convertido'
  BY <1>1, LoQueQueda DEF host, srvars
<1>3. DelPedido'
  BY <1>1 DEF DelPedido, Sin
<1>4. TypeOK'
  <2>1. /\ archivo' \in Archivos /\ pos' \in Cerrado .. Len(archivo')
        /\ busca' \in Buscados \cup {Fuera, Colgada}
        /\ leido' \in [linea : 0 .. Len(archivo'), puerto : 0 .. WORD - 1]
        /\ hallado' \in BOOLEAN
    BY <1>1, LoQueQueda
  <2>2. /\ hostname' \in Campo({Anfitrion})
        /\ phe' \in [nombre : Campo(DOMAIN Nodos), de : Campo(DOMAIN Nodos)]
    BY <1>1 DEF TypeOK, host
  <2>3. lista' \in Seq([familia : Familias, proto : Campo({"tcp", "udp"}), puerto : 0 .. WORD - 1,
                        dir : DOMAIN Nodos \cup {"cero", "loopback"}])
    BY <1>1
  <2> QED
    BY <2>1, <2>2, <2>3 DEF TypeOK
<1> QED
  BY <1>2, <1>3, <1>4

(* The host entry takes its address from the name it is given, is left     *)
(* empty, or keeps an address that the kernel did not renew.               *)
LEMMA PasoAnfitrion ==
  ASSUME NIInv, gethostname \/ \E n \in DOMAIN Nodos, ok \in BOOLEAN : gethostbyname(n, ok)
  PROVE  NIInv'
<1> USE DEF NIInv
<1>1. UNCHANGED <<srvars, info, convierte>>
  BY DEF gethostname, gethostbyname
<1>2. Pasadas' /\ DelPedido' /\ Convertido'
  BY <1>1, LoQueQueda DEF srvars
<1>3. /\ archivo' \in Archivos /\ pos' \in Cerrado .. Len(archivo')
      /\ busca' \in Buscados \cup {Fuera, Colgada}
      /\ leido' \in [linea : 0 .. Len(archivo'), puerto : 0 .. WORD - 1]
      /\ hallado' \in BOOLEAN
  BY <1>1, LoQueQueda
<1>4. /\ lista' \in Seq([familia : Familias, proto : Campo({"tcp", "udp"}), puerto : 0 .. WORD - 1,
                        dir : DOMAIN Nodos \cup {"cero", "loopback"}])
  BY <1>1 DEF TypeOK, info
<1>5. CASE gethostname
  <2>1. /\ hostname' \in Campo({Anfitrion})
        /\ phe' \in [nombre : Campo(DOMAIN Nodos), de : Campo(DOMAIN Nodos)]
    BY <1>5 DEF gethostname, TypeOK, Campo
  <2> QED
    BY <1>2, <1>3, <1>4, <2>1 DEF TypeOK
<1>6. ASSUME NEW n \in DOMAIN Nodos, NEW ok \in BOOLEAN, gethostbyname(n, ok)
      PROVE  NIInv'
  <2> DEFINE d == IF ok THEN n ELSE IF n = hostname THEN phe.de ELSE Nadie
  <2>1. phe' = [nombre |-> n, de |-> d] /\ hostname' = hostname
    BY <1>6 DEF gethostbyname
  <2>2. d \in Campo(DOMAIN Nodos) /\ n \in Campo(DOMAIN Nodos)
    BY DEF TypeOK, Campo
  <2>3. /\ hostname' \in Campo({Anfitrion})
        /\ phe' \in [nombre : Campo(DOMAIN Nodos), de : Campo(DOMAIN Nodos)]
    BY <2>1, <2>2 DEF TypeOK
  <2> QED
    BY <1>2, <1>3, <1>4, <2>3 DEF TypeOK
<1> QED
  BY <1>5, <1>6

LEMMA PasoConvierte == NIInv /\ (Convierte \/ Olvida \/ UNCHANGED nmvars) => NIInv'
<1> SUFFICES ASSUME NIInv, Convierte \/ Olvida \/ UNCHANGED nmvars
             PROVE  NIInv'
  OBVIOUS
<1> USE DEF NIInv
<1>1. UNCHANGED <<srvars, info, host>>
  BY DEF Convierte, Olvida, nmvars, info, host
<1>2. Pasadas' /\ DelPedido'
  BY <1>1, LoQueQueda DEF srvars, host
<1>3. TypeOK'
  <2>1. /\ archivo' \in Archivos /\ pos' \in Cerrado .. Len(archivo')
        /\ busca' \in Buscados \cup {Fuera, Colgada}
        /\ leido' \in [linea : 0 .. Len(archivo'), puerto : 0 .. WORD - 1]
        /\ hallado' \in BOOLEAN
    BY <1>1, LoQueQueda
  <2> QED
    BY <1>1, <2>1 DEF TypeOK, info, host
<1>4. Convertido'
  <2>1. CASE Convierte
    BY <2>1 DEF Convierte, Convertido
  <2>2. CASE Olvida
    BY <2>2 DEF Olvida, Convertido
  <2>3. CASE UNCHANGED nmvars
    BY <2>3, LoQueQueda DEF nmvars
  <2> QED
    BY <2>1, <2>2, <2>3
<1> QED
  BY <1>2, <1>3, <1>4

LEMMA PasoNIInv == NIInv /\ [NNext]_nmvars => NIInv'
<1> SUFFICES ASSUME NIInv, [NNext]_nmvars
             PROVE  NIInv'
  OBVIOUS
<1>1. CASE ServNext /\ UNCHANGED <<info, host, convierte>>
  BY <1>1, PasoBusca
<1>2. CASE \E p \in Pedidos : getaddrinfoNoVuelve(p) \/ \E r \in Respuestas(p) : getaddrinfo(p, r)
  BY <1>2, PasoPide, PasoNoVuelve
<1>3. CASE freeaddrinfo
  BY <1>3, PasoLibera
<1>4. CASE gethostname \/ \E n \in DOMAIN Nodos, ok \in BOOLEAN : gethostbyname(n, ok)
  BY <1>4, PasoAnfitrion
<1>5. CASE Convierte \/ Olvida \/ UNCHANGED nmvars
  BY <1>5, PasoConvierte
<1> QED
  BY <1>1, <1>2, <1>3, <1>4, <1>5 DEF NNext

(* The types of the names hold. *)
THEOREM TipoCorrecto == NSpec => []TypeOK
<1>1. NIInv => TypeOK
  BY DEF NIInv
<1> QED
  BY NIInvInicial, PasoNIInv, <1>1, PTL DEF NSpec

LEMMA SiempreNIInv == NSpec => []NIInv
  BY NIInvInicial, PasoNIInv, PTL DEF NSpec
-----------------------------------------------------------------------------
(* A search that stops at an entry is for no other before it; if it stops  *)
(* at none, it is for none before a damaged line.                          *)
LEMMA SeParaEnLaPrimera ==
  ASSUME NIInv, busca \notin {Fuera, Colgada}
  PROVE  LET i == GetServiceEntry(pos) IN
         /\ i = 0 => Casan(archivo, busca) = {}
         /\ i # 0 /\ ~SeCuelga(archivo[i]) =>
              i \in Entradas(archivo) /\ \A k \in Casan(archivo, busca) : i <= k
<1> USE DEF NIInv
<1> DEFINE i == GetServiceEntry(pos)
           S == Casan(archivo, busca)
<1>0. archivo \in Archivos /\ Len(archivo) \in Nat /\ DOMAIN archivo = 1 .. Len(archivo)
  BY LineasDelArchivo DEF TypeOK
<1>1. pos \in 0 .. Len(archivo) /\ \A k \in 1 .. pos : Pasable(archivo[k]) /\ k \notin S
  BY DEF Pasadas
<1>2. \A k \in S : /\ k \in pos + 1 .. Len(archivo) /\ archivo[k].que = "entrada"
                   /\ \A m \in 1 .. k : archivo[m].que # "rota"
  <2> TAKE k \in S
  <2>1. /\ k \in 1 .. Len(archivo) /\ archivo[k].que = "entrada"
        /\ \A m \in 1 .. k : Pasable(archivo[m])
    BY <1>0 DEF Casan, Entradas
  <2>2. k \notin 1 .. pos
    BY <1>1
  <2>3. \A m \in 1 .. k : archivo[m].que # "rota"
    BY <2>1 DEF Pasable
  <2> QED
    BY <1>0, <1>1, <2>1, <2>2, <2>3
<1> HIDE DEF i, S
<1>3. /\ i = 0 => \/ \A k \in pos + 1 .. Len(archivo) : archivo[k].que = "nada"
                  \/ \E r \in pos + 1 .. Len(archivo) :
                       archivo[r].que = "rota" /\ \A k \in pos + 1 .. r - 1 : archivo[k].que = "nada"
      /\ i # 0 => /\ i \in pos + 1 .. Len(archivo) /\ archivo[i].que = "entrada"
                  /\ \A k \in pos + 1 .. i - 1 : archivo[k].que = "nada"
  BY <1>0, <1>1, EntradaLeida DEF i
<1>4. ASSUME i = 0, NEW k \in S
      PROVE  FALSE
  <2>1. PICK r \in pos + 1 .. Len(archivo) :
          archivo[r].que = "rota" /\ \A m \in pos + 1 .. r - 1 : archivo[m].que = "nada"
    BY <1>2, <1>3, <1>4
  <2>2. CASE r <= k
    BY <1>0, <1>1, <1>2, <2>1, <2>2
  <2>3. CASE r > k
    BY <1>0, <1>1, <1>2, <2>1, <2>3
  <2> QED
    BY <1>0, <1>1, <1>2, <2>1, <2>2, <2>3
<1>5. ASSUME i # 0, ~SeCuelga(archivo[i])
      PROVE  i \in Entradas(archivo) /\ \A k \in S : i <= k
  <2>1. i \in 1 .. Len(archivo) /\ archivo[i].que = "entrada"
    BY <1>0, <1>1, <1>3, <1>5
  <2>2. ASSUME NEW m \in 1 .. i
        PROVE  Pasable(archivo[m])
    <3>1. CASE m \in 1 .. pos
      BY <1>1, <3>1
    <3>2. CASE m \in pos + 1 .. i - 1
      BY <1>3, <1>5, <3>2 DEF Pasable
    <3>3. CASE m = i
      BY <1>5, <2>1, <3>3 DEF Pasable
    <3> QED
      BY <1>0, <1>1, <2>1, <3>1, <3>2, <3>3
  <2>3. i \in Entradas(archivo)
    BY <1>0, <2>1, <2>2 DEF Entradas
  <2>4. ASSUME NEW k \in S
        PROVE  i <= k
    <3>1. k \in pos + 1 .. Len(archivo) /\ archivo[k].que = "entrada"
      BY <1>2
    <3>2. k \notin pos + 1 .. i - 1
      BY <1>3, <1>5, <3>1
    <3> QED
      BY <1>0, <1>1, <2>1, <3>1, <3>2
  <2> QED
    BY <2>3, <2>4
<1>6. i = 0 => S = {}
  BY <1>4
<1> QED
  BY <1>5, <1>6 DEF i, S

(* A search that comes back, through any file, gives the first entry that  *)
(* it is for, or one before it whose aliases did not fit, with its number  *)
(* in the order that the caller expects; or nothing, if it is for none;    *)
(* and it has closed the file.                                             *)
THEOREM SiempreBuscaExacta == NSpec => BuscaExacta
<1> DEFINE Exacta ==
      LET i == leido'.linea
          casan == Casan(archivo, busca)
      IN  /\ pos' = Cerrado
          /\ ~hallado' => casan = {}
          /\ hallado' => /\ i \in casan \cup Dudan(archivo, busca)
                         /\ \A k \in casan : i <= k
                         /\ leido'.puerto = IF busca.de = "services" THEN htons(archivo[i].num)
                                            ELSE archivo[i].num
<1>1. ASSUME NIInv, LeeEntrada, busca' = Fuera
      PROVE  Exacta
  <2> DEFINE i == GetServiceEntry(pos)
  <2>1. busca \notin {Fuera, Colgada} /\ archivo \in Archivos
    BY <1>1 DEF LeeEntrada, NIInv, TypeOK
  <2>2. /\ i = 0 => Casan(archivo, busca) = {}
        /\ i # 0 /\ ~SeCuelga(archivo[i]) =>
             i \in Entradas(archivo) /\ \A k \in Casan(archivo, busca) : i <= k
    BY <1>1, <2>1, SeParaEnLaPrimera
  <2>3. Fuera # Colgada
    BY DEF Fuera, Colgada, SinBuscar
  <2>4. \/ i = 0 /\ Acaba(FALSE)
        \/ /\ i # 0 /\ ~SeCuelga(archivo[i]) /\ Acaba(TRUE)
           /\ \E basura \in BOOLEAN : Coincide(archivo[i], basura)
           /\ leido' = [linea |-> i, puerto |-> Numero(archivo[i], TRUE)]
    BY <1>1, <2>1, <2>3 DEF LeeEntrada, Cuelga
  <2> HIDE DEF i
  <2>5. CASE i = 0 /\ Acaba(FALSE)
    BY <2>2, <2>5 DEF Acaba
  <2>6. CASE /\ i # 0 /\ ~SeCuelga(archivo[i]) /\ Acaba(TRUE)
             /\ \E basura \in BOOLEAN : Coincide(archivo[i], basura)
             /\ leido' = [linea |-> i, puerto |-> Numero(archivo[i], TRUE)]
    <3>1. i \in Entradas(archivo) /\ \A k \in Casan(archivo, busca) : i <= k
      BY <2>2, <2>6
    <3>2. i \in Casan(archivo, busca) \cup Dudan(archivo, busca)
      BY <2>1, <2>6, <3>1, CoincideProp
    <3>3. pos' = Cerrado /\ hallado' = TRUE
      BY <2>6 DEF Acaba
    <3>4. leido'.linea = i /\ leido'.puerto = Numero(archivo[i], TRUE)
      BY <2>6
    <3>5. Numero(archivo[i], TRUE) = IF busca.de = "services" THEN htons(archivo[i].num)
                                     ELSE archivo[i].num
      BY DEF Numero
    <3> QED
      BY <3>1, <3>2, <3>3, <3>4, <3>5
  <2> QED
    BY <2>4, <2>5, <2>6
<1>2. ASSUME NNext, busca # Fuera, busca' = Fuera
      PROVE  LeeEntrada
  <2>1. Fuera # Colgada
    BY DEF Fuera, Colgada, SinBuscar
  <2> QED
    BY <1>2, <2>1
       DEF NNext, ServNext, AbreArchivo, NoAvanza, getaddrinfo, getaddrinfoNoVuelve,
           freeaddrinfo, gethostname, gethostbyname, Convierte, Olvida, srvars
<1>3. NIInv /\ [NNext]_nmvars => [busca # Fuera /\ busca' = Fuera => Exacta]_nmvars
  BY <1>1, <1>2
<1> QED
  BY <1>3, SiempreNIInv, PTL DEF NSpec, BuscaExacta
-----------------------------------------------------------------------------
(* A service has a port for a protocol if it is offered for it, and the    *)
(* port is the number of the request or of the file, in the order of the   *)
(* net.                                                                    *)
LEMMA PuertoOfrecido ==
  ASSUME archivo \in Archivos, Lineal(retorno.responde),
         NEW p \in Peticiones, NEW proto \in {"tcp", "udp"}
  PROVE  /\ Puerto(p, proto, retorno.responde) # Cerrado <=> Ofrece(p, proto)
         /\ Ofrece(p, proto) =>
              ntohs(Puerto(p, proto, retorno.responde)) =
                IF p.num \in 1 .. WORD - 1 THEN p.num
                ELSE archivo[retorno.responde[proto]].num
<1> DEFINE r == retorno.responde
           i == r[proto]
<1>0. \A n \in 0 .. WORD - 1 : htons(n) # Cerrado /\ ntohs(htons(n)) = n
  <2> TAKE n \in 0 .. WORD - 1
  <2>1. htons(n) \in 0 .. WORD - 1 /\ ntohs(htons(n)) = n
    BY OrdenDeRed
  <2> QED
    BY <2>1 DEF Cerrado
<1>1. CASE Protocolo(p) \notin {Nadie, proto}
  BY <1>1 DEF Puerto, Ofrece
<1>2. CASE Protocolo(p) \in {Nadie, proto} /\ p.num \in 1 .. WORD - 1
  <2>1. p.num \in 0 .. WORD - 1
    BY <1>2
  <2>2. Puerto(p, proto, r) = htons(p.num)
    BY <1>2 DEF Puerto
  <2> QED
    BY <1>0, <1>2, <2>1, <2>2 DEF Ofrece
<1>3. CASE Protocolo(p) \in {Nadie, proto} /\ p.num \notin 1 .. WORD - 1
  <2>1. CASE i = 0
    BY <1>3, <2>1 DEF Puerto, Ofrece
  <2>2. CASE i # 0
    <3>1. archivo[i] \in Lineas
      BY <2>2, LineasDelArchivo DEF Lineal
    <3>2. archivo[i].num \in 0 .. WORD - 1
      BY <3>1 DEF Lineas
    <3>3. Puerto(p, proto, r) = htons(archivo[i].num)
      BY <1>3, <2>2 DEF Puerto
    <3> QED
      BY <1>0, <1>3, <2>2, <3>2, <3>3 DEF Ofrece
  <2> QED
    BY <2>1, <2>2
<1> QED
  BY <1>1, <1>2, <1>3

(* The list of a service has one entry for each family and each protocol   *)
(* that were asked for and found, no other and none twice, with the        *)
(* address of the family and the port of the protocol.                     *)
THEOREM SiempreListaPedida == NSpec => []ListaPedida
<1>1. NIInv => ListaPedida
  <2> SUFFICES ASSUME NIInv, retorno.res = "0", retorno.pide.servicio # Nadie
               PROVE  LET p == retorno.pide
                          dir == [f \in Familias |-> IF p.nodo # Nadie THEN p.nodo
                                                     ELSE IF p.pasivo THEN "cero" ELSE "loopback"]
                      IN  /\ IsInjective(lista)
                          /\ {<<e.familia, e.proto>> : e \in ToSet(lista)} =
                               {f \in Familias : Pedida(p, f) /\ (p.nodo # Nadie => f \in retorno.responde.familias)}
                                 \X {r \in {"tcp", "udp"} : Ofrece(p, r)}
                          /\ \A e \in ToSet(lista) :
                               /\ e.dir = dir[e.familia]
                               /\ ntohs(e.puerto) = IF p.num \in 1 .. WORD - 1 THEN p.num
                                                    ELSE archivo[retorno.responde[e.proto]].num
    BY DEF ListaPedida
  <2> DEFINE p == retorno.pide
             r == retorno.responde
             dir == [f \in Familias |-> IF p.nodo # Nadie THEN p.nodo
                                        ELSE IF p.pasivo THEN "cero" ELSE "loopback"]
             fams == {f \in Familias : Pedida(p, f) /\ (p.nodo # Nadie => f \in r.familias)}
             protos == {q \in {"tcp", "udp"} : Ofrece(p, q)}
  <2>1. archivo \in Archivos /\ p \in Peticiones /\ ConServicio(p) /\ lista = Resultado(p, r)
        /\ Lineal(r)
    BY NombresAssumption DEF NIInv, TypeOK, DelPedido, ConServicio
  <2>2. /\ lista \in Seq(Ofertas) /\ Len(lista) \in Nat
        /\ \A i \in 1 .. Len(lista) :
             \E c \in Familias \X {"tcp", "udp"} : SeUsa(p, c, r) /\ lista[i] = Entrada(p, c, r)
        /\ \A c \in Familias \X {"tcp", "udp"} :
             SeUsa(p, c, r) => \E i \in 1 .. Len(lista) : lista[i] = Entrada(p, c, r)
        /\ \A i, k \in 1 .. Len(lista) : lista[i] = lista[k] => i = k
    <3> HIDE DEF p, r
    <3>1. Resultado(p, r) \in Seq(Ofertas) /\ Len(Resultado(p, r)) \in 0 .. 4
      BY <2>1, ResultadoProp
    <3>2. \A i \in 1 .. Len(Resultado(p, r)) :
            \E c \in Familias \X {"tcp", "udp"} :
              SeUsa(p, c, r) /\ Resultado(p, r)[i] = Entrada(p, c, r)
      BY <2>1, ResultadoProp
    <3>3. \A c \in Familias \X {"tcp", "udp"} :
            SeUsa(p, c, r) =>
              \E i \in 1 .. Len(Resultado(p, r)) : Resultado(p, r)[i] = Entrada(p, c, r)
      BY <2>1, ResultadoProp
    <3>4. \A i, k \in 1 .. Len(Resultado(p, r)) :
            Resultado(p, r)[i] = Resultado(p, r)[k] => i = k
      BY <2>1, ResultadoProp
    <3>5. Len(Resultado(p, r)) \in Nat
      BY <3>1
    <3> QED
      BY <2>1, <3>1, <3>2, <3>3, <3>4, <3>5
  <2>3. ASSUME NEW c \in Familias \X {"tcp", "udp"}
        PROVE  /\ SeUsa(p, c, r) <=> c[1] \in fams /\ c[2] \in protos
               /\ SeUsa(p, c, r) =>
                    /\ Entrada(p, c, r).familia = c[1] /\ Entrada(p, c, r).proto = c[2]
                    /\ Entrada(p, c, r).dir = dir[c[1]]
                    /\ ntohs(Entrada(p, c, r).puerto) =
                         IF p.num \in 1 .. WORD - 1 THEN p.num
                         ELSE archivo[r[c[2]]].num
    <3>1. c[1] \in Familias /\ c[2] \in {"tcp", "udp"}
      OBVIOUS
    <3>2. /\ Puerto(p, c[2], r) # Cerrado <=> Ofrece(p, c[2])
          /\ Ofrece(p, c[2]) =>
               ntohs(Puerto(p, c[2], r)) =
                 IF p.num \in 1 .. WORD - 1 THEN p.num
                 ELSE archivo[r[c[2]]].num
      BY <2>1, PuertoOfrecido
    <3>3. ConFamilia(p, c[1], r) <=> c[1] \in fams
      BY <3>1 DEF ConFamilia
    <3>4. SeUsa(p, c, r) <=> c[1] \in fams /\ c[2] \in protos
      BY <2>1, <3>1, <3>2, <3>3 DEF SeUsa
    <3>5. ASSUME SeUsa(p, c, r)
          PROVE  /\ Entrada(p, c, r).familia = c[1] /\ Entrada(p, c, r).proto = c[2]
                 /\ Entrada(p, c, r).dir = dir[c[1]]
                 /\ Entrada(p, c, r).puerto = Puerto(p, c[2], r)
      BY <2>1, <3>1, <3>3, <3>4, <3>5 DEF Entrada, PuertoDe
    <3> QED
      BY <3>2, <3>4, <3>5
  <2> HIDE DEF p, r, dir, fams, protos
  <2>4. \A e : e \in ToSet(lista) <=> \E i \in 1 .. Len(lista) : e = lista[i]
    <3>1. DOMAIN lista = 1 .. Len(lista)
      BY <2>2
    <3> QED
      BY <3>1 DEF ToSet
  <2>5. ASSUME NEW e \in ToSet(lista)
        PROVE  \E c \in Familias \X {"tcp", "udp"} : SeUsa(p, c, r) /\ e = Entrada(p, c, r)
    BY <2>2, <2>4
  <2>6. IsInjective(lista)
    BY <2>2 DEF IsInjective
  <2>7. {<<e.familia, e.proto>> : e \in ToSet(lista)} = fams \X protos
    <3>1. ASSUME NEW e \in ToSet(lista)
          PROVE  <<e.familia, e.proto>> \in fams \X protos
      <4>1. PICK c \in Familias \X {"tcp", "udp"} : SeUsa(p, c, r) /\ e = Entrada(p, c, r)
        BY <2>5
      <4> QED
        BY <2>3, <4>1
    <3>2. ASSUME NEW f \in fams, NEW q \in protos
          PROVE  \E e \in ToSet(lista) : <<f, q>> = <<e.familia, e.proto>>
      <4> DEFINE c == <<f, q>>
      <4>1. c \in Familias \X {"tcp", "udp"} /\ c[1] = f /\ c[2] = q
        BY DEF fams, protos
      <4> HIDE DEF c
      <4>2. SeUsa(p, c, r) /\ Entrada(p, c, r).familia = f /\ Entrada(p, c, r).proto = q
        BY <2>3, <4>1
      <4>3. Entrada(p, c, r) \in ToSet(lista)
        BY <2>2, <2>4, <4>1, <4>2
      <4> QED
        BY <4>2, <4>3
    <3> QED
      BY <3>1, <3>2
  <2>8. ASSUME NEW e \in ToSet(lista)
        PROVE  /\ e.dir = dir[e.familia]
               /\ ntohs(e.puerto) = IF p.num \in 1 .. WORD - 1 THEN p.num
                                    ELSE archivo[r[e.proto]].num
    <3>1. PICK c \in Familias \X {"tcp", "udp"} : SeUsa(p, c, r) /\ e = Entrada(p, c, r)
      BY <2>5
    <3> QED
      BY <2>3, <3>1
  <2> QED
    BY <2>6, <2>7, <2>8 DEF p, r, dir, fams, protos
<1> QED
  BY <1>1, SiempreNIInv, PTL
-----------------------------------------------------------------------------
(***************************************************************************)
(* The bytes of a number, and inet_addr().                                 *)
(***************************************************************************)
LEMMA Bytes ==
  ASSUME NEW n \in Nat
  PROVE  /\ \A i \in 0 .. 3 : ByteDe(n, i) \in 0 .. BYTE - 1
         /\ n < Cabida(1) => n = ByteDe(n, 0)
         /\ n < Cabida(2) => n = ByteDe(n, 1) * Cabida(1) + ByteDe(n, 0)
         /\ n < Cabida(3) => n = ByteDe(n, 2) * Cabida(2) + ByteDe(n, 1) * Cabida(1) + ByteDe(n, 0)
         /\ n < Cabida(4) => n = ByteDe(n, 3) * Cabida(3) + ByteDe(n, 2) * Cabida(2)
                                   + ByteDe(n, 1) * Cabida(1) + ByteDe(n, 0)
<1> DEFINE q1 == n \div Cabida(1)
           q2 == n \div Cabida(2)
           q3 == n \div Cabida(3)
           q4 == n \div Cabida(4)
           d0 == n % BYTE
           d1 == q1 % BYTE
           d2 == q2 % BYTE
           d3 == q3 % BYTE
<1>0. /\ BYTE \in Nat /\ BYTE > 1
      /\ Cabida(1) \in Nat /\ Cabida(1) > 0 /\ Cabida(1) = BYTE
      /\ Cabida(2) \in Nat /\ Cabida(2) > 0 /\ Cabida(2) = BYTE * Cabida(1)
      /\ Cabida(3) \in Nat /\ Cabida(3) > 0 /\ Cabida(3) = BYTE * Cabida(2)
      /\ Cabida(4) \in Nat /\ Cabida(4) > 0 /\ Cabida(4) = BYTE * Cabida(3)
  BY Tamanos, Cabidas
<1>1. q1 \in Nat /\ q2 \in Nat /\ q3 \in Nat /\ q4 \in Nat
  BY <1>0, Cociente
<1>2. q2 = q1 \div BYTE /\ q3 = q2 \div BYTE /\ q4 = q3 \div BYTE
  <2>1. ASSUME NEW c \in Nat, c > 0
        PROVE  n \div (BYTE * c) = (n \div c) \div BYTE
    BY <1>0, <2>1, DosDivisiones
  <2>2. n \div (BYTE * Cabida(1)) = q1 \div BYTE
    BY <1>0, <2>1
  <2>3. n \div (BYTE * Cabida(2)) = q2 \div BYTE
    BY <1>0, <2>1
  <2>4. n \div (BYTE * Cabida(3)) = q3 \div BYTE
    BY <1>0, <2>1
  <2> QED
    BY <1>0, <2>2, <2>3, <2>4
<1>3. /\ d0 \in 0 .. BYTE - 1 /\ n = q1 * BYTE + d0
      /\ d1 \in 0 .. BYTE - 1 /\ q1 = q2 * BYTE + d1
      /\ d2 \in 0 .. BYTE - 1 /\ q2 = q3 * BYTE + d2
      /\ d3 \in 0 .. BYTE - 1 /\ q3 = q4 * BYTE + d3
  <2> HIDE DEF q1, q2, q3, q4
  <2>1. n \div BYTE = q1
    BY <1>0 DEF q1
  <2> QED
    BY <1>0, <1>1, <1>2, <2>1, Cociente
<1>4. ByteDe(n, 0) = d0 /\ ByteDe(n, 1) = d1 /\ ByteDe(n, 2) = d2 /\ ByteDe(n, 3) = d3
  <2>1. n \div 1 = n
    OBVIOUS
  <2> QED
    BY <2>1, Cabidas DEF ByteDe
<1>5. /\ n < Cabida(1) => q1 = 0
      /\ n < Cabida(2) => q2 = 0
      /\ n < Cabida(3) => q3 = 0
      /\ n < Cabida(4) => q4 = 0
  <2>1. ASSUME NEW c \in Nat, c > 0, n < c
        PROVE  n \div c = 0
    <3>1. n = 0 * c + n /\ n \in 0 .. c - 1
      BY <2>1
    <3> QED
      BY <2>1, <3>1, DivisionUnica
  <2> QED
    BY <1>0, <2>1
<1> HIDE DEF q1, q2, q3, q4, d0, d1, d2, d3
<1>6. q1 * BYTE = q2 * Cabida(2) + d1 * Cabida(1)
  <2>1. (q2 * BYTE) * BYTE = q2 * (BYTE * BYTE)
    BY <1>0, <1>1
  <2> QED
    BY <1>0, <1>1, <1>3, <2>1
<1>7. q2 * Cabida(2) = q3 * Cabida(3) + d2 * Cabida(2)
  <2>1. (q3 * BYTE) * Cabida(2) = q3 * (BYTE * Cabida(2))
    BY <1>0, <1>1
  <2>2. (q3 * BYTE + d2) * Cabida(2) = (q3 * BYTE) * Cabida(2) + d2 * Cabida(2)
    BY <1>0, <1>1, <1>3
  <2> QED
    BY <1>0, <1>3, <2>1, <2>2
<1>8. q3 * Cabida(3) = q4 * Cabida(4) + d3 * Cabida(3)
  <2>1. (q4 * BYTE) * Cabida(3) = q4 * (BYTE * Cabida(3))
    BY <1>0, <1>1
  <2>2. (q4 * BYTE + d3) * Cabida(3) = (q4 * BYTE) * Cabida(3) + d3 * Cabida(3)
    BY <1>0, <1>1, <1>3
  <2> QED
    BY <1>0, <1>3, <2>1, <2>2
<1>9. /\ q1 * BYTE \in Int /\ q2 * Cabida(2) \in Int /\ q3 * Cabida(3) \in Int
      /\ d1 * Cabida(1) \in Int /\ d2 * Cabida(2) \in Int /\ d3 * Cabida(3) \in Int
      /\ q1 = 0 => q1 * BYTE = 0
      /\ q2 = 0 => q2 * Cabida(2) = 0
      /\ q3 = 0 => q3 * Cabida(3) = 0
      /\ q4 = 0 => q4 * Cabida(4) = 0
  BY <1>0, <1>1, <1>3
<1>10. /\ n < Cabida(1) => n = d0
       /\ n < Cabida(2) => n = d1 * Cabida(1) + d0
       /\ n < Cabida(3) => n = d2 * Cabida(2) + d1 * Cabida(1) + d0
       /\ n < Cabida(4) => n = d3 * Cabida(3) + d2 * Cabida(2) + d1 * Cabida(1) + d0
  <2>1. n = q1 * BYTE + d0 /\ d0 \in Int
    BY <1>3
  <2>2. n < Cabida(1) => n = d0
    BY <1>5, <1>9, <2>1
  <2>3. n < Cabida(2) => n = d1 * Cabida(1) + d0
    BY <1>5, <1>6, <1>9, <2>1
  <2>4. n < Cabida(3) => n = d2 * Cabida(2) + d1 * Cabida(1) + d0
    BY <1>5, <1>6, <1>7, <1>9, <2>1
  <2>5. n < Cabida(4) => n = d3 * Cabida(3) + d2 * Cabida(2) + d1 * Cabida(1) + d0
    BY <1>5, <1>6, <1>7, <1>8, <1>9, <2>1
  <2> QED
    BY <2>2, <2>3, <2>4, <2>5
<1>11. \A i \in 0 .. 3 : ByteDe(n, i) \in 0 .. BYTE - 1
  <2> TAKE i \in 0 .. 3
  <2>1. i = 0 \/ i = 1 \/ i = 2 \/ i = 3
    OBVIOUS
  <2> QED
    BY <1>3, <1>4, <2>1
<1> QED
  BY <1>4, <1>10, <1>11

(* What is written of an address reads back as it: all four parts fit.     *)
LEMMA LeeLoEscrito ==
  ASSUME NEW d \in [1 .. 4 -> 0 .. BYTE - 1]
  PROVE  inet_addr(inet_ntoa(d)) = d
<1> DEFINE parte == [i \in DOMAIN d |-> d[i] % DWORD]
<1>1. d \in Seq(0 .. BYTE - 1) /\ Len(d) = 4 /\ DOMAIN d = 1 .. 4
  <2>1. d \in Seq(0 .. BYTE - 1)
    BY SeqDef
  <2> QED
    BY <2>1, LenProperties
<1>2. \A i \in 1 .. 4 : parte[i] = d[i]
  <2> TAKE i \in 1 .. 4
  <2>1. d[i] \in 0 .. DWORD - 1
    BY Tamanos
  <2>2. d[i] = 0 * DWORD + d[i] /\ DWORD \in Nat /\ DWORD > 0
    BY <2>1, Tamanos
  <2>3. d[i] % DWORD = d[i]
    BY <2>1, <2>2, DivisionUnica
  <2> QED
    BY <1>1, <2>3
<1> HIDE DEF parte
<1>3. ~(3 > 3) /\ (\A i \in 1 .. 3 : ~(parte[i] > BYTE - 1)) /\ ~(parte[4] > Cabida(1) - 1)
  BY <1>2, Tamanos, Cabidas
<1>4. inet_addr(d) = [b \in 1 .. 4 |-> IF b <= 3 THEN parte[b] ELSE ByteDe(parte[4], 4 - b)]
  BY <1>1, <1>3 DEF inet_addr, parte
<1>5. ByteDe(parte[4], 0) = d[4]
  BY <1>2, Bytes, Tamanos, Cabidas
<1>6. \A b \in 1 .. 4 : (IF b <= 3 THEN parte[b] ELSE ByteDe(parte[4], 4 - b)) = d[b]
  <2> TAKE b \in 1 .. 4
  <2>1. CASE b <= 3
    BY <1>2, <2>1
  <2>2. CASE b = 4
    BY <1>5, <2>2
  <2> QED
    BY <2>1, <2>2
<1> QED
  BY <1>4, <1>6 DEF inet_ntoa

(* The parts of a text that fits are the bytes of the address, the last    *)
(* one as many as are left.                                                *)
LEMMA PartesDeUnTexto ==
  ASSUME NEW k \in 1 .. 4, NEW t \in [1 .. k -> Nat], Len(t) = k,
         \A i \in 1 .. k : t[i] < DWORD,
         \A i \in 1 .. k - 1 : t[i] < BYTE, t[k] < Cabida(5 - k)
  PROVE  /\ inet_addr(t) \in [1 .. 4 -> 0 .. BYTE - 1]
         /\ ValorDe(inet_addr(t)) =
              ValorDe([i \in 1 .. 4 |-> IF i < k THEN t[i] ELSE 0]) + t[k]
<1> DEFINE n == t[k]
           parte == [i \in DOMAIN t |-> t[i] % DWORD]
           res == [b \in 1 .. 4 |-> IF b <= k - 1 THEN t[b] ELSE ByteDe(n, 4 - b)]
           partes == [i \in 1 .. 4 |-> IF i < k THEN t[i] ELSE 0]
<1>0. k \in 1 .. 4 /\ DOMAIN t = 1 .. k /\ n \in Nat /\ \A i \in 1 .. k : t[i] \in Nat
  OBVIOUS
<1>1. \A i \in 1 .. k : parte[i] = t[i]
  <2> TAKE i \in 1 .. k
  <2>1. t[i] \in 0 .. DWORD - 1 /\ DWORD \in Nat /\ DWORD > 0
    BY <1>0, Tamanos
  <2>2. t[i] = 0 * DWORD + t[i]
    BY <2>1
  <2>3. t[i] % DWORD = t[i]
    BY <2>1, <2>2, DivisionUnica
  <2> QED
    BY <1>0, <2>3
<1> HIDE DEF parte
<1>2. inet_addr(t) = res
  <2>1. /\ ~(k - 1 > 3)
        /\ ~(\E i \in 1 .. k - 1 : parte[i] > BYTE - 1)
    BY <1>0, <1>1, Tamanos
  <2>2. ~(parte[k] > Cabida(4 - (k - 1)) - 1)
    <3>1. 4 - (k - 1) = 5 - k /\ parte[k] = n
      BY <1>0, <1>1
    <3>2. Cabida(5 - k) \in Nat
      <4>1. 5 - k = 1 \/ 5 - k = 2 \/ 5 - k = 3 \/ 5 - k = 4
        BY <1>0
      <4> QED
        BY <4>1, Tamanos, Cabidas
    <3> QED
      BY <1>0, <3>1, <3>2
  <2>3. inet_addr(t) = [b \in 1 .. 4 |-> IF b <= k - 1 THEN parte[b] ELSE ByteDe(parte[k - 1 + 1], 4 - b)]
    BY <1>0, <2>1, <2>2 DEF inet_addr, parte
  <2>4. \A b \in 1 .. 4 :
          (IF b <= k - 1 THEN parte[b] ELSE ByteDe(parte[k - 1 + 1], 4 - b)) = res[b]
    BY <1>0, <1>1
  <2> QED
    BY <2>3, <2>4
<1>3. /\ \A i \in 0 .. 3 : ByteDe(n, i) \in 0 .. BYTE - 1
      /\ n < Cabida(1) => n = ByteDe(n, 0)
      /\ n < Cabida(2) => n = ByteDe(n, 1) * Cabida(1) + ByteDe(n, 0)
      /\ n < Cabida(3) => n = ByteDe(n, 2) * Cabida(2) + ByteDe(n, 1) * Cabida(1) + ByteDe(n, 0)
      /\ n < Cabida(4) => n = ByteDe(n, 3) * Cabida(3) + ByteDe(n, 2) * Cabida(2)
                                + ByteDe(n, 1) * Cabida(1) + ByteDe(n, 0)
  BY <1>0, Bytes
<1>4. res \in [1 .. 4 -> 0 .. BYTE - 1]
  <2> SUFFICES ASSUME NEW b \in 1 .. 4
               PROVE  (IF b <= k - 1 THEN t[b] ELSE ByteDe(n, 4 - b)) \in 0 .. BYTE - 1
    OBVIOUS
  <2>1. CASE b <= k - 1
    BY <1>0, <2>1, Tamanos
  <2>2. CASE b > k - 1
    <3>1. 4 - b \in 0 .. 3
      OBVIOUS
    <3> QED
      BY <1>0, <1>3, <2>2, <3>1
  <2> QED
    BY <1>0, <2>1, <2>2
<1>5. /\ Cabida(1) \in Int /\ Cabida(2) \in Int /\ Cabida(3) \in Int
      /\ 0 * Cabida(1) = 0 /\ 0 * Cabida(2) = 0 /\ 0 * Cabida(3) = 0
  BY Tamanos, Cabidas
<1>6. \A x \in Nat : x * Cabida(1) \in Int /\ x * Cabida(2) \in Int /\ x * Cabida(3) \in Int
  BY <1>5
<1>7. /\ ByteDe(n, 0) \in Nat /\ ByteDe(n, 1) \in Nat /\ ByteDe(n, 2) \in Nat /\ ByteDe(n, 3) \in Nat
  <2>1. 0 \in 0 .. 3 /\ 1 \in 0 .. 3 /\ 2 \in 0 .. 3 /\ 3 \in 0 .. 3
    OBVIOUS
  <2> QED
    BY <1>3, <2>1
<1>8. ValorDe(res) = ValorDe(partes) + n
  <2>1. CASE k = 1
    <3>1. /\ res[1] = ByteDe(n, 3) /\ res[2] = ByteDe(n, 2) /\ res[3] = ByteDe(n, 1)
          /\ res[4] = ByteDe(n, 0) /\ n < Cabida(4)
          /\ partes[1] = 0 /\ partes[2] = 0 /\ partes[3] = 0 /\ partes[4] = 0
      BY <2>1
    <3> HIDE DEF res, partes, n
    <3> QED
      BY <1>0, <1>3, <1>5, <1>6, <1>7, <3>1 DEF ValorDe
  <2>2. CASE k = 2
    <3>1. /\ res[1] = t[1] /\ res[2] = ByteDe(n, 2) /\ res[3] = ByteDe(n, 1)
          /\ res[4] = ByteDe(n, 0) /\ n < Cabida(3)
          /\ partes[1] = t[1] /\ partes[2] = 0 /\ partes[3] = 0 /\ partes[4] = 0
      BY <2>2
    <3>2. t[1] \in Nat
      BY <1>0
    <3> HIDE DEF res, partes, n
    <3>3. t[1] * Cabida(3) \in Int /\ ByteDe(n, 2) * Cabida(2) \in Int /\ ByteDe(n, 1) * Cabida(1) \in Int
      BY <1>6, <1>7, <3>2
    <3>4. ValorDe(res) = t[1] * Cabida(3) + ByteDe(n, 2) * Cabida(2) + ByteDe(n, 1) * Cabida(1) + ByteDe(n, 0)
      BY <3>1 DEF ValorDe
    <3>5. ValorDe(partes) = t[1] * Cabida(3)
      <4>1. ValorDe(partes) = t[1] * Cabida(3) + 0 * Cabida(2) + 0 * Cabida(1) + 0
        BY <3>1 DEF ValorDe
      <4> QED
        BY <1>5, <3>3, <4>1
    <3>6. n = ByteDe(n, 2) * Cabida(2) + ByteDe(n, 1) * Cabida(1) + ByteDe(n, 0)
      BY <1>3, <3>1
    <3> DEFINE x == t[1] * Cabida(3)
               y == ByteDe(n, 2) * Cabida(2)
               z == ByteDe(n, 1) * Cabida(1)
               v == ByteDe(n, 0)
    <3>7. x \in Int /\ y \in Int /\ z \in Int /\ v \in Int
      BY <1>7, <3>3
    <3>8. ValorDe(res) = x + y + z + v /\ ValorDe(partes) = x /\ n = y + z + v
      BY <3>4, <3>5, <3>6
    <3> HIDE DEF x, y, z, v
    <3> QED
      BY <3>7, <3>8
  <2>3. CASE k = 3
    <3>1. /\ res[1] = t[1] /\ res[2] = t[2] /\ res[3] = ByteDe(n, 1)
          /\ res[4] = ByteDe(n, 0) /\ n < Cabida(2)
          /\ partes[1] = t[1] /\ partes[2] = t[2] /\ partes[3] = 0 /\ partes[4] = 0
      BY <2>3
    <3>2. t[1] \in Nat /\ t[2] \in Nat
      BY <1>0, <2>3
    <3> HIDE DEF res, partes, n
    <3>3. t[1] * Cabida(3) \in Int /\ t[2] * Cabida(2) \in Int /\ ByteDe(n, 1) * Cabida(1) \in Int
      BY <1>6, <1>7, <3>2
    <3>4. ValorDe(res) = t[1] * Cabida(3) + t[2] * Cabida(2) + ByteDe(n, 1) * Cabida(1) + ByteDe(n, 0)
      BY <3>1 DEF ValorDe
    <3>5. ValorDe(partes) = t[1] * Cabida(3) + t[2] * Cabida(2)
      <4>1. ValorDe(partes) = t[1] * Cabida(3) + t[2] * Cabida(2) + 0 * Cabida(1) + 0
        BY <3>1 DEF ValorDe
      <4> QED
        BY <1>5, <3>3, <4>1
    <3>6. n = ByteDe(n, 1) * Cabida(1) + ByteDe(n, 0)
      BY <1>3, <3>1
    <3> DEFINE x == t[1] * Cabida(3)
               y == t[2] * Cabida(2)
               z == ByteDe(n, 1) * Cabida(1)
               v == ByteDe(n, 0)
    <3>7. x \in Int /\ y \in Int /\ z \in Int /\ v \in Int
      BY <1>7, <3>3
    <3>8. ValorDe(res) = x + y + z + v /\ ValorDe(partes) = x + y /\ n = z + v
      BY <3>4, <3>5, <3>6
    <3> HIDE DEF x, y, z, v
    <3> QED
      BY <3>7, <3>8
  <2>4. CASE k = 4
    <3>1. /\ res[1] = t[1] /\ res[2] = t[2] /\ res[3] = t[3]
          /\ res[4] = ByteDe(n, 0) /\ n < Cabida(1)
          /\ partes[1] = t[1] /\ partes[2] = t[2] /\ partes[3] = t[3] /\ partes[4] = 0
      BY <2>4
    <3>2. t[1] \in Nat /\ t[2] \in Nat /\ t[3] \in Nat
      BY <1>0, <2>4
    <3> HIDE DEF res, partes, n
    <3>3. t[1] * Cabida(3) \in Int /\ t[2] * Cabida(2) \in Int /\ t[3] * Cabida(1) \in Int
      BY <1>6, <1>7, <3>2
    <3>4. ValorDe(res) = t[1] * Cabida(3) + t[2] * Cabida(2) + t[3] * Cabida(1) + ByteDe(n, 0)
      BY <3>1 DEF ValorDe
    <3>5. ValorDe(partes) = t[1] * Cabida(3) + t[2] * Cabida(2) + t[3] * Cabida(1)
      <4>1. ValorDe(partes) = t[1] * Cabida(3) + t[2] * Cabida(2) + t[3] * Cabida(1) + 0
        BY <3>1 DEF ValorDe
      <4> QED
        BY <3>3, <4>1
    <3>6. n = ByteDe(n, 0)
      BY <1>3, <3>1
    <3> DEFINE x == t[1] * Cabida(3)
               y == t[2] * Cabida(2)
               z == t[3] * Cabida(1)
               v == ByteDe(n, 0)
    <3>7. x \in Int /\ y \in Int /\ z \in Int /\ v \in Int
      BY <1>7, <3>3
    <3>8. ValorDe(res) = x + y + z + v /\ ValorDe(partes) = x + y + z /\ n = v
      BY <3>4, <3>5, <3>6
    <3> HIDE DEF x, y, z, v
    <3> QED
      BY <3>7, <3>8
  <2> QED
    BY <1>0, <2>1, <2>2, <2>3, <2>4
<1> QED
  BY <1>2, <1>4, <1>8

(* inet_addr() gives the address that a text of up to four parts writes,   *)
(* which inet_ntoa() and inet_addr() bring back, and INADDR_NONE for any   *)
(* text whose parts do not fit.                                            *)
THEOREM SiempreInetAddrExacta == NSpec => []InetAddrExacta
<1>1. NIInv => InetAddrExacta
  <2> SUFFICES ASSUME NIInv, convierte.f = "inet_addr"
               PROVE  InetAddrExacta
    BY DEF InetAddrExacta
  <2>1. PICK t \in Textos : convierte = [f |-> "inet_addr", arg |-> t, res |-> inet_addr(t)]
    BY DEF NIInv, Convertido
  <2>2. t \in Seq(Nat) /\ t # <<>>
    BY NombresAssumption
  <2> DEFINE k == Len(t)
             cabe == /\ k <= 4 /\ \A i \in 1 .. k - 1 : t[i] < BYTE
                     /\ t[k] < Cabida(5 - k)
  <2>3. /\ k \in Nat /\ k >= 1 /\ Len(t) = k /\ t \in [1 .. k -> Nat]
        /\ DOMAIN t = 1 .. k /\ \A i \in 1 .. k : t[i] \in Nat
    BY <2>2, LenProperties, EmptySeq
  <2>4. ASSUME \A i \in 1 .. k : t[i] < DWORD, cabe
        PROVE  /\ ValorDe(inet_addr(t)) =
                    ValorDe([i \in 1 .. 4 |-> IF i < k THEN t[i] ELSE 0]) + t[k]
               /\ \A i \in 1 .. 4 : inet_addr(t)[i] \in 0 .. BYTE - 1
               /\ inet_addr(inet_ntoa(inet_addr(t))) = inet_addr(t)
    <3> HIDE DEF k
    <3>1. k \in 1 .. 4
      BY <2>3, <2>4
    <3>2. /\ inet_addr(t) \in [1 .. 4 -> 0 .. BYTE - 1]
          /\ ValorDe(inet_addr(t)) =
               ValorDe([i \in 1 .. 4 |-> IF i < k THEN t[i] ELSE 0]) + t[k]
      BY <2>3, <2>4, <3>1, PartesDeUnTexto
    <3> QED
      BY <3>2, LeeLoEscrito
  <2>5. ASSUME \A i \in 1 .. k : t[i] < DWORD, ~cabe
        PROVE  inet_addr(t) = INADDR_NONE
    <3> HIDE DEF k
    <3> DEFINE parte == [i \in DOMAIN t |-> t[i] % DWORD]
    <3>1. \A i \in 1 .. k : parte[i] = t[i]
      <4> TAKE i \in 1 .. k
      <4>1. t[i] \in 0 .. DWORD - 1 /\ DWORD \in Nat /\ DWORD > 0
        BY <2>3, <2>5, Tamanos
      <4>2. t[i] = 0 * DWORD + t[i]
        BY <4>1
      <4>3. t[i] % DWORD = t[i]
        BY <4>1, <4>2, DivisionUnica
      <4> QED
        BY <2>3, <4>3
    <3> HIDE DEF parte
    <3>2. \/ k - 1 > 3
          \/ \E i \in 1 .. k - 1 : parte[i] > BYTE - 1
          \/ parte[k - 1 + 1] > Cabida(4 - (k - 1)) - 1
      <4>1. CASE k > 4
        BY <2>3, <4>1
      <4>2. CASE \E i \in 1 .. k - 1 : ~(t[i] < BYTE)
        BY <2>3, <3>1, <4>2, Tamanos
      <4>3. CASE k <= 4 /\ ~(t[k] < Cabida(5 - k))
        <5>1. 4 - (k - 1) = 5 - k /\ k - 1 + 1 = k
          BY <2>3
        <5>2. Cabida(5 - k) \in Nat
          <6>1. 5 - k = 1 \/ 5 - k = 2 \/ 5 - k = 3 \/ 5 - k = 4
            BY <2>3, <4>3
          <6> QED
            BY <6>1, Tamanos, Cabidas
        <5> QED
          BY <2>3, <3>1, <4>3, <5>1, <5>2
      <4> QED
        BY <2>3, <2>5, <4>1, <4>2, <4>3
    <3> QED
      BY <2>3, <3>2 DEF inet_addr, parte
  <2> QED
    BY <2>1, <2>4, <2>5 DEF InetAddrExacta
<1> QED
  BY <1>1, SiempreNIInv, PTL
=============================================================================
