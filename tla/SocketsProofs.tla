--------------------------- MODULE SocketsProofs ---------------------------
(***************************************************************************)
(* Proofs about the library of sockets.  First the table: its types, its   *)
(* five safety invariants and what a new entry tells, for any handles,     *)
(* ports and options.                                                      *)
(*                                                                         *)
(* All but PuertoUnico is about one handle at a time: Sano(s).  A call     *)
(* leaves the other handles alone (Intacto), so that only the handle of    *)
(* the call has to be looked at (UnSocket).                                *)
(*                                                                         *)
(* Then select(): its timeout in milliseconds, for every day, every step   *)
(* back of the counter of the BIOS and every modulus of the clock; and     *)
(* what it returns.                                                        *)
(***************************************************************************)
EXTENDS Respuestas, Seleccion, TLAPS

Forma ==
  /\ DOMAIN psScbs \subseteq Descriptores
  /\ DOMAIN nucleo \subseteq Descriptores
  /\ arranques \in -MaxArranques .. MaxArranques
  /\ historia \in [Descriptores -> SUBSET Sucesos]

(* The last two conjuncts are the strengthening.  A handle that is not in  *)
(* the table has no history: closesocket() ends it and nothing else takes  *)
(* an entry out.  A port that was searched for is a port and its entry     *)
(* says so, so that bind() sees it in later searches and listen() does not *)
(* replace it.                                                             *)
Sano(s) ==
  /\ s \in DOMAIN psScbs => psScbs[s] \in Scb
  /\ s \in DOMAIN nucleo => nucleo[s] \in DelNucleo
  /\ s \in DOMAIN nucleo <=> s \in DOMAIN psScbs /\ "cortado" \notin historia[s]
  /\ s \in DOMAIN nucleo =>
       "dudoso" \in historia[s] \/ (nucleo[s].nb <=> Tiene(s, "NONBLOCK"))
  /\ s \in DOMAIN nucleo =>
       (/\ psScbs[s].bType = "DGRAM" /\ Tiene(s, "CONNECTED")
        /\ "fallido" \notin historia[s]
        => nucleo[s].abierto)
  /\ s \notin DOMAIN psScbs => historia[s] = {}
  /\ s \in DOMAIN psScbs /\ "exclusivo" \in historia[s] =>
       Tiene(s, "BOUND") /\ psScbs[s].wPort # 0

IInv == Forma /\ (\A s \in Descriptores : Sano(s)) /\ PuertoUnico

Intacto(t) ==
  /\ t \in DOMAIN psScbs' <=> t \in DOMAIN psScbs
  /\ t \in DOMAIN psScbs => psScbs'[t] = psScbs[t]
  /\ t \in DOMAIN nucleo' <=> t \in DOMAIN nucleo
  /\ t \in DOMAIN nucleo => nucleo'[t] = nucleo[t]
  /\ historia'[t] = historia[t]

(* The port of s is not new, or nobody that searched has it. *)
PuertoBien(s) ==
  \/ s \notin DOMAIN psScbs'
  \/ "exclusivo" \notin historia'[s]
  \/ /\ s \in DOMAIN psScbs
     /\ "exclusivo" \in historia[s]
     /\ psScbs'[s].bType = psScbs[s].bType /\ psScbs'[s].wPort = psScbs[s].wPort
  \/ \A t \in DOMAIN psScbs :
       t # s /\ psScbs[t].bType = psScbs'[s].bType /\ "exclusivo" \in historia[t]
       => psScbs[t].wPort # psScbs'[s].wPort

LEMMA UnSocket ==
  ASSUME IInv, NEW s \in Descriptores, Forma', Sano(s)', PuertoBien(s),
         \A t \in Descriptores \ {s} : Intacto(t)
  PROVE  IInv'
<1>1. ASSUME NEW t \in Descriptores
      PROVE  Sano(t)'
  <2>1. CASE t = s
    BY <2>1
  <2>2. CASE t # s
    BY <2>2 DEF IInv, Intacto, Sano, Tiene
  <2> QED
    BY <2>1, <2>2
<1>2. PuertoUnico'
  <2> SUFFICES ASSUME NEW x \in DOMAIN psScbs', NEW y \in DOMAIN psScbs',
                      x # y, psScbs'[x].bType = psScbs'[y].bType,
                      "exclusivo" \in historia'[x], "exclusivo" \in historia'[y]
               PROVE  psScbs'[x].wPort # psScbs'[y].wPort
    BY DEF PuertoUnico
  <2>1. x \in Descriptores /\ y \in Descriptores
    BY DEF Forma
  <2>2. CASE x # s /\ y # s
    BY <2>1, <2>2 DEF IInv, PuertoUnico, Intacto
  <2>3. CASE x = s
    BY <2>1, <2>3 DEF IInv, PuertoUnico, Intacto, PuertoBien
  <2>4. CASE y = s
    BY <2>1, <2>4 DEF IInv, PuertoUnico, Intacto, PuertoBien
  <2> QED
    BY <2>2, <2>3, <2>4
<1> QED
  BY <1>1, <1>2 DEF IInv

LEMMA PasoSocket ==
  ASSUME IInv, NEW s \in Descriptores, NEW tipo \in {"STREAM", "DGRAM"},
         socket(s, tipo)
  PROVE  IInv'
<1>1. CASE Devuelve(s)
  BY <1>1 DEF Devuelve, svars, IInv, Forma, Sano, Tiene, PuertoUnico
<1>2. CASE ~Devuelve(s)
  <2>0. /\ s \notin DOMAIN nucleo /\ s \notin DOMAIN psScbs
        /\ nucleo' = Pon(nucleo, s, Nuevo)
        /\ psScbs' = Pon(psScbs, s, Vacio(tipo))
        /\ UNCHANGED <<arranques, historia>>
    BY <1>2 DEF socket
  <2>1. Forma'
    BY <2>0 DEF IInv, Forma, Pon
  <2>2. /\ psScbs'[s] = Vacio(tipo) /\ nucleo'[s] = Nuevo
        /\ s \in DOMAIN psScbs' /\ s \in DOMAIN nucleo'
        /\ historia'[s] = {}
    BY <2>0 DEF Pon, IInv, Sano
  <2>3. Vacio(tipo) \in Scb /\ Nuevo \in DelNucleo
    BY SocketsAssumption DEF Vacio, Nuevo, Scb, DelNucleo, Puertos
  <2>4. Sano(s)'
    <3>1. /\ nucleo'[s].nb = FALSE /\ psScbs'[s].wFlags = {}
      BY <2>2 DEF Vacio, Nuevo
    <3> QED
      BY <2>2, <2>3, <3>1 DEF Sano, Tiene
  <2>5. PuertoBien(s)
    BY <2>2 DEF PuertoBien
  <2>6. \A t \in Descriptores \ {s} : Intacto(t)
    BY <2>0 DEF Intacto, Pon
  <2> QED
    BY <2>1, <2>4, <2>5, <2>6, UnSocket
<1> QED
  BY <1>1, <1>2

LEMMA PasoAccept ==
  ASSUME IInv, NEW s \in Descriptores, NEW sn \in Descriptores, accept(s, sn)
  PROVE  IInv'
<1>1. CASE Devuelve(sn)
  BY <1>1 DEF Devuelve, svars, IInv, Forma, Sano, Tiene, PuertoUnico
<1>2. CASE ~Devuelve(sn)
  <2> DEFINE k == [Nuevo EXCEPT !.abierto = psScbs[s].bType = "DGRAM"]
             e == [psScbs[s] EXCEPT !.wFlags = @ \ {"LISTEN"}]
             h == IF Tiene(s, "NONBLOCK") THEN {"dudoso"} ELSE {}
  <2>1. /\ s \in DOMAIN psScbs /\ s \in DOMAIN nucleo
        /\ sn \notin DOMAIN nucleo /\ sn \notin DOMAIN psScbs
        /\ nucleo' = Pon(nucleo, sn, k)
        /\ psScbs' = Pon(psScbs, sn, e)
        /\ historia' = [historia EXCEPT ![sn] = @ \cup h]
        /\ UNCHANGED arranques
    BY <1>2 DEF accept, Anota
  <2>2. Forma'
    BY <2>1 DEF IInv, Forma, Pon, Sucesos
  <2>3. /\ psScbs'[sn] = e /\ nucleo'[sn] = k /\ historia'[sn] = h
        /\ sn \in DOMAIN psScbs' /\ sn \in DOMAIN nucleo'
    BY <2>1 DEF Pon, IInv, Forma, Sano
  <2>4. psScbs[s] \in Scb
    BY <2>1 DEF IInv, Sano
  <2>5. /\ e \in Scb /\ e.bType = psScbs[s].bType
        /\ e.wFlags = psScbs[s].wFlags \ {"LISTEN"}
    BY <2>4 DEF Scb
  <2>6. /\ k \in DelNucleo /\ k.nb = FALSE
        /\ k.abierto <=> psScbs[s].bType = "DGRAM"
    BY DEF Nuevo, DelNucleo
  <2>7. Sano(sn)'
    BY <2>3, <2>5, <2>6 DEF Sano, Tiene
  <2>8. PuertoBien(sn)
    BY <2>3 DEF PuertoBien
  <2>9. \A t \in Descriptores \ {sn} : Intacto(t)
    BY <2>1 DEF Intacto, Pon, IInv, Forma
  <2> QED
    BY <2>2, <2>7, <2>8, <2>9, UnSocket
<1> QED
  BY <1>1, <1>2

LEMMA PasoBind ==
  ASSUME IInv, NEW s \in Descriptores, NEW p \in Puertos, bind(s, p)
  PROVE  IInv'
<1> DEFINE busca == "REUSEADDR" \notin psScbs[s].wOption /\ p # 0
           h == IF busca THEN {"exclusivo"} ELSE {}
<1>1. /\ s \in DOMAIN psScbs /\ ~Tiene(s, "BOUND")
      /\ busca => ~EnUso(s, p)
      /\ historia' = [historia EXCEPT ![s] = @ \cup h]
      /\ UNCHANGED <<nucleo, arranques>>
  BY DEF bind, Anota
<1>2. psScbs[s] \in Scb /\ historia[s] \in SUBSET Sucesos
  BY <1>1 DEF IInv, Forma, Sano
<1>3. /\ DOMAIN psScbs' = DOMAIN psScbs
      /\ psScbs'[s] = [psScbs[s] EXCEPT !.wPort = p, !.wFlags = @ \cup {"BOUND"}]
      /\ \A t \in DOMAIN psScbs \ {s} : psScbs'[t] = psScbs[t]
  BY <1>1, <1>2 DEF bind, Marca, Scb
<1>4. /\ psScbs'[s] \in Scb
      /\ psScbs'[s].wPort = p /\ psScbs'[s].bType = psScbs[s].bType
      /\ psScbs'[s].wFlags = psScbs[s].wFlags \cup {"BOUND"}
  BY ZenonT(60), <1>2, <1>3 DEF Scb, Banderas
<1>5. Forma'
  BY <1>1, <1>3 DEF IInv, Forma, Sucesos
<1>6. historia'[s] = historia[s] \cup h /\ "exclusivo" \notin historia[s]
  BY <1>1 DEF IInv, Forma, Sano
<1>7. Sano(s)'
  BY <1>1, <1>3, <1>4, <1>6 DEF IInv, Sano, Tiene
<1>8. PuertoBien(s)
  <2>1. CASE busca
    BY <1>1, <1>4, <2>1 DEF PuertoBien, EnUso, IInv, Forma, Sano, Tiene
  <2>2. CASE ~busca
    BY <1>6, <2>2 DEF PuertoBien
  <2> QED
    BY <2>1, <2>2
<1>9. \A t \in Descriptores \ {s} : Intacto(t)
  BY <1>1, <1>3 DEF Intacto, IInv, Forma
<1> QED
  BY <1>5, <1>7, <1>8, <1>9, UnSocket

LEMMA PasoCierra ==
  ASSUME IInv, NEW s \in Descriptores, closesocket(s)
  PROVE  IInv'
<1>1. /\ nucleo' = Quita(nucleo, {s}) /\ psScbs' = Quita(psScbs, {s})
      /\ historia' = [historia EXCEPT ![s] = {}]
      /\ UNCHANGED arranques
  BY DEF closesocket
<1>2. Forma'
  BY <1>1 DEF IInv, Forma, Quita
<1>3. Sano(s)' /\ PuertoBien(s)
  BY <1>1 DEF IInv, Forma, Sano, PuertoBien, Quita
<1>4. \A t \in Descriptores \ {s} : Intacto(t)
  BY <1>1 DEF IInv, Forma, Intacto, Quita
<1> QED
  BY <1>2, <1>3, <1>4, UnSocket

(* An entry that gets flags keeps its type, its port and its options. *)
LEMMA MarcaBien ==
  ASSUME NEW f, NEW s \in DOMAIN f, f[s] \in Scb, NEW b \in SUBSET Banderas
  PROVE  /\ DOMAIN Marca(f, s, b) = DOMAIN f
         /\ Marca(f, s, b)[s] \in Scb
         /\ Marca(f, s, b)[s].wFlags = f[s].wFlags \cup b
         /\ Marca(f, s, b)[s].bType = f[s].bType
         /\ Marca(f, s, b)[s].wPort = f[s].wPort
         /\ \A t \in DOMAIN f \ {s} : Marca(f, s, b)[t] = f[t]
<1>1. Marca(f, s, b)[s] = [f[s] EXCEPT !.wFlags = @ \cup b]
  BY DEF Marca
<1> QED
  BY <1>1 DEF Marca, Scb

LEMMA PasoConnect ==
  ASSUME IInv, NEW s \in Descriptores, NEW ok \in BOOLEAN, connect(s, ok)
  PROVE  IInv'
<1> DEFINE b == {"BOUND", "CONNECTED"}
<1>1. /\ s \in DOMAIN psScbs /\ psScbs' = Marca(psScbs, s, b)
      /\ UNCHANGED arranques
  BY DEF connect
<1>2. psScbs[s] \in Scb /\ historia[s] \in SUBSET Sucesos /\ b \in SUBSET Banderas
  BY <1>1 DEF IInv, Forma, Sano, Banderas
<1>3. /\ DOMAIN psScbs' = DOMAIN psScbs /\ psScbs'[s] \in Scb
      /\ psScbs'[s].wFlags = psScbs[s].wFlags \cup b
      /\ psScbs'[s].bType = psScbs[s].bType /\ psScbs'[s].wPort = psScbs[s].wPort
      /\ \A t \in DOMAIN psScbs \ {s} : psScbs'[t] = psScbs[t]
  BY <1>1, <1>2, MarcaBien
<1>4. CASE /\ ok /\ s \in DOMAIN nucleo
           /\ nucleo' = [nucleo EXCEPT ![s].abierto = psScbs[s].bType = "DGRAM"]
           /\ UNCHANGED historia
  <2>1. nucleo[s] \in DelNucleo
    BY <1>4 DEF IInv, Sano
  <2>2. /\ DOMAIN nucleo' = DOMAIN nucleo
        /\ nucleo'[s] = [nucleo[s] EXCEPT !.abierto = psScbs[s].bType = "DGRAM"]
        /\ \A t \in DOMAIN nucleo \ {s} : nucleo'[t] = nucleo[t]
    BY <1>4
  <2>3. /\ nucleo'[s] \in DelNucleo /\ nucleo'[s].nb = nucleo[s].nb
        /\ nucleo'[s].abierto <=> psScbs[s].bType = "DGRAM"
    BY <2>1, <2>2 DEF DelNucleo
  <2>4. Forma' /\ PuertoBien(s)
    BY <1>1, <1>3, <1>4, <2>2 DEF IInv, Forma, PuertoBien
  <2>5. Sano(s)'
    BY <1>1, <1>3, <1>4, <2>2, <2>3 DEF IInv, Sano, Tiene
  <2>6. \A t \in Descriptores \ {s} : Intacto(t)
    BY <1>1, <1>3, <1>4, <2>2 DEF Intacto
  <2> QED
    BY <2>4, <2>5, <2>6, UnSocket
<1>5. CASE /\ ~ok /\ UNCHANGED nucleo
           /\ Anota(s, IF psScbs[s].bType = "DGRAM" THEN {"fallido"} ELSE {})
  <2> DEFINE h == IF psScbs[s].bType = "DGRAM" THEN {"fallido"} ELSE {}
  <2>1. historia' = [historia EXCEPT ![s] = @ \cup h] /\ h \in SUBSET Sucesos
    BY <1>5 DEF Anota, Sucesos
  <2>2. historia'[s] = historia[s] \cup h
    BY <2>1 DEF IInv, Forma
  <2>3. Forma'
    BY <1>1, <1>3, <1>5, <2>1 DEF IInv, Forma
  <2>4. Sano(s)' /\ PuertoBien(s)
    BY <1>1, <1>3, <1>5, <2>2 DEF IInv, Sano, PuertoBien, Tiene
  <2>5. \A t \in Descriptores \ {s} : Intacto(t)
    BY <1>1, <1>3, <1>5, <2>1 DEF IInv, Forma, Intacto
  <2> QED
    BY <2>3, <2>4, <2>5, UnSocket
<1> QED
  BY <1>4, <1>5 DEF connect

LEMMA PasoListen ==
  ASSUME IInv, NEW s \in Descriptores, NEW p \in Puertos, NEW ok \in BOOLEAN,
         listen(s, p, ok)
  PROVE  IInv'
<1> DEFINE f == [psScbs EXCEPT ![s].wPort = p]
<1>1. /\ s \in DOMAIN psScbs /\ UNCHANGED <<nucleo, arranques, historia>>
      /\ psScbs[s].wPort # 0 => p = psScbs[s].wPort
      /\ psScbs' = f \/ psScbs' = Marca(f, s, {"LISTEN"})
  BY DEF listen
<1>2. psScbs[s] \in Scb
  BY <1>1 DEF IInv, Sano
<1>3. /\ DOMAIN f = DOMAIN psScbs /\ f[s] = [psScbs[s] EXCEPT !.wPort = p]
      /\ \A t \in DOMAIN psScbs \ {s} : f[t] = psScbs[t]
  BY <1>1
<1>4. /\ f[s] \in Scb /\ f[s].wPort = p /\ f[s].bType = psScbs[s].bType
      /\ f[s].wFlags = psScbs[s].wFlags
  BY <1>2, <1>3 DEF Scb
<1>5. /\ DOMAIN psScbs' = DOMAIN psScbs /\ psScbs'[s] \in Scb
      /\ psScbs'[s].bType = psScbs[s].bType /\ psScbs'[s].wPort = p
      /\ \A b \in Banderas \ {"LISTEN"} : b \in psScbs'[s].wFlags <=> b \in psScbs[s].wFlags
      /\ \A t \in DOMAIN psScbs \ {s} : psScbs'[t] = psScbs[t]
  <2>1. CASE psScbs' = f
    BY <1>3, <1>4, <2>1
  <2>2. CASE psScbs' = Marca(f, s, {"LISTEN"})
    <3> HIDE DEF f
    <3>1. s \in DOMAIN f /\ {"LISTEN"} \in SUBSET Banderas
      BY <1>1, <1>3 DEF Banderas
    <3>2. /\ DOMAIN psScbs' = DOMAIN f /\ psScbs'[s] \in Scb
          /\ psScbs'[s].wFlags = f[s].wFlags \cup {"LISTEN"}
          /\ psScbs'[s].bType = f[s].bType /\ psScbs'[s].wPort = f[s].wPort
          /\ \A t \in DOMAIN f \ {s} : psScbs'[t] = f[t]
      BY <1>4, <2>2, <3>1, MarcaBien
    <3> QED
      BY <1>3, <1>4, <3>2
  <2> QED
    BY <1>1, <2>1, <2>2
<1>6. Forma'
  BY <1>1, <1>5 DEF IInv, Forma
<1>7. Sano(s)' /\ PuertoBien(s)
  BY <1>1, <1>5 DEF IInv, Forma, Sano, PuertoBien, Tiene, Banderas
<1>8. \A t \in Descriptores \ {s} : Intacto(t)
  BY <1>1, <1>5 DEF Intacto
<1> QED
  BY <1>6, <1>7, <1>8, UnSocket

LEMMA PasoIoctl ==
  ASSUME IInv, NEW s \in Descriptores, NEW v \in BOOLEAN, NEW ok \in BOOLEAN,
         ioctlsocket(s, v, ok)
  PROVE  IInv'
<1>1. /\ s \in DOMAIN psScbs /\ UNCHANGED arranques
      /\ psScbs' = IF v THEN Marca(psScbs, s, {"NONBLOCK"})
                   ELSE [psScbs EXCEPT ![s].wFlags = @ \ {"NONBLOCK"}]
  BY DEF ioctlsocket
<1>2. psScbs[s] \in Scb /\ historia[s] \in SUBSET Sucesos
  BY <1>1 DEF IInv, Forma, Sano
<1>3. /\ DOMAIN psScbs' = DOMAIN psScbs
      /\ psScbs'[s] = [psScbs[s] EXCEPT !.wFlags = IF v THEN @ \cup {"NONBLOCK"}
                                                    ELSE @ \ {"NONBLOCK"}]
      /\ \A t \in DOMAIN psScbs \ {s} : psScbs'[t] = psScbs[t]
  BY <1>1 DEF Marca
<1>4. /\ psScbs'[s] \in Scb
      /\ psScbs'[s].bType = psScbs[s].bType /\ psScbs'[s].wPort = psScbs[s].wPort
      /\ "NONBLOCK" \in psScbs'[s].wFlags <=> v
      /\ \A b \in Banderas \ {"NONBLOCK"} : b \in psScbs'[s].wFlags <=> b \in psScbs[s].wFlags
  BY <1>2, <1>3 DEF Scb, Banderas
<1>5. CASE /\ ok /\ s \in DOMAIN nucleo
           /\ nucleo' = [nucleo EXCEPT ![s].nb = v]
           /\ historia' = [historia EXCEPT ![s] = @ \ {"dudoso"}]
  <2>1. nucleo[s] \in DelNucleo
    BY <1>5 DEF IInv, Sano
  <2>2. /\ DOMAIN nucleo' = DOMAIN nucleo /\ nucleo'[s] = [nucleo[s] EXCEPT !.nb = v]
        /\ \A t \in DOMAIN nucleo \ {s} : nucleo'[t] = nucleo[t]
        /\ historia'[s] = historia[s] \ {"dudoso"}
    BY <1>5 DEF IInv, Forma
  <2>3. /\ nucleo'[s] \in DelNucleo /\ nucleo'[s].nb = v
        /\ nucleo'[s].abierto = nucleo[s].abierto
    BY <2>1, <2>2 DEF DelNucleo
  <2>4. Forma' /\ PuertoBien(s)
    BY <1>1, <1>3, <1>4, <1>5, <2>2 DEF IInv, Forma, PuertoBien
  <2>5. Sano(s)'
    BY <1>1, <1>3, <1>4, <1>5, <2>2, <2>3 DEF IInv, Sano, Tiene, Banderas
  <2>6. \A t \in Descriptores \ {s} : Intacto(t)
    BY <1>1, <1>3, <1>5, <2>2 DEF IInv, Forma, Intacto
  <2> QED
    BY <2>4, <2>5, <2>6, UnSocket
<1>6. CASE /\ ~ok /\ UNCHANGED nucleo
           /\ historia' = [historia EXCEPT ![s] =
                IF s \notin DOMAIN nucleo THEN @
                ELSE IF nucleo[s].nb = v THEN @ \ {"dudoso"} ELSE @ \cup {"dudoso"}]
  <2>1. /\ historia'[s] \ {"dudoso"} = historia[s] \ {"dudoso"}
        /\ s \in DOMAIN nucleo /\ nucleo[s].nb # v => "dudoso" \in historia'[s]
        /\ historia' \in [Descriptores -> SUBSET Sucesos]
    BY <1>2, <1>6 DEF IInv, Forma, Sucesos
  <2>2. Forma' /\ PuertoBien(s)
    BY <1>1, <1>3, <1>4, <1>6, <2>1 DEF IInv, Forma, PuertoBien
  <2>3. s \in DOMAIN nucleo => nucleo[s] \in DelNucleo
    BY DEF IInv, Sano
  <2>4. s \in DOMAIN nucleo => "dudoso" \in historia'[s] \/ (nucleo[s].nb <=> v)
    BY <2>1, <2>3 DEF DelNucleo
  <2>5. Sano(s)'
    BY <1>1, <1>3, <1>4, <1>6, <2>1, <2>4 DEF IInv, Sano, Tiene, Banderas
  <2>6. \A t \in Descriptores \ {s} : Intacto(t)
    BY <1>1, <1>3, <1>6 DEF IInv, Forma, Intacto
  <2> QED
    BY <2>2, <2>5, <2>6, UnSocket
<1> QED
  BY <1>5, <1>6 DEF ioctlsocket

LEMMA PasoOpcion ==
  ASSUME IInv, NEW s \in Descriptores, NEW o \in Opciones, NEW v \in BOOLEAN,
         setsockopt(s, o, v)
  PROVE  IInv'
<1>1. /\ s \in DOMAIN psScbs /\ UNCHANGED <<nucleo, arranques, historia>>
      /\ psScbs' = [psScbs EXCEPT ![s].wOption = IF v THEN @ \cup {o} ELSE @ \ {o}]
  BY DEF setsockopt
<1>2. psScbs[s] \in Scb
  BY <1>1 DEF IInv, Sano
<1>3. /\ DOMAIN psScbs' = DOMAIN psScbs
      /\ psScbs'[s] = [psScbs[s] EXCEPT !.wOption = IF v THEN @ \cup {o} ELSE @ \ {o}]
      /\ \A t \in DOMAIN psScbs \ {s} : psScbs'[t] = psScbs[t]
  BY <1>1
<1>4. /\ psScbs'[s] \in Scb /\ psScbs'[s].wFlags = psScbs[s].wFlags
      /\ psScbs'[s].bType = psScbs[s].bType /\ psScbs'[s].wPort = psScbs[s].wPort
  BY <1>2, <1>3 DEF Scb
<1>5. Forma' /\ Sano(s)' /\ PuertoBien(s)
  BY <1>1, <1>3, <1>4 DEF IInv, Forma, Sano, PuertoBien, Tiene
<1>6. \A t \in Descriptores \ {s} : Intacto(t)
  BY <1>1, <1>3 DEF Intacto
<1> QED
  BY <1>5, <1>6, UnSocket

(* The entry after a call that may open a datagram socket. *)
LEMMA SeAbreBien ==
  ASSUME IInv, NEW s \in DOMAIN psScbs, NEW abre \in BOOLEAN,
         psScbs' = IF SeAbre(s, abre) THEN Marca(psScbs, s, {"BOUND", "CONNECTED"})
                                      ELSE psScbs
  PROVE  /\ DOMAIN psScbs' = DOMAIN psScbs /\ psScbs'[s] \in Scb
         /\ psScbs'[s].wFlags = psScbs[s].wFlags
               \cup (IF SeAbre(s, abre) THEN {"BOUND", "CONNECTED"} ELSE {})
         /\ psScbs'[s].bType = psScbs[s].bType
         /\ psScbs'[s].wPort = psScbs[s].wPort
         /\ \A t \in DOMAIN psScbs \ {s} : psScbs'[t] = psScbs[t]
<1>1. psScbs[s] \in Scb /\ {"BOUND", "CONNECTED"} \in SUBSET Banderas
  BY DEF IInv, Forma, Sano, Banderas
<1>2. CASE SeAbre(s, abre)
  BY <1>1, <1>2, MarcaBien
<1>3. CASE ~SeAbre(s, abre)
  BY <1>1, <1>3
<1> QED
  BY <1>2, <1>3

LEMMA PasoAbre ==
  ASSUME IInv, NEW s \in Descriptores, NEW abre \in BOOLEAN,
         recvfrom(s, abre) \/ sendto(s, abre)
  PROVE  IInv'
<1>1. /\ s \in DOMAIN psScbs /\ UNCHANGED <<arranques, historia>>
      /\ CheckUdpOpen(s, abre)
  BY DEF recvfrom, sendto
<1>2. /\ DOMAIN psScbs' = DOMAIN psScbs /\ psScbs'[s] \in Scb
      /\ psScbs'[s].wFlags = psScbs[s].wFlags
            \cup (IF SeAbre(s, abre) THEN {"BOUND", "CONNECTED"} ELSE {})
      /\ psScbs'[s].bType = psScbs[s].bType /\ psScbs'[s].wPort = psScbs[s].wPort
      /\ \A t \in DOMAIN psScbs \ {s} : psScbs'[t] = psScbs[t]
  BY <1>1, SeAbreBien DEF CheckUdpOpen
<1>3. CASE SeAbre(s, abre)
  <2>1. /\ s \in DOMAIN nucleo /\ nucleo' = [nucleo EXCEPT ![s].abierto = TRUE]
    BY <1>1, <1>3 DEF CheckUdpOpen, SeAbre
  <2>2. nucleo[s] \in DelNucleo
    BY <2>1 DEF IInv, Sano
  <2>3. /\ DOMAIN nucleo' = DOMAIN nucleo /\ nucleo'[s] = [nucleo[s] EXCEPT !.abierto = TRUE]
        /\ \A t \in DOMAIN nucleo \ {s} : nucleo'[t] = nucleo[t]
    BY <2>1
  <2>4. /\ nucleo'[s] \in DelNucleo /\ nucleo'[s].nb = nucleo[s].nb
        /\ nucleo'[s].abierto = TRUE
    BY <2>2, <2>3 DEF DelNucleo
  <2>5. Forma' /\ PuertoBien(s)
    BY <1>1, <1>2, <2>3 DEF IInv, Forma, PuertoBien
  <2>6. Sano(s)'
    BY <1>1, <1>2, <2>3, <2>4 DEF IInv, Sano, Tiene
  <2>7. \A t \in Descriptores \ {s} : Intacto(t)
    BY <1>1, <1>2, <2>3 DEF Intacto
  <2> QED
    BY <2>5, <2>6, <2>7, UnSocket
<1>4. CASE ~SeAbre(s, abre)
  BY <1>1, <1>4 DEF CheckUdpOpen, IInv, Forma, Sano, PuertoUnico, Tiene
<1> QED
  BY <1>3, <1>4

LEMMA PasoCuenta ==
  ASSUME IInv, NEW s \in Descriptores, NEW abre \in BOOLEAN, NEW repone \in BOOLEAN,
         GetReadCount(s, abre, repone)
  PROVE  IInv'
<1> DEFINE bloquea == ~Tiene(s, "NONBLOCK")
<1>1. /\ s \in DOMAIN psScbs /\ s \in DOMAIN nucleo /\ UNCHANGED arranques
      /\ historia' = [historia EXCEPT ![s] =
                        IF ~bloquea THEN @
                        ELSE IF repone THEN @ \ {"dudoso"} ELSE @ \cup {"dudoso"}]
      /\ nucleo' = [nucleo EXCEPT ![s] =
                      [nb |-> IF bloquea THEN ~repone ELSE @.nb,
                       abierto |-> @.abierto \/ SeAbre(s, abre)]]
  BY DEF GetReadCount
<1>2. /\ DOMAIN psScbs' = DOMAIN psScbs /\ psScbs'[s] \in Scb
      /\ psScbs'[s].wFlags = psScbs[s].wFlags
            \cup (IF SeAbre(s, abre) THEN {"BOUND", "CONNECTED"} ELSE {})
      /\ psScbs'[s].bType = psScbs[s].bType /\ psScbs'[s].wPort = psScbs[s].wPort
      /\ \A t \in DOMAIN psScbs \ {s} : psScbs'[t] = psScbs[t]
  BY <1>1, SeAbreBien DEF GetReadCount
<1>3. nucleo[s] \in DelNucleo /\ historia[s] \in SUBSET Sucesos
  BY <1>1 DEF IInv, Forma, Sano
<1>4. /\ DOMAIN nucleo' = DOMAIN nucleo
      /\ nucleo'[s] = [nb |-> IF bloquea THEN ~repone ELSE nucleo[s].nb,
                       abierto |-> nucleo[s].abierto \/ SeAbre(s, abre)]
      /\ \A t \in DOMAIN nucleo \ {s} : nucleo'[t] = nucleo[t]
  BY <1>1
<1>5. SeAbre(s, abre) \in BOOLEAN /\ bloquea \in BOOLEAN
  BY DEF SeAbre, Tiene
<1>6. /\ nucleo'[s] \in DelNucleo
      /\ nucleo'[s].nb <=> (IF bloquea THEN ~repone ELSE nucleo[s].nb)
      /\ nucleo'[s].abierto <=> nucleo[s].abierto \/ SeAbre(s, abre)
  <2> DEFINE n == IF bloquea THEN ~repone ELSE nucleo[s].nb
             a == nucleo[s].abierto \/ SeAbre(s, abre)
  <2>1. n \in BOOLEAN /\ a \in BOOLEAN
    BY <1>3, <1>5 DEF DelNucleo
  <2>2. nucleo'[s] = [nb |-> n, abierto |-> a]
    BY <1>4
  <2> HIDE DEF n, a
  <2>3. nucleo'[s] \in DelNucleo /\ nucleo'[s].nb = n /\ nucleo'[s].abierto = a
    BY <2>1, <2>2 DEF DelNucleo
  <2>4. (nucleo'[s].nb <=> n) /\ (nucleo'[s].abierto <=> a)
    BY <2>3
  <2> QED
    BY <2>3, <2>4 DEF n, a
<1>7. /\ historia'[s] = IF ~bloquea THEN historia[s]
                       ELSE IF repone THEN historia[s] \ {"dudoso"}
                       ELSE historia[s] \cup {"dudoso"}
      /\ historia' \in [Descriptores -> SUBSET Sucesos]
  BY <1>1, <1>3 DEF IInv, Forma, Sucesos
<1>8. Forma' /\ PuertoBien(s)
  BY <1>1, <1>2, <1>4, <1>7 DEF IInv, Forma, PuertoBien
<1>9. Tiene(s, "NONBLOCK")' <=> ~bloquea
  BY <1>2 DEF Tiene
<1>10. Sano(s)'
  <2>1. "dudoso" \in historia'[s] \/ (nucleo'[s].nb <=> Tiene(s, "NONBLOCK")')
    BY <1>1, <1>6, <1>7, <1>9 DEF IInv, Sano
  <2>2. historia'[s] \ {"dudoso"} = historia[s] \ {"dudoso"}
    BY <1>7
  <2> QED
    BY <1>1, <1>2, <1>4, <1>6, <2>1, <2>2 DEF IInv, Sano, Tiene
<1>11. \A t \in Descriptores \ {s} : Intacto(t)
  BY <1>1, <1>2, <1>4 DEF IInv, Forma, Intacto
<1> QED
  BY <1>8, <1>10, <1>11, UnSocket

LEMMA PasoArranque ==
  ASSUME IInv, WSAStartup \/ WSACleanup
  PROVE  IInv'
<1>1. CASE WSAStartup
  BY <1>1, SocketsAssumption DEF WSAStartup, IInv, Forma, Sano, PuertoUnico, Tiene
<1>2. CASE WSACleanup /\ arranques' > 0
  BY <1>2, SocketsAssumption DEF WSACleanup, IInv, Forma, Sano, PuertoUnico, Tiene
<1>3. CASE WSACleanup /\ ~(arranques' > 0)
  <2>1. /\ arranques > -MaxArranques /\ arranques' = arranques - 1
        /\ UNCHANGED psScbs
        /\ nucleo' = Quita(nucleo, DOMAIN psScbs)
        /\ historia' = [s \in Descriptores |->
                          IF s \in DOMAIN psScbs THEN historia[s] \cup {"cortado"}
                          ELSE historia[s]]
    BY <1>3, SocketsAssumption DEF WSACleanup, IInv, Forma
  <2>2. Forma'
    BY <2>1, SocketsAssumption DEF IInv, Forma, Quita, Sucesos
  <2>3. ASSUME NEW s \in Descriptores PROVE Sano(s)'
    BY <2>1 DEF IInv, Forma, Sano, Quita, Tiene
  <2>4. PuertoUnico'
    BY <2>1 DEF IInv, Forma, PuertoUnico
  <2> QED
    BY <2>2, <2>3, <2>4 DEF IInv
<1> QED
  BY <1>1, <1>2, <1>3

LEMMA PasoIInv == IInv /\ [Next]_svars => IInv'
<1> SUFFICES ASSUME IInv, [Next]_svars
             PROVE  IInv'
  OBVIOUS
<1>1. CASE Crea \/ Acepta
  BY <1>1, PasoSocket, PasoAccept DEF Crea, Acepta
<1>2. CASE Liga
  BY <1>2, PasoBind, PasoListen DEF Liga
<1>3. CASE Conecta
  BY <1>3, PasoConnect, PasoAbre DEF Conecta
<1>4. CASE Ajusta
  BY <1>4, PasoIoctl, PasoCuenta, PasoOpcion DEF Ajusta
<1>5. CASE Cierra
  BY <1>5, PasoCierra DEF Cierra
<1>6. CASE WSAStartup \/ WSACleanup
  BY <1>6, PasoArranque
<1>7. CASE UNCHANGED svars
  BY <1>7 DEF svars, IInv, Forma, Sano, PuertoUnico, Tiene
<1> QED
  BY <1>1, <1>2, <1>3, <1>4, <1>5, <1>6, <1>7 DEF Next

LEMMA IInvInicial == Init => IInv
  BY SocketsAssumption DEF Init, IInv, Forma, Sano, PuertoUnico, Sucesos

LEMMA SiempreIInv == Spec => []IInv
  BY IInvInicial, PasoIInv, PTL DEF Spec

(***************************************************************************)
(* The table, the kernel's sockets and the history keep their types, for   *)
(* any handles, ports and options.                                         *)
(***************************************************************************)
THEOREM TipoCorrecto == Spec => []TypeOK
<1>1. IInv => TypeOK
  BY DEF IInv, Forma, Sano, TypeOK
<1> QED
  BY <1>1, SiempreIInv, PTL

(***************************************************************************)
(* No socket of the kernel is left without an entry and no entry outlives  *)
(* its socket but by WSACleanup(): socket(), accept() and closesocket()    *)
(* keep both sides together on every path, the failing ones included.      *)
(***************************************************************************)
THEOREM NuncaHayFugas == Spec => []SinFugas
<1>1. IInv => SinFugas
  BY DEF IInv, Forma, Sano, SinFugas
<1> QED
  BY <1>1, SiempreIInv, PTL

(***************************************************************************)
(* The search of bind() keeps ports apart, whatever happens between two    *)
(* searches.                                                               *)
(***************************************************************************)
THEOREM SiemprePuertoUnico == Spec => []PuertoUnico
<1>1. IInv => PuertoUnico
  BY DEF IInv
<1> QED
  BY <1>1, SiempreIInv, PTL

(***************************************************************************)
(* The peeks of select() and FIONREAD leave the mode as it was, unless the *)
(* kernel refuses.                                                         *)
(***************************************************************************)
THEOREM SiempreModoAcorde == Spec => []ModoAcorde
<1>1. IInv => ModoAcorde
  BY DEF IInv, Forma, Sano, ModoAcorde
<1> QED
  BY <1>1, SiempreIInv, PTL

(***************************************************************************)
(* A datagram socket marked as connected is open in the kernel, unless a   *)
(* connect() failed.                                                       *)
(***************************************************************************)
THEOREM SiempreAbierto == Spec => []ConectadoEsAbierto
<1>1. IInv => ConectadoEsAbierto
  BY DEF IInv, Forma, Sano, ConectadoEsAbierto
<1> QED
  BY <1>1, SiempreIInv, PTL
-----------------------------------------------------------------------------
(* WSAEWOULDBLOCK is told of one error of the kernel only. *)
LEMMA SoloSiBloquearia ==
  ASSUME NEW k
  PROVE  MapError(k) = "WSAEWOULDBLOCK" <=> k = "ERR_WOULD_BLOCK"
  BY DEF MapError, Traduccion

(* A socket whose kernel mode is the one asked for, and that was not made  *)
(* non-blocking, is not told by the kernel that it would block.            *)
LEMMA ModoDice ==
  ASSUME IInv, NEW s \in DOMAIN psScbs, NEW k \in Dice(s),
         ~Tiene(s, "NONBLOCK"), "dudoso" \notin historia[s]
  PROVE  k # "ERR_WOULD_BLOCK"
<1>1. Sano(s)
  BY DEF IInv, Forma
<1>2. CASE s \notin DOMAIN nucleo
  BY <1>2 DEF Dice
<1>3. CASE s \in DOMAIN nucleo
  <2>1. nucleo[s].nb = FALSE
    <3>1. nucleo[s].nb \in BOOLEAN
      BY <1>1, <1>3 DEF Sano, DelNucleo
    <3> QED
      BY <1>1, <1>3, <3>1 DEF Sano
  <2> QED
    BY <1>3, <2>1 DEF Dice
<1> QED
  BY <1>2, <1>3

(* What recvfrom() may answer when k is the last word of the kernel.       *)
LEMMA LoQueContestaRecvfrom ==
  ASSUME NEW s \in DOMAIN psScbs, NEW k, NEW abre, NEW de,
         NEW r \in recvfromDice(s, abre, k, de)
  PROVE  \/ r = Mal("WSAEINVAL")
         \/ r = Mal(MapError(k))
         \/ r = Segun(k)
         \/ k = "ERR_EOF" /\ r = Bien(0)
         \/ k = "ERR_NOT_ESTAB" /\ r = Mal("WSAEWOULDBLOCK")
         \/ de \in {"corto", "ipv4"} /\ r = Mal("WSAEFAULT")
<1>1. Leido(k) \in {Bien(0), Mal("WSAEWOULDBLOCK"), Segun(k)}
      /\ (Leido(k) = Mal("WSAEWOULDBLOCK") => k = "ERR_NOT_ESTAB" \/ Leido(k) = Segun(k))
      /\ (Leido(k) = Bien(0) => k = "ERR_EOF" \/ Leido(k) = Segun(k))
  <2>1. CASE k = "ERR_EOF"
    BY <2>1 DEF Leido, Bien, Mal
  <2>2. CASE k = "ERR_NOT_ESTAB"
    BY <2>2 DEF Leido, Bien, Mal
  <2>3. CASE k \notin {"ERR_EOF", "ERR_NOT_ESTAB"}
    <3>1. Leido(k) = Segun(k)
      BY <2>3 DEF Leido
    <3> QED
      BY <3>1
  <2> QED
    BY <2>1, <2>2, <2>3
<1>2. \/ r = Mal("WSAEINVAL")
      \/ r = Mal("WSAEFAULT") /\ de \in {"corto", "ipv4"}
      \/ r = Mal(MapError(k))
      \/ r = Leido(k)
  BY Zenon DEF recvfromDice
<1> QED
  BY <1>1, <1>2

(* What the other calls may answer to the word k of the kernel.            *)
LEMMA LoQueContestan ==
  ASSUME NEW s \in DOMAIN psScbs, NEW k,
         NEW r \in {acceptDice(s, k), connectDice(s, k), listenDice(s, k),
                    sendtoDice(s, k), closesocketDice(s, k), getpeername(s, k),
                    shutdown(s, k)}
  PROVE  \/ r = Mal("WSAEINVAL")
         \/ r = Segun(k)
         \/ k = "ERR_RESET" /\ r = Mal("WSAECONNREFUSED")
         \/ Tiene(s, "NONBLOCK") /\ r = Mal("WSAEWOULDBLOCK")
  BY Zenon DEF acceptDice, connectDice, listenDice, sendtoDice, closesocketDice,
     getpeername, shutdown, SiEsSocket, SiEsta

LEMMA BloqueoDeIInv == IInv => BloqueoJusto
<1> SUFFICES ASSUME IInv, NEW s \in DOMAIN psScbs, NEW k \in Dice(s)
             PROVE  LET otras == {acceptDice(s, k), connectDice(s, k), listenDice(s, k),
                                  sendtoDice(s, k), closesocketDice(s, k),
                                  getpeername(s, k), shutdown(s, k)}
                        puede == Tiene(s, "NONBLOCK") \/ "dudoso" \in historia[s]
                                   \/ k = "ERR_NOT_ESTAB"
                    IN  /\ Mal("WSAEWOULDBLOCK") \in otras => puede
                        /\ k = "ERR_WOULD_BLOCK" => otras \subseteq SeBloquearia
                        /\ \A abre \in Aberturas(s, k), de \in Remitente :
                             LET recibe == recvfromDice(s, abre, k, de) IN
                             /\ Mal("WSAEWOULDBLOCK") \in recibe => puede
                             /\ k = "ERR_WOULD_BLOCK" /\ de \in {"nadie", "cualquiera"} =>
                                  recibe \subseteq SeBloquearia
  BY Zenon DEF BloqueoJusto
<1> DEFINE otras == {acceptDice(s, k), connectDice(s, k), listenDice(s, k),
                     sendtoDice(s, k), closesocketDice(s, k), getpeername(s, k),
                     shutdown(s, k)}
           puede == Tiene(s, "NONBLOCK") \/ "dudoso" \in historia[s] \/ k = "ERR_NOT_ESTAB"
<1>1. \A e, f : /\ Mal(e) = Mal(f) => e = f
                /\ Mal(e) = Bien(0) => e = "nada"
  BY DEF Mal, Bien
<1>2. /\ Mal(MapError(k)) = Mal("WSAEWOULDBLOCK") <=> k = "ERR_WOULD_BLOCK"
      /\ Segun(k) = Mal("WSAEWOULDBLOCK") <=> k = "ERR_WOULD_BLOCK"
  BY <1>1, SoloSiBloquearia DEF Segun
<1>3. k = "ERR_WOULD_BLOCK" => puede
  BY ModoDice
<1>4. ASSUME NEW r \in otras
      PROVE  /\ r = Mal("WSAEWOULDBLOCK") => puede
             /\ k = "ERR_WOULD_BLOCK" => r \in SeBloquearia
  BY <1>1, <1>2, <1>3, LoQueContestan DEF SeBloquearia
<1>5. ASSUME NEW abre \in Aberturas(s, k), NEW de \in Remitente,
             NEW r \in recvfromDice(s, abre, k, de)
      PROVE  /\ r = Mal("WSAEWOULDBLOCK") => puede
             /\ k = "ERR_WOULD_BLOCK" /\ de \in {"nadie", "cualquiera"} =>
                  r \in SeBloquearia
  BY <1>1, <1>2, <1>3, LoQueContestaRecvfrom DEF SeBloquearia
<1> HIDE DEF otras, puede
<1>6. /\ Mal("WSAEWOULDBLOCK") \in otras => puede
      /\ k = "ERR_WOULD_BLOCK" => otras \subseteq SeBloquearia
  BY <1>4
<1>7. \A abre \in Aberturas(s, k), de \in Remitente :
        /\ Mal("WSAEWOULDBLOCK") \in recvfromDice(s, abre, k, de) => puede
        /\ k = "ERR_WOULD_BLOCK" /\ de \in {"nadie", "cualquiera"} =>
             recvfromDice(s, abre, k, de) \subseteq SeBloquearia
  BY <1>5
<1> QED
  BY <1>6, <1>7, Zenon DEF otras, puede
-----------------------------------------------------------------------------
(* What a client is told of a new entry that is empty, or that is a copy.  *)
Limpio(s) ==
  \A o \in Consultas \ {"TYPE"} :
    getsockopt(s, o)' \in {Bien(Bit(o = "DONTLINGER")), Mal("WSAENOPROTOOPT")}

Copiado(s) ==
  \E t \in DOMAIN psScbs :
    /\ acceptDice(t, "NO_ERR") = Bien(0)
    /\ \A o \in Consultas \ {"ACCEPTCONN"} : getsockopt(s, o)' = getsockopt(t, o)
    /\ getsockopt(s, "ACCEPTCONN")' \in {Bien(0), Mal("WSAENOPROTOOPT")}

LEMMA SocketLimpio ==
  ASSUME NEW s, NEW tipo \in {"STREAM", "DGRAM"},
         s \in DOMAIN psScbs', psScbs'[s] = Vacio(tipo)
  PROVE  Limpio(s)
<1>1. /\ psScbs'[s].wOption = {} /\ psScbs'[s].wFlags = {}
  BY DEF Vacio
<1>2. Tiene(s, "LISTEN")' = FALSE
  BY <1>1 DEF Tiene
<1> SUFFICES ASSUME NEW o \in Consultas \ {"TYPE"}
             PROVE  getsockopt(s, o)' \in {Bien(Bit(o = "DONTLINGER")), Mal("WSAENOPROTOOPT")}
  BY Zenon DEF Limpio
<1>3. CASE o \in SinSentido[psScbs'[s].bType]
  BY <1>3, Zenon DEF getsockopt, SiEsSocket
<1>4. CASE o \notin SinSentido[psScbs'[s].bType]
  <2>1. CASE o = "ACCEPTCONN"
    BY <1>2, <1>4, <2>1 DEF getsockopt, SiEsSocket, Bit
  <2>2. CASE o = "ERROR"
    BY <1>4, <2>2 DEF getsockopt, SiEsSocket, Bit
  <2>3. CASE o = "DONTLINGER"
    BY <1>1, <1>4, <2>3 DEF getsockopt, SiEsSocket, Bit
  <2>4. CASE o \notin {"ACCEPTCONN", "ERROR", "DONTLINGER"}
    BY <1>1, <1>4, <2>4 DEF getsockopt, SiEsSocket, Bit
  <2> QED
    BY <2>1, <2>2, <2>3, <2>4
<1> QED
  BY <1>3, <1>4

LEMMA AcceptCopia ==
  ASSUME NEW s \in DOMAIN psScbs, NEW sn, sn \in DOMAIN psScbs', Tiene(s, "LISTEN"),
         psScbs[s] \in Scb,
         psScbs'[sn] = [psScbs[s] EXCEPT !.wFlags = @ \ {"LISTEN"}]
  PROVE  Copiado(sn)
<1>1. /\ psScbs'[sn].wOption = psScbs[s].wOption
      /\ psScbs'[sn].bType = psScbs[s].bType
      /\ Tiene(sn, "LISTEN")' = FALSE
  BY DEF Scb, Tiene
<1>2. acceptDice(s, "NO_ERR") = Bien(0)
  BY DEF acceptDice, SiEsSocket, SiEsta, Segun
<1>3. ASSUME NEW o \in Consultas \ {"ACCEPTCONN"}
      PROVE  getsockopt(sn, o)' = getsockopt(s, o)
  BY <1>1, <1>3 DEF getsockopt, SiEsSocket
<1>4. getsockopt(sn, "ACCEPTCONN")' \in {Bien(0), Mal("WSAENOPROTOOPT")}
  BY <1>1 DEF getsockopt, SiEsSocket, Bit
<1> QED
  BY <1>2, <1>3, <1>4, Zenon DEF Copiado

(* Only socket() and accept() make an entry. *)
LEMMA PasoSinHerencia ==
  ASSUME IInv, [Next]_svars, NEW s \in DOMAIN psScbs' \ DOMAIN psScbs
  PROVE  Limpio(s) \/ Copiado(s)
<1>1. ASSUME NEW t \in Descriptores, NEW tipo \in {"STREAM", "DGRAM"}, socket(t, tipo)
      PROVE  Limpio(s)
  <2>1. psScbs' = Pon(psScbs, t, Vacio(tipo))
    BY <1>1 DEF socket, Devuelve, svars
  <2>2. s = t /\ psScbs'[s] = Vacio(tipo)
    BY <2>1 DEF Pon
  <2> QED
    BY <2>2, SocketLimpio
<1>2. ASSUME NEW t \in Descriptores, NEW sn \in Descriptores, accept(t, sn)
      PROVE  Copiado(s)
  <2>1. /\ psScbs' = Pon(psScbs, sn, [psScbs[t] EXCEPT !.wFlags = @ \ {"LISTEN"}])
        /\ t \in DOMAIN psScbs /\ Tiene(t, "LISTEN")
    BY <1>2 DEF accept, Devuelve, svars
  <2>2. s = sn /\ psScbs'[s] = [psScbs[t] EXCEPT !.wFlags = @ \ {"LISTEN"}]
    BY <2>1 DEF Pon
  <2>3. psScbs[t] \in Scb
    BY <1>2, <2>1 DEF IInv, Sano
  <2> QED
    BY <2>1, <2>2, <2>3, AcceptCopia
<1>3. CASE Liga \/ Conecta \/ Ajusta
  <2>1. DOMAIN psScbs' = DOMAIN psScbs
    BY ZenonT(60), <1>3 DEF Liga, bind, listen, Conecta, connect, recvfrom, sendto, CheckUdpOpen,
       Ajusta, ioctlsocket, GetReadCount, setsockopt, Marca
  <2> QED
    BY <2>1
<1>4. CASE Cierra \/ WSAStartup \/ WSACleanup \/ UNCHANGED svars
  BY <1>4 DEF Cierra, closesocket, Quita, WSAStartup, WSACleanup, svars
<1> QED
  BY <1>1, <1>2, <1>3, <1>4 DEF Next, Crea, Acepta

(***************************************************************************)
(* A client is told WSAEWOULDBLOCK when it asked not to wait, or before    *)
(* the stream is there, and always when the kernel says so, but for one    *)
(* that has no room for the sender of a datagram: BloqueoJusto.            *)
(***************************************************************************)
THEOREM SiempreBloqueoJusto == Spec => []BloqueoJusto
  BY BloqueoDeIInv, SiempreIInv, PTL

(***************************************************************************)
(* Nothing of another socket is told of a new one, but what an accepted    *)
(* one has of its listener: SinHerencia.                                   *)
(***************************************************************************)
THEOREM NadaSeHereda == Spec => SinHerencia
<1>1. IInv /\ [Next]_svars =>
        [\A s \in DOMAIN psScbs' \ DOMAIN psScbs :
           \/ \A o \in Consultas \ {"TYPE"} :
                getsockopt(s, o)' \in {Bien(Bit(o = "DONTLINGER")), Mal("WSAENOPROTOOPT")}
           \/ \E t \in DOMAIN psScbs :
                /\ acceptDice(t, "NO_ERR") = Bien(0)
                /\ \A o \in Consultas \ {"ACCEPTCONN"} :
                     getsockopt(s, o)' = getsockopt(t, o)
                /\ getsockopt(s, "ACCEPTCONN")' \in {Bien(0), Mal("WSAENOPROTOOPT")}]_svars
  BY PasoSinHerencia, Zenon DEF Limpio, Copiado
<1> QED
  BY <1>1, SiempreIInv, PTL DEF Spec, SinHerencia
-----------------------------------------------------------------------------
(* Equal modulo W. *)
Cong(a, b) == \E k \in Int : a = b + W * k

LEMMA Constantes ==
  /\ DIA \in Nat /\ Rebote \in Nat /\ W \in Nat /\ MaxSinMirar \in Nat /\ MaxAtras \in Nat
  /\ Rebote > 0 /\ Rebote < DIA /\ 2 * DIA <= W /\ W > 0
  /\ MaxSinMirar + Rebote <= DIA
  BY RelojAssumption, SeleccionAssumption

LEMMA RestoUnico ==
  ASSUME NEW n \in Nat, n > 0, NEW q \in Int, NEW r \in 0 .. n - 1
  PROVE  (n * q + r) % n = r
<1> DEFINE a == n * q + r
           p == a \div n
           s == a % n
<1>1. a \in Int
  OBVIOUS
<1> HIDE DEF a
<1>2. p \in Int /\ s \in 0 .. n - 1 /\ a = n * p + s
  BY <1>1
<1>3. n * q + r = n * p + s
  BY <1>2 DEF a
<1> HIDE DEF p, s
<1>4. n * (q - p) = s - r
  BY <1>2, <1>3
<1>5. /\ q - p >= 1 => n * (q - p) >= n
      /\ q - p <= -1 => n * (q - p) <= -n
  BY <1>2
<1>6. q - p = 0
  BY <1>2, <1>4, <1>5
<1>7. s = r
  BY <1>2, <1>4, <1>6
<1> QED
  BY <1>7 DEF s, a

LEMMA Congruencia ==
  ASSUME NEW a \in Int, NEW b \in Int
  PROVE  /\ Cong(a, a) /\ Cong(a, a + W) /\ Cong(a, a - W)
         /\ Cong(a, b) => Cong(b, a)
         /\ \A d \in Int : Cong(a, b) => Cong(a + d, b + d)
         /\ \A c \in Int : Cong(a, b) /\ Cong(b, c) => Cong(a, c)
         /\ Cong(a % W, a) /\ a % W \in 0 .. W - 1
         /\ Cong(a, b) /\ b \in 0 .. W - 1 => a % W = b
<1>0. W \in Nat /\ W > 0
  BY Constantes
<1>1. /\ a = a + W * 0 /\ a = (a + W) + W * (-1) /\ a = (a - W) + W * 1
  BY <1>0
<1>2. Cong(a, a) /\ Cong(a, a + W) /\ Cong(a, a - W)
  <2>1. 0 \in Int /\ -1 \in Int /\ 1 \in Int
    OBVIOUS
  <2> QED
    BY <1>1, <2>1 DEF Cong
<1>3. ASSUME Cong(a, b)
      PROVE  Cong(b, a)
  <2>1. PICK k \in Int : a = b + W * k
    BY <1>3 DEF Cong
  <2>2. b = a + W * (-k) /\ -k \in Int
    BY <1>0, <2>1
  <2> QED
    BY <2>2 DEF Cong
<1>4. ASSUME NEW d \in Int, Cong(a, b)
      PROVE  Cong(a + d, b + d)
  <2>1. PICK k \in Int : a = b + W * k
    BY <1>4 DEF Cong
  <2>2. a + d = (b + d) + W * k
    BY <1>0, <2>1
  <2> QED
    BY <2>2 DEF Cong
<1>5. ASSUME NEW c \in Int, Cong(a, b), Cong(b, c)
      PROVE  Cong(a, c)
  <2>1. PICK k \in Int : a = b + W * k
    BY <1>5 DEF Cong
  <2>2. PICK l \in Int : b = c + W * l
    BY <1>5 DEF Cong
  <2>3. a = c + W * (k + l) /\ k + l \in Int
    BY <1>0, <2>1, <2>2
  <2> QED
    BY <2>3 DEF Cong
<1>6. Cong(a % W, a) /\ a % W \in 0 .. W - 1
  <2> DEFINE q == a \div W
             r == a % W
  <2>1. q \in Int /\ r \in 0 .. W - 1 /\ a = W * q + r
    BY <1>0
  <2> HIDE DEF q, r
  <2>2. r = a + W * (-q) /\ -q \in Int
    BY <1>0, <2>1
  <2> QED
    BY <2>1, <2>2 DEF Cong, r
<1>7. ASSUME Cong(a, b), b \in 0 .. W - 1
      PROVE  a % W = b
  <2>1. PICK k \in Int : a = b + W * k
    BY <1>7 DEF Cong
  <2>2. a = W * k + b
    BY <1>0, <2>1
  <2> QED
    BY <1>0, <1>7, <2>2, RestoUnico
<1> QED
  BY <1>2, <1>3, <1>4, <1>5, <1>6, <1>7
-----------------------------------------------------------------------------
(***************************************************************************)
(* Milliseconds and ticks.                                                 *)
(***************************************************************************)
DeUnTick == Mil * CLOCK_MULTIPLIER

LEMMA Crece ==
  ASSUME NEW x \in Nat, NEW y \in Nat, NEW d \in Nat, x <= y
  PROVE  x * d <= y * d
<1>1. PICK z \in Nat : z = y - x
  OBVIOUS
<1>2. y = x + z
  BY <1>1
<1>3. (x + z) * d = x * d + z * d /\ z * d >= 0 /\ x * d \in Int
  OBVIOUS
<1> QED
  BY <1>2, <1>3

(* The ticks of a timeout: a whole number of them, less than one short of  *)
(* it if it does not overflow, never too many, and under half the modulus. *)
LEMMA TicsDe ==
  ASSUME NEW t \in Nat
  PROVE  /\ DeUnTick \in Nat /\ t * CLOCK_DIVISOR \in Nat
         /\ Tics(t) \in Nat /\ 2 * Tics(t) <= W
         /\ Tics(t) * DeUnTick <= t * CLOCK_DIVISOR
         /\ t * CLOCK_DIVISOR < W => (Tics(t) + 1) * DeUnTick > t * CLOCK_DIVISOR
<1>1. /\ Mil \in Nat /\ CLOCK_DIVISOR \in Nat /\ CLOCK_MULTIPLIER \in Nat
      /\ W \in Nat /\ W > 0
  BY SeleccionAssumption, RelojAssumption
<1>2. DeUnTick \in Nat /\ DeUnTick >= 2
  BY <1>1, SeleccionAssumption DEF DeUnTick
<1>3. PICK p \in Nat : p = t * CLOCK_DIVISOR
  BY <1>1
<1>4. PICK d \in Nat : d = DeUnTick
  BY <1>2
<1>5. PICK x : x = p % W
  OBVIOUS
<1>6. x \in 0 .. W - 1 /\ x \in Nat /\ x <= p /\ (p < W => x = p)
  <2> DEFINE q == p \div W
  <2>1. q \in Int /\ x \in 0 .. W - 1 /\ p = W * q + x
    BY <1>1, <1>5
  <2> HIDE DEF q
  <2>2. q <= -1 => W * q <= -W
    BY <1>1, <2>1
  <2>3. q >= 0 => W * q >= 0
    BY <1>1, <2>1
  <2>4. q >= 1 => W * q >= W
    BY <1>1, <2>1
  <2>5. q = 0 => W * q = 0
    BY <1>1
  <2>6. q >= 0
    BY <1>1, <2>1, <2>2
  <2>7. W * q \in Int
    BY <1>1, <2>1
  <2>8. x <= p
    BY <1>1, <2>1, <2>3, <2>6, <2>7
  <2>9. p < W => x = p
    BY <1>1, <2>1, <2>4, <2>5, <2>6, <2>7
  <2> QED
    BY <1>1, <2>1, <2>8, <2>9
<1>7. PICK k : k = x \div d
  OBVIOUS
<1>8. Tics(t) = k
  BY <1>3, <1>4, <1>5, <1>7 DEF Tics, DeUnTick
<1>9. k \in Int /\ x = d * k + (x % d) /\ x % d \in 0 .. d - 1
  BY <1>2, <1>4, <1>6, <1>7
<1>10. PICK r \in 0 .. d - 1 : x = d * k + r
  BY <1>9
<1>11. k \in Nat
  <2>1. k <= -1 => d * k <= -d
    BY <1>4, <1>9
  <2>2. d * k \in Int
    BY <1>9
  <2> QED
    BY <1>6, <1>9, <1>10, <2>1, <2>2
<1>12. k * d = d * k /\ (k + 1) * d = d * k + d /\ d * k \in Int
  BY <1>11
<1>13. k * d <= x /\ x < (k + 1) * d
  BY <1>6, <1>10, <1>12
<1>14. 2 * k <= d * k
  BY <1>2, <1>4, <1>11, <1>12, Crece
<1>15. 2 * k <= W
  BY <1>1, <1>6, <1>11, <1>12, <1>13, <1>14
<1> QED
  BY <1>2, <1>3, <1>4, <1>6, <1>8, <1>11, <1>12, <1>13, <1>15
-----------------------------------------------------------------------------
(***************************************************************************)
(* The clock.  At a reading, the counter is r ticks behind the last one    *)
(* that counted, r = 0 but for a small step back; n ticks later, less what *)
(* it went back since, it is Adelante(ctLastTics - r, n).                  *)
(***************************************************************************)
RInv == bios \in 0 .. DIA - 1 /\ ctLastTics \in 0 .. DIA - 1 /\ ctBase \in 0 .. W - 1

Adelante(x, n) == IF x + n < DIA THEN x + n ELSE x + n - DIA

LEMMA BaseDeMedianoche ==
  ASSUME NEW b \in Int
  PROVE  (b - DIA) % W \in 0 .. W - 1 /\ Cong((b - DIA) % W, b - DIA)
<1>1. b - DIA \in Int
  BY Constantes
<1> QED
  BY <1>1, Congruencia

(* A call of Clock(), whatever has passed since the last one. *)
LEMMA Primera ==
  ASSUME RInv, Clock
  PROVE  /\ RInv' /\ bios' = bios
         /\ \E r \in 0 .. Rebote - 1 : r <= ctLastTics' /\ bios' = ctLastTics' - r
<1>1. Base \in 0 .. W - 1 /\ Base \in Int
  BY Constantes DEF RInv, Base
<1>2. (Base - DIA) % W \in 0 .. W - 1
  BY <1>1, BaseDeMedianoche
<1>3. CASE ~Retrocede /\ ctBase' = Base /\ ctLastTics' = bios /\ bios' = bios
  <2>1. 0 \in 0 .. Rebote - 1 /\ 0 <= ctLastTics' /\ bios' = ctLastTics' - 0
    BY <1>3, Constantes DEF RInv
  <2> QED
    BY <1>1, <1>3, <2>1 DEF RInv
<1>4. CASE /\ Retrocede /\ ctLastTics - bios < Rebote
           /\ ctBase' = Base /\ ctLastTics' = ctLastTics /\ bios' = bios
  <2>1. /\ ctLastTics - bios \in 0 .. Rebote - 1 /\ ctLastTics - bios <= ctLastTics'
        /\ bios' = ctLastTics' - (ctLastTics - bios)
    BY <1>4, Constantes DEF RInv, Retrocede
  <2> QED
    BY <1>1, <1>4, <2>1 DEF RInv
<1>5. CASE /\ Retrocede /\ ctLastTics - bios >= Rebote
           /\ ctBase' = (Base - DIA) % W /\ ctLastTics' = bios /\ bios' = bios
  <2>1. 0 \in 0 .. Rebote - 1 /\ 0 <= ctLastTics' /\ bios' = ctLastTics' - 0
    BY <1>5, Constantes DEF RInv
  <2> QED
    BY <1>2, <1>5, <2>1 DEF RInv
<1> QED
  BY <1>3, <1>4, <1>5 DEF Clock

(* A call of Clock() n ticks after another: the clock goes on by n, but    *)
(* for what it was ahead, and but for the ticks of before it had a base.   *)
LEMMA Otra ==
  ASSUME RInv, Clock, NEW r \in 0 .. Rebote - 1, NEW n \in Int, n <= MaxSinMirar,
         r <= ctLastTics, ctLastTics - r + n >= 0, r - n < Rebote,
         ctBase = 0 => ctLastTics = 0,
         bios = Adelante(ctLastTics - r, n)
  PROVE  LET q == IF n < r THEN r - n ELSE 0
             a == IF ctBase = 0 \/ n < r THEN 0 ELSE n - r
         IN  /\ q <= ctLastTics' /\ bios' = ctLastTics' - q
             /\ ctBase = 0 => r = 0 /\ n >= 0 /\ ctBase' = n /\ ctLastTics' = n
             /\ Cong(ctLastTics' - ctBase', ctLastTics - ctBase + a)
<1>0. /\ bios \in 0 .. DIA - 1 /\ ctLastTics \in 0 .. DIA - 1 /\ ctBase \in 0 .. W - 1
      /\ r \in Int /\ r >= 0
  BY Constantes DEF RInv
<1>1. CASE ctBase = 0
  <2>1. r = 0 /\ ctLastTics = 0 /\ n >= 0 /\ bios = n
    BY <1>0, <1>1, Constantes DEF Adelante
  <2>2. ~Retrocede
    BY <1>0, <2>1 DEF Retrocede
  <2>3. ctBase' = n /\ ctLastTics' = n /\ bios' = n
    BY <1>1, <2>1, <2>2 DEF Clock, Base
  <2>4. ctLastTics' - ctBase' = 0 /\ ctLastTics - ctBase + 0 = 0
    BY <1>1, <2>1, <2>3
  <2>5. Cong(ctLastTics' - ctBase', ctLastTics - ctBase + 0)
    <3>1. Cong(0, 0)
      BY Congruencia
    <3> QED
      BY <2>4, <3>1
  <2>6. 0 <= n /\ n = n - 0 /\ ~(n < r)
    BY <2>1
  <2> QED
    BY <1>1, <2>1, <2>3, <2>5, <2>6
<1>2. CASE ctBase # 0
  <2>0. Base = ctBase
    BY <1>2 DEF Base
  <2>1. CASE ctLastTics - r + n < DIA /\ n < r
    <3>1. bios = ctLastTics - r + n /\ ctLastTics - bios = r - n /\ Retrocede
      BY <1>0, <2>1 DEF Adelante, Retrocede
    <3>2. ctBase' = ctBase /\ ctLastTics' = ctLastTics /\ bios' = bios
      BY <1>0, <2>0, <3>1, Constantes DEF Clock
    <3>3. Cong(ctLastTics' - ctBase', ctLastTics - ctBase + 0)
      <4>1. ctLastTics - ctBase \in Int /\ ctLastTics - ctBase + 0 = ctLastTics - ctBase
        BY <1>0
      <4> QED
        BY <3>2, <4>1, Congruencia
    <3>4. r - n <= ctLastTics' /\ bios' = ctLastTics' - (r - n)
      BY <1>0, <3>1, <3>2
    <3> QED
      BY <1>2, <2>1, <3>3, <3>4
  <2>2. CASE ctLastTics - r + n < DIA /\ ~(n < r)
    <3>1. bios = ctLastTics - r + n /\ ~Retrocede
      BY <1>0, <2>2 DEF Adelante, Retrocede
    <3>2. ctBase' = ctBase /\ ctLastTics' = bios /\ bios' = bios
      BY <2>0, <3>1 DEF Clock
    <3>3. Cong(ctLastTics' - ctBase', ctLastTics - ctBase + (n - r))
      <4>1. /\ ctLastTics' - ctBase' \in Int
            /\ ctLastTics' - ctBase' = ctLastTics - ctBase + (n - r)
        BY <1>0, <3>1, <3>2
      <4> QED
        BY <4>1, Congruencia
    <3>4. 0 <= ctLastTics' /\ bios' = ctLastTics' - 0
      BY <1>0, <3>2
    <3> QED
      BY <1>2, <2>2, <3>3, <3>4
  <2>3. CASE ~(ctLastTics - r + n < DIA)
    <3>1. /\ bios = ctLastTics - r + n - DIA /\ Retrocede /\ ctLastTics - bios >= Rebote
          /\ ~(n < r)
      BY <1>0, <2>3, Constantes DEF Adelante, Retrocede
    <3>2. ctBase' = (ctBase - DIA) % W /\ ctLastTics' = bios /\ bios' = bios
      BY <1>0, <2>0, <3>1, Constantes DEF Clock
    <3>3. Cong(ctLastTics' - ctBase', ctLastTics - ctBase + (n - r))
      <4> DEFINE d == ctBase - DIA
                 x == (ctBase - DIA) % W
      <4>1. x \in 0 .. W - 1 /\ Cong(x, d) /\ d \in Int
        BY <1>0, BaseDeMedianoche, Constantes
      <4> HIDE DEF x
      <4>2. Cong(d, x) /\ x \in Int /\ bios - x - d \in Int /\ bios \in Int
        BY <1>0, <4>1, Congruencia
      <4>3. Cong(d + (bios - x - d), x + (bios - x - d))
        BY <4>1, <4>2, Congruencia
      <4>4. d + (bios - x - d) = bios - x /\ x + (bios - x - d) = bios - d
        BY <4>1, <4>2
      <4>5. bios - d = ctLastTics - ctBase + (n - r)
        BY <1>0, <3>1, Constantes
      <4> QED
        BY <3>2, <4>3, <4>4, <4>5 DEF x
    <3>4. 0 <= ctLastTics' /\ bios' = ctLastTics' - 0
      BY <1>0, <3>2
    <3> QED
      BY <1>2, <3>1, <3>3, <3>4
  <2> QED
    BY <2>1, <2>2, <2>3
<1> QED
  BY <1>1, <1>2
-----------------------------------------------------------------------------
(***************************************************************************)
(* The call.  Since it began the clock has gone on by Avance: what has     *)
(* passed, less what the counter went back, but for the n ticks since the  *)
(* last reading, for the r and r0 that it was ahead by then and at the     *)
(* beginning, and for the l ticks that its first base may cost.            *)
(***************************************************************************)
Avance(r, r0, l, n) == espera.total - espera.atras - n + r - r0 - l

Lleva(r, r0, l, n) ==
  /\ n <= espera.sinMirar /\ r - n < Rebote /\ ctLastTics - r + n >= 0
  /\ r <= r0 + espera.atras /\ r - n <= r0 + espera.atras /\ r <= ctLastTics
  /\ bios = Adelante(ctLastTics - r, n)
  /\ ctBase = 0 => ctLastTics = 0 /\ l = 0
  /\ Avance(r, r0, l, n) >= 0
  /\ Avance(r, r0, l, n) < Tics(sel.dwTime) \/ Avance(r, r0, l, n) = 0
  /\ Cong(ctLastTics - ctBase, sel.plazo - Tics(sel.dwTime) + Avance(r, r0, l, n))

EnPlazo ==
  \E r \in 0 .. Rebote - 1, r0 \in 0 .. Rebote - 1, l \in 0 .. MaxSinMirar, n \in Int :
    Lleva(r, r0, l, n)

Esperas == [total : Nat, sinMirar : 0 .. MaxSinMirar, atras : 0 .. MaxAtras, falsa : BOOLEAN]

SeTipo ==
  /\ sel \in [fase : Nombres \cup {"fuera", "mira"}, i : Int, retv : Int,
              dwTime : {0} \cup Tiempos, plazo : 0 .. W - 1]
  /\ iOut \in [Nombres -> Int]
  /\ espera \in Esperas

(* PlazoJusto, in ticks. *)
EnTics ==
  sel.dwTime > 0 /\ ~espera.falsa =>
    /\ sel.fase = "fuera" /\ sel.retv = 0 => espera.total >= Tics(sel.dwTime)
    /\ espera.total <= Tics(sel.dwTime) + Demora + espera.atras

SeInv ==
  /\ RInv /\ SeTipo
  /\ sel.fase # "fuera" /\ sel.dwTime > 0 /\ ~espera.falsa => EnPlazo
  /\ sel.fase = "fuera" => EnTics

LEMMA TipoTiempo ==
  ASSUME SeTipo
  PROVE  /\ sel.dwTime \in Int /\ sel.plazo \in Int
         /\ sel.dwTime > 0 => sel.dwTime \in Nat /\ sel.dwTime \in Tiempos
         /\ sel.fase \in Nombres \cup {"fuera", "mira"} /\ sel.retv \in Int
         /\ espera.total \in Nat /\ espera.sinMirar \in 0 .. MaxSinMirar
         /\ espera.sinMirar \in Nat
         /\ espera.atras \in 0 .. MaxAtras /\ espera.atras \in Nat /\ espera.falsa \in BOOLEAN
<1>1. sel.dwTime \in {0} \cup Tiempos /\ sel.plazo \in 0 .. W - 1
      /\ sel.fase \in Nombres \cup {"fuera", "mira"} /\ sel.retv \in Int
      /\ espera.total \in Nat /\ espera.sinMirar \in 0 .. MaxSinMirar
      /\ espera.atras \in 0 .. MaxAtras /\ espera.falsa \in BOOLEAN
  BY DEF SeTipo, Esperas
<1>2. \A t \in Tiempos : t = -1 \/ t \in Nat
  BY SeleccionAssumption, Constantes DEF SinPlazo
<1> QED
  BY <1>1, <1>2, Constantes

LEMMA OtroSel ==
  ASSUME SeTipo, NEW f \in Nombres \cup {"fuera", "mira"}, NEW j \in Int, NEW k \in Int,
         \/ sel' = [sel EXCEPT !.fase = f, !.i = j]
         \/ sel' = [sel EXCEPT !.fase = f, !.retv = k]
         \/ sel' = [sel EXCEPT !.fase = f, !.i = j, !.retv = k]
  PROVE  sel' \in [fase : Nombres \cup {"fuera", "mira"}, i : Int, retv : Int,
                   dwTime : {0} \cup Tiempos, plazo : 0 .. W - 1]
<1>1. CASE sel' = [sel EXCEPT !.fase = f, !.i = j]
  BY <1>1 DEF SeTipo
<1>2. CASE sel' = [sel EXCEPT !.fase = f, !.retv = k]
  BY <1>2 DEF SeTipo
<1>3. CASE sel' = [sel EXCEPT !.fase = f, !.i = j, !.retv = k]
  BY <1>3 DEF SeTipo
<1> QED
  BY <1>1, <1>2, <1>3

(* The time that has passed in a call that goes on. *)
LEMMA Acotado ==
  ASSUME SeTipo, EnPlazo, sel.dwTime > 0
  PROVE  espera.total <= Tics(sel.dwTime) + Demora + espera.atras
<1>1. PICK r \in 0 .. Rebote - 1, r0 \in 0 .. Rebote - 1, l \in 0 .. MaxSinMirar, n \in Int :
        Lleva(r, r0, l, n)
  BY DEF EnPlazo
<1>2. PICK T \in Nat : T = Tics(sel.dwTime)
  BY TicsDe, TipoTiempo
<1>3. PICK a : a = Avance(r, r0, l, n)
  OBVIOUS
<1>4. /\ a < T \/ a = 0
      /\ a = espera.total - espera.atras - n + r - r0 - l
      /\ n <= espera.sinMirar
  BY <1>1, <1>2, <1>3 DEF Lleva, Avance
<1>5. /\ espera.total \in Nat /\ espera.atras \in Nat /\ espera.sinMirar \in 0 .. MaxSinMirar
  BY TipoTiempo
<1>6. a <= T /\ a \in Int
  BY <1>2, <1>4, <1>5, Constantes
<1>7. espera.total <= T + Demora + espera.atras
  BY <1>4, <1>5, <1>6, Constantes DEF Demora
<1> QED
  BY <1>2, <1>7

(* A timeout kept in ticks is kept in milliseconds. *)
LEMMA DeTics ==
  ASSUME SeTipo, EnTics
  PROVE  PlazoJusto
<1> SUFFICES ASSUME sel.dwTime > 0, ~espera.falsa
             PROVE  /\ sel.fase = "fuera" /\ sel.retv = 0 /\ sel.dwTime * CLOCK_DIVISOR < W =>
                         (espera.total + 1) * DeUnTick > sel.dwTime * CLOCK_DIVISOR
                    /\ espera.total * DeUnTick <=
                         sel.dwTime * CLOCK_DIVISOR + (Demora + espera.atras) * DeUnTick
  BY DEF PlazoJusto, DeUnTick
<1>1. sel.dwTime \in Nat /\ espera.total \in Nat /\ espera.atras \in Nat
  BY TipoTiempo
<1>2. PICK T \in Nat, p \in Nat, d \in Nat, c \in Nat :
        /\ T = Tics(sel.dwTime) /\ p = sel.dwTime * CLOCK_DIVISOR /\ d = DeUnTick
        /\ c = Demora + espera.atras
  <2>1. Demora + espera.atras \in Nat
    BY <1>1, Constantes DEF Demora
  <2>2. Tics(sel.dwTime) \in Nat /\ sel.dwTime * CLOCK_DIVISOR \in Nat /\ DeUnTick \in Nat
    BY <1>1, TicsDe
  <2> QED
    BY <2>1, <2>2
<1>3. T * d <= p /\ (p < W => (T + 1) * d > p)
  BY <1>1, <1>2, TicsDe
<1>4. ASSUME sel.fase = "fuera", sel.retv = 0, p < W
      PROVE  (espera.total + 1) * d > p
  <2>1. T + 1 <= espera.total + 1 /\ T + 1 \in Nat /\ espera.total + 1 \in Nat
    BY <1>1, <1>2, <1>4 DEF EnTics
  <2>2. (T + 1) * d <= (espera.total + 1) * d
    BY <2>1, Crece
  <2>3. (T + 1) * d \in Int /\ (espera.total + 1) * d \in Int
    BY <2>1
  <2> QED
    BY <1>3, <1>4, <2>2, <2>3
<1>5. espera.total * d <= p + c * d
  <2>1. espera.total <= T + c /\ T + c \in Nat
    BY <1>1, <1>2, Constantes DEF EnTics, Demora
  <2>2. espera.total * d <= (T + c) * d
    BY <1>1, <2>1, Crece
  <2>3. (T + c) * d = T * d + c * d /\ T * d \in Int /\ c * d \in Int
    OBVIOUS
  <2>4. espera.total * d \in Int
    BY <1>1
  <2> QED
    BY <1>3, <2>2, <2>3, <2>4
<1> QED
  BY <1>2, <1>4, <1>5

LEMMA SeInvJusto == SeInv => PlazoJusto
<1> SUFFICES ASSUME SeInv PROVE EnTics
  BY DeTics DEF SeInv
<1>1. sel.fase # "fuera" /\ sel.dwTime > 0 /\ ~espera.falsa =>
        espera.total <= Tics(sel.dwTime) + Demora + espera.atras
  BY Acotado DEF SeInv
<1> QED
  BY <1>1 DEF EnTics, SeInv

(* A step that leaves the clock, the time and the timeout as they are. *)
LEMMA SinTiempo ==
  ASSUME SeInv, UNCHANGED <<reloj, espera>>, SeTipo',
         sel'.dwTime = sel.dwTime, sel'.plazo = sel.plazo,
         sel'.fase # "fuera" => sel.fase # "fuera",
         sel'.fase = "fuera" => sel.fase # "fuera" /\ (sel'.retv # 0 \/ sel'.dwTime <= 0)
  PROVE  SeInv'
<1>1. UNCHANGED <<bios, ctBase, ctLastTics, espera>>
  BY DEF reloj
<1>2. RInv'
  BY <1>1 DEF SeInv, RInv
<1>3. sel.fase # "fuera" /\ sel.dwTime > 0 /\ ~espera.falsa =>
        EnPlazo /\ espera.total <= Tics(sel.dwTime) + Demora + espera.atras
  BY Acotado DEF SeInv
<1>4. sel.dwTime > 0 /\ EnPlazo => EnPlazo'
  BY <1>1 DEF EnPlazo, Lleva, Avance
<1>5. sel'.fase = "fuera" => EnTics'
  <2>1. sel.dwTime \in Int
    BY TipoTiempo DEF SeInv
  <2> QED
    BY <1>1, <1>3, <2>1 DEF EnTics, Demora
<1> QED
  BY <1>2, <1>3, <1>4, <1>5 DEF SeInv

LEMMA AdelanteCero ==
  ASSUME NEW x, x \in 0 .. DIA - 1
  PROVE  x = Adelante(x, 0)
BY Constantes DEF Adelante

LEMMA PasoEmpieza ==
  ASSUME SeInv, NEW p \in Peticiones, NEW t \in Tiempos, Empieza(p, t)
  PROVE  SeInv'
<1>1. /\ Clock /\ iOut' = Cero
      /\ espera' = [total |-> 0, sinMirar |-> 0, atras |-> 0,
                    falsa |-> ctBase' = 0 /\ ctLastTics' # 0]
      /\ sel' = [fase |-> "lee", i |-> 1, retv |-> 0, dwTime |-> t,
                 plazo |-> IF t = SinPlazo THEN 0 ELSE (Hora' + Tics(t)) % W]
  BY DEF Empieza, Nada
<1>2. t = -1 \/ t \in Nat
  BY SeleccionAssumption, Constantes DEF SinPlazo
<1>20. PICK T : T = Tics(t)
  OBVIOUS
<1>21. t \in Nat => T \in Nat
  BY <1>20, TicsDe
<1>3. /\ RInv' /\ bios' = bios
      /\ \E r \in 0 .. Rebote - 1 : r <= ctLastTics' /\ bios' = ctLastTics' - r
  BY <1>1, Primera DEF SeInv
<1>4. /\ ctLastTics' \in Int /\ ctBase' \in Int /\ ctLastTics' \in 0 .. DIA - 1
      /\ ctLastTics' - ctBase' \in Int
  BY <1>3, Constantes DEF RInv
<1>5. /\ Hora' \in 0 .. W - 1 /\ Hora' \in Int
      /\ Cong(ctLastTics' - ctBase', Hora')
  <2> DEFINE x == ctLastTics' - ctBase'
  <2>1. x \in Int /\ Hora' = x % W
    BY <1>4 DEF Hora
  <2> HIDE DEF x
  <2>2. x % W \in 0 .. W - 1 /\ Cong(x % W, x)
    BY <2>1, Congruencia
  <2>3. x % W \in Int
    BY <2>2, Constantes
  <2>4. Cong(x, x % W)
    BY <2>1, <2>2, <2>3, Congruencia
  <2> QED
    BY <2>1, <2>2, <2>3, <2>4 DEF x
<1>6. T \in Nat => /\ (Hora' + T) % W \in 0 .. W - 1
                   /\ Cong(ctLastTics' - ctBase', ((Hora' + T) % W) - T)
  <2> SUFFICES ASSUME T \in Nat
               PROVE  /\ (Hora' + T) % W \in 0 .. W - 1
                      /\ Cong(ctLastTics' - ctBase', ((Hora' + T) % W) - T)
    OBVIOUS
  <2> DEFINE x == ctLastTics' - ctBase'
             h == Hora'
             z == (h + T) % W
  <2>1. x \in Int /\ h \in Int /\ h + T \in Int /\ Cong(x, h) /\ -T \in Int
    BY <1>4, <1>5
  <2> HIDE DEF x, h
  <2>2. z \in 0 .. W - 1 /\ Cong(z, h + T)
    BY <2>1, Congruencia
  <2>3. z \in Int
    BY <2>2, Constantes
  <2> HIDE DEF z
  <2>4. Cong(h + T, z)
    BY <2>1, <2>2, <2>3, Congruencia
  <2>5. Cong((h + T) + (-T), z + (-T))
    BY <2>1, <2>3, <2>4, Congruencia
  <2>6. (h + T) + (-T) = h /\ z + (-T) = z - T /\ z - T \in Int
    BY <2>1, <2>3
  <2>7. Cong(x, z - T)
    BY <2>1, <2>5, <2>6, Congruencia
  <2> QED
    BY <2>2, <2>7 DEF x, h, z
<1>7. SeTipo'
  <2>1. 0 \in 0 .. W - 1 /\ 0 \in 0 .. MaxSinMirar /\ 0 \in Nat /\ 0 \in Int /\ 1 \in Int
    BY Constantes
  <2>2. (IF t = SinPlazo THEN 0 ELSE (Hora' + T) % W) \in 0 .. W - 1
    BY <1>2, <1>21, <1>6, <2>1 DEF SinPlazo
  <2>3. iOut' \in [Nombres -> Int]
    BY <1>1 DEF Cero
  <2>4. sel' \in [fase : Nombres \cup {"fuera", "mira"}, i : Int, retv : Int,
                  dwTime : {0} \cup Tiempos, plazo : 0 .. W - 1]
    BY <1>1, <1>20, <2>1, <2>2 DEF Nombres
  <2>5. espera' \in Esperas
    BY <1>1, <2>1, Constantes DEF Esperas
  <2> QED
    BY <2>3, <2>4, <2>5 DEF SeTipo
<1>8. t > 0 /\ ~espera'.falsa => EnPlazo'
  <2> SUFFICES ASSUME t > 0, ~espera'.falsa PROVE EnPlazo'
    OBVIOUS
  <2>1. t \in Nat /\ t # SinPlazo /\ T \in Nat
    BY <1>2, <1>21 DEF SinPlazo
  <2>2. PICK r \in 0 .. Rebote - 1 : r <= ctLastTics' /\ bios' = ctLastTics' - r
    BY <1>3
  <2>3. sel'.dwTime = t /\ sel'.plazo = (Hora' + T) % W /\ espera'.total = 0
        /\ espera'.sinMirar = 0 /\ espera'.atras = 0
    BY <1>1, <1>20, <2>1
  <2>30. Tics(sel.dwTime)' = T
    BY <1>20, <2>3 DEF Tics
  <2>4. Avance(r, r, 0, 0)' = 0
    BY <2>3, Constantes DEF Avance
  <2>5. bios' = Adelante(ctLastTics' - r, 0)
    <3>1. bios' \in 0 .. DIA - 1 /\ bios' = ctLastTics' - r
      BY <1>3, <2>2 DEF RInv
    <3> QED
      BY <3>1, AdelanteCero
  <2>6. Cong(ctLastTics' - ctBase', sel'.plazo - T + 0)
    <3>1. ((Hora' + T) % W) - T + 0 = ((Hora' + T) % W) - T
      BY <1>6, <2>1, Constantes
    <3> QED
      BY <1>6, <2>1, <2>3, <3>1
  <2>7. /\ 0 <= 0 /\ r - 0 < Rebote /\ ctLastTics' - r + 0 >= 0
        /\ r <= r + 0 /\ r - 0 <= r + 0 /\ 0 \in 0 .. MaxSinMirar /\ 0 \in Int
    <3>1. r \in Int /\ r < Rebote /\ Rebote \in Int /\ ctLastTics' \in Int
      BY <1>4, Constantes
    <3>0. r <= ctLastTics'
      BY <2>2
    <3>2. r - 0 < Rebote /\ r <= r + 0 /\ r - 0 <= r + 0
      BY <3>1
    <3>4. ctLastTics' - r + 0 >= 0
      <4>1. PICK y \in Int : y = ctLastTics'
        BY <3>1
      <4>2. r <= y
        BY <3>0, <4>1
      <4>3. y - r + 0 >= 0
        BY <3>1, <4>2
      <4> QED
        BY <4>1, <4>3
    <3>3. 0 \in 0 .. MaxSinMirar /\ 0 <= 0 /\ 0 \in Int
      BY Constantes
    <3> QED
      BY <3>0, <3>2, <3>3, <3>4
  <2>8. ctBase' = 0 => ctLastTics' = 0
    BY <1>1
  <2>9. Lleva(r, r, 0, 0)'
    BY <2>2, <2>3, <2>30, <2>4, <2>5, <2>6, <2>7, <2>8 DEF Lleva
  <2> QED
    BY <2>7, <2>9 DEF EnPlazo
<1>9. sel'.fase = "lee" /\ sel'.dwTime = t
  BY <1>1
<1> QED
  BY <1>3, <1>7, <1>8, <1>9 DEF SeInv

LEMMA Suma ==
  ASSUME NEW x \in Int, NEW y \in Int, NEW z \in Int, NEW m \in Int,
         Cong(x, y), Cong(z, x + m)
  PROVE  Cong(z, y + m)
<1>1. x + m \in Int /\ y + m \in Int
  OBVIOUS
<1>2. Cong(x + m, y + m)
  BY Congruencia
<1> QED
  BY <1>1, <1>2, Congruencia

(* The comparison of the clock with the deadline is one of the time that   *)
(* has passed, a, with the timeout, t.                                     *)
LEMMA Comparacion ==
  ASSUME NEW z \in Int, NEW p \in Int, NEW t \in Nat, NEW a \in Nat,
         Cong(z, p - t + a), 2 * t <= W, a <= t + MaxSinMirar
  PROVE  ((z % W) - p) % W < W \div 2 <=> a >= t
<1> DEFINE h == z % W
<1>1. h \in 0 .. W - 1 /\ Cong(h, z)
  BY Congruencia
<1>2. h \in Int /\ p - t + a \in Int /\ -p \in Int
  BY <1>1, Constantes
<1> HIDE DEF h
<1>3. Cong(h, p - t + a)
  BY <1>1, <1>2, Congruencia
<1>4. Cong(h + (-p), (p - t + a) + (-p))
  <2>1. PICK e \in Int, y \in Int : e = -p /\ y = p - t + a
    BY <1>2
  <2>2. Cong(h, y)
    BY <1>3, <2>1
  <2>3. Cong(h + e, y + e)
    <3>1. h + e \in Int
      BY <1>2, <2>1
    <3>2. Cong(h + e, h + e)
      BY <3>1, Congruencia
    <3> QED
      BY <1>2, <2>1, <2>2, <3>1, <3>2, Suma
  <2> QED
    BY <2>1, <2>3
<1>5. h + (-p) = h - p /\ (p - t + a) + (-p) = a - t /\ h - p \in Int /\ a - t \in Int
  BY <1>2
<1>6. Cong(h - p, a - t)
  BY <1>4, <1>5
<1>7. CASE a >= t
  <2>1. a - t \in 0 .. W - 1 /\ a - t < W \div 2
    BY <1>7, Constantes
  <2>2. (h - p) % W = a - t
    BY <1>5, <1>6, <2>1, Congruencia
  <2> QED
    BY <1>7, <2>1, <2>2 DEF h
<1>8. CASE ~(a >= t)
  <2>1. /\ (a - t) + W \in 0 .. W - 1 /\ ~((a - t) + W < W \div 2)
        /\ (a - t) + W \in Int
    BY <1>8, Constantes
  <2>2. Cong(a - t, (a - t) + W)
    <3>1. a - t = ((a - t) + W) - W
      BY <1>5, Constantes
    <3> QED
      BY <1>5, <2>1, <3>1, Congruencia
  <2>3. Cong(h - p, (a - t) + W)
    BY <1>5, <1>6, <2>1, <2>2, Congruencia
  <2>4. (h - p) % W = (a - t) + W
    BY <1>5, <2>1, <2>3, Congruencia
  <2> QED
    BY <1>8, <2>1, <2>4 DEF h
<1> QED
  BY <1>7, <1>8

(* What a reading of the clock finds: a is the time that has passed. *)
LEMMA Transcurre ==
  ASSUME SeInv, sel.fase = "mira", sel.dwTime > 0, Clock, ~espera.falsa, ~SinBase
  PROVE  \E q \in 0 .. Rebote - 1, r0 \in 0 .. Rebote - 1, l \in 0 .. MaxSinMirar, a \in Nat :
           /\ q <= r0 + espera.atras /\ q <= ctLastTics' /\ bios' = ctLastTics' - q
           /\ ctBase' = 0 => ctLastTics' = 0 /\ l = 0
           /\ a = espera.total - espera.atras + q - r0 - l
           /\ a <= Tics(sel.dwTime) + MaxSinMirar
           /\ Cong(ctLastTics' - ctBase', sel.plazo - Tics(sel.dwTime) + a)
<1>0. /\ RInv /\ SeTipo /\ EnPlazo
      /\ sel.dwTime \in Nat /\ sel.plazo \in Int
      /\ espera.total \in Nat /\ espera.sinMirar \in 0 .. MaxSinMirar
      /\ espera.sinMirar \in Nat /\ espera.atras \in Nat
  BY TipoTiempo DEF SeInv
<1>1. PICK r \in 0 .. Rebote - 1, r0 \in 0 .. Rebote - 1, l \in 0 .. MaxSinMirar, n \in Int :
        Lleva(r, r0, l, n)
  BY <1>0 DEF EnPlazo
<1>3. PICK t \in Nat : t = Tics(sel.dwTime)
  BY <1>0, TicsDe
<1>4. PICK a : a = Avance(r, r0, l, n)
  OBVIOUS
<1>5. PICK q : q = IF n < r THEN r - n ELSE 0
  OBVIOUS
<1>6. PICK m : m = IF ctBase = 0 \/ n < r THEN 0 ELSE n - r
  OBVIOUS
<1>7. PICK l1 : l1 = IF ctBase = 0 THEN n ELSE l
  OBVIOUS
<1>8. /\ n <= MaxSinMirar /\ r - n < Rebote /\ ctLastTics - r + n >= 0
      /\ r <= r0 + espera.atras /\ r - n <= r0 + espera.atras /\ r <= ctLastTics
      /\ bios = Adelante(ctLastTics - r, n)
      /\ ctBase = 0 => ctLastTics = 0 /\ l = 0
      /\ a >= 0 /\ (a < t \/ a = 0) /\ a = espera.total - espera.atras - n + r - r0 - l
      /\ Cong(ctLastTics - ctBase, sel.plazo - t + a)
  <2>1. n <= espera.sinMirar
    BY <1>1 DEF Lleva
  <2>2. n <= MaxSinMirar
    BY <1>0, <2>1, Constantes
  <2> QED
    BY <1>1, <1>3, <1>4, <2>2 DEF Lleva, Avance
<1>9. /\ q <= ctLastTics' /\ bios' = ctLastTics' - q
      /\ ctBase = 0 => r = 0 /\ n >= 0 /\ ctBase' = n /\ ctLastTics' = n
      /\ Cong(ctLastTics' - ctBase', ctLastTics - ctBase + m)
  BY <1>0, <1>5, <1>6, <1>8, Otra
<1>10. RInv'
  BY <1>0, Primera
<1>11. /\ r \in Nat /\ r0 \in Nat /\ l \in Nat /\ a \in Int
  BY <1>0, <1>8, Constantes
<1>12. /\ q \in 0 .. Rebote - 1 /\ q <= r0 + espera.atras
       /\ m \in Int /\ m >= 0 /\ m <= MaxSinMirar
  BY <1>0, <1>5, <1>6, <1>8, <1>11, Constantes
<1>13. l1 \in 0 .. MaxSinMirar /\ (ctBase' = 0 => ctLastTics' = 0 /\ l1 = 0)
  <2>1. CASE ctBase = 0
    BY <1>7, <1>8, <1>9, <2>1, Constantes
  <2>2. CASE ctBase # 0
    <3>1. ctBase' # 0
      BY <2>2 DEF SinBase
    <3> QED
      BY <1>7, <2>2, <3>1
  <2> QED
    BY <2>1, <2>2
<1>14. a + m = espera.total - espera.atras + q - r0 - l1
  <2>1. CASE ctBase = 0
    BY <1>0, <1>5, <1>6, <1>7, <1>8, <1>9, <1>11, <2>1
  <2>2. CASE ctBase # 0
    BY <1>0, <1>5, <1>6, <1>7, <1>8, <1>11, <2>2
  <2> QED
    BY <2>1, <2>2
<1>15. a + m \in Nat /\ a + m <= t + MaxSinMirar
  BY <1>8, <1>11, <1>12, Constantes
<1>16. Cong(ctLastTics' - ctBase', sel.plazo - t + (a + m))
  <2>1. /\ ctLastTics - ctBase \in Int /\ ctLastTics' - ctBase' \in Int
        /\ sel.plazo - t + a \in Int /\ m \in Int
    BY <1>0, <1>10, <1>11, <1>12, Constantes DEF RInv
  <2>2. Cong(ctLastTics' - ctBase', (sel.plazo - t + a) + m)
    BY <1>8, <1>9, <2>1, Suma
  <2>3. (sel.plazo - t + a) + m = sel.plazo - t + (a + m)
    BY <1>0, <1>11, <1>12
  <2> QED
    BY <2>2, <2>3
<1> QED
  BY <1>3, <1>9, <1>12, <1>13, <1>14, <1>15, <1>16

(* The reading of the clock decides by the time that has passed. *)
LEMMA PasoReloj ==
  ASSUME SeInv, sel.fase = "mira", sel.retv = 0, sel.dwTime > 0, Clock,
         espera' = [espera EXCEPT !.sinMirar = 0, !.falsa = @ \/ SinBase],
         IF Vencido THEN Termina ELSE OtraVez
  PROVE  SeInv'
<1>0. /\ RInv /\ SeTipo
      /\ sel.dwTime \in Nat /\ sel.plazo \in Int /\ sel.dwTime \in Tiempos
      /\ espera.total \in Nat /\ espera.sinMirar \in 0 .. MaxSinMirar
      /\ espera.atras \in Nat /\ espera.falsa \in BOOLEAN
  BY TipoTiempo DEF SeInv
<1>1. RInv'
  BY <1>0, Primera
<1>2. PICK b \in BOOLEAN : b = (espera.falsa \/ SinBase)
  OBVIOUS
<1>3. /\ espera'.total = espera.total /\ espera'.sinMirar = 0
      /\ espera'.atras = espera.atras /\ espera'.falsa = b
      /\ espera' \in Esperas
  <2>1. espera' = [espera EXCEPT !.sinMirar = 0, !.falsa = b]
    BY <1>2
  <2>2. 0 \in 0 .. MaxSinMirar
    BY Constantes
  <2> QED
    BY <1>0, <2>1, <2>2 DEF SeTipo, Esperas
<1>4. /\ sel'.fase = IF Vencido THEN "fuera" ELSE "lee"
      /\ sel'.dwTime = sel.dwTime /\ sel'.plazo = sel.plazo /\ SeTipo'
  <2>1. CASE Vencido
    <3>1. sel' = [sel EXCEPT !.fase = "fuera", !.i = 1] /\ iOut' = iOut
      BY <2>1 DEF Termina
    <3>2. sel' \in [fase : Nombres \cup {"fuera", "mira"}, i : Int, retv : Int,
                    dwTime : {0} \cup Tiempos, plazo : 0 .. W - 1]
      <4>1. "fuera" \in Nombres \cup {"fuera", "mira"} /\ 1 \in Int /\ -1 \in Int
        OBVIOUS
      <4> QED
        BY <1>0, <3>1, <4>1, OtroSel
    <3> QED
      BY <1>0, <1>3, <2>1, <3>1, <3>2 DEF SeTipo
  <2>2. CASE ~Vencido
    <3>1. sel' = [sel EXCEPT !.fase = "lee"] /\ iOut' = Cero
      BY <2>2 DEF OtraVez
    <3>2. iOut' \in [Nombres -> Int]
      BY <3>1 DEF Cero
    <3>3. sel' \in [fase : Nombres \cup {"fuera", "mira"}, i : Int, retv : Int,
                    dwTime : {0} \cup Tiempos, plazo : 0 .. W - 1]
      BY <1>0, <3>1 DEF SeTipo, Nombres
    <3> QED
      BY <1>0, <1>3, <2>2, <3>1, <3>2, <3>3 DEF SeTipo
  <2> QED
    BY <2>1, <2>2
<1>5. CASE b
  BY <1>1, <1>3, <1>4, <1>5 DEF SeInv, EnTics
<1>6. CASE ~b
  <2>0. PICK t \in Nat : t = Tics(sel.dwTime) /\ 2 * t <= W
    BY <1>0, TicsDe
  <2>1. PICK q \in 0 .. Rebote - 1, r0 \in 0 .. Rebote - 1, l \in 0 .. MaxSinMirar, a \in Nat :
           /\ q <= r0 + espera.atras /\ q <= ctLastTics' /\ bios' = ctLastTics' - q
           /\ ctBase' = 0 => ctLastTics' = 0 /\ l = 0
           /\ a = espera.total - espera.atras + q - r0 - l
           /\ a <= t + MaxSinMirar
           /\ Cong(ctLastTics' - ctBase', sel.plazo - t + a)
    <3>1. ~espera.falsa /\ ~SinBase
      BY <1>2, <1>6
    <3>2. PICK q \in 0 .. Rebote - 1, r0 \in 0 .. Rebote - 1, l \in 0 .. MaxSinMirar, a \in Nat :
           /\ q <= r0 + espera.atras /\ q <= ctLastTics' /\ bios' = ctLastTics' - q
           /\ ctBase' = 0 => ctLastTics' = 0 /\ l = 0
           /\ a = espera.total - espera.atras + q - r0 - l
           /\ a <= Tics(sel.dwTime) + MaxSinMirar
           /\ Cong(ctLastTics' - ctBase', sel.plazo - Tics(sel.dwTime) + a)
      BY <3>1, Transcurre
    <3>3. a <= t + MaxSinMirar /\ Cong(ctLastTics' - ctBase', sel.plazo - t + a)
      BY <2>0, <3>2
    <3> QED
      BY <3>2, <3>3
  <2>2. Vencido <=> a >= t
    <3>1. ctLastTics' - ctBase' \in Int /\ Hora' = (ctLastTics' - ctBase') % W
      BY <1>1, Constantes DEF RInv, Hora
    <3>2. (((ctLastTics' - ctBase') % W) - sel.plazo) % W < W \div 2 <=> a >= t
      BY <1>0, <2>0, <2>1, <3>1, Comparacion
    <3> QED
      BY <3>1, <3>2 DEF Vencido
  <2>3. Tics(sel.dwTime)' = t
    BY <1>4, <2>0 DEF Tics
  <2>4. CASE Vencido
    <3>1. espera.total >= t /\ espera.total <= t + Demora + espera.atras
      BY <1>0, <2>0, <2>1, <2>2, <2>4, Constantes DEF Demora
    <3>2. EnTics'
      BY <1>3, <2>3, <3>1 DEF EnTics, Demora
    <3> QED
      BY <1>1, <1>4, <2>4, <3>2 DEF SeInv
  <2>5. CASE ~Vencido
    <3>1. Avance(q, r0, l, 0)' = a
      BY <1>0, <1>3, <2>1, Constantes DEF Avance
    <3>2. a >= 0 /\ a < t
      BY <2>0, <2>1, <2>2, <2>5
    <3>3. bios' = Adelante(ctLastTics' - q, 0)
      <4>1. ctLastTics' - q = bios' /\ bios' \in 0 .. DIA - 1
        BY <1>1, <2>1 DEF RInv
      <4> QED
        BY <4>1, AdelanteCero
    <3>4. /\ 0 <= 0 /\ q - 0 < Rebote /\ ctLastTics' - q + 0 >= 0
          /\ q - 0 <= r0 + espera.atras /\ 0 \in Int
      BY <1>0, <1>1, <2>1, Constantes DEF RInv
    <3>5. Lleva(q, r0, l, 0)'
      BY <1>3, <1>4, <2>1, <2>3, <3>1, <3>2, <3>3, <3>4 DEF Lleva
    <3>6. EnPlazo'
      BY <3>4, <3>5 DEF EnPlazo
    <3> QED
      BY <1>1, <1>4, <2>5, <3>6 DEF SeInv
  <2> QED
    BY <2>4, <2>5
<1> QED
  BY <1>5, <1>6

(* A tick: the counter goes on from where it was. *)
LEMMA PasoAvanza ==
  ASSUME SeInv, Avanza
  PROVE  SeInv'
<1>0. /\ RInv /\ SeTipo /\ sel.fase # "fuera" /\ sel.dwTime > 0
      /\ espera.total \in Nat /\ espera.sinMirar \in 0 .. MaxSinMirar
      /\ espera.sinMirar \in Nat /\ espera.atras \in Nat
  BY TipoTiempo DEF SeInv, Avanza
<1>1. /\ espera' = [espera EXCEPT !.total = @ + 1, !.sinMirar = @ + 1]
      /\ UNCHANGED <<iOut, sel>> /\ espera.sinMirar < MaxSinMirar
      /\ bios' = (bios + 1) % DIA /\ ctBase' = ctBase /\ ctLastTics' = ctLastTics
  BY DEF Avanza, Tictac
<1>2. bios \in 0 .. DIA - 1 /\ ctLastTics \in 0 .. DIA - 1
  BY <1>0 DEF RInv
<1>3. /\ espera'.total = espera.total + 1 /\ espera'.sinMirar = espera.sinMirar + 1
      /\ espera'.atras = espera.atras /\ espera'.falsa = espera.falsa
      /\ espera' \in Esperas
  <2>1. espera.total + 1 \in Nat /\ espera.sinMirar + 1 \in 0 .. MaxSinMirar
    BY <1>0, <1>1, Constantes
  <2> QED
    BY <1>0, <1>1, <2>1 DEF SeTipo, Esperas
<1>4. bios' = (IF bios + 1 = DIA THEN 0 ELSE bios + 1)
  <2>1. CASE bios + 1 = DIA
    <3>1. DIA % DIA = 0
      BY Constantes
    <3> QED
      BY <1>1, <2>1, <3>1
  <2>2. CASE bios + 1 # DIA
    <3>1. bios + 1 \in 0 .. DIA - 1
      BY <1>2, <2>2, Constantes
    <3>2. (bios + 1) % DIA = bios + 1
      BY <3>1, Constantes
    <3> QED
      BY <1>1, <2>2, <3>2
  <2> QED
    BY <2>1, <2>2
<1>5. RInv'
  <2>1. bios' \in 0 .. DIA - 1
    BY <1>2, <1>4, Constantes
  <2> QED
    BY <1>0, <1>1, <2>1 DEF RInv
<1>6. SeTipo'
  BY <1>0, <1>1, <1>3 DEF SeTipo
<1>7. ASSUME ~espera.falsa
      PROVE  EnPlazo'
  <2>1. PICK r \in 0 .. Rebote - 1, r0 \in 0 .. Rebote - 1, l \in 0 .. MaxSinMirar, n \in Int :
          Lleva(r, r0, l, n)
    BY <1>0, <1>7 DEF EnPlazo, SeInv
  <2>2. /\ n <= espera.sinMirar /\ r - n < Rebote /\ ctLastTics - r + n >= 0
        /\ r - n <= r0 + espera.atras /\ r <= ctLastTics
        /\ bios = Adelante(ctLastTics - r, n) /\ r \in Nat /\ r0 \in Nat
    BY <2>1, Constantes DEF Lleva
  <2>3. n + 1 \in Int /\ n + 1 <= espera.sinMirar + 1 /\ r - (n + 1) < Rebote
        /\ ctLastTics - r + (n + 1) >= 0 /\ r - (n + 1) <= r0 + espera.atras
    BY <1>0, <1>2, <2>2, Constantes
  <2>4. bios' = Adelante(ctLastTics - r, n + 1)
    BY <1>0, <1>1, <1>2, <1>4, <2>2, Constantes DEF Adelante
  <2>5. Avance(r, r0, l, n + 1)' = Avance(r, r0, l, n)
    BY <1>0, <1>3, <2>2, Constantes DEF Avance
  <2>6. Lleva(r, r0, l, n + 1)'
    BY <1>1, <1>3, <2>1, <2>3, <2>4, <2>5 DEF Lleva
  <2> QED
    BY <2>3, <2>6 DEF EnPlazo
<1> QED
  BY <1>0, <1>1, <1>3, <1>5, <1>6, <1>7 DEF SeInv

LEMMA OtroAtraso ==
  ASSUME SeTipo, NEW b \in Nat, NEW r \in 0 .. Rebote - 1, NEW r0 \in 0 .. Rebote - 1,
         NEW l \in 0 .. MaxSinMirar, NEW n \in Int, Lleva(r, r0, l, n),
         UNCHANGED <<sel, ctBase, ctLastTics>>,
         espera'.total = espera.total, espera'.sinMirar = espera.sinMirar,
         espera'.atras = espera.atras + b,
         r - (n - b) < Rebote, ctLastTics - r + (n - b) >= 0,
         bios' = Adelante(ctLastTics - r, n - b)
  PROVE  EnPlazo'
<1>0. /\ espera.total \in Nat /\ espera.sinMirar \in Nat /\ espera.atras \in Nat
      /\ r \in Nat /\ r0 \in Nat /\ l \in Nat /\ n - b \in Int
  BY TipoTiempo, Constantes
<1>1. /\ n <= espera.sinMirar /\ r <= r0 + espera.atras /\ r - n <= r0 + espera.atras
  BY DEF Lleva
<1>2. /\ n - b <= espera.sinMirar /\ r <= r0 + (espera.atras + b)
      /\ r - (n - b) <= r0 + (espera.atras + b)
  BY <1>0, <1>1
<1>3. Avance(r, r0, l, n - b)' = Avance(r, r0, l, n)
  BY <1>0 DEF Avance
<1>4. Lleva(r, r0, l, n - b)'
  BY <1>2, <1>3 DEF Lleva
<1> QED
  BY <1>0, <1>4 DEF EnPlazo

(* A step back of the counter, which is not going to be taken for          *)
(* midnight unless the clock is deceived.                                  *)
LEMMA PasoAtrasa ==
  ASSUME SeInv, NEW b \in 1 .. Rebote - 1, Atrasa(b)
  PROVE  SeInv'
<1>0. /\ RInv /\ SeTipo /\ sel.fase # "fuera" /\ sel.dwTime > 0
      /\ espera.total \in Nat /\ espera.sinMirar \in 0 .. MaxSinMirar
      /\ espera.sinMirar \in Nat /\ espera.atras \in Nat /\ espera.falsa \in BOOLEAN
  BY TipoTiempo DEF SeInv, Atrasa
<1>1. /\ UNCHANGED <<iOut, sel, ctBase, ctLastTics>>
      /\ b <= bios /\ bios' = bios - b /\ espera.atras + b <= MaxAtras
      /\ espera' = [espera EXCEPT
           !.atras = @ + b,
           !.falsa = @ \/ (ctLastTics - bios < Rebote /\ ctLastTics - bios' >= Rebote)]
  BY DEF Atrasa
<1>2. bios \in 0 .. DIA - 1 /\ ctLastTics \in 0 .. DIA - 1 /\ b \in Nat
  BY <1>0, Constantes DEF RInv
<1>3. PICK f \in BOOLEAN :
        f = (espera.falsa \/ (ctLastTics - bios < Rebote /\ ctLastTics - bios' >= Rebote))
  OBVIOUS
<1>4. /\ espera'.total = espera.total /\ espera'.sinMirar = espera.sinMirar
      /\ espera'.atras = espera.atras + b /\ espera'.falsa = f
      /\ espera' \in Esperas
  <2>1. espera' = [espera EXCEPT !.atras = @ + b, !.falsa = f]
    BY <1>1, <1>3
  <2>2. espera.atras + b \in 0 .. MaxAtras
    BY <1>0, <1>1, <1>2, Constantes
  <2> QED
    BY <1>0, <2>1, <2>2 DEF SeTipo, Esperas
<1>5. RInv'
  <2>1. bios' \in 0 .. DIA - 1
    BY <1>1, <1>2, Constantes
  <2> QED
    BY <1>0, <1>1, <2>1 DEF RInv
<1>6. SeTipo'
  BY <1>0, <1>1, <1>4 DEF SeTipo
<1>7. ASSUME ~f
      PROVE  EnPlazo'
  <2>1. ~espera.falsa /\ ~(ctLastTics - bios < Rebote /\ ctLastTics - bios' >= Rebote)
    BY <1>3, <1>7
  <2>2. PICK r \in 0 .. Rebote - 1, r0 \in 0 .. Rebote - 1, l \in 0 .. MaxSinMirar, n \in Int :
          Lleva(r, r0, l, n)
    BY <1>0, <2>1 DEF EnPlazo, SeInv
  <2>3. /\ n <= espera.sinMirar /\ r - n < Rebote /\ ctLastTics - r + n >= 0
        /\ r <= r0 + espera.atras /\ r - n <= r0 + espera.atras /\ r <= ctLastTics
        /\ bios = Adelante(ctLastTics - r, n) /\ r \in Nat /\ r0 \in Nat
    BY <2>2, Constantes DEF Lleva
  <2>4. CASE ctLastTics - r + n < DIA
    <3>1. bios = ctLastTics - r + n
      BY <2>3, <2>4 DEF Adelante
    <3>2. ctLastTics - bios < Rebote
      BY <1>2, <2>3, <3>1, Constantes
    <3>3. ctLastTics - (bios - b) < Rebote
      BY <1>1, <1>2, <2>1, <3>2, Constantes
    <3>4. r - (n - b) < Rebote /\ ctLastTics - r + (n - b) >= 0
      BY <1>1, <1>2, <2>3, <3>1, <3>3, Constantes
    <3>5. bios - b = Adelante(ctLastTics - r, n - b)
      BY <1>2, <2>3, <2>4, <3>1, Constantes DEF Adelante
    <3> QED
      BY <1>0, <1>1, <1>2, <1>4, <2>2, <3>4, <3>5, OtroAtraso
  <2>5. CASE ~(ctLastTics - r + n < DIA)
    <3>1. bios = ctLastTics - r + n - DIA
      BY <2>3, <2>5 DEF Adelante
    <3>2. ctLastTics - r + (n - b) >= DIA
      BY <1>1, <1>2, <2>3, <3>1, Constantes
    <3>3. r - (n - b) < Rebote /\ ctLastTics - r + (n - b) >= 0
      BY <1>2, <2>3, <3>2, Constantes
    <3>4. bios - b = Adelante(ctLastTics - r, n - b)
      BY <1>2, <2>3, <3>1, <3>2, Constantes DEF Adelante
    <3> QED
      BY <1>0, <1>1, <1>2, <1>4, <2>2, <3>3, <3>4, OtroAtraso
  <2> QED
    BY <2>4, <2>5
<1> QED
  BY <1>0, <1>1, <1>4, <1>5, <1>6, <1>7 DEF SeInv

LEMMA PasoEntretanto ==
  ASSUME SeInv, Entretanto
  PROVE  SeInv'
<1>1. /\ iOut' = Cero /\ bios' \in 0 .. DIA - 1 /\ UNCHANGED <<ctBase, ctLastTics>>
      /\ espera' = [total |-> 0, sinMirar |-> 0, atras |-> 0, falsa |-> FALSE]
      /\ sel' = [fase |-> "fuera", i |-> 1, retv |-> 0, dwTime |-> 0, plazo |-> 0]
  BY DEF Entretanto, Fuera, Nada
<1>2. RInv'
  BY <1>1 DEF SeInv, RInv
<1>3. SeTipo'
  <2>1. 0 \in 0 .. W - 1 /\ 0 \in 0 .. MaxSinMirar /\ 0 \in 0 .. MaxAtras
    BY Constantes
  <2>2. iOut' \in [Nombres -> Int]
    BY <1>1 DEF Cero
  <2> QED
    BY <1>1, <2>1, <2>2 DEF SeTipo, Esperas
<1>4. EnTics'
  BY <1>1 DEF EnTics
<1> QED
  BY <1>1, <1>2, <1>3, <1>4 DEF SeInv

(* A handle, or the end of a set: the time stands still. *)
LEMMA PasoPasada ==
  ASSUME SeInv, MiraUno \/ NoEsSocket \/ FinConjunto
  PROVE  SeInv'
<1>0. SeTipo /\ sel.fase # "fuera" /\ sel.fase \in Nombres
  BY DEF SeInv, MiraUno, NoEsSocket, FinConjunto, Nombres
<1>1. iOut[sel.fase] \in Int /\ sel.i \in Int /\ sel.retv \in Int
      /\ iOut \in [Nombres -> Int]
  BY <1>0 DEF SeTipo
<1>2. CASE MiraUno
  <2>1. /\ UNCHANGED <<reloj, espera>> /\ sel' = [sel EXCEPT !.i = @ + 1]
        /\ iOut' = iOut \/ iOut' = [iOut EXCEPT ![sel.fase] = @ + 1]
    BY <1>2 DEF MiraUno
  <2>2. iOut' \in [Nombres -> Int]
    BY <1>1, <2>1
  <2>3. SeTipo'
    BY <1>0, <1>1, <2>1, <2>2 DEF SeTipo
  <2>4. sel'.dwTime = sel.dwTime /\ sel'.plazo = sel.plazo /\ sel'.fase = sel.fase
    BY <1>0, <2>1 DEF SeTipo
  <2> QED
    BY <1>0, <2>1, <2>3, <2>4, SinTiempo
<1>3. CASE NoEsSocket
  <2>1. /\ UNCHANGED <<reloj, espera, iOut>>
        /\ sel' = [sel EXCEPT !.fase = "fuera", !.retv = -1]
    BY <1>3 DEF NoEsSocket
  <2>2. SeTipo'
    <3>1. sel' \in [fase : Nombres \cup {"fuera", "mira"}, i : Int, retv : Int,
                    dwTime : {0} \cup Tiempos, plazo : 0 .. W - 1]
      <4>1. "fuera" \in Nombres \cup {"fuera", "mira"} /\ 1 \in Int /\ -1 \in Int
        OBVIOUS
      <4> QED
        BY <1>0, <2>1, <4>1, OtroSel
    <3> QED
      BY <1>0, <2>1, <3>1 DEF SeTipo
  <2>3. /\ sel'.dwTime = sel.dwTime /\ sel'.plazo = sel.plazo /\ sel'.fase = "fuera"
        /\ sel'.retv = -1
    BY <1>0, <2>1 DEF SeTipo
  <2> QED
    BY <1>0, <2>1, <2>2, <2>3, SinTiempo
<1>4. CASE FinConjunto
  <2>1. /\ UNCHANGED <<reloj, espera, iOut>>
        /\ sel' = [sel EXCEPT !.fase = Sigue[@], !.i = 1, !.retv = @ + iOut[sel.fase]]
    BY <1>4 DEF FinConjunto
  <2>2. Sigue[sel.fase] \in Nombres \cup {"mira"} /\ Sigue[sel.fase] # "fuera"
    BY <1>0 DEF Nombres, Sigue
  <2>3. sel.retv + iOut[sel.fase] \in Int
    BY <1>1
  <2>4. SeTipo'
    <3>1. sel' \in [fase : Nombres \cup {"fuera", "mira"}, i : Int, retv : Int,
                    dwTime : {0} \cup Tiempos, plazo : 0 .. W - 1]
      <4>1. /\ Sigue[sel.fase] \in Nombres \cup {"fuera", "mira"} /\ 1 \in Int
            /\ sel' = [sel EXCEPT !.fase = Sigue[sel.fase], !.i = 1,
                                  !.retv = sel.retv + iOut[sel.fase]]
        BY <2>1, <2>2
      <4> QED
        BY <1>0, <2>3, <4>1, OtroSel
    <3> QED
      BY <1>0, <2>1, <3>1 DEF SeTipo
  <2>5. /\ sel'.dwTime = sel.dwTime /\ sel'.plazo = sel.plazo /\ sel'.fase # "fuera"
    BY <1>0, <2>1, <2>2 DEF SeTipo
  <2> QED
    BY <1>0, <2>1, <2>4, <2>5, SinTiempo
<1> QED
  BY <1>2, <1>3, <1>4

LEMMA PasoDecide ==
  ASSUME SeInv, Decide
  PROVE  SeInv'
<1>0. SeTipo /\ sel.fase = "mira"
  BY DEF SeInv, Decide
<1>1. CASE /\ sel.retv # 0 \/ sel.dwTime = 0
           /\ Termina /\ UNCHANGED <<reloj, espera>>
  <2>1. sel' = [sel EXCEPT !.fase = "fuera", !.i = 1] /\ iOut' = iOut
    BY <1>1 DEF Termina
  <2>2. SeTipo'
    <3>1. sel' \in [fase : Nombres \cup {"fuera", "mira"}, i : Int, retv : Int,
                    dwTime : {0} \cup Tiempos, plazo : 0 .. W - 1]
      <4>1. "fuera" \in Nombres \cup {"fuera", "mira"} /\ 1 \in Int /\ -1 \in Int
        OBVIOUS
      <4> QED
        BY <1>0, <2>1, <4>1, OtroSel
    <3> QED
      BY <1>0, <1>1, <2>1, <3>1 DEF SeTipo
  <2>3. /\ sel'.dwTime = sel.dwTime /\ sel'.plazo = sel.plazo /\ sel'.fase = "fuera"
        /\ sel'.retv = sel.retv
    BY <1>0, <2>1 DEF SeTipo
  <2> QED
    BY <1>0, <1>1, <2>2, <2>3, SinTiempo
<1>2. CASE /\ sel.retv = 0 /\ sel.dwTime = SinPlazo
           /\ OtraVez /\ UNCHANGED <<reloj, espera>>
  <2>1. sel' = [sel EXCEPT !.fase = "lee"] /\ iOut' = Cero
    BY <1>2 DEF OtraVez
  <2>2. SeTipo'
    <3>1. iOut' \in [Nombres -> Int]
      BY <2>1 DEF Cero
    <3> QED
      BY <1>0, <1>2, <2>1, <3>1 DEF SeTipo, Nombres
  <2>3. sel'.dwTime = sel.dwTime /\ sel'.plazo = sel.plazo /\ sel'.fase = "lee"
    BY <1>0, <2>1 DEF SeTipo
  <2> QED
    BY <1>0, <1>2, <2>2, <2>3, SinTiempo
<1>3. CASE /\ sel.retv = 0 /\ sel.dwTime > 0
           /\ Clock
           /\ IF Vencido THEN Termina ELSE OtraVez
           /\ espera' = [espera EXCEPT !.sinMirar = 0, !.falsa = @ \/ SinBase]
  BY <1>0, <1>3, PasoReloj
<1> QED
  BY <1>1, <1>2, <1>3 DEF Decide

LEMMA Inicio == SInit => SeInv
<1> SUFFICES ASSUME SInit PROVE SeInv
  OBVIOUS
<1>1. /\ iOut = Cero /\ InitReloj
      /\ espera = [total |-> 0, sinMirar |-> 0, atras |-> 0, falsa |-> FALSE]
      /\ sel = [fase |-> "fuera", i |-> 1, retv |-> 0, dwTime |-> 0, plazo |-> 0]
  BY DEF SInit, Fuera, Nada
<1>2. /\ 0 \in 0 .. W - 1 /\ 0 \in 0 .. MaxSinMirar /\ 0 \in 0 .. DIA - 1
      /\ 0 \in 0 .. MaxAtras
  BY Constantes
<1>3. RInv
  BY <1>1, <1>2 DEF InitReloj, RInv
<1>4. iOut \in [Nombres -> Int]
  BY <1>1 DEF Cero
<1>5. SeTipo
  BY <1>1, <1>2, <1>4 DEF SeTipo, Esperas
<1>6. EnTics
  BY <1>1 DEF EnTics
<1> QED
  BY <1>1, <1>3, <1>5, <1>6 DEF SeInv

LEMMA PasoSeleccion ==
  ASSUME SeInv, [SNext]_todo
  PROVE  SeInv'
<1>1. ASSUME UNCHANGED todo
      PROVE  SeInv'
  <2>1. UNCHANGED <<bios, ctBase, ctLastTics, espera, sel, iOut>>
    BY <1>1 DEF todo, slvars, reloj
  <2> QED
    BY <2>1 DEF SeInv, RInv, SeTipo, EnPlazo, Lleva, Avance, EnTics
<1>3. ASSUME NEW p \in Peticiones, NEW t \in Tiempos, Empieza(p, t)
      PROVE  SeInv'
  BY <1>3, PasoEmpieza
<1>4. ASSUME Paso
      PROVE  SeInv'
  BY <1>4, PasoPasada, PasoDecide DEF Paso
<1>5. ASSUME NEW e \in Eventos, Ocurre(e)
      PROVE  SeInv'
  <2>1. UNCHANGED <<reloj, espera, sel, iOut>> /\ sel.fase # "fuera"
    BY <1>5 DEF Ocurre
  <2>2. SeTipo'
    BY <2>1 DEF SeInv, SeTipo
  <2> QED
    BY <2>1, <2>2, SinTiempo
<1> QED
  BY <1>1, <1>3, <1>4, <1>5, PasoAvanza, PasoAtrasa, PasoEntretanto DEF SNext

(***************************************************************************)
(* With nothing found select() comes back less than a tick before its      *)
(* time, and never goes on past it by more than Demora and what the        *)
(* counter of the BIOS went back, whatever the midnights, for any timeout  *)
(* in milliseconds and any modulus, while the clock is not deceived.       *)
(***************************************************************************)
THEOREM PlazoDelReloj == SSpec => []PlazoJusto
<1>1. SeInv /\ [SNext]_todo => SeInv'
  BY PasoSeleccion
<1> QED
  BY Inicio, <1>1, SeInvJusto, PTL DEF SSpec
-----------------------------------------------------------------------------
(***************************************************************************)
(* The sets of select().  Of each set the first handles, as many as the    *)
(* pass has looked at, are sorted out; the rest is as it was given.        *)
(***************************************************************************)
Manijas == Descriptores \cup {STDIN}

(* Ready now, or before the kernel failed. *)
Estuvo(s, n) == Listo(s, n, eventos) \/ Listo(s, n, eventos \ {<<s, "mal">>})

Siempre(s, n) == Listo(s, n, alPasar) /\ Listo(s, n, eventos)

(* The places of those kept, in order, among the first fin. *)
EnSitio(n, fin, g) ==
  /\ g \in [1 .. iOut[n] -> 1 .. fin]
  /\ \A k, l \in 1 .. iOut[n] : k < l => g[k] < g[l]
  /\ \A k \in 1 .. iOut[n] : fds[n][k] = pedido[n][g[k]]

Compactado(n, fin) ==
  /\ iOut[n] \in 0 .. fin /\ fin <= Len(pedido[n])
  /\ Len(fds[n]) = Len(pedido[n])
  /\ \A k \in 1 .. Len(pedido[n]) : k > iOut[n] => fds[n][k] = pedido[n][k]
  /\ \E g : EnSitio(n, fin, g)
  /\ \A k \in 1 .. iOut[n], s \in Manijas : fds[n][k] = s => Estuvo(s, n)
  /\ \A p \in 1 .. fin, s \in Manijas :
       pedido[n][p] = s =>
         /\ s = STDIN \/ s \in DOMAIN psScbs
         /\ Siempre(s, n) => \E k \in 1 .. iOut[n] : fds[n][k] = s

(* How many of the set n this pass has looked at, and what it has counted. *)
Previos == [lee |-> {}, escribe |-> {"lee"}, excep |-> {"lee", "escribe"},
            mira |-> Nombres]

Vistos(n) ==
  IF sel.fase = n THEN sel.i - 1
  ELSE IF n \in Previos[sel.fase] THEN Len(pedido[n]) ELSE 0

Contado ==
  /\ sel.fase = "lee" => sel.retv = 0
  /\ sel.fase = "escribe" => sel.retv = iOut.lee
  /\ sel.fase = "excep" => sel.retv = iOut.lee + iOut.escribe
  /\ sel.fase = "mira" => sel.retv = iOut.lee + iOut.escribe + iOut.excep

RfTipo ==
  /\ psScbs \in [DOMAIN psScbs -> Scb]
  /\ bios \in Int /\ ctBase \in Int /\ ctLastTics \in Int
  /\ sel \in [fase : Nombres \cup {"fuera", "mira"}, i : Nat \ {0}, retv : Int,
              dwTime : {0} \cup Tiempos, plazo : Int]
  /\ iOut \in [Nombres -> Nat]
  /\ fds \in [Nombres -> Seq(Manijas)] /\ pedido \in [Nombres -> Seq(Manijas)]

EnCurso ==
  /\ alPasar \subseteq eventos
  /\ sel.fase = "mira" => sel.i = 1
  /\ \A n \in Nombres : Compactado(n, Vistos(n))
  /\ Contado

RfInv == RfTipo /\ (sel.fase # "fuera" => EnCurso)

(* Neither a peek nor what happens makes ready less than there was.        *)
LEMMA SigueListo ==
  ASSUME NEW n \in Nombres, NEW s,
         s = STDIN \/ (/\ s \in DOMAIN psScbs /\ s # STDIN
                       /\ psScbs'[s].bType = psScbs[s].bType
                       /\ Tiene(s, "LISTEN")' <=> Tiene(s, "LISTEN")),
         eventos \subseteq eventos', alPasar \subseteq eventos, alPasar' = alPasar
  PROVE  /\ Estuvo(s, n) => Estuvo(s, n)'
         /\ Siempre(s, n)' => Siempre(s, n)
<1> DEFINE mal == <<s, "mal">>
<1> USE DEF Listo
<1>1. CASE n = "lee"
  BY <1>1 DEF Estuvo, Siempre
<1>2. CASE n = "escribe"
  BY <1>2 DEF Estuvo, Siempre
<1>3. CASE n = "excep"
  BY <1>3 DEF Estuvo, Siempre
<1> QED
  BY <1>1, <1>2, <1>3 DEF Nombres

LEMMA TiemposEnteros == Tiempos \subseteq Int
BY SeleccionAssumption DEF SinPlazo

(* What a peek does to the table is not seen by the rest of select().      *)
Quieta ==
  /\ DOMAIN psScbs' = DOMAIN psScbs
  /\ \A s \in DOMAIN psScbs : /\ psScbs'[s].bType = psScbs[s].bType
                              /\ Tiene(s, "LISTEN")' <=> Tiene(s, "LISTEN")

LEMMA AsomaQuieta ==
  ASSUME RfTipo, NEW s, Asoma(s)
  PROVE  Quieta /\ psScbs' \in [DOMAIN psScbs' -> Scb]
<1>1. CASE UNCHANGED psScbs
  BY <1>1 DEF Quieta, RfTipo, Tiene
<1>2. CASE /\ s \in DOMAIN psScbs
           /\ psScbs' = [psScbs EXCEPT ![s].wFlags = @ \cup {"BOUND", "CONNECTED"}]
  <2>1. psScbs \in [DOMAIN psScbs -> Scb]
    BY DEF RfTipo
  <2>2. ASSUME NEW t \in DOMAIN psScbs
        PROVE  /\ psScbs'[t] \in Scb
               /\ psScbs'[t].bType = psScbs[t].bType
               /\ "LISTEN" \in psScbs'[t].wFlags <=> "LISTEN" \in psScbs[t].wFlags
    <3>1. psScbs[t] \in Scb
      BY <2>1
    <3>2. CASE t = s
      <4>1. psScbs'[t] = [psScbs[t] EXCEPT !.wFlags = @ \cup {"BOUND", "CONNECTED"}]
        BY <1>2, <3>2
      <4> QED
        BY <3>1, <4>1 DEF Scb, Banderas
    <3>3. CASE t # s
      BY <1>2, <3>1, <3>3
    <3> QED
      BY <3>2, <3>3
  <2>3. DOMAIN psScbs' = DOMAIN psScbs /\ psScbs' \in [DOMAIN psScbs -> Scb]
    <3>1. psScbs' = [t \in DOMAIN psScbs |-> psScbs'[t]]
      BY <1>2
    <3> QED
      BY <2>2, <3>1
  <2> QED
    BY <2>2, <2>3 DEF Quieta, Tiene
<1> QED
  BY <1>1, <1>2 DEF Asoma, GetReadCount, Marca, svars, tabla

(* A set that a step does not touch. *)
LEMMA SigueCompactado ==
  ASSUME NEW n \in Nombres, NEW fin \in Nat, Compactado(n, fin), RfTipo, RfTipo',
         fds'[n] = fds[n], iOut'[n] = iOut[n], pedido' = pedido,
         Quieta \/ psScbs' = psScbs,
         eventos \subseteq eventos', alPasar \subseteq eventos, alPasar' = alPasar
  PROVE  Compactado(n, fin)'
<1>1. ASSUME NEW s, s = STDIN \/ s \in DOMAIN psScbs
      PROVE  /\ s = STDIN \/ s \in DOMAIN psScbs'
             /\ Estuvo(s, n) => Estuvo(s, n)'
             /\ Siempre(s, n)' => Siempre(s, n)
  BY <1>1, SigueListo DEF Quieta, Tiene
<1>2. PICK g : EnSitio(n, fin, g)
  BY DEF Compactado
<1>3. EnSitio(n, fin, g)'
  BY <1>2 DEF EnSitio
<1>4. /\ iOut'[n] \in 0 .. fin /\ fin <= Len(pedido'[n])
      /\ Len(fds'[n]) = Len(pedido'[n])
      /\ \A k \in 1 .. Len(pedido'[n]) : k > iOut'[n] => fds'[n][k] = pedido'[n][k]
  BY DEF Compactado
<1>5. ASSUME NEW k \in 1 .. iOut'[n], NEW s \in Manijas, fds'[n][k] = s
      PROVE  Estuvo(s, n)'
  <2>1. g[k] \in 1 .. fin /\ pedido[n][g[k]] = s
    BY <1>2, <1>5 DEF EnSitio
  <2>2. (s = STDIN \/ s \in DOMAIN psScbs) /\ Estuvo(s, n)
    BY <1>5, <2>1 DEF Compactado
  <2> QED
    BY <1>1, <2>2
<1>6. ASSUME NEW p \in 1 .. fin, NEW s \in Manijas, pedido'[n][p] = s
      PROVE  /\ s = STDIN \/ s \in DOMAIN psScbs'
             /\ Siempre(s, n)' => \E k \in 1 .. iOut'[n] : fds'[n][k] = s
  <2>1. /\ s = STDIN \/ s \in DOMAIN psScbs
        /\ Siempre(s, n) => \E k \in 1 .. iOut[n] : fds[n][k] = s
    BY <1>6 DEF Compactado
  <2> QED
    BY <1>1, <2>1
<1> QED
  BY <1>3, <1>4, <1>5, <1>6 DEF Compactado

(* A set of which nothing has been looked at. *)
LEMMA SinMirar ==
  ASSUME NEW n \in Nombres, fds'[n] = pedido'[n], iOut'[n] = 0, RfTipo'
  PROVE  Compactado(n, 0)'
<1>1. EnSitio(n, 0, [k \in 1 .. 0 |-> 0])'
  BY DEF EnSitio
<1>2. Len(pedido'[n]) \in Nat
  BY DEF RfTipo
<1> QED
  BY <1>1, <1>2 DEF Compactado

LEMMA PasoMiraUno ==
  ASSUME RfInv, MiraUno
  PROVE  RfInv'
<1>a. RfTipo /\ EnCurso
  BY DEF RfInv, MiraUno, Nombres
<1>b. PICK n \in Nombres, i \in Nat \ {0} : n = sel.fase /\ i = sel.i
  BY <1>a DEF MiraUno, RfTipo
<1>c. PICK m \in Nat : m = iOut[n]
  BY <1>a DEF RfTipo
<1>0. RfTipo /\ EnCurso /\ i <= Len(fds[n]) /\ n = sel.fase /\ i = sel.i /\ m = iOut[n]
  BY <1>a, <1>b, <1>c DEF MiraUno
<1>1. /\ Compactado(n, i - 1) /\ Len(fds[n]) = Len(pedido[n]) /\ i - 1 \in Nat
      /\ m <= i - 1 /\ Len(pedido[n]) \in Nat
      /\ fds[n] \in Seq(Manijas) /\ pedido[n] \in Seq(Manijas)
  <2>1. fds[n] \in Seq(Manijas) /\ pedido[n] \in Seq(Manijas)
    BY <1>0 DEF RfTipo
  <2>2. Vistos(n) = i - 1 /\ Compactado(n, Vistos(n))
    BY <1>0 DEF Vistos, EnCurso
  <2>3. Compactado(n, i - 1) /\ Len(pedido[n]) \in Nat
    BY <2>1, <2>2
  <2> QED
    BY <1>0, <2>1, <2>3 DEF Compactado
<1>d. /\ i <= Len(pedido[n]) /\ m < i
      /\ \A k \in 1 .. Len(pedido[n]) : k > m => fds[n][k] = pedido[n][k]
      /\ \A k \in 1 .. m, t \in Manijas : fds[n][k] = t => Estuvo(t, n)
      /\ \A p \in 1 .. i - 1, t \in Manijas :
           pedido[n][p] = t =>
             /\ t = STDIN \/ t \in DOMAIN psScbs
             /\ Siempre(t, n) => \E k \in 1 .. m : fds[n][k] = t
  <2>1. i <= Len(pedido[n]) /\ m < i
    BY <1>0, <1>1
  <2> QED
    BY <1>0, <1>1, <2>1, Zenon DEF Compactado
<1>2. PICK s \in Manijas : s = fds[n][i] /\ s = pedido[n][i] /\ s = Mirado
  <2>1. fds[n][i] = pedido[n][i] /\ pedido[n][i] \in Manijas
    BY <1>0, <1>1, <1>d
  <2>2. Mirado = fds[n][i]
    BY <1>0 DEF Mirado
  <2> QED
    BY <2>1, <2>2
<1>3. /\ s = STDIN \/ s \in DOMAIN psScbs
      /\ Quieta /\ psScbs' \in [DOMAIN psScbs' -> Scb]
      /\ UNCHANGED <<bios, ctBase, ctLastTics, eventos, pedido, alPasar>>
      /\ sel' = [sel EXCEPT !.i = i + 1]
  BY <1>0, <1>2, AsomaQuieta DEF MiraUno, reloj
<1>4. /\ sel' \in [fase : Nombres \cup {"fuera", "mira"}, i : Nat \ {0}, retv : Int,
                   dwTime : {0} \cup Tiempos, plazo : Int]
      /\ sel'.fase = n /\ sel'.i = i + 1 /\ sel'.retv = sel.retv
  <2>1. i + 1 \in Nat \ {0}
    OBVIOUS
  <2> QED
    BY <1>0, <1>3, <2>1 DEF RfTipo
<1>5. \/ /\ Listo(s, n, eventos)
         /\ iOut' = [iOut EXCEPT ![n] = m + 1]
         /\ fds' = [fds EXCEPT ![n][m + 1] = s]
      \/ /\ ~Listo(s, n, eventos)
         /\ UNCHANGED <<iOut, fds>>
  <2>1. IF Listo(s, n, eventos)
        THEN /\ iOut' = [iOut EXCEPT ![n] = m + 1]
             /\ fds' = [fds EXCEPT ![n][iOut'[n]] = s]
        ELSE UNCHANGED <<iOut, fds>>
    BY <1>0, <1>2 DEF MiraUno
  <2>2. iOut' = [iOut EXCEPT ![n] = m + 1] => iOut'[n] = m + 1
    BY <1>0 DEF RfTipo
  <2> QED
    BY <2>1, <2>2, Zenon
<1>6. /\ iOut' \in [Nombres -> Nat] /\ fds' \in [Nombres -> Seq(Manijas)]
      /\ \A o \in Nombres : o # n => iOut'[o] = iOut[o] /\ fds'[o] = fds[o]
  <2>1. CASE UNCHANGED <<iOut, fds>>
    BY <1>0, <2>1 DEF RfTipo
  <2>2. CASE /\ iOut' = [iOut EXCEPT ![n] = m + 1]
             /\ fds' = [fds EXCEPT ![n][m + 1] = s]
    <3>1. [fds[n] EXCEPT ![m + 1] = s] \in Seq(Manijas)
      BY <1>0, <1>1, <1>2
    <3> QED
      BY <1>0, <2>2, <3>1 DEF RfTipo
  <2> QED
    BY <1>5, <2>1, <2>2
<1>7. RfTipo'
  BY <1>0, <1>3, <1>4, <1>6 DEF RfTipo
<1>8. ASSUME NEW o \in Nombres, o # n
      PROVE  Compactado(o, Vistos(o))'
  <2>1. PICK fin : fin = Vistos(o)
    OBVIOUS
  <2>2. fin \in Nat /\ Vistos(o)' = fin
    BY <1>0, <1>3, <1>4, <1>8, <2>1 DEF Vistos, Previos, RfTipo, Nombres
  <2>3. Compactado(o, fin)
    BY <1>0, <2>1 DEF EnCurso
  <2>4. Compactado(o, fin)'
    BY <1>0, <1>3, <1>6, <1>7, <1>8, <2>2, <2>3, SigueCompactado DEF EnCurso
  <2> QED
    BY <2>2, <2>4
<1>9. Compactado(n, i)'
  <2>0. PICK g : EnSitio(n, i - 1, g)
    BY <1>1 DEF Compactado
  <2>1. ASSUME NEW t, t = STDIN \/ t \in DOMAIN psScbs
        PROVE  /\ t = STDIN \/ t \in DOMAIN psScbs'
               /\ Estuvo(t, n) => Estuvo(t, n)'
               /\ Siempre(t, n)' => Siempre(t, n)
    BY <1>0, <1>3, <2>1, SigueListo DEF Quieta, Tiene, EnCurso
  <2>2. CASE ~Listo(s, n, eventos) /\ UNCHANGED <<iOut, fds>>
    <3>1. EnSitio(n, i, g)'
      BY <1>1, <1>3, <2>0, <2>2 DEF EnSitio
    <3>2. ASSUME NEW k \in 1 .. m, NEW t \in Manijas, fds[n][k] = t
          PROVE  Estuvo(t, n)'
      <4>1. g[k] \in 1 .. i - 1 /\ pedido[n][g[k]] = t
        BY <1>0, <2>0, <3>2 DEF EnSitio
      <4> QED
        BY <1>d, <2>1, <3>2, <4>1
    <3>3. ASSUME NEW p \in 1 .. i, NEW t \in Manijas, pedido[n][p] = t
          PROVE  /\ t = STDIN \/ t \in DOMAIN psScbs'
                 /\ Siempre(t, n)' => \E k \in 1 .. m : fds[n][k] = t
      <4>1. CASE p = i
        BY <1>2, <1>3, <2>1, <2>2, <3>3, <4>1 DEF Siempre
      <4>2. CASE p # i
        <5>1. p \in 1 .. i - 1
          BY <1>1, <4>2
        <5> QED
          BY <1>d, <2>1, <3>3, <5>1
      <4> QED
        BY <4>1, <4>2
    <3> QED
      BY <1>0, <1>1, <1>3, <2>2, <3>1, <3>2, <3>3 DEF Compactado
  <2>3. CASE /\ Listo(s, n, eventos)
             /\ iOut' = [iOut EXCEPT ![n] = m + 1]
             /\ fds' = [fds EXCEPT ![n][m + 1] = s]
    <3> DEFINE h == [k \in 1 .. m + 1 |-> IF k = m + 1 THEN i ELSE g[k]]
    <3>1. /\ iOut'[n] = m + 1
          /\ fds'[n] = [fds[n] EXCEPT ![m + 1] = s]
      BY <1>0, <2>3 DEF RfTipo
    <3>2. /\ Len(fds'[n]) = Len(pedido[n]) /\ fds'[n][m + 1] = s
          /\ \A k \in 1 .. Len(pedido[n]) : k # m + 1 => fds'[n][k] = fds[n][k]
      <4>1. PICK f \in Seq(Manijas) : f = fds[n] /\ Len(f) = Len(pedido[n])
        BY <1>1
      <4>2. m + 1 \in 1 .. Len(f) /\ Len(f) \in Nat
        BY <1>d, <4>1
      <4>3. /\ Len([f EXCEPT ![m + 1] = s]) = Len(f)
            /\ [f EXCEPT ![m + 1] = s][m + 1] = s
            /\ \A k \in 1 .. Len(f) : k # m + 1 => [f EXCEPT ![m + 1] = s][k] = f[k]
        BY <4>1, <4>2
      <4> QED
        BY <3>1, <4>1, <4>3
    <3>3. EnSitio(n, i, h)'
      <4>1. g \in [1 .. m -> 1 .. i - 1] /\ h \in [1 .. m + 1 -> 1 .. i]
        <5>1. g \in [1 .. m -> 1 .. i - 1]
          BY <1>0, <2>0 DEF EnSitio
        <5>2. ASSUME NEW k \in 1 .. m + 1
              PROVE  (IF k = m + 1 THEN i ELSE g[k]) \in 1 .. i
          BY <5>1
        <5> QED
          BY <5>1, <5>2
      <4>2. ASSUME NEW k \in 1 .. m + 1, NEW l \in 1 .. m + 1, k < l
            PROVE  h[k] < h[l]
          <5>1. \A x, y \in 1 .. m : x < y => g[x] < g[y]
            BY <1>0, <2>0 DEF EnSitio
          <5>2. k \in 1 .. m /\ h[k] = g[k] /\ g[k] < i
            BY <4>1, <4>2
          <5>3. CASE l = m + 1
            BY <5>2, <5>3
          <5>4. CASE l # m + 1
            BY <4>2, <5>1, <5>2, <5>4
          <5> QED
            BY <5>3, <5>4
      <4>3. ASSUME NEW k \in 1 .. m + 1
            PROVE  fds'[n][k] = pedido[n][h[k]]
          <5>1. CASE k = m + 1
            BY <1>2, <3>2, <5>1
          <5>2. CASE k # m + 1
            <6>1. k \in 1 .. m /\ h[k] = g[k] /\ k \in 1 .. Len(pedido[n])
              BY <1>1, <1>d, <5>2
            <6>2. fds[n][k] = pedido[n][g[k]]
              BY <1>0, <2>0, <6>1 DEF EnSitio
            <6> QED
              BY <3>2, <5>2, <6>1, <6>2
          <5> QED
            BY <5>1, <5>2
      <4> HIDE DEF h
      <4> QED
        BY <1>3, <3>1, <4>1, <4>2, <4>3 DEF EnSitio
    <3> HIDE DEF h
    <3>4. ASSUME NEW k \in 1 .. m + 1, NEW t \in Manijas, fds'[n][k] = t
          PROVE  Estuvo(t, n)'
      <4>1. CASE k = m + 1
        BY <1>3, <2>1, <2>3, <3>2, <3>4, <4>1 DEF Estuvo
      <4>2. CASE k # m + 1
        <5>1. k \in 1 .. m /\ fds[n][k] = t
          <6>1. k \in 1 .. m /\ k \in 1 .. Len(pedido[n])
            BY <1>1, <1>d, <4>2
          <6> QED
            BY <3>2, <3>4, <4>2, <6>1
        <5> QED
          <6>1. g[k] \in 1 .. i - 1 /\ pedido[n][g[k]] = t
            BY <1>0, <2>0, <5>1 DEF EnSitio
          <6> QED
            BY <1>d, <2>1, <5>1, <6>1
      <4> QED
        BY <4>1, <4>2
    <3>5. ASSUME NEW p \in 1 .. i, NEW t \in Manijas, pedido[n][p] = t
          PROVE  /\ t = STDIN \/ t \in DOMAIN psScbs'
                 /\ Siempre(t, n)' => \E k \in 1 .. m + 1 : fds'[n][k] = t
      <4>1. CASE p = i
        <5>1. t = s /\ m + 1 \in 1 .. m + 1 /\ fds'[n][m + 1] = t
          <6>1. t = s
            BY <1>2, <3>5, <4>1
          <6>2. m + 1 \in 1 .. m + 1
            OBVIOUS
          <6> QED
            BY <3>2, <6>1, <6>2
        <5>2. t = STDIN \/ t \in DOMAIN psScbs'
          BY <1>3, <2>1, <5>1
        <5> QED
          BY <5>1, <5>2
      <4>2. CASE p # i
        <5>1. p \in 1 .. i - 1
          BY <1>1, <4>2
        <5>2. /\ t = STDIN \/ t \in DOMAIN psScbs
              /\ Siempre(t, n) => \E k \in 1 .. m : fds[n][k] = t
          BY <1>d, <3>5, <5>1
        <5>3. \A k \in 1 .. m : k \in 1 .. m + 1 /\ fds'[n][k] = fds[n][k]
          <6>1. \A k \in 1 .. m : /\ k \in 1 .. m + 1 /\ k # m + 1
                                 /\ k \in 1 .. Len(pedido[n])
            BY <1>1, <1>d
          <6> QED
            BY <3>2, <6>1
        <5>4. t = STDIN \/ t \in DOMAIN psScbs'
          BY <2>1, <5>2
        <5>5. Siempre(t, n)' => Siempre(t, n)
          BY <2>1, <5>2
        <5>6. ASSUME Siempre(t, n)
              PROVE  \E k \in 1 .. m + 1 : fds'[n][k] = t
          <6>1. PICK k \in 1 .. m : fds[n][k] = t
            BY <5>2, <5>6
          <6>2. k \in 1 .. m + 1 /\ fds'[n][k] = t
            BY <5>3, <6>1
          <6> QED
            BY <6>2
        <5> QED
          BY <5>4, <5>5, <5>6
      <4> QED
        BY <4>1, <4>2
    <3>6. /\ m + 1 \in 0 .. i /\ i <= Len(pedido[n])
          /\ \A k \in 1 .. Len(pedido[n]) : k > m + 1 => fds'[n][k] = pedido[n][k]
      BY <1>1, <1>d, <3>2
    <3> QED
      BY <1>3, <3>1, <3>2, <3>3, <3>4, <3>5, <3>6 DEF Compactado
  <2> QED
    BY <1>5, <2>2, <2>3
<1>10. Contado'
  <2>1. sel'.fase = sel.fase /\ n = sel.fase
    BY <1>0, <1>4
  <2> QED
    BY <1>0, <1>4, <1>6, <2>1 DEF EnCurso, Contado, Nombres
<1>11. EnCurso'
  <2>1. Vistos(n)' = i
    BY <1>0, <1>4 DEF Vistos
  <2>2. ASSUME NEW o \in Nombres
        PROVE  Compactado(o, Vistos(o))'
    BY <1>8, <1>9, <2>1
  <2> QED
    BY <1>0, <1>3, <1>4, <1>10, <2>2 DEF EnCurso, Nombres
<1> QED
  BY <1>7, <1>11 DEF RfInv

LEMMA PasoFinConjunto ==
  ASSUME RfInv, FinConjunto
  PROVE  RfInv'
<1>a. RfTipo /\ EnCurso
  BY DEF RfInv, FinConjunto, Nombres
<1>b. PICK n \in Nombres, i \in Nat \ {0} : n = sel.fase /\ i = sel.i
  BY <1>a DEF FinConjunto, RfTipo
<1>0. /\ RfTipo /\ EnCurso /\ n = sel.fase /\ i = sel.i /\ i > Len(fds[n])
      /\ UNCHANGED <<psScbs, bios, ctBase, ctLastTics, fds, iOut, eventos, pedido, alPasar>>
      /\ sel' = [sel EXCEPT !.fase = Sigue[n], !.i = 1, !.retv = sel.retv + iOut[n]]
  BY <1>a, <1>b DEF FinConjunto, tabla, svars, reloj
<1>1. /\ Sigue[n] \in Nombres \cup {"mira"} /\ Sigue[n] # n
      /\ Previos[Sigue[n]] = Previos[n] \cup {n} /\ Sigue[n] \notin Previos[n]
  BY DEF Sigue, Nombres, Previos
<1>2. PICK r \in Int : r = sel.retv + iOut[n]
  BY <1>0 DEF RfTipo
<1>3. /\ sel' \in [fase : Nombres \cup {"fuera", "mira"}, i : Nat \ {0}, retv : Int,
                   dwTime : {0} \cup Tiempos, plazo : Int]
      /\ sel'.fase = Sigue[n] /\ sel'.i = 1 /\ sel'.retv = sel.retv + iOut[n]
  <2>1. sel' = [sel EXCEPT !.fase = Sigue[n], !.i = 1, !.retv = r]
    BY <1>0, <1>2
  <2>2. Sigue[n] \in Nombres \cup {"fuera", "mira"} /\ 1 \in Nat \ {0}
    BY <1>1
  <2> QED
    BY <1>0, <1>2, <2>1, <2>2 DEF RfTipo
<1>4. RfTipo'
  BY <1>0, <1>3 DEF RfTipo
<1>5. ASSUME NEW o \in Nombres
      PROVE  Compactado(o, Vistos(o))'
  <2>1. PICK fin : fin = Vistos(o)
    OBVIOUS
  <2>2. Compactado(o, fin)
    BY <1>0, <2>1 DEF EnCurso
  <2>3. fin \in Nat /\ Vistos(o)' = fin
    <3>1. Len(pedido[o]) \in Nat
      BY <1>0 DEF RfTipo
    <3>2. CASE o = n
      <4>1. fin = i - 1 /\ fin <= Len(pedido[n]) /\ Len(fds[n]) = Len(pedido[n])
        BY <1>0, <2>1, <2>2, <3>2 DEF Vistos, Compactado
      <4>2. fin = Len(pedido[n])
        BY <1>0, <3>1, <3>2, <4>1
      <4> QED
        BY <1>0, <1>1, <1>3, <3>1, <3>2, <4>2 DEF Vistos
    <3>3. CASE o # n
      BY <1>0, <1>1, <1>3, <2>1, <3>1, <3>3 DEF Vistos
    <3> QED
      BY <3>2, <3>3
  <2>4. Compactado(o, fin)'
    BY <1>0, <1>4, <2>2, <2>3, SigueCompactado DEF EnCurso
  <2> QED
    BY <2>3, <2>4
<1>6. Contado'
  <2>1. iOut.lee \in Nat /\ iOut.escribe \in Nat /\ iOut.excep \in Nat /\ iOut' = iOut
    BY <1>0 DEF RfTipo, Nombres
  <2>2. CASE n = "lee"
    BY <1>0, <1>3, <2>1, <2>2 DEF EnCurso, Contado, Sigue
  <2>3. CASE n = "escribe"
    BY <1>0, <1>3, <2>1, <2>3 DEF EnCurso, Contado, Sigue
  <2>4. CASE n = "excep"
    BY <1>0, <1>3, <2>1, <2>4 DEF EnCurso, Contado, Sigue
  <2> QED
    BY <2>2, <2>3, <2>4 DEF Nombres
<1>7. EnCurso'
  BY <1>0, <1>3, <1>5, <1>6 DEF EnCurso
<1> QED
  BY <1>4, <1>7 DEF RfInv

(* The clock gives numbers.                                                *)
LEMMA RelojEntero ==
  ASSUME RfTipo, Clock
  PROVE  /\ bios' \in Int /\ ctBase' \in Int /\ ctLastTics' \in Int
         /\ Hora' \in Int /\ \A t \in Int : (Hora' + t) % W \in Int
<1>1. W \in Nat /\ W > 0 /\ DIA \in Nat
  BY Constantes
<1>2. Base \in Int /\ (Base - DIA) % W \in Int
  <2>1. Base \in Int
    BY DEF RfTipo, Base
  <2>2. Base - DIA \in Int
    BY <1>1, <2>1
  <2> QED
    BY <1>1, <2>1, <2>2
<1>3. bios' \in Int /\ ctBase' \in Int /\ ctLastTics' \in Int
  BY <1>2 DEF RfTipo, Clock
<1>4. ctLastTics' - ctBase' \in Int
  BY <1>3
<1>5. Hora' \in Int
  BY <1>1, <1>4 DEF Hora
<1> QED
  BY <1>1, <1>3, <1>5

LEMMA PasoEmpiezaFiel ==
  ASSUME RfInv, NEW p \in Peticiones, NEW t \in Tiempos, Empieza(p, t)
  PROVE  RfInv'
<1>0. /\ RfTipo
      /\ fds' = p /\ pedido' = p /\ Clock /\ iOut' = Cero
      /\ alPasar' = eventos /\ UNCHANGED <<psScbs, eventos>>
  BY DEF RfInv, Empieza, tabla, svars
<1>1. p \in [Nombres -> Seq(Manijas)]
  BY PeticionesAssumption DEF Nombres, Manijas
<1>2. (IF t = SinPlazo THEN 0 ELSE (Hora' + Tics(t)) % W) \in Int
  <2>1. t # SinPlazo => Tics(t) \in Int
    <3>1. t = SinPlazo \/ t \in Nat
      BY SeleccionAssumption, Constantes
    <3>2. t \in Nat => Tics(t) \in Nat
      BY TicsDe
    <3> QED
      BY <3>1, <3>2
  <2> QED
    BY <1>0, <2>1, RelojEntero
<1>3. /\ sel' \in [fase : Nombres \cup {"fuera", "mira"}, i : Nat \ {0}, retv : Int,
                   dwTime : {0} \cup Tiempos, plazo : Int]
      /\ sel'.fase = "lee" /\ sel'.i = 1 /\ sel'.retv = 0
  <2> DEFINE z == IF t = SinPlazo THEN 0 ELSE (Hora' + Tics(t)) % W
  <2>1. sel' = [fase |-> "lee", i |-> 1, retv |-> 0, dwTime |-> t, plazo |-> z]
    BY DEF Empieza
  <2> HIDE DEF z
  <2> QED
    BY <1>2, <2>1 DEF z, Nombres
<1>4. RfTipo'
  <2>1. iOut' \in [Nombres -> Nat]
    BY <1>0 DEF Cero
  <2> QED
    BY <1>0, <1>1, <1>3, <2>1, RelojEntero DEF RfTipo
<1>5. ASSUME NEW o \in Nombres
      PROVE  Compactado(o, Vistos(o))'
  <2>1. Vistos(o)' = 0
    BY <1>3 DEF Vistos, Previos
  <2>2. iOut'[o] = 0 /\ fds'[o] = pedido'[o]
    BY <1>0 DEF Cero
  <2>3. Compactado(o, 0)'
    BY <1>4, <2>2, SinMirar
  <2> QED
    BY <2>1, <2>3
<1>6. EnCurso'
  BY <1>0, <1>3, <1>5 DEF EnCurso, Contado
<1> QED
  BY <1>4, <1>6 DEF RfInv

LEMMA PasoDecideFiel ==
  ASSUME RfInv, Decide
  PROVE  RfInv'
<1>0. /\ RfTipo /\ EnCurso /\ sel.fase = "mira" /\ sel.i = 1
      /\ UNCHANGED <<psScbs, eventos, pedido>>
      /\ Clock \/ UNCHANGED reloj
  BY DEF RfInv, EnCurso, Decide, tabla, svars
<1>1. bios' \in Int /\ ctBase' \in Int /\ ctLastTics' \in Int
  BY <1>0, RelojEntero DEF reloj, RfTipo
<1>2. CASE Termina
  <2>1. /\ sel' = [sel EXCEPT !.fase = "fuera", !.i = 1]
        /\ fds' = [n \in Nombres |-> SubSeq(fds[n], 1, iOut[n])] /\ iOut' = iOut
    BY <1>2 DEF Termina
  <2>2. fds' \in [Nombres -> Seq(Manijas)]
    <3>1. ASSUME NEW n \in Nombres
          PROVE  SubSeq(fds[n], 1, iOut[n]) \in Seq(Manijas)
      <4>1. fds[n] \in Seq(Manijas) /\ iOut[n] \in Nat
        BY <1>0 DEF RfTipo
      <4>2. iOut[n] <= Len(fds[n])
        <5>1. PICK fin : fin = Vistos(n)
          OBVIOUS
        <5>2. Compactado(n, fin) /\ fin = Len(pedido[n])
          BY <1>0, <5>1 DEF EnCurso, Vistos, Previos, Nombres
        <5> QED
          BY <4>1, <5>2 DEF Compactado
      <4> QED
        BY <4>1, <4>2
    <3> QED
      BY <2>1, <3>1
  <2>3. /\ sel' \in [fase : Nombres \cup {"fuera", "mira"}, i : Nat \ {0}, retv : Int,
                     dwTime : {0} \cup Tiempos, plazo : Int]
        /\ sel'.fase = "fuera"
    BY <1>0, <2>1 DEF RfTipo
  <2> QED
    BY <1>0, <1>1, <2>1, <2>2, <2>3 DEF RfInv, RfTipo
<1>3. CASE OtraVez /\ sel.retv = 0
  <2>1. sel' = [sel EXCEPT !.fase = "lee"] /\ iOut' = Cero /\ alPasar' = eventos /\ fds' = fds
    BY <1>3 DEF OtraVez
  <2>2. /\ sel' \in [fase : Nombres \cup {"fuera", "mira"}, i : Nat \ {0}, retv : Int,
                     dwTime : {0} \cup Tiempos, plazo : Int]
        /\ sel'.fase = "lee" /\ sel'.i = 1 /\ sel'.retv = 0
    BY <1>0, <1>3, <2>1 DEF RfTipo, Nombres
  <2>3. RfTipo'
    <3>1. iOut' \in [Nombres -> Nat]
      BY <2>1 DEF Cero
    <3> QED
      BY <1>0, <1>1, <2>1, <2>2, <3>1 DEF RfTipo
  <2>4. iOut.lee = 0 /\ iOut.escribe = 0 /\ iOut.excep = 0
    <3>1. iOut.lee \in Nat /\ iOut.escribe \in Nat /\ iOut.excep \in Nat
      BY <1>0 DEF RfTipo, Nombres
    <3> QED
      BY <1>0, <1>3, <3>1 DEF EnCurso, Contado
  <2>5. ASSUME NEW o \in Nombres
        PROVE  Compactado(o, Vistos(o))'
    <3>1. Vistos(o)' = 0
      BY <2>2 DEF Vistos, Previos
    <3>2. iOut'[o] = 0 /\ iOut[o] = 0
      BY <2>1, <2>4 DEF Cero, Nombres
    <3>3. fds'[o] = pedido'[o]
      <4>1. fds[o] \in Seq(Manijas) /\ pedido[o] \in Seq(Manijas)
        BY <1>0 DEF RfTipo
      <4>2. PICK fin : fin = Vistos(o)
        OBVIOUS
      <4>3. Compactado(o, fin)
        BY <1>0, <4>2 DEF EnCurso
      <4>4. /\ Len(fds[o]) = Len(pedido[o])
            /\ \A k \in 1 .. Len(pedido[o]) : fds[o][k] = pedido[o][k]
        BY <3>2, <4>3 DEF Compactado
      <4>5. fds[o] = pedido[o]
        BY <4>1, <4>4
      <4> QED
        BY <1>0, <2>1, <4>5
    <3>4. Compactado(o, 0)'
      BY <2>3, <3>2, <3>3, SinMirar
    <3> QED
      BY <3>1, <3>4
  <2>6. EnCurso'
    BY <1>0, <2>1, <2>2, <2>5 DEF EnCurso, Contado
  <2> QED
    BY <2>3, <2>6 DEF RfInv
<1> QED
  BY <1>2, <1>3 DEF Decide

LEMMA InicioFiel == SInit => RfInv
<1> SUFFICES ASSUME SInit PROVE RfInv
  OBVIOUS
<1>1. psScbs \in [DOMAIN psScbs -> Scb]
  BY PeticionesAssumption DEF SInit
<1>2. fds \in [Nombres -> Seq(Manijas)] /\ pedido \in [Nombres -> Seq(Manijas)]
  BY DEF SInit, SinFds
<1>3. iOut \in [Nombres -> Nat]
  BY DEF SInit, Cero
<1>4. bios \in Int /\ ctBase \in Int /\ ctLastTics \in Int
  BY Constantes DEF SInit, InitReloj
<1>5. /\ sel \in [fase : Nombres \cup {"fuera", "mira"}, i : Nat \ {0}, retv : Int,
                  dwTime : {0} \cup Tiempos, plazo : Int]
      /\ sel.fase = "fuera"
  BY DEF SInit, Fuera
<1> QED
  BY <1>1, <1>2, <1>3, <1>4, <1>5 DEF RfInv, RfTipo

LEMMA PasoFiel ==
  ASSUME RfInv, [SNext]_todo
  PROVE  RfInv'
<1>1. ASSUME NEW p \in Peticiones, NEW t \in Tiempos, Empieza(p, t)
      PROVE  RfInv'
  BY <1>1, PasoEmpiezaFiel
<1>2. CASE NoEsSocket
  <2>1. /\ sel' = [sel EXCEPT !.fase = "fuera", !.retv = -1]
        /\ UNCHANGED <<psScbs, bios, ctBase, ctLastTics, fds, iOut, pedido>>
    BY <1>2 DEF NoEsSocket, tabla, svars, reloj
  <2>2. /\ sel' \in [fase : Nombres \cup {"fuera", "mira"}, i : Nat \ {0}, retv : Int,
                     dwTime : {0} \cup Tiempos, plazo : Int]
        /\ sel'.fase = "fuera"
    <3>1. -1 \in Int /\ "fuera" \in Nombres \cup {"fuera", "mira"}
      OBVIOUS
    <3>2. PICK r \in Int : r = -1
      BY <3>1
    <3>3. sel' = [sel EXCEPT !.fase = "fuera", !.retv = r]
      BY <2>1, <3>2
    <3> QED
      BY <3>1, <3>3 DEF RfInv, RfTipo
  <2> QED
    BY <2>1, <2>2 DEF RfInv, RfTipo
<1>3. CASE /\ UNCHANGED <<psScbs, fds, iOut, sel, pedido, alPasar>>
           /\ eventos \subseteq eventos'
           /\ bios' \in Int /\ UNCHANGED <<ctBase, ctLastTics>>
  <2>1. RfTipo'
    BY <1>3 DEF RfInv, RfTipo
  <2>2. ASSUME sel.fase # "fuera"
        PROVE  EnCurso'
    <3>0. EnCurso /\ RfTipo
      BY <2>2 DEF RfInv
    <3>1. ASSUME NEW o \in Nombres
          PROVE  Compactado(o, Vistos(o))'
      <4>1. PICK fin : fin = Vistos(o)
        OBVIOUS
      <4>2. Vistos(o)' = fin
        BY <1>3, <4>1 DEF Vistos
      <4>3. Compactado(o, fin)
        BY <3>0, <4>1 DEF EnCurso
      <4>4. fin \in Nat
        <5>1. Len(pedido[o]) \in Nat
          BY <3>0 DEF RfTipo
        <5> QED
          BY <3>0, <4>1, <5>1 DEF Vistos, RfTipo
      <4>5. Compactado(o, fin)'
        BY <1>3, <2>1, <3>0, <4>3, <4>4, SigueCompactado DEF EnCurso
      <4> QED
        BY <4>2, <4>5
    <3> QED
      BY <1>3, <3>0, <3>1 DEF EnCurso, Contado
  <2> QED
    BY <1>3, <2>1, <2>2 DEF RfInv
<1>4. Avanza => bios' \in Int
  <2>1. bios \in Int /\ DIA \in Nat /\ DIA > 0
    BY RelojAssumption DEF RfInv, RfTipo
  <2> QED
    BY <2>1 DEF Avanza, Tictac
<1>5. CASE Entretanto
  <2>1. /\ fds' = SinFds /\ pedido' = SinFds /\ iOut' = Cero /\ sel' = Fuera
        /\ bios' \in Int /\ UNCHANGED <<psScbs, ctBase, ctLastTics>>
    BY <1>5, Constantes DEF Entretanto, tabla, svars
  <2>2. fds' \in [Nombres -> Seq(Manijas)] /\ pedido' \in [Nombres -> Seq(Manijas)]
    BY <2>1 DEF SinFds
  <2>3. iOut' \in [Nombres -> Nat]
    BY <2>1 DEF Cero
  <2>4. /\ sel' \in [fase : Nombres \cup {"fuera", "mira"}, i : Nat \ {0}, retv : Int,
                     dwTime : {0} \cup Tiempos, plazo : Int]
        /\ sel'.fase = "fuera"
    BY <2>1 DEF Fuera
  <2> QED
    BY <2>1, <2>2, <2>3, <2>4 DEF RfInv, RfTipo
<1>7. ASSUME NEW b \in 1 .. Rebote - 1, Atrasa(b)
      PROVE  /\ UNCHANGED <<psScbs, fds, iOut, sel, eventos, pedido, alPasar>>
             /\ bios' \in Int /\ UNCHANGED <<ctBase, ctLastTics>>
  <2>1. bios \in Int /\ b \in Int
    BY Constantes DEF RfInv, RfTipo
  <2> QED
    BY <1>7, <2>1 DEF Atrasa, tabla, svars
<1>6. \/ Avanza \/ UNCHANGED todo \/ \E e \in Eventos : Ocurre(e)
      \/ \E b \in 1 .. Rebote - 1 : Atrasa(b)
      => /\ UNCHANGED <<psScbs, fds, iOut, sel, pedido, alPasar>>
         /\ eventos \subseteq eventos'
         /\ bios' \in Int /\ UNCHANGED <<ctBase, ctLastTics>>
  BY <1>4, <1>7 DEF Avanza, Ocurre, Tictac, todo, tabla, svars, slvars, reloj, RfInv, RfTipo
<1> QED
  BY <1>1, <1>2, <1>3, <1>5, <1>6, PasoMiraUno, PasoFinConjunto, PasoDecideFiel
    DEF SNext, Paso

(* What select() returns is faithful to what it was given and to what was  *)
(* ready, for any tables, sets, timeouts and events: each set comes back   *)
(* compacted to a subsequence of itself, with what was ready, with nothing *)
(* missing that was ready all through the last pass, and retv is the       *)
(* number of all of it.                                                    *)
THEOREM SiempreRespuestaFiel == SSpec => RespuestaFiel
<1>1. ASSUME RfInv, [SNext]_todo, Vuelve, sel'.retv >= 0
      PROVE  /\ sel'.retv = Len(fds'.lee) + Len(fds'.escribe) + Len(fds'.excep)
             /\ \A n \in Nombres :
                  /\ Subsecuencia(fds'[n], pedido[n])
                  /\ \A s \in ToSet(fds'[n]) : \/ Listo(s, n, eventos)
                                              \/ Listo(s, n, eventos \ {<<s, "mal">>})
                  /\ \A s \in ToSet(pedido[n]) :
                       Listo(s, n, alPasar) /\ Listo(s, n, eventos) => s \in ToSet(fds'[n])
  <2>0. RfTipo /\ EnCurso
    BY <1>1 DEF RfInv, Vuelve
  <2>1. Decide /\ Termina
    <3>1. sel.fase # "fuera" /\ sel'.fase = "fuera" /\ sel'.retv # -1
      BY <1>1 DEF Vuelve
    <3>2. ~MiraUno /\ ~NoEsSocket
      BY <2>0, <3>1 DEF MiraUno, NoEsSocket, RfTipo
    <3>3. ~FinConjunto
      <4>1. sel.fase \in Nombres => Sigue[sel.fase] # "fuera"
        BY DEF Nombres, Sigue
      <4> QED
        BY <2>0, <3>1, <4>1 DEF FinConjunto, RfTipo
    <3>4. ~OtraVez
      BY <2>0, <3>1 DEF OtraVez, RfTipo
    <3>5. ~Avanza /\ ~Entretanto /\ ~UNCHANGED todo /\ \A e \in Eventos : ~Ocurre(e)
      BY <3>1 DEF Avanza, Entretanto, Ocurre, todo, slvars
    <3>8. \A b \in 1 .. Rebote - 1 : ~Atrasa(b)
      BY <3>1 DEF Atrasa
    <3>6. \A p \in Peticiones, t \in Tiempos : ~Empieza(p, t)
      BY <3>1 DEF Empieza
    <3>7. Decide
      BY <1>1, <3>2, <3>3, <3>5, <3>6, <3>8 DEF SNext, Paso
    <3> QED
      BY <3>4, <3>7 DEF Decide
  <2>2. /\ sel.fase = "mira" /\ sel'.retv = sel.retv
        /\ fds' = [n \in Nombres |-> SubSeq(fds[n], 1, iOut[n])]
    BY <2>0, <2>1 DEF Decide, Termina, RfTipo
  <2>3. ASSUME NEW n \in Nombres
        PROVE  /\ fds[n] \in Seq(Manijas) /\ pedido[n] \in Seq(Manijas)
               /\ Compactado(n, Len(pedido[n]))
               /\ fds'[n] \in Seq(Manijas) /\ Len(fds'[n]) = iOut[n]
               /\ iOut[n] \in Nat
               /\ \A k \in 1 .. iOut[n] : fds'[n][k] = fds[n][k]
    <3>1. fds[n] \in Seq(Manijas) /\ pedido[n] \in Seq(Manijas) /\ iOut[n] \in Nat
      BY <2>0 DEF RfTipo
    <3>2. Compactado(n, Vistos(n)) /\ Vistos(n) = Len(pedido[n])
      BY <2>0, <2>2 DEF EnCurso, Vistos, Previos, Nombres
    <3>3. Compactado(n, Len(pedido[n]))
      BY <3>2
    <3>4. iOut[n] <= Len(fds[n])
      BY <3>1, <3>3 DEF Compactado
    <3>5. fds'[n] = SubSeq(fds[n], 1, iOut[n])
      BY <2>2
    <3> QED
      BY <3>1, <3>3, <3>4, <3>5
  <2>4. sel'.retv = Len(fds'.lee) + Len(fds'.escribe) + Len(fds'.excep)
    BY <2>0, <2>2, <2>3 DEF EnCurso, Contado, Nombres
  <2>5. ASSUME NEW n \in Nombres
        PROVE  Subsecuencia(fds'[n], pedido[n])
    <3>1. PICK g : EnSitio(n, Len(pedido[n]), g)
      BY <2>3 DEF Compactado
    <3>2. DOMAIN fds'[n] = 1 .. iOut[n] /\ DOMAIN pedido[n] = 1 .. Len(pedido[n])
      BY <2>3
    <3> QED
      BY <2>3, <3>1, <3>2 DEF EnSitio, Subsecuencia
  <2>6. ASSUME NEW n \in Nombres, NEW s \in ToSet(fds'[n])
        PROVE  Listo(s, n, eventos) \/ Listo(s, n, eventos \ {<<s, "mal">>})
    <3>1. PICK k \in 1 .. iOut[n] : fds'[n][k] = s /\ fds[n][k] = s
      BY <2>3 DEF ToSet
    <3>2. s \in Manijas
      BY <2>3, <3>1
    <3> QED
      BY <2>3, <3>1, <3>2 DEF Compactado, Estuvo
  <2>7. ASSUME NEW n \in Nombres, NEW s \in ToSet(pedido[n]),
               Listo(s, n, alPasar), Listo(s, n, eventos)
        PROVE  s \in ToSet(fds'[n])
    <3>1. PICK p \in 1 .. Len(pedido[n]) : pedido[n][p] = s
      BY <2>3 DEF ToSet
    <3>2. s \in Manijas /\ Siempre(s, n)
      BY <2>3, <2>7, <3>1 DEF Siempre
    <3>3. PICK k \in 1 .. iOut[n] : fds[n][k] = s
      BY <2>3, <3>1, <3>2 DEF Compactado
    <3>4. k \in DOMAIN fds'[n] /\ fds'[n][k] = s
      BY <2>3, <3>3
    <3> QED
      BY <3>4 DEF ToSet
  <2> QED
    BY <2>4, <2>5, <2>6, <2>7
<1>2. RfInv /\ [SNext]_todo =>
        [Vuelve /\ sel'.retv >= 0 =>
           /\ sel'.retv = Len(fds'.lee) + Len(fds'.escribe) + Len(fds'.excep)
           /\ \A n \in Nombres :
                /\ Subsecuencia(fds'[n], pedido[n])
                /\ \A s \in ToSet(fds'[n]) : \/ Listo(s, n, eventos)
                                            \/ Listo(s, n, eventos \ {<<s, "mal">>})
                /\ \A s \in ToSet(pedido[n]) :
                     Listo(s, n, alPasar) /\ Listo(s, n, eventos) => s \in ToSet(fds'[n])]_todo
  BY <1>1
<1>3. RfInv /\ [SNext]_todo => RfInv'
  BY PasoFiel
<1> QED
  BY InicioFiel, <1>2, <1>3, PTL DEF SSpec, RespuestaFiel
=============================================================================
