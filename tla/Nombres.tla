------------------------------ MODULE Nombres ------------------------------
(***************************************************************************)
(* The names of the BSD layer, bsdsock/socket.c: getaddrinfo() and         *)
(* freeaddrinfo(), gethostname() and gethostbyname(), with the searches of *)
(* Servicios and the conversions of Direcciones.  External: the resolver   *)
(* of the kernel, which may fail at any time, and the heap.                *)
(*                                                                         *)
(* Hints out of range are refused and left out; a name has a digit-only    *)
(* form, its number.                                                       *)
(***************************************************************************)
EXTENDS Servicios

CONSTANTS
  Nodos,       (* host names, to the families they have addresses of      *)
  Anfitrion,   (* the name of this host                                   *)
  Pedidos,     (* what clients ask of getaddrinfo                         *)
  Textos,      (* the texts given to inet_addr()                          *)
  Direccion6   (* the addresses given to inet_ntop()                      *)

Familias == {"INET", "INET6"}

(* num: the service if it is a number, Cerrado if it is a name. *)
Peticiones ==
  [nodo : DOMAIN Nodos \cup {Nadie}, servicio : STRING, num : Nat \cup {Cerrado},
   familia : Familias \cup {"UNSPEC"}, tipo : {"tcp", "udp", Nadie},
   proto : {"tcp", "udp", Nadie}, pasivo : BOOLEAN]

ASSUME NombresAssumption ==
  /\ Nodos \in [DOMAIN Nodos -> SUBSET Familias]
  /\ Anfitrion \in DOMAIN Nodos /\ Nadie \notin DOMAIN Nodos
  /\ Pedidos \subseteq Peticiones
  /\ Textos \subseteq Seq(Nat) \ {<<>>}

VARIABLES
  lista,      (* what getaddrinfo() gave, until freeaddrinfo()             *)
  retorno,    (* history: the last getaddrinfo() and what it returned      *)
  hostname,   (* _szHostname                                               *)
  phe,        (* the static host entry: its name, and whose address it has *)
  convierte   (* the last conversion: its argument and its result          *)

nmvars == <<srvars, lista, retorno, hostname, phe, convierte>>
info   == <<lista, retorno>>
host   == <<hostname, phe>>

Sin  == [res |-> "nada"]
Nada == [nombre |-> Nadie, de |-> Nadie]

NInit ==
  /\ ServInit
  /\ lista = <<>> /\ retorno = Sin
  /\ hostname = Nadie /\ phe = Nada
  /\ convierte = [f |-> "nada"]
-----------------------------------------------------------------------------
(***************************************************************************)
(* getaddrinfo().  A request p is a node or Nadie, a service (a name, a    *)
(* number or Nadie), a family or "UNSPEC", a protocol or Nadie, of the     *)
(* hints and of the socket type, and AI_PASSIVE.                           *)
(***************************************************************************)

(* abUse[], in the order of the list. *)
Clases == << <<"INET", "tcp">>, <<"INET", "udp">>, <<"INET6", "tcp">>, <<"INET6", "udp">> >>

(* Socket type and protocol, which imply each other or contradict. *)
Contradice(p) == p.tipo # Nadie /\ p.proto # Nadie /\ p.tipo # p.proto
Protocolo(p)  == IF p.tipo # Nadie THEN p.tipo ELSE p.proto

ConServicio(p) == p.servicio # Nadie

(* getservbyname() is asked: the service is a name. *)
Consulta(p) == ConServicio(p) /\ ~Contradice(p) /\ p.num \notin 1 .. WORD - 1

Servicio(p, proto) ==
  [de |-> "services", por |-> "nombre", nombre |-> p.servicio, num |-> 0, proto |-> proto]

Linea(p, proto) == IF Consulta(p) THEN Hallables(archivo, Servicio(p, proto)) ELSE {0}

(* What answers a request: the families for which GetAddressInfo() gives   *)
(* an address of the node (external), and for each protocol the line that  *)
(* getservbyname() gives, 0 if none.                                       *)
Respuestas(p) ==
  [familias : SUBSET IF p.nodo = Nadie THEN {} ELSE Nodos[p.nodo],
   tcp : Linea(p, "tcp"), udp : Linea(p, "udp")]

(* Port of the service for a protocol, in the order of the net: a number   *)
(* in range, or that of the line that was found; Cerrado if none.          *)
Puerto(p, proto, responde) ==
  IF Protocolo(p) \notin {Nadie, proto} THEN Cerrado
  ELSE IF p.num \in 1 .. WORD - 1 THEN htons(p.num)
  ELSE IF responde[proto] = 0 THEN Cerrado ELSE htons(archivo[responde[proto]].num)

(* awPort[]: of INET_TCP and INET_UDP, whatever the family. *)
PuertoDe(p, c, responde) == Puerto(p, c[2], responde)

Pedida(p, fam) == p.familia \in {"UNSPEC", fam}

ConFamiliaSiempre(p, fam, responde) == (* mutant: FL_FAM without the answer *)
  Pedida(p, fam)

(* FL_FAM: the family has an address, of the node or of this host. *)
ConFamilia(p, fam, responde) ==
  Pedida(p, fam) /\ (p.nodo = Nadie \/ fam \in responde.familias)

(* abUse[i] > FL_FAM.  FL_PROTO and FL_FAM are both needed with a service; *)
(* FL_NONE alone is enough without one.                                    *)
SeUsa(p, c, responde) ==
  IF ConServicio(p) THEN Puerto(p, c[2], responde) # Cerrado /\ ConFamilia(p, c[1], responde)
  ELSE TRUE

(* The address is that of the family, or is left at zero. *)
Entrada(p, c, responde) ==
  [familia |-> c[1],
   proto   |-> IF ConServicio(p) THEN c[2] ELSE Nadie,
   puerto  |-> IF ConServicio(p) THEN PuertoDe(p, c, responde) ELSE 0,
   dir     |-> IF ~ConFamilia(p, c[1], responde) THEN "cero"
               ELSE IF p.nodo # Nadie THEN p.nodo
               ELSE IF p.pasivo THEN "cero" ELSE "loopback"]

(* A turn of the loop over abUse[]. *)
Uso(p, c, responde) ==
  IF SeUsa(p, c, responde) THEN <<Entrada(p, c, responde)>> ELSE <<>>

Resultado(p, responde) ==
  Uso(p, Clases[1], responde) \o Uso(p, Clases[2], responde)
    \o Uso(p, Clases[3], responde) \o Uso(p, Clases[4], responde)

Falla(res) == retorno' = [res |-> res] /\ UNCHANGED lista

(* If calloc() fails, what it had taken is freed; with res null, the call  *)
(* succeeds and nobody has the list, which is lost (line 1194).            *)
getaddrinfo(p, responde) ==
  /\ busca = Fuera /\ lista = <<>>
  /\ LET r == Resultado(p, responde) IN
     \/ p.nodo = Nadie /\ ~ConServicio(p) /\ Falla("EAI_NONAME")
     \/ /\ p.nodo # Nadie \/ ConServicio(p)
        /\ Contradice(p) /\ Falla("EAI_BADHINTS")
     \/ /\ p.nodo # Nadie \/ ConServicio(p)
        /\ ~Contradice(p)
        /\ \/ /\ ConServicio(p)
              /\ \A proto \in {"tcp", "udp"} : Puerto(p, proto, responde) = Cerrado
              /\ Falla("EAI_SERVICE")
           \/ /\ ConServicio(p) => \E proto \in {"tcp", "udp"} : Puerto(p, proto, responde) # Cerrado
              /\ \/ r = <<>> /\ Falla("EAI_FAIL")
                 \/ r # <<>> /\ \E res \in {"EAI_MEMORY", "0 sin lista"} : Falla(res)
                 \/ /\ r # <<>> /\ lista' = r
                    /\ retorno' = [pide |-> p, res |-> "0", responde |-> responde]
  /\ IF Consulta(p) THEN leido' = [linea |-> 0, puerto |-> 0] /\ hallado' = FALSE
                    ELSE UNCHANGED <<leido, hallado>>
  /\ UNCHANGED <<archivo, pos, busca, host, convierte>>

(* A search of its own does not come back. *)
getaddrinfoNoVuelve(p) ==
  /\ busca = Fuera /\ lista = <<>> /\ Consulta(p)
  /\ \E proto \in {"tcp", "udp"} :
       Protocolo(p) \in {Nadie, proto} /\ Colgable(archivo, Servicio(p, proto))
  /\ Cuelga(0)
  /\ UNCHANGED <<archivo, info, host, convierte>>

freeaddrinfo ==
  /\ busca = Fuera /\ lista # <<>>
  /\ lista' = <<>> /\ retorno' = Sin
  /\ UNCHANGED <<srvars, host, convierte>>
-----------------------------------------------------------------------------
(***************************************************************************)
(* The name and the address of a host.                                     *)
(***************************************************************************)
gethostname ==
  /\ busca = Fuera
  /\ hostname' = Anfitrion
  /\ UNCHANGED <<srvars, info, phe, convierte>>

(* This host's own name is answered with the kernel's address, or with     *)
(* what was there if the kernel does not give it; any other with what the  *)
(* resolver gives, 0 if it fails.                                          *)
gethostbyname(n, ok) ==
  /\ busca = Fuera
  /\ phe' = [nombre |-> n,
            de |-> IF ok THEN n ELSE IF n = hostname THEN phe.de ELSE Nadie]
  /\ UNCHANGED <<srvars, info, hostname, convierte>>
-----------------------------------------------------------------------------
(* Conversions touch nothing else, and are made before all other calls and *)
(* forgotten; a list is nobody's but the client's, and is freed before any *)
(* other call; nothing reads the host entry but its own functions, which   *)
(* are called last.                                                        *)
Convierte ==
  /\ busca = Fuera /\ leido.linea = 0 /\ retorno = Sin /\ phe = Nada /\ hostname = Nadie
  /\ \/ \E t \in Textos :
          convierte' = [f |-> "inet_addr", arg |-> t, res |-> inet_addr(t)]
     \/ \E d \in Direccion6 :
          convierte' = [f |-> "inet_ntop", arg |-> d, res |-> inet_ntop(d)]
  /\ UNCHANGED <<srvars, info, host>>

Olvida ==
  /\ convierte.f # "nada"
  /\ convierte' = [f |-> "nada"]
  /\ UNCHANGED <<srvars, info, host>>

NNext ==
  \/ /\ convierte.f = "nada"
     /\ \/ /\ lista = <<>> /\ phe = Nada /\ ServNext
           /\ UNCHANGED <<info, host, convierte>>
        \/ phe = Nada /\ \E p \in Pedidos : \E r \in Respuestas(p) : getaddrinfo(p, r)
        \/ phe = Nada /\ \E p \in Pedidos : getaddrinfoNoVuelve(p)
        \/ freeaddrinfo
        \/ lista = <<>> /\ gethostname
        \/ lista = <<>> /\ \E n \in DOMAIN Nodos, ok \in BOOLEAN : gethostbyname(n, ok)
        \/ Convierte
  \/ Olvida

NSpec == NInit /\ [][NNext]_nmvars
-----------------------------------------------------------------------------
Campo(S) == S \cup {Nadie}

TypeOK ==
  /\ archivo \in Archivos /\ pos \in Cerrado .. Len(archivo)
  /\ busca \in Buscados \cup {Fuera, Colgada}
  /\ leido \in [linea : 0 .. Len(archivo), puerto : 0 .. WORD - 1]
  /\ hallado \in BOOLEAN
  /\ lista \in Seq([familia : Familias, proto : Campo({"tcp", "udp"}), puerto : 0 .. WORD - 1,
                     dir : DOMAIN Nodos \cup {"cero", "loopback"}])
  /\ hostname \in Campo({Anfitrion})
  /\ phe \in [nombre : Campo(DOMAIN Nodos), de : Campo(DOMAIN Nodos)]

(* A search that comes back has closed the file, and gives the first entry *)
(* that it is for, in the order of the net if it is a port, or nothing if  *)
(* there is none before a line that does not parse.  But it may stop       *)
(* sooner, at an entry of its protocol whose aliases did not fit: it       *)
(* follows those that other lines left (line 2107).                        *)
BuscaExacta ==
  [][busca # Fuera /\ busca' = Fuera =>
       LET i == leido'.linea
           casan == Casan(archivo, busca)
       IN  /\ pos' = Cerrado
           /\ ~hallado' => casan = {}
           /\ hallado' => /\ i \in casan \cup Dudan(archivo, busca)
                          /\ \A k \in casan : i <= k
                          /\ leido'.puerto = IF busca.de = "services" THEN htons(archivo[i].num)
                                             ELSE archivo[i].num]_nmvars

(* What getaddrinfo() gives for a service is exactly one entry for each    *)
(* family asked that the node has an address of and each protocol asked    *)
(* that the service is found for, with that address and that port: none is *)
(* left from another family or protocol.  Without a service this does not  *)
(* hold: all four are given, with an address or not (line 1152).           *)
Ofrece(p, proto) ==
  /\ Protocolo(p) \in {Nadie, proto}
  /\ \/ p.num \in 1 .. WORD - 1
     \/ retorno.responde[proto] # 0

ListaPedida ==
  retorno.res = "0" /\ retorno.pide.servicio # Nadie =>
    LET p == retorno.pide
        dir == [f \in Familias |-> IF p.nodo # Nadie THEN p.nodo
                                   ELSE IF p.pasivo THEN "cero" ELSE "loopback"]
    IN  /\ IsInjective(lista)
        /\ {<<e.familia, e.proto>> : e \in ToSet(lista)} =
             {f \in Familias : Pedida(p, f) /\ (p.nodo # Nadie => f \in retorno.responde.familias)}
               \X {r \in {"tcp", "udp"} : Ofrece(p, r)}
        /\ \A e \in ToSet(lista) :
             /\ e.dir = dir[e.familia]
             /\ ntohs(e.puerto) = IF p.num \in 1 .. WORD - 1 THEN p.num
                                  ELSE archivo[retorno.responde[e.proto]].num

(* inet_addr(): the parts but the last are a byte each and the last one    *)
(* fills what is left; anything else is INADDR_NONE.  It undoes            *)
(* inet_ntoa().  Parts of more than 32 bits are not kept out.              *)
ValorDe(d) == d[1] * Cabida(3) + d[2] * Cabida(2) + d[3] * Cabida(1) + d[4]

InetAddrExacta ==
  convierte.f = "inet_addr" =>
    LET t == convierte.arg
        k == Len(t)
        cabe == /\ k <= 4 /\ \A i \in 1 .. k - 1 : t[i] < BYTE
                /\ t[k] < Cabida(5 - k)
        partes == [i \in 1 .. 4 |-> IF i < k THEN t[i] ELSE 0]
    IN  (\A i \in 1 .. k : t[i] < DWORD) =>
          IF cabe THEN /\ ValorDe(convierte.res) = ValorDe(partes) + t[k]
                       /\ \A i \in 1 .. 4 : convierte.res[i] \in 0 .. BYTE - 1
                       /\ inet_addr(inet_ntoa(convierte.res)) = convierte.res
          ELSE convierte.res = INADDR_NONE

(* inet_ntop(): the text has one "::" at most, reads back as the address,  *)
(* and leaves no run of zeros written that is longer than the one left out.*)
Alterna(t) == t = <<>> \/ /\ Len(t) % 2 = 1
                          /\ \A i \in DOMAIN t : t[i] = DosPuntos <=> i % 2 = 0
Palabras(t) == SelectSeq(t, LAMBDA x : x # DosPuntos)
Ceros(n)    == [i \in 1 .. n |-> 0]

NtopReversible ==
  convierte.f = "inet_ntop" =>
    LET t == convierte.res
        dobles == {i \in 1 .. Len(t) - 1 : t[i] = DosPuntos /\ t[i + 1] = DosPuntos}
        omite == 8 - Len(Palabras(t))
    IN  \/ dobles = {} /\ Alterna(t) /\ Palabras(t) = convierte.arg /\ ~Contains(t, 0)
        \/ \E i \in dobles :
             LET antes == SubSeq(t, 1, i - 1)
                 despues == SubSeq(t, i + 2, Len(t))
             IN  /\ dobles = {i} /\ omite > 0
                 /\ Alterna(antes) /\ Alterna(despues)
                 /\ convierte.arg = Palabras(antes) \o Ceros(omite) \o Palabras(despues)
                 /\ \A q \in {Palabras(antes), Palabras(despues)} :
                      \A k \in 1 .. Len(q) - omite : \E m \in k .. k + omite : q[m] # 0
=============================================================================
