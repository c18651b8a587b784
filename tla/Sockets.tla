------------------------------ MODULE Sockets ------------------------------
(***************************************************************************)
(* The BSD layer, bsdsock/socket.c: a table of socket control blocks over  *)
(* the sockets of the network kernel, which is reached through CAPI.       *)
(*                                                                         *)
(* One action per BSD call, as a DOS program makes one at a time.  The     *)
(* kernel is external: any of its calls may fail, and every call on a      *)
(* socket that it does not have fails.  It releases a socket it has when   *)
(* it is told to, and gives new sockets in blocking mode.  Calls that end  *)
(* in an error and leave the table and the kernel as they were are         *)
(* stuttering steps and have no disjunct, but for those that have to give  *)
(* something back.  Addresses are left out, and so is errno: no property   *)
(* tells them apart.                                                       *)
(***************************************************************************)
EXTENDS Integers, Sequences, FiniteSets

CONSTANTS
  Descriptores,    (* the handles of the kernel, FD_SETSIZE at most        *)
  MaxPuerto,       (* ports are 1..MaxPuerto; 0 is none                    *)
  Opciones,        (* the options the client sets, of wOption              *)
  MaxArranques     (* bound on the WSAStartup() and WSACleanup() pending   *)

ASSUME SocketsAssumption ==
  /\ MaxPuerto \in Nat /\ MaxArranques \in Nat
  /\ Opciones \subseteq {"REUSEADDR", "KEEPALIVE", "BROADCAST", "LINGER"}

VARIABLES
  psScbs,    (* _psScbs: its domain is the entries that are not null       *)
  nucleo,    (* the kernel: its domain is the sockets it has handed out    *)
  arranques, (* iWSAStartupCalled                                          *)
  historia   (* per handle, what happened to it; not part of the code      *)

svars == <<psScbs, nucleo, arranques, historia>>

Banderas == {"BOUND", "NONBLOCK", "LISTEN", "CONNECTED"}
Puertos  == 0 .. MaxPuerto

Scb == [bType : {"STREAM", "DGRAM"}, wPort : Puertos,
        wFlags : SUBSET Banderas, wOption : SUBSET Opciones]

(* nb: non-blocking; abierto: a datagram socket that ConnectSocket() has   *)
(* opened.                                                                 *)
DelNucleo == [nb : BOOLEAN, abierto : BOOLEAN]

(* cortado: WSACleanup() aborted it.  exclusivo: bind() looked for its     *)
(* port in the table.  dudoso: the mode of the kernel is not the one asked *)
(* for, as the call that sets it failed or the entry was copied by         *)
(* accept().  fallido: a datagram socket whose connect() failed.           *)
Sucesos == {"cortado", "exclusivo", "dudoso", "fallido"}

Pon(f, s, v) == [t \in DOMAIN f \cup {s} |-> IF t = s THEN v ELSE f[t]]
Quita(f, S)  == [t \in DOMAIN f \ S |-> f[t]]

Vacio(tipo) == [bType |-> tipo, wPort |-> 0, wFlags |-> {}, wOption |-> {}]

Nuevo == [nb |-> FALSE, abierto |-> FALSE]

Init ==
  /\ psScbs = <<>> /\ nucleo = <<>>
  /\ arranques = 0
  /\ historia = [s \in Descriptores |-> {}]
-----------------------------------------------------------------------------
(* psScb->wFlags |= b, for the socket s. *)
Marca(f, s, b) == [f EXCEPT ![s].wFlags = @ \cup b]

Tiene(s, b) == b \in psScbs[s].wFlags

Anota(s, que)   == historia' = [historia EXCEPT ![s] = @ \cup que]

(* What GetSocket() gave goes back: WSAEEXIST, as the entry is taken, or   *)
(* WSAENOBUFS.                                                             *)
Devuelve(s) == s \notin DOMAIN nucleo /\ UNCHANGED svars

socketSinDevolver(s, tipo) ==  (* mutant: a taken entry keeps the socket *)
  \/ /\ s \notin DOMAIN nucleo
     /\ nucleo' = Pon(nucleo, s, Nuevo)
     /\ IF s \in DOMAIN psScbs
        THEN UNCHANGED psScbs
        ELSE psScbs' = Pon(psScbs, s, Vacio(tipo))
     /\ UNCHANGED <<arranques, historia>>
  \/ Devuelve(s)

socket(s, tipo) ==
  \/ /\ s \notin DOMAIN nucleo /\ s \notin DOMAIN psScbs
     /\ nucleo' = Pon(nucleo, s, Nuevo)
     /\ psScbs' = Pon(psScbs, s, Vacio(tipo))
     /\ UNCHANGED <<arranques, historia>>
  \/ Devuelve(s)

acceptOyente(s, sn) ==         (* mutant: the copy goes on listening *)
  /\ s \in DOMAIN psScbs /\ Tiene(s, "LISTEN")
  /\ s \in DOMAIN nucleo
  /\ sn \notin DOMAIN nucleo /\ sn \notin DOMAIN psScbs
  /\ nucleo' = Pon(nucleo, sn, [Nuevo EXCEPT !.abierto = psScbs[s].bType = "DGRAM"])
  /\ psScbs' = Pon(psScbs, sn, psScbs[s])
  /\ Anota(sn, IF Tiene(s, "NONBLOCK") THEN {"dudoso"} ELSE {})
  /\ UNCHANGED arranques

(* The new entry is a copy of the listener's, with its mode, its port and  *)
(* its options; the kernel's socket is a new one.                          *)
accept(s, sn) ==
  /\ s \in DOMAIN psScbs /\ Tiene(s, "LISTEN")
  /\ s \in DOMAIN nucleo
  /\ \/ /\ sn \notin DOMAIN nucleo /\ sn \notin DOMAIN psScbs
        /\ nucleo' = Pon(nucleo, sn, [Nuevo EXCEPT !.abierto = psScbs[s].bType = "DGRAM"])
        /\ psScbs' = Pon(psScbs, sn, [psScbs[s] EXCEPT !.wFlags = @ \ {"LISTEN"}])
        /\ Anota(sn, IF Tiene(s, "NONBLOCK") THEN {"dudoso"} ELSE {})
        /\ UNCHANGED arranques
     \/ Devuelve(sn)

EnUsoOyentes(s, p) ==          (* mutant: only listeners are looked at *)
  \E t \in DOMAIN psScbs :
    /\ {"BOUND", "LISTEN"} \subseteq psScbs[t].wFlags
    /\ psScbs[t].bType = psScbs[s].bType
    /\ psScbs[t].wPort = p

EnUso(s, p) ==
  \E t \in DOMAIN psScbs :
    /\ "BOUND" \in psScbs[t].wFlags
    /\ psScbs[t].bType = psScbs[s].bType
    /\ psScbs[t].wPort = p

(* p is the port of the address or, if that is 0, what _GetNextPortNum()   *)
(* got from the kernel: 0 when it failed.                                  *)
bind(s, p) ==
  /\ s \in DOMAIN psScbs /\ ~Tiene(s, "BOUND")
  /\ LET busca == "REUSEADDR" \notin psScbs[s].wOption /\ p # 0 IN
       /\ busca => ~EnUso(s, p)
       /\ Anota(s, IF busca THEN {"exclusivo"} ELSE {})
  /\ psScbs' = Marca([psScbs EXCEPT ![s].wPort = p], s, {"BOUND"})
  /\ UNCHANGED <<nucleo, arranques>>

(* Linger with a time, on a non-blocking socket, is refused: WOULDBLOCK.   *)
(* Otherwise the stream is ended and released, aborted or just released,   *)
(* and the entry is freed if the kernel did it.  LINGER stands for the     *)
(* option with a time: with none the socket is aborted, which for the      *)
(* table is a release.                                                     *)
closesocket(s) ==
  /\ s \in DOMAIN psScbs /\ s \in DOMAIN nucleo
  /\ ~("LINGER" \in psScbs[s].wOption /\ Tiene(s, "NONBLOCK"))
  /\ nucleo' = Quita(nucleo, {s})
  /\ psScbs' = Quita(psScbs, {s})
  /\ historia' = [historia EXCEPT ![s] = {}]
  /\ UNCHANGED arranques

(* The entry is marked before the kernel is asked, and stays marked if it  *)
(* refuses.                                                                *)
connect(s, ok) ==
  /\ s \in DOMAIN psScbs
  /\ psScbs' = Marca(psScbs, s, {"BOUND", "CONNECTED"})
  /\ \/ /\ ok /\ s \in DOMAIN nucleo
        /\ nucleo' = [nucleo EXCEPT ![s].abierto = psScbs[s].bType = "DGRAM"]
        /\ UNCHANGED historia
     \/ /\ ~ok /\ UNCHANGED nucleo
        /\ Anota(s, IF psScbs[s].bType = "DGRAM" THEN {"fallido"} ELSE {})
  /\ UNCHANGED arranques

(* ListenAcceptSocket().  A port 0 is replaced first, without a search. *)
listen(s, p, ok) ==
  /\ s \in DOMAIN psScbs /\ Tiene(s, "BOUND")
  /\ psScbs[s].wPort # 0 => p = psScbs[s].wPort
  /\ LET conPuerto == [psScbs EXCEPT ![s].wPort = p] IN
       \/ /\ ok /\ s \in DOMAIN nucleo
          /\ psScbs' = Marca(conPuerto, s, {"LISTEN"})
       \/ /\ ~ok /\ psScbs' = conPuerto
  /\ UNCHANGED <<nucleo, arranques, historia>>
-----------------------------------------------------------------------------
(***************************************************************************)
(* Modes.                                                                  *)
(***************************************************************************)

(* FIONBIO.  The flag changes whatever the kernel answers. *)
ioctlsocket(s, v, ok) ==
  /\ s \in DOMAIN psScbs
  /\ psScbs' = IF v THEN Marca(psScbs, s, {"NONBLOCK"})
               ELSE [psScbs EXCEPT ![s].wFlags = @ \ {"NONBLOCK"}]
  /\ \/ /\ ok /\ s \in DOMAIN nucleo
        /\ nucleo' = [nucleo EXCEPT ![s].nb = v]
        /\ historia' = [historia EXCEPT ![s] = @ \ {"dudoso"}]
     \/ /\ ~ok /\ UNCHANGED nucleo
        /\ historia' = [historia EXCEPT ![s] =
             IF s \notin DOMAIN nucleo THEN @
             ELSE IF nucleo[s].nb = v THEN @ \ {"dudoso"} ELSE @ \cup {"dudoso"}]
  /\ UNCHANGED arranques

(* A datagram socket is opened when it is first used, unless its entry     *)
(* says that it is connected.  abre is whether the kernel agrees.          *)
SeAbre(s, abre) ==
  /\ psScbs[s].bType = "DGRAM" /\ ~Tiene(s, "CONNECTED")
  /\ abre /\ s \in DOMAIN nucleo

CheckUdpOpenAntes(s, abre) ==  (* mutant: the entry is marked first *)
  /\ psScbs' = IF psScbs[s].bType = "DGRAM"
               THEN Marca(psScbs, s, {"BOUND", "CONNECTED"}) ELSE psScbs
  /\ nucleo' = IF SeAbre(s, abre) THEN [nucleo EXCEPT ![s].abierto = TRUE] ELSE nucleo

CheckUdpOpen(s, abre) ==
  /\ psScbs' = IF SeAbre(s, abre) THEN Marca(psScbs, s, {"BOUND", "CONNECTED"})
                                  ELSE psScbs
  /\ nucleo' = IF SeAbre(s, abre) THEN [nucleo EXCEPT ![s].abierto = TRUE] ELSE nucleo

GetReadCountSinReponer(s, abre, repone) ==  (* mutant: the mode stays *)
  /\ s \in DOMAIN psScbs /\ s \in DOMAIN nucleo
  /\ psScbs' = IF SeAbre(s, abre) THEN Marca(psScbs, s, {"BOUND", "CONNECTED"})
                                  ELSE psScbs
  /\ nucleo' = [nucleo EXCEPT ![s] = [nb |-> TRUE, abierto |-> @.abierto \/ SeAbre(s, abre)]]
  /\ UNCHANGED <<arranques, historia>>

(* FIONREAD and select().  The kernel's socket is made non-blocking for a  *)
(* peek, if it is not, and blocking again; repone is whether the kernel    *)
(* does the last, which nobody looks at.                                   *)
GetReadCount(s, abre, repone) ==
  /\ s \in DOMAIN psScbs /\ s \in DOMAIN nucleo
  /\ psScbs' = IF SeAbre(s, abre) THEN Marca(psScbs, s, {"BOUND", "CONNECTED"})
                                  ELSE psScbs
  /\ LET bloquea == ~Tiene(s, "NONBLOCK") IN
       /\ nucleo' = [nucleo EXCEPT ![s] =
                       [nb |-> IF bloquea THEN ~repone ELSE @.nb,
                        abierto |-> @.abierto \/ SeAbre(s, abre)]]
       /\ historia' = [historia EXCEPT ![s] =
                         IF ~bloquea THEN @
                         ELSE IF repone THEN @ \ {"dudoso"} ELSE @ \cup {"dudoso"}]
  /\ UNCHANGED arranques

recvfrom(s, abre) ==
  /\ s \in DOMAIN psScbs /\ Tiene(s, "BOUND")
  /\ CheckUdpOpen(s, abre)
  /\ UNCHANGED <<arranques, historia>>

sendto(s, abre) ==
  /\ s \in DOMAIN psScbs
  /\ psScbs[s].bType = "DGRAM"
  /\ CheckUdpOpen(s, abre)
  /\ UNCHANGED <<arranques, historia>>

(* The kernel is told of SO_KEEPALIVE, and can refuse it.  SO_DONTLINGER   *)
(* is the complement of SO_LINGER.                                         *)
setsockopt(s, o, v) ==
  /\ s \in DOMAIN psScbs /\ o \in Opciones
  /\ psScbs[s].bType = "STREAM" => o # "BROADCAST"
  /\ psScbs[s].bType = "DGRAM" => o \notin {"KEEPALIVE", "LINGER"}
  /\ o = "KEEPALIVE" => s \in DOMAIN nucleo
  /\ psScbs' = [psScbs EXCEPT ![s].wOption = IF v THEN @ \cup {o} ELSE @ \ {o}]
  /\ UNCHANGED <<nucleo, arranques, historia>>
-----------------------------------------------------------------------------
(***************************************************************************)
(* Start and end.  WSAStartup() takes every socket it can to count them,   *)
(* and releases them.                                                      *)
(***************************************************************************)
WSAStartup ==
  /\ arranques < MaxArranques
  /\ arranques' = arranques + 1
  /\ UNCHANGED <<psScbs, nucleo, historia>>

(* The last one aborts the sockets of the table, and leaves their entries. *)
WSACleanup ==
  /\ arranques > -MaxArranques
  /\ arranques' = arranques - 1
  /\ IF arranques' <= 0
     THEN /\ nucleo' = Quita(nucleo, DOMAIN psScbs)
          /\ historia' = [s \in Descriptores |->
                            IF s \in DOMAIN psScbs THEN historia[s] \cup {"cortado"}
                            ELSE historia[s]]
     ELSE UNCHANGED <<nucleo, historia>>
  /\ UNCHANGED psScbs

Crea == \E s \in Descriptores, tipo \in {"STREAM", "DGRAM"} : socket(s, tipo)

Acepta == \E s, sn \in Descriptores : accept(s, sn)

Liga == \E s \in Descriptores, p \in Puertos :
          bind(s, p) \/ \E ok \in BOOLEAN : listen(s, p, ok)

Conecta == \E s \in Descriptores, ok \in BOOLEAN :
             connect(s, ok) \/ recvfrom(s, ok) \/ sendto(s, ok)

Ajusta ==
  \E s \in Descriptores, v, ok \in BOOLEAN :
    \/ ioctlsocket(s, v, ok)
    \/ GetReadCount(s, v, ok)
    \/ \E o \in Opciones : setsockopt(s, o, v)

Cierra == \E s \in Descriptores : closesocket(s)

Next == Crea \/ Acepta \/ Liga \/ Conecta \/ Ajusta \/ Cierra \/ WSAStartup \/ WSACleanup

Spec == Init /\ [][Next]_svars
-----------------------------------------------------------------------------
TypeOK ==
  /\ DOMAIN psScbs \subseteq Descriptores
  /\ \A s \in DOMAIN psScbs : psScbs[s] \in Scb
  /\ DOMAIN nucleo \subseteq Descriptores
  /\ \A s \in DOMAIN nucleo : nucleo[s] \in DelNucleo
  /\ arranques \in -MaxArranques .. MaxArranques
  /\ historia \in [Descriptores -> SUBSET Sucesos]

(* The table and the kernel agree on which sockets are in use, whatever    *)
(* fails half way and whatever was left in the table by WSACleanup(): no   *)
(* socket of the kernel is left without an entry, where nobody could close *)
(* it, and no entry outlives its socket but by WSACleanup().               *)
SinFugas ==
  DOMAIN nucleo = {s \in DOMAIN psScbs : "cortado" \notin historia[s]}

(* Two sockets of a type that got their ports from a search of the table   *)
(* have different ports, whatever was opened, accepted, connected or       *)
(* closed between the two searches.                                        *)
PuertoUnico ==
  \A s, t \in DOMAIN psScbs :
    /\ s # t /\ psScbs[s].bType = psScbs[t].bType
    /\ "exclusivo" \in historia[s] /\ "exclusivo" \in historia[t]
    => psScbs[s].wPort # psScbs[t].wPort

(* The kernel's socket blocks when the entry says so: the peeks of         *)
(* select() and FIONREAD, which change the mode and put it back, do not    *)
(* leave a blocking socket that does not block, or the reverse.            *)
ModoAcorde ==
  \A s \in DOMAIN nucleo :
    "dudoso" \in historia[s] \/ (nucleo[s].nb <=> Tiene(s, "NONBLOCK"))

(* "Datagram socket is connected" (line 163) means that the kernel has it  *)
(* open, so that a call that skips the opening finds it open; but a failed *)
(* connect() leaves the mark.                                              *)
ConectadoEsAbierto ==
  \A s \in DOMAIN nucleo :
    /\ psScbs[s].bType = "DGRAM" /\ Tiene(s, "CONNECTED")
    /\ "fallido" \notin historia[s]
    => nucleo[s].abierto
=============================================================================
