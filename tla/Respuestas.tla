----------------------------- MODULE Respuestas -----------------------------
(***************************************************************************)
(* What the calls of bsdsock/socket.c answer, in any state of the table    *)
(* that Sockets reaches: the error that a client finds in errno, and what  *)
(* getsockopt(), getsockname() and getpeername() tell it.  An answer is a  *)
(* function of the table, of the arguments and of k, what the kernel says: *)
(* NO_ERR or one of its error numbers.                                     *)
(*                                                                         *)
(* The data of addresses is left out, and so are the options that are a    *)
(* number (linger time and buffer sizes) and TCP_NODELAY, which has a word *)
(* of its own.  Of the lengths of buffers, only the room that the client   *)
(* of recvfrom() gives for the address of the sender is kept.              *)
(***************************************************************************)
EXTENDS Sockets

CONSTANT Errores    (* the errors of the kernel, of Capi.h *)

ASSUME RespuestasAssumption == {"ERR_RE_ENTRY", "ERR_WOULD_BLOCK"} \subseteq Errores

Bien(v) == [errno |-> "nada", valor |-> v]
Mal(e)  == [errno |-> e, valor |-> 0]

TraduccionReintenta ==         (* mutant: "kernel in use, try again later" *)
  [ERR_WOULD_BLOCK |-> "WSAEWOULDBLOCK", ERR_RE_ENTRY |-> "WSAEWOULDBLOCK"]

(* CAPI errors to winsock errors; any other is WSAENETDOWN. *)
Traduccion ==
  [ERR_IN_USE       |-> "WSAEISCONN",
   ERR_DOS          |-> "WSAEBADF",
   ERR_NO_MEM       |-> "WSAENOBUFS",
   ERR_NOT_NET_CONN |-> "WSAENOTCONN",
   ERR_ILLEGAL_OP   |-> "WSAEOPNOTSUPP",
   ERR_NO_HOST      |-> "WSAEDESTADDRREQ",
   ERR_TIMEOUT      |-> "WSAETIMEDOUT",
   ERR_HOST_UNKNOWN |-> "WSAHOST_NOT_FOUND",
   ERR_BAD_ARG      |-> "WSAEINVAL",
   ERR_EOF          |-> "WSAECONNRESET",
   ERR_RESET        |-> "WSAECONNRESET",
   ERR_WOULD_BLOCK  |-> "WSAEWOULDBLOCK",
   ERR_UNBOUND      |-> "WSAEADDRNOTAVAIL",
   ERR_NO_SOCKET    |-> "WSAEMFILE",
   ERR_BAD_SYS_CALL |-> "WSAEINVAL",
   ERR_NOT_ESTAB    |-> "WSAENOTCONN",
   ERR_RE_ENTRY     |-> "WSAEINPROGRESS",
   ERR_NETWORK      |-> "WSAENETRESET"]

MapError(k) == IF k \in DOMAIN Traduccion THEN Traduccion[k] ELSE "WSAENETDOWN"

(* External: what the kernel may say of a socket.  It says that it would   *)
(* block only when it was told not to.                                     *)
Dice(s) ==
  IF s \notin DOMAIN nucleo THEN Errores \ {"ERR_WOULD_BLOCK"}
  ELSE {"NO_ERR"} \cup (Errores \ IF nucleo[s].nb THEN {} ELSE {"ERR_WOULD_BLOCK"})

Segun(k) == IF k = "NO_ERR" THEN Bien(0) ELSE Mal(MapError(k))

(* The answer r, unless the socket is not one. *)
SiEsSocket(s, r) == IF s \in DOMAIN psScbs THEN r ELSE Mal("WSAENOTSOCK")

SiEsta(s, b, r) == IF Tiene(s, b) THEN r ELSE Mal("WSAEINVAL")
-----------------------------------------------------------------------------
acceptDice(s, k) == SiEsSocket(s, SiEsta(s, "LISTEN", Segun(k)))

connectDice(s, k) ==
  SiEsSocket(s, IF k = "ERR_RESET" THEN Mal("WSAECONNREFUSED") ELSE Segun(k))

listenDice(s, k) == SiEsSocket(s, SiEsta(s, "BOUND", Segun(k)))

shutdown(s, k) == SiEsSocket(s, Segun(k))

(* A datagram socket is opened at its first use.  Whether k is the word of *)
(* the kernel on what was asked, or that of an opening that failed.        *)
Aberturas(s, k) ==
  IF psScbs[s].bType = "DGRAM" /\ ~Tiene(s, "CONNECTED") /\ k # "NO_ERR"
  THEN BOOLEAN ELSE {TRUE}

(* The end of a stream is no error; a stream that is not there yet says    *)
(* that it would block, in any mode.                                       *)
Leido(k) == CASE k = "ERR_EOF"       -> Bien(0)
              [] k = "ERR_NOT_ESTAB" -> Mal("WSAEWOULDBLOCK")
              [] OTHER               -> Segun(k)

(* The room that the client has for the address of the sender: none, less  *)
(* than a SOCKADDR, that of an IPv4 address or that of any.                *)
Remitente == {"nadie", "corto", "ipv4", "cualquiera"}

(* The answers there can be.  The address is given after an error too,     *)
(* from a local that nobody has filled: what it holds is taken for an IPv6 *)
(* address or not, and in the room of an IPv4 one that is WSAEFAULT.       *)
recvfromDice(s, abre, k, de) ==
  IF s \notin DOMAIN psScbs THEN {Mal("WSAENOTSOCK")}
  ELSE IF ~Tiene(s, "BOUND") THEN {Mal("WSAEINVAL")}
  ELSE IF de = "corto" THEN {Mal("WSAEFAULT")}
  ELSE IF ~abre THEN {Mal(MapError(k))}
  ELSE {Leido(k)} \cup
       IF de = "ipv4" /\ Leido(k) # Bien(0) THEN {Mal("WSAEFAULT")} ELSE {}

(* The answer to the opening of a datagram socket is passed on the same.   *)
sendtoDice(s, k) ==
  SiEsSocket(s, IF psScbs[s].bType = "STREAM" THEN SiEsta(s, "BOUND", Segun(k))
                ELSE Segun(k))

closesocketDice(s, k) ==
  SiEsSocket(s, IF "LINGER" \in psScbs[s].wOption /\ Tiene(s, "NONBLOCK")
                THEN Mal("WSAEWOULDBLOCK") ELSE Segun(k))

(* It is the kernel that knows the peer. *)
getpeername(s, k) == SiEsSocket(s, SiEsta(s, "BOUND", Segun(k)))

(* The port of the table, whatever the kernel thinks of the socket: only   *)
(* the address is asked of it, and an error is not looked at.              *)
getsockname(s) == SiEsSocket(s, SiEsta(s, "BOUND", Bien(psScbs[s].wPort)))
-----------------------------------------------------------------------------
Bit(b) == IF b THEN 1 ELSE 0

SOCK == [STREAM |-> 1, DGRAM |-> 2]

SoloLectura == {"ACCEPTCONN", "ERROR", "TYPE"}

Consultas == Opciones \cup SoloLectura \cup {"DONTLINGER"}

SinSentido ==
  [STREAM |-> {"BROADCAST"},
   DGRAM  |-> {"ACCEPTCONN", "DONTLINGER", "KEEPALIVE", "LINGER"}]

getsockopt(s, o) ==
  SiEsSocket(s,
    LET e == psScbs[s] IN
    IF o \in SinSentido[e.bType] THEN Mal("WSAENOPROTOOPT")
    ELSE Bien(CASE o = "ACCEPTCONN" -> Bit(Tiene(s, "LISTEN"))
                [] o = "ERROR"      -> 0
                [] o = "TYPE"       -> SOCK[e.bType]
                [] o = "DONTLINGER" -> Bit("LINGER" \notin e.wOption)
                [] OTHER            -> Bit(o \in e.wOption)))
-----------------------------------------------------------------------------
SeBloquearia == {Mal("WSAEWOULDBLOCK"), Mal("WSAEINVAL")}

(* A client that waits and tries again decides by WSAEWOULDBLOCK.  It is   *)
(* told so by a socket that it made non-blocking and by a stream not there *)
(* yet, never because a peek of select() or FIONREAD changed the mode of   *)
(* the kernel, because the kernel was busy or because a datagram socket    *)
(* could not be opened; and it is told so whenever the kernel says so,     *)
(* unless it asks for the sender and has no room for an IPv6 address.      *)
BloqueoJusto ==
  \A s \in DOMAIN psScbs : \A k \in Dice(s) :
    LET otras  == {acceptDice(s, k), connectDice(s, k), listenDice(s, k),
                   sendtoDice(s, k), closesocketDice(s, k), getpeername(s, k),
                   shutdown(s, k)}
        puede  == Tiene(s, "NONBLOCK") \/ "dudoso" \in historia[s] \/ k = "ERR_NOT_ESTAB"
    IN  /\ Mal("WSAEWOULDBLOCK") \in otras => puede
        /\ k = "ERR_WOULD_BLOCK" => otras \subseteq SeBloquearia
        /\ \A abre \in Aberturas(s, k), de \in Remitente :
             LET recibe == recvfromDice(s, abre, k, de) IN
             /\ Mal("WSAEWOULDBLOCK") \in recibe => puede
             /\ k = "ERR_WOULD_BLOCK" /\ de \in {"nadie", "cualquiera"} =>
                  recibe \subseteq SeBloquearia

(* A new socket has the options that its type begins with, or those of its *)
(* listener, who had them set: nothing is left of whoever had the handle   *)
(* before, and an accepted socket does not say that it listens.            *)
SinHerencia ==
  [][\A s \in DOMAIN psScbs' \ DOMAIN psScbs :
       \/ \A o \in Consultas \ {"TYPE"} :
            getsockopt(s, o)' \in {Bien(Bit(o = "DONTLINGER")), Mal("WSAENOPROTOOPT")}
       \/ \E t \in DOMAIN psScbs :
            /\ acceptDice(t, "NO_ERR") = Bien(0)
            /\ \A o \in Consultas \ {"ACCEPTCONN"} :
                 getsockopt(s, o)' = getsockopt(t, o)
            /\ getsockopt(s, "ACCEPTCONN")' \in {Bien(0), Mal("WSAENOPROTOOPT")}]_svars
=============================================================================
