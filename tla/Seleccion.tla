----------------------------- MODULE Seleccion -----------------------------
(***************************************************************************)
(* select(), bsdsock/socket.c, over the table of Sockets and the clock of  *)
(* Reloj: three sets of handles are polled over and over, each compacted   *)
(* in place, until something is ready or the time is over.  The kernel and *)
(* the keyboard go on between any two polls, so each handle is an action.  *)
(*                                                                         *)
(* A set is the sequence fd_array[0..fd_count-1]; a null set is the empty  *)
(* one, which it is treated as.  Timeouts are in milliseconds, and the     *)
(* clock is in ticks of the BIOS.                                          *)
(***************************************************************************)
EXTENDS Sockets, Reloj, SequencesExt

CONSTANTS
  STDIN,          (* FD_STDIN, the keyboard                                *)
  Tablas,         (* the tables select() is called with                    *)
  Peticiones,     (* the sets it is called with                            *)
  Tiempos,        (* the timeouts; SinPlazo is a null one                  *)
  Mil,            (* milliseconds of a second                              *)
  CLOCK_DIVISOR, CLOCK_MULTIPLIER,
                  (* 91 and 5: there are 91/5 ticks in a second            *)
  Eventos,        (* what may happen in the kernel and at the keyboard     *)
  MaxSinMirar,    (* bound on the ticks between two readings of the clock  *)
  MaxAtras        (* bound on the ticks that the counter goes back in a call *)

SinPlazo == -1

ASSUME SeleccionAssumption ==
  /\ STDIN \notin Descriptores
  /\ MaxAtras \in Nat
  /\ MaxSinMirar \in Nat /\ MaxSinMirar + Rebote <= DIA
  /\ Tiempos \subseteq {SinPlazo} \cup 0 .. W - 1
  /\ {Mil, CLOCK_DIVISOR, CLOCK_MULTIPLIER} \subseteq Nat \ {0}
  /\ Mil * CLOCK_MULTIPLIER >= 2

(* Tables of sockets, and sets of what may be handles. *)
ASSUME PeticionesAssumption ==
  /\ \A x \in Tablas : /\ DOMAIN x.psScbs \subseteq Descriptores
                       /\ x.psScbs \in [DOMAIN x.psScbs -> Scb]
  /\ Peticiones \subseteq
       [{"lee", "escribe", "excep"} -> Seq(Descriptores \cup {STDIN})]

VARIABLES
  fds,         (* readfds, writefds and exceptfds                          *)
  iOut,        (* iOutRead, iOutWrite and iOutExcept                       *)
  sel,         (* the call: phase, index, retv, dwTime and dwTimeoutTarget *)
  eventos,     (* what the kernel and the keyboard have: pairs of a handle
                  and "lee" (data, a connection or a key), "escribe" (room),
                  "falla" (a reset) or "mal" (its calls fail)              *)
  pedido,      (* history: the sets of the call                            *)
  alPasar,     (* history: eventos when the last pass began                *)
  espera       (* history: ticks since the call, ticks since the last
                  reading of the clock, ticks that the counter went back,
                  and whether the clock was deceived                       *)

slvars == <<fds, iOut, sel, eventos, pedido, alPasar, espera>>
tabla  == <<svars>>

Nombres == {"lee", "escribe", "excep"}
Sigue   == [lee |-> "escribe", escribe |-> "excep", excep |-> "mira"]

(* FD_ISSET, FD_SET and FD_CLR: the sets a client builds. *)
FDIsSet(fd, c) == Contains(c, fd)
FDSet(fd, c) ==
  IF FDIsSet(fd, c) \/ Len(c) >= Cardinality(Descriptores) THEN c ELSE Append(c, fd)
FDClr(fd, c) == Remove(c, fd)

Cero == [n \in Nombres |-> 0]

SinFds == [n \in Nombres |-> <<>>]
Fuera  == [fase |-> "fuera", i |-> 1, retv |-> 0, dwTime |-> 0, plazo |-> 0]
Nada   == [total |-> 0, sinMirar |-> 0, atras |-> 0, falsa |-> FALSE]

SInit ==
  /\ \E x \in Tablas : psScbs = x.psScbs /\ nucleo = x.nucleo
  /\ arranques = 1 /\ historia = [s \in Descriptores |-> {}]
  /\ InitReloj
  /\ fds = SinFds /\ pedido = SinFds /\ iOut = Cero
  /\ sel = Fuera /\ eventos = {} /\ alPasar = {} /\ espera = Nada
-----------------------------------------------------------------------------
(***************************************************************************)
(* The call.                                                               *)
(***************************************************************************)
(* Milliseconds in ticks: a DWORD times another, divided. *)
Tics(t) == ((t * CLOCK_DIVISOR) % W) \div (Mil * CLOCK_MULTIPLIER)

Empieza(p, t) ==
  /\ sel.fase = "fuera"
  /\ fds' = p /\ pedido' = p
  /\ Clock
  /\ sel' = [fase |-> "lee", i |-> 1, retv |-> 0, dwTime |-> t,
             plazo |-> IF t = SinPlazo THEN 0 ELSE (Hora' + Tics(t)) % W]
  /\ iOut' = Cero /\ alPasar' = eventos
  /\ espera' = [Nada EXCEPT !.falsa = ctBase' = 0 /\ ctLastTics' # 0]
  /\ UNCHANGED <<tabla, eventos>>

(* Is the handle ready, in the set n?  A kernel that fails makes a socket  *)
(* readable and exceptional; a datagram socket is always writable.         *)
Listo(s, n, ev) ==
  \/ /\ n = "lee" /\ <<s, "lee">> \in ev
  \/ /\ n = "lee" /\ s # STDIN /\ <<s, "mal">> \in ev /\ ~Tiene(s, "LISTEN")
  \/ /\ n = "escribe" /\ s # STDIN /\ psScbs[s].bType = "DGRAM"
  \/ /\ n = "escribe" /\ <<s, "escribe">> \in ev /\ <<s, "mal">> \notin ev
  \/ /\ n = "excep" /\ s # STDIN /\ psScbs[s].bType = "STREAM"
     /\ {<<s, "falla">>, <<s, "mal">>} \cap ev # {}

Mirado == fds[sel.fase][sel.i]

(* The peek of _GetReadCount() on a handle of readfds, which may open a    *)
(* datagram socket.                                                        *)
Asoma(s) ==
  IF sel.fase = "lee" /\ s # STDIN /\ ~Tiene(s, "LISTEN") /\ <<s, "mal">> \notin eventos
  THEN GetReadCount(s, TRUE, TRUE)
  ELSE UNCHANGED tabla

MiraUnoSinMover ==             (* mutant: the handle stays where it was *)
  /\ sel.fase \in Nombres /\ sel.i <= Len(fds[sel.fase])
  /\ Mirado = STDIN \/ Mirado \in DOMAIN psScbs
  /\ Asoma(Mirado)
  /\ LET n == sel.fase IN
     iOut' = IF Listo(Mirado, n, eventos) THEN [iOut EXCEPT ![n] = @ + 1] ELSE iOut
  /\ sel' = [sel EXCEPT !.i = @ + 1]
  /\ UNCHANGED <<reloj, fds, eventos, pedido, alPasar, espera>>

(* One handle: it is kept, at the next free place of its own set, or not. *)
MiraUno ==
  /\ sel.fase \in Nombres /\ sel.i <= Len(fds[sel.fase])
  /\ Mirado = STDIN \/ Mirado \in DOMAIN psScbs
  /\ Asoma(Mirado)
  /\ LET n == sel.fase IN
     IF Listo(Mirado, n, eventos)
     THEN /\ iOut' = [iOut EXCEPT ![n] = @ + 1]
          /\ fds' = [fds EXCEPT ![n][iOut'[n]] = Mirado]
     ELSE UNCHANGED <<iOut, fds>>
  /\ sel' = [sel EXCEPT !.i = @ + 1]
  /\ UNCHANGED <<reloj, eventos, pedido, alPasar, espera>>

(* WSAENOTSOCK: out at once, with the sets as they are. *)
NoEsSocket ==
  /\ sel.fase \in Nombres /\ sel.i <= Len(fds[sel.fase])
  /\ Mirado # STDIN /\ Mirado \notin DOMAIN psScbs
  /\ sel' = [sel EXCEPT !.fase = "fuera", !.retv = -1]
  /\ UNCHANGED <<tabla, reloj, fds, iOut, eventos, pedido, alPasar, espera>>

FinConjuntoUltimo ==           (* mutant: = for += *)
  /\ sel.fase \in Nombres /\ sel.i > Len(fds[sel.fase])
  /\ sel' = [sel EXCEPT !.fase = Sigue[@], !.i = 1, !.retv = iOut[sel.fase]]
  /\ UNCHANGED <<tabla, reloj, fds, iOut, eventos, pedido, alPasar, espera>>

(* The end of a set: retv counts what it kept. *)
FinConjunto ==
  /\ sel.fase \in Nombres /\ sel.i > Len(fds[sel.fase])
  /\ sel' = [sel EXCEPT !.fase = Sigue[@], !.i = 1, !.retv = @ + iOut[sel.fase]]
  /\ UNCHANGED <<tabla, reloj, fds, iOut, eventos, pedido, alPasar, espera>>

(* (long)(Clock() - dwTimeoutTarget) >= 0 *)
Vencido == (Hora' - sel.plazo) % W < W \div 2

(* Midnights have brought the base round to 0, where Clock() takes it for  *)
(* a clock that has not started.                                           *)
SinBase == ctBase' = 0 /\ (ctBase # 0 \/ ctLastTics' # 0)

Termina ==
  /\ sel' = [sel EXCEPT !.fase = "fuera", !.i = 1]
  /\ fds' = [n \in Nombres |-> SubSeq(fds[n], 1, iOut[n])]
  /\ UNCHANGED <<iOut, alPasar>>

OtraVez ==
  /\ sel' = [sel EXCEPT !.fase = "lee"]
  /\ iOut' = Cero /\ alPasar' = eventos
  /\ UNCHANGED fds

(* Something was found, or there was no time to wait; otherwise the clock  *)
(* is read, if there is a timeout.                                         *)
Decide ==
  /\ sel.fase = "mira"
  /\ \/ /\ sel.retv # 0 \/ sel.dwTime = 0
        /\ Termina /\ UNCHANGED <<reloj, espera>>
     \/ /\ sel.retv = 0 /\ sel.dwTime = SinPlazo
        /\ OtraVez /\ UNCHANGED <<reloj, espera>>
     \/ /\ sel.retv = 0 /\ sel.dwTime > 0
        /\ Clock
        /\ IF Vencido THEN Termina ELSE OtraVez
        /\ espera' = [espera EXCEPT !.sinMirar = 0, !.falsa = @ \/ SinBase]
  /\ UNCHANGED <<tabla, eventos, pedido>>

Paso == MiraUno \/ NoEsSocket \/ FinConjunto \/ Decide
-----------------------------------------------------------------------------
(***************************************************************************)
(* The rest of the world.                                                  *)
(***************************************************************************)

(* Time goes by; only a call with a timeout cares. *)
Avanza ==
  /\ sel.fase # "fuera" /\ sel.dwTime > 0
  /\ espera.sinMirar < MaxSinMirar
  /\ Tictac
  /\ espera' = [espera EXCEPT !.total = @ + 1, !.sinMirar = @ + 1]
  /\ UNCHANGED <<tabla, fds, iOut, sel, eventos, pedido, alPasar>>

(* The counter goes back a little, for no reason, and not through          *)
(* midnight.  When that makes a Rebote since the last reading, it is going *)
(* to be taken for midnight.                                               *)
Atrasa(b) ==
  /\ sel.fase # "fuera" /\ sel.dwTime > 0
  /\ espera.atras + b <= MaxAtras
  /\ b <= bios /\ bios' = bios - b
  /\ espera' = [espera EXCEPT
       !.atras = @ + b,
       !.falsa = @ \/ (ctLastTics - bios < Rebote /\ ctLastTics - bios' >= Rebote)]
  /\ UNCHANGED <<tabla, ctBase, ctLastTics, fds, iOut, sel, eventos, pedido, alPasar>>

Ocurre(e) ==
  /\ sel.fase # "fuera" /\ e \notin eventos
  /\ e[1] = STDIN \/ e[1] \in DOMAIN nucleo
  /\ eventos' = eventos \cup {e}
  /\ UNCHANGED <<tabla, reloj, fds, iOut, sel, pedido, alPasar, espera>>

(* Between two calls the client deals with what there is, forgets its sets *)
(* and lets any time pass.                                                 *)
Entretanto ==
  /\ sel.fase = "fuera"
  /\ fds' = SinFds /\ pedido' = SinFds /\ iOut' = Cero
  /\ sel' = Fuera /\ eventos' = {} /\ alPasar' = {} /\ espera' = Nada
  /\ bios' \in 0 .. DIA - 1
  /\ UNCHANGED <<tabla, ctBase, ctLastTics>>

SNext ==
  \/ \E p \in Peticiones, t \in Tiempos : Empieza(p, t)
  \/ Paso
  \/ Avanza \/ Entretanto
  \/ \E b \in 1 .. Rebote - 1 : Atrasa(b)
  \/ \E e \in Eventos : Ocurre(e)

todo == <<tabla, reloj, slvars>>

(* select() is a loop with nothing to wait for, and the clock goes on. *)
SSpec == SInit /\ [][SNext]_todo /\ WF_todo(Paso) /\ WF_todo(Avanza)
-----------------------------------------------------------------------------
Vuelve == sel.fase # "fuera" /\ sel'.fase = "fuera"

(* The handles of c are some of those of p, in their order. *)
Subsecuencia(c, p) ==
  \E g \in [DOMAIN c -> DOMAIN p] :
    /\ \A k, l \in DOMAIN c : k < l => g[k] < g[l]
    /\ \A k \in DOMAIN c : c[k] = p[g[k]]

(* What comes back: each set holds handles that it was given, once each    *)
(* and in their order, all of them ready now or before the kernel failed;  *)
(* none that was ready all through the last pass is missing, and retv      *)
(* counts them.                                                            *)
RespuestaFiel ==
  [][Vuelve /\ sel'.retv >= 0 =>
      /\ sel'.retv = Len(fds'.lee) + Len(fds'.escribe) + Len(fds'.excep)
      /\ \A n \in Nombres :
           /\ Subsecuencia(fds'[n], pedido[n])
           /\ \A s \in ToSet(fds'[n]) : \/ Listo(s, n, eventos)
                                       \/ Listo(s, n, eventos \ {<<s, "mal">>})
           /\ \A s \in ToSet(pedido[n]) :
                Listo(s, n, alPasar) /\ Listo(s, n, eventos) => s \in ToSet(fds'[n])]_todo

Demora == 2 * MaxSinMirar + Rebote

(* With nothing found, select() comes back less than a tick before its     *)
(* time, if the time in ticks does not overflow, and at most a few ticks   *)
(* after it: the midnights that the clock goes through, its first tick and *)
(* the steps back of its counter cost no more than the ticks gone back.    *)
(* Two things deceive the clock: steps back that add up to what is taken   *)
(* for midnight, and a base that midnights bring to 0.                     *)
PlazoJusto ==
  LET enTicks  == sel.dwTime * CLOCK_DIVISOR
      deUnTick == Mil * CLOCK_MULTIPLIER
  IN  sel.dwTime > 0 /\ ~espera.falsa =>
        /\ sel.fase = "fuera" /\ sel.retv = 0 /\ enTicks < W =>
             (espera.total + 1) * deUnTick > enTicks
        /\ espera.total * deUnTick <= enTicks + (Demora + espera.atras) * deUnTick

(* Every call with a timeout returns, and so does every call without one   *)
(* that waits for something that is there to be read.                      *)
Regresa ==
  \/ sel.dwTime >= 0
  \/ \E i \in DOMAIN pedido.lee : <<pedido.lee[i], "lee">> \in eventos
  ~> sel.fase = "fuera"
=============================================================================
