# Primario: a TLA+ model of the plot extractor and of its network libraries

PRIMARIO is the program that reads the primary radar FPS-113 and reports plots.
An FPGA digitises the video and leaves 16-bit words in a FIFO; the program (a
DOS program, `src/priwest2x_new.c`) reads them in an endless loop, correlates
the echoes of successive azimuths into targets and, when a target ends, sends
one plot, at the middle of the azimuths in which it was seen. Plots and the
headers that open each of the 16 sectors of the turn go out on a serial line
and as UDP broadcasts, through CAPI, the library that calls a resident TCP/IP
kernel (`src/capi/`); the repository also carries the BSD sockets layer over
CAPI (`src/bsdsock/`). A second serial line brings heights.

The modules keep the names of the source (Spanish, or English in the
libraries), as do the comments of the source; what is said of them here is in
English.

## 1. Inventory

| Component | Source | State | Operations |
|---|---|---|---|
| Tracker | `priwest2x_new.c` 408-501, 503-815, 888-911; `Primari1.h` | `prs[0..indice-1]`, the echo pending (`bandera`, `rangoinic`), the azimuth (`azimuth`, `aztant`, `bandera_azt`, `banderainic`), the sectors, the height of the FIFO (`PrsAltura`, `AlturaTemp`) and of COM3 (`Flag_alt`, `sector_alt`, `alt_alt`) | one per word (azimuth, range, height); the ageing loop; `cabecera()`, `blancos()` |
| Eco mode | 821-885 | `aztprom`, the sectors | one plot per range word |
| FIFO gate | 108-113, 243-404 | `FlagIni`, `DatoAnt`, `AzAnt`; the FIFO of the FPGA | `ChkFlag()`, `GetDato()`, `CtrlDato()`, `ResetFifo()` |
| COM3 heights | 86-93, 913-977 | ring `InBuff`, window `bu1..bu8`, `ok1..ok3` | interrupt `intRxCom3()`, `lee_altura()` |
| Serial output | 96-104, 418-423, 470-478, 1066-1070 | ring `Buff` with `iwr`, `ird` (unsigned char: 256 places), UART | queueing, wait for LSR, interrupt `TxBuf()` |
| Main program | 116-154, 984-1074 | jumpers, `AREA_INHIBICION`, `eco` | set-up, then the loop: poll COM3, poll FIFO, process, transmit |
| UDP output | 161-239 | socket handle | open, broadcast, print errors |
| CAPI | `capi/_capi.c`, `capi/capi.c` | the vector of the kernel, `iNetErrNo`; in the DPMI build `iLevel`, `aiAvail` and the blocks of `asLevelInfo`, the chain of real-mode callbacks | 50 functions with one shape: enter a level, copy, call, copy back, leave; `AsyncNotificationHandler()` |
| Clock | `capi/clock.c` | `ctBase`, `ctLastTics` | `Clock()` |
| BSD sockets | `bsdsock/socket.c` | the table `_psScbs`, `iWSAStartupCalled`; static entries of hosts, services and protocols | the BSD calls, `select()`, the name calls, conversions of addresses |
| First version | `priwest2x.c` | that of the program, with a fixed inhibited area | the same routines |
| SoC port | `pri113/pri113-20181219.c` | that of the program, without COM3 | the same routines, on registers reached over a bridge |
| Other | `pri113/pri113.c`, `VIEJOpri113.c`, `pri113/socket/` | the file the port began as and a sample of it; two sample programs | |

How they interact:

```
 FPGA FIFO -> [FIFO gate] -word-> [Tracker | Eco] -frames-> [Serial output] -> RS232
                  |  banderainic      ^    |        \-----> datagrams
                  +-------------------+    | Flag_alt=0          |
 COM3 -> ISR -> [COM3 heights] --Flag_alt, alt_alt--+            v
        [BSD sockets: table, select, names] ---calls---> [CAPI] <-> kernel (TSR)
                                  |                         ^
                               [Clock] <- BIOS              +-- callbacks
```

The program has one thread, the main loop, and two interrupts. The loop takes
at most one FIFO word, at most one COM3 byte and sends at most one byte per
iteration. The rings are the state shared with the interrupts; the flags
`banderainic` and `Flag_alt` are the state the components share within the
loop. CAPI is called from the main line and from a notification handler that
breaks into it anywhere, runs to its end and does not nest.

What is hard to test in it: the order of words (echoes of several targets,
heights, azimuths refused, resets in between); the north mark, in four
different computations; what a reset leaves behind (`AzAnt`, `bandera`,
`rangoinic`, `PrsAltura`); rings and arrays with no test for full; the
interrupts; a callback between two steps of a call; calls of the kernel, of DOS
and of the heap that fail half way; a clock that goes back; sets compacted
while they are walked. PROJECT.json lists each at its line under "hazards".

What makes each component correct:

- Tracker: an object is one target and gives one plot per pass, at its middle;
  nothing inside the inhibited area is reported; echoes are not lost; `prs`
  does not overflow; in the eco mode, plots leave under the header of their
  sector.
- FIFO gate: azimuths go forward; a loss does not make it refuse good words
  for long.
- Gate and tracker together: the tracker's window takes things that it should
  not, and the gate makes good for it.
- COM3: every packet gives its own height, once.
- Serial output: bytes leave once, in order, all of them.
- CAPI: the two callers never share a buffer, nothing is copied to memory that
  was given back, a failure is told as one, with its own number.
- BSD sockets: table and kernel agree on which sockets exist, on their mode
  and on whether they are open; exclusive ports are; a call says that it would
  block only when it would; a new socket has nothing of another; `select()`
  answers for what was ready, at its time; names give what was asked for.
- First version: the program that replaced it follows the same targets beyond
  the area that only the first one leaves out.
- SoC port: it sends the plots of the program, but for the heights of COM3,
  which it does not hear.

## 2. Modules

| Module | What it is |
|---|---|
| `Palabra` | Classes of words, sectors, centre and width of a target; the constants of `Primari1.h` |
| `Salida` | `cabecera()` and `blancos()`, used by both modes |
| `Primario`, `MCPrimario` | The tracker as an open component: any word at any moment |
| `Deteccion` | Abstract: an antenna that turns, presences, one plot per presence |
| `Barrido` | `Primario` with a lossless front end, and the refinement mapping to `Deteccion` |
| `Eco` | `Primario_eco()` |
| `CtrlFifo` | The FIFO gate as an open component, with the FIFO |
| `Extractor` | The main loop: `CtrlFifo`, `Primario` and `Eco` composed, any words in the FIFO |
| `Antena` | `Extractor` with the words of a working radar, for its recovery |
| `PrimeraVersion` | `priwest2x.c`: the main loop put together from the same routines |
| `PuertoSoC` | `pri113-20181219.c`: the main loop of the port, on a bridge that works |
| `Lejanos` | The targets beyond fifteen miles, in lists of targets |
| `Versiones`, `MCVersiones` | `Extractor`, `PrimeraVersion` and `PuertoSoC` side by side, fed the same words |
| `Com3`, `MCCom3` | Interrupt, ring and parser of the heights; packets for TLC |
| `ColaBytes` | Abstract: a queue of bytes and a line |
| `TxSerie`, `MCTxSerie` | Ring, main loop tail, UART and interrupt; implements `ColaBytes` |
| `CapiFunciones` | The functions of CAPI, as what distinguishes them |
| `Capi`, `MCCapi` | A call of CAPI step by step, from two callers; buffers, callbacks, handler |
| `Reloj` | `Clock()` |
| `Sockets`, `MCSockets` | The table of sockets and the calls that change it |
| `Respuestas` | What the calls on that table answer: errors, options, names; `_MapError()` |
| `Seleccion`, `MCSeleccion` | `select()`, over `Sockets` and `Reloj` |
| `Direcciones` | `htons()`, `inet_addr()`, `inet_ntoa()`, `inet_ntop()` |
| `Servicios` | The files of services and protocols and the searches of them |
| `Nombres`, `MCNombres` | `getaddrinfo()`, `gethostbyname()`, over the two above |
| `PrimarioProofs`, `ExtractorProofs`, `VersionesProofs`, `TxSerieProofs`, `Com3Proofs`, `SocketsProofs`, `NombresProofs`, `CapiProofs` | Theorems. `ExtractorProofs` begins with lemmas about `Lejanos`, which `VersionesProofs` uses, and with the theorems of the gate, `CtrlFifo`, and ends with those of `Antena`; `SocketsProofs` ends with those of `Seleccion` |

Correspondence with the code.

*Words* are integers with their prefix. `Primari1.h` fixes `max_vuelta` 4096,
`tolerancia` 9, `max_aus_cons` 5 and `blancocorto` 3; they are constants here so
that TLC can take a turn of 16 azimuths, and the theorems are for all of them.

*Primario()* is one action per kind of word and outcome. The ageing loop is one
action per iteration (`pc = "barre"`) because each plot leaves on its own and
the first near plot spends the COM3 height. `prs` is a sequence; the shift that
deletes is `RemoveAt`. Positions are left out: whether `Dist < Dist_max` is a
parameter (`cerca`) of `CaducaBlanco`. `salida` is the frame that a step queues.
A height word is always stored by the code; `Lecturas` and the packets of COM3
are inputs, as is `banderainic = 1` written by `CtrlDato` (`PideResincronia`).

*CtrlFifo* keeps the FIFO as a sequence until the word that fills it. The code
never reads a full FIFO, it empties it, so a full FIFO is only the flag `lleno`.
`DatoAnt` is overwritten by an azimuth before the height test, so `ErrorAltura`
is enabled by a second height only. The comment of :331 (after a height comes a
range) is not what the code does with an azimuth. `ultimo` is history. The status
of the FIFO is external: 0x02 when it is full, 0x01 when it is empty and 0x00
between, which is what :267-270 tests. `Fifo2.h` names one more, `HALF` 0x0003,
that no code reads; a FIFO that answered it would not be read until it was full.

*Extractor* is one iteration of `main()` per step: a step of the gate and, in
the same step, what the tracker or the eco mode does with the word it gave.
The ageing loop ends before the FIFO is looked at again, as in the code.

*PrimeraVersion* is that loop again with `AREA_INHIBICION` replaced by the
constant 0x41 of `priwest2x.c` (`AREA_FIJA`). *PuertoSoC* is the loop of
`pri113-20181219.c`. The port reaches a register by writing its number at one
address of the bridge and then reading or writing another; nothing comes in
between, so an access is one step. It has no `lee_altura()`, and it does not
empty the FIFO before its loop, which makes no difference to a FIFO that is
empty. The file is in progress: it does not build, and nobody maps the bridge
before `main()` uses it. The module is the program its routines make on a bridge
that works.

*Versiones* gives each word to the three FIFOs and lets the three programs poll
at the same pace, each with its own state; all read the same jumpers. The ageing
loops have nothing in common: the program and the port take theirs together,
the old program then. Two things end the comparison with the old program, each
with a history variable that says so. An echo within a cell of one on the other
side of the border of the old area (`vecinas`): the new program takes the two for
one target, and the old one sees only the far one. And a height followed by a
range that only the new one processes: the old one keeps that height for the next
echo (`alturaCerca`). `VersionesAssumption` is only that JMP5 sets no more miles
than the old program left out.

*Com3* models bytes. `az_alt` and `intrgo` are locals that `lee_altura()` may
read without having written them; that read is a choice of any sector, and of a
range no packet has. `sinLeer` and `cola` are history. The start may be in the
middle of a packet.

*TxSerie* has one action per statement of the loop's tail. `Pronta` says when
the interrupt is served: TRUE, before the next statement of the main loop, is
how a PC behaves when the interrupt is enabled by the loop itself with the
transmitter already empty. With `Pronta = FALSE` TLC finds `NuncaEnVacio`
violated: an interrupt served between the test of `iwr` and the write to
INTER1 makes the next one send from an empty ring.

*Capi*: a function is a record (bytes it moves, what it returns without a
buffer and on an error, whether callbacks may call it, its handler), because
that is all that the library treats differently. A call is a small program
counter per caller, with a step wherever a callback can break in: entering a
level, freeing the old block and asking for the new one, finding the end of the
chain and linking there, the software interrupt, leaving, reading the error.
The services of DOS and of DPMI that the library calls are operators of their
own (`dpmi_free_dos_memory`, `dpmi_allocate_real_mode_callback_retf`, ...).
`dpmi` chooses the build. `bloque` is what DOS really gave, against `aiAvail`,
what the library believes. `perdido`, `carrera`, and the result kept in a call
are history. `iNetSubErrNo` goes with `iNetErrNo` and is left out.

*Sockets*: each call of `socket.c` is an action with the outcomes of the kernel
and the heap; a call that fails before it changes anything is a stutter and is
left out. The kernel is external: which handles it has given, their mode, and
whether a datagram socket is open. `historia` notes the events that void a
promise (an abort by `WSACleanup()`, a mode the kernel refused).

*Respuestas* gives each call its answer, as a function of the table, of the
arguments and of what the kernel says: the checks of the code in their order,
then the translation of the error. `recvfrom()` has a set of answers: a datagram
socket that it cannot open is told with the kernel's error (:1353), and after a
read that failed it still looks at the caller's room for the sender, by an address
nobody wrote, and may answer WSAEFAULT (:1365-1381). It has no state; its two
properties are checked on the states of `Sockets`, in the run `sockets`.

*Seleccion* takes a step per handle looked at, so that a socket may become
ready, or the kernel fail, between two of them. A timeout is in milliseconds and
becomes ticks as in :1447-1449 (`Tics`): times 91, modulo `W`, divided by 5000.
`Reloj` has the counter of the BIOS modulo a day, and the 32-bit arithmetic of
`Clock()` modulo `W`. The counter may go back a little while `select()` waits
(`Atrasa`), but not through midnight.

*Nombres*: a line of a file is a comment, damaged or an entry. A search reads an
entry per step. An entry keeps `MaxAlias` aliases; at a character that begins no
alias the search never comes back, with the file open (:2020, `Cuelga`); and the
pointers of the aliases may not fit in the buffer (:2031, `larga`), in which case
the search follows those that other lines left there, so what it compares with is
not known (`basura`). `getaddrinfo()` is one step, its searches included
(`Hallables`, `Colgable`). The words of an IPv6 address, and the bytes of an IPv4
one, are numbers; a text is the sequence of what is written.

The words `mutant` in comments mark definitions that no specification uses:
each is a plausible bug in the definition that follows, and replacing the one
by the other makes TLC violate the property that PROJECT.json pairs with it.

## 3. Runs

| Run | Question | Bounds, and why they are enough |
|---|---|---|
| `primario` | safety of the tracker under any input | 16 azimuths (one per sector), five of them used, across north; five ranges: one inhibited, pairs at 4 (edge of the gate), 5, 7, 9 (edge of the tolerance) and 11 counts; ageing in 2 azimuths, so targets are born and die in many overlaps |
| `barrido` | one plot per pass, always, at the middle | the ageing limits of the program (5 and 3), a turn of 16, every start, two objects, presences up to 6 azimuths wide, so that a pass may begin, be silent or end across north. With 10, the most the assumption allows, it passes too (442 k states) |
| `extractor` | what the gate guarantees to the tracker; heights and eco mode across resets. That the azimuths of a session never go back is left to its theorem, `SiempreCreciente` | a turn of 64 (four azimuths per sector), azimuths at both edges of north, a range, a height and a bad word, a FIFO of 2, so that it fills and is emptied in the middle of everything; a height of COM3 of a sector next to north; both modes |
| `antena` | recovery after losses | a turn of 16 and a FIFO of 2: each loss is followed by one azimuth of the wrong session; losses of any length, up to many turns |
| `com3` | order and completeness of heights | a ring of two packets, two packets, one of which has a second false head one byte late |
| `tx_serie` | order and completeness of the output | a ring of 8 and frames of 4 and 3, which wrap at every place |
| `capi` | buffers, errors and callbacks of CAPI | one function of each kind; a length that needs a larger block than a structure; two handlers and two callbacks; a TSR that is found, not found, or only below vector 0x20 |
| `sockets` | table against kernel, and the answers | two handles: all pairs of calls on the same and on different sockets; one port besides "none"; one `WSAStartup()` pending, or one `WSACleanup()` too many |
| `seleccion` | answers and time of `select()` | a day of 3 ticks and a rebound of 2, so a call crosses midnights and the clock is deceived by steps back; integers of 8 values, so the difference wraps and midnights bring the base to 0; a tick at most between readings, and one back in a call; timeouts of none, 0, a tick and a third, and one whose ticks overflow; closed, listening, datagram and non-blocking sockets and the keyboard |
| `nombres` | names, files, conversions | six files with a comment, a damaged line, an alias, more aliases than the two that are kept, a line that hangs before and after the entry, one whose aliases do not fit; 288 requests; bytes of four values, texts of up to five parts at the edges of 1 to 4 bytes; all IPv6 addresses of eight words that are zero or not |
| `versiones` | the first version and the port against this one | a turn of 64 and a FIFO of 2; an azimuth on each side of north; ranges at 64, in the miles that only the new program processes, at 70, a cell away across the border, and at 74, further than a cell from the first but not from the second; a height and a bad word; a height of COM3. A behaviour is followed until the old program need not agree any more (`HastaQueDifieran`): a height is taken for a near range, or echoes on both sides of the border are a cell apart. What the port does after that is in the theorem |

One more run is expected to fail. It takes what a comment says and finds the
code doing something else:

| Run | Said | What the code does |
|---|---|---|
| `norte` | the plot is sent to the tx buffer (`:668`) | `abs(SectorActual - 1)` is 1 in sector 0: plots of sector 15 that end after north are lost to the serial line, and the datagram repeats the one before with its bytes swapped |

Other behaviour that the models show and no run is spent on: the range 0 that
`InicializaPr()` leaves pending becomes a target, and a plot at range 0 inside
the inhibited area, which `FueraDeInhibicion` exempts; alone, the tracker takes
0x8000..0x8002 after any azimuth (`:525`), which `SaltoAcotado` shows to be
harmless behind the gate. While `Flag_alt` is 1 nobody reads COM3; once the
ring laps (with `EsperaMax` at `N` or above) the window joins halves of two
packets, which line 953 takes for a valid one. Exempt in the properties of the libraries, and listed
as hazards: a stale `aiAvail` after a refused allocation or `_DosBufFree()`;
the error number that the DPMI build loses to a callback; four functions that
report the lack of a buffer as success or as an address; two registrations that
race for the end of the chain; the entries that `WSACleanup()` leaves; the mark
that a failed `connect()` leaves; the four entries that `getaddrinfo()` gives
when no service is asked for; a wait cut short by a timeout whose ticks overflow.

No property forbids four behaviours of `Nombres` that its actions have: a search
that never comes back; one that stops at another entry by the aliases of other
lines; the list that `getaddrinfo()` makes and loses when `res` is null (:1194);
the address that `gethostbyname()` keeps when the kernel does not give this
host's.

Fairness. `Barrido` and `Antena` assume that the main loop keeps polling (WF of
its steps: it is an endless loop with no blocking call but the wait of
`TxSerie`) and that the antenna keeps turning (WF; SF in `Antena`, because the
echoes of an azimuth delay the next). `TxSerie` assumes WF of the loop, of the
interrupt and of the UART. `Seleccion` assumes WF of its own steps, as
`select()` polls and never blocks, and of the BIOS clock. Nothing is assumed of
the inputs.

Assumptions of the closed models. `Barrido`: echoes in ascending range, objects
further apart than the tolerance, no object wider than
`VUELTA - max_aus_cons - 1` azimuths; beyond it the arithmetic of `aztfinal`
takes the width a turn too small. `Antena`: what a refusal empties is less than
a sector (`Capacidad - 2 < VUELTA / 16`); with more, a refusal near north may be
followed by another, which TLC confirms at the first value beyond the bound. The
depth of the real FIFO is not in the source. `Com3` and `TxSerie`: the rings do
not overflow (`EsperaMax`, `Lugar`), which the code does not ensure.
`Seleccion`: less than a day between two readings of the clock. Two things deceive
that clock, and `PlazoJusto` exempts them: steps back that add up to a `Rebote`
since the last reading are taken for midnight, and a base that midnights bring to
0 is taken for a clock never read.

Deadlock is checked in every run.

## 4. Theorems

`tlapm` proves, for every value of the constants that satisfies the named
assumptions:

| Theorem | Statement |
|---|---|
| `PrimarioProofs!TipoCorrecto` | types of the tracker |
| `PrimarioProofs!SiempreSeparados` | no two targets within the gate |
| `PrimarioProofs!SiempreFueraDeInhibicion` | no target in the inhibited area, but the range 0 |
| `PrimarioProofs!SiempreCabe`, `SiempreCabeEn1024` | the number of targets is bounded; with `tolerancia` 9 it is below `prs[1024]` |
| `PrimarioProofs!NuncaSePierdeUnEco`, `SiempreSoloCaducan` | the action properties of the run `primario`: no echo is lost, targets leave by ageing or all at once |
| `ExtractorProofs!TipoCorrecto`, `SiempreCreciente` | types, and azimuths of a session never go back |
| `ExtractorProofs!ImplementaCompuerta` | the program implements the gate: `ESpec => Spec` of `CtrlFifo` |
| `ExtractorProofs!SiempreRastreo` | the tracker's invariants hold in the program |
| `ExtractorProofs!SiempreCoherentes`, `SiempreEcoFiel` | the tracker's azimuth is the gate's; eco datagrams are their own |
| `ExtractorProofs!SiempreSaltoAcotado`, `SiempreRepetidoAlEmpezar`, `SiempreAlturaUnaVez` | the action properties of the run `extractor` |
| `ExtractorProofs!SiempreAcotados`, `SiempreSoloTrasPerdida` | with a working radar the gate refuses one word at most per loss, and the tracker an azimuth only at the beginning of a session |
| `ExtractorProofs!SiempreCoherentesConAntena` | the invariants of `Extractor` and of the tracker with those words |
| `TxSerieProofs!TipoCorrecto`, `SiempreConDatos` | types; with prompt interrupts, `TxBuf()` never runs on an empty ring |
| `TxSerieProofs!ImplementaPasosDeCola` | the ring implements the queue of `ColaBytes`, initial states and steps |
| `Com3Proofs!TipoCorrecto` | types of ring, window and height, even when the ring laps |
| `Com3Proofs!NadaFalta`, `SiempreEnOrden` | every property of the run `com3` |
| `SocketsProofs!TipoCorrecto`, `NuncaHayFugas`, `SiemprePuertoUnico`, `SiempreModoAcorde`, `SiempreAbierto` | types, and the invariants of the run `sockets` about the table |
| `SocketsProofs!SiempreBloqueoJusto`, `NadaSeHereda` | its properties about answers |
| `SocketsProofs!PlazoDelReloj` | `select()` comes back less than a tick before its time and a few ticks after it at most, for any timeout in milliseconds, through midnights and steps back, while the clock is not deceived |
| `SocketsProofs!SiempreRespuestaFiel` | what `select()` returns is what was ready, in its order |
| `NombresProofs!TipoCorrecto` | types |
| `NombresProofs!SiempreBuscaExacta` | a search that comes back gives the first entry it is for, before any line that does not parse or does not end; or one before it whose aliases did not fit |
| `NombresProofs!SiempreListaPedida` | `getaddrinfo()` lists what was asked for, each once |
| `NombresProofs!SiempreInetAddrExacta` | `inet_addr()` reads what a text writes, and undoes `inet_ntoa()` |
| `VersionesProofs!SiempreMismosPlots` | the port sends the plots of the program, but for their heights |
| `VersionesProofs!SiempreMismosBlancos` | the program and the version it replaced follow the same far targets, until echoes come within a cell of each other across the border or a height is followed by a near range |
| `CapiProofs!TipoCorrecto`, `SiempreEquilibrados`, `SiempreErrorPropio`, `SiempreSinExitoFalso`, `SiempreBloqueVivo`, `SiempreCadenaExacta` | types, and every invariant of the run `capi` |

*Primario.* The inductive invariant `IInv` is the conjunction of the
invariants and of one fact about the echo pending: it is 0 or outside the
inhibited area (`Admitido`). Without it `FueraDeInhibicion` is not inductive,
as `Registra` moves that echo to `prs`. Three lemmas carry the proof: what
`RemoveAt` keeps, what a change of age or height keeps, and what `Registra`
does, which appends only an echo that correlates with nobody: that is
`Separados`. The step is split by kind of word (`PasoAzimut`, `PasoEco`,
`PasoBarre`). The capacity follows from `IInv` alone: each target falls in a
cell of `Puerta + 1` counts of the range scale, two targets in a cell would be
within the gate, so by the pigeonhole principle there are no more targets than
cells. `EcoNoSePierde` needs that the search for the nearest target finds one
whenever there is one within the gate: the distances are naturals, so a least
one exists. An echo that is not taken by it correlates with nobody and is
appended. `SoloCaducan` is a case per action: the only one that shortens `prs`
without emptying it is the end of an iteration of the ageing loop.

*CtrlFifo.* `UltimoEsAzAnt`: in a session that has given an azimuth, `AzAnt` is
that azimuth. It holds because every refusal ends the session; `AzAnt` itself
survives.

*Extractor.* Each of its steps is one of the gate or leaves it alone, so the
gate's invariant is had for nothing; the tracker's comes from an instance of
`PrimarioProofs`, whose assumptions are proved of the words that the FIFO can
hold. `EIInv` adds `Coherentes` and, for the eco mode, that the azimuth is in
the sector of the last header (`EnEco`). `SaltoAcotado` then is arithmetic: a
word that the gate lets through is not behind `AzAnt`, `AzAnt` is the tracker's
azimuth, and what the lax window adds is the three azimuths after north, which
the gate lets through from sector 15 only.

*Antena.* `AIInv` says that what is still to be read is in order. The words of
the FIFO and, behind them, the azimuth that the antenna will send next are one
sequence (`Cola`); two azimuths of it are never further apart than the words
between them, and with no azimuth in between they are consecutive (`Seguidas`).
Its first azimuth is at most a sector ahead of `AzAnt`, unless a loss is still to
be paid for (`margen`), and is the next after the last azimuth of the session
(`Proxima`). A height is followed by its range (`Emparejadas`), so the gate
refuses no second height. A full FIFO is where `AntenaAssumption` is used: what
is emptied is less than a sector, so after one refusal, which makes `AzAnt` the
first azimuth after the gap, the order holds again. North enters as
arithmetic modulo `VUELTA` (`NoRetrocede`).

*TxSerie.* `HayQueMandar`: from the test of `iwr` to the interrupt nobody else
takes a byte, and an enabled interrupt is at once up. It needs `Pronta`. The
refinement maps the queue to `EnCola` bytes of the ring from `ird` on
(`Pendientes`), and adds that they are fewer than the ring has places
(`Lugar < N`), so the bytes of a frame go to places that no waiting byte has.
Remainders are dealt with once (`UnaVuelta`): a turn is all that is taken away.

*Com3.* The last seven bytes read, those in the ring and those on the line are
one stream (`Flujo`), and `Antes` is the place in it just before the first packet
not delivered. `C3Inv` says that the packets follow from there, byte by byte, and
that what is before is the tail of one packet or the zeros of the start. A
window in step finds the packet; one out of step may find the two 0xFF one byte
late, and then an azimuth, but never a height, because the place of its mark
holds another. So `ok3` is never left set, and a height is delivered exactly
when its last byte is read. The hypotheses are the format of line 953
(`Formados`; both packets of the run have it) and a ring that does not overflow
(`EsperaMax < N`), without which both theorems are false.

*Sockets.* All but `PuertoUnico` is about one handle, `Bien(s)`, and a call
leaves the others alone, so one lemma (`UnSocket`) reduces a step to its handle.
The strengthening: a handle that is not in the table has no history, and an
entry whose port was searched for says that it is bound and has a port; without
it `listen()` could replace that port unseen. `BloqueoJusto` follows from
`ModoAcorde` and the translation of errors, case by case; `SinHerencia` from a
handle out of the table having nothing.

*Seleccion.* The state of a call is compared with the reading of the clock, all
modulo `W`: `Lleva` says by how much the clock has gone on since the call, which
is what has passed but for the ticks since the last reading, for the few that
the clock was ahead of a counter that stepped back, at the beginning and now,
and for those before its first base. Each reading adds what it should, across
midnight and through steps back (lemma `Otra`). A reading is past the time or not
past it by the sign of a difference modulo `W`; the product of the timeout is
reduced modulo `W` before it is divided by at least two, so ticks are under half
the modulus, and a reading after which the call goes on is short of its time. So the
signed comparison of `socket.c` is that of the times (`Comparacion`). `Demora` is
what those corrections can add. There is no hypothesis on the timeouts or on the
modulus. What deceives the clock is in the state (`espera.falsa`): steps back that
add up to a `Rebote`, and a base that wraps to 0 (`SinBase`). The code takes a base
of 0 for a clock never read. Each midnight takes a day from the base, and 2^32 is
not a whole number of days of 0x1800b0 ticks, so after some 2730 midnights, 7.5
years on, it may be exactly 0; then the next reading begins a new clock and the
call in course waits longer.

`RespuestaFiel` needs its own invariant, `RfInv`, about a call half way. Of each
set the handles already looked at are compacted (`Compactado`): those kept stand
at its beginning, placed from where they were by an increasing function
(`EnSitio`), and the rest is still as given; each one kept was ready when looked
at, and none that was ready since the pass began is missing. `retv` is the sum of
what the finished sets keep (`Contado`). It holds while other things happen
because a peek changes nothing that `select()` reads (`Quieta`) and what happens
only adds events, so a handle that was ready stays so (`SigueListo`), but for the
error of a kernel that failed to answer. `PeticionesAssumption` says only that
the tables are tables of sockets and the sets hold what may be handles.

*Capi.* `IInv` adds to `NivelesEquilibrados` where each call may be (`Forma`):
a level is held in five places of a call, the main line does not move while the
handler runs, and a handler that ends holds nothing. On top of it three more
inductive invariants, one per question: `IErrores` (what `iSaveNetErrNo` keeps
for the main line), `IBloques` (`aiAvail` is honest for every level not
`perdido`, and a call past its measure fits in it), and `ICadena` (while a call
is about to link, the chain is as long as when it looked, unless there was a
race). Each step is first summed up (`Sola`, `Nivela`, `Coloca`, `Declara`,
`Salvo`), so that the proofs of the invariants do not expand the actions again.

*Nombres.* `NIInv` adds three things to the types: while a file is read, every
line passed so far is one that a search goes on from, and none matches
(`Pasadas`); a list that was returned is the one that its request and the
answers it got make (`DelPedido`); and a conversion is that of its own argument
(`Convertido`). `BuscaExacta` follows from `Pasadas`: the line at which a search
stops is the least of those that end it, and the entry it gives is what that line
says (`EntradaLeida`, `SeParaEnLaPrimera`). `ListaPedida` follows from
`DelPedido`: `getaddrinfo()` makes one turn for each family and protocol, so its
list is the concatenation of four that have an entry or none (`Cuatro`), and two
entries are never the same because their turns differ; `OrdenDeRed` is the fact
about the order of bytes. `InetAddrExacta` is arithmetic: a text of one to four
parts is unfolded by cases (`PartesDeUnTexto`) and what is read from the bytes
that were written is the number again (`LeeLoEscrito`), for every size of byte,
from the uniqueness of quotient and remainder.

*Versiones.* `Acoplado`: gate and tracker of the port are equal to those of the
program, variable by variable, but for the height of COM3, and the last frame is
equal but for the height of a plot. That is `MismosPlots`. The gate is deterministic (`PasoPuerta`), so
two gates that agree take the same step; that the three classes of words are
disjoint (`Aparte`) is what makes it so. The tracker is deterministic but for
which height a plot is given, and no variable reads that height back. Nothing
ever sets `Flag_alt` in the port. The types come from `EIInv` of
`ExtractorProofs`.

The program and the version it replaced do not agree step by step: the program
has targets in the near miles, and its ageing loop takes a turn for each. So
`BInv`, for `MismosBlancos`, compares what both must agree on. The gates are
equal. The trackers agree (`Acorde`) as long as no height is taken for a near
range: the window of azimuths and the height that waits for its range are equal;
an echo that waits is far in one if and only if it is in the other, and the same;
and the far targets that the ageing loop will leave, as it will leave them, are
the same in the same order (`Seguiran`). The order is part of it because a search
gives an echo to the first of two targets that are equally near. A near echo is
never within the gate of a far target nor a cell of one (`Alejados`), as
long as `Vivos`, the echoes that either program follows or has pending, and the
word just read are `Separadas` (`vecinas`), so whatever the program does with it, the far targets stay
(`AnotadaCerca`); a far echo is given to the same target by both, or is a new one
for both (`MismoElegido`, `AnotadaLejos`). A turn of the loop does what was going
to be done (`AlEnvejecer`, `AlQuitar`). The lemmas about lists of targets do not
mention the state of a tracker and are in `ExtractorProofs`, where there are fewer
definitions for the provers to carry. `VersionesAssumption` is what the comparison
needs of the constants: an inhibited area of at most fifteen miles, as JMP5 sets 3
or 7.

Three definitions were rewritten so that the provers can reason about them. A
search chooses by its kind what it compares with one IF after another (`Igual`);
the condition with which `inet_addr()` refuses a part is a list of conditions;
`RespuestaFiel` says "subsequence" by where each handle was (`Subsecuencia`), and
not with a filter, which is recursive.

Only model-checked:

- Liveness, which is out of the reach of the prover: `Recupera`, `Regresa`, and
  the liveness half of `ImplementaCola` and of `ImplementaDeteccion`.
- `ImplementaDeteccion`, also in its steps: the mapping computes what the antenna
  has shown of each object from the whole of `prs`.
- `NtopReversible`, about the run of zeros that a fold finds: an induction over
  data.

## 5. Not modelled

- The set-up of ports, vectors and jumpers, and the UDP socket of the program:
  their errors are printed and change no state.
- `priwest2x.c`: its serial output and its reader of COM3, line by line those of
  `priwest2x_new.c`.
- The set-up of detector and threshold of the port, and `puente()`, which its
  `main()` does not call; `pri113/pri113.c` and `VIEJOpri113.c`, the file the port
  began as and a sample of it; two sample programs of datagrams.
- `socket.c`: `gethostbyaddr`, which always answers that there is no data,
  `gai_strerror`, the addresses that calls return, the traces, and the heap of
  `getaddrinfo()`: which of its blocks a failure gives back, and which it leaves.
- Headers. About half of the 18,594 lines of the repository are headers, in
  several copies (`API.H`, `socket.h`, `COMPILER.H`), mostly declarations of
  calls of the kernel. There is no behaviour in them to model: with the older
  sources of the port they are why the map covers less than a third of the lines.

## 6. Plan

Done: the tracker and its abstract specification, the eco mode, the gate, their
composition, its recovery, its first version and its port, COM3, the serial
output, CAPI, the BSD layer, and the theorems above.

Left: `Extractor` with `Com3` and `TxSerie` in place of their interfaces.
