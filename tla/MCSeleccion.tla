---------------------------- MODULE MCSeleccion ----------------------------
(* Tables that Sockets can reach, and the calls a client makes: two        *)
(* sockets and the keyboard, one of the sockets closed or not.             *)
EXTENDS Seleccion

CONSTANTS s1, s2

Entrada(tipo, banderas) ==
  [bType |-> tipo, wPort |-> 0, wFlags |-> banderas, wOption |-> {}]

Kernel(no, udp) == [nb |-> no, abierto |-> udp]

MCTablas ==
  { [psScbs |-> (s1 :> Entrada("DGRAM", {})), nucleo |-> (s1 :> Kernel(FALSE, FALSE))],
    [psScbs |-> (s1 :> Entrada("STREAM", {"BOUND", "LISTEN"})
                 @@ s2 :> Entrada("STREAM", {"BOUND", "NONBLOCK"})),
     nucleo |-> (s1 :> Kernel(FALSE, FALSE) @@ s2 :> Kernel(TRUE, FALSE))] }

(* A tick and a third; and more than fit: 6 * 4 % W is 0, no ticks. *)
MCTiempos == {SinPlazo, 0, 1, 6}

MCEventos == {<<STDIN, "lee">>, <<s1, "lee">>, <<s2, "mal">>, <<s2, "escribe">>}

Pide(l, e, x) == [lee |-> l, escribe |-> e, excep |-> x]

MCPeticiones ==
  { Pide(FDSet(STDIN, FDSet(s1, <<>>)), <<>>, <<s1>>),
    Pide(<<s1, s2>>, <<s2>>, FDClr(s1, <<s1, s2>>)) }
=============================================================================
