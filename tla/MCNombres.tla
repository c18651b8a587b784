----------------------------- MODULE MCNombres -----------------------------
(* Files with every kind of line before, at and after the one sought, of   *)
(* more aliases than are kept, that hang and whose aliases do not fit;     *)
(* a host with addresses of both families, one with none.  Bytes have four *)
(* values.                                                                 *)
EXTENDS Nombres

Renglon(que, n, num, proto, alias, larga) ==
  [que |-> que, nombre |-> n, num |-> num, proto |-> proto, alias |-> alias, larga |-> larga]

MCArchivos ==
  LET Entra(n, num, proto, alias) == Renglon("entrada", n, num, proto, alias, FALSE)
      eco    == Entra("echo", 7, "tcp", <<"prueba">>)
      ecou   == Entra("echo", 9, "udp", <<>>)
      otro   == Entra("web", 7, "udp", <<"http", "echo">>)
      tres   == Entra("web", 9, "tcp", <<"www", "http", "echo">>)
      malo   == Entra("nfs", 9, "udp", <<"http", Malo>>)
      sobra  == Entra("nfs", 9, "udp", <<"sun", "mount", Malo>>)
      largo  == Renglon("entrada", "web", 9, "tcp", <<"http">>, TRUE)
      nada   == Renglon("nada", Nadie, 0, Nadie, <<>>, FALSE)
      rota   == Renglon("rota", Nadie, 0, Nadie, <<>>, FALSE)
  IN  {<<>>, <<otro, nada, rota, eco>>, <<eco, otro, ecou>>, <<tres, sobra, eco>>,
       <<ecou, malo, eco>>, <<largo, eco, otro>>}

MCBuscados ==
  LET B(de, por, n, num, proto) ==
        [de |-> de, por |-> por, nombre |-> n, num |-> num, proto |-> proto]
  IN  {B("services", "nombre", n, 0, p) : n \in {"echo", "http"}, p \in {Nadie, "tcp", "udp"}}
        \cup {B("services", "numero", Nadie, htons(n), p) : n \in {7, 9}, p \in {Nadie, "udp"}}
        \cup {B("protocol", "nombre", "web", 0, Nadie), B("protocol", "numero", Nadie, 7, Nadie)}

MCNodos == "este" :> {"INET"} @@ "otro" :> {"INET", "INET6"} @@ "nulo" :> {}

(* The service "7" is a number, "echo" and "ftp" are names. *)
MCPedidos ==
  { [nodo |-> n, servicio |-> s, num |-> IF s = "7" THEN 7 ELSE Cerrado, familia |-> f,
     tipo |-> t, proto |-> p, pasivo |-> v] :
      n \in {"otro", "nulo", Nadie}, s \in {"7", "echo", "ftp", Nadie},
      f \in {"UNSPEC", "INET", "INET6"}, t \in {Nadie, "udp"}, p \in {Nadie, "tcp"},
      v \in BOOLEAN }

MCTextos == UNION {[1 .. n -> {0, 3, 4, 16, 64, 256}] : n \in 1 .. 5}

MCDireccion6 == [1 .. 8 -> {0, 1}]
=============================================================================
