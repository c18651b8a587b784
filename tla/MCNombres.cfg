CONSTANTS
  BYTE = 4
  MaxAlias = 2
  Archivos <- MCArchivos
  Buscados <- MCBuscados
  Nodos <- MCNodos
  Anfitrion = "este"
  Pedidos <- MCPedidos
  Textos <- MCTextos
  Direccion6 <- MCDireccion6
SPECIFICATION NSpec
INVARIANTS ListaPedida InetAddrExacta NtopReversible
PROPERTIES BuscaExacta
