CONSTANTS
  N = 16
  EsperaMax = 15
  Paquetes <- MCPaquetes
SPECIFICATION Spec
INVARIANTS NadaSeQueda
PROPERTIES EntregaEnOrden
