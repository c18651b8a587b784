CONSTANTS
  s1 = s1
  s2 = s2
  STDIN = STDIN
  Descriptores = {s1, s2}
  MaxPuerto = 0
  Opciones = {}
  MaxArranques = 1
  DIA = 3
  Rebote = 2
  W = 8
  Mil = 3
  CLOCK_DIVISOR = 4
  CLOCK_MULTIPLIER = 1
  Tablas <- MCTablas
  Peticiones <- MCPeticiones
  Tiempos <- MCTiempos
  Eventos <- MCEventos
  MaxSinMirar = 1
  MaxAtras = 1
SPECIFICATION SSpec
INVARIANTS PlazoJusto
PROPERTIES RespuestaFiel Regresa
