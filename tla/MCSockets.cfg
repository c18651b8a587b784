CONSTANTS
  s1 = s1
  s2 = s2
  Descriptores = {s1, s2}
  MaxPuerto = 1
  Opciones = {"REUSEADDR", "LINGER"}
  MaxArranques = 1
  Errores = {"ERR_WOULD_BLOCK", "ERR_RE_ENTRY", "ERR_NOT_ESTAB"}
SYMMETRY Simetria
SPECIFICATION Spec
INVARIANTS SinFugas PuertoUnico ModoAcorde ConectadoEsAbierto BloqueoJusto
PROPERTIES SinHerencia
