CONSTANTS
  Largos = {120}
  Usadas <- MCUsadas
  Errores = {21}
  Manejadores = {"h1", "h2"}
  Vectores = {16, 97}
  MaxRmcb = 2
SPECIFICATION Spec
INVARIANTS NivelesEquilibrados BloqueVivo ErrorPropio SinExitoFalso CadenaExacta
