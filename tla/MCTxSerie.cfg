CONSTANTS
  N = 8
  Tramas <- MCTramas
  Libre = Libre
  Pronta = TRUE
  Lugar = 7
SPECIFICATION Spec
INVARIANTS NuncaEnVacio
PROPERTIES ImplementaCola
