SPECIFICATION AnswerSpec
CONSTANTS
  K = 6
  Distances = {0, 1, 2, 3}
  VALUE_MAX = 9
PROPERTIES
  ImplementsKNearest
