SPECIFICATION Spec
CONSTANTS
  Low = 20
  High = 80
  Half = 50
  Band = 10
  Top = 99
  Postures <- MCPostures
  Erased = Erased
INVARIANTS
  HeaderMeansData
