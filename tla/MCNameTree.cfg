CONSTANTS
  a = a
  b = b
  Empty = Empty
  Component = {a, b}
  Length <- MCLength
  Path <- MCPath
  System = system
  Zero = zero
  Capability = {system, zero}
  File = {zero}
  MaxNode = 4
  MaxElement = 5
SPECIFICATION Spec
INVARIANTS
  TreeConsistent
  
  SearchFindsLongestPrefix
  ImplementsDirectory
