SPECIFICATION Spec
CONSTANTS
  Files = {main, mod}
  StartFile = main
  Lines = {1}
  MaxNest = 2
INVARIANT RequireSucceeds
