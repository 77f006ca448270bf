SPECIFICATION Spec
CONSTANTS
  p1 = p1  p2 = p2  p3 = p3
  Procs = {p1, p2}
  Nobody = Nobody
SYMMETRY Symmetry
INVARIANT PreparedIsFinished
