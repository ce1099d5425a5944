CONSTANTS
  Threads = {t1, t2, t3}
  Pages = {p1, p2, p3, p4}
  Offsets = {o1}
  Files = {f}
  Anonymous = {a}
  Copies = {c}
  Source <- const_Source
  None = None
SYMMETRY SameUnder
SPECIFICATION Spec
INVARIANTS
  OnePage
  PagesAccounted
  ResultUsable
  SomebodyGoesOn
