CONSTANTS
  Publisher = {p1, p2}
  Name = {n, m}
  Engine = {e}
  Rev = {r1, r2}
  Legacy = {n}
  Watched = {n}
  None = None
  MaxDir = 3
  MaxCheck = 2
  MaxKill = 1
SPECIFICATION Spec
INVARIANTS VisibleIsWhole  
 
