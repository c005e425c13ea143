SPECIFICATION Spec
CONSTANTS
  Handles = {h1}
  Conns = {c1, c2}
  Workers = {w1}
  None = none
  Sizes = {1}
  HighWater = 2
  MaxReqs = 2
PROPERTY ConnChecked
