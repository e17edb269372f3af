SPECIFICATION NetFairSpec
CONSTANTS
  Empty = Empty
  NoOne = NoOne
  Daemons = {d1, d2}
  Rubbish <- MCRubbish
  Clients = {c1}
  Bounds <- MCBounds
PROPERTIES RequestIsAnswered
