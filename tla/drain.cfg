SPECIFICATION FairSpec
CONSTANTS
  c1 = c1
  c2 = c2
  c3 = c3
  b1 = b1
  b2 = b2
  m1 = m1
  m2 = m2
  m3 = m3
  m4 = m4
  m5 = m5
  Conn = {c1, c2, c3}
  Letters = {}
  Batch = {b1, b2}
  Replies = {}
  Msg = {m1, m2, m3, m4, m5}
  NoBatch = NoBatch
  BatchOf <- Batches
  To <- Connections
  Via <- Vias
  Chunk = 2
  Rejoining = {}
  MaxQuits = 1
  MaxRefused = 1
  MaxFails = 1
PROPERTY EveryMessageLeaves
