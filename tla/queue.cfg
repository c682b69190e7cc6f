SPECIFICATION Spec
CONSTANTS
  c1 = c1
  c2 = c2
  c3 = c3
  b1 = b1
  b2 = b2
  m1 = m1
  m2 = m2
  m3 = m3
  m4 = m4
  m5 = m5
  Conn = {c1, c2, c3}
  Letters = {c2}
  Batch = {b1, b2}
  Replies = {b2}
  Msg = {m1, m2, m3, m4, m5}
  NoBatch = NoBatch
  BatchOf <- Batches
  To <- Connections
  Via <- Vias
  Chunk = 2
  Rejoining = {c1, c3}
  MaxQuits = 3
  MaxRefused = 1
  MaxFails = 2
INVARIANT TypeOK
INVARIANT SentOncePerFailure
INVARIANT OnlyQueuedIsSent
INVARIANT ClosedTextIsOut
PROPERTY QueueIsOutbox
