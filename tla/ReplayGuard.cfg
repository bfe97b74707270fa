SPECIFICATION ReplaySpec
CONSTANTS
  k1 = k1
  Envelopes = {e1, e2, e3}
  Senders = {k1}
  KeyOf <- MCOneSender
  Handlers = {h1, h2}
  TTL = 2
  Past = 2
  Future = 1
  Cap = 2
  MaxTime = 5
  MaxSkew = 2
  MaxRestarts = 1
  Nil = Nil
SYMMETRY Symmetry
PROPERTIES HandledOnce
CHECK_DEADLOCK FALSE
