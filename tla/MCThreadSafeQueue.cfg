SPECIFICATION Spec
CONSTANTS
  Producers = {p1, p2}
  Consumers = {c1, c2}
  Values = {v1, v2}
  NoValue = NoValue
  NoThread = NoThread
  MaxPushes = 3
INVARIANTS
  TypeOK
  NoLostWakeup
  InOrderExactlyOnce
PROPERTY
  ImplementsFifo
