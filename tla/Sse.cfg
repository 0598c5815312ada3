CONSTANTS
  m1 = m1
  m2 = m2
  m3 = m3
  t1 = t1
  t2 = t2
  Messages = {m1, m2, m3}
  Threads = {t1, t2}
  ThreadOf <- MCThreadOf
  Script <- MCScript
  NoId = NoId
  Window = Window
  MaxText = 1
  MaxRead = 2
  MaxTorn = 1
SPECIFICATION Spec
INVARIANTS TypeOK InOrder NothingHeld ContentKept RightId
CHECK_DEADLOCK FALSE
