SPECIFICATION FairSpec
CONSTANTS
  ant = ant
  Apple = Apple
  zero = zero
  t1 = t1
  t2 = t2
  x = x
  y = y
  TABLE_SIZE = 26
  Keys = {ant, Apple, zero}
  Values = {x, y}
  Initial <- MCInitial
  Absent = Absent
  Removed = Removed
  None = None
  Threads = {t1, t2}
  Commands <- MCCommands
INVARIANTS TypeOK TableOK StoreInv
PROPERTIES BatchesAtomic LockReleased
