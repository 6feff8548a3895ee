\* A collection, alone in the store, between two jobs that share a datum.
SPECIFICATION Spec
CONSTANTS
  Shas = {s1, s2}
  Holders = {c1, t1, d1}
  Datums = {d1}
  Tags = {t1}
INVARIANTS
  CarriedReadable
CHECK_DEADLOCK FALSE
