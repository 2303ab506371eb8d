CONSTANTS
  k1 = k1
  k2 = k2
  k3 = k3
  t1 = t1
  t2 = t2
  w1 = w1
  w2 = w2
  full = full
  partial = partial
  Answers <- MCAnswers
  NoKey = NoKey
  NoFile = NoFile
  Key = {k1, k2, k3}
  Applies = {k1, k2, k3}
  WellFormed = {k1, k2, k3}
  Provenance <- MCProvenance
  Complete = {full}
  Early = {k2}
  Thread = {t1, t2}
  Writer = {w1, w2}
  MaxIntents = 2
  MaxLosses = 1
SPECIFICATION Spec
INVARIANTS SentAtMostOnce SentIsNotForgotten VerdictIsOfEvents PublishedIsOnDisk
PROPERTIES FileNeverGoesBack ProjectionPublishes
CHECK_DEADLOCK FALSE
