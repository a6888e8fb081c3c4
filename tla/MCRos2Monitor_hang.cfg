SPECIFICATION Spec
CONSTANTS
  Checkers = {c1}
  Expected = {n1}
  Topics = {t1}
  Rates = {"absent", "bad", "good"}
  Free = Free
PROPERTY CheckReturns
