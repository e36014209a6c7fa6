SPECIFICATION Spec
CONSTANTS
  Wide <- MCWide
  MaxMarks = 3
  Id = {i1, i2, i3, i4}
  Thread = {t1, t2}
  Comment = {c1, c2}
  Kind = {1, 2}
  Texts <- MCTexts
  Fresh <- MCFresh
  None = None
  Limit = 1
  Focus = {"text"}
  MaxOps <- MCMaxOps
SYMMETRY Sym
INVARIANT AnchorsFollow
CHECK_DEADLOCK FALSE
