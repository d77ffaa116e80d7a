SPECIFICATION Spec
CONSTANTS
  Sessions = {s1, s2, s3}
  Urls = {u1, u2, u3, u4}
  Values = {v1, v2}
  NotKept = NotKept
  Nothing = Nothing
  MaxCount = 3
SYMMETRY Alike
INVARIANT TypeOK
PROPERTIES
  HeldMessageKept
  FullCacheAdmits
