SPECIFICATION Spec
CONSTANTS
  p1 = p1
  p2 = p2
  u1 = u1
  u2 = u2
  r1 = r1
  r2 = r2
  Packages = {p1, p2}
  Users = {u1, u2}
  Admins = {u2}
  Requests = {r1, r2}
  UserOf <- OneEach
  NoPackage = NoPackage
SYMMETRY Symmetry
INVARIANTS SentIsFound OwnPackagesOnly OwnPackageIsValid
PROPERTIES GetFindsExisting ListIsComplete
