CONSTANTS
  f1 = f1
  f2 = f2
  r1 = r1
  r2 = r2
  g1 = g1
  g2 = g2
  i1 = i1
  i2 = i2
  i3 = i3
  Path = {f1}
  Region = {r1}
  Absent = Absent
  GenValue = {g1, g2}
  UserValue = {u1}
  Marker = Marker
  Input = {i1, i2, i3}
  Output <- FileDropped
  Trunk = master
  UserBranch = {master}
  Kitchen = kitchen
  Detached = HEAD
  Modes = {"once", "live"}
  UserOps = {"edit", "commit"}
  StartWith = {"nothing"}
  MayFail = FALSE
  MayCrash = FALSE
  EditsDuringRun = FALSE
  MaxCommits = 7
SPECIFICATION Spec
INVARIANTS
  GitStepsSucceed
