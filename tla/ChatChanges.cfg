SPECIFICATION Spec
CONSTANTS
  Msg = {1}
  Dev = {a}
  Item = {1, 2}
  OpKinds = {"edit", "delete"}
  Routes = {TRUE}
  Links = {}
  Upsets = {"late", "reply", "death", "disk", "reopen", "refuse"}
  MaxUpsets = 1
  None = None
INVARIANT TypeOK
INVARIANT ChangeNotForgotten
PROPERTY UnsentStaysGone
CHECK_DEADLOCK FALSE
