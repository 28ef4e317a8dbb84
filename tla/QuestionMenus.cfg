SPECIFICATION QuestionsSpec
CONSTANTS
  Menus = 1
  Looks = {l1}
  NoLook = NoLook
  Askers = {r1}
INVARIANTS RefusedWritesNothing
CHECK_DEADLOCK FALSE
