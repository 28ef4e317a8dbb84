CONSTANTS
  Dialogs = 2
  Contents = {c1, c2}
  Requests = {r1, r2}
  None = None
  Blank = Blank
  c1 = c1
  c2 = c2
  r1 = r1
  r2 = r2
  MaxUp = 2
  Menus = 2
  Looks = {c1, c2}
  Askers = {r1, r2}
  NoLook = NoLook
SPECIFICATION DialogSpec
CHECK_DEADLOCK FALSE
INVARIANTS GatesInv DialogsInv
PROPERTIES AnswersSpareOtherGates NoPhantomQuestion ScreenQuestionKept
