CONSTANTS
  Dialogs = 2
  Contents = {c1, c2}
  Requests = {r1, r2}
  None = None
  Blank = Blank
  c1 = c1
  c2 = c2
  r1 = r1
  r2 = r2
  MaxUp = 2
  Menus = 0
  Looks = {c1}
  Askers = {r1}
  NoLook = NoLook
SPECIFICATION LegacySpec
CHECK_DEADLOCK FALSE
PROPERTIES LegacyKeysGoToNamedPrompt
