SPECIFICATION FormsSpec
CONSTANTS
  OpenDevices = {d1, d2}
  NoOwner = NoOwner
  MaxVersion = 2
  MaxFormSubmits = 1
  MaxSelects = 1
INVARIANT UserTagsWin
