SPECIFICATION DialogsSpec
CONSTANTS
  Dialogs = {"menu", "list", "input", "text", "question"}
  Lists <- MCLists
  MaxLines = 4
  Letters = {"a", "b"}
  HotKey <- MCHotKey
  Tagged = {0, 1, 2, 3, 4}
  Members <- MCMembers
  list_height = 3
  Member = {0, 1, 2, 3, 4}
  Chars = {"a", "b"}
  MAX_LEN = 6
  box_width = 3
  Inits <- MCInits
  Texts <- MCTexts
  Heights = {1, 2, 3, 4}
  JUMP_NB = 2
  MAX_SHIFT = 2
  MaxKeys = 4
INVARIANTS
  TypeOK
  MenuShown
  AnswersShown
  PagesKept
PROPERTIES
  CursorKept
  AnswersTaken
  LinesKept
CHECK_DEADLOCK FALSE
