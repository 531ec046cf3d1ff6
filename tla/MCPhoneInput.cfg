SPECIFICATION Spec
CONSTANTS
  Doings <- MCDoings
  MaxLosses = 1
  Ids = {0, 1, 2}
  MaxFingers = 3
  Fingers = {0, 1}
  Words <- MCWords
  Mappable = {"a"}
  MaxText = 3
  Copies = {t1, t2}
  NoText = NoText
SYMMETRY Symmetry
INVARIANTS
  ContactsTrue
  SeatQuiet
  ImeText
  ClipboardsAgree
CHECK_DEADLOCK FALSE
