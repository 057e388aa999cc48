SPECIFICATION Spec
CONSTANTS
  Cpus = {c1, c2}
  NoCpu = NoCpu
  total_rows = 2
  total_columns = 3
  TAB_WIDTH = 2
  KPRINTF_BUF_SIZE = 4
  Messages <- MCMessages
  MAX_MESSAGES = 3
  INT_BITS = 8
INVARIANTS
  MessagesWhole
  ScreenShowsTheEnd
PROPERTY FormattingRight
