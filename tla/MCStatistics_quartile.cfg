\* hspread.py over two or three files of up to two lines.
CONSTANTS
  Scripts = {"hspread"}
  Columns <- DefaultColumns
  Tokens <- TimeValueTokens
  MaxLines = 3

SPECIFICATION Spec

INVARIANT HSpreadIsInterquartile
