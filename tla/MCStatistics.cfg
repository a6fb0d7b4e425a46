\* binstat.py with its default columns and percentile.py, over every input of up
\* to three lines.
CONSTANTS
  Scripts = {"binstat", "percentile"}
  Columns <- DefaultColumns
  Tokens <- TimeValueTokens
  MaxLines = 3

SPECIFICATION Spec

INVARIANT BinsAreNearest
INVARIANT QuantilesAreQuantiles
