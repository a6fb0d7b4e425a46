\* percentile.py --cdf over every input of up to three values.
CONSTANTS
  Scripts = {"percentile"}
  Columns <- DefaultColumns
  Tokens <- TimeValueTokens
  MaxLines = 3

SPECIFICATION Spec

INVARIANT CdfIsEmpirical
