---------------------------- MODULE MCStatistics ----------------------------
(***************************************************************************)
(* The statistics scripts over every small input: the state is the input  *)
(* of one run of a script (its lines and its arguments), and a step       *)
(* replaces it by another.  The properties compare what the script prints *)
(* with the reference definition of a p-quantile: a value v of a list of  *)
(* n values such that at most p * n of them are below v and at least      *)
(* p * n are at most v.                                                    *)
(***************************************************************************)
EXTENDS Statistics

CONSTANTS
  Scripts,    \* the scripts whose inputs are enumerated
  Columns,    \* binstat.py's <<time_column, x_column, y_column>> choices
  Tokens,     \* the lines binstat.py may read, as tuples of columns
  MaxLines    \* the longest input of binstat.py and percentile.py

VARIABLE input

(* binstat.py's default columns: x is the time column, y the second.       *)
DefaultColumns == {<<1, 1, 2>>}
TimeValueTokens == (-1..2) \X (0..1)

(* --x_column 2 --y_column 3: x is a column of its own.                    *)
XColumns == {<<1, 2, 3>>}
TimeXValueTokens == {0} \X (-1..1) \X {1}

Quantiles == {<<0, 1>>, <<1, 2>>, <<19, 20>>, <<1, 1>>}

BinstatInputs ==
  [script : {"binstat"},
   lines  : SeqOf(Tokens, MaxLines),
   args   : {[time_column |-> c[1], x_column |-> c[2], y_column |-> c[3],
              warmup |-> w, duration |-> d, bin_size |-> s, quantile |-> q] :
               c \in Columns, w \in {0, 1}, d \in {-1, 1}, s \in 1..3, q \in Quantiles}]

PercentileInputs ==
  [script : {"percentile"}, lines : SeqOf({<<v>> : v \in 0..2}, MaxLines) \ {<<>>}]

(* Two or three files (the script asserts at least two) of at most two    *)
(* lines, with the default arguments.                                      *)
HSpreadInputs ==
  [script : {"hspread"},
   files  : UNION {[1..n -> SeqOf({0, 1} \X {0, 2}, 2)] : n \in 2..3},
   args   : {[warmup |-> 0, duration |-> -1, time_bin |-> 1]}]

Inputs ==
  UNION {CASE s = "binstat" -> BinstatInputs
           [] s = "percentile" -> PercentileInputs
           [] s = "hspread" -> HSpreadInputs : s \in Scripts}

Init == input \in Inputs
Next == UNCHANGED input
Spec == Init /\ [][Next]_input

(* v is a q-quantile of vals for the order Lt.                             *)
IsQuantile(v, vals, q, Lt(_, _)) ==
  LET n     == Len(vals)
      below == Cardinality({i \in DOMAIN vals : Lt(vals[i], v)})
      atMost == Cardinality({i \in DOMAIN vals : ~Lt(v, vals[i])})
  IN  below * q[2] <= q[1] * n /\ q[1] * n <= atMost * q[2]

NumLt(a, b) == a < b

-----------------------------------------------------------------------------
(* binstat.py puts the y value of every line it does not skip into the    *)
(* bin whose centre t * bin_size is nearest to the line's x value, without *)
(* an IndexError: `int(round(key / args.bin_size))` indexes data_all.      *)
BinsAreNearest ==
  input.script = "binstat" =>
    LET st  == BinstatBins(input.lines, input.args)
        b   == input.args.bin_size
        key(i) == input.lines[i][input.args.x_column]
    IN  /\ ~st.error
        /\ \A t \in DOMAIN st.all : \A k \in DOMAIN st.all[t] :
             LET d == 2 * key(st.all[t][k]) - 2 * (t - 1) * b
             IN  -b <= d /\ d <= b
        /\ \A i \in DOMAIN input.lines :
             ~Skipped(input.lines[i][input.args.time_column], input.args.warmup, input.args.duration)
               => \E t \in DOMAIN st.all : \E k \in DOMAIN st.all[t] : st.all[t][k] = i

(* The value binstat.py --metric quantile prints for a bin, and the one   *)
(* percentile.py --quantiles prints, `values[min(int(N * q), N - 1)]` of   *)
(* the sorted values, is a q-quantile of them.                             *)
QuantilesAreQuantiles ==
  /\ input.script = "binstat" =>
       \A o \in BinstatQuantiles(input.lines, input.args) :
         IsQuantile(o.y, o.values, input.args.quantile, NumLt)
  /\ input.script = "percentile" =>
       LET data == PercentileData(input.lines, 1)
       IN  \A q \in Quantiles : IsQuantile(PercentileQuantile(data, q), data, q, NumLt)

(* percentile.py --cdf "Print cumulative distribution function": each     *)
(* printed pair (y, p) has p the fraction of the values at most y.         *)
CdfIsEmpirical ==
  input.script = "percentile" =>
    LET data == PercentileData(input.lines, 1)
    IN  \A x \in DOMAIN PercentileCdf(data) :
          LET pt == PercentileCdf(data)[x]
          IN  pt.p[1] = Cardinality({i \in DOMAIN data : data[i] <= pt.y})

(* hspread.py asserts that it gets at least two input files; given them,  *)
(* none of the asserts on the quantile indices of a bin fails.             *)
HSpreadAssertsHold ==
  input.script = "hspread" =>
    \A b \in DOMAIN HSpread(input.files, input.args) : HSpread(input.files, input.args)[b].asserts

(* hspread.py "Compute the average inter-quantile": the two averages of a *)
(* bin whose difference it prints are a 1/4- and a 3/4-quantile of the     *)
(* per-file averages.                                                       *)
HSpreadIsInterquartile ==
  input.script = "hspread" =>
    \A b \in DOMAIN HSpread(input.files, input.args) :
      LET r == HSpread(input.files, input.args)[b]
      IN  r.asserts =>
            /\ IsQuantile(r.lower, r.values, <<1, 4>>, FracLt)
            /\ IsQuantile(r.upper, r.values, <<3, 4>>, FracLt)

=============================================================================
