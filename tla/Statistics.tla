----------------------------- MODULE Statistics -----------------------------
(***************************************************************************)
(* The post-processing scripts scripts/binstat.py, scripts/percentile.py  *)
(* and scripts/hspread.py as operators from their input lines to what     *)
(* they print.  A line is the tuple of its numeric columns, numbers are   *)
(* small integers and a quantile is a fraction <<num, den>>: Python 2's    *)
(* float arithmetic is exact on them.  Printing is left out: an output is *)
(* the set or sequence of the values printed.                              *)
(***************************************************************************)
EXTENDS Integers, SequencesExt, FiniteSets, TLC

(* int(n / d) for d > 0: truncation towards zero.                          *)
Trunc(n, d) == IF n >= 0 THEN n \div d ELSE -((-n) \div d)

(* A mutant of Round: `int(key / args.bin_size)` without round().         *)
RoundTrunc(n, d) == Trunc(n, d)

(* Python 2 round(n / d) for d > 0: halves go away from zero.              *)
Round(n, d) == IF n >= 0 THEN (2 * n + d) \div (2 * d) ELSE -((2 * (-n) + d) \div (2 * d))

(* The position of Python index i in s: negative indices count from the   *)
(* end; Valid is FALSE where Python raises IndexError.                     *)
Pos(s, i) == IF i >= 0 THEN i + 1 ELSE Len(s) + i + 1
Valid(s, i) == -Len(s) <= i /\ i < Len(s)

(* sorted(values) for numbers, and for fractions <<num, den>>, den > 0.   *)
Sorted(s) == SortSeq(s, LAMBDA a, b : a < b)
FracLt(a, b) == a[1] * b[2] < b[1] * a[2]
SortedFracs(s) == SortSeq(s, FracLt)

(* `time < args.warmup or (args.duration > 0 and time > args.duration)`   *)
Skipped(time, warmup, duration) == time < warmup \/ (duration > 0 /\ time > duration)

(* A mutant of QuantileIndex that rounds N * quantile up.                  *)
QuantileIndexCeil(n, q) ==
  LET k == Trunc(n * q[1] + q[2] - 1, q[2]) IN IF k < n - 1 THEN k ELSE n - 1

(* `min(int(N * args.quantile), N - 1)`                                    *)
QuantileIndex(n, q) ==
  LET k == Trunc(n * q[1], q[2]) IN IF k < n - 1 THEN k ELSE n - 1

-----------------------------------------------------------------------------
(* binstat.py.  a holds the arguments: time_column, x_column, y_column,   *)
(* warmup, duration, bin_size, quantile.  data_all is modelled holding    *)
(* the number of each line whose y value the code appends to it, so that  *)
(* a property can name the line; data_sum is the sum of those values.     *)

(* One iteration of the `for line in sys.stdin` loop on                  *)
(* [error, all]: all is data_all, and error is an IndexError raised by     *)
(* data_all[bin_ndx] with a negative bin_ndx beyond the list.              *)
BinstatLine(st, i, lines, a) ==
  LET tok  == lines[i]
      b    == Round(tok[a.x_column], a.bin_size)
      all  == st.all
      ext  == IF b >= Len(all) THEN all \o [k \in 1..(1 + b - Len(all)) |-> <<>>] ELSE all
  IN  IF st.error \/ Skipped(tok[a.time_column], a.warmup, a.duration) THEN st
      ELSE IF ~Valid(ext, b) THEN [st EXCEPT !.error = TRUE]
      ELSE [st EXCEPT !.all = [ext EXCEPT ![Pos(ext, b)] = Append(@, i)]]

BinstatBins(lines, a) ==
  FoldLeft(LAMBDA st, i : BinstatLine(st, i, lines, a), [error |-> FALSE, all |-> <<>>],
           [i \in 1..Len(lines) |-> i])

(* The y values of a bin, in the order they were appended.                 *)
BinValues(lines, a, bin) == [k \in DOMAIN bin |-> lines[bin[k]][a.y_column]]

(* --metric quantile: for every non-empty bin t, the pair printed          *)
(* (t * bin_size, values[q]) with values sorted; kept here with the bin's *)
(* values for the property.                                                *)
BinstatQuantiles(lines, a) ==
  LET all == BinstatBins(lines, a).all
  IN  {LET v == BinValues(lines, a, all[t])
       IN  [x |-> (t - 1) * a.bin_size,
            y |-> Sorted(v)[QuantileIndex(Len(v), a.quantile) + 1],
            values |-> v] : t \in {t \in DOMAIN all : all[t] # <<>>}}

-----------------------------------------------------------------------------
(* percentile.py with --column c and no warm-up column.                    *)

(* `data.append(x)` for every line: tokens[index] with index = column - 1, *)
(* or the column itself when it is not positive.                           *)
PercentileData(lines, column) ==
  LET index == IF column >= 1 THEN column - 1 ELSE column
  IN  [i \in 1..Len(lines) |-> lines[i][Pos(lines[i], index)]]

(* --quantiles: data.sort(), then data[q] for every quantile.              *)
PercentileQuantile(data, q) == Sorted(data)[QuantileIndex(Len(data), q) + 1]

(* --cdf: the pairs (y, float(x) / len(data)) of sorted data, x from 0.    *)
PercentileCdf(data) ==
  [x \in 1..Len(data) |-> [y |-> Sorted(data)[x], p |-> <<x - 1, Len(data)>>]]

-----------------------------------------------------------------------------
(* hspread.py with --time_column 1 --data_column 2; files is the sequence *)
(* of the input files, each a sequence of lines <<time, value>>.           *)

(* Lines with `time < args.warmup or (duration > 0 and time >= duration)`  *)
(* are skipped, the others binned by int(round(time / time_bin)).          *)
HSpreadKept(line, a) ==
  ~(line[1] < a.warmup \/ (a.duration > 0 /\ line[1] >= a.duration))

HSpreadBinsOf(file, a) ==
  {Round(file[k][1], a.time_bin) : k \in {k \in DOMAIN file : HSpreadKept(file[k], a)}}

(* this_data[bin_ndx]: the values of one file in one bin.                  *)
HSpreadValues(file, a, b) ==
  LET ks == SelectSeq([k \in DOMAIN file |-> k],
                      LAMBDA k : HSpreadKept(file[k], a) /\ Round(file[k][1], a.time_bin) = b)
  IN  [j \in DOMAIN ks |-> file[ks[j]][2]]

(* averages[bin_ndx]: sum_values / len(values) of every file with lines  *)
(* in the bin, as fractions, in file order.                                *)
HSpreadAverages(files, a, b) ==
  LET fs == SelectSeq([f \in DOMAIN files |-> f], LAMBDA f : b \in HSpreadBinsOf(files[f], a))
  IN  [j \in DOMAIN fs |->
         LET v == HSpreadValues(files[fs[j]], a, b)
         IN  <<FoldLeft(LAMBDA s, e : s + e, 0, v), Len(v)>>]

(* For every bin: whether its three asserts hold, and the two sorted      *)
(* averages whose difference is printed.                                   *)
HSpread(files, a) ==
  LET bins == UNION {HSpreadBinsOf(files[f], a) : f \in DOMAIN files}
  IN  [b \in bins |->
         LET values == HSpreadAverages(files, a, b)
             n      == Len(values)
             q25    == Round(n, 4)
             q75    == Round(3 * n, 4)
         IN  IF q25 = q75 \/ q25 <= 0 \/ n < q75
             THEN [asserts |-> FALSE, lower |-> <<0, 1>>, upper |-> <<0, 1>>, values |-> values]
             ELSE [asserts |-> TRUE,
                   lower |-> SortedFracs(values)[q25],
                   upper |-> SortedFracs(values)[q75],
                   values |-> values]]

=============================================================================
