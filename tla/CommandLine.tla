---------------------------- MODULE CommandLine ----------------------------
(***************************************************************************)
(* How each experiment script turns its command line into self.confopts:  *)
(* Experiment.makeArgumentParser (experiments/Common/experiment.py) merges *)
(* the common arguments with the script's own, exposes every one that is   *)
(* not blacklisted as an option, parses the command line and then writes  *)
(* the blacklisted values over the result.  The script's __main__ then     *)
(* asserts on the options before it calls runExperiment.                   *)
(*                                                                         *)
(* Only the options the model reads or the asserts test are kept; a        *)
(* command line is a record of the options given.  "absent" stands for a  *)
(* key that is not in confopts at all.                                     *)
(***************************************************************************)
EXTENDS Integers, TLC

(* experiment.py 137-185: the defaults of the arguments every script has. *)
CommonArguments == [cli |-> 4, controller |-> "flat", duration |-> 10]

(* The script arguments each __main__ hands to makeArgumentParser, with   *)
(* their defaults, and its blacklist with the values written over it.     *)
DagParser ==
  [args |-> [experiment |-> "embedded", bw |-> 1, nodes |-> 6, states |-> 6, length |-> 7,
             branches |-> 5, inputsize |-> 10000, lambdaspc |-> 10],
   blacklisted |-> [controller |-> "flat", pingtest |-> "none"]]

ChainParser ==
  [args |-> [experiment |-> "embedded", bw |-> 1, numclients |-> 1, nodes |-> 6,
             states |-> 4, length |-> 2, inputsize |-> 10000],
   blacklisted |-> [controller |-> "flat", pingtest |-> "none"]]

MotivationParser ==
  [args |-> [experiment |-> "client", statesize |-> 1000],
   blacklisted |-> [controller |-> "flat", pingtest |-> "none"]]

MvfstParser ==
  [args |-> [concurrency |-> 1, bw |-> 100, delay |-> 1, loss |-> 0, numcalls |-> 10],
   blacklisted |-> [duration |-> 0, controller |-> "flat", pingtest |-> "none"]]

QuicParser ==
  [args |-> [experiment |-> "grpc", numclients |-> 1],
   blacklisted |-> [controller |-> "flat", pingtest |-> "none"]]

LinearParser ==
  [args |-> [experiment |-> "grpc", bw |-> 100, numclients |-> 1],
   blacklisted |-> [controller |-> "flat"]]

ChicagoParser ==
  [args |-> [n_servers |-> 1, n_clients |-> 1, experiment |-> "distributed"],
   blacklisted |-> [pingtest |-> "none"]]

UncoordinatedParser ==
  [args |-> [n_servers |-> 1, n_clients |-> 1, experiment |-> "distributed"],
   blacklisted |-> <<>>]

(* Experiment itself has no __main__: it is driven the way most scripts   *)
(* drive it, with 'pingtest' blacklisted to 'none'.                        *)
BaseParser == [args |-> <<>>, blacklisted |-> [pingtest |-> "none"]]

Parsers ==
     "base" :> BaseParser @@ "dag" :> DagParser @@ "chain" :> ChainParser
  @@ "motivation" :> MotivationParser @@ "mvfst" :> MvfstParser @@ "quic" :> QuicParser
  @@ "linear" :> LinearParser @@ "chicago" :> ChicagoParser
  @@ "uncoordinated" :> UncoordinatedParser

Scripts == DOMAIN Parsers

ScriptArguments(d) == Parsers[d].args

Blacklisted(d) == Parsers[d].blacklisted

(* `arguments.update(script_args)`: a script argument replaces a common   *)
(* one of the same name.                                                   *)
Arguments(d) == ScriptArguments(d) @@ CommonArguments

(* The options argparse is given: every argument not blacklisted.          *)
Options(d) == DOMAIN Arguments(d) \ DOMAIN Blacklisted(d)

Fields == {"pingtest"} \cup UNION {DOMAIN Arguments(d) : d \in Scripts}

(* argparse exits with an error on an option it was not given.            *)
ParseOK(d, given) == DOMAIN given \subseteq Options(d)

(* experiment.py 211-215: parse_args fills every option with the value on *)
(* the command line or its default, then `args.__dict__.update(blacklisted)`. *)
ConfOpts(d, given) ==
  [f \in Fields \cup {"driver"} |->
     CASE f = "driver"                         -> d
       [] f \in DOMAIN Blacklisted(d)          -> Blacklisted(d)[f]
       [] f \in Options(d) /\ f \in DOMAIN given -> given[f]
       [] f \in DOMAIN Arguments(d)            -> Arguments(d)[f]
       [] OTHER                                -> "absent"]

(* The asserts of each __main__ on its options.                            *)
DagAsserts(c) ==
  /\ c.experiment \in {"embedded", "hopbyhop", "remotestate"}
  /\ c.bw > 0 /\ c.nodes >= 1 /\ c.states > 0
  /\ c.length >= 1 /\ c.length % 2 = 1
  /\ c.branches >= 1 /\ c.inputsize > 0 /\ c.lambdaspc > 0
  /\ c.lambdaspc * (c.nodes - 1) > (c.length + 1) \div 2

ChainAsserts(c) ==
  /\ c.numclients >= 1 /\ c.length >= 1 /\ c.bw > 0 /\ c.inputsize > 0
  /\ c.experiment \in {"embedded", "hopbyhop", "remotestate"}

MotivationAsserts(c) == c.experiment \in {"client", "edge", "cloud"} /\ c.statesize > 0

MvfstAsserts(c) ==
  c.concurrency > 0 /\ c.bw > 0 /\ c.delay > 0 /\ c.loss >= 0 /\ c.numcalls > 0

MainAsserts(c) ==
  CASE c.driver = "dag"        -> DagAsserts(c)
    [] c.driver = "chain"      -> ChainAsserts(c)
    [] c.driver = "motivation" -> MotivationAsserts(c)
    [] c.driver = "mvfst"      -> MvfstAsserts(c)
    [] OTHER                   -> TRUE

(* The script gets as far as runExperiment.                                *)
Launches(d, given) == ParseOK(d, given) /\ MainAsserts(ConfOpts(d, given))

=============================================================================
