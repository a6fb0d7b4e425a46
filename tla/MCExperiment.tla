---------------------------- MODULE MCExperiment ----------------------------
(***************************************************************************)
(* runExperiment under each driver script, over small command lines: the  *)
(* options given to the script, sizes cut down, everything else left at   *)
(* its default.                                                            *)
(***************************************************************************)
EXTENDS Drivers, CreateTopo

(* Command lines the parsers and asserts accept, and on which a phase     *)
(* raises.                                                                  *)
(* linear_quic.py and uncoordinated_chicago.py blacklist no 'pingtest',   *)
(* and makeArgumentParser defines none: the option is absent.              *)
MC_LinesNoPingtest == {<<"linear", <<>>>>, <<"uncoordinated", <<>>>>}

(* simple_function_chain.py with --states 0 (its asserts allow it).        *)
MC_LinesChainNoStates ==
  {<<"chain", [nodes |-> 3, states |-> 0, length |-> 1, duration |-> 2]>>}

(* quic_computer_chicago.py with an --experiment its help text does not   *)
(* list.                                                                   *)
MC_LinesChicagoOther ==
  {<<"chicago", [n_servers |-> 1, n_clients |-> 2, experiment |-> "probe", duration |-> 2]>>}

(* The command lines: the base class runs with --controller none so that *)
(* the table phase is exercised on topologies without routers, and        *)
(* quic_computer_chicago.py, the one script that exposes --controller,     *)
(* also runs without a controller.  The command lines above, which the    *)
(* scripts accept and which raise, are runs of the model too.              *)
MC_CommandLines ==
  {<<"base", [controller |-> "none", duration |-> 2]>>,
   <<"dag", [nodes |-> 3, states |-> 2, length |-> 5, branches |-> 1, lambdaspc |-> 2,
             duration |-> 2]>>,
   <<"dag", [nodes |-> 3, states |-> 2, length |-> 3, branches |-> 2, lambdaspc |-> 3,
             duration |-> 2, experiment |-> "hopbyhop"]>>,
   <<"chain", [nodes |-> 3, states |-> 2, length |-> 2, duration |-> 2]>>,
   <<"motivation", [duration |-> 1]>>,
   <<"quic", [duration |-> 2]>>,
   <<"mvfst", [concurrency |-> 2]>>,
   <<"chicago", [n_servers |-> 2, n_clients |-> 2, controller |-> "none", duration |-> 2]>>}
  \cup {<<"chicago", [n_servers |-> n, n_clients |-> 2, experiment |-> e, duration |-> 2]>> :
          n \in 1..2, e \in {"distributed", "centralized"}}
  \cup MC_LinesNoPingtest \cup MC_LinesChainNoStates \cup MC_LinesChicagoOther

(* The topologies the base class is run on.                               *)
MC_BaseTopos ==
  {LinearTopo(3), TwoTierTopo(2, 2), NestedCircularTopo(3, 1), HourglassTopo(1, 2),
   BalancedTreeTopo(2, 2)}

(* nodes.topo as create_topo.py writes it from three coordinate files: a   *)
(* line with a close pair that collapses (a path of three nodes remains),  *)
(* a square whose diagonals are too long (a ring of four), and two nodes   *)
(* at the same place (a triangle).                                         *)
MC_BriteTopos ==
  {BriteTopo(t[1], t[2]) :
     t \in {CreateTopo(<< <<0, 0>>, <<2, 0>>, <<4, 0>>, <<9, 9>>, <<9, 10>> >>, 1, 2),
            CreateTopo(<< <<0, 0>>, <<2, 0>>, <<2, 2>>, <<0, 2>> >>, 0, 2),
            CreateTopo(<< <<0, 0>>, <<0, 0>>, <<3, 0>> >>, 1, 3)}}

-----------------------------------------------------------------------------
(* quic_computer_chicago.py with --controller none: the tuples of          *)
(* self.computers carry no list of lambdas, so no table entry is installed. *)
MC_LinesNoController ==
  {<<"chicago", [n_servers |-> 1, n_clients |-> 1, controller |-> "none", duration |-> 2]>>}

=============================================================================
