----------------------------- MODULE OvsMonitor -----------------------------
(***************************************************************************)
(* The main loop of scripts/ovs-monitor.py: every interval, update the     *)
(* counter of every switch, collect the links whose byte delta is above    *)
(* the threshold, and hand them to ForwardingTableUpdater.update.  The     *)
(* loop is single-threaded, so one iteration is one atomic Tick.           *)
(*                                                                         *)
(* ovs.Counter (module ovs, imported but not part of the repository) is    *)
(* modelled from the specification: it keeps the previous cumulative byte  *)
(* count of every port; the delta of a tick is the new count minus the     *)
(* previous one, and zero on the first sample and when the count went      *)
(* down.  The counters themselves are the environment: every tick reads    *)
(* any count in 0..MaxCount for every port.                                *)
(***************************************************************************)
EXTENDS ForwardingTableUpdater, Naturals

CONSTANTS
  MonitoredLinks,  \* the ports of the switches of conf['switches']
  MaxCount,        \* bound on the cumulative byte counts read
  ThresholdBps,    \* --threshold, in bit/s
  Interval,        \* --interval, in seconds
  NoSample,        \* no previous count yet
  HostOf           \* conf computer identifier -> the host it runs on

VARIABLES
  prev,        \* Counter state: the count read at the previous tick
  cong_links,  \* the congested links of the last tick
  lastFailed   \* history: the pairs whose last command failed

vars == <<ftuVars, prev, cong_links, lastFailed>>

Counts == 0..MaxCount

(* The byte delta of a port for a new reading (ovs.Counter.update).       *)
Delta(l, reading) ==
  IF prev[l] = NoSample \/ reading < prev[l] THEN 0 ELSE reading - prev[l]

(* counters[name].above_threshold(threshold) with the normalised           *)
(* threshold = args.threshold / 8 / args.interval, written without         *)
(* division: delta > T / 8 / I  <=>  delta * 8 * I > T.                   *)
AboveThreshold(d) == d * 8 * Interval > ThresholdBps

MonitorInit ==
  /\ Init
  /\ prev = [l \in MonitoredLinks |-> NoSample]
  /\ cong_links = {}
  /\ lastFailed = {}

(* One iteration of `while True`: update every counter, collect            *)
(* cong_links, ftu.update(cong_links), sleep.                              *)
Tick ==
  \E reading \in [MonitoredLinks -> Counts] :
    LET links == {l \in MonitoredLinks : AboveThreshold(Delta(l, reading[l]))}
    IN  /\ ~crashed
        /\ prev' = reading
        /\ cong_links' = links
        /\ \/ /\ Update(links)
              /\ lastFailed' = (lastFailed \ (issued'.disable \cup issued'.enable))
                                \cup issued'.failed
           \/ /\ UpdateKeyError(links)
              /\ UNCHANGED lastFailed

MonitorNext == Tick

MonitorSpec == MonitorInit /\ [][MonitorNext]_vars

-----------------------------------------------------------------------------
TypeOK ==
  /\ status \in [Pairs -> BOOLEAN]
  /\ tables \in [Routers -> SUBSET Destinations]
  /\ issued \in [disable : SUBSET Pairs, enable : SUBSET Pairs, failed : SUBSET Pairs]
  /\ anyFailed \in BOOLEAN
  /\ crashed \in BOOLEAN
  /\ prev \in [MonitoredLinks -> Counts \cup {NoSample}]
  /\ cong_links \subseteq MonitoredLinks
  /\ lastFailed \subseteq Pairs

(* The endpoint the computer behind a configured identifier really serves, *)
(* as installed in the routers' tables.                                    *)
Endpoint(c) == HostOf[c] \o PortSuffix

DivergesOnlyWhereLastFailed ==
  ~DryRun =>
    \A r \in Routers, c \in Computers :
      ((Endpoint(c) \in tables[r]) # status[<<r, c>>]) => <<r, c>> \in lastFailed

(* Idempotence (spec, testable properties): a tick whose congested set is  *)
(* the same as the previous tick's issues no command at all.               *)
Idempotence ==
  [][(~crashed' /\ cong_links' = cong_links) =>
       issued'.disable = {} /\ issued'.enable = {}]_vars

(* Coverage (spec, testable properties): after an update, a pair is        *)
(* disabled iff one of the congested links lies on the shortest path from  *)
(* its router to its computer.                                             *)
Coverage ==
  ~crashed =>
    \A p \in Pairs :
      ~status[p] <=> \E l \in cong_links \cap DOMAIN Paths :
                       <<p[1], HostOf[p[2]]>> \in Paths[l]

(* The threshold is in bit/s (spec, CLI surface): a link is congested in a *)
(* tick iff its byte delta over the interval is a rate above it.           *)
CongestedIffAboveRate ==
  [][\A l \in MonitoredLinks :
       l \in cong_links' <=> Delta(l, prev'[l]) * 8 > ThresholdBps * Interval]_vars

(* Spec, error handling: a failed disable is retried by the next tick as   *)
(* long as the pair stays affected by congestion.                          *)
FailedDisableRetried ==
  [][\A p \in issued.disable \cap issued.failed :
       (~crashed' /\ ~status'[p]) => p \in issued'.disable]_vars

(* Spec, PathRegistry: a congested link that carries no router-computer    *)
(* traffic produces no action; the monitor keeps running.                  *)
NoCrash == ~crashed

=============================================================================
