------------------------------ MODULE FtApplier ------------------------------
(***************************************************************************)
(* The dry-run pipeline: ovs-monitor.py runs with --dry_run, so           *)
(* ForwardingTableUpdater.disable/enable only write their warning line     *)
(* ('<date> <time> disabling destination <computer> on router <router>')   *)
(* to monitor.log, and one scripts/ftapplier.py per router follows that   *)
(* file with `tail -F` and runs the commands addressed to its router.     *)
(*                                                                         *)
(* The monitor side is abstracted to the set of congested links of a tick *)
(* (any set is produced by some counter readings, see OvsMonitor); the    *)
(* updater is ForwardingTableUpdater with DryRun = TRUE, whose tables are *)
(* left to the appliers.  The log holds only these warning lines: the     *)
(* monitor is started with --loglevel warning.                             *)
(***************************************************************************)
EXTENDS ForwardingTableUpdater, Naturals

CONSTANTS
  PairOrder,   \* the iteration order of the status dicts (same keys, same order)
  TailLines,   \* the lines `tail -F` prints from the existing file when it starts (10)
  MaxLog,      \* bound on the length of monitor.log
  NotStarted,  \* cursor of an applier not started yet
  NoReport     \* report of an applier that has run no command yet

VARIABLES
  log,      \* monitor.log: the sequence of command lines written so far
  cursor,   \* router -> the number of log lines its applier has read
  report,   \* router -> the outcome and the messages printed for its last command
  missed,   \* history: lines for the router were in the file before the window tail printed
  failed,   \* history: a command of the router's applier got no OK
  hung      \* the applier is stuck reading the output of a client that never ends

pipeVars == <<ftuVars, log, cursor, report, missed, failed, hung>>

(* A mutant of Line that splits the mangled pair the other way round.     *)
LineSwapped(cmd, p) == [command |-> cmd, computer |-> p[1], router |-> p[2]]

(* The warning line logged by disable(pair) or enable(pair).               *)
Line(cmd, p) == [command |-> cmd, computer |-> p[2], router |-> p[1]]

(* The lines of one update: the disables in dict order, then the enables. *)
LogLines(cmds) ==
  LET dis == SelectSeq(PairOrder, LAMBDA p : p \in cmds.disable)
      en  == SelectSeq(PairOrder, LAMBDA p : p \in cmds.enable)
  IN  [i \in 1..Len(dis) |-> Line("disabling", dis[i])]
        \o [i \in 1..Len(en) |-> Line("enabling", en[i])]

PipeInit ==
  /\ Init
  /\ log = <<>>
  /\ cursor = [r \in Routers |-> NotStarted]
  /\ report = [r \in Routers |-> NoReport]
  /\ missed = [r \in Routers |-> FALSE]
  /\ failed = [r \in Routers |-> FALSE]
  /\ hung = [r \in Routers |-> FALSE]

(* One monitor tick in dry-run mode: update() decides and logs.           *)
MonitorTick ==
  \E links \in SUBSET DOMAIN Paths :
    /\ Update(links)
    /\ Len(log) + Len(LogLines(issued')) <= MaxLog
    /\ log' = log \o LogLines(issued')
    /\ UNCHANGED <<cursor, report, missed, failed, hung>>

(* `tail -F monitor.log` starts: it prints the last TailLines lines of     *)
(* the file, then every line appended.                                     *)
Start(r) ==
  /\ cursor[r] = NotStarted
  /\ LET from == IF Len(log) > TailLines THEN Len(log) - TailLines ELSE 0
     IN  /\ cursor' = [cursor EXCEPT ![r] = from]
         /\ missed' = [missed EXCEPT ![r] = \E i \in 1..from : log[i].router = r]
  /\ UNCHANGED <<ftuVars, log, report, failed, hung>>

(* The applier has a line from tail to read.                             *)
Readable(r) == cursor[r] # NotStarted /\ ~hung[r] /\ cursor[r] < Len(log)

(* The next line is addressed to another router: `continue`.              *)
SkipOther(r) ==
  /\ Readable(r)
  /\ log[cursor[r] + 1].router # r
  /\ cursor' = [cursor EXCEPT ![r] = @ + 1]
  /\ UNCHANGED <<ftuVars, log, report, missed, failed, hung>>

(* Run forwardingtableclient for the next line: --action change           *)
(* (enabling) or remove (disabling) of '{}:10000'.format(computer) on the  *)
(* router, then read its output.  A line with 'OK' prints 'executed' and  *)
(* `continue`s the read loop; whatever the output, the loop ends and      *)
(* 'error issuing' is printed.  `for line in p.stdout` has no timeout: a   *)
(* router that accepts the call and never answers keeps the client, and   *)
(* the applier with it, waiting forever, whether or not the router has    *)
(* changed its table.                                                      *)
RunCommand(r) ==
  /\ LET line    == log[cursor[r] + 1]
         dst     == Destination(line.computer)
         applied == IF line.command = "enabling"
                    THEN [tables EXCEPT ![r] = @ \cup {dst}]
                    ELSE [tables EXCEPT ![r] = @ \ {dst}]
     IN  \/ \E ok \in BOOLEAN :
              /\ tables' = IF ok THEN applied ELSE tables
              /\ report' = [report EXCEPT ![r] =
                              [ok |-> ok,
                               printed |-> IF ok THEN {"executed", "error"} ELSE {"error"}]]
              /\ failed' = [failed EXCEPT ![r] = @ \/ ~ok]
              /\ UNCHANGED hung
         \/ /\ tables' \in {tables, applied}
            /\ hung' = [hung EXCEPT ![r] = TRUE]
            /\ failed' = [failed EXCEPT ![r] = TRUE]
            /\ UNCHANGED report
  /\ cursor' = [cursor EXCEPT ![r] = @ + 1]
  /\ UNCHANGED <<status, issued, anyFailed, crashed, log, missed>>

(* A mutant of ApplyOwn without the `router != args.server_address[0]`    *)
(* test: the applier may run a line addressed to another router.          *)
ApplyAny(r) == Readable(r) /\ RunCommand(r)

(* The next line is for this router: run its command.                    *)
ApplyOwn(r) ==
  /\ Readable(r)
  /\ log[cursor[r] + 1].router = r
  /\ RunCommand(r)

(* One iteration of the applier's `while True` loop.                       *)
ReadLine(r) == SkipOther(r) \/ ApplyOwn(r)

PipeNext ==
  \/ MonitorTick
  \/ \E r \in Routers : Start(r) \/ ReadLine(r)

(* An applier blocked in readline() proceeds as soon as tail has printed a *)
(* line, so each applier's loop is weakly fair; nothing forces the         *)
(* operator to start an applier, nor the monitor to tick.                  *)
PipeSpec == PipeInit /\ [][PipeNext]_pipeVars /\ \A r \in Routers : WF_pipeVars(ReadLine(r))

-----------------------------------------------------------------------------
PipeTypeOK ==
  /\ log \in Seq([command : {"disabling", "enabling"}, computer : Computers, router : Routers])
  /\ Len(log) <= MaxLog
  /\ \A r \in Routers : cursor[r] = NotStarted \/ cursor[r] \in 0..Len(log)
  /\ tables \in [Routers -> SUBSET Destinations]
  /\ hung \in [Routers -> BOOLEAN]

(* The router's table holds a computer exactly when status enables it.    *)
Tracks(r) == \A c \in Computers : (Destination(c) \in tables[r]) <=> status[<<r, c>>]

(* An applier that was started before any line for its router scrolled   *)
(* out of tail's window, and whose commands all succeeded, eventually     *)
(* keeps its router's table equal to the updater's status: the log holds *)
(* the transitions in order and the applier replays exactly its own, and *)
(* an applier stuck on an unresponsive router (ftapplier.py:56) holds up  *)
(* no other.                                                               *)
AppliersConverge ==
  \A r \in Routers :
    <>[]((cursor[r] # NotStarted /\ ~missed[r] /\ ~failed[r]) => Tracks(r))

(* "Apply forwarding table commands from a log" (ftapplier.py): every     *)
(* started applier whose commands succeed eventually brings its router to *)
(* the status the monitor logged, whenever it was started.                *)
StartedAppliersConverge ==
  \A r \in Routers :
    <>[]((cursor[r] # NotStarted /\ ~failed[r]) => Tracks(r))

(* ftapplier.py prints 'error issuing <command> command to <router>' only *)
(* for a command the router did not acknowledge with OK.                   *)
ErrorOnlyOnFailure ==
  \A r \in Routers : report[r] # NoReport /\ "error" \in report[r].printed => ~report[r].ok

=============================================================================
