------------------------------ MODULE Dispatch ------------------------------
(***************************************************************************)
(* ForwardingTableUpdater.update of scripts/ftu.py run command by command, *)
(* as the single thread of ovs-monitor.py runs it: the status is          *)
(* recomputed, then each disable(pair) and enable(pair) starts             *)
(* forwardingtableclient and reads its stdout until a line with 'OK' or   *)
(* the end of the output, and only after the last command is the status   *)
(* replaced.  The read has no timeout: a router that accepts the          *)
(* connection and never answers leaves the loop blocked in                *)
(* `for line in p.stdout` for good.                                        *)
(*                                                                         *)
(* The two loops of update decide from new_status and self.status, which  *)
(* no command changes, so their commands are taken as one sequence when   *)
(* update starts.                                                          *)
(***************************************************************************)
EXTENDS ForwardingTableUpdater, Naturals

CONSTANTS
  PairOrder,  \* the iteration order of the status dicts (same keys, same order)
  Unresponsive  \* the routers that may never answer a command

ASSUME ~DryRun

VARIABLES
  pc,         \* "idle" between ticks, "dispatch" inside update, "blocked" in a read
  queue,      \* the commands update still has to run, in order
  target,     \* new_status of the running update
  sent,       \* the pairs the running update disables and enables
  failedNow,  \* the pairs whose command got no 'OK' in the running update
  before      \* history: the routers' tables when the running update started

dispatchVars == <<ftuVars, pc, queue, target, sent, failedNow, before>>

(* The first loop's disables, then the second loop's enables, each in     *)
(* dict order: <<"remove", pair>> for disable, <<"change", pair>> for      *)
(* enable (the --action of the client).                                    *)
Commands(dis, en) ==
  LET d == SelectSeq(PairOrder, LAMBDA p : p \in dis)
      e == SelectSeq(PairOrder, LAMBDA p : p \in en)
  IN  [i \in 1..Len(d) |-> <<"remove", d[i]>>] \o [i \in 1..Len(e) |-> <<"change", e[i]>>]

(* A mutant of Run whose change command names '{}'.format(computer),      *)
(* the computer without its port.                                          *)
RunNoSuffix(tbl, cmd) ==
  LET r   == cmd[2][1]
      dst == Destination(cmd[2][2])
  IN  IF cmd[1] = "remove" THEN [tbl EXCEPT ![r] = @ \ {dst}]
                           ELSE [tbl EXCEPT ![r] = @ \cup {cmd[2][2]}]

(* A command the router acknowledged with 'OK' on its table.               *)
Run(tbl, cmd) ==
  LET r   == cmd[2][1]
      dst == Destination(cmd[2][2])
  IN  IF cmd[1] = "remove" THEN [tbl EXCEPT ![r] = @ \ {dst}]
                           ELSE [tbl EXCEPT ![r] = @ \cup {dst}]

DispatchInit ==
  /\ Init
  /\ pc = "idle"
  /\ queue = <<>>
  /\ target = GoodStatus
  /\ sent = [disable |-> {}, enable |-> {}]
  /\ failedNow = {}
  /\ before = tables

(* A mutant of BeginUpdate whose first loop drops                          *)
(* `self.status[key] is True`: it disables the disabled pairs again.      *)
BeginUpdateRedisable(links) ==
  /\ pc = "idle"
  /\ ~crashed
  /\ links \subseteq DOMAIN Paths
  /\ LET new == NewStatus(links)
         dis == {p \in Pairs : ~new[p]}
         en  == {p \in Pairs : ~status[p] /\ new[p]}
     IN  /\ queue' = Commands(dis, en)
         /\ target' = new
         /\ sent' = [disable |-> dis, enable |-> en]
  /\ pc' = "dispatch"
  /\ failedNow' = {}
  /\ before' = tables
  /\ UNCHANGED ftuVars

(* update(links) is called: new_status is computed and the commands of    *)
(* both loops are decided.                                                 *)
BeginUpdate(links) ==
  /\ pc = "idle"
  /\ ~crashed
  /\ links \subseteq DOMAIN Paths
  /\ LET new == NewStatus(links)
         dis == {p \in Pairs : ~new[p] /\ status[p]}
         en  == {p \in Pairs : ~status[p] /\ new[p]}
     IN  /\ queue' = Commands(dis, en)
         /\ target' = new
         /\ sent' = [disable |-> dis, enable |-> en]
  /\ pc' = "dispatch"
  /\ failedNow' = {}
  /\ before' = tables
  /\ UNCHANGED ftuVars

(* A mutant of Reply that queues a failed command again after the others: *)
(* a retry without bound.                                                  *)
ReplyRequeue(ok) ==
  /\ pc = "dispatch"
  /\ queue # <<>>
  /\ tables' = IF ok THEN Run(tables, Head(queue)) ELSE tables
  /\ failedNow' = IF ok THEN failedNow ELSE failedNow \cup {Head(queue)[2]}
  /\ queue' = IF ok THEN Tail(queue) ELSE Append(Tail(queue), Head(queue))
  /\ UNCHANGED <<status, issued, anyFailed, crashed, pc, target, sent, before>>

(* disable(pair) or enable(pair) for the next command: the client's       *)
(* output ends, with a line holding 'OK' (return) or without one          *)
(* (logging.critical); either way the loop goes on with the next command. *)
Reply(ok) ==
  /\ pc = "dispatch"
  /\ queue # <<>>
  /\ tables' = IF ok THEN Run(tables, Head(queue)) ELSE tables
  /\ failedNow' = IF ok THEN failedNow ELSE failedNow \cup {Head(queue)[2]}
  /\ queue' = Tail(queue)
  /\ UNCHANGED <<status, issued, anyFailed, crashed, pc, target, sent, before>>

(* The router of the next command never writes a line nor closes the     *)
(* connection: `for line in p.stdout` waits for ever.                      *)
Hang ==
  /\ pc = "dispatch"
  /\ queue # <<>>
  /\ Head(queue)[2][1] \in Unresponsive
  /\ pc' = "blocked"
  /\ UNCHANGED <<ftuVars, queue, target, sent, failedNow, before>>

(* `self.status = new_status` after the last command.                      *)
EndUpdate ==
  /\ pc = "dispatch"
  /\ queue = <<>>
  /\ status' = target
  /\ issued' = [disable |-> sent.disable, enable |-> sent.enable, failed |-> failedNow]
  /\ anyFailed' = (anyFailed \/ failedNow # {})
  /\ pc' = "idle"
  /\ UNCHANGED <<tables, crashed, queue, target, sent, failedNow, before>>

DispatchNext ==
  \/ \E links \in SUBSET DOMAIN Paths : BeginUpdate(links)
  \/ \E ok \in BOOLEAN : Reply(ok)
  \/ Hang
  \/ EndUpdate

(* The loop is a single thread that only sleeps between ticks and waits   *)
(* on the client inside a command: every step it can take it eventually   *)
(* takes.  A hang is the router's doing, and nothing makes it fair.       *)
DispatchSpec ==
  /\ DispatchInit
  /\ [][DispatchNext]_dispatchVars
  /\ WF_dispatchVars(\E links \in SUBSET DOMAIN Paths : BeginUpdate(links))
  /\ WF_dispatchVars(\E ok \in BOOLEAN : Reply(ok))
  /\ WF_dispatchVars(EndUpdate)

-----------------------------------------------------------------------------
DispatchTypeOK ==
  /\ pc \in {"idle", "dispatch", "blocked"}
  /\ queue \in Seq({"remove", "change"} \X Pairs)
  /\ target \in [Pairs -> BOOLEAN]
  /\ failedNow \subseteq sent.disable \cup sent.enable
  /\ tables \in [Routers -> SUBSET Destinations]

(* The routers' tables as the atomic update sees them: a running update   *)
(* has not changed them yet.                                               *)
AbsTables == IF pc = "idle" THEN tables ELSE before

Atomic == INSTANCE ForwardingTableUpdater WITH tables <- AbsTables

(* update() run command by command implements the atomic Update of        *)
(* ForwardingTableUpdater: whatever the commands return, a finished tick  *)
(* leaves status, tables and the issued commands as one Update step does, *)
(* and an unfinished one has changed nothing the rest of the loop sees.   *)
(* (The stuttering disjunct is written out so that TLC tries it first.)   *)
ImplementsUpdate ==
  /\ Atomic!Init
  /\ [][\/ UNCHANGED Atomic!ftuVars
        \/ \E links \in SUBSET DOMAIN Paths : Atomic!Update(links)]_Atomic!ftuVars

(* Every call of update() returns: the loop gets back to sampling the     *)
(* counters, whatever the routers do (the mandatory per-call timeout of    *)
(* the specification, §5).                                                 *)
TickCompletes == pc = "dispatch" ~> pc = "idle"

(* A call of update() whose remaining commands all go to routers that end *)
(* their output, with 'OK' or without, returns: failed commands are not    *)
(* retried within the tick, so the loop moves on whatever they answer.     *)
ResponsiveTickCompletes ==
  (pc = "dispatch" /\ \A i \in DOMAIN queue : queue[i][2][1] \notin Unresponsive)
    ~> pc = "idle"

=============================================================================
