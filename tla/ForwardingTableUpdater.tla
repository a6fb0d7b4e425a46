----------------------- MODULE ForwardingTableUpdater -----------------------
(***************************************************************************)
(* The class ForwardingTableUpdater of scripts/ftu.py.  It keeps one       *)
(* boolean per (router, computer) pair, `status`, recomputes it from       *)
(* scratch from the congested links of a tick (update), and issues a       *)
(* `remove` command for every pair that went from enabled to disabled and  *)
(* a `change` command for every pair that went back to enabled.  Each      *)
(* command is run by the forwardingtableclient against the edge router;    *)
(* the router's table is modelled here as the set of destinations it       *)
(* holds, and a command succeeds or fails (no "OK" line in its output).    *)
(*                                                                         *)
(* The pair key of the code is the string "router,computer" (mangle) split *)
(* again on ',' in enable/disable; router and computer identifiers never   *)
(* contain a comma, so the key is modelled as the tuple <<router,          *)
(* computer>>.                                                             *)
(***************************************************************************)
EXTENDS Sequences

CONSTANTS
  Routers,          \* conf['routers']: the router addresses
  Computers,        \* conf['computers']: the computer identifiers as configured
  Paths,            \* conf['affected_paths']: link -> set of <<src, dst>> host pairs
  InstalledEntries, \* destinations every router table holds when the loop starts
  PortSuffix,       \* the ':10000' appended by '{}:10000'.format(computer)
  DryRun            \* the --dry_run flag

VARIABLES
  status,     \* self.status: pair -> TRUE (enabled) / FALSE (disabled)
  tables,     \* router -> set of destinations in its forwarding table
  issued,     \* commands decided by the last update: disable, enable, failed
  anyFailed,  \* history: some command has failed so far
  crashed     \* update raised an exception and the process is gone

ftuVars == <<status, tables, issued, anyFailed, crashed>>

Pairs == Routers \X Computers

(* The destination argument '{}:10000'.format(computer) of the command.    *)
Destination(computer) == computer \o PortSuffix

Destinations == InstalledEntries \cup {c \o PortSuffix : c \in Computers}

NoCommands == [disable |-> {}, enable |-> {}, failed |-> {}]

(* good_status(): every pair enabled.                                      *)
GoodStatus == [p \in Pairs |-> TRUE]

(* `router in path and computer in path`, path being the JSON list         *)
(* [src, dst] of an affected path.                                         *)
OnPath(p, path) == {p[1], p[2]} \subseteq {path[1], path[2]}

(* The new_status computed by update(links) before any command.            *)
NewStatus(links) ==
  [p \in Pairs |-> ~\E l \in links : \E path \in Paths[l] : OnPath(p, path)]

(* A mutant of ApplyCommands that sends every command to every router,    *)
(* dropping the router of the pair (`--server-endpoint` of the pair).      *)
ApplyCommandsAllRouters(tbl, dis, en, ok) ==
  [r \in Routers |->
     (tbl[r] \ {Destination(p[2]) : p \in dis \cap ok})
       \cup {Destination(p[2]) : p \in en \cap ok}]

(* A mutant of ApplyCommands whose enable sends '{}'.format(computer),     *)
(* the computer without its port.                                          *)
ApplyCommandsNoSuffix(tbl, dis, en, ok) ==
  [r \in Routers |->
     (tbl[r] \ {Destination(p[2]) : p \in {q \in dis \cap ok : q[1] = r}})
       \cup {p[2] : p \in {q \in en \cap ok : q[1] = r}}]

(* The commands of one update on the routers' tables: disable(pair) runs  *)
(* `--action remove` and enable(pair) `--action change` of the pair's      *)
(* destination on its router; all disables come before all enables, and   *)
(* only the commands in `ok` reach the router.                             *)
ApplyCommands(tbl, dis, en, ok) ==
  [r \in Routers |->
     (tbl[r] \ {Destination(p[2]) : p \in {q \in dis \cap ok : q[1] = r}})
       \cup {Destination(p[2]) : p \in {q \in en \cap ok : q[1] = r}}]

Init ==
  /\ status = GoodStatus
  /\ tables = [r \in Routers |-> InstalledEntries]
  /\ issued = NoCommands
  /\ anyFailed = FALSE
  /\ crashed = FALSE

UpdateRedisable(links) ==
  /\ ~crashed
  /\ links \subseteq DOMAIN Paths
  /\ LET new == NewStatus(links)
         dis == {p \in Pairs : ~new[p]}
         en  == {p \in Pairs : ~status[p] /\ new[p]}
     IN  \E failed \in (IF DryRun THEN {{}} ELSE SUBSET (dis \cup en)) :
           /\ tables' = IF DryRun THEN tables
                        ELSE ApplyCommands(tables, dis, en, (dis \cup en) \ failed)
           /\ issued' = [disable |-> dis, enable |-> en, failed |-> failed]
           /\ anyFailed' = (anyFailed \/ failed # {})
           /\ status' = new
           /\ UNCHANGED crashed

(* update(links) when every link is a key of self.paths: recompute the     *)
(* status, disable the pairs newly affected, enable the pairs no longer    *)
(* affected, then replace the status whatever the commands returned.  In   *)
(* dry-run mode the commands are only logged.                              *)
Update(links) ==
  /\ ~crashed
  /\ links \subseteq DOMAIN Paths
  /\ LET new == NewStatus(links)
         dis == {p \in Pairs : ~new[p] /\ status[p]}
         en  == {p \in Pairs : ~status[p] /\ new[p]}
     IN  \E failed \in (IF DryRun THEN {{}} ELSE SUBSET (dis \cup en)) :
           /\ tables' = IF DryRun THEN tables
                        ELSE ApplyCommands(tables, dis, en, (dis \cup en) \ failed)
           /\ issued' = [disable |-> dis, enable |-> en, failed |-> failed]
           /\ anyFailed' = (anyFailed \/ failed # {})
           /\ status' = new
           /\ UNCHANGED crashed

(* A mutant of UpdateKeyError raised only once the disables of the links  *)
(* that are keys have been sent, as if new_status were built lazily while  *)
(* the commands go out: self.status is never replaced.                     *)
UpdateKeyErrorLate(links) ==
  /\ ~crashed
  /\ ~(links \subseteq DOMAIN Paths)
  /\ LET dis == {p \in Pairs : ~NewStatus(links \cap DOMAIN Paths)[p] /\ status[p]}
     IN  /\ tables' = IF DryRun THEN tables ELSE ApplyCommands(tables, dis, {}, dis)
         /\ issued' = [disable |-> dis, enable |-> {}, failed |-> {}]
  /\ crashed' = TRUE
  /\ UNCHANGED <<status, anyFailed>>

(* update(links) with a link that is not a key of self.paths: the lookup   *)
(* self.paths[link] raises KeyError before any command, and nothing in     *)
(* ovs-monitor.py catches it.                                              *)
UpdateKeyError(links) ==
  /\ ~crashed
  /\ ~(links \subseteq DOMAIN Paths)
  /\ crashed' = TRUE
  /\ UNCHANGED <<status, tables, issued, anyFailed>>

-----------------------------------------------------------------------------
(* The pairs a link affects, as update() decides it.                       *)
Affected(l) == {p \in Pairs : \E path \in Paths[l] : OnPath(p, path)}

(* The updater seen as the abstract reconciler: the desired state is      *)
(* status, and a pair is applied when its router's table holds the        *)
(* destination the updater's commands name.                               *)
Reaction == INSTANCE CongestionReaction
              WITH Links   <- DOMAIN Paths,
                   Affects <- [l \in DOMAIN Paths |-> Affected(l)],
                   desired <- status,
                   applied <- [p \in Pairs |-> Destination(p[2]) \in tables[p[1]]]

(* update() implements the abstract reconciler: status is recomputed from *)
(* the congested links alone, and the commands of a tick change on the    *)
(* routers only pairs whose status changed, each to its new status or not *)
(* at all; no command of one pair disturbs another pair.                  *)
ImplementsReaction == Reaction!Spec

=============================================================================
