--------------------------- MODULE HealthMonitor ---------------------------
(***************************************************************************)
(* Health checks of the targets of one client.  The monitor thread of npc  *)
(* probes the targets in turn, counts failures and reports changes, each   *)
(* over a connection of its own; a handler thread of the server checks the *)
(* key and masks or restores the target in Registry.health_targets (what   *)
(* masked targets mean for requests is in HostProxy).  Meanwhile targets   *)
(* fail and recover, connections are lost, npc and nps restart and the     *)
(* client is disabled, enabled and given another vkey.                     *)
(*                                                                         *)
(* All rules have the same interval, so every round of the monitor makes   *)
(* all the checks, one for each rule and target.  The failure counter of   *)
(* the code is a u32; only whether it has reached max_failed and whether   *)
(* it is a multiple of it matters.                                         *)
(***************************************************************************)
EXTENDS Naturals, Sequences

CONSTANTS
  Checks,     \* the checks of a round, rule by rule and target by target:
              \* records with http and max_failed of the rule, and target
  Keys,       \* vkeys
  Reports,    \* bound: report connections at a time
  NoReport,
  MaxFaults,  \* bound: connections lost and processes restarted
  MaxEdits    \* bound: Web operations

ASSUME HealthAssumption ==
  /\ NoReport \notin Reports
  /\ MaxFaults \in Nat /\ MaxEdits \in Nat
  /\ Len(Checks) \in Nat \ {0} /\ DOMAIN Checks = 1..Len(Checks)
  /\ \A i \in DOMAIN Checks : Checks[i].max_failed \in Nat \ {0}

Checked == {Checks[i].target : i \in DOMAIN Checks}

VARIABLES
  world,    \* the checked targets: "up", "half" (accepts but no 200) or "down"
  pc,       \* the monitor: "boot", "probe", "wait", or "hung" for ever
  at,       \* the check it is at
  fails,    \* failure_counts
  asked,    \* the report it waits for
  npcKey,   \* the vkey in its configuration
  report,   \* report connections and their handlers
  key,      \* the vkey of the client at the server
  status,   \* CommonConfig.client.status
  known,    \* the server has the rules: ClientRuntimeConfig.healths
  removed,  \* Registry.health_targets
  web,      \* what the Web handler still has to do
  faults, edits

monitor == <<pc, at, fails, asked, npcKey>>
server == <<key, status, known, web>>
bounds == <<faults, edits>>
vars == <<world, pc, at, fails, asked, npcKey, report, key, status, known,
          removed, web, faults, edits>>

Free == [pc |-> "free", open |-> FALSE]

(* Both programs run and the configuration has just been accepted.         *)
Init ==
  /\ world = [t \in Checked |-> "up"]
  /\ pc = "probe" /\ at = 1 /\ fails = [i \in DOMAIN Checks |-> 0]
  /\ asked = NoReport
  /\ key \in Keys /\ npcKey = key
  /\ report = [s \in Reports |-> Free]
  /\ status = TRUE /\ known = TRUE /\ web = "idle"
  /\ removed = [k \in Keys |-> {}]
  /\ faults = 0 /\ edits = 0

TargetChanges(t) ==
  /\ \E w \in {"up", "half", "down"} \ {world[t]} : world' = [world EXCEPT ![t] = w]
  /\ UNCHANGED <<monitor, report, server, removed, bounds>>

-----------------------------------------------------------------------------
(* The monitor.                                                            *)

(* probe_health_target.                                                    *)
Seen(i) ==
  LET w == world[Checks[i].target]
  IN IF Checks[i].http THEN w = "up" ELSE w # "down"

Advance == at' = (at % Len(Checks)) + 1

(* Past twice max_failed the counter is as good as at max_failed.          *)
OneMore(n, max) == IF n + 1 = 2 * max THEN max ELSE n + 1

(* report_health_change as far as the hello; connecting may fail.          *)
Send(ok) ==
  \/ \E s \in Reports :
       /\ report[s] = Free
       /\ report' = [report EXCEPT ![s] =
                       [pc |-> "sent", open |-> TRUE, key |-> npcKey, ok |-> ok,
                        target |-> Checks[at].target]]
       /\ asked' = s /\ pc' = "wait"
       /\ UNCHANGED <<at, faults>>
  \/ /\ faults < MaxFaults
     /\ faults' = faults + 1
     /\ Advance
     /\ UNCHANGED <<pc, asked, report>>

(* Mutant: a target is reported once, when it has failed often enough.     *)
Probe_reports_once ==
  LET max == Checks[at].max_failed
      n == fails[at]
      more == IF n = max THEN n ELSE n + 1
  IN /\ pc = "probe"
     /\ \/ /\ Seen(at) /\ n >= max
           /\ Send(TRUE)
           /\ UNCHANGED fails
        \/ /\ Seen(at) /\ n < max
           /\ fails' = [fails EXCEPT ![at] = 0]
           /\ Advance
           /\ UNCHANGED <<pc, asked, report, faults>>
        \/ /\ ~Seen(at)
           /\ fails' = [fails EXCEPT ![at] = more]
           /\ IF n < max /\ more = max THEN Send(FALSE)
                                       ELSE Advance /\ UNCHANGED <<pc, asked, report, faults>>
     /\ UNCHANGED <<world, npcKey, server, removed, edits>>

Probe ==
  LET max == Checks[at].max_failed
      more == OneMore(fails[at], max)
  IN /\ pc = "probe"
     /\ \/ /\ Seen(at) /\ fails[at] >= max
           /\ Send(TRUE)
           /\ UNCHANGED fails
        \/ /\ Seen(at) /\ fails[at] < max
           /\ fails' = [fails EXCEPT ![at] = 0]
           /\ Advance
           /\ UNCHANGED <<pc, asked, report, faults>>
        \/ /\ ~Seen(at)
           /\ fails' = [fails EXCEPT ![at] = more]
           /\ IF more % max = 0 THEN Send(FALSE)
                                ELSE Advance /\ UNCHANGED <<pc, asked, report, faults>>
     /\ UNCHANGED <<world, npcKey, server, removed, edits>>

(* Mutant: a failed report of a recovery is forgotten.                     *)
Reported_always(ok) ==
  fails' = IF report[asked].ok THEN [fails EXCEPT ![at] = 0] ELSE fails

(* The answer decides whether a recovery has been reported.                *)
Reported(ok) ==
  fails' = IF ok /\ report[asked].ok THEN [fails EXCEPT ![at] = 0] ELSE fails

(* The answer of the server, Ok or Error.                                  *)
Answered ==
  /\ pc = "wait" /\ report[asked].pc \in {"ok", "error"}
  /\ Reported(report[asked].pc = "ok")
  /\ report' = [report EXCEPT ![asked] = Free]
  /\ asked' = NoReport /\ pc' = "probe"
  /\ Advance
  /\ UNCHANGED <<world, npcKey, server, removed, bounds>>

(* The connection is lost before the answer arrives: the read fails or, if *)
(* the network does not report the loss, never returns, since it has no    *)
(* timeout.                                                                *)
ConnectionLost ==
  /\ pc = "wait" /\ faults < MaxFaults
  /\ faults' = faults + 1
  /\ Reported(FALSE)
  /\ report' = [report EXCEPT ![asked] =
                  IF report[asked].pc \in {"sent", "valid"} THEN [@ EXCEPT !.open = FALSE]
                                                            ELSE Free]
  /\ asked' = NoReport /\ pc' \in {"probe", "hung"}
  /\ Advance
  /\ UNCHANGED <<world, npcKey, server, removed, edits>>

(* npc is restarted with the current vkey.                                 *)
NpcRestarts ==
  /\ faults < MaxFaults
  /\ faults' = faults + 1
  /\ pc' = "boot" /\ at' = 1 /\ fails' = [i \in DOMAIN Checks |-> 0]
  /\ asked' = NoReport /\ npcKey' = key
  /\ report' = [s \in Reports |->
                  IF report[s].pc \in {"sent", "valid"} THEN [report[s] EXCEPT !.open = FALSE]
                                                        ELSE Free]
  /\ UNCHANGED <<world, server, removed, edits>>

Admitted(k) == status /\ k = key

(* send_config, and install_client_config as far as it matters here; the   *)
(* monitor starts after that.                                              *)
Boot ==
  /\ pc = "boot" /\ Admitted(npcKey)
  /\ removed' = [removed EXCEPT ![npcKey] = {}]
  /\ known' = TRUE
  /\ pc' = "probe"
  /\ UNCHANGED <<world, at, fails, asked, npcKey, report, key, status, web, bounds>>

-----------------------------------------------------------------------------
(* The handler of a report.  Nobody waits for one whose connection is lost.*)
Finish(s, answer) ==
  report' = [report EXCEPT ![s] = IF @.open THEN [@ EXCEPT !.pc = answer] ELSE Free]

Validate(s) ==
  /\ report[s].pc = "sent"
  /\ IF Admitted(report[s].key) THEN report' = [report EXCEPT ![s].pc = "valid"]
                                ELSE Finish(s, "error")
  /\ UNCHANGED <<world, monitor, server, removed, bounds>>

SetTargetState(s) ==
  LET r == report[s]
  IN /\ r.pc = "valid"
     /\ removed' = [removed EXCEPT ![r.key] =
                      IF r.ok THEN @ \ {r.target} ELSE @ \union {r.target}]
     /\ Finish(s, "ok")
     /\ UNCHANGED <<world, monitor, server, bounds>>

(* A hello that was not read when the connection was lost may be lost too. *)
HelloLost(s) ==
  /\ report[s].pc = "sent" /\ ~report[s].open
  /\ report' = [report EXCEPT ![s] = Free]
  /\ UNCHANGED <<world, monitor, server, removed, bounds>>

(* Masks and rules are not stored (PersistentStore clears healths).        *)
NpsRestarts ==
  /\ faults < MaxFaults
  /\ faults' = faults + 1
  /\ removed' = [k \in Keys |-> {}]
  /\ known' = FALSE /\ web' = "idle"
  /\ report' = [s \in Reports |-> IF s = asked THEN [report[s] EXCEPT !.pc = "error"] ELSE Free]
  /\ UNCHANGED <<world, monitor, key, status, edits>>

-----------------------------------------------------------------------------
(* The Web handlers change the client first and the masks later, and the   *)
(* listeners are stopped and started in between.                           *)
Edit(then) ==
  /\ web = "idle" /\ edits < MaxEdits
  /\ edits' = edits + 1
  /\ web' = then
  /\ UNCHANGED <<world, monitor, report, known, faults>>

ClientStatus(on) ==
  /\ Edit(IF on THEN "idle" ELSE "clear")
  /\ status' = on
  /\ UNCHANGED <<key, removed>>

(* mutate_client_edit with rekey_client_runtime_state.                     *)
ClientEdit(k) ==
  /\ Edit("sync")
  /\ key' = k
  /\ removed' = IF k = key THEN removed
                ELSE [removed EXCEPT ![key] = {},
                                     ![k] = IF status THEN @ \union removed[key] ELSE @]
  /\ UNCHANGED status

(* clear_client_health_runtime_state, or sync_client_health_runtime_state  *)
(* that keeps what the rules of the client name.                           *)
WebFinishes ==
  /\ web \in {"clear", "sync"}
  /\ removed' = [removed EXCEPT ![key] =
                   IF web = "sync" /\ known
                   THEN @ \intersect Checked ELSE {}]
  /\ web' = "idle"
  /\ UNCHANGED <<world, monitor, report, key, status, known, bounds>>

-----------------------------------------------------------------------------
Monitor == Probe \/ Answered \/ ConnectionLost \/ Boot
Handler(s) == Validate(s) \/ SetTargetState(s)

Next ==
  \/ \E t \in Checked : TargetChanges(t)
  \/ Monitor \/ NpcRestarts \/ NpsRestarts
  \/ \E s \in Reports : Handler(s) \/ HelloLost(s)
  \/ \E on \in BOOLEAN : ClientStatus(on)
  \/ \E k \in Keys : ClientEdit(k)
  \/ WebFinishes

Spec == Init /\ [][Next]_vars

(* The monitor, the handlers and the Web handler run on.  Nothing makes a  *)
(* target fail or recover, and a restarted npc need not get through.       *)
FairSpec ==
  /\ Spec
  /\ WF_vars(Probe \/ Answered)
  /\ \A s \in Reports : WF_vars(Handler(s))
  /\ WF_vars(WebFinishes)

-----------------------------------------------------------------------------
(* A report under way or answered.                                         *)
Messages ==
  [pc : {"sent", "valid", "ok", "error"}, open : BOOLEAN, key : Keys, ok : BOOLEAN,
   target : Checked]

(* The variables have the types the code gives them.                       *)
TypeOK ==
  /\ world \in [Checked -> {"up", "half", "down"}]
  /\ pc \in {"boot", "probe", "wait", "hung"} /\ at \in DOMAIN Checks
  /\ fails \in [DOMAIN Checks -> Nat]
  /\ asked \in Reports \union {NoReport}
  /\ npcKey \in Keys /\ key \in Keys
  /\ report \in [Reports -> Messages \union {Free}]
  /\ status \in BOOLEAN /\ known \in BOOLEAN /\ web \in {"idle", "clear", "sync"}
  /\ removed \in [Keys -> SUBSET Checked]
  /\ faults \in 0..MaxFaults /\ edits \in 0..MaxEdits

(* The client is enabled, npc uses its vkey, and the monitor has started   *)
(* and does not hang in a report.                                          *)
Settled == status /\ npcKey = key /\ pc \notin {"boot", "hung"}

Fails(t) == \E i \in DOMAIN Checks : Checks[i].target = t /\ ~Seen(i)
Passes(t) == \A i \in DOMAIN Checks : Checks[i].target = t => Seen(i)

(* A report reaches the mask late: nobody waits for it any more, or the    *)
(* vkey it was admitted under is no longer the client's.                   *)
Late ==
  \E s \in Reports :
    \/ report[s].pc \in {"sent", "valid"} /\ ~report[s].open
    \/ report[s].pc = "valid" /\ report[s].key # key

(* The monitor remembers a failure of each target that is masked, so that  *)
(* it will report the recovery.                                            *)
Remembered ==
  \A t \in removed[key] :
    \E i \in DOMAIN Checks :
      Checks[i].target = t /\ fails[i] >= Checks[i].max_failed

(* Unless a report is late, a masked target has a counter at its threshold *)
(* as long as the monitor runs: the counter is cleared only when the       *)
(* server has confirmed the recovery, and the mask moves with the vkey and *)
(* is cleared when npc starts again.                                       *)
MaskIsRemembered == []~Late => [](pc # "boot" => Remembered)

(* A target that stays in a state one of its rules rejects is masked in    *)
(* the end and stays so, although reports are lost, late or refused, the   *)
(* mask is forgotten by a restart, a disabling or a new vkey, and another  *)
(* rule may find the target healthy: the report is repeated with every     *)
(* max_failed failures.  (While it changes, the rule that sees it recover  *)
(* restores it whatever the other rule thinks.)                            *)
FailingIsMasked ==
  \A t \in Checked, w \in {"half", "down"} :
    <>[](world[t] = w /\ Fails(t) /\ Settled) => <>[](t \in removed[key])

(* A target that passes all its rules again is put back in the end and     *)
(* stays there: the monitor repeats a recovery it could not report.  This  *)
(* is lost if a report is late: a failure masks the target again after its *)
(* recovery was reported, or a recovery does not find the mask, which has  *)
(* moved to a new vkey.                                                    *)
PassingIsRestored ==
  \A t \in Checked :
    <>[](Passes(t) /\ Settled) /\ []~Late => <>[](t \notin removed[key])

=============================================================================
