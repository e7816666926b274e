------------------------ MODULE HealthMonitorProofs ------------------------
(***************************************************************************)
(* Proofs about HealthMonitor: its types, and that the monitor remembers   *)
(* what the server masks, for any checks, vkeys, restarts and edits.       *)
(***************************************************************************)
EXTENDS HealthMonitor, TLAPS

Threshold(i) == fails[i] >= Checks[i].max_failed

(* The monitor waits for the one report whose connection is open; it is    *)
(* about the check the monitor is at, which has failed often enough.       *)
OneReport ==
  /\ pc = "wait" <=> asked # NoReport
  /\ \A s \in Reports : report[s].open => s = asked
  /\ \A s \in Reports : report[s].pc \in {"ok", "error"} => report[s].open
  /\ asked # NoReport =>
       /\ report[asked] \in Messages /\ report[asked].open
       /\ report[asked].target = Checks[at].target /\ Threshold(at)

MonitorInv == TypeOK /\ OneReport

(* A restored target is not masked while the monitor has yet to learn it.  *)
Restored ==
  pc = "wait" /\ report[asked].ok /\ report[asked].pc = "ok"
    => report[asked].target \notin removed[key]

(* Masks are kept under the present vkey only.                             *)
MaskInv ==
  /\ \A k \in Keys \ {key} : removed[k] = {}
  /\ pc # "boot" => Remembered
  /\ Restored

-----------------------------------------------------------------------------
(* The numbers of the monitor.                                             *)
LEMMA Advances ==
  ASSUME at \in DOMAIN Checks, Advance
  PROVE  at' \in DOMAIN Checks
<1> DEFINE n == Len(Checks)
<1>1. n \in Nat \ {0} /\ DOMAIN Checks = 1..n
  BY HealthAssumption
<1>2. at' = (at % n) + 1 /\ at \in Nat
  BY <1>1 DEF Advance
<1> HIDE DEF n
<1>3. at % n \in 0..(n - 1)
  BY <1>1, <1>2
<1> QED BY <1>1, <1>2, <1>3

LEMMA MultipleReaches ==
  ASSUME NEW m \in Nat \ {0}, NEW max \in Nat \ {0}, m % max = 0
  PROVE  m >= max
<1>1. m < max => m % max = m
  OBVIOUS
<1> QED BY <1>1

LEMMA OneMoreReaches ==
  ASSUME NEW n \in Nat, NEW max \in Nat \ {0}
  PROVE  /\ OneMore(n, max) \in Nat
         /\ n >= max => OneMore(n, max) >= max
         /\ OneMore(n, max) % max = 0 => OneMore(n, max) >= max
<1>1. OneMore(n, max) \in Nat \ {0} /\ (n >= max => OneMore(n, max) >= max)
  BY DEF OneMore
<1> QED BY <1>1, MultipleReaches

-----------------------------------------------------------------------------
(* What a probe does: it asks about the check it is at, which has reached  *)
(* its threshold, or goes on; no counter falls from its threshold.         *)
Asks(s, ok) ==
  /\ report[s] = Free /\ asked' = s /\ pc' = "wait" /\ at' = at
  /\ report' = [report EXCEPT ![s] =
                  [pc |-> "sent", open |-> TRUE, key |-> npcKey, ok |-> ok,
                   target |-> Checks[at].target]]
  /\ fails'[at] >= Checks[at].max_failed

GoesOn == at' \in DOMAIN Checks /\ UNCHANGED <<pc, asked, report>>

LEMMA ProbeDoes ==
  ASSUME MonitorInv, Probe
  PROVE  /\ pc = "probe" /\ UNCHANGED <<world, npcKey, server, removed, edits>>
         /\ fails' \in [DOMAIN Checks -> Nat] /\ faults' \in 0..MaxFaults
         /\ \A i \in DOMAIN Checks : Threshold(i) => Threshold(i)'
         /\ (\E s \in Reports, ok \in BOOLEAN : Asks(s, ok)) \/ GoesOn
<1> DEFINE n == fails[at]
           max == Checks[at].max_failed
           more == OneMore(n, max)
<1>1. /\ at \in DOMAIN Checks /\ n \in Nat /\ max \in Nat \ {0}
      /\ fails \in [DOMAIN Checks -> Nat] /\ faults \in 0..MaxFaults /\ MaxFaults \in Nat
  BY HealthAssumption DEF MonitorInv, TypeOK
<1>2. pc = "probe" /\ UNCHANGED <<world, npcKey, server, removed, edits>>
  BY Zenon DEF Probe
<1>3. ASSUME Advance, UNCHANGED <<pc, asked, report, faults>>
      PROVE  GoesOn /\ faults' \in 0..MaxFaults
  BY <1>1, <1>3, Advances, Zenon DEF GoesOn
<1>4. ASSUME NEW ok \in BOOLEAN, Send(ok), fails'[at] >= max
      PROVE  /\ faults' \in 0..MaxFaults
             /\ (\E s \in Reports, k \in BOOLEAN : Asks(s, k)) \/ GoesOn
  <2>1. CASE faults < MaxFaults /\ faults' = faults + 1 /\ Advance /\ UNCHANGED <<pc, asked, report>>
    BY <1>1, <2>1, Advances DEF GoesOn
  <2>2. ASSUME NEW s \in Reports, report[s] = Free,
               report' = [report EXCEPT ![s] =
                            [pc |-> "sent", open |-> TRUE, key |-> npcKey, ok |-> ok,
                             target |-> Checks[at].target]],
               asked' = s, pc' = "wait", UNCHANGED <<at, faults>>
        PROVE  Asks(s, ok) /\ faults' \in 0..MaxFaults
    BY <1>1, <1>4, <2>2, Zenon DEF Asks
  <2> QED BY <1>4, <2>1, <2>2, Zenon DEF Send
<1>5. CASE n >= max /\ Send(TRUE) /\ UNCHANGED fails
  BY <1>1, <1>2, <1>4, <1>5, Zenon DEF Threshold
<1>6. CASE n < max /\ fails' = [fails EXCEPT ![at] = 0] /\ Advance /\ UNCHANGED <<pc, asked, report, faults>>
  <2>1. fails' \in [DOMAIN Checks -> Nat]
    BY <1>1, <1>6
  <2>2. \A i \in DOMAIN Checks : Threshold(i) => Threshold(i)'
    BY <1>1, <1>6 DEF Threshold
  <2> QED BY <1>2, <1>3, <1>6, <2>1, <2>2, Zenon
<1>7. CASE /\ fails' = [fails EXCEPT ![at] = more]
           /\ IF more % max = 0 THEN Send(FALSE)
                                ELSE Advance /\ UNCHANGED <<pc, asked, report, faults>>
  <2>1. more \in Nat /\ (n >= max => more >= max) /\ (more % max = 0 => more >= max)
    BY <1>1, OneMoreReaches
  <2> HIDE DEF more
  <2>2. fails' \in [DOMAIN Checks -> Nat] /\ fails'[at] = more
    BY <1>1, <1>7, <2>1
  <2>3. \A i \in DOMAIN Checks : Threshold(i) => Threshold(i)'
    BY <1>1, <1>7, <2>1 DEF Threshold
  <2>4. CASE more % max = 0
    BY <1>2, <1>4, <1>7, <2>1, <2>2, <2>3, <2>4, Zenon
  <2>5. CASE ~(more % max = 0)
    BY <1>2, <1>3, <1>7, <2>2, <2>3, <2>5, Zenon
  <2> QED BY <2>4, <2>5
<1> QED BY <1>5, <1>6, <1>7, Zenon DEF Probe

(* The records a report goes through.                                      *)
LEMMA ReportKinds ==
  /\ ~Free.open /\ Free.pc = "free" /\ Free \notin Messages
  /\ \A r \in Messages : r.pc # "free" /\ r.open \in BOOLEAN /\ r.target \in Checked
                         /\ r.key \in Keys /\ r.ok \in BOOLEAN
  /\ \A r \in Messages \union {Free} : r.pc # "free" => r \in Messages
  BY DEF Free, Messages

LEMMA ReportSet ==
  ASSUME NEW r \in Messages
  PROVE  /\ \A p \in {"sent", "valid", "ok", "error"} :
              /\ [r EXCEPT !.pc = p] \in Messages
              /\ [r EXCEPT !.pc = p].pc = p /\ [r EXCEPT !.pc = p].open = r.open
              /\ [r EXCEPT !.pc = p].target = r.target /\ [r EXCEPT !.pc = p].ok = r.ok
         /\ [r EXCEPT !.open = FALSE] \in Messages
         /\ ~[r EXCEPT !.open = FALSE].open /\ [r EXCEPT !.open = FALSE].pc = r.pc
  BY Zenon DEF Messages

-----------------------------------------------------------------------------
(* The steps of the monitor keep MonitorInv.                               *)
LEMMA MonitorProbe ==
  ASSUME MonitorInv, Probe
  PROVE  MonitorInv'
<1>1. /\ pc = "probe" /\ UNCHANGED <<world, npcKey, server, removed, edits>>
      /\ fails' \in [DOMAIN Checks -> Nat] /\ faults' \in 0..MaxFaults
      /\ (\E s \in Reports, ok \in BOOLEAN : Asks(s, ok)) \/ GoesOn
  BY ProbeDoes, Zenon
<1>2. asked = NoReport /\ NoReport \notin Reports /\ \A s \in Reports : ~report[s].open
  BY <1>1, HealthAssumption DEF MonitorInv, OneReport
<1>3. CASE GoesOn
  <2>1. TypeOK'
    BY <1>1, <1>3, Zenon DEF MonitorInv, TypeOK, GoesOn, server
  <2>2. OneReport'
    BY <1>1, <1>2, <1>3, Zenon DEF MonitorInv, OneReport, GoesOn
  <2> QED BY <2>1, <2>2 DEF MonitorInv
<1>4. ASSUME NEW s \in Reports, NEW ok \in BOOLEAN, Asks(s, ok)
      PROVE  MonitorInv'
  <2> DEFINE r == [pc |-> "sent", open |-> TRUE, key |-> npcKey, ok |-> ok,
                   target |-> Checks[at].target]
  <2>1. report \in [Reports -> Messages \union {Free}] /\ npcKey \in Keys /\ at \in DOMAIN Checks
    BY Zenon DEF MonitorInv, TypeOK
  <2>2. r \in Messages /\ r.open /\ r.pc = "sent" /\ r.target = Checks[at].target
    BY <2>1 DEF Messages, Checked
  <2> HIDE DEF r
  <2>3. report' = [x \in Reports |-> IF x = s THEN r ELSE report[x]]
    BY <1>4, <2>1, Zenon DEF Asks, r
  <2>4. report' \in [Reports -> Messages \union {Free}]
    BY <2>1, <2>2, <2>3, Zenon
  <2>5. TypeOK'
    BY <1>1, <1>4, <2>4, Zenon DEF MonitorInv, TypeOK, Asks, server
  <2>6. OneReport'
    <3>1. s # NoReport /\ asked' = s /\ pc' = "wait" /\ at' = at /\ Threshold(at)'
      BY <1>2, <1>4, Zenon DEF Asks, Threshold
    <3>2. \A x \in Reports : report'[x].open => x = s
      BY <1>2, <2>3, Zenon
    <3>3. \A x \in Reports : report'[x].pc \in {"ok", "error"} => report'[x].open
      BY <2>2, <2>3 DEF MonitorInv, OneReport
    <3>4. report'[s] = r
      BY <2>3, Zenon
    <3> QED BY <2>2, <3>1, <3>2, <3>3, <3>4, Zenon DEF OneReport
  <2> QED BY <2>5, <2>6 DEF MonitorInv
<1> QED BY <1>1, <1>3, <1>4, Zenon

(* The answer, or its loss: the report is over for the monitor.            *)
LEMMA ReportEnds ==
  ASSUME MonitorInv, Answered \/ ConnectionLost
  PROVE  /\ pc = "wait" /\ asked \in Reports /\ asked' = NoReport /\ pc' \in {"probe", "hung"}
         /\ at' \in DOMAIN Checks /\ fails' \in [DOMAIN Checks -> Nat]
         /\ UNCHANGED <<world, npcKey, server, removed, edits>>
         /\ faults' \in 0..MaxFaults
         /\ \E r \in Messages \union {Free} :
              /\ ~r.open /\ r.pc \notin {"ok", "error"}
              /\ report' = [x \in Reports |-> IF x = asked THEN r ELSE report[x]]
<1>1. /\ pc = "wait" /\ asked' = NoReport /\ pc' \in {"probe", "hung"} /\ Advance
      /\ UNCHANGED <<world, npcKey, server, removed, edits>>
      /\ faults' = faults \/ (faults < MaxFaults /\ faults' = faults + 1)
      /\ Reported(report[asked].pc = "ok") \/ Reported(FALSE)
  BY Zenon DEF Answered, ConnectionLost, bounds
<1>2. /\ asked \in Reports /\ report[asked] \in Messages /\ at \in DOMAIN Checks
      /\ report \in [Reports -> Messages \union {Free}]
      /\ fails \in [DOMAIN Checks -> Nat] /\ faults \in 0..MaxFaults
  BY <1>1, Zenon DEF MonitorInv, OneReport, TypeOK
<1>3. at' \in DOMAIN Checks
  BY <1>1, <1>2, Advances, Zenon
<1>4. faults' \in 0..MaxFaults
  BY <1>1, <1>2, HealthAssumption
<1>5. fails' \in [DOMAIN Checks -> Nat]
  BY <1>1, <1>2 DEF Reported
<1>6. \E r \in Messages \union {Free} :
        /\ ~r.open /\ r.pc \notin {"ok", "error"}
        /\ report' = [x \in Reports |-> IF x = asked THEN r ELSE report[x]]
  <2>1. ~Free.open /\ Free.pc \notin {"ok", "error"}
    BY ReportKinds
  <2>2. CASE report' = [report EXCEPT ![asked] = Free]
    BY <1>2, <2>1, <2>2, Zenon
  <2>3. CASE /\ report[asked].pc \in {"sent", "valid"}
             /\ report' = [report EXCEPT ![asked] = [@ EXCEPT !.open = FALSE]]
    <3> DEFINE r == [report[asked] EXCEPT !.open = FALSE]
    <3>1. r \in Messages /\ ~r.open /\ r.pc \notin {"ok", "error"}
      BY <1>2, <2>3, ReportSet, Zenon
    <3>2. report' = [x \in Reports |-> IF x = asked THEN r ELSE report[x]]
      BY <1>2, <2>3, Zenon
    <3> QED BY <3>1, <3>2, Zenon
  <2> QED BY <2>2, <2>3, Zenon DEF Answered, ConnectionLost
<1> QED BY <1>1, <1>2, <1>3, <1>4, <1>5, <1>6, Zenon

LEMMA MonitorEnds ==
  ASSUME MonitorInv, Answered \/ ConnectionLost
  PROVE  MonitorInv'
<1>1. PICK r \in Messages \union {Free} :
        /\ ~r.open /\ r.pc \notin {"ok", "error"}
        /\ report' = [x \in Reports |-> IF x = asked THEN r ELSE report[x]]
  BY ReportEnds, Zenon
<1>2. /\ asked \in Reports /\ asked' = NoReport /\ pc' \in {"probe", "hung"}
      /\ at' \in DOMAIN Checks /\ fails' \in [DOMAIN Checks -> Nat]
      /\ UNCHANGED <<world, npcKey, server, removed, edits>>
      /\ faults' \in 0..MaxFaults
  BY ReportEnds, Zenon
<1>3. TypeOK'
  <2>1. report' \in [Reports -> Messages \union {Free}]
    BY <1>1, Zenon DEF MonitorInv, TypeOK
  <2> QED BY <1>2, <2>1, Zenon DEF MonitorInv, TypeOK, server
<1>4. \A x \in Reports : ~report'[x].open
  BY <1>1 DEF MonitorInv, OneReport
<1>5. \A x \in Reports : report'[x].pc \notin {"ok", "error"}
  BY <1>1, <1>2 DEF MonitorInv, OneReport
<1>6. OneReport'
  BY <1>2, <1>4, <1>5, Zenon DEF OneReport
<1> QED BY <1>3, <1>6 DEF MonitorInv

-----------------------------------------------------------------------------
(* The restarts.                                                           *)
LEMMA NpcStarts ==
  ASSUME MonitorInv, NpcRestarts
  PROVE  MonitorInv'
<1> DEFINE R(s) == IF report[s].pc \in {"sent", "valid"} THEN [report[s] EXCEPT !.open = FALSE]
                                                          ELSE Free
<1>1. /\ pc' = "boot" /\ at' = 1 /\ fails' = [i \in DOMAIN Checks |-> 0]
      /\ asked' = NoReport /\ npcKey' = key /\ report' = [s \in Reports |-> R(s)]
      /\ faults < MaxFaults /\ faults' = faults + 1
      /\ UNCHANGED <<world, server, removed, edits>>
  BY Zenon DEF NpcRestarts
<1>2. \A s \in Reports : R(s) \in Messages \union {Free} /\ ~R(s).open
                         /\ R(s).pc \notin {"ok", "error"}
  <2> SUFFICES ASSUME NEW s \in Reports
               PROVE  R(s) \in Messages \union {Free} /\ ~R(s).open
                      /\ R(s).pc \notin {"ok", "error"}
    OBVIOUS
  <2>1. report[s] \in Messages \union {Free}
    BY Zenon DEF MonitorInv, TypeOK
  <2>2. CASE report[s].pc \in {"sent", "valid"}
    <3>1. report[s] \in Messages
      BY <2>1, <2>2, ReportKinds
    <3> QED BY <2>2, <3>1, ReportSet, Zenon
  <2>3. CASE report[s].pc \notin {"sent", "valid"}
    BY <2>3, ReportKinds
  <2> QED BY <2>2, <2>3
<1> HIDE DEF R
<1>3. TypeOK'
  <2>1. report' \in [Reports -> Messages \union {Free}]
    BY <1>1, <1>2, Zenon
  <2>2. fails' \in [DOMAIN Checks -> Nat] /\ at' \in DOMAIN Checks /\ faults' \in 0..MaxFaults
    BY <1>1, HealthAssumption DEF MonitorInv, TypeOK
  <2> QED BY <1>1, <2>1, <2>2, Zenon DEF MonitorInv, TypeOK, server
<1>4. OneReport'
  BY <1>1, <1>2, Zenon DEF OneReport
<1> QED BY <1>3, <1>4 DEF MonitorInv

LEMMA NpsStarts ==
  ASSUME MonitorInv, NpsRestarts
  PROVE  MonitorInv'
<1> DEFINE e == [report[asked] EXCEPT !.pc = "error"]
<1>1. /\ removed' = [k \in Keys |-> {}] /\ known' = FALSE /\ web' = "idle"
      /\ report' = [s \in Reports |-> IF s = asked THEN e ELSE Free]
      /\ faults < MaxFaults /\ faults' = faults + 1
      /\ UNCHANGED <<world, monitor, key, status, edits>>
  BY DEF NpsRestarts
<1>2. asked \in Reports => /\ report[asked] \in Messages /\ report[asked].open
                           /\ e \in Messages /\ e.open /\ e.target = report[asked].target
  <2> SUFFICES ASSUME asked \in Reports
               PROVE  /\ report[asked] \in Messages /\ report[asked].open
                      /\ e \in Messages /\ e.open /\ e.target = report[asked].target
    OBVIOUS
  <2>1. report[asked] \in Messages /\ report[asked].open
    BY HealthAssumption, Zenon DEF MonitorInv, OneReport
  <2> QED BY <2>1 DEF Messages
<1>3. ~Free.open /\ Free.pc \notin {"ok", "error"}
  BY ReportKinds
<1> HIDE DEF e
<1>4. TypeOK'
  <2>1. report' \in [Reports -> Messages \union {Free}]
    BY <1>1, <1>2, Zenon
  <2>2. removed' \in [Keys -> SUBSET Checked] /\ faults' \in 0..MaxFaults
    BY <1>1, HealthAssumption DEF MonitorInv, TypeOK
  <2> QED BY <1>1, <2>1, <2>2, Zenon DEF MonitorInv, TypeOK, monitor
<1>5. OneReport'
  <2>1. \A s \in Reports : report'[s].open => s = asked
    BY <1>1, <1>3, Zenon
  <2>2. \A s \in Reports : report'[s].pc \in {"ok", "error"} => report'[s].open
    BY <1>1, <1>2, <1>3, Zenon
  <2>3. asked # NoReport => report'[asked] = e /\ asked \in Reports
    BY <1>1, Zenon DEF MonitorInv, TypeOK
  <2> QED BY <1>1, <1>2, <2>1, <2>2, <2>3, Zenon DEF MonitorInv, OneReport, Threshold, monitor
<1> QED BY <1>4, <1>5 DEF MonitorInv

-----------------------------------------------------------------------------
(* A handler of the server moves one report on, and keeps what it is about *)
(* and its connection, or gives it up when nobody waits.                   *)
MovesOn(s, r) ==
  /\ report' = [x \in Reports |-> IF x = s THEN r ELSE report[x]]
  /\ \/ r = Free /\ ~report[s].open
     \/ /\ r \in Messages /\ r.open = report[s].open /\ r.target = report[s].target
        /\ r.ok = report[s].ok
        /\ r.pc \in {"ok", "error"} => r.open

LEMMA HandlerDoes ==
  ASSUME MonitorInv, NEW s \in Reports, Handler(s) \/ HelloLost(s)
  PROVE  /\ report[s] \in Messages /\ report[s].pc \in {"sent", "valid"}
         /\ UNCHANGED <<world, monitor, server, bounds>>
         /\ \E r : MovesOn(s, r) /\ (r.pc = "ok" => report[s].pc = "valid")
<1>1. report \in [Reports -> Messages \union {Free}]
  BY Zenon DEF MonitorInv, TypeOK
<1>2. UNCHANGED <<world, monitor, server, bounds>> /\ report[s].pc \in {"sent", "valid"}
  BY DEF Handler, Validate, SetTargetState, HelloLost
<1>3. report[s] \in Messages /\ report[s].open \in BOOLEAN
  BY <1>1, <1>2, ReportKinds
<1>4. Free.pc = "free"
  BY ReportKinds
<1>5. ASSUME NEW p \in {"ok", "error"}, Finish(s, p)
      PROVE  \E r : MovesOn(s, r) /\ (r.pc = "ok" => p = "ok")
  <2>1. CASE report[s].open
    <3> DEFINE r == [report[s] EXCEPT !.pc = p]
    <3>1. r \in Messages /\ r.open = report[s].open /\ r.target = report[s].target
          /\ r.ok = report[s].ok /\ r.pc = p
      BY <1>3 DEF Messages
    <3>2. report' = [x \in Reports |-> IF x = s THEN r ELSE report[x]]
      BY <1>1, <1>5, <2>1, Zenon DEF Finish
    <3> HIDE DEF r
    <3> QED BY <2>1, <3>1, <3>2, Zenon DEF MovesOn
  <2>2. CASE ~report[s].open
    <3>1. report' = [x \in Reports |-> IF x = s THEN Free ELSE report[x]]
      BY <1>1, <1>5, <2>2, Zenon DEF Finish
    <3> QED BY <1>4, <2>2, <3>1 DEF MovesOn
  <2> QED BY <2>1, <2>2
<1>6. ASSUME report' = [report EXCEPT ![s].pc = "valid"]
      PROVE  \E r : MovesOn(s, r) /\ r.pc # "ok"
  <2> DEFINE r == [report[s] EXCEPT !.pc = "valid"]
  <2>1. r \in Messages /\ r.open = report[s].open /\ r.target = report[s].target
        /\ r.ok = report[s].ok /\ r.pc = "valid"
    BY <1>3, ReportSet, Zenon
  <2>2. report' = [x \in Reports |-> IF x = s THEN r ELSE report[x]]
    BY <1>1, <1>6, Zenon
  <2> HIDE DEF r
  <2> QED BY <2>1, <2>2 DEF MovesOn
<1>7. CASE Validate(s)
  BY <1>2, <1>3, <1>5, <1>6, <1>7 DEF Validate
<1>8. CASE SetTargetState(s)
  BY <1>2, <1>3, <1>5, <1>8, Zenon DEF SetTargetState
<1>9. CASE HelloLost(s)
  <2>1. ~report[s].open /\ report' = [x \in Reports |-> IF x = s THEN Free ELSE report[x]]
    BY <1>1, <1>9, Zenon DEF HelloLost
  <2> QED BY <1>2, <1>3, <1>4, <2>1, Zenon DEF MovesOn
<1> QED BY <1>7, <1>8, <1>9 DEF Handler

LEMMA MonitorHandler ==
  ASSUME MonitorInv, NEW s \in Reports, Handler(s) \/ HelloLost(s)
  PROVE  MonitorInv'
<1>1. /\ report[s] \in Messages /\ report[s].pc \in {"sent", "valid"}
      /\ UNCHANGED <<world, monitor, server, bounds>>
  BY HandlerDoes, Zenon
<1>2. PICK r : MovesOn(s, r)
  BY HandlerDoes, Zenon
<1>3. report' = [x \in Reports |-> IF x = s THEN r ELSE report[x]]
  BY <1>2, Zenon DEF MovesOn
<1>4. /\ r \in Messages \union {Free} /\ (r.open => report[s].open)
      /\ (r.pc \in {"ok", "error"} => r.open)
      /\ (report[s].open => r \in Messages /\ r.open /\ r.target = report[s].target)
  BY <1>2, ReportKinds DEF MovesOn
<1>5. TypeOK'
  <2>1. report' \in [Reports -> Messages \union {Free}]
    BY <1>3, <1>4, Zenon DEF MonitorInv, TypeOK
  <2>2. removed' \in [Keys -> SUBSET Checked]
    <3>1. CASE UNCHANGED removed
      BY <3>1, Zenon DEF MonitorInv, TypeOK
    <3>2. CASE SetTargetState(s)
      <4>1. removed \in [Keys -> SUBSET Checked] /\ report[s].target \in Checked
        BY <1>1, ReportKinds, Zenon DEF MonitorInv, TypeOK
      <4> QED BY <3>2, <4>1, Zenon DEF SetTargetState
    <3> QED BY <3>1, <3>2, Zenon DEF Handler, Validate, HelloLost
  <2> QED BY <1>1, <2>1, <2>2, Zenon DEF MonitorInv, TypeOK, monitor, server, bounds
<1>6. OneReport'
  <2>1. \A x \in Reports : report'[x].open => x = asked
    BY <1>3, <1>4, Zenon DEF MonitorInv, OneReport
  <2>2. \A x \in Reports : report'[x].pc \in {"ok", "error"} => report'[x].open
    BY <1>3, <1>4, Zenon DEF MonitorInv, OneReport
  <2>3. asked # NoReport => /\ report'[asked] \in Messages /\ report'[asked].open
                            /\ report'[asked].target = report[asked].target
    <3> SUFFICES ASSUME asked # NoReport
                 PROVE  /\ report'[asked] \in Messages /\ report'[asked].open
                        /\ report'[asked].target = report[asked].target
      OBVIOUS
    <3>1. asked \in Reports /\ report[asked] \in Messages /\ report[asked].open
      BY Zenon DEF MonitorInv, TypeOK, OneReport
    <3>2. CASE asked = s
      BY <1>3, <1>4, <3>1, <3>2, Zenon
    <3>3. CASE asked # s
      BY <1>3, <3>1, <3>3, Zenon
    <3> QED BY <3>2, <3>3
  <2> QED BY <1>1, <2>1, <2>2, <2>3, Zenon DEF MonitorInv, OneReport, Threshold, monitor
<1> QED BY <1>5, <1>6 DEF MonitorInv

(* The steps that touch neither the reports nor where the monitor is.      *)
LEMMA MonitorBeside ==
  ASSUME MonitorInv, UNCHANGED <<at, fails, asked, npcKey, report>>,
         pc' = pc \/ (pc = "boot" /\ pc' = "probe"),
         world' \in [Checked -> {"up", "half", "down"}],
         key' \in Keys, status' \in BOOLEAN, known' \in BOOLEAN,
         web' \in {"idle", "clear", "sync"}, removed' \in [Keys -> SUBSET Checked],
         faults' = faults, edits' \in 0..MaxEdits
  PROVE  MonitorInv'
<1>1. pc \in {"boot", "probe", "wait", "hung"} /\ pc' \in {"boot", "probe", "wait", "hung"}
      /\ (pc = "wait" <=> pc' = "wait")
  BY DEF MonitorInv, TypeOK
<1>2. TypeOK'
  BY <1>1, Zenon DEF MonitorInv, TypeOK
<1>3. OneReport'
  BY <1>1, Zenon DEF MonitorInv, OneReport, Threshold
<1> QED BY <1>2, <1>3 DEF MonitorInv

LEMMA MonitorWeb ==
  ASSUME MonitorInv,
         \/ \E t \in Checked : TargetChanges(t)
         \/ \E on \in BOOLEAN : ClientStatus(on)
         \/ \E k \in Keys : ClientEdit(k)
         \/ WebFinishes \/ Boot
  PROVE  MonitorInv'
<1>0. /\ removed \in [Keys -> SUBSET Checked] /\ key \in Keys /\ npcKey \in Keys
      /\ status \in BOOLEAN /\ known \in BOOLEAN /\ web \in {"idle", "clear", "sync"}
      /\ world \in [Checked -> {"up", "half", "down"}]
      /\ edits \in 0..MaxEdits /\ MaxEdits \in Nat
  BY HealthAssumption, Zenon DEF MonitorInv, TypeOK
<1>1. ASSUME NEW t \in Checked, TargetChanges(t) PROVE MonitorInv'
  <2>1. world' \in [Checked -> {"up", "half", "down"}]
    BY <1>0, <1>1 DEF TargetChanges
  <2> QED
    BY <1>0, <1>1, <2>1, MonitorBeside, Zenon DEF TargetChanges, monitor, server, bounds
<1>2. ASSUME NEW then \in {"idle", "clear", "sync"}, Edit(then)
      PROVE  /\ web' = then /\ edits' \in 0..MaxEdits
             /\ UNCHANGED <<world, monitor, report, known, faults>>
  <2>1. edits' \in 0..MaxEdits
    BY <1>0, <1>2 DEF Edit
  <2> QED BY <1>2, <2>1, Zenon DEF Edit
<1>3. ASSUME NEW on \in BOOLEAN, ClientStatus(on) PROVE MonitorInv'
  <2>1. PICK then \in {"idle", "clear", "sync"} : Edit(then)
    BY <1>3, Zenon DEF ClientStatus
  <2>2. /\ web' = then /\ edits' \in 0..MaxEdits
        /\ UNCHANGED <<world, monitor, report, known, faults>>
    BY <1>2, <2>1, Zenon
  <2> QED
    BY <1>0, <1>3, <2>2, MonitorBeside, Zenon DEF ClientStatus, monitor
<1>4. ASSUME NEW k \in Keys, ClientEdit(k) PROVE MonitorInv'
  <2>1. /\ web' = "sync" /\ edits' \in 0..MaxEdits
        /\ UNCHANGED <<world, monitor, report, known, faults>>
    BY <1>2, <1>4, Zenon DEF ClientEdit
  <2>2. removed' \in [Keys -> SUBSET Checked]
    BY <1>0, <1>4 DEF ClientEdit
  <2> QED
    BY <1>0, <1>4, <2>1, <2>2, MonitorBeside, Zenon DEF ClientEdit, monitor
<1>5. CASE WebFinishes
  <2>1. removed' \in [Keys -> SUBSET Checked]
    BY <1>0, <1>5 DEF WebFinishes
  <2> QED
    BY <1>0, <1>5, <2>1, MonitorBeside, Zenon DEF WebFinishes, monitor, bounds
<1>6. CASE Boot
  <2>1. removed' \in [Keys -> SUBSET Checked]
    BY <1>0, <1>6 DEF Boot
  <2> QED
    BY <1>0, <1>6, <2>1, MonitorBeside, Zenon DEF Boot, bounds
<1> QED BY <1>1, <1>3, <1>4, <1>5, <1>6

LEMMA MonitorInit == Init => MonitorInv
<1> SUFFICES ASSUME Init PROVE MonitorInv
  OBVIOUS
<1>1. ~Free.open /\ Free.pc = "free"
  BY ReportKinds, Zenon
<1>2. 1 \in DOMAIN Checks /\ 0 \in 0..MaxFaults /\ 0 \in 0..MaxEdits
  BY HealthAssumption
<1>3. TypeOK
  BY <1>2 DEF Init, TypeOK
<1>4. OneReport
  BY <1>1, HealthAssumption, Zenon DEF Init, OneReport
<1> QED BY <1>3, <1>4 DEF MonitorInv

LEMMA MonitorNext == MonitorInv /\ [Next]_vars => MonitorInv'
<1> SUFFICES ASSUME MonitorInv, [Next]_vars PROVE MonitorInv'
  OBVIOUS
<1>1. CASE UNCHANGED vars
  <2>1. TypeOK'
    BY <1>1, Zenon DEF MonitorInv, TypeOK, vars
  <2>2. OneReport'
    BY <1>1, Zenon DEF MonitorInv, OneReport, Threshold, vars
  <2> QED BY <2>1, <2>2 DEF MonitorInv
<1> QED
  BY <1>1, MonitorProbe, MonitorEnds, NpcStarts, NpsStarts, MonitorHandler, MonitorWeb, Zenon
     DEF Next, Monitor

(* Every variable keeps its type, for any checks, vkeys and bounds.        *)
THEOREM TypeCorrect == Spec => []TypeOK
<1>1. MonitorInv => TypeOK
  BY DEF MonitorInv
<1> QED BY <1>1, MonitorInit, MonitorNext, PTL DEF Spec

-----------------------------------------------------------------------------
(* The masks.  What the steps leave of them is what the monitor remembers. *)
Others == \A k \in Keys \ {key} : removed[k] = {}

LEMMA MaskProbe ==
  ASSUME MonitorInv, MaskInv, Probe
  PROVE  MaskInv'
<1>1. /\ pc = "probe" /\ UNCHANGED <<key, removed>>
      /\ \A i \in DOMAIN Checks : Threshold(i) => Threshold(i)'
      /\ (\E s \in Reports, ok \in BOOLEAN : Asks(s, ok)) \/ GoesOn
  BY ProbeDoes, Zenon DEF server
<1>2. Others'
  BY <1>1, Zenon DEF MaskInv, Others
<1>3. Remembered'
  BY <1>1 DEF MaskInv, Remembered, Threshold
<1>4. Restored'
  <2>1. CASE GoesOn
    BY <1>1, <2>1 DEF GoesOn, Restored
  <2>2. ASSUME NEW s \in Reports, NEW ok \in BOOLEAN, Asks(s, ok)
        PROVE  Restored'
    <3>1. asked' = s /\ report'[s].pc = "sent"
      BY <2>2, Zenon DEF Asks, MonitorInv, TypeOK
    <3> QED BY <3>1 DEF Restored
  <2> QED BY <1>1, <2>1, <2>2, Zenon
<1> QED BY <1>2, <1>3, <1>4 DEF MaskInv, Others

LEMMA MaskEnds ==
  ASSUME MonitorInv, MaskInv, Answered \/ ConnectionLost
  PROVE  MaskInv'
<1>1. /\ pc = "wait" /\ pc' \in {"probe", "hung"} /\ asked \in Reports /\ UNCHANGED <<key, removed>>
  BY ReportEnds, Zenon DEF server
<1>2. Others' /\ Restored'
  BY <1>1 DEF MaskInv, Others, Restored
<1>3. Remembered'
  <2> SUFFICES ASSUME NEW t \in removed[key]
               PROVE  \E i \in DOMAIN Checks : Checks[i].target = t /\ Threshold(i)'
    BY <1>1, Zenon DEF Remembered, Threshold
  <2>1. PICK i \in DOMAIN Checks : Checks[i].target = t /\ Threshold(i)
    BY <1>1, Zenon DEF MaskInv, Remembered, Threshold
  <2>2. CASE fails' = fails
    BY <2>1, <2>2, Zenon DEF Threshold
  <2>3. CASE /\ report[asked].ok /\ report[asked].pc = "ok"
             /\ fails' = [fails EXCEPT ![at] = 0]
    <3>1. Checks[at].target \notin removed[key]
      BY <1>1, <2>3, Zenon DEF MonitorInv, OneReport, MaskInv, Restored
    <3>2. i # at
      BY <2>1, <3>1
    <3>3. fails'[i] = fails[i]
      BY <2>3, <3>2 DEF MonitorInv, TypeOK
    <3> QED BY <2>1, <3>3, Zenon DEF Threshold
  <2> QED BY <2>2, <2>3 DEF Answered, ConnectionLost, Reported
<1> QED BY <1>1, <1>2, <1>3 DEF MaskInv, Others

(* A report that is not late reaches the masks while the monitor waits.    *)
LEMMA MaskHandler ==
  ASSUME MonitorInv, MaskInv, ~Late, NEW s \in Reports, Handler(s) \/ HelloLost(s)
  PROVE  MaskInv'
<1>1. /\ report[s] \in Messages /\ report[s].pc \in {"sent", "valid"}
      /\ UNCHANGED <<pc, at, fails, asked, key>>
  BY HandlerDoes, Zenon DEF monitor, server
<1>2. PICK r : MovesOn(s, r) /\ (r.pc = "ok" => report[s].pc = "valid")
  BY HandlerDoes, Zenon
<1>3. report[s].open /\ (report[s].pc = "valid" => report[s].key = key)
  BY <1>1, Zenon DEF Late
<1>4. s = asked /\ pc = "wait" /\ Threshold(at) /\ report[s].target = Checks[at].target
      /\ at \in DOMAIN Checks
  BY <1>3, HealthAssumption, Zenon DEF MonitorInv, OneReport, TypeOK
<1>5. r \in Messages /\ report'[s] = r /\ r.ok = report[s].ok /\ r.target = report[s].target
  BY <1>2, <1>3, Zenon DEF MovesOn
<1>6. CASE UNCHANGED removed /\ ~SetTargetState(s)
  <2>1. r.pc # "ok"
    <3>1. HelloLost(s) => FALSE
      BY <1>3 DEF HelloLost
    <3>2. Validate(s)
      BY <1>6, <3>1 DEF Handler
    <3> QED BY <1>2, <3>2 DEF Validate
  <2>2. Restored'
    BY <1>1, <1>4, <1>5, <2>1 DEF Restored
  <2> QED BY <1>1, <1>6, <2>2, Zenon DEF MaskInv, Remembered
<1>7. CASE SetTargetState(s)
  <2> DEFINE t == report[s].target
  <2>0. removed \in [Keys -> SUBSET Checked] /\ key \in Keys /\ report[s].key = key
    BY <1>3, <1>7, Zenon DEF MonitorInv, TypeOK, SetTargetState
  <2>1. removed' = [k \in Keys |->
                      IF k = key THEN IF report[s].ok THEN removed[key] \ {t}
                                                      ELSE removed[key] \union {t}
                                 ELSE removed[k]]
    BY <1>7, <2>0, Zenon DEF SetTargetState
  <2>2. Others'
    BY <1>1, <2>0, <2>1, Zenon DEF MaskInv, Others
  <2>3. Remembered'
    <3> SUFFICES ASSUME NEW u \in removed'[key]
                 PROVE  \E i \in DOMAIN Checks : Checks[i].target = u /\ Threshold(i)
      BY <1>1, Zenon DEF Remembered, Threshold
    <3>1. u \in removed[key] \/ u = t
      BY <2>0, <2>1, Zenon
    <3>2. CASE u \in removed[key]
      BY <1>4, <3>2, Zenon DEF MaskInv, Remembered, Threshold
    <3>3. CASE u = t
      BY <1>4, <3>3, Zenon
    <3> QED BY <3>1, <3>2, <3>3, Zenon
  <2>4. Restored'
    <3>1. report[s].ok => t \notin removed'[key]
      BY <2>0, <2>1
    <3> QED BY <1>1, <1>4, <1>5, <3>1, Zenon DEF Restored
  <2> QED BY <2>2, <2>3, <2>4 DEF MaskInv, Others
<1> QED BY <1>6, <1>7 DEF Handler, Validate, HelloLost

LEMMA MaskStarts ==
  ASSUME MonitorInv, MaskInv, NpcRestarts \/ NpsRestarts \/ Boot
  PROVE  MaskInv'
<1>0. removed \in [Keys -> SUBSET Checked] /\ key \in Keys
  BY Zenon DEF MonitorInv, TypeOK
<1>1. CASE NpcRestarts
  <2>1. pc' = "boot" /\ UNCHANGED <<key, removed>>
    BY <1>1, Zenon DEF NpcRestarts, server
  <2> QED BY <2>1, Zenon DEF MaskInv, Restored
<1>2. ASSUME key' = key, \A k \in Keys : removed'[k] = {}
      PROVE  MaskInv'
  BY <1>0, <1>2, Zenon DEF MaskInv, Remembered, Restored
<1>3. CASE NpsRestarts
  BY <1>2, <1>3 DEF NpsRestarts
<1>4. CASE Boot
  <2>1. \A k \in Keys : removed'[k] = {}
    BY <1>0, <1>4, Zenon DEF Boot, Admitted, MaskInv
  <2> QED BY <1>2, <1>4, <2>1, Zenon DEF Boot
<1> QED BY <1>1, <1>3, <1>4

LEMMA MaskWeb ==
  ASSUME MonitorInv, MaskInv,
         \/ \E t \in Checked : TargetChanges(t)
         \/ \E on \in BOOLEAN : ClientStatus(on)
         \/ \E k \in Keys : ClientEdit(k)
         \/ WebFinishes \/ UNCHANGED vars
  PROVE  MaskInv'
<1>0. removed \in [Keys -> SUBSET Checked] /\ key \in Keys
  BY Zenon DEF MonitorInv, TypeOK
<1>1. UNCHANGED <<pc, fails, asked, report>>
  BY Zenon DEF TargetChanges, ClientStatus, ClientEdit, Edit, WebFinishes, monitor, vars
<1>2. ASSUME Others', removed'[key'] \subseteq removed[key]
      PROVE  MaskInv'
  <2>1. (pc # "boot" => Remembered)'
    BY <1>1, <1>2 DEF MaskInv, Remembered
  <2>2. Restored'
    BY <1>1, <1>2, Zenon DEF MaskInv, Restored
  <2> QED BY <1>2, <2>1, <2>2, Zenon DEF MaskInv, Others
<1>3. CASE UNCHANGED <<key, removed>>
  BY <1>2, <1>3, Zenon DEF MaskInv, Others
<1>4. ASSUME NEW k \in Keys, ClientEdit(k), k # key
      PROVE  MaskInv'
  <2>1. removed' = [x \in Keys |-> IF x = k THEN IF status THEN removed[k] \union removed[key]
                                                           ELSE removed[k]
                                   ELSE IF x = key THEN {} ELSE removed[x]]
    BY <1>0, <1>4, Zenon DEF ClientEdit
  <2>2. key' = k /\ removed[k] = {}
    BY <1>4, Zenon DEF ClientEdit, MaskInv
  <2> QED BY <1>2, <1>4, <2>1, <2>2, Zenon DEF MaskInv, Others
<1>5. CASE WebFinishes
  <2>1. key' = key /\ removed'[key] \subseteq removed[key]
        /\ \A k \in Keys \ {key} : removed'[k] = removed[k]
    BY <1>0, <1>5, Zenon DEF WebFinishes
  <2> QED BY <1>2, <2>1, Zenon DEF MaskInv, Others
<1>6. ASSUME NEW k \in Keys, ClientEdit(k), k = key
      PROVE  MaskInv'
  BY <1>3, <1>6, Zenon DEF ClientEdit
<1> QED
  BY <1>3, <1>4, <1>5, <1>6, Zenon DEF TargetChanges, ClientStatus, server, vars

(* As long as no report is late, the monitor remembers a failure of every  *)
(* target the server masks: a counter is cleared only when the server has  *)
(* restored the target, a mask moves with the vkey, and one that outlives  *)
(* npc is cleared when it sends its configuration again.  So a recovery    *)
(* can be reported, whatever was lost, refused, restarted or edited.       *)
THEOREM MaskAlwaysRemembered == Spec => MaskIsRemembered
<1>1. Init => MaskInv
  <2> SUFFICES ASSUME Init PROVE MaskInv
    OBVIOUS
  <2>1. \A k \in Keys : removed[k] = {}
    BY Zenon DEF Init
  <2> QED BY <2>1, Zenon DEF Init, MaskInv, Remembered, Restored
<1>2. MonitorInv /\ MaskInv /\ ~Late /\ [Next]_vars => MaskInv'
  BY MaskProbe, MaskEnds, MaskHandler, MaskStarts, MaskWeb, Zenon DEF Next, Monitor
<1>3. MaskInv => (pc # "boot" => Remembered)
  BY DEF MaskInv
<1> QED BY <1>1, <1>2, <1>3, MonitorInit, MonitorNext, PTL DEF Spec, MaskIsRemembered

=============================================================================
