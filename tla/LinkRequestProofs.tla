------------------------- MODULE LinkRequestProofs -------------------------
(***************************************************************************)
(* Proofs about the control plane together with the requests for client    *)
(* streams: type correctness, the handles, the pending map, and the        *)
(* accounting of connection slots.                                         *)
(***************************************************************************)
EXTENDS LinkRequest, FiniteSetTheorems, TLAPS

-----------------------------------------------------------------------------
(* The control plane, with any set kept of handles that requests hold.     *)

\* A step of the control plane while requests hold the handles in kept.
AnyControlStep(kept) ==
  \/ \E c \in Conns :
       \/ Connect(c, kept)
       \/ NpcLeaves(c)
       \/ Handshake(c)
       \/ Register(c)
       \/ WriteControl(c)
       \/ LoopEnds(c, kept)
       \/ RemoveControl(c)
       \/ Break(c)
  \/ \E c : \E l \in Links : SendOpen(c, l)
  \/ NpcExits
  \/ Enable
  \/ RestartTunnels
  \/ Disable
  \/ StopTunnels
  \/ TerminateControl
  \/ TerminateCounts
  \/ TerminateStop
  \/ UNCHANGED controlVars

\* The types of the control plane hold at the start.
LEMMA ControlTypeInit == ControlInit => ControlTypeOK
<1> SUFFICES ASSUME ControlInit PROVE ControlTypeOK
  OBVIOUS
<1> USE DEF ControlInit
<1>1. mailbox \in [Conns -> Seq(Links \cup {Stop})]
  <2>1. <<>> \in Seq(Links \cup {Stop})
    OBVIOUS
  <2> QED BY <2>1
<1>2. admin \in [pc : AdminSteps, handle : Conns \cup {NoConn}]
  BY DEF AdminSteps
<1>3. breaks \in 0..MaxBreaks /\ toggles \in 0..MaxToggles
  BY ControlAssumption
<1> QED BY <1>1, <1>2, <1>3, Zenon DEF ControlTypeOK, HandlerStates, LinkStates

\* Every step of the control plane keeps the types.
LEMMA ControlTypeStep ==
  ASSUME NEW kept, ControlTypeOK, AnyControlStep(kept)
  PROVE  ControlTypeOK'
<1> USE ControlAssumption DEF ControlTypeOK, HandlerStates, LinkStates, AdminSteps,
                             Closed
<1>1. ASSUME NEW c \in Conns, Connect(c, kept) PROVE ControlTypeOK'
  BY <1>1 DEF Connect
<1>2. ASSUME NEW c \in Conns, NpcLeaves(c) PROVE ControlTypeOK'
  BY <1>2 DEF NpcLeaves
<1>3. ASSUME NEW c \in Conns, Handshake(c) PROVE ControlTypeOK'
  <2>1. link' \in [Conns -> LinkStates] /\ handler' \in [Conns -> HandlerStates]
    BY <1>3 DEF Handshake
  <2> QED BY <1>3, <2>1 DEF Handshake
<1>4. ASSUME NEW c \in Conns, Register(c) PROVE ControlTypeOK'
  BY <1>4, Zenon DEF Register
<1>5. ASSUME NEW c \in Conns, WriteControl(c) PROVE ControlTypeOK'
  <2>1. mailbox[c] \in Seq(Links \cup {Stop}) /\ mailbox[c] # <<>>
    BY <1>5, Zenon DEF WriteControl
  <2>2. Tail(mailbox[c]) \in Seq(Links \cup {Stop})
    BY <2>1
  <2>3. mailbox' \in [Conns -> Seq(Links \cup {Stop})]
    BY <1>5, <2>2, Zenon DEF WriteControl
  <2>4. link' \in [Conns -> LinkStates] /\ handler' \in [Conns -> HandlerStates]
    BY <1>5, Zenon DEF WriteControl
  <2> QED BY <1>5, <2>3, <2>4, Zenon DEF WriteControl
<1>6. ASSUME NEW c \in Conns, LoopEnds(c, kept) PROVE ControlTypeOK'
  BY <1>6, Zenon DEF LoopEnds
<1>7. ASSUME NEW c \in Conns, RemoveControl(c) PROVE ControlTypeOK'
  BY <1>7 DEF RemoveControl
<1>8. ASSUME NEW c \in Conns, Break(c) PROVE ControlTypeOK'
  BY <1>8 DEF Break
<1>9. ASSUME NEW c, NEW l \in Links, SendOpen(c, l) PROVE ControlTypeOK'
  <2>1. CASE c \in Conns
    <3>1. Append(mailbox[c], l) \in Seq(Links \cup {Stop})
      BY <2>1
    <3> QED BY <1>9, <3>1, Zenon DEF SendOpen
  <2>2. CASE c \notin Conns
    <3>1. mailbox' = mailbox
      BY <1>9, <2>2 DEF SendOpen
    <3> QED BY <1>9, <3>1, Zenon DEF SendOpen
  <2> QED BY <2>1, <2>2, Zenon
<1>10. CASE NpcExits
  BY <1>10, Zenon DEF NpcExits
<1>11. CASE Enable
  BY <1>11 DEF Enable
<1>12. CASE Disable
  <2>1. admin' \in [pc : AdminSteps, handle : Conns \cup {NoConn}]
    BY <1>12, Zenon DEF Disable
  <2>2. toggles' \in 0..MaxToggles
    BY <1>12 DEF Disable
  <2> QED BY <1>12, <2>1, <2>2, Zenon DEF Disable
<1>13. CASE TerminateControl
  BY <1>13 DEF TerminateControl
<1>14. CASE TerminateCounts
  BY <1>14, Zenon DEF TerminateCounts
<1>15. CASE TerminateStop
  <2>1. \A c \in Conns : Append(mailbox[c], Stop) \in Seq(Links \cup {Stop})
    OBVIOUS
  <2> QED BY <1>15, <2>1, Zenon DEF TerminateStop
<1>16. CASE UNCHANGED controlVars
  BY <1>16 DEF controlVars
<1>17. CASE RestartTunnels
  BY <1>17, Zenon DEF RestartTunnels
<1>18. CASE StopTunnels
  BY <1>18, Zenon DEF StopTunnels
<1> QED
  BY <1>1, <1>2, <1>3, <1>4, <1>5, <1>6, <1>7, <1>8, <1>9, <1>10, <1>11,
     <1>12, <1>13, <1>14, <1>15, <1>16, <1>17, <1>18, Zenon DEF AnyControlStep

-----------------------------------------------------------------------------
(* No dangling handle.                                                     *)

\* No step of the control plane leaves a handle whose thread is gone.
LEMMA NoDanglingStep ==
  ASSUME NEW kept, ControlTypeOK, NoDanglingHandle, AnyControlStep(kept)
  PROVE  NoDanglingHandle'
<1> USE ControlAssumption DEF ControlTypeOK, NoDanglingHandle
<1>1. ASSUME NEW c \in Conns, Connect(c, kept) PROVE NoDanglingHandle'
  BY <1>1, Zenon DEF Connect
<1>2. ASSUME NEW c \in Conns, NpcLeaves(c) PROVE NoDanglingHandle'
  BY <1>2, Zenon DEF NpcLeaves
<1>3. ASSUME NEW c \in Conns, Handshake(c) PROVE NoDanglingHandle'
  BY <1>3, Zenon DEF Handshake
<1>4. ASSUME NEW c \in Conns, Register(c) PROVE NoDanglingHandle'
  BY <1>4 DEF Register
<1>5. ASSUME NEW c \in Conns, WriteControl(c) PROVE NoDanglingHandle'
  BY <1>5, Zenon DEF WriteControl
<1>6. ASSUME NEW c \in Conns, LoopEnds(c, kept) PROVE NoDanglingHandle'
  BY <1>6, Zenon DEF LoopEnds
<1>7. ASSUME NEW c \in Conns, RemoveControl(c) PROVE NoDanglingHandle'
  BY <1>7 DEF RemoveControl
<1>8. ASSUME NEW c \in Conns, Break(c) PROVE NoDanglingHandle'
  BY <1>8, Zenon DEF Break
<1>9. ASSUME NEW c, NEW l \in Links, SendOpen(c, l) PROVE NoDanglingHandle'
  BY <1>9, Zenon DEF SendOpen
<1>10. CASE NpcExits \/ Enable \/ Disable \/ TerminateCounts \/ TerminateStop
              \/ RestartTunnels \/ StopTunnels
  BY <1>10, Zenon DEF NpcExits, Enable, Disable, TerminateCounts, TerminateStop,
                      RestartTunnels, StopTunnels
<1>11. CASE TerminateControl
  BY <1>11 DEF TerminateControl
<1>12. CASE UNCHANGED controlVars
  BY <1>12 DEF controlVars
<1> QED
  BY <1>1, <1>2, <1>3, <1>4, <1>5, <1>6, <1>7, <1>8, <1>9, <1>10, <1>11,
     <1>12, Zenon DEF AnyControlStep

-----------------------------------------------------------------------------
(* The requests.                                                           *)

\* What a step does to the control plane is a step of ControlRegistry, in
\* which the requests hold the handles in held.
LEMMA ControlPart == [Next]_vars => AnyControlStep(held)
<1> SUFFICES ASSUME [Next]_vars PROVE AnyControlStep(held)
  OBVIOUS
<1>1. CASE ControlStep
  BY <1>1, Zenon DEF ControlStep, AnyControlStep
<1>2. ASSUME NEW c \in Conns, WriteMessage(c) PROVE AnyControlStep(held)
  BY <1>2, Zenon DEF WriteMessage, AnyControlStep
<1>3. CASE ForgetCount
  BY <1>3, Zenon DEF ForgetCount, AnyControlStep
<1>4. CASE EditLimit
  BY <1>4, Zenon DEF EditLimit, AnyControlStep
<1>5. ASSUME NEW r \in Links, Dispatch(r) PROVE AnyControlStep(held)
  BY <1>5, Zenon DEF Dispatch, AnyControlStep
<1>6. ASSUME NEW r \in Links, RequestStep(r), ~Dispatch(r)
      PROVE  AnyControlStep(held)
  <2>1. UNCHANGED controlVars
    BY <1>6, Zenon DEF RequestStep, ValidateAccess, ReadLimit, Acquire,
       LookupControl, Offline, QueuePending, ReceiveStream, TimeOut,
       AbortSlot, AbortPending, WrapTransport, DropStream, AnswerArrives,
       HandOver
  <2> QED BY <2>1 DEF AnyControlStep
<1>7. CASE UNCHANGED vars
  BY <1>7 DEF vars, AnyControlStep
<1>8. CASE TunnelStep
  BY <1>8, Zenon DEF TunnelStep, AnyControlStep
<1> QED BY <1>1, <1>2, <1>3, <1>4, <1>5, <1>6, <1>7, <1>8, Zenon DEF Next

\* The counters and maps of the requests keep their types; the count of
\* slots stays a natural number because Released tests it for zero.
LEMMA TypeStep ==
  ASSUME TypeOK, [Next]_vars
  PROVE  TypeOK'
<1>0. ControlTypeOK'
  BY ControlPart, ControlTypeStep DEF TypeOK
<1> USE LinkAssumption DEF TypeOK, RequestStates, Goto, Released,
                           ReleaseIfReserved
<1>1. CASE ControlStep \/ UNCHANGED vars
  BY <1>0, <1>1, Zenon DEF ControlStep, vars, linkVars
<1>2. ASSUME NEW c \in Conns, WriteMessage(c) PROVE TypeOK'
  <2>1. opened' \subseteq Links
    <3>1. CASE handler[c] = "serving" /\ mailbox[c] # <<>>
      <4>1. mailbox[c] \in Seq(Links \cup {Stop})
        BY Zenon DEF ControlTypeOK
      <4>2. Head(mailbox[c]) \in Links \cup {Stop}
        BY <3>1, <4>1
      <4> QED BY <1>2, <4>2, Zenon DEF WriteMessage
    <3> QED BY <1>2, <3>1, Zenon DEF WriteMessage, WriteControl
  <2> QED BY <1>0, <1>2, <2>1, Zenon DEF WriteMessage
<1>3. CASE ForgetCount
  BY <1>0, <1>3, Zenon DEF ForgetCount
<1>4. CASE EditLimit
  BY <1>0, <1>4, SMTT(30) DEF EditLimit
<1>5. ASSUME NEW r \in Links, RequestStep(r) PROVE TypeOK'
  <2>1. CASE ValidateAccess(r)
    BY <1>0, <2>1, Zenon DEF ValidateAccess
  <2>2. CASE ReadLimit(r)
    <3>1. limit' \in [Links -> Nat] /\ pc' \in [Links -> RequestStates]
      BY <2>2, Zenon DEF ReadLimit
    <3>2. UNCHANGED <<max_conn, counts, pending, opened, reserved, ctl,
                      answers, taken, inbox, edits, cut>>
      BY <2>2, Zenon DEF ReadLimit
    <3> QED BY <1>0, <3>1, <3>2, Zenon
  <2>3. CASE Acquire(r)
    <3>1. counts' \in Nat /\ pc' \in [Links -> RequestStates]
      BY <2>3 DEF Acquire
    <3>2. reserved' \in [Links -> BOOLEAN]
      BY <2>3, Zenon DEF Acquire
    <3>3. UNCHANGED <<max_conn, pending, opened, limit, ctl, answers, taken,
                      inbox, edits, cut>>
      BY <2>3, Zenon DEF Acquire
    <3> QED BY <1>0, <3>1, <3>2, <3>3, Zenon
  <2>4. CASE LookupControl(r)
    BY <1>0, <2>4, Zenon DEF LookupControl, ControlTypeOK
  <2>5. CASE Offline(r)
    BY <1>0, <2>5 DEF Offline
  <2>6. CASE QueuePending(r)
    BY <1>0, <2>6, Zenon DEF QueuePending
  <2>7. CASE Dispatch(r)
    BY <1>0, <2>7, Zenon DEF Dispatch
  <2>8. CASE ReceiveStream(r) \/ TimeOut(r)
    BY <1>0, <2>8, Zenon DEF ReceiveStream, TimeOut
  <2>9. CASE AbortSlot(r)
    BY <1>0, <2>9 DEF AbortSlot
  <2>10. CASE AbortPending(r)
    BY <1>0, <2>10, Zenon DEF AbortPending
  <2>11. CASE WrapTransport(r)
    BY <1>0, <2>11, Zenon DEF WrapTransport
  <2>12. CASE DropStream(r)
    BY <1>0, <2>12 DEF DropStream
  <2>13. CASE AnswerArrives(r)
    BY <1>0, <2>13 DEF AnswerArrives
  <2>14. CASE HandOver(r)
    BY <1>0, <2>14 DEF HandOver
  <2> HIDE DEF TypeOK
  <2> QED
    BY <1>5, <2>1, <2>2, <2>3, <2>4, <2>5, <2>6, <2>7, <2>8, <2>9, <2>10,
       <2>11, <2>12, <2>13, <2>14, Zenon DEF RequestStep
<1>6. CASE TunnelStep
  <2>1. cut' \subseteq Links
    BY <1>6, Zenon DEF TunnelStep, CutVisitors
  <2> QED BY <1>0, <1>6, <2>1, Zenon DEF TunnelStep
<1> QED BY <1>1, <1>2, <1>3, <1>4, <1>5, <1>6, Zenon DEF Next

\* Every reachable state of the requests and of the control plane is well
\* typed.
THEOREM TypeCorrect == Spec => []TypeOK
<1>1. Init => TypeOK
  BY ControlTypeInit, LinkAssumption, ControlAssumption
  DEF Init, TypeOK, RequestStates
<1>2. TypeOK /\ [Next]_vars => TypeOK'
  BY TypeStep
<1> QED BY <1>1, <1>2, PTL DEF Spec

-----------------------------------------------------------------------------
(* The pending map.                                                        *)

BeforeQueue == {"start", "limit", "acquire", "lookup", "offline", "queue"}

(***************************************************************************)
(* The sender of a request is in one place: not made yet, in pending, in   *)
(* the hands of one thread, used or dropped.  While it is not made or in   *)
(* pending, no thread has it and no stream was sent.                       *)
(***************************************************************************)
PendingInv ==
  /\ NoPendingLeak
  /\ AtMostOneStream
  /\ \A r \in Links :
       r \in pending \/ pc[r] \in BeforeQueue => taken[r] = 0 /\ inbox[r] = 0

LEMMA OneOfTwo ==
  \A m, n \in Nat : m + n <= 1 /\ m > 0 => m = 1 /\ n = 0
  OBVIOUS

LEMMA OneAtMost ==
  ASSUME NEW m, NEW n, m = 0, n \in {0, 1}
  PROVE  m + n <= 1
  OBVIOUS

LEMMA LimitNumbers ==
  /\ ~(0 > 0) /\ \A l \in Nat : l # 0 => l > 0
  /\ \A n, l \in Nat : n < l => n + 1 <= l
  OBVIOUS

LEMMA PendingStep ==
  ASSUME TypeOK, PendingInv, [Next]_vars
  PROVE  PendingInv'
<1> USE DEF TypeOK, PendingInv, NoPendingLeak, AtMostOneStream, BeforeQueue,
            RequestStates, Goto
<1>1. CASE UNCHANGED <<pending, pc, taken, inbox>>
  BY <1>1, Zenon
<1>2. CASE ControlStep \/ UNCHANGED vars
  BY <1>1, <1>2, Zenon DEF ControlStep, vars, linkVars
<1>3. CASE (\E c \in Conns : WriteMessage(c)) \/ ForgetCount \/ EditLimit
             \/ TunnelStep
  BY <1>1, <1>3, Zenon DEF WriteMessage, ForgetCount, EditLimit, TunnelStep
<1>4. ASSUME NEW r \in Links, RequestStep(r) PROVE PendingInv'
  <2>1. CASE ValidateAccess(r)
    BY <2>1, Zenon DEF ValidateAccess
  <2>2. CASE ReadLimit(r)
    BY <2>2, Zenon DEF ReadLimit
  <2>3. CASE Acquire(r)
    BY <2>3, Zenon DEF Acquire
  <2>4. CASE LookupControl(r)
    BY <2>4, Zenon DEF LookupControl
  <2>5. CASE Offline(r)
    BY <2>5, Zenon DEF Offline
  <2>6. CASE QueuePending(r)
    BY <2>6, Zenon DEF QueuePending
  <2>7. CASE Dispatch(r)
    BY <2>7, Zenon DEF Dispatch
  <2>8. CASE ReceiveStream(r)
    BY <2>8 DEF ReceiveStream
  <2>9. CASE TimeOut(r)
    BY <2>9, Zenon DEF TimeOut
  <2>10. CASE AbortSlot(r)
    BY <2>10, Zenon DEF AbortSlot
  <2>11. CASE AbortPending(r)
    BY <2>11, Zenon DEF AbortPending
  <2>12. CASE WrapTransport(r)
    BY <2>12 DEF WrapTransport
  <2>13. CASE DropStream(r)
    BY <2>13, Zenon DEF DropStream
  <2>14. CASE AnswerArrives(r)
    <3>1. UNCHANGED <<pc, inbox>> /\ pending' = pending \ {r}
      BY <2>14, Zenon DEF AnswerArrives
    <3>2. \A q \in Links \ {r} : taken'[q] = taken[q]
      BY <2>14, Zenon DEF AnswerArrives
    <3>3. CASE r \in pending
      <4>1. taken[r] = 0 /\ inbox[r] = 0 /\ pc[r] \notin BeforeQueue
        BY <3>3, Zenon
      <4>2. taken'[r] = 1
        BY <2>14, <3>3, <4>1 DEF AnswerArrives
      <4> QED BY <3>1, <3>2, <4>1, <4>2
    <3>4. CASE r \notin pending
      <4>1. taken' = taken
        BY <2>14, <3>4, Zenon DEF AnswerArrives
      <4> QED BY <3>1, <4>1, Zenon
    <3> QED BY <3>3, <3>4, Zenon
  <2>15. CASE HandOver(r)
    <3>1. taken[r] = 1 /\ inbox[r] = 0
      <4>1. taken[r] \in Nat /\ inbox[r] \in Nat /\ taken[r] + inbox[r] <= 1
        BY Zenon
      <4>2. taken[r] > 0
        BY <2>15, Zenon DEF HandOver
      <4> QED BY <4>1, <4>2, OneOfTwo, Zenon
    <3>2. taken'[r] = 0 /\ inbox'[r] \in {0, 1}
      BY <2>15, <3>1 DEF HandOver
    <3>3. \A q \in Links \ {r} : taken'[q] = taken[q] /\ inbox'[q] = inbox[q]
      BY <2>15, Zenon DEF HandOver
    <3>4. r \notin pending /\ pc[r] \notin BeforeQueue
      BY <3>1
    <3>5. UNCHANGED <<pending, pc>>
      BY <2>15, Zenon DEF HandOver
    <3>6. AtMostOneStream'
      <4>1. taken'[r] + inbox'[r] <= 1
        BY <3>2, OneAtMost, Zenon
      <4> QED BY <3>3, <4>1, Zenon
    <3>7. NoPendingLeak'
      BY <3>5, Zenon
    <3> QED BY <3>3, <3>4, <3>5, <3>6, <3>7, Zenon
  <2> QED
    BY ZenonT(30), <1>4, <2>1, <2>2, <2>3, <2>4, <2>5, <2>6, <2>7, <2>8,
       <2>9, <2>10, <2>11, <2>12, <2>13, <2>14, <2>15 DEF RequestStep
<1> QED BY <1>2, <1>3, <1>4, Zenon DEF Next

LEMMA PendingInvariant == Spec => []PendingInv
<1>1. Init => PendingInv
  BY DEF Init, PendingInv, NoPendingLeak, AtMostOneStream
<1>2. TypeOK /\ PendingInv /\ [Next]_vars => PendingInv'
  BY PendingStep
<1> QED BY <1>1, <1>2, TypeCorrect, PTL DEF Spec

\* Whatever the order of answers, timeouts, failing sends and Web operations,
\* request_client_stream leaves no entry behind in pending.
THEOREM NoPendingLeakAlways == Spec => []NoPendingLeak
<1>1. PendingInv => NoPendingLeak
  BY Zenon DEF PendingInv
<1> QED BY <1>1, PendingInvariant, PTL

\* However often the client answers, at most one stream reaches a request.
THEOREM AtMostOneStreamAlways == Spec => []AtMostOneStream
<1>1. PendingInv => AtMostOneStream
  BY DEF PendingInv
<1> QED BY <1>1, PendingInvariant, PTL

\* The handle a request clones belongs to a thread that has not returned,
\* for any number of connections, requests, failures and Web operations, and
\* also while requests keep stale handles alive.
THEOREM RequestsFindLiveHandles == Spec => []NoDanglingHandle
<1>1. Init => NoDanglingHandle
  BY Zenon DEF Init, ControlInit, NoDanglingHandle
<1>2. TypeOK /\ NoDanglingHandle /\ [Next]_vars => NoDanglingHandle'
  BY ControlPart, NoDanglingStep, Zenon DEF TypeOK
<1> QED BY <1>1, <1>2, TypeCorrect, PTL DEF Spec

-----------------------------------------------------------------------------
(* The connection slots, as long as no operator changes the client.        *)

\* The limit acquire_client_connection_slot works with; 0 means no limit.
EffectiveLimit == IF AllowLimit THEN max_conn ELSE 0

\* The requests between acquire_client_connection_slot and their release,
\* which never comes for a request whose transport could not be set up.
Holding == {"lookup", "offline", "queue", "send", "waiting", "wrap", "abort",
            "live", "leaked"}
Charged == {r \in Links : pc[r] \in Holding /\ EffectiveLimit > 0}

\* A request has read the current limit, and its local variable reserved says
\* whether it has a slot to give back.
RequestInv(r) ==
  /\ pc[r] = "acquire" => EffectiveLimit > 0
  /\ pc[r] \in Holding \cup {"acquire"} => limit[r] = EffectiveLimit
  /\ reserved[r] <=> (pc[r] \in Holding \ {"leaked"} /\ EffectiveLimit > 0)

(***************************************************************************)
(* SlotLimit is not inductive: the count must be tied to the control       *)
(* states of the requests, and the limit a request has read to the current *)
(* one.  That all requests reserve a slot or none does is what makes the   *)
(* unconditional release in ConnectionSlotGuard::drop harmless here; an    *)
(* edit of max_conn from 0 breaks it.                                      *)
(***************************************************************************)
SlotInv ==
  /\ admin.pc = "idle"
  /\ IsFiniteSet(Charged)
  /\ counts = Cardinality(Charged)
  /\ counts <= EffectiveLimit
  /\ \A r \in Links : RequestInv(r)

\* A step that is not an operator's leaves the Web thread idle.
LEMMA NoAdmin ==
  ASSUME toggles' = 0, NEW h, ControlTypeOK, admin.pc = "idle",
         AnyControlStep(h)
  PROVE  admin'.pc = "idle" /\ ~TerminateCounts
<1>1. toggles \in Nat
  BY ControlAssumption DEF ControlTypeOK
<1>2. ~Disable /\ ~Enable
  BY <1>1 DEF Disable, Enable
<1>3. ~TerminateControl /\ ~TerminateCounts /\ ~TerminateStop /\ ~StopTunnels
  BY Zenon DEF TerminateControl, TerminateCounts, TerminateStop, StopTunnels
<1>4. admin' = admin
  BY <1>2, <1>3, Zenon
  DEF AnyControlStep, Connect, NpcLeaves, Handshake, Register,
      WriteControl, LoopEnds, RemoveControl, Break, SendOpen, NpcExits,
      RestartTunnels, controlVars
<1> QED BY <1>3, <1>4

\* A step that changes neither the count nor the limit keeps the accounting
\* if it leaves every request in a state of the same kind.
LEMMA SlotFrame ==
  ASSUME TypeOK, SlotInv, admin'.pc = "idle",
         UNCHANGED <<max_conn, counts, limit, reserved>>,
         \A q \in Links : pc'[q] \in Holding <=> pc[q] \in Holding,
         \A q \in Links : pc'[q] = "leaked" <=> pc[q] = "leaked",
         \A q \in Links : pc'[q] = "acquire" => pc[q] = "acquire"
  PROVE  SlotInv'
<1>1. EffectiveLimit' = EffectiveLimit
  BY Zenon DEF EffectiveLimit
<1>2. Charged' = Charged
  BY <1>1, Zenon DEF Charged
<1>3. \A q \in Links : RequestInv(q)'
  BY <1>1, Zenon DEF SlotInv, RequestInv
<1> QED BY <1>1, <1>2, <1>3, Zenon DEF SlotInv

\* The same for a step that moves one request.
LEMMA SlotMove ==
  ASSUME TypeOK, SlotInv, admin'.pc = "idle",
         UNCHANGED <<max_conn, counts, limit, reserved>>,
         NEW r \in Links, NEW s, Goto(r, s), s # "acquire",
         s # "leaked", pc[r] # "leaked",
         pc[r] \in Holding <=> s \in Holding
  PROVE  SlotInv'
<1>1. pc'[r] = s /\ \A q \in Links \ {r} : pc'[q] = pc[q]
  BY Zenon DEF Goto, TypeOK
<1>2. \A q \in Links : pc'[q] \in Holding <=> pc[q] \in Holding
  BY <1>1, Zenon
<1>3. \A q \in Links : pc'[q] = "acquire" => pc[q] = "acquire"
  BY <1>1, Zenon
<1>4. \A q \in Links : pc'[q] = "leaked" <=> pc[q] = "leaked"
  BY <1>1, Zenon
<1> QED BY <1>2, <1>3, <1>4, SlotFrame, Zenon

\* Giving back the slot of r, from a state that holds one to one that does
\* not: the release in the error paths and the one in drop come to the same.
LEMMA SlotRelease ==
  ASSUME TypeOK, SlotInv, admin'.pc = "idle", UNCHANGED <<max_conn, limit>>,
         NEW r \in Links, pc[r] \in Holding \ {"leaked"},
         NEW s \in {"failed", "cleanup", "closed"}, Goto(r, s),
         reserved' = [reserved EXCEPT ![r] = FALSE],
         counts' = IF reserved[r] THEN Released(counts) ELSE counts
  PROVE  SlotInv'
<1>1. EffectiveLimit' = EffectiveLimit
  BY Zenon DEF EffectiveLimit
<1>2. \A q \in Links \ {r} : pc'[q] = pc[q] /\ reserved'[q] = reserved[q]
  BY Zenon DEF Goto, TypeOK
<1>3. pc'[r] = s /\ reserved'[r] = FALSE
  BY Zenon DEF Goto, TypeOK
<1>4. s \notin Holding /\ s # "acquire"
  BY Zenon DEF Holding
<1>5. Charged' = Charged \ {r}
  BY <1>1, <1>2, <1>3, <1>4, Zenon DEF Charged
<1>6. \A q \in Links : RequestInv(q)'
  <2>1. \A q \in Links \ {r} : RequestInv(q)'
    BY <1>1, <1>2, Zenon DEF SlotInv, RequestInv
  <2>2. RequestInv(r)'
    BY <1>3, <1>4, Zenon DEF RequestInv
  <2> QED BY <2>1, <2>2, Zenon
<1>7. /\ IsFiniteSet(Charged')
      /\ Cardinality(Charged') =
           IF r \in Charged THEN Cardinality(Charged) - 1 ELSE Cardinality(Charged)
  BY <1>5, FS_RemoveElement, Zenon DEF SlotInv
<1>8. counts' = Cardinality(Charged') /\ counts' <= counts
  <2>1. counts = Cardinality(Charged) /\ counts \in Nat
    BY Zenon DEF SlotInv, TypeOK
  <2>2. reserved[r] <=> r \in Charged
    BY Zenon DEF SlotInv, RequestInv, Charged
  <2>3. CASE reserved[r]
    <3>1. Cardinality(Charged) # 0
      BY <2>2, <2>3, FS_EmptySet, Zenon DEF SlotInv
    <3> QED BY <1>7, <2>1, <2>2, <2>3, <3>1 DEF Released
  <2>4. CASE ~reserved[r]
    BY <1>7, <2>1, <2>2, <2>4
  <2> QED BY <2>3, <2>4, Zenon
<1>9. counts' <= EffectiveLimit'
  <2>1. counts \in Nat /\ EffectiveLimit \in Nat /\ counts' \in Nat
    BY LinkAssumption DEF TypeOK, EffectiveLimit, Released
  <2> QED BY <1>1, <1>8, <2>1 DEF SlotInv
<1> QED BY <1>6, <1>7, <1>8, <1>9, Zenon DEF SlotInv

LEMMA SlotStep ==
  ASSUME Undisturbed', TypeOK, SlotInv, [Next]_vars
  PROVE  SlotInv'
<1>0. admin'.pc = "idle" /\ ~TerminateCounts
  BY ControlPart, NoAdmin, Zenon DEF TypeOK, SlotInv, Undisturbed
<1>1. CASE UNCHANGED <<max_conn, counts, pc, limit, reserved>>
  BY <1>0, <1>1, SlotFrame
<1>2. CASE ControlStep \/ UNCHANGED vars
  BY <1>1, <1>2, SMTT(30) DEF ControlStep, vars, linkVars
<1>3. CASE \E c \in Conns : WriteMessage(c)
  BY <1>1, <1>3, Zenon DEF WriteMessage
<1>4. CASE ForgetCount
  BY <1>0, <1>4, Zenon DEF ForgetCount
<1>5. CASE EditLimit
  BY <1>5 DEF EditLimit, TypeOK, Undisturbed
<1>7. CASE TunnelStep
  BY <1>1, <1>7, Zenon DEF TunnelStep
<1>6. ASSUME NEW r \in Links, RequestStep(r) PROVE SlotInv'
  <2>1. ASSUME NEW s, Goto(r, s)
        PROVE  pc'[r] = s /\ \A q \in Links \ {r} : pc'[q] = pc[q]
    BY <2>1, Zenon DEF Goto, TypeOK
  <2>2. CASE ValidateAccess(r)
    <3>1. /\ Goto(r, "limit") \/ Goto(r, "failed")
          /\ pc[r] = "start"
          /\ UNCHANGED <<max_conn, counts, limit, reserved>>
      BY <2>2, Zenon DEF ValidateAccess
    <3>2. /\ "start" \notin Holding
          /\ "limit" \notin Holding /\ "failed" \notin Holding
      BY Zenon DEF Holding
    <3>3. CASE Goto(r, "limit")
      BY <1>0, <3>1, <3>2, <3>3, SlotMove, Zenon
    <3>4. CASE Goto(r, "failed")
      BY <1>0, <3>1, <3>2, <3>4, SlotMove, SMTT(30)
    <3> QED BY <3>1, <3>3, <3>4, Zenon
  <2>3. CASE ReadLimit(r)
    <3>1. UNCHANGED <<max_conn, counts, reserved>> /\ pc[r] = "limit"
      BY <2>3, Zenon DEF ReadLimit
    <3>2. EffectiveLimit' = EffectiveLimit /\ EffectiveLimit \in Nat
      BY <3>1, Zenon DEF EffectiveLimit, TypeOK
    <3>3. /\ limit'[r] = EffectiveLimit
          /\ pc'[r] = IF EffectiveLimit = 0 THEN "lookup" ELSE "acquire"
          /\ \A q \in Links \ {r} : limit'[q] = limit[q] /\ pc'[q] = pc[q]
      BY <2>3, SMTT(30) DEF ReadLimit, EffectiveLimit, Goto, TypeOK
    <3>4. ~reserved[r]
      BY <3>1, Zenon DEF SlotInv, RequestInv, Holding
    <3>5. /\ pc'[r] = "acquire" => limit'[r] = EffectiveLimit /\ EffectiveLimit > 0
          /\ ~(pc'[r] \in Holding /\ EffectiveLimit > 0)
      <4>1. CASE EffectiveLimit = 0
        <5>1. pc'[r] = "lookup" /\ ~(EffectiveLimit > 0)
          BY <3>3, <4>1, LimitNumbers, Zenon
        <5> QED BY <5>1, Zenon
      <4>2. CASE EffectiveLimit # 0
        <5>1. pc'[r] = "acquire" /\ limit'[r] = EffectiveLimit /\ EffectiveLimit > 0
          BY <3>2, <3>3, <4>2, LimitNumbers, Zenon
        <5> QED BY <5>1, Zenon DEF Holding
      <4> QED BY <4>1, <4>2, Zenon
    <3>6. \A q \in Links : RequestInv(q)'
      <4>1. \A q \in Links \ {r} : RequestInv(q)'
        BY <3>1, <3>2, <3>3, Zenon DEF SlotInv, RequestInv
      <4>2. RequestInv(r)'
        BY <3>1, <3>2, <3>3, <3>4, <3>5, Zenon DEF RequestInv
      <4> QED BY <4>1, <4>2, Zenon
    <3>7. Charged' = Charged
      <4>1. r \notin Charged
        BY <3>1, Zenon DEF Charged, Holding
      <4> QED BY <3>2, <3>3, <3>5, <4>1, Zenon DEF Charged
    <3> QED BY <1>0, <3>1, <3>2, <3>6, <3>7, Zenon DEF SlotInv
  <2>4. CASE Acquire(r)
    <3>1. CASE counts >= limit[r]
      <4>1. /\ Goto(r, "failed")
            /\ UNCHANGED <<max_conn, counts, limit, reserved>>
            /\ pc[r] = "acquire"
        BY <2>4, <3>1 DEF Acquire, TypeOK
      <4>2. "acquire" \notin Holding /\ "failed" \notin Holding
        BY SMTT(30) DEF Holding
      <4> QED BY <1>0, <4>1, <4>2, SlotMove, Zenon
    <3>2. CASE counts < limit[r]
      <4>1. /\ pc[r] = "acquire" /\ Goto(r, "lookup")
            /\ counts' = counts + 1
            /\ reserved' = [reserved EXCEPT ![r] = TRUE]
            /\ UNCHANGED <<max_conn, limit>>
        BY <2>4, <3>2 DEF Acquire, TypeOK
      <4>2. EffectiveLimit' = EffectiveLimit
        BY <4>1, Zenon DEF EffectiveLimit
      <4>3. limit[r] = EffectiveLimit /\ EffectiveLimit > 0
        BY <4>1, Zenon DEF SlotInv, RequestInv
      <4>8. /\ reserved'[r] = TRUE /\ pc'[r] = "lookup"
            /\ \A q \in Links \ {r} : reserved'[q] = reserved[q] /\ pc'[q] = pc[q]
        BY <2>1, <4>1, Zenon DEF TypeOK
      <4>4. Charged' = Charged \cup {r} /\ r \notin Charged
        BY <4>1, <4>2, <4>3, <4>8, Zenon DEF Charged, Holding
      <4>5. IsFiniteSet(Charged') /\ Cardinality(Charged') = Cardinality(Charged) + 1
        BY <4>4, FS_AddElement, Zenon DEF SlotInv
      <4>6. counts' = Cardinality(Charged')
        BY <4>1, <4>5, Zenon DEF SlotInv
      <4>7. counts' <= EffectiveLimit'
        <5>1. counts \in Nat /\ limit[r] \in Nat
          BY Zenon DEF TypeOK
        <5>2. counts + 1 <= limit[r]
          BY <3>2, <5>1, LimitNumbers, Zenon
        <5> QED BY <4>1, <4>2, <4>3, <5>2, Zenon
      <4>9. \A q \in Links : RequestInv(q)'
        <5>1. \A q \in Links \ {r} : RequestInv(q)'
          BY <4>1, <4>2, <4>8, Zenon DEF SlotInv, RequestInv
        <5>2. RequestInv(r)'
          BY <4>1, <4>2, <4>3, <4>8, Zenon DEF RequestInv, Holding
        <5> QED BY <5>1, <5>2, Zenon
      <4> QED BY <1>0, <4>5, <4>6, <4>7, <4>9, Zenon DEF SlotInv
    <3> QED BY <2>4, <3>1, <3>2, Zenon DEF Acquire
  <2>5. CASE LookupControl(r)
    <3>1. /\ Goto(r, "offline") \/ Goto(r, "queue")
          /\ pc[r] = "lookup"
          /\ UNCHANGED <<max_conn, counts, limit, reserved>>
      BY <2>5, Zenon DEF LookupControl
    <3>2. "lookup" \in Holding /\ "offline" \in Holding /\ "queue" \in Holding
      BY DEF Holding
    <3>3. CASE Goto(r, "offline")
      BY <1>0, <3>1, <3>2, <3>3, SlotMove, Zenon
    <3>4. CASE Goto(r, "queue")
      BY <1>0, <3>1, <3>2, <3>4, SlotMove, Zenon
    <3> QED BY <3>1, <3>3, <3>4, Zenon
  <2>6. CASE Offline(r)
    BY <1>0, <2>6, SlotRelease, Zenon DEF Offline, ReleaseIfReserved, Holding
  <2>7. CASE QueuePending(r)
    <3>1. /\ Goto(r, "send")
          /\ pc[r] = "queue"
          /\ UNCHANGED <<max_conn, counts, limit, reserved>>
      BY <2>7 DEF QueuePending
    <3>2. "queue" \in Holding /\ "send" \in Holding
      BY DEF Holding
    <3> QED BY <1>0, <3>1, <3>2, SlotMove, Zenon
  <2>8. CASE Dispatch(r)
    <3>1. /\ Goto(r, "waiting") \/ Goto(r, "abort")
          /\ pc[r] = "send"
          /\ UNCHANGED <<max_conn, counts, limit, reserved>>
      BY <2>8, Zenon DEF Dispatch
    <3>2. "send" \in Holding /\ "waiting" \in Holding /\ "abort" \in Holding
      BY DEF Holding
    <3>3. CASE Goto(r, "waiting")
      BY <1>0, <3>1, <3>2, <3>3, SlotMove, Zenon
    <3>4. CASE Goto(r, "abort")
      BY <1>0, <3>1, <3>2, <3>4, SlotMove, Zenon
    <3> QED BY <3>1, <3>3, <3>4, Zenon
  <2>9. CASE ReceiveStream(r)
    <3>1. /\ Goto(r, "wrap")
          /\ pc[r] = "waiting"
          /\ UNCHANGED <<max_conn, counts, limit, reserved>>
      BY <2>9, Zenon DEF ReceiveStream
    <3>2. "waiting" \in Holding /\ "wrap" \in Holding
      BY DEF Holding
    <3> QED BY <1>0, <3>1, <3>2, SlotMove, SMTT(30)
  <2>10. CASE TimeOut(r)
    <3>1. /\ Goto(r, "abort")
          /\ pc[r] = "waiting"
          /\ UNCHANGED <<max_conn, counts, limit, reserved>>
      BY <2>10, Zenon DEF TimeOut
    <3>2. "waiting" \in Holding /\ "abort" \in Holding
      BY DEF Holding
    <3> QED BY <1>0, <3>1, <3>2, SlotMove, Zenon
  <2>11. CASE AbortSlot(r)
    BY <1>0, <2>11, SlotRelease, Zenon DEF AbortSlot, ReleaseIfReserved, Holding
  <2>12. CASE AbortPending(r)
    <3>1. /\ Goto(r, "failed")
          /\ pc[r] = "cleanup"
          /\ UNCHANGED <<max_conn, counts, limit, reserved>>
      BY <2>12, Zenon DEF AbortPending
    <3>2. "cleanup" \notin Holding /\ "failed" \notin Holding
      BY DEF Holding
    <3> QED BY <1>0, <3>1, <3>2, SlotMove, Zenon
  <2>13. CASE WrapTransport(r)
    <3>1. pc[r] = "wrap" /\ UNCHANGED <<max_conn, counts, limit>>
      BY <2>13, Zenon DEF WrapTransport
    <3>2. "wrap" \in Holding /\ "live" \in Holding /\ "leaked" \in Holding
      BY Zenon DEF Holding
    <3>3. CASE Goto(r, "live") /\ UNCHANGED reserved
      BY <1>0, <3>1, <3>2, <3>3, SlotMove, Zenon
    <3>4. CASE Goto(r, "leaked") /\ reserved' = [reserved EXCEPT ![r] = FALSE]
      <4>1. /\ pc'[r] = "leaked" /\ reserved'[r] = FALSE
            /\ \A q \in Links \ {r} : reserved'[q] = reserved[q] /\ pc'[q] = pc[q]
        BY <2>1, <3>4, Zenon DEF TypeOK
      <4>2. EffectiveLimit' = EffectiveLimit
        BY <3>1, Zenon DEF EffectiveLimit
      <4>3. Charged' = Charged
        BY <3>1, <3>2, <4>1, <4>2, Zenon DEF Charged
      <4>4. \A q \in Links : RequestInv(q)'
        <5>1. \A q \in Links \ {r} : RequestInv(q)'
          BY <3>1, <4>1, <4>2, Zenon DEF SlotInv, RequestInv
        <5>2. RequestInv(r)'
          BY <3>1, <3>2, <4>1, <4>2, Zenon DEF SlotInv, RequestInv
        <5> QED BY <5>1, <5>2, Zenon
      <4> QED BY <1>0, <3>1, <4>2, <4>3, <4>4, Zenon DEF SlotInv
    <3> QED BY <2>13, <3>3, <3>4, Zenon DEF WrapTransport
  <2>14. CASE DropStream(r)
    <3>1. /\ pc[r] = "live" /\ Goto(r, "closed") /\ counts' = Released(counts)
          /\ reserved' = [reserved EXCEPT ![r] = FALSE]
          /\ UNCHANGED <<max_conn, limit>>
      BY <2>14, Zenon DEF DropStream
    <3>2. pc[r] \in Holding \ {"leaked"}
      BY <3>1, Zenon DEF Holding
    <3>3. CASE reserved[r]
      BY <1>0, <3>1, <3>2, <3>3, SlotRelease, Zenon
    <3>4. CASE ~reserved[r]
      <4>1. ~(EffectiveLimit > 0) /\ EffectiveLimit \in Nat /\ counts \in Nat
        BY <3>2, <3>4, Zenon DEF SlotInv, RequestInv, EffectiveLimit, TypeOK
      <4>2. counts = 0
        BY <4>1 DEF SlotInv
      <4>3. counts' = counts
        BY <3>1, <4>2 DEF Released
      <4> QED BY <1>0, <3>1, <3>2, <3>4, <4>3, SlotRelease, Zenon
    <3> QED BY <3>3, <3>4
  <2>15. CASE AnswerArrives(r) \/ HandOver(r)
    BY <1>1, <2>15, Zenon DEF AnswerArrives, HandOver
  <2> QED
    BY SMTT(30), <1>6, <2>2, <2>3, <2>4, <2>5, <2>6, <2>7, <2>8, <2>9, <2>10, <2>11,
       <2>12, <2>13, <2>14, <2>15 DEF RequestStep
<1> QED BY <1>2, <1>3, <1>4, <1>5, <1>6, <1>7, Zenon DEF Next

\* An operator's step is never undone.
LEMMA StaysDisturbed ==
  ASSUME TypeOK, [Next]_vars, Undisturbed'
  PROVE  Undisturbed
<1>1. toggles \in Nat /\ edits \in Nat
  BY ControlAssumption DEF TypeOK, ControlTypeOK
<1>2. toggles = 0
  <2>1. toggles' = toggles \/ toggles' = toggles + 1
    BY ControlPart, Zenon
    DEF AnyControlStep, Connect, NpcLeaves, Handshake, Register, WriteControl,
        LoopEnds, RemoveControl, Break, SendOpen, NpcExits, Enable, Disable,
        RestartTunnels, StopTunnels, TerminateControl, TerminateCounts,
        TerminateStop, controlVars
  <2> QED BY <1>1, <2>1 DEF Undisturbed
<1>3. edits = 0
  <2>1. edits' = edits \/ edits' = edits + 1
    BY Zenon
    DEF Next, vars, linkVars, ControlStep, WriteMessage, ForgetCount,
        TunnelStep, EditLimit, RequestStep, ValidateAccess, ReadLimit, Acquire,
        LookupControl, Offline, QueuePending, Dispatch, ReceiveStream, TimeOut,
        AbortSlot, AbortPending, WrapTransport, DropStream, AnswerArrives,
        HandOver
  <2> QED BY <1>1, <2>1 DEF Undisturbed
<1> QED BY <1>2, <1>3 DEF Undisturbed

LEMMA SlotInvariant == Spec => [](Undisturbed => SlotInv)
<1>1. Init => SlotInv
  <2> SUFFICES ASSUME Init PROVE SlotInv
    OBVIOUS
  <2>1. Charged = {} /\ \A r \in Links : pc[r] = "start" /\ reserved[r] = FALSE
    BY Zenon DEF Init, Charged, Holding
  <2>2. IsFiniteSet(Charged) /\ Cardinality(Charged) = 0
    BY <2>1, FS_EmptySet
  <2>3. EffectiveLimit \in Nat
    BY LinkAssumption, Zenon DEF Init, EffectiveLimit
  <2>4. \A r \in Links : RequestInv(r)
    BY <2>1, Zenon DEF RequestInv, Holding
  <2>5. admin.pc = "idle" /\ counts = 0
    BY DEF Init, ControlInit
  <2> QED BY <2>2, <2>3, <2>4, <2>5 DEF SlotInv
<1>2. TypeOK /\ (Undisturbed => SlotInv) /\ [Next]_vars
        => (Undisturbed => SlotInv)'
  BY SlotStep, StaysDisturbed
<1> QED BY <1>1, <1>2, TypeCorrect, PTL DEF Spec

\* The charged requests are those in use and those that lost their slot.
LEMMA ChargedParts ==
  ASSUME TypeOK, SlotInv
  PROVE  /\ InUse \cup Lost = Charged /\ InUse \cap Lost = {}
         /\ IsFiniteSet(InUse) /\ IsFiniteSet(Lost)
<1>1. \A r \in Links : pc[r] \in Holding => limit[r] = EffectiveLimit
  BY Zenon DEF SlotInv, RequestInv
<1>2. InUse \cup Lost = Charged /\ InUse \cap Lost = {}
  BY <1>1, Zenon DEF InUse, Lost, Charged, Holding
<1>3. InUse \in SUBSET Charged /\ Lost \in SUBSET Charged
  BY <1>2, Zenon
<1> QED BY <1>2, <1>3, FS_Subset, Zenon DEF SlotInv

\* As long as no operator disables or edits the client, active_conn_counts is the
\* number of requests in use plus the number of those that lost their slot in
\* wrap_server_transport, for any number of requests and any max_conn: the
\* count is a function of where the requests are, so that no other path
\* loses a slot or gives one back twice.
THEOREM SlotAccountingAlways == Spec => []SlotAccounting
<1>1. TypeOK /\ (Undisturbed => SlotInv) => SlotAccounting
  <2> SUFFICES ASSUME TypeOK, SlotInv
               PROVE  counts = Cardinality(InUse) + Cardinality(Lost)
    BY Zenon DEF SlotAccounting
  <2>1. Cardinality(InUse \cup Lost) =
          Cardinality(InUse) + Cardinality(Lost) - Cardinality(InUse \cap Lost)
    BY ChargedParts, FS_Union, Zenon
  <2>2. Cardinality(InUse \cap Lost) = 0
    BY ChargedParts, FS_EmptySet, Zenon
  <2>3. Cardinality(InUse) \in Nat /\ Cardinality(Lost) \in Nat
    BY ChargedParts, FS_CardinalityType, Zenon
  <2>4. counts = Cardinality(InUse \cup Lost)
    BY ChargedParts, Zenon DEF SlotInv
  <2> QED BY <2>1, <2>2, <2>3, <2>4
<1> QED BY <1>1, SlotInvariant, TypeCorrect, PTL

\* As long as no operator intervenes, the number of open streams never exceeds
\* max_conn, however many requests race through
\* acquire_client_connection_slot.
THEOREM SlotLimitAlways == Spec => []SlotLimit
<1>1. TypeOK /\ (Undisturbed => SlotInv) => SlotLimit
  <2> SUFFICES ASSUME TypeOK, SlotInv, AllowLimit, max_conn > 0
               PROVE  Cardinality(Live) <= max_conn
    BY Zenon DEF SlotLimit
  <2>1. EffectiveLimit = max_conn
    BY DEF EffectiveLimit
  <2>2. Live \in SUBSET Charged
    BY <2>1, Zenon DEF Live, Charged, Holding
  <2>3. IsFiniteSet(Live) /\ Cardinality(Live) <= Cardinality(Charged)
    BY <2>2, FS_Subset, Zenon DEF SlotInv
  <2>4. Cardinality(Live) \in Nat
    BY <2>3, FS_CardinalityType
  <2>5. /\ Cardinality(Charged) = counts /\ counts <= max_conn
        /\ counts \in Nat /\ max_conn \in Nat
    BY <2>1, Zenon DEF SlotInv, TypeOK
  <2> QED BY <2>3, <2>4, <2>5
<1> QED BY <1>1, SlotInvariant, TypeCorrect, PTL

=============================================================================
