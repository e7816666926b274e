---------------------------- MODULE LinkRequest ----------------------------
(***************************************************************************)
(* How the server obtains a data stream from a client: the threads in      *)
(* request_client_stream, the connection slots they reserve                *)
(* (active_conn_counts), the pending map through which a Data connection   *)
(* or a mux stream finds the thread that waits for it, and the guard that  *)
(* gives the slot back when the stream is dropped.  The control plane is   *)
(* that of ControlRegistry, with which the requests share the handle, its  *)
(* channel and terminate_client_connection.                                *)
(*                                                                         *)
(* A request is an element of Links: one call of request_client_stream,    *)
(* with the fresh link id it draws, and the life of the stream it returns. *)
(* Which stream answers (a Data connection or a mux stream) makes no       *)
(* difference here; both take the sender out of pending and send once.     *)
(***************************************************************************)
EXTENDS ControlRegistry

CONSTANTS
  AllowLimit,  \* server.allow_connection_num_limit
  NoPeer,      \* requests whose peer address could not be read
  Crypt,       \* requests for an encrypted stream (crypt)
  Compress,    \* requests for a compressed stream (compress)
  Hosted,      \* requests for a host or a secret, which no tunnel keeps
  Limits,      \* values of max_conn an operator may set (0: no limit)
  MaxEdits,    \* bound: how often max_conn is edited
  MaxAnswers   \* bound: answers the client gives to one Open

ASSUME LinkAssumption ==
  /\ AllowLimit \in BOOLEAN
  /\ NoPeer \subseteq Links /\ Crypt \subseteq Links
  /\ Compress \subseteq Links /\ Hosted \subseteq Links
  /\ Limits \subseteq Nat /\ Limits # {}
  /\ MaxEdits \in Nat /\ MaxAnswers \in Nat

VARIABLES
  max_conn,  \* clients[vkey].common.client.max_conn
  counts,    \* active_conn_counts[vkey], 0 when there is no entry
  pending,   \* link ids with a sender in Registry.pending
  opened,    \* Open messages that reached the client
  pc,        \* control state of each request
  limit,     \* max_conn as read by acquire_client_connection_slot
  reserved,  \* the request owns a slot it has to give back
  ctl,       \* the clone of the handle
  answers,   \* answers the client has sent for the link
  taken,     \* threads that have taken the sender out of pending
  inbox,     \* streams ever sent to the waiting thread
  edits,     \* edits of max_conn so far
  cut        \* requests whose visitor the server has shut down

linkVars == <<max_conn, counts, pending, opened, pc, limit, reserved, ctl,
              answers, taken, inbox, edits, cut>>
vars == <<controlVars, linkVars>>

RequestStates == {"start", "limit", "acquire", "lookup", "offline", "queue",
                  "send", "waiting", "wrap", "abort", "cleanup",
                  "live", "closed", "failed", "leaked"}

\* The states in which request_client_stream holds its clone of the handle.
HoldsHandle(r) ==
  pc[r] \in {"queue", "send", "waiting", "wrap", "abort", "cleanup"}
held == {ctl[r] : r \in {q \in Links : HoldsHandle(q)}}

TypeOK ==
  /\ ControlTypeOK
  /\ max_conn \in Nat
  /\ counts \in Nat
  /\ pending \subseteq Links
  /\ opened \subseteq Links
  /\ pc \in [Links -> RequestStates]
  /\ limit \in [Links -> Nat]
  /\ reserved \in [Links -> BOOLEAN]
  /\ ctl \in [Links -> Conns \cup {NoConn}]
  /\ answers \in [Links -> Nat]
  /\ taken \in [Links -> Nat]
  /\ inbox \in [Links -> Nat]
  /\ edits \in Nat
  /\ cut \subseteq Links

Init ==
  /\ ControlInit
  /\ max_conn \in Limits
  /\ counts = 0
  /\ pending = {}
  /\ opened = {}
  /\ pc = [r \in Links |-> "start"]
  /\ limit = [r \in Links |-> 0]
  /\ reserved = [r \in Links |-> FALSE]
  /\ ctl = [r \in Links |-> NoConn]
  /\ answers = [r \in Links |-> 0]
  /\ taken = [r \in Links |-> 0]
  /\ inbox = [r \in Links |-> 0]
  /\ edits = 0
  /\ cut = {}

-----------------------------------------------------------------------------
(* Slots.                                                                  *)

\* Mutant of Released: the count is lowered without looking at it.
ReleasedUnchecked(n) == n - 1

\* release_client_connection_slot on the counter n.
Released(n) == IF n = 0 THEN 0 ELSE n - 1

\* Mutant of ReleaseIfReserved: the error paths keep the count.
ReturnKeepingSlot(r) ==
  /\ reserved' = [reserved EXCEPT ![r] = FALSE]
  /\ UNCHANGED counts

\* The error paths release only a slot that was reserved.
ReleaseIfReserved(r) ==
  /\ counts' = IF reserved[r] THEN Released(counts) ELSE counts
  /\ reserved' = [reserved EXCEPT ![r] = FALSE]

Goto(r, s) == pc' = [pc EXCEPT ![r] = s]

-----------------------------------------------------------------------------
(* The thread in request_client_stream, one action per critical section.   *)

\* validate_client_access: a disabled or missing client is refused, and so
\* is an address that a list, the ip limit or the flow limit excludes.  A
\* request whose peer address is unknown is let through unchecked.
AccessAllowed(r) == status \/ r \in NoPeer
AccessDenied(r) == r \notin NoPeer

ValidateAccess(r) ==
  /\ pc[r] = "start"
  /\ \/ AccessAllowed(r) /\ Goto(r, "limit")
     \/ AccessDenied(r) /\ Goto(r, "failed")
  /\ UNCHANGED <<controlVars, max_conn, counts, pending, opened, limit,
                 reserved, ctl, answers, taken, inbox, edits, cut>>

\* acquire_client_connection_slot: the limit is read under the clients lock.
ReadLimit(r) ==
  /\ pc[r] = "limit"
  /\ LET n == IF AllowLimit THEN max_conn ELSE 0 IN
       /\ limit' = [limit EXCEPT ![r] = n]
       /\ Goto(r, IF n = 0 THEN "lookup" ELSE "acquire")
  /\ UNCHANGED <<controlVars, max_conn, counts, pending, opened, reserved,
                 ctl, answers, taken, inbox, edits, cut>>

\* Mutant of Acquire: "current > max_conn" for "current >= max_conn".
AcquireOneMore(r) ==
  /\ pc[r] = "acquire"
  /\ \/ /\ counts > limit[r]
        /\ Goto(r, "failed")
        /\ UNCHANGED <<counts, reserved>>
     \/ /\ counts <= limit[r]
        /\ counts' = counts + 1
        /\ reserved' = [reserved EXCEPT ![r] = TRUE]
        /\ Goto(r, "lookup")
  /\ UNCHANGED <<controlVars, max_conn, pending, opened, limit, ctl, answers,
                 taken, inbox, edits, cut>>

\* acquire_client_connection_slot: the count is tested and raised.
Acquire(r) ==
  /\ pc[r] = "acquire"
  /\ \/ /\ counts >= limit[r]
        /\ Goto(r, "failed")
        /\ UNCHANGED <<counts, reserved>>
     \/ /\ counts < limit[r]
        /\ counts' = counts + 1
        /\ reserved' = [reserved EXCEPT ![r] = TRUE]
        /\ Goto(r, "lookup")
  /\ UNCHANGED <<controlVars, max_conn, pending, opened, limit, ctl, answers,
                 taken, inbox, edits, cut>>

\* The handle is cloned under the controls lock.
LookupControl(r) ==
  /\ pc[r] = "lookup"
  /\ ctl' = [ctl EXCEPT ![r] = controls]
  /\ Goto(r, IF controls = NoConn THEN "offline" ELSE "queue")
  /\ UNCHANGED <<controlVars, max_conn, counts, pending, opened, limit,
                 reserved, answers, taken, inbox, edits, cut>>

\* "client is offline"
Offline(r) ==
  /\ pc[r] = "offline"
  /\ ReleaseIfReserved(r)
  /\ Goto(r, "failed")
  /\ UNCHANGED <<controlVars, max_conn, pending, opened, limit, ctl, answers,
                 taken, inbox, edits, cut>>

\* next_link_id and pending.insert.
QueuePending(r) ==
  /\ pc[r] = "queue"
  /\ pending' = pending \cup {r}
  /\ Goto(r, "send")
  /\ UNCHANGED <<controlVars, max_conn, counts, opened, limit, reserved, ctl,
                 answers, taken, inbox, edits, cut>>

\* control.tx.send fails exactly when the handler has left its loop.
Dispatch(r) ==
  /\ pc[r] = "send"
  /\ \/ /\ SendOpen(ctl[r], r)
        /\ Goto(r, "waiting")
     \/ /\ handler[ctl[r]] # "serving"
        /\ Goto(r, "abort")
        /\ UNCHANGED controlVars
  /\ UNCHANGED <<max_conn, counts, pending, opened, limit, reserved, ctl,
                 answers, taken, inbox, edits, cut>>

\* rx.recv_timeout returns a stream.
ReceiveStream(r) ==
  /\ pc[r] = "waiting"
  /\ inbox[r] > 0
  /\ Goto(r, "wrap")
  /\ UNCHANGED <<controlVars, max_conn, counts, pending, opened, limit,
                 reserved, ctl, answers, taken, inbox, edits, cut>>

\* Mutant of TimeOut: recv for recv_timeout ends only without a sender.
SenderGone(r) ==
  /\ pc[r] = "waiting"
  /\ inbox[r] = 0 /\ taken[r] = 0 /\ r \notin pending
  /\ Goto(r, "abort")
  /\ UNCHANGED <<controlVars, max_conn, counts, pending, opened, limit,
                 reserved, ctl, answers, taken, inbox, edits, cut>>

\* rx.recv_timeout gives up: the time is over, or the sender was dropped.
TimeOut(r) ==
  /\ pc[r] = "waiting"
  /\ inbox[r] = 0
  /\ Goto(r, "abort")
  /\ UNCHANGED <<controlVars, max_conn, counts, pending, opened, limit,
                 reserved, ctl, answers, taken, inbox, edits, cut>>

\* Send error and timeout: the slot first, ...
AbortSlot(r) ==
  /\ pc[r] = "abort"
  /\ ReleaseIfReserved(r)
  /\ Goto(r, "cleanup")
  /\ UNCHANGED <<controlVars, max_conn, pending, opened, limit, ctl, answers,
                 taken, inbox, edits, cut>>

\* Mutant of AbortPending: the entry is left behind.
AbortKeepingPending(r) ==
  /\ pc[r] = "cleanup"
  /\ Goto(r, "failed")
  /\ UNCHANGED <<controlVars, max_conn, counts, pending, opened, limit,
                 reserved, ctl, answers, taken, inbox, edits, cut>>

\* ... then the pending entry.
AbortPending(r) ==
  /\ pc[r] = "cleanup"
  /\ pending' = pending \ {r}
  /\ Goto(r, "failed")
  /\ UNCHANGED <<controlVars, max_conn, counts, opened, limit, reserved, ctl,
                 answers, taken, inbox, edits, cut>>

\* wrap_server_transport(..)?: a plain stream needs no work; compression can
\* fail, and so can the TLS handshake with the client, which reads without a
\* timeout.  An error returns without giving the slot back; otherwise a
\* CountedRelayStream is returned to the caller.
WrapTransport(r) ==
  /\ pc[r] = "wrap"
  /\ \/ /\ Goto(r, "live")
        /\ UNCHANGED reserved
     \/ /\ r \in Crypt \cup Compress
        /\ reserved' = [reserved EXCEPT ![r] = FALSE]
        /\ Goto(r, "leaked")
  /\ UNCHANGED <<controlVars, max_conn, counts, pending, opened, limit, ctl,
                 answers, taken, inbox, edits, cut>>

\* ConnectionSlotGuard::drop: the slot is released whether or not the
\* request had reserved one.
DropStream(r) ==
  /\ pc[r] = "live"
  /\ counts' = Released(counts)
  /\ reserved' = [reserved EXCEPT ![r] = FALSE]
  /\ Goto(r, "closed")
  /\ UNCHANGED <<controlVars, max_conn, pending, opened, limit, ctl, answers,
                 taken, inbox, edits, cut>>

-----------------------------------------------------------------------------
(* The client answers an Open with a Data connection or a mux stream.      *)

\* Mutant of AnswerArrives: the sender is looked up and stays in pending.
AnswerLooksUp(r) ==
  /\ r \in opened
  /\ answers[r] < MaxAnswers
  /\ answers' = [answers EXCEPT ![r] = @ + 1]
  /\ taken' = [taken EXCEPT ![r] = IF r \in pending THEN @ + 1 ELSE @]
  /\ UNCHANGED <<controlVars, max_conn, counts, pending, opened, pc, limit,
                 reserved, ctl, inbox, edits, cut>>

\* The server takes the sender out of pending; without one the connection
\* is refused ("unknown link id") or the mux stream dropped.
AnswerArrives(r) ==
  /\ r \in opened
  /\ answers[r] < MaxAnswers
  /\ answers' = [answers EXCEPT ![r] = @ + 1]
  /\ taken' = [taken EXCEPT ![r] = IF r \in pending THEN @ + 1 ELSE @]
  /\ pending' = pending \ {r}
  /\ UNCHANGED <<controlVars, max_conn, counts, opened, pc, limit, reserved,
                 ctl, inbox, edits, cut>>

\* "data accepted" is written and the stream is sent to the waiting thread;
\* if the write fails the sender is dropped with nothing sent.
HandOver(r) ==
  /\ taken[r] > 0
  /\ taken' = [taken EXCEPT ![r] = @ - 1]
  /\ \/ inbox' = [inbox EXCEPT ![r] = @ + 1]
     \/ UNCHANGED inbox
  /\ UNCHANGED <<controlVars, max_conn, counts, pending, opened, pc, limit,
                 reserved, ctl, answers, edits, cut>>

-----------------------------------------------------------------------------
(* The steps of the control plane, with their effect on the requests.      *)

\* mutate_client_edit without a change of the vkey.
EditLimit ==
  /\ edits < MaxEdits
  /\ edits' = edits + 1
  /\ max_conn' \in Limits
  /\ UNCHANGED <<controlVars, counts, pending, opened, pc, limit, reserved,
                 ctl, answers, taken, inbox, cut>>

\* An Open that is written to a connection that is up reaches the client.
WriteMessage(c) ==
  /\ WriteControl(c)
  /\ opened' = IF handler'[c] = "serving" /\ link[c] = "up"
               THEN opened \cup ({Head(mailbox[c])} \ {Stop}) ELSE opened
  /\ UNCHANGED <<max_conn, counts, pending, pc, limit, reserved, ctl, answers,
                 taken, inbox, edits, cut>>

\* terminate_client_connection removes the count of the key.
ForgetCount ==
  /\ TerminateCounts
  /\ counts' = 0
  /\ UNCHANGED <<max_conn, pending, opened, pc, limit, reserved, ctl, answers,
                 taken, inbox, edits, cut>>

\* stop_tunnel_runtimes shuts down the visitors that the accept loops of the
\* tunnels have registered, before and while they ask for a stream, and stops
\* the UDP workers.  The streams of hosts and secrets are not among them.
CutVisitors ==
  LET asked == {r \in Links \ Hosted :
                  pc[r] \notin {"start", "closed", "failed", "leaked"}}
      asking == {r \in Links \ Hosted : pc[r] = "start"}
  IN \E s \in SUBSET asking : cut' = cut \cup asked \cup s

\* The tunnels are stopped: before the client is terminated, and when it is
\* enabled.
TunnelStep ==
  /\ StopTunnels \/ RestartTunnels
  /\ CutVisitors
  /\ UNCHANGED <<max_conn, counts, pending, opened, pc, limit, reserved, ctl,
                 answers, taken, inbox, edits>>

ControlStep ==
  /\ \/ \E c \in Conns :
          \/ Connect(c, held)
          \/ NpcLeaves(c)
          \/ Handshake(c)
          \/ Register(c)
          \/ LoopEnds(c, held)
          \/ RemoveControl(c)
          \/ Break(c)
     \/ NpcExits
     \/ Enable
     \/ Disable
     \/ TerminateControl
     \/ TerminateStop
  /\ UNCHANGED linkVars

RequestStep(r) ==
  \/ ValidateAccess(r)
  \/ ReadLimit(r)
  \/ Acquire(r)
  \/ LookupControl(r)
  \/ Offline(r)
  \/ QueuePending(r)
  \/ Dispatch(r)
  \/ ReceiveStream(r)
  \/ TimeOut(r)
  \/ AbortSlot(r)
  \/ AbortPending(r)
  \/ WrapTransport(r)
  \/ DropStream(r)
  \/ AnswerArrives(r)
  \/ HandOver(r)

Next ==
  \/ ControlStep
  \/ \E c \in Conns : WriteMessage(c)
  \/ ForgetCount
  \/ TunnelStep
  \/ EditLimit
  \/ \E r \in Links : RequestStep(r)

Spec == Init /\ [][Next]_vars

(***************************************************************************)
(* Fairness.  The threads of the server and of the client that can run do  *)
(* run: a write or a read of a socket that can return returns, and         *)
(* recv_timeout returns at the latest when the time is over.  The TLS      *)
(* handshake of an encrypted stream is the exception: it waits for a       *)
(* client that may never answer, so that nothing is assumed of it.  No     *)
(* request has to be made, no answer has to come, a stream may stay open,  *)
(* and neither the operator nor the network has to do anything.            *)
(***************************************************************************)
ThreadStep(r) ==
  \/ ReadLimit(r) \/ Acquire(r) \/ LookupControl(r) \/ Offline(r)
  \/ QueuePending(r) \/ Dispatch(r) \/ ReceiveStream(r) \/ TimeOut(r)
  \/ AbortSlot(r) \/ AbortPending(r)
  \/ r \notin Crypt /\ WrapTransport(r)

TerminateStep ==
  \/ (TerminateControl \/ TerminateStop) /\ UNCHANGED linkVars
  \/ ForgetCount

Fairness ==
  /\ \A r \in Links : WF_vars(ThreadStep(r)) /\ WF_vars(HandOver(r))
  /\ \A c \in Conns :
       /\ WF_vars(NpcLeaves(c) /\ UNCHANGED linkVars)
       /\ WF_vars(Handshake(c) /\ UNCHANGED linkVars)
       /\ WF_vars(Register(c) /\ UNCHANGED linkVars)
       /\ WF_vars(WriteMessage(c))
       /\ WF_vars(LoopEnds(c, held) /\ UNCHANGED linkVars)
       /\ WF_vars(RemoveControl(c) /\ UNCHANGED linkVars)
  /\ WF_vars((\E c \in Conns : Connect(c, held)) /\ UNCHANGED linkVars)
  /\ WF_vars(TunnelStep)
  /\ WF_vars(TerminateStep)

FairSpec == Spec /\ Fairness

-----------------------------------------------------------------------------
(* Properties.                                                             *)

\* A sender stays in pending only while its request can still remove it: on
\* no path, whichever of the answer, the timeout and the failing send comes
\* first, does request_client_stream return and leave its entry behind.
NoPendingLeak ==
  \A r \in pending : pc[r] \in {"send", "waiting", "abort", "cleanup"}

\* However often the client answers an Open (the mux stream, then the Data
\* connection it falls back to), one stream at most reaches the thread: the
\* sender leaves pending with the first answer.
AtMostOneStream == \A r \in Links : taken[r] + inbox[r] <= 1

\* Requests that were admitted under a limit and have neither returned an
\* error nor seen their stream dropped.
InUse ==
  {r \in Links :
     /\ limit[r] > 0
     /\ pc[r] \in {"lookup", "offline", "queue", "send", "waiting", "wrap",
                    "abort", "live"}}

\* Requests admitted under a limit that wrap_server_transport failed.
Lost == {r \in Links : limit[r] > 0 /\ pc[r] = "leaked"}

\* Streams handed out and not dropped yet.
Live == {r \in Links : pc[r] = "live"}

\* No operator has enabled, disabled or edited the client since the start.
Undisturbed == toggles = 0 /\ edits = 0

\* The limit of concurrent connections: with the limit switched on and set,
\* and as long as no operator intervenes, no more than max_conn streams of the
\* client are open at a time.
SlotLimit ==
  Undisturbed /\ AllowLimit /\ max_conn > 0 => Cardinality(Live) <= max_conn

\* As long as no operator intervenes, active_conn_counts is the number of the
\* requests that are being set up or open, plus one for each request whose
\* transport could not be set up: a timeout, a failed send and an offline
\* client give the slot back once, whatever they race with, and the failed
\* wrap_server_transport is the only way to lose one for ever.
SlotAccounting ==
  Undisturbed => counts = Cardinality(InUse) + Cardinality(Lost)

\* server_config.md: max_conn is the largest number of concurrent
\* connections of the client.  The streams that are open for a visitor the
\* server has not shut down never outnumber it, whatever the operator does
\* to the status of the client.
ServedWithinLimit ==
  AllowLimit /\ max_conn > 0 => Cardinality(Live \ cut) <= max_conn

\* The request is in the TLS handshake of an encrypted stream.
Shaking(r) == r \in Crypt /\ pc[r] = "wrap"

\* Once the client stays enabled and running, its connection is not lost
\* without a sign and no TLS handshake hangs, the client ends up online and
\* stays online: although the clean-up of a replaced handler removes the new
\* handle and costs one more reconnection, and although a request that waits
\* can put that clean-up off until the client has reconnected again.
EventuallyOnline ==
  <>[](status /\ ~exited /\ ~Deaf /\ \A r \in Links : ~Shaking(r)) => <>[]Online

\* A handler whose handle was replaced or removed leaves its loop in the
\* end, although requests keep clones of the handle and the client may never
\* answer them: only a request in the TLS handshake, which has no timeout,
\* can keep it.
StaleHandlersEnd ==
  \A c \in Conns :
    handler[c] = "serving" /\ controls # c ~>
      \/ handler[c] # "serving"
      \/ \E r \in Links : Shaking(r) /\ ctl[r] = c

\* The request is over: with a stream or with an error.
Returned(r) == pc[r] \in {"live", "failed", "leaked"}

\* A request that was admitted to request_client_stream returns, with a
\* stream or an error, whatever becomes of the control connection, unless it
\* is for an encrypted stream and the client does not go on with the TLS
\* handshake.
RequestReturns ==
  \A r \in Links : pc[r] = "limit" ~> Returned(r) \/ Shaking(r)

=============================================================================
