-------------------------- MODULE ControlRegistry --------------------------
(***************************************************************************)
(* The control plane of one client key (vkey): the entry of that key in    *)
(* Registry.controls, the server threads that run the Control branch of    *)
(* handle_bridge_conn, the client's control_loop_with_reconnect, and the   *)
(* Web operation that enables or disables the client.  Requests for client *)
(* streams keep clones of the handle while they wait; LinkRequest, which   *)
(* composes them with these actions, passes the handles they keep as the   *)
(* parameter held.                                                         *)
(*                                                                         *)
(* A control connection is an element of Conns.  The ControlHandle stored  *)
(* under the key is identified with the connection whose handler created   *)
(* it; its channel is mailbox[c], and the receiving end lives as long as   *)
(* the handler is in its loop.  The server never reads from an accepted    *)
(* control connection: it learns that the client is gone only when a write *)
(* fails or when every sender of the channel has been dropped.  The client *)
(* reads without a timeout and nothing is ever sent to keep the connection *)
(* alive, so that it learns of a loss only if the network reports it.      *)
(*                                                                         *)
(* Registry.mux_sessions is inserted into and removed from but never read, *)
(* so the model leaves it out.                                             *)
(***************************************************************************)
EXTENDS Naturals, Sequences, FiniteSets

CONSTANTS
  Conns,       \* control connections; a finished one may be used again
  Links,       \* link ids carried by Open messages
  NoConn,      \* no control handle, no connection
  Stop,        \* the message ServerMessage::Stop
  MaxBreaks,   \* bound: how often the network breaks a control connection
  MaxToggles,  \* bound: how often the Web operation switches the client
  MaxQueue,    \* bound: length of a mailbox for Open messages
  MayExit      \* whether the client process may end for good

ASSUME ControlAssumption ==
  /\ NoConn \notin Conns
  /\ Stop \notin Links
  /\ MaxBreaks \in Nat /\ MaxToggles \in Nat /\ MaxQueue \in Nat
  /\ MayExit \in BOOLEAN

VARIABLES
  status,    \* the client exists under the vkey and its status is on
  controls,  \* the handle stored in Registry.controls under the vkey
  handler,   \* control state of the thread serving each connection
  mailbox,   \* the mpsc channel of each handle
  link,      \* the TCP connection, see LinkStates
  npc,       \* the connection the client's control_loop reads from
  exited,    \* the client process has ended
  admin,     \* the Web thread that disables, and the handle it terminates
  enabling,  \* a Web thread has enabled the client and restarts its tunnels
  breaks,    \* network failures so far
  toggles    \* Web operations so far

controlVars ==
  <<status, controls, handler, mailbox, link, npc, exited, admin,
    enabling, breaks, toggles>>

(***************************************************************************)
(* A TCP connection is up, carries a Stop to the client, has been closed   *)
(* by the other side (down: the kernel still takes one write), answers     *)
(* writes with an error (reset), or has been lost without a sign: nothing  *)
(* passes any more, neither data nor the news that an end has closed it.   *)
(***************************************************************************)
LinkStates == {"up", "stop", "down", "reset", "lost"}
HandlerStates == {"idle", "hello", "accepted", "serving", "ended"}
AdminSteps == {"idle", "tunnels", "terminate", "counts", "stop"}

ControlTypeOK ==
  /\ status \in BOOLEAN
  /\ controls \in Conns \cup {NoConn}
  /\ handler \in [Conns -> HandlerStates]
  /\ mailbox \in [Conns -> Seq(Links \cup {Stop})]
  /\ link \in [Conns -> LinkStates]
  /\ npc \in Conns \cup {NoConn}
  /\ exited \in BOOLEAN
  /\ admin \in [pc : AdminSteps, handle : Conns \cup {NoConn}]
  /\ enabling \in BOOLEAN
  /\ breaks \in 0..MaxBreaks
  /\ toggles \in 0..MaxToggles

ControlInit ==
  /\ status \in BOOLEAN
  /\ controls = NoConn
  /\ handler = [c \in Conns |-> "idle"]
  /\ mailbox = [c \in Conns |-> <<>>]
  /\ link = [c \in Conns |-> "reset"]
  /\ npc = NoConn
  /\ exited = FALSE
  /\ admin = [pc |-> "idle", handle |-> NoConn]
  /\ enabling = FALSE
  /\ breaks = 0
  /\ toggles = 0

(***************************************************************************)
(* Senders of a channel: the handle in the registry, the handle the Web    *)
(* operation has taken out of it, and the clones held by threads that are  *)
(* in request_client_stream (the parameter held).                          *)
(***************************************************************************)
HasSender(c, held) == controls = c \/ admin.handle = c \/ c \in held

(***************************************************************************)
(* The client sleeps five seconds before it reconnects.  The model takes   *)
(* that pause to be longer than what the server's runnable threads still   *)
(* have to do: no handler is between two steps of its own, and the three   *)
(* removals of terminate_client_connection are not half done.  Stopping    *)
(* tunnels and waiting for a stream may take longer.                       *)
(***************************************************************************)
ServerQuiet(held) ==
  /\ admin.pc \in {"idle", "tunnels", "terminate"}
  /\ \A c \in Conns :
       \/ handler[c] = "idle"
       \/ handler[c] = "serving" /\ HasSender(c, held)

-----------------------------------------------------------------------------
(* The client: control_loop_with_reconnect and control_loop.               *)

\* What the socket is like after its server end was closed.
Closed(l) == IF l = "lost" THEN "lost" ELSE "reset"

\* connect_bridge_stream, then the Control hello is written.
Connect(c, held) ==
  /\ npc = NoConn /\ ~exited
  /\ handler[c] = "idle" /\ ~HasSender(c, held)
  /\ ServerQuiet(held)
  /\ npc' = c
  /\ handler' = [handler EXCEPT ![c] = "hello"]
  /\ mailbox' = [mailbox EXCEPT ![c] = <<>>]
  /\ link' = [link EXCEPT ![c] = "up"]
  /\ UNCHANGED <<status, controls, exited, admin,
                 enabling, breaks, toggles>>

\* Mutant of NpcLeaves: control_loop goes on after a failed read.
NpcLeavesOnStop(c) ==
  /\ npc = c
  /\ link[c] = "stop"
  /\ npc' = NoConn
  /\ link' = [link EXCEPT ![c] = "down"]
  /\ UNCHANGED <<status, controls, handler, mailbox, exited, admin,
                 enabling, breaks, toggles>>

\* read_message fails, or the reply is an Error, or Stop arrives: control_loop
\* returns Err and the socket is closed.  Every error, a fatal one too, is
\* retried.  On a lost connection the read does not return.
NpcLeaves(c) ==
  /\ npc = c
  /\ link[c] \notin {"up", "lost"}
  /\ npc' = NoConn
  /\ link' = [link EXCEPT ![c] = IF @ = "stop" THEN "down" ELSE @]
  /\ UNCHANGED <<status, controls, handler, mailbox, exited, admin,
                 enabling, breaks, toggles>>

\* The process is killed, or the loop returns because auto_reconnection is
\* off; its connection is closed.
NpcExits ==
  /\ MayExit /\ ~exited
  /\ exited' = TRUE
  /\ npc' = NoConn
  /\ link' = [c \in Conns |->
                IF c = npc /\ link[c] \in {"up", "stop"} THEN "down" ELSE link[c]]
  /\ UNCHANGED <<status, controls, handler, mailbox, admin, enabling, breaks,
                 toggles>>

-----------------------------------------------------------------------------
(* The server: the Control branch of handle_bridge_conn.                   *)

\* validate_client_handshake: the key is known and the client enabled (the
\* lists of addresses are taken not to exclude the client).
HandshakeAllowed == status

\* validate_client_handshake, then the reply.  The clients lock is released
\* before the reply is written; a failed write makes the handler return.
Handshake(c) ==
  /\ handler[c] = "hello"
  /\ \/ /\ HandshakeAllowed
        /\ link' = [link EXCEPT ![c] = IF @ = "down" THEN "reset" ELSE @]
        /\ handler' = [handler EXCEPT ![c] = "accepted"]
     \/ /\ ~HandshakeAllowed \/ link[c] = "down"
        /\ link' = [link EXCEPT ![c] = Closed(@)]
        /\ handler' = [handler EXCEPT ![c] = "idle"]
  /\ UNCHANGED <<status, controls, mailbox, npc, exited, admin,
                 enabling, breaks, toggles>>

\* controls.insert: the previous handle of the key, if any, is dropped.
Register(c) ==
  /\ handler[c] = "accepted"
  /\ controls' = c
  /\ handler' = [handler EXCEPT ![c] = "serving"]
  /\ UNCHANGED <<status, mailbox, link, npc, exited, admin,
                 enabling, breaks, toggles>>

\* One turn of "for msg in rx".  A write to a closed connection is taken by
\* the kernel and lost, or fails and ends the loop; on a lost one it fails
\* when the kernel has given up.
WriteControl(c) ==
  /\ handler[c] = "serving"
  /\ mailbox[c] # <<>>
  /\ \/ /\ mailbox' = [mailbox EXCEPT ![c] = Tail(@)]
        /\ link[c] # "reset"
        /\ link' = [link EXCEPT ![c] =
                      IF @ = "down" THEN "reset"
                      ELSE IF @ = "up" /\ Head(mailbox[c]) = Stop THEN "stop"
                      ELSE @]
        /\ UNCHANGED handler
     \/ /\ link[c] \in {"down", "reset", "lost"}
        /\ handler' = [handler EXCEPT ![c] = "ended"]
        /\ UNCHANGED <<mailbox, link>>
  /\ UNCHANGED <<status, controls, npc, exited, admin,
                 enabling, breaks, toggles>>

\* The channel is drained and has no sender left: the loop is over.
LoopEnds(c, held) ==
  /\ handler[c] = "serving"
  /\ mailbox[c] = <<>>
  /\ ~HasSender(c, held)
  /\ handler' = [handler EXCEPT ![c] = "ended"]
  /\ UNCHANGED <<status, controls, mailbox, link, npc, exited, admin,
                 enabling, breaks, toggles>>

\* Mutant of RemoveControl: a failed write returns without the removal.
ReturnWithoutRemoval(c) ==
  /\ handler[c] = "ended"
  /\ handler' = [handler EXCEPT ![c] = "idle"]
  /\ mailbox' = [mailbox EXCEPT ![c] = <<>>]
  /\ link' = [link EXCEPT ![c] = Closed(@)]
  /\ UNCHANGED <<status, controls, npc, exited, admin,
                 enabling, breaks, toggles>>

\* controls.remove(&vkey), whoever is registered by now; the thread returns
\* and its socket is closed.
RemoveControl(c) ==
  /\ handler[c] = "ended"
  /\ controls' = NoConn
  /\ handler' = [handler EXCEPT ![c] = "idle"]
  /\ mailbox' = [mailbox EXCEPT ![c] = <<>>]
  /\ link' = [link EXCEPT ![c] = Closed(@)]
  /\ UNCHANGED <<status, npc, exited, admin,
                 enabling, breaks, toggles>>

-----------------------------------------------------------------------------
(* Web operations on the client and the network.                           *)

\* mutate_client_status with status = true; another Web thread may be in the
\* middle of disabling the client.
Enable ==
  /\ ~enabling
  /\ toggles < MaxToggles
  /\ status' = TRUE
  /\ toggles' = toggles + 1
  /\ enabling' = TRUE
  /\ UNCHANGED <<controls, handler, mailbox, link, npc, exited, admin, breaks>>

\* Then the tunnels of the client are stopped and started again.
RestartTunnels ==
  /\ enabling
  /\ enabling' = FALSE
  /\ UNCHANGED <<status, controls, handler, mailbox, link, npc, exited, admin,
                 breaks, toggles>>

\* mutate_client_status with status = false; deleting the client goes on in
\* the same way.  One thread at a time disables the client.
Disable ==
  /\ admin.pc = "idle"
  /\ toggles < MaxToggles
  /\ status' = FALSE
  /\ toggles' = toggles + 1
  /\ admin' = [admin EXCEPT !.pc = "tunnels"]
  /\ UNCHANGED <<controls, handler, mailbox, link, npc, exited, enabling,
                 breaks>>

\* stop_tunnel_runtimes, before the client is terminated.
StopTunnels ==
  /\ admin.pc = "tunnels"
  /\ admin' = [admin EXCEPT !.pc = "terminate"]
  /\ UNCHANGED <<status, controls, handler, mailbox, link, npc, exited,
                 enabling, breaks, toggles>>

\* terminate_client_connection: the handle is taken out of the registry.
TerminateControl ==
  /\ admin.pc = "terminate"
  /\ admin' = [pc |-> "counts", handle |-> controls]
  /\ controls' = NoConn
  /\ UNCHANGED <<status, handler, mailbox, link, npc, exited, enabling,
                 breaks, toggles>>

\* terminate_client_connection: active_conn_counts.remove(vkey).
TerminateCounts ==
  /\ admin.pc = "counts"
  /\ admin' = [admin EXCEPT !.pc = "stop"]
  /\ UNCHANGED <<status, controls, handler, mailbox, link, npc, exited,
                 enabling, breaks, toggles>>

\* terminate_client_connection: Stop is sent if the receiver still exists,
\* and the handle is dropped.
TerminateStop ==
  /\ admin.pc = "stop"
  /\ admin' = [pc |-> "idle", handle |-> NoConn]
  /\ mailbox' = [c \in Conns |->
                   IF c = admin.handle /\ handler[c] = "serving"
                   THEN Append(mailbox[c], Stop) ELSE mailbox[c]]
  /\ UNCHANGED <<status, controls, handler, link, npc, exited, enabling,
                 breaks, toggles>>

\* The network breaks the connection in use.  The client is told, or it is
\* not: it never writes, so nothing but the network can tell it.
Break(c) ==
  /\ npc = c
  /\ link[c] = "up"
  /\ breaks < MaxBreaks
  /\ breaks' = breaks + 1
  /\ \E l \in {"down", "lost"} : link' = [link EXCEPT ![c] = l]
  /\ UNCHANGED <<status, controls, handler, mailbox, npc, exited, admin,
                 enabling, toggles>>

\* A thread in request_client_stream that holds the handle of c sends Open.
SendOpen(c, l) ==
  /\ handler[c] = "serving"
  /\ Len(mailbox[c]) < MaxQueue
  /\ mailbox' = [mailbox EXCEPT ![c] = Append(@, l)]
  /\ UNCHANGED <<status, controls, handler, link, npc, exited, admin,
                 enabling, breaks, toggles>>

-----------------------------------------------------------------------------
(* Properties.                                                             *)

\* A handle found in Registry.controls belongs to a handler thread that has
\* not finished: request_client_stream never picks up a handle whose thread
\* is gone for good (server.rs, Control branch: every exit of the write loop
\* removes the entry).
NoDanglingHandle ==
  controls # NoConn => handler[controls] \in {"serving", "ended"}

\* The client reads from connection c, which the server serves and which
\* requests find in the registry.
Online ==
  /\ npc # NoConn
  /\ controls = npc
  /\ handler[npc] = "serving"
  /\ link[npc] = "up"

\* The client reads from a connection that was lost without a sign.
Deaf == npc # NoConn /\ link[npc] = "lost"

\* architecture.md calls controls the map of active control handles.  An
\* entry disappears only because its own handler ended or because the Web
\* operation terminates the client: this is what that description asks for.
OnlyOwnHandlerRemoves ==
  [][\A c \in Conns :
       controls = c /\ controls' = NoConn =>
         handler[c] = "ended" \/ admin.pc = "terminate"]_controlVars

\* A client that stays disabled ends up without a control handle: what the
\* test disabling_client_terminates_online_control asserts after the call.
DisabledGoesOffline == <>[](~status) => <>[](controls = NoConn)

=============================================================================
