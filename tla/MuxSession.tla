----------------------------- MODULE MuxSession -----------------------------
(***************************************************************************)
(* A mux session (mux.rs): the two ends of one connection, the threads of  *)
(* each end (read_loop, ping_loop, and the threads that use a stream), and *)
(* the streams multiplexed over it.  The client end opens streams, with    *)
(* the link ids it received, each used once; the server end accepts them.  *)
(*                                                                         *)
(* A half is an end of the session and a stream id: one MuxStream object   *)
(* (or its two io halves).  A frame is a record; the payload of the n-th   *)
(* write of a half is the number n.  Rate limits only delay and are left   *)
(* out.  Only the server end counts traffic: the client uses MuxSession::  *)
(* new, whose policy has no counter.                                       *)
(*                                                                         *)
(* The client keeps its session in a holder, from where another link may   *)
(* replace or take it (client.rs); streams only have a weak reference.     *)
(* The server never lets go of a session: mux_accept_loop owns one and     *)
(* waits on a channel whose sender is in the session itself.               *)
(***************************************************************************)
EXTENDS Naturals, Sequences

CONSTANTS
  Ids,        \* link ids
  MaxWrites,  \* bound: writes on each half of a stream
  Faults      \* what may happen to the session

ASSUME MuxAssumption ==
  /\ MaxWrites \in Nat
  /\ Faults \subseteq {"break", "idle", "replace", "flow"}

Ends == {"client", "server"}
Peer(e) == IF e = "client" THEN "server" ELSE "client"
Halves == Ends \X Ids
Other(h) == <<Peer(h[1]), h[2]>>

VARIABLES
  broken,   \* the connection is broken
  wire,     \* frames on their way to each end
  loop,     \* read_loop of each end: reading, creating (a stream) or ended
  closed,   \* MuxSessionInner.closed
  gone,     \* the client has let go of the session
  drain,    \* close_session has set closed and not yet taken the streams
  streams,  \* MuxSessionInner.streams: the halves with an entry at their end
  chan,     \* what has been sent to the Receiver of a half; 0 is None
  pc,       \* progress of a half
  sent,     \* writes of a half
  got,      \* payloads its reader has read
  eof       \* its reader has read the end (read_closed)

muxVars == <<broken, wire, loop, closed, gone, drain, streams, chan, pc, sent,
             got, eof>>

(***************************************************************************)
(* absent: no object; checked: create_stream has seen the session open;    *)
(* inserted: the entry is in the map; open: the user has the stream;       *)
(* closing: Close is sent; done: the entry is removed; refused: the        *)
(* session was closed.                                                     *)
(***************************************************************************)
HalfStates == {"absent", "checked", "inserted", "open", "closing", "done",
               "refused"}
Frames == [kind : {"open", "data", "close"}, id : Ids, n : Nat]
Frame(k, i, n) == [kind |-> k, id |-> i, n |-> n]

MuxInit ==
  /\ broken = FALSE
  /\ wire = [e \in Ends |-> <<>>]
  /\ loop = [e \in Ends |-> "reading"]
  /\ closed = [e \in Ends |-> FALSE]
  /\ gone = FALSE
  /\ drain = [e \in Ends |-> FALSE]
  /\ streams = {}
  /\ chan = [h \in Halves |-> <<>>]
  /\ pc = [h \in Halves |-> "absent"]
  /\ sent = [h \in Halves |-> 0]
  /\ got = [h \in Halves |-> <<>>]
  /\ eof = [h \in Halves |-> FALSE]

-----------------------------------------------------------------------------
(* Helpers.                                                                *)

\* send_frame never looks at closed.  What is written to a broken connection
\* is lost, whether or not the write reports it.
SendFrame(e, f) ==
  wire' = IF broken THEN wire ELSE [wire EXCEPT ![Peer(e)] = Append(@, f)]

\* session.upgrade() succeeds.
Alive(e) == e = "client" => ~gone

Step(h, s) == pc' = [pc EXCEPT ![h] = s]

\* close_session: the first caller sets closed; Drain does the rest.
CloseSession(e) ==
  /\ closed' = [closed EXCEPT ![e] = TRUE]
  /\ drain' = [drain EXCEPT ![e] = @ \/ ~closed[e]]

-----------------------------------------------------------------------------
(* The threads that use a stream.                                          *)

\* open_stream, create_stream: the test of closed ...
OpenStream(i) ==
  /\ pc[<<"client", i>>] = "absent"
  /\ Alive("client")
  /\ Step(<<"client", i>>, IF closed["client"] THEN "refused" ELSE "checked")
  /\ UNCHANGED <<broken, wire, loop, closed, gone, drain, streams, chan, sent, got, eof>>

\* ... and the insertion, at either end.
InsertStream(h) ==
  /\ pc[h] = "checked"
  /\ streams' = streams \cup {h}
  /\ Step(h, "inserted")
  /\ UNCHANGED <<broken, wire, loop, closed, gone, drain, chan, sent, got, eof>>

\* open_stream: the Open frame; if the write fails the stream is dropped.
SendOpenFrame(i) ==
  /\ pc[<<"client", i>>] = "inserted"
  /\ \/ Step(<<"client", i>>, "open")
     \/ broken /\ Step(<<"client", i>>, "closing")
  /\ SendFrame("client", Frame("open", i, 0))
  /\ UNCHANGED <<broken, loop, closed, gone, drain, streams, chan, sent, got, eof>>

\* MuxStream::write; a write that fails (no session, or the flow limit is
\* reached) changes nothing.
WriteStream(h) ==
  /\ pc[h] = "open"
  /\ Alive(h[1])
  /\ sent[h] < MaxWrites
  /\ sent' = [sent EXCEPT ![h] = @ + 1]
  /\ SendFrame(h[1], Frame("data", h[2], sent[h] + 1))
  /\ UNCHANGED <<broken, loop, closed, gone, drain, streams, chan, pc, got, eof>>

\* Mutant of SendCloseFrame: write_closed is set and no frame is sent.
CloseSilently(h) ==
  /\ pc[h] = "open"
  /\ Alive(h[1])
  /\ Step(h, "closing")
  /\ UNCHANGED <<broken, wire, loop, closed, gone, drain, streams, chan, sent, got, eof>>

\* close_write_once, from shutdown_write or drop: the Close frame first ...
SendCloseFrame(h) ==
  /\ pc[h] = "open"
  /\ Alive(h[1])
  /\ SendFrame(h[1], Frame("close", h[2], 0))
  /\ Step(h, "closing")
  /\ UNCHANGED <<broken, loop, closed, gone, drain, streams, chan, sent, got, eof>>

\* (without a session nothing is sent)
CloseWithoutSession(h) ==
  /\ pc[h] = "open"
  /\ ~Alive(h[1])
  /\ Step(h, "done")
  /\ UNCHANGED <<broken, wire, loop, closed, gone, drain, streams, chan, sent, got, eof>>

\* Mutant of DropStream: the entry stays in the map.
DropKeepingEntry(h) ==
  /\ pc[h] = "closing"
  /\ Step(h, "done")
  /\ UNCHANGED <<broken, wire, loop, closed, gone, drain, streams, chan, sent, got, eof>>

\* ... then drop_stream removes the entry through which data arrives.
DropStream(h) ==
  /\ pc[h] = "closing"
  /\ streams' = streams \ {h}
  /\ Step(h, "done")
  /\ UNCHANGED <<broken, wire, loop, closed, gone, drain, chan, sent, got, eof>>

\* MuxReadHalf::read: the next payload or None; without a sender, the end.
ReadStream(h) ==
  /\ pc[h] \in {"open", "closing", "done"}
  /\ ~eof[h]
  /\ \/ /\ chan[h] # <<>>
        /\ chan' = [chan EXCEPT ![h] = Tail(@)]
        /\ \/ /\ Head(chan[h]) = 0
              /\ eof' = [eof EXCEPT ![h] = TRUE]
              /\ UNCHANGED got
           \/ /\ Head(chan[h]) # 0
              /\ got' = [got EXCEPT ![h] = Append(@, Head(chan[h]))]
              /\ UNCHANGED eof
     \/ /\ chan[h] = <<>> /\ h \notin streams
        /\ eof' = [eof EXCEPT ![h] = TRUE]
        /\ UNCHANGED <<chan, got>>
  /\ UNCHANGED <<broken, wire, loop, closed, gone, drain, streams, pc, sent>>

-----------------------------------------------------------------------------
(* read_loop.                                                              *)

Incoming(e, k) ==
  /\ loop[e] = "reading"
  /\ Alive(e)
  /\ wire[e] # <<>>
  /\ Head(wire[e]).kind = k
  /\ wire' = [wire EXCEPT ![e] = Tail(@)]

\* FRAME_OPEN: create_stream, ignored if the session is closed.  The thread
\* goes on to InsertStream and Accept.
ReceiveOpen(e) ==
  /\ Incoming(e, "open")
  /\ \/ closed[e] /\ UNCHANGED <<loop, pc>>
     \/ /\ ~closed[e]
        /\ Step(<<e, Head(wire[e]).id>>, "checked")
        /\ loop' = [loop EXCEPT ![e] = "creating"]
  /\ UNCHANGED <<broken, closed, gone, drain, streams, chan, sent, got, eof>>

\* accept_tx.send, from where mux_accept_loop takes the stream.
Accept(e, i) ==
  /\ loop[e] = "creating"
  /\ pc[<<e, i>>] = "inserted"
  /\ Step(<<e, i>>, "open")
  /\ loop' = [loop EXCEPT ![e] = "reading"]
  /\ UNCHANGED <<broken, wire, closed, gone, drain, streams, chan, sent, got, eof>>

\* Mutant of ReceiveData: a mailbox that keeps the latest payload only.
ReceiveLatestData(e) ==
  /\ Incoming(e, "data")
  /\ LET h == <<e, Head(wire[e]).id>> IN
       chan' = IF h \in streams
               THEN [chan EXCEPT ![h] = <<Head(wire[e]).n>>] ELSE chan
  /\ UNCHANGED <<broken, loop, closed, gone, drain, streams, pc, sent, got, eof>>

\* FRAME_DATA: without an entry the payload is thrown away.
ReceiveData(e) ==
  /\ Incoming(e, "data")
  /\ LET h == <<e, Head(wire[e]).id>> IN
       chan' = IF h \in streams
               THEN [chan EXCEPT ![h] = Append(@, Head(wire[e]).n)] ELSE chan
  /\ UNCHANGED <<broken, loop, closed, gone, drain, streams, pc, sent, got, eof>>

\* Mutant of ReceiveClose: the end overtakes payloads that wait to be read.
ReceiveCloseAtOnce(e) ==
  /\ Incoming(e, "close")
  /\ LET h == <<e, Head(wire[e]).id>> IN
       /\ streams' = streams \ {h}
       /\ chan' = IF h \in streams THEN [chan EXCEPT ![h] = <<0>>] ELSE chan
  /\ UNCHANGED <<broken, loop, closed, gone, drain, pc, sent, got, eof>>

\* Mutant of ReceiveClose: every stream of the end is ended.
ReceiveCloseForAll(e) ==
  /\ Incoming(e, "close")
  /\ streams' = {h \in streams : h[1] # e}
  /\ chan' = [h \in Halves |-> IF h \in streams /\ h[1] = e
                               THEN Append(chan[h], 0) ELSE chan[h]]
  /\ UNCHANGED <<broken, loop, closed, gone, drain, pc, sent, got, eof>>

\* FRAME_CLOSE: the entry is removed and None sent.
ReceiveClose(e) ==
  /\ Incoming(e, "close")
  /\ LET h == <<e, Head(wire[e]).id>> IN
       /\ streams' = streams \ {h}
       /\ chan' = IF h \in streams
                  THEN [chan EXCEPT ![h] = Append(@, 0)] ELSE chan
  /\ UNCHANGED <<broken, loop, closed, gone, drain, pc, sent, got, eof>>

\* record_export refuses the frame: the session is closed and no longer read.
\* The writer keeps the connection open, so the peer is not told.
FlowExceeded(e) ==
  /\ "flow" \in Faults
  /\ e = "server"
  /\ Incoming(e, "data")
  /\ loop' = [loop EXCEPT ![e] = "ended"]
  /\ CloseSession(e)
  /\ UNCHANGED <<broken, gone, streams, chan, pc, sent, got, eof>>

\* A frame arrives for a session that is gone: read_loop ends and with it
\* the last handle of the connection.
ReadWithoutSession(e) ==
  /\ loop[e] = "reading"
  /\ ~Alive(e)
  /\ wire[e] # <<>>
  /\ loop' = [loop EXCEPT ![e] = "ended"]
  /\ broken' = TRUE
  /\ UNCHANGED <<wire, closed, gone, drain, streams, chan, pc, sent, got, eof>>

\* read_exact fails; frames that were under way are lost.
ReadFails(e) ==
  /\ broken
  /\ loop[e] = "reading"
  /\ loop' = [loop EXCEPT ![e] = "ended"]
  /\ \/ Alive(e) /\ CloseSession(e)
     \/ ~Alive(e) /\ UNCHANGED <<closed, drain>>
  /\ UNCHANGED <<broken, gone, wire, streams, chan, pc, sent, got, eof>>

-----------------------------------------------------------------------------
(* ping_loop, the second half of close_session, and the network.           *)

\* No frame has arrived for threshold rounds.  The connection is kept, and
\* nothing is sent to the peer.
IdleTooLong(e) ==
  /\ "idle" \in Faults
  /\ ~closed[e]
  /\ Alive(e)
  /\ wire[e] = <<>>
  /\ CloseSession(e)
  /\ UNCHANGED <<broken, gone, wire, loop, streams, chan, pc, sent, got, eof>>

\* mem::take(streams), and None to each of them.
Drain(e) ==
  /\ drain[e]
  /\ drain' = [drain EXCEPT ![e] = FALSE]
  /\ streams' = {h \in streams : h[1] # e}
  /\ chan' = [h \in Halves |-> IF h \in streams /\ h[1] = e
                               THEN Append(chan[h], 0) ELSE chan[h]]
  /\ UNCHANGED <<broken, gone, wire, loop, closed, pc, sent, got, eof>>

\* Another link replaces the session in the holder (ensure_mux_session) or
\* takes it out (open_mux_stream), and no thread is using it: it is dropped,
\* and with it the senders of its streams.
LetGo ==
  /\ "replace" \in Faults
  /\ ~gone
  /\ \A i \in Ids : pc[<<"client", i>>] \notin {"checked", "inserted", "closing"}
  /\ loop["client"] # "creating"
  /\ ~drain["client"]
  /\ gone' = TRUE
  /\ streams' = {h \in streams : h[1] # "client"}
  /\ UNCHANGED <<broken, wire, loop, closed, drain, chan, pc, sent, got, eof>>

BreakConnection ==
  /\ "break" \in Faults
  /\ ~broken
  /\ broken' = TRUE
  /\ UNCHANGED <<wire, loop, closed, gone, drain, streams, chan, pc, sent, got, eof>>

-----------------------------------------------------------------------------
MuxNext ==
  \/ \E i \in Ids : OpenStream(i) \/ SendOpenFrame(i)
  \/ \E h \in Halves :
       \/ InsertStream(h)
       \/ WriteStream(h)
       \/ SendCloseFrame(h)
       \/ CloseWithoutSession(h)
       \/ DropStream(h)
       \/ ReadStream(h)
  \/ \E e \in Ends :
       \/ ReceiveOpen(e)
       \/ \E i \in Ids : Accept(e, i)
       \/ ReceiveData(e)
       \/ ReceiveClose(e)
       \/ FlowExceeded(e)
       \/ ReadWithoutSession(e)
       \/ ReadFails(e)
       \/ IdleTooLong(e)
       \/ Drain(e)
  \/ LetGo
  \/ BreakConnection

MuxSpec == MuxInit /\ [][MuxNext]_muxVars

(***************************************************************************)
(* Fairness: the threads of both ends run, and the readers (the copy       *)
(* threads of the relay) keep reading.  Nobody has to open, write or close *)
(* a stream, and nothing has to fail.                                      *)
(***************************************************************************)
ReadLoopStep(e) ==
  \/ ReceiveOpen(e) \/ ReceiveData(e) \/ ReceiveClose(e)
  \/ ReadFails(e) \/ ReadWithoutSession(e)
  \/ \E i \in Ids : Accept(e, i)

MuxFairness ==
  /\ \A e \in Ends : WF_muxVars(ReadLoopStep(e)) /\ WF_muxVars(Drain(e))
  /\ \A h \in Halves :
       /\ WF_muxVars(InsertStream(h))
       /\ WF_muxVars(DropStream(h))
       /\ WF_muxVars(ReadStream(h))
  /\ \A i \in Ids : WF_muxVars(SendOpenFrame(i))

FairMuxSpec == MuxSpec /\ MuxFairness

-----------------------------------------------------------------------------
(* Properties.                                                             *)

\* The refinement mapping: a half has closed its direction once its Close
\* frame is sent, and an end may cut its streams short once the session was
\* closed or let go there, or the connection is broken.
Service == INSTANCE StreamService WITH
  got <- [h \in Halves |-> Len(got[h])],
  shut <- [h \in Halves |-> pc[h] \in {"closing", "done"}],
  failed <- {e \in Ends : broken \/ closed[e] \/ ~Alive(e)}

\* The session implements StreamService: in whatever order threads of both
\* ends run, a reader is told of the end only after everything the peer
\* wrote, unless it closed its own direction or the session is lost.
ImplementsService == Service!ServiceSpec

\* Payloads are read in the order of the writes, none twice, none left out.
InOrder ==
  \A h \in Halves : \A k \in 1..Len(got[h]) : got[h][k] = k

\* The map of streams does not grow with closed streams: an entry belongs to
\* a stream that is being made or is in use.
NoStreamLeak ==
  \A h \in streams : pc[h] \in {"inserted", "open", "closing"}

\* While the session lasts, a half whose peer has closed is told so.
CloseArrives ==
  \A h \in Halves :
    pc[h] = "open" /\ pc[Other(h)] \in {"closing", "done"} ~> eof[h]

=============================================================================
