------------------------------- MODULE Relay -------------------------------
(***************************************************************************)
(* The data plane of one connection: copy_bidirectional runs at the server *)
(* between the visitor's socket and the link, and at the client between    *)
(* the link and the target's socket, two copy_one_way threads at each end. *)
(* The link is a Data connection (TCP) wrapped by wrap_transport_stream:   *)
(* plain or snappy, where a write goes straight to the wire, or TLS, where *)
(* the two threads of an end share one TlsSharedState.  At the server it   *)
(* is metered by a counter that all connections of the client share.       *)
(*                                                                         *)
(* Chunks are what one read returns; those of a peer are numbered.  Bytes, *)
(* rate limits and the handshake (which one thread completes before the    *)
(* halves exist) are left out.                                             *)
(***************************************************************************)
EXTENDS Naturals, Sequences, FiniteSets

CONSTANTS
  Modes,     \* {TRUE}: link.crypt is set, {FALSE}: it is not, or both
  Limits,    \* flow limits of the client in chunks, 0 for none
  MaxUp,     \* bound: chunks the visitor sends
  MaxDown,   \* bound: chunks the target sends
  MaxFaults  \* bound: sockets reset and links cut

ASSUME RelayAssumption ==
  /\ Modes \subseteq BOOLEAN
  /\ Limits \subseteq Nat /\ MaxUp \in Nat /\ MaxDown \in Nat /\ MaxFaults \in Nat

Ends == {"server", "client"}
Dirs == {"up", "down"}    \* local socket to link, link to local socket
Threads == Ends \X Dirs
MaxSent(e) == IF e = "server" THEN MaxUp ELSE MaxDown
Labels == {"read", "write", "flush", "meter", "close", "closing", "shut", "fed", "done"}
Records == [n : Nat, v : Nat]   \* of TLS; without it only v is used
Other(e) == IF e = "server" THEN "client" ELSE "server"

VARIABLES
  crypt,    \* link.crypt of this connection
  limit,    \* RelayPolicy.flow_limit_mb of this connection
  peer,     \* the visitor and the target: "open", "shut" or "reset"
  sent,     \* number of chunks each has sent
  in,       \* what the relay has not read of it
  out,      \* what the relay has written to each
  told,     \* local sockets whose write side was shut down
  pc, buf,  \* the copy threads and the chunk each holds
  pend,     \* records of the rustls connection wanting to be written
  hold,     \* records a thread has taken from it
  seal,     \* next record number of each end
  wire,     \* records on their way from each end
  fin,      \* ends that have shut down the write side of the link
  open,     \* next record number the other end accepts
  plain,    \* chunks decrypted and not read
  broken,   \* the link was cut
  counter   \* FlowCounter of the client: inlet_flow + export_flow

policy == <<crypt, limit>>
locals == <<peer, sent, in, out, told>>
tls == <<pend, hold, seal, open, plain>>
link == <<wire, fin, broken>>
vars == <<crypt, limit, peer, sent, in, out, told, pc, buf, pend, hold, seal, wire,
          fin, open, plain, broken, counter>>

Init ==
  /\ crypt \in Modes /\ limit \in Limits
  /\ peer = [e \in Ends |-> "open"] /\ sent = [e \in Ends |-> 0]
  /\ in = [e \in Ends |-> <<>>] /\ out = [e \in Ends |-> <<>>]
  /\ told = {}
  /\ pc = [t \in Threads |-> "read"] /\ buf = [t \in Threads |-> 0]
  /\ pend = [e \in Ends |-> <<>>] /\ hold = [t \in Threads |-> <<>>]
  /\ seal = [e \in Ends |-> 1] /\ open = [e \in Ends |-> 1]
  /\ wire = [e \in Ends |-> <<>>] /\ fin = {}
  /\ plain = [e \in Ends |-> <<>>]
  /\ broken = FALSE
  /\ counter \in 0..limit

-----------------------------------------------------------------------------
(* copy_bidirectional returns when both threads have; only then are both   *)
(* streams dropped, which closes them.                                     *)
Returned(e) == \A d \in Dirs : pc[<<e, d>>] = "done"

(* The peer of an end is told that nothing more will come.                 *)
Told(e) == e \in told \/ Returned(e)
LinkEnded(e) == e \in fin \/ Returned(e)

(* Writing to the link may fail if it is cut or the other end is gone, but *)
(* TCP may also take what nobody will read; it does fail once this end has *)
(* shut down its side.                                                     *)
LinkFails(e) == broken \/ e \in fin \/ Returned(Other(e))
LinkTakes(e) == e \notin fin

(* Closing a socket with unread data resets it.                            *)
LinkReset(e) == broken \/ (Returned(e) /\ wire[Other(e)] # <<>>)

Goto(t, l) == pc' = [pc EXCEPT ![t] = l]

(* The lines a thread returns at without shutting anything down.           *)
Fails(t) ==
  /\ pc' = [pc EXCEPT ![t] = "done"]
  /\ hold' = [hold EXCEPT ![t] = <<>>]

-----------------------------------------------------------------------------
(* The visitor and the target.                                             *)
PeerSends(e) ==
  /\ peer[e] = "open" /\ sent[e] < MaxSent(e) /\ ~Returned(e)
  /\ sent' = [sent EXCEPT ![e] = @ + 1]
  /\ in' = [in EXCEPT ![e] = Append(@, sent[e] + 1)]
  /\ UNCHANGED <<policy, peer, out, told, pc, buf, tls, link, counter>>

PeerShuts(e) ==
  /\ peer[e] = "open"
  /\ peer' = [peer EXCEPT ![e] = "shut"]
  /\ UNCHANGED <<policy, sent, in, out, told, pc, buf, tls, link, counter>>

Failed == {e \in Ends : peer[e] = "reset"} \union (IF broken THEN {"link"} ELSE {})
MayFail == Cardinality(Failed) < MaxFaults

PeerResets(e) ==
  /\ MayFail /\ peer[e] # "reset" /\ ~Returned(e)
  /\ peer' = [peer EXCEPT ![e] = "reset"]
  /\ UNCHANGED <<policy, sent, in, out, told, pc, buf, tls, link, counter>>

LinkBreaks ==
  /\ MayFail /\ ~broken
  /\ broken' = TRUE
  /\ UNCHANGED <<policy, locals, pc, buf, tls, wire, fin, counter>>

(* Other connections of the client are metered by the same counter.        *)
OtherTraffic ==
  /\ counter < limit
  /\ counter' = counter + 1
  /\ UNCHANGED <<policy, locals, pc, buf, tls, link>>

-----------------------------------------------------------------------------
(* copy_one_way from the local socket to the link.                         *)
ReadLocal(e) ==
  LET t == <<e, "up">>
  IN /\ pc[t] = "read"
     /\ \/ /\ in[e] # <<>>
           /\ buf' = [buf EXCEPT ![t] = Head(in[e])]
           /\ in' = [in EXCEPT ![e] = Tail(@)]
           /\ Goto(t, "write")
           /\ UNCHANGED hold
        \/ /\ in[e] = <<>> /\ peer[e] = "shut"
           /\ Goto(t, "close")
           /\ UNCHANGED <<buf, in, hold>>
        \/ /\ peer[e] = "reset"
           /\ Fails(t)
           /\ UNCHANGED <<buf, in>>
     /\ UNCHANGED <<policy, peer, sent, out, told, pend, seal, open, plain, link, counter>>

(* rustls seals what is written, and the close_notify, in this order.      *)
Seal(e, v) ==
  /\ pend' = [pend EXCEPT ![e] = Append(@, [n |-> seal[e], v |-> v])]
  /\ seal' = [seal EXCEPT ![e] = @ + 1]

(* Mutant: a short write is repeated from the start of the buffer.         *)
Written_again(t) == <<[n |-> 0, v |-> buf[t]], [n |-> 0, v |-> buf[t]]>>

Written(t) == <<[n |-> 0, v |-> buf[t]]>>

(* The streams of the server are metered if the client has a flow limit.   *)
Metered(e) == e = "server" /\ limit > 0
AfterWrite(e) == IF Metered(e) THEN "meter" ELSE "read"
AfterRead(e) == IF Metered(e) THEN "meter" ELSE "write"

(* write_all: TlsWriteHalf::write only queues a record, the other writers  *)
(* write to the wire.                                                      *)
WriteLink(e) ==
  LET t == <<e, "up">>
  IN /\ pc[t] = "write"
     /\ \/ /\ crypt
           /\ Seal(e, buf[t])
           /\ Goto(t, "flush")
           /\ UNCHANGED <<wire, hold>>
        \/ /\ ~crypt /\ LinkFails(e)
           /\ Fails(t)
           /\ UNCHANGED <<pend, seal, wire>>
        \/ /\ ~crypt /\ LinkTakes(e)
           /\ wire' = [wire EXCEPT ![e] = @ \o Written(t)]
           /\ Goto(t, AfterWrite(e))
           /\ UNCHANGED <<pend, seal, hold>>
     /\ UNCHANGED <<policy, locals, buf, open, plain, fin, broken, counter>>

(* Mutant: the end of the local stream is not passed on.                   *)
CloseLink_silent(e) ==
  /\ pc[<<e, "up">>] = "close"
  /\ Goto(<<e, "up">>, "done")
  /\ UNCHANGED <<policy, locals, buf, tls, link, counter>>

(* shutdown_write after the end of the local stream.                       *)
CloseLink(e) ==
  LET t == <<e, "up">>
  IN /\ pc[t] = "close"
     /\ IF crypt
        THEN Seal(e, 0) /\ Goto(t, "closing") /\ UNCHANGED fin
        ELSE fin' = fin \union {e} /\ Goto(t, "done") /\ UNCHANGED <<pend, seal>>
     /\ UNCHANGED <<policy, locals, buf, hold, open, plain, wire, broken, counter>>

ShutLink(e) ==
  LET t == <<e, "up">>
  IN /\ pc[t] = "shut"
     /\ fin' = fin \union {e}
     /\ Goto(t, "done")
     /\ UNCHANGED <<policy, locals, buf, tls, wire, broken, counter>>

-----------------------------------------------------------------------------
(* flush_pending_tls, by either thread of an end: the records are taken    *)
(* under the lock of the connection and written under that of the writer.  *)
Flushing == {"flush", "closing", "fed"}
AfterFlush(e, l) ==
  CASE l = "flush" -> AfterWrite(e) [] l = "closing" -> "shut" [] l = "fed" -> "read"

TakePending(t) ==
  LET e == t[1]
  IN /\ pc[t] \in Flushing /\ hold[t] = <<>>
     /\ IF pend[e] = <<>>
        THEN Goto(t, AfterFlush(e, pc[t])) /\ UNCHANGED <<pend, hold>>
        ELSE /\ hold' = [hold EXCEPT ![t] = pend[e]]
             /\ pend' = [pend EXCEPT ![e] = <<>>]
             /\ UNCHANGED pc
     /\ UNCHANGED <<policy, locals, buf, seal, open, plain, link, counter>>

WriteTaken(t) ==
  LET e == t[1]
  IN /\ hold[t] # <<>>
     /\ \/ /\ LinkFails(e)
           /\ Fails(t)
           /\ UNCHANGED wire
        \/ /\ LinkTakes(e)
           /\ wire' = [wire EXCEPT ![e] = @ \o hold[t]]
           /\ hold' = [hold EXCEPT ![t] = <<>>]
           /\ UNCHANGED pc
     /\ UNCHANGED <<policy, locals, buf, pend, seal, open, plain, fin, broken, counter>>

-----------------------------------------------------------------------------
(* record_flow_counter, in the metered halves of the server, after the     *)
(* inner read or write has been done.                                      *)
(* Mutant: the limit is reported but not enforced.                         *)
Record_warns(t, next) ==
  /\ counter' = IF counter + 1 <= limit THEN counter + 1 ELSE counter
  /\ Goto(t, next)
  /\ UNCHANGED hold

Record(t, next) ==
  \/ /\ counter + 1 <= limit
     /\ counter' = counter + 1
     /\ Goto(t, next)
     /\ UNCHANGED hold
  \/ /\ counter + 1 > limit
     /\ Fails(t)
     /\ UNCHANGED counter

Meter(t) ==
  /\ pc[t] = "meter"
  /\ Record(t, IF t[2] = "up" THEN "read" ELSE "write")
  /\ UNCHANGED <<policy, locals, buf, pend, seal, open, plain, link>>

-----------------------------------------------------------------------------
(* A read of the link returns 0.                                           *)
(* Mutant: as soon as the other end has shut down.                         *)
AtEnd_early(e) == LinkEnded(Other(e))

AtEnd(e) == wire[Other(e)] = <<>> /\ LinkEnded(Other(e))

(* copy_one_way from the link to the local socket.  The next record of the *)
(* wire, through read_tls and process_new_packets if there is TLS; a       *)
(* record out of order does not decrypt.                                   *)
ReadWire(e) ==
  LET t == <<e, "down">>
      o == Other(e)
      r == Head(wire[o])
  IN /\ pc[t] = "read" /\ plain[e] = <<>>
     /\ \/ /\ wire[o] # <<>> /\ ~crypt
           /\ wire' = [wire EXCEPT ![o] = Tail(@)]
           /\ buf' = [buf EXCEPT ![t] = r.v]
           /\ Goto(t, AfterRead(e))
           /\ UNCHANGED <<open, plain, hold, told>>
        \/ /\ wire[o] # <<>> /\ crypt
           /\ wire' = [wire EXCEPT ![o] = Tail(@)]
           /\ IF r.n = open[o]
              THEN /\ open' = [open EXCEPT ![o] = @ + 1]
                   /\ plain' = [plain EXCEPT ![e] = IF r.v = 0 THEN @ ELSE Append(@, r.v)]
                   /\ Goto(t, "fed")
                   /\ UNCHANGED hold
              ELSE Fails(t) /\ UNCHANGED <<open, plain>>
           /\ UNCHANGED <<buf, told>>
        \/ /\ AtEnd(e)
           /\ told' = told \union {e}
           /\ Goto(t, "done")
           /\ UNCHANGED <<wire, buf, open, plain, hold>>
        \/ /\ LinkReset(o)
           /\ Fails(t)
           /\ UNCHANGED <<wire, buf, open, plain, told>>
     /\ UNCHANGED <<policy, peer, sent, in, out, pend, seal, fin, broken, counter>>

ReadPlain(e) ==
  LET t == <<e, "down">>
  IN /\ pc[t] = "read" /\ plain[e] # <<>>
     /\ buf' = [buf EXCEPT ![t] = Head(plain[e])]
     /\ plain' = [plain EXCEPT ![e] = Tail(@)]
     /\ Goto(t, AfterRead(e))
     /\ UNCHANGED <<policy, locals, pend, hold, seal, open, link, counter>>

WriteLocal(e) ==
  LET t == <<e, "down">>
  IN /\ pc[t] = "write"
     /\ IF peer[e] = "reset"
        THEN Fails(t) /\ UNCHANGED out
        ELSE /\ out' = [out EXCEPT ![e] = Append(@, buf[t])]
             /\ Goto(t, "read")
             /\ UNCHANGED hold
     /\ UNCHANGED <<policy, peer, sent, in, told, buf, pend, seal, open, plain, link, counter>>

-----------------------------------------------------------------------------
Copy(t) ==
  \/ t[2] = "up" /\ (ReadLocal(t[1]) \/ WriteLink(t[1]) \/ CloseLink(t[1]) \/ ShutLink(t[1]))
  \/ t[2] = "down" /\ (ReadWire(t[1]) \/ ReadPlain(t[1]) \/ WriteLocal(t[1]))
  \/ TakePending(t) \/ WriteTaken(t) \/ Meter(t)

Next ==
  \/ \E e \in Ends : PeerSends(e) \/ PeerShuts(e) \/ PeerResets(e)
  \/ LinkBreaks \/ OtherTraffic
  \/ \E t \in Threads : Copy(t)

Spec == Init /\ [][Next]_vars

(* The copy threads run, and a socket takes what is written to it (its     *)
(* peer reads, or there is room in the buffers).  No peer has to send      *)
(* anything or to close.                                                   *)
FairSpec == Spec /\ \A t \in Threads : WF_vars(Copy(t))

-----------------------------------------------------------------------------
TypeOK ==
  /\ crypt \in BOOLEAN /\ limit \in Nat
  /\ peer \in [Ends -> {"open", "shut", "reset"}] /\ sent \in [Ends -> Nat]
  /\ in \in [Ends -> Seq(Nat)] /\ out \in [Ends -> Seq(Nat)]
  /\ told \subseteq Ends
  /\ pc \in [Threads -> Labels] /\ buf \in [Threads -> Nat]
  /\ pend \in [Ends -> Seq(Records)] /\ hold \in [Threads -> Seq(Records)]
  /\ seal \in [Ends -> Nat] /\ open \in [Ends -> Nat]
  /\ wire \in [Ends -> Seq(Records)] /\ fin \subseteq Ends
  /\ plain \in [Ends -> Seq(Nat)]
  /\ broken \in BOOLEAN /\ counter \in Nat

(* What a peer receives is a prefix of what the other peer sent, whatever  *)
(* fails: nothing is left out, repeated or swapped by the four threads.    *)
InOrder ==
  \A e \in Ends : /\ Len(out[e]) <= sent[Other(e)]
                  /\ \A i \in 1..Len(out[e]) : out[e][i] = i

(* The end of the stream is passed on only after all of it: a peer whose   *)
(* stream was shut down by copy_one_way has everything the other sent      *)
(* before its own end, unless the other peer or the link was reset or the  *)
(* flow limit cut it short (without TLS).                                  *)
LimitHit == limit > 0 /\ counter = limit

EndAfterAll ==
  ~crypt => \A e \in told :
    \/ peer[Other(e)] = "shut" /\ Len(out[e]) = sent[Other(e)]
    \/ peer[Other(e)] = "reset" \/ peer[e] = "reset" \/ broken \/ LimitHit

(* The traffic of the connection beyond the limit is at most the chunk     *)
(* that was written before the counter refused it.                         *)
Passed == Len(out["server"]) + Len(out["client"])

LimitStops ==
  limit > 0 => Passed <= limit + 1

(* No copy thread is left behind: once both peers have closed, both ends   *)
(* return, whichever threads the limit or a record out of order has cut    *)
(* short before.  A peer that resets its socket and a link that is cut are *)
(* excepted: the thread that reads the link has no timeout.                *)
ClosedRelayEnds ==
  (\A e \in Ends : peer[e] = "shut")
    ~> \/ \A e \in Ends : Returned(e)
       \/ broken \/ \E e \in Ends : peer[e] = "reset"

=============================================================================
