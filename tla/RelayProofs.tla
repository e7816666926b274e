---------------------------- MODULE RelayProofs ----------------------------
(***************************************************************************)
(* Proofs about Relay: the order of the chunks, the end of the stream and  *)
(* the flow limit.  The invariant, and that the threads which copy to the  *)
(* link keep it, are in RelayUpProofs; here are the threads which copy     *)
(* from the link.                                                          *)
(***************************************************************************)
EXTENDS RelayUpProofs

-----------------------------------------------------------------------------
(* The thread that writes the local socket of x, likewise.                 *)
LEMMA DownStep ==
  ASSUME Inv, TypeOK', Onward, NEW x \in Ends,
         \A e \in Ends : QuietUp(e) /\ QuietIn(e),
         QuietDown(Other(x)), crypt \/ QuietLink(x),
         Sink(x)', Wired(x)', Opened(x)', EndOK(x)', Flow(x)',
         \A e \in Ends : crypt => InFlight(e)' \subseteq InFlight(e)
  PROVE  \A e \in Ends : EndInv(e)'
<1> DEFINE o == Other(x)
<1>1. o \in Ends /\ Other(o) = x /\ TypeOK /\ EndInv(x) /\ EndInv(o)
  BY Around, Zenon
<1>2. Taken(x) \in Int /\ Taken(o) \in Int
  BY <1>1, Numbers, Zenon
<1>3. Source(x)' /\ Source(o)'
  BY <1>1, SourceFrame, Zenon DEF EndInv
<1>4. Sealed(x)' /\ Sealed(o)'
  BY <1>1, <1>2, SealedFrame, Zenon DEF EndInv
<1>5. Sink(o)' /\ Opened(o)' /\ Flow(o)'
  BY <1>1, <1>2, SinkFrame, OpenedFrame, FlowFrame, Zenon DEF EndInv
<1>6. EndOK(o)'
  BY <1>1, EndOKFrame, Zenon DEF EndInv, QuietDown
<1>7. Wired(o)'
  <2>1. CASE crypt
    BY <2>1, Zenon DEF Wired, Onward
  <2>2. CASE QuietLink(x)
    BY <1>1, <2>2, WiredFrame DEF EndInv
  <2> QED BY <2>1, <2>2
<1>8. EndInv(x)' /\ EndInv(o)'
  BY <1>3, <1>4, <1>5, <1>6, <1>7, Zenon DEF EndInv
<1> QED BY <1>8, TwoEnds

LEMMA DownBeside ==
  ASSUME Inv, NEW x \in Ends,
         UNCHANGED <<sent, in, seal, fin>>, Other(x) \in told' <=> Other(x) \in told,
         \A u \in Threads : u # Down(x) => pc'[u] = pc[u] /\ buf'[u] = buf[u],
         out'[Other(x)] = out[Other(x)], plain'[Other(x)] = plain[Other(x)], open'[x] = open[x]
  PROVE  /\ \A e \in Ends : QuietUp(e) /\ QuietIn(e)
         /\ QuietDown(Other(x))
         /\ pc'[Up(Other(x))] = pc[Up(Other(x))] /\ Taken(Other(x))' = Taken(Other(x))
         /\ Hot(Other(x))' = Hot(Other(x)) /\ Taken(x)' = Taken(x) /\ Unmetered(x)' = Unmetered(x)
<1>1. \A e \in Ends : pc'[Up(e)] = pc[Up(e)] /\ buf'[Up(e)] = buf[Up(e)]
  BY FourThreads, Zenon
<1>2. \A e \in Ends : QuietUp(e) /\ QuietIn(e)
  BY <1>1, Zenon DEF QuietUp, QuietIn, Taken
<1>3. QuietDown(Other(x))
  BY Around, Zenon DEF QuietDown
<1>4. /\ pc'[Up(Other(x))] = pc[Up(Other(x))] /\ Taken(Other(x))' = Taken(Other(x))
      /\ Hot(Other(x))' = Hot(Other(x)) /\ Taken(x)' = Taken(x) /\ Unmetered(x)' = Unmetered(x)
  BY <1>1, Around, Zenon DEF Taken, Hot, Unmetered
<1> QED BY <1>2, <1>3, <1>4, Zenon

LEMMA FlushDoes ==
  ASSUME Inv, NEW x \in Ends, NEW t \in {Up(x), Down(x)}, TakePending(t) \/ WriteTaken(t)
  PROVE  /\ UNCHANGED <<crypt, limit, peer, sent, in, out, told, buf, seal, open, plain, fin, broken,
                        counter>>
         /\ \A u \in Threads : u # t => pc'[u] = pc[u] /\ hold'[u] = hold[u]
         /\ wire'[Other(x)] = wire[Other(x)] /\ pend'[Other(x)] = pend[Other(x)]
         /\ crypt /\ InFlight(x)' \subseteq InFlight(x)
         /\ \/ pc'[t] = pc[t] \/ pc'[t] = "done"
            \/ pc[t] \in Flushing /\ pc'[t] = AfterFlush(x, pc[t])
<1>1. t \in Threads /\ t[1] = x
  <2>1. Up(x) \in Threads /\ Down(x) \in Threads
    BY Around
  <2>2. Up(x)[1] = x /\ Down(x)[1] = x
    BY DEF Up, Down
  <2> QED BY <2>1, <2>2
<1>2. UNCHANGED <<crypt, limit, peer, sent, in, out, told, buf, seal, open, plain, fin, broken, counter>>
  BY Zenon DEF TakePending, WriteTaken, policy, locals, link
<1>3. /\ pend \in [Ends -> Seq(Records)] /\ wire \in [Ends -> Seq(Records)]
      /\ hold \in [Threads -> Seq(Records)] /\ pc \in [Threads -> Labels]
      /\ wire[x] \in Seq(Records) /\ hold[t] \in Seq(Records)
  BY <1>1, Around, Zenon DEF TypeOK
<1>4. \/ /\ pc[t] \in Flushing /\ Goto(t, AfterFlush(x, pc[t]))
         /\ pend' = pend /\ hold' = hold /\ wire' = wire
      \/ /\ pc[t] \in Flushing /\ pc' = pc /\ hold' = [hold EXCEPT ![t] = pend[x]]
         /\ pend' = [pend EXCEPT ![x] = <<>>] /\ wire' = wire
      \/ hold[t] # <<>> /\ Fails(t) /\ wire' = wire /\ pend' = pend
      \/ /\ hold[t] # <<>> /\ pc' = pc /\ hold' = [hold EXCEPT ![t] = <<>>]
         /\ wire' = [wire EXCEPT ![x] = wire[x] \o hold[t]] /\ pend' = pend
  BY <1>1, Zenon DEF TakePending, WriteTaken, link
<1>5. crypt
  <2>1. Wired(x) /\ Wired(Other(x)) /\ Sink(x) /\ Other(Other(x)) = x
    BY Around, Zenon DEF EndInv
  <2>2. CASE t = Up(x)
    BY <1>4, <2>1, <2>2, Zenon DEF Wired, Flushing
  <2>3. CASE t = Down(x)
    BY <1>4, <2>1, <2>3, Zenon DEF Wired, Flushing, Sink
  <2> QED BY <2>2, <2>3
<1>6. \A u \in Threads : u # t => pc'[u] = pc[u] /\ hold'[u] = hold[u]
  BY <1>1, <1>3, <1>4, Zenon DEF Goto, Fails
<1>7. wire'[Other(x)] = wire[Other(x)] /\ pend'[Other(x)] = pend[Other(x)]
  BY <1>3, <1>4, Around, Zenon
<1>8. InFlight(x)' \subseteq InFlight(x)
  <2>1. CASE pend' = pend /\ hold' = hold /\ wire' = wire
    BY <2>1, Zenon DEF InFlight
  <2>2. Elems(<<>>) = {} /\ Elems(wire[x] \o hold[t]) \subseteq Elems(wire[x]) \union Elems(hold[t])
    BY <1>3, ElemsOps
  <2>3. hold'[t] \in {hold[t], <<>>, pend[x]}
    BY <1>1, <1>3, <1>4, Zenon DEF Fails
  <2>4. /\ pend'[x] \in {pend[x], <<>>}
        /\ wire'[x] \in {wire[x], wire[x] \o hold[t]}
    BY <1>3, <1>4, Zenon
  <2>5. /\ Elems(hold'[t]) \subseteq Elems(hold[t]) \union Elems(pend[x])
        /\ Elems(pend'[x]) \subseteq Elems(pend[x])
        /\ Elems(wire'[x]) \subseteq Elems(wire[x]) \union Elems(hold[t])
    BY <2>2, <2>3, <2>4, Zenon
  <2>6. t = Up(x) => hold'[Down(x)] = hold[Down(x)]
    BY <1>6, Around, Zenon
  <2>7. t = Down(x) => hold'[Up(x)] = hold[Up(x)]
    BY <1>6, Around, Zenon
  <2> QED BY <2>5, <2>6, <2>7, Zenon DEF InFlight
<1>9. \/ pc'[t] = pc[t] \/ pc'[t] = "done"
      \/ pc[t] \in Flushing /\ pc'[t] = AfterFlush(x, pc[t])
  BY <1>1, <1>4, Around, MoveAt, Zenon
<1> QED BY <1>2, <1>5, <1>6, <1>7, <1>8, <1>9, Zenon


LEMMA InvFlushUp ==
  ASSUME Inv, TypeOK', Onward, NEW x \in Ends, TakePending(Up(x)) \/ WriteTaken(Up(x))
  PROVE  \A e \in Ends : EndInv(e)'
<1>1. /\ UNCHANGED <<crypt, limit, peer, sent, in, out, told, buf, seal, open, plain, fin, broken, counter>>
      /\ \A u \in Threads : u # Up(x) => pc'[u] = pc[u] /\ hold'[u] = hold[u]
      /\ wire'[Other(x)] = wire[Other(x)] /\ pend'[Other(x)] = pend[Other(x)]
      /\ crypt /\ InFlight(x)' \subseteq InFlight(x)
      /\ \/ pc'[Up(x)] = pc[Up(x)] \/ pc'[Up(x)] = "done"
         \/ pc[Up(x)] \in Flushing /\ pc'[Up(x)] = AfterFlush(x, pc[Up(x)])
  BY FlushDoes, Zenon
<1>2. UpMoves(x)
  BY <1>1, Zenon DEF UpMoves
<1>3. Source(x) /\ Taken(x)' = Taken(x)
  BY <1>2, Around, UpBeside, Zenon DEF EndInv
<1>4. \/ pc'[Up(x)] = pc[Up(x)] \/ pc'[Up(x)] = "done"
      \/ pc[Up(x)] = "flush" /\ pc'[Up(x)] = AfterWrite(x)
      \/ pc[Up(x)] = "closing" /\ pc'[Up(x)] = "shut"
  BY <1>1, <1>3 DEF Flushing, AfterFlush, Source
<1>5. Source(x)'
  <2>1. CASE pc'[Up(x)] = pc[Up(x)]
    BY <1>1, <1>3, <2>1, Zenon DEF Source, Metered
  <2>2. CASE \/ pc'[Up(x)] = "done"
             \/ pc[Up(x)] = "flush" /\ pc'[Up(x)] = AfterWrite(x)
             \/ pc[Up(x)] = "closing" /\ pc'[Up(x)] = "shut"
    <3>1. /\ pc'[Up(x)] \notin {"write", "fed"} /\ (pc'[Up(x)] = "meter" => Metered(x))
          /\ pc'[Up(x)] \in Closing => pc[Up(x)] \in Closing
      BY <2>2, Zenon DEF AfterWrite, Closing
    <3>2. pc'[Up(x)] \in Closing \/ x \in fin' => pc[Up(x)] \in Closing \/ x \in fin
      BY <1>1, <3>1, Zenon
    <3> QED BY <1>2, <3>1, <3>2, SourceMoves, Zenon
  <2> QED BY <1>4, <2>1, <2>2, Zenon
<1>6. Flow(x)'
  <2>1. Metered(x) => Unmetered(x)' >= Unmetered(x)
    BY <1>4 DEF Unmetered, AfterWrite
  <2> QED BY <1>1, <1>2, <2>1, FlowMoves, Zenon
<1>7. Wired(Other(x))'
  BY <1>1, Zenon DEF Wired
<1>8. pc[Up(x)] \in Ended => pc'[Up(x)] \in Ended
  BY <1>4, Zenon DEF Ended
<1>9. crypt /\ pc'[Up(x)] \notin Ended => Hot(x)' = Hot(x)
  BY <1>4, Zenon DEF Ended, Hot, AfterWrite
<1> QED BY <1>1, <1>2, <1>5, <1>6, <1>7, <1>8, <1>9, UpMoved, Zenon

LEMMA InvMeterUp ==
  ASSUME Inv, TypeOK', Onward, NEW x \in Ends, Meter(Up(x))
  PROVE  \A e \in Ends : EndInv(e)'
<1>1. /\ UNCHANGED <<crypt, limit, peer, sent, in, out, told, buf, pend, seal, open, plain, wire, fin, broken>>
      /\ pc[Up(x)] = "meter"
      /\ \/ counter + 1 <= limit /\ counter' = counter + 1 /\ Goto(Up(x), "read") /\ hold' = hold
         \/ counter + 1 > limit /\ Fails(Up(x)) /\ counter' = counter
  BY Zenon DEF Meter, Record, policy, locals, link, Up
<1>2. /\ \A u \in Threads : u # Up(x) => pc'[u] = pc[u] /\ hold'[u] = hold[u]
      /\ hold'[Up(x)] \in {hold[Up(x)], <<>>}
      /\ \/ counter + 1 <= limit /\ counter' = counter + 1 /\ pc'[Up(x)] = "read"
         \/ counter + 1 > limit /\ pc'[Up(x)] = "done" /\ counter' = counter
  BY <1>1, Around, MoveAt, Zenon
<1>3. UpMoves(x)
  BY <1>1, <1>2, Zenon DEF UpMoves
<1>4. Source(x)'
  BY <1>1, <1>2, <1>3, SourceMoves, Zenon DEF Closing
<1>5. /\ Metered(x) /\ limit > 0 /\ counter <= limit /\ counter \in Nat /\ limit \in Nat
      /\ Taken(x) + Len(out[x]) + Ahead(x) <= counter + 1
  <2>1. Source(x) /\ Flow(x)
    BY Around, Zenon DEF EndInv
  <2>2. Metered(x) /\ limit > 0
    BY <1>1, <2>1, Zenon DEF Source, Metered
  <2>3. Unmetered(x) = 1
    BY <1>1, Zenon DEF Unmetered
  <2>4. counter \in Nat /\ limit \in Nat
    BY Around, Numbers, Zenon
  <2> QED BY <2>1, <2>2, <2>3, <2>4 DEF Flow
<1>6. pc'[Up(x)] = "done" => LimitHit'
  BY <1>1, <1>2, <1>5 DEF LimitHit
<1>7. Flow(x)'
  <2>1. /\ Taken(x)' = Taken(x) /\ Ahead(x)' = Ahead(x) /\ out' = out /\ limit' = limit
        /\ Taken(x) \in Int /\ Len(out[x]) \in Nat /\ Ahead(x) \in {0, 1}
    <3>1. Taken(x)' = Taken(x) /\ Ahead(x)' = Ahead(x) /\ Taken(x) \in Int /\ Len(out[x]) \in Nat
      BY <1>3, Around, UpBeside, Numbers, Zenon
    <3> QED BY <1>1, <3>1, Zenon DEF Ahead
  <2>2. Unmetered(x)' = IF pc'[Up(x)] = "done" THEN 1 ELSE 0
    BY <1>2, Zenon DEF Unmetered
  <2>3. counter' <= limit
    BY <1>2, <1>5, Zenon
  <2>4. counter' + Unmetered(x)' = counter + 1
    BY <1>2, <1>5, <2>2
  <2> QED BY <1>5, <2>1, <2>3, <2>4 DEF Flow
<1>8. Wired(Other(x))'
  <2>1. CASE crypt
    BY <1>1, <2>1, Zenon DEF Wired
  <2>2. CASE ~crypt
    <3>1. x \notin fin
      <4>1. Wired(Other(x)) /\ Other(Other(x)) = x
        BY Around DEF EndInv
      <4> QED BY <1>1, <2>2, <4>1, Zenon DEF Wired
    <3> QED BY <1>1, <1>2, <1>3, <1>6, <2>2, <3>1, WiredMoves, Zenon
  <2> QED BY <2>1, <2>2
<1>9. InFlight(x)' \subseteq InFlight(x)
  <2>1. hold'[Down(x)] = hold[Down(x)]
    BY <1>2, Around, Zenon
  <2> QED BY <1>1, <1>2, <2>1, Around, FlightFrame, Zenon DEF QuietLink
<1>10. pc[Up(x)] \notin Ended /\ Hot(x)' = Hot(x)
  BY <1>1, <1>2, Zenon DEF Ended, Hot
<1> QED BY <1>1, <1>3, <1>4, <1>7, <1>8, <1>9, <1>10, UpMoved, Zenon

LEMMA InvFlushDown ==
  ASSUME Inv, TypeOK', Onward, NEW x \in Ends, TakePending(Down(x)) \/ WriteTaken(Down(x))
  PROVE  \A e \in Ends : EndInv(e)'
<1> DEFINE o == Other(x)
<1>1. /\ UNCHANGED <<crypt, limit, peer, sent, in, out, told, buf, seal, open, plain, fin, broken, counter>>
      /\ \A u \in Threads : u # Down(x) => pc'[u] = pc[u] /\ hold'[u] = hold[u]
      /\ wire'[o] = wire[o] /\ pend'[o] = pend[o]
      /\ crypt /\ InFlight(x)' \subseteq InFlight(x)
      /\ \/ pc'[Down(x)] = pc[Down(x)] \/ pc'[Down(x)] = "done"
         \/ pc[Down(x)] \in Flushing /\ pc'[Down(x)] = AfterFlush(x, pc[Down(x)])
  BY FlushDoes, Zenon
<1>2. /\ \A e \in Ends : QuietUp(e) /\ QuietIn(e)
      /\ QuietDown(o) /\ Taken(o)' = Taken(o) /\ Taken(x)' = Taken(x) /\ Unmetered(x)' = Unmetered(x)
      /\ pc'[Up(o)] = pc[Up(o)]
  BY <1>1, DownBeside, Zenon
<1>3. Sink(x) /\ Opened(x) /\ EndOK(x) /\ Flow(x) /\ o \in Ends /\ EndInv(o)
  BY Around, Zenon DEF EndInv
<1>4. \/ pc'[Down(x)] = pc[Down(x)] \/ pc'[Down(x)] = "done"
      \/ pc[Down(x)] = "fed" /\ pc'[Down(x)] = "read"
  BY <1>1, <1>3 DEF Flushing, AfterFlush, Sink
<1>5. /\ Got(x)' <= Got(x) /\ Held(x)' <= Held(x) /\ Held(x) \in {0, 1} /\ Held(x)' \in {0, 1}
      /\ Got(x) \in Nat /\ Got(x)' \in Nat /\ Taken(o) \in Int
      /\ pc'[Down(x)] # "done" => Got(x)' = Got(x) /\ Held(x)' = Held(x)
  <2>1. Held(x) \in {0, 1} /\ Held(x)' \in {0, 1}
    BY DEF Held
  <2>2. Held(x)' <= Held(x) /\ (pc'[Down(x)] # "done" => Held(x)' = Held(x))
    BY <1>4, <2>1 DEF Held
  <2>3. Len(out[x]) \in Nat /\ Taken(o) \in Int
    BY <1>3, Around, Numbers, Zenon
  <2>4. Got(x) = Len(out[x]) + Held(x) /\ Got(x)' = Len(out[x]) + Held(x)'
    BY <1>1, Zenon DEF Got
  <2> QED BY <2>1, <2>2, <2>3, <2>4
<1>6. Sink(x)'
  <2>1. Got(x)' <= Taken(o)
    BY <1>3, <1>5 DEF Sink
  <2>2. x \in told => pc'[Down(x)] = "done"
    BY <1>3, <1>4, Zenon DEF Sink
  <2>3. Held(x)' = 1 => Held(x) = 1
    BY <1>5
  <2>4. pc'[Down(x)] \in {"read", "meter", "write", "fed", "done"}
    BY <1>3, <1>4, Zenon DEF Sink
  <2> QED BY <1>1, <1>2, <1>3, <2>1, <2>2, <2>3, <2>4, Zenon DEF Sink
<1>7. Opened(x)'
  BY <1>1, <1>2, <1>3, <1>4, <1>5, Zenon DEF Opened
<1>8. EndOK(x)' /\ Wired(x)'
  BY <1>1, <1>3, Zenon DEF EndOK, Wired
<1>9. Flow(x)'
  <2>1. Ahead(x)' <= Ahead(x) /\ Ahead(x) \in {0, 1} /\ Ahead(x)' \in {0, 1} /\ Unmetered(x) \in {0, 1}
    BY <1>4 DEF Ahead, Unmetered
  <2>2. Len(out[x]) \in Nat /\ Taken(x) \in Int /\ counter \in Nat
    BY Around, Numbers, Zenon
  <2>3. Metered(x)' <=> Metered(x)
    BY <1>1, Zenon DEF Metered
  <2>4. Metered(x) => Taken(x) + Len(out[x]) + Ahead(x)' <= counter + Unmetered(x)
    BY <1>3, <2>1, <2>2 DEF Flow
  <2> QED BY <1>1, <1>2, <1>3, <2>3, <2>4, Zenon DEF Flow
<1>10. InFlight(o)' \subseteq InFlight(o)
  <2>1. hold'[Up(o)] = hold[Up(o)] /\ hold'[Down(o)] = hold[Down(o)]
    BY <1>1, Around, Zenon
  <2> QED BY <1>1, <2>1, Zenon DEF InFlight
<1>11. \A e \in Ends : InFlight(e)' \subseteq InFlight(e)
  BY <1>1, <1>10, TwoEnds, Zenon
<1> QED BY <1>1, <1>2, <1>6, <1>7, <1>8, <1>9, <1>11, DownStep, Zenon


(* When this thread returns, nothing is claimed of what is left.           *)
LEMMA DownDone ==
  ASSUME Inv, TypeOK', Onward, NEW x \in Ends,
         \A e \in Ends : QuietUp(e), pc'[Down(x)] = "done",
         out'[x] = out[x], plain'[x] = plain[x], open'[Other(x)] = open[Other(x)], counter' = counter,
         Wired(x) => (~crypt => /\ pend'[Other(x)] = <<>> /\ hold'[Up(Other(x))] = <<>>
                                /\ hold'[Down(Other(x))] = <<>>)
  PROVE  Sink(x)' /\ Wired(x)' /\ Opened(x)' /\ Flow(x)'
<1> DEFINE o == Other(x)
<1>1. /\ Sink(x) /\ Wired(x) /\ Opened(x) /\ Flow(x) /\ o \in Ends
      /\ Len(out[x]) \in Nat /\ Held(x) \in {0, 1} /\ Got(x) \in Nat /\ Taken(o) \in Int
      /\ Taken(x) \in Int /\ counter \in Nat
  BY Around, Numbers, Zenon DEF EndInv
<1>2. /\ Taken(o)' = Taken(o) /\ Taken(x)' = Taken(x) /\ seal'[o] = seal[o]
      /\ pc'[Up(o)] = pc[Up(o)] /\ pc'[Up(x)] = pc[Up(x)] /\ (o \in fin' <=> o \in fin)
  BY <1>1, Zenon DEF QuietUp
<1>3. Held(x)' = 0 /\ Got(x)' = Len(out[x]) /\ Got(x)' <= Got(x)
  <2>1. Held(x)' = 0
    BY Zenon DEF Held
  <2> QED BY <1>1, <2>1 DEF Got
<1>4. Sink(x)'
  <2>1. Got(x)' <= Taken(o)'
    BY <1>1, <1>2, <1>3 DEF Sink
  <2> QED BY <1>1, <1>3, <2>1 DEF Sink
<1>5. Wired(x)'
  BY <1>1, <1>2, Zenon DEF Wired, Onward
<1>6. Opened(x)'
  BY <1>1, <1>2, Zenon DEF Opened, Onward
<1>7. Flow(x)'
  <2>1. Ahead(x)' = 0 /\ Ahead(x) \in {0, 1} /\ Unmetered(x)' = Unmetered(x) /\ Unmetered(x) \in {0, 1}
    BY <1>2, Zenon DEF Ahead, Unmetered
  <2>2. (Metered(x)' <=> Metered(x)) /\ limit' = limit
    BY Zenon DEF Metered, Onward
  <2>3. Metered(x) => Taken(x) + Len(out[x]) + 0 <= counter + Unmetered(x)
    BY <1>1, <2>1 DEF Flow
  <2> QED BY <1>1, <1>2, <2>1, <2>2, <2>3, Zenon DEF Flow
<1> QED BY <1>4, <1>5, <1>6, <1>7, Zenon

(* What is under way does not grow by a step of this thread.               *)
LEMMA DownFlight ==
  ASSUME Inv, NEW x \in Ends, pend' = pend, wire'[x] = wire[x],
         Elems(wire'[Other(x)]) \subseteq Elems(wire[Other(x)]),
         hold'[Down(x)] \in {hold[Down(x)], <<>>},
         \A u \in Threads : u # Down(x) => hold'[u] = hold[u]
  PROVE  QuietLink(x) /\ \A e \in Ends : InFlight(e)' \subseteq InFlight(e)
<1>1. /\ hold'[Up(x)] = hold[Up(x)] /\ hold'[Up(Other(x))] = hold[Up(Other(x))]
      /\ hold'[Down(Other(x))] = hold[Down(Other(x))]
  BY Around, Zenon
<1>2. QuietLink(x)
  BY <1>1, Zenon DEF QuietLink
<1>3. InFlight(x)' \subseteq InFlight(x)
  BY <1>2, Around, FlightFrame, Zenon
<1>4. InFlight(Other(x))' \subseteq InFlight(Other(x))
  BY <1>1, Zenon DEF InFlight
<1> QED BY <1>2, <1>3, <1>4, TwoEnds, Zenon

LEMMA InvMeterDown ==
  ASSUME Inv, TypeOK', Onward, NEW x \in Ends, Meter(Down(x))
  PROVE  \A e \in Ends : EndInv(e)'
<1> DEFINE o == Other(x)
<1>1. /\ UNCHANGED <<crypt, limit, peer, sent, in, out, told, buf, pend, seal, open, plain, wire, fin, broken>>
      /\ pc[Down(x)] = "meter"
      /\ \/ counter + 1 <= limit /\ counter' = counter + 1 /\ Goto(Down(x), "write") /\ hold' = hold
         \/ counter + 1 > limit /\ Fails(Down(x)) /\ counter' = counter
  BY Zenon DEF Meter, Record, policy, locals, link, Down
<1>2. /\ \A u \in Threads : u # Down(x) => pc'[u] = pc[u] /\ hold'[u] = hold[u]
      /\ hold'[Down(x)] \in {hold[Down(x)], <<>>}
      /\ \/ counter + 1 <= limit /\ counter' = counter + 1 /\ pc'[Down(x)] = "write"
         \/ pc'[Down(x)] = "done" /\ counter' = counter
  BY <1>1, Around, MoveAt, Zenon
<1>3. /\ \A e \in Ends : QuietUp(e) /\ QuietIn(e)
      /\ QuietDown(o) /\ pc'[Up(o)] = pc[Up(o)] /\ Taken(o)' = Taken(o)
      /\ Hot(o)' = Hot(o) /\ Taken(x)' = Taken(x) /\ Unmetered(x)' = Unmetered(x)
  BY <1>1, <1>2, DownBeside, Zenon
<1>4. QuietLink(x) /\ \A e \in Ends : InFlight(e)' \subseteq InFlight(e)
  BY <1>1, <1>2, DownFlight, Zenon
<1>5. EndOK(x)'
  BY <1>1, Around, EndOKFrame, Zenon DEF EndInv
<1>6. hold'[Up(o)] = hold[Up(o)] /\ hold'[Down(o)] = hold[Down(o)]
  BY <1>2, Around, Zenon
<1>7. CASE pc'[Down(x)] = "done"
  <2>1. counter' = counter
    BY <1>2, <1>7, Zenon
  <2>2. Wired(x) => (~crypt => /\ pend'[o] = <<>> /\ hold'[Up(o)] = <<>> /\ hold'[Down(o)] = <<>>)
    BY <1>1, <1>6, Zenon DEF Wired
  <2>3. Sink(x)' /\ Wired(x)' /\ Opened(x)' /\ Flow(x)'
    BY <1>1, <1>3, <1>7, <2>1, <2>2, DownDone, Zenon
  <2> QED BY <1>3, <1>4, <1>5, <2>3, DownStep, Zenon
<1>8. CASE pc'[Down(x)] = "write"
  <2>1. Sink(x) /\ Wired(x) /\ Opened(x) /\ Flow(x) /\ counter \in Nat /\ limit \in Nat
        /\ Len(out[x]) \in Nat /\ Taken(x) \in Int
    BY Around, Numbers, Zenon DEF EndInv
  <2>2. Held(x) = 1 /\ Held(x)' = 1 /\ Got(x)' = Got(x) /\ Ahead(x) = 0 /\ Ahead(x)' = 1
    BY <1>1, <1>8, Zenon DEF Held, Got, Ahead
  <2>3. Sink(x)'
    BY <1>1, <1>3, <1>8, <2>1, <2>2, Zenon DEF Sink
  <2>4. Wired(x)'
    <3>1. LimitHit => LimitHit'
      BY Zenon DEF Onward
    <3> QED BY <1>1, <1>3, <1>6, <1>8, <2>1, <2>2, <3>1, Zenon DEF Wired
  <2>5. Opened(x)'
    BY <1>1, <1>3, <1>8, <2>1, <2>2, Zenon DEF Opened
  <2>6. Flow(x)'
    <3>1. counter' = counter + 1 /\ counter + 1 <= limit
      BY <1>2, <1>8, Zenon
    <3>2. Unmetered(x) \in {0, 1} /\ (Metered(x)' <=> Metered(x))
      BY <1>1, Zenon DEF Unmetered, Metered
    <3>3. Metered(x) => Taken(x) + Len(out[x]) + 1 <= counter + 1 + Unmetered(x)
      BY <2>1, <2>2, <3>2 DEF Flow
    <3> QED BY <1>1, <1>3, <2>2, <3>1, <3>2, <3>3, Zenon DEF Flow
  <2> QED BY <1>3, <1>4, <1>5, <2>3, <2>4, <2>5, <2>6, DownStep, Zenon
<1> QED BY <1>2, <1>7, <1>8, Zenon


LEMMA InvWriteLocal ==
  ASSUME Inv, TypeOK', Onward, NEW x \in Ends, WriteLocal(x)
  PROVE  \A e \in Ends : EndInv(e)'
<1> DEFINE o == Other(x)
<1>1. /\ UNCHANGED <<crypt, limit, peer, sent, in, told, buf, pend, seal, open, plain, wire, fin, broken, counter>>
      /\ pc[Down(x)] = "write"
      /\ \/ Fails(Down(x)) /\ out' = out
         \/ /\ out' = [out EXCEPT ![x] = Append(out[x], buf[Down(x)])]
            /\ Goto(Down(x), "read") /\ hold' = hold
  BY Zenon DEF WriteLocal, policy, link, Down
<1>2. out \in [Ends -> Seq(Nat)] /\ out[x] \in Seq(Nat) /\ buf[Down(x)] \in Nat
  BY Around, Zenon DEF TypeOK
<1>3. /\ \A u \in Threads : u # Down(x) => pc'[u] = pc[u] /\ hold'[u] = hold[u]
      /\ hold'[Down(x)] \in {hold[Down(x)], <<>>} /\ out'[o] = out[o]
      /\ \/ pc'[Down(x)] = "done" /\ out'[x] = out[x]
         \/ pc'[Down(x)] = "read" /\ out'[x] = Append(out[x], buf[Down(x)])
  <2>1. CASE Fails(Down(x)) /\ out' = out
    BY <2>1, Around, MoveAt, Zenon
  <2>2. CASE /\ out' = [out EXCEPT ![x] = Append(out[x], buf[Down(x)])]
             /\ Goto(Down(x), "read") /\ hold' = hold
    <3>1. out'[x] = Append(out[x], buf[Down(x)]) /\ out'[o] = out[o]
      BY <1>2, <2>2, Around, Zenon
    <3> QED BY <2>2, <3>1, Around, MoveAt
  <2> QED BY <1>1, <2>1, <2>2, Zenon
<1>4. /\ \A e \in Ends : QuietUp(e) /\ QuietIn(e)
      /\ QuietDown(o) /\ pc'[Up(o)] = pc[Up(o)] /\ Taken(o)' = Taken(o)
      /\ Hot(o)' = Hot(o) /\ Taken(x)' = Taken(x) /\ Unmetered(x)' = Unmetered(x)
  BY <1>1, <1>3, DownBeside, Zenon
<1>5. QuietLink(x) /\ \A e \in Ends : InFlight(e)' \subseteq InFlight(e)
  BY <1>1, <1>3, DownFlight, Zenon
<1>6. EndOK(x)'
  <2>1. Sink(x)
    BY Around, Zenon DEF EndInv
  <2>2. x \notin told'
    BY <1>1, <2>1, Zenon DEF Sink
  <2> QED BY <2>2, Zenon DEF EndOK
<1>7. hold'[Up(o)] = hold[Up(o)] /\ hold'[Down(o)] = hold[Down(o)]
  BY <1>3, Around, Zenon
<1>8. CASE pc'[Down(x)] = "done" /\ out'[x] = out[x]
  <2>1. Wired(x) => (~crypt => /\ pend'[o] = <<>> /\ hold'[Up(o)] = <<>> /\ hold'[Down(o)] = <<>>)
    BY <1>1, <1>7, Zenon DEF Wired
  <2>2. Sink(x)' /\ Wired(x)' /\ Opened(x)' /\ Flow(x)'
    BY <1>1, <1>4, <1>8, <2>1, DownDone, Zenon
  <2> QED BY <1>4, <1>5, <1>6, <2>2, DownStep, Zenon
<1>9. CASE pc'[Down(x)] = "read" /\ out'[x] = Append(out[x], buf[Down(x)])
  <2>1. Sink(x) /\ Wired(x) /\ Opened(x) /\ Flow(x) /\ counter \in Nat
        /\ Len(out[x]) \in Nat /\ Taken(x) \in Int
    BY Around, Numbers, Zenon DEF EndInv
  <2>2. Held(x) = 1 /\ Held(x)' = 0 /\ Ahead(x) = 1 /\ Ahead(x)' = 0
    BY <1>1, <1>9, Zenon DEF Held, Ahead
  <2>3. buf[Down(x)] = Len(out[x]) + 1
    BY <2>1, <2>2, Zenon DEF Sink
  <2>4. /\ Len(out'[x]) = Len(out[x]) + 1
        /\ \A i \in 1..Len(out[x]) : out'[x][i] = out[x][i]
        /\ out'[x][Len(out[x]) + 1] = buf[Down(x)]
    BY <1>2, <1>9, SeqAt
  <2>5. Got(x)' = Got(x)
    BY <2>1, <2>2, <2>4 DEF Got
  <2>6. Sink(x)'
    <3>1. \A i \in 1..Len(out'[x]) : out'[x][i] = i
      <4> TAKE i \in 1..Len(out'[x])
      <4>1. i \in 1..Len(out[x]) \/ i = Len(out[x]) + 1
        BY <2>1, <2>4
      <4> QED BY <2>1, <2>3, <2>4, <4>1, Zenon DEF Sink
    <3>2. ~(Held(x)' = 1)
      BY <2>2
    <3>3. Got(x)' <= Taken(o)' /\ x \notin told'
      BY <1>1, <1>4, <2>1, <2>5, Zenon DEF Sink
    <3> QED BY <1>9, <3>1, <3>2, <3>3, Zenon DEF Sink
  <2>7. Wired(x)'
    <3>1. LimitHit => LimitHit'
      BY Zenon DEF Onward
    <3> QED BY <1>1, <1>4, <1>7, <1>9, <2>1, <2>5, <3>1, Zenon DEF Wired
  <2>8. Opened(x)'
    BY <1>1, <1>4, <1>9, <2>1, <2>5, Zenon DEF Opened
  <2>9. Flow(x)'
    <3>1. Unmetered(x) \in {0, 1} /\ (Metered(x)' <=> Metered(x))
      BY <1>1, Zenon DEF Unmetered, Metered
    <3>2. Metered(x) => Taken(x) + (Len(out[x]) + 1) + 0 <= counter + Unmetered(x)
      BY <2>1, <2>2, <3>1 DEF Flow
    <3> QED BY <1>1, <1>4, <2>1, <2>2, <2>4, <3>1, <3>2, Zenon DEF Flow
  <2> QED BY <1>4, <1>5, <1>6, <2>6, <2>7, <2>8, <2>9, DownStep, Zenon
<1> QED BY <1>3, <1>8, <1>9, Zenon

LEMMA InvReadPlain ==
  ASSUME Inv, TypeOK', Onward, NEW x \in Ends, ReadPlain(x)
  PROVE  \A e \in Ends : EndInv(e)'
<1> DEFINE o == Other(x)
<1>1. /\ UNCHANGED <<crypt, limit, peer, sent, in, out, told, pend, hold, seal, open, wire, fin, broken, counter>>
      /\ pc[Down(x)] = "read" /\ plain[x] # <<>>
      /\ buf' = [buf EXCEPT ![Down(x)] = Head(plain[x])]
      /\ plain' = [plain EXCEPT ![x] = Tail(plain[x])]
      /\ Goto(Down(x), AfterRead(x))
  BY Zenon DEF ReadPlain, policy, locals, link, Down
<1>2. plain \in [Ends -> Seq(Nat)] /\ plain[x] \in Seq(Nat) /\ buf \in [Threads -> Nat]
  BY Around, Zenon DEF TypeOK
<1>3. /\ \A u \in Threads : u # Down(x) => pc'[u] = pc[u] /\ buf'[u] = buf[u]
      /\ plain'[o] = plain[o] /\ plain'[x] = Tail(plain[x])
      /\ buf'[Down(x)] = Head(plain[x]) /\ pc'[Down(x)] = AfterRead(x)
  <2>1. \A u \in Threads : u # Down(x) => pc'[u] = pc[u]
    BY <1>1, Around, MoveAt, Zenon
  <2>2. pc'[Down(x)] = AfterRead(x)
    BY <1>1, Around, MoveAt, Zenon
  <2> QED BY <1>1, <1>2, <2>1, <2>2, Around, Zenon
<1>4. /\ \A e \in Ends : QuietUp(e) /\ QuietIn(e)
      /\ QuietDown(o) /\ pc'[Up(o)] = pc[Up(o)] /\ Taken(o)' = Taken(o)
      /\ Hot(o)' = Hot(o) /\ Taken(x)' = Taken(x) /\ Unmetered(x)' = Unmetered(x)
  BY <1>1, <1>3, DownBeside, Zenon
<1>5. QuietLink(x) /\ \A e \in Ends : InFlight(e)' \subseteq InFlight(e)
  BY <1>1, DownFlight, Zenon
<1>6. /\ Sink(x) /\ Wired(x) /\ Opened(x) /\ Flow(x) /\ EndOK(x) /\ Len(out[x]) \in Nat
      /\ Taken(o) \in Int /\ Got(x) \in Nat
  BY Around, Numbers, Zenon DEF EndInv
<1>7. crypt /\ Wired(x)' /\ EndOK(x)'
  <2>1. crypt
    BY <1>1, <1>6, Zenon DEF Wired
  <2> QED BY <1>1, <2>1, Zenon DEF Wired, EndOK
<1>8. /\ Held(x) = 0 /\ Held(x)' = 1 /\ Got(x) = Len(out[x]) /\ Got(x)' = Got(x) + 1
      /\ pc'[Down(x)] \in {"meter", "write"}
  <2>1. pc'[Down(x)] \in {"meter", "write"}
    BY <1>3, Zenon DEF AfterRead
  <2>2. Held(x) = 0 /\ Held(x)' = 1
    BY <1>1, <2>1, Zenon DEF Held
  <2> QED BY <1>1, <1>6, <2>1, <2>2 DEF Got
<1>9. /\ Len(plain[x]) \in Nat /\ Len(plain[x]) >= 1 /\ Len(plain'[x]) = Len(plain[x]) - 1
      /\ Head(plain[x]) = plain[x][1]
      /\ \A i \in 1..Len(plain'[x]) : plain'[x][i] = plain[x][i + 1]
  BY <1>1, <1>2, <1>3, SeqAt
<1>10. /\ \A i \in 1..Len(plain[x]) : plain[x][i] = Got(x) + i
       /\ Got(x) + Len(plain[x]) <= Taken(o)
  BY <1>1, <1>6, <1>7, Zenon DEF Opened
<1>11. Sink(x)'
  <2>1. buf'[Down(x)] = Len(out[x]) + 1
    BY <1>3, <1>8, <1>9, <1>10
  <2>2. Got(x)' <= Taken(o)
    <3>1. Len(plain[x]) \in Nat /\ Len(plain[x]) >= 1 /\ Got(x) + Len(plain[x]) <= Taken(o)
      BY <1>9, <1>10, Zenon
    <3>2. Got(x) \in Nat /\ Got(x)' = Got(x) + 1 /\ Taken(o) \in Int
      BY <1>6, <1>8
    <3> HIDE DEF o
    <3> QED BY <3>1, <3>2
  <2>3. x \notin told
    BY <1>1, <1>6, Zenon DEF Sink
  <2> QED BY <1>1, <1>4, <1>6, <1>8, <2>1, <2>2, <2>3, Zenon DEF Sink
<1>12. Opened(x)'
  <2>1. \A i \in 1..Len(plain'[x]) : plain'[x][i] = Got(x)' + i
    <3> TAKE i \in 1..Len(plain'[x])
    <3>1. i + 1 \in 1..Len(plain[x]) /\ plain'[x][i] = plain[x][i + 1]
      BY <1>9
    <3>2. plain[x][i + 1] = Got(x) + (i + 1)
      BY <1>10, <3>1, Zenon
    <3>3. Got(x) \in Nat /\ Got(x)' = Got(x) + 1
      BY <1>6, <1>8
    <3> QED BY <3>1, <3>2, <3>3
  <2>2. Got(x)' + Len(plain'[x]) = Got(x) + Len(plain[x])
    <3>1. Got(x) \in Nat /\ Got(x)' = Got(x) + 1
      BY <1>6, <1>8
    <3>2. Len(plain[x]) \in Nat /\ Len(plain'[x]) = Len(plain[x]) - 1
      BY <1>9
    <3> QED BY <3>1, <3>2
  <2> QED BY <1>1, <1>4, <1>6, <2>1, <2>2, Zenon DEF Opened, Ended
<1>13. Flow(x)'
  <2>1. Metered(x) => Ahead(x)' = 0 /\ Ahead(x) = 0
    BY <1>1, <1>3, Zenon DEF AfterRead, Ahead
  <2> QED BY <1>1, <1>4, <1>6, <2>1, Zenon DEF Flow, Metered
<1> QED BY <1>4, <1>5, <1>7, <1>11, <1>12, <1>13, DownStep, Zenon


(* What a read of the wire has in common, whatever comes of it.            *)
LEMMA ReadWireDoes ==
  ASSUME Inv, NEW x \in Ends, ReadWire(x)
  PROVE  /\ UNCHANGED <<crypt, limit, peer, sent, in, out, pend, seal, fin, broken, counter>>
         /\ pc[Down(x)] = "read" /\ plain[x] = <<>>
         /\ \A e \in Ends : QuietUp(e) /\ QuietIn(e)
         /\ QuietDown(Other(x)) /\ QuietLink(x)
         /\ \A e \in Ends : InFlight(e)' \subseteq InFlight(e)
         /\ pc'[Up(Other(x))] = pc[Up(Other(x))] /\ Taken(Other(x))' = Taken(Other(x))
         /\ Hot(Other(x))' = Hot(Other(x)) /\ Taken(x)' = Taken(x) /\ Unmetered(x)' = Unmetered(x)
         /\ hold'[Up(Other(x))] = hold[Up(Other(x))] /\ hold'[Down(Other(x))] = hold[Down(Other(x))]
<1> DEFINE o == Other(x)
           r == Head(wire[o])
<1>1. /\ UNCHANGED <<crypt, limit, peer, sent, in, out, pend, seal, fin, broken, counter>>
      /\ pc[Down(x)] = "read" /\ plain[x] = <<>>
  BY Zenon DEF ReadWire, policy, Down
<1>2. /\ wire \in [Ends -> Seq(Records)] /\ wire[o] \in Seq(Records) /\ buf \in [Threads -> Nat]
      /\ open \in [Ends -> Nat] /\ plain \in [Ends -> Seq(Nat)]
  BY Around, Zenon DEF TypeOK
<1>3. /\ wire' = wire \/ (wire[o] # <<>> /\ wire' = [wire EXCEPT ![o] = Tail(wire[o])])
      /\ buf' = buf \/ buf' = [buf EXCEPT ![Down(x)] = r.v]
      /\ open' = open \/ open' = [open EXCEPT ![o] = open[o] + 1]
      /\ plain' = plain \/ plain' = [plain EXCEPT ![x] = IF r.v = 0 THEN plain[x] ELSE Append(plain[x], r.v)]
      /\ told' = told \/ told' = told \union {x}
      /\ \/ Fails(Down(x))
         \/ hold' = hold /\ \E l \in {AfterRead(x), "fed", "done"} : Goto(Down(x), l)
  BY Zenon DEF ReadWire, Down
<1>4. /\ \A u \in Threads : u # Down(x) => pc'[u] = pc[u] /\ hold'[u] = hold[u]
      /\ hold'[Down(x)] \in {hold[Down(x)], <<>>}
  <2>1. CASE Fails(Down(x))
    BY <2>1, Around, MoveAt, Zenon
  <2>2. CASE hold' = hold /\ \E l \in {AfterRead(x), "fed", "done"} : Goto(Down(x), l)
    BY <2>2, Around, MoveAt, Zenon
  <2> QED BY <1>3, <2>1, <2>2, Zenon
<1>5. \A u \in Threads : u # Down(x) => buf'[u] = buf[u]
  BY <1>2, <1>3, Zenon
<1>6. wire'[x] = wire[x] /\ wire'[o] \in {wire[o], Tail(wire[o])} /\ (wire'[o] # wire[o] => wire[o] # <<>>)
  BY <1>2, <1>3, Around, Zenon
<1>7. open'[x] = open[x] /\ plain'[o] = plain[o] /\ (o \in told' <=> o \in told)
  BY <1>2, <1>3, Around, Zenon
<1>8. Elems(wire'[o]) \subseteq Elems(wire[o])
  <2>1. wire[o] # <<>> => Elems(Tail(wire[o])) \subseteq Elems(wire[o])
    BY <1>2, ElemsOps
  <2>2. CASE wire'[o] = wire[o]
    BY <2>2, Zenon
  <2>3. CASE wire'[o] = Tail(wire[o]) /\ wire[o] # <<>>
    BY <2>1, <2>3, Zenon
  <2> QED BY <1>6, <2>2, <2>3, Zenon
<1>9. /\ \A e \in Ends : QuietUp(e) /\ QuietIn(e)
      /\ QuietDown(o) /\ pc'[Up(o)] = pc[Up(o)] /\ Taken(o)' = Taken(o)
      /\ Hot(o)' = Hot(o) /\ Taken(x)' = Taken(x) /\ Unmetered(x)' = Unmetered(x)
  BY <1>1, <1>4, <1>5, <1>7, DownBeside, Zenon
<1>10. QuietLink(x) /\ \A e \in Ends : InFlight(e)' \subseteq InFlight(e)
  BY <1>1, <1>4, <1>6, <1>8, DownFlight, Zenon
<1>11. hold'[Up(o)] = hold[Up(o)] /\ hold'[Down(o)] = hold[Down(o)]
  BY <1>4, Around, Zenon
<1> QED BY <1>1, <1>9, <1>10, <1>11, Zenon

LEMMA InvReadWire ==
  ASSUME Inv, TypeOK', Onward, NEW x \in Ends, ReadWire(x)
  PROVE  \A e \in Ends : EndInv(e)'
<1> DEFINE o == Other(x)
           r == Head(wire[o])
<1>1. /\ UNCHANGED <<crypt, limit, peer, sent, in, out, pend, seal, fin, broken, counter>>
      /\ pc[Down(x)] = "read" /\ plain[x] = <<>>
      /\ \A e \in Ends : QuietUp(e) /\ QuietIn(e)
      /\ QuietDown(o) /\ QuietLink(x)
      /\ \A e \in Ends : InFlight(e)' \subseteq InFlight(e)
      /\ pc'[Up(o)] = pc[Up(o)] /\ Taken(o)' = Taken(o) /\ Hot(o)' = Hot(o)
      /\ Taken(x)' = Taken(x) /\ Unmetered(x)' = Unmetered(x)
      /\ hold'[Up(o)] = hold[Up(o)] /\ hold'[Down(o)] = hold[Down(o)]
  BY ReadWireDoes, Zenon
<1>2. /\ Sink(x) /\ Wired(x) /\ Opened(x) /\ Flow(x) /\ EndOK(x) /\ Sealed(o) /\ Source(o)
      /\ o \in Ends /\ x \notin told
  <2>1. Sink(x) /\ Wired(x) /\ Opened(x) /\ Flow(x) /\ EndOK(x) /\ Sealed(o) /\ Source(o) /\ o \in Ends
    BY Around, Zenon DEF EndInv
  <2> QED BY <1>1, <2>1, Zenon DEF Sink
<1>3. /\ Len(out[x]) \in Nat /\ Taken(o) \in Int /\ Got(x) \in Nat /\ Len(wire[o]) \in Nat
      /\ seal[o] \in Nat /\ open[o] \in Nat /\ sent[o] \in Nat /\ Len(in[o]) \in Nat
      /\ Hot(o) \in {0, 1} /\ Taken(x) \in Int /\ counter \in Nat
  BY <1>2, Around, Numbers, Zenon
<1>4. /\ wire \in [Ends -> Seq(Records)] /\ wire[o] \in Seq(Records) /\ buf \in [Threads -> Nat]
      /\ open \in [Ends -> Nat] /\ plain \in [Ends -> Seq(Nat)]
  BY Around, Zenon DEF TypeOK
<1>5. Held(x) = 0 /\ Got(x) = Len(out[x]) /\ Ahead(x) = 0
  <2>1. Held(x) = 0 /\ Ahead(x) = 0
    BY <1>1, Zenon DEF Held, Ahead
  <2> QED BY <1>3, <2>1 DEF Got
<1>6. ASSUME pc'[Down(x)] = "done", plain' = plain, open' = open, EndOK(x)'
      PROVE  \A e \in Ends : EndInv(e)'
  <2>1. Wired(x) => (~crypt => /\ pend'[o] = <<>> /\ hold'[Up(o)] = <<>> /\ hold'[Down(o)] = <<>>)
    BY <1>1, Zenon DEF Wired
  <2>2. Sink(x)' /\ Wired(x)' /\ Opened(x)' /\ Flow(x)'
    BY <1>1, <1>6, <2>1, DownDone, Zenon
  <2> QED BY <1>1, <1>6, <2>2, DownStep, Zenon
<1>7. wire[o] # <<>> => /\ Len(wire[o]) >= 1 /\ Len(Tail(wire[o])) = Len(wire[o]) - 1
                        /\ r = wire[o][1] /\ r \in Elems(wire[o]) /\ r \in Records
                        /\ \A i \in 1..Len(Tail(wire[o])) : Tail(wire[o])[i] = wire[o][i + 1]
  <2>1. wire[o] # <<>> => /\ Len(wire[o]) >= 1 /\ Len(Tail(wire[o])) = Len(wire[o]) - 1
                          /\ r = wire[o][1]
                          /\ \A i \in 1..Len(Tail(wire[o])) : Tail(wire[o])[i] = wire[o][i + 1]
    BY <1>4, SeqAt
  <2>2. wire[o] # <<>> => r \in Elems(wire[o]) /\ r \in Records
    BY <1>4, ElemsOps, SeqOps
  <2> QED BY <2>1, <2>2, Zenon
<1>8. ASSUME wire[o] # <<>>, ~crypt, wire' = [wire EXCEPT ![o] = Tail(wire[o])],
             buf' = [buf EXCEPT ![Down(x)] = r.v], Goto(Down(x), AfterRead(x)),
             open' = open, plain' = plain, told' = told
      PROVE  \A e \in Ends : EndInv(e)'
  <2>1. pc'[Down(x)] = AfterRead(x) /\ pc'[Down(x)] \in {"meter", "write"}
    BY <1>8, Around, MoveAt, Zenon DEF AfterRead
  <2>2. wire'[o] = Tail(wire[o]) /\ buf'[Down(x)] = r.v
    BY <1>2, <1>4, <1>8, Around, Zenon
  <2>3. /\ \A i \in 1..Len(wire[o]) : wire[o][i].v = Got(x) + i
        /\ Got(x) + Len(wire[o]) <= Taken(o) - Hot(o)
        /\ pc[Up(o)] # "done" \/ o \in fin => Got(x) + Len(wire[o]) = Taken(o) - Hot(o)
    BY <1>1, <1>2, <1>8, Zenon DEF Wired
  <2>4. Held(x)' = 1 /\ Got(x)' = Got(x) + 1
    <3>1. Held(x)' = 1
      BY <2>1 DEF Held
    <3> QED BY <1>1, <1>3, <1>5, <3>1, Zenon DEF Got
  <2>5. Len(wire[o]) >= 1 /\ Len(wire'[o]) = Len(wire[o]) - 1 /\ r.v = Got(x) + 1
    <3>1. Len(wire[o]) >= 1 /\ Len(wire'[o]) = Len(wire[o]) - 1 /\ r = wire[o][1]
      BY <1>7, <1>8, <2>2, Zenon
    <3>2. 1 \in 1..Len(wire[o])
      BY <1>3, <3>1
    <3> QED BY <2>3, <3>1, <3>2, Zenon
  <2>6. Sink(x)'
    <3>1. Got(x)' <= Taken(o)
      <4>1. Got(x) + Len(wire[o]) <= Taken(o) - Hot(o) /\ Len(wire[o]) >= 1
        BY <2>3, <2>5, Zenon
      <4> HIDE DEF o
      <4> QED BY <1>3, <2>4, <4>1
    <3>2. buf'[Down(x)] = Len(out[x]) + 1
      BY <1>5, <2>2, <2>5, Zenon
    <3> QED BY <1>1, <1>2, <1>8, <2>1, <3>1, <3>2, Zenon DEF Sink
  <2>7. Wired(x)'
    <3>1. \A i \in 1..Len(wire'[o]) : wire'[o][i].v = Got(x)' + i
      <4> TAKE i \in 1..Len(wire'[o])
      <4>1. i + 1 \in 1..Len(wire[o]) /\ wire'[o][i] = wire[o][i + 1]
        BY <1>3, <1>7, <1>8, <2>2, <2>5
      <4>2. wire[o][i + 1].v = Got(x) + (i + 1)
        BY <2>3, <4>1, Zenon
      <4>3. Got(x) \in Nat /\ Got(x)' = Got(x) + 1
        BY <1>3, <2>4, Zenon
      <4> QED BY <4>1, <4>2, <4>3
    <3>2. Got(x)' + Len(wire'[o]) = Got(x) + Len(wire[o])
      <4>1. Got(x) \in Nat /\ Got(x)' = Got(x) + 1
        BY <1>3, <2>4, Zenon
      <4>2. Len(wire[o]) \in Nat /\ Len(wire'[o]) = Len(wire[o]) - 1
        BY <1>3, <2>5, Zenon
      <4> QED BY <4>1, <4>2
    <3>3. LimitHit => LimitHit'
      BY Zenon DEF Onward
    <3> QED BY <1>1, <1>2, <1>8, <2>1, <2>3, <3>1, <3>2, <3>3, Zenon DEF Wired
  <2>8. Opened(x)' /\ EndOK(x)'
    BY <1>1, <1>2, <1>8, Zenon DEF Opened, EndOK
  <2>9. Flow(x)'
    <3>1. Metered(x) => Ahead(x)' = 0
      BY <2>1 DEF AfterRead, Ahead
    <3> QED BY <1>1, <1>2, <1>5, <3>1, Zenon DEF Flow, Metered
  <2> QED BY <1>1, <2>6, <2>7, <2>8, <2>9, DownStep, Zenon
<1>9. ASSUME wire[o] # <<>>, crypt, r.n = open[o], wire' = [wire EXCEPT ![o] = Tail(wire[o])],
             open' = [open EXCEPT ![o] = open[o] + 1],
             plain' = [plain EXCEPT ![x] = IF r.v = 0 THEN plain[x] ELSE Append(plain[x], r.v)],
             Goto(Down(x), "fed"), buf' = buf, told' = told
      PROVE  \A e \in Ends : EndInv(e)'
  <2>1. pc'[Down(x)] = "fed"
    BY <1>9, Around, MoveAt, Zenon
  <2>2. open'[o] = open[o] + 1 /\ plain'[x] = IF r.v = 0 THEN <<>> ELSE Append(<<>>, r.v)
    BY <1>1, <1>2, <1>4, <1>9, Zenon
  <2>3. r.n \in Nat /\ r.v \in Nat /\ RecordOK(o, r)
    <3>1. r \in InFlight(o) /\ r \in Records
      BY <1>7, <1>9, Zenon DEF InFlight
    <3> QED BY <1>2, <1>9, <3>1, Zenon DEF Sealed, Records
  <2>4. Held(x)' = 0 /\ Got(x)' = Got(x) /\ Ahead(x)' = 0
    <3>1. Held(x)' = 0 /\ Ahead(x)' = 0
      BY <2>1, Zenon DEF Held, Ahead
    <3> QED BY <1>1, <1>5, <3>1, Zenon DEF Got
  <2>5. /\ 1 <= open[o] /\ open[o] <= seal[o]
        /\ Got(x) <= Taken(o)
        /\ \/ Got(x) + 1 = open[o]
           \/ Got(x) + 2 = open[o] /\ open[o] = seal[o] /\ pc[Up(o)] \in Ended
    <3>1. Got(x) + Len(plain[x]) = Got(x)
      BY <1>1, <1>3, NoneMore, Zenon
    <3>2. pc[Down(x)] # "done"
      BY <1>1, Zenon
    <3> QED BY <1>2, <1>9, <3>1, <3>2, Zenon DEF Opened
  <2>6. /\ open[o] < seal[o] /\ Got(x) + 1 = open[o]
        /\ \/ r.v = open[o] /\ open[o] <= Taken(o)
           \/ r.v = 0 /\ open[o] + 1 = seal[o] /\ pc[Up(o)] \in Ended
    <3>1. /\ open[o] < seal[o]
          /\ \/ r.v = open[o] /\ open[o] <= Taken(o)
             \/ r.v = 0 /\ open[o] + 1 = seal[o] /\ pc[Up(o)] \in Ended
      BY <1>9, <2>3, Zenon DEF RecordOK
    <3>2. open[o] \in Nat /\ seal[o] \in Nat
      BY <1>3, Zenon
    <3>3. open[o] # seal[o]
      BY <3>1, <3>2
    <3> QED BY <2>5, <3>1, <3>3, Zenon
  <2>7. Opened(x)'
    <3>1. 1 <= open'[o] /\ open'[o] <= seal'[o]
      <4>1. open'[o] = open[o] + 1 /\ seal'[o] = seal[o] /\ open[o] < seal[o]
        BY <1>1, <2>2, <2>6, Zenon
      <4>2. open[o] \in Nat /\ seal[o] \in Nat
        BY <1>3, Zenon
      <4> HIDE DEF o
      <4> QED BY <4>1, <4>2
    <3>2. CASE r.v = open[o] /\ open[o] <= Taken(o)
      <4>1. plain'[x] = <<open[o]>>
        BY <1>3, <2>2, <2>5, <3>2
      <4>2. Len(plain'[x]) = 1 /\ plain'[x][1] = open[o]
        BY <4>1
      <4>3. \A i \in 1..Len(plain'[x]) : plain'[x][i] = Got(x)' + i
        BY <1>3, <2>4, <2>6, <4>2
      <4>4. Got(x)' + Len(plain'[x]) <= Taken(o)' /\ Got(x)' + Len(plain'[x]) + 1 = open'[o]
        BY <1>1, <1>3, <2>2, <2>4, <2>6, <3>2, <4>2, Zenon
      <4> QED BY <3>1, <4>3, <4>4, Zenon DEF Opened
    <3>3. CASE r.v = 0 /\ open[o] + 1 = seal[o] /\ pc[Up(o)] \in Ended
      <4>1. plain'[x] = <<>> /\ Len(plain'[x]) = 0
        BY <2>2, <3>3
      <4>2. Got(x)' + Len(plain'[x]) <= Taken(o)' /\ Got(x)' + Len(plain'[x]) + 2 = open'[o]
            /\ open'[o] = seal'[o] /\ pc'[Up(o)] \in Ended
        <5>1. /\ Got(x)' = Got(x) /\ Taken(o)' = Taken(o) /\ Got(x) <= Taken(o) /\ Len(plain'[x]) = 0
              /\ Got(x) + 1 = open[o] /\ open'[o] = open[o] + 1 /\ open[o] + 1 = seal[o]
              /\ seal'[o] = seal[o]
          BY <1>1, <2>2, <2>4, <2>5, <2>6, <3>3, <4>1, Zenon
        <5>2. Got(x) \in Nat /\ open[o] \in Nat /\ Taken(o) \in Int
          BY <1>3, Zenon
        <5>3. pc'[Up(o)] \in Ended
          BY <1>1, <3>3, Zenon
        <5> HIDE DEF o
        <5> QED BY <5>1, <5>2, <5>3
      <4> QED BY <3>1, <4>1, <4>2 DEF Opened
    <3> QED BY <2>6, <3>2, <3>3, Zenon
  <2>8. Sink(x)'
    <3>1. ~(Held(x)' = 1)
      BY <2>4
    <3> QED BY <1>1, <1>2, <1>9, <2>1, <2>4, <2>5, <3>1, Zenon DEF Sink
  <2>9. Wired(x)' /\ EndOK(x)'
    BY <1>1, <1>9, Zenon DEF Wired, EndOK
  <2>10. Flow(x)'
    BY <1>1, <1>2, <1>5, <2>4, Zenon DEF Flow, Metered
  <2> QED BY <1>1, <2>7, <2>8, <2>9, <2>10, DownStep, Zenon
<1>10. ASSUME Fails(Down(x)), open' = open, plain' = plain, told' = told
       PROVE  \A e \in Ends : EndInv(e)'
  <2>1. pc'[Down(x)] = "done"
    BY <1>10, Around, MoveAt, Zenon
  <2>2. EndOK(x)'
    BY <1>2, <1>10, Zenon DEF EndOK
  <2> QED BY <1>6, <1>10, <2>1, <2>2, Zenon
<1>11. ASSUME AtEnd(x), told' = told \union {x}, Goto(Down(x), "done"), open' = open, plain' = plain
       PROVE  \A e \in Ends : EndInv(e)'
  <2>1. pc'[Down(x)] = "done"
    BY <1>11, Around, MoveAt, Zenon
  <2>2. wire[o] = <<>> /\ (o \in fin \/ pc[Up(o)] = "done")
    BY <1>11, Zenon DEF AtEnd, LinkEnded, Returned, Dirs, Up
  <2>3. EndOK(x)'
    <3> SUFFICES ASSUME ~crypt
                 PROVE  \/ peer[o] = "shut" /\ Len(out[x]) = sent[o]
                        \/ peer[o] = "reset" \/ broken \/ LimitHit
      BY <1>1, Zenon DEF EndOK, LimitHit
    <3>1. CASE o \in fin
      <4>1. in[o] = <<>> /\ peer[o] # "open"
        BY <1>2, <3>1, Zenon DEF Source
      <4>2. Taken(o) = sent[o]
        BY <1>3, <4>1 DEF Taken
      <4>3. pc[Up(o)] = "done"
        BY <1>2, <3>1, Zenon DEF Wired
      <4>4. Hot(o) = 0
        BY <4>3 DEF Hot
      <4>5. Got(x) + Len(wire[o]) = Taken(o) - Hot(o) /\ Len(wire[o]) = 0
        BY <1>1, <1>2, <2>2, <3>1, Zenon DEF Wired
      <4>6. Len(out[x]) = sent[o]
        <5>1. /\ Got(x) = Len(out[x]) /\ Got(x) \in Nat /\ Got(x) + 0 = Taken(o) - 0
              /\ Taken(o) = sent[o] /\ Taken(o) \in Int
          BY <1>3, <1>5, <4>2, <4>4, <4>5, Zenon
        <5> HIDE DEF o
        <5> QED BY <5>1
      <4>7. peer[o] \in {"open", "shut", "reset"}
        BY <1>2, Around, Zenon DEF TypeOK
      <4> QED BY <4>1, <4>6, <4>7, Zenon
    <3>2. CASE o \notin fin
      BY <1>1, <1>2, <2>2, <3>2, Zenon DEF Wired
    <3> QED BY <3>1, <3>2, Zenon
  <2> QED BY <1>6, <1>11, <2>1, <2>3
<1>12. \/ /\ wire[o] # <<>> /\ ~crypt /\ wire' = [wire EXCEPT ![o] = Tail(wire[o])]
          /\ buf' = [buf EXCEPT ![Down(x)] = r.v] /\ Goto(Down(x), AfterRead(x))
          /\ open' = open /\ plain' = plain /\ told' = told
       \/ /\ wire[o] # <<>> /\ crypt /\ r.n = open[o] /\ wire' = [wire EXCEPT ![o] = Tail(wire[o])]
          /\ open' = [open EXCEPT ![o] = open[o] + 1]
          /\ plain' = [plain EXCEPT ![x] = IF r.v = 0 THEN plain[x] ELSE Append(plain[x], r.v)]
          /\ Goto(Down(x), "fed") /\ buf' = buf /\ told' = told
       \/ Fails(Down(x)) /\ open' = open /\ plain' = plain /\ told' = told
       \/ /\ AtEnd(x) /\ told' = told \union {x} /\ Goto(Down(x), "done") /\ open' = open
          /\ plain' = plain
  BY Zenon DEF ReadWire, Down
<1> QED BY <1>8, <1>9, <1>10, <1>11, <1>12, Zenon

-----------------------------------------------------------------------------
LEMMA InvNext ==
  ASSUME Inv, [Next]_vars
  PROVE  Inv'
<1>1. CASE Next
  <2>1. TypeOK /\ TypeOK' /\ Onward
    BY <1>1, TypeNext, OnwardNext DEF Inv
  <2>2. ASSUME NEW x \in Ends, PeerSends(x) \/ PeerShuts(x) \/ PeerResets(x)
        PROVE  \A e \in Ends : EndInv(e)'
    BY <2>1, <2>2, InvPeerSends, InvPeers
  <2>3. CASE LinkBreaks \/ OtherTraffic
    <3>1. "server" \in Ends
      BY DEF Ends
    <3>2. \A e \in Ends : EndInv(e)'
      BY <2>1, <2>3, <3>1, InvPeers
    <3> QED BY <2>1, <3>2 DEF Inv
  <2>4. ASSUME NEW t \in Threads, Copy(t) PROVE \A e \in Ends : EndInv(e)'
    <3> DEFINE x == t[1]
    <3>1. x \in Ends /\ ((t = Up(x) /\ t[2] # "down") \/ (t = Down(x) /\ t[2] # "up"))
      <4>1. x \in Ends /\ (t = Up(x) \/ t = Down(x)) /\ t = <<t[1], t[2]>>
        BY FourThreads, Zenon
      <4> QED BY <4>1 DEF Up, Down
    <3>2. CASE t = Up(x) /\ t[2] # "down"
      <4>1. \/ ReadLocal(x) \/ WriteLink(x) \/ CloseLink(x) \/ ShutLink(x)
            \/ TakePending(Up(x)) \/ WriteTaken(Up(x)) \/ Meter(Up(x))
        BY <2>4, <3>2, Zenon DEF Copy
      <4> HIDE DEF x
      <4> QED BY <2>1, <3>1, <4>1, InvReadLocal, InvWriteLink, InvCloseLink, InvShutLink,
                 InvFlushUp, InvMeterUp, Zenon
    <3>3. CASE t = Down(x) /\ t[2] # "up"
      <4>1. \/ ReadWire(x) \/ ReadPlain(x) \/ WriteLocal(x)
            \/ TakePending(Down(x)) \/ WriteTaken(Down(x)) \/ Meter(Down(x))
        BY <2>4, <3>3, Zenon DEF Copy
      <4> HIDE DEF x
      <4> QED BY <2>1, <3>1, <4>1, InvReadWire, InvReadPlain, InvWriteLocal, InvFlushDown,
                 InvMeterDown, Zenon
    <3> QED BY <3>1, <3>2, <3>3, Zenon
  <2> QED BY <1>1, <2>1, <2>2, <2>3, <2>4 DEF Next, Inv
<1>2. CASE UNCHANGED vars
  <2>1. UNCHANGED <<crypt, limit, peer, sent, in, out, told, pc, buf, pend, hold, seal, wire,
                    fin, open, plain, broken, counter>>
    BY <1>2, Zenon DEF vars
  <2>2. TypeOK' /\ Onward
    <3>1. TypeOK' /\ counter \in Nat
      BY TypeNext, Zenon DEF Inv, TypeOK
    <3> QED BY <2>1, <3>1 DEF Onward, LimitHit
  <2>3. \A e \in Ends : QuietUp(e) /\ QuietIn(e) /\ QuietDown(e) /\ QuietLink(e)
    BY <2>1, Zenon DEF QuietUp, QuietIn, QuietDown, QuietLink, Taken
  <2> QED BY <2>2, <2>3, TwoEnds, Frame, Zenon DEF Inv
<1> QED BY <1>1, <1>2

(* The invariant holds in every state of the relay.                        *)
LEMMA InvAlways == Spec => []Inv
<1>1. Init => Inv
  BY InvInit
<1>2. Inv /\ [Next]_vars => Inv'
  BY InvNext
<1> QED BY <1>1, <1>2, PTL DEF Spec

(* What a peer receives is a prefix of what the other peer sent, with and  *)
(* without TLS, whatever the four copy threads, the resets and the flow    *)
(* limit do, for any number of chunks.                                     *)
THEOREM InOrderAlways == Spec => []InOrder
<1>1. Inv => InOrder
  <2> SUFFICES ASSUME Inv, NEW e \in Ends
               PROVE  /\ Len(out[e]) <= sent[Other(e)]
                      /\ \A i \in 1..Len(out[e]) : out[e][i] = i
    BY Zenon DEF InOrder
  <2> DEFINE o == Other(e)
  <2>1. o \in Ends /\ Sink(e) /\ TypeOK
    BY TwoEnds, Zenon DEF Inv, EndInv
  <2>2. /\ Len(out[e]) \in Nat /\ Held(e) \in {0, 1} /\ Taken(o) \in Int /\ sent[o] \in Nat
        /\ Len(in[o]) \in Nat
    BY <2>1, Numbers, Zenon
  <2>3. Len(out[e]) + Held(e) <= Taken(o) /\ Taken(o) = sent[o] - Len(in[o])
    BY <2>1, Zenon DEF Sink, Got, Taken
  <2>4. \A i \in 1..Len(out[e]) : out[e][i] = i
    BY <2>1, Zenon DEF Sink
  <2> HIDE DEF o
  <2>5. Len(out[e]) <= sent[o]
    BY <2>2, <2>3
  <2> QED BY <2>4, <2>5, Zenon DEF o
<1> QED BY <1>1, InvAlways, PTL

(* Without TLS copy_one_way shuts a socket down only after everything the  *)
(* other peer sent, unless a socket, the link or the limit cut it short.   *)
THEOREM EndAfterAllAlways == Spec => []EndAfterAll
<1>1. Inv => EndAfterAll
  <2> SUFFICES ASSUME Inv, ~crypt, NEW e \in told
               PROVE  \/ peer[Other(e)] = "shut" /\ Len(out[e]) = sent[Other(e)]
                      \/ peer[Other(e)] = "reset" \/ peer[e] = "reset" \/ broken \/ LimitHit
    BY Zenon DEF EndAfterAll
  <2>1. e \in Ends
    BY Zenon DEF Inv, TypeOK
  <2> QED BY <2>1, Zenon DEF Inv, EndInv, EndOK
<1> QED BY <1>1, InvAlways, PTL

(* The traffic of a metered connection passes the limit by at most the     *)
(* chunk that record_flow_counter refused after it was written.            *)
THEOREM LimitStopsAlways == Spec => []LimitStops
<1>1. Inv => LimitStops
  <2> SUFFICES ASSUME Inv, limit > 0
               PROVE  Len(out["server"]) + Len(out["client"]) <= limit + 1
    BY Zenon DEF LimitStops, Passed
  <2>1. "server" \in Ends /\ "client" \in Ends /\ Other("client") = "server" /\ TypeOK
    BY Zenon DEF Ends, Other, Inv
  <2>2. Flow("server") /\ Sink("client")
    BY <2>1, Zenon DEF Inv, EndInv
  <2>3. /\ counter <= limit
        /\ Taken("server") + Len(out["server"]) + Ahead("server") <= counter + Unmetered("server")
    BY <2>2 DEF Flow, Metered
  <2>4. Len(out["client"]) + Held("client") <= Taken("server")
    BY <2>1, <2>2, Zenon DEF Sink, Got
  <2>5. Ahead("server") \in {0, 1} /\ Unmetered("server") \in {0, 1} /\ Held("client") \in {0, 1}
    BY Zenon DEF Ahead, Unmetered, Held
  <2>6. /\ Taken("server") \in Int /\ Len(out["server"]) \in Nat /\ Len(out["client"]) \in Nat
        /\ counter \in Nat /\ limit \in Nat
    BY <2>1, Numbers, Zenon
  <2>7. Len(out["client"]) <= Taken("server")
    BY <2>4, <2>5, <2>6
  <2>8. Taken("server") + Len(out["server"]) <= limit + 1
    BY <2>3, <2>5, <2>6
  <2> DEFINE up == Len(out["client"])
             down == Len(out["server"])
             taken == Taken("server")
  <2>9. up \in Int /\ down \in Int /\ taken \in Int /\ limit \in Int
    BY <2>6
  <2>10. up <= taken /\ taken + down <= limit + 1
    BY <2>7, <2>8
  <2> HIDE DEF up, down, taken
  <2>11. down + up <= limit + 1
    BY <2>9, <2>10
  <2> QED BY <2>11, Zenon DEF up, down
<1> QED BY <1>1, InvAlways, PTL


=============================================================================
