-------------------------- MODULE MuxSessionProofs --------------------------
(***************************************************************************)
(* The map of streams of a mux session holds no entry of a finished        *)
(* stream, for every set of links, number of writes and set of faults.     *)
(***************************************************************************)
EXTENDS MuxSession, TLAPS

\* The part of the type invariant the argument needs.
WireType ==
  /\ wire \in [Ends -> Seq(Frames)]
  /\ streams \subseteq Halves
  /\ pc \in [Halves -> HalfStates]

\* A stream is announced once.  While its Open frame is on the wire the server
\* has no object for it and the client is past open_stream; while the client
\* is in open_stream the server has no object either.  Hence read_loop never
\* starts a stream anew whose entry is in the map.
Unsent == {"absent", "checked", "inserted"}

OpenOnce ==
  /\ \A e \in Ends : \A k \in 1..Len(wire[e]) :
       wire[e][k].kind = "open" =>
         /\ e = "server"
         /\ pc[<<"server", wire[e][k].id>>] = "absent"
         /\ pc[<<"client", wire[e][k].id>>] \notin Unsent
  /\ \A k, l \in 1..Len(wire["server"]) :
       /\ wire["server"][k].kind = "open"
       /\ wire["server"][l].kind = "open"
       /\ wire["server"][k].id = wire["server"][l].id
       => k = l
  /\ \A i \in Ids : pc[<<"client", i>>] \in Unsent =>
                      pc[<<"server", i>>] = "absent"

StreamInv == WireType /\ OpenOnce /\ NoStreamLeak

SentType == sent \in [Halves -> Nat]

\* A session the client has let go of has no entries, and no thread is about
\* to add one.
GoneInv ==
  gone => \A i \in Ids : /\ <<"client", i>> \notin streams
                         /\ pc[<<"client", i>>] # "checked"

MuxInv == StreamInv /\ SentType /\ GoneInv

-----------------------------------------------------------------------------
(* What the steps do to the wire.                                          *)

\* Taking the first frame off the wire of an end leaves the others in order.
LEMMA TailFrames ==
  ASSUME WireType, NEW e \in Ends, wire[e] # <<>>,
         wire' = [wire EXCEPT ![e] = Tail(@)]
  PROVE  /\ wire' \in [Ends -> Seq(Frames)]
         /\ Head(wire[e]) = wire[e][1]
         /\ Head(wire[e]) \in Frames
         /\ 1 \in 1..Len(wire[e])
         /\ \A f \in Ends : \A k \in 1..Len(wire'[f]) :
              IF f = e THEN k + 1 \in 1..Len(wire[f])
                            /\ wire'[f][k] = wire[f][k + 1]
                       ELSE k \in 1..Len(wire[f]) /\ wire'[f][k] = wire[f][k]
<1>1. wire[e] \in Seq(Frames)
  BY DEF WireType
<1>2. /\ Tail(wire[e]) \in Seq(Frames)
      /\ Len(wire[e]) \in Nat \ {0}
      /\ Len(Tail(wire[e])) = Len(wire[e]) - 1
      /\ \A k \in 1..Len(Tail(wire[e])) : Tail(wire[e])[k] = wire[e][k + 1]
      /\ Head(wire[e]) = wire[e][1]
      /\ Head(wire[e]) \in Frames
  BY <1>1
<1>3. \A f \in Ends : wire'[f] = IF f = e THEN Tail(wire[e]) ELSE wire[f]
  BY DEF WireType
<1>4. wire' \in [Ends -> Seq(Frames)]
  BY <1>2 DEF WireType
<1>5. ASSUME NEW f \in Ends, NEW k \in 1..Len(wire'[f])
      PROVE  IF f = e THEN k + 1 \in 1..Len(wire[f])
                           /\ wire'[f][k] = wire[f][k + 1]
                      ELSE k \in 1..Len(wire[f]) /\ wire'[f][k] = wire[f][k]
  <2>1. CASE f = e
    <3>1. wire'[f] = Tail(wire[e])
      BY <1>3, <2>1
    <3>2. k \in 1..(Len(wire[e]) - 1) /\ wire'[f][k] = wire[e][k + 1]
      BY <1>2, <1>5, <3>1
    <3>3. k + 1 \in 1..Len(wire[e])
      BY <1>2, <3>2
    <3> QED
      BY <2>1, <3>2, <3>3
  <2>2. CASE f # e
    <3>1. wire'[f] = wire[f]
      BY <1>3, <2>2
    <3> QED
      BY <1>5, <2>2, <3>1
  <2> QED
    BY <2>1, <2>2
<1> QED
  <2>1. 1 \in 1..Len(wire[e])
    BY <1>2
  <2> QED
    BY <1>2, <1>4, <1>5, <2>1

\* SendFrame adds one frame behind the others, or none.
LEMMA SentFrames ==
  ASSUME WireType, NEW e \in Ends, NEW f \in Frames, SendFrame(e, f)
  PROVE  /\ wire' \in [Ends -> Seq(Frames)]
         /\ \A d \in Ends : \A k \in 1..Len(wire'[d]) :
              \/ k \in 1..Len(wire[d]) /\ wire'[d][k] = wire[d][k]
              \/ d = Peer(e) /\ k = Len(wire[d]) + 1 /\ wire'[d][k] = f
<1>1. CASE broken
  BY <1>1 DEF SendFrame, WireType
<1>2. CASE ~broken
  <2>1. Peer(e) \in Ends
    BY DEF Peer, Ends
  <2>2. wire[Peer(e)] \in Seq(Frames)
    BY <2>1 DEF WireType
  <2>3. /\ Append(wire[Peer(e)], f) \in Seq(Frames)
        /\ Len(Append(wire[Peer(e)], f)) = Len(wire[Peer(e)]) + 1
        /\ Len(wire[Peer(e)]) \in Nat
        /\ Append(wire[Peer(e)], f)[Len(wire[Peer(e)]) + 1] = f
        /\ \A k \in 1..Len(wire[Peer(e)]) :
             Append(wire[Peer(e)], f)[k] = wire[Peer(e)][k]
    BY <2>2
  <2>4. wire' = [wire EXCEPT ![Peer(e)] = Append(wire[Peer(e)], f)]
    BY <1>2 DEF SendFrame
  <2>5. \A d \in Ends :
          wire'[d] = IF d = Peer(e) THEN Append(wire[d], f) ELSE wire[d]
    BY <2>4 DEF WireType
  <2>6. wire' \in [Ends -> Seq(Frames)]
    BY <2>1, <2>3, <2>4 DEF WireType
  <2>7. ASSUME NEW d \in Ends, NEW k \in 1..Len(wire'[d])
        PROVE  \/ k \in 1..Len(wire[d]) /\ wire'[d][k] = wire[d][k]
               \/ d = Peer(e) /\ k = Len(wire[d]) + 1 /\ wire'[d][k] = f
    <3>1. CASE d = Peer(e)
      <4>1. wire'[d] = Append(wire[Peer(e)], f)
        BY <2>5, <3>1
      <4>2. k \in 1..(Len(wire[Peer(e)]) + 1)
        BY <2>3, <2>7, <4>1
      <4>3. k \in 1..Len(wire[Peer(e)]) \/ k = Len(wire[Peer(e)]) + 1
        BY <2>3, <4>2
      <4>4. CASE k \in 1..Len(wire[Peer(e)])
        BY <2>3, <3>1, <4>1, <4>4
      <4>5. CASE k = Len(wire[Peer(e)]) + 1
        BY <2>3, <3>1, <4>1, <4>5
      <4> QED
        BY <4>3, <4>4, <4>5
    <3>2. CASE d # Peer(e)
      <4>1. wire'[d] = wire[d]
        BY <2>5, <3>2
      <4> QED
        BY <2>7, <4>1
    <3> QED
      BY <3>1, <3>2
  <2> QED
    BY <2>6, <2>7
<1> QED
  BY <1>1, <1>2

\* Halves do not go back to an earlier state of opening.
Forward ==
  /\ pc' \in [Halves -> HalfStates]
  /\ \A i \in Ids :
       /\ pc[<<"server", i>>] = "absent" => pc'[<<"server", i>>] = "absent"
       /\ pc[<<"client", i>>] \notin Unsent => pc'[<<"client", i>>] \notin Unsent

\* OpenOnce is kept when every Open frame on the wire was there before, at a
\* place that differs by a fixed amount.
LEMMA FramesShift ==
  ASSUME WireType, OpenOnce, Forward,
         NEW off \in [Ends -> {0, 1}],
         \A d \in Ends : \A k \in 1..Len(wire'[d]) :
           wire'[d][k].kind = "open" =>
             /\ k + off[d] \in 1..Len(wire[d])
             /\ wire'[d][k] = wire[d][k + off[d]]
  PROVE  OpenOnce'
<1>1. \A i \in Ids : pc'[<<"client", i>>] \in Unsent =>
                       pc'[<<"server", i>>] = "absent"
  BY DEF OpenOnce, Forward
<1>2. ASSUME NEW d \in Ends, NEW k \in 1..Len(wire'[d]),
             wire'[d][k].kind = "open"
      PROVE  /\ d = "server"
             /\ pc'[<<"server", wire'[d][k].id>>] = "absent"
             /\ pc'[<<"client", wire'[d][k].id>>] \notin Unsent
  <2> DEFINE j == k + off[d]
  <2>1. j \in 1..Len(wire[d]) /\ wire'[d][k] = wire[d][j]
    BY <1>2
  <2> HIDE DEF j
  <2>2. wire[d] \in Seq(Frames)
    BY DEF WireType
  <2>3. wire[d][j] \in Frames
    BY <2>1, <2>2
  <2>4. wire[d][j].id \in Ids
    BY <2>3 DEF Frames
  <2>5. wire[d][j].kind = "open"
    BY <1>2, <2>1
  <2>6. /\ d = "server"
        /\ pc[<<"server", wire[d][j].id>>] = "absent"
        /\ pc[<<"client", wire[d][j].id>>] \notin Unsent
    BY <2>1, <2>5 DEF OpenOnce
  <2> QED
    BY <2>1, <2>4, <2>6 DEF Forward
<1>3. ASSUME NEW k \in 1..Len(wire'["server"]), NEW l \in 1..Len(wire'["server"]),
             wire'["server"][k].kind = "open",
             wire'["server"][l].kind = "open",
             wire'["server"][k].id = wire'["server"][l].id
      PROVE  k = l
  <2>1. "server" \in Ends
    BY DEF Ends
  <2> DEFINE m == k + off["server"]
             n == l + off["server"]
  <2>2. /\ m \in 1..Len(wire["server"]) /\ wire'["server"][k] = wire["server"][m]
        /\ n \in 1..Len(wire["server"]) /\ wire'["server"][l] = wire["server"][n]
    BY <1>3, <2>1
  <2> HIDE DEF m, n
  <2>3. m = n
    BY <1>3, <2>2 DEF OpenOnce
  <2>4. off["server"] \in {0, 1}
    BY <2>1
  <2> QED
    BY <2>3, <2>4 DEF m, n
<1>4. \A d \in Ends : \A k \in 1..Len(wire'[d]) :
        wire'[d][k].kind = "open" =>
          /\ d = "server"
          /\ pc'[<<"server", wire'[d][k].id>>] = "absent"
          /\ pc'[<<"client", wire'[d][k].id>>] \notin Unsent
  BY <1>2
<1>5. \A k, l \in 1..Len(wire'["server"]) :
        /\ wire'["server"][k].kind = "open"
        /\ wire'["server"][l].kind = "open"
        /\ wire'["server"][k].id = wire'["server"][l].id
        => k = l
  BY <1>3
<1> QED
  BY <1>1, <1>4, <1>5 DEF OpenOnce, Unsent

\* The steps that leave the wire alone, ...
LEMMA WireIdle ==
  ASSUME WireType, OpenOnce, Forward, UNCHANGED wire
  PROVE  OpenOnce'
<1> DEFINE off == [d \in Ends |-> 0]
<1>1. off \in [Ends -> {0, 1}] /\ \A d \in Ends : off[d] = 0
  OBVIOUS
<1>2. \A d \in Ends : \A k \in 1..Len(wire'[d]) :
        wire'[d][k].kind = "open" =>
          /\ k + off[d] \in 1..Len(wire[d])
          /\ wire'[d][k] = wire[d][k + off[d]]
  <2> HIDE DEF off
  <2> SUFFICES ASSUME NEW d \in Ends, NEW k \in 1..Len(wire[d])
               PROVE  k + off[d] = k
    OBVIOUS
  <2> QED
    BY <1>1
<1> HIDE DEF off
<1> QED
  BY <1>1, <1>2, FramesShift

\* ... that take a frame from it, ...
LEMMA WireReceive ==
  ASSUME WireType, OpenOnce, Forward, NEW e \in Ends, wire[e] # <<>>,
         wire' = [wire EXCEPT ![e] = Tail(@)]
  PROVE  OpenOnce'
<1> DEFINE off == [d \in Ends |-> IF d = e THEN 1 ELSE 0]
<1>1. /\ off \in [Ends -> {0, 1}]
      /\ \A d \in Ends : off[d] = IF d = e THEN 1 ELSE 0
  OBVIOUS
<1> HIDE DEF off
<1>2. ASSUME NEW d \in Ends, NEW k \in 1..Len(wire'[d])
      PROVE  /\ k + off[d] \in 1..Len(wire[d])
             /\ wire'[d][k] = wire[d][k + off[d]]
  <2>1. IF d = e THEN k + 1 \in 1..Len(wire[d]) /\ wire'[d][k] = wire[d][k + 1]
                 ELSE k \in 1..Len(wire[d]) /\ wire'[d][k] = wire[d][k]
    BY <1>2, TailFrames
  <2>2. CASE d = e
    BY <1>1, <2>1, <2>2
  <2>3. CASE d # e
    <3>1. k + off[d] = k
      BY <1>1, <2>3
    <3> QED
      BY <2>1, <2>3, <3>1
  <2> QED
    BY <2>2, <2>3
<1> QED
  BY <1>1, <1>2, FramesShift

\* ... and that send a frame other than Open.
LEMMA WireSend ==
  ASSUME WireType, OpenOnce, Forward,
         NEW e \in Ends, NEW f \in Frames, f.kind # "open", SendFrame(e, f)
  PROVE  OpenOnce'
<1> DEFINE off == [d \in Ends |-> 0]
<1>1. off \in [Ends -> {0, 1}] /\ \A d \in Ends : off[d] = 0
  OBVIOUS
<1> HIDE DEF off
<1>2. ASSUME NEW d \in Ends, NEW k \in 1..Len(wire'[d]),
             wire'[d][k].kind = "open"
      PROVE  /\ k + off[d] \in 1..Len(wire[d])
             /\ wire'[d][k] = wire[d][k + off[d]]
  <2>1. k \in 1..Len(wire[d]) /\ wire'[d][k] = wire[d][k]
    BY <1>2, SentFrames
  <2>2. k + off[d] = k
    BY <1>1, <2>1
  <2> QED
    BY <2>1, <2>2
<1> QED
  BY <1>1, <1>2, FramesShift

-----------------------------------------------------------------------------
(* The invariant.                                                          *)

\* Moving one half to a state other than absent, and not back to an unsent
\* state, is a step forward, unless it starts a stream at the server.
LEMMA MoveForward ==
  ASSUME WireType, NEW h \in Halves, NEW s \in HalfStates, Step(h, s),
         pc[h] \notin Unsent => s \notin Unsent,
         h[1] = "server" => pc[h] # "absent"
  PROVE  Forward
<1>1. pc' \in [Halves -> HalfStates]
  BY DEF WireType, Step
<1>2. \A g \in Halves : pc'[g] = IF g = h THEN s ELSE pc[g]
  BY DEF WireType, Step
<1>3. ASSUME NEW i \in Ids
      PROVE  /\ pc[<<"server", i>>] = "absent" => pc'[<<"server", i>>] = "absent"
             /\ pc[<<"client", i>>] \notin Unsent =>
                  pc'[<<"client", i>>] \notin Unsent
  <2>1. <<"server", i>> \in Halves /\ <<"client", i>> \in Halves
    BY DEF Halves, Ends
  <2>2. pc[<<"server", i>>] = "absent" => <<"server", i>> # h
    OBVIOUS
  <2> QED
    BY <1>2, <2>1, <2>2
<1> QED
  BY <1>1, <1>3 DEF Forward

LEMMA StayForward ==
  ASSUME WireType, UNCHANGED pc
  PROVE  Forward
BY DEF WireType, Forward

\* The halves and frames that the actions name.
LEMMA Named ==
  /\ \A i \in Ids : <<"client", i>> \in Halves /\ <<"server", i>> \in Halves
  /\ \A e \in Ends, i \in Ids : <<e, i>> \in Halves
  /\ \A h \in Halves : h[1] \in Ends /\ h[2] \in Ids
  /\ \A k \in {"open", "data", "close"}, i \in Ids, n \in Nat :
       Frame(k, i, n) \in Frames /\ Frame(k, i, n).kind = k
                                 /\ Frame(k, i, n).id = i
BY DEF Halves, Ends, Frame, Frames

\* An entry stays with a stream in use when no entry is added and every half
\* with an entry stays in use.
LEMMA EntriesKept ==
  ASSUME WireType, NoStreamLeak, NEW h \in Halves, NEW s \in HalfStates,
         Step(h, s), streams' \subseteq streams,
         h \in streams' => s \in {"inserted", "open", "closing"}
  PROVE  streams' \subseteq Halves /\ NoStreamLeak'
BY DEF WireType, NoStreamLeak, Step

\* open_stream puts the only Open frame of a stream on the wire.
LEMMA OpenFrameSent ==
  ASSUME StreamInv, NEW i \in Ids, SendOpenFrame(i)
  PROVE  StreamInv'
<1> DEFINE c == <<"client", i>>
           f == Frame("open", i, 0)
<1>1. c \in Halves /\ f \in Frames /\ f.kind = "open" /\ f.id = i
  BY DEF Halves, Ends, Frame, Frames
<1>2. /\ pc[c] = "inserted" /\ SendFrame("client", f) /\ streams' = streams
      /\ Step(c, "open") \/ Step(c, "closing")
  BY DEF SendOpenFrame
<1>3. WireType /\ OpenOnce /\ NoStreamLeak
  BY DEF StreamInv
<1>4. pc[<<"server", i>>] = "absent"
  BY <1>2, <1>3 DEF OpenOnce, Unsent
<1>5. /\ pc' \in [Halves -> HalfStates]
      /\ \A g \in Halves : g # c => pc'[g] = pc[g]
      /\ pc'[c] \in {"open", "closing"}
  BY <1>1, <1>2, <1>3 DEF WireType, Step, HalfStates
<1>6. /\ "client" \in Ends /\ "server" \in Ends /\ Peer("client") = "server"
  BY DEF Ends, Peer
<1>7. /\ wire' \in [Ends -> Seq(Frames)]
      /\ \A d \in Ends : \A k \in 1..Len(wire'[d]) :
           \/ k \in 1..Len(wire[d]) /\ wire'[d][k] = wire[d][k]
           \/ d = "server" /\ k = Len(wire[d]) + 1 /\ wire'[d][k] = f
  <2> HIDE DEF f
  <2> QED
    BY <1>1, <1>2, <1>3, <1>6, SentFrames
<1> HIDE DEF f
\* No Open frame of i was there: the client had not left open_stream.
<1>8. ASSUME NEW d \in Ends, NEW k \in 1..Len(wire[d]), wire[d][k].kind = "open"
      PROVE  /\ d = "server" /\ wire[d][k].id # i /\ wire[d][k].id \in Ids
             /\ pc'[<<"server", wire[d][k].id>>] = "absent"
             /\ pc'[<<"client", wire[d][k].id>>] \notin Unsent
  <2>1. wire[d] \in Seq(Frames)
    BY <1>3 DEF WireType
  <2>2. wire[d][k] \in Frames
    BY <1>8, <2>1
  <2>3. wire[d][k].id \in Ids
    BY <2>2 DEF Frames
  <2>4. /\ d = "server"
        /\ pc[<<"server", wire[d][k].id>>] = "absent"
        /\ pc[<<"client", wire[d][k].id>>] \notin Unsent
    BY <1>3, <1>8 DEF OpenOnce
  <2>5. wire[d][k].id # i
    BY <1>2, <2>4 DEF Unsent
  <2>6. /\ <<"server", wire[d][k].id>> \in Halves
        /\ <<"client", wire[d][k].id>> \in Halves
    BY <2>3, Named
  <2> QED
    BY <1>5, <2>3, <2>4, <2>5, <2>6
<1>9. ASSUME NEW d \in Ends, NEW k \in 1..Len(wire'[d]), wire'[d][k].kind = "open"
      PROVE  /\ d = "server"
             /\ pc'[<<"server", wire'[d][k].id>>] = "absent"
             /\ pc'[<<"client", wire'[d][k].id>>] \notin Unsent
  <2>1. CASE k \in 1..Len(wire[d]) /\ wire'[d][k] = wire[d][k]
    BY <1>8, <1>9, <2>1
  <2>2. CASE d = "server" /\ wire'[d][k] = f
    <3>1. <<"server", i>> \in Halves /\ <<"server", i>> # c
      BY Named
    <3> QED
      BY <1>1, <1>4, <1>5, <2>2, <3>1 DEF Unsent
  <2> QED
    BY <1>7, <1>9, <2>1, <2>2
<1>10. ASSUME NEW k \in 1..Len(wire'["server"]), NEW l \in 1..Len(wire'["server"]),
              wire'["server"][k].kind = "open",
              wire'["server"][l].kind = "open",
              wire'["server"][k].id = wire'["server"][l].id
       PROVE  k = l
  <2> DEFINE Old(n) == n \in 1..Len(wire["server"])
                       /\ wire'["server"][n] = wire["server"][n]
             New(n) == n = Len(wire["server"]) + 1 /\ wire'["server"][n] = f
  <2>1. (Old(k) \/ New(k)) /\ (Old(l) \/ New(l))
    BY <1>6, <1>7, <1>10
  <2>2. CASE Old(k) /\ Old(l)
    BY <1>3, <1>10, <2>2 DEF OpenOnce
  <2>3. CASE Old(k) /\ New(l)
    BY <1>1, <1>6, <1>8, <1>10, <2>3
  <2>4. CASE New(k) /\ Old(l)
    BY <1>1, <1>6, <1>8, <1>10, <2>4
  <2>5. CASE New(k) /\ New(l)
    BY <2>5
  <2> QED
    BY <2>1, <2>2, <2>3, <2>4, <2>5
<1>11. \A j \in Ids : pc'[<<"client", j>>] \in Unsent =>
                        pc'[<<"server", j>>] = "absent"
  <2> SUFFICES ASSUME NEW j \in Ids, pc'[<<"client", j>>] \in Unsent
               PROVE  pc'[<<"server", j>>] = "absent"
    OBVIOUS
  <2>1. <<"client", j>> \in Halves /\ <<"server", j>> \in Halves
        /\ <<"server", j>> # c
    BY Named
  <2>2. <<"client", j>> # c
    BY <1>5 DEF Unsent
  <2> QED
    BY <1>3, <1>5, <2>1, <2>2 DEF OpenOnce
<1>12. OpenOnce'
  <2>1. \A d \in Ends : \A k \in 1..Len(wire'[d]) :
          wire'[d][k].kind = "open" =>
            /\ d = "server"
            /\ pc'[<<"server", wire'[d][k].id>>] = "absent"
            /\ pc'[<<"client", wire'[d][k].id>>] \notin Unsent
    BY <1>9
  <2>2. \A k, l \in 1..Len(wire'["server"]) :
          /\ wire'["server"][k].kind = "open"
          /\ wire'["server"][l].kind = "open"
          /\ wire'["server"][k].id = wire'["server"][l].id
          => k = l
    BY <1>10
  <2> QED
    BY <1>11, <2>1, <2>2 DEF OpenOnce, Unsent
<1>13. NoStreamLeak' /\ WireType'
  BY <1>2, <1>3, <1>5, <1>7 DEF NoStreamLeak, WireType
<1> QED
  BY <1>12, <1>13 DEF StreamInv

\* read_loop starts a stream for which there is neither an object nor,
\* once the frame is taken, another Open frame.
LEMMA OpenFrameReceived ==
  ASSUME StreamInv, NEW e \in Ends, ReceiveOpen(e)
  PROVE  StreamInv'
<1> DEFINE i == Head(wire[e]).id
           h == <<e, i>>
<1>1. WireType /\ OpenOnce /\ NoStreamLeak
  BY DEF StreamInv
<1>2. /\ wire[e] # <<>> /\ Head(wire[e]).kind = "open"
      /\ wire' = [wire EXCEPT ![e] = Tail(@)] /\ streams' = streams
      /\ UNCHANGED pc \/ Step(h, "checked")
  BY DEF ReceiveOpen, Incoming
<1>3. /\ wire' \in [Ends -> Seq(Frames)]
      /\ Head(wire[e]) = wire[e][1]
      /\ Head(wire[e]) \in Frames
      /\ 1 \in 1..Len(wire[e])
      /\ \A f \in Ends : \A k \in 1..Len(wire'[f]) :
           IF f = e THEN k + 1 \in 1..Len(wire[f])
                         /\ wire'[f][k] = wire[f][k + 1]
                    ELSE k \in 1..Len(wire[f]) /\ wire'[f][k] = wire[f][k]
  BY <1>1, <1>2, TailFrames
<1>4. i \in Ids
  BY <1>3 DEF Frames
<1>5. e = "server" /\ pc[h] = "absent" /\ pc[<<"client", i>>] \notin Unsent
  <2>1. wire[e][1].kind = "open" /\ wire[e][1].id = i
    BY <1>2, <1>3
  <2>2. /\ e = "server"
        /\ pc[<<"server", wire[e][1].id>>] = "absent"
        /\ pc[<<"client", wire[e][1].id>>] \notin Unsent
    BY <1>1, <1>3, <2>1 DEF OpenOnce
  <2> QED
    BY <2>1, <2>2
<1>6. h \in Halves
  BY <1>4, Named
<1>7. CASE UNCHANGED pc
  <2>1. Forward
    BY <1>1, <1>7, StayForward
  <2>2. OpenOnce'
    BY <1>1, <1>2, <2>1, WireReceive
  <2> QED
    BY <1>1, <1>2, <1>3, <1>7, <2>2 DEF StreamInv, NoStreamLeak, WireType
<1>8. CASE Step(h, "checked")
  <2>1. /\ pc' \in [Halves -> HalfStates]
        /\ \A g \in Halves : pc'[g] = IF g = h THEN "checked" ELSE pc[g]
    BY <1>1, <1>6, <1>8 DEF WireType, Step, HalfStates
  <2>2. ASSUME NEW d \in Ends, NEW k \in 1..Len(wire'[d]),
               wire'[d][k].kind = "open"
        PROVE  /\ d = "server"
               /\ pc'[<<"server", wire'[d][k].id>>] = "absent"
               /\ pc'[<<"client", wire'[d][k].id>>] \notin Unsent
    <3>1. PICK j \in 1..Len(wire[d]) :
            wire'[d][k] = wire[d][j] /\ (d = e => j = k + 1)
      BY <1>3, <2>2
    <3>2. wire[d][j].kind = "open"
      BY <2>2, <3>1
    <3>3. /\ d = "server"
          /\ pc[<<"server", wire[d][j].id>>] = "absent"
          /\ pc[<<"client", wire[d][j].id>>] \notin Unsent
      BY <1>1, <3>2 DEF OpenOnce
    <3>4. j # 1
      BY <1>5, <3>1, <3>3
    <3>5. wire[d][j].id # i
      <4>1. wire["server"][1].kind = "open" /\ wire["server"][1].id = i
        BY <1>2, <1>3, <1>5
      <4> QED
        BY <1>1, <1>3, <1>5, <3>2, <3>3, <3>4, <4>1 DEF OpenOnce
    <3>6. wire[d] \in Seq(Frames)
      BY <1>1 DEF WireType
    <3>7. wire[d][j] \in Frames
      BY <3>6
    <3>8. wire[d][j].id \in Ids
      BY <3>7 DEF Frames
    <3>9. /\ <<"server", wire[d][j].id>> \in Halves
          /\ <<"client", wire[d][j].id>> \in Halves
          /\ <<"server", wire[d][j].id>> # h
          /\ <<"client", wire[d][j].id>> # h
      BY <1>5, <3>5, <3>8, Named
    <3> QED
      BY <2>1, <3>1, <3>3, <3>9
  <2>3. ASSUME NEW k \in 1..Len(wire'["server"]),
               NEW l \in 1..Len(wire'["server"]),
               wire'["server"][k].kind = "open",
               wire'["server"][l].kind = "open",
               wire'["server"][k].id = wire'["server"][l].id
        PROVE  k = l
    <3>1. /\ k + 1 \in 1..Len(wire["server"])
          /\ l + 1 \in 1..Len(wire["server"])
          /\ wire'["server"][k] = wire["server"][k + 1]
          /\ wire'["server"][l] = wire["server"][l + 1]
      BY <1>3, <1>5, <2>3
    <3>2. k + 1 = l + 1
      BY <1>1, <2>3, <3>1 DEF OpenOnce
    <3> QED
      BY <3>2
  <2>4. ASSUME NEW j \in Ids, pc'[<<"client", j>>] \in Unsent
        PROVE  pc'[<<"server", j>>] = "absent"
    <3>1. /\ <<"client", j>> \in Halves /\ <<"server", j>> \in Halves
          /\ <<"client", j>> # h
      BY <1>5, Named
    <3>2. pc[<<"client", j>>] \in Unsent
      BY <2>1, <2>4, <3>1
    <3>3. pc[<<"server", j>>] = "absent"
      BY <1>1, <3>2 DEF OpenOnce
    <3>4. j # i
      BY <1>5, <3>2
    <3> QED
      BY <2>1, <3>1, <3>3, <3>4
  <2>5. OpenOnce'
    <3>1. \A d \in Ends : \A k \in 1..Len(wire'[d]) :
            wire'[d][k].kind = "open" =>
              /\ d = "server"
              /\ pc'[<<"server", wire'[d][k].id>>] = "absent"
              /\ pc'[<<"client", wire'[d][k].id>>] \notin Unsent
      BY <2>2
    <3>2. \A k, l \in 1..Len(wire'["server"]) :
            /\ wire'["server"][k].kind = "open"
            /\ wire'["server"][l].kind = "open"
            /\ wire'["server"][k].id = wire'["server"][l].id
            => k = l
      BY <2>3
    <3> QED
      BY <2>4, <3>1, <3>2 DEF OpenOnce, Unsent
  <2>6. h \notin streams
    BY <1>1, <1>5 DEF NoStreamLeak
  <2> QED
    BY <1>1, <1>2, <1>3, <2>1, <2>5, <2>6 DEF StreamInv, NoStreamLeak, WireType
<1> QED
  BY <1>2, <1>7, <1>8

\* A step that moves one half forward and adds no entry keeps the invariant,
\* if it keeps OpenOnce.
LEMMA HalfMoves ==
  ASSUME StreamInv, OpenOnce', wire' \in [Ends -> Seq(Frames)],
         NEW h \in Halves, NEW s \in HalfStates, Step(h, s),
         streams' \subseteq streams,
         h \in streams' => s \in {"inserted", "open", "closing"}
  PROVE  StreamInv'
<1>1. streams' \subseteq Halves /\ NoStreamLeak'
  BY EntriesKept DEF StreamInv
<1>2. pc' \in [Halves -> HalfStates]
  BY DEF StreamInv, WireType, Step
<1> QED
  BY <1>1, <1>2 DEF StreamInv, WireType

\* So does a step that moves none.
LEMMA NoHalfMoves ==
  ASSUME StreamInv, UNCHANGED pc, streams' \subseteq streams,
         \/ UNCHANGED wire
         \/ \E e \in Ends : wire[e] # <<>> /\ wire' = [wire EXCEPT ![e] = Tail(@)]
         \/ \E e \in Ends, f \in Frames : f.kind # "open" /\ SendFrame(e, f)
  PROVE  StreamInv'
<1>1. WireType /\ OpenOnce /\ NoStreamLeak
  BY DEF StreamInv
<1>2. Forward
  BY <1>1, StayForward
<1>3. OpenOnce' /\ wire' \in [Ends -> Seq(Frames)]
  <2>1. CASE UNCHANGED wire
    BY <1>1, <1>2, <2>1, WireIdle DEF WireType
  <2>2. ASSUME NEW e \in Ends, wire[e] # <<>>, wire' = [wire EXCEPT ![e] = Tail(@)]
        PROVE  OpenOnce' /\ wire' \in [Ends -> Seq(Frames)]
    BY <1>1, <1>2, <2>2, WireReceive, TailFrames
  <2>3. ASSUME NEW e \in Ends, NEW f \in Frames, f.kind # "open", SendFrame(e, f)
        PROVE  OpenOnce' /\ wire' \in [Ends -> Seq(Frames)]
    BY <1>1, <1>2, <2>3, WireSend, SentFrames
  <2> QED
    BY <2>1, <2>2, <2>3
<1>4. streams' \subseteq Halves /\ NoStreamLeak'
  BY <1>1 DEF WireType, NoStreamLeak
<1> QED
  BY <1>1, <1>3, <1>4 DEF StreamInv, WireType

\* Only a write changes the count of writes.
LEMMA SentStep ==
  ASSUME SentType, [MuxNext]_muxVars
  PROVE  SentType'
<1>1. ASSUME NEW h \in Halves, WriteStream(h)
      PROVE  SentType'
  BY <1>1 DEF WriteStream, SentType
<1>2. CASE UNCHANGED sent
  BY <1>2 DEF SentType
<1> QED
  BY <1>1, <1>2
  DEF MuxNext, muxVars, OpenStream, SendOpenFrame, InsertStream, SendCloseFrame,
      CloseWithoutSession, DropStream, ReadStream, ReceiveOpen, Accept,
      ReceiveData, ReceiveClose, FlowExceeded, ReadWithoutSession, ReadFails,
      IdleTooLong, Drain, LetGo, BreakConnection

\* Only the streams of the server are started by a frame, and open_stream is
\* not called on a session that is gone.
LEMMA GoneStep ==
  ASSUME StreamInv, GoneInv, [MuxNext]_muxVars
  PROVE  GoneInv'
<1> SUFFICES ASSUME gone', NEW i \in Ids
             PROVE  <<"client", i>> \notin streams' /\ pc'[<<"client", i>>] # "checked"
  BY DEF GoneInv
<1> DEFINE c == <<"client", i>>
<1>1. c \in Halves /\ c[1] = "client"
  BY Named
<1>2. WireType /\ OpenOnce
  BY DEF StreamInv
<1>3. CASE LetGo
  BY <1>1, <1>3 DEF LetGo
<1>4. ASSUME gone, c \notin streams, pc[c] # "checked", ~LetGo
      PROVE  c \notin streams' /\ pc'[c] # "checked"
  <2>1. ASSUME NEW e \in Ends, ReceiveOpen(e)
        PROVE  c \notin streams' /\ pc'[c] # "checked"
    <3>1. /\ wire[e] # <<>> /\ Head(wire[e]).kind = "open"
          /\ wire' = [wire EXCEPT ![e] = Tail(@)] /\ streams' = streams
          /\ UNCHANGED pc \/ Step(<<e, Head(wire[e]).id>>, "checked")
      BY <2>1 DEF ReceiveOpen, Incoming
    <3>2. Head(wire[e]) = wire[e][1] /\ 1 \in 1..Len(wire[e])
      BY <1>2, <3>1, TailFrames
    <3>3. e = "server"
      BY <1>2, <3>1, <3>2 DEF OpenOnce
    <3>4. <<e, Head(wire[e]).id>> # c
      BY <3>3
    <3> QED
      BY <1>1, <1>2, <1>4, <3>1, <3>4 DEF Step, WireType
  <2>2. ASSUME NEW h \in Halves, InsertStream(h)
        PROVE  c \notin streams' /\ pc'[c] # "checked"
    BY <1>1, <1>2, <1>4, <2>2 DEF InsertStream, Step, WireType
  <2>3. ASSUME NEW j \in Ids, OpenStream(j)
        PROVE  FALSE
    BY <1>4, <2>3 DEF OpenStream, Alive
  <2>4. ASSUME NEW h \in Halves, NEW s \in {"open", "closing", "done"},
               Step(h, s), streams' \subseteq streams
        PROVE  c \notin streams' /\ pc'[c] # "checked"
    BY <1>1, <1>2, <1>4, <2>4 DEF Step, WireType
  <2>5. ASSUME NEW j \in Ids, SendOpenFrame(j)
        PROVE  c \notin streams' /\ pc'[c] # "checked"
    <3>1. <<"client", j>> \in Halves /\ streams' = streams
          /\ (Step(<<"client", j>>, "open") \/ Step(<<"client", j>>, "closing"))
      BY <2>5, Named DEF SendOpenFrame
    <3> QED
      BY <3>1, <2>4
  <2>6. ASSUME NEW e \in Ends, NEW j \in Ids, Accept(e, j)
        PROVE  c \notin streams' /\ pc'[c] # "checked"
    <3>1. <<e, j>> \in Halves /\ streams' = streams /\ Step(<<e, j>>, "open")
      BY <2>6, Named DEF Accept
    <3> QED
      BY <3>1, <2>4
  <2>7. ASSUME NEW h \in Halves,
               SendCloseFrame(h) \/ CloseWithoutSession(h) \/ DropStream(h)
        PROVE  c \notin streams' /\ pc'[c] # "checked"
    <3>1. streams' \subseteq streams /\ (Step(h, "closing") \/ Step(h, "done"))
      BY <2>7 DEF SendCloseFrame, CloseWithoutSession, DropStream
    <3> QED
      BY <3>1, <2>4
  <2>8. CASE UNCHANGED pc /\ streams' \subseteq streams
    BY <1>4, <2>8
  <2>9. ASSUME NEW h \in Halves, WriteStream(h) \/ ReadStream(h)
        PROVE  UNCHANGED pc /\ streams' \subseteq streams
    BY <2>9 DEF WriteStream, ReadStream
  <2>10. ASSUME NEW e \in Ends,
                \/ ReceiveData(e) \/ ReceiveClose(e) \/ FlowExceeded(e)
                \/ ReadWithoutSession(e) \/ ReadFails(e) \/ IdleTooLong(e)
                \/ Drain(e)
         PROVE  UNCHANGED pc /\ streams' \subseteq streams
    BY <2>10 DEF ReceiveData, ReceiveClose, FlowExceeded, ReadWithoutSession,
                 ReadFails, IdleTooLong, Drain
  <2>11. BreakConnection \/ UNCHANGED muxVars =>
           UNCHANGED pc /\ streams' \subseteq streams
    BY DEF BreakConnection, muxVars
  <2> QED
    BY <1>4, <2>1, <2>2, <2>3, <2>5, <2>6, <2>7, <2>8, <2>9, <2>10, <2>11
    DEF MuxNext
<1>5. gone \/ LetGo
  BY DEF MuxNext, muxVars, OpenStream, SendOpenFrame, InsertStream, WriteStream,
         SendCloseFrame, CloseWithoutSession, DropStream, ReadStream,
         ReceiveOpen, Accept, ReceiveData, ReceiveClose, FlowExceeded,
         ReadWithoutSession, ReadFails, IdleTooLong, Drain, BreakConnection
<1> QED
  BY <1>3, <1>4, <1>5 DEF GoneInv

\* Every step keeps the invariant.
LEMMA StreamStep ==
  ASSUME MuxInv, [MuxNext]_muxVars
  PROVE  StreamInv'
<1>0. StreamInv /\ SentType /\ GoneInv
  BY DEF MuxInv
<1>1. WireType /\ OpenOnce /\ NoStreamLeak
  BY <1>0 DEF StreamInv
<1>2. wire \in [Ends -> Seq(Frames)]
  BY <1>1 DEF WireType
<1>3. ASSUME NEW i \in Ids, OpenStream(i)
      PROVE  StreamInv'
  <2> DEFINE c == <<"client", i>>
             s == IF closed["client"] THEN "refused" ELSE "checked"
  <2>1. /\ c \in Halves /\ pc[c] = "absent" /\ Step(c, s) /\ s \in HalfStates
        /\ c[1] = "client" /\ UNCHANGED <<wire, streams>>
    BY <1>3, Named DEF OpenStream, HalfStates
  <2> HIDE DEF c, s
  <2>2. Forward
    BY <1>1, <2>1, MoveForward DEF Unsent
  <2>3. OpenOnce'
    BY <1>1, <2>1, <2>2, WireIdle
  <2>4. c \notin streams
    BY <1>1, <2>1 DEF NoStreamLeak
  <2> QED
    BY <1>2, <2>1, <2>3, <2>4, <1>0, HalfMoves
<1>4. ASSUME NEW i \in Ids, SendOpenFrame(i)
      PROVE  StreamInv'
  BY <1>4, <1>0, OpenFrameSent
<1>5. ASSUME NEW h \in Halves, InsertStream(h)
      PROVE  StreamInv'
  <2>1. /\ pc[h] = "checked" /\ Step(h, "inserted") /\ UNCHANGED wire
        /\ streams' = streams \cup {h}
    BY <1>5 DEF InsertStream
  <2>2. Forward
    BY <1>1, <2>1, MoveForward DEF Unsent, HalfStates
  <2>3. OpenOnce'
    BY <1>1, <2>1, <2>2, WireIdle
  <2> QED
    BY <1>1, <2>1, <2>2, <2>3
    DEF StreamInv, WireType, NoStreamLeak, Step, Forward
<1>6. ASSUME NEW h \in Halves, WriteStream(h)
      PROVE  StreamInv'
  <2>1. /\ h[1] \in Ends /\ UNCHANGED <<pc, streams>>
        /\ SendFrame(h[1], Frame("data", h[2], sent[h] + 1))
    BY <1>6, Named DEF WriteStream
  <2>2. /\ Frame("data", h[2], sent[h] + 1) \in Frames
        /\ Frame("data", h[2], sent[h] + 1).kind # "open"
    BY <1>0, Named DEF SentType, Frame, Frames
  <2> QED
    BY <1>0, <2>1, <2>2, NoHalfMoves
<1>7. ASSUME NEW h \in Halves, SendCloseFrame(h)
      PROVE  StreamInv'
  <2> DEFINE f == Frame("close", h[2], 0)
  <2>1. f \in Frames /\ f.kind # "open" /\ h[1] \in Ends
    BY Named DEF Frame, Frames
  <2>2. /\ pc[h] = "open" /\ Step(h, "closing") /\ SendFrame(h[1], f)
        /\ UNCHANGED streams
    BY <1>7 DEF SendCloseFrame
  <2> HIDE DEF f
  <2>3. Forward
    BY <1>1, <2>2, MoveForward DEF Unsent, HalfStates
  <2>4. OpenOnce' /\ wire' \in [Ends -> Seq(Frames)]
    BY <1>1, <2>1, <2>2, <2>3, WireSend, SentFrames
  <2> QED
    BY <2>2, <2>4, <1>0, HalfMoves DEF HalfStates
<1>8. ASSUME NEW h \in Halves, CloseWithoutSession(h)
      PROVE  StreamInv'
  <2>1. /\ pc[h] = "open" /\ Step(h, "done") /\ UNCHANGED <<wire, streams>>
        /\ h[1] = "client" /\ gone
    BY <1>8 DEF CloseWithoutSession, Alive
  <2>2. Forward
    BY <1>1, <2>1, MoveForward DEF Unsent, HalfStates
  <2>3. OpenOnce'
    BY <1>1, <2>1, <2>2, WireIdle
  <2>4. h = <<"client", h[2]>> /\ h[2] \in Ids
    BY <2>1 DEF Halves
  <2>5. h \notin streams
    BY <1>0, <2>1, <2>4 DEF GoneInv
  <2> QED
    BY <1>0, <1>2, <2>1, <2>3, <2>5, HalfMoves DEF HalfStates
<1>9. ASSUME NEW h \in Halves, DropStream(h)
      PROVE  StreamInv'
  <2>1. /\ pc[h] = "closing" /\ Step(h, "done") /\ UNCHANGED wire
        /\ streams' = streams \ {h}
    BY <1>9 DEF DropStream
  <2>2. Forward
    BY <1>1, <2>1, MoveForward DEF Unsent, HalfStates
  <2>3. OpenOnce'
    BY <1>1, <2>1, <2>2, WireIdle
  <2> QED
    BY <1>2, <2>1, <2>3, <1>0, HalfMoves DEF HalfStates
<1>10. ASSUME NEW h \in Halves, ReadStream(h)
       PROVE  StreamInv'
  BY <1>10, <1>0, NoHalfMoves DEF ReadStream
<1>11. ASSUME NEW e \in Ends, ReceiveOpen(e)
       PROVE  StreamInv'
  BY <1>11, <1>0, OpenFrameReceived
<1>12. ASSUME NEW e \in Ends, NEW i \in Ids, Accept(e, i)
       PROVE  StreamInv'
  <2> DEFINE h == <<e, i>>
  <2>1. /\ h \in Halves /\ pc[h] = "inserted" /\ Step(h, "open")
        /\ UNCHANGED <<wire, streams>>
    BY <1>12, Named DEF Accept
  <2> HIDE DEF h
  <2>2. Forward
    BY <1>1, <2>1, MoveForward DEF Unsent, HalfStates
  <2>3. OpenOnce'
    BY <1>1, <2>1, <2>2, WireIdle
  <2> QED
    BY <1>2, <2>1, <2>3, <1>0, HalfMoves DEF HalfStates
<1>13. ASSUME NEW e \in Ends,
              ReceiveData(e) \/ ReceiveClose(e) \/ FlowExceeded(e)
       PROVE  StreamInv'
  <2>1. /\ wire[e] # <<>> /\ wire' = [wire EXCEPT ![e] = Tail(@)]
        /\ UNCHANGED pc /\ streams' \subseteq streams
    BY <1>13 DEF ReceiveData, ReceiveClose, FlowExceeded, Incoming
  <2> QED
    BY <2>1, <1>0, NoHalfMoves
<1>14. ASSUME NEW e \in Ends,
              ReadWithoutSession(e) \/ ReadFails(e) \/ IdleTooLong(e) \/ Drain(e)
       PROVE  StreamInv'
  <2>1. UNCHANGED <<pc, wire>> /\ streams' \subseteq streams
    BY <1>14 DEF ReadWithoutSession, ReadFails, IdleTooLong, Drain
  <2> QED
    BY <2>1, <1>0, NoHalfMoves
<1>15. CASE LetGo \/ BreakConnection
  <2>1. UNCHANGED <<pc, wire>> /\ streams' \subseteq streams
    BY <1>15 DEF LetGo, BreakConnection
  <2> QED
    BY <2>1, <1>0, NoHalfMoves
<1>16. CASE UNCHANGED muxVars
  BY <1>16, <1>0, NoHalfMoves DEF muxVars
<1> QED
  BY <1>3, <1>4, <1>5, <1>6, <1>7, <1>8, <1>9, <1>10, <1>11, <1>12, <1>13,
     <1>14, <1>15, <1>16 DEF MuxNext

\* The map of streams never holds an entry of a stream whose use is over: not
\* after a close by either end, the loss of the connection, the end of the
\* session, or any order of these (create_stream, drop_stream, close_session,
\* read_loop).
THEOREM NoStreamLeakAlways == MuxSpec => []NoStreamLeak
<1>1. MuxInit => MuxInv
  <2> SUFFICES ASSUME MuxInit
               PROVE  MuxInv
    OBVIOUS
  <2>1. WireType
    BY DEF MuxInit, WireType, HalfStates
  <2>2. \A e \in Ends : wire[e] = <<>>
    BY DEF MuxInit
  <2>3. \A e \in Ends : \A k \in 1..Len(wire[e]) : FALSE
    BY <2>2
  <2>4. "server" \in Ends /\ \A i \in Ids : <<"server", i>> \in Halves
    BY DEF Ends, Halves
  <2>5. OpenOnce
    BY <2>3, <2>4 DEF MuxInit, OpenOnce
  <2>6. NoStreamLeak
    BY DEF MuxInit, NoStreamLeak
  <2>7. SentType /\ GoneInv
    BY DEF MuxInit, SentType, GoneInv
  <2> QED
    BY <2>1, <2>5, <2>6, <2>7 DEF MuxInv, StreamInv
<1>2. MuxInv /\ [MuxNext]_muxVars => MuxInv'
  BY StreamStep, SentStep, GoneStep DEF MuxInv
<1>3. MuxInv => NoStreamLeak
  BY DEF MuxInv, StreamInv
<1> QED
  BY <1>1, <1>2, <1>3, PTL DEF MuxSpec

=============================================================================
