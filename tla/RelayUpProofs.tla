--------------------------- MODULE RelayUpProofs ---------------------------
(***************************************************************************)
(* The inductive invariant of Relay, its types, and that the threads which *)
(* copy from the local sockets to the link, and the peers, keep it.        *)
(***************************************************************************)
EXTENDS Relay, Integers, TLAPS

Up(e) == <<e, "up">>
Down(e) == <<e, "down">>

(* The chunks an end has read of its peer, and whether the last of them is *)
(* still with the thread that is to write it.                              *)
Taken(e) == sent[e] - Len(in[e])
Hot(e) == IF pc[Up(e)] = "write" THEN 1 ELSE 0

(* The chunk an end has read of the link and not yet written.              *)
Held(e) == IF pc[Down(e)] \in {"meter", "write"} THEN 1 ELSE 0
Got(e) == Len(out[e]) + Held(e)

Closing == {"close", "closing", "shut"}
Ended == {"closing", "shut", "done"}

(* The thread that reads the local socket: what is left is what comes next.*)
Source(e) ==
  /\ Len(in[e]) <= sent[e]
  /\ \A i \in 1..Len(in[e]) : in[e][i] = Taken(e) + i
  /\ pc[Up(e)] = "write" => buf[Up(e)] = Taken(e) /\ Taken(e) >= 1
  /\ pc[Up(e)] \in Closing \/ e \in fin => in[e] = <<>> /\ peer[e] # "open"
  /\ pc[Up(e)] # "fed" /\ (pc[Up(e)] = "meter" => Metered(e))

(* The thread that writes it: what it has written, and holds, is in order. *)
Sink(e) ==
  /\ \A i \in 1..Len(out[e]) : out[e][i] = i
  /\ Held(e) = 1 => buf[Down(e)] = Len(out[e]) + 1
  /\ e \in told => pc[Down(e)] = "done"
  /\ Got(e) <= Taken(Other(e))
  /\ pc[Down(e)] \in {"read", "meter", "write", "fed", "done"}

(* Without TLS the wire continues what the sink has got, and the source    *)
(* gives up only for a reason.                                             *)
Wired(e) ==
  LET o == Other(e)
  IN ~crypt =>
     /\ plain[e] = <<>> /\ pend[o] = <<>> /\ hold[Up(o)] = <<>> /\ hold[Down(o)] = <<>>
     /\ pc[Up(o)] \in {"read", "write", "meter", "close", "done"} /\ pc[Down(e)] # "fed"
     /\ o \in fin => pc[Up(o)] = "done"
     /\ pc[Down(e)] # "done" =>
          /\ \A i \in 1..Len(wire[o]) : wire[o][i].v = Got(e) + i
          /\ Got(e) + Len(wire[o]) <= Taken(o) - Hot(o)
          /\ pc[Up(o)] # "done" \/ o \in fin => Got(e) + Len(wire[o]) = Taken(o) - Hot(o)
     /\ pc[Up(o)] = "done" => \/ o \in fin \/ peer[o] = "reset" \/ broken \/ LimitHit
                              \/ pc[Down(e)] = "done"

(* With TLS a record carries the chunk of its number or the close_notify,  *)
(* which is the last one.                                                  *)
Elems(s) == {s[i] : i \in 1..Len(s)}
InFlight(o) == Elems(pend[o]) \union Elems(wire[o])
                 \union Elems(hold[Up(o)]) \union Elems(hold[Down(o)])

RecordOK(o, r) ==
  /\ 1 <= r.n /\ r.n < seal[o]
  /\ \/ r.v = r.n /\ r.v <= Taken(o)
     \/ r.v = 0 /\ r.n + 1 = seal[o] /\ pc[Up(o)] \in Ended

Sealed(o) ==
  crypt => /\ \A r \in InFlight(o) : RecordOK(o, r)
           /\ pc[Up(o)] \notin Ended => seal[o] = Taken(o) - Hot(o) + 1

(* Whatever order the two threads of an end write their records in, those  *)
(* the other end has opened are the first ones.                            *)
Opened(e) ==
  LET o == Other(e)
      got == Got(e) + Len(plain[e])
  IN crypt =>
     /\ 1 <= open[o] /\ open[o] <= seal[o]
     /\ pc[Down(e)] # "done" =>
          /\ \A i \in 1..Len(plain[e]) : plain[e][i] = Got(e) + i
          /\ got <= Taken(o)
          /\ \/ got + 1 = open[o]
             \/ got + 2 = open[o] /\ open[o] = seal[o] /\ pc[Up(o)] \in Ended

(* EndAfterAll of one end.                                                 *)
EndOK(e) ==
  ~crypt /\ e \in told =>
    \/ peer[Other(e)] = "shut" /\ Len(out[e]) = sent[Other(e)]
    \/ peer[Other(e)] = "reset" \/ peer[e] = "reset" \/ broken \/ LimitHit

(* The counter of the client against what the server has metered: all but  *)
(* the last chunk it wrote to the link, and what it wrote to the visitor.  *)
Unmetered(e) == IF pc[Up(e)] \in {"write", "flush", "meter", "done"} THEN 1 ELSE 0
Ahead(e) == IF pc[Down(e)] = "write" THEN 1 ELSE 0

Flow(e) ==
  Metered(e) => /\ counter <= limit
                /\ Taken(e) + Len(out[e]) + Ahead(e) <= counter + Unmetered(e)

EndInv(e) ==
  Source(e) /\ Sink(e) /\ Wired(e) /\ Sealed(e) /\ Opened(e) /\ EndOK(e) /\ Flow(e)

Inv == TypeOK /\ \A e \in Ends : EndInv(e)

-----------------------------------------------------------------------------
(* The ends and the threads.                                               *)
LEMMA TwoEnds ==
  ASSUME NEW e \in Ends
  PROVE  /\ Other(e) \in Ends /\ Other(e) # e /\ Other(Other(e)) = e
         /\ \A x \in Ends : x = e \/ x = Other(e)
BY DEF Ends, Other

(* Arithmetic for the steps that need little of it.                        *)
LEMMA Further ==
  ASSUME NEW a \in Int, NEW b \in Int, NEW c \in Int, a <= b, c >= b
  PROVE  a <= c
OBVIOUS

LEMMA Sums ==
  ASSUME NEW a \in Nat, NEW b \in Nat
  PROVE  a + b \in Int
OBVIOUS

LEMMA OneShort ==
  ASSUME NEW a \in Nat, NEW b \in Nat, NEW t \in Int, a + b = t - 1
  PROVE  a + (b + 1) = t - 0
OBVIOUS

LEMMA CounterUp ==
  ASSUME NEW c \in Nat, NEW l \in Nat, NEW d,
         d = c \/ (c + 1 <= l /\ d = c + 1)
  PROVE  c <= d /\ (c <= l => d <= l) /\ (c = l => d = l)
OBVIOUS

LEMMA NextIndex ==
  ASSUME NEW l \in Nat, NEW i \in 1..(l - 1)
  PROVE  i + 1 \in 1..l
OBVIOUS

LEMMA SumsOfNats ==
  ASSUME NEW a \in Nat, NEW b \in Nat, NEW c, c = b \/ c = b + 1
  PROVE  a + c \in Int
OBVIOUS

LEMMA NoneMore ==
  ASSUME NEW a \in Nat, NEW s, s = <<>>
  PROVE  a + Len(s) = a
OBVIOUS

LEMMA SealTakes ==
  ASSUME NEW x, Taken(x) \in Int, seal[x] = Taken(x) - Hot(x) + 1, Hot(x) = 1
  PROVE  seal[x] = Taken(x)
OBVIOUS

LEMMA SealKeeps ==
  ASSUME NEW x, Taken(x) \in Int, seal[x] = Taken(x) - Hot(x) + 1, Hot(x) = 0, seal'[x] = seal[x],
         (Taken(x)' = Taken(x) + 1 /\ Hot(x)' = 1) \/ (Taken(x)' = Taken(x) /\ Hot(x)' = 0)
  PROVE  seal'[x] = Taken(x)' - Hot(x)' + 1
OBVIOUS

LEMMA SealMoves ==
  ASSUME NEW x, Taken(x) \in Int, seal[x] = Taken(x), seal'[x] = seal[x] + 1,
         Taken(x)' = Taken(x), Hot(x)' = 0
  PROVE  seal'[x] = Taken(x)' - Hot(x)' + 1
OBVIOUS

LEMMA RecordNew ==
  ASSUME NEW x, NEW z, NEW a \in Int, a >= 1, z.n = a, z.v = a,
         Taken(x)' = a, seal'[x] = a + 1
  PROVE  RecordOK(x, z)'
BY DEF RecordOK

LEMMA Nats ==
  /\ Nat \subseteq Int
  /\ \A n \in Nat : /\ n >= 1 => 1 \in 1..n
                    /\ \A i \in 1..(n + 1) : i \in 1..n \/ i = n + 1
  /\ \A a, b \in Nat : a <= b => /\ b - a >= 0 /\ (b - a) + 1 >= 1
                                 /\ a - 1 <= b
OBVIOUS

LEMMA Same == 1 >= 1 /\ \A a \in Int : a <= a
OBVIOUS

LEMMA FourThreads ==
  /\ \A e \in Ends : Up(e) \in Threads /\ Down(e) \in Threads
  /\ \A e, x \in Ends : Up(e) # Down(x) /\ (Up(e) = Up(x) => e = x)
                                        /\ (Down(e) = Down(x) => e = x)
  /\ \A t \in Threads : t[1] \in Ends /\ t[2] \in Dirs /\ t = <<t[1], t[2]>>
                        /\ (t = Up(t[1]) \/ t = Down(t[1]))
BY DEF Ends, Dirs, Threads, Up, Down

LEMMA SeqOps ==
  ASSUME NEW S, NEW s \in Seq(S)
  PROVE  /\ \A x \in S : Append(s, x) \in Seq(S)
         /\ \A z \in Seq(S) : s \o z \in Seq(S)
         /\ s # <<>> => Head(s) \in S /\ Tail(s) \in Seq(S)
OBVIOUS

LEMMA SeqAt ==
  ASSUME NEW S, NEW s \in Seq(S)
  PROVE  /\ Len(s) \in Nat
         /\ \A x \in S : /\ Len(Append(s, x)) = Len(s) + 1
                         /\ \A i \in 1..Len(s) : Append(s, x)[i] = s[i]
                         /\ Append(s, x)[Len(s) + 1] = x
         /\ s # <<>> => /\ Len(s) >= 1 /\ Len(Tail(s)) = Len(s) - 1 /\ Head(s) = s[1]
                        /\ \A i \in 1..Len(Tail(s)) : Tail(s)[i] = s[i + 1]
<1>1. Len(s) \in Nat
  OBVIOUS
<1>2. \A x \in S : /\ Len(Append(s, x)) = Len(s) + 1
                   /\ \A i \in 1..Len(s) : Append(s, x)[i] = s[i]
                   /\ Append(s, x)[Len(s) + 1] = x
  OBVIOUS
<1>3. s # <<>> => /\ Len(s) >= 1 /\ Len(Tail(s)) = Len(s) - 1 /\ Head(s) = s[1]
                  /\ \A i \in 1..Len(Tail(s)) : Tail(s)[i] = s[i + 1]
  OBVIOUS
<1> QED BY <1>1, <1>2, <1>3

LEMMA SeqJoin ==
  ASSUME NEW S, NEW s \in Seq(S), NEW z \in Seq(S)
  PROVE  /\ Len(s \o z) = Len(s) + Len(z) /\ Len(s) \in Nat
         /\ \A i \in 1..Len(s) + Len(z) :
              (s \o z)[i] = IF i <= Len(s) THEN s[i] ELSE z[i - Len(s)]
OBVIOUS

Longer(s, t, x) ==
  /\ Len(t) = Len(s) + 1
  /\ \A i \in 1..Len(s) : t[i] = s[i]
  /\ t[Len(s) + 1] = x

LEMMA OneMore ==
  ASSUME NEW S, NEW s \in Seq(S), NEW z \in Seq(S), Len(z) = 1, NEW t, t = s \o z
  PROVE  Longer(s, t, z[1])
<1>1. Len(s \o z) = Len(s) + Len(z) /\ Len(s) \in Nat
  BY SeqJoin, Zenon
<1>2. \A i \in 1..Len(s) + Len(z) : (s \o z)[i] = IF i <= Len(s) THEN s[i] ELSE z[i - Len(s)]
  BY SeqJoin, Zenon
<1>3. \A i \in 1..Len(s) : (s \o z)[i] = s[i]
  BY <1>1, <1>2
<1>4. (s \o z)[Len(s) + 1] = z[1]
  BY <1>1, <1>2
<1> QED BY <1>1, <1>3, <1>4 DEF Longer

LEMMA WireGrows ==
  ASSUME NEW x, wire[x] \in Seq(Records), NEW z, z \in Seq(Records), Len(z) = 1,
         wire'[x] = wire[x] \o z
  PROVE  /\ Len(wire'[x]) = Len(wire[x]) + 1
         /\ \A i \in 1..Len(wire[x]) : wire'[x][i] = wire[x][i]
         /\ wire'[x][Len(wire[x]) + 1] = z[1]
<1>1. Longer(wire[x], wire'[x], z[1])
  BY OneMore, Zenon
<1> QED BY <1>1, Zenon DEF Longer

LEMMA PutType ==
  ASSUME NEW D, NEW R, NEW f \in [D -> R], NEW d \in D, NEW x \in R
  PROVE  /\ [f EXCEPT ![d] = x] \in [D -> R]
         /\ [f EXCEPT ![d] = x][d] = x
         /\ \A c \in D : c # d => [f EXCEPT ![d] = x][c] = f[c]
OBVIOUS


LEMMA TypeInit == Init => TypeOK
<1> SUFFICES ASSUME Init
             PROVE  TypeOK
  OBVIOUS
<1>1. <<>> \in Seq(Nat) /\ <<>> \in Seq(Records)
  OBVIOUS
<1>2. crypt \in BOOLEAN /\ limit \in Nat /\ counter \in Nat
  BY RelayAssumption DEF Init
<1>3. \A S : <<>> \in Seq(S) => [e \in Ends |-> <<>>] \in [Ends -> Seq(S)]
                               /\ [t \in Threads |-> <<>>] \in [Threads -> Seq(S)]
  OBVIOUS
<1>4. /\ in \in [Ends -> Seq(Nat)] /\ out \in [Ends -> Seq(Nat)] /\ plain \in [Ends -> Seq(Nat)]
      /\ pend \in [Ends -> Seq(Records)] /\ hold \in [Threads -> Seq(Records)]
      /\ wire \in [Ends -> Seq(Records)]
  BY <1>1, <1>3 DEF Init
<1> QED BY <1>2, <1>4, Zenon DEF Init, TypeOK, Labels

LEMMA TypePeers ==
  ASSUME TypeOK, NEW e \in Ends,
         PeerSends(e) \/ PeerShuts(e) \/ PeerResets(e) \/ LinkBreaks \/ OtherTraffic
  PROVE  TypeOK'
<1>1. CASE PeerSends(e)
  <2>1. sent[e] + 1 \in Nat /\ Append(in[e], sent[e] + 1) \in Seq(Nat)
    BY SeqOps DEF TypeOK
  <2>2. sent' \in [Ends -> Nat] /\ in' \in [Ends -> Seq(Nat)]
    BY <1>1, <2>1 DEF PeerSends, TypeOK
  <2> QED BY <1>1, <2>2, Zenon DEF PeerSends, TypeOK, policy, tls, link
<1>2. CASE PeerShuts(e)
  BY <1>2, Zenon DEF PeerShuts, TypeOK, policy, tls, link
<1>3. CASE PeerResets(e)
  BY <1>3, Zenon DEF PeerResets, TypeOK, policy, tls, link
<1>4. CASE LinkBreaks
  BY <1>4, Zenon DEF LinkBreaks, TypeOK, policy, tls, locals
<1>5. CASE OtherTraffic
  BY <1>5 DEF OtherTraffic, TypeOK, policy, tls, locals, link
<1> QED BY <1>1, <1>2, <1>3, <1>4, <1>5

LEMMA PcType ==
  ASSUME TypeOK, NEW t \in Threads
  PROVE  /\ \A l \in Labels : Goto(t, l) => pc' \in [Threads -> Labels]
         /\ Fails(t) => pc' \in [Threads -> Labels] /\ hold' \in [Threads -> Seq(Records)]
<1>1. "done" \in Labels /\ <<>> \in Seq(Records)
  BY DEF Labels
<1>2. pc \in [Threads -> Labels] /\ hold \in [Threads -> Seq(Records)]
  BY DEF TypeOK
<1> QED BY <1>1, <1>2, Zenon DEF Goto, Fails

LEMMA TypeReadLocal ==
  ASSUME TypeOK, NEW e \in Ends, ReadLocal(e)
  PROVE  TypeOK'
<1>1. Up(e) \in Threads /\ in[e] \in Seq(Nat)
  BY FourThreads DEF TypeOK
<1>2. in[e] # <<>> => Head(in[e]) \in Nat /\ Tail(in[e]) \in Seq(Nat)
  BY <1>1, SeqOps
<1>3. buf' \in [Threads -> Nat] /\ in' \in [Ends -> Seq(Nat)]
  <2>1. CASE in[e] # <<>> /\ buf' = [buf EXCEPT ![Up(e)] = Head(in[e])]
                        /\ in' = [in EXCEPT ![e] = Tail(@)]
    BY <1>1, <1>2, <2>1, Zenon DEF TypeOK
  <2>2. CASE UNCHANGED <<buf, in>>
    BY <2>2 DEF TypeOK
  <2> QED BY <2>1, <2>2 DEF ReadLocal, Up
<1>4. pc' \in [Threads -> Labels] /\ hold' \in [Threads -> Seq(Records)]
  BY <1>1, PcType, Zenon DEF ReadLocal, TypeOK, Up, Labels
<1> QED BY <1>3, <1>4, Zenon DEF ReadLocal, TypeOK, policy, link

LEMMA SealType ==
  ASSUME TypeOK, NEW e \in Ends, NEW v \in Nat, Seal(e, v)
  PROVE  pend' \in [Ends -> Seq(Records)] /\ seal' \in [Ends -> Nat]
<1>1. [n |-> seal[e], v |-> v] \in Records /\ seal[e] + 1 \in Nat
  BY DEF TypeOK, Records
<1>2. Append(pend[e], [n |-> seal[e], v |-> v]) \in Seq(Records)
  BY <1>1, SeqOps DEF TypeOK
<1> QED BY <1>1, <1>2, PutType, Zenon DEF Seal, TypeOK

LEMMA TypeWriteLink ==
  ASSUME TypeOK, NEW e \in Ends, WriteLink(e)
  PROVE  TypeOK'
<1>1. Up(e) \in Threads /\ buf[Up(e)] \in Nat /\ wire[e] \in Seq(Records)
  BY FourThreads DEF TypeOK
<1>2. <<[n |-> 0, v |-> buf[Up(e)]]>> \in Seq(Records)
  <2>1. [n |-> 0, v |-> buf[Up(e)]] \in Records
    BY <1>1 DEF Records
  <2> QED BY <2>1
<1>3. wire[e] \o Written(Up(e)) \in Seq(Records)
  BY <1>1, <1>2, SeqOps DEF Written
<1>4. wire' \in [Ends -> Seq(Records)]
  BY <1>3, Zenon DEF WriteLink, TypeOK, Up
<1>5. pend' \in [Ends -> Seq(Records)] /\ seal' \in [Ends -> Nat]
  BY <1>1, SealType, Zenon DEF WriteLink, TypeOK, Up
<1>6. AfterWrite(e) \in Labels /\ "flush" \in Labels
  BY DEF AfterWrite, Labels
<1>7. pc' \in [Threads -> Labels] /\ hold' \in [Threads -> Seq(Records)]
  BY <1>1, <1>6, PcType, Zenon DEF WriteLink, TypeOK, Up
<1> QED BY <1>4, <1>5, <1>7, Zenon DEF WriteLink, TypeOK, policy, locals

LEMMA TypeCloseLink ==
  ASSUME TypeOK, NEW e \in Ends, CloseLink(e) \/ ShutLink(e)
  PROVE  TypeOK'
<1>1. Up(e) \in Threads
  BY FourThreads
<1>2. pc' \in [Threads -> Labels]
  BY <1>1, PcType DEF CloseLink, ShutLink, Up, Labels
<1>3. pend' \in [Ends -> Seq(Records)] /\ seal' \in [Ends -> Nat]
  BY SealType, Zenon DEF CloseLink, ShutLink, TypeOK, tls
<1> QED BY <1>2, <1>3, Zenon DEF CloseLink, ShutLink, TypeOK, policy, locals, tls

LEMMA TypeFlush ==
  ASSUME TypeOK, NEW t \in Threads, TakePending(t) \/ WriteTaken(t) \/ Meter(t)
  PROVE  TypeOK'
<1>1. t[1] \in Ends /\ <<>> \in Seq(Records)
  BY FourThreads
<1>2. pend[t[1]] \in Seq(Records) /\ hold[t] \in Seq(Records) /\ wire[t[1]] \in Seq(Records)
  BY <1>1 DEF TypeOK
<1>3. wire[t[1]] \o hold[t] \in Seq(Records)
  BY <1>2, SeqOps
<1>4. CASE TakePending(t)
  <2>1. AfterFlush(t[1], pc[t]) \in Labels
    BY <1>4 DEF TakePending, AfterFlush, AfterWrite, Flushing, Labels
  <2>2. pc' \in [Threads -> Labels]
    BY <1>4, <2>1, PcType, Zenon DEF TakePending, TypeOK
  <2>3. pend' \in [Ends -> Seq(Records)] /\ hold' \in [Threads -> Seq(Records)]
    <3>1. CASE /\ hold' = [hold EXCEPT ![t] = pend[t[1]]]
               /\ pend' = [pend EXCEPT ![t[1]] = <<>>]
      BY <1>1, <1>2, <3>1 DEF TypeOK
    <3>2. CASE UNCHANGED <<pend, hold>>
      BY <3>2 DEF TypeOK
    <3> QED BY <1>4, <3>1, <3>2, Zenon DEF TakePending
  <2> QED BY <1>4, <2>2, <2>3, Zenon DEF TakePending, TypeOK, policy, locals, link
<1>5. CASE WriteTaken(t)
  <2>1. wire' \in [Ends -> Seq(Records)]
    BY <1>1, <1>3, <1>5, Zenon DEF WriteTaken, TypeOK
  <2>2. pc' \in [Threads -> Labels] /\ hold' \in [Threads -> Seq(Records)]
    <3>1. CASE Fails(t)
      BY <3>1, PcType
    <3>2. CASE hold' = [hold EXCEPT ![t] = <<>>] /\ UNCHANGED pc
      BY <1>1, <3>2 DEF TypeOK
    <3> QED BY <1>5, <3>1, <3>2, Zenon DEF WriteTaken
  <2> QED BY <1>5, <2>1, <2>2, Zenon DEF WriteTaken, TypeOK, policy, locals
<1>6. CASE Meter(t)
  <2>1. pc' \in [Threads -> Labels] /\ hold' \in [Threads -> Seq(Records)]
    BY <1>6, PcType, Zenon DEF Meter, Record, TypeOK, Labels
  <2>2. counter' \in Nat
    BY <1>6 DEF Meter, Record, TypeOK
  <2> QED BY <1>6, <2>1, <2>2 DEF Meter, TypeOK, policy, locals, link
<1> QED BY <1>4, <1>5, <1>6

LEMMA TypeReadWire ==
  ASSUME TypeOK, NEW e \in Ends, ReadWire(e) \/ ReadPlain(e) \/ WriteLocal(e)
  PROVE  TypeOK'
<1> DEFINE o == Other(e)
           r == Head(wire[o])
<1>1. /\ Down(e) \in Threads /\ o \in Ends /\ buf[Down(e)] \in Nat
      /\ wire[o] \in Seq(Records) /\ plain[e] \in Seq(Nat) /\ out[e] \in Seq(Nat)
  BY FourThreads, TwoEnds, Zenon DEF TypeOK
<1>2. wire[o] # <<>> => Tail(wire[o]) \in Seq(Records) /\ r.n \in Nat /\ r.v \in Nat
  <2>1. wire[o] # <<>> => Tail(wire[o]) \in Seq(Records) /\ r \in Records
    BY <1>1, SeqOps, Zenon
  <2> QED BY <2>1 DEF Records
<1>3. wire[o] # <<>> => Append(plain[e], r.v) \in Seq(Nat)
  BY <1>1, <1>2, SeqOps, Zenon
<1>4. plain[e] # <<>> => Head(plain[e]) \in Nat /\ Tail(plain[e]) \in Seq(Nat)
  BY <1>1, SeqOps
<1>5. Append(out[e], buf[Down(e)]) \in Seq(Nat)
  BY <1>1, SeqOps
<1>6. AfterRead(e) \in Labels /\ {"read", "fed", "done"} \subseteq Labels
  BY DEF AfterRead, Labels
<1>7. CASE ReadWire(e)
  <2>1. wire' \in [Ends -> Seq(Records)]
    BY <1>1, <1>2, <1>7, Zenon DEF ReadWire, TypeOK
  <2>2. buf' \in [Threads -> Nat]
    BY <1>1, <1>2, <1>7, Zenon DEF ReadWire, TypeOK, Down
  <2>3. plain' \in [Ends -> Seq(Nat)]
    BY <1>1, <1>3, <1>7, Zenon DEF ReadWire, TypeOK
  <2>4. open' \in [Ends -> Nat] /\ told' \subseteq Ends
    <3>1. CASE open' = [open EXCEPT ![o] = @ + 1] /\ told' = told
      <4>1. open \in [Ends -> Nat] /\ told \subseteq Ends
        BY DEF TypeOK
      <4>2. o \in Ends
        BY <1>1
      <4> HIDE DEF o
      <4> QED BY <3>1, <4>1, <4>2
    <3>2. CASE open' = open /\ told' \in {told, told \union {e}}
      BY <3>2 DEF TypeOK
    <3> QED BY <1>7, <3>1, <3>2, Zenon DEF ReadWire
  <2>5. pc' \in [Threads -> Labels] /\ hold' \in [Threads -> Seq(Records)]
    BY <1>1, <1>6, <1>7, PcType, Zenon DEF ReadWire, TypeOK, Down
  <2> QED BY <1>7, <2>1, <2>2, <2>3, <2>4, <2>5, Zenon DEF ReadWire, TypeOK, policy
<1>8. CASE ReadPlain(e)
  <2>1. buf' \in [Threads -> Nat] /\ plain' \in [Ends -> Seq(Nat)]
    BY <1>1, <1>4, <1>8, PutType, Zenon DEF ReadPlain, TypeOK, Down
  <2>2. pc' \in [Threads -> Labels]
    BY <1>1, <1>6, <1>8, PcType, Zenon DEF ReadPlain, Down
  <2> QED BY <1>8, <2>1, <2>2, Zenon DEF ReadPlain, TypeOK, policy, locals, link
<1>9. CASE WriteLocal(e)
  <2>1. out' \in [Ends -> Seq(Nat)]
    BY <1>1, <1>5, <1>9, Zenon DEF WriteLocal, TypeOK, Down
  <2>2. pc' \in [Threads -> Labels] /\ hold' \in [Threads -> Seq(Records)]
    BY <1>1, <1>6, <1>9, PcType, Zenon DEF WriteLocal, TypeOK, Down
  <2> QED BY <1>9, <2>1, <2>2, Zenon DEF WriteLocal, TypeOK, policy, link
<1> QED BY <1>7, <1>8, <1>9

LEMMA TypeNext ==
  ASSUME TypeOK, [Next]_vars
  PROVE  TypeOK'
<1>1. CASE \E e \in Ends : PeerSends(e) \/ PeerShuts(e) \/ PeerResets(e)
  BY <1>1, TypePeers
<1>2. CASE LinkBreaks \/ OtherTraffic
  <2>1. "server" \in Ends
    BY DEF Ends
  <2> QED BY <1>2, <2>1, TypePeers
<1>3. CASE \E t \in Threads : Copy(t)
  <2> PICK t \in Threads : Copy(t)
    BY <1>3
  <2>1. t[1] \in Ends
    BY FourThreads
  <2> QED BY <2>1, TypeReadLocal, TypeWriteLink, TypeCloseLink, TypeFlush, TypeReadWire, Zenon DEF Copy
<1>4. CASE UNCHANGED vars
  BY <1>4, Zenon DEF vars, TypeOK
<1> QED BY <1>1, <1>2, <1>3, <1>4 DEF Next

(* Every variable keeps its type: the threads, records and counters of the *)
(* relay, for any number of chunks and any limit.                          *)
THEOREM TypeCorrect == Spec => []TypeOK
<1>1. Init => TypeOK
  BY TypeInit
<1>2. TypeOK /\ [Next]_vars => TypeOK'
  BY TypeNext
<1> QED BY <1>1, <1>2, PTL DEF Spec

(* The invariant holds initially.                                          *)
LEMMA InvInit ==
  ASSUME Init
  PROVE  Inv
<1>1. TypeOK
  BY TypeInit
<1>2. ASSUME NEW e \in Ends PROVE EndInv(e)
  <2> DEFINE o == Other(e)
  <2>1. o \in Ends /\ Up(e) \in Threads /\ Down(e) \in Threads /\ Up(o) \in Threads /\ Down(o) \in Threads
    BY TwoEnds, FourThreads, Zenon
  <2>2. /\ in[e] = <<>> /\ out[e] = <<>> /\ in[o] = <<>> /\ sent[e] = 0 /\ sent[o] = 0
        /\ told = {} /\ fin = {} /\ plain[e] = <<>>
        /\ pend[e] = <<>> /\ pend[o] = <<>> /\ wire[e] = <<>> /\ wire[o] = <<>>
        /\ seal[e] = 1 /\ seal[o] = 1 /\ open[o] = 1 /\ counter \in 0..limit /\ limit \in Nat
    BY <1>1, <2>1, Zenon DEF Init, TypeOK
  <2>3. /\ pc[Up(e)] = "read" /\ pc[Down(e)] = "read" /\ pc[Up(o)] = "read"
        /\ hold[Up(e)] = <<>> /\ hold[Down(e)] = <<>> /\ hold[Up(o)] = <<>> /\ hold[Down(o)] = <<>>
    BY <2>1, Zenon DEF Init
  <2>4. Len(in[e]) = 0 /\ Len(in[o]) = 0 /\ Len(out[e]) = 0 /\ Len(wire[o]) = 0 /\ Len(plain[e]) = 0
    BY <2>2, Zenon
  <2>5. Taken(e) = 0 /\ Taken(o) = 0
    <3>1. sent[e] = 0 /\ Len(in[e]) = 0 /\ sent[o] = 0 /\ Len(in[o]) = 0
      BY <2>2, <2>4, Zenon
    <3> HIDE DEF o
    <3> QED BY <3>1 DEF Taken
  <2>6. /\ Hot(e) = 0 /\ Hot(o) = 0 /\ Held(e) = 0 /\ Ahead(e) = 0 /\ Unmetered(e) = 0
    BY <2>3, Zenon DEF Hot, Held, Ahead, Unmetered
  <2>7. Got(e) = 0
    BY <2>4, <2>6 DEF Got
  <2>8. InFlight(e) = {}
    BY <2>2, <2>3 DEF InFlight, Elems
  <2>9. Source(e)
    BY <2>2, <2>3, <2>4 DEF Source, Closing
  <2>10. Sink(e)
    BY <2>2, <2>3, <2>4, <2>5, <2>6, <2>7 DEF Sink
  <2>11. Wired(e)
    BY <2>2, <2>3, <2>4, <2>5, <2>6, <2>7 DEF Wired
  <2>12. Sealed(e)
    BY <2>2, <2>5, <2>6, <2>8 DEF Sealed
  <2>13. Opened(e)
    BY <2>2, <2>4, <2>5, <2>7 DEF Opened
  <2>14. EndOK(e)
    BY <2>2, Zenon DEF EndOK
  <2>15. Flow(e)
    BY <2>2, <2>4, <2>5, <2>6 DEF Flow
  <2> QED BY <2>9, <2>10, <2>11, <2>12, <2>13, <2>14, <2>15 DEF EndInv
<1> QED BY <1>1, <1>2 DEF Inv

-----------------------------------------------------------------------------
(* What a step leaves alone of an end: of the thread that reads the local  *)
(* socket, of the thread that writes it, and of the records under way.     *)
QuietUp(e) ==
  /\ pc'[Up(e)] = pc[Up(e)] /\ buf'[Up(e)] = buf[Up(e)]
  /\ Taken(e)' = Taken(e) /\ seal'[e] = seal[e] /\ (e \in fin' <=> e \in fin)
QuietIn(e) == in'[e] = in[e] /\ sent'[e] = sent[e]
QuietDown(e) ==
  /\ pc'[Down(e)] = pc[Down(e)] /\ buf'[Down(e)] = buf[Down(e)]
  /\ out'[e] = out[e] /\ (e \in told' <=> e \in told)
  /\ plain'[e] = plain[e] /\ open'[Other(e)] = open[Other(e)]
QuietLink(e) ==
  /\ wire'[e] = wire[e] /\ pend'[e] = pend[e]
  /\ hold'[Up(e)] \in {hold[Up(e)], <<>>} /\ hold'[Down(e)] \in {hold[Down(e)], <<>>}

(* What no step takes back.                                                *)
Onward ==
  /\ crypt' = crypt /\ limit' = limit
  /\ broken => broken'
  /\ counter <= counter' /\ (counter <= limit => counter' <= limit)
  /\ LimitHit => LimitHit'
  /\ \A e \in Ends : /\ peer[e] # "open" => peer'[e] # "open" /\ sent'[e] = sent[e]
                     /\ peer[e] = "reset" => peer'[e] = "reset"
                     /\ peer[e] = "shut" => peer'[e] \in {"shut", "reset"}

LEMMA SourceFrame ==
  ASSUME NEW e \in Ends, Onward, QuietUp(e), QuietIn(e), Source(e)
  PROVE  Source(e)'
BY Zenon DEF Onward, QuietUp, QuietIn, Source, Metered, Taken

LEMMA SinkFrame ==
  ASSUME NEW e \in Ends, QuietUp(Other(e)), QuietDown(e), Sink(e)
  PROVE  Sink(e)'
BY Zenon DEF QuietUp, QuietDown, Sink, Held, Got

LEMMA WiredFrame ==
  ASSUME NEW e \in Ends, Onward, QuietUp(Other(e)), QuietDown(e), QuietLink(Other(e)), Wired(e)
  PROVE  Wired(e)'
<1>1. Other(e) \in Ends
  BY TwoEnds, Zenon
<1> QED BY <1>1, Zenon DEF Onward, QuietUp, QuietDown, QuietLink, Wired, Hot, Held, Got

LEMMA RecordKept ==
  ASSUME TypeOK, NEW e \in Ends, NEW r \in Records, RecordOK(e, r),
         seal'[e] \in Nat, seal'[e] >= seal[e], Taken(e) \in Int, Taken(e)' \in Int, Taken(e)' >= Taken(e),
         pc[Up(e)] \in Ended => pc'[Up(e)] \in Ended /\ seal'[e] = seal[e]
  PROVE  RecordOK(e, r)'
<1>1. r.n \in Nat /\ r.v \in Nat /\ seal[e] \in Nat
  BY Zenon DEF Records, TypeOK
<1> QED BY <1>1 DEF RecordOK

LEMMA OpenedFrame ==
  ASSUME NEW e \in Ends, Onward, QuietUp(Other(e)), QuietDown(e), Opened(e)
  PROVE  Opened(e)'
BY Zenon DEF Onward, QuietUp, QuietDown, Opened, Held, Got

LEMMA EndOKFrame ==
  ASSUME NEW e \in Ends, Onward, out'[e] = out[e], e \in told' <=> e \in told, EndOK(e)
  PROVE  EndOK(e)'
<1>1. Other(e) \in Ends
  BY TwoEnds, Zenon
<1> QED BY <1>1, Zenon DEF Onward, EndOK

LEMMA FlowFrame ==
  ASSUME TypeOK, TypeOK', NEW e \in Ends, Onward, QuietUp(e), QuietDown(e), Flow(e),
         Taken(e) \in Int
  PROVE  Flow(e)'
<1>1. counter \in Nat /\ counter' \in Nat /\ limit \in Nat /\ Len(out[e]) \in Nat
  BY DEF TypeOK
<1> QED BY <1>1 DEF Onward, QuietUp, QuietDown, Flow, Metered, Ahead, Unmetered

(* The records under way, and where they can come from in a step.          *)
LEMMA ElemsOps ==
  ASSUME NEW S, NEW s \in Seq(S)
  PROVE  /\ Elems(s) \subseteq S /\ Elems(<<>>) = {}
         /\ \A x \in S : Elems(Append(s, x)) \subseteq Elems(s) \union {x}
         /\ \A z \in Seq(S) : Elems(s \o z) \subseteq Elems(s) \union Elems(z)
         /\ s # <<>> => Elems(Tail(s)) \subseteq Elems(s) /\ Head(s) \in Elems(s)
<1>1. Elems(s) \subseteq S /\ Elems(<<>>) = {}
  BY DEF Elems
<1>2. \A x \in S : Elems(Append(s, x)) \subseteq Elems(s) \union {x}
  <2> TAKE x \in S
  <2>1. Len(Append(s, x)) = Len(s) + 1 /\ Len(s) \in Nat
    OBVIOUS
  <2>2. \A i \in 1..Len(s) + 1 : Append(s, x)[i] \in Elems(s) \union {x}
    BY <2>1 DEF Elems
  <2> QED BY <2>1, <2>2 DEF Elems
<1>3. \A z \in Seq(S) : Elems(s \o z) \subseteq Elems(s) \union Elems(z)
  <2> TAKE z \in Seq(S)
  <2>1. Len(s \o z) = Len(s) + Len(z) /\ Len(s) \in Nat /\ Len(z) \in Nat
    OBVIOUS
  <2>2. \A i \in 1..Len(s) + Len(z) : (s \o z)[i] \in Elems(s) \union Elems(z)
    <3> TAKE i \in 1..Len(s) + Len(z)
    <3>1. (s \o z)[i] = IF i <= Len(s) THEN s[i] ELSE z[i - Len(s)]
      OBVIOUS
    <3> QED BY <2>1, <3>1 DEF Elems
  <2> QED BY <2>1, <2>2, Zenon DEF Elems
<1>4. s # <<>> => Elems(Tail(s)) \subseteq Elems(s) /\ Head(s) \in Elems(s)
  <2> HAVE s # <<>>
  <2>1. Len(s) \in Nat /\ Len(s) >= 1 /\ Len(Tail(s)) = Len(s) - 1 /\ Head(s) = s[1]
    OBVIOUS
  <2>2. \A i \in 1..Len(Tail(s)) : Tail(s)[i] = s[i + 1]
    OBVIOUS
  <2> QED BY <2>1, <2>2 DEF Elems
<1> QED BY <1>1, <1>2, <1>3, <1>4, Zenon

LEMMA ElemsAppend ==
  ASSUME NEW S, NEW s \in Seq(S), NEW x \in S, NEW t, t = Append(s, x)
  PROVE  Elems(t) \subseteq Elems(s) \union {x}
BY ElemsOps, Zenon

LEMMA FlightType ==
  ASSUME TypeOK, NEW e \in Ends
  PROVE  InFlight(e) \subseteq Records
<1>1. /\ pend[e] \in Seq(Records) /\ wire[e] \in Seq(Records)
      /\ hold[Up(e)] \in Seq(Records) /\ hold[Down(e)] \in Seq(Records)
  BY FourThreads, Zenon DEF TypeOK
<1> QED BY <1>1, ElemsOps DEF InFlight

LEMMA SealedFrame ==
  ASSUME TypeOK, NEW e \in Ends, Onward, QuietUp(e), Sealed(e), Taken(e) \in Int,
         crypt => InFlight(e)' \subseteq InFlight(e)
  PROVE  Sealed(e)'
<1>1. crypt' = crypt /\ seal'[e] = seal[e] /\ Taken(e)' = Taken(e) /\ pc'[Up(e)] = pc[Up(e)]
  BY Zenon DEF Onward, QuietUp
<1>2. crypt => \A r \in InFlight(e)' : RecordOK(e, r)'
  BY <1>1, Zenon DEF Sealed, RecordOK
<1> QED BY <1>1, <1>2, Zenon DEF Sealed, Hot

LEMMA FlightFrame ==
  ASSUME TypeOK, NEW e \in Ends, QuietLink(e)
  PROVE  InFlight(e)' \subseteq InFlight(e)
<1>1. Elems(<<>>) = {}
  BY DEF Elems
<1> QED BY <1>1, Zenon DEF InFlight, QuietLink

(* The numbers the invariant is about.                                     *)
LEMMA Numbers ==
  ASSUME TypeOK, NEW e \in Ends
  PROVE  /\ Taken(e) \in Int /\ Hot(e) \in {0, 1} /\ Held(e) \in {0, 1}
         /\ Len(in[e]) \in Nat /\ Len(out[e]) \in Nat /\ Got(e) \in Nat
         /\ Len(wire[e]) \in Nat /\ Len(plain[e]) \in Nat /\ seal[e] \in Nat /\ open[e] \in Nat
         /\ sent[e] \in Nat /\ counter \in Nat /\ limit \in Nat
<1>1. /\ in[e] \in Seq(Nat) /\ out[e] \in Seq(Nat) /\ wire[e] \in Seq(Records)
      /\ plain[e] \in Seq(Nat) /\ sent[e] \in Nat /\ seal[e] \in Nat /\ open[e] \in Nat
      /\ counter \in Nat /\ limit \in Nat
  BY Zenon DEF TypeOK
<1>2. Len(in[e]) \in Nat /\ Len(out[e]) \in Nat /\ Len(wire[e]) \in Nat /\ Len(plain[e]) \in Nat
  BY <1>1
<1>3. Hot(e) \in {0, 1} /\ Held(e) \in {0, 1}
  BY DEF Hot, Held
<1>4. Taken(e) \in Int
  BY <1>1, <1>2 DEF Taken
<1>5. Got(e) \in Nat
  BY <1>2, <1>3 DEF Got
<1> QED BY <1>1, <1>2, <1>3, <1>4, <1>5, Zenon

LEMMA OnwardNext ==
  ASSUME TypeOK, Next
  PROVE  Onward
<1>1. counter \in Nat /\ limit \in Nat /\ peer \in [Ends -> {"open", "shut", "reset"}]
      /\ sent \in [Ends -> Nat]
  BY Zenon DEF TypeOK
<1>2. ASSUME NEW e \in Ends, PeerSends(e) \/ PeerShuts(e) \/ PeerResets(e) PROVE Onward
  BY <1>1, <1>2 DEF PeerSends, PeerShuts, PeerResets, Onward, LimitHit, policy, link
<1>3. CASE LinkBreaks \/ OtherTraffic
  BY <1>1, <1>3 DEF LinkBreaks, OtherTraffic, Onward, LimitHit, policy, locals, link
<1>4. ASSUME NEW t \in Threads, Copy(t) PROVE Onward
  <2>1. UNCHANGED <<crypt, limit, peer, sent, broken>>
    BY <1>4, Zenon DEF Copy, ReadLocal, WriteLink, CloseLink, ShutLink, ReadWire, ReadPlain, WriteLocal,
                TakePending, WriteTaken, Meter, policy, locals, link
  <2>2. CASE Meter(t)
    <3>1. counter' = counter \/ (counter + 1 <= limit /\ counter' = counter + 1)
      BY <2>2, Zenon DEF Meter, Record
    <3>2. /\ counter <= counter' /\ (counter <= limit => counter' <= limit)
          /\ (counter = limit => counter' = limit)
      BY <1>1, <3>1, CounterUp, Zenon
    <3> QED BY <2>1, <3>2, Zenon DEF Onward, LimitHit
  <2>3. CASE ~Meter(t)
    <3>1. UNCHANGED counter
      BY <1>4, <2>3, Zenon DEF Copy, ReadLocal, WriteLink, CloseLink, ShutLink, ReadWire, ReadPlain,
                        WriteLocal, TakePending, WriteTaken
    <3> QED BY <1>1, <2>1, <3>1 DEF Onward, LimitHit
  <2> QED BY <2>2, <2>3
<1> QED BY <1>2, <1>3, <1>4 DEF Next


(* An end that a step leaves alone, both of its threads and both sides of  *)
(* the link, keeps its invariant.                                          *)
LEMMA Frame ==
  ASSUME TypeOK, TypeOK', Onward, NEW e \in Ends, EndInv(e),
         QuietUp(e), QuietIn(e), QuietDown(e), QuietLink(e),
         QuietUp(Other(e)), QuietLink(Other(e))
  PROVE  EndInv(e)'
<1>1. Taken(e) \in Int
  BY Numbers, Zenon
<1>2. Source(e)' /\ Sink(e)' /\ Wired(e)'
  BY SourceFrame, SinkFrame, WiredFrame, Zenon DEF EndInv
<1>3. Sealed(e)'
  BY <1>1, FlightFrame, SealedFrame DEF EndInv
<1>4. Opened(e)' /\ Flow(e)'
  BY <1>1, OpenedFrame, FlowFrame, Zenon DEF EndInv
<1>5. EndOK(e)'
  BY EndOKFrame, Zenon DEF EndInv, QuietDown
<1> QED BY <1>2, <1>3, <1>4, <1>5, Zenon DEF EndInv

(* The peers, the network and the other connections.                       *)
LEMMA InvPeerSends ==
  ASSUME Inv, TypeOK', Onward, NEW x \in Ends, PeerSends(x)
  PROVE  \A e \in Ends : EndInv(e)'
<1>1. /\ in[x] \in Seq(Nat) /\ sent[x] \in Nat /\ sent[x] + 1 \in Nat
      /\ in' = [in EXCEPT ![x] = Append(in[x], sent[x] + 1)] /\ sent' = [sent EXCEPT ![x] = sent[x] + 1]
      /\ in \in [Ends -> Seq(Nat)] /\ sent \in [Ends -> Nat]
  BY Zenon DEF Inv, TypeOK, PeerSends
<1>2. /\ in'[x] = Append(in[x], sent[x] + 1) /\ sent'[x] = sent[x] + 1
      /\ \A e \in Ends : e # x => in'[e] = in[e] /\ sent'[e] = sent[e]
  BY <1>1, Zenon
<1>3. Len(in'[x]) = Len(in[x]) + 1 /\ Len(in[x]) \in Nat
  BY <1>1, <1>2
<1>4. \A e \in Ends : Taken(e)' = Taken(e)
  BY <1>1, <1>2, <1>3 DEF Taken
<1>5. UNCHANGED <<pc, buf, out, told, pend, hold, seal, open, plain, wire, fin>>
  BY Zenon DEF PeerSends, tls, link
<1>6. \A e \in Ends : QuietUp(e) /\ QuietDown(e) /\ QuietLink(e)
  BY <1>4, <1>5, Zenon DEF QuietUp, QuietDown, QuietLink
<1>7. ASSUME NEW e \in Ends PROVE EndInv(e)'
  <2>1. Other(e) \in Ends /\ Taken(e) \in Int /\ EndInv(e)
    BY TwoEnds, Numbers, Zenon DEF Inv
  <2>2. Sink(e)' /\ Wired(e)'
    BY <1>6, <2>1, SinkFrame, WiredFrame, Zenon DEF EndInv
  <2>3. Sealed(e)'
    BY <1>6, <2>1, FlightFrame, SealedFrame, Zenon DEF EndInv, Inv
  <2>4. Opened(e)' /\ Flow(e)' /\ EndOK(e)'
    BY <1>6, <2>1, OpenedFrame, FlowFrame, EndOKFrame, Zenon DEF EndInv, QuietDown, Inv
  <2>5. Source(e)'
    <3>1. CASE e # x
      BY <1>2, <1>6, <2>1, <3>1, SourceFrame, Zenon DEF QuietIn, EndInv
    <3>2. CASE e = x
      <4>1. Source(x) /\ Taken(x)' = Taken(x) /\ Taken(x) = sent[x] - Len(in[x])
        BY <1>4, <2>1, <3>2, Zenon DEF EndInv, Taken
      <4>2. \A i \in 1..Len(in'[x]) : in'[x][i] = Taken(x) + i
        <5> TAKE i \in 1..Len(in'[x])
        <5>1. i \in 1..Len(in[x]) \/ i = Len(in[x]) + 1
          BY <1>3
        <5>2. i \in 1..Len(in[x]) => in'[x][i] = in[x][i]
          BY <1>1, <1>2, SeqAt
        <5>3. in'[x][Len(in[x]) + 1] = sent[x] + 1
          BY <1>1, <1>2, SeqAt
        <5>4. i \in 1..Len(in[x]) => in[x][i] = Taken(x) + i
          BY <4>1, Zenon DEF Source
        <5>5. Taken(x) + (Len(in[x]) + 1) = sent[x] + 1
          BY <1>1, <1>3, <4>1
        <5> QED BY <5>1, <5>2, <5>3, <5>4, <5>5, Zenon
      <4>3. peer[x] = "open" /\ x \notin fin /\ pc[Up(x)] \notin Closing
        BY <4>1, Zenon DEF PeerSends, Source
      <4>4. Len(in'[x]) <= sent'[x]
        <5>1. Len(in[x]) <= sent[x]
          BY <4>1, Zenon DEF Source
        <5> QED BY <1>1, <1>2, <1>3, <5>1
      <4> QED BY <1>5, <3>2, <4>1, <4>2, <4>3, <4>4, Zenon DEF Source, Metered, Onward
    <3> QED BY <3>1, <3>2
  <2> QED BY <2>2, <2>3, <2>4, <2>5 DEF EndInv
<1> QED BY <1>7

LEMMA InvPeers ==
  ASSUME Inv, TypeOK', Onward, NEW x \in Ends,
         PeerShuts(x) \/ PeerResets(x) \/ LinkBreaks \/ OtherTraffic
  PROVE  \A e \in Ends : EndInv(e)'
<1>1. UNCHANGED <<sent, in, out, told, pc, buf, tls, wire, fin>>
  BY Zenon DEF PeerShuts, PeerResets, LinkBreaks, OtherTraffic, locals, link
<1>2. \A e \in Ends : QuietUp(e) /\ QuietIn(e) /\ QuietDown(e) /\ QuietLink(e)
  BY <1>1, Zenon DEF QuietUp, QuietIn, QuietDown, QuietLink, Taken, tls
<1> QED BY <1>2, TwoEnds, Frame, Zenon DEF Inv


LEMMA TakenPrime ==
  ASSUME TypeOK', NEW e \in Ends
  PROVE  Taken(e)' \in Int /\ Len(in'[e]) \in Nat /\ sent'[e] \in Nat
<1>1. in'[e] \in Seq(Nat) /\ sent'[e] \in Nat
  BY Zenon DEF TypeOK
<1>2. Len(in'[e]) \in Nat
  BY <1>1
<1> QED BY <1>1, <1>2 DEF Taken


-----------------------------------------------------------------------------
(* The thread that reads the local socket of x.  Its steps move x forward  *)
(* and leave the threads of the other end, and of the other direction,     *)
(* alone.                                                                  *)
Forward(x) ==
  /\ Taken(x)' >= Taken(x) /\ seal'[x] >= seal[x]
  /\ pc[Up(x)] \in Ended => pc'[Up(x)] \in Ended /\ seal'[x] = seal[x]

Beside(x) ==
  /\ QuietUp(Other(x)) /\ QuietIn(Other(x)) /\ QuietLink(Other(x))
  /\ QuietDown(x) /\ QuietDown(Other(x))

LEMMA MoveAt ==
  ASSUME TypeOK, NEW t \in Threads, NEW l
  PROVE  /\ Goto(t, l) => pc'[t] = l /\ \A u \in Threads : u # t => pc'[u] = pc[u]
         /\ Fails(t) => /\ pc'[t] = "done" /\ hold'[t] = <<>>
                        /\ \A u \in Threads : u # t => pc'[u] = pc[u] /\ hold'[u] = hold[u]
BY Zenon DEF TypeOK, Goto, Fails

LEMMA SinkForward ==
  ASSUME TypeOK, TypeOK', NEW e \in Ends, QuietDown(e), Forward(Other(e)), Sink(e)
  PROVE  Sink(e)'
<1>1. Other(e) \in Ends /\ Got(e) \in Nat /\ Taken(Other(e)) \in Int /\ Taken(Other(e))' \in Int
  <2>1. Other(e) \in Ends
    BY TwoEnds
  <2>2. Got(e) \in Nat /\ Taken(Other(e)) \in Int
    BY <2>1, Numbers, Zenon
  <2>3. Taken(Other(e))' \in Int
    BY <2>1, TakenPrime, Zenon
  <2> QED BY <2>1, <2>2, <2>3, Zenon
<1>2. Got(e)' = Got(e) /\ Held(e)' = Held(e)
  BY Zenon DEF QuietDown, Got, Held
<1>3. Got(e)' <= Taken(Other(e))'
  <2>1. Got(e) <= Taken(Other(e)) /\ Taken(Other(e))' >= Taken(Other(e)) /\ Got(e) \in Int
    BY <1>1, Nats, Zenon DEF Forward, Sink
  <2> QED BY <1>1, <1>2, <2>1, Further, Zenon
<1> QED BY <1>2, <1>3, Zenon DEF Sink, QuietDown

LEMMA OpenedForward ==
  ASSUME TypeOK, TypeOK', Onward, NEW e \in Ends, QuietDown(e), Forward(Other(e)), Opened(e)
  PROVE  Opened(e)'
<1> DEFINE o == Other(e)
<1>1. o \in Ends
  BY TwoEnds, Zenon
<1>2. /\ Got(e) \in Nat /\ Taken(o) \in Int /\ Taken(o)' \in Int
      /\ seal[o] \in Nat /\ seal'[o] \in Nat /\ open[o] \in Nat /\ Len(plain[e]) \in Nat
  <2>1. seal'[o] \in Nat
    BY <1>1, Zenon DEF TypeOK
  <2> QED BY <1>1, <2>1, Numbers, TakenPrime, Zenon
<1>3. Got(e)' = Got(e) /\ Held(e)' = Held(e) /\ plain'[e] = plain[e] /\ open'[o] = open[o]
      /\ pc'[Down(e)] = pc[Down(e)] /\ crypt' = crypt
  BY Zenon DEF QuietDown, Got, Held, Onward
<1>4. /\ Taken(o)' >= Taken(o) /\ seal'[o] >= seal[o]
      /\ pc[Up(o)] \in Ended => pc'[Up(o)] \in Ended /\ seal'[o] = seal[o]
  BY Zenon DEF Forward
<1> HIDE DEF o
<1>5. crypt /\ pc[Down(e)] # "done" =>
        /\ \A i \in 1..Len(plain[e]) : plain[e][i] = Got(e) + i
        /\ Got(e) + Len(plain[e]) <= Taken(o)
        /\ \/ Got(e) + Len(plain[e]) + 1 = open[o]
           \/ Got(e) + Len(plain[e]) + 2 = open[o] /\ open[o] = seal[o] /\ pc[Up(o)] \in Ended
  BY Zenon DEF Opened, o
<1>6. crypt => 1 <= open[o] /\ open[o] <= seal[o]
  BY Zenon DEF Opened, o
<1>7. crypt => 1 <= open'[o] /\ open'[o] <= seal'[o]
  <2>1. open[o] \in Int /\ seal[o] \in Int /\ seal'[o] \in Int
    BY <1>2, Nats, Zenon
  <2> QED BY <1>3, <1>4, <1>6, <2>1, Further, Zenon
<1>8. crypt /\ pc[Down(e)] # "done" => Got(e) + Len(plain[e]) <= Taken(o)'
  <2>1. Got(e) + Len(plain[e]) \in Int
    BY <1>2, Sums, Zenon
  <2> QED BY <1>2, <1>4, <1>5, <2>1, Further, Zenon
<1> QED BY <1>3, <1>4, <1>5, <1>7, <1>8, Zenon DEF Opened, o

LEMMA ForwardBy ==
  ASSUME NEW x \in Ends, Taken(x) \in Int, Taken(x)' = Taken(x), seal[x] \in Nat,
         seal'[x] = seal[x] \/ (seal'[x] = seal[x] + 1 /\ pc[Up(x)] \notin Ended),
         pc[Up(x)] \in Ended => pc'[Up(x)] \in Ended
  PROVE  Forward(x)
BY DEF Forward

LEMMA UpStep ==
  ASSUME Inv, TypeOK', Onward, NEW x \in Ends, Beside(x), Forward(x),
         Source(x)', Wired(Other(x))', Flow(x)',
         crypt => \A r \in InFlight(x)' : r \in InFlight(x) \/ RecordOK(x, r)',
         crypt => (pc'[Up(x)] \notin Ended => seal'[x] = Taken(x)' - Hot(x)' + 1)
  PROVE  \A e \in Ends : EndInv(e)'
<1> DEFINE o == Other(x)
<1>1. o \in Ends /\ Other(o) = x /\ o # x /\ TypeOK
  BY TwoEnds, Zenon DEF Inv
<1>2. EndInv(x) /\ EndInv(o)
  BY <1>1, Zenon DEF Inv
<1>3. Taken(x) \in Int /\ Taken(o) \in Int /\ Taken(x)' \in Int /\ seal'[x] \in Nat
  <2>1. seal'[x] \in Nat
    BY Zenon DEF TypeOK
  <2> QED BY <1>1, <2>1, Numbers, TakenPrime, Zenon
<1>4. Sink(x)' /\ Wired(x)' /\ Opened(x)'
  BY <1>2, SinkFrame, WiredFrame, OpenedFrame, Zenon DEF Beside, EndInv
<1>5. EndOK(x)'
  BY <1>2, EndOKFrame, Zenon DEF Beside, QuietDown, EndInv
<1>6. Sealed(x)'
  <2>1. crypt' = crypt
    BY Zenon DEF Onward
  <2>2. ASSUME crypt, NEW r \in InFlight(x)' PROVE RecordOK(x, r)'
    <3>1. CASE r \in InFlight(x)
      <4>1. r \in Records /\ RecordOK(x, r)
        BY <1>1, <1>2, <2>2, <3>1, FlightType, Zenon DEF EndInv, Sealed
      <4> QED BY <1>1, <1>3, <4>1, RecordKept, Zenon DEF Forward
    <3> QED BY <2>2, <3>1, Zenon
  <2> QED BY <2>1, <2>2, Zenon DEF Sealed
<1>7. Source(o)'
  BY <1>1, <1>2, SourceFrame, Zenon DEF Beside, EndInv
<1>8. Sink(o)' /\ Opened(o)'
  BY <1>1, <1>2, SinkForward, OpenedForward, Zenon DEF Beside, EndInv
<1>9. Sealed(o)'
  BY <1>1, <1>2, <1>3, FlightFrame, SealedFrame, Zenon DEF Beside, EndInv
<1>10. EndOK(o)'
  BY <1>1, <1>2, EndOKFrame, Zenon DEF Beside, QuietDown, EndInv
<1>11. Flow(o)'
  BY <1>1, <1>2, <1>3, FlowFrame, Zenon DEF Beside, EndInv
<1>12. EndInv(x)' /\ EndInv(o)'
  BY <1>4, <1>5, <1>6, <1>7, <1>8, <1>9, <1>10, <1>11, Zenon DEF EndInv
<1> QED BY <1>12, TwoEnds, Zenon


LEMMA InvReadLocal ==
  ASSUME Inv, TypeOK', Onward, NEW x \in Ends, ReadLocal(x)
  PROVE  \A e \in Ends : EndInv(e)'
<1> DEFINE o == Other(x)
<1>1. /\ o \in Ends /\ Other(o) = x /\ o # x /\ TypeOK /\ EndInv(x) /\ EndInv(o)
      /\ Up(x) \in Threads /\ Down(x) \in Threads /\ Up(o) \in Threads /\ Down(o) \in Threads
      /\ Up(o) # Up(x) /\ Down(x) # Up(x) /\ Down(o) # Up(x)
  BY TwoEnds, FourThreads, Zenon DEF Inv
<1>2. /\ UNCHANGED <<crypt, limit, peer, sent, out, told, pend, seal, open, plain, wire, fin, broken,
                     counter>>
      /\ pc[Up(x)] = "read"
  BY Zenon DEF ReadLocal, policy, link, Up
<1>3. \/ /\ in[x] # <<>> /\ Goto(Up(x), "write") /\ hold' = hold
         /\ buf' = [buf EXCEPT ![Up(x)] = Head(in[x])] /\ in' = [in EXCEPT ![x] = Tail(in[x])]
      \/ /\ in[x] = <<>> /\ peer[x] = "shut" /\ Goto(Up(x), "close") /\ buf' = buf /\ in' = in
         /\ hold' = hold
      \/ peer[x] = "reset" /\ Fails(Up(x)) /\ buf' = buf /\ in' = in
  BY Zenon DEF ReadLocal, Up
<1>4. \/ /\ in[x] # <<>> /\ pc'[Up(x)] = "write" /\ buf'[Up(x)] = Head(in[x])
         /\ in'[x] = Tail(in[x])
      \/ in[x] = <<>> /\ peer[x] = "shut" /\ pc'[Up(x)] = "close" /\ in'[x] = in[x]
      \/ peer[x] = "reset" /\ pc'[Up(x)] = "done" /\ in'[x] = in[x]
  <2>1. in \in [Ends -> Seq(Nat)] /\ buf \in [Threads -> Nat]
    BY <1>1, Zenon DEF TypeOK
  <2> QED BY <1>1, <1>3, <2>1, MoveAt, Zenon
<1>5. /\ pc'[Up(o)] = pc[Up(o)] /\ pc'[Down(x)] = pc[Down(x)] /\ pc'[Down(o)] = pc[Down(o)]
      /\ hold'[Up(o)] = hold[Up(o)] /\ hold'[Down(o)] = hold[Down(o)]
      /\ hold'[Down(x)] = hold[Down(x)] /\ hold'[Up(x)] \in {hold[Up(x)], <<>>}
  <2>1. (\E l \in {"write", "close"} : Goto(Up(x), l) /\ hold' = hold) \/ Fails(Up(x))
    BY <1>3, Zenon
  <2>2. CASE Fails(Up(x))
    BY <1>1, <2>2, MoveAt, Zenon
  <2>3. ASSUME NEW l \in {"write", "close"}, Goto(Up(x), l), hold' = hold
        PROVE  pc'[Up(o)] = pc[Up(o)] /\ pc'[Down(x)] = pc[Down(x)] /\ pc'[Down(o)] = pc[Down(o)]
    BY <1>1, <2>3, MoveAt, Zenon
  <2> QED BY <2>1, <2>2, <2>3, Zenon
<1>6. /\ buf'[Up(o)] = buf[Up(o)] /\ buf'[Down(x)] = buf[Down(x)] /\ buf'[Down(o)] = buf[Down(o)]
      /\ in'[o] = in[o]
  <2>1. in \in [Ends -> Seq(Nat)] /\ buf \in [Threads -> Nat]
    BY <1>1, Zenon DEF TypeOK
  <2> QED BY <1>1, <1>3, <2>1, Zenon
<1>7. Beside(x)
  BY <1>2, <1>5, <1>6, Zenon DEF Beside, QuietUp, QuietIn, QuietLink, QuietDown, Taken
<1>8. /\ in[x] \in Seq(Nat) /\ sent[x] \in Nat /\ Len(in[x]) \in Nat /\ Taken(x) \in Int
      /\ Taken(x) = sent[x] - Len(in[x]) /\ Taken(x)' = sent[x] - Len(in'[x])
      /\ in[x] = <<>> => Len(in[x]) = 0
  <2>1. Len(<<>>) = 0
    OBVIOUS
  <2> QED BY <1>1, <1>2, <2>1, Numbers, Zenon DEF TypeOK, Taken
<1>9. in[x] # <<>> => /\ Len(in[x]) >= 1 /\ Len(Tail(in[x])) = Len(in[x]) - 1
                      /\ Head(in[x]) = in[x][1]
                      /\ \A i \in 1..Len(Tail(in[x])) : Tail(in[x])[i] = in[x][i + 1]
  BY <1>8, SeqAt, Zenon
<1>10. Taken(x)' = IF pc'[Up(x)] = "write" THEN Taken(x) + 1 ELSE Taken(x)
  <2>1. CASE in[x] # <<>> /\ pc'[Up(x)] = "write" /\ in'[x] = Tail(in[x])
    <3>1. Len(in'[x]) = Len(in[x]) - 1
      BY <1>9, <2>1, Zenon
    <3> QED BY <1>8, <2>1, <3>1
  <2>2. CASE pc'[Up(x)] \in {"close", "done"} /\ in'[x] = in[x]
    BY <1>8, <2>2, Zenon
  <2> QED BY <1>4, <2>1, <2>2, Zenon
<1>11. Forward(x)
  <2>1. Taken(x)' >= Taken(x)
    BY <1>8, <1>10
  <2>2. seal'[x] = seal[x] /\ seal[x] \in Nat /\ pc[Up(x)] \notin Ended
    BY <1>1, <1>2, Numbers, Zenon DEF Ended
  <2> QED BY <2>1, <2>2 DEF Forward
<1>12. Source(x)'
  <2>1. Source(x)
    BY <1>1, Zenon DEF EndInv
  <2>2. CASE pc'[Up(x)] = "write"
    <3>1. in[x] # <<>> /\ buf'[Up(x)] = Head(in[x]) /\ in'[x] = Tail(in[x])
      BY <1>4, <2>2, Zenon
    <3>2. Head(in[x]) = Taken(x) + 1
      BY <1>8, <1>9, <2>1, <3>1, Nats, Zenon DEF Source
    <3>3. \A i \in 1..Len(in'[x]) : in'[x][i] = Taken(x)' + i
      <4> TAKE i \in 1..Len(in'[x])
      <4>1. i + 1 \in 1..Len(in[x]) /\ in'[x][i] = in[x][i + 1]
        <5>1. Len(in'[x]) = Len(in[x]) - 1 /\ i \in 1..Len(Tail(in[x]))
          BY <1>9, <3>1, Zenon
        <5>2. Tail(in[x])[i] = in[x][i + 1]
          BY <1>9, <3>1, <5>1, Zenon
        <5>3. i \in 1..(Len(in[x]) - 1)
          BY <5>1, Zenon
        <5> QED BY <1>8, <3>1, <5>2, <5>3, NextIndex, Zenon
      <4>2. in[x][i + 1] = Taken(x) + (i + 1)
        BY <2>1, <4>1, Zenon DEF Source
      <4> QED BY <1>8, <1>10, <2>2, <4>1, <4>2
    <3>4. x \notin fin
      BY <2>1, <3>1, Zenon DEF Source
    <3>5. Len(in'[x]) <= sent'[x] /\ Taken(x)' >= 1
      <4>1. Len(in[x]) <= sent[x] /\ sent'[x] = sent[x]
        BY <1>2, <2>1, Zenon DEF Source
      <4>2. Len(in'[x]) = Len(in[x]) - 1 /\ Taken(x)' = (sent[x] - Len(in[x])) + 1
        BY <1>8, <1>9, <1>10, <2>2, <3>1, Zenon
      <4> QED BY <1>8, <4>1, <4>2, Nats, Zenon
    <3> QED BY <1>2, <1>10, <2>2, <3>1, <3>2, <3>3, <3>4, <3>5, Zenon DEF Source, Closing
  <2>3. CASE pc'[Up(x)] # "write"
    <3>1. in'[x] = in[x] /\ pc'[Up(x)] \in {"close", "done"} /\ Taken(x)' = Taken(x)
      BY <1>4, <1>10, <2>3, Zenon
    <3>2. pc'[Up(x)] \in Closing => in[x] = <<>> /\ peer[x] = "shut"
      BY <1>4, <3>1, Zenon DEF Closing
    <3> QED BY <1>2, <2>1, <2>3, <3>1, <3>2, Zenon DEF Source
  <2> QED BY <2>2, <2>3
<1>13. Wired(o)'
  <2>1. Wired(o) /\ wire'[x] = wire[x] /\ Len(wire[x]) \in Nat /\ Got(o) \in Nat
    BY <1>1, <1>2, Numbers, Zenon DEF EndInv
  <2>2. Hot(x) = 0 /\ Hot(x)' = IF pc'[Up(x)] = "write" THEN 1 ELSE 0
    BY <1>2, Zenon DEF Hot
  <2>3. Taken(x)' - Hot(x)' = Taken(x) - Hot(x)
    BY <1>8, <1>10, <2>2
  <2>4. Got(o)' = Got(o)
    BY <1>2, <1>5, Zenon DEF Got, Held
  <2>5. pc'[Up(x)] = "done" => peer[x] = "reset"
    BY <1>4, Zenon
  <2>6. ~crypt => /\ plain'[o] = <<>> /\ pend'[x] = <<>> /\ hold'[Up(x)] = <<>>
                  /\ hold'[Down(x)] = <<>> /\ pc'[Down(o)] # "fed" /\ x \notin fin'
    BY <1>1, <1>2, <1>5, <2>1, Zenon DEF Wired
  <2>7. pc'[Up(x)] \in {"write", "close", "done"}
    BY <1>4, Zenon
  <2>8. ~crypt /\ pc[Down(o)] # "done" =>
          /\ \A i \in 1..Len(wire[x]) : wire[x][i].v = Got(o) + i
          /\ Got(o) + Len(wire[x]) <= Taken(x) - Hot(x)
          /\ Got(o) + Len(wire[x]) = Taken(x) - Hot(x)
    BY <1>1, <1>2, <2>1, Zenon DEF Wired
  <2> QED BY <1>1, <1>2, <1>5, <2>1, <2>3, <2>4, <2>5, <2>6, <2>7, <2>8, Zenon DEF Wired
<1>14. Flow(x)'
  <2>1. Flow(x) /\ Len(out[x]) \in Nat /\ counter \in Nat
    BY <1>1, Numbers, Zenon DEF EndInv
  <2>2. Unmetered(x) = 0 /\ Ahead(x)' = Ahead(x) /\ Ahead(x) \in {0, 1}
    BY <1>2, <1>5, Zenon DEF Unmetered, Ahead
  <2>3. Unmetered(x)' >= 0 /\ (pc'[Up(x)] = "write" => Unmetered(x)' = 1) /\ Unmetered(x)' \in {0, 1}
    BY DEF Unmetered
  <2> QED BY <1>2, <1>8, <1>10, <2>1, <2>2, <2>3 DEF Flow, Metered
<1>15. InFlight(x)' \subseteq InFlight(x)
  BY <1>1, <1>2, <1>5, FlightFrame, Zenon DEF QuietLink
<1>16. crypt => (pc'[Up(x)] \notin Ended => seal'[x] = Taken(x)' - Hot(x)' + 1)
  <2>1. crypt => seal[x] = Taken(x) - Hot(x) + 1
    BY <1>1, <1>2, Zenon DEF EndInv, Sealed, Ended
  <2>2. Hot(x) = 0 /\ Hot(x)' = IF pc'[Up(x)] = "write" THEN 1 ELSE 0
    BY <1>2, Zenon DEF Hot
  <2>3. seal'[x] = seal[x] /\ Taken(x) \in Int
    BY <1>2, <1>8, Zenon
  <2>4. \/ Taken(x)' = Taken(x) + 1 /\ Hot(x)' = 1
        \/ Taken(x)' = Taken(x) /\ Hot(x)' = 0
    BY <1>10, <2>2, Zenon
  <2> QED BY <2>1, <2>2, <2>3, <2>4, SealKeeps, Zenon
<1> QED BY <1>7, <1>11, <1>12, <1>13, <1>14, <1>15, <1>16, UpStep, Zenon


(* The other steps of this thread change only what x has sent.             *)
UpMoves(x) ==
  /\ UNCHANGED <<crypt, limit, peer, sent, in, out, told, buf, open, plain, broken>>
  /\ \A u \in Threads : u # Up(x) => pc'[u] = pc[u] /\ hold'[u] = hold[u]
  /\ wire'[Other(x)] = wire[Other(x)] /\ pend'[Other(x)] = pend[Other(x)]
  /\ seal'[Other(x)] = seal[Other(x)] /\ (Other(x) \in fin' <=> Other(x) \in fin)

LEMMA Around ==
  ASSUME Inv, NEW x \in Ends
  PROVE  /\ Other(x) \in Ends /\ Other(Other(x)) = x /\ Other(x) # x
         /\ TypeOK /\ EndInv(x) /\ EndInv(Other(x))
         /\ Up(x) \in Threads /\ Down(x) \in Threads
         /\ Up(Other(x)) \in Threads /\ Down(Other(x)) \in Threads
         /\ Up(Other(x)) # Up(x) /\ Down(x) # Up(x) /\ Down(Other(x)) # Up(x)
         /\ Down(Other(x)) # Down(x) /\ Up(Other(x)) # Down(x)
BY TwoEnds, FourThreads, Zenon DEF Inv

LEMMA UpBeside ==
  ASSUME Inv, NEW x \in Ends, UpMoves(x)
  PROVE  /\ Beside(x)
         /\ Taken(x)' = Taken(x) /\ Got(Other(x))' = Got(Other(x)) /\ Ahead(x)' = Ahead(x)
         /\ pc'[Down(x)] = pc[Down(x)] /\ pc'[Down(Other(x))] = pc[Down(Other(x))]
         /\ hold'[Down(x)] = hold[Down(x)]
<1>1. /\ pc'[Up(Other(x))] = pc[Up(Other(x))] /\ hold'[Up(Other(x))] = hold[Up(Other(x))]
      /\ pc'[Down(x)] = pc[Down(x)] /\ hold'[Down(x)] = hold[Down(x)]
      /\ pc'[Down(Other(x))] = pc[Down(Other(x))] /\ hold'[Down(Other(x))] = hold[Down(Other(x))]
  BY Around, Zenon DEF UpMoves
<1>2. Taken(x)' = Taken(x) /\ Got(Other(x))' = Got(Other(x)) /\ Ahead(x)' = Ahead(x)
  BY <1>1, Zenon DEF UpMoves, Taken, Got, Held, Ahead
<1>3. Beside(x)
  BY <1>1, <1>2, Around, Zenon DEF UpMoves, Beside, QuietUp, QuietIn, QuietLink, QuietDown, Taken
<1> QED BY <1>1, <1>2, <1>3, Zenon

LEMMA SourceMoves ==
  ASSUME Inv, NEW x \in Ends, UpMoves(x),
         pc'[Up(x)] \notin {"write", "fed"}, pc'[Up(x)] = "meter" => Metered(x),
         pc'[Up(x)] \in Closing \/ x \in fin' => pc[Up(x)] \in Closing \/ x \in fin
  PROVE  Source(x)'
<1>1. Source(x) /\ Taken(x)' = Taken(x)
  BY Around, UpBeside, Zenon DEF EndInv
<1> QED BY <1>1, Zenon DEF UpMoves, Source, Metered

LEMMA WiredMoves ==
  ASSUME Inv, Onward, NEW x \in Ends, UpMoves(x), ~crypt,
         wire'[x] = wire[x], pend'[x] = pend[x], hold'[Up(x)] \in {hold[Up(x)], <<>>},
         pc[Up(x)] \notin {"write", "done"}, pc'[Up(x)] \in {"read", "meter", "close", "done"},
         x \in fin' => pc'[Up(x)] = "done",
         pc'[Up(x)] = "done" => x \in fin' \/ LimitHit'
  PROVE  Wired(Other(x))'
<1> DEFINE o == Other(x)
<1>1. o \in Ends /\ Other(o) = x /\ Wired(o) /\ Taken(x)' = Taken(x) /\ Got(o)' = Got(o)
      /\ hold'[Down(x)] = hold[Down(x)] /\ pc'[Down(o)] = pc[Down(o)] /\ crypt' = crypt
      /\ plain' = plain
  BY Around, UpBeside, Zenon DEF EndInv, UpMoves
<1>2. Hot(x) = 0 /\ Hot(x)' = 0
  BY Zenon DEF Hot
<1> HIDE DEF o
<1>3. /\ plain'[o] = <<>> /\ pend'[x] = <<>> /\ hold'[Up(x)] = <<>> /\ hold'[Down(x)] = <<>>
      /\ pc'[Down(o)] # "fed"
  BY <1>1, Zenon DEF Wired
<1>4. pc[Down(o)] # "done" =>
        /\ \A i \in 1..Len(wire[x]) : wire[x][i].v = Got(o) + i
        /\ Got(o) + Len(wire[x]) <= Taken(x) - Hot(x)
        /\ Got(o) + Len(wire[x]) = Taken(x) - Hot(x)
  BY <1>1, Zenon DEF Wired
<1> QED BY <1>1, <1>2, <1>3, <1>4, Zenon DEF Wired, o

LEMMA WiredAt ==
  ASSUME NEW o \in Ends, NEW x \in Ends, Other(o) = x,
         /\ plain'[o] = <<>> /\ pend'[x] = <<>> /\ hold'[Up(x)] = <<>> /\ hold'[Down(x)] = <<>>
         /\ pc'[Up(x)] \in {"read", "write", "meter", "close", "done"} /\ pc'[Down(o)] # "fed"
         /\ x \in fin' => pc'[Up(x)] = "done",
         pc'[Down(o)] # "done" =>
           /\ \A i \in 1..Len(wire'[x]) : wire'[x][i].v = Got(o)' + i
           /\ Got(o)' + Len(wire'[x]) <= Taken(x)' - Hot(x)'
           /\ pc'[Up(x)] # "done" \/ x \in fin' => Got(o)' + Len(wire'[x]) = Taken(x)' - Hot(x)',
         pc'[Up(x)] = "done" =>
           x \in fin' \/ peer'[x] = "reset" \/ broken' \/ LimitHit' \/ pc'[Down(o)] = "done"
  PROVE  Wired(o)'
BY Zenon DEF Wired

LEMMA FlowMoves ==
  ASSUME Inv, NEW x \in Ends, UpMoves(x), counter' = counter,
         Unmetered(x)' >= Unmetered(x) \/ ~Metered(x)
  PROVE  Flow(x)'
<1>1. Flow(x) /\ Taken(x)' = Taken(x) /\ Ahead(x)' = Ahead(x) /\ Taken(x) \in Int
      /\ Len(out[x]) \in Nat /\ counter \in Nat /\ out' = out /\ limit' = limit
  BY Around, UpBeside, Numbers, Zenon DEF EndInv, UpMoves
<1>2. Ahead(x) \in {0, 1} /\ Unmetered(x) \in {0, 1} /\ Unmetered(x)' \in {0, 1}
  BY Zenon DEF Ahead, Unmetered
<1> QED BY <1>1, <1>2 DEF Flow, Metered

(* A step of this thread that seals nothing.                               *)
LEMMA UpMoved ==
  ASSUME Inv, TypeOK', Onward, NEW x \in Ends, UpMoves(x), seal'[x] = seal[x],
         Source(x)', Wired(Other(x))', Flow(x)',
         crypt => InFlight(x)' \subseteq InFlight(x),
         pc[Up(x)] \in Ended => pc'[Up(x)] \in Ended,
         crypt /\ pc'[Up(x)] \notin Ended => Hot(x)' = Hot(x)
  PROVE  \A e \in Ends : EndInv(e)'
<1>1. Beside(x) /\ Taken(x)' = Taken(x) /\ Sealed(x) /\ Taken(x) \in Int /\ seal[x] \in Nat
  BY Around, UpBeside, Numbers, Zenon DEF EndInv
<1>2. Forward(x)
  BY <1>1, ForwardBy, Zenon
<1>3. crypt => (pc'[Up(x)] \notin Ended => seal'[x] = Taken(x)' - Hot(x)' + 1)
  BY <1>1, Zenon DEF Sealed
<1> QED BY <1>1, <1>2, <1>3, UpStep, Zenon


LEMMA InvWriteLink ==
  ASSUME Inv, TypeOK', Onward, NEW x \in Ends, WriteLink(x)
  PROVE  \A e \in Ends : EndInv(e)'
<1>1. /\ UNCHANGED <<crypt, limit, peer, sent, in, out, told, buf, open, plain, fin, broken, counter>>
      /\ pc[Up(x)] = "write"
      /\ \/ /\ crypt /\ Seal(x, buf[Up(x)]) /\ Goto(Up(x), "flush") /\ wire' = wire /\ hold' = hold
         \/ /\ ~crypt /\ LinkFails(x) /\ Fails(Up(x)) /\ pend' = pend /\ seal' = seal /\ wire' = wire
         \/ /\ ~crypt /\ LinkTakes(x) /\ wire' = [wire EXCEPT ![x] = wire[x] \o Written(Up(x))]
            /\ Goto(Up(x), AfterWrite(x)) /\ pend' = pend /\ seal' = seal /\ hold' = hold
  BY Zenon DEF WriteLink, policy, locals, Up
<1>2. /\ pend \in [Ends -> Seq(Records)] /\ wire \in [Ends -> Seq(Records)]
      /\ seal \in [Ends -> Nat] /\ buf[Up(x)] \in Nat
  BY Around, Zenon DEF TypeOK
<1>3. UpMoves(x)
  <2>1. \A u \in Threads : u # Up(x) => pc'[u] = pc[u] /\ hold'[u] = hold[u]
    BY <1>1, Around, MoveAt, Zenon
  <2>2. /\ wire'[Other(x)] = wire[Other(x)] /\ pend'[Other(x)] = pend[Other(x)]
        /\ seal'[Other(x)] = seal[Other(x)]
    BY <1>1, <1>2, Around, Zenon DEF Seal
  <2> QED BY <1>1, <2>1, <2>2, Zenon DEF UpMoves
<1>4. pc'[Up(x)] = IF crypt THEN "flush" ELSE IF LinkFails(x) /\ Fails(Up(x)) THEN "done" ELSE AfterWrite(x)
  BY <1>1, Around, MoveAt, Zenon
<1>5. Source(x)'
  <2>1. pc'[Up(x)] \notin {"write", "fed"} \union Closing /\ (pc'[Up(x)] = "meter" => Metered(x))
    BY <1>4, Zenon DEF AfterWrite, Closing
  <2> QED BY <1>1, <1>3, <2>1, SourceMoves, Zenon
<1>6. Flow(x)'
  <2>1. Metered(x) => pc'[Up(x)] \in {"flush", "done", "meter"}
    BY <1>4 DEF AfterWrite
  <2>2. Metered(x) => Unmetered(x)' = 1 /\ Unmetered(x) = 1
    BY <1>1, <2>1, Zenon DEF Unmetered
  <2> QED BY <1>1, <1>3, <2>2, Same, FlowMoves, Zenon
<1>7. /\ Source(x) /\ Wired(Other(x)) /\ Sealed(x) /\ Taken(x) \in Int
      /\ Taken(x)' = Taken(x) /\ Hot(x) = 1 /\ Hot(x)' = 0 /\ buf[Up(x)] = Taken(x)
      /\ Beside(x)
  <2>1. Source(x) /\ Wired(Other(x)) /\ Sealed(x) /\ Taken(x) \in Int /\ Taken(x)' = Taken(x) /\ Beside(x)
    BY <1>3, Around, Numbers, UpBeside, Zenon DEF EndInv
  <2>2. Hot(x) = 1 /\ Hot(x)' = 0
    BY <1>1, <1>4, Zenon DEF Hot, AfterWrite
  <2> QED BY <1>1, <2>1, <2>2, Zenon DEF Source
<1>8. CASE crypt
  <2> DEFINE r == [n |-> seal[x], v |-> buf[Up(x)]]
  <2>1. seal'[x] = seal[x] + 1 /\ pend'[x] = Append(pend[x], r) /\ wire' = wire /\ hold' = hold
        /\ pc'[Up(x)] = "flush" /\ r \in Records /\ pend[x] \in Seq(Records) /\ seal[x] \in Nat
    BY <1>1, <1>2, <1>4, <1>8, Zenon DEF Seal, Records
  <2>2. seal[x] = Taken(x)
    <3>1. seal[x] = Taken(x) - Hot(x) + 1
      BY <1>1, <1>7, <1>8, Zenon DEF Sealed, Ended
    <3> QED BY <1>7, <3>1, SealTakes, Zenon
  <2>3. \A z : z = r => RecordOK(x, z)'
    <3> TAKE z
    <3> HAVE z = r
    <3>1. z.n = Taken(x) /\ z.v = Taken(x) /\ Taken(x) >= 1
      BY <1>1, <1>7, <2>2, Zenon DEF Source
    <3>2. Taken(x)' = Taken(x) /\ seal'[x] = Taken(x) + 1 /\ Taken(x) \in Int
      BY <1>7, <2>1, <2>2, Zenon
    <3> QED BY <3>1, <3>2, RecordNew, Zenon
  <2> HIDE DEF r
  <2>4. Elems(pend'[x]) \subseteq Elems(pend[x]) \union {r}
    BY <2>1, ElemsAppend, Zenon
  <2>5. \A z \in InFlight(x)' : z \in InFlight(x) \/ RecordOK(x, z)'
    BY <2>1, <2>3, <2>4, Zenon DEF InFlight
  <2>6. Forward(x)
    <3>1. pc[Up(x)] \notin Ended
      BY <1>1, Zenon DEF Ended
    <3> QED BY <1>7, <2>1, <3>1, ForwardBy, Zenon
  <2>7. seal'[x] = Taken(x)' - Hot(x)' + 1
    BY <1>7, <2>1, <2>2, SealMoves, Zenon
  <2>8. Wired(Other(x))'
    BY <1>1, <1>8, Zenon DEF Wired
  <2> QED BY <1>5, <1>6, <1>7, <2>5, <2>6, <2>7, <2>8, UpStep, Zenon
<1>9. CASE ~crypt
  <2> DEFINE o == Other(x)
  <2>1. /\ o \in Ends /\ Other(o) = x /\ Got(o)' = Got(o) /\ hold'[Down(x)] = hold[Down(x)]
        /\ pc'[Down(o)] = pc[Down(o)] /\ Got(o) \in Nat /\ Len(wire[x]) \in Nat
    BY <1>3, Around, UpBeside, Numbers, Zenon
  <2>2. hold'[Up(x)] \in {hold[Up(x)], <<>>}
    BY <1>1, <1>9, Around, MoveAt, Zenon
  <2> HIDE DEF o
  <2>3. /\ plain'[o] = <<>> /\ pend'[x] = <<>> /\ hold'[Up(x)] = <<>> /\ hold'[Down(x)] = <<>>
        /\ pc'[Down(o)] # "fed" /\ x \notin fin
    BY <1>1, <1>7, <1>9, <2>1, <2>2, Zenon DEF Wired, o
  <2>4. pc[Down(o)] # "done" =>
          /\ \A i \in 1..Len(wire[x]) : wire[x][i].v = Got(o) + i
          /\ Got(o) + Len(wire[x]) = Taken(x) - 1
    BY <1>1, <1>7, <1>9, <2>1, Zenon DEF Wired, o
  <2>5. Wired(o)'
    <3>1. CASE LinkFails(x) /\ Fails(Up(x)) /\ wire' = wire
      <4>1. pc'[Up(x)] = "done"
        BY <1>4, <1>9, <3>1, Zenon
      <4>2. broken \/ pc[Down(o)] = "done"
        BY <2>3, <3>1, Zenon DEF LinkFails, Returned, Dirs, Down, o
      <4>3. pc[Down(o)] # "done" => Got(o) + Len(wire[x]) <= Taken(x) - 0
        <5>1. \A a, b \in Int : a = b - 1 => a <= b - 0
          OBVIOUS
        <5>2. Got(o) + Len(wire[x]) \in Int /\ Taken(x) \in Int
          BY <1>7, <2>1, Sums, Zenon
        <5> QED BY <2>4, <5>1, <5>2, Zenon
      <4>7. /\ plain'[o] = <<>> /\ pend'[x] = <<>> /\ hold'[Up(x)] = <<>> /\ hold'[Down(x)] = <<>>
            /\ pc'[Up(x)] \in {"read", "write", "meter", "close", "done"} /\ pc'[Down(o)] # "fed"
            /\ x \in fin' => pc'[Up(x)] = "done"
        BY <1>1, <2>3, <4>1, Zenon
      <4>8. pc'[Down(o)] # "done" =>
              /\ \A i \in 1..Len(wire'[x]) : wire'[x][i].v = Got(o)' + i
              /\ Got(o)' + Len(wire'[x]) <= Taken(x)' - Hot(x)'
              /\ pc'[Up(x)] # "done" \/ x \in fin' => Got(o)' + Len(wire'[x]) = Taken(x)' - Hot(x)'
        <5>1. /\ Taken(x)' - Hot(x)' = Taken(x) - 0 /\ Got(o)' = Got(o) /\ x \notin fin'
              /\ (pc'[Down(o)] # "done" => pc[Down(o)] # "done") /\ wire'[x] = wire[x]
          BY <1>1, <1>7, <2>1, <2>3, <3>1, Zenon
        <5> QED BY <2>4, <4>1, <4>3, <5>1, Zenon
      <4>9. pc'[Up(x)] = "done" =>
              x \in fin' \/ peer'[x] = "reset" \/ broken' \/ LimitHit' \/ pc'[Down(o)] = "done"
        BY <1>1, <2>1, <4>2, Zenon
      <4> QED BY <2>1, <4>7, <4>8, <4>9, WiredAt, Zenon
    <3>2. CASE wire' = [wire EXCEPT ![x] = wire[x] \o Written(Up(x))] /\ Goto(Up(x), AfterWrite(x))
      <4>1. pc'[Up(x)] \in {"meter", "read"}
        BY <3>2, Around, MoveAt, Zenon DEF AfterWrite
      <4>2. wire[x] \in Seq(Records) /\ Written(Up(x)) \in Seq(Records) /\ Len(Written(Up(x))) = 1
            /\ Written(Up(x))[1].v = Taken(x) /\ wire'[x] = wire[x] \o Written(Up(x))
        <5>1. Written(Up(x)) = <<[n |-> 0, v |-> buf[Up(x)]]>> /\ [n |-> 0, v |-> buf[Up(x)]] \in Records
          BY <1>2, Zenon DEF Written, Records
        <5> QED BY <1>2, <1>7, <3>2, <5>1
      <4>3. /\ Len(wire'[x]) = Len(wire[x]) + 1
            /\ \A i \in 1..Len(wire[x]) : wire'[x][i] = wire[x][i]
            /\ wire'[x][Len(wire[x]) + 1] = Written(Up(x))[1]
        BY <4>2, WireGrows, Zenon
      <4>4. pc[Down(o)] # "done" => \A i \in 1..Len(wire'[x]) : wire'[x][i].v = Got(o) + i
        <5> SUFFICES ASSUME pc[Down(o)] # "done", NEW i \in 1..Len(wire'[x])
                     PROVE  wire'[x][i].v = Got(o) + i
          BY Zenon
        <5>1. CASE i \in 1..Len(wire[x])
          BY <2>1, <2>4, <4>3, <5>1, Zenon
        <5>2. CASE i = Len(wire[x]) + 1
          <6>1. wire'[x][i].v = Taken(x)
            BY <4>2, <4>3, <5>2, Zenon
          <6>2. Got(o) + (Len(wire[x]) + 1) = Taken(x)
            <7>1. Got(o) + Len(wire[x]) = Taken(x) - 1
              BY <2>4, Zenon
            <7>2. Got(o) \in Nat /\ Len(wire[x]) \in Nat /\ Taken(x) \in Int
              BY <1>7, <2>1, Zenon
            <7> QED BY <7>1, <7>2
          <6> QED BY <5>2, <6>1, <6>2, Zenon
        <5> QED BY <2>1, <4>3, <5>1, <5>2, Nats, Zenon
      <4>5. pc[Down(o)] # "done" => Got(o) + Len(wire'[x]) = Taken(x) - 0
        <5>1. Got(o) \in Nat /\ Len(wire[x]) \in Nat /\ Taken(x) \in Int /\ Len(wire'[x]) = Len(wire[x]) + 1
          BY <1>7, <2>1, <4>3, Zenon
        <5>2. pc[Down(o)] # "done" => Got(o) + Len(wire[x]) = Taken(x) - 1
          BY <2>4, Zenon
        <5>3. pc[Down(o)] # "done" => Got(o) + (Len(wire[x]) + 1) = Taken(x) - 0
          BY <5>1, <5>2, OneShort, Zenon
        <5> QED BY <5>1, <5>3, Zenon
      <4>6. Got(o) + Len(wire'[x]) \in Int
        BY <2>1, <4>3, SumsOfNats, Zenon
      <4>7. /\ plain'[o] = <<>> /\ pend'[x] = <<>> /\ hold'[Up(x)] = <<>> /\ hold'[Down(x)] = <<>>
            /\ pc'[Up(x)] \in {"read", "write", "meter", "close", "done"} /\ pc'[Down(o)] # "fed"
            /\ x \in fin' => pc'[Up(x)] = "done"
        BY <1>1, <2>3, <4>1, Zenon
      <4>8. pc'[Down(o)] # "done" =>
              /\ \A i \in 1..Len(wire'[x]) : wire'[x][i].v = Got(o)' + i
              /\ Got(o)' + Len(wire'[x]) <= Taken(x)' - Hot(x)'
              /\ pc'[Up(x)] # "done" \/ x \in fin' => Got(o)' + Len(wire'[x]) = Taken(x)' - Hot(x)'
        <5>1. /\ Taken(x)' - Hot(x)' = Taken(x) - 0 /\ Got(o)' = Got(o) /\ x \notin fin'
              /\ (pc'[Down(o)] # "done" => pc[Down(o)] # "done")
          BY <1>1, <1>7, <2>1, <2>3, Zenon
        <5> QED BY <4>4, <4>5, <4>6, <5>1, Same, Zenon
      <4>9. pc'[Up(x)] = "done" =>
              x \in fin' \/ peer'[x] = "reset" \/ broken' \/ LimitHit' \/ pc'[Down(o)] = "done"
        BY <4>1
      <4> QED BY <2>1, <4>7, <4>8, <4>9, WiredAt, Zenon
    <3> QED BY <1>1, <1>9, <3>1, <3>2, Zenon
  <2>6. pc[Up(x)] \notin Ended /\ seal'[x] = seal[x]
    BY <1>1, <1>9, Zenon DEF Ended
  <2> QED BY <1>3, <1>5, <1>6, <1>9, <2>5, <2>6, UpMoved, Zenon DEF o
<1> QED BY <1>8, <1>9, Zenon


LEMMA InvCloseLink ==
  ASSUME Inv, TypeOK', Onward, NEW x \in Ends, CloseLink(x)
  PROVE  \A e \in Ends : EndInv(e)'
<1>1. /\ UNCHANGED <<crypt, limit, peer, sent, in, out, told, buf, hold, open, plain, wire, broken,
                     counter>>
      /\ pc[Up(x)] = "close"
      /\ crypt => Seal(x, 0) /\ Goto(Up(x), "closing") /\ fin' = fin
      /\ ~crypt => fin' = fin \union {x} /\ Goto(Up(x), "done") /\ pend' = pend /\ seal' = seal
  BY Zenon DEF CloseLink, policy, locals, Up
<1>2. /\ pend \in [Ends -> Seq(Records)] /\ seal \in [Ends -> Nat]
      /\ pend[x] \in Seq(Records) /\ seal[x] \in Nat
  BY Around, Zenon DEF TypeOK
<1>3. pc'[Up(x)] = IF crypt THEN "closing" ELSE "done"
  BY <1>1, Around, MoveAt, Zenon
<1>4. UpMoves(x)
  <2>1. \A u \in Threads : u # Up(x) => pc'[u] = pc[u] /\ hold'[u] = hold[u]
    BY <1>1, Around, MoveAt, Zenon
  <2>2. /\ pend'[Other(x)] = pend[Other(x)] /\ seal'[Other(x)] = seal[Other(x)]
        /\ (Other(x) \in fin' <=> Other(x) \in fin)
    BY <1>1, <1>2, Around, Zenon DEF Seal
  <2> QED BY <1>1, <2>1, <2>2, Zenon DEF UpMoves
<1>5. Source(x)'
  <2>1. pc'[Up(x)] \notin {"write", "fed", "meter"} /\ pc[Up(x)] \in Closing
    BY <1>1, <1>3, Zenon DEF Closing
  <2> QED BY <1>4, <2>1, SourceMoves, Zenon
<1>6. Flow(x)'
  <2>1. Unmetered(x) = 0 /\ Unmetered(x)' \in {0, 1}
    BY <1>1, Zenon DEF Unmetered
  <2> QED BY <1>1, <1>4, <2>1, FlowMoves
<1>7. CASE crypt
  <2> DEFINE r == [n |-> seal[x], v |-> 0]
  <2>1. seal'[x] = seal[x] + 1 /\ pend'[x] = Append(pend[x], r) /\ wire' = wire /\ hold' = hold
        /\ pc'[Up(x)] = "closing" /\ r \in Records
    BY <1>1, <1>2, <1>3, <1>7, Zenon DEF Seal, Records
  <2>2. /\ Beside(x) /\ Source(x) /\ Sealed(x) /\ Taken(x) \in Int /\ Taken(x)' = Taken(x)
        /\ sent[x] \in Nat /\ Len(in[x]) \in Nat
    BY <1>4, Around, Numbers, UpBeside, Zenon DEF EndInv
  <2>3. seal[x] >= 1
    <3>1. Hot(x) = 0
      BY <1>1, Zenon DEF Hot
    <3>2. seal[x] = Taken(x) - Hot(x) + 1
      BY <1>1, <1>7, <2>2, Zenon DEF Sealed, Ended
    <3>3. Taken(x) >= 0
      BY <2>2, Nats, Zenon DEF Source, Taken
    <3> QED BY <2>2, <3>1, <3>2, <3>3
  <2>4. \A z : z = r => RecordOK(x, z)'
    <3> TAKE z
    <3> HAVE z = r
    <3>1. z.n = seal[x] /\ z.v = 0 /\ pc'[Up(x)] \in Ended
      BY <2>1, Zenon DEF Ended
    <3>2. 1 <= seal[x] /\ seal[x] < seal[x] + 1
      BY <1>2, <2>3
    <3> QED BY <2>1, <3>1, <3>2, Zenon DEF RecordOK
  <2> HIDE DEF r
  <2>5. Elems(pend'[x]) \subseteq Elems(pend[x]) \union {r}
    BY <1>2, <2>1, ElemsAppend, Zenon
  <2>6. \A z \in InFlight(x)' : z \in InFlight(x) \/ RecordOK(x, z)'
    BY <2>1, <2>4, <2>5, Zenon DEF InFlight
  <2>7. Forward(x)
    <3>1. pc[Up(x)] \notin Ended
      BY <1>1, Zenon DEF Ended
    <3> QED BY <1>2, <2>1, <2>2, <3>1, ForwardBy, Zenon
  <2>8. pc'[Up(x)] \in Ended
    BY <2>1, Zenon DEF Ended
  <2>9. Wired(Other(x))'
    BY <1>1, <1>7, Zenon DEF Wired
  <2> QED BY <1>5, <1>6, <2>2, <2>6, <2>7, <2>8, <2>9, UpStep, Zenon
<1>8. CASE ~crypt
  <2>1. /\ wire'[x] = wire[x] /\ pend'[x] = pend[x] /\ hold'[Up(x)] \in {hold[Up(x)], <<>>}
        /\ pc[Up(x)] \notin {"write", "done"} /\ pc'[Up(x)] = "done" /\ x \in fin'
        /\ seal'[x] = seal[x]
    BY <1>1, <1>3, <1>8, Zenon
  <2>2. Wired(Other(x))'
    BY <1>4, <1>8, <2>1, WiredMoves, Zenon
  <2>3. pc[Up(x)] \notin Ended
    BY <1>1, Zenon DEF Ended
  <2> QED BY <1>4, <1>5, <1>6, <1>8, <2>1, <2>2, <2>3, UpMoved, Zenon
<1> QED BY <1>7, <1>8

LEMMA InvShutLink ==
  ASSUME Inv, TypeOK', Onward, NEW x \in Ends, ShutLink(x)
  PROVE  \A e \in Ends : EndInv(e)'
<1>1. /\ UNCHANGED <<crypt, limit, peer, sent, in, out, told, buf, pend, hold, seal, open, plain, wire,
                     broken, counter>>
      /\ pc[Up(x)] = "shut" /\ fin' = fin \union {x} /\ Goto(Up(x), "done")
  BY Zenon DEF ShutLink, policy, locals, tls, Up
<1>2. pc'[Up(x)] = "done" /\ \A u \in Threads : u # Up(x) => pc'[u] = pc[u] /\ hold'[u] = hold[u]
  BY <1>1, Around, MoveAt, Zenon
<1>3. UpMoves(x)
  BY <1>1, <1>2, Around, Zenon DEF UpMoves
<1>4. Source(x)'
  BY <1>1, <1>2, <1>3, SourceMoves, Zenon DEF Closing
<1>5. Flow(x)'
  <2>1. Unmetered(x) = 0 /\ Unmetered(x)' = 1
    BY <1>1, <1>2, Zenon DEF Unmetered
  <2> QED BY <1>1, <1>3, <2>1, FlowMoves
<1>6. crypt /\ Wired(Other(x))'
  <2>1. Wired(Other(x)) /\ Other(Other(x)) = x
    BY Around, Zenon DEF EndInv
  <2>2. crypt
    BY <1>1, <2>1, Zenon DEF Wired
  <2> QED BY <1>1, <2>2, Zenon DEF Wired
<1>7. InFlight(x)' \subseteq InFlight(x)
  BY <1>1, Zenon DEF InFlight
<1>8. pc'[Up(x)] \in Ended /\ seal'[x] = seal[x]
  BY <1>1, <1>2, Zenon DEF Ended
<1> QED BY <1>3, <1>4, <1>5, <1>6, <1>7, <1>8, UpMoved, Zenon

=============================================================================
