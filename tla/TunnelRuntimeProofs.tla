------------------------ MODULE TunnelRuntimeProofs -------------------------
(***************************************************************************)
(* Proofs that the listener keys match the threads and that a stopped      *)
(* tunnel loses its connections, for any number of clients, ports,         *)
(* threads, connections and handlers: the inductive invariant, that the    *)
(* handlers keep it, which change the records and leave a list of what to  *)
(* stop and to start, and that the threads keep it.                        *)
(***************************************************************************)
EXTENDS TunnelRuntime, FiniteSetTheorems, TLAPS

(* A connection that could be disconnected is in tunnel_live_conns until a *)
(* handler takes it out, which shuts it down.                              *)
Registered ==
  \A c \in Conns :
    conn[c].pc # "closed" /\ ~Udp(c) /\ ~conn[c].shut => c \in live

(* Only UDP workers wait for answers.                                      *)
AnswersAreUdp == \A c \in Conns : conn[c].pc = "answer" => Udp(c)

(* A handler stops everything before it starts anything.                   *)
StopsFirst ==
  \A w \in Workers :
    /\ work[w].pc \in {"idle", "key", "spawn"} <=> work[w].stops = <<>>
    /\ work[w].pc = "spawn" => work[w].starts # <<>>

TunnelInv ==
  /\ TypeOK /\ Registered /\ AnswersAreUdp /\ StopsFirst
  /\ StopDisconnects /\ KeysMatchThreads

(* The invariant holds initially: the main thread has at most one tunnel   *)
(* to start and nothing runs.                                              *)
LEMMA InitInv == Init => TunnelInv
<1> SUFFICES ASSUME Init PROVE TunnelInv
  OBVIOUS
<1>1. PICK cl \in Clients, p \in Ports, w \in Workers :
        LET x == [cl |-> cl, id |-> 2, port |-> p, on |-> TRUE, web |-> TRUE]
        IN \/ tunnels = {} /\ work = [v \in Workers |-> Idle] /\ nextId = 2
           \/ /\ tunnels = {x} /\ nextId = 3
              /\ work = [v \in Workers |->
                   IF v = w THEN [pc |-> "key", stops |-> <<>>, starts |-> <<x>>]
                            ELSE Idle]
  BY DEF Init
<1> DEFINE x == [cl |-> cl, id |-> 2, port |-> p, on |-> TRUE, web |-> TRUE]
           j == [pc |-> "key", stops |-> <<>>, starts |-> <<x>>]
<1>2. x \in Tunnels
  <2>1. 2 \in Ids
    BY TunnelAssumption DEF Ids
  <2> QED
    BY <2>1 DEF Tunnels
<1>3. tunnels \subseteq Tunnels /\ IsFiniteSet(tunnels) /\ nextId \in Nat \ {0}
  <2>1. tunnels \in {{}, {x}} /\ nextId \in {2, 3}
    BY <1>1
  <2> HIDE DEF x
  <2>2. IsFiniteSet({}) /\ IsFiniteSet({x})
    BY FS_EmptySet, FS_Singleton, Zenon
  <2> QED
    BY <1>2, <2>1, <2>2
<1>4. Idle \in Jobs /\ Idle.stops = <<>> /\ Idle.pc = "idle"
  BY DEF Idle, Jobs
<1>5. j \in Jobs /\ j.stops = <<>> /\ j.pc = "key"
  BY <1>2 DEF Jobs
<1>6. /\ work \in [Workers -> Jobs]
      /\ \A v \in Workers : work[v].stops = <<>> /\ work[v].pc \in {"idle", "key"}
  <2> HIDE DEF j
  <2>1. work = [v \in Workers |-> Idle] \/ work = [v \in Workers |-> IF v = w THEN j ELSE Idle]
    BY <1>1 DEF j
  <2> QED
    BY <1>4, <1>5, <2>1
<1>7. /\ thread = [t \in Threads |-> Free] /\ conn = [c \in Conns |-> Closed]
      /\ listeners = {} /\ live = {} /\ dropped = {} /\ ops = 0
      /\ status = [k \in Clients |-> TRUE] /\ flag = [t \in Threads |-> FALSE]
      /\ shutdowns = [i \in Ids |-> NoThread]
  BY DEF Init
<1>8. Free \in ListenerThreads /\ Closed \in Connections
  BY DEF Free, Closed, ListenerThreads, Connections
<1>9. TypeOK
  BY <1>3, <1>6, <1>7, <1>8, Zenon DEF TypeOK
<1>10. Registered /\ AnswersAreUdp /\ StopDisconnects
  BY <1>7 DEF Registered, AnswersAreUdp, StopDisconnects, Served, Closed
<1>11. StopsFirst
  BY <1>6 DEF StopsFirst
<1>12. KeysMatchThreads
  BY <1>6, <1>7, Zenon DEF KeysMatchThreads, Owners, Spawning, Free
<1> QED
  BY <1>9, <1>10, <1>11, <1>12 DEF TunnelInv

(* Listed lists a finite set.                                              *)
LEMMA ListedLists ==
  ASSUME NEW S, IsFiniteSet(S)
  PROVE  /\ Listed(S) \in Seq(S)
         /\ \A x \in S : \E i \in 1..Len(Listed(S)) : Listed(S)[i] = x
<1> DEFINE n == Cardinality(S)
           q == Listed(S)
<1>1. n \in Nat /\ ExistsBijection(1..n, S)
  BY FS_CardinalityType
<1>2. q \in Bijection(1..n, S)
  BY <1>1 DEF ExistsBijection, Listed
<1>3. q \in [1..n -> S] /\ \A x \in S : \E i \in 1..n : q[i] = x
  BY <1>2 DEF Bijection, Injection, Surjection
<1>4. q \in Seq(S) /\ Len(q) = n
  BY <1>1, <1>3
<1> QED
  BY <1>3, <1>4

(* The steps that leave the keys, the owning threads and the spawning      *)
(* handlers alone.                                                         *)
LEMMA KeysKept ==
  ASSUME KeysMatchThreads, UNCHANGED listeners,
         \A p \in Ports : Owners(p)' = Owners(p),
         \A p \in Ports : Spawning(p)' = Spawning(p)
  PROVE  KeysMatchThreads'
  BY DEF KeysMatchThreads

(* A handler adds a key, its listener takes the key over, and removes it.  *)
LEMMA KeyAdded ==
  ASSUME KeysMatchThreads, NEW P, NEW w, listeners' = listeners \union {P},
         Owners(P) = {}, Spawning(P) = {},
         \A p \in Ports : Owners(p)' = Owners(p),
         \A p \in Ports : Spawning(p)' = IF p = P THEN Spawning(p) \union {w} ELSE Spawning(p)
  PROVE  KeysMatchThreads'
  BY DEF KeysMatchThreads

LEMMA KeyTaken ==
  ASSUME KeysMatchThreads, NEW P, NEW w, NEW t, UNCHANGED listeners,
         \A p \in Ports : w \in Spawning(p) <=> p = P,
         \A p \in Ports : Spawning(p)' = Spawning(p) \ {w},
         \A p \in Ports : Owners(p)' = IF p = P THEN Owners(p) \union {t} ELSE Owners(p)
  PROVE  KeysMatchThreads'
  BY DEF KeysMatchThreads

LEMMA OwnerStarts ==
  ASSUME NEW t \in Threads, NEW l, NEW P, thread[t] = Free, l.pc = "bind", l.port = P,
         thread' = [u \in Threads |-> IF u = t THEN l ELSE thread[u]]
  PROVE  \A p \in Ports : Owners(p)' = IF p = P THEN Owners(p) \union {t} ELSE Owners(p)
  BY DEF Owners, Free

LEMMA KeyRemoved ==
  ASSUME KeysMatchThreads, NEW P, NEW t, listeners' = listeners \ {P},
         \A p \in Ports : t \in Owners(p) <=> p = P,
         \A p \in Ports : Owners(p)' = Owners(p) \ {t},
         \A p \in Ports : Spawning(p)' = Spawning(p)
  PROVE  KeysMatchThreads'
  BY DEF KeysMatchThreads

(* The steps of connections that let no other connection be served.        *)
LEMMA NoneServed ==
  ASSUME StopDisconnects, UNCHANGED <<work, memory>>,
         \A d \in Conns : Served(d)' => conn'[d] = conn[d]
  PROVE  StopDisconnects'
  BY DEF StopDisconnects, Served, Stopping, Udp, Runs, memory

(* The steps of handlers that do not touch the connections.                *)
LEMMA StopsKept ==
  ASSUME StopDisconnects, UNCHANGED <<conn, memory>>,
         \A v \in Workers : \A id : Stopping(v, id) => Stopping(v, id)'
  PROVE  StopDisconnects'
  BY DEF StopDisconnects, Served, Udp, Runs, memory

(* Every running tunnel a handler takes away is one it stops, or left out  *)
(* by an upload.                                                           *)
Accounted(stops) ==
  \A x \in tunnels : Runs(x) =>
    \/ \E y \in tunnels' : y.id = x.id /\ Runs(y)'
    \/ \E i \in 1..Len(stops) : stops[i].id = x.id
    \/ x.id \in dropped'

(* A handler that accounts for what it takes away keeps the invariant.     *)
LEMMA BeginKeepsInv ==
  ASSUME TunnelInv, NEW w \in Workers,
         NEW stops \in Seq(Tunnels), NEW starts \in Seq(Tunnels),
         Begin(w, stops, starts),
         tunnels' \subseteq Tunnels, IsFiniteSet(tunnels'),
         status' \in [Clients -> BOOLEAN],
         nextId' \in Nat \ {0}, dropped \subseteq dropped', dropped' \subseteq Ids,
         Accounted(stops)
  PROVE  TunnelInv'
<1> DEFINE n == [pc |-> IF stops # <<>> THEN "flag" ELSE "key",
                 stops |-> stops, starts |-> starts]
<1> USE DEF TunnelInv
<1>1. /\ work[w] = Idle /\ UNCHANGED runtime
      /\ work' = [v \in Workers |-> IF v = w THEN n ELSE work[v]]
      /\ ops' = ops + 1
  BY Zenon DEF Begin, TypeOK
<1>2. TypeOK'
  BY <1>1 DEF TypeOK, Jobs, runtime
<1>3. Registered' /\ AnswersAreUdp'
  BY <1>1, Zenon DEF Registered, AnswersAreUdp, Udp, runtime
<1>4. StopsFirst'
  BY <1>1, Zenon DEF StopsFirst
<1>5. StopDisconnects'
  <2> SUFFICES ASSUME NEW c \in Conns, Served(c), ~conn[c].shut,
                      conn[c].id \notin dropped',
                      ~ \E y \in tunnels' : y.id = conn[c].id /\ Runs(y)'
               PROVE  \E v \in Workers : Stopping(v, conn[c].id)'
    BY <1>1, Zenon DEF StopDisconnects, Served, Udp, runtime
  <2>1. CASE \E x \in tunnels : x.id = conn[c].id /\ Runs(x)
    <3>1. PICK i \in 1..Len(stops) : stops[i].id = conn[c].id
      BY <2>1, Zenon DEF Accounted
    <3>2. work'[w].stops = stops /\ work'[w].pc = "flag"
      BY <1>1, <3>1
    <3> QED
      BY <1>1, <3>1, <3>2, Zenon DEF Stopping, runtime
  <2>2. CASE ~ \E x \in tunnels : x.id = conn[c].id /\ Runs(x)
    <3>1. PICK v \in Workers : Stopping(v, conn[c].id)
      BY <2>2, Zenon DEF StopDisconnects
    <3>2. v # w
      BY <1>1, <3>1 DEF Stopping, Idle
    <3> QED
      BY <1>1, <3>1, <3>2, Zenon DEF Stopping, runtime
  <2> QED
    BY <2>1, <2>2
<1>6. KeysMatchThreads'
  <2>1. \A p \in Ports : Owners(p)' = Owners(p)
    BY <1>1, Zenon DEF Owners, runtime
  <2>2. \A p \in Ports : Spawning(p)' = Spawning(p)
    BY <1>1 DEF Spawning, Idle
  <2> QED
    BY <1>1, <2>1, <2>2, KeysKept, Zenon DEF runtime
<1> QED
  BY <1>2, <1>3, <1>4, <1>5, <1>6

(* The handlers.                                                           *)
LEMMA HandlerKeepsInv ==
  ASSUME TunnelInv, NEW w \in Workers, Handler(w)
  PROVE  TunnelInv'
<1>1. /\ TypeOK /\ status \in [Clients -> BOOLEAN]
      /\ nextId \in Nat \ {0} /\ dropped \subseteq Ids
  BY Zenon DEF TunnelInv, TypeOK
<1>2. \A id : Found(id) \subseteq tunnels
  BY DEF Found
<1>3. \A x \in tunnels : x \in Tunnels /\ x.id \in Ids /\ x.on \in BOOLEAN
  BY <1>1 DEF TypeOK, Tunnels
<1>4. ASSUME NEW cl \in Clients, NEW p \in Ports, TunnelAdd(w, cl, p)
      PROVE  TunnelInv'
  <2> DEFINE x == [cl |-> cl, id |-> nextId, port |-> p, on |-> TRUE, web |-> TRUE]
  <2>1. x \in Tunnels /\ nextId' \in Nat \ {0}
    BY <1>1, <1>4, TunnelAssumption DEF TunnelAdd, Tunnels, Ids, TypeOK
  <2>2. tunnels' = tunnels \union {x} /\ UNCHANGED <<status, dropped>>
    BY <1>4, Zenon DEF TunnelAdd
  <2>3. tunnels' \subseteq Tunnels /\ IsFiniteSet(tunnels')
    BY <1>1, <2>1, <2>2, FS_AddElement, Zenon DEF TypeOK
  <2>4. Begin(w, <<>>, <<x>>) /\ <<x>> \in Seq(Tunnels) /\ <<>> \in Seq(Tunnels)
    BY <1>4, <2>1 DEF TunnelAdd
  <2>5. Accounted(<<>>)
    BY <2>2, Zenon DEF Accounted, Runs
  <2> HIDE DEF x
  <2> QED
    BY <1>1, <2>1, <2>2, <2>3, <2>4, <2>5, BeginKeepsInv, Zenon
<1>5. ASSUME NEW cl \in Clients, NEW on \in BOOLEAN, ClientStatus(w, cl, on)
      PROVE  TunnelInv'
  <2> DEFINE ss == Listed(Of(cl))
             sts == IF on THEN Listed({x \in Of(cl) : x.on}) ELSE <<>>
  <2>1. IsFiniteSet(Of(cl)) /\ IsFiniteSet({x \in Of(cl) : x.on})
    BY <1>1, FS_Subset, Zenon DEF TypeOK, Of
  <2>2. Of(cl) \subseteq Tunnels
    BY <1>3 DEF Of
  <2>3. ss \in Seq(Tunnels) /\ \A x \in Of(cl) : \E i \in 1..Len(ss) : ss[i] = x
    BY <2>1, <2>2, ListedLists
  <2>4. sts \in Seq(Tunnels)
    <3>1. CASE on
      <4>1. Listed({x \in Of(cl) : x.on}) \in Seq({x \in Of(cl) : x.on})
        BY <2>1, ListedLists
      <4> QED
        BY <2>2, <3>1, <4>1
    <3>2. CASE ~on
      BY <3>2
    <3> QED
      BY <3>1, <3>2
  <2>5. /\ Begin(w, ss, sts) /\ UNCHANGED <<tunnels, nextId, dropped>>
        /\ status' = [status EXCEPT ![cl] = on]
    BY <1>5 DEF ClientStatus
  <2>6. status' \in [Clients -> BOOLEAN]
    BY <1>1, <2>5, Zenon DEF TypeOK
  <2>7. ASSUME NEW x \in tunnels, Runs(x)
        PROVE  \/ \E y \in tunnels' : y.id = x.id /\ Runs(y)'
               \/ \E i \in 1..Len(ss) : ss[i].id = x.id
    <3>1. CASE x.cl = cl
      BY <2>3, <3>1, Zenon DEF Of
    <3>2. CASE x.cl # cl
      <4>1. x.cl \in Clients
        BY <1>3 DEF Tunnels
      <4>2. Runs(x)'
        BY <1>1, <2>5, <2>7, <3>2, <4>1, Zenon DEF Runs, TypeOK
      <4> QED
        BY <2>5, <4>2
    <3> QED
      BY <3>1, <3>2, Zenon
  <2>8. Accounted(ss)
    BY <2>7, Zenon DEF Accounted
  <2> HIDE DEF ss, sts
  <2> QED
    BY <1>1, <2>3, <2>4, <2>5, <2>6, <2>8, BeginKeepsInv, Zenon DEF TypeOK
<1>6. ASSUME NEW cl \in Clients, ClientDelete(w, cl)
      PROVE  TunnelInv'
  <2> DEFINE ss == Listed(Of(cl))
  <2>1. IsFiniteSet(Of(cl)) /\ Of(cl) \subseteq Tunnels
    BY <1>1, <1>3, FS_Subset, Zenon DEF TypeOK, Of
  <2>2. ss \in Seq(Tunnels) /\ \A x \in Of(cl) : \E i \in 1..Len(ss) : ss[i] = x
    BY <2>1, ListedLists
  <2>3. /\ Begin(w, ss, <<>>) /\ UNCHANGED <<nextId, dropped>>
        /\ tunnels' = tunnels \ Of(cl) /\ status' = [status EXCEPT ![cl] = TRUE]
    BY <1>6 DEF ClientDelete
  <2>4. /\ tunnels' \subseteq Tunnels /\ IsFiniteSet(tunnels')
        /\ status' \in [Clients -> BOOLEAN] /\ <<>> \in Seq(Tunnels)
    BY <1>1, <2>3, FS_Subset DEF TypeOK
  <2>5. ASSUME NEW x \in tunnels, Runs(x)
        PROVE  \/ \E y \in tunnels' : y.id = x.id /\ Runs(y)'
               \/ \E i \in 1..Len(ss) : ss[i].id = x.id
    <3>1. CASE x \in Of(cl)
      BY <2>2, <3>1, Zenon
    <3>2. CASE x \notin Of(cl)
      <4>1. x \in tunnels' /\ x.cl # cl /\ x.cl \in Clients
        BY <1>3, <2>3, <3>2 DEF Of, Tunnels
      <4>2. Runs(x)'
        BY <1>1, <2>3, <2>5, <4>1, Zenon DEF Runs, TypeOK
      <4> QED
        BY <4>1, <4>2, Zenon
    <3> QED
      BY <3>1, <3>2, Zenon
  <2>6. Accounted(ss)
    BY <2>5, Zenon DEF Accounted
  <2> HIDE DEF ss
  <2> QED
    BY <1>1, <2>2, <2>3, <2>4, <2>6, BeginKeepsInv, Zenon
<1>7. ASSUME NEW cl \in Clients, NEW ps \in Uploads, Upload(w, cl, ps)
      PROVE  TunnelInv'
  <2> DEFINE r(p) == [cl |-> cl, id |-> 1, port |-> p, on |-> TRUE, web |-> FALSE]
             new == {r(p) : p \in ps}
             kept == {x \in Of(cl) : x.web}
             xs == kept \union new
             sts == Listed({x \in xs : x.on})
             gone == {x.id : x \in {y \in Of(cl) : y.on} \ xs}
  <2>1. ps \subseteq Ports /\ IsFiniteSet(ps)
    BY TunnelAssumption
  <2>2. new \subseteq Tunnels
    <3>1. 1 \in Ids
      BY TunnelAssumption DEF Ids
    <3>2. \A p \in Ports : r(p) \in Tunnels
      BY <3>1, Zenon DEF Tunnels
    <3> QED
      BY <2>1, <3>2, Zenon
  <2>3. IsFiniteSet(new)
    <3> DEFINE f == [p \in ps |-> r(p)]
    <3>1. f \in Surjection(ps, new)
      BY Zenon DEF Surjection
    <3> QED
      BY <2>1, <3>1, FS_Surjection, Zenon
  <2>4. Of(cl) \subseteq tunnels /\ Of(cl) \subseteq Tunnels
    BY <1>3, Zenon DEF Of
  <2>5. IsFiniteSet(kept) /\ kept \subseteq Tunnels
    BY <1>1, <2>4, FS_Subset, Zenon DEF TypeOK
  <2>6. IsFiniteSet(xs) /\ xs \subseteq Tunnels
    BY <2>2, <2>3, <2>5, FS_Union, Zenon
  <2>7. sts \in Seq(Tunnels)
    <3>1. IsFiniteSet({x \in xs : x.on})
      BY <2>6, FS_Subset, Zenon
    <3>2. sts \in Seq({x \in xs : x.on})
      BY <3>1, ListedLists, Zenon
    <3> QED
      BY <2>6, <3>2
  <2>8. /\ Begin(w, <<>>, sts) /\ UNCHANGED <<status, nextId>>
        /\ tunnels' = (tunnels \ Of(cl)) \union xs
        /\ dropped' = dropped \union gone
    BY <1>7, Zenon DEF Upload
  <2>9. tunnels' \subseteq Tunnels /\ IsFiniteSet(tunnels')
    <3>1. IsFiniteSet(tunnels \ Of(cl))
      BY <1>1, FS_Subset, Zenon DEF TypeOK
    <3> QED
      BY <1>1, <2>6, <2>8, <3>1, FS_Union, Zenon DEF TypeOK
  <2>10. dropped \subseteq dropped' /\ dropped' \subseteq Ids
    BY <1>1, <1>3, <2>4, <2>8, Zenon DEF TypeOK
  <2>11. ASSUME NEW x \in tunnels, Runs(x)
         PROVE  \/ \E y \in tunnels' : y.id = x.id /\ Runs(y)'
                \/ x.id \in dropped'
    <3>1. CASE x \in tunnels'
      BY <2>8, <2>11, <3>1, Zenon DEF Runs
    <3>2. CASE x \notin tunnels'
      <4>1. x \in Of(cl) /\ x.on /\ x \notin xs
        BY <2>8, <2>11, <3>2, Zenon DEF Runs
      <4> QED
        BY <2>8, <4>1, Zenon
    <3> QED
      BY <3>1, <3>2
  <2>12. Accounted(<<>>) /\ <<>> \in Seq(Tunnels)
    BY <2>11 DEF Accounted
  <2> HIDE DEF sts, xs, gone
  <2> QED
    BY <1>1, <2>7, <2>8, <2>9, <2>10, <2>12, BeginKeepsInv, Zenon
<1>8. ASSUME NEW x \in tunnels, NEW p \in Ports, TunnelCopy(w, x, p)
      PROVE  TunnelInv'
  <2> DEFINE y == [x EXCEPT !.id = nextId, !.port = p, !.on = FALSE, !.web = TRUE]
  <2>1. nextId \in Ids /\ nextId' \in Nat \ {0}
    BY <1>1, <1>8, TunnelAssumption DEF TunnelCopy, Ids
  <2>2. y \in Tunnels
    BY <1>3, <2>1, Zenon DEF Tunnels
  <2>3. /\ Begin(w, <<>>, <<>>) /\ UNCHANGED <<status, dropped>>
        /\ tunnels' = tunnels \union {y}
    BY <1>8 DEF TunnelCopy
  <2> HIDE DEF y
  <2>4. tunnels' \subseteq Tunnels /\ IsFiniteSet(tunnels') /\ <<>> \in Seq(Tunnels)
    <3>1. IsFiniteSet(tunnels \union {y}) /\ tunnels \subseteq Tunnels
      BY <1>1, FS_AddElement, Zenon DEF TypeOK
    <3> QED
      BY <2>2, <2>3, <3>1
  <2>5. Accounted(<<>>)
    BY <2>3, Zenon DEF Accounted, Runs
  <2> QED
    BY <1>1, <2>1, <2>3, <2>4, <2>5, BeginKeepsInv, Zenon
<1>9. ASSUME NEW x \in tunnels, NEW on \in BOOLEAN, TunnelStatus(w, x, on)
      PROVE  TunnelInv'
  <2> DEFINE y == [x EXCEPT !.on = on]
  <2>1. y \in Tunnels
    BY <1>3 DEF Tunnels
  <2>2. /\ Begin(w, <<x>>, If(on, y)) /\ UNCHANGED <<status, nextId, dropped>>
        /\ tunnels' = (tunnels \ {x}) \union {y}
    BY <1>9 DEF TunnelStatus
  <2>3. <<x>> \in Seq(Tunnels) /\ If(on, y) \in Seq(Tunnels)
    BY <1>3, <2>1 DEF If
  <2>4. tunnels' \subseteq Tunnels /\ IsFiniteSet(tunnels')
    BY <1>1, <2>1, <2>2, FS_AddElement, FS_RemoveElement, Zenon DEF TypeOK
  <2> HIDE DEF y
  <2>5. \A z \in tunnels : Runs(z) => z = x \/ (z \in tunnels' /\ Runs(z)')
    BY <2>2, Zenon DEF Runs
  <2>6. Accounted(<<x>>)
    BY <2>5 DEF Accounted
  <2> QED
    BY <1>1, <2>2, <2>3, <2>4, <2>6, BeginKeepsInv, Zenon
<1>10. ASSUME NEW x \in tunnels, TunnelDelete(w, x)
       PROVE  TunnelInv'
  <2>1. /\ Begin(w, <<x>>, <<>>) /\ UNCHANGED <<status, nextId, dropped>>
        /\ tunnels' = tunnels \ {x}
    BY <1>10 DEF TunnelDelete
  <2>2. <<x>> \in Seq(Tunnels) /\ <<>> \in Seq(Tunnels)
    BY <1>3
  <2>3. tunnels' \subseteq Tunnels /\ IsFiniteSet(tunnels')
    BY <1>1, <2>1, FS_RemoveElement, Zenon DEF TypeOK
  <2>4. \A z \in tunnels : Runs(z) => z = x \/ (z \in tunnels' /\ Runs(z)')
    BY <2>1, Zenon DEF Runs
  <2>5. Accounted(<<x>>)
    BY <2>4 DEF Accounted
  <2> QED
    BY <1>1, <2>1, <2>2, <2>3, <2>5, BeginKeepsInv, Zenon
<1>11. ASSUME NEW x \in tunnels, NEW p \in Ports, TunnelEdit(w, x, p)
       PROVE  TunnelInv'
  <2> DEFINE y == [x EXCEPT !.port = p, !.web = TRUE]
  <2>1. y \in Tunnels /\ y.id = x.id /\ y.on = x.on /\ y.cl = x.cl
    BY <1>3, Zenon DEF Tunnels
  <2>2. /\ UNCHANGED <<status, nextId, dropped>>
        /\ tunnels' = (tunnels \ {x}) \union {y}
    BY <1>11 DEF TunnelEdit
  <2>3. PICK ss \in Seq(Tunnels), sts \in Seq(Tunnels) : Begin(w, ss, sts)
    <3>1. <<x>> \in Seq(Tunnels) /\ If(y.on, y) \in Seq(Tunnels) /\ <<>> \in Seq(Tunnels)
      BY <1>3, <2>1 DEF If
    <3> QED
      BY <1>11, <3>1, Zenon DEF TunnelEdit
  <2>4. tunnels' \subseteq Tunnels /\ IsFiniteSet(tunnels')
    BY <1>1, <2>1, <2>2, FS_AddElement, FS_RemoveElement, Zenon DEF TypeOK
  <2> HIDE DEF y
  <2>5. \A z \in tunnels : Runs(z) => \E u \in tunnels' : u.id = z.id /\ Runs(u)'
    BY <2>1, <2>2 DEF Runs
  <2>6. Accounted(ss)
    BY <2>5 DEF Accounted
  <2> QED
    BY <1>1, <2>2, <2>3, <2>4, <2>6, BeginKeepsInv, Zenon
<1> QED
  BY <1>2, <1>4, <1>5, <1>6, <1>7, <1>8, <1>9, <1>10, <1>11, Zenon DEF Handler

-----------------------------------------------------------------------------
(* stop_tunnel_runtime and start_tunnel_task.                              *)
LEMMA StopFlagKeepsInv ==
  ASSUME TunnelInv, NEW w \in Workers, StopFlag(w)
  PROVE  TunnelInv'
<1> USE DEF TunnelInv
<1>1. /\ work[w].pc = "flag" /\ UNCHANGED <<listeners, thread, live, conn, memory>>
      /\ work' = [v \in Workers |-> IF v = w THEN [work[w] EXCEPT !.pc = "conns"]
                                             ELSE work[v]]
  BY Zenon DEF StopFlag, TypeOK
<1>2. /\ flag' \in [Threads -> BOOLEAN]
      /\ shutdowns' \in [Ids -> Threads \union {NoThread}]
  BY Zenon DEF StopFlag, TypeOK
<1>3. \A v \in Workers : /\ work'[v].stops = work[v].stops
                         /\ work'[v].starts = work[v].starts
                         /\ v # w => work'[v].pc = work[v].pc
  BY <1>1 DEF TypeOK
<1>4. work'[w].pc = "conns"
  BY <1>1 DEF TypeOK, Jobs
<1>5. TypeOK'
  BY <1>1, <1>2, Zenon DEF TypeOK, Jobs, memory
<1>6. Registered' /\ AnswersAreUdp'
  BY <1>1 DEF Registered, AnswersAreUdp, Udp
<1>7. StopsFirst'
  BY <1>1, <1>3, <1>4 DEF StopsFirst
<1>8. \A v \in Workers : \A id : Stopping(v, id) => Stopping(v, id)'
  BY <1>1, <1>3, <1>4 DEF Stopping
<1>9. StopDisconnects'
  BY <1>1, <1>8, StopsKept
<1>10. KeysMatchThreads'
  <2>1. \A p \in Ports : Owners(p)' = Owners(p) /\ Spawning(p)' = Spawning(p)
    BY <1>1, <1>3, <1>4, Zenon DEF Owners, Spawning
  <2> QED
    BY <1>1, <2>1, KeysKept
<1> QED
  BY <1>5, <1>6, <1>7, <1>9, <1>10

LEMMA StopConnsKeepsInv ==
  ASSUME TunnelInv, NEW w \in Workers, StopConns(w)
  PROVE  TunnelInv'
<1> USE DEF TunnelInv
<1> DEFINE cs == {c \in live : conn[c].id = Head(work[w].stops).id}
<1>1. /\ work[w].pc = "conns" /\ UNCHANGED <<listeners, shutdowns, thread, flag, memory>>
      /\ work' = [v \in Workers |-> IF v = w THEN [work[w] EXCEPT !.pc = "wait"]
                                             ELSE work[v]]
      /\ live' = live \ cs
      /\ conn' = [c \in Conns |-> IF c \in cs THEN [conn[c] EXCEPT !.shut = TRUE]
                                             ELSE conn[c]]
  BY Zenon DEF StopConns, TypeOK
<1>2. \A v \in Workers : /\ work'[v].stops = work[v].stops
                         /\ work'[v].starts = work[v].starts
                         /\ v # w => work'[v].pc = work[v].pc
  BY <1>1 DEF TypeOK
<1>3. work'[w].pc = "wait"
  BY <1>1 DEF TypeOK, Jobs
<1>4. \A c \in Conns : /\ conn'[c].pc = conn[c].pc /\ conn'[c].id = conn[c].id
                       /\ conn'[c].thread = conn[c].thread
                       /\ IF c \in cs THEN conn'[c].shut = TRUE
                                      ELSE conn'[c].shut = conn[c].shut
  <2> SUFFICES ASSUME NEW c \in Conns
               PROVE  /\ conn'[c].pc = conn[c].pc /\ conn'[c].id = conn[c].id
                      /\ conn'[c].thread = conn[c].thread
                      /\ IF c \in cs THEN conn'[c].shut = TRUE
                                     ELSE conn'[c].shut = conn[c].shut
    BY Zenon
  <2> HIDE DEF cs
  <2>1. conn'[c] = IF c \in cs THEN [conn[c] EXCEPT !.shut = TRUE] ELSE conn[c]
    BY <1>1
  <2> QED
    BY <2>1 DEF TypeOK
<1>5. TypeOK'
  <2> HIDE DEF cs
  <2>1. work' \in [Workers -> Jobs]
    BY <1>1, Zenon DEF TypeOK, Jobs
  <2>2. \A r \in Connections : [r EXCEPT !.shut = TRUE] \in Connections
    BY Zenon DEF Connections
  <2>3. conn' \in [Conns -> Connections]
    BY <1>1, <2>2 DEF TypeOK
  <2> QED
    BY <1>1, <2>1, <2>3 DEF TypeOK, memory
<1>6. Registered' /\ AnswersAreUdp'
  BY <1>1, <1>4 DEF Registered, AnswersAreUdp, Udp
<1>7. StopsFirst'
  BY <1>1, <1>2, <1>3, Zenon DEF StopsFirst
<1>8. StopDisconnects'
  <2> SUFFICES ASSUME NEW c \in Conns, Served(c)', ~conn'[c].shut,
                      conn'[c].id \notin dropped',
                      ~ \E x \in tunnels' : x.id = conn'[c].id /\ Runs(x)'
               PROVE  \E v \in Workers : Stopping(v, conn[c].id)'
    BY <1>4, Zenon DEF StopDisconnects, Stopping
  <2>1. c \notin cs /\ Served(c) /\ ~conn[c].shut /\ conn[c].id \notin dropped
    BY <1>1, <1>4, Zenon DEF Served, Udp, memory
  <2>2. ~ \E x \in tunnels : x.id = conn[c].id /\ Runs(x)
    BY <1>1, <1>4, Zenon DEF Runs, memory
  <2>3. PICK v \in Workers : Stopping(v, conn[c].id)
    BY <2>1, <2>2, Zenon DEF StopDisconnects
  <2>4. PICK i \in 1..Len(work[v].stops) :
          /\ work[v].stops[i].id = conn[c].id
          /\ i = 1 => work[v].pc \in {"flag", "conns"}
    BY <2>3, Zenon DEF Stopping
  <2>5. c \in live
    BY <2>1, Zenon DEF Registered, Served
  <2>6. v = w => i # 1
    BY <2>1, <2>4, <2>5 DEF TypeOK
  <2>7. i = 1 => work'[v].pc \in {"flag", "conns"}
    BY <1>2, <2>4, <2>6, Zenon
  <2> QED
    BY <1>2, <1>4, <2>4, <2>7, Zenon DEF Stopping
<1>9. KeysMatchThreads'
  <2>1. \A p \in Ports : Owners(p)' = Owners(p) /\ Spawning(p)' = Spawning(p)
    BY <1>1, <1>2, <1>3, Zenon DEF Owners, Spawning
  <2> QED
    BY <1>1, <2>1, KeysKept
<1> QED
  BY <1>5, <1>6, <1>7, <1>8, <1>9

LEMMA StopWaitKeepsInv ==
  ASSUME TunnelInv, NEW w \in Workers, StopWait(w)
  PROVE  TunnelInv'
<1> USE DEF TunnelInv
<1> DEFINE stops == work[w].stops
           rest == Tail(stops)
           to == IF rest # <<>> THEN "flag" ELSE "key"
<1>1. /\ work[w].pc = "wait" /\ UNCHANGED <<runtime, memory>>
      /\ work' = [v \in Workers |->
           IF v = w THEN [work[w] EXCEPT !.stops = rest, !.pc = to] ELSE work[v]]
  BY Zenon DEF StopWait, TypeOK
<1>2. stops \in Seq(Tunnels) /\ stops # <<>>
  BY <1>1, Zenon DEF TypeOK, Jobs, StopsFirst
<1>3. /\ rest \in Seq(Tunnels) /\ Len(rest) = Len(stops) - 1
      /\ \A i \in 1..Len(rest) : rest[i] = stops[i + 1]
  BY <1>2
<1>4. /\ work'[w].stops = rest /\ work'[w].pc = to /\ work'[w].starts = work[w].starts
      /\ \A v \in Workers : v # w => work'[v] = work[v]
  BY <1>1, Zenon DEF TypeOK, Jobs
<1>5. to \in {"flag", "key"} /\ (to = "key" <=> rest = <<>>)
  OBVIOUS
<1>6. TypeOK'
  <2>1. work'[w] \in Jobs
    BY <1>1, <1>3, Zenon DEF TypeOK, Jobs
  <2> QED
    BY <1>1, <2>1, Zenon DEF TypeOK, runtime, memory
<1>7. Registered' /\ AnswersAreUdp'
  BY <1>1, Zenon DEF Registered, AnswersAreUdp, Udp, runtime
<1>8. StopsFirst'
  <2> HIDE DEF to, rest
  <2> QED
    BY <1>4, <1>5, Zenon DEF StopsFirst
<1>9. \A v \in Workers : \A id : Stopping(v, id) => Stopping(v, id)'
  <2> SUFFICES ASSUME NEW v \in Workers, NEW id, Stopping(v, id)
               PROVE  \E i \in 1..Len(work'[v].stops) :
                        /\ work'[v].stops[i].id = id
                        /\ i = 1 => work'[v].pc \in {"flag", "conns"}
    BY Zenon DEF Stopping
  <2>1. CASE v # w
    BY <1>4, <2>1, Zenon DEF Stopping
  <2>2. CASE v = w
    <3>1. PICK i \in 1..Len(stops) : stops[i].id = id /\ i # 1
      BY <1>1, <2>2, Zenon DEF Stopping
    <3>2. Len(stops) \in Nat
      BY <1>2
    <3> HIDE DEF stops, rest
    <3>3. i - 1 \in 1..Len(rest) /\ rest[i - 1] = stops[i]
      BY <1>3, <3>1, <3>2, SMTT(20)
    <3>4. rest # <<>>
      BY <1>3, <3>3, SMTT(20)
    <3> QED
      BY <1>4, <2>2, <3>1, <3>3, <3>4, Zenon
  <2> QED
    BY <2>1, <2>2, Zenon
<1>10. StopDisconnects'
  BY <1>1, <1>9, StopsKept, Zenon DEF runtime
<1>11. KeysMatchThreads'
  <2> HIDE DEF to, rest
  <2>1. UNCHANGED <<listeners, thread>>
    BY <1>1 DEF runtime
  <2>2. \A p \in Ports : Owners(p)' = Owners(p)
    BY <2>1, Zenon DEF Owners
  <2>3. \A p \in Ports : Spawning(p)' = Spawning(p)
    BY <1>1, <1>4, <1>5, Zenon DEF Spawning
  <2> QED
    BY <2>1, <2>2, <2>3, KeysKept, Zenon
<1> QED
  BY <1>6, <1>7, <1>8, <1>10, <1>11

LEMMA StartKeyKeepsInv ==
  ASSUME TunnelInv, NEW w \in Workers, StartKey(w)
  PROVE  TunnelInv'
<1> USE DEF TunnelInv
<1> DEFINE starts == work[w].starts
           P == Head(starts).port
<1>1. /\ work[w].pc = "key" /\ UNCHANGED <<shutdowns, thread, flag, live, conn, memory>>
      /\ work[w] \in Jobs /\ work[w].stops = <<>>
  BY Zenon DEF StartKey, TypeOK, StopsFirst
<1>2. starts \in Seq(Tunnels) /\ (starts # <<>> => P \in Ports /\ Tail(starts) \in Seq(Tunnels))
  <2>1. starts \in Seq(Tunnels)
    BY <1>1, Zenon DEF Jobs
  <2>2. \A x \in Tunnels : x.port \in Ports
    BY DEF Tunnels
  <2> QED
    BY <2>1, <2>2
<1>3. PICK n \in Jobs :
        /\ work' = [v \in Workers |-> IF v = w THEN n ELSE work[v]]
        /\ n.stops = <<>>
        /\ \/ n.pc \in {"idle", "key"} /\ UNCHANGED listeners
           \/ /\ n.pc = "spawn" /\ n.starts = starts /\ starts # <<>>
              /\ P \notin listeners /\ listeners' = listeners \union {P}
  <2>1. CASE starts = <<>>
    <3>1. Idle \in Jobs
      BY DEF Idle, Jobs
    <3> QED
      BY <2>1, <3>1 DEF StartKey, TypeOK, Idle
  <2>2. CASE starts # <<>> /\ P \in listeners \union Refused
    <3> DEFINE n == [work[w] EXCEPT !.starts = Tail(@)]
    <3>1. n \in Jobs /\ n.stops = <<>> /\ n.pc = "key"
      BY <1>1, <1>2, <2>2, Zenon DEF Jobs
    <3>2. work' = [work EXCEPT ![w] = n] /\ UNCHANGED listeners
      BY <2>2 DEF StartKey
    <3> HIDE DEF n
    <3> QED
      BY <3>1, <3>2, Zenon DEF TypeOK
  <2>3. CASE starts # <<>> /\ P \notin listeners \union Refused
    <3> DEFINE n == [work[w] EXCEPT !.pc = "spawn"]
    <3>1. n \in Jobs /\ n.stops = <<>> /\ n.pc = "spawn" /\ n.starts = starts
      BY <1>1 DEF Jobs
    <3>2. work' = [work EXCEPT ![w] = n] /\ listeners' = listeners \union {P}
      BY <2>3, Zenon DEF StartKey
    <3> HIDE DEF n
    <3> QED
      BY <2>3, <3>1, <3>2, Zenon DEF TypeOK
  <2> QED
    BY <2>1, <2>2, <2>3, Zenon
<1>4. TypeOK'
  BY <1>1, <1>2, <1>3, Zenon DEF TypeOK, memory
<1>5. Registered' /\ AnswersAreUdp'
  BY <1>1, Zenon DEF Registered, AnswersAreUdp, Udp
<1>6. StopsFirst'
  BY <1>1, <1>3, Zenon DEF StopsFirst
<1>7. \A v \in Workers : \A id : Stopping(v, id) => Stopping(v, id)'
  BY <1>1, <1>3, Zenon DEF Stopping
<1>8. StopDisconnects'
  BY <1>1, <1>7, StopsKept, Zenon
<1>9. KeysMatchThreads'
  <2>1. \A p \in Ports : Owners(p)' = Owners(p)
    BY <1>1, Zenon DEF Owners
  <2>2. CASE n.pc \in {"idle", "key"} /\ UNCHANGED listeners
    <3>1. \A p \in Ports : Spawning(p)' = Spawning(p)
      BY <1>1, <1>3, <2>2, Zenon DEF Spawning
    <3> QED
      BY <2>1, <2>2, <3>1, KeysKept, Zenon
  <2>3. CASE /\ n.pc = "spawn" /\ n.starts = starts /\ starts # <<>>
             /\ P \notin listeners /\ listeners' = listeners \union {P}
    <3>1. \A p \in Ports : Spawning(p)' = IF p = P THEN Spawning(p) \union {w}
                                                    ELSE Spawning(p)
      BY <1>1, <1>3, <2>3, Zenon DEF Spawning
    <3>2. P \in Ports /\ Owners(P) = {} /\ Spawning(P) = {}
      BY <1>2, <2>3, Zenon DEF KeysMatchThreads
    <3> QED
      BY <2>1, <2>3, <3>1, <3>2, KeyAdded, Zenon
  <2> QED
    BY <1>3, <2>2, <2>3, Zenon
<1> QED
  BY <1>4, <1>5, <1>6, <1>8, <1>9, Zenon

LEMMA StartSpawnKeepsInv ==
  ASSUME TunnelInv, NEW w \in Workers, NEW t \in Threads, StartSpawn(w, t)
  PROVE  TunnelInv'
<1> USE DEF TunnelInv
<1> DEFINE starts == work[w].starts
           x == Head(starts)
           n == [work[w] EXCEPT !.starts = Tail(@), !.pc = "key"]
           l == [pc |-> "bind", id |-> x.id, port |-> x.port]
<1>1. /\ work[w].pc = "spawn" /\ thread[t] = Free
      /\ UNCHANGED <<listeners, flag, live, conn, memory>>
      /\ work[w] \in Jobs /\ work[w].stops = <<>> /\ starts # <<>>
  BY Zenon DEF StartSpawn, TypeOK, StopsFirst
<1>2. x \in Tunnels /\ x.id \in Ids /\ x.port \in Ports /\ Tail(starts) \in Seq(Tunnels)
  <2>1. starts \in Seq(Tunnels)
    BY <1>1, Zenon DEF Jobs
  <2>2. \A y \in Tunnels : y.port \in Ports /\ y.id \in Ids
    BY DEF Tunnels
  <2> QED
    BY <1>1, <2>1, <2>2
<1>3. n \in Jobs /\ n.stops = <<>> /\ n.pc = "key"
  BY <1>1, <1>2, Zenon DEF Jobs
<1>4. l \in ListenerThreads
  BY <1>2, Zenon DEF ListenerThreads
<1>5. /\ work' = [v \in Workers |-> IF v = w THEN n ELSE work[v]]
      /\ thread' = [u \in Threads |-> IF u = t THEN l ELSE thread[u]]
      /\ shutdowns' \in [Ids -> Threads \union {NoThread}]
  BY <1>2, Zenon DEF StartSpawn, TypeOK
<1> HIDE DEF n
<1>6. TypeOK'
  BY <1>1, <1>3, <1>4, <1>5, Zenon DEF TypeOK, memory
<1>7. Registered' /\ AnswersAreUdp'
  BY <1>1, Zenon DEF Registered, AnswersAreUdp, Udp
<1>8. StopsFirst'
  BY <1>1, <1>3, <1>5, Zenon DEF StopsFirst
<1>9. \A v \in Workers : \A id : Stopping(v, id) => Stopping(v, id)'
  BY <1>1, <1>3, <1>5, Zenon DEF Stopping
<1>10. StopDisconnects'
  BY <1>1, <1>9, StopsKept, Zenon
<1>11. KeysMatchThreads'
  <2>1. \A p \in Ports : Spawning(p)' = Spawning(p) \ {w}
    BY <1>3, <1>5, Zenon DEF Spawning
  <2>2. \A p \in Ports : Owners(p)' = IF p = x.port THEN Owners(p) \union {t}
                                                    ELSE Owners(p)
    <3>1. l.pc = "bind" /\ l.port = x.port
      BY Zenon
    <3> HIDE DEF l, TunnelInv
    <3>2. thread[t] = Free /\ thread' = [u \in Threads |-> IF u = t THEN l ELSE thread[u]]
      BY <1>1, <1>5, Zenon
    <3> QED
      BY <3>1, <3>2, OwnerStarts
  <2>3. \A p \in Ports : w \in Spawning(p) <=> p = x.port
    BY <1>1, Zenon DEF Spawning
  <2> QED
    BY <1>1, <2>1, <2>2, <2>3, KeyTaken, Zenon
<1> QED
  BY <1>6, <1>7, <1>8, <1>10, <1>11

-----------------------------------------------------------------------------
(* The listener threads.                                                   *)
LEMMA ListenerKeepsInv ==
  ASSUME TunnelInv, NEW t \in Threads, Listener(t)
  PROVE  TunnelInv'
<1> USE DEF TunnelInv
<1>1. UNCHANGED <<live, conn, work, memory>>
  BY Zenon DEF Listener, Bind, Poll, NoAccept, Unlist, Unflag
<1>2. Registered' /\ AnswersAreUdp' /\ StopsFirst'
  BY <1>1, Zenon DEF Registered, AnswersAreUdp, Udp, StopsFirst
<1>3. StopDisconnects'
  BY <1>1, NoneServed, Zenon
<1>4. \A p \in Ports : Spawning(p)' = Spawning(p)
  BY <1>1, Zenon DEF Spawning
<1>5. thread[t] \in ListenerThreads /\ Free \in ListenerThreads
  BY Zenon DEF TypeOK, ListenerThreads, Free
<1>6. ASSUME NEW pc \in {"loop", "accept", "unlist", "unflag", "done"}, Goto(t, pc)
      PROVE  /\ thread' \in [Threads -> ListenerThreads]
             /\ \A u \in Threads : u # t => thread'[u] = thread[u]
             /\ thread'[t].pc = pc /\ thread'[t].port = thread[t].port
  <2> DEFINE moved == [thread[t] EXCEPT !.pc = pc]
  <2>1. thread \in [Threads -> ListenerThreads]
    BY Zenon DEF TypeOK
  <2>2. thread' = [thread EXCEPT ![t] = moved]
    BY <1>6, Zenon DEF Goto
  <2>3. moved \in ListenerThreads /\ moved.pc = pc /\ moved.port = thread[t].port
    BY <1>5 DEF ListenerThreads
  <2> HIDE DEF moved
  <2> QED BY <2>1, <2>2, <2>3, Zenon
<1>7. CASE Bind(t) \/ Poll(t) \/ NoAccept(t)
  <2>1. PICK pc \in {"loop", "accept", "unlist"} : Goto(t, pc)
    BY <1>7, Zenon DEF Bind, Poll, NoAccept
  <2>2. /\ thread[t].pc \in {"bind", "loop", "accept"}
        /\ UNCHANGED <<listeners, shutdowns, flag>>
    BY <1>7, Zenon DEF Bind, Poll, NoAccept
  <2>3. /\ thread' \in [Threads -> ListenerThreads]
        /\ \A u \in Threads : u # t => thread'[u] = thread[u]
        /\ thread'[t].pc = pc /\ thread'[t].port = thread[t].port
    BY <1>6, <2>1, Zenon
  <2>4. TypeOK'
    BY <1>1, <2>2, <2>3, Zenon DEF TypeOK, memory
  <2>5. \A p \in Ports : Owners(p)' = Owners(p)
    BY <2>2, <2>3 DEF Owners
  <2>6. KeysMatchThreads'
    BY <1>4, <2>2, <2>5, KeysKept, Zenon
  <2> QED
    BY <1>2, <1>3, <2>4, <2>6, Zenon
<1>8. CASE Unlist(t)
  <2>1. /\ thread[t].pc = "unlist" /\ UNCHANGED <<shutdowns, flag>>
        /\ listeners' = listeners \ {thread[t].port}
        /\ thread' \in [Threads -> ListenerThreads]
        /\ \A u \in Threads : u # t => thread'[u] = thread[u]
        /\ thread'[t].pc = "unflag" /\ thread'[t].port = thread[t].port
    BY <1>6, <1>8, Zenon DEF Unlist
  <2>2. TypeOK'
    BY <1>1, <2>1, Zenon DEF TypeOK, memory
  <2>3. \A p \in Ports : Owners(p)' = Owners(p) \ {t}
    BY <2>1, Zenon DEF Owners
  <2>4. \A p \in Ports : t \in Owners(p) <=> p = thread[t].port
    BY <2>1, Zenon DEF Owners
  <2>5. KeysMatchThreads'
    <3>1. listeners' = listeners \ {thread[t].port}
      BY <2>1, Zenon
    <3> QED
      BY <1>4, <2>3, <2>4, <3>1, KeyRemoved, Zenon
  <2> QED
    BY <1>2, <1>3, <2>2, <2>5, Zenon
<1>9. CASE Unflag(t)
  <2>1. /\ thread[t].pc = "unflag" /\ UNCHANGED listeners
        /\ shutdowns' \in [Ids -> Threads \union {NoThread}]
    BY <1>9, Zenon DEF Unflag, TypeOK
  <2>2. /\ thread' \in [Threads -> ListenerThreads]
        /\ \A u \in Threads : u # t => thread'[u] = thread[u]
        /\ thread'[t].pc \in {"done", "free"}
        /\ flag' \in [Threads -> BOOLEAN]
    <3>1. CASE Goto(t, "done") /\ UNCHANGED flag
      BY <1>6, <3>1, Zenon DEF TypeOK
    <3>2. CASE Recycle(t)
      <4>1. thread' = [u \in Threads |-> IF u = t THEN Free ELSE thread[u]]
        BY <3>2, Zenon DEF Recycle, TypeOK
      <4>2. flag' \in [Threads -> BOOLEAN]
        BY <3>2, Zenon DEF Recycle, TypeOK
      <4> QED
        BY <1>5, <4>1, <4>2, Zenon DEF TypeOK, Free
    <3> QED
      BY <1>9, <3>1, <3>2, Zenon DEF Unflag
  <2>3. TypeOK'
    BY <1>1, <2>1, <2>2, Zenon DEF TypeOK, memory
  <2>4. \A p \in Ports : Owners(p)' = Owners(p)
    BY <2>1, <2>2, Zenon DEF Owners
  <2>5. KeysMatchThreads'
    BY <1>4, <2>1, <2>4, KeysKept, Zenon
  <2> QED
    BY <1>2, <1>3, <2>3, <2>5, Zenon
<1> QED
  BY <1>7, <1>8, <1>9, Zenon DEF Listener

(* The connections.                                                        *)
LEMMA EndedKeepsInv ==
  ASSUME TunnelInv, NEW c \in Conns, Ended(c)
  PROVE  TunnelInv'
<1> USE DEF TunnelInv
<1>1. /\ UNCHANGED <<listeners, shutdowns, work, memory>>
      /\ conn' = [d \in Conns |-> IF d = c THEN Closed ELSE conn[d]]
      /\ live' = live \ {c}
  BY Zenon DEF Ended, TypeOK
<1>2. Closed \in Connections /\ Closed.pc = "closed" /\ Free \in ListenerThreads
  BY Zenon DEF Closed, Connections, Free, ListenerThreads
<1>3. /\ thread' \in [Threads -> ListenerThreads] /\ flag' \in [Threads -> BOOLEAN]
      /\ \A p \in Ports : Owners(p)' = Owners(p)
  <2>1. CASE UNCHANGED <<thread, flag>>
    BY <2>1, Zenon DEF TypeOK, Owners
  <2>2. CASE /\ Udp(c) /\ thread[conn[c].thread].pc = "done"
             /\ Recycle(conn[c].thread)
    <3>1. conn[c].thread \in Threads
      BY <2>2, Zenon DEF Udp, TypeOK, Connections
    <3>2. thread' = [u \in Threads |-> IF u = conn[c].thread THEN Free ELSE thread[u]]
      BY <2>2, Zenon DEF Recycle, TypeOK
    <3>3. flag' \in [Threads -> BOOLEAN]
      BY <2>2, Zenon DEF Recycle, TypeOK
    <3>4. thread' \in [Threads -> ListenerThreads]
      BY <1>2, <3>2, Zenon DEF TypeOK
    <3>5. \A p \in Ports : Owners(p)' = Owners(p)
      BY <2>2, <3>1, <3>2, Zenon DEF Owners, Free
    <3> QED
      BY <3>3, <3>4, <3>5
  <2> QED
    BY <2>1, <2>2, Zenon DEF Ended
<1>4. TypeOK'
  BY <1>1, <1>2, <1>3, Zenon DEF TypeOK, memory
<1>5. Registered' /\ AnswersAreUdp'
  BY <1>1, <1>2, Zenon DEF Registered, AnswersAreUdp, Udp
<1>6. StopsFirst'
  BY <1>1, Zenon DEF StopsFirst
<1>7. StopDisconnects'
  <2>1. \A d \in Conns : Served(d)' => conn'[d] = conn[d]
    BY <1>1, <1>2, Zenon DEF Served
  <2> QED
    BY <1>1, <2>1, NoneServed, Zenon
<1>8. KeysMatchThreads'
  <2>1. \A p \in Ports : Spawning(p)' = Spawning(p)
    BY <1>1, Zenon DEF Spawning
  <2> QED
    BY <1>1, <1>3, <2>1, KeysKept, Zenon
<1> QED
  BY <1>4, <1>5, <1>6, <1>7, <1>8

(* A step that takes one connection to another place, and to being served  *)
(* only if its tunnel runs or it was served already.                       *)
LEMMA ContinueKeepsInv ==
  ASSUME TunnelInv, NEW c \in Conns, NEW to \in {"serve", "relay", "answer"},
         conn[c].pc # "closed", conn' = [conn EXCEPT ![c].pc = to],
         to = "answer" => Udp(c),
         \/ Udp(c) \/ Served(c)
         \/ \E x \in tunnels : x.id = conn[c].id /\ Runs(x),
         UNCHANGED <<listeners, shutdowns, thread, flag, live, work, memory>>
  PROVE  TunnelInv'
<1> USE DEF TunnelInv
<1>1. /\ conn'[c].pc = to /\ conn'[c].id = conn[c].id /\ conn'[c].shut = conn[c].shut
      /\ conn'[c].thread = conn[c].thread
      /\ \A d \in Conns : d # c => conn'[d] = conn[d]
  BY DEF TypeOK, Connections
<1>2. conn' \in [Conns -> Connections]
  <2>1. conn[c] \in Connections
    BY DEF TypeOK
  <2>2. [conn[c] EXCEPT !.pc = to] \in Connections
    BY <2>1 DEF Connections
  <2> QED
    BY <2>2 DEF TypeOK
<1>3. TypeOK'
  BY <1>2, Zenon DEF TypeOK, memory
<1>4. Registered' /\ AnswersAreUdp' /\ StopsFirst'
  BY <1>1 DEF Registered, AnswersAreUdp, Udp, StopsFirst
<1>5. StopDisconnects'
  <2> SUFFICES ASSUME NEW d \in Conns, Served(d)'
               PROVE  \/ conn[d].shut \/ conn[d].id \in dropped
                      \/ \E x \in tunnels : x.id = conn[d].id /\ Runs(x)
                      \/ \E w \in Workers : Stopping(w, conn[d].id)
    BY <1>1 DEF StopDisconnects, Stopping, Runs, memory
  <2>1. CASE d # c
    BY <1>1, <2>1, Zenon DEF StopDisconnects, Served, Udp
  <2>2. CASE d = c
    BY <1>1, <2>2 DEF StopDisconnects, Served, Udp
  <2> QED
    BY <2>1, <2>2
<1>6. KeysMatchThreads'
  <2>1. \A p \in Ports : Owners(p)' = Owners(p) /\ Spawning(p)' = Spawning(p)
    BY DEF Owners, Spawning
  <2> QED
    BY <2>1, KeysKept
<1> QED
  BY <1>3, <1>4, <1>5, <1>6

LEMMA AcceptKeepsInv ==
  ASSUME TunnelInv, NEW t \in Threads, NEW c \in Conns, Accept(t, c)
  PROVE  TunnelInv'
<1> USE DEF TunnelInv
<1> DEFINE udp == thread[t].port \in UdpPorts
           n == [pc |-> "accepted", id |-> thread[t].id, shut |-> FALSE,
                 thread |-> IF udp THEN t ELSE NoThread]
<1>1. /\ thread[t].pc = "accept" /\ conn[c] = Closed
      /\ UNCHANGED <<listeners, shutdowns, flag, work, memory>>
      /\ live' = IF udp THEN live ELSE live \union {c}
  BY Zenon DEF Accept
<1>2. conn' = [d \in Conns |-> IF d = c THEN n ELSE conn[d]]
  BY Zenon DEF Accept, TypeOK
<1>3. thread[t] \in ListenerThreads /\ n \in Connections
  BY Zenon DEF TypeOK, ListenerThreads, Connections
<1>4. /\ thread' \in [Threads -> ListenerThreads]
      /\ \A u \in Threads : u # t => thread'[u] = thread[u]
      /\ thread'[t].pc = "loop" /\ thread'[t].port = thread[t].port
  BY <1>3, Zenon DEF Accept, Goto, TypeOK, ListenerThreads
<1>5. n.pc = "accepted" /\ (n.thread = NoThread => ~udp)
  BY TunnelAssumption, Zenon
<1> HIDE DEF n
<1>6. TypeOK'
  BY <1>1, <1>2, <1>3, <1>4, Zenon DEF TypeOK, memory
<1>7. Registered' /\ AnswersAreUdp'
  BY <1>1, <1>2, <1>5, Zenon DEF Registered, AnswersAreUdp, Udp
<1>8. StopsFirst'
  BY <1>1, Zenon DEF StopsFirst
<1>9. StopDisconnects'
  <2>1. \A d \in Conns : Served(d)' => conn'[d] = conn[d]
    BY <1>2, <1>5, Zenon DEF Served
  <2> QED
    BY <1>1, <2>1, NoneServed, Zenon
<1>10. KeysMatchThreads'
  <2>1. \A p \in Ports : Spawning(p)' = Spawning(p)
    BY <1>1, Zenon DEF Spawning
  <2>2. \A p \in Ports : Owners(p)' = Owners(p)
    BY <1>1, <1>4, Zenon DEF Owners
  <2> QED
    BY <1>1, <2>1, <2>2, KeysKept, Zenon
<1> QED
  BY <1>6, <1>7, <1>8, <1>9, <1>10, Zenon

LEMMA ServeKeepsInv ==
  ASSUME TunnelInv, NEW c \in Conns, Serve(c)
  PROVE  TunnelInv'
<1>1. AnswersAreUdp
  BY DEF TunnelInv
<1>2. CASE \E t \in Threads : Accept(t, c)
  BY <1>2, AcceptKeepsInv
<1>3. CASE Check(c)
  <2>1. \E x \in tunnels : x.id = conn[c].id /\ Runs(x)
    BY <1>3 DEF Check, MayBeActive, Found
  <2> QED
    BY <1>3, <2>1, ContinueKeepsInv, Zenon DEF Check
<1>4. CASE Refuse(c) \/ Hangup(c)
  BY <1>4, EndedKeepsInv, Zenon DEF Refuse, Hangup
<1>5. CASE ServeTcp(c) \/ ServeHttpProxy(c) \/ ServeSocks5(c) \/ ServeUdp(c)
  BY <1>5, ContinueKeepsInv, Zenon
     DEF ServeTcp, ServeHttpProxy, ServeSocks5, ServeUdp, Continue, Served
<1>6. CASE Exchange(c)
  BY <1>6, ContinueKeepsInv, Zenon DEF Exchange, Continue
<1>7. CASE UdpAnswer(c)
  BY <1>1, <1>7, ContinueKeepsInv, Zenon DEF UdpAnswer, Continue, AnswersAreUdp
<1> QED
  BY <1>2, <1>3, <1>4, <1>5, <1>6, <1>7, Zenon DEF Serve

LEMMA NextKeepsInv == TunnelInv /\ [Next]_vars => TunnelInv'
<1> SUFFICES ASSUME TunnelInv, [Next]_vars PROVE TunnelInv'
  OBVIOUS
<1>1. CASE \E w \in Workers : Handler(w)
  BY <1>1, HandlerKeepsInv, Zenon
<1>2. CASE \E w \in Workers : Apply(w)
  BY <1>2, StopFlagKeepsInv, StopConnsKeepsInv, StopWaitKeepsInv,
     StartKeyKeepsInv, StartSpawnKeepsInv, Zenon DEF Apply
<1>3. CASE \E t \in Threads : Listener(t)
  BY <1>3, ListenerKeepsInv, Zenon
<1>4. CASE \E c \in Conns : Serve(c)
  BY <1>4, ServeKeepsInv, Zenon
<1>5. CASE UNCHANGED vars
  <2> USE <1>5 DEF TunnelInv, vars
  <2>1. TypeOK'
    BY Zenon DEF TypeOK
  <2>2. Registered' /\ AnswersAreUdp' /\ StopsFirst'
    BY Zenon DEF Registered, AnswersAreUdp, StopsFirst, Udp
  <2>3. StopDisconnects'
    BY NoneServed, Zenon DEF memory
  <2>4. KeysMatchThreads'
    BY KeysKept, Zenon DEF Owners, Spawning
  <2> QED
    BY <2>1, <2>2, <2>3, <2>4, Zenon
<1> QED
  BY <1>1, <1>2, <1>3, <1>4, <1>5 DEF Next

LEMMA TunnelInvAlways == Spec => []TunnelInv
  BY InitInv, NextKeepsInv, PTL DEF Spec

(* The records, the registries and the threads are well typed: whatever    *)
(* the handlers do, there are finitely many tunnels and the lists of what  *)
(* is still to be stopped and started hold records of tunnels.             *)
THEOREM TypeCorrect == Spec => []TypeOK
<1>1. TunnelInv => TypeOK
  BY DEF TunnelInv
<1> QED
  BY <1>1, TunnelInvAlways, PTL

(* Registry.listeners always agrees with the listener threads, however     *)
(* handlers, uploads and threads interleave: no port has two threads, and  *)
(* no key is left behind that would keep a tunnel from starting.           *)
THEOREM KeysAlwaysMatchThreads == Spec => []KeysMatchThreads
<1>1. TunnelInv => KeysMatchThreads
  BY DEF TunnelInv
<1> QED
  BY <1>1, TunnelInvAlways, PTL

(* A tunnel that a handler switches off or deletes loses its connections:  *)
(* one that is accepted at the same time is either refused or disconnected.*)
THEOREM StopAlwaysDisconnects == Spec => []StopDisconnects
<1>1. TunnelInv => StopDisconnects
  BY DEF TunnelInv
<1> QED
  BY <1>1, TunnelInvAlways, PTL

=============================================================================
