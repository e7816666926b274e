--------------------------- MODULE TunnelRuntime ---------------------------
(***************************************************************************)
(* The runtime of the tunnels: the tunnel records of Registry.clients, the *)
(* listener threads start_tunnel_task spawns, Registry.listeners,          *)
(* listener_shutdowns and tunnel_live_conns, the accepted connections and  *)
(* UDP workers, and the Web handlers and configuration uploads that change *)
(* records and then stop and start listeners without holding a lock.       *)
(*                                                                         *)
(* A thread of start_tunnel_task owns the shutdown flag it is given, so    *)
(* listener_shutdowns maps a tunnel id to a thread.  A listener key is     *)
(* determined by the port: the ports of UdpPorts belong to UDP tunnels,    *)
(* the others to TCP, HTTP proxy, SOCKS5 and file tunnels, whose accept    *)
(* loops are the same; which of them a tunnel is shows when a connection   *)
(* is served.  Ids are not unique: a client's configuration file numbers   *)
(* its tunnels from 1 in every client, and a tunnel with several ports     *)
(* becomes one record per port, all with its id.  The secrets a handler    *)
(* also refreshes are left out; its save is in Store.                      *)
(***************************************************************************)
EXTENDS Naturals, Sequences, FiniteSets, Functions

CONSTANTS
  Clients,   \* client records
  Ports,     \* listen ports, ordered as in a port range
  UdpPorts,  \* those used by UDP tunnels
  Refused,   \* those not in the allow_ports of the server configuration
  Threads,   \* bound: listener threads at a time; a finished one is reused
  Conns,     \* bound: accepted connections and UDP workers at a time
  Workers,   \* threads of the Web server and the bridge
  Uploads,   \* port sets of the tunnel a configuration file declares
  NoThread,  \* no flag is registered
  MaxId,     \* bound: tunnel ids
  MaxOps     \* bound: handlers started

ASSUME TunnelAssumption ==
  /\ Ports \subseteq Nat \ {0}
  /\ UdpPorts \subseteq Ports /\ Refused \subseteq Ports
  /\ Uploads \subseteq SUBSET Ports /\ \A ps \in Uploads : IsFiniteSet(ps)
  /\ NoThread \notin Threads
  /\ MaxId \in Nat /\ MaxId >= 2 /\ MaxOps \in Nat

VARIABLES
  tunnels,    \* the tunnel records of all clients
  status,     \* CommonConfig.client.status of each client
  listeners,  \* Registry.listeners
  shutdowns,  \* Registry.listener_shutdowns
  thread,     \* the listener threads
  flag,       \* their shutdown flags
  live,       \* Registry.tunnel_live_conns: the tracked connections
  conn,       \* the threads serving a connection or a UDP peer
  work,       \* what each handler still has to stop and to start
  nextId,     \* next_link_id, as far as tunnels draw from it
  dropped,    \* history: ids of running tunnels an upload has left out
  ops

memory == <<tunnels, status, nextId, dropped, ops>>
runtime == <<listeners, shutdowns, thread, flag, live, conn>>
vars == <<tunnels, status, listeners, shutdowns, thread, flag, live, conn,
          work, nextId, dropped, ops>>

Ids == 1..MaxId
Tunnels == [cl : Clients, id : Ids, port : Ports, on : BOOLEAN, web : BOOLEAN]

ListenerThreads ==
  [pc : {"free", "bind", "loop", "accept", "unlist", "unflag", "done"},
   id : Ids \union {0}, port : Ports \union {0}]
Connections ==
  [pc : {"closed", "accepted", "serve", "relay", "answer"},
   id : Ids \union {0}, thread : Threads \union {NoThread}, shut : BOOLEAN]
Jobs ==
  [pc : {"idle", "flag", "conns", "wait", "key", "spawn"},
   stops : Seq(Tunnels), starts : Seq(Tunnels)]

Free == [pc |-> "free", id |-> 0, port |-> 0]
Closed == [pc |-> "closed", id |-> 0, thread |-> NoThread, shut |-> FALSE]
Idle == [pc |-> "idle", stops |-> <<>>, starts |-> <<>>]

(* The server has loaded the stored tunnels of one client, if any, and the *)
(* main thread is about to start them (install_persistent_state).          *)
Init ==
  /\ \E cl \in Clients, p \in Ports, w \in Workers :
       LET x == [cl |-> cl, id |-> 2, port |-> p, on |-> TRUE, web |-> TRUE]
       IN \/ tunnels = {} /\ work = [v \in Workers |-> Idle] /\ nextId = 2
          \/ /\ tunnels = {x} /\ nextId = 3
             /\ work = [v \in Workers |->
                          IF v = w THEN [pc |-> "key", stops |-> <<>>, starts |-> <<x>>]
                                   ELSE Idle]
  /\ status = [cl \in Clients |-> TRUE]
  /\ listeners = {} /\ shutdowns = [i \in Ids |-> NoThread]
  /\ thread = [t \in Threads |-> Free] /\ flag = [t \in Threads |-> FALSE]
  /\ live = {} /\ conn = [c \in Conns |-> Closed]
  /\ dropped = {} /\ ops = 0

-----------------------------------------------------------------------------
(* find(|t| t.id == id) in the first client that has one: the clients are  *)
(* in no particular order, the records of one client are.                  *)
Found(id) ==
  {x \in tunnels : x.id = id /\ \A y \in tunnels :
                     y.cl = x.cl /\ y.id = id => x.port <= y.port}

Runs(x) == status[x.cl] /\ x.on

MayBeActive(id) == \E x \in Found(id) : Runs(x)
MayBeInactive(id) == Found(id) = {} \/ \E x \in Found(id) : ~Runs(x)

validate_tunnel_ports(p) == p \notin Refused

(* Only a UDP worker refers to its listener: it shares the flag and the    *)
(* socket.                                                                 *)
Udp(c) == conn[c].thread # NoThread

UdpWorkers(p) ==
  {c \in Conns : Udp(c) /\ thread[conn[c].thread].port = p}

Serving(t) == thread[t].pc \in {"loop", "accept"}

(* A UDP worker shares the socket of its listener and keeps it open.       *)
Bound(p) ==
  \/ UdpWorkers(p) # {}
  \/ \E t \in Threads : Serving(t) /\ thread[t].port = p

(* A port on which a bind succeeds at the moment.                          *)
generate_server_port(p) == validate_tunnel_ports(p) /\ ~Bound(p)

-----------------------------------------------------------------------------
(* The handlers change the records under the lock of the clients and leave *)
(* the list of what to stop and start.                                     *)
Begin(w, stops, starts) ==
  /\ work[w] = Idle /\ ops < MaxOps
  /\ ops' = ops + 1
  /\ work' = [work EXCEPT ![w] =
               [pc |-> IF stops # <<>> THEN "flag" ELSE "key",
                stops |-> stops, starts |-> starts]]
  /\ UNCHANGED runtime

If(b, x) == IF b THEN <<x>> ELSE <<>>
Of(cl) == {x \in tunnels : x.cl = cl}

(* The records of a vector, in some order.                                 *)
Listed(xs) == CHOOSE s \in Bijection(1..Cardinality(xs), xs) : TRUE

(* One that is refused has drawn an id and changed nothing else (Store).   *)
TunnelAdd(w, cl, p) ==
  LET x == [cl |-> cl, id |-> nextId, port |-> p, on |-> TRUE, web |-> TRUE]
  IN /\ nextId <= MaxId /\ validate_tunnel_ports(p)
     /\ Begin(w, <<>>, <<x>>)
     /\ tunnels' = tunnels \union {x} /\ nextId' = nextId + 1
     /\ UNCHANGED <<status, dropped>>

(* The copy gets another port and is switched off, so nothing is started.  *)
TunnelCopy(w, x, p) ==
  LET y == [x EXCEPT !.id = nextId, !.port = p, !.on = FALSE, !.web = TRUE]
  IN /\ nextId <= MaxId /\ generate_server_port(p)
     /\ Begin(w, <<>>, <<>>)
     /\ tunnels' = tunnels \union {y} /\ nextId' = nextId + 1
     /\ UNCHANGED <<status, dropped>>

TunnelStatus(w, x, on) ==
  LET y == [x EXCEPT !.on = on]
  IN /\ Begin(w, <<x>>, If(on, y))
     /\ tunnels' = (tunnels \ {x}) \union {y}
     /\ UNCHANGED <<status, nextId, dropped>>

TunnelDelete(w, x) ==
  /\ Begin(w, <<x>>, <<>>)
  /\ tunnels' = tunnels \ {x}
  /\ UNCHANGED <<status, nextId, dropped>>

(* A refused port is found out after the record has been changed, and the  *)
(* listeners are left as they are.                                         *)
TunnelEdit(w, x, p) ==
  LET y == [x EXCEPT !.port = p, !.web = TRUE]
  IN /\ IF validate_tunnel_ports(p) THEN Begin(w, <<x>>, If(y.on, y))
                                    ELSE Begin(w, <<>>, <<>>)
     /\ tunnels' = (tunnels \ {x}) \union {y}
     /\ UNCHANGED <<status, nextId, dropped>>

(* mutate_client_status; a change of the vkey in mutate_client_edit stops  *)
(* and restarts the tunnels in the same way, with the status as it is.     *)
ClientStatus(w, cl, on) ==
  /\ Begin(w, Listed(Of(cl)),
           IF on THEN Listed({x \in Of(cl) : x.on}) ELSE <<>>)
  /\ status' = [status EXCEPT ![cl] = on]
  /\ UNCHANGED <<tunnels, nextId, dropped>>

ClientDelete(w, cl) ==
  /\ Begin(w, Listed(Of(cl)), <<>>)
  /\ tunnels' = tunnels \ Of(cl)
  /\ status' = [status EXCEPT ![cl] = TRUE]
  /\ UNCHANGED <<nextId, dropped>>

(* install_client_config after expand_runtime_tunnels: the records made on *)
(* the Web stay, the uploaded ones are replaced; everything is started and *)
(* nothing is stopped.                                                     *)
Upload(w, cl, ps) ==
  LET xs == {x \in Of(cl) : x.web} \union
              {[cl |-> cl, id |-> 1, port |-> p, on |-> TRUE, web |-> FALSE] : p \in ps}
  IN /\ status[cl] /\ \A p \in ps : validate_tunnel_ports(p)
     /\ Begin(w, <<>>, Listed({x \in xs : x.on}))
     /\ tunnels' = (tunnels \ Of(cl)) \union xs
     /\ dropped' = dropped \union {x.id : x \in {y \in Of(cl) : y.on} \ xs}
     /\ UNCHANGED <<status, nextId>>

-----------------------------------------------------------------------------
(* stop_tunnel_runtime of the next record: the flag, the connections, then *)
(* up to a second of waiting for the key.                                  *)
StopFlag(w) ==
  LET id == Head(work[w].stops).id
      t == shutdowns[id]
  IN /\ work[w].pc = "flag"
     /\ shutdowns' = [shutdowns EXCEPT ![id] = NoThread]
     /\ flag' = [x \in Threads |-> flag[x] \/ x = t]
     /\ work' = [work EXCEPT ![w].pc = "conns"]
     /\ UNCHANGED <<listeners, thread, live, conn, memory>>

StopConns(w) ==
  LET cs == {c \in live : conn[c].id = Head(work[w].stops).id}
  IN /\ work[w].pc = "conns"
     /\ live' = live \ cs
     /\ conn' = [c \in Conns |-> IF c \in cs THEN [conn[c] EXCEPT !.shut = TRUE]
                                            ELSE conn[c]]
     /\ work' = [work EXCEPT ![w].pc = "wait"]
     /\ UNCHANGED <<listeners, shutdowns, thread, flag, memory>>

(* Mutant: a handler tired of waiting frees the key itself.                *)
StopWait_frees_key(w) ==
  LET rest == Tail(work[w].stops)
  IN /\ work[w].pc = "wait"
     /\ listeners' = listeners \ {Head(work[w].stops).port}
     /\ work' = [work EXCEPT ![w].stops = rest,
                             ![w].pc = IF rest # <<>> THEN "flag" ELSE "key"]
     /\ UNCHANGED <<shutdowns, thread, flag, live, conn, memory>>

(* The wait ends when the key is gone or, after twenty polls, anyway.      *)
StopWait(w) ==
  LET rest == Tail(work[w].stops)
  IN /\ work[w].pc = "wait"
     /\ work' = [work EXCEPT ![w].stops = rest,
                             ![w].pc = IF rest # <<>> THEN "flag" ELSE "key"]
     /\ UNCHANGED <<runtime, memory>>

(* start_tunnel_task of the next record: take the key, or return if it is  *)
(* taken or the port not allowed; register the flag, spawn the thread.     *)
StartKey(w) ==
  /\ work[w].pc = "key"
  /\ IF work[w].starts = <<>>
     THEN work' = [work EXCEPT ![w] = Idle] /\ UNCHANGED listeners
     ELSE IF Head(work[w].starts).port \in listeners \union Refused
          THEN /\ work' = [work EXCEPT ![w].starts = Tail(@)]
               /\ UNCHANGED listeners
          ELSE /\ listeners' = listeners \union {Head(work[w].starts).port}
               /\ work' = [work EXCEPT ![w].pc = "spawn"]
  /\ UNCHANGED <<shutdowns, thread, flag, live, conn, memory>>

StartSpawn(w, t) ==
  LET x == Head(work[w].starts)
  IN /\ work[w].pc = "spawn"
     /\ thread[t] = Free /\ t \notin {shutdowns[i] : i \in Ids}
     /\ shutdowns' = [shutdowns EXCEPT ![x.id] = t]
     /\ thread' = [thread EXCEPT ![t] = [pc |-> "bind", id |-> x.id, port |-> x.port]]
     /\ work' = [work EXCEPT ![w].starts = Tail(@), ![w].pc = "key"]
     /\ UNCHANGED <<listeners, flag, live, conn, memory>>

-----------------------------------------------------------------------------
(* The listener threads.                                                   *)
Goto(t, pc) == thread' = [thread EXCEPT ![t].pc = pc]

(* Its socket and its flag live on in its UDP workers.                     *)
Recycle(t) ==
  /\ thread' = [thread EXCEPT ![t] = Free]
  /\ flag' = [flag EXCEPT ![t] = FALSE]

(* The bind may fail although no tunnel holds the port.                    *)
Bind(t) ==
  /\ thread[t].pc = "bind"
  /\ \/ ~Bound(thread[t].port) /\ Goto(t, "loop")
     \/ Goto(t, "unlist")
  /\ UNCHANGED <<listeners, shutdowns, flag, live, conn, work, memory>>

(* Mutant: only the flag ends the loop.                                    *)
Poll_flag_only(t) ==
  /\ thread[t].pc = "loop"
  /\ Goto(t, IF flag[t] THEN "unlist" ELSE "accept")
  /\ UNCHANGED <<listeners, shutdowns, flag, live, conn, work, memory>>

(* The top of the loop.                                                    *)
Poll(t) ==
  /\ thread[t].pc = "loop"
  /\ \/ ~flag[t] /\ MayBeActive(thread[t].id) /\ Goto(t, "accept")
     \/ (flag[t] \/ MayBeInactive(thread[t].id)) /\ Goto(t, "unlist")
  /\ UNCHANGED <<listeners, shutdowns, flag, live, conn, work, memory>>

Unlist(t) ==
  /\ thread[t].pc = "unlist"
  /\ listeners' = listeners \ {thread[t].port}
  /\ Goto(t, "unflag")
  /\ UNCHANGED <<shutdowns, flag, live, conn, work, memory>>

(* The entry is removed by id, whichever thread it belongs to by now.      *)
Unflag(t) ==
  /\ thread[t].pc = "unflag"
  /\ shutdowns' = [shutdowns EXCEPT ![thread[t].id] = NoThread]
  /\ IF \E c \in Conns : conn[c].thread = t THEN Goto(t, "done") /\ UNCHANGED flag
                                             ELSE Recycle(t)
  /\ UNCHANGED <<listeners, live, conn, work, memory>>

-----------------------------------------------------------------------------
(* Connections.  The accept loop registers a TCP connection before its     *)
(* thread looks at the tunnel; a UDP worker is not registered but looks at *)
(* the flag and the tunnel again before every packet.                      *)
(* Nobody is connecting, or accept fails; a failing recv_from ends a UDP   *)
(* listener.                                                               *)
NoAccept(t) ==
  /\ thread[t].pc = "accept"
  /\ Goto(t, "loop") \/ (thread[t].port \in UdpPorts /\ Goto(t, "unlist"))
  /\ UNCHANGED <<listeners, shutdowns, flag, live, conn, work, memory>>

Accept(t, c) ==
  /\ thread[t].pc = "accept"
  /\ conn[c] = Closed
  /\ LET udp == thread[t].port \in UdpPorts IN
       /\ conn' = [conn EXCEPT ![c] =
                     [pc |-> "accepted", id |-> thread[t].id, shut |-> FALSE,
                      thread |-> IF udp THEN t ELSE NoThread]]
       /\ live' = IF udp THEN live ELSE live \union {c}
  /\ Goto(t, "loop")
  /\ UNCHANGED <<listeners, shutdowns, flag, work, memory>>

(* Mutant: a connection is served without asking for the tunnel again.     *)
Check_accepted(c) ==
  /\ conn[c].pc = "accepted"
  /\ Udp(c) => ~flag[conn[c].thread]
  /\ conn' = [conn EXCEPT ![c].pc = "serve"]
  /\ UNCHANGED <<listeners, shutdowns, thread, flag, live, work, memory>>

Check(c) ==
  /\ conn[c].pc = "accepted" /\ MayBeActive(conn[c].id)
  /\ Udp(c) => ~flag[conn[c].thread]
  /\ conn' = [conn EXCEPT ![c].pc = "serve"]
  /\ UNCHANGED <<listeners, shutdowns, thread, flag, live, work, memory>>

(* By the mode of the tunnel: the stream to the client is requested, and   *)
(* the relay starts, without another look at the tunnel.                   *)
Continue(c, from, to) ==
  /\ conn[c].pc = from
  /\ conn' = [conn EXCEPT ![c].pc = to]
  /\ UNCHANGED <<listeners, shutdowns, thread, flag, live, work, memory>>

ServeTcp(c) == ~Udp(c) /\ Continue(c, "serve", "relay")

(* The head of the request, or the negotiation, is read from the visitor   *)
(* first, for as long as that takes.                                       *)
ServeHttpProxy(c) == ~Udp(c) /\ ~conn[c].shut /\ Continue(c, "serve", "relay")
ServeSocks5(c) == ~Udp(c) /\ ~conn[c].shut /\ Continue(c, "serve", "relay")

(* A UDP worker sends a packet to the client and blocks for the answer; a  *)
(* client without an answer for a minute closes the stream.                *)
ServeUdp(c) == Udp(c) /\ Continue(c, "serve", "relay")

Exchange(c) ==
  /\ Udp(c) /\ ~flag[conn[c].thread] /\ MayBeActive(conn[c].id)
  /\ Continue(c, "relay", "answer")

UdpAnswer(c) == Continue(c, "answer", "relay")

Ended(c) ==
  /\ conn' = [conn EXCEPT ![c] = Closed]
  /\ live' = live \ {c}
  /\ \/ /\ Udp(c) /\ thread[conn[c].thread].pc = "done"
        /\ \A d \in Conns \ {c} : conn[d].thread # conn[c].thread
        /\ Recycle(conn[c].thread)
     \/ /\ Udp(c) => \/ thread[conn[c].thread].pc # "done"
                     \/ \E d \in Conns \ {c} : conn[d].thread = conn[c].thread
        /\ UNCHANGED <<thread, flag>>
  /\ UNCHANGED <<listeners, shutdowns, work, memory>>

(* A connection whose tunnel was stopped meanwhile, or without a target.   *)
Refuse(c) == conn[c].pc = "accepted" /\ Ended(c)

(* The visitor's request or the stream to the client is refused;           *)
(* copy_bidirectional returns because a side ended or the socket was shut  *)
(* down; a worker sees the flag, the inactive tunnel or no more senders.   *)
Hangup(c) == conn[c].pc \notin {"accepted", "closed"} /\ Ended(c)

-----------------------------------------------------------------------------
Handler(w) ==
  \/ \E cl \in Clients :
       \/ \E p \in Ports : TunnelAdd(w, cl, p)
       \/ \E on \in BOOLEAN : ClientStatus(w, cl, on)
       \/ ClientDelete(w, cl)
       \/ \E ps \in Uploads : Upload(w, cl, ps)
  \/ \E id \in Ids : \E x \in Found(id) :
       \/ \E p \in Ports : TunnelCopy(w, x, p) \/ TunnelEdit(w, x, p)
       \/ \E on \in BOOLEAN : TunnelStatus(w, x, on)
       \/ TunnelDelete(w, x)

Apply(w) ==
  \/ StopFlag(w) \/ StopConns(w) \/ StopWait(w) \/ StartKey(w)
  \/ \E t \in Threads : StartSpawn(w, t)

Listener(t) ==
  Bind(t) \/ Poll(t) \/ NoAccept(t) \/ Unlist(t) \/ Unflag(t)

Serve(c) ==
  \/ \E t \in Threads : Accept(t, c)
  \/ Check(c) \/ Refuse(c) \/ Hangup(c)
  \/ ServeTcp(c) \/ ServeHttpProxy(c) \/ ServeSocks5(c)
  \/ ServeUdp(c) \/ Exchange(c) \/ UdpAnswer(c)

Next ==
  \/ \E w \in Workers : Handler(w) \/ Apply(w)
  \/ \E t \in Threads : Listener(t)
  \/ \E c \in Conns : Serve(c)

Spec == Init /\ [][Next]_vars

(* The threads of listeners are scheduled.  Nothing is assumed of          *)
(* handlers, visitors and clients: a connection may be served for ever.    *)
ListenerSpec == Spec /\ \A t \in Threads : WF_vars(Listener(t))

-----------------------------------------------------------------------------
TypeOK ==
  /\ tunnels \subseteq Tunnels /\ IsFiniteSet(tunnels)
  /\ status \in [Clients -> BOOLEAN]
  /\ listeners \subseteq Ports
  /\ shutdowns \in [Ids -> Threads \union {NoThread}]
  /\ thread \in [Threads -> ListenerThreads]
  /\ flag \in [Threads -> BOOLEAN]
  /\ live \subseteq Conns
  /\ conn \in [Conns -> Connections]
  /\ work \in [Workers -> Jobs]
  /\ nextId \in Nat \ {0} /\ dropped \subseteq Ids /\ ops \in Nat

(* Registry.listeners holds exactly the keys of the listener threads that  *)
(* still own a socket or are about to, and no two of them share a key: no  *)
(* second thread is started on a port while the first may still be bound,  *)
(* and no key is left behind that would keep a tunnel from starting.       *)
Owners(p) ==
  {t \in Threads : /\ thread[t].port = p
                   /\ thread[t].pc \in {"bind", "loop", "accept", "unlist"}}
Spawning(p) ==
  {w \in Workers : work[w].pc = "spawn" /\ Head(work[w].starts).port = p}

KeysMatchThreads ==
  \A p \in Ports :
    /\ p \in listeners <=> Owners(p) # {} \/ Spawning(p) # {}
    /\ Owners(p) = {} \/ Spawning(p) = {}
    /\ \A t, u \in Owners(p) : t = u
    /\ \A w, v \in Spawning(p) : w = v

(* Once no tunnel with its id is active, no TCP connection is served any   *)
(* more except those a handler is still about to disconnect, unless an     *)
(* upload left the tunnel out, which stops nothing.  A connection is       *)
(* registered before it checks the tunnel, and a handler switches the      *)
(* tunnel off before it disconnects, so neither can miss the other.        *)
Served(c) == conn[c].pc \in {"serve", "relay"} /\ ~Udp(c)

Stopping(w, id) ==
  \E i \in 1..Len(work[w].stops) :
    /\ work[w].stops[i].id = id
    /\ i = 1 => work[w].pc \in {"flag", "conns"}

StopDisconnects ==
  \A c \in Conns :
    \/ ~Served(c) \/ conn[c].shut \/ conn[c].id \in dropped
    \/ \E x \in tunnels : x.id = conn[c].id /\ Runs(x)
    \/ \E w \in Workers : Stopping(w, conn[c].id)

(* A listener whose tunnels have all been switched off or deleted ends,    *)
(* even when its shutdown flag was lost: every accept loop polls           *)
(* tunnel_is_active.                                                       *)
StoppedCloses ==
  \A t \in Threads :
    (Serving(t) /\ ~MayBeActive(thread[t].id))
      ~> (~Serving(t) \/ MayBeActive(thread[t].id))

=============================================================================
