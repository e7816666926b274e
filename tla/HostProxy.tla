----------------------------- MODULE HostProxy -----------------------------
(***************************************************************************)
(* Virtual hosts: the listeners for HTTP and HTTPS requests, the choice of *)
(* a host and of one of its targets, the cache of responses, and the Web   *)
(* handlers and configuration uploads that change the hosts meanwhile.     *)
(* Every request has a thread, which looks at the hosts and at the cache   *)
(* under separate locks and keeps its copy of the host in between.         *)
(*                                                                         *)
(* Locations and paths are the characters after their first slash.  Which  *)
(* names end with which is a constant.  Header rewriting is left out, the  *)
(* IP white list and basic authentication but for their outcome.           *)
(***************************************************************************)
EXTENDS Naturals, Sequences, FiniteSets, FiniteSetsExt, Functions

CONSTANTS
  Clients,
  Forms,        \* hosts as entered
  Uploads,      \* host lists of configuration files: records with id and form
  Asked,        \* requests visitors make
  EndsWith,     \* pairs of a name and another one it ends with
  Cacheable,    \* paths with a file extension that is cached
  CacheLimits,  \* values of http_cache_length, 0 for no limit
  Ports,        \* values of https_proxy_port > 0
  JustProxies,  \* values of https_just_proxy
  Lines,        \* target lines of a tunnel, in order
  Threads,      \* bound: requests at a time
  None,         \* no host, no key, no response
  MaxEdits      \* bound: changes of the hosts and of the masks

Schemes == {"http", "https"}
Requests == [scheme : Schemes, name : STRING, path : Seq(STRING), get : BOOLEAN]
HostForms == [wild : BOOLEAN, name : STRING, location : Seq(STRING),
              scheme : Schemes \union {"all"}, auto_https : BOOLEAN, targets : Seq(STRING)]
HostRecords == [id : Nat, web : BOOLEAN, is_close : BOOLEAN, form : HostForms]
Routes == [cl : Clients, host : HostRecords, target : STRING]
Keys == Schemes \X BOOLEAN \X STRING \X Seq(STRING)
Responses == [scheme : Schemes, path : Seq(STRING), wild : BOOLEAN, name : STRING,
              target : STRING]

ASSUME HostAssumption ==
  /\ IsFiniteSet(Clients)
  /\ Forms \subseteq HostForms /\ Asked \subseteq Requests /\ Lines \in Seq(STRING)
  /\ \A file \in Uploads : file \in Seq([id : Nat, form : HostForms])
  /\ None \notin Routes /\ None \notin Keys
  /\ CacheLimits \subseteq Nat /\ MaxEdits \in Nat
  /\ Ports \subseteq BOOLEAN /\ JustProxies \subseteq BOOLEAN

VARIABLES
  limit, https, just,  \* the server configuration
  hosts,    \* the hosts of each client, in order
  enabled,  \* clients whose status is on
  masked,   \* Registry.health_targets (HealthMonitor)
  request,  \* the threads
  entries, order,  \* HttpResponseCache
  nextId, edits

config == <<limit, https, just>>
records == <<hosts, enabled, masked, nextId, edits>>
cache == <<entries, order>>
vars == <<limit, https, just, hosts, enabled, masked, request, entries, order,
          nextId, edits>>

Idle == [pc |-> "idle"]
Served == [pc : {"route", "prepare", "lookup", "open", "fetch", "store", "done"},
           route : Routes \union {None}, answer : Responses \union {None},
           asked : Requests]
Targets == (UNION {Range(f.targets) : f \in Forms}) \union Range(Lines)

(* A client may have been stored with a host.                              *)
Init ==
  /\ limit \in CacheLimits /\ https \in Ports /\ just \in JustProxies
  /\ \E cl \in Clients, f \in Forms :
       hosts = [c \in Clients |->
                  IF c = cl THEN <<[id |-> 2, web |-> TRUE, is_close |-> FALSE, form |-> f]>>
                            ELSE <<>>]
  /\ enabled = Clients
  /\ masked = [c \in Clients |-> {}]
  /\ request = [q \in Threads |-> Idle]
  /\ entries = <<>> /\ order = <<>>
  /\ nextId = 3 /\ edits = 0

-----------------------------------------------------------------------------
(* The elements of a sequence that are not in a set, in their order.       *)
Without(s, S) ==
  LET kept[i \in 0..Len(s)] ==
        IF i = 0 THEN <<>>
        ELSE IF s[i] \in S THEN kept[i - 1] ELSE Append(kept[i - 1], s[i])
  IN kept[Len(s)]

(* pick_runtime_target.                                                    *)
Live(cl, targets) == Without(targets, masked[cl])

(* Mutant: the cursor stays at the selected target.                        *)
select_target_stays(live, cursor) ==
  LET i == cursor % Len(live) IN [target |-> live[i + 1], next |-> i]

(* select_target, with the value it leaves in Registry.cursors.            *)
select_target(live, cursor) ==
  LET i == cursor % Len(live) IN [target |-> live[i + 1], next |-> i + 1]

route_supports_scheme(h, scheme) == h.form.scheme \in {"all", scheme}

(* "*.name" matches what ends with name, name included.                    *)
host_matches(h, name) ==
  name = h.form.name \/ (h.form.wild /\ <<name, h.form.name>> \in EndsWith)

starts_with(path, location) ==
  Len(location) <= Len(path) /\ SubSeq(path, 1, Len(location)) = location

Candidate(cl, h, r) ==
  /\ ~h.is_close
  /\ route_supports_scheme(h, r.scheme)
  /\ host_matches(h, r.name)
  /\ starts_with(r.path, h.form.location)
  /\ Live(cl, h.form.targets) # <<>>

RouteTo(cl, h) == [cl |-> cl, host |-> h, target |-> Head(Live(cl, h.form.targets))]

(* Mutant: the last match wins.                                            *)
Better_any(old, new) == new

(* A later match replaces the best one if its location is longer.          *)
Better(old, new) ==
  IF old = None \/ Len(new.host.form.location) > Len(old.host.form.location)
  THEN new ELSE old

(* find_host_route: the loop over the clients, which are in no particular  *)
(* order, and in it the one over the hosts of a client.                    *)
BestOf(cl, r, old) ==
  LET best[i \in 0..Len(hosts[cl])] ==
        IF i = 0 THEN old
        ELSE IF Candidate(cl, hosts[cl][i], r)
             THEN Better(best[i - 1], RouteTo(cl, hosts[cl][i]))
             ELSE best[i - 1]
  IN best[Len(hosts[cl])]

Found(cls, r) ==
  LET best[k \in 0..Len(cls)] ==
        IF k = 0 THEN None ELSE BestOf(cls[k], r, best[k - 1])
  IN best[Len(cls)]

Orders(S) == Bijection(1..Cardinality(S), S)

find_host_route(r) == {Found(cls, r) : cls \in Orders(enabled)}

-----------------------------------------------------------------------------
(* HttpResponseCache::insert.                                              *)
(* Mutant: a key that is cached already is queued a second time.           *)
CacheInsert_twice(k, resp) ==
  LET more == Append(order, k)
      n == IF limit > 0 /\ Len(more) > limit THEN Len(more) - limit ELSE 0
      kept == SubSeq(more, n + 1, Len(more))
      all == [x \in DOMAIN entries \union {k} |-> IF x = k THEN resp ELSE entries[x]]
  IN /\ order' = kept
     /\ entries' = [x \in DOMAIN all \ {more[i] : i \in 1..n} |-> all[x]]

CacheInsert(k, resp) ==
  LET all == [x \in DOMAIN entries \union {k} |-> IF x = k THEN resp ELSE entries[x]]
      more == Append(Without(order, {k}), k)
      n == IF limit > 0 /\ k \notin DOMAIN entries /\ Len(more) > limit
           THEN Len(more) - limit ELSE 0
  IN /\ order' = SubSeq(more, n + 1, Len(more))
     /\ entries' = [x \in DOMAIN all \ {more[i] : i \in 1..n} |-> all[x]]

-----------------------------------------------------------------------------
(* The thread of a request.  It ends with an error page, a redirect or a   *)
(* closed connection, or it has a response to write.                       *)
Becomes(q, r) == request' = [request EXCEPT ![q] = r]
Goto(q, pc) == Becomes(q, [request[q] EXCEPT !.pc = pc])
End(q) == Becomes(q, Idle)
Answer(q, what) == Becomes(q, [request[q] EXCEPT !.pc = "done", !.answer = what])

(* With https_just_proxy only the server name is known.                    *)
Sniffed(r) == just /\ r.scheme = "https"

Arrive(q, r) ==
  /\ request[q] = Idle
  /\ Becomes(q, [pc |-> "route", route |-> None, answer |-> None,
                 asked |-> IF Sniffed(r) THEN [r EXCEPT !.path = <<>>] ELSE r])
  /\ UNCHANGED <<config, records, cache>>

(* Without a certificate, a request that can be read or a host it ends.    *)
Route(q) ==
  /\ request[q].pc = "route"
  /\ \/ End(q)
     \/ \E route \in find_host_route(request[q].asked) \ {None} :
          Becomes(q, [request[q] EXCEPT
            !.route = route,
            !.pc = IF Sniffed(request[q].asked) THEN "open" ELSE "prepare"])
  /\ UNCHANGED <<config, records, cache>>

(* Mutant: http and https share their entries.                             *)
cache_key_for_request_mixed(r, form) ==
  IF r.get /\ r.path \in Cacheable /\ ~Sniffed(r)
  THEN <<form.wild, form.name, r.path>> ELSE None

cache_key_for_request(r, form) ==
  IF r.get /\ r.path \in Cacheable /\ ~Sniffed(r)
  THEN <<r.scheme, form.wild, form.name, r.path>> ELSE None

KeyOf(q) == cache_key_for_request(request[q].asked, request[q].route.host.form)

(* The white list or basic authentication may end the request here.        *)
Prepare(q) ==
  /\ request[q].pc = "prepare"
  /\ Goto(q, "lookup") \/ End(q)
  /\ UNCHANGED <<config, records, cache>>

(* A redirect comes before the cache.                                      *)
Lookup(q) ==
  /\ request[q].pc = "lookup"
  /\ IF request[q].route.host.form.auto_https /\ https THEN End(q)
     ELSE IF KeyOf(q) \in DOMAIN entries THEN Answer(q, entries[KeyOf(q)])
     ELSE Goto(q, "open")
  /\ UNCHANGED <<config, records, cache>>

(* request_client_stream may fail; without a key the streams are relayed   *)
(* (Relay), which ends the request as far as this module goes.             *)
Open(q) ==
  /\ request[q].pc = "open"
  /\ \/ End(q)
     \/ KeyOf(q) # None /\ Goto(q, "fetch")
  /\ UNCHANGED <<config, records, cache>>

(* The threads of the two listeners and the two versions of the proxy.     *)
Over(scheme, q) == request[q] # Idle /\ request[q].asked.scheme = scheme

handle_http_host_conn(q) == Over("http", q) /\ (Route(q) \/ Prepare(q))
proxy_host_request_tcp(q) == Over("http", q) /\ (Lookup(q) \/ Open(q))

handle_https_host_conn(q) ==
  Over("https", q) /\ (Route(q) \/ Prepare(q) \/ (just /\ Open(q)))
proxy_host_request(q) ==
  Over("https", q) /\ ~just /\ (Lookup(q) \/ Open(q))

(* proxy_and_cache_http_response: the response is written to the visitor   *)
(* before it is cached, if it is a 200 of at most 2 MiB; either end may    *)
(* fail.                                                                   *)
Response(q) ==
  [scheme |-> request[q].asked.scheme, path |-> request[q].asked.path,
   wild |-> request[q].route.host.form.wild, name |-> request[q].route.host.form.name,
   target |-> request[q].route.target]

Fetch(q) ==
  /\ request[q].pc = "fetch"
  /\ \/ End(q)
     \/ Answer(q, Response(q))
     \/ Becomes(q, [request[q] EXCEPT !.pc = "store", !.answer = Response(q)])
  /\ UNCHANGED <<config, records, cache>>

Store(q) ==
  /\ request[q].pc = "store"
  /\ CacheInsert(KeyOf(q), request[q].answer)
  /\ Goto(q, "done")
  /\ UNCHANGED <<config, records>>

Close(q) ==
  /\ request[q].pc = "done"
  /\ End(q)
  /\ UNCHANGED <<config, records, cache>>

-----------------------------------------------------------------------------
(* Changes of the hosts, under the lock of the clients.                    *)
Edit ==
  /\ edits < MaxEdits
  /\ edits' = edits + 1
  /\ UNCHANGED <<config, request, cache>>

(* host_mutation_result: the first host with this id of some client.       *)
Position(cl, id) ==
  {i \in DOMAIN hosts[cl] :
     hosts[cl][i].id = id /\ \A j \in 1..(i - 1) : hosts[cl][j].id # id}

Same(f, g) == f.wild = g.wild /\ f.name = g.name /\ f.location = g.location

Taken(cl, f, ids) ==
  \E i \in DOMAIN hosts[cl] : hosts[cl][i].id \notin ids /\ Same(hosts[cl][i].form, f)

HostStatus(cl, i, is_close) ==
  /\ Edit
  /\ hosts' = [hosts EXCEPT ![cl][i].is_close = is_close]
  /\ UNCHANGED <<enabled, masked, nextId>>

HostDelete(cl, i) ==
  /\ Edit
  /\ hosts' = [hosts EXCEPT ![cl] = SubSeq(@, 1, i - 1) \o SubSeq(@, i + 1, Len(@))]
  /\ UNCHANGED <<enabled, masked, nextId>>

(* With the no_store = false of both callers.                              *)
fill_host_from_params(h, f) ==
  [id |-> h.id, web |-> TRUE, is_close |-> h.is_close, form |-> f]

HostAdd(cl, f) ==
  /\ Edit
  /\ ~Taken(cl, f, {})
  /\ hosts' = [hosts EXCEPT ![cl] =
                 Append(@, fill_host_from_params([id |-> nextId, is_close |-> FALSE], f))]
  /\ nextId' = nextId + 1
  /\ UNCHANGED <<enabled, masked>>

(* Mutant: an edit does not look at the other hosts.                       *)
HostEdit_unchecked(cl, i, f) ==
  /\ Edit
  /\ hosts' = [hosts EXCEPT ![cl][i] = fill_host_from_params(@, f)]
  /\ UNCHANGED <<enabled, masked, nextId>>

HostEdit(cl, i, f) ==
  /\ Edit
  /\ ~Taken(cl, f, {hosts[cl][i].id})
  /\ hosts' = [hosts EXCEPT ![cl][i] = fill_host_from_params(@, f)]
  /\ UNCHANGED <<enabled, masked, nextId>>

(* install_client_config: the hosts of the file come first, with its ids;  *)
(* of the others those made on the Web stay.                               *)
Upload(cl, file) ==
  LET new == [i \in DOMAIN file |-> [id |-> file[i].id, web |-> FALSE,
                                     is_close |-> FALSE, form |-> file[i].form]]
      Uploaded == {h \in Range(hosts[cl]) : ~h.web}
  IN /\ Edit
     /\ cl \in enabled
     /\ hosts' = [hosts EXCEPT ![cl] = new \o Without(@, Uploaded)]
     /\ nextId' = Max({nextId} \union {file[i].id + 1 : i \in DOMAIN file})
     /\ UNCHANGED <<enabled, masked>>

ClientStatus(cl) ==
  /\ Edit
  /\ enabled' \in {enabled \ {cl}, enabled \union {cl}}
  /\ UNCHANGED <<hosts, masked, nextId>>

(* set_client_health_target_state and all that clears the mask.            *)
MaskChanges(cl, t) ==
  /\ Edit
  /\ masked' \in {[masked EXCEPT ![cl] = @ \union {t}], [masked EXCEPT ![cl] = @ \ {t}]}
  /\ UNCHANGED <<hosts, enabled, nextId>>

-----------------------------------------------------------------------------
Serve(q) ==
  \/ \E r \in Asked : Arrive(q, r)
  \/ handle_http_host_conn(q) \/ proxy_host_request_tcp(q)
  \/ handle_https_host_conn(q) \/ proxy_host_request(q)
  \/ Fetch(q) \/ Store(q) \/ Close(q)

Change(cl) ==
  \/ \E id \in 1..nextId : \E i \in Position(cl, id) :
       \/ \E b \in BOOLEAN : HostStatus(cl, i, b)
       \/ HostDelete(cl, i)
       \/ \E f \in Forms : HostEdit(cl, i, f)
  \/ \E f \in Forms : HostAdd(cl, f)
  \/ \E file \in Uploads : Upload(cl, file)
  \/ ClientStatus(cl)
  \/ \E t \in Targets : MaskChanges(cl, t)

Next ==
  \/ \E q \in Threads : Serve(q)
  \/ \E cl \in Clients : Change(cl)

Spec == Init /\ [][Next]_vars

-----------------------------------------------------------------------------
TypeOK ==
  /\ limit \in Nat /\ https \in BOOLEAN /\ just \in BOOLEAN
  /\ hosts \in [Clients -> Seq(HostRecords)]
  /\ enabled \subseteq Clients
  /\ masked \in [Clients -> SUBSET STRING]
  /\ request \in [Threads -> {Idle} \union Served]
  /\ entries \in [DOMAIN entries -> Responses] /\ DOMAIN entries \subseteq Keys
  /\ order \in Seq(Keys)
  /\ nextId \in Nat /\ edits \in Nat

(* The cache keeps its two structures together and its size within the     *)
(* limit, however the lookups and insertions of several requests for the   *)
(* same page interleave: order lists exactly the keys of entries, once.    *)
CacheConsistent ==
  /\ Range(order) = DOMAIN entries
  /\ Len(order) = Cardinality(DOMAIN entries)
  /\ limit > 0 => Len(order) <= limit

Fits(a, r) ==
  /\ a.scheme = r.scheme /\ a.path = r.path
  /\ a.name = r.name \/ (a.wild /\ <<r.name, a.name>> \in EndsWith)

(* A visitor gets a response to the request it made, fetched over the same *)
(* scheme for the path it asked for and with the host rule that covers its *)
(* name, also if another request put it in the cache.                      *)
AnswersFit ==
  \A q \in Threads :
    request[q] # Idle /\ request[q].answer # None => Fits(request[q].answer, request[q].asked)

TakesLongest(q) ==
  request[q] # Idle /\ request[q].pc = "route" /\ request'[q].pc \in {"prepare", "open"} =>
    \A cl \in enabled : \A i \in DOMAIN hosts[cl] :
      Candidate(cl, hosts[cl][i], request[q].asked) =>
        Len(hosts[cl][i].form.location) <= Len(request'[q].route.host.form.location)

(* The host of a request is one with the longest location among those that *)
(* could serve it at that moment, in whatever order the clients come up.   *)
RouteIsLongest == [][\A q \in Threads : TakesLongest(q)]_vars

(* The Web never makes two hosts of a client with the same name and        *)
(* location, unless they share the id an upload has brought in again.      *)
WebHostsDistinct ==
  \A cl \in Clients : \A i, j \in DOMAIN hosts[cl] :
    LET h == hosts[cl][i]
        g == hosts[cl][j]
    IN h.web /\ g.web /\ Same(h.form, g.form) => i = j \/ h.id = g.id

(* Selection is fair to the targets that are left: as long as the mask     *)
(* stays the same, n connections to a tunnel reach each of its n targets,  *)
(* wherever the cursor stood when a target was masked or restored.         *)
Rotation ==
  \A cl \in Clients, cursor \in 0..Len(Lines) :
    LET live == Live(cl, Lines)
        at[k \in 0..Len(live)] == IF k = 0 THEN cursor ELSE select_target(live, at[k - 1]).next
    IN {select_target(live, at[k]).target : k \in 0..(Len(live) - 1)} = Range(live)

=============================================================================
