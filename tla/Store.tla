------------------------------- MODULE Store -------------------------------
(***************************************************************************)
(* Persistence: Registry.clients and Registry.global in memory, the four   *)
(* files of PersistentStore on disk, the Web handlers that change the      *)
(* memory and then call persist_registry, the configuration a client       *)
(* uploads (which is not persisted), I/O errors, crashes and the load at   *)
(* start-up.                                                               *)
(*                                                                         *)
(* A tunnel or a host is an item: a record with its id, whether it is on   *)
(* (tunnel status, host not closed), no_store, the client_vkey it carries  *)
(* and its body, which tells an item made on the Web from one a client     *)
(* uploaded.  What the handlers do to listeners, controls and health state *)
(* is in TunnelRuntime, ControlRegistry and HealthMonitor.                  *)
(***************************************************************************)
EXTENDS Naturals, Sequences, FiniteSets, FiniteSetsExt, Functions

CONSTANTS
  VKeys,       \* client keys
  PublicKey,   \* the key of ServerConfig.public_vkey
  Workers,     \* threads of the Web server and of the bridge
  MaxId,       \* bound: ids handed out by next_link_id
  MaxEdits,    \* bound: handlers started
  MaxCrashes,  \* bound: crashes of the server process
  MaxFails     \* bound: failing file operations

ASSUME StoreAssumption ==
  /\ IsFiniteSet(VKeys) /\ IsFiniteSet(Workers)
  /\ {MaxEdits, MaxCrashes, MaxFails} \subseteq Nat
  /\ MaxId \in Nat \ {0}

VARIABLES
  clients,  \* Registry.clients: a function on the vkeys in use
  global,   \* Registry.global
  seq,      \* Registry.seq
  disk,     \* the files under conf/
  tmp,      \* their .json.tmp companions
  work,     \* what each worker is doing
  running,  \* the process is up and its state is loaded
  unsaved,  \* a change of the memory was not followed by a complete save
  edits, crashes, fails

vars == <<clients, global, seq, disk, tmp, work, running, unsaved,
          edits, crashes, fails>>

Kinds == {"tasks", "hosts"}
Files == <<"clients", "tasks", "hosts", "global">>
FileNames == {"clients", "tasks", "hosts", "global"}
Globals == {0, 1}

Items == [id : 1..MaxId, on : BOOLEAN, no_store : BOOLEAN, vkey : VKeys,
          body : {"web", "conf"}]
Clients == [id : 1..MaxId, status : BOOLEAN, no_store : BOOLEAN,
            items : [Kinds -> SUBSET Items]]

(* What a file holds: records in the format of this program or of the Go   *)
(* program.                                                                *)
ClientRecords == [id : 1..MaxId, on : BOOLEAN, vkey : VKeys, fmt : {"rust", "go"}]
ItemRecords == [id : 1..MaxId, on : BOOLEAN, vkey : VKeys, body : {"web", "conf"},
                fmt : {"rust", "go"}]

FileData(f) ==
  CASE f = "clients" -> SUBSET ClientRecords
    [] f \in Kinds -> SUBSET ItemRecords
    [] f = "global" -> SUBSET Globals

Absent == [state |-> "absent", data |-> {}]
Partial == [state |-> "partial", data |-> {}]
Whole(d) == [state |-> "whole", data |-> d]

Idle == [pc |-> "idle"]
Persist == [pc |-> "persist"]

Jobs ==
  {Idle, Persist}
    \union [pc : {"insert"}, vkey : VKeys, id : 1..MaxId]
    \union [pc : {"hello"}, vkey : VKeys]
    \union [pc : {"upload"}, vkey : VKeys, entry : Clients]
    \union [pc : {"save"}, file : 1..4, step : {"create", "write", "remove", "rename"}]

-----------------------------------------------------------------------------
(* What save_all writes and what load and install_persistent_state make of *)
(* it.  A record on disk is in the format of this program or in the one of *)
(* the Go program, which decode_* also reads.                              *)

Stored(c, k) == {i \in c.items[k] : ~i.no_store}

Kept(cs) ==
  {v \in DOMAIN cs : ~cs[v].no_store \/ \E k \in Kinds : Stored(cs[v], k) # {}}

Record(i) == [id |-> i.id, on |-> i.on, vkey |-> i.vkey, body |-> i.body,
              fmt |-> "rust"]

Image(cs, g) ==
  [f \in FileNames |->
    CASE f = "clients" ->
           {[id |-> cs[v].id, on |-> cs[v].status, vkey |-> v, fmt |-> "rust"] :
              v \in Kept(cs)}
      [] f \in Kinds ->
           {Record(i) : i \in UNION {Stored(cs[v], f) : v \in Kept(cs)}}
      [] f = "global" -> {g}]

Read(d, f) == d[f].data

decode(r) ==
  [id |-> r.id, on |-> r.on, no_store |-> FALSE, vkey |-> r.vkey, body |-> r.body]

decode_client(r, items) ==
  [id |-> r.id, status |-> r.on, no_store |-> FALSE, items |-> items]

Load(d) ==
  LET cs == Read(d, "clients")
      attached(v, k) == {decode(r) : r \in {x \in Read(d, k) : x.vkey = v}}
  IN [v \in {r.vkey : r \in cs} |->
       decode_client(CHOOSE r \in cs : r.vkey = v,
                     [k \in Kinds |-> attached(v, k)])]

LoadGlobal(d) ==
  IF Read(d, "global") = {} THEN 0 ELSE CHOOSE g \in Read(d, "global") : TRUE

Restart(d) == <<Load(d), LoadGlobal(d)>>

StoredPart(cs) ==
  [v \in Kept(cs) |->
    [cs[v] EXCEPT !.no_store = FALSE, !.items = [k \in Kinds |-> Stored(cs[v], k)]]]

(* Mutant: the sequence continues at the largest id instead of after it.   *)
observe_id_equal(s, ids) == Max({s} \union ids)

observe_id(s, ids) == Max({s} \union {i + 1 : i \in ids})

IdsOf(d) == {r.id : r \in Read(d, "clients") \union Read(d, "tasks")
                          \union Read(d, "hosts")}

-----------------------------------------------------------------------------
(* The disk a new installation starts with: nothing, or files of the Go    *)
(* program.                                                                *)
GoFiles(v) ==
  [f \in FileNames |->
    CASE f = "clients" -> Whole({[id |-> 1, on |-> TRUE, vkey |-> v, fmt |-> "go"]})
      [] f = "tasks" -> Whole({[id |-> 1, on |-> TRUE, vkey |-> v,
                                body |-> "web", fmt |-> "go"]})
      [] OTHER -> Absent]

Init ==
  /\ disk \in {[f \in FileNames |-> Absent]} \union {GoFiles(v) : v \in VKeys}
  /\ tmp = [f \in FileNames |-> Absent]
  /\ clients = <<>> /\ global = 0 /\ seq = 1
  /\ work = [w \in Workers |-> Idle]
  /\ running = FALSE /\ unsaved = FALSE
  /\ edits = 0 /\ crashes = 0 /\ fails = 0

(* The guard of registry.clients is held for the whole of save_all.        *)
Unlocked == running /\ \A w \in Workers : work[w].pc # "save"

Begin(w) ==
  /\ work[w] = Idle /\ Unlocked /\ edits < MaxEdits
  /\ edits' = edits + 1
  /\ UNCHANGED <<disk, tmp, running, crashes, fails>>

Thread(w, next) == work' = [work EXCEPT ![w] = next]

(* HashMap::insert.                                                        *)
Put(cs, v, c) == [u \in DOMAIN cs \union {v} |-> IF u = v THEN c ELSE cs[u]]
SetClient(v, c) == clients' = Put(clients, v, c)
SetItems(v, k, is) == SetClient(v, [clients[v] EXCEPT !.items[k] = is])

-----------------------------------------------------------------------------
(* The Web handlers, up to their call of persist_registry.                 *)

NewClient(i) == [id |-> i, status |-> TRUE, no_store |-> FALSE,
                 items |-> [k \in Kinds |-> {}]]

(* The duplicate check and the insertion take the lock separately, and     *)
(* the id is drawn in between.                                             *)
ClientAddCheck(w, v) ==
  /\ Begin(w) /\ v \notin DOMAIN clients /\ seq <= MaxId
  /\ seq' = seq + 1
  /\ Thread(w, [pc |-> "insert", vkey |-> v, id |-> seq])
  /\ UNCHANGED <<clients, global, unsaved>>

ClientAddInsert(w) ==
  /\ work[w].pc = "insert" /\ Unlocked
  /\ SetClient(work[w].vkey, NewClient(work[w].id))
  /\ Thread(w, Persist)
  /\ UNCHANGED <<global, seq, disk, tmp, running, unsaved, edits,
                 crashes, fails>>

ClientStatus(w, v) ==
  /\ Begin(w) /\ v \in DOMAIN clients
  /\ \E s \in BOOLEAN : SetClient(v, [clients[v] EXCEPT !.status = s])
  /\ Thread(w, Persist)
  /\ UNCHANGED <<global, seq, unsaved>>

ClientDelete(w, v) ==
  /\ Begin(w) /\ v \in DOMAIN clients
  /\ clients' = Restrict(clients, DOMAIN clients \ {v})
  /\ Thread(w, Persist)
  /\ UNCHANGED <<global, seq, unsaved>>

(* Mutant: the items of a renamed client keep the old client_vkey.         *)
Rekeyed_forgotten(is, n) == is

Rekeyed(is, n) == {[i EXCEPT !.vkey = n] : i \in is}

ClientEdit(w, v, n) ==
  /\ Begin(w) /\ v \in DOMAIN clients /\ (n = v \/ n \notin DOMAIN clients)
  /\ clients' = Put(Restrict(clients, DOMAIN clients \ {v}), n,
                    [clients[v] EXCEPT
                       !.items = [k \in Kinds |-> Rekeyed(@[k], n)]])
  /\ Thread(w, Persist)
  /\ UNCHANGED <<global, seq, unsaved>>

(* Adding a tunnel or a host, and copying a tunnel, which leaves the copy  *)
(* switched off.  One that is refused (the port, the limit of tunnels, a   *)
(* host that exists) has drawn its id already.                             *)
ItemAdd(w, v, k, on) ==
  /\ Begin(w) /\ v \in DOMAIN clients /\ seq <= MaxId
  /\ on \/ (k = "tasks" /\ clients[v].items[k] # {})
  /\ seq' = seq + 1
  /\ \/ /\ SetItems(v, k, clients[v].items[k] \union
                       {[id |-> seq, on |-> on, no_store |-> FALSE, vkey |-> v,
                         body |-> "web"]})
        /\ Thread(w, Persist)
     \/ Thread(w, Idle) /\ UNCHANGED clients
  /\ UNCHANGED <<global, unsaved>>

ItemDelete(w, v, k, i) ==
  /\ Begin(w) /\ v \in DOMAIN clients /\ i \in clients[v].items[k]
  /\ SetItems(v, k, clients[v].items[k] \ {i})
  /\ Thread(w, Persist)
  /\ UNCHANGED <<global, seq, unsaved>>

ItemStatus(w, v, k, i) ==
  /\ Begin(w) /\ v \in DOMAIN clients /\ i \in clients[v].items[k]
  /\ SetItems(v, k, (clients[v].items[k] \ {i})
                      \union {[i EXCEPT !.on = ~@]})
  /\ Thread(w, Persist)
  /\ UNCHANGED <<global, seq, unsaved>>

(* An edit makes the item a stored one.  A tunnel edit whose new port is   *)
(* refused returns after the record has been changed and before the save.  *)
ItemEdit(w, v, k, i) ==
  /\ Begin(w) /\ v \in DOMAIN clients /\ i \in clients[v].items[k]
  /\ SetItems(v, k, (clients[v].items[k] \ {i})
                      \union {[i EXCEPT !.no_store = FALSE]})
  /\ \/ Thread(w, Persist) /\ UNCHANGED unsaved
     \/ k = "tasks" /\ Thread(w, Idle) /\ unsaved' = TRUE
  /\ UNCHANGED <<global, seq>>

GlobalSave(w, g) ==
  /\ Begin(w) /\ global' = g
  /\ Thread(w, Persist)
  /\ UNCHANGED <<clients, seq, unsaved>>

(* The Config hello: validate_client_handshake, then install_client_config *)
(* reads the entry under the key and replaces it later.  The ids of the    *)
(* uploaded items come from the client's file, counted from 1; the status  *)
(* is the one of the uploaded record; a new entry draws its id from the    *)
(* sequence.  Nothing is saved.                                            *)
Uploaded(v) ==
  [k \in Kinds |-> {[id |-> 1, on |-> TRUE, no_store |-> TRUE, vkey |-> v,
                     body |-> "conf"]}]

UploadHello(w, v) ==
  /\ Begin(w)
  /\ v = PublicKey \/ (v \in DOMAIN clients /\ clients[v].status)
  /\ Thread(w, [pc |-> "hello", vkey |-> v])
  /\ UNCHANGED <<clients, global, seq, unsaved>>

Merged(v) ==
  [clients[v] EXCEPT
     !.status = TRUE,
     !.items = [k \in Kinds |-> Uploaded(v)[k] \union Stored(clients[v], k)]]

UploadRead(w) ==
  LET v == work[w].vkey
      s == observe_id(seq, {1})
  IN /\ work[w].pc = "hello" /\ Unlocked
     /\ \/ /\ v \in DOMAIN clients
           /\ Thread(w, [pc |-> "upload", vkey |-> v, entry |-> Merged(v)])
           /\ seq' = s
        \/ /\ v \notin DOMAIN clients /\ s <= MaxId
           /\ Thread(w, [pc |-> "upload", vkey |-> v,
                         entry |-> [id |-> s, status |-> TRUE,
                                    no_store |-> TRUE, items |-> Uploaded(v)]])
           /\ seq' = s + 1
     /\ UNCHANGED <<clients, global, disk, tmp, running, unsaved, edits,
                    crashes, fails>>

(* A port that is not allowed, a client that does not accept uploads or    *)
(* the limit of tunnels ends it with an error.                             *)
UploadRefused(w) ==
  /\ work[w].pc = "hello" /\ Unlocked
  /\ seq' \in {seq, observe_id(seq, {1}), observe_id(seq, {1}) + 1} /\ seq' <= MaxId + 1
  /\ Thread(w, Idle)
  /\ UNCHANGED <<clients, global, disk, tmp, running, unsaved, edits,
                 crashes, fails>>

UploadInstall(w) ==
  /\ work[w].pc = "upload" /\ Unlocked
  /\ SetClient(work[w].vkey, work[w].entry)
  /\ Thread(w, Idle)
  /\ unsaved' = TRUE
  /\ UNCHANGED <<global, seq, disk, tmp, running, edits, crashes, fails>>

-----------------------------------------------------------------------------
(* persist_registry: the four files in order, each by write_atomic.        *)

Saving(w, f, s) == work[w] = [pc |-> "save", file |-> f, step |-> s]
Step(w, f, s) == Thread(w, [pc |-> "save", file |-> f, step |-> s])

SaveBegin(w) ==
  /\ work[w] = Persist /\ Unlocked
  /\ Step(w, 1, "create")
  /\ UNCHANGED <<clients, global, seq, disk, tmp, running, unsaved, edits,
                 crashes, fails>>

(* Mutant: the file is written under its final name.                       *)
WriteTmp_in_place(w, f) ==
  /\ \/ /\ Saving(w, f, "create")
        /\ disk' = [disk EXCEPT ![Files[f]] = Partial]
        /\ Step(w, f, "write")
     \/ /\ Saving(w, f, "write")
        /\ disk' = [disk EXCEPT ![Files[f]] = Whole(Image(clients, global)[Files[f]])]
        /\ Step(w, f, "remove")
  /\ UNCHANGED <<clients, global, seq, tmp, running, unsaved, edits,
                 crashes, fails>>

WriteTmp(w, f) ==
  /\ \/ /\ Saving(w, f, "create")
        /\ tmp' = [tmp EXCEPT ![Files[f]] = Partial]
        /\ Step(w, f, "write")
     \/ /\ Saving(w, f, "write")
        /\ tmp' = [tmp EXCEPT ![Files[f]] = Whole(Image(clients, global)[Files[f]])]
        /\ Step(w, f, "remove")
  /\ UNCHANGED <<clients, global, seq, disk, running, unsaved, edits,
                 crashes, fails>>

Remove(w, f) ==
  /\ Saving(w, f, "remove")
  /\ disk' = [disk EXCEPT ![Files[f]] = Absent]
  /\ Step(w, f, "rename")
  /\ UNCHANGED <<clients, global, seq, tmp, running, unsaved, edits,
                 crashes, fails>>

Rename(w, f) ==
  /\ Saving(w, f, "rename")
  /\ disk' = [disk EXCEPT ![Files[f]] = tmp[Files[f]]]
  /\ tmp' = [tmp EXCEPT ![Files[f]] = Absent]
  /\ IF f < Len(Files) THEN Step(w, f + 1, "create") /\ UNCHANGED unsaved
                       ELSE Thread(w, Idle) /\ unsaved' = FALSE
  /\ UNCHANGED <<clients, global, seq, running, edits, crashes, fails>>

(* Any file operation may fail; `?` leaves the files as they are and the   *)
(* handler answers "modified but save failed".                             *)
SaveFails(w) ==
  /\ work[w].pc = "save" /\ fails < MaxFails
  /\ fails' = fails + 1
  /\ Thread(w, Idle)
  /\ unsaved' = TRUE
  /\ UNCHANGED <<clients, global, seq, disk, tmp, running, edits, crashes>>

-----------------------------------------------------------------------------
(* The process dies; the files stay.  load fails, and with it the start,   *)
(* on a file that does not decode.                                         *)
Crash ==
  /\ running /\ crashes < MaxCrashes
  /\ crashes' = crashes + 1
  /\ running' = FALSE
  /\ clients' = <<>> /\ global' = 0 /\ seq' = 1
  /\ work' = [w \in Workers |-> Idle]
  /\ UNCHANGED <<disk, tmp, unsaved, edits, fails>>

Boot ==
  /\ ~running /\ \A f \in FileNames : disk[f].state # "partial"
  /\ running' = TRUE
  /\ clients' = Load(disk) /\ global' = LoadGlobal(disk)
  /\ seq' = observe_id(1, IdsOf(disk))
  /\ unsaved' = FALSE
  /\ UNCHANGED <<disk, tmp, work, edits, crashes, fails>>

Handler(w) ==
  \/ ClientAddInsert(w) \/ UploadRead(w) \/ UploadRefused(w) \/ UploadInstall(w)
  \/ \E g \in Globals : GlobalSave(w, g)
  \/ \E v \in VKeys :
       \/ ClientAddCheck(w, v) \/ ClientStatus(w, v) \/ ClientDelete(w, v)
       \/ UploadHello(w, v)
       \/ \E n \in VKeys : ClientEdit(w, v, n)
       \/ \E k \in Kinds, on \in BOOLEAN : ItemAdd(w, v, k, on)
  \/ \E v \in DOMAIN clients, k \in Kinds :
       \E i \in clients[v].items[k] :
         \/ ItemDelete(w, v, k, i) \/ ItemStatus(w, v, k, i)
         \/ ItemEdit(w, v, k, i)

Save(w) ==
  \/ SaveBegin(w) \/ SaveFails(w)
  \/ \E f \in 1..4 : WriteTmp(w, f) \/ Remove(w, f) \/ Rename(w, f)

Next == Crash \/ Boot \/ \E w \in Workers : Handler(w) \/ Save(w)

Spec == Init /\ [][Next]_vars

-----------------------------------------------------------------------------
(* The memory, the files and the workers have the types the code gives    *)
(* them; ids stay below the sequence's bound.                              *)
TypeOK ==
  /\ clients = [v \in DOMAIN clients |-> clients[v]] /\ DOMAIN clients \subseteq VKeys
  /\ \A v \in DOMAIN clients : clients[v] \in Clients
  /\ global \in Globals /\ seq \in 1..(MaxId + 1)
  /\ disk = [f \in FileNames |-> disk[f]] /\ tmp = [f \in FileNames |-> tmp[f]]
  /\ \A f \in FileNames, d \in {disk, tmp} :
       /\ d[f] = [state |-> d[f].state, data |-> d[f].data]
       /\ d[f].state \in {"absent", "partial", "whole"} /\ d[f].data \in FileData(f)
  /\ work \in [Workers -> Jobs]
  /\ running \in BOOLEAN /\ unsaved \in BOOLEAN

(* The files load at every moment a crash may choose: write_atomic never   *)
(* leaves a file under its final name that a start would fail to decode.   *)
AlwaysLoadable == \A f \in FileNames : disk[f].state # "partial"

(* Whenever no handler is between its change and the end of its save, and  *)
(* no save failed since, a restart brings back exactly the stored part of  *)
(* the memory: no handler forgets to save, a renamed client keeps its      *)
(* items, a save repairs what crashes and failed saves left behind, and an *)
(* item of a client that is itself not stored still finds its client.      *)
RestartRestores ==
  (/\ running /\ ~unsaved
   /\ \A w \in Workers : work[w].pc \notin {"persist", "save"})
    => Restart(disk) = <<StoredPart(clients), global>>

(* next_link_id never hands out an id that a client, a tunnel or a host    *)
(* already has, in memory or in an entry about to be installed, across     *)
(* restarts and whatever mixture of old and new files a crash left.        *)
IdsBelowSeq ==
  LET ids(c) == {c.id} \union {i.id : i \in UNION Range(c.items)}
  IN running =>
       /\ \A v \in DOMAIN clients : \A i \in ids(clients[v]) : i < seq
       /\ \A w \in Workers :
            /\ work[w].pc = "upload" => \A i \in ids(work[w].entry) : i < seq
            /\ work[w].pc = "insert" => work[w].id < seq

=============================================================================
