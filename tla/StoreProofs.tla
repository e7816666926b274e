---------------------------- MODULE StoreProofs ----------------------------
(***************************************************************************)
(* Proofs about Store, for any number of keys, workers, crashes and        *)
(* failing operations: the files always load; the memory, the files and    *)
(* the jobs of the handlers are well typed and all ids lie below the       *)
(* sequence; a restart restores the memory when nothing is unsaved.  The   *)
(* first and the last rest on who may touch the temporary files: save_all  *)
(* runs under the lock of the clients, so there is at most one saver, and  *)
(* what a saver is about to rename is complete.                            *)
(***************************************************************************)
EXTENDS Store, WellFoundedInduction, TLAPS

(* The variables the save protocol works on are functions.                 *)
Shape ==
  /\ work = [w \in Workers |-> work[w]]
  /\ disk = [f \in FileNames |-> disk[f]]
  /\ tmp = [f \in FileNames |-> tmp[f]]

OneSaver ==
  \A w, x \in Workers : work[w].pc = "save" /\ work[x].pc = "save" => w = x

TmpWritten ==
  \A w \in Workers, f \in 1..4 :
    Saving(w, f, "remove") \/ Saving(w, f, "rename")
      => tmp[Files[f]].state = "whole"

SaveInv == Shape /\ AlwaysLoadable /\ OneSaver /\ TmpWritten

(* Every index of the loop over the files names one of them.               *)
LEMMA FileNamed == \A f \in 1..4 : Files[f] \in FileNames
  BY DEF Files, FileNames

(* What reading back a record gives: whoever is in a file may be stored.   *)
LEMMA Decoded ==
  /\ \A r : decode(r).no_store = FALSE
  /\ \A i \in Items : /\ i.no_store = FALSE => decode(Record(i)) = i
                      /\ Record(i).vkey = i.vkey
  BY DEF Items, decode, Record

LEMMA ClientDecoded ==
  \A r, is : decode_client(r, is).no_store = FALSE /\ decode_client(r, is).items = is
  BY DEF decode_client

(* A step that touches no file and after which every worker is where it    *)
(* was or outside save_all keeps the invariant: this covers every handler, *)
(* a failing save and a crash.                                             *)
LEMMA LeavesFilesAlone ==
  ASSUME SaveInv, UNCHANGED <<disk, tmp>>,
         work' = [w \in Workers |-> work'[w]],
         \A w \in Workers : work'[w] = work[w] \/ work'[w].pc # "save"
  PROVE  SaveInv'
<1>1. Shape' /\ AlwaysLoadable'
  BY DEF SaveInv, Shape, AlwaysLoadable
<1>2. OneSaver'
  BY DEF SaveInv, OneSaver
<1>3. TmpWritten'
  <2> SUFFICES ASSUME NEW w \in Workers, NEW f \in 1..4,
                      (Saving(w, f, "remove") \/ Saving(w, f, "rename"))'
               PROVE  tmp'[Files[f]].state = "whole"
    BY DEF TmpWritten
  <2>1. work'[w].pc = "save"
    BY DEF Saving
  <2>2. work'[w] = work[w]
    BY <2>1
  <2>3. Saving(w, f, "remove") \/ Saving(w, f, "rename")
    BY <2>2 DEF Saving
  <2> QED
    BY <2>3 DEF SaveInv, TmpWritten
<1> QED
  BY <1>1, <1>2, <1>3 DEF SaveInv

(* Setting the control state of one worker outside save_all is such a step.*)
LEMMA ThreadLeaves ==
  ASSUME SaveInv, UNCHANGED <<disk, tmp>>, NEW w \in Workers, NEW n,
         Thread(w, n), n.pc # "save"
  PROVE  SaveInv'
<1>1. work' = [x \in Workers |-> IF x = w THEN n ELSE work[x]]
  BY DEF Thread, SaveInv, Shape
<1> QED
  BY <1>1, LeavesFilesAlone

(* No handler touches a file before its call of persist_registry.          *)
LEMMA HandlersLeave ==
  ASSUME SaveInv, NEW w \in Workers, Handler(w)
  PROVE  SaveInv'
<1>0. /\ Idle.pc # "save" /\ Persist.pc # "save"
  BY DEF Idle, Persist
<1>1. CASE ClientAddInsert(w)
  BY <1>1, <1>0, ThreadLeaves DEF ClientAddInsert
<1>2. CASE UploadRead(w)
  <2>1. UNCHANGED <<disk, tmp>>
    BY <1>2 DEF UploadRead
  <2>2. PICK e : Thread(w, [pc |-> "upload", vkey |-> work[w].vkey, entry |-> e])
    BY <1>2, Zenon DEF UploadRead
  <2> QED
    BY <2>1, <2>2, ThreadLeaves
<1>3. CASE UploadRefused(w) \/ UploadInstall(w)
  BY <1>3, <1>0, ThreadLeaves DEF UploadRefused, UploadInstall
<1>4. CASE \E g \in Globals : GlobalSave(w, g)
  BY <1>4, <1>0, ThreadLeaves DEF GlobalSave, Begin
<1>5. ASSUME NEW v \in VKeys, ClientAddCheck(w, v)
      PROVE  SaveInv'
  <2>1. [pc |-> "insert", vkey |-> v, id |-> seq].pc # "save"
    OBVIOUS
  <2> QED
    BY <1>5, <2>1, ThreadLeaves DEF ClientAddCheck, Begin
<1>6. ASSUME NEW v \in VKeys, ClientStatus(w, v) \/ ClientDelete(w, v)
      PROVE  SaveInv'
  BY <1>6, <1>0, ThreadLeaves DEF ClientStatus, ClientDelete, Begin
<1>7. ASSUME NEW v \in VKeys, UploadHello(w, v)
      PROVE  SaveInv'
  <2>1. [pc |-> "hello", vkey |-> v].pc # "save"
    OBVIOUS
  <2> QED
    BY <1>7, <2>1, ThreadLeaves DEF UploadHello, Begin
<1>8. ASSUME NEW v \in VKeys, NEW n \in VKeys, ClientEdit(w, v, n)
      PROVE  SaveInv'
  BY <1>8, <1>0, ThreadLeaves DEF ClientEdit, Begin
<1>9. ASSUME NEW v \in VKeys, NEW k \in Kinds, NEW on \in BOOLEAN,
             ItemAdd(w, v, k, on)
      PROVE  SaveInv'
  BY <1>9, <1>0, ThreadLeaves, Zenon DEF ItemAdd, Begin
<1>10. ASSUME NEW v, NEW k, NEW i,
              ItemDelete(w, v, k, i) \/ ItemStatus(w, v, k, i)
                \/ ItemEdit(w, v, k, i)
       PROVE  SaveInv'
  <2>1. UNCHANGED <<disk, tmp>>
    BY <1>10 DEF ItemDelete, ItemStatus, ItemEdit, Begin
  <2>2. Thread(w, Persist) \/ Thread(w, Idle)
    BY <1>10 DEF ItemDelete, ItemStatus, ItemEdit
  <2> QED
    BY <2>1, <2>2, <1>0, ThreadLeaves
<1> QED
  BY <1>1, <1>2, <1>3, <1>4, <1>5, <1>6, <1>7, <1>8, <1>9, <1>10, Zenon DEF Handler

(* Each step of persist_registry keeps the invariant.                      *)
LEMMA SavesKeep ==
  ASSUME SaveInv, NEW w \in Workers, Save(w)
  PROVE  SaveInv'
<1>1. CASE SaveBegin(w)
  <2>1. work' = [x \in Workers |-> IF x = w THEN [pc |-> "save", file |-> 1, step |-> "create"] ELSE work[x]]
    BY <1>1 DEF SaveBegin, Step, Thread, SaveInv, Shape
  <2>2. /\ UNCHANGED <<disk, tmp>>
        /\ \A x \in Workers : work[x].pc # "save"
    BY <1>1 DEF SaveBegin, Unlocked
  <2>3. Shape' /\ AlwaysLoadable' /\ OneSaver'
    BY <2>1, <2>2 DEF SaveInv, Shape, AlwaysLoadable, OneSaver
  <2>4. TmpWritten'
    BY <2>1, <2>2 DEF TmpWritten, Saving
  <2> QED
    BY <2>3, <2>4 DEF SaveInv
<1>2. CASE SaveFails(w)
  <2>1. Idle.pc # "save"
    BY DEF Idle
  <2> QED
    BY <1>2, <2>1, ThreadLeaves DEF SaveFails
<1>3. ASSUME NEW f \in 1..4, NEW s, NEW n, Saving(w, f, s),
             work' = [x \in Workers |-> IF x = w THEN n ELSE work[x]]
      PROVE  /\ OneSaver'
             /\ \A x \in Workers, g \in 1..4, t \in {"remove", "rename"} :
                  (Saving(x, g, t))' => x = w /\ n = [pc |-> "save", file |-> g, step |-> t]
  <2>1. \A x \in Workers : work[x].pc = "save" => x = w
    BY <1>3 DEF SaveInv, OneSaver, Saving
  <2>2. \A x \in Workers : work'[x].pc = "save" => x = w
    BY <1>3, <2>1
  <2> QED
    BY <1>3, <2>2 DEF OneSaver, Saving
<1>4. ASSUME NEW f \in 1..4, WriteTmp(w, f)
      PROVE  SaveInv'
  <2>1. PICK s \in {"create", "write"} : Saving(w, f, s)
    BY <1>4, Zenon DEF WriteTmp
  <2>2. PICK t \in {"write", "remove"} :
          /\ work' = [x \in Workers |-> IF x = w THEN [pc |-> "save", file |-> f, step |-> t] ELSE work[x]]
          /\ t = "remove" => tmp' = [tmp EXCEPT ![Files[f]] = Whole(Image(clients, global)[Files[f]])]
    BY <1>4, Zenon DEF WriteTmp, Step, Thread, SaveInv, Shape
  <2>3. Shape' /\ AlwaysLoadable'
    BY <1>4, <2>2, FileNamed, Zenon DEF WriteTmp, SaveInv, Shape, AlwaysLoadable
  <2>4. TmpWritten'
    <3> SUFFICES ASSUME NEW x \in Workers, NEW g \in 1..4,
                        (Saving(x, g, "remove") \/ Saving(x, g, "rename"))'
                 PROVE  tmp'[Files[g]].state = "whole"
      BY Zenon DEF TmpWritten
    <3>1. t = "remove" /\ g = f
      BY <1>3, <2>1, <2>2
    <3> QED
      BY <3>1, <2>2, FileNamed DEF Whole, SaveInv, Shape
  <2> QED
    BY <1>3, <2>1, <2>2, <2>3, <2>4, Zenon DEF SaveInv
<1>5. ASSUME NEW f \in 1..4, Remove(w, f)
      PROVE  SaveInv'
  <2>1. /\ Saving(w, f, "remove") /\ tmp' = tmp
        /\ disk' = [disk EXCEPT ![Files[f]] = Absent]
        /\ work' = [x \in Workers |-> IF x = w THEN [pc |-> "save", file |-> f, step |-> "rename"] ELSE work[x]]
    BY <1>5, Zenon DEF Remove, Step, Thread, SaveInv, Shape
  <2>2. Shape' /\ AlwaysLoadable'
    BY <2>1, FileNamed, Zenon DEF SaveInv, Shape, AlwaysLoadable, Absent
  <2>3. tmp[Files[f]].state = "whole"
    BY <2>1, Zenon DEF SaveInv, TmpWritten
  <2>4. TmpWritten'
    BY <1>3, <2>1, <2>3 DEF TmpWritten
  <2> QED
    BY <1>3, <2>1, <2>2, <2>4, Zenon DEF SaveInv
<1>6. ASSUME NEW f \in 1..4, Rename(w, f)
      PROVE  SaveInv'
  <2>1. /\ Saving(w, f, "rename")
        /\ disk' = [disk EXCEPT ![Files[f]] = tmp[Files[f]]]
        /\ tmp' = [tmp EXCEPT ![Files[f]] = Absent]
    BY <1>6, Zenon DEF Rename
  <2>2. tmp[Files[f]].state = "whole"
    BY <2>1, Zenon DEF SaveInv, TmpWritten
  <2>3. PICK n : /\ work' = [x \in Workers |-> IF x = w THEN n ELSE work[x]]
                 /\ n = Idle \/ n = [pc |-> "save", file |-> f + 1, step |-> "create"]
    BY <1>6, Zenon DEF Rename, Step, Thread, SaveInv, Shape
  <2>4. Shape' /\ AlwaysLoadable'
    BY <2>1, <2>2, <2>3, FileNamed, Zenon DEF SaveInv, Shape, AlwaysLoadable
  <2>5. \A g \in 1..4, t \in {"remove", "rename"} :
          n # [pc |-> "save", file |-> g, step |-> t]
    BY <2>3 DEF Idle
  <2>6. OneSaver' /\ TmpWritten'
    BY <1>3, <2>1, <2>3, <2>5 DEF TmpWritten
  <2> QED
    BY <2>4, <2>6 DEF SaveInv
<1> QED
  BY <1>1, <1>2, <1>4, <1>5, <1>6 DEF Save

(* The invariant holds of a new installation, with or without Go files.    *)
LEMMA SaveInvInit == Init => SaveInv
<1> SUFFICES ASSUME Init PROVE SaveInv
  OBVIOUS
<1>1. work = [w \in Workers |-> Idle]
  BY DEF Init
<1>2. tmp = [f \in FileNames |-> tmp[f]]
  BY DEF Init
<1>3. disk = [f \in FileNames |-> disk[f]]
  BY Zenon DEF Init, GoFiles
<1>4. AlwaysLoadable
  <2>1. CASE disk = [f \in FileNames |-> Absent]
    BY <2>1, Zenon DEF AlwaysLoadable, Absent
  <2>2. ASSUME NEW v \in VKeys, disk = GoFiles(v)
        PROVE  AlwaysLoadable
    BY <2>2 DEF AlwaysLoadable, GoFiles, Absent, Whole, FileNames
  <2> QED
    BY <2>1, <2>2, Zenon DEF Init
<1>5. OneSaver /\ TmpWritten
  BY <1>1, Zenon DEF OneSaver, TmpWritten, Saving, Idle
<1> QED
  BY <1>1, <1>2, <1>3, <1>4, <1>5 DEF SaveInv, Shape

LEMMA SaveInvStep ==
  ASSUME SaveInv, [Next]_vars
  PROVE  SaveInv'
<1>1. CASE Crash
  <2>1. UNCHANGED <<disk, tmp>> /\ work' = [w \in Workers |-> Idle]
    BY <1>1 DEF Crash
  <2>2. Idle.pc # "save"
    BY DEF Idle
  <2> QED
    BY <2>1, <2>2, LeavesFilesAlone
<1>2. CASE Boot
  BY <1>2, LeavesFilesAlone, Zenon DEF Boot, SaveInv, Shape
<1>3. CASE \E w \in Workers : Handler(w) \/ Save(w)
  BY <1>3, HandlersLeave, SavesKeep
<1>4. CASE UNCHANGED vars
  BY <1>4, LeavesFilesAlone, Zenon DEF vars, SaveInv, Shape
<1> QED
  BY <1>1, <1>2, <1>3, <1>4, Zenon DEF Next

(* At every moment a crash may choose, every file under conf/ is absent or *)
(* complete, so that load_persistent_state succeeds: write_atomic only     *)
(* renames what it has written and synced, and save_all is never run by    *)
(* two threads at once.                                                    *)
THEOREM FilesAlwaysLoad == Spec => []AlwaysLoadable
<1>1. SaveInv => AlwaysLoadable
  BY DEF SaveInv
<1> QED
  BY SaveInvInit, SaveInvStep, <1>1, PTL DEF Spec


-----------------------------------------------------------------------------
(* The memory.  An entry under the key v is typed, its items carry v as    *)
(* their client_vkey, and its ids are below the sequence s; the same holds *)
(* of an entry a worker is about to install.  Without the process running  *)
(* no worker does anything.                                                *)
EntryOK(v, c, s) ==
  /\ c \in Clients /\ c.id < s
  /\ \A k \in Kinds : \A i \in c.items[k] : i.vkey = v /\ i.id < s

JobOK(j, s) ==
  /\ j \in Jobs
  /\ j.pc = "upload" => EntryOK(j.vkey, j.entry, s)
  /\ j.pc = "insert" => j.id < s

MemoryOK ==
  /\ clients = [v \in DOMAIN clients |-> clients[v]] /\ DOMAIN clients \subseteq VKeys
  /\ \A v \in DOMAIN clients : EntryOK(v, clients[v], seq)
  /\ global \in Globals /\ seq \in 1..(MaxId + 1)

FileOK(f, x) ==
  /\ x = [state |-> x.state, data |-> x.data]
  /\ x.state \in {"absent", "partial", "whole"} /\ x.data \in FileData(f)

FilesOK(d) ==
  d = [f \in FileNames |-> d[f]] /\ \A f \in FileNames : FileOK(f, d[f])

WorkOK ==
  /\ work = [w \in Workers |-> work[w]]
  /\ \A w \in Workers : JobOK(work[w], seq)
  /\ running \/ \A w \in Workers : work[w] = Idle
  /\ running \in BOOLEAN /\ unsaved \in BOOLEAN

MemInv == MemoryOK /\ FilesOK(disk) /\ FilesOK(tmp) /\ WorkOK

(* A save in progress has written the present memory to the files before   *)
(* the one it is at, and to the temporary file it is about to rename: the  *)
(* lock it holds keeps the memory as it is.                                *)
Progress ==
  \A w \in Workers, f \in 1..4, s \in {"create", "write", "remove", "rename"} :
    Saving(w, f, s) =>
      /\ \A g \in 1..4 : g < f => disk[Files[g]] = Whole(Image(clients, global)[Files[g]])
      /\ s \in {"remove", "rename"} =>
           tmp[Files[f]] = Whole(Image(clients, global)[Files[f]])

SavedInv == SaveInv /\ MemInv /\ Progress /\ RestartRestores


(* The sequence only grows, so what is below it stays below it.            *)
LEMMA EntryGrows ==
  ASSUME NEW v, NEW c, NEW s \in Nat, NEW t \in Nat, s <= t, EntryOK(v, c, s)
  PROVE  EntryOK(v, c, t)
<1>1. c.id \in Nat /\ c.id < t
  BY DEF EntryOK, Clients
<1>2. \A k \in Kinds : \A i \in c.items[k] : i.id \in Nat /\ i.id < t
  BY DEF EntryOK, Clients, Items
<1> QED
  BY <1>1, <1>2 DEF EntryOK

LEMMA JobGrows ==
  ASSUME NEW j, NEW s \in Nat, NEW t \in Nat, s <= t, JobOK(j, s)
  PROVE  JobOK(j, t)
<1>1. j.pc = "upload" => EntryOK(j.vkey, j.entry, t)
  BY EntryGrows, Zenon DEF JobOK
<1>2. j.pc = "insert" => j.id \in Nat
  BY DEF JobOK, Jobs, Idle, Persist
<1> QED
  BY <1>1, <1>2 DEF JobOK

(* Sets of numbers have a least element, by the well-foundedness of <, and *)
(* a greatest one if they are bounded.                                     *)
LEMMA LeastNat ==
  ASSUME NEW S, S \subseteq Nat, S # {}
  PROVE  \E n \in S : \A m \in S : n <= m
<1> DEFINE R == OpToRel(<, Nat)
<1>1. IsWellFoundedOn(R, Nat)
  BY NatLessThanWellFounded, Zenon
<1>2. \A x, y \in Nat : x < y => <<x, y>> \in R
  BY DEF OpToRel
<1> HIDE DEF R
<1>3. PICK n \in S : \A m \in S : ~(<<m, n>> \in R)
  BY <1>1, WFMin, Zenon
<1>4. ASSUME NEW m \in S
      PROVE  n <= m
  <2>1. m \in Nat /\ n \in Nat
    OBVIOUS
  <2>2. ~(m < n)
    BY <2>1, <1>2, <1>3, Zenon
  <2> QED BY <2>1, <2>2
<1> QED BY <1>4

LEMMA HasGreatest ==
  ASSUME NEW S, S \subseteq Nat, S # {}, NEW b \in Nat, \A x \in S : x <= b
  PROVE  \E x \in S : \A y \in S : x >= y
<1> DEFINE U == {u \in Nat : \A x \in S : x <= u}
<1>1. U # {}
  OBVIOUS
<1>2. PICK u \in U : \A v \in U : u <= v
  BY <1>1, LeastNat, Zenon
<1>3. u \in S
  <2> SUFFICES ASSUME u \notin S
               PROVE  FALSE
    OBVIOUS
  <2>1. \A x \in S : x \in Nat /\ x <= u /\ x # u
    OBVIOUS
  <2>2. u # 0
    <3>1. PICK x : x \in S
      OBVIOUS
    <3> QED BY <2>1, <3>1
  <2>3. u - 1 \in U
    BY <2>1, <2>2
  <2> QED BY <1>2, <2>3
<1> QED BY <1>3

(* The largest of the sequence and the ids after the observed ones.        *)
LEMMA ObserveIds ==
  ASSUME NEW s \in Nat, NEW ids \in SUBSET (1..MaxId)
  PROVE  /\ observe_id(s, ids) \in Nat
         /\ s <= observe_id(s, ids)
         /\ s <= MaxId + 1 => observe_id(s, ids) <= MaxId + 1
         /\ \A i \in ids : i < observe_id(s, ids)
<1> DEFINE S == {s} \union {i + 1 : i \in ids}
           B == s + MaxId + 1
<1>0. MaxId \in Nat
  BY StoreAssumption
<1>1. B \in Nat /\ \A x \in S : x <= B
  BY <1>0
<1>4. S \subseteq Nat /\ S # {}
  BY <1>0
<1>2. \E x \in S : \A y \in S : x >= y
  BY <1>1, <1>4, HasGreatest, Zenon
<1>3. Max(S) \in S /\ \A y \in S : Max(S) >= y
  BY <1>2, Zenon DEF Max
<1>5. Max(S) \in S /\ \A x \in S : x <= Max(S)
  BY <1>3, <1>4, Zenon
<1>6. observe_id(s, ids) = Max(S)
  BY DEF observe_id
<1> HIDE DEF B
<1>7. \A i \in ids : i \in Nat /\ i <= MaxId /\ i + 1 \in S
  BY <1>0
<1>8. s \in S /\ \A x \in S : x = s \/ \E i \in ids : x = i + 1
  OBVIOUS
<1> HIDE DEF S
<1>9. Max(S) \in Nat /\ s <= Max(S)
  BY <1>4, <1>5, <1>8, Zenon
<1>10. s <= MaxId + 1 => Max(S) <= MaxId + 1
  <2>1. CASE Max(S) = s
    BY <2>1
  <2>2. ASSUME NEW i \in ids, Max(S) = i + 1 PROVE Max(S) <= MaxId + 1
    BY <1>0, <1>7, <2>2
  <2> QED
    BY <1>5, <1>8, <2>1, <2>2, Zenon
<1>11. \A i \in ids : i < Max(S)
  BY <1>5, <1>7, <1>9
<1> QED
  BY <1>6, <1>9, <1>10, <1>11

(* The id a boot starts from.                                              *)
LEMMA FirstId ==
  ASSUME NEW ids \in SUBSET (1..MaxId)
  PROVE  observe_id(1, ids) \in 1..(MaxId + 1)
BY StoreAssumption, ObserveIds

(* A step of a running process that leaves the files alone, moves one      *)
(* worker and leaves a good memory and a good job keeps the invariant.     *)
LEMMA HandlerKeeps ==
  ASSUME MemInv, NEW w \in Workers, NEW n, Thread(w, n),
         UNCHANGED <<disk, tmp, running>>, running, unsaved' \in BOOLEAN,
         seq' \in Nat, seq <= seq', JobOK(n, seq'), MemoryOK'
  PROVE  MemInv'
<1>1. FilesOK(disk)' /\ FilesOK(tmp)'
  BY DEF MemInv, FilesOK
<1>2. work' = [x \in Workers |-> IF x = w THEN n ELSE work[x]]
  BY DEF Thread, MemInv, WorkOK
<1>3. seq \in Nat
  BY DEF MemInv, MemoryOK
<1>4. \A x \in Workers : JobOK(work[x], seq')
  BY <1>3, JobGrows, Zenon DEF MemInv, WorkOK
<1>5. \A x \in Workers : JobOK(work'[x], seq')
  BY <1>2, <1>4
<1>6. WorkOK'
  BY <1>2, <1>5, Zenon DEF WorkOK, MemInv
<1> QED
  BY <1>1, <1>6 DEF MemInv

(* The two memories a handler leaves: the old one with the entry of one    *)
(* key replaced, or the old one.                                           *)
LEMMA MemoryStays ==
  ASSUME MemoryOK, clients' = clients, global' \in Globals,
         seq' \in 1..(MaxId + 1), seq <= seq'
  PROVE  MemoryOK'
<1>1. seq \in Nat /\ seq' \in Nat
  BY StoreAssumption DEF MemoryOK
<1>2. \A v \in DOMAIN clients : EntryOK(v, clients[v], seq')
  BY <1>1, EntryGrows DEF MemoryOK
<1> QED
  BY <1>2, Zenon DEF MemoryOK

LEMMA MemorySets ==
  ASSUME MemoryOK, NEW v \in VKeys, NEW c, SetClient(v, c), global' \in Globals,
         seq' \in 1..(MaxId + 1), seq <= seq', EntryOK(v, c, seq')
  PROVE  MemoryOK'
<1>1. seq \in Nat /\ seq' \in Nat
  BY StoreAssumption DEF MemoryOK
<1>2. \A u \in DOMAIN clients : EntryOK(u, clients[u], seq')
  BY <1>1, EntryGrows DEF MemoryOK
<1>3. clients' = [u \in DOMAIN clients \union {v} |-> IF u = v THEN c ELSE clients[u]]
  BY DEF SetClient, Put
<1>4. DOMAIN clients' = DOMAIN clients \union {v}
  BY <1>3, Zenon
<1>5. \A u \in DOMAIN clients' : EntryOK(u, clients'[u], seq')
  BY <1>2, <1>3, Zenon
<1> QED
  BY <1>3, <1>4, <1>5, Zenon DEF MemoryOK


LEMMA PlainJobs == \A s : JobOK(Idle, s) /\ JobOK(Persist, s)
  BY Zenon DEF JobOK, Jobs, Idle, Persist

(* Replacing the items of one kind in an entry.                            *)
LEMMA EntryItems ==
  ASSUME NEW v, NEW c, NEW s, EntryOK(v, c, s), NEW k \in Kinds, NEW is,
         \A i \in is : i \in Items /\ i.vkey = v /\ i.id < s
  PROVE  EntryOK(v, [c EXCEPT !.items[k] = is], s)
<1> DEFINE d == [c EXCEPT !.items[k] = is]
<1>1. c \in Clients
  BY DEF EntryOK
<1>2. d \in Clients
  BY <1>1 DEF Clients
<1>3. d.id = c.id /\ \A l \in Kinds : d.items[l] = IF l = k THEN is ELSE c.items[l]
  BY <1>1 DEF Clients
<1> HIDE DEF d
<1>4. EntryOK(v, d, s)
  BY <1>2, <1>3, Zenon DEF EntryOK
<1> QED
  BY <1>4 DEF d

(* What the two operations that change every item of an entry make.        *)
LEMMA EntryRekeyed ==
  ASSUME NEW v, NEW n \in VKeys, NEW c, NEW s, EntryOK(v, c, s)
  PROVE  EntryOK(n, [c EXCEPT !.items = [k \in Kinds |-> Rekeyed(@[k], n)]], s)
<1> DEFINE its == [k \in Kinds |-> Rekeyed(c.items[k], n)]
           d == [c EXCEPT !.items = its]
<1>1. c \in Clients /\ \A k \in Kinds : \A i \in c.items[k] : i \in Items /\ i.id < s
  BY DEF EntryOK, Clients
<1>2. \A k \in Kinds : \A i \in its[k] : i \in Items /\ i.vkey = n /\ i.id < s
  <2> SUFFICES ASSUME NEW k \in Kinds, NEW i \in c.items[k]
               PROVE  LET j == [i EXCEPT !.vkey = n]
                      IN j \in Items /\ j.vkey = n /\ j.id < s
    BY Zenon DEF Rekeyed
  <2>1. i \in Items /\ i.id < s
    BY <1>1, Zenon
  <2> QED
    BY <2>1 DEF Items
<1>3. its \in [Kinds -> SUBSET Items]
  BY <1>2, Zenon
<1> HIDE DEF its
<1>4. d \in Clients /\ d.id = c.id /\ d.items = its
  BY <1>1, <1>3 DEF Clients
<1> HIDE DEF d
<1>5. EntryOK(n, d, s)
  BY <1>2, <1>4, Zenon DEF EntryOK
<1> QED
  BY <1>5 DEF d, its

LEMMA UploadedItems ==
  \A v \in VKeys, k \in Kinds : \A i \in Uploaded(v)[k] :
    i \in Items /\ i.vkey = v /\ i.id = 1
<1> SUFFICES ASSUME NEW v \in VKeys, NEW k \in Kinds, NEW i \in Uploaded(v)[k]
             PROVE  i \in Items /\ i.vkey = v /\ i.id = 1
  BY Zenon
<1>1. i = [id |-> 1, on |-> TRUE, no_store |-> TRUE, vkey |-> v, body |-> "conf"]
  BY Zenon DEF Uploaded
<1>2. 1 \in 1..MaxId
  BY StoreAssumption
<1> QED
  BY <1>1, <1>2, Zenon DEF Items

LEMMA EntryMerged ==
  ASSUME MemoryOK, NEW v \in DOMAIN clients, NEW s \in Nat, seq <= s, 1 < s
  PROVE  EntryOK(v, Merged(v), s)
<1> DEFINE c == clients[v]
           its == [k \in Kinds |-> Uploaded(v)[k] \union Stored(c, k)]
           d == [c EXCEPT !.status = TRUE, !.items = its]
<1>1. v \in VKeys /\ seq \in Nat
  BY StoreAssumption DEF MemoryOK
<1>2. EntryOK(v, c, s)
  BY <1>1, EntryGrows DEF MemoryOK
<1> HIDE DEF c
<1>3. \A k \in Kinds : \A i \in its[k] : i \in Items /\ i.vkey = v /\ i.id < s
  BY <1>1, <1>2, UploadedItems DEF EntryOK, Clients, Stored
<1>4. its \in [Kinds -> SUBSET Items]
  BY <1>3, Zenon
<1> HIDE DEF its
<1>5. d \in Clients /\ d.id = c.id /\ d.items = its
  BY <1>2, <1>4, Zenon DEF EntryOK, Clients
<1> HIDE DEF d
<1>6. EntryOK(v, d, s)
  BY <1>2, <1>3, <1>5, Zenon DEF EntryOK
<1> QED
  BY <1>6 DEF d, its, c, Merged


(* The first half of install_client_config: what it is going to insert, an *)
(* entry merged with the present one or a new one, is good already.        *)
LEMMA UploadReadKeeps ==
  ASSUME MemInv, NEW w \in Workers, UploadRead(w)
  PROVE  MemInv'
<1> DEFINE v == work[w].vkey
           s == observe_id(seq, {1})
           N(e) == [pc |-> "upload", vkey |-> v, entry |-> e]
<1>1. /\ MemoryOK /\ seq \in Nat /\ seq <= MaxId + 1 /\ global \in Globals
      /\ unsaved \in BOOLEAN /\ JobOK(work[w], seq) /\ MaxId \in Nat
  BY StoreAssumption DEF MemInv, WorkOK, MemoryOK
<1>2. /\ work[w].pc = "hello" /\ running
      /\ UNCHANGED <<clients, global, disk, tmp, running, unsaved>>
  BY Zenon DEF UploadRead, Unlocked
<1>3. v \in VKeys
  BY <1>1, <1>2 DEF JobOK, Jobs, Idle, Persist
<1>4. {1} \in SUBSET (1..MaxId)
  BY StoreAssumption
<1>5. s \in Nat /\ seq <= s /\ s <= MaxId + 1 /\ 1 < s
  BY <1>1, <1>4, ObserveIds
<1> HIDE DEF s, v
<1>6. ASSUME NEW e, Thread(w, N(e)), seq' \in Nat, seq <= seq', seq' <= MaxId + 1,
             EntryOK(v, e, seq')
      PROVE  MemInv'
  <2>1. JobOK(N(e), seq')
    BY <1>6, <1>3, Zenon DEF JobOK, Jobs, EntryOK
  <2>2. seq' \in 1..(MaxId + 1)
    <3>1. seq \in 1..(MaxId + 1)
      BY <1>1, Zenon DEF MemoryOK
    <3> QED
      BY <1>1, <1>6, <3>1
  <2>3. MemoryOK'
    BY <1>1, <1>2, <1>6, <2>2, MemoryStays, Zenon
  <2> HIDE DEF N
  <2> QED
    BY <1>1, <1>2, <1>6, <2>1, <2>3, HandlerKeeps, Zenon
<1>7. CASE v \in DOMAIN clients /\ Thread(w, N(Merged(v))) /\ seq' = s
  <2>1. EntryOK(v, Merged(v), s)
    BY <1>1, <1>5, <1>7, EntryMerged, Zenon
  <2> QED
    BY <1>5, <1>6, <1>7, <2>1, Zenon
<1>8. ASSUME NEW e, e = [id |-> s, status |-> TRUE, no_store |-> TRUE, items |-> Uploaded(v)],
             s <= MaxId, Thread(w, N(e)), seq' = s + 1
      PROVE  MemInv'
  <2>1. /\ s \in 1..MaxId /\ s + 1 \in Nat /\ 1 < s + 1 /\ s < s + 1
        /\ seq <= s + 1 /\ s + 1 <= MaxId + 1
    BY <1>1, <1>5, <1>8
  <2>2. \A k \in Kinds : \A i \in Uploaded(v)[k] :
           i \in Items /\ i.vkey = v /\ i.id < s + 1
    BY <1>3, <2>1, UploadedItems, Zenon
  <2>3. Uploaded(v) \in [Kinds -> SUBSET Items]
    BY <2>2, Zenon DEF Uploaded
  <2>4. EntryOK(v, e, s + 1)
    BY <1>8, <2>1, <2>2, <2>3, Zenon DEF EntryOK, Clients
  <2> HIDE DEF N
  <2> QED
    BY <1>6, <1>8, <2>1, <2>4, Zenon
<1> QED
  BY <1>7, <1>8, Zenon DEF UploadRead, s, v

(* Each handler keeps the invariant.                                       *)
LEMMA HandlersKeep ==
  ASSUME MemInv, NEW w \in Workers, Handler(w)
  PROVE  MemInv'
<1> DEFINE j == work[w]
<1>0. /\ MemoryOK /\ JobOK(j, seq) /\ unsaved \in BOOLEAN /\ running \in BOOLEAN
      /\ seq \in 1..(MaxId + 1) /\ seq \in Nat /\ global \in Globals
      /\ DOMAIN clients \subseteq VKeys /\ MaxId \in Nat
  BY StoreAssumption DEF MemInv, WorkOK, MemoryOK
<1>01. \A v \in DOMAIN clients : EntryOK(v, clients[v], seq) /\ clients[v] \in Clients
  BY <1>0, Zenon DEF MemoryOK, EntryOK
<1>02. \A v \in DOMAIN clients, k \in Kinds : \A i \in clients[v].items[k] :
         i \in Items /\ i.vkey = v /\ i.id < seq
  BY <1>01 DEF EntryOK, Clients
<1>03. /\ j.pc = "insert" => j.vkey \in VKeys /\ j.id \in 1..MaxId /\ j.id < seq
       /\ j.pc = "hello" => j.vkey \in VKeys
       /\ j.pc = "upload" => j.vkey \in VKeys /\ EntryOK(j.vkey, j.entry, seq)
  BY <1>0 DEF JobOK, Jobs, Idle, Persist
<1> HIDE DEF j
<1>1. CASE ClientAddInsert(w)
  <2>1. j.vkey \in VKeys /\ EntryOK(j.vkey, NewClient(j.id), seq)
    BY <1>1, <1>03, Zenon DEF ClientAddInsert, j, EntryOK, NewClient, Clients
  <2>2. MemoryOK'
    BY <1>1, <1>0, <2>1, MemorySets DEF ClientAddInsert, j
  <2> QED
    BY <1>1, <1>0, <2>2, PlainJobs, HandlerKeeps DEF ClientAddInsert, Unlocked
<1>2. CASE UploadRead(w)
  BY <1>2, UploadReadKeeps
<1>3. CASE UploadRefused(w)
  <2>1. {1} \in SUBSET (1..MaxId)
    BY StoreAssumption
  <2>2. seq' \in Nat /\ seq <= seq' /\ seq' <= MaxId + 1
    BY <1>3, <1>0, <2>1, ObserveIds DEF UploadRefused
  <2>3. MemoryOK'
    BY <1>3, <1>0, <2>2, MemoryStays DEF UploadRefused
  <2> QED
    BY <1>3, <1>0, <2>2, <2>3, PlainJobs, HandlerKeeps, Zenon DEF UploadRefused, Unlocked
<1>4. CASE UploadInstall(w)
  <2>1. MemoryOK'
    BY <1>4, <1>0, <1>03, MemorySets DEF UploadInstall, j
  <2> QED
    BY <1>4, <1>0, <2>1, PlainJobs, HandlerKeeps DEF UploadInstall, Unlocked
<1>5. ASSUME NEW g \in Globals, GlobalSave(w, g)
      PROVE  MemInv'
  <2>1. MemoryOK'
    BY <1>5, <1>0, MemoryStays DEF GlobalSave
  <2> QED
    BY <1>5, <1>0, <2>1, PlainJobs, HandlerKeeps DEF GlobalSave, Begin, Unlocked
<1>6. ASSUME NEW v \in VKeys, ClientAddCheck(w, v)
      PROVE  MemInv'
  <2> DEFINE n == [pc |-> "insert", vkey |-> v, id |-> seq]
  <2>1. seq' = seq + 1 /\ seq \in 1..MaxId
    BY <1>6, <1>0 DEF ClientAddCheck
  <2>2. JobOK(n, seq')
    BY <2>1 DEF JobOK, Jobs
  <2>3. MemoryOK'
    BY <1>6, <1>0, <2>1, MemoryStays DEF ClientAddCheck
  <2> QED
    BY <1>6, <1>0, <2>1, <2>2, <2>3, HandlerKeeps DEF ClientAddCheck, Begin, Unlocked

<1>7. ASSUME NEW v \in VKeys, ClientStatus(w, v)
      PROVE  MemInv'
  <2>1. PICK s \in BOOLEAN : SetClient(v, [clients[v] EXCEPT !.status = s])
    BY <1>7 DEF ClientStatus
  <2>2. EntryOK(v, [clients[v] EXCEPT !.status = s], seq)
    BY <1>7, <1>01 DEF ClientStatus, EntryOK, Clients
  <2>3. MemoryOK'
    BY <1>7, <1>0, <2>1, <2>2, MemorySets DEF ClientStatus
  <2> QED
    BY <1>7, <1>0, <2>3, PlainJobs, HandlerKeeps DEF ClientStatus, Begin, Unlocked
<1>8. ASSUME NEW v \in VKeys, ClientDelete(w, v)
      PROVE  MemInv'
  <2>1. /\ clients' = [u \in DOMAIN clients \ {v} |-> clients[u]]
        /\ UNCHANGED <<global, seq>>
    BY <1>8 DEF ClientDelete, Restrict
  <2>2. MemoryOK'
    BY <2>1, <1>0, <1>01, Zenon DEF MemoryOK
  <2>3. /\ Thread(w, Persist) /\ running /\ UNCHANGED <<disk, tmp, running, unsaved>>
    BY <1>8, Zenon DEF ClientDelete, Begin, Unlocked
  <2>4. seq' \in Nat /\ seq <= seq'
    BY <1>0, <2>1
  <2> QED
    BY <1>0, <2>2, <2>3, <2>4, PlainJobs, HandlerKeeps, Zenon
<1>9. ASSUME NEW v \in VKeys, UploadHello(w, v)
      PROVE  MemInv'
  <2> DEFINE n == [pc |-> "hello", vkey |-> v]
  <2>1. JobOK(n, seq)
    BY Zenon DEF JobOK, Jobs
  <2>2. MemoryOK'
    BY <1>9, <1>0, MemoryStays DEF UploadHello
  <2> QED
    BY <1>9, <1>0, <2>1, <2>2, HandlerKeeps DEF UploadHello, Begin, Unlocked
<1>10. ASSUME NEW v \in VKeys, NEW n \in VKeys, ClientEdit(w, v, n)
       PROVE  MemInv'
  <2> DEFINE d == [clients[v] EXCEPT !.items = [k \in Kinds |-> Rekeyed(@[k], n)]]
             D == DOMAIN clients \ {v}
  <2>1. EntryOK(n, d, seq)
    BY <1>10, <1>01, EntryRekeyed DEF ClientEdit
  <2>2. clients' = Put([u \in D |-> clients[u]], n, d) /\ UNCHANGED <<global, seq>>
    BY <1>10 DEF ClientEdit, Restrict
  <2> HIDE DEF d
  <2>3. clients' = [u \in D \union {n} |-> IF u = n THEN d ELSE clients[u]]
    BY <2>2, Zenon DEF Put
  <2>4. DOMAIN clients' \subseteq VKeys
    BY <2>3, <1>0, Zenon
  <2>5. \A u \in DOMAIN clients' : EntryOK(u, clients'[u], seq)
    BY <2>1, <2>3, <1>01, Zenon
  <2>6. MemoryOK'
    BY <2>2, <2>3, <2>4, <2>5, <1>0, Zenon DEF MemoryOK
  <2> QED
    BY <1>10, <1>0, <2>6, PlainJobs, HandlerKeeps DEF ClientEdit, Begin, Unlocked
<1>11. ASSUME NEW v \in VKeys, NEW k \in Kinds, NEW on \in BOOLEAN,
              ItemAdd(w, v, k, on)
       PROVE  MemInv'
  <2> DEFINE i == [id |-> seq, on |-> on, no_store |-> FALSE, vkey |-> v,
                   body |-> "web"]
             is == clients[v].items[k] \union {i}
  <2>1. seq' = seq + 1 /\ seq \in 1..MaxId /\ v \in DOMAIN clients
    <3>1. seq' = seq + 1 /\ seq <= MaxId /\ v \in DOMAIN clients
      BY <1>11, Zenon DEF ItemAdd
    <3>2. seq \in 1..(MaxId + 1)
      BY <1>0, Zenon DEF MemoryOK
    <3> QED
      BY <3>1, <3>2, StoreAssumption
  <2>2. i \in Items /\ i.vkey = v /\ i.id < seq'
    BY <2>1 DEF Items
  <2>3. EntryOK(v, clients[v], seq')
    BY <2>1, <1>0, <1>01, EntryGrows
  <2>4. \A x \in is : x \in Items /\ x.vkey = v /\ x.id < seq'
    BY <2>2, <2>3, Zenon DEF EntryOK, Clients
  <2>5. EntryOK(v, [clients[v] EXCEPT !.items[k] = is], seq')
    BY <2>3, <2>4, EntryItems, Zenon
  <2>8. MemoryOK'
    <3>1. CASE SetItems(v, k, is)
      BY <1>11, <1>0, <2>1, <2>5, <3>1, MemorySets DEF ItemAdd, SetItems
    <3>2. CASE clients' = clients
      BY <1>11, <1>0, <2>1, <3>2, MemoryStays DEF ItemAdd
    <3> QED
      BY <1>11, <3>1, <3>2, Zenon DEF ItemAdd
  <2>9. Thread(w, Persist) \/ Thread(w, Idle)
    BY <1>11, Zenon DEF ItemAdd
  <2>10. running /\ UNCHANGED <<disk, tmp, running, unsaved>> /\ unsaved \in BOOLEAN
    BY <1>11, <1>0, Zenon DEF ItemAdd, Begin, Unlocked
  <2>11. seq' \in Nat /\ seq <= seq'
    BY <2>1
  <2> QED
    BY <1>0, <2>8, <2>9, <2>10, <2>11, PlainJobs, HandlerKeeps, Zenon
<1>12. ASSUME NEW v \in DOMAIN clients, NEW k \in Kinds, NEW i \in clients[v].items[k],
              ItemDelete(w, v, k, i) \/ ItemStatus(w, v, k, i) \/ ItemEdit(w, v, k, i)
       PROVE  MemInv'
  <2>1. i \in Items /\ i.vkey = v /\ i.id < seq
    BY <1>02, Zenon
  <2>2. /\ [i EXCEPT !.on = ~@] \in Items /\ [i EXCEPT !.on = ~@].vkey = v
        /\ [i EXCEPT !.on = ~@].id < seq
    BY <2>1, Zenon DEF Items
  <2>3. /\ [i EXCEPT !.no_store = FALSE] \in Items /\ [i EXCEPT !.no_store = FALSE].vkey = v
        /\ [i EXCEPT !.no_store = FALSE].id < seq
    BY <2>1, Zenon DEF Items
  <2>4. PICK is : /\ SetItems(v, k, is)
                  /\ \A x \in is : \/ x \in clients[v].items[k]
                                   \/ x = [i EXCEPT !.on = ~@]
                                   \/ x = [i EXCEPT !.no_store = FALSE]
    BY <1>12 DEF ItemDelete, ItemStatus, ItemEdit
  <2>5. \A x \in is : x \in Items /\ x.vkey = v /\ x.id < seq
    BY <2>2, <2>3, <2>4, <1>02, Zenon
  <2>6. EntryOK(v, [clients[v] EXCEPT !.items[k] = is], seq)
    BY <2>5, <1>01, EntryItems
  <2>7. /\ UNCHANGED <<global, seq, disk, tmp, running>> /\ running
        /\ unsaved' \in BOOLEAN
        /\ Thread(w, Persist) \/ Thread(w, Idle)
    BY <1>12, <1>0, Zenon DEF ItemDelete, ItemStatus, ItemEdit, Begin, Unlocked
  <2>8. MemoryOK'
    BY <1>0, <2>4, <2>6, <2>7, MemorySets DEF SetItems
  <2> QED
    BY <1>0, <2>7, <2>8, PlainJobs, HandlerKeeps
<1> QED
  BY <1>1, <1>2, <1>3, <1>4, <1>5, <1>6, <1>7, <1>8, <1>9, <1>10, <1>11, <1>12, Zenon
  DEF Handler


(* The image of the memory that save_all writes is well formed.            *)
LEMMA ImageTyped ==
  ASSUME MemoryOK, NEW f \in FileNames
  PROVE  FileOK(f, Whole(Image(clients, global)[f]))
<1>1. Kept(clients) \subseteq DOMAIN clients /\ DOMAIN clients \subseteq VKeys
  BY DEF Kept, MemoryOK
<1>2. \A v \in DOMAIN clients : clients[v] \in Clients
  BY DEF MemoryOK, EntryOK
<1>3. Image(clients, global)[f] \in FileData(f)
  <2>1. CASE f = "clients"
    <3>1. Image(clients, global)[f] =
            {[id |-> clients[v].id, on |-> clients[v].status, vkey |-> v, fmt |-> "rust"] :
               v \in Kept(clients)}
      BY <2>1 DEF Image, Kinds
    <3>2. \A v \in Kept(clients) :
            [id |-> clients[v].id, on |-> clients[v].status, vkey |-> v, fmt |-> "rust"]
              \in ClientRecords
      BY <1>1, <1>2, Zenon DEF Clients, ClientRecords
    <3> QED
      BY <2>1, <3>1, <3>2 DEF FileData, Kinds
  <2>2. CASE f \in Kinds
    <3>1. Image(clients, global)[f] =
            {Record(i) : i \in UNION {Stored(clients[v], f) : v \in Kept(clients)}}
      BY <2>2 DEF Image, Kinds
    <3>2. \A v \in Kept(clients) : \A i \in Stored(clients[v], f) : i \in Items
      BY <1>1, <1>2, <2>2, Zenon DEF Clients, Stored
    <3>3. \A i \in Items : Record(i) \in ItemRecords
      BY Zenon DEF Items, Record, ItemRecords
    <3>4. Image(clients, global)[f] \subseteq ItemRecords
      BY <3>1, <3>2, <3>3
    <3> QED
      BY <2>2, <3>4 DEF FileData, Kinds
  <2>3. CASE f = "global"
    BY <2>3 DEF Image, FileData, Kinds, MemoryOK
  <2> QED
    BY <2>1, <2>2, <2>3 DEF FileNames, Kinds
<1> QED
  BY <1>3, Zenon DEF FileOK, Whole

LEMMA BlankFiles == \A f \in FileNames : FileOK(f, Absent) /\ FileOK(f, Partial)
  BY DEF FileOK, Absent, Partial, FileData, FileNames, Kinds

(* Replacing one file by a well-formed one.                                *)
LEMMA FileSet ==
  ASSUME NEW d, FilesOK(d), NEW f \in FileNames, NEW x, FileOK(f, x)
  PROVE  FilesOK([d EXCEPT ![f] = x])
<1> DEFINE e == [d EXCEPT ![f] = x]
<1>1. e = [g \in FileNames |-> IF g = f THEN x ELSE d[g]]
  BY DEF FilesOK
<1> HIDE DEF e
<1>2. FilesOK(e)
  BY <1>1 DEF FilesOK
<1> QED
  BY <1>2 DEF e

(* A step of a save is one of a worker that is in it or about to begin it. *)
LEMMA SaverAt ==
  ASSUME NEW w \in Workers, Save(w)
  PROVE  work[w].pc = "save" \/ (work[w] = Persist /\ Unlocked)
<1>1. ASSUME NEW f, NEW t, Saving(w, f, t)
      PROVE  work[w].pc = "save"
  BY <1>1 DEF Saving
<1> QED
  BY <1>1, Zenon DEF Save, SaveBegin, SaveFails, WriteTmp, Remove, Rename

(* Each step of a save keeps the invariant.                                *)
LEMMA SaveStepsKeep ==
  ASSUME MemInv, NEW w \in Workers, Save(w)
  PROVE  MemInv'
<1>0. /\ MemoryOK /\ FilesOK(disk) /\ FilesOK(tmp) /\ WorkOK
      /\ running \in BOOLEAN /\ unsaved \in BOOLEAN
  BY Zenon DEF MemInv, WorkOK
<1>1. UNCHANGED <<clients, global, seq, running>>
  BY Zenon DEF Save, SaveBegin, SaveFails, WriteTmp, Remove, Rename
<1>2. MemoryOK'
  BY <1>0, <1>1, Zenon DEF MemoryOK
<1>3. running
  <2>1. work[w].pc = "save" => work[w] # Idle
    BY DEF Idle
  <2>2. work[w] = Persist => work[w] # Idle
    BY DEF Idle, Persist
  <2>3. work[w].pc = "save" \/ work[w] = Persist
    BY SaverAt
  <2> QED
    BY <1>0, <2>1, <2>2, <2>3 DEF WorkOK
<1>4. ASSUME NEW n, JobOK(n, seq), Thread(w, n), unsaved' \in BOOLEAN
      PROVE  WorkOK'
  <2>1. work' = [x \in Workers |-> IF x = w THEN n ELSE work[x]]
    BY <1>0, <1>4 DEF Thread, WorkOK
  <2>2. \A x \in Workers : JobOK(work'[x], seq)
    BY <1>0, <1>4, <2>1 DEF WorkOK
  <2> QED
    BY <1>1, <1>3, <1>4, <2>1, <2>2 DEF WorkOK
<1>5. \A f \in 1..4, s \in {"create", "write", "remove", "rename"} :
        JobOK([pc |-> "save", file |-> f, step |-> s], seq)
  BY Zenon DEF JobOK, Jobs
<1>6. CASE SaveBegin(w)
  <2>1. WorkOK'
    BY <1>6, <1>0, <1>4, <1>5 DEF SaveBegin, Step
  <2> QED
    BY <1>6, <1>0, <1>2, <2>1 DEF SaveBegin, MemInv
<1>7. CASE SaveFails(w)
  <2>1. WorkOK'
    BY <1>7, <1>4, PlainJobs, Zenon DEF SaveFails
  <2> QED
    BY <1>7, <1>0, <1>2, <2>1, Zenon DEF SaveFails, MemInv
<1>8. ASSUME NEW f \in 1..4, WriteTmp(w, f)
      PROVE  MemInv'
  <2>1. WorkOK'
    BY <1>8, <1>0, <1>4, <1>5, Zenon DEF WriteTmp, Step
  <2>2. PICK x : FileOK(Files[f], x) /\ tmp' = [tmp EXCEPT ![Files[f]] = x]
    BY <1>8, <1>0, FileNamed, BlankFiles, ImageTyped, Zenon DEF WriteTmp
  <2>3. FilesOK(tmp')
    BY <1>0, <2>2, FileNamed, FileSet, Zenon
  <2> QED
    BY <1>8, <1>0, <1>2, <2>1, <2>3, Zenon DEF WriteTmp, MemInv
<1>9. ASSUME NEW f \in 1..4, Remove(w, f)
      PROVE  MemInv'
  <2>1. WorkOK'
    BY <1>9, <1>0, <1>4, <1>5, Zenon DEF Remove, Step
  <2>2. FilesOK(disk')
    BY <1>9, <1>0, FileNamed, FileSet, BlankFiles, Zenon DEF Remove
  <2> QED
    BY <1>9, <1>0, <1>2, <2>1, <2>2, Zenon DEF Remove, MemInv
<1>10. ASSUME NEW f \in 1..4, Rename(w, f)
       PROVE  MemInv'
  <2>1. WorkOK'
    <3>1. CASE f < Len(Files)
      <4>1. f + 1 \in 1..4
        BY <3>1 DEF Files
      <4> QED
        BY <1>10, <1>0, <1>4, <1>5, <3>1, <4>1, Zenon DEF Rename, Step
    <3>2. CASE ~(f < Len(Files))
      BY <1>10, <1>4, <3>2, PlainJobs, Zenon DEF Rename
    <3> QED
      BY <3>1, <3>2
  <2>2. FilesOK(tmp')
    BY <1>10, <1>0, FileNamed, FileSet, BlankFiles, Zenon DEF Rename
  <2>3. FileOK(Files[f], tmp[Files[f]])
    BY <1>0, FileNamed DEF FilesOK
  <2>4. FilesOK(disk')
    BY <1>10, <1>0, <2>3, FileNamed, FileSet, Zenon DEF Rename
  <2> QED
    BY <1>2, <2>1, <2>2, <2>4 DEF MemInv
<1> QED
  BY <1>6, <1>7, <1>8, <1>9, <1>10, Zenon DEF Save


(* What install_persistent_state makes of the files: one entry for each    *)
(* key of a stored client, with the items whose client_vkey is that key.   *)
Attached(d, v, k) == {decode(r) : r \in {x \in Read(d, k) : x.vkey = v}}

LEMMA LoadEntries ==
  ASSUME NEW d
  PROVE  /\ Load(d) = [v \in DOMAIN Load(d) |-> Load(d)[v]]
         /\ DOMAIN Load(d) = {r.vkey : r \in Read(d, "clients")}
         /\ \A v \in DOMAIN Load(d) :
              \E r \in Read(d, "clients") :
                /\ r.vkey = v
                /\ Load(d)[v] = decode_client(r, [k \in Kinds |-> Attached(d, v, k)])
<1> DEFINE cs == Read(d, "clients")
           e(v) == decode_client(CHOOSE r \in cs : r.vkey = v,
                                 [k \in Kinds |-> Attached(d, v, k)])
           D == {r.vkey : r \in cs}
<1>1. Load(d) = [v \in D |-> e(v)]
  BY Zenon DEF Load, Attached
<1>2. \A v \in D : \E r \in cs : r.vkey = v /\ e(v) = decode_client(r, [k \in Kinds |-> Attached(d, v, k)])
  <2> SUFFICES ASSUME NEW v \in D
               PROVE  \E r \in cs : r.vkey = v /\ e(v) = decode_client(r, [k \in Kinds |-> Attached(d, v, k)])
    BY Zenon
  <2> DEFINE r == CHOOSE r \in cs : r.vkey = v
  <2>1. \E q \in cs : q.vkey = v
    BY Zenon
  <2>2. r \in cs /\ r.vkey = v
    BY <2>1, Zenon
  <2>3. e(v) = decode_client(r, [k \in Kinds |-> Attached(d, v, k)])
    BY Zenon
  <2> QED
    BY <2>2, <2>3, Zenon
<1> HIDE DEF e, D
<1>3. DOMAIN Load(d) = D /\ \A v \in D : Load(d)[v] = e(v)
  BY <1>1, Zenon
<1>4. Load(d) = [v \in DOMAIN Load(d) |-> Load(d)[v]]
  BY <1>1, <1>3
<1>5. \A v \in DOMAIN Load(d) :
        \E r \in cs : r.vkey = v /\ Load(d)[v] = decode_client(r, [k \in Kinds |-> Attached(d, v, k)])
  BY <1>2, <1>3, Zenon
<1> QED
  BY <1>3, <1>4, <1>5, Zenon DEF D

LEMMA LoadTyped ==
  ASSUME FilesOK(disk)
  PROVE  /\ DOMAIN Load(disk) \subseteq VKeys
         /\ LoadGlobal(disk) \in Globals
         /\ IdsOf(disk) \in SUBSET (1..MaxId)
         /\ \A v \in DOMAIN Load(disk) :
              EntryOK(v, Load(disk)[v], observe_id(1, IdsOf(disk)))
<1> DEFINE s == observe_id(1, IdsOf(disk))
<1>1. /\ Read(disk, "clients") \subseteq ClientRecords
      /\ \A k \in Kinds : Read(disk, k) \subseteq ItemRecords
      /\ Read(disk, "global") \subseteq Globals
  BY DEF FilesOK, FileOK, FileData, Read, FileNames, Kinds
<1>2. DOMAIN Load(disk) \subseteq VKeys
  <2>1. \A r \in Read(disk, "clients") : r.vkey \in VKeys
    BY <1>1, Zenon DEF ClientRecords
  <2>2. \A v \in DOMAIN Load(disk) : \E r \in Read(disk, "clients") : r.vkey = v
    BY LoadEntries, Zenon
  <2> QED
    BY <2>1, <2>2
<1>3. LoadGlobal(disk) \in Globals
  BY <1>1, Zenon DEF LoadGlobal, Globals
<1>4. IdsOf(disk) \in SUBSET (1..MaxId)
  <2>1. /\ \A r \in Read(disk, "clients") : r.id \in 1..MaxId
        /\ \A r \in Read(disk, "tasks") : r.id \in 1..MaxId
        /\ \A r \in Read(disk, "hosts") : r.id \in 1..MaxId
    BY <1>1, Zenon DEF ClientRecords, ItemRecords, Kinds
  <2> QED
    BY <2>1, Zenon DEF IdsOf
<1>5. \A i \in IdsOf(disk) : i < s
  BY <1>4, ObserveIds
<1>6. /\ \A r \in Read(disk, "clients") : r.id \in IdsOf(disk)
      /\ \A k \in Kinds : \A r \in Read(disk, k) : r.id \in IdsOf(disk)
  BY Zenon DEF IdsOf, Kinds
<1> HIDE DEF s
<1>7. ASSUME NEW v \in DOMAIN Load(disk)
      PROVE  EntryOK(v, Load(disk)[v], s)
  <2> DEFINE its == [k \in Kinds |-> Attached(disk, v, k)]
  <2>1. PICK r \in Read(disk, "clients") :
          r.vkey = v /\ Load(disk)[v] = decode_client(r, its)
    BY LoadEntries, Zenon
  <2>2. \A k \in Kinds : \A i \in its[k] : i \in Items /\ i.vkey = v /\ i.id < s
    <3> SUFFICES ASSUME NEW k \in Kinds, NEW x \in Read(disk, k), x.vkey = v
                 PROVE  decode(x) \in Items /\ decode(x).vkey = v /\ decode(x).id < s
      BY Zenon DEF Attached
    <3>1. x \in ItemRecords /\ x.id < s
      BY <1>1, <1>5, <1>6, Zenon
    <3> QED
      BY <3>1, Zenon DEF decode, ItemRecords, Items
  <2>3. its \in [Kinds -> SUBSET Items]
    BY <2>2, Zenon
  <2>4. r \in ClientRecords /\ r.id < s
    BY <1>1, <1>5, <1>6, Zenon
  <2> HIDE DEF its
  <2> DEFINE c == decode_client(r, its)
  <2>5. c \in Clients /\ c.id < s /\ c.items = its
    BY <2>3, <2>4, Zenon DEF decode_client, ClientRecords, Clients
  <2> HIDE DEF c
  <2>6. EntryOK(v, c, s)
    BY <2>2, <2>5, Zenon DEF EntryOK
  <2> QED
    BY <2>1, <2>6, Zenon DEF c
<1> QED
  BY <1>2, <1>3, <1>4, <1>7, Zenon DEF s

(* The load at start-up establishes the invariant, and the sequence it     *)
(* computes is past every id on disk.                                      *)
LEMMA BootKeeps ==
  ASSUME MemInv, Boot
  PROVE  MemInv'
<1>0. FilesOK(disk) /\ FilesOK(tmp) /\ WorkOK
  BY DEF MemInv
<1>1. MaxId \in Nat
  BY StoreAssumption
<1>2. seq' \in 1..(MaxId + 1)
  BY <1>0, LoadTyped, FirstId, Zenon DEF Boot
<1>3. MemoryOK'
  BY <1>0, <1>2, LoadTyped, LoadEntries, Zenon DEF Boot, MemoryOK
<1>4. \A w \in Workers : work[w] = Idle
  BY <1>0, Zenon DEF Boot, WorkOK
<1>5. WorkOK'
  BY <1>0, <1>4, PlainJobs, Zenon DEF Boot, WorkOK
<1> QED
  BY <1>0, <1>3, <1>5, Zenon DEF Boot, MemInv

LEMMA CrashKeeps ==
  ASSUME MemInv, Crash
  PROVE  MemInv'
<1>1. MemoryOK'
  BY StoreAssumption DEF Crash, MemoryOK, Globals
<1>2. WorkOK'
  BY PlainJobs, Zenon DEF Crash, WorkOK, MemInv
<1> QED
  BY <1>1, <1>2, Zenon DEF Crash, MemInv

LEMMA MemInvInit == Init => MemInv
<1> SUFFICES ASSUME Init PROVE MemInv
  OBVIOUS
<1>1. MemoryOK
  BY StoreAssumption DEF Init, MemoryOK, Globals
<1>2. WorkOK
  BY PlainJobs, Zenon DEF Init, WorkOK
<1>3. FilesOK([f \in FileNames |-> Absent])
  BY BlankFiles DEF FilesOK
<1>4. ASSUME NEW v \in VKeys PROVE FilesOK(GoFiles(v))
  <2>1. 1 \in 1..MaxId
    BY StoreAssumption
  <2> DEFINE c == {[id |-> 1, on |-> TRUE, vkey |-> v, fmt |-> "go"]}
             t == {[id |-> 1, on |-> TRUE, vkey |-> v, body |-> "web", fmt |-> "go"]}
  <2>2. c \in SUBSET ClientRecords /\ t \in SUBSET ItemRecords
    BY <2>1 DEF ClientRecords, ItemRecords
  <2>3. GoFiles(v) = [f \in FileNames |-> CASE f = "clients" -> Whole(c)
                                            [] f = "tasks" -> Whole(t)
                                            [] OTHER -> Absent]
    BY DEF GoFiles
  <2> HIDE DEF c, t
  <2>4. FileOK("clients", Whole(c)) /\ FileOK("tasks", Whole(t))
    BY <2>2 DEF FileOK, FileData, Whole, Kinds
  <2> DEFINE g == GoFiles(v)
  <2>5. g = [f \in FileNames |-> g[f]]
    BY <2>3
  <2>6. \A f \in FileNames : FileOK(f, g[f])
    <3>1. g["clients"] = Whole(c) /\ g["tasks"] = Whole(t) /\ g["hosts"] = Absent /\ g["global"] = Absent
      BY <2>3 DEF FileNames
    <3> HIDE DEF g
    <3> QED
      BY <3>1, <2>4, BlankFiles, Zenon DEF FileNames
  <2> QED
    BY <2>5, <2>6 DEF FilesOK
<1> QED
  BY <1>1, <1>2, <1>3, <1>4, Zenon DEF Init, MemInv

LEMMA MemInvStep ==
  ASSUME MemInv, [Next]_vars
  PROVE  MemInv'
<1>1. CASE UNCHANGED vars
  BY <1>1, Zenon DEF vars, MemInv, MemoryOK, WorkOK
<1> QED
  BY <1>1, HandlersKeep, SaveStepsKeep, BootKeeps, CrashKeeps, Zenon DEF Next

LEMMA MemInvAlways == Spec => []MemInv
  BY MemInvInit, MemInvStep, PTL DEF Spec

(* The memory, the files and the workers keep their types, and no id       *)
(* reaches the sequence's bound.                                           *)
THEOREM TypeCorrect == Spec => []TypeOK
<1>1. MemInv => TypeOK
  <2> SUFFICES ASSUME MemInv PROVE TypeOK
    OBVIOUS
  <2>1. \A f \in FileNames, d \in {disk, tmp} : FileOK(f, d[f])
    BY Zenon DEF MemInv, FilesOK
  <2>2. \A w \in Workers : work[w] \in Jobs
    BY Zenon DEF MemInv, WorkOK, JobOK
  <2>3. work \in [Workers -> Jobs]
    BY <2>2 DEF MemInv, WorkOK
  <2> QED
    BY <2>1, <2>3, Zenon DEF TypeOK, MemInv, MemoryOK, EntryOK, FilesOK, FileOK, WorkOK
<1> QED
  BY <1>1, MemInvAlways, PTL

(* next_link_id hands out an id that no client, tunnel or host has, in the *)
(* memory or in an entry about to be installed: observe_id is applied to   *)
(* everything a start loads and a client uploads, whatever mixture of old  *)
(* and new files a crash left.                                             *)
THEOREM IdsAlwaysBelowSeq == Spec => []IdsBelowSeq
<1>1. MemInv => IdsBelowSeq
  <2> SUFFICES ASSUME MemInv PROVE IdsBelowSeq
    OBVIOUS
  <2> DEFINE ids(c) == {c.id} \union {i.id : i \in UNION Range(c.items)}
  <2>1. ASSUME NEW v, NEW c, EntryOK(v, c, seq)
        PROVE  \A i \in ids(c) : i < seq
    <3>1. DOMAIN c.items = Kinds
      BY <2>1 DEF EntryOK, Clients
    <3>2. \A i \in UNION Range(c.items) : i.id < seq
      BY <2>1, <3>1, Zenon DEF Range, EntryOK
    <3> QED
      BY <2>1, <3>2, Zenon DEF EntryOK
  <2>2. \A v \in DOMAIN clients : EntryOK(v, clients[v], seq)
    BY DEF MemInv, MemoryOK
  <2>3. \A w \in Workers : JobOK(work[w], seq)
    BY Zenon DEF MemInv, WorkOK
  <2>4. \A v \in DOMAIN clients : \A i \in ids(clients[v]) : i < seq
    BY <2>1, <2>2, Zenon
  <2>5. \A w \in Workers : work[w].pc = "upload" => \A i \in ids(work[w].entry) : i < seq
    BY <2>1, <2>3, Zenon DEF JobOK
  <2>6. \A w \in Workers : work[w].pc = "insert" => work[w].id < seq
    BY <2>3, Zenon DEF JobOK
  <2> QED
    BY <2>4, <2>5, <2>6, Zenon DEF IdsBelowSeq
<1> QED
  BY <1>1, MemInvAlways, PTL


-----------------------------------------------------------------------------
LEMMA StoredEntry ==
  ASSUME NEW c \in Clients, NEW its
  PROVE  [c EXCEPT !.no_store = FALSE, !.items = its]
           = [id |-> c.id, status |-> c.status, no_store |-> FALSE, items |-> its]
<1> DEFINE e == [c EXCEPT !.no_store = FALSE, !.items = its]
<1>1. e \in [id : {c.id}, status : {c.status}, no_store : {FALSE}, items : {its}]
  BY Zenon DEF Clients
<1> HIDE DEF e
<1>2. e = [id |-> c.id, status |-> c.status, no_store |-> FALSE, items |-> its]
  BY <1>1, Zenon
<1> QED
  BY <1>2 DEF e

(* Reading back what save_all wrote gives the stored part of the memory.   *)
LEMMA ImageLoads ==
  ASSUME MemoryOK, NEW d,
         \A f \in FileNames : d[f] = Whole(Image(clients, global)[f])
  PROVE  Restart(d) = <<StoredPart(clients), global>>
<1> DEFINE K == Kept(clients)
           R(v) == [id |-> clients[v].id, on |-> clients[v].status, vkey |-> v,
                    fmt |-> "rust"]
           S(k) == UNION {Stored(clients[v], k) : v \in K}
<1>1. \A f \in FileNames : Read(d, f) = Image(clients, global)[f]
  <2>1. \A x : Whole(x).data = x
    BY Zenon DEF Whole
  <2> QED
    BY <2>1, Zenon DEF Read
<1>2. Read(d, "clients") = {R(v) : v \in K}
  BY <1>1 DEF Image, FileNames, Kinds
<1>3. \A k \in Kinds : Read(d, k) = {Record(i) : i \in S(k)}
  BY <1>1 DEF Image, FileNames, Kinds
<1>4. Read(d, "global") = {global}
  BY <1>1 DEF Image, FileNames, Kinds
<1>5. LoadGlobal(d) = global
  BY <1>4, Zenon DEF LoadGlobal
<1>6. K \subseteq DOMAIN clients
  BY Zenon DEF Kept
<1>7. \A v \in K : clients[v] \in Clients /\ EntryOK(v, clients[v], seq)
  BY <1>6, Zenon DEF MemoryOK, EntryOK
<1> HIDE DEF K
<1>8. \A v \in K, k \in Kinds : \A i \in Stored(clients[v], k) :
        i \in Items /\ i.no_store = FALSE /\ i.vkey = v
  BY <1>7 DEF EntryOK, Clients, Stored, Items
<1>9. \A i \in Items : /\ i.no_store = FALSE => decode(Record(i)) = i
                       /\ Record(i).vkey = i.vkey
  BY Decoded, Zenon
<1>10. ASSUME NEW v \in K, NEW k \in Kinds
       PROVE  Attached(d, v, k) = Stored(clients[v], k)
  <2>1. ASSUME NEW x \in Attached(d, v, k) PROVE x \in Stored(clients[v], k)
    <3>1. PICK r \in Read(d, k) : r.vkey = v /\ x = decode(r)
      BY <2>1 DEF Attached
    <3>2. PICK i \in S(k) : r = Record(i)
      BY <3>1, <1>3, Zenon
    <3>3. PICK u \in K : i \in Stored(clients[u], k)
      BY <3>2, Zenon
    <3>4. i \in Items /\ i.no_store = FALSE /\ i.vkey = u
      BY <3>3, <1>8
    <3>5. u = v /\ x = i
      BY <3>1, <3>2, <3>4, <1>9, Zenon
    <3> QED
      BY <3>3, <3>5
  <2>2. ASSUME NEW i \in Stored(clients[v], k) PROVE i \in Attached(d, v, k)
    <3>1. i \in Items /\ i.no_store = FALSE /\ i.vkey = v
      BY <2>2, <1>8, Zenon
    <3>2. i \in S(k)
      BY <2>2
    <3>3. Record(i) \in Read(d, k) /\ Record(i).vkey = v /\ decode(Record(i)) = i
      BY <3>1, <3>2, <1>3, <1>9, Zenon
    <3> QED
      BY <3>3, Zenon DEF Attached
  <2> QED
    BY <2>1, <2>2, Zenon
<1>11. DOMAIN Load(d) = K
  <2>1. DOMAIN Load(d) = {r.vkey : r \in Read(d, "clients")}
    BY LoadEntries, Zenon
  <2>2. \A v \in K : R(v).vkey = v
    BY Zenon
  <2> HIDE DEF R
  <2>3. \A v \in DOMAIN Load(d) : v \in K
    BY <2>1, <2>2, <1>2
  <2>4. \A v \in K : v \in DOMAIN Load(d)
    <3> SUFFICES ASSUME NEW v \in K PROVE v \in DOMAIN Load(d)
      BY Zenon
    <3>1. R(v) \in Read(d, "clients") /\ R(v).vkey = v
      BY <2>2, <1>2, Zenon
    <3> QED
      BY <2>1, <3>1, Zenon
  <2> QED
    BY <2>3, <2>4, Zenon
<1>12. \A v \in K : Load(d)[v] = StoredPart(clients)[v]
  <2> SUFFICES ASSUME NEW v \in K PROVE Load(d)[v] = StoredPart(clients)[v]
    BY Zenon
  <2> DEFINE its == [k \in Kinds |-> Stored(clients[v], k)]
  <2>1. [k \in Kinds |-> Attached(d, v, k)] = its
    BY <1>10, Zenon
  <2>2. PICK r \in Read(d, "clients") :
          r.vkey = v /\ Load(d)[v] = decode_client(r, [k \in Kinds |-> Attached(d, v, k)])
    BY <1>11, LoadEntries, Zenon
  <2>3. r = R(v)
    BY <2>2, <1>2
  <2>4. StoredPart(clients)[v] = [clients[v] EXCEPT !.no_store = FALSE, !.items = its]
    BY DEF StoredPart, K
  <2> HIDE DEF its
  <2>5. [clients[v] EXCEPT !.no_store = FALSE, !.items = its]
          = [id |-> clients[v].id, status |-> clients[v].status, no_store |-> FALSE,
             items |-> its]
    BY <1>7, StoredEntry, Zenon
  <2>6. Load(d)[v] = decode_client(R(v), its)
    BY <2>1, <2>2, <2>3, Zenon
  <2> QED
    BY <2>4, <2>5, <2>6 DEF decode_client
<1>13. DOMAIN StoredPart(clients) = K /\ StoredPart(clients) = [v \in K |-> StoredPart(clients)[v]]
  BY DEF StoredPart, K
<1>14. Load(d) = StoredPart(clients)
  <2>1. Load(d) = [v \in K |-> Load(d)[v]]
    BY <1>11, LoadEntries, Zenon
  <2> QED
    BY <2>1, <1>12, <1>13
<1> QED
  BY <1>5, <1>14, Zenon DEF Restart

(* Everything a start loads is stored.                                     *)
LEMMA LoadIsStored ==
  ASSUME FilesOK(disk)
  PROVE  StoredPart(Load(disk)) = Load(disk)
<1> DEFINE L == Load(disk)
<1>1. \A v \in DOMAIN L : L[v] \in Clients
  BY LoadTyped, Zenon DEF EntryOK
<1>2. \A v \in DOMAIN L : /\ L[v].no_store = FALSE
                          /\ \A k \in Kinds : \A i \in L[v].items[k] : ~i.no_store
  <2> SUFFICES ASSUME NEW v \in DOMAIN L
               PROVE  /\ L[v].no_store = FALSE
                      /\ \A k \in Kinds : \A i \in L[v].items[k] : ~i.no_store
    BY Zenon
  <2>1. PICK r \in Read(disk, "clients") :
          r.vkey = v /\ L[v] = decode_client(r, [k \in Kinds |-> Attached(disk, v, k)])
    BY LoadEntries, Zenon
  <2>2. L[v].no_store = FALSE /\ \A k \in Kinds : L[v].items[k] = Attached(disk, v, k)
    <3> DEFINE is == [k \in Kinds |-> Attached(disk, v, k)]
    <3>0. L[v] = decode_client(r, is)
      BY <2>1, Zenon
    <3> HIDE DEF is
    <3>1. L[v].no_store = FALSE /\ L[v].items = is
      <4>1. decode_client(r, is).no_store = FALSE /\ decode_client(r, is).items = is
        BY ClientDecoded, Zenon
      <4> QED
        BY <3>0, <4>1, Zenon
    <3> QED
      BY <3>1, Zenon DEF is
  <2>3. \A k \in Kinds : \A i \in Attached(disk, v, k) : ~i.no_store
    BY Decoded, Zenon DEF Attached
  <2> QED
    BY <2>2, <2>3, Zenon
<1>3. L = [v \in DOMAIN L |-> L[v]]
  BY LoadEntries, Zenon
<1> HIDE DEF L
<1>4. Kept(L) = DOMAIN L
  BY <1>2, Zenon DEF Kept
<1>5. ASSUME NEW v \in DOMAIN L
      PROVE  StoredPart(L)[v] = L[v]
  <2>1. \A k \in Kinds : Stored(L[v], k) = L[v].items[k]
    BY <1>2, Zenon DEF Stored
  <2>2. [k \in Kinds |-> Stored(L[v], k)] = L[v].items
    BY <2>1, <1>1, Zenon DEF Clients
  <2>3. StoredPart(L)[v] = [L[v] EXCEPT !.no_store = FALSE, !.items = L[v].items]
    BY <1>4, <2>2, Zenon DEF StoredPart
  <2> QED
    BY <2>3, <1>1, <1>2, Zenon DEF Clients
<1>6. StoredPart(L) = [v \in DOMAIN L |-> StoredPart(L)[v]]
  BY <1>4 DEF StoredPart
<1>7. StoredPart(L) = L
  BY <1>3, <1>5, <1>6, Zenon
<1> QED
  BY <1>7 DEF L


(* A handler runs while no save does; it ends before its save, or owns up  *)
(* to a change without one, or changes nothing that is saved.              *)
LEMMA HandlerEffect ==
  ASSUME NEW w \in Workers, Handler(w)
  PROVE  \E n : /\ Unlocked /\ Thread(w, n) /\ n.pc # "save"
                /\ \/ n.pc = "persist"
                   \/ unsaved' = TRUE
                   \/ /\ UNCHANGED <<clients, global, disk, running, unsaved>>
                      /\ work[w].pc \notin {"persist", "save"}
<1> DEFINE E(n) == /\ Unlocked /\ Thread(w, n) /\ n.pc # "save"
                   /\ \/ n.pc = "persist"
                      \/ unsaved' = TRUE
                      \/ /\ UNCHANGED <<clients, global, disk, running, unsaved>>
                         /\ work[w].pc \notin {"persist", "save"}
<1>0. /\ Idle.pc = "idle" /\ Persist.pc = "persist"
      /\ work[w] = Idle => work[w].pc = "idle"
  BY DEF Idle, Persist
<1>1. CASE ClientAddInsert(w) \/ \E g \in Globals : GlobalSave(w, g)
  <2>1. E(Persist)
    BY <1>0, <1>1, Zenon DEF ClientAddInsert, GlobalSave, Begin
  <2> QED
    BY <2>1, Zenon
<1>2. CASE UploadRead(w)
  <2>1. ASSUME NEW e, Thread(w, [pc |-> "upload", vkey |-> work[w].vkey, entry |-> e])
        PROVE  E([pc |-> "upload", vkey |-> work[w].vkey, entry |-> e])
    BY <1>2, <2>1, Zenon DEF UploadRead
  <2>2. PICK e : Thread(w, [pc |-> "upload", vkey |-> work[w].vkey, entry |-> e])
    BY <1>2, Zenon DEF UploadRead
  <2> QED
    BY <2>1, <2>2, Zenon
<1>3. CASE UploadRefused(w) \/ UploadInstall(w)
  <2>1. E(Idle)
    BY <1>0, <1>3, Zenon DEF UploadRefused, UploadInstall
  <2> QED
    BY <2>1, Zenon
<1>4. ASSUME NEW v \in VKeys, ClientAddCheck(w, v)
      PROVE  \E n : E(n)
  <2>1. E([pc |-> "insert", vkey |-> v, id |-> seq])
    BY <1>0, <1>4, Zenon DEF ClientAddCheck, Begin
  <2> QED
    BY <2>1, Zenon
<1>5. ASSUME NEW v \in VKeys, UploadHello(w, v)
      PROVE  \E n : E(n)
  <2>1. E([pc |-> "hello", vkey |-> v])
    BY <1>0, <1>5, Zenon DEF UploadHello, Begin
  <2> QED
    BY <2>1, Zenon
<1>6. ASSUME NEW v \in VKeys,
             \/ ClientStatus(w, v) \/ ClientDelete(w, v)
             \/ \E n \in VKeys : ClientEdit(w, v, n)
      PROVE  \E n : E(n)
  <2>1. E(Persist)
    BY <1>0, <1>6, Zenon DEF ClientStatus, ClientDelete, ClientEdit, Begin
  <2> QED
    BY <2>1, Zenon
<1>7. ASSUME NEW v \in VKeys, NEW k \in Kinds, NEW on \in BOOLEAN, ItemAdd(w, v, k, on)
      PROVE  \E n : E(n)
  <2>1. E(Persist) \/ E(Idle)
    BY <1>0, <1>7, Zenon DEF ItemAdd, Begin
  <2> QED
    BY <2>1, Zenon
<1>8. ASSUME NEW v, NEW k, NEW i,
             ItemDelete(w, v, k, i) \/ ItemStatus(w, v, k, i) \/ ItemEdit(w, v, k, i)
      PROVE  \E n : E(n)
  <2>1. E(Persist) \/ E(Idle)
    BY <1>0, <1>8, Zenon DEF ItemDelete, ItemStatus, ItemEdit, Begin
  <2> QED
    BY <2>1, Zenon
<1> QED
  BY <1>1, <1>2, <1>3, <1>4, <1>5, <1>6, <1>7, <1>8, Zenon DEF Handler

LEMMA HandlersRestore ==
  ASSUME SavedInv, NEW w \in Workers, Handler(w)
  PROVE  Progress' /\ RestartRestores'
<1>1. PICK n : /\ Unlocked /\ Thread(w, n) /\ n.pc # "save"
               /\ \/ n.pc = "persist"
                  \/ unsaved' = TRUE
                  \/ /\ UNCHANGED <<clients, global, disk, running, unsaved>>
                     /\ work[w].pc \notin {"persist", "save"}
  BY HandlerEffect, Zenon
<1>2. work' = [x \in Workers |-> IF x = w THEN n ELSE work[x]]
  BY <1>1, Zenon DEF Thread, SavedInv, SaveInv, Shape
<1>3. \A x \in Workers : work'[x].pc # "save"
  <2> SUFFICES ASSUME NEW x \in Workers PROVE work'[x].pc # "save"
    BY Zenon
  <2>1. work[x].pc # "save"
    BY <1>1, Zenon DEF Unlocked
  <2>2. work'[x] = n \/ work'[x] = work[x]
    BY <1>2, Zenon
  <2> QED
    BY <1>1, <2>1, <2>2, Zenon
<1>4. Progress'
  BY <1>3 DEF Progress, Saving
<1>5. RestartRestores'
  <2>1. CASE n.pc = "persist"
    BY <1>2, <2>1 DEF RestartRestores
  <2>2. CASE unsaved' = TRUE
    BY <2>2, Zenon DEF RestartRestores
  <2>3. CASE /\ UNCHANGED <<clients, global, disk, running, unsaved>>
             /\ work[w].pc \notin {"persist", "save"}
    <3>1. (\A x \in Workers : work'[x].pc \notin {"persist", "save"})
            => \A x \in Workers : work[x].pc \notin {"persist", "save"}
      BY <1>2, <2>3, Zenon
    <3>2. (/\ running /\ ~unsaved
           /\ \A x \in Workers : work[x].pc \notin {"persist", "save"})
            => Restart(disk) = <<StoredPart(clients), global>>
      BY Zenon DEF SavedInv, RestartRestores
    <3> QED
      BY <2>3, <3>1, <3>2, Zenon DEF RestartRestores
  <2> QED
    BY <1>1, <2>1, <2>2, <2>3, Zenon
<1> QED
  BY <1>4, <1>5


(* An idle worker is at no step of a save.                                 *)
LEMMA NotSaving ==
  /\ \A w \in Workers : work[w] = Idle => \A f, s : ~Saving(w, f, s)
  /\ \A w \in Workers : work'[w] = Idle => \A f, s : ~(Saving(w, f, s))'
  BY DEF Saving, Idle

LEMMA FilesDiffer ==
  /\ \A f, g \in 1..4 : Files[f] = Files[g] => f = g
  /\ \A n \in FileNames : \E f \in 1..4 : n = Files[f]
  /\ Len(Files) = 4
<1>1. Len(Files) = 4
  BY DEF Files
<1>2. Files[1] = "clients" /\ Files[2] = "tasks" /\ Files[3] = "hosts" /\ Files[4] = "global"
  BY DEF Files
<1>3. \A f \in 1..4 : f = 1 \/ f = 2 \/ f = 3 \/ f = 4
  OBVIOUS
<1>4. \A f, g \in 1..4 : Files[f] = Files[g] => f = g
  BY <1>2, <1>3, Zenon
<1>5. \A n \in FileNames : \E f \in 1..4 : n = Files[f]
  BY <1>2 DEF FileNames
<1> QED
  BY <1>1, <1>4, <1>5, Zenon

(* The steps of a save: the last rename completes an image of the memory   *)
(* that the lock has kept unchanged since the save began.                  *)
LEMMA SavesRestore ==
  ASSUME SavedInv, NEW w \in Workers, Save(w)
  PROVE  Progress' /\ RestartRestores'
<1> DEFINE I(f) == Whole(Image(clients, global)[Files[f]])
           At(f, s) == [pc |-> "save", file |-> f, step |-> s]
           Steps == {"create", "write", "remove", "rename"}
<1>0. /\ Shape /\ OneSaver /\ MemoryOK
      /\ disk = [f \in FileNames |-> disk[f]] /\ tmp = [f \in FileNames |-> tmp[f]]
  BY Zenon DEF SavedInv, SaveInv, Shape, MemInv
<1>1. UNCHANGED <<clients, global, seq, running>>
  BY Zenon DEF Save, SaveBegin, SaveFails, WriteTmp, Remove, Rename
<1>2. \A f \in 1..4 : (Whole(Image(clients, global)[Files[f]]))' = I(f)
  BY <1>1, Zenon
<1>3. \A x \in Workers : x # w => work[x].pc # "save"
  BY <1>0, SaverAt, Zenon DEF OneSaver, Unlocked
<1>4. \A f \in 1..4, s \in Steps : Saving(w, f, s) =>
        /\ \A g \in 1..4 : g < f => disk[Files[g]] = I(g)
        /\ s \in {"remove", "rename"} => tmp[Files[f]] = I(f)
  BY Zenon DEF SavedInv, Progress
<1> HIDE DEF I
(* The worker is at another step of the save afterwards.                   *)
<1>5. ASSUME NEW f \in 1..4, NEW s \in Steps, Step(w, f, s),
             \A g \in 1..4 : g < f => disk'[Files[g]] = I(g),
             s \in {"remove", "rename"} => tmp'[Files[f]] = I(f)
      PROVE  Progress' /\ RestartRestores'
  <2>1. work' = [x \in Workers |-> IF x = w THEN At(f, s) ELSE work[x]]
    BY <1>0, <1>5, Zenon DEF Step, Thread, Shape
  <2>2. RestartRestores'
    BY <2>1, Zenon DEF RestartRestores
  <2>3. \A x \in Workers, h \in 1..4, t \in Steps : work'[x] = At(h, t) => x = w /\ h = f /\ t = s
    <3>1. \A h, t : At(h, t).pc = "save" /\ At(h, t).file = h /\ At(h, t).step = t
      BY Zenon
    <3> HIDE DEF At, Steps
    <3> SUFFICES ASSUME NEW x \in Workers, NEW h \in 1..4, NEW t \in Steps, work'[x] = At(h, t)
                 PROVE  x = w /\ h = f /\ t = s
      BY Zenon
    <3>2. x = w
      <4> SUFFICES ASSUME x # w PROVE FALSE
        BY Zenon
      <4>1. work'[x] = work[x]
        BY <2>1, Zenon
      <4>2. work[x] = At(h, t)
        BY <4>1, Zenon
      <4>3. At(h, t).pc = "save" /\ work[x].pc # "save"
        BY <1>3, <3>1, Zenon
      <4> QED
        BY <4>2, <4>3, Zenon
    <3>3. At(h, t) = At(f, s)
      BY <2>1, <3>2, Zenon
    <3> QED
      BY <3>1, <3>2, <3>3
  <2>4. \A x \in Workers, h \in 1..4, t \in Steps : (Saving(x, h, t))' =>
          /\ \A g \in 1..4 : g < h => disk'[Files[g]] = I(g)
          /\ t \in {"remove", "rename"} => tmp'[Files[h]] = I(h)
    BY <1>5, <2>3, Zenon DEF Saving
  <2>5. Progress'
    BY <1>2, <2>4, Zenon DEF Progress
  <2> QED
    BY <2>2, <2>5
(* The save ends.                                                          *)
<1>6. ASSUME Thread(w, Idle)
      PROVE  Progress'
  <2>1. work' = [x \in Workers |-> IF x = w THEN Idle ELSE work[x]]
    BY <1>0, <1>6, Zenon DEF Thread, Shape
  <2>2. \A x \in Workers : work'[x].pc # "save"
    BY <1>3, <2>1, Zenon DEF Idle
  <2> QED
    BY <2>2 DEF Progress, Saving
<1>7. CASE SaveBegin(w)
  <2>1. Step(w, 1, "create")
    BY <1>7, Zenon DEF SaveBegin
  <2>2. 1 \in 1..4 /\ \A g \in 1..4 : ~(g < 1)
    OBVIOUS
  <2> QED
    BY <1>5, <2>1, <2>2, Zenon
<1>8. CASE SaveFails(w)
  BY <1>6, <1>8, Zenon DEF SaveFails, RestartRestores
<1>9. ASSUME NEW f \in 1..4, WriteTmp(w, f)
      PROVE  Progress' /\ RestartRestores'
  <2>1. \A g \in 1..4 : g < f => disk'[Files[g]] = I(g)
    BY <1>4, <1>9, Zenon DEF WriteTmp
  <2>2. CASE Step(w, f, "write")
    BY <1>5, <2>1, <2>2, Zenon
  <2>3. CASE Step(w, f, "remove") /\ tmp' = [tmp EXCEPT ![Files[f]] = I(f)]
    <3>1. tmp'[Files[f]] = I(f)
      BY <1>0, <2>3, FileNamed
    <3> QED
      BY <1>5, <2>1, <2>3, <3>1, Zenon
  <2> QED
    BY <1>9, <2>2, <2>3, Zenon DEF WriteTmp, I
<1>10. ASSUME NEW f \in 1..4, Remove(w, f)
       PROVE  Progress' /\ RestartRestores'
  <2>1. /\ \A g \in 1..4 : g < f => disk[Files[g]] = I(g)
        /\ tmp'[Files[f]] = I(f)
    BY <1>4, <1>10, Zenon DEF Remove
  <2>2. \A g \in 1..4 : g < f => disk'[Files[g]] = I(g)
    BY <1>0, <1>10, <2>1, FileNamed, FilesDiffer DEF Remove
  <2> QED
    BY <1>5, <1>10, <2>1, <2>2, Zenon DEF Remove
<1>11. ASSUME NEW f \in 1..4, Rename(w, f)
       PROVE  Progress' /\ RestartRestores'
  <2>1. /\ \A g \in 1..4 : g < f => disk[Files[g]] = I(g)
        /\ tmp[Files[f]] = I(f)
    BY <1>4, <1>11, Zenon DEF Rename
  <2>2. disk' = [disk EXCEPT ![Files[f]] = I(f)]
    BY <1>11, <2>1, Zenon DEF Rename
  <2>3. \A g \in 1..4 : g <= f => disk'[Files[g]] = I(g)
    BY <1>0, <2>1, <2>2, FileNamed, FilesDiffer
  <2>4. CASE f < 4
    <3>1. f + 1 \in 1..4 /\ \A g \in 1..4 : g < f + 1 => g <= f
      BY <2>4
    <3>2. Step(w, f + 1, "create")
      BY <1>11, <2>4, FilesDiffer, Zenon DEF Rename
    <3>3. \A g \in 1..4 : g < f + 1 => disk'[Files[g]] = I(g)
      BY <2>3, <3>1, Zenon
    <3> QED
      BY <1>5, <3>1, <3>2, <3>3, Zenon
  <2>5. CASE ~(f < 4)
    <3>1. Thread(w, Idle)
      BY <1>11, <2>5, FilesDiffer, Zenon DEF Rename
    <3>2. \A g \in 1..4 : disk'[Files[g]] = I(g)
      BY <2>3, <2>5
    <3>3. \A n \in FileNames : disk'[n] = Whole(Image(clients, global)[n])
      BY <3>2, FilesDiffer DEF I
    <3>4. Restart(disk') = <<StoredPart(clients), global>>
      BY <1>0, <3>3, ImageLoads, Zenon
    <3>5. RestartRestores'
      BY <1>1, <3>4, Zenon DEF RestartRestores
    <3> QED
      BY <1>6, <3>1, <3>5
  <2> QED
    BY <2>4, <2>5, Zenon
<1> QED
  BY <1>7, <1>8, <1>9, <1>10, <1>11, Zenon DEF Save

(* Whenever no handler is between its change and the end of its save and   *)
(* no save has failed since, a restart brings back the stored part of the  *)
(* memory: every handler saves what it changes, save_all writes a snapshot *)
(* under the lock, and install_persistent_state is its inverse.            *)
THEOREM RestartAlwaysRestores == Spec => []RestartRestores
<1>1. Init => SavedInv
  <2> SUFFICES ASSUME Init PROVE SavedInv
    OBVIOUS
  <2>1. Progress
    BY NotSaving, Zenon DEF Init, Progress
  <2>2. RestartRestores
    BY Zenon DEF Init, RestartRestores
  <2> QED
    BY <2>1, <2>2, SaveInvInit, MemInvInit, Zenon DEF SavedInv
<1>2. SavedInv /\ [Next]_vars => SavedInv'
  <2> SUFFICES ASSUME SavedInv, [Next]_vars PROVE SavedInv'
    BY Zenon
  <2>1. SaveInv' /\ MemInv'
    BY SaveInvStep, MemInvStep DEF SavedInv
  <2>2. CASE Crash
    <3>1. Progress'
      BY <2>2, NotSaving, Zenon DEF Crash, Progress
    <3>2. RestartRestores'
      BY <2>2, Zenon DEF Crash, RestartRestores
    <3> QED
      BY <2>1, <3>1, <3>2 DEF SavedInv
  <2>3. CASE Boot
    <3>1. \A w \in Workers : work'[w] = Idle
      BY <2>3, Zenon DEF Boot, SavedInv, MemInv, WorkOK
    <3>2. Progress'
      BY <3>1, NotSaving, Zenon DEF Progress
    <3>3. Restart(disk') = <<StoredPart(clients), global>>'
      BY <2>3, LoadIsStored, Zenon DEF Boot, Restart, SavedInv, MemInv
    <3> QED
      BY <2>1, <3>2, <3>3, Zenon DEF SavedInv, RestartRestores
  <2>4. CASE \E w \in Workers : Handler(w) \/ Save(w)
    BY <2>1, <2>4, HandlersRestore, SavesRestore, Zenon DEF SavedInv
  <2>5. CASE UNCHANGED vars
    BY <2>1, <2>5, Zenon DEF vars, SavedInv, Progress, Saving, RestartRestores
  <2> QED
    BY <2>2, <2>3, <2>4, <2>5, Zenon DEF Next
<1>3. SavedInv => RestartRestores
  BY DEF SavedInv
<1> QED
  BY <1>1, <1>2, <1>3, PTL DEF Spec

=============================================================================
