--------------------------- MODULE FindingPipeline ---------------------------
(***************************************************************************)
(* How a divergence of the fuzz sidecar becomes a finding of the control   *)
(* service: the goroutines of a soak record it in the corpus and copy it   *)
(* to a directory both processes share, the disk watcher ingests the copy  *)
(* into the store, where the oracles of the control service add findings   *)
(* of their own, and a client reads on from the newest finding it has.     *)
(* Either process may be killed and started again between any two steps.   *)
(* Sources: sidecar/internal/fuzz/corpus/divergence.go,                    *)
(* sidecar/internal/finding/{disk_watcher,mapper,id,store}.go.             *)
(*                                                                         *)
(* A file is created empty and filled in a second step, as os.WriteFile    *)
(* does.  Its name is the time of the record and a counter.                *)
(***************************************************************************)
EXTENDS Naturals, Sequences, FiniteSets

CONSTANTS
  Recorders,    \* goroutines that share the recorder of a soak
  Capacity,     \* findings the store holds (maxCapacity, 1000)
  Limit,        \* findings a client asks for
  MaxRecords,   \* bound: records of one life of the sidecar
  MaxTime,      \* bound: instants
  MaxRaised,    \* bound: findings of the oracles of the control service
  MaxRestarts   \* bound: restarts of the control service

ASSUME PipelineAssumption ==
  /\ Capacity \in Nat \ {0} /\ Limit \in Nat \ {0}
  /\ MaxRecords \in Nat /\ MaxTime \in Nat \ {0} /\ MaxRaised \in Nat /\ MaxRestarts \in Nat

VARIABLES
  now,        \* the instant
  counter,    \* Recorder.counter
  job,        \* where RecordDivergence stands, and the file it writes
  corpus,     \* files written whole under baseDir
  torn,       \* files of the shared directory that are not filled (yet)
  mirror,     \* files of the shared directory that are whole
  seen,       \* DiskWatcher.seen
  todo,       \* entries of the scan under way that are still to be looked at
  findings,   \* Store.findings
  byID,       \* Store.byID
  cursor,     \* the finding the client reads on from, 0 if it has none
  got,        \* what the client has received
  nextId, raised, restarts,
  log,        \* what was added to the store since the service started
  misread,    \* files read before they were filled, since then
  again,      \* the client has received a finding twice
  lost,       \* the client's cursor was not in the store when it asked
  cut         \* an answer was cut at the limit

sidecar == <<now, counter, job, corpus>>
disk    == <<torn, mirror>>
watcher == <<seen, todo, misread>>
store   == <<findings, byID, nextId, log>>
client  == <<cursor, got, again, lost, cut>>
vars    == <<sidecar, disk, watcher, store, client, raised, restarts>>

Names == (1 .. MaxTime) \X (1 .. MaxRecords)

None == <<0, 0>>   \* no file: a finding of an oracle, a recorder at rest

Findings == [id : Nat \ {0}, at : 1 .. MaxTime, file : Names \cup {None}]

TypeOK ==
  /\ now \in 1 .. MaxTime
  /\ counter \in 0 .. MaxRecords
  /\ job \in [Recorders -> [pc : {"idle", "base", "mirror", "copy"}, file : Names \cup {None}]]
  /\ corpus \subseteq Names
  /\ torn \subseteq Names /\ mirror \subseteq Names /\ torn \cap mirror = {}
  /\ seen \subseteq Names /\ todo \subseteq Names /\ misread \subseteq Names
  /\ findings \in Seq(Findings) /\ Len(findings) <= Capacity
  /\ log \in Seq(Findings)
  /\ DOMAIN byID \subseteq Nat \ {0} /\ \A i \in DOMAIN byID : byID[i] \in 1 .. Capacity
  /\ cursor \in Nat /\ got \subseteq [id : Nat \ {0}, at : 1 .. MaxTime]
  /\ nextId \in Nat \ {0} /\ raised \in 0 .. MaxRaised /\ restarts \in 0 .. MaxRestarts
  /\ again \in BOOLEAN /\ lost \in BOOLEAN /\ cut \in BOOLEAN

NoIndex == [i \in {} |-> 0]

Init ==
  /\ now = 1 /\ counter = 0
  /\ job = [w \in Recorders |-> [pc |-> "idle", file |-> None]]
  /\ corpus = {} /\ torn = {} /\ mirror = {}
  /\ seen = {} /\ todo = {} /\ misread = {}
  /\ findings = <<>> /\ byID = NoIndex /\ log = <<>> /\ nextId = 1
  /\ cursor = 0 /\ got = {} /\ again = FALSE /\ lost = FALSE /\ cut = FALSE
  /\ raised = 0 /\ restarts = 0

-----------------------------------------------------------------------------
(* RecordDivergence.  An error on the way to the corpus returns; one on the *)
(* way to the mirror is ignored.                                           *)
Go(w, pc) == job' = [job EXCEPT ![w].pc = pc]

Rest(w) == job' = [job EXCEPT ![w] = [pc |-> "idle", file |-> None]]

Record(w) ==
  /\ job[w].pc = "idle" /\ counter < MaxRecords
  /\ counter' = counter + 1
  /\ job' = [job EXCEPT ![w] = [pc |-> "base", file |-> <<now, counter + 1>>]]
  /\ UNCHANGED <<now, corpus, disk, watcher, store, client, raised, restarts>>

WriteBaseAndGoOn(w) ==  \* mutant: the error of the first write is ignored too
  /\ job[w].pc = "base"
  /\ Go(w, "mirror")
  /\ corpus' \in {corpus, corpus \cup {job[w].file}}
  /\ UNCHANGED <<now, counter, disk, watcher, store, client, raised, restarts>>

WriteBase(w) ==
  /\ job[w].pc = "base"
  /\ \/ Go(w, "mirror") /\ corpus' = corpus \cup {job[w].file}
     \/ Rest(w) /\ UNCHANGED corpus
  /\ UNCHANGED <<now, counter, disk, watcher, store, client, raised, restarts>>

OpenMirror(w) ==
  /\ job[w].pc = "mirror"
  /\ \/ Go(w, "copy") /\ torn' = torn \cup {job[w].file}
     \/ Rest(w) /\ UNCHANGED torn
  /\ UNCHANGED <<now, counter, corpus, mirror, watcher, store, client, raised, restarts>>

WriteMirror(w) ==
  /\ job[w].pc = "copy"
  /\ Rest(w)
  /\ \/ /\ torn' = torn \ {job[w].file}
        /\ mirror' = mirror \cup {job[w].file}
     \/ UNCHANGED disk
  /\ UNCHANGED <<now, counter, corpus, watcher, store, client, raised, restarts>>

Tick ==
  /\ now < MaxTime
  /\ now' = now + 1
  /\ UNCHANGED <<counter, job, corpus, disk, watcher, store, client, raised, restarts>>

(* The sidecar is killed and started again: NewRecorder counts from zero.  *)
RestartSidecar ==
  /\ now < MaxTime
  /\ now' = now + 1
  /\ counter' = 0
  /\ job' = [w \in Recorders |-> [pc |-> "idle", file |-> None]]
  /\ UNCHANGED <<corpus, disk, watcher, store, client, raised, restarts>>

-----------------------------------------------------------------------------
(* Store.Add: at capacity the oldest finding goes and the index moves down. *)
NotShifted == [i \in {j \in DOMAIN byID : j # Head(findings).id} |-> byID[i]]  \* mutant

Shifted == [i \in {j \in DOMAIN byID : j # Head(findings).id} |-> byID[i] - 1]

AtCapacity == Len(findings) >= Capacity

Indexed(index, id, pos) ==
  [i \in DOMAIN index \cup {id} |-> IF i = id THEN pos ELSE index[i]]

Add(at, file) ==
  LET f     == [id |-> nextId, at |-> at, file |-> file]
      kept  == IF AtCapacity THEN Tail(findings) ELSE findings
      index == IF AtCapacity THEN Shifted ELSE byID
  IN /\ findings' = Append(kept, f)
     /\ byID' = Indexed(index, nextId, Len(kept) + 1)
     /\ nextId' = nextId + 1
     /\ log' = Append(log, f)

Before(m, n) == m[1] < n[1] \/ (m[1] = n[1] /\ m[2] < n[2])

(* scan: the names that are there now; those seen before are skipped.      *)
ScanAfterNewest ==  \* mutant: only names after the newest one seen
  /\ todo = {}
  /\ LET new == {n \in torn \cup mirror :
                   \A s \in seen : Before(s, n)}
     IN new # {} /\ todo' = new
  /\ UNCHANGED <<sidecar, disk, seen, misread, store, client, raised, restarts>>

Scan ==
  /\ todo = {}
  /\ (torn \cup mirror) \ seen # {}
  /\ todo' = (torn \cup mirror) \ seen
  /\ UNCHANGED <<sidecar, disk, seen, misread, store, client, raised, restarts>>

(* One entry of the scan, in the order of the names: marked, then read.    *)
Ingest ==
  \E n \in todo :
    /\ \A m \in todo \ {n} : Before(n, m)
    /\ todo' = todo \ {n}
    /\ seen' = seen \cup {n}
    /\ \/ n \in mirror /\ Add(n[1], n) /\ UNCHANGED misread
       \/ n \in torn /\ misread' = misread \cup {n} /\ UNCHANGED store
    /\ UNCHANGED <<sidecar, disk, client, raised, restarts>>

(* An oracle of the control service adds what it has just found.           *)
Raise ==
  /\ raised < MaxRaised
  /\ raised' = raised + 1
  /\ Add(now, None)
  /\ UNCHANGED <<sidecar, disk, watcher, client, restarts>>

(* The control service is killed and started again: store and watcher are  *)
(* empty, the shared directory is not.                                     *)
RestartControl ==
  /\ restarts < MaxRestarts
  /\ restarts' = restarts + 1
  /\ seen' = {} /\ todo' = {} /\ misread' = {}
  /\ findings' = <<>> /\ byID' = NoIndex /\ log' = <<>>
  /\ UNCHANGED <<sidecar, disk, nextId, client, raised>>

-----------------------------------------------------------------------------
(* Store.List: what is newer than the finding since (everything, if that   *)
(* is not in the store), the ones added last first, at most limit of them, *)
(* sorted by time.                                                         *)
After(since) ==
  {i \in DOMAIN findings :
     since \in DOMAIN byID => findings[i].at > findings[byID[since]].at}

List(since, limit) ==
  {i \in After(since) : Cardinality({j \in After(since) : j > i}) < limit}

FirstAsAdded(i, I) == \A j \in I : j <= i  \* mutant: not sorted

First(i, I) ==
  \A j \in I :
    \/ findings[j].at < findings[i].at
    \/ findings[j].at = findings[i].at /\ j <= i

Seen(f) == [id |-> f.id, at |-> f.at]

(* A client asks for what is newer than the first finding of its last answer. *)
Poll ==
  LET answer == List(cursor, Limit)
      new    == {Seen(findings[i]) : i \in answer}
  IN /\ answer # {}
     /\ got' = got \cup new
     /\ \E i \in answer : First(i, answer) /\ cursor' = findings[i].id
     /\ again' = (again \/ (got \cap new # {}))
     /\ lost' = (lost \/ (cursor # 0 /\ cursor \notin DOMAIN byID))
     /\ cut' = (cut \/ (answer # After(cursor)))
     /\ UNCHANGED <<sidecar, disk, watcher, store, raised, restarts>>

-----------------------------------------------------------------------------
Write(w) == WriteBase(w) \/ OpenMirror(w) \/ WriteMirror(w)

Next ==
  \/ \E w \in Recorders : Record(w) \/ Write(w)
  \/ Tick \/ RestartSidecar
  \/ Scan \/ Ingest \/ Raise \/ RestartControl
  \/ Poll

Spec == Init /\ [][Next]_vars

(* The watcher's ticker keeps firing; nothing else is owed.                *)
FairSpec == Spec /\ WF_vars(Scan \/ Ingest)

-----------------------------------------------------------------------------
(* Whatever is whole in the shared directory, or has become a finding, is  *)
(* whole in the corpus: a write that fails there is never shown.           *)
ShownIsKept ==
  /\ mirror \subseteq corpus
  /\ \A i \in DOMAIN log : log[i].file # None => log[i].file \in mirror

(* A file becomes one finding at most in a life of the control service.    *)
IngestedOnce ==
  \A i, j \in DOMAIN log : log[i].file = log[j].file /\ log[i].file # None => i = j

(* The store is the latest Capacity findings in the order they were added, *)
(* and its index finds each of them and nothing else.                      *)
StoreIsWindow ==
  LET gone == Len(log) - Len(findings)
  IN /\ Len(findings) = IF Len(log) < Capacity THEN Len(log) ELSE Capacity
     /\ \A i \in DOMAIN findings :
          findings[i] = log[gone + i] /\ findings[i].id \in DOMAIN byID /\ byID[findings[i].id] = i
     /\ \A id \in DOMAIN byID : byID[id] \in DOMAIN findings /\ findings[byID[id]].id = id

(* A client that reads on from the newest finding it has receives none     *)
(* twice, unless that one had left the store when it asked.                *)
NothingTwice == again => lost

(* If no answer was cut, what such a client has skipped came late: it was  *)
(* added after the client had received one that is no older.               *)
SkipsOnlyLate ==
  ~cut => \A i \in DOMAIN findings :
    LET f == findings[i]
    IN (Seen(f) \notin got /\ cursor \in DOMAIN byID /\ i \notin After(cursor))
         => \E d \in got : d.id < f.id /\ d.at >= f.at

(* A file that is whole becomes a finding, unless it was read before.      *)
WholeIsIngested ==
  \A n \in Names :
    (n \in mirror) ~> (n \in misread \/ \E i \in DOMAIN log : log[i].file = n)
==============================================================================
