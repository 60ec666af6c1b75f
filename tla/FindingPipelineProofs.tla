------------------------ MODULE FindingPipelineProofs ------------------------
(***************************************************************************)
(* What holds of FindingPipeline for every number of recorders, findings,  *)
(* restarts and every capacity.                                            *)
(***************************************************************************)
EXTENDS FindingPipeline, TLAPS

-----------------------------------------------------------------------------
(* The inductive invariant.                                                *)

(* A name given out by the instant t, when the counter stands at c.        *)
Issued(n, t, c) == n[1] < t \/ (n[1] = t /\ n[2] <= c)

(* Who writes a file has a name of its own, nobody else's and not one of   *)
(* the shared directory before it is created there; what a recorder copies *)
(* is in the corpus.                                                       *)
Files ==
  /\ mirror \subseteq corpus
  /\ \A n \in corpus \cup torn \cup mirror : Issued(n, now, counter)
  /\ \A w \in Recorders : job[w].pc # "idle" =>
       /\ job[w].file \in Names /\ Issued(job[w].file, now, counter)
       /\ job[w].pc \in {"base", "mirror"} => job[w].file \notin torn \cup mirror
       /\ job[w].pc \in {"mirror", "copy"} => job[w].file \in corpus
       /\ \A v \in Recorders : v # w /\ job[v].pc # "idle" => job[v].file # job[w].file

(* What is still to be read has not been read; what was ingested has.      *)
Reading ==
  /\ todo \subseteq torn \cup mirror
  /\ todo \cap seen = {}
  /\ \A i \in DOMAIN log : log[i].file # None => log[i].file \in seen \cap mirror
  /\ IngestedOnce

(* Ids go up.                                                              *)
Ids == \A i \in DOMAIN findings : findings[i].id < nextId

(* What a client knows of the findings that are older than its cursor.     *)
Older ==
  \A c \in DOMAIN findings : findings[c].id = cursor =>
    /\ Seen(findings[c]) \in got
    /\ ~lost => \A d \in got : d.at <= findings[c].at
    /\ ~cut => \A i \in DOMAIN findings :
         findings[i].at <= findings[c].at /\ Seen(findings[i]) \notin got
           => \E d \in got : d.id < findings[i].id /\ d.at >= findings[i].at

Reader ==
  /\ cursor < nextId
  /\ cursor = 0 => got = {}
  /\ \A d \in got : d.id < nextId
  /\ NothingTwice
  /\ Older

IndInv == TypeOK /\ Files /\ Reading /\ StoreIsWindow /\ Ids /\ Reader

-----------------------------------------------------------------------------
(* A sequence that loses its first element and gains one at the end.       *)
LEMMA Slide ==
  ASSUME NEW S, NEW s \in Seq(S), s # <<>>, NEW e \in S
  PROVE  LET t == Append(Tail(s), e)
         IN /\ t \in Seq(S) /\ Len(t) = Len(s) /\ t[Len(s)] = e
            /\ \A i \in 1 .. Len(s) - 1 : t[i] = s[i + 1]
PROOF
<1>1. Tail(s) \in Seq(S) /\ Len(Tail(s)) = Len(s) - 1 /\ Len(s) \in Nat \ {0}
  OBVIOUS
<1>2. \A i \in 1 .. Len(s) - 1 : Tail(s)[i] = s[i + 1]
  OBVIOUS
<1> QED
  BY <1>1, <1>2

(* Store.Add: what is in the store afterwards is the new finding, at the   *)
(* end, and findings that were there before.                               *)
LEMMA AddKeeps ==
  ASSUME TypeOK, StoreIsWindow, Ids, PipelineAssumption,
         NEW at \in 1 .. MaxTime, NEW file \in Names \cup {None}, Add(at, file)
  PROVE  LET f == [id |-> nextId, at |-> at, file |-> file]
         IN /\ findings' \in Seq(Findings) /\ Len(findings') <= Capacity
            /\ Len(findings') \in Nat \ {0}
            /\ findings'[Len(findings')] = f
            /\ \A i \in DOMAIN findings' : i # Len(findings') =>
                 \E j \in DOMAIN findings : findings'[i] = findings[j]
            /\ log' \in Seq(Findings) /\ log' = Append(log, f)
            /\ f \in Findings
            /\ nextId' = nextId + 1
PROOF
<1> DEFINE f == [id |-> nextId, at |-> at, file |-> file]
<1>1. f \in Findings
  BY DEF TypeOK, Findings
<1>2. findings \in Seq(Findings) /\ log \in Seq(Findings) /\ Capacity \in Nat \ {0}
      /\ Len(findings) <= Capacity
  BY DEF TypeOK, PipelineAssumption
<1>3. log' = Append(log, f) /\ log' \in Seq(Findings) /\ nextId' = nextId + 1
  BY <1>1, <1>2 DEF Add
<1>4. CASE AtCapacity
  <2>1. findings' = Append(Tail(findings), f)
    BY <1>4 DEF Add
  <2>2. Len(findings) = Capacity /\ findings # <<>>
    BY <1>2, <1>4 DEF AtCapacity
  <2>3. /\ findings' \in Seq(Findings) /\ Len(findings') = Capacity /\ findings'[Capacity] = f
        /\ \A i \in 1 .. Capacity - 1 : findings'[i] = findings[i + 1]
    BY <1>1, <1>2, <2>1, <2>2, Slide
  <2>4. \A i \in DOMAIN findings' : i # Capacity => i \in 1 .. Capacity - 1 /\ i + 1 \in DOMAIN findings
    BY <1>2, <2>2, <2>3
  <2>5. \A i \in DOMAIN findings' : i # Len(findings') =>
          \E j \in DOMAIN findings : findings'[i] = findings[j]
    BY <2>3, <2>4
  <2>6. Len(findings') \in Nat \ {0} /\ Len(findings') <= Capacity
    BY <1>2, <2>3
  <2> QED
    BY <1>1, <1>3, <2>3, <2>5, <2>6
<1>5. CASE ~AtCapacity
  <2>1. findings' = Append(findings, f)
    BY <1>5 DEF Add
  <2>2. Len(findings) < Capacity
    BY <1>2, <1>5 DEF AtCapacity
  <2>3. /\ findings' \in Seq(Findings) /\ Len(findings') = Len(findings) + 1 /\ findings'[Len(findings')] = f
        /\ \A i \in DOMAIN findings' : i # Len(findings') => i \in DOMAIN findings /\ findings'[i] = findings[i]
    BY <1>1, <1>2, <2>1
  <2>4. Len(findings') \in Nat \ {0} /\ Len(findings') <= Capacity
    BY <1>2, <2>2, <2>3
  <2> QED
    BY <1>1, <1>3, <2>3, <2>4
<1> QED
  BY <1>4, <1>5

(* ... and window, index and ids are what they should be.                  *)
LEMMA AddIndexes ==
  ASSUME TypeOK, StoreIsWindow, Ids, PipelineAssumption,
         NEW at \in 1 .. MaxTime, NEW file \in Names \cup {None}, Add(at, file)
  PROVE  /\ StoreIsWindow' /\ Ids'
         /\ DOMAIN byID' \subseteq Nat \ {0} /\ \A i \in DOMAIN byID' : byID'[i] \in 1 .. Capacity
PROOF
<1> DEFINE f == [id |-> nextId, at |-> at, file |-> file]
           L == Len(findings)
<1>1. f \in Findings /\ nextId \in Nat \ {0}
  BY DEF TypeOK, Findings
<1>2. findings \in Seq(Findings) /\ log \in Seq(Findings) /\ Capacity \in Nat \ {0}
      /\ L \in Nat /\ L <= Capacity /\ Len(log) \in Nat /\ DOMAIN findings = 1 .. L
  BY DEF TypeOK, PipelineAssumption
<1>3. log' = Append(log, f) /\ nextId' = nextId + 1
  BY DEF Add
<1>4. \A i \in 1 .. L : findings[i] \in Findings /\ findings[i].id \in Nat \ {0} /\ findings[i].id < nextId
  <2>1. \A i \in 1 .. L : findings[i] \in Findings
    BY <1>2
  <2> QED
    BY <1>2, <2>1 DEF Ids, Findings
<1>5. /\ \A i \in 1 .. L : findings[i] = log[Len(log) - L + i] /\ findings[i].id \in DOMAIN byID /\ byID[findings[i].id] = i
      /\ \A id \in DOMAIN byID : byID[id] \in 1 .. L /\ findings[byID[id]].id = id
      /\ L = IF Len(log) < Capacity THEN Len(log) ELSE Capacity
  BY <1>2 DEF StoreIsWindow
<1>6. nextId \notin DOMAIN byID
  BY <1>4, <1>5, <1>1
<1> f.id = nextId
  OBVIOUS
<1> HIDE DEF f, L
<1>7. CASE AtCapacity
  <2>1. findings' = Append(Tail(findings), f) /\ byID' = Indexed(Shifted, nextId, Len(Tail(findings)) + 1)
    BY <1>7 DEF Add, f
  <2>2. L = Capacity /\ findings # <<>> /\ Len(log) >= Capacity /\ Head(findings) = findings[1]
    BY <1>2, <1>5, <1>7 DEF AtCapacity, L
  <2>3. Len(Tail(findings)) = L - 1
    BY <1>2, <2>2 DEF L
  <2>4. /\ Len(findings') = Capacity /\ findings'[Capacity] = f
        /\ DOMAIN findings' = 1 .. Capacity
        /\ \A i \in 1 .. Capacity - 1 : findings'[i] = findings[i + 1]
    BY <1>1, <1>2, <2>1, <2>2, Slide DEF L
  <2>5. /\ Len(log') = Len(log) + 1 /\ log'[Len(log) + 1] = f
        /\ \A i \in 1 .. Len(log) : log'[i] = log[i]
    BY <1>1, <1>2, <1>3
  <2>6. /\ DOMAIN byID' = (DOMAIN byID \ {findings[1].id}) \cup {nextId}
        /\ byID'[nextId] = Capacity
        /\ \A id \in DOMAIN byID \ {findings[1].id} : byID'[id] = byID[id] - 1
    BY <1>2, <1>6, <2>1, <2>2, <2>3 DEF Indexed, Shifted
  <2>7. \A id \in DOMAIN byID \ {findings[1].id} : byID[id] \in 2 .. Capacity
    BY <1>5, <2>2, <1>2
  <2>8. \A i \in 1 .. Capacity :
          findings'[i] = log'[Len(log') - Capacity + i] /\ findings'[i].id \in DOMAIN byID' /\ byID'[findings'[i].id] = i
    <3> SUFFICES ASSUME NEW i \in 1 .. Capacity
                 PROVE  findings'[i] = log'[Len(log') - Capacity + i] /\ findings'[i].id \in DOMAIN byID' /\ byID'[findings'[i].id] = i
      OBVIOUS
    <3>1. CASE i = Capacity
      BY <3>1, <1>2, <2>4, <2>5, <2>6
    <3>2. CASE i # Capacity
      <4>1. i \in 1 .. Capacity - 1 /\ 1 \in 1 .. L
        BY <3>2, <1>2, <2>2
      <4>2. PICK k \in 1 .. L : k = i + 1
        BY <4>1, <1>2, <2>2
      <4>3. findings[k] = log[Len(log) - L + k] /\ findings[k].id \in DOMAIN byID /\ byID[findings[k].id] = k
        BY <1>5
      <4>4. byID[findings[1].id] = 1 /\ k # 1 /\ findings'[i] = findings[k]
        <5>1. byID[findings[1].id] = 1
          BY <4>1, <1>5
        <5>2. findings'[i] = findings[i + 1]
          BY <4>1, <2>4
        <5> QED
          BY <4>1, <4>2, <5>1, <5>2
      <4>5. Len(log') - Capacity + i = Len(log) - L + k /\ Len(log) - L + k \in 1 .. Len(log)
        BY <4>1, <4>2, <1>2, <2>2, <2>5
      <4>6. findings[k].id \in DOMAIN byID \ {findings[1].id} /\ byID'[findings[k].id] = i
        BY <4>1, <4>2, <4>3, <4>4, <2>6
      <4> QED
        BY <4>3, <4>4, <4>5, <4>6, <2>5, <2>6
    <3> QED
      BY <3>1, <3>2
  <2>9. \A id \in DOMAIN byID' : byID'[id] \in 1 .. Capacity /\ findings'[byID'[id]].id = id
    <3> SUFFICES ASSUME NEW id \in DOMAIN byID'
                 PROVE  byID'[id] \in 1 .. Capacity /\ findings'[byID'[id]].id = id
      OBVIOUS
    <3>1. CASE id = nextId
      BY <3>1, <1>2, <2>4, <2>6
    <3>2. CASE id # nextId
      <4>1. id \in DOMAIN byID \ {findings[1].id}
        BY <3>2, <2>6
      <4> QED
        BY <4>1, <1>2, <1>5, <2>2, <2>4, <2>6, <2>7
    <3> QED
      BY <3>1, <3>2
  <2>10. Ids'
    BY <1>1, <1>2, <1>3, <1>4, <2>2, <2>4 DEF Ids
  <2>11. DOMAIN byID' \subseteq Nat \ {0}
    BY <1>1, <2>6 DEF TypeOK
  <2>12. StoreIsWindow'
    <3>1. Len(findings') = IF Len(log') < Capacity THEN Len(log') ELSE Capacity
      BY <1>2, <2>2, <2>4, <2>5
    <3> QED
      BY <3>1, <2>4, <2>8, <2>9 DEF StoreIsWindow
  <2> QED
    BY <2>9, <2>10, <2>11, <2>12
<1>8. CASE ~AtCapacity
  <2>1. findings' = Append(findings, f) /\ byID' = Indexed(byID, nextId, L + 1)
    BY <1>8 DEF Add, f, L
  <2>2. L < Capacity /\ L = Len(log)
    BY <1>2, <1>5, <1>8 DEF AtCapacity, L
  <2>3. /\ Len(findings') = L + 1 /\ findings'[L + 1] = f /\ DOMAIN findings' = 1 .. L + 1
        /\ \A i \in 1 .. L : findings'[i] = findings[i]
    BY <1>1, <1>2, <2>1 DEF L
  <2>4. /\ Len(log') = L + 1 /\ log'[L + 1] = f
        /\ \A i \in 1 .. L : log'[i] = log[i]
    BY <1>1, <1>2, <1>3, <2>2
  <2>5. /\ DOMAIN byID' = DOMAIN byID \cup {nextId} /\ byID'[nextId] = L + 1
        /\ \A id \in DOMAIN byID : byID'[id] = byID[id]
    BY <1>6, <2>1 DEF Indexed
  <2>6. \A i \in 1 .. L + 1 :
          findings'[i] = log'[i] /\ findings'[i].id \in DOMAIN byID' /\ byID'[findings'[i].id] = i
    <3> SUFFICES ASSUME NEW i \in 1 .. L + 1
                 PROVE  findings'[i] = log'[i] /\ findings'[i].id \in DOMAIN byID' /\ byID'[findings'[i].id] = i
      OBVIOUS
    <3>1. CASE i = L + 1
      BY <3>1, <2>3, <2>4, <2>5
    <3>2. CASE i # L + 1
      <4>1. i \in 1 .. L /\ Len(log) - L + i = i
        BY <3>2, <1>2, <2>2
      <4>2. findings[i] = log[Len(log) - L + i] /\ findings[i].id \in DOMAIN byID /\ byID[findings[i].id] = i
        BY <4>1, <1>5
      <4> QED
        BY <4>1, <4>2, <2>3, <2>4, <2>5
    <3> QED
      BY <3>1, <3>2
  <2>7. \A id \in DOMAIN byID' : byID'[id] \in 1 .. L + 1 /\ findings'[byID'[id]].id = id
    BY <1>2, <1>5, <2>3, <2>5
  <2>8. Ids'
    BY <1>1, <1>2, <1>3, <1>4, <2>3 DEF Ids
  <2>9. DOMAIN byID' \subseteq Nat \ {0} /\ \A id \in DOMAIN byID' : byID'[id] \in 1 .. Capacity
    BY <1>1, <1>2, <2>2, <2>5, <2>7 DEF TypeOK
  <2>10. StoreIsWindow'
    <3>1. Len(log') - Len(findings') = 0 /\ Len(findings') = IF Len(log') < Capacity THEN Len(log') ELSE Capacity
      BY <1>2, <2>2, <2>3, <2>4
    <3>2. \A i \in 1 .. L + 1 : 0 + i = i
      BY <1>2
    <3> QED
      BY <3>1, <3>2, <2>3, <2>6, <2>7 DEF StoreIsWindow
  <2> QED
    BY <2>8, <2>9, <2>10
<1> QED
  BY <1>7, <1>8

-----------------------------------------------------------------------------
(* What leaves store and client alone leaves what is known of them alone.  *)
LEMMA StoreUntouched ==
  ASSUME StoreIsWindow, Ids, Reader, UNCHANGED <<store, client>>
  PROVE  StoreIsWindow' /\ Ids' /\ Reader'
PROOF
  BY DEF store, client, StoreIsWindow, Ids, Reader, Older, NothingTwice, Seen

(* The directory only grows under the sidecar's hands.                     *)
LEMMA ReadingUntouched ==
  ASSUME Reading, UNCHANGED <<seen, todo, log>>, mirror \subseteq mirror',
         torn \cup mirror \subseteq torn' \cup mirror'
  PROVE  Reading'
PROOF
  BY DEF Reading, IngestedOnce

(* RecordDivergence, step by step.                                         *)
LEMMA RecordingStep ==
  ASSUME IndInv, PipelineAssumption, NEW w \in Recorders, Record(w) \/ Write(w)
  PROVE  IndInv'
PROOF
<1> USE DEF IndInv
<1>1. UNCHANGED <<now, watcher, store, client, raised, restarts>>
  BY DEF Record, Write, WriteBase, OpenMirror, WriteMirror, disk
<1>2. StoreIsWindow' /\ Ids' /\ Reader'
  BY <1>1, StoreUntouched
<1>3. CASE Record(w)
  <2>1. <<now, counter + 1>> \in Names /\ counter + 1 \in 0 .. MaxRecords /\ now \in Nat /\ counter \in Nat
    BY <1>3, PipelineAssumption DEF Record, TypeOK, Names
  <2>2. TypeOK'
    BY <1>1, <1>3, <2>1 DEF Record, TypeOK, disk, watcher, store, client
  <2>3. \A n \in Names : Issued(n, now, counter) => n # <<now, counter + 1>> /\ Issued(n, now', counter')
    BY <1>1, <1>3, <2>1 DEF Issued, Record, Names
  <2>4. Issued(<<now, counter + 1>>, now', counter')
    BY <1>1, <1>3, <2>1 DEF Issued, Record, Names
  <2>5. Files'
    BY <1>3, <2>1, <2>3, <2>4 DEF Files, Record, disk, TypeOK
  <2>6. Reading'
    BY <1>1, <1>3, ReadingUntouched DEF Record, disk, watcher, store
  <2> QED
    BY <1>2, <2>2, <2>5, <2>6
<1> DEFINE f == job[w].file
<1>7. ASSUME Write(w)
      PROVE  /\ UNCHANGED <<now, counter>> /\ job[w].pc # "idle" /\ f \in Names
             /\ f \in corpus \/ job[w].pc = "base"
             /\ f \notin torn \cup mirror \/ job[w].pc = "copy"
  BY <1>7 DEF Write, WriteBase, OpenMirror, WriteMirror, Files, TypeOK
<1>8. ASSUME NEW pc \in {"mirror", "copy"}, Go(w, pc)
      PROVE  /\ job'[w] = [pc |-> pc, file |-> f]
             /\ \A v \in Recorders \ {w} : job'[v] = job[v]
             /\ DOMAIN job' = Recorders /\ job' = [v \in Recorders |-> job'[v]]
  BY <1>8 DEF Go, TypeOK
<1>9. ASSUME Rest(w)
      PROVE  /\ job'[w] = [pc |-> "idle", file |-> None]
             /\ \A v \in Recorders \ {w} : job'[v] = job[v]
             /\ DOMAIN job' = Recorders /\ job' = [v \in Recorders |-> job'[v]]
  BY <1>9 DEF Rest, TypeOK
<1> DEFINE Job == [pc : {"idle", "base", "mirror", "copy"}, file : Names \cup {None}]
<1>10. job \in [Recorders -> Job]
  BY DEF TypeOK
<1>11. ASSUME Write(w) PROVE job' \in [Recorders -> Job]
  <2>1. (\E pc \in {"mirror", "copy"} : Go(w, pc)) \/ Rest(w)
    BY <1>11 DEF Write, WriteBase, OpenMirror, WriteMirror
  <2>2. \A v \in Recorders : job[v] \in Job
    BY <1>10
  <2>3. \A v \in Recorders : job'[v] \in Job
    BY <1>7, <1>8, <1>9, <1>11, <2>1, <2>2
  <2> QED
    BY <1>8, <1>9, <2>1, <2>3
<1>4. CASE WriteBase(w)
  <2>1. TypeOK'
    BY <1>1, <1>7, <1>11, <1>4 DEF Write, WriteBase, TypeOK, disk, watcher, store, client
  <2>2. Files'
    BY <1>7, <1>8, <1>9, <1>4 DEF Write, WriteBase, Files, disk
  <2>3. Reading'
    BY <1>1, <1>4, ReadingUntouched DEF WriteBase, disk, watcher, store
  <2> QED
    BY <1>2, <2>1, <2>2, <2>3
<1>5. CASE OpenMirror(w)
  <2>1. TypeOK'
    BY <1>1, <1>7, <1>11, <1>5 DEF Write, OpenMirror, TypeOK, watcher, store, client
  <2>2. Files'
    BY <1>7, <1>8, <1>9, <1>5 DEF Write, OpenMirror, Files
  <2>3. Reading'
    BY <1>1, <1>5, ReadingUntouched DEF OpenMirror, watcher, store
  <2> QED
    BY <1>2, <2>1, <2>2, <2>3
<1>6. CASE WriteMirror(w)
  <2>1. TypeOK'
    BY <1>1, <1>7, <1>11, <1>6 DEF Write, WriteMirror, TypeOK, disk, watcher, store, client
  <2>2. Files'
    BY <1>7, <1>8, <1>9, <1>6 DEF Write, WriteMirror, Files, disk
  <2>3. Reading'
    BY <1>1, <1>6, ReadingUntouched DEF WriteMirror, disk, watcher, store
  <2> QED
    BY <1>2, <2>1, <2>2, <2>3
<1> QED
  BY <1>3, <1>4, <1>5, <1>6 DEF Write

(* The clock, and the sidecar's restart: what was issued is in the past.   *)
LEMMA TimeStep ==
  ASSUME IndInv, PipelineAssumption, Tick \/ RestartSidecar
  PROVE  IndInv'
PROOF
<1> USE DEF IndInv
<1>1. UNCHANGED <<corpus, disk, watcher, store, client, raised, restarts>>
      /\ now' = now + 1 /\ now < MaxTime
  BY DEF Tick, RestartSidecar
<1>2. StoreIsWindow' /\ Ids' /\ Reader'
  BY <1>1, StoreUntouched
<1>3. now \in Nat /\ counter \in Nat /\ Names = (1 .. MaxTime) \X (1 .. MaxRecords)
  BY DEF TypeOK, Names
<1>4. \A n \in Names : Issued(n, now, counter) => Issued(n, now', counter')
  BY <1>1, <1>3 DEF Issued
<1>5. TypeOK'
  BY <1>1, <1>3, PipelineAssumption
     DEF Tick, RestartSidecar, TypeOK, disk, watcher, store, client
<1>6. Files'
  BY <1>1, <1>4 DEF Tick, RestartSidecar, Files, TypeOK, disk
<1>7. Reading'
  BY <1>1, ReadingUntouched DEF disk, watcher, store
<1> QED
  BY <1>2, <1>5, <1>6, <1>7

-----------------------------------------------------------------------------
(* A finding more does not change what the client knows: it is newer than  *)
(* the cursor, or it comes late.                                           *)
LEMMA AddReader ==
  ASSUME TypeOK, StoreIsWindow, Ids, Reader, PipelineAssumption, UNCHANGED client,
         NEW at \in 1 .. MaxTime, NEW file \in Names \cup {None}, Add(at, file)
  PROVE  Reader'
PROOF
<1> DEFINE f == [id |-> nextId, at |-> at, file |-> file]
<1>1. /\ nextId' = nextId + 1 /\ nextId \in Nat /\ cursor \in Nat
      /\ findings' \in Seq(Findings) /\ f \in Findings
      /\ \A i \in DOMAIN findings' : findings'[i] = f \/ \E j \in DOMAIN findings : findings'[i] = findings[j]
  BY AddKeeps DEF TypeOK
<1>2. UNCHANGED <<cursor, got, again, lost, cut>>
  BY DEF client
<1>3. /\ cursor' < nextId' /\ (cursor' = 0 => got' = {}) /\ NothingTwice'
      /\ \A d \in got' : d.id < nextId'
  BY <1>1, <1>2 DEF Reader, TypeOK, NothingTwice
<1>4. ASSUME NEW c \in DOMAIN findings', findings'[c].id = cursor
      PROVE  /\ Seen(findings'[c]) \in got
             /\ ~lost => \A d \in got : d.at <= findings'[c].at
             /\ ~cut => \A i \in DOMAIN findings' :
                  findings'[i].at <= findings'[c].at /\ Seen(findings'[i]) \notin got
                    => \E d \in got : d.id < findings'[i].id /\ d.at >= findings'[i].at
  <2>1. PICK j \in DOMAIN findings : findings'[c] = findings[j]
    BY <1>1, <1>4 DEF Reader
  <2>2. findings[j].id = cursor
    BY <1>4, <2>1
  <2>3. Seen(findings[j]) \in got /\ (~lost => \A d \in got : d.at <= findings[j].at)
    BY <2>2 DEF Reader, Older
  <2>4. ASSUME ~cut, NEW i \in DOMAIN findings',
               findings'[i].at <= findings[j].at, Seen(findings'[i]) \notin got
        PROVE  \E d \in got : d.id < findings'[i].id /\ d.at >= findings'[i].at
    <3>1. CASE findings'[i] = f
      <4>1. findings[j].at \in Nat /\ at \in Nat
        <5>1. findings[j] \in Findings
          BY DEF TypeOK
        <5> QED
          BY <5>1, PipelineAssumption DEF Findings
      <4>2. Seen(findings[j]).id = cursor /\ Seen(findings[j]).at = findings[j].at
        BY <2>2 DEF Seen
      <4> QED
        BY <3>1, <2>3, <2>4, <4>1, <4>2, <1>1 DEF Reader
    <3>2. CASE \E k \in DOMAIN findings : findings'[i] = findings[k]
      BY <3>2, <2>2, <2>4 DEF Reader, Older
    <3> QED
      BY <1>1, <3>1, <3>2
  <2> QED
    BY <2>1, <2>3, <2>4
<1>5. Older'
  BY <1>2, <1>4 DEF Older, Seen
<1> QED
  BY <1>3, <1>5 DEF Reader

(* The watcher, and the restart of its process.                            *)
LEMMA WatcherStep ==
  ASSUME IndInv, PipelineAssumption, Scan \/ Ingest \/ RestartControl
  PROVE  IndInv'
PROOF
<1> USE DEF IndInv
<1>1. UNCHANGED <<sidecar, disk, client, raised>>
  BY DEF Scan, Ingest, RestartControl
<1>2. Files'
  BY <1>1 DEF Files, sidecar, disk
<1>3. CASE Scan
  <2>1. StoreIsWindow' /\ Ids' /\ Reader'
    BY <1>1, <1>3, StoreUntouched DEF Scan
  <2>2. TypeOK'
    BY <1>1, <1>3 DEF Scan, TypeOK, sidecar, disk, store, client
  <2>3. Reading'
    BY <1>3 DEF Scan, Reading, IngestedOnce, disk, store
  <2> QED
    BY <1>2, <2>1, <2>2, <2>3
<1>4. CASE RestartControl
  <2>1. TypeOK'
    BY <1>1, <1>4, PipelineAssumption
       DEF RestartControl, TypeOK, NoIndex, sidecar, disk, client
  <2>2. StoreIsWindow' /\ Ids'
    BY <1>4, PipelineAssumption DEF RestartControl, StoreIsWindow, Ids, NoIndex
  <2>3. Reader'
    BY <1>1, <1>4 DEF RestartControl, Reader, Older, NothingTwice, client
  <2>4. Reading'
    BY <1>4 DEF RestartControl, Reading, IngestedOnce
  <2> QED
    BY <1>2, <2>1, <2>2, <2>3, <2>4
<1>5. CASE Ingest
  <2>1. PICK n \in todo :
          /\ todo' = todo \ {n} /\ seen' = seen \cup {n}
          /\ \/ n \in mirror /\ Add(n[1], n) /\ UNCHANGED misread
             \/ n \in torn /\ misread' = misread \cup {n} /\ UNCHANGED store
          /\ UNCHANGED <<sidecar, disk, client, raised, restarts>>
    BY <1>5 DEF Ingest
  <2>2. n \in Names /\ n[1] \in 1 .. MaxTime /\ n # None
    BY DEF TypeOK, Names, None
  <2>3. CASE n \in torn /\ misread' = misread \cup {n} /\ UNCHANGED store
    <3>1. StoreIsWindow' /\ Ids' /\ Reader'
      BY <1>1, <2>3, StoreUntouched
    <3>2. TypeOK'
      BY <2>1, <2>2, <2>3 DEF TypeOK, sidecar, disk, store, client
    <3>3. Reading'
      BY <2>1, <2>3 DEF Reading, IngestedOnce, disk, store
    <3> QED
      BY <1>2, <3>1, <3>2, <3>3
  <2>4. CASE n \in mirror /\ Add(n[1], n) /\ UNCHANGED misread
    <3>1. Reader'
      BY <1>1, <2>2, <2>4, AddReader
    <3>2. /\ StoreIsWindow' /\ Ids'
          /\ DOMAIN byID' \subseteq Nat \ {0} /\ \A i \in DOMAIN byID' : byID'[i] \in 1 .. Capacity
      BY <2>2, <2>4, AddIndexes
    <3>3. /\ findings' \in Seq(Findings) /\ Len(findings') <= Capacity
          /\ log' \in Seq(Findings) /\ nextId' = nextId + 1
          /\ log' = Append(log, [id |-> nextId, at |-> n[1], file |-> n])
      BY <2>2, <2>4, AddKeeps
    <3>4. TypeOK'
      BY <2>1, <2>2, <2>4, <3>2, <3>3 DEF TypeOK, sidecar, disk, client
    <3>5. Reading'
      <4>1. \A i \in DOMAIN log' : (i \in DOMAIN log /\ log'[i] = log[i]) \/ (i = Len(log) + 1 /\ log'[i].file = n)
        BY <3>3 DEF TypeOK
      <4>2. n \notin seen
        BY DEF Reading
      <4>3. \A i \in DOMAIN log : log[i].file # n
        BY <2>2, <4>2 DEF Reading
      <4> QED
        BY <2>1, <2>4, <4>1, <4>3 DEF Reading, IngestedOnce, disk
    <3> QED
      BY <1>2, <3>1, <3>2, <3>4, <3>5
  <2> QED
    BY <2>1, <2>3, <2>4
<1> QED
  BY <1>3, <1>4, <1>5

(* A finding of an oracle has no file.                                     *)
LEMMA RaiseStep ==
  ASSUME IndInv, PipelineAssumption, Raise
  PROVE  IndInv'
PROOF
<1> USE DEF IndInv
<1>1. UNCHANGED <<sidecar, disk, watcher, client, restarts>> /\ Add(now, None)
      /\ raised' = raised + 1 /\ raised < MaxRaised /\ now \in 1 .. MaxTime
  BY DEF Raise, TypeOK
<1>2. Reader'
  BY <1>1, AddReader
<1>3. /\ StoreIsWindow' /\ Ids'
      /\ DOMAIN byID' \subseteq Nat \ {0} /\ \A i \in DOMAIN byID' : byID'[i] \in 1 .. Capacity
  BY <1>1, AddIndexes
<1>4. /\ findings' \in Seq(Findings) /\ Len(findings') <= Capacity
      /\ log' \in Seq(Findings) /\ nextId' = nextId + 1
      /\ log' = Append(log, [id |-> nextId, at |-> now, file |-> None])
  BY <1>1, AddKeeps
<1>5. TypeOK'
  BY <1>1, <1>3, <1>4, PipelineAssumption DEF TypeOK, sidecar, disk, watcher, client
<1>6. Files'
  BY <1>1 DEF Files, sidecar, disk
<1>7. Reading'
  <2>1. \A i \in DOMAIN log' : (i \in DOMAIN log /\ log'[i] = log[i]) \/ log'[i].file = None
    BY <1>4 DEF TypeOK
  <2> QED
    BY <1>1, <2>1 DEF Reading, IngestedOnce, disk, watcher
<1> QED
  BY <1>2, <1>3, <1>5, <1>6, <1>7

(* An answer holds only what is newer than the cursor, if that is in the   *)
(* store; what it leaves out, if it is not cut, is no newer.               *)
LEMMA PollStep ==
  ASSUME IndInv, PipelineAssumption, Poll
  PROVE  IndInv'
PROOF
<1> USE DEF IndInv
<1> DEFINE answer == List(cursor, Limit)
           new    == {Seen(findings[i]) : i \in answer}
<1>1. UNCHANGED <<sidecar, disk, watcher, store, raised, restarts>>
  BY DEF Poll
<1>2. /\ got' = got \cup new
      /\ again' = (again \/ (got \cap new # {}))
      /\ lost' = (lost \/ (cursor # 0 /\ cursor \notin DOMAIN byID))
      /\ cut' = (cut \/ (answer # After(cursor)))
  BY DEF Poll
<1>3. PICK top \in answer : First(top, answer) /\ cursor' = findings[top].id
  BY DEF Poll
<1>4. answer \subseteq After(cursor) /\ After(cursor) \subseteq DOMAIN findings
  BY DEF List, After
<1>5. \A i \in DOMAIN findings : findings[i] \in Findings
  BY DEF TypeOK
<1>6. \A i \in DOMAIN findings : /\ findings[i].id \in Nat \ {0} /\ findings[i].id < nextId
                                 /\ findings[i].at \in 1 .. MaxTime /\ findings[i].at \in Nat
                                 /\ Seen(findings[i]).id = findings[i].id /\ Seen(findings[i]).at = findings[i].at
  BY <1>5, PipelineAssumption DEF Ids, Findings, Seen
<1>7. \A i, j \in DOMAIN findings : findings[i].id = findings[j].id => i = j
  BY DEF StoreIsWindow
<1>8. \A id \in DOMAIN byID : byID[id] \in DOMAIN findings /\ findings[byID[id]].id = id
  BY DEF StoreIsWindow
<1>9. UNCHANGED <<findings, byID, nextId, log>>
  BY <1>1 DEF store
<1>10. \A d \in got : d.at \in Nat /\ d.id \in Nat /\ d.id < nextId
  BY PipelineAssumption DEF TypeOK, Reader
<1>11. \A d \in new : \E i \in answer : d = Seen(findings[i]) /\ d.at = findings[i].at /\ d.id = findings[i].id
  BY <1>4, <1>6
<1>12. \A i \in answer : findings[i].at <= findings[top].at
  BY <1>3, <1>4, <1>6 DEF First
<1> HIDE DEF answer, new
<1>13. TypeOK'
  <2>1. new \subseteq [id : Nat \ {0}, at : 1 .. MaxTime]
    BY <1>4, <1>6 DEF new, Seen
  <2>2. got' \subseteq [id : Nat \ {0}, at : 1 .. MaxTime] /\ cursor' \in Nat
    BY <2>1, <1>2, <1>3, <1>4, <1>6 DEF TypeOK
  <2>3. again' \in BOOLEAN /\ lost' \in BOOLEAN /\ cut' \in BOOLEAN
    BY <1>2
  <2> QED
    BY <1>1, <1>9, <2>2, <2>3 DEF TypeOK, sidecar, disk, watcher
<1>14. Files' /\ Reading' /\ StoreIsWindow' /\ Ids'
  BY <1>1, <1>9 DEF Files, Reading, IngestedOnce, StoreIsWindow, Ids, sidecar, disk, watcher
<1>15. ASSUME ~lost'
       PROVE  \A d \in got : \A i \in answer : d.at < findings[i].at
  <2>1. ~lost /\ (cursor = 0 \/ cursor \in DOMAIN byID)
    BY <1>2, <1>15
  <2>2. CASE cursor = 0
    BY <2>2 DEF Reader
  <2>3. CASE cursor \in DOMAIN byID
    <3>1. byID[cursor] \in DOMAIN findings /\ findings[byID[cursor]].id = cursor
      BY <2>3, <1>8
    <3>2. \A d \in got : d.at <= findings[byID[cursor]].at
      BY <2>1, <3>1 DEF Reader, Older
    <3>3. \A i \in answer : findings[i].at > findings[byID[cursor]].at
      BY <2>3, <1>4 DEF After
    <3> QED
      BY <3>1, <3>2, <3>3, <1>4, <1>6, <1>10
  <2> QED
    BY <2>1, <2>2, <2>3
<1>16. NothingTwice'
  <2>1. ASSUME ~lost' PROVE ~again'
    <3>1. got \cap new = {}
      <4> SUFFICES ASSUME NEW d \in got, d \in new PROVE FALSE
        OBVIOUS
      <4>1. PICK i \in answer : d.at = findings[i].at
        BY <1>11
      <4> QED
        BY <2>1, <4>1, <1>10, <1>15
    <3>2. ~again
      BY <2>1, <1>2 DEF Reader, NothingTwice
    <3> QED
      BY <3>1, <3>2, <1>2
  <2> QED
    BY <2>1 DEF NothingTwice
<1>17. Older'
  <2>1. top \in DOMAIN findings /\ top \in After(cursor)
    BY <1>3, <1>4
  <2>2. Seen(findings[top]) \in got'
    BY <1>2, <1>3 DEF new
  <2>3. ~lost' => \A d \in got' : d.at <= findings[top].at
    BY <1>2, <1>3, <1>4, <1>6, <1>10, <1>11, <1>12, <1>15
  <2>4. ASSUME ~cut', NEW i \in DOMAIN findings,
               findings[i].at <= findings[top].at, Seen(findings[i]) \notin got'
        PROVE  \E d \in got' : d.id < findings[i].id /\ d.at >= findings[i].at
    <3>1. ~cut /\ i \notin After(cursor)
      BY <2>4, <1>2 DEF new
    <3>2. cursor \in DOMAIN byID /\ ~(findings[i].at > findings[byID[cursor]].at)
      BY <3>1 DEF After
    <3>3. byID[cursor] \in DOMAIN findings /\ findings[byID[cursor]].id = cursor
          /\ findings[i].at <= findings[byID[cursor]].at
      BY <3>2, <1>6, <1>8
    <3>4. Seen(findings[i]) \notin got
      BY <2>4, <1>2
    <3> QED
      BY <3>1, <3>3, <3>4, <1>2 DEF Reader, Older
  <2>5. ASSUME NEW c \in DOMAIN findings, findings[c].id = cursor' PROVE c = top
    BY <2>1, <2>5, <1>3, <1>7
  <2> QED
    BY <1>9, <2>2, <2>3, <2>4, <2>5 DEF Older, Seen
<1>18. Reader'
  <2>1. cursor' < nextId' /\ cursor' # 0
    BY <1>3, <1>4, <1>6, <1>9
  <2>2. \A d \in got' : d.id < nextId'
    BY <1>2, <1>4, <1>6, <1>9, <1>10, <1>11
  <2> QED
    BY <2>1, <2>2, <1>16, <1>17 DEF Reader
<1> QED
  BY <1>13, <1>14, <1>18

-----------------------------------------------------------------------------
(* The invariant holds at the start and is kept by every step.             *)
THEOREM Inductive == Spec => []IndInv
PROOF
<1>1. Init => IndInv
  <2> SUFFICES ASSUME Init PROVE IndInv
    OBVIOUS
  <2>1. TypeOK
    <3>1. /\ findings \in Seq(Findings) /\ Len(findings) <= Capacity /\ log \in Seq(Findings)
          /\ DOMAIN byID = {}
      BY PipelineAssumption DEF Init, NoIndex
    <3>2. job \in [Recorders -> [pc : {"idle", "base", "mirror", "copy"}, file : Names \cup {None}]]
      BY DEF Init
    <3>3. now \in 1 .. MaxTime /\ counter \in 0 .. MaxRecords /\ nextId \in Nat \ {0} /\ cursor \in Nat
          /\ raised \in 0 .. MaxRaised /\ restarts \in 0 .. MaxRestarts
      BY PipelineAssumption DEF Init
    <3>4. /\ corpus = {} /\ torn = {} /\ mirror = {} /\ seen = {} /\ todo = {} /\ misread = {} /\ got = {}
          /\ again \in BOOLEAN /\ lost \in BOOLEAN /\ cut \in BOOLEAN
      BY DEF Init
    <3> QED
      BY <3>1, <3>2, <3>3, <3>4 DEF TypeOK
  <2>2. Files /\ Reading /\ StoreIsWindow /\ Ids /\ Reader
    BY PipelineAssumption
       DEF Init, Files, Reading, IngestedOnce, StoreIsWindow, Ids, Reader, Older, NothingTwice, NoIndex
  <2> QED
    BY <2>1, <2>2 DEF IndInv
<1>2. IndInv /\ [Next]_vars => IndInv'
  <2> SUFFICES ASSUME IndInv, [Next]_vars PROVE IndInv'
    OBVIOUS
  <2>1. CASE \E w \in Recorders : Record(w) \/ Write(w)
    BY <2>1, RecordingStep, PipelineAssumption
  <2>2. CASE Tick \/ RestartSidecar
    BY <2>2, TimeStep, PipelineAssumption
  <2>3. CASE Scan \/ Ingest \/ RestartControl
    BY <2>3, WatcherStep, PipelineAssumption
  <2>4. CASE Raise
    BY <2>4, RaiseStep, PipelineAssumption
  <2>5. CASE Poll
    BY <2>5, PollStep, PipelineAssumption
  <2>6. CASE UNCHANGED vars
    <3>1. UNCHANGED <<sidecar, disk, watcher, store, client, raised, restarts>>
      BY <2>6 DEF vars
    <3>2. StoreIsWindow' /\ Ids' /\ Reader'
      BY <3>1, StoreUntouched DEF IndInv
    <3> QED
      BY <3>1, <3>2
         DEF IndInv, TypeOK, Files, Reading, IngestedOnce, sidecar, disk, watcher, store, client
  <2> QED
    BY <2>1, <2>2, <2>3, <2>4, <2>5, <2>6 DEF Next
<1> QED
  BY <1>1, <1>2, PTL DEF Spec

(* Every variable keeps its type, and the store its capacity.              *)
THEOREM TypeCorrect == Spec => []TypeOK
PROOF
  BY Inductive, PTL DEF IndInv

(* What is shown to the control service is in the corpus, whatever write   *)
(* fails and whoever is killed.                                            *)
THEOREM NothingIsInvented == Spec => []ShownIsKept
PROOF
<1>1. IndInv => ShownIsKept
  BY DEF IndInv, Files, Reading, ShownIsKept
<1> QED
  BY <1>1, Inductive, PTL

(* No file becomes two findings of one life of the control service.        *)
THEOREM NothingIsIngestedTwice == Spec => []IngestedOnce
PROOF
<1>1. IndInv => IngestedOnce
  BY DEF IndInv, Reading
<1> QED
  BY <1>1, Inductive, PTL

(* The ring holds the latest findings, and its index is exact.             *)
THEOREM StoreIsExact == Spec => []StoreIsWindow
PROOF
  BY Inductive, PTL DEF IndInv

(* A client whose cursor never left the store gets nothing twice.          *)
THEOREM ReadingOnRepeatsNothing == Spec => []NothingTwice
PROOF
<1>1. IndInv => NothingTwice
  BY DEF IndInv, Reader
<1> QED
  BY <1>1, Inductive, PTL

(* What uncut answers skip was added late.                                 *)
THEOREM ReadingOnSkipsTheLate == Spec => []SkipsOnlyLate
PROOF
<1>1. IndInv => SkipsOnlyLate
  <2> SUFFICES ASSUME IndInv, ~cut, NEW i \in DOMAIN findings, Seen(findings[i]) \notin got,
                      cursor \in DOMAIN byID, i \notin After(cursor)
               PROVE  \E d \in got : d.id < findings[i].id /\ d.at >= findings[i].at
    BY DEF SkipsOnlyLate
  <2>1. byID[cursor] \in DOMAIN findings /\ findings[byID[cursor]].id = cursor
    BY DEF IndInv, StoreIsWindow
  <2>2. ~(findings[i].at > findings[byID[cursor]].at)
    BY DEF After
  <2>3. findings[i] \in Findings /\ findings[byID[cursor]] \in Findings
    BY <2>1 DEF IndInv, TypeOK
  <2>4. findings[i].at <= findings[byID[cursor]].at
    BY <2>2, <2>3, PipelineAssumption DEF Findings
  <2> QED
    BY <2>1, <2>4 DEF IndInv, Reader, Older
<1> QED
  BY <1>1, Inductive, PTL
==============================================================================
