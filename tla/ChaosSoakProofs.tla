-------------------------- MODULE ChaosSoakProofs --------------------------
(***************************************************************************)
(* Proofs about ChaosSoak for every schedule, period and set of            *)
(* containers.                                                             *)
(***************************************************************************)
EXTENDS ChaosSoak, FiniteSetTheorems, TLAPS

-----------------------------------------------------------------------------
(* Lemmas about data.                                                      *)

(* A multiple of the period leads from one tick to another.                *)
LEMMA TickPlusMultiple ==
  ASSUME NEW P \in Nat \ {0}, NEW a \in Nat, NEW b \in Nat,
         a % P = P - 1, b % P = 0
  PROVE  (a + b) % P = P - 1
<1>1. a = P * (a \div P) + (a % P)
  OBVIOUS
<1>2. b = P * (b \div P)
  OBVIOUS
<1>3. a \div P \in Int /\ b \div P \in Int
  OBVIOUS
<1>4. PICK q \in Int : q = (a \div P) + (b \div P)
  BY <1>3
<1>5. P * q = P * (a \div P) + P * (b \div P)
  BY <1>3, <1>4
<1>6. a + b = P * q + (P - 1)
  BY <1>1, <1>2, <1>5
<1>7. ASSUME NEW z \in Int PROVE (P * z + (P - 1)) % P = P - 1
  OBVIOUS
<1> QED BY <1>4, <1>6, <1>7

LEMMA CountOne ==
  ASSUME NEW S, NEW f \in [S -> Nat], NEW x
  PROVE  [f EXCEPT ![x] = @ + 1] \in [S -> Nat]
<1>1. CASE x \in S
  BY <1>1
<1>2. CASE x \notin S
  BY <1>2
<1> QED BY <1>1, <1>2

LEMMA EntryType ==
  ASSUME NEW e \in Entries
  PROVE  /\ Schedule[e].trigger \in Nat /\ Schedule[e].recoverAfter \in Nat
         /\ Schedule[e].target \in Containers /\ Schedule[e].kind \in Kinds
         /\ e \in Nat /\ e \in 1..Len(Schedule) /\ Len(Schedule) \in Nat
<1> DEFINE Entry == [trigger : Nat, target : Containers, kind : Kinds, recoverAfter : Nat]
<1>1. Schedule \in Seq(Entry)
  BY ScheduleAssumption
<1> HIDE DEF Entry
<1>2. Len(Schedule) \in Nat /\ DOMAIN Schedule = 1..Len(Schedule)
  BY <1>1
<1>3. e \in 1..Len(Schedule)
  BY <1>2 DEF Entries
<1>4. Schedule[e] \in Entry
  BY <1>1, <1>2, <1>3
<1> QED BY <1>2, <1>3, <1>4 DEF Entry

StatsType == [applied : Nat, recovered : Nat, errored : Nat]
AuditType == [entry : Entries, phase : {"apply", "recover"}, error : BOOLEAN]

LEMMA StatsCount ==
  ASSUME NEW s \in StatsType
  PROVE  /\ [s EXCEPT !.applied = @ + 1] \in StatsType
         /\ [s EXCEPT !.recovered = @ + 1] \in StatsType
         /\ [s EXCEPT !.errored = @ + 1] \in StatsType
<1>1. [s EXCEPT !.applied = @ + 1] \in StatsType
  BY DEF StatsType
<1>2. [s EXCEPT !.recovered = @ + 1] \in StatsType
  BY DEF StatsType
<1>3. [s EXCEPT !.errored = @ + 1] \in StatsType
  BY DEF StatsType
<1> QED BY <1>1, <1>2, <1>3

LEMMA AuditAdd ==
  ASSUME NEW A \in SUBSET AuditType, NEW e \in Entries, NEW phase \in {"apply", "recover"},
         NEW error \in BOOLEAN
  PROVE  A \union {[entry |-> e, phase |-> phase, error |-> error]} \subseteq AuditType
<1>1. [entry |-> e, phase |-> phase, error |-> error] \in AuditType
  BY DEF AuditType
<1> QED BY <1>1

-----------------------------------------------------------------------------
(* Type correctness.                                                       *)

DockerType ==
  /\ state \in [Containers -> {"running", "stopped", "crashed"}]
  /\ code \in [Containers -> ExitCodes]
  /\ exits \in [Containers -> 0..MaxExits]
  /\ slow \in [Containers -> BOOLEAN]
  /\ rules \in [Containers -> Nat]

LEMMA ExitType ==
  ASSUME TypeOK, NEW c \in Containers, NEW k \in ExitCodes, NEW how \in {"stopped", "crashed"},
         exits[c] < MaxExits, Exit(c, how, k)
  PROVE  DockerType'
BY BoundAssumption DEF TypeOK, DockerType, Exit

LEMMA ApplyType ==
  ASSUME TypeOK, NEW e \in Entries, Apply(e)
  PROVE  DockerType'
<1> DEFINE c == Schedule[e].target
<1>1. c \in Containers
  BY EntryType
<1>2. CASE Schedule[e].kind = "restart"
  <2>1. Stop(c)
    BY <1>2 DEF Apply
  <2>2. CASE state[c] = "running"
    BY <1>1, <2>1, <2>2, ExitType DEF Stop
  <2>3. CASE state[c] # "running"
    BY <2>1, <2>3 DEF Stop, dockerVars, DockerType, TypeOK
  <2> QED BY <2>2, <2>3
<1>3. CASE Schedule[e].kind = "latency"
  BY <1>1, <1>3 DEF Apply, TypeOK, DockerType
<1>4. CASE Schedule[e].kind = "partition"
  <2>1. rules' = [rules EXCEPT ![c] = @ + 1] /\ UNCHANGED <<state, code, exits, slow>>
    BY <1>4 DEF Apply
  <2>2. rules[c] + 1 \in Nat
    BY <1>1 DEF TypeOK
  <2> QED BY <1>1, <2>1, <2>2 DEF TypeOK, DockerType
<1> QED BY <1>2, <1>3, <1>4, EntryType DEF Kinds

LEMMA RecoverType ==
  ASSUME TypeOK, NEW e \in Entries, CanRecover(e), Recover(e)
  PROVE  DockerType'
<1>1. Schedule[e].target \in Containers
  BY EntryType
<1>2. CASE Schedule[e].kind = "restart"
  BY <1>1, <1>2 DEF Recover, Start, TypeOK, DockerType
<1>3. CASE Schedule[e].kind = "latency"
  BY <1>1, <1>3 DEF Recover, TypeOK, DockerType
<1>4. CASE Schedule[e].kind = "partition"
  <2> DEFINE c == Schedule[e].target
  <2>1. rules[c] > 0 /\ rules' = [rules EXCEPT ![c] = @ - 1] /\ UNCHANGED <<state, code, exits, slow>>
    BY <1>4 DEF Recover, CanRecover
  <2>2. rules[c] - 1 \in Nat
    BY <1>1, <2>1 DEF TypeOK
  <2> QED BY <1>1, <2>1, <2>2 DEF TypeOK, DockerType
<1> QED BY <1>2, <1>3, <1>4, EntryType DEF Kinds

LEMMA InitType == Init => TypeOK
BY ScheduleAssumption, BoundAssumption, ExitAssumption, EntryType DEF Init, TypeOK, Entries, NoCode

LEMMA StepType == TypeOK /\ [Next]_vars => TypeOK'
<1> SUFFICES ASSUME TypeOK, [Next]_vars PROVE TypeOK'
  OBVIOUS
<1> USE DEF schedVars, pollVars, dockerVars, loopVars
<1>stats. /\ stats \in StatsType /\ audit \in SUBSET AuditType
         /\ applied \subseteq Entries /\ pending \subseteq Entries
  BY DEF TypeOK, StatsType, AuditType
<1>1. CASE SubmitOk
  <2>1. step' \in 0..MaxStep
    BY <1>1, BoundAssumption DEF SubmitOk, TypeOK
  <2>2. pc' \in {"submit", "poll", "chaos", "done"} /\ toPoll' \subseteq Containers
    BY <1>1 DEF SubmitOk, TypeOK
  <2> QED BY <1>1, <2>1, <2>2 DEF SubmitOk, TypeOK
<1>2. CASE Cancel
  BY <1>2 DEF Cancel, TypeOK
<1>3. ASSUME NEW c \in Containers, Crash(c) PROVE TypeOK'
  <2>1. PICK k \in ExitCodes \ {0} : exits[c] < MaxExits /\ Exit(c, "crashed", k)
    BY <1>3 DEF Crash
  <2>2. DockerType'
    BY <2>1, ExitType
  <2>3. UNCHANGED <<pc, step, toPoll, cursor, applied, pending, recoverAt, stats, audit, seen, reported>>
    BY <1>3 DEF Crash
  <2> QED BY <2>2, <2>3 DEF TypeOK, DockerType
<1>4. ASSUME NEW c \in Containers, Poll(c) PROVE TypeOK'
  <2>1. toPoll' \subseteq Containers /\ UNCHANGED <<pc, step, cursor, schedVars, dockerVars>>
    BY <1>4 DEF Poll, TypeOK
  <2>2. CASE Crashed(c) /\ seen[c] # code[c]
    <3>1. seen' \in [Containers -> ExitCodes \union {NoCode}]
      BY <1>4, <2>2 DEF Poll, TypeOK
    <3>2. reported' \in [Containers -> [1..MaxExits -> Nat]]
      <4> DEFINE row == [reported[c] EXCEPT ![exits[c]] = @ + 1]
      <4>1. reported' = [reported EXCEPT ![c] = row]
        BY <1>4, <2>2 DEF Poll
      <4>2. reported[c] \in [1..MaxExits -> Nat]
        BY DEF TypeOK
      <4>3. row \in [1..MaxExits -> Nat]
        BY <4>2, CountOne
      <4> QED BY <4>1, <4>3 DEF TypeOK
    <3> QED BY <2>1, <3>1, <3>2 DEF TypeOK
  <2>3. CASE ~(Crashed(c) /\ seen[c] # code[c])
    BY <1>4, <2>1, <2>3 DEF Poll, TypeOK
  <2> QED BY <2>2, <2>3
<1>5. CASE PollFails
  BY <1>5 DEF PollFails, TypeOK
<1>6. CASE PollDone
  <2>1. pc' = "chaos" /\ cursor' = 1 /\ UNCHANGED <<step, toPoll, schedVars, pollVars, dockerVars>>
    BY <1>6 DEF PollDone
  <2>2. 1 \in 1..(Len(Schedule) + 1)
    BY ScheduleAssumption
  <2> QED BY <2>1, <2>2 DEF TypeOK, schedVars, pollVars, dockerVars
<1>7. ASSUME NEW e \in Entries, Skip(e) PROVE TypeOK'
  BY <1>7, EntryType DEF Skip, AtEntry, TypeOK
<1>8. ASSUME NEW e \in Entries, ApplyOk(e) PROVE TypeOK'
  <2>1. DockerType'
    BY <1>8, ApplyType DEF ApplyOk
  <2>2. recoverAt' \in [Entries -> Nat]
    BY <1>8, EntryType DEF ApplyOk, RecoverStep, TypeOK
  <2>3. cursor' \in 1..(Len(Schedule) + 1) /\ UNCHANGED <<pc, step, toPoll, pollVars>>
    BY <1>8, EntryType DEF ApplyOk, AtEntry, TypeOK
  <2>4. applied' \subseteq Entries /\ pending' \subseteq Entries
    BY <1>8 DEF ApplyOk, TypeOK
  <2>5. stats' \in StatsType
    BY <1>8, StatsCount, <1>stats DEF ApplyOk
  <2>6. audit' \subseteq AuditType
    BY <1>8, AuditAdd, <1>stats DEF ApplyOk, Emit
  <2> QED BY <2>1, <2>2, <2>3, <2>4, <2>5, <2>6 DEF TypeOK, DockerType, StatsType, AuditType
<1>9. ASSUME NEW e \in Entries, ApplyFails(e) PROVE TypeOK'
  <2>1. DockerType'
    BY <1>9, ApplyType DEF ApplyFails, TypeOK, DockerType
  <2>2. cursor' \in 1..(Len(Schedule) + 1) /\ UNCHANGED <<pc, step, toPoll, pending, recoverAt, pollVars>>
    BY <1>9, EntryType DEF ApplyFails, AtEntry, TypeOK
  <2>3. applied' \subseteq Entries /\ stats' \in StatsType
    BY <1>9, StatsCount, <1>stats DEF ApplyFails
  <2>4. audit' \subseteq AuditType
    BY <1>9, AuditAdd, <1>stats DEF ApplyFails, Emit
  <2> QED BY <2>1, <2>2, <2>3, <2>4 DEF TypeOK, DockerType, StatsType, AuditType
<1>10. ASSUME NEW e \in Entries, RecoverOk(e) PROVE TypeOK'
  <2>1. DockerType'
    BY <1>10, RecoverType DEF RecoverOk
  <2>2. pending' \subseteq Entries /\ stats' \in StatsType
    BY <1>10, StatsCount, <1>stats DEF RecoverOk, Forget
  <2>3. audit' \subseteq AuditType
    BY <1>10, AuditAdd, <1>stats DEF RecoverOk, Emit
  <2> QED BY <1>10, <2>1, <2>2, <2>3 DEF TypeOK, DockerType, StatsType, AuditType, RecoverOk
<1>11. ASSUME NEW e \in Entries, RecoverFails(e) PROVE TypeOK'
  <2>1. DockerType'
    BY <1>11, RecoverType DEF RecoverFails, TypeOK, DockerType
  <2>2. pending' \subseteq Entries /\ stats' \in StatsType
    BY <1>11, StatsCount, <1>stats DEF RecoverFails, Forget
  <2>3. audit' \subseteq AuditType
    BY <1>11, AuditAdd, <1>stats DEF RecoverFails, Emit
  <2> QED BY <1>11, <2>1, <2>2, <2>3 DEF TypeOK, DockerType, StatsType, AuditType, RecoverFails
<1>12. CASE StepDone
  BY <1>12 DEF StepDone, TypeOK
<1>13. CASE UNCHANGED vars
  BY <1>13 DEF vars, TypeOK
<1> QED BY <1>1, <1>2, <1>3, <1>4, <1>5, <1>6, <1>7, <1>8, <1>9, <1>10, <1>11, <1>12, <1>13
        DEF Next, Tick

(* Every variable keeps its type, whatever the schedule.                   *)
THEOREM TypeCorrect == Spec => []TypeOK
<1>1. Init => TypeOK
  BY InitType
<1>2. TypeOK /\ [Next]_vars => TypeOK'
  BY StepType
<1> QED BY <1>1, <1>2, PTL DEF Spec, Safe

-----------------------------------------------------------------------------
(* The crash poller reports an exit at most once.                          *)

(* Exits only ever move on, and an exit code changes with one.             *)
ExitsMoveOn ==
  \A c \in Containers : (exits'[c] = exits[c] /\ code'[c] = code[c]) \/ exits'[c] = exits[c] + 1

(* A reported exit is the last one only while its code is remembered.      *)
ReportInv ==
  \A c \in Containers : \A n \in 1..MaxExits :
    /\ reported[c][n] \in {0, 1}
    /\ n > exits[c] => reported[c][n] = 0
    /\ n = exits[c] /\ reported[c][n] = 1 => seen[c] = code[c]

LEMMA ApplyMovesOn ==
  ASSUME TypeOK, NEW e \in Entries, Apply(e)
  PROVE  ExitsMoveOn
<1> DEFINE c == Schedule[e].target
<1>1. CASE Schedule[e].kind = "restart"
  <2>1. Stop(c)
    BY <1>1 DEF Apply
  <2>2. ASSUME NEW k, Exit(c, "stopped", k) PROVE ExitsMoveOn
    BY <2>2 DEF Exit, ExitsMoveOn, TypeOK
  <2>3. CASE UNCHANGED dockerVars
    BY <2>3 DEF dockerVars, ExitsMoveOn
  <2> QED BY <2>1, <2>2, <2>3 DEF Stop
<1>2. CASE Schedule[e].kind # "restart"
  BY <1>2, EntryType DEF Apply, Kinds, ExitsMoveOn
<1> QED BY <1>1, <1>2

LEMMA RecoverMovesOn ==
  ASSUME NEW e \in Entries, Recover(e)
  PROVE  ExitsMoveOn
BY EntryType DEF Recover, Start, Kinds, ExitsMoveOn

LEMMA StepMovesOn ==
  ASSUME TypeOK, [Next]_vars
  PROVE  (\E c \in Containers : Poll(c)) \/ (UNCHANGED pollVars /\ ExitsMoveOn)
<1>1. ASSUME NEW c \in Containers, Crash(c) PROVE UNCHANGED pollVars /\ ExitsMoveOn
  BY <1>1 DEF Crash, Exit, ExitsMoveOn, TypeOK, pollVars
<1>2. ASSUME UNCHANGED dockerVars PROVE ExitsMoveOn
  BY <1>2 DEF dockerVars, ExitsMoveOn
<1>3. ASSUME NEW e \in Entries, Skip(e) \/ ApplyOk(e) \/ ApplyFails(e) \/ RecoverOk(e) \/ RecoverFails(e)
      PROVE  UNCHANGED pollVars /\ ExitsMoveOn
  BY <1>2, <1>3, ApplyMovesOn, RecoverMovesOn
     DEF Skip, ApplyOk, ApplyFails, RecoverOk, RecoverFails
<1>4. CASE SubmitOk \/ Cancel \/ PollFails \/ PollDone \/ StepDone \/ UNCHANGED vars
  BY <1>2, <1>4 DEF SubmitOk, Cancel, PollFails, PollDone, StepDone, vars, pollVars
<1> QED BY <1>1, <1>3, <1>4 DEF Next, Tick

LEMMA ReportStep == TypeOK /\ ReportInv /\ [Next]_vars => ReportInv'
<1> SUFFICES ASSUME TypeOK, ReportInv, [Next]_vars PROVE ReportInv'
  OBVIOUS
<1>1. CASE UNCHANGED pollVars /\ ExitsMoveOn
  <2> SUFFICES ASSUME NEW c \in Containers, NEW n \in 1..MaxExits
               PROVE  /\ reported[c][n] \in {0, 1}
                      /\ n > exits'[c] => reported[c][n] = 0
                      /\ n = exits'[c] /\ reported[c][n] = 1 => seen[c] = code'[c]
    BY <1>1 DEF pollVars, ReportInv
  <2>1. exits[c] \in 0..MaxExits
    BY DEF TypeOK
  <2>2. (exits'[c] = exits[c] /\ code'[c] = code[c]) \/ exits'[c] = exits[c] + 1
    BY <1>1 DEF ExitsMoveOn
  <2> QED BY <2>1, <2>2, BoundAssumption DEF ReportInv
<1>2. ASSUME NEW c \in Containers, Poll(c) PROVE ReportInv'
  <2>1. UNCHANGED <<exits, code>>
    BY <1>2 DEF Poll, dockerVars
  <2>2. CASE Crashed(c) /\ seen[c] # code[c]
    <3>1. seen' = [seen EXCEPT ![c] = code[c]]
      BY <1>2, <2>2 DEF Poll
    <3> DEFINE row == [reported[c] EXCEPT ![exits[c]] = @ + 1]
    <3>2. reported' = [reported EXCEPT ![c] = row]
      BY <1>2, <2>2 DEF Poll
    <3>3. reported[c] \in [1..MaxExits -> Nat] /\ exits[c] \in 0..MaxExits
      BY DEF TypeOK
    <3>4. \A n \in 1..MaxExits : n = exits[c] => reported[c][n] = 0
      BY <2>2, <3>3 DEF ReportInv
    <3>5. \A n \in 1..MaxExits : row[n] \in {0, 1} /\ (n > exits[c] => row[n] = 0)
      BY <3>3, <3>4 DEF ReportInv
    <3>6. \A d \in Containers : d # c => reported'[d] = reported[d] /\ seen'[d] = seen[d]
      BY <3>1, <3>2 DEF TypeOK
    <3>7. reported'[c] = row /\ seen'[c] = code[c]
      BY <3>1, <3>2 DEF TypeOK
    <3>8. ASSUME NEW d \in Containers, NEW n \in 1..MaxExits
          PROVE  /\ reported'[d][n] \in {0, 1}
                 /\ n > exits[d] => reported'[d][n] = 0
                 /\ n = exits[d] /\ reported'[d][n] = 1 => seen'[d] = code[d]
      <4>1. CASE d = c
        BY <3>5, <3>7, <4>1
      <4>2. CASE d # c
        BY <3>6, <4>2 DEF ReportInv
      <4> QED BY <4>1, <4>2
    <3> HIDE DEF row
    <3> QED BY <2>1, <3>8 DEF ReportInv
  <2>3. CASE ~(Crashed(c) /\ seen[c] # code[c])
    BY <1>2, <2>1, <2>3 DEF Poll, pollVars, ReportInv
  <2> QED BY <2>2, <2>3
<1> QED BY <1>1, <1>2, StepMovesOn

(* Poller.Tick never fires OnCrash twice for one exit of a container.      *)
THEOREM CrashReportedOnce == Spec => []ReportedOnce
<1>1. Init => ReportInv
  BY BoundAssumption DEF Init, ReportInv
<1>2. TypeOK /\ ReportInv /\ [Next]_vars => ReportInv'
  BY ReportStep
<1>3. ReportInv => ReportedOnce
  BY DEF ReportInv, ReportedOnce
<1> QED BY <1>1, <1>2, <1>3, TypeCorrect, PTL DEF Spec, Safe

-----------------------------------------------------------------------------
(* Recover fires on time when every recover_after is a multiple of the     *)
(* period of the periodic block.                                           *)

AlignedSchedule == \A e \in Entries : Schedule[e].recoverAfter % Period = 0

InBlock == pc \in {"poll", "chaos"}

OnTimeInv ==
  /\ InBlock => step > 0 /\ IsTick(step)
  /\ \A e \in pending :
       /\ IsTick(recoverAt[e])
       /\ recoverAt[e] > step \/ (recoverAt[e] = step /\ InBlock)

LEMMA OnTimeStep ==
  ASSUME AlignedSchedule, TypeOK, OnTimeInv, [Next]_vars
  PROVE  OnTimeInv'
<1> USE DEF OnTimeInv, InBlock
<1>t. step \in Nat /\ recoverAt \in [Entries -> Nat] /\ pending \subseteq Entries
  BY BoundAssumption DEF TypeOK
<1>1. CASE SubmitOk
  <2>1. step' = step + 1 /\ UNCHANGED <<pending, recoverAt>> /\ pc = "submit"
    BY <1>1 DEF SubmitOk, schedVars
  <2>2. IF IsTick(step + 1) THEN pc' = "poll" ELSE pc' = "submit"
    BY <1>1, <2>1 DEF SubmitOk
  <2> QED BY <1>t, <2>1, <2>2 DEF IsTick
<1>2. CASE Cancel
  BY <1>2 DEF Cancel, schedVars
<1>3. ASSUME NEW c \in Containers, Crash(c) \/ Poll(c) PROVE OnTimeInv'
  BY <1>3 DEF Crash, Poll, schedVars, loopVars
<1>4. CASE PollFails \/ PollDone
  BY <1>4 DEF PollFails, PollDone, schedVars
<1>5. ASSUME NEW e \in Entries, Skip(e) \/ ApplyFails(e) PROVE OnTimeInv'
  BY <1>5 DEF Skip, ApplyFails, schedVars
<1>6. ASSUME NEW e \in Entries, ApplyOk(e) PROVE OnTimeInv'
  <2>1. pc = "chaos" /\ UNCHANGED <<pc, step>> /\ pending' = pending \union {e}
        /\ recoverAt' = [recoverAt EXCEPT ![e] = step + Schedule[e].recoverAfter]
    BY <1>6 DEF ApplyOk, AtEntry, RecoverStep
  <2>2. Schedule[e].recoverAfter \in Nat
    BY EntryType
  <2>3. IsTick(step + Schedule[e].recoverAfter)
    BY <1>t, <2>1, <2>2, TickPlusMultiple, PeriodAssumption DEF AlignedSchedule, IsTick
  <2>4. recoverAt'[e] = step + Schedule[e].recoverAfter
    BY <1>t, <2>1
  <2>5. \A f \in pending' \ {e} : f \in pending /\ recoverAt'[f] = recoverAt[f]
    BY <1>t, <2>1
  <2>6. recoverAt'[e] > step \/ recoverAt'[e] = step
    BY <1>t, <2>2, <2>4
  <2> QED BY <2>1, <2>3, <2>4, <2>5, <2>6 DEF IsTick
<1>7. ASSUME NEW e \in Entries, RecoverOk(e) \/ RecoverFails(e) PROVE OnTimeInv'
  BY <1>7 DEF RecoverOk, RecoverFails, Forget, loopVars
<1>8. CASE StepDone
  <2>1. \A e \in pending : recoverAt[e] # step
    BY <1>8 DEF StepDone, Now
  <2> QED BY <1>8, <2>1 DEF StepDone, schedVars
<1>9. CASE UNCHANGED vars
  BY <1>9 DEF vars, schedVars, loopVars
<1> QED BY <1>1, <1>2, <1>3, <1>4, <1>5, <1>6, <1>7, <1>8, <1>9 DEF Next, Tick

(* With an aligned schedule no pending entry is ever passed by.            *)
THEOREM RecoveredOnTime ==
  ASSUME AlignedSchedule
  PROVE  Spec => []RecoverOnTime
<1>1. Init => OnTimeInv
  BY DEF Init, OnTimeInv, InBlock
<1>2. TypeOK /\ OnTimeInv /\ [Next]_vars => OnTimeInv'
  BY OnTimeStep, AlignedSchedule
<1>3. OnTimeInv => RecoverOnTime
  BY DEF OnTimeInv, RecoverOnTime, InBlock
<1> QED BY <1>1, <1>2, <1>3, TypeCorrect, PTL DEF Spec, Safe

-----------------------------------------------------------------------------
(* A container is down for as long as its restart is pending, when no two  *)
(* windows on one container touch.                                         *)

(* n is the first step of the periodic block at which e is due.            *)
FiresAt(e, n) ==
  /\ IsTick(n) /\ Schedule[e].trigger <= n
  /\ \A m \in 1..MaxStep : IsTick(m) /\ Schedule[e].trigger <= m => n <= m

(* The restarts of one container, each from the step at which it fires to  *)
(* the one of its Recover, are strictly one after the other.               *)
DisjointRestarts ==
  \A e, f \in Entries : \A m, n \in 1..MaxStep :
    /\ e # f /\ Schedule[e].kind = "restart" /\ Schedule[f].kind = "restart"
    /\ Schedule[e].target = Schedule[f].target
    /\ FiresAt(e, m) /\ FiresAt(f, n)
    => m + Schedule[e].recoverAfter < n \/ n + Schedule[f].recoverAfter < m

(* An entry that has not fired was due at no step of the block so far, but  *)
(* for the one it has yet to reach in this block.                          *)
NotYetDue ==
  \A e \in Entries \ applied : \A n \in 1..step :
    IsTick(n) /\ Schedule[e].trigger <= n =>
      n = step /\ (pc = "poll" \/ (pc = "chaos" /\ cursor <= e))

WindowsKept ==
  \A e \in pending : \E n \in 1..step :
    FiresAt(e, n) /\ recoverAt[e] = n + Schedule[e].recoverAfter

LEMMA WindowStep ==
  ASSUME TypeOK, OnTimeInv, NotYetDue, WindowsKept, [Next]_vars
  PROVE  NotYetDue' /\ WindowsKept'
<1>1. /\ step \in 0..MaxStep /\ recoverAt \in [Entries -> Nat] /\ pending \subseteq Entries
      /\ cursor \in Nat
  BY DEF TypeOK
<1>2. CASE SubmitOk
  <2>1. /\ step' = step + 1 /\ step < MaxStep /\ pc = "submit"
        /\ UNCHANGED <<applied, pending, recoverAt>>
        /\ IF IsTick(step + 1) THEN pc' = "poll" ELSE pc' = "submit"
    BY <1>2 DEF SubmitOk, schedVars
  <2>2. NotYetDue'
    <3> SUFFICES ASSUME NEW e \in Entries \ applied, NEW n \in 1..(step + 1),
                        IsTick(n), Schedule[e].trigger <= n
                 PROVE  n = step + 1 /\ pc' = "poll"
      BY <2>1 DEF NotYetDue
    <3>1. n \in 1..step => pc \in {"poll", "chaos"}
      BY DEF NotYetDue
    <3>2. n = step + 1
      BY <1>1, <2>1, <3>1, BoundAssumption
    <3> QED BY <2>1, <3>2
  <2>3. 1..step \subseteq 1..step'
    BY <1>1, <2>1, BoundAssumption
  <2>4. WindowsKept'
    BY <2>1, <2>3 DEF WindowsKept
  <2> QED BY <2>2, <2>4
<1>3. CASE Cancel
  BY <1>3 DEF Cancel, schedVars, NotYetDue, WindowsKept
<1>4. ASSUME NEW c \in Containers, Crash(c) \/ Poll(c) PROVE NotYetDue' /\ WindowsKept'
  BY <1>4 DEF Crash, Poll, schedVars, loopVars, NotYetDue, WindowsKept
<1>5. CASE PollFails
  BY <1>5 DEF PollFails, schedVars, NotYetDue, WindowsKept
<1>6. CASE PollDone
  <2>1. \A e \in Entries : 1 <= e
    BY EntryType
  <2>2. pc' = "chaos" /\ cursor' = 1 /\ UNCHANGED <<step, applied, pending, recoverAt>>
    BY <1>6 DEF PollDone, schedVars
  <2> QED BY <1>6, <2>1, <2>2 DEF NotYetDue, WindowsKept
<1>7. ASSUME NEW e \in Entries, Skip(e) \/ ApplyOk(e) \/ ApplyFails(e)
      PROVE  NotYetDue' /\ WindowsKept'
  <2>1. pc = "chaos" /\ cursor = e /\ cursor' = e + 1 /\ UNCHANGED <<pc, step>>
    BY <1>7 DEF Skip, ApplyOk, ApplyFails, AtEntry
  <2>2. e \in applied' \/ step < Schedule[e].trigger
    <3>1. CASE Skip(e)
      <4>1. e \in applied \/ ~(step >= Schedule[e].trigger)
        BY <3>1 DEF Skip, Due
      <4>2. applied' = applied /\ Schedule[e].trigger \in Nat /\ step \in Nat
        BY <1>1, <3>1, BoundAssumption, EntryType DEF Skip, schedVars
      <4> QED BY <4>1, <4>2
    <3>2. CASE ApplyOk(e) \/ ApplyFails(e)
      BY <3>2 DEF ApplyOk, ApplyFails
    <3> QED BY <1>7, <3>1, <3>2
  <2>3. applied \subseteq applied'
    BY <1>7 DEF Skip, ApplyOk, ApplyFails, schedVars
  <2>4. NotYetDue'
    <3> SUFFICES ASSUME NEW f \in Entries \ applied', NEW n \in 1..step,
                        IsTick(n), Schedule[f].trigger <= n
                 PROVE  n = step /\ e + 1 <= f
      BY <2>1 DEF NotYetDue
    <3>1. n = step /\ e <= f
      BY <2>1, <2>3 DEF NotYetDue
    <3>2. e # f
      BY <1>1, <2>2, <3>1, EntryType
    <3> QED BY <3>1, <3>2, EntryType
  <2>5. WindowsKept'
    <3>1. CASE ApplyOk(e)
      <4>1. /\ pending' = pending \union {e} /\ Schedule[e].trigger <= step /\ e \notin applied
            /\ recoverAt' = [recoverAt EXCEPT ![e] = step + Schedule[e].recoverAfter]
        BY <1>1, <3>1, EntryType DEF ApplyOk, RecoverStep, Due
      <4>2. IsTick(step) /\ step > 0
        BY <2>1 DEF OnTimeInv, InBlock
      <4>3. \A m \in 1..MaxStep : IsTick(m) /\ Schedule[e].trigger <= m => step <= m
        BY <1>1, <4>1, BoundAssumption DEF NotYetDue
      <4>4. FiresAt(e, step) /\ recoverAt'[e] = step + Schedule[e].recoverAfter
        BY <1>1, <4>1, <4>2, <4>3 DEF FiresAt
      <4>5. \A f \in pending' \ {e} : f \in pending /\ recoverAt'[f] = recoverAt[f]
        BY <1>1, <4>1
      <4>6. step \in 1..step' /\ step' = step
        BY <1>1, <2>1, <4>2
      <4> QED BY <4>4, <4>5, <4>6 DEF WindowsKept
    <3>2. CASE Skip(e) \/ ApplyFails(e)
      BY <2>1, <3>2 DEF Skip, ApplyFails, schedVars, WindowsKept
    <3> QED BY <1>7, <3>1, <3>2
  <2> QED BY <2>4, <2>5
<1>8. ASSUME NEW e \in Entries, RecoverOk(e) \/ RecoverFails(e) PROVE NotYetDue' /\ WindowsKept'
  <2>1. pending' = pending \ {e} /\ UNCHANGED <<pc, step, cursor, applied, recoverAt>>
    BY <1>8 DEF RecoverOk, RecoverFails, Forget, loopVars
  <2> QED BY <2>1 DEF NotYetDue, WindowsKept
<1>9. CASE StepDone
  <2>1. \A e \in Entries : ~(cursor <= e)
    BY <1>1, <1>9, EntryType DEF StepDone, Recovering
  <2>2. pc = "chaos" /\ UNCHANGED <<step, applied, pending, recoverAt>>
    BY <1>9 DEF StepDone, Recovering, schedVars
  <2> QED BY <2>1, <2>2 DEF NotYetDue, WindowsKept
<1>10. CASE UNCHANGED vars
  BY <1>10 DEF vars, schedVars, loopVars, NotYetDue, WindowsKept
<1> QED BY <1>2, <1>3, <1>4, <1>5, <1>6, <1>7, <1>8, <1>9, <1>10 DEF Next, Tick

(* No other restart of the container is pending when one is recovered.     *)
LEMMA AloneAtRecover ==
  ASSUME TypeOK, OnTimeInv, WindowsKept, DisjointRestarts,
         NEW e \in pending, recoverAt[e] = step, NEW f \in pending \ {e},
         Schedule[e].kind = "restart", Schedule[f].kind = "restart"
  PROVE  Schedule[e].target # Schedule[f].target
<1> SUFFICES ASSUME Schedule[e].target = Schedule[f].target PROVE FALSE
  OBVIOUS
<1>1. /\ step \in 0..MaxStep /\ recoverAt \in [Entries -> Nat]
      /\ e \in Entries /\ f \in Entries
  BY DEF TypeOK
<1>2. PICK m \in 1..step : FiresAt(e, m) /\ recoverAt[e] = m + Schedule[e].recoverAfter
  BY DEF WindowsKept
<1>3. PICK n \in 1..step : FiresAt(f, n) /\ recoverAt[f] = n + Schedule[f].recoverAfter
  BY DEF WindowsKept
<1>4. m \in 1..MaxStep /\ n \in 1..MaxStep
  BY <1>1, BoundAssumption
<1>5. m + Schedule[e].recoverAfter < n \/ n + Schedule[f].recoverAfter < m
  BY <1>1, <1>2, <1>3, <1>4 DEF DisjointRestarts
<1>6. recoverAt[f] >= step
  BY <1>1 DEF OnTimeInv
<1> QED BY <1>1, <1>2, <1>3, <1>5, <1>6, EntryType

(* Only the Recover of a restart starts a container.                       *)
OnlyStops == \A c \in Containers : state[c] # "running" => state'[c] # "running"

LEMMA ApplyOnlyStops ==
  ASSUME TypeOK, NEW e \in Entries, Apply(e)
  PROVE  OnlyStops /\ (Schedule[e].kind = "restart" => state'[Schedule[e].target] # "running")
<1> DEFINE c == Schedule[e].target
<1>1. CASE Schedule[e].kind = "restart"
  <2>1. Stop(c) /\ c \in Containers
    BY <1>1, EntryType DEF Apply
  <2>2. ASSUME NEW k, Exit(c, "stopped", k) PROVE OnlyStops /\ state'[c] # "running"
    BY <2>1, <2>2 DEF Exit, OnlyStops, TypeOK
  <2>3. CASE state[c] # "running" /\ UNCHANGED dockerVars
    BY <2>3 DEF dockerVars, OnlyStops
  <2> QED BY <1>1, <2>1, <2>2, <2>3 DEF Stop
<1>2. CASE Schedule[e].kind # "restart"
  BY <1>2, EntryType DEF Apply, Kinds, OnlyStops
<1> QED BY <1>1, <1>2

LEMMA DownStep ==
  ASSUME TypeOK, OnTimeInv, WindowsKept, DisjointRestarts, DownWhilePending, [Next]_vars
  PROVE  DownWhilePending'
<1>1. /\ pending \subseteq Entries
      /\ \A e \in Entries : Schedule[e].target \in Containers
  BY EntryType DEF TypeOK
<1>2. ASSUME OnlyStops, pending' \subseteq pending PROVE DownWhilePending'
  BY <1>1, <1>2 DEF DownWhilePending, OnlyStops
<1>3. ASSUME UNCHANGED state PROVE OnlyStops
  BY <1>3 DEF OnlyStops
<1>4. ASSUME NEW c \in Containers, Crash(c) PROVE DownWhilePending'
  <2>1. OnlyStops
    BY <1>4 DEF Crash, Exit, OnlyStops, TypeOK
  <2> QED BY <1>2, <1>4, <2>1 DEF Crash, schedVars
<1>5. ASSUME NEW e \in Entries, ApplyOk(e) PROVE DownWhilePending'
  <2>1. OnlyStops /\ (Schedule[e].kind = "restart" => state'[Schedule[e].target] # "running")
    BY <1>5, ApplyOnlyStops DEF ApplyOk
  <2>2. pending' = pending \union {e}
    BY <1>5 DEF ApplyOk
  <2> QED BY <1>1, <2>1, <2>2 DEF DownWhilePending, OnlyStops
<1>6. ASSUME NEW e \in Entries, ApplyFails(e) PROVE DownWhilePending'
  <2>1. OnlyStops
    BY <1>3, <1>6, ApplyOnlyStops DEF ApplyFails, dockerVars
  <2> QED BY <1>2, <1>6, <2>1 DEF ApplyFails
<1>7. ASSUME NEW e \in Entries, RecoverOk(e) \/ RecoverFails(e) PROVE DownWhilePending'
  <2>1. e \in pending /\ recoverAt[e] = step /\ pending' = pending \ {e}
    BY <1>7 DEF RecoverOk, RecoverFails, IsNext, Now, Forget
  <2>2. UNCHANGED state \/ Recover(e)
    BY <1>7 DEF RecoverOk, RecoverFails, dockerVars
  <2>3. CASE UNCHANGED state
    BY <1>2, <1>3, <2>1, <2>3
  <2>4. CASE Recover(e) /\ Schedule[e].kind # "restart"
    <3>1. UNCHANGED state
      BY <2>4, EntryType DEF Recover, Kinds
    <3> QED BY <1>2, <1>3, <2>1, <3>1
  <2>5. CASE Recover(e) /\ Schedule[e].kind = "restart"
    <3>1. state' = [state EXCEPT ![Schedule[e].target] = "running"]
      BY <2>5 DEF Recover, Start
    <3>2. \A f \in pending' : Schedule[f].kind = "restart" =>
            Schedule[f].target # Schedule[e].target
      BY <2>1, <2>5, AloneAtRecover
    <3> QED BY <1>1, <2>1, <3>1, <3>2 DEF DownWhilePending, TypeOK
  <2> QED BY <2>2, <2>3, <2>4, <2>5
<1>8. ASSUME NEW c \in Containers, Poll(c) PROVE DownWhilePending'
  BY <1>2, <1>3, <1>8 DEF Poll, schedVars, dockerVars
<1>9. ASSUME NEW e \in Entries, Skip(e) PROVE DownWhilePending'
  BY <1>2, <1>3, <1>9 DEF Skip, schedVars, dockerVars
<1>10. CASE SubmitOk \/ Cancel \/ PollFails \/ PollDone \/ StepDone \/ UNCHANGED vars
  BY <1>2, <1>3, <1>10
     DEF SubmitOk, Cancel, PollFails, PollDone, StepDone, vars, schedVars, dockerVars
<1> QED BY <1>4, <1>5, <1>6, <1>7, <1>8, <1>9, <1>10 DEF Next, Tick

(* With an aligned schedule whose restarts of one container are disjoint,  *)
(* a container is down from the Apply of a restart to its Recover.         *)
THEOREM DownFromApplyToRecover ==
  ASSUME AlignedSchedule, DisjointRestarts
  PROVE  Spec => []DownWhilePending
<1>1. Init => OnTimeInv /\ NotYetDue /\ WindowsKept /\ DownWhilePending
  <2> SUFFICES ASSUME Init PROVE NotYetDue
    BY DEF Init, OnTimeInv, InBlock, WindowsKept, DownWhilePending
  <2> QED BY DEF Init, NotYetDue
<1>2. TypeOK /\ OnTimeInv /\ [Next]_vars => OnTimeInv'
  BY OnTimeStep, AlignedSchedule
<1>3. TypeOK /\ OnTimeInv /\ NotYetDue /\ WindowsKept /\ [Next]_vars => NotYetDue' /\ WindowsKept'
  BY WindowStep
<1>4. TypeOK /\ OnTimeInv /\ WindowsKept /\ DownWhilePending /\ [Next]_vars => DownWhilePending'
  BY DownStep, DisjointRestarts
<1> QED BY <1>1, <1>2, <1>3, <1>4, TypeCorrect, PTL DEF Spec, Safe

-----------------------------------------------------------------------------
(* No disturbance is left behind unaccounted, and the stats balance.       *)

(* What may still be in force on c: entries pending, and those that failed. *)
Hits(e, c, kind) == Schedule[e].target = c /\ Schedule[e].kind = kind

One(e, c) == IF Hits(e, c, "partition") THEN 1 ELSE 0

Open(c, kind) ==
  {e \in Entries : Hits(e, c, kind) /\ e \in pending \union Failed}

AccountInv ==
  /\ pending \subseteq applied /\ Failed \subseteq applied
  /\ pending \intersect Failed = {}
  /\ StopsAccounted /\ LatencyAccounted
  /\ \A c \in Containers : rules[c] <= Cardinality(Open(c, "partition"))

LEMMA EntriesFinite ==
  ASSUME NEW S \in SUBSET Entries
  PROVE  IsFiniteSet(S) /\ Cardinality(S) \in Nat
<1>1. Entries = 1..Len(Schedule) /\ Len(Schedule) \in Nat
  BY ScheduleAssumption DEF Entries
<1>2. IsFiniteSet(Entries)
  BY <1>1, FS_Interval
<1> QED BY <1>2, FS_Subset, FS_CardinalityType

(* How an emitted entry changes the set of failed ones.                    *)
LEMMA EmitFailed ==
  ASSUME TypeOK, NEW e \in Entries, NEW phase \in {"apply", "recover"}, NEW error \in BOOLEAN,
         Emit(e, phase, error)
  PROVE  Failed' = IF error THEN Failed \union {e} ELSE Failed
<1> DEFINE new == [entry |-> e, phase |-> phase, error |-> error]
<1>1. audit' = audit \union {new} /\ new.entry = e /\ new.error = error
  BY DEF Emit
<1> HIDE DEF new
<1>2. \A f : f \in Failed' <=> \E a \in audit' : a.error /\ f = a.entry
  BY DEF Failed
<1>3. \A f : f \in Failed <=> \E a \in audit : a.error /\ f = a.entry
  BY DEF Failed
<1>4. \A f : f \in Failed' <=> f \in Failed \/ (error /\ f = e)
  BY <1>1, <1>2, <1>3
<1> QED BY <1>4

(* The entry e stays or becomes open, and nothing else changes that.       *)
LEMMA OpenAdd ==
  ASSUME NEW e \in Entries, e \notin pending \union Failed,
         pending' \union Failed' = pending \union Failed \union {e},
         NEW c
  PROVE  Cardinality(Open(c, "partition")') =
           Cardinality(Open(c, "partition")) +
             One(e, c)
<1>1. CASE Hits(e, c, "partition")
  <2>1. Open(c, "partition")' = Open(c, "partition") \union {e} /\ e \notin Open(c, "partition")
    BY <1>1 DEF Open, Hits
  <2>2. IsFiniteSet(Open(c, "partition"))
    BY EntriesFinite DEF Open
  <2> QED BY <1>1, <2>1, <2>2, FS_AddElement DEF One
<1>2. CASE ~Hits(e, c, "partition")
  <2>1. Open(c, "partition")' = Open(c, "partition")
    BY <1>2 DEF Open, Hits
  <2>2. Cardinality(Open(c, "partition")) \in Nat
    BY EntriesFinite DEF Open
  <2> QED BY <1>2, <2>1, <2>2 DEF One
<1> QED BY <1>1, <1>2

LEMMA OpenRemove ==
  ASSUME NEW e \in Entries, e \in pending \union Failed,
         pending' \union Failed' = (pending \union Failed) \ {e},
         NEW c
  PROVE  Cardinality(Open(c, "partition")') =
           Cardinality(Open(c, "partition")) -
             One(e, c)
<1>1. CASE Hits(e, c, "partition")
  <2>1. Open(c, "partition")' = Open(c, "partition") \ {e} /\ e \in Open(c, "partition")
    BY <1>1 DEF Open, Hits
  <2>2. IsFiniteSet(Open(c, "partition"))
    BY EntriesFinite DEF Open
  <2> QED BY <1>1, <2>1, <2>2, FS_RemoveElement DEF One
<1>2. CASE ~Hits(e, c, "partition")
  <2>1. Open(c, "partition")' = Open(c, "partition")
    BY <1>2 DEF Open, Hits
  <2>2. Cardinality(Open(c, "partition")) \in Nat
    BY EntriesFinite DEF Open
  <2> QED BY <1>2, <2>1, <2>2 DEF One
<1> QED BY <1>1, <1>2

(* What a call on entry e may do at most, and what an undo must do.        *)
AddsAtMost(e) ==
  \A c \in Containers :
    /\ state'[c] = "stopped" => state[c] = "stopped" \/ Hits(e, c, "restart")
    /\ slow'[c] => slow[c] \/ Hits(e, c, "latency")
    /\ rules'[c] <= rules[c] + One(e, c)

Undoes(e) ==
  \A c \in Containers :
    /\ state'[c] = "stopped" => state[c] = "stopped" /\ ~Hits(e, c, "restart")
    /\ slow'[c] => slow[c] /\ ~Hits(e, c, "latency")
    /\ rules'[c] <= rules[c] - One(e, c)

LEMMA ApplyAdds ==
  ASSUME TypeOK, NEW e \in Entries, UNCHANGED dockerVars \/ Apply(e)
  PROVE  AddsAtMost(e)
<1> DEFINE c == Schedule[e].target
<1>t. /\ c \in Containers /\ Schedule[e].kind \in Kinds
      /\ state \in [Containers -> {"running", "stopped", "crashed"}]
      /\ slow \in [Containers -> BOOLEAN] /\ rules \in [Containers -> Nat]
  BY EntryType DEF TypeOK
<1>1. CASE UNCHANGED dockerVars
  BY <1>1, <1>t DEF dockerVars, AddsAtMost, One
<1>2. CASE Apply(e) /\ Schedule[e].kind = "restart"
  <2>1. Stop(c)
    BY <1>2 DEF Apply
  <2>2. ASSUME NEW k, Exit(c, "stopped", k) PROVE AddsAtMost(e)
    BY <1>t, <1>2, <2>2 DEF Exit, AddsAtMost, Hits, One
  <2> QED BY <1>1, <2>1, <2>2 DEF Stop
<1>3. CASE Apply(e) /\ Schedule[e].kind = "latency"
  BY <1>t, <1>3 DEF Apply, AddsAtMost, Hits, One
<1>4. CASE Apply(e) /\ Schedule[e].kind = "partition"
  BY <1>t, <1>4 DEF Apply, AddsAtMost, Hits, One
<1> QED BY <1>t, <1>1, <1>2, <1>3, <1>4 DEF Kinds

LEMMA RecoverUndoes ==
  ASSUME TypeOK, NEW e \in Entries, CanRecover(e), Recover(e)
  PROVE  Undoes(e)
<1> DEFINE c == Schedule[e].target
<1>t. /\ c \in Containers /\ Schedule[e].kind \in Kinds
      /\ state \in [Containers -> {"running", "stopped", "crashed"}]
      /\ slow \in [Containers -> BOOLEAN] /\ rules \in [Containers -> Nat]
  BY EntryType DEF TypeOK
<1>1. CASE Schedule[e].kind = "restart"
  BY <1>t, <1>1 DEF Recover, Start, Undoes, Hits, One
<1>2. CASE Schedule[e].kind = "latency"
  BY <1>t, <1>2 DEF Recover, Undoes, Hits, One
<1>3. CASE Schedule[e].kind = "partition"
  BY <1>t, <1>3 DEF Recover, Undoes, Hits, One
<1> QED BY <1>t, <1>1, <1>2, <1>3 DEF Kinds

NoMore ==
  \A c \in Containers :
    /\ state'[c] = "stopped" => state[c] = "stopped"
    /\ slow'[c] => slow[c]
    /\ rules'[c] <= rules[c]

LEMMA RulesType ==
  ASSUME TypeOK, NEW c \in Containers
  PROVE  rules[c] \in Nat /\ Cardinality(Open(c, "partition")) \in Nat
BY EntriesFinite DEF TypeOK, Open

LEMMA UndoesIsNoMore ==
  ASSUME TypeOK, TypeOK', NEW e \in Entries, Undoes(e)
  PROVE  NoMore
<1> SUFFICES ASSUME NEW c \in Containers PROVE rules'[c] <= rules[c]
  BY DEF Undoes, NoMore
<1>1. rules'[c] <= rules[c] - One(e, c) /\ One(e, c) \in {0, 1} /\ rules[c] \in Nat /\ rules'[c] \in Nat
  BY DEF Undoes, One, TypeOK
<1> QED BY <1>1

LEMMA AccountKept ==
  ASSUME TypeOK, TypeOK', AccountInv, NoMore, applied' = applied,
         pending' \subseteq applied, Failed' \subseteq applied, pending' \intersect Failed' = {},
         pending' \union Failed' = pending \union Failed
  PROVE  AccountInv'
<1>1. \A c, kind : Open(c, kind)' = Open(c, kind)
  BY DEF Open, Hits
<1>2. StopsAccounted' /\ LatencyAccounted'
  BY DEF NoMore, AccountInv, StopsAccounted, LatencyAccounted, Accounted
<1>3. ASSUME NEW c \in Containers PROVE rules'[c] <= Cardinality(Open(c, "partition")')
  <2>1. rules[c] <= Cardinality(Open(c, "partition")) /\ rules'[c] <= rules[c] /\ rules'[c] \in Nat
    BY DEF AccountInv, NoMore, TypeOK
  <2> QED BY <1>1, <2>1, RulesType
<1> QED BY <1>2, <1>3 DEF AccountInv

LEMMA AccountAdded ==
  ASSUME TypeOK, TypeOK', AccountInv, NEW e \in Entries, e \notin applied, AddsAtMost(e),
         applied' = applied \union {e},
         \/ pending' = pending \union {e} /\ Failed' = Failed
         \/ pending' = pending /\ Failed' = Failed \union {e}
  PROVE  AccountInv'
<1>1. e \notin pending \union Failed /\ pending' \union Failed' = pending \union Failed \union {e}
  BY DEF AccountInv
<1>2. /\ pending' \subseteq applied' /\ Failed' \subseteq applied'
      /\ pending' \intersect Failed' = {}
  BY <1>1 DEF AccountInv
<1>3. StopsAccounted' /\ LatencyAccounted'
  BY <1>1 DEF AddsAtMost, AccountInv, StopsAccounted, LatencyAccounted, Accounted, Hits
<1>4. ASSUME NEW c \in Containers PROVE rules'[c] <= Cardinality(Open(c, "partition")')
  <2>1. Cardinality(Open(c, "partition")') = Cardinality(Open(c, "partition")) + One(e, c)
    BY <1>1, OpenAdd
  <2>2. rules[c] <= Cardinality(Open(c, "partition")) /\ rules'[c] <= rules[c] + One(e, c)
    BY DEF AccountInv, AddsAtMost
  <2>3. One(e, c) \in {0, 1} /\ rules'[c] \in Nat
    BY DEF One, TypeOK
  <2> QED BY <2>1, <2>2, <2>3, RulesType
<1> QED BY <1>2, <1>3, <1>4 DEF AccountInv

LEMMA AccountUndone ==
  ASSUME TypeOK, TypeOK', AccountInv, NEW e \in Entries, e \in pending, Undoes(e),
         applied' = applied, pending' = pending \ {e}, Failed' = Failed
  PROVE  AccountInv'
<1>1. e \in pending \union Failed /\ pending' \union Failed' = (pending \union Failed) \ {e}
  BY DEF AccountInv
<1>2. /\ pending' \subseteq applied' /\ Failed' \subseteq applied'
      /\ pending' \intersect Failed' = {}
  BY DEF AccountInv
<1>3. StopsAccounted' /\ LatencyAccounted'
  BY <1>1 DEF Undoes, AccountInv, StopsAccounted, LatencyAccounted, Accounted, Hits
<1>4. ASSUME NEW c \in Containers PROVE rules'[c] <= Cardinality(Open(c, "partition")')
  <2>1. Cardinality(Open(c, "partition")') = Cardinality(Open(c, "partition")) - One(e, c)
    BY <1>1, OpenRemove
  <2>2. rules[c] <= Cardinality(Open(c, "partition")) /\ rules'[c] <= rules[c] - One(e, c)
    BY DEF AccountInv, Undoes
  <2>3. One(e, c) \in {0, 1} /\ rules'[c] \in Nat
    BY DEF One, TypeOK
  <2> QED BY <2>1, <2>2, <2>3, RulesType
<1> QED BY <1>2, <1>3, <1>4 DEF AccountInv

LEMMA AccountStep == TypeOK /\ AccountInv /\ [Next]_vars => AccountInv'
<1> SUFFICES ASSUME TypeOK, AccountInv, [Next]_vars PROVE AccountInv'
  OBVIOUS
<1>t. TypeOK'
  BY StepType
<1>s. ASSUME UNCHANGED schedVars, NoMore PROVE AccountInv'
  BY <1>t, <1>s, AccountKept DEF schedVars, Failed, AccountInv
<1>u. ASSUME UNCHANGED dockerVars PROVE NoMore
  BY <1>u DEF dockerVars, NoMore, TypeOK
<1>1. ASSUME NEW c \in Containers, Crash(c) PROVE AccountInv'
  <2>1. PICK k : Exit(c, "crashed", k)
    BY <1>1 DEF Crash
  <2>2. NoMore
    BY <2>1 DEF Exit, NoMore, TypeOK
  <2> QED BY <1>1, <1>s, <2>2 DEF Crash
<1>2. ASSUME NEW c \in Containers, Poll(c) PROVE AccountInv'
  BY <1>2, <1>s, <1>u DEF Poll
<1>3. CASE SubmitOk \/ Cancel \/ PollFails \/ PollDone \/ StepDone \/ UNCHANGED vars
  BY <1>3, <1>s, <1>u DEF SubmitOk, Cancel, PollFails, PollDone, StepDone, vars
<1>4. ASSUME NEW e \in Entries, Skip(e) PROVE AccountInv'
  BY <1>4, <1>s, <1>u DEF Skip
<1>5. ASSUME NEW e \in Entries, ApplyOk(e) PROVE AccountInv'
  <2>1. e \notin applied /\ applied' = applied \union {e} /\ pending' = pending \union {e}
    BY <1>5 DEF ApplyOk, Due
  <2>2. Failed' = Failed
    BY <1>5, EmitFailed DEF ApplyOk
  <2>3. AddsAtMost(e)
    BY <1>5, ApplyAdds DEF ApplyOk
  <2> QED BY <1>t, <2>1, <2>2, <2>3, AccountAdded
<1>6. ASSUME NEW e \in Entries, ApplyFails(e) PROVE AccountInv'
  <2>1. e \notin applied /\ applied' = applied \union {e} /\ pending' = pending
    BY <1>6 DEF ApplyFails, Due
  <2>2. Failed' = Failed \union {e}
    BY <1>6, EmitFailed DEF ApplyFails
  <2>3. AddsAtMost(e)
    BY <1>6, ApplyAdds DEF ApplyFails
  <2> QED BY <1>t, <2>1, <2>2, <2>3, AccountAdded
<1>7. ASSUME NEW e \in Entries, RecoverOk(e) PROVE AccountInv'
  <2>1. e \in pending /\ applied' = applied /\ pending' = pending \ {e}
    BY <1>7 DEF RecoverOk, IsNext, Now, Forget
  <2>2. Failed' = Failed
    BY <1>7, EmitFailed DEF RecoverOk
  <2>3. Undoes(e)
    BY <1>7, RecoverUndoes DEF RecoverOk
  <2> QED BY <1>t, <2>1, <2>2, <2>3, AccountUndone
<1>8. ASSUME NEW e \in Entries, RecoverFails(e) PROVE AccountInv'
  <2>1. e \in pending /\ applied' = applied /\ pending' = pending \ {e}
    BY <1>8 DEF RecoverFails, IsNext, Now, Forget
  <2>2. Failed' = Failed \union {e}
    BY <1>8, EmitFailed DEF RecoverFails
  <2>3. NoMore
    BY <1>t, <1>u, <1>8, RecoverUndoes, UndoesIsNoMore DEF RecoverFails
  <2> QED BY <1>t, <2>1, <2>2, <2>3, AccountKept DEF AccountInv
<1> QED BY <1>1, <1>2, <1>3, <1>4, <1>5, <1>6, <1>7, <1>8 DEF Next, Tick

LEMMA AccountImplies == TypeOK /\ AccountInv => DisturbancesAccounted
<1> SUFFICES ASSUME TypeOK, AccountInv, NEW c \in Containers, rules[c] > 0
             PROVE  Accounted(c, "partition")
  BY DEF AccountInv, DisturbancesAccounted, RulesAccounted
<1>1. Cardinality(Open(c, "partition")) # 0
  BY RulesType DEF AccountInv
<1>2. Open(c, "partition") # {}
  BY <1>1, FS_EmptySet
<1> QED BY <1>2 DEF Open, Hits, Accounted

(* Chaos leaves no container stopped, delayed or cut off without an entry  *)
(* that will undo it or an error in the corpus.                            *)
THEOREM DisturbancesAreAccounted == Spec => []DisturbancesAccounted
<1>1. Init => AccountInv
  <2> SUFFICES ASSUME Init, NEW c \in Containers
               PROVE  rules[c] <= Cardinality(Open(c, "partition"))
    BY DEF Init, AccountInv, Failed, StopsAccounted, LatencyAccounted
  <2> QED BY RulesType, InitType DEF Init
<1>2. TypeOK /\ AccountInv /\ [Next]_vars => AccountInv'
  BY AccountStep
<1>3. TypeOK /\ AccountInv => DisturbancesAccounted
  BY AccountImplies
<1> QED BY <1>1, <1>2, <1>3, TypeCorrect, PTL DEF Spec, Safe

-----------------------------------------------------------------------------
(* The stats balance.                                                      *)

AR == Audited("recover", TRUE)
AA == Audited("apply", TRUE)

LEMMA EmitAudited ==
  ASSUME TypeOK, NEW e \in Entries, NEW phase \in {"apply", "recover"}, NEW error \in BOOLEAN,
         Emit(e, phase, error)
  PROVE  /\ AR' = IF phase = "recover" /\ error THEN AR \union {e} ELSE AR
         /\ AA' = IF phase = "apply" /\ error THEN AA \union {e} ELSE AA
<1> DEFINE new == [entry |-> e, phase |-> phase, error |-> error]
<1>1. audit' = audit \union {new}
  BY DEF Emit
<1>2. \A f \in Entries, q \in {"apply", "recover"} :
        [entry |-> f, phase |-> q, error |-> TRUE] = new <=> f = e /\ q = phase /\ error
  OBVIOUS
<1> HIDE DEF new
<1>3. AR' = IF phase = "recover" /\ error THEN AR \union {e} ELSE AR
  BY <1>1, <1>2 DEF AR, Audited
<1>4. AA' = IF phase = "apply" /\ error THEN AA \union {e} ELSE AA
  BY <1>1, <1>2 DEF AA, Audited
<1> QED BY <1>3, <1>4

(* An entry fails where it was due or pending, and only there.             *)
BalanceInv ==
  /\ pending \subseteq applied /\ AR \subseteq applied /\ AA \subseteq applied
  /\ pending \intersect AR = {}
  /\ StatsBalance

LEMMA BalanceCounts ==
  ASSUME TypeOK
  PROVE  /\ IsFiniteSet(pending) /\ IsFiniteSet(AR) /\ IsFiniteSet(AA)
         /\ Cardinality(pending) \in Nat /\ Cardinality(AR) \in Nat /\ Cardinality(AA) \in Nat
         /\ stats.applied \in Nat /\ stats.recovered \in Nat /\ stats.errored \in Nat
<1>1. pending \in SUBSET Entries /\ AR \in SUBSET Entries /\ AA \in SUBSET Entries
  BY DEF TypeOK, AR, AA, Audited
<1>2. stats.applied \in Nat /\ stats.recovered \in Nat /\ stats.errored \in Nat
  BY DEF TypeOK
<1> QED BY <1>1, <1>2, EntriesFinite

LEMMA StatsBump ==
  ASSUME NEW s \in StatsType
  PROVE  /\ [s EXCEPT !.applied = @ + 1].applied = s.applied + 1
         /\ [s EXCEPT !.applied = @ + 1].recovered = s.recovered
         /\ [s EXCEPT !.applied = @ + 1].errored = s.errored
         /\ [s EXCEPT !.recovered = @ + 1].applied = s.applied
         /\ [s EXCEPT !.recovered = @ + 1].recovered = s.recovered + 1
         /\ [s EXCEPT !.recovered = @ + 1].errored = s.errored
         /\ [s EXCEPT !.errored = @ + 1].applied = s.applied
         /\ [s EXCEPT !.errored = @ + 1].recovered = s.recovered
         /\ [s EXCEPT !.errored = @ + 1].errored = s.errored + 1
BY DEF StatsType

LEMMA BalanceStep == TypeOK /\ BalanceInv /\ [Next]_vars => BalanceInv'
<1> SUFFICES ASSUME TypeOK, BalanceInv, [Next]_vars PROVE BalanceInv'
  OBVIOUS
<1>s. stats \in StatsType
  BY DEF TypeOK, StatsType
<1>b. /\ stats.applied = stats.recovered + Cardinality(pending) + Cardinality(AR)
      /\ stats.errored = Cardinality(AA) + Cardinality(AR)
  BY DEF BalanceInv, StatsBalance, AA, AR
<1>g. ASSUME /\ pending' \subseteq applied' /\ AR' \subseteq applied' /\ AA' \subseteq applied'
             /\ pending' \intersect AR' = {},
             /\ stats'.applied = stats'.recovered + Cardinality(pending') + Cardinality(AR')
             /\ stats'.errored = Cardinality(AA') + Cardinality(AR')
      PROVE  BalanceInv'
  BY <1>g DEF BalanceInv, StatsBalance, AA, AR
<1>1. CASE UNCHANGED schedVars
  <2>1. AR' = AR /\ AA' = AA /\ UNCHANGED <<applied, pending, stats>>
    BY <1>1 DEF schedVars, AA, AR, Audited
  <2> QED BY <1>b, <1>g, <2>1 DEF BalanceInv
<1>2. ASSUME NEW e \in Entries, ApplyOk(e) PROVE BalanceInv'
  <2>1. /\ e \notin applied /\ applied' = applied \union {e} /\ pending' = pending \union {e}
        /\ stats' = [stats EXCEPT !.applied = @ + 1]
    BY <1>2 DEF ApplyOk, Due
  <2>2. AR' = AR /\ AA' = AA
    BY <1>2, EmitAudited DEF ApplyOk
  <2>3. Cardinality(pending') = Cardinality(pending) + 1
    BY <2>1, BalanceCounts, FS_AddElement DEF BalanceInv
  <2>4. stats'.applied = stats.applied + 1 /\ stats'.recovered = stats.recovered /\ stats'.errored = stats.errored
    BY <1>s, <2>1, StatsBump
  <2>5. /\ pending' \subseteq applied' /\ AR' \subseteq applied' /\ AA' \subseteq applied'
       /\ pending' \intersect AR' = {}
    BY <2>1, <2>2 DEF BalanceInv
  <2>6. /\ stats'.applied = stats'.recovered + Cardinality(pending') + Cardinality(AR')
       /\ stats'.errored = Cardinality(AA') + Cardinality(AR')
    BY <1>b, <2>1, <2>2, <2>3, <2>4, BalanceCounts
  <2> QED BY <1>g, <2>5, <2>6
<1>3. ASSUME NEW e \in Entries, ApplyFails(e) PROVE BalanceInv'
  <2>1. /\ e \notin applied /\ applied' = applied \union {e} /\ pending' = pending
        /\ stats' = [stats EXCEPT !.errored = @ + 1]
    BY <1>3 DEF ApplyFails, Due
  <2>2. AR' = AR /\ AA' = AA \union {e}
    BY <1>3, EmitAudited DEF ApplyFails
  <2>3. Cardinality(AA') = Cardinality(AA) + 1
    BY <2>1, <2>2, BalanceCounts, FS_AddElement DEF BalanceInv
  <2>4. stats'.applied = stats.applied /\ stats'.recovered = stats.recovered /\ stats'.errored = stats.errored + 1
    BY <1>s, <2>1, StatsBump
  <2>5. /\ pending' \subseteq applied' /\ AR' \subseteq applied' /\ AA' \subseteq applied'
       /\ pending' \intersect AR' = {}
    BY <2>1, <2>2 DEF BalanceInv
  <2>6. /\ stats'.applied = stats'.recovered + Cardinality(pending') + Cardinality(AR')
       /\ stats'.errored = Cardinality(AA') + Cardinality(AR')
    BY <1>b, <2>1, <2>2, <2>3, <2>4, BalanceCounts
  <2> QED BY <1>g, <2>5, <2>6
<1>4. ASSUME NEW e \in Entries, RecoverOk(e) PROVE BalanceInv'
  <2>1. /\ e \in pending /\ applied' = applied /\ pending' = pending \ {e}
        /\ stats' = [stats EXCEPT !.recovered = @ + 1]
    BY <1>4 DEF RecoverOk, IsNext, Now, Forget
  <2>2. AR' = AR /\ AA' = AA
    BY <1>4, EmitAudited DEF RecoverOk
  <2>3. Cardinality(pending') = Cardinality(pending) - 1
    BY <2>1, BalanceCounts, FS_RemoveElement
  <2>4. stats'.applied = stats.applied /\ stats'.recovered = stats.recovered + 1 /\ stats'.errored = stats.errored
    BY <1>s, <2>1, StatsBump
  <2>5. /\ pending' \subseteq applied' /\ AR' \subseteq applied' /\ AA' \subseteq applied'
       /\ pending' \intersect AR' = {}
    BY <2>1, <2>2 DEF BalanceInv
  <2>6. /\ stats'.applied = stats'.recovered + Cardinality(pending') + Cardinality(AR')
       /\ stats'.errored = Cardinality(AA') + Cardinality(AR')
    BY <1>b, <2>1, <2>2, <2>3, <2>4, BalanceCounts
  <2> QED BY <1>g, <2>5, <2>6
<1>5. ASSUME NEW e \in Entries, RecoverFails(e) PROVE BalanceInv'
  <2>1. /\ e \in pending /\ applied' = applied /\ pending' = pending \ {e}
        /\ stats' = [stats EXCEPT !.errored = @ + 1]
    BY <1>5 DEF RecoverFails, IsNext, Now, Forget
  <2>2. AR' = AR \union {e} /\ AA' = AA
    BY <1>5, EmitAudited DEF RecoverFails
  <2>3. Cardinality(pending') = Cardinality(pending) - 1
    BY <2>1, BalanceCounts, FS_RemoveElement
  <2>4. Cardinality(AR') = Cardinality(AR) + 1
    BY <2>1, <2>2, BalanceCounts, FS_AddElement DEF BalanceInv
  <2>5. stats'.applied = stats.applied /\ stats'.recovered = stats.recovered /\ stats'.errored = stats.errored + 1
    BY <1>s, <2>1, StatsBump
  <2>6. /\ pending' \subseteq applied' /\ AR' \subseteq applied' /\ AA' \subseteq applied'
       /\ pending' \intersect AR' = {}
    BY <2>1, <2>2 DEF BalanceInv
  <2>7. /\ stats'.applied = stats'.recovered + Cardinality(pending') + Cardinality(AR')
       /\ stats'.errored = Cardinality(AA') + Cardinality(AR')
    BY <1>b, <2>1, <2>2, <2>3, <2>4, <2>5, BalanceCounts
  <2> QED BY <1>g, <2>6, <2>7
<1>6. ASSUME NEW c \in Containers, Crash(c) \/ Poll(c) PROVE UNCHANGED schedVars
  BY <1>6 DEF Crash, Poll
<1>7. ASSUME NEW e \in Entries, Skip(e) PROVE UNCHANGED schedVars
  BY <1>7 DEF Skip
<1>8. CASE SubmitOk \/ Cancel \/ PollFails \/ PollDone \/ StepDone \/ UNCHANGED vars
  <2>1. UNCHANGED schedVars
    BY <1>8 DEF SubmitOk, Cancel, PollFails, PollDone, StepDone, vars
  <2> QED BY <2>1, <1>1
<1> QED BY <1>1, <1>2, <1>3, <1>4, <1>5, <1>6, <1>7, <1>8 DEF Next, Tick

(* Applied events are recovered, pending, or errored at their recovery, and *)
(* the errors counted are the errors in the corpus.                         *)
THEOREM StatsAlwaysBalance == Spec => []StatsBalance
<1>1. Init => BalanceInv
  <2> SUFFICES ASSUME Init PROVE BalanceInv
    OBVIOUS
  <2>1. pending = {} /\ AR = {} /\ AA = {}
    BY DEF Init, AR, AA, Audited
  <2>2. stats.applied = 0 /\ stats.recovered = 0 /\ stats.errored = 0
    BY DEF Init
  <2>3. Cardinality(pending) = 0 /\ Cardinality(AR) = 0 /\ Cardinality(AA) = 0
    BY <2>1, FS_EmptySet
  <2>4. stats.applied = stats.recovered + Cardinality(pending) + Cardinality(AR)
        /\ stats.errored = Cardinality(AA) + Cardinality(AR)
    BY <2>2, <2>3
  <2> QED BY <2>1, <2>4 DEF BalanceInv, StatsBalance, AA, AR
<1>2. TypeOK /\ BalanceInv /\ [Next]_vars => BalanceInv'
  BY BalanceStep
<1>3. BalanceInv => StatsBalance
  BY DEF BalanceInv
<1> QED BY <1>1, <1>2, <1>3, TypeCorrect, PTL DEF Spec, Safe
=============================================================================
