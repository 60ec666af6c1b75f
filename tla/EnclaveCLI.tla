------------------------------- MODULE EnclaveCLI ------------------------------
(* confluence up, run and down: one command at a time drives the Kurtosis   *)
(* CLI and keeps two kinds of file beside it: the network record that a     *)
(* later --resume is checked against, and current.json.  Any command may    *)
(* fail or be killed between two steps, and the next one starts from what   *)
(* it left.                                                                 *)
EXTENDS Naturals

CONSTANTS
  Names,          \* enclave names
  Configs,        \* network scenarios, told apart by what a resume must keep
  Resumable,      \* those without goXRPL nodes
  None            \* no enclave, no record, no name

Workload == "workload"     \* any scenario with a workload

ASSUME NamesAssumption ==
  /\ Resumable \subseteq Configs
  /\ None \notin Names \cup Configs \cup {Workload}
  /\ Workload \notin Configs

VARIABLES
  enclave,    \* per name: the scenario its ledger data was started with (external)
  saved,      \* per name: .confluence/networks
  current,    \* the enclave .confluence/current.json names
  cmd,        \* the running command: what was asked, where it is
  unfinished  \* history: names whose last command failed or was killed

vars == <<enclave, saved, current, cmd, unfinished>>

Command(op, name, scenario) ==
  [op |-> op, name |-> name, scenario |-> scenario, pc |-> "start", attempt |-> 1]

Idle == [op |-> "none", name |-> None, scenario |-> None, pc |-> "idle", attempt |-> 1]

Ups == {"up", "resume", "reset", "run"}

Pcs == {"idle", "start", "wipe", "unlist", "save", "boot", "launch", "wait", "discover",
        "record", "poll", "remove", "forget"}

(* enclave, saved, current and cmd hold what their comments say.            *)
TypeOK ==
  /\ enclave \in [Names -> Configs \cup {Workload, None}]
  /\ saved \in [Names -> Configs \cup {None}]
  /\ current \in Names \cup {None}
  /\ cmd \in [op : Ups \cup {"down", "none"}, name : Names \cup {None},
              scenario : Configs \cup {Workload, None}, pc : Pcs, attempt : 1..3]
  /\ unfinished \subseteq Names

NetworkOnly == cmd.scenario \in Configs

At(pc) == cmd.pc = pc

Go(pc) == cmd' = [cmd EXCEPT !.pc = pc]

Succeed ==
  /\ cmd' = Idle
  /\ unfinished' = unfinished \ {cmd.name}

Fail ==
  /\ cmd' = Idle
  /\ unfinished' = unfinished \cup {cmd.name}

Refuse == cmd' = Idle /\ UNCHANGED unfinished

Init ==
  /\ enclave = [n \in Names |-> None]
  /\ saved = [n \in Names |-> None]
  /\ current = None
  /\ cmd = Idle
  /\ unfinished = {}

(* --resume and --reset ask for a network, run for a workload.              *)
Start ==
  /\ At("idle")
  /\ \E n \in Names :
       \/ \E s \in Configs : \E op \in {"up", "resume", "reset"} : cmd' = Command(op, n, s)
       \/ \E op \in {"up", "run"} : cmd' = Command(op, n, Workload)
       \/ cmd' = Command("down", n, None)
  /\ UNCHANGED <<enclave, saved, current, unfinished>>

\* down without a name takes the current one
StartDownCurrent ==
  /\ At("idle") /\ current # None
  /\ cmd' = Command("down", current, None)
  /\ UNCHANGED <<enclave, saved, current, unfinished>>

(* What up asks of a persistent network before it touches anything.         *)
\* mutant: any record will do
AnyNetwork(previous, next) == TRUE

compatibleNetwork(previous, next) == previous = next

checkNetworkLifecycle ==
  LET exists == enclave[cmd.name] # None IN
  IF cmd.op = "resume"
  THEN /\ cmd.scenario \in Resumable /\ exists
       /\ saved[cmd.name] # None /\ compatibleNetwork(saved[cmd.name], cmd.scenario)
  ELSE ~exists \/ cmd.op = "reset"

Check ==
  /\ At("start") /\ cmd.op \in Ups
  /\ IF NetworkOnly => checkNetworkLifecycle
     THEN /\ Go(CASE ~NetworkOnly -> "boot" [] cmd.op = "reset" -> "wipe" [] OTHER -> "save")
          /\ UNCHANGED unfinished
     ELSE Refuse
  /\ UNCHANGED <<enclave, saved, current>>

(* kurtosis enclave rm; a missing enclave is no error.                      *)
RemoveEnclave(then) ==
  \/ /\ enclave' = [enclave EXCEPT ![cmd.name] = None]
     /\ Go(then) /\ UNCHANGED unfinished
  \/ enclave' = enclave /\ Fail

Wipe ==
  /\ At("wipe")
  /\ RemoveEnclave("unlist")
  /\ UNCHANGED <<saved, current>>

\* current.json is removed when it names this enclave
\* mutant: the file stays when its enclave goes
WithName == current

WithoutName == IF current = cmd.name THEN None ELSE current

UnlistReset ==
  /\ At("unlist") /\ cmd.op = "reset"
  /\ \/ /\ current' = WithoutName
        /\ Go("save") /\ UNCHANGED unfinished
     \/ current' = current /\ Fail
  /\ UNCHANGED <<enclave, saved>>

WriteNetwork ==
  /\ At("save")
  /\ \/ /\ saved' = [saved EXCEPT ![cmd.name] = cmd.scenario]
        /\ Go("boot") /\ UNCHANGED unfinished
     \/ saved' = saved /\ Fail
  /\ UNCHANGED <<enclave, current>>

------------------------------------------------------------------------------
(* kurtosis.Run: a workload boot wipes the name first (--tear-down-first),  *)
(* and any boot wipes it before it tries again.  A network gets one try.    *)
\* mutant: a network is tried again like a workload
AlwaysThree == 3

MaxAttempts == IF NetworkOnly THEN 1 ELSE 3

TearDownFirst == ~NetworkOnly

BootWipes ==
  /\ At("boot")
  /\ TearDownFirst \/ cmd.attempt > 1
  /\ RemoveEnclave("launch")
  /\ UNCHANGED <<saved, current>>

BootKeeps ==
  /\ At("boot") /\ cmd.attempt = 1
  /\ Go("launch")
  /\ UNCHANGED <<enclave, saved, current, unfinished>>

(* What kurtosis run does to the enclave (external): it makes one where     *)
(* there is none, now or before it fails, and keeps the data of one that is *)
(* there.                                                                   *)
Launched(n) ==
  IF enclave[n] = None THEN [enclave EXCEPT ![n] = cmd.scenario] ELSE enclave

Launch ==
  /\ At("launch")
  /\ enclave' = Launched(cmd.name)
  /\ Go("wait")
  /\ UNCHANGED <<saved, current, unfinished>>

LaunchFails ==
  /\ At("launch")
  /\ enclave' \in {enclave, Launched(cmd.name)}
  /\ Fail
  /\ UNCHANGED <<saved, current>>

\* a transient failure; a CLI that was silent for too long is one, and killed
LaunchHangs ==
  /\ At("launch") /\ cmd.attempt < MaxAttempts
  /\ enclave' \in {enclave, Launched(cmd.name)}
  /\ cmd' = [cmd EXCEPT !.pc = "boot", !.attempt = @ + 1]
  /\ UNCHANGED <<saved, current, unfinished>>

(* A network may do without the control service; its nodes' endpoints are   *)
(* looked up.                                                               *)
waitForControl ==
  /\ At("wait")
  /\ \/ Go(IF NetworkOnly THEN "discover" ELSE "record") /\ UNCHANGED unfinished
     \/ Fail
  /\ UNCHANGED <<enclave, saved, current>>

discoverNetwork ==
  /\ At("discover")
  /\ (Go("record") /\ UNCHANGED unfinished) \/ Fail
  /\ UNCHANGED <<enclave, saved, current>>

WriteCurrent ==
  /\ At("record")
  /\ \/ /\ current' = cmd.name
        /\ IF cmd.op = "run" THEN Go("poll") /\ UNCHANGED unfinished ELSE Succeed
     \/ current' = current /\ Fail
  /\ UNCHANGED <<enclave, saved>>

(* run: the control service's run starts, ends and may be started again     *)
(* (--resume-on-finding); whatever comes of it, the enclave is torn down    *)
(* unless --down=false.                                                     *)
runRun ==
  /\ At("poll")
  /\ \/ Go("remove") /\ UNCHANGED unfinished
     \/ Succeed
  /\ UNCHANGED <<enclave, saved, current>>

(* down, and the end of run.                                                *)
StartTearDown ==
  /\ At("start") /\ cmd.op = "down"
  /\ Go("remove")
  /\ UNCHANGED <<enclave, saved, current, unfinished>>

TearDown ==
  /\ At("remove")
  /\ RemoveEnclave("forget")
  /\ UNCHANGED <<saved, current>>

RemoveNetwork ==
  /\ At("forget")
  /\ \/ /\ saved' = [saved EXCEPT ![cmd.name] = None]
        /\ Go("unlist") /\ UNCHANGED unfinished
     \/ saved' = saved /\ Fail
  /\ UNCHANGED <<enclave, current>>

UnlistDown ==
  /\ At("unlist") /\ cmd.op \in {"down", "run"}
  /\ \/ current' = WithoutName /\ Succeed
     \/ current' = current /\ Fail
  /\ UNCHANGED <<enclave, saved>>

Killed ==
  /\ ~At("idle") /\ Fail
  /\ UNCHANGED <<enclave, saved, current>>

Next ==
  \/ Start \/ StartDownCurrent \/ Check
  \/ Wipe \/ UnlistReset \/ WriteNetwork
  \/ BootWipes \/ BootKeeps \/ Launch \/ LaunchFails \/ LaunchHangs
  \/ waitForControl \/ discoverNetwork \/ WriteCurrent
  \/ runRun \/ StartTearDown \/ TearDown \/ RemoveNetwork \/ UnlistDown
  \/ Killed

Spec == Init /\ [][Next]_vars

------------------------------------------------------------------------------
(* "--resume keeps the persistent data; the network settings are part of    *)
(* resume identity": whatever commands failed half-way before, no network   *)
(* is ever resumed over the ledger data of another one.  (A workload that   *)
(* took the name over leaves no network's data.)                            *)
ResumeMatches ==
  At("launch") /\ cmd.op = "resume" =>
    enclave[cmd.name] \in {Workload, cmd.scenario}

(* The ledger data of a network is never thrown away by up or --resume of a *)
(* network, not even after a transient failure of Kurtosis: only --reset,   *)
(* down, or a workload booted under its name removes it.                    *)
LedgerDataKept ==
  [][\A n \in Names :
       enclave[n] \in Configs /\ enclave'[n] # enclave[n] =>
         cmd.name = n /\ (cmd.op \in {"reset", "down"} \/ cmd.scenario = Workload)]_vars

(* Between commands current.json names an enclave that is there, unless a   *)
(* command on that name failed or was killed on the way.                    *)
CurrentIsLive ==
  At("idle") /\ current # None /\ current \notin unfinished => enclave[current] # None
=============================================================================
