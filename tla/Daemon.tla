---- MODULE Daemon ----
(***************************************************************************)
(* The detached registration worker and the files by which the commands    *)
(* that start and stop it find it: PID file, stop file, lock file and      *)
(* state.json (internal/daemon, internal/runner, internal/state, the       *)
(* commands of cmd/grok and App.Start, App.Stop of the desktop).           *)
(*                                                                         *)
(* Every command is a process of its own except the desktop, whose calls   *)
(* App.mu serialises and which stays the parent of the workers it started: *)
(* it releases them without waiting (daemon_unix.go:48), so that one that  *)
(* ends stays a zombie, and PIDAlive, kill(pid, 0), calls a zombie alive.  *)
(* What happens inside the engine is the module Pipeline's subject.        *)
(***************************************************************************)
EXTENDS Naturals, FiniteSets

CONSTANTS Cli,       \* terminals that run grf start and grf stop
          Desktop,   \* the Wails process
          MaxPid     \* bound: how many workers are ever started

Callers == Cli \cup {Desktop}
Pids == 1..MaxPid
Writers == Callers \cup Pids     \* the processes that write state.json

ASSUME DaemonAssumption == Desktop \notin Cli /\ MaxPid \in Nat \ {0} /\ Callers \cap Pids = {}

VARIABLES pidFile,    \* content of the PID file, 0 when missing or empty
          stopFile,   \* the worker the stop file was written for, 0 when missing
          lock,       \* holder of the lock file, 0 when free
          snap,       \* state.json: status and pid, or what a torn write left of them
          snapTmp,    \* state.json.tmp, which every process writes under the same name
          set,        \* the Store.Set each process is in: how far it is, the file its descriptor
                      \* is open on, the snapshot it writes, and whether it met no other Set so far
          proc,       \* how far each worker process is in RunWorker
          kids,       \* the children each caller's process has not reaped
          cmd,        \* how far each caller is in its command, and for which worker
          overlapped, \* history: a command began while another one was under way or a worker
                      \* had not written its PID yet
          spoiled,    \* history: since a Set last had the file for itself, one met another or failed
          cut         \* history: the worker whose PID a start emptied last and did not write back

stateVars == <<snap, snapTmp, set, spoiled>>
dVars == <<pidFile, stopFile, lock, stateVars, proc, kids, cmd, overlapped, cut>>

\* States of a worker that the kernel would still schedule, those in which it holds the lock,
\* and those of pipeline.Run after its first Set.
Locked == {"locked", "cleared", "truncated", "published", "prelude", "running", "draining",
           "ended", "unpublished", "uncleared"}
Executing == Locked \cup {"booting"}
Engine == {"prelude", "running", "draining"}

StartSteps == {"state", "clear", "spawn", "open", "write", "publish", "told"}
StopSteps == {"request", "signal", "wait", "killed", "unpid", "unstop", "report",
              "stalePid", "staleStop", "staleState", "reported"}

Idle == [pc |-> "idle", pid |-> 0]

\* What a state file holds: a snapshot, nothing, or the remains of two snapshots. NoFile is its absence.
Says(status, p) == [status |-> status, pid |-> p]
Empty == Says("empty", 0)
Torn == Says("torn", 0)
NoFile == Says("missing", 0)
Snapshots == [status : {"stopped", "running", "error"}, pid : {0} \cup Pids]

NoSet == [pc |-> "none", fd |-> "tmp", new |-> Says("stopped", 0), alone |-> FALSE]

DaemonTypeOK ==
    /\ pidFile \in {0} \cup Pids
    /\ stopFile \in {0} \cup Pids
    /\ lock \in {0} \cup Pids
    /\ snap \in Snapshots \cup {Empty, Torn}
    /\ snapTmp \in Snapshots \cup {Empty, Torn, NoFile}
    /\ set \in [Writers -> [pc : {"none", "opened", "written"}, fd : {"tmp", "state", "lost"},
                            new : Snapshots, alone : BOOLEAN]]
    /\ proc \in [Pids -> Executing \cup {"none", "gone"}]
    /\ kids \in [Callers -> SUBSET Pids]
    /\ cmd \in [Callers -> [pc : StartSteps \cup StopSteps \cup {"idle"}, pid : {0} \cup Pids]]
    /\ overlapped \in BOOLEAN
    /\ spoiled \in {"no", "met", "failed"}
    /\ cut \in {0} \cup Pids

DInit ==
    /\ pidFile = 0 /\ stopFile = 0 /\ lock = 0
    /\ snap = Says("stopped", 0) /\ snapTmp = NoFile
    /\ set = [w \in Writers |-> NoSet]
    /\ proc = [p \in Pids |-> "none"]
    /\ kids = [c \in Callers |-> {}]
    /\ cmd = [c \in Callers |-> Idle]
    /\ overlapped = FALSE /\ spoiled = "no" /\ cut = 0

----------------------------------------------------------------------------
\* Store.Set. Its mutex holds within one process only; between processes the steps interleave.

Setting(w) == set[w].pc # "none"

\* os.WriteFile opens state.json.tmp with O_TRUNC, whoever else is writing it.
SetBegin(w, s) ==
    LET others == {v \in Writers \ {w} : Setting(v)} IN
      /\ snapTmp' = Empty
      /\ set' = [v \in Writers |->
                   IF v = w THEN [pc |-> "opened", fd |-> "tmp", new |-> s, alone |-> others = {}]
                            ELSE [set[v] EXCEPT !.alone = FALSE]]
      /\ spoiled' = IF others # {} /\ spoiled = "no" THEN "met" ELSE spoiled

\* The write goes to the file that was opened, which may be state.json by now, or have no name;
\* over another text it leaves that text's tail when it is the shorter one.
SetWrite(w) ==
    /\ set[w].pc = "opened"
    /\ set' = [set EXCEPT ![w].pc = "written"]
    /\ \E text \in {set[w].new, Torn} :
         /\ text = Torn => CASE set[w].fd = "tmp" -> snapTmp # Empty
                             [] set[w].fd = "state" -> snap # Empty
                             [] set[w].fd = "lost" -> FALSE
         /\ snapTmp' = IF set[w].fd = "tmp" THEN text ELSE snapTmp
         /\ snap' = IF set[w].fd = "state" THEN text ELSE snap
    /\ UNCHANGED <<pidFile, stopFile, lock, proc, kids, cmd, overlapped, spoiled, cut>>

\* os.Rename moves whatever bears the temporary name; when nothing does, its error is ignored.
SetRename(w) ==
    /\ set[w].pc = "written"
    /\ IF snapTmp # NoFile THEN snap' = snapTmp /\ snapTmp' = NoFile ELSE UNCHANGED <<snap, snapTmp>>
    /\ set' = [v \in Writers |->
                 IF v = w THEN NoSet
                 ELSE [set[v] EXCEPT !.fd = IF snapTmp = NoFile \/ ~Setting(v) THEN @
                                            ELSE IF @ = "tmp" THEN "state" ELSE "lost"]]
    /\ spoiled' = IF set[w].alone THEN "no" ELSE spoiled
    /\ UNCHANGED <<pidFile, stopFile, lock, proc, kids, cmd, overlapped, cut>>

\* A Set that the disk refuses: every caller drops its error.
SetFails(w) ==
    /\ Setting(w)
    /\ set' = [set EXCEPT ![w] = NoSet]
    /\ spoiled' = "failed"
    /\ UNCHANGED <<pidFile, stopFile, lock, snap, snapTmp, proc, kids, cmd, overlapped, cut>>

\* PIDAlive: signal 0 reaches a process that runs and one its parent has not reaped.
PIDAlive(p) ==
    \/ p \in Pids /\ proc[p] \in Executing
    \/ p \in Pids /\ proc[p] = "gone" /\ \E c \in Callers : p \in kids[c]

\* The kernel ends a worker in the middle of whatever it does: its lock goes with the file
\* descriptor, its deferred calls do not run.
Killed(p) ==
    /\ proc' = [proc EXCEPT ![p] = "gone"]
    /\ lock' = IF lock = p THEN 0 ELSE lock
    /\ set' = [set EXCEPT ![p] = NoSet]

----------------------------------------------------------------------------
\* The worker process: RunWorker and, in between, pipeline.Run.

At(p, s) == proc[p] = s
Move(p, s) == proc' = [proc EXCEPT ![p] = s]

\* Mutant: the worker goes on when the lock is taken.
TryLockIgnored(p) ==
    /\ At(p, "booting") /\ Move(p, "locked")
    /\ lock' = IF lock = 0 THEN p ELSE lock
    /\ UNCHANGED <<pidFile, stopFile, stateVars, kids, cmd, overlapped, cut>>

\* daemon.TryLock; a worker that does not get the lock ends at once, with nothing deferred yet.
TryLock(p) ==
    /\ At(p, "booting")
    /\ \/ lock = 0 /\ lock' = p /\ Move(p, "locked")
       \/ lock # 0 /\ Move(p, "gone") /\ UNCHANGED lock
    /\ UNCHANGED <<pidFile, stopFile, stateVars, kids, cmd, overlapped, cut>>

\* The worker's own ClearStop.
WorkerClearStop(p) ==
    /\ At(p, "locked") /\ Move(p, "cleared")
    /\ stopFile' = 0
    /\ UNCHANGED <<pidFile, lock, stateVars, kids, cmd, overlapped, cut>>

\* WritePID opens the file with O_TRUNC, then writes: in between a reader finds it empty.
WorkerOpenPID(p) ==
    /\ At(p, "cleared")
    /\ \/ Move(p, "truncated") /\ pidFile' = 0
       \/ Move(p, "unpublished") /\ UNCHANGED pidFile     \* cannot be opened: RunWorker returns
    /\ UNCHANGED <<stopFile, lock, stateVars, kids, cmd, overlapped, cut>>

WorkerWritePID(p) ==
    /\ At(p, "truncated")
    /\ \/ Move(p, "published") /\ pidFile' = p
       \/ Move(p, "unpublished") /\ UNCHANGED pidFile     \* cannot be written: RunWorker returns
    /\ UNCHANGED <<stopFile, lock, stateVars, kids, cmd, overlapped, cut>>

\* Configuration, run directory and log: an error returns, otherwise the first Set says running.
WorkerPrepare(p) ==
    /\ At(p, "published")
    /\ \/ Move(p, "prelude") /\ SetBegin(p, Says("running", p))
       \/ Move(p, "ended") /\ UNCHANGED <<snapTmp, set, spoiled>>
    /\ UNCHANGED <<pidFile, stopFile, lock, snap, kids, cmd, overlapped, cut>>

\* The engine warms up; only then are the signal handler and the poll of the stop file installed.
EngineStart(p) ==
    /\ At(p, "prelude") /\ ~Setting(p)
    /\ \/ Move(p, "running") /\ UNCHANGED <<snapTmp, set, spoiled>>
       \/ Move(p, "ended") /\ SetBegin(p, Says("error", 0))
    /\ UNCHANGED <<pidFile, stopFile, lock, snap, kids, cmd, overlapped, cut>>

\* The engine, its status ticker and its loops rewrite the whole snapshot from the worker's copy.
Tick(p) ==
    /\ proc[p] \in Engine /\ ~Setting(p)
    /\ SetBegin(p, Says("running", p))
    /\ UNCHANGED <<pidFile, stopFile, lock, snap, proc, kids, cmd, overlapped, cut>>

\* The poll finds a stop file, removes it and cancels the engine.
StopFileSeen(p) ==
    /\ At(p, "running") /\ stopFile # 0
    /\ stopFile' = 0 /\ Move(p, "draining")
    /\ UNCHANGED <<pidFile, lock, stateVars, kids, cmd, overlapped, cut>>

TargetReached(p) ==
    /\ At(p, "running") /\ Move(p, "draining")
    /\ UNCHANGED <<pidFile, stopFile, lock, stateVars, kids, cmd, overlapped, cut>>

\* Every wait of the shutdown is bounded; the last Set leaves the PID out.
Drained(p) ==
    /\ At(p, "draining") /\ ~Setting(p) /\ Move(p, "ended")
    /\ SetBegin(p, Says("stopped", 0))
    /\ UNCHANGED <<pidFile, stopFile, lock, snap, kids, cmd, overlapped, cut>>

\* The deferred calls of RunWorker, last in first out: ClearPID, ClearStop, unlock.
DeferClearPID(p) ==
    /\ At(p, "ended") /\ ~Setting(p) /\ Move(p, "unpublished")
    /\ pidFile' = 0
    /\ UNCHANGED <<stopFile, lock, stateVars, kids, cmd, overlapped, cut>>

DeferClearStop(p) ==
    /\ At(p, "unpublished") /\ Move(p, "uncleared")
    /\ stopFile' = 0
    /\ UNCHANGED <<pidFile, lock, stateVars, kids, cmd, overlapped, cut>>

DeferUnlock(p) ==
    /\ At(p, "uncleared") /\ Killed(p)
    /\ UNCHANGED <<pidFile, stopFile, snap, snapTmp, kids, cmd, overlapped, spoiled, cut>>

\* A panic or the kernel ends a worker wherever it is, without its deferred calls.
Crash(p) ==
    /\ proc[p] \in Executing /\ Killed(p)
    /\ UNCHANGED <<pidFile, stopFile, snap, snapTmp, kids, cmd, overlapped, spoiled, cut>>

\* One step of RunWorker; what it waits for is out of its hands only in Tick, the target and a crash.
WorkerStep(p) ==
    \/ TryLock(p) \/ WorkerClearStop(p) \/ WorkerOpenPID(p) \/ WorkerWritePID(p)
    \/ WorkerPrepare(p) \/ EngineStart(p) \/ StopFileSeen(p) \/ Drained(p)
    \/ DeferClearPID(p) \/ DeferClearStop(p) \/ DeferUnlock(p)
    \/ SetWrite(p) \/ SetRename(p)

----------------------------------------------------------------------------
\* The commands.

Busy(c) == cmd[c].pc # "idle"
Step(c, from, to) == cmd[c].pc = from /\ cmd' = [cmd EXCEPT ![c].pc = to]
Target(c) == cmd[c].pid

\* A command begins; the history notes whether something else is under way.
Begin(c, s, p) ==
    /\ ~Busy(c)
    /\ cmd' = [cmd EXCEPT ![c] = [pc |-> s, pid |-> p]]
    /\ overlapped' = \/ overlapped
                      \/ \E d \in Callers : Busy(d)
                      \/ \E q \in Pids : proc[q] \in {"booting", "locked", "cleared", "truncated"}

\* A command returns. The process of a terminal ends with it, and init reaps its children.
Return(c) ==
    /\ cmd' = [cmd EXCEPT ![c] = Idle]
    /\ kids' = IF c = Desktop THEN kids ELSE [kids EXCEPT ![c] = {}]

\* Mutant: a start does not look for a worker that runs.
StartCheckBlind(c) ==
    /\ \E p \in Pids : proc[p] = "none"
    /\ Begin(c, "state", 0)
    /\ UNCHANGED <<pidFile, stopFile, lock, stateVars, proc, kids, cut>>

\* grf start, App.Start: a living PID refuses the command (which then changes nothing).
StartCheck(c) ==
    /\ \E p \in Pids : proc[p] = "none"
    /\ ~(pidFile # 0 /\ PIDAlive(pidFile))
    /\ Begin(c, "state", 0)
    /\ UNCHANGED <<pidFile, stopFile, lock, stateVars, proc, kids, cut>>

\* The questions of an interactive start, the run directory, then a fresh snapshot.
StartState(c) ==
    /\ Step(c, "state", "clear")
    /\ SetBegin(c, Says("running", 0))
    /\ UNCHANGED <<pidFile, stopFile, lock, snap, proc, kids, overlapped, cut>>

StartClearStop(c) ==
    /\ Step(c, "clear", "spawn") /\ ~Setting(c)
    /\ stopFile' = 0
    /\ UNCHANGED <<pidFile, lock, stateVars, proc, kids, overlapped, cut>>

IsNextPid(p) == proc[p] = "none" /\ \A q \in Pids : q < p => proc[q] # "none"

StartBackground(c) ==
    /\ cmd[c].pc = "spawn"
    /\ \E p \in Pids :
         /\ IsNextPid(p)
         /\ cmd' = [cmd EXCEPT ![c] = [pc |-> "open", pid |-> p]]
         /\ proc' = [proc EXCEPT ![p] = "booting"]
         /\ kids' = [kids EXCEPT ![c] = @ \cup {p}]
    /\ UNCHANGED <<pidFile, stopFile, lock, stateVars, overlapped, cut>>

StartOpenPID(c) ==
    /\ Step(c, "open", "write")
    /\ pidFile' = 0
    /\ UNCHANGED <<stopFile, lock, stateVars, proc, kids, overlapped, cut>>

StartWritePID(c) ==
    /\ Step(c, "write", "publish")
    /\ pidFile' = Target(c)
    /\ UNCHANGED <<stopFile, lock, stateVars, proc, kids, overlapped, cut>>

\* Mutant: the starter's second Set forgets the worker's PID.
StartPublishNobody(c) ==
    /\ Step(c, "publish", "told")
    /\ SetBegin(c, Says("running", 0))
    /\ UNCHANGED <<pidFile, stopFile, lock, snap, proc, kids, overlapped, cut>>

\* The starter's second Set writes its own copy back, whatever the worker has written since.
StartPublish(c) ==
    /\ Step(c, "publish", "told")
    /\ SetBegin(c, Says("running", Target(c)))
    /\ UNCHANGED <<pidFile, stopFile, lock, snap, proc, kids, overlapped, cut>>

\* A command returns once its last Set has.
CommandDone(c) ==
    /\ cmd[c].pc \in {"told", "reported"} /\ ~Setting(c)
    /\ Return(c)
    /\ UNCHANGED <<pidFile, stopFile, lock, stateVars, proc, overlapped, cut>>

\* StartBackground or WritePID fails, or the operator interrupts the start, wherever it is. Between
\* the truncation and the write this empties the PID file, which the worker may have written before.
StartFails(c) ==
    /\ cmd[c].pc \in StartSteps
    /\ Return(c)
    /\ set' = [set EXCEPT ![c] = NoSet]
    /\ cut' = IF /\ cmd[c].pc = "write" /\ proc[Target(c)] \in Engine \cup {"published"}
                 /\ pidFile # Target(c)
                 THEN Target(c) ELSE cut
    /\ UNCHANGED <<pidFile, stopFile, lock, snap, snapTmp, proc, overlapped, spoiled>>

\* daemon.Stop: without a PID file there is nothing to stop (and nothing changes).
StopCheck(c) ==
    /\ pidFile # 0
    /\ Begin(c, IF PIDAlive(pidFile) THEN "request" ELSE "stalePid", pidFile)
    /\ UNCHANGED <<pidFile, stopFile, lock, stateVars, proc, kids, cut>>

StopRequest(c) ==
    /\ Step(c, "request", "signal")
    /\ stopFile' = Target(c)
    /\ UNCHANGED <<pidFile, lock, stateVars, proc, kids, overlapped, cut>>

\* The stop file cannot be written: Stop returns before it signals or kills anybody.
StopRequestFails(c) ==
    /\ cmd[c].pc = "request"
    /\ stopFile' \in {stopFile, Target(c)}
    /\ Return(c)
    /\ UNCHANGED <<pidFile, lock, stateVars, proc, overlapped, cut>>

\* SIGTERM cancels the engine once its handler is installed; before and after, it kills.
StopSignal(c) ==
    /\ Step(c, "signal", "wait")
    /\ LET p == Target(c) IN
         \/ At(p, "running") /\ Move(p, "draining") /\ UNCHANGED <<lock, set>>
         \/ proc[p] \in {"draining", "gone"} /\ UNCHANGED <<proc, lock, set>>
         \/ proc[p] \in Executing \ {"running", "draining"} /\ Killed(p)
    /\ UNCHANGED <<pidFile, stopFile, snap, snapTmp, kids, overlapped, spoiled, cut>>

StopSeesEnd(c) ==
    /\ Step(c, "wait", "unpid")
    /\ ~PIDAlive(Target(c))
    /\ UNCHANGED <<pidFile, stopFile, lock, stateVars, proc, kids, overlapped, cut>>

\* Mutant: an engine that is shutting down is left alone.
ForceKillUnlessDraining(c) ==
    /\ Step(c, "wait", "killed")
    /\ PIDAlive(Target(c))
    /\ IF proc[Target(c)] \in Executing \ {"draining"}
          THEN Killed(Target(c)) ELSE UNCHANGED <<proc, lock, set>>
    /\ UNCHANGED <<pidFile, stopFile, snap, snapTmp, kids, overlapped, spoiled, cut>>

\* Eight seconds have passed: SIGKILL, however far the engine's own shutdown is.
ForceKill(c) ==
    /\ Step(c, "wait", "killed")
    /\ PIDAlive(Target(c))
    /\ IF proc[Target(c)] \in Executing THEN Killed(Target(c)) ELSE UNCHANGED <<proc, lock, set>>
    /\ UNCHANGED <<pidFile, stopFile, snap, snapTmp, kids, overlapped, spoiled, cut>>

\* One more second of polls: a zombie still answers, and the command fails with its files in place.
StopAfterKill(c) ==
    /\ cmd[c].pc = "killed"
    /\ \/ PIDAlive(Target(c)) /\ Return(c)
       \/ ~PIDAlive(Target(c)) /\ Step(c, "killed", "unpid") /\ UNCHANGED kids
    /\ UNCHANGED <<pidFile, stopFile, lock, stateVars, proc, overlapped, cut>>

StopClearPID(c) ==
    /\ \/ Step(c, "unpid", "unstop")
       \/ Step(c, "stalePid", "staleStop")
    /\ pidFile' = 0
    /\ UNCHANGED <<stopFile, lock, stateVars, proc, kids, overlapped, cut>>

StopClearStop(c) ==
    /\ \/ Step(c, "unstop", "report")
       \/ Step(c, "staleStop", "staleState")
    /\ stopFile' = 0
    /\ UNCHANGED <<pidFile, lock, stateVars, proc, kids, overlapped, cut>>

\* The last Set: by the caller after a stop, by daemon.Stop itself after a stale PID.
StopReport(c) ==
    /\ Step(c, "report", "reported") \/ Step(c, "staleState", "reported")
    /\ SetBegin(c, Says("stopped", 0))
    /\ UNCHANGED <<pidFile, stopFile, lock, snap, proc, kids, overlapped, cut>>

\* The desktop quits between two calls: its workers live on, its zombies are reaped.
DesktopQuits ==
    /\ ~Busy(Desktop) /\ kids[Desktop] # {}
    /\ kids' = [kids EXCEPT ![Desktop] = {}]
    /\ UNCHANGED <<pidFile, stopFile, lock, stateVars, proc, cmd, overlapped, cut>>

\* What the readers of state.json answer: the desktop, and grf status, which asks the PID file when
\* the snapshot names nobody. A status of running is taken back when its process is gone; of a file
\* that does not parse the desktop reports an error and grf status says that nothing runs.
Readable == snap \notin {Empty, Torn}

Dashboard ==
    LET running == snap.pid # 0 /\ PIDAlive(snap.pid) IN
      IF Readable
        THEN [snap EXCEPT !.status = IF @ = "running" /\ ~running THEN "stopped" ELSE @]
        ELSE Says("unreadable", 0)

Reconciled ==
    LET p == IF snap.pid = 0 THEN pidFile ELSE snap.pid IN
      CASE ~Readable -> Says("stopped", 0)
        [] Readable /\ snap.status # "running" -> snap
        [] Readable /\ snap.status = "running" /\ p # 0 /\ ~PIDAlive(p) -> Says("stopped", 0)
        [] OTHER -> [snap EXCEPT !.pid = p]

FormatStatus(s) ==
    [s EXCEPT !.status = IF @ = "running" /\ s.pid # 0 /\ ~PIDAlive(s.pid) THEN "error" ELSE @]

CommandStep(c) ==
    \/ StartState(c) \/ StartClearStop(c) \/ StartBackground(c) \/ StartOpenPID(c)
    \/ StartWritePID(c) \/ StartPublish(c)
    \/ StopRequest(c) \/ StopSignal(c) \/ StopSeesEnd(c) \/ ForceKill(c) \/ StopAfterKill(c)
    \/ StopClearPID(c) \/ StopClearStop(c) \/ StopReport(c) \/ CommandDone(c)
    \/ SetWrite(c) \/ SetRename(c)

DNext ==
    \/ \E p \in Pids : WorkerStep(p) \/ Tick(p) \/ TargetReached(p) \/ Crash(p)
    \/ \E c \in Callers : CommandStep(c) \/ StartCheck(c) \/ StartFails(c)
                            \/ StopCheck(c) \/ StopRequestFails(c)
    \/ \E w \in Writers : SetFails(w)
    \/ DesktopQuits

\* Commands run to their end, which takes no step of the worker they wait for. The operator may
\* interrupt a start, not a stop.
DFairness == \A c \in Callers : WF_dVars(CommandStep(c))

DSafety == DInit /\ [][DNext]_dVars

DSpec == DSafety /\ DFairness

----------------------------------------------------------------------------
Quiet == \A c \in Callers : ~Busy(c)

\* The lock file lets one worker at a time into the engine, and it is free again as soon as its
\* holder is gone, however it ended (runner/worker.go:45, README: one task at a time).
OneWorkerAtWork ==
    /\ \A p \in Pids : proc[p] \in Locked <=> lock = p
    /\ Cardinality({p \in Pids : proc[p] \in Engine}) <= 1

\* As long as commands follow each other, an engine at work can be stopped: between two commands
\* the PID file names it (README.md:54, the desktop and the terminal stop each other's tasks). The one
\* exception is a worker whose own entry a start wiped and was cut short before it wrote it back.
WorkerIsFindable ==
    ~overlapped /\ Quiet => \A p \in Pids : proc[p] \in Engine => pidFile = p \/ cut = p

\* As long as commands follow each other, both the desktop and grf status say of an engine at work
\* that it runs and which process it is: a starter or a stopper never leaves an older answer in
\* state.json, though each writes its own copy over the worker's, through one temporary file. When
\* two of these writes met, what they leave is that answer or does not parse, until the worker's next.
StatusTellsWorker ==
    ~overlapped /\ Quiet /\ spoiled # "failed" =>
        \A p \in Pids \ {cut} : proc[p] \in {"running", "draining"} =>
            \/ Dashboard = Says("running", p) /\ FormatStatus(Reconciled) = Says("running", p)
            \/ spoiled = "met" /\ ~Readable

\* A stop that has put its request down ends its worker, whatever the engine is waiting for: when the
\* requests go unheard the worker is killed (daemon.go:130, README.md:54).
StopEndsItsWorker ==
    \A c \in Callers, p \in Pids :
        (cmd[c] = [pc |-> "signal", pid |-> p]) ~> (proc[p] = "gone")

====
