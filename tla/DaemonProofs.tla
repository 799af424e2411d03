---- MODULE DaemonProofs ----
(***************************************************************************)
(* The detached worker's files, for any number of terminals and of workers *)
(* ever started: the lock lets one worker at a time into the engine, and   *)
(* as long as commands follow each other the PID file and state.json tell  *)
(* of it.                                                                  *)
(***************************************************************************)
EXTENDS Daemon, FiniteSetTheorems, TLAPS

USE DaemonAssumption DEF DaemonAssumption

LockTells == \A p \in Pids : proc[p] \in Locked <=> lock = p

Cmds == [pc : StartSteps \cup StopSteps \cup {"idle"}, pid : {0} \cup Pids]
States == Executing \cup {"none", "gone"}
SetRecs == [pc : {"none", "opened", "written"}, fd : {"tmp", "state", "lost"},
            new : Snapshots, alone : BOOLEAN]

\* The type invariant in two parts: state.json with the Sets that write it, and the rest.
StateTypeOK ==
    /\ snap \in Snapshots \cup {Empty, Torn}
    /\ snapTmp \in Snapshots \cup {Empty, Torn, NoFile}
    /\ set \in [Writers -> SetRecs]
    /\ spoiled \in {"no", "met", "failed"}

RestTypeOK ==
    /\ pidFile \in {0} \cup Pids
    /\ stopFile \in {0} \cup Pids
    /\ lock \in {0} \cup Pids
    /\ proc \in [Pids -> States]
    /\ kids \in [Callers -> SUBSET Pids]
    /\ cmd \in [Callers -> Cmds]
    /\ overlapped \in BOOLEAN
    /\ cut \in {0} \cup Pids

LEMMA TypeParts == DaemonTypeOK <=> StateTypeOK /\ RestTypeOK
BY DEF DaemonTypeOK, StateTypeOK, RestTypeOK, SetRecs, States, Cmds

LEMMA TypePartsPrime == DaemonTypeOK' <=> StateTypeOK' /\ RestTypeOK'
BY DEF DaemonTypeOK, StateTypeOK, RestTypeOK, SetRecs, States, Cmds

LEMMA SayingsAreSnapshots ==
  /\ \A q \in {0} \cup Pids : Says("running", q) \in Snapshots
  /\ Says("stopped", 0) \in Snapshots
  /\ Says("error", 0) \in Snapshots
BY DEF Says, Snapshots

LEMMA NoSetType == NoSet \in SetRecs /\ NoSet.pc = "none" /\ NoSet.alone = FALSE
BY SayingsAreSnapshots DEF NoSet, SetRecs

LEMMA DInitHolds == DInit => DaemonTypeOK /\ LockTells
<1> SUFFICES ASSUME DInit PROVE DaemonTypeOK /\ LockTells
  OBVIOUS
<1>1. Idle \in Cmds
  BY DEF Idle, Cmds
<1>2. RestTypeOK
  BY <1>1 DEF DInit, RestTypeOK, States
<1>3. StateTypeOK
  BY NoSetType, SayingsAreSnapshots DEF DInit, StateTypeOK
<1>4. LockTells
  BY DEF DInit, LockTells, Locked, Pids
<1> QED BY <1>2, <1>3, <1>4, TypeParts

----------------------------------------------------------------------------
\* What a step may do to state.json: nothing, a step of a Set, or the end of one.

Ends(w) ==
    /\ set' = [set EXCEPT ![w] = NoSet]
    /\ UNCHANGED <<snap, snapTmp>>
    /\ spoiled' \in {spoiled, "failed"}

Begins(w, s) == SetBegin(w, s) /\ UNCHANGED snap

StateStep ==
    \/ UNCHANGED stateVars
    \/ \E w \in Writers, s \in Snapshots : Begins(w, s)
    \/ \E w \in Writers : SetWrite(w) \/ SetRename(w)
    \/ \E w : Ends(w)

LEMMA BeginSets ==
  ASSUME StateTypeOK, NEW w \in Writers, NEW s \in Snapshots, Begins(w, s)
  PROVE  /\ set' \in [Writers -> SetRecs]
         /\ snap' = snap /\ snapTmp' = Empty
         /\ set'[w].pc = "opened" /\ set'[w].fd = "tmp" /\ set'[w].new = s
         /\ set'[w].alone <=> \A v \in Writers : v # w => ~Setting(v)
         /\ \A v \in Writers : v # w =>
               /\ set'[v].pc = set[v].pc /\ set'[v].fd = set[v].fd /\ set'[v].new = set[v].new
               /\ ~set'[v].alone
         /\ spoiled' \in {"no", "met", "failed"}
         /\ spoiled' = "failed" <=> spoiled = "failed"
         /\ spoiled' = "no" => spoiled = "no" /\ \A v \in Writers : v # w => ~Setting(v)
<1> DEFINE others == {v \in Writers \ {w} : Setting(v)}
<1>1. /\ snapTmp' = Empty /\ snap' = snap
      /\ set' = [v \in Writers |->
                   IF v = w THEN [pc |-> "opened", fd |-> "tmp", new |-> s, alone |-> others = {}]
                            ELSE [set[v] EXCEPT !.alone = FALSE]]
      /\ spoiled' = IF others # {} /\ spoiled = "no" THEN "met" ELSE spoiled
  BY DEF Begins, SetBegin
<1>2. others = {} <=> \A v \in Writers : v # w => ~Setting(v)
  OBVIOUS
<1> HIDE DEF others
<1>3. set'[w] = [pc |-> "opened", fd |-> "tmp", new |-> s, alone |-> others = {}]
  BY <1>1
<1>4. [pc |-> "opened", fd |-> "tmp", new |-> s, alone |-> others = {}] \in SetRecs
  BY DEF SetRecs
<1>5. ASSUME NEW v \in Writers, v # w
      PROVE  /\ set'[v] = [set[v] EXCEPT !.alone = FALSE]
             /\ set'[v] \in SetRecs
  BY <1>1, <1>5 DEF StateTypeOK, SetRecs
<1>6. set' \in [Writers -> SetRecs]
  BY <1>1, <1>3, <1>4, <1>5
<1>7. \A v \in Writers : v # w =>
         /\ set'[v].pc = set[v].pc /\ set'[v].fd = set[v].fd /\ set'[v].new = set[v].new
         /\ ~set'[v].alone
  <2> SUFFICES ASSUME NEW v \in Writers, v # w
               PROVE  /\ set'[v].pc = set[v].pc /\ set'[v].fd = set[v].fd /\ set'[v].new = set[v].new
                      /\ ~set'[v].alone
    OBVIOUS
  <2>1. set[v] \in SetRecs
    BY DEF StateTypeOK
  <2> QED BY <1>5, <2>1 DEF SetRecs
<1>8. set'[w].pc = "opened" /\ set'[w].fd = "tmp" /\ set'[w].new = s /\ set'[w].alone = (others = {})
  BY <1>3
<1> QED BY <1>1, <1>2, <1>6, <1>7, <1>8 DEF StateTypeOK

LEMMA WriteSets ==
  ASSUME StateTypeOK, NEW w \in Writers, SetWrite(w)
  PROVE  /\ set' \in [Writers -> SetRecs]
         /\ set[w].pc = "opened" /\ set'[w].pc = "written"
         /\ \A v \in Writers : /\ set'[v].fd = set[v].fd /\ set'[v].new = set[v].new
                               /\ set'[v].alone = set[v].alone
                               /\ v # w => set'[v].pc = set[v].pc
         /\ spoiled' = spoiled
         /\ \E text \in {set[w].new, Torn} :
              /\ set[w].fd = "tmp" /\ snapTmp = Empty => text = set[w].new
              /\ snapTmp' = IF set[w].fd = "tmp" THEN text ELSE snapTmp
              /\ snap' = IF set[w].fd = "state" THEN text ELSE snap
<1>1. /\ set[w].pc = "opened" /\ set' = [set EXCEPT ![w].pc = "written"] /\ spoiled' = spoiled
  BY DEF SetWrite
<1>2. set' \in [Writers -> SetRecs]
  BY <1>1 DEF StateTypeOK, SetRecs
<1>3. set'[w].pc = "written"
  BY <1>1 DEF StateTypeOK, SetRecs
<1>4. \A v \in Writers : /\ set'[v].fd = set[v].fd /\ set'[v].new = set[v].new
                         /\ set'[v].alone = set[v].alone
                         /\ v # w => set'[v].pc = set[v].pc
  BY <1>1 DEF StateTypeOK, SetRecs
<1>5. PICK text \in {set[w].new, Torn} :
         /\ text = Torn => CASE set[w].fd = "tmp" -> snapTmp # Empty
                             [] set[w].fd = "state" -> snap # Empty
                             [] set[w].fd = "lost" -> FALSE
         /\ snapTmp' = IF set[w].fd = "tmp" THEN text ELSE snapTmp
         /\ snap' = IF set[w].fd = "state" THEN text ELSE snap
  BY DEF SetWrite
<1>6. set[w].fd = "tmp" /\ snapTmp = Empty => text = set[w].new
  BY <1>5
<1> QED BY <1>1, <1>2, <1>3, <1>4, <1>5, <1>6

LEMMA RenameSets ==
  ASSUME StateTypeOK, NEW w \in Writers, SetRename(w)
  PROVE  /\ set' \in [Writers -> SetRecs]
         /\ set[w].pc = "written" /\ set'[w] = NoSet
         /\ \A v \in Writers : v # w =>
               /\ set'[v].pc = set[v].pc /\ set'[v].new = set[v].new /\ set'[v].alone = set[v].alone
               /\ snapTmp = NoFile => set'[v].fd = set[v].fd
               /\ snapTmp # NoFile /\ Setting(v) => set'[v].fd # "tmp"
         /\ spoiled' = IF set[w].alone THEN "no" ELSE spoiled
         /\ snapTmp = NoFile => snap' = snap /\ snapTmp' = NoFile
         /\ snapTmp # NoFile => snap' = snapTmp /\ snapTmp' = NoFile
<1>1. /\ set[w].pc = "written"
      /\ set' = [v \in Writers |->
                 IF v = w THEN NoSet
                 ELSE [set[v] EXCEPT !.fd = IF snapTmp = NoFile \/ ~Setting(v) THEN @
                                            ELSE IF @ = "tmp" THEN "state" ELSE "lost"]]
      /\ spoiled' = IF set[w].alone THEN "no" ELSE spoiled
      /\ snapTmp = NoFile => snap' = snap /\ snapTmp' = NoFile
      /\ snapTmp # NoFile => snap' = snapTmp /\ snapTmp' = NoFile
  BY DEF SetRename
<1>2. set'[w] = NoSet
  BY <1>1
<1>3. ASSUME NEW v \in Writers, v # w
      PROVE  /\ set'[v] \in SetRecs
             /\ set'[v].pc = set[v].pc /\ set'[v].new = set[v].new /\ set'[v].alone = set[v].alone
             /\ snapTmp = NoFile => set'[v].fd = set[v].fd
             /\ snapTmp # NoFile /\ Setting(v) => set'[v].fd # "tmp"
  <2>1. set[v] \in SetRecs
    BY DEF StateTypeOK
  <2>2. set'[v] = [set[v] EXCEPT !.fd = IF snapTmp = NoFile \/ ~Setting(v) THEN @
                                        ELSE IF @ = "tmp" THEN "state" ELSE "lost"]
    BY <1>1, <1>3
  <2> QED BY <2>1, <2>2 DEF SetRecs
<1>4. set' \in [Writers -> SetRecs]
  BY <1>1, <1>2, <1>3, NoSetType
<1> QED BY <1>1, <1>2, <1>3, <1>4

LEMMA EndSets ==
  ASSUME StateTypeOK, NEW w, Ends(w)
  PROVE  /\ set' \in [Writers -> SetRecs]
         /\ \A v \in Writers : set'[v] = IF v = w THEN NoSet ELSE set[v]
         /\ snap' = snap /\ snapTmp' = snapTmp
         /\ spoiled' \in {spoiled, "failed"}
  BY NoSetType DEF Ends, StateTypeOK

LEMMA StateTypeStep == StateTypeOK /\ StateStep => StateTypeOK'
<1> SUFFICES ASSUME StateTypeOK, StateStep PROVE StateTypeOK'
  OBVIOUS
<1>1. CASE UNCHANGED stateVars
  BY <1>1 DEF stateVars, StateTypeOK
<1>2. ASSUME NEW w \in Writers, NEW s \in Snapshots, Begins(w, s) PROVE StateTypeOK'
  BY <1>2, BeginSets DEF StateTypeOK
<1>3. ASSUME NEW w \in Writers, SetWrite(w) PROVE StateTypeOK'
  <2>1. set[w].new \in Snapshots
    BY DEF StateTypeOK, SetRecs
  <2> QED BY <1>3, <2>1, WriteSets DEF StateTypeOK
<1>4. ASSUME NEW w \in Writers, SetRename(w) PROVE StateTypeOK'
  <2>1. spoiled' \in {"no", "met", "failed"}
    BY <1>4, RenameSets DEF StateTypeOK
  <2>2. snap' \in Snapshots \cup {Empty, Torn} /\ snapTmp' \in Snapshots \cup {Empty, Torn, NoFile}
    BY <1>4, RenameSets DEF StateTypeOK
  <2> QED BY <1>4, <2>1, <2>2, RenameSets DEF StateTypeOK
<1>5. ASSUME NEW w, Ends(w) PROVE StateTypeOK'
  BY <1>5, EndSets DEF StateTypeOK
<1> QED BY <1>1, <1>2, <1>3, <1>4, <1>5 DEF StateStep

----------------------------------------------------------------------------
\* What each step of a worker and of a command does to state.json.

WorkerState(p) ==
    \/ /\ UNCHANGED stateVars
       /\ Setting(p) /\ proc[p] \in Engine \cup {"ended"} => proc'[p] \in Engine \cup {"ended"}
       /\ Setting(p) /\ proc[p] = "prelude" => proc'[p] = "prelude"
       /\ proc'[p] \in Engine => proc[p] \in Engine
    \/ /\ \E s \in Snapshots : Begins(p, s) /\ (proc'[p] \in Engine => s = Says("running", p))
       /\ ~Setting(p) \/ proc[p] = "published"
       /\ proc[p] \in Locked /\ proc'[p] \in Engine \cup {"ended"}
       /\ proc[p] \in Engine /\ proc'[p] \in Engine => proc'[p] = proc[p]
       /\ proc'[p] \in Engine => proc[p] \in Engine \cup {"published"}
       /\ proc[p] = "published" /\ proc'[p] \in Engine => proc'[p] = "prelude"
    \/ (SetWrite(p) \/ SetRename(p)) /\ UNCHANGED proc
    \/ Ends(p) /\ proc'[p] = "gone"

LEMMA WorkerStates ==
  ASSUME RestTypeOK, NEW p \in Pids, WorkerStep(p) \/ Tick(p) \/ TargetReached(p) \/ Crash(p)
  PROVE  WorkerState(p)
<1> USE DEF RestTypeOK, At, Move
<1>0. p \in {0} \cup Pids /\ 0 \in {0} \cup Pids
  OBVIOUS
<1>1. CASE TryLock(p) \/ WorkerClearStop(p) \/ WorkerOpenPID(p) \/ WorkerWritePID(p)
  BY <1>1 DEF TryLock, WorkerClearStop, WorkerOpenPID, WorkerWritePID, WorkerState, Engine
<1>2. CASE WorkerPrepare(p)
  <2>1. CASE Move(p, "prelude") /\ SetBegin(p, Says("running", p))
    BY <1>2, <2>1, SayingsAreSnapshots DEF WorkerPrepare, WorkerState, Begins, Engine, Locked
  <2>2. CASE Move(p, "ended") /\ UNCHANGED <<snapTmp, set, spoiled>>
    BY <1>2, <2>2 DEF WorkerPrepare, WorkerState, Engine, stateVars
  <2> QED BY <1>2, <2>1, <2>2 DEF WorkerPrepare
<1>3. CASE EngineStart(p)
  <2>1. CASE Move(p, "running") /\ UNCHANGED <<snapTmp, set, spoiled>>
    BY <1>3, <2>1 DEF EngineStart, WorkerState, Engine, stateVars
  <2>2. CASE Move(p, "ended") /\ SetBegin(p, Says("error", 0))
    BY <1>3, <2>2, SayingsAreSnapshots DEF EngineStart, WorkerState, Begins, Engine, Locked
  <2> QED BY <1>3, <2>1, <2>2 DEF EngineStart
<1>4. CASE StopFileSeen(p) \/ TargetReached(p) \/ DeferClearPID(p) \/ DeferClearStop(p)
  BY <1>4 DEF StopFileSeen, TargetReached, DeferClearPID, DeferClearStop, WorkerState, Engine
<1>5. CASE Tick(p)
  BY <1>0, <1>5, SayingsAreSnapshots DEF Tick, WorkerState, Begins, Engine, Locked
<1>6. CASE Drained(p)
  BY <1>6, SayingsAreSnapshots DEF Drained, WorkerState, Begins, Engine, Locked
<1>7. CASE DeferUnlock(p) \/ Crash(p)
  BY <1>7 DEF DeferUnlock, Crash, Killed, WorkerState, Ends
<1>8. CASE SetWrite(p) \/ SetRename(p)
  BY <1>8 DEF SetWrite, SetRename, WorkerState
<1> QED BY <1>1, <1>2, <1>3, <1>4, <1>5, <1>6, <1>7, <1>8 DEF WorkerStep

Writing == {"clear", "told", "reported"}

CommandState(c) ==
    \/ UNCHANGED stateVars /\ (cmd[c].pc \in Writing => ~Setting(c) \/ cmd'[c].pc \in Writing)
    \/ /\ \E s \in Snapshots :
            Begins(c, s) /\ (cmd[c].pc = "publish" => s = Says("running", Target(c)))
       /\ cmd[c].pc \in {"state", "publish", "report", "staleState"} /\ cmd'[c].pc \in Writing
       /\ UNCHANGED proc
    \/ (SetWrite(c) \/ SetRename(c)) /\ UNCHANGED <<proc, cmd>>
    \/ Ends(c) /\ UNCHANGED proc
    \/ Ends(Target(c)) /\ proc' = [proc EXCEPT ![Target(c)] = "gone"]
                       /\ cmd[c].pc \notin Writing

LEMMA CommandStates ==
  ASSUME RestTypeOK, NEW c \in Callers,
         CommandStep(c) \/ StartCheck(c) \/ StartFails(c) \/ StopCheck(c) \/ StopRequestFails(c)
  PROVE  CommandState(c)
<1> USE DEF RestTypeOK, Cmds
<1>1. CASE StartCheck(c) \/ StopCheck(c)
  BY <1>1 DEF StartCheck, StopCheck, Begin, Busy, CommandState, Writing
<1>2. CASE StartState(c)
  BY <1>2, SayingsAreSnapshots DEF StartState, Step, CommandState, Begins, Writing
<1>3. CASE StartPublish(c)
  <2>1. Target(c) \in {0} \cup Pids
    BY DEF Target
  <2> QED BY <1>3, <2>1, SayingsAreSnapshots DEF StartPublish, Step, CommandState, Begins, Writing
<1>4. CASE StopReport(c)
  BY <1>4, SayingsAreSnapshots DEF StopReport, Step, CommandState, Begins, Writing
<1>5. CASE StartClearStop(c) \/ CommandDone(c)
  BY <1>5 DEF StartClearStop, CommandDone, Step, CommandState
<1>6. CASE StartBackground(c) \/ StartOpenPID(c) \/ StartWritePID(c) \/ StopRequest(c)
  BY <1>6 DEF StartBackground, StartOpenPID, StartWritePID, StopRequest, Step, CommandState, Writing
<1>7. CASE StopSeesEnd(c) \/ StopAfterKill(c) \/ StopClearPID(c) \/ StopClearStop(c)
           \/ StopRequestFails(c)
  BY <1>7 DEF StopSeesEnd, StopAfterKill, StopClearPID, StopClearStop, StopRequestFails, Step,
              CommandState, Writing
<1>8. CASE StartFails(c)
  BY <1>8 DEF StartFails, CommandState, Ends
<1>9. CASE StopSignal(c) \/ ForceKill(c)
  <2>1. cmd[c].pc \in {"signal", "wait"} /\ UNCHANGED <<snap, snapTmp, spoiled>>
    BY <1>9 DEF StopSignal, ForceKill, Step
  <2>2. UNCHANGED set \/ Killed(Target(c))
    BY <1>9 DEF StopSignal, ForceKill
  <2> QED BY <2>1, <2>2 DEF Killed, CommandState, Ends, Writing, stateVars
<1>10. CASE SetWrite(c) \/ SetRename(c)
  BY <1>10 DEF SetWrite, SetRename, CommandState
<1> QED BY <1>1, <1>2, <1>3, <1>4, <1>5, <1>6, <1>7, <1>8, <1>9, <1>10 DEF CommandStep

LEMMA WorkerStateStep ==
  ASSUME NEW p \in Pids, WorkerState(p) PROVE StateStep
<1>1. p \in Writers
  BY DEF Writers
<1> QED BY <1>1 DEF WorkerState, StateStep

LEMMA CommandStateStep ==
  ASSUME NEW c \in Callers, CommandState(c) PROVE StateStep
<1>1. c \in Writers
  BY DEF Writers
<1> QED BY <1>1 DEF CommandState, StateStep

----------------------------------------------------------------------------
\* Types.

LEMMA KilledTypes ==
  ASSUME RestTypeOK, NEW p, Killed(p)
  PROVE  proc' \in [Pids -> States] /\ lock' \in {0} \cup Pids
  BY DEF RestTypeOK, Killed, States

LEMMA ReturnTypes ==
  ASSUME RestTypeOK, NEW c \in Callers, Return(c)
  PROVE  cmd' \in [Callers -> Cmds] /\ kids' \in [Callers -> SUBSET Pids]
<1>1. Idle \in Cmds
  BY DEF Idle, Cmds
<1> QED BY <1>1 DEF RestTypeOK, Return

Advances(c) == \E to \in StartSteps \cup StopSteps : cmd' = [cmd EXCEPT ![c].pc = to]

LEMMA StepTypes ==
  ASSUME RestTypeOK, NEW c \in Callers, Advances(c)
  PROVE  cmd' \in [Callers -> Cmds]
  BY DEF RestTypeOK, Advances, Cmds

LEMMA MoveTypes ==
  ASSUME RestTypeOK, NEW p, NEW s \in States, Move(p, s)
  PROVE  proc' \in [Pids -> States]
  BY DEF RestTypeOK, Move

\* A worker's own steps keep the types.
LEMMA WorkerTypeStep ==
  ASSUME RestTypeOK, NEW p \in Pids, WorkerStep(p) \/ Tick(p) \/ TargetReached(p) \/ Crash(p)
  PROVE  RestTypeOK'
<1>0. Locked \subseteq States /\ Engine \subseteq States /\ "gone" \in States
  BY DEF Locked, Engine, States, Executing
<1>1. CASE TryLock(p)
  <2>1. \E s \in States : Move(p, s)
    BY <1>0, <1>1 DEF TryLock, Locked
  <2> QED BY <1>1, <2>1, MoveTypes DEF TryLock, RestTypeOK
<1>2. CASE WorkerClearStop(p) \/ WorkerOpenPID(p) \/ WorkerWritePID(p)
  <2>1. \E s \in States : Move(p, s)
    BY <1>0, <1>2 DEF WorkerClearStop, WorkerOpenPID, WorkerWritePID, Locked
  <2> QED BY <1>2, <2>1, MoveTypes DEF WorkerClearStop, WorkerOpenPID, WorkerWritePID, RestTypeOK
<1>3. CASE WorkerPrepare(p) \/ EngineStart(p)
  <2>1. \E s \in States : Move(p, s)
    BY <1>0, <1>3 DEF WorkerPrepare, EngineStart, Locked
  <2> QED BY <1>3, <2>1, MoveTypes DEF WorkerPrepare, EngineStart, RestTypeOK
<1>4. CASE StopFileSeen(p) \/ TargetReached(p) \/ Drained(p)
  <2>1. \E s \in States : Move(p, s)
    BY <1>0, <1>4 DEF StopFileSeen, TargetReached, Drained, Locked
  <2> QED BY <1>4, <2>1, MoveTypes DEF StopFileSeen, TargetReached, Drained, RestTypeOK
<1>5. CASE DeferClearPID(p) \/ DeferClearStop(p)
  <2>1. \E s \in States : Move(p, s)
    BY <1>0, <1>5 DEF DeferClearPID, DeferClearStop, Locked
  <2> QED BY <1>5, <2>1, MoveTypes DEF DeferClearPID, DeferClearStop, RestTypeOK
<1>6. CASE DeferUnlock(p) \/ Crash(p)
  <2>1. proc' \in [Pids -> States] /\ lock' \in {0} \cup Pids
    BY <1>6, KilledTypes DEF DeferUnlock, Crash
  <2> QED BY <1>6, <2>1 DEF DeferUnlock, Crash, RestTypeOK
<1>7. CASE Tick(p) \/ SetWrite(p) \/ SetRename(p)
  BY <1>7 DEF Tick, SetWrite, SetRename, RestTypeOK
<1> QED BY <1>1, <1>2, <1>3, <1>4, <1>5, <1>6, <1>7 DEF WorkerStep

\* The commands keep the types.
LEMMA CommandTypeStep ==
  ASSUME RestTypeOK, NEW c \in Callers,
         CommandStep(c) \/ StartCheck(c) \/ StartFails(c) \/ StopCheck(c) \/ StopRequestFails(c)
  PROVE  RestTypeOK'
<1> USE DEF RestTypeOK
<1>0. Target(c) \in {0} \cup Pids
  BY DEF Target, Cmds
<1>1. CASE StartCheck(c) \/ StopCheck(c)
  <2>1. PICK s \in StartSteps \cup StopSteps, q \in {0} \cup Pids : Begin(c, s, q)
    BY <1>1 DEF StartCheck, StopCheck, StartSteps, StopSteps
  <2>2. cmd' \in [Callers -> Cmds]
    BY <2>1 DEF Begin, Cmds
  <2>3. overlapped' \in BOOLEAN
    BY <2>1 DEF Begin
  <2> QED BY <1>1, <2>2, <2>3 DEF StartCheck, StopCheck
<1>2. CASE StartFails(c) \/ CommandDone(c) \/ StopRequestFails(c)
  <2>1. cmd' \in [Callers -> Cmds] /\ kids' \in [Callers -> SUBSET Pids]
    BY <1>2, ReturnTypes DEF StartFails, CommandDone, StopRequestFails
  <2> QED BY <1>0, <1>2, <2>1 DEF StartFails, CommandDone, StopRequestFails
<1>3. CASE StartState(c) \/ StartClearStop(c) \/ StartOpenPID(c) \/ StartWritePID(c) \/ StartPublish(c)
  <2>1. Advances(c)
    BY <1>3 DEF StartState, StartClearStop, StartOpenPID, StartWritePID, StartPublish, Step, Advances,
                StartSteps
  <2>2. cmd' \in [Callers -> Cmds]
    BY <2>1, StepTypes
  <2> QED BY <1>0, <1>3, <2>2 DEF StartState, StartClearStop, StartOpenPID, StartWritePID, StartPublish
<1>4. CASE StopRequest(c) \/ StopSeesEnd(c) \/ StopClearPID(c) \/ StopClearStop(c) \/ StopReport(c)
  <2>1. Advances(c)
    BY <1>4 DEF StopRequest, StopSeesEnd, StopClearPID, StopClearStop, StopReport, Step, Advances,
                StopSteps
  <2>2. cmd' \in [Callers -> Cmds]
    BY <2>1, StepTypes
  <2> QED BY <1>0, <1>4, <2>2 DEF StopRequest, StopSeesEnd, StopClearPID, StopClearStop, StopReport
<1>5. CASE StartBackground(c)
  <2>1. PICK p \in Pids :
         /\ cmd' = [cmd EXCEPT ![c] = [pc |-> "open", pid |-> p]]
         /\ proc' = [proc EXCEPT ![p] = "booting"]
         /\ kids' = [kids EXCEPT ![c] = @ \cup {p}]
    BY <1>5 DEF StartBackground
  <2>2. cmd' \in [Callers -> Cmds]
    BY <2>1 DEF StartSteps, Cmds
  <2>3. proc' \in [Pids -> States]
    BY <2>1 DEF States, Executing
  <2>4. kids' \in [Callers -> SUBSET Pids]
    BY <2>1
  <2> QED BY <1>5, <2>2, <2>3, <2>4 DEF StartBackground
<1>6. CASE StopSignal(c) \/ ForceKill(c)
  <2>1. Advances(c)
    BY <1>6 DEF StopSignal, ForceKill, Step, Advances, StopSteps
  <2>2. cmd' \in [Callers -> Cmds]
    BY <2>1, StepTypes
  <2>3. proc' \in [Pids -> States] /\ lock' \in {0} \cup Pids
    <3>1. CASE UNCHANGED <<proc, lock>>
      BY <3>1
    <3>2. CASE Move(Target(c), "draining") /\ UNCHANGED lock
      BY <3>2, MoveTypes DEF States, Executing, Locked
    <3>3. CASE Killed(Target(c))
      BY <3>3, KilledTypes
    <3> QED BY <1>6, <3>1, <3>2, <3>3 DEF StopSignal, ForceKill
  <2> QED BY <1>6, <2>2, <2>3 DEF StopSignal, ForceKill
<1>7. CASE StopAfterKill(c)
  <2>1. cmd' \in [Callers -> Cmds] /\ kids' \in [Callers -> SUBSET Pids]
    <3>1. CASE Return(c)
      BY <3>1, ReturnTypes
    <3>2. CASE Step(c, "killed", "unpid") /\ UNCHANGED kids
      <4>1. Advances(c)
        BY <3>2 DEF Step, Advances, StopSteps
      <4> QED BY <3>2, <4>1, StepTypes
    <3> QED BY <1>7, <3>1, <3>2 DEF StopAfterKill
  <2> QED BY <1>7, <2>1 DEF StopAfterKill
<1>8. CASE SetWrite(c) \/ SetRename(c)
  BY <1>8 DEF SetWrite, SetRename
<1> QED BY <1>1, <1>2, <1>3, <1>4, <1>5, <1>6, <1>7, <1>8 DEF CommandStep

LEMMA SetFailsEnds ==
  ASSUME NEW w, SetFails(w)
  PROVE  /\ Ends(w) /\ spoiled' = "failed"
         /\ UNCHANGED <<pidFile, stopFile, lock, proc, kids, cmd, overlapped, cut>>
  BY DEF SetFails, Ends

LEMMA DaemonTypeStep ==
  ASSUME DaemonTypeOK, [DNext]_dVars
  PROVE  DaemonTypeOK'
<1>0. StateTypeOK /\ RestTypeOK
  BY TypeParts
<1>1. CASE UNCHANGED dVars
  <2>1. RestTypeOK'
    BY <1>0, <1>1 DEF dVars, RestTypeOK
  <2> QED BY <1>0, <1>1, <2>1, StateTypeStep, TypePartsPrime DEF dVars, StateStep
<1>2. ASSUME NEW p \in Pids, WorkerStep(p) \/ Tick(p) \/ TargetReached(p) \/ Crash(p)
      PROVE  DaemonTypeOK'
  <2>1. StateTypeOK'
    BY <1>0, <1>2, WorkerStates, WorkerStateStep, StateTypeStep
  <2> QED BY <1>0, <1>2, <2>1, WorkerTypeStep, TypePartsPrime
<1>3. ASSUME NEW c \in Callers,
             CommandStep(c) \/ StartCheck(c) \/ StartFails(c) \/ StopCheck(c) \/ StopRequestFails(c)
      PROVE  DaemonTypeOK'
  <2>1. StateTypeOK'
    BY <1>0, <1>3, CommandStates, CommandStateStep, StateTypeStep
  <2> QED BY <1>0, <1>3, <2>1, CommandTypeStep, TypePartsPrime
<1>4. ASSUME NEW w \in Writers, SetFails(w) PROVE DaemonTypeOK'
  <2>1. StateTypeOK'
    BY <1>0, <1>4, SetFailsEnds, StateTypeStep DEF StateStep
  <2>2. RestTypeOK'
    BY <1>0, <1>4, SetFailsEnds DEF RestTypeOK
  <2> QED BY <2>1, <2>2, TypePartsPrime
<1>5. CASE DesktopQuits
  <2>1. RestTypeOK'
    BY <1>0, <1>5 DEF DesktopQuits, RestTypeOK
  <2>2. StateTypeOK'
    BY <1>0, <1>5, StateTypeStep DEF DesktopQuits, StateStep
  <2> QED BY <2>1, <2>2, TypePartsPrime
<1> QED BY <1>1, <1>2, <1>3, <1>4, <1>5 DEF DNext

\* The daemon's files and processes keep their types, however many workers are started.
THEOREM DaemonTypeCorrect == DSafety => []DaemonTypeOK
<1>1. DaemonTypeOK /\ [DNext]_dVars => DaemonTypeOK'
  BY DaemonTypeStep
<1> QED BY <1>1, DInitHolds, PTL DEF DSafety

----------------------------------------------------------------------------
\* The lock file.

LEMMA KilledKeepsLock ==
  ASSUME DaemonTypeOK, LockTells, NEW p \in Pids, Killed(p)
  PROVE  LockTells'
<1>1. "gone" \notin Locked
  BY DEF Locked
<1>2. /\ \A q \in Pids : proc'[q] = IF q = p THEN "gone" ELSE proc[q]
      /\ lock' = IF lock = p THEN 0 ELSE lock
  BY DEF Killed, DaemonTypeOK
<1> QED BY <1>1, <1>2 DEF LockTells, Pids

\* A move that stays on the same side of the lock.
LEMMA MoveKeepsLock ==
  ASSUME DaemonTypeOK, LockTells, NEW p \in Pids, NEW s, Move(p, s), UNCHANGED lock,
         proc[p] \in Locked <=> s \in Locked
  PROVE  LockTells'
  BY DEF Move, DaemonTypeOK, LockTells

LEMMA WorkerLockStep ==
  ASSUME DaemonTypeOK, LockTells, NEW p \in Pids,
         WorkerStep(p) \/ Tick(p) \/ TargetReached(p) \/ Crash(p)
  PROVE  LockTells'
<1>1. CASE TryLock(p)
  <2>1. CASE lock = 0 /\ lock' = p /\ Move(p, "locked")
    BY <2>1 DEF Move, DaemonTypeOK, LockTells, Locked, Pids
  <2>2. CASE Move(p, "gone") /\ UNCHANGED lock
    BY <1>1, <2>2, MoveKeepsLock DEF TryLock, At, Locked
  <2> QED BY <1>1, <2>1, <2>2 DEF TryLock
<1>2. CASE WorkerClearStop(p) \/ WorkerOpenPID(p) \/ WorkerWritePID(p) \/ WorkerPrepare(p)
  <2>1. \E s \in Locked : Move(p, s)
    BY <1>2 DEF WorkerClearStop, WorkerOpenPID, WorkerWritePID, WorkerPrepare, Locked
  <2>2. proc[p] \in Locked /\ UNCHANGED lock
    BY <1>2 DEF WorkerClearStop, WorkerOpenPID, WorkerWritePID, WorkerPrepare, At, Locked
  <2> QED BY <2>1, <2>2, MoveKeepsLock
<1>3. CASE EngineStart(p) \/ StopFileSeen(p) \/ TargetReached(p) \/ Drained(p)
  <2>1. \E s \in Locked : Move(p, s)
    BY <1>3 DEF EngineStart, StopFileSeen, TargetReached, Drained, Locked
  <2>2. proc[p] \in Locked /\ UNCHANGED lock
    BY <1>3 DEF EngineStart, StopFileSeen, TargetReached, Drained, At, Locked
  <2> QED BY <2>1, <2>2, MoveKeepsLock
<1>4. CASE DeferClearPID(p) \/ DeferClearStop(p)
  <2>1. \E s \in Locked : Move(p, s)
    BY <1>4 DEF DeferClearPID, DeferClearStop, Locked
  <2>2. proc[p] \in Locked /\ UNCHANGED lock
    BY <1>4 DEF DeferClearPID, DeferClearStop, At, Locked
  <2> QED BY <2>1, <2>2, MoveKeepsLock
<1>5. CASE DeferUnlock(p) \/ Crash(p)
  BY <1>5, KilledKeepsLock DEF DeferUnlock, Crash
<1>6. CASE Tick(p) \/ SetWrite(p) \/ SetRename(p)
  BY <1>6 DEF Tick, SetWrite, SetRename, LockTells
<1> QED BY <1>1, <1>2, <1>3, <1>4, <1>5, <1>6 DEF WorkerStep

LEMMA CommandLockStep ==
  ASSUME DaemonTypeOK, LockTells, NEW c \in Callers,
         CommandStep(c) \/ StartCheck(c) \/ StartFails(c) \/ StopCheck(c) \/ StopRequestFails(c)
  PROVE  LockTells'
<1>1. CASE UNCHANGED <<proc, lock>>
  BY <1>1 DEF LockTells
<1>2. CASE StartBackground(c)
  <2>1. PICK p \in Pids : proc[p] = "none" /\ Move(p, "booting")
    BY <1>2 DEF StartBackground, IsNextPid, Move
  <2>2. UNCHANGED lock
    BY <1>2 DEF StartBackground
  <2> QED BY <2>1, <2>2, MoveKeepsLock DEF Locked
<1>3. CASE StopSignal(c) \/ ForceKill(c)
  <2>1. Target(c) \in {0} \cup Pids
    BY DEF DaemonTypeOK, Target
  <2>2. CASE UNCHANGED <<proc, lock>>
    BY <2>2, <1>1
  <2>3. CASE At(Target(c), "running") /\ Move(Target(c), "draining") /\ UNCHANGED lock
    <3>1. CASE Target(c) = 0
      BY <2>3, <3>1 DEF Move, DaemonTypeOK, LockTells, Pids
    <3>2. CASE Target(c) \in Pids
      BY <2>3, <3>2, MoveKeepsLock DEF At, Locked
    <3> QED BY <2>1, <3>1, <3>2
  <2>4. CASE Killed(Target(c))
    <3>1. CASE Target(c) = 0
      BY <2>4, <3>1 DEF Killed, DaemonTypeOK, LockTells, Pids
    <3>2. CASE Target(c) \in Pids
      BY <2>4, <3>2, KilledKeepsLock
    <3> QED BY <2>1, <3>1, <3>2
  <2> QED BY <1>3, <2>2, <2>3, <2>4 DEF StopSignal, ForceKill
<1> QED BY <1>1, <1>2, <1>3 DEF CommandStep, StartCheck, StartFails, StopCheck, StartState,
           StartClearStop, StartOpenPID, StartWritePID, StartPublish, StopRequest, StopSeesEnd,
           StopAfterKill, StopClearPID, StopClearStop, StopReport, CommandDone, StopRequestFails,
           SetWrite, SetRename

LEMMA LockTellsAlways == DSafety => [](DaemonTypeOK /\ LockTells)
<1>1. DaemonTypeOK /\ LockTells /\ [DNext]_dVars => LockTells'
  <2> SUFFICES ASSUME DaemonTypeOK, LockTells, [DNext]_dVars PROVE LockTells'
    OBVIOUS
  <2>1. CASE DesktopQuits
    BY <2>1 DEF DesktopQuits, LockTells
  <2>2. CASE UNCHANGED dVars
    BY <2>2 DEF dVars, LockTells
  <2>3. ASSUME NEW w \in Writers, SetFails(w) PROVE LockTells'
    BY <2>3 DEF SetFails, LockTells
  <2> QED BY <2>1, <2>2, <2>3, WorkerLockStep, CommandLockStep DEF DNext
<1> QED BY <1>1, DInitHolds, DaemonTypeCorrect, PTL DEF DSafety

\* One worker at a time is in the engine, and the lock is free once its holder is gone.
THEOREM OneWorkerAlways == DSafety => []OneWorkerAtWork
<1>1. DaemonTypeOK /\ LockTells => OneWorkerAtWork
  <2> SUFFICES ASSUME DaemonTypeOK, LockTells PROVE OneWorkerAtWork
    OBVIOUS
  <2> DEFINE busy == {p \in Pids : proc[p] \in Engine}
  <2>1. Engine \subseteq Locked
    BY DEF Engine, Locked
  <2>2. busy \subseteq {lock}
    BY <2>1 DEF LockTells
  <2>3. IsFiniteSet({lock}) /\ Cardinality({lock}) = 1
    BY FS_Singleton
  <2>4. IsFiniteSet(busy) /\ Cardinality(busy) \in Nat /\ Cardinality(busy) <= 1
    <3>1. Cardinality(busy) <= Cardinality({lock}) /\ IsFiniteSet(busy)
      BY <2>2, <2>3, FS_Subset
    <3> QED BY <2>3, <3>1, FS_CardinalityType
  <2> QED BY <2>4 DEF OneWorkerAtWork, LockTells
<1> QED BY <1>1, LockTellsAlways, PTL

----------------------------------------------------------------------------
\* The Sets. One that met no other has the temporary file for itself, and only a process at the
\* point where its code calls Set is in one.

SetShape ==
    /\ \A w \in Writers : Setting(w) /\ set[w].alone =>
         /\ \A v \in Writers : v # w => ~Setting(v)
         /\ set[w].fd = "tmp"
         /\ set[w].pc = "opened" => snapTmp = Empty
         /\ set[w].pc = "written" => snapTmp = set[w].new
    /\ \A w \in Writers : Setting(w) /\ set[w].fd = "tmp" => snapTmp # NoFile
    /\ spoiled = "no" => \A w \in Writers : Setting(w) => set[w].alone

SetPlace ==
    /\ \A c \in Callers : Setting(c) => cmd[c].pc \in Writing
    /\ \A p \in Pids : Setting(p) => proc[p] \in Engine \cup {"ended"}

LEMMA Contents ==
  /\ NoFile \notin Snapshots /\ NoFile # Empty /\ NoFile # Torn
  /\ \A s \in Snapshots : s # Empty /\ s # Torn
BY DEF NoFile, Empty, Torn, Says, Snapshots

LEMMA ShapeBegin ==
  ASSUME StateTypeOK, SetShape, NEW w \in Writers, NEW s \in Snapshots, Begins(w, s)
  PROVE  SetShape'
<1>1. snapTmp' = Empty /\ set'[w].pc = "opened" /\ set'[w].fd = "tmp" /\ snapTmp' # NoFile
  BY BeginSets, Contents
<1>2. \A v \in Writers : v # w => set'[v].pc = set[v].pc /\ ~set'[v].alone
  BY BeginSets
<1>3. set'[w].alone <=> \A v \in Writers : v # w => ~Setting(v)
  BY BeginSets
<1>4. spoiled' = "no" => \A v \in Writers : v # w => ~Setting(v)
  BY BeginSets
<1> QED BY <1>1, <1>2, <1>3, <1>4 DEF SetShape, Setting

LEMMA ShapeWrite ==
  ASSUME StateTypeOK, SetShape, NEW w \in Writers, SetWrite(w)
  PROVE  SetShape'
<1>1. set[w].pc = "opened" /\ set'[w].pc = "written" /\ spoiled' = spoiled
  BY WriteSets
<1>2. \A v \in Writers : /\ set'[v].fd = set[v].fd /\ set'[v].new = set[v].new
                         /\ set'[v].alone = set[v].alone
                         /\ v # w => set'[v].pc = set[v].pc
  BY WriteSets
<1>3. PICK text \in {set[w].new, Torn} :
         /\ set[w].fd = "tmp" /\ snapTmp = Empty => text = set[w].new
         /\ snapTmp' = IF set[w].fd = "tmp" THEN text ELSE snapTmp
  BY WriteSets
<1>4. set[w].new \in Snapshots /\ text # NoFile
  BY Contents DEF StateTypeOK, SetRecs
<1>5. snapTmp' = NoFile => snapTmp = NoFile
  BY <1>3, <1>4
<1>6. \A v \in Writers : Setting(v)' <=> Setting(v)
  BY <1>1, <1>2 DEF Setting
<1>7. ASSUME NEW v \in Writers, Setting(v), set[v].alone
      PROVE  v = w /\ set[w].fd = "tmp" /\ snapTmp' = set[w].new
  <2>1. Setting(w)
    BY <1>1 DEF Setting
  <2>2. v = w
    BY <1>7, <2>1 DEF SetShape
  <2>3. set[w].fd = "tmp" /\ snapTmp = Empty
    BY <1>1, <1>7, <2>1, <2>2 DEF SetShape
  <2> QED BY <1>3, <2>2, <2>3
<1>8. \A v \in Writers : Setting(v)' /\ set'[v].fd = "tmp" => snapTmp' # NoFile
  BY <1>2, <1>5, <1>6 DEF SetShape
<1>9. spoiled' = "no" => \A v \in Writers : Setting(v)' => set'[v].alone
  BY <1>1, <1>2, <1>6 DEF SetShape
<1>10. \A v \in Writers : Setting(v)' /\ set'[v].alone =>
         /\ \A u \in Writers : u # v => ~Setting(u)'
         /\ set'[v].fd = "tmp"
         /\ set'[v].pc = "opened" => snapTmp' = Empty
         /\ set'[v].pc = "written" => snapTmp' = set'[v].new
  BY <1>1, <1>2, <1>6, <1>7 DEF SetShape
<1> QED BY <1>8, <1>9, <1>10 DEF SetShape

LEMMA ShapeRename ==
  ASSUME StateTypeOK, SetShape, NEW w \in Writers, SetRename(w)
  PROVE  SetShape'
<1>1. set[w].pc = "written" /\ Setting(w) /\ ~Setting(w)'
  BY RenameSets, NoSetType DEF Setting
<1>2. \A v \in Writers : v # w =>
         /\ set'[v].pc = set[v].pc /\ set'[v].new = set[v].new /\ set'[v].alone = set[v].alone
         /\ snapTmp = NoFile => set'[v].fd = set[v].fd
         /\ snapTmp # NoFile /\ Setting(v) => set'[v].fd # "tmp"
  BY RenameSets
<1>3. \A v \in Writers : Setting(v)' => v # w /\ Setting(v) /\ ~set'[v].alone
  BY <1>1, <1>2 DEF Setting, SetShape
<1>4. \A v \in Writers : Setting(v)' => set'[v].fd # "tmp"
  BY <1>2, <1>3 DEF SetShape
<1>5. spoiled' = "no" => \A v \in Writers : ~Setting(v)'
  <2>1. CASE set[w].alone
    BY <1>1, <1>3, <2>1 DEF SetShape
  <2>2. CASE ~set[w].alone
    <3>1. spoiled' = spoiled /\ spoiled # "no"
      BY <1>1, <2>2, RenameSets DEF SetShape
    <3> QED BY <3>1
  <2> QED BY <2>1, <2>2
<1> QED BY <1>3, <1>4, <1>5 DEF SetShape

LEMMA ShapeEnds ==
  ASSUME StateTypeOK, SetShape, NEW w, Ends(w)
  PROVE  SetShape'
<1>1. \A v \in Writers : Setting(v)' => Setting(v) /\ set'[v] = set[v]
  BY EndSets, NoSetType DEF Setting
<1>2. snapTmp' = snapTmp /\ spoiled' \in {spoiled, "failed"}
  BY EndSets
<1> QED BY <1>1, <1>2 DEF SetShape

LEMMA ShapeStep == StateTypeOK /\ SetShape /\ StateStep => SetShape'
<1> SUFFICES ASSUME StateTypeOK, SetShape, StateStep PROVE SetShape'
  OBVIOUS
<1>1. CASE UNCHANGED stateVars
  BY <1>1 DEF stateVars, SetShape, Setting
<1> QED BY <1>1, ShapeBegin, ShapeWrite, ShapeRename, ShapeEnds DEF StateStep

\* Who is in a Set after a step was in one before, but for the process that begins.
LEMMA SettingsAfter ==
  ASSUME StateTypeOK
  PROVE  /\ UNCHANGED stateVars =>
               \A v \in Writers : Setting(v)' => Setting(v) /\ set'[v].new = set[v].new
         /\ \A w \in Writers, s \in Snapshots : Begins(w, s) =>
               \A v \in Writers : v # w => (Setting(v)' => Setting(v) /\ set'[v].new = set[v].new)
         /\ \A w \in Writers : SetWrite(w) \/ SetRename(w) =>
               \A v \in Writers : Setting(v)' => Setting(v) /\ set'[v].new = set[v].new
         /\ \A w : Ends(w) =>
               \A v \in Writers : Setting(v)' => Setting(v) /\ v # w /\ set'[v].new = set[v].new
<1>1. ASSUME UNCHANGED stateVars 
      PROVE  \A v \in Writers : Setting(v)' => Setting(v) /\ set'[v].new = set[v].new
  BY <1>1 DEF stateVars, Setting
<1>2. ASSUME NEW w \in Writers, NEW s \in Snapshots, Begins(w, s)
      PROVE  \A v \in Writers : v # w => (Setting(v)' => Setting(v) /\ set'[v].new = set[v].new)
  BY <1>2, BeginSets DEF Setting
<1>3. ASSUME NEW w \in Writers, SetWrite(w)
      PROVE  \A v \in Writers : Setting(v)' => Setting(v) /\ set'[v].new = set[v].new
  BY <1>3, WriteSets DEF Setting
<1>4. ASSUME NEW w \in Writers, SetRename(w)
      PROVE  \A v \in Writers : Setting(v)' => Setting(v) /\ set'[v].new = set[v].new
  BY <1>4, RenameSets, NoSetType DEF Setting
<1>5. ASSUME NEW w, Ends(w)
      PROVE  \A v \in Writers : Setting(v)' => Setting(v) /\ v # w /\ set'[v].new = set[v].new
  BY <1>5, EndSets, NoSetType DEF Setting
<1> QED BY <1>1, <1>2, <1>3, <1>4, <1>5

----------------------------------------------------------------------------
\* The PID file and the state file. As long as commands follow each other, the command under way is
\* the only one, and what it is at limits how far any worker can be.

Coming == {"booting", "locked", "cleared", "truncated"}
Up == Engine \cup {"published"}

Alone == \A c, d \in Callers : Busy(c) /\ Busy(d) => c = d

CommandFits ==
    \A c \in Callers, p \in Pids : proc[p] \in Coming \cup Up /\ p # cut =>
        /\ cmd[c].pc \in {"idle", "open", "write", "publish", "told", "request", "signal", "wait"}
        /\ cmd[c].pc \in {"open", "write", "publish", "told"} => p = Target(c)
        /\ cmd[c].pc \in {"request", "signal", "wait"} => proc[p] \notin Coming /\ p = Target(c)

SetsTold ==
    \A c \in Callers, p \in Pids : proc[p] \in Coming \cup Up /\ p # cut /\ Setting(c) =>
        set[c].new = Says("running", p)

Starting == {"open", "write", "publish", "told"}
TargetKnown == \A c \in Callers : cmd[c].pc \in Starting => Target(c) \in Pids

CutIsPast == cut # 0 => proc[cut] \notin Coming \cup {"none"}

PidTold ==
    \A p \in Pids : proc[p] \in Up /\ p # cut => pidFile = p \/ \E c \in Callers : cmd[c].pc = "write"

\* What a worker finds in state.json while it is up: its own answer, or what does not parse. Only its
\* first Set, and only while that one still has the temporary file, may not have reached it yet.
Fresh(p) == {Says("running", p), Empty, Torn}

Told(p) ==
    /\ proc[p] \in Up => \A w \in Writers : Setting(w) => set[w].new = Says("running", p)
    /\ proc[p] \in Engine =>
         /\ snapTmp \in Fresh(p) \cup {NoFile}
         /\ spoiled # "failed" /\ snap \notin Fresh(p) =>
               proc[p] = "prelude" /\ Setting(p) /\ set[p].fd = "tmp"
         /\ spoiled = "no" /\ snap # Says("running", p) => proc[p] = "prelude" /\ Setting(p)

StateTold == \A p \in Pids : p # cut => Told(p)

InOrder ==
    /\ CutIsPast /\ TargetKnown
    /\ ~overlapped => Alone /\ CommandFits /\ SetsTold /\ PidTold /\ StateTold

LEMMA Stages ==
  /\ Engine \subseteq Up /\ Up \subseteq Locked /\ Coming \subseteq Executing
  /\ Coming \cap Up = {} /\ Up \subseteq Executing /\ Engine \cup {"ended"} \subseteq Locked
  BY DEF Engine, Up, Locked, Coming, Executing

LEMMA WritersAre == Callers \subseteq Writers /\ Pids \subseteq Writers /\ Writers = Callers \cup Pids
  BY DEF Writers

\* A worker on its way moves forward, alone, and under the lock nobody else is up.
LEMMA WorkerMoves ==
  ASSUME DaemonTypeOK, NEW p \in Pids, WorkerStep(p) \/ Tick(p) \/ TargetReached(p) \/ Crash(p)
  PROVE  /\ \A q \in Pids : q # p => proc'[q] = proc[q]
         /\ proc'[p] \in Coming => proc[p] \in Coming
         /\ proc'[p] \in Up => proc[p] \in Coming \cup Up
         /\ proc'[p] = "none" => proc[p] = "none"
         /\ cmd' = cmd /\ overlapped' = overlapped /\ cut' = cut
<1> USE DEF DaemonTypeOK, At, Move, Coming, Up, Engine
<1>1. CASE TryLock(p) \/ WorkerClearStop(p) \/ WorkerOpenPID(p) \/ WorkerWritePID(p)
  BY <1>1 DEF TryLock, WorkerClearStop, WorkerOpenPID, WorkerWritePID
<1>2. CASE WorkerPrepare(p) \/ EngineStart(p) \/ StopFileSeen(p) \/ Drained(p) \/ TargetReached(p)
  BY <1>2 DEF WorkerPrepare, EngineStart, StopFileSeen, Drained, TargetReached
<1>3. CASE DeferClearPID(p) \/ DeferClearStop(p) \/ DeferUnlock(p) \/ Crash(p) \/ Tick(p)
  BY <1>3 DEF DeferClearPID, DeferClearStop, DeferUnlock, Crash, Tick, Killed
<1>4. CASE SetWrite(p) \/ SetRename(p)
  BY <1>4 DEF SetWrite, SetRename
<1> QED BY <1>1, <1>2, <1>3, <1>4 DEF WorkerStep

\* A command moves itself, and at most one worker: the one it starts, or the one it ends.
CommandMove(c) ==
    /\ \A d \in Callers : d # c => cmd'[d] = cmd[d]
    /\ \A p \in Pids :
         \/ proc'[p] = proc[p]
         \/ /\ proc[p] = "none" /\ proc'[p] = "booting"
            /\ cmd[c].pc = "spawn" /\ cmd'[c] = [pc |-> "open", pid |-> p]
         \/ proc[p] = "running" /\ proc'[p] = "draining"
         \/ proc'[p] = "gone" /\ set'[p] = NoSet

LEMMA CommandMoves ==
  ASSUME DaemonTypeOK, NEW c \in Callers,
         CommandStep(c) \/ StartCheck(c) \/ StartFails(c) \/ StopCheck(c) \/ StopRequestFails(c)
  PROVE  CommandMove(c)
<1> USE DEF DaemonTypeOK
<1>1. ASSUME NEW x, cmd' = [cmd EXCEPT ![c].pc = x] PROVE \A d \in Callers : d # c => cmd'[d] = cmd[d]
  BY <1>1
<1>2. CASE StartCheck(c) \/ StopCheck(c)
  BY <1>2 DEF StartCheck, StopCheck, Begin, CommandMove
<1>3. CASE StartState(c) \/ StartClearStop(c) \/ StartOpenPID(c) \/ StartWritePID(c) \/ StartPublish(c)
  BY <1>1, <1>3 DEF StartState, StartClearStop, StartOpenPID, StartWritePID, StartPublish, Step,
                    CommandMove
<1>4. CASE StopRequest(c) \/ StopSeesEnd(c) \/ StopClearPID(c) \/ StopClearStop(c) \/ StopReport(c)
  BY <1>1, <1>4 DEF StopRequest, StopSeesEnd, StopClearPID, StopClearStop, StopReport, Step, CommandMove
<1>5. CASE StartFails(c) \/ CommandDone(c) \/ StopRequestFails(c) \/ StopAfterKill(c)
  <2>1. UNCHANGED proc
    BY <1>5 DEF StartFails, CommandDone, StopRequestFails, StopAfterKill
  <2>2. \E x : cmd' = [cmd EXCEPT ![c].pc = x] \/ cmd' = [cmd EXCEPT ![c] = x]
    BY <1>5 DEF StartFails, CommandDone, StopRequestFails, StopAfterKill, Return, Step
  <2> QED BY <2>1, <2>2 DEF CommandMove
<1>6. CASE SetWrite(c) \/ SetRename(c)
  BY <1>6 DEF SetWrite, SetRename, CommandMove
<1>7. CASE StartBackground(c)
  <2>1. PICK p \in Pids :
         /\ IsNextPid(p)
         /\ cmd' = [cmd EXCEPT ![c] = [pc |-> "open", pid |-> p]]
         /\ proc' = [proc EXCEPT ![p] = "booting"]
    BY <1>7 DEF StartBackground
  <2>2. proc[p] = "none" /\ proc'[p] = "booting" /\ cmd'[c] = [pc |-> "open", pid |-> p]
    BY <2>1 DEF IsNextPid
  <2>3. \A q \in Pids : q # p => proc'[q] = proc[q]
    BY <2>1
  <2>4. \A d \in Callers : d # c => cmd'[d] = cmd[d]
    BY <2>1
  <2> QED BY <1>7, <2>2, <2>3, <2>4 DEF StartBackground, CommandMove
<1>8. CASE StopSignal(c) \/ ForceKill(c)
  <2>1. \A d \in Callers : d # c => cmd'[d] = cmd[d]
    BY <1>1, <1>8 DEF StopSignal, ForceKill, Step
  <2>2. CASE UNCHANGED proc
    BY <2>1, <2>2 DEF CommandMove
  <2>3. CASE At(Target(c), "running") /\ Move(Target(c), "draining")
    BY <2>1, <2>3 DEF At, Move, CommandMove
  <2>4. CASE Killed(Target(c))
    <3>1. \A p \in Pids : p = Target(c) => proc'[p] = "gone" /\ set'[p] = NoSet
      BY <2>4, WritersAre DEF Killed
    <3>2. \A p \in Pids : p # Target(c) => proc'[p] = proc[p]
      BY <2>4 DEF Killed
    <3> QED BY <2>1, <3>1, <3>2 DEF CommandMove
  <2> QED BY <1>8, <2>2, <2>3, <2>4 DEF StopSignal, ForceKill
<1> QED BY <1>2, <1>3, <1>4, <1>5, <1>6, <1>7, <1>8 DEF CommandStep

LEMMA WorkerPlace ==
  ASSUME DaemonTypeOK, SetPlace, NEW p \in Pids,
         WorkerStep(p) \/ Tick(p) \/ TargetReached(p) \/ Crash(p)
  PROVE  SetPlace'
<1>0. StateTypeOK /\ RestTypeOK /\ WorkerState(p)
  BY TypeParts, WorkerStates
<1>1. cmd' = cmd /\ \A q \in Pids : q # p => proc'[q] = proc[q]
  BY WorkerMoves
<1>2. \A v \in Writers : v # p => (Setting(v)' => Setting(v))
  BY <1>0, WritersAre, SettingsAfter DEF WorkerState
<1>3. \A c \in Callers : Setting(c)' => cmd'[c].pc \in Writing
  BY <1>1, <1>2, WritersAre DEF SetPlace
<1>4. Setting(p)' => proc'[p] \in Engine \cup {"ended"}
  <2>1. CASE UNCHANGED stateVars /\ (Setting(p) /\ proc[p] \in Engine \cup {"ended"}
                                       => proc'[p] \in Engine \cup {"ended"})
    BY <1>0, <2>1, WritersAre, SettingsAfter DEF SetPlace
  <2>2. CASE (SetWrite(p) \/ SetRename(p)) /\ UNCHANGED proc
    BY <1>0, <2>2, WritersAre, SettingsAfter DEF SetPlace
  <2>3. CASE Ends(p)
    BY <1>0, <2>3, WritersAre, SettingsAfter
  <2> QED BY <1>0, <2>1, <2>2, <2>3 DEF WorkerState
<1>5. \A q \in Pids : q # p => (Setting(q)' => proc'[q] \in Engine \cup {"ended"})
  BY <1>1, <1>2, WritersAre DEF SetPlace
<1> QED BY <1>3, <1>4, <1>5 DEF SetPlace

LEMMA CommandPlace ==
  ASSUME DaemonTypeOK, SetPlace, NEW c \in Callers,
         CommandStep(c) \/ StartCheck(c) \/ StartFails(c) \/ StopCheck(c) \/ StopRequestFails(c)
  PROVE  SetPlace'
<1>0. StateTypeOK /\ RestTypeOK /\ CommandState(c) /\ CommandMove(c)
  BY TypeParts, CommandStates, CommandMoves
<1>1. \A v \in Writers : v # c => (Setting(v)' => Setting(v))
  BY <1>0, WritersAre, SettingsAfter DEF CommandState
<1>2. Setting(c)' => cmd'[c].pc \in Writing
  <2>1. CASE UNCHANGED stateVars /\ (cmd[c].pc \in Writing => ~Setting(c) \/ cmd'[c].pc \in Writing)
    BY <1>0, <2>1, WritersAre, SettingsAfter DEF SetPlace
  <2>2. CASE (SetWrite(c) \/ SetRename(c)) /\ UNCHANGED <<proc, cmd>>
    BY <1>0, <2>2, WritersAre, SettingsAfter DEF SetPlace
  <2>3. CASE Ends(c)
    BY <1>0, <2>3, WritersAre, SettingsAfter
  <2>4. CASE Ends(Target(c)) /\ cmd[c].pc \notin Writing
    BY <1>0, <2>4, WritersAre, SettingsAfter DEF SetPlace
  <2> QED BY <1>0, <2>1, <2>2, <2>3, <2>4 DEF CommandState
<1>3. \A d \in Callers : d # c => (Setting(d)' => cmd'[d].pc \in Writing)
  BY <1>0, <1>1, WritersAre DEF SetPlace, CommandMove
<1>4. ASSUME NEW p \in Pids, Setting(p)' PROVE proc'[p] \in Engine \cup {"ended"}
  <2>1. Setting(p) /\ proc[p] \in Engine \cup {"ended"}
    BY <1>1, <1>4, WritersAre DEF SetPlace
  <2>2. set'[p] # NoSet
    BY <1>4, NoSetType DEF Setting
  <2> QED BY <1>0, <2>1, <2>2 DEF CommandMove, Engine
<1> QED BY <1>2, <1>3, <1>4 DEF SetPlace

SetsFit == SetShape /\ SetPlace

LEMMA SetsFitInit == DInit => SetsFit
  BY NoSetType DEF DInit, SetsFit, SetShape, SetPlace, Setting, Writers

LEMMA SetsFitStep ==
  ASSUME DaemonTypeOK, SetsFit, [DNext]_dVars
  PROVE  SetsFit'
<1>0. StateTypeOK /\ RestTypeOK /\ SetShape /\ SetPlace
  BY TypeParts DEF SetsFit
<1>1. ASSUME NEW p \in Pids, WorkerStep(p) \/ Tick(p) \/ TargetReached(p) \/ Crash(p)
      PROVE  SetsFit'
  BY <1>0, <1>1, WorkerPlace, WorkerStates, WorkerStateStep, ShapeStep DEF SetsFit
<1>2. ASSUME NEW c \in Callers,
             CommandStep(c) \/ StartCheck(c) \/ StartFails(c) \/ StopCheck(c) \/ StopRequestFails(c)
      PROVE  SetsFit'
  BY <1>0, <1>2, CommandPlace, CommandStates, CommandStateStep, ShapeStep DEF SetsFit
<1>3. ASSUME NEW w \in Writers, SetFails(w) PROVE SetsFit'
  <2>1. Ends(w) /\ UNCHANGED <<proc, cmd>>
    BY <1>3, SetFailsEnds
  <2>2. \A v \in Writers : Setting(v)' => Setting(v)
    BY <1>0, <2>1, SettingsAfter
  <2> QED BY <1>0, <2>1, <2>2, ShapeEnds, WritersAre DEF SetsFit, SetPlace
<1>4. ASSUME UNCHANGED <<stateVars, proc, cmd>> PROVE SetsFit'
  BY <1>0, <1>4, ShapeStep DEF SetsFit, SetPlace, Setting, stateVars, StateStep
<1>5. CASE DesktopQuits \/ UNCHANGED dVars
  BY <1>4, <1>5 DEF DesktopQuits, dVars
<1> QED BY <1>1, <1>2, <1>3, <1>5 DEF DNext

----------------------------------------------------------------------------
\* What a worker finds in state.json through each step of a Set.

LEMMA LockKeepsOthersOut ==
  ASSUME DaemonTypeOK, LockTells, NEW p \in Pids, proc[p] \in Locked, NEW q \in Pids, q # p
  PROVE  proc[q] \notin Locked
  BY DEF LockTells

\* While a worker holds the lock no other one is in a Set.
LEMMA SetsOfOthers ==
  ASSUME DaemonTypeOK, LockTells, SetsFit, NEW p \in Pids, proc[p] \in Locked,
         NEW w \in Writers, Setting(w)
  PROVE  w = p \/ w \in Callers
  BY LockKeepsOthersOut, Stages DEF SetsFit, SetPlace, Writers

LEMMA ToldIdle ==
  ASSUME NEW p \in Pids, Told(p), UNCHANGED stateVars,
         proc'[p] \in Up => proc[p] \in Up, proc'[p] \in Engine => proc[p] \in Engine,
         Setting(p) /\ proc[p] = "prelude" => proc'[p] = "prelude"
  PROVE  Told(p)'
  BY DEF Told, stateVars, Setting, Fresh

LEMMA ToldBegin ==
  ASSUME StateTypeOK, NEW p \in Pids, Told(p), NEW w \in Writers, Begins(w, Says("running", p)),
         Says("running", p) \in Snapshots, proc[p] \in Up, proc'[p] = proc[p] \/ proc'[p] = "prelude",
         w # p => proc'[p] = proc[p],
         w = p => ((~Setting(p) /\ proc'[p] = proc[p]) \/ proc[p] = "published")
  PROVE  Told(p)'
<1>1. /\ snap' = snap /\ snapTmp' = Empty
      /\ set'[w].pc = "opened" /\ set'[w].fd = "tmp" /\ set'[w].new = Says("running", p)
      /\ \A v \in Writers : v # w =>
               set'[v].pc = set[v].pc /\ set'[v].fd = set[v].fd /\ set'[v].new = set[v].new
      /\ spoiled' = "failed" <=> spoiled = "failed"
      /\ spoiled' = "no" => spoiled = "no"
  BY BeginSets
<1>2. \A v \in Writers : Setting(v)' => set'[v].new = Says("running", p)
  BY <1>1 DEF Told, Setting
<1>3. CASE w = p /\ proc[p] = "published"
  <2>1. Setting(p)' /\ set'[p].fd = "tmp" /\ snapTmp' \in Fresh(p)
    BY <1>1, <1>3 DEF Setting, Fresh
  <2>2. proc'[p] \in Engine => proc'[p] = "prelude"
    BY <1>3 DEF Engine
  <2> QED BY <1>2, <2>1, <2>2 DEF Told, Fresh
<1>4. CASE proc'[p] = proc[p]
  <2>1. snapTmp' \in Fresh(p)
    BY <1>1 DEF Fresh
  <2>2. CASE w = p
    <3>1. ~Setting(p) \/ proc[p] = "published"
      BY <2>2
    <3>2. Setting(p)' /\ set'[p].fd = "tmp"
      BY <1>1, <2>2 DEF Setting
    <3> QED BY <1>1, <1>2, <1>4, <2>1, <3>1, <3>2 DEF Told, Fresh, Engine
  <2>3. CASE w # p
    <3>1. (Setting(p)' <=> Setting(p)) /\ set'[p].fd = set[p].fd
      BY <1>1, <2>3, WritersAre DEF Setting
    <3> QED BY <1>1, <1>2, <1>4, <2>1, <3>1 DEF Told, Fresh
  <2> QED BY <2>2, <2>3
<1> QED BY <1>3, <1>4

LEMMA ToldWrite ==
  ASSUME StateTypeOK, SetShape, NEW p \in Pids, Told(p), NEW w \in Writers, SetWrite(w), proc[p] \in Up,
         UNCHANGED proc
  PROVE  Told(p)'
<1>1. /\ set[w].pc = "opened" /\ set'[w].pc = "written" /\ spoiled' = spoiled
      /\ \A v \in Writers : /\ set'[v].fd = set[v].fd /\ set'[v].new = set[v].new
                            /\ v # w => set'[v].pc = set[v].pc
  BY WriteSets
<1>2. PICK text \in {set[w].new, Torn} :
         /\ snapTmp' = IF set[w].fd = "tmp" THEN text ELSE snapTmp
         /\ snap' = IF set[w].fd = "state" THEN text ELSE snap
  BY WriteSets
<1>3. text \in Fresh(p)
  BY <1>1, <1>2 DEF Told, Setting, Fresh
<1>4. \A v \in Writers : Setting(v)' <=> Setting(v)
  BY <1>1 DEF Setting
<1>5. \A v \in Writers : Setting(v)' => set'[v].new = Says("running", p)
  BY <1>1, <1>4 DEF Told
<1>6. ASSUME proc[p] \in Engine
      PROVE  /\ snapTmp' \in Fresh(p) \cup {NoFile}
             /\ spoiled # "failed" /\ snap' \notin Fresh(p) =>
                   proc[p] = "prelude" /\ Setting(p) /\ set[p].fd = "tmp"
  BY <1>2, <1>3, <1>6 DEF Told
<1>7. spoiled = "no" => snap' = snap
  BY <1>1, <1>2 DEF SetShape, Setting
<1> QED BY <1>1, <1>4, <1>5, <1>6, <1>7, WritersAre DEF Told, Fresh

LEMMA ToldRename ==
  ASSUME StateTypeOK, SetShape, NEW p \in Pids, Told(p), NEW w \in Writers, SetRename(w),
         proc[p] \in Up, UNCHANGED proc
  PROVE  Told(p)'
<1>1. /\ set[w].pc = "written" /\ set'[w] = NoSet /\ Setting(w)
      /\ \A v \in Writers : v # w => set'[v].pc = set[v].pc /\ set'[v].new = set[v].new
      /\ spoiled' = IF set[w].alone THEN "no" ELSE spoiled
  BY RenameSets DEF Setting
<1>2. \A v \in Writers : Setting(v)' => Setting(v) /\ v # w
  BY <1>1, NoSetType DEF Setting
<1>3. \A v \in Writers : Setting(v)' => set'[v].new = Says("running", p)
  BY <1>1, <1>2 DEF Told
<1>4. CASE snapTmp = NoFile
  <2>1. snap' = snap /\ snapTmp' = NoFile
    BY <1>4, RenameSets
  <2>2. ~set[w].alone
    BY <1>1, <1>4 DEF SetShape
  <2>3. spoiled' = spoiled /\ spoiled # "no"
    BY <1>1, <2>2 DEF SetShape
  <2>4. Setting(p) => set[p].fd # "tmp"
    BY <1>4, WritersAre DEF SetShape
  <2> QED BY <1>3, <2>1, <2>3, <2>4 DEF Told
<1>5. CASE snapTmp # NoFile
  <2>1. snap' = snapTmp /\ snapTmp' = NoFile
    BY <1>5, RenameSets
  <2>2. set[w].alone => snapTmp = Says("running", p)
    BY <1>1 DEF SetShape, Told
  <2>3. ~set[w].alone => spoiled' # "no"
    BY <1>1 DEF SetShape
  <2> QED BY <1>3, <1>5, <2>1, <2>2, <2>3 DEF Told
<1> QED BY <1>4, <1>5

LEMMA ToldEnds ==
  ASSUME StateTypeOK, NEW p \in Pids, Told(p), NEW w, Ends(w),
         proc'[p] \in Up => proc[p] \in Up, proc'[p] \in Engine => proc[p] \in Engine,
         proc'[p] = proc[p] \/ (Setting(p) /\ proc[p] = "prelude" => proc'[p] = "prelude"),
         w = p => proc'[p] \notin Up \/ spoiled' = "failed"
  PROVE  Told(p)'
<1>1. /\ \A v \in Writers : v # w => set'[v] = set[v]
      /\ \A v \in Writers : Setting(v)' => Setting(v) /\ v # w
      /\ snap' = snap /\ snapTmp' = snapTmp /\ spoiled' \in {spoiled, "failed"}
  BY EndSets, SettingsAfter
<1>2. \A v \in Writers : Setting(v)' => set'[v] = set[v]
  BY <1>1
<1>3. proc'[p] \in Up => \A v \in Writers : Setting(v)' => set'[v].new = Says("running", p)
  BY <1>1, <1>2 DEF Told
<1>4. p # w => (Setting(p)' <=> Setting(p)) /\ set'[p].fd = set[p].fd
  BY <1>1, WritersAre DEF Setting
<1> QED BY <1>1, <1>3, <1>4, Stages DEF Told, Fresh

----------------------------------------------------------------------------
\* The steps of a worker keep the order.

LEMMA WorkerPidTold ==
  ASSUME DaemonTypeOK, LockTells, PidTold, NEW p \in Pids,
         WorkerStep(p) \/ Tick(p) \/ TargetReached(p) \/ Crash(p)
  PROVE  PidTold'
<1>0. /\ \A q \in Pids : q # p => proc'[q] = proc[q]
      /\ cmd' = cmd /\ cut' = cut
  BY WorkerMoves
<1>1. ASSUME proc[p] \in Locked, proc'[p] \notin Up \/ pidFile' = p PROVE PidTold'
  <2>1. \A q \in Pids : q # p => proc'[q] \notin Up
    BY <1>0, <1>1, LockKeepsOthersOut, Stages
  <2> QED BY <1>1, <2>1 DEF PidTold
<1>2. CASE WorkerOpenPID(p) \/ DeferClearPID(p)
  BY <1>1, <1>2 DEF WorkerOpenPID, DeferClearPID, At, Move, Locked, Up, Engine, DaemonTypeOK
<1>3. CASE WorkerWritePID(p)
  BY <1>1, <1>3 DEF WorkerWritePID, At, Move, Locked, Up, Engine, DaemonTypeOK
<1>4. ASSUME pidFile' = pidFile, proc'[p] \in Up => proc[p] \in Up PROVE PidTold'
  BY <1>0, <1>4 DEF PidTold
<1>5. CASE TryLock(p) \/ WorkerClearStop(p) \/ WorkerPrepare(p) \/ EngineStart(p)
  BY <1>4, <1>5 DEF TryLock, WorkerClearStop, WorkerPrepare, EngineStart, At, Move, Up, Engine,
                    DaemonTypeOK
<1>6. CASE StopFileSeen(p) \/ Drained(p) \/ TargetReached(p) \/ DeferClearStop(p)
  BY <1>4, <1>6 DEF StopFileSeen, Drained, TargetReached, DeferClearStop, At, Move, Up, Engine,
                    DaemonTypeOK
<1>7. CASE DeferUnlock(p) \/ Crash(p) \/ Tick(p)
  BY <1>4, <1>7 DEF DeferUnlock, Crash, Tick, Killed, Up, Engine, DaemonTypeOK
<1>8. CASE SetWrite(p) \/ SetRename(p)
  BY <1>4, <1>8 DEF SetWrite, SetRename
<1> QED BY <1>2, <1>3, <1>5, <1>6, <1>7, <1>8 DEF WorkerStep

\* The worker that publishes its PID finds only its own starter in a Set.
LEMMA PublishedTold ==
  ASSUME DaemonTypeOK, LockTells', SetsFit, SetsTold, NEW p \in Pids, p # cut,
         proc[p] \in Coming, proc'[p] \in Up, \A q \in Pids : q # p => proc'[q] = proc[q],
         WorkerState(p)
  PROVE  Told(p)'
<1>1. UNCHANGED stateVars /\ proc'[p] \notin Engine
  <2>1. proc[p] \notin Engine \cup {"published"} /\ proc'[p] # "gone" /\ proc'[p] # "ended"
        /\ proc'[p] # proc[p]
    BY DEF Coming, Up, Engine
  <2> QED BY <2>1 DEF WorkerState
<1>2. proc'[p] \in Locked
  BY Stages
<1>3. \A q \in Pids : q # p => proc[q] \notin Locked
  BY <1>2 DEF LockTells
<1>4. \A w \in Writers : Setting(w) => w \in Callers
  <2>1. proc[p] \notin Engine \cup {"ended"}
    BY DEF Coming, Engine
  <2> QED BY <1>3, <2>1, Stages DEF SetsFit, SetPlace, Writers
<1>5. \A w \in Writers : Setting(w) => set[w].new = Says("running", p)
  BY <1>4 DEF SetsTold
<1> QED BY <1>1, <1>5 DEF Told, stateVars, Setting

LEMMA WorkerToldSelf ==
  ASSUME DaemonTypeOK, SetsFit, NEW p \in Pids, Told(p), proc[p] \in Up, WorkerState(p)
  PROVE  Told(p)'
<1>0. StateTypeOK /\ SetShape /\ p \in Writers
  BY TypeParts, WritersAre DEF SetsFit
<1>1. CASE proc'[p] \notin Up
  BY <1>1, Stages DEF Told
<1>2. CASE /\ UNCHANGED stateVars
           /\ Setting(p) /\ proc[p] = "prelude" => proc'[p] = "prelude"
           /\ proc'[p] \in Engine => proc[p] \in Engine
  BY <1>2, ToldIdle
<1>3. ASSUME proc'[p] \in Up,
             NEW s \in Snapshots, Begins(p, s), proc'[p] \in Engine => s = Says("running", p),
             ~Setting(p) \/ proc[p] = "published", proc'[p] \in Engine \cup {"ended"},
             proc[p] \in Engine /\ proc'[p] \in Engine => proc'[p] = proc[p],
             proc[p] = "published" /\ proc'[p] \in Engine => proc'[p] = "prelude"
      PROVE  Told(p)'
  <2>1. proc'[p] \in Engine /\ s = Says("running", p)
    BY <1>3 DEF Up, Engine
  <2>2. proc'[p] = proc[p] \/ proc'[p] = "prelude"
    BY <1>3, <2>1 DEF Up
  <2>3. (~Setting(p) /\ proc'[p] = proc[p]) \/ proc[p] = "published"
    BY <1>3, <2>1 DEF Up
  <2> QED BY <1>0, <1>3, <2>1, <2>2, <2>3, ToldBegin
<1>4. CASE SetWrite(p) /\ UNCHANGED proc
  BY <1>0, <1>4, ToldWrite
<1>5. CASE SetRename(p) /\ UNCHANGED proc
  BY <1>0, <1>5, ToldRename
<1>6. CASE proc'[p] = "gone"
  BY <1>1, <1>6 DEF Up, Engine
<1> QED BY <1>1, <1>2, <1>3, <1>4, <1>5, <1>6 DEF WorkerState

LEMMA WorkerToldOther ==
  ASSUME DaemonTypeOK, LockTells, SetsFit, NEW p \in Pids, NEW q \in Pids, q # p, Told(q),
         proc[q] \in Up, proc'[q] = proc[q], WorkerState(p)
  PROVE  Told(q)'
<1>0. StateTypeOK /\ SetShape
  BY TypeParts DEF SetsFit
<1>1. proc[p] \notin Locked
  BY LockKeepsOthersOut, Stages
<1>2. ~Setting(p)
  BY <1>1, Stages DEF SetsFit, SetPlace
<1>3. CASE UNCHANGED stateVars
  BY <1>3, ToldIdle
<1>4. CASE SetWrite(p) \/ SetRename(p)
  BY <1>2, <1>4 DEF SetWrite, SetRename, Setting
<1>5. CASE Ends(p)
  BY <1>0, <1>5, ToldEnds
<1> QED BY <1>1, <1>3, <1>4, <1>5 DEF WorkerState

LEMMA WorkerStateTold ==
  ASSUME DaemonTypeOK, LockTells, SetsFit, SetsTold, StateTold, NEW p \in Pids,
         WorkerStep(p) \/ Tick(p) \/ TargetReached(p) \/ Crash(p)
  PROVE  StateTold'
<1>0. /\ \A q \in Pids : q # p => proc'[q] = proc[q]
      /\ proc'[p] \in Up => proc[p] \in Coming \cup Up
      /\ cut' = cut
  BY WorkerMoves
<1>1. WorkerState(p) /\ LockTells'
  BY WorkerStates, WorkerLockStep, TypeParts
<1> SUFFICES ASSUME NEW q \in Pids, q # cut PROVE Told(q)'
  BY <1>0 DEF StateTold
<1>2. CASE proc'[q] \notin Up
  BY <1>2, Stages DEF Told
<1>3. CASE q = p /\ proc'[p] \in Up
  <2>1. CASE proc[p] \in Coming
    BY <1>0, <1>1, <1>3, <2>1, PublishedTold
  <2>2. CASE proc[p] \in Up
    BY <1>1, <1>3, <2>2, WorkerToldSelf DEF StateTold
  <2> QED BY <1>0, <1>3, <2>1, <2>2
<1>4. CASE q # p /\ proc'[q] \in Up
  BY <1>0, <1>1, <1>4, WorkerToldOther DEF StateTold
<1> QED BY <1>2, <1>3, <1>4

LEMMA WorkerInOrder ==
  ASSUME DaemonTypeOK, LockTells, SetsFit, InOrder, NEW p \in Pids,
         WorkerStep(p) \/ Tick(p) \/ TargetReached(p) \/ Crash(p)
  PROVE  InOrder'
<1>0. /\ \A q \in Pids : proc'[q] \in Coming \cup Up => proc[q] \in Coming \cup Up
      /\ \A q \in Pids : proc'[q] \in Coming => proc[q] \in Coming
      /\ \A q \in Pids : proc'[q] = "none" => proc[q] = "none"
      /\ cmd' = cmd /\ overlapped' = overlapped /\ cut' = cut
  BY WorkerMoves
<1>1. CutIsPast' /\ TargetKnown'
  BY <1>0 DEF InOrder, CutIsPast, TargetKnown, Target, DaemonTypeOK
<1> SUFFICES ASSUME ~overlapped PROVE Alone' /\ CommandFits' /\ SetsTold' /\ PidTold' /\ StateTold'
  BY <1>0, <1>1 DEF InOrder
<1>2. Alone /\ CommandFits /\ SetsTold /\ PidTold /\ StateTold
  BY DEF InOrder
<1>3. Alone'
  BY <1>0, <1>2 DEF Alone, Busy
<1>4. CommandFits'
  BY <1>0, <1>2 DEF CommandFits, Target
<1>5. SetsTold'
  <2>1. \A c \in Callers : Setting(c)' => Setting(c) /\ set'[c].new = set[c].new
    <3>1. StateTypeOK /\ WorkerState(p)
      BY WorkerStates, TypeParts
    <3>2. \A c \in Callers : c \in Writers /\ c # p
      BY WritersAre
    <3> QED BY <3>1, <3>2, WritersAre, SettingsAfter DEF WorkerState
  <2> QED BY <1>0, <1>2, <2>1 DEF SetsTold
<1> QED BY <1>2, <1>3, <1>4, <1>5, WorkerPidTold, WorkerStateTold

----------------------------------------------------------------------------
\* The steps of a command keep the order.

LEMMA CommandTargets ==
  ASSUME DaemonTypeOK, TargetKnown, NEW c \in Callers,
         CommandStep(c) \/ StartCheck(c) \/ StartFails(c) \/ StopCheck(c) \/ StopRequestFails(c)
  PROVE  TargetKnown'
<1> USE DEF DaemonTypeOK
<1>0. CommandMove(c)
  BY CommandMoves
<1> SUFFICES ASSUME cmd'[c].pc \in Starting PROVE cmd'[c].pid \in Pids
  BY <1>0 DEF TargetKnown, Target, CommandMove
<1>1. CASE UNCHANGED cmd
  BY <1>1 DEF TargetKnown, Target
<1>2. CASE StartCheck(c) \/ StopCheck(c)
  <2>1. \E s \in {"state", "request", "stalePid"} : \E q : cmd' = [cmd EXCEPT ![c] = [pc |-> s, pid |-> q]]
    BY <1>2 DEF StartCheck, StopCheck, Begin
  <2> QED BY <2>1 DEF Starting
<1>3. ASSUME Return(c) PROVE FALSE
  BY <1>3 DEF Return, Idle, Starting
<1>4. CASE StartFails(c) \/ CommandDone(c) \/ StopRequestFails(c)
  BY <1>3, <1>4 DEF StartFails, CommandDone, StopRequestFails
<1>5. CASE StartState(c) \/ StartClearStop(c)
  BY <1>5 DEF StartState, StartClearStop, Step, Starting
<1>6. CASE StartOpenPID(c) \/ StartWritePID(c) \/ StartPublish(c)
  BY <1>6 DEF StartOpenPID, StartWritePID, StartPublish, Step, Starting, TargetKnown, Target
<1>7. CASE StartBackground(c)
  BY <1>7 DEF StartBackground
<1>8. CASE StopRequest(c) \/ StopSignal(c) \/ StopSeesEnd(c) \/ ForceKill(c)
  BY <1>8 DEF StopRequest, StopSignal, StopSeesEnd, ForceKill, Step, Starting
<1>9. CASE StopAfterKill(c)
  BY <1>3, <1>9 DEF StopAfterKill, Step, Starting
<1>10. CASE StopClearPID(c) \/ StopClearStop(c) \/ StopReport(c)
  BY <1>10 DEF StopClearPID, StopClearStop, StopReport, Step, Starting
<1>11. CASE SetWrite(c) \/ SetRename(c)
  BY <1>1, <1>11 DEF SetWrite, SetRename
<1> QED BY <1>2, <1>4, <1>5, <1>6, <1>7, <1>8, <1>9, <1>10, <1>11 DEF CommandStep

\* Only a start cut short between truncation and write changes cut, to its own worker.
CutMove(c) ==
    \/ UNCHANGED cut
    \/ /\ cut' = Target(c) /\ proc[Target(c)] \in Up /\ pidFile # Target(c)
       /\ cmd[c].pc = "write" /\ UNCHANGED <<proc, pidFile>> /\ cmd'[c].pc = "idle"

LEMMA CutMoves ==
  ASSUME DaemonTypeOK, NEW c \in Callers,
         CommandStep(c) \/ StartCheck(c) \/ StartFails(c) \/ StopCheck(c) \/ StopRequestFails(c)
  PROVE  CutMove(c)
<1>1. CASE StartFails(c)
  BY <1>1 DEF StartFails, CutMove, Up, Return, Idle, DaemonTypeOK
<1>2. ASSUME UNCHANGED cut PROVE CutMove(c)
  BY <1>2 DEF CutMove
<1>3. CASE StartCheck(c) \/ StopCheck(c) \/ StopRequestFails(c) \/ CommandDone(c)
  BY <1>2, <1>3 DEF StartCheck, StopCheck, StopRequestFails, CommandDone
<1>4. CASE StartState(c) \/ StartClearStop(c) \/ StartBackground(c) \/ StartOpenPID(c)
           \/ StartWritePID(c) \/ StartPublish(c)
  BY <1>2, <1>4 DEF StartState, StartClearStop, StartBackground, StartOpenPID, StartWritePID,
                    StartPublish
<1>5. CASE StopRequest(c) \/ StopSignal(c) \/ StopSeesEnd(c) \/ ForceKill(c) \/ StopAfterKill(c)
  BY <1>2, <1>5 DEF StopRequest, StopSignal, StopSeesEnd, ForceKill, StopAfterKill
<1>6. CASE StopClearPID(c) \/ StopClearStop(c) \/ StopReport(c) \/ SetWrite(c) \/ SetRename(c)
  BY <1>2, <1>6 DEF StopClearPID, StopClearStop, StopReport, SetWrite, SetRename
<1> QED BY <1>1, <1>3, <1>4, <1>5, <1>6 DEF CommandStep

LEMMA CommandCutIsPast ==
  ASSUME DaemonTypeOK, CutIsPast, NEW c \in Callers, CommandMove(c), CutMove(c)
  PROVE  CutIsPast'
<1>1. CASE UNCHANGED cut
  BY <1>1 DEF CutIsPast, CommandMove, Coming, DaemonTypeOK
<1>2. CASE cut' = Target(c) /\ proc[Target(c)] \in Up /\ UNCHANGED proc
  BY <1>2 DEF CutIsPast, Up, Engine, Coming
<1> QED BY <1>1, <1>2 DEF CutMove

\* A command begins only where the order tells it what it finds.
LEMMA BeginInOrder ==
  ASSUME DaemonTypeOK, SetsFit, InOrder, NEW c \in Callers, StartCheck(c) \/ StopCheck(c)
  PROVE  InOrder'
<1>1. /\ UNCHANGED <<pidFile, stateVars, proc, cut>>
      /\ \A d \in Callers : d # c => cmd'[d] = cmd[d]
  BY DEF StartCheck, StopCheck, Begin, DaemonTypeOK
<1>2. CutIsPast' /\ TargetKnown'
  BY <1>1, CommandTargets DEF InOrder, CutIsPast
<1> SUFFICES ASSUME ~overlapped' PROVE Alone' /\ CommandFits' /\ SetsTold' /\ PidTold' /\ StateTold'
  BY <1>2 DEF InOrder
<1>0. /\ ~overlapped
      /\ \A d \in Callers : ~Busy(d)
      /\ \A p \in Pids : proc[p] \notin Coming
  BY DEF StartCheck, StopCheck, Begin, Coming
<1>3. /\ \A d \in Callers : d # c => cmd'[d].pc = "idle"
      /\ \A d \in Callers : cmd[d].pc = "idle"
  BY <1>0, <1>1 DEF Busy
<1>4. \A p \in Pids : proc[p] \in Up /\ p # cut => pidFile = p /\ PIDAlive(pidFile)
  BY <1>0, <1>3, Stages DEF InOrder, PidTold, PIDAlive
<1>5. Alone'
  BY <1>3 DEF Alone, Busy
<1>6. \A p \in Pids : proc[p] \in Up /\ p # cut => cmd'[c].pc = "request" /\ cmd'[c].pid = p
  <2>1. CASE StartCheck(c)
    BY <1>4, <2>1 DEF StartCheck, Pids
  <2>2. CASE StopCheck(c)
    BY <1>4, <2>2 DEF StopCheck, Begin, DaemonTypeOK
  <2> QED BY <2>1, <2>2
<1>7. CommandFits'
  <2>1. \A d \in Callers, p \in Pids : proc[p] \in Up => d = c \/ cmd'[d].pc = "idle"
    BY <1>3
  <2> QED BY <1>0, <1>1, <1>6, <2>1 DEF CommandFits, Target
<1>8. PidTold' /\ StateTold'
  BY <1>0, <1>1, <1>4 DEF InOrder, PidTold, StateTold, Told, Fresh, Setting, stateVars
<1>9. SetsTold'
  <2>1. \A d \in Callers : ~Setting(d)
    BY <1>3 DEF SetsFit, SetPlace, Writing
  <2> QED BY <1>1, <2>1 DEF SetsTold, Setting, stateVars
<1> QED BY <1>5, <1>7, <1>8, <1>9

\* A command under way is the only one.
LEMMA OnlyOneMoves ==
  ASSUME DaemonTypeOK, SetsFit, Alone, NEW c \in Callers,
         CommandStep(c) \/ StartFails(c) \/ StopRequestFails(c)
  PROVE  \A d \in Callers : d # c => cmd[d].pc = "idle" /\ cmd'[d] = cmd[d]
<1>1. Busy(c) \/ Setting(c)
  BY DEF CommandStep, StartFails, StartState, StartClearStop, StartBackground, StartOpenPID,
         StartWritePID, StartPublish, StopRequest, StopSignal, StopSeesEnd, ForceKill,
         StopAfterKill, StopClearPID, StopClearStop, StopReport, CommandDone, StopRequestFails,
         SetWrite, SetRename, Step, Busy, Setting, StartSteps
<1>2. Busy(c)
  BY <1>1 DEF SetsFit, SetPlace, Writing, Busy
<1> QED BY <1>2, CommandMoves DEF CommandMove, Alone, Busy

\* While nobody else is up or on the way, a command has the files for itself.
LEMMA NobodyToTell ==
  ASSUME \A p \in Pids : p # cut' => proc'[p] \notin Coming \cup Up
  PROVE  CommandFits' /\ SetsTold' /\ PidTold' /\ StateTold'
  BY Stages DEF CommandFits, SetsTold, PidTold, StateTold, Told

\* The commands' program counters and the PID file, action by action.
LEMMA CommandFiles ==
  ASSUME DaemonTypeOK, LockTells, SetsFit, Alone, CommandFits, CutIsPast, TargetKnown, PidTold,
         NEW c \in Callers, CommandStep(c) \/ StartFails(c) \/ StopRequestFails(c)
  PROVE  CommandFits' /\ PidTold'
<1>1. \A d \in Callers : d # c => cmd[d].pc = "idle" /\ cmd'[d] = cmd[d]
  BY OnlyOneMoves
<1>2. CommandMove(c) /\ CutMove(c)
  BY CommandMoves, CutMoves
<1>3. \A p \in Pids : proc[p] \in Up /\ p # cut => pidFile = p \/ cmd[c].pc = "write"
  BY <1>1 DEF PidTold
<1>4. CASE StartState(c) \/ StartClearStop(c)
  <2>1. \A p \in Pids : p # cut' => proc'[p] \notin Coming \cup Up
    BY <1>4 DEF StartState, StartClearStop, Step, CommandFits
  <2> QED BY <2>1, NobodyToTell
<1>5. CASE StartBackground(c)
  <2>1. PICK p \in Pids : /\ IsNextPid(p)
                          /\ cmd' = [cmd EXCEPT ![c] = [pc |-> "open", pid |-> p]]
                          /\ proc' = [proc EXCEPT ![p] = "booting"]
    BY <1>5 DEF StartBackground
  <2>2. \A q \in Pids : q # cut => proc[q] \notin Coming \cup Up
    BY <1>5 DEF StartBackground, CommandFits
  <2>3. /\ proc'[p] = "booting" /\ \A q \in Pids : q # p => proc'[q] = proc[q]
        /\ cmd'[c] = [pc |-> "open", pid |-> p] /\ cut' = cut
    BY <1>5, <2>1 DEF DaemonTypeOK, StartBackground
  <2>4. "booting" \in Coming /\ "booting" \notin Up
    BY DEF Coming, Up, Engine
  <2>5. CommandFits'
    BY <1>1, <2>2, <2>3, <2>4 DEF CommandFits, Target
  <2> QED BY <2>2, <2>3, <2>4, <2>5 DEF PidTold
<1>6. CASE StartOpenPID(c)
  <2>1. cmd[c].pc = "open" /\ cmd'[c].pc = "write" /\ cmd'[c].pid = cmd[c].pid
    BY <1>6 DEF StartOpenPID, Step, DaemonTypeOK
  <2>2. UNCHANGED <<proc, cut>>
    BY <1>6 DEF StartOpenPID
  <2>3. CommandFits'
    BY <1>1, <2>1, <2>2 DEF CommandFits, Target
  <2> QED BY <2>1, <2>2, <2>3 DEF PidTold
<1>7. CASE StartWritePID(c)
  <2>1. cmd[c].pc = "write" /\ cmd'[c].pc = "publish" /\ cmd'[c].pid = cmd[c].pid
    BY <1>7 DEF StartWritePID, Step, DaemonTypeOK
  <2>2. UNCHANGED <<proc, cut>> /\ pidFile' = Target(c)
    BY <1>7 DEF StartWritePID
  <2>3. CommandFits'
    BY <1>1, <2>1, <2>2 DEF CommandFits, Target
  <2>4. \A p \in Pids : proc[p] \in Up /\ p # cut => p = Target(c)
    BY <2>1 DEF CommandFits
  <2> QED BY <2>2, <2>3, <2>4 DEF PidTold
<1>8. CASE StartPublish(c)
  <2>1. cmd[c].pc = "publish" /\ cmd'[c].pc = "told" /\ cmd'[c].pid = cmd[c].pid
    BY <1>8 DEF StartPublish, Step, DaemonTypeOK
  <2>2. UNCHANGED <<proc, cut, pidFile>>
    BY <1>8 DEF StartPublish
  <2>3. CommandFits'
    BY <1>1, <2>1, <2>2 DEF CommandFits, Target
  <2> QED BY <1>1, <1>3, <2>1, <2>2, <2>3 DEF PidTold
<1>9. CASE CommandDone(c) \/ StopRequestFails(c)
  <2>1. cmd'[c].pc = "idle" /\ cmd[c].pc # "write"
    BY <1>9 DEF CommandDone, StopRequestFails, Return, Idle, DaemonTypeOK
  <2>2. UNCHANGED <<proc, pidFile, cut>>
    BY <1>9 DEF CommandDone, StopRequestFails
  <2>3. CommandFits'
    BY <1>1, <2>1 DEF CommandFits
  <2> QED BY <1>3, <2>1, <2>2, <2>3 DEF PidTold
<1>10. CASE StartFails(c)
  <2>1. cmd'[c].pc = "idle" /\ UNCHANGED <<proc, pidFile>>
    BY <1>10 DEF StartFails, Return, Idle, DaemonTypeOK
  <2>2. CommandFits'
    BY <1>1, <2>1 DEF CommandFits
  <2>3. ASSUME NEW p \in Pids, proc[p] \in Up, p # cut' PROVE pidFile = p
    <3>1. CASE cut' = cut
      <4>1. cmd[c].pc = "write" => p = Target(c)
        BY <2>3, <3>1 DEF CommandFits
      <4>2. cmd[c].pc = "write" /\ pidFile # p => cut' = p
        BY <1>10, <2>3, <4>1 DEF StartFails, Up
      <4> QED BY <1>3, <2>3, <3>1, <4>2
    <3>2. CASE cut' = Target(c) /\ proc[Target(c)] \in Up /\ cmd[c].pc = "write"
      <4>1. Target(c) \in Pids
        BY <3>2 DEF TargetKnown, Starting
      <4>2. proc[p] \notin Up
        BY <2>3, <3>2, <4>1, LockKeepsOthersOut, Stages
      <4> QED BY <2>3, <4>2
    <3> QED BY <1>2, <3>1, <3>2 DEF CutMove
  <2> QED BY <2>1, <2>2, <2>3 DEF PidTold
<1>11. CASE StopRequest(c)
  <2>1. cmd[c].pc = "request" /\ cmd'[c].pc = "signal" /\ cmd'[c].pid = cmd[c].pid
    BY <1>11 DEF StopRequest, Step, DaemonTypeOK
  <2>2. UNCHANGED <<proc, pidFile, cut>>
    BY <1>11 DEF StopRequest
  <2>3. CommandFits'
    BY <1>1, <2>1, <2>2 DEF CommandFits, Target
  <2> QED BY <1>3, <2>1, <2>2, <2>3 DEF PidTold
<1>12. CASE StopSignal(c)
  <2>1. cmd[c].pc = "signal" /\ cmd'[c].pc = "wait" /\ cmd'[c].pid = cmd[c].pid
    BY <1>12 DEF StopSignal, Step, DaemonTypeOK
  <2>2. UNCHANGED <<pidFile, cut>>
    BY <1>12 DEF StopSignal
  <2>3. \A p \in Pids : /\ proc'[p] \in Coming => proc[p] \in Coming
                        /\ proc'[p] \in Up => proc[p] \in Up
    BY <1>2, <2>1 DEF CommandMove, Coming, Up, Engine
  <2>4. CommandFits'
    BY <1>1, <2>1, <2>2, <2>3 DEF CommandFits, Target
  <2> QED BY <1>3, <2>1, <2>2, <2>3, <2>4 DEF PidTold
<1>13. CASE StopSeesEnd(c) \/ ForceKill(c)
  <2>1. cmd[c].pc = "wait" /\ UNCHANGED cut
    BY <1>13 DEF StopSeesEnd, ForceKill, Step
  <2>2. \A p \in Pids : proc[p] \in Coming \cup Up /\ p # cut => p = Target(c) /\ proc[p] \in Executing
    BY <2>1, Stages DEF CommandFits
  <2>3. \A p \in Pids : p # cut => proc'[p] \notin Coming \cup Up
    <3>1. CASE StopSeesEnd(c)
      BY <2>2, <3>1 DEF StopSeesEnd, PIDAlive
    <3>2. CASE ForceKill(c)
      BY <2>2, <3>2 DEF ForceKill, Killed, DaemonTypeOK, Coming, Up, Engine
    <3> QED BY <1>13, <3>1, <3>2
  <2> QED BY <2>1, <2>3, NobodyToTell
<1>14. CASE StopAfterKill(c) \/ StopClearPID(c) \/ StopClearStop(c) \/ StopReport(c)
  <2>1. cmd[c].pc \in {"killed", "unpid", "stalePid", "unstop", "staleStop", "report", "staleState"}
    BY <1>14 DEF StopAfterKill, StopClearPID, StopClearStop, StopReport, Step
  <2>2. UNCHANGED <<proc, cut>>
    BY <1>14 DEF StopAfterKill, StopClearPID, StopClearStop, StopReport
  <2>3. \A p \in Pids : p # cut' => proc'[p] \notin Coming \cup Up
    BY <2>1, <2>2 DEF CommandFits
  <2> QED BY <2>3, NobodyToTell
<1>15. CASE SetWrite(c) \/ SetRename(c)
  <2>1. UNCHANGED <<proc, cut, cmd, pidFile>>
    BY <1>15 DEF SetWrite, SetRename
  <2> QED BY <2>1 DEF CommandFits, PidTold, Target
<1> QED BY <1>4, <1>5, <1>6, <1>7, <1>8, <1>9, <1>10, <1>11, <1>12, <1>13, <1>14, <1>15 DEF CommandStep

\* What a command writes about a worker on its way or up is what that worker says.
LEMMA CommandSetsTold ==
  ASSUME DaemonTypeOK, SetsFit, SetsFit', CommandFits, CommandFits', SetsTold, NEW c \in Callers,
         CommandState(c), CommandMove(c), UNCHANGED cut,
         \A d \in Callers : d # c => cmd[d].pc = "idle" /\ cmd'[d] = cmd[d],
         NEW d \in Callers, NEW q \in Pids, proc'[q] \in Coming \cup Up, q # cut, Setting(d)'
  PROVE  set'[d].new = Says("running", q)
<1>0. StateTypeOK /\ c \in Writers
  BY TypeParts, WritersAre
<1>1. d = c /\ cmd'[c].pc \in Writing
  BY DEF SetsFit, SetPlace, Writing
<1>2. cmd'[c].pc = "told"
  BY <1>1 DEF CommandFits, Writing
<1>3. proc[q] \in Coming \cup Up
  <2>1. "gone" \notin Coming \cup Up
    BY DEF Coming, Up, Engine
  <2>2. cmd'[c] # [pc |-> "open", pid |-> q]
    BY <1>2
  <2> QED BY <2>1, <2>2 DEF CommandMove, Up, Engine
<1>4. Setting(c) => set[c].new = Says("running", q)
  BY <1>3 DEF SetsTold
<1>5. CASE UNCHANGED stateVars
  BY <1>0, <1>1, <1>4, <1>5, SettingsAfter
<1>6. ASSUME NEW s \in Snapshots, Begins(c, s), cmd[c].pc = "publish" => s = Says("running", Target(c)),
             cmd[c].pc \in {"state", "publish", "report", "staleState"}
      PROVE  set'[d].new = Says("running", q)
  <2>1. cmd[c].pc = "publish" /\ q = Target(c)
    BY <1>3, <1>6 DEF CommandFits
  <2> QED BY <1>0, <1>1, <1>6, <2>1, BeginSets
<1>7. CASE SetWrite(c) \/ SetRename(c)
  BY <1>0, <1>1, <1>4, <1>7, SettingsAfter
<1>8. CASE Ends(c)
  BY <1>0, <1>1, <1>8, SettingsAfter
<1>9. CASE Ends(Target(c)) /\ cmd[c].pc \notin Writing
  <2>1. ~Setting(c)
    BY <1>9 DEF SetsFit, SetPlace
  <2> QED BY <1>0, <1>1, <1>9, <2>1, SettingsAfter
<1> QED BY <1>5, <1>6, <1>7, <1>8, <1>9 DEF CommandState

\* What a worker finds in state.json is not spoiled by a command.
LEMMA CommandTold ==
  ASSUME DaemonTypeOK, SetsFit, CommandFits, NEW c \in Callers, CommandState(c), CommandMove(c),
         NEW q \in Pids, q # cut, Told(q)
  PROVE  Told(q)'
<1>0. StateTypeOK /\ SetShape /\ c \in Writers /\ c # q
  BY TypeParts, WritersAre DEF SetsFit
<1>1. CASE proc'[q] \notin Up
  BY <1>1, Stages DEF Told
<1>2. CASE proc'[q] \in Up
  <2>1. /\ proc[q] \in Up /\ (proc'[q] \in Engine => proc[q] \in Engine)
        /\ proc'[q] = proc[q] \/ proc[q] = "running"
    BY <1>2 DEF CommandMove, Up, Engine
  <2>2. CASE UNCHANGED stateVars
    BY <2>1, <2>2, ToldIdle
  <2>3. ASSUME NEW s \in Snapshots, Begins(c, s), cmd[c].pc = "publish" => s = Says("running", Target(c)),
               cmd[c].pc \in {"state", "publish", "report", "staleState"}, UNCHANGED proc
        PROVE  Told(q)'
    <3>1. cmd[c].pc = "publish" /\ q = Target(c)
      BY <2>1, <2>3 DEF CommandFits
    <3>2. s = Says("running", q)
      BY <2>3, <3>1
    <3> QED BY <1>0, <2>1, <2>3, <3>2, ToldBegin
  <2>4. CASE SetWrite(c) /\ UNCHANGED proc
    BY <1>0, <2>1, <2>4, ToldWrite
  <2>5. CASE SetRename(c) /\ UNCHANGED proc
    BY <1>0, <2>1, <2>5, ToldRename
  <2>6. CASE Ends(c)
    BY <1>0, <2>1, <2>6, ToldEnds
  <2>7. CASE Ends(Target(c)) /\ proc' = [proc EXCEPT ![Target(c)] = "gone"]
    <3>1. q # Target(c)
      BY <1>2, <2>7 DEF DaemonTypeOK, Up, Engine
    <3> QED BY <1>0, <2>1, <2>7, <3>1, ToldEnds
  <2> QED BY <2>2, <2>3, <2>4, <2>5, <2>6, <2>7 DEF CommandState
<1> QED BY <1>1, <1>2

LEMMA CommandInOrder ==
  ASSUME DaemonTypeOK, LockTells, SetsFit, SetsFit', InOrder, NEW c \in Callers,
         CommandStep(c) \/ StartFails(c) \/ StopRequestFails(c)
  PROVE  InOrder'
<1>0. CommandMove(c) /\ CutMove(c) /\ CommandState(c)
  BY CommandMoves, CutMoves, CommandStates, TypeParts
<1>1. CutIsPast' /\ TargetKnown'
  BY <1>0, CommandCutIsPast, CommandTargets DEF InOrder
<1>2. overlapped' = overlapped
  BY DEF CommandStep, StartFails, StartState, StartClearStop, StartBackground, StartOpenPID,
         StartWritePID, StartPublish, StopRequest, StopSignal, StopSeesEnd, ForceKill,
         StopAfterKill, StopClearPID, StopClearStop, StopReport, CommandDone, StopRequestFails,
         SetWrite, SetRename
<1> SUFFICES ASSUME ~overlapped PROVE Alone' /\ CommandFits' /\ SetsTold' /\ PidTold' /\ StateTold'
  BY <1>1, <1>2 DEF InOrder
<1>3. Alone /\ CommandFits /\ SetsTold /\ PidTold /\ StateTold /\ CutIsPast /\ TargetKnown
  BY DEF InOrder
<1>4. \A d \in Callers : d # c => cmd[d].pc = "idle" /\ cmd'[d] = cmd[d]
  BY <1>3, OnlyOneMoves
<1>5. Alone'
  BY <1>4 DEF Alone, Busy
<1>6. CommandFits' /\ PidTold'
  BY <1>3, CommandFiles
<1>7. CASE UNCHANGED cut
  <2>1. SetsTold'
    BY <1>0, <1>3, <1>4, <1>6, <1>7, CommandSetsTold DEF SetsTold
  <2>2. StateTold'
    BY <1>0, <1>3, <1>7, CommandTold DEF StateTold
  <2> QED BY <1>5, <1>6, <2>1, <2>2
<1>8. CASE /\ cut' = Target(c) /\ proc[Target(c)] \in Up
           /\ cmd[c].pc = "write" /\ UNCHANGED proc /\ cmd'[c].pc = "idle"
  <2>1. Target(c) \in Pids
    BY <1>3, <1>8 DEF TargetKnown, Starting
  <2>2. \A d \in Callers : cmd'[d].pc = "idle"
    BY <1>4, <1>8
  <2>3. SetsTold'
    BY <2>2 DEF SetsFit, SetPlace, SetsTold, Writing
  <2>4. ASSUME NEW q \in Pids, q # cut' PROVE Told(q)'
    <3>1. proc'[q] \notin Up
      BY <1>8, <2>1, <2>4, LockKeepsOthersOut, Stages
    <3> QED BY <3>1, Stages DEF Told
  <2> QED BY <1>5, <1>6, <2>3, <2>4 DEF StateTold
<1> QED BY <1>0, <1>7, <1>8 DEF CutMove

LEMMA SetFailsInOrder ==
  ASSUME DaemonTypeOK, SetsFit, InOrder, NEW w \in Writers, SetFails(w)
  PROVE  InOrder'
<1>0. StateTypeOK
  BY TypeParts
<1>1. /\ Ends(w) /\ spoiled' = "failed"
      /\ UNCHANGED <<pidFile, proc, cmd, overlapped, cut>>
  BY SetFailsEnds
<1>2. CutIsPast' /\ TargetKnown'
  BY <1>1 DEF InOrder, CutIsPast, TargetKnown, Target
<1> SUFFICES ASSUME ~overlapped PROVE Alone' /\ CommandFits' /\ SetsTold' /\ PidTold' /\ StateTold'
  BY <1>1, <1>2 DEF InOrder
<1>3. Alone /\ CommandFits /\ SetsTold /\ PidTold /\ StateTold
  BY DEF InOrder
<1>4. Alone' /\ CommandFits' /\ PidTold'
  BY <1>1, <1>3 DEF Alone, Busy, CommandFits, Target, PidTold
<1>5. SetsTold'
  BY <1>0, <1>1, <1>3, SettingsAfter, WritersAre DEF SetsTold
<1>6. StateTold'
  BY <1>0, <1>1, <1>3, ToldEnds DEF StateTold
<1> QED BY <1>4, <1>5, <1>6

LEMMA InOrderInit == DInit => InOrder
  BY NoSetType DEF DInit, InOrder, Alone, CommandFits, SetsTold, CutIsPast, TargetKnown, Starting,
                   PidTold, StateTold, Told, Busy, Idle, Coming, Up, Engine

LEMMA InOrderAlways == DSafety => [](SetsFit /\ InOrder)
<1>1. DInit => SetsFit /\ InOrder
  BY SetsFitInit, InOrderInit
<1>2. DaemonTypeOK /\ LockTells /\ SetsFit /\ InOrder /\ [DNext]_dVars => (SetsFit /\ InOrder)'
  <2> SUFFICES ASSUME DaemonTypeOK, LockTells, SetsFit, InOrder, [DNext]_dVars PROVE SetsFit' /\ InOrder'
    OBVIOUS
  <2>1. SetsFit'
    BY SetsFitStep
  <2>2. ASSUME UNCHANGED <<pidFile, stateVars, proc, cmd, overlapped, cut>> PROVE InOrder'
    BY <2>2 DEF InOrder, Alone, CommandFits, SetsTold, CutIsPast, TargetKnown, PidTold, StateTold, Told,
                Fresh, Setting, Busy, Target, stateVars
  <2>3. ASSUME DesktopQuits \/ UNCHANGED dVars PROVE InOrder'
    BY <2>2, <2>3 DEF DesktopQuits, dVars
  <2> QED BY <2>1, <2>3, WorkerInOrder, BeginInOrder, CommandInOrder, SetFailsInOrder DEF DNext
<1> QED BY <1>1, <1>2, LockTellsAlways, PTL DEF DSafety

\* Between two commands the PID file names the engine at work, but for the one whose entry a start
\* wiped and was cut short, for any number of terminals.
THEOREM WorkerFindableAlways == DSafety => []WorkerIsFindable
<1>1. InOrder => WorkerIsFindable
  BY Stages DEF InOrder, PidTold, WorkerIsFindable, Quiet, Busy
<1> QED BY <1>1, InOrderAlways, PTL

\* Between two commands the desktop and grf status tell of the engine at work, or find a state.json
\* that two writers spoiled and that does not parse, for any number of terminals and however the
\* steps of their Sets interleave.
THEOREM StatusTellsAlways == DSafety => []StatusTellsWorker
<1>1. DaemonTypeOK /\ InOrder => StatusTellsWorker
  <2> SUFFICES ASSUME DaemonTypeOK, InOrder, ~overlapped, spoiled # "failed",
                      NEW p \in Pids \ {cut}, proc[p] \in {"running", "draining"}
               PROVE  \/ Dashboard = Says("running", p) /\ FormatStatus(Reconciled) = Says("running", p)
                      \/ spoiled = "met" /\ ~Readable
    BY DEF StatusTellsWorker
  <2>1. Told(p) /\ proc[p] \in Engine /\ proc[p] # "prelude"
    BY DEF InOrder, StateTold, Engine
  <2>2. snap \in Fresh(p) /\ (spoiled = "no" => snap = Says("running", p))
    BY <2>1 DEF Told
  <2>3. CASE snap # Says("running", p)
    BY <2>2, <2>3 DEF Fresh, Readable, DaemonTypeOK
  <2>4. CASE snap = Says("running", p)
    <3>1. PIDAlive(p) /\ p # 0
      BY DEF PIDAlive, Pids, Executing, Locked
    <3>2. snap = [status |-> "running", pid |-> p] /\ Readable
      BY <2>4 DEF Says, Readable, Empty, Torn
    <3>3. Dashboard = [status |-> "running", pid |-> p]
      BY <3>1, <3>2 DEF Dashboard
    <3>4. Reconciled = [status |-> "running", pid |-> p]
      BY <3>1, <3>2 DEF Reconciled
    <3>5. FormatStatus(Reconciled) = [status |-> "running", pid |-> p]
      BY <3>1, <3>4 DEF FormatStatus
    <3> QED BY <3>3, <3>5 DEF Says
  <2> QED BY <2>3, <2>4
<1> QED BY <1>1, InOrderAlways, DaemonTypeCorrect, PTL

====
