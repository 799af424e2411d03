---- MODULE ManualOAuthProofs ----
(***************************************************************************)
(* Authorizing by hand, for any number of tasks and sessions: one session  *)
(* at a time, whose slot somebody will empty, and no credential without a  *)
(* token.                                                                  *)
(***************************************************************************)
EXTENDS ManualOAuth, TLAPS

USE ManualOAuthAssumption DEF ManualOAuthAssumption

Positions == {"off", "over", "open", "polling"} \cup Asking \cup Holding \cup Finishing

Listers == [pc : {"idle", "listed", "writing"}, todo : SUBSET Tasks, save : Tasks \cup {NoTask}]

LEMMA AgentNames ==
  /\ \A s \in Sessions, r \in Roles :
        <<s, r>> \in Agents /\ <<s, r>>[1] = s /\ <<s, r>>[2] = r
  /\ \A s, u \in Sessions, r, q \in Roles : <<s, r>> = <<u, q>> => s = u /\ r = q
  /\ \A a \in Agents : a[1] \in Sessions /\ a[2] \in Roles /\ a = <<a[1], a[2]>>
  BY DEF Agents

LEMMA Roster ==
  /\ "main" \in Roles /\ "window" \in Roles /\ "poll" \in Roles
  /\ \A r \in Roles : r # "main" => r \in {"window", "poll"}
  /\ \A s \in Sessions : Main(s) = <<s, "main">> /\ Main(s) \in Agents
  BY AgentNames DEF Roles, Main

LEMMA OverIsAPlace == \A a : Over(a) \in {"over", "off"}
  BY DEF Over

\* The write of the started flow.
AuthorizingStep(s) == OpenAuthorizing(s) \/ WriteAuthorizing(s)

\* What a step does to one goroutine.
Moves(a, x) == at' = [at EXCEPT ![a] = x]

LEMMA MovedTypes ==
  ASSUME OAuthTypeOK, NEW a \in Agents, NEW x \in Positions, Moves(a, x)
  PROVE  at' \in [Agents -> Positions]
  BY DEF OAuthTypeOK, Moves, Positions

\* What a write does to the files.
LEMMA SaveTypes ==
  ASSUME OAuthTypeOK, NEW t \in Tasks, NEW status \in Statuses, SaveBegins(t) \/ SaveEnds(t, status)
  PROVE  file' \in [Tasks -> Statuses \cup {"none", "torn"}] /\ mixed' \in SUBSET Tasks
<1>1. CASE SaveBegins(t)
  <2>1. mixed' \in SUBSET Tasks /\ file' = file
    BY <1>1 DEF SaveBegins, OAuthTypeOK
  <2> QED BY <2>1 DEF OAuthTypeOK
<1>2. CASE SaveEnds(t, status)
  <2>1. mixed' \in SUBSET Tasks
    BY <1>2 DEF SaveEnds, SaveOver, OAuthTypeOK
  <2>2. file' \in [Tasks -> Statuses \cup {"none", "torn"}]
    BY <1>2 DEF SaveEnds, OAuthTypeOK
  <2> QED BY <2>1, <2>2
<1> QED BY <1>1, <1>2

\* A write makes a task authorized only if that is what it writes.
LEMMA SaveTells ==
  ASSUME OAuthTypeOK, NEW t, NEW status, SaveBegins(t) \/ SaveEnds(t, status)
  PROVE  \A u \in Tasks : file'[u] = "authorized" =>
            file[u] = "authorized" \/ (u = t /\ SaveEnds(t, status) /\ status = "authorized")
  BY DEF SaveBegins, SaveEnds, OAuthTypeOK

LEMMA SessionTypeStep ==
  ASSUME OAuthTypeOK, NEW s \in Sessions, target[s] = NoTask => at[Main(s)] = "off",
         FindTask(s) \/ Claim(s) \/ StartDeviceFlow(s) \/ AuthorizingStep(s) \/ StartChrome(s)
           \/ InstallProcess(s) \/ PollReturns(s) \/ WindowCloses(s)
  PROVE  OAuthTypeOK'
<1>0. Main(s) \in Agents /\ <<s, "window">> \in Agents /\ <<s, "poll">> \in Agents
  BY AgentNames, Roster
<1>1. at' \in [Agents -> Positions]
  <2>1. CASE FindTask(s) \/ Claim(s) \/ StartDeviceFlow(s) \/ AuthorizingStep(s) \/ StartChrome(s)
    <3>1. \E x \in Positions : Moves(Main(s), x)
      BY <2>1 DEF FindTask, Claim, StartDeviceFlow, AuthorizingStep, OpenAuthorizing,
                  WriteAuthorizing, StartChrome, Go, Moves, Positions,
                  Asking, Holding, Finishing
    <3> QED BY <1>0, <3>1, MovedTypes
  <2>2. CASE InstallProcess(s)
    BY <1>0, <2>2 DEF InstallProcess, OAuthTypeOK, Positions
  <2>3. CASE PollReturns(s) \/ WindowCloses(s)
    <3>1. \E a \in Agents : Moves(a, "finish")
      BY <1>0, <2>3 DEF PollReturns, WindowCloses, Go, Moves
    <3> QED BY <3>1, MovedTypes DEF Positions, Finishing
  <2> QED BY <2>1, <2>2, <2>3
<1>2. /\ file' \in [Tasks -> Statuses \cup {"none", "torn"}] /\ mixed' \in SUBSET Tasks
      /\ active' \in Tasks \cup {NoTask}
      /\ owner' \in Sessions \cup {NoSession}
      /\ good' \in SUBSET Sessions
  <2>1. CASE FindTask(s) \/ StartDeviceFlow(s) \/ StartChrome(s) \/ InstallProcess(s) \/ WindowCloses(s)
    BY <2>1 DEF FindTask, StartDeviceFlow, StartChrome, InstallProcess, WindowCloses, session, OAuthTypeOK
  <2>2. CASE Claim(s)
    BY <2>2 DEF Claim, OAuthTypeOK
  <2>3. CASE AuthorizingStep(s)
    <3>1. target[s] \in Tasks /\ "authorizing" \in Statuses
      BY <2>3 DEF AuthorizingStep, OpenAuthorizing, WriteAuthorizing, Go, Statuses, OAuthTypeOK
    <3>2. SaveBegins(target[s]) \/ SaveEnds(target[s], "authorizing")
      BY <2>3 DEF AuthorizingStep, OpenAuthorizing, WriteAuthorizing, SaveEnds
    <3>3. file' \in [Tasks -> Statuses \cup {"none", "torn"}] /\ mixed' \in SUBSET Tasks
      BY <3>1, <3>2, SaveTypes
    <3> QED BY <2>3, <3>3 DEF AuthorizingStep, OpenAuthorizing, WriteAuthorizing, session, OAuthTypeOK
  <2>4. CASE PollReturns(s)
    BY <2>4 DEF PollReturns, session, OAuthTypeOK
  <2> QED BY <2>1, <2>2, <2>3, <2>4
<1>3. UNCHANGED <<waiter, target, cancelled, lister>>
  BY DEF FindTask, Claim, StartDeviceFlow, AuthorizingStep, OpenAuthorizing, WriteAuthorizing,
         StartChrome, InstallProcess, PollReturns, WindowCloses
<1> QED BY <1>1, <1>2, <1>3 DEF OAuthTypeOK, Positions

\* The slot is never taken by nobody, as far as the types need it.
LEMMA FinishTypeStep ==
  ASSUME OAuthTypeOK, active # NoTask => owner \in Sessions,
         NEW a \in Agents, target[a[1]] = NoTask => at[a] = "off", FinishStep(a)
  PROVE  OAuthTypeOK'
<1>1. at' \in [Agents -> Positions]
  <2>1. \E x \in Positions : Moves(a, x)
    BY OverIsAPlace DEF FinishStep, FinishClear, FinishRead, FinishOpen, FinishWrite, Go, Moves,
                        Positions, Finishing
  <2> QED BY <2>1, MovedTypes
<1>2. CASE FinishClear(a)
  <2>1. cancelled' \in SUBSET Sessions
    BY <1>2 DEF FinishClear, OAuthTypeOK
  <2>2. active' \in Tasks \cup {NoTask} /\ owner' \in Sessions \cup {NoSession}
    BY <1>2 DEF FinishClear, OAuthTypeOK
  <2> QED BY <1>1, <1>2, <2>1, <2>2 DEF FinishClear, OAuthTypeOK, Positions
<1>3. CASE FinishRead(a)
  BY <1>1, <1>3 DEF FinishRead, session, OAuthTypeOK, Positions
<1>4. CASE FinishOpen(a) \/ FinishWrite(a)
  <2>1. target[a[1]] \in Tasks /\ "authorized" \in Statuses /\ "failed" \in Statuses
    BY <1>4, AgentNames DEF FinishOpen, FinishWrite, Go, OAuthTypeOK, Statuses
  <2>2. \/ SaveBegins(target[a[1]])
        \/ SaveEnds(target[a[1]], IF at[a] = "saveOk" THEN "authorized" ELSE "failed")
    BY <1>4 DEF FinishOpen, FinishWrite
  <2>3. file' \in [Tasks -> Statuses \cup {"none", "torn"}] /\ mixed' \in SUBSET Tasks
    BY <2>1, <2>2, SaveTypes
  <2>4. UNCHANGED <<waiter, active, owner, target, good, cancelled, lister>>
    BY <1>4 DEF FinishOpen, FinishWrite, session
  <2> QED BY <1>1, <2>3, <2>4 DEF OAuthTypeOK, Positions
<1> QED BY <1>2, <1>3, <1>4 DEF FinishStep

LEMMA OtherTypeStep ==
  ASSUME OAuthTypeOK,
         \/ \E t \in Tasks : Enqueue(t) \/ WaitCancelled(t) \/ WorkerTakes(t)
         \/ \E s \in Sessions, t \in Tasks : Ask(s, t)
         \/ ListStep \/ DesktopRestart \/ UNCHANGED oVars
  PROVE  OAuthTypeOK'
<1>1. ASSUME NEW t \in Tasks, Enqueue(t) \/ WaitCancelled(t) \/ WorkerTakes(t) PROVE OAuthTypeOK'
  <2>1. file' \in [Tasks -> Statuses \cup {"none", "torn"}]
    BY <1>1 DEF Enqueue, WaitCancelled, WorkerTakes, WaitAuthorized, RemoveTask, OAuthTypeOK, Statuses
  <2>2. waiter' \in [Tasks -> {"todo", "waiting", "got", "quit", "done"}]
    BY <1>1 DEF Enqueue, WaitCancelled, WorkerTakes, WaitAuthorized, RemoveTask, OAuthTypeOK
  <2> QED BY <1>1, <2>1, <2>2 DEF Enqueue, WaitCancelled, WorkerTakes, WaitAuthorized, RemoveTask,
                                  session, OAuthTypeOK
<1>2. ASSUME NEW s \in Sessions, NEW t \in Tasks, Ask(s, t) PROVE OAuthTypeOK'
  <2>1. at' \in [Agents -> Positions]
    BY <1>2, Roster, MovedTypes DEF Ask, Moves, Positions, Asking
  <2>2. target' \in [Sessions -> Tasks \cup {NoTask}]
    BY <1>2 DEF Ask, OAuthTypeOK
  <2> QED BY <1>2, <2>1, <2>2 DEF Ask, session, OAuthTypeOK, Positions
<1>3. CASE ListStep
  <2>1. file' \in [Tasks -> Statuses \cup {"none", "torn"}] /\ mixed' \in SUBSET Tasks
    <3>1. CASE ListFiles \/ ListActive \/ ListEnd
      BY <3>1 DEF ListFiles, ListActive, ListEnd, OAuthTypeOK
    <3>2. ASSUME NEW t \in Tasks, ListOpen(t) \/ ListWrite(t)
          PROVE  file' \in [Tasks -> Statuses \cup {"none", "torn"}] /\ mixed' \in SUBSET Tasks
      <4>1. SaveBegins(t) \/ SaveEnds(t, "failed")
        BY <3>2 DEF ListOpen, ListWrite
      <4>2. "failed" \in Statuses
        BY DEF Statuses
      <4> QED BY <4>1, <4>2, SaveTypes
    <3> QED BY <1>3, <3>1, <3>2 DEF ListStep
  <2>2. lister' \in Listers
    <3>0. lister \in Listers /\ lister.todo \in SUBSET Tasks
      BY DEF OAuthTypeOK, Listers
    <3>1. CASE ListFiles \/ ListActive \/ ListEnd
      <4>1. \E x \in {"idle", "listed", "writing"}, T \in SUBSET Tasks :
               lister' = [pc |-> x, todo |-> T, save |-> NoTask]
        BY <3>0, <3>1 DEF ListFiles, ListActive, ListEnd, NoLister
      <4> QED BY <4>1 DEF Listers
    <3>2. ASSUME NEW t \in Tasks, ListOpen(t) \/ ListWrite(t) PROVE lister' \in Listers
      <4>1. \E T \in SUBSET Tasks, u \in Tasks \cup {NoTask} :
               lister' = [lister EXCEPT !.todo = T, !.save = u]
        BY <3>0, <3>2 DEF ListOpen, ListWrite, Listers
      <4> QED BY <3>0, <4>1 DEF Listers
    <3> QED BY <1>3, <3>1, <3>2 DEF ListStep
  <2>3. UNCHANGED <<waiter, active, owner, target, at, good, cancelled>>
    BY <1>3 DEF ListStep, ListFiles, ListActive, ListOpen, ListWrite, ListEnd, session
  <2> QED BY <2>1, <2>2, <2>3 DEF OAuthTypeOK, Listers
<1>4. CASE DesktopRestart
  <2>1. at' \in [Agents -> Positions]
    <3>1. at' = [a \in Agents |-> IF at[a] = "off" THEN "off" ELSE Over(a)]
      BY <1>4 DEF DesktopRestart
    <3> QED BY <3>1, OverIsAPlace DEF Positions
  <2>2. lister' \in Listers /\ mixed' \in SUBSET Tasks
    BY <1>4 DEF DesktopRestart, NoLister, Listers
  <2>3. cancelled' \in SUBSET Sessions /\ active' = NoTask /\ owner' = NoSession
    BY <1>4 DEF DesktopRestart, OAuthTypeOK
  <2> QED BY <1>4, <2>1, <2>2, <2>3 DEF DesktopRestart, OAuthTypeOK, Positions, Listers
<1>5. CASE UNCHANGED oVars
  BY <1>5 DEF oVars, session, OAuthTypeOK
<1> QED BY <1>1, <1>2, <1>3, <1>4, <1>5

----------------------------------------------------------------------------
\* The single slot.

\* A session not asked for yet has left no trace.
Unasked ==
    \A s \in Sessions : target[s] = NoTask => s \notin cancelled /\ \A r \in Roles : at[<<s, r>>] = "off"

\* Before its claim a session has started no goroutine, and nobody has cancelled it.
Early ==
    \A s \in Sessions : at[<<s, "main">>] \in Asking =>
        s \notin cancelled /\ at[<<s, "window">>] = "off" /\ at[<<s, "poll">>] = "off"

SlotInv == Unasked /\ Early /\ OneLiveSession /\ SlotHasOwner

\* Whether a session is under way, said by what its goroutines are at.
Runs(x, r) == IF r = "main" THEN x \in Holding \cup {"finish"} ELSE x \in {"open", "polling", "finish"}

LEMMA UnderWayRuns ==
  \A s \in Sessions : UnderWay(s) <=> \E r \in Roles : Runs(at[<<s, r>>], r)
  BY DEF UnderWay, Runs, Roles, Main

LEMMA UnderWayRunsNext ==
  \A s \in Sessions : UnderWay(s)' <=> \E r \in Roles : Runs(at'[<<s, r>>], r)
  BY DEF UnderWay, Runs, Roles, Main

\* A step of one goroutine leaves every other one where it is.
LEMMA MoveOne ==
  ASSUME OAuthTypeOK, NEW s \in Sessions, NEW r \in Roles, NEW x, Moves(<<s, r>>, x)
  PROVE  /\ at'[<<s, r>>] = x
         /\ \A u \in Sessions, q \in Roles : u # s \/ q # r => at'[<<u, q>>] = at[<<u, q>>]
<1>1. /\ \A a \in Agents : at'[a] = IF a = <<s, r>> THEN x ELSE at[a]
      /\ <<s, r>> \in Agents
  BY AgentNames DEF OAuthTypeOK, Moves
<1> QED BY <1>1, AgentNames

\* A goroutine that stays on the same side, before or after the claim, or is over, changes nothing.
LEMMA MoveKeepsSlot ==
  ASSUME OAuthTypeOK, SlotInv, NEW s \in Sessions, NEW r \in Roles, NEW x, Moves(<<s, r>>, x),
         UNCHANGED <<active, owner, target, cancelled>>,
         Runs(x, r) <=> Runs(at[<<s, r>>], r),
         r = "main" /\ x \in Asking => at[<<s, r>>] \in Asking,
         at[<<s, r>>] # "off"
  PROVE  SlotInv'
<1>1. /\ at'[<<s, r>>] = x
      /\ \A u \in Sessions, q \in Roles : u # s \/ q # r => at'[<<u, q>>] = at[<<u, q>>]
  BY MoveOne
<1>2. \A u \in Sessions : UnderWay(u)' <=> UnderWay(u)
  <2> SUFFICES ASSUME NEW u \in Sessions PROVE UnderWay(u)' <=> UnderWay(u)
    OBVIOUS
  <2>1. \A q \in Roles : Runs(at'[<<u, q>>], q) <=> Runs(at[<<u, q>>], q)
    BY <1>1 DEF Runs
  <2> QED BY <2>1, UnderWayRuns, UnderWayRunsNext
<1>3. Unasked'
  BY <1>1 DEF SlotInv, Unasked
<1>4. Early'
  BY <1>1, Roster DEF SlotInv, Early
<1>5. OneLiveSession' /\ SlotHasOwner'
  BY <1>2 DEF SlotInv, OneLiveSession, SlotHasOwner
<1> QED BY <1>3, <1>4, <1>5 DEF SlotInv

LEMMA ClaimKeepsSlot ==
  ASSUME OAuthTypeOK, SlotInv, NEW s \in Sessions, Claim(s)
  PROVE  SlotInv'
<1>0. at[<<s, "main">>] = "found" /\ target[s] \in Tasks /\ s \notin cancelled
  BY Roster DEF Claim, Main, SlotInv, Unasked, Early, OAuthTypeOK, Asking
<1>1. CASE active # NoTask
  <2>1. Moves(<<s, "main">>, "over") /\ UNCHANGED <<active, owner, target, cancelled>>
    BY <1>1 DEF Claim, Main, Moves
  <2> QED BY <1>0, <2>1, Roster, MoveKeepsSlot DEF Runs, Holding, Asking
<1>2. CASE active = NoTask
  <2>1. /\ Moves(<<s, "main">>, "flow") /\ UNCHANGED <<target, cancelled>>
        /\ active' = target[s] /\ owner' = s
    BY <1>2 DEF Claim, Main, Moves
  <2>2. /\ at'[<<s, "main">>] = "flow"
        /\ \A u \in Sessions, q \in Roles : u # s \/ q # "main" => at'[<<u, q>>] = at[<<u, q>>]
    BY <2>1, MoveOne, Roster
  <2>3. \A u \in Sessions : UnderWay(u) => target[u] \in Tasks
    BY UnderWayRuns DEF SlotInv, Unasked, Runs, OAuthTypeOK, Holding
  <2>4. \A u \in Sessions : UnderWay(u) => u \in cancelled
    BY <1>2, <2>3 DEF SlotInv, OneLiveSession
  <2>5. \A u \in Sessions : u # s => (UnderWay(u)' <=> UnderWay(u))
    BY <2>2, UnderWayRuns, UnderWayRunsNext
  <2>6. UnderWay(s)'
    BY <2>2, UnderWayRunsNext, Roster DEF Runs, Holding
  <2>7. Unasked'
    BY <1>0, <2>1, <2>2 DEF SlotInv, Unasked
  <2>8. Early'
    BY <2>1, <2>2, Roster DEF SlotInv, Early, Asking
  <2>9. OneLiveSession' /\ SlotHasOwner'
    BY <1>0, <2>1, <2>4, <2>5, <2>6 DEF OneLiveSession, SlotHasOwner
  <2> QED BY <2>7, <2>8, <2>9 DEF SlotInv
<1> QED BY <1>1, <1>2

LEMMA InstallKeepsSlot ==
  ASSUME OAuthTypeOK, SlotInv, NEW s \in Sessions, InstallProcess(s)
  PROVE  SlotInv'
<1>0. /\ at[<<s, "main">>] = "install" /\ UNCHANGED <<active, owner, target, cancelled>>
      /\ target[s] \in Tasks
  BY Roster DEF InstallProcess, Main, session, SlotInv, Unasked, OAuthTypeOK
<1>1. UnderWay(s)
  BY <1>0, Roster, UnderWayRuns DEF Runs, Holding
<1>2. \A u \in Sessions, r \in Roles : u # s => at'[<<u, r>>] = at[<<u, r>>]
  BY AgentNames DEF InstallProcess, Main, OAuthTypeOK
<1>3. at'[<<s, "main">>] = "over"
  BY AgentNames, Roster DEF InstallProcess, Main, OAuthTypeOK, Roles
<1>4. \A u \in Sessions : u # s => (UnderWay(u)' <=> UnderWay(u))
  BY <1>2, UnderWayRuns, UnderWayRunsNext
<1>5. Unasked'
  BY <1>0, <1>2 DEF SlotInv, Unasked
<1>6. Early'
  BY <1>0, <1>2, <1>3, Roster DEF SlotInv, Early, Asking
<1>7. CASE active = target[s]
  <2>1. at'[<<s, "window">>] = "open"
    BY <1>7, AgentNames, Roster DEF InstallProcess, Main, OAuthTypeOK, Roles
  <2>2. UnderWay(s)'
    BY <2>1, Roster, UnderWayRunsNext DEF Runs
  <2> QED BY <1>0, <1>1, <1>4, <1>5, <1>6, <2>2 DEF SlotInv, OneLiveSession, SlotHasOwner
<1>8. CASE active # target[s]
  <2>1. s \in cancelled
    BY <1>1, <1>8 DEF SlotInv, OneLiveSession
  <2>2. owner # s \/ active = NoTask
    BY <1>8 DEF SlotInv, SlotHasOwner
  <2> QED BY <1>0, <1>4, <1>5, <1>6, <2>1, <2>2 DEF SlotInv, OneLiveSession, SlotHasOwner
<1> QED BY <1>7, <1>8

\* The goroutine that empties the slot cancels its owner, whoever that is.
LEMMA FinishClearKeepsSlot ==
  ASSUME OAuthTypeOK, SlotInv, NEW s \in Sessions, NEW r \in Roles, FinishClear(<<s, r>>)
  PROVE  SlotInv'
<1>0. /\ at[<<s, r>>] = "finish" /\ target[s] \in Tasks /\ target' = target
      /\ <<s, r>>[1] = s
  BY AgentNames DEF FinishClear, SlotInv, Unasked, OAuthTypeOK
<1>1. UnderWay(s)
  BY <1>0, UnderWayRuns DEF Runs
<1>2. CASE active # target[s]
  <2>1. /\ Moves(<<s, r>>, Over(<<s, r>>)) /\ UNCHANGED <<active, owner, target, cancelled>>
    BY <1>0, <1>2 DEF FinishClear, Moves
  <2>2. s \in cancelled /\ (owner # s \/ active = NoTask)
    BY <1>1, <1>2 DEF SlotInv, OneLiveSession, SlotHasOwner
  <2>3. /\ at'[<<s, r>>] \in {"over", "off"}
        /\ \A u \in Sessions, q \in Roles : u # s \/ q # r => at'[<<u, q>>] = at[<<u, q>>]
    BY <2>1, MoveOne, OverIsAPlace
  <2>4. \A u \in Sessions : u # s => (UnderWay(u)' <=> UnderWay(u))
    BY <2>3, UnderWayRuns, UnderWayRunsNext
  <2>5. Unasked'
    BY <1>0, <2>1, <2>3 DEF SlotInv, Unasked
  <2>6. Early'
    BY <1>0, <2>1, <2>3, Roster DEF SlotInv, Early, Asking
  <2> QED BY <2>1, <2>2, <2>4, <2>5, <2>6 DEF SlotInv, OneLiveSession, SlotHasOwner
<1>3. CASE active = target[s]
  <2>1. /\ active' = NoTask /\ cancelled' = cancelled \cup {owner} /\ Moves(<<s, r>>, "reread")
    BY <1>0, <1>3 DEF FinishClear, Moves
  <2>2. owner \in Sessions /\ target[owner] = active /\ UnderWay(owner)
    BY <1>0, <1>3 DEF SlotInv, SlotHasOwner
  <2>3. /\ at'[<<s, r>>] = "reread"
        /\ \A u \in Sessions, q \in Roles : u # s \/ q # r => at'[<<u, q>>] = at[<<u, q>>]
    BY <2>1, MoveOne
  <2>4. ASSUME NEW u \in Sessions, UnderWay(u)' PROVE UnderWay(u)
    BY <2>3, <2>4, UnderWayRuns, UnderWayRunsNext DEF Runs, Holding
  <2>5. OneLiveSession' /\ SlotHasOwner'
    BY <1>0, <2>1, <2>4 DEF SlotInv, OneLiveSession, SlotHasOwner
  <2>6. Unasked'
    BY <1>0, <1>3, <2>1, <2>2, <2>3 DEF SlotInv, Unasked
  <2>7. at[<<owner, "main">>] \notin Asking
    <3>1. SUFFICES ASSUME at[<<owner, "main">>] \in Asking PROVE FALSE
      OBVIOUS
    <3>2. at[<<owner, "window">>] = "off" /\ at[<<owner, "poll">>] = "off"
      BY <2>2, <3>1 DEF SlotInv, Early
    <3>3. \A q \in Roles : ~Runs(at[<<owner, q>>], q)
      BY <3>1, <3>2, Roster DEF Runs, Asking, Holding
    <3> QED BY <2>2, <3>3, UnderWayRuns
  <2>8. Early'
    BY <1>0, <2>1, <2>3, <2>7, Roster DEF SlotInv, Early, Asking
  <2> QED BY <2>5, <2>6, <2>8 DEF SlotInv
<1> QED BY <1>2, <1>3

LEMMA AskKeepsSlot ==
  ASSUME OAuthTypeOK, SlotInv, NEW s \in Sessions, NEW t \in Tasks, Ask(s, t)
  PROVE  SlotInv'
<1>0. /\ target[s] = NoTask /\ active = NoTask /\ Moves(<<s, "main">>, "asked")
      /\ UNCHANGED <<active, owner, cancelled>>
      /\ target' = [target EXCEPT ![s] = t]
  BY DEF Ask, Main, Moves, session
<1>1. s \notin cancelled /\ \A r \in Roles : at[<<s, r>>] = "off"
  BY <1>0 DEF SlotInv, Unasked
<1>2. /\ at'[<<s, "main">>] = "asked"
      /\ \A u \in Sessions, q \in Roles : u # s \/ q # "main" => at'[<<u, q>>] = at[<<u, q>>]
  BY <1>0, MoveOne, Roster
<1>3. target'[s] = t /\ \A u \in Sessions : u # s => target'[u] = target[u]
  BY <1>0 DEF OAuthTypeOK
<1>4. ~UnderWay(s)'
  <2>1. \A q \in Roles : ~Runs(at'[<<s, q>>], q)
    BY <1>1, <1>2, Roster DEF Runs, Holding
  <2> QED BY <2>1, UnderWayRunsNext
<1>5. \A u \in Sessions : u # s => (UnderWay(u)' <=> UnderWay(u))
  BY <1>2, UnderWayRuns, UnderWayRunsNext
<1>6. Unasked'
  BY <1>0, <1>2, <1>3 DEF SlotInv, Unasked
<1>7. Early'
  BY <1>0, <1>1, <1>2, Roster DEF SlotInv, Early
<1>8. OneLiveSession' /\ SlotHasOwner'
  BY <1>0, <1>3, <1>4, <1>5 DEF SlotInv, OneLiveSession, SlotHasOwner
<1> QED BY <1>6, <1>7, <1>8 DEF SlotInv

LEMMA RestartKeepsSlot ==
  ASSUME OAuthTypeOK, SlotInv, DesktopRestart
  PROVE  SlotInv'
<1>1. /\ active' = NoTask /\ target' = target
      /\ cancelled' = cancelled \cup {s \in Sessions : target[s] # NoTask}
  BY DEF DesktopRestart
<1>2. \A s \in Sessions, r \in Roles : at'[<<s, r>>] \in {"off", "over"}
                                       /\ (at[<<s, r>>] = "off" => at'[<<s, r>>] = "off")
  BY AgentNames, OverIsAPlace DEF DesktopRestart
<1>3. \A s \in Sessions : ~UnderWay(s)'
  BY <1>2, UnderWayRunsNext DEF Runs, Holding
<1>4. Unasked'
  BY <1>1, <1>2 DEF SlotInv, Unasked
<1>5. Early'
  BY <1>2, Roster DEF Early, Asking
<1> QED BY <1>1, <1>3, <1>4, <1>5 DEF SlotInv, OneLiveSession, SlotHasOwner

LEMMA SlotStep == OAuthTypeOK /\ SlotInv /\ [ONext]_oVars => SlotInv'
<1> SUFFICES ASSUME OAuthTypeOK, SlotInv, [ONext]_oVars PROVE SlotInv'
  OBVIOUS
<1>1. ASSUME NEW s \in Sessions, FindTask(s) PROVE SlotInv'
  <2>1. /\ at[<<s, "main">>] = "asked" /\ \E x \in {"over", "found"} : Moves(<<s, "main">>, x)
        /\ UNCHANGED <<active, owner, target, cancelled>>
    BY <1>1 DEF FindTask, Main, Moves, session
  <2> QED BY <2>1, Roster, MoveKeepsSlot DEF Runs, Holding, Asking
<1>2. ASSUME NEW s \in Sessions, StartDeviceFlow(s) \/ AuthorizingStep(s) \/ StartChrome(s)
      PROVE  SlotInv'
  <2>1. /\ at[<<s, "main">>] \in {"flow", "write", "save", "chrome"}
        /\ \E x \in {"write", "save", "finish", "chrome", "install"} : Moves(<<s, "main">>, x)
        /\ UNCHANGED <<active, owner, target, cancelled>>
    BY <1>2 DEF StartDeviceFlow, AuthorizingStep, OpenAuthorizing, WriteAuthorizing, StartChrome,
                Main, Go, Moves, session
  <2> QED BY <2>1, Roster, MoveKeepsSlot DEF Runs, Holding, Asking
<1>3. ASSUME NEW s \in Sessions, WindowCloses(s) PROVE SlotInv'
  <2>1. /\ at[<<s, "window">>] = "open" /\ Moves(<<s, "window">>, "finish")
        /\ UNCHANGED <<active, owner, target, cancelled>>
    BY <1>3 DEF WindowCloses, Go, Moves, session
  <2> QED BY <2>1, Roster, MoveKeepsSlot DEF Runs
<1>4. ASSUME NEW s \in Sessions, PollReturns(s) PROVE SlotInv'
  <2>1. /\ at[<<s, "poll">>] = "polling" /\ Moves(<<s, "poll">>, "finish")
        /\ UNCHANGED <<active, owner, target, cancelled>>
    BY <1>4 DEF PollReturns, Go, Moves, session
  <2> QED BY <2>1, Roster, MoveKeepsSlot DEF Runs
<1>5. ASSUME NEW s \in Sessions, NEW r \in Roles,
             FinishRead(<<s, r>>) \/ FinishOpen(<<s, r>>) \/ FinishWrite(<<s, r>>)
      PROVE  SlotInv'
  <2>1. /\ at[<<s, r>>] \in {"reread", "rewriteOk", "rewriteBad", "saveOk", "saveBad"}
        /\ UNCHANGED <<active, owner, target, cancelled>>
    BY <1>5 DEF FinishRead, FinishOpen, FinishWrite, Go, session
  <2>2. \E x \in {"over", "off", "rewriteOk", "rewriteBad", "saveOk", "saveBad"} : Moves(<<s, r>>, x)
    BY <1>5, OverIsAPlace DEF FinishRead, FinishOpen, FinishWrite, Go, Moves
  <2> QED BY <2>1, <2>2, MoveKeepsSlot DEF Runs, Holding, Asking
<1>6. ASSUME UNCHANGED <<active, owner, target, at, cancelled>> PROVE SlotInv'
  BY <1>6 DEF SlotInv, Unasked, Early, OneLiveSession, SlotHasOwner, UnderWay
<1>7. ASSUME NEW t \in Tasks, Enqueue(t) \/ WaitCancelled(t) \/ WorkerTakes(t) PROVE SlotInv'
  BY <1>6, <1>7 DEF Enqueue, WaitCancelled, WorkerTakes, WaitAuthorized, RemoveTask, session
<1>8. CASE ListStep \/ UNCHANGED oVars
  BY <1>6, <1>8 DEF ListStep, ListFiles, ListActive, ListOpen, ListWrite, ListEnd, oVars, session
<1>9. ASSUME NEW s \in Sessions, SessionStep(s) PROVE SlotInv'
  BY <1>1, <1>2, <1>4, <1>5, <1>9, ClaimKeepsSlot, InstallKeepsSlot, FinishClearKeepsSlot
     DEF SessionStep, FinishStep, AuthorizingStep
<1> QED BY <1>3, <1>7, <1>8, <1>9, AskKeepsSlot, RestartKeepsSlot DEF ONext

----------------------------------------------------------------------------
\* The tokens.

\* A goroutine writes "authorized" only for a session whose poll brought a token.
Trusts == {"rewriteOk", "saveOk"}
TokenKept == \A s \in Sessions, r \in Roles : at[<<s, r>>] \in Trusts => s \in good

TokenInv == TokenKept /\ OnlyTokensAuthorize

\* A session with a token was asked for a task, and is asked for no other.
TokensNamed == \A s \in good : target[s] # NoTask

\* A step by which nobody comes to write "authorized" and no task becomes so.
LEMMA TokensStay ==
  ASSUME TokenInv, good \subseteq good',
         \A s \in good : target'[s] = target[s],
         \A t \in Tasks : /\ file'[t] = "authorized" => file[t] = "authorized"
                          /\ waiter'[t] = "got" => waiter[t] = "got" \/ file[t] = "authorized",
         \A s \in Sessions, r \in Roles : at'[<<s, r>>] \in Trusts => at[<<s, r>>] \in Trusts
  PROVE  TokenInv'
  BY DEF TokenInv, TokenKept, OnlyTokensAuthorize

LEMMA MovesElsewhere ==
  ASSUME OAuthTypeOK, NEW s \in Sessions, NEW r \in Roles, NEW x, Moves(<<s, r>>, x), x \notin Trusts
  PROVE  \A u \in Sessions, q \in Roles : at'[<<u, q>>] \in Trusts => at[<<u, q>>] \in Trusts
<1>1. /\ at'[<<s, r>>] = x
      /\ \A u \in Sessions, q \in Roles : u # s \/ q # r => at'[<<u, q>>] = at[<<u, q>>]
  BY MoveOne
<1> QED BY <1>1

LEMMA Untrusted ==
  \A x \in {"asked", "over", "found", "flow", "write", "save", "finish", "chrome", "install"} :
      x \notin Trusts
  BY DEF Trusts

LEMMA TokenSessionStep ==
  ASSUME OAuthTypeOK, TokenInv, NEW s \in Sessions,
         FindTask(s) \/ Claim(s) \/ StartDeviceFlow(s) \/ AuthorizingStep(s) \/ StartChrome(s)
           \/ InstallProcess(s) \/ PollReturns(s) \/ WindowCloses(s)
  PROVE  TokenInv'
<1>1. good \subseteq good' /\ UNCHANGED <<target, waiter>>
  BY DEF FindTask, Claim, StartDeviceFlow, AuthorizingStep, OpenAuthorizing, WriteAuthorizing,
         StartChrome, InstallProcess, PollReturns, WindowCloses
<1>2. \A t \in Tasks : file'[t] = "authorized" => file[t] = "authorized"
  <2>1. CASE AuthorizingStep(s)
    <3>1. SaveBegins(target[s]) \/ SaveEnds(target[s], "authorizing")
      BY <2>1 DEF AuthorizingStep, OpenAuthorizing, WriteAuthorizing, SaveEnds
    <3> QED BY <3>1, SaveTells
  <2>2. CASE FindTask(s) \/ Claim(s) \/ StartDeviceFlow(s) \/ StartChrome(s) \/ InstallProcess(s)
             \/ PollReturns(s) \/ WindowCloses(s)
    BY <2>2 DEF FindTask, Claim, StartDeviceFlow, StartChrome, InstallProcess, PollReturns, WindowCloses
  <2> QED BY <2>1, <2>2
<1>3. \A u \in Sessions, r \in Roles : at'[<<u, r>>] \in Trusts => at[<<u, r>>] \in Trusts
  <2>1. CASE FindTask(s) \/ Claim(s) \/ StartDeviceFlow(s) \/ AuthorizingStep(s) \/ StartChrome(s)
    <3>1. PICK x \in {"over", "found", "flow", "write", "save", "finish", "chrome", "install"} :
             Moves(<<s, "main">>, x)
      BY <2>1 DEF FindTask, Claim, StartDeviceFlow, AuthorizingStep, OpenAuthorizing, WriteAuthorizing,
                  StartChrome, Go, Main, Moves
    <3> QED BY <3>1, MovesElsewhere, Untrusted, Roster
  <2>2. CASE PollReturns(s) \/ WindowCloses(s)
    <3>1. PICK r \in Roles : Moves(<<s, r>>, "finish")
      BY <2>2, Roster DEF PollReturns, WindowCloses, Go, Moves
    <3> QED BY <3>1, MovesElsewhere, Untrusted
  <2>3. CASE InstallProcess(s)
    <3>1. \A a \in Agents : at'[a] = at[a] \/ at'[a] \in {"over", "open", "polling"}
      BY <2>3 DEF InstallProcess, OAuthTypeOK
    <3>2. \A u \in Sessions, r \in Roles :
             at'[<<u, r>>] = at[<<u, r>>] \/ at'[<<u, r>>] \in {"over", "open", "polling"}
      BY <3>1, AgentNames
    <3> QED BY <3>2 DEF Trusts
  <2> QED BY <2>1, <2>2, <2>3
<1> QED BY <1>1, <1>2, <1>3, TokensStay

LEMMA TokenFinishStep ==
  ASSUME OAuthTypeOK, TokenInv, NEW s \in Sessions, NEW r \in Roles, FinishStep(<<s, r>>)
  PROVE  TokenInv'
<1>0. <<s, r>>[1] = s /\ <<s, r>>[2] = r /\ <<s, r>> \in Agents
  BY AgentNames
<1>1. CASE FinishClear(<<s, r>>)
  <2>1. \E x \in {"reread", "over", "off"} : Moves(<<s, r>>, x)
    BY <1>1, OverIsAPlace DEF FinishClear, Moves
  <2>2. UNCHANGED <<file, waiter, target, good>>
    BY <1>1 DEF FinishClear
  <2> QED BY <2>1, <2>2, MoveOne, TokensStay DEF Trusts
<1>2. CASE FinishRead(<<s, r>>)
  <2>1. \E x \in {"rewriteOk", "rewriteBad", "over", "off"} :
            Moves(<<s, r>>, x) /\ (x = "rewriteOk" => s \in good)
    BY <1>0, <1>2, OverIsAPlace DEF FinishRead, Go, Moves
  <2>2. UNCHANGED <<file, waiter, target, good>>
    BY <1>2 DEF FinishRead
  <2>3. TokenKept'
    BY <2>1, <2>2, MoveOne DEF TokenInv, TokenKept, Trusts
  <2> QED BY <2>2, <2>3 DEF TokenInv, OnlyTokensAuthorize
<1>3. CASE FinishOpen(<<s, r>>)
  <2>1. \/ at[<<s, r>>] = "rewriteOk" /\ Moves(<<s, r>>, "saveOk")
        \/ Moves(<<s, r>>, "saveBad")
    BY <1>3 DEF FinishOpen, Go, Moves
  <2>2. UNCHANGED <<file, waiter, target, good>>
    BY <1>3 DEF FinishOpen, SaveBegins
  <2>3. TokenKept'
    BY <2>1, <2>2, MoveOne DEF TokenInv, TokenKept, Trusts
  <2> QED BY <2>2, <2>3 DEF TokenInv, OnlyTokensAuthorize
<1>4. CASE FinishWrite(<<s, r>>)
  <2>1. /\ Moves(<<s, r>>, Over(<<s, r>>)) /\ Over(<<s, r>>) \in {"over", "off"}
        /\ UNCHANGED <<waiter, target, good>>
    BY <1>4, OverIsAPlace DEF FinishWrite, Moves
  <2>2. TokenKept'
    BY <2>1, MoveOne DEF TokenInv, TokenKept, Trusts
  <2>3. \A t \in Tasks : file'[t] = "authorized" =>
            file[t] = "authorized" \/ (t = target[s] /\ at[<<s, r>>] = "saveOk")
    <3>1. SaveEnds(target[s], IF at[<<s, r>>] = "saveOk" THEN "authorized" ELSE "failed")
      BY <1>0, <1>4 DEF FinishWrite
    <3> QED BY <3>1, SaveTells
  <2> QED BY <2>1, <2>2, <2>3 DEF TokenInv, TokenKept, OnlyTokensAuthorize, Trusts
<1> QED BY <1>1, <1>2, <1>3, <1>4 DEF FinishStep

LEMMA NamedStep == OAuthTypeOK /\ SlotInv /\ TokensNamed /\ [ONext]_oVars => TokensNamed'
<1> SUFFICES ASSUME OAuthTypeOK, SlotInv, TokensNamed, [ONext]_oVars PROVE TokensNamed'
  OBVIOUS
<1>1. ASSUME UNCHANGED <<target, good>> PROVE TokensNamed'
  BY <1>1 DEF TokensNamed
<1>2. ASSUME NEW s \in Sessions, PollReturns(s) PROVE TokensNamed'
  <2>1. at[<<s, "poll">>] = "polling" /\ good' \subseteq good \cup {s} /\ target' = target
    BY <1>2 DEF PollReturns, Go
  <2>2. target[s] # NoTask
    BY <2>1, Roster DEF SlotInv, Unasked
  <2> QED BY <2>1, <2>2 DEF TokensNamed
<1>3. ASSUME NEW s \in Sessions, NEW t \in Tasks, Ask(s, t) PROVE TokensNamed'
  BY <1>3 DEF Ask, TokensNamed, OAuthTypeOK
<1>4. ASSUME NEW s \in Sessions, SessionStep(s) \/ WindowCloses(s) PROVE TokensNamed'
  <2>1. ASSUME NEW r \in Roles, FinishStep(<<s, r>>) PROVE TokensNamed'
    BY <1>1, <2>1 DEF FinishStep, FinishClear, FinishRead, FinishOpen, FinishWrite
  <2>2. CASE FindTask(s) \/ Claim(s) \/ StartDeviceFlow(s) \/ AuthorizingStep(s) \/ StartChrome(s)
             \/ InstallProcess(s) \/ WindowCloses(s)
    BY <1>1, <2>2 DEF FindTask, Claim, StartDeviceFlow, AuthorizingStep, OpenAuthorizing,
                      WriteAuthorizing, StartChrome, InstallProcess, WindowCloses
  <2> QED BY <1>2, <1>4, <2>1, <2>2 DEF SessionStep, AuthorizingStep
<1>5. ASSUME NEW t \in Tasks, Enqueue(t) \/ WaitCancelled(t) \/ WorkerTakes(t) PROVE TokensNamed'
  BY <1>1, <1>5 DEF Enqueue, WaitCancelled, WorkerTakes, WaitAuthorized, RemoveTask
<1>6. CASE ListStep \/ DesktopRestart \/ UNCHANGED oVars
  BY <1>1, <1>6 DEF ListStep, ListFiles, ListActive, ListOpen, ListWrite, ListEnd, DesktopRestart, oVars
<1> QED BY <1>3, <1>4, <1>5, <1>6 DEF ONext

LEMMA TokenStep == OAuthTypeOK /\ SlotInv /\ TokenInv /\ TokensNamed /\ [ONext]_oVars => TokenInv'
<1> SUFFICES ASSUME OAuthTypeOK, SlotInv, TokenInv, TokensNamed, [ONext]_oVars PROVE TokenInv'
  OBVIOUS
<1>1. ASSUME NEW t \in Tasks, Enqueue(t) \/ WaitCancelled(t) \/ WorkerTakes(t) PROVE TokenInv'
  <2>1. UNCHANGED <<target, at, good>>
    BY <1>1 DEF Enqueue, WaitCancelled, WorkerTakes, WaitAuthorized, RemoveTask
  <2>2. \A u \in Tasks : /\ file'[u] = "authorized" => file[u] = "authorized"
                         /\ waiter'[u] = "got" => waiter[u] = "got" \/ file[u] = "authorized"
    BY <1>1 DEF Enqueue, WaitCancelled, WorkerTakes, WaitAuthorized, RemoveTask, OAuthTypeOK
  <2> QED BY <2>1, <2>2, TokensStay
<1>2. ASSUME NEW s \in Sessions, NEW t \in Tasks, Ask(s, t) PROVE TokenInv'
  <2>1. /\ Moves(<<s, "main">>, "asked") /\ UNCHANGED <<file, waiter, good>>
        /\ target[s] = NoTask /\ target' = [target EXCEPT ![s] = t]
    BY <1>2 DEF Ask, Main, Moves
  <2>2. \A u \in Sessions, r \in Roles : at'[<<u, r>>] \in Trusts => at[<<u, r>>] \in Trusts
    BY <2>1, MovesElsewhere, Untrusted, Roster
  <2>3. \A u \in good : target'[u] = target[u]
    BY <2>1 DEF TokensNamed, OAuthTypeOK
  <2> QED BY <2>1, <2>2, <2>3, TokensStay
<1>3. CASE ListStep
  <2>1. UNCHANGED <<waiter, target, at, good>>
    BY <1>3 DEF ListStep, ListFiles, ListActive, ListOpen, ListWrite, ListEnd
  <2>2. \A t \in Tasks : file'[t] = "authorized" => file[t] = "authorized"
    <3>1. CASE ListFiles \/ ListActive \/ ListEnd
      BY <3>1 DEF ListFiles, ListActive, ListEnd
    <3>2. ASSUME NEW u \in Tasks, ListOpen(u) \/ ListWrite(u)
          PROVE  \A t \in Tasks : file'[t] = "authorized" => file[t] = "authorized"
      <4>1. SaveBegins(u) \/ SaveEnds(u, "failed")
        BY <3>2 DEF ListOpen, ListWrite
      <4> QED BY <4>1, SaveTells
    <3> QED BY <1>3, <3>1, <3>2 DEF ListStep
  <2> QED BY <2>1, <2>2, TokensStay
<1>4. CASE DesktopRestart
  <2>1. UNCHANGED <<file, waiter, target, good>>
    BY <1>4 DEF DesktopRestart
  <2>2. \A s \in Sessions, r \in Roles : at'[<<s, r>>] \in {"off", "over"}
    BY <1>4, AgentNames, OverIsAPlace DEF DesktopRestart
  <2> QED BY <2>1, <2>2, TokensStay DEF Trusts
<1>5. CASE UNCHANGED oVars
  BY <1>5, TokensStay DEF oVars
<1>6. ASSUME NEW s \in Sessions, SessionStep(s) \/ WindowCloses(s) PROVE TokenInv'
  BY <1>6, TokenSessionStep, TokenFinishStep DEF SessionStep, AuthorizingStep
<1> QED BY <1>1, <1>2, <1>3, <1>4, <1>5, <1>6 DEF ONext

----------------------------------------------------------------------------
OIInv == OAuthTypeOK /\ SlotInv /\ TokenInv /\ TokensNamed

LEMMA OInitHolds == OInit => OIInv
<1> SUFFICES ASSUME OInit PROVE OIInv
  OBVIOUS
<1>1. OAuthTypeOK
  <2>1. lister \in Listers
    BY DEF OInit, NoLister, Listers
  <2> QED BY <2>1 DEF OInit, OAuthTypeOK, Listers
<1>2. \A s \in Sessions, r \in Roles : at[<<s, r>>] = "off"
  BY AgentNames DEF OInit
<1>3. SlotInv
  <2>1. \A s \in Sessions : ~UnderWay(s)
    BY <1>2, UnderWayRuns DEF Runs, Holding
  <2> QED BY <1>2, <2>1, Roster DEF OInit, SlotInv, Unasked, Early, Asking, OneLiveSession, SlotHasOwner
<1>4. TokenInv /\ TokensNamed
  BY <1>2 DEF OInit, TokenInv, TokenKept, OnlyTokensAuthorize, TokensNamed, Trusts
<1> QED BY <1>1, <1>3, <1>4 DEF OIInv

LEMMA OTypeStep == OIInv /\ [ONext]_oVars => OAuthTypeOK'
<1> SUFFICES ASSUME OIInv, [ONext]_oVars PROVE OAuthTypeOK'
  OBVIOUS
<1>1. active # NoTask => owner \in Sessions
  BY DEF OIInv, SlotInv, SlotHasOwner
<1>2. ASSUME NEW s \in Sessions, NEW r \in Roles, FinishStep(<<s, r>>) PROVE OAuthTypeOK'
  <2>1. target[<<s, r>>[1]] = NoTask => at[<<s, r>>] = "off"
    BY AgentNames DEF OIInv, SlotInv, Unasked
  <2>2. <<s, r>> \in Agents /\ OAuthTypeOK
    BY AgentNames DEF OIInv
  <2> QED BY <1>1, <1>2, <2>1, <2>2, FinishTypeStep
<1>3. ASSUME NEW s \in Sessions, SessionStep(s) \/ WindowCloses(s) PROVE OAuthTypeOK'
  <2>1. OAuthTypeOK /\ (target[s] = NoTask => at[Main(s)] = "off")
    BY Roster DEF OIInv, SlotInv, Unasked
  <2> QED BY <1>2, <1>3, <2>1, SessionTypeStep DEF SessionStep, AuthorizingStep
<1> QED BY <1>3, OtherTypeStep DEF ONext, OIInv

LEMMA OIInvHolds == OSafety => []OIInv
<1>1. OIInv /\ [ONext]_oVars => OIInv'
  BY OTypeStep, SlotStep, TokenStep, NamedStep DEF OIInv
<1> QED BY <1>1, OInitHolds, PTL DEF OSafety

\* The tasks, the slot and the goroutines keep their types, for any number of tasks and sessions.
THEOREM OAuthTypeCorrect == OSafety => []OAuthTypeOK
<1>1. OIInv => OAuthTypeOK
  BY DEF OIInv
<1> QED BY <1>1, OIInvHolds, PTL

\* One authorization at a time, and a taken slot has an owner that will empty it, for any number of
\* tasks and sessions.
THEOREM SlotTellsAlways == OSafety => []SlotTellsSession
<1>1. OIInv => SlotTellsSession
  BY DEF OIInv, SlotInv, SlotTellsSession
<1> QED BY <1>1, OIInvHolds, PTL

\* No task is authorized without a token for it, for any number of tasks and sessions.
THEOREM TokensAuthorizeAlways == OSafety => []OnlyTokensAuthorize
<1>1. OIInv => OnlyTokensAuthorize
  BY DEF OIInv, TokenInv
<1> QED BY <1>1, OIInvHolds, PTL

====
