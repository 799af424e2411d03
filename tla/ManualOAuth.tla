---- MODULE ManualOAuth ----
(***************************************************************************)
(* Authorizing registered accounts by hand: the OAuth goroutines of the    *)
(* worker write one task file per account and poll it, the desktop lists   *)
(* the files, runs one device flow at a time and writes the result back    *)
(* (internal/manualoauth/store.go, desktop/app/manual_oauth.go). A file is *)
(* replaced by renaming a temporary one, which all goroutines of a process *)
(* share, and nothing guards the time between reading a task and writing   *)
(* it. A session is one call of StartManualOAuth with the two goroutines   *)
(* it starts, one waiting for the Chrome window and one polling the token  *)
(* endpoint. The provider answers as it likes, and the window closes       *)
(* whenever the user, or the polling goroutine with process.Kill, closes   *)
(* it: App.oauthProcess is not kept.                                       *)
(***************************************************************************)
EXTENDS Naturals, FiniteSets

CONSTANTS Tasks,     \* registered accounts, one task file each
          Sessions,  \* bound: the calls of StartManualOAuth ever made
          NoTask, NoSession

ASSUME ManualOAuthAssumption == NoTask \notin Tasks /\ NoSession \notin Sessions

Roles == {"main", "window", "poll"}
Agents == Sessions \X Roles
Statuses == {"queued", "authorizing", "authorized", "failed"}

VARIABLES file,       \* status in the task's file, "none" when there is no file, "torn" when it
                      \* cannot be decoded
          mixed,      \* the tasks of which two writes of the desktop have met
          waiter,     \* the worker's goroutine for the task
          active,     \* App.oauthTaskID
          owner,      \* whose cancel function App.oauthCancel is
          target,     \* the task each session was asked for
          at,         \* how far each goroutine of each session is
          good,       \* the sessions whose poll brought a token
          cancelled,  \* the sessions whose context is cancelled
          lister      \* the call of ListManualOAuthTasks under way

oVars == <<file, mixed, waiter, active, owner, target, at, good, cancelled, lister>>

session == <<active, owner>>

\* The goroutine of a call before it has claimed the desktop's single slot, after that, and the
\* steps of finishManualOAuth that any of the three may run.
Asking == {"asked", "found"}
Holding == {"flow", "write", "save", "chrome", "install"}
Finishing == {"finish", "reread", "rewriteOk", "rewriteBad", "saveOk", "saveBad"}

NoLister == [pc |-> "idle", todo |-> {}, save |-> NoTask]

OAuthTypeOK ==
    /\ file \in [Tasks -> Statuses \cup {"none", "torn"}]
    /\ mixed \in SUBSET Tasks
    /\ waiter \in [Tasks -> {"todo", "waiting", "got", "quit", "done"}]
    /\ active \in Tasks \cup {NoTask}
    /\ owner \in Sessions \cup {NoSession}
    /\ target \in [Sessions -> Tasks \cup {NoTask}]
    /\ at \in [Agents -> {"off", "over", "open", "polling"} \cup Asking \cup Holding \cup Finishing]
    /\ good \in SUBSET Sessions
    /\ cancelled \in SUBSET Sessions
    /\ lister \in [pc : {"idle", "listed", "writing"}, todo : SUBSET Tasks, save : Tasks \cup {NoTask}]

OInit ==
    /\ file = [t \in Tasks |-> "none"] /\ mixed = {}
    /\ waiter = [t \in Tasks |-> "todo"]
    /\ active = NoTask /\ owner = NoSession
    /\ target = [s \in Sessions |-> NoTask]
    /\ at = [a \in Agents |-> "off"]
    /\ good = {} /\ cancelled = {}
    /\ lister = NoLister

----------------------------------------------------------------------------
\* The worker's side: Enqueue, WaitAuthorized, Remove (pipeline.go, oauthWorker).

Enqueue(t) ==
    /\ waiter[t] = "todo"
    /\ waiter' = [waiter EXCEPT ![t] = "waiting"]
    /\ file' = [file EXCEPT ![t] = "queued"]
    /\ UNCHANGED <<mixed, session, target, at, good, cancelled, lister>>

\* A poll that reads "authorized" takes the credential; a missing file is waited for, and one that
\* cannot be decoded ends the wait as a cancellation does.
WaitAuthorized(t) ==
    /\ waiter[t] = "waiting" /\ file[t] = "authorized"
    /\ waiter' = [waiter EXCEPT ![t] = "got"]
    /\ UNCHANGED <<file, mixed, session, target, at, good, cancelled, lister>>

WaitCancelled(t) ==
    /\ waiter[t] = "waiting"
    /\ waiter' = [waiter EXCEPT ![t] = "quit"]
    /\ UNCHANGED <<file, mixed, session, target, at, good, cancelled, lister>>

RemoveTask(t) ==
    /\ waiter[t] \in {"got", "quit"}
    /\ waiter' = [waiter EXCEPT ![t] = "done"]
    /\ file' = [file EXCEPT ![t] = "none"]
    /\ UNCHANGED <<mixed, session, target, at, good, cancelled, lister>>

----------------------------------------------------------------------------
\* Store.Write in the desktop: the temporary file bears the task and the process, so that two
\* goroutines that write one task at once truncate and rename each other's file.

Saving(t) ==
    \/ \E a \in Agents : target[a[1]] = t /\ at[a] \in {"save", "saveOk", "saveBad"}
    \/ lister.save = t

SaveBegins(t) ==
    /\ mixed' = IF Saving(t) THEN mixed \cup {t} ELSE mixed
    /\ UNCHANGED file

\* The last write of a task leaves no other one to meet.
SaveOver(t) == mixed' = IF Saving(t)' THEN mixed ELSE mixed \ {t}

\* An error leaves the file alone, and a write that has met another one may leave the remains of both.
SaveEnds(t, status) ==
    /\ \/ file' = [file EXCEPT ![t] = status]
       \/ UNCHANGED file
       \/ t \in mixed /\ file' = [file EXCEPT ![t] = "torn"]
    /\ SaveOver(t)

----------------------------------------------------------------------------
\* StartManualOAuth.

Go(a, from, to) == at[a] = from /\ at' = [at EXCEPT ![a] = to]

\* A goroutine that is over leaves nothing behind; only the call itself is told from one not made.
Over(a) == IF a[2] = "main" THEN "over" ELSE "off"
Main(s) == <<s, "main">>

\* The first look at the slot, which refuses (and changes nothing) while it is taken.
Ask(s, t) ==
    /\ at[Main(s)] = "off" /\ target[s] = NoTask
    /\ active = NoTask
    /\ target' = [target EXCEPT ![s] = t]
    /\ at' = [at EXCEPT ![Main(s)] = "asked"]
    /\ UNCHANGED <<file, mixed, waiter, session, good, cancelled, lister>>

\* The task is read: an unknown or an already authorized one ends the call.
FindTask(s) ==
    /\ at[Main(s)] = "asked"
    /\ at' = [at EXCEPT ![Main(s)] =
                 IF file[target[s]] \in {"none", "torn", "authorized"} THEN "over" ELSE "found"]
    /\ UNCHANGED <<file, mixed, waiter, session, target, good, cancelled, lister>>

\* Mutant: the claim trusts the first look at the slot.
ClaimUnchecked(s) ==
    /\ Go(Main(s), "found", "flow")
    /\ active' = target[s] /\ owner' = s
    /\ UNCHANGED <<file, mixed, waiter, target, good, cancelled, lister>>

\* The second look, under the same lock as the claim.
Claim(s) ==
    /\ at[Main(s)] = "found"
    /\ \/ /\ active = NoTask
          /\ active' = target[s] /\ owner' = s
          /\ at' = [at EXCEPT ![Main(s)] = "flow"]
       \/ /\ active # NoTask
          /\ at' = [at EXCEPT ![Main(s)] = "over"]
          /\ UNCHANGED <<active, owner>>
    /\ UNCHANGED <<file, mixed, waiter, target, good, cancelled, lister>>

StartDeviceFlow(s) ==
    /\ \/ s \notin cancelled /\ Go(Main(s), "flow", "write")
       \/ Go(Main(s), "flow", "finish")
    /\ UNCHANGED <<file, mixed, waiter, session, target, good, cancelled, lister>>

\* The copy read by FindTask goes back with the new status, whether or not the file still exists.
OpenAuthorizing(s) ==
    /\ Go(Main(s), "write", "save")
    /\ SaveBegins(target[s])
    /\ UNCHANGED <<waiter, session, target, good, cancelled, lister>>

WriteAuthorizing(s) ==
    /\ UNCHANGED <<waiter, session, target, good, cancelled, lister>>
    /\ \/ Go(Main(s), "save", "chrome") /\ SaveEnds(target[s], "authorizing")
       \/ Go(Main(s), "save", "finish") /\ SaveOver(target[s]) /\ UNCHANGED file

\* Finding Chrome, making its profile directory, starting it.
StartChrome(s) ==
    /\ Go(Main(s), "chrome", "install") \/ Go(Main(s), "chrome", "finish")
    /\ UNCHANGED <<file, mixed, waiter, session, target, good, cancelled, lister>>

\* The third look: the window stays only if the slot still holds the task.
InstallProcess(s) ==
    /\ at[Main(s)] = "install"
    /\ \/ /\ active = target[s]
          /\ at' = [at EXCEPT ![Main(s)] = "over", ![<<s, "window">>] = "open",
                              ![<<s, "poll">>] = "polling"]
       \/ /\ active # target[s]
          /\ at' = [at EXCEPT ![Main(s)] = "over"]
    /\ UNCHANGED <<file, mixed, waiter, session, target, good, cancelled, lister>>

\* cmd.Wait returns: the user closed the window or a finish killed it.
WindowCloses(s) ==
    /\ Go(<<s, "window">>, "open", "finish")
    /\ UNCHANGED <<file, mixed, waiter, session, target, good, cancelled, lister>>

\* Mutant: the poll has no deadline, only its context ends it.
PollUntilCancelled(s) ==
    /\ Go(<<s, "poll">>, "polling", "finish")
    /\ s \in cancelled
    /\ UNCHANGED <<file, mixed, waiter, session, target, good, cancelled, lister>>

\* PollToken returns: a token, or an error once denied, expired or cancelled.
PollReturns(s) ==
    /\ Go(<<s, "poll">>, "polling", "finish")
    /\ \/ s \notin cancelled /\ good' = good \cup {s}
       \/ UNCHANGED good
    /\ UNCHANGED <<file, mixed, waiter, session, target, cancelled, lister>>

----------------------------------------------------------------------------
\* finishManualOAuth, run by any goroutine of a session.

\* The slot is compared by task, not by session, and emptied before anything is written.
FinishClear(a) ==
    /\ at[a] = "finish"
    /\ \/ /\ active = target[a[1]]
          /\ active' = NoTask /\ owner' = NoSession
          /\ cancelled' = cancelled \cup {owner}
          /\ at' = [at EXCEPT ![a] = "reread"]
       \/ /\ active # target[a[1]]
          /\ at' = [at EXCEPT ![a] = Over(a)]
          /\ UNCHANGED <<active, owner, cancelled>>
    /\ UNCHANGED <<file, mixed, waiter, target, good, lister>>

\* Mutant: the result of the poll counts as a token without a look at its error.
FinishReadTrusting(a) ==
    /\ \/ Go(a, "reread", Over(a)) /\ file[target[a[1]]] \in {"none", "torn"}
       \/ /\ Go(a, "reread", IF a[2] = "poll" THEN "rewriteOk" ELSE "rewriteBad")
          /\ file[target[a[1]]] \notin {"none", "torn"}
    /\ UNCHANGED <<file, mixed, waiter, session, target, good, cancelled, lister>>

FinishRead(a) ==
    /\ \/ Go(a, "reread", Over(a)) /\ file[target[a[1]]] \in {"none", "torn"}
       \/ /\ Go(a, "reread", IF a[2] = "poll" /\ a[1] \in good THEN "rewriteOk" ELSE "rewriteBad")
          /\ file[target[a[1]]] \notin {"none", "torn"}
    /\ UNCHANGED <<file, mixed, waiter, session, target, good, cancelled, lister>>

FinishOpen(a) ==
    /\ \/ Go(a, "rewriteOk", "saveOk")
       \/ Go(a, "rewriteBad", "saveBad")
    /\ SaveBegins(target[a[1]])
    /\ UNCHANGED <<waiter, session, target, good, cancelled, lister>>

FinishWrite(a) ==
    /\ at[a] \in {"saveOk", "saveBad"}
    /\ at' = [at EXCEPT ![a] = Over(a)]
    /\ UNCHANGED <<waiter, session, target, good, cancelled, lister>>
    /\ SaveEnds(target[a[1]], IF at[a] = "saveOk" THEN "authorized" ELSE "failed")

----------------------------------------------------------------------------
\* ListManualOAuthTasks, which the window calls again and again.

ListFiles ==
    /\ lister.pc = "idle"
    /\ lister' = [NoLister EXCEPT !.pc = "listed", !.todo = {t \in Tasks : file[t] = "authorizing"}]
    /\ UNCHANGED <<file, mixed, waiter, session, target, at, good, cancelled>>

\* Mutant: the list leaves abandoned tasks as they are.
ListLeavesAbandoned ==
    /\ lister.pc = "listed"
    /\ lister' = [NoLister EXCEPT !.pc = "writing"]
    /\ UNCHANGED <<file, mixed, waiter, session, target, at, good, cancelled>>

ListActive ==
    /\ lister.pc = "listed"
    /\ lister' = [NoLister EXCEPT !.pc = "writing", !.todo = lister.todo \ {active}]
    /\ UNCHANGED <<file, mixed, waiter, session, target, at, good, cancelled>>

\* A task being authorized by nobody was abandoned: its copy goes back as failed.
ListOpen(t) ==
    /\ lister.pc = "writing" /\ lister.save = NoTask /\ t \in lister.todo
    /\ lister' = [lister EXCEPT !.todo = @ \ {t}, !.save = t]
    /\ SaveBegins(t)
    /\ UNCHANGED <<waiter, session, target, at, good, cancelled>>

ListWrite(t) ==
    /\ lister.save = t
    /\ lister' = [lister EXCEPT !.save = NoTask]
    /\ UNCHANGED <<waiter, session, target, at, good, cancelled>>
    /\ SaveEnds(t, "failed")

ListEnd ==
    /\ lister.pc = "writing" /\ lister.todo = {} /\ lister.save = NoTask
    /\ lister' = NoLister
    /\ UNCHANGED <<file, mixed, waiter, session, target, at, good, cancelled>>

----------------------------------------------------------------------------
\* The desktop dies and is started again: every goroutine of it is gone, the files stay.
DesktopRestart ==
    /\ \E a \in Agents : at[a] \notin {"off", "over"}
    /\ active' = NoTask /\ owner' = NoSession
    /\ at' = [a \in Agents |-> IF at[a] = "off" THEN "off" ELSE Over(a)]
    /\ cancelled' = cancelled \cup {s \in Sessions : target[s] # NoTask}
    /\ lister' = NoLister /\ mixed' = {}
    /\ UNCHANGED <<file, waiter, target, good>>

FinishStep(a) == FinishClear(a) \/ FinishRead(a) \/ FinishOpen(a) \/ FinishWrite(a)

SessionStep(s) ==
    \/ FindTask(s) \/ Claim(s) \/ StartDeviceFlow(s) \/ OpenAuthorizing(s) \/ WriteAuthorizing(s)
    \/ StartChrome(s) \/ InstallProcess(s) \/ PollReturns(s)
    \/ \E r \in Roles : FinishStep(<<s, r>>)

ListStep == ListFiles \/ ListActive \/ ListEnd \/ \E t \in Tasks : ListOpen(t) \/ ListWrite(t)

\* The list's write goes through.
ListMends(t) == ListWrite(t) /\ file'[t] = "failed"

WorkerTakes(t) == WaitAuthorized(t) \/ RemoveTask(t)

ONext ==
    \/ \E t \in Tasks : Enqueue(t) \/ WaitCancelled(t) \/ WorkerTakes(t)
    \/ \E s \in Sessions : SessionStep(s) \/ WindowCloses(s) \/ \E t \in Tasks : Ask(s, t)
    \/ ListStep
    \/ DesktopRestart

\* The window lists again and again, the goroutines run, and the disk does not refuse the list's write
\* for ever.
OFairness ==
    /\ WF_oVars(ListStep)
    /\ \A s \in Sessions : WF_oVars(SessionStep(s))
    /\ \A t \in Tasks : SF_oVars(ListMends(t))

OSafety == OInit /\ [][ONext]_oVars

OSpec == OSafety /\ OFairness

----------------------------------------------------------------------------
\* A session that has claimed the slot and still has something to run.
UnderWay(s) ==
    \/ at[Main(s)] \in Holding \cup {"finish"}
    \/ \E r \in {"window", "poll"} : at[<<s, r>>] \in {"open", "polling", "finish"}

\* One authorization at a time (manual-oauth-design.md:30): whatever stale goroutines are left over,
\* a session under way that is not cancelled is the one whose cancel function the slot holds.
OneLiveSession ==
    \A s \in Sessions : UnderWay(s) /\ s \notin cancelled => active = target[s] /\ owner = s

\* The slot is never taken by nobody: its owner is under way, not cancelled, and for that task, so
\* that some goroutine will empty it again.
SlotHasOwner ==
    active # NoTask => /\ owner \in Sessions \ cancelled
                       /\ target[owner] = active
                       /\ UnderWay(owner)

\* The desktop's slot and the sessions tell the same story, in both directions.
SlotTellsSession == OneLiveSession /\ SlotHasOwner

\* A credential reaches the worker's account only if the provider issued a token for that account,
\* whichever session's result was written last.
OnlyTokensAuthorize ==
    \A t \in Tasks : file[t] = "authorized" \/ waiter[t] = "got" =>
        \E s \in good : target[s] = t

\* An authorization that is abandoned, by an error, a closed window or a restart of the desktop, ends:
\* the slot is emptied, and the task can be tried again (manual-oauth-design.md:55), unless its file was
\* lost to two writes at once.
SlotIsFreed == (active # NoTask) ~> (active = NoTask)

AbandonedIsRetryable ==
    \A t \in Tasks : (file[t] = "authorizing") ~> (file[t] # "authorizing")

====
