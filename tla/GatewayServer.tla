---- MODULE GatewayServer ----
(***************************************************************************)
(* The life of the API gateway's listener: the settings persisted in the   *)
(* configuration file, the calls of the desktop that save and apply them   *)
(* under App.mu (desktop/app/app.go), Manager.Start and Manager.Stop, and  *)
(* the goroutine of each http.Server, which clears the manager's fields    *)
(* when Serve fails (internal/gateway/manager.go).                         *)
(*                                                                         *)
(* What a request does is the subject of GatewayPool and GatewayStream;    *)
(* here a server has requests in flight or none. net.Listen reports the    *)
(* address it bound: for a host name it is not the address it was given.   *)
(***************************************************************************)
EXTENDS Naturals

CONSTANTS Calls,       \* bound: the calls of the window that may be under way at once
          Addresses,   \* listen addresses that pass the validation
          HostName,    \* the one of them that names the host: localhost:port
          HostAddr,    \* the one Listen reports for it
          MaxServers,  \* bound: how many listeners are ever opened
          Free         \* nobody: App.mu is free, the temporary file is missing

ASSUME GatewayServerAssumption ==
    /\ HostName \in Addresses /\ HostName # HostAddr
    /\ MaxServers \in Nat
    /\ Free \notin Calls

Settings == [enabled : BOOLEAN, addr : Addresses]
Servers == 1..MaxServers
Reported == Addresses \cup {HostAddr}

VARIABLES config,      \* the persisted settings
          tmp,         \* config.tmp, the one temporary file every patchEnvFile writes first
          desktop,     \* the process: "off", "up", or "broken": up with gatewayErr set
          mgr,         \* Manager.server (0: nil) and its status: running and address
          srv,         \* each http.Server: accepting, its Serve failed or over; its address
          serving,     \* the servers with requests in flight
          call,        \* how far each call is, the settings it saves, the server it shuts down
          appMu,       \* the call that holds App.mu
          agreed,      \* history: the last save, or the start of the desktop, was applied, by
                       \* itself, and no Serve has failed since
          crowded,     \* history: two of the saves under way have met
          misfired,    \* history: a failed Serve cleared a manager that had gone on to another server
          outlived     \* history: the servers with requests in flight that a Shutdown gave up on or
                       \* whose Serve failed

gFile == <<config, tmp>>
gHist == <<agreed, crowded, misfired, outlived>>
gVars == <<config, tmp, desktop, mgr, srv, serving, call, appMu, gHist>>

NoServer == [server |-> 0, running |-> FALSE, addr |-> HostAddr]
Unused == [state |-> "unused", addr |-> HostAddr]
Shut == [state |-> "over", addr |-> HostAddr]
NoCall == [pc |-> "idle", want |-> [enabled |-> FALSE, addr |-> HostName], server |-> 0]
Bound(a) == IF a = HostName THEN HostAddr ELSE a

GServerTypeOK ==
    /\ config \in Settings
    /\ tmp \in Settings \cup {Free}
    /\ desktop \in {"off", "up", "broken"}
    /\ mgr \in [server : {0} \cup Servers, running : BOOLEAN, addr : Reported]
    /\ srv \in [Servers -> [state : {"unused", "listening", "failed", "over"}, addr : Reported]]
    /\ serving \in SUBSET Servers
    /\ call \in [Calls -> [pc : {"idle", "write", "rename", "apply", "status", "stop", "shutdown",
                                 "recheck", "listen"}, want : Settings, server : {0} \cup Servers]]
    /\ appMu \in Calls \cup {Free}
    /\ {agreed, crowded, misfired} \subseteq BOOLEAN
    /\ outlived \in SUBSET Servers

GServerInit ==
    /\ config = NoCall.want /\ tmp = Free
    /\ desktop = "off" /\ mgr = NoServer
    /\ srv = [v \in Servers |-> Unused] /\ serving = {}
    /\ call = [c \in Calls |-> NoCall] /\ appMu = Free
    /\ agreed = FALSE /\ crowded = FALSE /\ misfired = FALSE /\ outlived = {}

----------------------------------------------------------------------------
\* net.Listen: the port must be free, of our own listeners as of anybody else's.
PortFree(a) == \A v \in Servers : srv[v].state = "listening" => srv[v].addr # Bound(a)

IsNext(v) == srv[v].state = "unused" /\ \A u \in Servers : u < v => srv[u].state # "unused"

\* The end of Manager.Start: listener, http.Server, status and the goroutine that serves.
Opens(v, a) ==
    /\ IsNext(v) /\ PortFree(a)
    /\ srv' = [srv EXCEPT ![v] = [state |-> "listening", addr |-> Bound(a)]]
    /\ mgr' = [server |-> v, running |-> TRUE, addr |-> Bound(a)]

\* A Listen that fails leaves an empty status.
FailsToOpen == mgr' = NoServer /\ UNCHANGED srv

\* ServiceStartup: an enabled gateway is started again; an error there, of the store or of Listen,
\* stays in gatewayErr until the desktop exits.
Startup ==
    /\ desktop = "off"
    /\ misfired' = FALSE /\ crowded' = FALSE
    /\ \/ desktop' = "broken" /\ agreed' = FALSE /\ UNCHANGED <<srv, mgr>>
       \/ ~config.enabled /\ desktop' = "up" /\ agreed' = TRUE /\ UNCHANGED <<srv, mgr>>
       \/ /\ config.enabled /\ desktop' = "up" /\ agreed' = TRUE
          /\ \E v \in Servers : Opens(v, config.addr)
    /\ UNCHANGED <<gFile, serving, call, appMu, outlived>>

\* ServiceShutdown, or a crash: the process takes its servers, calls and locks with it.
Exit ==
    /\ desktop # "off" /\ desktop' = "off"
    /\ mgr' = NoServer /\ serving' = {}
    /\ srv' = [v \in Servers |->
                IF srv[v] = Unused THEN Unused ELSE Shut]
    /\ call' = [c \in Calls |-> NoCall] /\ appMu' = Free
    /\ agreed' = FALSE /\ crowded' = FALSE /\ outlived' = {}
    /\ UNCHANGED <<gFile, misfired>>

----------------------------------------------------------------------------
\* One call of SaveSettings, StartGateway or StopGateway.

GStep(c, from, to) == call[c].pc = from /\ call' = [call EXCEPT ![c].pc = to]
GEnd(c, from) == call[c].pc = from /\ call' = [call EXCEPT ![c] = NoCall]

Quiescent == \A c \in Calls : call[c].pc = "idle"

\* The form brings settings of its own; StartGateway and StopGateway change what they read.
Save(c, s) ==
    /\ desktop # "off" /\ call[c].pc = "idle"
    /\ call' = [call EXCEPT ![c] = [NoCall EXCEPT !.pc = "write", !.want = s]]
    /\ crowded' = ~Quiescent
    /\ agreed' = (agreed /\ Quiescent)
    /\ UNCHANGED <<gFile, desktop, mgr, srv, serving, appMu, misfired, outlived>>

Toggle(c) == \E on \in BOOLEAN : Save(c, [config EXCEPT !.enabled = on])

\* patchEnvFile, outside App.mu: every call writes the same temporary file and renames it. An error
\* leaves that file alone or with a part of the text, which reads as settings with defaults in them.
PatchWrite(c) ==
    /\ \/ GStep(c, "write", "rename") /\ tmp' = call[c].want
       \/ GEnd(c, "write") /\ \E s \in Settings : tmp' \in {tmp, s}
    /\ UNCHANGED <<config, desktop, mgr, srv, serving, appMu, gHist>>

\* Mutant: the error of the rename is ignored, and a missing temporary file read as settings.
PatchRenameIgnored(c) ==
    /\ GStep(c, "rename", "apply")
    /\ config' = tmp /\ tmp' = Free
    /\ agreed' = FALSE
    /\ UNCHANGED <<desktop, mgr, srv, serving, appMu, crowded, misfired, outlived>>

PatchRename(c) ==
    /\ \/ /\ tmp # Free /\ GStep(c, "rename", "apply")
          /\ config' = tmp /\ tmp' = Free
       \/ GEnd(c, "rename") /\ UNCHANGED gFile   \* an error, the one outcome when tmp = Free
    /\ agreed' = FALSE
    /\ UNCHANGED <<desktop, mgr, srv, serving, appMu, crowded, misfired, outlived>>

\* applyGatewaySettings takes App.mu; an error of the start is returned for good, and one of
\* SetUpstreamProxy or ConfigureHealthChecks for this time: the mutex is let go at once.
ApplyBegin(c) ==
    /\ appMu = Free
    /\ \/ desktop = "up" /\ GStep(c, "apply", "status") /\ appMu' = c
       \/ GEnd(c, "apply") /\ UNCHANGED appMu
    /\ UNCHANGED <<gFile, desktop, mgr, srv, serving, gHist>>

\* A call returns: it lets App.mu go.
Returns(c, ok) ==
    /\ call' = [call EXCEPT ![c] = NoCall] /\ appMu' = Free
    /\ agreed' = (ok /\ ~crowded /\ ~misfired)

\* Mutant: the gateway is stopped for a new address only.
ApplyStatusAddressOnly(c) ==
    /\ IF mgr.running /\ mgr.addr # call[c].want.addr
          THEN GStep(c, "status", "stop")
          ELSE GStep(c, "status", "recheck")
    /\ UNCHANGED <<gFile, desktop, mgr, srv, serving, appMu, gHist>>

ApplyStatus(c) ==
    /\ IF mgr.running /\ (~call[c].want.enabled \/ mgr.addr # call[c].want.addr)
          THEN GStep(c, "status", "stop")
          ELSE GStep(c, "status", "recheck")
    /\ UNCHANGED <<gFile, desktop, mgr, srv, serving, appMu, gHist>>

\* Manager.Stop reads the manager's server under its mutex and shuts that one down, whatever the
\* manager holds by then.
ShutsDown(c) ==
    /\ call[c].pc = "stop" /\ mgr.server # 0
    /\ call' = [call EXCEPT ![c].pc = "shutdown", ![c].server = mgr.server]

\* Mutant: the server is let go without Shutdown.
StopBeginNoShutdown(c) ==
    /\ \/ ShutsDown(c)
       \/ mgr.server = 0 /\ GStep(c, "stop", "recheck")
    /\ UNCHANGED <<gFile, desktop, mgr, srv, serving, appMu, gHist>>

\* Shutdown closes the listener first.
StopBegin(c) ==
    /\ \/ mgr.server = 0 /\ GStep(c, "stop", "recheck") /\ UNCHANGED srv
       \/ /\ ShutsDown(c)
          /\ srv' = IF srv[mgr.server].state = "listening"
                       THEN [srv EXCEPT ![mgr.server] = Shut] ELSE srv
    /\ UNCHANGED <<gFile, desktop, mgr, serving, appMu, gHist>>

\* Shutdown has returned: no request is in flight.
ShutDown(c) ==
    /\ call[c].pc = "shutdown" /\ call[c].server \notin serving
    /\ call' = [call EXCEPT ![c].pc = "recheck", ![c].server = 0]
    /\ UNCHANGED <<appMu, agreed, outlived>>

\* Shutdown has given up after five seconds: the call is over, and the requests go on.
GivesUp(c) ==
    /\ call[c].pc = "shutdown" /\ call[c].server \in serving
    /\ Returns(c, FALSE)
    /\ outlived' = outlived \cup {call[c].server}

\* Mutant: an error of Shutdown returns before the fields are cleared.
StopEndsEarly(c) ==
    /\ \/ ShutDown(c) /\ mgr' = [mgr EXCEPT !.server = 0, !.running = FALSE]
       \/ GivesUp(c) /\ UNCHANGED mgr
    /\ UNCHANGED <<gFile, desktop, srv, serving, crowded, misfired>>

\* Mutant: Shutdown has no time limit.
StopEndsPatiently(c) ==
    /\ ShutDown(c) /\ mgr' = [mgr EXCEPT !.server = 0, !.running = FALSE]
    /\ UNCHANGED <<gFile, desktop, srv, serving, crowded, misfired>>

StopEnds(c) ==
    /\ ShutDown(c) \/ GivesUp(c)
    /\ mgr' = [mgr EXCEPT !.server = 0, !.running = FALSE]
    /\ UNCHANGED <<gFile, desktop, srv, serving, crowded, misfired>>

ApplyRecheck(c) ==
    /\ call[c].pc = "recheck"
    /\ IF call[c].want.enabled /\ ~mgr.running
          THEN GStep(c, "recheck", "listen") /\ UNCHANGED <<appMu, agreed>>
          ELSE Returns(c, TRUE)
    /\ UNCHANGED <<gFile, desktop, mgr, srv, serving, crowded, misfired, outlived>>

ApplyListen(c) ==
    /\ call[c].pc = "listen"
    /\ \/ mgr.server = 0 /\ Returns(c, TRUE) /\ \E v \in Servers : Opens(v, call[c].want.addr)
       \/ mgr.server = 0 /\ Returns(c, FALSE) /\ FailsToOpen
       \/ mgr.server # 0 /\ Returns(c, FALSE) /\ UNCHANGED <<mgr, srv>>
    /\ UNCHANGED <<gFile, desktop, serving, crowded, misfired, outlived>>

----------------------------------------------------------------------------
\* The servers.

Accept(v) ==
    /\ srv[v].state = "listening" /\ v \notin serving
    /\ serving' = serving \cup {v}
    /\ UNCHANGED <<gFile, desktop, mgr, srv, call, appMu, gHist>>

RequestsEnd(v) ==
    /\ v \in serving
    /\ serving' = serving \ {v} /\ outlived' = outlived \ {v}
    /\ UNCHANGED <<gFile, desktop, mgr, srv, call, appMu, agreed, crowded, misfired>>

\* Accept fails for good: Serve closes the listener and returns; its goroutine has yet to lock.
ServeFails(v) ==
    /\ srv[v].state = "listening"
    /\ srv' = [srv EXCEPT ![v].state = "failed"]
    /\ agreed' = FALSE /\ outlived' = outlived \cup ({v} \cap serving)
    /\ UNCHANGED <<gFile, desktop, mgr, serving, call, appMu, crowded, misfired>>

\* The goroutine clears the manager's fields, whatever server they hold by now.
ServeExit(v) ==
    /\ srv[v].state = "failed"
    /\ srv' = [srv EXCEPT ![v] = Shut]
    /\ mgr' = [mgr EXCEPT !.server = 0, !.running = FALSE]
    /\ misfired' = (misfired \/ mgr.server \notin {0, v})
    /\ agreed' = FALSE
    /\ UNCHANGED <<gFile, desktop, serving, call, appMu, crowded, outlived>>

SaveStep(c) ==
    \/ PatchWrite(c) \/ PatchRename(c) \/ ApplyStatus(c) \/ StopBegin(c) \/ StopEnds(c)
    \/ ApplyRecheck(c) \/ ApplyListen(c)

GServerNext ==
    \/ Startup \/ Exit
    \/ \E c \in Calls : SaveStep(c) \/ ApplyBegin(c) \/ Toggle(c) \/ \E s \in Settings : Save(c, s)
    \/ \E v \in Servers : Accept(v) \/ RequestsEnd(v) \/ ServeFails(v) \/ ServeExit(v)

\* The calls run to their end; sync.Mutex hands itself to a waiter that has waited long enough.
GServerFairness == \A c \in Calls : WF_gVars(SaveStep(c)) /\ SF_gVars(ApplyBegin(c))

GServerSafety == GServerInit /\ [][GServerNext]_gVars

GServerSpec == GServerSafety /\ GServerFairness

----------------------------------------------------------------------------
\* The status the window shows is true: a gateway said to run has a server, at the address it says,
\* that accepts, or whose failure its goroutine has yet to report (manager.go:114, Status).
RunningIsServing ==
    mgr.running /\ appMu = Free =>
        /\ mgr.server # 0
        /\ srv[mgr.server].state \in {"listening", "failed"}
        /\ srv[mgr.server].addr = mgr.addr

\* Nothing accepts requests behind the manager's back, where no save could stop it: that takes a
\* Serve that failed and whose goroutine came so late that another server had been started.
ListenersAreManaged ==
    \A v \in Servers : srv[v].state = "listening" /\ ~misfired => mgr.server = v

\* A save that met no other one and succeeded leaves the gateway as the file says, enabled and
\* listening at that address or disabled with no listener, and so does the start of the desktop, until
\* the file is written again or a Serve fails (embedded-build-api-design.md:54). The requests still in
\* flight are the listening server's, or were left by a Shutdown that gave up on them or a Serve that
\* failed: a save that succeeds after one that timed out finds them running.
SettingsApplied ==
    agreed =>
        /\ mgr.running = config.enabled
        /\ config.enabled => mgr.addr = Bound(config.addr)
        /\ ~config.enabled => \A v \in Servers : srv[v].state # "listening"
        /\ \A v \in serving : v = mgr.server \/ v \in outlived

\* Every save returns: the wait for the requests in flight is bounded, and no call keeps App.mu.
SavesReturn == \A c \in Calls : call[c].pc # "idle" ~> call[c].pc = "idle"

====
