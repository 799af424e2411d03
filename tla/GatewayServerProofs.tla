---- MODULE GatewayServerProofs ----
(***************************************************************************)
(* The gateway's listener, for any number of calls, addresses and servers: *)
(* its status is true, nothing listens behind the manager's back, and a    *)
(* save that was alone and succeeded is applied.                           *)
(***************************************************************************)
EXTENDS GatewayServer, TLAPS

USE GatewayServerAssumption DEF GatewayServerAssumption

Steps == {"idle", "write", "rename", "apply", "status", "stop", "shutdown", "recheck", "listen"}
Entries == [pc : Steps, want : Settings, server : {0} \cup Servers]

LEMMA NoCallTypes ==
  NoCall \in Entries /\ NoCall.want \in Settings /\ NoCall.pc = "idle" /\ NoCall.server = 0
  BY DEF NoCall, Entries, Steps, Settings

LEMMA BoundTypes == \A a \in Addresses : Bound(a) \in Reported /\ Bound(a) # HostName
  BY DEF Bound, Reported

LEMMA NoServerTypes == NoServer \in [server : {0} \cup Servers, running : BOOLEAN, addr : Reported]
  BY DEF NoServer, Reported

LEMMA RestTypes ==
  /\ Unused \in [state : {"unused", "listening", "failed", "over"}, addr : Reported]
  /\ Shut \in [state : {"unused", "listening", "failed", "over"}, addr : Reported]
  BY DEF Unused, Shut, Reported

\* What one call's step does to the calls.
LEMMA CallMoves ==
  ASSUME GServerTypeOK, NEW c \in Calls, NEW from, NEW to \in Steps, GStep(c, from, to)
  PROVE  /\ call' \in [Calls -> Entries]
         /\ call[c].pc = from /\ call'[c].pc = to /\ call'[c].want = call[c].want
         /\ \A d \in Calls : d # c => call'[d] = call[d]
  BY DEF GServerTypeOK, GStep, Entries, Steps

LEMMA ShutsDownMoves ==
  ASSUME GServerTypeOK, NEW c \in Calls, ShutsDown(c)
  PROVE  /\ call' \in [Calls -> Entries]
         /\ call[c].pc = "stop" /\ call'[c].pc = "shutdown" /\ call'[c].want = call[c].want
         /\ mgr.server \in Servers /\ call'[c].server = mgr.server
         /\ \A d \in Calls : d # c => call'[d] = call[d]
  BY DEF GServerTypeOK, ShutsDown, Entries, Steps

LEMMA ShutDownMoves ==
  ASSUME GServerTypeOK, NEW c \in Calls, ShutDown(c)
  PROVE  /\ call' \in [Calls -> Entries]
         /\ call[c].pc = "shutdown" /\ call'[c].pc = "recheck" /\ call'[c].want = call[c].want
         /\ \A d \in Calls : d # c => call'[d] = call[d]
  BY DEF GServerTypeOK, ShutDown, Entries, Steps

LEMMA CallEnds ==
  ASSUME GServerTypeOK, NEW c \in Calls, call' = [call EXCEPT ![c] = NoCall]
  PROVE  /\ call' \in [Calls -> Entries]
         /\ call'[c].pc = "idle"
         /\ \A d \in Calls : d # c => call'[d] = call[d]
  BY NoCallTypes DEF GServerTypeOK, Entries, Steps

LEMMA OpensTypes ==
  ASSUME GServerTypeOK, NEW v \in Servers, NEW a \in Addresses, Opens(v, a)
  PROVE  /\ mgr' \in [server : {0} \cup Servers, running : BOOLEAN, addr : Reported]
         /\ srv' \in [Servers -> [state : {"unused", "listening", "failed", "over"}, addr : Reported]]
         /\ mgr'.server = v /\ mgr'.running /\ mgr'.addr = Bound(a)
         /\ srv'[v].state = "listening" /\ srv'[v].addr = Bound(a)
         /\ \A u \in Servers : u # v => srv'[u] = srv[u]
  BY BoundTypes DEF GServerTypeOK, Opens

LEMMA ClearsMgr ==
  ASSUME GServerTypeOK, mgr' = [mgr EXCEPT !.server = 0, !.running = FALSE]
  PROVE  /\ mgr' \in [server : {0} \cup Servers, running : BOOLEAN, addr : Reported]
         /\ mgr'.server = 0 /\ mgr'.running = FALSE
  BY DEF GServerTypeOK

----------------------------------------------------------------------------
LEMMA SaveTypeStep ==
  ASSUME GServerTypeOK, NEW c \in Calls, SaveStep(c) \/ ApplyBegin(c)
  PROVE  GServerTypeOK'
<1> USE DEF gFile, gHist
<1>0. call \in [Calls -> Entries] /\ call[c].want \in Settings /\ call[c].want.addr \in Addresses
  BY DEF GServerTypeOK, Entries, Steps, Settings
<1>1. CASE PatchWrite(c)
  <2>1. call' \in [Calls -> Entries]
    BY <1>1, CallMoves, CallEnds DEF PatchWrite, GEnd, Steps
  <2>2. tmp' \in Settings \cup {Free}
    BY <1>0, <1>1 DEF PatchWrite, GServerTypeOK
  <2> QED BY <1>1, <2>1, <2>2 DEF PatchWrite, GServerTypeOK, Entries, Steps
<1>2. CASE PatchRename(c)
  <2>1. call' \in [Calls -> Entries]
    BY <1>2, CallMoves, CallEnds DEF PatchRename, GEnd, Steps
  <2>2. config' \in Settings /\ tmp' \in Settings \cup {Free}
    BY <1>2 DEF PatchRename, GServerTypeOK
  <2> QED BY <1>2, <2>1, <2>2 DEF PatchRename, GServerTypeOK, Entries, Steps
<1>3. CASE ApplyBegin(c)
  <2>1. call' \in [Calls -> Entries]
    BY <1>3, CallMoves, CallEnds DEF ApplyBegin, GEnd, Steps
  <2>2. appMu' \in Calls \cup {Free}
    BY <1>3 DEF ApplyBegin, GServerTypeOK
  <2> QED BY <1>3, <2>1, <2>2 DEF ApplyBegin, GServerTypeOK, Entries, Steps
<1>4. CASE ApplyStatus(c)
  <2>1. call' \in [Calls -> Entries]
    BY <1>4, CallMoves DEF ApplyStatus, Steps
  <2> QED BY <1>4, <2>1 DEF ApplyStatus, GServerTypeOK, Entries, Steps
<1>5. CASE StopBegin(c)
  <2>1. call' \in [Calls -> Entries]
    BY <1>5, CallMoves, ShutsDownMoves DEF StopBegin, Steps
  <2>2. srv' \in [Servers -> [state : {"unused", "listening", "failed", "over"}, addr : Reported]]
    BY <1>5, RestTypes DEF StopBegin, GServerTypeOK
  <2> QED BY <1>5, <2>1, <2>2 DEF StopBegin, GServerTypeOK, Entries, Steps
<1>6. CASE StopEnds(c)
  <2>1. call' \in [Calls -> Entries]
    BY <1>6, ShutDownMoves, CallEnds DEF StopEnds, GivesUp, Returns
  <2>2. mgr' \in [server : {0} \cup Servers, running : BOOLEAN, addr : Reported]
    BY <1>6, ClearsMgr DEF StopEnds
  <2>3. appMu' \in Calls \cup {Free} /\ agreed' \in BOOLEAN /\ outlived' \in SUBSET Servers
    BY <1>6 DEF StopEnds, ShutDown, GivesUp, Returns, GServerTypeOK
  <2> QED BY <1>6, <2>1, <2>2, <2>3 DEF StopEnds, GServerTypeOK, Entries, Steps
<1>7. CASE ApplyRecheck(c)
  <2>1. call' \in [Calls -> Entries]
    BY <1>7, CallMoves, CallEnds DEF ApplyRecheck, Returns, Steps
  <2>2. appMu' \in Calls \cup {Free} /\ agreed' \in BOOLEAN
    BY <1>7 DEF ApplyRecheck, Returns, GServerTypeOK
  <2> QED BY <1>7, <2>1, <2>2 DEF ApplyRecheck, GServerTypeOK, Entries, Steps
<1>8. CASE ApplyListen(c)
  <2>1. call' \in [Calls -> Entries] /\ appMu' \in Calls \cup {Free} /\ agreed' \in BOOLEAN
    BY <1>8, CallEnds DEF ApplyListen, Returns
  <2>2. /\ mgr' \in [server : {0} \cup Servers, running : BOOLEAN, addr : Reported]
        /\ srv' \in [Servers -> [state : {"unused", "listening", "failed", "over"}, addr : Reported]]
    <3>1. CASE \E v \in Servers : Opens(v, call[c].want.addr)
      BY <1>0, <3>1, OpensTypes
    <3>2. CASE FailsToOpen
      BY <3>2, NoServerTypes DEF FailsToOpen, GServerTypeOK
    <3>3. CASE UNCHANGED <<mgr, srv>>
      BY <3>3 DEF GServerTypeOK
    <3> QED BY <1>8, <3>1, <3>2, <3>3 DEF ApplyListen
  <2> QED BY <1>8, <2>1, <2>2 DEF ApplyListen, GServerTypeOK, Entries, Steps
<1> QED BY <1>1, <1>2, <1>3, <1>4, <1>5, <1>6, <1>7, <1>8 DEF SaveStep

LEMMA SettingsToggle ==
  ASSUME NEW s \in Settings, NEW on \in BOOLEAN
  PROVE  [s EXCEPT !.enabled = on] \in Settings
  BY DEF Settings

LEMMA BeginTypes ==
  ASSUME GServerTypeOK, NEW c \in Calls, NEW s \in Settings, Save(c, s)
  PROVE  /\ GServerTypeOK'
         /\ call'[c].pc = "write"
         /\ \A d \in Calls : d # c => call'[d] = call[d]
<1>1. /\ call' \in [Calls -> Entries]
      /\ call'[c].pc = "write"
      /\ \A d \in Calls : d # c => call'[d] = call[d]
  BY DEF Save, NoCall, GServerTypeOK, Entries, Steps
<1>2. crowded' \in BOOLEAN /\ agreed' \in BOOLEAN
  BY DEF Save
<1> QED BY <1>1, <1>2 DEF Save, gFile, GServerTypeOK, Entries, Steps

LEMMA ServerTypeStep ==
  ASSUME GServerTypeOK, NEW v \in Servers, Accept(v) \/ RequestsEnd(v) \/ ServeFails(v) \/ ServeExit(v)
  PROVE  GServerTypeOK'
<1> USE DEF gFile, gHist
<1>1. CASE Accept(v) \/ RequestsEnd(v)
  BY <1>1 DEF Accept, RequestsEnd, GServerTypeOK
<1>2. CASE ServeFails(v)
  <2>1. srv' \in [Servers -> [state : {"unused", "listening", "failed", "over"}, addr : Reported]]
    BY <1>2 DEF ServeFails, GServerTypeOK
  <2> QED BY <1>2, <2>1 DEF ServeFails, GServerTypeOK
<1>3. CASE ServeExit(v)
  <2>1. srv' \in [Servers -> [state : {"unused", "listening", "failed", "over"}, addr : Reported]]
    BY <1>3, RestTypes DEF ServeExit, GServerTypeOK
  <2>2. mgr' \in [server : {0} \cup Servers, running : BOOLEAN, addr : Reported]
    BY <1>3, ClearsMgr DEF ServeExit
  <2>3. {agreed', misfired'} \subseteq BOOLEAN
    BY <1>3 DEF ServeExit, GServerTypeOK
  <2> QED BY <1>3, <2>1, <2>2, <2>3 DEF ServeExit, GServerTypeOK
<1> QED BY <1>1, <1>2, <1>3

LEMMA DesktopTypeStep ==
  ASSUME GServerTypeOK, Startup \/ Exit
  PROVE  GServerTypeOK'
<1> USE DEF gFile, gHist
<1>0. config \in Settings /\ config.addr \in Addresses
  BY DEF GServerTypeOK, Settings
<1>1. CASE Startup
  <2>1. /\ mgr' \in [server : {0} \cup Servers, running : BOOLEAN, addr : Reported]
        /\ srv' \in [Servers -> [state : {"unused", "listening", "failed", "over"}, addr : Reported]]
    <3>1. CASE \E v \in Servers : Opens(v, config.addr)
      BY <1>0, <3>1, OpensTypes
    <3>2. CASE UNCHANGED <<srv, mgr>>
      BY <3>2 DEF GServerTypeOK
    <3> QED BY <1>1, <3>1, <3>2 DEF Startup
  <2>2. {agreed', crowded', misfired'} \subseteq BOOLEAN /\ desktop' \in {"off", "up", "broken"}
    BY <1>1 DEF Startup
  <2> QED BY <1>1, <2>1, <2>2 DEF Startup, GServerTypeOK
<1>2. CASE Exit
  <2>1. srv' \in [Servers -> [state : {"unused", "listening", "failed", "over"}, addr : Reported]]
    BY <1>2, RestTypes DEF Exit
  <2>2. call' \in [Calls -> Entries]
    BY <1>2, NoCallTypes DEF Exit
  <2> QED BY <1>2, <2>1, <2>2, NoServerTypes DEF Exit, GServerTypeOK, Entries, Steps
<1> QED BY <1>1, <1>2

\* The listener's variables keep their types, for any number of calls, addresses and servers.
THEOREM GServerTypeCorrect == GServerSafety => []GServerTypeOK
<1>1. GServerInit => GServerTypeOK
  <2> SUFFICES ASSUME GServerInit PROVE GServerTypeOK
    OBVIOUS
  <2>1. srv \in [Servers -> [state : {"unused", "listening", "failed", "over"}, addr : Reported]]
    BY RestTypes DEF GServerInit
  <2>2. call \in [Calls -> Entries]
    BY NoCallTypes DEF GServerInit
  <2> QED BY <2>1, <2>2, NoCallTypes, NoServerTypes DEF GServerInit, GServerTypeOK, Entries, Steps
<1>2. GServerTypeOK /\ [GServerNext]_gVars => GServerTypeOK'
  <2> SUFFICES ASSUME GServerTypeOK, [GServerNext]_gVars PROVE GServerTypeOK'
    OBVIOUS
  <2>1. ASSUME NEW c \in Calls, Toggle(c) PROVE GServerTypeOK'
    <3>1. config \in Settings
      BY DEF GServerTypeOK
    <3> QED BY <2>1, <3>1, SettingsToggle, BeginTypes DEF Toggle
  <2>2. CASE UNCHANGED gVars
    BY <2>2 DEF gVars, gHist, GServerTypeOK
  <2> QED BY <2>1, <2>2, SaveTypeStep, BeginTypes, ServerTypeStep, DesktopTypeStep DEF GServerNext
<1> QED BY <1>1, <1>2, PTL DEF GServerSafety

----------------------------------------------------------------------------
\* The inductive invariant.

\* App.mu is held by the one call between its acquisition and its return.
Inside == {"status", "stop", "shutdown", "recheck", "listen"}
MutexHeld == \A c \in Calls : call[c].pc \in Inside <=> appMu = c

\* A desktop that is off has no call, no server and no port.
OffIsClean ==
    desktop = "off" => /\ \A c \in Calls : call[c].pc = "idle"
                       /\ mgr = NoServer
                       /\ \A v \in Servers : srv[v].state \notin {"listening", "failed"}

\* The manager's fields fit each other and the server they hold, but for the call that shuts it down.
MgrTells ==
    /\ mgr.running <=> mgr.server # 0
    /\ mgr.running => mgr.addr # HostName
    /\ \/ mgr.server = 0
       \/ srv[mgr.server].state \in {"listening", "failed"} /\ srv[mgr.server].addr = mgr.addr
       \/ \E c \in Calls : call[c].pc = "shutdown"
    /\ \A c \in Calls : call[c].pc = "shutdown" /\ mgr.server # 0 => srv[mgr.server].state # "listening"

\* A save that has met no other finds in the files what it wrote.
SaveAlone ==
    ~crowded =>
        /\ \A c, d \in Calls : call[c].pc # "idle" /\ call[d].pc # "idle" => c = d
        /\ \A c \in Calls : call[c].pc = "rename" => tmp = call[c].want
        /\ \A c \in Calls : call[c].pc \in Inside \cup {"apply"} => config = call[c].want

\* What a call has made sure of when it looks at the status again, and when it starts the gateway.
ApplyTells ==
    \A c \in Calls :
        /\ call[c].pc = "recheck" /\ mgr.running => call[c].want.enabled /\ mgr.addr = call[c].want.addr
        /\ call[c].pc = "listen" => call[c].want.enabled

\* Once a save has replaced the file, the two agree again only by its return.
AgreedEarly ==
    agreed => ~misfired /\ \A c \in Calls : call[c].pc \in {"idle", "write", "rename"}

\* What SettingsApplied says of the listener.
FileApplied ==
    agreed =>
        /\ mgr.running = config.enabled
        /\ config.enabled => mgr.addr = Bound(config.addr)
        /\ ~config.enabled => \A v \in Servers : srv[v].state # "listening"

\* Where the requests in flight are: at a listener, in the wait of a Shutdown, or given up.
RequestsKnown ==
    \A v \in serving :
        \/ v \in outlived \/ srv[v].state = "listening"
        \/ \E c \in Calls : call[c].pc = "shutdown" /\ call[c].server = v

CallInv == MutexHeld /\ OffIsClean /\ SaveAlone /\ AgreedEarly
SrvInv == MgrTells /\ ApplyTells /\ ListenersAreManaged /\ FileApplied
GIInv == GServerTypeOK /\ CallInv /\ SrvInv

\* Agreement and the servers are left alone by what changes neither of them.
LEMMA SrvInvKept ==
  ASSUME SrvInv, UNCHANGED <<config, mgr, srv, misfired>>, agreed' => agreed,
         \A c \in Calls : call'[c].pc \in {"shutdown", "recheck", "listen"} => call'[c] = call[c],
         \A c \in Calls : call[c].pc = "shutdown" => call'[c] = call[c]
  PROVE  SrvInv'
<1>1. MgrTells'
  BY DEF SrvInv, MgrTells
<1>2. ApplyTells'
  BY DEF SrvInv, ApplyTells
<1>3. ListenersAreManaged' /\ FileApplied'
  BY DEF SrvInv, ListenersAreManaged, FileApplied
<1> QED BY <1>1, <1>2, <1>3 DEF SrvInv

LEMMA SaveInv ==
  ASSUME GIInv, NEW c \in Calls, NEW s \in Settings, Save(c, s)
  PROVE  GIInv'
<1> USE DEF GIInv
<1>1. /\ GServerTypeOK'
      /\ call'[c].pc = "write" /\ call[c].pc = "idle"
      /\ \A d \in Calls : d # c => call'[d] = call[d]
  BY BeginTypes DEF Save
<1>2. /\ UNCHANGED <<config, tmp, desktop, mgr, srv, appMu, misfired>>
      /\ desktop # "off" /\ crowded' = ~Quiescent /\ agreed' = (agreed /\ Quiescent)
  BY DEF Save, gFile
<1>3. MutexHeld' /\ OffIsClean' /\ AgreedEarly'
  BY <1>1, <1>2 DEF CallInv, MutexHeld, OffIsClean, AgreedEarly, Inside
<1>4. SaveAlone'
  BY <1>1, <1>2 DEF CallInv, SaveAlone, Quiescent, Inside
<1>5. SrvInv'
  BY <1>1, <1>2, SrvInvKept
<1> QED BY <1>1, <1>3, <1>4, <1>5 DEF CallInv

LEMMA PatchInv ==
  ASSUME GIInv, NEW c \in Calls, PatchWrite(c) \/ PatchRename(c)
  PROVE  GIInv'
<1> USE DEF GIInv
<1>0. GServerTypeOK'
  BY SaveTypeStep DEF SaveStep
<1>1. CASE PatchWrite(c)
  <2>1. /\ call[c].pc = "write" /\ call'[c].pc \in {"rename", "idle"}
        /\ call'[c].pc = "rename" => call'[c].want = call[c].want /\ tmp' = call[c].want
        /\ \A d \in Calls : d # c => call'[d] = call[d]
    BY <1>1, CallMoves, CallEnds DEF PatchWrite, GEnd, Steps
  <2>2. /\ UNCHANGED <<config, desktop, mgr, srv, appMu, agreed, crowded, misfired>>
    BY <1>1 DEF PatchWrite, gHist
  <2>3. MutexHeld' /\ OffIsClean' /\ AgreedEarly'
    BY <2>1, <2>2 DEF CallInv, MutexHeld, OffIsClean, AgreedEarly, Inside
  <2>4. SaveAlone'
    BY <2>1, <2>2 DEF CallInv, SaveAlone, Inside
  <2>5. SrvInv'
    BY <2>1, <2>2, SrvInvKept
  <2> QED BY <1>0, <2>3, <2>4, <2>5 DEF CallInv
<1>2. CASE PatchRename(c)
  <2>1. /\ call[c].pc = "rename" /\ call'[c].pc \in {"apply", "idle"}
        /\ \A d \in Calls : d # c => call'[d] = call[d]
    BY <1>2, CallMoves, CallEnds DEF PatchRename, GEnd, Steps
  <2>2. call'[c].pc = "apply" => config' = tmp /\ call'[c].want = call[c].want
    BY <1>2, CallMoves, CallEnds DEF PatchRename, GEnd, Steps
  <2>3. ~agreed' /\ UNCHANGED <<desktop, mgr, srv, appMu, crowded, misfired>>
    BY <1>2 DEF PatchRename
  <2>4. MutexHeld' /\ OffIsClean' /\ AgreedEarly'
    BY <2>1, <2>3 DEF CallInv, MutexHeld, OffIsClean, AgreedEarly, Inside
  <2>5. SaveAlone'
    BY <2>1, <2>2, <2>3 DEF CallInv, SaveAlone, Inside
  <2>6. MgrTells' /\ ApplyTells' /\ ListenersAreManaged' /\ FileApplied'
    BY <2>1, <2>3 DEF SrvInv, MgrTells, ApplyTells, ListenersAreManaged, FileApplied
  <2> QED BY <1>0, <2>4, <2>5, <2>6 DEF CallInv, SrvInv
<1> QED BY <1>1, <1>2

LEMMA ApplyBeginInv ==
  ASSUME GIInv, NEW c \in Calls, ApplyBegin(c)
  PROVE  GIInv'
<1> USE DEF GIInv
<1>0. GServerTypeOK'
  BY SaveTypeStep
<1>1. /\ call[c].pc = "apply" /\ call'[c].pc \in {"status", "idle"}
      /\ call'[c].pc = "status" => appMu' = c /\ call'[c].want = call[c].want
      /\ call'[c].pc = "idle" => appMu' = appMu
      /\ \A d \in Calls : d # c => call'[d] = call[d]
  BY CallMoves, CallEnds DEF ApplyBegin, GEnd, Steps
<1>2. appMu = Free /\ UNCHANGED <<config, tmp, desktop, mgr, srv, agreed, crowded, misfired>>
  BY DEF ApplyBegin, gFile, gHist
<1>3. MutexHeld'
  BY <1>1, <1>2 DEF CallInv, MutexHeld, Inside
<1>4. OffIsClean' /\ AgreedEarly'
  BY <1>1, <1>2 DEF CallInv, OffIsClean, AgreedEarly
<1>5. SaveAlone'
  BY <1>1, <1>2 DEF CallInv, SaveAlone, Inside
<1>6. SrvInv'
  BY <1>1, <1>2, SrvInvKept
<1> QED BY <1>0, <1>3, <1>4, <1>5, <1>6 DEF CallInv

----------------------------------------------------------------------------
\* The steps under App.mu.

LEMMA InsideMoves ==
  ASSUME GIInv, NEW c \in Calls, call[c].pc \in Inside, call'[c].pc \in Inside,
         call'[c].want = call[c].want, \A d \in Calls : d # c => call'[d] = call[d],
         UNCHANGED <<gFile, desktop, appMu, agreed, crowded, misfired>>
  PROVE  CallInv' /\ ~agreed' /\ UNCHANGED <<config, misfired>>
<1> USE DEF GIInv
<1>1. UNCHANGED <<config, tmp, desktop, appMu, agreed, crowded, misfired>>
  BY DEF gFile
<1>2. ~agreed /\ desktop # "off"
  BY DEF CallInv, AgreedEarly, OffIsClean, Inside
<1>3. MutexHeld' /\ OffIsClean' /\ AgreedEarly'
  BY <1>1, <1>2 DEF CallInv, MutexHeld, OffIsClean, AgreedEarly
<1>4. SaveAlone'
  BY <1>1 DEF CallInv, SaveAlone, Inside
<1> QED BY <1>1, <1>2, <1>3, <1>4 DEF CallInv

LEMMA InsideReturns ==
  ASSUME GIInv, NEW c \in Calls, call[c].pc \in Inside, NEW ok \in BOOLEAN, Returns(c, ok),
         UNCHANGED <<gFile, desktop, crowded, misfired>>
  PROVE  /\ CallInv' /\ UNCHANGED <<config, misfired>>
         /\ agreed' => ok /\ ~crowded /\ ~misfired /\ config = call[c].want
<1> USE DEF GIInv
<1>1. /\ call'[c].pc = "idle" /\ appMu' = Free
      /\ \A d \in Calls : d # c => call'[d] = call[d]
      /\ agreed' = (ok /\ ~crowded /\ ~misfired)
  BY CallEnds DEF Returns
<1>2. UNCHANGED <<config, tmp, desktop>>
  BY DEF gFile
<1>3. desktop # "off" /\ appMu = c
  BY DEF CallInv, OffIsClean, MutexHeld, Inside
<1>4. \A d \in Calls : d # c => call[d].pc \notin Inside
  BY <1>3 DEF CallInv, MutexHeld
<1>5. MutexHeld'
  BY <1>1, <1>4 DEF MutexHeld, Inside
<1>6. SaveAlone'
  BY <1>1, <1>2 DEF CallInv, SaveAlone, Inside
<1>7. agreed' => \A d \in Calls : call'[d].pc = "idle"
  BY <1>1 DEF CallInv, SaveAlone, Inside
<1>8. OffIsClean' /\ AgreedEarly'
  BY <1>1, <1>2, <1>3, <1>7 DEF OffIsClean, AgreedEarly
<1>9. agreed' => config = call[c].want
  BY <1>1 DEF CallInv, SaveAlone
<1> QED BY <1>1, <1>2, <1>5, <1>6, <1>8, <1>9 DEF CallInv

\* While a call is inside, no other is anywhere the servers' invariants speak of.
LEMMA OthersOutside ==
  ASSUME GIInv, NEW c \in Calls, call[c].pc \in Inside
  PROVE  \A d \in Calls : d # c => call[d].pc \notin Inside
  BY DEF GIInv, CallInv, MutexHeld

LEMMA ApplyStatusInv ==
  ASSUME GIInv, NEW c \in Calls, ApplyStatus(c)
  PROVE  GIInv'
<1> USE DEF GIInv
<1>0. GServerTypeOK'
  BY SaveTypeStep DEF SaveStep
<1>1. PICK to \in {"stop", "recheck"} :
         /\ GStep(c, "status", to)
         /\ to = "recheck" => (mgr.running => call[c].want.enabled /\ mgr.addr = call[c].want.addr)
  BY DEF ApplyStatus
<1>2. UNCHANGED <<gFile, desktop, mgr, srv, appMu, gHist>>
  BY DEF ApplyStatus
<1>4. /\ call[c].pc = "status" /\ call'[c].pc = to /\ call'[c].want = call[c].want
      /\ \A d \in Calls : d # c => call'[d] = call[d]
  BY <1>1, CallMoves DEF Steps
<1>3. CallInv' /\ ~agreed' /\ UNCHANGED <<config, misfired>>
  BY <1>2, <1>4, InsideMoves DEF Inside, gHist
<1>5. MgrTells' /\ ListenersAreManaged' /\ FileApplied'
  BY <1>2, <1>3, <1>4 DEF SrvInv, MgrTells, ListenersAreManaged, FileApplied
<1>6. ApplyTells'
  BY <1>1, <1>2, <1>4 DEF SrvInv, ApplyTells
<1> QED BY <1>0, <1>3, <1>5, <1>6 DEF SrvInv

LEMMA StopBeginInv ==
  ASSUME GIInv, NEW c \in Calls, StopBegin(c)
  PROVE  GIInv'
<1> USE DEF GIInv
<1>0. GServerTypeOK'
  BY SaveTypeStep DEF SaveStep
<1>1. PICK to \in {"recheck", "shutdown"} :
         /\ \/ to = "recheck" /\ GStep(c, "stop", to)
            \/ to = "shutdown" /\ ShutsDown(c)
         /\ \/ to = "recheck" /\ mgr.server = 0 /\ UNCHANGED srv
            \/ /\ to = "shutdown" /\ mgr.server # 0
               /\ srv' = IF srv[mgr.server].state = "listening"
                            THEN [srv EXCEPT ![mgr.server] = Shut] ELSE srv
  BY DEF StopBegin, ShutsDown
<1>2. UNCHANGED <<gFile, desktop, mgr, appMu, gHist>>
  BY DEF StopBegin
<1>4. /\ call[c].pc = "stop" /\ call'[c].pc = to /\ call'[c].want = call[c].want
      /\ \A d \in Calls : d # c => call'[d] = call[d]
  BY <1>1, CallMoves, ShutsDownMoves DEF Steps
<1>3. CallInv' /\ ~agreed' /\ UNCHANGED <<config, misfired>>
  BY <1>2, <1>4, InsideMoves DEF Inside, gHist
<1>5. \A d \in Calls : d # c => call[d].pc # "shutdown"
  BY <1>4, OthersOutside DEF Inside
<1>6. /\ \A v \in Servers : srv'[v].state = "listening" => srv[v].state = "listening"
      /\ mgr.server # 0 => srv'[mgr.server].state # "listening"
    BY <1>1, <1>2 DEF GServerTypeOK, Shut
<1>7. MgrTells'
  BY <1>1, <1>2, <1>4, <1>5, <1>6 DEF SrvInv, MgrTells
<1>8. ApplyTells'
  BY <1>1, <1>2, <1>4 DEF SrvInv, ApplyTells, MgrTells
<1>9. ListenersAreManaged' /\ FileApplied'
  BY <1>2, <1>3, <1>6 DEF SrvInv, ListenersAreManaged, FileApplied
<1> QED BY <1>0, <1>3, <1>7, <1>8, <1>9 DEF SrvInv

LEMMA StopEndsInv ==
  ASSUME GIInv, NEW c \in Calls, StopEnds(c)
  PROVE  GIInv'
<1> USE DEF GIInv
<1>0. GServerTypeOK'
  BY SaveTypeStep DEF SaveStep
<1>1. /\ mgr' = [mgr EXCEPT !.server = 0, !.running = FALSE]
      /\ call[c].pc = "shutdown" /\ UNCHANGED <<gFile, desktop, srv, crowded, misfired>>
  BY DEF StopEnds, ShutDown, GivesUp
<1>2. mgr'.server = 0 /\ mgr'.running = FALSE
  BY <1>1, ClearsMgr
<1>3. /\ CallInv' /\ ~agreed' /\ UNCHANGED <<config, misfired>>
      /\ call'[c].pc \in {"recheck", "idle"} /\ \A d \in Calls : d # c => call'[d] = call[d]
  <2>1. CASE ShutDown(c)
    <3>1. /\ call'[c].pc = "recheck" /\ call'[c].want = call[c].want
          /\ \A d \in Calls : d # c => call'[d] = call[d]
      BY <2>1, ShutDownMoves
    <3>2. UNCHANGED <<appMu, agreed>>
      BY <2>1 DEF ShutDown
    <3> QED BY <1>1, <3>1, <3>2, InsideMoves DEF Inside
  <2>2. CASE GivesUp(c)
    <3>1. Returns(c, FALSE)
      BY <2>2 DEF GivesUp
    <3>2. call'[c].pc = "idle" /\ \A d \in Calls : d # c => call'[d] = call[d]
      BY <3>1, CallEnds DEF Returns
    <3> QED BY <1>1, <3>1, <3>2, InsideReturns DEF Inside
  <2> QED BY <2>1, <2>2 DEF StopEnds
<1>5. \A d \in Calls : d # c => call[d].pc \notin {"shutdown", "listen"}
  BY <1>1, OthersOutside DEF Inside
<1>6. MgrTells' /\ ApplyTells'
  BY <1>2, <1>3, <1>5 DEF MgrTells, ApplyTells
<1>7. ASSUME NEW v \in Servers, srv[v].state = "listening", ~misfired PROVE FALSE
  <2>1. mgr.server = v /\ v # 0
    BY <1>7 DEF SrvInv, ListenersAreManaged, Servers
  <2> QED BY <1>1, <1>7, <2>1 DEF SrvInv, MgrTells
<1>8. ListenersAreManaged' /\ FileApplied'
  <2>1. srv' = srv /\ misfired' = misfired
    BY <1>1
  <2>2. ListenersAreManaged'
    BY <1>7, <2>1, Zenon DEF ListenersAreManaged
  <2> QED BY <1>3, <2>2 DEF FileApplied
<1> QED BY <1>0, <1>3, <1>6, <1>8 DEF SrvInv

LEMMA ApplyRecheckInv ==
  ASSUME GIInv, NEW c \in Calls, ApplyRecheck(c)
  PROVE  GIInv'
<1> USE DEF GIInv
<1>0. GServerTypeOK'
  BY SaveTypeStep DEF SaveStep
<1>1. call[c].pc = "recheck" /\ UNCHANGED <<gFile, desktop, mgr, srv, crowded, misfired>>
  BY DEF ApplyRecheck
<1>2. CASE /\ call[c].want.enabled /\ ~mgr.running
           /\ GStep(c, "recheck", "listen") /\ UNCHANGED <<appMu, agreed>>
  <2>2. /\ call'[c].pc = "listen" /\ call'[c].want = call[c].want
        /\ \A d \in Calls : d # c => call'[d] = call[d]
    BY <1>2, CallMoves DEF Steps
  <2>1. CallInv' /\ ~agreed' /\ UNCHANGED <<config, misfired>>
    BY <1>1, <1>2, <2>2, InsideMoves DEF Inside
  <2>3. MgrTells' /\ ApplyTells' /\ ListenersAreManaged' /\ FileApplied'
    BY <1>1, <1>2, <2>1, <2>2 DEF SrvInv, MgrTells, ApplyTells, ListenersAreManaged, FileApplied
  <2> QED BY <1>0, <2>1, <2>3 DEF SrvInv
<1>3. CASE ~(call[c].want.enabled /\ ~mgr.running) /\ Returns(c, TRUE)
  <2>1. /\ CallInv' /\ UNCHANGED <<config, misfired>>
        /\ agreed' => ~misfired /\ config = call[c].want
    BY <1>1, <1>3, InsideReturns DEF Inside
  <2>2. call'[c].pc = "idle" /\ \A d \in Calls : d # c => call'[d] = call[d]
    BY <1>3, CallEnds DEF Returns
  <2>3. MgrTells' /\ ApplyTells' /\ ListenersAreManaged'
    BY <1>1, <2>1, <2>2 DEF SrvInv, MgrTells, ApplyTells, ListenersAreManaged
  <2>4. mgr.running => call[c].want.enabled /\ mgr.addr = call[c].want.addr /\ mgr.addr # HostName
    BY <1>1 DEF SrvInv, ApplyTells, MgrTells
  <2>5. agreed' => mgr.running = config.enabled
    BY <1>3, <2>1, <2>4 DEF GServerTypeOK, Settings
  <2>6. agreed' /\ config.enabled => mgr.addr = Bound(config.addr)
    BY <2>1, <2>4, <2>5 DEF Bound
  <2>7. agreed' /\ ~config.enabled => \A v \in Servers : srv[v].state # "listening"
    BY <2>1, <2>5 DEF SrvInv, ListenersAreManaged, MgrTells, Servers
  <2>8. FileApplied'
    BY <1>1, <2>1, <2>5, <2>6, <2>7 DEF FileApplied, Bound
  <2> QED BY <1>0, <2>1, <2>3, <2>8 DEF SrvInv
<1> QED BY <1>2, <1>3 DEF ApplyRecheck

LEMMA ApplyListenInv ==
  ASSUME GIInv, NEW c \in Calls, ApplyListen(c)
  PROVE  GIInv'
<1> USE DEF GIInv
<1>0. GServerTypeOK'
  BY SaveTypeStep DEF SaveStep
<1>1. call[c].pc = "listen" /\ UNCHANGED <<gFile, desktop, crowded, misfired>>
  BY DEF ApplyListen
<1>2. PICK ok \in BOOLEAN :
         /\ Returns(c, ok)
         /\ ok => mgr.server = 0 /\ \E v \in Servers : Opens(v, call[c].want.addr)
         /\ ~ok => (mgr.server = 0 /\ FailsToOpen) \/ UNCHANGED <<mgr, srv>>
  BY DEF ApplyListen
<1>3. /\ CallInv' /\ UNCHANGED <<config, misfired>>
      /\ agreed' => ok /\ config = call[c].want
  BY <1>1, <1>2, InsideReturns DEF Inside
<1>4. call'[c].pc = "idle" /\ \A d \in Calls : d # c => call'[d] = call[d]
  BY <1>2, CallEnds DEF Returns
<1>5. \A d \in Calls : call'[d].pc \notin {"shutdown", "recheck", "listen"}
  BY <1>1, <1>4, OthersOutside DEF Inside
<1>6. \A d \in Calls : call[d].pc # "shutdown"
  BY <1>1, OthersOutside DEF Inside
<1>7. ApplyTells'
  BY <1>5 DEF ApplyTells
<1>8. CASE ok
  <2>0. PICK v \in Servers : Opens(v, call[c].want.addr) /\ mgr.server = 0
    BY <1>2, <1>8
  <2>1. call[c].want.addr \in Addresses /\ call[c].want.enabled
    BY <1>1 DEF GServerTypeOK, Settings, SrvInv, ApplyTells
  <2>2. /\ mgr'.server = v /\ mgr'.running /\ mgr'.addr = Bound(call[c].want.addr)
        /\ srv'[v].state = "listening" /\ srv'[v].addr = Bound(call[c].want.addr)
        /\ \A u \in Servers : u # v => srv'[u] = srv[u]
    BY <2>0, <2>1, OpensTypes
  <2>3. v # 0 /\ Bound(call[c].want.addr) # HostName
    BY <2>1, BoundTypes DEF Servers
  <2>4. MgrTells'
    BY <1>5, <2>2, <2>3 DEF MgrTells
  <2>5. ListenersAreManaged'
    BY <1>3, <2>0, <2>2, <2>3 DEF SrvInv, ListenersAreManaged, Servers
  <2>6. FileApplied'
    BY <1>3, <2>1, <2>2 DEF FileApplied, Bound
  <2> QED BY <1>0, <1>3, <1>7, <2>4, <2>5, <2>6 DEF SrvInv
<1>9. CASE ~ok
  <2>1. \/ mgr.server = 0 /\ mgr' = NoServer /\ UNCHANGED srv
        \/ UNCHANGED <<mgr, srv>>
    BY <1>2, <1>9 DEF FailsToOpen
  <2>2. NoServer.server = 0 /\ NoServer.running = FALSE /\ NoServer.addr = HostAddr
    BY DEF NoServer
  <2>3. MgrTells'
    BY <1>5, <1>6, <2>1, <2>2 DEF SrvInv, MgrTells
  <2>4. ListenersAreManaged' /\ FileApplied'
    BY <1>3, <1>9, <2>1, <2>2 DEF SrvInv, ListenersAreManaged, FileApplied
  <2> QED BY <1>0, <1>3, <1>7, <2>3, <2>4 DEF SrvInv
<1> QED BY <1>8, <1>9

----------------------------------------------------------------------------
\* The servers and the desktop.

LEMMA ServerInv ==
  ASSUME GIInv, NEW v \in Servers, Accept(v) \/ RequestsEnd(v) \/ ServeFails(v) \/ ServeExit(v)
  PROVE  GIInv'
<1> USE DEF GIInv
<1>0. GServerTypeOK'
  BY ServerTypeStep
<1>1. CASE Accept(v) \/ RequestsEnd(v)
  <2>1. UNCHANGED <<config, tmp, desktop, mgr, srv, call, appMu, agreed, crowded, misfired>>
    BY <1>1 DEF Accept, RequestsEnd, gFile, gHist
  <2>2. CallInv'
    BY <2>1 DEF CallInv, MutexHeld, OffIsClean, SaveAlone, AgreedEarly
  <2> QED BY <1>0, <2>1, <2>2, SrvInvKept
<1>2. CASE ServeFails(v)
  <2>1. /\ UNCHANGED <<config, tmp, desktop, mgr, call, appMu, crowded, misfired>> /\ ~agreed'
        /\ srv[v].state = "listening" /\ srv'[v].state = "failed" /\ srv'[v].addr = srv[v].addr
        /\ \A u \in Servers : u # v => srv'[u] = srv[u]
    BY <1>2 DEF ServeFails, gFile, GServerTypeOK
  <2>2. CallInv'
    BY <2>1 DEF CallInv, MutexHeld, OffIsClean, SaveAlone, AgreedEarly
  <2>3. mgr.server = 0 \/ mgr.server \in Servers
    BY DEF GServerTypeOK
  <2>4. MgrTells'
    BY <2>1, <2>3 DEF SrvInv, MgrTells
  <2>5. ApplyTells' /\ ListenersAreManaged' /\ FileApplied'
    BY <2>1 DEF SrvInv, ApplyTells, ListenersAreManaged, FileApplied
  <2> QED BY <1>0, <2>2, <2>4, <2>5 DEF SrvInv
<1>3. CASE ServeExit(v)
  <2>1. /\ UNCHANGED <<config, tmp, desktop, call, appMu, crowded>> /\ ~agreed'
        /\ srv[v].state = "failed" /\ srv'[v] = Shut
        /\ \A u \in Servers : u # v => srv'[u] = srv[u]
        /\ misfired' = (misfired \/ mgr.server \notin {0, v})
        /\ mgr'.server = 0 /\ mgr'.running = FALSE
    BY <1>3, ClearsMgr DEF ServeExit, gFile, GServerTypeOK
  <2>2. desktop # "off"
    BY <2>1 DEF CallInv, OffIsClean
  <2>3. CallInv'
    BY <2>1, <2>2 DEF CallInv, MutexHeld, OffIsClean, SaveAlone, AgreedEarly
  <2>4. MgrTells' /\ FileApplied'
    BY <2>1 DEF MgrTells, FileApplied
  <2>5. ApplyTells'
    BY <2>1 DEF SrvInv, ApplyTells
  <2>6. ListenersAreManaged'
    <3> SUFFICES ASSUME NEW u \in Servers, srv'[u].state = "listening", ~misfired' PROVE FALSE
      BY DEF ListenersAreManaged
    <3>0. ~misfired /\ mgr.server \in {0, v}
      BY <2>1, Zenon
    <3>1. u # v /\ srv[u].state = "listening"
      BY <2>1 DEF Shut
    <3>2. mgr.server = u
      BY <3>0, <3>1, Zenon DEF SrvInv, ListenersAreManaged
    <3>3. u # 0
      BY DEF Servers
    <3> QED BY <3>0, <3>1, <3>2, <3>3
  <2> QED BY <1>0, <2>3, <2>4, <2>5, <2>6 DEF SrvInv
<1> QED BY <1>1, <1>2, <1>3

LEMMA DesktopInv ==
  ASSUME GIInv, Startup \/ Exit
  PROVE  GIInv'
<1> USE DEF GIInv
<1>0. GServerTypeOK'
  BY DesktopTypeStep
<1>s. /\ NoServer.server = 0 /\ NoServer.running = FALSE /\ NoServer.addr = HostAddr
      /\ Unused.state = "unused" /\ Shut.state = "over"
  BY DEF NoServer, Unused, Shut
<1>1. CASE Startup
  <2>1. /\ desktop = "off" /\ desktop' # "off" /\ ~misfired' /\ ~crowded'
        /\ UNCHANGED <<config, tmp, call, appMu>>
    BY <1>1 DEF Startup, gFile
  <2>2. /\ \A c \in Calls : call[c].pc = "idle"
        /\ mgr = NoServer /\ \A v \in Servers : srv[v].state \notin {"listening", "failed"}
    BY <2>1 DEF CallInv, OffIsClean
  <2>3. CallInv'
    BY <2>1, <2>2 DEF CallInv, MutexHeld, OffIsClean, SaveAlone, AgreedEarly, Inside
  <2>4. ApplyTells'
    BY <2>1, <2>2 DEF ApplyTells
  <2>5. CASE \E v \in Servers : Opens(v, config.addr) /\ config.enabled
    <3>0. PICK v \in Servers : Opens(v, config.addr) /\ config.enabled
      BY <2>5
    <3>1. config.addr \in Addresses
      BY DEF GServerTypeOK, Settings
    <3>2. /\ mgr'.server = v /\ mgr'.running /\ mgr'.addr = Bound(config.addr)
          /\ srv'[v].state = "listening" /\ srv'[v].addr = Bound(config.addr)
          /\ \A u \in Servers : u # v => srv'[u] = srv[u]
          /\ v # 0 /\ Bound(config.addr) # HostName
      BY <3>0, <3>1, OpensTypes, BoundTypes DEF Servers
    <3>3. MgrTells'
      BY <2>1, <2>2, <3>2 DEF MgrTells
    <3>4. ListenersAreManaged'
      BY <2>2, <3>2 DEF ListenersAreManaged
    <3>5. FileApplied'
      BY <2>1, <3>0, <3>2 DEF FileApplied, Bound
    <3> QED BY <1>0, <2>3, <2>4, <3>3, <3>4, <3>5 DEF SrvInv
  <2>6. CASE (agreed' => ~config.enabled) /\ UNCHANGED <<srv, mgr>>
    <3>1. MgrTells' /\ ListenersAreManaged'
      BY <2>1, <2>2, <2>6, <1>s DEF MgrTells, ListenersAreManaged
    <3>2. FileApplied'
      BY <2>1, <2>2, <2>6, <1>s DEF FileApplied, GServerTypeOK, Settings
    <3> QED BY <1>0, <2>3, <2>4, <3>1, <3>2 DEF SrvInv
  <2> QED BY <1>1, <2>5, <2>6 DEF Startup
<1>2. CASE Exit
  <2>1. /\ desktop' = "off" /\ mgr' = NoServer /\ ~agreed' /\ ~crowded' /\ appMu' = Free
        /\ UNCHANGED <<config, tmp, misfired>>
    BY <1>2 DEF Exit, gFile
  <2>2. \A c \in Calls : call'[c].pc = "idle"
    BY <1>2, NoCallTypes DEF Exit
  <2>3. \A v \in Servers : srv'[v].state \notin {"listening", "failed"}
    BY <1>2, <1>s DEF Exit
  <2>4. CallInv'
    BY <2>1, <2>2, <2>3 DEF CallInv, MutexHeld, OffIsClean, SaveAlone, AgreedEarly, Inside
  <2>5. MgrTells' /\ ApplyTells' /\ ListenersAreManaged' /\ FileApplied'
    BY <2>1, <2>2, <2>3, <1>s DEF MgrTells, ApplyTells, ListenersAreManaged, FileApplied
  <2> QED BY <1>0, <2>4, <2>5 DEF SrvInv
<1> QED BY <1>1, <1>2

LEMMA GIInvHolds == GServerSafety => []GIInv
<1>1. GServerInit /\ GServerTypeOK => GIInv
  <2> SUFFICES ASSUME GServerInit, GServerTypeOK PROVE GIInv
    OBVIOUS
  <2>1. /\ \A c \in Calls : call[c].pc = "idle"
        /\ \A v \in Servers : srv[v].state = "unused"
        /\ mgr.server = 0 /\ mgr.running = FALSE /\ mgr.addr = HostAddr
    BY NoCallTypes DEF GServerInit, NoServer, Unused
  <2>2. CallInv
    BY <2>1 DEF GServerInit, CallInv, MutexHeld, OffIsClean, SaveAlone, AgreedEarly, Inside
  <2>3. SrvInv
    BY <2>1 DEF GServerInit, SrvInv, MgrTells, ApplyTells, ListenersAreManaged, FileApplied
  <2> QED BY <2>2, <2>3 DEF GIInv
<1>2. GIInv /\ [GServerNext]_gVars => GIInv'
  <2> SUFFICES ASSUME GIInv, [GServerNext]_gVars PROVE GIInv'
    OBVIOUS
  <2>1. ASSUME NEW c \in Calls, Toggle(c) PROVE GIInv'
    <3>1. config \in Settings
      BY DEF GIInv, GServerTypeOK
    <3> QED BY <2>1, <3>1, SettingsToggle, SaveInv DEF Toggle
  <2>2. CASE UNCHANGED gVars
    <3>1. UNCHANGED <<config, tmp, desktop, mgr, srv, serving, call, appMu, agreed, crowded, misfired,
                    outlived>>
      BY <2>2 DEF gVars, gFile, gHist
    <3>2. GServerTypeOK' /\ CallInv'
      BY <3>1 DEF GIInv, GServerTypeOK, CallInv, MutexHeld, OffIsClean, SaveAlone, AgreedEarly
    <3> QED BY <3>1, <3>2, SrvInvKept DEF GIInv
  <2>3. ASSUME NEW c \in Calls, SaveStep(c) PROVE GIInv'
    BY <2>3, PatchInv, ApplyStatusInv, StopBeginInv, StopEndsInv, ApplyRecheckInv, ApplyListenInv
       DEF SaveStep
  <2> QED BY <2>1, <2>2, <2>3, SaveInv, ApplyBeginInv, ServerInv, DesktopInv DEF GServerNext
<1> QED BY <1>1, <1>2, GServerTypeCorrect, PTL DEF GServerSafety

\* What the window shows of the gateway is true, for any number of calls and servers.
THEOREM RunningServesAlways == GServerSafety => []RunningIsServing
<1>1. GIInv => RunningIsServing
  <2> SUFFICES ASSUME GIInv, mgr.running, appMu = Free
               PROVE  /\ mgr.server # 0
                      /\ srv[mgr.server].state \in {"listening", "failed"}
                      /\ srv[mgr.server].addr = mgr.addr
    BY DEF RunningIsServing
  <2>1. \A c \in Calls : call[c].pc # "shutdown"
    BY DEF GIInv, CallInv, MutexHeld, Inside
  <2> QED BY <2>1 DEF GIInv, SrvInv, MgrTells
<1> QED BY <1>1, GIInvHolds, PTL

\* Nothing listens behind the manager's back unless a failed Serve came late.
THEOREM ListenersManagedAlways == GServerSafety => []ListenersAreManaged
<1>1. GIInv => ListenersAreManaged
  BY DEF GIInv, SrvInv
<1> QED BY <1>1, GIInvHolds, PTL

----------------------------------------------------------------------------
\* Where the requests in flight are.

LEMMA RequestsKept ==
  ASSUME RequestsKnown, UNCHANGED <<serving, outlived>>, serving \subseteq Servers,
         \A v \in Servers : srv[v].state = "listening" => srv'[v].state = "listening",
         \A c \in Calls : call[c].pc = "shutdown" => call'[c] = call[c]
  PROVE  RequestsKnown'
<1>1. ASSUME NEW v \in serving, NEW c \in Calls, call[c].pc = "shutdown", call[c].server = v
      PROVE  call'[c].pc = "shutdown" /\ call'[c].server = v
  BY <1>1
<1> QED BY <1>1 DEF RequestsKnown

LEMMA RequestsSaveStep ==
  ASSUME GIInv, RequestsKnown, NEW c \in Calls, SaveStep(c) \/ ApplyBegin(c)
  PROVE  RequestsKnown'
<1> USE DEF GIInv
<1>0. serving \subseteq Servers /\ call[c].want.addr \in Addresses
  BY DEF GServerTypeOK, Settings
<1>1. ASSUME PatchWrite(c) \/ PatchRename(c) \/ ApplyBegin(c) \/ ApplyStatus(c) \/ ApplyRecheck(c)
      PROVE  RequestsKnown'
  <2>1. UNCHANGED <<serving, outlived, srv>>
    BY <1>1 DEF PatchWrite, PatchRename, ApplyBegin, ApplyStatus, ApplyRecheck, gHist
  <2>2. call[c].pc # "shutdown" /\ \A d \in Calls : d # c => call'[d] = call[d]
    BY <1>1, CallMoves, CallEnds
       DEF PatchWrite, PatchRename, ApplyBegin, ApplyStatus, ApplyRecheck, Returns, GEnd, GStep, Steps
  <2> QED BY <1>0, <2>1, <2>2, RequestsKept
<1>2. ASSUME ApplyListen(c) PROVE RequestsKnown'
  <2>1. UNCHANGED <<serving, outlived>> /\ call[c].pc = "listen"
    BY <1>2 DEF ApplyListen
  <2>2. \A d \in Calls : d # c => call'[d] = call[d]
    BY <1>2, CallEnds DEF ApplyListen, Returns
  <2>3. \A v \in Servers : srv[v].state = "listening" => srv'[v].state = "listening"
    BY <1>0, <1>2, OpensTypes DEF ApplyListen, FailsToOpen
  <2> QED BY <1>0, <2>1, <2>2, <2>3, RequestsKept
<1>3. ASSUME StopBegin(c) PROVE RequestsKnown'
  <2>1. CASE mgr.server = 0 /\ GStep(c, "stop", "recheck") /\ UNCHANGED srv
    <3>1. UNCHANGED <<serving, outlived, srv>>
      BY <1>3, <2>1 DEF StopBegin, gHist
    <3>2. call[c].pc # "shutdown" /\ \A d \in Calls : d # c => call'[d] = call[d]
      BY <2>1, CallMoves DEF Steps
    <3> QED BY <1>0, <3>1, <3>2, RequestsKept
  <2>2. CASE /\ ShutsDown(c)
             /\ srv' = IF srv[mgr.server].state = "listening"
                          THEN [srv EXCEPT ![mgr.server] = Shut] ELSE srv
    <3>1. /\ call[c].pc = "stop" /\ call'[c].pc = "shutdown" /\ call'[c].server = mgr.server
          /\ mgr.server \in Servers /\ \A d \in Calls : d # c => call'[d] = call[d]
      BY <2>2, ShutsDownMoves
    <3>2. UNCHANGED <<serving, outlived>> /\ \A v \in Servers : v # mgr.server => srv'[v] = srv[v]
      BY <1>3, <2>2, <3>1 DEF StopBegin, gHist, GServerTypeOK
    <3>3. ASSUME NEW v \in serving, v # mgr.server, v \notin outlived, srv[v].state # "listening"
          PROVE  \E d \in Calls : call'[d].pc = "shutdown" /\ call'[d].server = v
      <4>1. PICK d \in Calls : call[d].pc = "shutdown" /\ call[d].server = v
        BY <3>3 DEF RequestsKnown
      <4> QED BY <3>1, <4>1
    <3> QED BY <1>0, <3>1, <3>2, <3>3 DEF RequestsKnown
  <2> QED BY <1>3, <2>1, <2>2 DEF StopBegin
<1>4. ASSUME StopEnds(c) PROVE RequestsKnown'
  <2>1. \A d \in Calls : d # c => call'[d] = call[d]
    BY <1>4, ShutDownMoves, CallEnds DEF StopEnds, GivesUp, Returns
  <2>2. /\ UNCHANGED <<serving, srv>> /\ outlived \subseteq outlived'
        /\ call[c].server \in serving => call[c].server \in outlived'
    BY <1>4 DEF StopEnds, ShutDown, GivesUp
  <2>3. ASSUME NEW v \in serving, v \notin outlived', srv[v].state # "listening"
        PROVE  \E d \in Calls : call'[d].pc = "shutdown" /\ call'[d].server = v
    <3>1. PICK d \in Calls : call[d].pc = "shutdown" /\ call[d].server = v
      BY <2>2, <2>3 DEF RequestsKnown
    <3> QED BY <2>1, <2>2, <2>3, <3>1
  <2> QED BY <2>2, <2>3 DEF RequestsKnown
<1> QED BY <1>1, <1>2, <1>3, <1>4 DEF SaveStep

LEMMA RequestsServerStep ==
  ASSUME GIInv, RequestsKnown, NEW v \in Servers,
         Accept(v) \/ RequestsEnd(v) \/ ServeFails(v) \/ ServeExit(v)
  PROVE  RequestsKnown'
<1> USE DEF GIInv
<1>1. call' = call
  BY DEF Accept, RequestsEnd, ServeFails, ServeExit
<1>2. /\ serving' \ {v} = serving \ {v} /\ serving' \subseteq Servers
      /\ outlived' \ {v} = outlived \ {v}
      /\ \A u \in Servers : u # v => srv'[u] = srv[u]
  BY DEF Accept, RequestsEnd, ServeFails, ServeExit, GServerTypeOK, gHist
<1>3. v \in serving' =>
        \/ v \in outlived' \/ srv'[v].state = "listening"
        \/ \E c \in Calls : call[c].pc = "shutdown" /\ call[c].server = v
  BY DEF Accept, RequestsEnd, ServeFails, ServeExit, RequestsKnown, GServerTypeOK, gHist
<1>4. ASSUME NEW u \in serving', u # v
      PROVE  \/ u \in outlived' \/ srv'[u].state = "listening"
             \/ \E c \in Calls : call[c].pc = "shutdown" /\ call[c].server = u
  BY <1>2, <1>4 DEF RequestsKnown
<1> QED BY <1>1, <1>3, <1>4 DEF RequestsKnown

LEMMA RequestsKnownHolds == GServerSafety => []RequestsKnown
<1>1. GServerInit => RequestsKnown
  BY DEF GServerInit, RequestsKnown
<1>2. GIInv /\ RequestsKnown /\ [GServerNext]_gVars => RequestsKnown'
  <2> SUFFICES ASSUME GIInv, RequestsKnown, [GServerNext]_gVars PROVE RequestsKnown'
    OBVIOUS
  <2>0. serving \subseteq Servers
    BY DEF GIInv, GServerTypeOK
  <2>1. ASSUME NEW c \in Calls, NEW s \in Settings, Save(c, s) PROVE RequestsKnown'
    <3>1. UNCHANGED <<serving, outlived, srv>> /\ call[c].pc = "idle"
      BY <2>1 DEF Save
    <3>2. \A d \in Calls : d # c => call'[d] = call[d]
      BY <2>1, BeginTypes DEF GIInv
    <3> QED BY <2>0, <3>1, <3>2, RequestsKept
  <2>2. ASSUME NEW c \in Calls, Toggle(c) PROVE RequestsKnown'
    <3>1. config \in Settings
      BY DEF GIInv, GServerTypeOK
    <3> QED BY <2>1, <2>2, <3>1, SettingsToggle DEF Toggle
  <2>3. CASE Startup
    <3>1. \A v \in Servers : srv[v].state # "listening"
      BY <2>3 DEF Startup, GIInv, CallInv, OffIsClean
    <3> QED BY <2>0, <2>3, <3>1, RequestsKept DEF Startup
  <2>4. CASE Exit
    BY <2>4 DEF Exit, RequestsKnown
  <2>5. CASE UNCHANGED gVars
    BY <2>0, <2>5, RequestsKept DEF gVars, gHist
  <2> QED BY <2>1, <2>2, <2>3, <2>4, <2>5, RequestsSaveStep, RequestsServerStep DEF GServerNext
<1> QED BY <1>1, <1>2, GIInvHolds, PTL DEF GServerSafety

\* A save that met no other and succeeded is applied, until the next one or the failure of a Serve; the
\* requests in flight are the listening server's, or a Shutdown or a failed Serve has left them.
THEOREM SettingsAppliedAlways == GServerSafety => []SettingsApplied
<1>1. GIInv /\ RequestsKnown => SettingsApplied
  <2> SUFFICES ASSUME GIInv, RequestsKnown, agreed,
                      NEW v \in serving, v \notin outlived
               PROVE  v = mgr.server
    BY DEF SettingsApplied, GIInv, SrvInv, FileApplied
  <2>1. v \in Servers /\ ~misfired
    BY DEF GIInv, CallInv, AgreedEarly, GServerTypeOK
  <2>2. srv[v].state = "listening"
    BY DEF RequestsKnown, GIInv, CallInv, AgreedEarly
  <2> QED BY <2>1, <2>2 DEF GIInv, SrvInv, ListenersAreManaged
<1> QED BY <1>1, GIInvHolds, RequestsKnownHolds, PTL

====
