---- MODULE MCServices ----
(***************************************************************************)
(* Small instances of the components around the engine and the account     *)
(* pool. They share no state, so that their interleavings say no more than *)
(* each of them alone: a behaviour of this module is one of one component, *)
(* the others staying as they start.                                       *)
(***************************************************************************)
EXTENDS Daemon, ManualOAuth, GatewayServer, GatewayStream, RequestLog, BrowserPool, AccountFiles

VARIABLE part

allVars == <<part, dVars, oVars, gVars, sVars, lVars, bVars, fVars>>

ServicesInit ==
    /\ part \in {"daemon", "oauth", "server", "stream", "log", "pool", "files"}
    /\ DInit /\ OInit /\ GServerInit /\ StreamInit /\ LogInit /\ PoolInit /\ FilesInit

ServicesNext ==
    \/ part = "daemon" /\ DNext /\ UNCHANGED <<part, oVars, gVars, sVars, lVars, bVars, fVars>>
    \/ part = "oauth" /\ ONext /\ UNCHANGED <<part, dVars, gVars, sVars, lVars, bVars, fVars>>
    \/ part = "server" /\ GServerNext /\ UNCHANGED <<part, dVars, oVars, sVars, lVars, bVars, fVars>>
    \/ part = "stream" /\ StreamNext /\ UNCHANGED <<part, dVars, oVars, gVars, lVars, bVars, fVars>>
    \/ part = "log" /\ LogNext /\ UNCHANGED <<part, dVars, oVars, gVars, sVars, bVars, fVars>>
    \/ part = "pool" /\ PoolNext /\ UNCHANGED <<part, dVars, oVars, gVars, sVars, lVars, fVars>>
    \/ part = "files" /\ FilesNext /\ UNCHANGED <<part, dVars, oVars, gVars, sVars, lVars, bVars>>

ServicesSafety == ServicesInit /\ [][ServicesNext]_allVars

\* The fairness of each component, in the behaviours that are its own.
ServicesSpec ==
    /\ ServicesSafety
    /\ \A c \in Callers : WF_dVars(part = "daemon" /\ CommandStep(c))
    /\ WF_oVars(part = "oauth" /\ ListStep)
    /\ \A s \in Sessions : WF_oVars(part = "oauth" /\ SessionStep(s))
    /\ \A t \in Tasks : SF_oVars(part = "oauth" /\ ListMends(t))
    /\ \A c \in Calls : WF_gVars(part = "server" /\ SaveStep(c))
    /\ \A c \in Calls : SF_gVars(part = "server" /\ ApplyBegin(c))
    /\ WF_bVars(part = "pool" /\ CloseStep)
    /\ \A b \in Borrowers : WF_bVars(part = "pool" /\ BoundedStep(b))

\* Every component's variables have their types (TypeOK of each module).
ServicesTypeOK ==
    /\ DaemonTypeOK /\ OAuthTypeOK /\ GServerTypeOK
    /\ StreamTypeOK /\ LogTypeOK /\ PoolTypeOK /\ FilesTypeOK

\* What TLC compares two states by: the component at work, the others being as they start.
\* Of commands that have overlapped no invariant but that of the types looks at state.json again, and
\* how far each Set is decides when its process goes on: its file and its text decide nothing.
DaemonControl == <<pidFile, stopFile, lock, proc, kids, cmd, [w \in Writers |-> set[w].pc]>>

\* The values of a function without the names of its arguments.
Alike(f) == LET values == {f[x] : x \in DOMAIN f} IN
              [r \in values |-> Cardinality({x \in DOMAIN f : f[x] = r})]

\* Sessions and calls are all alike. The temporary file is read by a call that has just written it,
\* and whether two saves have met is asked while there are some.
SessionsSeen ==
    <<file, mixed, waiter, active, lister, owner = NoSession,
      Alike([s \in Sessions |-> <<target[s], [r \in Roles |-> at[<<s, r>>]], s \in good,
                                  s \in cancelled, owner = s>>])>>

ServerSeen ==
    <<config, IF \E c \in Calls : call[c].pc = "rename" THEN tmp ELSE Free, desktop, mgr, srv, serving,
      agreed, crowded /\ ~Quiescent, misfired, outlived,
      Alike([c \in Calls |-> <<call[c], appMu = c>>])>>

\* The types are there for TLC to evaluate the variables the view leaves out before it stores them.
ServicesView ==
    <<part,
      IF overlapped THEN <<DaemonTypeOK, DaemonControl>> ELSE dVars,
      IF part = "oauth" THEN <<OAuthTypeOK, SessionsSeen>> ELSE oVars,
      IF part = "server" THEN <<GServerTypeOK, ServerSeen>> ELSE gVars,
      sVars, lVars, bVars, fVars>>

\* What decides the steps of a component, without the histories and what is only read and shown.
EndView ==
    CASE part = "daemon" -> <<part, DaemonControl>>
      [] OTHER -> <<part, oVars, gVars, sVars, lVars, bVars, fVars>>

====
