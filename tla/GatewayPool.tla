---------------------------- MODULE GatewayPool ----------------------------
(***************************************************************************)
(* The account pool of internal/gateway: requests lease an account, call   *)
(* the provider and mark the account's row with the outcome, while health  *)
(* sweeps, the operator and imports write the same rows.                   *)
(*                                                                         *)
(* A row is one row of gateway_accounts; ids are never reused.  Every      *)
(* statement on the database is atomic and may fail: the client is gone    *)
(* and its context done, or the database is busy.                          *)
(***************************************************************************)
EXTENDS Naturals, FiniteSets

CONSTANTS
  Accounts,      \* bound: the rows that may ever be created
  Requests,      \* bound: the requests served at the same time
  Sweeps,        \* the callers of CheckAccounts: timers old and new, the operator
  Limits,        \* the values of max_concurrent in use
  DefaultLimit,  \* max_concurrent of a new row
  Renewable,     \* the accounts that hold a refresh token
  NoAccount

ASSUME GatewayPoolAssumption ==
  /\ IsFiniteSet(Requests)
  /\ Limits \subseteq Nat \ {0} /\ DefaultLimit \in Limits
  /\ Renewable \subseteq Accounts
  /\ NoAccount \notin Accounts

VARIABLES
  row,             \* what the store keeps of each account
  leases,          \* Selector.leases
  pc, on, lim,     \* a request's step, its account, the limit it was admitted under
  seen,            \* its listing: the limit of each eligible account, else 0
  answer,          \* what Forward returned, until it is marked
  healthRunning,   \* Manager.healthRunning
  sweep,           \* state of each caller of CheckAccounts
  chk, verdict     \* each sweep's step and verdict for each account

requestVars == <<pc, on, lim, seen, answer>>
sweepVars == <<healthRunning, sweep, chk, verdict>>
vars == <<row, leases, requestVars, sweepVars>>

Row == [status  : {"new", "stored", "deleted"},
        enabled : BOOLEAN,
        auth    : {"active", "reauth"},
        health  : {"unknown", "healthy", "unhealthy"},
        cooling : BOOLEAN,
        limit   : Limits]

(* What the row is marked with: a use (or nothing), a 401, or a failure that
   is not permanent, which a 403, a 429 and no response at all are. *)
Answer == {"ok", "unauthorized", "failed"}

Holding == {"leased", "call", "save", "mark", "close"}
Holders(a) == {r \in Requests : pc[r] \in Holding /\ on[r] = a}

TypeRequests ==
  /\ pc \in [Requests -> {"idle", "listed"} \cup Holding]
  /\ on \in [Requests -> Accounts \cup {NoAccount}]
  /\ \A r \in Requests : pc[r] \in Holding => on[r] \in Accounts
  /\ lim \in [Requests -> Limits \cup {0}]
  /\ seen \in [Requests -> [Accounts -> Limits \cup {0}]]
  /\ answer \in [Requests -> Answer \cup {"none"}]

TypeSweeps ==
  /\ healthRunning \in BOOLEAN
  /\ sweep \in [Sweeps -> {"off", "live", "cancelled"}]
  /\ chk \in [Sweeps -> [Accounts -> {"none", "todo", "call", "save", "mark"}]]
  /\ verdict \in [Sweeps -> [Accounts -> {"none", "healthy", "failed", "unauthorized"}]]

TypeOK ==
  /\ row \in [Accounts -> Row]
  /\ leases \in [Accounts -> Nat]
  /\ TypeRequests /\ TypeSweeps

NewRow == [status |-> "new", enabled |-> TRUE, auth |-> "active",
           health |-> "unknown", cooling |-> FALSE, limit |-> DefaultLimit]
NothingSeen == [a \in Accounts |-> 0]

Init ==
  /\ row = [a \in Accounts |-> NewRow]
  /\ leases = [a \in Accounts |-> 0]
  /\ pc = [r \in Requests |-> "idle"]
  /\ on = [r \in Requests |-> NoAccount]
  /\ lim = [r \in Requests |-> 0]
  /\ seen = [r \in Requests |-> NothingSeen]
  /\ answer = [r \in Requests |-> "none"]
  /\ healthRunning = FALSE
  /\ sweep = [s \in Sweeps |-> "off"]
  /\ chk = [s \in Sweeps |-> [a \in Accounts |-> "none"]]
  /\ verdict = [s \in Sweeps |-> [a \in Accounts |-> "none"]]

-----------------------------------------------------------------------------
(* The statements of the store. *)

Stored(a) == row[a].status = "stored"

(* Mutant: the write inserts the row when it is gone. *)
WriteOrInsert(a, new) ==
  /\ row[a].status # "new"
  /\ row' = [row EXCEPT ![a] = IF Stored(a) THEN new ELSE [new EXCEPT !.status = "stored"]]

(* UPDATE ... WHERE id = ?, and requireChanged: it fails on a deleted row. *)
Write(a, new) == Stored(a) /\ row' = [row EXCEPT ![a] = new]

(* UpdateCredentialTokens *)
WithTokens(a) == [row[a] EXCEPT !.auth = "active", !.cooling = FALSE]

(* MarkAccountFailure and MarkAccountUsed.  A failure that is not permanent
   writes auth_status = active, whatever it was. *)
WithAnswer(a, ans) ==
  IF ans = "ok" THEN row[a]
  ELSE [row[a] EXCEPT !.auth = IF ans = "unauthorized" THEN "reauth" ELSE "active",
                      !.cooling = TRUE]

(* UpdateAccountHealth; only a refusal for authentication asks for a new login. *)
WithVerdict(a, v) ==
  [row[a] EXCEPT !.health = IF v = "healthy" THEN "healthy" ELSE "unhealthy",
                 !.auth = IF v = "unauthorized" THEN "reauth" ELSE "active"]

Eligible(a) ==
  /\ Stored(a) /\ row[a].enabled
  /\ row[a].auth = "active" /\ row[a].health # "unhealthy" /\ ~row[a].cooling

-----------------------------------------------------------------------------
(* A request: Selector.Acquire, then handleResponsesPath. *)

Goto(r, step) == pc' = [pc EXCEPT ![r] = step]

List(r) ==
  /\ pc[r] = "idle"
  /\ seen' = [seen EXCEPT ![r] = [a \in Accounts |-> IF Eligible(a) THEN row[a].limit ELSE 0]]
  /\ Goto(r, "listed")
  /\ UNCHANGED <<row, leases, on, lim, answer, sweepVars>>

(* Mutant: a lease more than the limit. *)
PickOneMore(r, a) ==
  /\ pc[r] = "listed" /\ seen[r][a] > 0
  /\ leases[a] <= seen[r][a]
  /\ leases' = [leases EXCEPT ![a] = @ + 1]
  /\ on' = [on EXCEPT ![r] = a]
  /\ lim' = [lim EXCEPT ![r] = seen[r][a]]
  /\ seen' = [seen EXCEPT ![r] = NothingSeen]
  /\ Goto(r, "leased")
  /\ UNCHANGED <<row, answer, sweepVars>>

(* Under the lock; which of the accounts, by last use, is left open. *)
Pick(r, a) ==
  /\ pc[r] = "listed" /\ seen[r][a] > 0
  /\ leases[a] < seen[r][a]
  /\ leases' = [leases EXCEPT ![a] = @ + 1]
  /\ on' = [on EXCEPT ![r] = a]
  /\ lim' = [lim EXCEPT ![r] = seen[r][a]]
  /\ seen' = [seen EXCEPT ![r] = NothingSeen]
  /\ Goto(r, "leased")
  /\ UNCHANGED <<row, answer, sweepVars>>

(* ErrNoAvailableAccount *)
Refuse(r) ==
  /\ pc[r] = "listed"
  /\ \A a \in Accounts : leases[a] >= seen[r][a]
  /\ seen' = [seen EXCEPT ![r] = NothingSeen]
  /\ Goto(r, "idle")
  /\ UNCHANGED <<row, leases, on, lim, answer, sweepVars>>

(* release, and the request is over *)
Release(r) ==
  /\ leases' = [leases EXCEPT ![on[r]] = @ - 1]
  /\ on' = [on EXCEPT ![r] = NoAccount]
  /\ lim' = [lim EXCEPT ![r] = 0]
  /\ Goto(r, "idle")

(* GetCredential.  It does not look at enabled: a listed account is used. *)
Load(r) ==
  /\ pc[r] = "leased" /\ Stored(on[r])
  /\ Goto(r, "call")
  /\ UNCHANGED <<row, leases, on, lim, seen, answer, sweepVars>>

(* Mutant: the error path of Acquire does not release. *)
LoadFailKeepsLease(r) ==
  /\ pc[r] = "leased"
  /\ on' = [on EXCEPT ![r] = NoAccount]
  /\ lim' = [lim EXCEPT ![r] = 0]
  /\ Goto(r, "idle")
  /\ UNCHANGED <<row, leases, seen, answer, sweepVars>>

LoadFail(r) ==
  /\ pc[r] = "leased"
  /\ Release(r)
  /\ UNCHANGED <<row, seen, answer, sweepVars>>

(* Forward: a refresh before the call when the token has expired, one after a
   401.  A 401 is final only for want of a refresh token or after a refresh.
   Without a response the handler forgets what was refreshed. *)
Forward(r) ==
  /\ pc[r] = "call"
  /\ \/ /\ answer' = [answer EXCEPT ![r] = "failed"]
        /\ Goto(r, "mark")
     \/ \E renewed \in BOOLEAN, ans \in Answer :
          /\ renewed => on[r] \in Renewable
          /\ (ans = "unauthorized" /\ on[r] \in Renewable) => renewed
          /\ answer' = [answer EXCEPT ![r] = ans]
          /\ Goto(r, IF renewed THEN "save" ELSE "mark")
  /\ UNCHANGED <<row, leases, on, lim, seen, sweepVars>>

Save(r) ==
  /\ pc[r] = "save"
  /\ Write(on[r], WithTokens(on[r]))
  /\ Goto(r, "mark")
  /\ UNCHANGED <<leases, on, lim, seen, answer, sweepVars>>

(* Mutant: the error path releases the lease, and so does the deferred call. *)
SaveFailReleases(r) ==
  /\ pc[r] = "save"
  /\ Goto(r, "close")
  /\ leases' = [leases EXCEPT ![on[r]] = @ - 1]
  /\ answer' = [answer EXCEPT ![r] = "none"]
  /\ UNCHANGED <<row, on, lim, seen, sweepVars>>

(* 500, and the response is dropped. *)
SaveFail(r) ==
  /\ pc[r] = "save"
  /\ Goto(r, "close")
  /\ answer' = [answer EXCEPT ![r] = "none"]
  /\ UNCHANGED <<row, leases, on, lim, seen, sweepVars>>

Mark(r) ==
  /\ pc[r] = "mark"
  /\ Write(on[r], WithAnswer(on[r], answer[r]))
  /\ Goto(r, "close")
  /\ answer' = [answer EXCEPT ![r] = "none"]
  /\ UNCHANGED <<leases, on, lim, seen, sweepVars>>

(* Mutant: a mark that fails is tried again. *)
MarkFailRetries(r) ==
  /\ pc[r] = "mark"
  /\ UNCHANGED vars

(* The error of a mark is ignored. *)
MarkFail(r) ==
  /\ pc[r] = "mark"
  /\ Goto(r, "close")
  /\ answer' = [answer EXCEPT ![r] = "none"]
  /\ UNCHANGED <<row, leases, on, lim, seen, sweepVars>>

(* The response is copied to the client; the deferred release runs. *)
Close(r) ==
  /\ pc[r] = "close"
  /\ Release(r)
  /\ UNCHANGED <<row, seen, answer, sweepVars>>

-----------------------------------------------------------------------------
(* A health sweep: CheckAccounts and checkAccount. *)

Check(s, a, step) == chk' = [chk EXCEPT ![s][a] = step]

(* Mutant: the flag is set without a look at it. *)
SweepBeginAnyway(s) ==
  /\ sweep[s] = "off"
  /\ healthRunning' = TRUE
  /\ sweep' = [sweep EXCEPT ![s] = "live"]
  /\ chk' = [chk EXCEPT ![s] = [a \in Accounts |-> IF Stored(a) /\ row[a].enabled
                                                   THEN "todo" ELSE "none"]]
  /\ UNCHANGED <<row, leases, requestVars, verdict>>

(* The CAS on healthRunning, then the listing. *)
SweepBegin(s) ==
  /\ sweep[s] = "off" /\ ~healthRunning
  /\ healthRunning' = TRUE
  /\ sweep' = [sweep EXCEPT ![s] = "live"]
  /\ chk' = [chk EXCEPT ![s] = [a \in Accounts |-> IF Stored(a) /\ row[a].enabled
                                                   THEN "todo" ELSE "none"]]
  /\ UNCHANGED <<row, leases, requestVars, verdict>>

(* ConfigureHealthChecks, StopHealthChecks, or the operator's five minutes. *)
SweepCancel(s) ==
  /\ sweep[s] = "live"
  /\ sweep' = [sweep EXCEPT ![s] = "cancelled"]
  /\ UNCHANGED <<row, leases, requestVars, healthRunning, chk, verdict>>

(* The dispatcher gives up ... *)
CheckDrop(s, a) ==
  /\ sweep[s] = "cancelled" /\ chk[s][a] = "todo"
  /\ Check(s, a, "none")
  /\ UNCHANGED <<row, leases, requestVars, healthRunning, sweep, verdict>>

(* ... or a worker takes the account. *)
CheckLoad(s, a) ==
  /\ chk[s][a] = "todo" /\ sweep[s] = "live" /\ Stored(a)
  /\ Check(s, a, "call")
  /\ UNCHANGED <<row, leases, requestVars, healthRunning, sweep, verdict>>

(* GetCredential fails: no such row, a busy database, or a cancelled sweep. *)
CheckLoadFail(s, a) ==
  /\ chk[s][a] = "todo"
  /\ Check(s, a, "mark")
  /\ verdict' = [verdict EXCEPT ![s][a] = "failed"]
  /\ UNCHANGED <<row, leases, requestVars, healthRunning, sweep>>

(* CheckHealth; a cancelled check has failed, a refresh may have come before. *)
CheckCall(s, a) ==
  /\ chk[s][a] = "call"
  /\ \E renewed \in BOOLEAN, v \in {"healthy", "failed", "unauthorized"} :
       /\ renewed => a \in Renewable
       /\ v = "healthy" => sweep[s] = "live"
       /\ verdict' = [verdict EXCEPT ![s][a] = v]
       /\ Check(s, a, IF renewed THEN "save" ELSE "mark")
  /\ UNCHANGED <<row, leases, requestVars, healthRunning, sweep>>

CheckSave(s, a) ==
  /\ chk[s][a] = "save"
  /\ Write(a, WithTokens(a))
  /\ Check(s, a, "mark")
  /\ UNCHANGED <<leases, requestVars, healthRunning, sweep, verdict>>

(* The error of the save replaces a good verdict. *)
CheckSaveFail(s, a) ==
  /\ chk[s][a] = "save"
  /\ Check(s, a, "mark")
  /\ verdict' = [verdict EXCEPT ![s][a] = IF @ = "healthy" THEN "failed" ELSE @]
  /\ UNCHANGED <<row, leases, requestVars, healthRunning, sweep>>

CheckMark(s, a) ==
  /\ chk[s][a] = "mark"
  /\ Write(a, WithVerdict(a, verdict[s][a]))
  /\ Check(s, a, "none")
  /\ verdict' = [verdict EXCEPT ![s][a] = "none"]
  /\ UNCHANGED <<leases, requestVars, healthRunning, sweep>>

CheckMarkFail(s, a) ==
  /\ chk[s][a] = "mark"
  /\ Check(s, a, "none")
  /\ verdict' = [verdict EXCEPT ![s][a] = "none"]
  /\ UNCHANGED <<row, leases, requestVars, healthRunning, sweep>>

(* Mutant: a cancelled sweep returns before the flag is reset. *)
SweepEndUnlessCancelled(s) ==
  /\ sweep[s] # "off" /\ \A a \in Accounts : chk[s][a] = "none"
  /\ healthRunning' = (sweep[s] = "cancelled")
  /\ sweep' = [sweep EXCEPT ![s] = "off"]
  /\ UNCHANGED <<row, leases, requestVars, chk, verdict>>

(* Every result is in; the deferred reset of the flag. *)
SweepEnd(s) ==
  /\ sweep[s] # "off" /\ \A a \in Accounts : chk[s][a] = "none"
  /\ healthRunning' = FALSE
  /\ sweep' = [sweep EXCEPT ![s] = "off"]
  /\ UNCHANGED <<row, leases, requestVars, chk, verdict>>

-----------------------------------------------------------------------------
(* The operator, imports and time. *)

UpdateAccount(a) ==
  /\ \E on1 \in BOOLEAN, n \in Limits :
       Write(a, [row[a] EXCEPT !.enabled = on1, !.limit = n])
  /\ UNCHANGED <<leases, requestVars, sweepVars>>

DeleteAccount(a) ==
  /\ Write(a, [NewRow EXCEPT !.status = "deleted"])
  /\ UNCHANGED <<leases, requestVars, sweepVars>>

(* Mutant: an import declares the account healthy again. *)
ImportResetsHealth(a) ==
  /\ row[a].status \in {"new", "stored"}
  /\ row' = [row EXCEPT ![a] = [@ EXCEPT !.status = "stored", !.auth = "active",
                                        !.cooling = FALSE, !.health = "unknown"]]
  /\ UNCHANGED <<leases, requestVars, sweepVars>>

(* UpsertAccount, from the engine's sink or a file: a new row, or new tokens
   for a known account, whose health, limit and enabled flag are kept. *)
Import(a) ==
  /\ row[a].status \in {"new", "stored"}
  /\ row' = [row EXCEPT ![a] = [@ EXCEPT !.status = "stored", !.auth = "active",
                                        !.cooling = FALSE]]
  /\ UNCHANGED <<leases, requestVars, sweepVars>>

(* cooldown_until passes. *)
CoolOff(a) ==
  /\ row[a].cooling
  /\ Write(a, [row[a] EXCEPT !.cooling = FALSE])
  /\ UNCHANGED <<leases, requestVars, sweepVars>>

-----------------------------------------------------------------------------
Serve(r) ==
  \/ Refuse(r) \/ (\E a \in Accounts : Pick(r, a))
  \/ Load(r) \/ LoadFail(r) \/ Forward(r)
  \/ Save(r) \/ SaveFail(r) \/ Mark(r) \/ MarkFail(r) \/ Close(r)
CheckOne(s, a) ==
  \/ CheckDrop(s, a) \/ CheckLoad(s, a) \/ CheckLoadFail(s, a) \/ CheckCall(s, a)
  \/ CheckSave(s, a) \/ CheckSaveFail(s, a) \/ CheckMark(s, a) \/ CheckMarkFail(s, a)
Operate(a) == UpdateAccount(a) \/ DeleteAccount(a) \/ Import(a) \/ CoolOff(a)

Next ==
  \/ \E r \in Requests : List(r) \/ Serve(r)
  \/ \E s \in Sweeps : SweepBegin(s) \/ SweepCancel(s) \/ SweepEnd(s)
                       \/ \E a \in Accounts : CheckOne(s, a)
  \/ \E a \in Accounts : Operate(a)

Spec == Init /\ [][Next]_vars

(* Handlers run on: the provider answers or times out, a client goes away in
   the end.  A check is limited to 15 s. *)
FairSpec ==
  /\ Spec
  /\ \A r \in Requests : WF_vars(Serve(r))
  /\ \A s \in Sweeps : WF_vars(SweepEnd(s))
  /\ \A s \in Sweeps, a \in Accounts : WF_vars(CheckOne(s, a))

-----------------------------------------------------------------------------
(* Properties. *)

(* The lease count of an account is the requests that hold it, whatever became
   of its row: every path out of Acquire and of the handler releases once. *)
LeasesAccounted == \A a \in Accounts : leases[a] = Cardinality(Holders(a))

(* However requests race with each other and with changes of the limit: among
   any requests that hold an account together, one was admitted under a limit
   no smaller than their number.  With a limit nobody changes, it is never
   exceeded. *)
AdmissionBound ==
  \A a \in Accounts : \A H \in SUBSET Holders(a) :
    H # {} => \E r \in H : Cardinality(H) <= lim[r]

(* An account is never under two health checks: their verdicts and tokens cannot
   overwrite one another. *)
OneCheckPerAccount ==
  \A s1, s2 \in Sweeps : s1 # s2 =>
    \A a \in Accounts : chk[s1][a] = "none" \/ chk[s2][a] = "none"

(* No request or sweep in flight brings a deleted account back. *)
DeletedStaysDeleted ==
  [][\A a \in Accounts : row[a].status = "deleted" => row'[a] = row[a]]_vars

(* selector_test.go "SkipsUnhealthyAccountUntilRecovery": only a check that
   found the account healthy makes it selectable again; refreshed tokens, a
   request still in flight or an import do not. *)
UnhealthyUntilChecked ==
  [][\A a \in Accounts :
       row[a].health = "unhealthy" /\ row'[a].health # "unhealthy" /\ row'[a].status = "stored"
         => \E s \in Sweeps : chk[s][a] = "mark" /\ verdict[s][a] = "healthy"]_vars

(* Every lease is given back, also when the account was deleted meanwhile. *)
LeasesReturned ==
  \A r \in Requests : pc[r] \in Holding ~> pc[r] = "idle"

(* A sweep ends, so that the next one can run. *)
SweepEnds == healthRunning ~> ~healthRunning

(* embedded-build-api.md:58 "Verify selection never exceeds per-account
   concurrency": a lease is granted only below the account's limit. *)
SelectionWithinLimit ==
  [][\A a \in Accounts : leases'[a] > leases[a] => leases'[a] <= row[a].limit]_vars
=============================================================================
