------------------------------ MODULE Pipeline ------------------------------
(***************************************************************************)
(* The registration engine of internal/pipeline: four pools of Width       *)
(* workers (S mints tokens, P prepares verified mailboxes, C signs up,     *)
(* OAuth exchanges and exports), the T/Q inventory between them, the seat  *)
(* counters done and reserved, and the shutdown sequence of run.           *)
(*                                                                         *)
(* An account attempt is a member of Attempts; fate says how far it got    *)
(* and by which worker holds it.  Tokens are interchangeable and counted.  *)
(***************************************************************************)
EXTENDS Naturals, FiniteSets

CONSTANTS
  SPool, PPool, CPool, OPool,  \* the workers of each pool
  Width,        \* Engine.width: deriveWorkers gives every pool and queue this size
  Attempts,     \* bound: the account attempts one run may start
  Target,       \* Options.Target
  OAuthCap,     \* capacity of oauthCh (64 in Run)
  ManualOAuth,  \* Options.ManualOAuth: no minimum interval between exchanges
  Expiry,       \* may inventory items outlive their maxAge?
  CallsFail,    \* may the external calls (browser, mail, signup, OAuth) fail?
  LocalFail,    \* may WriteAtomic or the gateway database fail on their own?
  CloseWaits,   \* does the solver's Close wait for its calls (the browser pool's does)?
  NoWorker      \* no worker holds the attempt

ASSUME PipelineAssumption ==
  /\ IsFiniteSet(SPool) /\ IsFiniteSet(PPool) /\ IsFiniteSet(CPool) /\ IsFiniteSet(OPool)
  /\ IsFiniteSet(Attempts)
  /\ NoWorker \notin PPool \cup CPool \cup OPool
  /\ Target \in Nat \ {0}
  /\ Width \in 1..Target   \* deriveWorkers clamps the width to the target
  /\ Cardinality(SPool) <= Width /\ Cardinality(PPool) <= Width
  /\ OAuthCap \in Nat \ {0}
  /\ ManualOAuth \in BOOLEAN /\ Expiry \in BOOLEAN
  /\ CallsFail \in BOOLEAN /\ LocalFail \in BOOLEAN /\ CloseWaits \in BOOLEAN

(* deriveWorkers never derives a width below one. *)
ASSUME SomeWorkerAuthorizes == OPool # {}

VARIABLES
  done, reserved,              \* Engine.done, Engine.reserved
  tFresh, tStale,              \* inventory ts: live tokens, expired but not purged
  tSlots, qSlots,              \* free slots of the inventory's semaphores
  phys, qPending,              \* free slots of the engine's semaphores
  sw, pw, cw, ow,              \* what each S, P, C and OAuth worker is doing
  pd,                          \* the value of done a P worker read in tryReserve
  ran,                         \* OAuth worker has started an exchange (last # zero)
  fate, by,                    \* progress of each attempt, and the worker on it
  main,                        \* where run is: running, drainReg, drainOAuth, closing, finished
  cancelled,                   \* ctx is done
  closed,                      \* oauthCh is closed
  forced,                      \* the wait for the register workers timed out
  rushed,                      \* the wait for the OAuth workers timed out
  crashed                      \* a goroutine panicked: the process is gone

seats == <<done, reserved>>
tokens == <<tFresh, tStale>>
slots == <<tSlots, qSlots>>
sems == <<phys, qPending>>
pools == <<sw, pw, pd, cw, ow, ran>>
control == <<main, cancelled, closed, forced, rushed, crashed>>
vars == <<seats, tokens, slots, sems, pools, fate, by, control>>

(* Attempts by fate.  "stale" is a Q item past its maxAge, not purged yet;
   "released" ended without success and gave its seat back, "leaked" kept it. *)
HeldByP == {"seated", "email", "mailed"}
HeldByC == {"signup", "registered"}
HeldByO == {"delay", "oauth", "probe", "counted", "export"}
InQueue == {"queued", "stale", "handoff"}
Ended == {"ready", "unexported", "released", "leaked"}
Fate == {"unused"} \cup HeldByP \cup HeldByC \cup HeldByO \cup InQueue \cup Ended
With(fates) == {a \in Attempts : fate[a] \in fates}

TypeCounters ==
  /\ done \in Nat /\ reserved \in Nat
  /\ tFresh \in Nat /\ tStale \in Nat
  /\ tSlots \in 0..Width /\ qSlots \in 0..Width
  /\ phys \in 0..Width /\ qPending \in 0..Width

TypeWorkers ==
  /\ sw \in [SPool -> {"idle", "gate", "solving", "put", "exit"}]
  /\ pw \in [PPool -> {"idle", "gate", "reserve", "busy", "exit"}]
  /\ pd \in [PPool -> Nat]
  /\ cw \in [CPool -> {"top", "wait", "busy", "exit"}]
  /\ ow \in [OPool -> {"idle", "busy", "exit"}]
  /\ ran \in [OPool -> BOOLEAN]

TypeFates ==
  /\ fate \in [Attempts -> Fate]
  /\ by \in [Attempts -> PPool \cup CPool \cup OPool \cup {NoWorker}]
  /\ \A a \in Attempts :
       /\ fate[a] \in HeldByP => by[a] \in PPool
       /\ fate[a] \in HeldByC => by[a] \in CPool
       /\ fate[a] \in HeldByO => by[a] \in OPool

TypeControl ==
  /\ main \in {"running", "drainReg", "drainOAuth", "closing", "finished"}
  /\ cancelled \in BOOLEAN /\ closed \in BOOLEAN
  /\ forced \in BOOLEAN /\ rushed \in BOOLEAN /\ crashed \in BOOLEAN

TypeOK == TypeCounters /\ TypeWorkers /\ TypeFates /\ TypeControl

Init ==
  /\ done = 0 /\ reserved = 0
  /\ tFresh = 0 /\ tStale = 0
  /\ tSlots = Width /\ qSlots = Width
  /\ phys = Width /\ qPending = Width
  /\ sw = [w \in SPool |-> "idle"]
  /\ pw = [w \in PPool |-> "idle"]
  /\ pd = [w \in PPool |-> 0]
  /\ cw = [w \in CPool |-> "top"]
  /\ ow = [w \in OPool |-> "idle"]
  /\ ran = [w \in OPool |-> FALSE]
  /\ fate = [a \in Attempts |-> "unused"]
  /\ by = [a \in Attempts |-> NoWorker]
  /\ main = "running"
  /\ cancelled = FALSE /\ closed = FALSE
  /\ forced = FALSE /\ rushed = FALSE /\ crashed = FALSE

-----------------------------------------------------------------------------
(* The pieces the handlers share. *)

(* The process runs: run has not returned and no goroutine has panicked. *)
Alive == main # "finished" /\ ~crashed

(* remainingCapacity *)
Capacity == IF done + reserved >= Target THEN 0 ELSE Target - (done + reserved)

AtLeastOne(n) == IF n < 1 THEN 1 ELSE n

(* releaseReserve: the CAS loop never takes reserved below zero. *)
ReleaseReserve == reserved' = IF reserved > 0 THEN reserved - 1 ELSE 0

(* Semaphore.Release drops what does not fit the channel. *)
Freed(free, n) == IF free + n > Width THEN Width ELSE free + n

(* purgeLocked: expired items leave the inventory and free their slots. *)
Purged == [a \in Attempts |-> IF fate[a] = "stale" THEN "leaked" ELSE fate[a]]
QFreed(free) == Freed(free, Cardinality(With({"stale"})))
TFreed(free) == Freed(free, tStale)

(* The attempt goes on to the next fate with (or without) a worker. *)
Move(a, f, w) ==
  /\ fate' = [fate EXCEPT ![a] = f]
  /\ by' = [by EXCEPT ![a] = w]

Holds(w, a, f) == fate[a] = f /\ by[a] = w

-----------------------------------------------------------------------------
(* sWorker *)

SStop(w) ==
  /\ Alive
  /\ \/ sw[w] = "idle" /\ (cancelled \/ done >= Target)
     \/ sw[w] = "gate" /\ cancelled
  /\ sw' = [sw EXCEPT ![w] = "exit"]
  /\ UNCHANGED <<seats, tokens, slots, sems, pw, pd, cw, ow, ran, fate, by, control>>

(* Capacity is left.  It may be gone when the worker looks at the depth. *)
SGate(w) ==
  /\ Alive /\ sw[w] = "idle" /\ Capacity > 0
  /\ sw' = [sw EXCEPT ![w] = "gate"]
  /\ UNCHANGED <<seats, tokens, slots, sems, pw, pd, cw, ow, ran, fate, by, control>>

(* Enough tokens wait. *)
SEnough(w) ==
  /\ Alive /\ sw[w] = "gate" /\ tFresh >= AtLeastOne(Capacity)
  /\ sw' = [sw EXCEPT ![w] = IF cancelled THEN "exit" ELSE "idle"]
  /\ fate' = Purged /\ tStale' = 0
  /\ tSlots' = TFreed(tSlots) /\ qSlots' = QFreed(qSlots)
  /\ UNCHANGED <<seats, tFresh, sems, pw, pd, cw, ow, ran, by, control>>

(* Fewer do: take a browser.  Acquire never blocks here, phys has a slot for
   each S worker (SlotsConserved). *)
SStart(w) ==
  /\ Alive /\ sw[w] = "gate" /\ ~cancelled
  /\ tFresh < AtLeastOne(Capacity)
  /\ phys > 0
  /\ phys' = phys - 1
  /\ sw' = [sw EXCEPT ![w] = "solving"]
  /\ fate' = Purged /\ tStale' = 0
  /\ tSlots' = TFreed(tSlots) /\ qSlots' = QFreed(qSlots)
  /\ UNCHANGED <<seats, tFresh, qPending, pw, pd, cw, ow, ran, by, control>>

(* The browser is released whether or not it delivered a token. *)
SSolve(w) ==
  /\ Alive /\ sw[w] = "solving"
  /\ phys' = Freed(phys, 1)
  /\ \/ sw' = [sw EXCEPT ![w] = "put"]
     \/ /\ CallsFail \/ cancelled
        /\ sw' = [sw EXCEPT ![w] = "idle"]
  /\ UNCHANGED <<seats, tokens, slots, qPending, pw, pd, cw, ow, ran, fate, by, control>>

SPutTCancelled(w) ==
  /\ Alive /\ sw[w] = "put" /\ cancelled
  /\ sw' = [sw EXCEPT ![w] = "exit"]
  /\ UNCHANGED <<seats, tokens, slots, sems, pw, pd, cw, ow, ran, fate, by, control>>

(* Mutant: PutT acquires a token slot twice. *)
SPutTTwoSlots(w) ==
  /\ Alive /\ sw[w] = "put" /\ tSlots > 0
  /\ sw' = [sw EXCEPT ![w] = "idle"]
  /\ tFresh' = tFresh + 1 /\ tStale' = 0
  /\ fate' = Purged
  /\ tSlots' = TFreed(tSlots - 2) /\ qSlots' = QFreed(qSlots)
  /\ UNCHANGED <<seats, sems, pw, pd, cw, ow, ran, by, control>>

SPutT(w) ==
  /\ Alive /\ sw[w] = "put" /\ tSlots > 0
  /\ sw' = [sw EXCEPT ![w] = "idle"]
  /\ tFresh' = tFresh + 1 /\ tStale' = 0
  /\ fate' = Purged
  /\ tSlots' = TFreed(tSlots - 1) /\ qSlots' = QFreed(qSlots)
  /\ UNCHANGED <<seats, sems, pw, pd, cw, ow, ran, by, control>>

-----------------------------------------------------------------------------
(* pWorker *)

PStop(w) ==
  /\ Alive /\ pw[w] = "idle"
  /\ cancelled \/ done >= Target
  /\ pw' = [pw EXCEPT ![w] = "exit"]
  /\ UNCHANGED <<seats, tokens, slots, sems, sw, pd, cw, ow, ran, fate, by, control>>

PGate(w) ==
  /\ Alive /\ pw[w] = "idle" /\ ~cancelled /\ done < Target
  /\ Capacity > 0
  /\ pw' = [pw EXCEPT ![w] = "gate"]
  /\ UNCHANGED <<seats, tokens, slots, sems, sw, pd, cw, ow, ran, fate, by, control>>

(* qCap, from a second look at the capacity *)
QCap == AtLeastOne(IF Capacity > Width THEN Width ELSE Capacity)

PEnough(w) ==
  /\ Alive /\ pw[w] = "gate" /\ Cardinality(With({"queued"})) >= QCap
  /\ pw' = [pw EXCEPT ![w] = IF cancelled THEN "exit" ELSE "idle"]
  /\ fate' = Purged /\ tStale' = 0
  /\ tSlots' = TFreed(tSlots) /\ qSlots' = QFreed(qSlots)
  /\ UNCHANGED <<seats, tFresh, sems, sw, pd, cw, ow, ran, by, control>>

(* The gates passed, tryReserve starts by loading done. *)
PStart(w) ==
  /\ Alive /\ pw[w] = "gate" /\ Cardinality(With({"queued"})) < QCap
  /\ pw' = [pw EXCEPT ![w] = "reserve"]
  /\ pd' = [pd EXCEPT ![w] = done]
  /\ fate' = Purged /\ tStale' = 0
  /\ tSlots' = TFreed(tSlots) /\ qSlots' = QFreed(qSlots)
  /\ UNCHANGED <<seats, tFresh, sems, sw, cw, ow, ran, by, control>>

(* A failed CAS on reserved sends tryReserve back to loading done. *)
PReload(w) ==
  /\ Alive /\ pw[w] = "reserve" /\ pd[w] # done
  /\ pd' = [pd EXCEPT ![w] = done]
  /\ UNCHANGED <<seats, tokens, slots, sems, sw, pw, cw, ow, ran, fate, by, control>>

(* Load reserved, compare with the done read before, CAS.  The CAS succeeds
   only on an unchanged reserved, so this is one step; done may be old. *)
PReserve(w) ==
  /\ Alive /\ pw[w] = "reserve"
  /\ pd' = [pd EXCEPT ![w] = 0]
  /\ \/ /\ pd[w] + reserved < Target
        /\ reserved' = reserved + 1
        /\ \E a \in With({"unused"}) : Move(a, "seated", w)
        /\ pw' = [pw EXCEPT ![w] = "busy"]
     \/ /\ pd[w] + reserved >= Target \/ With({"unused"}) = {}   \* bound: Attempts
        /\ pw' = [pw EXCEPT ![w] = "idle"]
        /\ UNCHANGED <<reserved, fate, by>>
  /\ UNCHANGED <<done, tokens, slots, sems, sw, cw, ow, ran, control>>

PAcquire(w, a) ==
  /\ Alive /\ Holds(w, a, "seated") /\ qPending > 0
  /\ qPending' = qPending - 1
  /\ Move(a, "email", w)
  /\ UNCHANGED <<seats, tokens, slots, phys, pools, control>>

PAcquireCancelled(w, a) ==
  /\ Alive /\ Holds(w, a, "seated") /\ cancelled
  /\ ReleaseReserve
  /\ Move(a, "released", NoWorker)
  /\ pw' = [pw EXCEPT ![w] = "exit"]
  /\ UNCHANGED <<done, tokens, slots, sems, sw, pd, cw, ow, ran, control>>

(* mail.Create, CreateEmailCode and PollCode, which do not watch ctx. *)
PMailFail(w, a) ==
  /\ Alive /\ Holds(w, a, "email") /\ CallsFail
  /\ qPending' = Freed(qPending, 1)
  /\ ReleaseReserve
  /\ Move(a, "released", NoWorker)
  /\ pw' = [pw EXCEPT ![w] = "idle"]
  /\ UNCHANGED <<done, tokens, slots, phys, sw, pd, cw, ow, ran, control>>

PMail(w, a) ==
  /\ Alive /\ Holds(w, a, "email")
  /\ Move(a, "mailed", w)
  /\ UNCHANGED <<seats, tokens, slots, sems, pools, control>>

(* PutQ; the seat stays reserved. *)
PPutQ(w, a) ==
  /\ Alive /\ Holds(w, a, "mailed") /\ qSlots > 0
  /\ qPending' = Freed(qPending, 1)
  /\ fate' = [Purged EXCEPT ![a] = "queued"]
  /\ by' = [by EXCEPT ![a] = NoWorker]
  /\ tStale' = 0
  /\ tSlots' = TFreed(tSlots) /\ qSlots' = QFreed(qSlots - 1)
  /\ pw' = [pw EXCEPT ![w] = "idle"]
  /\ UNCHANGED <<seats, tFresh, phys, sw, pd, cw, ow, ran, control>>

PPutQCancelled(w, a) ==
  /\ Alive /\ Holds(w, a, "mailed") /\ cancelled
  /\ qPending' = Freed(qPending, 1)
  /\ ReleaseReserve
  /\ Move(a, "released", NoWorker)
  /\ pw' = [pw EXCEPT ![w] = "exit"]
  /\ UNCHANGED <<done, tokens, slots, phys, sw, pd, cw, ow, ran, control>>

-----------------------------------------------------------------------------
(* cWorker *)

CStop(w) ==
  /\ Alive
  /\ \/ cw[w] = "top" /\ done >= Target
     \/ cw[w] = "wait" /\ cancelled
  /\ cw' = [cw EXCEPT ![w] = "exit"]
  /\ UNCHANGED <<seats, tokens, slots, sems, sw, pw, pd, ow, ran, fate, by, control>>

(* ClaimPair looks, purges and finds no pair: it waits for a signal. *)
CWait(w) ==
  /\ Alive /\ cw[w] = "top" /\ done < Target
  /\ tFresh = 0 \/ With({"queued"}) = {}
  /\ cw' = [cw EXCEPT ![w] = "wait"]
  /\ fate' = Purged /\ tStale' = 0
  /\ tSlots' = TFreed(tSlots) /\ qSlots' = QFreed(qSlots)
  /\ UNCHANGED <<seats, tFresh, sems, sw, pw, pd, ow, ran, by, control>>

(* ClaimPair takes a token and a mailbox together; their slots stay taken. *)
CClaim(w, a) ==
  /\ Alive /\ (cw[w] = "wait" \/ (cw[w] = "top" /\ done < Target))
  /\ tFresh > 0 /\ fate[a] = "queued"
  /\ cw' = [cw EXCEPT ![w] = "busy"]
  /\ fate' = [Purged EXCEPT ![a] = "signup"]
  /\ by' = [by EXCEPT ![a] = w]
  /\ tFresh' = tFresh - 1 /\ tStale' = 0
  /\ tSlots' = TFreed(tSlots) /\ qSlots' = QFreed(qSlots)
  /\ UNCHANGED <<seats, sems, sw, pw, pd, ow, ran, control>>

(* Mutant: the pair is not released when the signup is refused. *)
CRefusedKeepsPair(w, a) ==
  /\ Alive /\ Holds(w, a, "signup") /\ CallsFail
  /\ ReleaseReserve
  /\ Move(a, "released", NoWorker)
  /\ cw' = [cw EXCEPT ![w] = "top"]
  /\ UNCHANGED <<done, tokens, slots, sems, sw, pw, pd, ow, ran, control>>

(* VerifyEmailCode or SignupServerAction is refused. *)
CRefused(w, a) ==
  /\ Alive /\ Holds(w, a, "signup") /\ CallsFail
  /\ tSlots' = Freed(tSlots, 1) /\ qSlots' = Freed(qSlots, 1)
  /\ ReleaseReserve
  /\ Move(a, "released", NoWorker)
  /\ cw' = [cw EXCEPT ![w] = "top"]
  /\ UNCHANGED <<done, tokens, sems, sw, pw, pd, ow, ran, control>>

CSignup(w, a) ==
  /\ Alive /\ Holds(w, a, "signup")
  /\ tSlots' = Freed(tSlots, 1) /\ qSlots' = Freed(qSlots, 1)
  /\ Move(a, "registered", w)
  /\ UNCHANGED <<seats, tokens, sems, pools, control>>

CSend(w, a) ==
  /\ Alive /\ Holds(w, a, "registered") /\ ~closed
  /\ Cardinality(With({"handoff"})) < OAuthCap
  /\ Move(a, "handoff", NoWorker)
  /\ cw' = [cw EXCEPT ![w] = "top"]
  /\ UNCHANGED <<seats, tokens, slots, sems, sw, pw, pd, ow, ran, control>>

(* Mutant: cancelled while handing over, the seat is not released. *)
CSendCancelledKeepsSeat(w, a) ==
  /\ Alive /\ Holds(w, a, "registered") /\ cancelled
  /\ Move(a, "released", NoWorker)
  /\ cw' = [cw EXCEPT ![w] = "exit"]
  /\ UNCHANGED <<seats, tokens, slots, sems, sw, pw, pd, ow, ran, control>>

(* The select may pick ctx.Done ... *)
CSendCancelled(w, a) ==
  /\ Alive /\ Holds(w, a, "registered") /\ cancelled
  /\ ReleaseReserve
  /\ Move(a, "released", NoWorker)
  /\ cw' = [cw EXCEPT ![w] = "exit"]
  /\ UNCHANGED <<done, tokens, slots, sems, sw, pw, pd, ow, ran, control>>

(* ... or the send, and a send on a closed channel panics. *)
CSendClosed(w, a) ==
  /\ Alive /\ Holds(w, a, "registered") /\ closed
  /\ crashed' = TRUE
  /\ UNCHANGED <<seats, tokens, slots, sems, pools, fate, by, main, cancelled, closed, forced, rushed>>
-----------------------------------------------------------------------------
(* oauthWorker *)

(* Range over oauthCh.  Past the target a job only gives its seat back. *)
OTakeSurplus(w, a) ==
  /\ Alive /\ ow[w] = "idle" /\ fate[a] = "handoff" /\ done >= Target
  /\ ReleaseReserve
  /\ Move(a, "released", NoWorker)
  /\ UNCHANGED <<done, tokens, slots, sems, pools, control>>

(* Mutant: the worker hands the job to a goroutine and takes the next one. *)
OTakeAsync(w, a) ==
  /\ Alive /\ ow[w] = "idle" /\ fate[a] = "handoff" /\ done < Target
  /\ Move(a, IF ran[w] THEN "delay" ELSE "oauth", w)
  /\ ran' = [ran EXCEPT ![w] = ~ManualOAuth]
  /\ UNCHANGED <<seats, tokens, slots, sems, sw, pw, pd, cw, ow, control>>

(* Mutant: the minimum interval applies to manual authorizations too. *)
OTakeAlwaysSpaced(w, a) ==
  /\ Alive /\ ow[w] = "idle" /\ fate[a] = "handoff" /\ done < Target
  /\ Move(a, IF ran[w] THEN "delay" ELSE "oauth", w)
  /\ ow' = [ow EXCEPT ![w] = "busy"]
  /\ ran' = [ran EXCEPT ![w] = TRUE]
  /\ UNCHANGED <<seats, tokens, slots, sems, sw, pw, pd, cw, control>>

(* The automatic flow spaces a worker's exchanges by the minimum interval. *)
OTake(w, a) ==
  /\ Alive /\ ow[w] = "idle" /\ fate[a] = "handoff" /\ done < Target
  /\ Move(a, IF ran[w] THEN "delay" ELSE "oauth", w)
  /\ ow' = [ow EXCEPT ![w] = "busy"]
  /\ ran' = [ran EXCEPT ![w] = ~ManualOAuth]
  /\ UNCHANGED <<seats, tokens, slots, sems, sw, pw, pd, cw, control>>

ODelay(w, a) ==
  /\ Alive /\ Holds(w, a, "delay")
  /\ Move(a, "oauth", w)
  /\ UNCHANGED <<seats, tokens, slots, sems, pools, control>>

(* ctx.Done during the interval: the worker returns, the seat stays taken. *)
ODelayCancelled(w, a) ==
  /\ Alive /\ Holds(w, a, "delay") /\ cancelled
  /\ Move(a, "leaked", NoWorker)
  /\ ow' = [ow EXCEPT ![w] = "exit"]
  /\ UNCHANGED <<seats, tokens, slots, sems, sw, pw, pd, cw, ran, control>>

(* Exchange, or Enqueue and WaitAuthorized: both give up when ctx is done. *)
OAuthFail(w, a) ==
  /\ Alive /\ Holds(w, a, "oauth") /\ (CallsFail \/ cancelled)
  /\ ReleaseReserve
  /\ Move(a, "released", NoWorker)
  /\ ow' = [ow EXCEPT ![w] = "idle"]
  /\ UNCHANGED <<done, tokens, slots, sems, sw, pw, pd, cw, ran, control>>

(* WaitAuthorized reads the task before it looks at ctx; Exchange does not. *)
OAuthOk(w, a) ==
  /\ Alive /\ Holds(w, a, "oauth") /\ (ManualOAuth \/ ~cancelled)
  /\ Move(a, "probe", w)
  /\ UNCHANGED <<seats, tokens, slots, sems, pools, control>>

(* Probe does not watch ctx. *)
OProbeFail(w, a) ==
  /\ Alive /\ Holds(w, a, "probe") /\ CallsFail
  /\ ReleaseReserve
  /\ Move(a, "released", NoWorker)
  /\ ow' = [ow EXCEPT ![w] = "idle"]
  /\ UNCHANGED <<done, tokens, slots, sems, sw, pw, pd, cw, ran, control>>

(* Mutant: tryComplete does not look at the target. *)
OCompleteUnchecked(w, a) ==
  /\ Alive /\ Holds(w, a, "probe")
  /\ done' = done + 1
  /\ Move(a, "counted", w)
  /\ UNCHANGED <<reserved, tokens, slots, sems, pools, control>>

(* The probe succeeds.  tryComplete: the CAS on done, then releaseReserve (OSettle) ... *)
OComplete(w, a) ==
  /\ Alive /\ Holds(w, a, "probe") /\ done < Target
  /\ done' = done + 1
  /\ Move(a, "counted", w)
  /\ UNCHANGED <<reserved, tokens, slots, sems, pools, control>>

OSettle(w, a) ==
  /\ Alive /\ Holds(w, a, "counted")
  /\ ReleaseReserve
  /\ Move(a, "export", w)
  /\ UNCHANGED <<done, tokens, slots, sems, pools, control>>

(* ... or the target is already met and the account is discarded. *)
OSurplus(w, a) ==
  /\ Alive /\ Holds(w, a, "probe") /\ done >= Target
  /\ ReleaseReserve
  /\ Move(a, "released", NoWorker)
  /\ ow' = [ow EXCEPT ![w] = "idle"]
  /\ UNCHANGED <<done, tokens, slots, sems, sw, pw, pd, cw, ran, control>>

(* The CPA file cannot be written: the account stays counted. *)
OWriteFail(w, a) ==
  /\ Alive /\ Holds(w, a, "export") /\ LocalFail
  /\ Move(a, "unexported", NoWorker)
  /\ ow' = [ow EXCEPT ![w] = "idle"]
  /\ UNCHANGED <<seats, tokens, slots, sems, sw, pw, pd, cw, ran, control>>

(* Mutant: a failed import takes the success back. *)
OExportDemotes(w, a) ==
  /\ Alive /\ Holds(w, a, "export")
  /\ \/ ~cancelled /\ fate' = [Purged EXCEPT ![a] = "ready"]
     \/ (cancelled \/ LocalFail) /\ fate' = [Purged EXCEPT ![a] = "released"]
  /\ by' = [by EXCEPT ![a] = NoWorker]
  /\ tStale' = 0
  /\ tSlots' = TFreed(tSlots) /\ qSlots' = QFreed(qSlots)
  /\ ow' = [ow EXCEPT ![w] = "idle"]
  /\ UNCHANGED <<seats, tFresh, sems, sw, pw, pd, cw, ran, control>>

(* WriteAtomic, then GatewaySink.Import under ctx, whose error is only logged;
   refreshState then reads Depths, which purges. *)
OExport(w, a) ==
  /\ Alive /\ Holds(w, a, "export")
  /\ \/ ~cancelled /\ fate' = [Purged EXCEPT ![a] = "ready"]
     \/ (cancelled \/ LocalFail) /\ fate' = [Purged EXCEPT ![a] = "unexported"]
  /\ by' = [by EXCEPT ![a] = NoWorker]
  /\ tStale' = 0
  /\ tSlots' = TFreed(tSlots) /\ qSlots' = QFreed(qSlots)
  /\ ow' = [ow EXCEPT ![w] = "idle"]
  /\ UNCHANGED <<seats, tFresh, sems, sw, pw, pd, cw, ran, control>>

OExit(w) ==
  /\ Alive /\ ow[w] = "idle" /\ closed /\ With({"handoff"}) = {}
  /\ ow' = [ow EXCEPT ![w] = "exit"]
  /\ UNCHANGED <<seats, tokens, slots, sems, sw, pw, pd, cw, ran, fate, by, control>>

-----------------------------------------------------------------------------
(* Time, the operator, and run itself. *)

(* An item outlives its maxAge; nothing happens until somebody purges. *)
ExpireT ==
  /\ Alive /\ Expiry /\ tFresh > 0
  /\ tFresh' = tFresh - 1 /\ tStale' = tStale + 1
  /\ UNCHANGED <<seats, slots, sems, pools, fate, by, control>>

ExpireQ(a) ==
  /\ Alive /\ Expiry /\ fate[a] = "queued"
  /\ fate' = [fate EXCEPT ![a] = "stale"]
  /\ UNCHANGED <<seats, tokens, slots, sems, pools, by, control>>

(* Depths from the status ticker, and the 200 ms poll of a waiting ClaimPair,
   purge and change nothing else. *)
Purge ==
  /\ Alive /\ (tStale > 0 \/ With({"stale"}) # {})
  /\ ~cancelled \/ \E w \in CPool : cw[w] = "wait"
  /\ fate' = Purged /\ tStale' = 0
  /\ tSlots' = TFreed(tSlots) /\ qSlots' = QFreed(qSlots)
  /\ UNCHANGED <<seats, tFresh, sems, pools, by, control>>

(* SIGTERM, SIGINT or the stop file. *)
Stop ==
  /\ Alive /\ ~cancelled
  /\ cancelled' = TRUE
  /\ UNCHANGED <<seats, tokens, slots, sems, pools, fate, by, main, closed, forced, rushed, crashed>>

MainLeaveLoop ==
  /\ Alive /\ main = "running" /\ (done >= Target \/ cancelled)
  /\ cancelled' = TRUE
  /\ main' = "drainReg"
  /\ UNCHANGED <<seats, tokens, slots, sems, pools, fate, by, closed, forced, rushed, crashed>>

(* Mutant: the C workers are missing from wgReg. *)
RegistersGoneButC ==
  /\ \A w \in SPool : sw[w] = "exit"
  /\ \A w \in PPool : pw[w] = "exit"

RegistersGone ==
  /\ \A w \in SPool : sw[w] = "exit"
  /\ \A w \in PPool : pw[w] = "exit"
  /\ \A w \in CPool : cw[w] = "exit"

(* Mutant: wgReg is waited for without a time limit. *)
RegistersNeverStuck == FALSE

(* A register worker can outlast 15 s only inside an external call. *)
RegistersStuck ==
  \/ \E w \in SPool : sw[w] = "solving"
  \/ With({"email", "signup"}) # {}

(* waitGroupTimeout(wgReg), then close(oauthCh). *)
MainCloseChannel ==
  /\ Alive /\ main = "drainReg"
  /\ RegistersGone \/ RegistersStuck
  /\ closed' = TRUE /\ forced' = ~RegistersGone
  /\ main' = "drainOAuth"
  /\ UNCHANGED <<seats, tokens, slots, sems, pools, fate, by, cancelled, rushed, crashed>>

OAuthGone == \A w \in OPool : ow[w] = "exit"

(* waitGroupTimeout(wgOAuth), the wait for the ticker, and the last snapshot. *)
MainFinish ==
  /\ Alive /\ main = "drainOAuth"
  /\ OAuthGone \/ With({"oauth", "probe"}) # {}
  /\ rushed' = ~OAuthGone
  /\ main' = "closing"
  /\ UNCHANGED <<seats, tokens, slots, sems, pools, fate, by, cancelled, closed, forced, crashed>>

(* The deferred Close of the solver, which may wait without a limit for the calls
   it has begun; then run returns and the process exits. *)
MainClose ==
  /\ Alive /\ main = "closing"
  /\ CloseWaits => \A w \in SPool : sw[w] # "solving"
  /\ main' = "finished"
  /\ UNCHANGED <<seats, tokens, slots, sems, pools, fate, by, cancelled, closed, forced, rushed, crashed>>

-----------------------------------------------------------------------------
(* Steps a worker takes on its own, and the returns of its external calls. *)
SLocal(w) ==
  \/ SStop(w) \/ SGate(w) \/ SEnough(w) \/ SStart(w)
  \/ SPutT(w) \/ SPutTCancelled(w)
PLocal(w) ==
  \/ PStop(w) \/ PGate(w) \/ PEnough(w) \/ PStart(w) \/ PReload(w) \/ PReserve(w)
  \/ \E a \in Attempts :
       \/ PAcquire(w, a) \/ PAcquireCancelled(w, a)
       \/ PPutQ(w, a) \/ PPutQCancelled(w, a)
CLocal(w) ==
  \/ CStop(w) \/ CWait(w)
  \/ \E a \in Attempts :
       CClaim(w, a) \/ CSend(w, a) \/ CSendCancelled(w, a) \/ CSendClosed(w, a)
OLocal(w) ==
  \/ OExit(w)
  \/ \E a \in Attempts :
       \/ OTakeSurplus(w, a) \/ OTake(w, a) \/ ODelay(w, a) \/ ODelayCancelled(w, a)
       \/ OSettle(w, a) \/ OWriteFail(w, a) \/ OExport(w, a)
PCall(w) == \E a \in Attempts : PMail(w, a) \/ PMailFail(w, a)
CCall(w) == \E a \in Attempts : CSignup(w, a) \/ CRefused(w, a)
OCall(w) ==
  \E a \in Attempts :
    \/ OAuthFail(w, a) \/ OAuthOk(w, a)
    \/ OProbeFail(w, a) \/ OComplete(w, a) \/ OSurplus(w, a)
Main == MainLeaveLoop \/ MainCloseChannel \/ MainFinish \/ MainClose

(* The process has exited or died: nothing happens any more. *)
Over == ~Alive /\ UNCHANGED vars

Next ==
  \/ \E w \in SPool : SLocal(w) \/ SSolve(w)
  \/ \E w \in PPool : PLocal(w) \/ PCall(w)
  \/ \E w \in CPool : CLocal(w) \/ CCall(w)
  \/ \E w \in OPool : OLocal(w) \/ OCall(w)
  \/ ExpireT \/ (\E a \in Attempts : ExpireQ(a)) \/ Purge
  \/ Stop \/ Main \/ Over

(* The Go scheduler runs every goroutine that can run; nothing is assumed of
   external calls, which may never return. *)
LocalFairness ==
  /\ WF_vars(Main) /\ WF_vars(Purge)
  /\ \A w \in SPool : WF_vars(SLocal(w))
  /\ \A w \in PPool : WF_vars(PLocal(w))
  /\ \A w \in CPool : WF_vars(CLocal(w))
  /\ \A w \in OPool : WF_vars(OLocal(w))

(* External calls return as well. *)
CallFairness ==
  /\ \A w \in SPool : WF_vars(SSolve(w))
  /\ \A w \in PPool : WF_vars(PCall(w))
  /\ \A w \in CPool : WF_vars(CCall(w))
  /\ \A w \in OPool : WF_vars(OCall(w))

Spec == Init /\ [][Next]_vars
FairSpec == Spec /\ LocalFairness
FullFairSpec == FairSpec /\ CallFairness
-----------------------------------------------------------------------------
(* Properties. *)

InFlight == {"seated", "email", "mailed", "queued", "stale", "signup", "registered",
             "handoff", "delay", "oauth", "probe"}
Counted == {"counted", "export", "ready", "unexported"}

(* The counter reserved is exactly the attempts that took a seat and have not
   given it back: every failure path of the four worker loops releases once and
   only once, but for the two that leak (an expired Q item, a cancelled interval). *)
SeatsAccounted ==
  reserved = Cardinality(With(InFlight \cup {"counted", "leaked"}))

(* However the workers race, tryComplete never counts past -t, tryReserve never
   hands out more than -t seats at once, and done is the accounts it counted. *)
SeatsWithinTarget ==
  /\ done <= Target /\ reserved <= Target
  /\ done = Cardinality(With(Counted))

(* Every slot of the four semaphores is free or has one holder, so no path
   leaks one and Semaphore.Release never has to drop one. *)
SlotsConserved ==
  /\ tSlots + tFresh + tStale + Cardinality(With({"signup"})) = Width
  /\ qSlots + Cardinality(With({"queued", "stale", "signup"})) = Width
  /\ qPending + Cardinality(With({"email", "mailed"})) = Width
  /\ phys + Cardinality({w \in SPool : sw[w] = "solving"}) = Width

(* A worker is busy exactly while it has one account in hand: no loop iteration
   starts another before the account in hand was passed on or settled. *)
OneJobPerWorker ==
  LET InHand(w, fates) == Cardinality({a \in With(fates) : by[a] = w})
      Jobs(busy) == IF busy THEN 1 ELSE 0
  IN /\ \A w \in PPool : InHand(w, HeldByP) = Jobs(pw[w] = "busy")
     /\ \A w \in CPool : InHand(w, HeldByC) = Jobs(cw[w] = "busy")
     /\ \A w \in OPool : InHand(w, HeldByO) = Jobs(ow[w] = "busy")

(* The send on oauthCh can only meet a closed channel when run gave up waiting
   for the register workers: the ordering of the shutdown does protect it. *)
CrashOnlyAfterTimeout == crashed => forced

(* In the manual flow a stop settles every account already handed over: when
   both waits of the shutdown ended in time, oauthCh has been drained and every
   seat has been returned or counted (unless a mailbox expired with its seat). *)
ManualStopDrains ==
  (ManualOAuth /\ ~Expiry /\ main \in {"closing", "finished"} /\ ~forced /\ ~rushed)
    => With({"registered", "handoff", "delay", "counted", "export", "leaked"}) = {}

(* The run implements the per-account promise. *)
LedgerView ==
  [a \in Attempts |->
     IF fate[a] = "unused" THEN "unused"
     ELSE IF fate[a] \in InFlight THEN "open"
     ELSE IF fate[a] \in Counted THEN "counted" ELSE "closed"]
Ledger == INSTANCE SeatLedger WITH ledger <- LedgerView
ImplementsLedger == Ledger!Spec

(* No solve lasts for ever. The browser pool gives the work in a browser a limit,
   but not the launch of one and not the opening of a context
   (browser.go:114, 331), so this is a premise and no fairness. *)
SolvesEnd == \A w \in SPool : []<>(sw[w] # "solving")

(* A stop ends the process whatever the calls to the mail service, the signup and
   the exchange do: the three waits of the shutdown are bounded and nobody keeps
   them waiting otherwise. What has no bound is the deferred Close of the solver,
   where it waits for its calls: those must end. *)
StopTerminates == (CloseWaits => SolvesEnd) => (cancelled ~> ~Alive)

(* ---- what comments and documents of the repository say, which runs refute *)

(* pipeline.go:549 "Global seat: done + reserved <= target (not per-worker)",
   pipeline.go:578 "so multi-P cannot overshoot -t": the successes and the
   accounts still in flight never exceed the target. *)
SeatBound == done + Cardinality(With(InFlight)) <= Target

(* pipeline.go:81 "reserved ... in-flight accounts (email->register->oauth->probe)":
   every reserved seat belongs to an account that is in flight. *)
SeatsInFlight == reserved = Cardinality(With(InFlight \cup {"counted"}))

(* pipeline.go:395 "wait register workers so no more sends to oauthCh": the
   process does not die sending on the closed channel. *)
NoSendAfterClose == ~crashed

(* manual-oauth-design.md:21 "continue until all target seats are either complete
   or waiting for OAuth", pipeline.go:380 "wait until target or cancel": a run
   that nobody cancels reaches its target. *)
ReachesTarget == <>(done >= Target \/ cancelled)

(* README.md:54: a successful account is written to the gateway's database
   without a manual import. *)
SuccessIsImported == With({"unexported"}) = {}
=============================================================================
