---- MODULE ServicesProofs ----
(***************************************************************************)
(* The browser pool's promises for any number of calls, slots and any      *)
(* threshold: no slot is lost or shared, and no browser outlives Close.    *)
(* Then the components of MCServices together: a behaviour of the module   *)
(* is one of each component, so that what is proved of a component holds   *)
(* in the runs of MCServices, whatever their constants.                    *)
(***************************************************************************)
EXTENDS MCServices, DaemonProofs, ManualOAuthProofs, GatewayServerProofs, GatewayRequestProofs,
        AccountFilesProofs

USE BrowserPoolAssumption DEF BrowserPoolAssumption

\* How far a call may be.
PoolSteps == {"idle", "counted", "borrowed", "opening", "solving", "returning"}

\* A call holds a slot exactly between the receive from the channel and its return.
HeldWhileAtWork ==
    \A b \in Borrowers : user[b].pc \in {"borrowed", "opening", "solving", "returning"} <=> Held(b)

\* How far Close is tells what else may go on: no call before the pool is warm, none once the wait
\* for them is over; and the browsers left are among those Close has still to end.
CloseIsOrderly ==
    /\ toClose.phase \in {"cold", "ending", "over"} => \A b \in Borrowers : user[b].pc = "idle"
    /\ closing <=> toClose.phase \in {"waiting", "ending", "over"}
    /\ toClose.phase \in {"cold", "before", "waiting"} => toClose.slots = Slots
    /\ toClose.phase = "ending" => browser \subseteq toClose.slots
    /\ toClose.phase = "over" => browser = {}

PoolIInv == PoolTypeOK /\ HeldWhileAtWork /\ CloseIsOrderly /\ SlotsAreConserved

LEMMA PoolInitHolds == PoolInit => PoolIInv
<1> SUFFICES ASSUME PoolInit PROVE PoolIInv
  OBVIOUS
<1> USE DEF PoolInit, NoCallOf, PoolSteps
<1>1. PoolTypeOK
  <2>1. [pc |-> "idle", slot |-> Nil] \in
          [pc : PoolSteps, slot : Slots \cup {Nil}]
    OBVIOUS
  <2>2. user \in [Borrowers -> [pc : PoolSteps, slot : Slots \cup {Nil}]]
    BY <2>1
  <2>3. streak \in [Slots -> 0..Threshold]
    BY SMT
  <2>4. toClose \in [phase : {"cold", "before", "waiting", "ending", "over"}, slots : SUBSET Slots]
    OBVIOUS
  <2> QED BY <2>2, <2>3, <2>4 DEF PoolTypeOK
<1>2. \A b \in Borrowers : user[b].pc = "idle" /\ ~Held(b)
  BY DEF Held
<1>3. HeldWhileAtWork /\ CloseIsOrderly
  BY <1>2 DEF HeldWhileAtWork, CloseIsOrderly
<1>4. SlotsAreConserved
  BY <1>2 DEF SlotsAreConserved
<1> QED BY <1>1, <1>3, <1>4 DEF PoolIInv

\* The pool's variables keep their types.
LEMMA PoolTypeStep == PoolIInv /\ [PoolNext]_bVars => PoolTypeOK'
<1> SUFFICES ASSUME PoolIInv, [PoolNext]_bVars PROVE PoolTypeOK'
  OBVIOUS
<1> USE DEF PoolIInv, PoolTypeOK, PoolSteps
<1>1. CASE Warm
  BY <1>1 DEF Warm
<1>2. ASSUME NEW b \in Borrowers, SolveEnter(b) PROVE PoolTypeOK'
  BY <1>2 DEF SolveEnter, UserStep
<1>3. ASSUME NEW b \in Borrowers, Borrow(b) PROVE PoolTypeOK'
  BY <1>3 DEF Borrow
<1>4. ASSUME NEW b \in Borrowers, GiveUp(b) PROVE PoolTypeOK'
  BY <1>4 DEF GiveUp, UserStep
<1>5. ASSUME NEW b \in Borrowers, Launch(b) PROVE PoolTypeOK'
  <2>1. user[b].slot \in Slots
    BY <1>5 DEF Launch, UserStep, HeldWhileAtWork, Held
  <2> QED BY <1>5, <2>1 DEF Launch, UserStep
<1>6. ASSUME NEW b \in Borrowers, SolveOk(b) PROVE PoolTypeOK'
  <2>1. 0 \in 0..Threshold
    OBVIOUS
  <2>2. streak' \in [Slots -> 0..Threshold]
    BY <1>6, <2>1 DEF SolveOk
  <2>3. user' \in [Borrowers -> [pc : PoolSteps, slot : Slots \cup {Nil}]]
    BY <1>6 DEF SolveOk, UserStep
  <2> QED BY <1>6, <2>2, <2>3 DEF SolveOk
<1>7. ASSUME NEW b \in Borrowers, SolveFails(b) PROVE PoolTypeOK'
  <2>1. user' \in [Borrowers -> [pc : PoolSteps, slot : Slots \cup {Nil}]]
    BY <1>7 DEF SolveFails, UserStep
  <2>2. user[b].slot \in Slots
    BY <1>7 DEF SolveFails, UserStep, HeldWhileAtWork, Held
  <2>3. browser' \in SUBSET Slots /\ streak' \in [Slots -> 0..Threshold]
    BY <1>7, <2>2 DEF SolveFails
  <2> QED BY <1>7, <2>1, <2>3 DEF SolveFails
<1>8. ASSUME NEW b \in Borrowers, GiveBack(b) PROVE PoolTypeOK'
  BY <1>8 DEF GiveBack, NoCallOf, HeldWhileAtWork, Held
<1>9. CASE CloseBegin
  BY <1>9 DEF CloseBegin
<1>10. CASE CloseWait
  BY <1>10 DEF CloseWait
<1>11. ASSUME NEW w \in Slots, CloseSlot(w) PROVE PoolTypeOK'
  BY <1>11 DEF CloseSlot
<1>12. CASE UNCHANGED bVars
  BY <1>12 DEF bVars
<1>13. ASSUME NEW b \in Borrowers, OpenContext(b) PROVE PoolTypeOK'
  BY <1>13 DEF OpenContext, UserStep
<1> QED BY <1>1, <1>2, <1>3, <1>4, <1>5, <1>6, <1>7, <1>8, <1>9, <1>10, <1>11, <1>12, <1>13
        DEF PoolNext, BorrowerStep, CloseStep

LEMMA HeldStep == PoolIInv /\ [PoolNext]_bVars => HeldWhileAtWork'
<1> SUFFICES ASSUME PoolIInv, [PoolNext]_bVars PROVE HeldWhileAtWork'
  OBVIOUS
<1> USE DEF PoolIInv, PoolTypeOK, HeldWhileAtWork, Held
<1>1. ASSUME UNCHANGED user PROVE HeldWhileAtWork'
  BY <1>1
<1>2. ASSUME NEW b \in Borrowers, SolveEnter(b) PROVE HeldWhileAtWork'
  BY <1>2 DEF SolveEnter, UserStep
<1>3. ASSUME NEW b \in Borrowers, Borrow(b) PROVE HeldWhileAtWork'
  BY <1>3 DEF Borrow
<1>4. ASSUME NEW b \in Borrowers, GiveUp(b) PROVE HeldWhileAtWork'
  BY <1>4 DEF GiveUp, UserStep
<1>5. ASSUME NEW b \in Borrowers, Launch(b) PROVE HeldWhileAtWork'
  BY <1>5 DEF Launch, UserStep
<1>6. ASSUME NEW b \in Borrowers, SolveOk(b) PROVE HeldWhileAtWork'
  BY <1>6 DEF SolveOk, UserStep
<1>7. ASSUME NEW b \in Borrowers, SolveFails(b) PROVE HeldWhileAtWork'
  BY <1>7 DEF SolveFails, UserStep
<1>8. ASSUME NEW b \in Borrowers, GiveBack(b) PROVE HeldWhileAtWork'
  BY <1>8 DEF GiveBack, NoCallOf
<1>9. CASE Warm \/ CloseBegin \/ CloseStep \/ UNCHANGED bVars
  BY <1>1, <1>9 DEF Warm, CloseBegin, CloseStep, CloseWait, CloseSlot, bVars
<1>10. ASSUME NEW b \in Borrowers, OpenContext(b) PROVE HeldWhileAtWork'
  BY <1>10 DEF OpenContext, UserStep
<1> QED BY <1>2, <1>3, <1>4, <1>5, <1>6, <1>7, <1>8, <1>9, <1>10 DEF PoolNext, BorrowerStep

LEMMA CloseIsOrderlyStep == PoolIInv /\ [PoolNext]_bVars => CloseIsOrderly'
<1> SUFFICES ASSUME PoolIInv, [PoolNext]_bVars PROVE CloseIsOrderly'
  OBVIOUS
<1> USE DEF PoolIInv, PoolTypeOK, CloseIsOrderly
<1>1. CASE Warm
  BY <1>1 DEF Warm
<1>2. ASSUME NEW b \in Borrowers, SolveEnter(b) PROVE CloseIsOrderly'
  BY <1>2 DEF SolveEnter, UserStep
<1>3. ASSUME NEW b \in Borrowers, BorrowerStep(b) PROVE CloseIsOrderly'
  <2>1. user[b].pc # "idle" /\ toClose' = toClose /\ closing' = closing
    BY <1>3 DEF BorrowerStep, GiveUp, Borrow, Launch, OpenContext, SolveOk, SolveFails, GiveBack,
                UserStep
  <2>2. toClose.phase \in {"before", "waiting"}
    BY <2>1
  <2> QED BY <2>1, <2>2
<1>4. CASE CloseBegin
  BY <1>4 DEF CloseBegin
<1>5. CASE CloseWait
  BY <1>5 DEF CloseWait
<1>6. ASSUME NEW w \in Slots, CloseSlot(w) PROVE CloseIsOrderly'
  <2>1. CASE toClose.slots = {w}
    BY <1>6, <2>1 DEF CloseSlot
  <2>2. CASE toClose.slots # {w}
    BY <1>6, <2>2 DEF CloseSlot
  <2> QED BY <2>1, <2>2
<1>7. CASE UNCHANGED bVars
  BY <1>7 DEF bVars
<1> QED BY <1>1, <1>2, <1>3, <1>4, <1>5, <1>6, <1>7 DEF PoolNext, CloseStep

\* Neither a borrow nor any way back loses a slot or hands it out twice.
LEMMA SlotsStep == PoolIInv /\ [PoolNext]_bVars => SlotsAreConserved'
<1> SUFFICES ASSUME PoolIInv, [PoolNext]_bVars PROVE SlotsAreConserved'
  OBVIOUS
<1> USE DEF PoolIInv, PoolTypeOK, HeldWhileAtWork, SlotsAreConserved, Held
<1>1. CASE Warm
  BY <1>1 DEF Warm, CloseIsOrderly
<1>2. ASSUME NEW b \in Borrowers, SolveEnter(b) \/ GiveUp(b) PROVE SlotsAreConserved'
  <2>1. \A c \in Borrowers :
          /\ user'[c].slot = user[c].slot
          /\ user'[c].pc \in {"opening", "solving"} => user[c].pc = user'[c].pc
    BY <1>2 DEF SolveEnter, GiveUp, UserStep
  <2>2. UNCHANGED <<ready, browser, closing>>
    BY <1>2 DEF SolveEnter, GiveUp
  <2>3. {user'[c].slot : c \in {d \in Borrowers : user'[d].slot # Nil}}
          = {user[c].slot : c \in {d \in Borrowers : user[d].slot # Nil}}
    BY <2>1
  <2> QED BY <2>1, <2>2, <2>3
<1>3. ASSUME NEW b \in Borrowers, Borrow(b) PROVE SlotsAreConserved'
  <2>1. PICK w \in ready : /\ ready' = ready \ {w}
                           /\ user' = [user EXCEPT ![b] = [pc |-> "borrowed", slot |-> w]]
    BY <1>3 DEF Borrow
  <2>2. UNCHANGED <<browser, closing>> /\ user[b].slot = Nil
    BY <1>3 DEF Borrow
  <2>3. /\ \A c \in Borrowers : c # b => user'[c] = user[c]
        /\ user'[b] = [pc |-> "borrowed", slot |-> w]
    BY <2>1
  <2>4. closing \/ Slots = ready' \cup {user'[c].slot : c \in {d \in Borrowers : user'[d].slot # Nil}}
    BY <2>1, <2>2, <2>3
  <2> QED BY <2>1, <2>2, <2>3, <2>4
<1>4. ASSUME NEW b \in Borrowers, Launch(b) \/ OpenContext(b) \/ SolveOk(b) \/ SolveFails(b)
      PROVE  SlotsAreConserved'
  <2>1. /\ \A c \in Borrowers : user'[c].slot = user[c].slot
        /\ \A c \in Borrowers : c # b => user'[c] = user[c]
        /\ user[b].slot # Nil
        /\ UNCHANGED <<ready, closing>>
    BY <1>4 DEF Launch, OpenContext, SolveOk, SolveFails, UserStep
  <2>2. {user'[c].slot : c \in {d \in Borrowers : user'[d].slot # Nil}}
          = {user[c].slot : c \in {d \in Borrowers : user[d].slot # Nil}}
    BY <2>1
  <2>3. ASSUME NEW c \in Borrowers, user'[c].pc \in {"opening", "solving"} PROVE user'[c].slot \in browser'
    <3>1. CASE c = b
      BY <1>4, <2>3, <3>1 DEF Launch, OpenContext, SolveOk, SolveFails, UserStep
    <3>2. CASE c # b
      <4>1. user[c].slot \in browser /\ user[c].slot # user[b].slot
        BY <2>1, <2>3, <3>2
      <4>2. browser \ {user[b].slot} \subseteq browser'
        BY <1>4 DEF Launch, OpenContext, SolveOk, SolveFails
      <4> QED BY <2>1, <4>1, <4>2
    <3> QED BY <3>1, <3>2
  <2> QED BY <2>1, <2>2, <2>3
<1>5. ASSUME NEW b \in Borrowers, GiveBack(b) PROVE SlotsAreConserved'
  <2>1. /\ user' = [user EXCEPT ![b] = NoCallOf]
        /\ user[b].slot # Nil
        /\ UNCHANGED <<browser, closing>>
        /\ ready' = ready \cup {user[b].slot} \/ (closing /\ ready' = ready)
    BY <1>5 DEF GiveBack
  <2>2. /\ \A c \in Borrowers : c # b => user'[c] = user[c]
        /\ user'[b].slot = Nil /\ user'[b].pc = "idle"
    BY <2>1 DEF NoCallOf
  <2>3. closing \/ Slots = ready' \cup {user'[c].slot : c \in {d \in Borrowers : user'[d].slot # Nil}}
    BY <2>1, <2>2
  <2> QED BY <2>1, <2>2, <2>3
<1>6. CASE CloseBegin \/ CloseWait
  BY <1>6 DEF CloseBegin, CloseWait
<1>7. ASSUME NEW w \in Slots, CloseSlot(w) PROVE SlotsAreConserved'
  BY <1>7 DEF CloseSlot, CloseIsOrderly
<1>8. CASE UNCHANGED bVars
  BY <1>8 DEF bVars
<1> QED BY <1>1, <1>2, <1>3, <1>4, <1>5, <1>6, <1>7, <1>8 DEF PoolNext, BorrowerStep, CloseStep

LEMMA PoolIInvHolds == PoolSafety => []PoolIInv
<1>1. PoolIInv /\ [PoolNext]_bVars => PoolIInv'
  BY PoolTypeStep, HeldStep, CloseIsOrderlyStep, SlotsStep DEF PoolIInv
<1> QED BY <1>1, PoolInitHolds, PTL DEF PoolSafety

\* The pool's variables have their types, for any pool.
THEOREM PoolTypeCorrect == PoolSafety => []PoolTypeOK
<1>1. PoolIInv => PoolTypeOK
  BY DEF PoolIInv
<1> QED BY <1>1, PoolIInvHolds, PTL

\* No slot is lost or used by two calls, and a call at work has its browser, for any pool.
THEOREM SlotsConservedAlways == PoolSafety => []SlotsAreConserved
<1>1. PoolIInv => SlotsAreConserved
  BY DEF PoolIInv
<1> QED BY <1>1, PoolIInvHolds, PTL

\* No browser outlives a Close that has returned, for any pool.
THEOREM NothingOutlivesThePool == PoolSafety => []NoBrowserOutlivesThePool
<1>1. PoolIInv => NoBrowserOutlivesThePool
  BY DEF PoolIInv, CloseIsOrderly, NoBrowserOutlivesThePool
<1> QED BY <1>1, PoolIInvHolds, PTL

----------------------------------------------------------------------------
\* The components side by side.

LEMMA PartsStart ==
  ASSUME ServicesInit
  PROVE  /\ DInit /\ OInit /\ GServerInit /\ StreamInit /\ LogInit /\ PoolInit /\ FilesInit
         /\ part \in {"daemon", "oauth", "server", "stream", "log", "pool", "files"}
  BY DEF ServicesInit

\* Of a step of the whole, each component takes one of its own steps or none.
LEMMA PartsStep ==
  ASSUME [ServicesNext]_allVars
  PROVE  /\ [DNext]_dVars
         /\ [ONext]_oVars
         /\ [GServerNext]_gVars
         /\ [StreamNext]_sVars
         /\ [LogNext]_lVars
         /\ [PoolNext]_bVars
         /\ [FilesNext]_fVars
<1>1. CASE UNCHANGED allVars
  BY <1>1 DEF allVars
<1>2. CASE DNext /\ UNCHANGED <<part, oVars, gVars, sVars, lVars, bVars, fVars>>
  BY <1>2
<1>3. CASE ONext /\ UNCHANGED <<part, dVars, gVars, sVars, lVars, bVars, fVars>>
  BY <1>3
<1>4. CASE GServerNext /\ UNCHANGED <<part, dVars, oVars, sVars, lVars, bVars, fVars>>
  BY <1>4
<1>5. CASE StreamNext /\ UNCHANGED <<part, dVars, oVars, gVars, lVars, bVars, fVars>>
  BY <1>5
<1>6. CASE LogNext /\ UNCHANGED <<part, dVars, oVars, gVars, sVars, bVars, fVars>>
  BY <1>6
<1>7. CASE PoolNext /\ UNCHANGED <<part, dVars, oVars, gVars, sVars, lVars, fVars>>
  BY <1>7
<1>8. CASE FilesNext /\ UNCHANGED <<part, dVars, oVars, gVars, sVars, lVars, bVars>>
  BY <1>8
<1> QED BY <1>1, <1>2, <1>3, <1>4, <1>5, <1>6, <1>7, <1>8 DEF ServicesNext

\* A behaviour of all the components together is a behaviour of each of them: what a component's
\* module promises it promises here too.
THEOREM ComponentsKeepTheirSpecs ==
  ServicesSafety => /\ DSafety
                    /\ OSafety
                    /\ GServerSafety
                    /\ StreamSpec
                    /\ LogSpec
                    /\ PoolSafety
                    /\ FilesSpec
<1>1. ServicesSafety => DSafety
  <2>1. ServicesInit => DInit
    BY PartsStart
  <2>2. [ServicesNext]_allVars => [DNext]_dVars
    BY PartsStep
  <2> QED BY <2>1, <2>2, PTL DEF ServicesSafety, DSafety
<1>2. ServicesSafety => OSafety
  <2>1. ServicesInit => OInit
    BY PartsStart
  <2>2. [ServicesNext]_allVars => [ONext]_oVars
    BY PartsStep
  <2> QED BY <2>1, <2>2, PTL DEF ServicesSafety, OSafety
<1>3. ServicesSafety => GServerSafety
  <2>1. ServicesInit => GServerInit
    BY PartsStart
  <2>2. [ServicesNext]_allVars => [GServerNext]_gVars
    BY PartsStep
  <2> QED BY <2>1, <2>2, PTL DEF ServicesSafety, GServerSafety
<1>4. ServicesSafety => StreamSpec
  <2>1. ServicesInit => StreamInit
    BY PartsStart
  <2>2. [ServicesNext]_allVars => [StreamNext]_sVars
    BY PartsStep
  <2> QED BY <2>1, <2>2, PTL DEF ServicesSafety, StreamSpec
<1>5. ServicesSafety => LogSpec
  <2>1. ServicesInit => LogInit
    BY PartsStart
  <2>2. [ServicesNext]_allVars => [LogNext]_lVars
    BY PartsStep
  <2> QED BY <2>1, <2>2, PTL DEF ServicesSafety, LogSpec
<1>6. ServicesSafety => PoolSafety
  <2>1. ServicesInit => PoolInit
    BY PartsStart
  <2>2. [ServicesNext]_allVars => [PoolNext]_bVars
    BY PartsStep
  <2> QED BY <2>1, <2>2, PTL DEF ServicesSafety, PoolSafety
<1>7. ServicesSafety => FilesSpec
  <2>1. ServicesInit => FilesInit
    BY PartsStart
  <2>2. [ServicesNext]_allVars => [FilesNext]_fVars
    BY PartsStep
  <2> QED BY <2>1, <2>2, PTL DEF ServicesSafety, FilesSpec
<1> QED BY <1>1, <1>2, <1>3, <1>4, <1>5, <1>6, <1>7

\* Every component's variables have their types, whatever the others do (the TypeOK of each module).
THEOREM ServicesTypeCorrect == ServicesSafety => []ServicesTypeOK
<1>1. /\ DaemonTypeOK /\ OAuthTypeOK /\ GServerTypeOK
      /\ StreamTypeOK /\ LogTypeOK /\ PoolTypeOK /\ FilesTypeOK
      => ServicesTypeOK
  BY DEF ServicesTypeOK
<1> QED BY <1>1, ComponentsKeepTheirSpecs, DaemonTypeCorrect, OAuthTypeCorrect, GServerTypeCorrect,
           StreamTypeCorrect, LogTypeCorrect, PoolTypeCorrect, FilesTypeCorrect, PTL

\* The invariants of the components, one beside the other, as Services.cfg checks them.
ServicesInv ==
    /\ OneWorkerAtWork /\ WorkerIsFindable /\ StatusTellsWorker
    /\ SlotTellsSession /\ OnlyTokensAuthorize
    /\ RunningIsServing /\ ListenersAreManaged /\ SettingsApplied
    /\ StreamIsGood /\ EveryStreamIsFinished /\ UsageReachesTheLog
    /\ LogKeepsTheLatest
    /\ SlotsAreConserved /\ NoBrowserOutlivesThePool
    /\ ImportReportAddsUp /\ ArchiveIsReimportable

\* What is proved of each component holds of all of them together: every invariant that Services.cfg
\* checks on its small instance, and that no request log id is given twice, for every value of the
\* constants.
THEOREM ServicesAreSafe == ServicesSafety => []ServicesInv /\ IdsNeverReused
<1>1. DSafety => [](OneWorkerAtWork /\ WorkerIsFindable /\ StatusTellsWorker)
  BY OneWorkerAlways, WorkerFindableAlways, StatusTellsAlways, PTL
<1>2. OSafety => [](SlotTellsSession /\ OnlyTokensAuthorize)
  BY SlotTellsAlways, TokensAuthorizeAlways, PTL
<1>3. GServerSafety => [](RunningIsServing /\ ListenersAreManaged /\ SettingsApplied)
  BY RunningServesAlways, ListenersManagedAlways, SettingsAppliedAlways, PTL
<1>4. StreamSpec => [](StreamIsGood /\ EveryStreamIsFinished /\ UsageReachesTheLog)
  BY StreamsAreGood, StreamsAreFinished, UsageIsLogged, PTL
<1>5. LogSpec => []LogKeepsTheLatest /\ IdsNeverReused
  BY BufferKeepsTheLatest, IdsAreGivenOnce, PTL
<1>6. PoolSafety => [](SlotsAreConserved /\ NoBrowserOutlivesThePool)
  BY SlotsConservedAlways, NothingOutlivesThePool, PTL
<1>7. FilesSpec => [](ImportReportAddsUp /\ ArchiveIsReimportable)
  BY ReportAddsUpAlways, ArchiveReimportableAlways, PTL
<1>8. /\ OneWorkerAtWork /\ WorkerIsFindable /\ StatusTellsWorker
      /\ SlotTellsSession /\ OnlyTokensAuthorize
      /\ RunningIsServing /\ ListenersAreManaged /\ SettingsApplied
      /\ StreamIsGood /\ EveryStreamIsFinished /\ UsageReachesTheLog
      /\ LogKeepsTheLatest
      /\ SlotsAreConserved /\ NoBrowserOutlivesThePool
      /\ ImportReportAddsUp /\ ArchiveIsReimportable
      => ServicesInv
  BY DEF ServicesInv
<1> QED BY <1>1, <1>2, <1>3, <1>4, <1>5, <1>6, <1>7, <1>8, ComponentsKeepTheirSpecs, PTL

====
