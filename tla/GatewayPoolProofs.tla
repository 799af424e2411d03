------------------------- MODULE GatewayPoolProofs -------------------------
(* Theorems about GatewayPool, for every number of accounts, requests and sweeps. *)
EXTENDS GatewayPool, FiniteSetTheorems, TLAPS

-----------------------------------------------------------------------------
(* The statements of the store keep a row a row. *)

LEMMA RowsWritten ==
  ASSUME row \in [Accounts -> Row], NEW a \in Accounts
  PROVE  /\ WithTokens(a) \in Row
         /\ \A ans : WithAnswer(a, ans) \in Row
         /\ \A v : WithVerdict(a, v) \in Row
         /\ NewRow \in Row
         /\ \A e \in BOOLEAN, n \in Limits : [row[a] EXCEPT !.enabled = e, !.limit = n] \in Row
         /\ [row[a] EXCEPT !.cooling = FALSE] \in Row
  <1>1. row[a] \in Row
    OBVIOUS
  <1>2. WithTokens(a) \in Row
    BY <1>1 DEF WithTokens, Row
  <1>3. \A ans : WithAnswer(a, ans) \in Row
    BY <1>1 DEF WithAnswer, Row
  <1>4. \A v : WithVerdict(a, v) \in Row
    BY <1>1 DEF WithVerdict, Row
  <1>5. NewRow \in Row
    BY GatewayPoolAssumption DEF GatewayPoolAssumption, NewRow, Row
  <1>6. \A e \in BOOLEAN, n \in Limits : [row[a] EXCEPT !.enabled = e, !.limit = n] \in Row
    BY <1>1 DEF Row
  <1>7. [row[a] EXCEPT !.cooling = FALSE] \in Row
    BY <1>1 DEF Row
  <1>. QED
    BY <1>2, <1>3, <1>4, <1>5, <1>6, <1>7

LEMMA HoldersFinite ==
  \A a : IsFiniteSet(Holders(a)) /\ Cardinality(Holders(a)) \in Nat
  BY GatewayPoolAssumption, FS_Subset, FS_CardinalityType DEF GatewayPoolAssumption, Holders

(* A request that holds an account is counted in its leases. *)
LEMMA HeldIsCounted ==
  ASSUME TypeOK, LeasesAccounted, NEW r \in Requests, pc[r] \in Holding
  PROVE  on[r] \in Accounts /\ leases[on[r]] \in Nat \ {0}
  <1>1. on[r] \in Accounts /\ r \in Holders(on[r])
    BY DEF TypeOK, TypeRequests, Holders
  <1>2. Cardinality(Holders(on[r])) # 0
    BY <1>1, HoldersFinite, FS_EmptySet
  <1>. QED
    BY <1>1, <1>2, HoldersFinite DEF LeasesAccounted

-----------------------------------------------------------------------------
(* Type correctness. *)

LEMMA InitTypeOK == Init => TypeOK
  <1>. SUFFICES ASSUME Init PROVE TypeOK
    OBVIOUS
  <1>1. NewRow \in Row
    BY GatewayPoolAssumption DEF GatewayPoolAssumption, NewRow, Row
  <1>2. row \in [Accounts -> Row] /\ leases \in [Accounts -> Nat]
    BY <1>1 DEF Init
  <1>3. TypeRequests
    BY DEF Init, TypeRequests, NothingSeen, Holding
  <1>4. TypeSweeps
    BY DEF Init, TypeSweeps
  <1>. QED
    BY <1>2, <1>3, <1>4 DEF TypeOK

(* Of a request's step: its lease was counted, so a release leaves a count. *)
LEMMA ServeTypeOK ==
  ASSUME TypeOK, LeasesAccounted, NEW r \in Requests, List(r) \/ Serve(r)
  PROVE  TypeOK'
  <1> USE GatewayPoolAssumption
      DEF GatewayPoolAssumption, TypeOK, TypeRequests, Holding, Goto
  <1>1. ASSUME List(r) PROVE TypeOK'
    BY <1>1
    DEF List, sweepVars, TypeSweeps, Row, Eligible, NothingSeen
  <1>2. ASSUME NEW a \in Accounts, Pick(r, a) PROVE TypeOK'
    BY <1>2
    DEF Pick, sweepVars, TypeSweeps, NothingSeen
  <1>3. ASSUME Refuse(r) PROVE TypeOK'
    BY <1>3
    DEF Refuse, sweepVars, TypeSweeps, NothingSeen
  <1>4. ASSUME Load(r) PROVE TypeOK'
    BY <1>4
    DEF Load, sweepVars, TypeSweeps
  <1>5. ASSUME LoadFail(r) PROVE TypeOK'
    BY <1>5, HeldIsCounted
    DEF LoadFail, Release, sweepVars, TypeSweeps
  <1>6. ASSUME Forward(r) PROVE TypeOK'
    BY <1>6
    DEF Forward, sweepVars, TypeSweeps, Answer
  <1>7. ASSUME Save(r) PROVE TypeOK'
    BY <1>7, HeldIsCounted, RowsWritten
    DEF Save, Write, Stored, sweepVars, TypeSweeps
  <1>8. ASSUME SaveFail(r) PROVE TypeOK'
    BY <1>8
    DEF SaveFail, sweepVars, TypeSweeps
  <1>9. ASSUME Mark(r) PROVE TypeOK'
    BY <1>9, HeldIsCounted, RowsWritten
    DEF Mark, Write, Stored, sweepVars, TypeSweeps, Answer
  <1>10. ASSUME MarkFail(r) PROVE TypeOK'
    BY <1>10
    DEF MarkFail, sweepVars, TypeSweeps
  <1>11. ASSUME Close(r) PROVE TypeOK'
    BY <1>11, HeldIsCounted
    DEF Close, Release, sweepVars, TypeSweeps
  <1>. QED
    BY <1>1, <1>2, <1>3, <1>4, <1>5, <1>6, <1>7, <1>8, <1>9, <1>10, <1>11 DEF Serve

(* Of a sweep's step. *)
LEMMA SweepTypeOK ==
  ASSUME TypeOK, NEW s \in Sweeps,
         \/ SweepBegin(s) \/ SweepCancel(s) \/ SweepEnd(s)
         \/ \E a \in Accounts : CheckOne(s, a)
  PROVE  TypeOK'
  <1> USE DEF TypeOK, TypeSweeps, Check
  <1>1. ASSUME SweepBegin(s) PROVE TypeOK'
    BY <1>1
    DEF SweepBegin, requestVars, TypeRequests
  <1>2. ASSUME SweepCancel(s) PROVE TypeOK'
    BY <1>2
    DEF SweepCancel, requestVars, TypeRequests
  <1>3. ASSUME SweepEnd(s) PROVE TypeOK'
    BY <1>3
    DEF SweepEnd, requestVars, TypeRequests
  <1>4. ASSUME NEW a \in Accounts, CheckDrop(s, a) PROVE TypeOK'
    BY <1>4
    DEF CheckDrop, requestVars, TypeRequests
  <1>5. ASSUME NEW a \in Accounts, CheckLoad(s, a) PROVE TypeOK'
    BY <1>5
    DEF CheckLoad, requestVars, TypeRequests
  <1>6. ASSUME NEW a \in Accounts, CheckLoadFail(s, a) PROVE TypeOK'
    BY <1>6
    DEF CheckLoadFail, requestVars, TypeRequests
  <1>7. ASSUME NEW a \in Accounts, CheckCall(s, a) PROVE TypeOK'
    BY <1>7
    DEF CheckCall, requestVars, TypeRequests
  <1>8. ASSUME NEW a \in Accounts, CheckSave(s, a) PROVE TypeOK'
    BY <1>8, RowsWritten
    DEF CheckSave, Write, Stored, requestVars, TypeRequests
  <1>9. ASSUME NEW a \in Accounts, CheckSaveFail(s, a) PROVE TypeOK'
    BY <1>9
    DEF CheckSaveFail, requestVars, TypeRequests
  <1>10. ASSUME NEW a \in Accounts, CheckMark(s, a) PROVE TypeOK'
    BY <1>10, RowsWritten
    DEF CheckMark, Write, Stored, requestVars, TypeRequests
  <1>11. ASSUME NEW a \in Accounts, CheckMarkFail(s, a) PROVE TypeOK'
    BY <1>11
    DEF CheckMarkFail, requestVars, TypeRequests
  <1>. QED
    BY <1>1, <1>2, <1>3, <1>4, <1>5, <1>6, <1>7, <1>8, <1>9, <1>10, <1>11 DEF CheckOne

(* Of a step of the operator, of an import or of time. *)
LEMMA OperateTypeOK ==
  ASSUME TypeOK, NEW a \in Accounts, Operate(a)
  PROVE  TypeOK'
  <1>1. UNCHANGED <<leases, requestVars, sweepVars>>
    BY DEF Operate, UpdateAccount, DeleteAccount, Import, CoolOff
  <1>2. ASSUME UpdateAccount(a) PROVE row' \in [Accounts -> Row]
    <2>1. PICK e \in BOOLEAN, n \in Limits : Write(a, [row[a] EXCEPT !.enabled = e, !.limit = n])
      BY <1>2 DEF UpdateAccount
    <2>2. [row[a] EXCEPT !.enabled = e, !.limit = n] \in Row
      BY RowsWritten DEF TypeOK
    <2>. QED
      BY <2>1, <2>2 DEF Write, TypeOK
  <1>6. ASSUME CoolOff(a) PROVE row' \in [Accounts -> Row]
    BY <1>6, RowsWritten DEF CoolOff, Write, TypeOK
  <1>3. ASSUME DeleteAccount(a) PROVE row' \in [Accounts -> Row]
    <2>1. [NewRow EXCEPT !.status = "deleted"] \in Row
      BY RowsWritten DEF TypeOK, Row
    <2>. QED
      BY <1>3, <2>1 DEF DeleteAccount, Write, TypeOK
  <1>4. ASSUME Import(a) PROVE row' \in [Accounts -> Row]
    BY <1>4 DEF Import, TypeOK, Row
  <1>5. row' \in [Accounts -> Row]
    BY <1>2, <1>3, <1>4, <1>6 DEF Operate
  <1>. QED
    BY <1>1, <1>5 DEF TypeOK, TypeRequests, TypeSweeps, requestVars, sweepVars

LEMMA StepTypeOK ==
  ASSUME TypeOK, LeasesAccounted, [Next]_vars
  PROVE  TypeOK'
  <1>1. ASSUME UNCHANGED vars PROVE TypeOK'
    BY <1>1 DEF vars, requestVars, sweepVars, TypeOK, TypeRequests, TypeSweeps
  <1>. QED
    BY <1>1, ServeTypeOK, SweepTypeOK, OperateTypeOK DEF Next

-----------------------------------------------------------------------------
(* Leases. *)

(* Every step that is neither a pick nor a release leaves the holders, the
   counts and the limits they were admitted under alone. *)
Unleased == (\A a : Holders(a)' = Holders(a)) /\ UNCHANGED <<leases, lim>>

LEMMA LeaseSteps ==
  ASSUME TypeOK, [Next]_vars
  PROVE  \/ Unleased
         \/ \E r \in Requests, a \in Accounts : Pick(r, a)
         \/ \E r \in Requests : pc[r] \in Holding /\ Release(r)
  <1>1. ASSUME NEW r \in Requests, Load(r) \/ Forward(r) \/ Save(r) \/ SaveFail(r) \/ Mark(r) \/ MarkFail(r)
        PROVE  Unleased
    BY <1>1 DEF Load, Forward, Save, SaveFail, Mark, MarkFail, Unleased, Holders, Holding, Goto,
                TypeOK, TypeRequests
  <1>2. ASSUME NEW r \in Requests, List(r) \/ Refuse(r) PROVE Unleased
    BY <1>2 DEF List, Refuse, Unleased, Holders, Holding, Goto, TypeOK, TypeRequests
  <1>3. ASSUME NEW r \in Requests, LoadFail(r) \/ Close(r) PROVE pc[r] \in Holding /\ Release(r)
    BY <1>3 DEF LoadFail, Close, Holding
  <1>4. ASSUME NEW s \in Sweeps,
               SweepBegin(s) \/ SweepCancel(s) \/ SweepEnd(s) \/ \E a \in Accounts : CheckOne(s, a)
        PROVE  UNCHANGED <<leases, requestVars>>
    BY <1>4 DEF SweepBegin, SweepCancel, SweepEnd, CheckOne, CheckDrop, CheckLoad, CheckLoadFail,
                CheckCall, CheckSave, CheckSaveFail, CheckMark, CheckMarkFail
  <1>5. ASSUME NEW a \in Accounts, Operate(a) PROVE UNCHANGED <<leases, requestVars>>
    BY <1>5 DEF Operate, UpdateAccount, DeleteAccount, Import, CoolOff
  <1>6. ASSUME UNCHANGED <<leases, requestVars>> PROVE Unleased
    BY <1>6 DEF Unleased, Holders, requestVars
  <1>. QED
    BY <1>1, <1>2, <1>3, <1>4, <1>5, <1>6 DEF Next, Serve, vars

LEMMA PickedHolders ==
  ASSUME TypeOK, NEW r \in Requests, NEW a \in Accounts, Pick(r, a)
  PROVE  /\ r \notin Holders(a)
         /\ Holders(a)' = Holders(a) \cup {r}
         /\ \A b \in Accounts \ {a} : Holders(b)' = Holders(b)
         /\ \A q \in Requests \ {r} : lim'[q] = lim[q]
         /\ lim'[r] = seen[r][a] /\ leases[a] < seen[r][a] /\ seen[r][a] \in Nat
  <1>1. /\ pc[r] = "listed" /\ pc'[r] = "leased" /\ on'[r] = a
        /\ \A q \in Requests \ {r} : pc'[q] = pc[q] /\ on'[q] = on[q] /\ lim'[q] = lim[q]
    BY DEF Pick, Goto, TypeOK, TypeRequests
  <1>2. lim'[r] = seen[r][a] /\ leases[a] < seen[r][a] /\ seen[r][a] \in Nat
    <2>1. seen[r][a] \in Limits \cup {0} /\ lim \in [Requests -> Limits \cup {0}]
      BY DEF TypeOK, TypeRequests
    <2>2. Limits \subseteq Nat
      BY GatewayPoolAssumption DEF GatewayPoolAssumption
    <2>3. lim' = [lim EXCEPT ![r] = seen[r][a]] /\ leases[a] < seen[r][a]
      BY DEF Pick
    <2>4. Limits \cup {0} \subseteq Nat
      BY <2>2
    <2>5. seen[r][a] \in Nat
      BY <2>1, <2>4
    <2>6. lim'[r] = seen[r][a]
      BY <2>1, <2>3
    <2>. QED
      BY <2>3, <2>5, <2>6
  <1>. QED
    BY <1>1, <1>2 DEF Holders, Holding

LEMMA ReleasedHolders ==
  ASSUME TypeOK, NEW r \in Requests, pc[r] \in Holding, Release(r),
         NEW a \in Accounts, a = on[r]
  PROVE  /\ r \in Holders(a)
         /\ Holders(a)' = Holders(a) \ {r}
         /\ \A b \in Accounts \ {a} : Holders(b)' = Holders(b)
         /\ \A q \in Requests \ {r} : lim'[q] = lim[q]
  <1>1. /\ pc'[r] = "idle"
        /\ \A q \in Requests \ {r} : pc'[q] = pc[q] /\ on'[q] = on[q] /\ lim'[q] = lim[q]
    BY DEF Release, Goto, TypeOK, TypeRequests
  <1>. QED
    BY <1>1 DEF Holders, Holding

LEMMA InitLeases == Init => LeasesAccounted /\ AdmissionBound
  <1>. SUFFICES ASSUME Init PROVE LeasesAccounted /\ AdmissionBound
    OBVIOUS
  <1>1. \A a \in Accounts : Holders(a) = {} /\ leases[a] = 0
    BY DEF Init, Holders, Holding
  <1>. QED
    BY <1>1, FS_EmptySet DEF LeasesAccounted, AdmissionBound

LEMMA StepLeases ==
  ASSUME TypeOK, LeasesAccounted, [Next]_vars
  PROVE  LeasesAccounted'
  <1>1. CASE Unleased
    BY <1>1 DEF Unleased, LeasesAccounted
  <1>2. ASSUME NEW r \in Requests, NEW a \in Accounts, Pick(r, a)
        PROVE  LeasesAccounted'
    <2>1. Cardinality(Holders(a)') = Cardinality(Holders(a)) + 1
      BY <1>2, PickedHolders, HoldersFinite, FS_AddElement
    <2>2. leases' = [leases EXCEPT ![a] = @ + 1] /\ leases \in [Accounts -> Nat]
      BY <1>2 DEF Pick, TypeOK
    <2>3. \A b \in Accounts \ {a} : Cardinality(Holders(b)') = Cardinality(Holders(b))
      BY <1>2, PickedHolders
    <2>. QED
      BY <2>1, <2>2, <2>3 DEF LeasesAccounted
  <1>3. ASSUME NEW r \in Requests, pc[r] \in Holding, Release(r)
        PROVE  LeasesAccounted'
    <2>0. PICK a \in Accounts : a = on[r]
      BY <1>3 DEF TypeOK, TypeRequests
    <2>1. Cardinality(Holders(a)') = Cardinality(Holders(a)) - 1
      <3>1. r \in Holders(a) /\ Holders(a)' = Holders(a) \ {r}
        BY <1>3, <2>0, ReleasedHolders
      <3>. QED
        BY <3>1, HoldersFinite, FS_RemoveElement
    <2>2. leases' = [leases EXCEPT ![a] = @ - 1] /\ leases \in [Accounts -> Nat]
      BY <1>3, <2>0 DEF Release, TypeOK
    <2>3. \A b \in Accounts \ {a} : Cardinality(Holders(b)') = Cardinality(Holders(b))
      BY <1>3, <2>0, ReleasedHolders
    <2>. QED
      BY <2>1, <2>2, <2>3 DEF LeasesAccounted
  <1>. QED
    BY <1>1, <1>2, <1>3, LeaseSteps

LEMMA StepAdmission ==
  ASSUME TypeOK, LeasesAccounted, AdmissionBound, [Next]_vars
  PROVE  AdmissionBound'
  <1>1. CASE Unleased
    BY <1>1 DEF Unleased, AdmissionBound
  <1>2. ASSUME NEW r \in Requests, NEW a \in Accounts, Pick(r, a)
        PROVE  AdmissionBound'
    <2>. SUFFICES ASSUME NEW b \in Accounts, NEW H \in SUBSET Holders(b)', H # {}
                  PROVE  \E q \in H : Cardinality(H) <= lim'[q]
      BY DEF AdmissionBound
    <2>1. CASE H \subseteq Holders(b)
      <3>1. PICK q \in H : Cardinality(H) <= lim[q]
        BY <2>1 DEF AdmissionBound
      <3>2. q # r /\ q \in Requests
        BY <1>2, <2>1, <3>1 DEF Pick, Holders, Holding
      <3>. QED
        BY <1>2, <3>1, <3>2, PickedHolders
    <2>2. CASE ~(H \subseteq Holders(b))
      <3>1. b = a /\ r \in H /\ H \subseteq Holders(a) \cup {r}
        BY <1>2, <2>2, PickedHolders
      <3>2. /\ IsFiniteSet(Holders(a) \cup {r})
            /\ Cardinality(Holders(a) \cup {r}) = Cardinality(Holders(a)) + 1
        BY <1>2, PickedHolders, HoldersFinite, FS_AddElement
      <3>3. Cardinality(H) \in Nat /\ Cardinality(H) <= Cardinality(Holders(a)) + 1
        BY <3>1, <3>2, FS_Subset, FS_CardinalityType
      <3>4. Cardinality(Holders(a)) < lim'[r] /\ lim'[r] \in Nat
        BY <1>2, PickedHolders DEF LeasesAccounted
      <3>. QED
        BY <3>1, <3>3, <3>4, HoldersFinite
    <2>. QED
      BY <2>1, <2>2
  <1>3. ASSUME NEW r \in Requests, pc[r] \in Holding, Release(r)
        PROVE  AdmissionBound'
    <2>. SUFFICES ASSUME NEW b \in Accounts, NEW H \in SUBSET Holders(b)', H # {}
                  PROVE  \E q \in H : Cardinality(H) <= lim'[q]
      BY DEF AdmissionBound
    <2>0. PICK a \in Accounts : a = on[r]
      BY <1>3 DEF TypeOK, TypeRequests
    <2>1. H \subseteq Holders(b) /\ r \notin H
      BY <1>3, <2>0, ReleasedHolders DEF Holders
    <2>2. PICK q \in H : Cardinality(H) <= lim[q]
      BY <2>1 DEF AdmissionBound
    <2>. QED
      BY <1>3, <2>0, <2>1, <2>2, ReleasedHolders DEF Holders
  <1>. QED
    BY <1>1, <1>2, <1>3, LeaseSteps

-----------------------------------------------------------------------------
(* Sweeps.  OneCheckPerAccount is not inductive: it needs that the flag keeps
   all sweeps but one away, and that a sweep that is over has no check left. *)

SweepsExclude ==
  /\ \A s \in Sweeps, a \in Accounts : chk[s][a] # "none" => sweep[s] # "off"
  /\ \A s \in Sweeps : sweep[s] # "off" => healthRunning
  /\ \A s1, s2 \in Sweeps : sweep[s1] # "off" /\ sweep[s2] # "off" => s1 = s2

LEMMA InitSweeps == Init => SweepsExclude
  BY DEF Init, SweepsExclude

LEMMA StepSweeps ==
  ASSUME TypeOK, SweepsExclude, [Next]_vars
  PROVE  SweepsExclude'
  <1>1. ASSUME UNCHANGED sweepVars PROVE SweepsExclude'
    BY <1>1 DEF sweepVars, SweepsExclude
  <1>2. ASSUME NEW r \in Requests, List(r) \/ Serve(r) PROVE UNCHANGED sweepVars
    BY <1>2 DEF List, Serve, Refuse, Pick, Load, LoadFail, Forward, Save, SaveFail, Mark,
                MarkFail, Close
  <1>3. ASSUME NEW a \in Accounts, Operate(a) PROVE UNCHANGED sweepVars
    BY <1>3 DEF Operate, UpdateAccount, DeleteAccount, Import, CoolOff
  <1>4. ASSUME NEW s \in Sweeps, SweepBegin(s) PROVE SweepsExclude'
    BY <1>4 DEF SweepBegin, SweepsExclude, TypeOK, TypeSweeps
  <1>5. ASSUME NEW s \in Sweeps, SweepCancel(s) PROVE SweepsExclude'
    BY <1>5 DEF SweepCancel, SweepsExclude, TypeOK, TypeSweeps
  <1>6. ASSUME NEW s \in Sweeps, SweepEnd(s) PROVE SweepsExclude'
    BY <1>6 DEF SweepEnd, SweepsExclude, TypeOK, TypeSweeps
  <1>7. ASSUME NEW s \in Sweeps, NEW a \in Accounts, CheckOne(s, a) PROVE SweepsExclude'
    <2>1. chk[s][a] # "none" /\ UNCHANGED <<healthRunning, sweep>>
      BY <1>7 DEF CheckOne, CheckDrop, CheckLoad, CheckLoadFail, CheckCall, CheckSave,
                  CheckSaveFail, CheckMark, CheckMarkFail
    <2>2. \E step : Check(s, a, step)
      BY <1>7 DEF CheckOne, CheckDrop, CheckLoad, CheckLoadFail, CheckCall, CheckSave,
                  CheckSaveFail, CheckMark, CheckMarkFail
    <2>. QED
      BY <2>1, <2>2 DEF Check, SweepsExclude, TypeOK, TypeSweeps
  <1>. QED
    BY <1>1, <1>2, <1>3, <1>4, <1>5, <1>6, <1>7 DEF Next, vars

-----------------------------------------------------------------------------
(* What a step may do to a row: nothing at all, or a write to one row that is
   not deleted; such a write deletes it, keeps its health, or is a verdict. *)

Verdict(a, new) == \E s \in Sweeps : chk[s][a] = "mark" /\ new = WithVerdict(a, verdict[s][a])
OneWrite ==
  \E a \in Accounts, new \in Row :
    /\ row' = [row EXCEPT ![a] = new] /\ row[a].status # "deleted"
    /\ new.status = "deleted" \/ new.health = row[a].health \/ Verdict(a, new)

LEMMA RowSteps ==
  ASSUME TypeOK, [Next]_vars
  PROVE  UNCHANGED row \/ OneWrite
  <1>1. ASSUME NEW r \in Requests,
               List(r) \/ Refuse(r) \/ (\E a \in Accounts : Pick(r, a)) \/ Load(r) \/ LoadFail(r)
               \/ Forward(r) \/ SaveFail(r) \/ MarkFail(r) \/ Close(r)
        PROVE  UNCHANGED row
    BY <1>1 DEF List, Refuse, Pick, Load, LoadFail, Forward, SaveFail, MarkFail, Close
  <1>2. ASSUME NEW s \in Sweeps,
               \/ SweepBegin(s) \/ SweepCancel(s) \/ SweepEnd(s)
               \/ \E a \in Accounts : CheckDrop(s, a) \/ CheckLoad(s, a) \/ CheckLoadFail(s, a)
                                      \/ CheckCall(s, a) \/ CheckSaveFail(s, a) \/ CheckMarkFail(s, a)
        PROVE  UNCHANGED row
    BY <1>2 DEF SweepBegin, SweepCancel, SweepEnd, CheckDrop, CheckLoad, CheckLoadFail, CheckCall,
                CheckSaveFail, CheckMarkFail
  <1>3. ASSUME NEW a \in Accounts, Write(a, WithTokens(a)) PROVE OneWrite
    <2>1. WithTokens(a) \in Row /\ row[a] \in Row
      BY RowsWritten DEF TypeOK
    <2>2. WithTokens(a).health = row[a].health
      BY <2>1 DEF WithTokens, Row
    <2>. QED
      BY <1>3, <2>1, <2>2 DEF OneWrite, Write, Stored
  <1>4. ASSUME NEW a \in Accounts, NEW ans, Write(a, WithAnswer(a, ans)) PROVE OneWrite
    <2>1. WithAnswer(a, ans) \in Row /\ row[a] \in Row
      BY RowsWritten DEF TypeOK
    <2>2. WithAnswer(a, ans).health = row[a].health
      BY <2>1 DEF WithAnswer, Row
    <2>. QED
      BY <1>4, <2>1, <2>2 DEF OneWrite, Write, Stored
  <1>5. ASSUME NEW s \in Sweeps, NEW a \in Accounts, CheckMark(s, a) PROVE OneWrite
    <2>1. WithVerdict(a, verdict[s][a]) \in Row
      BY RowsWritten DEF TypeOK
    <2>. QED
      BY <1>5, <2>1 DEF CheckMark, OneWrite, Verdict, Write, Stored
  <1>6. ASSUME NEW a \in Accounts, Operate(a) PROVE OneWrite
    <2>. row[a] \in Row
      BY DEF TypeOK
    <2>1. CASE UpdateAccount(a)
      <3>1. PICK e \in BOOLEAN, n \in Limits : Write(a, [row[a] EXCEPT !.enabled = e, !.limit = n])
        BY <2>1 DEF UpdateAccount
      <3>2. [row[a] EXCEPT !.enabled = e, !.limit = n] \in Row
        BY RowsWritten DEF TypeOK
      <3>3. [row[a] EXCEPT !.enabled = e, !.limit = n].health = row[a].health
        BY DEF Row
      <3>. QED
        BY <3>1, <3>2, <3>3 DEF OneWrite, Write, Stored
    <2>2. CASE DeleteAccount(a)
      <3>1. [NewRow EXCEPT !.status = "deleted"] \in Row
            /\ [NewRow EXCEPT !.status = "deleted"].status = "deleted"
        BY RowsWritten DEF TypeOK, Row
      <3>. QED
        BY <2>2, <3>1 DEF DeleteAccount, OneWrite, Write, Stored
    <2>3. CASE Import(a)
      <3> DEFINE new == [row[a] EXCEPT !.status = "stored", !.auth = "active", !.cooling = FALSE]
      <3>1. new \in Row /\ new.health = row[a].health
        BY DEF Row
      <3>2. row' = [row EXCEPT ![a] = new] /\ row[a].status # "deleted"
        BY <2>3 DEF Import
      <3>. QED
        BY <3>1, <3>2 DEF OneWrite
    <2>4. CASE CoolOff(a)
      <3>1. [row[a] EXCEPT !.cooling = FALSE] \in Row
            /\ [row[a] EXCEPT !.cooling = FALSE].health = row[a].health
        BY DEF Row
      <3>. QED
        BY <2>4, <3>1 DEF CoolOff, OneWrite, Write, Stored
    <2>. QED
      BY <1>6, <2>1, <2>2, <2>3, <2>4 DEF Operate
  <1>7. ASSUME NEW r \in Requests, Save(r) \/ Mark(r) PROVE OneWrite
    <2>1. on[r] \in Accounts
      BY <1>7 DEF Save, Mark, TypeOK, TypeRequests, Holding
    <2>. QED
      BY <1>3, <1>4, <1>7, <2>1 DEF Save, Mark
  <1>8. ASSUME NEW s \in Sweeps, NEW a \in Accounts, CheckSave(s, a) PROVE OneWrite
    BY <1>3, <1>8 DEF CheckSave
  <1>. QED
    BY <1>1, <1>2, <1>5, <1>6, <1>7, <1>8 DEF Next, Serve, CheckOne, vars

LEMMA RowKept ==
  ASSUME TypeOK, [Next]_vars, NEW a \in Accounts, row[a].status = "deleted"
  PROVE  row'[a] = row[a]
  BY RowSteps DEF OneWrite, TypeOK

LEMMA HealthKept ==
  ASSUME TypeOK, [Next]_vars, NEW a \in Accounts,
         row[a].health = "unhealthy", row'[a].health # "unhealthy", row'[a].status = "stored"
  PROVE  \E s \in Sweeps : chk[s][a] = "mark" /\ verdict[s][a] = "healthy"
  <1>1. row'[a] # row[a] /\ row[a] \in Row
    BY DEF TypeOK
  <1>2. row'[a].status # "deleted" /\ row'[a].health # row[a].health
    OBVIOUS
  <1>3. Verdict(a, row'[a])
    BY <1>1, <1>2, RowSteps DEF OneWrite, TypeOK
  <1>4. \A v : v # "healthy" => WithVerdict(a, v).health = "unhealthy"
    BY <1>1 DEF WithVerdict, Row
  <1>. QED
    BY <1>3, <1>4 DEF Verdict

-----------------------------------------------------------------------------
(* Theorems. *)

IInv == TypeOK /\ LeasesAccounted /\ AdmissionBound /\ SweepsExclude

LEMMA Inductive == Spec => []IInv
  <1>1. Init => IInv
    BY InitTypeOK, InitLeases, InitSweeps DEF IInv
  <1>2. IInv /\ [Next]_vars => IInv'
    BY StepTypeOK, StepLeases, StepAdmission, StepSweeps DEF IInv
  <1>. QED
    BY <1>1, <1>2, PTL DEF Spec

(* The store's rows, the lease counts, the requests and the sweeps keep their
   types; in particular no lease count falls below zero. *)
THEOREM TypeCorrect == Spec => []TypeOK
  <1>1. IInv => TypeOK
    BY DEF IInv
  <1>. QED
    BY <1>1, Inductive, PTL

(* The lease count of an account is the number of requests that hold it. *)
THEOREM LeasesAreAccounted == Spec => []LeasesAccounted
  <1>1. IInv => LeasesAccounted
    BY DEF IInv
  <1>. QED
    BY <1>1, Inductive, PTL

(* Any requests that hold an account together include one that was admitted
   under a limit no smaller than their number. *)
THEOREM AdmissionIsBounded == Spec => []AdmissionBound
  <1>1. IInv => AdmissionBound
    BY DEF IInv
  <1>. QED
    BY <1>1, Inductive, PTL

(* No account is under two health checks at once. *)
THEOREM ChecksExclude == Spec => []OneCheckPerAccount
  <1>1. IInv => OneCheckPerAccount
    BY DEF IInv, SweepsExclude, OneCheckPerAccount
  <1>. QED
    BY <1>1, Inductive, PTL

(* A deleted row is never written again. *)
THEOREM DeletionIsFinal == Spec => DeletedStaysDeleted
  <1>1. IInv /\ [Next]_vars =>
          [\A a \in Accounts : row[a].status = "deleted" => row'[a] = row[a]]_vars
    BY RowKept DEF IInv
  <1>. QED
    BY <1>1, Inductive, PTL DEF Spec, DeletedStaysDeleted

(* Only a check that found it healthy makes an unhealthy account selectable. *)
THEOREM OnlyChecksHeal == Spec => UnhealthyUntilChecked
  <1>1. IInv /\ [Next]_vars =>
          [\A a \in Accounts :
             row[a].health = "unhealthy" /\ row'[a].health # "unhealthy" /\ row'[a].status = "stored"
               => \E s \in Sweeps : chk[s][a] = "mark" /\ verdict[s][a] = "healthy"]_vars
    BY HealthKept DEF IInv
  <1>. QED
    BY <1>1, Inductive, PTL DEF Spec, UnhealthyUntilChecked
=============================================================================
