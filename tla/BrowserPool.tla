---- MODULE BrowserPool ----
(***************************************************************************)
(* The pool of long-lived browser processes (internal/turnstile/           *)
(* browser_pool.go): a call borrows one slot from a channel, uses its      *)
(* browser and puts the slot back; Close waits for the calls in flight and *)
(* then ends every browser. What is done in a browser is external. The     *)
(* work in an open context ends within a time limit, well or not; the      *)
(* launch of a browser and the opening of a context run without a deadline *)
(* and may never return. The engine warms the pool before its workers      *)
(* start and closes it when it returns.                                    *)
(***************************************************************************)
EXTENDS Naturals

CONSTANTS Borrowers,  \* the goroutines that solve
          Slots,      \* the pool's workers
          Threshold,  \* consecutive failures after which a slot's browser is ended
          Nil

ASSUME BrowserPoolAssumption == Nil \notin Slots /\ Threshold \in Nat \ {0}

VARIABLES ready,     \* the slots in the channel
          user,      \* how far each call is, and the slot it holds
          browser,   \* the slots whose browser process is alive
          streak,    \* failStreak of each slot
          closing,   \* Close has begun: the flag and the closed channel
          toClose    \* the slots Close has still to end, and how far it is

bVars == <<ready, user, browser, streak, closing, toClose>>

NoCallOf == [pc |-> "idle", slot |-> Nil]

PoolTypeOK ==
    /\ ready \in SUBSET Slots
    /\ user \in [Borrowers -> [pc : {"idle", "counted", "borrowed", "opening", "solving",
                                     "returning"},
                               slot : Slots \cup {Nil}]]
    /\ browser \in SUBSET Slots
    /\ streak \in [Slots -> 0..Threshold]
    /\ closing \in BOOLEAN
    /\ toClose \in [phase : {"cold", "before", "waiting", "ending", "over"}, slots : SUBSET Slots]

PoolInit ==
    /\ ready = Slots
    /\ user = [b \in Borrowers |-> NoCallOf]
    /\ browser = {}
    /\ streak = [w \in Slots |-> 0]
    /\ closing = FALSE
    /\ toClose = [phase |-> "cold", slots |-> Slots]

UserStep(b, from, to) == user[b].pc = from /\ user' = [user EXCEPT ![b].pc = to]

\* Warm starts the browsers; if one does not start the engine returns, and closes the pool.
Warm ==
    /\ toClose.phase = "cold"
    /\ \/ browser' = Slots /\ toClose' = [toClose EXCEPT !.phase = "before"] /\ UNCHANGED closing
       \/ /\ browser' \in SUBSET Slots \ {Slots}
          /\ closing' = TRUE /\ toClose' = [toClose EXCEPT !.phase = "waiting"]
    /\ UNCHANGED <<ready, user, streak>>

\* Under the mutex: a call is refused once the pool is closing, or counted as in flight.
SolveEnter(b) ==
    /\ ~closing /\ toClose.phase # "cold"
    /\ UserStep(b, "idle", "counted")
    /\ UNCHANGED <<ready, browser, streak, closing, toClose>>

Borrow(b) ==
    /\ user[b].pc = "counted"
    /\ \E w \in ready : /\ ready' = ready \ {w}
                        /\ user' = [user EXCEPT ![b] = [pc |-> "borrowed", slot |-> w]]
    /\ UNCHANGED <<browser, streak, closing, toClose>>

\* The call is cancelled, or the pool closes, before a slot is free.
GiveUp(b) ==
    /\ UserStep(b, "counted", "idle")
    /\ UNCHANGED <<ready, browser, streak, closing, toClose>>

\* ensureBrowser: the slot's browser is started when it is not alive.
Launch(b) ==
    /\ UserStep(b, "borrowed", "opening")
    /\ browser' = browser \cup {user[b].slot}
    /\ UNCHANGED <<ready, streak, closing, toClose>>

\* newSolveContext: an isolated browser context for this call, or a fresh tab.
OpenContext(b) ==
    /\ UserStep(b, "opening", "solving")
    /\ UNCHANGED <<ready, browser, streak, closing, toClose>>

SolveOk(b) ==
    /\ UserStep(b, "solving", "returning")
    /\ streak' = [streak EXCEPT ![user[b].slot] = 0]
    /\ UNCHANGED <<ready, browser, closing, toClose>>

\* The browser did not start or the work failed: too many times in a row end the browser.
SolveFails(b) ==
    /\ \E at \in {"borrowed", "opening", "solving"} : UserStep(b, at, "returning")
    /\ LET w == user[b].slot IN
         IF streak[w] + 1 >= Threshold
            THEN browser' = browser \ {w} /\ streak' = [streak EXCEPT ![w] = 0]
            ELSE streak' = [streak EXCEPT ![w] = @ + 1] /\ UNCHANGED browser
    /\ UNCHANGED <<ready, closing, toClose>>

\* Mutant: a slot may get lost on the way back.
GiveBackLost(b) ==
    /\ user[b].pc = "returning"
    /\ user' = [user EXCEPT ![b] = NoCallOf]
    /\ ready' \in {ready, ready \cup {user[b].slot}}
    /\ UNCHANGED <<browser, streak, closing, toClose>>

\* The slot goes back to the channel, or, once that is closed, either way; then the call is over.
GiveBack(b) ==
    /\ user[b].pc = "returning"
    /\ user' = [user EXCEPT ![b] = NoCallOf]
    /\ \/ ready' = ready \cup {user[b].slot}
       \/ closing /\ UNCHANGED ready
    /\ UNCHANGED <<browser, streak, closing, toClose>>

CloseBegin ==
    /\ toClose.phase = "before"
    /\ closing' = TRUE
    /\ toClose' = [toClose EXCEPT !.phase = "waiting"]
    /\ UNCHANGED <<ready, user, browser, streak>>

\* Mutant: Close does not wait for the calls in flight.
CloseAtOnce ==
    /\ toClose.phase = "waiting"
    /\ toClose' = [toClose EXCEPT !.phase = "ending"]
    /\ UNCHANGED <<ready, user, browser, streak, closing>>

CloseWait ==
    /\ toClose.phase = "waiting"
    /\ \A b \in Borrowers : user[b].pc = "idle"
    /\ toClose' = [toClose EXCEPT !.phase = "ending"]
    /\ UNCHANGED <<ready, user, browser, streak, closing>>

\* Mutant: Close ends the slots it finds in the channel.
CloseReadySlot(w) ==
    /\ toClose.phase = "ending" /\ w \in toClose.slots \cap ready
    /\ browser' = browser \ {w}
    /\ toClose' = IF toClose.slots = {w} THEN [phase |-> "over", slots |-> {}]
                                         ELSE [toClose EXCEPT !.slots = @ \ {w}]
    /\ UNCHANGED <<ready, user, streak, closing>>

CloseSlot(w) ==
    /\ toClose.phase = "ending" /\ w \in toClose.slots
    /\ browser' = browser \ {w}
    /\ toClose' = IF toClose.slots = {w} THEN [phase |-> "over", slots |-> {}]
                                         ELSE [toClose EXCEPT !.slots = @ \ {w}]
    /\ UNCHANGED <<ready, user, streak, closing>>

CloseStep == CloseWait \/ \E w \in Slots : CloseSlot(w)
BorrowerStep(b) ==
    \/ GiveUp(b) \/ Borrow(b) \/ Launch(b) \/ OpenContext(b) \/ SolveOk(b) \/ SolveFails(b)
    \/ GiveBack(b)

\* The calls into chromedp that run under context.Background, without a deadline.
Unbounded == {"borrowed", "opening"}
BoundedStep(b) == user[b].pc \notin Unbounded /\ BorrowerStep(b)

PoolNext ==
    \/ \E b \in Borrowers : SolveEnter(b) \/ BorrowerStep(b)
    \/ Warm \/ CloseBegin \/ CloseStep

\* Goroutines go on where the pool is, what has a time limit ends, and Close goes on as soon as it
\* can; nothing is assumed of a launch and of the opening of a context.
PoolFairness == WF_bVars(CloseStep) /\ \A b \in Borrowers : WF_bVars(BoundedStep(b))

PoolSafety == PoolInit /\ [][PoolNext]_bVars

PoolSpec == PoolSafety /\ PoolFairness

----------------------------------------------------------------------------
Held(b) == user[b].slot # Nil

\* A browser is used by one call at a time, and no slot is lost: until the pool closes each is in the
\* channel or with one call, however the calls end; and a call at work has its browser alive, whether
\* other calls fail or the pool closes meanwhile (browser_pool.go:53, "Each Solve borrows exactly one
\* worker").
SlotsAreConserved ==
    /\ \A b, c \in Borrowers : Held(b) /\ user[b].slot = user[c].slot => b = c
    /\ \A b \in Borrowers : Held(b) => user[b].slot \notin ready
    /\ \A b \in Borrowers : user[b].pc \in {"opening", "solving"} => user[b].slot \in browser
    /\ closing \/ Slots = ready \cup {user[b].slot : b \in {c \in Borrowers : Held(c)}}

\* No browser outlives the pool: when Close has returned none is alive, and none is started again.
NoBrowserOutlivesThePool == toClose.phase = "over" => browser = {}

\* No launch and no opening of a context lasts for ever: the code does not see to it
\* (browser.go:127, 331), so this is a premise.
LaunchesEnd == \A b \in Borrowers : []<>(user[b].pc \notin Unbounded)

\* A pool that is being closed is closed, unless Chrome hangs in a launch: calls that wait for a slot
\* give up, no new one comes in, and Close is not kept waiting by anything else (browser_pool.go:206).
CloseReturns == LaunchesEnd => (closing ~> (toClose.phase = "over"))

====
