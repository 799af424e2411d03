---- MODULE RequestLog ----
(***************************************************************************)
(* The request log of the API gateway (internal/gateway/request_log.go): a *)
(* bounded buffer of the latest requests and the token totals since it was *)
(* cleared. Handlers append when they have answered, in any order, while   *)
(* the window takes snapshots and clears; RWMutex makes each one step.     *)
(***************************************************************************)
EXTENDS Naturals, Sequences

CONSTANTS Handlers,  \* requests under way at once
          Tokens,    \* tokens a request may have used
          Limit,     \* capacity of the buffer
          MaxLog     \* bound: requests ever logged

ASSUME RequestLogAssumption == Tokens \subseteq Nat /\ Limit \in Nat \ {0} /\ MaxLog \in Nat

VARIABLES entries,   \* the buffer, oldest first
          nextID,    \* the ID given last
          usage,     \* the totals: requests and tokens
          answering, \* the handlers that are answering a request
          view,      \* the last snapshot the window took, newest first
          dropped    \* history: how many entries were evicted since the log was cleared, and their tokens

lVars == <<entries, nextID, usage, answering, view, dropped>>

Entry == [id : Nat, tokens : Tokens]
Totals == [requests : Nat, tokens : Nat]
Nothing == [requests |-> 0, tokens |-> 0]

LogTypeOK ==
    /\ entries \in Seq(Entry)
    /\ nextID \in Nat
    /\ usage \in Totals
    /\ answering \in SUBSET Handlers
    /\ view \in Seq(Entry)
    /\ dropped \in Totals

LogInit ==
    /\ entries = <<>> /\ nextID = 0 /\ usage = Nothing
    /\ answering = {} /\ view = <<>> /\ dropped = Nothing

\* A request comes in: the middleware hands it on.
Serve(h) ==
    /\ h \notin answering
    /\ answering' = answering \cup {h}
    /\ UNCHANGED <<entries, nextID, usage, view, dropped>>

Plus(t, n) == [requests |-> t.requests + 1, tokens |-> t.tokens + n]

\* Mutant: the buffer makes room one entry too late.
LogAppendLate(h, n) ==
    /\ h \in answering /\ nextID < MaxLog
    /\ answering' = answering \ {h}
    /\ nextID' = nextID + 1
    /\ usage' = Plus(usage, n)
    /\ LET e == [id |-> nextID + 1, tokens |-> n] IN
         IF Len(entries) > Limit
            THEN /\ entries' = Append(Tail(entries), e)
                 /\ dropped' = Plus(dropped, Head(entries).tokens)
            ELSE entries' = Append(entries, e) /\ UNCHANGED dropped
    /\ UNCHANGED view

\* Append: a new ID, the totals, and the oldest entry makes room when the buffer is full.
LogAppend(h, n) ==
    /\ h \in answering /\ nextID < MaxLog
    /\ answering' = answering \ {h}
    /\ nextID' = nextID + 1
    /\ usage' = Plus(usage, n)
    /\ LET e == [id |-> nextID + 1, tokens |-> n] IN
         IF Len(entries) = Limit
            THEN /\ entries' = Append(Tail(entries), e)
                 /\ dropped' = Plus(dropped, Head(entries).tokens)
            ELSE entries' = Append(entries, e) /\ UNCHANGED dropped
    /\ UNCHANGED view

\* Snapshot(limit): that many entries, newest first; all of them for a limit out of range.
Snapshot(n) ==
    /\ LET size == IF n <= 0 \/ n > Len(entries) THEN Len(entries) ELSE n IN
         view' = [i \in 1..size |-> entries[Len(entries) + 1 - i]]
    /\ UNCHANGED <<entries, nextID, usage, answering, dropped>>

\* Mutant: a clear starts the IDs again.
ClearRestarts ==
    /\ entries' = <<>> /\ usage' = Nothing /\ dropped' = Nothing /\ nextID' = 0
    /\ UNCHANGED <<answering, view>>

\* Clear keeps the IDs going.
Clear ==
    /\ entries' = <<>> /\ usage' = Nothing /\ dropped' = Nothing
    /\ UNCHANGED <<nextID, answering, view>>

LogNext ==
    \/ \E h \in Handlers : Serve(h) \/ \E n \in Tokens : LogAppend(h, n)
    \/ \E n \in 0..Limit : Snapshot(n)
    \/ Clear

LogSpec == LogInit /\ [][LogNext]_lVars

----------------------------------------------------------------------------
Shown(s) == {s[i].id : i \in DOMAIN s}

\* The buffer holds the latest requests since it was cleared, as many as fit, under consecutive IDs up
\* to the last one given: an eviction neither loses, nor repeats, nor reorders any
\* (request_log.go:76, TestRequestLogBufferBoundsAndClears).
LogKeepsTheLatest ==
    /\ Len(entries) <= Limit
    /\ \A i \in DOMAIN entries : entries[i].id = nextID - Len(entries) + i
    /\ usage.requests = dropped.requests + Len(entries)
    /\ dropped.requests > 0 => Len(entries) = Limit

\* An ID is given once: what the window showed before a clear is told from what it shows after, by
\* IDs alone. A snapshot is in falling order and only the log's past or present.
IdsNeverReused ==
    [][/\ \A i \in DOMAIN entries' : entries'[i] \notin {entries[j] : j \in DOMAIN entries} =>
             entries'[i].id > nextID /\ entries'[i].id \notin Shown(view)
       /\ \A i, j \in DOMAIN view' : i < j => view'[i].id > view'[j].id]_lVars

====
