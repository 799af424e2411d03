---- MODULE GatewayRequestProofs ----
(***************************************************************************)
(* What a request to the gateway leaves behind, for any provider, any      *)
(* capacity of the log and any number of handlers. First the stream: what  *)
(* the client reads is always the beginning of a good stream and is whole  *)
(* when the handler returns, and its usage reaches the log. Then the log:  *)
(* what its buffer holds, and that an ID is given once.                    *)
(***************************************************************************)
EXTENDS GatewayStream, RequestLog, SequenceTheorems, FiniteSetTheorems, TLAPS

USE GatewayStreamAssumption DEF GatewayStreamAssumption
USE RequestLogAssumption DEF RequestLogAssumption

Kinds == {"message_start", "block_start", "block_delta", "block_stop", "message_stop", "role", "chunk",
          "usage", "done", "body", "tool_use", "end_turn"}
Events == [kind : Kinds, block : 0..NoBlock, usage : TokenUsage]
CallTables == UNION {[D -> Call] : D \in SUBSET Items}
StreamWriters == [dialect : Dialects \cup {"none"}, status : {"none", "ok", "error"}, started : BOOLEAN,
            finished : BOOLEAN, textBlock : 0..NoBlock, nextBlock : 0..MaxEvents, calls : CallTables,
            usage : TokenUsage]

LEMMA EventTypes ==
  ASSUME NEW k \in Kinds, NEW b \in 0..NoBlock, NEW u \in TokenUsage
  PROVE  /\ Event(k, b, u) \in Events
         /\ Event(k, b, u).kind = k /\ Event(k, b, u).block = b /\ Event(k, b, u).usage = u
  BY DEF Event, Events

LEMMA PlainTypes ==
  ASSUME NEW k \in Kinds, NEW b \in 0..NoBlock
  PROVE  /\ Plain(k, b) \in Events
         /\ Plain(k, b).kind = k /\ Plain(k, b).block = b /\ Plain(k, b).usage = NoUsage
<1>1. NoUsage \in TokenUsage
  BY DEF NoUsage, TokenUsage
<1> QED BY <1>1, EventTypes DEF Plain

\* A usage is summed once, however often it is normalized.
LEMMA LoggedOnce ==
  ASSUME NEW u \in TokenUsage
  PROVE  /\ NormalizeUsage(u) \in TokenUsage /\ WithoutTotal(u) \in TokenUsage
         /\ NormalizeUsage(NoUsage) = NoUsage /\ NoUsage \in TokenUsage
         /\ \A d : Logged(d, NormalizeUsage(u)) = Logged(d, u) /\ Logged(d, u) \in TokenUsage
<1> DEFINE i == u.input
           o == u.output
           t == u.total
<1>1. u = [input |-> i, output |-> o, total |-> t] /\ i \in Nat /\ o \in Nat /\ t \in Nat
  BY DEF TokenUsage
<1> HIDE DEF i, o, t
<1>2. NormalizeUsage(u) = [input |-> i, output |-> o, total |-> IF t = 0 THEN i + o ELSE t]
  BY <1>1 DEF NormalizeUsage
<1>3. WithoutTotal(u) = [input |-> i, output |-> o, total |-> 0]
  BY <1>1 DEF WithoutTotal
<1>4. NormalizeUsage(u) \in TokenUsage /\ WithoutTotal(u) \in TokenUsage
  BY <1>1, <1>2, <1>3 DEF TokenUsage
<1>5. WithoutTotal(NormalizeUsage(u)) = WithoutTotal(u)
  BY <1>2, <1>3 DEF WithoutTotal
<1>6. NormalizeUsage(NormalizeUsage(u)) = NormalizeUsage(u)
  BY <1>1, <1>2 DEF NormalizeUsage
<1>7. NormalizeUsage(WithoutTotal(u)) \in TokenUsage
  BY <1>1, <1>3 DEF NormalizeUsage, TokenUsage
<1>8. NormalizeUsage(NoUsage) = NoUsage /\ NoUsage \in TokenUsage
  BY DEF NormalizeUsage, NoUsage, TokenUsage
<1> QED BY <1>4, <1>5, <1>6, <1>7, <1>8 DEF Logged

LEMMA CallTypes ==
  ASSUME NEW c \in CallTables
  PROVE  /\ c = [i \in DOMAIN c |-> c[i]] /\ DOMAIN c \subseteq Items
         /\ \A i \in DOMAIN c : c[i] \in Call
  BY DEF CallTables

LEMMA NoCalls == <<>> \in CallTables /\ DOMAIN <<>> = {}
<1>1. <<>> \in [{} -> Call]
  OBVIOUS
<1> QED BY <1>1 DEF CallTables

\* One more event.
LEMMA OneMore ==
  ASSUME NEW o \in Seq(Events), NEW e \in Events
  PROVE  LET p == o \o <<e>> IN
         /\ p \in Seq(Events) /\ p # <<>> /\ Len(p) = Len(o) + 1
         /\ DOMAIN p = DOMAIN o \cup {Len(o) + 1} /\ Len(o) + 1 \notin DOMAIN o
         /\ p[Len(o) + 1] = e
         /\ \A n \in DOMAIN o : p[n] = o[n] /\ n \in Nat /\ n < Len(o) + 1
  OBVIOUS

LEMMA TwoTogether ==
  ASSUME NEW o \in Seq(Events), NEW es \in Seq(Events)
  PROVE  /\ o \o es \in Seq(Events) /\ Len(o) \in Nat
         /\ DOMAIN (o \o es) = 1..(Len(o) + Len(es)) /\ DOMAIN o = 1..Len(o) /\ DOMAIN es = 1..Len(es)
         /\ \A k \in DOMAIN (o \o es) : (o \o es)[k] = IF k <= Len(o) THEN o[k] ELSE es[k - Len(o)]
  OBVIOUS

----------------------------------------------------------------------------
\* The blocks of an Anthropic stream: c are its calls, t its text block, nb the number of the next
\* one, ts whether the text block is stopped, o what is written.

Written(o, k, b) == \E n \in DOMAIN o : o[n].kind = k /\ o[n].block = b

BlocksStarted(nb, o) ==
    /\ \A n \in DOMAIN o : o[n].kind = "block_start" => o[n].block < nb
    /\ \A b \in 0..(nb - 1) : Written(o, "block_start", b)
    /\ \A m, n \in DOMAIN o : m < n /\ o[m].kind = "block_start" /\ o[n].kind = "block_start" =>
          o[m].block < o[n].block

BlocksOwned(c, t, nb) ==
    /\ t # NoBlock => t < nb
    /\ \A i \in DOMAIN c : c[i].block < nb /\ c[i].block # t
    /\ \A i, j \in DOMAIN c : c[i].block = c[j].block => i = j
    /\ \A b \in 0..(nb - 1) : b = t \/ \E i \in DOMAIN c : c[i].block = b

BlocksStopped(c, t, ts, o) ==
    /\ \A n \in DOMAIN o : o[n].kind = "block_stop" =>
          \/ ts /\ o[n].block = t
          \/ \E i \in DOMAIN c : c[i].closed /\ c[i].block = o[n].block
    /\ \A i \in DOMAIN c : c[i].closed => Written(o, "block_stop", c[i].block)
    /\ ts /\ t # NoBlock => Written(o, "block_stop", t)

\* L are the blocks that a delta may come into after their stop.
BlocksUsed(L, o) ==
    /\ \A n \in DOMAIN o : o[n].kind \in {"block_delta", "block_stop"} =>
          \E m \in DOMAIN o : m < n /\ o[m].kind = "block_start" /\ o[m].block = o[n].block
    /\ \A m, n \in DOMAIN o : m < n /\ o[m].kind = "block_stop"
                              /\ o[n].kind \in {"block_delta", "block_stop"} =>
          o[m].block # o[n].block \/ (o[n].kind = "block_delta" /\ o[n].block \in L)

BlocksInv(L, c, t, nb, ts, o) ==
    BlocksStarted(nb, o) /\ BlocksOwned(c, t, nb) /\ BlocksStopped(c, t, ts, o) /\ BlocksUsed(L, o)

LEMMA WrittenStays ==
  ASSUME NEW o \in Seq(Events), NEW e \in Events, NEW k, NEW b
  PROVE  Written(o \o <<e>>, k, b) <=> Written(o, k, b) \/ (e.kind = k /\ e.block = b)
<1> DEFINE p == o \o <<e>>
<1>1. /\ DOMAIN p = DOMAIN o \cup {Len(o) + 1} /\ p[Len(o) + 1] = e
      /\ \A n \in DOMAIN o : p[n] = o[n]
  BY OneMore
<1> HIDE DEF p
<1>2. Written(p, k, b) <=> Written(o, k, b) \/ (e.kind = k /\ e.block = b)
  BY <1>1 DEF Written
<1> QED BY <1>2 DEF p

\* An event that is not of any block.
LEMMA OtherKeepsBlocks ==
  ASSUME NEW L, NEW c \in CallTables, NEW t, NEW nb, NEW ts, NEW o \in Seq(Events), BlocksInv(L, c, t, nb, ts, o),
         NEW e \in Events, e.kind \notin {"block_start", "block_delta", "block_stop"}
  PROVE  BlocksInv(L, c, t, nb, ts, o \o <<e>>)
<1> DEFINE p == o \o <<e>>
<1>1. /\ DOMAIN p = DOMAIN o \cup {Len(o) + 1} /\ p[Len(o) + 1] = e
      /\ \A n \in DOMAIN o : p[n] = o[n]
  BY OneMore
<1>2. \A k, b : Written(o, k, b) => Written(p, k, b)
  BY WrittenStays
<1> HIDE DEF p
<1>3. BlocksStarted(nb, p)
  BY <1>1, <1>2 DEF BlocksInv, BlocksStarted
<1>4. BlocksStopped(c, t, ts, p)
  BY <1>1, <1>2 DEF BlocksInv, BlocksStopped
<1>5. BlocksUsed(L, p)
  BY <1>1 DEF BlocksInv, BlocksUsed
<1> QED BY <1>3, <1>4, <1>5 DEF BlocksInv, p

\* A call that takes block b is added to the calls c.
NewCall(c, d, b) ==
    \E i : /\ i \notin DOMAIN c /\ DOMAIN d = DOMAIN c \cup {i} /\ d[i].block = b /\ d[i].closed = FALSE
           /\ \A j \in DOMAIN c : d[j] = c[j]

\* The next block is started, for the text or for a call that had none.
LEMMA StartKeepsBlocks ==
  ASSUME NEW L, NEW c \in CallTables, NEW t \in 0..NoBlock, NEW nb \in 0..MaxEvents, NEW ts \in BOOLEAN,
         NEW o \in Seq(Events), BlocksInv(L, c, t, nb, ts, o),
         NEW d \in CallTables, NEW x \in 0..NoBlock, NEW e \in Events,
         e.kind = "block_start", e.block = nb,
         \/ t = NoBlock /\ x = nb /\ d = c /\ ts = FALSE
         \/ x = t /\ NewCall(c, d, nb)
  PROVE  BlocksInv(L, d, x, nb + 1, ts, o \o <<e>>)
<1> DEFINE p == o \o <<e>>
<1>1. /\ DOMAIN p = DOMAIN o \cup {Len(o) + 1} /\ p[Len(o) + 1] = e
      /\ \A n \in DOMAIN o : p[n] = o[n] /\ n \in Nat /\ n < Len(o) + 1
  BY OneMore
<1>2. \A k, b : Written(p, k, b) <=> Written(o, k, b) \/ (e.kind = k /\ e.block = b)
  BY WrittenStays
<1>3. /\ \A n \in DOMAIN o : o[n] \in Events
      /\ \A i \in DOMAIN c : c[i] \in Call
      /\ \A i \in DOMAIN d : d[i] \in Call
      /\ Len(o) \in Nat
  BY CallTypes
<1>4. nb # NoBlock /\ nb \in Nat /\ nb < nb + 1
  BY DEF NoBlock
<1> HIDE DEF p
<1>5. BlocksStarted(nb + 1, p)
  <2>1. \A b \in 0..nb : b = nb \/ b \in 0..(nb - 1)
    BY <1>4
  <2>2. \A n \in DOMAIN o : o[n].kind = "block_start" => o[n].block \in Nat /\ o[n].block < nb
    BY <1>3 DEF BlocksInv, BlocksStarted, Events, NoBlock
  <2>3. \A n \in DOMAIN p : p[n].kind = "block_start" => p[n].block < nb + 1
    BY <1>1, <1>4, <2>2
  <2>4. \A b \in 0..(nb + 1 - 1) : Written(p, "block_start", b)
    BY <1>2, <1>4, <2>1 DEF BlocksInv, BlocksStarted
  <2>5. \A m, n \in DOMAIN p : m < n /\ p[m].kind = "block_start" /\ p[n].kind = "block_start" =>
           p[m].block < p[n].block
    BY <1>1, <1>3, <2>2 DEF BlocksInv, BlocksStarted
  <2> QED BY <2>3, <2>4, <2>5 DEF BlocksStarted
<1>6. BlocksOwned(d, x, nb + 1)
  <2>1. \A b \in 0..nb : b = nb \/ b \in 0..(nb - 1)
    BY <1>4
  <2>2. /\ \A i \in DOMAIN c : c[i].block \in Nat /\ c[i].block < nb /\ c[i].block # nb /\ c[i].block < nb + 1
        /\ t # NoBlock => t \in Nat /\ t < nb /\ t # nb /\ t < nb + 1
    BY <1>3, <1>4 DEF BlocksInv, BlocksOwned, Call, NoBlock
  <2>3. \A b \in 0..(nb + 1 - 1) : b \in 0..nb
    BY <1>4
  <2>4. CASE t = NoBlock /\ x = nb /\ d = c
    BY <1>4, <2>1, <2>2, <2>3, <2>4 DEF BlocksInv, BlocksOwned
  <2>5. CASE x = t /\ NewCall(c, d, nb)
    <3>1. PICK i : /\ i \notin DOMAIN c /\ DOMAIN d = DOMAIN c \cup {i} /\ d[i].block = nb
                   /\ \A j \in DOMAIN c : d[j] = c[j]
      BY <2>5 DEF NewCall
    <3>2. \A b \in 0..(nb + 1 - 1) : b = x \/ \E j \in DOMAIN d : d[j].block = b
      BY <2>1, <2>3, <2>5, <3>1 DEF BlocksInv, BlocksOwned
    <3>3. \A j \in DOMAIN d : d[j].block < nb + 1 /\ d[j].block # x
      BY <1>4, <2>2, <2>5, <3>1 DEF BlocksInv, BlocksOwned
    <3>4. \A j, k \in DOMAIN d : d[j].block = d[k].block => j = k
      BY <2>2, <3>1 DEF BlocksInv, BlocksOwned
    <3> QED BY <2>2, <2>5, <3>2, <3>3, <3>4 DEF BlocksOwned
  <2> QED BY <2>4, <2>5
<1>7. BlocksStopped(d, x, ts, p)
  <2>1. DOMAIN c \subseteq DOMAIN d /\ \A i \in DOMAIN c : d[i] = c[i]
    BY DEF NewCall
  <2>2. \A i \in DOMAIN d : d[i].closed => i \in DOMAIN c
    BY DEF NewCall
  <2>3. \A n \in DOMAIN p : p[n].kind = "block_stop" => n \in DOMAIN o /\ p[n] = o[n]
    BY <1>1
  <2>4. ts => x = t
    OBVIOUS
  <2> QED BY <1>2, <2>1, <2>2, <2>3, <2>4 DEF BlocksInv, BlocksStopped
<1>8. BlocksUsed(L, p)
  BY <1>1 DEF BlocksInv, BlocksUsed
<1> QED BY <1>5, <1>6, <1>7, <1>8 DEF BlocksInv, p

LEMMA CallStartKeepsBlocks ==
  ASSUME NEW L, NEW c \in CallTables, NEW t \in 0..NoBlock, NEW nb \in 0..MaxEvents, NEW ts \in BOOLEAN,
         NEW o \in Seq(Events), BlocksInv(L, c, t, nb, ts, o),
         NEW d \in CallTables, NEW e \in Events, e.kind = "block_start", e.block = nb, NewCall(c, d, nb)
  PROVE  BlocksInv(L, d, t, nb + 1, ts, o \o <<e>>)
  BY StartKeepsBlocks

\* Whose block is still open: no stop has been written for it.
OpenBlock(c, t, ts, b) == (~ts /\ b = t /\ t # NoBlock) \/ \E i \in DOMAIN c : ~c[i].closed /\ b = c[i].block

LEMMA OpenIsNotStopped ==
  ASSUME NEW L, NEW c, NEW t, NEW nb \in Nat, NEW ts \in BOOLEAN, NEW o,
         BlocksInv(L, c, t, nb, ts, o), NEW b \in Nat, OpenBlock(c, t, ts, b)
  PROVE  ~Written(o, "block_stop", b) /\ Written(o, "block_start", b)
<1>1. b < nb
  BY DEF OpenBlock, BlocksInv, BlocksOwned
<1>2. b \in 0..(nb - 1)
  BY <1>1
<1>3. ~Written(o, "block_stop", b)
  <2> SUFFICES ASSUME NEW n \in DOMAIN o, o[n].kind = "block_stop", o[n].block = b PROVE FALSE
    BY DEF Written
  <2>1. (ts /\ b = t) \/ \E i \in DOMAIN c : c[i].closed /\ c[i].block = b
    BY DEF BlocksInv, BlocksStopped
  <2> QED BY <2>1 DEF OpenBlock, BlocksInv, BlocksOwned
<1> QED BY <1>2, <1>3 DEF BlocksInv, BlocksStarted

\* A delta or a stop goes into a block that is open, or a delta into one of L.
LEMMA UseKeepsUsed ==
  ASSUME NEW L, NEW o \in Seq(Events), BlocksUsed(L, o), NEW e \in Events, e.kind \in {"block_delta", "block_stop"},
         Written(o, "block_start", e.block),
         ~Written(o, "block_stop", e.block) \/ (e.kind = "block_delta" /\ e.block \in L)
  PROVE  BlocksUsed(L, o \o <<e>>)
<1> DEFINE p == o \o <<e>>
<1>1. /\ DOMAIN p = DOMAIN o \cup {Len(o) + 1} /\ p[Len(o) + 1] = e
      /\ \A n \in DOMAIN o : p[n] = o[n] /\ n \in Nat /\ n < Len(o) + 1
      /\ Len(o) + 1 \notin DOMAIN o
  BY OneMore
<1> HIDE DEF p
<1>2. \A n \in DOMAIN p : p[n].kind \in {"block_delta", "block_stop"} =>
          \E m \in DOMAIN p : m < n /\ p[m].kind = "block_start" /\ p[m].block = p[n].block
  <2> SUFFICES ASSUME NEW n \in DOMAIN p, p[n].kind \in {"block_delta", "block_stop"}
               PROVE  \E m \in DOMAIN p : m < n /\ p[m].kind = "block_start" /\ p[m].block = p[n].block
    OBVIOUS
  <2>1. CASE n \in DOMAIN o
    BY <1>1, <2>1 DEF BlocksUsed
  <2>2. CASE n = Len(o) + 1
    BY <1>1, <2>2 DEF Written
  <2> QED BY <1>1, <2>1, <2>2
<1>3. \A m, n \in DOMAIN p : m < n /\ p[m].kind = "block_stop"
                              /\ p[n].kind \in {"block_delta", "block_stop"} =>
          p[m].block # p[n].block \/ (p[n].kind = "block_delta" /\ p[n].block \in L)
  <2> SUFFICES ASSUME NEW m \in DOMAIN p, NEW n \in DOMAIN p, m < n, p[m].kind = "block_stop",
                      p[n].kind \in {"block_delta", "block_stop"}
               PROVE  p[m].block # p[n].block \/ (p[n].kind = "block_delta" /\ p[n].block \in L)
    OBVIOUS
  <2>1. m \in DOMAIN o
    BY <1>1
  <2>2. CASE n \in DOMAIN o
    BY <1>1, <2>1, <2>2 DEF BlocksUsed
  <2>3. CASE n = Len(o) + 1
    BY <1>1, <2>1, <2>3 DEF Written
  <2> QED BY <1>1, <2>2, <2>3
<1> QED BY <1>2, <1>3 DEF BlocksUsed, p

LEMMA UseKeepsStarted ==
  ASSUME NEW o \in Seq(Events), NEW nb, BlocksStarted(nb, o), NEW e \in Events, e.kind # "block_start"
  PROVE  BlocksStarted(nb, o \o <<e>>)
<1> DEFINE p == o \o <<e>>
<1>1. /\ DOMAIN p = DOMAIN o \cup {Len(o) + 1} /\ p[Len(o) + 1] = e
      /\ \A n \in DOMAIN o : p[n] = o[n]
  BY OneMore
<1>2. \A b : Written(o, "block_start", b) => Written(p, "block_start", b)
  BY WrittenStays
<1> HIDE DEF p
<1>3. BlocksStarted(nb, p)
  BY <1>1, <1>2 DEF BlocksStarted
<1> QED BY <1>3 DEF p

LEMMA DeltaKeepsBlocks ==
  ASSUME NEW L, NEW c, NEW t, NEW nb \in Nat, NEW ts \in BOOLEAN, NEW o \in Seq(Events),
         BlocksInv(L, c, t, nb, ts, o), NEW e \in Events, e.kind = "block_delta",
         \/ OpenBlock(c, t, ts, e.block)
         \/ e.block \in L /\ \E i \in DOMAIN c : c[i].block = e.block
  PROVE  BlocksInv(L, c, t, nb, ts, o \o <<e>>)
<1> DEFINE p == o \o <<e>>
<1>0. e.block \in Nat
  BY DEF Events, NoBlock
<1>1. BlocksUsed(L, p) /\ BlocksStarted(nb, p)
  <2>1. CASE OpenBlock(c, t, ts, e.block)
    BY <1>0, <2>1, OpenIsNotStopped, UseKeepsUsed, UseKeepsStarted DEF BlocksInv
  <2>2. CASE e.block \in L /\ \E i \in DOMAIN c : c[i].block = e.block
    <3>1. e.block < nb
      BY <2>2 DEF BlocksInv, BlocksOwned
    <3>2. e.block \in 0..(nb - 1)
      BY <1>0, <3>1
    <3>3. Written(o, "block_start", e.block)
      BY <3>2 DEF BlocksInv, BlocksStarted
    <3> QED BY <2>2, <3>3, UseKeepsUsed, UseKeepsStarted DEF BlocksInv
  <2> QED BY <2>1, <2>2
<1>2. /\ DOMAIN p = DOMAIN o \cup {Len(o) + 1} /\ p[Len(o) + 1] = e
      /\ \A n \in DOMAIN o : p[n] = o[n]
  BY OneMore
<1>3. \A k, b : Written(o, k, b) => Written(p, k, b)
  BY WrittenStays
<1> HIDE DEF p
<1>4. BlocksStopped(c, t, ts, p)
  BY <1>2, <1>3 DEF BlocksInv, BlocksStopped
<1> QED BY <1>1, <1>4 DEF BlocksInv, p

\* The stop of the text block (x turns TRUE) or of one call (d is closed there).
LEMMA StopKeepsBlocks ==
  ASSUME NEW L, NEW c, NEW t, NEW nb \in Nat, NEW ts \in BOOLEAN, NEW o \in Seq(Events),
         BlocksInv(L, c, t, nb, ts, o), NEW e \in Events, e.kind = "block_stop", OpenBlock(c, t, ts, e.block),
         NEW d, NEW x \in BOOLEAN, DOMAIN d = DOMAIN c, \A i \in DOMAIN c : d[i].block = c[i].block,
         \/ x /\ ~ts /\ e.block = t /\ d = c
         \/ /\ x = ts
            /\ \E i \in DOMAIN c : /\ d[i].closed /\ c[i].block = e.block
                                   /\ \A j \in DOMAIN c : j # i => d[j].closed = c[j].closed
  PROVE  BlocksInv(L, d, t, nb, x, o \o <<e>>)
<1> DEFINE p == o \o <<e>>
<1>0. e.block \in Nat
  BY DEF Events, NoBlock
<1>1. BlocksUsed(L, p) /\ BlocksStarted(nb, p)
  BY <1>0, OpenIsNotStopped, UseKeepsUsed, UseKeepsStarted DEF BlocksInv
<1>2. /\ DOMAIN p = DOMAIN o \cup {Len(o) + 1} /\ p[Len(o) + 1] = e
      /\ \A n \in DOMAIN o : p[n] = o[n]
  BY OneMore
<1>3. \A k, b : Written(p, k, b) <=> Written(o, k, b) \/ (e.kind = k /\ e.block = b)
  BY WrittenStays
<1> HIDE DEF p
<1>4. BlocksOwned(d, t, nb)
  BY DEF BlocksInv, BlocksOwned
<1>5. BlocksStopped(d, t, x, p)
  <2>1. CASE x /\ ~ts /\ e.block = t /\ d = c
    BY <1>2, <1>3, <2>1 DEF BlocksInv, BlocksStopped
  <2>2. CASE x = ts /\ \E i \in DOMAIN c : /\ d[i].closed /\ c[i].block = e.block
                                           /\ \A j \in DOMAIN c : j # i => d[j].closed = c[j].closed
    <3>1. PICK i \in DOMAIN c : /\ d[i].closed /\ c[i].block = e.block
                                /\ \A j \in DOMAIN c : j # i => d[j].closed = c[j].closed
      BY <2>2
    <3>2. \A n \in DOMAIN p : p[n].kind = "block_stop" =>
             (x /\ p[n].block = t) \/ \E j \in DOMAIN d : d[j].closed /\ d[j].block = p[n].block
      <4> SUFFICES ASSUME NEW n \in DOMAIN p, p[n].kind = "block_stop"
                   PROVE  (x /\ p[n].block = t) \/ \E j \in DOMAIN d : d[j].closed /\ d[j].block = p[n].block
        OBVIOUS
      <4>1. CASE n = Len(o) + 1
        BY <1>2, <3>1, <4>1
      <4>2. CASE n \in DOMAIN o
        <5>1. (ts /\ o[n].block = t) \/ \E j \in DOMAIN c : c[j].closed /\ c[j].block = o[n].block
          BY <1>2, <4>2 DEF BlocksInv, BlocksStopped
        <5>2. \A j \in DOMAIN c : c[j].closed => d[j].closed
          BY <3>1
        <5> QED BY <1>2, <2>2, <4>2, <5>1, <5>2
      <4> QED BY <1>2, <4>1, <4>2
    <3>3. \A j \in DOMAIN d : d[j].closed => Written(p, "block_stop", d[j].block)
      BY <1>3, <3>1 DEF BlocksInv, BlocksStopped
    <3>4. x /\ t # NoBlock => Written(p, "block_stop", t)
      BY <1>3, <2>2 DEF BlocksInv, BlocksStopped
    <3> QED BY <3>2, <3>3, <3>4 DEF BlocksStopped
  <2> QED BY <2>1, <2>2
<1> QED BY <1>1, <1>4, <1>5 DEF BlocksInv, p

\* An order names every element once.
LEMMA OrderOfAll ==
  ASSUME NEW S, IsFiniteSet(S), NEW f \in SetToSeqs(S)
  PROVE  /\ Cardinality(S) \in Nat /\ DOMAIN f = 1..Cardinality(S)
         /\ \A k \in DOMAIN f : f[k] \in S
         /\ \A k, l \in DOMAIN f : f[k] = f[l] => k = l
         /\ \A i \in S : \E k \in DOMAIN f : f[k] = i
<1>1. Cardinality(S) \in Nat /\ IsFiniteSet(1..Cardinality(S)) /\ Cardinality(1..Cardinality(S)) = Cardinality(S)
  BY FS_CardinalityType, FS_Interval
<1>2. f \in Injection(1..Cardinality(S), S)
  BY DEF SetToSeqs, Injection, IsInjective
<1>3. f \in Surjection(1..Cardinality(S), S)
  BY <1>1, <1>2, FS_Injection
<1> QED BY <1>1, <1>2, <1>3 DEF SetToSeqs, Surjection

\* es are the stops of the calls of c that are open, in the order f.
StopsOf(c, f, n, es) ==
    /\ DOMAIN f = 1..n
    /\ \A k \in 1..n : f[k] \in DOMAIN c /\ ~c[f[k]].closed
    /\ \A k, l \in 1..n : f[k] = f[l] => k = l
    /\ \A i \in DOMAIN c : ~c[i].closed => \E k \in 1..n : f[k] = i
    /\ Len(es) = n
    /\ \A k \in 1..n : es[k].kind = "block_stop" /\ es[k].block = c[f[k]].block

AllClosed(c, d) == DOMAIN d = DOMAIN c /\ \A i \in DOMAIN c : d[i].block = c[i].block /\ d[i].closed

\* The stops of all the calls still open, in any order.
LEMMA StopAllKeepsBlocks ==
  ASSUME NEW L, NEW c \in CallTables, NEW t, NEW nb \in Nat, NEW ts \in BOOLEAN, NEW o \in Seq(Events),
         BlocksInv(L, c, t, nb, ts, o),
         NEW f, NEW n \in Nat, NEW es \in Seq(Events), StopsOf(c, f, n, es), NEW d, AllClosed(c, d)
  PROVE  BlocksInv(L, d, t, nb, ts, o \o es)
<1>0. /\ DOMAIN f = 1..n /\ Len(es) = n
      /\ \A k \in 1..n : f[k] \in DOMAIN c /\ ~c[f[k]].closed
      /\ \A k, l \in 1..n : f[k] = f[l] => k = l
      /\ \A i \in DOMAIN c : ~c[i].closed => \E k \in 1..n : f[k] = i
      /\ \A k \in 1..n : es[k].kind = "block_stop" /\ es[k].block = c[f[k]].block
      /\ DOMAIN d = DOMAIN c /\ \A i \in DOMAIN c : d[i].block = c[i].block /\ d[i].closed
  BY DEF StopsOf, AllClosed
<1> USE <1>0
<1> DEFINE p == o \o es
<1>1. /\ p \in Seq(Events) /\ Len(o) \in Nat
      /\ DOMAIN p = 1..(Len(o) + n) /\ DOMAIN o = 1..Len(o) /\ DOMAIN es = 1..n
      /\ \A k \in DOMAIN p : p[k] = IF k <= Len(o) THEN o[k] ELSE es[k - Len(o)]
  BY TwoTogether
<1>2. \A k \in DOMAIN o : k \in DOMAIN p /\ k <= Len(o) /\ p[k] = o[k]
  BY <1>1
<1>3. ASSUME NEW k \in DOMAIN p, k \notin DOMAIN o
      PROVE  k > Len(o) /\ k - Len(o) \in 1..n /\ p[k] = es[k - Len(o)]
  BY <1>1, <1>3
<1>4. ASSUME NEW k \in 1..n PROVE Len(o) + k \in DOMAIN p /\ p[Len(o) + k] = es[k]
  <2>1. Len(o) + k \in DOMAIN p /\ ~(Len(o) + k <= Len(o)) /\ Len(o) + k - Len(o) = k
    BY <1>1
  <2> QED BY <1>1, <2>1
<1>5. \A k, b : Written(o, k, b) => Written(p, k, b)
  BY <1>2 DEF Written
<1>6. \A k \in 1..n : es[k].block \in Nat /\ OpenBlock(c, t, ts, es[k].block)
  BY CallTypes DEF OpenBlock, Call, NoBlock
<1>7. \A k \in 1..n : /\ ~Written(o, "block_stop", es[k].block)
                      /\ Written(o, "block_start", es[k].block)
  BY <1>6, OpenIsNotStopped
<1> HIDE DEF p
<1>8. \A k \in DOMAIN p : p[k].kind # "block_stop" => k \in DOMAIN o
  BY <1>3
<1>9. BlocksStarted(nb, p)
  BY <1>2, <1>5, <1>8 DEF BlocksInv, BlocksStarted
<1>10. BlocksOwned(d, t, nb)
  BY DEF BlocksInv, BlocksOwned
<1>11. BlocksStopped(d, t, ts, p)
  <2>1. ASSUME NEW k \in DOMAIN p, p[k].kind = "block_stop"
        PROVE  (ts /\ p[k].block = t) \/ \E i \in DOMAIN d : d[i].closed /\ d[i].block = p[k].block
    <3>1. CASE k \in DOMAIN o
      <4>1. (ts /\ o[k].block = t) \/ \E i \in DOMAIN c : c[i].closed /\ c[i].block = o[k].block
        BY <1>2, <2>1, <3>1 DEF BlocksInv, BlocksStopped
      <4> QED BY <1>2, <3>1, <4>1
    <3>2. CASE k \notin DOMAIN o
      BY <1>3, <2>1, <3>2
    <3> QED BY <3>1, <3>2
  <2>2. ASSUME NEW i \in DOMAIN d PROVE Written(p, "block_stop", d[i].block)
    <3>1. CASE c[i].closed
      BY <1>5, <3>1 DEF BlocksInv, BlocksStopped
    <3>2. CASE ~c[i].closed
      <4>1. PICK k \in 1..n : f[k] = i
        BY <3>2
      <4>2. es[k].kind = "block_stop" /\ es[k].block = d[i].block
        BY <4>1
      <4> QED BY <1>4, <4>2 DEF Written
    <3> QED BY <3>1, <3>2
  <2>3. ts /\ t # NoBlock => Written(p, "block_stop", t)
    BY <1>5 DEF BlocksInv, BlocksStopped
  <2> QED BY <2>1, <2>2, <2>3 DEF BlocksStopped
<1>12. BlocksUsed(L, p)
  <2>1. ASSUME NEW k \in DOMAIN p, p[k].kind \in {"block_delta", "block_stop"}
        PROVE  \E m \in DOMAIN p : m < k /\ p[m].kind = "block_start" /\ p[m].block = p[k].block
    <3>1. CASE k \in DOMAIN o
      BY <1>2, <2>1, <3>1 DEF BlocksInv, BlocksUsed
    <3>2. CASE k \notin DOMAIN o
      <4>1. k > Len(o) /\ k - Len(o) \in 1..n /\ p[k] = es[k - Len(o)] /\ k \in Nat
        BY <1>1, <1>3, <3>2
      <4>2. PICK m \in DOMAIN o : o[m].kind = "block_start" /\ o[m].block = p[k].block
        BY <1>7, <4>1 DEF Written
      <4>3. m \in DOMAIN p /\ p[m] = o[m] /\ m < k
        BY <1>1, <1>2, <4>1
      <4> QED BY <4>2, <4>3
    <3> QED BY <3>1, <3>2
  <2>2. ASSUME NEW m \in DOMAIN p, NEW k \in DOMAIN p, m < k, p[m].kind = "block_stop",
               p[k].kind \in {"block_delta", "block_stop"}
        PROVE  p[m].block # p[k].block \/ (p[k].kind = "block_delta" /\ p[k].block \in L)
    <3>1. CASE k \in DOMAIN o
      <4>1. m \in DOMAIN o
        BY <1>1, <2>2, <3>1
      <4> QED BY <1>2, <2>2, <3>1, <4>1 DEF BlocksInv, BlocksUsed
    <3>2. CASE k \notin DOMAIN o /\ m \in DOMAIN o
      BY <1>2, <1>3, <1>7, <2>2, <3>2 DEF Written
    <3>3. CASE k \notin DOMAIN o /\ m \notin DOMAIN o
      <4> DEFINE x == m - Len(o)
                 y == k - Len(o)
      <4>1. x \in 1..n /\ y \in 1..n /\ p[m] = es[x] /\ p[k] = es[y] /\ x # y
        BY <1>1, <1>3, <2>2, <3>3
      <4> HIDE DEF x, y
      <4>2. f[x] # f[y] /\ f[x] \in DOMAIN c /\ f[y] \in DOMAIN c
        BY <4>1
      <4> QED BY <4>1, <4>2 DEF BlocksInv, BlocksOwned
    <3> QED BY <3>1, <3>2, <3>3
  <2> QED BY <2>1, <2>2 DEF BlocksUsed
<1> QED BY <1>9, <1>10, <1>11, <1>12 DEF BlocksInv, p

----------------------------------------------------------------------------
\* The writer's methods, on a stream that has been opened with a good status.

Unfinished(o) == \A n \in DOMAIN o : o[n].kind \notin Final \cup Reasons
OneStart(o) == o # <<>> /\ \A n \in DOMAIN o : o[n].kind = "message_start" <=> n = 1
Ended(w, o) ==
    /\ o[Len(o)].kind = "message_stop"
    /\ \A n \in DOMAIN o : o[n].kind \in Final => n = Len(o)
    /\ \E n \in DOMAIN o : o[n].kind = StopReason(w)
    /\ \A i \in DOMAIN w.calls : w.calls[i].closed

AnthropicInv(L, w, o) ==
    /\ w.started /\ OneStart(o)
    /\ BlocksInv(L, w.calls, w.textBlock, w.nextBlock, w.finished, o)
    /\ IF w.finished THEN Ended(w, o) ELSE Unfinished(o)

ChatOpen(w, o) ==
    /\ w.started <=> o # <<>>
    /\ DOMAIN w.calls # {} => w.started
    /\ \A n \in DOMAIN o : o[n].kind \in {"role", "chunk"} /\ (o[n].kind = "role" <=> n = 1)
ChatEnded(w, o) ==
    /\ o # <<>> /\ o[Len(o)].kind = "done"
    /\ \A n \in DOMAIN o : o[n].kind # "block_start"
    /\ \E n \in DOMAIN o : o[n].kind = StopReason(w)
    /\ \A n \in DOMAIN o : o[n].kind = "role" <=> n = 1 /\ o[n].kind \notin Reasons
    /\ \A n \in DOMAIN o : o[n].kind \in {"usage", "done"} => \E m \in 1..(n - 1) : o[m].kind \in Reasons
    /\ \A n \in DOMAIN o : o[n].kind \in Reasons =>
          \A m \in (n + 1)..Len(o) : o[m].kind \in {"usage", "done"}
    /\ \A n \in DOMAIN o : o[n].kind = "done" => n = Len(o)
ChatInv(w, o) == IF w.finished THEN ChatEnded(w, o) ELSE ChatOpen(w, o)

DialectInv(L, w, o) ==
    /\ w.dialect = "anthropic" => AnthropicInv(L, w, o)
    /\ w.dialect = "chat" => ChatInv(w, o)

\* What every method but finishStream does: the dialect, the status and the usage stay, none of its
\* events carries usage, and at most one block is new.
Ordinary(w, r) ==
    /\ r.w \in StreamWriters /\ r.es \in Seq(Events)
    /\ r.w.dialect = w.dialect /\ r.w.status = w.status /\ r.w.usage = w.usage
    /\ r.w.finished = w.finished
    /\ \A n \in DOMAIN r.es : r.es[n].usage = NoUsage
    /\ r.w.nextBlock <= w.nextBlock + 1

LEMMA TwoMore ==
  ASSUME NEW o \in Seq(Events), NEW d \in Events, NEW e \in Events
  PROVE  o \o <<d, e>> = (o \o <<d>>) \o <<e>> /\ <<d, e>> \in Seq(Events) /\ <<d>> \in Seq(Events)
<1>1. <<d>> \in Seq(Events) /\ <<e>> \in Seq(Events) /\ <<d, e>> \in Seq(Events)
  OBVIOUS
<1>2. <<d>> \o <<e>> = <<d, e>>
  <2>1. <<d>> \o <<e>> \in Seq(Events) /\ Len(<<d>> \o <<e>>) = 2 /\ Len(<<d, e>>) = 2
    OBVIOUS
  <2>2. \A k \in 1..2 : (<<d>> \o <<e>>)[k] = <<d, e>>[k]
    OBVIOUS
  <2> QED BY <1>1, <2>1, <2>2, SeqEqual
<1>3. (o \o <<d>>) \o <<e>> = o \o (<<d>> \o <<e>>)
  BY <1>1, ConcatAssociative
<1> QED BY <1>1, <1>2, <1>3

\* An event in the middle changes neither the beginning nor that the end is still to come.
LEMMA MiddleKeeps ==
  ASSUME NEW o \in Seq(Events), NEW e \in Events, e.kind \notin Final \cup Reasons \cup {"message_start"},
         OneStart(o), Unfinished(o)
  PROVE  OneStart(o \o <<e>>) /\ Unfinished(o \o <<e>>)
<1> DEFINE p == o \o <<e>>
<1>1. /\ DOMAIN p = DOMAIN o \cup {Len(o) + 1} /\ p[Len(o) + 1] = e /\ p # <<>>
      /\ \A n \in DOMAIN o : p[n] = o[n]
  BY OneMore
<1>2. Len(o) + 1 # 1
  BY EmptySeq DEF OneStart
<1> HIDE DEF p
<1>3. OneStart(p) /\ Unfinished(p)
  BY <1>1, <1>2 DEF OneStart, Unfinished
<1> QED BY <1>3 DEF p

\* A chunk of Chat Completions: the first one carries the role.
LEMMA ChunkKeeps ==
  ASSUME NEW w \in StreamWriters, NEW o \in Seq(Events), w.dialect = "chat", ~w.finished, ChatInv(w, o),
         NEW v \in StreamWriters, v.finished = w.finished, v.started = TRUE, NEW e \in Events,
         e.kind = IF w.started THEN "chunk" ELSE "role"
  PROVE  ChatInv(v, o \o <<e>>)
<1> DEFINE p == o \o <<e>>
<1>1. /\ DOMAIN p = DOMAIN o \cup {Len(o) + 1} /\ p[Len(o) + 1] = e /\ p # <<>>
      /\ \A n \in DOMAIN o : p[n] = o[n] /\ n < Len(o) + 1
  BY OneMore
<1>2. w.started <=> Len(o) + 1 # 1
  BY EmptySeq, LenProperties DEF ChatInv, ChatOpen
<1> HIDE DEF p
<1>3. ChatOpen(v, p)
  BY <1>1, <1>2 DEF ChatInv, ChatOpen
<1> QED BY <1>3 DEF p, ChatInv

LEMMA ResultParts == \A w, es : Result(w, es).w = w /\ Result(w, es).es = es
  BY DEF Result

LEMMA StartedAlready ==
  ASSUME NEW w, w.started
  PROVE  startAnthropic(w) = Result(w, <<>>) /\ startAnthropic(w).w = w /\ startAnthropic(w).es = <<>>
<1>1. startAnthropic(w) = Result(w, <<>>)
  BY DEF startAnthropic
<1> QED BY <1>1, ResultParts

LEMMA ThenStarted ==
  ASSUME NEW w, w.started, NEW v, NEW es \in Seq(Events)
  PROVE  Then(startAnthropic(w), v, es) = Result(v, es)
<1>1. <<>> \o es = es
  BY ConcatEmptySeq
<1>2. startAnthropic(w).es \o es = es
  BY <1>1, StartedAlready
<1> QED BY <1>2 DEF Then

\* A method that writes one chunk.
LEMMA ChunkMethod ==
  ASSUME NEW L, NEW w \in StreamWriters, NEW o \in Seq(Events), w.dialect = "chat", ~w.finished, ChatInv(w, o),
         NEW v \in StreamWriters, v.dialect = w.dialect, v.status = w.status, v.usage = w.usage,
         v.finished = w.finished, v.started = w.started, v.nextBlock = w.nextBlock,
         NEW b \in 0..NoBlock
  PROVE  /\ Ordinary(w, Chunk(v, b)) /\ DialectInv(L, Chunk(v, b).w, o \o Chunk(v, b).es)
         /\ Chunk(v, b).w.calls = v.calls
<1> DEFINE x == [v EXCEPT !.started = TRUE]
           e == Plain(IF v.started THEN "chunk" ELSE "role", b)
<1>1. Chunk(v, b).w = x /\ Chunk(v, b).es = <<e>>
  BY DEF Chunk, Result
<1>2. e \in Events /\ e.usage = NoUsage /\ e.kind = IF w.started THEN "chunk" ELSE "role"
  BY PlainTypes DEF Kinds
<1>3. /\ x \in StreamWriters /\ x.finished = w.finished /\ x.started = TRUE /\ x.dialect = w.dialect
      /\ x.status = w.status /\ x.usage = w.usage /\ x.nextBlock = w.nextBlock /\ x.calls = v.calls
  BY DEF StreamWriters
<1> HIDE DEF x, e
<1>4. ChatInv(x, o \o <<e>>)
  BY <1>2, <1>3, ChunkKeeps
<1>5. <<e>> \in Seq(Events) /\ \A n \in DOMAIN <<e>> : <<e>>[n].usage = NoUsage
  BY <1>2
<1>6. x.nextBlock <= w.nextBlock + 1
  BY <1>3 DEF StreamWriters
<1>7. Ordinary(w, Chunk(v, b))
  BY <1>1, <1>3, <1>5, <1>6 DEF Ordinary
<1> QED BY <1>1, <1>3, <1>4, <1>7 DEF DialectInv

\* writeDelta: the text goes into its block, which is started when it is the first.
LEMMA DeltaMethod ==
  ASSUME NEW L, NEW w \in StreamWriters, NEW o \in Seq(Events), w.dialect \in Dialects, ~w.finished,
         DialectInv(L, w, o), w.nextBlock < MaxEvents
  PROVE  /\ Ordinary(w, writeDelta(w)) /\ DialectInv(L, writeDelta(w).w, o \o writeDelta(w).es)
         /\ writeDelta(w).w.calls = w.calls
<1>1. CASE w.dialect = "chat"
  <2>1. writeDelta(w) = Chunk(w, NoBlock)
    BY <1>1 DEF writeDelta, Anthropic
  <2>2. NoBlock \in 0..NoBlock
    BY DEF NoBlock
  <2>3. ChatInv(w, o)
    BY <1>1 DEF DialectInv
  <2> QED BY <1>1, <2>1, <2>2, <2>3, ChunkMethod
<1>2. CASE w.dialect = "anthropic" /\ w.textBlock # NoBlock
  <2> DEFINE e == Plain("block_delta", w.textBlock)
  <2>1. AnthropicInv(L, w, o) /\ w.started
    BY <1>2 DEF DialectInv, AnthropicInv
  <2>2. e \in Events /\ e.kind = "block_delta" /\ e.block = w.textBlock /\ e.usage = NoUsage
    BY PlainTypes DEF Kinds, StreamWriters
  <2>3. writeDelta(w) = Then(startAnthropic(w), startAnthropic(w).w, <<e>>)
    BY <1>2 DEF writeDelta, Anthropic
  <2> HIDE DEF e
  <2>4. <<e>> \in Seq(Events) /\ \A n \in DOMAIN <<e>> : <<e>>[n].usage = NoUsage
    BY <2>2
  <2>5. writeDelta(w) = Result(w, <<e>>)
    <3>1. writeDelta(w) = Then(startAnthropic(w), w, <<e>>)
      BY <2>1, <2>3, StartedAlready
    <3> QED BY <2>1, <2>4, <3>1, ThenStarted
  <2>6. BlocksInv(L, w.calls, w.textBlock, w.nextBlock, w.finished, o \o <<e>>)
    <3>1. OpenBlock(w.calls, w.textBlock, w.finished, e.block)
      BY <1>2, <2>2 DEF OpenBlock
    <3>2. w.finished \in BOOLEAN /\ w.nextBlock \in Nat
      BY DEF StreamWriters
    <3> QED BY <2>1, <2>2, <3>1, <3>2, DeltaKeepsBlocks DEF AnthropicInv
  <2>7. OneStart(o \o <<e>>) /\ Unfinished(o \o <<e>>)
    BY <2>1, <2>2, MiddleKeeps DEF AnthropicInv, Final, Reasons
  <2>8. Ordinary(w, writeDelta(w))
    BY <2>4, <2>5 DEF Ordinary, Result, StreamWriters
  <2> QED BY <1>2, <2>1, <2>5, <2>6, <2>7, <2>8 DEF DialectInv, AnthropicInv, Result
<1>3. CASE w.dialect = "anthropic" /\ w.textBlock = NoBlock
  <2> DEFINE nb == w.nextBlock
             d == Plain("block_start", nb)
             e == Plain("block_delta", nb)
             x == [w EXCEPT !.textBlock = nb, !.nextBlock = nb + 1]
  <2>0. nb \in 0..MaxEvents /\ nb \in 0..NoBlock /\ nb + 1 \in 0..MaxEvents /\ nb # NoBlock /\ nb \in Nat
    BY DEF StreamWriters, NoBlock
  <2>1. AnthropicInv(L, w, o) /\ w.started
    BY <1>3 DEF DialectInv, AnthropicInv
  <2>2. /\ d \in Events /\ d.kind = "block_start" /\ d.block = nb /\ d.usage = NoUsage
        /\ e \in Events /\ e.kind = "block_delta" /\ e.block = nb /\ e.usage = NoUsage
    BY <2>0, PlainTypes DEF Kinds
  <2>3. /\ x \in StreamWriters /\ x.textBlock = nb /\ x.nextBlock = nb + 1 /\ x.calls = w.calls
        /\ x.finished = w.finished /\ x.started = w.started /\ x.dialect = w.dialect
        /\ x.status = w.status /\ x.usage = w.usage
    BY <2>0 DEF StreamWriters
  <2>4. writeDelta(w) = Then(startAnthropic(w), [startAnthropic(w).w EXCEPT !.textBlock = nb, !.nextBlock = nb + 1],
                             <<d, e>>)
    BY <1>3 DEF writeDelta, Anthropic
  <2>5. startAnthropic(w).w = w
    BY <2>1, StartedAlready
  <2>6. o \o <<d, e>> = (o \o <<d>>) \o <<e>> /\ <<d, e>> \in Seq(Events) /\ o \o <<d>> \in Seq(Events)
    BY <2>2, TwoMore, OneMore
  <2>7. \A n \in DOMAIN <<d, e>> : <<d, e>>[n].usage = NoUsage
    BY <2>2
  <2>8. writeDelta(w) = Result(x, <<d, e>>)
    <3>1. writeDelta(w) = Then(startAnthropic(w), x, <<d, e>>)
      BY <2>4, <2>5
    <3> QED BY <2>1, <2>6, <3>1, ThenStarted
  <2> HIDE DEF d, e, x
  <2>9. w.calls \in CallTables /\ w.finished = FALSE
    BY DEF StreamWriters
  <2>10. BlocksInv(L, w.calls, nb, nb + 1, FALSE, o \o <<d>>)
    <3>1. BlocksInv(L, w.calls, w.textBlock, nb, FALSE, o)
      BY <2>1, <2>9 DEF AnthropicInv
    <3>2. w.textBlock \in 0..NoBlock /\ FALSE \in BOOLEAN
      BY DEF StreamWriters
    <3> HIDE DEF nb
    <3> QED BY <1>3, <2>0, <2>2, <2>9, <3>1, <3>2, StartKeepsBlocks
  <2>11. BlocksInv(L, w.calls, nb, nb + 1, FALSE, (o \o <<d>>) \o <<e>>)
    <3>1. OpenBlock(w.calls, nb, FALSE, e.block) /\ nb + 1 \in Nat
      BY <2>0, <2>2 DEF OpenBlock
    <3> HIDE DEF nb
    <3> QED BY <2>2, <2>6, <2>10, <3>1, DeltaKeepsBlocks
  <2>12. OneStart((o \o <<d>>) \o <<e>>) /\ Unfinished((o \o <<d>>) \o <<e>>)
    <3>1. OneStart(o \o <<d>>) /\ Unfinished(o \o <<d>>)
      BY <2>1, <2>2, MiddleKeeps DEF AnthropicInv, Final, Reasons
    <3> QED BY <2>2, <2>6, <3>1, MiddleKeeps DEF Final, Reasons
  <2>13. AnthropicInv(L, x, o \o <<d, e>>)
    BY <2>1, <2>3, <2>6, <2>9, <2>11, <2>12 DEF AnthropicInv
  <2>14. Ordinary(w, Result(x, <<d, e>>))
    <3>1. x.nextBlock <= w.nextBlock + 1
      BY <2>0, <2>3
    <3>2. Result(x, <<d, e>>).w = x /\ Result(x, <<d, e>>).es = <<d, e>>
      BY ResultParts
    <3> QED BY <2>3, <2>6, <2>7, <3>1, <3>2 DEF Ordinary
  <2> QED BY <1>3, <2>3, <2>8, <2>13, <2>14, ResultParts DEF DialectInv
<1> QED BY <1>1, <1>2, <1>3 DEF Dialects

\* A call is added to the writer's table, and nothing else changes.
Added(w, v, i, b) ==
    /\ v \in StreamWriters /\ v.dialect = w.dialect /\ v.status = w.status /\ v.usage = w.usage
    /\ v.finished = w.finished /\ v.started = w.started /\ v.nextBlock = w.nextBlock
    /\ v.textBlock = w.textBlock
    /\ DOMAIN v.calls = DOMAIN w.calls \cup {i} /\ \A j \in DOMAIN w.calls : v.calls[j] = w.calls[j]
    /\ v.calls[i].block = b /\ v.calls[i].closed = FALSE
    /\ v.calls[i].index = Cardinality(DOMAIN w.calls)

NewIndex(c, d, i) ==
    /\ DOMAIN d = DOMAIN c \cup {i} /\ \A j \in DOMAIN c : d[j] = c[j]
    /\ d[i].index = Cardinality(DOMAIN c) /\ d[i].closed = FALSE

LEMMA WithCallAdds ==
  ASSUME NEW w \in StreamWriters, NEW i \in Items, i \notin DOMAIN w.calls, NEW b \in 0..NoBlock,
         Cardinality(DOMAIN w.calls) \in 0..MaxEvents
  PROVE  Added(w, withCall(w, i, b), i, b)
<1> DEFINE call == [index |-> Cardinality(DOMAIN w.calls), block |-> b, closed |-> FALSE]
           c == [j \in DOMAIN w.calls \cup {i} |-> IF j \in DOMAIN w.calls THEN w.calls[j] ELSE call]
<1>1. w.calls \in CallTables
  BY DEF StreamWriters
<1>2. call \in Call
  BY DEF Call, NoBlock
<1>3. c \in CallTables
  <2>1. DOMAIN w.calls \cup {i} \in SUBSET Items /\ \A j \in DOMAIN w.calls : w.calls[j] \in Call
    BY <1>1, CallTypes
  <2>2. c \in [DOMAIN w.calls \cup {i} -> Call]
    BY <1>2, <2>1
  <2> QED BY <2>1, <2>2 DEF CallTables
<1>4. withCall(w, i, b) = [w EXCEPT !.calls = c]
  BY DEF withCall
<1>5. DOMAIN c = DOMAIN w.calls \cup {i} /\ c[i] = call /\ \A j \in DOMAIN w.calls : c[j] = w.calls[j]
  OBVIOUS
<1>6. call.block = b /\ call.closed = FALSE /\ call.index = Cardinality(DOMAIN w.calls)
  OBVIOUS
<1>7. withCall(w, i, b).calls = c
  BY <1>4 DEF StreamWriters
<1> HIDE DEF c, call
<1>8. /\ withCall(w, i, b) \in StreamWriters
      /\ withCall(w, i, b).dialect = w.dialect /\ withCall(w, i, b).status = w.status
      /\ withCall(w, i, b).usage = w.usage /\ withCall(w, i, b).finished = w.finished
      /\ withCall(w, i, b).started = w.started /\ withCall(w, i, b).nextBlock = w.nextBlock
      /\ withCall(w, i, b).textBlock = w.textBlock
  BY <1>3, <1>4 DEF StreamWriters
<1> QED BY <1>5, <1>6, <1>7, <1>8 DEF Added

\* startToolCall: a new call takes the next block, or is announced with the next index.
LEMMA CallMethod ==
  ASSUME NEW L, NEW w \in StreamWriters, NEW o \in Seq(Events), w.dialect \in Dialects, ~w.finished,
         DialectInv(L, w, o), w.nextBlock < MaxEvents, Cardinality(DOMAIN w.calls) \in 0..MaxEvents,
         NEW i \in Items, i \notin DOMAIN w.calls
  PROVE  /\ Ordinary(w, startToolCall(w, i))
         /\ DialectInv(L, startToolCall(w, i).w, o \o startToolCall(w, i).es)
         /\ NewIndex(w.calls, startToolCall(w, i).w.calls, i)
<1> DEFINE n == Cardinality(DOMAIN w.calls)
<1>0. n \in 0..NoBlock /\ NoBlock \in 0..NoBlock
  BY DEF NoBlock
<1>1. CASE w.dialect = "chat"
  <2> DEFINE v == withCall(w, i, NoBlock)
  <2>1. startToolCall(w, i) = Chunk(v, n)
    BY <1>1 DEF startToolCall, Anthropic
  <2>2. Added(w, v, i, NoBlock)
    BY <1>0, WithCallAdds
  <2>3. ChatInv(w, o)
    BY <1>1 DEF DialectInv
  <2>4. NewIndex(w.calls, v.calls, i)
    BY <2>2 DEF Added, NewIndex
  <2> HIDE DEF v, n
  <2>5. /\ Ordinary(w, Chunk(v, n)) /\ DialectInv(L, Chunk(v, n).w, o \o Chunk(v, n).es)
        /\ Chunk(v, n).w.calls = v.calls
    BY <1>0, <1>1, <2>2, <2>3, ChunkMethod DEF Added
  <2> QED BY <2>1, <2>4, <2>5
<1>2. CASE w.dialect = "anthropic"
  <2> DEFINE nb == w.nextBlock
             v == [w EXCEPT !.nextBlock = @ + 1]
             x == withCall(v, i, nb)
             e == Plain("block_start", nb)
  <2>0. nb \in 0..MaxEvents /\ nb \in 0..NoBlock /\ nb + 1 \in 0..MaxEvents /\ nb # NoBlock /\ nb \in Nat
    BY DEF StreamWriters, NoBlock
  <2>1. AnthropicInv(L, w, o) /\ w.started
    BY <1>2 DEF DialectInv, AnthropicInv
  <2>2. e \in Events /\ e.kind = "block_start" /\ e.block = nb /\ e.usage = NoUsage
    BY <2>0, PlainTypes DEF Kinds
  <2>3. /\ v \in StreamWriters /\ v.nextBlock = nb + 1 /\ v.calls = w.calls /\ v.textBlock = w.textBlock
        /\ v.finished = w.finished /\ v.started = w.started /\ v.dialect = w.dialect
        /\ v.status = w.status /\ v.usage = w.usage
    BY <2>0 DEF StreamWriters
  <2>4. startToolCall(w, i) = Result(x, <<e>>)
    <3>1. startToolCall(w, i) = Then(startAnthropic(w), withCall([startAnthropic(w).w EXCEPT !.nextBlock = @ + 1], i, nb), <<e>>)
      BY <1>2 DEF startToolCall, Anthropic
    <3>2. startToolCall(w, i) = Then(startAnthropic(w), x, <<e>>)
      BY <2>1, <3>1, StartedAlready
    <3>3. <<e>> \in Seq(Events)
      BY <2>2
    <3> QED BY <2>1, <3>2, <3>3, ThenStarted
  <2> HIDE DEF v, e
  <2>5. Added(v, x, i, nb)
    <3>1. i \notin DOMAIN v.calls /\ Cardinality(DOMAIN v.calls) \in 0..MaxEvents
      BY <2>3
    <3> HIDE DEF nb
    <3> QED BY <2>0, <2>3, <3>1, WithCallAdds
  <2>6. /\ x \in StreamWriters /\ x.nextBlock = nb + 1 /\ x.textBlock = w.textBlock
        /\ x.finished = w.finished /\ x.started = w.started /\ x.dialect = w.dialect
        /\ x.status = w.status /\ x.usage = w.usage
        /\ DOMAIN x.calls = DOMAIN w.calls \cup {i} /\ x.calls[i].block = nb /\ x.calls[i].closed = FALSE
        /\ \A j \in DOMAIN w.calls : x.calls[j] = w.calls[j]
        /\ NewIndex(w.calls, x.calls, i)
    BY <2>3, <2>5 DEF Added, NewIndex
  <2> HIDE DEF x
  <2>7. BlocksInv(L, x.calls, x.textBlock, x.nextBlock, x.finished, o \o <<e>>)
    <3>1. BlocksInv(L, w.calls, w.textBlock, nb, w.finished, o)
      BY <2>1 DEF AnthropicInv
    <3>2. /\ w.textBlock \in 0..NoBlock /\ w.finished \in BOOLEAN
          /\ w.calls \in CallTables /\ x.calls \in CallTables
      BY <2>6 DEF StreamWriters
    <3>3. NewCall(w.calls, x.calls, nb)
      BY <2>6 DEF NewCall
    <3> HIDE DEF nb
    <3>4. BlocksInv(L, x.calls, w.textBlock, nb + 1, w.finished, o \o <<e>>)
      BY <2>0, <2>2, <3>1, <3>2, <3>3, CallStartKeepsBlocks, Z3
    <3> QED BY <2>6, <3>4
  <2>8. OneStart(o \o <<e>>) /\ Unfinished(o \o <<e>>)
    BY <2>1, <2>2, MiddleKeeps DEF AnthropicInv, Final, Reasons
  <2>9. AnthropicInv(L, x, o \o <<e>>)
    BY <2>1, <2>6, <2>7, <2>8 DEF AnthropicInv
  <2>10. Ordinary(w, Result(x, <<e>>))
    <3>1. x.nextBlock <= w.nextBlock + 1
      BY <2>0, <2>6
    <3>2. <<e>> \in Seq(Events) /\ \A k \in DOMAIN <<e>> : <<e>>[k].usage = NoUsage
      BY <2>2
    <3>3. Result(x, <<e>>).w = x /\ Result(x, <<e>>).es = <<e>>
      BY ResultParts
    <3> QED BY <2>6, <3>1, <3>2, <3>3 DEF Ordinary
  <2> QED BY <1>2, <2>4, <2>6, <2>9, <2>10, ResultParts DEF DialectInv
<1> QED BY <1>1, <1>2 DEF Dialects

Takes(L, w, i) == ~w.calls[i].closed \/ w.calls[i].block \in L

\* writeToolArguments: the arguments go into the block of their call, which is open unless it is one
\* of L, or name its index.
LEMMA ArgumentsMethod ==
  ASSUME NEW L, NEW w \in StreamWriters, NEW o \in Seq(Events), w.dialect \in Dialects, ~w.finished,
         DialectInv(L, w, o), NEW i \in DOMAIN w.calls, Takes(L, w, i)
  PROVE  /\ Ordinary(w, writeToolArguments(w, i))
         /\ DialectInv(L, writeToolArguments(w, i).w, o \o writeToolArguments(w, i).es)
         /\ writeToolArguments(w, i).w.calls = w.calls
<1> DEFINE e == IF w.dialect = "anthropic" THEN Plain("block_delta", w.calls[i].block)
                                           ELSE Plain("chunk", w.calls[i].index)
<1>1. w.calls \in CallTables /\ w.calls[i] \in Call
  BY CallTypes DEF StreamWriters
<1>2. /\ e \in Events /\ e.usage = NoUsage
      /\ e.kind = IF w.dialect = "anthropic" THEN "block_delta" ELSE "chunk"
      /\ w.dialect = "anthropic" => e.block = w.calls[i].block
  <2>1. w.calls[i].block \in 0..NoBlock /\ w.calls[i].index \in 0..NoBlock
    BY <1>1 DEF Call, NoBlock
  <2> QED BY <2>1, PlainTypes DEF Kinds
<1>3. writeToolArguments(w, i) = Result(w, <<e>>)
  BY DEF writeToolArguments, Anthropic
<1> HIDE DEF e
<1>4. writeToolArguments(w, i).w = w /\ writeToolArguments(w, i).es = <<e>>
  BY <1>3, ResultParts
<1>5. Ordinary(w, writeToolArguments(w, i))
  <2>1. <<e>> \in Seq(Events) /\ \A n \in DOMAIN <<e>> : <<e>>[n].usage = NoUsage
    BY <1>2
  <2>2. w.nextBlock <= w.nextBlock + 1
    BY DEF StreamWriters
  <2> QED BY <1>4, <2>1, <2>2 DEF Ordinary
<1>6. CASE w.dialect = "anthropic"
  <2>1. AnthropicInv(L, w, o)
    BY <1>6 DEF DialectInv
  <2>2. \/ OpenBlock(w.calls, w.textBlock, w.finished, e.block)
        \/ e.block \in L /\ \E j \in DOMAIN w.calls : w.calls[j].block = e.block
    BY <1>2, <1>6 DEF OpenBlock, Takes
  <2>3. w.finished \in BOOLEAN /\ w.nextBlock \in Nat
    BY DEF StreamWriters
  <2>4. BlocksInv(L, w.calls, w.textBlock, w.nextBlock, w.finished, o \o <<e>>)
    BY <1>2, <1>6, <2>1, <2>2, <2>3, DeltaKeepsBlocks DEF AnthropicInv
  <2>5. OneStart(o \o <<e>>) /\ Unfinished(o \o <<e>>)
    BY <1>2, <1>6, <2>1, MiddleKeeps DEF AnthropicInv, Final, Reasons
  <2>6. AnthropicInv(L, w, o \o <<e>>)
    BY <2>1, <2>4, <2>5 DEF AnthropicInv
  <2> QED BY <1>4, <1>5, <1>6, <2>6 DEF DialectInv
<1>7. CASE w.dialect = "chat"
  <2>1. ChatInv(w, o) /\ w.started = TRUE
    BY <1>7 DEF DialectInv, ChatInv, ChatOpen, StreamWriters
  <2>2. e.kind = IF w.started THEN "chunk" ELSE "role"
    BY <1>2, <1>7, <2>1
  <2>3. ChatInv(w, o \o <<e>>)
    BY <1>2, <1>7, <2>1, <2>2, ChunkKeeps
  <2> QED BY <1>4, <1>5, <1>7, <2>3 DEF DialectInv
<1> QED BY <1>6, <1>7 DEF Dialects

\* Only call i is closed, and nothing else of the calls changes.
ClosedIn(c, d, i) ==
    /\ DOMAIN d = DOMAIN c
    /\ \A j \in DOMAIN c : /\ d[j].index = c[j].index /\ d[j].block = c[j].block
                           /\ d[j].closed = (c[j].closed \/ j = i)

\* stopToolCall: the call's block is stopped; in Chat Completions nothing is written.
LEMMA StopMethod ==
  ASSUME NEW L, NEW w \in StreamWriters, NEW o \in Seq(Events), w.dialect \in Dialects, ~w.finished,
         DialectInv(L, w, o), NEW i \in DOMAIN w.calls, ~w.calls[i].closed
  PROVE  /\ Ordinary(w, stopToolCall(w, i))
         /\ DialectInv(L, stopToolCall(w, i).w, o \o stopToolCall(w, i).es)
         /\ ClosedIn(w.calls, stopToolCall(w, i).w.calls, i)
<1> DEFINE d == [w.calls EXCEPT ![i].closed = TRUE]
           v == [w EXCEPT !.calls = d]
           e == Plain("block_stop", w.calls[i].block)
<1>1. w.calls \in CallTables /\ \A j \in DOMAIN w.calls : w.calls[j] \in Call
  BY CallTypes DEF StreamWriters
<1>2. d \in CallTables /\ ClosedIn(w.calls, d, i) /\ d[i].closed
  <2>1. [w.calls[i] EXCEPT !.closed = TRUE] \in Call
    BY <1>1 DEF Call
  <2>2. \A j \in DOMAIN w.calls : d[j] \in Call
    BY <1>1, <2>1
  <2>3. d \in [DOMAIN w.calls -> Call] /\ DOMAIN w.calls \in SUBSET Items
    BY <1>1, <2>2, CallTypes
  <2>4. d \in CallTables
    BY <2>3 DEF CallTables
  <2>5. /\ d[i] = [w.calls[i] EXCEPT !.closed = TRUE]
        /\ \A j \in DOMAIN w.calls : j # i => d[j] = w.calls[j]
    OBVIOUS
  <2>6. d[i].closed = TRUE /\ d[i].index = w.calls[i].index /\ d[i].block = w.calls[i].block
    BY <1>1, <2>5 DEF Call
  <2>7. \A j \in DOMAIN w.calls : w.calls[j].closed \in BOOLEAN
    BY <1>1 DEF Call
  <2> HIDE DEF d
  <2>8. DOMAIN d = DOMAIN w.calls
    BY <2>3
  <2>9. ClosedIn(w.calls, d, i)
    BY <2>5, <2>6, <2>7, <2>8 DEF ClosedIn
  <2> QED BY <2>4, <2>6, <2>9
<1>3. e \in Events /\ e.kind = "block_stop" /\ e.block = w.calls[i].block /\ e.usage = NoUsage
  <2>1. w.calls[i].block \in 0..NoBlock
    BY <1>1 DEF Call, NoBlock
  <2> QED BY <2>1, PlainTypes DEF Kinds
<1>4. stopToolCall(w, i) = Result(v, IF w.dialect = "anthropic" THEN <<e>> ELSE <<>>)
  BY DEF stopToolCall, Anthropic, StreamWriters
<1> HIDE DEF d, e
<1>5. /\ v \in StreamWriters /\ v.calls = d /\ v.dialect = w.dialect /\ v.status = w.status
      /\ v.usage = w.usage /\ v.finished = w.finished /\ v.started = w.started
      /\ v.textBlock = w.textBlock /\ v.nextBlock = w.nextBlock /\ v.nextBlock <= w.nextBlock + 1
  BY <1>2 DEF StreamWriters
<1> HIDE DEF v
<1>6. CASE w.dialect = "anthropic"
  <2>1. stopToolCall(w, i).w = v /\ stopToolCall(w, i).es = <<e>>
    BY <1>4, <1>6, ResultParts
  <2>2. AnthropicInv(L, w, o) /\ w.finished \in BOOLEAN /\ w.nextBlock \in Nat
    BY <1>6 DEF DialectInv, StreamWriters
  <2>3. OpenBlock(w.calls, w.textBlock, w.finished, e.block)
    BY <1>3 DEF OpenBlock
  <2>4. /\ DOMAIN d = DOMAIN w.calls /\ \A j \in DOMAIN w.calls : d[j].block = w.calls[j].block
        /\ d[i].closed /\ w.calls[i].block = e.block
        /\ \A j \in DOMAIN w.calls : j # i => d[j].closed = w.calls[j].closed
    BY <1>1, <1>2, <1>3 DEF ClosedIn, Call
  <2>5. BlocksInv(L, d, w.textBlock, w.nextBlock, w.finished, o \o <<e>>)
    BY <1>3, <2>2, <2>3, <2>4, StopKeepsBlocks DEF AnthropicInv
  <2>6. OneStart(o \o <<e>>) /\ Unfinished(o \o <<e>>)
    BY <1>3, <2>2, MiddleKeeps DEF AnthropicInv, Final, Reasons
  <2>7. AnthropicInv(L, v, o \o <<e>>)
    BY <1>5, <2>2, <2>5, <2>6 DEF AnthropicInv
  <2>8. <<e>> \in Seq(Events) /\ \A n \in DOMAIN <<e>> : <<e>>[n].usage = NoUsage
    BY <1>3
  <2>9. Ordinary(w, stopToolCall(w, i))
    BY <1>5, <2>1, <2>8 DEF Ordinary
  <2> QED BY <1>2, <1>5, <1>6, <2>1, <2>7, <2>9 DEF DialectInv
<1>7. CASE w.dialect = "chat"
  <2>1. stopToolCall(w, i).w = v /\ stopToolCall(w, i).es = <<>>
    BY <1>4, <1>7, ResultParts
  <2>2. o \o <<>> = o
    BY ConcatEmptySeq
  <2>3. ChatInv(v, o)
    BY <1>2, <1>5, <1>7 DEF DialectInv, ChatInv, ChatOpen, ClosedIn
  <2>4. <<>> \in Seq(Events) /\ DOMAIN <<>> = {}
    BY NoCalls
  <2>5. Ordinary(w, stopToolCall(w, i))
    BY <1>5, <2>1, <2>4 DEF Ordinary
  <2> QED BY <1>2, <1>5, <1>7, <2>1, <2>2, <2>3, <2>5 DEF DialectInv
<1> QED BY <1>6, <1>7 DEF Dialects

\* The log's reader keeps what it has when no event carries usage, and takes the one that does.
LEMMA ObserveNone ==
  ASSUME NEW old, NEW es, \A n \in DOMAIN es : es[n].usage = NoUsage
  PROVE  observe(old, es) = old
<1>1. {n \in DOMAIN es : es[n].usage # NoUsage} = {}
  OBVIOUS
<1> QED BY <1>1 DEF observe

LEMMA ObserveOne ==
  ASSUME NEW es \in Seq(Events), NEW k \in DOMAIN es, \A n \in DOMAIN es : n # k => es[n].usage = NoUsage
  PROVE  observe(NoUsage, es) = NormalizeUsage(es[k].usage)
<1> DEFINE told == {n \in DOMAIN es : es[n].usage # NoUsage}
<1>1. CASE es[k].usage = NoUsage
  <2>1. NormalizeUsage(NoUsage) = NoUsage
    BY LoggedOnce DEF NoUsage, TokenUsage
  <2> QED BY <1>1, <2>1, ObserveNone
<1>2. CASE es[k].usage # NoUsage
  <2>1. told = {k} /\ k \in Nat
    BY <1>2
  <2>2. Max({k}) = k
    BY <2>1 DEF Max
  <2> QED BY <2>1, <2>2 DEF observe
<1> QED BY <1>1, <1>2

\* Several events in the middle.
LEMMA ManyMiddle ==
  ASSUME NEW o \in Seq(Events), NEW es \in Seq(Events), \A n \in DOMAIN es : es[n].kind = "block_stop",
         OneStart(o), Unfinished(o)
  PROVE  OneStart(o \o es) /\ Unfinished(o \o es)
<1> DEFINE p == o \o es
<1>1. /\ Len(o) \in Nat /\ Len(es) \in Nat
      /\ DOMAIN p = 1..(Len(o) + Len(es)) /\ DOMAIN o = 1..Len(o) /\ DOMAIN es = 1..Len(es)
      /\ \A k \in DOMAIN p : p[k] = IF k <= Len(o) THEN o[k] ELSE es[k - Len(o)]
  BY TwoTogether, LenProperties
<1>2. Len(o) # 0
  BY EmptySeq DEF OneStart
<1>3. p \in Seq(Events) /\ (p = <<>> => Len(p) = 0) /\ Len(p) = Len(o) + Len(es)
  BY ConcatProperties, EmptySeq
<1> HIDE DEF p
<1>4. ASSUME NEW n \in DOMAIN p
      PROVE  \/ n \in DOMAIN o /\ p[n] = o[n]
             \/ n # 1 /\ p[n].kind = "block_stop"
  BY <1>1, <1>2
<1>5. p # <<>> /\ 1 \in DOMAIN o /\ 1 \in DOMAIN p
  BY <1>1, <1>2, <1>3
<1>6. OneStart(p)
  BY <1>4, <1>5 DEF OneStart
<1>7. Unfinished(p)
  BY <1>4 DEF Unfinished, Final, Reasons
<1> QED BY <1>6, <1>7 DEF p

\* What finishStream makes of an open stream: a whole one, whose usage the log has read.
Finishes(L, w, r, o) ==
    /\ r.w \in StreamWriters /\ r.es \in Seq(Events)
    /\ r.w.dialect = w.dialect /\ r.w.status = w.status /\ r.w.nextBlock = w.nextBlock
    /\ r.w.finished /\ DOMAIN r.w.calls = DOMAIN w.calls
    /\ \A i \in DOMAIN w.calls : /\ r.w.calls[i].index = w.calls[i].index
                                 /\ r.w.calls[i].block = w.calls[i].block
    /\ DialectInv(L, r.w, o \o r.es)
    /\ observe(NoUsage, r.es) = Logged(w.dialect, w.usage)

\* The text block is stopped first, when there is one.
TextStop(w) == IF w.textBlock = NoBlock THEN <<>> ELSE <<Plain("block_stop", w.textBlock)>>

LEMMA TextStopKeeps ==
  ASSUME NEW L, NEW w \in StreamWriters, NEW o \in Seq(Events), ~w.finished, AnthropicInv(L, w, o)
  PROVE  /\ TextStop(w) \in Seq(Events)
         /\ \A n \in DOMAIN TextStop(w) : TextStop(w)[n].kind = "block_stop" /\ TextStop(w)[n].usage = NoUsage
         /\ BlocksInv(L, w.calls, w.textBlock, w.nextBlock, TRUE, o \o TextStop(w))
<1>0. w.finished = FALSE /\ w.nextBlock \in Nat /\ w.textBlock \in 0..NoBlock
  BY DEF StreamWriters
<1>1. BlocksInv(L, w.calls, w.textBlock, w.nextBlock, FALSE, o)
  BY <1>0 DEF AnthropicInv
<1>2. CASE w.textBlock = NoBlock
  <2>1. TextStop(w) = <<>> /\ o \o <<>> = o /\ <<>> \in Seq(Events) /\ DOMAIN <<>> = {}
    BY <1>2, ConcatEmptySeq, NoCalls DEF TextStop
  <2>2. BlocksInv(L, w.calls, w.textBlock, w.nextBlock, TRUE, o)
    BY <1>1, <1>2 DEF BlocksInv, BlocksStopped
  <2> QED BY <2>1, <2>2
<1>3. CASE w.textBlock # NoBlock
  <2> DEFINE e == Plain("block_stop", w.textBlock)
  <2>1. e \in Events /\ e.kind = "block_stop" /\ e.block = w.textBlock /\ e.usage = NoUsage
    BY <1>0, PlainTypes DEF Kinds
  <2>2. TextStop(w) = <<e>>
    BY <1>3 DEF TextStop
  <2> HIDE DEF e
  <2>3. OpenBlock(w.calls, w.textBlock, FALSE, e.block)
    BY <1>3, <2>1 DEF OpenBlock
  <2>4. BlocksInv(L, w.calls, w.textBlock, w.nextBlock, TRUE, o \o <<e>>)
    BY <1>0, <1>1, <2>1, <2>3, StopKeepsBlocks
  <2>5. <<e>> \in Seq(Events) /\ \A n \in DOMAIN <<e>> : <<e>>[n].kind = "block_stop" /\ <<e>>[n].usage = NoUsage
    BY <2>1
  <2> QED BY <2>2, <2>4, <2>5
<1> QED BY <1>2, <1>3

\* Then the calls still open, in the order f; all is closed after that.
CallStops(w, f) == [k \in DOMAIN f |-> Plain("block_stop", w.calls[f[k]].block)]

StopsKept(L, w, d, o, es) ==
    /\ es \in Seq(Events) /\ \A n \in DOMAIN es : es[n].kind = "block_stop" /\ es[n].usage = NoUsage
    /\ BlocksInv(L, d, w.textBlock, w.nextBlock, TRUE, o \o es)

LEMMA StopAllKeeps ==
  ASSUME NEW L, NEW w \in StreamWriters, NEW o \in Seq(Events), IsFiniteSet(DOMAIN w.calls),
         BlocksInv(L, w.calls, w.textBlock, w.nextBlock, TRUE, o), NEW f \in SetToSeqs(Open(w)),
         NEW d \in CallTables, AllClosed(w.calls, d)
  PROVE  StopsKept(L, w, d, o, CallStops(w, f))
<1> DEFINE N == Cardinality(Open(w))
           es == CallStops(w, f)
<1>1. IsFiniteSet(Open(w)) /\ w.nextBlock \in Nat /\ w.calls \in CallTables
  BY FS_Subset DEF Open, StreamWriters
<1>2. /\ N \in Nat /\ DOMAIN f = 1..N
      /\ \A k \in DOMAIN f : f[k] \in Open(w)
      /\ \A k, l \in DOMAIN f : f[k] = f[l] => k = l
      /\ \A i \in Open(w) : \E k \in DOMAIN f : f[k] = i
  BY <1>1, OrderOfAll
<1> HIDE DEF N
<1>3. \A k \in 1..N : f[k] \in DOMAIN w.calls /\ ~w.calls[f[k]].closed
  BY <1>2 DEF Open
<1>4. \A k \in 1..N : /\ es[k] \in Events /\ es[k].kind = "block_stop" /\ es[k].usage = NoUsage
                      /\ es[k].block = w.calls[f[k]].block
  <2> SUFFICES ASSUME NEW k \in 1..N
               PROVE  /\ es[k] \in Events /\ es[k].kind = "block_stop" /\ es[k].usage = NoUsage
                      /\ es[k].block = w.calls[f[k]].block
    OBVIOUS
  <2>1. w.calls[f[k]].block \in 0..NoBlock
    BY <1>1, <1>3, CallTypes DEF Call, NoBlock
  <2>2. es[k] = Plain("block_stop", w.calls[f[k]].block)
    BY <1>2 DEF CallStops
  <2> QED BY <2>1, <2>2, PlainTypes DEF Kinds
<1>5. es \in Seq(Events) /\ Len(es) = N /\ DOMAIN es = 1..N
  <2>1. DOMAIN es = 1..N /\ es = [k \in 1..N |-> es[k]]
    BY <1>2 DEF CallStops
  <2> HIDE DEF es
  <2> QED BY <1>2, <1>4, <2>1
<1> HIDE DEF es
<1>6. \A i \in DOMAIN w.calls : ~w.calls[i].closed => \E k \in 1..N : f[k] = i
  BY <1>2 DEF Open
<1>7. \A k, l \in 1..N : f[k] = f[l] => k = l
  BY <1>2
<1>8. StopsOf(w.calls, f, N, es)
  BY <1>2, <1>3, <1>4, <1>5, <1>6, <1>7 DEF StopsOf
<1>9. N \in Nat /\ es \in Seq(Events) /\ TRUE \in BOOLEAN
  BY <1>2, <1>5
<1>10. BlocksInv(L, d, w.textBlock, w.nextBlock, TRUE, o \o es)
  BY <1>1, <1>8, <1>9, StopAllKeepsBlocks
<1>11. StopsKept(L, w, d, o, es)
  BY <1>4, <1>5, <1>10 DEF StopsKept
<1> QED BY <1>11 DEF es

\* The two last events: the reason, with the usage, and message_stop.
LEMMA LastTwoKeep ==
  ASSUME NEW o \in Seq(Events), OneStart(o), Unfinished(o),
         NEW a \in Events, NEW b \in Events, a.kind \in Reasons, b.kind = "message_stop"
  PROVE  /\ OneStart(o \o <<a, b>>) /\ (o \o <<a, b>>)[Len(o \o <<a, b>>)].kind = "message_stop"
         /\ \A n \in DOMAIN (o \o <<a, b>>) :
               (o \o <<a, b>>)[n].kind \in Final => n = Len(o \o <<a, b>>)
         /\ \E n \in DOMAIN (o \o <<a, b>>) : (o \o <<a, b>>)[n].kind = a.kind
<1> DEFINE p == o \o <<a, b>>
<1>1. /\ <<a, b>> \in Seq(Events) /\ Len(<<a, b>>) = 2 /\ <<a, b>>[1] = a /\ <<a, b>>[2] = b
      /\ Len(o) \in Nat
  OBVIOUS
<1>2. p \in Seq(Events) /\ Len(p) = Len(o) + 2 /\ (p = <<>> => Len(p) = 0)
  BY <1>1, ConcatProperties, EmptySeq
<1>3. /\ DOMAIN p = 1..(Len(o) + 2) /\ DOMAIN o = 1..Len(o)
      /\ \A k \in DOMAIN p : p[k] = IF k <= Len(o) THEN o[k] ELSE <<a, b>>[k - Len(o)]
  BY <1>1, TwoTogether
<1>4. Len(o) # 0
  BY EmptySeq DEF OneStart
<1> HIDE DEF p
<1>5. p[Len(o) + 1] = a /\ p[Len(o) + 2] = b /\ Len(o) + 1 \in DOMAIN p /\ Len(o) + 2 \in DOMAIN p
  BY <1>1, <1>3
<1>6. \A k \in DOMAIN p : (k \in DOMAIN o /\ p[k] = o[k]) \/ k = Len(o) + 1 \/ k = Len(o) + 2
  BY <1>1, <1>3
<1>7. OneStart(p)
  <2>1. p # <<>> /\ 1 \in DOMAIN o /\ 1 \in DOMAIN p /\ Len(o) + 1 # 1 /\ Len(o) + 2 # 1
    BY <1>1, <1>2, <1>3, <1>4
  <2> QED BY <1>5, <1>6, <2>1 DEF OneStart, Reasons
<1>8. \A n \in DOMAIN p : p[n].kind \in Final => n = Len(o) + 2
  BY <1>5, <1>6 DEF Unfinished, Final, Reasons
<1> QED BY <1>2, <1>5, <1>7, <1>8 DEF p

\* finishStream in Anthropic's dialect.
LEMMA FinishAnthropic ==
  ASSUME NEW L, NEW w \in StreamWriters, NEW o \in Seq(Events), w.dialect = "anthropic", ~w.finished,
         DialectInv(L, w, o), IsFiniteSet(DOMAIN w.calls), NEW f \in SetToSeqs(Open(w))
  PROVE  Finishes(L, w, finishStream(w, f), o)
<1> DEFINE d == [i \in DOMAIN w.calls |-> [w.calls[i] EXCEPT !.closed = TRUE]]
           g == [w EXCEPT !.finished = TRUE]
           v == [g EXCEPT !.calls = d]
           es == CallStops(w, f)
           a == Event(StopReason(w), NoBlock, WithoutTotal(w.usage))
           b == Plain("message_stop", NoBlock)
           head == TextStop(w) \o es
           all == head \o <<a, b>>
<1>1. AnthropicInv(L, w, o) /\ w.started /\ OneStart(o) /\ Unfinished(o)
  BY DEF DialectInv, AnthropicInv
<1>2. w.calls \in CallTables /\ \A i \in DOMAIN w.calls : w.calls[i] \in Call
  BY CallTypes DEF StreamWriters
<1>3. /\ d \in CallTables /\ DOMAIN d = DOMAIN w.calls
      /\ \A i \in DOMAIN d : d[i].index = w.calls[i].index /\ d[i].block = w.calls[i].block /\ d[i].closed
  <2>1. \A i \in DOMAIN w.calls : [w.calls[i] EXCEPT !.closed = TRUE] \in Call
    BY <1>2 DEF Call
  <2>2. d \in [DOMAIN w.calls -> Call] /\ DOMAIN w.calls \in SUBSET Items
    BY <1>2, <2>1, CallTypes
  <2>3. \A i \in DOMAIN w.calls :
          LET c == [w.calls[i] EXCEPT !.closed = TRUE] IN
            c.index = w.calls[i].index /\ c.block = w.calls[i].block /\ c.closed
    BY <1>2 DEF Call
  <2> QED BY <2>2, <2>3 DEF CallTables
<1>4. /\ g \in StreamWriters /\ g.started /\ g.calls = w.calls /\ g.textBlock = w.textBlock
  BY <1>1 DEF StreamWriters
<1>5. StopAll(g, f) = [w |-> v, es |-> es]
  BY <1>4 DEF StopAll, CallStops
<1>6. finishStream(w, f) = Then(startAnthropic(g), v, head \o <<a, b>>)
  <2>1. startAnthropic(g).w = g
    BY <1>4, StartedAlready
  <2>2. finishStream(w, f) = Then(startAnthropic(g), StopAll(g, f).w, TextStop(w) \o StopAll(g, f).es \o <<a, b>>)
    BY <2>1 DEF finishStream, Anthropic, TextStop
  <2> QED BY <1>5, <2>2
<1>7. /\ v \in StreamWriters /\ v.calls = d /\ v.dialect = w.dialect /\ v.status = w.status
      /\ v.nextBlock = w.nextBlock /\ v.textBlock = w.textBlock /\ v.finished = TRUE
      /\ v.started = w.started
  BY <1>3, <1>4 DEF StreamWriters
<1> HIDE DEF v, d, g
<1>8. /\ TextStop(w) \in Seq(Events)
      /\ \A n \in DOMAIN TextStop(w) : TextStop(w)[n].kind = "block_stop" /\ TextStop(w)[n].usage = NoUsage
      /\ BlocksInv(L, w.calls, w.textBlock, w.nextBlock, TRUE, o \o TextStop(w))
  BY <1>1, TextStopKeeps
<1>9. o \o TextStop(w) \in Seq(Events)
  BY <1>8, ConcatProperties
<1>10. /\ es \in Seq(Events) /\ \A n \in DOMAIN es : es[n].kind = "block_stop" /\ es[n].usage = NoUsage
       /\ BlocksInv(L, d, w.textBlock, w.nextBlock, TRUE, (o \o TextStop(w)) \o es)
  <2> DEFINE q == o \o TextStop(w)
  <2>1. q \in Seq(Events) /\ BlocksInv(L, w.calls, w.textBlock, w.nextBlock, TRUE, q)
    BY <1>8, <1>9
  <2> HIDE DEF q
  <2>2. AllClosed(w.calls, d)
    BY <1>3 DEF AllClosed
  <2>3. StopsKept(L, w, d, q, es)
    BY <1>3, <2>1, <2>2, StopAllKeeps
  <2> QED BY <2>3 DEF q, StopsKept
<1> HIDE DEF es
<1>11. /\ a \in Events /\ a.kind = StopReason(w) /\ a.kind \in Reasons /\ a.usage = WithoutTotal(w.usage)
       /\ b \in Events /\ b.kind = "message_stop" /\ b.usage = NoUsage
  <2>1. StopReason(w) \in Kinds /\ StopReason(w) \in Reasons
    BY DEF StopReason, Reasons, Kinds
  <2>2. NoBlock \in 0..NoBlock /\ WithoutTotal(w.usage) \in TokenUsage
    BY LoggedOnce DEF NoBlock, StreamWriters
  <2>3. a \in Events /\ a.kind = StopReason(w) /\ a.usage = WithoutTotal(w.usage)
    BY <2>1, <2>2 DEF Event, Events
  <2>4. b \in Events /\ b.kind = "message_stop" /\ b.usage = NoUsage
    BY <2>2, PlainTypes DEF Kinds
  <2> QED BY <2>1, <2>3, <2>4
<1> HIDE DEF a, b
<1>12. <<a, b>> \in Seq(Events) /\ head \in Seq(Events) /\ all \in Seq(Events)
  BY <1>8, <1>10, <1>11, ConcatProperties
<1>13. o \o all = (o \o head) \o <<a, b>> /\ o \o head = (o \o TextStop(w)) \o es /\ o \o head \in Seq(Events)
  <2>1. o \o head = (o \o TextStop(w)) \o es /\ o \o head \in Seq(Events)
    BY <1>8, <1>10, <1>12, ConcatAssociative, ConcatProperties
  <2> HIDE DEF head
  <2>2. o \o (head \o <<a, b>>) = (o \o head) \o <<a, b>>
    BY <1>12, ConcatAssociative
  <2> QED BY <2>1, <2>2
<1>14. finishStream(w, f) = Result(v, all)
  BY <1>4, <1>6, <1>12, ThenStarted
<1>15. OneStart(o \o head) /\ Unfinished(o \o head)
  <2>1. OneStart(o \o TextStop(w)) /\ Unfinished(o \o TextStop(w))
    BY <1>1, <1>8, ManyMiddle
  <2>2. OneStart((o \o TextStop(w)) \o es) /\ Unfinished((o \o TextStop(w)) \o es)
    BY <1>9, <1>10, <2>1, ManyMiddle
  <2> QED BY <1>13, <2>2
<1>16. AnthropicInv(L, v, o \o all)
  <2>1. /\ OneStart(o \o all) /\ (o \o all)[Len(o \o all)].kind = "message_stop"
        /\ \A n \in DOMAIN (o \o all) : (o \o all)[n].kind \in Final => n = Len(o \o all)
        /\ \E n \in DOMAIN (o \o all) : (o \o all)[n].kind = a.kind
    <3> DEFINE q == o \o head
    <3>1. q \in Seq(Events) /\ OneStart(q) /\ Unfinished(q)
      BY <1>13, <1>15
    <3>2. o \o all = q \o <<a, b>>
      BY <1>13
    <3> HIDE DEF q, all, head
    <3>3. /\ OneStart(q \o <<a, b>>) /\ (q \o <<a, b>>)[Len(q \o <<a, b>>)].kind = "message_stop"
          /\ \A n \in DOMAIN (q \o <<a, b>>) :
                (q \o <<a, b>>)[n].kind \in Final => n = Len(q \o <<a, b>>)
          /\ \E n \in DOMAIN (q \o <<a, b>>) : (q \o <<a, b>>)[n].kind = a.kind
      BY <1>11, <3>1, LastTwoKeep
    <3> QED BY <3>2, <3>3
  <2>2. BlocksInv(L, d, w.textBlock, w.nextBlock, TRUE, o \o all)
    <3> DEFINE q == o \o head
    <3>1. q \in Seq(Events) /\ BlocksInv(L, d, w.textBlock, w.nextBlock, TRUE, q)
      BY <1>10, <1>13
    <3>2. o \o all = q \o <<a, b>>
      BY <1>13
    <3> HIDE DEF q, all, head
    <3>3. q \o <<a>> \in Seq(Events) /\ q \o <<a, b>> = (q \o <<a>>) \o <<b>>
      BY <1>11, <3>1, OneMore, TwoMore
    <3>4. a.kind \notin {"block_start", "block_delta", "block_stop"}
      BY <1>11 DEF Reasons
    <3>5. BlocksInv(L, d, w.textBlock, w.nextBlock, TRUE, q \o <<a>>)
      BY <1>3, <1>11, <3>1, <3>4, OtherKeepsBlocks
    <3>6. BlocksInv(L, d, w.textBlock, w.nextBlock, TRUE, (q \o <<a>>) \o <<b>>)
      BY <1>3, <1>11, <3>3, <3>5, OtherKeepsBlocks
    <3> QED BY <3>2, <3>3, <3>6
  <2>3. a.kind = StopReason(v)
    BY <1>3, <1>7, <1>11 DEF StopReason
  <2> HIDE DEF all, head
  <2>4. Ended(v, o \o all)
    BY <1>3, <1>7, <2>1, <2>3 DEF Ended
  <2> QED BY <1>1, <1>7, <2>1, <2>2, <2>4 DEF AnthropicInv
<1>17. observe(NoUsage, all) = Logged(w.dialect, w.usage)
  <2> DEFINE k == Len(head) + 1
  <2>1. \A n \in DOMAIN head : head[n].usage = NoUsage
    <3>1. /\ DOMAIN head = 1..(Len(TextStop(w)) + Len(es)) /\ DOMAIN es = 1..Len(es)
          /\ DOMAIN TextStop(w) = 1..Len(TextStop(w)) /\ Len(TextStop(w)) \in Nat /\ Len(es) \in Nat
          /\ \A n \in DOMAIN head : head[n] = IF n <= Len(TextStop(w)) THEN TextStop(w)[n]
                                              ELSE es[n - Len(TextStop(w))]
      BY <1>8, <1>10, TwoTogether, LenProperties
    <3> HIDE DEF head
    <3> QED BY <1>8, <1>10, <3>1
  <2>2. /\ Len(<<a, b>>) = 2 /\ <<a, b>>[1] = a /\ <<a, b>>[2] = b /\ Len(head) \in Nat
    BY <1>12
  <2> HIDE DEF head
  <2>3. /\ DOMAIN all = 1..(Len(head) + 2) /\ DOMAIN head = 1..Len(head)
        /\ \A n \in DOMAIN all : all[n] = IF n <= Len(head) THEN head[n] ELSE <<a, b>>[n - Len(head)]
    BY <1>12, <2>2, TwoTogether
  <2> HIDE DEF all
  <2>4. k \in DOMAIN all /\ all[k] = a
    BY <2>2, <2>3
  <2>5. \A n \in DOMAIN all : n # k => all[n].usage = NoUsage
    <3>1. \A n \in DOMAIN all : (n \in DOMAIN head /\ all[n] = head[n]) \/ n = k
                                 \/ (n = Len(head) + 2 /\ all[n] = b)
      BY <2>2, <2>3
    <3> QED BY <1>11, <2>1, <3>1
  <2> HIDE DEF k
  <2>6. observe(NoUsage, all) = NormalizeUsage(all[k].usage)
    BY <1>12, <2>4, <2>5, ObserveOne
  <2> QED BY <1>11, <2>4, <2>6 DEF Logged
<1> HIDE DEF all, head
<1>18. finishStream(w, f).w = v /\ finishStream(w, f).es = all
  BY <1>14, ResultParts
<1>19. DialectInv(L, v, o \o all)
  BY <1>7, <1>16 DEF DialectInv
<1>20. \A i \in DOMAIN w.calls : v.calls[i].index = w.calls[i].index /\ v.calls[i].block = w.calls[i].block
  BY <1>3, <1>7
<1> DEFINE r == finishStream(w, f)
<1>21. r.w = v /\ r.es = all
  BY <1>18
<1>22. v.finished /\ DOMAIN v.calls = DOMAIN w.calls
  BY <1>3, <1>7
<1> HIDE DEF r
<1>23. Finishes(L, w, r, o)
  BY <1>7, <1>12, <1>17, <1>19, <1>20, <1>21, <1>22 DEF Finishes
<1> QED BY <1>23 DEF r

\* The end of a Chat Completions stream: the reason, the usage when there is one, [DONE].
ChatEnd(k, u) ==
    <<Plain(k, NoBlock)>> \o (IF u = NoUsage THEN <<>> ELSE <<Event("usage", NoBlock, u)>>)
        \o <<Plain("done", NoBlock)>>

IsChatEnd(es, k, u) ==
    /\ es \in Seq(Events) /\ Len(es) \in {2, 3}
    /\ es[1].kind = k /\ es[Len(es)].kind = "done"
    /\ Len(es) = 3 => es[2].kind = "usage"
    /\ observe(NoUsage, es) = NormalizeUsage(u)

LEMMA ChatEndIs ==
  ASSUME NEW k \in Reasons, NEW u \in TokenUsage
  PROVE  IsChatEnd(ChatEnd(k, u), k, u)
<1> DEFINE a == Plain(k, NoBlock)
           x == Event("usage", NoBlock, u)
           z == Plain("done", NoBlock)
           es == ChatEnd(k, u)
<1>1. /\ a \in Events /\ a.kind = k /\ a.usage = NoUsage /\ x \in Events /\ x.kind = "usage" /\ x.usage = u
      /\ z \in Events /\ z.kind = "done" /\ z.usage = NoUsage
  <2>1. k \in Kinds /\ NoBlock \in 0..NoBlock
    BY DEF Reasons, Kinds, NoBlock
  <2> QED BY <2>1, PlainTypes, EventTypes DEF Kinds
<1>2. CASE u = NoUsage
  <2>1. es = (<<a>> \o <<>>) \o <<z>>
    BY <1>2 DEF ChatEnd
  <2> HIDE DEF a, z, es
  <2>2. <<a>> \o <<>> = <<a>>
    BY <1>1, ConcatEmptySeq
  <2>3. es \in Seq(Events) /\ Len(es) = 2 /\ es[1] = a /\ es[2] = z /\ DOMAIN es = 1..2
    BY <1>1, <2>1, <2>2
  <2>4. \A n \in DOMAIN es : es[n].usage = NoUsage
    BY <1>1, <2>3
  <2>5. observe(NoUsage, es) = NormalizeUsage(u)
    BY <1>2, <2>4, ObserveNone, LoggedOnce
  <2>6. IsChatEnd(es, k, u)
    BY <1>1, <1>2, <2>3, <2>5 DEF IsChatEnd
  <2> QED BY <2>6 DEF es
<1>3. CASE u # NoUsage
  <2>1. es = (<<a>> \o <<x>>) \o <<z>>
    BY <1>3 DEF ChatEnd
  <2> HIDE DEF a, x, z, es
  <2>2. /\ <<a>> \o <<x>> \in Seq(Events) /\ Len(<<a>> \o <<x>>) = 2
        /\ (<<a>> \o <<x>>)[1] = a /\ (<<a>> \o <<x>>)[2] = x
    BY <1>1
  <2>3. es \in Seq(Events) /\ Len(es) = 3 /\ es[1] = a /\ es[2] = x /\ es[3] = z /\ DOMAIN es = 1..3
    <3>1. /\ <<a>> \in Seq(Events) /\ <<x, z>> \in Seq(Events) /\ Len(<<a>>) = 1 /\ Len(<<x, z>>) = 2
          /\ <<a>>[1] = a /\ <<x, z>>[1] = x /\ <<x, z>>[2] = z
      BY <1>1
    <3>2. es = <<a>> \o <<x, z>>
      BY <1>1, <2>1, <3>1, TwoMore
    <3>3. /\ es \in Seq(Events) /\ Len(es) = 3 /\ DOMAIN es = 1..3
          /\ \A n \in 1..3 : es[n] = IF n <= 1 THEN <<a>>[n] ELSE <<x, z>>[n - 1]
      BY <3>1, <3>2, TwoTogether, ConcatProperties
    <3>4. 2 - 1 = 1 /\ 3 - 1 = 2
      OBVIOUS
    <3> QED BY <3>1, <3>3, <3>4
  <2>4. 2 \in DOMAIN es /\ \A n \in DOMAIN es : n # 2 => es[n].usage = NoUsage
    BY <1>1, <2>3
  <2>5. observe(NoUsage, es) = NormalizeUsage(u)
    BY <1>1, <2>3, <2>4, ObserveOne
  <2>6. IsChatEnd(es, k, u)
    BY <1>1, <2>3, <2>5 DEF IsChatEnd
  <2> QED BY <2>6 DEF es
<1> QED BY <1>2, <1>3

LEMMA ChatEndKeeps ==
  ASSUME NEW w \in StreamWriters, NEW o \in Seq(Events), ~w.finished, ChatInv(w, o), NEW v, v.finished,
         DOMAIN v.calls = DOMAIN w.calls
  PROVE  ChatInv(v, o \o ChatEnd(StopReason(w), w.usage))
<1> DEFINE k == StopReason(w)
           es == ChatEnd(k, w.usage)
           p == o \o es
           L == Len(o)
           N == Len(es)
<1>1. k \in Reasons /\ w.usage \in TokenUsage /\ StopReason(v) = k
  BY DEF StopReason, Reasons, StreamWriters
<1> HIDE DEF k
<1>2. /\ es \in Seq(Events) /\ N \in {2, 3} /\ es[1].kind = k /\ es[N].kind = "done"
      /\ N = 3 => es[2].kind = "usage"
  <2>1. IsChatEnd(es, k, w.usage)
    BY <1>1, ChatEndIs, Zenon
  <2> HIDE DEF es
  <2> QED BY <2>1 DEF IsChatEnd
<1> HIDE DEF es
<1>3. p \in Seq(Events) /\ Len(p) = L + N /\ (p = <<>> => Len(p) = 0) /\ L \in Nat
  BY <1>2, ConcatProperties, EmptySeq, LenProperties
<1>4. /\ DOMAIN p = 1..(L + N) /\ DOMAIN o = 1..L
      /\ \A n \in DOMAIN p : p[n] = IF n <= L THEN o[n] ELSE es[n - L]
  BY <1>2, TwoTogether
<1>5. \A n \in DOMAIN o : o[n].kind \in {"role", "chunk"} /\ (o[n].kind = "role" <=> n = 1)
  BY DEF ChatInv, ChatOpen
<1> HIDE DEF p, L, N
<1>6. /\ p[L + 1].kind = k /\ p[L + N].kind = "done" /\ (N = 3 => p[L + 2].kind = "usage")
      /\ L + 1 \in DOMAIN p /\ L + N \in DOMAIN p
  <2>2. ASSUME NEW j \in 1..N PROVE L + j \in DOMAIN p /\ p[L + j] = es[j]
    <3> DEFINE n == L + j
    <3>1. n \in DOMAIN p /\ ~(n <= L) /\ n - L = j
      BY <1>2, <1>3, <1>4
    <3> HIDE DEF n
    <3>2. p[n] = es[n - L]
      BY <1>4, <3>1
    <3>3. n \in DOMAIN p /\ p[n] = es[j]
      BY <3>1, <3>2
    <3> QED BY <3>3 DEF n
  <2>3. 1 \in 1..N /\ N \in 1..N /\ (N = 3 => 2 \in 1..N)
    BY <1>2
  <2> QED BY <1>2, <2>2, <2>3
<1>7. \A n \in DOMAIN p : (n \in DOMAIN o /\ p[n] = o[n]) \/ n = L + 1 \/ n = L + N \/ (N = 3 /\ n = L + 2)
  BY <1>2, <1>3, <1>4
<1>8. k \notin {"role", "chunk", "usage", "done", "block_start"}
  BY <1>1 DEF Reasons
<1>9. p # <<>> /\ p[Len(p)].kind = "done" /\ \A n \in DOMAIN p : p[n].kind # "block_start"
  <2>1. L + N # 0 /\ (N = 2 \/ N = 3)
    BY <1>2, <1>3
  <2>2. \A n \in DOMAIN p : p[n].kind # "block_start"
    BY <1>5, <1>6, <1>7, <1>8
  <2> QED BY <1>3, <1>6, <2>1, <2>2
<1>10. \A n \in DOMAIN p : p[n].kind = "role" <=> n = 1 /\ p[n].kind \notin Reasons
  <2> SUFFICES ASSUME NEW n \in DOMAIN p PROVE p[n].kind = "role" <=> n = 1 /\ p[n].kind \notin Reasons
    OBVIOUS
  <2>1. CASE n \in DOMAIN o /\ p[n] = o[n]
    BY <1>5, <2>1 DEF Reasons
  <2>2. CASE n = L + 1
    BY <1>1, <1>6, <1>8, <2>2
  <2>3. CASE n = L + N \/ (N = 3 /\ n = L + 2)
    BY <1>2, <1>3, <1>6, <2>3
  <2> QED BY <1>7, <2>1, <2>2, <2>3
<1>11. \A n \in DOMAIN p : p[n].kind \in {"usage", "done"} => \E m \in 1..(n - 1) : p[m].kind \in Reasons
  <2> SUFFICES ASSUME NEW n \in DOMAIN p, p[n].kind \in {"usage", "done"}
               PROVE  \E m \in 1..(n - 1) : p[m].kind \in Reasons
    OBVIOUS
  <2>1. n > L + 1 /\ n \in Nat
    BY <1>2, <1>3, <1>4, <1>5, <1>6, <1>7, <1>8
  <2>2. L + 1 \in 1..(n - 1)
    BY <1>3, <2>1
  <2> QED BY <1>1, <1>6, <2>2
<1>12. \A n \in DOMAIN p : p[n].kind \in Reasons => \A m \in (n + 1)..Len(p) : p[m].kind \in {"usage", "done"}
  <2> SUFFICES ASSUME NEW n \in DOMAIN p, p[n].kind \in Reasons, NEW m \in (n + 1)..Len(p)
               PROVE  p[m].kind \in {"usage", "done"}
    OBVIOUS
  <2>1. n = L + 1
    BY <1>5, <1>6, <1>7 DEF Reasons
  <2>2. m = L + N \/ (N = 3 /\ m = L + 2)
    BY <1>2, <1>3, <2>1
  <2> QED BY <1>6, <2>2
<1>13. \A n \in DOMAIN p : p[n].kind = "done" => n = Len(p)
  BY <1>3, <1>5, <1>6, <1>7, <1>8
<1>14. ChatEnded(v, p)
  BY <1>1, <1>6, <1>9, <1>10, <1>11, <1>12, <1>13 DEF ChatEnded
<1> QED BY <1>14 DEF ChatInv, p, es, k

\* finishStream in the dialect of Chat Completions.
LEMMA FinishChat ==
  ASSUME NEW L, NEW w \in StreamWriters, NEW o \in Seq(Events), w.dialect = "chat", ~w.finished, DialectInv(L, w, o), NEW f
  PROVE  Finishes(L, w, finishStream(w, f), o)
<1> DEFINE v == [w EXCEPT !.finished = TRUE]
           es == ChatEnd(StopReason(w), w.usage)
           r == finishStream(w, f)
<1>1. r = Result(v, es)
  BY DEF finishStream, Anthropic, ChatEnd
<1>2. /\ v \in StreamWriters /\ v.dialect = w.dialect /\ v.status = w.status /\ v.nextBlock = w.nextBlock
      /\ v.finished /\ v.calls = w.calls
  BY DEF StreamWriters
<1>3. StopReason(w) \in Reasons /\ w.usage \in TokenUsage
  BY DEF StopReason, Reasons, StreamWriters
<1>4. es \in Seq(Events) /\ observe(NoUsage, es) = Logged(w.dialect, w.usage)
  <2>1. IsChatEnd(es, StopReason(w), w.usage)
    BY <1>3, ChatEndIs, Zenon
  <2> QED BY <2>1 DEF IsChatEnd, Logged
<1>5. ChatInv(v, o \o es)
  BY <1>2, ChatEndKeeps DEF DialectInv
<1> HIDE DEF v, es, r
<1>6. r.w = v /\ r.es = es
  BY <1>1, ResultParts
<1>7. DialectInv(L, v, o \o es)
  BY <1>2, <1>5 DEF DialectInv
<1>8. Finishes(L, w, r, o)
  BY <1>2, <1>4, <1>6, <1>7 DEF Finishes
<1> QED BY <1>8 DEF r

\* Whichever the dialect.
LEMMA FinishMethod ==
  ASSUME NEW L, NEW w \in StreamWriters, NEW o \in Seq(Events), w.dialect \in Dialects, ~w.finished,
         DialectInv(L, w, o), IsFiniteSet(DOMAIN w.calls), NEW f \in SetToSeqs(Open(w))
  PROVE  Finishes(L, w, finishStream(w, f), o)
  BY FinishAnthropic, FinishChat DEF Dialects

\* captureUsage.
LEMMA CaptureMethod ==
  ASSUME NEW L, NEW w \in StreamWriters, NEW u \in TokenUsage, NEW o, DialectInv(L, w, o)
  PROVE  LET v == captureUsage(w, u) IN
         /\ v \in StreamWriters /\ v.dialect = w.dialect /\ v.status = w.status /\ v.finished = w.finished
         /\ v.nextBlock = w.nextBlock /\ v.calls = w.calls
         /\ v.usage = IF u = NoUsage THEN w.usage ELSE NormalizeUsage(u)
         /\ DialectInv(L, v, o)
<1> DEFINE v == captureUsage(w, u)
<1>1. /\ v \in StreamWriters /\ v.dialect = w.dialect /\ v.status = w.status /\ v.finished = w.finished
      /\ v.nextBlock = w.nextBlock /\ v.calls = w.calls /\ v.started = w.started
      /\ v.textBlock = w.textBlock /\ v.usage = IF u = NoUsage THEN w.usage ELSE NormalizeUsage(u)
  BY LoggedOnce DEF captureUsage, StreamWriters
<1> HIDE DEF v
<1>2. DialectInv(L, v, o)
  BY <1>1 DEF DialectInv, AnthropicInv, ChatInv, ChatOpen, ChatEnded, Ended, StopReason
<1> QED BY <1>1, <1>2 DEF v

----------------------------------------------------------------------------
\* The invariant of the whole request.

Providers == [phase : {"idle", "asked", "open", "ended", "gone"}, done : SUBSET Items, late : SUBSET Items]

\* No more calls than events, and each has an index of its own.
CallsInv(c, n) ==
    /\ IsFiniteSet(DOMAIN c) /\ Cardinality(DOMAIN c) <= n
    /\ \A i \in DOMAIN c : c[i].index \in Nat /\ c[i].index < Cardinality(DOMAIN c)
    /\ \A i, j \in DOMAIN c : c[i].index = c[j].index => i = j

TypesInv ==
    /\ provider \in Providers /\ writer \in StreamWriters /\ out \in Seq(Events)
    /\ seen \in TokenUsage /\ reported \in TokenUsage /\ sent \in 0..MaxEvents
    /\ writer.nextBlock <= sent
    /\ CallsInv(writer.calls, sent)

\* The writer is opened, finished and left in step with the provider's answer.
PhaseInv ==
    /\ provider.phase # "idle" => writer.dialect \in Dialects
    /\ provider.phase \in {"idle", "asked"} =>
          out = <<>> /\ writer = NewWriter(writer.dialect) /\ seen = NoUsage /\ reported = NoUsage
    /\ provider.phase = "open" => writer.status = "ok" /\ ~writer.finished
    /\ provider.phase \in {"ended", "gone"} /\ writer.status = "ok" => writer.finished

\* Only a call whose item is done is closed before the end.
ClosedAreDone(c, done) == \A i \in DOMAIN c : c[i].closed => i \in done

OpenInv ==
    writer.status = "ok" =>
        /\ DialectInv(LateBlocks, writer, out)
        /\ IF writer.finished THEN seen = Logged(writer.dialect, reported)
           ELSE /\ seen = NoUsage /\ writer.usage = NormalizeUsage(reported)
                /\ ClosedAreDone(writer.calls, provider.done)

StreamIInv == TypesInv /\ PhaseInv /\ OpenInv

LEMMA EmitTypes ==
  ASSUME NEW r, r.es \in Seq(Events), out \in Seq(Events), Emit(r)
  PROVE  writer' = r.w /\ out' = out \o r.es /\ out' \in Seq(Events) /\ seen' = observe(seen, r.es)
  BY ConcatProperties DEF Emit

\* A late item stays late and keeps its block, so that more blocks may have late deltas but never fewer.
KeepsBlocks(c, d) == \A i \in DOMAIN c : i \in DOMAIN d /\ d[i].block = c[i].block

LEMMA LateGrows ==
  ASSUME NEW r, writer' = r.w, KeepsBlocks(writer.calls, r.w.calls), provider.late \subseteq provider'.late
  PROVE  LateBlocks \subseteq LateBlocks'
  BY DEF LateBlocks, KeepsBlocks

LEMMA MoreLate ==
  ASSUME NEW L, NEW M, L \subseteq M, NEW w, NEW o, DialectInv(L, w, o)
  PROVE  DialectInv(M, w, o)
<1>1. ASSUME NEW c, NEW t, NEW nb, NEW ts, BlocksInv(L, c, t, nb, ts, o) PROVE BlocksInv(M, c, t, nb, ts, o)
  <2>1. BlocksUsed(M, o)
    BY <1>1 DEF BlocksInv, BlocksUsed
  <2> QED BY <1>1, <2>1 DEF BlocksInv
<1> QED BY <1>1 DEF DialectInv, AnthropicInv

\* w with the usage of the event captured.
Captured(w, v, u) ==
    /\ v \in StreamWriters /\ v.dialect = w.dialect /\ v.status = w.status /\ v.finished = w.finished
    /\ v.nextBlock = w.nextBlock /\ v.calls = w.calls /\ v.usage = IF u = NoUsage THEN w.usage ELSE NormalizeUsage(u)

\* A line of the stream that does not end it.
LEMMA OrdinaryStep ==
  ASSUME StreamIInv, NEW u \in TokenUsage, Line(u), NEW v, Captured(writer, v, u),
         NEW r, Ordinary(v, r), Emit(r),
         NEW L, L \subseteq LateBlocks', DialectInv(L, r.w, out \o r.es), CallsInv(r.w.calls, sent + 1),
         provider' \in Providers, provider'.phase = "open", ClosedAreDone(r.w.calls, provider'.done)
  PROVE  StreamIInv'
<1>1. /\ TypesInv /\ provider.phase = "open" /\ sent' = sent + 1 /\ sent < MaxEvents
      /\ reported' = IF u = NoUsage THEN reported ELSE u
      /\ writer.status = "ok" /\ ~writer.finished /\ writer.dialect \in Dialects
      /\ seen = NoUsage /\ writer.usage = NormalizeUsage(reported)
  BY DEF StreamIInv, PhaseInv, OpenInv, Line
<1>2. /\ r.w \in StreamWriters /\ r.es \in Seq(Events) /\ r.w.dialect = writer.dialect /\ r.w.status = "ok"
      /\ r.w.usage = NormalizeUsage(reported') /\ ~r.w.finished /\ r.w.nextBlock <= writer.nextBlock + 1
  BY <1>1 DEF Ordinary, Captured
<1>3. observe(seen, r.es) = NoUsage
  BY <1>1, ObserveNone DEF Ordinary
<1>4. writer' = r.w /\ out' = out \o r.es /\ out' \in Seq(Events) /\ seen' = NoUsage
  BY <1>1, <1>2, <1>3, EmitTypes DEF TypesInv
<1>5. TypesInv'
  <2>1. seen' \in TokenUsage /\ reported' \in TokenUsage /\ sent' \in 0..MaxEvents
    BY <1>1, <1>4 DEF TypesInv
  <2>2. writer'.nextBlock <= sent'
    BY <1>1, <1>2, <1>4 DEF TypesInv, StreamWriters
  <2> QED BY <1>1, <1>2, <1>4, <2>1, <2>2 DEF TypesInv
<1>6. PhaseInv'
  BY <1>1, <1>2, <1>4 DEF PhaseInv
<1>7. OpenInv'
  <2>1. DialectInv(LateBlocks', r.w, out \o r.es)
    BY MoreLate
  <2> QED BY <1>2, <1>4, <2>1 DEF OpenInv
<1> QED BY <1>5, <1>6, <1>7 DEF StreamIInv

\* The end of an open stream: v is the writer with the last usage captured.
LEMMA FinishKeeps ==
  ASSUME StreamIInv, provider.phase = "open", NEW v, v.status = writer.status,
         v.nextBlock = writer.nextBlock, v.calls = writer.calls, v.usage = NormalizeUsage(reported'),
         NEW r, Finishes(LateBlocks, v, r, out), Emit(r), sent' \in 0..MaxEvents, sent <= sent',
         reported' \in TokenUsage, provider' \in Providers, provider'.phase \in {"ended", "gone"},
         v.dialect = writer.dialect, provider'.late = provider.late
  PROVE  StreamIInv'
<1>1. /\ TypesInv /\ writer.status = "ok" /\ writer.dialect \in Dialects /\ seen = NoUsage
  BY DEF StreamIInv, PhaseInv, OpenInv
<1>2. /\ r.w \in StreamWriters /\ r.es \in Seq(Events) /\ r.w.dialect = writer.dialect /\ r.w.status = "ok"
      /\ r.w.finished /\ r.w.nextBlock = writer.nextBlock /\ DOMAIN r.w.calls = DOMAIN writer.calls
      /\ \A i \in DOMAIN writer.calls : r.w.calls[i].index = writer.calls[i].index
      /\ DialectInv(LateBlocks, r.w, out \o r.es) /\ observe(NoUsage, r.es) = Logged(writer.dialect, reported')
      /\ KeepsBlocks(writer.calls, r.w.calls)
  BY <1>1, LoggedOnce DEF Finishes, KeepsBlocks
<1>3. writer' = r.w /\ out' = out \o r.es /\ out' \in Seq(Events) /\ seen' = Logged(writer.dialect, reported')
  BY <1>1, <1>2, EmitTypes DEF TypesInv
<1>4. TypesInv'
  <2>1. writer'.nextBlock <= sent'
    BY <1>1, <1>2, <1>3 DEF TypesInv, StreamWriters
  <2>2. CallsInv(r.w.calls, sent')
    <3>1. Cardinality(DOMAIN writer.calls) \in Nat
      BY <1>1, FS_CardinalityType DEF TypesInv, CallsInv
    <3>2. Cardinality(DOMAIN writer.calls) <= sent'
      BY <1>1, <3>1 DEF TypesInv, CallsInv
    <3>3. CallsInv(writer.calls, sent)
      BY <1>1 DEF TypesInv
    <3>4. /\ DOMAIN r.w.calls = DOMAIN writer.calls
          /\ \A i \in DOMAIN writer.calls : r.w.calls[i].index = writer.calls[i].index
      BY <1>2
    <3> QED BY <3>2, <3>3, <3>4 DEF CallsInv
  <2>3. seen' \in TokenUsage
    BY <1>3, LoggedOnce
  <2> QED BY <1>2, <1>3, <2>1, <2>2, <2>3 DEF TypesInv
<1>5. PhaseInv'
  BY <1>1, <1>2, <1>3 DEF PhaseInv
<1>6. OpenInv'
  <2>1. DialectInv(LateBlocks', r.w, out \o r.es)
    BY <1>2, <1>3, LateGrows, MoreLate
  <2> QED BY <1>2, <1>3, <2>1 DEF OpenInv
<1> QED BY <1>4, <1>5, <1>6 DEF StreamIInv

LEMMA NewWriterTypes ==
  ASSUME NEW d \in Dialects \cup {"none"}
  PROVE  NewWriter(d) \in StreamWriters /\ NewWriter(d).dialect = d /\ NewWriter(d).status = "none"
         /\ NewWriter(d).calls = <<>> /\ NewWriter(d).nextBlock = 0 /\ ~NewWriter(d).finished
         /\ ~NewWriter(d).started /\ NewWriter(d).textBlock = NoBlock
<1>1. NoBlock \in 0..NoBlock /\ 0 \in 0..MaxEvents
  BY DEF NoBlock
<1>2. NoUsage \in TokenUsage
  BY DEF NoUsage, TokenUsage
<1> QED BY <1>1, <1>2, NoCalls DEF NewWriter, StreamWriters

LEMMA NoCallsInv == \A n \in Nat : CallsInv(<<>>, n)
  BY NoCalls, FS_EmptySet DEF CallsInv

LEMMA StreamInitInv ==
  ASSUME StreamInit
  PROVE  StreamIInv
<1>1. /\ provider \in Providers /\ provider.phase = "idle" /\ writer = NewWriter("none") /\ out = <<>>
      /\ seen = NoUsage /\ reported = NoUsage /\ sent = 0
  BY DEF StreamInit, Providers
<1>2. /\ writer \in StreamWriters /\ writer.dialect = "none" /\ writer.status = "none" /\ writer.calls = <<>>
      /\ writer.nextBlock = 0
  BY <1>1, NewWriterTypes
<1>3. TypesInv
  <2>1. NoUsage \in TokenUsage /\ <<>> \in Seq(Events)
    BY DEF NoUsage, TokenUsage
  <2> QED BY <1>1, <1>2, <2>1, NoCallsInv DEF TypesInv
<1>4. PhaseInv
  BY <1>1, <1>2 DEF PhaseInv
<1>5. OpenInv
  BY <1>2 DEF OpenInv
<1> QED BY <1>3, <1>4, <1>5 DEF StreamIInv

LEMMA RequestInv ==
  ASSUME StreamIInv, NEW d \in Dialects, Request(d)
  PROVE  StreamIInv'
<1>1. /\ TypesInv /\ PhaseInv /\ provider.phase = "idle" /\ provider' = [provider EXCEPT !.phase = "asked"]
      /\ writer' = NewWriter(d) /\ UNCHANGED <<out, seen, reported, sent>>
  BY DEF StreamIInv, Request
<1>2. /\ writer' \in StreamWriters /\ writer'.dialect = d /\ writer'.status = "none" /\ writer'.calls = <<>>
      /\ writer'.nextBlock = 0
  BY <1>1, NewWriterTypes
<1>3. provider' \in Providers /\ provider'.phase = "asked"
  BY <1>1 DEF TypesInv, Providers
<1>4. TypesInv'
  BY <1>1, <1>2, <1>3, NoCallsInv DEF TypesInv
<1>5. PhaseInv'
  BY <1>1, <1>2, <1>3 DEF PhaseInv
<1>6. OpenInv'
  BY <1>2 DEF OpenInv
<1> QED BY <1>4, <1>5, <1>6 DEF StreamIInv

Opened(L, d, r) ==
    /\ r.w \in StreamWriters /\ r.w.dialect = d /\ r.w.status = "ok" /\ ~r.w.finished
    /\ r.w.usage = NoUsage /\ r.w.calls = <<>> /\ r.w.nextBlock = 0
    /\ r.es \in Seq(Events) /\ \A n \in DOMAIN r.es : r.es[n].usage = NoUsage
    /\ DialectInv(L, r.w, r.es)

\* The stream opens: message_start is the only event, or nothing is written yet.
LEMMA OpenedInv ==
  ASSUME NEW L, NEW d \in Dialects, NEW w \in StreamWriters, w = [NewWriter(d) EXCEPT !.status = "ok"]
  PROVE  Opened(L, d, IF Anthropic(w) THEN startAnthropic(w) ELSE Result(w, <<>>))
<1> DEFINE r == IF Anthropic(w) THEN startAnthropic(w) ELSE Result(w, <<>>)
           v == [w EXCEPT !.started = TRUE]
           e == Plain("message_start", NoBlock)
<1>1. /\ w.dialect = d /\ w.status = "ok" /\ w.finished = FALSE /\ w.usage = NoUsage /\ w.calls = <<>>
      /\ w.nextBlock = 0 /\ w.started = FALSE /\ w.textBlock = NoBlock
  BY DEF NewWriter
<1>2. CASE d = "chat"
  <2>1. r = Result(w, <<>>)
    BY <1>1, <1>2 DEF Anthropic
  <2> HIDE DEF r
  <2>2. r.w = w /\ r.es = <<>> /\ <<>> \in Seq(Events) /\ DOMAIN <<>> = {}
    BY <2>1, ResultParts, NoCalls
  <2>3. DialectInv(L, w, <<>>)
    BY <1>1, <1>2, NoCalls DEF DialectInv, ChatInv, ChatOpen
  <2>4. Opened(L, d, r)
    BY <1>1, <2>2, <2>3 DEF Opened
  <2> QED BY <2>4 DEF r
<1>3. CASE d = "anthropic"
  <2>1. r = Result(v, <<e>>)
    BY <1>1, <1>3 DEF Anthropic, startAnthropic
  <2>2. /\ v \in StreamWriters /\ v.dialect = d /\ v.status = "ok" /\ v.finished = FALSE /\ v.usage = NoUsage
        /\ v.calls = <<>> /\ v.nextBlock = 0 /\ v.started /\ v.textBlock = NoBlock
    BY <1>1 DEF StreamWriters
  <2>3. e \in Events /\ e.kind = "message_start" /\ e.usage = NoUsage
    <3>1. NoBlock \in 0..NoBlock
      BY DEF NoBlock
    <3> QED BY <3>1, PlainTypes DEF Kinds
  <2> HIDE DEF r, v, e
  <2>4. r.w = v /\ r.es = <<e>>
    BY <2>1, ResultParts
  <2>5. <<e>> \in Seq(Events) /\ <<e>> # <<>> /\ DOMAIN <<e>> = {1} /\ <<e>>[1] = e
    BY <2>3
  <2>6. OneStart(<<e>>) /\ Unfinished(<<e>>)
    BY <2>3, <2>5 DEF OneStart, Unfinished, Final, Reasons
  <2>7. BlocksInv(L, <<>>, NoBlock, 0, FALSE, <<e>>)
    <3>1. DOMAIN <<>> = {} /\ 0..(0 - 1) = {}
      BY NoCalls
    <3> DEFINE c == <<>>
               o == <<e>>
    <3>2. DOMAIN c = {} /\ DOMAIN o = {1} /\ o[1].kind = "message_start"
      BY <2>3, <2>5, <3>1
    <3> HIDE DEF c, o
    <3>3. BlocksInv(L, c, NoBlock, 0, FALSE, o)
      BY <3>1, <3>2 DEF BlocksInv, BlocksStarted, BlocksOwned, BlocksStopped, BlocksUsed
    <3> QED BY <3>3 DEF c, o
  <2>8. AnthropicInv(L, v, <<e>>)
    BY <2>2, <2>6, <2>7 DEF AnthropicInv
  <2>9. DialectInv(L, v, <<e>>)
    BY <1>3, <2>2, <2>8 DEF DialectInv
  <2>10. \A n \in DOMAIN <<e>> : <<e>>[n].usage = NoUsage
    BY <2>3, <2>5
  <2>11. Opened(L, d, r)
    BY <2>2, <2>4, <2>5, <2>9, <2>10 DEF Opened
  <2> QED BY <2>11 DEF r
<1> QED BY <1>2, <1>3 DEF Dialects

LEMMA WriteHeaderInv ==
  ASSUME StreamIInv, WriteHeader
  PROVE  StreamIInv'
<1>1. /\ TypesInv /\ provider.phase = "asked" /\ writer = NewWriter(writer.dialect) /\ out = <<>>
      /\ writer.dialect \in Dialects /\ seen = NoUsage /\ reported = NoUsage /\ UNCHANGED <<reported, sent>>
  BY DEF StreamIInv, PhaseInv, WriteHeader
<1>2. /\ writer.status = "none" /\ writer.calls = <<>> /\ writer.nextBlock = 0 /\ ~writer.finished
  BY <1>1, NewWriterTypes
<1>3. sent \in Nat
  BY <1>1 DEF TypesInv
<1>4. CASE /\ provider' = [provider EXCEPT !.phase = "open"]
           /\ LET w == [writer EXCEPT !.status = "ok"] IN
                Emit(IF Anthropic(w) THEN startAnthropic(w) ELSE Result(w, <<>>))
  <2> DEFINE w == [writer EXCEPT !.status = "ok"]
             r == IF Anthropic(w) THEN startAnthropic(w) ELSE Result(w, <<>>)
  <2>1. w \in StreamWriters /\ w = [NewWriter(writer.dialect) EXCEPT !.status = "ok"]
    BY <1>1 DEF TypesInv, StreamWriters
  <2>2. provider' \in Providers /\ provider'.phase = "open"
    BY <1>1, <1>4 DEF TypesInv, Providers
  <2>3. Emit(r)
    BY <1>4
  <2> HIDE DEF w
  <2>4. /\ r.w \in StreamWriters /\ r.w.dialect = writer.dialect /\ r.w.status = "ok" /\ ~r.w.finished
        /\ r.w.usage = NoUsage /\ r.w.calls = <<>> /\ r.w.nextBlock = 0
        /\ r.es \in Seq(Events) /\ \A n \in DOMAIN r.es : r.es[n].usage = NoUsage
        /\ DialectInv(LateBlocks, r.w, r.es)
    <3>1. Opened(LateBlocks, writer.dialect, r)
      BY <1>1, <2>1, OpenedInv
    <3> QED BY <3>1 DEF Opened
  <2> HIDE DEF r
  <2>5. <<>> \o r.es = r.es
    BY <2>4, ConcatEmptySeq
  <2>6. writer' = r.w /\ out' = r.es /\ out' \in Seq(Events) /\ seen' = NoUsage
    BY <1>1, <2>3, <2>4, <2>5, EmitTypes, ObserveNone DEF TypesInv
  <2>7. TypesInv'
    BY <1>1, <1>3, <2>2, <2>4, <2>6, NoCallsInv DEF TypesInv
  <2>8. PhaseInv'
    BY <1>1, <2>2, <2>4, <2>6 DEF PhaseInv
  <2>9. OpenInv'
    <3>1. LateBlocks \subseteq LateBlocks'
      BY <1>2, NoCalls DEF LateBlocks
    <3>2. DialectInv(LateBlocks', r.w, r.es)
      BY <2>4, <3>1, MoreLate
    <3>3. writer'.usage = NormalizeUsage(reported')
      BY <1>1, <2>4, <2>6, LoggedOnce DEF NoUsage, TokenUsage
    <3> QED BY <1>1, <2>4, <2>6, <3>2, <3>3, NoCalls DEF OpenInv, ClosedAreDone
  <2> QED BY <2>7, <2>8, <2>9 DEF StreamIInv
<1>5. CASE /\ provider' = [provider EXCEPT !.phase = "ended"]
           /\ Emit(Result([writer EXCEPT !.status = "error"], <<Plain("body", NoBlock)>>))
  <2> DEFINE w == [writer EXCEPT !.status = "error"]
             e == Plain("body", NoBlock)
             r == Result(w, <<e>>)
  <2>1. /\ w \in StreamWriters /\ w.dialect = writer.dialect /\ w.status = "error" /\ w.calls = <<>>
        /\ w.nextBlock = 0
    BY <1>1, <1>2 DEF TypesInv, StreamWriters
  <2>2. provider' \in Providers /\ provider'.phase = "ended"
    BY <1>1, <1>5 DEF TypesInv, Providers
  <2>3. e \in Events /\ e.usage = NoUsage
    <3>1. NoBlock \in 0..NoBlock
      BY DEF NoBlock
    <3> QED BY <3>1, PlainTypes DEF Kinds
  <2>4. Emit(r)
    BY <1>5
  <2> HIDE DEF w, e
  <2>5. r.w = w /\ r.es = <<e>>
    BY ResultParts
  <2>6. <<e>> \in Seq(Events) /\ \A n \in DOMAIN <<e>> : <<e>>[n].usage = NoUsage
    BY <2>3
  <2> HIDE DEF r
  <2>7. writer' = w /\ out' \in Seq(Events) /\ seen' = NoUsage
    BY <1>1, <2>4, <2>5, <2>6, EmitTypes, ObserveNone DEF TypesInv
  <2>8. TypesInv'
    BY <1>1, <1>3, <2>1, <2>2, <2>7, NoCallsInv DEF TypesInv
  <2>9. PhaseInv'
    BY <1>1, <2>1, <2>2, <2>7 DEF PhaseInv
  <2>10. OpenInv'
    BY <2>1, <2>7 DEF OpenInv
  <2> QED BY <2>8, <2>9, <2>10 DEF StreamIInv
<1> QED BY <1>4, <1>5 DEF WriteHeader

\* What every line of an open stream finds.
LEMMA LineFinds ==
  ASSUME StreamIInv, NEW u \in TokenUsage, Line(u)
  PROVE  /\ TypesInv /\ provider.phase = "open" /\ writer.status = "ok" /\ ~writer.finished
         /\ writer.dialect \in Dialects /\ DialectInv(LateBlocks, writer, out)
         /\ seen = NoUsage /\ writer.usage = NormalizeUsage(reported) /\ ClosedAreDone(writer.calls, provider.done)
         /\ sent' = sent + 1 /\ sent' \in 0..MaxEvents /\ sent <= sent' /\ sent \in Nat
         /\ reported' = (IF u = NoUsage THEN reported ELSE u) /\ reported' \in TokenUsage
         /\ writer.nextBlock < MaxEvents
         /\ Cardinality(DOMAIN writer.calls) \in 0..MaxEvents
         /\ CallsInv(writer.calls, sent + 1)
<1>1. /\ TypesInv /\ provider.phase = "open" /\ writer.status = "ok" /\ ~writer.finished
      /\ writer.dialect \in Dialects /\ DialectInv(LateBlocks, writer, out)
      /\ seen = NoUsage /\ writer.usage = NormalizeUsage(reported) /\ ClosedAreDone(writer.calls, provider.done)
      /\ sent' = sent + 1 /\ sent < MaxEvents /\ reported' = (IF u = NoUsage THEN reported ELSE u)
  BY DEF StreamIInv, PhaseInv, OpenInv, Line
<1>2. /\ sent \in 0..MaxEvents /\ writer.nextBlock <= sent /\ writer.nextBlock \in 0..MaxEvents
      /\ reported \in TokenUsage
  BY <1>1 DEF TypesInv, StreamWriters
<1>3. Cardinality(DOMAIN writer.calls) \in Nat /\ Cardinality(DOMAIN writer.calls) <= sent
  BY <1>1, FS_CardinalityType DEF TypesInv, CallsInv
<1>4. CallsInv(writer.calls, sent + 1)
  BY <1>1, <1>2, <1>3 DEF TypesInv, CallsInv
<1> QED BY <1>1, <1>2, <1>3, <1>4

LEMMA CaptureFinds ==
  ASSUME NEW L, NEW w \in StreamWriters, NEW u \in TokenUsage, NEW o, DialectInv(L, w, o)
  PROVE  Captured(w, captureUsage(w, u), u) /\ DialectInv(L, captureUsage(w, u), o)
  BY CaptureMethod DEF Captured

LEMMA TextDeltaInv ==
  ASSUME StreamIInv, NEW u \in TokenUsage, TextDelta(u)
  PROVE  StreamIInv'
<1> DEFINE v == captureUsage(writer, u)
           r == writeDelta(v)
<1>1. Line(u) /\ Emit(r) /\ UNCHANGED provider
  BY DEF TextDelta
<1>2. /\ TypesInv /\ ~writer.finished /\ writer.dialect \in Dialects /\ DialectInv(LateBlocks, writer, out)
      /\ provider.phase = "open" /\ ClosedAreDone(writer.calls, provider.done)
      /\ writer.nextBlock < MaxEvents /\ CallsInv(writer.calls, sent + 1)
  BY <1>1, LineFinds
<1>3. Captured(writer, v, u) /\ DialectInv(LateBlocks, v, out)
  BY <1>2, CaptureFinds DEF TypesInv
<1> HIDE DEF v
<1>4. Ordinary(v, r) /\ DialectInv(LateBlocks, r.w, out \o r.es) /\ r.w.calls = v.calls
  BY <1>2, <1>3, DeltaMethod DEF Captured, TypesInv
<1> HIDE DEF r
<1>5. r.w.calls = writer.calls
  BY <1>3, <1>4 DEF Captured
<1>6. /\ CallsInv(r.w.calls, sent + 1) /\ ClosedAreDone(r.w.calls, provider'.done)
      /\ provider' \in Providers /\ provider'.phase = "open"
  BY <1>1, <1>2, <1>5 DEF TypesInv
<1>7. LateBlocks \subseteq LateBlocks'
  BY <1>1, <1>5, LateGrows DEF Emit, KeepsBlocks
<1> QED BY <1>1, <1>3, <1>4, <1>6, <1>7, OrdinaryStep

LEMMA OtherEventInv ==
  ASSUME StreamIInv, NEW u \in TokenUsage, OtherEvent(u)
  PROVE  StreamIInv'
<1> DEFINE v == captureUsage(writer, u)
           r == Result(v, <<>>)
<1>1. Line(u) /\ Emit(r) /\ UNCHANGED provider
  BY DEF OtherEvent
<1>2. /\ TypesInv /\ DialectInv(LateBlocks, writer, out) /\ provider.phase = "open"
      /\ ClosedAreDone(writer.calls, provider.done) /\ CallsInv(writer.calls, sent + 1)
  BY <1>1, LineFinds
<1>3. Captured(writer, v, u) /\ DialectInv(LateBlocks, v, out)
  BY <1>2, CaptureFinds DEF TypesInv
<1> HIDE DEF v
<1>4. r.w = v /\ r.es = <<>> /\ <<>> \in Seq(Events) /\ DOMAIN <<>> = {} /\ out \o <<>> = out
  BY <1>2, ResultParts, NoCalls, ConcatEmptySeq DEF TypesInv
<1> HIDE DEF r
<1>5. Ordinary(v, r) /\ DialectInv(LateBlocks, r.w, out \o r.es) /\ r.w.calls = writer.calls
  <2>1. v.nextBlock <= v.nextBlock + 1
    BY <1>3 DEF Captured, StreamWriters
  <2> QED BY <1>3, <1>4, <2>1 DEF Ordinary, Captured
<1>6. /\ CallsInv(r.w.calls, sent + 1) /\ ClosedAreDone(r.w.calls, provider'.done)
      /\ provider' \in Providers /\ provider'.phase = "open"
  BY <1>1, <1>2, <1>5 DEF TypesInv
<1>7. LateBlocks \subseteq LateBlocks'
  BY <1>1, <1>5, LateGrows DEF Emit, KeepsBlocks
<1> QED BY <1>1, <1>3, <1>5, <1>6, <1>7, OrdinaryStep

\* A line about an item carries no usage.
LEMMA ItemStep ==
  ASSUME StreamIInv, Line(NoUsage), NEW r, Ordinary(writer, r), Emit(r), NEW L, L \subseteq LateBlocks',
         DialectInv(L, r.w, out \o r.es), CallsInv(r.w.calls, sent + 1), provider' \in Providers,
         provider'.phase = "open", ClosedAreDone(r.w.calls, provider'.done)
  PROVE  StreamIInv'
<1>1. NoUsage \in TokenUsage /\ Captured(writer, writer, NoUsage)
  BY DEF StreamIInv, TypesInv, Captured, NoUsage, TokenUsage
<1> QED BY <1>1, OrdinaryStep

\* A method that has nothing to do.
LEMMA NothingWritten ==
  ASSUME NEW L, NEW w \in StreamWriters, NEW o \in Seq(Events), DialectInv(L, w, o), NEW r, r = Result(w, <<>>)
  PROVE  Ordinary(w, r) /\ DialectInv(L, r.w, o \o r.es) /\ r.w.calls = w.calls
<1>1. r.w = w /\ r.es = <<>> /\ <<>> \in Seq(Events) /\ DOMAIN <<>> = {} /\ o \o <<>> = o
  BY ResultParts, NoCalls, ConcatEmptySeq
<1>2. w.nextBlock <= w.nextBlock + 1
  BY DEF StreamWriters
<1> QED BY <1>1, <1>2 DEF Ordinary

LEMMA NewCallCounts ==
  ASSUME NEW c, NEW n \in Nat, CallsInv(c, n), NEW i, i \notin DOMAIN c, NEW d, NewIndex(c, d, i)
  PROVE  CallsInv(d, n + 1)
<1>1. IsFiniteSet(DOMAIN c) /\ Cardinality(DOMAIN c) \in Nat /\ Cardinality(DOMAIN c) <= n
  BY FS_CardinalityType DEF CallsInv
<1>2. IsFiniteSet(DOMAIN d) /\ Cardinality(DOMAIN d) = Cardinality(DOMAIN c) + 1
  BY <1>1, FS_AddElement DEF NewIndex
<1>3. Cardinality(DOMAIN d) <= n + 1
  BY <1>1, <1>2
<1>4. \A j \in DOMAIN d : d[j].index \in Nat /\ d[j].index < Cardinality(DOMAIN d)
  <2> SUFFICES ASSUME NEW j \in DOMAIN d PROVE d[j].index \in Nat /\ d[j].index < Cardinality(DOMAIN d)
    OBVIOUS
  <2>1. CASE j \in DOMAIN c
    BY <1>1, <1>2, <2>1 DEF CallsInv, NewIndex
  <2>2. CASE j = i
    BY <1>1, <1>2, <2>2 DEF NewIndex
  <2> QED BY <2>1, <2>2 DEF NewIndex
<1>5. \A j, k \in DOMAIN d : d[j].index = d[k].index => j = k
  BY <1>1 DEF CallsInv, NewIndex
<1> QED BY <1>2, <1>3, <1>4, <1>5 DEF CallsInv

LEMMA ItemAddedInv ==
  ASSUME StreamIInv, NEW i \in Items, ItemAdded(i)
  PROVE  StreamIInv'
<1> DEFINE r == startToolCall(writer, i)
<1>0. Line(NoUsage) /\ Emit(r) /\ UNCHANGED provider /\ NoUsage \in TokenUsage
  BY DEF ItemAdded, NoUsage, TokenUsage
<1>1. /\ TypesInv /\ ~writer.finished /\ writer.dialect \in Dialects /\ DialectInv(LateBlocks, writer, out)
      /\ provider.phase = "open" /\ ClosedAreDone(writer.calls, provider.done) /\ sent \in Nat
      /\ writer.nextBlock < MaxEvents /\ Cardinality(DOMAIN writer.calls) \in 0..MaxEvents
      /\ CallsInv(writer.calls, sent + 1)
  BY <1>0, LineFinds
<1>2. provider' \in Providers /\ provider'.phase = "open" /\ provider'.done = provider.done
  BY <1>0, <1>1 DEF TypesInv, Providers
<1>3. writer \in StreamWriters /\ out \in Seq(Events)
  BY <1>1 DEF TypesInv
<1>4. CASE i \in DOMAIN writer.calls
  <2>1. r = Result(writer, <<>>)
    BY <1>4 DEF startToolCall
  <2> HIDE DEF r
  <2>2. Ordinary(writer, r) /\ DialectInv(LateBlocks, r.w, out \o r.es) /\ r.w.calls = writer.calls
    BY <1>1, <1>3, <2>1, NothingWritten
  <2>3. LateBlocks \subseteq LateBlocks'
    BY <1>0, <2>2, LateGrows DEF Emit, KeepsBlocks
  <2> QED BY <1>0, <1>1, <1>2, <2>2, <2>3, ItemStep
<1>5. CASE i \notin DOMAIN writer.calls
  <2>1. Ordinary(writer, r) /\ DialectInv(LateBlocks, r.w, out \o r.es) /\ NewIndex(writer.calls, r.w.calls, i)
    BY <1>1, <1>3, <1>5, CallMethod
  <2> HIDE DEF r
  <2>2. CallsInv(r.w.calls, sent + 1)
    BY <1>1, <1>5, <2>1, NewCallCounts DEF TypesInv
  <2>3. ClosedAreDone(r.w.calls, provider'.done)
    BY <1>1, <1>2, <2>1 DEF ClosedAreDone, NewIndex
  <2>4. LateBlocks \subseteq LateBlocks'
    BY <1>0, <2>1, LateGrows DEF Emit, KeepsBlocks, NewIndex
  <2> QED BY <1>0, <1>2, <2>1, <2>2, <2>3, <2>4, ItemStep
<1> QED BY <1>4, <1>5

LEMMA ArgumentsDeltaInv ==
  ASSUME StreamIInv, NEW i \in Items, ArgumentsDelta(i)
  PROVE  StreamIInv'
<1> DEFINE r == writeToolArguments(writer, i)
<1>0. /\ Line(NoUsage) /\ Emit(r) /\ NoUsage \in TokenUsage
      /\ provider' = [provider EXCEPT !.late = IF i \in provider.done THEN @ \cup {i} ELSE @]
  BY DEF ArgumentsDelta, NoUsage, TokenUsage
<1>1. /\ TypesInv /\ ~writer.finished /\ writer.dialect \in Dialects /\ DialectInv(LateBlocks, writer, out)
      /\ provider.phase = "open" /\ ClosedAreDone(writer.calls, provider.done)
      /\ CallsInv(writer.calls, sent + 1)
  BY <1>0, LineFinds
<1>2. /\ writer \in StreamWriters /\ out \in Seq(Events)
      /\ provider' \in Providers /\ provider'.phase = "open" /\ provider'.done = provider.done
      /\ provider'.late = IF i \in provider.done THEN provider.late \cup {i} ELSE provider.late
  BY <1>0, <1>1 DEF TypesInv, Providers
<1> DEFINE L == {writer.calls[j].block : j \in provider'.late \cap DOMAIN writer.calls}
<1>3. LateBlocks \subseteq L
  BY <1>2 DEF LateBlocks
<1>4. DialectInv(L, writer, out)
  <2> HIDE DEF L
  <2> QED BY <1>1, <1>3, MoreLate
<1>5. i \in DOMAIN writer.calls => ~writer.calls[i].closed \/ writer.calls[i].block \in L
  BY <1>1, <1>2 DEF ClosedAreDone
<1> HIDE DEF L
<1>6. Ordinary(writer, r) /\ DialectInv(L, r.w, out \o r.es) /\ r.w.calls = writer.calls
  <2>1. CASE i \in DOMAIN writer.calls
    <3>1. Takes(L, writer, i)
      BY <1>5, <2>1 DEF Takes
    <3>2. writer \in StreamWriters /\ out \in Seq(Events) /\ writer.dialect \in Dialects /\ ~writer.finished
      BY <1>1, <1>2
    <3> QED BY <1>4, <2>1, <3>1, <3>2, ArgumentsMethod
  <2>2. CASE i \notin DOMAIN writer.calls
    <3>1. r = Result(writer, <<>>)
      BY <2>2 DEF writeToolArguments
    <3> HIDE DEF r
    <3> QED BY <1>2, <1>4, <3>1, NothingWritten
  <2> QED BY <2>1, <2>2
<1> HIDE DEF r
<1>7. L \subseteq LateBlocks'
  BY <1>0, <1>6 DEF L, LateBlocks, Emit
<1> QED BY <1>0, <1>1, <1>2, <1>6, <1>7, ItemStep

LEMMA ItemDoneInv ==
  ASSUME StreamIInv, NEW i \in Items, ItemDone(i)
  PROVE  StreamIInv'
<1> DEFINE r == stopToolCall(writer, i)
<1>0. Line(NoUsage) /\ Emit(r) /\ provider' = [provider EXCEPT !.done = @ \cup {i}] /\ NoUsage \in TokenUsage
  BY DEF ItemDone, NoUsage, TokenUsage
<1>1. /\ TypesInv /\ ~writer.finished /\ writer.dialect \in Dialects /\ DialectInv(LateBlocks, writer, out)
      /\ provider.phase = "open" /\ ClosedAreDone(writer.calls, provider.done)
      /\ CallsInv(writer.calls, sent + 1)
  BY <1>0, LineFinds
<1>2. provider' \in Providers /\ provider'.phase = "open" /\ provider'.done = provider.done \cup {i}
  BY <1>0, <1>1 DEF TypesInv, Providers
<1>3. writer \in StreamWriters /\ out \in Seq(Events)
  BY <1>1 DEF TypesInv
<1>4. /\ Ordinary(writer, r) /\ DialectInv(LateBlocks, r.w, out \o r.es)
      /\ r.w.calls = writer.calls \/ ClosedIn(writer.calls, r.w.calls, i)
  <2>1. CASE i \in DOMAIN writer.calls /\ ~writer.calls[i].closed
    BY <1>1, <1>3, <2>1, StopMethod
  <2>2. CASE i \notin DOMAIN writer.calls \/ (i \in DOMAIN writer.calls /\ writer.calls[i].closed)
    <3>1. r = Result(writer, <<>>)
      BY <2>2 DEF stopToolCall
    <3> HIDE DEF r
    <3> QED BY <1>1, <1>3, <3>1, NothingWritten
  <2> QED BY <2>1, <2>2
<1> HIDE DEF r
<1>5. CallsInv(r.w.calls, sent + 1)
  BY <1>1, <1>4 DEF CallsInv, ClosedIn
<1>6. ClosedAreDone(r.w.calls, provider'.done)
  BY <1>1, <1>2, <1>4 DEF ClosedAreDone, ClosedIn
<1>7. LateBlocks \subseteq LateBlocks'
  <2>1. KeepsBlocks(writer.calls, r.w.calls)
    BY <1>4 DEF KeepsBlocks, ClosedIn
  <2>2. provider'.late = provider.late
    BY <1>0, <1>1 DEF TypesInv, Providers
  <2> QED BY <1>0, <2>1, <2>2, LateGrows DEF Emit
<1> QED BY <1>0, <1>2, <1>4, <1>5, <1>6, <1>7, ItemStep

LEMMA LastEventInv ==
  ASSUME StreamIInv, NEW u \in TokenUsage, LastEvent(u)
  PROVE  StreamIInv'
<1> DEFINE v == captureUsage(writer, u)
<1>1. Line(u) /\ provider' = [provider EXCEPT !.phase = "ended"]
  BY DEF LastEvent
<1>2. /\ TypesInv /\ ~writer.finished /\ writer.dialect \in Dialects /\ DialectInv(LateBlocks, writer, out)
      /\ provider.phase = "open" /\ writer.usage = NormalizeUsage(reported) /\ sent' \in 0..MaxEvents /\ sent <= sent'
      /\ reported' = (IF u = NoUsage THEN reported ELSE u) /\ reported' \in TokenUsage
  BY <1>1, LineFinds
<1>3. Captured(writer, v, u) /\ DialectInv(LateBlocks, v, out)
  BY <1>2, CaptureFinds DEF TypesInv
<1>4. PICK f \in SetToSeqs(Open(writer)) : Emit(finishStream(v, f))
  BY DEF LastEvent
<1> HIDE DEF v
<1>5. /\ v \in StreamWriters /\ v.dialect = writer.dialect /\ v.status = writer.status /\ ~v.finished
      /\ v.nextBlock = writer.nextBlock /\ v.calls = writer.calls /\ v.usage = NormalizeUsage(reported')
  BY <1>2, <1>3 DEF Captured
<1>6. f \in SetToSeqs(Open(v)) /\ IsFiniteSet(DOMAIN v.calls)
  <2>1. Open(v) = Open(writer)
    BY <1>5 DEF Open
  <2> QED BY <1>2, <1>5, <2>1 DEF TypesInv, CallsInv
<1>7. Finishes(LateBlocks, v, finishStream(v, f), out)
  <2>1. out \in Seq(Events) /\ v.dialect \in Dialects
    BY <1>2, <1>5 DEF TypesInv
  <2> QED BY <1>3, <1>5, <1>6, <2>1, FinishMethod
<1>8. provider' \in Providers /\ provider'.phase \in {"ended", "gone"} /\ provider'.late = provider.late
  BY <1>1, <1>2 DEF TypesInv, Providers
<1> DEFINE r == finishStream(v, f)
<1>9. Finishes(LateBlocks, v, r, out) /\ Emit(r)
  BY <1>4, <1>7
<1> HIDE DEF r
<1> QED BY <1>2, <1>5, <1>8, <1>9, FinishKeeps

\* A finished writer writes nothing more.
LEMMA FinishedAlready ==
  ASSUME TypesInv, writer.finished, NEW f, Emit(finishStream(writer, f))
  PROVE  UNCHANGED <<writer, out, seen>>
<1> DEFINE r == finishStream(writer, f)
<1>1. r = Result(writer, <<>>)
  BY DEF finishStream
<1> HIDE DEF r
<1>2. r.w = writer /\ r.es = <<>> /\ <<>> \in Seq(Events) /\ DOMAIN <<>> = {} /\ out \o <<>> = out
  BY <1>1, ResultParts, NoCalls, ConcatEmptySeq DEF TypesInv
<1>3. Emit(r) /\ out \in Seq(Events)
  BY DEF TypesInv, r
<1>4. writer' = r.w /\ out' = out \o r.es /\ seen' = observe(seen, r.es)
  BY <1>2, <1>3, EmitTypes
<1>5. observe(seen, r.es) = seen
  BY <1>2, ObserveNone
<1> QED BY <1>2, <1>4, <1>5

LEMMA SentGrows ==
  ASSUME TypesInv, NEW n \in 0..MaxEvents, sent <= n
  PROVE  writer.nextBlock <= n /\ CallsInv(writer.calls, n)
<1>1. /\ sent \in Nat /\ writer.nextBlock \in Nat /\ writer.nextBlock <= sent
      /\ Cardinality(DOMAIN writer.calls) \in Nat /\ Cardinality(DOMAIN writer.calls) <= sent
  BY FS_CardinalityType DEF TypesInv, CallsInv, StreamWriters
<1> QED BY <1>1 DEF TypesInv, CallsInv

LEMMA TrailingDoneInv ==
  ASSUME StreamIInv, TrailingDone
  PROVE  StreamIInv'
<1>1. /\ TypesInv /\ PhaseInv /\ OpenInv /\ provider.phase = "ended" /\ writer.status = "ok"
      /\ writer.finished /\ UNCHANGED <<provider, reported>> /\ sent' = sent + 1 /\ sent < MaxEvents
  BY DEF StreamIInv, PhaseInv, TrailingDone
<1>2. PICK f : Emit(finishStream(writer, f))
  BY DEF TrailingDone
<1>3. UNCHANGED <<writer, out, seen>>
  BY <1>1, <1>2, FinishedAlready
<1>4. sent' \in 0..MaxEvents /\ sent <= sent'
  BY <1>1 DEF TypesInv
<1>5. writer.nextBlock <= sent' /\ CallsInv(writer.calls, sent')
  BY <1>1, <1>4, SentGrows
<1>6. TypesInv'
  BY <1>1, <1>3, <1>4, <1>5 DEF TypesInv
<1>7. PhaseInv' /\ OpenInv'
  BY <1>1, <1>3 DEF PhaseInv, OpenInv, LateBlocks
<1> QED BY <1>6, <1>7 DEF StreamIInv

LEMMA FinishInv ==
  ASSUME StreamIInv, Finish
  PROVE  StreamIInv'
<1>1. /\ TypesInv /\ PhaseInv /\ OpenInv /\ provider.phase \in {"open", "ended"}
      /\ provider' = [provider EXCEPT !.phase = "gone"] /\ UNCHANGED <<reported, sent>>
  BY DEF StreamIInv, Finish
<1>2. /\ provider' \in Providers /\ provider'.phase = "gone" /\ provider'.done = provider.done
      /\ provider'.late = provider.late
      /\ writer.dialect \in Dialects
  BY <1>1 DEF TypesInv, Providers, PhaseInv
<1>3. ASSUME UNCHANGED <<writer, out, seen>>, writer.status = "ok" => writer.finished PROVE StreamIInv'
  <2>1. TypesInv'
    BY <1>1, <1>2, <1>3 DEF TypesInv
  <2>2. PhaseInv' /\ OpenInv'
    BY <1>1, <1>2, <1>3 DEF PhaseInv, OpenInv, LateBlocks
  <2> QED BY <2>1, <2>2 DEF StreamIInv
<1>4. CASE writer.status = "ok" /\ ~writer.finished
  <2>1. PICK f \in SetToSeqs(Open(writer)) : Emit(finishStream(writer, f))
    BY <1>4 DEF Finish
  <2>2. /\ provider.phase = "open" /\ DialectInv(LateBlocks, writer, out) /\ writer.usage = NormalizeUsage(reported')
        /\ writer \in StreamWriters /\ out \in Seq(Events) /\ IsFiniteSet(DOMAIN writer.calls)
        /\ sent' \in 0..MaxEvents /\ sent <= sent' /\ reported' \in TokenUsage
    BY <1>1, <1>4 DEF PhaseInv, OpenInv, TypesInv, CallsInv
  <2> DEFINE r == finishStream(writer, f)
  <2>3. Finishes(LateBlocks, writer, r, out) /\ Emit(r)
    BY <1>2, <1>4, <2>1, <2>2, FinishMethod
  <2> HIDE DEF r
  <2> QED BY <1>2, <2>2, <2>3, FinishKeeps
<1>5. CASE writer.status = "ok" /\ writer.finished
  <2>1. PICK f : Emit(finishStream(writer, f))
    BY <1>5 DEF Finish
  <2> QED BY <1>1, <1>3, <1>5, <2>1, FinishedAlready
<1>6. CASE writer.status # "ok"
  <2> DEFINE r == Result(writer, <<>>)
  <2>1. Emit(r)
    BY <1>6 DEF Finish
  <2>2. r.w = writer /\ r.es = <<>> /\ <<>> \in Seq(Events) /\ DOMAIN <<>> = {} /\ out \o <<>> = out
    BY <1>1, ResultParts, NoCalls, ConcatEmptySeq DEF TypesInv
  <2> HIDE DEF r
  <2>3. writer' = r.w /\ out' = out \o r.es /\ seen' = observe(seen, r.es)
    BY <1>1, <2>1, <2>2, EmitTypes DEF TypesInv
  <2>4. observe(seen, r.es) = seen
    BY <2>2, ObserveNone
  <2> QED BY <1>3, <1>6, <2>2, <2>3, <2>4
<1> QED BY <1>4, <1>5, <1>6

LEMMA StreamStepInv ==
  ASSUME StreamIInv, [StreamNext]_sVars
  PROVE  StreamIInv'
<1>1. CASE \E d \in Dialects : Request(d)
  BY <1>1, RequestInv
<1>2. CASE WriteHeader
  BY <1>2, WriteHeaderInv
<1>3. CASE TrailingDone
  BY <1>3, TrailingDoneInv
<1>4. CASE Finish
  BY <1>4, FinishInv
<1>5. CASE \E u \in Reports : ProviderEvent(u)
  <2>1. PICK u \in TokenUsage : ProviderEvent(u)
    <3>1. Counts \cup {0} \subseteq Nat
      OBVIOUS
    <3>2. Reports \subseteq TokenUsage
      BY <3>1 DEF Reports, TokenUsage
    <3> QED BY <1>5, <3>2
  <2>2. CASE TextDelta(u)
    BY <2>2, TextDeltaInv
  <2>3. CASE OtherEvent(u)
    BY <2>3, OtherEventInv
  <2>4. CASE LastEvent(u)
    BY <2>4, LastEventInv
  <2> QED BY <2>1, <2>2, <2>3, <2>4 DEF ProviderEvent
<1>6. CASE \E i \in Items : ItemEvent(i)
  <2>1. PICK i \in Items : ItemEvent(i)
    BY <1>6
  <2>2. CASE ItemAdded(i)
    BY <2>2, ItemAddedInv
  <2>3. CASE ArgumentsDelta(i)
    BY <2>3, ArgumentsDeltaInv
  <2>4. CASE ItemDone(i)
    BY <2>4, ItemDoneInv
  <2> QED BY <2>1, <2>2, <2>3, <2>4 DEF ItemEvent
<1>7. CASE UNCHANGED sVars
  BY <1>7 DEF sVars, StreamIInv, TypesInv, PhaseInv, OpenInv, LateBlocks
<1> QED BY <1>1, <1>2, <1>3, <1>4, <1>5, <1>6, <1>7 DEF StreamNext

LEMMA StreamIInvAlways == StreamSpec => []StreamIInv
<1>1. StreamInit => StreamIInv
  BY StreamInitInv
<1>2. StreamIInv /\ [StreamNext]_sVars => StreamIInv'
  BY StreamStepInv
<1> QED BY <1>1, <1>2, PTL DEF StreamSpec

----------------------------------------------------------------------------
\* What the invariant gives the client and the log.

LEMMA InvGivesTypes ==
  ASSUME StreamIInv
  PROVE  StreamTypeOK
<1>1. TypesInv
  BY DEF StreamIInv
<1>2. /\ writer \in StreamWriters /\ writer.calls \in CallTables
  BY <1>1 DEF TypesInv, StreamWriters
<1>3. DOMAIN writer.calls \subseteq Items /\ \A i \in DOMAIN writer.calls : writer.calls[i] \in Call
  BY <1>2, CallTypes
<1>4. IsInjective([i \in DOMAIN writer.calls |-> writer.calls[i].index])
  BY <1>1 DEF TypesInv, CallsInv, IsInjective
<1>5. /\ writer.dialect \in Dialects \cup {"none"} /\ writer.status \in {"none", "ok", "error"}
      /\ writer.started \in BOOLEAN /\ writer.finished \in BOOLEAN
      /\ writer.textBlock \in 0..MaxEvents \cup {NoBlock} /\ writer.nextBlock \in 0..MaxEvents
      /\ writer.usage \in TokenUsage
  BY <1>2 DEF StreamWriters, NoBlock
<1> QED BY <1>1, <1>3, <1>4, <1>5 DEF StreamTypeOK, TypesInv, Providers

\* The starts of blocks, in the order of the events.
LEMMA StartOrder ==
  ASSUME NEW o \in Seq(Events), NEW nb, BlocksStarted(nb, o),
         NEW m \in DOMAIN o, NEW n \in DOMAIN o, o[m].kind = "block_start", o[n].kind = "block_start"
  PROVE  /\ o[m].block = o[n].block => m = n
         /\ o[m].block < o[n].block => m < n
<1>0. m \in Nat /\ n \in Nat /\ o[m] \in Events /\ o[n] \in Events
  OBVIOUS
<1>1. m \in Nat /\ n \in Nat /\ o[m].block \in Nat /\ o[n].block \in Nat
  BY <1>0 DEF Events, NoBlock
<1>2. m < n \/ m = n \/ n < m
  BY <1>1
<1> QED BY <1>1, <1>2 DEF BlocksStarted

LEMMA InvGivesAnthropic ==
  ASSUME StreamIInv
  PROVE  AnthropicStreamIsGood
<1> SUFFICES ASSUME writer.dialect = "anthropic", writer.status = "ok"
             PROVE  /\ {n \in DOMAIN out : out[n].kind = "message_start"} = {1}
                    /\ \A n \in DOMAIN out : out[n].kind \in Final => n = Len(out)
                    /\ Blocks = 0..(Cardinality(Blocks) - 1)
                    /\ \A a, b \in Blocks : a < b => \A m \in Places("block_start", a),
                                                        n \in Places("block_start", b) : m < n
                    /\ \A b \in Blocks : Cardinality(Places("block_start", b)) = 1
                                         /\ Cardinality(Places("block_stop", b)) <= 1
                    /\ \A n \in DOMAIN out : out[n].kind \in {"block_delta", "block_stop"} =>
                          /\ \E m \in Places("block_start", out[n].block) : m < n
                          /\ out[n].block \notin LateBlocks =>
                                \A m \in Places("block_stop", out[n].block) : n <= m
  BY DEF AnthropicStreamIsGood
<1> DEFINE nb == writer.nextBlock
<1>1. AnthropicInv(LateBlocks, writer, out) /\ out \in Seq(Events) /\ nb \in Nat
  BY DEF StreamIInv, OpenInv, DialectInv, TypesInv, StreamWriters
<1>2. BlocksStarted(nb, out) /\ BlocksUsed(LateBlocks, out) /\ OneStart(out)
  BY <1>1 DEF AnthropicInv, BlocksInv
<1>3. \A n \in DOMAIN out : n \in Nat /\ out[n] \in Events
  BY <1>1
<1> HIDE DEF nb
<1>4. {n \in DOMAIN out : out[n].kind = "message_start"} = {1}
  BY <1>1, <1>2 DEF OneStart
<1>5. \A n \in DOMAIN out : out[n].kind \in Final => n = Len(out)
  BY <1>1 DEF AnthropicInv, Ended, Unfinished
<1>6. Blocks = 0..(nb - 1) /\ Cardinality(Blocks) = nb
  <2>1. \A b \in Blocks : b \in 0..(nb - 1)
    <3> SUFFICES ASSUME NEW b \in Blocks PROVE b \in 0..(nb - 1)
      OBVIOUS
    <3>1. PICK n \in DOMAIN out : out[n].kind = "block_start" /\ b = out[n].block
      BY DEF Blocks
    <3>2. b \in Nat /\ b < nb
      BY <1>2, <1>3, <3>1 DEF BlocksStarted, Events, NoBlock
    <3> QED BY <1>1, <3>2
  <2>2. \A b \in 0..(nb - 1) : b \in Blocks
    BY <1>2 DEF BlocksStarted, Written, Blocks
  <2>3. Cardinality(0..(nb - 1)) = nb
    BY <1>1, FS_Interval
  <2>4. Blocks = 0..(nb - 1)
    BY <2>1, <2>2
  <2> QED BY <2>3, <2>4
<1>7. \A a, b \in Blocks : a < b => \A m \in Places("block_start", a), n \in Places("block_start", b) : m < n
  BY <1>1, <1>2, StartOrder DEF Places
<1>8. ASSUME NEW b \in Blocks
      PROVE  Cardinality(Places("block_start", b)) = 1 /\ Cardinality(Places("block_stop", b)) <= 1
  <2>1. PICK n \in DOMAIN out : out[n].kind = "block_start" /\ b = out[n].block
    BY DEF Blocks
  <2>2. Places("block_start", b) = {n}
    BY <1>1, <1>2, <2>1, StartOrder DEF Places
  <2>3. \A k, l \in Places("block_stop", b) : k = l
    <3> SUFFICES ASSUME NEW k \in DOMAIN out, NEW l \in DOMAIN out, out[k].kind = "block_stop",
                        out[l].kind = "block_stop", out[k].block = out[l].block
                 PROVE  k = l
      BY DEF Places
    <3>1. k < l \/ k = l \/ l < k
      BY <1>3
    <3> QED BY <1>2, <3>1 DEF BlocksUsed
  <2>4. Places("block_stop", b) = {} \/ \E k : Places("block_stop", b) = {k}
    BY <2>3
  <2>5. Cardinality(Places("block_stop", b)) = 0 \/ Cardinality(Places("block_stop", b)) = 1
    <3>1. CASE Places("block_stop", b) = {}
      BY <3>1, FS_EmptySet
    <3>2. CASE \E k : Places("block_stop", b) = {k}
      <4>1. PICK k : Places("block_stop", b) = {k}
        BY <3>2
      <4> QED BY <4>1, FS_Singleton
    <3> QED BY <2>4, <3>1, <3>2
  <2>6. Cardinality(Places("block_start", b)) = 1
    BY <2>2, FS_Singleton
  <2> QED BY <2>5, <2>6
<1>9. ASSUME NEW n \in DOMAIN out, out[n].kind \in {"block_delta", "block_stop"}
      PROVE  /\ \E m \in Places("block_start", out[n].block) : m < n
             /\ out[n].block \notin LateBlocks => \A m \in Places("block_stop", out[n].block) : n <= m
  <2>1. \E m \in Places("block_start", out[n].block) : m < n
    BY <1>2, <1>9 DEF BlocksUsed, Places
  <2>2. ASSUME out[n].block \notin LateBlocks, NEW m \in Places("block_stop", out[n].block) PROVE n <= m
    <3>1. m \in DOMAIN out /\ out[m].kind = "block_stop" /\ out[m].block = out[n].block
      BY <2>2 DEF Places
    <3>2. ~(m < n)
      BY <1>2, <1>9, <2>2, <3>1 DEF BlocksUsed
    <3> QED BY <1>3, <3>1, <3>2
  <2> QED BY <2>1, <2>2
<1> QED BY <1>4, <1>5, <1>6, <1>7, <1>8, <1>9

LEMMA InvGivesChat ==
  ASSUME StreamIInv
  PROVE  ChatStreamIsGood
<1> SUFFICES ASSUME writer.dialect = "chat", writer.status = "ok"
             PROVE  /\ \A n \in DOMAIN out : out[n].kind = "role" <=> n = 1 /\ out[n].kind \notin Reasons
                    /\ \A n \in DOMAIN out : out[n].kind \in {"usage", "done"} =>
                          \E m \in 1..(n - 1) : out[m].kind \in Reasons
                    /\ \A n \in DOMAIN out : out[n].kind \in Reasons =>
                          \A m \in (n + 1)..Len(out) : out[m].kind \in {"usage", "done"}
                    /\ \A n \in DOMAIN out : out[n].kind = "done" => n = Len(out)
  BY DEF ChatStreamIsGood
<1>1. ChatInv(writer, out)
  BY DEF StreamIInv, OpenInv, DialectInv
<1>2. CASE writer.finished
  BY <1>1, <1>2 DEF ChatInv, ChatEnded
<1>3. CASE ~writer.finished
  BY <1>1, <1>3 DEF ChatInv, ChatOpen, Reasons
<1> QED BY <1>2, <1>3

LEMMA InvGivesFinished ==
  ASSUME StreamIInv
  PROVE  EveryStreamIsFinished
<1> SUFFICES ASSUME provider.phase = "gone", writer.status = "ok"
             PROVE  /\ out # <<>> /\ Last(out).kind \in Final
                    /\ \A b \in Blocks : Places("block_stop", b) # {}
                    /\ \E n \in DOMAIN out : out[n].kind = StopReason(writer)
  BY DEF EveryStreamIsFinished
<1>1. /\ writer.finished /\ writer.dialect \in Dialects /\ DialectInv(LateBlocks, writer, out)
      /\ out \in Seq(Events) /\ writer \in StreamWriters
  BY DEF StreamIInv, PhaseInv, OpenInv, TypesInv
<1>2. Last(out) = out[Len(out)]
  BY DEF Last
<1>3. CASE writer.dialect = "anthropic"
  <2>1. /\ OneStart(out) /\ Ended(writer, out)
        /\ BlocksInv(LateBlocks, writer.calls, writer.textBlock, writer.nextBlock, writer.finished, out)
    BY <1>1, <1>3 DEF DialectInv, AnthropicInv
  <2>2. ASSUME NEW b \in Blocks PROVE Written(out, "block_stop", b)
    <3>1. PICK n \in DOMAIN out : out[n].kind = "block_start" /\ b = out[n].block
      BY DEF Blocks
    <3>2. b \in Nat /\ b < writer.nextBlock /\ writer.nextBlock \in Nat /\ writer.nextBlock < NoBlock
      <4>1. out[n] \in Events
        BY <1>1
      <4>2. b \in Nat /\ writer.nextBlock \in 0..MaxEvents
        BY <1>1, <3>1, <4>1 DEF Events, NoBlock, StreamWriters
      <4>3. b < writer.nextBlock
        BY <2>1, <3>1 DEF BlocksInv, BlocksStarted
      <4> QED BY <4>2, <4>3 DEF NoBlock
    <3>3. b \in 0..(writer.nextBlock - 1) /\ b # NoBlock
      BY <3>2 DEF NoBlock
    <3>4. b = writer.textBlock \/ \E i \in DOMAIN writer.calls : writer.calls[i].block = b
      BY <2>1, <3>3 DEF BlocksInv, BlocksOwned
    <3> QED BY <1>1, <2>1, <3>3, <3>4 DEF BlocksInv, BlocksStopped, Ended
  <2>3. \A b \in Blocks : Places("block_stop", b) # {}
    BY <2>2 DEF Written, Places
  <2> QED BY <1>2, <2>1, <2>3 DEF OneStart, Ended, Final
<1>4. CASE writer.dialect = "chat"
  <2>1. ChatEnded(writer, out)
    BY <1>1, <1>4 DEF DialectInv, ChatInv
  <2>2. Blocks = {}
    BY <2>1 DEF ChatEnded, Blocks
  <2> QED BY <1>2, <2>1, <2>2 DEF ChatEnded, Final
<1> QED BY <1>1, <1>3, <1>4 DEF Dialects

\* The writer, the log's reader and the provider keep their types: in particular a call's index in the
\* choice is below MaxEvents and no other call's (compat.go:521).
THEOREM StreamTypeCorrect == StreamSpec => []StreamTypeOK
<1>1. StreamIInv => StreamTypeOK
  BY InvGivesTypes
<1> QED BY <1>1, StreamIInvAlways, PTL

\* Whatever items the provider adds, fills and finishes, in whatever order, and wherever its stream
\* breaks, the client has read the beginning of a good stream of its dialect (compat.go:336); only of
\* an item that the provider goes on filling after it finished it do deltas follow the block's stop.
THEOREM StreamsAreGood == StreamSpec => []StreamIsGood
<1>1. StreamIInv => StreamIsGood
  BY InvGivesAnthropic, InvGivesChat DEF StreamIsGood
<1> QED BY <1>1, StreamIInvAlways, PTL

\* When the handler has returned, a stream that opened has its final event, every block it started is
\* stopped and the reason it gives fits its tool calls (compat.go:573).
THEOREM StreamsAreFinished == StreamSpec => []EveryStreamIsFinished
<1>1. StreamIInv => EveryStreamIsFinished
  BY InvGivesFinished
<1> QED BY <1>1, StreamIInvAlways, PTL

\* The request log counts the last usage the provider reported, as far as the client's dialect can
\* carry it: Anthropic's drops the total, which the log then sums anew (request_log.go:228).
THEOREM UsageIsLogged == StreamSpec => []UsageReachesTheLog
<1>1. StreamIInv => UsageReachesTheLog
  BY DEF StreamIInv, PhaseInv, OpenInv, UsageReachesTheLog
<1> QED BY <1>1, StreamIInvAlways, PTL

----------------------------------------------------------------------------
\* The request log.

LEMMA TotalsCount ==
  ASSUME NEW t \in Totals, NEW n \in Nat
  PROVE  Plus(t, n) \in Totals /\ Plus(t, n).requests = t.requests + 1
  BY DEF Totals, Plus

\* What Append does to the buffer, full or not.
LEMMA AppendEffect ==
  ASSUME LogTypeOK, NEW h \in Handlers, NEW n \in Tokens, LogAppend(h, n)
  PROVE  LET e == [id |-> nextID + 1, tokens |-> n] IN
         /\ nextID' = nextID + 1
         /\ usage' = Plus(usage, n)
         /\ answering' \in SUBSET Handlers
         /\ view' = view
         /\ \/ /\ Len(entries) = Limit
               /\ entries' = Append(Tail(entries), e)
               /\ dropped' = Plus(dropped, Head(entries).tokens)
            \/ /\ Len(entries) # Limit
               /\ entries' = Append(entries, e)
               /\ dropped' = dropped
  <1>1. answering \in SUBSET Handlers
    BY DEF LogTypeOK
  <1> QED BY <1>1 DEF LogAppend

\* The log's variables keep their types.
LEMMA LogTypeStep == LogTypeOK /\ [LogNext]_lVars => LogTypeOK'
  <1> SUFFICES ASSUME LogTypeOK, [LogNext]_lVars PROVE LogTypeOK'
    OBVIOUS
  <1>0. /\ entries \in Seq(Entry) /\ nextID \in Nat /\ usage \in Totals
        /\ answering \in SUBSET Handlers /\ view \in Seq(Entry) /\ dropped \in Totals
    BY DEF LogTypeOK
  <1>1. ASSUME NEW h \in Handlers, Serve(h) PROVE LogTypeOK'
    BY <1>0, <1>1 DEF Serve, LogTypeOK
  <1>2. ASSUME NEW h \in Handlers, NEW n \in Tokens, LogAppend(h, n) PROVE LogTypeOK'
    <2> DEFINE e == [id |-> nextID + 1, tokens |-> n]
    <2>1. e \in Entry /\ n \in Nat
      BY <1>0 DEF Entry
    <2>2. nextID' \in Nat /\ usage' \in Totals /\ answering' \in SUBSET Handlers /\ view' \in Seq(Entry)
      <3>1. usage' = Plus(usage, n) /\ nextID' = nextID + 1 /\ view' = view
        BY <1>2 DEF LogAppend
      <3>2. Plus(usage, n) \in Totals
        BY <1>0, <2>1, TotalsCount
      <3>3. answering' \in SUBSET Handlers
        BY <1>0, <1>2 DEF LogAppend
      <3> QED BY <1>0, <3>1, <3>2, <3>3
    <2>3. CASE Len(entries) = Limit
      <3>1. entries # <<>>
        BY <2>3
      <3>2. Tail(entries) \in Seq(Entry) /\ Head(entries) \in Entry
        BY <1>0, <3>1, HeadTailProperties
      <3>3. Head(entries).tokens \in Nat
        BY <3>2 DEF Entry
      <3>4. entries' = Append(Tail(entries), e) /\ dropped' = Plus(dropped, Head(entries).tokens)
        BY <1>2, <2>3, AppendEffect
      <3>5. entries' \in Seq(Entry)
        BY <2>1, <3>2, <3>4, AppendProperties
      <3>6. dropped' \in Totals
        BY <1>0, <3>3, <3>4, TotalsCount
      <3> QED BY <2>2, <3>5, <3>6 DEF LogTypeOK
    <2>4. CASE Len(entries) # Limit
      <3>1. entries' = Append(entries, e) /\ dropped' = dropped
        BY <1>2, <2>4, AppendEffect
      <3>2. entries' \in Seq(Entry)
        BY <1>0, <2>1, <3>1, AppendProperties
      <3> QED BY <1>0, <2>2, <3>1, <3>2 DEF LogTypeOK
    <2> QED BY <2>3, <2>4
  <1>3. ASSUME NEW n \in 0..Limit, Snapshot(n) PROVE LogTypeOK'
    <2> DEFINE size == IF n <= 0 \/ n > Len(entries) THEN Len(entries) ELSE n
    <2>1. size \in 0..Len(entries) /\ Len(entries) \in Nat
      BY <1>0
    <2>2. \A i \in 1..size : Len(entries) + 1 - i \in 1..Len(entries)
      BY <2>1
    <2>3. \A i \in 1..size : entries[Len(entries) + 1 - i] \in Entry
      BY <1>0, <2>2
    <2>4. view' = [i \in 1..size |-> entries[Len(entries) + 1 - i]]
      BY <1>3 DEF Snapshot
    <2>5. view' \in Seq(Entry)
      BY <2>1, <2>3, <2>4
    <2> QED BY <1>0, <1>3, <2>5 DEF Snapshot, LogTypeOK
  <1>4. ASSUME Clear PROVE LogTypeOK'
    BY <1>0, <1>4 DEF Clear, LogTypeOK, Totals, Nothing
  <1>5. CASE UNCHANGED lVars
    BY <1>0, <1>5 DEF lVars, LogTypeOK
  <1> QED BY <1>1, <1>2, <1>3, <1>4, <1>5 DEF LogNext

\* Types of the buffer, the totals and the last snapshot.
THEOREM LogTypeCorrect == LogSpec => []LogTypeOK
<1>1. LogInit => LogTypeOK
  BY DEF LogInit, LogTypeOK, Entry, Totals, Nothing
<1> QED BY <1>1, LogTypeStep, PTL DEF LogSpec

----------------------------------------------------------------------------
\* What is in the buffer follows from what has been appended.
LEMMA LogBufferStep ==
    LogTypeOK /\ LogKeepsTheLatest /\ [LogNext]_lVars => LogKeepsTheLatest'
<1> SUFFICES ASSUME LogTypeOK, LogKeepsTheLatest, [LogNext]_lVars PROVE LogKeepsTheLatest'
  OBVIOUS
<1> USE DEF LogKeepsTheLatest
<1>0. entries \in Seq(Entry) /\ nextID \in Nat /\ usage \in Totals /\ dropped \in Totals
  BY DEF LogTypeOK
<1>1. ASSUME NEW h \in Handlers, NEW n \in Tokens, LogAppend(h, n) PROVE LogKeepsTheLatest'
  <2> DEFINE e == [id |-> nextID + 1, tokens |-> n]
  <2>0. usage.requests \in Nat /\ dropped.requests \in Nat
    BY <1>0 DEF Totals
  <2>1. nextID' = nextID + 1 /\ usage'.requests = usage.requests + 1
    BY <1>0, <1>1, AppendEffect, TotalsCount
  <2>2. CASE Len(entries) = Limit
    <3>1. entries # <<>>
      BY <2>2
    <3>2. /\ Tail(entries) \in Seq(Entry)
          /\ Len(Tail(entries)) = Limit - 1
          /\ \A i \in 1..(Limit - 1) : Tail(entries)[i] = entries[i + 1]
      BY <1>0, <2>2, <3>1, HeadTailProperties
    <3>3. Head(entries) \in Entry
      BY <1>0, <3>1, HeadTailProperties
    <3>4. entries' = Append(Tail(entries), e) /\ dropped' = Plus(dropped, Head(entries).tokens)
      BY <1>1, <2>2, AppendEffect
    <3>5. dropped'.requests = dropped.requests + 1
      BY <1>0, <3>3, <3>4, TotalsCount DEF Entry
    <3>6. /\ Len(entries') = Limit
          /\ entries'[Limit] = e
          /\ \A i \in 1..(Limit - 1) : entries'[i] = entries[i + 1]
          /\ DOMAIN entries' = 1..Limit
      <4>1. e \in Entry
        BY <1>0 DEF Entry
      <4> QED BY <3>2, <3>4, <4>1, AppendProperties
    <3>7. ASSUME NEW i \in 1..Limit PROVE entries'[i].id = nextID' - Limit + i
      <4>1. CASE i = Limit
        BY <1>0, <2>1, <3>6, <4>1
      <4>2. CASE i # Limit
        <5>1. i \in 1..(Limit - 1) /\ i + 1 \in DOMAIN entries
          BY <1>0, <2>2, <4>2
        <5>2. entries[i + 1].id = nextID - Limit + (i + 1)
          BY <2>2, <5>1
        <5> QED BY <1>0, <2>1, <3>6, <5>1, <5>2
      <4> QED BY <4>1, <4>2
    <3> QED BY <2>0, <2>1, <2>2, <3>5, <3>6, <3>7
  <2>3. CASE Len(entries) # Limit
    <3>1. entries' = Append(entries, e) /\ dropped' = dropped
      BY <1>1, <2>3, AppendEffect
    <3>2. /\ Len(entries') = Len(entries) + 1
          /\ entries'[Len(entries) + 1] = e
          /\ \A i \in 1..Len(entries) : entries'[i] = entries[i]
          /\ DOMAIN entries' = 1..(Len(entries) + 1)
      <4>1. e \in Entry
        BY <1>0 DEF Entry
      <4> QED BY <1>0, <3>1, <4>1, AppendProperties
    <3>3. ASSUME NEW i \in 1..(Len(entries) + 1)
          PROVE  entries'[i].id = nextID' - Len(entries') + i
      <4>1. Len(entries) \in Nat
        BY <1>0
      <4>2. CASE i = Len(entries) + 1
        BY <1>0, <2>1, <3>2, <4>1, <4>2
      <4>3. CASE i # Len(entries) + 1
        <5>1. i \in 1..Len(entries)
          BY <4>1, <4>3
        <5>0. DOMAIN entries = 1..Len(entries)
          BY <1>0, LenProperties
        <5>2. entries[i].id = nextID - Len(entries) + i
          BY <5>0, <5>1
        <5> QED BY <1>0, <2>1, <3>2, <4>1, <5>1, <5>2
      <4> QED BY <4>2, <4>3
    <3> QED BY <1>0, <2>0, <2>1, <2>3, <3>1, <3>2, <3>3
  <2> QED BY <2>2, <2>3
<1>2. ASSUME NEW h \in Handlers, Serve(h) PROVE LogKeepsTheLatest'
  BY <1>2 DEF Serve
<1>3. ASSUME NEW n \in 0..Limit, Snapshot(n) PROVE LogKeepsTheLatest'
  BY <1>3 DEF Snapshot
<1>4. ASSUME Clear PROVE LogKeepsTheLatest'
  BY <1>4 DEF Clear, Nothing
<1>5. CASE UNCHANGED lVars
  BY <1>5 DEF lVars
<1> QED BY <1>1, <1>2, <1>3, <1>4, <1>5 DEF LogNext

\* The buffer holds the latest requests under consecutive IDs, for every capacity.
THEOREM BufferKeepsTheLatest == LogSpec => []LogKeepsTheLatest
<1>1. LogInit => LogKeepsTheLatest
  BY DEF LogInit, LogKeepsTheLatest, Nothing
<1> QED BY <1>1, LogBufferStep, LogTypeCorrect, PTL DEF LogSpec

----------------------------------------------------------------------------
\* What the window shows has been given before, newest first.
ViewIsPast ==
    /\ \A i \in DOMAIN view : view[i].id <= nextID
    /\ \A i, j \in DOMAIN view : i < j => view[i].id > view[j].id

LogIInv == LogTypeOK /\ LogKeepsTheLatest /\ ViewIsPast

\* Every entry after an append was in the buffer before, or is the new one.
LEMMA AppendAddsOne ==
  ASSUME LogTypeOK, NEW h \in Handlers, NEW n \in Tokens, LogAppend(h, n),
         NEW i \in DOMAIN entries'
  PROVE  \/ \E j \in DOMAIN entries : entries'[i] = entries[j]
         \/ entries'[i] = [id |-> nextID + 1, tokens |-> n]
  <1> DEFINE e == [id |-> nextID + 1, tokens |-> n]
  <1>1. entries \in Seq(Entry) /\ e \in Entry
    BY DEF LogTypeOK, Entry
  <1>2. DOMAIN entries = 1..Len(entries) /\ Len(entries) \in Nat
    BY <1>1, LenProperties
  <1>3. CASE Len(entries) = Limit
    <2>1. entries # <<>>
      BY <1>3
    <2>2. /\ Tail(entries) \in Seq(Entry)
          /\ Len(Tail(entries)) = Limit - 1
          /\ \A k \in 1..(Limit - 1) : Tail(entries)[k] = entries[k + 1]
      BY <1>1, <1>3, <2>1, HeadTailProperties
    <2>3. entries' = Append(Tail(entries), e)
      BY <1>3, AppendEffect
    <2>4. /\ DOMAIN entries' = 1..Limit
          /\ entries'[Limit] = e
          /\ \A k \in 1..(Limit - 1) : entries'[k] = Tail(entries)[k]
      BY <1>1, <2>2, <2>3, AppendProperties
    <2>5. CASE i = Limit
      BY <2>4, <2>5
    <2>6. CASE i # Limit
      <3>1. i \in 1..(Limit - 1) /\ i + 1 \in 1..Len(entries)
        BY <1>3, <2>4, <2>6
      <3> QED BY <1>2, <2>2, <2>4, <3>1
    <2> QED BY <2>5, <2>6
  <1>4. CASE Len(entries) # Limit
    <2>1. entries' = Append(entries, e)
      BY <1>4, AppendEffect
    <2>2. /\ DOMAIN entries' = 1..(Len(entries) + 1)
          /\ entries'[Len(entries) + 1] = e
          /\ \A k \in 1..Len(entries) : entries'[k] = entries[k]
      BY <1>1, <2>1, AppendProperties
    <2>3. CASE i = Len(entries) + 1
      BY <2>2, <2>3
    <2>4. CASE i # Len(entries) + 1
      <3>1. i \in 1..Len(entries)
        BY <1>2, <2>2, <2>4
      <3> QED BY <1>2, <2>2, <3>1
    <2> QED BY <2>3, <2>4
  <1> QED BY <1>3, <1>4

\* A snapshot shows the buffer backwards.
LEMMA SnapshotShowsBackwards ==
  ASSUME LogTypeOK, LogKeepsTheLatest, NEW n \in 0..Limit, Snapshot(n)
  PROVE  \A i \in DOMAIN view' : i \in Nat \ {0} /\ view'[i].id = nextID + 1 - i
  <1> DEFINE size == IF n <= 0 \/ n > Len(entries) THEN Len(entries) ELSE n
  <1>1. entries \in Seq(Entry) /\ nextID \in Nat
    BY DEF LogTypeOK
  <1>2. DOMAIN entries = 1..Len(entries) /\ Len(entries) \in Nat
    BY <1>1, LenProperties
  <1>3. size \in Nat /\ size <= Len(entries)
    BY <1>2
  <1>4. view' = [i \in 1..size |-> entries[Len(entries) + 1 - i]]
    BY DEF Snapshot
  <1> HIDE DEF size
  <1> SUFFICES ASSUME NEW i \in 1..size
               PROVE  i \in Nat \ {0} /\ view'[i].id = nextID + 1 - i
    BY <1>4
  <1>5. Len(entries) + 1 - i \in 1..Len(entries)
    BY <1>2, <1>3
  <1>6. entries[Len(entries) + 1 - i].id = nextID - Len(entries) + (Len(entries) + 1 - i)
    BY <1>2, <1>5 DEF LogKeepsTheLatest
  <1>7. view'[i] = entries[Len(entries) + 1 - i]
    BY <1>4
  <1> QED BY <1>1, <1>2, <1>3, <1>6, <1>7

\* The window's view stays in the past of the log.
LEMMA ViewStep == LogIInv /\ [LogNext]_lVars => ViewIsPast'
<1> SUFFICES ASSUME LogIInv, [LogNext]_lVars PROVE ViewIsPast'
  OBVIOUS
<1> USE DEF LogIInv
<1>0. nextID \in Nat
  BY DEF LogTypeOK
<1>1. ASSUME NEW h \in Handlers, NEW n \in Tokens, LogAppend(h, n) PROVE ViewIsPast'
  <2>1. view' = view /\ nextID' = nextID + 1
    BY <1>1 DEF LogAppend
  <2>2. view \in Seq(Entry)
    BY DEF LogTypeOK
  <2>3. \A i \in DOMAIN view : view[i].id \in Nat
    <3>1. DOMAIN view = 1..Len(view) /\ \A i \in 1..Len(view) : view[i] \in Entry
      BY <2>2, ElementOfSeq, LenProperties
    <3> QED BY <3>1 DEF Entry
  <2> QED BY <1>0, <2>1, <2>3 DEF ViewIsPast
<1>2. ASSUME NEW h \in Handlers, Serve(h) PROVE ViewIsPast'
  BY <1>2 DEF Serve, ViewIsPast
<1>3. ASSUME NEW n \in 0..Limit, Snapshot(n) PROVE ViewIsPast'
  <2>1. \A i \in DOMAIN view' : i \in Nat \ {0} /\ view'[i].id = nextID + 1 - i
    BY <1>3, SnapshotShowsBackwards
  <2>2. nextID' = nextID
    BY <1>3 DEF Snapshot
  <2> QED BY <1>0, <2>1, <2>2 DEF ViewIsPast
<1>4. ASSUME Clear PROVE ViewIsPast'
  BY <1>4 DEF Clear, ViewIsPast
<1>5. CASE UNCHANGED lVars
  BY <1>5 DEF lVars, ViewIsPast
<1> QED BY <1>1, <1>2, <1>3, <1>4, <1>5 DEF LogNext

\* What a step puts into the buffer has an ID nobody has seen.
LEMMA NewIdsAreNew ==
  ASSUME LogIInv, [LogNext]_lVars, NEW i \in DOMAIN entries',
         entries'[i] \notin {entries[j] : j \in DOMAIN entries}
  PROVE  entries'[i].id > nextID /\ entries'[i].id \notin Shown(view)
<1> USE DEF LogIInv
<1>0. nextID \in Nat
  BY DEF LogTypeOK
<1>1. ASSUME NEW h \in Handlers, NEW n \in Tokens, LogAppend(h, n)
      PROVE  entries'[i].id > nextID /\ entries'[i].id \notin Shown(view)
  <2>1. entries'[i] = [id |-> nextID + 1, tokens |-> n]
    BY <1>1, AppendAddsOne
  <2>2. entries'[i].id = nextID + 1
    BY <2>1
  <2>3. \A k \in DOMAIN view : view[k].id <= nextID
    BY DEF ViewIsPast
  <2> QED BY <1>0, <2>2, <2>3 DEF Shown
<1>2. ASSUME entries' = entries PROVE FALSE
  BY <1>2
<1>3. ASSUME Clear PROVE FALSE
  BY <1>3 DEF Clear
<1>4. CASE \E h \in Handlers : Serve(h)
  BY <1>2, <1>4 DEF Serve
<1>5. CASE \E n \in 0..Limit : Snapshot(n)
  BY <1>2, <1>5 DEF Snapshot
<1>6. CASE UNCHANGED lVars
  BY <1>2, <1>6 DEF lVars
<1> QED BY <1>1, <1>3, <1>4, <1>5, <1>6 DEF LogNext

\* An ID is given once, across evictions and clears, for every capacity.
THEOREM IdsAreGivenOnce == LogSpec => IdsNeverReused
<1>1. LogInit => ViewIsPast
  BY DEF LogInit, ViewIsPast
<1>2. LogIInv /\ [LogNext]_lVars =>
        [/\ \A i \in DOMAIN entries' : entries'[i] \notin {entries[j] : j \in DOMAIN entries} =>
               entries'[i].id > nextID /\ entries'[i].id \notin Shown(view)
         /\ \A i, j \in DOMAIN view' : i < j => view'[i].id > view'[j].id]_lVars
  <2>1. LogIInv /\ [LogNext]_lVars => \A i, j \in DOMAIN view' : i < j => view'[i].id > view'[j].id
    BY ViewStep DEF ViewIsPast
  <2> QED BY <2>1, NewIdsAreNew
<1>3. LogSpec => []LogIInv
  <2>1. LogInit /\ []LogTypeOK /\ []LogKeepsTheLatest /\ [][LogNext]_lVars => []LogIInv
    <3>1. LogIInv /\ [LogNext]_lVars /\ LogTypeOK' /\ LogKeepsTheLatest' => LogIInv'
      BY ViewStep DEF LogIInv
    <3>2. LogInit /\ LogTypeOK /\ LogKeepsTheLatest => LogIInv
      BY <1>1 DEF LogIInv
    <3> QED BY <3>1, <3>2, PTL
  <2> QED BY <2>1, LogTypeCorrect, BufferKeepsTheLatest, PTL DEF LogSpec
<1> QED BY <1>2, <1>3, PTL DEF LogSpec, IdsNeverReused

====
