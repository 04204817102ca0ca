------------------------------ MODULE Firehose ------------------------------
(***************************************************************************)
(* The event stream of the server: the sequencer's table and its poller    *)
(* (src/src/sequencer/sequencer.ts), the outbox of each subscriber         *)
(* (src/src/sequencer/outbox.ts) and the subscribeRepos handler that opens *)
(* it (src/src/api/com/atproto/sync/subscribeRepos.ts).                    *)
(*                                                                         *)
(* An event is its sequence number; a batch, which the code keeps sorted   *)
(* by it, is a set of them.  A query and the use of its result are two     *)
(* actions, because the code awaits in between.  The table outlives a stop *)
(* of the process, the rest does not.                                      *)
(***************************************************************************)
EXTENDS Integers, Sequences, FiniteSets

CONSTANTS
  Dids,      \* the accounts events are about
  Clients,   \* the subscribers of the stream
  PageSize,  \* rows of a backfill page (500 in the code)
  PollLimit, \* rows of a poll (1000 in the code)
  MaxBuffer, \* capacity of an outbox buffer (cfg.subscription.maxBuffer)
  MaxSeq     \* bound of the model on the events ever sequenced

ASSUME SizesAssumption ==
  /\ PageSize \in Nat \ {0}
  /\ PollLimit \in Nat \ {0}
  /\ MaxBuffer \in Nat \ {0}
  /\ MaxSeq \in Nat

VARIABLES
  log,      \* log[q]: the account of the q-th event ever sequenced
  rows,     \* the sequence numbers of the rows of repo_seq
  expired,  \* rows up to this one are older than the backfill window
  seqSeen,  \* Sequencer.lastSeen
  polled,   \* the rows of a poll that are not emitted yet
  st,       \* st[c]: where the handler of subscriber c stands
  cursor,   \* cursor[c]: backfillCursor of its outbox, None without one
  seen,     \* seen[c]: Outbox.lastSeen
  fetched,  \* fetched[c]: rows of its last query not yet used
  pending,  \* pending[c]: Outbox.cutoverBuffer, a sequence of batches
  out,      \* out[c]: Outbox.outBuffer, a sequence of batches
  got       \* got[c]: the last event c was sent, or where it asked to start

tableVars  == <<log, rows, expired>>
pollVars   == <<seqSeen, polled>>
outboxVars == <<st, cursor, seen, fetched, pending, out, got>>
vars == <<tableVars, pollVars, outboxVars>>

None == -1

\* off: no stream.  outdated: the info frame is sent, its new start is not
\* known.  query: a backfill page is to be read.  page: its rows are being
\* yielded.  ready: backfill is over.  cutover: listening, the cutover query
\* is to be run.  merge: its result is to be buffered.  stream: caughtUp.
Phases ==
  {"off", "outdated", "query", "page", "ready", "cutover", "merge", "stream"}

IsLeast(e, S) == e \in S /\ \A q \in S : e <= q
After(n) == {q \in rows : q > n}
FirstRows(S, n) == {q \in S : Cardinality({p \in S : p < q}) < n}

\* Where the next query of an outbox starts.
Base(c) == IF seen[c] > None THEN seen[c] ELSE cursor[c]

PushMany(buffer, batch) == IF batch = {} THEN buffer ELSE Append(buffer, batch)

\* The event e of the first batch is taken from the buffer.
Take(buffer, e) ==
  IF Head(buffer) = {e} THEN Tail(buffer)
                        ELSE [buffer EXCEPT ![1] = buffer[1] \ {e}]

\* The distinct events of a buffer, and its length, duplicates counted.
Held(buffer) == UNION {buffer[i] : i \in DOMAIN buffer}
Entries(buffer) == UNION {{<<i, q>> : q \in buffer[i]} : i \in DOMAIN buffer}
-----------------------------------------------------------------------------
Init ==
  /\ log = <<>>
  /\ rows = {}
  /\ expired = 0
  /\ seqSeen = 0
  /\ polled = {}
  /\ st = [c \in Clients |-> "off"]
  /\ cursor = [c \in Clients |-> None]
  /\ seen = [c \in Clients |-> None]
  /\ fetched = [c \in Clients |-> {}]
  /\ pending = [c \in Clients |-> <<>>]
  /\ out = [c \in Clients |-> <<>>]
  /\ got = [c \in Clients |-> 0]

\* sequenceEvt: the key is autoincrement, so it is never used twice.
SequenceEvt(d) ==
  /\ Len(log) < MaxSeq
  /\ log' = Append(log, d)
  /\ rows' = rows \cup {Len(log) + 1}
  /\ UNCHANGED <<expired, pollVars, outboxVars>>

\* deleteAllForUser(did, [accountSeq]): accountSeq is an event of the account.
DeleteAllForUser(d, accountSeq) ==
  /\ log[accountSeq] = d
  /\ rows' = {q \in rows : log[q] # d \/ q = accountSeq}
  /\ UNCHANGED <<log, expired, pollVars, outboxVars>>

\* Time passes and the oldest rows leave the backfill window.
Expire ==
  /\ expired < Len(log)
  /\ expired' = expired + 1
  /\ UNCHANGED <<log, rows, pollVars, outboxVars>>
-----------------------------------------------------------------------------
\* pollDb up to the await of requestSeqRange.
PollQuery ==
  /\ polled = {}
  /\ After(seqSeen) # {}
  /\ polled' = FirstRows(After(seqSeen), PollLimit)
  /\ UNCHANGED <<tableVars, seqSeen, outboxVars>>

\* Mutant of PollEmit: lastSeen one past the last row of the batch.
PollEmitPast ==
  /\ polled # {}
  /\ \E e \in polled : (\A q \in polled : q <= e) /\ seqSeen' = e + 1
  /\ polled' = {}
  /\ out' = [c \in Clients |->
       IF st[c] = "stream" THEN PushMany(out[c], polled) ELSE out[c]]
  /\ UNCHANGED <<tableVars, st, cursor, seen, fetched, pending, got>>

\* Mutant of PollEmit: a listener buffers only until the cutover query is back.
PollEmitDeaf ==
  /\ polled # {}
  /\ \E e \in polled : (\A q \in polled : q <= e) /\ seqSeen' = e
  /\ polled' = {}
  /\ out' = [c \in Clients |->
       IF st[c] = "stream" THEN PushMany(out[c], polled) ELSE out[c]]
  /\ pending' = [c \in Clients |->
       IF st[c] = "cutover" THEN PushMany(pending[c], polled) ELSE pending[c]]
  /\ UNCHANGED <<tableVars, st, cursor, seen, fetched, got>>

\* pollDb after it: every listener buffers the batch, then lastSeen moves.
PollEmit ==
  /\ polled # {}
  /\ \E e \in polled : (\A q \in polled : q <= e) /\ seqSeen' = e
  /\ polled' = {}
  /\ out' = [c \in Clients |->
       IF st[c] = "stream" THEN PushMany(out[c], polled) ELSE out[c]]
  /\ pending' = [c \in Clients |->
       IF st[c] \in {"cutover", "merge"} THEN PushMany(pending[c], polled)
                                         ELSE pending[c]]
  /\ UNCHANGED <<tableVars, st, cursor, seen, fetched, got>>
-----------------------------------------------------------------------------
\* subscribeRepos with a cursor, which is the last event the client has.  It is
\* refused when it is past the last row.
Subscribe(c) ==
  /\ st[c] = "off"
  /\ got[c] = 0 \/ \E q \in rows : got[c] <= q
  /\ IF \E q \in After(got[c]) : IsLeast(q, After(got[c])) /\ q <= expired
       THEN /\ st' = [st EXCEPT ![c] = "outdated"]
            /\ cursor' = [cursor EXCEPT ![c] = expired]
       ELSE /\ st' = [st EXCEPT ![c] = "query"]
            /\ cursor' = [cursor EXCEPT ![c] = got[c]]
  /\ UNCHANGED <<tableVars, pollVars, seen, fetched, pending, out, got>>

\* Without a cursor, or when nothing is left in the window: the stream starts
\* with whatever the sequencer emits next.
StreamFromNow(c) ==
  /\ st' = [st EXCEPT ![c] = "stream"]
  /\ cursor' = [cursor EXCEPT ![c] = None]
  /\ got' = [got EXCEPT ![c] = seqSeen]
  /\ UNCHANGED <<tableVars, pollVars, seen, fetched, pending, out>>

SubscribeLive(c) == st[c] = "off" /\ StreamFromNow(c)

\* After the OutdatedCursor frame: earliestAfterTime(backfillTime).
ResolveOutdated(c) ==
  /\ st[c] = "outdated"
  /\ \/ \E q \in After(cursor[c]) :
          /\ IsLeast(q, After(cursor[c]))
          /\ st' = [st EXCEPT ![c] = "query"]
          /\ cursor' = [cursor EXCEPT ![c] = q - 1]
          /\ got' = [got EXCEPT ![c] = q - 1]
          /\ UNCHANGED <<tableVars, pollVars, seen, fetched, pending, out>>
     \/ After(cursor[c]) = {} /\ StreamFromNow(c)
-----------------------------------------------------------------------------
\* A page of getBackfill is read; an empty one ends the backfill.
BackfillQuery(c) ==
  /\ st[c] = "query"
  /\ fetched' = [fetched EXCEPT ![c] = FirstRows(After(Base(c)), PageSize)]
  /\ st' = [st EXCEPT ![c] = IF After(Base(c)) = {} THEN "ready" ELSE "page"]
  /\ UNCHANGED <<tableVars, pollVars, cursor, seen, pending, out, got>>

Yield(c, e) ==
  /\ seen' = [seen EXCEPT ![c] = e]
  /\ got' = [got EXCEPT ![c] = e]

BackfillYield(c) ==
  /\ st[c] = "page"
  /\ \E e \in fetched[c] :
       /\ IsLeast(e, fetched[c])
       /\ Yield(c, e)
       /\ fetched' = [fetched EXCEPT ![c] = @ \ {e}]
  /\ UNCHANGED <<tableVars, pollVars, st, cursor, pending, out>>

\* Within half a page of the poller, the backfill is called done.
BackfillPageEnd(c) ==
  /\ st[c] = "page"
  /\ fetched[c] = {}
  /\ st' = [st EXCEPT ![c] =
       IF 2 * (seqSeen - seen[c]) < PageSize THEN "ready" ELSE "query"]
  /\ UNCHANGED <<tableVars, pollVars, cursor, seen, fetched, pending, out, got>>

\* sequencer.on('events', addToBuffer), and cutover() is called, not awaited.
Listen(c) ==
  /\ st[c] = "ready"
  /\ st' = [st EXCEPT ![c] = "cutover"]
  /\ UNCHANGED <<tableVars, pollVars, cursor, seen, fetched, pending, out, got>>

\* Mutant of CutoverQuery: it starts where the poller is.
CutoverQueryLate(c) ==
  /\ st[c] = "cutover"
  /\ fetched' = [fetched EXCEPT ![c] = After(seqSeen)]
  /\ st' = [st EXCEPT ![c] = "merge"]
  /\ UNCHANGED <<tableVars, pollVars, cursor, seen, pending, out, got>>

CutoverQuery(c) ==
  /\ st[c] = "cutover"
  /\ fetched' = [fetched EXCEPT ![c] = After(Base(c))]
  /\ st' = [st EXCEPT ![c] = "merge"]
  /\ UNCHANGED <<tableVars, pollVars, cursor, seen, pending, out, got>>

\* Mutant of CutoverMerge: the cutover buffer is emptied before it is pushed.
CutoverMergeEmpty(c) ==
  /\ st[c] = "merge"
  /\ out' = [out EXCEPT ![c] = PushMany(@, fetched[c])]
  /\ pending' = [pending EXCEPT ![c] = <<>>]
  /\ fetched' = [fetched EXCEPT ![c] = {}]
  /\ st' = [st EXCEPT ![c] = "stream"]
  /\ UNCHANGED <<tableVars, pollVars, cursor, seen, got>>

CutoverMerge(c) ==
  /\ st[c] = "merge"
  /\ out' = [out EXCEPT ![c] = PushMany(@, fetched[c]) \o pending[c]]
  /\ pending' = [pending EXCEPT ![c] = <<>>]
  /\ fetched' = [fetched EXCEPT ![c] = {}]
  /\ st' = [st EXCEPT ![c] = "stream"]
  /\ UNCHANGED <<tableVars, pollVars, cursor, seen, got>>
-----------------------------------------------------------------------------
Overflows(c) == Cardinality(Entries(out[c])) > MaxBuffer

\* Mutant of Pull: without the test against lastSeen.
PullAll(c) ==
  /\ st[c] = "stream"
  /\ out[c] # <<>>
  /\ ~Overflows(c)
  /\ \E e \in Head(out[c]) :
       /\ IsLeast(e, Head(out[c]))
       /\ out' = [out EXCEPT ![c] = Take(@, e)]
       /\ Yield(c, e)
  /\ UNCHANGED <<tableVars, pollVars, st, cursor, fetched, pending>>

\* outBuffer.events() hands out the first event; one that is not after
\* lastSeen is skipped.
Pull(c) ==
  /\ st[c] = "stream"
  /\ out[c] # <<>>
  /\ ~Overflows(c)
  /\ \E e \in Head(out[c]) :
       /\ IsLeast(e, Head(out[c]))
       /\ out' = [out EXCEPT ![c] = Take(@, e)]
       /\ IF e > seen[c] THEN Yield(c, e) ELSE UNCHANGED <<seen, got>>
  /\ UNCHANGED <<tableVars, pollVars, st, cursor, fetched, pending>>

\* The handler ends, its listener is removed and its buffers are dropped.
Drop(c) ==
  /\ st' = [st EXCEPT ![c] = "off"]
  /\ cursor' = [cursor EXCEPT ![c] = None]
  /\ seen' = [seen EXCEPT ![c] = None]
  /\ fetched' = [fetched EXCEPT ![c] = {}]
  /\ pending' = [pending EXCEPT ![c] = <<>>]
  /\ out' = [out EXCEPT ![c] = <<>>]
  /\ UNCHANGED <<tableVars, pollVars, got>>

\* AsyncBufferFullError is answered ConsumerTooSlow.
ConsumerTooSlow(c) == st[c] = "stream" /\ Overflows(c) /\ Drop(c)

\* The abort signal of the connection.
Disconnect(c) == st[c] # "off" /\ Drop(c)

\* The process stops at any point and is started again: start() takes curr()
\* as lastSeen.
Restart ==
  /\ IF rows = {} THEN seqSeen' = 0
                  ELSE \E e \in rows : (\A q \in rows : q <= e) /\ seqSeen' = e
  /\ polled' = {}
  /\ st' = [c \in Clients |-> "off"]
  /\ cursor' = [c \in Clients |-> None]
  /\ seen' = [c \in Clients |-> None]
  /\ fetched' = [c \in Clients |-> {}]
  /\ pending' = [c \in Clients |-> <<>>]
  /\ out' = [c \in Clients |-> <<>>]
  /\ UNCHANGED <<tableVars, got>>
-----------------------------------------------------------------------------
OutboxStep(c) ==
  \/ ResolveOutdated(c)
  \/ BackfillQuery(c) \/ BackfillYield(c) \/ BackfillPageEnd(c)
  \/ Listen(c) \/ CutoverQuery(c) \/ CutoverMerge(c)
  \/ Pull(c) \/ ConsumerTooSlow(c)

Next ==
  \/ \E d \in Dids : SequenceEvt(d)
  \/ \E d \in Dids, q \in 1..Len(log) : DeleteAllForUser(d, q)
  \/ Expire
  \/ PollQuery \/ PollEmit
  \/ \E c \in Clients : Subscribe(c) \/ SubscribeLive(c) \/ Disconnect(c)
  \/ \E c \in Clients : OutboxStep(c)
  \/ Restart

Spec == Init /\ [][Next]_vars

\* The event loop keeps running the poller and every open handler, and a
\* connected client keeps reading.
Fairness ==
  /\ WF_vars(PollQuery) /\ WF_vars(PollEmit)
  /\ \A c \in Clients : WF_vars(OutboxStep(c))

FairSpec == Spec /\ Fairness
-----------------------------------------------------------------------------
TypeOK ==
  /\ log \in Seq(Dids)
  /\ rows \subseteq 1..Len(log)
  /\ expired \in 0..Len(log)
  /\ seqSeen \in 0..Len(log)
  /\ polled \subseteq 1..Len(log)
  /\ st \in [Clients -> Phases]
  /\ cursor \in [Clients -> None..Len(log)]
  /\ seen \in [Clients -> None..Len(log)]
  /\ fetched \in [Clients -> SUBSET (1..Len(log))]
  /\ pending \in [Clients -> Seq(SUBSET (1..Len(log)))]
  /\ out \in [Clients -> Seq(SUBSET (1..Len(log)))]
  /\ got \in [Clients -> 0..Len(log)]

\* An event that is still in the table and that a streaming subscriber has not
\* been sent is in its buffer, or the poller has yet to emit it: the hand-over
\* from backfill through cutover to streaming loses nothing.
StreamHolds(c) ==
  \A q \in rows :
    st[c] = "stream" /\ got[c] < q /\ q <= seqSeen => q \in Held(out[c])
OnItsWay == \A c \in Clients : StreamHolds(c)

\* While cutover is under way the listener and the cutover query together
\* already hold every row that the poller has gone past.
CutoverHolds(c) ==
  \A q \in rows :
    st[c] = "merge" /\ got[c] < q /\ q <= seqSeen
      => q \in fetched[c] \cup Held(pending[c])
CutoverCovers == \A c \in Clients : CutoverHolds(c)

\* The inductive invariant behind the two (FirehoseProofs).
\* A poll leaves out no row between the poller and the last one it read.
PolledClosed ==
  \A e \in polled : e > seqSeen /\ \A q \in rows :
    seqSeen < q /\ q < e => q \in polled

\* Outside of the phase that fills them the buffers of an outbox are empty, and
\* its lastSeen, or before the first event its cursor, is where its client is;
\* what a query found is past it.
OutboxShape(c) ==
  /\ \A e \in fetched[c] : got[c] < e
  /\ st[c] \notin {"page", "merge"} => fetched[c] = {}
  /\ st[c] \notin {"cutover", "merge"} => pending[c] = <<>>
  /\ st[c] # "stream" => out[c] = <<>>
  /\ st[c] \in {"off", "outdated"} => seen[c] = None
  /\ st[c] \in {"query", "page", "ready", "cutover", "merge"} => got[c] = Base(c)
  /\ seen[c] # None => got[c] = seen[c]

\* What follows an event of the cutover buffer, up to the poller, is in it too.
PendingClosed(c) ==
  \A e \in Held(pending[c]), q \in rows :
    e < q /\ q <= seqSeen => q \in Held(pending[c])

\* So it is for the out buffer, except for what was sent already.
OutClosed(c) ==
  \A e \in Held(out[c]), q \in rows :
    e < q /\ q <= seqSeen /\ seen[c] < q => q \in Held(out[c])

OutboxInv(c) ==
  OutboxShape(c) /\ PendingClosed(c) /\ OutClosed(c) /\ CutoverHolds(c) /\ StreamHolds(c)

NothingLost == PolledClosed /\ \A c \in Clients : OutboxInv(c)

\* The server keeps the promise of EventStream to every consumer, over any
\* number of connections and restarts: in order, none skipped that still exists,
\* and within a connection none twice.  A connection may begin at an event the
\* consumer has had, and then repeats all from there.
Streaming(c) == st[c] \notin {"off", "outdated"}
Promise == INSTANCE EventStream WITH
  issued <- Len(log),
  withdrawn <- (1..Len(log)) \ rows,
  open <- [c \in Clients |-> Streaming(c)],
  fresh <- [c \in Clients |-> Streaming(c) /\ seen[c] = None]
KeepsPromise == Promise!Spec

\* A subscriber that stays connected is sent every event that stays in the
\* table: neither the poller nor the phases of the outbox leave it waiting.
EventuallySent ==
  \A c \in Clients : \A q \in 1..MaxSeq :
    (st[c] # "off" /\ q \in rows)
      ~> (got[c] >= q \/ st[c] = "off" \/ q \notin rows)

\* "only gets events after cursor" (tests/sequencer.test.ts): an event that is
\* sent is past the cursor, and past every event sent before it.
OnlyAfterCursor ==
  [][\A c \in Clients :
       BackfillYield(c) \/ Pull(c) => got'[c] >= got[c]]_vars
=============================================================================
