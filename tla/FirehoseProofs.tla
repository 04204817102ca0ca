--------------------------- MODULE FirehoseProofs ---------------------------
(***************************************************************************)
(* Proofs about Firehose, for any accounts, subscribers, page, poll and    *)
(* buffer sizes and any length of the log.                                 *)
(***************************************************************************)
EXTENDS Firehose, FiniteSetTheorems, TLAPS

\* What PushMany and Tail do to the events of a buffer.
LEMMA PushType ==
  ASSUME NEW T, NEW b \in Seq(SUBSET T), NEW S \in SUBSET T
  PROVE  PushMany(b, S) \in Seq(SUBSET T)
BY DEF PushMany

LEMMA SeqGrows ==
  ASSUME NEW n \in Nat, NEW b \in Seq(SUBSET (1..n))
  PROVE  b \in Seq(SUBSET (1..(n + 1)))
<1>1. \A i \in 1..Len(b) : b[i] \in SUBSET (1..(n + 1))
  OBVIOUS
<1>2. b \in [1..Len(b) -> SUBSET (1..(n + 1))]
  BY <1>1
<1> QED BY <1>2

LEMMA HeldType ==
  ASSUME NEW T, NEW b \in Seq(SUBSET T)
  PROVE  Held(b) \subseteq T
BY DEF Held

LEMMA HeldEmpty == Held(<<>>) = {}
BY DEF Held

LEMMA HeldConcat ==
  ASSUME NEW a \in Seq(SUBSET Nat), NEW b \in Seq(SUBSET Nat)
  PROVE  Held(a \o b) = Held(a) \cup Held(b)
<1>1. ASSUME NEW q \in Held(a \o b) PROVE q \in Held(a) \cup Held(b)
  <2>1. PICK i \in DOMAIN (a \o b) : q \in (a \o b)[i]
    BY DEF Held
  <2>2. CASE i <= Len(a)
    BY <2>1, <2>2 DEF Held
  <2>3. CASE i > Len(a)
    <3>1. i - Len(a) \in DOMAIN b /\ (a \o b)[i] = b[i - Len(a)]
      BY <2>1, <2>3
    <3> QED BY <2>1, <3>1 DEF Held
  <2> QED BY <2>2, <2>3
<1>2. ASSUME NEW q \in Held(a) PROVE q \in Held(a \o b)
  <2>1. PICK i \in DOMAIN a : q \in a[i]
    BY DEF Held
  <2>2. i \in DOMAIN (a \o b) /\ (a \o b)[i] = a[i]
    OBVIOUS
  <2> QED BY <2>1, <2>2 DEF Held
<1>3. ASSUME NEW q \in Held(b) PROVE q \in Held(a \o b)
  <2>1. PICK i \in DOMAIN b : q \in b[i]
    BY DEF Held
  <2>2. Len(a) + i \in DOMAIN (a \o b) /\ (a \o b)[Len(a) + i] = b[i]
    BY <2>1
  <2> QED BY <2>1, <2>2 DEF Held
<1> QED BY <1>1, <1>2, <1>3

LEMMA AppendIsConcat ==
  ASSUME NEW X, NEW b \in Seq(X), NEW x \in X
  PROVE  Append(b, x) = b \o <<x>>
OBVIOUS

LEMMA HeldPush ==
  ASSUME NEW b \in Seq(SUBSET Nat), NEW S \in SUBSET Nat
  PROVE  Held(PushMany(b, S)) = Held(b) \cup S
<1>1. CASE S = {}
  BY <1>1 DEF PushMany
<1>2. CASE S # {}
  <2>1. Held(<<S>>) = S
    BY DEF Held
  <2>2. PushMany(b, S) = b \o <<S>>
    BY <1>2, AppendIsConcat DEF PushMany
  <2>3. <<S>> \in Seq(SUBSET Nat)
    OBVIOUS
  <2>4. Held(b \o <<S>>) = Held(b) \cup Held(<<S>>)
    BY <2>3, HeldConcat
  <2> QED BY <2>1, <2>2, <2>4
<1> QED BY <1>1, <1>2

\* Handing out the event e of the first batch takes nothing else away.
LEMMA HeldPull ==
  ASSUME NEW T, NEW b \in Seq(SUBSET T), b # <<>>, NEW e \in Head(b)
  PROVE  /\ Take(b, e) \in Seq(SUBSET T)
         /\ Held(Take(b, e)) \subseteq Held(b)
         /\ Held(b) \subseteq Held(Take(b, e)) \cup {e}
<1> DEFINE k == [b EXCEPT ![1] = b[1] \ {e}]
<1>1. CASE Head(b) = {e}
  <2>1. Tail(b) \in Seq(SUBSET T)
    OBVIOUS
  <2>2. \A q \in Held(Tail(b)) : q \in Held(b)
    <3>1. TAKE q \in Held(Tail(b))
    <3>2. PICK i \in DOMAIN Tail(b) : q \in Tail(b)[i]
      BY DEF Held
    <3>3. i + 1 \in DOMAIN b /\ b[i + 1] = Tail(b)[i]
      BY <3>2
    <3> QED BY <3>2, <3>3 DEF Held
  <2>3. \A q \in Held(b) : q \in Held(Tail(b)) \cup {e}
    <3>1. TAKE q \in Held(b)
    <3>2. PICK i \in DOMAIN b : q \in b[i]
      BY DEF Held
    <3>3. CASE i = 1
      BY <1>1, <3>2, <3>3
    <3>4. CASE i # 1
      <4>1. i - 1 \in DOMAIN Tail(b) /\ Tail(b)[i - 1] = b[i]
        BY <3>2, <3>4
      <4> QED BY <3>2, <4>1 DEF Held
    <3> QED BY <3>3, <3>4
  <2> QED BY <1>1, <2>1, <2>2, <2>3 DEF Take
<1>2. CASE Head(b) # {e}
  <2>1. k \in Seq(SUBSET T)
    <3>1. b[1] \ {e} \in SUBSET T
      OBVIOUS
    <3> QED BY <3>1
  <2>2. DOMAIN k = DOMAIN b /\ 1 \in DOMAIN b
    OBVIOUS
  <2>3. k[1] = b[1] \ {e} /\ \A i \in DOMAIN b : i # 1 => k[i] = b[i]
    BY <2>2
  <2>4. Held(k) \subseteq Held(b)
    BY <2>2, <2>3 DEF Held
  <2>5. Held(b) \subseteq Held(k) \cup {e}
    BY <2>2, <2>3 DEF Held
  <2> QED BY <1>2, <2>1, <2>4, <2>5 DEF Take
<1> QED BY <1>1, <1>2
-----------------------------------------------------------------------------
LEMMA InitType == Init => TypeOK
<1> SUFFICES ASSUME Init PROVE TypeOK
  OBVIOUS
<1>1. log = <<>> /\ Len(log) = 0
  BY DEF Init
<1>2. <<>> \in Seq(Dids) /\ <<>> \in Seq(SUBSET (1..Len(log)))
  OBVIOUS
<1> QED BY <1>1, <1>2 DEF Init, TypeOK, Phases, None

\* One step at a time: the log, the poller, then the outbox of a subscriber.
LEMMA TableType == TypeOK /\ (\/ \E d \in Dids : SequenceEvt(d)
                              \/ \E d \in Dids, q \in 1..Len(log) : DeleteAllForUser(d, q)
                              \/ Expire) => TypeOK'
<1> SUFFICES ASSUME TypeOK PROVE
      (\/ \E d \in Dids : SequenceEvt(d)
       \/ \E d \in Dids, q \in 1..Len(log) : DeleteAllForUser(d, q)
       \/ Expire) => TypeOK'
  OBVIOUS
<1> USE DEF tableVars, pollVars, outboxVars
<1>1. ASSUME NEW d \in Dids, SequenceEvt(d) PROVE TypeOK'
  <2>1. Len(log) \in Nat /\ log' \in Seq(Dids) /\ Len(log') = Len(log) + 1
    BY <1>1 DEF TypeOK, SequenceEvt
  <2>2. \A b \in Seq(SUBSET (1..Len(log))) : b \in Seq(SUBSET (1..Len(log')))
    BY <2>1, SeqGrows
  <2>3. pending' \in [Clients -> Seq(SUBSET (1..Len(log')))]
    BY <1>1, <2>2 DEF TypeOK, SequenceEvt
  <2>4. out' \in [Clients -> Seq(SUBSET (1..Len(log')))]
    BY <1>1, <2>2 DEF TypeOK, SequenceEvt
  <2>5. 1..Len(log) \subseteq 1..Len(log') /\ 0..Len(log) \subseteq 0..Len(log')
        /\ None..Len(log) \subseteq None..Len(log')
    BY <2>1 DEF None
  <2>6. fetched' \in [Clients -> SUBSET (1..Len(log'))]
    BY <1>1, <2>5 DEF TypeOK, SequenceEvt
  <2>7. /\ cursor' \in [Clients -> None..Len(log')]
        /\ seen' \in [Clients -> None..Len(log')]
        /\ got' \in [Clients -> 0..Len(log')]
    BY <1>1, <2>5 DEF TypeOK, SequenceEvt
  <2>8. Len(log) + 1 \in 1..Len(log')
    BY <2>1
  <2>9. rows' \subseteq 1..Len(log') /\ polled' \subseteq 1..Len(log')
    BY <1>1, <2>5, <2>8 DEF TypeOK, SequenceEvt
  <2>10. expired' \in 0..Len(log') /\ seqSeen' \in 0..Len(log')
    BY <1>1, <2>5 DEF TypeOK, SequenceEvt
  <2>11. st' \in [Clients -> Phases]
    BY <1>1 DEF TypeOK, SequenceEvt
  <2> QED BY <2>1, <2>3, <2>4, <2>6, <2>7, <2>9, <2>10, <2>11 DEF TypeOK
<1>2. ASSUME NEW d \in Dids, NEW q \in 1..Len(log), DeleteAllForUser(d, q)
      PROVE TypeOK'
  BY <1>2 DEF TypeOK, DeleteAllForUser
<1>3. ASSUME Expire PROVE TypeOK'
  BY <1>3 DEF TypeOK, Expire
<1> QED BY <1>1, <1>2, <1>3

LEMMA PollerType == TypeOK /\ (PollQuery \/ PollEmit) => TypeOK'
<1> SUFFICES ASSUME TypeOK PROVE PollQuery \/ PollEmit => TypeOK'
  OBVIOUS
<1> USE DEF tableVars, pollVars, outboxVars
<1>1. ASSUME PollQuery PROVE TypeOK'
  BY <1>1 DEF TypeOK, PollQuery, FirstRows, After
<1>2. ASSUME PollEmit PROVE TypeOK'
  <2>1. \A c \in Clients :
          /\ PushMany(out[c], polled) \in Seq(SUBSET (1..Len(log)))
          /\ PushMany(pending[c], polled) \in Seq(SUBSET (1..Len(log)))
    BY PushType DEF TypeOK
  <2>2. /\ out' \in [Clients -> Seq(SUBSET (1..Len(log)))]
        /\ pending' \in [Clients -> Seq(SUBSET (1..Len(log)))]
    BY <1>2, <2>1 DEF TypeOK, PollEmit
  <2>3. seqSeen' \in 0..Len(log)
    BY <1>2 DEF TypeOK, PollEmit
  <2> QED BY <1>2, <2>2, <2>3 DEF TypeOK, PollEmit
<1> QED BY <1>1, <1>2

LEMMA OutboxType ==
  ASSUME TypeOK, NEW c \in Clients,
         \/ Subscribe(c) \/ SubscribeLive(c) \/ Disconnect(c) \/ OutboxStep(c)
  PROVE  TypeOK'
<1> DEFINE Idx == 1..Len(log)
           Pos == 0..Len(log)
           Cur == None..Len(log)
           Buf == Seq(SUBSET Idx)
           Typed == /\ st \in [Clients -> Phases]
                    /\ cursor \in [Clients -> Cur]
                    /\ seen \in [Clients -> Cur]
                    /\ fetched \in [Clients -> SUBSET Idx]
                    /\ pending \in [Clients -> Buf]
                    /\ out \in [Clients -> Buf]
                    /\ got \in [Clients -> Pos]
           Goal == /\ st' \in [Clients -> Phases]
                   /\ cursor' \in [Clients -> Cur]
                   /\ seen' \in [Clients -> Cur]
                   /\ fetched' \in [Clients -> SUBSET Idx]
                   /\ pending' \in [Clients -> Buf]
                   /\ out' \in [Clients -> Buf]
                   /\ got' \in [Clients -> Pos]
<1>1. Typed
  BY DEF TypeOK
<1>2. /\ Idx \subseteq Pos /\ Pos \subseteq Cur /\ None \in Cur
      /\ expired \in Cur /\ seqSeen \in Pos /\ rows \subseteq Idx
      /\ \A q \in Idx : q - 1 \in Pos
  BY DEF TypeOK, None
<1>3. <<>> \in Buf
  OBVIOUS
<1>4. UNCHANGED <<tableVars, pollVars>>
  BY DEF Subscribe, SubscribeLive, StreamFromNow, Disconnect, ConsumerTooSlow,
         Drop, OutboxStep, ResolveOutdated, BackfillQuery, BackfillYield,
         BackfillPageEnd, Listen, CutoverQuery, CutoverMerge, Pull
<1>5. Goal => TypeOK'
  BY <1>4 DEF TypeOK, tableVars, pollVars
<1>6. \A p \in {"off", "outdated", "query", "page", "ready", "cutover", "merge",
                "stream"} : p \in Phases
  BY DEF Phases
<1>7. ASSUME NEW e \in Head(out[c]), out[c] # <<>>
      PROVE  /\ e \in Idx
             /\ Take(out[c], e) \in Buf
  <2>1. out[c] \in Seq(SUBSET Idx)
    BY <1>1
  <2>2. e \in Idx
    BY <2>1, <1>7
  <2> QED BY <1>7, <2>1, <2>2, HeldPull
<1>8. PushMany(out[c], fetched[c]) \o pending[c] \in Buf
  <2>1. PushMany(out[c], fetched[c]) \in Buf
    BY <1>1, PushType
  <2> QED BY <1>1, <2>1
<1> HIDE DEF Idx, Pos, Cur, Buf
<1>9. CASE Subscribe(c)
  <2>1. got[c] \in Cur
    BY <1>1, <1>2
  <2> QED BY <1>1, <1>2, <1>5, <1>6, <1>9, <2>1 DEF Subscribe
<1>10. ASSUME StreamFromNow(c) PROVE Goal
  BY <1>1, <1>2, <1>6, <1>10 DEF StreamFromNow
<1>11. CASE ResolveOutdated(c)
  <2>1. ASSUME NEW q \in After(cursor[c]),
               st' = [st EXCEPT ![c] = "query"],
               cursor' = [cursor EXCEPT ![c] = q - 1],
               got' = [got EXCEPT ![c] = q - 1],
               UNCHANGED <<tableVars, pollVars, seen, fetched, pending, out>>
        PROVE Goal
    <3>1. q \in Idx /\ q - 1 \in Pos /\ q - 1 \in Cur
      BY <1>2 DEF After
    <3> QED BY <1>1, <1>6, <2>1, <3>1
  <2> QED BY <1>5, <1>10, <1>11, <2>1 DEF ResolveOutdated
<1>12. CASE BackfillQuery(c)
  <2>1. FirstRows(After(Base(c)), PageSize) \in SUBSET Idx
    BY <1>2 DEF FirstRows, After
  <2> QED BY <1>1, <1>5, <1>6, <1>12, <2>1 DEF BackfillQuery
<1>13. CASE BackfillYield(c)
  <2>1. PICK e \in fetched[c] :
          /\ seen' = [seen EXCEPT ![c] = e] /\ got' = [got EXCEPT ![c] = e]
          /\ fetched' = [fetched EXCEPT ![c] = @ \ {e}]
    BY <1>13 DEF BackfillYield, Yield
  <2>2. e \in Pos /\ e \in Cur /\ fetched[c] \ {e} \in SUBSET Idx
    BY <1>1, <1>2
  <2> QED BY <1>1, <1>5, <1>13, <2>1, <2>2 DEF BackfillYield
<1>14. CASE BackfillPageEnd(c)
  BY <1>1, <1>5, <1>6, <1>14 DEF BackfillPageEnd
<1>15. CASE Listen(c)
  BY <1>1, <1>5, <1>6, <1>15 DEF Listen
<1>16. CASE CutoverQuery(c)
  <2>1. After(Base(c)) \in SUBSET Idx
    BY <1>2 DEF After
  <2> QED BY <1>1, <1>5, <1>6, <1>16, <2>1 DEF CutoverQuery
<1>17. CASE CutoverMerge(c)
  BY <1>1, <1>3, <1>5, <1>6, <1>8, <1>17 DEF CutoverMerge
<1>18. CASE Pull(c)
  <2>1. PICK e \in Head(out[c]) :
          /\ out' = [out EXCEPT ![c] = Take(@, e)]
          /\ IF e > seen[c] THEN Yield(c, e) ELSE UNCHANGED <<seen, got>>
    BY <1>18 DEF Pull
  <2>2. out' \in [Clients -> Buf]
    BY <1>1, <1>7, <1>18, <2>1 DEF Pull
  <2>3. e \in Pos /\ e \in Cur
    BY <1>2, <1>7, <1>18 DEF Pull
  <2>4. seen' \in [Clients -> Cur] /\ got' \in [Clients -> Pos]
    BY <1>1, <2>1, <2>3 DEF Yield
  <2> QED BY <1>1, <1>5, <1>18, <2>2, <2>4 DEF Pull
<1>19. ASSUME Drop(c) PROVE Goal
  BY <1>1, <1>2, <1>3, <1>6, <1>19 DEF Drop
<1> QED BY <1>5, <1>9, <1>10, <1>11, <1>12, <1>13, <1>14, <1>15, <1>16, <1>17,
           <1>18, <1>19
        DEF SubscribeLive, Disconnect, ConsumerTooSlow, OutboxStep

LEMMA RestartType == TypeOK /\ Restart => TypeOK'
<1> SUFFICES ASSUME TypeOK, Restart PROVE TypeOK'
  OBVIOUS
<1>1. seqSeen' \in 0..Len(log)
  BY DEF TypeOK, Restart
<1> QED BY <1>1 DEF TypeOK, Restart, Phases, None, tableVars

LEMMA NextType == TypeOK /\ [Next]_vars => TypeOK'
<1>1. CASE UNCHANGED vars
  BY <1>1 DEF TypeOK, vars, tableVars, pollVars, outboxVars
<1> QED BY <1>1, TableType, PollerType, OutboxType, RestartType DEF Next

\* TypeOK: every sequence number kept anywhere, by the poller, in a page, a
\* buffer or a cursor, is one that was given to an event.
THEOREM TypeCorrect == Spec => []TypeOK
BY InitType, NextType, PTL DEF Spec
-----------------------------------------------------------------------------
(***************************************************************************)
(* NothingLost is inductive.  A row beyond the poller is not yet owed to   *)
(* anyone; PollEmit moves the poller to the last row of a poll, and by     *)
(* PolledClosed every row on the way is in the poll, so it reaches each    *)
(* listener.  The two closure properties of the buffers are there for the  *)
(* subscriber that is sent an event before its cursor: what follows that   *)
(* event is still in its buffer.                                           *)
(***************************************************************************)
\* What the arithmetic of the steps below needs of TypeOK.
LEMMA Numbers ==
  ASSUME TypeOK
  PROVE  /\ Len(log) \in Nat /\ seqSeen \in Nat /\ seqSeen <= Len(log)
         /\ rows \subseteq Nat /\ polled \subseteq Nat
         /\ \A q \in polled : q <= Len(log)
         /\ \A c \in Clients : /\ got[c] \in Nat
                              /\ seen[c] \in Int /\ seen[c] >= None
                              /\ cursor[c] \in Int
                              /\ fetched[c] \subseteq Nat
                              /\ pending[c] \in Seq(SUBSET Nat)
                              /\ out[c] \in Seq(SUBSET Nat)
<1>1. Len(log) \in Nat /\ 1..Len(log) \subseteq Nat
  BY DEF TypeOK
<1>2. \A b \in Seq(SUBSET (1..Len(log))) : b \in Seq(SUBSET Nat)
  <2> TAKE b \in Seq(SUBSET (1..Len(log)))
  <2>1. \A i \in 1..Len(b) : b[i] \in SUBSET Nat
    BY <1>1
  <2>2. b \in [1..Len(b) -> SUBSET Nat]
    BY <2>1
  <2> QED BY <2>2
<1>3. seqSeen \in Nat /\ seqSeen <= Len(log)
  BY DEF TypeOK
<1>4. rows \subseteq Nat /\ polled \subseteq Nat /\ \A q \in polled : q <= Len(log)
  BY DEF TypeOK
<1>5. ASSUME NEW c \in Clients
      PROVE  /\ got[c] \in Nat /\ seen[c] \in Int /\ seen[c] >= None
             /\ cursor[c] \in Int /\ fetched[c] \subseteq Nat
  <2>1. /\ got[c] \in 0..Len(log) /\ seen[c] \in None..Len(log)
        /\ cursor[c] \in None..Len(log) /\ fetched[c] \subseteq 1..Len(log)
    BY DEF TypeOK
  <2> QED BY <1>1, <2>1 DEF None
<1>6. ASSUME NEW c \in Clients
      PROVE  pending[c] \in Seq(SUBSET Nat) /\ out[c] \in Seq(SUBSET Nat)
  BY <1>2 DEF TypeOK
<1> QED BY <1>1, <1>3, <1>4, <1>5, <1>6

LEMMA InitNothingLost == Init => NothingLost
<1> SUFFICES ASSUME Init PROVE NothingLost
  OBVIOUS
<1>1. rows = {} /\ polled = {}
  BY DEF Init
<1>2. ASSUME NEW c \in Clients PROVE OutboxShape(c)
  <2>1. /\ st[c] = "off" /\ fetched[c] = {} /\ pending[c] = <<>>
        /\ out[c] = <<>> /\ seen[c] = None
    BY DEF Init
  <2> QED BY <2>1 DEF OutboxShape
<1> QED BY <1>1, <1>2 DEF NothingLost, PolledClosed, OutboxInv, PendingClosed,
           OutClosed, CutoverHolds, StreamHolds

\* Rows that go, and rows that come after the poller, are owed to no one.
LEMMA TableNothingLost ==
  ASSUME TypeOK, NothingLost, UNCHANGED <<pollVars, outboxVars>>,
         \A q \in rows' : q \in rows \/ (q \in Nat /\ q > Len(log))
  PROVE  NothingLost'
<1> USE DEF pollVars, outboxVars
<1>1. \A q \in rows' : q \in rows \/ (q > seqSeen /\ \A e \in polled : q > e)
  BY Numbers
<1>2. seqSeen \in Nat /\ polled \subseteq Nat /\ rows' \subseteq Nat
  BY Numbers
<1>3. PolledClosed'
  BY <1>1, <1>2 DEF NothingLost, PolledClosed
<1>4. \A q \in rows' : q <= seqSeen => q \in rows
  BY <1>1, <1>2
<1>5. ASSUME NEW c \in Clients PROVE OutboxInv(c)'
  <2>1. OutboxInv(c)
    BY DEF NothingLost
  <2>2. OutboxShape(c)'
    BY <2>1 DEF OutboxInv, OutboxShape, Base
  <2>3. PendingClosed(c)' /\ OutClosed(c)'
    BY <1>4, <2>1 DEF OutboxInv, PendingClosed, OutClosed
  <2>4. CutoverHolds(c)' /\ StreamHolds(c)'
    BY <1>4, <2>1 DEF OutboxInv, CutoverHolds, StreamHolds
  <2> QED BY <2>2, <2>3, <2>4 DEF OutboxInv
<1> QED BY <1>3, <1>5 DEF NothingLost

\* A poll is a prefix of the rows past the poller.
LEMMA FirstRowsClosed ==
  ASSUME NEW S \in SUBSET Nat, IsFiniteSet(S), NEW n \in Nat,
         NEW e \in FirstRows(S, n), NEW q \in S, q < e
  PROVE  q \in FirstRows(S, n)
<1> DEFINE Below(x) == {p \in S : p < x}
<1>0. q \in Nat /\ e \in Nat
  BY DEF FirstRows
<1>1. Below(q) \subseteq Below(e) /\ Below(e) \subseteq S
  <2>1. ASSUME NEW p \in S, p < q PROVE p < e
    <3>1. p \in Nat
      OBVIOUS
    <3> QED BY <1>0, <2>1, <3>1
  <2> QED BY <2>1
<1>2. IsFiniteSet(Below(e))
  BY <1>1, FS_Subset
<1>3. Cardinality(Below(q)) <= Cardinality(Below(e))
  BY <1>1, <1>2, FS_Subset
<1>4. Cardinality(Below(e)) < n
  BY DEF FirstRows
<1>5. IsFiniteSet(Below(q))
  BY <1>1, <1>2, FS_Subset
<1>6. Cardinality(Below(q)) \in Nat /\ Cardinality(Below(e)) \in Nat
  BY <1>2, <1>5, FS_CardinalityType
<1>7. Cardinality(Below(q)) < n
  BY <1>3, <1>4, <1>6
<1> QED BY <1>7 DEF FirstRows

LEMMA PollQueryNothingLost ==
  ASSUME TypeOK, NothingLost, PollQuery PROVE NothingLost'
<1> USE DEF tableVars, outboxVars
<1>1. After(seqSeen) \in SUBSET Nat /\ IsFiniteSet(After(seqSeen))
  <2>1. After(seqSeen) \subseteq 1..Len(log)
    BY DEF TypeOK, After
  <2>2. IsFiniteSet(1..Len(log))
    BY FS_Interval DEF TypeOK
  <2> QED BY <2>1, <2>2, FS_Subset
<1>2. PolledClosed'
  <2> SUFFICES ASSUME NEW e \in polled'
               PROVE  e > seqSeen /\ \A q \in rows :
                        seqSeen < q /\ q < e => q \in polled'
    BY DEF PollQuery, PolledClosed
  <2>1. polled' = FirstRows(After(seqSeen), PollLimit)
    BY DEF PollQuery
  <2>2. e \in After(seqSeen)
    BY <2>1 DEF FirstRows
  <2>3. ASSUME NEW q \in rows, seqSeen < q, q < e PROVE q \in polled'
    <3>1. q \in After(seqSeen)
      BY <2>3 DEF After
    <3>2. PollLimit \in Nat
      BY SizesAssumption
    <3> QED BY <1>1, <2>1, <2>3, <3>1, <3>2, FirstRowsClosed
  <2> QED BY <2>2, <2>3 DEF After
<1>3. UNCHANGED <<rows, seqSeen, outboxVars>>
  BY DEF PollQuery
<1> QED
  BY <1>2, <1>3 DEF NothingLost, OutboxInv, OutboxShape, Base, PendingClosed,
     OutClosed, CutoverHolds, StreamHolds

LEMMA PollEmitNothingLost ==
  ASSUME TypeOK, NothingLost, PollEmit PROVE NothingLost'
<1> USE DEF tableVars
<1>1. PICK m \in polled : seqSeen' = m /\ \A q \in polled : q <= m
  BY DEF PollEmit
<1>2. /\ seqSeen \in Nat /\ m \in Nat /\ rows \subseteq Nat /\ polled \subseteq Nat
      /\ rows' = rows /\ polled' = {}
  BY Numbers DEF PollEmit
<1>3. \A q \in rows : q <= seqSeen' => q <= seqSeen \/ q \in polled
  BY <1>1, <1>2 DEF NothingLost, PolledClosed
<1>4. \A e \in polled : seqSeen < e
  BY <1>2 DEF NothingLost, PolledClosed
<1>5. ASSUME NEW c \in Clients PROVE OutboxInv(c)'
  <2>1. OutboxInv(c)
    BY DEF NothingLost
  <2>2. /\ st'[c] = st[c] /\ cursor'[c] = cursor[c] /\ seen'[c] = seen[c]
        /\ fetched'[c] = fetched[c] /\ got'[c] = got[c]
    BY DEF PollEmit
  <2>3. /\ out'[c] = IF st[c] = "stream" THEN PushMany(out[c], polled) ELSE out[c]
        /\ pending'[c] = IF st[c] \in {"cutover", "merge"}
                           THEN PushMany(pending[c], polled) ELSE pending[c]
    BY DEF PollEmit
  <2>4. /\ Held(PushMany(out[c], polled)) = Held(out[c]) \cup polled
        /\ Held(PushMany(pending[c], polled)) = Held(pending[c]) \cup polled
        /\ Held(out[c]) \subseteq Nat /\ Held(pending[c]) \subseteq Nat
        /\ got[c] \in Nat /\ seen[c] \in Int
    <3>1. /\ out[c] \in Seq(SUBSET Nat) /\ pending[c] \in Seq(SUBSET Nat)
          /\ got[c] \in Nat /\ seen[c] \in Int /\ polled \in SUBSET Nat
      BY Numbers
    <3>2. Held(PushMany(out[c], polled)) = Held(out[c]) \cup polled
      BY <3>1, HeldPush
    <3>3. Held(PushMany(pending[c], polled)) = Held(pending[c]) \cup polled
      BY <3>1, HeldPush
    <3>4. Held(out[c]) \subseteq Nat /\ Held(pending[c]) \subseteq Nat
      BY <3>1, HeldType
    <3> QED BY <3>1, <3>2, <3>3, <3>4
  <2>5. OutboxShape(c)'
    BY <2>1, <2>2, <2>3 DEF OutboxInv, OutboxShape, Base
  <2>6. PendingClosed(c)'
    <3>1. CASE st[c] \in {"cutover", "merge"}
      <4>1. Held(pending'[c]) = Held(pending[c]) \cup polled
        BY <2>3, <2>4, <3>1
      <4>2. ASSUME NEW e \in Held(pending[c]) \cup polled, NEW q \in rows,
                   e < q, q <= seqSeen', q \notin polled
            PROVE  q \in Held(pending[c])
        <5>1. q <= seqSeen
          BY <1>3, <4>2
        <5>2. e \in Nat /\ q \in Nat /\ seqSeen \in Nat
          BY <1>2, <2>4
        <5>3. ~(seqSeen < e)
          BY <4>2, <5>1, <5>2
        <5>4. e \notin polled
          BY <1>4, <5>3
        <5> QED BY <2>1, <4>2, <5>1, <5>4 DEF OutboxInv, PendingClosed
      <4> QED BY <1>2, <4>1, <4>2 DEF PendingClosed
    <3>2. CASE st[c] \notin {"cutover", "merge"}
      <4>1. pending'[c] = <<>>
        BY <2>1, <2>3, <3>2 DEF OutboxInv, OutboxShape
      <4> QED BY <4>1, HeldEmpty DEF PendingClosed
    <3> QED BY <3>1, <3>2
  <2>7. OutClosed(c)'
    <3>1. CASE st[c] = "stream"
      <4>1. Held(out'[c]) = Held(out[c]) \cup polled
        BY <2>3, <2>4, <3>1
      <4> QED BY <1>2, <1>3, <1>4, <2>1, <2>2, <2>4, <4>1 DEF OutboxInv, OutClosed
    <3>2. CASE st[c] # "stream"
      <4>1. out'[c] = <<>>
        BY <2>1, <2>3, <3>2 DEF OutboxInv, OutboxShape
      <4> QED BY <4>1, HeldEmpty DEF OutClosed
    <3> QED BY <3>1, <3>2
  <2>8. CutoverHolds(c)'
    BY <1>2, <1>3, <2>1, <2>2, <2>3, <2>4 DEF OutboxInv, CutoverHolds
  <2>9. StreamHolds(c)'
    BY <1>2, <1>3, <2>1, <2>2, <2>3, <2>4 DEF OutboxInv, StreamHolds
  <2> QED BY <2>5, <2>6, <2>7, <2>8, <2>9 DEF OutboxInv
<1>6. PolledClosed'
  BY <1>2 DEF PolledClosed
<1> QED BY <1>5, <1>6 DEF NothingLost

\* A step of one subscriber touches neither the table, nor the poller, nor the
\* outbox of another, so only its own part of the invariant is at stake.
Same(c) ==
  /\ st'[c] = st[c] /\ cursor'[c] = cursor[c] /\ seen'[c] = seen[c]
  /\ fetched'[c] = fetched[c] /\ pending'[c] = pending[c]
  /\ out'[c] = out[c] /\ got'[c] = got[c]

LEMMA OthersUnchanged ==
  ASSUME TypeOK, NEW c \in Clients,
         \/ Subscribe(c) \/ SubscribeLive(c) \/ Disconnect(c) \/ OutboxStep(c)
  PROVE  /\ UNCHANGED <<tableVars, pollVars>>
         /\ \A k \in Clients \ {c} : Same(k)
<1>1. /\ DOMAIN st = Clients /\ DOMAIN cursor = Clients /\ DOMAIN seen = Clients
      /\ DOMAIN fetched = Clients /\ DOMAIN pending = Clients
      /\ DOMAIN out = Clients /\ DOMAIN got = Clients
  BY DEF TypeOK
<1>2. UNCHANGED <<tableVars, pollVars>>
  BY DEF Subscribe, SubscribeLive, StreamFromNow, Disconnect, ConsumerTooSlow,
         Drop, OutboxStep, ResolveOutdated, BackfillQuery, BackfillYield,
         BackfillPageEnd, Listen, CutoverQuery, CutoverMerge, Pull
<1>3. ASSUME NEW k \in Clients \ {c} PROVE Same(k)
  <2> USE DEF Same
  <2>1. ASSUME StreamFromNow(c) PROVE Same(k)
    BY <1>1, <2>1 DEF StreamFromNow
  <2>2. ASSUME Drop(c) PROVE Same(k)
    BY <1>1, <2>2 DEF Drop
  <2>3. CASE Subscribe(c)
    BY <1>1, <2>3 DEF Subscribe
  <2>4. CASE ResolveOutdated(c)
    BY <1>1, <2>1, <2>4 DEF ResolveOutdated
  <2>5. CASE BackfillQuery(c)
    BY <1>1, <2>5 DEF BackfillQuery
  <2>6. CASE BackfillYield(c)
    BY <1>1, <2>6 DEF BackfillYield, Yield
  <2>7. CASE BackfillPageEnd(c)
    BY <1>1, <2>7 DEF BackfillPageEnd
  <2>8. CASE Listen(c) \/ CutoverQuery(c)
    BY <1>1, <2>8 DEF Listen, CutoverQuery
  <2>9. CASE CutoverMerge(c)
    BY <1>1, <2>9 DEF CutoverMerge
  <2>10. CASE Pull(c)
    BY <1>1, <2>10 DEF Pull, Yield
  <2> QED BY <2>1, <2>2, <2>3, <2>4, <2>5, <2>6, <2>7, <2>8, <2>9, <2>10
          DEF SubscribeLive, Disconnect, ConsumerTooSlow, OutboxStep
<1> QED BY <1>2, <1>3

LEMMA OutboxFrame ==
  ASSUME NothingLost, NEW c \in Clients, UNCHANGED <<tableVars, pollVars>>,
         \A k \in Clients \ {c} : Same(k), OutboxInv(c)'
  PROVE  NothingLost'
<1> USE DEF tableVars, pollVars
<1>1. PolledClosed'
  BY DEF NothingLost, PolledClosed
<1>2. ASSUME NEW k \in Clients \ {c} PROVE OutboxInv(k)'
  <2>1. OutboxInv(k) /\ Same(k)
    BY DEF NothingLost
  <2> QED BY <2>1 DEF Same, OutboxInv, OutboxShape, Base, PendingClosed,
             OutClosed, CutoverHolds, StreamHolds
<1> QED BY <1>1, <1>2 DEF NothingLost

\* Before the listener is on the outbox holds nothing.
LEMMA QuietOutbox ==
  ASSUME NEW c \in Clients, OutboxShape(c)',
         st'[c] \in {"off", "outdated", "query", "page", "ready"}
  PROVE  OutboxInv(c)'
<1>1. pending'[c] = <<>> /\ out'[c] = <<>>
  BY DEF OutboxShape
<1>2. Held(pending'[c]) = {} /\ Held(out'[c]) = {}
  BY <1>1, HeldEmpty
<1> QED BY <1>2 DEF OutboxInv, PendingClosed, OutClosed, CutoverHolds, StreamHolds

LEMMA QuietSteps ==
  ASSUME TypeOK, NEW c \in Clients, OutboxInv(c),
         \/ Subscribe(c) \/ Drop(c) \/ BackfillQuery(c)
         \/ BackfillYield(c) \/ BackfillPageEnd(c)
         \/ ResolveOutdated(c) /\ ~StreamFromNow(c)
  PROVE  OutboxInv(c)'
<1>1. OutboxShape(c)
  BY DEF OutboxInv
<1>2. got[c] \in Nat /\ cursor[c] \in Int
  BY Numbers
<1> USE DEF TypeOK, OutboxShape, Base, None
<1>3. CASE Subscribe(c)
  <2>1. /\ st'[c] \in {"outdated", "query"} /\ got'[c] = got[c]
        /\ st'[c] = "query" => cursor'[c] = got[c]
        /\ fetched'[c] = {} /\ pending'[c] = <<>> /\ out'[c] = <<>>
        /\ seen'[c] = None
    BY <1>1, <1>3 DEF Subscribe
  <2>2. OutboxShape(c)'
    BY <2>1
  <2> QED BY <2>1, <2>2, QuietOutbox
<1>4. CASE Drop(c)
  <2>1. /\ st'[c] = "off" /\ fetched'[c] = {} /\ pending'[c] = <<>>
        /\ out'[c] = <<>> /\ seen'[c] = None
    BY <1>4 DEF Drop
  <2>2. OutboxShape(c)'
    BY <2>1
  <2> QED BY <2>1, <2>2, QuietOutbox
<1>5. CASE BackfillQuery(c)
  <2>1. /\ st[c] = "query" /\ st'[c] \in {"ready", "page"}
        /\ st'[c] = "ready" => After(Base(c)) = {}
        /\ fetched'[c] = FirstRows(After(Base(c)), PageSize)
        /\ cursor'[c] = cursor[c] /\ seen'[c] = seen[c] /\ got'[c] = got[c]
        /\ pending'[c] = pending[c] /\ out'[c] = out[c]
    BY <1>5 DEF BackfillQuery
  <2>2. After(Base(c)) = {} => FirstRows(After(Base(c)), PageSize) = {}
    BY DEF FirstRows
  <2>3. got[c] = Base(c)
    BY <1>1, <2>1
  <2>4. \A e \in fetched'[c] : got'[c] < e
    BY <2>1, <2>3 DEF FirstRows, After
  <2>5. OutboxShape(c)'
    BY <1>1, <2>1, <2>2, <2>4
  <2> QED BY <2>1, <2>5, QuietOutbox
<1>6. CASE BackfillYield(c)
  <2>1. PICK e \in fetched[c] :
          /\ seen' = [seen EXCEPT ![c] = e] /\ got' = [got EXCEPT ![c] = e]
          /\ IsLeast(e, fetched[c]) /\ fetched' = [fetched EXCEPT ![c] = @ \ {e}]
    BY <1>6 DEF BackfillYield, Yield
  <2>2. e \in Nat /\ fetched[c] \subseteq Nat
    BY Numbers
  <2>3. /\ st[c] = "page" /\ st'[c] = "page" /\ seen'[c] = e /\ got'[c] = e
        /\ pending'[c] = pending[c] /\ out'[c] = out[c]
        /\ fetched'[c] = fetched[c] \ {e}
    BY <1>6, <2>1 DEF BackfillYield
  <2>4. \A q \in fetched'[c] : e < q
    BY <2>1, <2>2, <2>3 DEF IsLeast
  <2>5. OutboxShape(c)'
    BY <1>1, <2>2, <2>3, <2>4
  <2> QED BY <2>3, <2>5, QuietOutbox
<1>7. CASE BackfillPageEnd(c)
  <2>1. /\ st[c] = "page" /\ st'[c] \in {"ready", "query"} /\ fetched[c] = {}
        /\ fetched'[c] = fetched[c]
        /\ cursor'[c] = cursor[c] /\ seen'[c] = seen[c] /\ got'[c] = got[c]
        /\ pending'[c] = pending[c] /\ out'[c] = out[c]
    BY <1>7 DEF BackfillPageEnd
  <2>2. OutboxShape(c)'
    BY <1>1, <2>1
  <2> QED BY <2>1, <2>2, QuietOutbox
<1>8. CASE ResolveOutdated(c) /\ ~StreamFromNow(c)
  <2>1. /\ st[c] = "outdated" /\ st'[c] = "query" /\ got'[c] = cursor'[c]
        /\ fetched'[c] = fetched[c] /\ seen'[c] = seen[c]
        /\ pending'[c] = pending[c] /\ out'[c] = out[c]
    BY <1>8 DEF ResolveOutdated
  <2>2. OutboxShape(c)'
    BY <1>1, <2>1
  <2> QED BY <2>1, <2>2, QuietOutbox
<1> QED BY <1>3, <1>4, <1>5, <1>6, <1>7, <1>8

LEMMA StreamFromNowInv ==
  ASSUME TypeOK, NEW c \in Clients, OutboxInv(c), StreamFromNow(c),
         st[c] \in {"off", "outdated"}
  PROVE  OutboxInv(c)'
<1>1. /\ st'[c] = "stream" /\ got'[c] = seqSeen /\ seqSeen' = seqSeen
      /\ seen'[c] = seen[c] /\ fetched'[c] = fetched[c]
      /\ pending'[c] = pending[c] /\ out'[c] = out[c]
  BY DEF StreamFromNow, TypeOK, pollVars
<1>2. /\ fetched[c] = {} /\ pending[c] = <<>> /\ out[c] = <<>>
      /\ seen[c] = None
  BY DEF OutboxInv, OutboxShape
<1>3. Held(pending'[c]) = {} /\ Held(out'[c]) = {}
  BY <1>1, <1>2, HeldEmpty
<1>4. OutboxShape(c)'
  BY <1>1, <1>2 DEF OutboxShape
<1>5. StreamHolds(c)'
  <2>1. rows' \subseteq Nat /\ seqSeen \in Nat
    BY Numbers DEF StreamFromNow, tableVars
  <2> QED BY <1>1, <2>1 DEF StreamHolds
<1> QED BY <1>1, <1>3, <1>4, <1>5
        DEF OutboxInv, PendingClosed, OutClosed, CutoverHolds

LEMMA ListenInv ==
  ASSUME TypeOK, NEW c \in Clients, OutboxInv(c), Listen(c)
  PROVE  OutboxInv(c)'
<1>1. /\ st[c] = "ready" /\ st'[c] = "cutover"
      /\ cursor'[c] = cursor[c] /\ seen'[c] = seen[c] /\ got'[c] = got[c]
      /\ fetched'[c] = fetched[c] /\ pending'[c] = pending[c] /\ out'[c] = out[c]
  BY DEF Listen, TypeOK
<1>2. fetched[c] = {} /\ pending[c] = <<>> /\ out[c] = <<>> /\ got[c] = Base(c)
  BY <1>1 DEF OutboxInv, OutboxShape
<1>3. Held(pending'[c]) = {} /\ Held(out'[c]) = {}
  BY <1>1, <1>2, HeldEmpty
<1>4. OutboxShape(c)'
  BY <1>1, <1>2 DEF OutboxInv, OutboxShape, Base
<1> QED BY <1>1, <1>3, <1>4
        DEF OutboxInv, PendingClosed, OutClosed, CutoverHolds, StreamHolds

\* The cutover query is made after the listener is on: what it does not find is
\* sequenced later and so past the poller.
LEMMA CutoverQueryInv ==
  ASSUME TypeOK, NEW c \in Clients, OutboxInv(c), CutoverQuery(c)
  PROVE  OutboxInv(c)'
<1>1. /\ st[c] = "cutover" /\ st'[c] = "merge" /\ fetched'[c] = After(Base(c))
      /\ cursor'[c] = cursor[c] /\ seen'[c] = seen[c] /\ got'[c] = got[c]
      /\ pending'[c] = pending[c] /\ out'[c] = out[c]
      /\ rows' = rows /\ seqSeen' = seqSeen
  BY DEF CutoverQuery, TypeOK, tableVars, pollVars
<1>2. out[c] = <<>> /\ got[c] = Base(c)
  BY <1>1 DEF OutboxInv, OutboxShape
<1>3. OutboxShape(c)'
  BY <1>1, <1>2 DEF OutboxInv, OutboxShape, Base, After
<1>4. PendingClosed(c)'
  BY <1>1 DEF OutboxInv, PendingClosed
<1>5. OutClosed(c)'
  BY <1>1, <1>2, HeldEmpty DEF OutClosed
<1>6. CutoverHolds(c)'
  BY <1>1, <1>2 DEF CutoverHolds, After
<1> QED BY <1>1, <1>3, <1>4, <1>5, <1>6 DEF OutboxInv, StreamHolds

LEMMA CutoverMergeInv ==
  ASSUME TypeOK, NEW c \in Clients, OutboxInv(c), CutoverMerge(c)
  PROVE  OutboxInv(c)'
<1>1. /\ st[c] = "merge" /\ st'[c] = "stream" /\ fetched'[c] = {}
      /\ seen'[c] = seen[c] /\ got'[c] = got[c] /\ pending'[c] = <<>>
      /\ out'[c] = PushMany(out[c], fetched[c]) \o pending[c]
      /\ rows' = rows /\ seqSeen' = seqSeen
  BY DEF CutoverMerge, TypeOK, tableVars, pollVars
<1>2. /\ out[c] \in Seq(SUBSET Nat) /\ pending[c] \in Seq(SUBSET Nat)
      /\ fetched[c] \in SUBSET Nat /\ rows \subseteq Nat
      /\ got[c] \in Nat /\ seen[c] \in Int /\ seen[c] >= None /\ seqSeen \in Nat
  BY Numbers
<1>3. Held(out'[c]) = fetched[c] \cup Held(pending[c])
  <2>1. PushMany(out[c], fetched[c]) \in Seq(SUBSET Nat)
    BY <1>2, PushType
  <2>2. Held(out'[c]) = Held(PushMany(out[c], fetched[c])) \cup Held(pending[c])
    BY <1>1, <1>2, <2>1, HeldConcat
  <2>3. Held(PushMany(out[c], fetched[c])) = Held(out[c]) \cup fetched[c]
    BY <1>2, HeldPush
  <2>4. Held(out[c]) = {}
    BY <1>1, HeldEmpty DEF OutboxInv, OutboxShape
  <2> QED BY <2>2, <2>3, <2>4
<1>4. OutboxShape(c)'
  BY <1>1 DEF OutboxInv, OutboxShape
<1>5. PendingClosed(c)'
  BY <1>1, HeldEmpty DEF PendingClosed
<1>6. \A q \in rows : got[c] < q /\ q <= seqSeen => q \in Held(out'[c])
  BY <1>1, <1>3 DEF OutboxInv, CutoverHolds
<1>7. OutClosed(c)'
  <2> SUFFICES ASSUME NEW e \in Held(out'[c]), NEW q \in rows,
                      e < q, q <= seqSeen, seen[c] < q
               PROVE  q \in Held(out'[c])
    BY <1>1 DEF OutClosed
  <2>1. CASE e \in Held(pending[c])
    BY <1>3, <2>1 DEF OutboxInv, PendingClosed
  <2>3. CASE e \in fetched[c]
    <3>1. got[c] < e /\ e \in Nat /\ q \in Nat
      BY <1>2, <2>3 DEF OutboxInv, OutboxShape
    <3>2. got[c] < q
      BY <1>2, <3>1
    <3> QED BY <1>6, <3>2
  <2> QED BY <1>3, <2>1, <2>3
<1>8. StreamHolds(c)'
  BY <1>1, <1>6 DEF StreamHolds
<1> QED BY <1>1, <1>4, <1>5, <1>7, <1>8 DEF OutboxInv, CutoverHolds

\* The event that is sent, or skipped because it was sent, is taken away and
\* nothing else is.  After it, when it goes back, OutClosed says what is left.
LEMMA PullInv ==
  ASSUME TypeOK, NEW c \in Clients, OutboxInv(c), Pull(c)
  PROVE  OutboxInv(c)'
<1>1. PICK e \in Head(out[c]) :
        /\ out' = [out EXCEPT ![c] = Take(@, e)]
        /\ IF e > seen[c] THEN Yield(c, e) ELSE UNCHANGED <<seen, got>>
  BY DEF Pull
<1>2. /\ st[c] = "stream" /\ st' = st /\ fetched' = fetched /\ cursor' = cursor
      /\ pending' = pending /\ rows' = rows /\ seqSeen' = seqSeen /\ out[c] # <<>>
  BY DEF Pull, tableVars, pollVars
<1>3. out'[c] = Take(out[c], e)
  BY <1>1 DEF TypeOK
<1>4. /\ out[c] \in Seq(SUBSET Nat) /\ rows \subseteq Nat /\ seqSeen \in Nat
      /\ got[c] \in Nat /\ seen[c] \in Int /\ seen[c] >= None
  BY Numbers
<1>5. e \in Nat /\ e \in Held(out[c])
  <2>1. e \in Head(out[c]) /\ Head(out[c]) = out[c][1] /\ 1 \in DOMAIN out[c]
    BY <1>2, <1>4
  <2>2. e \in Held(out[c])
    BY <2>1 DEF Held
  <2> QED BY <1>4, <2>2, HeldType
<1>6. /\ Held(out'[c]) \subseteq Held(out[c])
      /\ Held(out[c]) \subseteq Held(out'[c]) \cup {e}
  BY <1>2, <1>3, <1>4, HeldPull
<1>7. Held(out[c]) \subseteq Nat
  BY <1>4, HeldType
<1>8. fetched[c] = {} /\ pending[c] = <<>>
  BY <1>2 DEF OutboxInv, OutboxShape
<1>9. PendingClosed(c)'
  BY <1>2, <1>8, HeldEmpty DEF PendingClosed
<1>10. CutoverHolds(c)'
  BY <1>2 DEF CutoverHolds
<1>11. OutClosed(c)
  BY DEF OutboxInv
<1>12. CASE e > seen[c]
  <2>1. seen'[c] = e /\ got'[c] = e
    BY <1>1, <1>12 DEF Yield, TypeOK
  <2>2. OutboxShape(c)'
    BY <1>2, <1>5, <1>8, <2>1 DEF OutboxShape, None
  <2>3. ASSUME NEW q \in rows, e < q, q <= seqSeen PROVE q \in Held(out'[c])
    <3>1. q \in Nat /\ seen[c] < q
      BY <1>4, <1>5, <1>12, <2>3
    <3>2. q \in Held(out[c])
      BY <1>5, <1>11, <2>3, <3>1 DEF OutClosed
    <3> QED BY <1>5, <1>6, <2>3, <3>1, <3>2
  <2>4. OutClosed(c)'
    BY <1>2, <2>1, <2>3 DEF OutClosed
  <2>5. StreamHolds(c)'
    BY <1>2, <2>1, <2>3 DEF StreamHolds
  <2> QED BY <1>9, <1>10, <2>2, <2>4, <2>5 DEF OutboxInv
<1>13. CASE ~(e > seen[c])
  <2>1. seen'[c] = seen[c] /\ got'[c] = got[c]
    BY <1>1, <1>13
  <2>2. seen[c] # None /\ got[c] = seen[c]
    BY <1>5, <1>13 DEF OutboxInv, OutboxShape, None
  <2>3. OutboxShape(c)'
    BY <1>2, <1>8, <2>1, <2>2 DEF OutboxShape
  <2>4. ASSUME NEW q \in rows, seen[c] < q, q \in Held(out[c])
        PROVE  q \in Held(out'[c])
    <3>1. q # e
      BY <1>4, <1>5, <1>13, <2>4
    <3> QED BY <1>6, <2>4, <3>1
  <2>5. OutClosed(c)'
    BY <1>2, <1>6, <1>11, <2>1, <2>4 DEF OutClosed
  <2>6. StreamHolds(c)'
    BY <1>2, <2>1, <2>2, <2>4 DEF OutboxInv, StreamHolds
  <2> QED BY <1>9, <1>10, <2>3, <2>5, <2>6 DEF OutboxInv
<1> QED BY <1>12, <1>13

LEMMA OutboxNothingLost ==
  ASSUME TypeOK, NothingLost, NEW c \in Clients,
         \/ Subscribe(c) \/ SubscribeLive(c) \/ Disconnect(c) \/ OutboxStep(c)
  PROVE  NothingLost'
<1>1. OutboxInv(c)
  BY DEF NothingLost
<1>2. OutboxInv(c)'
  <2>1. ASSUME Drop(c) PROVE OutboxInv(c)'
    BY <1>1, <2>1, QuietSteps
  <2>2. CASE ResolveOutdated(c)
    <3>1. st[c] = "outdated"
      BY <2>2 DEF ResolveOutdated
    <3> QED BY <1>1, <2>2, <3>1, QuietSteps, StreamFromNowInv
  <2>3. CASE SubscribeLive(c)
    BY <1>1, <2>3, StreamFromNowInv DEF SubscribeLive
  <2> QED BY <1>1, <2>1, <2>2, <2>3, QuietSteps, ListenInv, CutoverQueryInv,
             CutoverMergeInv, PullInv
          DEF Disconnect, ConsumerTooSlow, OutboxStep
<1>3. UNCHANGED <<tableVars, pollVars>> /\ \A k \in Clients \ {c} : Same(k)
  BY OthersUnchanged
<1> QED BY <1>2, <1>3, OutboxFrame

LEMMA RestartNothingLost ==
  ASSUME TypeOK, Restart PROVE NothingLost'
<1>1. polled' = {}
  BY DEF Restart
<1>2. ASSUME NEW c \in Clients PROVE OutboxInv(c)'
  <2>1. /\ st'[c] = "off" /\ seen'[c] = None /\ fetched'[c] = {}
        /\ pending'[c] = <<>> /\ out'[c] = <<>>
    BY DEF Restart
  <2>2. OutboxShape(c)'
    BY <2>1 DEF OutboxShape
  <2> QED BY <2>1, <2>2, QuietOutbox
<1> QED BY <1>1, <1>2 DEF NothingLost, PolledClosed

LEMMA NextNothingLost == TypeOK /\ NothingLost /\ [Next]_vars => NothingLost'
<1> SUFFICES ASSUME TypeOK, NothingLost, [Next]_vars PROVE NothingLost'
  OBVIOUS
<1>1. Len(log) \in Nat
  BY Numbers
<1>2. ASSUME NEW d \in Dids, SequenceEvt(d) PROVE NothingLost'
  <2>1. \A q \in rows' : q \in rows \/ (q \in Nat /\ q > Len(log))
    BY <1>1, <1>2 DEF SequenceEvt
  <2> QED BY <1>2, <2>1, TableNothingLost DEF SequenceEvt
<1>3. ASSUME NEW d \in Dids, NEW q \in 1..Len(log), DeleteAllForUser(d, q)
      PROVE  NothingLost'
  BY <1>3, TableNothingLost DEF DeleteAllForUser
<1>4. CASE Expire
  BY <1>4, TableNothingLost DEF Expire
<1>5. CASE UNCHANGED vars
  BY <1>5, TableNothingLost DEF vars, tableVars
<1> QED BY <1>2, <1>3, <1>4, <1>5, PollQueryNothingLost, PollEmitNothingLost,
           OutboxNothingLost, RestartNothingLost DEF Next

\* NothingLost is an invariant: what the two theorems below rest on.
THEOREM NothingLostInvariant == Spec => []NothingLost
BY TypeCorrect, InitNothingLost, NextNothingLost, PTL DEF Spec

\* OnItsWay: whatever the order of the poller's batches, the pages, the cutover
\* query and the listener, an event of the table that a streaming subscriber
\* has not had is in its buffer or still to be emitted.
THEOREM HandOverLosesNothing == Spec => []OnItsWay
<1>1. NothingLost => OnItsWay
  BY DEF NothingLost, OutboxInv, OnItsWay
<1> QED BY <1>1, NothingLostInvariant, PTL

\* CutoverCovers: the listener that is put on before the cutover query is made
\* leaves no gap between the two.
THEOREM CutoverLeavesNoGap == Spec => []CutoverCovers
<1>1. NothingLost => CutoverCovers
  BY DEF NothingLost, OutboxInv, CutoverCovers
<1> QED BY <1>1, NothingLostInvariant, PTL

-----------------------------------------------------------------------------
(***************************************************************************)
(* Firehose keeps the promise of EventStream: a refinement, step by step.  *)
(***************************************************************************)
\* What a query found has no gap past the position of the client.
FetchedClosed(c) ==
  \A e \in fetched[c], q \in rows : got[c] < q /\ q < e => q \in fetched[c]

\* In the first i batches of a buffer there is the event q, or one before it.
Before(b, i, q) == \E k \in 1..i : q \in b[k]
Reached(b, i, q) == \E k \in 1..i : \E p \in b[k] : p < q

\* A buffer hands out no event ahead of one it should have handed out first.
PendingOrdered(c) ==
  \A i \in DOMAIN pending[c] : \A e \in pending[c][i], q \in rows : q < e =>
    /\ Reached(pending[c], i, q) => Before(pending[c], i, q)
    /\ st[c] = "merge" /\ got[c] < q => q \in fetched[c] \/ Before(pending[c], i, q)
OutOrdered(c) ==
  \A i \in DOMAIN out[c] : \A e \in out[c][i], q \in rows :
    q < e /\ seen[c] < q /\ (got[c] < q \/ Reached(out[c], i, q)) => Before(out[c], i, q)

NoneSkipped == \A c \in Clients : FetchedClosed(c) /\ PendingOrdered(c) /\ OutOrdered(c)
-----------------------------------------------------------------------------
\* The buffer operators, batch by batch.
LEMMA PushBatches ==
  ASSUME NEW b \in Seq(SUBSET Nat), NEW S \in SUBSET Nat, NEW i \in DOMAIN PushMany(b, S)
  PROVE  \/ /\ i \in DOMAIN b /\ PushMany(b, S)[i] = b[i]
            /\ \A q : Before(PushMany(b, S), i, q) <=> Before(b, i, q)
            /\ \A q : Reached(PushMany(b, S), i, q) <=> Reached(b, i, q)
         \/ /\ PushMany(b, S)[i] = S
            /\ \A q : Before(PushMany(b, S), i, q) <=> q \in Held(b) \cup S
            /\ \A q : Reached(PushMany(b, S), i, q) =>
                        \E p \in Held(b) \cup S : p < q
<1> DEFINE a == PushMany(b, S)
<1>1. CASE S = {}
  BY <1>1 DEF PushMany
<1>2. CASE S # {}
  <2>1. a = Append(b, S)
    BY <1>2 DEF PushMany
  <2>2. /\ DOMAIN a = 1..(Len(b) + 1) /\ DOMAIN b = 1..Len(b) /\ Len(b) \in Nat
        /\ a[Len(b) + 1] = S /\ \A k \in 1..Len(b) : a[k] = b[k]
    BY <2>1
  <2> HIDE DEF a
  <2>3. CASE i \in 1..Len(b)
    <3>1. \A k \in 1..i : k \in 1..Len(b) /\ a[k] = b[k]
      BY <2>2, <2>3
    <3> QED BY <2>2, <2>3, <3>1 DEF Before, Reached, a
  <2>4. CASE i = Len(b) + 1
    <3>1. \A k \in 1..i : (k \in DOMAIN b /\ a[k] = b[k]) \/ a[k] = S
      <4> TAKE k \in 1..i
      <4>1. k \in 1..Len(b) \/ k = Len(b) + 1
        BY <2>2, <2>4
      <4> QED BY <2>2, <4>1
    <3>2. \A k \in DOMAIN b : k \in 1..i /\ a[k] = b[k]
      BY <2>2, <2>4
    <3>3. i \in 1..i /\ a[i] = S
      BY <2>2, <2>4
    <3>4. \A q : Before(a, i, q) <=> q \in Held(b) \cup S
      BY <3>1, <3>2, <3>3 DEF Before, Held
    <3>5. \A q : Reached(a, i, q) => \E p \in Held(b) \cup S : p < q
      BY <3>1, <3>2, <3>3 DEF Reached, Held
    <3> QED BY <3>3, <3>4, <3>5 DEF a
  <2> QED BY <2>2, <2>3, <2>4 DEF a
<1> QED BY <1>1, <1>2

\* What is left of the batches when the event e of the first is taken: batch i
\* was batch i or, when the first batch is used up, batch i + 1.
LEMMA TakeBatches ==
  ASSUME NEW b \in Seq(SUBSET Nat), b # <<>>, NEW e \in Head(b),
         NEW i \in DOMAIN Take(b, e)
  PROVE  \E j \in DOMAIN b :
           /\ Take(b, e)[i] \subseteq b[j]
           /\ \A q : q # e /\ Before(b, j, q) => Before(Take(b, e), i, q)
           /\ \A q : e < q => Reached(b, j, q)
<1>0. Len(b) \in Nat /\ Len(b) >= 1 /\ DOMAIN b = 1..Len(b) /\ Head(b) = b[1]
  OBVIOUS
<1> DEFINE a == Take(b, e)
<1>1. \A j \in DOMAIN b : \A q : e < q => Reached(b, j, q)
  BY <1>0 DEF Reached
<1>2. CASE Head(b) = {e}
  <2>1. a = Tail(b)
    BY <1>2 DEF Take
  <2>2. DOMAIN a = 1..(Len(b) - 1) /\ \A k \in DOMAIN a : a[k] = b[k + 1]
    BY <1>0, <2>1
  <2> HIDE DEF a
  <2>3. i \in 1..(Len(b) - 1) /\ i + 1 \in DOMAIN b /\ a[i] \subseteq b[i + 1]
    BY <1>0, <2>2 DEF a
  <2>4. ASSUME NEW q, q # e, Before(b, i + 1, q) PROVE Before(a, i, q)
    <3>1. PICK k \in 1..(i + 1) : q \in b[k]
      BY <2>4 DEF Before
    <3>2. k # 1
      BY <1>0, <1>2, <2>4, <3>1
    <3>3. k - 1 \in 1..i /\ k - 1 \in DOMAIN a /\ a[k - 1] = b[k]
      BY <1>0, <2>2, <2>3, <3>1, <3>2
    <3> QED BY <3>1, <3>3 DEF Before
  <2> QED BY <1>1, <2>3, <2>4 DEF a
<1>3. CASE Head(b) # {e}
  <2>1. a = [b EXCEPT ![1] = b[1] \ {e}]
    BY <1>3 DEF Take
  <2>2. DOMAIN a = DOMAIN b /\ \A k \in DOMAIN b : b[k] \ {e} \subseteq a[k] /\ a[k] \subseteq b[k]
    BY <1>0, <2>1
  <2> HIDE DEF a
  <2>3. i \in DOMAIN b
    BY <2>2 DEF a
  <2>4. ASSUME NEW q, q # e, Before(b, i, q) PROVE Before(a, i, q)
    <3>1. PICK k \in 1..i : q \in b[k]
      BY <2>4 DEF Before
    <3>2. k \in DOMAIN b
      BY <1>0, <2>3
    <3> QED BY <2>2, <2>4, <3>1, <3>2 DEF Before
  <2> QED BY <1>1, <2>2, <2>3, <2>4 DEF a
<1> QED BY <1>2, <1>3

\* The batches of the cutover: what the query found, then what was heard.
LEMMA MergeBatches ==
  ASSUME NEW F \in SUBSET Nat, NEW b \in Seq(SUBSET Nat),
         NEW i \in DOMAIN (PushMany(<<>>, F) \o b)
  PROVE  LET a == PushMany(<<>>, F) \o b IN
         \/ /\ a[i] = F
            /\ \A q \in F : Before(a, i, q)
            /\ \A q : Reached(a, i, q) => \E p \in F : p < q
         \/ \E j \in DOMAIN b :
              /\ a[i] = b[j]
              /\ \A q : Before(a, i, q) <=> q \in F \/ Before(b, j, q)
              /\ \A q : Reached(a, i, q) =>
                          Reached(b, j, q) \/ \E p \in F : p < q
<1> DEFINE a == PushMany(<<>>, F) \o b
<1>1. CASE F = {}
  <2>1. a = b
    BY <1>1 DEF PushMany
  <2>2. i \in DOMAIN b /\ a[i] = b[i]
    BY <2>1
  <2> HIDE DEF a
  <2>3. \A q : Before(a, i, q) <=> q \in F \/ Before(b, i, q)
    BY <1>1, <2>1
  <2>4. \A q : Reached(a, i, q) => Reached(b, i, q)
    BY <2>1
  <2> QED BY <2>2, <2>3, <2>4 DEF a
<1>2. CASE F # {}
  <2>0. PushMany(<<>>, F) = <<F>>
    BY <1>2, Append(<<>>, F) = <<F>> DEF PushMany
  <2>1. a = <<F>> \o b
    BY <2>0
  <2>2. /\ DOMAIN a = 1..(Len(b) + 1) /\ DOMAIN b = 1..Len(b) /\ Len(b) \in Nat
        /\ a[1] = F /\ \A k \in 1..Len(b) : a[k + 1] = b[k]
    BY <2>1
  <2> HIDE DEF a
  <2>3. CASE i = 1
    <3>1. \A k \in 1..i : a[k] = F
      BY <2>2, <2>3
    <3>2. i \in 1..i /\ a[i] = F
      BY <2>2, <2>3
    <3> QED BY <3>1, <3>2 DEF Before, Reached, a
  <2>4. CASE i # 1
    <3> DEFINE j == i - 1
    <3>1. j \in DOMAIN b /\ a[i] = b[j] /\ i = j + 1
      BY <2>2, <2>4 DEF a
    <3>2. \A k \in 1..i : k = 1 \/ (k - 1 \in 1..j /\ a[k] = b[k - 1])
      BY <2>2, <3>1
    <3>3. \A k \in 1..j : k + 1 \in 1..i /\ a[k + 1] = b[k]
      BY <2>2, <3>1
    <3>4. 1 \in 1..i /\ a[1] = F
      BY <2>2, <3>1
    <3> HIDE DEF j
    <3>5. \A q : Before(a, i, q) <=> q \in F \/ Before(b, j, q)
      BY <3>2, <3>3, <3>4 DEF Before
    <3>6. \A q : Reached(a, i, q) => Reached(b, j, q) \/ \E p \in F : p < q
      BY <3>2, <3>4 DEF Reached
    <3> QED BY <3>1, <3>5, <3>6 DEF a
  <2> QED BY <2>3, <2>4
<1> QED BY <1>1, <1>2
-----------------------------------------------------------------------------
(***************************************************************************)
(* NoneSkipped is inductive, with TypeOK and NothingLost.  A batch of the  *)
(* poller is closed above the poller, and what is below it the buffer has  *)
(* got already; the cutover query is closed above the client.              *)
(***************************************************************************)
Ordered(c) == FetchedClosed(c) /\ PendingOrdered(c) /\ OutOrdered(c)

\* Every event kept anywhere is an event of the log, and so before a new one.
LEMMA OldEvents ==
  ASSUME TypeOK, NEW c \in Clients
  PROVE  /\ \A e \in fetched[c] : e \in Nat /\ e <= Len(log)
         /\ \A i \in DOMAIN pending[c] : \A e \in pending[c][i] : e \in Nat /\ e <= Len(log)
         /\ \A i \in DOMAIN out[c] : \A e \in out[c][i] : e \in Nat /\ e <= Len(log)
<1>1. /\ fetched[c] \subseteq 1..Len(log) /\ Len(log) \in Nat
      /\ pending[c] \in Seq(SUBSET (1..Len(log)))
      /\ out[c] \in Seq(SUBSET (1..Len(log)))
  BY DEF TypeOK
<1>2. ASSUME NEW b \in Seq(SUBSET (1..Len(log))), NEW i \in DOMAIN b, NEW e \in b[i]
      PROVE  e \in Nat /\ e <= Len(log)
  BY <1>1
<1> QED BY <1>1, <1>2

LEMMA InitNoneSkipped == Init => NoneSkipped
<1> SUFFICES ASSUME Init, NEW c \in Clients PROVE Ordered(c)
  BY DEF NoneSkipped, Ordered
<1>1. rows = {}
  BY DEF Init
<1> QED BY <1>1 DEF Ordered, FetchedClosed, PendingOrdered, OutOrdered

LEMMA TableNoneSkipped ==
  ASSUME TypeOK, NoneSkipped, UNCHANGED outboxVars,
         \A q \in rows' : q \in rows \/ (q \in Nat /\ q > Len(log))
  PROVE  NoneSkipped'
<1> SUFFICES ASSUME NEW c \in Clients PROVE Ordered(c)'
  BY DEF NoneSkipped, Ordered
<1>1. Ordered(c) /\ Len(log) \in Nat
  BY Numbers DEF NoneSkipped, Ordered
<1>2. \A q \in rows', e \in Nat : q < e /\ e <= Len(log) => q \in rows
  BY <1>1
<1>3. /\ st' = st /\ seen' = seen /\ got' = got
      /\ fetched' = fetched /\ pending' = pending /\ out' = out
  BY DEF outboxVars
<1>4. FetchedClosed(c)'
  BY <1>1, <1>2, <1>3, OldEvents DEF Ordered, FetchedClosed
<1>5. PendingOrdered(c)'
  BY <1>1, <1>2, <1>3, OldEvents DEF Ordered, PendingOrdered
<1>6. OutOrdered(c)'
  BY <1>1, <1>2, <1>3, OldEvents DEF Ordered, OutOrdered
<1> QED BY <1>4, <1>5, <1>6 DEF Ordered

LEMMA PollEmitNoneSkipped ==
  ASSUME TypeOK, NothingLost, NoneSkipped, PollEmit PROVE NoneSkipped'
<1> SUFFICES ASSUME NEW c \in Clients PROVE Ordered(c)'
  BY DEF NoneSkipped, Ordered
<1>1. Ordered(c) /\ OutboxInv(c)
  BY DEF NoneSkipped, NothingLost, Ordered
<1>2. /\ out[c] \in Seq(SUBSET Nat) /\ pending[c] \in Seq(SUBSET Nat)
      /\ got[c] \in Nat /\ seen[c] \in Int /\ polled \in SUBSET Nat
      /\ rows \subseteq Nat /\ seqSeen \in Nat
      /\ Held(out[c]) \subseteq Nat /\ Held(pending[c]) \subseteq Nat
  BY Numbers, HeldType
<1>3. /\ rows' = rows /\ st'[c] = st[c] /\ seen'[c] = seen[c] /\ got'[c] = got[c]
      /\ fetched'[c] = fetched[c]
      /\ out'[c] = IF st[c] = "stream" THEN PushMany(out[c], polled) ELSE out[c]
      /\ pending'[c] = IF st[c] \in {"cutover", "merge"}
                         THEN PushMany(pending[c], polled) ELSE pending[c]
  BY DEF PollEmit, tableVars
<1>4. ASSUME NEW e \in polled, NEW q \in rows, q < e, q \notin polled
      PROVE  q <= seqSeen /\ \A p \in polled : ~(p < q)
  <2>1. q <= seqSeen
    BY <1>2, <1>4 DEF NothingLost, PolledClosed
  <2>2. \A p \in polled : seqSeen < p
    BY <1>2 DEF NothingLost, PolledClosed
  <2> QED BY <1>2, <2>1, <2>2
<1>5. FetchedClosed(c)'
  BY <1>1, <1>3 DEF Ordered, FetchedClosed
<1>6. PendingOrdered(c)'
  <2>1. CASE pending'[c] = pending[c]
    BY <1>1, <1>3, <2>1 DEF Ordered, PendingOrdered
  <2>2. CASE pending'[c] = PushMany(pending[c], polled)
    <3> DEFINE a == PushMany(pending[c], polled)
    <3> SUFFICES ASSUME NEW i \in DOMAIN a, NEW e \in a[i], NEW q \in rows, q < e
                 PROVE  /\ Reached(a, i, q) => Before(a, i, q)
                        /\ st[c] = "merge" /\ got[c] < q => q \in fetched[c] \/ Before(a, i, q)
      BY <1>3, <2>2 DEF PendingOrdered
    <3>1. CASE /\ i \in DOMAIN pending[c] /\ a[i] = pending[c][i]
               /\ Before(a, i, q) <=> Before(pending[c], i, q)
               /\ Reached(a, i, q) <=> Reached(pending[c], i, q)
      BY <1>1, <3>1 DEF Ordered, PendingOrdered
    <3>2. CASE /\ a[i] = polled
               /\ Before(a, i, q) <=> q \in Held(pending[c]) \cup polled
               /\ Reached(a, i, q) => \E p \in Held(pending[c]) \cup polled : p < q
      <4>1. ASSUME q \notin polled
            PROVE  q <= seqSeen /\ \A p \in polled : ~(p < q)
        BY <1>4, <3>2, <4>1
      <4>2. Reached(a, i, q) => Before(a, i, q)
        BY <1>1, <3>2, <4>1 DEF OutboxInv, PendingClosed
      <4>3. st[c] = "merge" /\ got[c] < q => q \in fetched[c] \/ Before(a, i, q)
        BY <1>1, <3>2, <4>1 DEF OutboxInv, CutoverHolds
      <4> QED BY <4>2, <4>3
    <3> HIDE DEF a
    <3> QED BY <1>2, <3>1, <3>2, PushBatches DEF a
  <2> QED BY <1>3, <2>1, <2>2
<1>7. OutOrdered(c)'
  <2>1. CASE out'[c] = out[c]
    BY <1>1, <1>3, <2>1 DEF Ordered, OutOrdered
  <2>2. CASE st[c] = "stream" /\ out'[c] = PushMany(out[c], polled)
    <3> DEFINE a == PushMany(out[c], polled)
    <3> SUFFICES ASSUME NEW i \in DOMAIN a, NEW e \in a[i], NEW q \in rows,
                        q < e, seen[c] < q, got[c] < q \/ Reached(a, i, q)
                 PROVE  Before(a, i, q)
      BY <1>3, <2>2 DEF OutOrdered
    <3>1. CASE /\ i \in DOMAIN out[c] /\ a[i] = out[c][i]
               /\ Before(a, i, q) <=> Before(out[c], i, q)
               /\ Reached(a, i, q) <=> Reached(out[c], i, q)
      BY <1>1, <3>1 DEF Ordered, OutOrdered
    <3>2. CASE /\ a[i] = polled
               /\ Before(a, i, q) <=> q \in Held(out[c]) \cup polled
               /\ Reached(a, i, q) => \E p \in Held(out[c]) \cup polled : p < q
      <4>1. ASSUME q \notin polled
            PROVE  q <= seqSeen /\ \A p \in polled : ~(p < q)
        BY <1>4, <3>2, <4>1
      <4>2. CASE got[c] < q
        BY <1>1, <2>2, <3>2, <4>1, <4>2 DEF OutboxInv, StreamHolds
      <4>3. CASE Reached(a, i, q)
        BY <1>1, <3>2, <4>1, <4>3 DEF OutboxInv, OutClosed
      <4> QED BY <4>2, <4>3
    <3> HIDE DEF a
    <3> QED BY <1>2, <3>1, <3>2, PushBatches DEF a
  <2> QED BY <1>3, <2>1, <2>2
<1> QED BY <1>5, <1>6, <1>7 DEF Ordered

LEMMA OrderedFrame ==
  ASSUME NoneSkipped, NEW c \in Clients, UNCHANGED <<tableVars, pollVars>>,
         \A k \in Clients \ {c} : Same(k), Ordered(c)'
  PROVE  NoneSkipped'
<1> SUFFICES ASSUME NEW k \in Clients \ {c} PROVE Ordered(k)'
  BY DEF NoneSkipped, Ordered
<1>1. Ordered(k) /\ Same(k) /\ rows' = rows
  BY DEF NoneSkipped, Ordered, tableVars
<1> QED BY <1>1 DEF Same, Ordered, FetchedClosed, PendingOrdered, OutOrdered

\* An outbox without buffers has only its page to keep in order.
LEMMA QuietOrdered ==
  ASSUME NEW c \in Clients, pending'[c] = <<>>, out'[c] = <<>>, FetchedClosed(c)'
  PROVE  Ordered(c)'
BY DEF Ordered, PendingOrdered, OutOrdered

LEMMA QuietStepsOrdered ==
  ASSUME TypeOK, NEW c \in Clients, OutboxInv(c), OutboxInv(c)', Ordered(c),
         \/ Subscribe(c) \/ SubscribeLive(c) \/ Drop(c) \/ ResolveOutdated(c)
         \/ BackfillYield(c) \/ BackfillPageEnd(c) \/ Listen(c)
  PROVE  Ordered(c)'
<1>1. OutboxShape(c) /\ OutboxShape(c)'
  BY DEF OutboxInv
<1>2. CASE Subscribe(c) \/ SubscribeLive(c) \/ Drop(c) \/ ResolveOutdated(c) \/ Listen(c)
  <2>1. /\ pending[c] = <<>> /\ out[c] = <<>> /\ fetched[c] = {}
        \/ Drop(c)
    BY <1>1, <1>2 DEF Subscribe, SubscribeLive, ResolveOutdated, Listen, OutboxShape
  <2>2. pending'[c] = <<>> /\ out'[c] = <<>> /\ fetched'[c] = {}
    BY <1>2, <2>1 DEF Subscribe, SubscribeLive, StreamFromNow, Drop, ResolveOutdated,
                      Listen, TypeOK
  <2>3. FetchedClosed(c)'
    BY <2>2 DEF FetchedClosed
  <2> QED BY <2>2, <2>3, QuietOrdered
<1>3. CASE BackfillYield(c)
  <2>1. PICK e \in fetched[c] :
          /\ IsLeast(e, fetched[c])
          /\ got' = [got EXCEPT ![c] = e]
          /\ fetched' = [fetched EXCEPT ![c] = @ \ {e}]
    BY <1>3 DEF BackfillYield, Yield
  <2>2. /\ st[c] = "page" /\ got'[c] = e /\ rows' = rows
        /\ pending'[c] = pending[c] /\ out'[c] = out[c] /\ fetched'[c] = fetched[c] \ {e}
    BY <1>3, <2>1 DEF BackfillYield, TypeOK, tableVars
  <2>3. pending'[c] = <<>> /\ out'[c] = <<>>
    BY <1>1, <2>2 DEF OutboxShape
  <2>4. got[c] \in Nat /\ e \in Nat /\ rows \subseteq Nat /\ got[c] < e
    BY <1>1, Numbers DEF OutboxShape
  <2>5. FetchedClosed(c)'
    BY <2>2, <2>4 DEF Ordered, FetchedClosed
  <2> QED BY <2>3, <2>5, QuietOrdered
<1>4. CASE BackfillPageEnd(c)
  <2>1. /\ st[c] = "page" /\ fetched[c] = {} /\ fetched'[c] = fetched[c]
        /\ pending'[c] = pending[c] /\ out'[c] = out[c]
    BY <1>4 DEF BackfillPageEnd
  <2>2. pending'[c] = <<>> /\ out'[c] = <<>> /\ FetchedClosed(c)'
    BY <1>1, <2>1 DEF OutboxShape, FetchedClosed
  <2> QED BY <2>2, QuietOrdered
<1> QED BY <1>2, <1>3, <1>4

\* A page is a prefix of what lies past the client, and the cutover query all
\* of it.
LEMMA QueriesOrdered ==
  ASSUME TypeOK, NEW c \in Clients, OutboxInv(c), Ordered(c),
         BackfillQuery(c) \/ CutoverQuery(c)
  PROVE  Ordered(c)'
<1>1. /\ got[c] \in Nat /\ rows \subseteq Nat /\ PageSize \in Nat
  BY Numbers, SizesAssumption
<1>2. /\ rows' = rows /\ got'[c] = got[c] /\ pending'[c] = pending[c] /\ out'[c] = out[c]
      /\ st[c] \in {"query", "cutover"} /\ st'[c] \in {"ready", "page", "merge"}
  BY DEF BackfillQuery, CutoverQuery, TypeOK, tableVars
<1>3. out[c] = <<>> /\ got[c] = Base(c)
  BY <1>2 DEF OutboxInv, OutboxShape
<1>4. OutOrdered(c)'
  BY <1>2, <1>3 DEF OutOrdered
<1>5. CASE BackfillQuery(c)
  <2>1. fetched'[c] = FirstRows(After(got[c]), PageSize) /\ pending[c] = <<>>
    BY <1>3, <1>5 DEF BackfillQuery, TypeOK, OutboxInv, OutboxShape
  <2>2. After(got[c]) \in SUBSET Nat /\ IsFiniteSet(After(got[c]))
    <3>1. After(got[c]) \subseteq 1..Len(log)
      BY DEF TypeOK, After
    <3>2. IsFiniteSet(1..Len(log))
      BY FS_Interval DEF TypeOK
    <3> QED BY <3>1, <3>2, FS_Subset
  <2>3. ASSUME NEW e \in fetched'[c], NEW q \in rows, got[c] < q, q < e
        PROVE  q \in fetched'[c]
    <3>1. q \in After(got[c])
      BY <2>3 DEF After
    <3> QED BY <1>1, <2>1, <2>2, <2>3, <3>1, FirstRowsClosed
  <2>4. FetchedClosed(c)'
    BY <1>2, <2>3 DEF FetchedClosed
  <2> QED BY <1>2, <1>3, <2>1, <2>4, QuietOrdered
<1>6. CASE CutoverQuery(c)
  <2>1. fetched'[c] = After(got[c]) /\ st[c] = "cutover"
    BY <1>3, <1>6 DEF CutoverQuery, TypeOK
  <2>2. FetchedClosed(c)'
    BY <1>2, <2>1 DEF FetchedClosed, After
  <2>3. PendingOrdered(c)'
    BY <1>2, <2>1 DEF Ordered, PendingOrdered, After
  <2> QED BY <1>4, <2>2, <2>3 DEF Ordered
<1> QED BY <1>5, <1>6

LEMMA CutoverMergeOrdered ==
  ASSUME TypeOK, NEW c \in Clients, OutboxInv(c), Ordered(c), CutoverMerge(c)
  PROVE  Ordered(c)'
<1> DEFINE F == fetched[c]
           P == pending[c]
           a == PushMany(<<>>, F) \o P
<1>1. /\ st[c] = "merge" /\ st'[c] = "stream" /\ fetched'[c] = {} /\ rows' = rows
      /\ seen'[c] = seen[c] /\ got'[c] = got[c] /\ pending'[c] = <<>>
      /\ out'[c] = PushMany(out[c], fetched[c]) \o pending[c]
  BY DEF CutoverMerge, TypeOK, tableVars
<1>2. out'[c] = a
  BY <1>1 DEF OutboxInv, OutboxShape
<1>3. /\ F \in SUBSET Nat /\ P \in Seq(SUBSET Nat) /\ got[c] \in Nat /\ rows \subseteq Nat
  BY Numbers
<1>4. \A p \in F : got[c] < p
  BY DEF OutboxInv, OutboxShape
<1>5. \A p \in F, q \in rows : p < q => got[c] < q
  BY <1>3, <1>4
<1> SUFFICES ASSUME NEW i \in DOMAIN a, NEW e \in a[i], NEW q \in rows, q < e,
                    got[c] < q \/ Reached(a, i, q)
             PROVE  Before(a, i, q)
  <2>1. FetchedClosed(c)' /\ PendingOrdered(c)'
    BY <1>1 DEF FetchedClosed, PendingOrdered
  <2>2. OutOrdered(c)'
    <3> HIDE DEF a
    <3> QED BY <1>1, <1>2 DEF OutOrdered
  <2> QED BY <2>1, <2>2 DEF Ordered
<1> HIDE DEF a
<1>6. CASE /\ a[i] = F
           /\ \A p \in F : Before(a, i, p)
           /\ \A p : Reached(a, i, p) => \E r \in F : r < p
  <2>1. got[c] < q
    BY <1>5, <1>6
  <2> QED BY <1>6, <2>1 DEF Ordered, FetchedClosed
<1>7. CASE \E j \in DOMAIN P :
              /\ a[i] = P[j]
              /\ \A p : Before(a, i, p) <=> p \in F \/ Before(P, j, p)
              /\ \A p : Reached(a, i, p) => Reached(P, j, p) \/ \E r \in F : r < p
  <2>1. PICK j \in DOMAIN P :
              /\ a[i] = P[j]
              /\ \A p : Before(a, i, p) <=> p \in F \/ Before(P, j, p)
              /\ \A p : Reached(a, i, p) => Reached(P, j, p) \/ \E r \in F : r < p
    BY <1>7
  <2>2. CASE got[c] < q
    BY <1>1, <2>1, <2>2 DEF Ordered, PendingOrdered
  <2>3. CASE ~(got[c] < q)
    <3>1. Reached(P, j, q)
      BY <1>5, <2>1, <2>3
    <3> QED BY <2>1, <3>1 DEF Ordered, PendingOrdered
  <2> QED BY <2>2, <2>3
<1> QED BY <1>3, <1>6, <1>7, MergeBatches DEF a

\* The event that is handed out is the least of the first batch, so whatever
\* row comes after it was in the buffer, and still is.
LEMMA PullOrdered ==
  ASSUME TypeOK, NEW c \in Clients, OutboxInv(c), Ordered(c), Pull(c)
  PROVE  Ordered(c)'
<1>1. PICK e \in Head(out[c]) :
        /\ out' = [out EXCEPT ![c] = Take(@, e)]
        /\ IF e > seen[c] THEN Yield(c, e) ELSE UNCHANGED <<seen, got>>
  BY DEF Pull
<1>2. /\ st[c] = "stream" /\ st' = st /\ fetched' = fetched /\ pending' = pending
      /\ rows' = rows /\ out[c] # <<>> /\ out'[c] = Take(out[c], e)
  BY <1>1 DEF Pull, tableVars, TypeOK
<1>3. /\ out[c] \in Seq(SUBSET Nat) /\ rows \subseteq Nat
      /\ got[c] \in Nat /\ seen[c] \in Int /\ seen[c] >= None
  BY Numbers
<1>4. e \in Nat
  <2>1. e \in out[c][1] /\ 1 \in DOMAIN out[c]
    BY <1>2, <1>3
  <2> QED BY <1>3, <2>1
<1>5. fetched[c] = {} /\ pending[c] = <<>> /\ (seen[c] # None => got[c] = seen[c])
  BY <1>2 DEF OutboxInv, OutboxShape
<1>6. FetchedClosed(c)' /\ PendingOrdered(c)'
  BY <1>2, <1>5 DEF FetchedClosed, PendingOrdered
<1>7. OutOrdered(c)'
  <2> DEFINE a == Take(out[c], e)
  <2> SUFFICES ASSUME NEW i \in DOMAIN a, NEW x \in a[i], NEW q \in rows, q < x,
                      seen'[c] < q, got'[c] < q \/ Reached(a, i, q)
               PROVE  Before(a, i, q)
    BY <1>2 DEF OutOrdered
  <2> HIDE DEF a
  <2>1. PICK j \in DOMAIN out[c] :
           /\ a[i] \subseteq out[c][j]
           /\ \A p : p # e /\ Before(out[c], j, p) => Before(a, i, p)
           /\ \A p : e < p => Reached(out[c], j, p)
    BY <1>2, <1>3, TakeBatches DEF a
  <2>2. seen[c] < q /\ e < q
    <3>1. CASE e > seen[c]
      <4>1. seen'[c] = e
        BY <1>1, <3>1 DEF Yield, TypeOK
      <4> QED BY <1>3, <1>4, <3>1, <4>1
    <3>2. CASE ~(e > seen[c])
      <4>1. seen'[c] = seen[c]
        BY <1>1, <3>2
      <4> QED BY <1>3, <1>4, <3>2, <4>1
    <3> QED BY <3>1, <3>2
  <2>3. Before(out[c], j, q)
    BY <2>1, <2>2 DEF Ordered, OutOrdered
  <2> QED BY <1>3, <1>4, <2>1, <2>2, <2>3
<1> QED BY <1>6, <1>7 DEF Ordered

LEMMA OutboxNoneSkipped ==
  ASSUME TypeOK, NothingLost, NothingLost', NoneSkipped, NEW c \in Clients,
         \/ Subscribe(c) \/ SubscribeLive(c) \/ Disconnect(c) \/ OutboxStep(c)
  PROVE  NoneSkipped'
<1>1. OutboxInv(c) /\ OutboxInv(c)' /\ Ordered(c)
  BY DEF NothingLost, NoneSkipped, Ordered
<1>2. Ordered(c)'
  BY <1>1, QuietStepsOrdered, QueriesOrdered, CutoverMergeOrdered, PullOrdered
     DEF Disconnect, ConsumerTooSlow, OutboxStep
<1>3. UNCHANGED <<tableVars, pollVars>> /\ \A k \in Clients \ {c} : Same(k)
  BY OthersUnchanged
<1> QED BY <1>2, <1>3, OrderedFrame

LEMMA NextNoneSkipped ==
  TypeOK /\ NothingLost /\ NothingLost' /\ NoneSkipped /\ [Next]_vars => NoneSkipped'
<1> SUFFICES ASSUME TypeOK, NothingLost, NothingLost', NoneSkipped, [Next]_vars
             PROVE  NoneSkipped'
  OBVIOUS
<1>1. Len(log) \in Nat
  BY Numbers
<1>2. ASSUME NEW d \in Dids, SequenceEvt(d) PROVE NoneSkipped'
  <2>1. \A q \in rows' : q \in rows \/ (q \in Nat /\ q > Len(log))
    BY <1>1, <1>2 DEF SequenceEvt
  <2> QED BY <1>2, <2>1, TableNoneSkipped DEF SequenceEvt
<1>3. ASSUME NEW d \in Dids, NEW q \in 1..Len(log), DeleteAllForUser(d, q)
      PROVE  NoneSkipped'
  BY <1>3, TableNoneSkipped DEF DeleteAllForUser
<1>4. CASE Expire
  BY <1>4, TableNoneSkipped DEF Expire
<1>5. CASE UNCHANGED vars
  BY <1>5, TableNoneSkipped DEF vars, tableVars
<1>6. CASE PollQuery
  BY <1>6, TableNoneSkipped DEF PollQuery, tableVars
<1>7. CASE Restart
  <2> SUFFICES ASSUME NEW c \in Clients PROVE Ordered(c)'
    BY DEF NoneSkipped, Ordered
  <2>1. fetched'[c] = {} /\ pending'[c] = <<>> /\ out'[c] = <<>>
    BY <1>7 DEF Restart
  <2>2. FetchedClosed(c)'
    BY <2>1 DEF FetchedClosed
  <2> QED BY <2>1, <2>2, QuietOrdered
<1> QED BY <1>2, <1>3, <1>4, <1>5, <1>6, <1>7, PollEmitNoneSkipped,
           OutboxNoneSkipped DEF Next

\* NoneSkipped: no page, cutover query or buffer hands out an event ahead of a
\* row that the client should have been handed before it.
THEOREM NoneSkippedInvariant == Spec => []NoneSkipped
BY TypeCorrect, NothingLostInvariant, InitNoneSkipped, NextNoneSkipped, PTL DEF Spec
-----------------------------------------------------------------------------
(***************************************************************************)
(* The steps of EventStream.  The position of a client and the table are   *)
(* its state; the phases, pages and buffers are not.                       *)
(***************************************************************************)
withdrawn == (1..Len(log)) \ rows
open == [c \in Clients |-> Streaming(c)]
fresh == [c \in Clients |-> Streaming(c) /\ seen[c] = None]

LEMMA InitRefines == Init => Promise!Init
<1> SUFFICES ASSUME Init PROVE Promise!Init
  OBVIOUS
<1>1. Len(log) = 0 /\ 1..Len(log) = {}
  BY DEF Init
<1>2. \A c \in Clients : Streaming(c) = FALSE
  BY DEF Init, Streaming
<1>3. open = [c \in Clients |-> FALSE] /\ fresh = [c \in Clients |-> FALSE]
  BY <1>2 DEF open, fresh
<1> QED BY <1>1, <1>3 DEF Init, Promise!Init, open, fresh

\* A step within a connection, which changes no position, is not seen.
LEMMA UnseenStep ==
  ASSUME UNCHANGED <<log, rows, got>>,
         \A c \in Clients : /\ Streaming(c)' <=> Streaming(c)
                            /\ Streaming(c) => (seen'[c] = None <=> seen[c] = None)
  PROVE  UNCHANGED Promise!streamVars
<1>1. \A c \in Clients : Streaming(c)' = Streaming(c)
  BY DEF Streaming
<1>2. \A c \in Clients : (Streaming(c) /\ seen[c] = None)' = (Streaming(c) /\ seen[c] = None)
  BY <1>1
<1>3. open' = open /\ fresh' = fresh
  BY <1>1, <1>2 DEF open, fresh
<1> QED BY <1>3 DEF Promise!streamVars, open, fresh

LEMMA TableRefines ==
  ASSUME TypeOK, UNCHANGED <<outboxVars>>,
         \/ \E d \in Dids : SequenceEvt(d)
         \/ \E d \in Dids, q \in 1..Len(log) : DeleteAllForUser(d, q)
  PROVE  Promise!Next
<1>1. got' = got /\ open' = open /\ fresh' = fresh
  <2>1. st' = st /\ seen' = seen /\ got' = got
    BY DEF outboxVars
  <2> QED BY <2>1 DEF open, fresh, Streaming
<1>2. Len(log) \in Nat /\ rows \subseteq 1..Len(log)
  BY DEF TypeOK
<1>3. ASSUME NEW d \in Dids, SequenceEvt(d) PROVE Promise!Publish
  <2>1. Len(log') = Len(log) + 1
    BY <1>3 DEF SequenceEvt, TypeOK
  <2>2. withdrawn' = withdrawn
    BY <1>2, <1>3, <2>1 DEF SequenceEvt, withdrawn
  <2> QED BY <1>1, <2>1, <2>2 DEF Promise!Publish, withdrawn, open, fresh
<1>4. ASSUME NEW d \in Dids, NEW q \in 1..Len(log), DeleteAllForUser(d, q)
      PROVE  Promise!Withdraw
  <2>1. log' = log /\ rows' \subseteq rows
    BY <1>4 DEF DeleteAllForUser
  <2>2. withdrawn' = withdrawn \cup (rows \ rows') /\ rows \ rows' \in SUBSET (1..Len(log))
    BY <1>2, <2>1 DEF withdrawn
  <2> QED BY <1>1, <2>1, <2>2 DEF Promise!Withdraw, withdrawn, open, fresh
<1> QED BY <1>3, <1>4 DEF Promise!Next

\* A connection that ends, alone or with the process.
LEMMA CloseRefines ==
  ASSUME NEW C \in SUBSET Clients, UNCHANGED <<log, rows, got>>,
         \A c \in C : st'[c] = "off",
         \A c \in Clients \ C : st'[c] = st[c] /\ seen'[c] = seen[c]
  PROVE  Promise!Next
<1>1. \A c \in Clients :
        /\ Streaming(c)' = (Streaming(c) /\ c \notin C)
        /\ (Streaming(c) /\ seen[c] = None)' =
             ((Streaming(c) /\ seen[c] = None) /\ c \notin C)
  BY DEF Streaming
<1>2. /\ open' = [c \in Clients |-> open[c] /\ c \notin C]
      /\ fresh' = [c \in Clients |-> fresh[c] /\ c \notin C]
  BY <1>1 DEF open, fresh
<1>3. Promise!Close
  BY <1>2 DEF Promise!Close, open, fresh
<1> QED BY <1>3 DEF Promise!Next

LEMMA OpenRefines ==
  ASSUME TypeOK, NEW c \in Clients, UNCHANGED <<log, rows>>,
         \A k \in Clients \ {c} : Same(k),
         ~Streaming(c), Streaming(c)', seen'[c] = None,
         \E p \in 0..Len(log) : got' = [got EXCEPT ![c] = p]
  PROVE  Promise!Next
<1>1. \A k \in Clients :
        /\ Streaming(k)' = IF k = c THEN TRUE ELSE Streaming(k)
        /\ (Streaming(k) /\ seen[k] = None)' =
             IF k = c THEN TRUE ELSE (Streaming(k) /\ seen[k] = None)
  BY DEF Same, Streaming
<1>2. open' = [open EXCEPT ![c] = TRUE] /\ fresh' = [fresh EXCEPT ![c] = TRUE]
  BY <1>1 DEF open, fresh
<1>3. ~open[c]
  BY DEF open
<1>4. Promise!Open(c)
  BY <1>2, <1>3 DEF Promise!Open, open, fresh
<1> QED BY <1>4 DEF Promise!Next

LEMMA DeliverRefines ==
  ASSUME TypeOK, NEW c \in Clients, UNCHANGED <<log, rows, st>>,
         \A k \in Clients \ {c} : Same(k), Streaming(c),
         NEW e \in 1..Len(log), got' = [got EXCEPT ![c] = e], seen'[c] = e,
         e > got[c] \/ seen[c] = None,
         \A q \in rows : ~(got[c] < q /\ q < e)
  PROVE  Promise!Next
<1>0. e # None
  BY DEF None, TypeOK
<1>1. \A k \in Clients :
        /\ Streaming(k)' = Streaming(k)
        /\ (Streaming(k) /\ seen[k] = None)' =
             IF k = c THEN FALSE ELSE (Streaming(k) /\ seen[k] = None)
  BY <1>0 DEF Same, Streaming
<1>2. open' = open /\ fresh' = [fresh EXCEPT ![c] = FALSE]
  BY <1>1 DEF open, fresh
<1>3. open[c] /\ (e > got[c] \/ fresh[c])
  BY DEF open, fresh
<1>4. Promise!NoGap(got[c], e)
  BY DEF Promise!NoGap
<1>5. Promise!Deliver(c)
  BY <1>2, <1>3, <1>4 DEF Promise!Deliver, open, fresh
<1> QED BY <1>5 DEF Promise!Next

\* The first event of a page is the next one for the client; the least event
\* of the out buffer is, by OutOrdered, unless it was sent before.
LEMMA YieldRefines ==
  ASSUME TypeOK, NEW c \in Clients, OutboxInv(c), Ordered(c), BackfillYield(c)
  PROVE  Promise!Next
<1>1. PICK e \in fetched[c] :
        /\ IsLeast(e, fetched[c])
        /\ seen' = [seen EXCEPT ![c] = e] /\ got' = [got EXCEPT ![c] = e]
  BY DEF BackfillYield, Yield
<1>2. /\ Streaming(c) /\ UNCHANGED <<log, rows, st>> /\ seen'[c] = e
      /\ e \in 1..Len(log)
  BY <1>1 DEF BackfillYield, Streaming, TypeOK, tableVars
<1>3. \A k \in Clients \ {c} : Same(k)
  BY OthersUnchanged DEF OutboxStep
<1>4. got[c] < e
  BY DEF OutboxInv, OutboxShape
<1>5. \A q \in rows : ~(got[c] < q /\ q < e)
  <2> SUFFICES ASSUME NEW q \in rows, got[c] < q, q < e PROVE FALSE
    OBVIOUS
  <2>1. q \in Nat /\ e \in Nat
    BY <1>2, Numbers
  <2>2. q \in fetched[c]
    BY DEF Ordered, FetchedClosed
  <2> QED BY <1>1, <2>1, <2>2 DEF IsLeast
<1>6. e > got[c]
  BY <1>2, <1>4, Numbers
<1> QED BY <1>1, <1>2, <1>3, <1>5, <1>6, DeliverRefines

LEMMA PullRefines ==
  ASSUME TypeOK, NEW c \in Clients, OutboxInv(c), Ordered(c), Pull(c)
  PROVE  Promise!Next \/ UNCHANGED Promise!streamVars
<1>1. PICK e \in Head(out[c]) :
        /\ IsLeast(e, Head(out[c]))
        /\ IF e > seen[c] THEN Yield(c, e) ELSE UNCHANGED <<seen, got>>
  BY DEF Pull
<1>2. /\ st[c] = "stream" /\ Streaming(c) /\ UNCHANGED <<log, rows, st>>
      /\ out[c] # <<>>
  BY DEF Pull, Streaming, tableVars
<1>3. \A k \in Clients \ {c} : Same(k)
  BY OthersUnchanged DEF OutboxStep
<1>4. /\ rows \subseteq Nat /\ got[c] \in Nat /\ seen[c] \in Int
      /\ seen[c] # None => got[c] = seen[c]
  BY Numbers DEF OutboxInv, OutboxShape
<1>5. /\ 1 \in DOMAIN out[c] /\ Head(out[c]) = out[c][1]
      /\ e \in 1..Len(log) /\ e \in Nat
  <2>1. out[c] \in Seq(SUBSET (1..Len(log)))
    BY DEF TypeOK
  <2>2. 1 \in DOMAIN out[c] /\ Head(out[c]) = out[c][1]
    BY <1>2, <2>1
  <2> QED BY <2>1, <2>2
<1>6. CASE e > seen[c]
  <2>1. /\ seen' = [seen EXCEPT ![c] = e] /\ got' = [got EXCEPT ![c] = e]
        /\ seen'[c] = e
    BY <1>1, <1>6 DEF Yield, TypeOK
  <2>2. e > got[c] \/ seen[c] = None
    BY <1>4, <1>6
  <2>3. ASSUME NEW q \in rows, got[c] < q, q < e PROVE FALSE
    <3>1. seen[c] < q
      BY <1>4, <2>3 DEF None
    <3>2. Before(out[c], 1, q)
      BY <1>5, <2>3, <3>1 DEF Ordered, OutOrdered
    <3>3. q \in Head(out[c])
      BY <1>5, <3>2 DEF Before
    <3> QED BY <1>1, <1>4, <1>5, <2>3, <3>3 DEF IsLeast
  <2> QED BY <1>2, <1>3, <1>5, <2>1, <2>2, <2>3, DeliverRefines
<1>7. CASE ~(e > seen[c])
  <2>1. UNCHANGED <<seen, got>>
    BY <1>1, <1>7
  <2>2. \A k \in Clients : /\ Streaming(k)' <=> Streaming(k)
                           /\ Streaming(k) => (seen'[k] = None <=> seen[k] = None)
    BY <1>2, <2>1 DEF Streaming
  <2> QED BY <1>2, <2>1, <2>2, UnseenStep
<1> QED BY <1>6, <1>7

\* Where a stream starts: at the cursor of the client, at the start of the
\* window, or at the poller.
LEMMA StartRefines ==
  ASSUME TypeOK, NEW c \in Clients, OutboxInv(c),
         Subscribe(c) \/ SubscribeLive(c) \/ ResolveOutdated(c)
  PROVE  Promise!Next \/ UNCHANGED Promise!streamVars
<1>1. /\ st[c] \in {"off", "outdated"} /\ ~Streaming(c) /\ seen' = seen
      /\ UNCHANGED <<log, rows>> /\ seen'[c] = None
  BY DEF Subscribe, SubscribeLive, StreamFromNow, ResolveOutdated, Streaming,
         OutboxInv, OutboxShape, tableVars
<1>2. \A k \in Clients \ {c} : Same(k)
  BY OthersUnchanged DEF OutboxStep
<1>3. CASE st'[c] = "outdated"
  <2>1. got' = got
    BY <1>3 DEF Subscribe, SubscribeLive, StreamFromNow, ResolveOutdated, TypeOK
  <2>2. \A k \in Clients : /\ Streaming(k)' <=> Streaming(k)
                           /\ Streaming(k) => (seen'[k] = None <=> seen[k] = None)
    BY <1>1, <1>2, <1>3 DEF Streaming, Same
  <2> QED BY <1>1, <2>1, <2>2, UnseenStep
<1>4. CASE st'[c] # "outdated"
  <2>1. Streaming(c)'
    BY <1>4 DEF Subscribe, SubscribeLive, StreamFromNow, ResolveOutdated, TypeOK, Streaming
  <2>2. \E p \in 0..Len(log) : got' = [got EXCEPT ![c] = p]
    <3>1. ASSUME StreamFromNow(c) PROVE \E p \in 0..Len(log) : got' = [got EXCEPT ![c] = p]
      BY <3>1 DEF StreamFromNow, TypeOK
    <3>2. CASE Subscribe(c)
      <4>1. got' = [got EXCEPT ![c] = got[c]] /\ got[c] \in 0..Len(log)
        BY <3>2 DEF Subscribe, TypeOK
      <4> QED BY <4>1
    <3>3. CASE ResolveOutdated(c)
      <4>1. ASSUME NEW q \in After(cursor[c]) PROVE q - 1 \in 0..Len(log)
        BY DEF After, TypeOK
      <4> QED BY <3>1, <3>3, <4>1 DEF ResolveOutdated
    <3> QED BY <3>1, <3>2, <3>3 DEF SubscribeLive
  <2> QED BY <1>1, <1>2, <2>1, <2>2, OpenRefines
<1> QED BY <1>3, <1>4

LEMMA OutboxRefines ==
  ASSUME TypeOK, NothingLost, NoneSkipped, NEW c \in Clients,
         \/ Subscribe(c) \/ SubscribeLive(c) \/ Disconnect(c) \/ OutboxStep(c)
  PROVE  Promise!Next \/ UNCHANGED Promise!streamVars
<1>1. OutboxInv(c) /\ Ordered(c)
  BY DEF NothingLost, NoneSkipped, Ordered
<1>2. UNCHANGED <<tableVars, pollVars>> /\ \A k \in Clients \ {c} : Same(k)
  BY OthersUnchanged
<1>3. CASE Drop(c)
  <2>1. UNCHANGED <<log, rows, got>> /\ st'[c] = "off"
    BY <1>3 DEF Drop, tableVars, TypeOK
  <2>2. \A k \in Clients \ {c} : st'[k] = st[k] /\ seen'[k] = seen[k]
    BY <1>2 DEF Same
  <2>3. {c} \in SUBSET Clients
    OBVIOUS
  <2> QED BY <2>1, <2>2, <2>3, CloseRefines
<1>4. CASE \/ BackfillQuery(c) \/ BackfillPageEnd(c) \/ Listen(c)
           \/ CutoverQuery(c) \/ CutoverMerge(c)
  <2>1. UNCHANGED <<log, rows, got>> /\ seen' = seen
    BY <1>4 DEF BackfillQuery, BackfillPageEnd, Listen, CutoverQuery, CutoverMerge,
                tableVars
  <2>2. Streaming(c) /\ Streaming(c)'
    BY <1>4 DEF BackfillQuery, BackfillPageEnd, Listen, CutoverQuery, CutoverMerge,
                Streaming, TypeOK
  <2>3. \A k \in Clients : /\ Streaming(k)' <=> Streaming(k)
                           /\ Streaming(k) => (seen'[k] = None <=> seen[k] = None)
    BY <1>2, <2>1, <2>2 DEF Streaming, Same
  <2> QED BY <2>1, <2>3, UnseenStep
<1> QED BY <1>1, <1>3, <1>4, StartRefines, YieldRefines, PullRefines
        DEF Disconnect, ConsumerTooSlow, OutboxStep

LEMMA StepRefines ==
  TypeOK /\ NothingLost /\ NoneSkipped /\ [Next]_vars => [Promise!Next]_(Promise!streamVars)
<1> SUFFICES ASSUME TypeOK, NothingLost, NoneSkipped, [Next]_vars
             PROVE  Promise!Next \/ UNCHANGED Promise!streamVars
  OBVIOUS
<1>1. CASE \/ \E d \in Dids : SequenceEvt(d)
           \/ \E d \in Dids, q \in 1..Len(log) : DeleteAllForUser(d, q)
  <2>1. UNCHANGED outboxVars
    BY <1>1 DEF SequenceEvt, DeleteAllForUser
  <2> QED BY <1>1, <2>1, TableRefines
<1>2. CASE Expire \/ PollQuery \/ PollEmit \/ UNCHANGED vars
  <2>1. UNCHANGED <<log, rows, got, st, seen>>
    BY <1>2 DEF Expire, PollQuery, PollEmit, vars, tableVars, outboxVars
  <2>2. \A k \in Clients : /\ Streaming(k)' <=> Streaming(k)
                           /\ Streaming(k) => (seen'[k] = None <=> seen[k] = None)
    BY <2>1 DEF Streaming
  <2> QED BY <2>1, <2>2, UnseenStep
<1>3. CASE Restart
  <2>1. UNCHANGED <<log, rows, got>> /\ \A c \in Clients : st'[c] = "off"
    BY <1>3 DEF Restart, tableVars
  <2>2. Clients \in SUBSET Clients /\ Clients \ Clients = {}
    OBVIOUS
  <2> QED BY <2>1, <2>2, CloseRefines
<1> QED BY <1>1, <1>2, <1>3, OutboxRefines DEF Next

\* KeepsPromise: for a consumer the pages, the cutover, the poller and its
\* buffers, and the restarts of the server, are one ordered stream, from which
\* only a withdrawn event is ever missing.
THEOREM StreamKept == Spec => KeepsPromise
BY InitRefines, StepRefines, TypeCorrect, NothingLostInvariant, NoneSkippedInvariant,
   PTL DEF Spec, KeepsPromise, Promise!Spec
=============================================================================
