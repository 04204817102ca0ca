---------------------------- MODULE AccountsProofs ----------------------------
(***************************************************************************)
(* Proofs about Accounts, for any accounts, handles and requests.          *)
(***************************************************************************)
EXTENDS Accounts, FiniteSetTheorems, SequenceTheorems, WellFoundedInduction, TLAPS

-----------------------------------------------------------------------------
(***************************************************************************)
(* Where a request is in its script.                                       *)
(***************************************************************************)
Deletions == {"delete", "adminDelete"}
SignUps == {"create", "signup"}
Renames == {"handle", "adminHandle"}
Changes == {"deactivate", "adminOn", "adminOff", "takedown", "restore"}

PointOf(todo) == IF todo = <<>> THEN "end" ELSE Head(todo)

\* What is left of a script, or the clean-up of a creation.
OnTrack(op, todo) ==
  \/ \E i \in 1 .. Len(Script[op]) + 1 : todo = SubSeq(Script[op], i, Len(Script[op]))
  \/ op \in Creations /\ todo = <<"destroy">>

First(op, s) ==
  \/ op \in Creations /\ s = "free"
  \/ op \in {"activate", "delete"} /\ s = "find"
  \/ op \in {"deactivate", "adminOff"} /\ s = "off"
  \/ op = "adminOn" /\ s = "on"
  \/ op = "takedown" /\ s = "down"
  \/ op = "restore" /\ s = "up"
  \/ op \in {"handle", "write"} /\ s = "auth"
  \/ op = "adminHandle" /\ s = "lookup"
  \/ op = "adminDelete" /\ s = "destroy"

\* After step s of operation op comes step t.
Succ(op, s, t) ==
  \/ op \in Creations /\ <<s, t>> \in {<<"free", "absent">>, <<"absent", "make">>, <<"make", "repo">>,
                                       <<"destroy", "end">>}
  \/ op \in SignUps /\ <<s, t>> \in {<<"repo", "plc">>, <<"plc", "register">>, <<"register", "identity">>,
                                     <<"identity", "active">>, <<"active", "commit">>,
                                     <<"commit", "sync">>, <<"sync", "root">>}
  \/ op = "signup" /\ <<s, t>> \in {<<"root", "present">>, <<"present", "end">>}
  \/ op = "create" /\ s = "root" /\ t = "end"
  \/ op = "migrate" /\ <<s, t>> \in {<<"repo", "register">>, <<"register", "root">>, <<"root", "end">>}
  \/ op = "activate" /\ <<s, t>> \in {<<"find", "on">>, <<"on", "read">>, <<"read", "status">>,
                                      <<"status", "announce">>, <<"announce", "identity">>,
                                      <<"identity", "sync">>, <<"sync", "end">>}
  \/ op \in Changes /\ s \in {"on", "off", "down", "up"} /\ t = "status"
  \/ op \in Changes /\ <<s, t>> \in {<<"status", "announce">>, <<"announce", "end">>}
  \/ op = "handle" /\ s = "auth" /\ t = "lookup"
  \/ op \in Renames /\ <<s, t>> \in {<<"lookup", "plc">>, <<"plc", "rename">>, <<"rename", "identity">>,
                                     <<"identity", "end">>}
  \/ op = "write" /\ <<s, t>> \in {<<"auth", "open">>, <<"open", "commit">>, <<"commit", "root">>,
                                   <<"root", "end">>}
  \/ op = "delete" /\ s = "find" /\ t = "destroy"
  \/ op \in Deletions /\ <<s, t>> \in {<<"destroy", "unroot">>, <<"unroot", "unactor">>,
                                       <<"unactor", "tombstone">>, <<"tombstone", "purge">>,
                                       <<"purge", "end">>}

Steps == {"free", "absent", "make", "repo", "plc", "register", "identity", "active", "commit", "sync",
          "root", "present", "find", "on", "off", "down", "up", "read", "status", "announce", "auth",
          "lookup", "rename", "open", "destroy", "unroot", "unactor", "tombstone", "purge"}

Runs(op, script) ==
  /\ script \in Seq(Steps) /\ Len(script) > 0
  /\ First(op, script[1])
  /\ Succ(op, script[Len(script)], "end")
  /\ \A i \in 1 .. Len(script) - 1 : Succ(op, script[i], script[i + 1])

\* The table says what the scripts say.
LEMMA ScriptIs ==
  /\ DOMAIN Script = Creations \cup Deletions \cup Renames \cup Changes \cup {"activate", "write"}
  /\ \A op \in DOMAIN Script : Runs(op, Script[op])
<1>1. DOMAIN Script = {"create", "signup", "migrate", "activate", "deactivate", "adminOn", "adminOff", "takedown",
                       "restore", "handle", "adminHandle", "write", "delete", "adminDelete"}
  BY DEF Script
<1>2. DOMAIN Script = Creations \cup Deletions \cup Renames \cup Changes \cup {"activate", "write"}
  BY <1>1 DEF Creations, Deletions, Renames, Changes
<1>3. Runs("create", Script["create"])
  <2>1. Script["create"] = <<"free", "absent", "make", "repo", "plc", "register", "identity", "active", "commit", "sync", "root">>
    BY DEF Script
  <2> QED BY <2>1 DEF Runs, Steps, First, Succ, Creations, SignUps
<1>4. Runs("signup", Script["signup"])
  <2>1. Script["signup"] = <<"free", "absent", "make", "repo", "plc", "register", "identity", "active", "commit", "sync", "root",
             "present">>
    BY DEF Script
  <2> QED BY <2>1 DEF Runs, Steps, First, Succ, Creations, SignUps
<1>5. Runs("migrate", Script["migrate"])
  <2>1. Script["migrate"] = <<"free", "absent", "make", "repo", "register", "root">>
    BY DEF Script
  <2> QED BY <2>1 DEF Runs, Steps, First, Succ, Creations, SignUps
<1>6. Runs("activate", Script["activate"])
  <2>1. Script["activate"] = <<"find", "on", "read", "status", "announce", "identity", "sync">>
    BY DEF Script
  <2> QED BY <2>1 DEF Runs, Steps, First, Succ
<1>7. Runs("deactivate", Script["deactivate"])
  <2>1. Script["deactivate"] = <<"off", "status", "announce">>
    BY DEF Script
  <2> QED BY <2>1 DEF Runs, Steps, First, Succ, Changes
<1>8. Runs("adminOn", Script["adminOn"])
  <2>1. Script["adminOn"] = <<"on", "status", "announce">>
    BY DEF Script
  <2> QED BY <2>1 DEF Runs, Steps, First, Succ, Changes
<1>9. Runs("adminOff", Script["adminOff"])
  <2>1. Script["adminOff"] = <<"off", "status", "announce">>
    BY DEF Script
  <2> QED BY <2>1 DEF Runs, Steps, First, Succ, Changes
<1>10. Runs("takedown", Script["takedown"])
  <2>1. Script["takedown"] = <<"down", "status", "announce">>
    BY DEF Script
  <2> QED BY <2>1 DEF Runs, Steps, First, Succ, Changes
<1>11. Runs("restore", Script["restore"])
  <2>1. Script["restore"] = <<"up", "status", "announce">>
    BY DEF Script
  <2> QED BY <2>1 DEF Runs, Steps, First, Succ, Changes
<1>12. Runs("handle", Script["handle"])
  <2>1. Script["handle"] = <<"auth", "lookup", "plc", "rename", "identity">>
    BY DEF Script
  <2> QED BY <2>1 DEF Runs, Steps, First, Succ, Renames
<1>13. Runs("adminHandle", Script["adminHandle"])
  <2>1. Script["adminHandle"] = <<"lookup", "plc", "rename", "identity">>
    BY DEF Script
  <2> QED BY <2>1 DEF Runs, Steps, First, Succ, Renames
<1>14. Runs("write", Script["write"])
  <2>1. Script["write"] = <<"auth", "open", "commit", "root">>
    BY DEF Script
  <2> QED BY <2>1 DEF Runs, Steps, First, Succ
<1>15. Runs("delete", Script["delete"])
  <2>1. Script["delete"] = <<"find", "destroy", "unroot", "unactor", "tombstone", "purge">>
    BY DEF Script
  <2> QED BY <2>1 DEF Runs, Steps, First, Succ, Deletions
<1>16. Runs("adminDelete", Script["adminDelete"])
  <2>1. Script["adminDelete"] = <<"destroy", "unroot", "unactor", "tombstone", "purge">>
    BY DEF Script
  <2> QED BY <2>1 DEF Runs, Steps, First, Succ, Deletions
<1> QED BY <1>1, <1>2, <1>3, <1>4, <1>5, <1>6, <1>7, <1>8, <1>9, <1>10,
           <1>11, <1>12, <1>13, <1>14, <1>15, <1>16

LEMMA Begins ==
  ASSUME NEW op \in DOMAIN Script
  PROVE  /\ Script[op] # <<>> /\ First(op, PointOf(Script[op])) /\ OnTrack(op, Script[op])
<1> DEFINE s == Script[op]
<1>1. s \in Seq(Steps) /\ Len(s) > 0 /\ First(op, s[1])
  BY ScriptIs DEF Runs
<1> HIDE DEF s
<1>2. s # <<>> /\ Head(s) = s[1] /\ SubSeq(s, 1, Len(s)) = s /\ 1 \in 1 .. Len(s) + 1
  BY <1>1
<1> QED BY <1>1, <1>2 DEF s, PointOf, OnTrack

LEMMA Along ==
  ASSUME NEW op \in DOMAIN Script, NEW todo, OnTrack(op, todo), todo # <<>>
  PROVE  /\ OnTrack(op, Tail(todo)) /\ todo \in Seq(Steps)
         /\ Succ(op, Head(todo), PointOf(Tail(todo)))
<1> DEFINE s == Script[op]
<1>1. s \in Seq(Steps) /\ Succ(op, s[Len(s)], "end") /\ \A i \in 1 .. Len(s) - 1 : Succ(op, s[i], s[i + 1])
  BY ScriptIs DEF Runs
<1> HIDE DEF s
<1>2. ASSUME NEW i \in 1 .. Len(s) + 1, todo = SubSeq(s, i, Len(s))
      PROVE  /\ OnTrack(op, Tail(todo)) /\ todo \in Seq(Steps)
             /\ Succ(op, Head(todo), PointOf(Tail(todo)))
  <2>1. i \in 1 .. Len(s) /\ Len(s) \in Nat
    BY <1>1, <1>2
  <2>2. todo \in Seq(Steps) /\ Head(todo) = s[i]
    BY <1>1, <1>2, <2>1
  <2>3. Tail(todo) = SubSeq(s, i + 1, Len(s)) /\ i + 1 \in 1 .. Len(s) + 1
    BY <1>1, <1>2, <2>1
  <2>4. CASE i = Len(s)
    <3>1. Tail(todo) = <<>>
      BY <1>1, <2>1, <2>3, <2>4
    <3> QED BY <1>1, <2>2, <2>3, <2>4, <3>1 DEF OnTrack, PointOf, s
  <2>5. CASE i # Len(s)
    <3>1. i + 1 \in 1 .. Len(s) /\ i \in 1 .. Len(s) - 1
      BY <2>1, <2>5
    <3>2. Len(s) \in i + 1 .. Len(s) /\ i + 1 <= Len(s) /\ i + 1 \in Int /\ Len(s) \in Int
          /\ \A j \in i + 1 .. Len(s) : s[j] \in Steps
      BY <1>1, <3>1
    <3>3. Tail(todo) # <<>> /\ Head(Tail(todo)) = s[i + 1]
      <4>1. Head(Tail(todo)) = s[i + 1]
        BY <1>1, <2>3, <3>1, <3>2, HeadTailOfSubSeq
      <4>2. /\ SubSeq(s, i + 1, Len(s)) \in Seq(Steps)
            /\ Len(SubSeq(s, i + 1, Len(s))) = IF i + 1 <= Len(s) THEN Len(s) - (i + 1) + 1 ELSE 0
        BY <3>2, SubSeqProperties, Z3
      <4>3. Len(SubSeq(s, i + 1, Len(s))) > 0
        BY <2>1, <3>2, <4>2
      <4>4. Tail(todo) # <<>>
        <5>1. \A t : t \in Seq(Steps) /\ Len(t) > 0 => t # <<>>
          OBVIOUS
        <5> QED BY <2>3, <4>2, <4>3, <5>1, Zenon
      <4> QED BY <4>1, <4>4
    <3> QED BY <1>1, <2>2, <2>3, <3>1, <3>3 DEF OnTrack, PointOf, s
  <2> QED BY <2>4, <2>5
<1>3. CASE op \in Creations /\ todo = <<"destroy">>
  <2>1. Tail(todo) = <<>> /\ Head(todo) = "destroy" /\ todo \in Seq(Steps)
    BY <1>3 DEF Steps
  <2>2. OnTrack(op, <<>>)
    <3>1. <<>> = SubSeq(s, Len(s) + 1, Len(s)) /\ Len(s) + 1 \in 1 .. Len(s) + 1
      BY <1>1
    <3> QED BY <3>1 DEF OnTrack, s
  <2> QED BY <1>3, <2>1, <2>2 DEF Succ, PointOf
<1> QED BY <1>2, <1>3 DEF OnTrack, s

LEMMA Detours ==
  ASSUME NEW op \in DOMAIN Script
  PROVE  /\ OnTrack(op, <<>>)
         /\ op \in Creations => OnTrack(op, <<"destroy">>)
         /\ op \in Renames => OnTrack(op, <<"identity">>)
<1> DEFINE s == Script[op]
<1>1. s \in Seq(Steps)
  BY ScriptIs DEF Runs
<1>2. OnTrack(op, <<>>)
  <2> HIDE DEF s
  <2>1. <<>> = SubSeq(s, Len(s) + 1, Len(s)) /\ Len(s) + 1 \in 1 .. Len(s) + 1
    BY <1>1
  <2> QED BY <2>1 DEF OnTrack, s
<1>4. \A n \in Nat : s \in Seq(Steps) /\ Len(s) = n /\ n > 0 /\ s[n] = "identity" =>
        n \in 1 .. Len(s) + 1 /\ <<"identity">> = SubSeq(s, n, Len(s))
  <2> HIDE DEF s
  <2>1. SUFFICES ASSUME NEW n \in Nat, s \in Seq(Steps), Len(s) = n, n > 0, s[n] = "identity"
                 PROVE  n \in 1 .. Len(s) + 1 /\ <<"identity">> = SubSeq(s, n, Len(s))
    OBVIOUS
  <2>2. \A t : t = SubSeq(s, n, n) => t \in Seq(Steps) /\ Len(t) = 1 /\ t[1] = "identity"
    BY <2>1
  <2>3. \A t : t \in Seq(Steps) /\ Len(t) = 1 /\ t[1] = "identity" => t = <<"identity">>
    OBVIOUS
  <2> QED BY <2>1, <2>2, <2>3
<1>3. op \in Renames => OnTrack(op, <<"identity">>)
  <2>1. CASE op = "handle"
    <3>1. s = <<"auth", "lookup", "plc", "rename", "identity">>
      BY <2>1 DEF Script
    <3>2. s \in Seq(Steps) /\ Len(s) = 5 /\ s[5] = "identity"
      BY <1>1, <3>1
    <3> QED BY <3>2, <1>4 DEF OnTrack, s
  <2>2. CASE op = "adminHandle"
    <3>1. s = <<"lookup", "plc", "rename", "identity">>
      BY <2>2 DEF Script
    <3>2. s \in Seq(Steps) /\ Len(s) = 4 /\ s[4] = "identity"
      BY <1>1, <3>1
    <3> QED BY <3>2, <1>4 DEF OnTrack, s
  <2> QED BY <2>1, <2>2 DEF Renames
<1> QED BY <1>2, <1>3 DEF OnTrack
-----------------------------------------------------------------------------
(***************************************************************************)
(* What a request knows, and what is true of its account, at each step.    *)
(* q: the request, r: its number, p: where it is; a, ro, st, l, u: the     *)
(* row, the root, the store, the events and the undoing of its account;    *)
(* g: whether that is gone.                                                *)
(***************************************************************************)
Typed(q) ==
  /\ q = [op |-> q.op, did |-> q.did, handle |-> q.handle, got |-> q.got, todo |-> q.todo]
  /\ q.op \in Ops /\ q.did \in Dids /\ OnTrack(q.op, q.todo)
  /\ q.op \in Creations \cup Renames \/ (q.op = "activate" /\ PointOf(q.todo) \notin {"find", "end"})
       => q.handle \in Handles
  /\ PointOf(q.todo) = "announce" => q.got \in Statuses

\* What it announces, it has seen.
Saw(q, p, views) ==
  /\ p = "announce" => \E v \in views : v.status = q.got
  /\ q.op \in SignUps /\ p \in {"identity", "active", "commit", "sync", "root", "present"}
       => (\E v \in views : v.status = "active") /\ \E v \in views : v.handle = q.handle
  /\ q.op = "activate" /\ p \notin {"find", "end"} => \E v \in views : v.handle = q.handle
  /\ q.op \in Renames /\ p = "identity" => \E v \in views : v.handle = q.handle
  /\ p = "tombstone" => \E v \in views : v.status = "deleted"

OnlyDeleted(l) == l # <<>> /\ \A i \in DOMAIN l : l[i].kind = "account" /\ l[i].is = "deleted"

\* Where a request may be while its account is gone.
Harmless(op, p) ==
  \/ p \in {"free", "absent", "make", "find", "on", "off", "down", "up", "status", "announce", "end"}
       /\ (op = "activate" => p \in {"find", "end"})
  \/ p = "auth"
  \/ op = "adminHandle" /\ p \in {"lookup", "plc", "rename"}
  \/ op = "adminDelete"

\* Of deletions.
Buried(q, r, p, a, ro, st, l, g) ==
  /\ g => a = None /\ ~ro /\ st = "none" /\ OnlyDeleted(l) /\ Harmless(q.op, p)
  /\ g /\ p = "announce" => q.got = "deleted"
  /\ p \in {"unroot", "unactor", "tombstone", "purge"} => st = "none"
  /\ p \in {"unactor", "tombstone", "purge"} => ~ro
  /\ p \in {"tombstone", "purge"} => a = None
  /\ p = "purge" => Own(l, r) # {}
  /\ \A i \in Own(l, r) : q.op \in Deletions => l[i].kind = "account" /\ l[i].is = "deleted"

\* Of stores.
Housed(q, p, a, st, u) ==
  /\ st # "none" => a # None \/ (q.op \in Creations /\ p \in {"repo", "plc", "register", "destroy"})
  /\ u # <<>> => st = "none" \/ (q.op \in Creations /\ p = "destroy")

Whole(a, ro, st) == /\ a # None <=> st = "repo"
                    /\ a # None <=> ro
                    /\ st # "empty"
StatusTold(a, l) ==
  \/ HeardIn(l) = Status(a)
  \/ HeardIn(l) = "deleted" /\ Status(a) = "deactivated"
HandleTold(a, l) ==
  LastOf(l, "identity") \in IF a = None THEN {None} ELSE {None, a.handle}

\* The events that a request is still to sequence.
OwesStatus(op, p) ==
  \/ p \in {"read", "status", "announce", "tombstone"}
  \/ op \in SignUps /\ p \in {"identity", "active"}
OwesHandle(op, p) ==
  \/ op \in Renames /\ p = "identity"
  \/ p \in {"tombstone", "purge"}

\* Of an account that nothing has disturbed.
Orderly(q, p, a, ro, st, l, u) ==
  /\ u = <<>>
  /\ CASE q.op \in Creations /\ p = "make" -> a = None /\ ~ro /\ st = "none"
       [] q.op \in Creations /\ p = "repo" -> a = None /\ ~ro /\ st = "empty"
       [] q.op \in Creations /\ p \in {"plc", "register"} -> a = None /\ ~ro /\ st = "repo"
       [] q.op \in Creations /\ p = "destroy" -> a = None /\ ~ro
       [] p \in {"unroot", "unactor", "tombstone", "purge"} -> TRUE
       [] OTHER -> Whole(a, ro, st)
  /\ q.op \in Creations /\ p \in {"identity", "active", "commit", "sync", "root", "present"} => a # None
  /\ q.op \in SignUps /\ p \in {"identity", "active", "commit", "sync", "root", "present"}
       => a.handle = q.handle /\ Status(a) = "active"
  /\ q.op = "write" /\ p \in {"open", "commit", "root"} => a # None
  /\ q.op = "activate" /\ p \notin {"find", "end"}
       => a # None /\ ~a.down /\ a.handle = q.handle /\ (p # "on" => ~a.off)
  /\ q.op \in Renames /\ p = "identity" => a # None /\ a.handle = q.handle
  /\ p = "announce" => q.got = Status(a)
  /\ OwesStatus(q.op, p) \/ StatusTold(a, l)
  /\ OwesHandle(q.op, p) \/ HandleTold(a, l)

Facts(q, r, a, ro, st, l, u, g, sound, calm) ==
  LET p == PointOf(q.todo) IN
  /\ Buried(q, r, p, a, ro, st, l, g)
  /\ sound => Housed(q, p, a, st, u)
  /\ calm => Orderly(q, p, a, ro, st, l, u)

\* Of an account of which neither the making nor the destroying of its store has failed.
Sound(d) == crashes = 0 /\ d \notin litter

FactsOf(q, r, d) ==
  Facts(q, r, actor[d], root[d], store[d], log[d], undo[d], gone[d], Sound(d), faults = 0 /\ crashes = 0)

\* Nothing but one request is at work on an account, and a clean-up that it has left.
Account(d) ==
  /\ \A r, s \in InProgress(d) : r = s
  /\ \A r \in InProgress(d) :
       /\ undo[d] # <<>> => req[r].op = "signup" /\ At(r, "destroy")
       /\ FactsOf(req[r], r, d)
  /\ InProgress(d) = {} => FactsOf(Idle, 0, d)

Types ==
  /\ actor \in [Dids -> Row \cup {None}] /\ root \in [Dids -> BOOLEAN]
  /\ store \in [Dids -> {"none", "empty", "repo"}]
  /\ plc \in [Dids -> Handles \cup {None}]
  /\ log = [d \in Dids |-> log[d]] /\ undo = [d \in Dids |-> undo[d]]
  /\ \A d \in Dids : log[d] \in Seq(Event) /\ undo[d] \in Seq({"unroot", "unactor"})
  /\ req = [r \in Requests |-> req[r]] /\ gone \in [Dids -> BOOLEAN]
  /\ faults \in Nat /\ crashes \in Nat /\ overlaps \in Nat /\ Left >= 0
  /\ litter \subseteq Dids

\* Every event is of a request that has begun, or was there at the start.
Signed == \A d \in Dids : \A i \in DOMAIN log[d] : log[d][i].by = 0 \/ req[log[d][i].by] # Idle

\* What is new among the events is the request's.
Adds(r, old, new) == \A i \in DOMAIN new : new[i].by = r \/ \E j \in DOMAIN old : new[i] = old[j]

LEMMA AddsNothing ==
  ASSUME NEW r, NEW l
  PROVE  Adds(r, l, l)
BY DEF Adds

IInv ==
  /\ Types /\ Signed
  /\ \A r \in Requests : req[r] = Idle \/ (Typed(req[r]) /\ Saw(req[r], PointOf(req[r].todo), seen[r]))
  /\ overlaps = 0 => \A d \in Dids : Account(d)
-----------------------------------------------------------------------------
(***************************************************************************)
(* A step of a request concerns the request and its account alone.         *)
(***************************************************************************)
LEMMA PointIs ==
  ASSUME NEW q, Typed(q)
  PROVE  /\ q.op \in DOMAIN Script /\ q.op # None /\ q # Idle /\ q.did \in Dids
         /\ PointOf(q.todo) = "end" <=> q.todo = <<>>
         /\ q.todo # <<>> => PointOf(q.todo) = Head(q.todo)
<1>1. q.op \in DOMAIN Script /\ q.did \in Dids /\ OnTrack(q.op, q.todo)
  BY AccountsAssumption DEF Typed
<1>2. q.op # None /\ q # Idle
  BY <1>1, NoneAssumption DEF Idle
<1>3. ASSUME q.todo # <<>> PROVE Head(q.todo) # "end"
  <2>1. q.todo \in Seq(Steps)
    BY <1>1, <1>3, Along
  <2>2. Head(q.todo) \in Steps
    BY <1>3, <2>1
  <2> QED BY <2>2 DEF Steps
<1> QED BY <1>1, <1>2, <1>3 DEF PointOf

LEMMA SawMore ==
  ASSUME NEW q, NEW p, NEW V, NEW W, V \subseteq W, Saw(q, p, V)
  PROVE  Saw(q, p, W)
BY DEF Saw

LEMMA NothingToSay ==
  ASSUME NEW q, NEW V
  PROVE  Saw(q, "end", V)
BY DEF Saw

LEMMA Ended ==
  ASSUME NEW q, q.todo = <<>>, NEW r, NEW s, NEW a, NEW ro, NEW st, NEW l, NEW u, NEW g,
         NEW sound, NEW calm, Facts(q, r, a, ro, st, l, u, g, sound, calm), q = Idle \/ q.op \in DOMAIN Script
  PROVE  Facts(Idle, s, a, ro, st, l, u, g, sound, calm)
<1>1. Idle.todo = <<>> /\ Idle.op = None /\ None \notin DOMAIN Script
  BY NoneAssumption DEF Idle
<1>2. None \notin Creations \cup Deletions \cup {"activate", "adminHandle", "adminDelete"} \cup SignUps \cup Renames \cup {"write"}
  BY <1>1, ScriptIs DEF SignUps, Creations, Deletions, Renames
<1>3. PointOf(q.todo) = "end" /\ PointOf(Idle.todo) = "end"
  BY <1>1 DEF PointOf
<1>4. Buried(q, r, "end", a, ro, st, l, g) => Buried(Idle, s, "end", a, ro, st, l, g)
  BY <1>1, <1>2 DEF Buried, Harmless
<1>5. Housed(q, "end", a, st, u) => Housed(Idle, "end", a, st, u)
  BY <1>1, <1>2 DEF Housed
<1>6. Orderly(q, "end", a, ro, st, l, u) => Orderly(Idle, "end", a, ro, st, l, u)
  BY <1>1, <1>2 DEF Orderly, OwesStatus, OwesHandle
<1> QED BY <1>3, <1>4, <1>5, <1>6 DEF Facts

Started == {r \in Requests : req[r] # Idle}

LEMMA LeftIs ==
  ASSUME faults \in Nat, crashes \in Nat, overlaps \in Nat
  PROVE  /\ Started \subseteq Requests /\ IsFiniteSet(Started) /\ Cardinality(Started) \in Nat
         /\ Left = MaxEvents - Cardinality(Started) - faults - crashes - overlaps
         /\ Left \in Int
<1>1. IsFiniteSet(Requests)
  BY FS_Interval, AccountsAssumption DEF Requests
<1>2. IsFiniteSet(Started) /\ Cardinality(Started) \in Nat
  BY <1>1, FS_Subset, FS_CardinalityType DEF Started
<1> QED BY <1>2, AccountsAssumption DEF Left, Started

LEMMA RequestMoves ==
  ASSUME IInv, NEW r \in Requests, NEW d \in Dids, req[r].did = d, req[r].todo # <<>>,
         NEW q, req' = [req EXCEPT ![r] = q], Typed(q), q.did = d,
         Watch, UNCHANGED <<crashes, overlaps>>,
         faults' = faults \/ (faults' = faults + 1 /\ Left > 0),
         litter' \subseteq Dids, \A e \in Dids \ {d} : e \in litter' <=> e \in litter,
         plc' \in [Dids -> Handles \cup {None}],
         actor' \in [Dids -> Row \cup {None}], root' \in [Dids -> BOOLEAN],
         store' \in [Dids -> {"none", "empty", "repo"}], gone' \in [Dids -> BOOLEAN],
         NEW l \in Seq(Event), log' = [log EXCEPT ![d] = l],
         Adds(r, log[d], l),
         NEW u \in Seq({"unroot", "unactor"}), undo' = [undo EXCEPT ![d] = u],
         \A e \in Dids \ {d} : /\ actor'[e] = actor[e] /\ root'[e] = root[e]
                               /\ store'[e] = store[e] /\ gone'[e] = gone[e],
         q.todo # <<>> => Saw(q, PointOf(q.todo), seen[r] \cup {View(actor[d]), View(actor'[d])}),
         overlaps = 0 /\ q.todo # <<>> /\ u # <<>> => q.op = "signup" /\ PointOf(q.todo) = "destroy",
         overlaps = 0 => Facts(q, r, actor'[d], root'[d], store'[d], l, u, gone'[d],
                               crashes = 0 /\ d \notin litter', faults' = 0 /\ crashes = 0)
  PROVE  IInv'
<1>1. Types /\ req[r] # Idle
  BY DEF IInv, Idle
<1>2. /\ req' = [s \in Requests |-> req'[s]] /\ req'[r] = q /\ \A s \in Requests \ {r} : req'[s] = req[s]
  BY <1>1 DEF Types
<1>3. /\ log' = [e \in Dids |-> log'[e]] /\ log'[d] = l /\ undo' = [e \in Dids |-> undo'[e]] /\ undo'[d] = u
      /\ \A e \in Dids \ {d} : log'[e] = log[e] /\ undo'[e] = undo[e]
  BY <1>1 DEF Types
<1>4. q # Idle /\ q.op \in DOMAIN Script /\ (PointOf(q.todo) = "end" <=> q.todo = <<>>)
  BY PointIs
<1>5. faults' \in Nat /\ Left' >= 0
  <2>1. Started' = Started
    BY <1>1, <1>2, <1>4 DEF Started
  <2>2. faults \in Nat /\ crashes \in Nat /\ overlaps \in Nat /\ Left >= 0 /\ MaxEvents \in Nat
    BY <1>1, AccountsAssumption DEF Types
  <2>3. faults' \in Nat
    BY <2>2
  <2>4. Cardinality(Started) \in Nat /\ Left = MaxEvents - Cardinality(Started) - faults - crashes - overlaps
    BY <2>2, LeftIs
  <2>5. Left' = MaxEvents - Cardinality(Started)' - faults' - crashes' - overlaps'
    BY DEF Left, Started
  <2>6. Left' = MaxEvents - Cardinality(Started) - faults' - crashes - overlaps
    BY <2>1, <2>5
  <2> QED BY <2>2, <2>3, <2>4, <2>6
<1>6. Types'
  BY <1>1, <1>2, <1>3, <1>5 DEF Types
<1>7. ASSUME NEW s \in Requests
      PROVE  req'[s] = Idle \/ (Typed(req'[s]) /\ Saw(req'[s], PointOf(req'[s].todo), seen'[s]))
  <2>1. CASE req'[s].todo = <<>>
    <3>1. req'[s] = Idle \/ Typed(req'[s])
      BY <1>2 DEF IInv
    <3>2. PointOf(req'[s].todo) = "end"
      BY <2>1 DEF PointOf
    <3> QED BY <3>1, <3>2, NothingToSay
  <2>2. CASE req'[s].todo # <<>>
    <3>1. seen'[s] = seen[s] \cup {View(actor[req'[s].did]), View(actor'[req'[s].did])}
      BY <2>2 DEF Watch
    <3>2. CASE s = r
      BY <1>2, <2>2, <3>1, <3>2
    <3>3. CASE s # r
      <4>1. req'[s] = req[s] /\ req[s] # Idle
        BY <1>2, <2>2, <3>3 DEF Idle
      <4>2. Typed(req[s]) /\ Saw(req[s], PointOf(req[s].todo), seen[s])
        BY <4>1 DEF IInv
      <4> QED BY <3>1, <4>1, <4>2, SawMore
    <3> QED BY <3>2, <3>3
  <2> QED BY <2>1, <2>2
<1>8. ASSUME overlaps = 0, NEW e \in Dids PROVE Account(e)'
  <2>1. Account(e)
    BY <1>8 DEF IInv
  <2>2. CASE e # d
    <3>1. InProgress(e)' = InProgress(e)
      BY <1>2, <2>2 DEF InProgress
    <3>2. \A s \in InProgress(e) : s \in Requests \ {r} /\ req'[s] = req[s]
      BY <1>2, <2>2 DEF InProgress
    <3>3. ASSUME NEW p, NEW s, FactsOf(p, s, e)
          PROVE  Facts(p, s, actor'[e], root'[e], store'[e], log'[e], undo'[e], gone'[e],
                       crashes = 0 /\ e \notin litter', faults' = 0 /\ crashes = 0)
      <4>1. faults' = 0 => faults = 0
        BY <1>1 DEF Types
      <4>2. crashes = 0 /\ e \notin litter' => Sound(e)
        BY <2>2 DEF Sound
      <4> QED BY <1>3, <2>2, <3>3, <4>1, <4>2 DEF FactsOf, Facts
    <3>4. \A s \in InProgress(e) :
            /\ undo'[e] # <<>> => req'[s].op = "signup" /\ At(s, "destroy")'
            /\ FactsOf(req[s], s, e)
      BY <1>3, <2>1, <2>2, <3>2 DEF Account, At
    <3>5. \A s \in InProgress(e) :
            Facts(req'[s], s, actor'[e], root'[e], store'[e], log'[e], undo'[e], gone'[e],
                  crashes = 0 /\ e \notin litter', faults' = 0 /\ crashes = 0)
      BY <3>2, <3>3, <3>4
    <3>6. InProgress(e) = {} =>
            Facts(Idle, 0, actor'[e], root'[e], store'[e], log'[e], undo'[e], gone'[e],
                  crashes = 0 /\ e \notin litter', faults' = 0 /\ crashes = 0)
      BY <2>1, <3>3 DEF Account
    <3> QED BY <2>1, <3>1, <3>4, <3>5, <3>6 DEF Account, FactsOf, Sound
  <2>3. CASE e = d
    <3>1. r \in InProgress(d)
      BY DEF InProgress
    <3>2. InProgress(d) = {r}
      BY <2>1, <2>3, <3>1 DEF Account
    <3>3. InProgress(d)' = IF q.todo = <<>> THEN {} ELSE {r}
      BY <1>2, <3>2 DEF InProgress
    <3>4. Facts(q, r, actor'[d], root'[d], store'[d], log'[d], undo'[d], gone'[d],
                crashes = 0 /\ d \notin litter', faults' = 0 /\ crashes = 0)
      BY <1>3, <1>8
    <3>5. CASE q.todo = <<>>
      <4>1. Facts(Idle, 0, actor'[d], root'[d], store'[d], log'[d], undo'[d], gone'[d],
                  crashes = 0 /\ d \notin litter', faults' = 0 /\ crashes = 0)
        BY <1>4, <3>4, <3>5, Ended
      <4> QED BY <2>3, <3>3, <3>5, <4>1 DEF Account, FactsOf, Sound
    <3>6. CASE q.todo # <<>>
      <4>1. undo'[d] # <<>> => req'[r].op = "signup" /\ At(r, "destroy")'
        BY <1>2, <1>3, <1>8, <3>6 DEF At, PointOf
      <4> QED BY <1>2, <2>3, <3>3, <3>4, <3>6, <4>1 DEF Account, FactsOf, Sound
    <3> QED BY <3>5, <3>6
  <2> QED BY <2>2, <2>3
<1>9. Signed'
  <2>1. ASSUME NEW e \in Dids, NEW i \in DOMAIN log[e] PROVE log[e][i].by = 0 \/ req'[log[e][i].by] # Idle
    <3>1. log[e][i] \in Event
      BY <1>1, <2>1 DEF Types
    <3>2. log[e][i].by \in Requests \cup {0}
      BY <3>1 DEF Event
    <3>3. log[e][i].by = 0 \/ req[log[e][i].by] # Idle
      BY <2>1 DEF IInv, Signed
    <3> HIDE DEF IInv
    <3> QED BY <1>2, <1>4, <3>2, <3>3
  <2>2. ASSUME NEW e \in Dids, NEW i \in DOMAIN log'[e] PROVE log'[e][i].by = 0 \/ req'[log'[e][i].by] # Idle
    <3>1. CASE e # d
      BY <1>3, <2>1, <2>2, <3>1
    <3>2. CASE e = d
      BY <1>2, <1>3, <1>4, <2>1, <2>2, <3>2 DEF Adds
    <3> QED BY <3>1, <3>2
  <2> QED BY <2>2 DEF Signed
<1> QED BY <1>6, <1>7, <1>8, <1>9 DEF IInv
-----------------------------------------------------------------------------
(***************************************************************************)
(* A request goes on, or throws.                                           *)
(***************************************************************************)
\* Where a request is, and what holds of its account.
LEMMA Here ==
  ASSUME IInv, NEW r \in Requests, req[r].todo # <<>>
  PROVE  LET q == req[r]
             d == q.did
             p == PointOf(q.todo)
         IN  /\ Typed(q) /\ q.op \in DOMAIN Script /\ d \in Dids /\ p = Head(q.todo) /\ p # "end"
             /\ Saw(q, p, seen[r])
             /\ Succ(q.op, p, PointOf(Tail(q.todo)))
             /\ overlaps = 0 => /\ undo[d] # <<>> => q.op = "signup" /\ p = "destroy"
                                /\ Facts(q, r, actor[d], root[d], store[d], log[d], undo[d], gone[d],
                                         Sound(d), faults = 0 /\ crashes = 0)
<1> DEFINE q == req[r]
           d == q.did
           p == PointOf(q.todo)
<1>1. Typed(q) /\ Saw(q, p, seen[r])
  BY DEF IInv, Idle
<1>2. q.op \in DOMAIN Script /\ d \in Dids /\ p = Head(q.todo) /\ p # "end"
  BY <1>1, PointIs
<1>3. Succ(q.op, p, PointOf(Tail(q.todo)))
  BY <1>1, <1>2, Along DEF Typed
<1>4. ASSUME overlaps = 0
      PROVE  /\ undo[d] # <<>> => q.op = "signup" /\ p = "destroy"
             /\ Facts(q, r, actor[d], root[d], store[d], log[d], undo[d], gone[d],
                      Sound(d), faults = 0 /\ crashes = 0)
  <2>1. Account(d) /\ r \in InProgress(d)
    BY <1>2, <1>4 DEF IInv, InProgress
  <2> QED BY <1>2, <2>1 DEF Account, At, FactsOf
<1> QED BY <1>1, <1>2, <1>3, <1>4

LEMMA GoesTyped ==
  ASSUME NEW q, Typed(q), q.todo # <<>>, NEW h, NEW x,
         h = q.handle \/ h \in Handles,
         PointOf(q.todo) = "find" /\ q.op = "activate" => h \in Handles,
         x = q.got \/ PointOf(q.todo) \in {"status", "make"},
         PointOf(q.todo) = "status" => x \in Statuses
  PROVE  Typed(With(q, h, x, Tail(q.todo)))
<1> DEFINE n == With(q, h, x, Tail(q.todo))
<1>1. n.op = q.op /\ n.did = q.did /\ n.handle = h /\ n.got = x /\ n.todo = Tail(q.todo)
      /\ n = [op |-> n.op, did |-> n.did, handle |-> n.handle, got |-> n.got, todo |-> n.todo]
  BY DEF With
<1>2. q.op \in DOMAIN Script /\ PointOf(q.todo) # "end"
  BY PointIs
<1>3. OnTrack(q.op, Tail(q.todo)) /\ Succ(q.op, PointOf(q.todo), PointOf(Tail(q.todo)))
  BY <1>2, PointIs, Along DEF Typed
<1>4. q.op \in Creations \cup Renames \/ (q.op = "activate" /\ PointOf(q.todo) # "find") => q.handle \in Handles
  BY <1>2 DEF Typed
<1>5. PointOf(Tail(q.todo)) = "announce" => PointOf(q.todo) = "status"
  BY <1>3 DEF Succ
<1> HIDE DEF n
<1>6. n.op \in Ops /\ n.did \in Dids /\ OnTrack(n.op, n.todo)
  BY <1>1, <1>3 DEF Typed
<1>7. n.op \in Creations \cup Renames \/ (n.op = "activate" /\ PointOf(n.todo) \notin {"find", "end"})
        => n.handle \in Handles
  BY <1>1, <1>4
<1>8. PointOf(n.todo) = "announce" => n.got \in Statuses
  BY <1>1, <1>5
<1>9. Typed(n)
  BY <1>1, <1>6, <1>7, <1>8, Zenon DEF Typed
<1> QED BY <1>9 DEF n

\* A handler that throws leaves what it has done, but for the clean-up.
LEMMA ThrowKeeps ==
  ASSUME IInv, NEW r \in Requests, req[r].todo # <<>>, Throw(r), Watch, PointOf(req[r].todo) # "destroy",
         UNCHANGED <<db, store, plc, log, crashes, overlaps, litter, gone>>,
         faults' = faults \/ (faults' = faults + 1 /\ Left > 0),
         NEW d, d = req[r].did, NEW n, n = With(req[r], req[r].handle, req[r].got, Thrown(r)),
         overlaps = 0 /\ faults' = 0 /\ crashes = 0
           => Orderly(n, PointOf(n.todo), actor[d], root[d], store[d], log[d], undo'[d])
  PROVE  IInv'
<1> DEFINE q == req[r]
           p == PointOf(q.todo)
<1>1. /\ Typed(q) /\ q.op \in DOMAIN Script /\ d \in Dids /\ p = Head(q.todo) /\ p # "end"
      /\ Succ(q.op, p, PointOf(Tail(q.todo)))
      /\ overlaps = 0 => /\ undo[d] = <<>>
                         /\ Facts(q, r, actor[d], root[d], store[d], log[d], undo[d], gone[d],
                                  Sound(d), faults = 0 /\ crashes = 0)
  BY Here
<1>2. /\ n.op = q.op /\ n.did = d /\ n.handle = q.handle /\ n.got = q.got /\ n.todo = Thrown(r)
      /\ n = [op |-> n.op, did |-> n.did, handle |-> n.handle, got |-> n.got, todo |-> n.todo]
  BY DEF With
<1>3. req' = [req EXCEPT ![r] = n]
  BY DEF Throw, GoTo
<1>4. \/ n.todo = <<>> /\ PointOf(n.todo) = "end" /\ (q.op \in Creations => p \in Outside)
      \/ n.todo = <<"destroy">> /\ PointOf(n.todo) = "destroy" /\ q.op \in Creations /\ p \notin Outside
  <2>1. <<"destroy">> # <<>> /\ Head(<<"destroy">>) = "destroy"
    OBVIOUS
  <2>2. n.todo = IF q.op \in Creations /\ p \notin Outside THEN <<"destroy">> ELSE <<>>
    BY <1>1, <1>2 DEF Thrown
  <2> QED BY <2>1, <2>2 DEF PointOf
<1>5. Typed(n)
  <2>1. OnTrack(n.op, n.todo)
    BY <1>1, <1>2, <1>4, Detours
  <2>2. n.op \in Ops /\ (q.op \in Creations \cup Renames => q.handle \in Handles)
    BY <1>1, <1>2 DEF Typed
  <2>3. q.op \in Creations => q.op # "activate"
    BY DEF Creations
  <2> HIDE DEF q
  <2> QED BY <1>1, <1>2, <1>4, <2>1, <2>2, <2>3 DEF Typed
<1>6. Saw(n, PointOf(n.todo), seen[r] \cup {View(actor[d]), View(actor'[d])})
  <2>1. n.op \in Creations => n.op # "activate"
    BY DEF Creations
  <2> QED BY <1>2, <1>4, <2>1 DEF Saw
<1> DEFINE u == undo'[d]
<1>7. /\ u \in Seq({"unroot", "unactor"}) /\ undo' = [undo EXCEPT ![d] = u]
      /\ u = undo[d] \/ (q.op = "signup" /\ PointOf(n.todo) = "destroy")
  <2>1. undo = [e \in Dids |-> undo[e]] /\ undo[d] \in Seq({"unroot", "unactor"})
    BY <1>1 DEF IInv, Types
  <2>2. CASE Unregisters(r)
    <3>1. undo' = [undo EXCEPT ![d] = <<"unroot", "unactor">>] /\ q.op = "signup" /\ p \notin Outside
      BY <1>1, <2>2 DEF Throw, Unregisters, Outside
    <3>2. q.op \in Creations
      BY <3>1 DEF Creations
    <3>3. u = <<"unroot", "unactor">>
      BY <1>1, <2>1, <3>1
    <3>4. <<"unroot", "unactor">> \in Seq({"unroot", "unactor"})
      OBVIOUS
    <3>5. PointOf(n.todo) = "destroy"
      BY <1>4, <3>1, <3>2
    <3> QED BY <3>1, <3>3, <3>4, <3>5
  <2>3. CASE ~Unregisters(r)
    <3>1. undo' = undo
      BY <2>3 DEF Throw
    <3> QED BY <1>1, <2>1, <3>1
  <2> QED BY <2>2, <2>3
<1> HIDE DEF u
<1>8. ASSUME overlaps = 0
      PROVE  Facts(n, r, actor[d], root[d], store[d], log[d], u, gone[d],
                   crashes = 0 /\ d \notin litter', faults' = 0 /\ crashes = 0)
  <2>1. Facts(q, r, actor[d], root[d], store[d], log[d], undo[d], gone[d],
              Sound(d), faults = 0 /\ crashes = 0) /\ undo[d] = <<>>
    BY <1>1, <1>8
  <2>2. Buried(n, r, PointOf(n.todo), actor[d], root[d], store[d], log[d], gone[d])
    <3>1. Buried(q, r, p, actor[d], root[d], store[d], log[d], gone[d])
      BY <2>1 DEF Facts
    <3>2. q.op \in Creations /\ p \notin Outside => ~Harmless(q.op, p)
      BY <1>1 DEF Harmless, Outside, Succ, Creations, SignUps, Changes, Renames, Deletions
    <3>3. Harmless(n.op, "end")
      BY DEF Harmless
    <3> QED BY <1>2, <1>4, <3>1, <3>2, <3>3 DEF Buried
  <2>3. crashes = 0 /\ d \notin litter' => Housed(n, PointOf(n.todo), actor[d], store[d], u)
    <3>1. Sound(d) => Housed(q, p, actor[d], store[d], undo[d])
      BY <2>1 DEF Facts
    <3>2. crashes = 0 /\ d \notin litter' => Sound(d)
      BY DEF Sound
    <3> QED BY <1>2, <1>4, <1>7, <2>1, <3>1, <3>2 DEF Housed, Outside
  <2>4. faults' = 0 /\ crashes = 0 => Orderly(n, PointOf(n.todo), actor[d], root[d], store[d], log[d], u)
    BY <1>8 DEF u
  <2> QED BY <2>2, <2>3, <2>4 DEF Facts
<1>9. /\ log[d] \in Seq(Event) /\ log' = [log EXCEPT ![d] = log[d]]
      /\ plc' \in [Dids -> Handles \cup {None}]
      /\ actor' \in [Dids -> Row \cup {None}] /\ root' \in [Dids -> BOOLEAN]
      /\ store' \in [Dids -> {"none", "empty", "repo"}] /\ gone' \in [Dids -> BOOLEAN]
  BY <1>1 DEF IInv, Types, db
<1>10. overlaps = 0 /\ n.todo # <<>> /\ u # <<>> => n.op = "signup" /\ PointOf(n.todo) = "destroy"
  BY <1>1, <1>2, <1>7
<1>11. actor' = actor /\ root' = root /\ store' = store /\ gone' = gone /\ UNCHANGED <<crashes, overlaps>>
  BY DEF db
<1>12. overlaps = 0 => Facts(n, r, actor'[d], root'[d], store'[d], log[d], u, gone'[d],
                            crashes = 0 /\ d \notin litter', faults' = 0 /\ crashes = 0)
  BY <1>8, <1>11
<1>13. \A e \in Dids \ {d} : actor'[e] = actor[e] /\ root'[e] = root[e] /\ store'[e] = store[e] /\ gone'[e] = gone[e]
  BY <1>11
<1>14. n.did = d /\ req[r].did = d /\ Adds(r, log[d], log[d])
  BY <1>2, AddsNothing
<1>15. litter' \subseteq Dids /\ \A e \in Dids \ {d} : e \in litter' <=> e \in litter
  BY DEF IInv, Types
<1> HIDE DEF q, p
<1> QED BY <1>1, <1>3, <1>5, <1>6, <1>7, <1>9, <1>10, <1>11, <1>12, <1>13, <1>14, <1>15, RequestMoves
-----------------------------------------------------------------------------
(***************************************************************************)
(* What comes after each step.                                             *)
(***************************************************************************)
LEMMA AfterCreation ==
  ASSUME NEW op, NEW s, NEW t, Succ(op, s, t)
  PROVE  /\ s = "free" => op \in Creations /\ t = "absent"
         /\ s = "absent" => op \in Creations /\ t = "make"
         /\ s = "make" => op \in Creations /\ t = "repo"
         /\ s = "repo" => (op \in SignUps /\ t = "plc") \/ (op = "migrate" /\ t = "register")
         /\ s = "register" => (op \in SignUps /\ t = "identity") \/ (op = "migrate" /\ t = "root")
         /\ s = "active" => op \in SignUps /\ t = "commit"
         /\ s = "present" => op = "signup" /\ t = "end"
<1>1. s = "free" => op \in Creations /\ t = "absent"
  BY DEF Succ, Changes
<1>2. s = "absent" => op \in Creations /\ t = "make"
  BY DEF Succ, Changes
<1>3. s = "make" => op \in Creations /\ t = "repo"
  BY DEF Succ, Changes
<1>4. s = "repo" => (op \in SignUps /\ t = "plc") \/ (op = "migrate" /\ t = "register")
  BY DEF Succ, Changes
<1>5. s = "register" => (op \in SignUps /\ t = "identity") \/ (op = "migrate" /\ t = "root")
  BY DEF Succ, Changes
<1>6. s = "active" => op \in SignUps /\ t = "commit"
  BY DEF Succ, Changes
<1>7. s = "present" => op = "signup" /\ t = "end"
  BY DEF Succ, Changes
<1> QED BY <1>1, <1>2, <1>3, <1>4, <1>5, <1>6, <1>7

LEMMA AfterShared ==
  ASSUME NEW op, NEW s, NEW t, Succ(op, s, t)
  PROVE  /\ s = "plc" => (op \in SignUps /\ t = "register") \/ (op \in Renames /\ t = "rename")
         /\ s = "identity" => \/ op \in SignUps /\ t = "active"
                              \/ op = "activate" /\ t = "sync"
                              \/ op \in Renames /\ t = "end"
         /\ s = "commit" => (op \in SignUps /\ t = "sync") \/ (op = "write" /\ t = "root")
         /\ s = "sync" => (op \in SignUps /\ t = "root") \/ (op = "activate" /\ t = "end")
         /\ s = "root" => (op = "signup" /\ t = "present") \/ (op \in {"create", "migrate", "write"} /\ t = "end")
<1>1. s = "plc" => (op \in SignUps /\ t = "register") \/ (op \in Renames /\ t = "rename")
  BY DEF Succ, Changes
<1>2. s = "identity" => \/ op \in SignUps /\ t = "active"
                        \/ op = "activate" /\ t = "sync"
                        \/ op \in Renames /\ t = "end"
  BY DEF Succ, Changes
<1>3. s = "commit" => (op \in SignUps /\ t = "sync") \/ (op = "write" /\ t = "root")
  BY DEF Succ, Changes
<1>4. s = "sync" => (op \in SignUps /\ t = "root") \/ (op = "activate" /\ t = "end")
  BY DEF Succ, Changes
<1>5. s = "root" => (op = "signup" /\ t = "present") \/ (op \in {"create", "migrate", "write"} /\ t = "end")
  BY DEF Succ, Changes
<1> QED BY <1>1, <1>2, <1>3, <1>4, <1>5

LEMMA AfterChange ==
  ASSUME NEW op, NEW s, NEW t, Succ(op, s, t)
  PROVE  /\ s = "find" => (op = "activate" /\ t = "on") \/ (op = "delete" /\ t = "destroy")
         /\ s = "on" => (op = "activate" /\ t = "read") \/ (op \in Changes /\ t = "status")
         /\ s \in {"off", "down", "up"} => op \in Changes /\ t = "status"
         /\ s = "read" => op = "activate" /\ t = "status"
         /\ s = "status" => op \in Changes \cup {"activate"} /\ t = "announce"
         /\ s = "announce" => (op = "activate" /\ t = "identity") \/ (op \in Changes /\ t = "end")
         /\ s = "auth" => (op = "handle" /\ t = "lookup") \/ (op = "write" /\ t = "open")
         /\ s = "lookup" => op \in Renames /\ t = "plc"
         /\ s = "rename" => op \in Renames /\ t = "identity"
         /\ s = "open" => op = "write" /\ t = "commit"
<1>1. s = "find" => (op = "activate" /\ t = "on") \/ (op = "delete" /\ t = "destroy")
  BY DEF Succ, Changes
<1>2. s = "on" => (op = "activate" /\ t = "read") \/ (op \in Changes /\ t = "status")
  BY DEF Succ, Changes
<1>3. s \in {"off", "down", "up"} => op \in Changes /\ t = "status"
  BY DEF Succ, Changes
<1>4. s = "read" => op = "activate" /\ t = "status"
  BY DEF Succ, Changes
<1>5. s = "status" => op \in Changes \cup {"activate"} /\ t = "announce"
  BY DEF Succ, Changes
<1>6. s = "announce" => (op = "activate" /\ t = "identity") \/ (op \in Changes /\ t = "end")
  BY DEF Succ, Changes
<1>7. s = "auth" => (op = "handle" /\ t = "lookup") \/ (op = "write" /\ t = "open")
  BY DEF Succ, Changes
<1>8. s = "lookup" => op \in Renames /\ t = "plc"
  BY DEF Succ, Changes
<1>9. s = "rename" => op \in Renames /\ t = "identity"
  BY DEF Succ, Changes
<1>10. s = "open" => op = "write" /\ t = "commit"
  BY DEF Succ, Changes
<1> QED BY <1>1, <1>2, <1>3, <1>4, <1>5, <1>6, <1>7, <1>8, <1>9, <1>10

LEMMA AfterDeletion ==
  ASSUME NEW op, NEW s, NEW t, Succ(op, s, t)
  PROVE  /\ s = "destroy" => (op \in Creations /\ t = "end") \/ (op \in Deletions /\ t = "unroot")
         /\ s = "unroot" => op \in Deletions /\ t = "unactor"
         /\ s = "unactor" => op \in Deletions /\ t = "tombstone"
         /\ s = "tombstone" => op \in Deletions /\ t = "purge"
         /\ s = "purge" => op \in Deletions /\ t = "end"
<1>1. s = "destroy" => (op \in Creations /\ t = "end") \/ (op \in Deletions /\ t = "unroot")
  BY DEF Succ, Changes
<1>2. s = "unroot" => op \in Deletions /\ t = "unactor"
  BY DEF Succ, Changes
<1>3. s = "unactor" => op \in Deletions /\ t = "tombstone"
  BY DEF Succ, Changes
<1>4. s = "tombstone" => op \in Deletions /\ t = "purge"
  BY DEF Succ, Changes
<1>5. s = "purge" => op \in Deletions /\ t = "end"
  BY DEF Succ, Changes
<1> QED BY <1>1, <1>2, <1>3, <1>4, <1>5

-----------------------------------------------------------------------------
(***************************************************************************)
(* The reads.                                                              *)
(***************************************************************************)
LEMMA ReadOn ==
  ASSUME IInv, NEW r \in Requests, req[r].todo # <<>>, Watch, PointOf(req[r].todo) # "destroy",
         UNCHANGED <<db, store, plc, log, trouble, gone>>, undo' = undo,
         NEW d, d = req[r].did, NEW n, n.did = d, Typed(n), req' = [req EXCEPT ![r] = n],
         Saw(n, PointOf(n.todo), seen[r] \cup {View(actor[d])}),
         overlaps = 0 => Facts(n, r, actor[d], root[d], store[d], log[d], undo[d], gone[d],
                               Sound(d), faults = 0 /\ crashes = 0)
  PROVE  IInv'
<1>1. d \in Dids /\ (overlaps = 0 => undo[d] = <<>>)
  BY Here
<1>2. /\ actor' = actor /\ root' = root /\ store' = store /\ gone' = gone /\ plc' = plc /\ log' = log
      /\ UNCHANGED <<faults, crashes, overlaps, litter>>
  BY DEF db, trouble
<1>3. /\ log[d] \in Seq(Event) /\ log' = [log EXCEPT ![d] = log[d]]
      /\ undo[d] \in Seq({"unroot", "unactor"}) /\ undo' = [undo EXCEPT ![d] = undo[d]]
      /\ plc' \in [Dids -> Handles \cup {None}]
      /\ actor' \in [Dids -> Row \cup {None}] /\ root' \in [Dids -> BOOLEAN]
      /\ store' \in [Dids -> {"none", "empty", "repo"}] /\ gone' \in [Dids -> BOOLEAN]
  BY <1>1, <1>2 DEF IInv, Types
<1>4. Saw(n, PointOf(n.todo), seen[r] \cup {View(actor[d]), View(actor'[d])})
  BY <1>2, SawMore
<1>5. overlaps = 0 => Facts(n, r, actor'[d], root'[d], store'[d], log[d], undo[d], gone'[d],
                            crashes = 0 /\ d \notin litter', faults' = 0 /\ crashes = 0)
  BY <1>2 DEF Sound
<1>6. \A e \in Dids \ {d} : actor'[e] = actor[e] /\ root'[e] = root[e] /\ store'[e] = store[e] /\ gone'[e] = gone[e]
  BY <1>2
<1>7. /\ overlaps = 0 /\ n.todo # <<>> /\ undo[d] # <<>> => n.op = "signup" /\ PointOf(n.todo) = "destroy"
      /\ req[r].did = d
      /\ Adds(r, log[d], log[d])
  BY <1>1, AddsNothing
<1>8. litter' \subseteq Dids /\ \A e \in Dids \ {d} : e \in litter' <=> e \in litter
  BY <1>2 DEF IInv, Types
<1> QED BY <1>1, <1>2, <1>3, <1>4, <1>5, <1>6, <1>7, <1>8, RequestMoves
LEMMA PassOn ==
  ASSUME IInv, NEW r \in Requests, req[r].todo # <<>>, Watch,
         UNCHANGED <<db, store, plc, log, trouble, gone>>, undo' = undo,
         NEW q, q = req[r], NEW d, d = q.did, NEW p, p = PointOf(q.todo), p # "destroy",
         NEW h, h = q.handle \/ h \in Handles, p = "find" /\ q.op = "activate" => h \in Handles,
         NEW x, x = q.got \/ p \in {"status", "make"}, p = "status" => x \in Statuses,
         NEW n, n = With(q, h, x, Tail(q.todo)), req' = [req EXCEPT ![r] = n],
         NEW t, t = PointOf(Tail(q.todo)),
         Saw(n, t, seen[r] \cup {View(actor[d])}),
         overlaps = 0 => Buried(n, r, t, actor[d], root[d], store[d], log[d], gone[d]),
         overlaps = 0 /\ Sound(d) => Housed(n, t, actor[d], store[d], undo[d]),
         overlaps = 0 /\ faults = 0 /\ crashes = 0 => Orderly(n, t, actor[d], root[d], store[d], log[d], undo[d])
  PROVE  IInv'
<1>1. n.did = d /\ PointOf(n.todo) = t
  BY DEF With
<1>2. Typed(q)
  BY Here
<1>3. Typed(n)
  BY <1>2, GoesTyped
<1>4. overlaps = 0 => Facts(n, r, actor[d], root[d], store[d], log[d], undo[d], gone[d],
                            Sound(d), faults = 0 /\ crashes = 0)
  BY <1>1 DEF Facts
<1> QED BY <1>1, <1>3, <1>4, ReadOn

\* What is in order, and owes no event, stays so when a request gives up.
LEMMA GivesUp ==
  ASSUME NEW q, NEW p \in {"free", "absent", "find", "auth", "lookup", "rename"},
         NEW n, n.op = q.op, NEW a, NEW ro, NEW st, NEW l, NEW u, Orderly(q, p, a, ro, st, l, u)
  PROVE  Orderly(n, "end", a, ro, st, l, u)
<1>1. u = <<>> /\ Whole(a, ro, st)
  BY DEF Orderly
<1>2. StatusTold(a, l) /\ HandleTold(a, l)
  BY DEF Orderly, OwesStatus, OwesHandle, SignUps
<1> QED BY <1>1, <1>2 DEF Orderly

LEMMA FreeKeeps ==
  ASSUME IInv, NEW r \in Requests, Free(r), Watch
  PROVE  IInv'
<1> DEFINE q == req[r]
           d == q.did
           p == PointOf(q.todo)
           t == PointOf(Tail(q.todo))
<1>1. q.todo # <<>> /\ p = "free" /\ UNCHANGED <<db, store, plc, log, trouble, gone>>
  BY DEF Free, ReadStep, At, PointOf
<1>2. /\ Typed(q) /\ Succ(q.op, p, t)
      /\ overlaps = 0 => /\ undo[d] = <<>>
                         /\ Facts(q, r, actor[d], root[d], store[d], log[d], undo[d], gone[d],
                                  Sound(d), faults = 0 /\ crashes = 0)
  BY <1>1, Here
<1>3. q.op \in Creations /\ t = "absent"
  BY <1>1, <1>2, AfterCreation
<1>4. CASE Pass(r) /\ undo' = undo
  <2> DEFINE n == With(q, q.handle, q.got, Tail(q.todo))
  <2>1. n.op = q.op /\ n.handle = q.handle /\ n.got = q.got /\ req' = [req EXCEPT ![r] = n]
    BY <1>4 DEF Pass, GoTo, With
  <2> HIDE DEF n
  <2>2. Saw(n, t, seen[r] \cup {View(actor[d])})
    BY <1>3, <2>1 DEF Saw, Creations, Renames
  <2> HIDE DEF d, p, t, q
  <2>3. overlaps = 0 => Buried(n, r, t, actor[d], root[d], store[d], log[d], gone[d])
    BY <1>1, <1>2, <1>3, <2>1 DEF Facts, Buried, Harmless, Creations
  <2>4. overlaps = 0 /\ Sound(d) => Housed(n, t, actor[d], store[d], undo[d])
    BY <1>1, <1>2, <1>3, <2>1 DEF Facts, Housed, p
  <2>5. overlaps = 0 /\ faults = 0 /\ crashes = 0 => Orderly(n, t, actor[d], root[d], store[d], log[d], undo[d])
    BY <1>1, <1>2, <1>3, <2>1 DEF Facts, Orderly, OwesStatus, OwesHandle, Creations, Renames, p
  <2> QED BY <1>1, <1>4, <2>1, <2>2, <2>3, <2>4, <2>5, PassOn DEF d, p, t, q, n
<1>5. CASE Throw(r)
  <2> DEFINE n == With(q, q.handle, q.got, Thrown(r))
  <2>1. n.op = q.op /\ PointOf(n.todo) = "end"
    BY <1>1 DEF With, Thrown, Outside, PointOf
  <2>2. undo' = undo
    BY <1>1, <1>5 DEF Throw, Unregisters, PointOf
  <2> QED BY <1>1, <1>2, <1>5, <2>1, <2>2, ThrowKeeps, GivesUp DEF Facts, trouble
<1> QED BY <1>4, <1>5 DEF Free, ReadStep

\* A request that gives up where it has nothing to clean up.
LEMMA QuitKeeps ==
  ASSUME IInv, NEW r \in Requests, req[r].todo # <<>>, Throw(r), Watch,
         UNCHANGED <<db, store, plc, log, trouble, gone>>,
         NEW p \in {"free", "absent", "find", "auth", "lookup", "rename"}, p = PointOf(req[r].todo)
  PROVE  IInv'
<1> DEFINE q == req[r]
           d == q.did
           t == PointOf(Tail(q.todo))
<1>1. /\ Typed(q) /\ Succ(q.op, p, t)
      /\ overlaps = 0 => /\ undo[d] = <<>>
                         /\ Facts(q, r, actor[d], root[d], store[d], log[d], undo[d], gone[d],
                                  Sound(d), faults = 0 /\ crashes = 0)
  BY Here
<1>2. p \in Outside \/ q.op \notin Creations
  BY <1>1, AfterChange DEF Outside, Creations, Renames
<1> DEFINE n == With(q, q.handle, q.got, Thrown(r))
<1>3. n.op = q.op /\ PointOf(n.todo) = "end"
  BY <1>2 DEF With, Thrown, PointOf
<1>4. undo' = undo
  BY DEF Throw, Unregisters, PointOf
<1> QED BY <1>1, <1>3, <1>4, ThrowKeeps, GivesUp DEF Facts, trouble

LEMMA AbsentKeeps ==
  ASSUME IInv, NEW r \in Requests, Absent(r), Watch
  PROVE  IInv'
<1> DEFINE q == req[r]
           d == q.did
           p == PointOf(q.todo)
           t == PointOf(Tail(q.todo))
<1>1. q.todo # <<>> /\ p = "absent" /\ UNCHANGED <<db, store, plc, log, trouble, gone>>
  BY DEF Absent, ReadStep, At, PointOf
<1>2. /\ Typed(q) /\ Succ(q.op, p, t)
      /\ overlaps = 0 => /\ undo[d] = <<>>
                         /\ Facts(q, r, actor[d], root[d], store[d], log[d], undo[d], gone[d],
                                  Sound(d), faults = 0 /\ crashes = 0)
  BY <1>1, Here
<1>3. q.op \in Creations /\ t = "make"
  BY <1>1, <1>2, AfterCreation
<1>4. CASE store[d] = "none" /\ Pass(r) /\ undo' = undo
  <2> DEFINE n == With(q, q.handle, q.got, Tail(q.todo))
  <2>1. n.op = q.op /\ n.handle = q.handle /\ n.got = q.got /\ req' = [req EXCEPT ![r] = n]
    BY <1>4 DEF Pass, GoTo, With
  <2> HIDE DEF n
  <2>2. Saw(n, t, seen[r] \cup {View(actor[d])})
    BY <1>3, <2>1 DEF Saw, Creations, Renames
  <2> HIDE DEF d, p, t, q
  <2>3. overlaps = 0 => Buried(n, r, t, actor[d], root[d], store[d], log[d], gone[d])
    BY <1>1, <1>2, <1>3, <2>1 DEF Facts, Buried, Harmless, Creations
  <2>4. overlaps = 0 /\ Sound(d) => Housed(n, t, actor[d], store[d], undo[d])
    BY <1>1, <1>2, <1>3, <2>1 DEF Facts, Housed, p
  <2>5. overlaps = 0 /\ faults = 0 /\ crashes = 0 => Orderly(n, t, actor[d], root[d], store[d], log[d], undo[d])
    <3>1. SUFFICES ASSUME overlaps = 0, faults = 0, crashes = 0
                   PROVE  Orderly(n, t, actor[d], root[d], store[d], log[d], undo[d])
      OBVIOUS
    <3>2. Orderly(q, p, actor[d], root[d], store[d], log[d], undo[d])
      BY <1>2, <3>1 DEF Facts, p
    <3>3. Whole(actor[d], root[d], store[d])
      BY <1>1, <3>2 DEF Orderly
    <3>4. root[d] \in BOOLEAN
      BY <1>2 DEF IInv, Types, Typed, d
    <3>5. actor[d] = None /\ ~root[d]
      BY <1>4, <3>3, <3>4 DEF Whole
    <3>6. StatusTold(actor[d], log[d]) /\ HandleTold(actor[d], log[d])
      BY <1>1, <3>2 DEF Orderly, OwesStatus, OwesHandle
    <3> QED BY <1>3, <1>4, <2>1, <3>2, <3>5, <3>6 DEF Orderly, Creations, Renames
  <2> QED BY <1>1, <1>4, <2>1, <2>2, <2>3, <2>4, <2>5, PassOn DEF d, p, t, q, n
<1>5. CASE Throw(r)
  BY <1>1, <1>5, QuitKeeps
<1> QED BY <1>4, <1>5 DEF Absent, ReadStep

LEMMA PresentKeeps ==
  ASSUME IInv, NEW r \in Requests, Present(r), Watch
  PROVE  IInv'
<1> DEFINE q == req[r]
           d == q.did
           p == PointOf(q.todo)
           t == PointOf(Tail(q.todo))
<1>1. q.todo # <<>> /\ p = "present" /\ UNCHANGED <<db, store, plc, log, trouble, gone>>
  BY DEF Present, ReadStep, At, PointOf
<1>2. /\ Typed(q) /\ Succ(q.op, p, t)
      /\ overlaps = 0 => /\ undo[d] = <<>>
                         /\ Facts(q, r, actor[d], root[d], store[d], log[d], undo[d], gone[d],
                                  Sound(d), faults = 0 /\ crashes = 0)
  BY <1>1, Here
<1>3. q.op = "signup" /\ t = "end"
  BY <1>1, <1>2, AfterCreation
<1>4. CASE Pass(r) /\ undo' = undo
  <2> DEFINE n == With(q, q.handle, q.got, Tail(q.todo))
  <2>1. n.op = q.op /\ n.handle = q.handle /\ n.got = q.got /\ req' = [req EXCEPT ![r] = n]
    BY <1>4 DEF Pass, GoTo, With
  <2> HIDE DEF n
  <2>2. Saw(n, t, seen[r] \cup {View(actor[d])})
    BY <1>3, NothingToSay
  <2> HIDE DEF d, p, t, q
  <2>3. overlaps = 0 => Buried(n, r, t, actor[d], root[d], store[d], log[d], gone[d])
    BY <1>1, <1>2, <1>3, <2>1 DEF Facts, Buried, Harmless, p
  <2>4. overlaps = 0 /\ Sound(d) => Housed(n, t, actor[d], store[d], undo[d])
    BY <1>1, <1>2, <1>3, <2>1 DEF Facts, Housed, p
  <2>5. overlaps = 0 /\ faults = 0 /\ crashes = 0 => Orderly(n, t, actor[d], root[d], store[d], log[d], undo[d])
    BY <1>1, <1>2, <1>3, <2>1 DEF Facts, Orderly, OwesStatus, OwesHandle, Creations, Renames, p
  <2> QED BY <1>1, <1>4, <2>1, <2>2, <2>3, <2>4, <2>5, PassOn DEF d, p, t, q, n
<1>5. CASE Status(actor[d]) # "active" /\ Throw(r)
  <2>1. ~(overlaps = 0 /\ faults = 0 /\ crashes = 0)
    BY <1>1, <1>2, <1>3, <1>5 DEF Facts, Orderly, SignUps
  <2> QED BY <1>1, <1>5, <2>1, ThrowKeeps DEF trouble
<1> QED BY <1>4, <1>5 DEF Present, ReadStep

LEMMA FindKeeps ==
  ASSUME IInv, NEW r \in Requests, Find(r), Watch
  PROVE  IInv'
<1> DEFINE q == req[r]
           d == q.did
           p == PointOf(q.todo)
           t == PointOf(Tail(q.todo))
<1>1. q.todo # <<>> /\ p = "find" /\ UNCHANGED <<db, store, plc, log, trouble, gone>>
  BY DEF Find, ReadStep, At, PointOf
<1>2. /\ Typed(q) /\ Succ(q.op, p, t) /\ d \in Dids
      /\ overlaps = 0 => /\ undo[d] = <<>>
                         /\ Facts(q, r, actor[d], root[d], store[d], log[d], undo[d], gone[d],
                                  Sound(d), faults = 0 /\ crashes = 0)
  BY <1>1, Here
<1>3. (q.op = "activate" /\ t = "on") \/ (q.op = "delete" /\ t = "destroy")
  BY <1>1, <1>2, AfterChange
<1>4. ASSUME actor[d] # None, q.op = "activate" => ~actor[d].down, undo' = undo,
             req' = [req EXCEPT ![r] = With(@, actor[d].handle, @.got, Tail(@.todo))]
      PROVE  IInv'
  <2> DEFINE h == actor[d].handle
             n == With(q, h, q.got, Tail(q.todo))
  <2>1. n.op = q.op /\ n.handle = h /\ n.got = q.got /\ req' = [req EXCEPT ![r] = n]
    BY <1>4 DEF With
  <2>2. h \in Handles /\ View(actor[d]).handle = h
    BY <1>2, <1>4 DEF IInv, Types, Row, View
  <2> HIDE DEF n, h
  <2>3. Saw(n, t, seen[r] \cup {View(actor[d])})
    BY <1>3, <2>1, <2>2 DEF Saw, SignUps, Renames
  <2>4. actor[d].handle = h
    BY DEF h
  <2> HIDE DEF d, p, t, q
  <2>5. overlaps = 0 => Buried(n, r, t, actor[d], root[d], store[d], log[d], gone[d])
    BY <1>1, <1>2, <1>3, <1>4, <2>1 DEF Facts, Buried, p
  <2>6. overlaps = 0 /\ Sound(d) => Housed(n, t, actor[d], store[d], undo[d])
    BY <1>1, <1>2, <1>3, <1>4, <2>1 DEF Facts, Housed, p
  <2>7. overlaps = 0 /\ faults = 0 /\ crashes = 0 => Orderly(n, t, actor[d], root[d], store[d], log[d], undo[d])
    BY <1>1, <1>2, <1>3, <1>4, <2>1, <2>4 DEF Facts, Orderly, OwesStatus, OwesHandle, Creations, Renames, SignUps, p
  <2> QED BY <1>1, <1>4, <2>1, <2>2, <2>3, <2>5, <2>6, <2>7, PassOn DEF d, p, t, q, n
<1>5. CASE Throw(r)
  BY <1>1, <1>5, QuitKeeps
<1> QED BY <1>4, <1>5 DEF Find, ReadStep

LEMMA AuthKeeps ==
  ASSUME IInv, NEW r \in Requests, Auth(r), Watch
  PROVE  IInv'
<1> DEFINE q == req[r]
           d == q.did
           p == PointOf(q.todo)
           t == PointOf(Tail(q.todo))
<1>1. q.todo # <<>> /\ p = "auth" /\ UNCHANGED <<db, store, plc, log, trouble, gone>>
  BY DEF Auth, ReadStep, At, PointOf
<1>2. /\ Typed(q) /\ Succ(q.op, p, t)
      /\ overlaps = 0 => /\ undo[d] = <<>>
                         /\ Facts(q, r, actor[d], root[d], store[d], log[d], undo[d], gone[d],
                                  Sound(d), faults = 0 /\ crashes = 0)
  BY <1>1, Here
<1>3. (q.op = "handle" /\ t = "lookup") \/ (q.op = "write" /\ t = "open")
  BY <1>1, <1>2, AfterChange
<1>4. CASE actor[d] # None /\ Pass(r) /\ undo' = undo
  <2> DEFINE n == With(q, q.handle, q.got, Tail(q.todo))
  <2>1. n.op = q.op /\ n.handle = q.handle /\ n.got = q.got /\ req' = [req EXCEPT ![r] = n]
    BY <1>4 DEF Pass, GoTo, With
  <2> HIDE DEF n
  <2>2. Saw(n, t, seen[r] \cup {View(actor[d])})
    BY <1>3, <2>1 DEF Saw, SignUps
  <2> HIDE DEF d, p, t, q
  <2>3. overlaps = 0 => Buried(n, r, t, actor[d], root[d], store[d], log[d], gone[d])
    BY <1>1, <1>2, <1>3, <1>4, <2>1 DEF Facts, Buried, p
  <2>4. overlaps = 0 /\ Sound(d) => Housed(n, t, actor[d], store[d], undo[d])
    BY <1>1, <1>2, <1>3, <1>4, <2>1 DEF Facts, Housed, p
  <2>5. overlaps = 0 /\ faults = 0 /\ crashes = 0 => Orderly(n, t, actor[d], root[d], store[d], log[d], undo[d])
    BY <1>1, <1>2, <1>3, <1>4, <2>1 DEF Facts, Orderly, OwesStatus, OwesHandle, Creations, Renames, SignUps, p
  <2> QED BY <1>1, <1>4, <2>1, <2>2, <2>3, <2>4, <2>5, PassOn DEF d, p, t, q, n
<1>5. CASE Throw(r)
  BY <1>1, <1>5, QuitKeeps
<1> QED BY <1>4, <1>5 DEF Auth, ReadStep

LEMMA OpenStoreKeeps ==
  ASSUME IInv, NEW r \in Requests, OpenStore(r), Watch
  PROVE  IInv'
<1> DEFINE q == req[r]
           d == q.did
           p == PointOf(q.todo)
           t == PointOf(Tail(q.todo))
<1>1. q.todo # <<>> /\ p \in {"read", "open"} /\ UNCHANGED <<db, store, plc, log, trouble, gone>>
  BY DEF OpenStore, ReadStep, At, PointOf
<1>2. /\ Typed(q) /\ Succ(q.op, p, t)
      /\ overlaps = 0 => /\ undo[d] = <<>>
                         /\ Facts(q, r, actor[d], root[d], store[d], log[d], undo[d], gone[d],
                                  Sound(d), faults = 0 /\ crashes = 0)
      /\ Saw(q, p, seen[r])
  BY <1>1, Here
<1>3. (p = "read" /\ q.op = "activate" /\ t = "status") \/ (p = "open" /\ q.op = "write" /\ t = "commit")
  BY <1>1, <1>2, AfterChange
<1>4. CASE Pass(r) /\ undo' = undo
  <2> DEFINE n == With(q, q.handle, q.got, Tail(q.todo))
  <2>1. n.op = q.op /\ n.handle = q.handle /\ n.got = q.got /\ req' = [req EXCEPT ![r] = n]
    BY <1>4 DEF Pass, GoTo, With
  <2> HIDE DEF n
  <2>2. Saw(n, t, seen[r] \cup {View(actor[d])})
    BY <1>2, <1>3, <2>1 DEF Saw, SignUps, Renames
  <2> HIDE DEF d, p, t, q
  <2>3. overlaps = 0 => Buried(n, r, t, actor[d], root[d], store[d], log[d], gone[d])
    BY <1>1, <1>2, <1>3, <2>1 DEF Facts, Buried, Harmless, p
  <2>4. overlaps = 0 /\ Sound(d) => Housed(n, t, actor[d], store[d], undo[d])
    BY <1>1, <1>2, <1>3, <2>1 DEF Facts, Housed, p, Creations
  <2>5. overlaps = 0 /\ faults = 0 /\ crashes = 0 => Orderly(n, t, actor[d], root[d], store[d], log[d], undo[d])
    BY <1>1, <1>2, <1>3, <2>1 DEF Facts, Orderly, OwesStatus, OwesHandle, Creations, Renames, SignUps, p
  <2> QED BY <1>1, <1>4, <2>1, <2>2, <2>3, <2>4, <2>5, PassOn DEF d, p, t, q, n
<1>5. CASE store[d] # "repo" /\ Throw(r)
  <2>1. ~(overlaps = 0 /\ faults = 0 /\ crashes = 0)
    BY <1>1, <1>2, <1>3, <1>5 DEF Facts, Orderly, Whole, Creations
  <2> QED BY <1>1, <1>5, <2>1, ThrowKeeps DEF trouble
<1> QED BY <1>4, <1>5 DEF OpenStore, ReadStep

LEMMA LookupKeeps ==
  ASSUME IInv, NEW r \in Requests, Lookup(r), Watch
  PROVE  IInv'
<1> DEFINE q == req[r]
           d == q.did
           p == PointOf(q.todo)
           t == PointOf(Tail(q.todo))
           found == Visible(q.op, q.handle)
<1>1. q.todo # <<>> /\ p = "lookup" /\ UNCHANGED <<db, store, plc, log, trouble, gone>>
  BY DEF Lookup, ReadStep, At, PointOf
<1>2. /\ Typed(q) /\ q.op \in DOMAIN Script /\ Succ(q.op, p, t)
      /\ overlaps = 0 => /\ undo[d] = <<>>
                         /\ Facts(q, r, actor[d], root[d], store[d], log[d], undo[d], gone[d],
                                  Sound(d), faults = 0 /\ crashes = 0)
  BY <1>1, Here
<1>3. q.op \in Renames /\ t = "plc"
  BY <1>1, <1>2, AfterChange
<1>4. CASE found = {} /\ Pass(r) /\ undo' = undo
  <2> DEFINE n == With(q, q.handle, q.got, Tail(q.todo))
  <2>1. n.op = q.op /\ n.handle = q.handle /\ n.got = q.got /\ req' = [req EXCEPT ![r] = n]
    BY <1>4 DEF Pass, GoTo, With
  <2> HIDE DEF n, found
  <2>2. Saw(n, t, seen[r] \cup {View(actor[d])})
    BY <1>3, <2>1 DEF Saw, Renames
  <2> HIDE DEF d, p, t, q
  <2>3. overlaps = 0 => Buried(n, r, t, actor[d], root[d], store[d], log[d], gone[d])
    BY <1>1, <1>2, <1>3, <2>1 DEF Facts, Buried, Harmless, Renames, p
  <2>4. overlaps = 0 /\ Sound(d) => Housed(n, t, actor[d], store[d], undo[d])
    BY <1>1, <1>2, <1>3, <2>1 DEF Facts, Housed, p
  <2>5. overlaps = 0 /\ faults = 0 /\ crashes = 0 => Orderly(n, t, actor[d], root[d], store[d], log[d], undo[d])
    BY <1>1, <1>2, <1>3, <2>1 DEF Facts, Orderly, OwesStatus, OwesHandle, Creations, Renames, SignUps, p
  <2> QED BY <1>1, <1>4, <2>1, <2>2, <2>3, <2>4, <2>5, PassOn DEF d, p, t, q, n
<1>5. CASE found # {} /\ found \subseteq {d} /\ GoTo(r, <<"identity">>) /\ undo' = undo
  <2> DEFINE n == With(q, q.handle, q.got, <<"identity">>)
  <2>1. /\ n.op = q.op /\ n.did = d /\ n.handle = q.handle /\ n.got = q.got /\ n.todo = <<"identity">>
        /\ n = [op |-> n.op, did |-> n.did, handle |-> n.handle, got |-> n.got, todo |-> n.todo]
        /\ req' = [req EXCEPT ![r] = n]
    BY <1>5 DEF GoTo, With
  <2>2. PointOf(n.todo) = "identity"
    BY <2>1 DEF PointOf
  <2>3. actor[d] # None /\ actor[d].handle = q.handle /\ View(actor[d]).handle = q.handle
    BY <1>5 DEF Visible, Holders, View
  <2> HIDE DEF n, found
  <2>4. Typed(n)
    BY <1>2, <1>3, <2>1, <2>2, Detours DEF Typed, Renames
  <2>5. Saw(n, "identity", seen[r] \cup {View(actor[d])})
    BY <1>3, <2>1, <2>3 DEF Saw, Renames, SignUps
  <2> HIDE DEF d, p, t, q
  <2>6. overlaps = 0 => Buried(n, r, "identity", actor[d], root[d], store[d], log[d], gone[d])
    BY <1>1, <1>2, <1>3, <2>1, <2>3 DEF Facts, Buried, p
  <2>7. overlaps = 0 /\ Sound(d) => Housed(n, "identity", actor[d], store[d], undo[d])
    BY <1>1, <1>2, <1>3, <2>1, <2>3 DEF Facts, Housed, p
  <2>8. overlaps = 0 /\ faults = 0 /\ crashes = 0
          => Orderly(n, "identity", actor[d], root[d], store[d], log[d], undo[d])
    BY <1>1, <1>2, <1>3, <2>1, <2>3 DEF Facts, Orderly, OwesStatus, OwesHandle, Creations, Renames, SignUps, p
  <2>9. overlaps = 0 => Facts(n, r, actor[d], root[d], store[d], log[d], undo[d], gone[d],
                              Sound(d), faults = 0 /\ crashes = 0)
    BY <2>2, <2>6, <2>7, <2>8 DEF Facts
  <2> QED BY <1>1, <1>5, <2>1, <2>2, <2>4, <2>5, <2>9, ReadOn DEF d, p, q
<1>6. CASE Throw(r)
  BY <1>1, <1>6, QuitKeeps
<1> QED BY <1>4, <1>5, <1>6 DEF Lookup, ReadStep, Pass

LEMMA StatusIs ==
  ASSUME NEW row \in Row \cup {None}
  PROVE  Status(row) \in Statuses /\ View(row).status = Status(row) /\ Status(None) = "deleted"
         /\ (row # None => Status(row) # "deleted")
BY DEF Status, Statuses, View, Row

LEMMA ReadStatusKeeps ==
  ASSUME IInv, NEW r \in Requests, ReadStatus(r), Watch
  PROVE  IInv'
<1> DEFINE q == req[r]
           d == q.did
           p == PointOf(q.todo)
           t == PointOf(Tail(q.todo))
           x == Status(actor[d])
           n == With(q, q.handle, x, Tail(q.todo))
<1>1. q.todo # <<>> /\ p = "status" /\ UNCHANGED <<db, store, plc, log, trouble, gone>> /\ undo' = undo
  BY DEF ReadStatus, ReadStep, At, PointOf
<1>2. /\ Typed(q) /\ Succ(q.op, p, t) /\ d \in Dids
      /\ overlaps = 0 => /\ undo[d] = <<>>
                         /\ Facts(q, r, actor[d], root[d], store[d], log[d], undo[d], gone[d],
                                  Sound(d), faults = 0 /\ crashes = 0)
      /\ Saw(q, p, seen[r])
  BY <1>1, Here
<1>3. q.op \in Changes \cup {"activate"} /\ t = "announce"
  BY <1>1, <1>2, AfterChange
<1>4. n.op = q.op /\ n.handle = q.handle /\ n.got = x /\ req' = [req EXCEPT ![r] = n]
  BY DEF With, ReadStatus, ReadStep, PassWith
<1>5. x \in Statuses /\ View(actor[d]).status = x /\ (actor[d] = None => x = "deleted") /\ x = Status(actor[d])
  BY <1>2, StatusIs DEF IInv, Types
<1> HIDE DEF n, x
<1>6. Saw(n, t, seen[r] \cup {View(actor[d])})
  BY <1>1, <1>2, <1>3, <1>4, <1>5 DEF Saw, SignUps, Renames, Changes
<1> HIDE DEF d, p, t, q
<1>7. overlaps = 0 => Buried(n, r, t, actor[d], root[d], store[d], log[d], gone[d])
  BY <1>1, <1>2, <1>3, <1>4, <1>5 DEF Facts, Buried, Harmless, p
<1>8. overlaps = 0 /\ Sound(d) => Housed(n, t, actor[d], store[d], undo[d])
  BY <1>1, <1>2, <1>3, <1>4 DEF Facts, Housed, p
<1>9. overlaps = 0 /\ faults = 0 /\ crashes = 0 => Orderly(n, t, actor[d], root[d], store[d], log[d], undo[d])
  BY <1>1, <1>2, <1>3, <1>4, <1>5 DEF Facts, Orderly, OwesStatus, OwesHandle, Creations, Renames, SignUps, Changes, p
<1> QED BY <1>1, <1>4, <1>5, <1>6, <1>7, <1>8, <1>9, PassOn DEF d, p, t, q, n
-----------------------------------------------------------------------------
(***************************************************************************)
(* The last event of a kind, and the last of a request.                    *)
(***************************************************************************)
LEMMA Least ==
  ASSUME NEW S \in SUBSET Nat, S # {}
  PROVE  \E x \in S : \A y \in S : x <= y
<1> DEFINE R == OpToRel(<, Nat)
<1>1. IsWellFoundedOn(R, Nat)
  BY NatLessThanWellFounded
<1>2. \A x, y \in Nat : <<y, x>> \in R <=> y < x
  BY DEF OpToRel
<1> HIDE DEF R
<1>3. PICK x \in S : \A y \in S : <<y, x>> \notin R
  BY <1>1, WFMin
<1>4. ASSUME NEW y \in S PROVE x <= y
  <2>1. x \in Nat /\ y \in Nat
    OBVIOUS
  <2>2. ~(y < x)
    BY <1>2, <1>3, <2>1
  <2> QED BY <2>1, <2>2
<1> QED BY <1>4

LEMMA Greatest ==
  ASSUME NEW n \in Nat, NEW S \in SUBSET (1..n), S # {}
  PROVE  \E x \in S : \A y \in S : y <= x
<1> DEFINE D == {n - y : y \in S}
<1>1. D \subseteq Nat /\ D # {}
  <2>1. \A y \in S : n - y \in Nat
    OBVIOUS
  <2> QED BY <2>1
<1>2. PICK z \in D : \A w \in D : z <= w
  BY <1>1, Least
<1>3. PICK x \in S : z = n - x
  OBVIOUS
<1>4. ASSUME NEW y \in S PROVE y <= x
  <2>1. n - x <= n - y
    BY <1>2, <1>3
  <2>2. x \in Nat /\ y \in Nat
    OBVIOUS
  <2> QED BY <2>1, <2>2
<1> QED BY <1>4

LEMMA MaxIs ==
  ASSUME NEW n \in Nat, NEW S \in SUBSET (1..n), S # {}
  PROVE  Max(S) \in S /\ \A y \in S : Max(S) >= y
<1>1. PICK x \in S : \A y \in S : y <= x
  BY Greatest
<1>2. \A y \in S : x >= y
  BY <1>1
<1> QED BY <1>2 DEF Max

LEMMA LastOfAppend ==
  ASSUME NEW l \in Seq(Event), NEW e, NEW k
  PROVE  LastOf(Append(l, e), k) = IF e.kind = k THEN e.is ELSE LastOf(l, k)
<1> DEFINE m == Append(l, e)
           told == {i \in DOMAIN l : l[i].kind = k}
           more == {i \in DOMAIN m : m[i].kind = k}
           n == Len(l) + 1
<1>1. /\ DOMAIN l = 1 .. Len(l) /\ Len(l) \in Nat /\ DOMAIN m = 1 .. n /\ m[n] = e
      /\ \A i \in 1 .. Len(l) : m[i] = l[i]
  <2>1. DOMAIN m = 1 .. n /\ m[n] = e
    <3>1. Len(m) = n
      OBVIOUS
    <3> QED OBVIOUS
  <2> QED BY <2>1
<1>2. /\ LastOf(m, k) = IF more = {} THEN None ELSE m[Max(more)].is
      /\ LastOf(l, k) = IF told = {} THEN None ELSE l[Max(told)].is
  BY DEF LastOf
<1> HIDE DEF m
<1>3. CASE e.kind = k
  <2>1. n \in more /\ more \in SUBSET (1 .. n) /\ n \in Nat
    BY <1>1, <1>3
  <2>2. Max(more) \in more /\ Max(more) >= n
    BY <2>1, MaxIs
  <2>3. Max(more) = n
    BY <2>1, <2>2
  <2> QED BY <1>1, <1>2, <1>3, <2>1, <2>3 DEF m
<1>4. CASE e.kind # k
  <2>1. more = told
    BY <1>1, <1>4
  <2>2. CASE told = {}
    BY <1>2, <1>4, <2>1, <2>2 DEF m
  <2>3. CASE told # {}
    <3>1. told \in SUBSET (1 .. Len(l))
      BY <1>1
    <3>2. Max(told) \in 1 .. Len(l)
      BY <1>1, <2>3, <3>1, MaxIs
    <3>3. m[Max(told)] = l[Max(told)]
      BY <1>1, <3>2
    <3> QED BY <1>2, <1>4, <2>1, <2>3, <3>3 DEF m
  <2> QED BY <2>2, <2>3
<1> QED BY <1>3, <1>4

LEMMA LastOfNone ==
  ASSUME NEW k
  PROVE  LastOf(<<>>, k) = None
BY DEF LastOf

LEMMA LastOfOne ==
  ASSUME NEW e \in Event, NEW k
  PROVE  LastOf(<<e>>, k) = IF e.kind = k THEN e.is ELSE None
<1>1. \A l \in Seq(Event) : LastOf(Append(l, e), k) = IF e.kind = k THEN e.is ELSE LastOf(l, k)
  BY LastOfAppend
<1>2. <<>> \in Seq(Event)
  OBVIOUS
<1>3. LastOf(Append(<<>>, e), k) = IF e.kind = k THEN e.is ELSE LastOf(<<>>, k)
  BY <1>1, <1>2, Zenon
<1>4. <<e>> = Append(<<>>, e)
  OBVIOUS
<1>5. LastOf(<<e>>, k) = IF e.kind = k THEN e.is ELSE LastOf(<<>>, k)
  BY <1>3, <1>4, Zenon
<1> QED BY <1>5, LastOfNone, Zenon

LEMMA OwnAppend ==
  ASSUME NEW l \in Seq(Event), NEW e, NEW r
  PROVE  /\ Own(Append(l, e), r) = IF e.by = r THEN Own(l, r) \cup {Len(l) + 1} ELSE Own(l, r)
         /\ DOMAIN Append(l, e) = DOMAIN l \cup {Len(l) + 1}
         /\ Append(l, e)[Len(l) + 1] = e
         /\ \A i \in DOMAIN l : Append(l, e)[i] = l[i]
<1>1. /\ DOMAIN Append(l, e) = DOMAIN l \cup {Len(l) + 1}
      /\ Append(l, e)[Len(l) + 1] = e
      /\ \A i \in DOMAIN l : Append(l, e)[i] = l[i]
      /\ Len(l) + 1 \notin DOMAIN l
  <2>1. DOMAIN l = 1 .. Len(l) /\ Len(l) \in Nat /\ Len(Append(l, e)) = Len(l) + 1
    OBVIOUS
  <2> QED BY <2>1
<1>2. Own(Append(l, e), r) = IF e.by = r THEN Own(l, r) \cup {Len(l) + 1} ELSE Own(l, r)
  <2> DEFINE m == Append(l, e)
             k == Len(l) + 1
  <2>1. DOMAIN m = DOMAIN l \cup {k} /\ m[k] = e /\ (\A i \in DOMAIN l : m[i] = l[i]) /\ k \notin DOMAIN l
    BY <1>1
  <2> HIDE DEF m, k
  <2>2. Own(m, r) = IF e.by = r THEN Own(l, r) \cup {k} ELSE Own(l, r)
    BY <2>1 DEF Own
  <2> QED BY <2>2 DEF m, k
<1> QED BY <1>1, <1>2

LEMMA SparedIs ==
  ASSUME NEW l \in Seq(Event), NEW r, Own(l, r) # {}
  PROVE  \E i \in Own(l, r) : Spared(l, r) = <<l[i]>> /\ l[i] \in Event
<1>1. Own(l, r) \in SUBSET (1 .. Len(l)) /\ Len(l) \in Nat
  BY DEF Own
<1>2. Max(Own(l, r)) \in Own(l, r)
  BY <1>1, MaxIs
<1> QED BY <1>1, <1>2 DEF Spared
-----------------------------------------------------------------------------
(***************************************************************************)
(* The writes.                                                             *)
(***************************************************************************)
\* Facts in a form that needs no look at the request's script.
\* A request q, for account d, goes on from p to t, as n.
Goes(r, q, d, p, t, x, n) ==
  /\ q = req[r] /\ q.todo # <<>> /\ d = q.did /\ p = PointOf(q.todo) /\ t = PointOf(Tail(q.todo))
  /\ p \notin {"find", "status"} /\ (x = q.got \/ p = "make")
  /\ n = With(q, q.handle, x, Tail(q.todo))

LEMMA WriteOn ==
  ASSUME IInv, NEW r \in Requests, Watch, UNCHANGED trouble, undo' = undo,
         NEW q, NEW d, NEW p, NEW t, NEW x, NEW n, Goes(r, q, d, p, t, x, n), req' = [req EXCEPT ![r] = n],
         plc' \in [Dids -> Handles \cup {None}],
         actor' \in [Dids -> Row \cup {None}], root' \in [Dids -> BOOLEAN],
         store' \in [Dids -> {"none", "empty", "repo"}], gone' \in [Dids -> BOOLEAN],
         NEW l \in Seq(Event), log' = [log EXCEPT ![d] = l],
         Adds(r, log[d], l),
         \A e \in Dids \ {d} : /\ actor'[e] = actor[e] /\ root'[e] = root[e]
                               /\ store'[e] = store[e] /\ gone'[e] = gone[e],
         Saw(n, t, seen[r] \cup {View(actor[d]), View(actor'[d])}),
         overlaps = 0 => Buried(n, r, t, actor'[d], root'[d], store'[d], l, gone'[d]),
         overlaps = 0 /\ Sound(d) => Housed(n, t, actor'[d], store'[d], undo[d]),
         overlaps = 0 /\ faults = 0 /\ crashes = 0
           => Orderly(n, t, actor'[d], root'[d], store'[d], l, undo[d])
  PROVE  IInv'
<1>1. n.did = d /\ n.op = q.op /\ n.todo = Tail(q.todo) /\ PointOf(n.todo) = t /\ req[r].did = d
  BY DEF With, Goes
<1>2. /\ Typed(q) /\ d \in Dids /\ Succ(q.op, p, t) /\ q.op \in DOMAIN Script
      /\ overlaps = 0 /\ undo[d] # <<>> => q.op = "signup" /\ p = "destroy"
  BY Here DEF Goes
<1>3. Typed(n)
  BY <1>2, GoesTyped DEF Goes
<1>4. overlaps = 0 => Facts(n, r, actor'[d], root'[d], store'[d], l, undo[d], gone'[d],
                            crashes = 0 /\ d \notin litter', faults' = 0 /\ crashes = 0)
  BY <1>1 DEF Facts, Sound, trouble
<1>5. overlaps = 0 /\ undo[d] # <<>> => n.todo = <<>>
  <2>1. overlaps = 0 /\ undo[d] # <<>> => t = "end"
    BY <1>2, AfterDeletion DEF Deletions
  <2> QED BY <1>1, <1>3, <2>1, PointIs
<1>6. /\ undo[d] \in Seq({"unroot", "unactor"}) /\ undo' = [undo EXCEPT ![d] = undo[d]]
      /\ UNCHANGED <<crashes, overlaps>> /\ faults' = faults
      /\ req[r].todo # <<>> /\ litter' = litter /\ litter \subseteq Dids
  BY <1>2 DEF IInv, Types, trouble, Goes
<1>7. /\ overlaps = 0 /\ n.todo # <<>> /\ undo[d] # <<>> => n.op = "signup" /\ PointOf(n.todo) = "destroy"
      /\ n.todo # <<>> => Saw(n, PointOf(n.todo), seen[r] \cup {View(actor[d]), View(actor'[d])})
  BY <1>1, <1>5
<1> HIDE DEF trouble
<1>8. /\ d \in Dids /\ req[r].did = d /\ Typed(n) /\ n.did = d /\ UNCHANGED <<crashes, overlaps>>
      /\ faults' = faults \/ (faults' = faults + 1 /\ Left > 0)
      /\ undo[d] \in Seq({"unroot", "unactor"}) /\ undo' = [undo EXCEPT ![d] = undo[d]]
      /\ req[r].todo # <<>>
      /\ litter' \subseteq Dids /\ \A e \in Dids \ {d} : e \in litter' <=> e \in litter
  BY <1>1, <1>2, <1>3, <1>6
<1> QED BY <1>8, <1>4, <1>7, RequestMoves

LEMMA MakeKeeps ==
  ASSUME IInv, NEW r \in Requests, Make(r), Watch
  PROVE  IInv'
<1> DEFINE q == req[r]
           d == q.did
           p == PointOf(q.todo)
           t == PointOf(Tail(q.todo))
           x == store[d]
           n == With(q, q.handle, x, Tail(q.todo))
<1>1. /\ q.todo # <<>> /\ p = "make" /\ UNCHANGED <<db, plc, log, trouble>> /\ undo' = undo
      /\ req' = [req EXCEPT ![r] = n]
  BY DEF Make, At, PointOf, PassWith
<1>2. /\ Typed(q) /\ Succ(q.op, p, t) /\ d \in Dids
      /\ overlaps = 0 => /\ undo[d] = <<>>
                         /\ Facts(q, r, actor[d], root[d], store[d], log[d], undo[d], gone[d],
                                  Sound(d), faults = 0 /\ crashes = 0)
  BY <1>1, Here
<1>3. q.op \in Creations /\ t = "repo"
  BY <1>1, <1>2, AfterCreation
<1>4. n.op = q.op /\ n.handle = q.handle /\ n.got = x
  BY DEF With
<1>5. /\ log[d] \in Seq(Event) /\ log' = [log EXCEPT ![d] = log[d]]
      /\ Adds(r, log[d], log[d])
      /\ plc' \in [Dids -> Handles \cup {None}]
      /\ actor' \in [Dids -> Row \cup {None}] /\ root' \in [Dids -> BOOLEAN]
      /\ actor' = actor /\ root' = root
  BY <1>1, <1>2, AddsNothing DEF IInv, Types, db
<1>6. /\ store' \in [Dids -> {"none", "empty", "repo"}] /\ gone' \in [Dids -> BOOLEAN]
      /\ store'[d] = IF store[d] = "none" THEN "empty" ELSE store[d]
      /\ gone'[d] = FALSE
      /\ \A e \in Dids \ {d} : /\ actor'[e] = actor[e] /\ root'[e] = root[e]
                               /\ store'[e] = store[e] /\ gone'[e] = gone[e]
  BY <1>2, <1>5 DEF Make, IInv, Types
<1> HIDE DEF n, x
<1>7. Saw(n, t, seen[r] \cup {View(actor[d]), View(actor'[d])})
  BY <1>3, <1>4 DEF Saw, Creations, Renames
<1> HIDE DEF d, p, t, q
<1>8. overlaps = 0 => Buried(n, r, t, actor'[d], root'[d], store'[d], log[d], gone'[d])
  BY <1>1, <1>2, <1>3, <1>4, <1>5, <1>6 DEF Facts, Buried, p
<1>9. overlaps = 0 /\ Sound(d) => Housed(n, t, actor'[d], store'[d], undo[d])
  BY <1>1, <1>2, <1>3, <1>4, <1>5, <1>6 DEF Facts, Housed, p
<1>10. overlaps = 0 /\ faults = 0 /\ crashes = 0
         => Orderly(n, t, actor'[d], root'[d], store'[d], log[d], undo[d])
  BY <1>1, <1>2, <1>3, <1>4, <1>5, <1>6 DEF Facts, Orderly, OwesStatus, OwesHandle, Creations, Renames, p
<1>11. Goes(r, q, d, p, t, x, n) /\ UNCHANGED trouble /\ undo' = undo /\ req' = [req EXCEPT ![r] = n]
  BY <1>1 DEF Goes, d, p, t, q, n
<1> QED BY <1>5, <1>6, <1>7, <1>8, <1>9, <1>10, <1>11, WriteOn

LEMMA CreateRepoKeeps ==
  ASSUME IInv, NEW r \in Requests, CreateRepo(r), Watch
  PROVE  IInv'
<1> DEFINE q == req[r]
           d == q.did
           p == PointOf(q.todo)
           t == PointOf(Tail(q.todo))
           n == With(q, q.handle, q.got, Tail(q.todo))
<1>1. q.todo # <<>> /\ p = "repo" /\ UNCHANGED <<db, plc, log, trouble, gone>>
  BY DEF CreateRepo, At, PointOf
<1>2. /\ Typed(q) /\ Succ(q.op, p, t) /\ d \in Dids
      /\ overlaps = 0 => /\ undo[d] = <<>>
                         /\ Facts(q, r, actor[d], root[d], store[d], log[d], undo[d], gone[d],
                                  Sound(d), faults = 0 /\ crashes = 0)
  BY <1>1, Here
<1>3. q.op \in Creations /\ t \in {"plc", "register"}
  BY <1>1, <1>2, AfterCreation DEF SignUps, Creations
<1>4. CASE store[d] = "empty" /\ store' = [store EXCEPT ![d] = "repo"] /\ Pass(r) /\ undo' = undo
  <2>1. n.op = q.op /\ n.handle = q.handle /\ n.got = q.got /\ req' = [req EXCEPT ![r] = n]
    BY <1>4 DEF With, Pass, GoTo
  <2>2. /\ log[d] \in Seq(Event) /\ log' = [log EXCEPT ![d] = log[d]]
      /\ Adds(r, log[d], log[d])
        /\ plc' \in [Dids -> Handles \cup {None}]
        /\ actor' \in [Dids -> Row \cup {None}] /\ root' \in [Dids -> BOOLEAN] /\ gone' \in [Dids -> BOOLEAN]
        /\ actor' = actor /\ root' = root /\ gone' = gone
    BY <1>1, <1>2, AddsNothing DEF IInv, Types, db
  <2>3. /\ store' \in [Dids -> {"none", "empty", "repo"}] /\ store'[d] = "repo"
        /\ \A e \in Dids \ {d} : /\ actor'[e] = actor[e] /\ root'[e] = root[e]
                                 /\ store'[e] = store[e] /\ gone'[e] = gone[e]
    BY <1>2, <1>4, <2>2 DEF IInv, Types
  <2> HIDE DEF n
  <2>4. Saw(n, t, seen[r] \cup {View(actor[d]), View(actor'[d])})
    BY <1>3, <2>1 DEF Saw, Creations, Renames
  <2> HIDE DEF d, p, t, q
  <2>5. overlaps = 0 => Buried(n, r, t, actor'[d], root'[d], store'[d], log[d], gone'[d])
    BY <1>1, <1>2, <1>3, <2>1, <2>2, <2>3 DEF Facts, Buried, Harmless, Creations, p
  <2>6. overlaps = 0 /\ Sound(d) => Housed(n, t, actor'[d], store'[d], undo[d])
    BY <1>1, <1>2, <1>3, <2>1, <2>2, <2>3 DEF Facts, Housed, p
  <2>7. overlaps = 0 /\ faults = 0 /\ crashes = 0
          => Orderly(n, t, actor'[d], root'[d], store'[d], log[d], undo[d])
    BY <1>1, <1>2, <1>3, <2>1, <2>2, <2>3 DEF Facts, Orderly, OwesStatus, OwesHandle, Creations, Renames, p
  <2>8. Goes(r, q, d, p, t, q.got, n) /\ UNCHANGED trouble /\ undo' = undo
    BY <1>1, <1>4 DEF Goes, d, p, t, q, n
  <2> QED BY <2>1, <2>2, <2>3, <2>4, <2>5, <2>6, <2>7, <2>8, WriteOn
<1>5. CASE store[d] # "empty" /\ Throw(r) /\ UNCHANGED store
  <2>1. ~(overlaps = 0 /\ faults = 0 /\ crashes = 0)
    BY <1>1, <1>2, <1>3, <1>5 DEF Facts, Orderly
  <2> QED BY <1>1, <1>5, <2>1, ThrowKeeps DEF trouble
<1> QED BY <1>4, <1>5 DEF CreateRepo

LEMMA DestroyKeeps ==
  ASSUME IInv, NEW r \in Requests, Destroy(r), Watch
  PROVE  IInv'
<1> DEFINE q == req[r]
           d == q.did
           p == PointOf(q.todo)
           t == PointOf(Tail(q.todo))
           n == With(q, q.handle, q.got, Tail(q.todo))
<1>1. q.todo # <<>> /\ p = "destroy" /\ UNCHANGED <<db, plc, log, undo, faults, crashes, overlaps, gone>>
  BY DEF Destroy, At, PointOf
<1>2. /\ Typed(q) /\ Succ(q.op, p, t) /\ d \in Dids /\ Saw(q, p, seen[r])
      /\ overlaps = 0 => /\ undo[d] # <<>> => q.op = "signup" /\ p = "destroy"
                         /\ Facts(q, r, actor[d], root[d], store[d], log[d], undo[d], gone[d],
                                  Sound(d), faults = 0 /\ crashes = 0)
  BY <1>1, Here
<1>3. (q.op \in Creations /\ t = "end") \/ (q.op \in Deletions /\ t = "unroot")
  BY <1>1, <1>2, AfterDeletion
<1>4. n.op = q.op /\ n.handle = q.handle /\ n.got = q.got /\ req' = [req EXCEPT ![r] = n]
  BY DEF With, Pass, GoTo, Destroy
<1>5. /\ log[d] \in Seq(Event) /\ log' = [log EXCEPT ![d] = log[d]]
      /\ Adds(r, log[d], log[d])
      /\ plc' \in [Dids -> Handles \cup {None}]
      /\ actor' \in [Dids -> Row \cup {None}] /\ root' \in [Dids -> BOOLEAN]
      /\ store' \in [Dids -> {"none", "empty", "repo"}] /\ gone' \in [Dids -> BOOLEAN]
  BY <1>1, <1>2, AddsNothing DEF IInv, Types, db, Destroy
<1>6. /\ store'[d] = "none" /\ actor' = actor /\ root' = root /\ gone' = gone
      /\ actor[d] \in Row \cup {None} /\ root[d] \in BOOLEAN
  BY <1>1, <1>2 DEF IInv, Types, db, Destroy
<1>7. \A e \in Dids \ {d} : /\ actor'[e] = actor[e] /\ root'[e] = root[e]
                           /\ store'[e] = store[e] /\ gone'[e] = gone[e]
  BY <1>1, <1>2 DEF IInv, Types, db, Destroy
<1> HIDE DEF n
<1>8. Saw(n, t, seen[r] \cup {View(actor[d]), View(actor'[d])})
  BY <1>1, <1>2, <1>3, <1>4, <1>6 DEF Saw, Creations, Renames, SignUps, Changes, Deletions, View, Status
<1> HIDE DEF d, p, t, q
<1>9. overlaps = 0 => Buried(n, r, t, actor'[d], root'[d], store'[d], log[d], gone'[d])
  BY <1>1, <1>2, <1>3, <1>4, <1>6 DEF Facts, Buried, Harmless, Creations, SignUps, Renames, Changes, Deletions, p
<1>10. Housed(n, t, actor'[d], store'[d], undo[d])
  BY <1>6 DEF Housed
<1>11. overlaps = 0 /\ faults = 0 /\ crashes = 0
        => Orderly(n, t, actor'[d], root'[d], store'[d], log[d], undo[d])
  BY <1>1, <1>2, <1>3, <1>4, <1>6 DEF Facts, Orderly, Whole, StatusTold, HandleTold, OwesStatus, OwesHandle, Creations, Renames, SignUps, Changes, Deletions, p
<1>12. n.did = d /\ n.todo = Tail(q.todo) /\ PointOf(n.todo) = t /\ req[r].did = d /\ req[r].todo # <<>>
  BY <1>1 DEF n, With, d, q, t
<1>13. Typed(n) /\ (n.todo # <<>> => t # "end")
  <2>1. Typed(n)
    BY <1>1, <1>2, GoesTyped DEF n, d, q, p
  <2> QED BY <1>12, <2>1, PointIs
<1>14. overlaps = 0 => Facts(n, r, actor'[d], root'[d], store'[d], log[d], undo[d], gone'[d],
                             crashes = 0 /\ d \notin litter', faults' = 0 /\ crashes = 0)
  BY <1>1, <1>9, <1>10, <1>11, <1>12 DEF Facts
<1>15. /\ undo[d] \in Seq({"unroot", "unactor"}) /\ undo' = [undo EXCEPT ![d] = undo[d]]
       /\ litter' \subseteq Dids /\ \A e \in Dids \ {d} : e \in litter' <=> e \in litter
  <2>1. litter' = litter \ {d}
    BY DEF Destroy, d, q
  <2> QED BY <1>1, <1>2, <2>1 DEF IInv, Types
<1>16. overlaps = 0 /\ n.todo # <<>> /\ undo[d] # <<>> => n.op = "signup" /\ PointOf(n.todo) = "destroy"
  BY <1>2, <1>3, <1>13 DEF Deletions
<1>17. /\ n.todo # <<>> => Saw(n, PointOf(n.todo), seen[r] \cup {View(actor[d]), View(actor'[d])})
       /\ UNCHANGED <<crashes, overlaps>> /\ faults' = faults
  BY <1>1, <1>8, <1>12
<1> QED BY <1>2, <1>4, <1>5, <1>7, <1>12, <1>13, <1>14, <1>15, <1>16, <1>17, RequestMoves

LEMMA UpdatePlcKeeps ==
  ASSUME IInv, NEW r \in Requests, UpdatePlc(r), Watch
  PROVE  IInv'
<1> DEFINE q == req[r]
           d == q.did
           p == PointOf(q.todo)
           t == PointOf(Tail(q.todo))
           n == With(q, q.handle, q.got, Tail(q.todo))
<1>1. q.todo # <<>> /\ p = "plc" /\ UNCHANGED <<db, store, log, trouble, gone>>
  BY DEF UpdatePlc, At, PointOf
<1>2. /\ Typed(q) /\ Succ(q.op, p, t) /\ d \in Dids /\ Saw(q, p, seen[r])
      /\ overlaps = 0 => /\ undo[d] # <<>> => q.op = "signup" /\ p = "destroy"
                         /\ Facts(q, r, actor[d], root[d], store[d], log[d], undo[d], gone[d],
                                  Sound(d), faults = 0 /\ crashes = 0)
  BY <1>1, Here
<1>3. (q.op \in SignUps /\ t = "register") \/ (q.op \in Renames /\ t = "rename")
  BY <1>1, <1>2, AfterShared
<1>4. q.handle \in Handles
  BY <1>2, <1>3 DEF Typed, Creations, SignUps
<1>5. n.op = q.op /\ n.handle = q.handle /\ n.got = q.got /\ req' = [req EXCEPT ![r] = n]
  BY DEF With, Pass, GoTo, UpdatePlc
<1>6. /\ log[d] \in Seq(Event) /\ log' = [log EXCEPT ![d] = log[d]]
      /\ Adds(r, log[d], log[d])
      /\ plc' \in [Dids -> Handles \cup {None}]
      /\ actor' \in [Dids -> Row \cup {None}] /\ root' \in [Dids -> BOOLEAN]
      /\ store' \in [Dids -> {"none", "empty", "repo"}] /\ gone' \in [Dids -> BOOLEAN]
  BY <1>1, <1>2, <1>4, AddsNothing DEF IInv, Types, db, UpdatePlc
<1>7. /\ actor' = actor /\ root' = root /\ store' = store /\ gone' = gone
      /\ actor[d] \in Row \cup {None} /\ root[d] \in BOOLEAN
  BY <1>1, <1>2, <1>4 DEF IInv, Types, db, UpdatePlc
<1>8. \A e \in Dids \ {d} : /\ actor'[e] = actor[e] /\ root'[e] = root[e]
                           /\ store'[e] = store[e] /\ gone'[e] = gone[e]
  BY <1>1, <1>2, <1>4 DEF IInv, Types, db, UpdatePlc
<1> HIDE DEF n
<1>9. Saw(n, t, seen[r] \cup {View(actor[d]), View(actor'[d])})
  BY <1>1, <1>2, <1>3, <1>5, <1>7, <1>4 DEF Saw, Creations, Renames, SignUps, Changes, Deletions, View, Status
<1> HIDE DEF d, p, t, q
<1>10. overlaps = 0 => Buried(n, r, t, actor'[d], root'[d], store'[d], log[d], gone'[d])
  BY <1>1, <1>2, <1>3, <1>5, <1>7, <1>4 DEF Facts, Buried, Harmless, Creations, SignUps, Renames, Changes, Deletions, p
<1>11. overlaps = 0 /\ Sound(d) => Housed(n, t, actor'[d], store'[d], undo[d])
  BY <1>1, <1>2, <1>3, <1>5, <1>7, <1>4 DEF Facts, Housed, Creations, SignUps, Renames, p
<1>12. overlaps = 0 /\ faults = 0 /\ crashes = 0
        => Orderly(n, t, actor'[d], root'[d], store'[d], log[d], undo[d])
  BY <1>1, <1>2, <1>3, <1>5, <1>7, <1>4 DEF Facts, Orderly, Whole, StatusTold, HandleTold, OwesStatus, OwesHandle, Creations, Renames, SignUps, Changes, Deletions, p
<1>13. Goes(r, q, d, p, t, q.got, n) /\ UNCHANGED trouble /\ undo' = undo
  BY <1>1 DEF Goes, d, p, t, q, n, UpdatePlc
<1> QED BY <1>5, <1>6, <1>8, <1>9, <1>10, <1>11, <1>12, <1>13, WriteOn

LEMMA UpdateRepoRootKeeps ==
  ASSUME IInv, NEW r \in Requests, UpdateRepoRoot(r), Watch
  PROVE  IInv'
<1> DEFINE q == req[r]
           d == q.did
           p == PointOf(q.todo)
           t == PointOf(Tail(q.todo))
           n == With(q, q.handle, q.got, Tail(q.todo))
<1>1. q.todo # <<>> /\ p = "root" /\ UNCHANGED <<actor, store, plc, log, trouble, gone>>
  BY DEF UpdateRepoRoot, At, PointOf
<1>2. /\ Typed(q) /\ Succ(q.op, p, t) /\ d \in Dids /\ Saw(q, p, seen[r])
      /\ overlaps = 0 => /\ undo[d] # <<>> => q.op = "signup" /\ p = "destroy"
                         /\ Facts(q, r, actor[d], root[d], store[d], log[d], undo[d], gone[d],
                                  Sound(d), faults = 0 /\ crashes = 0)
  BY <1>1, Here
<1>3. (q.op = "signup" /\ t = "present") \/ (q.op \in {"create", "migrate", "write"} /\ t = "end")
  BY <1>1, <1>2, AfterShared
<1>4. n.op = q.op /\ n.handle = q.handle /\ n.got = q.got /\ req' = [req EXCEPT ![r] = n]
  BY DEF With, Pass, GoTo, UpdateRepoRoot
<1>5. /\ log[d] \in Seq(Event) /\ log' = [log EXCEPT ![d] = log[d]]
      /\ Adds(r, log[d], log[d])
      /\ plc' \in [Dids -> Handles \cup {None}]
      /\ actor' \in [Dids -> Row \cup {None}] /\ root' \in [Dids -> BOOLEAN]
      /\ store' \in [Dids -> {"none", "empty", "repo"}] /\ gone' \in [Dids -> BOOLEAN]
  BY <1>1, <1>2, AddsNothing DEF IInv, Types, db, UpdateRepoRoot
<1>6. /\ root'[d] = TRUE /\ actor' = actor /\ store' = store /\ gone' = gone
      /\ actor[d] \in Row \cup {None} /\ root[d] \in BOOLEAN
  BY <1>1, <1>2 DEF IInv, Types, db, UpdateRepoRoot
<1>7. \A e \in Dids \ {d} : /\ actor'[e] = actor[e] /\ root'[e] = root[e]
                           /\ store'[e] = store[e] /\ gone'[e] = gone[e]
  BY <1>1, <1>2 DEF IInv, Types, db, UpdateRepoRoot
<1> HIDE DEF n
<1>8. Saw(n, t, seen[r] \cup {View(actor[d]), View(actor'[d])})
  BY <1>1, <1>2, <1>3, <1>4, <1>6 DEF Saw, Creations, Renames, SignUps, Changes, Deletions, View, Status
<1> HIDE DEF d, p, t, q
<1>9. overlaps = 0 => Buried(n, r, t, actor'[d], root'[d], store'[d], log[d], gone'[d])
  BY <1>1, <1>2, <1>3, <1>4, <1>6 DEF Facts, Buried, Harmless, Creations, SignUps, Renames, Changes, Deletions, p
<1>10. overlaps = 0 /\ Sound(d) => Housed(n, t, actor'[d], store'[d], undo[d])
  BY <1>1, <1>2, <1>3, <1>4, <1>6 DEF Facts, Housed, Creations, SignUps, Renames, p
<1>11. overlaps = 0 /\ faults = 0 /\ crashes = 0
        => Orderly(n, t, actor'[d], root'[d], store'[d], log[d], undo[d])
  BY <1>1, <1>2, <1>3, <1>4, <1>6 DEF Facts, Orderly, Whole, StatusTold, HandleTold, OwesStatus, OwesHandle, Creations, Renames, SignUps, Changes, Deletions, p
<1>12. Goes(r, q, d, p, t, q.got, n) /\ UNCHANGED trouble /\ undo' = undo
  BY <1>1 DEF Goes, d, p, t, q, n, UpdateRepoRoot
<1> QED BY <1>4, <1>5, <1>7, <1>8, <1>9, <1>10, <1>11, <1>12, WriteOn

LEMMA RegisterKeeps ==
  ASSUME IInv, NEW r \in Requests, Register(r), Watch
  PROVE  IInv'
<1> DEFINE q == req[r]
           d == q.did
           p == PointOf(q.todo)
           t == PointOf(Tail(q.todo))
           n == With(q, q.handle, q.got, Tail(q.todo))
<1>1. q.todo # <<>> /\ p = "register" /\ UNCHANGED <<store, plc, log, trouble, gone>>
  BY DEF Register, At, PointOf
<1>2. /\ Typed(q) /\ Succ(q.op, p, t) /\ d \in Dids /\ Saw(q, p, seen[r])
      /\ overlaps = 0 => /\ undo[d] # <<>> => q.op = "signup" /\ p = "destroy"
                         /\ Facts(q, r, actor[d], root[d], store[d], log[d], undo[d], gone[d],
                                  Sound(d), faults = 0 /\ crashes = 0)
  BY <1>1, Here
<1>3. (q.op \in SignUps /\ t = "identity") \/ (q.op = "migrate" /\ t = "root")
  BY <1>1, <1>2, AfterCreation
<1> DEFINE made == [handle |-> q.handle, down |-> FALSE, off |-> q.op = "migrate"]
<1>4. q.op \in Creations /\ made \in Row /\ made # None
  <2>1. q.op \in Creations
    BY <1>3 DEF SignUps, Creations
  <2>2. q.handle \in Handles
    BY <1>2, <2>1 DEF Typed
  <2>3. made \in Row
    BY <2>2 DEF Row
  <2> QED BY <2>1, <2>3, NoneAssumption
<1>5. /\ made.handle = q.handle /\ View(made).handle = q.handle
      /\ Status(made) = IF q.op = "migrate" THEN "deactivated" ELSE "active"
      /\ View(made).status = Status(made)
      /\ Status(None) = "deleted"
  BY <1>4 DEF View, Status
<1> HIDE DEF made
<1>6. CASE /\ actor[d] = None /\ actor' = [actor EXCEPT ![d] = made] /\ root' = [root EXCEPT ![d] = TRUE]
          /\ Pass(r) /\ undo' = undo
  <2>1. n.op = q.op /\ n.handle = q.handle /\ n.got = q.got /\ req' = [req EXCEPT ![r] = n]
    BY <1>6 DEF With, Pass, GoTo
  <2>2. /\ log[d] \in Seq(Event) /\ log' = [log EXCEPT ![d] = log[d]]
      /\ Adds(r, log[d], log[d])
        /\ plc' \in [Dids -> Handles \cup {None}]
        /\ actor' \in [Dids -> Row \cup {None}] /\ root' \in [Dids -> BOOLEAN]
        /\ store' \in [Dids -> {"none", "empty", "repo"}] /\ gone' \in [Dids -> BOOLEAN]
    BY <1>1, <1>2, <1>4, <1>5, <1>6, AddsNothing DEF IInv, Types, db
  <2>3. /\ actor'[d] = made /\ root'[d] = TRUE /\ store' = store /\ gone' = gone
        /\ actor[d] \in Row \cup {None} /\ root[d] \in BOOLEAN
    BY <1>1, <1>2, <1>4, <1>5, <1>6 DEF IInv, Types, db
  <2>4. \A e \in Dids \ {d} : /\ actor'[e] = actor[e] /\ root'[e] = root[e]
                             /\ store'[e] = store[e] /\ gone'[e] = gone[e]
    BY <1>1, <1>2, <1>4, <1>5, <1>6 DEF IInv, Types, db
  <2> HIDE DEF n
  <2>5. Saw(n, t, seen[r] \cup {View(actor[d]), View(actor'[d])})
    BY <1>1, <1>2, <1>3, <1>4, <1>5, <1>6, <2>1, <2>3 DEF Saw, Creations, Renames, SignUps, Changes, Deletions
  <2> HIDE DEF d, p, t, q
  <2>6. overlaps = 0 => Buried(n, r, t, actor'[d], root'[d], store'[d], log[d], gone'[d])
    BY <1>1, <1>2, <1>3, <1>4, <1>5, <1>6, <2>1, <2>3 DEF Facts, Buried, Harmless, Creations, SignUps, Renames, Changes, Deletions, p
  <2>7. overlaps = 0 /\ Sound(d) => Housed(n, t, actor'[d], store'[d], undo[d])
    BY <1>1, <1>2, <1>3, <1>4, <1>5, <1>6, <2>1, <2>3 DEF Facts, Housed, Creations, SignUps, Renames, p
  <2>8. overlaps = 0 /\ faults = 0 /\ crashes = 0
          => Orderly(n, t, actor'[d], root'[d], store'[d], log[d], undo[d])
    <3> SUFFICES ASSUME overlaps = 0, faults = 0, crashes = 0
                 PROVE  Orderly(n, t, actor'[d], root'[d], store'[d], log[d], undo[d])
      OBVIOUS
    <3>1. Orderly(q, p, None, root[d], store[d], log[d], undo[d])
      BY <1>2, <1>6 DEF Facts, p
    <3>2. undo[d] = <<>> /\ store[d] = "repo"
      BY <1>1, <1>4, <3>1 DEF Orderly
    <3>3. StatusTold(None, log[d]) /\ HandleTold(None, log[d])
      BY <1>1, <3>1 DEF Orderly, OwesStatus, OwesHandle
    <3>4. Whole(made, TRUE, "repo") /\ (q.op = "migrate" => StatusTold(made, log[d])) /\ HandleTold(made, log[d])
      BY <1>4, <1>5, <3>3 DEF Whole, StatusTold, HandleTold
    <3> QED BY <1>1, <1>3, <1>4, <1>5, <2>1, <2>3, <3>2, <3>4 DEF Orderly, OwesStatus, SignUps, Renames
  <2>9. Goes(r, q, d, p, t, q.got, n) /\ UNCHANGED trouble /\ undo' = undo
    BY <1>1, <1>6 DEF Goes, d, p, t, q, n
  <2> QED BY <2>1, <2>2, <2>4, <2>5, <2>6, <2>7, <2>8, <2>9, WriteOn
<1>7. CASE Throw(r) /\ UNCHANGED db
  <2> DEFINE m == With(q, q.handle, q.got, Thrown(r))
  <2>1. m.op = q.op /\ PointOf(m.todo) = "destroy"
    BY <1>1, <1>4 DEF With, Thrown, Outside, PointOf
  <2>2. undo' = undo
    BY <1>1, <1>7 DEF Throw, Unregisters, PointOf
  <2> HIDE DEF m
  <2>3. overlaps = 0 /\ faults = 0 /\ crashes = 0
          => Orderly(m, "destroy", actor[d], root[d], store[d], log[d], undo[d])
    BY <1>1, <1>2, <1>4, <2>1 DEF Facts, Orderly, OwesStatus, OwesHandle, SignUps, Creations, Renames
  <2> QED BY <1>1, <1>7, <2>1, <2>2, <2>3, ThrowKeeps DEF trouble, m
<1> QED BY <1>6, <1>7 DEF Register, made

LEMMA RenameKeeps ==
  ASSUME IInv, NEW r \in Requests, Rename(r), Watch
  PROVE  IInv'
<1> DEFINE q == req[r]
           d == q.did
           p == PointOf(q.todo)
           t == PointOf(Tail(q.todo))
           n == With(q, q.handle, q.got, Tail(q.todo))
<1>1. q.todo # <<>> /\ p = "rename" /\ UNCHANGED <<root, store, plc, log, trouble, gone>>
  BY DEF Rename, At, PointOf
<1>2. /\ Typed(q) /\ Succ(q.op, p, t) /\ d \in Dids /\ Saw(q, p, seen[r])
      /\ overlaps = 0 => /\ undo[d] # <<>> => q.op = "signup" /\ p = "destroy"
                         /\ Facts(q, r, actor[d], root[d], store[d], log[d], undo[d], gone[d],
                                  Sound(d), faults = 0 /\ crashes = 0)
  BY <1>1, Here
<1>3. q.op \in Renames /\ t = "identity"
  BY <1>1, <1>2, AfterChange
<1> DEFINE named == [actor[d] EXCEPT !.handle = q.handle]
<1>4. ASSUME actor[d] # None
      PROVE  /\ named \in Row /\ named # None /\ named.handle = q.handle
             /\ Status(named) = Status(actor[d]) /\ View(named).handle = q.handle
  <2>1. q.handle \in Handles /\ actor[d] \in Row
    BY <1>2, <1>3, <1>4 DEF Typed, IInv, Types
  <2>2. named = [handle |-> q.handle, down |-> actor[d].down, off |-> actor[d].off]
    BY <2>1 DEF Row
  <2>3. named \in Row
    BY <2>1, <2>2 DEF Row
  <2>4. named # None
    BY <2>3, NoneAssumption
  <2>5. named.handle = q.handle /\ named.down = actor[d].down /\ named.off = actor[d].off
    BY <2>2
  <2> HIDE DEF named
  <2> QED BY <1>4, <2>3, <2>4, <2>5 DEF Status, View
<1> HIDE DEF named
<1>5. CASE /\ actor[d] # None /\ actor' = [actor EXCEPT ![d] = named] /\ Pass(r) /\ undo' = undo
  <2>1. n.op = q.op /\ n.handle = q.handle /\ n.got = q.got /\ req' = [req EXCEPT ![r] = n]
    BY <1>5 DEF With, Pass, GoTo
  <2>2. /\ log[d] \in Seq(Event) /\ log' = [log EXCEPT ![d] = log[d]]
      /\ Adds(r, log[d], log[d])
        /\ plc' \in [Dids -> Handles \cup {None}]
        /\ actor' \in [Dids -> Row \cup {None}] /\ root' \in [Dids -> BOOLEAN]
        /\ store' \in [Dids -> {"none", "empty", "repo"}] /\ gone' \in [Dids -> BOOLEAN]
    BY <1>1, <1>2, <1>4, <1>5, AddsNothing DEF IInv, Types, db
  <2>3. /\ actor'[d] = named /\ root' = root /\ store' = store /\ gone' = gone
        /\ actor[d] \in Row \cup {None} /\ root[d] \in BOOLEAN
    BY <1>1, <1>2, <1>4, <1>5 DEF IInv, Types, db
  <2>4. \A e \in Dids \ {d} : /\ actor'[e] = actor[e] /\ root'[e] = root[e]
                             /\ store'[e] = store[e] /\ gone'[e] = gone[e]
    BY <1>1, <1>2, <1>4, <1>5 DEF IInv, Types, db
  <2> HIDE DEF n
  <2>5. Saw(n, t, seen[r] \cup {View(actor[d]), View(actor'[d])})
    BY <1>1, <1>2, <1>3, <1>4, <1>5, <2>1, <2>3 DEF Saw, Creations, Renames, SignUps, Changes, Deletions
  <2> HIDE DEF d, p, t, q
  <2>6. overlaps = 0 => Buried(n, r, t, actor'[d], root'[d], store'[d], log[d], gone'[d])
    BY <1>1, <1>2, <1>3, <1>4, <1>5, <2>1, <2>3 DEF Facts, Buried, Harmless, Creations, SignUps, Renames, Changes, Deletions, p
  <2>7. overlaps = 0 /\ Sound(d) => Housed(n, t, actor'[d], store'[d], undo[d])
    BY <1>1, <1>2, <1>3, <1>4, <1>5, <2>1, <2>3 DEF Facts, Housed, Creations, SignUps, Renames, p
  <2>8. overlaps = 0 /\ faults = 0 /\ crashes = 0
          => Orderly(n, t, actor'[d], root'[d], store'[d], log[d], undo[d])
    <3> SUFFICES ASSUME overlaps = 0, faults = 0, crashes = 0
                 PROVE  Orderly(n, t, actor'[d], root'[d], store'[d], log[d], undo[d])
      OBVIOUS
    <3>1. Orderly(q, p, actor[d], root[d], store[d], log[d], undo[d])
      BY <1>2 DEF Facts, p
    <3>2. undo[d] = <<>> /\ Whole(actor[d], root[d], store[d]) /\ StatusTold(actor[d], log[d])
      BY <1>1, <1>3, <3>1 DEF Orderly, Renames, Creations, SignUps, OwesStatus
    <3>3. Whole(named, root[d], store[d]) /\ StatusTold(named, log[d])
      BY <1>4, <1>5, <3>2 DEF Whole, StatusTold
    <3> QED BY <1>1, <1>3, <1>4, <1>5, <2>1, <2>3, <3>2, <3>3 DEF Orderly, OwesHandle, SignUps, Renames, Creations
  <2>9. Goes(r, q, d, p, t, q.got, n) /\ UNCHANGED trouble /\ undo' = undo
    BY <1>1, <1>5 DEF Goes, d, p, t, q, n
  <2> QED BY <2>1, <2>2, <2>4, <2>5, <2>6, <2>7, <2>8, <2>9, WriteOn
<1>6. CASE Throw(r) /\ UNCHANGED actor
  <2>1. UNCHANGED <<db, store, plc, log, trouble, gone>>
    BY <1>1, <1>6 DEF db
  <2> QED BY <1>1, <1>6, <2>1, QuitKeeps
<1> QED BY <1>5, <1>6 DEF Rename, named

LEMMA SetStatusKeeps ==
  ASSUME IInv, NEW r \in Requests, SetStatus(r), Watch
  PROVE  IInv'
<1> DEFINE q == req[r]
           d == q.did
           p == PointOf(q.todo)
           t == PointOf(Tail(q.todo))
           n == With(q, q.handle, q.got, Tail(q.todo))
<1>1. q.todo # <<>> /\ p \in {"on", "off", "down", "up"} /\ UNCHANGED <<root, store, plc, log, trouble, gone>>
  BY DEF SetStatus, At, PointOf, SetRow
<1>2. /\ Typed(q) /\ Succ(q.op, p, t) /\ d \in Dids /\ Saw(q, p, seen[r])
      /\ overlaps = 0 => /\ undo[d] # <<>> => q.op = "signup" /\ p = "destroy"
                         /\ Facts(q, r, actor[d], root[d], store[d], log[d], undo[d], gone[d],
                                  Sound(d), faults = 0 /\ crashes = 0)
  BY <1>1, Here
<1>3. (p = "on" /\ q.op = "activate" /\ t = "read") \/ (q.op \in Changes /\ t = "status")
  BY <1>1, <1>2, AfterChange
<1>4. PICK row \in Row \cup {None} :
        /\ actor' = [actor EXCEPT ![d] = row] /\ (row = None <=> actor[d] = None)
        /\ row # None => row.handle = actor[d].handle
        /\ row # None /\ p = "on" => ~row.off /\ row.down = actor[d].down
  <2>1. actor = [e \in Dids |-> actor[e]] /\ actor[d] \in Row \cup {None}
    BY <1>2 DEF IInv, Types
  <2>2. CASE actor[d] = None
    <3>1. actor' = [actor EXCEPT ![d] = None]
      BY <2>2 DEF SetStatus, SetRow
    <3> QED BY <2>2, <3>1
  <2>3. CASE actor[d] # None
    <3> DEFINE a == actor[d]
    <3>1. a \in Row
      BY <2>1, <2>3
    <3>2. \/ actor' = [actor EXCEPT ![d] = [a EXCEPT !.off = FALSE]]
          \/ p # "on" /\ actor' = [actor EXCEPT ![d] = [a EXCEPT !.off = TRUE]]
          \/ p # "on" /\ actor' = [actor EXCEPT ![d] = [a EXCEPT !.down = TRUE]]
          \/ p # "on" /\ actor' = [actor EXCEPT ![d] = [a EXCEPT !.down = FALSE]]
      BY <2>3 DEF SetStatus, SetRow, At, PointOf
    <3> HIDE DEF a
    <3>3. \A b : b \in {[a EXCEPT !.off = FALSE], [a EXCEPT !.off = TRUE],
                        [a EXCEPT !.down = FALSE], [a EXCEPT !.down = TRUE]} => b \in Row /\ b.handle = a.handle
      BY <3>1 DEF Row
    <3>4. \A b : b = [a EXCEPT !.off = FALSE] => ~b.off /\ b.down = a.down
      BY <3>1 DEF Row
    <3>5. PICK b : /\ b \in {[a EXCEPT !.off = FALSE], [a EXCEPT !.off = TRUE],
                             [a EXCEPT !.down = FALSE], [a EXCEPT !.down = TRUE]}
                   /\ actor' = [actor EXCEPT ![d] = b] /\ (p = "on" => b = [a EXCEPT !.off = FALSE])
      BY <3>2, Zenon
    <3>6. b \in Row /\ b.handle = a.handle /\ (p = "on" => ~b.off /\ b.down = a.down) /\ b # None
      BY <3>3, <3>4, <3>5, NoneAssumption
    <3> QED BY <2>3, <3>5, <3>6 DEF a
  <2> QED BY <2>2, <2>3
<1>5. (row # None => View(row).handle = row.handle) /\ Status(None) = "deleted"
  BY DEF View, Status
<1>6. n.op = q.op /\ n.handle = q.handle /\ n.got = q.got /\ req' = [req EXCEPT ![r] = n]
  BY DEF With, Pass, GoTo, SetStatus, SetRow
<1>7. /\ log[d] \in Seq(Event) /\ log' = [log EXCEPT ![d] = log[d]]
      /\ Adds(r, log[d], log[d])
      /\ plc' \in [Dids -> Handles \cup {None}]
      /\ actor' \in [Dids -> Row \cup {None}] /\ root' \in [Dids -> BOOLEAN]
      /\ store' \in [Dids -> {"none", "empty", "repo"}] /\ gone' \in [Dids -> BOOLEAN]
  BY <1>1, <1>2, <1>4, AddsNothing DEF IInv, Types, db, SetStatus, SetRow
<1>8. /\ actor'[d] = row /\ root' = root /\ store' = store /\ gone' = gone
      /\ actor[d] \in Row \cup {None} /\ root[d] \in BOOLEAN
  BY <1>1, <1>2, <1>4 DEF IInv, Types, db, SetStatus, SetRow
<1>9. \A e \in Dids \ {d} : /\ actor'[e] = actor[e] /\ root'[e] = root[e]
                           /\ store'[e] = store[e] /\ gone'[e] = gone[e]
  BY <1>1, <1>2, <1>4 DEF IInv, Types, db, SetStatus, SetRow
<1> HIDE DEF n
<1>10. Saw(n, t, seen[r] \cup {View(actor[d]), View(actor'[d])})
  BY <1>1, <1>2, <1>3, <1>4, <1>5, <1>6, <1>8 DEF Saw, Creations, Renames, SignUps, Changes, Deletions
<1> HIDE DEF d, p, t, q
<1>11. overlaps = 0 => Buried(n, r, t, actor'[d], root'[d], store'[d], log[d], gone'[d])
  BY <1>1, <1>2, <1>3, <1>4, <1>5, <1>6, <1>8 DEF Facts, Buried, Harmless, Creations, SignUps, Renames, Changes, Deletions, p
<1>12. overlaps = 0 /\ Sound(d) => Housed(n, t, actor'[d], store'[d], undo[d])
  BY <1>1, <1>2, <1>3, <1>4, <1>5, <1>6, <1>8 DEF Facts, Housed, Creations, SignUps, Renames, p
<1>13. overlaps = 0 /\ faults = 0 /\ crashes = 0
        => Orderly(n, t, actor'[d], root'[d], store'[d], log[d], undo[d])
  <2> SUFFICES ASSUME overlaps = 0, faults = 0, crashes = 0
               PROVE  Orderly(n, t, actor'[d], root'[d], store'[d], log[d], undo[d])
    OBVIOUS
  <2>1. Orderly(q, p, actor[d], root[d], store[d], log[d], undo[d])
    BY <1>2 DEF Facts, p
  <2>2. undo[d] = <<>> /\ Whole(actor[d], root[d], store[d]) /\ HandleTold(actor[d], log[d])
        /\ (q.op = "activate" => actor[d] # None /\ ~actor[d].down /\ actor[d].handle = q.handle)
    BY <1>1, <1>3, <2>1 DEF Orderly, Renames, Creations, Changes, OwesHandle
  <2>3. Whole(row, root[d], store[d]) /\ HandleTold(row, log[d])
    BY <1>4, <2>2 DEF Whole, HandleTold
  <2> QED BY <1>1, <1>3, <1>4, <1>6, <1>8, <2>2, <2>3 DEF Orderly, OwesStatus, SignUps, Renames, Creations, Changes
<1>14. Goes(r, q, d, p, t, q.got, n) /\ UNCHANGED trouble /\ undo' = undo
  BY <1>1 DEF Goes, d, p, t, q, n, SetStatus, SetRow
<1> QED BY <1>6, <1>7, <1>9, <1>10, <1>11, <1>12, <1>13, <1>14, WriteOn

LEMMA DeleteRowsKeeps ==
  ASSUME IInv, NEW r \in Requests, DeleteRows(r), Watch
  PROVE  IInv'
<1> DEFINE q == req[r]
           d == q.did
           p == PointOf(q.todo)
           t == PointOf(Tail(q.todo))
           n == With(q, q.handle, q.got, Tail(q.todo))
<1>1. q.todo # <<>> /\ p \in {"unroot", "unactor"} /\ UNCHANGED <<store, plc, log, trouble, gone>>
  BY DEF DeleteRows, At, PointOf
<1>2. /\ Typed(q) /\ Succ(q.op, p, t) /\ d \in Dids /\ Saw(q, p, seen[r])
      /\ overlaps = 0 => /\ undo[d] # <<>> => q.op = "signup" /\ p = "destroy"
                         /\ Facts(q, r, actor[d], root[d], store[d], log[d], undo[d], gone[d],
                                  Sound(d), faults = 0 /\ crashes = 0)
  BY <1>1, Here
<1>3. q.op \in Deletions /\ (p = "unroot" => t = "unactor") /\ (p = "unactor" => t = "tombstone")
  BY <1>1, <1>2, AfterDeletion
<1>4. \/ p = "unroot" /\ root' = [root EXCEPT ![d] = FALSE] /\ actor' = actor
      \/ p = "unactor" /\ actor' = [actor EXCEPT ![d] = None] /\ root' = root
  BY <1>1 DEF DeleteRows, DeleteRow, At, PointOf
<1>5. View(None).status = "deleted" /\ undo[d] \in Seq({"unroot", "unactor"})
  BY <1>2 DEF View, Status, IInv, Types
<1>6. n.op = q.op /\ n.handle = q.handle /\ n.got = q.got /\ req' = [req EXCEPT ![r] = n]
  BY DEF With, Pass, GoTo, DeleteRows, DeleteRow
<1>7. /\ log[d] \in Seq(Event) /\ log' = [log EXCEPT ![d] = log[d]]
      /\ Adds(r, log[d], log[d])
      /\ plc' \in [Dids -> Handles \cup {None}]
      /\ actor' \in [Dids -> Row \cup {None}] /\ root' \in [Dids -> BOOLEAN]
      /\ store' \in [Dids -> {"none", "empty", "repo"}] /\ gone' \in [Dids -> BOOLEAN]
  BY <1>1, <1>2, <1>4, AddsNothing DEF IInv, Types, db, DeleteRows, DeleteRow
<1>8. /\ (p = "unroot" => ~root'[d] /\ actor'[d] = actor[d])
      /\ (p = "unactor" => actor'[d] = None /\ root'[d] = root[d])
      /\ store' = store /\ gone' = gone
      /\ actor[d] \in Row \cup {None} /\ root[d] \in BOOLEAN
  BY <1>1, <1>2, <1>4 DEF IInv, Types, db, DeleteRows, DeleteRow
<1>9. \A e \in Dids \ {d} : /\ actor'[e] = actor[e] /\ root'[e] = root[e]
                           /\ store'[e] = store[e] /\ gone'[e] = gone[e]
  BY <1>1, <1>2, <1>4 DEF IInv, Types, db, DeleteRows, DeleteRow
<1> HIDE DEF n
<1>10. Saw(n, t, seen[r] \cup {View(actor[d]), View(actor'[d])})
  BY <1>1, <1>2, <1>3, <1>5, <1>6, <1>8 DEF Saw, Creations, Renames, SignUps, Changes, Deletions
<1> HIDE DEF d, p, t, q
<1>11. overlaps = 0 => Buried(n, r, t, actor'[d], root'[d], store'[d], log[d], gone'[d])
  BY <1>1, <1>2, <1>3, <1>5, <1>6, <1>8 DEF Facts, Buried, Harmless, Creations, SignUps, Renames, Changes, Deletions, p
<1>12. overlaps = 0 /\ Sound(d) => Housed(n, t, actor'[d], store'[d], undo[d])
  BY <1>1, <1>2, <1>3, <1>5, <1>6, <1>8 DEF Facts, Buried, Housed, Creations, SignUps, Renames, p
<1>13. overlaps = 0 /\ faults = 0 /\ crashes = 0
        => Orderly(n, t, actor'[d], root'[d], store'[d], log[d], undo[d])
  BY <1>1, <1>2, <1>3, <1>5, <1>6, <1>8 DEF Facts, Orderly, Whole, StatusTold, HandleTold, OwesStatus, OwesHandle, Creations, Renames, SignUps, Changes, Deletions, p
<1>14. Goes(r, q, d, p, t, q.got, n) /\ UNCHANGED trouble /\ undo' = undo
  BY <1>1 DEF Goes, d, p, t, q, n, DeleteRows, DeleteRow
<1> QED BY <1>6, <1>7, <1>9, <1>10, <1>11, <1>12, <1>13, <1>14, WriteOn

LEMMA EventIs ==
  ASSUME NEW r \in Requests
  PROVE  /\ \A s \in Statuses : [kind |-> "account", is |-> s, by |-> r] \in Event
         /\ \A h \in Handles : [kind |-> "identity", is |-> h, by |-> r] \in Event
         /\ [kind |-> "commit", is |-> None, by |-> r] \in Event
         /\ [kind |-> "sync", is |-> None, by |-> r] \in Event
<1>1. \A s \in Statuses : [kind |-> "account", is |-> s, by |-> r] \in Event
  BY DEF Event
<1>2. \A h \in Handles : [kind |-> "identity", is |-> h, by |-> r] \in Event
  BY DEF Event
<1>3. /\ [kind |-> "commit", is |-> None, by |-> r] \in Event
      /\ [kind |-> "sync", is |-> None, by |-> r] \in Event
  BY DEF Event
<1> QED BY <1>1, <1>2, <1>3

\* What each step of the sequencer says.
Says(q, p, e) ==
  \/ p = "active" /\ e.kind = "account" /\ e.is = "active"
  \/ p = "announce" /\ e.kind = "account" /\ e.is = q.got
  \/ p = "tombstone" /\ e.kind = "account" /\ e.is = "deleted"
  \/ p = "identity" /\ e.kind = "identity" /\ e.is = q.handle
  \/ p = "commit" /\ e.kind = "commit"
  \/ p = "sync" /\ e.kind = "sync"

LEMMA Sequenced ==
  ASSUME NEW r \in Requests, Sequence(r), Typed(req[r]), NEW q, q = req[r], log \in [Dids -> Seq(Event)]
  PROVE  /\ q.todo # <<>> /\ Pass(r) /\ UNCHANGED <<db, store, plc, trouble, gone>> /\ undo' = undo
         /\ PointOf(q.todo) \in {"active", "announce", "tombstone", "identity", "commit", "sync"}
         /\ \E e \in Event : /\ Says(q, PointOf(q.todo), e) /\ e.by = r
                             /\ log' = [log EXCEPT ![q.did] = Append(log[q.did], e)]
<1> DEFINE p == PointOf(q.todo)
<1>1. q.todo # <<>> /\ Pass(r) /\ UNCHANGED <<db, store, plc, trouble, gone>> /\ undo' = undo
      /\ p = Head(q.todo)
  BY DEF Sequence, Emit, At, PointOf
<1>2. p = "announce" => q.got \in Statuses
  BY DEF Typed
<1>3. p = "identity" => q.handle \in Handles
  <2>1. Succ(q.op, p, PointOf(Tail(q.todo)))
    BY <1>1, Along, PointIs DEF Typed
  <2>2. p = "identity" => q.op \in Creations \cup Renames \cup {"activate"}
    BY <2>1, AfterShared DEF SignUps, Creations
  <2> QED BY <2>2 DEF Typed
<1>4. PICK k, x :
        /\ log' = [log EXCEPT ![q.did] = Append(@, [kind |-> k, is |-> x, by |-> r])]
        /\ \/ p = "active" /\ k = "account" /\ x = "active"
           \/ p = "announce" /\ k = "account" /\ x = q.got
           \/ p = "tombstone" /\ k = "account" /\ x = "deleted"
           \/ p = "identity" /\ k = "identity" /\ x = q.handle
           \/ p = "commit" /\ k = "commit" /\ x = None
           \/ p = "sync" /\ k = "sync" /\ x = None
  BY <1>1 DEF Sequence, Emit, At
<1> DEFINE e == [kind |-> k, is |-> x, by |-> r]
<1>5. e \in Event
  BY <1>2, <1>3, <1>4, EventIs DEF Statuses
<1>6. e.kind = k /\ e.is = x /\ e.by = r
  OBVIOUS
<1>7. log' = [log EXCEPT ![q.did] = Append(log[q.did], e)]
  BY <1>4
<1> HIDE DEF e, p
<1>8. Says(q, p, e) /\ p \in {"active", "announce", "tombstone", "identity", "commit", "sync"}
  BY <1>4, <1>6 DEF Says
<1> QED BY <1>1, <1>5, <1>6, <1>7, <1>8 DEF p

LEMMA OnlyDeletedStays ==
  ASSUME NEW l \in Seq(Event), OnlyDeleted(l), NEW e \in Event, e.kind = "account", e.is = "deleted"
  PROVE  OnlyDeleted(Append(l, e))
<1>1. Append(l, e) # <<>>
  <2>1. DOMAIN Append(l, e) # {} /\ DOMAIN <<>> = {}
    BY OwnAppend
  <2> QED BY <2>1, Zenon
<1>2. ASSUME NEW i \in DOMAIN Append(l, e)
      PROVE  Append(l, e)[i].kind = "account" /\ Append(l, e)[i].is = "deleted"
  BY <1>2, OwnAppend DEF OnlyDeleted
<1> QED BY <1>1, <1>2 DEF OnlyDeleted

LEMMA SequenceKeeps ==
  ASSUME IInv, NEW r \in Requests, Sequence(r), Watch
  PROVE  IInv'
<1> DEFINE q == req[r]
           d == q.did
           p == PointOf(q.todo)
           t == PointOf(Tail(q.todo))
           n == With(q, q.handle, q.got, Tail(q.todo))
<1>1. Typed(q) /\ d \in Dids /\ log \in [Dids -> Seq(Event)]
  <2>1. q.todo # <<>>
    BY DEF Sequence, Emit, At
  <2> QED BY <2>1, Here DEF IInv, Types
<1>2. /\ q.todo # <<>> /\ Pass(r) /\ UNCHANGED <<db, store, plc, trouble, gone>> /\ undo' = undo
      /\ p \in {"active", "announce", "tombstone", "identity", "commit", "sync"}
  BY <1>1, Sequenced
<1>3. PICK e \in Event : Says(q, p, e) /\ e.by = r /\ log' = [log EXCEPT ![d] = Append(log[d], e)]
  BY <1>1, Sequenced
<1>4. /\ Succ(q.op, p, t) /\ Saw(q, p, seen[r])
      /\ overlaps = 0 => /\ undo[d] = <<>>
                         /\ Facts(q, r, actor[d], root[d], store[d], log[d], undo[d], gone[d],
                                  Sound(d), faults = 0 /\ crashes = 0)
  BY <1>2, Here
<1>5. /\ p = "active" => q.op \in SignUps /\ t = "commit"
      /\ p = "announce" => (q.op = "activate" /\ t = "identity") \/ (q.op \in Changes /\ t = "end")
      /\ p = "tombstone" => q.op \in Deletions /\ t = "purge"
      /\ p = "identity" => \/ q.op \in SignUps /\ t = "active"
                           \/ q.op = "activate" /\ t = "sync"
                           \/ q.op \in Renames /\ t = "end"
      /\ p = "commit" => (q.op \in SignUps /\ t = "sync") \/ (q.op = "write" /\ t = "root")
      /\ p = "sync" => (q.op \in SignUps /\ t = "root") \/ (q.op = "activate" /\ t = "end")
  BY <1>4, AfterCreation, AfterShared, AfterChange, AfterDeletion
<1> DEFINE l == Append(log[d], e)
<1>6. /\ l \in Seq(Event) /\ log' = [log EXCEPT ![d] = l]
      /\ \A k : LastOf(l, k) = IF e.kind = k THEN e.is ELSE LastOf(log[d], k)
      /\ \A i \in Own(l, r) : (i \in Own(log[d], r) /\ l[i] = log[d][i]) \/ l[i] = e
      /\ Own(l, r) # {}
      /\ Adds(r, log[d], l)
      /\ e.kind = "account" /\ e.is = "deleted" /\ OnlyDeleted(log[d]) => OnlyDeleted(l)
  <2>1. l \in Seq(Event) /\ log[d] \in Seq(Event)
    BY <1>1
  <2>2. \A k : LastOf(l, k) = IF e.kind = k THEN e.is ELSE LastOf(log[d], k)
    BY <2>1, LastOfAppend
  <2>3. /\ Own(l, r) = Own(log[d], r) \cup {Len(log[d]) + 1} /\ l[Len(log[d]) + 1] = e
        /\ \A i \in Own(log[d], r) : l[i] = log[d][i]
    BY <1>3, <2>1, OwnAppend DEF Own
  <2>4. e.kind = "account" /\ e.is = "deleted" /\ OnlyDeleted(log[d]) => OnlyDeleted(l)
    BY <2>1, OnlyDeletedStays
  <2>6. DOMAIN l = DOMAIN log[d] \cup {Len(log[d]) + 1} /\ \A i \in DOMAIN log[d] : l[i] = log[d][i]
    BY <2>1, OwnAppend
  <2> HIDE DEF l
  <2>7. Adds(r, log[d], l)
    BY <1>3, <2>3, <2>6 DEF Adds
  <2>5. \A i \in Own(l, r) : (i \in Own(log[d], r) /\ l[i] = log[d][i]) \/ l[i] = e
    BY <2>3
  <2> QED BY <1>3, <2>1, <2>2, <2>3, <2>4, <2>5, <2>7 DEF l
<1>7. n.op = q.op /\ n.handle = q.handle /\ n.got = q.got /\ req' = [req EXCEPT ![r] = n]
  BY <1>2 DEF With, Pass, GoTo
<1>8. actor' = actor /\ root' = root /\ store' = store /\ gone' = gone /\ plc' = plc
  BY <1>2 DEF db
<1>9. /\ plc' \in [Dids -> Handles \cup {None}]
      /\ actor' \in [Dids -> Row \cup {None}] /\ root' \in [Dids -> BOOLEAN]
      /\ store' \in [Dids -> {"none", "empty", "repo"}] /\ gone' \in [Dids -> BOOLEAN]
      /\ actor[d] \in Row \cup {None}
      /\ \A f \in Dids \ {d} : /\ actor'[f] = actor[f] /\ root'[f] = root[f]
                               /\ store'[f] = store[f] /\ gone'[f] = gone[f]
  BY <1>1, <1>8 DEF IInv, Types
<1> HIDE DEF n, l
<1>10. Saw(n, t, seen[r] \cup {View(actor[d]), View(actor'[d])})
  <2>1. Saw(n, t, seen[r])
    BY <1>2, <1>4, <1>5, <1>7 DEF Saw, SignUps, Renames, Changes, Deletions
  <2> QED BY <2>1, SawMore
<1> HIDE DEF d, p, t, q
<1>11. overlaps = 0 => Buried(n, r, t, actor'[d], root'[d], store'[d], l, gone'[d])
  <2> SUFFICES ASSUME overlaps = 0
               PROVE  Buried(n, r, t, actor[d], root[d], store[d], l, gone[d])
    BY <1>8
  <2>1. Buried(q, r, p, actor[d], root[d], store[d], log[d], gone[d])
    BY <1>4 DEF Facts, p
  <2>2. gone[d] => e.kind = "account" /\ e.is = "deleted" /\ Harmless(q.op, t)
    <3>1. gone[d] => Harmless(q.op, p) /\ (p = "announce" => q.got = "deleted")
      BY <2>1 DEF Buried
    <3>2. Harmless(q.op, p) => (p = "announce" \/ p = "tombstone") /\ Harmless(q.op, t)
      BY <1>2, <1>5 DEF Harmless, SignUps, Renames, Changes, Deletions
    <3> QED BY <1>3, <3>1, <3>2 DEF Says
  <2>3. gone[d] => actor[d] = None /\ ~root[d] /\ store[d] = "none" /\ OnlyDeleted(l) /\ Harmless(n.op, t)
    BY <1>6, <1>7, <2>1, <2>2 DEF Buried
  <2>4. t \notin {"announce", "unroot", "unactor", "tombstone"} /\ (t = "purge" => p = "tombstone")
    BY <1>2, <1>5
  <2>5. ASSUME NEW i \in Own(l, r), n.op \in Deletions PROVE l[i].kind = "account" /\ l[i].is = "deleted"
    <3>1. CASE i \in Own(log[d], r) /\ l[i] = log[d][i]
      BY <1>7, <2>1, <2>5, <3>1 DEF Buried
    <3>2. CASE l[i] = e
      <4>1. p = "tombstone"
        BY <1>2, <1>5, <1>7, <2>5 DEF Deletions, SignUps, Changes, Renames
      <4> QED BY <1>3, <3>2, <4>1 DEF Says
    <3> QED BY <1>6, <3>1, <3>2
  <2> QED BY <1>6, <2>1, <2>3, <2>4, <2>5 DEF Buried
<1>12. overlaps = 0 /\ Sound(d) => Housed(n, t, actor'[d], store'[d], undo[d])
  BY <1>2, <1>4, <1>5, <1>7, <1>8 DEF Facts, Housed, p
<1>13. overlaps = 0 /\ faults = 0 /\ crashes = 0
        => Orderly(n, t, actor'[d], root'[d], store'[d], l, undo[d])
  <2> SUFFICES ASSUME overlaps = 0, faults = 0, crashes = 0
               PROVE  Orderly(n, t, actor[d], root[d], store[d], l, undo[d])
    BY <1>8
  <2> DEFINE a == actor[d]
  <2>1. Orderly(q, p, a, root[d], store[d], log[d], undo[d]) /\ undo[d] = <<>>
    BY <1>4 DEF Facts, p
  <2>2. p = "tombstone" => a = None
    BY <1>4 DEF Facts, Buried, p
  <2>3. a \in Row \cup {None} /\ HeardIn(l) = IF LastOf(l, "account") = None THEN "deleted" ELSE LastOf(l, "account")
    BY <1>9 DEF HeardIn
  <2>4. HeardIn(log[d]) = IF LastOf(log[d], "account") = None THEN "deleted" ELSE LastOf(log[d], "account")
    BY DEF HeardIn
  <2>5. Status(a) \in Statuses /\ (a = None => Status(a) = "deleted") /\ None \notin Statuses
    BY <2>3, StatusIs, NoneAssumption
  <2> HIDE DEF a
  <2>6. OwesStatus(n.op, t) \/ StatusTold(a, l)
    <3>1. CASE p = "active"
      <4>1. Status(a) = "active"
        BY <1>5, <2>1, <3>1 DEF Orderly
      <4>2. LastOf(l, "account") = "active"
        BY <1>3, <1>6, <3>1 DEF Says
      <4>3. HeardIn(l) = Status(a)
        BY <2>3, <2>5, <4>1, <4>2
      <4> QED BY <4>3 DEF StatusTold
    <3>2. CASE p = "announce"
      <4>1. q.got = Status(a)
        BY <2>1, <3>2 DEF Orderly
      <4>2. LastOf(l, "account") = Status(a)
        BY <1>3, <1>6, <3>2, <4>1 DEF Says
      <4> QED BY <2>3, <2>5, <4>2 DEF StatusTold
    <3>3. CASE p = "tombstone"
      <4>1. LastOf(l, "account") = "deleted"
        BY <1>3, <1>6, <3>3 DEF Says
      <4> QED BY <2>2, <2>3, <2>5, <3>3, <4>1 DEF StatusTold
    <3>4. CASE p \in {"identity", "commit", "sync"}
      <4>1. LastOf(l, "account") = LastOf(log[d], "account")
        BY <1>3, <1>6, <3>4 DEF Says
      <4>2. OwesStatus(n.op, t) \/ ~OwesStatus(q.op, p)
        BY <1>5, <1>7, <3>4 DEF OwesStatus, SignUps, Renames
      <4>3. StatusTold(a, log[d]) => StatusTold(a, l)
        BY <2>3, <2>4, <4>1 DEF StatusTold
      <4> QED BY <2>1, <4>2, <4>3 DEF Orderly
    <3> QED BY <1>2, <3>1, <3>2, <3>3, <3>4
  <2>7. OwesHandle(n.op, t) \/ HandleTold(a, l)
    <3>1. CASE p = "identity"
      <4>1. a # None /\ a.handle = q.handle
        BY <1>5, <2>1, <3>1 DEF Orderly, SignUps, Creations
      <4>2. LastOf(l, "identity") = q.handle
        BY <1>3, <1>6, <3>1 DEF Says
      <4> QED BY <4>1, <4>2 DEF HandleTold
    <3>2. CASE p # "identity"
      <4>1. LastOf(l, "identity") = LastOf(log[d], "identity")
        BY <1>2, <1>3, <1>6, <3>2 DEF Says
      <4>2. OwesHandle(n.op, t) \/ ~OwesHandle(q.op, p)
        BY <1>2, <1>5, <3>2 DEF OwesHandle
      <4> QED BY <2>1, <4>1, <4>2 DEF HandleTold, Orderly
    <3> QED BY <3>1, <3>2
  <2> QED BY <1>2, <1>5, <1>7, <2>1, <2>6, <2>7 DEF Orderly, SignUps, Creations, Renames, Changes, Deletions, a
<1>14. Goes(r, q, d, p, t, q.got, n) /\ UNCHANGED trouble /\ undo' = undo
  BY <1>2 DEF Goes, d, p, t, q, n
<1>15. /\ l \in Seq(Event) /\ log' = [log EXCEPT ![d] = l] /\ req' = [req EXCEPT ![r] = n]
       /\ Adds(r, log[d], l)
  BY <1>6, <1>7
<1> QED BY <1>9, <1>10, <1>11, <1>12, <1>13, <1>14, <1>15, WriteOn

LEMMA PurgeKeeps ==
  ASSUME IInv, NEW r \in Requests, Purge(r), Watch
  PROVE  IInv'
<1> DEFINE q == req[r]
           d == q.did
           p == PointOf(q.todo)
           t == PointOf(Tail(q.todo))
           n == With(q, q.handle, q.got, Tail(q.todo))
           l == Spared(log[d], r)
<1>1. q.todo # <<>> /\ p = "purge" /\ UNCHANGED <<db, store, plc, trouble>> /\ undo' = undo
  BY DEF Purge, At, PointOf
<1>2. /\ Typed(q) /\ Succ(q.op, p, t) /\ d \in Dids /\ Saw(q, p, seen[r])
      /\ overlaps = 0 => /\ undo[d] = <<>>
                         /\ Facts(q, r, actor[d], root[d], store[d], log[d], undo[d], gone[d],
                                  Sound(d), faults = 0 /\ crashes = 0)
  BY <1>1, Here
<1>3. q.op \in Deletions /\ t = "end"
  BY <1>1, <1>2, AfterDeletion
<1>4. n.op = q.op /\ n.handle = q.handle /\ n.got = q.got /\ req' = [req EXCEPT ![r] = n]
  BY DEF Purge, With, Pass, GoTo
<1>5. log[d] \in Seq(Event) /\ log' = [log EXCEPT ![d] = l]
  BY <1>2 DEF Purge, IInv, Types
<1>6. \/ Own(log[d], r) = {} /\ l = <<>>
      \/ \E i \in Own(log[d], r) : l = <<log[d][i]>> /\ log[d][i] \in Event
  BY <1>5, SparedIs DEF Spared
<1>7. l \in Seq(Event) /\ Adds(r, log[d], l)
  <2> HIDE DEF l
  <2>1. CASE l = <<>>
    BY <2>1 DEF Adds
  <2>2. ASSUME NEW i \in Own(log[d], r), l = <<log[d][i]>>, log[d][i] \in Event
        PROVE  l \in Seq(Event) /\ Adds(r, log[d], l)
    <3>1. \A e \in Event : <<e>> \in Seq(Event) /\ DOMAIN <<e>> = {1} /\ <<e>>[1] = e
      OBVIOUS
    <3>2. l \in Seq(Event) /\ DOMAIN l = {1} /\ l[1] = log[d][i] /\ log[d][i].by = r
      BY <2>2, <3>1 DEF Own
    <3> QED BY <3>2 DEF Adds
  <2> QED BY <1>6, <2>1, <2>2
<1>8. /\ plc' \in [Dids -> Handles \cup {None}]
      /\ actor' \in [Dids -> Row \cup {None}] /\ root' \in [Dids -> BOOLEAN]
      /\ store' \in [Dids -> {"none", "empty", "repo"}] /\ gone' \in [Dids -> BOOLEAN]
      /\ actor' = actor /\ root' = root /\ store' = store
      /\ \A f \in Dids \ {d} : /\ actor'[f] = actor[f] /\ root'[f] = root[f]
                               /\ store'[f] = store[f] /\ gone'[f] = gone[f]
  BY <1>1, <1>2 DEF Purge, IInv, Types, db
<1> HIDE DEF n, l
<1>9. Saw(n, t, seen[r] \cup {View(actor[d]), View(actor'[d])})
  BY <1>3, NothingToSay
<1>10. ASSUME overlaps = 0
       PROVE  /\ actor[d] = None /\ ~root[d] /\ store[d] = "none" /\ OnlyDeleted(l)
              /\ \E e : l = <<e>> /\ e \in Event /\ e.kind = "account" /\ e.is = "deleted"
              /\ \A i \in Own(l, r) : l[i].kind = "account" /\ l[i].is = "deleted"
  <2>1. Buried(q, r, p, actor[d], root[d], store[d], log[d], gone[d])
    BY <1>2, <1>10 DEF Facts
  <2>2. /\ actor[d] = None /\ ~root[d] /\ store[d] = "none" /\ Own(log[d], r) # {}
        /\ \A i \in Own(log[d], r) : log[d][i].kind = "account" /\ log[d][i].is = "deleted"
    BY <1>1, <1>3, <2>1 DEF Buried
  <2>3. PICK e \in Event : l = <<e>> /\ e.kind = "account" /\ e.is = "deleted"
    BY <1>6, <2>2
  <2>4. DOMAIN l = {1} /\ l[1] = e /\ l # <<>>
    BY <2>3
  <2>5. OnlyDeleted(l)
    BY <2>3, <2>4 DEF OnlyDeleted
  <2> QED BY <2>2, <2>3, <2>5 DEF OnlyDeleted, Own
<1> HIDE DEF d, p, t, q
<1>11. overlaps = 0 => Buried(n, r, t, actor'[d], root'[d], store'[d], l, gone'[d])
  BY <1>3, <1>4, <1>8, <1>10 DEF Buried, Harmless
<1>12. overlaps = 0 /\ Sound(d) => Housed(n, t, actor'[d], store'[d], undo[d])
  BY <1>8, <1>10 DEF Housed
<1>13. overlaps = 0 /\ faults = 0 /\ crashes = 0
        => Orderly(n, t, actor'[d], root'[d], store'[d], l, undo[d])
  <2> SUFFICES ASSUME overlaps = 0
               PROVE  Orderly(n, t, None, root[d], "none", l, <<>>)
    BY <1>2, <1>8, <1>10
  <2>1. PICK e \in Event : l = <<e>> /\ e.kind = "account" /\ e.is = "deleted"
    BY <1>10
  <2>2. LastOf(l, "account") = "deleted" /\ LastOf(l, "identity") = None
    BY <2>1, LastOfOne
  <2>3. Status(None) = "deleted" /\ "deleted" # None
    BY NoneAssumption DEF Status, Statuses
  <2>4. StatusTold(None, l) /\ HandleTold(None, l)
    BY <2>2, <2>3 DEF StatusTold, HandleTold, HeardIn
  <2>5. Whole(None, root[d], "none")
    BY <1>10 DEF Whole
  <2> QED BY <1>3, <1>4, <2>4, <2>5 DEF Orderly, Deletions, Creations, SignUps, Renames
<1>14. Goes(r, q, d, p, t, q.got, n) /\ UNCHANGED trouble /\ undo' = undo
  BY <1>1 DEF Goes, d, p, t, q, n
<1> QED BY <1>4, <1>5, <1>7, <1>8, <1>9, <1>11, <1>12, <1>13, <1>14, WriteOn

\* A failed making or destroying ends the request, and leaves the store as litter.
LEMMA LeftBehind ==
  ASSUME IInv, NEW r \in Requests, Fault(r), Watch, HalfMade(r) \/ HalfDestroyed(r)
  PROVE  IInv'
<1> DEFINE q == req[r]
           d == q.did
           p == PointOf(q.todo)
           n == With(q, q.handle, q.got, <<>>)
<1>1. /\ q.todo # <<>> /\ p \in {"make", "destroy"} /\ Left > 0 /\ faults' = faults + 1
      /\ UNCHANGED <<db, plc, log, crashes, overlaps>> /\ litter' = litter \cup {d}
  BY DEF Fault, HalfMade, HalfDestroyed, At, PointOf
<1>2. /\ Typed(q) /\ d \in Dids
      /\ overlaps = 0 => /\ undo[d] # <<>> => q.op = "signup" /\ p = "destroy"
                         /\ Facts(q, r, actor[d], root[d], store[d], log[d], undo[d], gone[d],
                                  Sound(d), faults = 0 /\ crashes = 0)
  BY <1>1, Here
<1>3. req' = [req EXCEPT ![r] = n] /\ undo' = undo
  <2>1. p = Head(q.todo)
    BY <1>1 DEF PointOf
  <2>2. Thrown(r) = <<>> /\ ~Unregisters(r)
    BY <1>1, <2>1 DEF Thrown, Outside, Unregisters
  <2> QED BY <2>2 DEF Fault, Throw, GoTo
<1>4. /\ n.op = q.op /\ n.did = d /\ n.handle = q.handle /\ n.got = q.got /\ n.todo = <<>>
      /\ n = [op |-> n.op, did |-> n.did, handle |-> n.handle, got |-> n.got, todo |-> n.todo]
      /\ PointOf(n.todo) = "end"
  BY DEF With, PointOf
<1>5. Typed(n)
  <2>1. OnTrack(n.op, n.todo)
    BY <1>2, <1>4, Detours, PointIs
  <2>2. n.op \in Ops /\ n.did \in Dids /\ (n.op \in Creations \cup Renames => n.handle \in Handles)
    BY <1>2, <1>4 DEF Typed
  <2> HIDE DEF n, q
  <2> QED BY <1>4, <2>1, <2>2 DEF Typed
<1>6. /\ log[d] \in Seq(Event) /\ log' = [log EXCEPT ![d] = log[d]] /\ Adds(r, log[d], log[d])
      /\ undo[d] \in Seq({"unroot", "unactor"}) /\ undo' = [undo EXCEPT ![d] = undo[d]]
      /\ plc' \in [Dids -> Handles \cup {None}]
      /\ actor' \in [Dids -> Row \cup {None}] /\ root' \in [Dids -> BOOLEAN]
      /\ actor' = actor /\ root' = root
      /\ litter' \subseteq Dids /\ \A e \in Dids \ {d} : e \in litter' <=> e \in litter
      /\ faults' # 0
  <2>1. Types
    BY DEF IInv
  <2> HIDE DEF q, d, n
  <2>2. /\ log[d] \in Seq(Event) /\ log' = [log EXCEPT ![d] = log[d]] /\ Adds(r, log[d], log[d])
        /\ undo[d] \in Seq({"unroot", "unactor"}) /\ undo' = [undo EXCEPT ![d] = undo[d]]
    BY <1>1, <1>2, <1>3, <2>1, AddsNothing DEF Types
  <2>3. /\ plc' \in [Dids -> Handles \cup {None}]
        /\ actor' \in [Dids -> Row \cup {None}] /\ root' \in [Dids -> BOOLEAN]
        /\ actor' = actor /\ root' = root
    BY <1>1, <2>1 DEF Types, db
  <2>4. litter' \subseteq Dids /\ (\A e \in Dids \ {d} : e \in litter' <=> e \in litter) /\ faults' # 0
    BY <1>1, <1>2, <2>1 DEF Types
  <2> QED BY <2>2, <2>3, <2>4
<1>7. /\ store' \in [Dids -> {"none", "empty", "repo"}] /\ gone' \in [Dids -> BOOLEAN]
      /\ gone'[d] => gone[d] /\ store'[d] \in {store[d], "none"}
      /\ \A e \in Dids \ {d} : store'[e] = store[e] /\ gone'[e] = gone[e]
  <2>1. /\ store \in [Dids -> {"none", "empty", "repo"}] /\ gone \in [Dids -> BOOLEAN]
    BY DEF IInv, Types
  <2>2. CASE HalfMade(r)
    BY <1>2, <2>1, <2>2 DEF HalfMade
  <2>3. CASE HalfDestroyed(r)
    BY <1>2, <2>1, <2>3 DEF HalfDestroyed
  <2> QED BY <2>2, <2>3
<1> HIDE DEF n, q, p
<1>8. overlaps = 0 => Facts(n, r, actor'[d], root'[d], store'[d], log[d], undo[d], gone'[d],
                            crashes = 0 /\ d \notin litter', faults' = 0 /\ crashes = 0)
  <2>1. d \in litter'
    BY <1>1
  <2>2. overlaps = 0 => Buried(q, r, p, actor[d], root[d], store[d], log[d], gone[d])
    BY <1>2 DEF Facts, p
  <2>3. overlaps = 0 => Buried(n, r, "end", actor'[d], root'[d], store'[d], log[d], gone'[d])
    BY <1>4, <1>6, <1>7, <2>2 DEF Buried, Harmless
  <2> QED BY <1>4, <1>6, <2>1, <2>3 DEF Facts
<1>9. n.todo = <<>> /\ req[r].did = d /\ req[r].todo # <<>> /\ UNCHANGED <<crashes, overlaps>>
  BY <1>1, <1>4 DEF q
<1>10. \A e \in Dids \ {d} : actor'[e] = actor[e] /\ root'[e] = root[e] /\ store'[e] = store[e] /\ gone'[e] = gone[e]
  BY <1>6, <1>7
<1>11. /\ n.did = d /\ d \in Dids
       /\ faults' = faults \/ (faults' = faults + 1 /\ Left > 0)
       /\ store' \in [Dids -> {"none", "empty", "repo"}] /\ gone' \in [Dids -> BOOLEAN]
  BY <1>1, <1>2, <1>4, <1>7
<1>12. /\ n.todo # <<>> => Saw(n, PointOf(n.todo), seen[r] \cup {View(actor[d]), View(actor'[d])})
       /\ overlaps = 0 /\ n.todo # <<>> /\ undo[d] # <<>> => n.op = "signup" /\ PointOf(n.todo) = "destroy"
  BY <1>9
<1> HIDE DEF d
<1>13. /\ req[r].did = d /\ req[r].todo # <<>> /\ req' = [req EXCEPT ![r] = n] /\ Typed(n) /\ n.did = d
  BY <1>3, <1>5, <1>9, <1>11
<1>14. UNCHANGED <<crashes, overlaps>>
  BY <1>9
<1>15. overlaps = 0 => Facts(n, r, actor'[d], root'[d], store'[d], log[d], undo[d], gone'[d],
                               crashes = 0 /\ d \notin litter', faults' = 0 /\ crashes = 0)
  BY <1>8
<1> QED BY <1>6, <1>10, <1>11, <1>12, <1>13, <1>14, <1>15, RequestMoves

LEMMA FaultKeeps ==
  ASSUME IInv, NEW r \in Requests, Fault(r), Watch
  PROVE  IInv'
<1>1. CASE HalfMade(r) \/ HalfDestroyed(r)
  BY <1>1, LeftBehind
<1>2. CASE ~At(r, "destroy") /\ UNCHANGED <<store, litter, gone>>
  <2>1. /\ req[r].todo # <<>> /\ PointOf(req[r].todo) # "destroy" /\ Throw(r) /\ Left > 0 /\ faults' = faults + 1
        /\ UNCHANGED <<db, store, plc, log, crashes, overlaps, litter, gone>>
    BY <1>2 DEF Fault, At, PointOf
  <2>2. faults' # 0
    BY <2>1 DEF IInv, Types
  <2> QED BY <2>1, <2>2, ThrowKeeps
<1> QED BY <1>1, <1>2 DEF Fault
-----------------------------------------------------------------------------
(***************************************************************************)
(* A request begins, a clean-up goes on, the process ends.                 *)
(***************************************************************************)
\* A request that nothing is asked of knows what it knew, and has seen more.
LEMMA StillSaw ==
  ASSUME IInv, Watch, NEW s \in Requests, req'[s] = req[s]
  PROVE  req'[s] = Idle \/ (Typed(req'[s]) /\ Saw(req'[s], PointOf(req'[s].todo), seen'[s]))
<1>1. req[s] = Idle \/ (Typed(req[s]) /\ Saw(req[s], PointOf(req[s].todo), seen[s]))
  BY DEF IInv
<1>2. CASE req[s].todo = <<>>
  <2>1. PointOf(req[s].todo) = "end"
    BY <1>2 DEF PointOf
  <2> QED BY <1>1, <2>1, NothingToSay
<1>3. CASE req[s].todo # <<>>
  <2>1. seen[s] \subseteq seen'[s]
    BY <1>3 DEF Watch
  <2> QED BY <1>1, <2>1, SawMore
<1> QED BY <1>2, <1>3

LEMMA StartKeeps ==
  ASSUME IInv, NEW r \in Requests, NEW op \in Ops, NEW d \in Dids, NEW h \in Handles, Start(r, op, d, h), Watch
  PROVE  IInv'
<1> DEFINE q == [op |-> op, did |-> d, got |-> None, todo |-> Script[op],
                 handle |-> IF op \in Creations \cup {"handle", "adminHandle"} THEN h ELSE None]
           p == PointOf(q.todo)
<1>1. Types /\ req[r] = Idle /\ op \in DOMAIN Script /\ req' = [req EXCEPT ![r] = q] /\ overlaps \in Nat
  BY AccountsAssumption DEF Start, IInv, Types
<1>2. /\ req' = [s \in Requests |-> req'[s]] /\ req'[r] = q /\ \A s \in Requests \ {r} : req'[s] = req[s]
  BY <1>1 DEF Types
<1>3. actor' = actor /\ root' = root /\ store' = store /\ plc' = plc /\ log' = log /\ undo' = undo
      /\ faults' = faults /\ crashes' = crashes /\ gone' = gone /\ litter' = litter
  BY DEF Start, db
<1>4. /\ overlaps' = overlaps \/ overlaps' = overlaps + 1
      /\ overlaps' = 0 => overlaps = 0 /\ InProgress(d) = {} /\ undo[d] = <<>>
  BY <1>1 DEF Start, AtRest
<1>5. /\ q.op = op /\ q.did = d /\ q.todo = Script[op] /\ q # Idle
      /\ First(op, p) /\ OnTrack(op, q.todo) /\ q.todo # <<>> /\ p # "end"
      /\ q.handle = IF op \in Creations \cup Renames THEN h ELSE None
  <2>1. q # Idle
    BY <1>1, NoneAssumption DEF Idle
  <2>2. First(op, p) /\ OnTrack(op, q.todo) /\ q.todo # <<>>
    BY <1>1, Begins
  <2> QED BY <2>1, <2>2 DEF First, Renames
<1>6. Typed(q)
  <2>1. q = [op |-> q.op, did |-> q.did, handle |-> q.handle, got |-> q.got, todo |-> q.todo]
    OBVIOUS
  <2> HIDE DEF q
  <2>2. p # "announce" /\ (op = "activate" => p = "find")
    <3> HIDE DEF p
    <3> QED BY <1>5 DEF First, Creations, Renames, SignUps
  <2> QED BY <1>5, <2>1, <2>2 DEF Typed
<1> HIDE DEF q
<1>7. Left' >= 0 /\ overlaps' \in Nat
  <2>1. Started' = Started \cup {r} /\ r \notin Started
    BY <1>1, <1>2, <1>5 DEF Started
  <2>2. faults \in Nat /\ crashes \in Nat /\ overlaps \in Nat /\ MaxEvents \in Nat
    BY <1>1, AccountsAssumption DEF Types
  <2>3. /\ IsFiniteSet(Started) /\ Cardinality(Started) \in Nat
        /\ Left = MaxEvents - Cardinality(Started) - faults - crashes - overlaps
    BY <2>2, LeftIs
  <2>4. Cardinality(Started') = Cardinality(Started) + 1
    BY <2>1, <2>3, FS_AddElement
  <2>5. Left' = MaxEvents - Cardinality(Started') - faults - crashes - overlaps'
    BY <1>3 DEF Left, Started
  <2>6. Left > (IF AtRest(d) THEN 0 ELSE 1) /\ overlaps' = IF AtRest(d) THEN overlaps ELSE overlaps + 1
    BY DEF Start
  <2> DEFINE c == Cardinality(Started)
  <2>7. c \in Nat /\ Left = MaxEvents - c - faults - crashes - overlaps
    BY <2>3
  <2>8. Left' = MaxEvents - (c + 1) - faults - crashes - overlaps'
    BY <2>1, <2>4, <2>5
  <2> HIDE DEF c
  <2> QED BY <2>2, <2>6, <2>7, <2>8
<1>8. Types'
  BY <1>1, <1>2, <1>3, <1>7 DEF Types
<1>9. Signed'
  <2>1. ASSUME NEW e \in Dids, NEW i \in DOMAIN log[e] PROVE log[e][i].by = 0 \/ req'[log[e][i].by] # Idle
    <3>1. log[e][i] \in Event
      BY <1>1, <2>1 DEF Types
    <3>2. log[e][i].by \in Requests \cup {0}
      BY <3>1 DEF Event
    <3>3. log[e][i].by = 0 \/ req[log[e][i].by] # Idle
      BY <2>1 DEF IInv, Signed
    <3> HIDE DEF IInv
    <3> QED BY <1>2, <1>5, <3>2, <3>3
  <2> QED BY <1>3, <2>1 DEF Signed
<1>10. ASSUME NEW s \in Requests
       PROVE  req'[s] = Idle \/ (Typed(req'[s]) /\ Saw(req'[s], PointOf(req'[s].todo), seen'[s]))
  <2>1. CASE s = r
    <3>1. Saw(q, p, seen'[s])
      <4> HIDE DEF p
      <4> QED BY <1>5 DEF Saw, First, Creations, Renames
    <3> QED BY <1>2, <1>6, <2>1, <3>1
  <2>2. CASE s # r
    BY <1>2, <2>2, StillSaw
  <2> QED BY <2>1, <2>2
<1>11. ASSUME overlaps' = 0, NEW e \in Dids PROVE Account(e)'
  <2>1. Account(e) /\ Account(d)
    BY <1>4, <1>11 DEF IInv
  <2>2. CASE e # d
    <3>1. InProgress(e)' = InProgress(e) /\ \A s \in InProgress(e) : s # r /\ s \in Requests /\ req'[s] = req[s]
      BY <1>1, <1>2, <1>5, <2>2 DEF InProgress, Idle
    <3>2. \A x, s : FactsOf(x, s, e) =>
            Facts(x, s, actor'[e], root'[e], store'[e], log'[e], undo'[e], gone'[e],
                  Sound(e)', faults' = 0 /\ crashes' = 0)
      BY <1>3 DEF FactsOf, Sound
    <3> QED BY <1>3, <2>1, <3>1, <3>2 DEF Account, FactsOf, At
  <2>3. CASE e = d
    <3>1. InProgress(d) = {} /\ undo[d] = <<>> /\ InProgress(d)' = {r}
      BY <1>2, <1>4, <1>5, <1>11 DEF InProgress
    <3>2. Facts(Idle, 0, actor[d], root[d], store[d], log[d], undo[d], gone[d],
                Sound(d), faults = 0 /\ crashes = 0)
      BY <2>1, <3>1 DEF Account, FactsOf
    <3>3. PointOf(Idle.todo) = "end" /\ Idle.op = None
          /\ None \notin Creations \cup SignUps \cup Renames \cup Deletions \cup {"activate", "write", "adminHandle", "adminDelete"}
      BY ScriptIs, NoneAssumption DEF PointOf, Idle, SignUps, Creations, Renames, Deletions
    <3> DEFINE i == Idle
    <3>4. Own(log[d], r) = {}
      <4>1. \A j \in DOMAIN log[d] : log[d][j].by # r
        BY <1>1 DEF IInv, Signed, Requests
      <4> QED BY <4>1 DEF Own
    <3> HIDE DEF i, p
    <3>5. Buried(q, r, p, actor[d], root[d], store[d], log[d], gone[d])
      <4>1. Buried(i, 0, "end", actor[d], root[d], store[d], log[d], gone[d])
        BY <3>2, <3>3 DEF Facts, i
      <4>2. Harmless(op, p) /\ p \notin {"announce", "unroot", "unactor", "tombstone", "purge"}
        BY <1>5 DEF First, Harmless, Creations
      <4> QED BY <1>5, <3>4, <4>1, <4>2 DEF Buried
    <3>6. Sound(d) => Housed(q, p, actor[d], store[d], undo[d])
      <4>1. Sound(d) => Housed(i, "end", actor[d], store[d], undo[d])
        BY <3>2, <3>3 DEF Facts, i
      <4> QED BY <3>1, <3>3, <4>1 DEF Housed, i
    <3>7. faults = 0 /\ crashes = 0 => Orderly(q, p, actor[d], root[d], store[d], log[d], undo[d])
      <4>1. SUFFICES ASSUME faults = 0, crashes = 0
                     PROVE  Orderly(q, p, actor[d], root[d], store[d], log[d], undo[d])
        OBVIOUS
      <4>2. Orderly(i, "end", actor[d], root[d], store[d], log[d], undo[d]) /\ i.op = None
        BY <3>2, <3>3, <4>1 DEF Facts, i
      <4>3. Whole(actor[d], root[d], store[d]) /\ StatusTold(actor[d], log[d]) /\ HandleTold(actor[d], log[d])
        BY <3>3, <4>2 DEF Orderly, OwesStatus, OwesHandle
      <4> QED BY <1>5, <3>1, <4>3 DEF Orderly, First, Creations, SignUps, Renames
    <3>8. Facts(q, r, actor[d], root[d], store[d], log[d], undo[d], gone[d],
                Sound(d), faults = 0 /\ crashes = 0)
      BY <3>5, <3>6, <3>7 DEF Facts, p
    <3>9. Facts(q, r, actor'[d], root'[d], store'[d], log'[d], undo'[d], gone'[d],
                Sound(d)', faults' = 0 /\ crashes' = 0)
      BY <1>3, <3>8 DEF Sound
    <3> QED BY <1>2, <1>3, <2>3, <3>1, <3>9 DEF Account, FactsOf, At
  <2> QED BY <2>2, <2>3
<1> QED BY <1>8, <1>9, <1>10, <1>11 DEF IInv

LEMMA UndoRowsKeeps ==
  ASSUME IInv, NEW d \in Dids, UndoRows(d), Watch
  PROVE  IInv'
<1> DEFINE u == Tail(undo[d])
<1>1. Types /\ undo[d] \in Seq({"unroot", "unactor"}) /\ undo[d] # <<>>
  BY DEF UndoRows, IInv, Types
<1>2. /\ u \in Seq({"unroot", "unactor"}) /\ undo' = [undo EXCEPT ![d] = u]
      /\ req' = req /\ store' = store /\ plc' = plc /\ log' = log /\ gone' = gone
      /\ faults' = faults /\ crashes' = crashes /\ overlaps' = overlaps /\ litter' = litter
      /\ \/ root' = [root EXCEPT ![d] = FALSE] /\ actor' = actor
         \/ actor' = [actor EXCEPT ![d] = None] /\ root' = root
  BY <1>1 DEF UndoRows, DeleteRow, trouble
<1> HIDE DEF u
<1>3. /\ undo' = [e \in Dids |-> undo'[e]] /\ undo'[d] = u
      /\ \A e \in Dids \ {d} : undo'[e] = undo[e] /\ actor'[e] = actor[e] /\ root'[e] = root[e]
      /\ actor'[d] \in {actor[d], None} /\ root'[d] \in {root[d], FALSE}
      /\ actor' \in [Dids -> Row \cup {None}] /\ root' \in [Dids -> BOOLEAN]
  BY <1>1, <1>2 DEF Types
<1>4. Types'
  <2>1. Left' = Left
    BY <1>2 DEF Left
  <2> QED BY <1>1, <1>2, <1>3, <2>1 DEF Types
<1>5. Signed'
  BY <1>2 DEF IInv, Signed
<1>6. \A s \in Requests : req'[s] = Idle \/ (Typed(req'[s]) /\ Saw(req'[s], PointOf(req'[s].todo), seen'[s]))
  BY <1>2, StillSaw
<1>7. ASSUME NEW e \in Dids, overlaps = 0 PROVE Account(e)'
  <2>1. Account(e) /\ InProgress(e)' = InProgress(e)
    BY <1>2, <1>7 DEF IInv, InProgress
  <2>2. CASE e # d
    <3>1. \A x, s : FactsOf(x, s, e) =>
            Facts(x, s, actor'[e], root'[e], store'[e], log'[e], undo'[e], gone'[e],
                  Sound(e)', faults' = 0 /\ crashes' = 0)
      BY <1>2, <1>3, <2>2 DEF FactsOf, Sound
    <3> QED BY <1>2, <1>3, <2>1, <2>2, <3>1 DEF Account, FactsOf, At
  <2>3. CASE e = d
    <3>1. ASSUME NEW x, NEW s, FactsOf(x, s, d), x = Idle \/ (x.op = "signup" /\ PointOf(x.todo) = "destroy")
          PROVE  Facts(x, s, actor'[d], root'[d], store'[d], log'[d], undo'[d], gone'[d],
                       Sound(d)', faults' = 0 /\ crashes' = 0)
      <4> DEFINE p == PointOf(x.todo)
      <4>1. /\ Buried(x, s, p, actor[d], root[d], store[d], log[d], gone[d])
            /\ Sound(d) => Housed(x, p, actor[d], store[d], undo[d])
            /\ faults = 0 /\ crashes = 0 => Orderly(x, p, actor[d], root[d], store[d], log[d], undo[d])
        BY <3>1 DEF FactsOf, Facts
      <4>2. p = "end" \/ (p = "destroy" /\ x.op \in Creations)
        BY <3>1 DEF PointOf, Idle, Creations
      <4> HIDE DEF p
      <4>3. Buried(x, s, p, actor'[d], root'[d], store'[d], log'[d], gone'[d])
        BY <1>2, <1>3, <4>1, <4>2 DEF Buried
      <4>4. Sound(d) => Housed(x, p, actor'[d], store'[d], undo'[d])
        BY <1>1, <1>2, <1>3, <4>1, <4>2 DEF Housed
      <4>5. ~(faults = 0 /\ crashes = 0)
        BY <1>1, <4>1 DEF Orderly
      <4> QED BY <1>2, <4>3, <4>4, <4>5 DEF Facts, Sound, p
    <3>2. \A r \in InProgress(d) : req[r].op = "signup" /\ PointOf(req[r].todo) = "destroy" /\ At(r, "destroy")
      BY <1>1, <2>1, <2>3 DEF Account, At, PointOf
    <3>3. \A r \in InProgress(d) :
            Facts(req'[r], r, actor'[d], root'[d], store'[d], log'[d], undo'[d], gone'[d],
                  Sound(d)', faults' = 0 /\ crashes' = 0)
      BY <1>2, <2>1, <2>3, <3>1, <3>2 DEF Account
    <3>4. InProgress(d) = {} =>
            Facts(Idle, 0, actor'[d], root'[d], store'[d], log'[d], undo'[d], gone'[d],
                  Sound(d)', faults' = 0 /\ crashes' = 0)
      BY <2>1, <2>3, <3>1 DEF Account
    <3> QED BY <1>2, <2>1, <2>3, <3>2, <3>3, <3>4 DEF Account, FactsOf, At
  <2> QED BY <2>2, <2>3
<1> QED BY <1>2, <1>4, <1>5, <1>6, <1>7 DEF IInv

LEMMA CrashKeeps ==
  ASSUME IInv, Crash, Watch
  PROVE  IInv'
<1>1. /\ Types /\ Left > 0 /\ crashes' = crashes + 1
      /\ req' = [r \in Requests |-> [req[r] EXCEPT !.todo = <<>>]] /\ undo' = [d \in Dids |-> <<>>]
      /\ actor' = actor /\ root' = root /\ store' = store /\ plc' = plc /\ log' = log /\ gone' = gone
      /\ faults' = faults /\ overlaps' = overlaps /\ litter' = litter
  BY DEF Crash, IInv, db
<1>2. ASSUME NEW r \in Requests
      PROVE  /\ req'[r].todo = <<>> /\ PointOf(req'[r].todo) = "end"
             /\ req[r] = Idle => req'[r] = Idle
             /\ req[r] # Idle => req'[r] # Idle /\ Typed(req'[r])
  <2> DEFINE q == req[r]
             n == req'[r]
  <2>1. n = [q EXCEPT !.todo = <<>>]
    BY <1>1
  <2>2. CASE q = Idle
    <3>1. n = Idle
      BY <2>1, <2>2 DEF Idle
    <3> QED BY <2>2, <3>1 DEF Idle, PointOf
  <2>3. CASE q # Idle
    <3>1. Typed(q) /\ q = [op |-> q.op, did |-> q.did, handle |-> q.handle, got |-> q.got, todo |-> q.todo]
      BY <2>3 DEF IInv, Typed
    <3> HIDE DEF q, n
    <3>2. /\ n.op = q.op /\ n.did = q.did /\ n.handle = q.handle /\ n.got = q.got /\ n.todo = <<>>
          /\ n = [op |-> n.op, did |-> n.did, handle |-> n.handle, got |-> n.got, todo |-> n.todo]
      BY <2>1, <3>1
    <3>3. q.op \in DOMAIN Script /\ q.op # None
      BY <3>1, PointIs
    <3>4. OnTrack(n.op, n.todo) /\ PointOf(n.todo) = "end" /\ n # Idle
      BY <3>2, <3>3, Detours DEF PointOf, Idle
    <3>5. n.op \in Creations \cup Renames => n.handle \in Handles
      BY <3>1, <3>2 DEF Typed
    <3>6. Typed(n)
      <4>1. n.op \in Ops /\ n.did \in Dids
        BY <3>1, <3>2 DEF Typed
      <4> QED BY <3>2, <3>4, <3>5, <4>1 DEF Typed
    <3> QED BY <2>3, <3>2, <3>4, <3>6 DEF q, n
  <2> QED BY <2>2, <2>3
<1>3. Types'
  <2>1. undo' = [d \in Dids |-> undo'[d]] /\ \A d \in Dids : undo'[d] \in Seq({"unroot", "unactor"})
    BY <1>1
  <2>2. req' = [r \in Requests |-> req'[r]]
    BY <1>1
  <2>3. crashes' \in Nat /\ Left' >= 0
    <3>1. Started' = Started
      BY <1>2 DEF Started
    <3>2. faults \in Nat /\ crashes \in Nat /\ overlaps \in Nat /\ MaxEvents \in Nat
      BY <1>1, AccountsAssumption DEF Types
    <3> DEFINE c == Cardinality(Started)
    <3>3. c \in Nat /\ Left = MaxEvents - c - faults - crashes - overlaps
      BY <3>2, LeftIs
    <3>4. Left' = MaxEvents - c - faults' - crashes' - overlaps'
      <4>1. Left' = MaxEvents - Cardinality(Started') - faults' - crashes' - overlaps'
        BY DEF Left, Started
      <4> QED BY <3>1, <4>1
    <3> HIDE DEF c
    <3> QED BY <1>1, <3>2, <3>3, <3>4
  <2> QED BY <1>1, <2>1, <2>2, <2>3 DEF Types
<1>4. Signed'
  <2>1. ASSUME NEW e \in Dids, NEW i \in DOMAIN log[e] PROVE log[e][i].by = 0 \/ req'[log[e][i].by] # Idle
    <3>1. log[e][i] \in Event
      BY <1>1, <2>1 DEF Types
    <3>2. log[e][i].by \in Requests \cup {0}
      BY <3>1 DEF Event
    <3>3. log[e][i].by = 0 \/ req[log[e][i].by] # Idle
      BY <2>1 DEF IInv, Signed
    <3> HIDE DEF IInv
    <3> QED BY <1>2, <3>2, <3>3
  <2> QED BY <1>1, <2>1 DEF Signed
<1>5. \A s \in Requests : req'[s] = Idle \/ (Typed(req'[s]) /\ Saw(req'[s], PointOf(req'[s].todo), seen'[s]))
  BY <1>2, NothingToSay
<1>6. ASSUME NEW e \in Dids, overlaps = 0 PROVE Account(e)'
  <2>1. Account(e) /\ InProgress(e)' = {}
    BY <1>2, <1>6 DEF IInv, InProgress
  <2>2. PICK x, s, p : Buried(x, s, p, actor[e], root[e], store[e], log[e], gone[e])
    <3>1. CASE InProgress(e) = {}
      BY <2>1, <3>1 DEF Account, FactsOf, Facts
    <3>2. CASE InProgress(e) # {}
      BY <2>1, <3>2 DEF Account, FactsOf, Facts
    <3> QED BY <3>1, <3>2
  <2>3. PointOf(Idle.todo) = "end" /\ Idle.op \notin Deletions /\ Idle.op # "activate"
    BY ScriptIs, NoneAssumption DEF PointOf, Idle, Deletions
  <2> DEFINE i == Idle
  <2> HIDE DEF i
  <2>4. Buried(i, 0, "end", actor[e], root[e], store[e], log[e], gone[e])
    BY <2>2, <2>3 DEF Buried, Harmless, i
  <2>5. crashes' # 0
    BY <1>1 DEF Types
  <2>6. Facts(Idle, 0, actor'[e], root'[e], store'[e], log'[e], undo'[e], gone'[e],
              Sound(e)', faults' = 0 /\ crashes' = 0)
    BY <1>1, <2>3, <2>4, <2>5 DEF Facts, Sound, i
  <2> QED BY <2>1, <2>6 DEF Account, FactsOf
<1> QED BY <1>1, <1>3, <1>4, <1>5, <1>6 DEF IInv

LEMMA StutterKeeps ==
  ASSUME IInv, UNCHANGED vars
  PROVE  IInv'
<1>1. /\ actor' = actor /\ root' = root /\ store' = store /\ plc' = plc /\ log' = log /\ gone' = gone
      /\ req' = req /\ undo' = undo /\ faults' = faults /\ crashes' = crashes /\ overlaps' = overlaps /\ seen' = seen
      /\ litter' = litter
  BY DEF vars, db, trouble
<1>2. Types' /\ Signed'
  BY <1>1 DEF IInv, Types, Signed, Left
<1>3. \A d : Account(d)' = Account(d)
  BY <1>1 DEF Account, FactsOf, Sound, InProgress, At
<1> QED BY <1>1, <1>2, <1>3 DEF IInv

LEMMA InitHolds == Init => IInv
<1> SUFFICES ASSUME Init PROVE IInv
  OBVIOUS
<1> DEFINE E == DOMAIN Existing
<1>1. E \subseteq Dids /\ (\A d \in E : Existing[d] \in Handles) /\ MaxEvents \in Nat
  BY AccountsAssumption
<1>2. ASSUME NEW d \in Dids
      PROVE  /\ gone[d] = FALSE /\ undo[d] = <<>> /\ InProgress(d) = {}
             /\ d \in E => /\ actor[d] = [handle |-> Existing[d], down |-> FALSE, off |-> FALSE]
                           /\ root[d] = TRUE /\ store[d] = "repo" /\ plc[d] = Existing[d]
                           /\ log[d] = <<[kind |-> "identity", is |-> Existing[d], by |-> 0],
                                         [kind |-> "account", is |-> "active", by |-> 0]>>
             /\ d \notin E => /\ actor[d] = None /\ root[d] = FALSE /\ store[d] = "none" /\ plc[d] = None
                              /\ log[d] = <<>>
  <2>1. gone[d] = FALSE /\ undo[d] = <<>> /\ InProgress(d) = {}
    BY DEF Init, InProgress, Idle
  <2>2. d \in E => /\ actor[d] = [handle |-> Existing[d], down |-> FALSE, off |-> FALSE]
                   /\ root[d] = TRUE /\ store[d] = "repo" /\ plc[d] = Existing[d]
                   /\ log[d] = <<[kind |-> "identity", is |-> Existing[d], by |-> 0],
                                 [kind |-> "account", is |-> "active", by |-> 0]>>
    BY DEF Init
  <2>3. d \notin E => /\ actor[d] = None /\ root[d] = FALSE /\ store[d] = "none" /\ plc[d] = None
                      /\ log[d] = <<>>
    <3>1. d \notin E => actor[d] = None
      BY DEF Init
    <3>4. d \notin E => root[d] = FALSE
      <4>1. root[d] = (d \in E)
        BY Zenon DEF Init
      <4>2. \A b \in BOOLEAN : d \notin E /\ b = (d \in E) => b = FALSE
        OBVIOUS
      <4>3. (d \in E) \in BOOLEAN
        OBVIOUS
      <4> QED BY <4>1, <4>2, <4>3, Zenon
    <3>2. d \notin E => store[d] = "none" /\ plc[d] = None
      BY DEF Init
    <3>3. d \notin E => log[d] = <<>>
      BY DEF Init
    <3> QED BY <3>1, <3>2, <3>3, <3>4
  <2> QED BY <2>1, <2>2, <2>3
<1>3. \A h \in Handles : [kind |-> "identity", is |-> h, by |-> 0] \in Event
  BY DEF Event
<1>4. [kind |-> "account", is |-> "active", by |-> 0] \in Event
  BY DEF Event, Statuses
<1>5. ASSUME NEW d \in Dids
      PROVE  /\ actor[d] \in Row \cup {None} /\ log[d] \in Seq(Event)
             /\ \A i \in DOMAIN log[d] : log[d][i].by = 0
             /\ Whole(actor[d], root[d], store[d]) /\ StatusTold(actor[d], log[d]) /\ HandleTold(actor[d], log[d])
  <2>1. CASE d \in E
    <3> DEFINE a == actor[d]
               h == Existing[d]
               e == [kind |-> "identity", is |-> h, by |-> 0]
               f == [kind |-> "account", is |-> "active", by |-> 0]
    <3>1. h \in Handles /\ a = [handle |-> h, down |-> FALSE, off |-> FALSE]
      BY <1>1, <1>2, <2>1
    <3>2. a \in Row /\ a # None /\ a.handle = h /\ Status(a) = "active"
      <4>1. a \in Row
        BY <3>1 DEF Row
      <4>2. a # None
        BY <4>1, NoneAssumption
      <4> QED BY <3>1, <4>1, <4>2 DEF Status
    <3>3. e \in Event /\ f \in Event /\ e.kind = "identity" /\ e.is = h /\ f.kind = "account" /\ f.is = "active"
          /\ e.by = 0 /\ f.by = 0
      BY <1>3, <1>4, <3>1
    <3>4. log[d] = <<e, f>>
      BY <1>2, <2>1
    <3> HIDE DEF a, h, e, f
    <3>5. <<e>> \in Seq(Event) /\ <<e, f>> = Append(<<e>>, f) /\ <<e, f>> \in Seq(Event)
      BY <3>3
    <3>6. \A l \in Seq(Event) : \A k : LastOf(Append(l, f), k) = IF f.kind = k THEN f.is ELSE LastOf(l, k)
      BY LastOfAppend
    <3>7. \A k : LastOf(Append(<<e>>, f), k) = IF f.kind = k THEN f.is ELSE LastOf(<<e>>, k)
      BY <3>5, <3>6, Zenon
    <3>8. \A k : LastOf(log[d], k) = IF f.kind = k THEN f.is ELSE LastOf(<<e>>, k)
      BY <3>4, <3>5, <3>7, Zenon
    <3>9. \A k : LastOf(<<e>>, k) = IF e.kind = k THEN e.is ELSE None
      BY <3>3, LastOfOne
    <3>10. LastOf(log[d], "account") = "active" /\ LastOf(log[d], "identity") = h
      BY <3>3, <3>8, <3>9
    <3>11. "active" # None
      BY NoneAssumption DEF Statuses
    <3>12. StatusTold(a, log[d]) /\ HandleTold(a, log[d])
      BY <3>2, <3>10, <3>11 DEF StatusTold, HandleTold, HeardIn
    <3>13. Whole(a, root[d], store[d])
      BY <1>2, <2>1, <3>2 DEF Whole, a
    <3>14. \A i \in DOMAIN log[d] : log[d][i].by = 0
      BY <3>3, <3>4
    <3> QED BY <3>2, <3>4, <3>5, <3>12, <3>13, <3>14 DEF a
  <2>2. CASE d \notin E
    <3>1. actor[d] = None /\ root[d] = FALSE /\ store[d] = "none" /\ log[d] = <<>>
      BY <1>2, <2>2
    <3>2. LastOf(<<>>, "account") = None /\ LastOf(<<>>, "identity") = None /\ Status(None) = "deleted"
      BY LastOfNone DEF Status
    <3>3. StatusTold(None, <<>>) /\ HandleTold(None, <<>>)
      BY <3>2 DEF StatusTold, HandleTold, HeardIn
    <3> QED BY <3>1, <3>3 DEF Whole
  <2> QED BY <2>1, <2>2
<1>6. Types
  <2>1. Left >= 0
    <3>1. Started = {} /\ Cardinality({}) = 0 /\ faults = 0 /\ crashes = 0 /\ overlaps = 0
      BY FS_EmptySet DEF Init, Started
    <3>2. Left = MaxEvents
      BY <1>1, <3>1, LeftIs
    <3> QED BY <1>1, <3>2
  <2>2. /\ log = [d \in Dids |-> log[d]] /\ undo = [d \in Dids |-> undo[d]]
        /\ req = [r \in Requests |-> req[r]]
        /\ gone \in [Dids -> BOOLEAN] /\ root \in [Dids -> BOOLEAN]
        /\ store \in [Dids -> {"none", "empty", "repo"}]
        /\ faults \in Nat /\ crashes \in Nat /\ overlaps \in Nat /\ litter \subseteq Dids
    BY DEF Init
  <2>3. actor = [d \in Dids |-> actor[d]] /\ plc = [d \in Dids |-> plc[d]]
    BY DEF Init
  <2>4. actor \in [Dids -> Row \cup {None}]
    BY <1>5, <2>3
  <2>5. plc \in [Dids -> Handles \cup {None}]
    <3>1. \A d \in Dids : plc[d] \in Handles \cup {None}
      BY <1>1, <1>2
    <3> QED BY <2>3, <3>1
  <2>6. \A d \in Dids : log[d] \in Seq(Event) /\ undo[d] \in Seq({"unroot", "unactor"})
    <3>1. <<>> \in Seq({"unroot", "unactor"})
      OBVIOUS
    <3> QED BY <1>2, <1>5, <3>1
  <2> QED BY <2>1, <2>2, <2>4, <2>5, <2>6 DEF Types
<1>7. Signed
  BY <1>5 DEF Signed
<1>8. \A r \in Requests : req[r] = Idle
  BY DEF Init
<1>9. ASSUME NEW d \in Dids PROVE Account(d)
  <2> DEFINE i == Idle
  <2>1. PointOf(i.todo) = "end" /\ i.op \notin SignUps \cup Renames \cup Creations \cup Deletions \cup {"activate", "write"}
    BY ScriptIs, NoneAssumption DEF PointOf, Idle, Deletions, SignUps, Creations, Renames
  <2> HIDE DEF i
  <2>2. Buried(i, 0, "end", actor[d], root[d], store[d], log[d], gone[d])
    BY <1>2, <2>1 DEF Buried
  <2>3. Housed(i, "end", actor[d], store[d], undo[d])
    BY <1>2, <1>5 DEF Housed, Whole
  <2>4. Orderly(i, "end", actor[d], root[d], store[d], log[d], undo[d])
    BY <1>2, <1>5, <2>1 DEF Orderly
  <2>5. FactsOf(i, 0, d)
    BY <2>1, <2>2, <2>3, <2>4 DEF FactsOf, Facts
  <2> QED BY <1>2, <2>5 DEF Account, i
<1> QED BY <1>6, <1>7, <1>8, <1>9 DEF IInv

LEMMA StepHolds ==
  ASSUME IInv, [Next]_vars
  PROVE  IInv'
<1>1. CASE UNCHANGED vars
  BY <1>1, StutterKeeps
<1>2. ASSUME NEW r \in Requests, Step(r), Watch PROVE IInv'
  <2>1. CASE Free(r)
    BY <1>2, <2>1, FreeKeeps
  <2>2. CASE Absent(r)
    BY <1>2, <2>2, AbsentKeeps
  <2>3. CASE Present(r)
    BY <1>2, <2>3, PresentKeeps
  <2>4. CASE Find(r)
    BY <1>2, <2>4, FindKeeps
  <2>5. CASE Auth(r)
    BY <1>2, <2>5, AuthKeeps
  <2>6. CASE OpenStore(r)
    BY <1>2, <2>6, OpenStoreKeeps
  <2>7. CASE Lookup(r)
    BY <1>2, <2>7, LookupKeeps
  <2>8. CASE ReadStatus(r)
    BY <1>2, <2>8, ReadStatusKeeps
  <2>9. CASE Make(r)
    BY <1>2, <2>9, MakeKeeps
  <2>10. CASE CreateRepo(r)
    BY <1>2, <2>10, CreateRepoKeeps
  <2>11. CASE Destroy(r)
    BY <1>2, <2>11, DestroyKeeps
  <2>12. CASE UpdatePlc(r)
    BY <1>2, <2>12, UpdatePlcKeeps
  <2>13. CASE Register(r)
    BY <1>2, <2>13, RegisterKeeps
  <2>14. CASE Rename(r)
    BY <1>2, <2>14, RenameKeeps
  <2>15. CASE SetStatus(r)
    BY <1>2, <2>15, SetStatusKeeps
  <2>16. CASE UpdateRepoRoot(r)
    BY <1>2, <2>16, UpdateRepoRootKeeps
  <2>17. CASE DeleteRows(r)
    BY <1>2, <2>17, DeleteRowsKeeps
  <2>18. CASE Sequence(r)
    BY <1>2, <2>18, SequenceKeeps
  <2>19. CASE Purge(r)
    BY <1>2, <2>19, PurgeKeeps
  <2>20. CASE Fault(r)
    BY <1>2, <2>20, FaultKeeps
  <2> QED BY <1>2, <2>1, <2>2, <2>3, <2>4, <2>5, <2>6, <2>7, <2>8, <2>9, <2>10,
             <2>11, <2>12, <2>13, <2>14, <2>15, <2>16, <2>17, <2>18, <2>19, <2>20 DEF Step
<1>3. CASE Next
  BY <1>2, <1>3, StartKeeps, UndoRowsKeeps, CrashKeeps DEF Next
<1> QED BY <1>1, <1>3

\* The invariant holds in every state.
LEMMA Invariance == Spec => []IInv
<1>1. Init => IInv
  BY InitHolds
<1>2. IInv /\ [Next]_vars => IInv'
  BY StepHolds
<1> QED BY <1>1, <1>2, PTL DEF Spec
-----------------------------------------------------------------------------
(***************************************************************************)
(* What follows.                                                           *)
(***************************************************************************)
\* Rows, stores, documents, events and requests have their types.
THEOREM TypeCorrect == Spec => []TypeOK
<1>1. IInv => TypeOK
  <2> SUFFICES ASSUME IInv PROVE TypeOK
    OBVIOUS
  <2>1. Types
    BY DEF IInv
  <2>2. \A r \in Requests : req[r] = Idle \/ (req[r].op \in Ops /\ req[r].did \in Dids)
    BY DEF IInv, Typed
  <2>3. Left \in 0..MaxEvents
    <3> DEFINE c == Cardinality(Started)
    <3>1. faults \in Nat /\ crashes \in Nat /\ overlaps \in Nat /\ Left >= 0 /\ MaxEvents \in Nat
      BY <2>1, AccountsAssumption DEF Types
    <3>2. c \in Nat /\ Left = MaxEvents - c - faults - crashes - overlaps
      BY <3>1, LeftIs
    <3> HIDE DEF c
    <3> QED BY <3>1, <3>2
  <2> QED BY <2>1, <2>2, <2>3 DEF Types, TypeOK
<1> QED BY <1>1, Invariance, PTL

\* What the invariant says of an account that no request is at work on.
LEMMA AtRestIs ==
  ASSUME IInv, overlaps = 0, NEW d \in Dids, AtRest(d)
  PROVE  /\ gone[d] => actor[d] = None /\ ~root[d] /\ store[d] = "none" /\ OnlyDeleted(log[d])
         /\ Sound(d) /\ store[d] # "none" => actor[d] # None
         /\ faults = 0 /\ crashes = 0 => /\ Whole(actor[d], root[d], store[d])
                                         /\ StatusTold(actor[d], log[d]) /\ HandleTold(actor[d], log[d])
<1> DEFINE i == Idle
<1>1. Facts(i, 0, actor[d], root[d], store[d], log[d], undo[d], gone[d], Sound(d), faults = 0 /\ crashes = 0)
  BY DEF IInv, Account, AtRest, FactsOf
<1>2. PointOf(i.todo) = "end" /\ i.op \notin SignUps \cup Renames \cup Creations \cup Deletions \cup {"activate", "write"}
  BY ScriptIs, NoneAssumption DEF PointOf, Idle, Deletions, SignUps, Creations, Renames
<1> HIDE DEF i
<1>3. /\ Buried(i, 0, "end", actor[d], root[d], store[d], log[d], gone[d])
      /\ Sound(d) => Housed(i, "end", actor[d], store[d], undo[d])
      /\ faults = 0 /\ crashes = 0 => Orderly(i, "end", actor[d], root[d], store[d], log[d], undo[d])
  BY <1>1, <1>2 DEF Facts
<1>4. gone[d] => actor[d] = None /\ ~root[d] /\ store[d] = "none" /\ OnlyDeleted(log[d])
  BY <1>3 DEF Buried
<1>5. Sound(d) /\ store[d] # "none" => actor[d] # None
  BY <1>2, <1>3 DEF Housed
<1>6. faults = 0 /\ crashes = 0 => /\ Whole(actor[d], root[d], store[d])
                                   /\ StatusTold(actor[d], log[d]) /\ HandleTold(actor[d], log[d])
  BY <1>2, <1>3 DEF Orderly, OwesStatus, OwesHandle
<1> QED BY <1>4, <1>5, <1>6

\* Whatever step fails but the making and the destroying of the store themselves, without a
\* crash or a race no store is left without an account once the requests for it have ended.
THEOREM StoresHaveAccounts == Spec => []StoreHasAccount
<1>1. IInv => StoreHasAccount
  BY AtRestIs DEF StoreHasAccount, Sound
<1> QED BY <1>1, Invariance, PTL

\* An account that nothing has disturbed has a repository, a root and a row, or none of them.
THEOREM NothingInPieces == Spec => []AllOrNothing
<1>1. IInv => AllOrNothing
  BY AtRestIs DEF AllOrNothing, Undisturbed, Whole
<1> QED BY <1>1, Invariance, PTL

\* A deletion that has ended is final, whatever else fails and however often the process ends.
THEOREM DeletionsAreFinal == Spec => []DeletionFinal
<1>1. IInv => DeletionFinal
  BY AtRestIs DEF DeletionFinal, OnlyDeleted
<1> QED BY <1>1, Invariance, PTL

\* The last events of an account that nothing has disturbed tell its status and its handle.
THEOREM LastEventsTell == Spec => []Announced
<1>1. IInv => Announced
  BY AtRestIs DEF Announced, Undisturbed, StatusTold, HandleTold, Heard
<1> QED BY <1>1, Invariance, PTL

\* What the last event that a step adds may say.
Truly == \A d \in Dids : Len(log'[d]) > Len(log[d]) =>
           LET e == Last(log'[d]) IN
             /\ e.kind = "account" => \E v \in seen[e.by] : v.status = e.is
             /\ e.kind = "identity" => \E v \in seen[e.by] : v.handle = e.is

\* Whatever runs beside it, a request announces only what the account was while it was at work.
THEOREM AnnouncedWasSo == Spec => AnnouncedWasTrue
<1>1. IInv /\ [Next]_vars => [Truly]_vars
  <2> SUFFICES ASSUME IInv, [Next]_vars PROVE Truly
    OBVIOUS
  <2>1. Types /\ log \in [Dids -> Seq(Event)] /\ \A d \in Dids : Len(log[d]) \in Nat
    BY DEF IInv, Types
  <2>2. CASE log' = log
    BY <2>1, <2>2 DEF Truly
  <2>3. ASSUME NEW r \in Requests, Purge(r) PROVE Truly
    <3> DEFINE d == req[r].did
    <3>1. d \in Dids /\ log' = [log EXCEPT ![d] = Spared(@, r)]
      <4>1. req[r].todo # <<>>
        BY <2>3 DEF Purge, At
      <4> QED BY <2>3, <4>1, Here DEF Purge
    <3>2. Len(Spared(log[d], r)) <= Len(log[d])
      <4>1. CASE Own(log[d], r) = {}
        BY <2>1, <3>1, <4>1 DEF Spared
      <4>2. CASE Own(log[d], r) # {}
        <5>1. PICK i \in Own(log[d], r) : Spared(log[d], r) = <<log[d][i]>> /\ log[d][i] \in Event
          BY <2>1, <3>1, <4>2, SparedIs
        <5>2. i \in 1 .. Len(log[d]) /\ Len(<<log[d][i]>>) = 1
          BY <2>1, <3>1 DEF Own
        <5> QED BY <2>1, <3>1, <5>1, <5>2
      <4> QED BY <4>1, <4>2
    <3>3. \A e \in Dids : ~(Len(log'[e]) > Len(log[e]))
      <4> DEFINE s == Spared(log[d], r)
      <4>1. Len(s) \in Nat
        BY <2>1, <3>1, SparedIs DEF Spared
      <4>2. \A e \in Dids : log'[e] = IF e = d THEN s ELSE log[e]
        BY <2>1, <3>1
      <4> HIDE DEF s, d
      <4>3. Len(s) <= Len(log[d])
        BY <3>2 DEF s
      <4> QED BY <2>1, <4>1, <4>2, <4>3
    <3> QED BY <3>3 DEF Truly
  <2>4. ASSUME NEW r \in Requests, Sequence(r) PROVE Truly
    <3> DEFINE q == req[r]
               d == q.did
               p == PointOf(q.todo)
    <3>1. q.todo # <<>>
      BY <2>4 DEF Sequence, Emit, At
    <3>2. Typed(q) /\ d \in Dids /\ Saw(q, p, seen[r]) /\ Succ(q.op, p, PointOf(Tail(q.todo)))
      BY <3>1, Here
    <3>3. PICK e \in Event : Says(q, p, e) /\ e.by = r /\ log' = [log EXCEPT ![d] = Append(log[d], e)]
      BY <2>1, <2>4, <3>2, Sequenced
    <3>4. /\ p = "active" => q.op \in SignUps
          /\ p = "identity" => q.op \in SignUps \cup Renames \cup {"activate"}
      BY <3>2, AfterCreation, AfterShared
    <3>5. /\ e.kind = "account" => \E v \in seen[r] : v.status = e.is
          /\ e.kind = "identity" => \E v \in seen[r] : v.handle = e.is
      <4> HIDE DEF q, p
      <4> QED BY <3>2, <3>3, <3>4 DEF Says, Saw
    <3>6. /\ \A f \in Dids \ {d} : log'[f] = log[f]
          /\ log'[d] = Append(log[d], e) /\ Last(Append(log[d], e)) = e
      <4>1. \A f \in Dids \ {d} : log'[f] = log[f]
        BY <2>1, <3>3
      <4>2. log'[d] = Append(log[d], e)
        BY <2>1, <3>2, <3>3
      <4>3. Last(Append(log[d], e)) = e
        BY <2>1, <3>2, <3>3 DEF Last
      <4> QED BY <4>1, <4>2, <4>3
    <3> QED BY <2>1, <3>3, <3>5, <3>6 DEF Truly
  <2>5. CASE Next
    <3>1. ASSUME NEW r \in Requests, Step(r) PROVE log' = log \/ Purge(r) \/ Sequence(r)
      BY <3>1 DEF Step, Free, Absent, Present, Find, Auth, OpenStore, Lookup, ReadStatus, ReadStep, Make, CreateRepo,
           Destroy, UpdatePlc, Register, Rename, SetStatus, SetRow, UpdateRepoRoot, DeleteRows, Fault
    <3>2. ASSUME NEW d \in Dids, UndoRows(d) PROVE log' = log
      BY <3>2 DEF UndoRows
    <3>3. Crash => log' = log
      BY DEF Crash
    <3>4. ASSUME NEW r \in Requests, NEW op \in Ops, NEW d \in Dids, NEW h \in Handles, Start(r, op, d, h)
          PROVE  log' = log
      BY <3>4 DEF Start
    <3> QED BY <2>2, <2>3, <2>4, <2>5, <3>1, <3>2, <3>3, <3>4 DEF Next
  <2>6. CASE UNCHANGED vars
    BY <2>2, <2>6 DEF vars
  <2> QED BY <2>5, <2>6
<1> QED BY <1>1, Invariance, PTL DEF Spec, AnnouncedWasTrue, Truly
=============================================================================
