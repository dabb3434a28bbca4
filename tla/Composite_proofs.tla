-------------------------- MODULE Composite_proofs --------------------------
(***************************************************************************)
(* Proofs about Composite, for any members, operations and threads.        *)
(*                                                                         *)
(* InStep follows from StepInv: whose tasks are in the pool, and what the  *)
(* members of the one operation under way show.  ShownIsCurrent is nearly  *)
(* inductive: whoever may still change a member unseen will broadcast.     *)
(***************************************************************************)
EXTENDS Composite, SequenceTheorems, TLAPS

USE CompositeAssumption

-----------------------------------------------------------------------------
(* Sequences of tasks.                                                     *)

\* The positions in a sequence without its i-th element, by those before.
Before(i, j) == IF j < i THEN j ELSE j + 1

LEMMA WithoutOne ==
  ASSUME NEW S, NEW s \in Seq(S), NEW i \in DOMAIN s
  PROVE  /\ RemoveAt(s, i) \in Seq(S)
         /\ \A j \in DOMAIN RemoveAt(s, i) :
              /\ Before(i, j) \in DOMAIN s \ {i}
              /\ RemoveAt(s, i)[j] = s[Before(i, j)]
         /\ \A j, k \in DOMAIN RemoveAt(s, i) : Before(i, j) = Before(i, k) => j = k
<1> DEFINE a == SubSeq(s, 1, i - 1)
           b == SubSeq(s, i + 1, Len(s))
<1>1. Len(s) \in Nat /\ i \in 1..Len(s) /\ DOMAIN s = 1..Len(s)
  OBVIOUS
<1>2. a \in Seq(S) /\ Len(a) = i - 1 /\ \A j \in 1..(i - 1) : a[j] = s[j]
  <2>1. 1 \in Int /\ i - 1 \in Int /\ \A j \in 1..(i - 1) : s[j] \in S
    BY <1>1
  <2>2. /\ a \in Seq(S) /\ Len(a) = IF 1 <= i - 1 THEN i - 1 - 1 + 1 ELSE 0
        /\ \A j \in 1..(i - 1 - 1 + 1) : a[j] = s[1 + j - 1]
    BY <2>1, SubSeqProperties
  <2>3. QED
    BY <1>1, <2>2
<1>3. b \in Seq(S) /\ Len(b) = Len(s) - i /\ \A j \in 1..(Len(s) - i) : b[j] = s[j + i]
  <2>1. i + 1 \in Int /\ Len(s) \in Int /\ \A j \in (i + 1)..Len(s) : s[j] \in S
    BY <1>1
  <2>2. /\ b \in Seq(S) /\ Len(b) = IF i + 1 <= Len(s) THEN Len(s) - (i + 1) + 1 ELSE 0
        /\ \A j \in 1..(Len(s) - (i + 1) + 1) : b[j] = s[(i + 1) + j - 1]
    BY <2>1, SubSeqProperties
  <2>3. ASSUME NEW j \in 1..(Len(s) - i) PROVE b[j] = s[j + i]
    <3>1. j \in 1..(Len(s) - (i + 1) + 1) /\ (i + 1) + j - 1 = j + i
      BY <1>1
    <3>2. QED
      BY <2>2, <3>1
  <2>4. QED
    BY <1>1, <2>2, <2>3
<1> HIDE DEF a, b
<1>4. /\ a \o b \in Seq(S) /\ Len(a \o b) = Len(s) - 1
      /\ \A j \in 1..(i - 1) : (a \o b)[j] = a[j]
      /\ \A j \in i..(Len(s) - 1) : (a \o b)[j] = b[j - (i - 1)]
  <2>1. /\ a \o b \in Seq(S) /\ Len(a \o b) = Len(a) + Len(b)
        /\ \A j \in 1..(Len(a) + Len(b)) :
             (a \o b)[j] = IF j <= Len(a) THEN a[j] ELSE b[j - Len(a)]
    <3>1. a \in Seq(S) /\ b \in Seq(S)
      BY <1>2, <1>3
    <3>2. QED
      BY ONLY <3>1, ConcatProperties
  <2>2. Len(a \o b) = Len(s) - 1
    BY <1>1, <1>2, <1>3, <2>1
  <2>3. ASSUME NEW j \in 1..(i - 1) PROVE (a \o b)[j] = a[j]
    BY <1>1, <1>2, <1>3, <2>1
  <2>4. ASSUME NEW j \in i..(Len(s) - 1) PROVE (a \o b)[j] = b[j - (i - 1)]
    <3>1. j \in 1..(Len(a) + Len(b)) /\ ~(j <= Len(a)) /\ Len(a) = i - 1
      BY <1>1, <1>2, <1>3
    <3>2. (a \o b)[j] = b[j - Len(a)]
      BY <2>1, <3>1
    <3>3. QED
      BY <3>1, <3>2
  <2>5. QED
    BY <2>1, <2>2, <2>3, <2>4
<1>5. RemoveAt(s, i) = a \o b
  BY DEF RemoveAt, a, b
<1>6. DOMAIN RemoveAt(s, i) = 1..(Len(s) - 1)
  BY <1>4, <1>5
<1>7. ASSUME NEW j \in 1..(Len(s) - 1)
      PROVE  /\ Before(i, j) \in DOMAIN s \ {i}
             /\ RemoveAt(s, i)[j] = s[Before(i, j)]
  <2>1. CASE j < i
    BY <1>1, <1>2, <1>4, <1>5, <2>1 DEF Before
  <2>2. CASE ~(j < i)
    <3>1. /\ j \in i..(Len(s) - 1) /\ j - (i - 1) \in 1..(Len(s) - i)
          /\ (j - (i - 1)) + i = j + 1
      BY <1>1, <2>2
    <3>2. (a \o b)[j] = s[j + 1]
      BY <1>3, <1>4, <3>1
    <3>3. Before(i, j) = j + 1 /\ j + 1 \in DOMAIN s \ {i}
      BY <1>1, <2>2 DEF Before
    <3>4. QED
      BY <1>5, <3>2, <3>3
  <2>3. QED
    BY <2>1, <2>2
<1>8. ASSUME NEW j \in 1..(Len(s) - 1), NEW k \in 1..(Len(s) - 1),
             Before(i, j) = Before(i, k)
      PROVE  j = k
  BY <1>1, <1>8 DEF Before
<1>9. QED
  BY <1>4, <1>5, <1>6, <1>7, <1>8

\* A position in s \o r is one of s, or one of r.
LEMMA Joined ==
  ASSUME NEW S, NEW s \in Seq(S), NEW r \in Seq(S)
  PROVE  /\ s \o r \in Seq(S)
         /\ \A i \in DOMAIN (s \o r) :
              \/ i \in DOMAIN s /\ (s \o r)[i] = s[i]
              \/ i - Len(s) \in DOMAIN r /\ (s \o r)[i] = r[i - Len(s)] /\ i \notin DOMAIN s
         /\ Len(s) \in Nat
OBVIOUS

-----------------------------------------------------------------------------
(* Type correctness.                                                       *)

\* A thread in a call knows which, only an operation is fanned out, and a task
\* of one has a value to leave.
TypeInv ==
  /\ TypeOK
  /\ \A t \in Threads : phase[t] # "idle" => call[t] \in Call
  /\ \A t \in Threads : phase[t] \in {"ops", "after"} => call[t].kind = "load"
  /\ \A i \in DOMAIN pool : pool[i].kind = "load" => pool[i].arg \in Values

\* The members an operation is for, and those a read is for.
MemberLists == {Order} \cup Range(Takers)

LEMMA ListShape ==
  /\ Order \in MemberLists /\ \A v \in Values : Takers[v] \in MemberLists
  /\ \A ms \in MemberLists : ms \in Seq(Members) /\ IsInjective(ms) /\ Range(ms) \subseteq Members
<1>1. \A v \in Values : Takers[v] \in Range(Takers)
  BY DEF Range
<1>2. \A ms \in Range(Takers) : ms \in Seq(Members)
  BY DEF Range
<1>3. \A ms \in Seq(Members) : Range(ms) \subseteq Members
  BY DEF Range
<1>4. QED
  BY <1>1, <1>2, <1>3 DEF MemberLists

LEMMA TasksShape ==
  ASSUME NEW t \in Threads, NEW kind \in {"load", "read", "refresh"},
         NEW arg \in Values \cup {None}, NEW ms \in MemberLists
  PROVE  /\ Tasks(t, kind, arg, ms) \in Seq(Task)
         /\ DOMAIN Tasks(t, kind, arg, ms) = DOMAIN ms
         /\ \A i \in DOMAIN ms : Tasks(t, kind, arg, ms)[i] =
              [by |-> t, member |-> ms[i], kind |-> kind, arg |-> arg]
<1>1. ms \in Seq(Members)
  BY ListShape
<1>2. \A i \in DOMAIN ms : [by |-> t, member |-> ms[i], kind |-> kind, arg |-> arg] \in Task
  BY <1>1 DEF Task
<1>3. DOMAIN ms = 1..Len(ms) /\ Len(ms) \in Nat
  BY <1>1
<1>4. QED
  BY <1>2, <1>3 DEF Tasks

LEMMA OrphanedShape ==
  ASSUME TypeOK, NEW t \in Threads
  PROVE  /\ Orphaned(t) \in Seq(Task) /\ DOMAIN Orphaned(t) = DOMAIN pool
         /\ \A i \in DOMAIN pool :
              /\ Orphaned(t)[i].member = pool[i].member
              /\ Orphaned(t)[i].kind = pool[i].kind /\ Orphaned(t)[i].arg = pool[i].arg
              /\ Orphaned(t)[i].by = IF pool[i].by = t THEN None ELSE pool[i].by
<1>1. /\ DOMAIN pool = 1..Len(pool) /\ Len(pool) \in Nat
      /\ \A i \in DOMAIN pool : pool[i] \in Task
  BY DEF TypeOK
<1>2. \A i \in DOMAIN pool : [pool[i] EXCEPT !.by = None] \in Task
  BY <1>1 DEF Task
<1>3. Orphaned(t) \in [1..Len(pool) -> Task]
  BY <1>1, <1>2 DEF Orphaned
<1>4. ASSUME NEW i \in DOMAIN pool
      PROVE  /\ Orphaned(t)[i].member = pool[i].member
             /\ Orphaned(t)[i].kind = pool[i].kind /\ Orphaned(t)[i].arg = pool[i].arg
             /\ Orphaned(t)[i].by = IF pool[i].by = t THEN None ELSE pool[i].by
  <2>1. pool[i] \in Task
    BY <1>1
  <2>2. Orphaned(t)[i] = IF pool[i].by = t THEN [pool[i] EXCEPT !.by = None] ELSE pool[i]
    BY DEF Orphaned
  <2>3. QED
    BY <2>1, <2>2 DEF Task
<1>5. QED
  BY <1>1, <1>3, <1>4

LEMMA SubmittedType ==
  ASSUME TypeOK, NEW t \in Threads, NEW ms
  PROVE  Submitted(t, ms) \in [Threads -> [Members -> Futures]]
BY DEF TypeOK, Submitted, Futures

LEMMA LeftType ==
  ASSUME TypeOK, NEW T, Shows \subseteq T, NEW refs \in [Members -> T], NEW m \in Members
  PROVE  Left(refs, m) \in [Members -> T]
BY DEF TypeOK, Left

LEMMA SetType ==
  ASSUME NEW futures \in [Threads -> [Members -> Futures]], NEW task \in Task,
         NEW result \in Futures
  PROVE  Set(futures, task, result) \in [Threads -> [Members -> Futures]]
BY DEF Set, Task

LEMMA InitTypeInv == Init => TypeInv
<1>1. SUFFICES ASSUME Init PROVE TypeInv
  OBVIOUS
<1>2. /\ value \in [Members -> Shows] /\ pool \in Seq(Task)
      /\ view \in [Members -> Refs \cup {None}] /\ shown \in [Members -> Shows \cup {None}]
      /\ fut \in [Threads -> [Members -> Futures]]
  BY <1>1 DEF Init, Nobody, Shows, Refs, Futures
<1>3. /\ phase \in [Threads -> {"idle", "hydrate", "start", "ops", "after", "read", "close"}]
      /\ call \in [Threads -> Call \cup {None}]
      /\ rest \in [Threads -> Seq(Values) \cup {None}]
      /\ errors \in [Threads -> SUBSET Members]
  BY <1>1 DEF Init
<1>4. /\ hydrated \in BOOLEAN /\ detached \subseteq Threads /\ late \subseteq Members
      /\ expected \in Values \cup {None} /\ solo \in Threads \cup {None}
      /\ calls \in Nat /\ faults \in Nat
  BY <1>1 DEF Init
<1>5. /\ \A t \in Threads : phase[t] = "idle"
      /\ \A i \in DOMAIN pool : pool[i].kind = "load" => pool[i].arg \in Values
  <2>1. DOMAIN pool = {}
    BY <1>1 DEF Init
  <2>2. QED
    BY <1>1, <2>1 DEF Init
<1>6. QED
  BY <1>2, <1>3, <1>4, <1>5 DEF TypeInv, TypeOK

\* What is in the pool after tasks were added to it, after one was done, and
\* after a thread gave up on its own.
PoolTyped ==
  /\ pool \in Seq(Task)
  /\ \A i \in DOMAIN pool : pool[i].kind = "load" => pool[i].arg \in Values

LEMMA PoolJoined ==
  ASSUME NEW s \in Seq(Task), \A i \in DOMAIN s : s[i].kind = "load" => s[i].arg \in Values,
         NEW t \in Threads, NEW kind \in {"load", "read", "refresh"},
         NEW arg \in Values \cup {None}, NEW ms \in MemberLists,
         kind = "load" => arg \in Values, pool' = s \o Tasks(t, kind, arg, ms)
  PROVE  PoolTyped'
<1> DEFINE r == Tasks(t, kind, arg, ms)
<1>1. /\ r \in Seq(Task) /\ \A i \in DOMAIN r : r[i].kind = "load" => r[i].arg \in Values
  <2>1. /\ r \in Seq(Task) /\ DOMAIN r = DOMAIN ms
        /\ \A i \in DOMAIN ms :
             r[i] = [by |-> t, member |-> ms[i], kind |-> kind, arg |-> arg]
    BY TasksShape
  <2> HIDE DEF r
  <2>2. QED
    BY <2>1
<1> HIDE DEF r
<1>2. /\ s \o r \in Seq(Task)
      /\ \A i \in DOMAIN (s \o r) :
           \/ i \in DOMAIN s /\ (s \o r)[i] = s[i]
           \/ i - Len(s) \in DOMAIN r /\ (s \o r)[i] = r[i - Len(s)]
  BY <1>1, Joined
<1>3. pool' = s \o r
  BY DEF r
<1>4. QED
  BY <1>1, <1>2, <1>3 DEF PoolTyped

LEMMA PoolWorked ==
  ASSUME PoolTyped, NEW i \in DOMAIN pool, pool' = RemoveAt(pool, i)
  PROVE  PoolTyped'
BY WithoutOne DEF PoolTyped

LEMMA PoolOrphaned ==
  ASSUME TypeInv, NEW t \in Threads
  PROVE  /\ Orphaned(t) \in Seq(Task)
         /\ \A i \in DOMAIN Orphaned(t) :
              Orphaned(t)[i].kind = "load" => Orphaned(t)[i].arg \in Values
BY OrphanedShape DEF TypeInv

LEMMA WorkTypes ==
  ASSUME TypeInv, NEW i \in Running, Work(i)
  PROVE  TypeInv'
<1>1. /\ i \in DOMAIN pool /\ pool[i] \in Task /\ pool[i].member \in Members
      /\ pool[i].kind = "load" => pool[i].arg \in Values
      /\ PoolTyped
  <2>1. i \in DOMAIN pool
    BY DEF Running
  <2>2. PoolTyped /\ pool[i] \in Task
    BY <2>1 DEF TypeInv, TypeOK, PoolTyped
  <2>3. QED
    BY <2>1, <2>2 DEF PoolTyped, Task
<1>2. PoolTyped'
  BY <1>1, PoolWorked DEF Work, Load, Read, Raise
<1>3. ASSUME UNCHANGED <<hydrated, shown, phase, call, rest, errors, detached, expected, solo, calls>>,
             value' \in [Members -> Shows], view' \in [Members -> Refs \cup {None}],
             fut' \in [Threads -> [Members -> Futures]], late' \subseteq Members,
             faults' \in Nat
      PROVE  TypeInv'
  BY <1>2, <1>3 DEF TypeInv, TypeOK, PoolTyped
<1>4. CASE Load(i)
  <2>1. value' \in [Members -> Shows]
    BY <1>1, <1>4 DEF Load, TypeInv, TypeOK, Shows
  <2>2. fut' \in [Threads -> [Members -> Futures]]
    BY <1>1, <1>4, SetType DEF Load, TypeInv, TypeOK, Futures
  <2>3. late' \subseteq Members
    BY <1>1, <1>4 DEF Load, TypeInv, TypeOK
  <2>4. QED
    BY <1>3, <1>4, <2>1, <2>2, <2>3 DEF Load, TypeInv, TypeOK, deviceVars, bounds
<1>5. CASE Read(i)
  <2> DEFINE m == pool[i].member
             rebuilt == pool[i].kind = "refresh" /\ m \in Rebuilds
             left == [t \in Threads |-> Left(fut[t], m)]
  <2>1. view' \in [Members -> Refs \cup {None}]
    <3>1. Left(view, m) \in [Members -> Refs \cup {None}]
      BY <1>1, LeftType DEF TypeInv, TypeOK, Refs
    <3>2. QED
      BY <1>5, <3>1 DEF Read, TypeInv, TypeOK
  <2>2. fut' \in [Threads -> [Members -> Futures]]
    <3>1. \A t \in Threads : Left(fut[t], m) \in [Members -> Futures]
      BY <1>1, LeftType DEF TypeInv, TypeOK, Refs, Futures
    <3>2. left \in [Threads -> [Members -> Futures]]
      BY <3>1
    <3>3. Live \in Futures
      BY DEF Futures, Refs
    <3>4. fut' \in {Set(left, pool[i], Live), Set(fut, pool[i], Live)}
      BY <1>5 DEF Read
    <3> HIDE DEF left
    <3>5. \A futures \in {left, fut} :
            Set(futures, pool[i], Live) \in [Threads -> [Members -> Futures]]
      BY <1>1, <3>2, <3>3, SetType DEF TypeInv, TypeOK
    <3>6. QED
      BY <3>4, <3>5
  <2>3. QED
    BY <1>3, <1>5, <2>1, <2>2 DEF Read, TypeInv, TypeOK, historyVars, bounds
<1>6. CASE Raise(i)
  <2>1. value' \in [Members -> Shows]
    BY <1>1, <1>6 DEF Raise, TypeInv, TypeOK, Shows
  <2>2. fut' \in [Threads -> [Members -> Futures]]
    BY <1>1, <1>6, SetType DEF Raise, TypeInv, TypeOK, Futures
  <2>3. late' \subseteq Members
    BY <1>1, <1>6 DEF Raise, TypeInv, TypeOK
  <2>4. faults' \in Nat
    BY <1>6 DEF Raise, TypeInv, TypeOK
  <2>5. QED
    BY <1>3, <1>6, <2>1, <2>2, <2>3, <2>4 DEF Raise, TypeInv, TypeOK, deviceVars
<1>7. QED
  BY <1>4, <1>5, <1>6 DEF Work

LEMMA DoneTypes ==
  ASSUME TypeInv, NEW t \in Threads, Done(t)
  PROVE  /\ view' \in [Members -> Refs \cup {None}] /\ detached' \subseteq Threads
         /\ fut' \in [Threads -> [Members -> Futures]] /\ PoolTyped'
         /\ errors' \in [Threads -> SUBSET Members]
<1>1. view' \in [Members -> Refs \cup {None}]
  BY DEF Done, Merge, Answered, TypeInv, TypeOK
<1>2. PoolTyped'
  BY PoolOrphaned DEF Done, PoolTyped
<1>3. Nobody \in [Members -> Futures]
  BY DEF Nobody, Futures
<1>4. QED
  BY <1>1, <1>2, <1>3 DEF Done, TypeInv, TypeOK

\* What a thread does next: nothing, or the next operation of its update.
LEMMA NextCallTypes ==
  ASSUME TypeInv, NEW t \in Threads, phase[t] \in {"after", "read", "close"},
         Idle(t) \/ (rest[t] # None /\ NextOperation(t))
  PROVE  /\ phase' \in [Threads -> {"idle", "hydrate", "start", "ops", "after", "read", "close"}]
         /\ call' \in [Threads -> Call \cup {None}]
         /\ rest' \in [Threads -> Seq(Values) \cup {None}]
         /\ \A u \in Threads : phase'[u] # "idle" => call'[u] \in Call
         /\ \A u \in Threads : phase'[u] \in {"ops", "after"} => call'[u].kind = "load"
         /\ phase'[t] \in {"idle", "start", "close"}
         /\ \A u \in Threads \ {t} : phase'[u] = phase[u] /\ call'[u] = call[u]
<1>0. /\ phase \in [Threads -> {"idle", "hydrate", "start", "ops", "after", "read", "close"}]
      /\ call \in [Threads -> Call \cup {None}]
      /\ rest \in [Threads -> Seq(Values) \cup {None}]
      /\ \A u \in Threads : phase[u] # "idle" => call[u] \in Call
      /\ \A u \in Threads : phase[u] \in {"ops", "after"} => call[u].kind = "load"
  BY DEF TypeInv, TypeOK
<1>1. CASE Idle(t)
  BY <1>0, <1>1 DEF Idle
<1>2. CASE rest[t] # None /\ NextOperation(t)
  <2>1. rest[t] \in Seq(Values) /\ call[t] \in Call
    BY <1>0, <1>2
  <2>2. CASE errors[t] = {} /\ rest[t] # <<>>
    <3>1. Head(rest[t]) \in Values /\ Tail(rest[t]) \in Seq(Values)
      BY <2>1, <2>2
    <3>2. [kind |-> "load", arg |-> Head(rest[t])] \in Call
      BY <3>1 DEF Call
    <3>3. /\ phase' = [phase EXCEPT ![t] = "start"]
          /\ call' = [call EXCEPT ![t] = [kind |-> "load", arg |-> Head(rest[t])]]
          /\ rest' = [rest EXCEPT ![t] = Tail(rest[t])]
      BY <1>2, <2>2 DEF NextOperation
    <3> DEFINE next == [kind |-> "load", arg |-> Head(rest[t])]
               more == Tail(rest[t])
    <3>4. next \in Call /\ more \in Seq(Values) /\ next.kind = "load"
      BY <3>1, <3>2
    <3>5. call' = [call EXCEPT ![t] = next] /\ rest' = [rest EXCEPT ![t] = more]
      BY <3>3
    <3> HIDE DEF next, more
    <3>6. /\ phase' \in [Threads -> {"idle", "hydrate", "start", "ops", "after", "read", "close"}]
          /\ call' \in [Threads -> Call \cup {None}]
          /\ rest' \in [Threads -> Seq(Values) \cup {None}]
      <4>1. phase' \in [Threads -> {"idle", "hydrate", "start", "ops", "after", "read", "close"}]
        BY <1>0, <3>3
      <4>2. call' \in [Threads -> Call \cup {None}]
        BY <1>0, <3>4, <3>5
      <4>3. rest' \in [Threads -> Seq(Values) \cup {None}]
        BY <1>0, <3>4, <3>5
      <4>4. QED
        BY <4>1, <4>2, <4>3
    <3>7. /\ phase'[t] = "start" /\ call'[t] = next
          /\ \A u \in Threads \ {t} : phase'[u] = phase[u] /\ call'[u] = call[u]
      BY <1>0, <3>3, <3>5
    <3>8. ASSUME NEW u \in Threads
          PROVE  /\ phase'[u] # "idle" => call'[u] \in Call
                 /\ phase'[u] \in {"ops", "after"} => call'[u].kind = "load"
      <4>1. CASE u = t
        BY <3>4, <3>7, <4>1
      <4>2. CASE u # t
        BY <1>0, <3>7, <4>2
      <4>3. QED
        BY <4>1, <4>2
    <3>9. QED
      BY <3>6, <3>7, <3>8
  <2>3. CASE ~(errors[t] = {} /\ rest[t] # <<>>)
    <3>1. phase' = [phase EXCEPT ![t] = "close"] /\ call' = call /\ rest' = rest
      BY <1>2, <2>3 DEF NextOperation
    <3>2. QED
      BY <1>0, <2>1, <3>1
  <2>4. QED
    BY <2>2, <2>3
<1>3. QED
  BY <1>1, <1>2

LEMMA ThreadTypes ==
  ASSUME TypeInv, NEW t \in Threads, \/ \E c \in Requests[t] : Begin(t, c)
                                     \/ ThreadStep(t)
  PROVE  TypeInv'
<1>1. /\ pool \in Seq(Task)
      /\ \A i \in DOMAIN pool : pool[i].kind = "load" => pool[i].arg \in Values
  BY DEF TypeInv, TypeOK
<1>2. \A c \in Call : c.kind = "load" => c.arg \in Values
  BY DEF Call
<1>3. \A c \in Call : c.kind # "load" => c.kind \in {"read", "refresh"}
  BY DEF Call
<1>4. ASSUME NEW c \in Requests[t], Begin(t, c) PROVE TypeInv'
  <2>1. /\ call' \in [Threads -> Call \cup {None}] /\ call'[t] \in Call
        /\ \A u \in Threads \ {t} : call'[u] = call[u]
        /\ rest' \in [Threads -> Seq(Values) \cup {None}]
    <3>1. c \in Request
      OBVIOUS
    <3>2. CASE c.kind = "update"
      <4>1. c.arg \in Seq(Values) \ {<<>>}
        BY <3>1, <3>2 DEF Request, Call
      <4>2. Head(c.arg) \in Values /\ Tail(c.arg) \in Seq(Values)
        BY <4>1
      <4>3. [kind |-> "load", arg |-> Head(c.arg)] \in Call
        BY <4>2 DEF Call
      <4>4. /\ call' = [call EXCEPT ![t] = [kind |-> "load", arg |-> Head(c.arg)]]
            /\ rest' = [rest EXCEPT ![t] = Tail(c.arg)]
        BY <1>4, <3>2 DEF Begin
      <4> DEFINE next == [kind |-> "load", arg |-> Head(c.arg)]
                 more == Tail(c.arg)
      <4>5. /\ next \in Call /\ more \in Seq(Values)
            /\ call' = [call EXCEPT ![t] = next] /\ rest' = [rest EXCEPT ![t] = more]
        BY <4>2, <4>3, <4>4
      <4> HIDE DEF next, more
      <4>6. QED
        BY <4>5 DEF TypeInv, TypeOK
    <3>3. CASE c.kind # "update"
      <4>1. c \in Call
        BY <3>1, <3>3 DEF Request
      <4>2. QED
        BY <1>4, <3>3, <4>1 DEF Begin, TypeInv, TypeOK
    <3>4. QED
      BY <3>2, <3>3
  <2>2. PoolTyped' /\ fut' \in [Threads -> [Members -> Futures]]
    <3>1. CASE hydrated
      BY <1>1, <1>4, <3>1 DEF Begin, PoolTyped, TypeInv, TypeOK
    <3>2. CASE ~hydrated
      <4>1. pool' = pool \o Tasks(t, "read", None, Order) /\ fut' = Submitted(t, Order)
        BY <1>4, <3>2 DEF Begin
      <4>2. PoolTyped'
        BY <1>1, <4>1, PoolJoined, ListShape
      <4>3. QED
        BY <4>1, <4>2, SubmittedType DEF TypeInv
    <3>3. QED
      BY <3>1, <3>2
  <2>3. /\ phase' \in [Threads -> {"idle", "hydrate", "start", "ops", "after", "read", "close"}]
        /\ phase'[t] \in {"hydrate", "start"} /\ \A u \in Threads \ {t} : phase'[u] = phase[u]
    BY <1>4 DEF Begin, TypeInv, TypeOK
  <2>4. UNCHANGED <<value, deviceVars, errors, detached, historyVars, faults>> /\ calls' \in Nat
    BY <1>4 DEF Begin, TypeInv, TypeOK
  <2>5. QED
    BY <2>1, <2>2, <2>3, <2>4 DEF TypeInv, TypeOK, PoolTyped, deviceVars, historyVars
<1>5. ASSUME FanOut(t) PROVE TypeInv'
  <2> DEFINE v == call[t].arg
  <2>1. v \in Values
    BY <1>2, <1>5 DEF FanOut, TypeInv
  <2>2. /\ pool' = pool \o Tasks(t, "load", v, Takers[v]) /\ fut' = Submitted(t, Takers[v])
    BY <1>5 DEF FanOut
  <2>3. PoolTyped'
    BY <1>1, <2>1, <2>2, PoolJoined, ListShape
  <2>4. fut' \in [Threads -> [Members -> Futures]]
    BY <2>2, SubmittedType DEF TypeInv
  <2>5. QED
    BY <1>5, <2>3, <2>4 DEF FanOut, TypeInv, TypeOK, PoolTyped, deviceVars, bounds
<1>6. ASSUME ReadAll(t) PROVE TypeInv'
  <2>1. /\ pool' = pool \o Tasks(t, call[t].kind, None, Order) /\ fut' = Submitted(t, Order)
        /\ call[t].kind \in {"read", "refresh"}
    BY <1>3, <1>6 DEF ReadAll, TypeInv
  <2>2. PoolTyped'
    BY <1>1, <2>1, PoolJoined, ListShape
  <2>3. fut' \in [Threads -> [Members -> Futures]]
    BY <2>1, SubmittedType DEF TypeInv
  <2>4. QED
    BY <1>6, <2>2, <2>3 DEF ReadAll, TypeInv, TypeOK, PoolTyped, deviceVars, historyVars, bounds
<1>7. ASSUME Hydrate(t) PROVE TypeInv'
  <2>1. view' \in [Members -> Refs \cup {None}]
    BY <1>7 DEF Hydrate, Answered, TypeInv, TypeOK
  <2>2. PoolTyped'
    BY <1>7, PoolOrphaned DEF Hydrate, PoolTyped
  <2>3. Nobody \in [Members -> Futures]
    BY DEF Nobody, Futures
  <2>4. fut' \in [Threads -> [Members -> Futures]]
    BY <1>7, <2>3 DEF Hydrate, TypeInv, TypeOK
  <2>5. QED
    BY <1>7, <2>1, <2>2, <2>4 DEF Hydrate, TypeInv, TypeOK, PoolTyped, historyVars, bounds
<1>8. ASSUME Gather(t) PROVE TypeInv'
  <2>1. /\ pool' = Orphaned(t) \o Tasks(t, "read", None, Order) /\ fut' = Submitted(t, Order)
    BY <1>8 DEF Gather
  <2>2. PoolTyped'
    BY <2>1, PoolOrphaned, PoolJoined, ListShape
  <2>3. fut' \in [Threads -> [Members -> Futures]]
    BY <2>1, SubmittedType DEF TypeInv
  <2>4. errors' \in [Threads -> SUBSET Members] /\ expected' \in Values \cup {None}
    BY <1>2, <1>8 DEF Gather, Failures, TypeInv, TypeOK
  <2>5. QED
    BY <1>8, <2>2, <2>3, <2>4 DEF Gather, TypeInv, TypeOK, PoolTyped, deviceVars, bounds
<1>9. ASSUME Finish(t) PROVE TypeInv'
  <2>1. Done(t) /\ phase[t] = "after"
    BY <1>9 DEF Finish
  <2>2. shown' \in [Members -> Shows \cup {None}] /\ late' \subseteq Members
    BY <1>9, <2>1, DoneTypes DEF Finish, Sent, Serialised, Refs, TypeInv, TypeOK
  <2>3. Idle(t) \/ (rest[t] # None /\ NextOperation(t))
    BY <1>9 DEF Finish
  <2>4. QED
    BY <1>9, <2>1, <2>2, <2>3, DoneTypes, NextCallTypes
       DEF Finish, TypeInv, TypeOK, PoolTyped, bounds
<1>10. ASSUME Close(t) PROVE TypeInv'
  <2>1. shown' \in [Members -> Shows \cup {None}] /\ late' \subseteq Members
    BY <1>10 DEF Close, Sent, Serialised, Refs, TypeInv, TypeOK
  <2>2. Idle(t) /\ phase[t] = "close"
    BY <1>10 DEF Close
  <2>3. QED
    BY <1>10, <2>1, <2>2, NextCallTypes DEF Close, TypeInv, TypeOK, bounds
<1>11. CASE UnknownEntry(t)
  BY <1>11 DEF UnknownEntry, TypeInv, TypeOK, deviceVars, historyVars, bounds
<1>12. ASSUME Return(t) PROVE TypeInv'
  <2>1. Done(t) /\ Idle(t) /\ phase[t] = "read"
    BY <1>12 DEF Return
  <2>2. QED
    BY <1>12, <2>1, DoneTypes, NextCallTypes
       DEF Return, TypeInv, TypeOK, PoolTyped, historyVars, bounds
<1>13. QED
  BY <1>4, <1>5, <1>6, <1>7, <1>8, <1>9, <1>10, <1>11, <1>12 DEF ThreadStep

LEMMA NextTypeInv == TypeInv /\ [Next]_vars => TypeInv'
<1>1. SUFFICES ASSUME TypeInv, [Next]_vars PROVE TypeInv'
  OBVIOUS
<1>2. ASSUME NEW m \in Members, NEW v \in Values, Direct(m, v) PROVE TypeInv'
  BY <1>1, <1>2 DEF Direct, TypeInv, TypeOK, Shows, deviceVars, threadVars
<1>3. ASSUME UNCHANGED vars PROVE TypeInv'
  BY <1>1, <1>3 DEF vars, deviceVars, threadVars, historyVars, bounds, TypeInv, TypeOK
<1>4. QED
  BY <1>1, <1>2, <1>3, ThreadTypes, WorkTypes DEF Next

\* Whatever answers come late, futures, references and tasks are never
\* confused: a caller that merges answers merges answers only.
THEOREM TypeCorrect == Spec => []TypeOK
<1>1. TypeInv => TypeOK
  BY DEF TypeInv
<1>2. QED
  BY InitTypeInv, NextTypeInv, <1>1, PTL DEF Spec

-----------------------------------------------------------------------------
(* Operations and their tasks.                                             *)

\* A task that somebody waits for is one of the call he is in, given what
\* threads do, their futures and their calls.
AskedBy(task, p, f, c) ==
  IF task.kind = "load"
  THEN /\ p[task.by] = "ops" /\ f[task.by][task.member] = "pending"
       /\ task.arg = c[task.by].arg
  ELSE p[task.by] \in {"hydrate", "after", "read"}

\* An operation has one task for each member.
OneEach(s) ==
  \A i, j \in DOMAIN s :
    /\ s[i].kind = "load" /\ s[j].kind = "load"
    /\ s[i].by = s[j].by /\ s[i].by # None /\ s[i].member = s[j].member
    => i = j

TasksInv ==
  /\ \A i \in DOMAIN pool : pool[i].by # None => AskedBy(pool[i], phase, fut, call)
  /\ OneEach(pool)

NoLoads == \A i \in DOMAIN pool : pool[i].kind # "load"

\* An operation that runs alone has all such tasks, and the members that are
\* done show its value.
SoloInv ==
  solo # None /\ phase[solo] = "ops" =>
    /\ expected = None
    /\ \A i \in DOMAIN pool : pool[i].kind = "load" => pool[i].by = solo
    /\ \A m \in Range(Takers[call[solo].arg]) :
         /\ fut[solo][m] \in {"pending", "done", "failed"}
         /\ fut[solo][m] = "done" => value[m] = call[solo].arg

StepInv == TasksInv /\ SoloInv /\ (expected # None => NoLoads /\ InStep)

\* Unless somebody is going to broadcast, the clients know all but what is late.
ShownInv ==
  (\A t \in Threads : phase[t] \notin {"ops", "after"}) /\ shown # Nobody =>
    \A m \in Members \ late : shown[m] = value[m]

-----------------------------------------------------------------------------
(* What steps do to the tasks.                                             *)

OnlyThread(t) ==
  \A u \in Threads \ {t} : phase'[u] = phase[u] /\ fut'[u] = fut[u] /\ call'[u] = call[u]

\* The pool, with nobody waiting for the tasks of t.
Tidied(s, t) ==
  /\ s \in Seq(Task) /\ DOMAIN s = DOMAIN pool
  /\ \A i \in DOMAIN pool :
       /\ s[i].kind = pool[i].kind /\ s[i].member = pool[i].member /\ s[i].arg = pool[i].arg
       /\ s[i].by = IF pool[i].by = t THEN None ELSE pool[i].by

\* Operations are in the pool that were there before, perhaps without t waiting.
LoadsStay(t) ==
  \A i \in DOMAIN pool' : pool'[i].kind = "load" =>
    \E j \in DOMAIN pool :
      /\ pool[j].kind = "load"
      /\ pool[j].by = pool'[i].by \/ pool[j].by = t

LEMMA TaskTypes ==
  ASSUME TypeInv, NEW i \in DOMAIN pool
  PROVE  /\ pool[i] \in Task /\ pool[i].by \in Threads \cup {None}
         /\ pool[i].member \in Members
<1>1. pool[i] \in Task
  BY DEF TypeInv, TypeOK
<1>2. QED
  BY <1>1 DEF Task

LEMMA OrphanedTidied ==
  ASSUME TypeInv, NEW t \in Threads
  PROVE  Tidied(Orphaned(t), t)
BY OrphanedShape DEF Tidied, TypeInv

\* So is the pool itself while t waits for nothing.
LEMMA PoolTidied ==
  ASSUME TypeInv, TasksInv, NEW t \in Threads, phase[t] \in {"idle", "start", "close"}
  PROVE  Tidied(pool, t)
<1>1. ASSUME NEW i \in DOMAIN pool PROVE pool[i].by # t
  BY <1>1 DEF TasksInv, AskedBy
<1>2. QED
  BY <1>1 DEF Tidied, TypeInv, TypeOK

LEMMA TidiedTasks ==
  ASSUME TypeInv, TasksInv, NEW t \in Threads, NEW s, Tidied(s, t), OnlyThread(t)
  PROVE  /\ \A i \in DOMAIN s : s[i].by # None =>
              /\ s[i].by \in Threads \ {t} /\ AskedBy(s[i], phase', fut', call')
         /\ OneEach(s)
<1>1. ASSUME NEW i \in DOMAIN s, s[i].by # None
      PROVE  s[i].by \in Threads \ {t} /\ AskedBy(s[i], phase', fut', call')
  <2>1. i \in DOMAIN pool /\ s[i].by = pool[i].by /\ pool[i].by # t
    BY <1>1 DEF Tidied
  <2>2. pool[i].by \in Threads \ {t} /\ AskedBy(pool[i], phase, fut, call)
    BY <1>1, <2>1, TaskTypes DEF TasksInv
  <2>3. /\ s[i].kind = pool[i].kind /\ s[i].member = pool[i].member /\ s[i].arg = pool[i].arg
    BY <2>1 DEF Tidied
  <2>4. QED
    BY <2>1, <2>2, <2>3 DEF AskedBy, OnlyThread
<1>2. OneEach(s)
  BY DEF Tidied, TasksInv, OneEach
<1>3. QED
  BY <1>1, <1>2

LEMMA TasksTidied ==
  ASSUME TypeInv, TasksInv, NEW t \in Threads, Tidied(pool', t), OnlyThread(t)
  PROVE  TasksInv' /\ LoadsStay(t)
<1>1. TasksInv'
  BY TidiedTasks DEF TasksInv
<1>2. LoadsStay(t)
  BY DEF LoadsStay, Tidied
<1>3. QED
  BY <1>1, <1>2

\* The tasks of s, and some that t asked for.
Grown(s, t, kind) ==
  \A i \in DOMAIN pool' :
    \/ i \in DOMAIN s /\ pool'[i] = s[i]
    \/ pool'[i].by = t /\ pool'[i].kind = kind

LEMMA TasksGrown ==
  ASSUME TypeInv, TasksInv, NEW t \in Threads, NEW s, Tidied(s, t), OnlyThread(t),
         NEW kind \in {"load", "read", "refresh"}, NEW arg \in Values \cup {None},
         NEW ms \in MemberLists, pool' = s \o Tasks(t, kind, arg, ms),
         kind = "load" => phase'[t] = "ops" /\ arg = call'[t].arg,
         kind = "load" => \A m \in Range(ms) : fut'[t][m] = "pending",
         kind # "load" => phase'[t] \in {"hydrate", "after", "read"}
  PROVE  TasksInv' /\ Grown(s, t, kind) /\ (kind # "load" => LoadsStay(t))
<1> DEFINE r == Tasks(t, kind, arg, ms)
<1>1. /\ r \in Seq(Task) /\ DOMAIN r = DOMAIN ms
      /\ \A i \in DOMAIN ms :
           r[i].by = t /\ r[i].member = ms[i] /\ r[i].kind = kind /\ r[i].arg = arg
  <2>1. /\ r \in Seq(Task) /\ DOMAIN r = DOMAIN ms
        /\ \A i \in DOMAIN ms :
             r[i] = [by |-> t, member |-> ms[i], kind |-> kind, arg |-> arg]
    BY ONLY TasksShape, t \in Threads, kind \in {"load", "read", "refresh"},
       arg \in Values \cup {None}, ms \in MemberLists
  <2> HIDE DEF r
  <2>2. QED
    BY <2>1
<1>2. pool' = s \o r
  OBVIOUS
<1> HIDE DEF r
<1>3. s \in Seq(Task) /\ DOMAIN s = DOMAIN pool
  BY DEF Tidied
<1>4. /\ \A i \in DOMAIN pool' :
           \/ i \in DOMAIN s /\ pool'[i] = s[i]
           \/ i - Len(s) \in DOMAIN r /\ pool'[i] = r[i - Len(s)] /\ i \notin DOMAIN s
      /\ Len(s) \in Nat /\ pool' \in Seq(Task)
  BY <1>1, <1>2, <1>3, Joined
<1>5. /\ \A i \in DOMAIN s : s[i].by # None =>
           /\ s[i].by \in Threads \ {t} /\ AskedBy(s[i], phase', fut', call')
      /\ OneEach(s)
  BY TidiedTasks
<1>6. ms \in Seq(Members) /\ IsInjective(ms)
  BY ListShape
<1>7. ASSUME NEW i \in DOMAIN ms PROVE AskedBy(r[i], phase', fut', call')
  <2>1. ms[i] \in Range(ms)
    BY <1>7 DEF Range
  <2>2. QED
    BY <1>1, <1>7, <2>1 DEF AskedBy
<1>8. ASSUME NEW i \in DOMAIN pool', pool'[i].by # None
      PROVE  AskedBy(pool'[i], phase', fut', call')
  BY <1>1, <1>4, <1>5, <1>7, <1>8
<1>9. OneEach(pool')
  <2>1. SUFFICES ASSUME NEW i \in DOMAIN pool', NEW j \in DOMAIN pool',
                        pool'[i].kind = "load", pool'[j].kind = "load",
                        pool'[i].by = pool'[j].by, pool'[i].by # None,
                        pool'[i].member = pool'[j].member
                 PROVE  i = j
    BY DEF OneEach
  <2>2. CASE i \in DOMAIN s /\ j \in DOMAIN s
    BY <1>4, <1>5, <2>1, <2>2 DEF OneEach
  <2>3. CASE i \notin DOMAIN s /\ j \notin DOMAIN s
    <3>1. /\ i - Len(s) \in DOMAIN ms /\ j - Len(s) \in DOMAIN ms
          /\ ms[i - Len(s)] = ms[j - Len(s)]
      BY <1>1, <1>4, <2>1, <2>3
    <3>2. i - Len(s) = j - Len(s)
      BY <1>6, <3>1 DEF IsInjective
    <3>3. i \in Nat /\ j \in Nat
      BY <1>4
    <3>4. QED
      BY <1>4, <3>2, <3>3
  <2>4. CASE i \in DOMAIN s /\ j \notin DOMAIN s
    BY <1>1, <1>4, <1>5, <2>1, <2>4
  <2>5. CASE i \notin DOMAIN s /\ j \in DOMAIN s
    BY <1>1, <1>4, <1>5, <2>1, <2>5
  <2>6. QED
    BY <2>2, <2>3, <2>4, <2>5
<1>10. TasksInv'
  BY <1>8, <1>9 DEF TasksInv
<1>11. \A i \in DOMAIN pool' :
         \/ i \in DOMAIN s /\ pool'[i] = s[i]
         \/ pool'[i].by = t /\ pool'[i].kind = kind
  BY <1>1, <1>4
<1>12. kind # "load" => LoadsStay(t)
  <2>1. SUFFICES ASSUME NEW i \in DOMAIN pool', pool'[i].kind = "load", kind # "load"
                 PROVE  \E j \in DOMAIN pool :
                          /\ pool[j].kind = "load"
                          /\ pool[j].by = pool'[i].by \/ pool[j].by = t
    BY DEF LoadsStay
  <2>2. i \in DOMAIN s /\ pool'[i] = s[i]
    BY <1>11, <2>1
  <2>3. /\ i \in DOMAIN pool /\ pool[i].kind = "load"
        /\ pool[i].by = pool'[i].by \/ pool[i].by = t
    BY <1>3, <2>1, <2>2 DEF Tidied
  <2>4. QED
    BY <2>3
<1>13. QED
  BY <1>10, <1>11, <1>12 DEF Grown

\* A member ends a task: whoever waited for it waits no more, all others do.
LEMMA TasksWorked ==
  ASSUME TypeInv, TasksInv, NEW i \in DOMAIN pool, pool' = RemoveAt(pool, i),
         UNCHANGED <<phase, call>>,
         \A u \in Threads, m \in Members : fut[u][m] = "pending" =>
           fut'[u][m] = "pending" \/ (pool[i].by = u /\ pool[i].member = m)
  PROVE  /\ TasksInv'
         /\ \A j \in DOMAIN pool' : \E k \in DOMAIN pool \ {i} : pool'[j] = pool[k]
<1>1. pool \in Seq(Task)
  BY DEF TypeInv, TypeOK
<1>2. /\ \A j \in DOMAIN pool' :
           Before(i, j) \in DOMAIN pool \ {i} /\ pool'[j] = pool[Before(i, j)]
      /\ \A j, k \in DOMAIN pool' : Before(i, j) = Before(i, k) => j = k
  BY <1>1, WithoutOne
<1>3. ASSUME NEW j \in DOMAIN pool', pool'[j].by # None
      PROVE  AskedBy(pool'[j], phase', fut', call')
  <2> DEFINE k == Before(i, j)
  <2>1. k \in DOMAIN pool /\ k # i /\ pool'[j] = pool[k]
    BY <1>2
  <2> HIDE DEF k
  <2>2. /\ AskedBy(pool[k], phase, fut, call)
        /\ pool[k].by \in Threads /\ pool[k].member \in Members
    BY <1>3, <2>1, TaskTypes DEF TasksInv
  <2>3. CASE pool[k].kind # "load"
    BY <2>1, <2>2, <2>3 DEF AskedBy
  <2>4. CASE pool[k].kind = "load"
    <3>1. ~(pool[i].by = pool[k].by /\ pool[i].member = pool[k].member)
      <4>1. SUFFICES ASSUME pool[i].by = pool[k].by, pool[i].member = pool[k].member
                     PROVE  FALSE
        OBVIOUS
      <4>2. AskedBy(pool[i], phase, fut, call)
        BY <1>3, <2>1, <4>1 DEF TasksInv
      <4>3. pool[i].kind = "load"
        BY <2>2, <2>4, <4>1, <4>2 DEF AskedBy
      <4>4. QED
        BY <1>3, <2>1, <2>4, <4>1, <4>3 DEF TasksInv, OneEach
    <3>2. fut'[pool[k].by][pool[k].member] = "pending"
      BY <2>2, <2>4, <3>1 DEF AskedBy
    <3>3. QED
      BY <2>1, <2>2, <2>4, <3>2 DEF AskedBy
  <2>5. QED
    BY <2>3, <2>4
<1>4. OneEach(pool')
  BY <1>2 DEF TasksInv, OneEach
<1>5. QED
  BY <1>2, <1>3, <1>4 DEF TasksInv

-----------------------------------------------------------------------------
(* Operations that run alone.                                              *)

LEMMA StepInit == Init => StepInv
<1>1. SUFFICES ASSUME Init PROVE StepInv
  OBVIOUS
<1>2. DOMAIN pool = {}
  BY <1>1 DEF Init
<1>3. QED
  BY <1>1, <1>2 DEF Init, StepInv, TasksInv, OneEach, SoloInv

\* Steps of a thread after which it has no operation under way.
LEMMA SoloKept ==
  ASSUME TypeInv, StepInv, NEW t \in Threads, OnlyThread(t), phase'[t] # "ops",
         UNCHANGED <<value, solo, expected>>, LoadsStay(t)
  PROVE  SoloInv' /\ (expected' # None => NoLoads' /\ InStep')
<1>1. SoloInv'
  <2>1. SUFFICES ASSUME solo # None, phase'[solo] = "ops" PROVE SoloInv'
    BY DEF SoloInv
  <2>2. solo \in Threads \ {t}
    BY <2>1 DEF TypeInv, TypeOK
  <2>3. phase[solo] = "ops" /\ fut'[solo] = fut[solo] /\ call'[solo] = call[solo]
    BY <2>1, <2>2 DEF OnlyThread
  <2>4. ASSUME NEW i \in DOMAIN pool', pool'[i].kind = "load"
        PROVE  pool'[i].by = solo
    <3>1. PICK j \in DOMAIN pool : pool[j].kind = "load"
                                   /\ (pool[j].by = pool'[i].by \/ pool[j].by = t)
      BY <2>4 DEF LoadsStay
    <3>2. pool[j].by = solo
      BY <2>1, <2>3, <3>1 DEF StepInv, SoloInv
    <3>3. QED
      BY <2>2, <3>1, <3>2
  <2>5. QED
    BY <2>1, <2>3, <2>4 DEF StepInv, SoloInv
<1>2. ASSUME expected' # None PROVE NoLoads' /\ InStep'
  BY <1>2 DEF StepInv, NoLoads, InStep, LoadsStay
<1>3. QED
  BY <1>1, <1>2

LEMMA FanOutStep ==
  ASSUME TypeInv, StepInv, NEW t \in Threads, FanOut(t)
  PROVE  StepInv'
<1>0. phase[t] = "start" /\ call[t].arg \in Values
  BY DEF FanOut, TypeInv, Call
<1>1. PICK v \in Values : v = call[t].arg
  BY <1>0
<1>2. /\ pool' = pool \o Tasks(t, "load", v, Takers[v]) /\ fut' = Submitted(t, Takers[v])
      /\ phase' = [phase EXCEPT ![t] = "ops"] /\ call' = call
      /\ expected' = None /\ solo' \in {t, None} /\ (solo' = t => NoLoads)
  BY <1>1 DEF FanOut, NoLoads
<1>3. /\ OnlyThread(t) /\ phase'[t] = "ops"
      /\ \A m \in Range(Takers[v]) : fut'[t][m] = "pending"
  BY <1>1, <1>2, ListShape DEF OnlyThread, Submitted, TypeInv, TypeOK
<1>4. Tidied(pool, t)
  BY <1>0, PoolTidied DEF StepInv
<1>5. /\ TasksInv'
      /\ \A i \in DOMAIN pool' :
           \/ i \in DOMAIN pool /\ pool'[i] = pool[i]
           \/ pool'[i].by = t /\ pool'[i].kind = "load"
  <2>1. PICK ms \in MemberLists : ms = Takers[v]
    BY <1>1, ListShape
  <2>2. TasksInv /\ v = call'[t].arg /\ v \in Values \cup {None}
    BY <1>1, <1>2 DEF StepInv
  <2>3. pool' = pool \o Tasks(t, "load", v, ms) /\ \A m \in Range(ms) : fut'[t][m] = "pending"
    BY <1>2, <1>3, <2>1
  <2>4. TasksInv' /\ Grown(pool, t, "load")
    BY <1>3, <1>4, <2>2, <2>3, TasksGrown
  <2>5. QED
    BY <2>4 DEF Grown
<1>6. SoloInv'
  <2>1. SUFFICES ASSUME solo' = t PROVE SoloInv'
    BY <1>2 DEF SoloInv
  <2>2. \A i \in DOMAIN pool' : pool'[i].kind = "load" => pool'[i].by = t
    BY <1>2, <1>5, <2>1 DEF NoLoads
  <2>3. QED
    BY <1>1, <1>2, <1>3, <2>1, <2>2 DEF SoloInv
<1>7. QED
  BY <1>2, <1>5, <1>6 DEF StepInv

LEMMA GatherStep ==
  ASSUME TypeInv, StepInv, NEW t \in Threads, Gather(t)
  PROVE  StepInv'
<1> DEFINE v == call[t].arg
<1>1. /\ phase[t] = "ops" /\ phase' = [phase EXCEPT ![t] = "after"]
      /\ pool' = Orphaned(t) \o Tasks(t, "read", None, Order) /\ fut' = Submitted(t, Order)
      /\ UNCHANGED <<value, call, solo>>
      /\ expected' = IF solo = t /\ Failures(t) = {} THEN v ELSE expected
  BY DEF Gather, TypeInv, TypeOK
<1>2. OnlyThread(t) /\ phase'[t] = "after"
  BY <1>1 DEF OnlyThread, Submitted, TypeInv, TypeOK
<1>3. Tidied(Orphaned(t), t)
  BY OrphanedTidied
<1>4. TasksInv' /\ LoadsStay(t)
  BY <1>1, <1>2, <1>3, ListShape, TasksGrown DEF StepInv
<1>5. CASE ~(solo = t /\ Failures(t) = {})
  BY <1>1, <1>2, <1>4, <1>5, SoloKept DEF StepInv
<1>6. CASE solo = t /\ Failures(t) = {}
  <2>1. /\ v \in Values /\ t # None
        /\ \A m \in Members : fut[t][m] \notin {"failed", "pending"}
    BY <1>1, <1>6 DEF TypeInv, Call, Failures
  <2>2. /\ \A i \in DOMAIN pool : pool[i].kind = "load" => pool[i].by = t
        /\ \A m \in Range(Takers[v]) :
             /\ fut[t][m] \in {"pending", "done", "failed"}
             /\ fut[t][m] = "done" => value[m] = v
    BY <1>1, <1>6, <2>1 DEF StepInv, SoloInv
  <2>3. NoLoads
    <3>1. ASSUME NEW i \in DOMAIN pool, pool[i].kind = "load" PROVE FALSE
      <4>1. pool[i].by = t /\ pool[i].member \in Members
        BY <2>2, <3>1, TaskTypes
      <4>2. fut[t][pool[i].member] = "pending"
        BY <2>1, <3>1, <4>1 DEF StepInv, TasksInv, AskedBy
      <4>3. QED
        BY <2>1, <4>1, <4>2
    <3>2. QED
      BY <3>1 DEF NoLoads
  <2>4. NoLoads'
    BY <1>4, <2>3 DEF NoLoads, LoadsStay
  <2>5. ASSUME NEW m \in Range(Takers[v]) PROVE value[m] = v
    <3>1. m \in Members
      BY <2>1, <2>5, ListShape
    <3>2. QED
      BY <2>1, <2>2, <2>5, <3>1
  <2>6. InStep' /\ SoloInv'
    BY <1>1, <1>2, <1>6, <2>5 DEF InStep, SoloInv
  <2>7. QED
    BY <1>4, <2>4, <2>6 DEF StepInv
<1>7. QED
  BY <1>5, <1>6

LEMMA ThreadSteps ==
  ASSUME TypeInv, StepInv, NEW t \in Threads, \/ \E c \in Requests[t] : Begin(t, c)
                                              \/ ThreadStep(t)
  PROVE  StepInv'
<1>1. ASSUME OnlyThread(t), phase'[t] # "ops", UNCHANGED <<value, solo, expected>>,
             TasksInv', LoadsStay(t)
      PROVE  StepInv'
  BY <1>1, SoloKept DEF StepInv
<1>2. ASSUME NEW c \in Requests[t], Begin(t, c) PROVE StepInv'
  <2>1. /\ phase[t] = "idle" /\ OnlyThread(t) /\ UNCHANGED <<value, solo, expected>>
        /\ phase'[t] = IF hydrated THEN "start" ELSE "hydrate"
    BY <1>2 DEF Begin, OnlyThread, Submitted, historyVars, TypeInv, TypeOK
  <2>2. Tidied(pool, t)
    BY <2>1, PoolTidied DEF StepInv
  <2>3. CASE hydrated
    <3>1. pool' = pool
      BY <1>2, <2>3 DEF Begin
    <3>2. Tidied(pool', t)
      BY <2>2, <3>1 DEF Tidied
    <3>3. QED
      BY <1>1, <2>1, <2>3, <3>2, TasksTidied DEF StepInv
  <2>4. CASE ~hydrated
    <3>1. pool' = pool \o Tasks(t, "read", None, Order)
      BY <1>2, <2>4 DEF Begin
    <3>2. TasksInv' /\ LoadsStay(t)
      BY <2>1, <2>2, <2>4, <3>1, ListShape, TasksGrown DEF StepInv
    <3>3. QED
      BY <1>1, <2>1, <2>4, <3>2
  <2>5. QED
    BY <2>3, <2>4
<1>3. CASE ReadAll(t)
  <2>1. /\ phase[t] = "start" /\ OnlyThread(t) /\ UNCHANGED <<value, solo, expected>>
        /\ phase'[t] = "read" /\ pool' = pool \o Tasks(t, call[t].kind, None, Order)
        /\ call[t].kind \in {"read", "refresh"}
    BY <1>3 DEF ReadAll, OnlyThread, Submitted, historyVars, TypeInv, TypeOK, Call
  <2>2. Tidied(pool, t)
    BY <2>1, PoolTidied DEF StepInv
  <2>3. TasksInv' /\ LoadsStay(t)
    BY <2>1, <2>2, ListShape, TasksGrown DEF StepInv
  <2>4. QED
    BY <1>1, <2>1, <2>3
<1>4. ASSUME OnlyThread(t), phase'[t] # "ops", UNCHANGED <<value, solo, expected>>,
             pool' = Orphaned(t)
      PROVE  StepInv'
  <2>1. Tidied(pool', t)
    BY <1>4, OrphanedTidied
  <2>2. QED
    BY <1>1, <1>4, <2>1, TasksTidied DEF StepInv
<1>5. CASE Hydrate(t)
  BY <1>4, <1>5 DEF Hydrate, OnlyThread, historyVars, TypeInv, TypeOK
<1>6. CASE Finish(t)
  <2>1. /\ Done(t) /\ phase[t] = "after" /\ UNCHANGED <<value, solo, expected>>
        /\ Idle(t) \/ (rest[t] # None /\ NextOperation(t))
    BY <1>6 DEF Finish
  <2>2. OnlyThread(t) /\ phase'[t] # "ops"
    BY <2>1, NextCallTypes DEF Done, OnlyThread, TypeInv, TypeOK
  <2>3. QED
    BY <1>4, <2>1, <2>2 DEF Done
<1>7. CASE UnknownEntry(t) \/ Close(t)
  <2>1. phase[t] \in {"start", "close"} /\ UNCHANGED <<pool, fut, value, solo, expected>>
    BY <1>7 DEF UnknownEntry, Close, historyVars
  <2>2. OnlyThread(t) /\ phase'[t] # "ops"
    <3>1. CASE UnknownEntry(t)
      BY <3>1 DEF UnknownEntry, OnlyThread, TypeInv, TypeOK
    <3>2. CASE Close(t)
      <4>1. phase[t] = "close" /\ Idle(t)
        BY <3>2 DEF Close
      <4>2. QED
        BY <2>1, <4>1, NextCallTypes DEF OnlyThread
    <3>3. QED
      BY <1>7, <3>1, <3>2
  <2>3. Tidied(pool, t)
    BY <2>1, PoolTidied DEF StepInv
  <2>4. Tidied(pool', t)
    BY <2>1, <2>3 DEF Tidied
  <2>5. QED
    BY <1>1, <2>1, <2>2, <2>4, TasksTidied DEF StepInv
<1>8. CASE Return(t)
  BY <1>4, <1>8 DEF Return, Done, Idle, OnlyThread, historyVars, TypeInv, TypeOK
<1>9. QED
  BY <1>2, <1>3, <1>5, <1>6, <1>7, <1>8, FanOutStep, GatherStep DEF ThreadStep

LEMMA SetAt ==
  ASSUME NEW futures \in [Threads -> [Members -> Futures]], NEW task \in Task,
         NEW result, NEW u \in Threads, NEW m \in Members
  PROVE  Set(futures, task, result)[u][m] =
           IF task.by = u /\ task.member = m THEN result ELSE futures[u][m]
<1>1. task.by \in Threads \cup {None} /\ task.member \in Members
  BY DEF Task
<1>2. CASE task.by = None
  BY <1>2 DEF Set
<1>3. CASE task.by # None
  BY <1>1, <1>3 DEF Set
<1>4. QED
  BY <1>2, <1>3

\* What a step of a member may do while an operation runs alone.
LEMMA SoloWorked ==
  ASSUME TypeInv, StepInv, NEW i \in DOMAIN pool,
         UNCHANGED <<phase, call, solo, expected>>,
         \A j \in DOMAIN pool' : \E k \in DOMAIN pool \ {i} : pool'[j] = pool[k],
         pool[i].kind # "load" => value' = value,
         \A m \in Members \ {pool[i].member} : value'[m] = value[m],
         \A u \in Threads, m \in Members :
           /\ fut[u][m] \in {"pending", "done", "failed"} =>
                fut'[u][m] = fut[u][m] \/ (pool[i].by = u /\ pool[i].member = m)
           /\ pool[i].kind = "load" /\ pool[i].by = u /\ pool[i].member = m =>
                \/ fut'[u][m] = "failed"
                \/ fut'[u][m] = "done" /\ value'[m] = pool[i].arg
  PROVE  SoloInv' /\ (expected' # None => NoLoads' /\ InStep')
<1> DEFINE n == pool[i].member
<1>1. pool[i].by \in Threads \cup {None} /\ n \in Members
  BY TaskTypes
<1>2. SoloInv'
  <2>1. SUFFICES ASSUME solo # None, phase[solo] = "ops" PROVE SoloInv'
    BY DEF SoloInv
  <2> DEFINE v == call[solo].arg
  <2>2. solo \in Threads /\ v \in Values
    BY <2>1 DEF TypeInv, TypeOK, Call
  <2>3. /\ expected = None
        /\ \A k \in DOMAIN pool : pool[k].kind = "load" => pool[k].by = solo
        /\ \A m \in Range(Takers[v]) :
             /\ fut[solo][m] \in {"pending", "done", "failed"}
             /\ fut[solo][m] = "done" => value[m] = v
    BY <2>1 DEF StepInv, SoloInv
  <2>4. \A j \in DOMAIN pool' : pool'[j].kind = "load" => pool'[j].by = solo
    BY <2>3
  <2>5. pool[i].kind # "load" => pool[i].by # solo
    BY <2>1, <2>2 DEF StepInv, TasksInv, AskedBy
  <2>6. pool[i].kind = "load" =>
          /\ pool[i].by = solo /\ pool[i].arg = v /\ fut[solo][n] = "pending"
    BY <2>1, <2>3 DEF StepInv, TasksInv, AskedBy
  <2>7. ASSUME NEW m \in Range(Takers[v])
        PROVE  /\ fut'[solo][m] \in {"pending", "done", "failed"}
               /\ fut'[solo][m] = "done" => value'[m] = v
    <3>1. m \in Members
      BY <2>2, <2>7, ListShape
    <3>2. CASE pool[i].kind = "load" /\ n = m
      BY <2>2, <2>6, <3>1, <3>2
    <3>3. CASE ~(pool[i].kind = "load" /\ n = m)
      <4>1. fut'[solo][m] = fut[solo][m]
        BY <2>2, <2>3, <2>5, <2>7, <3>1, <3>3
      <4>2. value'[m] = value[m]
        BY <3>1, <3>3
      <4>3. QED
        BY <2>3, <2>7, <4>1, <4>2
    <3>4. QED
      BY <3>2, <3>3
  <2>8. QED
    BY <2>3, <2>4, <2>7 DEF SoloInv
<1>3. ASSUME expected' # None PROVE NoLoads' /\ InStep'
  <2>1. NoLoads /\ InStep /\ expected # None
    BY <1>3 DEF StepInv
  <2>2. NoLoads' /\ value' = value
    BY <2>1 DEF NoLoads
  <2>3. QED
    BY <2>1, <2>2 DEF InStep
<1>4. QED
  BY <1>2, <1>3

LEMMA WorkStep ==
  ASSUME TypeInv, StepInv, NEW i \in Running, Work(i)
  PROVE  StepInv'
<1> DEFINE task == pool[i]
           n == task.member
<1>1. /\ i \in DOMAIN pool /\ task \in Task /\ n \in Members
      /\ task.by \in Threads \cup {None}
      /\ fut \in [Threads -> [Members -> Futures]] /\ value \in [Members -> Shows]
  <2>1. i \in DOMAIN pool
    BY DEF Running
  <2>2. QED
    BY <2>1, TaskTypes DEF TypeInv, TypeOK
<1>2. /\ pool' = RemoveAt(pool, i) /\ UNCHANGED <<phase, call, solo, expected>>
  BY DEF Work, Load, Read, Raise, historyVars
<1>3. ASSUME \A u \in Threads, m \in Members :
               fut[u][m] \in {"pending", "done", "failed"} =>
                 fut'[u][m] = fut[u][m] \/ (task.by = u /\ n = m),
             task.kind # "load" => value' = value,
             \A m \in Members \ {n} : value'[m] = value[m],
             \A u \in Threads, m \in Members :
               task.kind = "load" /\ task.by = u /\ n = m =>
                 \/ fut'[u][m] = "failed"
                 \/ fut'[u][m] = "done" /\ value'[m] = task.arg
      PROVE  StepInv'
  <2>1. /\ TasksInv'
        /\ \A j \in DOMAIN pool' : \E k \in DOMAIN pool \ {i} : pool'[j] = pool[k]
    BY <1>1, <1>2, <1>3, TasksWorked DEF StepInv
  <2>2. SoloInv' /\ (expected' # None => NoLoads' /\ InStep')
    BY <1>1, <1>2, <1>3, <2>1, SoloWorked
  <2>3. QED
    BY <2>1, <2>2 DEF StepInv
<1>4. CASE Load(i)
  <2>1. /\ fut' = Set(fut, task, "done") /\ task.kind = "load"
        /\ value' = [value EXCEPT ![n] = task.arg]
    BY <1>4 DEF Load
  <2>2. \A u \in Threads, m \in Members :
          fut'[u][m] = IF task.by = u /\ n = m THEN "done" ELSE fut[u][m]
    BY <1>1, <2>1, SetAt
  <2>3. QED
    BY <1>1, <1>3, <2>1, <2>2
<1>5. CASE Read(i)
  <2> DEFINE left == [t \in Threads |-> Left(fut[t], n)]
  <2>1. /\ fut' \in {Set(left, task, Live), Set(fut, task, Live)}
        /\ task.kind # "load" /\ value' = value
    BY <1>5 DEF Read
  <2>2. left \in [Threads -> [Members -> Futures]]
    <3>1. \A t \in Threads : Left(fut[t], n) \in [Members -> Futures]
      BY <1>1, LeftType DEF TypeInv, TypeOK, Refs, Futures
    <3>2. QED
      BY <3>1
  <2>3. \A u \in Threads, m \in Members :
          fut[u][m] \in {"pending", "done", "failed"} => left[u][m] = fut[u][m]
    BY <1>1 DEF Left, Live
  <2> HIDE DEF left
  <2>4. \A u \in Threads, m \in Members :
          /\ Set(fut, task, Live)[u][m] =
               IF task.by = u /\ n = m THEN Live ELSE fut[u][m]
          /\ Set(left, task, Live)[u][m] =
               IF task.by = u /\ n = m THEN Live ELSE left[u][m]
    BY <1>1, <2>2, SetAt
  <2>5. QED
    BY <1>3, <2>1, <2>3, <2>4
<1>6. CASE Raise(i)
  <2>1. /\ fut' = Set(fut, task, "failed")
        /\ value' = value \/ (task.kind = "load" /\ value' = [value EXCEPT ![n] = ERROR])
    BY <1>6 DEF Raise
  <2>2. \A u \in Threads, m \in Members :
          fut'[u][m] = IF task.by = u /\ n = m THEN "failed" ELSE fut[u][m]
    BY <1>1, <2>1, SetAt
  <2>3. QED
    BY <1>1, <1>3, <2>1, <2>2
<1>7. QED
  BY <1>4, <1>5, <1>6 DEF Work

LEMMA StepStep == TypeInv /\ StepInv /\ [Next]_vars => StepInv'
<1>1. SUFFICES ASSUME TypeInv, StepInv, [Next]_vars PROVE StepInv'
  OBVIOUS
<1>2. ASSUME NEW m \in Members, NEW v \in Values, Direct(m, v) PROVE StepInv'
  BY <1>1, <1>2 DEF Direct, StepInv, TasksInv, SoloInv, threadVars
<1>3. ASSUME UNCHANGED vars PROVE StepInv'
  BY <1>1, <1>3 DEF vars, deviceVars, threadVars, historyVars, bounds, StepInv, TasksInv,
    SoloInv, NoLoads, InStep
<1>4. QED
  BY <1>1, <1>2, <1>3, ThreadSteps, WorkStep DEF Next

\* For any members, a fanned out operation that returns without an error and
\* was alone leaves every member that takes part in it with its result: no
\* task of an earlier call that gave up comes after it.
THEOREM MembersAgree == Spec => []InStep
<1>1. StepInv => InStep
  BY DEF StepInv, InStep
<1>2. QED
  BY InitTypeInv, NextTypeInv, StepInit, StepStep, <1>1, PTL DEF Spec

-----------------------------------------------------------------------------
(* Broadcasts.                                                             *)

LEMMA ShownInit == Init => ShownInv
BY DEF Init, ShownInv

\* A member changes while somebody is going to tell, or is marked as late.
LEMMA ShownWorked ==
  ASSUME TypeInv, StepInv, ShownInv, NEW i \in Running, Work(i)
  PROVE  ShownInv'
<1> DEFINE m == pool[i].member
<1>1. /\ i \in DOMAIN pool /\ m \in Members /\ pool[i].by \in Threads \cup {None}
      /\ value \in [Members -> Shows]
  <2>1. i \in DOMAIN pool
    BY DEF Running
  <2>2. QED
    BY <2>1, TaskTypes DEF TypeInv, TypeOK
<1>2. UNCHANGED <<phase, shown>>
  BY DEF Work, Load, Read, Raise, deviceVars
<1>3. ASSUME \A u \in Threads : phase[u] \notin {"ops", "after"}, pool[i].kind = "load"
      PROVE  pool[i].by = None
  <2>1. pool[i].by # None => phase[pool[i].by] = "ops"
    BY <1>1, <1>3 DEF StepInv, TasksInv, AskedBy
  <2>2. QED
    BY <1>1, <1>3, <2>1
<1>4. CASE \E u \in Threads : phase[u] \in {"ops", "after"}
  BY <1>2, <1>4 DEF ShownInv
<1>5. CASE \A u \in Threads : phase[u] \notin {"ops", "after"}
  <2>1. CASE value' = value /\ late' = late
    BY <1>2, <2>1 DEF ShownInv
  <2>2. CASE late' = late \cup {m} /\ \A n \in Members \ {m} : value'[n] = value[n]
    BY <1>2, <1>5, <2>2 DEF ShownInv
  <2>3. CASE Load(i)
    BY <1>1, <1>3, <1>5, <2>2, <2>3 DEF Load
  <2>4. CASE Read(i)
    BY <2>1, <2>4 DEF Read, historyVars
  <2>5. CASE Raise(i)
    <3>1. value' = value \/ (pool[i].kind = "load" /\ value' = [value EXCEPT ![m] = ERROR])
      BY <2>5 DEF Raise
    <3>2. late' = IF pool[i].by = None /\ value' # value THEN late \cup {m} ELSE late
      BY <2>5 DEF Raise
    <3>3. CASE value' = value
      BY <2>1, <3>2, <3>3
    <3>4. CASE value' # value
      BY <1>1, <1>3, <1>5, <2>2, <3>1, <3>2, <3>4
    <3>5. QED
      BY <3>3, <3>4
  <2>6. QED
    BY <2>3, <2>4, <2>5 DEF Work
<1>6. QED
  BY <1>4, <1>5

\* An operation, and an update, ends with a broadcast of all there are references to.
LEMMA ShownSent ==
  ASSUME TypeInv, NEW t \in Threads, Finish(t) \/ Close(t)
  PROVE  ShownInv'
<1>1. /\ shown' = IF view' = Nobody THEN shown ELSE Serialised(view')
      /\ late' = {m \in Members : view'[m] # Live} /\ value' = value
  BY DEF Finish, Close, Sent
<1>2. CASE view' = Nobody
  <2>1. \A m \in Members : view'[m] # Live
    BY <1>2 DEF Nobody, Live
  <2>2. QED
    BY <1>1, <2>1 DEF ShownInv
<1>3. CASE view' # Nobody
  <2>1. \A m \in Members : view'[m] = Live => shown'[m] = value[m]
    BY <1>1, <1>3 DEF Serialised
  <2>2. QED
    BY <1>1, <2>1 DEF ShownInv
<1>4. QED
  BY <1>2, <1>3

LEMMA ShownStep == TypeInv /\ StepInv /\ ShownInv /\ [Next]_vars => ShownInv'
<1>1. SUFFICES ASSUME TypeInv, StepInv, ShownInv, [Next]_vars PROVE ShownInv'
  OBVIOUS
<1>2. ASSUME NEW m \in Members, NEW v \in Values, Direct(m, v) PROVE ShownInv'
  <2>1. /\ late' = late \cup {m} /\ UNCHANGED <<phase, shown>>
        /\ value' = [value EXCEPT ![m] = v] /\ value \in [Members -> Shows]
    BY <1>1, <1>2 DEF Direct, threadVars, deviceVars, TypeInv, TypeOK
  <2>2. QED
    BY <1>1, <2>1 DEF ShownInv
<1>3. ASSUME UNCHANGED vars PROVE ShownInv'
  BY <1>1, <1>3 DEF vars, deviceVars, threadVars, historyVars, ShownInv
<1>4. ASSUME NEW t \in Threads, UNCHANGED <<value, shown, late>>,
             phase[t] \notin {"ops", "after"}, \A u \in Threads \ {t} : phase'[u] = phase[u]
      PROVE  ShownInv'
  <2>1. SUFFICES ASSUME \A u \in Threads : phase'[u] \notin {"ops", "after"} PROVE ShownInv'
    BY DEF ShownInv
  <2>2. \A u \in Threads : phase[u] \notin {"ops", "after"}
    BY <1>4, <2>1
  <2>3. QED
    BY <1>1, <1>4, <2>2 DEF ShownInv
<1>5. ASSUME NEW t \in Threads, NEW c \in Requests[t], Begin(t, c) PROVE ShownInv'
  BY <1>1, <1>4, <1>5 DEF Begin, deviceVars, historyVars, TypeInv, TypeOK
<1>6. ASSUME NEW t \in Threads, ThreadStep(t) PROVE ShownInv'
  <2>1. phase \in [Threads -> {"idle", "hydrate", "start", "ops", "after", "read", "close"}]
    BY <1>1 DEF TypeInv, TypeOK
  <2>2. CASE FanOut(t)
    BY <1>4, <2>1, <2>2 DEF FanOut, deviceVars
  <2>3. CASE ReadAll(t)
    BY <1>4, <2>1, <2>3 DEF ReadAll, deviceVars, historyVars
  <2>4. CASE Hydrate(t)
    BY <1>4, <2>1, <2>4 DEF Hydrate, historyVars
  <2>5. CASE Gather(t)
    <3>1. phase'[t] = "after"
      BY <2>1, <2>5 DEF Gather
    <3>2. QED
      BY <3>1 DEF ShownInv
  <2>6. CASE Finish(t) \/ Close(t)
    BY <1>1, <2>6, ShownSent
  <2>7. CASE Return(t)
    BY <1>4, <2>1, <2>7 DEF Return, Idle, historyVars
  <2>8. CASE UnknownEntry(t)
    BY <1>4, <2>1, <2>8 DEF UnknownEntry, deviceVars, historyVars
  <2>9. QED
    BY <1>6, <2>2, <2>3, <2>4, <2>5, <2>6, <2>7, <2>8 DEF ThreadStep
<1>7. QED
  BY <1>1, <1>2, <1>3, <1>5, <1>6, ShownWorked DEF Next

\* At rest the clients were last sent what the members show, but for those
\* that changed later: every operation, however it ended, broadcasts what it
\* left behind before its caller is answered.
THEOREM BroadcastsAreCurrent == Spec => []ShownIsCurrent
<1>1. ShownInv => ShownIsCurrent
  BY DEF ShownInv, ShownIsCurrent, AllIdle
<1>2. QED
  BY InitTypeInv, NextTypeInv, StepInit, StepStep, ShownInit, ShownStep, <1>1, PTL DEF Spec
=============================================================================
