--------------------------- MODULE WsServer_proofs ---------------------------
(***************************************************************************)
(* Theorems about WsServer, for any number of connections, devices, loops  *)
(* and entries of the catalogue, and any sizes of the chunks.              *)
(***************************************************************************)
EXTENDS WsServer, TLAPS

(* What the operators on lists and numbers return.                         *)

\* A list without the element at one place.
LEMMA RemoveAtFacts ==
  ASSUME NEW S, NEW s \in Seq(S), NEW i \in 1..Len(s)
  PROVE  /\ RemoveAt(s, i) \in Seq(S)
         /\ Len(RemoveAt(s, i)) = Len(s) - 1
         /\ \A j \in 1..(Len(s) - 1) :
              RemoveAt(s, i)[j] = IF j < i THEN s[j] ELSE s[j + 1]
<1> DEFINE front == SubSeq(s, 1, i - 1)
           back == SubSeq(s, i + 1, Len(s))
<1>1. /\ front \in Seq(S) /\ Len(front) = i - 1
      /\ \A j \in 1..(i - 1) : front[j] = s[j]
  OBVIOUS
<1>2. /\ back \in Seq(S) /\ Len(back) = Len(s) - i
      /\ \A j \in 1..(Len(s) - i) : back[j] = s[i + j]
  OBVIOUS
<1>3. RemoveAt(s, i) = front \o back
  BY DEF RemoveAt
<1> HIDE DEF front, back
<1>4. /\ front \o back \in Seq(S)
      /\ Len(front \o back) = Len(s) - 1
  BY <1>1, <1>2
<1>5. ASSUME NEW j \in 1..(Len(s) - 1)
      PROVE  (front \o back)[j] = IF j < i THEN s[j] ELSE s[j + 1]
  <2>1. CASE j < i
    BY <2>1, <1>1, <1>2
  <2>2. CASE ~(j < i)
    <3>1. (front \o back)[j] = back[j - (i - 1)]
      BY <2>2, <1>1, <1>2
    <3>2. j - (i - 1) \in 1..(Len(s) - i) /\ i + (j - (i - 1)) = j + 1
      BY <2>2
    <3>3. QED
      BY <2>2, <3>1, <3>2, <1>2
  <2>3. QED
    BY <2>1, <2>2
<1>6. QED
  BY <1>3, <1>4, <1>5

\* What is left of a list of clients when c leaves it: the others, each once,
\* and those behind c one place further in front.
LEMMA LeaveFacts ==
  ASSUME clients \in Seq(Clients), IsInjective(clients),
         NEW c \in Range(clients), Leave(c)
  PROVE  \E at \in DOMAIN clients :
           /\ clients[at] = c
           /\ clients' \in Seq(Clients) /\ IsInjective(clients')
           /\ Len(clients') = Len(clients) - 1
           /\ \A j \in DOMAIN clients' :
                clients'[j] = IF j < at THEN clients[j] ELSE clients[j + 1]
           /\ Range(clients') = Range(clients) \ {c}
           /\ missed' = missed \cup
                {<<clients[cursor[d]], d>> :
                   d \in {x \in Devices : /\ pc[x] = "send" /\ at < cursor[x]
                                          /\ cursor[x] \in DOMAIN clients}}
<1> DEFINE at == CHOOSE i \in DOMAIN clients : clients[i] = c
<1>1. at \in DOMAIN clients /\ clients[at] = c
  BY DEF Range
<1>2. clients' = RemoveAt(clients, at)
  BY DEF Leave
<1>3. missed' = missed \cup
        {<<clients[cursor[d]], d>> :
           d \in {x \in Devices : /\ pc[x] = "send" /\ at < cursor[x]
                                  /\ cursor[x] \in DOMAIN clients}}
  BY DEF Leave
<1> HIDE DEF at
<1>4. DOMAIN clients = 1..Len(clients) /\ Len(clients) \in Nat
  <2>1. clients \in Seq(Clients)
    BY Zenon
  <2>2. QED
    BY ONLY <2>1
<1>5. /\ clients' \in Seq(Clients)
      /\ Len(clients') = Len(clients) - 1
      /\ \A j \in 1..(Len(clients) - 1) :
           clients'[j] = IF j < at THEN clients[j] ELSE clients[j + 1]
  BY <1>1, <1>2, <1>4, RemoveAtFacts
<1>6. DOMAIN clients' = 1..(Len(clients) - 1)
  BY <1>5
<1>7. IsInjective(clients')
  <2> SUFFICES ASSUME NEW a \in DOMAIN clients', NEW b \in DOMAIN clients',
                      clients'[a] = clients'[b]
               PROVE  a = b
    BY DEF IsInjective
  <2>1. \A x, y \in DOMAIN clients : clients[x] = clients[y] => x = y
    BY DEF IsInjective
  <2>2. QED
    BY <2>1, <1>1, <1>4, <1>5, <1>6
<1>8. Range(clients') = Range(clients) \ {c}
  <2>1. ASSUME NEW x \in Range(clients') PROVE x \in Range(clients) \ {c}
    <3>1. PICK j \in DOMAIN clients' : clients'[j] = x
      BY DEF Range
    <3>2. PICK k \in DOMAIN clients : clients[k] = x /\ k # at
      BY <3>1, <1>1, <1>4, <1>5, <1>6
    <3>3. QED
      BY <3>2, <1>1 DEF Range, IsInjective
  <2>2. ASSUME NEW x \in Range(clients) \ {c} PROVE x \in Range(clients')
    <3>1. PICK k \in DOMAIN clients : clients[k] = x
      BY DEF Range
    <3>2. k # at
      BY <3>1, <1>1
    <3>3. CASE k < at
      <4>1. k \in DOMAIN clients' /\ clients'[k] = x
        BY <3>1, <3>3, <1>1, <1>4, <1>5, <1>6
      <4>2. QED
        BY <4>1 DEF Range
    <3>4. CASE at < k
      <4>1. k - 1 \in DOMAIN clients' /\ clients'[k - 1] = x
        BY <3>1, <3>4, <1>1, <1>4, <1>5, <1>6
      <4>2. QED
        BY <4>1 DEF Range
    <3>5. QED
      BY <3>2, <3>3, <3>4, <1>1, <1>4
  <2>3. QED
    BY <2>1, <2>2
<1>9. QED
  BY <1>1, <1>3, <1>5, <1>6, <1>7, <1>8

\* A list with c, which is not in it yet, at its end.
LEMMA AppendFacts ==
  ASSUME NEW S, NEW s \in Seq(S), IsInjective(s), NEW c \in S, c \notin Range(s)
  PROVE  /\ Append(s, c) \in Seq(S) /\ IsInjective(Append(s, c))
         /\ Range(Append(s, c)) = Range(s) \cup {c}
<1> DEFINE t == Append(s, c)
<1>1. /\ t \in Seq(S) /\ Len(t) = Len(s) + 1
      /\ t[Len(s) + 1] = c /\ \A i \in 1..Len(s) : t[i] = s[i]
  OBVIOUS
<1>2. /\ DOMAIN s = 1..Len(s) /\ Len(s) \in Nat
      /\ DOMAIN t = 1..(Len(s) + 1)
  BY <1>1
<1> HIDE DEF t
<1>3. \A i \in DOMAIN s : s[i] \in Range(s) /\ s[i] # c
  BY DEF Range
<1>4. IsInjective(t)
  <2> SUFFICES ASSUME NEW a \in DOMAIN t, NEW b \in DOMAIN t, t[a] = t[b] PROVE a = b
    BY DEF IsInjective
  <2>1. \A x, y \in DOMAIN s : s[x] = s[y] => x = y
    BY DEF IsInjective
  <2>2. QED
    BY <2>1, <1>1, <1>2, <1>3
<1>5. Range(t) = Range(s) \cup {c}
  <2>1. ASSUME NEW x \in Range(t) PROVE x \in Range(s) \cup {c}
    <3>1. PICK i \in DOMAIN t : t[i] = x
      BY DEF Range
    <3>2. QED
      BY <3>1, <1>1, <1>2, <1>3
  <2>2. ASSUME NEW x \in Range(s) PROVE x \in Range(t)
    <3>1. PICK i \in DOMAIN s : s[i] = x
      BY DEF Range
    <3>2. i \in DOMAIN t /\ t[i] = x
      BY <3>1, <1>1, <1>2
    <3>3. QED
      BY <3>2 DEF Range
  <2>3. c \in Range(t)
    BY <1>1, <1>2 DEF Range
  <2>4. QED
    BY <2>1, <2>2, <2>3
<1>6. QED
  BY <1>1, <1>4, <1>5 DEF t

\* The smaller of two numbers.
LEMMA MinOfTwo ==
  ASSUME NEW a \in Nat, NEW b \in Nat
  PROVE  Min({a, b}) = IF a <= b THEN a ELSE b
<1> DEFINE least == IF a <= b THEN a ELSE b
<1>1. least \in {a, b} /\ \A y \in {a, b} : least =< y
  OBVIOUS
<1>2. \A x \in {a, b} : (\A y \in {a, b} : x =< y) => x = least
  OBVIOUS
<1>3. QED
  BY <1>1, <1>2 DEF Min

-----------------------------------------------------------------------------
(* The type, and what goes with it.                                        *)

(* The parts of the type, by the groups of variables that actions leave    *)
(* alone.                                                                  *)

ConnType == conn \in [Clients -> {"new", "open", "closing", "gone"}]

ListType ==
  /\ clients \in Seq(Clients) /\ IsInjective(clients)
  /\ levels \in [Devices -> SUBSET Clients]
  /\ missed \subseteq Clients \X Devices

StateType ==
  /\ hydrated \subseteq Devices
  /\ provider \in hydrated \cup {None}
  /\ view \in [Clients -> [Devices -> {"none", "current", "old"}]]

ReactorType ==
  reactor \in [client : Clients \cup {None}, device : Devices \cup {None}, fresh : BOOLEAN]

RequestType ==
  /\ pc \in [Devices -> {"idle", "send", "discard", "remove"}]
  /\ cursor \in [Devices -> Nat \ {0}]
  /\ dead \in [Devices -> Seq(Clients)]

LoopType ==
  /\ loops \in [Devices -> 0..MaxLoops]
  /\ linked \subseteq Asked /\ silenced \subseteq Devices

FeedType ==
  /\ offset \in [Clients -> Nat \cup {None}]
  /\ ready \in [Clients -> SUBSET Chunks]
  /\ got \in [Clients -> [Entries -> Nat]]
  /\ stored \in BOOLEAN

Typed == /\ ConnType /\ ListType /\ StateType /\ ReactorType
         /\ RequestType /\ LoopType /\ FeedType

LEMMA TypedIsTypeOK == Typed <=> TypeOK
BY DEF Typed, ConnType, ListType, StateType, ReactorType, RequestType, LoopType,
       FeedType, TypeOK

\* A group that is unchanged keeps its type.
LEMMA TypeKept ==
  /\ ConnType /\ UNCHANGED conn => ConnType'
  /\ ListType /\ UNCHANGED listVars => ListType'
  /\ StateType /\ UNCHANGED stateVars => StateType'
  /\ ReactorType /\ UNCHANGED reactor => ReactorType'
  /\ RequestType /\ UNCHANGED requestVars => RequestType'
  /\ LoopType /\ UNCHANGED loopVars => LoopType'
  /\ FeedType /\ UNCHANGED feedVars => FeedType'
<1>1. ConnType /\ UNCHANGED conn => ConnType'
  BY DEF ConnType
<1>2. ListType /\ UNCHANGED listVars => ListType'
  BY DEF ListType, listVars
<1>3. StateType /\ UNCHANGED stateVars => StateType'
  BY DEF StateType, stateVars
<1>4. ReactorType /\ UNCHANGED reactor => ReactorType'
  BY DEF ReactorType
<1>5. RequestType /\ UNCHANGED requestVars => RequestType'
  BY DEF RequestType, requestVars
<1>6. LoopType /\ UNCHANGED loopVars => LoopType'
  BY DEF LoopType, loopVars
<1>7. FeedType /\ UNCHANGED feedVars => FeedType'
  BY DEF FeedType, feedVars
<1>8. QED
  BY <1>1, <1>2, <1>3, <1>4, <1>5, <1>6, <1>7

\* A connection that is not open yet is in no list and was sent nothing.
NewIsUnknown ==
  \A c \in Clients : conn[c] = "new" =>
    /\ ~Registered(c) /\ offset[c] = None
    /\ \A d \in Devices : view[c][d] = "none"

\* The client that is being registered stays connected and in the list.
RegisteringIsOpen ==
  /\ reactor.client # None => conn[reactor.client] = "open" /\ Registered(reactor.client)
  /\ reactor.device # None => reactor.client # None

\* What a broadcast discards are clients that have gone, at least one.
DeadAreGone ==
  \A d \in Devices :
    /\ pc[d] \in {"discard", "remove"} => dead[d] # <<>>
    /\ \A i \in DOMAIN dead[d] : conn[dead[d][i]] \in {"closing", "gone"}

BaseInv == Typed /\ NewIsUnknown /\ RegisteringIsOpen /\ DeadAreGone

LEMMA InitBase == Init => BaseInv
<1> SUFFICES ASSUME Init PROVE BaseInv
  OBVIOUS
<1> USE WsServerAssumption DEF Init
<1>1. ConnType
  BY DEF ConnType
<1>2. ListType
  BY DEF ListType, IsInjective
<1>3. StateType
  BY DEF StateType
<1>4. ReactorType
  BY DEF ReactorType, Idle
<1>5. RequestType
  BY DEF RequestType
<1>6. LoopType
  BY DEF LoopType
<1>7. FeedType
  BY DEF FeedType
<1>8. NewIsUnknown
  BY DEF NewIsUnknown, Registered, Range
<1>9. RegisteringIsOpen
  BY DEF RegisteringIsOpen, Idle
<1>10. DeadAreGone
  BY DEF DeadAreGone
<1>11. QED
  BY <1>1, <1>2, <1>3, <1>4, <1>5, <1>6, <1>7, <1>8, <1>9, <1>10 DEF BaseInv, Typed

\* A client leaves the list.
LEMMA LeaveKeepsType ==
  ASSUME ListType, NEW c \in Clients, Registered(c), Leave(c)
  PROVE  /\ clients' \in Seq(Clients) /\ IsInjective(clients')
         /\ Range(clients') = Range(clients) \ {c}
         /\ missed' \subseteq Clients \X Devices /\ missed \subseteq missed'
<1> USE DEF ListType
<1>1. PICK at \in DOMAIN clients :
        /\ clients' \in Seq(Clients) /\ IsInjective(clients')
        /\ Range(clients') = Range(clients) \ {c}
        /\ missed' = missed \cup
             {<<clients[cursor[d]], d>> :
                d \in {x \in Devices : /\ pc[x] = "send" /\ at < cursor[x]
                                       /\ cursor[x] \in DOMAIN clients}}
  BY LeaveFacts DEF Registered
<1>2. \A i \in DOMAIN clients : clients[i] \in Clients
  OBVIOUS
<1>3. QED
  BY <1>1, <1>2

\* A client is unregistered.
LEMMA UnregisterKeepsType ==
  ASSUME ListType, NEW c \in Clients, Unregister(c)
  PROVE  /\ ListType' /\ Range(clients') = Range(clients) \ {c}
         /\ missed \subseteq missed'
<1>1. CASE Registered(c)
  BY <1>1, LeaveKeepsType DEF Unregister, ListType
<1>2. CASE ~Registered(c)
  <2>1. levels' \in [Devices -> SUBSET Clients]
    BY <1>2 DEF Unregister, ListType
  <2>2. QED
    BY <1>2, <2>1 DEF Unregister, ListType, Registered
<1>3. QED
  BY <1>1, <1>2

\* A broadcast goes on to what is left to discard.
LEMMA DiscardingKeepsType ==
  ASSUME RequestType, DeadAreGone, conn' = conn, NEW d \in Devices,
         NEW left \in Seq(Clients), Discarding(d, left),
         \A i \in DOMAIN left : conn[left[i]] \in {"closing", "gone"}
  PROVE  RequestType' /\ DeadAreGone'
<1>1. RequestType'
  BY DEF RequestType, Discarding
<1>2. DeadAreGone'
  BY DEF RequestType, DeadAreGone, Discarding
<1>3. QED
  BY <1>1, <1>2

\* What is at the head of those to discard, and what is behind it.
LEMMA NextToDiscard ==
  ASSUME RequestType, DeadAreGone, NEW d \in Devices, pc[d] \in {"discard", "remove"}
  PROVE  /\ Head(dead[d]) \in Clients /\ conn[Head(dead[d])] \in {"closing", "gone"}
         /\ Tail(dead[d]) \in Seq(Clients)
         /\ \A i \in DOMAIN Tail(dead[d]) : conn[Tail(dead[d])[i]] \in {"closing", "gone"}
<1>1. dead[d] \in Seq(Clients) /\ dead[d] # <<>>
  BY DEF RequestType, DeadAreGone
<1>2. \A i \in DOMAIN dead[d] : conn[dead[d][i]] \in {"closing", "gone"}
  BY DEF DeadAreGone
<1>3. QED
  BY <1>1, <1>2

\* A loop goes on or ends.
LEMMA LoopKeepsType ==
  ASSUME LoopType, NEW d \in Devices, loops[d] > 0, UNCHANGED linked,
         NEW goesOn, NEW reason, Loop(d, goesOn, reason)
  PROVE  LoopType'
<1>1. loops' \in [Devices -> 0..MaxLoops]
  BY WsServerAssumption DEF LoopType, Loop
<1>2. silenced' \subseteq Devices
  BY DEF LoopType, Loop
<1>3. QED
  BY <1>1, <1>2 DEF LoopType

LEMMA NextBase == BaseInv /\ [Next]_vars => BaseInv'
<1> SUFFICES ASSUME BaseInv, [Next]_vars PROVE BaseInv'
  OBVIOUS
<1> USE DEF BaseInv, Typed
<1>1. ASSUME NEW c \in Clients, Register(c) PROVE BaseInv'
  <2> USE <1>1
  <2>1. conn[c] = "new" /\ ~Registered(c)
    BY DEF Register, NewIsUnknown
  <2>2. /\ clients' \in Seq(Clients) /\ IsInjective(clients')
        /\ Range(clients') = Range(clients) \cup {c}
    BY <2>1, AppendFacts DEF ListType, Register, Registered
  <2>3. ConnType'
    BY DEF ConnType, Register
  <2>4. ListType'
    BY <2>2 DEF ListType, Register
  <2>5. ReactorType' /\ reactor'.client = c /\ reactor'.device = None
    BY DEF ReactorType, Register, Idle
  <2>6. StateType' /\ RequestType' /\ LoopType' /\ FeedType'
    BY TypeKept DEF Register
  <2>7. NewIsUnknown'
    BY <2>2, <2>3 DEF NewIsUnknown, Register, Registered, feedVars, stateVars, ConnType
  <2>8. RegisteringIsOpen'
    BY <2>2, <2>5 DEF RegisteringIsOpen, Register, Registered, ConnType
  <2>9. DeadAreGone'
    BY <2>1 DEF DeadAreGone, Register, requestVars, ConnType
  <2>10. QED
    BY <2>3, <2>4, <2>5, <2>6, <2>7, <2>8, <2>9
<1>2. CASE ReadState
  <2> USE <1>2
  <2>1. ReactorType'
    BY DEF ReactorType, StateType, ReadState, Idle
  <2>2. RegisteringIsOpen'
    BY DEF RegisteringIsOpen, ReactorType, ReadState, Idle, Registered, listVars
  <2>3. /\ ConnType' /\ ListType' /\ StateType' /\ RequestType' /\ LoopType' /\ FeedType'
    BY TypeKept DEF ReadState
  <2>4. NewIsUnknown' /\ DeadAreGone'
    BY DEF NewIsUnknown, DeadAreGone, ReadState, Registered, listVars, stateVars,
           requestVars, feedVars
  <2>5. QED
    BY <2>1, <2>2, <2>3, <2>4
<1>3. CASE SendState
  <2> USE <1>3
  <2>1. reactor.client \in Clients /\ reactor.device \in Devices
    BY DEF ReactorType, RegisteringIsOpen, SendState
  <2>2. StateType'
    BY <2>1 DEF StateType, SendState
  <2>3. ListType'
    BY <2>1 DEF ListType, SendState
  <2>4. ReactorType' /\ RegisteringIsOpen'
    BY DEF ReactorType, RegisteringIsOpen, SendState, Idle
  <2>5. ConnType' /\ RequestType' /\ LoopType' /\ FeedType'
    BY TypeKept DEF SendState
  <2>6. conn[reactor.client] = "open"
    BY DEF RegisteringIsOpen, SendState
  <2>7. NewIsUnknown'
    BY <2>1, <2>6 DEF NewIsUnknown, SendState, Registered, feedVars, StateType
  <2>8. DeadAreGone'
    BY DEF DeadAreGone, SendState, requestVars
  <2>9. QED
    BY <2>2, <2>3, <2>4, <2>5, <2>7, <2>8
<1>4. ASSUME NEW c \in Clients, Close(c) PROVE BaseInv'
  <2> USE <1>4
  <2>1. ConnType'
    BY DEF ConnType, Close
  <2>2. NewIsUnknown' /\ DeadAreGone'
    BY DEF NewIsUnknown, DeadAreGone, Close, Registered, listVars, stateVars,
           requestVars, feedVars, ConnType
  <2>3. RegisteringIsOpen'
    BY DEF RegisteringIsOpen, Close, Idle
  <2>4. /\ ListType' /\ StateType' /\ ReactorType' /\ RequestType' /\ LoopType' /\ FeedType'
    BY TypeKept DEF Close
  <2>5. QED
    BY <2>1, <2>2, <2>3, <2>4
<1>5. ASSUME NEW c \in Clients, OnClose(c) PROVE BaseInv'
  <2> USE <1>5
  <2>1. ListType' /\ Range(clients') = Range(clients) \ {c}
    BY UnregisterKeepsType DEF OnClose
  <2>2. ConnType' /\ \A x \in Clients : conn'[x] = IF x = c THEN "gone" ELSE conn[x]
    BY DEF ConnType, OnClose
  <2>3. StateType'
    BY DEF StateType, OnClose
  <2>4. FeedType'
    BY DEF FeedType, OnClose
  <2>5. ReactorType' /\ RequestType' /\ LoopType'
    BY TypeKept DEF OnClose
  <2>6. NewIsUnknown'
    BY <2>1, <2>2 DEF NewIsUnknown, OnClose, Registered, StateType
  <2>7. RegisteringIsOpen'
    BY DEF RegisteringIsOpen, OnClose, Idle
  <2>8. DeadAreGone'
    BY <2>2 DEF DeadAreGone, OnClose, requestVars, ConnType
  <2>9. QED
    BY <2>1, <2>2, <2>3, <2>4, <2>5, <2>6, <2>7, <2>8
<1>6. ASSUME NEW d \in Devices, Hydrate(d) PROVE BaseInv'
  <2> USE <1>6
  <2>1. StateType'
    BY DEF StateType, Hydrate
  <2>2. /\ ConnType' /\ ListType' /\ ReactorType' /\ RequestType' /\ LoopType' /\ FeedType'
    BY TypeKept DEF Hydrate
  <2>3. NewIsUnknown' /\ RegisteringIsOpen' /\ DeadAreGone'
    BY DEF NewIsUnknown, RegisteringIsOpen, DeadAreGone, Hydrate, Registered, listVars,
           requestVars, feedVars
  <2>4. QED
    BY <2>1, <2>2, <2>3
<1>7. ASSUME NEW d \in Devices, Change(d) PROVE BaseInv'
  <2> USE <1>7
  <2>1. StateType'
    BY DEF StateType, Change
  <2>2. /\ ReactorType' /\ reactor'.client = reactor.client
        /\ reactor'.device = reactor.device
    BY DEF ReactorType, Change
  <2>3. RequestType' /\ dead' = dead /\ \A x \in Devices : pc'[x] \in {pc[x], "send"}
    BY DEF RequestType, Change
  <2>4. ConnType' /\ ListType' /\ LoopType' /\ FeedType'
    BY TypeKept DEF Change
  <2>5. NewIsUnknown'
    BY DEF NewIsUnknown, Change, Registered, listVars, feedVars
  <2>6. RegisteringIsOpen'
    BY <2>2 DEF RegisteringIsOpen, Change, Registered, listVars
  <2>7. DeadAreGone'
    BY <2>3 DEF DeadAreGone, Change
  <2>8. QED
    BY <2>1, <2>2, <2>3, <2>4, <2>5, <2>6, <2>7
<1>8. ASSUME NEW d \in Devices, SendNext(d) PROVE BaseInv'
  <2> USE <1>8
  <2> DEFINE c == clients[cursor[d]]
  <2>1. c \in Clients /\ Registered(c)
    BY DEF SendNext, ListType, Registered, Range
  <2>2. pc' = pc /\ cursor' \in [Devices -> Nat \ {0}]
    BY DEF SendNext, RequestType
  <2>3. ConnType' /\ ReactorType' /\ LoopType' /\ FeedType'
    BY TypeKept DEF SendNext
  <2>4. RegisteringIsOpen'
    BY DEF RegisteringIsOpen, SendNext, Registered
  <2>5. CASE conn[c] = "open"
    <3>1. /\ view' = [view EXCEPT ![c][d] = "current"] /\ dead' = dead
          /\ missed' = missed \ {<<c, d>>}
      BY <2>5 DEF SendNext
    <3>2. StateType' /\ \A x \in Clients \ {c} : view'[x] = view[x]
      BY <2>1, <3>1 DEF StateType, SendNext
    <3>3. ListType' /\ RequestType'
      BY <2>2, <3>1 DEF ListType, RequestType, SendNext
    <3>4. NewIsUnknown' /\ DeadAreGone'
      BY <2>2, <2>5, <3>1, <3>2 DEF NewIsUnknown, DeadAreGone, SendNext, Registered, feedVars
    <3>5. QED
      BY <2>3, <2>4, <3>2, <3>3, <3>4
  <2>6. CASE conn[c] # "open"
    <3>1. view' = view /\ missed' = missed /\ dead' = [dead EXCEPT ![d] = Append(@, c)]
      BY <2>6 DEF SendNext
    <3>2. conn[c] \in {"closing", "gone"}
      BY <2>1, <2>6 DEF ConnType, NewIsUnknown
    <3> HIDE DEF c
    <3>3. RequestType'
      BY <2>1, <2>2, <3>1 DEF RequestType
    <3>4. ListType' /\ StateType'
      BY <3>1 DEF ListType, StateType, SendNext
    <3>5. NewIsUnknown'
      BY <3>1 DEF NewIsUnknown, SendNext, Registered, feedVars
    <3>6. DeadAreGone'
      <4>1. conn' = conn
        BY DEF SendNext
      <4>2. dead[d] \in Seq(Clients)
        BY DEF RequestType
      <4>3. /\ Append(dead[d], c) # <<>>
            /\ \A i \in DOMAIN Append(dead[d], c) :
                 conn[Append(dead[d], c)[i]] \in {"closing", "gone"}
        <5>1. /\ Append(dead[d], c) # <<>>
              /\ \A i \in DOMAIN Append(dead[d], c) :
                   \/ Append(dead[d], c)[i] = c
                   \/ i \in DOMAIN dead[d] /\ Append(dead[d], c)[i] = dead[d][i]
          BY <4>2
        <5>2. \A i \in DOMAIN dead[d] : conn[dead[d][i]] \in {"closing", "gone"}
          BY DEF DeadAreGone
        <5>3. QED
          BY <3>2, <5>1, <5>2
      <4>4. \A x \in Devices : dead'[x] = IF x = d THEN Append(dead[d], c) ELSE dead[x]
        BY <3>1 DEF RequestType
      <4>5. QED
        BY <2>2, <4>1, <4>3, <4>4 DEF DeadAreGone
    <3>7. QED
      BY <2>3, <2>4, <3>3, <3>4, <3>5, <3>6
  <2>7. QED
    BY <2>5, <2>6
<1>9. ASSUME NEW d \in Devices, Sent(d) PROVE BaseInv'
  <2> USE <1>9
  <2>1. /\ dead[d] \in Seq(Clients) /\ conn' = conn /\ Discarding(d, dead[d])
        /\ \A i \in DOMAIN dead[d] : conn[dead[d][i]] \in {"closing", "gone"}
    BY DEF RequestType, DeadAreGone, Sent
  <2>2. RequestType' /\ DeadAreGone'
    BY <2>1, DiscardingKeepsType
  <2>3. /\ ConnType' /\ ListType' /\ StateType' /\ ReactorType' /\ LoopType' /\ FeedType'
    BY TypeKept DEF Sent
  <2>4. NewIsUnknown' /\ RegisteringIsOpen'
    BY DEF NewIsUnknown, RegisteringIsOpen, Sent, Registered, listVars, stateVars, feedVars
  <2>5. QED
    BY <2>2, <2>3, <2>4
<1>10. ASSUME NEW d \in Devices, Discard(d) PROVE BaseInv'
  <2> USE <1>10
  <2> DEFINE c == Head(dead[d])
             left == Tail(dead[d])
  <2>1. /\ c \in Clients /\ conn' = conn /\ left \in Seq(Clients)
        /\ \A i \in DOMAIN left : conn[left[i]] \in {"closing", "gone"}
    BY NextToDiscard DEF Discard
  <2>2. /\ ConnType' /\ StateType' /\ ReactorType' /\ LoopType' /\ FeedType'
    BY TypeKept DEF Discard
  <2>3. CASE Registered(c)
    <3>1. /\ pc' = [pc EXCEPT ![d] = "remove"] /\ pc[d] = "discard"
          /\ UNCHANGED <<listVars, cursor, dead>>
      BY <2>3 DEF Discard
    <3>2. ListType' /\ RequestType'
      BY <3>1, TypeKept DEF RequestType
    <3>3. NewIsUnknown' /\ RegisteringIsOpen' /\ DeadAreGone'
      BY <3>1, <2>1 DEF NewIsUnknown, RegisteringIsOpen, DeadAreGone, RequestType,
         Discard, Registered, listVars, stateVars, feedVars
    <3>4. QED
      BY <2>2, <3>2, <3>3
  <2>4. CASE ~Registered(c)
    <3>1. Unregister(c) /\ Discarding(d, left)
      BY <2>4 DEF Discard
    <3>2. RequestType' /\ DeadAreGone'
      BY <2>1, <3>1, DiscardingKeepsType
    <3>3. ListType' /\ clients' = clients
      BY <2>1, <2>4, <3>1, UnregisterKeepsType DEF Unregister
    <3>4. NewIsUnknown' /\ RegisteringIsOpen'
      BY <3>3, <2>1 DEF NewIsUnknown, RegisteringIsOpen, Discard, Registered,
         stateVars, feedVars
    <3>5. QED
      BY <2>2, <3>2, <3>3, <3>4
  <2>5. QED
    BY <2>3, <2>4
<1>11. ASSUME NEW d \in Devices, RemoveDead(d) PROVE BaseInv'
  <2> USE <1>11
  <2> DEFINE c == Head(dead[d])
             left == Tail(dead[d])
  <2>1. /\ c \in Clients /\ conn[c] \in {"closing", "gone"} /\ conn' = conn
        /\ left \in Seq(Clients)
        /\ \A i \in DOMAIN left : conn[left[i]] \in {"closing", "gone"}
    BY NextToDiscard DEF RemoveDead
  <2>2. /\ ConnType' /\ StateType' /\ ReactorType' /\ LoopType' /\ FeedType'
    BY TypeKept DEF RemoveDead
  <2>3. CASE Registered(c)
    <3>1. Leave(c) /\ levels' = levels /\ Discarding(d, left)
      BY <2>3 DEF RemoveDead
    <3>2. RequestType' /\ DeadAreGone'
      BY <2>1, <3>1, DiscardingKeepsType
    <3>3. /\ clients' \in Seq(Clients) /\ IsInjective(clients')
          /\ Range(clients') = Range(clients) \ {c}
          /\ missed' \subseteq Clients \X Devices
      BY <2>1, <2>3, <3>1, LeaveKeepsType
    <3>4. ListType'
      BY <3>1, <3>3 DEF ListType
    <3>5. NewIsUnknown' /\ RegisteringIsOpen'
      BY <3>3, <2>1 DEF NewIsUnknown, RegisteringIsOpen, RemoveDead, Registered,
         stateVars, feedVars
    <3>6. QED
      BY <2>2, <3>2, <3>4, <3>5
  <2>4. CASE ~Registered(c)
    <3>1. Discarding(d, <<>>) /\ UNCHANGED listVars
      BY <2>4 DEF RemoveDead
    <3>2. RequestType' /\ DeadAreGone'
      <4>1. << >> \in Seq(Clients) /\ DOMAIN << >> = {}
        OBVIOUS
      <4>2. QED
        BY <2>1, <3>1, <4>1, DiscardingKeepsType
    <3>3. ListType'
      BY <3>1, TypeKept
    <3>4. NewIsUnknown' /\ RegisteringIsOpen'
      BY <3>1, <2>1 DEF NewIsUnknown, RegisteringIsOpen, RemoveDead, Registered,
         listVars, stateVars, feedVars
    <3>5. QED
      BY <2>2, <3>2, <3>3, <3>4
  <2>5. QED
    BY <2>3, <2>4
<1>12. ASSUME NEW c \in Clients, NEW d \in Devices, Subscribe(c, d) PROVE BaseInv'
  <2> USE <1>12
  <2>1. /\ clients' \in Seq(Clients) /\ IsInjective(clients')
        /\ Range(clients') = Range(clients) \ {c}
        /\ missed' \subseteq Clients \X Devices
    <3>1. CASE Registered(c)
      BY <3>1, LeaveKeepsType DEF Subscribe
    <3>2. CASE ~Registered(c)
      BY <3>2 DEF Subscribe, ListType, Registered
    <3>3. QED
      BY <3>1, <3>2
  <2>2. ListType'
    BY <2>1 DEF ListType, Subscribe
  <2>3. LoopType'
    BY WsServerAssumption DEF LoopType, Subscribe, StartLoop
  <2>4. /\ ConnType' /\ StateType' /\ ReactorType' /\ RequestType' /\ FeedType'
    BY TypeKept DEF Subscribe
  <2>5. NewIsUnknown' /\ DeadAreGone'
    BY <2>1 DEF NewIsUnknown, DeadAreGone, Subscribe, Registered, stateVars,
       requestVars, feedVars
  <2>6. RegisteringIsOpen'
    BY DEF RegisteringIsOpen, Subscribe, Idle
  <2>7. QED
    BY <2>2, <2>3, <2>4, <2>5, <2>6
<1>13. ASSUME NEW d \in Devices, Poll(d) PROVE BaseInv'
  <2> USE <1>13
  <2>1. ListType'
    BY DEF ListType, Poll, SendLevels
  <2>2. LoopType'
    BY LoopKeepsType DEF Poll
  <2>3. /\ ConnType' /\ StateType' /\ ReactorType' /\ RequestType' /\ FeedType'
    BY TypeKept DEF Poll
  <2>4. NewIsUnknown' /\ RegisteringIsOpen' /\ DeadAreGone'
    BY DEF NewIsUnknown, RegisteringIsOpen, DeadAreGone, Poll, Registered, stateVars,
       requestVars, feedVars
  <2>5. QED
    BY <2>1, <2>2, <2>3, <2>4
<1>14. ASSUME NEW d \in Devices, PollFails(d) PROVE BaseInv'
  <2> USE <1>14
  <2>1. LoopType'
    BY LoopKeepsType DEF PollFails
  <2>2. /\ ConnType' /\ ListType' /\ StateType' /\ ReactorType' /\ RequestType'
        /\ FeedType'
    BY TypeKept DEF PollFails, listVars
  <2>3. NewIsUnknown' /\ RegisteringIsOpen' /\ DeadAreGone'
    BY DEF NewIsUnknown, RegisteringIsOpen, DeadAreGone, PollFails, Registered,
       stateVars, requestVars, feedVars
  <2>4. QED
    BY <2>1, <2>2, <2>3
<1>15. ASSUME NEW d \in Devices, Ask(d) PROVE BaseInv'
  <2> USE <1>15
  <2>1. LoopType'
    BY LoopKeepsType DEF Ask
  <2>2. /\ ConnType' /\ ListType' /\ StateType' /\ ReactorType' /\ RequestType'
        /\ FeedType'
    BY TypeKept DEF Ask
  <2>3. NewIsUnknown' /\ RegisteringIsOpen' /\ DeadAreGone'
    BY DEF NewIsUnknown, RegisteringIsOpen, DeadAreGone, Ask, Registered, listVars,
       stateVars, requestVars, feedVars
  <2>4. QED
    BY <2>1, <2>2, <2>3
<1>16. ASSUME NEW d \in Devices, Push(d) PROVE BaseInv'
  <2> USE <1>16
  <2>1. ListType'
    BY DEF ListType, Push, SendLevels
  <2>2. /\ ConnType' /\ StateType' /\ ReactorType' /\ RequestType' /\ LoopType'
        /\ FeedType'
    BY TypeKept DEF Push
  <2>3. NewIsUnknown' /\ RegisteringIsOpen' /\ DeadAreGone'
    BY DEF NewIsUnknown, RegisteringIsOpen, DeadAreGone, Push, Registered, stateVars,
       requestVars, feedVars
  <2>4. QED
    BY <2>1, <2>2, <2>3
<1>17. ASSUME NEW c \in Clients, SendCatalogue(c) PROVE BaseInv'
  <2> USE <1>17
  <2>1. FeedType'
    BY DEF FeedType, SendCatalogue
  <2>2. /\ ConnType' /\ ListType' /\ StateType' /\ ReactorType' /\ RequestType'
        /\ LoopType'
    BY TypeKept DEF SendCatalogue
  <2>3. NewIsUnknown' /\ RegisteringIsOpen' /\ DeadAreGone'
    BY DEF NewIsUnknown, RegisteringIsOpen, DeadAreGone, SendCatalogue, Registered,
       listVars, stateVars, requestVars, FeedType
  <2>4. QED
    BY <2>1, <2>2, <2>3
<1>18. ASSUME NEW c \in Clients, LoadNextChunk(c) PROVE BaseInv'
  <2> USE <1>18
  <2> DEFINE o == offset[c]
  <2>1. o \in Nat /\ o < Count /\ Limit(o) \in Nat \ {0} /\ Count \in Nat \ {0}
    BY WsServerAssumption DEF LoadNextChunk, FeedType, Limit
  <2>2. Min({Count, o + Limit(o)}) \in o..Count
    BY <2>1, MinOfTwo
  <2>3. /\ ready' \in [Clients -> SUBSET Chunks]
    BY <2>1, <2>2 DEF LoadNextChunk, FeedType, Chunks
  <2>4. FeedType' /\ \A x \in Clients : offset[x] = None => offset'[x] = None
    <3>1. offset' = [offset EXCEPT ![c] = o + Limit(o)] /\ o # None
      BY DEF LoadNextChunk, NextOffset
    <3>2. /\ offset' \in [Clients -> Nat \cup {None}]
          /\ \A x \in Clients : offset[x] = None => offset'[x] = None
      BY <2>1, <3>1 DEF FeedType
    <3>3. QED
      BY <2>3, <3>2 DEF LoadNextChunk, FeedType
  <2>5. /\ ConnType' /\ ListType' /\ StateType' /\ ReactorType' /\ RequestType'
        /\ LoopType'
    BY TypeKept DEF LoadNextChunk
  <2>6. NewIsUnknown' /\ RegisteringIsOpen' /\ DeadAreGone'
    BY <2>4 DEF NewIsUnknown, RegisteringIsOpen, DeadAreGone, LoadNextChunk, Registered,
       listVars, stateVars, requestVars
  <2>7. QED
    BY <2>4, <2>5, <2>6
<1>19. ASSUME NEW c \in Clients, NEW m \in ready[c], SendChunk(c, m) PROVE BaseInv'
  <2> USE <1>19
  <2>1. FeedType'
    BY DEF FeedType, SendChunk
  <2>2. /\ ConnType' /\ ListType' /\ StateType' /\ ReactorType' /\ RequestType'
        /\ LoopType'
    BY TypeKept DEF SendChunk
  <2>3. NewIsUnknown' /\ RegisteringIsOpen' /\ DeadAreGone'
    BY DEF NewIsUnknown, RegisteringIsOpen, DeadAreGone, SendChunk, Registered,
       listVars, stateVars, requestVars
  <2>4. QED
    BY <2>1, <2>2, <2>3
<1>20. CASE Prune
  <2> USE <1>20
  <2>1. FeedType'
    BY DEF FeedType, Prune
  <2>2. /\ ConnType' /\ ListType' /\ StateType' /\ ReactorType' /\ RequestType'
        /\ LoopType'
    BY TypeKept DEF Prune
  <2>3. NewIsUnknown' /\ RegisteringIsOpen' /\ DeadAreGone'
    BY DEF NewIsUnknown, RegisteringIsOpen, DeadAreGone, Prune, Registered,
       listVars, stateVars, requestVars
  <2>4. QED
    BY <2>1, <2>2, <2>3
<1>21. CASE UNCHANGED vars
  <2>1. Typed'
    BY <1>21, TypeKept DEF vars
  <2>2. NewIsUnknown' /\ RegisteringIsOpen' /\ DeadAreGone'
    BY <1>21 DEF NewIsUnknown, RegisteringIsOpen, DeadAreGone, Registered, vars,
       listVars, stateVars, requestVars, feedVars
  <2>3. QED
    BY <2>1, <2>2
<1>22. ASSUME NEW d \in Devices, Link(d) PROVE BaseInv'
  <2> USE <1>22
  <2>1. LoopType'
    BY DEF LoopType, Link
  <2>2. /\ ConnType' /\ ListType' /\ StateType' /\ ReactorType' /\ RequestType'
        /\ FeedType'
    BY TypeKept DEF Link
  <2>3. NewIsUnknown' /\ RegisteringIsOpen' /\ DeadAreGone'
    BY DEF NewIsUnknown, RegisteringIsOpen, DeadAreGone, Link, Registered, listVars,
       stateVars, requestVars, feedVars
  <2>4. QED
    BY <2>1, <2>2, <2>3
<1>23. QED
  BY <1>1, <1>2, <1>3, <1>4, <1>5, <1>6, <1>7, <1>8, <1>9, <1>10, <1>11,
     <1>12, <1>13, <1>14, <1>15, <1>16, <1>17, <1>18, <1>19, <1>20, <1>21, <1>22
     DEF Next, Registration, Request, Timer, Feed

\* Everything the server keeps has its type; in particular no client is in the
\* list twice, however it registers, subscribes and is found to be gone.
THEOREM TypeCorrect == Spec => []TypeOK
<1>1. BaseInv => TypeOK
  BY TypedIsTypeOK DEF BaseInv
<1>2. QED
  BY InitBase, NextBase, <1>1, PTL DEF Spec

-----------------------------------------------------------------------------
(* Levels.  LevelsKeepComing is inductive: a device whose last loop ends   *)
(* is in silenced, or has no listener left.                                *)

\* Where nothing starts or ends a loop, listeners at most become fewer.
LEMMA FewerListeners ==
  ASSUME LevelsKeepComing, UNCHANGED <<loops, silenced>>,
         \A d \in Devices : levels'[d] \subseteq levels[d]
  PROVE  LevelsKeepComing'
BY WsServerAssumption DEF LevelsKeepComing

\* Unregistering takes a client out of lists only.
LEMMA UnregisterTakesOut ==
  ASSUME ListType, NEW c, Unregister(c)
  PROVE  \A d \in Devices : levels'[d] \subseteq levels[d]
BY DEF ListType, Unregister

LEMMA NextLevels == BaseInv /\ LevelsKeepComing /\ [Next]_vars => LevelsKeepComing'
<1> SUFFICES ASSUME BaseInv, LevelsKeepComing, [Next]_vars PROVE LevelsKeepComing'
  OBVIOUS
<1>1. ListType /\ LoopType /\ RequestType
  BY DEF BaseInv, Typed
<1>2. CASE UNCHANGED <<levels, loops, silenced>>
  BY <1>2, FewerListeners
<1>3. ASSUME NEW c \in Clients, OnClose(c) PROVE LevelsKeepComing'
  BY <1>1, <1>3, UnregisterTakesOut, FewerListeners DEF OnClose, loopVars
<1>4. ASSUME NEW d \in Devices, Discard(d) PROVE LevelsKeepComing'
  <2>1. CASE Registered(Head(dead[d]))
    BY <1>4, <2>1, <1>2 DEF Discard, listVars, loopVars
  <2>2. CASE ~Registered(Head(dead[d]))
    BY <1>1, <1>4, <2>2, UnregisterTakesOut, FewerListeners DEF Discard, loopVars
  <2>3. QED
    BY <2>1, <2>2
<1>5. ASSUME NEW d \in Devices, RemoveDead(d) PROVE LevelsKeepComing'
  BY <1>5, <1>2 DEF RemoveDead, listVars, loopVars
<1>6. ASSUME NEW c \in Clients, NEW d \in Devices, Subscribe(c, d)
      PROVE  LevelsKeepComing'
  <2> SUFFICES ASSUME NEW x \in Polled \cup Asked, levels'[x] # {}
               PROVE  loops'[x] > 0 \/ x \in silenced'
    BY DEF LevelsKeepComing
  <2>1. x \in Devices
    BY WsServerAssumption
  <2>2. CASE x = d
    BY <1>1, <1>6, <2>2 DEF Subscribe, StartLoop, LoopType
  <2>3. CASE x # d
    <3>1. levels[x] # {} /\ loops'[x] = loops[x]
      BY <1>1, <1>6, <2>1, <2>3 DEF Subscribe, StartLoop, LoopType, ListType
    <3>2. QED
      BY <1>6, <2>3, <3>1 DEF Subscribe, StartLoop, LevelsKeepComing
  <2>4. QED
    BY <2>2, <2>3
<1>7. ASSUME NEW d \in Devices, NEW goesOn, NEW reason, Loop(d, goesOn, reason), loops[d] > 0,
             \A x \in Devices : levels'[x] \subseteq levels[x],
             goesOn \/ reason \/ levels'[d] = {}
      PROVE  LevelsKeepComing'
  <2> SUFFICES ASSUME NEW x \in Polled \cup Asked, levels'[x] # {}
               PROVE  loops'[x] > 0 \/ x \in silenced'
    BY DEF LevelsKeepComing
  <2>1. x \in Devices /\ levels[x] # {}
    BY WsServerAssumption, <1>7
  <2>2. silenced \subseteq silenced'
    BY <1>7 DEF Loop
  <2>3. CASE x = d /\ ~goesOn
    <3>1. loops'[d] = loops[d] - 1 /\ loops[d] \in Nat
      BY <1>1, <1>7, <2>3, WsServerAssumption DEF Loop, LoopType
    <3>2. QED
      BY <1>7, <2>3, <3>1 DEF Loop
  <2>4. CASE x # d \/ goesOn
    <3>1. loops'[x] = loops[x]
      BY <1>1, <1>7, <2>1, <2>4 DEF Loop, LoopType
    <3>2. QED
      BY <2>1, <2>2, <3>1 DEF LevelsKeepComing
  <2>5. QED
    BY <2>3, <2>4
<1>8. ASSUME NEW d \in Devices, Poll(d) PROVE LevelsKeepComing'
  <2>1. /\ \A x \in Devices : levels'[x] \subseteq levels[x]
        /\ levels[d] = {} => levels'[d] = {}
    BY <1>1, <1>8 DEF Poll, SendLevels, ListType
  <2>2. QED
    BY <1>7, <1>8, <2>1 DEF Poll, SomebodyHeard
<1>9. ASSUME NEW d \in Devices, PollFails(d) PROVE LevelsKeepComing'
  BY <1>7, <1>9 DEF PollFails
<1>10. ASSUME NEW d \in Devices, Ask(d) PROVE LevelsKeepComing'
  BY <1>7, <1>10 DEF Ask, listVars
<1>11. ASSUME NEW d \in Devices, Push(d) PROVE LevelsKeepComing'
  BY <1>1, <1>11, FewerListeners DEF Push, SendLevels, ListType, loopVars
<1>12. ASSUME NEW c \in Clients, Register(c) \/ Close(c) \/ SendCatalogue(c) \/ Feed(c)
       PROVE  LevelsKeepComing'
  BY <1>2, <1>12
     DEF Register, Close, SendCatalogue, Feed, LoadNextChunk, SendChunk, listVars, loopVars
<1>13. CASE Registration \/ Prune
  BY <1>2, <1>13 DEF Registration, ReadState, SendState, Prune, listVars, loopVars
<1>14. ASSUME NEW d \in Devices, Hydrate(d) \/ Change(d) \/ SendNext(d) \/ Sent(d) \/ Link(d)
       PROVE  LevelsKeepComing'
  BY <1>2, <1>14 DEF Hydrate, Change, SendNext, Sent, Link, listVars, loopVars
<1>15. CASE UNCHANGED vars
  BY <1>2, <1>15 DEF vars, listVars, loopVars
<1>16. QED
  BY <1>3, <1>4, <1>5, <1>6, <1>8, <1>9, <1>10, <1>11, <1>12, <1>13, <1>14, <1>15
     DEF Next, Request, Timer

\* Somebody who listens is sent levels as long as the device answers, is
\* connected if it is a CamillaDSP, and the clients that are found to be gone are
\* fewer than those that are left.
THEOREM LevelsCome == Spec => []LevelsKeepComing
<1>1. Init => LevelsKeepComing
  BY WsServerAssumption DEF Init, LevelsKeepComing
<1>2. QED
  BY <1>1, InitBase, NextBase, NextLevels, PTL DEF Spec

-----------------------------------------------------------------------------
(* Broadcasts.                                                             *)

\* The broadcast of d has not come to c yet.
Ahead(c, d) ==
  /\ pc[d] = "send"
  /\ \E i \in DOMAIN clients : cursor[d] <= i /\ clients[i] = c

\* Whoever holds an outdated state is ahead of the broadcast, or is one of the
\* two cases.
OldIsAhead ==
  \A c \in Range(clients), d \in Devices :
    conn[c] = "open" /\ view[c][d] = "old" => Ahead(c, d) \/ <<c, d>> \in missed

\* A state that has changed since it was read to be sent to a client that
\* registers is one the client was counted in for.
LateIsOld ==
  reactor.device # None /\ ~reactor.fresh
    => view[reactor.client][reactor.device] # "none"

InformedInv == OldIsAhead /\ LateIsOld

LEMMA InitInformed == Init => InformedInv
BY DEF Init, InformedInv, OldIsAhead, LateIsOld, Idle, Range

\* When somebody leaves the list, those behind move one place further in front:
\* who was ahead of a broadcast still is, or is counted as passed over.
LEMMA AheadOrMissed ==
  ASSUME ListType, RequestType, NEW c \in Clients, Registered(c), Leave(c),
         NEW x \in Range(clients) \ {c}, NEW d \in Devices, Ahead(x, d),
         pc'[d] = pc[d], cursor'[d] = cursor[d]
  PROVE  Ahead(x, d)' \/ <<x, d>> \in missed'
<1>1. PICK at \in DOMAIN clients :
        /\ clients[at] = c
        /\ clients' \in Seq(Clients) /\ IsInjective(clients')
        /\ Len(clients') = Len(clients) - 1
        /\ \A j \in DOMAIN clients' :
             clients'[j] = IF j < at THEN clients[j] ELSE clients[j + 1]
        /\ Range(clients') = Range(clients) \ {c}
        /\ missed' = missed \cup
             {<<clients[cursor[y]], y>> :
                y \in {z \in Devices : /\ pc[z] = "send" /\ at < cursor[z]
                                       /\ cursor[z] \in DOMAIN clients}}
  BY LeaveFacts DEF ListType, Registered
<1>2. PICK i \in DOMAIN clients : cursor[d] <= i /\ clients[i] = x
  BY DEF Ahead
<1>3. pc[d] = "send" /\ cursor[d] \in Nat \ {0}
  BY DEF Ahead, RequestType
<1>4. /\ DOMAIN clients = 1..Len(clients) /\ DOMAIN clients' = 1..(Len(clients) - 1)
      /\ Len(clients) \in Nat
  BY <1>1 DEF ListType
<1>5. i # at
  BY <1>1, <1>2
<1>6. CASE i < at
  <2>1. i \in DOMAIN clients' /\ clients'[i] = x
    BY <1>1, <1>2, <1>4, <1>6
  <2>2. QED
    BY <1>2, <1>3, <2>1 DEF Ahead
<1>7. CASE at < i /\ cursor[d] < i
  <2>1. i - 1 \in DOMAIN clients' /\ clients'[i - 1] = x /\ cursor[d] <= i - 1
    BY <1>1, <1>2, <1>3, <1>4, <1>7
  <2>2. QED
    BY <1>3, <2>1 DEF Ahead
<1>8. CASE at < i /\ cursor[d] = i
  <2>1. d \in {z \in Devices : /\ pc[z] = "send" /\ at < cursor[z]
                               /\ cursor[z] \in DOMAIN clients}
    BY <1>3, <1>8
  <2>2. <<clients[cursor[d]], d>> \in missed'
    BY <1>1, <2>1
  <2>3. QED
    BY <1>2, <1>8, <2>2
<1>9. QED
  BY <1>2, <1>3, <1>4, <1>5, <1>6, <1>7, <1>8

\* Hence nobody is lost sight of.
LEMMA LeaveKeepsOldAhead ==
  ASSUME ListType, RequestType, OldIsAhead,
         NEW c \in Clients, Registered(c), Leave(c),
         \A x \in Clients \ {c} : conn'[x] = conn[x] /\ view'[x] = view[x],
         \A d \in Devices : pc[d] = "send" => pc'[d] = pc[d] /\ cursor'[d] = cursor[d]
  PROVE  OldIsAhead'
<1>1. Range(clients') = Range(clients) \ {c} /\ missed \subseteq missed'
  BY LeaveKeepsType
<1>2. Range(clients) \subseteq Clients
  BY DEF ListType, Range
<1> SUFFICES ASSUME NEW x \in Range(clients) \ {c}, NEW d \in Devices,
                    conn[x] = "open", view[x][d] = "old"
             PROVE  Ahead(x, d)' \/ <<x, d>> \in missed'
  BY <1>1, <1>2 DEF OldIsAhead
<1>3. CASE <<x, d>> \in missed
  BY <1>1, <1>3
<1>4. CASE Ahead(x, d)
  BY <1>4, AheadOrMissed DEF Ahead
<1>5. QED
  BY <1>3, <1>4 DEF OldIsAhead

\* Where nobody's place, view, connection or broadcast changes.
LEMMA OldAheadKept ==
  ASSUME OldIsAhead, UNCHANGED <<clients, missed, view>>,
         \A x \in Range(clients) : conn'[x] = "open" => conn[x] = "open",
         \A d \in Devices : pc[d] = "send" => pc'[d] = pc[d] /\ cursor'[d] = cursor[d]
  PROVE  OldIsAhead'
BY DEF OldIsAhead, Ahead

LEMMA NextInformed == BaseInv /\ InformedInv /\ [Next]_vars => InformedInv'
<1> SUFFICES ASSUME BaseInv, InformedInv, [Next]_vars PROVE InformedInv'
  OBVIOUS
<1> USE DEF InformedInv
<1>1. /\ ConnType /\ ListType /\ StateType /\ ReactorType /\ RequestType
      /\ NewIsUnknown /\ RegisteringIsOpen /\ DeadAreGone
  BY DEF BaseInv, Typed
<1>2. Range(clients) \subseteq Clients
  BY <1>1 DEF ListType, Range
<1>3. CASE UNCHANGED <<clients, missed, view, conn, pc, cursor, reactor>>
  BY <1>3, OldAheadKept DEF LateIsOld
<1>4. ASSUME NEW c \in Clients, Register(c) PROVE InformedInv'
  <2>1. conn[c] = "new" /\ ~Registered(c) /\ \A d \in Devices : view[c][d] = "none"
    BY <1>1, <1>4 DEF Register, NewIsUnknown
  <2>2. Range(clients') = Range(clients) \cup {c}
    BY <1>1, <1>4, <2>1, AppendFacts DEF ListType, Register, Registered
  <2>3. \A i \in DOMAIN clients : i \in DOMAIN clients' /\ clients'[i] = clients[i]
    BY <1>1, <1>4 DEF ListType, Register
  <2>4. \A x \in Range(clients), d \in Devices : Ahead(x, d) => Ahead(x, d)'
    BY <1>4, <2>3 DEF Ahead, Register, requestVars
  <2>5. \A x \in Range(clients) : x # c
    BY <2>1 DEF Registered
  <2>6. OldIsAhead'
    BY <1>2, <1>4, <2>1, <2>2, <2>4, <2>5 DEF OldIsAhead, Register, stateVars, ConnType
  <2>7. LateIsOld'
    BY <1>4 DEF LateIsOld, Register, Idle
  <2>8. QED
    BY <2>6, <2>7
<1>5. CASE ReadState
  <2>1. OldIsAhead'
    BY <1>5, OldAheadKept DEF ReadState, listVars, stateVars, requestVars
  <2>2. LateIsOld'
    BY <1>1, <1>5 DEF LateIsOld, ReadState, Idle, ReactorType
  <2>3. QED
    BY <2>1, <2>2
<1>6. CASE SendState
  <2> DEFINE c == reactor.client
             d == reactor.device
  <2>1. c \in Clients /\ d \in Devices
    BY <1>1, <1>6 DEF SendState, ReactorType, RegisteringIsOpen
  <2>2. LateIsOld'
    BY <1>6 DEF LateIsOld, SendState, Idle
  <2>3. /\ view' = [view EXCEPT ![c][d] = IF reactor.fresh THEN "current" ELSE "old"]
        /\ missed' = IF view[c][d] = "current" /\ ~reactor.fresh
                     THEN missed \cup {<<c, d>>} ELSE missed
        /\ ~reactor.fresh => view[c][d] # "none"
    BY <1>6 DEF SendState, LateIsOld
  <2>4. view[c][d] \in {"none", "current", "old"}
    BY <1>1, <2>1 DEF StateType
  <2> HIDE DEF c, d
  <2>5. missed \subseteq missed'
    BY <2>3
  <2>6. \A x \in Clients, y \in Devices :
          view'[x][y] = "old" => view[x][y] = "old" \/ <<x, y>> \in missed'
    BY <1>1, <2>1, <2>3, <2>4 DEF StateType
  <2>7. OldIsAhead'
    BY <1>2, <1>6, <2>5, <2>6 DEF OldIsAhead, SendState, Ahead, requestVars
  <2>8. QED
    BY <2>2, <2>7
<1>7. ASSUME NEW c \in Clients, Close(c) PROVE InformedInv'
  <2>1. \A x \in Range(clients) : conn'[x] = "open" => conn[x] = "open"
    BY <1>1, <1>2, <1>7 DEF Close, ConnType
  <2>2. OldIsAhead'
    BY <1>7, <2>1, OldAheadKept DEF Close, listVars, stateVars, requestVars
  <2>3. LateIsOld'
    BY <1>7 DEF Close, LateIsOld, stateVars
  <2>4. QED
    BY <2>2, <2>3
<1>8. ASSUME NEW c \in Clients, OnClose(c) PROVE InformedInv'
  <2>1. \A x \in Clients \ {c} : conn'[x] = conn[x] /\ view'[x] = view[x]
    BY <1>1, <1>8 DEF OnClose, ConnType, StateType
  <2>2. OldIsAhead'
    <3>1. CASE Registered(c)
      BY <1>1, <1>8, <2>1, <3>1, LeaveKeepsOldAhead DEF OnClose, Unregister, requestVars
    <3>2. CASE ~Registered(c)
      <4>1. UNCHANGED <<clients, missed, pc, cursor>>
        BY <1>8, <3>2 DEF OnClose, Unregister, requestVars
      <4>2. QED
        BY <1>2, <2>1, <3>2, <4>1 DEF OldIsAhead, Ahead, Registered
    <3>3. QED
      BY <3>1, <3>2
  <2>3. LateIsOld'
    BY <1>1, <1>8 DEF OnClose, LateIsOld, Idle
  <2>4. QED
    BY <2>2, <2>3
<1>9. ASSUME NEW d \in Devices, Change(d) PROVE InformedInv'
  <2>1. /\ pc' = [pc EXCEPT ![d] = "send"] /\ cursor' = [cursor EXCEPT ![d] = 1]
        /\ UNCHANGED <<conn, clients, missed>> /\ pc[d] = "idle"
    BY <1>9 DEF Change, listVars
  <2>2. \A x \in Clients, y \in Devices :
          view'[x][y] = IF y = d /\ (Registered(x) \/ view[x][d] # "none") THEN "old"
                        ELSE view[x][y]
    BY <1>1, <1>9 DEF Change, StateType
  <2>3. \A x \in Range(clients) : Ahead(x, d)'
    <3>1. ASSUME NEW x \in Range(clients)
          PROVE  \E i \in DOMAIN clients : 1 <= i /\ clients[i] = x
      BY <1>1 DEF Range, ListType
    <3>2. pc'[d] = "send" /\ cursor'[d] = 1
      BY <1>1, <2>1 DEF RequestType
    <3>3. QED
      BY <2>1, <3>1, <3>2 DEF Ahead
  <2>4. \A x \in Range(clients), y \in Devices \ {d} : Ahead(x, y) => Ahead(x, y)'
    BY <1>1, <2>1 DEF Ahead, RequestType
  <2>5. OldIsAhead'
    BY <1>2, <2>1, <2>2, <2>3, <2>4 DEF OldIsAhead
  <2>6. LateIsOld'
    <3> SUFFICES ASSUME reactor'.device # None, ~reactor'.fresh
                 PROVE  view'[reactor'.client][reactor'.device] # "none"
      BY DEF LateIsOld
    <3>1. /\ reactor'.client = reactor.client /\ reactor'.device = reactor.device
          /\ reactor.device # d => ~reactor.fresh
      BY <1>1, <1>9 DEF Change, ReactorType
    <3>2. /\ reactor.client \in Clients /\ reactor.device \in Devices
          /\ Registered(reactor.client)
      BY <1>1, <3>1 DEF ReactorType, RegisteringIsOpen
    <3>3. CASE reactor.device = d
      BY <2>2, <3>1, <3>2, <3>3
    <3>4. CASE reactor.device # d
      BY <2>2, <3>1, <3>2, <3>4 DEF LateIsOld
    <3>5. QED
      BY <3>3, <3>4
  <2>7. QED
    BY <2>5, <2>6
<1>10. ASSUME NEW d \in Devices, SendNext(d) PROVE InformedInv'
  <2> DEFINE c == clients[cursor[d]]
  <2>1. c \in Range(clients) /\ cursor[d] \in DOMAIN clients /\ cursor[d] \in Nat
    BY <1>1, <1>10 DEF SendNext, Range, RequestType
  <2>2. /\ pc' = pc /\ clients' = clients /\ conn' = conn /\ reactor' = reactor
        /\ \A y \in Devices : cursor'[y] = IF y = d THEN cursor[d] + 1 ELSE cursor[y]
    BY <1>1, <1>10 DEF SendNext, RequestType
  <2>3. \A x \in Range(clients), y \in Devices :
          Ahead(x, y) /\ <<x, y>> # <<c, d>> => Ahead(x, y)'
    <3> SUFFICES ASSUME NEW x \in Range(clients), NEW y \in Devices, Ahead(x, y),
                        <<x, y>> # <<c, d>>
                 PROVE  Ahead(x, y)'
      OBVIOUS
    <3>1. PICK i \in DOMAIN clients : cursor[y] <= i /\ clients[i] = x
      BY DEF Ahead
    <3>2. y = d => i # cursor[d]
      BY <3>1
    <3>3. cursor'[y] <= i
      BY <1>1, <2>1, <2>2, <3>1, <3>2 DEF ListType
    <3>4. QED
      BY <2>2, <3>1, <3>3 DEF Ahead
  <2>4. CASE conn[c] = "open"
    <3>1. view' = [view EXCEPT ![c][d] = "current"] /\ missed' = missed \ {<<c, d>>}
      BY <1>10, <2>4 DEF SendNext
    <3> HIDE DEF c
    <3>2. c \in Clients
      BY <1>2, <2>1
    <3>3. \A x \in Clients, y \in Devices :
            view'[x][y] = IF <<x, y>> = <<c, d>> THEN "current" ELSE view[x][y]
      BY <1>1, <3>1, <3>2 DEF StateType
    <3>4. OldIsAhead'
      BY <1>2, <2>2, <2>3, <3>1, <3>3 DEF OldIsAhead
    <3>5. LateIsOld'
      BY <1>1, <2>2, <3>3 DEF LateIsOld, ReactorType, RegisteringIsOpen
    <3>6. QED
      BY <3>4, <3>5
  <2>5. CASE conn[c] # "open"
    <3>1. view' = view /\ missed' = missed
      BY <1>10, <2>5 DEF SendNext
    <3> HIDE DEF c
    <3>2. OldIsAhead'
      BY <2>2, <2>3, <2>5, <3>1 DEF OldIsAhead
    <3>3. LateIsOld'
      BY <2>2, <3>1 DEF LateIsOld
    <3>4. QED
      BY <3>2, <3>3
  <2>6. QED
    BY <2>4, <2>5
<1>11. ASSUME NEW d \in Devices, Sent(d) PROVE InformedInv'
  <2>1. /\ UNCHANGED <<conn, clients, missed, view, reactor>>
        /\ \A y \in Devices \ {d} : pc'[y] = pc[y] /\ cursor'[y] = cursor[y]
    BY <1>1, <1>11 DEF Sent, Discarding, RequestType, listVars, stateVars
  <2>2. \A x \in Range(clients) : ~Ahead(x, d)
    <3> SUFFICES ASSUME NEW i \in DOMAIN clients, cursor[d] <= i PROVE FALSE
      BY DEF Ahead
    <3>1. cursor[d] \in Nat \ {0} /\ cursor[d] \notin DOMAIN clients
      BY <1>1, <1>11 DEF Sent, RequestType
    <3>2. QED
      BY <1>1, <3>1 DEF ListType
  <2>3. OldIsAhead'
    BY <2>1, <2>2 DEF OldIsAhead, Ahead
  <2>4. QED
    BY <2>1, <2>3 DEF LateIsOld
<1>12. ASSUME NEW d \in Devices, Discard(d) PROVE InformedInv'
  <2>1. /\ pc[d] = "discard" /\ UNCHANGED <<conn, view, reactor, clients, missed>>
        /\ \A y \in Devices \ {d} : pc'[y] = pc[y] /\ cursor'[y] = cursor[y]
    BY <1>1, <1>12 DEF Discard, Discarding, Unregister, RequestType, listVars, stateVars
  <2>2. QED
    BY <2>1, OldAheadKept DEF LateIsOld
<1>13. ASSUME NEW d \in Devices, RemoveDead(d) PROVE InformedInv'
  <2> DEFINE c == Head(dead[d])
  <2>1. /\ pc[d] = "remove" /\ UNCHANGED <<conn, view, reactor>>
        /\ \A y \in Devices \ {d} : pc'[y] = pc[y] /\ cursor'[y] = cursor[y]
    BY <1>1, <1>13 DEF RemoveDead, Discarding, RequestType, stateVars
  <2>2. c \in Clients
    BY <1>1, <2>1, NextToDiscard
  <2>3. CASE Registered(c)
    <3>1. Leave(c)
      BY <1>13, <2>3 DEF RemoveDead
    <3>2. OldIsAhead'
      BY <1>1, <2>1, <2>2, <2>3, <3>1, LeaveKeepsOldAhead
    <3>3. QED
      BY <2>1, <3>2 DEF LateIsOld
  <2>4. CASE ~Registered(c)
    <3>1. UNCHANGED <<clients, missed>>
      BY <1>13, <2>4 DEF RemoveDead, listVars
    <3>2. QED
      BY <2>1, <3>1, OldAheadKept DEF LateIsOld
  <2>5. QED
    BY <2>3, <2>4
<1>14. ASSUME NEW c \in Clients, NEW d \in Devices, Subscribe(c, d) PROVE InformedInv'
  <2>1. UNCHANGED <<conn, view, reactor, pc, cursor>>
    BY <1>14 DEF Subscribe, stateVars, requestVars
  <2>2. CASE Registered(c)
    BY <1>1, <1>14, <2>1, <2>2, LeaveKeepsOldAhead DEF Subscribe, LateIsOld
  <2>3. CASE ~Registered(c)
    BY <1>3, <1>14, <2>1, <2>3 DEF Subscribe
  <2>4. QED
    BY <2>2, <2>3
<1>15. ASSUME NEW d \in Devices, Hydrate(d) PROVE InformedInv'
  BY <1>3, <1>15 DEF Hydrate, listVars, requestVars
<1>16. ASSUME NEW d \in Devices, Timer(d) \/ Push(d) \/ Link(d) PROVE InformedInv'
  BY <1>3, <1>16 DEF Timer, Poll, PollFails, Ask, Push, Link, listVars, stateVars, requestVars
<1>17. ASSUME NEW c \in Clients, SendCatalogue(c) \/ Feed(c) PROVE InformedInv'
  BY <1>3, <1>17 DEF SendCatalogue, Feed, LoadNextChunk, SendChunk, listVars, stateVars,
     requestVars
<1>18. CASE Prune
  BY <1>3, <1>18 DEF Prune, listVars, stateVars, requestVars
<1>19. CASE UNCHANGED vars
  BY <1>3, <1>19 DEF vars, listVars, stateVars, requestVars
<1>20. QED
  BY <1>4, <1>5, <1>6, <1>7, <1>8, <1>9, <1>10, <1>11, <1>12, <1>13, <1>14, <1>15,
     <1>16, <1>17, <1>18, <1>19
     DEF Next, Registration, Request

\* A broadcast reaches everybody in the list, with the two exceptions and no
\* other, whatever happens to the list and to connections meanwhile.
THEOREM BroadcastsReach == Spec => []Informed
<1>1. InformedInv => Informed
  BY DEF InformedInv, OldIsAhead, Ahead, Informed
<1>2. QED
  BY <1>1, InitBase, NextBase, InitInformed, NextInformed, PTL DEF Spec

-----------------------------------------------------------------------------
(* The catalogue.                                                          *)

In(m, e) == e \in m.first..m.last

\* What was loaded for c so far lies before its offset, each entry in one chunk
\* that was sent or is ready; nothing was loaded before it asked.
Unasked(c) == ready[c] = {} /\ \A e \in Entries : got[c][e] = 0

OncePerEntry(c) ==
  /\ \A e \in Entries : got[c][e] \in {0, 1}
  /\ \A e \in Entries : got[c][e] = 1 => e <= offset[c] /\ \A m \in ready[c] : ~In(m, e)
  /\ \A m \in ready[c], e \in Entries : In(m, e) => e <= offset[c]
  /\ \A m, n \in ready[c], e \in Entries : In(m, e) /\ In(n, e) => m = n

NothingLeftOut(c) ==
  conn[c] = "open" /\ stored =>
    \A e \in Entries : e <= offset[c] => got[c][e] = 1 \/ \E m \in ready[c] : In(m, e)

ChunksOf(c) == IF offset[c] = None THEN Unasked(c) ELSE OncePerEntry(c) /\ NothingLeftOut(c)

ChunksInv == \A c \in Clients : ChunksOf(c)

LEMMA InitChunks == Init => ChunksInv
BY DEF Init, ChunksInv, ChunksOf, Unasked

\* A client keeps this if nothing is loaded for it or sent to it, and it does
\* not come to be connected after it asked.
LEMMA ChunksKept ==
  ASSUME NEW c \in Clients, ChunksOf(c),
         offset'[c] = offset[c], ready'[c] = ready[c], got'[c] = got[c],
         conn'[c] = "open" /\ offset[c] # None => conn[c] = "open",
         stored' => stored
  PROVE  ChunksOf(c)'
BY DEF ChunksOf, Unasked, OncePerEntry, NothingLeftOut

LEMMA NextChunks == BaseInv /\ ChunksInv /\ [Next]_vars => ChunksInv'
<1> SUFFICES ASSUME BaseInv, ChunksInv, [Next]_vars PROVE ChunksInv'
  OBVIOUS
<1>1. ConnType /\ FeedType /\ NewIsUnknown
  BY DEF BaseInv, Typed
<1>2. None \notin Nat /\ Count \in Nat \ {0} /\ Entries = 1..Count
  BY WsServerAssumption DEF Entries
<1>3. ASSUME UNCHANGED <<conn, feedVars>> PROVE ChunksInv'
  BY <1>3, ChunksKept DEF ChunksInv, feedVars
<1>4. ASSUME NEW c \in Clients, Register(c) \/ Close(c) PROVE ChunksInv'
  <2>1. \A x \in Clients : conn'[x] = "open" /\ offset[x] # None => conn[x] = "open"
    BY <1>1, <1>4 DEF Register, Close, ConnType, NewIsUnknown
  <2>2. UNCHANGED feedVars
    BY <1>4 DEF Register, Close
  <2>3. QED
    BY <2>1, <2>2, ChunksKept DEF ChunksInv, feedVars
<1>5. ASSUME NEW c \in Clients, OnClose(c) PROVE ChunksInv'
  <2> SUFFICES ASSUME NEW x \in Clients PROVE ChunksOf(x)'
    BY DEF ChunksInv
  <2>1. ChunksOf(x)
    BY DEF ChunksInv
  <2>2. UNCHANGED <<offset, ready, stored>>
    BY <1>5 DEF OnClose
  <2>3. CASE x # c
    BY <1>1, <1>5, <2>1, <2>2, <2>3, ChunksKept DEF OnClose, ConnType, FeedType
  <2>4. CASE x = c
    <3>1. conn'[c] = "gone" /\ \A e \in Entries : got'[c][e] = 0
      BY <1>1, <1>5 DEF OnClose, ConnType, FeedType
    <3>2. QED
      BY <2>1, <2>2, <2>4, <3>1 DEF ChunksOf, Unasked, OncePerEntry, NothingLeftOut
  <2>5. QED
    BY <2>3, <2>4
<1>6. ASSUME NEW c \in Clients, SendCatalogue(c) PROVE ChunksInv'
  <2> SUFFICES ASSUME NEW x \in Clients PROVE ChunksOf(x)'
    BY DEF ChunksInv
  <2>1. ChunksOf(x) /\ offset[x] = None
    BY <1>6 DEF ChunksInv, SendCatalogue, Unsent
  <2>2. UNCHANGED <<conn, ready, got, stored>>
    BY <1>6 DEF SendCatalogue
  <2>3. offset'[x] = IF x = c THEN 0 ELSE None
    BY <1>1, <1>6, <2>1 DEF SendCatalogue, FeedType
  <2>4. CASE x # c
    BY <2>1, <2>2, <2>3, <2>4, ChunksKept
  <2>5. CASE x = c
    <3>1. Unasked(x)
      BY <2>1 DEF ChunksOf
    <3>2. \A e \in Entries : ~(e <= 0)
      BY <1>2
    <3>3. 0 # None
      BY <1>2
    <3>4. QED
      BY <2>2, <2>3, <2>5, <3>1, <3>2, <3>3
         DEF ChunksOf, Unasked, OncePerEntry, NothingLeftOut
  <2>6. QED
    BY <2>4, <2>5
<1>7. ASSUME NEW c \in Clients, LoadNextChunk(c) PROVE ChunksInv'
  <2> SUFFICES ASSUME NEW x \in Clients PROVE ChunksOf(x)'
    BY DEF ChunksInv
  <2> DEFINE o == offset[c]
             n == o + Limit(o)
             chunk == [first |-> o + 1, last |-> IF stored THEN Min({Count, n}) ELSE o]
  <2>1. ChunksOf(x)
    BY DEF ChunksInv
  <2>2. /\ offset' = [offset EXCEPT ![c] = n]
        /\ ready' = [ready EXCEPT ![c] = @ \cup {chunk}]
        /\ UNCHANGED <<conn, got, stored>>
    BY <1>7 DEF LoadNextChunk, NextOffset
  <2>3. o \in Nat /\ o < Count /\ Limit(o) \in Nat \ {0}
    BY WsServerAssumption, <1>1, <1>7 DEF LoadNextChunk, FeedType, Limit
  <2> HIDE DEF n
  <2>4. n \in Nat /\ o < n
    BY <2>3 DEF n
  <2>5. \A e \in Entries : In(chunk, e) <=> stored /\ o < e /\ e <= n
    <3>1. Min({Count, n}) = IF Count <= n THEN Count ELSE n
      BY <1>2, <2>4, MinOfTwo
    <3>2. QED
      BY <1>2, <2>3, <2>4, <3>1 DEF In
  <2> HIDE DEF o, chunk
  <2>6. CASE x # c
    BY <1>1, <2>1, <2>2, <2>6, ChunksKept DEF FeedType
  <2>7. CASE x = c
    <3>1. offset[c] = o /\ o # None /\ n # None
      BY <1>2, <2>3, <2>4 DEF o
    <3>2. OncePerEntry(c) /\ NothingLeftOut(c)
      BY <2>1, <2>7, <3>1 DEF ChunksOf
    <3>3. offset'[c] = n /\ ready'[c] = ready[c] \cup {chunk}
      BY <1>1, <2>2 DEF FeedType
    <3>4. \A e \in Entries : e \in Nat
      BY <1>2
    <3>5. \A e \in Entries : e <= o => e <= n /\ ~In(chunk, e)
      BY <2>3, <2>4, <2>5, <3>4
    <3>6. OncePerEntry(c)'
      <4>1. \A e \in Entries : got'[c][e] \in {0, 1}
        BY <2>2, <3>2 DEF OncePerEntry
      <4>2. ASSUME NEW e \in Entries, got'[c][e] = 1
            PROVE  e <= offset'[c] /\ \A m \in ready'[c] : ~In(m, e)
        BY <2>2, <3>1, <3>2, <3>3, <3>5, <4>2 DEF OncePerEntry
      <4>3. ASSUME NEW m \in ready'[c], NEW e \in Entries, In(m, e)
            PROVE  e <= offset'[c]
        BY <2>5, <3>1, <3>2, <3>3, <3>5, <4>3 DEF OncePerEntry
      <4>4. ASSUME NEW m \in ready'[c], NEW k \in ready'[c], NEW e \in Entries,
                   In(m, e), In(k, e)
            PROVE  m = k
        BY <3>1, <3>2, <3>3, <3>5, <4>4 DEF OncePerEntry
      <4>5. QED
        BY <4>1, <4>2, <4>3, <4>4 DEF OncePerEntry
    <3>7. NothingLeftOut(c)'
      <4> SUFFICES ASSUME conn[c] = "open", stored, NEW e \in Entries, e <= n
                   PROVE  got[c][e] = 1 \/ \E m \in ready'[c] : In(m, e)
        BY <2>2, <3>3 DEF NothingLeftOut
      <4>1. CASE e <= o
        BY <3>1, <3>2, <3>3, <4>1 DEF NothingLeftOut
      <4>2. CASE ~(e <= o)
        <5>1. o < e
          BY <2>3, <3>4, <4>2
        <5>2. In(chunk, e)
          BY <2>5, <5>1
        <5>3. QED
          BY <3>3, <5>2
      <4>3. QED
        BY <4>1, <4>2
    <3>8. QED
      BY <2>7, <3>1, <3>3, <3>6, <3>7 DEF ChunksOf
  <2>8. QED
    BY <2>6, <2>7
<1>8. ASSUME NEW c \in Clients, NEW m \in ready[c], SendChunk(c, m) PROVE ChunksInv'
  <2> SUFFICES ASSUME NEW x \in Clients PROVE ChunksOf(x)'
    BY DEF ChunksInv
  <2>1. ChunksOf(x)
    BY DEF ChunksInv
  <2>2. /\ ready' = [ready EXCEPT ![c] = @ \ {m}]
        /\ UNCHANGED <<conn, offset, stored>>
    BY <1>8 DEF SendChunk
  <2>3. CASE x # c
    BY <1>1, <1>8, <2>1, <2>2, <2>3, ChunksKept DEF SendChunk, FeedType
  <2>4. CASE x = c
    <3>1. ready'[c] = ready[c] \ {m} /\ ready[c] # {}
      BY <1>1, <2>2 DEF FeedType
    <3>2. offset[c] # None /\ OncePerEntry(c) /\ NothingLeftOut(c)
      BY <2>1, <2>4, <3>1 DEF ChunksOf, Unasked
    <3>3. \A e \in Entries :
            got'[c][e] = IF conn[c] = "open" /\ In(m, e) THEN got[c][e] + 1 ELSE got[c][e]
      BY <1>1, <1>8 DEF SendChunk, FeedType, In
    <3>4. \A e \in Entries : In(m, e) => got[c][e] = 0 /\ e <= offset[c]
      BY <3>2 DEF OncePerEntry
    <3>5. \A e \in Entries : got'[c][e] = 1 =>
            got[c][e] = 1 \/ (conn[c] = "open" /\ In(m, e))
      BY <3>3
    <3>6. OncePerEntry(c)'
      <4>1. \A e \in Entries : got'[c][e] \in {0, 1}
        BY <3>2, <3>3, <3>4 DEF OncePerEntry
      <4>2. \A e \in Entries : got'[c][e] = 1 =>
              e <= offset'[c] /\ \A k \in ready'[c] : ~In(k, e)
        BY <2>2, <3>1, <3>2, <3>4, <3>5 DEF OncePerEntry
      <4>3. QED
        BY <2>2, <3>1, <3>2, <4>1, <4>2 DEF OncePerEntry
    <3>7. NothingLeftOut(c)'
      <4> SUFFICES ASSUME conn[c] = "open", stored, NEW e \in Entries, e <= offset[c]
                   PROVE  got'[c][e] = 1 \/ \E k \in ready'[c] : In(k, e)
        BY <2>2 DEF NothingLeftOut
      <4>1. CASE In(m, e)
        BY <3>3, <3>4, <4>1
      <4>2. CASE ~In(m, e)
        BY <3>1, <3>2, <3>3, <4>2 DEF NothingLeftOut
      <4>3. QED
        BY <4>1, <4>2
    <3>8. QED
      BY <2>2, <2>4, <3>2, <3>6, <3>7 DEF ChunksOf
  <2>5. QED
    BY <2>3, <2>4
<1>9. CASE Prune
  BY <1>9, ChunksKept DEF Prune, ChunksInv
<1>10. CASE Registration
  BY <1>3, <1>10 DEF Registration, ReadState, SendState
<1>11. ASSUME NEW d \in Devices, Hydrate(d) \/ Change(d) \/ Request(d) \/ Timer(d) \/ Push(d) \/ Link(d)
       PROVE  ChunksInv'
  BY <1>3, <1>11 DEF Hydrate, Change, Request, SendNext, Sent, Discard, RemoveDead, Timer,
     Poll, PollFails, Ask, Push, Link
<1>12. ASSUME NEW c \in Clients, NEW d \in Devices, Subscribe(c, d) PROVE ChunksInv'
  BY <1>3, <1>12 DEF Subscribe
<1>13. CASE UNCHANGED vars
  BY <1>3, <1>13 DEF vars
<1>14. QED
  BY <1>4, <1>5, <1>6, <1>7, <1>8, <1>9, <1>10, <1>11, <1>12, <1>13 DEF Next, Feed

\* A client that asks for the catalogue gets all of it and nothing twice, in
\* however many chunks of whatever size, sent in whatever order.
THEOREM CatalogueArrives == Spec => []WholeCatalogue
<1>1. BaseInv /\ ChunksInv => WholeCatalogue
  <2> SUFFICES ASSUME BaseInv, ChunksInv, NEW c \in Clients
               PROVE  /\ \A e \in Entries : got[c][e] <= 1
                      /\ conn[c] = "open" /\ stored /\ offset[c] # None
                         /\ offset[c] >= Count /\ ready[c] = {}
                           => \A e \in Entries : got[c][e] = 1
    BY DEF WholeCatalogue
  <2>1. ChunksOf(c)
    BY DEF ChunksInv
  <2>2. \A e \in Entries : got[c][e] <= 1
    BY <2>1 DEF ChunksOf, Unasked, OncePerEntry
  <2>3. ASSUME conn[c] = "open", stored, offset[c] # None, offset[c] >= Count,
               ready[c] = {}, NEW e \in Entries
        PROVE  got[c][e] = 1
    <3>1. offset[c] \in Nat /\ Count \in Nat /\ e \in 1..Count
      BY <2>3, WsServerAssumption DEF BaseInv, Typed, FeedType, Entries
    <3>2. e <= offset[c]
      BY <2>3, <3>1
    <3>3. NothingLeftOut(c)
      BY <2>1, <2>3 DEF ChunksOf
    <3>4. QED
      BY <2>3, <3>2, <3>3 DEF NothingLeftOut
  <2>4. QED
    BY <2>2, <2>3
<1>2. QED
  BY <1>1, InitBase, NextBase, InitChunks, NextChunks, PTL DEF Spec
=============================================================================
