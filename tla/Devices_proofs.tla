--------------------------- MODULE Devices_proofs ---------------------------
(***************************************************************************)
(* Theorems about Devices, part by part: an HTP-1; a Q-SYS, a StormAudio   *)
(* or REAPER; the configuration of composites; a J River; the commands for *)
(* a Minidsp.  For each of them an invariant that its first states have    *)
(* and its steps keep.                                                     *)
(***************************************************************************)
EXTENDS Devices, Ordered_proofs, SequencesExt, FiniteSetTheorems

-----------------------------------------------------------------------------
(* Lists of commands and reports.                                          *)

LEMMA AppendedTo ==
  ASSUME NEW S, NEW q \in Seq(S), NEW e \in S
  PROVE  /\ Append(q, e) \in Seq(S) /\ Append(q, e) # <<>>
         /\ Len(Append(q, e)) = Len(q) + 1 /\ DOMAIN Append(q, e) = 1..(Len(q) + 1)
         /\ Append(q, e)[Len(q) + 1] = e
         /\ \A i \in DOMAIN q : Append(q, e)[i] = q[i]
         /\ DOMAIN q = 1..Len(q) /\ Len(q) \in Nat
OBVIOUS

LEMMA EmptyList ==
  ASSUME NEW S, NEW q \in Seq(S)
  PROVE  q = <<>> <=> Len(q) = 0
OBVIOUS

LEMMA TailOf ==
  ASSUME NEW S, NEW q \in Seq(S), q # <<>>
  PROVE  /\ Tail(q) \in Seq(S) /\ Head(q) = q[1] /\ q[1] \in S
         /\ Len(q) \in Nat \ {0} /\ Len(Tail(q)) = Len(q) - 1
         /\ DOMAIN q = 1..Len(q) /\ DOMAIN Tail(q) = 1..(Len(q) - 1)
         /\ \A i \in DOMAIN Tail(q) : Tail(q)[i] = q[i + 1]
OBVIOUS

LEMMA FrontOf ==
  ASSUME NEW S, NEW q \in Seq(S), NEW n \in 0..Len(q)
  PROVE  /\ SubSeq(q, 1, n) \in Seq(S) /\ Len(SubSeq(q, 1, n)) = n
         /\ DOMAIN SubSeq(q, 1, n) = 1..n /\ DOMAIN q = 1..Len(q) /\ Len(q) \in Nat
         /\ \A i \in DOMAIN SubSeq(q, 1, n) : SubSeq(q, 1, n)[i] = q[i]
OBVIOUS

-----------------------------------------------------------------------------
(* An HTP-1.                                                               *)

IsFilters(command) == command.op = "filters"

\* What a device with filters f has once it has carried out the commands.
After(todo, f, x) ==
  \/ f = x /\ \A i \in DOMAIN todo : ~IsFilters(todo[i])
  \/ \E i \in DOMAIN todo :
       /\ IsFilters(todo[i]) /\ todo[i].arg = x
       /\ \A j \in DOMAIN todo : j > i => ~IsFilters(todo[j])

WillHold(x) == After(toDevice, filters, x)

\* The title in the cache file, which a request for the state would show.
Kept == IF file = None THEN H!Empty ELSE file

\* The device's picture has it once the file was read, before the first call.
Htp1Follows ==
  /\ last = IF hydrated THEN Kept ELSE H!Empty
  /\ \A c \in H!Callers : pc[c] # "idle" => hydrated

\* While there is a connection a client is there for it, and no report is under
\* way without; the reactor clears filters only when it has had a report.
Connected ==
  /\ link \in {"up", "lost"} => "live" \in clients
  /\ link # "up" => toUs = <<>>
  /\ pc[Reactor] # "idle" => "live" \in clients
  /\ pc[Reactor] # "failed" /\ title[Reactor] = H!Empty

\* The reports under way follow the input, each change being reported as such.
\* It was as ezbeq knows it at the time of the first unless a change was missed.
Reported ==
  /\ toUs # <<>> => toUs[Len(toUs)].arg = source
  /\ \A i, j \in DOMAIN toUs : i < j =>
       /\ (\A k \in (i + 1)..j : toUs[k].op = "mso") => toUs[j].arg = toUs[i].arg
       /\ j = i + 1 /\ toUs[j].op = "msoupdate" => toUs[j].arg # toUs[i].arg
  /\ ~missed =>
       IF toUs = <<>> THEN input \in {source, None}
       ELSE IF toUs[1].op = "mso" THEN input \in {toUs[1].arg, None}
       ELSE input # toUs[1].arg

\* Calls that did not overlap, and were heard, leave what they show.
Htp1Exact ==
  ~doubt =>
    /\ \A c, d \in H!Callers : pc[c] # "idle" /\ pc[d] # "idle" => c = d
    /\ \A c \in H!Callers : pc[c] = "sent" => WillHold(title[c])
    /\ (\A c \in H!Callers : pc[c] = "idle") /\ Kept # H!ERROR => WillHold(Kept)

\* A change that was not missed is under way, or the filters are being cleared,
\* or they are.
Clearing ==
  AutoClear /\ changed /\ ~missed /\ ~doubt =>
    \/ \E i \in DOMAIN toUs : toUs[i].op = "msoupdate"
    \/ pc[Reactor] \in {"peqsw", "filters"}
    \/ WillHold(H!Empty) /\ \A t \in Htp1Threads : pc[t] = "idle"

Htp1Inv == H!TypeOK /\ Htp1Follows /\ Connected /\ Reported /\ Htp1Exact /\ Clearing

LEMMA Htp1Constants ==
  /\ Reactor \notin Htp1Threads /\ AutoClear \in BOOLEAN
  /\ None \notin CatalogueEntries
  /\ H!Empty \notin CatalogueEntries /\ H!ERROR \notin CatalogueEntries
  /\ None \notin Inputs /\ None # H!Empty /\ None # H!ERROR /\ H!Empty # H!ERROR
  /\ H!Callers = Htp1Threads \cup {Reactor}
  /\ H!Titles = CatalogueEntries \cup {H!Empty}
BY DevicesAssumption DEF H!Constants, H!Callers, H!Titles, H!Empty, H!ERROR

\* Commands that are added, carried out or lost.
LEMMA AfterAppend ==
  ASSUME NEW S, NEW q \in Seq(S), NEW c \in S, NEW f, NEW x,
         IF IsFilters(c) THEN c.arg = x ELSE After(q, f, x)
  PROVE  After(Append(q, c), f, x)
<1>1. CASE IsFilters(c)
  <2>1. \A j \in DOMAIN Append(q, c) : ~(j > Len(q) + 1)
    BY AppendedTo
  <2>2. Len(q) + 1 \in DOMAIN Append(q, c)
    BY AppendedTo
  <2>3. QED
    BY <1>1, <2>1, <2>2, AppendedTo DEF After
<1>2. CASE ~IsFilters(c) /\ f = x /\ \A i \in DOMAIN q : ~IsFilters(q[i])
  BY <1>2, AppendedTo DEF After
<1>3. ASSUME ~IsFilters(c), NEW i \in DOMAIN q, IsFilters(q[i]), q[i].arg = x,
             \A j \in DOMAIN q : j > i => ~IsFilters(q[j])
      PROVE  After(Append(q, c), f, x)
  <2>1. i \in DOMAIN Append(q, c) /\ Append(q, c)[i] = q[i]
    BY AppendedTo
  <2>2. \A j \in DOMAIN Append(q, c) : j > i => ~IsFilters(Append(q, c)[j])
    BY <1>3, AppendedTo
  <2>3. QED
    BY <1>3, <2>1, <2>2 DEF After
<1>4. QED
  BY <1>1, <1>2, <1>3 DEF After

LEMMA AfterTail ==
  ASSUME NEW S, NEW q \in Seq(S), q # <<>>, NEW f, NEW x, After(q, f, x)
  PROVE  After(Tail(q), IF IsFilters(Head(q)) THEN Head(q).arg ELSE f, x)
<1> DEFINE g == IF IsFilters(Head(q)) THEN Head(q).arg ELSE f
<1>1. CASE f = x /\ \A i \in DOMAIN q : ~IsFilters(q[i])
  <2>1. ~IsFilters(Head(q)) /\ \A i \in DOMAIN Tail(q) : ~IsFilters(Tail(q)[i])
    BY <1>1, TailOf
  <2>2. QED
    BY <1>1, <2>1 DEF After
<1>2. ASSUME NEW i \in DOMAIN q, IsFilters(q[i]), q[i].arg = x,
             \A j \in DOMAIN q : j > i => ~IsFilters(q[j])
      PROVE  After(Tail(q), g, x)
  <2>1. \A j \in DOMAIN Tail(q) : j + 1 \in DOMAIN q /\ Tail(q)[j] = q[j + 1]
    BY TailOf
  <2>2. CASE i = 1
    <3>1. \A j \in DOMAIN Tail(q) : j + 1 > 1
      BY TailOf
    <3>2. \A j \in DOMAIN Tail(q) : ~IsFilters(Tail(q)[j])
      BY <1>2, <2>1, <2>2, <3>1
    <3>3. IsFilters(Head(q)) /\ Head(q).arg = x
      BY <1>2, <2>2, TailOf
    <3>4. QED
      BY <3>2, <3>3 DEF After
  <2>3. CASE i # 1
    <3>1. i - 1 \in DOMAIN Tail(q) /\ Tail(q)[i - 1] = q[i]
      BY <2>3, TailOf
    <3>2. \A j \in DOMAIN Tail(q) : j > i - 1 => j + 1 > i
      BY TailOf
    <3>3. \A j \in DOMAIN Tail(q) : j > i - 1 => ~IsFilters(Tail(q)[j])
      BY <1>2, <2>1, <3>2
    <3>4. QED
      BY <1>2, <3>1, <3>3 DEF After
  <2>4. QED
    BY <2>2, <2>3
<1>3. QED
  BY <1>1, <1>2 DEF After

LEMMA AfterCut ==
  ASSUME NEW S, NEW q \in Seq(S), NEW n \in 0..Len(q), NEW f, NEW x, After(q, f, x),
         \A i \in DOMAIN q : i > n => ~IsFilters(q[i])
  PROVE  After(SubSeq(q, 1, n), f, x)
<1>1. CASE f = x /\ \A i \in DOMAIN q : ~IsFilters(q[i])
  BY <1>1, FrontOf DEF After
<1>2. ASSUME NEW i \in DOMAIN q, IsFilters(q[i]), q[i].arg = x,
             \A j \in DOMAIN q : j > i => ~IsFilters(q[j])
      PROVE  After(SubSeq(q, 1, n), f, x)
  <2>1. ~(i > n)
    BY <1>2
  <2>2. i \in DOMAIN SubSeq(q, 1, n) /\ SubSeq(q, 1, n)[i] = q[i]
    BY <2>1, FrontOf
  <2>3. \A j \in DOMAIN SubSeq(q, 1, n) : j > i => ~IsFilters(SubSeq(q, 1, n)[j])
    BY <1>2, FrontOf
  <2>4. QED
    BY <1>2, <2>2, <2>3 DEF After
<1>3. QED
  BY <1>1, <1>2 DEF After

-----------------------------------------------------------------------------
(* Types.                                                                  *)

LEMMA NewCommand ==
  /\ [op |-> "peqsw", arg |-> None] \in H!Command
  /\ [op |-> "getmso", arg |-> None] \in H!Command
  /\ \A x \in H!Titles : [op |-> "filters", arg |-> x] \in H!Command
BY DEF H!Command

LEMMA NewReport ==
  \A i \in Inputs : \A o \in {"mso", "msoupdate"} : [op |-> o, arg |-> i] \in H!Report
BY DEF H!Report

LEMMA HydrateTypes ==
  ASSUME H!TypeOK, H!Hydrate
  PROVE  hydrated' \in BOOLEAN /\ last' \in H!Titles \cup {H!ERROR}
BY DEF H!TypeOK, H!Hydrate

LEMMA BeginTypes ==
  ASSUME H!TypeOK, NEW c \in H!Callers, NEW x \in H!Titles, H!Begin(c, x)
  PROVE  /\ hydrated' \in BOOLEAN /\ last' \in H!Titles \cup {H!ERROR}
         /\ pc' \in [H!Callers -> {"idle", "peqsw", "filters", "sent", "failed"}]
         /\ title' \in [H!Callers -> H!Titles]
         /\ doubt' \in BOOLEAN
<1>1. hydrated' \in BOOLEAN /\ last' \in H!Titles \cup {H!ERROR}
  BY HydrateTypes DEF H!Begin
<1>2. doubt' \in BOOLEAN
  BY DEF H!Begin, H!TypeOK, H!Alone
<1>3. pc' \in [H!Callers -> {"idle", "peqsw", "filters", "sent", "failed"}]
  BY DEF H!Begin, H!TypeOK
<1>4. title' \in [H!Callers -> H!Titles]
  BY DEF H!Begin, H!TypeOK
<1> QED
  BY <1>1, <1>2, <1>3, <1>4

LEMMA Htp1Types == H!TypeOK /\ H!Next => H!TypeOK'
<1> SUFFICES ASSUME H!TypeOK, H!Next PROVE H!TypeOK'
  OBVIOUS
<1> USE Htp1Constants
<1>1. CASE H!State
  BY <1>1, HydrateTypes DEF H!State, H!TypeOK, H!linkVars, H!callVars, H!historyVars, H!bounds
<1>2. ASSUME NEW t \in Htp1Threads, H!Request(t) PROVE H!TypeOK'
  <2>1. t \in H!Callers
    OBVIOUS
  <2>2. PICK x \in H!Titles : H!Begin(t, x)
    BY <1>2 DEF H!Request
  <2>3. /\ changed' = FALSE /\ calls' = calls + 1
        /\ UNCHANGED <<filters, source, link, clients, toDevice, toUs, known, input, file,
                       missed, faults, changes>>
    BY <1>2 DEF H!Request, H!linkVars
  <2>4. /\ hydrated' \in BOOLEAN /\ last' \in H!Titles \cup {H!ERROR}
        /\ pc' \in [H!Callers -> {"idle", "peqsw", "filters", "sent", "failed"}]
        /\ title' \in [H!Callers -> H!Titles]
        /\ doubt' \in BOOLEAN
    BY <2>1, <2>2, BeginTypes
  <2>5. {calls', faults', changes'} \subseteq Nat
    BY <2>3 DEF H!TypeOK
  <2>6. {doubt', changed', missed'} \subseteq BOOLEAN
    BY <2>3, <2>4 DEF H!TypeOK
  <2> QED
    BY <2>3, <2>4, <2>5, <2>6 DEF H!TypeOK
<1>3. ASSUME NEW c \in H!Callers, NEW m \in H!Command, NEW p \in {"filters", "sent"},
             H!Broadcast(c, m, p)
      PROVE  H!TypeOK'
  <2>1. /\ pc' \in [H!Callers -> {"idle", "peqsw", "filters", "sent", "failed"}]
        /\ clients' \subseteq {"live", "dead"} /\ doubt' \in BOOLEAN
    BY <1>3 DEF H!Broadcast, H!TypeOK, H!Unheard
  <2>2. toDevice' \in Seq(H!Command)
    <3>1. toDevice \in Seq(H!Command)
      BY DEF H!TypeOK
    <3>2. toDevice' \in {toDevice, Append(toDevice, m)}
      BY <1>3 DEF H!Broadcast
    <3> QED
      BY <3>1, <3>2, AppendedTo
  <2> QED
    BY <1>3, <2>1, <2>2 DEF H!Broadcast, H!TypeOK, H!slotVars, H!bounds
<1>4. ASSUME NEW c \in H!Callers, H!Send(c) PROVE H!TypeOK'
  <2>1. title[c] \in H!Titles
    BY DEF H!TypeOK
  <2> QED
    BY <1>3, <1>4, <2>1, NewCommand DEF H!Send
<1>5. ASSUME NEW c \in H!Callers, H!Settle(c) PROVE H!TypeOK'
  <2>1. /\ last' \in H!Titles \cup {H!ERROR}
        /\ file' \in H!Titles \cup {H!ERROR, None}
        /\ pc' \in [H!Callers -> {"idle", "peqsw", "filters", "sent", "failed"}]
        /\ title' \in [H!Callers -> H!Titles]
    BY <1>5 DEF H!Settle, H!TypeOK
  <2> QED
    BY <1>5, <2>1 DEF H!Settle, H!TypeOK, H!linkVars, H!historyVars, H!bounds
<1>6. CASE H!OnMso
  <2>1. toUs' \in Seq(H!Report) /\ Head(toUs) \in H!Report
    BY <1>6, TailOf DEF H!OnMso, H!TypeOK
  <2>2. input' \in Inputs \cup {None} /\ missed' \in BOOLEAN /\ known' \in BOOLEAN
    BY <1>6, <2>1 DEF H!OnMso, H!TypeOK, H!Report
  <2> QED
    BY <1>6, <2>1, <2>2 DEF H!OnMso, H!TypeOK, H!slotVars, H!callVars, H!bounds
<1>7. CASE H!OnMsoUpdate
  <2>1. toUs' \in Seq(H!Report) /\ Head(toUs) \in H!Report
    BY <1>7, TailOf DEF H!OnMsoUpdate, H!TypeOK
  <2>2. input' \in Inputs \cup {None}
    BY <1>7, <2>1 DEF H!OnMsoUpdate, H!Report
  <2>3. H!Begin(Reactor, H!Empty) \/ UNCHANGED <<hydrated, last, pc, title, doubt>>
    BY <1>7 DEF H!OnMsoUpdate, H!callVars
  <2>4. /\ hydrated' \in BOOLEAN /\ last' \in H!Titles \cup {H!ERROR}
        /\ pc' \in [H!Callers -> {"idle", "peqsw", "filters", "sent", "failed"}]
        /\ title' \in [H!Callers -> H!Titles]
        /\ doubt' \in BOOLEAN
    BY <2>3, BeginTypes DEF H!TypeOK
  <2> QED
    BY <1>7, <2>1, <2>2, <2>4 DEF H!OnMsoUpdate, H!TypeOK, H!bounds
<1>8. CASE H!Open
  <2>1. toDevice' \in Seq(H!Command)
    BY <1>8, NewCommand, AppendedTo DEF H!Open, H!TypeOK
  <2> QED
    BY <1>8, <2>1 DEF H!Open, H!TypeOK, H!slotVars, H!callVars, H!historyVars, H!bounds
<1>9. CASE H!Close
  BY <1>9 DEF H!Close, H!TypeOK, H!slotVars, H!callVars, H!historyVars, H!bounds
<1>10. CASE H!Device
  <2>1. toDevice' \in Seq(H!Command) /\ Head(toDevice) \in H!Command
    BY <1>10, TailOf DEF H!Device, H!TypeOK
  <2>2. filters' \in H!Titles
    BY <1>10, <2>1 DEF H!Device, H!TypeOK, H!Command
  <2>3. toUs' \in Seq(H!Report)
    BY <1>10, NewReport, AppendedTo DEF H!Device, H!TypeOK
  <2> QED
    BY <1>10, <2>1, <2>2, <2>3
    DEF H!Device, H!TypeOK, H!slotVars, H!callVars, H!historyVars, H!bounds
<1>11. CASE H!Select
  <2>1. source' \in Inputs
    BY <1>11 DEF H!Select
  <2>2. toUs' \in Seq(H!Report)
    BY <1>11, <2>1, NewReport, AppendedTo DEF H!Select, H!TypeOK
  <2>3. changed' \in BOOLEAN /\ missed' \in BOOLEAN /\ changes' \in Nat
    BY <1>11 DEF H!Select, H!TypeOK
  <2> QED
    BY <1>11, <2>1, <2>2, <2>3 DEF H!Select, H!TypeOK, H!slotVars, H!callVars
<1>12. CASE H!Lose
  <2>1. toDevice' \in Seq(H!Command)
    BY <1>12, FrontOf DEF H!Lose, H!TypeOK
  <2>2. doubt' \in BOOLEAN /\ missed' \in BOOLEAN /\ faults' \in Nat /\ toUs' \in Seq(H!Report)
    BY <1>12 DEF H!Lose, H!TypeOK, H!Fault
  <2> QED
    BY <1>12, <2>1, <2>2 DEF H!Lose, H!TypeOK, H!slotVars, H!callVars
<1>13. CASE H!Restart
  <2>1. toDevice' \in Seq(H!Command)
    BY <1>13, FrontOf DEF H!Restart, H!TypeOK
  <2>2. doubt' \in BOOLEAN /\ missed' \in BOOLEAN /\ faults' \in Nat /\ toUs' \in Seq(H!Report)
    BY <1>13 DEF H!Restart, H!TypeOK, H!Fault
  <2> QED
    BY <1>13, <2>1, <2>2 DEF H!Restart, H!TypeOK
<1>14. QED
  BY <1>1, <1>2, <1>4, <1>5, <1>6, <1>7, <1>8, <1>9, <1>10, <1>11, <1>12, <1>13 DEF H!Next

-----------------------------------------------------------------------------
(* The parts of the invariant.                                             *)

LEMMA BeginSets ==
  ASSUME H!TypeOK, NEW c \in H!Callers, NEW x \in H!Titles, H!Begin(c, x)
  PROVE  /\ pc[c] = "idle"
         /\ hydrated' = TRUE /\ last' = IF hydrated \/ file = None THEN last ELSE file
         /\ pc'[c] = IF known THEN "peqsw" ELSE "sent"
         /\ title'[c] = x
         /\ \A d \in H!Callers : d # c => pc'[d] = pc[d] /\ title'[d] = title[d]
         /\ doubt' = (~H!Alone(c) \/ ~known)
         /\ ~doubt' => known /\ \A d \in H!Callers : d # c => pc[d] = "idle"
BY DEF H!TypeOK, H!Begin, H!Hydrate, H!Alone

LEMMA Htp1FollowsStep ==
  ASSUME H!TypeOK, Htp1Follows, H!Next
  PROVE  Htp1Follows'
<1> USE Htp1Constants
<1>1. CASE H!Hydrate /\ UNCHANGED file
  BY <1>1 DEF H!Hydrate, Htp1Follows, Kept
<1>2. CASE /\ UNCHANGED <<hydrated, last, file>>
           /\ \A c \in H!Callers : pc'[c] # "idle" => pc[c] # "idle"
  BY <1>2 DEF Htp1Follows, Kept
<1>3. ASSUME NEW c \in H!Callers, H!Settle(c) PROVE Htp1Follows'
  <2>1. last' = file' /\ file' # None /\ hydrated' = hydrated /\ hydrated
    BY <1>3 DEF H!Settle, H!TypeOK, Htp1Follows
  <2> QED
    BY <1>3, <2>1 DEF Htp1Follows, Kept
<1>4. CASE H!State
  BY <1>1, <1>4 DEF H!State
<1>5. ASSUME NEW t \in Htp1Threads, H!Request(t) PROVE Htp1Follows'
  BY <1>1, <1>5 DEF H!Request, H!Begin
<1>6. ASSUME NEW c \in H!Callers, H!Send(c) PROVE Htp1Follows'
  BY <1>2, <1>6 DEF H!Send, H!Broadcast, H!slotVars, H!TypeOK
<1>7. CASE H!OnMsoUpdate
  BY <1>1, <1>2, <1>7 DEF H!OnMsoUpdate, H!Begin, H!callVars
<1>8. CASE H!OnMso \/ H!Open \/ H!Close \/ H!Device \/ H!Select \/ H!Lose
  BY <1>2, <1>8 DEF H!OnMso, H!Open, H!Close, H!Device, H!Select, H!Lose, H!slotVars, H!callVars
<1>9. CASE H!Restart
  BY <1>9 DEF H!Restart, Htp1Follows, Kept
<1> QED
  BY <1>3, <1>4, <1>5, <1>6, <1>7, <1>8, <1>9 DEF H!Next

LEMMA ConnectedStep ==
  ASSUME H!TypeOK, Connected, H!Next
  PROVE  Connected'
<1> USE Htp1Constants
<1>1. CASE UNCHANGED <<link, clients, toUs, pc, title>>
  BY <1>1 DEF Connected
<1>2. ASSUME NEW t \in Htp1Threads, H!Request(t) PROVE Connected'
  <2>1. t \in H!Callers /\ Reactor \in H!Callers /\ t # Reactor
    OBVIOUS
  <2>2. PICK x \in H!Titles : H!Begin(t, x)
    BY <1>2 DEF H!Request
  <2>3. pc'[Reactor] = pc[Reactor] /\ title'[Reactor] = title[Reactor]
    <3>1. \A d \in H!Callers : d # t => pc'[d] = pc[d] /\ title'[d] = title[d]
      BY <2>1, <2>2, BeginSets
    <3> QED
      BY <2>1, <3>1
  <2>4. UNCHANGED <<link, clients, toUs>>
    BY <1>2 DEF H!Request, H!linkVars
  <2> QED
    BY <2>3, <2>4 DEF Connected
<1>3. ASSUME NEW c \in H!Callers, H!Send(c) PROVE Connected'
  <2>1. /\ UNCHANGED <<link, toUs, title>>
        /\ "live" \in clients => "live" \in clients'
        /\ pc[c] # "idle"
        /\ pc'[Reactor] = pc[Reactor] \/ (c = Reactor /\ (clients = {} \/ pc'[Reactor] # "failed"))
    BY <1>3 DEF H!Send, H!Broadcast, H!TypeOK
  <2> QED
    BY <2>1 DEF Connected
<1>4. ASSUME NEW c \in H!Callers, H!Settle(c) PROVE Connected'
  <2>1. /\ pc'[Reactor] \in {pc[Reactor], "idle"}
        /\ title'[Reactor] \in {title[Reactor], H!Empty}
    BY <1>4 DEF H!Settle, H!TypeOK
  <2> QED
    BY <1>4, <2>1 DEF Connected, H!Settle, H!linkVars
<1>5. CASE H!OnMso
  BY <1>5 DEF Connected, H!OnMso, H!callVars
<1>6. CASE H!OnMsoUpdate
  <2>1. UNCHANGED <<link, clients>> /\ link = "up" /\ "live" \in clients
    BY <1>6 DEF Connected, H!OnMsoUpdate
  <2>2. CASE H!Begin(Reactor, H!Empty)
    <3>1. pc'[Reactor] # "failed" /\ title'[Reactor] = H!Empty
      BY <2>2, BeginSets
    <3> QED
      BY <2>1, <3>1 DEF Connected
  <2>3. CASE UNCHANGED <<pc, title>>
    BY <2>1, <2>3 DEF Connected
  <2> QED
    BY <1>6, <2>2, <2>3 DEF H!OnMsoUpdate, H!callVars
<1>7. CASE H!State
  BY <1>1, <1>7 DEF H!State, H!linkVars, H!callVars
<1>8. CASE H!Open
  BY <1>8 DEF H!Open, Connected, H!callVars
<1>9. CASE H!Close
  BY <1>9 DEF H!Close, Connected, H!callVars
<1>10. CASE H!Device
  BY <1>10 DEF H!Device, Connected, H!callVars
<1>11. CASE H!Select
  BY <1>11 DEF H!Select, Connected, H!callVars
<1>12. CASE H!Lose
  BY <1>12 DEF H!Lose, Connected, H!callVars
<1>13. CASE H!Restart
  BY <1>13 DEF H!Restart, Connected
<1> QED
  BY <1>2, <1>3, <1>4, <1>5, <1>6, <1>7, <1>8, <1>9, <1>10, <1>11, <1>12, <1>13 DEF H!Next

\* A report is added that is what its kind says, or the first one is handled.
LEMMA ReportAdded ==
  ASSUME H!TypeOK, Reported, NEW r \in H!Report, toUs' = Append(toUs, r),
         source' = r.arg, input' = input, missed' = missed,
         IF r.op = "mso" THEN source' = source ELSE source' # source
  PROVE  Reported'
<1> USE Htp1Constants
<1> DEFINE n == Len(toUs)
<1>1. /\ n \in Nat /\ DOMAIN toUs = 1..n /\ DOMAIN toUs' = 1..(n + 1)
      /\ Len(toUs') = n + 1 /\ toUs' # <<>> /\ toUs'[n + 1] = r
      /\ \A i \in 1..n : toUs'[i] = toUs[i]
  BY AppendedTo DEF H!TypeOK
<1>2. r.arg \in Inputs /\ r.op \in {"mso", "msoupdate"} /\ (toUs = <<>> <=> n = 0)
  BY DEF H!Report, H!TypeOK
<1> HIDE DEF n
<1>3. toUs'[Len(toUs')].arg = source'
  BY <1>1
<1>4. ASSUME NEW i \in DOMAIN toUs', NEW j \in DOMAIN toUs', i < j
      PROVE  /\ (\A k \in (i + 1)..j : toUs'[k].op = "mso") => toUs'[j].arg = toUs'[i].arg
             /\ j = i + 1 /\ toUs'[j].op = "msoupdate" => toUs'[j].arg # toUs'[i].arg
  <2>1. CASE j # n + 1
    <3>1. i \in 1..n /\ j \in 1..n /\ (i + 1)..j \subseteq 1..n
      BY <1>1, <1>4, <2>1
    <3>2. \A k \in (i + 1)..j : toUs'[k] = toUs[k]
      BY <1>1, <3>1
    <3> QED
      BY <1>1, <1>4, <3>1, <3>2 DEF Reported
  <2>2. CASE j = n + 1
    <3>1. i \in 1..n /\ n \in 1..n
      BY <1>1, <1>4, <2>2
    <3>2. toUs[n].arg = source /\ toUs'[j] = r /\ toUs'[i] = toUs[i] /\ toUs'[n] = toUs[n]
      BY <1>1, <1>2, <2>2, <3>1 DEF Reported, n
    <3>3. j = i + 1 /\ r.op = "msoupdate" => toUs'[j].arg # toUs'[i].arg
      <4>1. j = i + 1 => i = n
        BY <1>1, <2>2, <3>1
      <4> QED
        BY <3>2, <4>1
    <3>4. ASSUME \A k \in (i + 1)..j : toUs'[k].op = "mso"
          PROVE  toUs'[j].arg = toUs'[i].arg
      <4>1. r.op = "mso"
        BY <1>1, <2>2, <3>1, <3>2, <3>4
      <4>2. \A k \in (i + 1)..n : toUs[k].op = "mso"
        BY <1>1, <2>2, <3>1, <3>4
      <4>3. toUs[n].arg = toUs[i].arg
        <5>1. CASE i = n
          BY <5>1
        <5>2. CASE i < n
          BY <1>1, <3>1, <4>2, <5>2 DEF Reported
        <5> QED
          BY <1>1, <3>1, <5>1, <5>2
      <4> QED
        BY <3>2, <4>1, <4>3
    <3> QED
      BY <3>2, <3>3, <3>4
  <2> QED
    BY <2>1, <2>2
<1>5. ASSUME ~missed'
      PROVE  IF toUs'[1].op = "mso" THEN input' \in {toUs'[1].arg, None}
             ELSE input' # toUs'[1].arg
  <2>1. CASE toUs = <<>>
    <3>1. toUs'[1] = r /\ input \in {source, None}
      BY <1>1, <1>2, <1>5, <2>1 DEF Reported
    <3> QED
      BY <1>2, <3>1
  <2>2. CASE toUs # <<>>
    <3>1. toUs'[1] = toUs[1]
      BY <1>1, <1>2, <2>2
    <3> QED
      BY <1>5, <2>2, <3>1 DEF Reported
  <2> QED
    BY <2>1, <2>2
<1> QED
  BY <1>1, <1>3, <1>4, <1>5 DEF Reported

LEMMA ReportHandled ==
  ASSUME H!TypeOK, Reported, toUs # <<>>, toUs' = Tail(toUs),
         source' = source, input' = Head(toUs).arg
  PROVE  Reported'
<1> USE Htp1Constants
<1> DEFINE n == Len(toUs)
<1>1. /\ n \in Nat \ {0} /\ DOMAIN toUs = 1..n /\ DOMAIN toUs' = 1..(n - 1)
      /\ Len(toUs') = n - 1 /\ Head(toUs) = toUs[1]
      /\ \A i \in 1..(n - 1) : toUs'[i] = toUs[i + 1]
  BY TailOf DEF H!TypeOK
<1>2. \A i \in 1..n : toUs[i].op \in {"mso", "msoupdate"}
  <2>1. \A i \in 1..n : toUs[i] \in H!Report
    BY <1>1 DEF H!TypeOK
  <2> QED
    BY <2>1 DEF H!Report
<1>3. toUs' = <<>> <=> n = 1
  <2>1. toUs' \in Seq(H!Report)
    BY TailOf DEF H!TypeOK
  <2>2. toUs' = <<>> <=> Len(toUs') = 0
    BY <2>1, EmptyList
  <2> QED
    BY <1>1, <2>2
<1>4. toUs[n].arg = source
  BY DEF Reported
<1> HIDE DEF n
<1>5. toUs' # <<>> => toUs'[Len(toUs')].arg = source'
  BY <1>1, <1>3, <1>4
<1>6. ASSUME NEW i \in DOMAIN toUs', NEW j \in DOMAIN toUs', i < j
      PROVE  /\ (\A k \in (i + 1)..j : toUs'[k].op = "mso") => toUs'[j].arg = toUs'[i].arg
             /\ j = i + 1 /\ toUs'[j].op = "msoupdate" => toUs'[j].arg # toUs'[i].arg
  <2>1. i + 1 \in DOMAIN toUs /\ j + 1 \in DOMAIN toUs /\ i + 1 < j + 1
    BY <1>1, <1>6
  <2>2. toUs'[i] = toUs[i + 1] /\ toUs'[j] = toUs[j + 1]
    BY <1>1
  <2>3. ASSUME \A k \in (i + 1)..j : toUs'[k].op = "mso"
        PROVE  \A k \in (i + 1 + 1)..(j + 1) : toUs[k].op = "mso"
    <3> TAKE k \in (i + 1 + 1)..(j + 1)
    <3>1. k - 1 \in (i + 1)..j /\ k - 1 \in 1..(n - 1) /\ (k - 1) + 1 = k
      BY <1>1, <1>6
    <3> QED
      BY <1>1, <2>3, <3>1
  <2>4. j = i + 1 => j + 1 = i + 1 + 1
    OBVIOUS
  <2> QED
    BY <2>1, <2>2, <2>3, <2>4 DEF Reported
<1>7. IF toUs' = <<>> THEN input' \in {source', None}
      ELSE IF toUs'[1].op = "mso" THEN input' \in {toUs'[1].arg, None}
      ELSE input' # toUs'[1].arg
  <2>1. CASE n = 1
    BY <1>1, <1>3, <1>4, <2>1
  <2>2. CASE n # 1
    <3>1. 1 \in DOMAIN toUs /\ 2 \in DOMAIN toUs /\ toUs'[1] = toUs[2]
      BY <1>1, <2>2
    <3>2. (1 + 1)..2 = {2}
      OBVIOUS
    <3>3. /\ toUs[2].op = "mso" => toUs[2].arg = toUs[1].arg
          /\ toUs[2].op = "msoupdate" => toUs[2].arg # toUs[1].arg
      BY <3>1, <3>2 DEF Reported
    <3> QED
      BY <1>1, <1>2, <1>3, <2>2, <3>1, <3>3
  <2> QED
    BY <2>1, <2>2
<1> QED
  BY <1>5, <1>6, <1>7 DEF Reported

LEMMA ReportedStep ==
  ASSUME H!TypeOK, Connected, Reported, H!Next
  PROVE  Reported'
<1> USE Htp1Constants
<1>1. CASE UNCHANGED <<toUs, source, input, missed>>
  BY <1>1 DEF Reported
<1>2. CASE H!State \/ H!Open \/ H!Close
  BY <1>1, <1>2 DEF H!State, H!Open, H!Close, H!linkVars, H!historyVars
<1>3. ASSUME NEW t \in Htp1Threads, H!Request(t) PROVE Reported'
  BY <1>1, <1>3 DEF H!Request, H!linkVars
<1>4. ASSUME NEW c \in H!Callers, H!Send(c) PROVE Reported'
  BY <1>1, <1>4 DEF H!Send, H!Broadcast
<1>5. ASSUME NEW c \in H!Callers, H!Settle(c) PROVE Reported'
  BY <1>1, <1>5 DEF H!Settle, H!linkVars, H!historyVars
<1>6. CASE H!OnMso \/ H!OnMsoUpdate
  BY <1>6, ReportHandled DEF H!OnMso, H!OnMsoUpdate
<1>7. CASE H!Device
  <2>1. UNCHANGED <<source, input, missed>>
    BY <1>7 DEF H!Device, H!historyVars
  <2>2. source \in Inputs
    BY DEF H!TypeOK
  <2>3. [op |-> "mso", arg |-> source] \in H!Report
    BY <2>2, NewReport
  <2>4. toUs' \in {toUs, Append(toUs, [op |-> "mso", arg |-> source])}
    BY <1>7 DEF H!Device
  <2> QED
    BY <1>1, <2>1, <2>3, <2>4, ReportAdded
<1>8. CASE H!Select
  <2>1. source' \in Inputs /\ source' # source /\ input' = input
    BY <1>8 DEF H!Select
  <2>2. [op |-> "msoupdate", arg |-> source'] \in H!Report
    BY <2>1, NewReport
  <2>3. CASE link = "up"
    <3>1. toUs' = Append(toUs, [op |-> "msoupdate", arg |-> source']) /\ missed' = missed
      BY <1>8, <2>3 DEF H!Select, H!TypeOK
    <3> QED
      BY <2>1, <2>2, <3>1, ReportAdded
  <2>4. CASE link # "up"
    <3>1. toUs' = <<>> /\ missed'
      BY <1>8, <2>4 DEF H!Select, Connected
    <3> QED
      BY <3>1 DEF Reported
  <2> QED
    BY <2>3, <2>4
<1>9. CASE H!Restart
  BY <1>9 DEF H!Restart, Reported
<1>10. CASE H!Lose
  <2>1. toUs' = <<>> /\ source' = source /\ input' = input
    BY <1>10 DEF H!Lose
  <2>2. ASSUME ~missed' PROVE input \in {source, None}
    <3>1. ~missed /\ \A i \in DOMAIN toUs : toUs[i].op # "msoupdate"
      BY <1>10, <2>2 DEF H!Lose, H!TypeOK
    <3>2. CASE toUs = <<>>
      BY <3>1, <3>2 DEF Reported
    <3>3. CASE toUs # <<>>
      <4>1. /\ Len(toUs) \in Nat \ {0} /\ DOMAIN toUs = 1..Len(toUs)
            /\ \A i \in DOMAIN toUs : toUs[i] \in H!Report
        BY <3>3, TailOf DEF H!TypeOK
      <4>2. \A i \in DOMAIN toUs : toUs[i].op = "mso"
        BY <3>1, <4>1 DEF H!Report
      <4>3. toUs[Len(toUs)].arg = toUs[1].arg
        <5>1. CASE Len(toUs) = 1
          BY <5>1
        <5>2. CASE Len(toUs) # 1
          <6>1. 1 \in DOMAIN toUs /\ Len(toUs) \in DOMAIN toUs /\ 1 < Len(toUs)
            BY <4>1, <5>2
          <6>2. (1 + 1)..Len(toUs) \subseteq DOMAIN toUs
            BY <4>1
          <6> QED
            BY <4>2, <6>1, <6>2 DEF Reported
        <5> QED
          BY <5>1, <5>2
      <4>4. input \in {toUs[1].arg, None} /\ toUs[Len(toUs)].arg = source
        BY <3>1, <3>3, <4>1, <4>2 DEF Reported
      <4> QED
        BY <4>3, <4>4
    <3> QED
      BY <3>2, <3>3
  <2> QED
    BY <2>1, <2>2 DEF Reported
<1> QED
  BY <1>2, <1>3, <1>4, <1>5, <1>6, <1>7, <1>8, <1>9, <1>10 DEF H!Next

\* Only sending other filters changes what the device will have, unless they are
\* lost.
LEMMA WillHoldKept ==
  ASSUME H!TypeOK, H!Next, ~doubt'
  PROVE  \/ \E c \in H!Callers :
              /\ pc[c] = "filters"
              /\ H!Broadcast(c, [op |-> "filters", arg |-> title[c]], "sent")
         \/ \A x : WillHold(x) => WillHold(x)'
<1> USE Htp1Constants
<1>1. CASE UNCHANGED <<filters, toDevice>>
  BY <1>1 DEF WillHold
<1>2. CASE H!State \/ H!OnMso \/ H!OnMsoUpdate \/ H!Close \/ H!Select
  BY <1>1, <1>2 DEF H!State, H!OnMso, H!OnMsoUpdate, H!Close, H!Select, H!linkVars
<1>3. ASSUME NEW t \in Htp1Threads, H!Request(t) PROVE UNCHANGED <<filters, toDevice>>
  BY <1>3 DEF H!Request, H!linkVars
<1>4. ASSUME NEW c \in H!Callers, H!Settle(c) PROVE UNCHANGED <<filters, toDevice>>
  BY <1>4 DEF H!Settle, H!linkVars
<1>5. ASSUME NEW m \in H!Command, ~IsFilters(m), filters' = filters,
             toDevice' \in {toDevice, Append(toDevice, m)}, NEW x, WillHold(x)
      PROVE  WillHold(x)'
  <2>1. toDevice \in Seq(H!Command)
    BY DEF H!TypeOK
  <2>2. After(Append(toDevice, m), filters, x)
    BY <1>5, <2>1, AfterAppend DEF WillHold
  <2> QED
    BY <1>5, <2>2 DEF WillHold
<1>6. ASSUME NEW c \in H!Callers, H!Send(c), pc[c] # "filters"
      PROVE  \A x : WillHold(x) => WillHold(x)'
  <2>1. /\ filters' = filters
        /\ toDevice' \in {toDevice, Append(toDevice, [op |-> "peqsw", arg |-> None])}
    BY <1>6 DEF H!Send, H!Broadcast
  <2>2. ~IsFilters([op |-> "peqsw", arg |-> None])
    BY DEF IsFilters
  <2> QED
    BY <1>5, <2>1, <2>2, NewCommand
<1>7. CASE H!Open
  <2>1. /\ filters' = filters
        /\ toDevice' \in {toDevice, Append(toDevice, [op |-> "getmso", arg |-> None])}
    BY <1>7 DEF H!Open
  <2>2. ~IsFilters([op |-> "getmso", arg |-> None])
    BY DEF IsFilters
  <2> QED
    BY <1>5, <2>1, <2>2, NewCommand
<1>8. CASE H!Device
  <2> SUFFICES ASSUME NEW x, WillHold(x) PROVE WillHold(x)'
    OBVIOUS
  <2>1. /\ toDevice # <<>> /\ toDevice' = Tail(toDevice)
        /\ filters' = IF IsFilters(Head(toDevice)) THEN Head(toDevice).arg ELSE filters
    BY <1>8 DEF H!Device, IsFilters
  <2>2. After(Tail(toDevice), IF IsFilters(Head(toDevice)) THEN Head(toDevice).arg ELSE filters, x)
    BY <2>1, AfterTail DEF WillHold, H!TypeOK
  <2> QED
    BY <2>1, <2>2 DEF WillHold
<1>9. CASE H!Lose \/ H!Restart
  <2> SUFFICES ASSUME NEW x, WillHold(x) PROVE WillHold(x)'
    OBVIOUS
  <2>1. PICK n \in 0..Len(toDevice) : toDevice' = SubSeq(toDevice, 1, n)
    BY <1>9 DEF H!Lose, H!Restart
  <2>2. Len(toDevice') = n
    BY <2>1, FrontOf DEF H!TypeOK
  <2>3. \A i \in DOMAIN toDevice : i > n => ~IsFilters(toDevice[i])
    BY <1>9, <2>2 DEF H!Lose, H!Restart, IsFilters, H!TypeOK
  <2>4. filters' = filters
    BY <1>9 DEF H!Lose, H!Restart
  <2> QED
    BY <2>1, <2>3, <2>4, AfterCut DEF WillHold, H!TypeOK
<1>10. ASSUME NEW c \in H!Callers, H!Send(c), pc[c] = "filters"
       PROVE  H!Broadcast(c, [op |-> "filters", arg |-> title[c]], "sent")
  BY <1>10 DEF H!Send
<1> QED
  BY <1>1, <1>2, <1>3, <1>4, <1>6, <1>7, <1>8, <1>9, <1>10 DEF H!Next

\* Filters that are sent and heard are what the device will have.
LEMMA Sent ==
  ASSUME H!TypeOK, Connected, ~doubt', NEW c \in H!Callers,
         pc[c] = "filters", H!Broadcast(c, [op |-> "filters", arg |-> title[c]], "sent")
  PROVE  /\ ~doubt
         /\ \/ pc'[c] = "failed" /\ clients = {}
            \/ pc'[c] = "sent" /\ WillHold(title[c])'
         /\ \A d \in H!Callers : d # c => pc'[d] = pc[d]
         /\ UNCHANGED <<title, file, last, toUs, changed, missed>>
<1> USE Htp1Constants
<1> DEFINE m == [op |-> "filters", arg |-> title[c]]
<1>1. ~doubt /\ ~H!Unheard /\ filters' = filters
  BY DEF H!Broadcast, H!TypeOK
<1>2. title[c] \in H!Titles
  BY DEF H!TypeOK
<1>3. IsFilters(m) /\ m.arg = title[c] /\ m \in H!Command
  BY <1>2, NewCommand DEF IsFilters
<1>4. CASE clients = {}
  <2>1. UNCHANGED <<title, file, last, toUs, changed, missed>>
    BY DEF H!Broadcast, H!slotVars
  <2>2. pc' = [pc EXCEPT ![c] = "failed"]
    BY <1>4 DEF H!Broadcast
  <2>3. pc'[c] = "failed" /\ \A d \in H!Callers : d # c => pc'[d] = pc[d]
    BY <2>2 DEF H!TypeOK
  <2> QED
    BY <1>1, <1>4, <2>1, <2>3
<1>5. CASE clients # {}
  <2>1. link = "up" /\ "live" \in clients
    BY <1>1, <1>5 DEF H!Unheard, Connected
  <2>2. toDevice' = Append(toDevice, m)
    BY <1>5, <2>1 DEF H!Broadcast
  <2>3. After(Append(toDevice, m), filters, title[c])
    BY <1>3, AfterAppend DEF H!TypeOK
  <2>4. UNCHANGED <<title, file, last, toUs, changed, missed>>
    BY DEF H!Broadcast, H!slotVars
  <2>5. WillHold(title[c])'
    BY <1>1, <2>2, <2>3, <2>4 DEF WillHold
  <2>6. pc'[c] = "sent" /\ \A d \in H!Callers : d # c => pc'[d] = pc[d]
    BY <1>5 DEF H!Broadcast, H!TypeOK
  <2> QED
    BY <1>1, <2>4, <2>5, <2>6
<1> QED
  BY <1>4, <1>5

LEMMA Htp1ExactStep ==
  ASSUME H!TypeOK, Connected, Htp1Follows, Htp1Exact, H!Next
  PROVE  Htp1Exact'
<1> USE Htp1Constants
<1> SUFFICES ASSUME ~doubt'
             PROVE  /\ \A c, d \in H!Callers : pc'[c] # "idle" /\ pc'[d] # "idle" => c = d
                    /\ \A c \in H!Callers : pc'[c] = "sent" => WillHold(title[c])'
                    /\ (\A c \in H!Callers : pc'[c] = "idle") /\ Kept' # H!ERROR
                         => WillHold(Kept)'
  BY DEF Htp1Exact
<1> DEFINE keeps == \A x : WillHold(x) => WillHold(x)'
           exact == /\ \A c, d \in H!Callers : pc[c] # "idle" /\ pc[d] # "idle" => c = d
                    /\ \A c \in H!Callers : pc[c] = "sent" => WillHold(title[c])
                    /\ (\A c \in H!Callers : pc[c] = "idle") /\ Kept # H!ERROR => WillHold(Kept)
<1>1. ~doubt => exact
  BY DEF Htp1Exact
<1>2. \A x : title' = title => WillHold(title[x])' = After(toDevice', filters', title[x])
  BY DEF WillHold
<1>3. CASE keeps /\ ~doubt /\ UNCHANGED <<pc, title, file>>
  <2>1. Kept' = Kept
    BY <1>3 DEF Kept
  <2>2. \A c \in H!Callers : pc[c] = "sent" => WillHold(title[c])'
    BY <1>1, <1>3 DEF WillHold
  <2>3. Kept # H!ERROR /\ (\A c \in H!Callers : pc[c] = "idle") => WillHold(Kept)'
    BY <1>1, <1>3, <2>1 DEF WillHold
  <2> QED
    BY <1>1, <1>3, <2>1, <2>2, <2>3
<1>4. ASSUME NEW c \in H!Callers, NEW x \in H!Titles, H!Begin(c, x)
      PROVE  /\ \A d, e \in H!Callers : pc'[d] # "idle" /\ pc'[e] # "idle" => d = e
             /\ \A d \in H!Callers : pc'[d] # "sent"
             /\ pc'[c] # "idle"
  <2>1. known /\ \A d \in H!Callers : d # c => pc[d] = "idle"
    BY <1>4, BeginSets
  <2>2. pc'[c] = "peqsw" /\ \A d \in H!Callers : d # c => pc'[d] = "idle"
    BY <1>4, <2>1, BeginSets
  <2> QED
    BY <2>2
<1>5. ASSUME NEW t \in Htp1Threads, H!Request(t)
      PROVE  \E c \in H!Callers, x \in H!Titles : H!Begin(c, x)
  BY <1>5 DEF H!Request
<1>6. CASE H!OnMsoUpdate
  <2>1. H!Begin(Reactor, H!Empty) \/ (keeps /\ ~doubt /\ UNCHANGED <<pc, title, file>>)
    BY <1>6 DEF H!OnMsoUpdate, H!callVars, WillHold
  <2> QED
    BY <1>3, <1>4, <2>1
<1>7. ASSUME NEW c \in H!Callers, H!Send(c), pc[c] = "peqsw"
      PROVE  Htp1Exact'
  <2>1. /\ ~doubt /\ UNCHANGED <<title, file>> /\ pc'[c] \in {"filters", "failed"}
        /\ \A d \in H!Callers : d # c => pc'[d] = pc[d]
    BY <1>7 DEF H!Send, H!Broadcast, H!slotVars, H!TypeOK
  <2>2. \A d \in H!Callers : d # c => pc'[d] = "idle"
    BY <1>1, <1>7, <2>1
  <2> QED
    BY <2>1, <2>2 DEF Htp1Exact
<1>8. ASSUME NEW c \in H!Callers, pc[c] = "filters",
             H!Broadcast(c, [op |-> "filters", arg |-> title[c]], "sent")
      PROVE  Htp1Exact'
  <2>1. /\ ~doubt /\ UNCHANGED <<title, file>>
        /\ \/ pc'[c] = "failed"
           \/ pc'[c] = "sent" /\ WillHold(title[c])'
        /\ \A d \in H!Callers : d # c => pc'[d] = pc[d]
    BY <1>8, Sent
  <2>2. \A d \in H!Callers : d # c => pc'[d] = "idle"
    BY <1>1, <1>8, <2>1
  <2> QED
    BY <2>1, <2>2 DEF Htp1Exact
<1>9. ASSUME NEW c \in H!Callers, H!Settle(c), keeps PROVE Htp1Exact'
  <2>1. /\ ~doubt /\ pc[c] \in {"sent", "failed"} /\ pc'[c] = "idle"
        /\ \A d \in H!Callers : d # c => pc'[d] = pc[d]
        /\ file' = IF pc[c] = "sent" THEN title[c] ELSE H!ERROR
    BY <1>9 DEF H!Settle, H!historyVars, H!TypeOK
  <2>2. \A d \in H!Callers : pc'[d] = "idle"
    BY <1>1, <2>1
  <2>3. CASE pc[c] = "failed"
    <3>1. Kept' = H!ERROR
      BY <2>1, <2>3 DEF Kept
    <3> QED
      BY <2>2, <3>1 DEF Htp1Exact
  <2>4. CASE pc[c] = "sent"
    <3>1. Kept' = title[c]
      BY <2>1, <2>4 DEF Kept, H!TypeOK
    <3>2. After(toDevice', filters', title[c])
      BY <1>1, <1>9, <2>1, <2>4 DEF WillHold
    <3>3. WillHold(Kept)'
      BY <3>1, <3>2 DEF WillHold
    <3> QED
      BY <2>2, <3>3 DEF Htp1Exact
  <2> QED
    BY <2>1, <2>3, <2>4
<1>10. CASE (H!State \/ H!OnMso \/ H!Open \/ H!Close \/ H!Device \/ H!Select \/ H!Lose) /\ keeps
  <2>1. UNCHANGED <<pc, title, file>>
    BY <1>10 DEF H!State, H!OnMso, H!Open, H!Close, H!Device, H!Select, H!Lose, H!slotVars,
                 H!callVars
  <2>2. ~doubt
    BY <1>10 DEF H!State, H!OnMso, H!Open, H!Close, H!Device, H!Select, H!Lose, H!historyVars,
                 H!TypeOK
  <2> QED
    BY <1>3, <1>10, <2>1, <2>2
<1>11. CASE H!Restart /\ keeps
  <2>1. ~doubt /\ \A c \in H!Callers : pc[c] = "idle"
    BY <1>11 DEF H!Restart, H!TypeOK
  <2>2. Kept' = Kept /\ \A c \in H!Callers : pc'[c] = "idle"
    BY <1>11 DEF H!Restart, Kept
  <2>3. Kept # H!ERROR => WillHold(Kept)'
    BY <1>1, <1>11, <2>1, <2>2 DEF WillHold
  <2> QED
    BY <2>2, <2>3
<1>12. keeps \/ \E c \in H!Callers :
                  /\ pc[c] = "filters"
                  /\ H!Broadcast(c, [op |-> "filters", arg |-> title[c]], "sent")
  BY WillHoldKept
<1>13. Htp1Exact' => /\ \A c, d \in H!Callers : pc'[c] # "idle" /\ pc'[d] # "idle" => c = d
                     /\ \A c \in H!Callers : pc'[c] = "sent" => WillHold(title[c])'
                     /\ (\A c \in H!Callers : pc'[c] = "idle") /\ Kept' # H!ERROR
                          => WillHold(Kept)'
  BY DEF Htp1Exact
<1>14. ASSUME NEW c \in H!Callers, H!Send(c)
       PROVE  \/ pc[c] = "peqsw"
              \/ /\ pc[c] = "filters"
                 /\ H!Broadcast(c, [op |-> "filters", arg |-> title[c]], "sent")
  BY <1>14 DEF H!Send
<1> QED
  BY <1>4, <1>5, <1>6, <1>7, <1>8, <1>9, <1>10, <1>11, <1>12, <1>13, <1>14 DEF H!Next

LEMMA ClearingStep ==
  ASSUME H!TypeOK, Connected, Reported, Htp1Exact, Clearing, H!Next
  PROVE  Clearing'
<1> USE Htp1Constants
<1> SUFFICES ASSUME AutoClear, changed', ~missed', ~doubt'
             PROVE  \/ \E i \in DOMAIN toUs' : toUs'[i].op = "msoupdate"
                    \/ pc'[Reactor] \in {"peqsw", "filters"}
                    \/ WillHold(H!Empty)' /\ \A t \in Htp1Threads : pc'[t] = "idle"
  BY DEF Clearing
<1> DEFINE keeps == \A x : WillHold(x) => WillHold(x)'
           heard == \E i \in DOMAIN toUs : toUs[i].op = "msoupdate"
           goal == \/ \E i \in DOMAIN toUs' : toUs'[i].op = "msoupdate"
                   \/ pc'[Reactor] \in {"peqsw", "filters"}
                   \/ WillHold(H!Empty)' /\ \A t \in Htp1Threads : pc'[t] = "idle"
<1>1. changed /\ ~missed /\ ~doubt =>
        \/ heard
        \/ pc[Reactor] \in {"peqsw", "filters"}
        \/ WillHold(H!Empty) /\ \A t \in Htp1Threads : pc[t] = "idle"
  BY DEF Clearing
<1>2. WillHold(H!Empty)' = After(toDevice', filters', H!Empty)
  BY DEF WillHold, H!Empty
<1>3. CASE /\ keeps /\ UNCHANGED <<toUs, changed, missed>>
           /\ ~doubt /\ pc'[Reactor] = pc[Reactor]
           /\ \A t \in Htp1Threads : pc[t] = "idle" => pc'[t] = "idle"
  BY <1>1, <1>3
<1>4. ASSUME NEW t \in Htp1Threads, H!Request(t) PROVE FALSE
  BY <1>4 DEF H!Request
<1>5. CASE H!OnMsoUpdate
  <2>1. ~missed /\ toUs # <<>> /\ Head(toUs).op = "msoupdate" /\ input' = Head(toUs).arg
    BY <1>5 DEF H!OnMsoUpdate
  <2>2. Head(toUs) = toUs[1]
    BY <2>1, TailOf DEF H!TypeOK
  <2>3. input # input'
    BY <2>1, <2>2 DEF Reported
  <2>4. H!Begin(Reactor, H!Empty)
    BY <1>5, <2>3 DEF H!OnMsoUpdate
  <2>5. pc'[Reactor] = "peqsw"
    BY <2>4, BeginSets
  <2> QED
    BY <2>5
<1>6. CASE H!OnMso
  <2>1. /\ keeps /\ UNCHANGED <<pc, doubt, changed>> /\ ~missed
        /\ toUs # <<>> /\ Head(toUs).op = "mso" /\ toUs' = Tail(toUs)
    BY <1>6 DEF H!OnMso, H!callVars, WillHold
  <2>2. ASSUME NEW i \in DOMAIN toUs, toUs[i].op = "msoupdate"
        PROVE  i - 1 \in DOMAIN toUs' /\ toUs'[i - 1].op = "msoupdate"
    <3>1. Head(toUs) = toUs[1] /\ i # 1
      BY <2>1, <2>2, TailOf DEF H!TypeOK
    <3>2. i - 1 \in DOMAIN Tail(toUs) /\ Tail(toUs)[i - 1] = toUs[(i - 1) + 1]
      BY <2>1, <3>1, TailOf DEF H!TypeOK
    <3>3. (i - 1) + 1 = i
      BY <2>1, TailOf DEF H!TypeOK
    <3> QED
      BY <2>1, <2>2, <3>2, <3>3
  <2> QED
    BY <1>1, <2>1, <2>2
<1>7. ASSUME NEW c \in H!Callers, H!Send(c), pc[c] = "peqsw" PROVE goal
  <2>1. /\ ~doubt /\ UNCHANGED <<toUs, changed, missed>> /\ pc'[c] \in {"filters", "failed"}
        /\ clients # {} => pc'[c] = "filters"
        /\ \A d \in H!Callers : d # c => pc'[d] = pc[d]
    BY <1>7 DEF H!Send, H!Broadcast, H!slotVars, H!TypeOK
  <2>2. CASE c = Reactor
    <3>1. clients # {}
      BY <1>7, <2>2 DEF Connected
    <3> QED
      BY <2>1, <2>2, <3>1
  <2>3. CASE c # Reactor
    <3>1. c \in Htp1Threads /\ pc[Reactor] = "idle"
      BY <1>7, <2>1, <2>3 DEF Htp1Exact
    <3> QED
      BY <1>1, <1>7, <2>1, <3>1
  <2> QED
    BY <2>2, <2>3
<1>8. ASSUME NEW c \in H!Callers, pc[c] = "filters",
             H!Broadcast(c, [op |-> "filters", arg |-> title[c]], "sent")
      PROVE  goal
  <2>1. /\ ~doubt /\ UNCHANGED <<title, toUs, changed, missed>>
        /\ \/ pc'[c] = "failed" /\ clients = {}
           \/ pc'[c] = "sent" /\ WillHold(title[c])'
        /\ \A d \in H!Callers : d # c => pc'[d] = pc[d]
    BY <1>8, Sent
  <2>2. CASE c = Reactor
    <3>1. clients # {} /\ title[c] = H!Empty
      BY <1>8, <2>2 DEF Connected
    <3>2. WillHold(H!Empty)'
      BY <1>2, <2>1, <3>1 DEF WillHold
    <3>3. \A t \in Htp1Threads : pc[t] = "idle"
      BY <1>8, <2>1, <2>2 DEF Htp1Exact
    <3> QED
      BY <2>1, <2>2, <3>2, <3>3
  <2>3. CASE c # Reactor
    <3>1. c \in Htp1Threads /\ pc[Reactor] = "idle"
      BY <1>8, <2>1, <2>3 DEF Htp1Exact
    <3> QED
      BY <1>1, <1>8, <2>1, <3>1
  <2> QED
    BY <2>2, <2>3
<1>9. ASSUME NEW c \in H!Callers, H!Settle(c), keeps PROVE goal
  <2>1. /\ ~doubt /\ UNCHANGED <<toUs, changed, missed>>
        /\ pc[c] \in {"sent", "failed"} /\ pc'[c] = "idle"
        /\ \A d \in H!Callers : d # c => pc'[d] = pc[d]
    BY <1>9 DEF H!Settle, H!historyVars, H!linkVars, H!TypeOK
  <2>2. pc[Reactor] \in {"peqsw", "filters"} => pc'[Reactor] = pc[Reactor]
    BY <2>1
  <2>3. \A t \in Htp1Threads : pc[t] = "idle" => pc'[t] = "idle"
    BY <2>1
  <2> QED
    BY <1>1, <1>9, <2>1, <2>2, <2>3
<1>10. CASE (H!State \/ H!Open \/ H!Close) /\ keeps
  <2>1. UNCHANGED <<pc, toUs, doubt, changed, missed>>
    BY <1>10 DEF H!State, H!Open, H!Close, H!linkVars, H!callVars, H!historyVars
  <2> QED
    BY <1>3, <1>10, <2>1
<1>11. CASE H!Device /\ keeps
  <2>1. UNCHANGED <<pc, doubt, changed, missed>>
    BY <1>11 DEF H!Device, H!callVars, H!historyVars
  <2>2. heard => \E i \in DOMAIN toUs' : toUs'[i].op = "msoupdate"
    <3>1. toUs' = toUs \/ toUs' = Append(toUs, [op |-> "mso", arg |-> source])
      BY <1>11 DEF H!Device
    <3>2. [op |-> "mso", arg |-> source] \in H!Report
      BY NewReport DEF H!TypeOK
    <3>3. \A i \in DOMAIN toUs : i \in DOMAIN toUs' /\ toUs'[i] = toUs[i]
      BY <3>1, <3>2, AppendedTo DEF H!TypeOK
    <3> QED
      BY <3>3
  <2> QED
    BY <1>1, <1>11, <2>1, <2>2
<1>12. CASE H!Select
  <2>1. link = "up" /\ source' \in Inputs
    BY <1>12 DEF H!Select, H!TypeOK
  <2>2. /\ [op |-> "msoupdate", arg |-> source'] \in H!Report
        /\ toUs' = Append(toUs, [op |-> "msoupdate", arg |-> source'])
    BY <1>12, <2>1, NewReport DEF H!Select
  <2>3. Len(toUs) + 1 \in DOMAIN toUs' /\ toUs'[Len(toUs) + 1].op = "msoupdate"
    BY <2>2, AppendedTo DEF H!TypeOK
  <2> QED
    BY <2>3
<1>13. CASE (H!Lose \/ H!Restart) /\ keeps
  <2>1. ~doubt /\ changed /\ ~missed /\ ~heard
    BY <1>13 DEF H!Lose, H!Restart, H!TypeOK
  <2>2. CASE H!Lose
    BY <1>1, <1>13, <2>1, <2>2 DEF H!Lose, H!callVars
  <2>3. CASE H!Restart
    <3>1. \A c \in H!Callers : pc[c] = "idle" /\ pc'[c] = "idle"
      BY <2>3 DEF H!Restart, H!TypeOK
    <3> QED
      BY <1>1, <1>13, <2>1, <3>1
  <2> QED
    BY <1>13, <2>2, <2>3
<1>14. keeps \/ \E c \in H!Callers :
                  /\ pc[c] = "filters"
                  /\ H!Broadcast(c, [op |-> "filters", arg |-> title[c]], "sent")
  BY WillHoldKept
<1>15. ASSUME NEW c \in H!Callers, H!Send(c)
       PROVE  \/ pc[c] = "peqsw"
              \/ /\ pc[c] = "filters"
                 /\ H!Broadcast(c, [op |-> "filters", arg |-> title[c]], "sent")
  BY <1>15 DEF H!Send
<1> QED
  BY <1>4, <1>5, <1>6, <1>7, <1>8, <1>9, <1>10, <1>11, <1>12, <1>13, <1>14, <1>15 DEF H!Next

LEMMA Htp1Start == H!Init => Htp1Inv
<1> SUFFICES ASSUME H!Init PROVE Htp1Inv
  OBVIOUS
<1> USE Htp1Constants
<1>1. H!TypeOK
  <2>1. toDevice \in Seq(H!Command) /\ toUs \in Seq(H!Report)
    BY DEF H!Init
  <2>2. doubt \in BOOLEAN /\ changed \in BOOLEAN /\ missed \in BOOLEAN
    BY DEF H!Init
  <2>3. /\ pc \in [H!Callers -> {"idle", "peqsw", "filters", "sent", "failed"}]
        /\ title \in [H!Callers -> H!Titles]
    BY DEF H!Init
  <2>4. {doubt, changed, missed} \subseteq BOOLEAN
    BY <2>2
  <2>5. {calls, faults, changes} \subseteq Nat
    BY DEF H!Init
  <2>6. /\ filters \in H!Titles /\ source \in Inputs /\ link \in {"up", "lost", "down"}
        /\ clients \subseteq {"live", "dead"} /\ known \in BOOLEAN
        /\ input \in Inputs \cup {None} /\ hydrated \in BOOLEAN
        /\ last \in H!Titles \cup {H!ERROR} /\ file \in H!Titles \cup {H!ERROR, None}
    BY DEF H!Init
  <2> QED
    BY <2>1, <2>3, <2>4, <2>5, <2>6 DEF H!TypeOK
<1>2. Htp1Follows /\ Connected /\ Reported /\ Clearing
  BY DEF H!Init, Htp1Follows, Kept, Connected, Reported, Clearing
<1>3. Htp1Exact
  <2>1. DOMAIN toDevice = {}
    BY DEF H!Init
  <2>2. ~doubt => filters = H!Empty
    BY DEF H!Init
  <2> QED
    BY <2>1, <2>2 DEF H!Init, Htp1Exact, Kept, WillHold, After
<1> QED
  BY <1>1, <1>2, <1>3 DEF Htp1Inv

LEMMA Htp1Kept == Htp1Inv /\ H!Next => Htp1Inv'
<1> SUFFICES ASSUME H!TypeOK, Htp1Follows, Connected, Reported, Htp1Exact, Clearing, H!Next
             PROVE  Htp1Inv'
  BY DEF Htp1Inv
<1>1. H!TypeOK' /\ Htp1Follows' /\ Connected' /\ Reported'
  BY Htp1Types, Htp1FollowsStep, ConnectedStep, ReportedStep
<1>2. Htp1Exact' /\ Clearing'
  BY Htp1ExactStep, ClearingStep
<1> QED
  BY <1>1, <1>2 DEF Htp1Inv

LEMMA Htp1Same == Htp1Inv /\ UNCHANGED H!vars => Htp1Inv'
<1> SUFFICES ASSUME Htp1Inv, UNCHANGED H!vars PROVE Htp1Inv'
  OBVIOUS
<1>1. UNCHANGED <<filters, source, link, clients, toDevice, toUs, known, input, hydrated, last,
                  file, pc, title, doubt, changed, missed, calls, faults, changes>>
  BY DEF H!vars, H!linkVars, H!slotVars, H!callVars, H!historyVars, H!bounds
<1>2. H!TypeOK'
  BY <1>1 DEF Htp1Inv, H!TypeOK
<1>3. Htp1Follows' /\ Connected' /\ Reported'
  BY <1>1 DEF Htp1Inv, Htp1Follows, Kept, Connected, Reported
<1>4. Htp1Exact' /\ Clearing'
  BY <1>1 DEF Htp1Inv, Htp1Exact, Clearing, WillHold, Kept
<1> QED
  BY <1>2, <1>3, <1>4 DEF Htp1Inv

LEMMA Htp1Means == Htp1Inv => H!TitleMeansLoaded /\ H!ClearedOnChange
<1> SUFFICES ASSUME Htp1Inv, H!Quiet, ~doubt, last # H!ERROR
             PROVE  /\ hydrated => filters = last
                    /\ AutoClear /\ toUs = <<>> /\ changed /\ ~missed => filters = H!Empty
  BY DEF H!TitleMeansLoaded, H!ClearedOnChange
<1>1. \A x : WillHold(x) => filters = x
  BY DEF H!Quiet, WillHold, After, IsFilters
<1>2. hydrated => filters = last
  BY <1>1 DEF Htp1Inv, Htp1Follows, Htp1Exact, H!Quiet
<1>3. ASSUME AutoClear, toUs = <<>>, changed, ~missed
      PROVE  filters = H!Empty
  <2>1. DOMAIN toUs = {} /\ pc[Reactor] = "idle"
    BY <1>3, Htp1Constants DEF H!Quiet
  <2>2. WillHold(H!Empty)
    BY <1>3, <2>1 DEF Htp1Inv, Clearing
  <2> QED
    BY <1>1, <2>2
<1> QED
  BY <1>2, <1>3

-----------------------------------------------------------------------------
(* A Q-SYS, a StormAudio or REAPER.                                        *)

\* The title a request for the state would show.
OneSlotShown == IF kind = "qsys" THEN last ELSE O!Remembered

\* The device's picture has what is in the cache file, but for Q-SYS, once it
\* was read, before the first call.
OneSlotFollows ==
  /\ kind # "qsys" => last = IF hydrated THEN O!Remembered ELSE O!Empty
  /\ ~hydrated \/ file = None => last = O!Empty
  /\ \A t \in Threads : pc[t] # "idle" => hydrated

\* What is known of versions: those of requests that were given up, and of calls.
CallOf(t) == [title |-> title[t], version |-> version[t]]
Busy == {t \in Threads : pc[t] # "idle"}
Claims == wire \cup {CallOf(t) : t \in Busy}

Stands(x, v) == \A m \in Claims : m.version = v => m.title = x

\* A version stands for one title, whoever has it, and none is newer than the
\* last call.
Versions ==
  /\ kind = "qsys" => wire = {}
  /\ at <= calls /\ seen <= calls
  /\ \A m \in Claims : m.version \in 1..calls /\ Stands(m.title, m.version)
  /\ kind = "reaper" =>
       /\ Stands(ext, at)
       /\ at = 0 => seen = 0
       /\ seen # 0 =>
            \E x \in O!Titles : /\ loaded = O!Everywhere(x) /\ Stands(x, seen)
                                /\ at = seen => ext = x
  /\ kind = "stormaudio" /\ at # 0 =>
       \E x \in O!Titles : loaded = O!Everywhere(x) /\ Stands(x, at)

\* The device has x, or gets it when the script polls, and no request that was
\* given up is newer.
Holds(x) ==
  /\ kind = "qsys" => loaded = O!Everywhere(x)
  /\ kind = "stormaudio" /\ x # O!Empty =>
       loaded = O!Everywhere(x) /\ at # 0 /\ \A m \in wire : m.version <= at
  /\ kind = "reaper" =>
       /\ ext = x
       /\ at = 0 => loaded = O!Everywhere(x)
       /\ \A m \in wire : m.version <= at

\* Calls that did not overlap leave what they show.
OneSlotExact ==
  ~doubt =>
    /\ \A t, u \in Busy : t = u
    /\ \A t \in Busy : version[t] = calls
    /\ \A t \in Threads :
         /\ pc[t] = "sent" => Holds(title[t])
         /\ kind = "qsys" /\ pc[t] = "send" =>
              \A c \in 1..Components : c < step[t] => loaded[c] = title[t]
    /\ Busy = {} /\ OneSlotShown # O!ERROR => Holds(OneSlotShown)

OneSlotInv == O!TypeOK /\ OneSlotFollows /\ Versions /\ OneSlotExact

LEMMA OneSlotConstants ==
  /\ Components \in Nat \ {0} /\ Attempts \in Nat \ {0}
  /\ None \notin CatalogueEntries
  /\ O!Empty \notin CatalogueEntries /\ O!ERROR \notin CatalogueEntries
  /\ None # O!Empty /\ None # O!ERROR /\ O!Empty # O!ERROR
  /\ O!Titles = CatalogueEntries \cup {O!Empty}
<1>1. None # O!Empty /\ None # O!ERROR /\ O!Empty # O!ERROR
  BY DevicesAssumption DEF H!Constants, H!Empty, H!ERROR, O!Empty, O!ERROR
<1> QED
  BY <1>1, DevicesAssumption DEF O!Constants, O!Titles

LEMMA OneSlotStart == O!Init => OneSlotInv
<1> SUFFICES ASSUME O!Init PROVE OneSlotInv
  OBVIOUS
<1> USE OneSlotConstants
<1>1. PICK x \in O!Titles : loaded = [c \in 1..Components |-> x] /\ doubt = (x # O!Empty)
  BY DEF O!Init
<1>2. Busy = {} /\ Claims = {}
  BY DEF O!Init, Busy, Claims
<1>3. O!TypeOK
  <2>1. doubt \in BOOLEAN /\ {calls, faults} \subseteq Nat /\ loaded \in [1..Components -> O!Titles]
    BY <1>1 DEF O!Init
  <2>2. /\ pc \in [Threads -> {"idle", "send", "sent", "failed"}]
        /\ title \in [Threads -> O!Titles] /\ version \in [Threads -> Nat]
        /\ step \in [Threads -> 1..(Components + Attempts)]
    BY DEF O!Init
  <2>3. /\ kind \in O!Kinds /\ ext \in O!Titles /\ at \in Nat /\ seen \in Nat
        /\ wire \subseteq O!Message /\ hydrated \in BOOLEAN
        /\ last \in O!Titles \cup {O!ERROR} /\ file \in O!Titles \cup {O!ERROR, None}
    BY DEF O!Init
  <2> QED
    BY <2>1, <2>2, <2>3 DEF O!TypeOK
<1>4. OneSlotFollows
  BY DEF O!Init, OneSlotFollows, O!Remembered
<1>5. Versions
  BY <1>2 DEF O!Init, Versions, Stands
<1>6. OneSlotExact
  <2> SUFFICES ASSUME ~doubt PROVE OneSlotExact
    BY DEF OneSlotExact
  <2>1. OneSlotShown = O!Empty
    BY DEF O!Init, OneSlotShown, O!Remembered
  <2>2. loaded = O!Everywhere(O!Empty)
    BY <1>1 DEF O!Everywhere
  <2>3. Holds(O!Empty)
    BY <2>2 DEF O!Init, Holds
  <2> QED
    BY <1>2, <2>1, <2>3 DEF OneSlotExact, O!Init
<1> QED
  BY <1>3, <1>4, <1>5, <1>6 DEF OneSlotInv

-----------------------------------------------------------------------------
(* Types.                                                                  *)

LEMMA GivenType ==
  ASSUME O!TypeOK, NEW t \in Threads
  PROVE  /\ O!Given(t) \in [1..Components -> O!Titles]
         /\ O!Everywhere(title[t]) \in [1..Components -> O!Titles]
         /\ CallOf(t) \in O!Message /\ CallOf(t) = [title |-> title[t], version |-> version[t]]
         /\ version[t] \in Nat /\ title[t] \in O!Titles
BY DEF O!TypeOK, O!Given, O!Everywhere, O!Message, CallOf

LEMMA OnwardSets ==
  ASSUME O!TypeOK, NEW t \in Threads, NEW limit \in {Components, Attempts},
         NEW end \in {"sent", "failed"}, O!Onward(t, limit, end)
  PROVE  /\ step' \in [Threads -> 1..(Components + Attempts)]
         /\ pc' \in [Threads -> {"idle", "send", "sent", "failed"}]
         /\ pc'[t] = (IF step[t] < limit THEN "send" ELSE end)
         /\ step'[t] = IF step[t] < limit THEN step[t] + 1 ELSE step[t]
         /\ \A u \in Threads : u # t => pc'[u] = pc[u] /\ step'[u] = step[u]
<1> USE OneSlotConstants
<1>1. step[t] \in 1..(Components + Attempts)
  BY DEF O!TypeOK
<1>2. step[t] < limit => step[t] + 1 \in 1..(Components + Attempts)
  BY <1>1
<1>3. step' \in [Threads -> 1..(Components + Attempts)]
  BY <1>1, <1>2 DEF O!TypeOK, O!Onward
<1>4. pc' \in [Threads -> {"idle", "send", "sent", "failed"}]
  BY DEF O!TypeOK, O!Onward, O!Goto
<1> QED
  BY <1>3, <1>4 DEF O!TypeOK, O!Onward, O!Goto

LEMMA GotoSets ==
  ASSUME O!TypeOK, NEW t \in Threads, NEW p \in {"sent", "failed"}, O!Goto(t, p)
  PROVE  /\ pc' \in [Threads -> {"idle", "send", "sent", "failed"}]
         /\ pc'[t] = p
         /\ \A u \in Threads : u # t => pc'[u] = pc[u]
BY DEF O!TypeOK, O!Goto

LEMMA OneSlotHydrateTypes ==
  ASSUME O!TypeOK, O!Hydrate
  PROVE  hydrated' \in BOOLEAN /\ last' \in O!Titles \cup {O!ERROR}
BY OneSlotConstants DEF O!TypeOK, O!Hydrate, O!Remembered

LEMMA OneSlotBeginSets ==
  ASSUME O!TypeOK, NEW t \in Threads, O!Begin(t)
  PROVE  /\ calls' = calls + 1 /\ pc[t] = "idle"
         /\ \E x \in O!Titles :
              /\ title' = [title EXCEPT ![t] = x]
              /\ pc' = [pc EXCEPT ![t] =
                          IF kind = "stormaudio" /\ x = O!Empty THEN "sent" ELSE "send"]
         /\ version' = [version EXCEPT ![t] = calls + 1]
         /\ step' = [step EXCEPT ![t] = 1]
         /\ O!Hydrate
         /\ doubt' \in BOOLEAN
         /\ ~doubt' => \A u \in Threads : u # t => pc[u] = "idle"
         /\ UNCHANGED <<kind, loaded, ext, at, seen, wire, file, faults>>
<1>1. doubt' = ~O!Alone(t)
  BY DEF O!Begin
<1>2. calls' = calls + 1 /\ version' = [version EXCEPT ![t] = calls + 1]
  BY DEF O!Begin
<1> QED
  BY <1>1, <1>2 DEF O!Begin, O!Alone, O!deviceVars

LEMMA OneSlotTypes == O!TypeOK /\ O!Next => O!TypeOK'
<1> SUFFICES ASSUME O!TypeOK, O!Next PROVE O!TypeOK'
  OBVIOUS
<1> USE OneSlotConstants
<1>1. CASE O!State
  <2>1. UNCHANGED <<kind, loaded, ext, at, seen, wire, file, pc, title, version, step, doubt,
                    calls, faults>>
    BY <1>1 DEF O!State, O!deviceVars, O!callVars, O!bounds
  <2> QED
    BY <1>1, <2>1, OneSlotHydrateTypes DEF O!State, O!TypeOK
<1>2. CASE O!Activate
  <2>1. UNCHANGED <<kind, loaded, ext, at, seen, wire, pc, title, version, step, doubt,
                    calls, faults>>
    BY <1>2 DEF O!Activate, O!deviceVars, O!callVars, O!bounds
  <2> QED
    BY <1>2, <2>1, OneSlotHydrateTypes DEF O!Activate, O!TypeOK
<1>3. ASSUME NEW t \in Threads, O!Begin(t) PROVE O!TypeOK'
  <2>1. PICK x \in O!Titles :
          /\ title' = [title EXCEPT ![t] = x]
          /\ pc' = [pc EXCEPT ![t] =
                      IF kind = "stormaudio" /\ x = O!Empty THEN "sent" ELSE "send"]
    BY <1>3, OneSlotBeginSets
  <2>2. /\ title' \in [Threads -> O!Titles]
        /\ pc' \in [Threads -> {"idle", "send", "sent", "failed"}]
    BY <2>1 DEF O!TypeOK
  <2>3. /\ calls' = calls + 1 /\ version' = [version EXCEPT ![t] = calls + 1]
        /\ step' = [step EXCEPT ![t] = 1] /\ doubt' \in BOOLEAN /\ O!Hydrate
        /\ UNCHANGED <<kind, loaded, ext, at, seen, wire, file, faults>>
    BY <1>3, OneSlotBeginSets
  <2>4. /\ {calls', faults'} \subseteq Nat
        /\ version' \in [Threads -> Nat] /\ step' \in [Threads -> 1..(Components + Attempts)]
    BY <2>3 DEF O!TypeOK
  <2>5. hydrated' \in BOOLEAN /\ last' \in O!Titles \cup {O!ERROR}
    BY <2>3, OneSlotHydrateTypes
  <2> QED
    BY <2>2, <2>3, <2>4, <2>5 DEF O!TypeOK
<1>4. ASSUME NEW t \in Threads, O!Settle(t) PROVE O!TypeOK'
  <2>1. /\ last' \in O!Titles \cup {O!ERROR} /\ file' \in O!Titles \cup {O!ERROR, None}
        /\ pc' \in [Threads -> {"idle", "send", "sent", "failed"}]
        /\ title' \in [Threads -> O!Titles]
    BY <1>4 DEF O!Settle, O!TypeOK
  <2> QED
    BY <1>4, <2>1 DEF O!Settle, O!TypeOK, O!deviceVars, O!bounds
<1>5. ASSUME NEW t \in Threads, O!SetComponent(t) PROVE O!TypeOK'
  <2>1. /\ step' \in [Threads -> 1..(Components + Attempts)]
        /\ pc' \in [Threads -> {"idle", "send", "sent", "failed"}]
    BY <1>5, OnwardSets DEF O!SetComponent
  <2>2. loaded' \in [1..Components -> O!Titles]
    BY <1>5, GivenType DEF O!SetComponent
  <2> QED
    BY <1>5, <2>1, <2>2 DEF O!SetComponent, O!TypeOK, O!slotVars, O!bounds
<1>6. ASSUME NEW t \in Threads, O!Unanswered(t) PROVE O!TypeOK'
  <2>1. /\ step' \in [Threads -> 1..(Components + Attempts)]
        /\ pc' \in [Threads -> {"idle", "send", "sent", "failed"}]
    BY <1>6, OnwardSets DEF O!Unanswered
  <2>2. /\ loaded' \in [1..Components -> O!Titles] /\ doubt' \in BOOLEAN
        /\ {calls', faults'} \subseteq Nat
    BY <1>6, GivenType DEF O!Unanswered, O!Fault, O!TypeOK
  <2> QED
    BY <1>6, <2>1, <2>2 DEF O!Unanswered, O!TypeOK, O!slotVars
<1>7. ASSUME NEW t \in Threads, O!Disconnected(t) PROVE O!TypeOK'
  <2>1. pc' \in [Threads -> {"idle", "send", "sent", "failed"}]
    BY <1>7, GotoSets DEF O!Disconnected
  <2>2. loaded' \in [1..Components -> O!Titles] /\ {calls', faults'} \subseteq Nat
    BY <1>7, GivenType DEF O!Disconnected, O!Fault, O!TypeOK
  <2> QED
    BY <1>7, <2>1, <2>2 DEF O!Disconnected, O!TypeOK, O!slotVars
<1>8. ASSUME NEW t \in Threads, O!Imported(t) PROVE O!TypeOK'
  <2>1. pc' \in [Threads -> {"idle", "send", "sent", "failed"}]
    BY <1>8, GotoSets DEF O!Imported
  <2>2. loaded' \in [1..Components -> O!Titles] /\ at' \in Nat
    BY <1>8, GivenType DEF O!Imported
  <2> QED
    BY <1>8, <2>1, <2>2 DEF O!Imported, O!TypeOK, O!slotVars, O!bounds
<1>9. ASSUME NEW t \in Threads, O!Rejected(t) \/ O!Refused(t) PROVE O!TypeOK'
  <2>1. pc' \in [Threads -> {"idle", "send", "sent", "failed"}]
    BY <1>9, GotoSets DEF O!Rejected, O!Refused
  <2>2. {calls', faults'} \subseteq Nat
    BY <1>9 DEF O!Rejected, O!Refused, O!Fault, O!TypeOK
  <2> QED
    BY <1>9, <2>1, <2>2 DEF O!Rejected, O!Refused, O!TypeOK, O!slotVars, O!deviceVars
<1>10. ASSUME NEW t \in Threads, O!ImportTimeout(t) PROVE O!TypeOK'
  <2>1. pc' \in [Threads -> {"idle", "send", "sent", "failed"}]
    BY <1>10, GotoSets DEF O!ImportTimeout
  <2>2. wire' \subseteq O!Message /\ {calls', faults'} \subseteq Nat
    BY <1>10, GivenType DEF O!ImportTimeout, O!GivenUp, O!Fault, O!TypeOK
  <2> QED
    BY <1>10, <2>1, <2>2 DEF O!ImportTimeout, O!TypeOK, O!slotVars
<1>11. ASSUME NEW t \in Threads, O!Pushed(t) PROVE O!TypeOK'
  <2>1. pc' \in [Threads -> {"idle", "send", "sent", "failed"}]
    BY <1>11, GotoSets DEF O!Pushed
  <2>2. ext' \in O!Titles /\ at' \in Nat
    BY <1>11, GivenType DEF O!Pushed, O!Extend
  <2> QED
    BY <1>11, <2>1, <2>2 DEF O!Pushed, O!TypeOK, O!slotVars, O!bounds
<1>12. ASSUME NEW t \in Threads, O!Retry(t) PROVE O!TypeOK'
  <2>1. /\ step' \in [Threads -> 1..(Components + Attempts)]
        /\ pc' \in [Threads -> {"idle", "send", "sent", "failed"}]
    BY <1>12, OnwardSets DEF O!Retry
  <2>2. /\ ext' \in O!Titles /\ at' \in Nat /\ wire' \subseteq O!Message
        /\ {calls', faults'} \subseteq Nat
    BY <1>12, GivenType DEF O!Retry, O!Extend, O!GivenUp, O!Fault, O!TypeOK
  <2> QED
    BY <1>12, <2>1, <2>2 DEF O!Retry, O!TypeOK, O!slotVars
<1>13. CASE O!Poll
  <2>1. loaded' \in [1..Components -> O!Titles] /\ seen' \in Nat
    BY <1>13 DEF O!Poll, O!Everywhere, O!TypeOK
  <2> QED
    BY <1>13, <2>1 DEF O!Poll, O!TypeOK, O!slotVars, O!callVars, O!bounds
<1>14. CASE O!ScriptRestart
  <2>1. {calls', faults'} \subseteq Nat
    BY <1>14 DEF O!ScriptRestart, O!Fault, O!TypeOK
  <2> QED
    BY <1>14, <2>1 DEF O!ScriptRestart, O!TypeOK, O!slotVars, O!callVars
<1>15. CASE O!Late
  <2>1. PICK m \in wire :
          /\ wire' = wire \ {m} /\ at' = m.version
          /\ IF kind = "reaper" THEN ext' = m.title /\ UNCHANGED loaded
             ELSE loaded' = O!Everywhere(m.title) /\ UNCHANGED ext
          /\ doubt' = (doubt \/ m.version < at)
    BY <1>15 DEF O!Late
  <2>2. m.title \in O!Titles /\ m.version \in Nat
    BY DEF O!TypeOK, O!Message
  <2>3. /\ loaded' \in [1..Components -> O!Titles] /\ ext' \in O!Titles /\ at' \in Nat
        /\ wire' \subseteq O!Message /\ doubt' \in BOOLEAN
    BY <2>1, <2>2 DEF O!TypeOK, O!Everywhere
  <2> QED
    BY <1>15, <2>3 DEF O!Late, O!TypeOK, O!slotVars, O!callVars, O!bounds
<1>16. CASE O!Restart
  <2>1. /\ pc' \in [Threads -> {"idle", "send", "sent", "failed"}]
        /\ title' \in [Threads -> O!Titles]
        /\ {calls', faults'} \subseteq Nat
    BY <1>16 DEF O!Restart, O!Fault, O!TypeOK
  <2>2. doubt' \in BOOLEAN
    BY <1>16 DEF O!Restart, O!TypeOK
  <2> QED
    BY <1>16, <2>1, <2>2 DEF O!Restart, O!TypeOK, O!deviceVars
<1>17. QED
  BY <1>1, <1>2, <1>3, <1>4, <1>5, <1>6, <1>7, <1>8, <1>9, <1>10, <1>11, <1>12, <1>13, <1>14,
     <1>15, <1>16 DEF O!Next, O!Call

-----------------------------------------------------------------------------
(* The parts of the invariant.                                             *)

\* A call that sends something to the device.
Sends(t) ==
  \/ O!SetComponent(t) \/ O!Unanswered(t) \/ O!Disconnected(t)
  \/ O!Imported(t) \/ O!Rejected(t) \/ O!ImportTimeout(t)
  \/ O!Pushed(t) \/ O!Retry(t) \/ O!Refused(t)

LEMMA SendsSets ==
  ASSUME O!TypeOK, NEW t \in Threads, Sends(t)
  PROVE  /\ UNCHANGED <<kind, hydrated, last, file, title, version, calls, seen>>
         /\ pc[t] = "send" /\ pc'[t] \in {"send", "sent", "failed"}
         /\ \A u \in Threads : u # t => pc'[u] = pc[u] /\ step'[u] = step[u]
         /\ ~doubt' => ~doubt
<1> USE OneSlotConstants
<1>1. CASE O!SetComponent(t)
  BY <1>1, OnwardSets DEF O!SetComponent, O!Sending, O!slotVars, O!bounds
<1>2. CASE O!Unanswered(t)
  BY <1>2, OnwardSets DEF O!Unanswered, O!Sending, O!slotVars, O!TypeOK
<1>3. CASE O!Disconnected(t)
  BY <1>3, GotoSets DEF O!Disconnected, O!Sending, O!slotVars
<1>4. CASE O!Imported(t)
  BY <1>4, GotoSets DEF O!Imported, O!Sending, O!slotVars, O!bounds
<1>5. CASE O!Rejected(t) \/ O!Refused(t)
  BY <1>5, GotoSets DEF O!Rejected, O!Refused, O!Sending, O!slotVars, O!deviceVars
<1>6. CASE O!ImportTimeout(t)
  BY <1>6, GotoSets DEF O!ImportTimeout, O!Sending, O!slotVars
<1>7. CASE O!Pushed(t)
  BY <1>7, GotoSets DEF O!Pushed, O!Sending, O!slotVars, O!bounds
<1>8. CASE O!Retry(t)
  BY <1>8, OnwardSets DEF O!Retry, O!Sending, O!slotVars
<1> QED
  BY <1>1, <1>2, <1>3, <1>4, <1>5, <1>6, <1>7, <1>8 DEF Sends

LEMMA SettleSets ==
  ASSUME O!TypeOK, NEW t \in Threads, O!Settle(t)
  PROVE  /\ UNCHANGED <<kind, loaded, ext, at, seen, wire, hydrated, version, step, doubt, calls>>
         /\ pc[t] \in {"sent", "failed"} /\ pc'[t] = "idle"
         /\ last' = (IF pc[t] = "sent" THEN title[t] ELSE O!ERROR) /\ file' = last'
         /\ \A u \in Threads : u # t => pc'[u] = pc[u] /\ title'[u] = title[u]
BY DEF O!TypeOK, O!Settle, O!deviceVars, O!bounds

LEMMA OneSlotFollowsStep ==
  ASSUME O!TypeOK, OneSlotFollows, O!Next
  PROVE  OneSlotFollows'
<1> USE OneSlotConstants
<1>1. CASE O!Hydrate /\ UNCHANGED <<kind, file>>
  BY <1>1 DEF O!Hydrate, OneSlotFollows, O!Remembered
<1>2. CASE /\ UNCHANGED <<kind, hydrated, last, file>>
           /\ \A t \in Threads : pc'[t] # "idle" => pc[t] # "idle"
  BY <1>2 DEF OneSlotFollows, O!Remembered
<1>3. CASE O!State
  BY <1>1, <1>3 DEF O!State
<1>4. CASE O!Activate
  <2>1. /\ hydrated' = TRUE /\ file' = last' /\ kind' = kind
        /\ last' = IF hydrated THEN last ELSE O!Remembered
    BY <1>4 DEF O!Activate, O!Hydrate
  <2>2. last' \in O!Titles \cup {O!ERROR}
    BY <1>4, OneSlotHydrateTypes DEF O!Activate
  <2>3. file' # None
    BY <2>1, <2>2
  <2> QED
    BY <2>1, <2>3 DEF OneSlotFollows, O!Remembered
<1>5. ASSUME NEW t \in Threads, O!Begin(t) PROVE OneSlotFollows'
  BY <1>1, <1>5, OneSlotBeginSets
<1>6. ASSUME NEW t \in Threads, O!Settle(t) PROVE OneSlotFollows'
  <2>1. hydrated /\ hydrated' = hydrated /\ file' = last' /\ kind' = kind
    BY <1>6, SettleSets DEF OneSlotFollows
  <2>2. last' \in O!Titles \cup {O!ERROR}
    BY <1>6, SettleSets DEF O!TypeOK
  <2>3. file' # None
    BY <2>1, <2>2
  <2> QED
    BY <2>1, <2>3 DEF OneSlotFollows, O!Remembered
<1>7. ASSUME NEW t \in Threads, Sends(t) PROVE OneSlotFollows'
  BY <1>2, <1>7, SendsSets
<1>8. CASE O!Poll \/ O!ScriptRestart \/ O!Late
  BY <1>2, <1>8 DEF O!Poll, O!ScriptRestart, O!Late, O!slotVars, O!callVars
<1>9. CASE O!Restart
  BY <1>9 DEF O!Restart, OneSlotFollows, O!deviceVars
<1> QED
  BY <1>3, <1>4, <1>5, <1>6, <1>7, <1>8, <1>9 DEF O!Next, O!Call, Sends

\* Only a call that begins claims a version, and it is a new one.
LEMMA ClaimsKept ==
  ASSUME O!TypeOK, O!Next
  PROVE  \/ Claims' \subseteq Claims /\ calls' = calls
         \/ \E t \in Threads, x \in O!Titles :
              /\ O!Begin(t) /\ title'[t] = x
              /\ Claims' \subseteq Claims \cup {[title |-> x, version |-> calls + 1]}
<1>1. ASSUME wire' \subseteq Claims,
             \A t \in Threads : pc'[t] # "idle" => /\ pc[t] # "idle" /\ title'[t] = title[t]
                                                   /\ version'[t] = version[t]
      PROVE  Claims' \subseteq Claims
  BY <1>1 DEF Claims, Busy, CallOf
<1>2. CASE O!State \/ O!Activate \/ O!Poll \/ O!ScriptRestart
  BY <1>1, <1>2 DEF O!State, O!Activate, O!Poll, O!ScriptRestart, O!deviceVars, O!callVars, O!bounds,
                    Claims
<1>3. ASSUME NEW t \in Threads, O!Begin(t)
      PROVE  \E x \in O!Titles :
               /\ O!Begin(t) /\ title'[t] = x
               /\ Claims' \subseteq Claims \cup {[title |-> x, version |-> calls + 1]}
  <2>1. PICK x \in O!Titles : title' = [title EXCEPT ![t] = x]
    BY <1>3, OneSlotBeginSets
  <2>2. PICK y : pc' = [pc EXCEPT ![t] = y]
    BY <1>3, OneSlotBeginSets
  <2>3. version' = [version EXCEPT ![t] = calls + 1] /\ wire' = wire
    BY <1>3, OneSlotBeginSets
  <2>4. /\ title'[t] = x /\ version'[t] = calls + 1
        /\ \A u \in Threads : u # t => /\ pc'[u] = pc[u] /\ title'[u] = title[u]
                                       /\ version'[u] = version[u]
    BY <2>1, <2>2, <2>3 DEF O!TypeOK
  <2>5. Claims' \subseteq Claims \cup {[title |-> x, version |-> calls + 1]}
    BY <2>3, <2>4 DEF Claims, Busy, CallOf
  <2> QED
    BY <1>3, <2>4, <2>5
<1>4. ASSUME NEW t \in Threads, O!Settle(t) PROVE Claims' \subseteq Claims /\ calls' = calls
  <2>1. \A u \in Threads : pc'[u] # "idle" => /\ pc[u] # "idle" /\ title'[u] = title[u]
                                              /\ version'[u] = version[u]
    BY <1>4, SettleSets
  <2> QED
    BY <1>1, <1>4, <2>1, SettleSets DEF Claims
<1>5. ASSUME NEW t \in Threads, Sends(t) PROVE Claims' \subseteq Claims /\ calls' = calls
  <2>1. CallOf(t) \in Claims
    BY <1>5, SendsSets DEF Claims, Busy
  <2>2. wire' \subseteq wire \cup {CallOf(t)}
    BY <1>5 DEF Sends, O!SetComponent, O!Unanswered, O!Disconnected, O!Imported, O!Rejected,
                O!ImportTimeout, O!Pushed, O!Retry, O!Refused, O!GivenUp, O!deviceVars, CallOf
  <2>3. \A u \in Threads : pc'[u] # "idle" => /\ pc[u] # "idle" /\ title'[u] = title[u]
                                              /\ version'[u] = version[u]
    BY <1>5, SendsSets
  <2>4. wire' \subseteq Claims
    BY <2>1, <2>2 DEF Claims
  <2> QED
    BY <1>1, <1>5, <2>3, <2>4, SendsSets
<1>6. CASE O!Late
  BY <1>1, <1>6 DEF O!Late, O!callVars, O!bounds, Claims
<1>7. CASE O!Restart
  BY <1>1, <1>7 DEF O!Restart, O!deviceVars, Claims
<1> QED
  BY <1>2, <1>3, <1>4, <1>5, <1>6, <1>7 DEF O!Next, O!Call, Sends

\* What the device is given is what a claim says.
LEMMA GivenStands ==
  ASSUME O!TypeOK, Versions, Claims' \subseteq Claims, calls' = calls, kind' = kind,
         kind = "qsys" => wire' = {},
         NEW m \in Claims, m.title \in O!Titles,
         \/ /\ kind = "reaper" /\ ext' = m.title /\ at' = m.version
            /\ UNCHANGED <<loaded, seen>>
         \/ /\ kind = "stormaudio" /\ loaded' = O!Everywhere(m.title) /\ at' = m.version
            /\ UNCHANGED <<ext, seen>>
  PROVE  Versions'
<1>1. m.version \in 1..calls /\ Stands(m.title, m.version) /\ calls \in Nat
  BY DEF Versions, O!TypeOK
<1>2. ASSUME NEW x, NEW v, Stands(x, v) PROVE \A n \in Claims' : n.version = v => n.title = x
  BY <1>2 DEF Stands
<1>3. \A n \in Claims' : /\ n.version \in 1..calls'
                         /\ \A k \in Claims' : k.version = n.version => k.title = n.title
  BY DEF Versions, Stands
<1>4. at' <= calls' /\ seen' <= calls' /\ at' # 0
  BY <1>1 DEF Versions
<1>5. ASSUME kind = "reaper", seen' # 0
      PROVE  \E x \in O!Titles : /\ loaded' = O!Everywhere(x)
                                 /\ \A n \in Claims' : n.version = seen' => n.title = x
                                 /\ at' = seen' => ext' = x
  <2>1. PICK x \in O!Titles : loaded = O!Everywhere(x) /\ Stands(x, seen)
    BY <1>5 DEF Versions
  <2>2. m.version = seen => m.title = x
    BY <2>1 DEF Stands
  <2> QED
    BY <1>2, <1>5, <2>1, <2>2
<1>6. \A n \in Claims' : n.version = at' => n.title = m.title
  BY <1>1, <1>2
<1>7. CASE kind = "reaper"
  BY <1>3, <1>4, <1>5, <1>6, <1>7 DEF Versions, Stands
<1>8. CASE kind = "stormaudio"
  BY <1>3, <1>4, <1>6, <1>8 DEF Versions, Stands, O!Everywhere
<1> QED
  BY <1>7, <1>8

LEMMA VersionsStep ==
  ASSUME O!TypeOK, Versions, O!Next
  PROVE  Versions'
<1> USE OneSlotConstants
<1>0. calls \in Nat /\ at \in Nat /\ seen \in Nat
  BY DEF O!TypeOK
<1>1. ASSUME NEW x, NEW v, Stands(x, v), Claims' \subseteq Claims
      PROVE  \A n \in Claims' : n.version = v => n.title = x
  BY <1>1 DEF Stands
<1>2. ASSUME Claims' \subseteq Claims, UNCHANGED <<kind, loaded, ext, at, seen, calls>>,
             kind = "qsys" => wire' = {}
      PROVE  Versions'
  <2>1. \A n \in Claims' : /\ n.version \in 1..calls'
                           /\ \A k \in Claims' : k.version = n.version => k.title = n.title
    BY <1>2 DEF Versions, Stands
  <2>2. kind = "reaper" => /\ \A n \in Claims' : n.version = at => n.title = ext
                           /\ at = 0 => seen = 0
                           /\ seen # 0 =>
                                \E x \in O!Titles :
                                   /\ loaded = O!Everywhere(x)
                                   /\ \A n \in Claims' : n.version = seen => n.title = x
                                   /\ at = seen => ext = x
    BY <1>1, <1>2 DEF Versions
  <2>3. kind = "stormaudio" /\ at # 0 =>
          \E x \in O!Titles : /\ loaded = O!Everywhere(x)
                              /\ \A n \in Claims' : n.version = at => n.title = x
    BY <1>1, <1>2 DEF Versions
  <2> QED
    BY <1>2, <2>1, <2>2, <2>3 DEF Versions, Stands, O!Everywhere
<1>3. CASE O!State \/ O!Activate \/ O!Restart \/ \E t \in Threads : O!Settle(t)
  <2>1. UNCHANGED <<kind, loaded, ext, at, seen, wire, calls>>
    BY <1>3 DEF O!State, O!Activate, O!Restart, O!Settle, O!deviceVars, O!bounds
  <2>2. ~\E t \in Threads : O!Begin(t)
    BY <1>0, <2>1, OneSlotBeginSets
  <2>3. kind = "qsys" => wire' = {}
    BY <2>1 DEF Versions
  <2> QED
    BY <1>2, <2>1, <2>2, <2>3, ClaimsKept
<1>4. ASSUME NEW t \in Threads, O!Begin(t) PROVE Versions'
  <2>1. /\ UNCHANGED <<kind, loaded, ext, at, seen, wire>> /\ calls' = calls + 1
    BY <1>4, OneSlotBeginSets
  <2>2. PICK x \in O!Titles : Claims' \subseteq Claims \cup {[title |-> x, version |-> calls + 1]}
    BY <2>1, ClaimsKept, <1>0
  <2>3. ASSUME NEW y, NEW v \in Nat, v <= calls, Stands(y, v)
        PROVE  \A n \in Claims' : n.version = v => n.title = y
    BY <1>0, <2>2, <2>3 DEF Stands
  <2>4. \A n \in Claims' : n.version \in 1..calls'
    BY <1>0, <2>1, <2>2 DEF Versions
  <2>a. \A n \in Claims : n.version # calls + 1
    BY <1>0 DEF Versions
  <2>5. ASSUME NEW n \in Claims', NEW k \in Claims', k.version = n.version
        PROVE  k.title = n.title
    <3>1. CASE n \in Claims /\ k \in Claims
      BY <2>5, <3>1 DEF Versions, Stands
    <3>2. CASE n \notin Claims
      <4>1. n.version = calls + 1 /\ n.title = x
        BY <2>2, <3>2
      <4>2. k \notin Claims
        BY <2>a, <2>5, <4>1
      <4> QED
        BY <2>2, <4>1, <4>2
    <3>3. CASE k \notin Claims
      <4>1. k.version = calls + 1 /\ k.title = x
        BY <2>2, <3>3
      <4>2. n \notin Claims
        BY <2>a, <2>5, <4>1
      <4> QED
        BY <2>2, <4>1, <4>2
    <3> QED
      BY <3>1, <3>2, <3>3
  <2>6. at <= calls /\ seen <= calls
    BY DEF Versions
  <2>7. kind = "reaper" => /\ \A n \in Claims' : n.version = at => n.title = ext
                           /\ at = 0 => seen = 0
                           /\ seen # 0 =>
                                \E y \in O!Titles :
                                   /\ loaded = O!Everywhere(y)
                                   /\ \A n \in Claims' : n.version = seen => n.title = y
                                   /\ at = seen => ext = y
    BY <1>0, <2>3, <2>6 DEF Versions
  <2>8. kind = "stormaudio" /\ at # 0 =>
          \E y \in O!Titles : /\ loaded = O!Everywhere(y)
                              /\ \A n \in Claims' : n.version = at => n.title = y
    BY <1>0, <2>3, <2>6 DEF Versions
  <2>9. at' <= calls' /\ seen' <= calls' /\ (kind' = "qsys" => wire' = {})
    BY <1>0, <2>1, <2>6 DEF Versions
  <2> QED
    BY <2>1, <2>4, <2>5, <2>7, <2>8, <2>9 DEF Versions, Stands, O!Everywhere
<1>5. ASSUME NEW t \in Threads, Sends(t) PROVE Versions'
  <2>1. /\ Claims' \subseteq Claims /\ calls' = calls /\ kind' = kind /\ seen' = seen
        /\ CallOf(t) \in Claims
    <3>1. pc[t] # "idle" /\ calls' = calls /\ kind' = kind /\ seen' = seen
      BY <1>5, SendsSets
    <3>2. ~\E u \in Threads : O!Begin(u)
      BY <1>0, <3>1, OneSlotBeginSets
    <3> QED
      BY <3>1, <3>2, ClaimsKept DEF Claims, Busy
  <2>2. CallOf(t).title = title[t] /\ CallOf(t).version = version[t] /\ title[t] \in O!Titles
    BY GivenType
  <2>3. CASE O!SetComponent(t) \/ O!Unanswered(t) \/ O!Disconnected(t)
    <3>1. kind = "qsys" /\ UNCHANGED <<ext, at, wire>>
      BY <2>3 DEF O!SetComponent, O!Unanswered, O!Disconnected, O!Sending
    <3> QED
      BY <1>1, <2>1, <3>1 DEF Versions, Stands
  <2>4. CASE O!Imported(t)
    BY <2>1, <2>2, <2>4, GivenStands DEF O!Imported, O!Sending
  <2>5. CASE O!Rejected(t) \/ O!Refused(t)
    BY <1>2, <2>1, <2>5 DEF O!Rejected, O!Refused, O!deviceVars, Versions
  <2>6. CASE O!ImportTimeout(t)
    BY <1>2, <2>1, <2>6 DEF O!ImportTimeout, O!Sending
  <2>7. CASE O!Pushed(t)
    BY <2>1, <2>2, <2>7, GivenStands DEF O!Pushed, O!Sending, O!Extend
  <2>8. CASE O!Retry(t)
    <3>1. /\ kind = "reaper" /\ UNCHANGED <<loaded, seen>>
          /\ UNCHANGED <<ext, at>> \/ (ext' = title[t] /\ at' = version[t])
      BY <2>8 DEF O!Retry, O!Sending, O!Extend
    <3> QED
      BY <1>2, <2>1, <2>2, <3>1, GivenStands
  <2> QED
    BY <1>5, <2>3, <2>4, <2>5, <2>6, <2>7, <2>8 DEF Sends
<1>6. ASSUME O!Poll \/ O!ScriptRestart \/ O!Late
      PROVE  /\ Claims' \subseteq Claims /\ calls' = calls /\ kind' = kind
             /\ kind = "qsys" => wire' = {}
  <2>1. calls' = calls /\ kind' = kind /\ wire' \subseteq wire
    BY <1>6 DEF O!Poll, O!ScriptRestart, O!Late, O!bounds
  <2>2. ~\E u \in Threads : O!Begin(u)
    BY <1>0, <2>1, OneSlotBeginSets
  <2> QED
    BY <2>1, <2>2, ClaimsKept DEF Versions
<1>7. CASE O!Poll
  <2>1. /\ kind = "reaper" /\ at # seen /\ seen' = at /\ loaded' = O!Everywhere(ext)
        /\ UNCHANGED <<ext, at>>
    BY <1>7 DEF O!Poll
  <2>2. Stands(ext, at) /\ at # 0 /\ ext \in O!Titles
    BY <2>1 DEF Versions, O!TypeOK
  <2>3. \A n \in Claims' : /\ n.version \in 1..calls'
                           /\ \A k \in Claims' : k.version = n.version => k.title = n.title
    BY <1>6, <1>7 DEF Versions, Stands
  <2>4. \A n \in Claims' : n.version = at => n.title = ext
    BY <1>1, <1>6, <1>7, <2>2
  <2> QED
    BY <1>6, <1>7, <2>1, <2>2, <2>3, <2>4 DEF Versions, Stands, O!Everywhere
<1>8. CASE O!ScriptRestart
  <2>1. /\ kind = "reaper" /\ seen' = 0 /\ UNCHANGED <<loaded, ext, at>>
    BY <1>8 DEF O!ScriptRestart
  <2>2. \A n \in Claims' : /\ n.version \in 1..calls'
                           /\ \A k \in Claims' : k.version = n.version => k.title = n.title
    BY <1>6, <1>8 DEF Versions, Stands
  <2>3. \A n \in Claims' : n.version = at => n.title = ext
    BY <1>1, <1>6, <1>8, <2>1 DEF Versions
  <2> QED
    BY <1>0, <1>6, <1>8, <2>1, <2>2, <2>3 DEF Versions, Stands
<1>9. CASE O!Late
  <2>1. PICK m \in wire :
          /\ at' = m.version
          /\ IF kind = "reaper" THEN ext' = m.title /\ UNCHANGED loaded
             ELSE loaded' = O!Everywhere(m.title) /\ UNCHANGED ext
    BY <1>9 DEF O!Late
  <2>2. m \in Claims /\ m.title \in O!Titles /\ seen' = seen
    BY <1>9 DEF Claims, O!TypeOK, O!Message, O!Late
  <2>3. kind \in {"reaper", "stormaudio"}
    BY DEF Versions, O!TypeOK, O!Kinds
  <2> QED
    BY <1>6, <1>9, <2>1, <2>2, <2>3, GivenStands
<1> QED
  BY <1>3, <1>4, <1>5, <1>7, <1>8, <1>9 DEF O!Next, O!Call, Sends

\* What the device is given does not matter here.
LEMMA HoldsKept ==
  ASSUME NEW x, Holds(x), UNCHANGED <<kind, ext, at>>, kind # "reaper" => loaded' = loaded,
         kind = "reaper" => at # 0 \/ loaded' = loaded, wire' \subseteq wire
  PROVE  Holds(x)'
BY DEF Holds, O!Everywhere

\* No call is in a step.
LEMMA ExactElsewhere ==
  ASSUME OneSlotExact, ~doubt' => ~doubt,
         UNCHANGED <<kind, pc, title, version, step, calls>>, kind = "qsys" => loaded' = loaded,
         OneSlotShown' = OneSlotShown,
         \A x : ~doubt' /\ Holds(x) => Holds(x)'
  PROVE  OneSlotExact'
<1> SUFFICES ASSUME ~doubt' PROVE OneSlotExact'
  BY DEF OneSlotExact
<1>1. Busy' = Busy
  BY DEF Busy
<1>2. \A t \in Threads :
         /\ pc'[t] = "sent" => Holds(title[t])'
         /\ kind = "qsys" /\ pc'[t] = "send" =>
              \A c \in 1..Components : c < step'[t] => loaded'[c] = title'[t]
  BY DEF OneSlotExact
<1>3. Busy = {} /\ OneSlotShown # O!ERROR => Holds(OneSlotShown)'
  BY DEF OneSlotExact
<1> QED
  BY <1>1, <1>2, <1>3 DEF OneSlotExact

\* A call is, by itself.
LEMMA ExactAlone ==
  ASSUME O!TypeOK', NEW t \in Threads, pc'[t] # "idle",
         ~doubt' => \A u \in Threads : u # t => pc'[u] = "idle",
         ~doubt' => version'[t] = calls',
         ~doubt' /\ pc'[t] = "sent" => Holds(title[t])',
         ~doubt' /\ kind' = "qsys" /\ pc'[t] = "send" =>
           \A c \in 1..Components : c < step'[t] => loaded'[c] = title'[t]
  PROVE  OneSlotExact'
<1> SUFFICES ASSUME ~doubt' PROVE OneSlotExact'
  BY DEF OneSlotExact
<1>1. Busy' = {t}
  BY DEF Busy
<1>2. \A u \in Threads :
         /\ pc'[u] = "sent" => Holds(title[u])'
         /\ kind' = "qsys" /\ pc'[u] = "send" =>
              \A c \in 1..Components : c < step'[u] => loaded'[c] = title'[u]
  <2> SUFFICES ASSUME NEW u \in Threads, u # t
               PROVE  /\ pc'[u] = "sent" => Holds(title[u])'
                      /\ kind' = "qsys" /\ pc'[u] = "send" =>
                           \A c \in 1..Components : c < step'[u] => loaded'[c] = title'[u]
    OBVIOUS
  <2> QED
    OBVIOUS
<1> QED
  BY <1>1, <1>2 DEF OneSlotExact

LEMMA OneSlotExactStep ==
  ASSUME OneSlotInv, O!TypeOK', Versions', O!Next
  PROVE  OneSlotExact'
<1> USE OneSlotConstants
<1>0. /\ O!TypeOK /\ OneSlotFollows /\ Versions /\ OneSlotExact
      /\ calls \in Nat /\ at \in Nat /\ seen \in Nat
  BY DEF OneSlotInv, O!TypeOK
<1>1. CASE O!State \/ O!Activate
  <2>1. /\ UNCHANGED <<kind, loaded, ext, at, wire, pc, title, version, step, doubt, calls>>
        /\ last' = (IF hydrated THEN last ELSE O!Remembered)
        /\ file' \in {file, last'}
    BY <1>1 DEF O!State, O!Activate, O!Hydrate, O!deviceVars, O!callVars, O!bounds
  <2>2. OneSlotShown' = OneSlotShown
    <3>1. CASE kind = "qsys"
      BY <1>0, <2>1, <3>1 DEF OneSlotShown, OneSlotFollows, O!Remembered
    <3>2. CASE kind # "qsys"
      BY <1>0, <2>1, <3>2 DEF OneSlotShown, OneSlotFollows, O!Remembered, O!TypeOK
    <3> QED
      BY <3>1, <3>2
  <2>3. \A x : Holds(x) => Holds(x)'
    BY <2>1, HoldsKept
  <2> QED
    BY <1>0, <2>1, <2>2, <2>3, ExactElsewhere
<1>2. ASSUME NEW t \in Threads, O!Begin(t) PROVE OneSlotExact'
  <2>1. PICK x \in O!Titles :
          /\ title' = [title EXCEPT ![t] = x]
          /\ pc' = [pc EXCEPT ![t] =
                      IF kind = "stormaudio" /\ x = O!Empty THEN "sent" ELSE "send"]
    BY <1>0, <1>2, OneSlotBeginSets
  <2>2. /\ calls' = calls + 1 /\ version' = [version EXCEPT ![t] = calls + 1]
        /\ step' = [step EXCEPT ![t] = 1] /\ kind' = kind
        /\ ~doubt' => \A u \in Threads : u # t => pc[u] = "idle"
    BY <1>0, <1>2, OneSlotBeginSets
  <2>3. /\ title'[t] = x /\ version'[t] = calls' /\ step'[t] = 1
        /\ pc'[t] = (IF kind = "stormaudio" /\ x = O!Empty THEN "sent" ELSE "send")
        /\ \A u \in Threads : u # t => pc'[u] = pc[u]
    BY <1>0, <2>1, <2>2 DEF O!TypeOK
  <2>4. pc'[t] = "sent" => Holds(title[t])'
    BY <2>2, <2>3 DEF Holds
  <2> QED
    BY <2>2, <2>3, <2>4, ExactAlone
<1>3. ASSUME NEW t \in Threads, O!Settle(t) PROVE OneSlotExact'
  <2>1. /\ UNCHANGED <<kind, loaded, ext, at, seen, wire, hydrated, version, step, doubt, calls>>
        /\ pc[t] \in {"sent", "failed"} /\ pc'[t] = "idle"
        /\ last' = (IF pc[t] = "sent" THEN title[t] ELSE O!ERROR) /\ file' = last'
        /\ \A u \in Threads : u # t => pc'[u] = pc[u]
    BY <1>0, <1>3, SettleSets
  <2> SUFFICES ASSUME ~doubt PROVE OneSlotExact'
    BY <2>1 DEF OneSlotExact
  <2>2. \A u \in Threads : pc'[u] = "idle"
    BY <1>0, <2>1 DEF OneSlotExact, Busy
  <2>3. OneSlotShown' = last'
    BY <2>1 DEF OneSlotShown, O!Remembered, O!TypeOK
  <2>4. last' # O!ERROR => Holds(last)'
    <3> SUFFICES ASSUME last' # O!ERROR PROVE Holds(last)'
      OBVIOUS
    <3>1. last' = title[t] /\ Holds(title[t])
      BY <1>0, <2>1 DEF OneSlotExact
    <3>2. Holds(title[t]) => Holds(last)'
      BY <2>1, <3>1 DEF Holds, O!Everywhere
    <3> QED
      BY <3>1, <3>2
  <2> QED
    BY <2>2, <2>3, <2>4 DEF OneSlotExact, Busy
<1>4. ASSUME NEW t \in Threads, Sends(t) PROVE OneSlotExact'
  <2>1. /\ UNCHANGED <<kind, title, version, calls>>
        /\ pc[t] = "send" /\ pc'[t] \in {"send", "sent", "failed"}
        /\ \A u \in Threads : u # t => pc'[u] = pc[u]
        /\ ~doubt' => ~doubt
    BY <1>0, <1>4, SendsSets
  <2> SUFFICES ASSUME ~doubt' PROVE OneSlotExact'
    BY DEF OneSlotExact
  <2>2. /\ \A u \in Threads : u # t => pc'[u] = "idle"
        /\ version[t] = calls /\ CallOf(t) \in Claims
        /\ kind = "qsys" => \A c \in 1..Components : c < step[t] => loaded[c] = title[t]
    BY <1>0, <2>1 DEF OneSlotExact, Busy, Claims
  <2>3. version[t] \in 1..calls
    BY <1>0, <2>2 DEF Versions, CallOf
  <2>4. ASSUME pc'[t] = "sent" => Holds(title[t])',
               kind = "qsys" /\ pc'[t] = "send" =>
                 \A c \in 1..Components : c < step'[t] => loaded'[c] = title[t]
        PROVE  OneSlotExact'
    BY <2>1, <2>2, <2>4, ExactAlone
  <2>5. CASE O!SetComponent(t) \/ O!Unanswered(t)
    <3>1. /\ kind = "qsys" /\ loaded' = O!Given(t) /\ O!Onward(t, Components, "sent")
      BY <2>5 DEF O!SetComponent, O!Unanswered, O!Sending
    <3>2. /\ pc'[t] = (IF step[t] < Components THEN "send" ELSE "sent")
          /\ step'[t] = IF step[t] < Components THEN step[t] + 1 ELSE step[t]
      BY <1>0, <3>1, OnwardSets
    <3>3. step[t] \in Nat
      BY <1>0 DEF O!TypeOK
    <3>4. \A c \in 1..Components : c < step[t] \/ c = step[t] => loaded'[c] = title[t]
      BY <1>0, <2>2, <3>1 DEF O!Given, O!TypeOK
    <3>5. pc'[t] = "sent" => loaded' = O!Everywhere(title[t])
      <4> SUFFICES ASSUME pc'[t] = "sent" PROVE loaded' = O!Everywhere(title[t])
        OBVIOUS
      <4>1. \A c \in 1..Components : loaded'[c] = title[t]
        BY <3>2, <3>3, <3>4
      <4>2. loaded' \in [1..Components -> O!Titles]
        BY DEF O!TypeOK
      <4> QED
        BY <4>1, <4>2 DEF O!Everywhere
    <3>6. pc'[t] = "sent" => Holds(title[t])'
      BY <2>1, <3>1, <3>5 DEF Holds, O!Everywhere
    <3>7. pc'[t] = "send" =>
            \A c \in 1..Components : c < step'[t] => loaded'[c] = title[t]
      BY <3>2, <3>3, <3>4
    <3> QED
      BY <2>4, <3>6, <3>7
  <2>6. CASE O!Imported(t)
    <3>1. /\ kind = "stormaudio" /\ loaded' = O!Everywhere(title[t]) /\ at' = version[t]
          /\ wire' = wire
      BY <2>6 DEF O!Imported, O!Sending
    <3>2. \A m \in wire : m.version <= calls
      BY <1>0 DEF Versions, Claims
    <3>3. Holds(title[t])'
      BY <2>1, <2>2, <2>3, <3>1, <3>2, <1>0 DEF Holds, O!Everywhere
    <3> QED
      BY <2>4, <3>1, <3>3
  <2>7. CASE O!Pushed(t)
    <3>1. /\ kind = "reaper" /\ ext' = title[t] /\ at' = version[t] /\ wire' = wire
      BY <2>7 DEF O!Pushed, O!Extend, O!Sending
    <3>2. \A m \in wire : m.version <= calls
      BY <1>0 DEF Versions, Claims
    <3>3. Holds(title[t])'
      BY <2>1, <2>2, <2>3, <3>1, <3>2, <1>0 DEF Holds
    <3> QED
      BY <2>4, <3>1, <3>3
  <2>8. CASE O!Retry(t)
    <3>1. kind = "reaper" /\ pc'[t] # "sent"
      BY <1>0, <2>8, OnwardSets DEF O!Retry, O!Sending
    <3> QED
      BY <2>4, <3>1
  <2>9. CASE O!Disconnected(t) \/ O!Rejected(t) \/ O!ImportTimeout(t) \/ O!Refused(t)
    <3>1. pc'[t] = "failed"
      BY <1>0, <2>9, GotoSets
         DEF O!Disconnected, O!Rejected, O!ImportTimeout, O!Refused
    <3> QED
      BY <2>4, <3>1
  <2> QED
    BY <1>4, <2>5, <2>6, <2>7, <2>8, <2>9 DEF Sends
<1>5. CASE O!Poll \/ O!ScriptRestart
  <2>1. /\ UNCHANGED <<kind, ext, at, wire, last, file, pc, title, version, step, doubt, calls>>
        /\ kind = "reaper" /\ (loaded' = loaded \/ at # seen)
    BY <1>5 DEF O!Poll, O!ScriptRestart, O!slotVars, O!callVars, O!bounds
  <2>2. loaded' = loaded \/ at # 0
    BY <1>0, <2>1 DEF Versions
  <2>3. \A x : Holds(x) => Holds(x)'
    BY <2>1, <2>2, HoldsKept
  <2>4. OneSlotShown' = OneSlotShown
    BY <2>1 DEF OneSlotShown, O!Remembered
  <2> QED
    BY <1>0, <2>1, <2>3, <2>4, ExactElsewhere
<1>6. CASE O!Late
  <2>1. PICK m \in wire :
          /\ at' = m.version /\ wire' = wire \ {m}
          /\ IF kind = "reaper" THEN ext' = m.title /\ UNCHANGED loaded
             ELSE loaded' = O!Everywhere(m.title) /\ UNCHANGED ext
          /\ doubt' = (doubt \/ m.version < at)
    BY <1>6 DEF O!Late
  <2>2. UNCHANGED <<kind, last, file, pc, title, version, step, calls>>
    BY <1>6 DEF O!Late, O!slotVars, O!callVars, O!bounds
  <2>3. kind # "qsys" /\ m \in Claims /\ m.version \in 1..calls
    BY <1>0, <2>1 DEF Versions, Claims
  <2>4. \A x : ~doubt' /\ Holds(x) => Holds(x)'
    <3> SUFFICES ASSUME NEW x, ~doubt', Holds(x) PROVE Holds(x)'
      OBVIOUS
    <3>0. ~(m.version < at)
      BY <2>1
    <3>1. m.version >= at
      BY <1>0, <2>3, <3>0
    <3>2. CASE kind = "reaper"
      <4>1. m.version <= at /\ ext = x /\ Stands(ext, at)
        BY <1>0, <2>1, <3>2 DEF Holds, Versions
      <4>2. m.version = at
        BY <1>0, <2>3, <3>1, <4>1
      <4>3. m.title = x
        BY <2>3, <4>1, <4>2 DEF Stands
      <4>4. \A n \in wire : n.version <= at
        BY <3>2 DEF Holds
      <4> QED
        BY <2>1, <2>2, <2>3, <3>2, <4>2, <4>3, <4>4 DEF Holds
    <3>3. CASE kind # "reaper"
      <4>1. kind = "stormaudio"
        BY <1>0, <2>3, <3>3 DEF O!TypeOK, O!Kinds
      <4> SUFFICES ASSUME x # O!Empty PROVE Holds(x)'
        BY <2>2, <4>1 DEF Holds
      <4>2. /\ loaded = O!Everywhere(x) /\ at # 0 /\ \A n \in wire : n.version <= at
        BY <4>1 DEF Holds
      <4>3. m.version = at
        BY <1>0, <2>1, <2>3, <3>1, <4>2
      <4>4. PICK y : loaded = O!Everywhere(y) /\ Stands(y, at)
        BY <1>0, <4>1, <4>2 DEF Versions
      <4>5. m.title = y
        BY <2>3, <4>3, <4>4 DEF Stands
      <4>6. loaded' = O!Everywhere(x)'
        BY <2>1, <3>3, <4>2, <4>4, <4>5 DEF O!Everywhere
      <4> QED
        BY <2>1, <2>2, <2>3, <4>1, <4>2, <4>3, <4>6 DEF Holds
    <3> QED
      BY <3>2, <3>3
  <2>5. OneSlotShown' = OneSlotShown
    BY <2>2 DEF OneSlotShown, O!Remembered
  <2> QED
    BY <1>0, <2>1, <2>2, <2>3, <2>4, <2>5, ExactElsewhere
<1>7. CASE O!Restart
  <2> SUFFICES ASSUME ~doubt' PROVE OneSlotExact'
    BY DEF OneSlotExact
  <2>1. /\ UNCHANGED <<kind, loaded, ext, at, wire, file>> /\ last' = O!Empty
        /\ ~doubt /\ \A t \in Threads : pc[t] = "idle" /\ pc'[t] = "idle"
        /\ ~(kind = "qsys" /\ file # None)
    BY <1>7 DEF O!Restart, O!deviceVars
  <2>2. OneSlotShown' = OneSlotShown
    BY <1>0, <2>1 DEF OneSlotShown, O!Remembered, OneSlotFollows
  <2>3. Busy = {} /\ Busy' = {}
    BY <2>1 DEF Busy
  <2>4. \A x : Holds(x) => Holds(x)'
    BY <2>1, HoldsKept
  <2>5. OneSlotShown' # O!ERROR => Holds(OneSlotShown)'
    BY <1>0, <2>1, <2>2, <2>3, <2>4 DEF OneSlotExact
  <2> QED
    BY <2>1, <2>3, <2>5 DEF OneSlotExact
<1> QED
  BY <1>1, <1>2, <1>3, <1>4, <1>5, <1>6, <1>7 DEF O!Next, O!Call, Sends

LEMMA OneSlotKept == OneSlotInv /\ O!Next => OneSlotInv'
<1> SUFFICES ASSUME OneSlotInv, O!Next PROVE OneSlotInv'
  OBVIOUS
<1>1. O!TypeOK'
  BY OneSlotTypes DEF OneSlotInv
<1>2. OneSlotFollows'
  BY OneSlotFollowsStep DEF OneSlotInv
<1>3. Versions'
  BY VersionsStep DEF OneSlotInv
<1>4. OneSlotExact'
  BY <1>1, <1>3, OneSlotExactStep
<1> QED
  BY <1>1, <1>2, <1>3, <1>4 DEF OneSlotInv

LEMMA OneSlotSame == OneSlotInv /\ UNCHANGED O!vars => OneSlotInv'
BY DEF OneSlotInv, O!vars, O!deviceVars, O!slotVars, O!callVars, O!bounds, O!TypeOK,
       OneSlotFollows, O!Remembered, Versions, Claims, Busy, CallOf, Stands, O!Everywhere,
       OneSlotExact, Holds, OneSlotShown

\* What the device has follows from what it was given last.
LEMMA OneSlotMeans == OneSlotInv => O!TitleMeansLoaded
<1> SUFFICES ASSUME OneSlotInv, O!Settled, ~doubt
             PROVE  \A c \in 1..Components : loaded[c] = last
  BY DEF O!TitleMeansLoaded
<1>1. kind \in {"qsys", "stormaudio", "reaper"}
  BY DEF OneSlotInv, O!TypeOK, O!Kinds
<1>2. OneSlotShown = last /\ last # O!ERROR /\ Busy = {}
  BY DEF OneSlotInv, OneSlotFollows, OneSlotShown, O!Settled, Busy
<1>3. Holds(last)
  BY <1>2 DEF OneSlotInv, OneSlotExact
<1>4. loaded = O!Everywhere(last)
  <2>1. CASE kind = "qsys"
    BY <1>3, <2>1 DEF Holds
  <2>2. CASE kind = "stormaudio"
    BY <1>3, <2>2 DEF Holds, O!Settled
  <2>3. CASE kind = "reaper"
    BY <1>3, <2>3 DEF Holds, O!Settled, OneSlotInv, Versions
  <2> QED
    BY <1>1, <2>1, <2>2, <2>3
<1> QED
  BY <1>4 DEF O!Everywhere

-----------------------------------------------------------------------------
(* The configuration of composites.                                        *)

\* The instance's Cardinality is that of the theorems about it.
LEMMA SameCardinality == \A S : C!Cardinality(S) = Cardinality(S)
BY DEF C!Cardinality, Cardinality

\* What a configuration is: a composite has a list of names.
Lists(Names) ==
  \A c \in Configurations : \A n \in DOMAIN c :
    c[n].type = "composite" => c[n].members \in Seq(Names)

\* What was asked of a composite, and what it asked of its members.
Asked ==
  \E n \in C!Composites, asked \in C!AllOps : \E slot \in C!SlotIds(C!TypeOf(C!Primary(n))) :
    \E id \in C!ShownAs(n, slot) :
      /\ request = [composite |-> n, op |-> asked, slot |-> slot, id |-> id]
      /\ done = {[member |-> m, slot |-> C!Translated(n, m, id)] :
                   m \in {p \in C!MembersOf(n) : asked \notin specs[n][p].skip_ops}}

\* What ezbeq runs with has passed the checks and was built by them, and nothing
\* of it changes afterwards.
Built ==
  /\ cfg \in Configurations
  /\ outcome = "running" =>
       /\ \A n \in C!Composites : ~C!Invalid(n)
       /\ ~C!NoRules
       /\ specs = [n \in C!Composites |-> C!Specs(n)]
       /\ hidden = C!Hidden
       /\ request # None => Asked
  /\ outcome = "starting" => request = None

LEMMA ConfigurationStart == C!Init => Built
BY DEF C!Init, Built, Written

\* What is derived from the configuration and what was built changes with them
\* only.
LEMMA DerivedKept ==
  ASSUME cfg' = cfg
  PROVE  /\ C!Composites' = C!Composites /\ C!NoRules' = C!NoRules /\ C!Hidden' = C!Hidden
         /\ \A n : /\ C!Specs(n)' = C!Specs(n) /\ C!Invalid(n)' = C!Invalid(n)
                   /\ C!Primary(n)' = C!Primary(n) /\ C!MembersOf(n)' = C!MembersOf(n)
                   /\ C!TypeOf(n)' = C!TypeOf(n)
         /\ specs' = specs =>
              \A n, x, y : C!ShownAs(n, x)' = C!ShownAs(n, x) /\ C!Translated(n, x, y)' = C!Translated(n, x, y)
<1>1. /\ C!Composites' = C!Composites
      /\ \A n : C!MembersOf(n)' = C!MembersOf(n) /\ C!TypeOf(n)' = C!TypeOf(n)
  BY DEF C!Composites, C!MembersOf, C!TypeOf
<1>2. /\ C!NoRules' = C!NoRules /\ C!Hidden' = C!Hidden
      /\ \A n : C!Primary(n)' = C!Primary(n)
  BY <1>1 DEF C!NoRules, C!Hidden, C!Primary
<1>3. \A n : C!PartialGain(n)' = C!PartialGain(n) /\ C!Shared(n)' = C!Shared(n)
  BY <1>1 DEF C!PartialGain, C!Shared, C!Effective
<1>4. \A n : C!Specs(n)' = C!Specs(n) /\ C!Invalid(n)' = C!Invalid(n)
  BY <1>1, <1>3 DEF C!Specs, C!Rules, C!Invalid
<1>5. ASSUME specs' = specs, NEW n, NEW x, NEW y
      PROVE  C!ShownAs(n, x)' = C!ShownAs(n, x) /\ C!Translated(n, x, y)' = C!Translated(n, x, y)
  <2>1. C!SlotMap(n)' = C!SlotMap(n)
    BY <1>2, <1>5 DEF C!SlotMap
  <2>2. C!ShownAs(n, x)' = C!ShownAs(n, x)
    BY <2>1 DEF C!ShownAs
  <2>3. C!SlotIds(C!TypeOf(x))' = C!SlotIds(C!TypeOf(x))
    BY <1>1 DEF C!SlotIds
  <2>4. C!Translated(n, x, y)' = C!Translated(n, x, y)
    BY <1>5, <2>3 DEF C!Translated
  <2>5. QED
    BY <2>2, <2>4
<1>6. QED
  BY <1>1, <1>2, <1>4, <1>5

LEMMA BuiltKept == Built /\ (C!Next \/ UNCHANGED C!vars) => Built'
<1> SUFFICES ASSUME Built, C!Next \/ UNCHANGED C!vars PROVE Built'
  OBVIOUS
<1>1. CASE C!Start
  <2>1. cfg' = cfg /\ request' = request /\ request = None
    BY <1>1 DEF C!Start, Built
  <2>2. CASE outcome' = "running"
    <3>1. /\ ~\E n \in C!Composites : C!Invalid(n)
          /\ ~C!NoRules
      BY <1>1, <2>2 DEF C!Start
    <3>2. specs' = [n \in C!Composites |-> C!Specs(n)] /\ hidden' = C!Hidden
      BY <1>1, <2>2 DEF C!Start
    <3>3. /\ C!Composites' = C!Composites /\ C!NoRules' = C!NoRules /\ C!Hidden' = C!Hidden
          /\ \A n : C!Specs(n)' = C!Specs(n) /\ C!Invalid(n)' = C!Invalid(n)
      BY <2>1, DerivedKept
    <3>4. QED
      BY <2>1, <2>2, <3>1, <3>2, <3>3 DEF Built
  <2>3. CASE outcome' # "running"
    BY <1>1, <2>1, <2>3 DEF C!Start, Built
  <2>4. QED
    BY <2>2, <2>3
<1>2. ASSUME outcome = "running", NEW n \in C!Composites,
             NEW asked \in C!BalanceOps \cup {"load_filter"},
             NEW slot \in C!SlotIds(C!TypeOf(C!Primary(n))), NEW id \in C!ShownAs(n, slot),
             C!Ask(n, asked, slot, id)
      PROVE  Built'
  <2>1. UNCHANGED <<cfg, outcome, specs, hidden>>
    BY <1>2 DEF C!Ask
  <2>2. asked \in C!AllOps
    BY DEF C!BalanceOps, C!AllOps
  <2>3. Asked'
    <3>1. /\ n \in C!Composites' /\ slot \in C!SlotIds(C!TypeOf(C!Primary(n)))'
          /\ id \in C!ShownAs(n, slot)'
      BY <1>2, <2>1, DerivedKept DEF C!SlotIds
    <3>2. /\ request' = [composite |-> n, op |-> asked, slot |-> slot, id |-> id]
          /\ done' = {[member |-> m, slot |-> C!Translated(n, m, id)'] :
                        m \in {p \in C!MembersOf(n)' : asked \notin specs'[n][p].skip_ops}}
      BY <1>2, <2>1, DerivedKept DEF C!Ask
    <3>3. QED
      BY <2>2, <3>1, <3>2 DEF Asked
  <2>4. QED
    BY <1>2, <2>1, <2>3, DerivedKept DEF Built
<1>3. CASE UNCHANGED C!vars
  <2>1. UNCHANGED <<cfg, outcome, specs, hidden, request, done>>
    BY <1>3 DEF C!vars
  <2>2. Asked => Asked'
    <3> SUFFICES ASSUME Asked PROVE Asked'
      OBVIOUS
    <3>1. PICK n \in C!Composites, asked \in C!AllOps :
            \E slot \in C!SlotIds(C!TypeOf(C!Primary(n))) : \E id \in C!ShownAs(n, slot) :
              /\ request = [composite |-> n, op |-> asked, slot |-> slot, id |-> id]
              /\ done = {[member |-> m, slot |-> C!Translated(n, m, id)] :
                           m \in {p \in C!MembersOf(n) : asked \notin specs[n][p].skip_ops}}
      BY DEF Asked
    <3>2. PICK slot \in C!SlotIds(C!TypeOf(C!Primary(n))) : \E id \in C!ShownAs(n, slot) :
            /\ request = [composite |-> n, op |-> asked, slot |-> slot, id |-> id]
            /\ done = {[member |-> m, slot |-> C!Translated(n, m, id)] :
                         m \in {p \in C!MembersOf(n) : asked \notin specs[n][p].skip_ops}}
      BY <3>1
    <3>3. PICK id \in C!ShownAs(n, slot) :
            /\ request = [composite |-> n, op |-> asked, slot |-> slot, id |-> id]
            /\ done = {[member |-> m, slot |-> C!Translated(n, m, id)] :
                         m \in {p \in C!MembersOf(n) : asked \notin specs[n][p].skip_ops}}
      BY <3>2
    <3>4. /\ n \in C!Composites' /\ slot \in C!SlotIds(C!TypeOf(C!Primary(n)))'
          /\ id \in C!ShownAs(n, slot)'
      BY <2>1, DerivedKept DEF C!SlotIds
    <3>5. /\ request' = [composite |-> n, op |-> asked, slot |-> slot, id |-> id]
          /\ done' = {[member |-> m, slot |-> C!Translated(n, m, id)'] :
                        m \in {p \in C!MembersOf(n)' : asked \notin specs'[n][p].skip_ops}}
      BY <2>1, <3>3, DerivedKept
    <3>6. QED
      BY <3>4, <3>5 DEF Asked
  <2>3. QED
    BY <2>1, <2>2, DerivedKept DEF Built
<1>4. QED
  BY <1>1, <1>2, <1>3 DEF C!Next

LEMMA ConfigurationTyped == C!Init => C!TypeOK
BY DEF C!Init, C!TypeOK, Written

\* The members that are hidden or asked are devices: the checks saw to it.
LEMMA TypedKept == Built /\ C!TypeOK /\ (C!Next \/ UNCHANGED C!vars) => C!TypeOK'
<1> SUFFICES ASSUME Built, C!TypeOK, C!Next \/ UNCHANGED C!vars PROVE C!TypeOK'
  OBVIOUS
<1>1. CASE C!Start
  <2>1. cfg' = cfg /\ request' = request /\ done' = done /\ request = None
    BY <1>1 DEF C!Start, Built
  <2>2. outcome' \in {"refused", "failed", "running"}
    BY <1>1, Zenon DEF C!Start
  <2>3. outcome' # "running" => specs' = None /\ hidden' = {}
    BY <1>1 DEF C!Start
  <2>4. ASSUME outcome' = "running"
        PROVE  DOMAIN specs' = C!Composites' /\ hidden' \subseteq DOMAIN cfg
    <3>1. \A n \in C!Composites : ~C!Invalid(n)
      BY <1>1, <2>4 DEF C!Start
    <3>2. C!Hidden \subseteq DOMAIN cfg
      BY <3>1 DEF C!Hidden, C!Invalid
    <3>3. C!Composites' = C!Composites
      BY <2>1, DerivedKept
    <3> QED
      BY <1>1, <2>4, <3>2, <3>3 DEF C!Start
  <2> QED
    BY <2>1, <2>2, <2>3, <2>4 DEF C!TypeOK
<1>2. ASSUME outcome = "running", NEW n \in C!Composites, NEW asked, NEW slot, NEW id,
             C!Ask(n, asked, slot, id)
      PROVE  C!TypeOK'
  <2>1. UNCHANGED <<cfg, outcome, specs, hidden>> /\ C!Composites' = C!Composites
    BY <1>2, DerivedKept DEF C!Ask
  <2>2. C!MembersOf(n) \subseteq DOMAIN cfg
    BY <1>2 DEF Built, C!Invalid
  <2>3. \A d \in done' : d.member \in DOMAIN cfg
    BY <1>2, <2>2 DEF C!Ask
  <2> QED
    BY <1>2, <2>1, <2>3 DEF C!TypeOK
<1>3. CASE UNCHANGED C!vars
  BY <1>3, DerivedKept DEF C!vars, C!TypeOK
<1> QED
  BY <1>1, <1>2, <1>3 DEF C!Next

-----------------------------------------------------------------------------
(* Sets of at most one element.                                            *)

\* What a list is made of, taken through any function, is a finite set.
LEMMA ImageOfList ==
  ASSUME NEW S, NEW s \in Seq(S), NEW f
  PROVE  IsFiniteSet({f[m] : m \in Range(s)})
<1> DEFINE T == {f[m] : m \in Range(s)}
           g == [i \in 1..Len(s) |-> f[s[i]]]
<1>1. DOMAIN s = 1..Len(s) /\ Len(s) \in Nat
  OBVIOUS
<1>2. g \in Surjection(1..Len(s), T)
  BY <1>1 DEF Surjection, Range
<1>3. IsFiniteSet(1..Len(s))
  BY <1>1, FS_Interval
<1>4. QED
  BY <1>2, <1>3, FS_Surjection

LEMMA AtMostOne ==
  ASSUME NEW S, IsFiniteSet(S), ~(Cardinality(S) > 1), NEW a \in S, NEW b \in S
  PROVE  a = b
<1>1. Cardinality(S) \in Nat
  BY FS_CardinalityType
<1>2. Cardinality(S) \in {0, 1}
  BY <1>1
<1>3. S # {}
  OBVIOUS
<1>4. Cardinality(S) = 1
  BY <1>2, <1>3, FS_EmptySet
<1>5. PICK x : S = {x}
  BY <1>4, FS_Singleton
<1>6. QED
  BY <1>5

\* A device has one slot or four, and one slot is the only one.
LEMMA OneSlot ==
  ASSUME NEW type, Cardinality(C!SlotIds(type)) = 1, NEW s \in C!SlotIds(type)
  PROVE  s = CHOOSE x \in C!SlotIds(type) : TRUE
<1>1. CASE C!SlotIds(type) = {"only"}
  BY <1>1
<1>2. CASE C!SlotIds(type) = {"1", "2", "3", "4"}
  <2>1. IsFiniteSet({"1", "2", "3", "4"})
    <3>1. IsFiniteSet({"1"} \cup {"2"})
      BY FS_Singleton, FS_AddElement
    <3>2. IsFiniteSet(({"1"} \cup {"2"}) \cup {"3"})
      BY <3>1, FS_AddElement
    <3>3. IsFiniteSet((({"1"} \cup {"2"}) \cup {"3"}) \cup {"4"})
      BY <3>2, FS_AddElement
    <3>4. (({"1"} \cup {"2"}) \cup {"3"}) \cup {"4"} = {"1", "2", "3", "4"}
      OBVIOUS
    <3>5. QED
      BY <3>3, <3>4
  <2>2. PICK x : {"1", "2", "3", "4"} = {x}
    BY <1>2, <2>1, FS_Singleton
  <2>3. QED
    BY <2>2
<1>3. QED
  BY <1>1, <1>2 DEF C!SlotIds

-----------------------------------------------------------------------------
(* The parts of Sound.                                                     *)

LEMMA BuiltBalanced ==
  ASSUME NEW Names, Lists(Names), Built, outcome = "running"
  PROVE  C!Balanced
<1> SUFFICES ASSUME request # None, request.op \in C!BalanceOps,
                    ~cfg[request.composite].allowPartialGain
             PROVE  {d.member : d \in done} \in {{}, C!MembersOf(request.composite)}
  BY DEF C!Balanced
<1>1. PICK n \in C!Composites, asked \in C!AllOps :
        \E id :
          /\ request.composite = n /\ request.op = asked
          /\ done = {[member |-> m, slot |-> C!Translated(n, m, id)] :
                       m \in {p \in C!MembersOf(n) : asked \notin specs[n][p].skip_ops}}
  BY DEF Built, Asked
<1>0. PICK id :
        done = {[member |-> m, slot |-> C!Translated(n, m, id)] :
                  m \in {p \in C!MembersOf(n) : asked \notin specs[n][p].skip_ops}}
  BY <1>1
<1> DEFINE members == C!MembersOf(n)
           willing == {p \in members : asked \notin specs[n][p].skip_ops}
<1>2. {d.member : d \in done} = willing
  <2>1. ASSUME NEW m \in willing PROVE m \in {d.member : d \in done}
    <3>1. [member |-> m, slot |-> C!Translated(n, m, id)] \in done
      BY <1>0
    <3>2. QED
      BY <3>1
  <2>2. ASSUME NEW d \in done PROVE d.member \in willing
    BY <1>0
  <2>3. QED
    BY <2>1, <2>2
<1>3. \A m \in members :
        specs[n][m].skip_ops = (C!AllOps \ C!SupportedOps[C!TypeOf(m)]) \cup C!Rules(n, m).skipOps
  BY DEF Built, C!Specs
<1>4. ~C!Invalid(n) /\ ~C!NoRules /\ ~cfg[n].allowPartialGain /\ asked \in C!BalanceOps
  BY <1>1 DEF Built
<1>5. CASE cfg[n].mode = "mapped"
  <2>1. ~C!PartialGain(n)
    BY <1>4, <1>5 DEF C!Invalid, C!NoRules
  <2>2. \A m \in members : asked \in C!Effective(n, m) <=> asked \notin specs[n][m].skip_ops
    BY <1>3, <1>5 DEF C!Effective, C!Rules
  <2>3. willing = {m \in members : asked \in C!Effective(n, m)}
    BY <2>2
  <2>4. QED
    BY <1>1, <1>2, <1>4, <2>1, <2>3 DEF C!PartialGain
<1>6. CASE cfg[n].mode = "mirror"
  <2>1. cfg[n].members \in Seq(Names)
    BY DEF Lists, Built, C!Composites, Written
  <2>2. IsFiniteSet({C!TypeOf(m) : m \in members})
    <3> DEFINE types == [m \in members |-> C!TypeOf(m)]
    <3>1. {types[m] : m \in members} = {C!TypeOf(m) : m \in members}
      OBVIOUS
    <3>2. IsFiniteSet({types[m] : m \in Range(cfg[n].members)})
      BY <2>1, ImageOfList
    <3>3. QED
      BY <3>1, <3>2 DEF C!MembersOf, C!Range, Range
  <2>3. ~(Cardinality({C!TypeOf(m) : m \in members}) > 1)
    BY SameCardinality, <1>4, <1>6 DEF C!Invalid
  <2>4. \A m, k \in members : C!TypeOf(m) = C!TypeOf(k)
    BY <2>2, <2>3, AtMostOne
  <2>5. \A m \in members : C!Rules(n, m).skipOps = {}
    BY <1>6 DEF C!Rules
  <2>6. \A m, k \in members : specs[n][m].skip_ops = specs[n][k].skip_ops
    BY <1>3, <2>4, <2>5
  <2>7. willing = {} \/ willing = members
    BY <2>6
  <2>8. QED
    BY <1>1, <1>2, <2>7
<1>7. QED
  BY <1>4, <1>5, <1>6 DEF C!Invalid

LEMMA BuiltSlotMeant ==
  ASSUME Built, outcome = "running"
  PROVE  C!SlotMeant
<1> SUFFICES ASSUME request # None PROVE C!SlotMeant
  BY DEF C!SlotMeant
<1>1. PICK n \in C!Composites, asked \in C!AllOps :
        \E slot \in C!SlotIds(C!TypeOf(C!Primary(n))) : \E id \in C!ShownAs(n, slot) :
          /\ request = [composite |-> n, op |-> asked, slot |-> slot, id |-> id]
          /\ done = {[member |-> m, slot |-> C!Translated(n, m, id)] :
                       m \in {p \in C!MembersOf(n) : asked \notin specs[n][p].skip_ops}}
  BY DEF Built, Asked
<1> DEFINE slots == C!SlotIds(C!TypeOf(C!Primary(n)))
<1>2. PICK slot \in slots : \E id \in C!ShownAs(n, slot) :
        /\ request = [composite |-> n, op |-> asked, slot |-> slot, id |-> id]
        /\ \A d \in done : d.slot = C!Translated(n, d.member, id)
  BY <1>1
<1>3. PICK id \in C!ShownAs(n, slot) :
        /\ request = [composite |-> n, op |-> asked, slot |-> slot, id |-> id]
        /\ \A d \in done : d.slot = C!Translated(n, d.member, id)
  BY <1>2
<1> SUFFICES ASSUME C!Range(C!SlotMap(n)) \subseteq slots,
                    {s \in slots : id \in C!ShownAs(n, s)} = {slot}
             PROVE  C!Translated(n, C!Primary(n), id) = slot
  BY <1>3 DEF C!SlotMeant
<1>4. CASE Cardinality(slots) = 1
  BY SameCardinality, <1>4, OneSlot DEF C!Translated
<1>5. CASE Cardinality(slots) # 1 /\ id \in DOMAIN C!SlotMap(n)
  <2>1. C!Translated(n, C!Primary(n), id) = C!SlotMap(n)[id]
    BY SameCardinality, <1>5 DEF C!Translated, C!SlotMap
  <2>2. C!SlotMap(n)[id] \in slots
    BY <1>5 DEF C!Range
  <2>3. id \in C!ShownAs(n, C!SlotMap(n)[id])
    BY <1>5 DEF C!ShownAs
  <2>4. QED
    BY <2>1, <2>2, <2>3
<1>6. CASE Cardinality(slots) # 1 /\ id \notin DOMAIN C!SlotMap(n)
  <2>1. C!Translated(n, C!Primary(n), id) = id
    BY SameCardinality, <1>6 DEF C!Translated, C!SlotMap
  <2>2. id = slot
    BY <1>6 DEF C!ShownAs
  <2>3. QED
    BY <2>1, <2>2
<1>7. QED
  BY <1>4, <1>5, <1>6

LEMMA BuiltFound ==
  ASSUME Built, outcome = "running"
  PROVE  C!Found
<1> SUFFICES ASSUME NEW n \in DOMAIN cfg \ C!Composites
             PROVE  LET owners == {c \in C!Composites : n \in C!MembersOf(c)}
                    IN  Cardinality(owners) <= 1 /\ (n \in hidden => owners \ hidden # {})
  BY SameCardinality DEF C!Found
<1> DEFINE owners == {c \in C!Composites : n \in C!MembersOf(c)}
<1>1. \A c \in C!Composites : ~C!Invalid(c)
  BY DEF Built
<1>2. ASSUME NEW a \in owners, NEW b \in owners PROVE a = b
  BY <1>1 DEF C!Invalid, C!Shared
<1>3. Cardinality(owners) <= 1
  <2>1. CASE owners = {}
    BY <2>1, FS_EmptySet
  <2>2. CASE owners # {}
    <3>1. PICK a : a \in owners
      BY <2>2
    <3>2. owners = {a}
      BY <1>2, <3>1
    <3>3. QED
      BY <3>2, FS_Singleton
  <2>3. QED
    BY <2>1, <2>2
<1>4. hidden = C!Hidden
  BY DEF Built
<1>5. hidden \cap C!Composites = {}
  BY <1>1, <1>4 DEF C!Hidden, C!Invalid
<1>6. n \in hidden => \E c \in owners : TRUE
  BY <1>4 DEF C!Hidden
<1>7. n \in hidden => owners \ hidden # {}
  BY <1>5, <1>6
<1>8. QED
  BY <1>3, <1>7

-----------------------------------------------------------------------------
(* A J River.                                                              *)

\* The instance's operators are those of the theorems about them.
LEMMA JRiverOperators ==
  /\ \A S : J!Cardinality(S) = Cardinality(S)
  /\ \A S : J!Min(S) = Min(S) /\ J!Max(S) = Max(S)
  /\ \A s, P : J!Picked(s, P) = Picked(s, P)
<1>1. \A S : J!Cardinality(S) = Cardinality(S)
  BY DEF J!Cardinality, Cardinality
<1>2. \A S : J!Min(S) = Min(S) /\ J!Max(S) = Max(S)
  BY DEF J!Min, J!Max, Min, Max
<1>3. \A S, key : J!Ascending(S, key) = Ascending(S, key)
  BY <1>1 DEF J!Ascending, Ascending
<1>4. \A s, P : J!Picked(s, P) = Picked(s, P)
  BY <1>3 DEF J!Picked, Picked
<1> QED
  BY <1>1, <1>2, <1>4

LEMMA RemoveAtIs ==
  \A s, i : J!RemoveAt(s, i) = SubSeq(s, 1, i - 1) \o SubSeq(s, i + 1, Len(s))
BY DEF J!RemoveAt

\* Filters that are all the user's.
Owns(fs) == \A i \in DOMAIN fs : fs[i].kind = "own"

\* A section of ezbeq's, from its start mark to its end mark.
Encloses(fs, i, j) ==
  /\ i < j /\ fs[i].kind = "start" /\ fs[j].kind = "end"
  /\ \A m \in DOMAIN fs : i < m /\ m < j => fs[m].kind = "beq"

\* What is not the user's lies in such sections.
Intact(fs) ==
  \A k \in DOMAIN fs : fs[k].kind # "own" =>
    \E i, j \in DOMAIN fs : i <= k /\ k <= j /\ Encloses(fs, i, j)

Even(fs) == Cardinality(J!Marks(fs, "start")) = Cardinality(J!Marks(fs, "end"))

\* A block that ezbeq takes apart, if it does, at the right places.
Whole(fs) == Intact(fs) \/ ~Even(fs)

LEMMA MaxOf ==
  ASSUME NEW S \in SUBSET Nat, IsFiniteSet(S), S # {}
  PROVE  J!Max(S) \in S /\ \A n \in S : n <= J!Max(S)
BY JRiverOperators, MaxIsGreatest

LEMMA MinOf ==
  ASSUME NEW S \in SUBSET Nat, S # {}
  PROVE  J!Min(S) \in S /\ \A n \in S : J!Min(S) <= n
<1>1. \E m \in S : \A n \in S : m <= n
  BY LeastNumber
<1>2. Min(S) \in S /\ \A n \in S : Min(S) <= n
  BY <1>1 DEF Min
<1> QED
  BY <1>2, JRiverOperators

LEMMA MarksFinite ==
  ASSUME NEW S, NEW fs \in Seq(S), NEW k
  PROVE  /\ J!Marks(fs, k) \in SUBSET DOMAIN fs /\ DOMAIN fs = 1..Len(fs) /\ Len(fs) \in Nat
         /\ IsFiniteSet(J!Marks(fs, k)) /\ Cardinality(J!Marks(fs, k)) \in 0..Len(fs)
<1>1. DOMAIN fs = 1..Len(fs) /\ Len(fs) \in Nat
  OBVIOUS
<1>2. J!Marks(fs, k) \in SUBSET (1..Len(fs))
  BY <1>1 DEF J!Marks
<1>3. IsFiniteSet(1..Len(fs)) /\ Cardinality(1..Len(fs)) = Len(fs)
  BY <1>1, FS_Interval
<1>4. /\ IsFiniteSet(J!Marks(fs, k))
      /\ Cardinality(J!Marks(fs, k)) <= Len(fs)
  BY <1>2, <1>3, FS_Subset
<1>5. Cardinality(J!Marks(fs, k)) \in Nat
  BY <1>4, FS_CardinalityType
<1> QED
  BY <1>1, <1>2, <1>4, <1>5

-----------------------------------------------------------------------------
(* What is left of a block without some of its filters.                    *)

\* How many marks are left.
LEMMA CutCount ==
  ASSUME NEW S, NEW fs \in Seq(S), NEW i \in DOMAIN fs, NEW j \in DOMAIN fs, i <= j, NEW k
  PROVE  Cardinality(J!Marks(Cut(fs, i, j), k)) = Cardinality(J!Marks(fs, k) \ (i..j))
<1> DEFINE cut == Cut(fs, i, j)
           A == J!Marks(cut, k)
           B == J!Marks(fs, k) \ (i..j)
           g == [n \in A |-> Before(i, j, n)]
<1>1. /\ cut \in Seq(S)
      /\ \A n \in DOMAIN cut : /\ Before(i, j, n) \in DOMAIN fs \ (i..j)
                               /\ cut[n] = fs[Before(i, j, n)]
      /\ \A m \in DOMAIN fs \ (i..j) : \E n \in DOMAIN cut : Before(i, j, n) = m
      /\ \A m, n \in DOMAIN cut : m < n <=> Before(i, j, m) < Before(i, j, n)
      /\ DOMAIN cut \in SUBSET Nat /\ DOMAIN fs \in SUBSET Nat
  BY CutFacts
<1> HIDE DEF cut
<1>2. g \in [A -> B]
  BY <1>1 DEF J!Marks
<1>3. \A m \in B : \E n \in A : g[n] = m
  BY <1>1 DEF J!Marks
<1>4. \A m, n \in A : g[m] = g[n] => m = n
  <2> SUFFICES ASSUME NEW m \in A, NEW n \in A, g[m] = g[n] PROVE m = n
    OBVIOUS
  <2>1. m \in DOMAIN cut /\ n \in DOMAIN cut /\ m \in Nat /\ n \in Nat
    BY <1>1 DEF J!Marks
  <2>2. Before(i, j, m) = Before(i, j, n) /\ Before(i, j, m) \in Nat
    BY <1>1, <2>1
  <2>3. ~(m < n) /\ ~(n < m)
    BY <1>1, <2>1, <2>2
  <2> QED
    BY <2>1, <2>3
<1>5. IsFiniteSet(A)
  BY <1>1, MarksFinite
<1> HIDE DEF A, B, g
<1>6. g \in Bijection(A, B)
  BY <1>2, <1>3, <1>4 DEF Bijection, Injection, Surjection, IsInjective
<1>7. Cardinality(B) = Cardinality(A)
  BY <1>5, <1>6, FS_Bijection DEF ExistsBijection
<1> QED
  BY <1>7 DEF A, B, cut

LEMMA CutNone ==
  ASSUME NEW S, NEW fs \in Seq(S), NEW i \in DOMAIN fs, NEW j \in DOMAIN fs, i <= j, NEW k,
         J!Marks(fs, k) \cap (i..j) = {}
  PROVE  Cardinality(J!Marks(Cut(fs, i, j), k)) = Cardinality(J!Marks(fs, k))
<1>1. J!Marks(fs, k) \ (i..j) = J!Marks(fs, k)
  OBVIOUS
<1> QED
  BY <1>1, CutCount

LEMMA CutOne ==
  ASSUME NEW S, NEW fs \in Seq(S), NEW i \in DOMAIN fs, NEW j \in DOMAIN fs, i <= j, NEW k,
         NEW x, J!Marks(fs, k) \cap (i..j) = {x}
  PROVE  Cardinality(J!Marks(Cut(fs, i, j), k)) = Cardinality(J!Marks(fs, k)) - 1
<1>1. J!Marks(fs, k) \ (i..j) = J!Marks(fs, k) \ {x} /\ x \in J!Marks(fs, k)
  OBVIOUS
<1>2. IsFiniteSet(J!Marks(fs, k))
  BY MarksFinite
<1>3. Cardinality(J!Marks(fs, k) \ {x}) = Cardinality(J!Marks(fs, k)) - 1
  BY <1>1, <1>2, FS_RemoveElement
<1> QED
  BY <1>1, <1>3, CutCount

\* The user's filters are those that were there.
LEMMA CutOwned ==
  ASSUME NEW S, NEW fs \in Seq(S), NEW i \in DOMAIN fs, NEW j \in DOMAIN fs, i <= j,
         J!Marks(fs, "own") \cap (i..j) = {}
  PROVE  J!Owned(Cut(fs, i, j)) = J!Owned(fs)
<1> DEFINE cut == Cut(fs, i, j)
           A == J!Marks(cut, "own")
           B == J!Marks(fs, "own")
           g == [n \in A |-> Before(i, j, n)]
<1>1. /\ cut \in Seq(S)
      /\ \A n \in DOMAIN cut : /\ Before(i, j, n) \in DOMAIN fs \ (i..j)
                               /\ cut[n] = fs[Before(i, j, n)]
      /\ \A m \in DOMAIN fs \ (i..j) : \E n \in DOMAIN cut : Before(i, j, n) = m
      /\ \A m, n \in DOMAIN cut : m < n <=> Before(i, j, m) < Before(i, j, n)
  BY CutFacts
<1> HIDE DEF cut
<1>2. A \in SUBSET DOMAIN cut /\ B \in SUBSET DOMAIN fs
  BY DEF J!Marks
<1>3. g \in [A -> B]
  BY <1>1 DEF J!Marks
<1>4. \A m \in B : \E n \in A : g[n] = m
  BY <1>1 DEF J!Marks
<1>5. \A m, n \in A : m < n => g[m] < g[n]
  BY <1>1, <1>2
<1>6. \A n \in A : cut[n] = fs[g[n]]
  BY <1>1, <1>2
<1> HIDE DEF A, B, g
<1>7. Picked(cut, A) = Picked(fs, B)
  <2>1. cut \in Seq(S) /\ fs \in Seq(S)
    BY <1>1
  <2>2. Alike(cut, A, fs, B, g)
    BY <1>3, <1>4, <1>5, <1>6 DEF Alike
  <2> QED
    BY <2>1, <2>2, <1>2, PickedAlike
<1> QED
  BY <1>7, JRiverOperators DEF J!Owned, A, B, cut

\* Sections outlive a cut that has both ends of a section or neither.
LEMMA CutIntact ==
  ASSUME NEW S, NEW fs \in Seq(S), NEW i \in DOMAIN fs, NEW j \in DOMAIN fs, i <= j,
         Intact(fs),
         \A p, q \in DOMAIN fs : Encloses(fs, p, q) => (p \in i..j <=> q \in i..j)
  PROVE  Intact(Cut(fs, i, j))
<1> DEFINE cut == Cut(fs, i, j)
           was(n) == Before(i, j, n)
<1>1. /\ cut \in Seq(S)
      /\ \A n \in DOMAIN cut : was(n) \in DOMAIN fs \ (i..j) /\ cut[n] = fs[was(n)]
      /\ \A m \in DOMAIN fs \ (i..j) : \E n \in DOMAIN cut : was(n) = m
      /\ \A m, n \in DOMAIN cut : m < n <=> was(m) < was(n)
      /\ DOMAIN cut \in SUBSET Nat /\ DOMAIN fs \in SUBSET Nat
  BY CutFacts
<1> HIDE DEF cut, was
<1> SUFFICES ASSUME NEW k \in DOMAIN cut, cut[k].kind # "own"
             PROVE  \E m, n \in DOMAIN cut : m <= k /\ k <= n /\ Encloses(cut, m, n)
  BY DEF Intact, cut
<1>2. PICK p \in DOMAIN fs, q \in DOMAIN fs :
        p <= was(k) /\ was(k) <= q /\ Encloses(fs, p, q)
  BY <1>1 DEF Intact
<1>3. p \notin i..j /\ q \notin i..j
  <2>1. was(k) \notin i..j /\ was(k) \in Nat /\ p \in Nat /\ q \in Nat /\ i \in Nat /\ j \in Nat
    BY <1>1
  <2>2. p \in i..j <=> q \in i..j
    BY <1>2
  <2> QED
    BY <1>2, <2>1, <2>2
<1>4. PICK m \in DOMAIN cut, n \in DOMAIN cut : was(m) = p /\ was(n) = q
  BY <1>1, <1>2, <1>3
<1>5. m <= k /\ k <= n /\ m < n
  <2>1. m \in Nat /\ n \in Nat /\ k \in Nat /\ p \in Nat /\ q \in Nat /\ was(k) \in Nat
    BY <1>1
  <2>2. p < q /\ ~(was(k) < was(m)) /\ ~(was(n) < was(k))
    BY <1>2, <1>4, <2>1 DEF Encloses
  <2>3. m < n /\ ~(k < m) /\ ~(n < k)
    <3>1. /\ m < n <=> was(m) < was(n)
          /\ k < m <=> was(k) < was(m)
          /\ n < k <=> was(n) < was(k)
      BY <1>1
    <3> QED
      BY <1>4, <2>2, <3>1
  <2> QED
    BY <2>1, <2>3
<1>6. cut[m].kind = "start" /\ cut[n].kind = "end"
  BY <1>1, <1>2, <1>4 DEF Encloses
<1>7. \A x \in DOMAIN cut : m < x /\ x < n => cut[x].kind = "beq"
  <2> SUFFICES ASSUME NEW x \in DOMAIN cut, m < x, x < n PROVE cut[x].kind = "beq"
    OBVIOUS
  <2>1. p < was(x) /\ was(x) < q /\ was(x) \in DOMAIN fs /\ cut[x] = fs[was(x)]
    BY <1>1, <1>4
  <2>2. \A y \in DOMAIN fs : p < y /\ y < q => fs[y].kind = "beq"
    BY <1>2 DEF Encloses
  <2> QED
    BY <2>1, <2>2
<1> QED
  BY <1>5, <1>6, <1>7 DEF Encloses

-----------------------------------------------------------------------------
(* What is removed.                                                        *)

\* The section that the two marks found enclose goes.
LEMMA WithoutFacts ==
  ASSUME NEW fs \in Seq(J!Filter), ~J!Broken(fs), J!Marks(fs, "start") # {}
  PROVE  \E i, j \in DOMAIN fs :
           /\ i < j /\ J!Without(fs) = Cut(fs, i, j)
           /\ J!Marks(fs, "start") \cap (i..j) = {i}
           /\ J!Marks(fs, "end") \cap (i..j) = {j}
           /\ \A m \in J!Marks(fs, "end") : j <= m
<1> DEFINE starts == J!Marks(fs, "start")
           ends == J!Marks(fs, "end")
           j == J!EndMark(fs)
           i == J!StartMark(fs)
           L == Len(fs)
<1>1. /\ DOMAIN fs = 1..L /\ L \in Nat /\ starts \in SUBSET (1..L) /\ ends \in SUBSET (1..L)
      /\ IsFiniteSet(starts)
  BY MarksFinite
<1>2. starts # {}
  OBVIOUS
<1>3. ends # {} /\ i # 0
  BY <1>2 DEF J!Broken
<1>4. j = J!Min(ends \cup {L + 1}) /\ i = J!Max({m \in starts : m < j} \cup {0})
  BY DEF J!EndMark, J!StartMark
<1>5. J!Without(fs) = Cut(fs, i, j)
  BY <1>2 DEF J!Without, Cut
<1>6. \A m \in DOMAIN fs : (m \in starts <=> fs[m].kind = "start") /\ (m \in ends <=> fs[m].kind = "end")
  BY DEF J!Marks
<1>7. starts \cap ends = {}
  BY <1>1, <1>6
<1> HIDE DEF starts, ends, i, j, L
<1>0. \A m \in starts \cup ends : m \in Nat /\ m <= L
  <2>1. \A m \in 1..L : m \in Nat /\ m <= L
    BY <1>1
  <2>2. starts \in SUBSET (1..L) /\ ends \in SUBSET (1..L)
    BY <1>1
  <2> QED
    BY <2>1, <2>2, Zenon
<1>8. j \in ends /\ \A m \in ends : j <= m
  <2>1. ends \cup {L + 1} \in SUBSET Nat /\ ends \cup {L + 1} # {}
    BY <1>1
  <2>2. j \in ends \cup {L + 1} /\ \A m \in ends \cup {L + 1} : j <= m
    BY <1>4, <2>1, MinOf
  <2>3. PICK m \in ends : m \in Nat /\ m <= L
    BY <1>0, <1>3
  <2>4. j # L + 1
    BY <1>1, <2>2, <2>3
  <2> QED
    BY <2>2, <2>4
<1>9. i \in starts /\ i < j /\ \A m \in starts : m < j => m <= i
  <2> DEFINE X == {m \in starts : m < j} \cup {0}
  <2>1. IsFiniteSet({m \in starts : m < j})
    BY <1>1, FS_Subset
  <2>2. IsFiniteSet(X)
    BY <2>1, FS_AddElement
  <2>3. X \in SUBSET Nat /\ X # {}
    BY <1>0
  <2>4. i \in X /\ \A m \in X : m <= i
    <3> HIDE DEF X
    <3> QED
      BY <1>4, <2>2, <2>3, MaxOf DEF X
  <2> QED
    BY <1>3, <2>4
<1>10. i \in DOMAIN fs /\ j \in DOMAIN fs /\ i \in Nat /\ j \in Nat
  BY <1>1, <1>8, <1>9
<1>11. starts \cap (i..j) = {i}
  BY <1>1, <1>7, <1>8, <1>9, <1>10
<1>12. ends \cap (i..j) = {j}
  BY <1>1, <1>8, <1>9, <1>10
<1> QED
  BY <1>5, <1>8, <1>9, <1>10, <1>11, <1>12 DEF starts, ends

\* The first end mark closes a section, and no section but that one has a mark
\* of it.
LEMMA Closes ==
  ASSUME NEW S, NEW fs \in Seq(S), Intact(fs), NEW i \in DOMAIN fs, NEW j \in DOMAIN fs, i < j,
         J!Marks(fs, "start") \cap (i..j) = {i}, J!Marks(fs, "end") \cap (i..j) = {j},
         \A m \in J!Marks(fs, "end") : j <= m
  PROVE  /\ Encloses(fs, i, j)
         /\ \A p, q \in DOMAIN fs : Encloses(fs, p, q) => (p \in i..j <=> q \in i..j)
         /\ J!Marks(fs, "own") \cap (i..j) = {}
<1>1. DOMAIN fs = 1..Len(fs) /\ Len(fs) \in Nat
  OBVIOUS
<1>2. \A m \in DOMAIN fs : m \in Nat /\ (m \in i..j <=> i <= m /\ m <= j)
  BY <1>1
<1>3. fs[i].kind = "start" /\ fs[j].kind = "end"
  <2>1. i \in J!Marks(fs, "start") /\ j \in J!Marks(fs, "end")
    OBVIOUS
  <2> QED
    BY <2>1 DEF J!Marks
<1>4. \A m \in DOMAIN fs : fs[m].kind = "end" => j <= m
  BY DEF J!Marks
<1>5. \A m \in DOMAIN fs : i <= m /\ m <= j /\ fs[m].kind = "start" => m = i
  <2> SUFFICES ASSUME NEW m \in DOMAIN fs, i <= m, m <= j, fs[m].kind = "start" PROVE m = i
    OBVIOUS
  <2>1. m \in J!Marks(fs, "start") \cap (i..j)
    BY <1>2 DEF J!Marks
  <2> QED
    BY <2>1
<1>6. ASSUME NEW p \in DOMAIN fs, NEW q \in DOMAIN fs, Encloses(fs, p, q)
      PROVE  /\ p < q /\ fs[p].kind = "start" /\ fs[q].kind = "end"
             /\ \A m \in DOMAIN fs : p < m /\ m < q => fs[m].kind = "beq"
  BY <1>6 DEF Encloses
<1>7. ASSUME NEW p \in DOMAIN fs, NEW q \in DOMAIN fs, Encloses(fs, p, q), p <= i, i <= q
      PROVE  p = i /\ q = j
  <2>1. p = i
    <3>1. ~(p < i /\ i < q)
      BY <1>3, <1>6, <1>7
    <3>2. i # q
      BY <1>3, <1>6, <1>7
    <3> QED
      BY <1>2, <1>7, <3>1, <3>2
  <2>2. j <= q
    BY <1>4, <1>6, <1>7
  <2>3. ~(p < j /\ j < q)
    BY <1>3, <1>6, <1>7
  <2> QED
    BY <1>2, <2>1, <2>2, <2>3
<1>8. PICK p \in DOMAIN fs, q \in DOMAIN fs : p <= i /\ i <= q /\ Encloses(fs, p, q)
  BY <1>3 DEF Intact
<1>9. Encloses(fs, i, j)
  BY <1>7, <1>8
<1>10. ASSUME NEW x \in DOMAIN fs, NEW y \in DOMAIN fs, Encloses(fs, x, y)
       PROVE  x \in i..j <=> y \in i..j
  <2>1. CASE x \in i..j
    <3>1. x = i
      BY <1>2, <1>5, <1>6, <1>10, <2>1
    <3>2. y = j
      BY <1>2, <1>6, <1>7, <1>10, <3>1
    <3> QED
      BY <1>2, <2>1, <3>2
  <2>2. CASE y \in i..j
    <3>1. y = j
      BY <1>2, <1>4, <1>6, <1>10, <2>2
    <3>2. ~(x < i)
      BY <1>3, <1>2, <1>6, <1>10, <3>1
    <3> QED
      BY <1>2, <1>6, <1>10, <3>1, <3>2
  <2> QED
    BY <2>1, <2>2
<1>11. J!Marks(fs, "own") \cap (i..j) = {}
  <2> SUFFICES ASSUME NEW m \in DOMAIN fs, m \in i..j, fs[m].kind = "own" PROVE FALSE
    BY DEF J!Marks
  <2>1. m # i /\ m # j
    BY <1>3
  <2> QED
    BY <1>2, <1>9, <2>1 DEF Encloses
<1> QED
  BY <1>9, <1>10, <1>11

\* Each time one section goes, and the user's filters stay.
LEMMA AgainKeeps ==
  ASSUME NEW fs \in Seq(J!Filter), J!Again(fs) # None, J!Marks(fs, "start") # {}
  PROVE  LET left == J!Again(fs)
         IN  /\ left \in Seq(J!Filter)
             /\ Cardinality(J!Marks(left, "start")) = Cardinality(J!Marks(fs, "start")) - 1
             /\ Cardinality(J!Marks(left, "end")) = Cardinality(J!Marks(fs, "end")) - 1
             /\ Intact(fs) => Intact(left) /\ J!Owned(left) = J!Owned(fs)
<1>1. ~J!Broken(fs) /\ J!Again(fs) = J!Without(fs)
  BY DEF J!Again
<1>2. PICK i \in DOMAIN fs, j \in DOMAIN fs :
        /\ i < j /\ J!Without(fs) = Cut(fs, i, j)
        /\ J!Marks(fs, "start") \cap (i..j) = {i}
        /\ J!Marks(fs, "end") \cap (i..j) = {j}
        /\ \A m \in J!Marks(fs, "end") : j <= m
  BY <1>1, WithoutFacts
<1>3. DOMAIN fs \in SUBSET Nat /\ i <= j
  BY <1>2
<1>4. Cut(fs, i, j) \in Seq(J!Filter)
  BY <1>3, CutFacts
<1>5. /\ Cardinality(J!Marks(Cut(fs, i, j), "start")) = Cardinality(J!Marks(fs, "start")) - 1
      /\ Cardinality(J!Marks(Cut(fs, i, j), "end")) = Cardinality(J!Marks(fs, "end")) - 1
  <2>1. Cardinality(J!Marks(Cut(fs, i, j), "start")) = Cardinality(J!Marks(fs, "start")) - 1
    <3>1. J!Marks(fs, "start") \cap (i..j) = {i}
      BY <1>2
    <3> QED
      BY <1>3, <3>1, CutOne, Zenon
  <2>2. Cardinality(J!Marks(Cut(fs, i, j), "end")) = Cardinality(J!Marks(fs, "end")) - 1
    <3>1. J!Marks(fs, "end") \cap (i..j) = {j}
      BY <1>2
    <3> QED
      BY <1>3, <3>1, CutOne, Zenon
  <2> QED
    BY <2>1, <2>2
<1>6. ASSUME Intact(fs)
      PROVE  Intact(Cut(fs, i, j)) /\ J!Owned(Cut(fs, i, j)) = J!Owned(fs)
  <2>1. /\ \A p, q \in DOMAIN fs : Encloses(fs, p, q) => (p \in i..j <=> q \in i..j)
        /\ J!Marks(fs, "own") \cap (i..j) = {}
    BY <1>2, <1>6, Closes
  <2> QED
    BY <1>3, <1>6, <2>1, CutIntact, CutOwned
<1> QED
  BY <1>1, <1>2, <1>4, <1>5, <1>6

\* The function that __remove_all_beq iterates with exists.
LEMMA Iterates ==
  ASSUME NEW fs, NEW N \in Nat
  PROVE  \E g : g = [n \in 0..N |-> IF n = 0 THEN fs ELSE J!Again(g[n - 1])]
<1> DEFINE Is(g, m) == g = [n \in 0..m |-> IF n = 0 THEN fs ELSE J!Again(g[n - 1])]
           Lacking == {m \in Nat : ~ \E g : Is(g, m)}
<1> SUFFICES ASSUME Lacking # {} PROVE FALSE
  OBVIOUS
<1>1. PICK m \in Lacking : \A n \in Lacking : m <= n
  BY LeastNumber
<1>2. m \in Nat /\ ~ \E g : Is(g, m)
  BY <1>1
<1>3. CASE m = 0
  <2> DEFINE f == [n \in {0} |-> fs]
  <2>1. 0..0 = {0}
    OBVIOUS
  <2>2. Is(f, 0)
    BY <2>1
  <2> QED
    BY <1>2, <1>3, <2>2
<1>4. CASE m # 0
  <2>1. m - 1 \in Nat /\ m - 1 \notin Lacking
    <3>1. m - 1 \in Nat /\ ~(m <= m - 1)
      BY <1>2, <1>4
    <3> QED
      BY <1>1, <3>1
  <2>2. PICK g : Is(g, m - 1)
    BY <2>1
  <2> DEFINE f == [n \in 0..m |-> IF n = 0 THEN fs ELSE J!Again(g[n - 1])]
  <2>3. \A n \in 0..m : n # 0 => n - 1 \in 0..(m - 1)
    BY <1>2
  <2>4. \A n \in 0..(m - 1) : f[n] = g[n]
    BY <1>2, <2>2
  <2>5. \A n \in 0..m : n # 0 => f[n - 1] = g[n - 1]
    <3> HIDE DEF f
    <3> QED
      BY <2>3, <2>4
  <2>6. Is(f, m)
    BY <2>5
  <2> QED
    BY <1>2, <2>6
<1> QED
  BY <1>3, <1>4

LEMMA RemovedIterates ==
  ASSUME NEW S, NEW fs \in Seq(S)
  PROVE  \E g : /\ g = [n \in 0..(Len(fs) + 1) |-> IF n = 0 THEN fs ELSE J!Again(g[n - 1])]
                /\ J!Removed(fs) = g[Cardinality(J!Marks(fs, "start")) + 1]
<1> DEFINE Is(g) == g = [n \in 0..(Len(fs) + 1) |-> IF n = 0 THEN fs ELSE J!Again(g[n - 1])]
<1>1. \E g : Is(g)
  <2>1. Len(fs) + 1 \in Nat
    OBVIOUS
  <2> QED
    BY <2>1, Iterates
<1>2. Is(CHOOSE g : Is(g))
  <2> HIDE DEF Is
  <2> QED
    BY <1>1
<1>3. J!Removed(fs) = (CHOOSE g : Is(g))[Cardinality(J!Marks(fs, "start")) + 1]
  BY JRiverOperators DEF J!Removed
<1> QED
  BY <1>2, <1>3

\* What is left when it does not raise: the user's filters, all of them and in
\* their order.
LEMMA RemovedFacts ==
  ASSUME J!Constants, NEW fs \in Seq(J!Filter), Whole(fs), J!Removed(fs) # None
  PROVE  /\ J!Removed(fs) = J!Owned(fs) /\ Owns(J!Removed(fs))
         /\ J!Removed(fs) \in Seq(J!Filter)
<1> DEFINE N == Len(fs) + 1
           starts(s) == Cardinality(J!Marks(s, "start"))
           ends(s) == Cardinality(J!Marks(s, "end"))
           c == starts(fs)
           Keeps(s) == /\ s \in Seq(J!Filter)
                       /\ ends(fs) - ends(s) = c - starts(s)
                       /\ Intact(fs) => Intact(s) /\ J!Owned(s) = J!Owned(fs)
<1>1. PICK g : /\ g = [n \in 0..N |-> IF n = 0 THEN fs ELSE J!Again(g[n - 1])]
               /\ J!Removed(fs) = g[c + 1]
  BY RemovedIterates
<1>2. N \in Nat /\ c \in Nat /\ c + 1 \in 0..N
  BY MarksFinite
<1>3. \A s \in Seq(J!Filter) : starts(s) \in Nat /\ ends(s) \in Nat
  BY MarksFinite
<1>4. \A s \in Seq(J!Filter) : starts(s) = 0 <=> J!Marks(s, "start") = {}
  BY MarksFinite, FS_EmptySet
<1>5. \A s \in Seq(J!Filter) : ends(s) = 0 <=> J!Marks(s, "end") = {}
  BY MarksFinite, FS_EmptySet
<1>6. ASSUME NEW s, Keeps(s), starts(s) # 0, J!Again(s) # None
      PROVE  Keeps(J!Again(s)) /\ starts(J!Again(s)) = starts(s) - 1
  <2>1. s \in Seq(J!Filter) /\ J!Marks(s, "start") # {}
    BY <1>4, <1>6
  <2>2. /\ J!Again(s) \in Seq(J!Filter)
        /\ starts(J!Again(s)) = starts(s) - 1
        /\ ends(J!Again(s)) = ends(s) - 1
        /\ Intact(s) => Intact(J!Again(s)) /\ J!Owned(J!Again(s)) = J!Owned(s)
    BY <1>6, <2>1, AgainKeeps
  <2>3. starts(s) \in Nat /\ ends(s) \in Nat /\ ends(fs) \in Nat
    BY <1>3, <2>1
  <2> HIDE DEF starts, ends
  <2> QED
    BY <1>2, <1>6, <2>2, <2>3
<1>7. J!Again(None) = None /\ None \notin Seq(J!Filter)
  BY DEF J!Again, J!Constants
<1>8. g[0] = fs /\ \A n \in 0..N : n # 0 => g[n] = J!Again(g[n - 1])
  <2> DEFINE f == [n \in 0..N |-> IF n = 0 THEN fs ELSE J!Again(g[n - 1])]
  <2>1. g = f
    BY <1>1
  <2>2. f[0] = fs /\ \A n \in 0..N : n # 0 => f[n] = J!Again(g[n - 1])
    BY <1>2
  <2> HIDE DEF f
  <2> QED
    BY <2>1, <2>2
<1> HIDE DEF N, Keeps, starts, ends, c
<1>9. \A n \in 0..c : g[n] = None \/ (Keeps(g[n]) /\ starts(g[n]) = c - n)
  <2> DEFINE Bad == {n \in 0..c : ~(g[n] = None \/ (Keeps(g[n]) /\ starts(g[n]) = c - n))}
  <2> SUFFICES ASSUME Bad # {} PROVE FALSE
    OBVIOUS
  <2>1. Bad \in SUBSET Nat
    BY <1>2
  <2>2. PICK n \in Bad : \A m \in Bad : n <= m
    BY <2>1, LeastNumber
  <2>3. n \in 0..c /\ g[n] # None /\ ~(Keeps(g[n]) /\ starts(g[n]) = c - n)
    BY <2>2
  <2>4. CASE n = 0
    <3>1. Keeps(fs) /\ starts(fs) = c
      BY <1>3 DEF Keeps, c
    <3> QED
      BY <1>2, <1>8, <2>3, <2>4, <3>1
  <2>5. CASE n # 0
    <3>1. n \in 0..N /\ n - 1 \in 0..c /\ ~(n <= n - 1)
      BY <1>2, <2>3, <2>5
    <3>2. g[n] = J!Again(g[n - 1])
      BY <1>8, <2>5, <3>1
    <3>3. g[n - 1] # None
      BY <1>7, <2>3, <3>2
    <3>4. n - 1 \notin Bad
      BY <2>2, <3>1
    <3>5. Keeps(g[n - 1]) /\ starts(g[n - 1]) = c - (n - 1)
      BY <3>1, <3>3, <3>4
    <3>6. starts(g[n - 1]) # 0 /\ c - (n - 1) - 1 = c - n
      BY <1>2, <2>3, <3>1, <3>5
    <3>7. Keeps(g[n]) /\ starts(g[n]) = starts(g[n - 1]) - 1
      BY <1>6, <2>3, <3>2, <3>5, <3>6
    <3> QED
      BY <2>3, <3>5, <3>6, <3>7
  <2> QED
    BY <2>4, <2>5
<1>10. J!Removed(fs) = J!Again(g[c]) /\ c \in 0..c
  <2>1. (c + 1) - 1 = c /\ c + 1 # 0
    BY <1>2
  <2> QED
    BY <1>1, <1>2, <1>8, <2>1
<1>11. Keeps(g[c]) /\ starts(g[c]) = 0
  <2>1. g[c] # None
    BY <1>7, <1>10
  <2>2. c - c = 0
    BY <1>2
  <2> QED
    BY <1>9, <1>10, <2>1, <2>2
<1> DEFINE left == g[c]
<1> HIDE DEF left
<1>12. left \in Seq(J!Filter) /\ J!Marks(left, "start") = {} /\ starts(left) = 0
  BY <1>4, <1>11 DEF Keeps, left
<1>13. ~J!Broken(left) /\ J!Removed(fs) = left
  BY <1>10, <1>12 DEF J!Again, J!Without, left
<1>14. J!Marks(left, "end") = {}
  <2>1. J!StartMark(left) = 0
    <3>1. {m \in J!Marks(left, "start") : m < J!EndMark(left)} \cup {0} = {0}
      BY <1>12
    <3>2. J!Max({0}) = 0
      <4>1. IsFiniteSet({0})
        BY FS_Singleton, Zenon
      <4>2. {0} \in SUBSET Nat /\ {0} # {}
        OBVIOUS
      <4> QED
        BY <4>1, <4>2, MaxOf
    <3> QED
      BY <3>1, <3>2 DEF J!StartMark
  <2> QED
    BY <1>13, <2>1 DEF J!Broken
<1>15. Intact(fs)
  <2>1. ends(left) = 0
    BY <1>5, <1>12, <1>14
  <2>2. ends(fs) - 0 = c - 0
    BY <1>11, <1>12, <2>1 DEF Keeps, left
  <2>3. ends(fs) = starts(fs)
    BY <1>2, <1>3, <2>2 DEF c
  <2> QED
    BY <2>3 DEF Whole, Even, starts, ends
<1>16. Intact(left) /\ J!Owned(left) = J!Owned(fs)
  BY <1>11, <1>15 DEF Keeps, left
<1>17. Owns(left)
  <2> SUFFICES ASSUME NEW k \in DOMAIN left, left[k].kind # "own" PROVE FALSE
    BY DEF Owns
  <2>1. PICK i \in DOMAIN left : left[i].kind = "start"
    BY <1>16 DEF Intact, Encloses
  <2> QED
    BY <1>12, <2>1 DEF J!Marks
<1>18. J!Owned(left) = left
  <2>1. J!Marks(left, "own") = DOMAIN left
    BY <1>17 DEF Owns, J!Marks
  <2> QED
    BY <1>12, <2>1, JRiverOperators, PickedAll DEF J!Owned
<1> QED
  BY <1>12, <1>13, <1>16, <1>17, <1>18

-----------------------------------------------------------------------------
(* Blocks that are put together.                                           *)

LEMMA IntactConcat ==
  ASSUME NEW S, NEW a \in Seq(S), NEW b \in Seq(S), Intact(a), Intact(b)
  PROVE  Intact(a \o b)
<1> DEFINE c == a \o b
           A == Len(a)
           B == Len(b)
<1>1. /\ A \in Nat /\ B \in Nat
      /\ DOMAIN a = 1..A /\ DOMAIN b = 1..B /\ DOMAIN c = 1..(A + B)
      /\ \A n \in DOMAIN a : c[n] = a[n]
      /\ \A n \in DOMAIN b : c[A + n] = b[n]
  BY ConcatFacts
<1> HIDE DEF c, A, B
<1> SUFFICES ASSUME NEW k \in DOMAIN c, c[k].kind # "own"
             PROVE  \E i, j \in DOMAIN c : i <= k /\ k <= j /\ Encloses(c, i, j)
  BY DEF Intact, c
<1>2. CASE k <= A
  <2>1. k \in DOMAIN a /\ a[k].kind # "own"
    BY <1>1, <1>2
  <2>2. PICK i \in DOMAIN a, j \in DOMAIN a : i <= k /\ k <= j /\ Encloses(a, i, j)
    BY <2>1 DEF Intact
  <2>3. i \in DOMAIN c /\ j \in DOMAIN c /\ c[i] = a[i] /\ c[j] = a[j]
    BY <1>1
  <2>4. \A m \in DOMAIN c : i < m /\ m < j => m \in DOMAIN a
    BY <1>1
  <2>5. Encloses(c, i, j)
    BY <1>1, <2>2, <2>3, <2>4 DEF Encloses
  <2> QED
    BY <2>2, <2>3, <2>5
<1>3. CASE ~(k <= A)
  <2>1. k - A \in DOMAIN b /\ A + (k - A) = k
    BY <1>1, <1>3
  <2>2. b[k - A].kind # "own"
    BY <1>1, <2>1
  <2>3. PICK i \in DOMAIN b, j \in DOMAIN b : i <= k - A /\ k - A <= j /\ Encloses(b, i, j)
    BY <2>1, <2>2 DEF Intact
  <2>4. /\ A + i \in DOMAIN c /\ A + j \in DOMAIN c /\ c[A + i] = b[i] /\ c[A + j] = b[j]
        /\ A + i <= k /\ k <= A + j
    BY <1>1, <2>1, <2>3
  <2>5. \A m \in DOMAIN c : A + i < m /\ m < A + j =>
          m - A \in DOMAIN b /\ i < m - A /\ m - A < j /\ c[m] = b[m - A]
    <3> SUFFICES ASSUME NEW m \in DOMAIN c, A + i < m, m < A + j
                 PROVE  m - A \in DOMAIN b /\ i < m - A /\ m - A < j /\ c[m] = b[m - A]
      OBVIOUS
    <3>1. m - A \in DOMAIN b /\ i < m - A /\ m - A < j /\ A + (m - A) = m
      BY <1>1
    <3> QED
      BY <1>1, <3>1
  <2>6. A + i < A + j
    BY <1>1, <2>3 DEF Encloses
  <2>7. Encloses(c, A + i, A + j)
    BY <2>3, <2>4, <2>5, <2>6 DEF Encloses
  <2> QED
    BY <2>4, <2>7
<1> QED
  BY <1>2, <1>3

LEMMA OwnsIntact ==
  ASSUME NEW fs, Owns(fs)
  PROVE  Intact(fs)
BY DEF Owns, Intact

LEMMA SectionFacts ==
  ASSUME NEW e \in CatalogueEntries
  PROVE  LET s == J!Section(e)
         IN  /\ s \in Seq(J!Filter) /\ DOMAIN s = 1..3 /\ Len(s) = 3 /\ Intact(s)
             /\ \A n \in DOMAIN s : s[n].kind # "own"
<1> DEFINE s == J!Section(e)
<1>1. /\ s \in Seq(J!Filter) /\ DOMAIN s = 1..3 /\ Len(s) = 3
      /\ s[1].kind = "start" /\ s[2].kind = "beq" /\ s[3].kind = "end"
  BY DEF J!Section, J!Filter
<1> HIDE DEF s
<1>2. \A n \in DOMAIN s : n = 1 \/ n = 2 \/ n = 3
  BY <1>1
<1>3. Encloses(s, 1, 3)
  BY <1>1, <1>2 DEF Encloses
<1>4. Intact(s)
  BY <1>1, <1>2, <1>3 DEF Intact
<1> QED
  BY <1>1, <1>2, <1>4 DEF s

LEMMA OwnedFacts ==
  ASSUME NEW fs \in Seq(J!Filter)
  PROVE  J!Owned(fs) \in Seq(J!Filter) /\ Owns(J!Owned(fs))
<1> DEFINE places == J!Marks(fs, "own")
           p == Picked(fs, places)
<1>1. places \in SUBSET DOMAIN fs
  BY DEF J!Marks
<1>2. J!Owned(fs) = p
  BY JRiverOperators DEF J!Owned
<1>3. \A i \in places : fs[i].kind = "own"
  BY DEF J!Marks
<1> HIDE DEF places
<1>4. /\ p \in Seq(J!Filter)
      /\ \E keeps \in [DOMAIN p -> places] :
           /\ \A n \in DOMAIN p : p[n] = fs[keeps[n]]
           /\ \A m, n \in DOMAIN p : m < n => keeps[m] < keeps[n]
           /\ \A i \in places : \E n \in DOMAIN p : keeps[n] = i
  BY <1>1, PickedFacts
<1> HIDE DEF p
<1>5. Owns(p)
  BY <1>3, <1>4 DEF Owns
<1> QED
  BY <1>2, <1>4, <1>5

\* A block of the user's.
LEMMA OwnsFacts ==
  ASSUME NEW fs \in Seq(J!Filter), Owns(fs)
  PROVE  J!Owned(fs) = fs /\ J!Ours(fs) = <<>>
<1>1. J!Marks(fs, "own") = DOMAIN fs
  BY DEF Owns, J!Marks
<1>2. J!Owned(fs) = fs
  BY <1>1, JRiverOperators, PickedAll DEF J!Owned
<1>3. J!Ours(fs) = Picked(fs, {})
  BY <1>1, JRiverOperators DEF J!Ours
<1>4. {} \in SUBSET DOMAIN fs
  OBVIOUS
<1>5. Picked(fs, {}) = <<>>
  BY <1>4, PickedFacts
<1> QED
  BY <1>2, <1>3, <1>5

\* What ezbeq writes: the filters it was given, and the section of the entry.
LEMMA AppendedFacts ==
  ASSUME J!Constants, NEW bare \in Seq(J!Filter), Owns(bare), NEW t \in J!Titles
  PROVE  LET all == J!Appended(bare, t)
         IN  /\ all \in Seq(J!Filter) /\ Intact(all)
             /\ J!Owned(all) = bare /\ J!Ours(all) = J!Appended(<<>>, t)
<1>1. CASE t = J!Empty
  BY <1>1, OwnsFacts, OwnsIntact DEF J!Appended
<1>2. CASE t # J!Empty
  <2>1. t \in CatalogueEntries
    BY <1>2 DEF J!Titles
  <2> DEFINE s == J!Section(t)
             all == bare \o s
             B == Len(bare)
  <2>2. /\ s \in Seq(J!Filter) /\ DOMAIN s = 1..3 /\ Len(s) = 3 /\ Intact(s)
        /\ \A n \in DOMAIN s : s[n].kind # "own"
    BY <2>1, SectionFacts
  <2>3. J!Appended(bare, t) = all /\ J!Appended(<<>>, t) = <<>> \o s
    BY <1>2 DEF J!Appended
  <2> HIDE DEF s
  <2>4. <<>> \o s = s
    BY <2>2
  <2>5. /\ all \in Seq(J!Filter) /\ B \in Nat
        /\ DOMAIN bare = 1..B /\ DOMAIN all = 1..(B + 3)
        /\ \A n \in DOMAIN bare : all[n] = bare[n]
        /\ \A n \in DOMAIN s : all[B + n] = s[n]
    <3>1. /\ all \in Seq(J!Filter) /\ B \in Nat
          /\ DOMAIN bare = 1..B /\ DOMAIN all = 1..(B + Len(s))
          /\ \A n \in DOMAIN bare : all[n] = bare[n]
          /\ \A n \in DOMAIN s : all[B + n] = s[n]
      <4>1. s \in Seq(J!Filter)
        BY <2>2
      <4> QED
        BY <4>1, ConcatFacts
    <3> HIDE DEF all, B
    <3> QED
      BY <2>2, <3>1
  <2>6. Intact(all)
    BY <2>2, OwnsIntact, IntactConcat
  <2> HIDE DEF all, B
  <2>7. \A n \in DOMAIN all : n \in DOMAIN bare \/ (n - B \in DOMAIN s /\ B + (n - B) = n)
    BY <2>2, <2>5
  <2>8. J!Marks(all, "own") = DOMAIN bare
    <3>1. \A n \in DOMAIN bare : n \in DOMAIN all /\ all[n].kind = "own"
      BY <2>5 DEF Owns
    <3>2. \A n \in DOMAIN all : n \notin DOMAIN bare => all[n].kind # "own"
      BY <2>2, <2>5, <2>7
    <3> QED
      BY <3>1, <3>2 DEF J!Marks
  <2>9. J!Owned(all) = bare
    <3> DEFINE f == [n \in DOMAIN bare |-> n]
    <3>1. DOMAIN bare \in SUBSET DOMAIN all /\ DOMAIN bare \in SUBSET DOMAIN bare
      BY <2>5
    <3>2. Alike(all, DOMAIN bare, bare, DOMAIN bare, f)
      BY <2>5 DEF Alike
    <3> HIDE DEF f
    <3>3. Picked(all, DOMAIN bare) = Picked(bare, DOMAIN bare)
      BY <2>5, <3>1, <3>2, PickedAlike
    <3>4. Picked(bare, DOMAIN bare) = bare
      BY PickedAll
    <3> QED
      BY <2>8, <3>3, <3>4, JRiverOperators DEF J!Owned
  <2>10. J!Ours(all) = s
    <3> DEFINE P == DOMAIN all \ DOMAIN bare
               f == [n \in P |-> n - B]
    <3>1. P \in SUBSET DOMAIN all /\ DOMAIN s \in SUBSET DOMAIN s
      OBVIOUS
    <3>2. P = (B + 1)..(B + 3)
      BY <2>5
    <3>3. Alike(all, P, s, DOMAIN s, f)
      <4>1. f \in [P -> DOMAIN s]
        BY <2>7
      <4>2. \A i, k \in P : i < k => f[i] < f[k]
        BY <2>5, <3>2
      <4>3. \A k \in DOMAIN s : \E i \in P : f[i] = k
        <5> SUFFICES ASSUME NEW k \in DOMAIN s PROVE B + k \in P /\ f[B + k] = k
          OBVIOUS
        <5> QED
          BY <2>2, <2>5, <3>2
      <4>4. \A i \in P : all[i] = s[f[i]]
        BY <2>5, <2>7
      <4> HIDE DEF P, f
      <4> QED
        BY <4>1, <4>2, <4>3, <4>4 DEF Alike
    <3> HIDE DEF P, f
    <3>4. Picked(all, P) = Picked(s, DOMAIN s)
      BY <2>2, <2>5, <3>1, <3>3, PickedAlike
    <3>5. Picked(s, DOMAIN s) = s
      BY <2>2, PickedAll
    <3> QED
      BY <2>8, <3>4, <3>5, JRiverOperators DEF J!Ours, P
  <2> QED
    BY <2>3, <2>4, <2>5, <2>6, <2>9, <2>10
<1> QED
  BY <1>1, <1>2

-----------------------------------------------------------------------------
(* What the user does to a block.                                          *)

LEMMA Added ==
  ASSUME NEW fs \in Seq(J!Filter), Whole(fs), NEW o \in Own
  PROVE  LET more == Append(fs, [kind |-> "own", of |-> o])
         IN  more \in Seq(J!Filter) /\ Whole(more)
<1> DEFINE f == [kind |-> "own", of |-> o]
           more == Append(fs, f)
           one == <<f>>
<1>1. f \in J!Filter /\ f.kind = "own"
  BY DEF J!Filter
<1> HIDE DEF f
<1>2. /\ more \in Seq(J!Filter) /\ DOMAIN more = 1..(Len(fs) + 1)
      /\ DOMAIN fs = 1..Len(fs) /\ Len(fs) \in Nat
      /\ more[Len(fs) + 1] = f /\ \A n \in DOMAIN fs : more[n] = fs[n]
  BY <1>1
<1>3. more = fs \o one /\ one \in Seq(J!Filter)
  BY <1>1
<1>4. Owns(one)
  BY <1>1 DEF Owns
<1>5. Intact(fs) => Intact(more)
  <2> HIDE DEF more, one
  <2> QED
    BY <1>3, <1>4, OwnsIntact, IntactConcat
<1> HIDE DEF more
<1>6. \A k \in {"start", "end"} : J!Marks(more, k) = J!Marks(fs, k)
  <2> SUFFICES ASSUME NEW k \in {"start", "end"} PROVE J!Marks(more, k) = J!Marks(fs, k)
    OBVIOUS
  <2>1. \A n \in DOMAIN more : n \in DOMAIN fs \/ more[n].kind = "own"
    BY <1>1, <1>2
  <2>2. \A n \in DOMAIN fs : n \in DOMAIN more /\ more[n] = fs[n]
    BY <1>2
  <2> QED
    BY <2>1, <2>2 DEF J!Marks
<1>7. Even(more) <=> Even(fs)
  BY <1>6 DEF Even
<1> QED
  BY <1>2, <1>5, <1>7 DEF Whole, more, f

LEMMA TakenOut ==
  ASSUME NEW fs \in Seq(J!Filter), Whole(fs), NEW i \in J!Removable(fs)
  PROVE  LET less == J!RemoveAt(fs, i)
         IN  less \in Seq(J!Filter) /\ Whole(less)
<1> DEFINE less == Cut(fs, i, i)
           starts(s) == Cardinality(J!Marks(s, "start"))
           ends(s) == Cardinality(J!Marks(s, "end"))
<1>1. i \in DOMAIN fs /\ (Even(fs) \/ fs[i].kind = "own")
  BY JRiverOperators DEF J!Removable, J!Marks, Even
<1>2. J!RemoveAt(fs, i) = less
  BY RemoveAtIs DEF Cut
<1>3. DOMAIN fs \in SUBSET Nat /\ i \in Nat /\ i <= i /\ \A n \in DOMAIN fs : n \in i..i <=> n = i
  BY <1>1
<1>4. less \in Seq(J!Filter)
  BY <1>1, <1>3, CutFacts
<1>5. starts(fs) \in Nat /\ ends(fs) \in Nat
  BY MarksFinite
<1>6. \A k : IF fs[i].kind = k THEN J!Marks(fs, k) \cap (i..i) = {i} ELSE J!Marks(fs, k) \cap (i..i) = {}
  BY <1>1, <1>3 DEF J!Marks
<1>7. \A k : /\ fs[i].kind = k =>
                  Cardinality(J!Marks(less, k)) = Cardinality(J!Marks(fs, k)) - 1
             /\ fs[i].kind # k =>
                  Cardinality(J!Marks(less, k)) = Cardinality(J!Marks(fs, k))
  <2> SUFFICES ASSUME NEW k
               PROVE  /\ fs[i].kind = k =>
                            Cardinality(J!Marks(less, k)) = Cardinality(J!Marks(fs, k)) - 1
                      /\ fs[i].kind # k =>
                            Cardinality(J!Marks(less, k)) = Cardinality(J!Marks(fs, k))
    OBVIOUS
  <2>1. CASE fs[i].kind = k
    <3>1. J!Marks(fs, k) \cap (i..i) = {i}
      BY <1>6, <2>1
    <3> QED
      BY <1>1, <1>3, <2>1, <3>1, CutOne, Zenon
  <2>2. CASE fs[i].kind # k
    <3>1. J!Marks(fs, k) \cap (i..i) = {}
      BY <1>6, <2>2
    <3> QED
      BY <1>1, <1>3, <2>2, <3>1, CutNone, Zenon
  <2> QED
    BY <2>1, <2>2
<1>8. CASE fs[i].kind \in {"start", "end"}
  <2>1. starts(less) - ends(less) # 0
    <3>1. starts(fs) = ends(fs)
      BY <1>1, <1>8 DEF Even
    <3> HIDE DEF less
    <3>2. CASE fs[i].kind = "start"
      <4>1. starts(less) = starts(fs) - 1 /\ ends(less) = ends(fs)
        BY <1>7, <3>2
      <4> HIDE DEF starts, ends
      <4> QED
        BY <1>5, <3>1, <4>1
    <3>3. CASE fs[i].kind = "end"
      <4>1. starts(less) = starts(fs) /\ ends(less) = ends(fs) - 1
        BY <1>7, <3>3
      <4> HIDE DEF starts, ends
      <4> QED
        BY <1>5, <3>1, <4>1
    <3> QED
      BY <1>8, <3>2, <3>3
  <2>2. starts(less) \in Nat /\ ends(less) \in Nat
    BY <1>4, MarksFinite
  <2>3. ~Even(less)
    <3> HIDE DEF less
    <3> QED
      BY <2>1, <2>2 DEF Even
  <2> QED
    BY <1>2, <1>4, <2>3 DEF Whole
<1>9. CASE fs[i].kind \notin {"start", "end"}
  <2>1. Even(less) <=> Even(fs)
    BY <1>7, <1>9 DEF Even
  <2>2. ASSUME Intact(fs) PROVE Intact(less)
    <3>1. \A p, q \in DOMAIN fs : Encloses(fs, p, q) => (p \in i..i <=> q \in i..i)
      BY <1>3, <1>9 DEF Encloses
    <3> QED
      BY <1>1, <1>3, <2>2, <3>1, CutIntact
  <2> QED
    BY <1>2, <1>4, <2>1, <2>2 DEF Whole
<1> QED
  BY <1>8, <1>9

-----------------------------------------------------------------------------
(* The invariant.                                                          *)

\* The titles in the cache file, which a request for the state would show.
JRiverKept == IF file = None THEN [z \in Zones |-> J!Empty] ELSE file

\* The device's picture has them once the file was read, before the first call.
JRiverFollows ==
  /\ last = IF hydrated THEN JRiverKept ELSE [z \in Zones |-> J!Empty]
  /\ \A t \in Threads : pc[t] # "idle" => hydrated /\ op[t] \in J!Request

\* The block of a zone can be taken apart at the right places or not at all.
BlocksWhole == \A z \in Zones : Whole(block[z])

\* What a thread writes is some filters of the user and the section of its title:
\* all that the user has, if he did not touch the zone since it was read.
SentWhole ==
  \A t \in Threads : pc[t] \in {"post", "verify"} =>
    LET bare == J!Owned(sent[t])
    IN  /\ sent[t] = J!Appended(bare, op[t].title)
        /\ pc[t] = "post" /\ op[t].zone \notin overrun => bare = own[op[t].zone]

Verifies(z) == \E t \in Threads : pc[t] = "verify" /\ op[t].zone = z

\* What ezbeq has in a zone is what the title kept for it says, but while a
\* thread that has written has yet to read the block again.
JRiverExact ==
  \A z \in Zones \ doubt :
    JRiverKept[z] # J!ERROR /\ ~Verifies(z) => J!Ours(block[z]) = J!Appended(<<>>, JRiverKept[z])

JRiverInv ==
  /\ J!TypeOK /\ JRiverFollows /\ BlocksWhole /\ SentWhole /\ J!OthersKept /\ JRiverExact

LEMMA JRiverConstants ==
  /\ J!Constants /\ None \notin J!Picture /\ None \notin Seq(J!Filter)
  /\ J!Empty \in J!Titles /\ J!Empty # J!ERROR /\ J!ERROR \notin J!Titles
  /\ J!Empty \notin CatalogueEntries
  /\ {MaxCalls, MaxFaults, MaxEdits} \subseteq Nat
  /\ J!Picture = [Zones -> J!Titles \cup {J!ERROR}]
<1>1. J!Constants
  BY DevicesAssumption
<1>2. J!Empty # J!ERROR
  BY DEF J!Empty, J!ERROR
<1> QED
  BY <1>1, <1>2 DEF J!Constants, J!Titles, J!Picture

-----------------------------------------------------------------------------
(* The first states.                                                       *)

LEMMA FoundWhole ==
  ASSUME NEW fs \in J!Found
  PROVE  fs \in Seq(J!Filter) /\ Intact(fs)
<1>1. ASSUME NEW o \in Own PROVE J!Lone(o) \in Seq(J!Filter) /\ Intact(J!Lone(o))
  <2> DEFINE f == [kind |-> "own", of |-> o]
  <2>1. f \in J!Filter /\ f.kind = "own" /\ J!Lone(o) = <<f>>
    BY DEF J!Filter, J!Lone
  <2> HIDE DEF f
  <2>2. J!Lone(o) \in Seq(J!Filter) /\ Owns(J!Lone(o))
    BY <2>1 DEF Owns
  <2> QED
    BY <2>2, OwnsIntact
<1>2. \A e \in CatalogueEntries : J!Section(e) \in Seq(J!Filter) /\ Intact(J!Section(e))
  BY SectionFacts
<1>3. \A a, b \in Seq(J!Filter) : Intact(a) /\ Intact(b) => a \o b \in Seq(J!Filter) /\ Intact(a \o b)
  BY IntactConcat, ConcatFacts
<1>4. CASE fs = <<>>
  <2>1. fs \in Seq(J!Filter) /\ Owns(fs)
    BY <1>4 DEF Owns
  <2> QED
    BY <2>1, OwnsIntact
<1>5. CASE \E o \in Own, e \in CatalogueEntries : fs = J!Lone(o) \o J!Section(e)
  <2>1. PICK o \in Own, e \in CatalogueEntries : fs = J!Lone(o) \o J!Section(e)
    BY <1>5
  <2> QED
    BY <1>1, <1>2, <1>3, <2>1
<1>6. CASE \E o \in Own, e, d \in CatalogueEntries :
             fs = (J!Section(e) \o J!Lone(o)) \o J!Section(d)
  <2>1. PICK o \in Own, e \in CatalogueEntries, d \in CatalogueEntries :
          fs = (J!Section(e) \o J!Lone(o)) \o J!Section(d)
    BY <1>6
  <2>2. J!Section(e) \o J!Lone(o) \in Seq(J!Filter) /\ Intact(J!Section(e) \o J!Lone(o))
    BY <1>1, <1>2, <1>3
  <2> QED
    BY <1>2, <1>3, <2>1, <2>2
<1> QED
  BY <1>4, <1>5, <1>6 DEF J!Found

LEMMA JRiverStart == J!Init => JRiverInv
<1> SUFFICES ASSUME J!Init PROVE JRiverInv
  OBVIOUS
<1> USE JRiverConstants
<1>1. block \in [Zones -> J!Found]
  BY DEF J!Init
<1>2. \A z \in Zones : block[z] \in Seq(J!Filter) /\ Intact(block[z])
  BY <1>1, FoundWhole
<1>3. block \in [Zones -> Seq(J!Filter)]
  <2>1. block = [z \in Zones |-> block[z]]
    BY <1>1
  <2> QED
    BY <1>2, <2>1
<1>4. own \in [Zones -> Seq(J!Filter)]
  <2>1. own = [z \in Zones |-> J!Owned(block[z])]
    BY DEF J!Init
  <2>2. \A z \in Zones : J!Owned(block[z]) \in Seq(J!Filter)
    BY <1>2, OwnedFacts
  <2> QED
    BY <2>1, <2>2
<1>5. J!TypeOK
  <2>1. hydrated \in BOOLEAN /\ last \in J!Picture /\ file \in J!Picture \cup {None}
    BY DEF J!Init
  <2>2. /\ pc \in [Threads -> {"idle", "get", "post", "verify"}]
        /\ op \in [Threads -> J!Request \cup {None}]
        /\ sent \in [Threads -> Seq(J!Filter)]
    BY DEF J!Init
  <2>3. overrun \subseteq Zones /\ overlap \subseteq Zones /\ doubt \subseteq Zones
    BY DEF J!Init
  <2>4. {calls, faults, edits} \subseteq Nat
    BY DEF J!Init
  <2> QED
    BY <1>3, <1>4, <2>1, <2>2, <2>3, <2>4 DEF J!TypeOK
<1>6. BlocksWhole
  BY <1>2 DEF BlocksWhole, Whole
<1>7. JRiverFollows /\ SentWhole
  BY DEF J!Init, JRiverFollows, SentWhole
<1>8. J!OthersKept
  BY DEF J!Init, J!OthersKept
<1>9. JRiverExact
  <2> SUFFICES ASSUME NEW z \in Zones, z \notin doubt
               PROVE  J!Ours(block[z]) = J!Appended(<<>>, JRiverKept[z])
    BY DEF JRiverExact
  <2>1. JRiverKept[z] = J!Empty
    BY DEF J!Init, JRiverKept
  <2>2. J!Ours(block[z]) = <<>>
    BY DEF J!Init
  <2> QED
    BY <2>1, <2>2 DEF J!Appended
<1> QED
  BY <1>5, <1>6, <1>7, <1>8, <1>9 DEF JRiverInv

-----------------------------------------------------------------------------
(* The steps of a J River.                                                 *)

\* The request of a thread, and the block it reads and writes.
LEMMA AtWork ==
  ASSUME J!TypeOK, JRiverFollows, NEW t \in Threads, pc[t] # "idle"
  PROVE  /\ hydrated /\ last = JRiverKept
         /\ op[t] \in J!Request /\ op[t].zone \in Zones /\ op[t].title \in J!Titles
         /\ block[op[t].zone] \in Seq(J!Filter) /\ sent[t] \in Seq(J!Filter)
BY DEF J!TypeOK, JRiverFollows, J!Request

\* What is made of a block in Get.
LEMMA MadeFacts ==
  ASSUME NEW fs \in Seq(J!Filter), Whole(fs), J!Removed(fs) # None, NEW t \in J!Titles
  PROVE  LET made == J!Appended(J!Removed(fs), t)
         IN  /\ made \in Seq(J!Filter) /\ Intact(made)
             /\ J!Owned(made) = J!Owned(fs) /\ made = J!Appended(J!Owned(made), t)
<1>1. /\ J!Removed(fs) = J!Owned(fs) /\ Owns(J!Removed(fs)) /\ J!Removed(fs) \in Seq(J!Filter)
  BY JRiverConstants, RemovedFacts
<1>2. LET made == J!Appended(J!Removed(fs), t)
      IN  made \in Seq(J!Filter) /\ Intact(made) /\ J!Owned(made) = J!Removed(fs)
  BY <1>1, JRiverConstants, AppendedFacts
<1> QED
  BY <1>1, <1>2

LEMMA EndTypes ==
  ASSUME J!TypeOK, NEW t \in Threads, J!End(t), last' \in J!Picture
  PROVE  /\ file' \in J!Picture \cup {None}
         /\ pc' \in [Threads -> {"idle", "get", "post", "verify"}]
         /\ op' \in [Threads -> J!Request \cup {None}]
         /\ sent' \in [Threads -> Seq(J!Filter)]
<1>1. <<>> \in Seq(J!Filter)
  OBVIOUS
<1> QED
  BY <1>1 DEF J!TypeOK, J!End

LEMMA SucceedTypes ==
  ASSUME J!TypeOK, JRiverFollows, NEW t \in Threads, pc[t] # "idle", J!Succeed(t)
  PROVE  /\ last' \in J!Picture /\ doubt' \subseteq Zones
         /\ file' \in J!Picture \cup {None}
         /\ pc' \in [Threads -> {"idle", "get", "post", "verify"}]
         /\ op' \in [Threads -> J!Request \cup {None}]
         /\ sent' \in [Threads -> Seq(J!Filter)]
<1>1. op[t].zone \in Zones /\ op[t].title \in J!Titles
  BY AtWork
<1>2. last' \in J!Picture /\ doubt' \subseteq Zones
  BY <1>1, JRiverConstants DEF J!TypeOK, J!Succeed
<1> QED
  BY <1>2, EndTypes DEF J!Succeed

LEMMA FailTypes ==
  ASSUME J!TypeOK, JRiverFollows, NEW t \in Threads, pc[t] # "idle", J!Fail(t)
  PROVE  /\ last' \in J!Picture /\ doubt' \subseteq Zones
         /\ file' \in J!Picture \cup {None}
         /\ pc' \in [Threads -> {"idle", "get", "post", "verify"}]
         /\ op' \in [Threads -> J!Request \cup {None}]
         /\ sent' \in [Threads -> Seq(J!Filter)]
<1>1. op[t].zone \in Zones
  BY AtWork
<1>2. last' \in J!Picture /\ doubt' \subseteq Zones
  BY <1>1, JRiverConstants DEF J!TypeOK, J!Fail
<1> QED
  BY <1>2, EndTypes DEF J!Fail

LEMMA JRiverTypes ==
  J!TypeOK /\ JRiverFollows /\ BlocksWhole /\ J!Next => J!TypeOK'
<1> SUFFICES ASSUME J!TypeOK, JRiverFollows, BlocksWhole, J!Next PROVE J!TypeOK'
  OBVIOUS
<1>0. {calls, faults, edits} \subseteq Nat
  BY DEF J!TypeOK
<1>1. CASE J!State
  <2>1. last' \in J!Picture /\ hydrated' \in BOOLEAN
    BY <1>1 DEF J!State, J!Hydrate, J!TypeOK
  <2> QED
    BY <1>1, <2>1 DEF J!State, J!TypeOK, J!callVars, J!historyVars, J!bounds
<1>2. CASE J!Restart
  <2>1. last' \in J!Picture /\ hydrated' \in BOOLEAN
    BY <1>2, JRiverConstants DEF J!Restart
  <2>2. /\ pc' \in [Threads -> {"idle", "get", "post", "verify"}]
        /\ op' \in [Threads -> J!Request \cup {None}]
        /\ sent' \in [Threads -> Seq(J!Filter)]
    <3>1. <<>> \in Seq(J!Filter)
      OBVIOUS
    <3> QED
      BY <1>2, <3>1 DEF J!Restart
  <2>3. doubt' \subseteq Zones
    <3>1. \A t \in Threads : pc[t] = "verify" => op[t].zone \in Zones
      BY AtWork
    <3> QED
      BY <1>2, <3>1 DEF J!Restart, J!TypeOK
  <2>4. faults' \in Nat
    BY <1>0, <1>2 DEF J!Restart, J!Fault
  <2> QED
    BY <1>2, <2>1, <2>2, <2>3, <2>4 DEF J!Restart, J!TypeOK
<1>3. ASSUME NEW t \in Threads, J!Begin(t) PROVE J!TypeOK'
  <2>1. last' \in J!Picture /\ hydrated' \in BOOLEAN /\ calls' \in Nat
    BY <1>0, <1>3 DEF J!Begin, J!Hydrate, J!TypeOK
  <2>2. /\ pc' \in [Threads -> {"idle", "get", "post", "verify"}]
        /\ op' \in [Threads -> J!Request \cup {None}]
    BY <1>3 DEF J!Begin, J!TypeOK
  <2>3. overlap' \subseteq Zones
    BY <1>3 DEF J!Begin, J!TypeOK, J!Request
  <2> QED
    BY <1>3, <2>1, <2>2, <2>3 DEF J!Begin, J!TypeOK
<1>4. ASSUME NEW t \in Threads, J!Get(t) PROVE J!TypeOK'
  <2> DEFINE read == block[op[t].zone]
             bare == J!Removed(read)
  <2>1. /\ op[t].zone \in Zones /\ op[t].title \in J!Titles /\ pc[t] # "idle"
        /\ read \in Seq(J!Filter) /\ Whole(read)
    BY <1>4, AtWork DEF J!Get, BlocksWhole
  <2>2. faults' \in Nat
    BY <1>0, <1>4 DEF J!Get, J!Fault
  <2>3. UNCHANGED <<block, hydrated, own, overrun, overlap, calls, edits>>
    BY <1>4 DEF J!Get
  <2>4. CASE UNCHANGED <<last, doubt>> /\ J!End(t)
    <3>1. last' \in J!Picture /\ doubt' \subseteq Zones
      BY <2>4 DEF J!TypeOK
    <3> QED
      BY <2>2, <2>3, <3>1, <2>4, EndTypes DEF J!TypeOK
  <2>5. CASE J!Succeed(t)
    BY <2>1, <2>2, <2>3, <2>5, SucceedTypes DEF J!TypeOK
  <2>6. CASE /\ bare # None
             /\ sent' = [sent EXCEPT ![t] = J!Appended(bare, op[t].title)]
             /\ pc' = [pc EXCEPT ![t] = "post"]
             /\ UNCHANGED <<last, file, op, doubt, faults>>
    <3>1. J!Appended(bare, op[t].title) \in Seq(J!Filter)
      BY <2>1, <2>6, MadeFacts
    <3> HIDE DEF bare
    <3>2. /\ sent' \in [Threads -> Seq(J!Filter)]
          /\ pc' \in [Threads -> {"idle", "get", "post", "verify"}]
      BY <2>6, <3>1 DEF J!TypeOK
    <3> QED
      BY <2>2, <2>3, <2>6, <3>2 DEF J!TypeOK
  <2> QED
    BY <1>4, <2>4, <2>5, <2>6 DEF J!Get
<1>5. ASSUME NEW t \in Threads, J!Post(t) PROVE J!TypeOK'
  <2>1. op[t].zone \in Zones /\ pc[t] # "idle" /\ sent[t] \in Seq(J!Filter)
    BY <1>5, AtWork DEF J!Post
  <2>2. block' \in [Zones -> Seq(J!Filter)]
    BY <1>5, <2>1 DEF J!Post, J!TypeOK
  <2>3. faults' \in Nat
    BY <1>0, <1>5 DEF J!Post, J!Fault
  <2>4. UNCHANGED <<hydrated, own, overrun, overlap, calls, edits>>
    BY <1>5 DEF J!Post
  <2>5. CASE pc' = [pc EXCEPT ![t] = "verify"] /\ UNCHANGED <<last, file, op, sent, doubt>>
    <3>1. pc' \in [Threads -> {"idle", "get", "post", "verify"}]
      BY <2>5 DEF J!TypeOK
    <3> QED
      BY <2>2, <2>3, <2>4, <2>5, <3>1 DEF J!TypeOK
  <2>6. CASE J!Fail(t)
    BY <2>1, <2>2, <2>3, <2>4, <2>6, FailTypes DEF J!TypeOK
  <2> QED
    BY <1>5, <2>5, <2>6 DEF J!Post
<1>6. ASSUME NEW t \in Threads, J!Verify(t) PROVE J!TypeOK'
  <2>1. pc[t] # "idle"
    BY <1>6 DEF J!Verify
  <2>2. faults' \in Nat
    BY <1>0, <1>6 DEF J!Verify, J!Fault
  <2>3. UNCHANGED <<block, hydrated, own, overrun, overlap, calls, edits>>
    BY <1>6 DEF J!Verify
  <2>4. CASE J!Succeed(t)
    BY <2>1, <2>2, <2>3, <2>4, SucceedTypes DEF J!TypeOK
  <2>5. CASE J!Fail(t)
    BY <2>1, <2>2, <2>3, <2>5, FailTypes DEF J!TypeOK
  <2> QED
    BY <1>6, <2>4, <2>5 DEF J!Verify
<1>7. ASSUME NEW z \in Zones, J!Edit(z) PROVE J!TypeOK'
  <2>1. block[z] \in Seq(J!Filter) /\ Whole(block[z]) /\ block \in [Zones -> Seq(J!Filter)]
    BY DEF J!TypeOK, BlocksWhole
  <2>2. block' \in [Zones -> Seq(J!Filter)]
    <3>1. \E fs \in Seq(J!Filter) : block' = [block EXCEPT ![z] = fs]
      BY <1>7, <2>1, Added, TakenOut DEF J!Edit
    <3> QED
      BY <2>1, <3>1
  <2>3. J!Owned(block'[z]) \in Seq(J!Filter)
    BY <2>2, OwnedFacts
  <2>4. own' \in [Zones -> Seq(J!Filter)]
    BY <1>7, <2>3 DEF J!Edit, J!TypeOK
  <2>5. overrun' \subseteq Zones /\ doubt' \subseteq Zones /\ edits' \in Nat
    BY <1>0, <1>7 DEF J!Edit, J!TypeOK
  <2> QED
    BY <1>7, <2>2, <2>4, <2>5 DEF J!Edit, J!TypeOK, J!slotVars, J!callVars
<1> QED
  BY <1>1, <1>2, <1>3, <1>4, <1>5, <1>6, <1>7 DEF J!Next

\* What a thread is about to write.
LEMMA SentFacts ==
  ASSUME J!TypeOK, JRiverFollows, SentWhole, NEW t \in Threads, pc[t] \in {"post", "verify"}
  PROVE  /\ sent[t] \in Seq(J!Filter) /\ Intact(sent[t])
         /\ J!Ours(sent[t]) = J!Appended(<<>>, op[t].title)
         /\ pc[t] = "post" /\ op[t].zone \notin overrun => J!Owned(sent[t]) = own[op[t].zone]
<1> DEFINE bare == J!Owned(sent[t])
<1>1. sent[t] \in Seq(J!Filter) /\ op[t].title \in J!Titles
  BY AtWork
<1>2. /\ sent[t] = J!Appended(bare, op[t].title)
      /\ pc[t] = "post" /\ op[t].zone \notin overrun => bare = own[op[t].zone]
  BY DEF SentWhole
<1>3. bare \in Seq(J!Filter) /\ Owns(bare)
  BY <1>1, OwnedFacts
<1> HIDE DEF bare
<1>4. LET all == J!Appended(bare, op[t].title)
      IN  Intact(all) /\ J!Ours(all) = J!Appended(<<>>, op[t].title)
  BY <1>1, <1>3, JRiverConstants, AppendedFacts
<1> QED
  BY <1>1, <1>2, <1>4 DEF bare

LEMMA BlocksWholeStep ==
  J!TypeOK /\ JRiverFollows /\ BlocksWhole /\ SentWhole /\ J!Next => BlocksWhole'
<1> SUFFICES ASSUME J!TypeOK, JRiverFollows, BlocksWhole, SentWhole, J!Next PROVE BlocksWhole'
  OBVIOUS
<1>1. CASE UNCHANGED block
  BY <1>1 DEF BlocksWhole
<1>2. ASSUME NEW t \in Threads, pc[t] = "post", block' = [block EXCEPT ![op[t].zone] = sent[t]]
      PROVE  BlocksWhole'
  <2>1. Whole(sent[t])
    BY <1>2, SentFacts DEF Whole
  <2> QED
    BY <1>2, <2>1 DEF BlocksWhole, J!TypeOK
<1>3. ASSUME NEW z \in Zones, J!Edit(z) PROVE BlocksWhole'
  <2>1. block[z] \in Seq(J!Filter) /\ Whole(block[z]) /\ block \in [Zones -> Seq(J!Filter)]
    BY DEF J!TypeOK, BlocksWhole
  <2>2. \E fs : Whole(fs) /\ block' = [block EXCEPT ![z] = fs]
    BY <1>3, <2>1, Added, TakenOut DEF J!Edit
  <2> QED
    BY <2>1, <2>2 DEF BlocksWhole
<1> QED
  BY <1>1, <1>2, <1>3
     DEF J!Next, J!State, J!Restart, J!Begin, J!Get, J!Post, J!Verify

LEMMA JRiverFollowsStep == J!TypeOK /\ JRiverFollows /\ J!Next => JRiverFollows'
<1> SUFFICES ASSUME J!TypeOK, JRiverFollows, J!Next PROVE JRiverFollows'
  OBVIOUS
<1> USE JRiverConstants
<1>1. /\ last \in J!Picture /\ file \in J!Picture \cup {None}
      /\ pc \in [Threads -> {"idle", "get", "post", "verify"}]
      /\ op \in [Threads -> J!Request \cup {None}]
  BY DEF J!TypeOK
<1>2. ASSUME J!Hydrate, file' = file PROVE hydrated' /\ last' = JRiverKept'
  BY <1>2 DEF J!Hydrate, JRiverFollows, JRiverKept
<1>3. CASE J!State
  <2>1. UNCHANGED <<pc, op, file>> /\ J!Hydrate
    BY <1>3 DEF J!State, J!callVars
  <2> QED
    BY <1>2, <2>1 DEF JRiverFollows
<1>4. CASE J!Restart
  BY <1>4 DEF J!Restart, JRiverFollows
<1>5. ASSUME NEW t \in Threads, J!Begin(t) PROVE JRiverFollows'
  <2>1. PICK r \in J!Request : op' = [op EXCEPT ![t] = r]
    BY <1>5 DEF J!Begin
  <2>2. pc' = [pc EXCEPT ![t] = "get"] /\ J!Hydrate /\ file' = file
    BY <1>5 DEF J!Begin
  <2> QED
    BY <1>1, <1>2, <2>1, <2>2 DEF JRiverFollows
<1>6. ASSUME NEW t \in Threads, pc[t] # "idle", J!End(t), last' \in J!Picture, hydrated' = hydrated
      PROVE  JRiverFollows'
  <2>1. hydrated
    BY <1>6 DEF JRiverFollows
  <2>2. last' = JRiverKept'
    BY <1>6 DEF J!End, JRiverKept
  <2> QED
    BY <1>1, <1>6, <2>1, <2>2 DEF J!End, JRiverFollows
<1>7. ASSUME NEW t \in Threads, pc[t] # "idle", J!Succeed(t) \/ J!Fail(t), hydrated' = hydrated
      PROVE  JRiverFollows'
  <2>1. last' \in J!Picture
    BY <1>7, SucceedTypes, FailTypes
  <2> QED
    BY <1>6, <1>7, <2>1 DEF J!Succeed, J!Fail
<1>8. ASSUME NEW t \in Threads, NEW x \in {"post", "verify"}, pc[t] # "idle",
             pc' = [pc EXCEPT ![t] = x], UNCHANGED <<hydrated, last, file, op>>
      PROVE  JRiverFollows'
  <2>1. JRiverKept' = JRiverKept
    BY <1>8 DEF JRiverKept
  <2> QED
    BY <1>1, <1>8, <2>1 DEF JRiverFollows
<1>9. ASSUME NEW t \in Threads, J!Get(t) PROVE JRiverFollows'
  <2>1. pc[t] # "idle" /\ hydrated' = hydrated
    BY <1>9 DEF J!Get
  <2>2. \/ UNCHANGED last /\ J!End(t)
        \/ J!Succeed(t)
        \/ pc' = [pc EXCEPT ![t] = "post"] /\ UNCHANGED <<last, file, op>>
    BY <1>9 DEF J!Get
  <2> QED
    BY <1>1, <1>6, <1>7, <1>8, <2>1, <2>2
<1>10. ASSUME NEW t \in Threads, J!Post(t) PROVE JRiverFollows'
  <2>1. pc[t] # "idle" /\ hydrated' = hydrated
    BY <1>10 DEF J!Post
  <2>2. \/ J!Fail(t)
        \/ pc' = [pc EXCEPT ![t] = "verify"] /\ UNCHANGED <<last, file, op>>
    BY <1>10 DEF J!Post
  <2> QED
    BY <1>7, <1>8, <2>1, <2>2
<1>11. ASSUME NEW t \in Threads, J!Verify(t) PROVE JRiverFollows'
  BY <1>7, <1>11 DEF J!Verify
<1>12. ASSUME NEW z \in Zones, J!Edit(z) PROVE JRiverFollows'
  BY <1>12 DEF J!Edit, J!slotVars, J!callVars, JRiverFollows, JRiverKept
<1> QED
  BY <1>3, <1>4, <1>5, <1>9, <1>10, <1>11, <1>12 DEF J!Next

LEMMA SentWholeStep ==
  J!TypeOK /\ JRiverFollows /\ BlocksWhole /\ SentWhole /\ J!OthersKept /\ J!Next => SentWhole'
<1> SUFFICES ASSUME J!TypeOK, JRiverFollows, BlocksWhole, SentWhole, J!OthersKept, J!Next
             PROVE  SentWhole'
  OBVIOUS
<1> DEFINE IsSent(t) ==
             LET bare == J!Owned(sent[t])
             IN  /\ sent[t] = J!Appended(bare, op[t].title)
                 /\ pc[t] = "post" /\ op[t].zone \notin overrun => bare = own[op[t].zone]
           Writing(t) == pc[t] \in {"post", "verify"}
<1>1. \A t \in Threads : Writing(t) => IsSent(t)
  BY DEF SentWhole
<1>2. SUFFICES \A t \in Threads : Writing(t)' => IsSent(t)'
  BY DEF SentWhole
<1>3. /\ pc \in [Threads -> {"idle", "get", "post", "verify"}]
      /\ op \in [Threads -> J!Request \cup {None}] /\ sent \in [Threads -> Seq(J!Filter)]
  BY DEF J!TypeOK
<1>4. ASSUME NEW t \in Threads, Writing(t), pc'[t] \in {pc[t], "verify"},
             op'[t] = op[t], sent'[t] = sent[t], UNCHANGED <<overrun, own>>
      PROVE  IsSent(t)'
  BY <1>1, <1>4
<1>5. ASSUME NEW t \in Threads, J!End(t), UNCHANGED <<overrun, own>>, NEW u \in Threads, Writing(u)'
      PROVE  IsSent(u)'
  <2>1. u # t /\ pc'[u] = pc[u] /\ op'[u] = op[u] /\ sent'[u] = sent[u]
    BY <1>3, <1>5 DEF J!End
  <2> QED
    BY <1>4, <1>5, <2>1
<1>6. CASE J!State
  BY <1>4, <1>6 DEF J!State, J!callVars, J!historyVars
<1>7. CASE J!Restart
  BY <1>7 DEF J!Restart
<1>8. ASSUME NEW t \in Threads, J!Begin(t), NEW u \in Threads, Writing(u)' PROVE IsSent(u)'
  <2>1. PICK r \in J!Request : op' = [op EXCEPT ![t] = r]
    BY <1>8 DEF J!Begin
  <2>2. pc' = [pc EXCEPT ![t] = "get"] /\ UNCHANGED <<sent, overrun, own>>
    BY <1>8 DEF J!Begin
  <2>3. u # t /\ pc'[u] = pc[u] /\ op'[u] = op[u] /\ sent'[u] = sent[u]
    BY <1>3, <1>8, <2>1, <2>2
  <2> QED
    BY <1>4, <1>8, <2>2, <2>3
<1>9. ASSUME NEW t \in Threads, J!Get(t), NEW u \in Threads, Writing(u)' PROVE IsSent(u)'
  <2> DEFINE read == block[op[t].zone]
             bare == J!Removed(read)
  <2>1. /\ op[t].zone \in Zones /\ op[t].title \in J!Titles /\ pc[t] # "idle"
        /\ read \in Seq(J!Filter) /\ Whole(read)
    BY <1>9, AtWork DEF J!Get, BlocksWhole
  <2>2. UNCHANGED <<own, overrun>>
    BY <1>9 DEF J!Get
  <2>3. CASE J!End(t)
    BY <1>5, <1>9, <2>2, <2>3
  <2>4. CASE /\ bare # None
             /\ sent' = [sent EXCEPT ![t] = J!Appended(bare, op[t].title)]
             /\ pc' = [pc EXCEPT ![t] = "post"]
             /\ UNCHANGED <<last, file, op, doubt, faults>>
    <3>1. CASE u = t
      <4> DEFINE made == J!Appended(bare, op[t].title)
      <4>1. J!Owned(made) = J!Owned(read) /\ made = J!Appended(J!Owned(made), op[t].title)
        BY <2>1, <2>4, MadeFacts
      <4>2. op[t].zone \notin overrun => J!Owned(read) = own[op[t].zone]
        BY <2>1 DEF J!OthersKept
      <4>3. sent'[t] = made
        BY <1>3, <2>4
      <4> HIDE DEF made, bare, read
      <4> QED
        BY <2>2, <2>4, <3>1, <4>1, <4>2, <4>3
    <3>2. CASE u # t
      <4> HIDE DEF bare
      <4>1. pc'[u] = pc[u] /\ sent'[u] = sent[u] /\ op'[u] = op[u]
        BY <1>3, <2>4, <3>2
      <4> QED
        BY <1>4, <1>9, <2>2, <4>1
    <3> QED
      BY <3>1, <3>2
  <2> QED
    BY <1>9, <2>3, <2>4 DEF J!Get, J!Succeed
<1>10. ASSUME NEW t \in Threads, J!Post(t), NEW u \in Threads, Writing(u)' PROVE IsSent(u)'
  <2>1. pc[t] = "post" /\ UNCHANGED <<own, overrun>>
    BY <1>10 DEF J!Post
  <2>2. CASE J!Fail(t)
    BY <1>5, <1>10, <2>1, <2>2 DEF J!Fail
  <2>3. CASE pc' = [pc EXCEPT ![t] = "verify"] /\ UNCHANGED <<op, sent>>
    <3>1. pc'[u] \in {pc[u], "verify"} /\ Writing(u)
      BY <1>3, <1>10, <2>1, <2>3
    <3> QED
      BY <1>4, <2>1, <2>3, <3>1
  <2> QED
    BY <1>10, <2>2, <2>3 DEF J!Post
<1>11. ASSUME NEW t \in Threads, J!Verify(t), NEW u \in Threads, Writing(u)' PROVE IsSent(u)'
  <2>1. J!End(t) /\ UNCHANGED <<own, overrun>>
    BY <1>11 DEF J!Verify, J!Succeed, J!Fail
  <2> QED
    BY <1>5, <1>11, <2>1
<1>12. ASSUME NEW z \in Zones, J!Edit(z), NEW u \in Threads, Writing(u)' PROVE IsSent(u)'
  <2>1. /\ UNCHANGED <<pc, op, sent>>
        /\ own' = [own EXCEPT ![z] = J!Owned(block'[z])]
        /\ overrun' = IF \E t \in Threads : J!At(t, z) /\ pc[t] = "post"
                      THEN overrun \cup {z} ELSE overrun
    BY <1>12 DEF J!Edit, J!callVars
  <2>2. IsSent(u)
    BY <1>1, <1>12, <2>1
  <2>3. ASSUME pc[u] = "post", op[u].zone \notin overrun'
        PROVE  own'[op[u].zone] = own[op[u].zone] /\ op[u].zone \notin overrun
    <3>1. op[u].zone \in Zones
      BY <2>3, AtWork
    <3>2. op[u].zone # z
      BY <2>1, <2>3 DEF J!At
    <3> QED
      BY <2>1, <2>3, <3>1, <3>2 DEF J!TypeOK
  <2> QED
    BY <2>1, <2>2, <2>3
<1> QED
  BY <1>6, <1>7, <1>8, <1>9, <1>10, <1>11, <1>12 DEF J!Next

LEMMA OthersKeptStep ==
  J!TypeOK /\ JRiverFollows /\ SentWhole /\ J!OthersKept /\ J!Next => J!OthersKept'
<1> SUFFICES ASSUME J!TypeOK, JRiverFollows, SentWhole, J!OthersKept, J!Next
             PROVE  J!OthersKept'
  OBVIOUS
<1>1. CASE UNCHANGED <<block, own, overrun>>
  BY <1>1 DEF J!OthersKept
<1>2. ASSUME NEW t \in Threads, J!Post(t) PROVE J!OthersKept'
  <2>1. UNCHANGED <<own, overrun>> /\ pc[t] = "post"
    BY <1>2 DEF J!Post
  <2>2. CASE UNCHANGED block
    BY <1>1, <2>1, <2>2
  <2>3. CASE block' = [block EXCEPT ![op[t].zone] = sent[t]]
    <3>1. op[t].zone \in Zones
      BY <2>1, AtWork
    <3>2. op[t].zone \notin overrun => J!Owned(sent[t]) = own[op[t].zone]
      BY <2>1, SentFacts
    <3>3. \A y \in Zones : block'[y] = IF y = op[t].zone THEN sent[t] ELSE block[y]
      BY <2>3 DEF J!TypeOK
    <3> QED
      BY <2>1, <3>1, <3>2, <3>3 DEF J!OthersKept
  <2> QED
    BY <1>2, <2>2, <2>3 DEF J!Post
<1>3. ASSUME NEW z \in Zones, J!Edit(z) PROVE J!OthersKept'
  <2>1. own' = [own EXCEPT ![z] = J!Owned(block'[z])] /\ overrun \subseteq overrun'
    BY <1>3 DEF J!Edit
  <2>2. \A y \in Zones : y # z => block'[y] = block[y]
    BY <1>3 DEF J!Edit, J!TypeOK
  <2> QED
    BY <2>1, <2>2 DEF J!OthersKept, J!TypeOK
<1> QED
  BY <1>1, <1>2, <1>3
     DEF J!Next, J!State, J!Restart, J!Begin, J!Get, J!Verify, J!historyVars

-----------------------------------------------------------------------------
(* Titles and sections.                                                    *)

IsExact(z) ==
  JRiverKept[z] # J!ERROR /\ ~Verifies(z) => J!Ours(block[z]) = J!Appended(<<>>, JRiverKept[z])

\* What it takes for a zone to stay exact.
LEMMA StaysExact ==
  ASSUME JRiverExact, NEW z \in Zones, z \notin doubt,
         J!Ours(block'[z]) = J!Ours(block[z]), JRiverKept'[z] = JRiverKept[z],
         Verifies(z) => Verifies(z)'
  PROVE  IsExact(z)'
BY DEF JRiverExact, IsExact

\* The end of a call keeps the device's picture in the file.
LEMMA EndKeeps ==
  ASSUME J!TypeOK, JRiverFollows, NEW t \in Threads, pc[t] # "idle", J!End(t), last' \in J!Picture
  PROVE  /\ JRiverKept' = last' /\ JRiverKept = last
         /\ \A z \in Zones : Verifies(z) /\ ~(pc[t] = "verify" /\ op[t].zone = z) => Verifies(z)'
<1>1. JRiverKept' = last' /\ JRiverKept = last
  BY JRiverConstants, AtWork DEF J!End, JRiverKept
<1>2. ASSUME NEW u \in Threads, u # t PROVE pc'[u] = pc[u] /\ op'[u] = op[u]
  BY <1>2 DEF J!End, J!TypeOK
<1>3. ASSUME NEW z \in Zones, Verifies(z), ~(pc[t] = "verify" /\ op[t].zone = z)
      PROVE  Verifies(z)'
  BY <1>2, <1>3 DEF Verifies
<1> QED
  BY <1>1, <1>3

LEMMA SucceedExact ==
  ASSUME J!TypeOK, JRiverFollows, JRiverExact, NEW t \in Threads, pc[t] # "idle",
         J!Succeed(t), UNCHANGED block,
         J!Ours(block[op[t].zone]) = J!Appended(<<>>, op[t].title)
  PROVE  JRiverExact'
<1> SUFFICES ASSUME NEW z \in Zones, z \notin doubt' PROVE IsExact(z)'
  BY DEF JRiverExact, IsExact
<1>1. op[t].zone \in Zones /\ last \in [Zones -> J!Titles \cup {J!ERROR}]
  BY AtWork, JRiverConstants DEF J!TypeOK
<1>2. /\ JRiverKept' = last' /\ JRiverKept = last
      /\ Verifies(z) /\ ~(pc[t] = "verify" /\ op[t].zone = z) => Verifies(z)'
  BY SucceedTypes, EndKeeps DEF J!Succeed
<1>3. CASE z = op[t].zone
  <2>1. JRiverKept'[z] = op[t].title
    BY <1>1, <1>2, <1>3 DEF J!Succeed
  <2> QED
    BY <1>3, <2>1 DEF IsExact
<1>4. CASE z # op[t].zone
  <2>1. z \notin doubt
    BY <1>4 DEF J!Succeed
  <2>2. JRiverKept'[z] = JRiverKept[z]
    BY <1>1, <1>2, <1>4 DEF J!Succeed
  <2> QED
    BY <1>2, <1>4, <2>1, <2>2, StaysExact
<1> QED
  BY <1>3, <1>4

LEMMA FailExact ==
  ASSUME J!TypeOK, JRiverFollows, JRiverExact, NEW t \in Threads, pc[t] \in {"post", "verify"},
         J!Fail(t), block' \in {block, [block EXCEPT ![op[t].zone] = sent[t]]}
  PROVE  JRiverExact'
<1> SUFFICES ASSUME NEW z \in Zones, z \notin doubt' PROVE IsExact(z)'
  BY DEF JRiverExact, IsExact
<1>1. op[t].zone \in Zones /\ last \in [Zones -> J!Titles \cup {J!ERROR}]
  BY AtWork, JRiverConstants DEF J!TypeOK
<1>2. /\ JRiverKept' = last' /\ JRiverKept = last
      /\ Verifies(z) /\ ~(pc[t] = "verify" /\ op[t].zone = z) => Verifies(z)'
  BY FailTypes, EndKeeps DEF J!Fail
<1>3. z \notin doubt
  BY DEF J!Fail
<1>4. CASE z = op[t].zone /\ op[t].title = J!Empty
  <2>1. JRiverKept'[z] = J!ERROR
    BY <1>1, <1>2, <1>4 DEF J!Fail
  <2> QED
    BY <2>1 DEF IsExact
<1>5. CASE z = op[t].zone /\ op[t].title # J!Empty
  <2>1. pc[t] # "verify" /\ block' = block /\ last' = last
    BY <1>5 DEF J!Fail
  <2> QED
    BY <1>2, <1>3, <2>1, StaysExact
<1>6. CASE z # op[t].zone
  <2>1. block'[z] = block[z]
    BY <1>6 DEF J!TypeOK
  <2>2. JRiverKept'[z] = JRiverKept[z]
    BY <1>1, <1>2, <1>6 DEF J!Fail
  <2> QED
    BY <1>2, <1>3, <1>6, <2>1, <2>2, StaysExact
<1> QED
  BY <1>4, <1>5, <1>6

LEMMA JRiverExactStep ==
  /\ J!TypeOK /\ JRiverFollows /\ BlocksWhole /\ SentWhole /\ JRiverExact
  /\ J!Next
  => JRiverExact'
<1> SUFFICES ASSUME J!TypeOK, JRiverFollows, BlocksWhole, SentWhole, JRiverExact, J!Next
             PROVE  JRiverExact'
  OBVIOUS
<1>1. SUFFICES ASSUME ~JRiverExact' PROVE FALSE
  OBVIOUS
<1>2. PICK z \in Zones : z \notin doubt' /\ ~IsExact(z)'
  BY <1>1 DEF JRiverExact, IsExact
<1>3. pc \in [Threads -> {"idle", "get", "post", "verify"}]
  BY DEF J!TypeOK
<1>4. CASE J!State
  <2>1. JRiverKept' = JRiverKept /\ Verifies(z)' = Verifies(z) /\ UNCHANGED <<block, doubt>>
    BY <1>4 DEF J!State, J!callVars, J!historyVars, JRiverKept, Verifies
  <2> QED
    BY <1>2, <2>1, StaysExact
<1>5. CASE J!Restart
  <2>1. JRiverKept' = JRiverKept /\ UNCHANGED block
    BY <1>5 DEF J!Restart, JRiverKept
  <2>2. z \notin doubt /\ ~Verifies(z)
    BY <1>2, <1>5 DEF J!Restart, Verifies
  <2> QED
    BY <1>2, <2>1, <2>2, StaysExact
<1>6. ASSUME NEW t \in Threads, pc[t] # "verify",
             \A u \in Threads : u # t => pc'[u] = pc[u] /\ op'[u] = op[u]
      PROVE  Verifies(z) => Verifies(z)'
  BY <1>6 DEF Verifies
<1>7. ASSUME NEW t \in Threads, J!Begin(t) PROVE FALSE
  <2>1. PICK r \in J!Request : op' = [op EXCEPT ![t] = r]
    BY <1>7 DEF J!Begin
  <2>2. pc[t] # "verify" /\ pc' = [pc EXCEPT ![t] = "get"] /\ UNCHANGED <<block, file, doubt>>
    BY <1>7 DEF J!Begin
  <2>3. \A u \in Threads : u # t => pc'[u] = pc[u] /\ op'[u] = op[u]
    BY <2>1, <2>2 DEF J!TypeOK
  <2>4. JRiverKept' = JRiverKept
    BY <2>2 DEF JRiverKept
  <2> QED
    BY <1>2, <1>6, <2>2, <2>3, <2>4, StaysExact
<1>8. ASSUME NEW t \in Threads, J!Get(t) PROVE FALSE
  <2> DEFINE read == block[op[t].zone]
             bare == J!Removed(read)
  <2>1. /\ op[t].zone \in Zones /\ op[t].title \in J!Titles /\ pc[t] = "get"
        /\ read \in Seq(J!Filter) /\ Whole(read) /\ last \in J!Picture
    BY <1>8, AtWork DEF J!Get, BlocksWhole, J!TypeOK
  <2>2. UNCHANGED block
    BY <1>8 DEF J!Get
  <2>3. CASE UNCHANGED <<last, doubt>> /\ J!End(t)
    <3>1. JRiverKept' = JRiverKept /\ (Verifies(z) => Verifies(z)')
      BY <2>1, <2>3, EndKeeps
    <3> QED
      BY <1>2, <2>2, <2>3, <3>1, StaysExact
  <2>4. CASE bare = read /\ op[t].title = J!Empty /\ J!Succeed(t)
    <3>1. bare # None
      BY <2>1, <2>4, JRiverConstants
    <3>2. Owns(read)
      BY <2>1, <2>4, <3>1, RemovedFacts, JRiverConstants
    <3>3. J!Ours(read) = J!Appended(<<>>, op[t].title)
      BY <2>1, <2>4, <3>2, OwnsFacts DEF J!Appended
    <3> QED
      BY <1>1, <2>1, <2>2, <2>4, <3>3, SucceedExact
  <2>5. CASE pc' = [pc EXCEPT ![t] = "post"] /\ UNCHANGED <<file, op, doubt>>
    <3>1. \A u \in Threads : u # t => pc'[u] = pc[u] /\ op'[u] = op[u]
      BY <2>5 DEF J!TypeOK
    <3>2. JRiverKept' = JRiverKept
      BY <2>5 DEF JRiverKept
    <3> QED
      BY <1>2, <1>6, <2>1, <2>2, <2>5, <3>1, <3>2, StaysExact
  <2> QED
    BY <1>8, <2>3, <2>4, <2>5 DEF J!Get
<1>9. ASSUME NEW t \in Threads, J!Post(t) PROVE FALSE
  <2>1. pc[t] = "post" /\ op[t].zone \in Zones
    BY <1>9, AtWork DEF J!Post
  <2>2. CASE /\ block' = [block EXCEPT ![op[t].zone] = sent[t]]
             /\ pc' = [pc EXCEPT ![t] = "verify"] /\ UNCHANGED <<file, op, doubt>>
    <3>1. z = op[t].zone => Verifies(z)'
      BY <1>3, <2>2 DEF Verifies
    <3>2. z # op[t].zone
      BY <1>2, <3>1 DEF IsExact
    <3>3. block'[z] = block[z]
      BY <2>2, <3>2 DEF J!TypeOK
    <3>4. JRiverKept' = JRiverKept
      BY <2>2 DEF JRiverKept
    <3>5. \A u \in Threads : u # t => pc'[u] = pc[u] /\ op'[u] = op[u]
      BY <2>2 DEF J!TypeOK
    <3> QED
      BY <1>2, <1>6, <2>1, <2>2, <3>3, <3>4, <3>5, StaysExact
  <2>3. CASE J!Fail(t) /\ block' \in {block, [block EXCEPT ![op[t].zone] = sent[t]]}
    BY <1>1, <2>1, <2>3, FailExact
  <2> QED
    BY <1>9, <2>2, <2>3 DEF J!Post
<1>10. ASSUME NEW t \in Threads, J!Verify(t) PROVE FALSE
  <2>1. pc[t] = "verify" /\ UNCHANGED block
    BY <1>10 DEF J!Verify
  <2>2. CASE block[op[t].zone] = sent[t] /\ J!Succeed(t)
    <3>1. J!Ours(block[op[t].zone]) = J!Appended(<<>>, op[t].title)
      BY <2>1, <2>2, SentFacts
    <3> QED
      BY <1>1, <2>1, <2>2, <3>1, SucceedExact
  <2>3. CASE J!Fail(t)
    BY <1>1, <2>1, <2>3, FailExact
  <2> QED
    BY <1>10, <2>2, <2>3 DEF J!Verify
<1>11. ASSUME NEW y \in Zones, J!Edit(y) PROVE FALSE
  <2>1. UNCHANGED <<file, pc, op>>
    BY <1>11 DEF J!Edit, J!slotVars, J!callVars
  <2>2. JRiverKept' = JRiverKept /\ Verifies(z)' = Verifies(z)
    BY <2>1 DEF JRiverKept, Verifies
  <2>3. z \notin doubt /\ J!Ours(block'[z]) = J!Ours(block[z])
    <3>1. CASE z = y
      BY <1>2, <1>11, <3>1 DEF J!Edit
    <3>2. CASE z # y
      <4>1. block'[z] = block[z]
        BY <1>11, <3>2 DEF J!Edit, J!TypeOK
      <4> QED
        BY <1>2, <1>11, <4>1 DEF J!Edit
    <3> QED
      BY <3>1, <3>2
  <2> QED
    BY <1>2, <2>2, <2>3, StaysExact
<1> QED
  BY <1>4, <1>5, <1>7, <1>8, <1>9, <1>10, <1>11 DEF J!Next

LEMMA JRiverStays == JRiverInv /\ J!Next => JRiverInv'
<1> SUFFICES ASSUME J!TypeOK, JRiverFollows, BlocksWhole, SentWhole, J!OthersKept, JRiverExact,
                    J!Next
             PROVE  JRiverInv'
  BY DEF JRiverInv
<1>1. J!TypeOK' /\ JRiverFollows' /\ BlocksWhole'
  BY JRiverTypes, JRiverFollowsStep, BlocksWholeStep
<1>2. SentWhole' /\ J!OthersKept' /\ JRiverExact'
  BY SentWholeStep, OthersKeptStep, JRiverExactStep
<1> QED
  BY <1>1, <1>2 DEF JRiverInv

LEMMA JRiverSame == JRiverInv /\ UNCHANGED J!vars => JRiverInv'
<1> SUFFICES ASSUME JRiverInv, UNCHANGED J!vars PROVE JRiverInv'
  OBVIOUS
<1>1. UNCHANGED <<block, hydrated, last, file, pc, op, sent, own, overrun, overlap, doubt,
                  calls, faults, edits>>
  BY DEF J!vars, J!slotVars, J!callVars, J!historyVars, J!bounds
<1>2. J!TypeOK' /\ JRiverFollows' /\ BlocksWhole'
  BY <1>1 DEF JRiverInv, J!TypeOK, JRiverFollows, JRiverKept, BlocksWhole
<1>3. SentWhole' /\ J!OthersKept' /\ JRiverExact'
  BY <1>1 DEF JRiverInv, SentWhole, J!OthersKept, JRiverExact, JRiverKept, Verifies
<1> QED
  BY <1>2, <1>3 DEF JRiverInv

LEMMA JRiverMeans == JRiverInv => J!OthersKept /\ J!TitleMeansLoaded
<1> SUFFICES ASSUME JRiverInv, NEW z \in Zones, z \notin doubt, hydrated, last[z] # J!ERROR,
                    \A t \in Threads : ~J!At(t, z)
             PROVE  J!Ours(block[z]) = J!Appended(<<>>, last[z])
  BY DEF JRiverInv, J!TitleMeansLoaded
<1>1. ~Verifies(z)
  BY DEF J!At, Verifies
<1>2. last = JRiverKept
  BY DEF JRiverInv, JRiverFollows
<1> QED
  BY <1>1, <1>2 DEF JRiverInv, JRiverExact

-----------------------------------------------------------------------------
(* Commands: lists and sets.                                               *)

LEMMA FunctionAsList ==
  ASSUME NEW S, NEW n \in Nat, NEW f \in [1..n -> S]
  PROVE  f \in Seq(S) /\ Len(f) = n /\ DOMAIN f = 1..n
OBVIOUS

LEMMA ListOfMore ==
  ASSUME NEW S, NEW T, S \subseteq T, NEW s \in Seq(S)
  PROVE  s \in Seq(T) /\ DOMAIN s = 1..Len(s) /\ Len(s) \in Nat /\ \A i \in DOMAIN s : s[i] \in S
OBVIOUS

LEMMA PlacesFinite ==
  ASSUME NEW S, NEW s \in Seq(S)
  PROVE  IsFiniteSet(1..Len(s))
<1>1. 0 \in Int /\ 1 \in Int /\ Len(s) \in Int
  OBVIOUS
<1> QED
  BY <1>1, FS_Interval

\* The instance's operators are those of the theorems about them.
LEMMA CommandOperators ==
  /\ \A S : M!Cardinality(S) = Cardinality(S)
  /\ \A S : M!Min(S) = Min(S) /\ M!Max(S) = Max(S)
  /\ \A s : M!FlattenSeq(s) = FlattenSeq(s)
  /\ \A s, e : M!Contains(s, e) <=> \E i \in 1..Len(s) : s[i] = e
  /\ \A f : M!Range(f) = {f[x] : x \in DOMAIN f}
  /\ \A f : M!IsInjective(f) <=> \A a, b \in DOMAIN f : f[a] = f[b] => a = b
<1>1. \A S : M!Cardinality(S) = Cardinality(S)
  BY DEF M!Cardinality, Cardinality
<1>2. \A S : M!Min(S) = Min(S) /\ M!Max(S) = Max(S)
  BY DEF M!Min, M!Max, Min, Max
<1>3. \A s : M!FlattenSeq(s) = FlattenSeq(s)
  BY DEF M!FlattenSeq, FlattenSeq
<1>4. \A s, e : M!Contains(s, e) <=> \E i \in 1..Len(s) : s[i] = e
  BY DEF M!Contains
<1>5. \A f : M!Range(f) = {f[x] : x \in DOMAIN f}
  BY DEF M!Range
<1>6. \A f : M!IsInjective(f) <=> \A a, b \in DOMAIN f : f[a] = f[b] => a = b
  BY DEF M!IsInjective
<1> QED
  BY <1>1, <1>2, <1>3, <1>4, <1>5, <1>6

\* What lists that are put together have in them.
LEMMA FlattenElements ==
  ASSUME NEW S, NEW ss \in Seq(Seq(S))
  PROVE  LET f == M!FlattenSeq(ss)
         IN  /\ f \in Seq(S)
             /\ \A k \in DOMAIN f : \E i \in DOMAIN ss : \E j \in DOMAIN ss[i] : f[k] = ss[i][j]
             /\ \A i \in DOMAIN ss : \A j \in DOMAIN ss[i] : \E k \in DOMAIN f : f[k] = ss[i][j]
<1> DEFINE f == M!FlattenSeq(ss)
           n == Len(ss)
<1>1. DOMAIN ss = 1..n
  OBVIOUS
<1>2. f = FlattenSeq(ss)
  BY CommandOperators
<1>3. f \in Seq(S) /\ \E row, col : Laid(f, ss, n, row, col)
  BY <1>2, FlattenPlaces
<1> HIDE DEF f, n
<1>4. PICK row, col : Laid(f, ss, n, row, col)
  BY <1>3
<1>5. ASSUME NEW k \in DOMAIN f
      PROVE  \E i \in DOMAIN ss : \E j \in DOMAIN ss[i] : f[k] = ss[i][j]
  BY <1>1, <1>4 DEF Laid
<1>6. ASSUME NEW i \in DOMAIN ss, NEW j \in DOMAIN ss[i]
      PROVE  \E k \in DOMAIN f : f[k] = ss[i][j]
  <2>1. PICK k \in DOMAIN f : row[k] = i /\ col[k] = j
    BY <1>1, <1>4 DEF Laid
  <2>2. f[k] = ss[row[k]][col[k]]
    BY <1>4 DEF Laid
  <2> QED
    BY <2>1, <2>2
<1> QED
  BY <1>3, <1>5, <1>6 DEF f

-----------------------------------------------------------------------------
(* Commands, and what they leave in the biquads.                           *)

\* The address of a biquad; a command to one; what one holds.
Addressed == [side : {"input", "output"}, channel : Int, bank : Int, idx : Int]
Command ==
  [op : {"set"}, at : Addressed, arg : Nat] \cup [op : {"bypass"}, at : Addressed, arg : {0, 1}]
Held == [filter : Nat, bypass : {0, 1}]
Holding(D) == [D -> Held]

LEMMA CommandTypes ==
  /\ \A a \in Addressed, v \in Nat :
       /\ M!Set(a, v) \in Command
       /\ M!Set(a, v).op = "set" /\ M!Set(a, v).at = a /\ M!Set(a, v).arg = v
  /\ \A a \in Addressed, v \in {0, 1} :
       /\ M!Bypass(a, v) \in Command
       /\ M!Bypass(a, v).op = "bypass" /\ M!Bypass(a, v).at = a /\ M!Bypass(a, v).arg = v
  /\ M!On = 1 /\ M!Off = 0 /\ M!INPUT = "input" /\ M!OUTPUT = "output"
  /\ M!CROSSOVER = "crossover" /\ M!Peq = -1
BY DEF M!Set, M!Bypass, Command, M!On, M!Off, M!INPUT, M!OUTPUT, M!CROSSOVER, M!Peq

\* The last command to a biquad counts, and it keeps what no command is for.
LEMMA RunFacts ==
  ASSUME NEW cs \in Seq(Command), NEW D, NEW before \in Holding(D)
  PROVE  LET after == M!Run(cs, before)
             for(i, a, verb) == cs[i].at = a /\ cs[i].op = verb
         IN  /\ after \in Holding(D)
             /\ \A a \in D :
                  /\ \/ /\ \A i \in DOMAIN cs : ~for(i, a, "set")
                        /\ after[a].filter = before[a].filter
                     \/ \E i \in DOMAIN cs : for(i, a, "set") /\ after[a].filter = cs[i].arg
                  /\ \/ /\ \A i \in DOMAIN cs : ~for(i, a, "bypass")
                        /\ after[a].bypass = before[a].bypass
                     \/ \E i \in DOMAIN cs : for(i, a, "bypass") /\ after[a].bypass = cs[i].arg
<1> DEFINE after == M!Run(cs, before)
           To(a, verb) == {i \in DOMAIN cs : cs[i].at = a /\ cs[i].op = verb}
           latest(a, verb, old) == IF To(a, verb) = {} THEN old ELSE cs[M!Max(To(a, verb))].arg
           touched == {cs[i].at : i \in DOMAIN cs}
<1>0. DOMAIN before = D /\ \A a \in D : before[a] \in Held
  BY DEF Holding
<1>1. after = [a \in DOMAIN before |->
                 IF a \notin touched THEN before[a]
                 ELSE [filter |-> latest(a, "set", before[a].filter),
                       bypass |-> latest(a, "bypass", before[a].bypass)]]
  BY DEF M!Run
<1>2. DOMAIN cs = 1..Len(cs) /\ Len(cs) \in Nat
  OBVIOUS
<1>3. ASSUME NEW a, NEW verb, To(a, verb) # {}
      PROVE  M!Max(To(a, verb)) \in To(a, verb)
  <2>1. IsFiniteSet(1..Len(cs)) /\ To(a, verb) \in SUBSET (1..Len(cs))
    <3>1. To(a, verb) \in SUBSET (1..Len(cs))
      BY <1>2
    <3>2. IsFiniteSet(1..Len(cs))
      BY PlacesFinite
    <3> HIDE DEF To
    <3> QED
      BY <3>1, <3>2
  <2>2. IsFiniteSet(To(a, verb)) /\ To(a, verb) \in SUBSET Nat
    <3> HIDE DEF To
    <3> QED
      BY <1>2, <2>1, FS_Subset
  <2> HIDE DEF To
  <2> QED
    BY <1>3, <2>2, MaxIsGreatest, CommandOperators
<1>4. ASSUME NEW a, NEW verb, NEW old
      PROVE  IF To(a, verb) = {} THEN latest(a, verb, old) = old
             ELSE \E i \in To(a, verb) : latest(a, verb, old) = cs[i].arg
  <2>1. To(a, verb) = {} => latest(a, verb, old) = old
    OBVIOUS
  <2>2. To(a, verb) # {} => latest(a, verb, old) = cs[M!Max(To(a, verb))].arg
    OBVIOUS
  <2> HIDE DEF To, latest
  <2> QED
    BY <1>3, <2>1, <2>2
<1>5. ASSUME NEW i \in DOMAIN cs
      PROVE  /\ cs[i].op = "set" => cs[i].arg \in Nat
             /\ cs[i].op = "bypass" => cs[i].arg \in {0, 1}
  <2>1. cs[i] \in Command
    OBVIOUS
  <2> QED
    BY <2>1 DEF Command
<1> HIDE DEF latest
<1>6. ASSUME NEW a \in DOMAIN before
      PROVE  /\ after[a] \in Held
             /\ IF To(a, "set") = {} THEN after[a].filter = before[a].filter
                ELSE \E i \in To(a, "set") : after[a].filter = cs[i].arg
             /\ IF To(a, "bypass") = {} THEN after[a].bypass = before[a].bypass
                ELSE \E i \in To(a, "bypass") : after[a].bypass = cs[i].arg
  <2>1. before[a] \in Held
    BY <1>0
  <2>2. CASE a \notin touched
    <3>1. after[a] = before[a]
      BY <1>1, <2>2
    <3>2. To(a, "set") = {} /\ To(a, "bypass") = {}
      BY <2>2
    <3> QED
      BY <2>1, <3>1, <3>2
  <2>3. CASE a \in touched
    <3>1. after[a] = [filter |-> latest(a, "set", before[a].filter),
                      bypass |-> latest(a, "bypass", before[a].bypass)]
      BY <1>1, <2>3
    <3>2. before[a].filter \in Nat /\ before[a].bypass \in {0, 1}
      BY <2>1 DEF Held
    <3>3. latest(a, "set", before[a].filter) \in Nat
      BY <1>4, <1>5, <3>2
    <3>4. latest(a, "bypass", before[a].bypass) \in {0, 1}
      BY <1>4, <1>5, <3>2
    <3>5. after[a] \in Held
      BY <3>1, <3>3, <3>4 DEF Held
    <3>6. /\ after[a].filter = latest(a, "set", before[a].filter)
          /\ after[a].bypass = latest(a, "bypass", before[a].bypass)
      BY <3>1
    <3> HIDE DEF To
    <3> QED
      BY <1>4, <3>5, <3>6
  <2> QED
    BY <2>2, <2>3
<1>7. after \in Holding(D)
  <2> HIDE DEF To
  <2> QED
    BY <1>0, <1>1, <1>6 DEF Holding
<1>8. \A a, verb : To(a, verb) = {} => \A i \in DOMAIN cs : ~(cs[i].at = a /\ cs[i].op = verb)
  OBVIOUS
<1>9. \A a, verb : \A i \in To(a, verb) : i \in DOMAIN cs /\ cs[i].at = a /\ cs[i].op = verb
  OBVIOUS
<1> HIDE DEF To, after
<1>10. ASSUME NEW a \in D
       PROVE  /\ \/ /\ \A i \in DOMAIN cs : ~(cs[i].at = a /\ cs[i].op = "set")
                    /\ after[a].filter = before[a].filter
                 \/ \E i \in DOMAIN cs : /\ cs[i].at = a /\ cs[i].op = "set"
                                         /\ after[a].filter = cs[i].arg
              /\ \/ /\ \A i \in DOMAIN cs : ~(cs[i].at = a /\ cs[i].op = "bypass")
                    /\ after[a].bypass = before[a].bypass
                 \/ \E i \in DOMAIN cs : /\ cs[i].at = a /\ cs[i].op = "bypass"
                                         /\ after[a].bypass = cs[i].arg
  <2>1. \/ /\ \A i \in DOMAIN cs : ~(cs[i].at = a /\ cs[i].op = "set")
           /\ after[a].filter = before[a].filter
        \/ \E i \in DOMAIN cs : /\ cs[i].at = a /\ cs[i].op = "set"
                                /\ after[a].filter = cs[i].arg
    <3>1. CASE To(a, "set") = {}
      BY <1>0, <1>6, <1>8, <3>1
    <3>2. CASE To(a, "set") # {}
      <4>1. PICK i \in To(a, "set") : after[a].filter = cs[i].arg
        BY <1>0, <1>6, <3>2
      <4> QED
        BY <1>9, <4>1
    <3> QED
      BY <3>1, <3>2
  <2>2. \/ /\ \A i \in DOMAIN cs : ~(cs[i].at = a /\ cs[i].op = "bypass")
           /\ after[a].bypass = before[a].bypass
        \/ \E i \in DOMAIN cs : /\ cs[i].at = a /\ cs[i].op = "bypass"
                                /\ after[a].bypass = cs[i].arg
    <3>1. CASE To(a, "bypass") = {}
      BY <1>0, <1>6, <1>8, <3>1
    <3>2. CASE To(a, "bypass") # {}
      <4>1. PICK i \in To(a, "bypass") : after[a].bypass = cs[i].arg
        BY <1>0, <1>6, <3>2
      <4> QED
        BY <1>9, <4>1
    <3> QED
      BY <3>1, <3>2
  <2> QED
    BY <2>1, <2>2
<1> QED
  BY <1>7, <1>10 DEF after
-----------------------------------------------------------------------------
(* Slots.                                                                  *)

\* A route that is fit for BEQ.
Fit(r) ==
  /\ r.name \in {"input", "output", "crossover"} /\ r.biquads \in 0..10
  /\ r.name = "crossover" <=> r.groups # <<>>
  /\ r.channels \in Seq(0..11)
  /\ r.slots \in Seq(0..(r.biquads - 1)) /\ M!IsInjective(r.slots)
  /\ r.groups \in Seq(Nat) /\ M!IsInjective(r.groups)

\* What an allocator hands out.
Slots == [side : {"input", "output"}, bank : Int, idx : Int, channels : Seq(0..11)]

SlotAt(r, bank, idx) ==
  [side |-> M!Side(r), bank |-> bank, idx |-> idx, channels |-> r.channels]

LEMMA GroupsFacts ==
  ASSUME NEW r, Fit(r)
  PROVE  /\ M!Groups(r) \in Seq(Int)
         /\ \A i, j \in DOMAIN M!Groups(r) : M!Groups(r)[i] = M!Groups(r)[j] => i = j
         /\ \A i \in DOMAIN M!Groups(r) : M!Groups(r)[i] \in M!Banks(r)
         /\ \A b \in M!Banks(r) : \E i \in DOMAIN M!Groups(r) : M!Groups(r)[i] = b
         /\ r.name = "crossover" => M!Banks(r) \in SUBSET Nat
         /\ r.name # "crossover" => M!Banks(r) = {-1}
         /\ \A b \in M!Banks(r) : \A idx : M!Slot(r, idx, b) = SlotAt(r, b, idx)
         /\ M!Side(r) = IF r.name = "input" THEN "input" ELSE "output"
<1> USE CommandTypes
<1>1. CASE r.name = "crossover"
  <2>1. M!Groups(r) = r.groups /\ r.groups \in Seq(Nat)
    BY <1>1 DEF Fit, M!Groups
  <2>2. M!Banks(r) = {r.groups[x] : x \in DOMAIN r.groups}
    BY <1>1, CommandOperators DEF Fit, M!Banks
  <2>3. r.groups \in Seq(Int) /\ \A x \in DOMAIN r.groups : r.groups[x] \in Nat
    BY <2>1
  <2>4. \A i, j \in DOMAIN r.groups : r.groups[i] = r.groups[j] => i = j
    BY CommandOperators DEF Fit
  <2>5. \A b, idx : M!Slot(r, idx, b) = SlotAt(r, b, idx)
    BY <1>1 DEF M!Slot, SlotAt, M!Side
  <2>6. M!Side(r) = "output"
    BY <1>1 DEF M!Side
  <2> QED
    BY <1>1, <2>1, <2>2, <2>3, <2>4, <2>5, <2>6
<1>2. CASE r.name # "crossover"
  <2>1. M!Groups(r) = <<-1>> /\ M!Banks(r) = {-1}
    BY <1>2 DEF Fit, M!Groups, M!Banks
  <2>2. <<-1>> \in Seq(Int) /\ DOMAIN <<-1>> = {1} /\ <<-1>>[1] = -1
    OBVIOUS
  <2>3. \A idx : M!Slot(r, idx, -1) = SlotAt(r, -1, idx)
    BY <1>2 DEF M!Slot, SlotAt, M!Side
  <2>4. M!Side(r) = IF r.name = "input" THEN "input" ELSE "output"
    BY <1>2 DEF M!Side, Fit
  <2> QED
    BY <1>2, <2>1, <2>2, <2>3, <2>4
<1> QED
  BY <1>1, <1>2

LEMMA SlotsOfFacts ==
  ASSUME NEW r, Fit(r), M!TakesBeq(r)
  PROVE  LET s == M!SlotsOf(r)
             Idx == M!Range(r.slots)
         IN  /\ s \in Seq(Slots)
             /\ \A p \in DOMAIN s : \E b \in M!Banks(r), i \in Idx : s[p] = SlotAt(r, b, i)
             /\ \A b \in M!Banks(r), i \in Idx : \E p \in DOMAIN s : s[p] = SlotAt(r, b, i)
             /\ \A p, q \in DOMAIN s : s[p] = s[q] => p = q
<1> DEFINE s == M!SlotsOf(r)
           Idx == M!Range(r.slots)
           g == M!Groups(r)
           line(i) == [j \in DOMAIN g |-> M!Slot(r, r.slots[i], g[j])]
           ss == [i \in DOMAIN r.slots |-> line(i)]
<1>1. s = M!FlattenSeq(ss)
  BY DEF M!SlotsOf
<1>2. /\ r.slots \in Seq(Nat) /\ DOMAIN r.slots = 1..Len(r.slots) /\ Len(r.slots) \in Nat
      /\ \A i, j \in DOMAIN r.slots : r.slots[i] = r.slots[j] => i = j
      /\ \A i \in DOMAIN r.slots : r.slots[i] \in Nat
  <2>1. r.slots \in Seq(0..(r.biquads - 1))
    BY DEF Fit
  <2>2. r.slots \in Seq(Nat)
    <3> DEFINE T == 0..(r.biquads - 1)
    <3>1. T \subseteq Nat /\ r.slots \in Seq(T)
      BY <2>1
    <3> HIDE DEF T
    <3> QED
      BY <3>1, ListOfMore
  <2>3. \A i, j \in DOMAIN r.slots : r.slots[i] = r.slots[j] => i = j
    BY CommandOperators DEF Fit
  <2> QED
    BY <2>2, <2>3
<1>3. /\ g \in Seq(Int) /\ DOMAIN g = 1..Len(g) /\ Len(g) \in Nat
      /\ \A i, j \in DOMAIN g : g[i] = g[j] => i = j
      /\ \A i \in DOMAIN g : g[i] \in M!Banks(r) /\ g[i] \in Int
      /\ \A b \in M!Banks(r) : \E i \in DOMAIN g : g[i] = b
  BY GroupsFacts
<1>4. ASSUME NEW i \in DOMAIN r.slots, NEW j \in DOMAIN g
      PROVE  ss[i][j] = SlotAt(r, g[j], r.slots[i]) /\ ss[i][j] \in Slots
  <2>1. ss[i][j] = M!Slot(r, r.slots[i], g[j])
    OBVIOUS
  <2>2. g[j] \in M!Banks(r) /\ g[j] \in Int /\ r.slots[i] \in Int
    BY <1>2, <1>3
  <2> HIDE DEF ss
  <2>3. ss[i][j] = SlotAt(r, g[j], r.slots[i])
    BY <2>1, <2>2, GroupsFacts
  <2>4. SlotAt(r, g[j], r.slots[i]) \in Slots
    <3>1. M!Side(r) \in {"input", "output"} /\ r.channels \in Seq(0..11)
      BY GroupsFacts DEF Fit
    <3> QED
      BY <2>2, <3>1 DEF Slots, SlotAt
  <2> QED
    BY <2>3, <2>4
<1>5. \A i \in DOMAIN r.slots : DOMAIN ss[i] = DOMAIN g /\ ss[i] = [j \in DOMAIN g |-> ss[i][j]]
  OBVIOUS
<1>6. ss \in [1..Len(r.slots) -> Seq(Slots)]
  <2>1. DOMAIN ss = 1..Len(r.slots) /\ ss = [i \in 1..Len(r.slots) |-> ss[i]]
    BY <1>2
  <2> HIDE DEF ss, g
  <2>2. ASSUME NEW i \in 1..Len(r.slots)
        PROVE  ss[i] \in Seq(Slots)
    <3>1. i \in DOMAIN r.slots
      BY <1>2
    <3>2. ss[i] = [j \in DOMAIN g |-> ss[i][j]] /\ \A j \in DOMAIN g : ss[i][j] \in Slots
      BY <1>4, <1>5, <3>1
    <3>3. ss[i] \in [DOMAIN g -> Slots]
      BY <3>2
    <3> QED
      BY <1>3, <3>3, FunctionAsList
  <2> QED
    BY <2>1, <2>2
<1> HIDE DEF ss, g
<1>7. ss \in Seq(Seq(Slots)) /\ Len(ss) = Len(r.slots)
  BY <1>2, <1>6
<1>8. s \in Seq(Slots) /\ \E row, col : Laid(s, ss, Len(r.slots), row, col)
  BY <1>1, <1>7, FlattenPlaces, CommandOperators
<1> HIDE DEF s
<1>9. PICK row, col : Laid(s, ss, Len(r.slots), row, col)
  BY <1>8
<1>10. ASSUME NEW p \in DOMAIN s
       PROVE  /\ row[p] \in DOMAIN r.slots /\ col[p] \in DOMAIN g
              /\ s[p] = SlotAt(r, g[col[p]], r.slots[row[p]])
  <2>1. row[p] \in DOMAIN r.slots
    BY <1>2, <1>9 DEF Laid
  <2>2. col[p] \in DOMAIN ss[row[p]] /\ s[p] = ss[row[p]][col[p]]
    BY <1>9 DEF Laid
  <2> QED
    BY <1>4, <1>5, <2>1, <2>2
<1>11. \A p \in DOMAIN s : \E b \in M!Banks(r), i \in Idx : s[p] = SlotAt(r, b, i)
  BY <1>3, <1>10, CommandOperators
<1>12. ASSUME NEW b \in M!Banks(r), NEW i \in Idx
       PROVE  \E p \in DOMAIN s : s[p] = SlotAt(r, b, i)
  <2>1. PICK x \in DOMAIN r.slots : r.slots[x] = i
    BY CommandOperators
  <2>2. PICK y \in DOMAIN g : g[y] = b
    BY <1>3
  <2>3. x \in 1..Len(r.slots) /\ y \in DOMAIN ss[x]
    BY <1>2, <1>5
  <2>4. PICK p \in DOMAIN s : row[p] = x /\ col[p] = y
    BY <1>9, <2>3 DEF Laid
  <2> QED
    BY <1>10, <2>1, <2>2, <2>4
<1>13. ASSUME NEW p \in DOMAIN s, NEW q \in DOMAIN s, s[p] = s[q]
       PROVE  p = q
  <2>1. g[col[p]] = g[col[q]] /\ r.slots[row[p]] = r.slots[row[q]]
    BY <1>10, <1>13 DEF SlotAt
  <2>2. col[p] = col[q] /\ row[p] = row[q]
    BY <1>2, <1>3, <1>10, <2>1
  <2>3. /\ row[p] \in Nat /\ col[p] \in Nat
        /\ p \in Nat /\ q \in Nat
    <3>1. DOMAIN s \in SUBSET Nat
      BY <1>8
    <3> QED
      BY <1>2, <1>3, <1>10, <3>1
  <2>4. ~(p < q) /\ ~(q < p)
    BY <1>9, <2>2, <2>3 DEF Laid
  <2> QED
    BY <2>3, <2>4
<1> QED
  BY <1>8, <1>11, <1>12, <1>13 DEF s
-----------------------------------------------------------------------------
(* Descriptors.                                                            *)

\* Routes that are fit for BEQ, at most one of a kind, and the inputs before what
\* comes after them.
Layout(L) ==
  /\ Len(L) \in Nat /\ DOMAIN L = 1..Len(L)
  /\ \A i \in DOMAIN L : L[i].biquads \in 0..10
  /\ \A i \in M!Stages(L) : Fit(L[i])
  /\ \A i, j \in M!Stages(L) : i < j => L[i].name # L[j].name /\ L[j].name # "input"
  /\ M!Shown(L) \in 0..8

\* How the slots s of a descriptor are those of its routes.
Placed(L, s, row) ==
  /\ row \in [DOMAIN s -> M!Stages(L)]
  /\ \A p \in DOMAIN s :
       \E b \in M!Banks(L[row[p]]), i \in M!Range(L[row[p]].slots) :
         s[p] = SlotAt(L[row[p]], b, i)
  /\ \A x \in M!Stages(L) : \A b \in M!Banks(L[x]), i \in M!Range(L[x].slots) :
       \E p \in DOMAIN s : row[p] = x /\ s[p] = SlotAt(L[x], b, i)
  /\ \A p, q \in DOMAIN s : row[p] = row[q] /\ s[p] = s[q] => p = q
  /\ \A p, q \in DOMAIN s : p < q => row[p] <= row[q]

LEMMA AllocatedFacts ==
  ASSUME NEW L, Layout(L)
  PROVE  M!Allocated(L) \in Seq(Slots) /\ \E row : Placed(L, M!Allocated(L), row)
<1> DEFINE s == M!Allocated(L)
           n == Len(L)
           ss == [i \in DOMAIN L |-> M!SlotsOf(L[i])]
<1>1. n \in Nat /\ DOMAIN L = 1..n
  BY DEF Layout
<1>2. s = FlattenSeq(ss)
  BY CommandOperators DEF M!Allocated
<1>3. \A i \in DOMAIN L : i \in M!Stages(L) <=> M!TakesBeq(L[i])
  BY DEF M!Stages
<1>4. ASSUME NEW i \in DOMAIN L
      PROVE  M!SlotsOf(L[i]) \in Seq(Slots) /\ (~M!TakesBeq(L[i]) => M!SlotsOf(L[i]) = <<>>)
  <2>1. CASE M!TakesBeq(L[i])
    BY <1>3, <2>1, SlotsOfFacts DEF Layout
  <2>2. CASE ~M!TakesBeq(L[i])
    BY <2>2 DEF M!SlotsOf
  <2> QED
    BY <2>1, <2>2
<1>5. ss \in [1..n -> Seq(Slots)] /\ \A i \in DOMAIN L : ss[i] = M!SlotsOf(L[i])
  BY <1>1, <1>4
<1> HIDE DEF ss
<1>6. ss \in Seq(Seq(Slots)) /\ Len(ss) = n
  BY <1>1, <1>5, FunctionAsList
<1>7. s \in Seq(Slots) /\ \E row, col : Laid(s, ss, n, row, col)
  BY <1>2, <1>6, FlattenPlaces
<1> HIDE DEF s, n
<1>8. PICK row, col : Laid(s, ss, n, row, col)
  BY <1>7
<1>9. ASSUME NEW p \in DOMAIN s
      PROVE  /\ row[p] \in M!Stages(L) /\ col[p] \in DOMAIN M!SlotsOf(L[row[p]])
             /\ s[p] = M!SlotsOf(L[row[p]])[col[p]]
  <2>1. row[p] \in DOMAIN L
    BY <1>1, <1>8 DEF Laid
  <2>2. /\ col[p] \in DOMAIN M!SlotsOf(L[row[p]])
        /\ s[p] = M!SlotsOf(L[row[p]])[col[p]]
    BY <1>5, <1>8, <2>1 DEF Laid
  <2>3. M!SlotsOf(L[row[p]]) # <<>>
    BY <2>2
  <2> QED
    BY <1>3, <1>4, <2>1, <2>2, <2>3
<1>10. \A x \in M!Stages(L) : x \in DOMAIN L /\ Fit(L[x]) /\ M!TakesBeq(L[x])
  BY DEF Layout, M!Stages
<1>11. row \in [DOMAIN s -> M!Stages(L)]
  BY <1>8, <1>9 DEF Laid
<1>12. ASSUME NEW p \in DOMAIN s
       PROVE  \E b \in M!Banks(L[row[p]]), i \in M!Range(L[row[p]].slots) :
                s[p] = SlotAt(L[row[p]], b, i)
  BY <1>9, <1>10, SlotsOfFacts
<1>13. ASSUME NEW x \in M!Stages(L), NEW b \in M!Banks(L[x]), NEW i \in M!Range(L[x].slots)
       PROVE  \E p \in DOMAIN s : row[p] = x /\ s[p] = SlotAt(L[x], b, i)
  <2>1. PICK y \in DOMAIN M!SlotsOf(L[x]) : M!SlotsOf(L[x])[y] = SlotAt(L[x], b, i)
    BY <1>10, SlotsOfFacts
  <2>2. x \in 1..n /\ y \in DOMAIN ss[x]
    BY <1>1, <1>5, <1>10
  <2>3. PICK p \in DOMAIN s : row[p] = x /\ col[p] = y
    BY <1>8, <2>2 DEF Laid
  <2> QED
    BY <1>9, <2>1, <2>3
<1>14. DOMAIN s \in SUBSET Nat /\ \A p \in DOMAIN s : row[p] \in Nat /\ col[p] \in Nat
  <2>1. DOMAIN s \in SUBSET Nat
    BY <1>7
  <2>2. \A p \in DOMAIN s : row[p] \in 1..n /\ col[p] \in Nat
    BY <1>8 DEF Laid
  <2> QED
    BY <1>1, <2>1, <2>2
<1>15. ASSUME NEW p \in DOMAIN s, NEW q \in DOMAIN s, row[p] = row[q], s[p] = s[q]
       PROVE  p = q
  <2>1. col[p] = col[q]
    BY <1>9, <1>10, <1>15, SlotsOfFacts
  <2>2. ~(p < q) /\ ~(q < p)
    BY <1>8, <1>14, <1>15, <2>1 DEF Laid
  <2> QED
    BY <1>14, <2>2
<1>16. ASSUME NEW p \in DOMAIN s, NEW q \in DOMAIN s, p < q
       PROVE  row[p] <= row[q]
  <2>1. row[p] < row[q] \/ row[p] = row[q]
    BY <1>8, <1>16 DEF Laid
  <2> QED
    BY <1>14, <2>1
<1>17. Placed(L, s, row)
  BY <1>11, <1>12, <1>13, <1>15, <1>16 DEF Placed
<1> QED
  BY <1>7, <1>17 DEF s

\* The biquad of a slot in one of its channels.
Spot(slot, channel) == M!Address(slot.side, channel, slot.bank, slot.idx)

LEMMA SpotFacts ==
  ASSUME NEW L, Layout(L), NEW s \in Seq(Slots), NEW row, Placed(L, s, row), NEW p \in DOMAIN s
  PROVE  LET r == L[row[p]]
         IN  /\ row[p] \in DOMAIN L /\ M!TakesBeq(r) /\ Fit(r)
             /\ s[p].channels = r.channels /\ s[p].side = M!Side(r)
             /\ s[p].bank \in M!Banks(r) /\ s[p].idx \in M!Range(r.slots)
             /\ s[p] = SlotAt(r, s[p].bank, s[p].idx) /\ s[p] \in Slots
             /\ \A i : M!At(s[p], i) = Spot(s[p], s[p].channels[i])
<1>1. row[p] \in M!Stages(L)
  BY DEF Placed
<1>2. row[p] \in DOMAIN L /\ M!TakesBeq(L[row[p]]) /\ Fit(L[row[p]])
  BY <1>1 DEF Layout, M!Stages
<1>3. PICK b \in M!Banks(L[row[p]]), i \in M!Range(L[row[p]].slots) :
        s[p] = SlotAt(L[row[p]], b, i)
  BY DEF Placed
<1>4. s[p] \in Slots
  OBVIOUS
<1>5. \A j : M!At(s[p], j) = Spot(s[p], s[p].channels[j])
  BY DEF M!At, Spot
<1> QED
  BY <1>2, <1>3, <1>4, <1>5 DEF SlotAt

\* No two slots have a biquad in common.
LEMMA SpotsApart ==
  ASSUME NEW L, Layout(L), NEW s \in Seq(Slots), NEW row, Placed(L, s, row),
         NEW p \in DOMAIN s, NEW q \in DOMAIN s, NEW c, NEW d, Spot(s[p], c) = Spot(s[q], d)
  PROVE  p = q /\ c = d
<1>1. s[p].side = s[q].side /\ c = d /\ s[p].bank = s[q].bank /\ s[p].idx = s[q].idx
  BY DEF Spot, M!Address
<1>2. CASE row[p] = row[q]
  <2>1. s[p] = s[q]
    BY <1>1, <1>2, SpotFacts
  <2> QED
    BY <1>1, <1>2, <2>1 DEF Placed
<1>3. ASSUME NEW x \in M!Stages(L), NEW y \in M!Stages(L), x < y,
             NEW b, b \in M!Banks(L[x]), b \in M!Banks(L[y]), M!Side(L[x]) = M!Side(L[y])
      PROVE  FALSE
  <2>1. L[x].name # L[y].name /\ L[y].name # "input" /\ Fit(L[x]) /\ Fit(L[y])
    BY <1>3 DEF Layout
  <2>2. {L[x].name, L[y].name} \subseteq {"input", "output", "crossover"}
    BY <2>1 DEF Fit
  <2>3. M!Side(L[y]) = "output"
    BY <2>1, GroupsFacts
  <2>4. L[x].name # "input"
    BY <1>3, <2>1, <2>3, GroupsFacts
  <2>5. \/ L[x].name = "crossover" /\ L[y].name # "crossover"
        \/ L[y].name = "crossover" /\ L[x].name # "crossover"
    BY <2>1, <2>2, <2>4
  <2>6. \/ b \in Nat /\ b \in {-1}
    BY <1>3, <2>1, <2>5, GroupsFacts
  <2> QED
    BY <2>6
<1>4. CASE row[p] # row[q]
  <2>1. /\ row[p] \in M!Stages(L) /\ row[q] \in M!Stages(L)
        /\ row[p] \in DOMAIN L /\ row[q] \in DOMAIN L /\ DOMAIN L = 1..Len(L) /\ Len(L) \in Nat
    BY SpotFacts DEF Placed, Layout
  <2>2. row[p] < row[q] \/ row[q] < row[p]
    BY <1>4, <2>1
  <2>3. /\ s[p].bank \in M!Banks(L[row[p]]) /\ s[p].bank \in M!Banks(L[row[q]])
        /\ M!Side(L[row[p]]) = M!Side(L[row[q]])
    BY <1>1, SpotFacts
  <2> QED
    BY <1>3, <2>1, <2>2, <2>3
<1> QED
  BY <1>2, <1>4

LEMMA SpotInDevice ==
  ASSUME NEW L, Layout(L), NEW s \in Seq(Slots), NEW row, Placed(L, s, row),
         NEW p \in DOMAIN s, NEW i \in DOMAIN s[p].channels
  PROVE  /\ M!At(s[p], i) \in Addressed /\ M!At(s[p], i) \in M!Addresses(L)
<1> DEFINE r == L[row[p]]
           c == s[p].channels[i]
<1>1. /\ row[p] \in DOMAIN L /\ Fit(r) /\ s[p].channels = r.channels /\ s[p].side = M!Side(r)
      /\ s[p].bank \in M!Banks(r) /\ s[p].idx \in M!Range(r.slots) /\ s[p] \in Slots
      /\ M!At(s[p], i) = Spot(s[p], c)
  BY SpotFacts
<1>2. c \in M!Range(r.channels) /\ c \in Int
  <2>1. r.channels \in Seq(0..11)
    BY <1>1 DEF Fit
  <2>2. c \in 0..11
    BY <1>1, <2>1, ListOfMore
  <2> QED
    BY <1>1, <2>2, CommandOperators
<1>3. s[p].idx \in 0..(r.biquads - 1)
  <2> DEFINE T == 0..(r.biquads - 1)
  <2>1. r.slots \in Seq(T)
    BY <1>1 DEF Fit
  <2> HIDE DEF T
  <2>2. \A x \in DOMAIN r.slots : r.slots[x] \in T
    BY <2>1, ListOfMore
  <2>3. s[p].idx \in T
    BY <1>1, <2>2, CommandOperators
  <2> QED
    BY <2>3 DEF T
<1>4. Spot(s[p], c) \in Addressed
  BY <1>1, <1>2 DEF Slots, Spot, M!Address, Addressed
<1>5. Spot(s[p], c) \in M!BiquadsIn(r, 0..(r.biquads - 1))
  <2>1. Spot(s[p], c) = M!Address(M!Side(r), c, s[p].bank, s[p].idx)
    BY <1>1 DEF Spot
  <2> HIDE DEF r, c
  <2> QED
    BY <1>1, <1>2, <1>3, <2>1 DEF M!BiquadsIn
<1> QED
  BY <1>1, <1>4, <1>5 DEF M!Addresses
-----------------------------------------------------------------------------
(* The commands for an entry.                                              *)

\* Those for the slot at p, in its channel at i.
Says(entry, s, p, i) ==
  IF p <= Len(entry)
  THEN {M!Set(M!At(s[p], i), entry[p]), M!Bypass(M!At(s[p], i), M!Off)}
  ELSE {M!Bypass(M!At(s[p], i), M!On)}

LEMMA PairFacts ==
  ASSUME NEW S, NEW a \in S, NEW b \in S
  PROVE  /\ <<a, b>> \in Seq(S) /\ DOMAIN <<a, b>> = {1, 2}
         /\ <<a, b>>[1] = a /\ <<a, b>>[2] = b
OBVIOUS

LEMMA PushFacts ==
  ASSUME NEW slot, slot.channels \in Seq(0..11),
         \A i \in DOMAIN slot.channels : M!At(slot, i) \in Addressed, NEW v \in Nat
  PROVE  LET c == M!Push(slot, v)
         IN  /\ c \in Seq(Command)
             /\ \A k \in DOMAIN c : \E i \in DOMAIN slot.channels :
                  c[k] \in {M!Set(M!At(slot, i), v), M!Bypass(M!At(slot, i), M!Off)}
             /\ \A i \in DOMAIN slot.channels :
                  \A m \in {M!Set(M!At(slot, i), v), M!Bypass(M!At(slot, i), M!Off)} :
                    \E k \in DOMAIN c : c[k] = m
<1> DEFINE c == M!Push(slot, v)
           n == Len(slot.channels)
           two(i) == << M!Set(M!At(slot, i), v), M!Bypass(M!At(slot, i), M!Off) >>
           ss == [i \in DOMAIN slot.channels |-> two(i)]
<1>1. n \in Nat /\ DOMAIN slot.channels = 1..n
  BY ListOfMore
<1>2. c = M!FlattenSeq(ss)
  BY DEF M!Push
<1>3. ASSUME NEW i \in 1..n
      PROVE  /\ ss[i] \in Seq(Command) /\ DOMAIN ss[i] = {1, 2}
             /\ ss[i][1] = M!Set(M!At(slot, i), v)
             /\ ss[i][2] = M!Bypass(M!At(slot, i), M!Off)
  <2>1. ss[i] = two(i)
    BY <1>1
  <2>2. M!Set(M!At(slot, i), v) \in Command /\ M!Bypass(M!At(slot, i), M!Off) \in Command
    BY <1>1, CommandTypes
  <2> HIDE DEF ss
  <2> QED
    BY <2>1, <2>2, PairFacts
<1>4. ss \in [1..n -> Seq(Command)]
  <2>1. ss = [i \in 1..n |-> ss[i]]
    BY <1>1
  <2> HIDE DEF ss
  <2> QED
    BY <1>3, <2>1
<1> HIDE DEF ss, n, c
<1>5. /\ c \in Seq(Command)
      /\ \A k \in DOMAIN c : \E i \in 1..n : \E j \in DOMAIN ss[i] : c[k] = ss[i][j]
      /\ \A i \in 1..n : \A j \in DOMAIN ss[i] : \E k \in DOMAIN c : c[k] = ss[i][j]
  <2>1. ss \in Seq(Seq(Command)) /\ DOMAIN ss = 1..n
    BY <1>1, <1>4, FunctionAsList
  <2> DEFINE f == M!FlattenSeq(ss)
  <2>2. /\ f \in Seq(Command)
        /\ \A k \in DOMAIN f : \E i \in DOMAIN ss : \E j \in DOMAIN ss[i] : f[k] = ss[i][j]
        /\ \A i \in DOMAIN ss : \A j \in DOMAIN ss[i] : \E k \in DOMAIN f : f[k] = ss[i][j]
    BY <2>1, FlattenElements
  <2>3. f = c
    BY <1>2
  <2> HIDE DEF f
  <2>4. /\ f \in Seq(Command)
        /\ \A k \in DOMAIN f : \E i \in 1..n : \E j \in DOMAIN ss[i] : f[k] = ss[i][j]
        /\ \A i \in 1..n : \A j \in DOMAIN ss[i] : \E k \in DOMAIN f : f[k] = ss[i][j]
    BY <2>1, <2>2
  <2> QED
    BY <2>3, <2>4, Zenon
<1>6. ASSUME NEW k \in DOMAIN c
      PROVE  \E i \in DOMAIN slot.channels :
               c[k] \in {M!Set(M!At(slot, i), v), M!Bypass(M!At(slot, i), M!Off)}
  <2>1. PICK i \in 1..n : \E j \in DOMAIN ss[i] : c[k] = ss[i][j]
    BY <1>5
  <2>2. c[k] \in {M!Set(M!At(slot, i), v), M!Bypass(M!At(slot, i), M!Off)}
    BY <1>3, <2>1
  <2> QED
    BY <1>1, <2>2
<1>7. ASSUME NEW i \in DOMAIN slot.channels,
             NEW m \in {M!Set(M!At(slot, i), v), M!Bypass(M!At(slot, i), M!Off)}
      PROVE  \E k \in DOMAIN c : c[k] = m
  <2>1. i \in 1..n /\ 1 \in DOMAIN ss[i] /\ 2 \in DOMAIN ss[i]
    BY <1>1, <1>3
  <2>2. m = ss[i][1] \/ m = ss[i][2]
    BY <1>3, <2>1
  <2> QED
    BY <1>5, <2>1, <2>2
<1> QED
  BY <1>5, <1>6, <1>7 DEF c

LEMMA UnusedFacts ==
  ASSUME NEW slot, slot.channels \in Seq(0..11),
         \A i \in DOMAIN slot.channels : M!At(slot, i) \in Addressed
  PROVE  LET c == M!Unused(slot)
         IN  /\ c \in Seq(Command) /\ DOMAIN c = DOMAIN slot.channels
             /\ \A i \in DOMAIN c : c[i] = M!Bypass(M!At(slot, i), M!On)
<1> DEFINE c == M!Unused(slot)
           n == Len(slot.channels)
<1>1. n \in Nat /\ DOMAIN slot.channels = 1..n
  BY ListOfMore
<1>2. c = [i \in 1..n |-> M!Bypass(M!At(slot, i), M!On)]
  BY <1>1 DEF M!Unused
<1>3. \A i \in 1..n : M!Bypass(M!At(slot, i), M!On) \in Command
  BY <1>1, CommandTypes
<1> HIDE DEF c, n
<1>4. c \in [1..n -> Command]
  BY <1>2, <1>3
<1>5. c \in Seq(Command)
  BY <1>1, <1>4, FunctionAsList
<1> QED
  BY <1>1, <1>2, <1>5 DEF c

LEMMA FiltFacts ==
  ASSUME NEW L, Layout(L), NEW entry \in Seq(Nat)
  PROVE  LET c == M!Filt(entry, L)
             s == M!Allocated(L)
         IN  /\ c \in Seq(Command)
             /\ \A k \in DOMAIN c : \E p \in DOMAIN s : \E i \in DOMAIN s[p].channels :
                  c[k] \in Says(entry, s, p, i)
             /\ \A p \in DOMAIN s : \A i \in DOMAIN s[p].channels :
                  \A m \in Says(entry, s, p, i) : \E k \in DOMAIN c : c[k] = m
<1> DEFINE c == M!Filt(entry, L)
           s == M!Allocated(L)
           n == Len(s)
           ss == [p \in DOMAIN s |->
                    IF p <= Len(entry) THEN M!Push(s[p], entry[p]) ELSE M!Unused(s[p])]
<1>1. s \in Seq(Slots) /\ n \in Nat /\ DOMAIN s = 1..n
  BY AllocatedFacts
<1>2. PICK row : Placed(L, s, row)
  BY AllocatedFacts
<1>3. c = M!FlattenSeq(ss)
  BY DEF M!Filt
<1>4. \A p \in DOMAIN s :
        ss[p] = IF p <= Len(entry) THEN M!Push(s[p], entry[p]) ELSE M!Unused(s[p])
  OBVIOUS
<1>5. ss = [p \in 1..n |-> ss[p]]
  BY <1>1
<1> HIDE DEF c, s, n, ss
<1>6. ASSUME NEW p \in DOMAIN s
      PROVE  /\ s[p].channels \in Seq(0..11)
             /\ \A i \in DOMAIN s[p].channels : M!At(s[p], i) \in Addressed
             /\ p <= Len(entry) => entry[p] \in Nat
  <2>1. s[p] \in Slots
    BY <1>1
  <2>2. p \in Nat /\ p >= 1
    BY <1>1
  <2>3. p <= Len(entry) => entry[p] \in Nat
    BY <2>2
  <2>4. \A i \in DOMAIN s[p].channels : M!At(s[p], i) \in Addressed
    BY <1>1, <1>2, SpotInDevice
  <2> QED
    BY <2>1, <2>3, <2>4 DEF Slots
<1>7. ASSUME NEW p \in DOMAIN s
      PROVE  /\ ss[p] \in Seq(Command)
             /\ \A j \in DOMAIN ss[p] : \E i \in DOMAIN s[p].channels :
                  ss[p][j] \in Says(entry, s, p, i)
             /\ \A i \in DOMAIN s[p].channels : \A m \in Says(entry, s, p, i) :
                  \E j \in DOMAIN ss[p] : ss[p][j] = m
  <2>1. CASE p <= Len(entry)
    <3>1. ss[p] = M!Push(s[p], entry[p])
      BY <1>4, <2>1
    <3>2. \A i : Says(entry, s, p, i) =
                   {M!Set(M!At(s[p], i), entry[p]), M!Bypass(M!At(s[p], i), M!Off)}
      BY <2>1 DEF Says
    <3> QED
      <4>1. entry[p] \in Nat
        BY <1>6, <2>1
      <4> DEFINE c1 == M!Push(s[p], entry[p])
      <4>2. /\ c1 \in Seq(Command)
            /\ \A k \in DOMAIN c1 : \E i \in DOMAIN s[p].channels :
                 c1[k] \in {M!Set(M!At(s[p], i), entry[p]), M!Bypass(M!At(s[p], i), M!Off)}
            /\ \A i \in DOMAIN s[p].channels :
                 \A m \in {M!Set(M!At(s[p], i), entry[p]), M!Bypass(M!At(s[p], i), M!Off)} :
                   \E k \in DOMAIN c1 : c1[k] = m
        BY <1>6, <4>1, PushFacts
      <4> HIDE DEF c1
      <4>3. ss[p] = c1
        BY <3>1 DEF c1
      <4> QED
        BY <3>2, <4>2, <4>3
  <2>2. CASE ~(p <= Len(entry))
    <3>1. ss[p] = M!Unused(s[p])
      BY <1>4, <2>2
    <3>2. \A i : Says(entry, s, p, i) = {M!Bypass(M!At(s[p], i), M!On)}
      BY <2>2 DEF Says
    <3> QED
      BY <1>6, <3>1, <3>2, UnusedFacts
  <2> QED
    BY <2>1, <2>2
<1>8. ss \in [1..n -> Seq(Command)]
  BY <1>1, <1>5, <1>7
<1>9. /\ c \in Seq(Command)
      /\ \A k \in DOMAIN c : \E p \in 1..n : \E j \in DOMAIN ss[p] : c[k] = ss[p][j]
      /\ \A p \in 1..n : \A j \in DOMAIN ss[p] : \E k \in DOMAIN c : c[k] = ss[p][j]
  <2>1. ss \in Seq(Seq(Command)) /\ DOMAIN ss = 1..n
    BY <1>1, <1>8, FunctionAsList
  <2> DEFINE f == M!FlattenSeq(ss)
  <2>2. /\ f \in Seq(Command)
        /\ \A k \in DOMAIN f : \E i \in DOMAIN ss : \E j \in DOMAIN ss[i] : f[k] = ss[i][j]
        /\ \A i \in DOMAIN ss : \A j \in DOMAIN ss[i] : \E k \in DOMAIN f : f[k] = ss[i][j]
    BY <2>1, FlattenElements
  <2>3. f = c
    BY <1>3
  <2> HIDE DEF f
  <2>4. /\ f \in Seq(Command)
        /\ \A k \in DOMAIN f : \E p \in 1..n : \E j \in DOMAIN ss[p] : f[k] = ss[p][j]
        /\ \A p \in 1..n : \A j \in DOMAIN ss[p] : \E k \in DOMAIN f : f[k] = ss[p][j]
    BY <2>1, <2>2
  <2> QED
    BY <2>3, <2>4, Zenon
<1>10. ASSUME NEW k \in DOMAIN c
       PROVE  \E p \in DOMAIN s : \E i \in DOMAIN s[p].channels :
                c[k] \in Says(entry, s, p, i)
  <2>1. PICK p \in 1..n : \E j \in DOMAIN ss[p] : c[k] = ss[p][j]
    BY <1>9
  <2> QED
    BY <1>1, <1>7, <2>1
<1>11. ASSUME NEW p \in DOMAIN s, NEW i \in DOMAIN s[p].channels, NEW m \in Says(entry, s, p, i)
       PROVE  \E k \in DOMAIN c : c[k] = m
  <2>1. PICK j \in DOMAIN ss[p] : ss[p][j] = m
    BY <1>7
  <2> QED
    BY <1>1, <1>9, <2>1
<1> QED
  BY <1>9, <1>10, <1>11 DEF c, s

\* What a device has in its slots when it has carried out all of them.
LEMMA LoadedFacts ==
  ASSUME NEW L, Layout(L), NEW entry \in Seq(Nat),
         NEW before \in Holding(M!Addresses(L)),
         NEW p \in DOMAIN M!Allocated(L), NEW i \in DOMAIN M!Allocated(L)[p].channels
  PROVE  LET a == M!At(M!Allocated(L)[p], i)
             after == M!Run(M!Filt(entry, L), before)
         IN  IF p <= Len(entry) THEN after[a].filter = entry[p] /\ after[a].bypass = 0
             ELSE after[a].bypass = 1
<1> DEFINE s == M!Allocated(L)
           c == M!Filt(entry, L)
           a == M!At(s[p], i)
           after == M!Run(c, before)
           For(k, verb) == c[k].at = a /\ c[k].op = verb
<1>0. p \in DOMAIN s /\ i \in DOMAIN s[p].channels
  OBVIOUS
<1>1. s \in Seq(Slots)
  BY AllocatedFacts
<1>2. PICK row : Placed(L, s, row)
  BY AllocatedFacts
<1>3. c \in Seq(Command)
  BY FiltFacts
<1>4. a \in Addressed /\ a \in M!Addresses(L)
  BY <1>1, <1>2, <1>3, SpotInDevice
<1> HIDE DEF s, c, a, after
<1>5. /\ \/ \A k \in DOMAIN c : ~For(k, "set")
         \/ \E k \in DOMAIN c : For(k, "set") /\ after[a].filter = c[k].arg
      /\ \/ \A k \in DOMAIN c : ~For(k, "bypass")
         \/ \E k \in DOMAIN c : For(k, "bypass") /\ after[a].bypass = c[k].arg
  BY <1>3, <1>4, RunFacts DEF after
<1>6. ASSUME NEW k \in DOMAIN c, c[k].at = a
      PROVE  c[k] \in Says(entry, s, p, i)
  <2>0. PICK q \in DOMAIN s : \E j \in DOMAIN s[q].channels : c[k] \in Says(entry, s, q, j)
    BY FiltFacts DEF c, s
  <2>1. PICK j \in DOMAIN s[q].channels : c[k] \in Says(entry, s, q, j)
    BY <2>0
  <2>2. M!At(s[q], j) \in Addressed
    BY <1>1, <1>2, SpotInDevice
  <2>3. q \in Nat /\ q >= 1
    BY <1>1
  <2>4. q <= Len(entry) => entry[q] \in Nat
    BY <2>3
  <2>5. c[k].at = M!At(s[q], j)
    BY <2>1, <2>2, <2>4, CommandTypes DEF Says
  <2>6. M!At(s[q], j) = Spot(s[q], s[q].channels[j]) /\ a = Spot(s[p], s[p].channels[i])
    BY <1>0, <1>1, <1>2, SpotFacts DEF a
  <2>7. q = p
    <3>1. Spot(s[q], s[q].channels[j]) = Spot(s[p], s[p].channels[i])
      BY <1>6, <2>5, <2>6
    <3> QED
      BY <1>0, <1>1, <1>2, <3>1, SpotsApart
  <2>8. M!At(s[q], j) = a
    BY <1>6, <2>5
  <2> QED
    BY <2>1, <2>7, <2>8 DEF Says, a
<1>7. \A m \in Says(entry, s, p, i) : \E k \in DOMAIN c : c[k] = m
  BY FiltFacts DEF c, s
<1>8. CASE p <= Len(entry)
  <2>1. entry[p] \in Nat
    <3>1. p \in Nat /\ p >= 1
      BY <1>1 DEF s
    <3> QED
      BY <1>8, <3>1
  <2>2. Says(entry, s, p, i) = {M!Set(a, entry[p]), M!Bypass(a, 0)}
    BY <1>8, CommandTypes DEF Says, a
  <2>3. /\ M!Set(a, entry[p]).op = "set" /\ M!Set(a, entry[p]).at = a
        /\ M!Set(a, entry[p]).arg = entry[p]
        /\ M!Bypass(a, 0).op = "bypass" /\ M!Bypass(a, 0).at = a /\ M!Bypass(a, 0).arg = 0
    BY <1>4, <2>1, CommandTypes
  <2>4. /\ \E k \in DOMAIN c : For(k, "set")
        /\ \E k \in DOMAIN c : For(k, "bypass")
    BY <1>7, <2>2, <2>3
  <2>5. ASSUME NEW k \in DOMAIN c
        PROVE  /\ For(k, "set") => c[k].arg = entry[p]
               /\ For(k, "bypass") => c[k].arg = 0
    BY <1>6, <2>2, <2>3
  <2> HIDE DEF For
  <2>6. after[a].filter = entry[p] /\ after[a].bypass = 0
    BY <1>5, <2>4, <2>5
  <2> QED
    BY <1>8, <2>6 DEF after, a, c, s
<1>9. CASE ~(p <= Len(entry))
  <2>1. Says(entry, s, p, i) = {M!Bypass(a, 1)}
    BY <1>9, CommandTypes DEF Says, a
  <2>2. M!Bypass(a, 1).op = "bypass" /\ M!Bypass(a, 1).at = a /\ M!Bypass(a, 1).arg = 1
    BY <1>4, CommandTypes
  <2>3. (\E k \in DOMAIN c : For(k, "bypass")) /\ \A k \in DOMAIN c : For(k, "bypass") => c[k].arg = 1
    BY <1>6, <1>7, <2>1, <2>2
  <2> HIDE DEF For
  <2>4. after[a].bypass = 1
    BY <1>5, <2>3
  <2> QED
    BY <1>9, <2>4 DEF after, a, c, s
<1> QED
  BY <1>8, <1>9

\* As many as a list has elements that are told apart.
LEMMA CountOfImages ==
  ASSUME NEW n \in Nat, NEW f, 1..n \subseteq DOMAIN f,
         \A i, j \in 1..n : f[i] = f[j] => i = j
  PROVE  Cardinality({f[i] : i \in 1..n}) = n
<1> DEFINE A == 1..n
           B == {f[i] : i \in 1..n}
           g == [i \in 1..n |-> f[i]]
<1>1. IsFiniteSet(A) /\ Cardinality(A) = n
  <2>1. 1 \in Int /\ n \in Int
    OBVIOUS
  <2> QED
    BY <2>1, FS_Interval
<1>2. g \in [A -> B] /\ \A i \in A : g[i] = f[i]
  OBVIOUS
<1>3. \A b \in B : \E i \in A : b = f[i]
  OBVIOUS
<1> HIDE DEF A, B, g
<1>4. \A i, j \in A : g[i] = g[j] => i = j
  BY <1>2 DEF A
<1>5. g \in Bijection(A, B)
  BY <1>2, <1>3, <1>4 DEF Bijection, Injection, Surjection, IsInjective
<1>6. Cardinality(B) = Cardinality(A)
  BY <1>1, <1>5, FS_Bijection DEF ExistsBijection
<1> QED
  BY <1>1, <1>6 DEF B

\* The biquads for BEQ that a signal passes are those of the slots, one each.
PathSpot(s, row, path) == [p \in DOMAIN s |-> Spot(s[p], path[row[p]])]

\* What is passed on a path are these spots, one in each slot.
Passes(s, pos, passed) ==
  /\ \A p \in DOMAIN s : /\ pos[p] \in passed
                         /\ \E i \in DOMAIN s[p].channels : pos[p] = M!At(s[p], i)
  /\ \A a \in passed : \E p \in DOMAIN s : pos[p] = a
  /\ \A p, q \in DOMAIN s : pos[p] = pos[q] => p = q
  /\ \A p \in DOMAIN s : pos[p].side = s[p].side

LEMMA PathFacts ==
  ASSUME NEW L, Layout(L), NEW s \in Seq(Slots), NEW row, Placed(L, s, row),
         NEW path \in M!Paths(L)
  PROVE  Passes(s, PathSpot(s, row, path), M!Passed(L, path))
<1> DEFINE pos == PathSpot(s, row, path)
           passed == M!Passed(L, path)
           Of(i) == {a \in M!BiquadsIn(L[i], M!Range(L[i].slots)) : a.channel = path[i]}
<1>1. passed = UNION {Of(i) : i \in M!Stages(L)}
  BY DEF M!Passed
<1>2. \A p \in DOMAIN s : pos[p] = Spot(s[p], path[row[p]])
  BY DEF PathSpot
<1>3. ASSUME NEW x \in M!Stages(L)
      PROVE  Fit(L[x]) /\ path[x] \in M!Range(L[x].channels)
             /\ \E i \in DOMAIN L[x].channels : L[x].channels[i] = path[x]
  <2>1. Fit(L[x])
    BY DEF Layout
  <2>2. PICK i \in 1..Len(L[x].channels) : L[x].channels[i] = path[x]
    BY CommandOperators DEF M!Paths
  <2>3. DOMAIN L[x].channels = 1..Len(L[x].channels)
    BY <2>1, ListOfMore DEF Fit
  <2> QED
    BY <2>1, <2>2, <2>3, CommandOperators
<1> HIDE DEF pos, passed
<1>4. ASSUME NEW p \in DOMAIN s
      PROVE  /\ pos[p] \in passed
             /\ \E i \in DOMAIN s[p].channels : pos[p] = M!At(s[p], i)
             /\ pos[p].side = s[p].side
  <2> DEFINE x == row[p]
  <2>1. x \in M!Stages(L)
    BY DEF Placed
  <2>2. /\ s[p].channels = L[x].channels /\ s[p].side = M!Side(L[x])
        /\ s[p].bank \in M!Banks(L[x]) /\ s[p].idx \in M!Range(L[x].slots)
        /\ \A i : M!At(s[p], i) = Spot(s[p], s[p].channels[i])
    BY SpotFacts
  <2>3. pos[p] = M!Address(M!Side(L[x]), path[x], s[p].bank, s[p].idx)
    BY <1>2, <2>2 DEF Spot
  <2> HIDE DEF x
  <2>4. pos[p].channel = path[x] /\ pos[p].side = s[p].side
    BY <2>2, <2>3 DEF M!Address
  <2>5. pos[p] \in M!BiquadsIn(L[x], M!Range(L[x].slots))
    BY <1>3, <2>1, <2>2, <2>3 DEF M!BiquadsIn
  <2>6. pos[p] \in passed
    BY <1>1, <2>1, <2>4, <2>5
  <2>7. PICK i \in DOMAIN L[x].channels : L[x].channels[i] = path[x]
    BY <1>3, <2>1
  <2>8. pos[p] = M!At(s[p], i)
    BY <1>2, <2>2, <2>7 DEF x
  <2> QED
    BY <2>2, <2>4, <2>6, <2>8
<1>5. ASSUME NEW a \in passed
      PROVE  \E p \in DOMAIN s : pos[p] = a
  <2>1. PICK x \in M!Stages(L) : a \in Of(x)
    BY <1>1
  <2>2. a \in M!BiquadsIn(L[x], M!Range(L[x].slots)) /\ a.channel = path[x]
    BY <2>1
  <2>3. PICK c \in M!Range(L[x].channels), b \in M!Banks(L[x]), i \in M!Range(L[x].slots) :
          a = M!Address(M!Side(L[x]), c, b, i)
    BY <2>2 DEF M!BiquadsIn
  <2>4. c = path[x]
    BY <2>2, <2>3 DEF M!Address
  <2>5. PICK p \in DOMAIN s : row[p] = x /\ s[p] = SlotAt(L[x], b, i)
    BY DEF Placed
  <2>6. pos[p] = a
    BY <1>2, <2>3, <2>4, <2>5 DEF Spot, SlotAt
  <2> QED
    BY <2>6
<1>6. ASSUME NEW p \in DOMAIN s, NEW q \in DOMAIN s, pos[p] = pos[q]
      PROVE  p = q
  <2>1. Spot(s[p], path[row[p]]) = Spot(s[q], path[row[q]])
    BY <1>2, <1>6
  <2> QED
    BY <2>1, SpotsApart
<1>7. Passes(s, pos, passed)
  BY <1>4, <1>5, <1>6 DEF Passes
<1> QED
  BY <1>7 DEF pos, passed

\* An entry that has been loaded is where it belongs, whatever was there before.
LEMMA EntryLoaded ==
  ASSUME NEW L, Layout(L), NEW entry \in Seq(Nat), ~M!TooMany(entry, L),
         \A i \in DOMAIN entry : entry[i] = i,
         NEW before \in Holding(M!Addresses(L))
  PROVE  M!EntryExact(L, M!Run(M!Filt(entry, L), before), Len(entry))
<1> DEFINE s == M!Allocated(L)
           n == Len(entry)
           after == M!Run(M!Filt(entry, L), before)
<1>1. s \in Seq(Slots) /\ DOMAIN s = 1..Len(s) /\ Len(s) \in Nat
  BY AllocatedFacts
<1>2. PICK row : Placed(L, s, row)
  BY AllocatedFacts
<1>3. n \in Nat /\ n <= Len(s) /\ 1..n \subseteq DOMAIN s /\ \A i \in 1..n : entry[i] = i
  <2>1. ~(n > Len(s))
    BY DEF M!TooMany
  <2> QED
    BY <1>1, <2>1
<1>4. ASSUME NEW p \in DOMAIN s, NEW i \in DOMAIN s[p].channels
      PROVE  IF p \in 1..n THEN after[M!At(s[p], i)].filter = p /\ after[M!At(s[p], i)].bypass = 0
             ELSE after[M!At(s[p], i)].bypass = 1
  <2>1. p \in 1..n <=> p <= n
    BY <1>1, <1>3
  <2> QED
    BY <1>3, <2>1, LoadedFacts
<1> HIDE DEF s, n, after
<1>5. SUFFICES ASSUME NEW path \in M!Paths(L)
               PROVE  LET passed == M!Passed(L, path)
                          live == M!Live(passed, after)
                      IN  /\ M!Cardinality(live) = n
                          /\ {after[a].filter : a \in live} = 1..n
                          /\ (\E a \in live : a.side = M!OUTPUT)
                               => \A a \in passed \ live : a.side = M!OUTPUT
  BY DEF M!EntryExact, s, n, after
<1> DEFINE pos == PathSpot(s, row, path)
           passed == M!Passed(L, path)
           live == M!Live(passed, after)
<1>6. /\ \A p \in DOMAIN s : /\ pos[p] \in passed
                             /\ \E i \in DOMAIN s[p].channels : pos[p] = M!At(s[p], i)
      /\ \A a \in passed : \E p \in DOMAIN s : pos[p] = a
      /\ \A p, q \in DOMAIN s : pos[p] = pos[q] => p = q
      /\ \A p \in DOMAIN s : pos[p].side = s[p].side
  <2>1. Passes(s, pos, passed)
    BY <1>1, <1>2, PathFacts
  <2> QED
    BY <2>1 DEF Passes
<1>7. DOMAIN pos = DOMAIN s
  BY DEF PathSpot
<1>8. live = {a \in passed : after[a].bypass = 0}
  BY CommandTypes DEF M!Live
<1> HIDE DEF pos, passed, live
<1>9. ASSUME NEW p \in DOMAIN s
      PROVE  IF p \in 1..n THEN after[pos[p]].filter = p /\ after[pos[p]].bypass = 0
             ELSE after[pos[p]].bypass = 1
  BY <1>4, <1>6
<1>10. \A p \in DOMAIN s : pos[p] \in live <=> p \in 1..n
  BY <1>6, <1>8, <1>9
<1>11. live = {pos[p] : p \in 1..n}
  <2>1. \A a \in live : \E p \in 1..n : a = pos[p]
    BY <1>6, <1>8, <1>10
  <2>2. \A p \in 1..n : pos[p] \in live
    BY <1>3, <1>10
  <2> QED
    BY <2>1, <2>2
<1>12. M!Cardinality(live) = n
  <2>1. \A i, j \in 1..n : pos[i] = pos[j] => i = j
    BY <1>3, <1>6
  <2>2. 1..n \subseteq DOMAIN pos
    BY <1>3, <1>7
  <2>3. Cardinality({pos[i] : i \in 1..n}) = n
    BY <1>3, <2>1, <2>2, CountOfImages
  <2>4. Cardinality(live) = n
    BY <1>11, <2>3
  <2>5. M!Cardinality(live) = Cardinality(live)
    BY CommandOperators
  <2> QED
    BY <2>4, <2>5
<1>13. {after[a].filter : a \in live} = 1..n
  <2>1. \A a \in live : after[a].filter \in 1..n
    BY <1>3, <1>9, <1>11
  <2>2. \A p \in 1..n : pos[p] \in live /\ after[pos[p]].filter = p
    BY <1>3, <1>9, <1>10
  <2> QED
    BY <2>1, <2>2
<1>14. ASSUME NEW a \in live, NEW b \in passed \ live, a.side = M!OUTPUT
       PROVE  b.side = M!OUTPUT
  <2>1. PICK p \in 1..n : a = pos[p]
    BY <1>11
  <2>2. PICK q \in DOMAIN s : b = pos[q]
    BY <1>6
  <2>3. p \in DOMAIN s /\ p < q /\ q \notin 1..n
    BY <1>1, <1>3, <1>10, <2>2
  <2>4. /\ a.side = M!Side(L[row[p]]) /\ b.side = M!Side(L[row[q]])
        /\ row[p] \in DOMAIN L /\ row[q] \in DOMAIN L
    BY <1>1, <1>2, <1>6, <2>1, <2>2, <2>3, SpotFacts, SMTT(30)
  <2>5. row[p] <= row[q] /\ row[p] \in M!Stages(L) /\ row[q] \in M!Stages(L)
    BY <1>2, <2>3 DEF Placed
  <2>6. CASE row[p] = row[q]
    BY <1>14, <2>4, <2>6
  <2>7. CASE row[p] # row[q]
    <3>1. row[p] < row[q]
      BY <2>4, <2>5, <2>7 DEF Layout
    <3>2. L[row[q]].name # "input" /\ Fit(L[row[q]])
      BY <2>5, <3>1 DEF Layout
    <3>3. M!Side(L[row[q]]) = "output"
      BY <3>2, GroupsFacts
    <3> QED
      BY <2>4, <3>3, CommandTypes
  <2> QED
    BY <2>6, <2>7
<1> QED
  BY <1>12, <1>13, <1>14 DEF passed, live

-----------------------------------------------------------------------------
(* The commands for biquads of a user.                                     *)

UserBiquads == [filter : Nat, bypass : {0, 1}]

\* The biquad at i of the first channel, and the commands for it.
UserSpot(side, i) == M!Address(side, 0, -1, i - 1)
Given(bqs, i) == i <= Len(bqs) /\ bqs[i] # M!NoBiquad
Wants(overwrite, side, bqs, i) ==
  IF Given(bqs, i)
  THEN {M!Set(UserSpot(side, i), bqs[i].filter), M!Bypass(UserSpot(side, i), bqs[i].bypass)}
  ELSE IF overwrite THEN {M!Bypass(UserSpot(side, i), 1)} ELSE {}

LEMMA TenOrMore ==
  ASSUME NEW n \in Nat
  PROVE  M!Max({10, n}) \in Nat /\ M!Max({10, n}) >= 10 /\ M!Max({10, n}) >= n
<1> DEFINE S == {10, n}
<1>1. S \in SUBSET Nat /\ S # {} /\ 10 \in S /\ n \in S
  OBVIOUS
<1>2. IsFiniteSet(S)
  <2>1. IsFiniteSet({10}) /\ S = {10} \cup {n}
    BY FS_Singleton
  <2> HIDE DEF S
  <2> QED
    BY <2>1, FS_AddElement
<1> HIDE DEF S
<1>3. M!Max(S) \in S /\ \A m \in S : m <= M!Max(S)
  BY <1>1, <1>2, MaxIsGreatest, CommandOperators
<1>4. M!Max(S) \in Nat /\ 10 <= M!Max(S) /\ n <= M!Max(S)
  BY <1>1, <1>3
<1> QED
  BY <1>4 DEF S

LEMMA BiquadsOfFacts ==
  ASSUME NEW overwrite \in BOOLEAN, NEW side \in {"input", "output"},
         NEW bqs \in Seq(UserBiquads)
  PROVE  LET c == M!BiquadsOf(overwrite, side, 1, bqs)
         IN  /\ c \in Seq(Command)
             /\ \A k \in DOMAIN c : \E i \in Nat \ {0} : c[k] \in Wants(overwrite, side, bqs, i)
             /\ \A i \in 1..10 : \A m \in Wants(overwrite, side, bqs, i) :
                  \E k \in DOMAIN c : c[k] = m
<1> DEFINE c == M!BiquadsOf(overwrite, side, 1, bqs)
           n == M!Max({10, Len(bqs)})
           line(i) == IF Given(bqs, i)
                      THEN << M!Set(UserSpot(side, i), bqs[i].filter),
                              M!Bypass(UserSpot(side, i), bqs[i].bypass) >>
                      ELSE IF overwrite THEN << M!Bypass(UserSpot(side, i), M!On) >> ELSE <<>>
           ss == [i \in 1..n |-> line(i)]
<1>1. Len(bqs) \in Nat /\ n \in Nat /\ n >= 10
  BY TenOrMore
<1>2. c = M!FlattenSeq(ss)
  <2>1. \A i : M!Address(side, 1 - 1, M!Peq, i - 1) = UserSpot(side, i)
    BY CommandTypes DEF UserSpot
  <2> HIDE DEF n
  <2>2. c = M!FlattenSeq([i \in 1..n |->
             IF i <= Len(bqs) /\ bqs[i] # M!NoBiquad
             THEN << M!Set(M!Address(side, 1 - 1, M!Peq, i - 1), bqs[i].filter),
                     M!Bypass(M!Address(side, 1 - 1, M!Peq, i - 1), bqs[i].bypass) >>
             ELSE IF overwrite
                  THEN << M!Bypass(M!Address(side, 1 - 1, M!Peq, i - 1), M!On) >> ELSE <<>>])
    BY DEF M!BiquadsOf, n
  <2> QED
    BY <2>1, <2>2 DEF Given
<1> HIDE DEF c, n
<1>3. ASSUME NEW i \in 1..n
      PROVE  /\ ss[i] \in Seq(Command)
             /\ \A j \in DOMAIN ss[i] : ss[i][j] \in Wants(overwrite, side, bqs, i)
             /\ \A m \in Wants(overwrite, side, bqs, i) : \E j \in DOMAIN ss[i] : ss[i][j] = m
  <2>1. ss[i] = line(i)
    OBVIOUS
  <2>2. UserSpot(side, i) \in Addressed
    BY <1>1 DEF UserSpot, M!Address, Addressed
  <2> HIDE DEF ss
  <2>3. CASE Given(bqs, i)
    <3> DEFINE a == M!Set(UserSpot(side, i), bqs[i].filter)
               b == M!Bypass(UserSpot(side, i), bqs[i].bypass)
    <3>1. ss[i] = <<a, b>>
      BY <2>1, <2>3
    <3>2. bqs[i].filter \in Nat /\ bqs[i].bypass \in {0, 1}
      <4>1. i \in 1..Len(bqs)
        BY <1>1, <2>3 DEF Given
      <4>2. bqs[i] \in UserBiquads
        BY <4>1
      <4> QED
        BY <4>2 DEF UserBiquads
    <3>3. a \in Command /\ b \in Command
      BY <2>2, <3>2, CommandTypes
    <3>4. Wants(overwrite, side, bqs, i) = {a, b}
      BY <2>3 DEF Wants
    <3> HIDE DEF a, b
    <3> QED
      BY <3>1, <3>3, <3>4, PairFacts
  <2>4. CASE ~Given(bqs, i) /\ overwrite
    <3> DEFINE b == M!Bypass(UserSpot(side, i), 1)
    <3>1. ss[i] = <<b>>
      BY <2>1, <2>4, CommandTypes
    <3>2. b \in Command
      BY <2>2, CommandTypes
    <3>3. Wants(overwrite, side, bqs, i) = {b}
      BY <2>4 DEF Wants
    <3> HIDE DEF b
    <3>4. DOMAIN <<b>> = {1} /\ <<b>>[1] = b /\ <<b>> \in Seq(Command)
      BY <3>2
    <3> QED
      BY <3>1, <3>3, <3>4
  <2>5. CASE ~Given(bqs, i) /\ ~overwrite
    <3>1. ss[i] = <<>>
      BY <2>1, <2>5
    <3>2. Wants(overwrite, side, bqs, i) = {}
      BY <2>5 DEF Wants
    <3> QED
      BY <3>1, <3>2
  <2> QED
    BY <2>3, <2>4, <2>5
<1>4. ss = [i \in 1..n |-> ss[i]]
  OBVIOUS
<1> HIDE DEF ss
<1>5. ss \in [1..n -> Seq(Command)]
  BY <1>3, <1>4
<1>6. ss \in Seq(Seq(Command)) /\ DOMAIN ss = 1..n
  BY <1>1, <1>5, FunctionAsList
<1> DEFINE f == M!FlattenSeq(ss)
<1>7. /\ f \in Seq(Command)
      /\ \A k \in DOMAIN f : \E i \in DOMAIN ss : \E j \in DOMAIN ss[i] : f[k] = ss[i][j]
      /\ \A i \in DOMAIN ss : \A j \in DOMAIN ss[i] : \E k \in DOMAIN f : f[k] = ss[i][j]
  BY <1>6, FlattenElements
<1>8. f = c
  BY <1>2
<1> HIDE DEF f
<1>9. ASSUME NEW k \in DOMAIN f
      PROVE  \E i \in Nat \ {0} : f[k] \in Wants(overwrite, side, bqs, i)
  <2>1. PICK i \in DOMAIN ss : \E j \in DOMAIN ss[i] : f[k] = ss[i][j]
    BY <1>7
  <2>2. f[k] \in Wants(overwrite, side, bqs, i)
    BY <1>3, <1>6, <2>1
  <2>3. i \in Nat \ {0}
    BY <1>1, <1>6
  <2> QED
    BY <2>2, <2>3
<1>10. ASSUME NEW i \in 1..10, NEW m \in Wants(overwrite, side, bqs, i)
       PROVE  \E k \in DOMAIN f : f[k] = m
  <2>1. i \in 1..n
    BY <1>1
  <2>2. PICK j \in DOMAIN ss[i] : ss[i][j] = m
    BY <1>3, <2>1
  <2> QED
    BY <1>6, <1>7, <2>1, <2>2
<1>11. /\ f \in Seq(Command)
       /\ \A k \in DOMAIN f : \E i \in Nat \ {0} : f[k] \in Wants(overwrite, side, bqs, i)
       /\ \A i \in 1..10 : \A m \in Wants(overwrite, side, bqs, i) :
            \E k \in DOMAIN f : f[k] = m
  BY <1>7, <1>9, <1>10
<1> QED
  BY <1>8, <1>11, Zenon DEF c

\* One list is itself, no list is none.
LEMMA FlattenFew ==
  ASSUME NEW S, NEW s \in Seq(S)
  PROVE  M!FlattenSeq([i \in DOMAIN <<1>> |-> s]) = s
         /\ M!FlattenSeq([i \in DOMAIN <<>> |-> s]) = <<>>
<1> DEFINE one == [i \in DOMAIN <<1>> |-> s]
           none == [i \in DOMAIN <<>> |-> s]
<1>1. one \in Seq(Seq(S)) /\ Len(one) = 1 /\ one[1] = s /\ one # <<>>
  OBVIOUS
<1>2. none \in Seq(Seq(S)) /\ none = <<>>
  OBVIOUS
<1> HIDE DEF one, none
<1>3. M!FlattenSeq(one) = FlattenSeq(one) /\ M!FlattenSeq(none) = FlattenSeq(none)
  BY CommandOperators
<1>4. FlattenSeq(none) = <<>>
  BY <1>2 DEF FlattenSeq
<1>5. FlattenSeq(one) = s
  <2>1. PICK F : /\ F = [i \in 1..Len(one) |-> IF i = 1 THEN one[i] ELSE F[i - 1] \o one[i]]
                 /\ FlattenSeq(one) = F[Len(one)]
    BY <1>1, FlattenIs
  <2>2. 1 \in 1..Len(one)
    BY <1>1
  <2>3. F[1] = one[1]
    BY <2>1, <2>2
  <2> QED
    BY <1>1, <2>1, <2>3
<1> QED
  BY <1>3, <1>4, <1>5 DEF one, none

\* What a user sends for the first channel of one side.
UserCommands(overwrite, side, bqs) ==
  LET channels(s) == IF s = side THEN <<1>> ELSE <<>>
  IN  M!Biquads(overwrite, channels(M!INPUT), channels(M!OUTPUT), bqs)

LEMMA UserCommandsFacts ==
  ASSUME NEW overwrite \in BOOLEAN, NEW side \in {"input", "output"},
         NEW bqs \in Seq(UserBiquads)
  PROVE  LET c == UserCommands(overwrite, side, bqs)
         IN  /\ c = M!BiquadsOf(overwrite, side, 1, bqs)
             /\ c \in Seq(Command)
<1> DEFINE b(s) == M!BiquadsOf(overwrite, s, 1, bqs)
           of(s, channels) ==
             M!FlattenSeq([i \in DOMAIN channels |->
                             M!BiquadsOf(overwrite, s, channels[i], bqs)])
           channels(s) == IF s = side THEN <<1>> ELSE <<>>
<1>1. UserCommands(overwrite, side, bqs)
        = of("input", channels("input")) \o of("output", channels("output"))
  BY CommandTypes DEF UserCommands, M!Biquads
<1>2. \A s \in {"input", "output"} : b(s) \in Seq(Command)
  BY BiquadsOfFacts
<1>3. ASSUME NEW s \in {"input", "output"}
      PROVE  of(s, <<1>>) = b(s) /\ of(s, <<>>) = <<>>
  <2> DEFINE c == b(s)
  <2>1. [i \in DOMAIN <<1>> |-> M!BiquadsOf(overwrite, s, <<1>>[i], bqs)] = [i \in DOMAIN <<1>> |-> c]
    OBVIOUS
  <2>2. [i \in DOMAIN <<>> |-> M!BiquadsOf(overwrite, s, <<>>[i], bqs)] = [i \in DOMAIN <<>> |-> c]
    OBVIOUS
  <2>3. c \in Seq(Command)
    BY <1>2
  <2> HIDE DEF c
  <2>4. M!FlattenSeq([i \in DOMAIN <<1>> |-> c]) = c /\ M!FlattenSeq([i \in DOMAIN <<>> |-> c]) = <<>>
    BY <2>3, FlattenFew
  <2>5. of(s, <<1>>) = c /\ of(s, <<>>) = <<>>
    BY <2>1, <2>2, <2>4
  <2> QED
    BY <2>5 DEF c
<1> HIDE DEF b, of
<1>4. \A s \in {"input", "output"} : b(s) \o <<>> = b(s) /\ <<>> \o b(s) = b(s)
  BY <1>2
<1>5. CASE side = "input"
  <2>1. channels("input") = <<1>> /\ channels("output") = <<>>
    BY <1>5
  <2>2. UserCommands(overwrite, side, bqs) = b(side)
    BY <1>1, <1>3, <1>4, <1>5, <2>1
  <2> QED
    BY <1>2, <2>2 DEF b
<1>6. CASE side = "output"
  <2>1. channels("input") = <<>> /\ channels("output") = <<1>>
    BY <1>6
  <2>2. UserCommands(overwrite, side, bqs) = b(side)
    BY <1>1, <1>3, <1>4, <1>6, <2>1
  <2> QED
    BY <1>2, <2>2 DEF b
<1> QED
  BY <1>5, <1>6

\* What a user sends to overwrite a channel is all that is left there.
LEMMA BiquadsLoaded ==
  ASSUME NEW L, Layout(L), NEW side \in {"input", "output"}, NEW bqs \in Seq(UserBiquads),
         NEW before \in Holding(M!Addresses(L))
  PROVE  LET c == UserCommands(TRUE, side, bqs)
         IN  M!BiquadsExact(M!Run(c, before), side,
                            {c[i].at : i \in {j \in DOMAIN c : c[j].op = "set"}})
<1> DEFINE c == UserCommands(TRUE, side, bqs)
           D == M!Addresses(L)
           after == M!Run(c, before)
           setAt == {c[i].at : i \in {j \in DOMAIN c : c[j].op = "set"}}
<1>1. /\ c \in Seq(Command)
      /\ \A k \in DOMAIN c : \E i \in Nat \ {0} : c[k] \in Wants(TRUE, side, bqs, i)
      /\ \A i \in 1..10 : \A m \in Wants(TRUE, side, bqs, i) : \E k \in DOMAIN c : c[k] = m
  <2> DEFINE b == M!BiquadsOf(TRUE, side, 1, bqs)
  <2>1. c = b /\ c \in Seq(Command)
    BY UserCommandsFacts
  <2>2. /\ b \in Seq(Command)
        /\ \A k \in DOMAIN b : \E i \in Nat \ {0} : b[k] \in Wants(TRUE, side, bqs, i)
        /\ \A i \in 1..10 : \A m \in Wants(TRUE, side, bqs, i) : \E k \in DOMAIN b : b[k] = m
    BY BiquadsOfFacts, ZenonT(40)
  <2> HIDE DEF b, c
  <2> QED
    BY <2>1, <2>2, Zenon
<1> HIDE DEF c, after, setAt, D
<1>2. DOMAIN after = D
  <2>1. after \in Holding(D)
    BY <1>1, RunFacts DEF after, D
  <2> QED
    BY <2>1 DEF Holding
<1>3. ASSUME NEW a \in D, a.side = side, a.channel = 0, a.bank = -1, after[a].bypass = 0
      PROVE  a \in setAt
  <2>1. PICK i \in 1..10 : a = UserSpot(side, i)
    <3>1. PICK x \in DOMAIN L : a \in M!BiquadsIn(L[x], 0..(L[x].biquads - 1))
      BY DEF D, M!Addresses
    <3>2. L[x].biquads \in 0..10
      BY DEF Layout
    <3> DEFINE T == 0..(L[x].biquads - 1)
    <3>3. PICK ch \in M!Range(L[x].channels), b \in M!Banks(L[x]), i \in T :
            a = M!Address(M!Side(L[x]), ch, b, i)
      BY <3>1 DEF M!BiquadsIn
    <3>4. i + 1 \in 1..10 /\ (i + 1) - 1 = i
      BY <3>2
    <3> HIDE DEF T
    <3>5. a = M!Address(side, 0, -1, i)
      BY <1>3, <3>3 DEF M!Address
    <3> QED
      BY <3>4, <3>5 DEF UserSpot
  <2>2. UserSpot(side, i) \in Addressed
    BY DEF UserSpot, M!Address, Addressed
  <2>3. CASE Given(bqs, i)
    <3>1. bqs[i].filter \in Nat
      <4>1. i \in 1..Len(bqs)
        BY <2>3 DEF Given
      <4>2. bqs[i] \in UserBiquads
        BY <4>1
      <4> QED
        BY <4>2 DEF UserBiquads
    <3> DEFINE m == M!Set(UserSpot(side, i), bqs[i].filter)
    <3>2. m.op = "set" /\ m.at = a
      BY <2>1, <2>2, <3>1, CommandTypes
    <3>3. m \in Wants(TRUE, side, bqs, i)
      BY <2>3 DEF Wants
    <3> HIDE DEF m
    <3>4. PICK k \in DOMAIN c : c[k] = m
      BY <1>1, <3>3
    <3> QED
      BY <3>2, <3>4 DEF setAt
  <2>4. CASE ~Given(bqs, i)
    <3>1. ASSUME NEW k \in DOMAIN c, c[k].at = a, c[k].op = "bypass"
          PROVE  c[k].arg = 1
      <4>1. PICK j \in Nat \ {0} : c[k] \in Wants(TRUE, side, bqs, j)
        BY <1>1
      <4>2. UserSpot(side, j) \in Addressed
        BY DEF UserSpot, M!Address, Addressed
      <4>3. c[k].at = UserSpot(side, j)
        <5>1. Given(bqs, j) => bqs[j].filter \in Nat /\ bqs[j].bypass \in {0, 1}
          <6>1. Given(bqs, j) => j \in 1..Len(bqs)
            BY DEF Given
          <6>2. j \in 1..Len(bqs) => bqs[j] \in UserBiquads
            OBVIOUS
          <6> QED
            BY <6>1, <6>2 DEF UserBiquads
        <5> QED
          BY <4>1, <4>2, <5>1, CommandTypes DEF Wants
      <4>4. j = i
        <5>1. UserSpot(side, j).idx = UserSpot(side, i).idx
          BY <2>1, <3>1, <4>3
        <5>2. j - 1 = i - 1
          BY <5>1 DEF UserSpot, M!Address
        <5> QED
          BY <5>2
      <4>5. c[k] = M!Bypass(UserSpot(side, i), 1)
        BY <2>4, <4>1, <4>4 DEF Wants
      <4> QED
        BY <2>2, <4>5, CommandTypes
    <3> DEFINE m == M!Bypass(UserSpot(side, i), 1)
    <3>2. m.op = "bypass" /\ m.at = a
      BY <2>1, <2>2, CommandTypes
    <3>3. m \in Wants(TRUE, side, bqs, i)
      BY <2>4 DEF Wants
    <3> HIDE DEF m
    <3>4. PICK k \in DOMAIN c : c[k] = m
      BY <1>1, <3>3
    <3>5. \/ \A x \in DOMAIN c : ~(c[x].at = a /\ c[x].op = "bypass")
          \/ \E x \in DOMAIN c : c[x].at = a /\ c[x].op = "bypass" /\ after[a].bypass = c[x].arg
      BY <1>1, RunFacts DEF after, D
    <3>6. after[a].bypass = 1
      BY <3>1, <3>2, <3>4, <3>5
    <3> QED
      BY <1>3, <3>6
  <2> QED
    BY <2>3, <2>4
<1>4. \A a \in M!Live(DOMAIN after, after) : a \in D /\ after[a].bypass = 0
  BY <1>2, CommandTypes DEF M!Live
<1>5. M!BiquadsExact(after, side, setAt)
  BY <1>3, <1>4, CommandTypes DEF M!BiquadsExact
<1> QED
  BY <1>5 DEF after, setAt, c

-----------------------------------------------------------------------------
(* Every descriptor is a layout.                                           *)

LEMMA ZeroTilFacts ==
  ASSUME NEW n \in Nat, NEW m \in Int, n <= m + 1
  PROVE  /\ M!ZeroTil(n) \in Seq(0..m) /\ M!ZeroTil(n) \in Seq(Nat)
         /\ Len(M!ZeroTil(n)) = n /\ (n > 0 => M!ZeroTil(n) # <<>>)
         /\ M!IsInjective(M!ZeroTil(n))
<1> DEFINE z == M!ZeroTil(n)
           T == 0..m
<1>1. z = [i \in 1..n |-> i - 1]
  BY DEF M!ZeroTil
<1>2. \A i \in 1..n : i - 1 \in T /\ i - 1 \in Nat
  OBVIOUS
<1> HIDE DEF z, T
<1>3. z \in [1..n -> T] /\ z \in [1..n -> Nat]
  BY <1>1, <1>2
<1>4. z \in Seq(T) /\ z \in Seq(Nat) /\ Len(z) = n /\ DOMAIN z = 1..n
  BY <1>3, FunctionAsList
<1>5. n > 0 => z # <<>>
  BY <1>4
<1>6. \A i, j \in DOMAIN z : z[i] = z[j] => i = j
  BY <1>1, <1>4
<1> QED
  BY <1>4, <1>5, <1>6, CommandOperators DEF z, T

LEMMA ZeroTilLengths ==
  \A n \in 1..12 : Len(M!ZeroTil(n)) = n
<1> SUFFICES ASSUME NEW n \in 1..12
             PROVE  Len(M!ZeroTil(n)) = n
  OBVIOUS
<1>1. n \in Nat /\ 11 \in Int /\ n <= 11 + 1
  OBVIOUS
<1> QED
  BY <1>1, ZeroTilFacts

\* What makes a layout of a list of routes.
LEMMA LayoutFrom ==
  ASSUME NEW L, Len(L) \in Nat, DOMAIN L = 1..Len(L),
         \A i \in DOMAIN L : /\ L[i].biquads \in 0..10
                             /\ M!TakesBeq(L[i]) => Fit(L[i])
                             /\ L[i].name = "input" => i = 1 /\ Len(L[i].channels) \in 0..8,
         \A i, j \in DOMAIN L : /\ i < j /\ M!TakesBeq(L[i]) /\ M!TakesBeq(L[j])
                                => L[i].name # L[j].name
  PROVE  Layout(L)
<1>1. \A i \in M!Stages(L) : i \in DOMAIN L /\ M!TakesBeq(L[i]) /\ Fit(L[i])
  BY DEF M!Stages
<1>2. ASSUME NEW i \in M!Stages(L), NEW j \in M!Stages(L), i < j
      PROVE  L[i].name # L[j].name /\ L[j].name # "input"
  <2>1. j # 1
    BY <1>1, <1>2
  <2> QED
    BY <1>1, <1>2, <2>1
<1>3. M!InputRoutes(L) = {i \in DOMAIN L : L[i].name = "input"}
  BY CommandTypes DEF M!InputRoutes
<1>4. CASE M!InputRoutes(L) = {}
  <2>1. M!Shown(L) = 0
    BY <1>4 DEF M!Shown
  <2> QED
    BY <1>1, <1>2, <2>1 DEF Layout
<1>5. CASE M!InputRoutes(L) # {}
  <2>1. M!InputRoutes(L) = {1}
    BY <1>3, <1>5
  <2>2. M!Min({1}) = 1
    BY DEF M!Min
  <2>3. M!Shown(L) = Len(L[1].channels)
    BY <2>1, <2>2 DEF M!Shown
  <2>4. Len(L[1].channels) \in 0..8
    BY <1>3, <2>1
  <2> QED
    BY <1>1, <1>2, <2>3, <2>4 DEF Layout
<1> QED
  BY <1>4, <1>5

LEMMA RouteFacts ==
  ASSUME NEW name, NEW b, NEW cs, NEW ss, NEW gs
  PROVE  LET r == M!Route(name, b, cs, ss, gs)
         IN  /\ r.name = name /\ r.biquads = b /\ r.channels = cs /\ r.slots = ss
             /\ r.groups = gs
BY DEF M!Route

LEMMA RouteFits ==
  ASSUME NEW name \in {"input", "output", "crossover"}, NEW b \in 0..10,
         NEW cs \in Seq(0..11), NEW ss, ss \in Seq(0..(b - 1)), M!IsInjective(ss),
         NEW gs \in Seq(Nat), M!IsInjective(gs), name = "crossover" <=> gs # <<>>
  PROVE  Fit(M!Route(name, b, cs, ss, gs))
<1> DEFINE r == M!Route(name, b, cs, ss, gs)
<1>1. r.name = name /\ r.biquads = b /\ r.channels = cs /\ r.slots = ss /\ r.groups = gs
  BY RouteFacts
<1> HIDE DEF r
<1>2. r.slots \in Seq(0..(r.biquads - 1))
  BY <1>1, Zenon
<1>3. Fit(r)
  BY <1>1, <1>2 DEF Fit
<1> QED
  BY <1>3 DEF r

\* What is left out of a list of numbers.
LEMMA EmptyFacts ==
  /\ \A S : <<>> \in Seq(S)
  /\ M!IsInjective(<<>>)
  /\ \A name, b, cs, gs : ~M!TakesBeq(M!Route(name, b, cs, <<>>, gs))
  /\ \A name, b, ss, gs : ~M!TakesBeq(M!Route(name, b, <<>>, ss, gs))
<1>1. M!IsInjective(<<>>)
  BY CommandOperators
<1> QED
  BY <1>1 DEF M!TakesBeq, M!Route

\* The names of two and of three routes.
LEMMA TwoRoutes ==
  ASSUME NEW a, NEW b,
         \A r \in {a, b} : r.biquads \in 0..10 /\ (M!TakesBeq(r) => Fit(r)),
         a.name = "input" => Len(a.channels) \in 0..8, b.name # "input",
         M!TakesBeq(a) /\ M!TakesBeq(b) => a.name # b.name
  PROVE  Layout(<<a, b>>)
<1> DEFINE L == <<a, b>>
<1>1. Len(L) = 2 /\ DOMAIN L = {1, 2} /\ DOMAIN L = 1..Len(L) /\ L[1] = a /\ L[2] = b
  OBVIOUS
<1> HIDE DEF L
<1>2. \A i \in DOMAIN L : /\ L[i].biquads \in 0..10
                          /\ M!TakesBeq(L[i]) => Fit(L[i])
                          /\ L[i].name = "input" => i = 1 /\ Len(L[i].channels) \in 0..8
  BY <1>1
<1>3. \A i, j \in DOMAIN L : /\ i < j /\ M!TakesBeq(L[i]) /\ M!TakesBeq(L[j])
                             => L[i].name # L[j].name
  BY <1>1
<1>4. Layout(L)
  BY <1>1, <1>2, <1>3, LayoutFrom
<1> QED
  BY <1>4 DEF L

LEMMA ThreeRoutes ==
  ASSUME NEW a, NEW b, NEW c,
         \A r \in {a, b, c} : r.biquads \in 0..10 /\ (M!TakesBeq(r) => Fit(r)),
         a.name = "input" => Len(a.channels) \in 0..8, b.name # "input", c.name # "input",
         M!TakesBeq(a) /\ M!TakesBeq(b) => a.name # b.name,
         M!TakesBeq(a) /\ M!TakesBeq(c) => a.name # c.name,
         M!TakesBeq(b) /\ M!TakesBeq(c) => b.name # c.name
  PROVE  Layout(<<a, b, c>>)
<1> DEFINE L == <<a, b, c>>
<1>1. /\ Len(L) = 3 /\ Len(L) \in Nat /\ DOMAIN L = {1, 2, 3} /\ DOMAIN L = 1..Len(L)
      /\ L[1] = a /\ L[2] = b /\ L[3] = c
  OBVIOUS
<1> HIDE DEF L
<1>2. \A i \in DOMAIN L : /\ L[i].biquads \in 0..10
                          /\ M!TakesBeq(L[i]) => Fit(L[i])
                          /\ L[i].name = "input" => i = 1 /\ Len(L[i].channels) \in 0..8
  BY <1>1
<1>3. \A i, j \in DOMAIN L : /\ i < j /\ M!TakesBeq(L[i]) /\ M!TakesBeq(L[j])
                             => L[i].name # L[j].name
  BY <1>1
<1>4. Layout(L)
  BY <1>1, <1>2, <1>3, LayoutFrom
<1> QED
  BY <1>4 DEF L

\* Routes over the first channels, with the first biquads for BEQ.
Plain(name, b, n, m, gs) == M!Route(name, b, M!ZeroTil(n), M!ZeroTil(m), gs)

GroupsFor(name, gs) ==
  gs \in Seq(Nat) /\ M!IsInjective(gs) /\ (name = "crossover" <=> gs # <<>>)

LEMMA PlainFacts ==
  ASSUME NEW name, name \in {"input", "output", "crossover"}, NEW b, b \in 0..10,
         NEW n, n \in 1..12, NEW m, m \in 1..10, m <= b, NEW gs, GroupsFor(name, gs)
  PROVE  LET r == Plain(name, b, n, m, gs)
         IN  /\ Fit(r) /\ r.biquads = b /\ r.name = name /\ r.channels = M!ZeroTil(n)
<1>1. M!ZeroTil(n) \in Seq(0..11)
  <2>1. n \in Nat /\ 11 \in Int /\ n <= 11 + 1
    OBVIOUS
  <2> QED
    BY <2>1, ZeroTilFacts
<1>2. M!ZeroTil(m) \in Seq(0..(b - 1)) /\ M!IsInjective(M!ZeroTil(m))
  <2>1. m \in Nat /\ b - 1 \in Int /\ m <= (b - 1) + 1
    OBVIOUS
  <2> QED
    BY <2>1, ZeroTilFacts
<1>3. Fit(Plain(name, b, n, m, gs))
  BY <1>1, <1>2, RouteFits DEF Plain, GroupsFor
<1> QED
  BY <1>1, <1>3, RouteFacts DEF Plain

LEMMA PlainSides ==
  ASSUME NEW name, name \in {"input", "output"}, NEW b, b \in 0..10,
         NEW n, n \in 1..12, NEW m, m \in 1..10, m <= b
  PROVE  LET r == Plain(name, b, n, m, <<>>)
         IN  /\ Fit(r) /\ r.biquads = b /\ r.name = name /\ r.channels = M!ZeroTil(n)
<1>1. M!ZeroTil(n) \in Seq(0..11)
  <2>1. n \in Nat /\ 11 \in Int /\ n <= 11 + 1
    OBVIOUS
  <2> QED
    BY <2>1, ZeroTilFacts
<1>2. M!ZeroTil(m) \in Seq(0..(b - 1)) /\ M!IsInjective(M!ZeroTil(m))
  <2>1. m \in Nat /\ b - 1 \in Int /\ m <= (b - 1) + 1
    OBVIOUS
  <2> QED
    BY <2>1, ZeroTilFacts
<1>3. Fit(Plain(name, b, n, m, <<>>))
  <2>1. /\ <<>> \in Seq(Nat) /\ M!IsInjective(<<>>)
        /\ name \in {"input", "output", "crossover"} /\ (name = "crossover" <=> <<>> # <<>>)
    BY EmptyFacts
  <2> QED
    BY <1>1, <1>2, <2>1, RouteFits DEF Plain
<1> QED
  BY <1>1, <1>3, RouteFacts DEF Plain

\* A route that takes no BEQ.
LEMMA IdleFacts ==
  ASSUME NEW name, NEW b, NEW cs, NEW gs
  PROVE  LET r == M!Route(name, b, cs, <<>>, gs)
         IN  ~M!TakesBeq(r) /\ r.biquads = b /\ r.name = name
BY EmptyFacts, RouteFacts

LEMMA GroupLists ==
  /\ <<>> \in Seq(Nat) /\ M!IsInjective(<<>>)
  /\ M!ZeroTil(2) \in Seq(Nat) /\ M!IsInjective(M!ZeroTil(2)) /\ M!ZeroTil(2) # <<>>
  /\ \A gs \in {<<0>>, <<1>>, <<0, 1>>} : gs \in Seq(Nat) /\ M!IsInjective(gs) /\ gs # <<>>
<1>1. 2 \in Nat /\ 1 \in Int /\ 2 <= 1 + 1 /\ 2 > 0
  OBVIOUS
<1>2. M!ZeroTil(2) \in Seq(Nat) /\ M!IsInjective(M!ZeroTil(2)) /\ M!ZeroTil(2) # <<>>
  BY <1>1, ZeroTilFacts
<1>3. ASSUME NEW gs \in {<< 0 >>, << 1 >>, << 0, 1 >>}
      PROVE  gs \in Seq(Nat) /\ gs # <<>> /\ \A i, j \in DOMAIN gs : gs[i] = gs[j] => i = j
  <2>1. \A n \in Nat : /\ <<n>> \in Seq(Nat) /\ <<n>> # <<>>
                       /\ \A i, j \in DOMAIN <<n>> : <<n>>[i] = <<n>>[j] => i = j
    OBVIOUS
  <2>2. /\ <<0, 1>> \in Seq(Nat) /\ <<0, 1>> # <<>> /\ DOMAIN <<0, 1>> = {1, 2}
        /\ <<0, 1>>[1] = 0 /\ <<0, 1>>[2] = 1
    OBVIOUS
  <2>3. \A i, j \in DOMAIN <<0, 1>> : <<0, 1>>[i] = <<0, 1>>[j] => i = j
    BY <2>2
  <2>4. CASE gs = <<0, 1>>
    BY <2>2, <2>3, <2>4
  <2>5. CASE gs \in {<<0>>, <<1>>}
    <3>1. PICK n \in Nat : gs = <<n>>
      BY <2>5
    <3> QED
      BY <2>1, <3>1
  <2> QED
    BY <2>4, <2>5
<1> QED
  BY <1>2, <1>3, EmptyFacts, CommandOperators

LEMMA DeviceTypes ==
  /\ Layout(M!Minidsp24HD) /\ Layout(M!Minidsp812CDSP) /\ Layout(M!MinidspDDRC24)
  /\ Layout(M!Minidsp410)
  /\ \A useXo \in {<<>>, <<0>>, <<1>>, <<0, 1>>} : Layout(M!Minidsp1010(useXo))
<1>1. Layout(M!Minidsp24HD)
  <2> DEFINE a == Plain("input", 10, 2, 10, <<>>)
             b == M!Route("crossover", 4, M!ZeroTil(4), <<>>, M!ZeroTil(2))
             c == M!Route("output", 10, M!ZeroTil(4), <<>>, <<>>)
  <2>1. M!Minidsp24HD = <<a, b, c>>
    BY CommandTypes DEF M!Minidsp24HD, Plain
  <2>2. Fit(a) /\ a.biquads = 10 /\ a.name = "input" /\ Len(a.channels) \in 0..8
    <3>1. Fit(a) /\ a.biquads = 10 /\ a.name = "input" /\ a.channels = M!ZeroTil(2)
      BY PlainSides
    <3> HIDE DEF a
    <3>2. Len(M!ZeroTil(2)) = 2
      BY ZeroTilLengths
    <3>3. Len(a.channels) = 2
      BY <3>1, <3>2, Zenon
    <3> QED
      BY <3>1, <3>3
  <2>3. /\ ~M!TakesBeq(b) /\ b.biquads = 4 /\ b.name = "crossover"
        /\ ~M!TakesBeq(c) /\ c.biquads = 10 /\ c.name = "output"
    BY IdleFacts
  <2> HIDE DEF a, b, c
  <2>4. Layout(<<a, b, c>>)
    BY <2>2, <2>3, ThreeRoutes
  <2> QED
    BY <2>1, <2>4
<1>2. Layout(M!Minidsp812CDSP)
  <2> DEFINE a == Plain("input", 10, 6, 10, <<>>)
             b == M!Route("crossover", 4, M!ZeroTil(12), <<>>, M!ZeroTil(2))
             c == M!Route("output", 10, M!ZeroTil(12), <<>>, <<>>)
  <2>1. M!Minidsp812CDSP = <<a, b, c>>
    BY CommandTypes DEF M!Minidsp812CDSP, Plain
  <2>2. Fit(a) /\ a.biquads = 10 /\ a.name = "input" /\ Len(a.channels) \in 0..8
    <3>1. Fit(a) /\ a.biquads = 10 /\ a.name = "input" /\ a.channels = M!ZeroTil(6)
      BY PlainSides
    <3> HIDE DEF a
    <3>2. Len(M!ZeroTil(6)) = 6
      BY ZeroTilLengths
    <3>3. Len(a.channels) = 6
      BY <3>1, <3>2, Zenon
    <3> QED
      BY <3>1, <3>3
  <2>3. /\ ~M!TakesBeq(b) /\ b.biquads = 4 /\ b.name = "crossover"
        /\ ~M!TakesBeq(c) /\ c.biquads = 10 /\ c.name = "output"
    BY IdleFacts
  <2> HIDE DEF a, b, c
  <2>4. Layout(<<a, b, c>>)
    BY <2>2, <2>3, ThreeRoutes
  <2> QED
    BY <2>1, <2>4
<1>3. Layout(M!MinidspDDRC24)
  <2> DEFINE a == M!Route("crossover", 4, M!ZeroTil(4), <<>>, M!ZeroTil(2))
             b == Plain("output", 10, 4, 10, <<>>)
  <2>1. M!MinidspDDRC24 = <<a, b>>
    BY CommandTypes DEF M!MinidspDDRC24, Plain
  <2>2. Fit(b) /\ b.biquads = 10 /\ b.name = "output"
    BY PlainSides
  <2>3. ~M!TakesBeq(a) /\ a.biquads = 4 /\ a.name = "crossover"
    BY IdleFacts
  <2> HIDE DEF a, b
  <2>4. Layout(<<a, b>>)
    BY <2>2, <2>3, TwoRoutes
  <2> QED
    BY <2>1, <2>4
<1>4. Layout(M!Minidsp410)
  <2> DEFINE a == Plain("input", 5, 2, 5, <<>>)
             b == Plain("output", 5, 8, 5, <<>>)
  <2>1. M!Minidsp410 = <<a, b>>
    BY CommandTypes DEF M!Minidsp410, Plain
  <2>2. Fit(a) /\ a.biquads = 5 /\ a.name = "input" /\ Len(a.channels) \in 0..8
    <3>1. Fit(a) /\ a.biquads = 5 /\ a.name = "input" /\ a.channels = M!ZeroTil(2)
      BY PlainSides
    <3> HIDE DEF a
    <3>2. Len(M!ZeroTil(2)) = 2
      BY ZeroTilLengths
    <3>3. Len(a.channels) = 2
      BY <3>1, <3>2, Zenon
    <3> QED
      BY <3>1, <3>3
  <2>3. Fit(b) /\ b.biquads = 5 /\ b.name = "output"
    BY PlainSides
  <2> HIDE DEF a, b
  <2>4. Layout(<<a, b>>)
    BY <2>2, <2>3, TwoRoutes
  <2> QED
    BY <2>1, <2>4
<1>5. ASSUME NEW useXo \in {<<>>, << 0 >>, << 1 >>, << 0, 1 >>}
      PROVE  Layout(M!Minidsp1010(useXo))
  <2> DEFINE a == Plain("input", 6, 8, 6, <<>>)
             b == IF useXo = <<>> THEN Plain("output", 6, 8, 4, <<>>)
                  ELSE Plain("crossover", 4, 8, 4, useXo)
  <2>1. M!Minidsp1010(useXo) = <<a, b>>
    BY CommandTypes DEF M!Minidsp1010, Plain
  <2>2. Fit(a) /\ a.biquads = 6 /\ a.name = "input" /\ Len(a.channels) \in 0..8
    <3>1. Fit(a) /\ a.biquads = 6 /\ a.name = "input" /\ a.channels = M!ZeroTil(8)
      BY PlainSides
    <3> HIDE DEF a
    <3>2. Len(M!ZeroTil(8)) = 8
      BY ZeroTilLengths
    <3>3. Len(a.channels) = 8
      BY <3>1, <3>2, Zenon
    <3> QED
      BY <3>1, <3>3
  <2>3. CASE useXo = <<>>
    <3>1. Fit(b) /\ b.biquads = 6 /\ b.name = "output"
      BY <2>3, PlainSides
    <3> HIDE DEF a, b
    <3>2. Layout(<<a, b>>)
      BY <2>2, <3>1, TwoRoutes
    <3> QED
      BY <2>1, <3>2
  <2>4. CASE useXo # <<>>
    <3>1. b = Plain("crossover", 4, 8, 4, useXo) /\ useXo \in {<<0>>, <<1>>, <<0, 1>>}
      BY <2>4
    <3>2. useXo \in Seq(Nat) /\ M!IsInjective(useXo)
      BY <3>1, GroupLists
    <3> HIDE DEF a, b
    <3>3. Fit(b) /\ b.biquads = 4 /\ b.name = "crossover"
      <4>1. /\ "crossover" \in {"input", "output", "crossover"} /\ 4 \in 0..10 /\ 8 \in 1..12
            /\ 4 \in 1..10 /\ 4 <= 4 /\ GroupsFor("crossover", useXo)
        BY <2>4, <3>2 DEF GroupsFor
      <4>2. LET r == Plain("crossover", 4, 8, 4, useXo)
            IN  Fit(r) /\ r.biquads = 4 /\ r.name = "crossover"
        BY <3>2, <4>1, PlainFacts
      <4> QED
        BY <3>1, <4>2
    <3>4. Layout(<<a, b>>)
      BY <2>2, <3>3, TwoRoutes
    <3> QED
      BY <2>1, <3>4
  <2> QED
    BY <2>3, <2>4
<1> QED
  BY <1>1, <1>2, <1>3, <1>4, <1>5

LEMMA ConfiguredTypes ==
  ASSUME NEW channels \in Seq(0..7), Len(channels) <= 8, NEW useInputs \in BOOLEAN
  PROVE  Layout(M!MinidspDDRC88(channels)) /\ Layout(M!MinidspHTX(channels, useInputs))
<1> DEFINE x == M!Route("crossover", 8, M!ZeroTil(8), <<>>, M!ZeroTil(2))
           z == M!ZeroTil(10)
<1>1. /\ channels \in Seq(0..11) /\ Len(channels) \in 0..8
  <2> DEFINE S == 0..7
             T == 0..11
  <2>1. S \subseteq T /\ channels \in Seq(S)
    OBVIOUS
  <2> HIDE DEF S, T
  <2>2. channels \in Seq(T) /\ Len(channels) \in Nat
    BY <2>1, ListOfMore
  <2>3. channels \in Seq(0..11)
    BY <2>2, Zenon DEF T
  <2>4. Len(channels) \in 0..8
    <3> DEFINE k == Len(channels)
    <3>1. k \in Nat
      BY <2>2
    <3>2. k <= 8
      OBVIOUS
    <3> HIDE DEF k
    <3>3. k \in 0..8
      BY <3>1, <3>2
    <3> QED
      BY <3>3 DEF k
  <2> QED
    BY <2>3, <2>4, Zenon
<1>2. z \in Seq(0..(10 - 1)) /\ M!IsInjective(z)
  <2>1. 10 \in Nat /\ 10 - 1 \in Int /\ 10 <= (10 - 1) + 1
    OBVIOUS
  <2> QED
    BY <2>1, ZeroTilFacts
<1>3. ~M!TakesBeq(x) /\ x.biquads = 8 /\ x.name = "crossover"
  BY IdleFacts
<1> HIDE DEF x, z
<1>4. Layout(M!MinidspDDRC88(channels))
  <2> DEFINE b == M!Route("output", 10, channels, z, <<>>)
             c == M!Route("output", 10, M!Others(channels), <<>>, <<>>)
  <2>1. M!MinidspDDRC88(channels) = <<x, b, c>>
    BY CommandTypes DEF M!MinidspDDRC88, x, z
  <2>2. Fit(b) /\ b.biquads = 10 /\ b.name = "output"
    <3>1. "output" \in {"input", "output", "crossover"} /\ 10 \in 0..10
          /\ <<>> \in Seq(Nat) /\ M!IsInjective(<<>>) /\ ("output" = "crossover" <=> <<>> # <<>>)
      BY EmptyFacts
    <3>2. Fit(b)
      BY <1>1, <1>2, <3>1, RouteFits
    <3> QED
      BY <1>1, <3>2, RouteFacts
  <2>3. ~M!TakesBeq(c) /\ c.biquads = 10 /\ c.name = "output"
    BY IdleFacts
  <2> HIDE DEF b, c
  <2>4. Layout(<<x, b, c>>)
    BY <1>3, <2>2, <2>3, ThreeRoutes
  <2> QED
    BY <2>1, <2>4
<1>5. CASE useInputs
  <2> DEFINE a == M!Route("input", 10, channels, z, <<>>)
             c == M!Route("output", 10, <<>>, z, <<>>)
  <2>1. M!MinidspHTX(channels, useInputs) = <<a, x, c>>
    BY <1>5, CommandTypes DEF M!MinidspHTX, x, z
  <2>2. Fit(a) /\ a.biquads = 10 /\ a.name = "input" /\ Len(a.channels) \in 0..8
    <3>1. "input" \in {"input", "output", "crossover"} /\ 10 \in 0..10
          /\ <<>> \in Seq(Nat) /\ M!IsInjective(<<>>) /\ ("input" = "crossover" <=> <<>> # <<>>)
      BY EmptyFacts
    <3>2. Fit(a)
      BY <1>1, <1>2, <3>1, RouteFits
    <3> QED
      BY <1>1, <3>2, RouteFacts
  <2>3. ~M!TakesBeq(c) /\ c.biquads = 10 /\ c.name = "output"
    BY EmptyFacts, RouteFacts
  <2> HIDE DEF a, c
  <2>4. Layout(<<a, x, c>>)
    BY <1>3, <2>2, <2>3, ThreeRoutes
  <2> QED
    BY <1>4, <2>1, <2>4
<1>6. CASE ~useInputs
  BY <1>4, <1>6 DEF M!MinidspHTX
<1> QED
  BY <1>4, <1>5, <1>6

-----------------------------------------------------------------------------
(* Commands: a layout that a configuration describes.                      *)

\* At most one of each: what CustomLayout puts first, second and third.
Short(s) == Len(s) \in {0, 1}
Full(s) == Len(s) = 1
Joined(A, B, E) == A \o B \o E

\* What is in L is what A has, at 1, or B, at x, or E, at y.
Three(L, A, B, E, x, y) ==
  \A p \in DOMAIN L :
    \/ p = 1 /\ Full(A) /\ L[p] = A[1]
    \/ p = x /\ Full(B) /\ L[p] = B[1]
    \/ p = y /\ Full(E) /\ L[p] = E[1]

LEMMA InOrder ==
  ASSUME NEW S, NEW A \in Seq(S), NEW B \in Seq(S), NEW E \in Seq(S),
         Short(A), Short(B), Short(E)
  PROVE  Joined(A, B, E) \in Seq(S) /\ \E x, y : Three(Joined(A, B, E), A, B, E, x, y)
<1> DEFINE X == A \o B
           L == X \o E
           a == Len(A)
           b == Len(B)
           e == Len(E)
<1>1. /\ X \in Seq(S) /\ DOMAIN X = 1..(a + b) /\ Len(X) = a + b
      /\ DOMAIN A = 1..a /\ DOMAIN B = 1..b
      /\ \A k \in DOMAIN A : X[k] = A[k]
      /\ \A k \in DOMAIN B : X[a + k] = B[k]
  BY ConcatFacts
<1> HIDE DEF X
<1>2. /\ L \in Seq(S) /\ DOMAIN L = 1..(Len(X) + e) /\ Len(L) = Len(X) + e
      /\ DOMAIN X = 1..Len(X) /\ DOMAIN E = 1..e
      /\ \A k \in DOMAIN X : L[k] = X[k]
      /\ \A k \in DOMAIN E : L[Len(X) + k] = E[k]
  <2>1. X \in Seq(S)
    BY <1>1
  <2>2. /\ L \in Seq(S) /\ DOMAIN L = 1..(Len(X) + Len(E))
        /\ DOMAIN X = 1..Len(X) /\ DOMAIN E = 1..Len(E)
        /\ \A k \in DOMAIN X : L[k] = X[k]
        /\ \A k \in DOMAIN E : L[Len(X) + k] = E[k]
    BY <2>1, ConcatFacts
  <2>3. Len(L) = Len(X) + Len(E)
    BY <2>1
  <2> QED
    BY <2>2, <2>3
<1>3. a \in {0, 1} /\ b \in {0, 1} /\ e \in {0, 1}
  BY DEF Short
<1> HIDE DEF L, a, b, e
<1>4. DOMAIN L = 1..(a + b + e) /\ Len(L) = a + b + e
  BY <1>1, <1>2
<1>5. ASSUME NEW p \in DOMAIN L
      PROVE  \/ p = 1 /\ a = 1 /\ L[p] = A[1]
             \/ p = a + 1 /\ b = 1 /\ L[p] = B[1]
             \/ p = a + b + 1 /\ e = 1 /\ L[p] = E[1]
  <2>0. p \in 1..(a + b + e)
    BY <1>4
  <2>1. CASE p \in 1..a
    <3>1. p = 1 /\ a = 1
      BY <1>3, <2>1
    <3>2. p \in DOMAIN X /\ p \in DOMAIN A
      BY <1>1, <1>3, <2>1
    <3> QED
      BY <1>1, <1>2, <3>1, <3>2
  <2>2. CASE p \in 1..(a + b) /\ p \notin 1..a
    <3>1. p = a + 1 /\ b = 1
      BY <1>3, <2>2
    <3>2. p \in DOMAIN X /\ 1 \in DOMAIN B
      BY <1>1, <2>2, <3>1
    <3> QED
      BY <1>1, <1>2, <3>1, <3>2
  <2>3. CASE p \notin 1..(a + b)
    <3>1. p = (a + b) + 1 /\ e = 1
      BY <1>3, <2>0, <2>3
    <3>2. 1 \in DOMAIN E
      BY <1>2, <3>1
    <3> QED
      BY <1>1, <1>2, <3>1, <3>2
  <2> QED
    BY <2>1, <2>2, <2>3
<1>6. \E x, y : Three(L, A, B, E, x, y)
  <2>1. (a = 1 <=> Full(A)) /\ (b = 1 <=> Full(B)) /\ (e = 1 <=> Full(E))
    BY DEF Full, a, b, e
  <2> DEFINE x == a + 1
             y == a + b + 1
  <2>2. \A p \in DOMAIN L : \/ p = 1 /\ Full(A) /\ L[p] = A[1]
                            \/ p = x /\ Full(B) /\ L[p] = B[1]
                            \/ p = y /\ Full(E) /\ L[p] = E[1]
    BY <1>5, <2>1
  <2>3. Three(L, A, B, E, x, y)
    BY <2>2 DEF Three
  <2> HIDE DEF x, y
  <2> QED
    BY <2>3
<1>7. L = Joined(A, B, E) /\ L \in Seq(S)
  BY <1>2 DEF L, X, Joined
<1> QED
  BY <1>6, <1>7

\* Lists that are all empty, put together.
LEMMA FlattenEmpty ==
  ASSUME NEW S, NEW ss \in Seq(Seq(S)), \A i \in DOMAIN ss : ss[i] = <<>>
  PROVE  M!FlattenSeq(ss) = <<>>
<1> DEFINE f == M!FlattenSeq(ss)
<1>1. /\ f \in Seq(S)
      /\ \A k \in DOMAIN f : \E i \in DOMAIN ss : \E j \in DOMAIN ss[i] : f[k] = ss[i][j]
  BY FlattenElements
<1> HIDE DEF f
<1>2. DOMAIN f = {}
  <2>1. DOMAIN <<>> = {}
    OBVIOUS
  <2>2. \A i \in DOMAIN ss : DOMAIN ss[i] = {}
    BY <2>1
  <2> QED
    BY <1>1, <2>2
<1>3. f = <<>>
  BY <1>1, <1>2
<1> QED
  BY <1>3 DEF f

LEMMA DescribedFacts ==
  ASSUME NEW routes, M!DescribesDevice(routes)
  PROVE  /\ routes \in Seq(M!Routes)
         /\ \A i, j \in DOMAIN routes : routes[i].name = routes[j].name => i = j
         /\ \A i \in DOMAIN routes :
              /\ routes[i] \in M!Routes /\ Fit(routes[i])
              /\ routes[i].name = "input" => Len(routes[i].channels) \in 0..8
<1>1. routes \in Seq(M!Routes)
  BY DEF M!DescribesDevice
<1> DEFINE names == [i \in DOMAIN routes |-> routes[i].name]
<1>2. M!IsInjective(names)
  BY DEF M!DescribesDevice
<1>3. DOMAIN names = DOMAIN routes /\ \A i \in DOMAIN routes : names[i] = routes[i].name
  OBVIOUS
<1> HIDE DEF names
<1>4. \A i, j \in DOMAIN routes : routes[i].name = routes[j].name => i = j
  BY <1>2, <1>3, CommandOperators
<1>5. ASSUME NEW i \in DOMAIN routes
      PROVE  /\ routes[i] \in M!Routes /\ Fit(routes[i])
             /\ routes[i].name = "input" => Len(routes[i].channels) \in 0..8
  <2> DEFINE r == routes[i]
  <2>1. r \in M!Routes
    BY <1>1
  <2>2. /\ r.name = "crossover" <=> r.groups # <<>>
        /\ r.name = "input" => Len(r.channels) <= 8
        /\ M!Range(r.slots) \subseteq 0..(r.biquads - 1)
        /\ M!IsInjective(r.slots) /\ M!IsInjective(r.groups)
    BY CommandTypes DEF M!DescribesDevice
  <2> HIDE DEF r
  <2>3. /\ r.name \in {"input", "output", "crossover"} /\ r.biquads \in 0..10
        /\ r.channels \in Seq(0..11) /\ r.slots \in Seq(0..9) /\ r.groups \in Seq(Nat)
    BY <2>1, CommandTypes DEF M!Routes
  <2>4. r.slots \in Seq(0..(r.biquads - 1))
    <3> DEFINE T == 0..(r.biquads - 1)
               s == r.slots
               n == Len(s)
    <3>1. n \in Nat /\ DOMAIN s = 1..n /\ s = [x \in 1..n |-> s[x]]
      BY <2>3, SMTT(30)
    <3>2. \A x \in DOMAIN s : s[x] \in T
      BY <2>2, CommandOperators
    <3> HIDE DEF T, s, n
    <3>3. s \in [1..n -> T]
      BY <3>1, <3>2
    <3>4. s \in Seq(T)
      BY <3>1, <3>3, FunctionAsList
    <3> QED
      BY <3>4 DEF s, T
  <2>5. Fit(r)
    BY <2>2, <2>3, <2>4, Zenon DEF Fit
  <2>6. r.name = "input" => Len(r.channels) \in 0..8
    <3> DEFINE k == Len(r.channels)
    <3>1. k \in Nat
      BY <2>3
    <3>2. r.name = "input" => k <= 8
      BY <2>2
    <3> HIDE DEF k
    <3>3. r.name = "input" => k \in 0..8
      BY <3>1, <3>2
    <3> QED
      BY <3>3 DEF k
  <2> QED
    BY <2>1, <2>5, <2>6 DEF r
<1> QED
  BY <1>1, <1>4, <1>5

\* The route of one kind, if there is one.
FirstOf(routes, name) ==
  IF {i \in DOMAIN routes : routes[i].name = name} = {} THEN <<>>
  ELSE << routes[M!Min({i \in DOMAIN routes : routes[i].name = name})] >>

LEMMA LeastPlace ==
  ASSUME NEW S, NEW s \in Seq(S), NEW T \in SUBSET DOMAIN s, T # {}
  PROVE  M!Min(T) \in T
<1>1. T \in SUBSET Nat
  OBVIOUS
<1>2. \E n \in T : \A m \in T : n <= m
  BY <1>1, LeastNumber
<1> QED
  BY <1>2 DEF M!Min

LEMMA FirstFacts ==
  ASSUME NEW routes, M!DescribesDevice(routes), NEW name
  PROVE  /\ FirstOf(routes, name) \in Seq(M!Routes) /\ Len(FirstOf(routes, name)) \in {0, 1}
         /\ Len(FirstOf(routes, name)) = 1
              => \E i \in DOMAIN routes : FirstOf(routes, name)[1] = routes[i] /\ routes[i].name = name
<1> DEFINE Named == {i \in DOMAIN routes : routes[i].name = name}
           f == FirstOf(routes, name)
<1>1. CASE Named = {}
  <2>1. f = <<>>
    BY <1>1 DEF FirstOf
  <2> HIDE DEF f
  <2>2. f \in Seq(M!Routes) /\ Len(f) = 0
    BY <2>1
  <2> QED
    BY <2>2 DEF f
<1>2. CASE Named # {}
  <2> DEFINE x == M!Min(Named)
  <2>1. f = << routes[x] >>
    BY <1>2 DEF FirstOf
  <2>2. routes \in Seq(M!Routes) /\ Named \in SUBSET DOMAIN routes
    BY DescribedFacts
  <2>3. x \in Named
    <3> HIDE DEF Named
    <3> QED
      BY <1>2, <2>2, LeastPlace
  <2> DEFINE r == routes[x]
  <2>4. x \in DOMAIN routes /\ r.name = name /\ r \in M!Routes
    BY <2>3, DescribedFacts
  <2>5. f = <<r>>
    BY <2>1
  <2> HIDE DEF f, r, Named
  <2>6. f \in Seq(M!Routes) /\ Len(f) = 1 /\ f[1] = r
    BY <2>4, <2>5
  <2> QED
    BY <2>4, <2>6 DEF f, r
<1> QED
  BY <1>1, <1>2

\* A descriptor of the configuration is its routes, in the order of their kinds.
LEMMA CustomIs ==
  ASSUME NEW routes, M!DescribesDevice(routes)
  PROVE  M!CustomLayout(routes)
           = FirstOf(routes, "input") \o FirstOf(routes, "crossover") \o FirstOf(routes, "output")
<1> DEFINE Named(n) == {i \in DOMAIN routes : routes[i].name = n}
           extra == [i \in DOMAIN routes |->
                       IF i = M!Min(Named(routes[i].name)) THEN <<>> ELSE << routes[i] >>]
           L == FirstOf(routes, "input") \o FirstOf(routes, "crossover") \o FirstOf(routes, "output")
<1>1. M!CustomLayout(routes) = L \o M!FlattenSeq(extra)
  BY CommandTypes DEF M!CustomLayout, FirstOf
<1>2. routes \in Seq(M!Routes) /\ DOMAIN routes = 1..Len(routes) /\ Len(routes) \in Nat
  BY DescribedFacts
<1>3. ASSUME NEW i \in DOMAIN routes
      PROVE  i = M!Min(Named(routes[i].name))
  <2> DEFINE T == Named(routes[i].name)
  <2>1. T \in SUBSET DOMAIN routes /\ T # {} /\ \A j \in T : j = i
    BY DescribedFacts
  <2> HIDE DEF T
  <2>2. M!Min(T) \in T
    BY <1>2, <2>1, LeastPlace
  <2>3. i = M!Min(T)
    BY <2>1, <2>2
  <2> QED
    BY <2>3 DEF T
<1>4. extra \in Seq(Seq(M!Routes)) /\ \A i \in DOMAIN extra : extra[i] = <<>>
  <2>1. extra = [i \in 1..Len(routes) |-> extra[i]] /\ DOMAIN extra = DOMAIN routes
    BY <1>2
  <2>2. ASSUME NEW i \in DOMAIN routes
        PROVE  extra[i] = <<>>
    BY <1>3
  <2> HIDE DEF extra
  <2>3. \A i \in 1..Len(routes) : extra[i] \in Seq(M!Routes)
    <3>1. <<>> \in Seq(M!Routes)
      BY EmptyFacts
    <3> QED
      BY <1>2, <2>2, <3>1, Zenon
  <2>4. extra \in [1..Len(routes) -> Seq(M!Routes)]
    BY <2>1, <2>3
  <2> QED
    BY <1>2, <2>1, <2>2, <2>4, FunctionAsList
<1> HIDE DEF extra
<1>5. M!FlattenSeq(extra) = <<>>
  BY <1>4, FlattenEmpty
<1>6. L \in Seq(M!Routes)
  <2>1. \A n : FirstOf(routes, n) \in Seq(M!Routes)
    BY FirstFacts
  <2> QED
    BY <2>1
<1> HIDE DEF L
<1>7. L \o <<>> = L
  BY <1>6
<1> QED
  BY <1>1, <1>5, <1>7 DEF L

LEMMA CustomLayouts ==
  ASSUME NEW routes, M!DescribesDevice(routes)
  PROVE  Layout(M!CustomLayout(routes))
<1> DEFINE A == FirstOf(routes, "input")
           B == FirstOf(routes, "crossover")
           E == FirstOf(routes, "output")
           L == Joined(A, B, E)
<1>1. /\ A \in Seq(M!Routes) /\ Len(A) \in {0, 1}
      /\ Len(A) = 1 => \E i \in DOMAIN routes : A[1] = routes[i] /\ routes[i].name = "input"
  BY FirstFacts
<1>2. /\ B \in Seq(M!Routes) /\ Len(B) \in {0, 1}
      /\ Len(B) = 1 => \E i \in DOMAIN routes : B[1] = routes[i] /\ routes[i].name = "crossover"
  BY FirstFacts
<1>3. /\ E \in Seq(M!Routes) /\ Len(E) \in {0, 1}
      /\ Len(E) = 1 => \E i \in DOMAIN routes : E[1] = routes[i] /\ routes[i].name = "output"
  BY FirstFacts
<1>4. M!CustomLayout(routes) = L
  BY CustomIs DEF Joined
<1> HIDE DEF A, B, E
<1>5. L \in Seq(M!Routes) /\ \E x, y : Three(L, A, B, E, x, y)
  <2>1. Short(A) /\ Short(B) /\ Short(E)
    BY <1>1, <1>2, <1>3 DEF Short
  <2>2. A \in Seq(M!Routes) /\ B \in Seq(M!Routes) /\ E \in Seq(M!Routes)
    BY <1>1, <1>2, <1>3
  <2> QED
    BY <2>1, <2>2, InOrder
<1> HIDE DEF L
<1>0. PICK x, y : Three(L, A, B, E, x, y)
  BY <1>5
<1>6. ASSUME NEW p \in DOMAIN L
      PROVE  /\ \E i \in DOMAIN routes : L[p] = routes[i]
             /\ \/ p = 1 /\ L[p].name = "input"
                \/ p = x /\ L[p].name = "crossover"
                \/ p = y /\ L[p].name = "output"
  BY <1>0, <1>1, <1>2, <1>3 DEF Full, Three
<1>7. ASSUME NEW p \in DOMAIN L
      PROVE  /\ L[p].biquads \in 0..10 /\ Fit(L[p])
             /\ L[p].name = "input" => p = 1 /\ Len(L[p].channels) \in 0..8
  <2>1. PICK i \in DOMAIN routes : L[p] = routes[i]
    BY <1>6
  <2>2. Fit(routes[i]) /\ (routes[i].name = "input" => Len(routes[i].channels) \in 0..8)
    BY DescribedFacts
  <2>3. L[p].name = "input" => p = 1
    BY <1>6
  <2>4. Fit(L[p]) /\ (L[p].name = "input" => Len(L[p].channels) \in 0..8)
    BY <2>1, <2>2, Zenon
  <2>5. L[p].biquads \in 0..10
    BY <2>4 DEF Fit
  <2> QED
    BY <2>3, <2>4, <2>5, Zenon
<1>8. ASSUME NEW p \in DOMAIN L, NEW q \in DOMAIN L, p < q
      PROVE  L[p].name # L[q].name
  <2>1. p # q
    <3>1. p \in Nat /\ q \in Nat
      BY <1>5
    <3> QED
      BY <1>8, <3>1
  <2> QED
    BY <1>6, <2>1
<1>9. Layout(L)
  BY <1>5, <1>7, <1>8, LayoutFrom
<1> QED
  BY <1>4, <1>9

\* Every descriptor, of whatever device, is a layout.
LEMMA DescriptorsFit ==
  ASSUME M!Constants
  PROVE  \A L \in M!Descriptors : Layout(L)
<1> SUFFICES ASSUME NEW L \in M!Descriptors
             PROVE  Layout(L)
  OBVIOUS
<1>1. CASE L \in {M!Minidsp24HD, M!Minidsp812CDSP, M!MinidspDDRC24, M!Minidsp410}
  BY <1>1, DeviceTypes
<1>2. CASE \E useXo \in {<<>>, <<0>>, <<1>>, <<0, 1>>} : L = M!Minidsp1010(useXo)
  BY <1>2, DeviceTypes
<1>3. ASSUME NEW channels \in SwChannels
      PROVE  channels \in Seq(0..7) /\ Len(channels) <= 8
  BY DEF M!Constants
<1>4. CASE \E channels \in SwChannels : L = M!MinidspDDRC88(channels)
  <2>1. PICK channels \in SwChannels : L = M!MinidspDDRC88(channels)
    BY <1>4
  <2>2. TRUE \in BOOLEAN
    OBVIOUS
  <2> QED
    BY <1>3, <2>1, <2>2, ConfiguredTypes
<1>5. CASE \E channels \in SwChannels, useInputs \in BOOLEAN : L = M!MinidspHTX(channels, useInputs)
  <2>1. PICK channels \in SwChannels, useInputs \in BOOLEAN : L = M!MinidspHTX(channels, useInputs)
    BY <1>5
  <2> QED
    BY <1>3, <2>1, ConfiguredTypes
<1>6. CASE \E routes \in Described : L = M!CustomLayout(routes)
  <2>1. PICK routes \in Described : L = M!CustomLayout(routes)
    BY <1>6
  <2>2. M!DescribesDevice(routes)
    BY DEF M!Constants
  <2> QED
    BY <2>1, <2>2, CustomLayouts
<1> QED
  BY <1>1, <1>2, <1>4, <1>5, <1>6 DEF M!Descriptors

-----------------------------------------------------------------------------
(* Commands: the type invariant and what is in the device.                 *)

\* The invariant: it needs no more than what it is to show.
CommandsInv == M!TypeOK /\ M!ContentsExact

\* The types, part by part.
CommandsTypes ==
  /\ layout \in M!Descriptors /\ device \in Holding(M!Addresses(layout))
  /\ gain \in [0..7 -> {0, 1}] /\ gains \in [1..M!Shown(layout) -> {0, 1}]
  /\ unsure \subseteq 1..M!Shown(layout)
  /\ holds.filters \in Nat /\ holds.at \subseteq M!Addresses(layout)
  /\ steps \in 0..MaxSteps

\* What is in the biquads, and the gains shown.
BiquadsHeld ==
  /\ holds.by = "entry" => M!EntryExact(layout, device, holds.filters)
  /\ holds.by \in {"input", "output"} => M!BiquadsExact(device, holds.by, holds.at)
GainsShown == \A c \in DOMAIN gains \ unsure : gain[c - 1] = gains[c]

LEMMA CommandsParts ==
  /\ CommandsInv <=> CommandsTypes /\ BiquadsHeld /\ GainsShown
  /\ CommandsInv' <=> CommandsTypes' /\ BiquadsHeld' /\ GainsShown'
<1>1. \A D : [D -> [filter : Nat, bypass : {M!On, M!Off}]] = Holding(D)
  BY CommandTypes DEF Holding, Held
<1>2. \A n : \A f \in [1..n -> {0, 1}] : DOMAIN f = 1..n
  OBVIOUS
<1>3. M!TypeOK <=> CommandsTypes
  BY <1>1, <1>2 DEF M!TypeOK, CommandsTypes
<1>4. M!ContentsExact <=> BiquadsHeld /\ GainsShown
  BY CommandTypes DEF M!ContentsExact, GainsShown, BiquadsHeld
<1>5. M!TypeOK' <=> CommandsTypes'
  BY <1>1, <1>2 DEF M!TypeOK, CommandsTypes
<1>6. M!ContentsExact' <=> BiquadsHeld' /\ GainsShown'
  BY CommandTypes DEF M!ContentsExact, GainsShown, BiquadsHeld
<1> QED
  BY <1>3, <1>4, <1>5, <1>6 DEF CommandsInv

LEMMA CommandsStart ==
  ASSUME M!Init
  PROVE  CommandsInv
<1> DEFINE D == M!Addresses(layout)
           n == M!Shown(layout)
<1>1. /\ layout \in M!Descriptors
      /\ device = [a \in D |-> [filter |-> 0, bypass |-> 0]]
      /\ gain = [i \in 0..7 |-> 0] /\ gains = [c \in 1..n |-> 0]
      /\ holds = [by |-> "nobody", filters |-> 0, at |-> {}]
      /\ unsure = {} /\ steps = 0
  BY CommandTypes DEF M!Init, M!Unknown
<1>2. Layout(layout) /\ n \in 0..8 /\ MaxSteps \in Nat
  <2>1. M!Constants
    BY DevicesAssumption
  <2>2. Layout(layout)
    BY <1>1, <2>1, DescriptorsFit
  <2> QED
    BY <2>1, <2>2 DEF Layout, M!Constants
<1> HIDE DEF D, n
<1>3. device \in Holding(D)
  BY <1>1 DEF Holding, Held
<1>4. gain \in [0..7 -> {0, 1}] /\ gains \in [1..n -> {0, 1}]
  BY <1>1
<1>5. CommandsTypes
  BY <1>1, <1>2, <1>3, <1>4 DEF CommandsTypes, D, n
<1>6. \A c \in DOMAIN gains : gain[c - 1] = gains[c]
  <2>1. \A c \in 1..n : c - 1 \in 0..7
    BY <1>2
  <2> QED
    BY <1>1, <2>1
<1>7. BiquadsHeld /\ GainsShown
  BY <1>1, <1>6 DEF BiquadsHeld, GainsShown
<1> QED
  BY <1>5, <1>7, CommandsParts

\* Lists of numbers, as entries.
LEMMA EntryFacts ==
  ASSUME NEW n \in Nat
  PROVE  /\ M!Entry(n) \in Seq(Nat) /\ Len(M!Entry(n)) = n
         /\ \A i \in DOMAIN M!Entry(n) : M!Entry(n)[i] = i
<1> DEFINE e == M!Entry(n)
<1>1. e = [i \in 1..n |-> i]
  BY DEF M!Entry
<1> HIDE DEF e
<1>2. e \in [1..n -> Nat]
  BY <1>1
<1>3. e \in Seq(Nat) /\ Len(e) = n /\ DOMAIN e = 1..n
  BY <1>2, FunctionAsList
<1> QED
  BY <1>1, <1>3 DEF e

LEMMA EntriesFacts ==
  ASSUME CommandsTypes
  PROVE  /\ Layout(layout)
         /\ \A e \in M!Entries : e \in Seq(Nat) /\ \A i \in DOMAIN e : e[i] = i
<1>1. Layout(layout)
  BY DevicesAssumption, DescriptorsFit DEF CommandsTypes
<1>2. Len(M!Allocated(layout)) \in Nat
  BY <1>1, AllocatedFacts
<1>3. ASSUME NEW e \in M!Entries
      PROVE  \E n \in Nat : e = M!Entry(n)
  <2>1. 1 \in Nat /\ Len(M!Allocated(layout)) + 1 \in Nat
    BY <1>2
  <2> QED
    BY <1>2, <2>1 DEF M!Entries
<1> QED
  BY <1>1, <1>3, EntryFacts

\* Most of the operations leave the gains alone, and some of what the biquads
\* should hold is not known.
KeepsGains == layout' = layout /\ gain' = gain /\ gains' = gains /\ unsure' = unsure
OneStep == steps < MaxSteps /\ steps' = steps + 1

LEMMA DeviceKept ==
  ASSUME CommandsTypes, GainsShown, KeepsGains, OneStep,
         device' \in Holding(M!Addresses(layout)),
         holds'.filters \in Nat, holds'.at \subseteq M!Addresses(layout), BiquadsHeld'
  PROVE  CommandsInv'
<1>1. steps' \in 0..MaxSteps
  BY DevicesAssumption DEF CommandsTypes, OneStep, M!Constants
<1>2. CommandsTypes'
  BY <1>1 DEF CommandsTypes, KeepsGains
<1>3. GainsShown'
  BY DEF GainsShown, KeepsGains
<1> QED
  BY <1>2, <1>3, CommandsParts

LEMMA NothingHeld ==
  ASSUME holds' = M!Unknown
  PROVE  BiquadsHeld' /\ holds'.filters \in Nat /\ holds'.at = {}
<1>1. holds'.by = "nobody" /\ holds'.filters = 0 /\ holds'.at = {}
  BY DEF M!Unknown
<1> QED
  BY <1>1 DEF BiquadsHeld

LEMMA EntryKept ==
  ASSUME CommandsInv, M!LoadFilter
  PROVE  CommandsInv'
<1>1. CommandsTypes /\ GainsShown
  BY CommandsParts
<1>2. PICK e \in M!Entries :
        /\ ~M!TooMany(e, layout) /\ device' = M!Run(M!Filt(e, layout), device)
        /\ holds' = [by |-> "entry", filters |-> Len(e), at |-> {}]
  BY DEF M!LoadFilter
<1>3. KeepsGains /\ OneStep
  BY DEF M!LoadFilter, M!Step, KeepsGains, OneStep
<1>4. Layout(layout) /\ e \in Seq(Nat) /\ \A i \in DOMAIN e : e[i] = i
  BY <1>1, EntriesFacts
<1>5. device \in Holding(M!Addresses(layout))
  BY <1>1 DEF CommandsTypes
<1>6. device' \in Holding(M!Addresses(layout))
  BY <1>2, <1>4, <1>5, FiltFacts, RunFacts
<1>7. M!EntryExact(layout, device', Len(e))
  BY <1>2, <1>4, <1>5, EntryLoaded
<1>8. holds'.by = "entry" /\ holds'.filters = Len(e) /\ holds'.at = {} /\ Len(e) \in Nat
  BY <1>2, <1>4
<1>9. BiquadsHeld'
  BY <1>3, <1>7, <1>8 DEF BiquadsHeld, KeepsGains
<1> QED
  BY <1>1, <1>3, <1>6, <1>8, <1>9, DeviceKept

\* Commands of which some are not carried out.
LEMMA PartFacts ==
  ASSUME NEW cs \in Seq(Command), NEW n \in 0..Len(cs)
  PROVE  M!Part(cs, n) \in Seq(Command)
BY DEF M!Part

LEMMA LoadFailsKept ==
  ASSUME CommandsInv, M!LoadFails
  PROVE  CommandsInv'
<1>1. CommandsTypes /\ GainsShown
  BY CommandsParts
<1>2. PICK e \in M!Entries :
        \E n \in {1, Len(M!Filt(e, layout)) \div 2} \cap 0..Len(M!Filt(e, layout)) :
          device' = M!Run(M!Part(M!Filt(e, layout), n), device)
  BY DEF M!LoadFails
<1>3. KeepsGains /\ OneStep /\ holds' = M!Unknown
  BY DEF M!LoadFails, M!Step, KeepsGains, OneStep
<1>4. Layout(layout) /\ e \in Seq(Nat)
  BY <1>1, EntriesFacts
<1>5. device \in Holding(M!Addresses(layout))
  BY <1>1 DEF CommandsTypes
<1>6. device' \in Holding(M!Addresses(layout))
  <2> DEFINE c == M!Filt(e, layout)
  <2>1. c \in Seq(Command)
    BY <1>4, FiltFacts
  <2>2. PICK n \in 0..Len(c) : device' = M!Run(M!Part(c, n), device)
    BY <1>2
  <2> HIDE DEF c
  <2>3. M!Part(c, n) \in Seq(Command)
    BY <2>1, PartFacts
  <2> QED
    BY <1>5, <2>2, <2>3, RunFacts
<1>7. BiquadsHeld' /\ holds'.filters \in Nat /\ holds'.at = {}
  BY <1>3, NothingHeld
<1> QED
  BY <1>1, <1>3, <1>6, <1>7, DeviceKept

\* What is cleared, of the inputs that take BEQ.
LEMMA ClearedFacts ==
  ASSUME Layout(layout), NEW c, NEW i \in M!InputRoutes(layout), M!TakesBeq(layout[i]),
         M!Contains(layout[i].channels, c)
  PROVE  c \in M!ClearedInputs(layout)
<1>1. i \in DOMAIN layout /\ layout[i].name = M!INPUT
  BY DEF M!InputRoutes
<1>2. Fit(layout[i])
  BY <1>1 DEF Layout, M!Stages
<1>3. DOMAIN layout[i].channels = 1..Len(layout[i].channels)
  BY <1>2, ListOfMore DEF Fit
<1>4. c \in M!Range(layout[i].channels)
  BY <1>3, CommandOperators
<1> QED
  BY <1>1, <1>4 DEF M!ClearedInputs

\* The channels shown are inputs of the device.
LEMMA ShownFacts ==
  ASSUME CommandsTypes
  PROVE  /\ Layout(layout)
         /\ DOMAIN gains = 1..M!Shown(layout) /\ DOMAIN gain = 0..7
         /\ \A c \in DOMAIN gains : c \in 1..8 /\ c - 1 \in DOMAIN gain
<1>1. Layout(layout)
  BY EntriesFacts
<1>2. M!Shown(layout) \in 0..8
  BY <1>1 DEF Layout
<1>3. DOMAIN gains = 1..M!Shown(layout) /\ DOMAIN gain = 0..7
  BY DEF CommandsTypes
<1> QED
  BY <1>1, <1>2, <1>3

LEMMA ClearKept ==
  ASSUME CommandsInv, M!ClearFilter
  PROVE  CommandsInv'
<1>1. CommandsTypes /\ GainsShown
  BY CommandsParts
<1>2. /\ device' = M!Run(M!Filt(<<>>, layout), device)
      /\ holds' = [by |-> "entry", filters |-> 0, at |-> {}]
      /\ layout' = layout /\ OneStep /\ M!Reset
  BY DEF M!ClearFilter, M!Step, OneStep
<1> DEFINE none == <<>>
<1>3. none \in Seq(Nat) /\ Len(none) = 0 /\ DOMAIN none = {}
  OBVIOUS
<1>4. device' = M!Run(M!Filt(none, layout), device)
  BY <1>2
<1> HIDE DEF none
<1>5. /\ Layout(layout) /\ DOMAIN gains = 1..M!Shown(layout) /\ DOMAIN gain = 0..7
      /\ \A c \in DOMAIN gains : c \in 1..8 /\ c - 1 \in DOMAIN gain
  BY <1>1, ShownFacts
<1>6. device \in Holding(M!Addresses(layout))
  BY <1>1 DEF CommandsTypes
<1>7. device' \in Holding(M!Addresses(layout))
  BY <1>3, <1>4, <1>5, <1>6, FiltFacts, RunFacts
<1>8. M!EntryExact(layout, device', 0)
  <2>1. ~M!TooMany(none, layout)
    <3>1. Len(M!Allocated(layout)) \in Nat
      BY <1>5, AllocatedFacts
    <3> QED
      BY <1>3, <3>1 DEF M!TooMany
  <2>2. M!EntryExact(layout, device', Len(none))
    BY <1>3, <1>4, <1>5, <1>6, <2>1, EntryLoaded
  <2> QED
    BY <1>3, <2>2
<1>9. BiquadsHeld'
  <2>1. holds'.by = "entry" /\ holds'.filters = 0
    BY <1>2
  <2> QED
    BY <1>2, <1>8, <2>1 DEF BiquadsHeld
<1>10. /\ gain' = [i \in DOMAIN gain |-> IF i \in M!ClearedInputs(layout) THEN 0 ELSE gain[i]]
       /\ gains' = [c \in DOMAIN gains |-> 0]
       /\ unsure' = {c \in DOMAIN gains :
                       ~ \E i \in M!InputRoutes(layout) : /\ M!TakesBeq(layout[i])
                                                     /\ M!Contains(layout[i].channels, c - 1)}
  BY <1>2 DEF M!Reset
<1>11. CommandsTypes'
  <2>1. steps' \in 0..MaxSteps
    BY <1>1, <1>2, DevicesAssumption DEF CommandsTypes, OneStep, M!Constants
  <2>2. gain' \in [0..7 -> {0, 1}]
    <3>1. gain \in [0..7 -> {0, 1}]
      BY <1>1 DEF CommandsTypes
    <3> QED
      BY <1>5, <1>10, <3>1
  <2>3. gains' \in [1..M!Shown(layout) -> {0, 1}] /\ unsure' \subseteq 1..M!Shown(layout)
    BY <1>5, <1>10
  <2>4. holds'.filters \in Nat /\ holds'.at \subseteq M!Addresses(layout)
    BY <1>2
  <2> QED
    BY <1>1, <1>2, <1>7, <2>1, <2>2, <2>3, <2>4 DEF CommandsTypes
<1>12. GainsShown'
  <2>1. SUFFICES ASSUME NEW c \in DOMAIN gains' \ unsure'
                 PROVE  gain'[c - 1] = gains'[c]
    BY DEF GainsShown
  <2>2. c \in DOMAIN gains /\ gains'[c] = 0
    BY <1>10
  <2>3. PICK i \in M!InputRoutes(layout) : /\ M!TakesBeq(layout[i])
                                      /\ M!Contains(layout[i].channels, c - 1)
    BY <1>10, <2>2
  <2>4. c - 1 \in M!ClearedInputs(layout)
    BY <1>5, <2>3, ClearedFacts
  <2> QED
    BY <1>5, <1>10, <2>2, <2>4
<1> QED
  BY <1>9, <1>11, <1>12, CommandsParts

LEMMA ClearFailsKept ==
  ASSUME CommandsInv, M!ClearFails
  PROVE  CommandsInv'
<1>1. CommandsTypes /\ GainsShown
  BY CommandsParts
<1> DEFINE none == <<>>
           c == M!Filt(none, layout)
           Lost(inputs) ==
             /\ gain' = [i \in DOMAIN gain |-> IF i \in inputs THEN 0 ELSE gain[i]]
             /\ unsure' = unsure \cup {d \in DOMAIN gains : d - 1 \in inputs}
<1>2. /\ OneStep /\ holds' = M!Unknown /\ layout' = layout /\ gains' = gains
      /\ \/ device' = M!Run(M!Part(c, Len(c) \div 2), device) /\ Lost({})
         \/ /\ device' = M!Run(c, device)
            /\ \E i \in M!ClearedInputs(layout) : Lost({i})
  BY DEF M!ClearFails, M!Step, OneStep
<1>3. none \in Seq(Nat)
  OBVIOUS
<1>4. /\ Layout(layout) /\ DOMAIN gains = 1..M!Shown(layout) /\ DOMAIN gain = 0..7
      /\ \A d \in DOMAIN gains : d \in 1..8 /\ d - 1 \in DOMAIN gain
  BY <1>1, ShownFacts
<1>5. device \in Holding(M!Addresses(layout))
  BY <1>1 DEF CommandsTypes
<1> HIDE DEF none
<1>6. c \in Seq(Command)
  BY <1>3, <1>4, FiltFacts
<1> HIDE DEF c
<1>7. device' \in Holding(M!Addresses(layout))
  <2>1. Len(c) \div 2 \in 0..Len(c)
    BY <1>6
  <2>2. M!Part(c, Len(c) \div 2) \in Seq(Command)
    BY <1>6, <2>1, PartFacts
  <2>3. CASE device' = M!Run(c, device)
    BY <1>5, <1>6, <2>3, RunFacts
  <2>4. CASE device' = M!Run(M!Part(c, Len(c) \div 2), device)
    BY <1>5, <2>2, <2>4, RunFacts
  <2> QED
    BY <1>2, <2>3, <2>4
<1>8. PICK inputs : Lost(inputs)
  BY <1>2
<1>9. gain \in [0..7 -> {0, 1}] /\ unsure \subseteq DOMAIN gains
  BY <1>1, <1>4 DEF CommandsTypes
<1>10. BiquadsHeld' /\ holds'.filters \in Nat /\ holds'.at = {}
  BY <1>2, NothingHeld
<1>11. CommandsTypes'
  <2>1. steps' \in 0..MaxSteps
    BY <1>1, <1>2, DevicesAssumption DEF CommandsTypes, OneStep, M!Constants
  <2>2. gain' \in [0..7 -> {0, 1}]
    BY <1>4, <1>8, <1>9
  <2>3. unsure' \subseteq 1..M!Shown(layout)
    BY <1>4, <1>8, <1>9
  <2> QED
    BY <1>1, <1>2, <1>7, <1>10, <2>1, <2>2, <2>3 DEF CommandsTypes
<1>12. GainsShown'
  <2>1. SUFFICES ASSUME NEW d \in DOMAIN gains' \ unsure'
                 PROVE  gain'[d - 1] = gains'[d]
    BY DEF GainsShown
  <2>2. d \in DOMAIN gains \ unsure /\ d - 1 \notin inputs /\ gains'[d] = gains[d]
    BY <1>2, <1>8
  <2>3. gain'[d - 1] = gain[d - 1]
    BY <1>4, <1>8, <2>2
  <2> QED
    BY <1>1, <2>2, <2>3 DEF GainsShown
<1> QED
  BY <1>10, <1>11, <1>12, CommandsParts

LEMMA CustomFacts ==
  \A bqs \in M!Custom : bqs \in Seq(UserBiquads)
<1> DEFINE a == M!Biquad(1, M!Off)
           b == M!Biquad(2, M!On)
           n == M!NoBiquad
<1>1. a \in UserBiquads /\ b \in UserBiquads /\ n \in UserBiquads
  BY CommandTypes DEF M!Biquad, M!NoBiquad, UserBiquads
<1>2. M!Custom = { <<a>>, <<n, b, a>> }
  BY DEF M!Custom
<1> HIDE DEF a, b, n
<1>3. <<a>> \in Seq(UserBiquads) /\ <<n, b, a>> \in Seq(UserBiquads)
  BY <1>1
<1> QED
  BY <1>2, <1>3

LEMMA BiquadsKept ==
  ASSUME CommandsInv, M!LoadBiquads
  PROVE  CommandsInv'
<1>1. CommandsTypes /\ GainsShown
  BY CommandsParts
<1> DEFINE SetAt(c) == {c[i].at : i \in {j \in DOMAIN c : c[j].op = "set"}}
<1>2. PICK side \in {"input", "output"}, overwrite \in BOOLEAN, bqs \in M!Custom :
        LET c == UserCommands(overwrite, side, bqs)
        IN  /\ \A i \in DOMAIN c : c[i].at \in DOMAIN device
            /\ device' = M!Run(c, device)
            /\ holds' = IF overwrite THEN [by |-> side, filters |-> 0, at |-> SetAt(c)]
                        ELSE M!Unknown
  BY CommandTypes DEF M!LoadBiquads, UserCommands
<1> DEFINE c == UserCommands(overwrite, side, bqs)
<1>3. KeepsGains /\ OneStep
  BY DEF M!LoadBiquads, M!Step, KeepsGains, OneStep
<1>4. bqs \in Seq(UserBiquads)
  BY CustomFacts
<1>5. c \in Seq(Command)
  BY <1>4, UserCommandsFacts
<1>6. Layout(layout) /\ device \in Holding(M!Addresses(layout))
  BY <1>1, ShownFacts DEF CommandsTypes
<1>7. DOMAIN device = M!Addresses(layout)
  BY <1>6 DEF Holding
<1>8. CASE ~overwrite
  <2>1. device' = M!Run(c, device) /\ holds' = M!Unknown
    BY <1>2, <1>8
  <2> HIDE DEF c
  <2>2. device' \in Holding(M!Addresses(layout))
    BY <1>5, <1>6, <2>1, RunFacts
  <2>3. BiquadsHeld' /\ holds'.filters \in Nat /\ holds'.at = {}
    BY <2>1, NothingHeld
  <2> QED
    BY <1>1, <1>3, <2>2, <2>3, DeviceKept
<1>9. CASE overwrite
  <2>0. overwrite = TRUE
    BY <1>9
  <2>1. /\ device' = M!Run(c, device) /\ holds' = [by |-> side, filters |-> 0, at |-> SetAt(c)]
        /\ \A i \in DOMAIN c : c[i].at \in M!Addresses(layout)
    BY <1>2, <1>7, <1>9
  <2>2. M!BiquadsExact(M!Run(c, device), side, SetAt(c))
    BY <1>4, <1>6, <2>0, BiquadsLoaded
  <2> HIDE DEF c
  <2>3. device' \in Holding(M!Addresses(layout))
    BY <1>5, <1>6, <2>1, RunFacts
  <2>4. SetAt(c) \subseteq M!Addresses(layout)
    BY <2>1
  <2> HIDE DEF SetAt
  <2>5. holds'.by = side /\ holds'.filters = 0 /\ holds'.at = SetAt(c)
    BY <2>1
  <2>6. BiquadsHeld'
    <3>1. M!BiquadsExact(device', holds'.by, holds'.at)
      BY <2>1, <2>2, <2>5
    <3>2. holds'.by # "entry"
      BY <2>5
    <3> QED
      BY <3>1, <3>2 DEF BiquadsHeld
  <2> QED
    BY <1>1, <1>3, <2>3, <2>4, <2>5, <2>6, DeviceKept
<1> QED
  BY <1>8, <1>9

LEMMA GainKept ==
  ASSUME CommandsInv, M!SetGain
  PROVE  CommandsInv'
<1>1. CommandsTypes /\ GainsShown /\ BiquadsHeld
  BY CommandsParts
<1>2. PICK c \in {0, 1, 3} :
        /\ gain' = [i \in DOMAIN gain |-> IF i \in M!GainInputs(c) THEN 1 ELSE gain[i]]
        /\ gains' = [d \in DOMAIN gains |-> IF c \in {0, d} THEN 1 ELSE gains[d]]
        /\ unsure' = IF c = 0 THEN {d \in DOMAIN gains : d - 1 \notin M!GainInputs(0)}
                     ELSE unsure \ {c}
  BY DEF M!SetGain
<1>3. OneStep /\ layout' = layout /\ device' = device /\ holds' = holds
  BY DEF M!SetGain, M!Step, OneStep
<1>4. /\ DOMAIN gains = 1..M!Shown(layout) /\ DOMAIN gain = 0..7
      /\ \A d \in DOMAIN gains : d \in 1..8 /\ d - 1 \in DOMAIN gain
  BY <1>1, ShownFacts
<1>5. /\ gain \in [0..7 -> {0, 1}] /\ gains \in [1..M!Shown(layout) -> {0, 1}]
      /\ unsure \subseteq DOMAIN gains
  BY <1>1, <1>4 DEF CommandsTypes
<1>6. CommandsTypes'
  <2>1. steps' \in 0..MaxSteps
    BY <1>1, <1>3, DevicesAssumption DEF CommandsTypes, OneStep, M!Constants
  <2>2. gain' \in [0..7 -> {0, 1}]
    BY <1>2, <1>4, <1>5
  <2>3. gains' \in [1..M!Shown(layout) -> {0, 1}]
    BY <1>2, <1>4, <1>5
  <2>4. unsure' \subseteq 1..M!Shown(layout)
    BY <1>2, <1>4, <1>5
  <2> QED
    BY <1>1, <1>3, <2>1, <2>2, <2>3, <2>4 DEF CommandsTypes
<1>7. BiquadsHeld'
  BY <1>1, <1>3 DEF BiquadsHeld
<1>8. GainsShown'
  <2>1. SUFFICES ASSUME NEW d \in DOMAIN gains' \ unsure'
                 PROVE  gain'[d - 1] = gains'[d]
    BY DEF GainsShown
  <2>2. d \in DOMAIN gains /\ d \in 1..8 /\ d - 1 \in DOMAIN gain
    BY <1>2, <1>4
  <2>3. /\ gain'[d - 1] = IF d - 1 \in M!GainInputs(c) THEN 1 ELSE gain[d - 1]
        /\ gains'[d] = IF c \in {0, d} THEN 1 ELSE gains[d]
    BY <1>2, <2>2
  <2>4. CASE c = 0
    <3>1. d - 1 \in M!GainInputs(c)
      BY <1>2, <2>2, <2>4
    <3> QED
      BY <2>3, <2>4, <3>1
  <2>5. CASE c # 0
    <3>1. M!GainInputs(c) = {c - 1}
      BY <2>5 DEF M!GainInputs
    <3>2. d # c => d \notin unsure /\ d - 1 \notin M!GainInputs(c)
      BY <1>2, <2>2, <2>5, <3>1
    <3>3. d # c => gain[d - 1] = gains[d]
      BY <1>1, <2>2, <3>2 DEF GainsShown
    <3> QED
      BY <2>3, <2>5, <3>1, <3>2, <3>3
  <2> QED
    BY <2>4, <2>5
<1> QED
  BY <1>6, <1>7, <1>8, CommandsParts

LEMMA CommandsKept ==
  ASSUME CommandsInv, M!Next
  PROVE  CommandsInv'
<1>1. CASE M!LoadFilter
  BY <1>1, EntryKept
<1>2. CASE M!LoadFails
  BY <1>2, LoadFailsKept
<1>3. CASE M!ClearFilter
  BY <1>3, ClearKept
<1>4. CASE M!ClearFails
  BY <1>4, ClearFailsKept
<1>5. CASE M!LoadBiquads
  BY <1>5, BiquadsKept
<1>6. CASE M!SetGain
  BY <1>6, GainKept
<1> QED
  BY <1>1, <1>2, <1>3, <1>4, <1>5, <1>6 DEF M!Next

LEMMA CommandsSame ==
  ASSUME CommandsInv, UNCHANGED commands
  PROVE  CommandsInv'
<1>1. CommandsTypes /\ BiquadsHeld /\ GainsShown
  BY CommandsParts
<1>2. CommandsTypes' /\ BiquadsHeld' /\ GainsShown'
  BY <1>1 DEF commands, CommandsTypes, BiquadsHeld, GainsShown
<1> QED
  BY <1>2, CommandsParts

-----------------------------------------------------------------------------
(* The theorems.                                                           *)

\* What holds of the part that is there.
PartInv ==
  /\ kind = "htp1" => Htp1Inv
  /\ kind = "jriver" => JRiverInv
  /\ kind \in O!Kinds => OneSlotInv
  /\ kind = "configuration" => Built /\ C!TypeOK
  /\ kind = "commands" => CommandsInv

LEMMA KindsApart ==
  /\ O!Kinds = {"qsys", "stormaudio", "reaper"}
  /\ {"htp1", "jriver", "commands", "configuration"} \cap O!Kinds = {}
  /\ "htp1" # "configuration" /\ "htp1" # "jriver" /\ "jriver" # "configuration"
  /\ "commands" # "htp1" /\ "commands" # "jriver" /\ "commands" # "configuration"
BY DEF O!Kinds

LEMMA PartStart == Init => PartInv
<1> SUFFICES ASSUME Init PROVE PartInv
  OBVIOUS
<1> USE KindsApart
<1>1. CASE kind = "htp1" /\ H!Init
  BY <1>1, Htp1Start DEF PartInv
<1>2. CASE kind = "commands" /\ M!Init
  BY <1>2, CommandsStart DEF PartInv
<1>5. CASE kind = "jriver" /\ J!Init
  BY <1>5, JRiverStart DEF PartInv
<1>3. CASE O!Init
  <2>1. kind \in O!Kinds
    BY <1>3 DEF O!Init
  <2> QED
    BY <1>3, <2>1, OneSlotStart DEF PartInv
<1>4. CASE kind = "configuration" /\ C!Init
  BY <1>4, ConfigurationStart, ConfigurationTyped DEF PartInv
<1> QED
  BY <1>1, <1>2, <1>3, <1>4, <1>5 DEF Init

LEMMA PartKept == PartInv /\ [Next]_vars => PartInv'
<1> SUFFICES ASSUME PartInv, [Next]_vars PROVE PartInv'
  OBVIOUS
<1> USE KindsApart
<1>1. CASE Htp1Step
  BY <1>1, Htp1Kept DEF Htp1Step, PartInv
<1>2. CASE CommandsStep
  BY <1>2, CommandsKept DEF CommandsStep, PartInv
<1>6. CASE JRiverStep
  BY <1>6, JRiverStays DEF JRiverStep, PartInv
<1>3. CASE OneSlotStep
  <2>1. OneSlotInv' /\ kind \in O!Kinds
    BY <1>3, OneSlotKept DEF OneSlotStep, PartInv
  <2>2. kind' \in O!Kinds
    BY <2>1 DEF OneSlotInv, O!TypeOK
  <2> QED
    BY <2>1, <2>2 DEF PartInv
<1>4. CASE ConfigStep
  BY <1>4, BuiltKept, TypedKept DEF ConfigStep, PartInv
<1>5. CASE UNCHANGED vars
  <2>1. UNCHANGED <<kind, devices, config>>
    BY <1>5 DEF vars
  <2>7. UNCHANGED commands
    BY <1>5 DEF vars
  <2>2. UNCHANGED <<common, title, htp1, jriver, oneSlot>>
    BY <2>1 DEF devices
  <2>3. UNCHANGED H!vars
    BY <2>2 DEF common, htp1, H!vars, H!linkVars, H!slotVars, H!callVars, H!historyVars, H!bounds
  <2>4. UNCHANGED O!vars
    BY <2>1, <2>2
       DEF common, oneSlot, O!vars, O!deviceVars, O!slotVars, O!callVars, O!bounds
  <2>5. UNCHANGED C!vars
    BY <2>1 DEF config, C!vars
  <2>6. UNCHANGED J!vars
    BY <2>2 DEF common, jriver, J!vars, J!slotVars, J!callVars, J!historyVars, J!bounds
  <2> QED
    BY <2>1, <2>3, <2>4, <2>5, <2>6, <2>7, Htp1Same, OneSlotSame, JRiverSame, BuiltKept,
       TypedKept, CommandsSame
       DEF PartInv
<1> QED
  BY <1>1, <1>2, <1>3, <1>4, <1>5, <1>6 DEF Next

\* When an HTP-1 has carried out its commands and no call is under way, the title
\* that ezbeq shows for it is that of the filters it has, unless calls overlapped
\* or a command got lost with a connection.
THEOREM Htp1TitlesAreTrue == Spec => []Htp1TitleMeansLoaded
<1>1. PartInv => Htp1TitleMeansLoaded
  BY Htp1Means DEF PartInv, Htp1TitleMeansLoaded
<1> QED
  BY <1>1, PartStart, PartKept, PTL DEF Spec

\* A change of the input of an HTP-1 that ezbeq hears of has its filters cleared
\* before it comes to rest, if it is configured to do so.
THEOREM Htp1IsCleared == Spec => []Htp1ClearedOnChange
<1>1. PartInv => Htp1ClearedOnChange
  BY Htp1Means DEF PartInv, Htp1ClearedOnChange
<1> QED
  BY <1>1, PartStart, PartKept, PTL DEF Spec

\* Whatever calls, failures and restarts there are, and whatever blocks, sections
\* and filters: ezbeq removes what is its own and no filter of the user of a
\* J River, who is left with his filters in his order; excepted are zones that he
\* changed between the reading and the writing of a call.
THEOREM JRiverLeavesOthersAlone == Spec => []JRiverOthersKept
<1>1. PartInv => JRiverOthersKept
  BY JRiverMeans DEF PartInv, JRiverOthersKept
<1> QED
  BY <1>1, PartStart, PartKept, PTL DEF Spec

\* Between calls the title of a zone of a J River is that of the one section that
\* ezbeq has in it, or there is none, with the exceptions that JRiver names.
THEOREM JRiverTitlesAreTrue == Spec => []JRiverTitleMeansLoaded
<1>1. PartInv => JRiverTitleMeansLoaded
  BY JRiverMeans DEF PartInv, JRiverTitleMeansLoaded
<1> QED
  BY <1>1, PartStart, PartKept, PTL DEF Spec

\* Between calls the title of a Q-SYS, a StormAudio or REAPER is that of what
\* each of its components has, whatever failed before, with the exceptions that
\* OneSlotDevices names.
THEOREM OneSlotTitlesAreTrue == Spec => []OneSlotTitleMeansLoaded
<1>1. PartInv => OneSlotTitleMeansLoaded
  BY OneSlotMeans DEF PartInv, OneSlotTitleMeansLoaded
<1> QED
  BY <1>1, PartStart, PartKept, PTL DEF Spec

\* A composite that ezbeq starts with asks all of its members for a gain or none,
\* unless it was allowed otherwise; asks the primary for the slot that was shown;
\* shares no member; and every device it hides is found behind it.  For any set
\* of configurations, with any number of devices, rules and slot maps.
THEOREM ConfigurationsAreSound ==
  ASSUME NEW Names, Lists(Names)
  PROVE  Spec => []ConfigurationSound
<1>1. PartInv => ConfigurationSound
  BY BuiltBalanced, BuiltSlotMeant, BuiltFound DEF PartInv, ConfigurationSound, C!Sound
<1> QED
  BY <1>1, PartStart, PartKept, PTL DEF Spec

\* Whatever entries, biquads and gains are sent, however the biquads of a user are
\* given and whatever fails on the way: the commands for a Minidsp leave in it what
\* was asked for, on each path from an input to an output that takes BEQ, and touch
\* no other biquad.  For every device type, for any channels to take BEQ of a
\* DDRC-88 or HTx and any routes that the documentation lets a user describe.
THEOREM CommandsAreExact == Spec => []CommandsExact
<1>1. PartInv => CommandsExact
  BY DEF PartInv, CommandsInv, CommandsExact
<1> QED
  BY <1>1, PartStart, PartKept, PTL DEF Spec

\* Each part keeps the types of its state: whatever is sent to a Minidsp it has the
\* biquads that its descriptor says, each with a filter and bypassed or not, and its
\* inputs have gains; a composite asks and hides devices of the configuration only.
THEOREM TypeCorrect == Spec => []TypeOK
<1>1. PartInv => TypeOK
  BY DEF PartInv, TypeOK, Htp1Inv, JRiverInv, OneSlotInv, CommandsInv
<1> QED
  BY <1>1, PartStart, PartKept, PTL DEF Spec
=============================================================================
