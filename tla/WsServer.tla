------------------------------ MODULE WsServer ------------------------------
(***************************************************************************)
(* The websocket server (ezbeq/apis/ws.py, AutobahnWsServerFactory), the   *)
(* loops that poll a device for levels (minidsp.py and camilladsp.py,      *)
(* start_broadcast_levels) and the sending of the catalogue in chunks      *)
(* (catalogue.py).                                                         *)
(*                                                                         *)
(* Connections open, subscribe and close on the reactor thread, one event  *)
(* at a time.  A request changes its device on a thread of its own and     *)
(* then walks over the list of clients while the reactor changes that      *)
(* list.  Requests to one device are taken to come one after the other     *)
(* (PersistentDevice is about those that overlap), so that what a request  *)
(* broadcasts is the current state: a state is modelled by whether it is   *)
(* still that of the device.                                               *)
(***************************************************************************)
EXTENDS Naturals, FiniteSets, SequencesExt

CONSTANTS
  Clients,     \* websocket connections
  Devices,     \* the devices
  Polled,      \* Minidsp: a loop reads the levels and sends them
  Asked,       \* CamillaDsp: a loop asks for levels, which are sent as they come
  Pushed,      \* Minidsp with a websocket of its own: no loop
  Changing,    \* bound: the devices that get requests
  None,        \* no device, no connection, no offset
  Count,       \* the entries of the latest catalogue
  FirstChunk, Chunk,  \* chunk_sizes
  MaxLoops     \* bound on the loops that poll one device at the same time

ASSUME WsServerAssumption ==
  /\ Polled \cup Asked \cup Pushed \cup Changing \subseteq Devices
  /\ Polled \cap Asked = {} /\ (Polled \cup Asked) \cap Pushed = {}
  /\ None \notin Clients \cup Devices /\ None \notin Nat
  /\ {Count, FirstChunk, Chunk, MaxLoops} \subseteq Nat \ {0}

\* The devices that called set_levels_provider.
WithLevels == Polled \cup Asked \cup Pushed

Entries == 1..Count

VARIABLES
  conn,      \* the state of each connection
  clients,   \* __clients
  levels,    \* __levels_client
  hydrated,  \* the devices that have read their state
  provider,  \* the device whose state __state_provider gives
  view,      \* what each client was sent last of each device
  reactor,   \* what is left to do of the registration that is under way
  pc,        \* what the request to each device does
  cursor,    \* the position in __clients of its iteration
  dead,      \* disconnected_clients of its iteration
  loops,     \* the loops that poll each device
  linked,    \* the CamillaDSPs that are connected
  offset,    \* where the chunk starts that is loaded next, for each client
  ready,     \* the chunks that were loaded and not yet sent
  got,       \* how often each client got each entry
  stored,    \* whether the version that is sent is still in the database
  missed,    \* history: what a broadcast passed over, or an older state overtook
  silenced   \* history: devices whose last loop ended for a reason of its own

listVars == <<clients, levels, missed>>
stateVars == <<hydrated, provider, view>>
requestVars == <<pc, cursor, dead>>
loopVars == <<loops, linked, silenced>>
feedVars == <<offset, ready, got, stored>>
vars == <<conn, listVars, stateVars, reactor, requestVars, loopVars, feedVars>>

Idle == [client |-> None, device |-> None, fresh |-> FALSE]

\* Entries first..last of the version.
Chunks == [first : 1..Count, last : 0..Count]

\* The type invariant.
TypeOK ==
  /\ conn \in [Clients -> {"new", "open", "closing", "gone"}]
  /\ clients \in Seq(Clients) /\ IsInjective(clients)
  /\ levels \in [Devices -> SUBSET Clients]
  /\ hydrated \subseteq Devices
  /\ provider \in hydrated \cup {None}
  /\ view \in [Clients -> [Devices -> {"none", "current", "old"}]]
  /\ reactor \in [client : Clients \cup {None}, device : Devices \cup {None},
                  fresh : BOOLEAN]
  /\ pc \in [Devices -> {"idle", "send", "discard", "remove"}]
  /\ cursor \in [Devices -> Nat \ {0}]
  /\ dead \in [Devices -> Seq(Clients)]
  /\ loops \in [Devices -> 0..MaxLoops]
  /\ linked \subseteq Asked
  /\ offset \in [Clients -> Nat \cup {None}]
  /\ ready \in [Clients -> SUBSET Chunks]
  /\ got \in [Clients -> [Entries -> Nat]]
  /\ stored \in BOOLEAN
  /\ missed \subseteq Clients \X Devices
  /\ silenced \subseteq Devices

Init ==
  /\ conn = [c \in Clients |-> "new"]
  /\ clients = <<>>
  /\ levels = [d \in Devices |-> {}]
  /\ hydrated = {} /\ provider = None
  /\ view = [c \in Clients |-> [d \in Devices |-> "none"]]
  /\ reactor = Idle
  /\ pc = [d \in Devices |-> "idle"]
  /\ cursor = [d \in Devices |-> 1]
  /\ dead = [d \in Devices |-> <<>>]
  /\ loops = [d \in Devices |-> 0] /\ linked = {}
  /\ offset = [c \in Clients |-> None]
  /\ ready = [c \in Clients |-> {}]
  /\ got = [c \in Clients |-> [e \in Entries |-> 0]]
  /\ stored = TRUE
  /\ missed = {} /\ silenced = {}

-----------------------------------------------------------------------------
(* The lists.                                                              *)

Registered(c) == c \in Range(clients)

\* c leaves __clients.  Whoever iterates and is past c passes over the client
\* that moves into the place it has just left.
Leave(c) ==
  LET at == CHOOSE i \in DOMAIN clients : clients[i] = c
      past == {d \in Devices : /\ pc[d] = "send" /\ at < cursor[d]
                               /\ cursor[d] \in DOMAIN clients}
  IN  /\ clients' = RemoveAt(clients, at)
      /\ missed' = missed \cup {<<clients[cursor[d]], d>> : d \in past}

\* unregister, on the reactor thread.
Unregister(c) ==
  IF Registered(c)
  THEN Leave(c) /\ UNCHANGED levels
  ELSE /\ levels' = [d \in Devices |-> levels[d] \ {c}]
       /\ UNCHANGED <<clients, missed>>

-----------------------------------------------------------------------------
(* Connections, on the reactor thread.                                     *)

\* onOpen, register.
Register(c) ==
  /\ reactor = Idle /\ conn[c] = "new"
  /\ conn' = [conn EXCEPT ![c] = "open"]
  /\ clients' = Append(clients, c)
  /\ reactor' = [Idle EXCEPT !.client = c]
  /\ UNCHANGED <<levels, missed, stateVars, requestVars, loopVars, feedVars>>

ReadState ==
  /\ reactor.client # None /\ reactor.device = None
  /\ reactor' = IF provider = None THEN Idle
                ELSE [reactor EXCEPT !.device = provider, !.fresh = TRUE]
  /\ UNCHANGED <<conn, listVars, stateVars, requestVars, loopVars, feedVars>>

SendState ==
  /\ reactor.device # None
  /\ LET c == reactor.client
         d == reactor.device
     IN  /\ view' = [view EXCEPT ![c][d] = IF reactor.fresh THEN "current" ELSE "old"]
         /\ missed' = IF view[c][d] = "current" /\ ~reactor.fresh
                      THEN missed \cup {<<c, d>>} ELSE missed
  /\ reactor' = Idle
  /\ UNCHANGED <<conn, clients, levels, hydrated, provider, requestVars, loopVars, feedVars>>

\* The connection goes; from now on sendMessage raises Disconnected.
Close(c) ==
  /\ reactor = Idle /\ conn[c] = "open"
  /\ conn' = [conn EXCEPT ![c] = "closing"]
  /\ UNCHANGED <<listVars, stateVars, reactor, requestVars, loopVars, feedVars>>

\* onClose; what the client was sent is of no interest any more.
OnClose(c) ==
  /\ reactor = Idle /\ conn[c] = "closing"
  /\ conn' = [conn EXCEPT ![c] = "gone"]
  /\ Unregister(c)
  /\ view' = [view EXCEPT ![c] = [d \in Devices |-> "none"]]
  /\ got' = [got EXCEPT ![c] = [e \in Entries |-> 0]]
  /\ UNCHANGED <<hydrated, provider, reactor, requestVars, loopVars, offset, ready, stored>>

-----------------------------------------------------------------------------
(* Requests, each on the thread of its device: PersistentDevice.           *)

\* Bound: see SendCatalogue.
Unsent == \A c \in Clients : offset[c] = None

\* Mutant of Hydrate: the device is not marked as hydrated.
HydrateUnmarked(d) ==
  /\ d \in Changing \ hydrated /\ Unsent
  /\ provider' = d
  /\ UNCHANGED <<conn, listVars, hydrated, view, reactor, requestVars, loopVars, feedVars>>

\* _hydrate: the device becomes the one whose state a new client is sent.
Hydrate(d) ==
  /\ d \in Changing \ hydrated /\ Unsent
  /\ hydrated' = hydrated \cup {d} /\ provider' = d
  /\ UNCHANGED <<conn, listVars, view, reactor, requestVars, loopVars, feedVars>>

\* The state changes and the message is made; every client should get it.
Change(d) ==
  /\ d \in hydrated /\ pc[d] = "idle"
  /\ view' = [c \in Clients |->
               IF Registered(c) \/ view[c][d] # "none"
               THEN [view[c] EXCEPT ![d] = "old"] ELSE view[c]]
  /\ reactor' = IF reactor.device = d THEN [reactor EXCEPT !.fresh = FALSE] ELSE reactor
  /\ pc' = [pc EXCEPT ![d] = "send"]
  /\ cursor' = [cursor EXCEPT ![d] = 1]
  /\ UNCHANGED <<conn, listVars, hydrated, provider, dead, loopVars, feedVars>>

\* Mutant of SendNext: the first client that is gone ends the loop.
SendUntilGone(d) ==
  /\ pc[d] = "send" /\ cursor[d] \in DOMAIN clients
  /\ LET c == clients[cursor[d]]
     IN  IF conn[c] = "open"
         THEN /\ view' = [view EXCEPT ![c][d] = "current"]
              /\ missed' = missed \ {<<c, d>>}
              /\ cursor' = [cursor EXCEPT ![d] = @ + 1]
              /\ UNCHANGED dead
         ELSE /\ dead' = [dead EXCEPT ![d] = Append(@, c)]
              /\ cursor' = [cursor EXCEPT ![d] = Len(clients) + 1]
              /\ UNCHANGED <<view, missed>>
  /\ UNCHANGED <<conn, clients, levels, hydrated, provider, reactor, pc, loopVars, feedVars>>

\* One turn of the loop over __clients.
SendNext(d) ==
  /\ pc[d] = "send" /\ cursor[d] \in DOMAIN clients
  /\ LET c == clients[cursor[d]]
     IN  IF conn[c] = "open"
         THEN /\ view' = [view EXCEPT ![c][d] = "current"]
              /\ missed' = missed \ {<<c, d>>}
              /\ UNCHANGED dead
         ELSE /\ dead' = [dead EXCEPT ![d] = Append(@, c)]
              /\ UNCHANGED <<view, missed>>
  /\ cursor' = [cursor EXCEPT ![d] = @ + 1]
  /\ UNCHANGED <<conn, clients, levels, hydrated, provider, reactor, pc, loopVars, feedVars>>

\* Where the request of d goes on when the clients in left are to be discarded.
Discarding(d, left) ==
  /\ dead' = [dead EXCEPT ![d] = left]
  /\ pc' = [pc EXCEPT ![d] = IF left = <<>> THEN "idle" ELSE "discard"]
  /\ cursor' = [cursor EXCEPT ![d] = 1]

Sent(d) ==
  /\ pc[d] = "send" /\ cursor[d] \notin DOMAIN clients
  /\ Discarding(d, dead[d])
  /\ UNCHANGED <<conn, listVars, stateVars, reactor, loopVars, feedVars>>

\* unregister, which tests on this thread whether the client is in the list ...
Discard(d) ==
  /\ pc[d] = "discard"
  /\ LET c == Head(dead[d])
     IN  IF Registered(c)
         THEN /\ pc' = [pc EXCEPT ![d] = "remove"]
              /\ UNCHANGED <<listVars, cursor, dead>>
         ELSE Unregister(c) /\ Discarding(d, Tail(dead[d]))
  /\ UNCHANGED <<conn, stateVars, reactor, loopVars, feedVars>>

\* ... and then removes it: if it has gone meanwhile that raises, and the
\* request ends.
RemoveDead(d) ==
  /\ pc[d] = "remove"
  /\ LET c == Head(dead[d])
     IN  IF Registered(c)
         THEN Leave(c) /\ UNCHANGED levels /\ Discarding(d, Tail(dead[d]))
         ELSE Discarding(d, <<>>) /\ UNCHANGED listVars
  /\ UNCHANGED <<conn, stateVars, reactor, loopVars, feedVars>>

-----------------------------------------------------------------------------
(* Levels, on the reactor thread.                                          *)

\* Mutant of StartLoop: only the first to listen starts the loop.
StartFirstLoop(d) ==
  /\ IF d \in Polled \cup Asked /\ levels[d] = {}
     THEN loops[d] < MaxLoops /\ loops' = [loops EXCEPT ![d] = @ + 1]
     ELSE UNCHANGED loops
  /\ silenced' = silenced \ {d}

\* start_broadcast_levels: every subscription starts a loop.
StartLoop(d) ==
  /\ IF d \in Polled \cup Asked
     THEN loops[d] < MaxLoops /\ loops' = [loops EXCEPT ![d] = @ + 1]
     ELSE UNCHANGED loops
  /\ silenced' = silenced \ {d}

\* register_for_levels; a device without levels is refused.  The client is no
\* longer sent what is broadcast.
Subscribe(c, d) ==
  /\ reactor = Idle /\ conn[c] = "open" /\ d \in WithLevels
  /\ IF Registered(c) THEN Leave(c) ELSE UNCHANGED <<clients, missed>>
  /\ levels' = [levels EXCEPT ![d] = @ \cup {c}]
  /\ StartLoop(d)
  /\ UNCHANGED <<conn, stateVars, reactor, requestVars, linked, feedVars>>

Broken(d) == {c \in levels[d] : conn[c] # "open"}

\* send_levels: whoever is gone is unregistered.
SendLevels(d) ==
  levels' = [x \in Devices |-> levels[x] \ Broken(d)]

\* What send_levels returns.  The list is the one the clients were removed from.
MostAreLeft(d) == Cardinality(Broken(d)) < Cardinality(levels[d] \ Broken(d))
SomebodyHeard(d) == levels[d] # {} /\ MostAreLeft(d)

\* A loop of d goes on or ends, and may have a reason that is not the listeners.
Loop(d, goesOn, reason) ==
  /\ loops' = IF goesOn THEN loops ELSE [loops EXCEPT ![d] = @ - 1]
  /\ silenced' = IF reason /\ loops'[d] = 0 THEN silenced \cup {d} ELSE silenced

\* __send of Minidsp: the levels were read, or could not be and are empty.
Poll(d) ==
  /\ reactor = Idle /\ d \in Polled /\ loops[d] > 0
  /\ SendLevels(d)
  /\ Loop(d, SomebodyHeard(d), ~MostAreLeft(d))
  /\ UNCHANGED <<conn, clients, missed, stateVars, reactor, requestVars, linked, feedVars>>

\* The executor does not answer in time; the exception ends the loop.
PollFails(d) ==
  /\ reactor = Idle /\ d \in Polled /\ loops[d] > 0
  /\ UNCHANGED levels
  /\ Loop(d, FALSE, TRUE)
  /\ UNCHANGED <<conn, clients, missed, stateVars, reactor, requestVars, linked, feedVars>>

\* Mutant of Ask: the loop goes on for ever.
AskForEver(d) ==
  /\ reactor = Idle /\ d \in Asked /\ loops[d] > 0
  /\ UNCHANGED <<conn, listVars, stateVars, reactor, requestVars, loopVars, feedVars>>

\* __send of CamillaDsp.  If the connection is gone the first of the two
\* questions is lost or the second finds nobody to ask, and the exception ends
\* the loop before it looks for listeners.
Ask(d) ==
  /\ reactor = Idle /\ d \in Asked /\ loops[d] > 0
  /\ Loop(d, d \in linked /\ levels[d] # {}, d \notin linked)
  /\ UNCHANGED <<conn, listVars, stateVars, reactor, requestVars, linked, feedVars>>

\* The connection to CamillaDSP comes and goes; no loop is started by it.
Link(d) ==
  /\ reactor = Idle /\ d \in Asked
  /\ linked' = IF d \in linked THEN linked \ {d} ELSE linked \cup {d}
  /\ UNCHANGED <<conn, listVars, stateVars, reactor, requestVars, loops, silenced, feedVars>>

\* The levels come from the DSP: on_get_playback_rms, on_ws_message.
Push(d) ==
  /\ reactor = Idle /\ d \in linked \cup Pushed
  /\ SendLevels(d)
  /\ UNCHANGED <<conn, clients, missed, stateVars, reactor, requestVars, loopVars, feedVars>>

-----------------------------------------------------------------------------
(* The catalogue, in chunks.                                               *)

\* send_catalogue: refused if the client is not in __clients.  Bound: the
\* catalogue is sent once, and no device is used in the same run; the
\* chunks have nothing in common with those of another client or with states.
SendCatalogue(c) ==
  /\ reactor = Idle /\ conn[c] = "open" /\ Registered(c)
  /\ Unsent /\ hydrated = {}
  /\ offset' = [offset EXCEPT ![c] = 0]
  /\ UNCHANGED <<conn, listVars, stateVars, reactor, requestVars, loopVars, ready, got, stored>>

Limit(o) == IF o = 0 THEN FirstChunk ELSE Chunk

\* Mutant of NextOffset: the size of the next chunk for that of this one.
NextOffsetWrong(o) == o + Chunk

NextOffset(o) == o + Limit(o)

\* __load_next_chunk, on a thread: the next one is handed to another thread
\* before this one is sent.  Entries of a version that was pruned are not found.
LoadNextChunk(c) ==
  /\ offset[c] # None /\ offset[c] < Count
  /\ LET o == offset[c]
         chunk == [first |-> o + 1,
                   last |-> IF stored THEN Min({Count, o + Limit(o)}) ELSE o]
     IN  ready' = [ready EXCEPT ![c] = @ \cup {chunk}]
  /\ offset' = [offset EXCEPT ![c] = NextOffset(@)]
  /\ UNCHANGED <<conn, listVars, stateVars, reactor, requestVars, loopVars, got, stored>>

\* The callback, on the reactor thread.  The chunks that are ready are sent in
\* any order; one for a client that has gone is dropped.
SendChunk(c, m) ==
  /\ reactor = Idle /\ m \in ready[c]
  /\ ready' = [ready EXCEPT ![c] = @ \ {m}]
  /\ got' = IF conn[c] = "open"
            THEN [got EXCEPT ![c] = [e \in Entries |->
                    IF e \in m.first..m.last THEN got[c][e] + 1 ELSE got[c][e]]]
            ELSE got
  /\ UNCHANGED <<conn, listVars, stateVars, reactor, requestVars, loopVars, offset, stored>>

\* The version that is sent is a day old, and a newer one was loaded.
Prune ==
  /\ stored /\ stored' = FALSE
  /\ UNCHANGED <<conn, listVars, stateVars, reactor, requestVars, loopVars, offset, ready, got>>

-----------------------------------------------------------------------------
Registration == ReadState \/ SendState

Request(d) == SendNext(d) \/ Sent(d) \/ Discard(d) \/ RemoveDead(d)

Timer(d) == Poll(d) \/ PollFails(d) \/ Ask(d)

Feed(c) == LoadNextChunk(c) \/ \E m \in ready[c] : SendChunk(c, m)

Next ==
  \/ \E c \in Clients : Register(c) \/ Close(c) \/ OnClose(c)
  \/ Registration
  \/ \E d \in Devices : Hydrate(d) \/ Change(d) \/ Request(d)
  \/ \E c \in Clients, d \in Devices : Subscribe(c, d)
  \/ \E d \in Devices : Timer(d) \/ Push(d) \/ Link(d)
  \/ \E c \in Clients : SendCatalogue(c) \/ Feed(c)
  \/ Prune

Spec == Init /\ [][Next]_vars

\* The reactor's timers come due, and it ends the event it is at; a connection
\* that is closing is closed.
Fairness ==
  /\ WF_vars(Registration)
  /\ \A d \in Devices : WF_vars(Timer(d))
  /\ \A c \in Clients : WF_vars(OnClose(c))

FairSpec == Spec /\ Fairness

-----------------------------------------------------------------------------
(* Properties.                                                             *)

\* When no broadcast is under way, no client holds an outdated state of a
\* device: it gets every change from the moment it is in the list, though it
\* registers, others leave and others are found to be gone in the middle of a
\* broadcast.  Two cases are excepted, and no other: somebody before it left the
\* list while the broadcast walked over it, and the state it was sent first was
\* made before a change and sent after.
Informed ==
  \A c \in Range(clients), d \in Devices :
    conn[c] = "open" /\ pc[d] = "idle" /\ view[c][d] = "old"
      => <<c, d>> \in missed

\* While somebody listens to the levels of a device there is a loop that gets
\* them.  Three cases are excepted, and no other, in which the last loop ends and
\* nothing starts one: the device was not read in time, CamillaDSP was not
\* connected when it was to be asked, and the clients that were found to be gone
\* were as many as those left.
LevelsKeepComing ==
  \A d \in Polled \cup Asked : levels[d] # {} => loops[d] > 0 \/ d \in silenced

\* A client that asks for the catalogue gets every entry once, whatever the
\* order in which the chunks are loaded and sent - unless the version is
\* pruned meanwhile.
WholeCatalogue ==
  \A c \in Clients :
    /\ \A e \in Entries : got[c][e] <= 1
    /\ conn[c] = "open" /\ stored /\ offset[c] # None /\ offset[c] >= Count /\ ready[c] = {}
         => \A e \in Entries : got[c][e] = 1

\* When nobody listens any more no device is polled in the end, however many
\* loops there were and however the listeners went.
LoopsEnd ==
  \A d \in Devices : <>[](levels[d] = {}) => <>[](loops[d] = 0)
=============================================================================
