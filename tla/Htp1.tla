-------------------------------- MODULE Htp1 --------------------------------
(***************************************************************************)
(* A Monolith HTP-1 (ezbeq/htp1.py, on top of ezbeq/device.py, class       *)
(* PersistentDevice).                                                      *)
(*                                                                         *)
(* Filters are sent over a websocket and not acknowledged: a title is      *)
(* shown when they were handed to the connection.  What the device reports *)
(* is handled on the reactor thread; if its input changes, the filters are *)
(* cleared from there, while a request thread may be loading others.       *)
(*                                                                         *)
(* Power state and input are handled alike, so one value stands for both.  *)
(* A catalogue entry stands for its filters and for its title.  Saving is  *)
(* one step here; PersistentDevice takes it apart.                         *)
(***************************************************************************)
EXTENDS Naturals, FiniteSets, SequencesExt

CONSTANTS
  Threads,     \* request threads
  Reactor,     \* the reactor thread
  Entries,     \* catalogue entries
  Inputs,      \* inputs of the device
  None,        \* no value
  AutoClear,   \* autoclear of the configuration
  MaxCalls,    \* bound on requests
  MaxFaults,   \* bound on lost connections and restarts of ezbeq
  MaxChanges   \* bound on changes of the input

Empty == "Empty"
ERROR == "ERROR"
Titles == Entries \cup {Empty}
Callers == Threads \cup {Reactor}

\* What is assumed of the constants.
Constants ==
  /\ Reactor \notin Threads
  /\ AutoClear \in BOOLEAN
  /\ {None, Empty, ERROR} \cap Entries = {} /\ None \notin Inputs \cup {Empty, ERROR}
  /\ {MaxCalls, MaxFaults, MaxChanges} \subseteq Nat

VARIABLES
  filters, source,   \* the device: the filters in its slots, its input
  link,              \* the connection: "up", "lost" (not noticed yet), "down"
  clients,           \* Htp1ClientFactory.__clients
  toDevice, toUs,    \* messages under way
  known,             \* the channels of __peq are known
  input,             \* __active_input
  hydrated, last,    \* the device's picture
  file,              \* the title in the cache file
  pc, title,         \* what each thread does, and the title it will show
  doubt,             \* history: the title shown need not be what is loaded
  changed,           \* history: the input changed since filters were asked for
  missed,            \* history: a change was not reported, nor the device asked since
  calls, faults, changes   \* counters for the bounds

linkVars == <<link, clients, toDevice, toUs>>
slotVars == <<hydrated, last, file>>
callVars == <<pc, title>>
historyVars == <<doubt, changed, missed>>
bounds == <<calls, faults, changes>>
vars == <<filters, source, linkVars, known, input, slotVars, callVars, historyVars, bounds>>

\* changemso with filters, or one that turns the equaliser on; getmso.
Command == [op : {"filters"}, arg : Titles] \cup [op : {"peqsw", "getmso"}, arg : {None}]
\* The whole state of the device, or a change.
Report == [op : {"mso", "msoupdate"}, arg : Inputs]

\* The type invariant.
TypeOK ==
  /\ filters \in Titles /\ source \in Inputs
  /\ link \in {"up", "lost", "down"}
  /\ clients \subseteq {"live", "dead"}
  /\ toDevice \in Seq(Command) /\ toUs \in Seq(Report)
  /\ known \in BOOLEAN
  /\ input \in Inputs \cup {None}
  /\ hydrated \in BOOLEAN
  /\ last \in Titles \cup {ERROR}
  /\ file \in Titles \cup {ERROR, None}
  /\ pc \in [Callers -> {"idle", "peqsw", "filters", "sent", "failed"}]
  /\ title \in [Callers -> Titles]
  /\ {doubt, changed, missed} \subseteq BOOLEAN
  /\ {calls, faults, changes} \subseteq Nat

Init ==
  /\ filters \in Titles /\ source \in Inputs
  /\ link = "down" /\ clients = {}
  /\ toDevice = <<>> /\ toUs = <<>>
  /\ known = FALSE /\ input = None
  /\ hydrated = FALSE /\ last = Empty /\ file = None
  /\ pc = [c \in Callers |-> "idle"] /\ title = [c \in Callers |-> Empty]
  /\ doubt = (filters # Empty) /\ changed = FALSE /\ missed = FALSE
  /\ calls = 0 /\ faults = 0 /\ changes = 0

Fault == faults < MaxFaults /\ faults' = faults + 1

-----------------------------------------------------------------------------
(* A call: load_filter and clear_filter, which are __do_it under           *)
(* _hydrate_cache_broadcast.                                               *)

\* Mutant of Hydrate: a file that is not there is merged too.
HydrateAnyway ==
  /\ hydrated' = TRUE
  /\ last' = IF hydrated THEN last ELSE file

\* _hydrate, which does something in the first call only.
Hydrate ==
  /\ hydrated' = TRUE
  /\ last' = IF hydrated \/ file = None THEN last ELSE file

Alone(c) == \A d \in Callers \ {c} : pc[d] = "idle"

\* Without channels there is nothing to send, and the title is shown all the
\* same.
Begin(c, t) ==
  /\ pc[c] = "idle"
  /\ Hydrate
  /\ pc' = [pc EXCEPT ![c] = IF known THEN "peqsw" ELSE "sent"]
  /\ title' = [title EXCEPT ![c] = t]
  /\ doubt' = (~Alone(c) \/ ~known)

\* A message is taken and does not reach the device.
Unheard == clients # {} /\ link # "up"

\* Mutant of Broadcast: if there is no client the message is only logged.
BroadcastSilently(c, command, next) ==
  /\ pc' = [pc EXCEPT ![c] = next]
  /\ toDevice' = IF "live" \in clients /\ link = "up"
                 THEN Append(toDevice, command) ELSE toDevice
  /\ clients' = clients \ {"dead"}
  /\ doubt' = (doubt \/ Unheard)
  /\ UNCHANGED <<filters, source, link, toUs, known, input, slotVars, title,
                 changed, missed, bounds>>

\* Htp1ClientFactory.broadcast: clients that are gone are dropped, and if
\* there was none at all it raises.
Broadcast(c, command, next) ==
  /\ IF clients = {}
     THEN pc' = [pc EXCEPT ![c] = "failed"] /\ UNCHANGED <<clients, toDevice>>
     ELSE /\ pc' = [pc EXCEPT ![c] = next]
          /\ toDevice' = IF "live" \in clients /\ link = "up"
                         THEN Append(toDevice, command) ELSE toDevice
          /\ clients' = clients \ {"dead"}
  /\ doubt' = (doubt \/ Unheard)
  /\ UNCHANGED <<filters, source, link, toUs, known, input, slotVars, title,
                 changed, missed, bounds>>

\* __send.
Send(c) ==
  \/ pc[c] = "peqsw" /\ Broadcast(c, [op |-> "peqsw", arg |-> None], "filters")
  \/ pc[c] = "filters" /\ Broadcast(c, [op |-> "filters", arg |-> title[c]], "sent")

\* The rest of __do_it; the state is saved and broadcast.
Settle(c) ==
  /\ pc[c] \in {"sent", "failed"}
  /\ last' = IF pc[c] = "sent" THEN title[c] ELSE ERROR
  /\ file' = last'
  /\ pc' = [pc EXCEPT ![c] = "idle"] /\ title' = [title EXCEPT ![c] = Empty]
  /\ UNCHANGED <<filters, source, linkVars, known, input, hydrated, historyVars, bounds>>

\* A request to load or clear.
Request(t) ==
  /\ calls < MaxCalls /\ calls' = calls + 1
  /\ \E f \in Titles : Begin(t, f)
  /\ changed' = FALSE
  /\ UNCHANGED <<filters, source, linkVars, known, input, file, missed, faults, changes>>

\* A request for the state.
State ==
  /\ ~hydrated
  /\ Hydrate
  /\ UNCHANGED <<filters, source, linkVars, known, input, file, callVars, historyVars,
                 bounds>>

-----------------------------------------------------------------------------
(* What the device reports, on the reactor thread.                         *)

OnMso ==
  /\ pc[Reactor] = "idle"
  /\ toUs # <<>> /\ Head(toUs).op = "mso"
  /\ toUs' = Tail(toUs)
  /\ known' = TRUE /\ input' = Head(toUs).arg
  /\ missed' = (missed /\ changed)
  /\ UNCHANGED <<filters, source, link, clients, toDevice, slotVars, callVars,
                 doubt, changed, bounds>>

\* Mutant of OnMsoUpdate: an empty slot is not cleared.
OnMsoUpdateUnlessEmpty ==
  /\ pc[Reactor] = "idle"
  /\ toUs # <<>> /\ Head(toUs).op = "msoupdate"
  /\ toUs' = Tail(toUs)
  /\ input' = Head(toUs).arg
  /\ IF AutoClear /\ input # input' /\ last # Empty
     THEN Begin(Reactor, Empty) ELSE UNCHANGED <<hydrated, last, callVars, doubt>>
  /\ UNCHANGED <<filters, source, link, clients, toDevice, known, file,
                 changed, missed, bounds>>

\* on_msoupdate, __on_active_input, __clear_beq.
OnMsoUpdate ==
  /\ pc[Reactor] = "idle"
  /\ toUs # <<>> /\ Head(toUs).op = "msoupdate"
  /\ toUs' = Tail(toUs)
  /\ input' = Head(toUs).arg
  /\ IF AutoClear /\ input # input'
     THEN Begin(Reactor, Empty) ELSE UNCHANGED <<hydrated, last, callVars, doubt>>
  /\ UNCHANGED <<filters, source, link, clients, toDevice, known, file,
                 changed, missed, bounds>>

\* onConnect, onOpen.
Open ==
  /\ pc[Reactor] = "idle"
  /\ link = "down" /\ link' = "up"
  /\ clients' = clients \cup {"live"}
  /\ toDevice' = Append(toDevice, [op |-> "getmso", arg |-> None])
  /\ UNCHANGED <<filters, source, toUs, known, input, slotVars, callVars,
                 historyVars, bounds>>

\* onClose, which leaves the client in the list.
Close ==
  /\ pc[Reactor] = "idle"
  /\ link = "lost" /\ link' = "down"
  /\ clients' = (clients \ {"live"}) \cup {"dead"}
  /\ UNCHANGED <<filters, source, toDevice, toUs, known, input, slotVars, callVars,
                 historyVars, bounds>>

-----------------------------------------------------------------------------
(* Outside.                                                                *)

\* The device carries out a command.
Device ==
  /\ toDevice # <<>> /\ toDevice' = Tail(toDevice)
  /\ filters' = IF Head(toDevice).op = "filters" THEN Head(toDevice).arg ELSE filters
  /\ toUs' = IF Head(toDevice).op = "getmso" /\ link = "up"
             THEN Append(toUs, [op |-> "mso", arg |-> source]) ELSE toUs
  /\ UNCHANGED <<source, link, clients, known, input, slotVars, callVars,
                 historyVars, bounds>>

\* Somebody selects another input.
Select ==
  /\ changes < MaxChanges /\ changes' = changes + 1
  /\ \E i \in Inputs \ {source} : source' = i
  /\ toUs' = IF link = "up" THEN Append(toUs, [op |-> "msoupdate", arg |-> source']) ELSE toUs
  /\ changed' = TRUE
  /\ missed' = (missed \/ link # "up")
  /\ UNCHANGED <<filters, link, clients, toDevice, known, input, slotVars, callVars,
                 doubt, calls, faults>>

\* The connection breaks; what is under way to the device may still arrive.
Lose ==
  /\ link = "up" /\ link' = "lost"
  /\ Fault
  /\ \E n \in 0..Len(toDevice) : toDevice' = SubSeq(toDevice, 1, n)
  /\ toUs' = <<>>
  /\ doubt' = (doubt \/ \E i \in DOMAIN toDevice :
                          i > Len(toDevice') /\ toDevice[i].op = "filters")
  /\ missed' = (missed \/ \E i \in DOMAIN toUs : toUs[i].op = "msoupdate")
  /\ UNCHANGED <<filters, source, clients, known, input, slotVars, callVars,
                 changed, calls, changes>>

\* ezbeq is killed and started again.
Restart ==
  /\ Fault
  /\ link' = "down" /\ clients' = {}
  /\ \E n \in 0..Len(toDevice) : toDevice' = SubSeq(toDevice, 1, n)
  /\ toUs' = <<>>
  /\ known' = FALSE /\ input' = None
  /\ hydrated' = FALSE /\ last' = Empty
  /\ pc' = [c \in Callers |-> "idle"] /\ title' = [c \in Callers |-> Empty]
  /\ doubt' = (\/ doubt \/ \E c \in Callers : pc[c] # "idle"
               \/ \E i \in DOMAIN toDevice :
                    i > Len(toDevice') /\ toDevice[i].op = "filters")
  /\ missed' = (missed \/ \E i \in DOMAIN toUs : toUs[i].op = "msoupdate")
  /\ UNCHANGED <<filters, source, file, changed, calls, changes>>

-----------------------------------------------------------------------------
Next ==
  \/ State \/ \E t \in Threads : Request(t)
  \/ \E c \in Callers : Send(c) \/ Settle(c)
  \/ OnMso \/ OnMsoUpdate \/ Open \/ Close
  \/ Device \/ Select \/ Lose \/ Restart

Spec == Init /\ [][Next]_vars

-----------------------------------------------------------------------------
(* Properties.                                                             *)

Quiet ==
  /\ \A c \in Callers : pc[c] = "idle"
  /\ \A i \in DOMAIN toDevice : toDevice[i].op # "filters"

\* Between calls, a title shown is that of the filters the device holds, over
\* restarts and lost connections too - unless calls overlapped, the filters
\* were lost with the connection, or there was nothing to send them to.
TitleMeansLoaded == Quiet /\ hydrated /\ ~doubt /\ last # ERROR => filters = last

\* With autoclear, the filters are gone once ezbeq has heard of a change of the
\* input, unless they were asked for after the change.
ClearedOnChange ==
  AutoClear /\ Quiet /\ toUs = <<>> /\ changed /\ ~missed /\ ~doubt /\ last # ERROR
    => filters = Empty
=============================================================================
