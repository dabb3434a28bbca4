--------------------------- MODULE OneSlotDevices ---------------------------
(***************************************************************************)
(* A Q-SYS core, a StormAudio processor and REAPER (ezbeq/qsys.py,         *)
(* ezbeq/stormaudio.py, ezbeq/reaper.py, on top of ezbeq/device.py, class  *)
(* PersistentDevice): devices with one slot, whose title is what ezbeq     *)
(* believes to have sent.                                                  *)
(*                                                                         *)
(* Q-SYS gets one command for each component and whatever it answers, or   *)
(* does not, is logged.  StormAudio says whether it took the filters;      *)
(* there is no way to remove them.  REAPER gets a text with a version, by  *)
(* a request that is repeated, and a script in REAPER applies the text     *)
(* when its version is another than the one it has seen.                   *)
(*                                                                         *)
(* A catalogue entry stands for its filters and for its title.  Saving is  *)
(* one step here; PersistentDevice takes it apart.                         *)
(***************************************************************************)
EXTENDS Naturals, FiniteSets

CONSTANTS
  Threads,     \* request threads
  Entries,     \* catalogue entries
  Invalid,     \* entries with values StormAudio does not support
  Components,  \* how many components Q-SYS has
  Attempts,    \* how often a request to REAPER is made
  None,        \* no value
  MaxCalls,    \* bound on requests
  MaxFaults    \* bound on requests that fail, restarts of ezbeq and of the script

Empty == "Empty"
ERROR == "ERROR"
Titles == Entries \cup {Empty}
Kinds == {"qsys", "stormaudio", "reaper"}

\* What is assumed of the constants.
Constants ==
  /\ Invalid \subseteq Entries
  /\ {None, Empty, ERROR} \cap Entries = {}
  /\ {Components, Attempts} \subseteq Nat \ {0}
  /\ {MaxCalls, MaxFaults} \subseteq Nat

VARIABLES
  kind,              \* the type of the device, from the configuration
  loaded,             \* the device: what each component has
  ext,               \* the text REAPER was given last
  at,                \* the version the device was given last
  seen,              \* last_version of the script
  wire,              \* requests that were given up and may yet be handled
  hydrated, last,    \* the device's picture
  file,              \* the title in the cache file
  pc, title,         \* what each thread does, and the title it will show
  version, step,     \* the version it sends, the component or attempt it is at
  doubt,             \* history: the title shown need not be what is loaded
  calls, faults      \* counters for the bounds

deviceVars == <<loaded, ext, at, seen, wire>>
slotVars == <<hydrated, last, file>>
callVars == <<pc, title, version, step>>
bounds == <<calls, faults>>
vars == <<kind, deviceVars, slotVars, callVars, doubt, bounds>>

\* A request under way.
Message == [title : Titles, version : Nat]

\* The type invariant.
TypeOK ==
  /\ kind \in Kinds
  /\ loaded \in [1..Components -> Titles]
  /\ ext \in Titles /\ at \in Nat /\ seen \in Nat
  /\ wire \subseteq Message
  /\ hydrated \in BOOLEAN
  /\ last \in Titles \cup {ERROR}
  /\ file \in Titles \cup {ERROR, None}
  /\ pc \in [Threads -> {"idle", "send", "sent", "failed"}]
  /\ title \in [Threads -> Titles]
  /\ version \in [Threads -> Nat]
  /\ step \in [Threads -> 1..(Components + Attempts)]
  /\ doubt \in BOOLEAN
  /\ {calls, faults} \subseteq Nat

Init ==
  /\ kind \in Kinds
  /\ \E t \in Titles : loaded = [c \in 1..Components |-> t] /\ doubt = (t # Empty)
  /\ ext = Empty /\ at = 0 /\ seen = 0 /\ wire = {}
  /\ hydrated = FALSE /\ last = Empty /\ file = None
  /\ pc = [t \in Threads |-> "idle"] /\ title = [t \in Threads |-> Empty]
  /\ version = [t \in Threads |-> 0] /\ step = [t \in Threads |-> 1]
  /\ calls = 0 /\ faults = 0

Fault == faults < MaxFaults /\ faults' = faults + 1

-----------------------------------------------------------------------------
(* The state: _hydrate, _merge_state.                                      *)

\* What a start makes of the cache file.  Q-SYS looks for a slot of another name.
Remembered == IF file = None \/ kind = "qsys" THEN Empty ELSE file

Hydrate ==
  /\ hydrated' = TRUE
  /\ last' = IF hydrated THEN last ELSE Remembered

\* A request for the state.
State ==
  /\ ~hydrated
  /\ Hydrate
  /\ UNCHANGED <<kind, deviceVars, file, callVars, doubt, bounds>>

\* activate: the slot is active anyway; the state is saved.
Activate ==
  /\ Hydrate
  /\ file' = last'
  /\ UNCHANGED <<kind, deviceVars, callVars, doubt, bounds>>

-----------------------------------------------------------------------------
(* Calls: load_filter, clear_filter.                                       *)

Alone(t) == \A u \in Threads \ {t} : pc[u] = "idle"

\* An entry StormAudio does not support is refused before anything else; to
\* clear a StormAudio nothing is sent.  The version is the time; calls in the
\* same millisecond overlap.
Begin(t) ==
  /\ pc[t] = "idle"
  /\ calls < MaxCalls /\ calls' = calls + 1
  /\ \E x \in Titles :
       /\ ~(kind = "stormaudio" /\ x \in Invalid)
       /\ title' = [title EXCEPT ![t] = x]
       /\ pc' = [pc EXCEPT ![t] = IF kind = "stormaudio" /\ x = Empty THEN "sent" ELSE "send"]
  /\ version' = [version EXCEPT ![t] = calls']
  /\ step' = [step EXCEPT ![t] = 1]
  /\ Hydrate
  /\ doubt' = ~Alone(t)
  /\ UNCHANGED <<kind, deviceVars, file, faults>>

\* Mutant of Settle: the title of a call that failed stays.
SettleQuietly(t) ==
  /\ pc[t] \in {"sent", "failed"}
  /\ last' = IF pc[t] = "sent" THEN title[t] ELSE last
  /\ file' = last'
  /\ pc' = [pc EXCEPT ![t] = "idle"] /\ title' = [title EXCEPT ![t] = Empty]
  /\ UNCHANGED <<kind, deviceVars, hydrated, version, step, doubt, bounds>>

\* The rest of __do_it; the state is saved and broadcast.
Settle(t) ==
  /\ pc[t] \in {"sent", "failed"}
  /\ last' = IF pc[t] = "sent" THEN title[t] ELSE ERROR
  /\ file' = last'
  /\ pc' = [pc EXCEPT ![t] = "idle"] /\ title' = [title EXCEPT ![t] = Empty]
  /\ UNCHANGED <<kind, deviceVars, hydrated, version, step, doubt, bounds>>

Goto(t, place) == pc' = [pc EXCEPT ![t] = place]

\* The next component of Q-SYS, or attempt for REAPER, if there is one.
Onward(t, limit, end) ==
  /\ step' = [step EXCEPT ![t] = IF @ < limit THEN @ + 1 ELSE @]
  /\ Goto(t, IF step[t] < limit THEN "send" ELSE end)

Sending(t, type) == kind = type /\ pc[t] = "send"

-----------------------------------------------------------------------------
(* Q-SYS: __send_to_socket, __send_component.                              *)

Given(t) == [loaded EXCEPT ![step[t]] = title[t]]

\* The component is set, and an answer read.
SetComponent(t) ==
  /\ Sending(t, "qsys")
  /\ loaded' = Given(t)
  /\ Onward(t, Components, "sent")
  /\ UNCHANGED <<kind, ext, at, seen, wire, slotVars, title, version, doubt, bounds>>

\* The answer is an error or does not come in time: that is logged.
Unanswered(t) ==
  /\ Sending(t, "qsys")
  /\ Fault
  /\ loaded' \in {loaded, Given(t)}
  /\ doubt' = (doubt \/ loaded' # Given(t))
  /\ Onward(t, Components, "sent")
  /\ UNCHANGED <<kind, ext, at, seen, wire, slotVars, title, version, calls>>

\* There is no connection, or no longer.
Disconnected(t) ==
  /\ Sending(t, "qsys")
  /\ Fault
  /\ loaded' \in {loaded, Given(t)}
  /\ Goto(t, "failed")
  /\ UNCHANGED <<kind, ext, at, seen, wire, slotVars, title, version, step, doubt, calls>>

-----------------------------------------------------------------------------
(* StormAudio: __post.                                                     *)

Everywhere(x) == [c \in 1..Components |-> x]

\* The answer is ok, or reads as if it were.
Imported(t) ==
  /\ Sending(t, "stormaudio")
  /\ loaded' = Everywhere(title[t]) /\ at' = version[t]
  /\ Goto(t, "sent")
  /\ UNCHANGED <<kind, ext, seen, wire, slotVars, title, version, step, doubt, bounds>>

\* It is an HTTP error, is not JSON, or says that the filters were rejected.
Rejected(t) ==
  /\ Sending(t, "stormaudio")
  /\ Fault
  /\ Goto(t, "failed")
  /\ UNCHANGED <<kind, deviceVars, slotVars, title, version, step, doubt, calls>>

\* A request that was given up may be handled yet.
GivenUp(t) == wire' = wire \cup {[title |-> title[t], version |-> version[t]]}

\* It does not come in time.
ImportTimeout(t) ==
  /\ Sending(t, "stormaudio")
  /\ Fault
  /\ GivenUp(t)
  /\ Goto(t, "failed")
  /\ UNCHANGED <<kind, loaded, ext, at, seen, slotVars, title, version, step, doubt, calls>>

-----------------------------------------------------------------------------
(* REAPER: __push_extstate, and the script that polls.                     *)

Extend(t) == ext' = title[t] /\ at' = version[t]

Pushed(t) ==
  /\ Sending(t, "reaper")
  /\ Extend(t)
  /\ Goto(t, "sent")
  /\ UNCHANGED <<kind, loaded, seen, wire, slotVars, title, version, step, doubt, bounds>>

\* An attempt fails - it did not get there, was handled though the answer is
\* lost, or is late - and is made again.
Retry(t) ==
  /\ Sending(t, "reaper")
  /\ Fault
  /\ \/ UNCHANGED <<ext, at, wire>>
     \/ Extend(t) /\ UNCHANGED wire
     \/ GivenUp(t) /\ UNCHANGED <<ext, at>>
  /\ Onward(t, Attempts, "failed")
  /\ UNCHANGED <<kind, loaded, seen, slotVars, title, version, doubt, calls>>

\* raise_for_status: it is refused.
Refused(t) ==
  /\ Sending(t, "reaper")
  /\ Fault
  /\ Goto(t, "failed")
  /\ UNCHANGED <<kind, deviceVars, slotVars, title, version, step, doubt, calls>>

\* poll_once: another version, be it older.
Poll ==
  /\ kind = "reaper" /\ at # seen
  /\ seen' = at
  /\ loaded' = Everywhere(ext)
  /\ UNCHANGED <<kind, ext, at, wire, slotVars, callVars, doubt, bounds>>

\* The script is started again: it has seen nothing.
ScriptRestart ==
  /\ kind = "reaper" /\ seen # 0
  /\ Fault
  /\ seen' = 0
  /\ UNCHANGED <<kind, loaded, ext, at, wire, slotVars, callVars, doubt, calls>>

-----------------------------------------------------------------------------
(* Outside.                                                                *)

\* A request that was given up is handled, perhaps after a newer one.
Late ==
  /\ \E m \in wire :
       /\ wire' = wire \ {m}
       /\ at' = m.version
       /\ IF kind = "reaper" THEN ext' = m.title /\ UNCHANGED loaded
          ELSE loaded' = Everywhere(m.title) /\ UNCHANGED ext
       /\ doubt' = (doubt \/ m.version < at)
  /\ UNCHANGED <<kind, seen, slotVars, callVars, bounds>>

\* ezbeq is killed and started again.  Q-SYS forgets its title.
Restart ==
  /\ Fault
  /\ hydrated' = FALSE /\ last' = Empty
  /\ pc' = [t \in Threads |-> "idle"] /\ title' = [t \in Threads |-> Empty]
  /\ doubt' = (\/ doubt \/ \E t \in Threads : pc[t] # "idle"
               \/ kind = "qsys" /\ file # None)
  /\ UNCHANGED <<kind, deviceVars, file, version, step, calls>>

-----------------------------------------------------------------------------
Call(t) ==
  \/ Begin(t) \/ Settle(t)
  \/ SetComponent(t) \/ Unanswered(t) \/ Disconnected(t)
  \/ Imported(t) \/ Rejected(t) \/ ImportTimeout(t)
  \/ Pushed(t) \/ Retry(t) \/ Refused(t)

Next ==
  \/ State \/ Activate
  \/ \E t \in Threads : Call(t)
  \/ Poll \/ ScriptRestart \/ Late \/ Restart

Spec == Init /\ [][Next]_vars

-----------------------------------------------------------------------------
(* Properties.                                                             *)

\* Between calls, and once the script has polled, a title says what every part
\* of the device holds, whatever failed before and over restarts too.  After a
\* clear that is so for Q-SYS and REAPER only.  Excepted are calls that
\* overlapped or were cut off, a component of Q-SYS that did not take its
\* command, a Q-SYS after a restart, and a request that was given up and is
\* handled after a newer one.
Settled ==
  /\ \A t \in Threads : pc[t] = "idle"
  /\ kind = "reaper" => at = seen
  /\ hydrated /\ last # ERROR
  /\ kind = "stormaudio" => last # Empty

TitleMeansLoaded == Settled /\ ~doubt => \A c \in 1..Components : loaded[c] = last
=============================================================================
