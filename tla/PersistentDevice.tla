-------------------------- MODULE PersistentDevice --------------------------
(***************************************************************************)
(* The persistence of a device's state: ezbeq/device.py, PersistentDevice. *)
(*                                                                         *)
(* Every call runs on a thread of the web server's pool.  The first one    *)
(* hydrates the device: a fresh state, merged with the cache file.  A      *)
(* mutating call then runs its operation and, whether or not it raised,    *)
(* saves the state and broadcasts it (_hydrate_cache_broadcast).  Saving   *)
(* writes <name>.json.tmp and renames it over <name>.json.  Listing the    *)
(* devices hydrates again (refresh=True).  No lock is taken anywhere.      *)
(*                                                                         *)
(* A file name is bound to an inode; a thread that has the file open keeps *)
(* its inode when the name is rebound.  Operations are reduced to the      *)
(* state they leave; modules such as Minidsp say which one that is.        *)
(*                                                                         *)
(* What a device restores from the file differs: minidsp.py its slots,     *)
(* camilladsp.py all but the mute, qsys.py nothing, as it looks for        *)
(* another id than the one it saves.  A state is therefore two parts: the  *)
(* one _merge_state keeps, and the one that is as _load_initial_state made *)
(* it, from the device or from defaults.                                   *)
(***************************************************************************)
EXTENDS Naturals

CONSTANTS
  Threads,   \* threads of the request pool
  Kept,      \* the part of a state _merge_state restores
  Live,      \* the part it does not restore
  Initial,   \* the states _load_initial_state may return
  None,      \* no value
  Inodes,    \* inodes of the file system
  Blank,     \* content of a file that was truncated and not written yet
  Garbled,   \* content two threads have written over each other
  Overlap,   \* may calls overlap?
  MaxCalls   \* bound on the number of calls

\* The states of the device.
Values == [kept : Kept, live : Live]

ASSUME PersistentDeviceAssumption ==
  /\ Initial \subseteq Values /\ Initial # {}
  /\ None \notin Values /\ None \notin Inodes
  /\ Blank \notin Values /\ Garbled \notin Values
  /\ Overlap \in BOOLEAN
  /\ MaxCalls \in Nat

VARIABLES
  cur,        \* _current_state
  hydrated,   \* __hydrated
  pc,         \* where each thread is
  call,       \* the call a thread is in
  json, tmp,  \* inodes the names <name>.json and <name>.json.tmp are bound to
  content,    \* content of every inode
  fd,         \* the inode a thread has open for writing
  buf,        \* serialised state a thread is about to write or to send
  shown,      \* what the clients of the websocket were last sent
  reloaded,   \* history: has the state been loaded since it was last saved?
  calls       \* number of calls made

files == <<json, tmp, content>>
vars == <<cur, hydrated, pc, call, files, fd, buf, shown, reloaded, calls>>

\* The state update(v) and the like leave, a state() read, a refresh.
Call == [kind : {"update"}, arg : Values] \cup [kind : {"state", "refresh"}, arg : {None}]

Places == {"idle", "load", "merge", "func", "open", "dump", "close", "replace",
           "message", "send"}

\* The type invariant: names are bound to inodes, and what is written, sent
\* or kept is a state, not something half built.
TypeOK ==
  /\ cur \in Values \cup {None}
  /\ hydrated \in BOOLEAN
  /\ pc \in [Threads -> Places]
  /\ call \in [Threads -> Call \cup {None}]
  /\ json \in Inodes \cup {None} /\ tmp \in Inodes \cup {None}
  /\ content \in [Inodes -> Values \cup {Blank, Garbled}]
  /\ fd \in [Threads -> Inodes \cup {None}]
  /\ buf \in [Threads -> Values \cup {None}]
  /\ shown \in Values \cup {None}
  /\ reloaded \in BOOLEAN
  /\ calls \in Nat

Init ==
  /\ cur = None /\ hydrated = FALSE
  /\ pc = [t \in Threads |-> "idle"]
  /\ call = [t \in Threads |-> None]
  /\ json = None /\ tmp = None
  /\ content = [i \in Inodes |-> Blank]
  /\ fd = [t \in Threads |-> None]
  /\ buf = [t \in Threads |-> None]
  /\ shown = None
  /\ reloaded = FALSE
  /\ calls = 0

AllIdle == \A t \in Threads : pc[t] = "idle"

Go(t, from, to) == pc[t] = from /\ pc' = [pc EXCEPT ![t] = to]

\* A call arrives.  Reading the state of a hydrated device does nothing.
Begin(t, c) ==
  /\ Overlap \/ AllIdle
  /\ calls < MaxCalls /\ calls' = calls + 1
  /\ c.kind = "state" => ~hydrated
  /\ Go(t, "idle", IF c.kind = "refresh" \/ ~hydrated THEN "load" ELSE "func")
  /\ call' = [call EXCEPT ![t] = c]
  /\ UNCHANGED <<cur, hydrated, files, fd, buf, shown, reloaded>>

\* _hydrate, first half: a fresh state replaces the current one at once.
Load(t) ==
  /\ Go(t, "load", "merge")
  /\ cur' \in Initial
  /\ reloaded' = TRUE
  /\ UNCHANGED <<hydrated, call, files, fd, buf, shown, calls>>

\* Mutant of LoadFails: the exception is swallowed.
LoadShrugs(t) ==
  /\ Go(t, "load", "merge")
  /\ UNCHANGED <<cur, hydrated, call, files, fd, buf, shown, reloaded, calls>>

\* The device is unreachable: _load_initial_state raises.
LoadFails(t) ==
  /\ Go(t, "load", "idle")
  /\ UNCHANGED <<cur, hydrated, call, files, fd, buf, shown, reloaded, calls>>

\* _merge_state.
Restored(loaded, cached) == [loaded EXCEPT !.kept = cached.kept]

\* Mutant of Merge: a refresh does not merge the cache file.
MergeOnce(t) ==
  /\ Go(t, "merge", IF call[t].kind = "update" THEN "func" ELSE "idle")
  /\ cur' = IF json # None /\ call[t].kind # "refresh"
            THEN Restored(cur, content[json]) ELSE cur
  /\ hydrated' = (hydrated \/ call[t].kind # "refresh")
  /\ UNCHANGED <<call, files, fd, buf, shown, reloaded, calls>>

\* _hydrate, second half: merge the cache file if it exists; whatever goes
\* wrong with it is logged and ignored.
Merge(t) ==
  /\ Go(t, "merge", IF call[t].kind = "update" THEN "func" ELSE "idle")
  /\ cur' = IF json # None /\ content[json] \in Values
            THEN Restored(cur, content[json]) ELSE cur
  /\ hydrated' = (hydrated \/ call[t].kind # "refresh")
  /\ UNCHANGED <<call, files, fd, buf, shown, reloaded, calls>>

\* The operation itself, which may also raise and change nothing.
Func(t) ==
  /\ Go(t, "func", "open")
  /\ cur' \in {call[t].arg, cur}
  /\ UNCHANGED <<hydrated, call, files, fd, buf, shown, reloaded, calls>>

\* Mutant of Open: the cache file itself is written.
OpenInPlace(t) ==
  /\ Go(t, "open", "dump")
  /\ \E i \in Inodes :
       /\ json # None => i = json
       /\ json' = i
       /\ fd' = [fd EXCEPT ![t] = i]
       /\ content' = [content EXCEPT ![i] = Blank]
  /\ UNCHANGED <<cur, hydrated, call, tmp, buf, shown, reloaded, calls>>

\* _persist: open(tmp, 'w') truncates the file, or creates it.
Open(t) ==
  /\ Go(t, "open", "dump")
  /\ \E i \in Inodes :
       /\ IF tmp # None THEN i = tmp
          ELSE i # json /\ \A u \in Threads : fd[u] # i
       /\ tmp' = i
       /\ fd' = [fd EXCEPT ![t] = i]
       /\ content' = [content EXCEPT ![i] = Blank]
  /\ UNCHANGED <<cur, hydrated, call, json, buf, shown, reloaded, calls>>

\* Mutants of Dump: nothing is dumped; or what the clients know is.
DumpNothing(t) ==
  /\ Go(t, "dump", "close")
  /\ UNCHANGED <<cur, hydrated, call, files, fd, buf, shown, reloaded, calls>>

DumpShown(t) ==
  /\ Go(t, "dump", "close")
  /\ buf' = [buf EXCEPT ![t] = IF shown = None THEN cur ELSE shown]
  /\ UNCHANGED <<cur, hydrated, call, files, fd, shown, reloaded, calls>>

\* json.dump serialises the state into the file's buffer ...
Dump(t) ==
  /\ Go(t, "dump", "close")
  /\ buf' = [buf EXCEPT ![t] = cur]
  /\ UNCHANGED <<cur, hydrated, call, files, fd, shown, reloaded, calls>>

\* ... which reaches the file when it is closed.  Over another thread's
\* longer text it leaves the end of that text behind.
Close(t) ==
  /\ Go(t, "close", "replace")
  /\ \E c \in {buf[t], Garbled} :
       /\ c = Garbled => content[fd[t]] \notin {Blank, buf[t]}
       /\ content' = [content EXCEPT ![fd[t]] = c]
  /\ fd' = [fd EXCEPT ![t] = None]
  /\ UNCHANGED <<cur, hydrated, call, json, tmp, buf, shown, reloaded, calls>>

\* os.replace, which raises when another thread has renamed the file already.
Replace(t) ==
  /\ Go(t, "replace", IF tmp = None THEN "idle" ELSE "message")
  /\ json' = IF tmp = None THEN json ELSE tmp
  /\ tmp' = None
  /\ reloaded' = (reloaded /\ tmp = None)
  /\ UNCHANGED <<cur, hydrated, call, content, fd, buf, shown, calls>>

\* _broadcast: serialise the state, then send it.
Message(t) ==
  /\ Go(t, "message", "send")
  /\ buf' = [buf EXCEPT ![t] = cur]
  /\ UNCHANGED <<cur, hydrated, call, files, fd, shown, reloaded, calls>>

Send(t) ==
  /\ Go(t, "send", "idle")
  /\ shown' = buf[t]
  /\ UNCHANGED <<cur, hydrated, call, files, fd, buf, reloaded, calls>>

\* The process ends and comes back; the files stay as they are.
Restart ==
  /\ cur' = None /\ hydrated' = FALSE
  /\ pc' = [t \in Threads |-> "idle"]
  /\ fd' = [t \in Threads |-> None]
  /\ shown' = None
  /\ UNCHANGED <<call, files, buf, reloaded, calls>>

Next ==
  \/ \E t \in Threads :
       \/ \E c \in Call : Begin(t, c)
       \/ Load(t) \/ LoadFails(t) \/ Merge(t) \/ Func(t)
       \/ Open(t) \/ Dump(t) \/ Close(t) \/ Replace(t)
       \/ Message(t) \/ Send(t)
  \/ Restart

Spec == Init /\ [][Next]_vars

-----------------------------------------------------------------------------
\* "_persist() must write via a temp file and os.replace() so readers never
\* see a partial write": the cache file holds a complete state at all times.
NoPartialWrite == json # None => content[json] \in Values

\* When no call is under way, what a restart would restore is what is in memory,
\* and the clients show what was saved.  All three are the same - except that
\* loading the state again, which a refresh does without telling anybody, makes
\* memory differ from the file and the clients in what is not restored.
CopiesAgree ==
  AllIdle /\ hydrated =>
    /\ json # None => Restored(cur, content[json]) = cur
    /\ json # None /\ ~reloaded => content[json] = cur
    /\ shown # None => json # None /\ shown = content[json]

\* A thread that runs an operation, saves or broadcasts always finds a state:
\* "hydrate cannot return None", as _persist and __get_state_msg assert.
StateIsLoaded ==
  /\ hydrated => cur # None
  /\ \A t \in Threads : pc[t] \notin {"idle", "load"} => cur # None

\* What the file name is bound to, as a value.
Disk == IF json = None THEN None ELSE content[json]

Register == INSTANCE StateRegister WITH memory <- cur, disk <- Disk

\* Calls that do not overlap implement StateRegister: the file changes only
\* by being replaced whole, by the state in memory.
IsRegister == Register!Spec
=============================================================================
