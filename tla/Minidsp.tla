------------------------------ MODULE Minidsp ------------------------------
(***************************************************************************)
(* The minidsp device of ezbeq (ezbeq/minidsp.py, class Minidsp, on top of *)
(* ezbeq/device.py, class PersistentDevice).                               *)
(*                                                                         *)
(* Flask request threads, and the reactor thread that delivers the         *)
(* messages of the minidsp-rs websocket, call the operations of the        *)
(* device.  An operation turns into one job of a single-worker executor    *)
(* and waits for it up to cmdTimeout; a job that outlives its caller stays *)
(* in the queue and runs later.  The worker talks to the DSP through       *)
(* separate processes: one reads the active slot, one applies commands,    *)
(* and commands always land on the slot that is active on the DSP.  Only   *)
(* after the job does the caller record the outcome in its picture of the  *)
(* device, and only after that does it save the picture to a file.  No     *)
(* lock keeps two callers from saving at the same time.  The DSP cannot be *)
(* asked what filter a slot holds, so nothing repairs a wrong picture.     *)
(***************************************************************************)
EXTENDS Naturals, Sequences, FiniteSets

CONSTANTS
  Threads,          \* threads that call the device
  Slots,            \* the config slots of the DSP
  NoSlot,           \* "no slot": the master control, or an unknown slot
  Entries,          \* catalogue entries (each stands for its title too)
  Trims,            \* input gain and mute settings of one slot
  Unity,            \* 0 dB, unmuted: what clear_filter restores
  Volumes,          \* master volumes
  ZeroDb,           \* the volume of a state built without reading the DSP
  None,             \* no value
  Requests,         \* what a client may ask for: non-empty sequences of Op
  Rejected,         \* operations no commands can be generated for
  SlotChangeDelay,  \* the slotChangeDelay option
  MaxRequests,      \* bound on the number of requests and messages
  MaxFaults,        \* bound on DSP failures and process restarts
  MaxRemote         \* bound on changes made with the remote control

Empty == "Empty"
CUSTOM == "CUSTOM"
ERROR == "ERROR"
Partial == "partial"   \* what an interrupted command file leaves in a slot

Titles == Entries \cup {Empty, CUSTOM}

\* What the DSP reports of itself (__read_state_from_device), and what stands
\* for it when it could not be read.
Reading == [preset : Slots, mv : Volumes, mute : BOOLEAN, connected : {TRUE}]

Disconnected ==
  [preset |-> NoSlot, mv |-> ZeroDb, mute |-> FALSE, connected |-> FALSE]

Status == Reading \cup {Disconnected}

\* The operations; kind "state" is a read of the device state, "ws" is the
\* handling of one websocket message.
Op == [kind : {"load"}, slot : Slots, arg : Entries]
      \cup [kind : {"clear", "biquads", "activate"}, slot : Slots, arg : {None}]
      \cup [kind : {"trim"}, slot : Slots, arg : Trims]
      \cup [kind : {"volume"}, slot : {NoSlot}, arg : Volumes]
      \cup [kind : {"mute", "unmute", "state"}, slot : {NoSlot}, arg : {None}]
      \cup [kind : {"ws"}, slot : {NoSlot}, arg : Reading]

Job == [by : Threads \cup {None}, op : Op]

ASSUME MinidspAssumption ==
  /\ Threads # {} /\ {None, "file"} \cap Threads = {}
  /\ Slots # {} /\ NoSlot \notin Slots
  /\ Entries \cap {Empty, CUSTOM, ERROR, Partial} = {}
  /\ Unity \in Trims
  /\ ZeroDb \in Volumes
  /\ Requests \subseteq Seq(Op) \ {<<>>}
  /\ \A r \in Requests : \A i \in DOMAIN r : r[i].kind # "ws"
  /\ Rejected \subseteq Op
  /\ SlotChangeDelay \in BOOLEAN
  /\ {MaxRequests, MaxFaults, MaxRemote} \subseteq Nat

VARIABLES
  dsp,        \* the DSP itself
  queue,      \* executor queue; its head is the job that runs
  stage,      \* how far the running job is
  pc,         \* what each thread does
  todo,       \* the operations a thread still has to perform
  fut,        \* the future of the thread's job
  seen,       \* the status the thread's job read
  hydrated,   \* PersistentDevice.__hydrated
  cur,        \* PersistentDevice._current_state
  file,       \* the slots saved in <config_path>/<name>.json, None if unreadable
  buf,        \* what each thread has written to the temporary file
  crossed,    \* saves that overlap another's; "file": one of them was the last
  tainted,    \* history: slots hit by an overlap, a stray write or a kill
  doubt,      \* history: slots whose last trim (or master) change failed
  started, faults, remotes   \* counters for the bounds

threadVars == <<pc, todo, fut, seen>>
stateVars == <<hydrated, cur, file>>
saveVars == <<buf, crossed>>
historyVars == <<tainted, doubt>>
vars == <<dsp, queue, stage, threadVars, stateVars, saveVars, historyVars,
          started, faults, remotes>>

-----------------------------------------------------------------------------
(* The in-memory state and what each operation does to it.                 *)

FilterKinds == {"load", "clear", "biquads"}
TrimKinds == {"trim", "clear"}
MasterKinds == {"volume", "mute", "unmute"}

\* The filter a job leaves in its slot, and the title shown for it.
Title(op) ==
  CASE op.kind = "load" -> op.arg
    [] op.kind = "clear" -> Empty
    [] OTHER -> CUSTOM

activate(st, s) == [st EXCEPT !.active = s, !.lit = {s}]

load(st, op) ==
  activate([st EXCEPT !.last = [st.last EXCEPT ![op.slot] = Title(op)]], op.slot)

\* Mutant of clear: gains and mutes are forgotten.
ClearFilterOnly(st, op) == load(st, op)

clear(st, op) ==
  [load(st, op) EXCEPT !.trim = [st.trim EXCEPT ![op.slot] = Unity]]

\* Mutant of error: the title stays.
ErrorKeepsTitle(st, op) == activate(st, op.slot)

error(st, op) ==
  activate([st EXCEPT !.last = [st.last EXCEPT ![op.slot] = ERROR]], op.slot)

gain(st, op) ==
  activate([st EXCEPT !.trim = [st.trim EXCEPT ![op.slot] = op.arg]], op.slot)

\* Mutant of update_master_state: the mute is left alone.
UpdateVolume(st, status) ==
  [st EXCEPT !.mv = status.mv, !.connected = status.connected]

\* MinidspState.update_master_state, and connected.
update_master_state(st, status) ==
  [st EXCEPT !.mv = status.mv, !.mute = status.mute,
             !.connected = status.connected]

\* on_ws_message: mute has no setter, so a message whose mute differs stops
\* there and never reaches the slot.
on_ws_message(st, msg) ==
  LET vol == [st EXCEPT !.mv = msg.mv]
  IN  IF st.mute = msg.mute /\ st.active # msg.preset
      THEN activate(vol, msg.preset)
      ELSE vol

\* The state after operation op succeeded; status is what its job read.
Applied(st, op, status) ==
  CASE op.kind \in {"load", "biquads"} -> load(st, op)
    [] op.kind = "clear" -> clear(st, op)
    [] op.kind = "activate" -> activate(st, op.slot)
    [] op.kind = "trim" -> gain(st, op)
    [] op.kind = "volume" -> [st EXCEPT !.mv = op.arg]
    [] op.kind \in {"mute", "unmute"} -> [st EXCEPT !.mute = (op.kind = "mute")]
    [] op.kind = "state" -> update_master_state(st, status)
    [] op.kind = "ws" -> on_ws_message(st, op.arg)

\* Mutant of Raised: every operation that fails is an error of its slot.
RaisedAlways(st, op) == error(st, op)

\* The state after operation op raised.
Raised(st, op) == IF op.kind \in FilterKinds THEN error(st, op) ELSE st

\* serialise(), reduced to what merge_with reads back.
Saved(st) == [lit |-> st.lit, last |-> st.last, trim |-> st.trim]

\* A state fresh from a status read, and its merge with the cache file.
\* merge_with takes the active flags of the slots from the file, but leaves
\* active_slot as the DSP reported it.
Fresh(status) ==
  [active |-> status.preset, lit |-> {status.preset} \cap Slots,
   last |-> [s \in Slots |-> Empty], trim |-> [s \in Slots |-> Unity],
   mv |-> status.mv, mute |-> status.mute, connected |-> status.connected]

\* Mutant of Merged: the file is ignored.
MergedNever(st, f) == st

Merged(st, f) ==
  IF f = None THEN st
  ELSE [st EXCEPT !.lit = f.lit, !.last = f.last, !.trim = f.trim]

StatusNow ==
  [preset |-> dsp.preset, mv |-> dsp.mv, mute |-> dsp.mute, connected |-> TRUE]

StateOp == [kind |-> "state", slot |-> NoSlot, arg |-> None]

-----------------------------------------------------------------------------
Filters == Titles \cup {Partial}

DspType == [preset : Slots, filter : [Slots -> Filters], trim : [Slots -> Trims],
            mv : Volumes, mute : BOOLEAN]

StateType == [active : Slots \cup {NoSlot}, lit : SUBSET Slots,
              last : [Slots -> Titles \cup {ERROR}], trim : [Slots -> Trims],
              mv : Volumes, mute : BOOLEAN, connected : BOOLEAN]

FileType == [lit : SUBSET Slots, last : [Slots -> Titles \cup {ERROR}],
             trim : [Slots -> Trims]]

\* "No cache file" is not a cache file.
ASSUME NoFileAssumption == None \notin FileType

\* The type invariant: every variable of the device has its type, so no step
\* leaves a half-built state, job or file behind.
TypeOK ==
  /\ dsp \in DspType
  /\ queue \in Seq(Job)
  /\ stage \in {"idle", "change", "select", "skip", "selectRun", "run"}
  /\ pc \in [Threads -> {"idle", "start", "hydrating", "waiting", "dump", "replace"}]
  /\ todo \in [Threads -> Seq(Op)]
  /\ fut \in [Threads -> {"none", "pending", "ok", "failed"}]
  /\ seen \in [Threads -> Status]
  /\ hydrated \in BOOLEAN
  /\ cur \in StateType
  /\ file \in FileType \cup {None}
  /\ buf \in [Threads -> FileType \cup {None}]
  /\ crossed \subseteq Threads \cup {"file"}
  /\ tainted \subseteq Slots \cup {NoSlot}
  /\ doubt \subseteq Slots \cup {NoSlot}
  /\ {started, faults, remotes} \subseteq Nat

\* A DSP nobody has loaded anything into, and no cache file.
Init ==
  /\ dsp \in [preset : Slots, filter : {[s \in Slots |-> Empty]},
              trim : {[s \in Slots |-> Unity]}, mv : {ZeroDb}, mute : {FALSE}]
  /\ queue = <<>> /\ stage = "idle"
  /\ pc = [t \in Threads |-> "idle"]
  /\ todo = [t \in Threads |-> <<>>]
  /\ fut = [t \in Threads |-> "none"]
  /\ seen = [t \in Threads |-> Disconnected]
  /\ hydrated = FALSE /\ cur = Fresh(Disconnected) /\ file = None
  /\ buf = [t \in Threads |-> None] /\ crossed = {}
  /\ tainted = {} /\ doubt = {}
  /\ started = 0 /\ faults = 0 /\ remotes = 0

-----------------------------------------------------------------------------
(* Request threads.                                                        *)

SlotsOf(ops) == {ops[i].slot : i \in DOMAIN ops}

InFlight(s) == \E t \in Threads : s \in SlotsOf(todo[t])

\* Thread t is between recording an outcome and having saved it.
Saving(t) == pc[t] \in {"dump", "replace"}

OthersSaving(t) == \E u \in Threads \ {t} : Saving(u)

\* The slots whose picture need not be in the file: those being saved, or all
\* when overlapping saves were the last to write it.
Unsaved ==
  {s \in Slots : \/ "file" \in crossed
                 \/ \E t \in Threads : Saving(t) /\ Head(todo[t]).slot = s}

\* A request or message arrives.  Two in flight on one slot, or two that both
\* find the device unhydrated, are an overlap.
Arrive(t, ops) ==
  /\ pc[t] = "idle"
  /\ started < MaxRequests
  /\ started' = started + 1
  /\ pc' = [pc EXCEPT ![t] = "start"]
  /\ todo' = [todo EXCEPT ![t] = ops]
  /\ tainted' = tainted
       \cup {s \in SlotsOf(ops) : InFlight(s)}
       \cup {s \in {NoSlot} : ~hydrated /\ \E u \in Threads : pc[u] # "idle"}
  /\ UNCHANGED <<dsp, queue, stage, fut, seen, stateVars, saveVars, doubt, faults, remotes>>

Request(t) == \E ops \in Requests : Arrive(t, ops)

\* minidsp-rs pushes the status of the DSP over its websocket.
Notify(t) ==
  Arrive(t, <<[kind |-> "ws", slot |-> NoSlot, arg |-> StatusNow]>>)

\* _hydrate: the first call reads the DSP before anything else.
StartHydrate(t) ==
  /\ pc[t] = "start" /\ ~hydrated
  /\ queue' = Append(queue, [by |-> t, op |-> StateOp])
  /\ fut' = [fut EXCEPT ![t] = "pending"]
  /\ pc' = [pc EXCEPT ![t] = "hydrating"]
  /\ UNCHANGED <<dsp, stage, todo, seen, stateVars, saveVars, historyVars,
                 started, faults, remotes>>

\* The thread is done with its first operation: with the next one, or idle.
Advance(t) ==
  /\ todo' = [todo EXCEPT ![t] = Tail(@)]
  /\ pc' = [pc EXCEPT ![t] = IF Len(todo[t]) > 1 THEN "start" ELSE "idle"]

\* The thread's request ended with an exception: the rest is dropped.
Abort(t) ==
  /\ todo' = [todo EXCEPT ![t] = <<>>]
  /\ pc' = [pc EXCEPT ![t] = "idle"]

\* _hydrate_cache_broadcast, after the operation: its finally saves the state.
\* The operations in ops are what is left, the one just done included.
StartSave(t, ops) ==
  /\ todo' = [todo EXCEPT ![t] = ops]
  /\ pc' = [pc EXCEPT ![t] = "dump"]
  /\ crossed' = crossed \cup {u \in Threads : OthersSaving(t) /\ (u = t \/ Saving(u))}
  /\ UNCHANGED buf

\* _persist: the state is serialised to the temporary file, as it is by now ...
Dump(t) ==
  /\ pc[t] = "dump"
  /\ pc' = [pc EXCEPT ![t] = "replace"]
  /\ buf' = [buf EXCEPT ![t] = Saved(cur)]
  /\ crossed' = IF OthersSaving(t) THEN crossed ELSE crossed \ {t}
  /\ UNCHANGED <<dsp, queue, stage, todo, fut, seen, stateVars, historyVars,
                 started, faults, remotes>>

\* ... which then replaces the cache file.  Saves that overlap share the
\* temporary file (PersistentDevice): any of them or none may be in the file in
\* the end, it may be unreadable, and a rename may find nothing and raise.
Replace(t) ==
  /\ pc[t] = "replace"
  /\ \/ /\ t \notin crossed
        /\ file' = buf[t] /\ crossed' = crossed \ {"file"}
        /\ Advance(t)
     \/ /\ t \in crossed
        /\ file' \in {file, None} \cup {buf[u] : u \in Threads}
        /\ crossed' = (crossed \ {t}) \cup {"file"}
        /\ Advance(t) \/ Abort(t)
  /\ buf' = [buf EXCEPT ![t] = None]
  /\ UNCHANGED <<dsp, queue, stage, fut, seen, hydrated, cur, historyVars,
                 started, faults, remotes>>

\* A status is read for one use.
Used(t) == seen' = [seen EXCEPT ![t] = Disconnected]

\* The status read for hydration is in: a new state replaces the old one,
\* whatever another thread made of it meanwhile and has not saved.  A read of
\* the state is done with that unless it is a refresh; any other operation
\* follows.
Hydrate(t) ==
  /\ pc[t] = "hydrating" /\ fut[t] = "ok"
  /\ cur' = Merged(Fresh(seen[t]), file)
  /\ hydrated' = TRUE
  /\ fut' = [fut EXCEPT ![t] = "none"] /\ Used(t)
  /\ \/ Head(todo[t]).kind = "state" /\ Advance(t)
     \/ pc' = [pc EXCEPT ![t] = "start"] /\ UNCHANGED todo
  /\ doubt' = IF seen[t].connected THEN doubt \ {NoSlot} ELSE doubt \cup {NoSlot}
  /\ crossed' = crossed \cup {u \in Threads : Saving(u)}
  /\ tainted' = tainted \cup Unsaved
  /\ UNCHANGED <<dsp, queue, stage, file, buf, started, faults, remotes>>

\* __send_cmds and __load_state: the job joins the executor's queue.
Submit(t) ==
  /\ pc[t] = "start" /\ hydrated
  /\ LET op == Head(todo[t])
     IN  /\ op.kind # "ws" /\ op \notin Rejected
         /\ queue' = Append(queue, [by |-> t, op |-> op])
  /\ fut' = [fut EXCEPT ![t] = "pending"]
  /\ pc' = [pc EXCEPT ![t] = "waiting"]
  /\ UNCHANGED <<dsp, stage, todo, seen, stateVars, saveVars, historyVars,
                 started, faults, remotes>>

\* No commands can be made of the operation (too many filters, a gain out of
\* range): an exception, and _hydrate_cache_broadcast saves the state it has.
Reject(t) ==
  /\ pc[t] = "start" /\ hydrated
  /\ Head(todo[t]) \in Rejected
  /\ StartSave(t, <<Head(todo[t])>>)
  /\ UNCHANGED <<dsp, queue, stage, fut, seen, stateVars, historyVars,
                 started, faults, remotes>>

\* on_ws_message under _hydrate_cache_broadcast; it needs no job.
HandleMessage(t) ==
  /\ pc[t] = "start" /\ hydrated
  /\ Head(todo[t]).kind = "ws"
  /\ cur' = Applied(cur, Head(todo[t]), seen[t])
  /\ StartSave(t, todo[t])
  /\ UNCHANGED <<dsp, queue, stage, fut, seen, hydrated, file, historyVars,
                 started, faults, remotes>>

\* What a finished operation says of the slot's trim, or of the master.
DoubtAfter(op, ok, status) ==
  LET s == {op.slot}
  IN  CASE op.kind \in TrimKinds /\ ok -> doubt \ s
        [] op.kind \in TrimKinds \cup MasterKinds /\ ~ok -> doubt \cup s
        [] op.kind = "state" /\ ok ->
             IF status.connected THEN doubt \ s ELSE doubt \cup s
        [] OTHER -> doubt

\* The future's result is in: record it, and go on to save it.  Reading the
\* state saves nothing.
Complete(t) ==
  LET op == Head(todo[t])
  IN  /\ pc[t] = "waiting" /\ fut[t] = "ok"
      /\ cur' = Applied(cur, op, seen[t])
      /\ fut' = [fut EXCEPT ![t] = "none"] /\ Used(t)
      /\ IF op.kind = "state" THEN Advance(t) /\ UNCHANGED saveVars
         ELSE StartSave(t, todo[t])
      /\ doubt' = DoubtAfter(op, TRUE, seen[t])
      /\ UNCHANGED <<dsp, queue, stage, hydrated, file, tainted,
                     started, faults, remotes>>

\* Mutant of Raise: saved only on success, not in a finally.
RaiseUnsaved(t) ==
  LET op == Head(todo[t])
  IN  /\ cur' = IF pc[t] = "waiting" THEN Raised(cur, op) ELSE cur
      /\ fut' = [fut EXCEPT ![t] = "none"]
      /\ Abort(t) /\ UNCHANGED saveVars
      /\ doubt' = IF pc[t] = "waiting" THEN DoubtAfter(op, FALSE, seen[t]) ELSE doubt

\* The caller's side of an exception from the future.
Raise(t) ==
  LET op == Head(todo[t])
  IN  /\ cur' = IF pc[t] = "waiting" THEN Raised(cur, op) ELSE cur
      /\ fut' = [fut EXCEPT ![t] = "none"]
      /\ IF pc[t] = "waiting" /\ op.kind # "state" THEN StartSave(t, <<op>>)
         ELSE Abort(t) /\ UNCHANGED saveVars
      /\ doubt' = IF pc[t] = "waiting" THEN DoubtAfter(op, FALSE, seen[t]) ELSE doubt

\* The job raised.
Fail(t) ==
  /\ pc[t] = "waiting" /\ fut[t] = "failed"
  /\ Raise(t)
  /\ UNCHANGED <<dsp, queue, stage, seen, hydrated, file, tainted,
                 started, faults, remotes>>

\* The queue when nobody waits for the job of t any more.
Orphaned(t) ==
  [i \in DOMAIN queue |->
     IF queue[i].by = t THEN [queue[i] EXCEPT !.by = None] ELSE queue[i]]

\* Mutant of Timeout: reading the state for hydration may take for ever.
TimeoutOfCommands(t) ==
  /\ pc[t] = "waiting" /\ fut[t] = "pending"
  /\ queue' = Orphaned(t)
  /\ Raise(t)
  /\ UNCHANGED <<dsp, stage, seen, hydrated, file, tainted, started, faults, remotes>>

\* result(timeout=cmdTimeout) gives up on the job, which stays in the queue.
Timeout(t) ==
  /\ pc[t] \in {"hydrating", "waiting"} /\ fut[t] = "pending"
  /\ queue' = Orphaned(t)
  /\ Raise(t)
  /\ UNCHANGED <<dsp, stage, seen, hydrated, file, tainted, started, faults, remotes>>

-----------------------------------------------------------------------------
(* The executor's worker.                                                  *)

Running == Head(queue).op

\* The running job ends with result res and leaves the queue.
Finish(res) ==
  LET by == Head(queue).by
  IN  /\ fut' = IF by = None THEN fut ELSE [fut EXCEPT ![by] = res]
      /\ queue' = Tail(queue)
      /\ stage' = "idle"

\* __read_state_from_device as a job of its own; an unreadable DSP gives a
\* disconnected state, not an exception.
ReadStatus ==
  /\ queue # <<>> /\ Running.kind = "state"
  /\ LET by == Head(queue).by
         Result(status) ==
           seen' = IF by = None THEN seen ELSE [seen EXCEPT ![by] = status]
     IN  \/ Result(StatusNow) /\ UNCHANGED faults
         \/ /\ faults < MaxFaults /\ faults' = faults + 1
            /\ Result(Disconnected)
  /\ Finish("ok")
  /\ UNCHANGED <<dsp, pc, todo, stateVars, saveVars, historyVars, started, remotes>>

\* __do_run asks which slot is active.  Not being able to tell means that the
\* slot is selected again.
ReadSlot(from, here, elsewhere) ==
  /\ queue # <<>> /\ stage = from /\ Running.slot # NoSlot
  /\ \/ /\ stage' = IF dsp.preset = Running.slot THEN here ELSE elsewhere
        /\ UNCHANGED faults
     \/ /\ faults < MaxFaults /\ faults' = faults + 1
        /\ stage' = elsewhere
  /\ UNCHANGED <<dsp, queue, threadVars, stateVars, saveVars, historyVars, started, remotes>>

\* A slot to be selected is selected by the first line of the command file or,
\* with slotChangeDelay, by a __do_run of its own that asks again.
FindSlot == ReadSlot("idle", "run", IF SlotChangeDelay THEN "change" ELSE "selectRun")
FindSlotAgain == ReadSlot("change", "skip", "select")

\* The command file of that other __do_run: it selects the slot or is empty.
ChangeSlot ==
  /\ stage \in {"select", "skip"}
  /\ dsp' = IF stage = "select" THEN [dsp EXCEPT !.preset = Running.slot] ELSE dsp
  /\ stage' = "run"
  /\ UNCHANGED <<queue, threadVars, stateVars, saveVars, historyVars, started, faults, remotes>>

\* The running job's command file is being applied.
CanRun ==
  /\ queue # <<>> /\ Running.kind # "state"
  /\ stage \in {"run", "selectRun"} \/ (stage = "idle" /\ Running.slot = NoSlot)

\* The slot the commands land on: the one the file selects, if it does.
Target == IF stage = "selectRun" THEN Running.slot ELSE dsp.preset

\* The DSP after the commands of op, applied to slot s.
Written(d, op, s) ==
  CASE op.kind \in {"load", "biquads"} ->
         [d EXCEPT !.preset = s, !.filter = [d.filter EXCEPT ![s] = Title(op)]]
    [] op.kind = "clear" ->
         [d EXCEPT !.preset = s, !.filter = [d.filter EXCEPT ![s] = Empty],
                   !.trim = [d.trim EXCEPT ![s] = Unity]]
    [] op.kind = "trim" ->
         [d EXCEPT !.preset = s, !.trim = [d.trim EXCEPT ![s] = op.arg]]
    [] op.kind = "volume" -> [d EXCEPT !.mv = op.arg]
    [] op.kind \in {"mute", "unmute"} -> [d EXCEPT !.mute = (op.kind = "mute")]
    [] OTHER -> [d EXCEPT !.preset = s]

\* What may be left on the DSP when the command file fails part way: nothing
\* done, the slot selected, or some of the commands applied.
Interrupted(d, op, s) ==
  LET full == Written(d, op, s)
  IN  {d, [d EXCEPT !.preset = full.preset], [full EXCEPT !.trim = d.trim], full}
      \cup (IF op.kind \in FilterKinds
            THEN {[d EXCEPT !.preset = s,
                            !.filter = [d.filter EXCEPT ![s] = Partial]]}
            ELSE {})

\* The slots a job for op.slot confuses by landing on slot s instead.
Stray(op, s) == IF op.slot \in {NoSlot, s} THEN {} ELSE {op.slot, s}

\* __do_run, second half.
Run ==
  /\ CanRun
  /\ dsp' = Written(dsp, Running, Target)
  /\ tainted' = tainted \cup Stray(Running, Target)
  /\ Finish("ok")
  /\ UNCHANGED <<pc, todo, seen, stateVars, saveVars, doubt, started, faults, remotes>>

\* A command file fails: the minidsp process returns an error or times out.
RunFails ==
  /\ faults < MaxFaults /\ faults' = faults + 1
  /\ \/ /\ stage \in {"select", "skip"}
        /\ dsp' \in {dsp, [dsp EXCEPT !.preset = Running.slot]}
        /\ stage = "skip" => dsp' = dsp
        /\ UNCHANGED tainted
     \/ /\ CanRun
        /\ dsp' \in Interrupted(dsp, Running, Target)
        /\ tainted' = tainted \cup Stray(Running, Target)
  /\ Finish("failed")
  /\ UNCHANGED <<pc, todo, seen, stateVars, saveVars, doubt, started, remotes>>

-----------------------------------------------------------------------------
(* The world outside.                                                      *)

\* Somebody uses the remote control.  A master change while the master is
\* being read or written is an overlap; otherwise it is merely unknown yet.
Remote(d) ==
  /\ remotes < MaxRemote /\ remotes' = remotes + 1
  /\ dsp' = d
  /\ LET master == {s \in {NoSlot} : d.mv # dsp.mv \/ d.mute # dsp.mute}
         busy == \/ \E t \in Threads : pc[t] = "hydrating"
                 \/ InFlight(NoSlot)
                 \/ \E i \in DOMAIN queue : queue[i].op.slot = NoSlot
     IN  IF busy
         THEN tainted' = tainted \cup master /\ UNCHANGED doubt
         ELSE doubt' = doubt \cup master /\ UNCHANGED tainted
  /\ UNCHANGED <<queue, stage, threadVars, stateVars, saveVars, started, faults>>

RemotePreset == \E s \in Slots : Remote([dsp EXCEPT !.preset = s])
RemoteVolume == \E v \in Volumes : Remote([dsp EXCEPT !.mv = v])
RemoteMute == \E b \in BOOLEAN : Remote([dsp EXCEPT !.mute = b])

\* The process ends and comes back: memory and queue are gone, the cache file
\* and the DSP stay.  Work it was doing is cut short, and what overlapping saves
\* kept out of the file is lost.
Restart ==
  /\ faults < MaxFaults /\ faults' = faults + 1
  /\ hydrated' = FALSE /\ cur' = Fresh(Disconnected)
  /\ queue' = <<>> /\ stage' = "idle"
  /\ pc' = [t \in Threads |-> "idle"]
  /\ todo' = [t \in Threads |-> <<>>]
  /\ fut' = [t \in Threads |-> "none"]
  /\ buf' = [t \in Threads |-> None] /\ crossed' = {}
  /\ tainted' = tainted \cup Unsaved \cup UNION {SlotsOf(todo[t]) : t \in Threads}
  /\ seen' = [t \in Threads |-> Disconnected]
  /\ UNCHANGED <<dsp, file, doubt, started, remotes>>

-----------------------------------------------------------------------------
ThreadStep(t) ==
  \/ StartHydrate(t) \/ Hydrate(t) \/ Submit(t) \/ Reject(t)
  \/ HandleMessage(t) \/ Complete(t) \/ Fail(t) \/ Timeout(t)
  \/ Dump(t) \/ Replace(t)

Next ==
  \/ \E t \in Threads : Request(t) \/ Notify(t) \/ ThreadStep(t)
  \/ ReadStatus \/ FindSlot \/ FindSlotAgain \/ ChangeSlot \/ Run \/ RunFails
  \/ RemotePreset \/ RemoteVolume \/ RemoteMute
  \/ Restart

Spec == Init /\ [][Next]_vars

\* A request thread runs until it blocks, and the timeout of its future is
\* a timer: neither needs the executor to make progress.
Fairness == \A t \in Threads : WF_vars(ThreadStep(t))

FairSpec == Spec /\ Fairness

-----------------------------------------------------------------------------
(* Properties.                                                             *)

\* A title shown for a slot is the filter the DSP holds in that slot: when no
\* request for the slot is under way, the slot shows ERROR or what is really
\* loaded, even if jobs abandoned by a timeout still sit in the queue - unless
\* two requests for it overlapped, the commands of one landed elsewhere
\* because somebody switched slots between the two processes of __do_run, the
\* server was killed half way, or the state was built again from a file that
\* overlapping saves had spoilt.
TitleMeansLoaded ==
  \A s \in Slots \ tainted :
    hydrated /\ ~InFlight(s) /\ cur.last[s] # ERROR => dsp.filter[s] = cur.last[s]

\* The gains and mutes shown for a slot are those of the DSP, under the same
\* conditions, unless the last change to them failed; the next change or
\* clear that succeeds puts that right, and no abandoned job undoes it.
TrimsMatch ==
  \A s \in Slots \ (tainted \cup doubt) :
    hydrated /\ ~InFlight(s) => dsp.trim[s] = cur.trim[s]

\* The master volume and mute shown are those of the DSP as soon as one read
\* of the state has succeeded, unless calls on the master overlapped.
MasterMatches ==
  hydrated /\ ~InFlight(NoSlot) /\ NoSlot \notin tainted \cup doubt
    => cur.mv = dsp.mv /\ cur.mute = dsp.mute

\* Whatever path an operation takes out of _hydrate_cache_broadcast, the slots
\* in the cache file are those in memory as soon as nobody is saving: a restart
\* loses nothing shown.  Two threads that save at the same time can leave an
\* older state in the file, or nothing readable; the next save that is made alone
\* puts that right.
SavedIsShown ==
  hydrated /\ file # None /\ crossed = {} /\ (\A t \in Threads : ~Saving(t))
    => file = Saved(cur)

\* Every request ends, even if the executor never gets anything done.
RequestsFinish == \A t \in Threads : pc[t] # "idle" ~> pc[t] = "idle"

\* "In order for the ezbeq ui to update when the device status is updated
\* outside of ezbeq (e.g. using minidsp remote control)": once a message that
\* reports the mute of the DSP has been handled, that mute is shown.
MessageIsShown ==
  [][\A t \in Threads :
       HandleMessage(t) /\ Head(todo[t]).arg.mute = dsp.mute => cur'.mute = dsp.mute]_vars
=============================================================================
