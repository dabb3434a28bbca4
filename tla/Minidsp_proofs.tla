--------------------------- MODULE Minidsp_proofs ---------------------------
(***************************************************************************)
(* Theorems about Minidsp, for any number of threads, slots, entries,      *)
(* trims and volumes and for any set of requests.  The first part is about *)
(* the picture of the device; the second follows a job from its caller     *)
(* through the queue to the DSP and back, so that what a slot is shown to  *)
(* hold, in memory and in the file, is what the DSP holds in it;           *)
(* the third is about the master volume and mute, which belong to no slot, *)
(* are changed by the remote control too, and unlike filters can be read.  *)
(***************************************************************************)
EXTENDS Minidsp, SequenceTheorems, FiniteSetTheorems, TLAPS

Kinds == {"load", "clear", "biquads", "activate", "trim", "volume",
          "mute", "unmute", "state", "ws"}

\* What slot and argument an operation of each kind has.
LEMMA OpShape ==
  ASSUME NEW op \in Op
  PROVE  /\ op.kind \in Kinds
         /\ op.kind \in {"load", "clear", "biquads", "activate", "trim"} <=> op.slot \in Slots
         /\ op.slot \notin Slots => op.slot = NoSlot
         /\ op.kind = "load" => op.arg \in Entries
         /\ op.kind = "trim" => op.arg \in Trims
         /\ op.kind = "volume" => op.arg \in Volumes
         /\ op.kind = "ws" => op.arg \in Reading
BY MinidspAssumption DEF Op, Kinds

LEMMA StatusShape ==
  ASSUME NEW status \in Status
  PROVE  /\ status.preset \in Slots \cup {NoSlot}
         /\ status.mv \in Volumes
         /\ status.mute \in BOOLEAN
         /\ status.connected \in BOOLEAN
<1>1. CASE status \in Reading
  BY <1>1 DEF Reading
<1>2. CASE status = Disconnected
  BY <1>2, MinidspAssumption DEF Disconnected
<1>3. QED
  BY <1>1, <1>2 DEF Status

LEMMA TitleType ==
  ASSUME NEW op \in Op PROVE Title(op) \in Titles
BY OpShape DEF Title, Titles

LEMMA ActivateType ==
  ASSUME NEW st \in StateType, NEW s \in Slots
  PROVE  activate(st, s) \in StateType
BY DEF activate, StateType

\* A state stays a state under every operation.
LEMMA AppliedType ==
  ASSUME NEW st \in StateType, NEW op \in Op, NEW status \in Status
  PROVE  Applied(st, op, status) \in StateType
<1> USE OpShape
<1>1. ASSUME op.slot \in Slots PROVE load(st, op) \in StateType
  <2>1. [st EXCEPT !.last = [st.last EXCEPT ![op.slot] = Title(op)]] \in StateType
    BY TitleType DEF StateType
  <2>2. QED
    BY <1>1, <2>1, ActivateType DEF load
<1>2. CASE op.kind \in {"load", "biquads"}
  BY <1>1, <1>2 DEF Applied
<1>3. CASE op.kind = "clear"
  <2>1. load(st, op) \in StateType
    BY <1>1, <1>3
  <2>2. [st.trim EXCEPT ![op.slot] = Unity] \in [Slots -> Trims]
    BY MinidspAssumption DEF StateType
  <2>3. clear(st, op) \in StateType
    BY <2>1, <2>2 DEF clear, StateType
  <2>4. QED
    BY <1>3, <2>3 DEF Applied
<1>4. CASE op.kind = "activate"
  BY <1>4, ActivateType DEF Applied
<1>5. CASE op.kind = "trim"
  <2>1. [st EXCEPT !.trim = [st.trim EXCEPT ![op.slot] = op.arg]] \in StateType
    BY <1>5 DEF StateType
  <2>2. gain(st, op) \in StateType
    BY <1>5, <2>1, ActivateType DEF gain
  <2>3. QED
    BY <1>5, <2>2 DEF Applied
<1>6. CASE op.kind = "volume"
  BY <1>6 DEF Applied, StateType
<1>7. CASE op.kind \in {"mute", "unmute"}
  BY <1>7 DEF Applied, StateType
<1>8. CASE op.kind = "state"
  BY <1>8, StatusShape DEF Applied, update_master_state, StateType
<1>9. CASE op.kind = "ws"
  <2>1. op.arg.mv \in Volumes /\ op.arg.preset \in Slots
    BY <1>9 DEF Reading
  <2>2. [st EXCEPT !.mv = op.arg.mv] \in StateType
    BY <2>1 DEF StateType
  <2>3. on_ws_message(st, op.arg) \in StateType
    BY <2>1, <2>2, ActivateType DEF on_ws_message
  <2>4. QED
    BY <1>9, <2>3 DEF Applied
<1>10. QED
  BY <1>2, <1>3, <1>4, <1>5, <1>6, <1>7, <1>8, <1>9 DEF Kinds

LEMMA RaisedType ==
  ASSUME NEW st \in StateType, NEW op \in Op
  PROVE  Raised(st, op) \in StateType
<1>1. CASE op.kind \in FilterKinds
  <2>1. [st EXCEPT !.last = [st.last EXCEPT ![op.slot] = ERROR]] \in StateType
    BY DEF StateType
  <2>2. op.slot \in Slots
    BY <1>1, OpShape DEF FilterKinds
  <2>3. QED
    BY <1>1, <2>1, <2>2, ActivateType DEF Raised, error
<1>2. CASE op.kind \notin FilterKinds
  BY <1>2 DEF Raised
<1>3. QED
  BY <1>1, <1>2

LEMMA SavedType == ASSUME NEW st \in StateType PROVE Saved(st) \in FileType
BY DEF Saved, StateType, FileType

LEMMA FreshType == ASSUME NEW status \in Status PROVE Fresh(status) \in StateType
BY StatusShape, MinidspAssumption DEF Fresh, StateType, Titles

LEMMA MergedType ==
  ASSUME NEW st \in StateType, NEW f \in FileType \cup {None}
  PROVE  Merged(st, f) \in StateType
BY DEF Merged, StateType, FileType

\* Whatever is written to whichever slot, the DSP stays a DSP.
LEMMA WrittenType ==
  ASSUME NEW d \in DspType, NEW op \in Op, NEW s \in Slots
  PROVE  Written(d, op, s) \in DspType
<1> USE OpShape
<1>1. CASE op.kind \in {"load", "biquads"}
  <2>1. [d.filter EXCEPT ![s] = Title(op)] \in [Slots -> Filters]
    BY TitleType DEF DspType, Filters
  <2>2. QED
    BY <1>1, <2>1 DEF Written, DspType
<1>2. CASE op.kind = "clear"
  <2>1. [d.filter EXCEPT ![s] = Empty] \in [Slots -> Filters]
    BY DEF DspType, Filters, Titles
  <2>2. [d.trim EXCEPT ![s] = Unity] \in [Slots -> Trims]
    BY MinidspAssumption DEF DspType
  <2>3. QED
    BY <1>2, <2>1, <2>2 DEF Written, DspType
<1>3. CASE op.kind = "trim"
  BY <1>3 DEF Written, DspType
<1>4. CASE op.kind = "volume"
  BY <1>4 DEF Written, DspType
<1>5. CASE op.kind \in {"mute", "unmute"}
  BY <1>5 DEF Written, DspType
<1>6. CASE op.kind \in {"activate", "state", "ws"}
  BY <1>6 DEF Written, DspType
<1>7. QED
  BY <1>1, <1>2, <1>3, <1>4, <1>5, <1>6 DEF Kinds

LEMMA InterruptedType ==
  ASSUME NEW d \in DspType, NEW op \in Op, NEW s \in Slots
  PROVE  Interrupted(d, op, s) \subseteq DspType
<1>1. Written(d, op, s) \in DspType
  BY WrittenType
<1>2. [d EXCEPT !.preset = Written(d, op, s).preset] \in DspType
  BY <1>1 DEF DspType
<1>3. [Written(d, op, s) EXCEPT !.trim = d.trim] \in DspType
  BY <1>1 DEF DspType
<1>4. [d EXCEPT !.preset = s, !.filter = [d.filter EXCEPT ![s] = Partial]] \in DspType
  <2>1. [d.filter EXCEPT ![s] = Partial] \in [Slots -> Filters]
    BY DEF DspType, Filters
  <2>2. QED
    BY <2>1 DEF DspType
<1>5. QED
  BY <1>1, <1>2, <1>3, <1>4 DEF Interrupted

-----------------------------------------------------------------------------
(* The type invariant.                                                     *)

\* The invariant, one part for each group of variables.  A busy thread has
\* operations left, and a worker past its first step a job for a slot.
ThreadsOK ==
  /\ pc \in [Threads -> {"idle", "start", "hydrating", "waiting", "dump", "replace"}]
  /\ todo \in [Threads -> Seq(Op)]
  /\ fut \in [Threads -> {"none", "pending", "ok", "failed"}]
  /\ seen \in [Threads -> Status]
  /\ \A t \in Threads : pc[t] # "idle" => todo[t] # <<>>

WorkerOK ==
  /\ dsp \in DspType
  /\ queue \in Seq(Job)
  /\ stage \in {"idle", "change", "select", "skip", "selectRun", "run"}
  /\ stage # "idle" => queue # <<>> /\ Running.slot \in Slots

PictureOK ==
  /\ hydrated \in BOOLEAN /\ cur \in StateType /\ file \in FileType \cup {None}
  /\ buf \in [Threads -> FileType \cup {None}]
  /\ crossed \subseteq Threads \cup {"file"}

HistoryOK ==
  /\ tainted \subseteq Slots \cup {NoSlot}
  /\ doubt \subseteq Slots \cup {NoSlot}
  /\ started \in Nat /\ faults \in Nat /\ remotes \in Nat

TypeInv == ThreadsOK /\ WorkerOK /\ PictureOK /\ HistoryOK

LEMMA TypeInvType == TypeInv => TypeOK
BY DEF TypeInv, ThreadsOK, WorkerOK, PictureOK, HistoryOK, TypeOK

LEMMA InitTypeInv == Init => TypeInv
<1> SUFFICES ASSUME Init PROVE TypeInv
  OBVIOUS
<1>1. Disconnected \in Status
  BY DEF Status
<1>2. ThreadsOK
  BY <1>1 DEF Init, ThreadsOK
<1>3. WorkerOK
  <2>1. dsp \in DspType
    BY MinidspAssumption DEF Init, DspType, Filters, Titles
  <2>2. queue \in Seq(Job) /\ stage = "idle"
    BY DEF Init
  <2>3. QED
    BY <2>1, <2>2 DEF WorkerOK
<1>4. PictureOK
  BY <1>1, FreshType DEF Init, PictureOK
<1>5. HistoryOK
  BY DEF Init, HistoryOK
<1>6. QED
  BY <1>2, <1>3, <1>4, <1>5 DEF TypeInv

\* The first operation of a busy thread, and of what it has left to do.
LEMMA TodoType ==
  ASSUME TypeInv, NEW t \in Threads, pc[t] # "idle"
  PROVE  /\ todo[t] \in Seq(Op) /\ todo[t] # <<>>
         /\ Head(todo[t]) \in Op
         /\ Tail(todo[t]) \in Seq(Op)
         /\ Len(todo[t]) > 1 => Tail(todo[t]) # <<>>
<1>1. todo[t] \in Seq(Op) /\ todo[t] # <<>>
  BY DEF TypeInv, ThreadsOK
<1>2. /\ Head(todo[t]) \in Op /\ Tail(todo[t]) \in Seq(Op)
      /\ Len(Tail(todo[t])) = Len(todo[t]) - 1
  BY <1>1, HeadTailProperties
<1>3. Len(todo[t]) > 1 => Tail(todo[t]) # <<>>
  BY <1>1, <1>2
<1>4. QED
  BY <1>1, <1>2, <1>3

LEMMA QueueType ==
  ASSUME TypeInv, queue # <<>>
  PROVE  /\ Head(queue) \in Job
         /\ Running \in Op
         /\ Tail(queue) \in Seq(Job)
         /\ Target \in Slots
<1>1. queue \in Seq(Job)
  BY DEF TypeInv, WorkerOK
<1>2. Head(queue) \in Job /\ Tail(queue) \in Seq(Job)
  BY <1>1, HeadTailProperties
<1>3. Running \in Op
  BY <1>2 DEF Running, Job
<1>4. Target \in Slots
  BY DEF TypeInv, WorkerOK, Target, DspType
<1>5. QED
  BY <1>2, <1>3, <1>4

\* A job that joins the queue does not change which one runs.
LEMMA AppendJob ==
  ASSUME queue \in Seq(Job), NEW job \in Job
  PROVE  /\ Append(queue, job) \in Seq(Job)
         /\ Append(queue, job) # <<>>
         /\ queue # <<>> => Head(Append(queue, job)) = Head(queue)
BY AppendProperties

\* Nor does giving up on a job.
LEMMA OrphanJob ==
  ASSUME queue \in Seq(Job), NEW t \in Threads
  PROVE  /\ Orphaned(t) \in Seq(Job)
         /\ Len(Orphaned(t)) = Len(queue)
         /\ \A i \in 1..Len(queue) : Orphaned(t)[i].op = queue[i].op
<1>1. \A i \in 1..Len(queue) :
        LET j == IF queue[i].by = t THEN [queue[i] EXCEPT !.by = None] ELSE queue[i]
        IN  j \in Job /\ j.op = queue[i].op
  <2> SUFFICES ASSUME NEW i \in 1..Len(queue)
               PROVE  /\ queue[i] \in Job
                      /\ [queue[i] EXCEPT !.by = None] \in Job
                      /\ [queue[i] EXCEPT !.by = None].op = queue[i].op
    OBVIOUS
  <2>1. queue[i] \in Job
    OBVIOUS
  <2>2. QED
    BY <2>1 DEF Job
<1>2. DOMAIN queue = 1..Len(queue)
  OBVIOUS
<1>3. Orphaned(t) = [i \in 1..Len(queue) |->
        IF queue[i].by = t THEN [queue[i] EXCEPT !.by = None] ELSE queue[i]]
  BY <1>2 DEF Orphaned
<1>4. Orphaned(t) \in [1..Len(queue) -> Job]
  BY <1>1, <1>3
<1>5. Len(queue) \in Nat
  OBVIOUS
<1>6. QED
  BY <1>1, <1>3, <1>4, <1>5

LEMMA StateOpType == StateOp \in Op
BY DEF StateOp, Op

-----------------------------------------------------------------------------
(* Every step keeps the type invariant.                                    *)

LEMMA ArriveType ==
  ASSUME TypeInv, NEW t \in Threads, NEW ops \in Seq(Op), ops # <<>>, Arrive(t, ops)
  PROVE  TypeInv'
<1>1. ThreadsOK'
  BY DEF TypeInv, ThreadsOK, Arrive
<1>2. SlotsOf(ops) \subseteq Slots \cup {NoSlot}
  BY OpShape DEF SlotsOf
<1>3. HistoryOK'
  BY <1>2 DEF TypeInv, HistoryOK, Arrive
<1>4. WorkerOK' /\ PictureOK'
  BY DEF TypeInv, WorkerOK, PictureOK, Running, stateVars, saveVars, Arrive
<1>5. QED
  BY <1>1, <1>3, <1>4 DEF TypeInv

LEMMA AdvanceType ==
  ASSUME TypeInv, NEW t \in Threads, pc[t] # "idle", Advance(t) \/ Abort(t),
         fut' \in [Threads -> {"none", "pending", "ok", "failed"}],
         seen' \in [Threads -> Status]
  PROVE  ThreadsOK'
<1>1. /\ Tail(todo[t]) \in Seq(Op)
      /\ Len(todo[t]) > 1 => Tail(todo[t]) # <<>>
  BY TodoType
<1>2. CASE Advance(t)
  BY <1>1, <1>2 DEF TypeInv, ThreadsOK, Advance
<1>3. CASE Abort(t)
  BY <1>3 DEF TypeInv, ThreadsOK, Abort
<1>4. QED
  BY <1>2, <1>3

\* A thread that begins to save keeps at least the operation it has just done.
LEMMA StartSaveType ==
  ASSUME TypeInv, NEW t \in Threads, NEW ops \in Seq(Op), ops # <<>>, StartSave(t, ops),
         fut' \in [Threads -> {"none", "pending", "ok", "failed"}],
         seen' \in [Threads -> Status]
  PROVE  /\ ThreadsOK'
         /\ buf' \in [Threads -> FileType \cup {None}]
         /\ crossed' \subseteq Threads \cup {"file"}
<1>1. ThreadsOK'
  BY DEF TypeInv, ThreadsOK, StartSave
<1>2. QED
  BY <1>1 DEF TypeInv, PictureOK, StartSave

\* Steps that leave the worker alone.
LEMMA WorkerIdle ==
  ASSUME TypeInv, UNCHANGED <<dsp, queue, stage>> PROVE WorkerOK'
BY DEF TypeInv, WorkerOK, Running

LEMMA DoubtType ==
  ASSUME TypeInv, NEW op \in Op, NEW ok, NEW status
  PROVE  DoubtAfter(op, ok, status) \subseteq Slots \cup {NoSlot}
BY OpShape DEF TypeInv, HistoryOK, DoubtAfter

LEMMA ThreadStepType ==
  ASSUME TypeInv, NEW t \in Threads, ThreadStep(t) PROVE TypeInv'
<1> USE DEF TypeInv
<1> DEFINE op == Head(todo[t])
<1>0. pc[t] # "idle" => /\ op \in Op /\ <<op>> \in Seq(Op) /\ <<op>> # <<>>
                        /\ todo[t] \in Seq(Op) /\ todo[t] # <<>>
  BY TodoType
<1>1. CASE StartHydrate(t)
  <2>1. [by |-> t, op |-> StateOp] \in Job
    BY StateOpType DEF Job
  <2>2. WorkerOK'
    BY <1>1, <2>1, AppendJob DEF StartHydrate, WorkerOK, Running
  <2>3. ThreadsOK'
    BY <1>1 DEF StartHydrate, ThreadsOK
  <2>4. PictureOK' /\ HistoryOK'
    BY <1>1 DEF StartHydrate, PictureOK, HistoryOK, stateVars, saveVars, historyVars
  <2>5. QED
    BY <2>2, <2>3, <2>4
<1>2. CASE Hydrate(t)
  <2>1. seen[t] \in Status /\ seen' \in [Threads -> Status]
    BY <1>2 DEF ThreadsOK, Hydrate, Used, Status
  <2>2. Merged(Fresh(seen[t]), file) \in StateType
    BY <2>1, FreshType, MergedType DEF PictureOK
  <2>3. PictureOK'
    BY <1>2, <2>2 DEF Hydrate, PictureOK
  <2>4. fut' \in [Threads -> {"none", "pending", "ok", "failed"}]
    BY <1>2 DEF Hydrate, ThreadsOK
  <2>5. ThreadsOK'
    <3>1. CASE Advance(t)
      BY <1>2, <2>1, <2>4, <3>1, AdvanceType DEF Hydrate
    <3>2. CASE pc' = [pc EXCEPT ![t] = "start"] /\ UNCHANGED todo
      BY <1>2, <2>1, <2>4, <3>2 DEF Hydrate, ThreadsOK
    <3>3. QED
      BY <1>2, <3>1, <3>2 DEF Hydrate
  <2>6. WorkerOK'
    BY <1>2, WorkerIdle DEF Hydrate
  <2>7. HistoryOK'
    BY <1>2 DEF Hydrate, Unsaved, HistoryOK
  <2>8. QED
    BY <2>3, <2>5, <2>6, <2>7
<1>3. CASE Submit(t)
  <2>1. op \in Op /\ pc[t] # "idle"
    BY <1>3, <1>0 DEF Submit
  <2>2. [by |-> t, op |-> op] \in Job
    BY <2>1 DEF Job
  <2>3. queue' = Append(queue, [by |-> t, op |-> op])
    BY <1>3 DEF Submit
  <2>4. WorkerOK'
    BY <1>3, <2>2, <2>3, AppendJob DEF Submit, WorkerOK, Running
  <2>5. ThreadsOK'
    BY <1>3 DEF Submit, ThreadsOK
  <2>6. PictureOK' /\ HistoryOK'
    BY <1>3 DEF Submit, PictureOK, HistoryOK, stateVars, saveVars, historyVars
  <2>7. QED
    BY <2>4, <2>5, <2>6
<1>4. CASE Reject(t)
  <2>1. ThreadsOK' /\ PictureOK'
    <3>1. pc[t] # "idle" /\ StartSave(t, <<op>>)
      BY <1>4 DEF Reject
    <3>2. UNCHANGED <<fut, seen, hydrated, cur, file>>
      BY <1>4 DEF Reject, stateVars
    <3>3. QED
      BY <1>0, <3>1, <3>2, StartSaveType DEF ThreadsOK, PictureOK
  <2>2. WorkerOK' /\ HistoryOK'
    BY <1>4, WorkerIdle DEF Reject, HistoryOK, historyVars
  <2>3. QED
    BY <2>1, <2>2
<1>5. CASE HandleMessage(t)
  <2>1. op \in Op /\ seen[t] \in Status
    BY <1>5, <1>0 DEF HandleMessage, ThreadsOK
  <2>2. cur' \in StateType
    BY <1>5, <2>1, AppliedType DEF HandleMessage, PictureOK
  <2>3. ThreadsOK' /\ PictureOK'
    <3>1. pc[t] # "idle" /\ StartSave(t, todo[t])
      BY <1>5 DEF HandleMessage
    <3>2. UNCHANGED <<fut, seen, hydrated, file>>
      BY <1>5 DEF HandleMessage
    <3>3. QED
      BY <1>0, <2>2, <3>1, <3>2, StartSaveType DEF ThreadsOK, PictureOK
  <2>4. WorkerOK' /\ HistoryOK'
    BY <1>5, WorkerIdle DEF HandleMessage, HistoryOK, historyVars
  <2>5. QED
    BY <2>3, <2>4
<1>6. CASE Complete(t)
  <2>1. op \in Op /\ seen[t] \in Status /\ seen' \in [Threads -> Status]
    BY <1>6, <1>0 DEF Complete, Used, ThreadsOK, Status
  <2>2. cur' \in StateType
    BY <1>6, <2>1, AppliedType DEF Complete, PictureOK
  <2>3. fut' \in [Threads -> {"none", "pending", "ok", "failed"}]
    BY <1>6 DEF Complete, ThreadsOK
  <2>4. pc[t] # "idle" /\ UNCHANGED <<hydrated, file>>
    BY <1>6 DEF Complete
  <2>5. ThreadsOK' /\ PictureOK'
    <3>1. CASE Advance(t) /\ UNCHANGED saveVars
      BY <2>1, <2>2, <2>3, <2>4, <3>1, AdvanceType DEF PictureOK, saveVars
    <3>2. CASE StartSave(t, todo[t])
      BY <1>0, <2>1, <2>2, <2>3, <2>4, <3>2, StartSaveType DEF PictureOK
    <3>3. QED
      BY <1>6, <3>1, <3>2 DEF Complete
  <2>6. WorkerOK'
    BY <1>6, WorkerIdle DEF Complete
  <2>7. HistoryOK'
    BY <1>6, <2>1, DoubtType DEF Complete, HistoryOK
  <2>8. QED
    BY <2>5, <2>6, <2>7
<1>7. ASSUME Raise(t), pc[t] # "idle", UNCHANGED <<seen, hydrated, file>>
      PROVE  ThreadsOK' /\ PictureOK' /\ doubt' \subseteq Slots \cup {NoSlot}
  <2>1. cur' \in StateType
    BY <1>0, <1>7, RaisedType DEF Raise, PictureOK
  <2>2. fut' \in [Threads -> {"none", "pending", "ok", "failed"}]
    BY <1>7 DEF Raise, ThreadsOK
  <2>3. seen' \in [Threads -> Status]
    BY <1>7 DEF ThreadsOK
  <2>4. ThreadsOK' /\ PictureOK'
    <3>1. CASE Abort(t) /\ UNCHANGED saveVars
      BY <1>7, <2>1, <2>2, <2>3, <3>1, AdvanceType DEF PictureOK, saveVars
    <3>2. CASE StartSave(t, <<op>>)
      BY <1>0, <1>7, <2>1, <2>2, <2>3, <3>2, StartSaveType DEF PictureOK
    <3>3. QED
      BY <1>7, <3>1, <3>2 DEF Raise
  <2>5. doubt' \subseteq Slots \cup {NoSlot}
    BY <1>0, <1>7, DoubtType DEF Raise, HistoryOK
  <2>6. QED
    BY <2>4, <2>5
<1>8. CASE Fail(t)
  <2>1. ThreadsOK' /\ PictureOK' /\ doubt' \subseteq Slots \cup {NoSlot}
    BY <1>7, <1>8 DEF Fail
  <2>2. WorkerOK'
    BY <1>8, WorkerIdle DEF Fail
  <2>3. HistoryOK'
    BY <1>8, <2>1 DEF Fail, HistoryOK
  <2>4. QED
    BY <2>1, <2>2, <2>3
<1>9. CASE Timeout(t)
  <2>1. ThreadsOK' /\ PictureOK' /\ doubt' \subseteq Slots \cup {NoSlot}
    BY <1>7, <1>9 DEF Timeout
  <2>2. queue' = Orphaned(t) /\ UNCHANGED <<dsp, stage>>
    BY <1>9 DEF Timeout
  <2>3. queue \in Seq(Job)
    BY DEF WorkerOK
  <2>4. queue' \in Seq(Job) /\ Len(queue') = Len(queue)
    BY <2>2, <2>3, OrphanJob
  <2>5. queue # <<>> => queue' # <<>> /\ queue'[1].op = queue[1].op
    BY <2>2, <2>3, <2>4, OrphanJob
  <2>6. queue # <<>> => queue' # <<>> /\ Head(queue').op = Head(queue).op
    BY <2>3, <2>4, <2>5
  <2>7. WorkerOK'
    BY <2>2, <2>4, <2>6 DEF WorkerOK, Running
  <2>8. HistoryOK'
    BY <1>9, <2>1 DEF Timeout, HistoryOK
  <2>9. QED
    BY <2>1, <2>7, <2>8
<1>10. CASE Dump(t)
  <2>1. ThreadsOK'
    BY <1>10 DEF Dump, ThreadsOK
  <2>2. PictureOK'
    BY <1>10, SavedType DEF Dump, PictureOK, stateVars
  <2>3. WorkerOK' /\ HistoryOK'
    BY <1>10, WorkerIdle DEF Dump, HistoryOK, historyVars
  <2>4. QED
    BY <2>1, <2>2, <2>3
<1>11. CASE Replace(t)
  <2>1. ThreadsOK'
    BY <1>11, AdvanceType DEF Replace, ThreadsOK
  <2>2. file' \in FileType \cup {None} /\ crossed' \subseteq Threads \cup {"file"}
    BY <1>11 DEF Replace, PictureOK
  <2>3. PictureOK'
    BY <1>11, <2>2 DEF Replace, PictureOK
  <2>4. WorkerOK' /\ HistoryOK'
    BY <1>11, WorkerIdle DEF Replace, HistoryOK, historyVars
  <2>5. QED
    BY <2>1, <2>3, <2>4
<1>12. QED
  BY <1>1, <1>2, <1>3, <1>4, <1>5, <1>6, <1>8, <1>9, <1>10, <1>11 DEF ThreadStep

\* A job that ends leaves a worker that is idle and threads that are not.
LEMMA FinishType ==
  ASSUME TypeInv, queue # <<>>, NEW res \in {"ok", "failed"}, Finish(res),
         dsp' \in DspType, UNCHANGED <<pc, todo>>, seen' \in [Threads -> Status]
  PROVE  ThreadsOK' /\ WorkerOK'
<1>1. queue' \in Seq(Job) /\ stage' = "idle"
  BY QueueType DEF Finish
<1>2. WorkerOK'
  BY <1>1 DEF WorkerOK
<1>3. fut' \in [Threads -> {"none", "pending", "ok", "failed"}]
  BY DEF Finish, TypeInv, ThreadsOK
<1>4. ThreadsOK'
  BY <1>3 DEF TypeInv, ThreadsOK
<1>5. QED
  BY <1>2, <1>4

LEMMA StatusNowType ==
  ASSUME TypeInv PROVE StatusNow \in Reading
BY DEF TypeInv, WorkerOK, DspType, StatusNow, Reading

LEMMA ReadSlotType ==
  ASSUME TypeInv, NEW from, NEW here, NEW elsewhere,
         {here, elsewhere} \subseteq {"change", "select", "skip", "selectRun", "run"},
         ReadSlot(from, here, elsewhere)
  PROVE  TypeInv'
<1>1. queue # <<>> /\ Running.slot \in Slots
  BY QueueType, OpShape DEF ReadSlot
<1>2. WorkerOK'
  BY <1>1 DEF ReadSlot, TypeInv, WorkerOK, Running
<1>3. ThreadsOK' /\ PictureOK' /\ HistoryOK'
  BY DEF ReadSlot, TypeInv, ThreadsOK, PictureOK, HistoryOK, threadVars,
         stateVars, saveVars, historyVars
<1>4. QED
  BY <1>2, <1>3 DEF TypeInv

LEMMA WorkerStepType ==
  ASSUME TypeInv,
         ReadStatus \/ FindSlot \/ FindSlotAgain \/ ChangeSlot \/ Run \/ RunFails
  PROVE  TypeInv'
<1> USE DEF TypeInv
<1>0. StatusNow \in Status /\ Disconnected \in Status
  BY StatusNowType DEF Status
<1>1. CASE ReadStatus
  <2>1. seen' \in [Threads -> Status]
    BY <1>0, <1>1 DEF ReadStatus, ThreadsOK
  <2>2. ThreadsOK' /\ WorkerOK'
    BY <1>1, <2>1, FinishType DEF ReadStatus, WorkerOK
  <2>3. PictureOK' /\ HistoryOK'
    BY <1>1 DEF ReadStatus, PictureOK, HistoryOK, stateVars, saveVars, historyVars
  <2>4. QED
    BY <2>2, <2>3
<1>2. CASE FindSlot
  BY <1>2, ReadSlotType DEF FindSlot
<1>3. CASE FindSlotAgain
  BY <1>3, ReadSlotType DEF FindSlotAgain
<1>4. ASSUME stage \in {"select", "skip"}
      PROVE  queue # <<>> /\ [dsp EXCEPT !.preset = Running.slot] \in DspType
  BY <1>4 DEF WorkerOK, DspType
<1>5. CASE ChangeSlot
  <2>1. dsp' \in DspType
    BY <1>4, <1>5 DEF ChangeSlot, WorkerOK
  <2>2. WorkerOK'
    BY <1>5, <2>1 DEF ChangeSlot, WorkerOK, Running
  <2>3. ThreadsOK' /\ PictureOK' /\ HistoryOK'
    BY <1>5 DEF ChangeSlot, ThreadsOK, PictureOK, HistoryOK, threadVars,
                stateVars, saveVars, historyVars
  <2>4. QED
    BY <2>2, <2>3
<1>6. ASSUME CanRun
      PROVE  /\ queue # <<>> /\ Running \in Op /\ Target \in Slots /\ dsp \in DspType
             /\ Stray(Running, Target) \subseteq Slots \cup {NoSlot}
  <2>1. queue # <<>> /\ Running \in Op /\ Target \in Slots /\ dsp \in DspType
    BY <1>6, QueueType DEF CanRun, WorkerOK
  <2>2. QED
    BY <2>1, OpShape DEF Stray
<1>7. CASE Run
  <2>1. dsp' \in DspType
    BY <1>6, <1>7, WrittenType DEF Run
  <2>2. ThreadsOK' /\ WorkerOK'
    BY <1>6, <1>7, <2>1, FinishType DEF Run, ThreadsOK
  <2>3. PictureOK' /\ HistoryOK'
    BY <1>6, <1>7 DEF Run, PictureOK, HistoryOK, stateVars, saveVars
  <2>4. QED
    BY <2>2, <2>3
<1>8. CASE RunFails
  <2>1. queue # <<>> /\ dsp' \in DspType /\ tainted' \subseteq Slots \cup {NoSlot}
    <3>1. CASE stage \in {"select", "skip"} /\ UNCHANGED tainted
               /\ dsp' \in {dsp, [dsp EXCEPT !.preset = Running.slot]}
      BY <1>4, <3>1 DEF WorkerOK, HistoryOK
    <3>2. CASE CanRun /\ dsp' \in Interrupted(dsp, Running, Target)
               /\ tainted' = tainted \cup Stray(Running, Target)
      BY <1>6, <3>2, InterruptedType DEF HistoryOK
    <3>3. QED
      BY <1>8, <3>1, <3>2 DEF RunFails
  <2>2. ThreadsOK' /\ WorkerOK'
    BY <1>8, <2>1, FinishType DEF RunFails, ThreadsOK
  <2>3. PictureOK' /\ HistoryOK'
    BY <1>8, <2>1 DEF RunFails, PictureOK, HistoryOK, stateVars, saveVars
  <2>4. QED
    BY <2>2, <2>3
<1>9. QED
  BY <1>1, <1>2, <1>3, <1>5, <1>7, <1>8

LEMMA RemoteType ==
  ASSUME TypeInv, NEW d \in DspType, Remote(d) PROVE TypeInv'
<1>1. WorkerOK'
  BY DEF Remote, TypeInv, WorkerOK, Running
<1>2. HistoryOK'
  BY DEF Remote, TypeInv, HistoryOK
<1>3. ThreadsOK' /\ PictureOK'
  BY DEF Remote, TypeInv, ThreadsOK, PictureOK, threadVars, stateVars,
         saveVars
<1>4. QED
  BY <1>1, <1>2, <1>3 DEF TypeInv

LEMMA RestartType ==
  ASSUME TypeInv, Restart PROVE TypeInv'
<1>1. ThreadsOK'
  BY DEF Restart, TypeInv, ThreadsOK, Status
<1>2. WorkerOK'
  <2>1. queue' \in Seq(Job) /\ stage' = "idle" /\ dsp' = dsp
    BY DEF Restart
  <2>2. QED
    BY <2>1 DEF TypeInv, WorkerOK
<1>3. PictureOK'
  <2>1. Fresh(Disconnected) \in StateType
    BY FreshType DEF Status
  <2>2. buf' \in [Threads -> FileType \cup {None}] /\ crossed' = {}
    BY DEF Restart
  <2>3. QED
    BY <2>1, <2>2 DEF Restart, TypeInv, PictureOK
<1>4. HistoryOK'
  <2>1. \A t \in Threads : SlotsOf(todo[t]) \subseteq Slots \cup {NoSlot}
    <3>1. \A t \in Threads : todo[t] \in Seq(Op)
      BY DEF TypeInv, ThreadsOK
    <3>2. QED
      BY <3>1, OpShape DEF SlotsOf
  <2>2. QED
    BY <2>1 DEF Restart, TypeInv, HistoryOK, Unsaved
<1>5. QED
  BY <1>1, <1>2, <1>3, <1>4 DEF TypeInv

LEMMA NextTypeInv == TypeInv /\ [Next]_vars => TypeInv'
<1> SUFFICES ASSUME TypeInv, [Next]_vars PROVE TypeInv'
  OBVIOUS
<1>1. ASSUME NEW t \in Threads, Request(t) PROVE TypeInv'
  BY <1>1, ArriveType, MinidspAssumption DEF Request
<1>2. ASSUME NEW t \in Threads, Notify(t) PROVE TypeInv'
  <2> DEFINE msg == [kind |-> "ws", slot |-> NoSlot, arg |-> StatusNow]
  <2>1. msg \in Op
    BY StatusNowType DEF Op
  <2>2. <<msg>> \in Seq(Op) /\ <<msg>> # <<>>
    BY <2>1
  <2>3. QED
    BY <1>2, <2>2, ArriveType DEF Notify
<1>3. ASSUME NEW t \in Threads, ThreadStep(t) PROVE TypeInv'
  BY <1>3, ThreadStepType
<1>4. CASE ReadStatus \/ FindSlot \/ FindSlotAgain \/ ChangeSlot \/ Run \/ RunFails
  BY <1>4, WorkerStepType
<1>5. CASE RemotePreset \/ RemoteVolume \/ RemoteMute
  <2>1. PICK d \in DspType : Remote(d)
    BY <1>5 DEF RemotePreset, RemoteVolume, RemoteMute, TypeInv, WorkerOK, DspType
  <2>2. QED
    BY <2>1, RemoteType
<1>6. CASE Restart
  BY <1>6, RestartType
<1>7. CASE UNCHANGED vars
  BY <1>7 DEF vars, threadVars, stateVars, saveVars, historyVars, TypeInv, ThreadsOK,
              WorkerOK, PictureOK, HistoryOK, Running
<1>8. QED
  BY <1>1, <1>2, <1>3, <1>4, <1>5, <1>6, <1>7 DEF Next

\* Every variable of the device keeps its type: whatever fails, is abandoned
\* or is cut short, no step leaves a half-built state, job or file behind.
THEOREM TypeCorrect == Spec => []TypeOK
<1>1. QED
  BY InitTypeInv, NextTypeInv, TypeInvType, PTL DEF Spec

-----------------------------------------------------------------------------
(* The cache file.                                                         *)

\* Merging the file into a state gives one that saves as that file.
LEMMA MergedSaves ==
  ASSUME NEW st \in StateType, NEW f \in FileType, f # None
  PROVE  Saved(Merged(st, f)) = f
<1>1. Saved(Merged(st, f)) = [lit |-> f.lit, last |-> f.last, trim |-> f.trim]
  BY DEF Saved, Merged, StateType
<1>2. QED
  BY <1>1 DEF FileType

\* Reading the state changes nothing that is saved.
LEMMA ReadSaves ==
  ASSUME NEW st \in StateType, NEW op, op.kind = "state", NEW status
  PROVE  /\ Saved(Applied(st, op, status)) = Saved(st)
         /\ Raised(st, op) = st
BY DEF Saved, Applied, update_master_state, Raised, FilterKinds, StateType

\* What a save that overlaps no other has written is still right.
SavedInv ==
  /\ SavedIsShown
  /\ \A t \in Threads : pc[t] = "replace" /\ t \notin crossed => buf[t] = Saved(cur)

\* A thread that records an outcome crosses every save under way.
LEMMA StartSaveCrosses ==
  ASSUME TypeInv, NEW t \in Threads, NEW ops, StartSave(t, ops)
  PROVE  /\ Saving(t)'
         /\ ~Saving(t) => \A u \in Threads : pc'[u] = "replace" => u \in crossed'
<1>1. Saving(t)'
  BY DEF StartSave, Saving, TypeInv, ThreadsOK
<1>2. ASSUME ~Saving(t), NEW u \in Threads, pc'[u] = "replace" PROVE u \in crossed'
  <2>1. u # t /\ Saving(u)
    BY <1>2 DEF StartSave, Saving, TypeInv, ThreadsOK
  <2>2. QED
    BY <2>1 DEF StartSave, OthersSaving
<1>3. QED
  BY <1>1, <1>2

LEMMA NextSaved == TypeInv /\ SavedInv /\ [Next]_vars => SavedInv'
<1> SUFFICES ASSUME TypeInv, SavedInv, [Next]_vars PROVE SavedInv'
  OBVIOUS
<1> DEFINE Files == UNCHANGED <<hydrated, file, saveVars>> /\ Saved(cur') = Saved(cur)
<1>0. ASSUME Files, \A u \in Threads : Saving(u) \/ Saving(u)' => pc'[u] = pc[u]
      PROVE  SavedInv'
  BY <1>0 DEF SavedInv, SavedIsShown, Saving, saveVars
<1>1. ASSUME NEW t \in Threads, ThreadStep(t) PROVE SavedInv'
  <2> DEFINE op == Head(todo[t])
  <2>a. pc \in [Threads -> {"idle", "start", "hydrating", "waiting", "dump", "replace"}]
    BY DEF TypeInv, ThreadsOK
  <2>0. ASSUME NEW ops, StartSave(t, ops), ~Saving(t) PROVE SavedInv'
    <3>1. Saving(t)' /\ \A u \in Threads : pc'[u] = "replace" => u \in crossed'
      BY <2>0, StartSaveCrosses
    <3>2. QED
      BY <3>1 DEF SavedInv, SavedIsShown
  <2>b. ASSUME Advance(t) \/ Abort(t), ~Saving(t), Files PROVE SavedInv'
    <3>1. \A u \in Threads : Saving(u) \/ Saving(u)' => pc'[u] = pc[u]
      BY <2>a, <2>b DEF Advance, Abort, Saving
    <3>2. QED
      BY <1>0, <2>b, <3>1
  <2>1. CASE StartHydrate(t) \/ Submit(t)
    <3>1. Files
      BY <2>1 DEF StartHydrate, Submit, stateVars
    <3>2. \A u \in Threads : Saving(u) \/ Saving(u)' => pc'[u] = pc[u]
      BY <2>a, <2>1 DEF StartHydrate, Submit, Saving
    <3>3. QED
      BY <1>0, <3>1, <3>2
  <2>2. CASE Hydrate(t)
    <3>1. Fresh(seen[t]) \in StateType
      BY FreshType DEF TypeInv, ThreadsOK
    <3>2. file # None => Saved(cur') = file
      BY <2>2, <3>1, MergedSaves DEF Hydrate, TypeInv, PictureOK
    <3>3. UNCHANGED file
      BY <2>2 DEF Hydrate
    <3>4. ASSUME NEW u \in Threads, pc'[u] = "replace" PROVE u \in crossed'
      <4>1. Saving(u)
        BY <2>a, <2>2, <3>4 DEF Hydrate, Advance, Saving
      <4>2. QED
        BY <2>2, <4>1 DEF Hydrate
    <3>5. QED
      BY <3>2, <3>3, <3>4 DEF SavedInv, SavedIsShown
  <2>3. CASE Reject(t) \/ HandleMessage(t)
    BY <2>0, <2>3 DEF Reject, HandleMessage, Saving
  <2>4. CASE Complete(t)
    <3>1. CASE op.kind = "state"
      <4>1. Saved(cur') = Saved(cur)
        BY <2>4, <3>1, ReadSaves DEF Complete, TypeInv, PictureOK
      <4>2. QED
        BY <2>b, <2>4, <3>1, <4>1 DEF Complete, Saving
    <3>2. CASE op.kind # "state"
      BY <2>0, <2>4, <3>2 DEF Complete, Saving
    <3>3. QED
      BY <3>1, <3>2
  <2>5. ASSUME Raise(t), ~Saving(t), UNCHANGED <<hydrated, file>> PROVE SavedInv'
    <3>1. CASE pc[t] = "waiting" /\ op.kind # "state"
      BY <2>0, <2>5, <3>1 DEF Raise
    <3>2. CASE ~(pc[t] = "waiting" /\ op.kind # "state")
      <4>1. cur' = cur
        BY <2>5, <3>2, ReadSaves DEF Raise, TypeInv, PictureOK
      <4>2. QED
        BY <2>b, <2>5, <3>2, <4>1 DEF Raise
    <3>3. QED
      BY <3>1, <3>2
  <2>6. CASE Fail(t) \/ Timeout(t)
    BY <2>5, <2>6 DEF Fail, Timeout, Saving
  <2>7. CASE Dump(t)
    <3>1. /\ UNCHANGED <<hydrated, cur, file>>
          /\ \A u \in Threads : u # t => pc'[u] = pc[u] /\ buf'[u] = buf[u]
          /\ pc'[t] = "replace" /\ buf'[t] = Saved(cur)
          /\ crossed \subseteq crossed' \cup {t}
      BY <2>a, <2>7 DEF Dump, stateVars, TypeInv, PictureOK
    <3>2. QED
      BY <3>1 DEF SavedInv, SavedIsShown, Saving
  <2>8. CASE Replace(t)
    <3>1. /\ UNCHANGED <<hydrated, cur>> /\ Saving(t)
          /\ \A u \in Threads : u # t => pc'[u] = pc[u] /\ buf'[u] = buf[u]
          /\ pc'[t] # "replace"
      BY <2>a, <2>8 DEF Replace, Advance, Abort, Saving, TypeInv, PictureOK
    <3>2. CASE t \in crossed
      <4>1. crossed' = (crossed \ {t}) \cup {"file"}
        BY <2>8, <3>2 DEF Replace
      <4>2. QED
        BY <3>1, <4>1 DEF SavedInv, SavedIsShown
    <3>3. CASE t \notin crossed
      <4>1. file' = buf[t] /\ crossed' = crossed \ {"file"}
        BY <2>8, <3>3 DEF Replace
      <4>2. buf[t] = Saved(cur)
        BY <2>8, <3>3 DEF SavedInv, Replace
      <4>3. QED
        BY <3>1, <4>1, <4>2, MinidspAssumption DEF SavedInv, SavedIsShown
    <3>4. QED
      BY <3>2, <3>3
  <2>9. QED
    BY <1>1, <2>1, <2>2, <2>3, <2>4, <2>6, <2>7, <2>8 DEF ThreadStep
<1>2. ASSUME NEW t \in Threads, Request(t) \/ Notify(t) PROVE SavedInv'
  <2>1. Files
    BY <1>2 DEF Request, Notify, Arrive, stateVars
  <2>2. \A u \in Threads : Saving(u) \/ Saving(u)' => pc'[u] = pc[u]
    BY <1>2 DEF Request, Notify, Arrive, Saving, TypeInv, ThreadsOK
  <2>3. QED
    BY <1>0, <2>1, <2>2
<1>3. CASE ReadStatus \/ FindSlot \/ FindSlotAgain \/ ChangeSlot \/ Run \/ RunFails
  BY <1>0, <1>3 DEF ReadStatus, FindSlot, FindSlotAgain, ReadSlot, ChangeSlot, Run, RunFails,
     stateVars, threadVars
<1>4. CASE RemotePreset \/ RemoteVolume \/ RemoteMute
  BY <1>0, <1>4 DEF RemotePreset, RemoteVolume, RemoteMute, Remote, stateVars, threadVars
<1>5. CASE Restart
  BY <1>5 DEF Restart, SavedInv, SavedIsShown
<1>6. CASE UNCHANGED vars
  BY <1>0, <1>6 DEF vars, stateVars, threadVars
<1>7. QED
  BY <1>1, <1>2, <1>3, <1>4, <1>5, <1>6 DEF Next

\* The slots in the cache file are those in memory whenever nobody is saving,
\* and nothing but saves that overlapped is an exception: no path out of
\* _hydrate_cache_broadcast, and no read of the state, forgets to save, and a save
\* made alone never writes what another thread has changed since.
THEOREM FileIsCurrent == Spec => []SavedIsShown
<1>1. Init => SavedInv
  BY DEF Init, SavedInv, SavedIsShown
<1>2. SavedInv => SavedIsShown
  BY DEF SavedInv
<1>3. QED
  BY InitTypeInv, NextTypeInv, <1>1, <1>2, NextSaved, PTL DEF Spec

-----------------------------------------------------------------------------
(* Callers and their jobs.                                                 *)

\* The operation of the job a thread waits for.
Awaited(t) == IF pc[t] = "waiting" THEN Head(todo[t]) ELSE StateOp

\* What a thread does while it waits for no job.
Working == {"idle", "start", "dump", "replace"}

\* A thread has a future while it waits; a pending future has a job in the
\* queue, a job that answers to somebody is the one it waits for, and no two
\* answer to the same thread.
JobsInv ==
  /\ \A t \in Threads : fut[t] = "none" <=> pc[t] \in Working
  /\ \A t \in Threads :
       fut[t] = "pending" => \E i \in 1..Len(queue) : queue[i].by = t
  /\ \A i \in 1..Len(queue) :
       queue[i].by # None =>
         fut[queue[i].by] = "pending" /\ queue[i].op = Awaited(queue[i].by)
  /\ \A i, j \in 1..Len(queue) :
       queue[i].by = queue[j].by /\ queue[i].by # None => i = j

\* All but thread t stay as they are.
OnlyThread(t) ==
  \A u \in Threads \ {t} : pc'[u] = pc[u] /\ todo'[u] = todo[u] /\ fut'[u] = fut[u]

\* The jobs in the queue, by their positions.
LEMMA JobType ==
  ASSUME TypeInv
  PROVE  /\ queue \in Seq(Job) /\ Len(queue) \in Nat
         /\ \A i \in 1..Len(queue) :
              /\ queue[i] \in Job /\ queue[i].op \in Op
              /\ queue[i].by \in Threads \cup {None}
         /\ None \notin Threads
<1>1. queue \in Seq(Job) /\ None \notin Threads
  BY MinidspAssumption DEF TypeInv, WorkerOK
<1>2. \A i \in 1..Len(queue) : queue[i] \in Job
  BY <1>1
<1>3. QED
  BY <1>1, <1>2 DEF Job

LEMMA ShiftedJobs ==
  ASSUME TypeInv, queue # <<>>, queue' = Tail(queue)
  PROVE  /\ Len(queue) > 0 /\ Len(queue') = Len(queue) - 1
         /\ Running = queue[1].op /\ Head(queue).by = queue[1].by
         /\ \A i \in 1..Len(queue') : queue'[i] = queue[i + 1] /\ i + 1 \in 1..Len(queue)
<1>1. queue \in Seq(Job) /\ Len(queue) \in Nat
  BY JobType
<1>2. /\ Len(queue') = Len(queue) - 1
      /\ \A i \in 1..Len(queue') : queue'[i] = queue[i + 1]
  BY <1>1, HeadTailProperties
<1>3. Len(queue) > 0 /\ Head(queue) = queue[1]
  BY <1>1
<1>4. QED
  BY <1>1, <1>2, <1>3 DEF Running

LEMMA AddedJob ==
  ASSUME TypeInv, NEW job \in Job, queue' = Append(queue, job)
  PROVE  /\ Len(queue') = Len(queue) + 1 /\ Len(queue) \in Nat
         /\ \A i \in 1..Len(queue) : queue'[i] = queue[i]
         /\ queue'[Len(queue')] = job
<1>1. queue \in Seq(Job) /\ Len(queue) \in Nat
  BY JobType
<1>2. QED
  BY <1>1, AppendProperties

LEMMA AbandonedJob ==
  ASSUME TypeInv, NEW t \in Threads, queue' = Orphaned(t)
  PROVE  /\ Len(queue') = Len(queue)
         /\ \A i \in 1..Len(queue) :
              /\ queue'[i].op = queue[i].op
              /\ queue'[i].by = IF queue[i].by = t THEN None ELSE queue[i].by
<1>1. queue \in Seq(Job) /\ DOMAIN queue = 1..Len(queue)
  BY JobType
<1>2. Len(queue') = Len(queue) /\ \A i \in 1..Len(queue) : queue'[i].op = queue[i].op
  BY <1>1, OrphanJob
<1>3. ASSUME NEW i \in 1..Len(queue)
      PROVE  queue'[i].by = IF queue[i].by = t THEN None ELSE queue[i].by
  <2>1. queue'[i] = IF queue[i].by = t THEN [queue[i] EXCEPT !.by = None] ELSE queue[i]
    BY <1>1, <1>3 DEF Orphaned
  <2>2. queue[i] \in Job
    BY <1>3, JobType
  <2>3. [queue[i] EXCEPT !.by = None].by = None
    BY <2>2 DEF Job
  <2>4. QED
    BY <2>1, <2>3
<1>4. QED
  BY <1>2, <1>3

\* A thread that waits for nothing, before or after.
LEMMA JobsSettle ==
  ASSUME TypeInv, JobsInv, NEW t \in Threads, fut[t] # "pending", OnlyThread(t),
         UNCHANGED queue, fut'[t] = "none", pc'[t] \in Working
  PROVE  JobsInv'
<1>1. \A i \in 1..Len(queue) : queue[i].by # t
  BY JobType DEF JobsInv
<1>2. \A u \in Threads : u # t => Awaited(u)' = Awaited(u)
  BY DEF OnlyThread, Awaited
<1>3. QED
  BY <1>1, <1>2, JobType DEF JobsInv, OnlyThread

\* A thread that hands in a job and waits for it.
LEMMA JobsEnqueue ==
  ASSUME TypeInv, JobsInv, NEW t \in Threads, fut[t] = "none", OnlyThread(t),
         NEW op \in Op, queue' = Append(queue, [by |-> t, op |-> op]),
         fut'[t] = "pending", pc'[t] \in {"hydrating", "waiting"}, op = Awaited(t)'
  PROVE  JobsInv'
<1> DEFINE job == [by |-> t, op |-> op]
<1>1. job \in Job /\ job.by = t /\ job.op = op
  BY DEF Job
<1>2. /\ Len(queue') = Len(queue) + 1 /\ Len(queue) \in Nat
      /\ \A i \in 1..Len(queue) : queue'[i] = queue[i]
      /\ queue'[Len(queue')] = job
  BY <1>1, AddedJob
<1>3. \A i \in 1..Len(queue) : queue[i].by # t
  BY JobType DEF JobsInv
<1>4. \A u \in Threads : u # t => Awaited(u)' = Awaited(u)
  BY DEF OnlyThread, Awaited
<1>5. \A i \in 1..Len(queue') : i = Len(queue') \/ i \in 1..Len(queue)
  BY <1>2
<1>6. \A u \in Threads : fut'[u] = "none" <=> pc'[u] \in Working
  BY DEF JobsInv, OnlyThread, Working
<1>7. ASSUME NEW u \in Threads, fut'[u] = "pending"
      PROVE  \E i \in 1..Len(queue') : queue'[i].by = u
  <2>1. CASE u = t
    BY <1>1, <1>2, <2>1
  <2>2. CASE u # t
    <3>1. PICK i \in 1..Len(queue) : queue[i].by = u
      BY <1>7, <2>2 DEF JobsInv, OnlyThread
    <3>2. i \in 1..Len(queue')
      BY <1>2
    <3>3. QED
      BY <1>2, <3>1, <3>2
  <2>3. QED
    BY <2>1, <2>2
<1>8. ASSUME NEW i \in 1..Len(queue'), queue'[i].by # None
      PROVE  fut'[queue'[i].by] = "pending" /\ queue'[i].op = Awaited(queue[i].by)'
  <2>1. CASE i = Len(queue')
    BY <1>1, <1>2, <2>1
  <2>2. CASE i \in 1..Len(queue)
    BY <1>2, <1>3, <1>4, <1>8, <2>2, JobType DEF JobsInv, OnlyThread
  <2>3. QED
    BY <1>5, <2>1, <2>2
<1>9. ASSUME NEW i \in 1..Len(queue'), NEW j \in 1..Len(queue'),
             queue'[i].by = queue'[j].by, queue'[i].by # None
      PROVE  i = j
  BY <1>1, <1>2, <1>3, <1>5, <1>9 DEF JobsInv
<1>10. QED
  BY <1>6, <1>7, <1>8, <1>9 DEF JobsInv

\* A thread that gives up.
LEMMA JobsAbandon ==
  ASSUME TypeInv, JobsInv, NEW t \in Threads, OnlyThread(t),
         queue' = Orphaned(t), fut'[t] = "none", pc'[t] \in Working
  PROVE  JobsInv'
<1>1. /\ Len(queue') = Len(queue)
      /\ \A i \in 1..Len(queue) :
           /\ queue'[i].op = queue[i].op
           /\ queue'[i].by = IF queue[i].by = t THEN None ELSE queue[i].by
  BY AbandonedJob
<1>2. \A u \in Threads : u # t => Awaited(u)' = Awaited(u)
  BY DEF OnlyThread, Awaited
<1>3. QED
  BY <1>1, <1>2, JobType DEF JobsInv, OnlyThread

\* The running job ends.
LEMMA JobsFinish ==
  ASSUME TypeInv, JobsInv, queue # <<>>, NEW res \in {"ok", "failed"}, Finish(res),
         UNCHANGED <<pc, todo>>
  PROVE  JobsInv'
<1> DEFINE by == Head(queue).by
<1>1. /\ Len(queue) > 0 /\ Len(queue') = Len(queue) - 1
      /\ by = queue[1].by
      /\ \A i \in 1..Len(queue') : queue'[i] = queue[i + 1] /\ i + 1 \in 1..Len(queue)
  BY ShiftedJobs DEF Finish
<1>2. Len(queue) \in Nat /\ 1 \in 1..Len(queue)
  BY <1>1, JobType
<1>3. \A u \in Threads : Awaited(u)' = Awaited(u)
  BY DEF Awaited
<1>4. fut \in [Threads -> {"none", "pending", "ok", "failed"}]
  BY DEF TypeInv, ThreadsOK
<1>5. \A u \in Threads : fut'[u] = IF u = by THEN res ELSE fut[u]
  BY <1>4, JobType DEF Finish
<1>6. by \in Threads => fut[by] = "pending"
  BY <1>1, <1>2, JobType DEF JobsInv
<1>7. \A i \in 1..Len(queue') : queue'[i].by # None => queue'[i].by # by
  <2> SUFFICES ASSUME NEW i \in 1..Len(queue'), queue'[i].by # None, queue'[i].by = by
               PROVE  FALSE
    OBVIOUS
  <2>1. i + 1 \in 1..Len(queue) /\ queue[i + 1].by = queue[1].by /\ queue[i + 1].by # None
    BY <1>1
  <2>2. i + 1 = 1
    BY <1>2, <2>1 DEF JobsInv
  <2>3. QED
    BY <1>1, <1>2, <2>2
<1>8. \A u \in Threads : fut'[u] = "none" <=> pc'[u] \in Working
  BY <1>5, <1>6 DEF JobsInv, Working
<1>9. ASSUME NEW u \in Threads, fut'[u] = "pending"
      PROVE  \E i \in 1..Len(queue') : queue'[i].by = u
  <2>1. u # by /\ fut[u] = "pending"
    BY <1>5, <1>9
  <2>2. PICK i \in 1..Len(queue) : queue[i].by = u
    BY <2>1 DEF JobsInv
  <2>3. i # 1
    BY <1>1, <2>1, <2>2
  <2>4. i - 1 \in 1..Len(queue') /\ (i - 1) + 1 = i
    BY <1>1, <1>2, <2>2, <2>3
  <2>5. QED
    BY <1>1, <2>2, <2>4
<1>10. ASSUME NEW i \in 1..Len(queue'), queue'[i].by # None
       PROVE  fut'[queue'[i].by] = "pending" /\ queue'[i].op = Awaited(queue[i].by)'
  <2>1. i + 1 \in 1..Len(queue) /\ queue'[i] = queue[i + 1]
    BY <1>1
  <2>2. queue'[i].by \in Threads
    BY <1>10, <2>1, JobType
  <2>3. fut[queue'[i].by] = "pending" /\ queue'[i].op = Awaited(queue'[i].by)
    BY <1>10, <2>1 DEF JobsInv
  <2>4. QED
    BY <1>3, <1>5, <1>7, <1>10, <2>2, <2>3
<1>11. ASSUME NEW i \in 1..Len(queue'), NEW j \in 1..Len(queue'),
              queue'[i].by = queue'[j].by, queue'[i].by # None
       PROVE  i = j
  <2>1. i + 1 = j + 1
    BY <1>1, <1>11 DEF JobsInv
  <2>2. QED
    BY <1>2, <2>1
<1>12. QED
  BY <1>8, <1>9, <1>10, <1>11 DEF JobsInv

LEMMA JobsThreadStep ==
  ASSUME TypeInv, JobsInv, NEW t \in Threads,
         Request(t) \/ Notify(t) \/ ThreadStep(t)
  PROVE  JobsInv'
<1> USE DEF Working
<1>0. /\ pc \in [Threads -> {"idle", "start", "hydrating", "waiting", "dump", "replace"}]
      /\ todo \in [Threads -> Seq(Op)]
      /\ fut \in [Threads -> {"none", "pending", "ok", "failed"}]
  BY DEF TypeInv, ThreadsOK
<1>1. ASSUME NEW ops, Arrive(t, ops) PROVE JobsInv'
  <2>1. OnlyThread(t) /\ pc'[t] = "start"
    BY <1>0, <1>1 DEF OnlyThread, Arrive
  <2>2. fut[t] = "none"
    BY <1>1 DEF Arrive, JobsInv
  <2>3. fut'[t] = "none" /\ UNCHANGED queue
    BY <1>1, <2>2 DEF Arrive
  <2>4. QED
    BY <2>1, <2>2, <2>3, JobsSettle
<1>2. CASE Request(t) \/ Notify(t)
  BY <1>1, <1>2 DEF Request, Notify
<1>3. CASE StartHydrate(t)
  <2>1. OnlyThread(t) /\ pc'[t] = "hydrating" /\ fut'[t] = "pending" /\ fut[t] = "none"
    BY <1>0, <1>3 DEF StartHydrate, OnlyThread, JobsInv
  <2>2. StateOp = Awaited(t)' /\ queue' = Append(queue, [by |-> t, op |-> StateOp])
    BY <1>3, <2>1 DEF Awaited, StartHydrate, StateOp
  <2>3. QED
    BY <2>1, <2>2, StateOpType, JobsEnqueue
<1>4. CASE Submit(t)
  <2> DEFINE op == Head(todo[t])
  <2>1. OnlyThread(t) /\ pc'[t] = "waiting" /\ fut'[t] = "pending" /\ fut[t] = "none"
    BY <1>0, <1>4 DEF Submit, OnlyThread, JobsInv
  <2>2. op = Awaited(t)' /\ queue' = Append(queue, [by |-> t, op |-> op])
    BY <1>4, <2>1 DEF Awaited, Submit
  <2>3. op \in Op
    BY <1>4, TodoType DEF Submit
  <2>4. QED
    BY <2>1, <2>2, <2>3, JobsEnqueue
<1>5. ASSUME Advance(t) \/ Abort(t) \/ \E ops : StartSave(t, ops)
      PROVE  pc'[t] \in Working
             /\ \A u \in Threads \ {t} : pc'[u] = pc[u] /\ todo'[u] = todo[u]
  BY <1>0, <1>5 DEF Advance, Abort, StartSave
<1>6. CASE Reject(t) \/ HandleMessage(t) \/ Replace(t)
  <2>1. fut[t] = "none" /\ fut' = fut /\ UNCHANGED queue
    BY <1>6 DEF Reject, HandleMessage, Replace, JobsInv
  <2>2. pc'[t] \in Working /\ OnlyThread(t)
    BY <1>5, <1>6, <2>1 DEF Reject, HandleMessage, Replace, OnlyThread
  <2>3. QED
    BY <2>1, <2>2, JobsSettle
<1>7. CASE Dump(t)
  <2>1. fut[t] = "none" /\ fut' = fut /\ UNCHANGED queue
    BY <1>7 DEF Dump, JobsInv
  <2>2. pc'[t] \in Working /\ OnlyThread(t)
    BY <1>0, <1>7, <2>1 DEF Dump, OnlyThread
  <2>3. QED
    BY <2>1, <2>2, JobsSettle
<1>8. CASE Hydrate(t)
  <2>1. fut[t] # "pending" /\ fut' = [fut EXCEPT ![t] = "none"] /\ UNCHANGED queue
    BY <1>8 DEF Hydrate
  <2>2. pc'[t] \in Working
        /\ \A u \in Threads \ {t} : pc'[u] = pc[u] /\ todo'[u] = todo[u]
    BY <1>0, <1>5, <1>8 DEF Hydrate
  <2>3. OnlyThread(t) /\ fut'[t] = "none"
    BY <1>0, <2>1, <2>2 DEF OnlyThread
  <2>4. QED
    BY <2>1, <2>2, <2>3, JobsSettle
<1>9. CASE Complete(t) \/ Fail(t)
  <2>1. fut[t] # "pending" /\ fut' = [fut EXCEPT ![t] = "none"] /\ UNCHANGED queue
    BY <1>9 DEF Complete, Fail, Raise
  <2>2. Advance(t) \/ Abort(t) \/ \E ops : StartSave(t, ops)
    BY <1>9 DEF Complete, Fail, Raise
  <2>3. OnlyThread(t) /\ fut'[t] = "none" /\ pc'[t] \in Working
    BY <1>0, <1>5, <2>1, <2>2 DEF OnlyThread
  <2>4. QED
    BY <2>1, <2>3, JobsSettle
<1>10. CASE Timeout(t)
  <2>1. queue' = Orphaned(t) /\ fut' = [fut EXCEPT ![t] = "none"]
    BY <1>10 DEF Timeout, Raise
  <2>2. Abort(t) \/ \E ops : StartSave(t, ops)
    BY <1>10 DEF Timeout, Raise
  <2>3. OnlyThread(t) /\ fut'[t] = "none" /\ pc'[t] \in Working
    BY <1>0, <1>5, <2>1, <2>2 DEF OnlyThread
  <2>4. QED
    BY <2>1, <2>3, JobsAbandon
<1>11. QED
  BY <1>2, <1>3, <1>4, <1>6, <1>7, <1>8, <1>9, <1>10 DEF ThreadStep

LEMMA JobsStep == TypeInv /\ JobsInv /\ [Next]_vars => JobsInv'
<1> SUFFICES ASSUME TypeInv, JobsInv, [Next]_vars PROVE JobsInv'
  OBVIOUS
<1>1. ASSUME NEW t \in Threads, Request(t) \/ Notify(t) \/ ThreadStep(t)
      PROVE  JobsInv'
  BY <1>1, JobsThreadStep
<1>2. ASSUME UNCHANGED <<queue, pc, todo, fut>> PROVE JobsInv'
  BY <1>2 DEF JobsInv, Awaited
<1>3. CASE ReadStatus
  BY <1>3, JobsFinish DEF ReadStatus
<1>4. CASE Run
  BY <1>4, JobsFinish DEF Run, CanRun
<1>5. CASE RunFails
  <2>1. queue # <<>>
    BY <1>5 DEF RunFails, CanRun, TypeInv, WorkerOK
  <2>2. QED
    BY <1>5, <2>1, JobsFinish DEF RunFails
<1>6. CASE FindSlot \/ FindSlotAgain \/ ChangeSlot
  BY <1>2, <1>6 DEF FindSlot, FindSlotAgain, ReadSlot, ChangeSlot, threadVars
<1>7. CASE RemotePreset \/ RemoteVolume \/ RemoteMute
  BY <1>2, <1>7 DEF RemotePreset, RemoteVolume, RemoteMute, Remote, threadVars
<1>8. CASE Restart
  BY <1>8 DEF Restart, JobsInv, Working
<1>9. CASE UNCHANGED vars
  BY <1>2, <1>9 DEF vars, threadVars
<1>10. QED
  BY <1>1, <1>3, <1>4, <1>5, <1>6, <1>7, <1>8, <1>9 DEF Next

LEMMA JobsInit == Init => JobsInv
BY DEF Init, JobsInv, Working

-----------------------------------------------------------------------------
(* What a slot holds and what is shown for it, for its filter and its trim.*)

Fields == {"filter", "trim"}

\* The operations that change field f, and those that change it for slot s.
Changers(f) == IF f = "filter" THEN FilterKinds ELSE TrimKinds

Changes(op, s, f) == op.slot = s /\ op.kind \in Changers(f)

\* What such an operation makes of the field.
Meant(op, f) ==
  IF f = "filter" THEN Title(op)
  ELSE IF op.kind = "clear" THEN Unity ELSE op.arg

Held(d, s, f) == IF f = "filter" THEN d.filter[s] ELSE d.trim[s]

Pictured(st, s, f) == IF f = "filter" THEN st.last[s] ELSE st.trim[s]

\* What the cache file makes of the slot, and what is shown for it, or would be
\* if the device were hydrated now.
FileShown(s, f) ==
  IF file = None THEN (IF f = "filter" THEN Empty ELSE Unity)
  ELSE Pictured(file, s, f)

Shown(s, f) == IF hydrated THEN Pictured(cur, s, f) ELSE FileShown(s, f)

\* Nothing is claimed of the slot.
Unsure(s, f) == IF f = "filter" THEN Shown(s, f) = ERROR ELSE s \in doubt

\* Thread t waits for a job that changes the field.
Busy(t, s, f) == pc[t] = "waiting" /\ Changes(Head(todo[t]), s, f)

NoneQueued(s, f) == \A i \in 1..Len(queue) : ~Changes(queue[i].op, s, f)

\* While nobody waits for a change of the field, the DSP holds what is shown
\* and no abandoned job is left that could change it.  Somebody who does wait
\* has handed in the last such job, and once that succeeded none is left.
FieldOK(s, f) ==
  /\ (\A t \in Threads : ~Busy(t, s, f)) /\ ~Unsure(s, f) =>
       Held(dsp, s, f) = Shown(s, f) /\ NoneQueued(s, f)
  /\ \A t \in Threads : Busy(t, s, f) =>
       /\ fut[t] = "ok" =>
            Held(dsp, s, f) = Meant(Head(todo[t]), f) /\ NoneQueued(s, f)
       /\ fut[t] = "pending" =>
            \A i \in 1..Len(queue) : Changes(queue[i].op, s, f) =>
              \E j \in i..Len(queue) : queue[j].by = t

OneUser(s) ==
  \A t, u \in Threads : s \in SlotsOf(todo[t]) /\ s \in SlotsOf(todo[u]) => t = u

\* Thread t waits for commands, or saves what came of them.
Commanding(t) == pc[t] \in {"waiting", "dump", "replace"}

\* A hydrated device shows what it would after a restart, but for the slots
\* that are not saved yet, and only a hydrated one takes commands.
ShownInv ==
  /\ hydrated => \A s \in Slots \ Unsaved, f \in Fields : FileShown(s, f) = Pictured(cur, s, f)
  /\ \A t \in Threads : Commanding(t) => hydrated

SlotsInv == \A s \in Slots \ tainted : OneUser(s) /\ \A f \in Fields : FieldOK(s, f)

-----------------------------------------------------------------------------
(* The operators on the picture and on the DSP, field by field.            *)

LEMMA ChangersHaveSlots ==
  ASSUME NEW op \in Op, NEW f \in Fields, op.kind \in Changers(f)
  PROVE  op.slot \in Slots
BY OpShape DEF Changers, FilterKinds, TrimKinds, Fields

LEMMA PicturedApplied ==
  ASSUME NEW st \in StateType, NEW op \in Op, NEW status, NEW s \in Slots, NEW f \in Fields
  PROVE  Pictured(Applied(st, op, status), s, f)
           = IF Changes(op, s, f) THEN Meant(op, f) ELSE Pictured(st, s, f)
<1> USE OpShape DEF Changes, Changers, FilterKinds, TrimKinds, Fields, Meant, Pictured
<1>1. ASSUME op.kind \in {"load", "clear", "biquads"}
      PROVE  /\ load(st, op).last = [st.last EXCEPT ![op.slot] = Title(op)]
             /\ load(st, op).trim = st.trim
             /\ clear(st, op).last = [st.last EXCEPT ![op.slot] = Title(op)]
             /\ clear(st, op).trim = [st.trim EXCEPT ![op.slot] = Unity]
  BY DEF load, clear, activate, StateType
<1>2. st.last \in [Slots -> Titles \cup {ERROR}] /\ st.trim \in [Slots -> Trims]
  BY DEF StateType
<1>3. CASE op.kind \in {"load", "biquads"}
  BY <1>1, <1>2, <1>3 DEF Applied
<1>4. CASE op.kind = "clear"
  BY <1>1, <1>2, <1>4 DEF Applied
<1>5. CASE op.kind = "activate"
  BY <1>5 DEF Applied, activate, StateType
<1>6. CASE op.kind = "trim"
  BY <1>2, <1>6 DEF Applied, gain, activate, StateType
<1>7. CASE op.kind \in {"volume", "mute", "unmute", "state"}
  BY <1>7 DEF Applied, update_master_state, StateType
<1>8. CASE op.kind = "ws"
  BY <1>8 DEF Applied, on_ws_message, activate, StateType
<1>9. QED
  BY <1>3, <1>4, <1>5, <1>6, <1>7, <1>8 DEF Kinds

LEMMA PicturedRaised ==
  ASSUME NEW st \in StateType, NEW op \in Op, NEW s \in Slots, NEW f \in Fields
  PROVE  Pictured(Raised(st, op), s, f)
           = IF f = "filter" /\ Changes(op, s, f) THEN ERROR ELSE Pictured(st, s, f)
<1>1. st.last \in [Slots -> Titles \cup {ERROR}]
  BY DEF StateType
<1>2. /\ error(st, op).last = [st.last EXCEPT ![op.slot] = ERROR]
      /\ error(st, op).trim = st.trim
  BY DEF error, activate, StateType
<1>3. QED
  BY <1>1, <1>2 DEF Raised, Changes, Changers, Pictured, Fields

LEMMA PicturedSaved ==
  ASSUME NEW st \in StateType, NEW s, NEW f
  PROVE  Pictured(Saved(st), s, f) = Pictured(st, s, f) /\ Saved(st) # None
BY SavedType, NoFileAssumption DEF Pictured, Saved

LEMMA HeldWritten ==
  ASSUME NEW d \in DspType, NEW op \in Op, NEW to \in Slots, NEW s \in Slots,
         NEW f \in Fields
  PROVE  Held(Written(d, op, to), s, f)
           = IF op.kind \in Changers(f) /\ s = to THEN Meant(op, f) ELSE Held(d, s, f)
<1> USE OpShape DEF Changers, FilterKinds, TrimKinds, Fields, Meant, Held
<1>1. d.filter \in [Slots -> Filters] /\ d.trim \in [Slots -> Trims]
  BY DEF DspType
<1>2. CASE op.kind \in {"load", "biquads"}
  BY <1>1, <1>2 DEF Written, DspType
<1>3. CASE op.kind = "clear"
  BY <1>1, <1>3 DEF Written, DspType, Title
<1>4. CASE op.kind = "trim"
  BY <1>1, <1>4 DEF Written, DspType
<1>5. CASE op.kind \in {"volume", "mute", "unmute", "activate", "state", "ws"}
  BY <1>5 DEF Written, DspType
<1>6. QED
  BY <1>2, <1>3, <1>4, <1>5 DEF Kinds

LEMMA HeldInterrupted ==
  ASSUME NEW d \in DspType, NEW op \in Op, NEW to \in Slots, NEW s \in Slots,
         NEW f \in Fields, ~(op.kind \in Changers(f) /\ s = to),
         NEW e \in Interrupted(d, op, to)
  PROVE  Held(e, s, f) = Held(d, s, f)
<1> DEFINE full == Written(d, op, to)
<1>1. Held(full, s, f) = Held(d, s, f) /\ full \in DspType
  BY HeldWritten, WrittenType
<1>2. CASE e = d \/ e = full
  BY <1>1, <1>2
<1>3. CASE e = [d EXCEPT !.preset = full.preset]
  BY <1>3 DEF Held, DspType
<1>4. CASE e = [full EXCEPT !.trim = d.trim]
  BY <1>1, <1>4 DEF Held, DspType
<1>5. CASE op.kind \in FilterKinds
           /\ e = [d EXCEPT !.preset = to, !.filter = [d.filter EXCEPT ![to] = Partial]]
  BY <1>5 DEF Held, DspType, Changers, Fields
<1>6. QED
  BY <1>2, <1>3, <1>4, <1>5 DEF Interrupted

-----------------------------------------------------------------------------
(* One slot, one field: the kinds of step.                                 *)

\* A thread that is not busy with the field, before or after, and hands in no
\* job that changes it.
LEMMA FieldAside ==
  ASSUME TypeInv, NEW s \in Slots, NEW f \in Fields, FieldOK(s, f),
         NEW t \in Threads, OnlyThread(t), ~Busy(t, s, f), ~Busy(t, s, f)',
         UNCHANGED dsp, Shown(s, f)' = Shown(s, f), Unsure(s, f) => Unsure(s, f)',
         Len(queue') \in Nat, Len(queue') >= Len(queue),
         \A i \in 1..Len(queue') : Changes(queue'[i].op, s, f) =>
           i \in 1..Len(queue) /\ Changes(queue[i].op, s, f),
         \A i \in 1..Len(queue) : queue[i].by # t => queue'[i].by = queue[i].by
  PROVE  FieldOK(s, f)'
<1>1. \A u \in Threads : u # t => (Busy(u, s, f)' <=> Busy(u, s, f))
  BY DEF Busy, OnlyThread
<1>2. NoneQueued(s, f) => NoneQueued(s, f)'
  BY DEF NoneQueued
<1>3. Held(dsp, s, f)' = Held(dsp, s, f)
  BY DEF Held
<1>4. (\A u \in Threads : ~Busy(u, s, f)') => \A u \in Threads : ~Busy(u, s, f)
  BY <1>1
<1>5. ASSUME NEW u \in Threads, Busy(u, s, f)'
      PROVE  /\ fut'[u] = "ok" =>
                  Held(dsp, s, f)' = Meant(Head(todo[u]), f)' /\ NoneQueued(s, f)'
             /\ fut'[u] = "pending" =>
                  \A i \in 1..Len(queue') : Changes(queue'[i].op, s, f) =>
                    \E j \in i..Len(queue') : queue'[j].by = u
  <2>1. u # t /\ Busy(u, s, f) /\ fut'[u] = fut[u] /\ todo'[u] = todo[u]
    BY <1>1, <1>5 DEF OnlyThread
  <2>2. fut'[u] = "ok" =>
          Held(dsp, s, f)' = Meant(Head(todo[u]), f)' /\ NoneQueued(s, f)'
    BY <1>2, <1>3, <2>1 DEF FieldOK, Meant
  <2>3. ASSUME fut[u] = "pending", NEW i \in 1..Len(queue'), Changes(queue'[i].op, s, f)
        PROVE  \E j \in i..Len(queue') : queue'[j].by = u
    <3>1. i \in 1..Len(queue) /\ Changes(queue[i].op, s, f)
      BY <2>3
    <3>2. PICK j \in i..Len(queue) : queue[j].by = u
      BY <2>1, <2>3, <3>1 DEF FieldOK
    <3>3. j \in 1..Len(queue) /\ j \in i..Len(queue')
      BY <3>1, <3>2, JobType
    <3>4. QED
      BY <2>1, <3>2, <3>3
  <2>4. QED
    BY <2>1, <2>2, <2>3
<1>6. QED
  BY <1>2, <1>3, <1>4, <1>5 DEF FieldOK

\* A thread that hands in a job for the field.
LEMMA FieldSubmit ==
  ASSUME TypeInv, NEW s \in Slots, NEW f \in Fields, OneUser(s)',
         NEW t \in Threads, \A u \in Threads : Busy(u, s, f)' => s \in SlotsOf(todo'[u]),
         Busy(t, s, f)', fut'[t] = "pending",
         NEW job \in Job, job.by = t, queue' = Append(queue, job)
  PROVE  FieldOK(s, f)'
<1>1. \A u \in Threads : Busy(u, s, f)' => u = t
  BY DEF OneUser
<1>2. Len(queue') \in Nat /\ queue'[Len(queue')].by = t
  BY AddedJob
<1>3. \A i \in 1..Len(queue') : Len(queue') \in i..Len(queue')
  BY <1>2
<1>4. QED
  BY <1>1, <1>2, <1>3 DEF FieldOK

\* A thread whose change of the field ended: with success, or in doubt.
LEMMA FieldSettle ==
  ASSUME TypeInv, NEW s \in Slots, NEW f \in Fields, FieldOK(s, f), OneUser(s),
         NEW t \in Threads, OnlyThread(t), Busy(t, s, f), pc'[t] # "waiting",
         \A u \in Threads : Busy(u, s, f) => s \in SlotsOf(todo[u]),
         \/ Unsure(s, f)'
         \/ /\ fut[t] = "ok" /\ Shown(s, f)' = Meant(Head(todo[t]), f)
            /\ UNCHANGED <<dsp, queue>>
  PROVE  FieldOK(s, f)'
<1>1. \A u \in Threads : ~Busy(u, s, f)'
  BY DEF OneUser, OnlyThread, Busy
<1>2. CASE Unsure(s, f)'
  BY <1>1, <1>2 DEF FieldOK
<1>3. CASE /\ fut[t] = "ok" /\ Shown(s, f)' = Meant(Head(todo[t]), f)
           /\ UNCHANGED <<dsp, queue>>
  <2>1. Held(dsp, s, f) = Meant(Head(todo[t]), f) /\ NoneQueued(s, f)
    BY <1>3 DEF FieldOK
  <2>2. Held(dsp, s, f)' = Shown(s, f)' /\ NoneQueued(s, f)'
    BY <1>3, <2>1 DEF Held, NoneQueued
  <2>3. QED
    BY <1>1, <2>2 DEF FieldOK
<1>4. QED
  BY <1>2, <1>3

\* The running job ends, having changed the field if that is what it is for.
LEMMA FieldFinish ==
  ASSUME TypeInv, JobsInv, NEW s \in Slots, NEW f \in Fields, FieldOK(s, f),
         queue # <<>>, NEW res \in {"ok", "failed"}, Finish(res),
         UNCHANGED <<pc, todo, stateVars, doubt>>,
         Changes(Running, s, f) /\ res = "ok" => Held(dsp', s, f) = Meant(Running, f),
         ~Changes(Running, s, f) => Held(dsp', s, f) = Held(dsp, s, f)
  PROVE  FieldOK(s, f)'
<1> DEFINE by == Head(queue).by
<1>1. /\ Len(queue) > 0 /\ Len(queue') = Len(queue) - 1
      /\ Running = queue[1].op /\ by = queue[1].by
      /\ \A i \in 1..Len(queue') : queue'[i] = queue[i + 1] /\ i + 1 \in 1..Len(queue)
  BY ShiftedJobs DEF Finish
<1>2. Len(queue) \in Nat /\ 1 \in 1..Len(queue)
  BY <1>1, JobType
<1>3. \A u \in Threads : fut'[u] = IF u = by THEN res ELSE fut[u]
  BY JobType DEF Finish, TypeInv, ThreadsOK
<1>4. \A u \in Threads : Busy(u, s, f)' <=> Busy(u, s, f)
  BY DEF Busy
<1>5. Shown(s, f)' = Shown(s, f) /\ (Unsure(s, f)' <=> Unsure(s, f))
  BY DEF stateVars, Shown, FileShown, Unsure
<1>6. NoneQueued(s, f) => /\ NoneQueued(s, f)'
                          /\ Held(dsp, s, f)' = Held(dsp, s, f)
  BY <1>1, <1>2 DEF NoneQueued, Held
<1>7. (\A u \in Threads : ~Busy(u, s, f)') /\ ~Unsure(s, f)' =>
        Held(dsp, s, f)' = Shown(s, f)' /\ NoneQueued(s, f)'
  BY <1>4, <1>5, <1>6 DEF FieldOK
<1>8. ASSUME NEW u \in Threads, Busy(u, s, f)
      PROVE  /\ fut'[u] = "ok" =>
                  Held(dsp, s, f)' = Meant(Head(todo[u]), f)' /\ NoneQueued(s, f)'
             /\ fut'[u] = "pending" =>
                  \A i \in 1..Len(queue') : Changes(queue'[i].op, s, f) =>
                    \E j \in i..Len(queue') : queue'[j].by = u
  <2>1. CASE u = by
    <3>1. fut[u] = "pending" /\ Running = Head(todo[u])
      BY <1>1, <1>2, <1>8, <2>1, JobType DEF JobsInv, Awaited, Busy
    <3>2. Changes(Running, s, f)
      BY <1>8, <3>1 DEF Busy
    <3>3. NoneQueued(s, f)'
      <4> SUFFICES ASSUME NEW i \in 1..Len(queue'), Changes(queue'[i].op, s, f)
                   PROVE  FALSE
        BY DEF NoneQueued
      <4>1. i + 1 \in 1..Len(queue) /\ Changes(queue[i + 1].op, s, f)
        BY <1>1
      <4>2. PICK j \in (i + 1)..Len(queue) : queue[j].by = u
        BY <1>8, <3>1, <4>1 DEF FieldOK
      <4>3. j \in 1..Len(queue) /\ j # 1
        BY <1>2, <4>1, <4>2
      <4>4. QED
        BY <1>1, <1>2, <2>1, <4>2, <4>3, JobType DEF JobsInv
    <3>4. fut'[u] = res
      BY <1>3, <2>1
    <3>5. fut'[u] = "ok" => Held(dsp, s, f)' = Meant(Head(todo[u]), f)'
      BY <3>1, <3>2, <3>4 DEF Held, Meant
    <3>6. QED
      BY <3>3, <3>4, <3>5
  <2>2. CASE u # by
    <3>1. fut'[u] = fut[u]
      BY <1>3, <2>2
    <3>2. fut[u] = "ok" =>
            Held(dsp, s, f)' = Meant(Head(todo[u]), f)' /\ NoneQueued(s, f)'
      BY <1>6, <1>8 DEF FieldOK, Meant
    <3>3. ASSUME fut[u] = "pending", NEW i \in 1..Len(queue'), Changes(queue'[i].op, s, f)
          PROVE  \E j \in i..Len(queue') : queue'[j].by = u
      <4>1. i + 1 \in 1..Len(queue) /\ Changes(queue[i + 1].op, s, f)
        BY <1>1, <3>3
      <4>2. PICK j \in (i + 1)..Len(queue) : queue[j].by = u
        BY <1>8, <3>3, <4>1 DEF FieldOK
      <4>3. j - 1 \in i..Len(queue') /\ j - 1 \in 1..Len(queue') /\ (j - 1) + 1 = j
        BY <1>1, <1>2, <4>1, <4>2
      <4>4. QED
        BY <1>1, <4>2, <4>3
    <3>4. QED
      BY <3>1, <3>2, <3>3
  <2>3. QED
    BY <2>1, <2>2
<1>9. QED
  BY <1>4, <1>7, <1>8 DEF FieldOK

\* Steps that leave threads, queue and picture alone, and the field on the DSP.
LEMMA FieldSame ==
  ASSUME NEW s, NEW f, FieldOK(s, f), UNCHANGED <<queue, pc, todo, fut, stateVars>>,
         Unsure(s, f) => Unsure(s, f)', Held(dsp', s, f) = Held(dsp, s, f)
  PROVE  FieldOK(s, f)'
<1>1. Shown(s, f)' = Shown(s, f)
  BY DEF stateVars, Shown, FileShown
<1>2. \A t \in Threads : Busy(t, s, f)' <=> Busy(t, s, f)
  BY DEF Busy
<1>3. NoneQueued(s, f)' <=> NoneQueued(s, f)
  BY DEF NoneQueued
<1>4. Held(dsp, s, f)' = Held(dsp, s, f)
  BY DEF Held
<1>5. QED
  BY <1>1, <1>2, <1>3, <1>4 DEF FieldOK, Meant

-----------------------------------------------------------------------------
(* What is shown, after the steps that record an outcome.                  *)

LEMMA UserIsBusy ==
  ASSUME TypeInv, NEW t \in Threads, NEW s, NEW f, Busy(t, s, f)
  PROVE  s \in SlotsOf(todo[t])
<1>1. todo[t] \in Seq(Op) /\ todo[t] # <<>>
  BY TodoType DEF Busy
<1>2. 1 \in DOMAIN todo[t] /\ Head(todo[t]) = todo[t][1]
  BY <1>1
<1>3. QED
  BY <1>2 DEF SlotsOf, Busy, Changes

LEMMA ShownAfterMerge ==
  ASSUME TypeInv, NEW status \in Status, NEW s \in Slots, NEW f \in Fields
  PROVE  Pictured(Merged(Fresh(status), file), s, f) = FileShown(s, f)
<1>1. Fresh(status) \in StateType
  BY FreshType
<1>2. CASE file = None
  BY <1>2 DEF Merged, Pictured, FileShown, Fresh
<1>3. CASE file # None
  BY <1>1, <1>3 DEF Merged, Pictured, FileShown, StateType
<1>4. QED
  BY <1>2, <1>3

LEMMA RaiseShows ==
  ASSUME TypeInv, ShownInv, NEW t \in Threads,
         pc[t] \in {"hydrating", "waiting"}, Raise(t), UNCHANGED <<hydrated, file>>
  PROVE  \A s \in Slots, f \in Fields :
           IF Busy(t, s, f) THEN Unsure(s, f)'
           ELSE Shown(s, f)' = Shown(s, f) /\ (Unsure(s, f) => Unsure(s, f)')
<1> DEFINE op == Head(todo[t])
<1>1. op \in Op /\ cur \in StateType
  BY TodoType DEF TypeInv, PictureOK
<1>2. ASSUME cur' = cur, NEW s, NEW f PROVE Shown(s, f)' = Shown(s, f)
  BY <1>2 DEF Shown, FileShown
<1>3. CASE pc[t] = "hydrating"
  <2>1. cur' = cur /\ doubt' = doubt
    BY <1>3 DEF Raise
  <2>2. QED
    BY <1>2, <1>3, <2>1 DEF Busy, Unsure
<1>4. CASE pc[t] = "waiting" /\ op.kind = "state"
  <2>1. cur' = cur
    BY <1>1, <1>4, ReadSaves DEF Raise
  <2>2. doubt' = doubt
    BY <1>4 DEF Raise, DoubtAfter, TrimKinds, MasterKinds
  <2>3. \A s \in Slots, f \in Fields : ~Busy(t, s, f)
    BY <1>4 DEF Busy, Changes, Changers, FilterKinds, TrimKinds
  <2>4. QED
    BY <1>2, <2>1, <2>2, <2>3 DEF Unsure
<1>5. CASE pc[t] = "waiting" /\ op.kind # "state"
  <2>1. cur' = Raised(cur, op) /\ hydrated
    BY <1>5 DEF Raise, ShownInv, Commanding
  <2>2. doubt \subseteq doubt' /\ (op.kind \in TrimKinds => op.slot \in doubt')
    BY <1>5 DEF Raise, DoubtAfter
  <2>3. ASSUME NEW s \in Slots, NEW f \in Fields
        PROVE  Shown(s, f)' = IF f = "filter" /\ Busy(t, s, f) THEN ERROR ELSE Shown(s, f)
    <3>1. Shown(s, f) = Pictured(cur, s, f) /\ Shown(s, f)' = Pictured(cur', s, f)
      BY <2>1 DEF Shown, Pictured
    <3>2. Busy(t, s, f) <=> Changes(op, s, f)
      BY <1>5 DEF Busy
    <3>3. QED
      BY <1>1, <2>1, <3>1, <3>2, PicturedRaised
  <2>4. QED
    BY <2>2, <2>3 DEF Unsure, Busy, Changes, Changers, Fields
<1>6. QED
  BY <1>3, <1>4, <1>5

LEMMA CompleteShows ==
  ASSUME TypeInv, ShownInv, NEW t \in Threads, Complete(t)
  PROVE  \A s \in Slots, f \in Fields :
           IF Busy(t, s, f) THEN Shown(s, f)' = Meant(Head(todo[t]), f)
           ELSE Shown(s, f)' = Shown(s, f) /\ (Unsure(s, f) => Unsure(s, f)')
<1> DEFINE op == Head(todo[t])
<1>1. op \in Op /\ cur \in StateType /\ pc[t] = "waiting" /\ hydrated
  BY TodoType DEF TypeInv, PictureOK, Complete, ShownInv, Commanding
<1>2. cur' = Applied(cur, op, seen[t]) /\ hydrated' = hydrated
  BY DEF Complete
<1>3. \A s \in Slots, f \in Fields : Busy(t, s, f) <=> Changes(op, s, f)
  BY <1>1 DEF Busy
<1>4. \A s, f : Shown(s, f) = Pictured(cur, s, f) /\ Shown(s, f)' = Pictured(cur', s, f)
  BY <1>1, <1>2 DEF Shown, Pictured
<1>5. \A s \in Slots, f \in Fields :
        Shown(s, f)' = IF Busy(t, s, f) THEN Meant(op, f) ELSE Shown(s, f)
  BY <1>1, <1>2, <1>3, <1>4, PicturedApplied
<1>6. ASSUME NEW s \in Slots, s \in doubt, ~Busy(t, s, "trim") PROVE s \in doubt'
  <2>1. doubt \ {op.slot} \subseteq doubt'
        /\ (op.kind \notin TrimKinds \cup {"state"} => doubt \subseteq doubt')
    BY DEF Complete, DoubtAfter
  <2>2. op.kind \in TrimKinds => op.slot # s
    BY <1>1, <1>6 DEF Busy, Changes, Changers
  <2>3. op.kind = "state" => op.slot # s
    BY <1>1, OpShape, MinidspAssumption
  <2>4. QED
    BY <1>6, <2>1, <2>2, <2>3
<1>7. ASSUME NEW s \in Slots, NEW f \in Fields, ~Busy(t, s, f)
      PROVE  Shown(s, f)' = Shown(s, f) /\ (Unsure(s, f) => Unsure(s, f)')
  BY <1>5, <1>6, <1>7 DEF Unsure, Fields
<1>8. QED
  BY <1>5, <1>7

-----------------------------------------------------------------------------
(* The cache file follows what is shown.                                   *)

LEMMA ShownKept ==
  ASSUME ShownInv, UNCHANGED <<hydrated, file>>, "file" \in crossed => "file" \in crossed',
         \A u \in Threads : Saving(u) => Saving(u)' /\ Head(todo'[u]).slot = Head(todo[u]).slot,
         \A s \in Slots \ Unsaved', f \in Fields : Pictured(cur', s, f) = Pictured(cur, s, f),
         \A u \in Threads : Commanding(u)' => hydrated'
  PROVE  ShownInv'
<1>1. Unsaved \subseteq Unsaved'
  BY DEF Unsaved
<1>2. \A s, f : FileShown(s, f)' = FileShown(s, f)
  BY DEF FileShown
<1>3. ASSUME hydrated', NEW s \in Slots \ Unsaved', NEW f \in Fields
      PROVE  FileShown(s, f)' = Pictured(cur, s, f)'
  BY <1>1, <1>2, <1>3 DEF ShownInv, Pictured
<1>4. QED
  BY <1>3 DEF ShownInv

\* A thread that records the outcome of op and begins to save it.
LEMMA ShownStartSave ==
  ASSUME TypeInv, ShownInv, NEW t \in Threads, NEW op, NEW ops \in {todo[t], <<op>>},
         op = Head(todo[t]), ~Saving(t), hydrated, StartSave(t, ops), UNCHANGED <<hydrated, file>>,
         \A s \in Slots, f \in Fields :
           op.slot # s => Pictured(cur', s, f) = Pictured(cur, s, f)
  PROVE  ShownInv'
<1>1. /\ pc \in [Threads -> {"idle", "start", "hydrating", "waiting", "dump", "replace"}]
      /\ todo \in [Threads -> Seq(Op)] /\ crossed \subseteq crossed'
  BY DEF TypeInv, ThreadsOK, StartSave
<1>2. Head(ops) = op /\ todo'[t] = ops /\ pc'[t] = "dump"
  BY <1>1 DEF StartSave
<1>3. \A u \in Threads : u # t => todo'[u] = todo[u] /\ pc'[u] = pc[u]
  BY <1>1 DEF StartSave
<1>4. Saving(t)' /\ \A u \in Threads : u # t => (Saving(u)' <=> Saving(u))
  BY <1>2, <1>3 DEF Saving
<1>5. \A s \in Slots : op.slot = s => s \in Unsaved'
  BY <1>2, <1>4 DEF Unsaved
<1>6. \A u \in Threads : Saving(u) => Saving(u)' /\ Head(todo'[u]).slot = Head(todo[u]).slot
  BY <1>3, <1>4
<1>7. \A u \in Threads : Commanding(u)' => hydrated'
  OBVIOUS
<1>8. QED
  BY <1>1, <1>5, <1>6, <1>7, ShownKept

LEMMA ShownThreadStep ==
  ASSUME TypeInv, SavedInv, ShownInv, NEW t \in Threads, ThreadStep(t)
  PROVE  ShownInv'
<1> DEFINE op == Head(todo[t])
<1>0. /\ pc \in [Threads -> {"idle", "start", "hydrating", "waiting", "dump", "replace"}]
      /\ todo \in [Threads -> Seq(Op)]
      /\ cur \in StateType /\ crossed \subseteq Threads \cup {"file"} /\ "file" \notin Threads
      /\ pc[t] # "idle" => op \in Op
  BY TodoType, MinidspAssumption DEF TypeInv, ThreadsOK, PictureOK
<1>1. ASSUME Advance(t) \/ Abort(t), ~Saving(t), UNCHANGED <<hydrated, file, saveVars>>,
             \A s \in Slots, f \in Fields : Pictured(cur', s, f) = Pictured(cur, s, f)
      PROVE  ShownInv'
  <2>1. \A u \in Threads : u # t => todo'[u] = todo[u] /\ pc'[u] = pc[u]
    BY <1>0, <1>1 DEF Advance, Abort
  <2>2. pc'[t] \in {"idle", "start"}
    BY <1>0, <1>1 DEF Advance, Abort
  <2>3. QED
    BY <1>1, <2>1, <2>2, ShownKept DEF saveVars, Saving, ShownInv, Commanding
<1>2. CASE StartHydrate(t) \/ Submit(t)
  <2>1. \A u \in Threads : u # t => pc'[u] = pc[u]
    BY <1>0, <1>2 DEF StartHydrate, Submit
  <2>2. /\ pc[t] = "start" /\ pc'[t] \in {"hydrating", "waiting"}
        /\ pc'[t] = "waiting" => hydrated
    BY <1>0, <1>2 DEF StartHydrate, Submit
  <2>3. UNCHANGED <<todo, hydrated, cur, file, crossed>>
    BY <1>2 DEF StartHydrate, Submit, stateVars, saveVars
  <2>4. QED
    BY <2>1, <2>2, <2>3, ShownKept DEF Saving, ShownInv, Commanding
<1>3. CASE Hydrate(t)
  <2>1. seen[t] \in Status /\ cur' = Merged(Fresh(seen[t]), file) /\ file' = file /\ hydrated'
    BY <1>3 DEF Hydrate, TypeInv, ThreadsOK
  <2>2. \A s \in Slots, f \in Fields : FileShown(s, f)' = Pictured(cur, s, f)'
    BY <2>1, ShownAfterMerge DEF FileShown, Pictured
  <2>3. QED
    BY <2>1, <2>2 DEF ShownInv, Commanding
<1>4. CASE Reject(t)
  <2>1. cur' = cur
    BY <1>4 DEF Reject, stateVars
  <2>2. QED
    BY <1>4, <2>1, ShownStartSave DEF Reject, Saving, stateVars
<1>5. CASE HandleMessage(t)
  <2>1. op \in Op /\ cur' = Applied(cur, op, seen[t])
    BY <1>0, <1>5 DEF HandleMessage
  <2>2. \A s \in Slots, f \in Fields : ~Changes(op, s, f)
    BY <1>5 DEF HandleMessage, Changes, Changers, FilterKinds, TrimKinds
  <2>3. \A s \in Slots, f \in Fields : Pictured(cur', s, f) = Pictured(cur, s, f)
    BY <1>0, <2>1, <2>2, PicturedApplied
  <2>4. QED
    BY <1>5, <2>3, ShownStartSave DEF HandleMessage, Saving
<1>6. CASE Complete(t)
  <2>1. op \in Op /\ cur' = Applied(cur, op, seen[t])
    BY <1>0, <1>6 DEF Complete
  <2>2. \A s \in Slots, f \in Fields :
          ~Changes(op, s, f) => Pictured(cur', s, f) = Pictured(cur, s, f)
    BY <1>0, <2>1, PicturedApplied
  <2>3. CASE op.kind = "state"
    <3>1. \A s, f : f \in Fields => ~Changes(op, s, f)
      BY <2>3 DEF Changes, Changers, FilterKinds, TrimKinds
    <3>2. QED
      BY <1>1, <1>6, <2>2, <2>3, <3>1 DEF Complete, Saving
  <2>4. CASE op.kind # "state"
    <3>1. \A s, f : op.slot # s => ~Changes(op, s, f)
      BY DEF Changes
    <3>2. hydrated /\ ~Saving(t) /\ StartSave(t, todo[t]) /\ UNCHANGED <<hydrated, file>>
      BY <1>6, <2>4 DEF Complete, Saving, ShownInv, Commanding
    <3>3. \A s \in Slots, f \in Fields :
            op.slot # s => Pictured(cur', s, f) = Pictured(cur, s, f)
      BY <2>2, <3>1
    <3>4. QED
      BY <3>2, <3>3, ShownStartSave
  <2>5. QED
    BY <2>3, <2>4
<1>7. ASSUME Raise(t), pc[t] \in {"hydrating", "waiting"}, UNCHANGED <<hydrated, file>>
      PROVE  ShownInv'
  <2>1. op \in Op
    BY <1>0, <1>7
  <2>2. CASE pc[t] = "waiting" /\ op.kind # "state"
    <3>1. cur' = Raised(cur, op) /\ StartSave(t, <<op>>)
      BY <1>7, <2>2 DEF Raise
    <3>2. \A s \in Slots, f \in Fields :
            op.slot # s => Pictured(cur', s, f) = Pictured(cur, s, f)
      BY <1>0, <2>1, <3>1, PicturedRaised DEF Changes
    <3>3. QED
      BY <1>7, <2>2, <3>1, <3>2, ShownStartSave DEF Saving, ShownInv, Commanding
  <2>3. CASE ~(pc[t] = "waiting" /\ op.kind # "state")
    <3>1. cur' = cur
      BY <1>0, <1>7, <2>1, <2>3, ReadSaves DEF Raise
    <3>2. QED
      BY <1>1, <1>7, <2>3, <3>1 DEF Raise, Saving
  <2>4. QED
    BY <2>2, <2>3
<1>8. CASE Fail(t) \/ Timeout(t)
  BY <1>7, <1>8 DEF Fail, Timeout
<1>9. CASE Dump(t)
  <2>1. \A u \in Threads : u # t => pc'[u] = pc[u]
    BY <1>0, <1>9 DEF Dump
  <2>2. pc[t] = "dump" /\ pc'[t] = "replace"
    BY <1>0, <1>9 DEF Dump
  <2>3. UNCHANGED <<todo, hydrated, cur, file>> /\ ("file" \in crossed => "file" \in crossed')
    BY <1>0, <1>9 DEF Dump, stateVars
  <2>4. QED
    BY <2>1, <2>2, <2>3, ShownKept DEF Saving, ShownInv, Commanding
<1>10. CASE Replace(t)
  <2>1. \A u \in Threads : u # t => pc'[u] = pc[u]
    BY <1>0, <1>10 DEF Replace, Advance, Abort
  <2>2. pc'[t] \in {"idle", "start"} /\ UNCHANGED <<hydrated, cur>>
    BY <1>0, <1>10 DEF Replace, Advance, Abort
  <2>3. \A u \in Threads : Commanding(u)' => hydrated'
    BY <2>1, <2>2 DEF ShownInv, Commanding
  <2>4. CASE t \in crossed
    <3>1. "file" \in crossed'
      BY <1>10, <2>4 DEF Replace
    <3>2. \A s \in Slots : s \in Unsaved'
      BY <3>1 DEF Unsaved
    <3>3. QED
      BY <2>3, <3>2 DEF ShownInv
  <2>5. CASE t \notin crossed
    <3>1. file' = Saved(cur)
      BY <1>10, <2>5 DEF Replace, SavedInv
    <3>2. \A s, f : FileShown(s, f)' = Pictured(cur, s, f)'
      BY <1>0, <2>2, <3>1, PicturedSaved DEF FileShown, Pictured
    <3>3. QED
      BY <2>3, <3>2 DEF ShownInv
  <2>6. QED
    BY <2>4, <2>5
<1>11. QED
  BY <1>2, <1>3, <1>4, <1>5, <1>6, <1>8, <1>9, <1>10 DEF ThreadStep

LEMMA ShownStep == TypeInv /\ SavedInv /\ ShownInv /\ [Next]_vars => ShownInv'
<1> SUFFICES ASSUME TypeInv, SavedInv, ShownInv, [Next]_vars PROVE ShownInv'
  OBVIOUS
<1>0. ASSUME UNCHANGED <<pc, todo, stateVars, saveVars>> PROVE ShownInv'
  BY <1>0, ShownKept DEF stateVars, saveVars, Saving, ShownInv, Commanding
<1>1. ASSUME NEW t \in Threads, Request(t) \/ Notify(t) PROVE ShownInv'
  <2>1. PICK ops : Arrive(t, ops)
    BY <1>1 DEF Request, Notify
  <2>2. \A u \in Threads : u # t => pc'[u] = pc[u] /\ todo'[u] = todo[u]
    BY <2>1 DEF Arrive, TypeInv, ThreadsOK
  <2>3. pc[t] = "idle" /\ pc'[t] = "start" /\ UNCHANGED <<hydrated, cur, file, crossed>>
    BY <2>1 DEF Arrive, TypeInv, ThreadsOK, stateVars, saveVars
  <2>4. QED
    BY <2>2, <2>3, ShownKept DEF Saving, ShownInv, Commanding
<1>2. ASSUME NEW t \in Threads, ThreadStep(t) PROVE ShownInv'
  BY <1>2, ShownThreadStep
<1>3. CASE ReadStatus \/ FindSlot \/ FindSlotAgain \/ ChangeSlot \/ Run \/ RunFails
  BY <1>0, <1>3 DEF ReadStatus, FindSlot, FindSlotAgain, ReadSlot, ChangeSlot, Run, RunFails,
     threadVars
<1>4. CASE RemotePreset \/ RemoteVolume \/ RemoteMute
  BY <1>0, <1>4 DEF RemotePreset, RemoteVolume, RemoteMute, Remote, threadVars
<1>5. CASE Restart
  BY <1>5 DEF Restart, ShownInv, Commanding
<1>6. CASE UNCHANGED vars
  BY <1>0, <1>6 DEF vars, threadVars
<1>7. QED
  BY <1>1, <1>2, <1>3, <1>4, <1>5, <1>6 DEF Next

-----------------------------------------------------------------------------
(* Every step keeps the invariant of the slots.                            *)

LEMMA UsersKept ==
  ASSUME NEW s, OneUser(s),
         \A t \in Threads : s \in SlotsOf(todo'[t]) => s \in SlotsOf(todo[t])
  PROVE  OneUser(s)'
BY DEF OneUser, SlotsOf

\* A thread goes on to its next operation, drops them all, or begins to save.
GoesOn(t) ==
  Advance(t) \/ Abort(t) \/ StartSave(t, todo[t]) \/ StartSave(t, <<Head(todo[t])>>)

\* It has no slot then that it did not have before.
LEMMA FewerSlots ==
  ASSUME TypeInv, NEW t \in Threads, pc[t] # "idle", GoesOn(t)
  PROVE  \A s, u : u \in Threads /\ s \in SlotsOf(todo'[u]) => s \in SlotsOf(todo[u])
<1>1. todo[t] \in Seq(Op) /\ todo[t] # <<>> /\ todo \in [Threads -> Seq(Op)]
  BY TodoType DEF TypeInv, ThreadsOK
<1>2. /\ Tail(todo[t]) \in Seq(Op) /\ Len(Tail(todo[t])) = Len(todo[t]) - 1
      /\ \A i \in 1..Len(Tail(todo[t])) : Tail(todo[t])[i] = todo[t][i + 1]
  BY <1>1, HeadTailProperties
<1>3. \A i \in DOMAIN Tail(todo[t]) :
        i + 1 \in DOMAIN todo[t] /\ Tail(todo[t])[i] = todo[t][i + 1]
  BY <1>1, <1>2
<1>4. SlotsOf(Tail(todo[t])) \subseteq SlotsOf(todo[t]) /\ SlotsOf(<<>>) = {}
  BY <1>3 DEF SlotsOf
<1>5. SlotsOf(<<Head(todo[t])>>) \subseteq SlotsOf(todo[t])
  <2>1. 1 \in DOMAIN todo[t] /\ Head(todo[t]) = todo[t][1]
    BY <1>1
  <2>2. QED
    BY <2>1 DEF SlotsOf
<1>6. \A u \in Threads : todo'[u] \in {todo[u], Tail(todo[t]), <<>>, <<Head(todo[t])>>}
                          /\ (u # t => todo'[u] = todo[u])
  BY <1>1 DEF GoesOn, Advance, Abort, StartSave
<1>7. QED
  BY <1>4, <1>5, <1>6

\* A thread that is not busy with any field, and hands in no job for one.
LEMMA SlotsAside ==
  ASSUME TypeInv, SlotsInv, NEW t \in Threads, OnlyThread(t),
         UNCHANGED <<dsp, queue>>, tainted \subseteq tainted',
         pc[t] # "waiting", pc'[t] # "waiting",
         \A s \in Slots \ tainted' : OneUser(s)',
         \A s \in Slots \ tainted', f \in Fields :
           Shown(s, f)' = Shown(s, f) /\ (Unsure(s, f) => Unsure(s, f)')
  PROVE  SlotsInv'
<1>1. ASSUME NEW s \in Slots \ tainted', NEW f \in Fields PROVE FieldOK(s, f)'
  <2>1. s \in Slots /\ FieldOK(s, f)
    BY <1>1 DEF SlotsInv
  <2>2. ~Busy(t, s, f) /\ ~Busy(t, s, f)'
    BY DEF Busy
  <2>3. Len(queue') = Len(queue) /\ Len(queue) \in Nat
    BY JobType
  <2>4. QED
    BY <2>1, <2>2, <2>3, FieldAside
<1>2. QED
  BY <1>1 DEF SlotsInv

LEMMA SlotsArrive ==
  ASSUME TypeInv, SlotsInv, NEW t \in Threads, NEW ops, Arrive(t, ops)
  PROVE  SlotsInv'
<1>1. OnlyThread(t) /\ pc[t] = "idle" /\ pc'[t] = "start"
  BY DEF Arrive, OnlyThread, TypeInv, ThreadsOK
<1>2. ASSUME NEW s \in Slots \ tainted' PROVE OneUser(s)'
  <2>1. s \notin tainted /\ ~(s \in SlotsOf(ops) /\ InFlight(s))
    BY <1>2 DEF Arrive
  <2>2. \A u \in Threads : todo'[u] = IF u = t THEN ops ELSE todo[u]
    BY DEF Arrive, TypeInv, ThreadsOK
  <2>3. QED
    BY <2>1, <2>2 DEF OneUser, InFlight, SlotsInv, SlotsOf
<1>3. QED
  BY <1>1, <1>2, SlotsAside DEF Arrive, stateVars, Shown, FileShown, Unsure

\* A job joins the queue: the read of the state, or what a request asks for.
LEMMA SlotsEnqueue ==
  ASSUME TypeInv, JobsInv, SlotsInv, NEW t \in Threads, pc[t] = "start",
         NEW op \in Op, queue' = Append(queue, [by |-> t, op |-> op]),
         \/ pc' = [pc EXCEPT ![t] = "hydrating"] /\ op = StateOp
         \/ pc' = [pc EXCEPT ![t] = "waiting"] /\ op = Head(todo[t]) /\ hydrated,
         fut' = [fut EXCEPT ![t] = "pending"],
         UNCHANGED <<dsp, todo, stateVars, historyVars>>
  PROVE  SlotsInv'
<1> DEFINE job == [by |-> t, op |-> op]
<1>1. OnlyThread(t) /\ fut'[t] = "pending" /\ pc'[t] \in {"hydrating", "waiting"}
  BY DEF OnlyThread, TypeInv, ThreadsOK
<1>3. job \in Job /\ job.by = t /\ job.op = op
  BY DEF Job
<1>4. /\ Len(queue') = Len(queue) + 1 /\ Len(queue) \in Nat
      /\ \A i \in 1..Len(queue) : queue'[i] = queue[i]
      /\ queue'[Len(queue')] = job
  BY <1>3, AddedJob
<1>5. ASSUME NEW s \in Slots \ tainted', NEW f \in Fields
      PROVE  OneUser(s)' /\ FieldOK(s, f)'
  <2>1. s \in Slots /\ OneUser(s) /\ FieldOK(s, f)
    BY <1>5 DEF SlotsInv, historyVars
  <2>2. OneUser(s)'
    BY <2>1, UsersKept
  <2>3. CASE Busy(t, s, f)'
    <3>1. ASSUME NEW u \in Threads, Busy(u, s, f)' PROVE s \in SlotsOf(todo'[u])
      <4>1. pc[u] # "idle" /\ todo' = todo
        BY <3>1 DEF Busy, TypeInv, ThreadsOK
      <4>2. todo[u] \in Seq(Op) /\ todo[u] # <<>>
        BY <4>1, TodoType
      <4>3. 1 \in DOMAIN todo[u] /\ Head(todo[u]) = todo[u][1]
        BY <4>2
      <4>4. Head(todo[u]).slot = s
        BY <3>1, <4>1 DEF Busy, Changes
      <4>5. QED
        BY <4>1, <4>3, <4>4 DEF SlotsOf
    <3>2. QED
      BY <1>1, <1>3, <2>1, <2>2, <2>3, <3>1, FieldSubmit
  <2>4. CASE ~Busy(t, s, f)'
    <3>1. ~Changes(op, s, f)
      <4>1. CASE op = StateOp
        BY <4>1 DEF StateOp, Changes, Changers, FilterKinds, TrimKinds
      <4>2. CASE pc'[t] = "waiting" /\ op = Head(todo[t])
        BY <2>4, <4>2 DEF Busy
      <4>3. QED
        BY <4>1, <4>2 DEF TypeInv, ThreadsOK
    <3>2. ~Busy(t, s, f)
      BY DEF Busy
    <3>3. Len(queue') \in Nat /\ Len(queue') >= Len(queue)
      BY <1>4
    <3>4. ASSUME NEW i \in 1..Len(queue'), Changes(queue'[i].op, s, f)
          PROVE  i \in 1..Len(queue) /\ Changes(queue[i].op, s, f)
      <4>1. i # Len(queue')
        BY <1>3, <1>4, <3>1, <3>4
      <4>2. QED
        BY <1>4, <3>4, <4>1
    <3>5. Shown(s, f)' = Shown(s, f) /\ (Unsure(s, f) => Unsure(s, f)')
      BY DEF stateVars, historyVars, Shown, FileShown, Unsure
    <3>6. \A i \in 1..Len(queue) : queue[i].by # t => queue'[i].by = queue[i].by
      BY <1>4
    <3>7. dsp' = dsp /\ OnlyThread(t)
      BY <1>1
    <3>8. QED
      BY <2>1, <2>2, <2>4, <3>2, <3>3, <3>4, <3>5, <3>6, <3>7, FieldAside
  <2>5. QED
    BY <2>2, <2>3, <2>4
<1>6. QED
  BY <1>5 DEF SlotsInv, Fields

\* A caller records the outcome of its job.
LEMMA SlotsOutcome ==
  ASSUME TypeInv, SlotsInv, NEW t \in Threads, OnlyThread(t),
         pc[t] # "idle", pc'[t] # "waiting", GoesOn(t),
         UNCHANGED <<dsp, tainted>>,
         UNCHANGED queue \/ queue' = Orphaned(t),
         \A s \in Slots, f \in Fields :
           IF Busy(t, s, f)
           THEN \/ Unsure(s, f)'
                \/ /\ fut[t] = "ok" /\ Shown(s, f)' = Meant(Head(todo[t]), f)
                   /\ UNCHANGED queue
           ELSE Shown(s, f)' = Shown(s, f) /\ (Unsure(s, f) => Unsure(s, f)')
  PROVE  SlotsInv'
<1>1. ASSUME NEW s \in Slots \ tainted' PROVE OneUser(s)'
  BY <1>1, FewerSlots, UsersKept DEF SlotsInv
<1>2. /\ Len(queue') = Len(queue) /\ Len(queue) \in Nat
      /\ \A i \in 1..Len(queue) :
           /\ queue'[i].op = queue[i].op
           /\ queue[i].by # t => queue'[i].by = queue[i].by
  BY JobType, AbandonedJob
<1>3. ASSUME NEW s \in Slots \ tainted', NEW f \in Fields PROVE FieldOK(s, f)'
  <2>1. s \in Slots /\ OneUser(s) /\ FieldOK(s, f)
    BY <1>3 DEF SlotsInv
  <2>2. CASE Busy(t, s, f)
    BY <2>1, <2>2, FieldSettle, UserIsBusy
  <2>3. CASE ~Busy(t, s, f)
    <3>1. ~Busy(t, s, f)'
      BY DEF Busy
    <3>2. QED
      BY <1>2, <2>1, <2>3, <3>1, FieldAside
  <2>4. QED
    BY <2>2, <2>3
<1>4. QED
  BY <1>1, <1>3 DEF SlotsInv

LEMMA SlotsThreadStep ==
  ASSUME TypeInv, JobsInv, SavedInv, ShownInv, SlotsInv, NEW t \in Threads, ThreadStep(t)
  PROVE  SlotsInv'
<1>0. /\ pc \in [Threads -> {"idle", "start", "hydrating", "waiting", "dump", "replace"}]
      /\ todo \in [Threads -> Seq(Op)]
      /\ fut \in [Threads -> {"none", "pending", "ok", "failed"}]
  BY DEF TypeInv, ThreadsOK
<1>1. CASE StartHydrate(t)
  BY <1>1, StateOpType, SlotsEnqueue DEF StartHydrate
<1>2. CASE Submit(t)
  <2>1. Head(todo[t]) \in Op
    BY <1>2, TodoType DEF Submit
  <2>2. QED
    BY <1>2, <2>1, SlotsEnqueue DEF Submit
<1>3. ASSUME GoesOn(t), fut' = fut \/ fut' = [fut EXCEPT ![t] = "none"]
      PROVE  OnlyThread(t) /\ pc'[t] # "waiting"
  BY <1>0, <1>3 DEF GoesOn, Advance, Abort, StartSave, OnlyThread
<1>4. ASSUME NEW s, pc[t] # "idle", OneUser(s), GoesOn(t) \/ todo' = todo
      PROVE  OneUser(s)'
  BY <1>4, FewerSlots, UsersKept
<1>5. CASE Hydrate(t)
  <2>1. OnlyThread(t) /\ pc'[t] # "waiting" /\ pc[t] = "hydrating"
    BY <1>0, <1>3, <1>5 DEF Hydrate, OnlyThread, GoesOn
  <2>2. /\ file' = file /\ seen[t] \in Status
        /\ cur' = Merged(Fresh(seen[t]), file) /\ hydrated'
    BY <1>5 DEF Hydrate, TypeInv, ThreadsOK
  <2>3. \A s \in Slots \ tainted' : s \notin Unsaved
    BY <1>5 DEF Hydrate
  <2>4. ASSUME NEW s \in Slots \ tainted', NEW f \in Fields PROVE Shown(s, f)' = Shown(s, f)
    <3>1. Shown(s, f)' = FileShown(s, f)
      BY <2>2, ShownAfterMerge DEF Shown, Pictured
    <3>2. Shown(s, f) = FileShown(s, f)
      BY <2>3 DEF ShownInv, Shown
    <3>3. QED
      BY <3>1, <3>2
  <2>5. \A s \in Slots : s \in doubt => s \in doubt'
    BY <1>5, MinidspAssumption DEF Hydrate
  <2>6. \A s \in Slots \ tainted', f \in Fields : Unsure(s, f) => Unsure(s, f)'
    BY <2>4, <2>5 DEF Unsure
  <2>7. \A s \in Slots \ tainted' : OneUser(s)'
    BY <1>4, <1>5, <2>1 DEF Hydrate, GoesOn, SlotsInv
  <2>8. QED
    BY <1>5, <2>1, <2>4, <2>6, <2>7, SlotsAside DEF Hydrate
<1>6. CASE Reject(t) \/ HandleMessage(t)
  <2> DEFINE op == Head(todo[t])
  <2>1. OnlyThread(t) /\ pc'[t] # "waiting" /\ pc[t] = "start" /\ GoesOn(t)
    BY <1>3, <1>6 DEF Reject, HandleMessage, GoesOn
  <2>2. hydrated /\ hydrated' = hydrated /\ doubt' = doubt
    BY <1>6 DEF Reject, HandleMessage, historyVars, stateVars
  <2>3. op \in Op /\ cur \in StateType
    BY <2>1, TodoType DEF TypeInv, PictureOK
  <2>4. \A s \in Slots, f \in Fields : Pictured(cur', s, f) = Pictured(cur, s, f)
    <3>1. CASE Reject(t)
      BY <3>1 DEF Reject, stateVars
    <3>2. CASE HandleMessage(t)
      <4>1. \A s \in Slots, f \in Fields : ~Changes(op, s, f)
        BY <3>2 DEF HandleMessage, Changes, Changers, FilterKinds, TrimKinds
      <4>2. QED
        BY <2>3, <3>2, <4>1, PicturedApplied DEF HandleMessage
    <3>3. QED
      BY <1>6, <3>1, <3>2
  <2>5. \A s \in Slots, f \in Fields : Shown(s, f)' = Shown(s, f)
    BY <2>2, <2>4 DEF Shown, Pictured
  <2>6. \A s \in Slots, f \in Fields : Unsure(s, f) => Unsure(s, f)'
    BY <2>2, <2>5 DEF Unsure
  <2>7. \A s \in Slots \ tainted' : OneUser(s)'
    BY <1>4, <1>6, <2>1 DEF Reject, HandleMessage, historyVars, SlotsInv
  <2>8. QED
    BY <1>6, <2>1, <2>5, <2>6, <2>7, SlotsAside
    DEF Reject, HandleMessage, historyVars
<1>7. CASE Complete(t)
  <2>1. GoesOn(t) /\ pc[t] = "waiting"
    BY <1>7 DEF Complete, GoesOn
  <2>2. OnlyThread(t) /\ pc'[t] # "waiting"
    BY <1>3, <1>7, <2>1 DEF Complete
  <2>3. QED
    BY <1>7, <2>1, <2>2, CompleteShows, SlotsOutcome DEF Complete
<1>8. CASE Fail(t) \/ Timeout(t)
  <2>1. pc[t] \in {"hydrating", "waiting"} /\ Raise(t) /\ GoesOn(t)
    BY <1>8 DEF Fail, Timeout, Raise, GoesOn
  <2>2. OnlyThread(t) /\ pc'[t] # "waiting"
    BY <1>3, <2>1 DEF Raise
  <2>3. UNCHANGED <<dsp, tainted, hydrated, file>> /\ (UNCHANGED queue \/ queue' = Orphaned(t))
    BY <1>8 DEF Fail, Timeout
  <2>4. QED
    BY <2>1, <2>2, <2>3, RaiseShows, SlotsOutcome
<1>9. CASE Dump(t) \/ Replace(t)
  <2>1. OnlyThread(t) /\ pc'[t] # "waiting" /\ pc[t] \in {"dump", "replace"}
    BY <1>0, <1>9 DEF Dump, Replace, Advance, Abort, OnlyThread
  <2>2. UNCHANGED <<hydrated, cur, dsp, queue, tainted, doubt>>
    BY <1>9 DEF Dump, Replace, stateVars, historyVars
  <2>3. ASSUME NEW s \in Slots, NEW f \in Fields PROVE Shown(s, f)' = Shown(s, f)
    <3>1. CASE hydrated
      BY <2>2, <3>1 DEF Shown, Pictured
    <3>2. QED
      BY <2>1, <3>1 DEF ShownInv, Commanding
  <2>4. \A s \in Slots, f \in Fields : Unsure(s, f) => Unsure(s, f)'
    BY <2>2, <2>3 DEF Unsure
  <2>5. \A s \in Slots \ tainted' : OneUser(s)'
    BY <1>4, <1>9, <2>1, <2>2 DEF Dump, Replace, GoesOn, SlotsInv
  <2>6. QED
    BY <2>1, <2>2, <2>3, <2>4, <2>5, SlotsAside
<1>10. QED
  BY <1>1, <1>2, <1>5, <1>6, <1>7, <1>8, <1>9 DEF ThreadStep

\* Steps that leave threads and picture alone.
LEMMA SlotsOfOthers ==
  ASSUME SlotsInv, UNCHANGED todo, tainted \subseteq tainted',
         \A s \in Slots \ tainted', f \in Fields : FieldOK(s, f) => FieldOK(s, f)'
  PROVE  SlotsInv'
<1>1. \A s \in Slots \ tainted' : OneUser(s)'
  BY UsersKept DEF SlotsInv
<1>2. QED
  BY <1>1 DEF SlotsInv

LEMMA SlotsWorkerStep ==
  ASSUME TypeInv, JobsInv, SlotsInv,
         ReadStatus \/ FindSlot \/ FindSlotAgain \/ ChangeSlot \/ Run \/ RunFails
  PROVE  SlotsInv'
<1>1. CASE ReadStatus
  <2>1. ASSUME NEW s \in Slots, NEW f \in Fields, FieldOK(s, f) PROVE FieldOK(s, f)'
    <3>1. ~Changes(Running, s, f)
      BY <1>1 DEF ReadStatus, Changes, Changers, FilterKinds, TrimKinds
    <3>2. QED
      BY <1>1, <2>1, <3>1, FieldFinish DEF ReadStatus, stateVars, historyVars
  <2>2. QED
    BY <1>1, <2>1, SlotsOfOthers DEF ReadStatus, historyVars
<1>2. ASSUME stage \in {"select", "skip"}
      PROVE  \A s, f : Held([dsp EXCEPT !.preset = Running.slot], s, f) = Held(dsp, s, f)
  BY DEF Held, TypeInv, WorkerOK, DspType
<1>3. CASE FindSlot \/ FindSlotAgain \/ ChangeSlot
  <2>1. \A s, f : Held(dsp', s, f) = Held(dsp, s, f)
    BY <1>2, <1>3 DEF FindSlot, FindSlotAgain, ReadSlot, ChangeSlot
  <2>2. UNCHANGED <<queue, threadVars, stateVars, historyVars>>
    BY <1>3 DEF FindSlot, FindSlotAgain, ReadSlot, ChangeSlot
  <2>3. \A s \in Slots, f \in Fields : FieldOK(s, f) => FieldOK(s, f)'
    BY <2>1, <2>2, FieldSame DEF threadVars, stateVars, historyVars, Unsure, Shown, FileShown
  <2>4. QED
    BY <2>2, <2>3, SlotsOfOthers DEF threadVars, historyVars
<1>4. ASSUME CanRun, NEW s \in Slots, NEW f \in Fields, s \notin Stray(Running, Target)
      PROVE  /\ queue # <<>> /\ Running \in Op /\ Target \in Slots /\ dsp \in DspType
             /\ Changes(Running, s, f) <=> Running.kind \in Changers(f) /\ s = Target
  <2>1. queue # <<>> /\ Running \in Op /\ Target \in Slots /\ dsp \in DspType
    BY <1>4, QueueType DEF CanRun, TypeInv, WorkerOK
  <2>2. Running.kind \in Changers(f) => Running.slot # NoSlot
    BY <2>1, ChangersHaveSlots, MinidspAssumption
  <2>3. QED
    BY <1>4, <2>1, <2>2 DEF Stray, Changes
<1>5. CASE Run
  <2>1. ASSUME NEW s \in Slots \ tainted', NEW f \in Fields, FieldOK(s, f)
        PROVE  FieldOK(s, f)'
    <3>1. /\ queue # <<>> /\ Running \in Op /\ Target \in Slots /\ dsp \in DspType
          /\ Changes(Running, s, f) <=> Running.kind \in Changers(f) /\ s = Target
      BY <1>4, <1>5, <2>1 DEF Run
    <3>2. Held(dsp', s, f) = IF Changes(Running, s, f) THEN Meant(Running, f)
                             ELSE Held(dsp, s, f)
      BY <1>5, <2>1, <3>1, HeldWritten DEF Run
    <3>3. QED
      BY <1>5, <2>1, <3>1, <3>2, FieldFinish DEF Run, stateVars
  <2>2. QED
    BY <1>5, <2>1, SlotsOfOthers DEF Run
<1>6. CASE RunFails
  <2>1. ASSUME NEW s \in Slots \ tainted', NEW f \in Fields, FieldOK(s, f)
        PROVE  FieldOK(s, f)'
    <3>1. queue # <<>> /\ (~Changes(Running, s, f) => Held(dsp', s, f) = Held(dsp, s, f))
      <4>1. CASE stage \in {"select", "skip"}
                 /\ dsp' \in {dsp, [dsp EXCEPT !.preset = Running.slot]}
        BY <1>2, <4>1 DEF TypeInv, WorkerOK
      <4>2. CASE CanRun /\ dsp' \in Interrupted(dsp, Running, Target)
                 /\ tainted' = tainted \cup Stray(Running, Target)
        BY <1>4, <2>1, <4>2, HeldInterrupted
      <4>3. QED
        BY <1>6, <4>1, <4>2 DEF RunFails
    <3>2. QED
      BY <1>6, <2>1, <3>1, FieldFinish DEF RunFails, stateVars
  <2>2. tainted \subseteq tainted'
    BY <1>6 DEF RunFails
  <2>3. QED
    BY <1>6, <2>1, <2>2, SlotsOfOthers DEF RunFails
<1>7. QED
  BY <1>1, <1>3, <1>5, <1>6

LEMMA SlotsRemote ==
  ASSUME TypeInv, SlotsInv, RemotePreset \/ RemoteVolume \/ RemoteMute
  PROVE  SlotsInv'
<1>0. \A x : /\ \A s, f : Held([dsp EXCEPT !.preset = x], s, f) = Held(dsp, s, f)
             /\ \A s, f : Held([dsp EXCEPT !.mv = x], s, f) = Held(dsp, s, f)
             /\ \A s, f : Held([dsp EXCEPT !.mute = x], s, f) = Held(dsp, s, f)
  BY DEF Held, TypeInv, WorkerOK, DspType
<1>1. PICK d : Remote(d) /\ \A s, f : Held(d, s, f) = Held(dsp, s, f)
  <2>1. CASE RemotePreset
    BY <1>0, <2>1 DEF RemotePreset
  <2>2. CASE RemoteVolume
    BY <1>0, <2>2 DEF RemoteVolume
  <2>3. CASE RemoteMute
    BY <1>0, <2>3 DEF RemoteMute
  <2>4. QED
    BY <2>1, <2>2, <2>3
<1>2. /\ dsp' = d /\ UNCHANGED <<queue, threadVars, stateVars>>
      /\ tainted \subseteq tainted' /\ doubt \subseteq doubt'
  BY <1>1 DEF Remote
<1>3. \A s \in Slots, f \in Fields : FieldOK(s, f) => FieldOK(s, f)'
  BY <1>1, <1>2, FieldSame DEF threadVars, stateVars, Unsure, Shown, FileShown
<1>4. QED
  BY <1>2, <1>3, SlotsOfOthers DEF threadVars

LEMMA SlotsRestart ==
  ASSUME TypeInv, ShownInv, SlotsInv, Restart PROVE SlotsInv'
<1>1. \A t \in Threads : pc'[t] = "idle" /\ todo'[t] = <<>>
  BY DEF Restart
<1>2. ASSUME NEW s \in Slots \ tainted' PROVE OneUser(s)'
  BY <1>1 DEF OneUser, SlotsOf
<1>3. ASSUME NEW s \in Slots \ tainted', NEW f \in Fields PROVE FieldOK(s, f)'
  <2>1. \A t \in Threads : ~Busy(t, s, f) /\ ~Busy(t, s, f)'
    <3>1. \A t \in Threads : s \notin SlotsOf(todo[t])
      BY <1>3 DEF Restart
    <3>2. QED
      BY <1>1, <3>1, UserIsBusy DEF Busy
  <2>2. FieldOK(s, f)
    BY <1>3 DEF Restart, SlotsInv
  <2>3. Shown(s, f)' = Shown(s, f) /\ (Unsure(s, f)' <=> Unsure(s, f))
        /\ Held(dsp, s, f)' = Held(dsp, s, f)
    <3>1. s \notin Unsaved
      BY <1>3 DEF Restart
    <3>2. Shown(s, f)' = FileShown(s, f)
      BY DEF Restart, Shown, FileShown
    <3>3. QED
      BY <3>1, <3>2 DEF Restart, ShownInv, Shown, Unsure, Held
  <2>4. NoneQueued(s, f)'
    BY DEF Restart, NoneQueued
  <2>5. QED
    BY <2>1, <2>2, <2>3, <2>4 DEF FieldOK
<1>4. QED
  BY <1>2, <1>3 DEF SlotsInv

\* What the steps of the slots rest on.
Basis == TypeInv /\ JobsInv /\ SavedInv /\ ShownInv

LEMMA BasisInit == Init => Basis
<1>1. Init => SavedInv
  BY DEF Init, SavedInv, SavedIsShown
<1>2. Init => ShownInv
  BY DEF Init, ShownInv, Commanding
<1>3. QED
  BY <1>1, <1>2, InitTypeInv, JobsInit DEF Basis

LEMMA BasisStep == Basis /\ [Next]_vars => Basis'
BY NextTypeInv, JobsStep, NextSaved, ShownStep DEF Basis

LEMMA SlotsStep == Basis /\ SlotsInv /\ [Next]_vars => SlotsInv'
<1> SUFFICES ASSUME Basis, SlotsInv, [Next]_vars PROVE SlotsInv'
  OBVIOUS
<1> USE DEF Basis
<1>2. ASSUME NEW t \in Threads, Request(t) \/ Notify(t) PROVE SlotsInv'
  BY <1>2, SlotsArrive DEF Request, Notify
<1>3. ASSUME NEW t \in Threads, ThreadStep(t) PROVE SlotsInv'
  BY <1>3, SlotsThreadStep
<1>4. CASE ReadStatus \/ FindSlot \/ FindSlotAgain \/ ChangeSlot \/ Run \/ RunFails
  BY <1>4, SlotsWorkerStep
<1>5. CASE RemotePreset \/ RemoteVolume \/ RemoteMute
  BY <1>5, SlotsRemote
<1>6. CASE Restart
  BY <1>6, SlotsRestart
<1>7. CASE UNCHANGED vars
  <2>1. \A s \in Slots, f \in Fields : FieldOK(s, f) => FieldOK(s, f)'
    BY <1>7, FieldSame DEF vars, threadVars, stateVars, historyVars, Unsure, Shown, FileShown
  <2>2. QED
    BY <1>7, <2>1, SlotsOfOthers DEF vars, threadVars, historyVars
<1>8. QED
  BY <1>2, <1>3, <1>4, <1>5, <1>6, <1>7 DEF Next

LEMMA SlotsInit == Init => SlotsInv
<1> SUFFICES ASSUME Init PROVE SlotsInv
  OBVIOUS
<1>2. \A s \in Slots : OneUser(s)
  BY DEF Init, OneUser, SlotsOf
<1>3. ASSUME NEW s \in Slots, NEW f \in Fields PROVE FieldOK(s, f)
  <2>1. Held(dsp, s, f) = Shown(s, f)
    BY DEF Init, Held, Shown, FileShown
  <2>2. NoneQueued(s, f) /\ \A t \in Threads : ~Busy(t, s, f)
    BY DEF Init, NoneQueued, Busy
  <2>3. QED
    BY <2>1, <2>2 DEF FieldOK
<1>4. QED
  BY <1>2, <1>3 DEF SlotsInv

\* What the invariant says of a slot nobody is using.
LEMMA RestingSlot ==
  ASSUME TypeInv, SlotsInv, NEW s \in Slots \ tainted, NEW f \in Fields,
         hydrated, ~InFlight(s), ~Unsure(s, f)
  PROVE  Held(dsp, s, f) = Pictured(cur, s, f)
<1>1. \A t \in Threads : ~Busy(t, s, f)
  BY UserIsBusy DEF InFlight
<1>2. QED
  BY <1>1 DEF SlotsInv, Shown, FieldOK

LEMMA TitlesAreLoaded == TypeInv /\ SlotsInv => TitleMeansLoaded
<1> SUFFICES ASSUME TypeInv, SlotsInv, NEW s \in Slots \ tainted,
                    hydrated, ~InFlight(s), cur.last[s] # ERROR
             PROVE  dsp.filter[s] = cur.last[s]
  BY DEF TitleMeansLoaded
<1>1. "filter" \in Fields /\ Pictured(cur, s, "filter") = cur.last[s]
  BY DEF Fields, Pictured
<1>2. Shown(s, "filter") = cur.last[s]
  BY <1>1 DEF Shown
<1>3. Held(dsp, s, "filter") = Pictured(cur, s, "filter")
  BY <1>1, <1>2, RestingSlot DEF Unsure
<1>4. QED
  BY <1>1, <1>3 DEF Held

LEMMA TrimsAreSet == TypeInv /\ SlotsInv => TrimsMatch
<1> SUFFICES ASSUME TypeInv, SlotsInv, NEW s \in Slots \ (tainted \cup doubt),
                    hydrated, ~InFlight(s)
             PROVE  dsp.trim[s] = cur.trim[s]
  BY DEF TrimsMatch
<1>1. "trim" \in Fields
  BY DEF Fields
<1>2. Held(dsp, s, "trim") = Pictured(cur, s, "trim")
  BY <1>1, RestingSlot DEF Unsure
<1>3. QED
  BY <1>2 DEF Held, Pictured

\* A title shown for a slot is the filter the DSP holds in that slot, unless
\* the slot shows ERROR: jobs that outlive their caller, failures at any line
\* of a command file, restarts and reads of the state do not change that.  The
\* only exceptions are the histories in tainted.
THEOREM TitlesAreTrue == Spec => []TitleMeansLoaded
<1>1. Basis => TypeInv
  BY DEF Basis
<1>2. QED
  BY <1>1, BasisInit, BasisStep, SlotsInit, SlotsStep, TitlesAreLoaded, PTL DEF Spec

\* The same of the gains and mutes shown for a slot, unless the last change to
\* them failed: no abandoned job changes them after a later one succeeded.
THEOREM TrimsAreTrue == Spec => []TrimsMatch
<1>1. Basis => TypeInv
  BY DEF Basis
<1>2. QED
  BY <1>1, BasisInit, BasisStep, SlotsInit, SlotsStep, TrimsAreSet, PTL DEF Spec

-----------------------------------------------------------------------------
(* The master volume and mute.                                             *)

\* The operations that change the master.
Commands(op) == op.kind \in MasterKinds

NoCommands == \A i \in 1..Len(queue) : ~Commands(queue[i].op)

\* A picture or a reading has the master of the DSP.
Agrees(st) == st.mv = dsp.mv /\ st.mute = dsp.mute

\* The DSP has what op makes of the picture.
Done(op) ==
  IF op.kind = "volume"
  THEN dsp.mv = op.arg /\ dsp.mute = cur.mute
  ELSE dsp.mv = cur.mv /\ dsp.mute = (op.kind = "mute")

\* Thread t waits for a job that concerns the master.
Asks(t) == pc[t] = "waiting" /\ Head(todo[t]).slot = NoSlot

OpsOf(ops) == {ops[i] : i \in DOMAIN ops}

\* What the jobs of all but thread t have read stays as it is.
OthersSeen(t) == \A u \in Threads \ {t} : seen'[u] = seen[u]

\* Until it is hydrated the device has handed in reads of its state only.
ColdInv ==
  ~hydrated => \A i \in 1..Len(queue) : queue[i].op.kind = "state"

\* Who finds the device unhydrated is alone, and hydrates it.
AloneInv ==
  /\ ~hydrated => \A t, u \in Threads : pc[t] # "idle" /\ pc[u] # "idle" => t = u
  /\ \A t \in Threads : pc[t] = "hydrating" => ~hydrated

\* While nobody asks, the picture is right and no command is left.
RestInv ==
  hydrated /\ NoSlot \notin doubt /\ (\A t \in Threads : ~Asks(t)) =>
    Agrees(cur) /\ NoCommands

\* Somebody who asks has handed in the last job about the master, and the only
\* command if there is no doubt.  Once it is done the picture lacks just that.
AskInv(t) ==
  Asks(t) =>
    LET op == Head(todo[t])
    IN  /\ op.kind = "state" => fut[t] # "failed"
        /\ fut[t] = "ok" /\ op.kind = "state" /\ seen[t].connected =>
             Agrees(seen[t]) /\ NoCommands
        /\ fut[t] = "ok" /\ op.kind # "state" /\ NoSlot \notin doubt =>
             Done(op) /\ NoCommands
        /\ fut[t] = "pending" =>
             \A i \in 1..Len(queue) : Commands(queue[i].op) =>
               \E j \in i..Len(queue) : queue[j].by = t
        /\ fut[t] = "pending" /\ NoSlot \notin doubt =>
             /\ Agrees(cur)
             /\ \A i \in 1..Len(queue) : Commands(queue[i].op) => queue[i].by = t

\* What was read to hydrate the device is still so.
ReadInv ==
  \A t \in Threads :
    pc[t] = "hydrating" /\ fut[t] = "ok" /\ seen[t].connected => Agrees(seen[t])

\* So is what a message says that was not handled yet.
MessageInv ==
  ~hydrated \/ NoSlot \notin doubt =>
    \A t \in Threads : \A op \in OpsOf(todo[t]) :
      op.kind = "ws" => op.arg.mv = dsp.mv

MasterOK ==
  /\ OneUser(NoSlot) /\ AloneInv /\ RestInv
  /\ \A t \in Threads : AskInv(t)
  /\ ReadInv /\ MessageInv

\* A message is all there is to do for its thread, and needs no job.
MessagesAlone ==
  \A t \in Threads :
    /\ \A op \in OpsOf(todo[t]) : op.kind = "ws" => todo[t] = <<op>>
    /\ pc[t] = "waiting" => Head(todo[t]).kind # "ws"

MasterInv == ColdInv /\ MessagesAlone /\ (NoSlot \notin tainted => MasterOK)

-----------------------------------------------------------------------------
(* Lemmas.                                                                 *)

LEMMA CommandShape ==
  ASSUME NEW op \in Op
  PROVE  /\ Commands(op) => op.slot = NoSlot
         /\ op.slot = NoSlot => op.kind \in {"volume", "mute", "unmute", "state", "ws"}
         /\ op.kind \in {"state", "ws"} => op.slot = NoSlot /\ ~Commands(op)
BY OpShape, MinidspAssumption DEF Commands, MasterKinds, Kinds

LEMMA AskerIsUser ==
  ASSUME TypeInv, NEW t \in Threads, pc[t] # "idle"
  PROVE  Head(todo[t]) \in OpsOf(todo[t]) /\ Head(todo[t]).slot \in SlotsOf(todo[t])
<1>1. todo[t] \in Seq(Op) /\ todo[t] # <<>>
  BY TodoType
<1>2. 1 \in DOMAIN todo[t] /\ Head(todo[t]) = todo[t][1]
  BY <1>1
<1>3. QED
  BY <1>2 DEF SlotsOf, OpsOf

LEMMA FewerOps ==
  ASSUME TypeInv, NEW t \in Threads, pc[t] # "idle", GoesOn(t) \/ UNCHANGED todo
  PROVE  \A u \in Threads : /\ OpsOf(todo'[u]) \subseteq OpsOf(todo[u])
                            /\ SlotsOf(todo'[u]) \subseteq SlotsOf(todo[u])
<1>1. todo[t] \in Seq(Op) /\ todo[t] # <<>> /\ todo \in [Threads -> Seq(Op)]
  BY TodoType DEF TypeInv, ThreadsOK
<1>2. /\ Tail(todo[t]) \in Seq(Op) /\ Len(Tail(todo[t])) = Len(todo[t]) - 1
      /\ \A i \in 1..Len(Tail(todo[t])) : Tail(todo[t])[i] = todo[t][i + 1]
  BY <1>1, HeadTailProperties
<1>3. \A i \in DOMAIN Tail(todo[t]) :
        i + 1 \in DOMAIN todo[t] /\ Tail(todo[t])[i] = todo[t][i + 1]
  BY <1>1, <1>2
<1>4. OpsOf(Tail(todo[t])) \subseteq OpsOf(todo[t]) /\ OpsOf(<<>>) = {}
  BY <1>3 DEF OpsOf
<1>5. OpsOf(<<Head(todo[t])>>) \subseteq OpsOf(todo[t])
  BY AskerIsUser DEF OpsOf
<1>6. \A u \in Threads : todo'[u] \in {todo[u], Tail(todo[t]), <<>>, <<Head(todo[t])>>}
                          /\ (u # t => todo'[u] = todo[u])
  BY <1>1 DEF GoesOn, Advance, Abort, StartSave
<1>7. \A u \in Threads : OpsOf(todo'[u]) \subseteq OpsOf(todo[u])
  BY <1>4, <1>5, <1>6
<1>8. \A ops : SlotsOf(ops) = {op.slot : op \in OpsOf(ops)}
  BY DEF SlotsOf, OpsOf
<1>9. QED
  BY <1>7, <1>8

-----------------------------------------------------------------------------
(* The kinds of step.                                                      *)

\* A thread that does not ask, before or after, and hands in no command.
LEMMA MasterAside ==
  ASSUME TypeInv, MasterOK, NEW t \in Threads, OnlyThread(t), ~Asks(t), ~Asks(t)',
         UNCHANGED <<dsp, hydrated>>, OthersSeen(t),
         cur'.mv = cur.mv, cur'.mute = cur.mute,
         NoSlot \in doubt => NoSlot \in doubt',
         Len(queue') \in Nat, Len(queue') >= Len(queue),
         \A i \in 1..Len(queue') : Commands(queue'[i].op) =>
           i \in 1..Len(queue) /\ Commands(queue[i].op),
         \A i \in 1..Len(queue) : queue[i].by # t => queue'[i].by = queue[i].by
  PROVE  RestInv' /\ \A u \in Threads : AskInv(u)'
<1>1. \A u \in Threads : u # t => (Asks(u)' <=> Asks(u))
  BY DEF Asks, OnlyThread
<1>2. NoCommands => NoCommands'
  BY DEF NoCommands
<1>3. Agrees(cur) => Agrees(cur)'
  BY DEF Agrees
<1>4. RestInv'
  BY <1>1, <1>2, <1>3 DEF MasterOK, RestInv
<1>5. ASSUME NEW u \in Threads, Asks(u)' PROVE AskInv(u)'
  <2> DEFINE op == Head(todo[u])
  <2>1. /\ u # t /\ Asks(u) /\ AskInv(u)
        /\ fut'[u] = fut[u] /\ todo'[u] = todo[u] /\ seen'[u] = seen[u]
    BY <1>1, <1>5 DEF OnlyThread, OthersSeen, MasterOK
  <2>2. Agrees(seen[u]) => Agrees(seen[u])'
    BY <2>1 DEF Agrees
  <2>3. Done(op) => Done(op)'
    BY <2>1 DEF Done
  <2>4. ASSUME fut[u] = "pending", NEW i \in 1..Len(queue'), Commands(queue'[i].op)
        PROVE  \E j \in i..Len(queue') : queue'[j].by = u
    <3>1. i \in 1..Len(queue) /\ Commands(queue[i].op)
      BY <2>4
    <3>2. PICK j \in i..Len(queue) : queue[j].by = u
      BY <2>1, <2>4, <3>1 DEF AskInv
    <3>3. j \in 1..Len(queue) /\ j \in i..Len(queue')
      BY <3>1, <3>2, JobType
    <3>4. QED
      BY <2>1, <3>2, <3>3
  <2>5. ASSUME fut[u] = "pending", NoSlot \notin doubt',
               NEW i \in 1..Len(queue'), Commands(queue'[i].op)
        PROVE  queue'[i].by = u
    BY <2>1, <2>5 DEF AskInv
  <2>6. QED
    BY <1>2, <1>3, <2>1, <2>2, <2>3, <2>4, <2>5 DEF AskInv
<1>6. \A u \in Threads : AskInv(u)'
  BY <1>5 DEF AskInv
<1>7. QED
  BY <1>4, <1>6

\* The rest of the invariant, for a step of a busy thread.
LEMMA OthersAside ==
  ASSUME TypeInv, MasterOK, NEW t \in Threads, pc[t] # "idle", OnlyThread(t),
         UNCHANGED dsp, OthersSeen(t), hydrated => hydrated',
         GoesOn(t) \/ UNCHANGED todo,
         pc'[t] = "hydrating" => ~hydrated' /\ fut'[t] # "ok",
         hydrated' # hydrated => pc[t] = "hydrating",
         hydrated' = hydrated /\ NoSlot \in doubt => NoSlot \in doubt'
  PROVE  OneUser(NoSlot)' /\ AloneInv' /\ ReadInv' /\ MessageInv'
<1>1. OneUser(NoSlot)'
  BY FewerOps, UsersKept DEF MasterOK
<1>2. AloneInv'
  <2>1. \A u \in Threads : pc'[u] # "idle" => pc[u] # "idle"
    BY DEF OnlyThread
  <2>2. \A u \in Threads : u # t /\ pc[u] = "hydrating" => ~hydrated /\ hydrated' = hydrated
    BY DEF MasterOK, AloneInv
  <2>3. QED
    BY <2>1, <2>2 DEF MasterOK, AloneInv, OnlyThread
<1>3. ReadInv'
  BY DEF MasterOK, ReadInv, OnlyThread, OthersSeen, Agrees
<1>4. MessageInv'
  <2>1. ~hydrated' \/ NoSlot \notin doubt' => ~hydrated \/ NoSlot \notin doubt
    BY DEF MasterOK, AloneInv
  <2>2. QED
    BY <2>1, FewerOps DEF MasterOK, MessageInv
<1>5. QED
  BY <1>1, <1>2, <1>3, <1>4

\* A request or message arrives.
LEMMA MasterArrive ==
  ASSUME TypeInv, MasterInv, NEW t \in Threads, NEW ops, Arrive(t, ops),
         \A op \in OpsOf(ops) : op.kind = "ws" => op.arg.mv = dsp.mv /\ ops = <<op>>
  PROVE  MasterInv'
<1>1. OnlyThread(t) /\ pc[t] = "idle" /\ pc'[t] = "start"
  BY DEF Arrive, OnlyThread, TypeInv, ThreadsOK
<1>2. ColdInv'
  BY DEF Arrive, stateVars, MasterInv, ColdInv
<1>3. ASSUME NoSlot \notin tainted' PROVE MasterOK'
  <2>1. /\ MasterOK /\ ~(NoSlot \in SlotsOf(ops) /\ InFlight(NoSlot))
        /\ ~hydrated => \A u \in Threads : pc[u] = "idle"
    BY <1>3 DEF Arrive, MasterInv
  <2>2. \A u \in Threads : todo'[u] = IF u = t THEN ops ELSE todo[u]
    BY DEF Arrive, TypeInv, ThreadsOK
  <2>3. OneUser(NoSlot)'
    BY <2>1, <2>2 DEF OneUser, InFlight, MasterOK, SlotsOf
  <2>4. AloneInv'
    BY <1>1, <2>1 DEF Arrive, stateVars, MasterOK, AloneInv, OnlyThread
  <2>5. RestInv' /\ \A u \in Threads : AskInv(u)'
    <3>1. ~Asks(t) /\ ~Asks(t)' /\ Len(queue) \in Nat
      BY <1>1, JobType DEF Asks
    <3>2. QED
      BY <1>1, <2>1, <3>1, MasterAside DEF Arrive, stateVars, OthersSeen
  <2>6. ReadInv'
    BY <1>1, <2>1 DEF Arrive, MasterOK, ReadInv, OnlyThread, Agrees
  <2>7. MessageInv'
    BY <2>1, <2>2 DEF Arrive, stateVars, MasterOK, MessageInv, OpsOf
  <2>8. QED
    BY <2>3, <2>4, <2>5, <2>6, <2>7 DEF MasterOK
<1>4. MessagesAlone'
  <2>1. \A u \in Threads : todo'[u] = IF u = t THEN ops ELSE todo[u]
    BY DEF Arrive, TypeInv, ThreadsOK
  <2>2. QED
    BY <1>1, <2>1 DEF MasterInv, MessagesAlone, OnlyThread
<1>5. QED
  BY <1>2, <1>3, <1>4 DEF MasterInv

\* A step of a busy thread that does not ask: both lemmas in one.
LEMMA MasterThread ==
  ASSUME TypeInv, MasterOK, NEW t \in Threads, pc[t] # "idle", OnlyThread(t),
         ~Asks(t), ~Asks(t)', UNCHANGED <<dsp, hydrated>>, OthersSeen(t),
         cur'.mv = cur.mv, cur'.mute = cur.mute,
         NoSlot \in doubt => NoSlot \in doubt',
         GoesOn(t) \/ UNCHANGED todo,
         pc'[t] = "hydrating" => ~hydrated /\ fut'[t] # "ok",
         Len(queue') \in Nat, Len(queue') >= Len(queue),
         \A i \in 1..Len(queue') : Commands(queue'[i].op) =>
           i \in 1..Len(queue) /\ Commands(queue[i].op),
         \A i \in 1..Len(queue) : queue[i].by # t => queue'[i].by = queue[i].by
  PROVE  MasterOK'
<1>1. RestInv' /\ \A u \in Threads : AskInv(u)'
  BY MasterAside
<1>2. OneUser(NoSlot)' /\ AloneInv' /\ ReadInv' /\ MessageInv'
  BY OthersAside
<1>3. QED
  BY <1>1, <1>2 DEF MasterOK

\* The pictures that leave the master alone.
LEMMA MasterApplied ==
  ASSUME NEW st \in StateType, NEW op \in Op, NEW status
  PROVE  /\ op.slot # NoSlot => /\ Applied(st, op, status).mv = st.mv
                                /\ Applied(st, op, status).mute = st.mute
         /\ Raised(st, op).mv = st.mv /\ Raised(st, op).mute = st.mute
         /\ op.kind = "ws" => /\ Applied(st, op, status).mv = op.arg.mv
                              /\ Applied(st, op, status).mute = st.mute
<1> USE OpShape
<1>1. /\ load(st, op).mv = st.mv /\ load(st, op).mute = st.mute
      /\ clear(st, op).mv = st.mv /\ clear(st, op).mute = st.mute
      /\ error(st, op).mv = st.mv /\ error(st, op).mute = st.mute
      /\ gain(st, op).mv = st.mv /\ gain(st, op).mute = st.mute
      /\ \A s : activate(st, s).mv = st.mv /\ activate(st, s).mute = st.mute
  BY DEF load, clear, error, gain, activate, StateType
<1>2. Raised(st, op).mv = st.mv /\ Raised(st, op).mute = st.mute
  BY <1>1 DEF Raised
<1>3. CASE op.slot # NoSlot
  BY <1>1, <1>2, <1>3 DEF Applied
<1>4. CASE op.kind = "ws"
  BY <1>2, <1>4, MinidspAssumption DEF Applied, on_ws_message, activate, StateType
<1>5. QED
  BY <1>2, <1>3, <1>4

\* A job joins the queue.
LEMMA MasterEnqueue ==
  ASSUME TypeInv, MasterOK, NEW t \in Threads, pc[t] = "start",
         NEW op \in Op, queue' = Append(queue, [by |-> t, op |-> op]),
         \/ pc' = [pc EXCEPT ![t] = "hydrating"] /\ op = StateOp /\ ~hydrated
         \/ pc' = [pc EXCEPT ![t] = "waiting"] /\ op = Head(todo[t]) /\ hydrated
            /\ op.kind # "ws",
         fut' = [fut EXCEPT ![t] = "pending"],
         UNCHANGED <<dsp, todo, seen, stateVars, historyVars>>
  PROVE  MasterOK'
<1> DEFINE job == [by |-> t, op |-> op]
<1>1. OnlyThread(t) /\ fut'[t] = "pending" /\ pc'[t] \in {"hydrating", "waiting"}
  BY DEF OnlyThread, TypeInv, ThreadsOK
<1>2. job \in Job /\ job.by = t /\ job.op = op
  BY DEF Job
<1>3. /\ Len(queue') = Len(queue) + 1 /\ Len(queue) \in Nat
      /\ \A i \in 1..Len(queue) : queue'[i] = queue[i]
      /\ queue'[Len(queue')] = job
  BY <1>2, AddedJob
<1>4. Len(queue') \in Nat /\ Len(queue') >= Len(queue)
      /\ \A i \in 1..Len(queue) : queue[i].by # t => queue'[i].by = queue[i].by
  BY <1>3
<1>5. ~Asks(t)
  BY DEF Asks
<1>6. pc'[t] = "hydrating" => ~hydrated
  BY DEF TypeInv, ThreadsOK
<1>7. UNCHANGED <<cur, hydrated, doubt>> /\ OthersSeen(t)
  BY DEF stateVars, historyVars, OthersSeen
<1>8. CASE ~Asks(t)'
  <2>1. ~Commands(op)
    <3>1. CASE op = StateOp
      BY <3>1 DEF StateOp, Commands, MasterKinds
    <3>2. CASE pc'[t] = "waiting" /\ op = Head(todo[t])
      BY <1>8, <3>2, CommandShape DEF Asks
    <3>3. QED
      BY <3>1, <3>2 DEF TypeInv, ThreadsOK
  <2>2. ASSUME NEW i \in 1..Len(queue'), Commands(queue'[i].op)
        PROVE  i \in 1..Len(queue) /\ Commands(queue[i].op)
    <3>1. i # Len(queue')
      BY <1>2, <1>3, <2>1, <2>2
    <3>2. QED
      BY <1>3, <2>2, <3>1
  <2>3. QED
    BY <1>1, <1>4, <1>5, <1>6, <1>7, <1>8, <2>2, MasterThread
<1>9. CASE Asks(t)'
  <2>1. /\ pc'[t] = "waiting" /\ op = Head(todo[t]) /\ op.slot = NoSlot
        /\ hydrated /\ NoSlot \in SlotsOf(todo[t])
    BY <1>9, AskerIsUser DEF Asks, TypeInv, ThreadsOK
  <2>2. OneUser(NoSlot)' /\ AloneInv' /\ ReadInv' /\ MessageInv'
    BY <1>1, <1>6, <1>7, OthersAside
  <2>3. \A u \in Threads : Asks(u) => NoSlot \in SlotsOf(todo[u])
    BY AskerIsUser DEF Asks
  <2>4. \A u \in Threads : u # t => ~Asks(u) /\ ~Asks(u)'
    BY <1>1, <2>1, <2>3 DEF MasterOK, OneUser, Asks, OnlyThread
  <2>5. NoSlot \notin doubt => Agrees(cur) /\ NoCommands
    BY <1>5, <2>1, <2>4 DEF MasterOK, RestInv
  <2>6. RestInv'
    BY <1>9 DEF RestInv
  <2>7. \A i \in 1..Len(queue') : Len(queue') \in i..Len(queue')
    BY <1>4
  <2>8. NoSlot \notin doubt =>
          \A i \in 1..Len(queue') : Commands(queue'[i].op) => queue'[i].by = t
    <3>1. \A i \in 1..Len(queue') : i \in 1..Len(queue) \/ i = Len(queue')
      BY <1>3
    <3>2. QED
      BY <1>2, <1>3, <2>5, <3>1 DEF NoCommands
  <2>9. AskInv(t)'
    BY <1>1, <1>2, <1>3, <1>7, <2>5, <2>7, <2>8 DEF AskInv, Agrees
  <2>10. \A u \in Threads : AskInv(u)'
    BY <2>4, <2>9 DEF AskInv
  <2>11. QED
    BY <2>2, <2>6, <2>10 DEF MasterOK
<1>10. QED
  BY <1>8, <1>9

\* The state is read and the device hydrated.
LEMMA MasterHydrate ==
  ASSUME TypeInv, ColdInv, MasterOK, NEW t \in Threads, Hydrate(t)
  PROVE  MasterOK'
<1>1. /\ pc[t] = "hydrating" /\ fut[t] = "ok" /\ ~hydrated /\ hydrated'
      /\ UNCHANGED <<dsp, queue>>
      /\ GoesOn(t) \/ UNCHANGED todo
      /\ fut' = [fut EXCEPT ![t] = "none"]
  BY DEF Hydrate, GoesOn, MasterOK, AloneInv
<1>2. OnlyThread(t) /\ OthersSeen(t) /\ pc'[t] \in {"idle", "start"}
  BY DEF Hydrate, Used, Advance, OnlyThread, OthersSeen, TypeInv, ThreadsOK
<1>3. OneUser(NoSlot)' /\ AloneInv' /\ ReadInv' /\ MessageInv'
  BY <1>1, <1>2, OthersAside
<1>4. \A u \in Threads : pc'[u] # "waiting"
  BY <1>1, <1>2 DEF MasterOK, AloneInv, OnlyThread
<1>5. NoCommands'
  BY <1>1 DEF ColdInv, NoCommands, Commands, MasterKinds
<1>6. cur'.mv = seen[t].mv /\ cur'.mute = seen[t].mute
  <2>1. Fresh(seen[t]) \in StateType
    BY FreshType DEF TypeInv, ThreadsOK
  <2>2. Fresh(seen[t]).mv = seen[t].mv /\ Fresh(seen[t]).mute = seen[t].mute
    BY DEF Fresh
  <2>3. QED
    BY <2>1, <2>2 DEF Hydrate, Merged, StateType
<1>7. NoSlot \notin doubt' => seen[t].connected
  BY DEF Hydrate
<1>8. RestInv'
  BY <1>1, <1>5, <1>6, <1>7 DEF RestInv, MasterOK, ReadInv, Agrees
<1>9. \A u \in Threads : AskInv(u)'
  BY <1>4 DEF AskInv, Asks
<1>10. QED
  BY <1>3, <1>8, <1>9 DEF MasterOK

\* A message is handled.
LEMMA MasterMessage ==
  ASSUME TypeInv, MasterOK, NEW t \in Threads, HandleMessage(t)
  PROVE  MasterOK'
<1> DEFINE op == Head(todo[t])
<1>1. /\ pc[t] = "start" /\ hydrated /\ hydrated' /\ op.kind = "ws"
      /\ UNCHANGED <<dsp, queue, seen, fut, hydrated, doubt>> /\ StartSave(t, todo[t])
  BY DEF HandleMessage, historyVars
<1>2. OnlyThread(t) /\ OthersSeen(t) /\ GoesOn(t) /\ pc'[t] = "dump"
  BY <1>1 DEF StartSave, GoesOn, OnlyThread, OthersSeen, TypeInv, ThreadsOK
<1>3. OneUser(NoSlot)' /\ AloneInv' /\ ReadInv' /\ MessageInv'
  BY <1>1, <1>2, OthersAside
<1>4. op \in Op /\ cur \in StateType /\ op \in OpsOf(todo[t]) /\ NoSlot \in SlotsOf(todo[t])
  BY <1>1, TodoType, AskerIsUser, CommandShape DEF TypeInv, PictureOK
<1>5. \A u \in Threads : ~Asks(u) /\ ~Asks(u)'
  BY <1>1, <1>2, <1>4, AskerIsUser DEF MasterOK, OneUser, Asks, OnlyThread
<1>6. cur'.mv = op.arg.mv /\ cur'.mute = cur.mute
  BY <1>4, <1>1, MasterApplied DEF HandleMessage
<1>7. NoSlot \notin doubt => Agrees(cur) /\ NoCommands /\ op.arg.mv = dsp.mv
  BY <1>1, <1>4, <1>5 DEF MasterOK, RestInv, MessageInv
<1>8. RestInv'
  BY <1>1, <1>6, <1>7 DEF RestInv, Agrees, NoCommands
<1>9. \A u \in Threads : AskInv(u)'
  BY <1>5 DEF AskInv
<1>10. QED
  BY <1>3, <1>8, <1>9 DEF MasterOK

\* A caller that asked records the answer, or that there is none.
LEMMA MasterOutcome ==
  ASSUME TypeInv, MasterOK, MessagesAlone, hydrated, NEW t \in Threads, Asks(t), OnlyThread(t),
         pc'[t] \in Working, GoesOn(t), UNCHANGED <<dsp, hydrated>>, OthersSeen(t),
         NoSlot \notin doubt' => Agrees(cur)' /\ NoCommands'
  PROVE  MasterOK'
<1>1. pc[t] = "waiting" /\ NoSlot \in SlotsOf(todo[t])
      /\ pc'[t] \notin {"hydrating", "waiting"}
  BY AskerIsUser DEF Asks, Working
<1>2. \A u \in Threads : ~Asks(u)'
  BY <1>1, AskerIsUser DEF MasterOK, OneUser, Asks, OnlyThread
<1>3. OneUser(NoSlot)'
  BY <1>1, FewerOps, UsersKept DEF MasterOK
<1>4. AloneInv'
  BY <1>1 DEF MasterOK, AloneInv, OnlyThread
<1>5. ReadInv'
  BY <1>1 DEF MasterOK, ReadInv, OnlyThread, OthersSeen, Agrees
<1>6. RestInv' /\ \A u \in Threads : AskInv(u)'
  BY <1>2 DEF RestInv, AskInv
<1>7. ASSUME NEW u \in Threads, NEW op \in OpsOf(todo'[u]) PROVE op.kind # "ws"
  <2>1. op \in OpsOf(todo[u])
    BY <1>1, <1>7, FewerOps
  <2>2. CASE op.kind = "ws"
    <3>1. todo[u] = <<op>> /\ op = Head(todo[u]) /\ op \in Op
      BY <2>1, <2>2 DEF MessagesAlone, OpsOf, TypeInv, ThreadsOK
    <3>2. NoSlot \in SlotsOf(todo[u])
      BY <2>1, <2>2, <3>1, CommandShape DEF SlotsOf, OpsOf
    <3>3. u = t
      BY <1>1, <3>2 DEF MasterOK, OneUser
    <3>4. QED
      BY <1>1, <2>2, <3>1, <3>3 DEF MessagesAlone
  <2>3. QED
    BY <2>2
<1>8. MessageInv'
  BY <1>7 DEF MessageInv
<1>9. QED
  BY <1>3, <1>4, <1>5, <1>6, <1>8 DEF MasterOK

LEMMA CompleteAgrees ==
  ASSUME TypeInv, MasterOK, MessagesAlone, NEW t \in Threads, Asks(t), Complete(t),
         NoSlot \notin doubt'
  PROVE  Agrees(cur)' /\ NoCommands'
<1> DEFINE op == Head(todo[t])
<1>1. /\ op \in Op /\ op.slot = NoSlot /\ cur \in StateType
      /\ op.kind \in {"volume", "mute", "unmute", "state"} /\ fut[t] = "ok"
  BY TodoType, CommandShape DEF Asks, MessagesAlone, Complete, TypeInv, PictureOK
<1>2. /\ cur' = Applied(cur, op, seen[t]) /\ UNCHANGED <<dsp, queue>>
      /\ doubt' = DoubtAfter(op, TRUE, seen[t])
  BY DEF Complete
<1>3. CASE op.kind = "state"
  <2>1. seen[t].connected
    BY <1>1, <1>2, <1>3 DEF DoubtAfter, TrimKinds, MasterKinds
  <2>2. Agrees(seen[t]) /\ NoCommands
    BY <1>1, <1>3, <2>1 DEF MasterOK, AskInv
  <2>3. cur'.mv = seen[t].mv /\ cur'.mute = seen[t].mute
    BY <1>1, <1>2, <1>3 DEF Applied, update_master_state, StateType
  <2>4. QED
    BY <1>2, <2>2, <2>3 DEF Agrees, NoCommands
<1>4. CASE op.kind \in {"volume", "mute", "unmute"}
  <2>1. NoSlot \notin doubt
    BY <1>2, <1>4 DEF DoubtAfter, TrimKinds, MasterKinds
  <2>2. Done(op) /\ NoCommands
    BY <1>1, <1>4, <2>1 DEF MasterOK, AskInv
  <2>3. /\ cur'.mv = IF op.kind = "volume" THEN op.arg ELSE cur.mv
        /\ cur'.mute = IF op.kind = "volume" THEN cur.mute ELSE (op.kind = "mute")
    BY <1>1, <1>2, <1>4 DEF Applied, StateType
  <2>4. QED
    BY <1>2, <1>4, <2>2, <2>3 DEF Agrees, NoCommands, Done
<1>5. QED
  BY <1>1, <1>3, <1>4

LEMMA RaiseAgrees ==
  ASSUME TypeInv, JobsInv, MasterOK, MessagesAlone, NEW t \in Threads, Asks(t),
         Fail(t) \/ Timeout(t), NoSlot \notin doubt'
  PROVE  Agrees(cur)' /\ NoCommands'
<1> DEFINE op == Head(todo[t])
<1>1. /\ op \in Op /\ op.slot = NoSlot /\ cur \in StateType /\ pc[t] = "waiting"
      /\ op.kind \in {"volume", "mute", "unmute", "state"}
  BY TodoType, CommandShape DEF Asks, MessagesAlone, TypeInv, PictureOK
<1>2. /\ cur' = Raised(cur, op) /\ dsp' = dsp
      /\ doubt' = DoubtAfter(op, FALSE, seen[t])
  BY <1>1 DEF Fail, Timeout, Raise
<1>3. op.kind = "state" /\ NoSlot \notin doubt
  BY <1>1, <1>2 DEF DoubtAfter, TrimKinds, MasterKinds
<1>4. fut[t] = "pending" /\ queue' = Orphaned(t)
  BY <1>1, <1>3 DEF MasterOK, AskInv, Fail, Timeout
<1>5. /\ Agrees(cur)
      /\ \A i \in 1..Len(queue) : Commands(queue[i].op) => queue[i].by = t
  BY <1>3, <1>4 DEF MasterOK, AskInv
<1>6. \A i \in 1..Len(queue) : queue[i].by = t => queue[i].op = op
  BY <1>1, JobType DEF JobsInv, Awaited
<1>7. NoCommands
  BY <1>3, <1>5, <1>6 DEF NoCommands, Commands, MasterKinds
<1>8. NoCommands'
  BY <1>4, <1>7, AbandonedJob DEF NoCommands
<1>9. cur' = cur
  BY <1>2, <1>3 DEF Raised, FilterKinds
<1>10. QED
  BY <1>2, <1>5, <1>8, <1>9 DEF Agrees

LEMMA MasterThreadStep ==
  ASSUME TypeInv, JobsInv, ShownInv, ColdInv, MessagesAlone, MasterOK,
         NEW t \in Threads, ThreadStep(t)
  PROVE  MasterOK'
<1>0. /\ pc \in [Threads -> {"idle", "start", "hydrating", "waiting", "dump", "replace"}]
      /\ todo \in [Threads -> Seq(Op)]
      /\ fut \in [Threads -> {"none", "pending", "ok", "failed"}]
  BY DEF TypeInv, ThreadsOK
<1>1. CASE StartHydrate(t)
  BY <1>1, StateOpType, MasterEnqueue DEF StartHydrate
<1>2. CASE Submit(t)
  <2>1. Head(todo[t]) \in Op
    BY <1>2, TodoType DEF Submit
  <2>2. QED
    BY <1>2, <2>1, MasterEnqueue DEF Submit
<1>3. ASSUME GoesOn(t), fut' = fut \/ fut' = [fut EXCEPT ![t] = "none"]
      PROVE  OnlyThread(t) /\ pc'[t] \in Working /\ pc'[t] # "hydrating" /\ ~Asks(t)'
  BY <1>0, <1>3 DEF GoesOn, Advance, Abort, StartSave, OnlyThread, Asks, Working
<1>4. Len(queue) \in Nat
  BY JobType
<1>5. CASE Hydrate(t)
  BY <1>5, MasterHydrate
<1>6. CASE HandleMessage(t)
  BY <1>6, MasterMessage
<1>7. CASE Reject(t)
  <2>1. GoesOn(t) /\ fut' = fut /\ pc[t] = "start"
    BY <1>7 DEF Reject, GoesOn
  <2>2. ~Asks(t) /\ OthersSeen(t) /\ UNCHANGED <<cur, hydrated>>
    BY <1>7 DEF Reject, Asks, OthersSeen, stateVars
  <2>3. QED
    BY <1>3, <1>4, <1>7, <2>1, <2>2, MasterThread DEF Reject, historyVars
<1>8. CASE Complete(t)
  <2> DEFINE op == Head(todo[t])
  <2>1. /\ GoesOn(t) /\ OthersSeen(t) /\ pc[t] = "waiting"
        /\ fut' = [fut EXCEPT ![t] = "none"]
    BY <1>8 DEF Complete, GoesOn, Used, OthersSeen, TypeInv, ThreadsOK
  <2>2. OnlyThread(t) /\ pc'[t] \in Working /\ pc'[t] # "hydrating" /\ ~Asks(t)'
    BY <1>3, <2>1
  <2>3. op \in Op /\ cur \in StateType /\ hydrated
    BY <2>1, TodoType DEF TypeInv, PictureOK, ShownInv, Commanding
  <2>4. UNCHANGED <<dsp, hydrated, queue>>
    BY <1>8 DEF Complete
  <2>5. CASE Asks(t)
    BY <1>8, <2>1, <2>2, <2>3, <2>4, <2>5, CompleteAgrees, MasterOutcome
  <2>6. CASE ~Asks(t)
    <3>1. op.slot # NoSlot
      BY <2>1, <2>6 DEF Asks
    <3>2. cur'.mv = cur.mv /\ cur'.mute = cur.mute
      BY <1>8, <2>3, <3>1, MasterApplied DEF Complete
    <3>3. NoSlot \in doubt => NoSlot \in doubt'
      BY <1>8, <3>1, <2>3, CommandShape DEF Complete, DoubtAfter
    <3>4. QED
      BY <1>4, <2>1, <2>2, <2>4, <2>6, <3>2, <3>3, MasterThread
  <2>7. QED
    BY <2>5, <2>6
<1>9. CASE Fail(t) \/ Timeout(t)
  <2> DEFINE op == Head(todo[t])
  <2>1. /\ Raise(t) /\ GoesOn(t) /\ OthersSeen(t) /\ UNCHANGED <<dsp, hydrated>>
        /\ pc[t] \in {"hydrating", "waiting"}
    BY <1>9 DEF Fail, Timeout, Raise, GoesOn, OthersSeen
  <2>2. OnlyThread(t) /\ pc'[t] \in Working /\ pc'[t] # "hydrating" /\ ~Asks(t)'
    BY <1>3, <2>1 DEF Raise
  <2>3. op \in Op /\ cur \in StateType
    BY <2>1, TodoType DEF TypeInv, PictureOK
  <2>4. CASE Asks(t)
    <3>1. hydrated
      BY <2>4 DEF ShownInv, Commanding, Asks
    <3>2. QED
      BY <1>9, <2>1, <2>2, <2>4, <3>1, RaiseAgrees, MasterOutcome
  <2>5. CASE ~Asks(t)
    <3>1. cur'.mv = cur.mv /\ cur'.mute = cur.mute
      BY <2>1, <2>3, MasterApplied DEF Raise
    <3>2. NoSlot \in doubt => NoSlot \in doubt'
      BY <2>1 DEF Raise, DoubtAfter
    <3>3. /\ Len(queue') = Len(queue)
          /\ \A i \in 1..Len(queue) :
               /\ queue'[i].op = queue[i].op
               /\ queue[i].by # t => queue'[i].by = queue[i].by
      BY <1>9, AbandonedJob DEF Fail, Timeout
    <3>4. QED
      BY <1>4, <2>1, <2>2, <2>5, <3>1, <3>2, <3>3, MasterThread
  <2>6. QED
    BY <2>4, <2>5
<1>10. CASE Dump(t) \/ Replace(t)
  <2>1. /\ UNCHANGED <<dsp, queue, fut, hydrated, cur, doubt>> /\ OthersSeen(t)
        /\ GoesOn(t) \/ UNCHANGED todo
        /\ pc[t] \in {"dump", "replace"} /\ ~Asks(t)
    BY <1>10 DEF Dump, Replace, GoesOn, OthersSeen, Asks, stateVars, historyVars
  <2>2. OnlyThread(t) /\ pc'[t] # "hydrating" /\ ~Asks(t)'
    BY <1>0, <1>10, <2>1 DEF Dump, Replace, Advance, Abort, OnlyThread, Asks
  <2>3. QED
    BY <1>4, <2>1, <2>2, MasterThread
<1>11. QED
  BY <1>1, <1>2, <1>5, <1>6, <1>7, <1>8, <1>9, <1>10 DEF ThreadStep

-----------------------------------------------------------------------------
(* The worker.                                                             *)

LEMMA MasterWritten ==
  ASSUME NEW d \in DspType, NEW op \in Op, NEW s \in Slots
  PROVE  /\ Written(d, op, s).mv = IF op.kind = "volume" THEN op.arg ELSE d.mv
         /\ Written(d, op, s).mute = IF op.kind \in {"mute", "unmute"} THEN (op.kind = "mute")
                                     ELSE d.mute
BY OpShape DEF Written, DspType, Kinds

LEMMA MasterInterrupted ==
  ASSUME NEW d \in DspType, NEW op \in Op, NEW s \in Slots, ~Commands(op),
         NEW e \in Interrupted(d, op, s)
  PROVE  e.mv = d.mv /\ e.mute = d.mute
<1> DEFINE full == Written(d, op, s)
<1>1. full.mv = d.mv /\ full.mute = d.mute /\ full \in DspType
  BY MasterWritten, WrittenType DEF Commands, MasterKinds
<1>2. CASE e \in {d, full, [d EXCEPT !.preset = full.preset], [full EXCEPT !.trim = d.trim]}
  BY <1>1, <1>2 DEF DspType
<1>3. CASE e = [d EXCEPT !.preset = s, !.filter = [d.filter EXCEPT ![s] = Partial]]
  BY <1>3 DEF DspType
<1>4. QED
  BY <1>2, <1>3 DEF Interrupted

\* The running job ends.
LEMMA MasterFinish ==
  ASSUME TypeInv, JobsInv, ColdInv, MessagesAlone, MasterOK, queue # <<>>,
         NEW res \in {"ok", "failed"}, Finish(res),
         UNCHANGED <<pc, todo, stateVars, doubt>>,
         Running.kind = "state" => res = "ok",
         ~Commands(Running) => dsp'.mv = dsp.mv /\ dsp'.mute = dsp.mute,
         Commands(Running) /\ res = "ok" => dsp' = Written(dsp, Running, Target),
         Running.kind # "state" => seen' = seen,
         Running.kind = "state" =>
           \/ Head(queue).by = None /\ seen' = seen
           \/ \E status \in Status : /\ status.connected => Agrees(status)
                                     /\ seen' = [seen EXCEPT ![Head(queue).by] = status]
  PROVE  MasterOK'
<1> DEFINE by == Head(queue).by
<1>1. /\ Len(queue) > 0 /\ Len(queue') = Len(queue) - 1
      /\ Running = queue[1].op /\ by = queue[1].by
      /\ \A i \in 1..Len(queue') : queue'[i] = queue[i + 1] /\ i + 1 \in 1..Len(queue)
  BY ShiftedJobs DEF Finish
<1>2. Len(queue) \in Nat /\ 1 \in 1..Len(queue) /\ Running \in Op
  BY <1>1, JobType
<1>3. \A u \in Threads : fut'[u] = IF u = by THEN res ELSE fut[u]
  BY JobType DEF Finish, TypeInv, ThreadsOK
<1>4. \A u \in Threads : Asks(u)' <=> Asks(u)
  BY DEF Asks
<1>5. UNCHANGED <<cur, hydrated, doubt>>
  BY DEF stateVars
<1>6. by \in Threads => fut[by] = "pending" /\ Running = Awaited(by)
  BY <1>1, <1>2, JobType DEF JobsInv
<1>7. NoCommands => NoCommands' /\ ~Commands(Running)
  BY <1>1, <1>2 DEF NoCommands
<1>8. ~Commands(Running) => \A st : Agrees(st) => st.mv = dsp'.mv /\ st.mute = dsp'.mute
  BY DEF Agrees
<1>9. \A u \in Threads : u # by => seen'[u] = seen[u]
  BY DEF TypeInv, ThreadsOK
<1>10. ASSUME by \in Threads, Running.kind = "state", seen'[by].connected
       PROVE  seen'[by].mv = dsp'.mv /\ seen'[by].mute = dsp'.mute
  <2>1. seen'[by].connected => Agrees(seen'[by])
    BY <1>10, MinidspAssumption DEF TypeInv, ThreadsOK
  <2>2. dsp'.mv = dsp.mv /\ dsp'.mute = dsp.mute
    BY <1>10 DEF Commands, MasterKinds
  <2>3. QED
    BY <1>10, <2>1, <2>2 DEF Agrees
<1>11. OneUser(NoSlot)' /\ AloneInv'
  BY <1>5 DEF MasterOK, OneUser, AloneInv, SlotsOf
<1>12. RestInv'
  BY <1>4, <1>5, <1>7, <1>8 DEF MasterOK, RestInv, Agrees
<1>13. ReadInv'
  <2> SUFFICES ASSUME NEW u \in Threads, pc[u] = "hydrating", fut'[u] = "ok",
                      seen'[u].connected
               PROVE  Agrees(seen[u])'
    BY DEF ReadInv
  <2>1. CASE u = by
    BY <1>6, <1>10, <2>1 DEF Awaited, StateOp, Agrees
  <2>2. CASE u # by
    <3>1. fut[u] = "ok" /\ seen'[u] = seen[u] /\ ~hydrated
      BY <1>3, <1>9, <2>2 DEF MasterOK, AloneInv
    <3>2. Agrees(seen[u]) /\ ~Commands(Running)
      BY <1>1, <1>2, <3>1 DEF MasterOK, ReadInv, ColdInv, Commands, MasterKinds
    <3>3. QED
      BY <3>1, <3>2 DEF Agrees
  <2>3. QED
    BY <2>1, <2>2
<1>14. MessageInv'
  <2> SUFFICES ASSUME ~hydrated \/ NoSlot \notin doubt, NEW u \in Threads,
                      NEW op \in OpsOf(todo[u]), op.kind = "ws"
               PROVE  op.arg.mv = dsp'.mv
    BY <1>5 DEF MessageInv
  <2>1. op.arg.mv = dsp.mv
    BY DEF MasterOK, MessageInv
  <2>2. ~Commands(Running)
    <3>1. CASE ~hydrated
      BY <1>1, <1>2, <3>1 DEF ColdInv, Commands, MasterKinds
    <3>2. CASE hydrated /\ NoSlot \notin doubt /\ \A v \in Threads : ~Asks(v)
      BY <1>7, <3>2 DEF MasterOK, RestInv
    <3>3. ASSUME Commands(Running), NoSlot \notin doubt, NEW v \in Threads, Asks(v)
          PROVE  FALSE
      <4>1. op \in Op /\ op.slot = NoSlot
        BY CommandShape DEF OpsOf, TypeInv, ThreadsOK
      <4>2. NoSlot \in SlotsOf(todo[u]) /\ NoSlot \in SlotsOf(todo[v])
        BY <3>3, <4>1, AskerIsUser DEF SlotsOf, OpsOf, Asks
      <4>3. u = v
        BY <4>2 DEF MasterOK, OneUser
      <4>4. todo[v] = <<op>> /\ Head(todo[v]).kind # "ws"
        BY <3>3, <4>3 DEF MessagesAlone, Asks
      <4>5. QED
        BY <4>4
    <3>4. QED
      BY <3>1, <3>2, <3>3
  <2>3. QED
    BY <2>1, <2>2
<1>15. ASSUME \A i \in 1..Len(queue) : Commands(queue[i].op) =>
                \E j \in i..Len(queue) : queue[j].by = by,
              by # None
       PROVE  NoCommands'
  <2> SUFFICES ASSUME NEW i \in 1..Len(queue'), Commands(queue'[i].op) PROVE FALSE
    BY DEF NoCommands
  <2>1. i + 1 \in 1..Len(queue) /\ Commands(queue[i + 1].op)
    BY <1>1
  <2>2. PICK j \in (i + 1)..Len(queue) : queue[j].by = by
    BY <1>15, <2>1
  <2>3. j \in 1..Len(queue) /\ j # 1
    BY <1>2, <2>1, <2>2
  <2>4. QED
    BY <1>1, <1>2, <1>15, <2>2, <2>3 DEF JobsInv
<1>16. ASSUME NEW u \in Threads, Asks(u) PROVE AskInv(u)'
  <2> DEFINE op == Head(todo[u])
  <2>0. AskInv(u) /\ todo' = todo /\ u # None
    BY JobType DEF MasterOK
  <2>1. CASE u = by
    <3>1. fut[u] = "pending" /\ Running = op /\ fut'[u] = res
      BY <1>3, <1>6, <1>16, <2>1 DEF Awaited, Asks
    <3>2. NoCommands'
      BY <1>15, <1>16, <2>0, <2>1, <3>1 DEF AskInv
    <3>3. op.kind = "state" /\ seen'[u].connected => Agrees(seen[u])'
      BY <1>10, <2>1, <3>1 DEF Agrees
    <3>4. ASSUME op.kind # "state", NoSlot \notin doubt, res = "ok" PROVE Done(op)'
      <4>1. op.kind \in {"volume", "mute", "unmute"} /\ Commands(Running)
        BY <1>2, <1>16, <3>1, <3>4, CommandShape
        DEF Asks, MessagesAlone, Commands, MasterKinds
      <4>2. Agrees(cur)
        BY <1>16, <2>0, <3>1, <3>4 DEF AskInv
      <4>3. dsp' = Written(dsp, op, Target) /\ dsp \in DspType /\ Target \in Slots
        BY <3>1, <3>4, <4>1, QueueType DEF TypeInv, WorkerOK
      <4>4. /\ dsp'.mv = IF op.kind = "volume" THEN op.arg ELSE dsp.mv
            /\ dsp'.mute = IF op.kind \in {"mute", "unmute"} THEN (op.kind = "mute") ELSE dsp.mute
        BY <1>2, <3>1, <4>3, MasterWritten
      <4>5. QED
        BY <1>5, <2>0, <4>1, <4>2, <4>4 DEF Done, Agrees
    <3>5. QED
      BY <1>5, <2>0, <3>1, <3>2, <3>3, <3>4 DEF AskInv
  <2>2. CASE u # by
    <3>1. fut'[u] = fut[u] /\ seen'[u] = seen[u]
      BY <1>3, <1>9, <2>2
    <3>2. NoCommands => /\ NoCommands' /\ (Done(op) => Done(op)')
                        /\ (Agrees(seen[u]) => Agrees(seen[u])')
      BY <1>5, <1>7, <2>0, <3>1 DEF Done, Agrees
    <3>3. ASSUME fut[u] = "pending", NEW i \in 1..Len(queue'), Commands(queue'[i].op)
          PROVE  \E j \in i..Len(queue') : queue'[j].by = u
      <4>1. i + 1 \in 1..Len(queue) /\ Commands(queue[i + 1].op)
        BY <1>1, <3>3
      <4>2. PICK j \in (i + 1)..Len(queue) : queue[j].by = u
        BY <1>16, <2>0, <3>3, <4>1 DEF AskInv
      <4>3. j - 1 \in i..Len(queue') /\ j - 1 \in 1..Len(queue') /\ (j - 1) + 1 = j
        BY <1>1, <1>2, <4>1, <4>2
      <4>4. QED
        BY <1>1, <4>2, <4>3
    <3>4. ASSUME fut[u] = "pending", NoSlot \notin doubt
          PROVE  /\ Agrees(cur)'
                 /\ \A i \in 1..Len(queue') : Commands(queue'[i].op) => queue'[i].by = u
      <4>1. /\ Agrees(cur)
            /\ \A i \in 1..Len(queue) : Commands(queue[i].op) => queue[i].by = u
        BY <1>16, <2>0, <3>4 DEF AskInv
      <4>2. ~Commands(Running)
        BY <1>1, <1>2, <2>2, <4>1
      <4>3. QED
        BY <1>1, <1>5, <4>1, <4>2 DEF Agrees
    <3>5. QED
      BY <1>5, <1>16, <2>0, <3>1, <3>2, <3>3, <3>4 DEF AskInv
  <2>3. QED
    BY <2>1, <2>2
<1>17. \A u \in Threads : AskInv(u)'
  BY <1>4, <1>16 DEF AskInv
<1>18. QED
  BY <1>11, <1>12, <1>13, <1>14, <1>17 DEF MasterOK

LEMMA MasterWorkerStep ==
  ASSUME TypeInv, JobsInv, ColdInv, MessagesAlone, MasterOK,
         ReadStatus \/ FindSlot \/ FindSlotAgain \/ ChangeSlot \/ Run \/ RunFails
  PROVE  MasterOK'
<1>1. CASE ReadStatus
  <2>1. StatusNow \in Status /\ Agrees(StatusNow)
    BY StatusNowType DEF Status, Agrees, StatusNow
  <2>2. Disconnected \in Status /\ ~Disconnected.connected
    BY DEF Status, Disconnected
  <2>3. \/ Head(queue).by = None /\ seen' = seen
        \/ \E status \in Status : /\ status.connected => Agrees(status)
                                  /\ seen' = [seen EXCEPT ![Head(queue).by] = status]
    BY <1>1, <2>1, <2>2 DEF ReadStatus
  <2>4. Finish("ok") /\ queue # <<>> /\ Running.kind = "state" /\ ~Commands(Running)
        /\ UNCHANGED <<dsp, pc, todo, stateVars, historyVars>>
    BY <1>1 DEF ReadStatus, Commands, MasterKinds
  <2>5. QED
    BY <2>3, <2>4, MasterFinish DEF historyVars
<1>2. ASSUME dsp'.mv = dsp.mv, dsp'.mute = dsp.mute,
             UNCHANGED <<queue, threadVars, stateVars, historyVars>>
      PROVE  MasterOK'
  BY <1>2 DEF threadVars, stateVars, historyVars, MasterOK, OneUser, SlotsOf, AloneInv,
              RestInv, AskInv, ReadInv, MessageInv, Asks, Agrees, Done, NoCommands
<1>3. ASSUME stage \in {"select", "skip"}
      PROVE  /\ queue # <<>> /\ Running \in Op /\ Running.slot # NoSlot
             /\ \A x : /\ [dsp EXCEPT !.preset = x].mv = dsp.mv
                      /\ [dsp EXCEPT !.preset = x].mute = dsp.mute
  BY <1>3, QueueType, MinidspAssumption DEF TypeInv, WorkerOK, DspType
<1>4. CASE FindSlot \/ FindSlotAgain \/ ChangeSlot
  BY <1>2, <1>3, <1>4 DEF FindSlot, FindSlotAgain, ReadSlot, ChangeSlot
<1>5. ASSUME CanRun
      PROVE  /\ queue # <<>> /\ Running \in Op /\ Target \in Slots /\ dsp \in DspType
             /\ Running.kind # "state"
  BY <1>5, QueueType DEF CanRun, TypeInv, WorkerOK
<1>6. CASE Run
  <2>1. ~Commands(Running) => dsp'.mv = dsp.mv /\ dsp'.mute = dsp.mute
    BY <1>5, <1>6, MasterWritten DEF Run, Commands, MasterKinds
  <2>2. QED
    BY <1>5, <1>6, <2>1, MasterFinish DEF Run
<1>7. CASE RunFails
  <2>1. queue # <<>> /\ Running.kind # "state"
        /\ (~Commands(Running) => dsp'.mv = dsp.mv /\ dsp'.mute = dsp.mute)
    <3>1. CASE stage \in {"select", "skip"}
               /\ dsp' \in {dsp, [dsp EXCEPT !.preset = Running.slot]}
      BY <1>3, <3>1, CommandShape
    <3>2. CASE CanRun /\ dsp' \in Interrupted(dsp, Running, Target)
      BY <1>5, <3>2, MasterInterrupted
    <3>3. QED
      BY <1>7, <3>1, <3>2 DEF RunFails
  <2>2. QED
    BY <1>7, <2>1, MasterFinish DEF RunFails
<1>8. QED
  BY <1>1, <1>4, <1>6, <1>7

-----------------------------------------------------------------------------
(* The remote control, restarts, and every step.                           *)

LEMMA MasterRemote ==
  ASSUME TypeInv, MasterOK, NEW d, Remote(d), NoSlot \notin tainted'
  PROVE  MasterOK'
<1> DEFINE same == d.mv = dsp.mv /\ d.mute = dsp.mute
           busy == \/ \E t \in Threads : pc[t] = "hydrating"
                   \/ InFlight(NoSlot)
                   \/ \E i \in DOMAIN queue : queue[i].op.slot = NoSlot
<1>1. /\ dsp' = d /\ UNCHANGED <<queue, threadVars, stateVars>>
      /\ NoSlot \in doubt => NoSlot \in doubt'
      /\ busy => same
      /\ ~same => NoSlot \in doubt'
  BY DEF Remote
<1>2. OneUser(NoSlot)' /\ AloneInv'
  BY <1>1 DEF threadVars, stateVars, MasterOK, OneUser, SlotsOf, AloneInv
<1>3. CASE same
  BY <1>1, <1>2, <1>3 DEF threadVars, stateVars, MasterOK, RestInv, AskInv, ReadInv,
                          MessageInv, Asks, Agrees, Done, NoCommands
<1>4. CASE ~same
  <2>1. ~busy /\ NoSlot \in doubt'
    BY <1>1, <1>4
  <2>2. \A t \in Threads : ~Asks(t)' /\ pc'[t] # "hydrating"
    BY <1>1, <2>1, AskerIsUser DEF threadVars, Asks, InFlight
  <2>3. ASSUME NEW t \in Threads, NEW op \in OpsOf(todo'[t]) PROVE op.kind # "ws"
    <3>1. op \in Op /\ op.slot \in SlotsOf(todo[t])
      BY <1>1, <2>3 DEF threadVars, OpsOf, SlotsOf, TypeInv, ThreadsOK
    <3>2. QED
      BY <2>1, <3>1, CommandShape DEF InFlight
  <2>4. RestInv' /\ ReadInv' /\ MessageInv' /\ \A t \in Threads : AskInv(t)'
    BY <2>1, <2>2, <2>3 DEF RestInv, ReadInv, MessageInv, AskInv
  <2>5. QED
    BY <1>2, <2>4 DEF MasterOK
<1>5. QED
  BY <1>3, <1>4

LEMMA MasterRestart ==
  ASSUME Restart PROVE ColdInv' /\ MessagesAlone' /\ MasterOK'
<1>1. /\ \A t \in Threads : pc'[t] = "idle" /\ todo'[t] = <<>>
      /\ ~hydrated' /\ queue' = <<>>
  BY DEF Restart
<1>2. ColdInv' /\ MessagesAlone'
  BY <1>1 DEF ColdInv, MessagesAlone, OpsOf
<1>3. OneUser(NoSlot)' /\ AloneInv' /\ RestInv' /\ ReadInv' /\ MessageInv'
  BY <1>1 DEF OneUser, SlotsOf, AloneInv, RestInv, ReadInv, MessageInv, OpsOf
<1>4. \A t \in Threads : AskInv(t)'
  BY <1>1 DEF AskInv, Asks
<1>5. QED
  BY <1>2, <1>3, <1>4 DEF MasterOK

LEMMA ColdThreadStep ==
  ASSUME TypeInv, ColdInv, NEW t \in Threads, ThreadStep(t) PROVE ColdInv'
<1>0. queue \in Seq(Job)
  BY JobType
<1>1. CASE StartHydrate(t)
  <2>1. [by |-> t, op |-> StateOp] \in Job /\ StateOp.kind = "state"
    BY StateOpType DEF Job, StateOp
  <2>2. /\ Len(queue') = Len(queue) + 1 /\ Len(queue) \in Nat
        /\ \A i \in 1..Len(queue) : queue'[i] = queue[i]
        /\ queue'[Len(queue')].op = StateOp
    BY <1>1, <2>1, AddedJob DEF StartHydrate
  <2>3. \A i \in 1..Len(queue') : i \in 1..Len(queue) \/ i = Len(queue')
    BY <2>2
  <2>4. QED
    BY <1>1, <2>1, <2>2, <2>3 DEF StartHydrate, stateVars, ColdInv
<1>2. CASE Hydrate(t) \/ Submit(t) \/ Reject(t) \/ HandleMessage(t)
  BY <1>2 DEF Hydrate, Submit, Reject, HandleMessage, stateVars, ColdInv
<1>3. CASE Complete(t) \/ Fail(t)
  BY <1>3 DEF Complete, Fail, ColdInv
<1>4. CASE Timeout(t)
  BY <1>4, AbandonedJob DEF Timeout, ColdInv
<1>5. CASE Dump(t) \/ Replace(t)
  BY <1>5 DEF Dump, Replace, stateVars, ColdInv
<1>6. QED
  BY <1>1, <1>2, <1>3, <1>4, <1>5 DEF ThreadStep

LEMMA ColdFinish ==
  ASSUME TypeInv, ColdInv, queue # <<>>, NEW res, Finish(res), UNCHANGED hydrated
  PROVE  ColdInv'
BY ShiftedJobs DEF Finish, ColdInv

LEMMA AloneThreadStep ==
  ASSUME TypeInv, MessagesAlone, NEW t \in Threads, ThreadStep(t)
  PROVE  MessagesAlone'
<1>0. /\ pc \in [Threads -> {"idle", "start", "hydrating", "waiting", "dump", "replace"}]
      /\ todo \in [Threads -> Seq(Op)]
  BY DEF TypeInv, ThreadsOK
<1>1. ASSUME UNCHANGED todo,
             \A u \in Threads : pc'[u] = "waiting" =>
               pc[u] = "waiting" \/ Head(todo[u]).kind # "ws"
      PROVE  MessagesAlone'
  BY <1>1 DEF MessagesAlone
<1>2. ASSUME GoesOn(t), pc[t] # "idle" PROVE MessagesAlone'
  <2>1. \A u \in Threads : pc'[u] = "waiting" => u # t /\ pc[u] = "waiting"
    BY <1>0, <1>2 DEF GoesOn, Advance, Abort, StartSave
  <2>2. \A u \in Threads : u # t => todo'[u] = todo[u]
    BY <1>0, <1>2 DEF GoesOn, Advance, Abort, StartSave
  <2>3. ASSUME NEW op \in OpsOf(todo'[t]), op.kind = "ws" PROVE todo'[t] = <<op>>
    <3>1. todo[t] = <<op>>
      BY <1>2, <2>3, FewerOps DEF MessagesAlone
    <3>2. todo'[t] \in {<<>>, <<op>>}
      BY <1>0, <1>2, <3>1 DEF GoesOn, Advance, Abort, StartSave
    <3>3. QED
      BY <2>3, <3>2 DEF OpsOf
  <2>4. QED
    BY <2>1, <2>2, <2>3 DEF MessagesAlone
<1>3. CASE StartHydrate(t) \/ Submit(t) \/ Dump(t)
  BY <1>0, <1>1, <1>3 DEF StartHydrate, Submit, Dump
<1>4. CASE Hydrate(t)
  BY <1>0, <1>1, <1>2, <1>4 DEF Hydrate, GoesOn
<1>5. CASE Reject(t) \/ HandleMessage(t) \/ Complete(t) \/ Fail(t) \/ Timeout(t) \/ Replace(t)
  BY <1>2, <1>5 DEF Reject, HandleMessage, Complete, Fail, Timeout, Raise, Replace, GoesOn
<1>6. QED
  BY <1>3, <1>4, <1>5 DEF ThreadStep

LEMMA MasterStep == Basis /\ MasterInv /\ [Next]_vars => MasterInv'
<1> SUFFICES ASSUME Basis, MasterInv, [Next]_vars PROVE MasterInv'
  OBVIOUS
<1> USE DEF Basis
<1>0. ColdInv /\ MessagesAlone /\ (NoSlot \notin tainted => MasterOK)
  BY DEF MasterInv
<1>1. ASSUME NEW t \in Threads, Request(t) PROVE MasterInv'
  <2>1. PICK ops \in Requests : Arrive(t, ops)
    BY <1>1 DEF Request
  <2>2. \A op \in OpsOf(ops) : op.kind # "ws"
    BY MinidspAssumption DEF OpsOf
  <2>3. QED
    BY <2>1, <2>2, MasterArrive
<1>2. ASSUME NEW t \in Threads, Notify(t) PROVE MasterInv'
  <2> DEFINE msg == [kind |-> "ws", slot |-> NoSlot, arg |-> StatusNow]
  <2>1. \A op \in OpsOf(<<msg>>) : op = msg
    BY DEF OpsOf
  <2>2. Arrive(t, <<msg>>)
    BY <1>2 DEF Notify
  <2>3. msg.arg.mv = dsp.mv
    BY DEF StatusNow
  <2>4. QED
    BY <2>1, <2>2, <2>3, MasterArrive
<1>3. ASSUME NEW t \in Threads, ThreadStep(t) PROVE MasterInv'
  <2>1. tainted \subseteq tainted'
    BY <1>3 DEF ThreadStep, StartHydrate, Hydrate, Submit, Reject, HandleMessage,
                Complete, Fail, Timeout, Dump, Replace, historyVars
  <2>2. QED
    BY <1>0, <1>3, <2>1, ColdThreadStep, AloneThreadStep, MasterThreadStep DEF MasterInv
<1>4. ASSUME UNCHANGED <<pc, todo>> PROVE MessagesAlone'
  BY <1>0, <1>4 DEF MessagesAlone
<1>5. CASE ReadStatus \/ FindSlot \/ FindSlotAgain \/ ChangeSlot \/ Run \/ RunFails
  <2>1. tainted \subseteq tainted' /\ UNCHANGED <<pc, todo, hydrated>>
    BY <1>5 DEF ReadStatus, FindSlot, FindSlotAgain, ReadSlot, ChangeSlot, Run, RunFails,
                threadVars, stateVars, historyVars
  <2>2. ColdInv'
    <3>1. CASE FindSlot \/ FindSlotAgain \/ ChangeSlot
      BY <1>0, <3>1 DEF FindSlot, FindSlotAgain, ReadSlot, ChangeSlot, stateVars, ColdInv
    <3>2. CASE ReadStatus \/ Run \/ RunFails
      <4>1. queue # <<>> /\ (Finish("ok") \/ Finish("failed"))
        BY <3>2 DEF ReadStatus, Run, RunFails, CanRun, TypeInv, WorkerOK
      <4>2. QED
        BY <1>0, <2>1, <4>1, ColdFinish
    <3>3. QED
      BY <1>5, <3>1, <3>2
  <2>3. QED
    BY <1>0, <1>4, <1>5, <2>1, <2>2, MasterWorkerStep DEF MasterInv
<1>6. CASE RemotePreset \/ RemoteVolume \/ RemoteMute
  <2>1. PICK d : Remote(d)
    BY <1>6 DEF RemotePreset, RemoteVolume, RemoteMute
  <2>2. tainted \subseteq tainted' /\ UNCHANGED <<queue, pc, todo, hydrated>>
    BY <2>1 DEF Remote, threadVars, stateVars
  <2>3. ColdInv'
    BY <1>0, <2>2 DEF ColdInv
  <2>4. QED
    BY <1>0, <1>4, <2>1, <2>2, <2>3, MasterRemote DEF MasterInv
<1>7. CASE Restart
  BY <1>7, MasterRestart DEF MasterInv
<1>8. CASE UNCHANGED vars
  <2>1. UNCHANGED <<dsp, queue, threadVars, stateVars, historyVars>>
    BY <1>8 DEF vars
  <2>2. MasterOK => MasterOK'
    BY <2>1 DEF threadVars, stateVars, historyVars, MasterOK, OneUser, SlotsOf, AloneInv,
                RestInv, AskInv, ReadInv, MessageInv, Asks, Agrees, Done, NoCommands
  <2>3. QED
    BY <1>0, <1>4, <2>1, <2>2 DEF threadVars, stateVars, historyVars, ColdInv, MasterInv
<1>9. QED
  BY <1>1, <1>2, <1>3, <1>5, <1>6, <1>7, <1>8 DEF Next

LEMMA MasterInit == Init => MasterInv
<1> SUFFICES ASSUME Init PROVE MasterInv
  OBVIOUS
<1>1. /\ \A t \in Threads : pc[t] = "idle" /\ todo[t] = <<>>
      /\ ~hydrated /\ queue = <<>>
  BY DEF Init
<1>2. ColdInv /\ MessagesAlone
  BY <1>1 DEF ColdInv, MessagesAlone, OpsOf
<1>3. OneUser(NoSlot) /\ AloneInv /\ RestInv /\ ReadInv /\ MessageInv
  BY <1>1 DEF OneUser, SlotsOf, AloneInv, RestInv, ReadInv, MessageInv, OpsOf
<1>4. \A t \in Threads : AskInv(t)
  BY <1>1 DEF AskInv, Asks
<1>5. QED
  BY <1>2, <1>3, <1>4 DEF MasterInv, MasterOK

LEMMA MasterIsRight == TypeInv /\ MasterInv => MasterMatches
<1> SUFFICES ASSUME TypeInv, MasterInv, hydrated, ~InFlight(NoSlot),
                    NoSlot \notin tainted, NoSlot \notin doubt
             PROVE  cur.mv = dsp.mv /\ cur.mute = dsp.mute
  BY DEF MasterMatches
<1>1. \A t \in Threads : ~Asks(t)
  BY AskerIsUser DEF Asks, InFlight
<1>2. QED
  BY <1>1 DEF MasterInv, MasterOK, RestInv, Agrees

\* While nobody handles the master and no two did at the same time, the volume
\* and mute shown are those of the DSP, from the first read of the state that
\* succeeds: commands that were abandoned and run late, failures, restarts and
\* messages handled late do not change that.  A command that fails, a read that
\* finds no DSP and a change by the remote control leave them in doubt, and only
\* another read that succeeds ends the doubt: a message does not, as the mute it
\* reports is not recorded.
THEOREM MasterIsTrue == Spec => []MasterMatches
<1>1. Basis => TypeInv
  BY DEF Basis
<1>2. QED
  BY <1>1, BasisInit, BasisStep, MasterInit, MasterStep, MasterIsRight, PTL DEF Spec
=============================================================================
