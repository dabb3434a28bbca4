----------------------------- MODULE Composite -----------------------------
(***************************************************************************)
(* A composite device of ezbeq (ezbeq/composite.py, on top of              *)
(* ezbeq/device.py, class PersistentDevice).                               *)
(*                                                                         *)
(* An operation is fanned out to the member devices over a pool with as    *)
(* many workers as there are members.  The caller waits for all of them    *)
(* under one deadline, calls those that missed it failed, and leaves their *)
(* tasks in the pool.  Whatever happened, it then reads the members' state *)
(* - over the same pool, under the same deadline - and broadcasts it.      *)
(*                                                                         *)
(* The composite keeps references to the state objects of its members, so  *)
(* it sees what happens to a member as it happens, until a refresh makes   *)
(* that member build a new object and the answer comes too late.           *)
(*                                                                         *)
(* A member is reduced to the one value it shows, a fanned out operation   *)
(* to the value it leaves; Minidsp and CamillaDsp say what members do.     *)
(* An update is a sequence of these operations, each of which saves and    *)
(* broadcasts the state, and does so itself after the last.                *)
(***************************************************************************)
EXTENDS Naturals, FiniteSets, SequencesExt

CONSTANTS
  Members,    \* the member devices
  Order,      \* the order they are configured in
  Slow,       \* members that may answer after the deadline, or never
  Rebuilds,   \* members that build a new state object on a refresh
  Threads,    \* request threads
  Values,     \* operations, each standing for what it leaves a member to show
  Takers,     \* the members that do not skip an operation, in that order
  Initial,    \* what a member shows at first
  None,       \* no value
  Requests,   \* what the client at each thread may ask of the composite
  MaxCalls,   \* bound on operations and reads of the composite
  MaxFaults   \* bound on tasks that raise and operations on a member itself

ERROR == "ERROR"

\* What a member shows, and a reference to its state object: Live while it is
\* the object the member uses, afterwards the last value it had.
Shows == Values \cup {Initial, ERROR}
Live == "live"
Refs == Shows \cup {Live}

\* The future of a member's task: not asked for, running, raised, done (an
\* operation), or the reference a read returned.
Futures == {None, "pending", "failed", "done"} \cup Refs

\* An operation, a read of the state, and a read of the hardware.
Call == [kind : {"load"}, arg : Values] \cup [kind : {"read", "refresh"}, arg : {None}]

\* What a route asks of the device: one of these, or a PATCH.
Request == Call \cup [kind : {"update"}, arg : Seq(Values) \ {<<>>}]

ASSUME CompositeAssumption ==
  /\ IsFiniteSet(Members) /\ Members # {}
  /\ Order \in Seq(Members)
  /\ Range(Order) = Members /\ Takers \in [Values -> Seq(Members)]
  /\ \A ms \in {Order} \cup Range(Takers) : IsInjective(ms)
  /\ \A t \in Threads : Requests[t] \subseteq Request
  /\ Slow \subseteq Members /\ Rebuilds \subseteq Members
  /\ Shows \cap {None, Live, "pending", "failed", "done"} = {}
  /\ None \notin Threads /\ None \notin {Live, "pending", "failed", "done"}
  /\ {MaxCalls, MaxFaults} \subseteq Nat

VARIABLES
  value,      \* what each member shows
  pool,       \* tasks of the executor; the first Workers of them run
  hydrated,   \* PersistentDevice.__hydrated
  view,       \* CompositeDeviceState.member_states
  shown,      \* what the clients were last sent for the composite
  phase,      \* what each thread does
  call,       \* the call it is in
  rest,       \* the operations its update still has to do, None if it is in none
  fut,        \* its futures, by member
  errors,     \* the members its call failed on
  detached,   \* threads whose read updates a state that has been replaced since
  expected,   \* history: what the members should show, None if unclear
  solo,       \* history: the thread whose operation ran alone
  late,       \* history: members that changed with no broadcast to follow
  calls, faults   \* counters for the bounds

threadVars == <<phase, call, rest, fut, errors, detached>>
deviceVars == <<hydrated, view, shown>>
historyVars == <<expected, solo, late>>
bounds == <<calls, faults>>
vars == <<value, pool, deviceVars, threadVars, historyVars, bounds>>

Task == [by : Threads \cup {None}, member : Members,
         kind : {"load", "read", "refresh"}, arg : Values \cup {None}]

\* The type invariant.
TypeOK ==
  /\ value \in [Members -> Shows]
  /\ pool \in Seq(Task)
  /\ hydrated \in BOOLEAN
  /\ view \in [Members -> Refs \cup {None}]
  /\ shown \in [Members -> Shows \cup {None}]
  /\ phase \in [Threads -> {"idle", "hydrate", "start", "ops", "after", "read", "close"}]
  /\ call \in [Threads -> Call \cup {None}]
  /\ rest \in [Threads -> Seq(Values) \cup {None}]
  /\ fut \in [Threads -> [Members -> Futures]]
  /\ errors \in [Threads -> SUBSET Members]
  /\ detached \subseteq Threads
  /\ expected \in Values \cup {None}
  /\ solo \in Threads \cup {None}
  /\ late \subseteq Members
  /\ {calls, faults} \subseteq Nat

Nobody == [m \in Members |-> None]

Init ==
  /\ value = [m \in Members |-> Initial]
  /\ pool = <<>>
  /\ hydrated = FALSE /\ view = Nobody /\ shown = Nobody
  /\ phase = [t \in Threads |-> "idle"]
  /\ call = [t \in Threads |-> None] /\ rest = [t \in Threads |-> None]
  /\ fut = [t \in Threads |-> Nobody]
  /\ errors = [t \in Threads |-> {}]
  /\ detached = {}
  /\ expected = None /\ solo = None /\ late = {}
  /\ calls = 0 /\ faults = 0

-----------------------------------------------------------------------------
(* The pool.                                                               *)

Workers == Cardinality(Members)

Running == 1..Workers \cap DOMAIN pool

\* One task of the given kind for each of the members, in their order.
Tasks(t, kind, arg, ms) ==
  [i \in DOMAIN ms |-> [by |-> t, member |-> ms[i], kind |-> kind, arg |-> arg]]

\* The pool when nobody looks at the futures of t any more.
Orphaned(t) ==
  [i \in DOMAIN pool |-> IF pool[i].by = t THEN [pool[i] EXCEPT !.by = None] ELSE pool[i]]

Submitted(t, ms) ==
  [fut EXCEPT ![t] = [m \in Members |-> IF m \in Range(ms) THEN "pending" ELSE None]]

\* The member gets a new state object: references to the old one stay behind.
Left(refs, m) == IF refs[m] = Live THEN [refs EXCEPT ![m] = value[m]] ELSE refs

\* The future of a task is set, if anybody looks at it.
Set(futures, task, result) ==
  IF task.by = None THEN futures ELSE [futures EXCEPT ![task.by][task.member] = result]

\* A member carries out an operation.
Load(i) ==
  LET task == pool[i]
      m == task.member
  IN  /\ task.kind = "load"
      /\ pool' = RemoveAt(pool, i)
      /\ value' = [value EXCEPT ![m] = task.arg]
      /\ fut' = Set(fut, task, "done")
      /\ late' = IF task.by = None THEN late \cup {m} ELSE late
      /\ UNCHANGED <<deviceVars, phase, call, rest, errors, detached, expected, solo, bounds>>

\* A member returns its state object, after building a new one if asked to.
Read(i) ==
  LET task == pool[i]
      m == task.member
      rebuilt == task.kind = "refresh" /\ m \in Rebuilds
  IN  /\ task.kind # "load"
      /\ pool' = RemoveAt(pool, i)
      /\ view' = IF rebuilt THEN Left(view, m) ELSE view
      /\ fut' = Set(IF rebuilt THEN [t \in Threads |-> Left(fut[t], m)] ELSE fut, task, Live)
      /\ UNCHANGED <<value, hydrated, shown, phase, call, rest, errors, detached, historyVars, bounds>>

\* The call raises.  An operation that failed is shown as one, or not at all.
Raise(i) ==
  LET task == pool[i]
      m == task.member
  IN  /\ faults < MaxFaults /\ faults' = faults + 1
      /\ pool' = RemoveAt(pool, i)
      /\ value' \in {value} \cup (IF task.kind = "load"
                                  THEN {[value EXCEPT ![m] = ERROR]} ELSE {})
      /\ fut' = Set(fut, task, "failed")
      /\ late' = IF task.by = None /\ value' # value THEN late \cup {m} ELSE late
      /\ UNCHANGED <<deviceVars, phase, call, rest, errors, detached, expected, solo, calls>>

Work(i) == Load(i) \/ Read(i) \/ Raise(i)

-----------------------------------------------------------------------------
(* Request threads.                                                        *)

\* A request arrives; the first one reads the members before anything else.
Begin(t, c) ==
  /\ phase[t] = "idle"
  /\ calls < MaxCalls /\ calls' = calls + 1
  /\ IF c.kind = "update"
     THEN /\ call' = [call EXCEPT ![t] = [kind |-> "load", arg |-> Head(c.arg)]]
          /\ rest' = [rest EXCEPT ![t] = Tail(c.arg)]
     ELSE call' = [call EXCEPT ![t] = c] /\ UNCHANGED rest
  /\ IF hydrated
     THEN phase' = [phase EXCEPT ![t] = "start"] /\ UNCHANGED <<pool, fut>>
     ELSE /\ phase' = [phase EXCEPT ![t] = "hydrate"]
          /\ pool' = pool \o Tasks(t, "read", None, Order)
          /\ fut' = Submitted(t, Order)
  /\ UNCHANGED <<value, deviceVars, errors, detached, historyVars, faults>>

\* __fan_out, first half.
FanOut(t) ==
  LET ms == Takers[call[t].arg]
      alone == \A i \in DOMAIN pool : pool[i].kind # "load"
  IN  /\ phase[t] = "start" /\ call[t].kind = "load"
      /\ phase' = [phase EXCEPT ![t] = "ops"]
      /\ pool' = pool \o Tasks(t, "load", call[t].arg, ms)
      /\ fut' = Submitted(t, ms)
      /\ expected' = None
      /\ solo' = IF alone THEN t ELSE None
      /\ UNCHANGED <<value, deviceVars, call, rest, errors, detached, late, bounds>>

\* __read_all_states in state().
ReadAll(t) ==
  /\ phase[t] = "start" /\ call[t].kind # "load"
  /\ phase' = [phase EXCEPT ![t] = "read"]
  /\ pool' = pool \o Tasks(t, call[t].kind, None, Order)
  /\ fut' = Submitted(t, Order)
  /\ UNCHANGED <<value, deviceVars, call, rest, errors, detached, historyVars, bounds>>

Pending(t) == {m \in Members : fut[t][m] = "pending"}

\* Mutant of Waited: only operations have a deadline.
WaitedForReads(t) ==
  \/ Pending(t) = {}
  \/ phase[t] = "ops" /\ \A i \in Running : pool[i].member \in Slow

\* wait(..., timeout): everything is there, or the deadline has passed, which
\* it does not while a member that answers promptly is at work.
Waited(t) == Pending(t) = {} \/ \A i \in Running : pool[i].member \in Slow

\* The states read in time.
Answered(t) == {m \in Members : fut[t][m] \in Refs}

\* Mutant of Merge: the result of every future is taken.
MergeAll(t) == IF t \in detached THEN view ELSE fut[t]

\* update_members, of the state that was current when the read began: members
\* that were not read keep what they had.
Merge(t) ==
  [m \in Members |-> IF m \in Answered(t) /\ t \notin detached THEN fut[t][m] ELSE view[m]]

\* _load_initial_state: a new state of the members that answered, whatever
\* another thread has made of the old one meanwhile.
Hydrate(t) ==
  /\ phase[t] = "hydrate" /\ Waited(t)
  /\ view' = [m \in Members |-> IF m \in Answered(t) THEN fut[t][m] ELSE None]
  /\ hydrated' = TRUE
  /\ detached' = detached \cup {u \in Threads : phase[u] \in {"after", "read"}}
  /\ phase' = [phase EXCEPT ![t] = "start"]
  /\ pool' = Orphaned(t)
  /\ fut' = [fut EXCEPT ![t] = Nobody]
  /\ UNCHANGED <<value, shown, call, rest, errors, historyVars, bounds>>

\* Mutant of Failures: a member that is late has not failed.
FailuresRaised(t) == {m \in Members : fut[t][m] = "failed"}

Failures(t) == {m \in Members : fut[t][m] \in {"failed", "pending"}}

\* __fan_out, second half, up to __refresh_members waiting for the members.
Gather(t) ==
  /\ phase[t] = "ops" /\ Waited(t)
  /\ errors' = [errors EXCEPT ![t] = Failures(t)]
  /\ phase' = [phase EXCEPT ![t] = "after"]
  /\ pool' = Orphaned(t) \o Tasks(t, "read", None, Order)
  /\ fut' = Submitted(t, Order)
  /\ expected' = IF solo = t /\ errors'[t] = {} THEN call[t].arg ELSE expected
  /\ UNCHANGED <<value, deviceVars, call, rest, detached, solo, late, bounds>>

\* What serialise() makes of the references.
Serialised(refs) == [m \in Members |-> IF refs[m] = Live THEN value[m] ELSE refs[m]]

\* Mutant of Sent: an operation that failed is not broadcast.
SentOnSuccess(t) ==
  /\ shown' = IF errors[t] = {} THEN Serialised(view') ELSE shown
  /\ late' = {m \in Members : view'[m] # Live}

\* _persist and _broadcast.  serialise() raises if no member ever answered.
Sent(t) ==
  /\ shown' = IF view' = Nobody THEN shown ELSE Serialised(view')
  /\ late' = {m \in Members : view'[m] # Live}

\* The members' states are taken over, and nobody waits any more.
Done(t) ==
  /\ Waited(t)
  /\ view' = Merge(t)
  /\ errors' = [errors EXCEPT ![t] = {}]
  /\ detached' = detached \ {t}
  /\ pool' = Orphaned(t)
  /\ fut' = [fut EXCEPT ![t] = Nobody]

Idle(t) ==
  /\ phase' = [phase EXCEPT ![t] = "idle"]
  /\ call' = [call EXCEPT ![t] = None]
  /\ rest' = [rest EXCEPT ![t] = None]

\* update: the next operation, if there is one and this one did not raise.
NextOperation(t) ==
  IF errors[t] = {} /\ rest[t] # <<>>
  THEN /\ phase' = [phase EXCEPT ![t] = "start"]
       /\ call' = [call EXCEPT ![t] = [kind |-> "load", arg |-> Head(rest[t])]]
       /\ rest' = [rest EXCEPT ![t] = Tail(rest[t])]
  ELSE /\ phase' = [phase EXCEPT ![t] = "close"]
       /\ UNCHANGED <<call, rest>>

\* __refresh_members is done: the call ends, with an exception if it failed.
Finish(t) ==
  /\ phase[t] = "after"
  /\ Done(t)
  /\ Sent(t)
  /\ IF rest[t] = None THEN Idle(t) ELSE NextOperation(t)
  /\ UNCHANGED <<value, hydrated, expected, solo, bounds>>

\* __update_slot: the entry is not in the catalogue, the update is given up.
UnknownEntry(t) ==
  /\ phase[t] = "start" /\ rest[t] # None
  /\ phase' = [phase EXCEPT ![t] = "close"]
  /\ UNCHANGED <<value, pool, deviceVars, call, rest, fut, errors, detached, historyVars, bounds>>

\* The update is done, or was given up.
Close(t) ==
  /\ phase[t] = "close"
  /\ UNCHANGED view /\ Sent(t)
  /\ Idle(t)
  /\ UNCHANGED <<value, pool, hydrated, fut, errors, detached, expected, solo, bounds>>

\* state() is done.
Return(t) ==
  /\ phase[t] = "read"
  /\ Done(t)
  /\ Idle(t)
  /\ UNCHANGED <<value, hydrated, shown, historyVars, bounds>>

\* A member can be addressed itself, and has a remote control.
Direct(m, v) ==
  /\ faults < MaxFaults /\ faults' = faults + 1
  /\ value' = [value EXCEPT ![m] = v]
  /\ expected' = None /\ solo' = None
  /\ late' = late \cup {m}
  /\ UNCHANGED <<pool, deviceVars, threadVars, calls>>

-----------------------------------------------------------------------------
ThreadStep(t) ==
  \/ FanOut(t) \/ ReadAll(t) \/ Hydrate(t) \/ Gather(t) \/ Finish(t)
  \/ UnknownEntry(t) \/ Close(t) \/ Return(t)

Next ==
  \/ \E t \in Threads : (\E c \in Requests[t] : Begin(t, c)) \/ ThreadStep(t)
  \/ \E i \in Running : Work(i)
  \/ \E m \in Members, v \in Values : Direct(m, v)

Spec == Init /\ [][Next]_vars

PromptWork == \E i \in Running : pool[i].member \notin Slow /\ Work(i)

\* Request threads run, and members that answer promptly do.  Slow members
\* need not answer at all.
Fairness == WF_vars(PromptWork) /\ \A t \in Threads : WF_vars(ThreadStep(t))

FairSpec == Spec /\ Fairness

-----------------------------------------------------------------------------
(* Properties.                                                             *)

AllIdle == \A t \in Threads : phase[t] = "idle"

\* Once an operation returned without an error every member that takes part
\* shows its result, until another operation begins - if it was the only one
\* under way, with none left over from a call that gave up.
InStep ==
  expected # None => \A m \in Range(Takers[expected]) : value[m] = expected

\* At rest the clients were last sent what the members show, whether the last
\* operation worked, failed or missed the deadline on some member - except
\* for members that changed after, or could not be read for, that broadcast.
ShownIsCurrent ==
  AllIdle /\ shown # Nobody => \A m \in Members \ late : shown[m] = value[m]

\* Every call ends, even if a slow member never answers and keeps its worker,
\* and whatever earlier calls have left in the pool.
CallsEnd == \A t \in Threads : phase[t] # "idle" ~> phase[t] = "idle"
=============================================================================
