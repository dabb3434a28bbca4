----------------------- MODULE PersistentDevice_proofs -----------------------
(***************************************************************************)
(* Theorems about PersistentDevice, for any number of threads, states,     *)
(* inodes and calls.                                                       *)
(***************************************************************************)
EXTENDS PersistentDevice, TLAPS

\* What a thread has in hand at each place of a call.
CallsOK ==
  \A t \in Threads :
    /\ pc[t] # "idle" => call[t] \in Call
    /\ pc[t] = "func" => call[t].kind = "update"
    /\ pc[t] \in {"dump", "close"} => fd[t] \in Inodes
    /\ pc[t] = "close" => buf[t] \in Values

\* What is restored, and from what, are states.
LEMMA RestoredState ==
  ASSUME NEW l \in Values, NEW c \in Values
  PROVE  /\ Restored(l, c) \in Values
         /\ Restored(Restored(l, c), c) = Restored(l, c)
         /\ Restored(c, c) = c
BY DEF Restored, Values

\* The part of the invariant that needs no assumption on overlapping calls.
BaseInv == TypeOK /\ CallsOK /\ StateIsLoaded

LEMMA InitBase == Init => BaseInv
<1> SUFFICES ASSUME Init PROVE BaseInv
  OBVIOUS
<1> USE PersistentDeviceAssumption DEF Init
<1>1. TypeOK
  <2>1. pc \in [Threads -> Places]
    BY DEF Places
  <2>2. call \in [Threads -> Call \cup {None}]
    OBVIOUS
  <2>3. content \in [Inodes -> Values \cup {Blank, Garbled}]
    OBVIOUS
  <2>4. QED
    BY <2>1, <2>2, <2>3 DEF TypeOK
<1>2. CallsOK
  BY DEF CallsOK
<1>3. StateIsLoaded
  BY DEF StateIsLoaded
<1>4. QED
  BY <1>1, <1>2, <1>3 DEF BaseInv

LEMMA NextBase == BaseInv /\ [Next]_vars => BaseInv'
<1> SUFFICES ASSUME BaseInv, [Next]_vars PROVE BaseInv'
  OBVIOUS
<1> USE PersistentDeviceAssumption
        DEF BaseInv, TypeOK, CallsOK, StateIsLoaded, Places, Go, files
<1>1. ASSUME NEW t \in Threads, NEW c \in Call, Begin(t, c) PROVE BaseInv'
  BY <1>1 DEF Begin, Call
<1>2. ASSUME NEW t \in Threads, Load(t) PROVE BaseInv'
  BY <1>2 DEF Load
<1>3. ASSUME NEW t \in Threads, LoadFails(t) PROVE BaseInv'
  BY <1>3 DEF LoadFails
<1>4. ASSUME NEW t \in Threads, Merge(t) PROVE BaseInv'
  <2>1. cur \in Values /\ cur # None
    BY <1>4 DEF Merge
  <2>2. cur' \in Values /\ cur' # None
    BY <1>4, <2>1, RestoredState DEF Merge
  <2>3. QED
    BY <1>4, <2>2 DEF Merge
<1>5. ASSUME NEW t \in Threads, Func(t) PROVE BaseInv'
  BY <1>5 DEF Func, Call
<1>6. ASSUME NEW t \in Threads, Open(t) PROVE BaseInv'
  BY <1>6 DEF Open
<1>7. ASSUME NEW t \in Threads, Dump(t) PROVE BaseInv'
  BY <1>7 DEF Dump
<1>8. ASSUME NEW t \in Threads, Close(t) PROVE BaseInv'
  BY <1>8 DEF Close
<1>9. ASSUME NEW t \in Threads, Replace(t) PROVE BaseInv'
  BY <1>9 DEF Replace
<1>10. ASSUME NEW t \in Threads, Message(t) PROVE BaseInv'
  BY <1>10 DEF Message
<1>11. ASSUME NEW t \in Threads, Send(t) PROVE BaseInv'
  BY <1>11 DEF Send
<1>12. CASE Restart
  BY <1>12 DEF Restart
<1>13. CASE UNCHANGED vars
  BY <1>13 DEF vars
<1>14. QED
  BY <1>1, <1>2, <1>3, <1>4, <1>5, <1>6, <1>7, <1>8, <1>9, <1>10, <1>11,
     <1>12, <1>13 DEF Next

\* The state has its type, for any interleaving of any number of calls.
THEOREM TypeCorrect == Spec => []TypeOK
<1>1. BaseInv => TypeOK
  BY DEF BaseInv
<1>2. QED
  BY InitBase, NextBase, <1>1, PTL DEF Spec

\* The assertions of _persist and __get_state_msg never fail, whatever calls
\* overlap and whenever the device is unreachable.
THEOREM StateLoaded == Spec => []StateIsLoaded
<1>1. BaseInv => StateIsLoaded
  BY DEF BaseInv
<1>2. QED
  BY InitBase, NextBase, <1>1, PTL DEF Spec

-----------------------------------------------------------------------------
(* Calls that do not overlap.                                              *)

OneCall == \A t, u \in Threads : pc[t] # "idle" /\ pc[u] # "idle" => t = u

\* What the one call under way has made of the temporary file and its buffer.
InHand ==
  \A t \in Threads :
    /\ fd[t] # None => pc[t] \in {"dump", "close"}
    /\ pc[t] \in {"dump", "close"} =>
         fd[t] = tmp /\ tmp \in Inodes /\ content[tmp] = Blank
    /\ pc[t] = "close" => buf[t] = cur
    /\ pc[t] = "replace" => tmp \in Inodes /\ content[tmp] = cur
    /\ pc[t] \in {"message", "send"} => json # None /\ content[json] = cur
    /\ pc[t] = "send" => buf[t] = cur

\* The cache file is whole and never the file being written.
FileWhole == json # None => content[json] \in Values /\ json # tmp

Settled == {"idle", "load", "func", "message", "send"}

\* Between a change and its save, and while hydrating, the copies differ.  A
\* state that is merged is fresh.
Agreement ==
  /\ \A t \in Threads : pc[t] = "merge" => cur \in Initial /\ reloaded
  /\ hydrated /\ json # None /\ (\A t \in Threads : pc[t] \in Settled)
       => /\ Restored(cur, content[json]) = cur
          /\ ~reloaded => content[json] = cur
  /\ shown # None => json # None
  /\ shown # None /\ (\A t \in Threads : pc[t] \notin {"message", "send"})
       => shown = content[json]

SerialInv == BaseInv /\ OneCall /\ InHand /\ FileWhole /\ Agreement

LEMMA InitSerial == Init => SerialInv
<1>1. Init => OneCall /\ InHand /\ FileWhole /\ Agreement
  BY DEF Init, OneCall, InHand, FileWhole, Agreement
<1>2. QED
  BY <1>1, InitBase DEF SerialInv

LEMMA NextSerial == ~Overlap /\ SerialInv /\ [Next]_vars => SerialInv'
<1> SUFFICES ASSUME ~Overlap, SerialInv, [Next]_vars PROVE SerialInv'
  OBVIOUS
<1> USE PersistentDeviceAssumption
<1>0. BaseInv'
  BY NextBase DEF SerialInv
<1> DEFINE Rest == OneCall /\ InHand /\ FileWhole /\ Agreement
<1> USE DEF SerialInv, BaseInv, TypeOK, CallsOK, OneCall, InHand, FileWhole,
            Agreement, Settled, Places, Go, files
<1>1. ASSUME NEW t \in Threads, NEW c \in Call, Begin(t, c) PROVE Rest'
  BY <1>1 DEF Begin, AllIdle
<1>2. ASSUME NEW t \in Threads, Load(t) PROVE Rest'
  BY <1>2 DEF Load
<1>3. ASSUME NEW t \in Threads, LoadFails(t) PROVE Rest'
  BY <1>3 DEF LoadFails
<1>4. ASSUME NEW t \in Threads, Merge(t) PROVE Rest'
  <2>1. \A u \in Threads : u # t => pc[u] = "idle" /\ pc'[u] = "idle"
    BY <1>4 DEF Merge
  <2>2. OneCall' /\ FileWhole' /\ InHand'
    BY <1>4, <2>1 DEF Merge
  <2>3. cur \in Values /\ reloaded
    BY <1>4 DEF Merge
  <2>4. json # None => Restored(cur', content[json]) = cur'
    BY <1>4, <2>3, RestoredState DEF Merge
  <2>5. Agreement'
    BY <1>4, <2>1, <2>3, <2>4 DEF Merge
  <2>6. QED
    BY <2>2, <2>5
<1>5. ASSUME NEW t \in Threads, Func(t) PROVE Rest'
  BY <1>5 DEF Func
<1>6. ASSUME NEW t \in Threads, Open(t) PROVE Rest'
  <2>1. \A u \in Threads : u # t => pc[u] = "idle" /\ pc'[u] = "idle"
    BY <1>6 DEF Open
  <2>2. OneCall' /\ FileWhole'
    BY <1>6, <2>1 DEF Open
  <2>3. InHand'
    BY <1>6, <2>1 DEF Open
  <2>4. Agreement'
    BY <1>6, <2>1 DEF Open
  <2>5. QED
    BY <2>2, <2>3, <2>4
<1>7. ASSUME NEW t \in Threads, Dump(t) PROVE Rest'
  BY <1>7 DEF Dump
<1>8. ASSUME NEW t \in Threads, Close(t) PROVE Rest'
  <2>1. \A u \in Threads : u # t => pc[u] = "idle" /\ pc'[u] = "idle"
    BY <1>8 DEF Close
  <2>2. OneCall' /\ FileWhole'
    BY <1>8, <2>1 DEF Close
  <2>3. InHand'
    BY <1>8, <2>1 DEF Close
  <2>4. Agreement'
    BY <1>8, <2>1 DEF Close
  <2>5. QED
    BY <2>2, <2>3, <2>4
<1>9. ASSUME NEW t \in Threads, Replace(t) PROVE Rest'
  <2>1. \A u \in Threads : u # t => pc[u] = "idle" /\ pc'[u] = "idle"
    BY <1>9 DEF Replace
  <2>0. tmp \in Inodes /\ content[tmp] = cur /\ cur \in Values
    BY <1>9 DEF Replace, StateIsLoaded
  <2>2. OneCall' /\ FileWhole'
    BY <1>9, <2>0, <2>1 DEF Replace
  <2>3. InHand'
    BY <1>9, <2>0, <2>1 DEF Replace
  <2>4. Agreement'
    <3>1. Restored(cur, cur) = cur
      BY <2>0, RestoredState
    <3>2. QED
      BY <1>9, <2>0, <2>1, <3>1 DEF Replace
  <2>5. QED
    BY <2>2, <2>3, <2>4
<1>10. ASSUME NEW t \in Threads, Message(t) PROVE Rest'
  BY <1>10 DEF Message
<1>11. ASSUME NEW t \in Threads, Send(t) PROVE Rest'
  <2>1. \A u \in Threads : u # t => pc[u] = "idle" /\ pc'[u] = "idle"
    BY <1>11 DEF Send
  <2>2. OneCall' /\ FileWhole'
    BY <1>11, <2>1 DEF Send
  <2>3. InHand'
    BY <1>11, <2>1 DEF Send
  <2>4. Agreement'
    BY <1>11, <2>1 DEF Send
  <2>5. QED
    BY <2>2, <2>3, <2>4
<1>12. ASSUME Restart PROVE Rest'
  <2>1. OneCall' /\ FileWhole'
    BY <1>12 DEF Restart
  <2>2. InHand'
    BY <1>12 DEF Restart
  <2>3. Agreement'
    BY <1>12 DEF Restart
  <2>4. QED
    BY <2>1, <2>2, <2>3
<1>13. ASSUME UNCHANGED vars PROVE Rest'
  <2>1. OneCall' /\ FileWhole'
    BY <1>13 DEF vars
  <2>2. InHand'
    BY <1>13 DEF vars
  <2>3. Agreement'
    BY <1>13 DEF vars
  <2>4. QED
    BY <2>1, <2>2, <2>3
<1>14. Rest'
  BY <1>1, <1>2, <1>3, <1>4, <1>5, <1>6, <1>7, <1>8, <1>9, <1>10, <1>11,
     <1>12, <1>13 DEF Next
<1>15. QED
  BY <1>0, <1>14

\* As long as calls do not overlap, whoever opens the cache file at any moment
\* finds a complete state in it, also after a crash in the middle of a save.
THEOREM WholeFile ==
  ASSUME ~Overlap
  PROVE  Spec => []NoPartialWrite
<1>1. SerialInv /\ [Next]_vars => SerialInv'
  BY NextSerial
<1>2. SerialInv => NoPartialWrite
  BY DEF SerialInv, FileWhole, NoPartialWrite
<1>3. QED
  BY InitSerial, <1>1, <1>2, PTL DEF Spec

\* As long as calls do not overlap, cache file and clients agree whenever the
\* device is at rest, whichever calls failed before, and memory agrees with them
\* in what is restored, or altogether if it was not loaded since.
THEOREM Agree ==
  ASSUME ~Overlap
  PROVE  Spec => []CopiesAgree
<1>1. SerialInv /\ [Next]_vars => SerialInv'
  BY NextSerial
<1>2. SerialInv => CopiesAgree
  BY DEF SerialInv, Agreement, Settled, AllIdle, CopiesAgree
<1>3. QED
  BY InitSerial, <1>1, <1>2, PTL DEF Spec

-----------------------------------------------------------------------------
(* Refinement.                                                             *)

LEMMA InitRegister == Init => Register!Init
  BY DEF Init, Register!Init, Disk

LEMMA NextRegister ==
  ~Overlap /\ SerialInv /\ [Next]_vars => [Register!Next]_<<cur, Disk>>
<1> SUFFICES ASSUME ~Overlap, SerialInv, [Next]_vars
             PROVE  [Register!Next]_<<cur, Disk>>
  OBVIOUS
<1> USE PersistentDeviceAssumption DEF SerialInv, BaseInv, TypeOK, Disk, files
<1> DEFINE Goal == [Register!Next]_<<cur, Disk>>
<1>1. ASSUME NEW t \in Threads, NEW c \in Call, Begin(t, c) PROVE Goal
  BY <1>1 DEF Begin
<1>2. ASSUME NEW t \in Threads, Load(t) PROVE Goal
  BY <1>2 DEF Load, Register!Next, Register!Reload
<1>3. ASSUME NEW t \in Threads, LoadFails(t) PROVE Goal
  BY <1>3 DEF LoadFails
<1>4. ASSUME NEW t \in Threads, Merge(t) PROVE Goal
  <2>1. cur \in Initial
    BY <1>4 DEF Merge, Go, Agreement
  <2>2. CASE json # None /\ content[json] \in Values
    BY <1>4, <2>1, <2>2 DEF Merge, Restored, Register!Next, Register!Reload
  <2>3. CASE ~(json # None /\ content[json] \in Values)
    BY <1>4, <2>3 DEF Merge
  <2>4. QED
    BY <2>2, <2>3
<1>5. ASSUME NEW t \in Threads, Func(t) PROVE Goal
  <2>1. cur # None /\ call[t].arg \in Values
    BY <1>5 DEF Func, Go, StateIsLoaded, CallsOK, Call
  <2>2. QED
    BY <1>5, <2>1 DEF Func, Register!Next, Register!Change
<1>6. ASSUME NEW t \in Threads, Open(t) PROVE Goal
  <2>1. json # None => content'[json] = content[json]
    BY <1>6 DEF Open, FileWhole
  <2>2. QED
    BY <1>6, <2>1 DEF Open
<1>7. ASSUME NEW t \in Threads, Dump(t) PROVE Goal
  BY <1>7 DEF Dump
<1>8. ASSUME NEW t \in Threads, Close(t) PROVE Goal
  <2>1. fd[t] = tmp
    BY <1>8 DEF Close, Go, InHand
  <2>2. json # None => content'[json] = content[json]
    BY <1>8, <2>1 DEF Close, FileWhole
  <2>3. QED
    BY <1>8, <2>2 DEF Close
<1>9. ASSUME NEW t \in Threads, Replace(t) PROVE Goal
  <2>1. tmp \in Inodes /\ content[tmp] = cur /\ cur # None
    BY <1>9 DEF Replace, Go, InHand, StateIsLoaded
  <2>2. QED
    BY <1>9, <2>1 DEF Replace, Register!Next, Register!Save
<1>10. ASSUME NEW t \in Threads, Message(t) PROVE Goal
  BY <1>10 DEF Message
<1>11. ASSUME NEW t \in Threads, Send(t) PROVE Goal
  BY <1>11 DEF Send
<1>12. CASE Restart
  BY <1>12 DEF Restart, Register!Next, Register!Crash
<1>13. CASE UNCHANGED vars
  BY <1>13 DEF vars
<1>14. QED
  BY <1>1, <1>2, <1>3, <1>4, <1>5, <1>6, <1>7, <1>8, <1>9, <1>10, <1>11,
     <1>12, <1>13 DEF Next

\* As long as calls do not overlap, the cache implements StateRegister: the
\* file changes only by being replaced whole by the state in memory, and what
\* a restart loads is that state.
THEOREM Refinement ==
  ASSUME ~Overlap
  PROVE  Spec => IsRegister
<1>1. SerialInv /\ [Next]_vars => SerialInv'
  BY NextSerial
<1>2. SerialInv /\ [Next]_vars => [Register!Next]_<<cur, Disk>>
  BY NextRegister
<1>3. QED
  BY InitSerial, InitRegister, <1>1, <1>2, PTL DEF Spec, IsRegister, Register!Spec
=============================================================================
