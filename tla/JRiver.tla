------------------------------- MODULE JRiver -------------------------------
(***************************************************************************)
(* J River Media Center (ezbeq/jriver.py, on top of ezbeq/device.py, class *)
(* PersistentDevice).                                                      *)
(*                                                                         *)
(* A zone's equaliser is one block of filters which ezbeq shares with the  *)
(* user.  To load or clear, ezbeq reads the whole block, removes what lies *)
(* between the marks it leaves around its own filters, appends new ones,   *)
(* writes the whole block and reads it again to see that it is there.      *)
(* Nothing keeps the block from changing between these requests.           *)
(*                                                                         *)
(* A catalogue entry stands for its title and its filters; the XML is left *)
(* out, but for the titles that break it.  Saving is one step here;        *)
(* PersistentDevice takes it apart.                                        *)
(***************************************************************************)
EXTENDS Ordered, SequencesExt

CONSTANTS
  Threads,     \* request threads
  Zones,       \* the zones of the server
  Entries,     \* catalogue entries
  Awkward,     \* entries whose title has a parenthesis or an ampersand
  Own,         \* filters that the user may add
  None,        \* no value
  MaxCalls,    \* bound on requests
  MaxFaults,   \* bound on requests to the server that fail, restarts of ezbeq
  MaxEdits     \* bound on what the user does

Empty == "Empty"
ERROR == "ERROR"
Titles == Entries \cup {Empty}

\* The marks around the filters of an entry, those filters, the user's.
Filter == [kind : {"start", "beq", "end"}, of : Entries] \cup [kind : {"own"}, of : Own]

\* What a request asks for, and what the device's picture may be.
Request == [zone : Zones, title : Titles]
Picture == [Zones -> Titles \cup {ERROR}]

\* What is assumed of the constants: no value is none of the others.
Constants ==
  /\ Awkward \subseteq Entries
  /\ {None, Empty, ERROR} \cap Entries = {}
  /\ None \notin Picture /\ None \notin Seq(Filter)
  /\ {MaxCalls, MaxFaults, MaxEdits} \subseteq Nat

VARIABLES
  block,            \* the filters of each zone
  hydrated, last,   \* the device's picture: the title of each zone
  file,             \* the titles in the cache file
  pc, op, sent,     \* what each thread does, its request, the block it writes
  own,              \* history: the user's filters as the user left them
  overrun,          \* history: zones the user changed between reading and writing
  overlap,          \* history: zones where calls overlapped
  doubt,            \* history: zones whose title may be wrong
  calls, faults, edits   \* counters for the bounds

slotVars == <<hydrated, last, file>>
callVars == <<pc, op, sent>>
historyVars == <<own, overrun, overlap, doubt>>
bounds == <<calls, faults, edits>>
vars == <<block, slotVars, callVars, historyVars, bounds>>

\* The type invariant.
TypeOK ==
  /\ block \in [Zones -> Seq(Filter)]
  /\ hydrated \in BOOLEAN
  /\ last \in Picture
  /\ file \in Picture \cup {None}
  /\ pc \in [Threads -> {"idle", "get", "post", "verify"}]
  /\ op \in [Threads -> Request \cup {None}]
  /\ sent \in [Threads -> Seq(Filter)]
  /\ own \in [Zones -> Seq(Filter)]
  /\ overrun \subseteq Zones /\ overlap \subseteq Zones /\ doubt \subseteq Zones
  /\ {calls, faults, edits} \subseteq Nat

-----------------------------------------------------------------------------
(* The block: include_filters_in_dsp, remove_beq_filter.                   *)

\* What ezbeq appends for an entry.
Section(e) == <<[kind |-> "start", of |-> e], [kind |-> "beq", of |-> e],
                [kind |-> "end", of |-> e]>>

Marks(fs, kind) == {i \in DOMAIN fs : fs[i].kind = kind}

Owned(fs) == Picked(fs, Marks(fs, "own"))
Ours(fs) == Picked(fs, DOMAIN fs \ Marks(fs, "own"))

\* The first end mark, and the last start mark before it or, without an end
\* mark, of all: where the loop over the filters leaves its two indices.
EndMark(fs) == Min(Marks(fs, "end") \cup {Len(fs) + 1})
StartMark(fs) == Max({i \in Marks(fs, "start") : i < EndMark(fs)} \cup {0})

\* It raises on marks that do not match, and on text that is not XML.
Broken(fs) ==
  \/ \E i \in DOMAIN fs : fs[i].kind \in {"start", "end"} /\ fs[i].of \in Awkward
  \/ /\ Marks(fs, "end") # {}
     /\ StartMark(fs) = 0 \/ fs[StartMark(fs)].of # fs[EndMark(fs)].of
  \/ Marks(fs, "end") = {} /\ Marks(fs, "start") # {}

\* Mutant of Without: what follows the start mark goes.
WithoutRest(fs) ==
  IF Marks(fs, "start") = {} THEN fs ELSE SubSeq(fs, 1, StartMark(fs) - 1)

\* remove_beq_filter: the section goes.
Without(fs) ==
  IF Marks(fs, "start") = {} THEN fs
  ELSE SubSeq(fs, 1, StartMark(fs) - 1) \o SubSeq(fs, EndMark(fs) + 1, Len(fs))

\* __remove_all_beq: until there are no more, None if it raises.
Again(fs) == IF fs = None \/ Broken(fs) THEN None ELSE Without(fs)

Removed(fs) ==
  LET step[n \in 0..(Len(fs) + 1)] == IF n = 0 THEN fs ELSE Again(step[n - 1])
  IN  step[Cardinality(Marks(fs, "start")) + 1]

Appended(fs, t) == IF t = Empty THEN fs ELSE fs \o Section(t)

-----------------------------------------------------------------------------
(* Calls.                                                                  *)

\* A filter of the user's.
Lone(o) == <<[kind |-> "own", of |-> o]>>

\* What ezbeq may find in a zone: filters of the user, what it left earlier.
Found ==
  {<<>>} \cup {Lone(o) \o Section(e) : o \in Own, e \in Entries}
         \cup {Section(e) \o Lone(o) \o Section(d) : o \in Own, e, d \in Entries}

Init ==
  /\ block \in [Zones -> Found]
  /\ hydrated = FALSE /\ last = [z \in Zones |-> Empty] /\ file = None
  /\ pc = [t \in Threads |-> "idle"] /\ op = [t \in Threads |-> None]
  /\ sent = [t \in Threads |-> <<>>]
  /\ own = [z \in Zones |-> Owned(block[z])]
  /\ overrun = {} /\ overlap = {}
  /\ doubt = {z \in Zones : Ours(block[z]) # <<>>}
  /\ calls = 0 /\ faults = 0 /\ edits = 0

Fault == faults < MaxFaults /\ faults' = faults + 1

\* _hydrate, which does something in the first call only.
Hydrate ==
  /\ hydrated' = TRUE
  /\ last' = IF hydrated \/ file = None THEN last ELSE file

At(t, z) == pc[t] # "idle" /\ op[t].zone = z

\* load_filter and clear_filter.
Begin(t) ==
  /\ pc[t] = "idle"
  /\ calls < MaxCalls /\ calls' = calls + 1
  /\ Hydrate
  /\ pc' = [pc EXCEPT ![t] = "get"]
  /\ \E r \in Request :
       /\ op' = [op EXCEPT ![t] = r]
       /\ overlap' = IF \E u \in Threads : At(u, r.zone)
                     THEN overlap \cup {r.zone} ELSE overlap \ {r.zone}
  /\ UNCHANGED <<block, file, sent, own, overrun, doubt, faults, edits>>

\* A request for the state.
State ==
  /\ ~hydrated
  /\ Hydrate
  /\ UNCHANGED <<block, file, callVars, historyVars, bounds>>

\* The call is over, the state is saved and broadcast.
End(t) ==
  /\ file' = last'
  /\ pc' = [pc EXCEPT ![t] = "idle"] /\ op' = [op EXCEPT ![t] = None]
  /\ sent' = [sent EXCEPT ![t] = <<>>]

\* set_title.
Succeed(t) ==
  /\ last' = [last EXCEPT ![op[t].zone] = op[t].title]
  /\ doubt' = IF op[t].zone \in overlap
              THEN doubt \cup {op[t].zone} ELSE doubt \ {op[t].zone}
  /\ End(t)

\* Mutant of Fail: the old title stays, for a clear too.
FailQuietly(t) ==
  /\ last' = last
  /\ doubt' = IF op[t].title # Empty /\ (pc[t] = "verify" \/ block' # block)
              THEN doubt \cup {op[t].zone} ELSE doubt
  /\ End(t)

\* What set_dsp raised is handled.  The handler of a load raises itself, having
\* changed nothing: the state of a J River has no slot.
Fail(t) ==
  /\ last' = IF op[t].title = Empty THEN [last EXCEPT ![op[t].zone] = ERROR] ELSE last
  /\ doubt' = IF op[t].title # Empty /\ (pc[t] = "verify" \/ block' # block)
              THEN doubt \cup {op[t].zone} ELSE doubt
  /\ End(t)

\* get_dsp, __remove_all_beq, include_filters_in_dsp: raise, or make the block.
\* A clear with nothing to remove writes nothing.
Get(t) ==
  /\ pc[t] = "get"
  /\ LET read == block[op[t].zone]
         bare == Removed(read)
     IN  \/ /\ Fault
            /\ UNCHANGED <<last, doubt>> /\ End(t)
         \/ /\ bare = None
            /\ UNCHANGED <<last, doubt, faults>> /\ End(t)
         \/ /\ bare = read /\ op[t].title = Empty
            /\ Succeed(t) /\ UNCHANGED faults
         \/ /\ bare # None /\ (bare # read \/ op[t].title # Empty)
            /\ sent' = [sent EXCEPT ![t] = Appended(bare, op[t].title)]
            /\ pc' = [pc EXCEPT ![t] = "post"]
            /\ UNCHANGED <<last, file, op, doubt, faults>>
  /\ UNCHANGED <<block, hydrated, own, overrun, overlap, calls, edits>>

\* set_dsp: the block is written; it may be rejected, or the answer be late.
Post(t) ==
  /\ pc[t] = "post"
  /\ \/ /\ block' = [block EXCEPT ![op[t].zone] = sent[t]]
        /\ pc' = [pc EXCEPT ![t] = "verify"]
        /\ UNCHANGED <<last, file, op, sent, doubt, faults>>
     \/ /\ block' \in {block, [block EXCEPT ![op[t].zone] = sent[t]]}
        /\ Fault /\ Fail(t)
  /\ UNCHANGED <<hydrated, own, overrun, overlap, calls, edits>>

\* set_dsp: it is read again.
Verify(t) ==
  /\ pc[t] = "verify"
  /\ \/ block[op[t].zone] = sent[t] /\ Succeed(t) /\ UNCHANGED faults
     \/ block[op[t].zone] # sent[t] /\ Fail(t) /\ UNCHANGED faults
     \/ Fault /\ Fail(t)
  /\ UNCHANGED <<block, hydrated, own, overrun, overlap, calls, edits>>

-----------------------------------------------------------------------------
(* Outside.                                                                *)

\* The user adds a filter at the end, or removes one of his own, or of ezbeq -
\* but no more of these once a mark is missing: what has neither mark is his.
Removable(fs) ==
  IF Cardinality(Marks(fs, "start")) = Cardinality(Marks(fs, "end"))
  THEN DOMAIN fs ELSE Marks(fs, "own")

Edit(z) ==
  /\ edits < MaxEdits /\ edits' = edits + 1
  /\ \/ \E o \in Own : block' = [block EXCEPT ![z] = Append(@, [kind |-> "own", of |-> o])]
     \/ \E i \in Removable(block[z]) : block' = [block EXCEPT ![z] = RemoveAt(@, i)]
  /\ own' = [own EXCEPT ![z] = Owned(block'[z])]
  /\ overrun' = IF \E t \in Threads : At(t, z) /\ pc[t] = "post"
                THEN overrun \cup {z} ELSE overrun
  /\ doubt' = IF Ours(block'[z]) # Ours(block[z]) THEN doubt \cup {z} ELSE doubt
  /\ UNCHANGED <<slotVars, callVars, overlap, calls, faults>>

\* ezbeq is killed and started again.
Restart ==
  /\ Fault
  /\ hydrated' = FALSE /\ last' = [z \in Zones |-> Empty]
  /\ pc' = [t \in Threads |-> "idle"] /\ op' = [t \in Threads |-> None]
  /\ sent' = [t \in Threads |-> <<>>]
  /\ doubt' = doubt \cup {op[t].zone : t \in {u \in Threads : pc[u] = "verify"}}
  /\ UNCHANGED <<block, file, own, overrun, overlap, calls, edits>>

Next ==
  \/ State \/ Restart
  \/ \E t \in Threads : Begin(t) \/ Get(t) \/ Post(t) \/ Verify(t)
  \/ \E z \in Zones : Edit(z)

Spec == Init /\ [][Next]_vars

-----------------------------------------------------------------------------
(* Properties.                                                             *)

\* No call loses or adds a filter of the user, whatever marks it meets - unless
\* the user changed the zone after the call had read it.
OthersKept == \A z \in Zones \ overrun : Owned(block[z]) = own[z]

\* Between calls, the title shown for a zone says exactly what ezbeq has in it:
\* one whole section, or nothing.  Excepted are a load that failed after it had
\* written, calls of the zone that overlapped, and a user who changed the section.
TitleMeansLoaded ==
  \A z \in Zones \ doubt :
    hydrated /\ last[z] # ERROR /\ (\A t \in Threads : ~At(t, z))
      => Ours(block[z]) = Appended(<<>>, last[z])
=============================================================================
