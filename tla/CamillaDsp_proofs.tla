-------------------------- MODULE CamillaDsp_proofs --------------------------
(***************************************************************************)
(* Proofs about CamillaDsp, for any threads, entries, gains and requests.  *)
(*                                                                         *)
(* TypeCorrect says that replies are never taken for another kind of       *)
(* reply.  MasterIsTrue rests on two invariants: QueueInv, the order of    *)
(* messages about the master, and MasterInv, what refreshes and saves make *)
(* of what the DSP told.  TitleIsTrue and GainsAreTrue rest on UpdateInv:  *)
(* as long as no update left messages for another and no refresh met a     *)
(* change or a save, all that is under way leads to one configuration, and *)
(* all that is shown, saved or being merged agrees with it.                *)
(***************************************************************************)
EXTENDS CamillaDsp, TLAPS

USE CamillaAssumption DEF Update

-----------------------------------------------------------------------------
(* Type correctness.                                                       *)

\* A thread about to start an update has a change to make.
TypeInv ==
  TypeOK /\ \A t \in Threads : pc[t] \in {"check", "claim", "ask"} => op[t] \in Change

LEMMA HeadIn ==
  ASSUME NEW S, NEW s \in Seq(S), s # <<>>
  PROVE  Head(s) \in S /\ Tail(s) \in Seq(S)
OBVIOUS

LEMMA AppendIn ==
  ASSUME NEW S, NEW s \in Seq(S), NEW x \in S
  PROVE  Append(s, x) \in Seq(S)
OBVIOUS

LEMMA ConcatIn ==
  ASSUME NEW S, NEW s \in Seq(S), NEW r \in Seq(S)
  PROVE  s \o r \in Seq(S)
OBVIOUS

\* A change with an entry has a title, and makes a configuration of one.
LEMMA ChangeShape ==
  ASSUME NEW c \in Change
  PROVE  /\ c.kind \in {"load", "gain"} /\ c.gain \in Gains
         /\ c.kind = "load" => c.title \in Titles
         /\ \A cfg \in Config : Create(c, cfg) \in Config
BY DEF Change, Create, Config

\* A setting of the master, and the master after it.
LEMMA SettingShape ==
  /\ \A s \in Setting : s.of \in Controls /\ s.to \in Values(s.of)
  /\ \A c \in Controls : \A v \in Values(c) : [of |-> c, to |-> v] \in Setting
BY DEF Setting

LEMMA MasterSet ==
  ASSUME NEW m \in Master, NEW s \in Setting
  PROVE  /\ [m EXCEPT ![s.of] = s.to] \in Master
         /\ \A c \in Controls :
              [m EXCEPT ![s.of] = s.to][c] = IF c = s.of THEN s.to ELSE m[c]
<1>1. s.of \in Controls /\ s.to \in Values(s.of)
  BY SettingShape
<1>2. QED
  BY <1>1 DEF Master, Values

LEMMA MasterShape ==
  ASSUME NEW m \in Master
  PROVE  /\ m["volume"] \in Volumes /\ m["mute"] \in BOOLEAN
         /\ \A c \in Controls : m[c] \in Values(c) /\ [of |-> c, to |-> m[c]] \in Setting
<1>1. \A c \in Controls : m[c] \in Values(c)
  BY DEF Master
<1>2. QED
  BY <1>1, SettingShape DEF Controls, Values

\* The master made of a volume and a mute.
LEMMA MasterMade ==
  ASSUME NEW v \in Volumes, NEW b \in BOOLEAN
  PROVE  [c \in Controls |-> IF c = "mute" THEN b ELSE v] \in Master
BY DEF Master, Controls, Values

LEMMA FirstMasterType == FirstMaster \in Master
BY MasterMade DEF FirstMaster

\* What is saved can be read again.
LEMMA PictureType ==
  ASSUME TypeOK
  PROVE  /\ Picture \in Saved
         /\ Picture.last = last /\ Picture.gains = gains /\ Picture.volume = master["volume"]
BY MasterShape DEF TypeOK, Picture, Saved

LEMMA PictureAfter ==
  ASSUME TypeInv'
  PROVE  /\ Picture' \in Saved
         /\ Picture'.last = last' /\ Picture'.gains = gains'
         /\ Picture'.volume = master'["volume"]
<1>1. last' \in Lasts /\ gains' \in Gains \cup {None} /\ master' \in Master
  BY DEF TypeInv, TypeOK
<1>2. master'["volume"] \in Volumes
  BY <1>1, MasterShape
<1>3. QED
  BY <1>1, <1>2 DEF Picture, Saved

LEMMA SavedShape ==
  ASSUME NEW s \in Saved
  PROVE  s.last \in Lasts /\ s.gains \in Gains \cup {None} /\ s.volume \in Volumes
BY DEF Saved

\* What a reply carries follows from what it replies to.
LEMMA ReplyShape ==
  ASSUME NEW r \in Reply
  PROVE  /\ r.to \in {"GetConfig", "SetConfig", "GetMaster"} /\ r.ok \in BOOLEAN
         /\ r.to = "GetConfig" => r.arg \in Config
         /\ r.to = "GetMaster" => r.arg \in Setting
BY DEF Reply

LEMMA CommandShape ==
  ASSUME NEW m \in Command
  PROVE  /\ m.cmd \in {"GetConfig", "GetMaster", "SetConfig", "SetMaster"}
         /\ m.cmd = "SetConfig" => m.arg \in Config
         /\ m.cmd = "SetMaster" => m.arg \in Setting
         /\ m.cmd = "GetMaster" => m.arg \in Controls
BY DEF Command

LEMMA Commands ==
  /\ Msg("GetConfig", None) \in Command
  /\ \A c \in Controls : Msg("GetMaster", c) \in Command
  /\ \A cfg \in Config : Msg("SetConfig", cfg) \in Command
  /\ \A s \in Setting : Msg("SetMaster", s) \in Command
  /\ \A what, v : Msg(what, v).cmd = what /\ Msg(what, v).arg = v
BY DEF Msg, Command

LEMMA GainsOfType ==
  ASSUME TypeOK, NEW cfg \in Config
  PROVE  GainsOf(cfg) \in Gains \cup {None}
BY DEF TypeOK, GainsOf, Config

LEMMA InitTypeInv == Init => TypeInv
<1>1. SUFFICES ASSUME Init PROVE TypeInv
  OBVIOUS
<1>2. config \in Config /\ last \in Titles
  BY <1>1 DEF Init, Config, Titles
<1>3. /\ toDsp \in Seq(Command) /\ toUs \in Seq(Reply)
      /\ pc \in [Threads -> {"idle", "check", "claim", "ask", "save", "read", "merge"}]
      /\ op \in [Threads -> Change \cup {None}]
      /\ read \in [Threads -> Saved \cup {None}]
  BY <1>1 DEF Init
<1>4. /\ rejects = 0 /\ calls = 0 /\ troubles = 0
      /\ crossed = FALSE /\ torn = FALSE /\ clashed = FALSE /\ forgot = {}
      /\ updater = None /\ gains = None /\ master = FirstMaster /\ output \in Outputs
  BY <1>1 DEF Init
<1>5. /\ {rejects, calls, troubles} \subseteq Nat
      /\ {crossed, torn, clashed} \subseteq BOOLEAN
      /\ master \in Master /\ output \in Master
  <2>1. {rejects, calls, troubles} \subseteq Nat
    BY <1>4
  <2>2. {crossed, torn, clashed} \subseteq BOOLEAN
    BY <1>4
  <2>3. master \in Master /\ output \in Master
    BY <1>4, FirstMasterType
  <2>4. QED
    BY <2>1, <2>2, <2>3
<1>6. saved \in Saved
  <2>1. saved = [last |-> last, gains |-> None, volume |-> master["volume"]]
    BY <1>1, <1>4 DEF Init, Picture
  <2>2. last \in Lasts /\ master["volume"] \in Volumes
    BY <1>2, <1>5, MasterShape DEF Lasts
  <2>3. QED
    BY <2>1, <2>2 DEF Saved
<1>7. QED
  BY <1>1, <1>2, <1>3, <1>4, <1>5, <1>6 DEF Init, TypeInv, TypeOK, Lasts

\* A call ends, and its save is due.
LEMMA FinishTypes ==
  ASSUME TypeInv, NEW t \in Threads, Finish(t), UNCHANGED <<clashed, op>>
  PROVE  /\ pc' \in [Threads -> {"idle", "check", "claim", "ask", "save", "read", "merge"}]
         /\ \A u \in Threads : pc'[u] \in {"check", "claim", "ask"} => op'[u] \in Change
         /\ {crossed', torn', clashed'} \subseteq BOOLEAN /\ forgot' \subseteq Controls
<1>1. Saving \in BOOLEAN /\ Refreshing \in BOOLEAN
  BY DEF Saving, Refreshing
<1>2. QED
  BY <1>1 DEF Finish, Disturb, Controls, TypeInv, TypeOK

LEMMA ThreadTypes ==
  ASSUME TypeInv, NEW t \in Threads, Call(t) \/ ThreadStep(t)
  PROVE  TypeInv'
<1> USE DEF dspVars, netVars, slotVars, fileVars, bounds
<1>0. Saving \in BOOLEAN /\ Refreshing \in BOOLEAN
  BY DEF Saving, Refreshing
<1>1. ASSUME NEW c \in Requests, Begin(t, c) PROVE TypeInv'
  <2>1. c \in Change
    OBVIOUS
  <2>2. last' \in Lasts
    BY <1>1, <2>1 DEF Begin, TypeInv, TypeOK, Lasts
  <2>3. QED
    BY <1>0, <1>1, <2>1, <2>2 DEF Begin, TypeInv, TypeOK
<1>2. ASSUME Check(t) PROVE TypeInv'
  <2>1. CASE updater = None
    BY <1>2, <2>1 DEF Check, TypeInv, TypeOK
  <2>2. CASE updater # None
    <3>1. Raise(t) /\ UNCHANGED <<clashed, op>>
      BY <1>2, <2>2 DEF Check
    <3>2. last' \in Lasts
      BY <3>1 DEF Raise, TypeInv, TypeOK, Lasts
    <3>3. QED
      BY <1>2, <3>1, <3>2, FinishTypes DEF Check, Raise, TypeInv, TypeOK
  <2>3. QED
    BY <2>1, <2>2
<1>3. ASSUME Claim(t) PROVE TypeInv'
  BY <1>3 DEF Claim, TypeInv, TypeOK
<1>4. ASSUME Ask(t) PROVE TypeInv'
  <2>1. toDsp' \in Seq(Command) /\ stale' \in BOOLEAN
    <3>1. <<Msg("GetConfig", None)>> \in Seq(Command)
      BY Commands
    <3>2. toDsp \o <<Msg("GetConfig", None)>> \in Seq(Command)
      BY <3>1, ConcatIn DEF TypeInv, TypeOK
    <3>3. QED
      BY <1>4, <3>2 DEF Ask, Send, TypeInv, TypeOK
  <2>2. Finish(t) /\ UNCHANGED <<clashed, op>> /\ last' \in Lasts
    BY <1>4 DEF Ask, Raise, TypeInv, TypeOK, Lasts
  <2>3. QED
    BY <1>4, <2>1, <2>2, FinishTypes DEF Ask, TypeInv, TypeOK
<1>5. ASSUME NEW s \in Settings, SetMaster(t, s) PROVE TypeInv'
  <2> DEFINE both == <<Msg("SetMaster", s), Msg("GetMaster", s.of)>>
  <2>1. both \in Seq(Command)
    BY Commands, SettingShape
  <2>2. toDsp \o both \in Seq(Command)
    BY <2>1, ConcatIn DEF TypeInv, TypeOK
  <2>3. toDsp' \in Seq(Command) /\ stale' \in BOOLEAN
    BY <1>5, <2>2 DEF SetMaster, Send, TypeInv, TypeOK
  <2>4. Finish(t) /\ UNCHANGED <<clashed, op>>
    BY <1>5 DEF SetMaster
  <2>5. QED
    BY <1>5, <2>3, <2>4, FinishTypes DEF SetMaster, TypeInv, TypeOK
<1>6. ASSUME Save(t) PROVE TypeInv'
  <2>1. saved' \in Saved \cup {None}
    BY <1>6, PictureType DEF Save, TypeInv, TypeOK
  <2>2. QED
    BY <1>6, <2>1 DEF Save, TypeInv, TypeOK
<1>7. ASSUME Refresh(t) PROVE TypeInv'
  <2>1. last' \in Lasts /\ gains' \in Gains \cup {None} /\ master' \in Master
    BY <1>7, FirstMasterType DEF Refresh, Lasts, Titles
  <2>2. crossed' \in BOOLEAN /\ forgot' \subseteq Controls
    BY <1>0, <1>7 DEF Refresh, Disturb, Controls, TypeInv, TypeOK
  <2>3. QED
    BY <1>7, <2>1, <2>2 DEF Refresh, TypeInv, TypeOK
<1>8. ASSUME ReadFile(t) PROVE TypeInv'
  BY <1>8 DEF ReadFile, Disturb, Controls, TypeInv, TypeOK
<1>9. ASSUME Merge(t) PROVE TypeInv'
  <2>1. /\ last' \in Lasts /\ gains' \in Gains \cup {None} /\ master' \in Master
        /\ forgot' \subseteq Controls
    <3>1. CASE read[t] = None
      BY <1>9, <3>1 DEF Merge, TypeInv, TypeOK
    <3>2. CASE read[t] # None
      <4>1. read[t] \in Saved /\ master["mute"] \in BOOLEAN
        BY <3>2, MasterShape DEF TypeInv, TypeOK
      <4>2. PICK m \in {master["mute"]} \cup (IF Refreshing' THEN {FALSE} ELSE {}) :
              /\ master' = [c \in Controls |-> IF c = "mute" THEN m ELSE read[t].volume]
              /\ forgot' = IF m = master["mute"] THEN forgot ELSE forgot \cup {"mute"}
        BY <1>9, <3>2 DEF Merge
      <4>3. m \in BOOLEAN
        BY <4>1
      <4>4. QED
        BY <1>9, <3>2, <4>1, <4>2, <4>3, SavedShape, MasterMade DEF Merge, Controls, TypeInv, TypeOK
    <3>3. QED
      BY <3>1, <3>2
  <2>2. QED
    BY <1>9, <2>1 DEF Merge, TypeInv, TypeOK
<1>10. QED
  BY <1>1, <1>2, <1>3, <1>4, <1>5, <1>6, <1>7, <1>8, <1>9 DEF Call, ThreadStep

\* A handler saves what it has made of the state, and remembers what it did.
LEMMA PersistTypes ==
  ASSUME TypeInv, Persist, NEW lost \in SUBSET Controls, Changed(lost),
         last' \in Lasts, gains' \in Gains \cup {None}, master' \in Master
  PROVE  /\ saved' \in Saved \cup {None} /\ {crossed', torn'} \subseteq BOOLEAN
         /\ forgot' \subseteq Controls
<1>1. Saving \in BOOLEAN /\ Refreshing \in BOOLEAN /\ Crossing \in BOOLEAN
  BY DEF Saving, Refreshing, Crossing
<1>2. Picture \in Saved
  BY PictureType DEF TypeInv
<1>3. Picture' \in Saved
  BY MasterShape DEF Picture, Saved
<1>4. QED
  BY <1>1, <1>2, <1>3 DEF Persist, Changed, Disturb, Controls, TypeInv, TypeOK

LEMMA HandleTypes ==
  ASSUME TypeInv, Handle
  PROVE  TypeInv'
<1> USE DEF dspVars, netVars, slotVars, fileVars, bounds
<1>1. ASSUME NEW what, Take(what)
      PROVE  toUs' \in Seq(Reply) /\ Head(toUs) \in Reply /\ Head(toUs).to = what
  BY <1>1, HeadIn DEF Take, TypeInv, TypeOK
<1>0. Saving \in BOOLEAN /\ Refreshing \in BOOLEAN /\ Crossing \in BOOLEAN /\ forgot \in SUBSET Controls
  BY DEF Saving, Refreshing, Crossing, TypeInv, TypeOK
<1>2. CASE OnGetConfig
  <2> DEFINE cfg == Head(toUs).arg
             new == Create(updater.change, cfg)
  <2>1. /\ cfg \in Config /\ toUs' \in Seq(Reply) /\ master' = master
    BY <1>1, <1>2, ReplyShape DEF OnGetConfig
  <2>2. CASE ~Head(toUs).ok /\ updater = None
    BY <1>2, <2>1, <2>2 DEF OnGetConfig, TypeInv, TypeOK
  <2>3. CASE ~Head(toUs).ok /\ updater # None
    <3>1. /\ Failed /\ Persist /\ Changed(forgot) /\ UNCHANGED <<toDsp, stale>>
      BY <1>2, <2>3 DEF OnGetConfig
    <3>2. /\ last' \in Lasts /\ updater' \in {updater, None} /\ UNCHANGED gains
          /\ clashed' \in {clashed, TRUE}
      BY <3>1 DEF Failed, TypeInv, TypeOK, Lasts
    <3>3. /\ saved' \in Saved \cup {None} /\ {crossed', torn'} \subseteq BOOLEAN
          /\ forgot' \subseteq Controls
      BY <1>0, <2>1, <3>1, <3>2, PersistTypes DEF TypeInv, TypeOK
    <3>4. QED
      BY <1>2, <2>1, <3>1, <3>2, <3>3 DEF OnGetConfig, TypeInv, TypeOK
  <2>4. CASE Head(toUs).ok
    <3>1. /\ gains' \in Gains \cup {None} /\ last' = last
          /\ Persist /\ Changed(forgot) /\ clashed' \in {clashed, TRUE}
      BY <1>2, <2>1, <2>4, GainsOfType DEF OnGetConfig, Clash, NoClash, TypeInv
    <3>2. /\ saved' \in Saved \cup {None} /\ {crossed', torn'} \subseteq BOOLEAN
          /\ forgot' \subseteq Controls
      BY <1>0, <2>1, <3>1, PersistTypes DEF TypeInv, TypeOK
    <3>3. /\ updater' \in Update \cup {None}
          /\ toDsp' \in Seq(Command) /\ stale' \in BOOLEAN
      <4>1. CASE UNCHANGED <<updater, toDsp, stale>>
        BY <4>1 DEF TypeInv, TypeOK
      <4>2. CASE updater # None /\ updater' = [updater EXCEPT !.cfg = cfg] /\ UNCHANGED <<toDsp, stale>>
        BY <2>1, <4>2 DEF TypeInv, TypeOK
      <4>3. CASE /\ updater # None /\ updater' = [updater EXCEPT !.cfg = new]
                 /\ Send(<<Msg("SetConfig", new)>>)
        <5>1. new \in Config
          BY <2>1, <4>3, ChangeShape DEF TypeInv, TypeOK
        <5>2. <<Msg("SetConfig", new)>> \in Seq(Command)
          BY <5>1, Commands
        <5>3. toDsp \o <<Msg("SetConfig", new)>> \in Seq(Command)
          BY <5>2, ConcatIn DEF TypeInv, TypeOK
        <5>4. QED
          BY <4>3, <5>1, <5>3 DEF Send, TypeInv, TypeOK
      <4>4. QED
        BY <1>2, <2>4, <4>1, <4>2, <4>3 DEF OnGetConfig
    <3>4. QED
      BY <1>2, <2>1, <3>1, <3>2, <3>3 DEF OnGetConfig, TypeInv, TypeOK
  <2>5. QED
    BY <2>2, <2>3, <2>4
<1>3. CASE OnSetConfig
  <2>1. toUs' \in Seq(Reply) /\ master' = master
    BY <1>1, <1>3 DEF OnSetConfig
  <2>2. CASE updater = None
    BY <1>3, <2>1, <2>2 DEF OnSetConfig, TypeInv, TypeOK
  <2>3. CASE updater # None
    <3>1. /\ last' \in Lasts /\ gains' \in Gains \cup {None} /\ release' \in BOOLEAN
          /\ updater' \in {updater, None} /\ clashed' \in {clashed, TRUE}
          /\ Persist /\ Changed(forgot)
      <4>1. CASE ~Head(toUs).ok
        BY <1>3, <2>3, <4>1 DEF OnSetConfig, Failed, TypeInv, TypeOK, Lasts
      <4>2. CASE Head(toUs).ok
        <5>1. updater.change \in Change /\ updater.cfg \in Config \cup {None}
          BY <2>3 DEF TypeInv, TypeOK
        <5>2. updater.cfg # None => GainsOf(updater.cfg) \in Gains \cup {None}
          BY <5>1, GainsOfType DEF TypeInv
        <5>3. gains' \in {gains, updater.change.gain, GainsOf(updater.cfg)}
              /\ (gains' = GainsOf(updater.cfg) => updater.cfg # None \/ gains' \in {gains, updater.change.gain})
          BY <1>3, <2>3, <4>2 DEF OnSetConfig
        <5>4. gains' \in Gains \cup {None}
          BY <5>1, <5>2, <5>3, ChangeShape DEF TypeInv, TypeOK
        <5>5. last' \in Lasts
          BY <1>3, <2>3, <4>2, <5>1, ChangeShape DEF OnSetConfig, TypeInv, TypeOK, Lasts
        <5>6. QED
          BY <1>3, <2>3, <4>2, <5>4, <5>5 DEF OnSetConfig, Clash, NoClash, TypeInv, TypeOK
      <4>3. QED
        BY <4>1, <4>2
    <3>2. /\ saved' \in Saved \cup {None} /\ {crossed', torn'} \subseteq BOOLEAN
          /\ forgot' \subseteq Controls
      BY <1>0, <2>1, <3>1, PersistTypes DEF TypeInv, TypeOK
    <3>3. UNCHANGED <<config, output, link, stale, toDsp, master, read, pc, op, rejects, calls, troubles>>
      BY <1>3 DEF OnSetConfig
    <3>4. QED
      BY <2>1, <3>1, <3>2, <3>3 DEF TypeInv, TypeOK
  <2>4. QED
    BY <2>2, <2>3
<1>4. CASE Release
  BY <1>0, <1>4 DEF Release, TypeInv, TypeOK
<1>5. CASE OnGetMaster
  <2> DEFINE s == Head(toUs).arg
  <2>1. /\ toUs' \in Seq(Reply) /\ s \in Setting
        /\ master' = Answered(s) /\ Persist /\ Changed(forgot \ {s.of})
    BY <1>1, <1>5, ReplyShape DEF OnGetMaster
  <2>2. master' \in Master /\ UNCHANGED <<last, gains>>
    <3>1. master \in Master
      BY DEF TypeInv, TypeOK
    <3>2. master' = [master EXCEPT ![s.of] = s.to]
      BY <2>1 DEF Answered
    <3>3. UNCHANGED <<last, gains>>
      BY <1>5 DEF OnGetMaster
    <3>4. QED
      BY <2>1, <3>1, <3>2, <3>3, MasterSet
  <2>3. forgot \ {s.of} \in SUBSET Controls
    BY <1>0
  <2>4. /\ saved' \in Saved \cup {None} /\ {crossed', torn'} \subseteq BOOLEAN
        /\ forgot' \subseteq Controls
    BY <2>1, <2>2, <2>3, PersistTypes DEF TypeInv, TypeOK
  <2>5. QED
    BY <1>5, <2>1, <2>2, <2>4 DEF OnGetMaster, TypeInv, TypeOK
<1>6. QED
  BY <1>2, <1>3, <1>4, <1>5 DEF Handle

LEMMA DspTypes ==
  ASSUME TypeInv, Dsp
  PROVE  TypeInv'
<1>1. /\ Head(toDsp) \in Command /\ toDsp' \in Seq(Command)
  BY HeadIn DEF Dsp, TypeInv, TypeOK
<1>2. ASSUME NEW what, NEW ok, NEW arg, Answer(what, ok, arg),
             [to |-> what, ok |-> ok, arg |-> arg] \in Reply
      PROVE  toUs' \in Seq(Reply)
  BY <1>2, AppendIn DEF Answer, TypeInv, TypeOK
<1>3. /\ config' \in Config /\ output' \in Master /\ {rejects', troubles'} \subseteq Nat
      /\ toUs' \in Seq(Reply)
  <2>1. CASE Head(toDsp).cmd = "GetConfig"
    <3>1. /\ [to |-> "GetConfig", ok |-> TRUE, arg |-> config] \in Reply
          /\ [to |-> "GetConfig", ok |-> FALSE, arg |-> config] \in Reply
      BY DEF Reply, TypeInv, TypeOK
    <3>2. /\ \E ok \in BOOLEAN : Answer("GetConfig", ok, config)
          /\ rejects' \in {rejects, rejects + 1} /\ troubles' \in {troubles, troubles + 1}
          /\ UNCHANGED dspVars
      BY <2>1 DEF Dsp
    <3>3. toUs' \in Seq(Reply)
      BY <1>2, <3>1, <3>2
    <3>4. {rejects', troubles'} \subseteq Nat
      BY <3>2 DEF TypeInv, TypeOK
    <3>5. QED
      BY <3>2, <3>3, <3>4 DEF TypeInv, TypeOK, dspVars
  <2>2. CASE Head(toDsp).cmd = "SetConfig"
    <3>1. \A ok \in BOOLEAN : [to |-> "SetConfig", ok |-> ok, arg |-> None] \in Reply
      BY DEF Reply
    <3>2. QED
      BY <1>1, <1>2, <2>2, <3>1, CommandShape DEF Dsp, TypeInv, TypeOK, dspVars
  <2>3. CASE Head(toDsp).cmd = "SetMaster"
    <3>1. output' = [output EXCEPT ![Head(toDsp).arg.of] = Head(toDsp).arg.to]
          /\ UNCHANGED <<config, toUs, rejects, troubles>>
      BY <2>3 DEF Dsp
    <3>2. QED
      BY <1>1, <2>3, <3>1, CommandShape, MasterSet DEF TypeInv, TypeOK
  <2>4. CASE Head(toDsp).cmd = "GetMaster"
    <3> DEFINE s == [of |-> Head(toDsp).arg, to |-> output[Head(toDsp).arg]]
    <3>1. s \in Setting
      BY <1>1, <2>4, CommandShape, MasterShape DEF TypeInv, TypeOK
    <3>2. [to |-> "GetMaster", ok |-> TRUE, arg |-> s] \in Reply
      BY <3>1 DEF Reply
    <3>3. QED
      BY <1>2, <2>4, <3>2 DEF Dsp, TypeInv, TypeOK, dspVars
  <2>5. QED
    BY <1>1, <2>1, <2>2, <2>3, <2>4, CommandShape
<1>4. QED
  BY <1>1, <1>3 DEF Dsp, TypeInv, TypeOK, slotVars, fileVars

LEMMA NextTypeInv == TypeInv /\ [Next]_vars => TypeInv'
<1>1. SUFFICES ASSUME TypeInv, [Next]_vars PROVE TypeInv'
  OBVIOUS
<1>2. ASSUME Drop PROVE TypeInv'
  BY <1>1, <1>2 DEF Drop, TypeInv, TypeOK, dspVars, slotVars, fileVars
<1>3. ASSUME Open PROVE TypeInv'
  <2>1. <<Msg("GetConfig", None), Msg("GetMaster", "volume"), Msg("GetMaster", "mute")>>
          \in Seq(Command)
    BY Commands DEF Controls
  <2>2. QED
    BY <1>1, <1>3, <2>1 DEF Open, TypeInv, TypeOK, dspVars, slotVars, fileVars, bounds
<1>4. ASSUME UNCHANGED vars PROVE TypeInv'
  BY <1>1, <1>4 DEF vars, dspVars, netVars, slotVars, fileVars, bounds, TypeInv, TypeOK
<1>5. QED
  BY <1>1, <1>2, <1>3, <1>4, ThreadTypes, HandleTypes, DspTypes DEF Next

\* Whatever order replies come in, whoever lost a connection half way, no
\* handler finds something in a reply that it does not expect there.
THEOREM TypeCorrect == Spec => []TypeOK
<1>1. TypeInv => TypeOK
  BY DEF TypeInv
<1>2. QED
  BY InitTypeInv, NextTypeInv, <1>1, PTL DEF Spec

-----------------------------------------------------------------------------
(* The master.                                                             *)

\* A command about one of its controls, and an answer about it.
About(m, c) ==
  \/ m.cmd = "SetMaster" /\ m.arg.of = c
  \/ m.cmd = "GetMaster" /\ m.arg = c

Of(r, c) == r.to = "GetMaster" /\ r.arg.of = c

\* No command about it is on its way to the DSP, and no answer to ezbeq.
NoneAsked(c) == \A i \in 1..Len(toDsp) : ~About(toDsp[i], c)
NoAnswer(c) == \A i \in 1..Len(toUs) : ~Of(toUs[i], c)

\* Every change of the master is followed by a question how it came out.
Followed ==
  \A i \in 1..Len(toDsp) : toDsp[i].cmd = "SetMaster" =>
    \E j \in 1..Len(toDsp) : i < j /\ toDsp[j].cmd = "GetMaster" /\ toDsp[j].arg = toDsp[i].arg.of

\* The last answer under way is right.
AnswersRight(c) ==
  \A i \in 1..Len(toUs) : Of(toUs[i], c) =>
    \/ toUs[i].arg.to = output[c]
    \/ \E j \in 1..Len(toUs) : i < j /\ Of(toUs[j], c)

QueueInv ==
  /\ Followed
  /\ \A c \in Controls : link = "up" /\ NoneAsked(c) => AnswersRight(c)

\* The DSP has told all there is to tell.
Known(c) == link = "up" /\ NoneAsked(c) /\ NoAnswer(c)

\* Wherever the volume is to be taken from, it is v.
VolumeIs(v) ==
  /\ ~Refreshing => master["volume"] = v
  /\ ~torn /\ ~Saving => saved # None /\ saved.volume = v
  /\ \A t \in Threads : pc[t] = "merge" => read[t] # None /\ read[t].volume = v

\* What a refresh has not lost is what the DSP told.
MasterInv ==
  /\ "mute" \notin forgot => (Known("mute") => master["mute"] = output["mute"])
  /\ "volume" \notin forgot =>
       ~(Saving /\ Refreshing) /\ (Known("volume") => VolumeIs(output["volume"]))

\* A step tells nothing about the master; what was known is.
NothingTold == \A c \in Controls : Known(c)' => Known(c) /\ output'[c] = output[c]

LEMMA TailAt ==
  ASSUME NEW S, NEW s \in Seq(S), s # <<>>
  PROVE  /\ Len(s) \in Nat \ {0} /\ Len(Tail(s)) = Len(s) - 1
         /\ \A i \in 1..Len(Tail(s)) : Tail(s)[i] = s[i + 1]
         /\ Head(s) = s[1]
OBVIOUS

LEMMA AppendAt ==
  ASSUME NEW S, NEW s \in Seq(S), NEW x
  PROVE  /\ Len(s) \in Nat /\ Len(Append(s, x)) = Len(s) + 1
         /\ \A i \in 1..Len(s) : Append(s, x)[i] = s[i]
         /\ Append(s, x)[Len(s) + 1] = x
OBVIOUS

\* A reply that is taken leaves the last answer the last, or was it.
LEMMA AnswerTaken ==
  ASSUME TypeInv, toUs # <<>>, toUs' = Tail(toUs), NEW c, output'[c] = output[c],
         AnswersRight(c)
  PROVE  /\ AnswersRight(c)'
         /\ NoAnswer(c)' /\ ~NoAnswer(c) => Of(Head(toUs), c) /\ Head(toUs).arg.to = output[c]
<1>1. /\ Len(toUs) \in Nat \ {0} /\ Len(toUs') = Len(toUs) - 1
      /\ \A i \in 1..Len(toUs') : toUs'[i] = toUs[i + 1]
      /\ Head(toUs) = toUs[1]
  BY TailAt DEF TypeInv, TypeOK
<1>2. ASSUME NEW j \in 1..Len(toUs), 1 < j
      PROVE  j - 1 \in 1..Len(toUs') /\ toUs'[j - 1] = toUs[j]
  BY <1>1, <1>2
<1>3. ASSUME NEW i \in 1..Len(toUs'), Of(toUs'[i], c), toUs'[i].arg.to # output[c]
      PROVE  \E j \in 1..Len(toUs') : i < j /\ Of(toUs'[j], c)
  <2>1. /\ i + 1 \in 1..Len(toUs) /\ Of(toUs[i + 1], c)
        /\ toUs[i + 1].arg.to # output[c]
    BY <1>1, <1>3
  <2>2. PICK j \in 1..Len(toUs) : i + 1 < j /\ Of(toUs[j], c)
    BY <2>1 DEF AnswersRight
  <2>3. 1 < j /\ i < j - 1
    BY <1>1, <2>2
  <2>4. QED
    BY <1>2, <2>2, <2>3
<1>4. AnswersRight(c)'
  BY <1>3 DEF AnswersRight
<1>5. ASSUME NoAnswer(c)', ~NoAnswer(c)
      PROVE  Of(Head(toUs), c) /\ Head(toUs).arg.to = output[c]
  <2>1. \A j \in 1..Len(toUs) : 1 < j => ~Of(toUs[j], c)
    BY <1>2, <1>5 DEF NoAnswer
  <2>2. PICK i \in 1..Len(toUs) : Of(toUs[i], c)
    BY <1>5 DEF NoAnswer
  <2>3. i = 1
    BY <1>1, <2>1, <2>2
  <2>4. QED
    BY <1>1, <2>1, <2>2, <2>3 DEF AnswersRight
<1>6. QED
  BY <1>4, <1>5

\* Nothing is sent that is about the master, and no answer about it is taken.
LEMMA NothingAsked ==
  ASSUME TypeInv, QueueInv, UNCHANGED <<output, link>>,
         toDsp' = toDsp \/ \E m \in Command : /\ m.cmd \in {"GetConfig", "SetConfig"}
                                             /\ Send(<<m>>),
         \/ toUs' = toUs
         \/ toUs # <<>> /\ toUs' = Tail(toUs) /\ Head(toUs).to # "GetMaster"
  PROVE  QueueInv' /\ NothingTold
<1>1. toDsp \in Seq(Command) /\ toUs \in Seq(Reply)
  BY DEF TypeInv, TypeOK
<1>2. /\ Len(toDsp) \in Nat /\ Len(toDsp) <= Len(toDsp') /\ Len(toDsp') \in Nat
      /\ \A i \in 1..Len(toDsp) : toDsp'[i] = toDsp[i]
      /\ \A i \in 1..Len(toDsp') :
           toDsp'[i].cmd \in {"SetMaster", "GetMaster"} => i \in 1..Len(toDsp)
  <2>1. CASE toDsp' = toDsp
    BY <1>1, <2>1
  <2>2. ASSUME NEW m \in Command, m.cmd \in {"GetConfig", "SetConfig"}, toDsp' = toDsp \o <<m>>
        PROVE  <1>2
    <3>1. /\ Len(toDsp \o <<m>>) = Len(toDsp) + 1
          /\ \A i \in 1..Len(toDsp) : (toDsp \o <<m>>)[i] = toDsp[i]
          /\ (toDsp \o <<m>>)[Len(toDsp) + 1] = m
      BY <1>1
    <3>2. QED
      BY <1>1, <2>2, <3>1
  <2>3. QED
    BY <2>1, <2>2 DEF Send
<1>3. Followed'
  <2>1. SUFFICES ASSUME NEW i \in 1..Len(toDsp'), toDsp'[i].cmd = "SetMaster"
                 PROVE  \E j \in 1..Len(toDsp') :
                          i < j /\ toDsp'[j].cmd = "GetMaster" /\ toDsp'[j].arg = toDsp'[i].arg.of
    BY DEF Followed
  <2>2. i \in 1..Len(toDsp) /\ toDsp'[i] = toDsp[i]
    BY <1>2, <2>1
  <2>3. PICK j \in 1..Len(toDsp) :
          i < j /\ toDsp[j].cmd = "GetMaster" /\ toDsp[j].arg = toDsp[i].arg.of
    BY <2>1, <2>2 DEF QueueInv, Followed
  <2>4. j \in 1..Len(toDsp') /\ toDsp'[j] = toDsp[j]
    BY <1>2
  <2>5. QED
    BY <2>2, <2>3, <2>4
<1>4. ASSUME NEW c \in Controls, link' = "up", NoneAsked(c)'
      PROVE  AnswersRight(c)' /\ (NoAnswer(c)' => Known(c) /\ output'[c] = output[c])
  <2>1. NoneAsked(c)
    BY <1>2, <1>4 DEF NoneAsked
  <2>2. AnswersRight(c) /\ link = "up"
    BY <1>4, <2>1 DEF QueueInv
  <2>3. CASE toUs' = toUs
    BY <2>1, <2>2, <2>3 DEF AnswersRight, NoAnswer, Known
  <2>4. CASE toUs # <<>> /\ toUs' = Tail(toUs) /\ Head(toUs).to # "GetMaster"
    BY <2>1, <2>2, <2>4, AnswerTaken DEF Of, Known
  <2>5. QED
    BY <2>3, <2>4
<1>5. QED
  BY <1>3, <1>4 DEF QueueInv, NothingTold, Known

\* A change of the master is sent with a question after it.
LEMMA MasterAsked ==
  ASSUME TypeInv, QueueInv, NEW s \in Setting, UNCHANGED <<output, link, toUs>>,
         Send(<<Msg("SetMaster", s), Msg("GetMaster", s.of)>>)
  PROVE  QueueInv' /\ NothingTold
<1> DEFINE both == <<Msg("SetMaster", s), Msg("GetMaster", s.of)>>
           n == Len(toDsp)
<1>1. toDsp \in Seq(Command)
  BY DEF TypeInv, TypeOK
<1>2. CASE link # "up"
  BY <1>2 DEF QueueInv, Followed, NothingTold, Known, Send
<1>3. CASE link = "up"
  <2>1. toDsp' = toDsp \o both
    BY <1>3 DEF Send
  <2>2. /\ n \in Nat /\ Len(toDsp') = n + 2
        /\ \A i \in 1..n : toDsp'[i] = toDsp[i]
        /\ toDsp'[n + 1] = both[1] /\ toDsp'[n + 2] = both[2]
    BY <1>1, <2>1
  <2>3. /\ toDsp'[n + 1].cmd = "SetMaster" /\ toDsp'[n + 1].arg = s
        /\ toDsp'[n + 2].cmd = "GetMaster" /\ toDsp'[n + 2].arg = s.of
        /\ n + 2 \in 1..Len(toDsp')
    BY <2>2, Commands
  <2>4. Followed'
    <3>1. SUFFICES ASSUME NEW i \in 1..Len(toDsp'), toDsp'[i].cmd = "SetMaster"
                   PROVE  \E j \in 1..Len(toDsp') :
                            i < j /\ toDsp'[j].cmd = "GetMaster" /\ toDsp'[j].arg = toDsp'[i].arg.of
      BY DEF Followed
    <3>2. i # n + 2
      BY <2>3, <3>1
    <3>3. CASE i = n + 1
      BY <2>2, <2>3, <3>3
    <3>4. CASE i \in 1..n
      <4>1. PICK j \in 1..n : i < j /\ toDsp[j].cmd = "GetMaster" /\ toDsp[j].arg = toDsp[i].arg.of
        BY <2>2, <3>1, <3>4 DEF QueueInv, Followed
      <4>2. QED
        BY <2>2, <3>4, <4>1
    <3>5. QED
      BY <2>2, <3>2, <3>3, <3>4
  <2>5. ASSUME NEW c \in Controls, NoneAsked(c)'
        PROVE  NoneAsked(c)
    BY <2>2, <2>5 DEF NoneAsked
  <2>6. QED
    BY <2>4, <2>5 DEF QueueInv, NothingTold, Known, AnswersRight, NoAnswer
<1>4. QED
  BY <1>2, <1>3

\* The answer that is taken is the last, or another follows.
LEMMA MasterAnswered ==
  ASSUME TypeInv, QueueInv, OnGetMaster
  PROVE  /\ QueueInv' /\ UNCHANGED output
         /\ \A c \in Controls : Known(c)' =>
              \/ Known(c)
              \/ Head(toUs).arg.of = c /\ Head(toUs).arg.to = output[c]
<1>1. /\ toUs # <<>> /\ toUs' = Tail(toUs) /\ UNCHANGED <<toDsp, link, output>>
  BY DEF OnGetMaster, Take, dspVars
<1>2. Followed' /\ \A c \in Controls : NoneAsked(c)' <=> NoneAsked(c)
  BY <1>1 DEF QueueInv, Followed, NoneAsked
<1>3. ASSUME NEW c \in Controls, link = "up", NoneAsked(c)
      PROVE  /\ AnswersRight(c)'
             /\ NoAnswer(c)' /\ ~NoAnswer(c) => Of(Head(toUs), c) /\ Head(toUs).arg.to = output[c]
  BY <1>1, <1>3, AnswerTaken DEF QueueInv
<1>4. QED
  BY <1>1, <1>2, <1>3 DEF QueueInv, Known, Of

\* The DSP answers with the master it has, after all changes sent before.
LEMMA MasterAtDsp ==
  ASSUME TypeInv, QueueInv, Dsp
  PROVE  QueueInv' /\ NothingTold
<1>1. /\ toDsp \in Seq(Command) /\ toUs \in Seq(Reply) /\ toDsp # <<>>
      /\ toDsp' = Tail(toDsp) /\ UNCHANGED link
      /\ Head(toDsp) \in Command /\ output \in Master
  BY HeadIn DEF Dsp, TypeInv, TypeOK
<1>2. /\ Len(toDsp) \in Nat \ {0} /\ Len(toDsp') = Len(toDsp) - 1
      /\ \A i \in 1..Len(toDsp') : toDsp'[i] = toDsp[i + 1]
      /\ Head(toDsp) = toDsp[1] /\ 1 \in 1..Len(toDsp)
  BY <1>1, TailAt
<1>3. ASSUME NEW j \in 1..Len(toDsp), 1 < j
      PROVE  j - 1 \in 1..Len(toDsp') /\ toDsp'[j - 1] = toDsp[j]
  BY <1>2, <1>3
<1>4. Followed'
  <2>1. SUFFICES ASSUME NEW i \in 1..Len(toDsp'), toDsp'[i].cmd = "SetMaster"
                 PROVE  \E j \in 1..Len(toDsp') :
                          i < j /\ toDsp'[j].cmd = "GetMaster" /\ toDsp'[j].arg = toDsp'[i].arg.of
    BY DEF Followed
  <2>2. /\ i + 1 \in 1..Len(toDsp) /\ toDsp[i + 1].cmd = "SetMaster"
        /\ toDsp'[i] = toDsp[i + 1]
    BY <1>2, <2>1
  <2>3. PICK j \in 1..Len(toDsp) :
          i + 1 < j /\ toDsp[j].cmd = "GetMaster" /\ toDsp[j].arg = toDsp[i + 1].arg.of
    BY <2>2 DEF QueueInv, Followed
  <2>4. 1 < j /\ i < j - 1
    BY <1>2, <2>3
  <2>5. QED
    BY <1>3, <2>2, <2>3, <2>4
<1>5. ASSUME NEW c \in Controls, NoneAsked(c)', ~About(Head(toDsp), c)
      PROVE  NoneAsked(c)
  <2>1. ASSUME NEW i \in 1..Len(toDsp), About(toDsp[i], c) PROVE FALSE
    <3>1. 1 < i
      BY <1>2, <1>5, <2>1
    <3>2. QED
      BY <1>3, <1>5, <2>1, <3>1 DEF NoneAsked
  <2>2. QED
    BY <2>1 DEF NoneAsked
<1>6. ASSUME NEW c \in Controls, link = "up", NoneAsked(c)', NEW r,
             toUs' = Append(toUs, r), output'[c] = output[c],
             \/ ~About(Head(toDsp), c) /\ ~Of(r, c)
             \/ Of(r, c) /\ r.arg.to = output[c]
      PROVE  AnswersRight(c)' /\ (Known(c)' => Known(c) /\ output'[c] = output[c])
  <2>1. /\ Len(toUs) \in Nat /\ Len(toUs') = Len(toUs) + 1
        /\ \A i \in 1..Len(toUs) : toUs'[i] = toUs[i]
        /\ toUs'[Len(toUs) + 1] = r /\ Len(toUs) + 1 \in 1..Len(toUs')
        /\ \A i \in 1..Len(toUs') : i \in 1..Len(toUs) \/ i = Len(toUs) + 1
    BY <1>1, <1>6, AppendAt
  <2>2. CASE ~About(Head(toDsp), c) /\ ~Of(r, c)
    <3>1. NoneAsked(c) /\ AnswersRight(c)
      BY <1>5, <1>6, <2>2 DEF QueueInv
    <3>2. \A i \in 1..Len(toUs) : i \in 1..Len(toUs')
      BY <2>1
    <3>3. AnswersRight(c)'
      BY <1>6, <2>1, <2>2, <3>1, <3>2 DEF AnswersRight
    <3>4. NoAnswer(c)' => NoAnswer(c)
      BY <2>1, <3>2 DEF NoAnswer
    <3>5. QED
      BY <1>6, <3>1, <3>3, <3>4 DEF Known
  <2>3. CASE Of(r, c) /\ r.arg.to = output[c]
    <3>1. \A i \in 1..Len(toUs) : i < Len(toUs) + 1
      BY <2>1
    <3>2. AnswersRight(c)' /\ ~NoAnswer(c)'
      BY <1>6, <2>1, <2>3, <3>1 DEF AnswersRight, NoAnswer
    <3>3. QED
      BY <3>2 DEF Known
  <2>4. QED
    BY <1>6, <2>2, <2>3
<1>7. ASSUME NEW c \in Controls, link' = "up", NoneAsked(c)'
      PROVE  AnswersRight(c)' /\ (Known(c)' => Known(c) /\ output'[c] = output[c])
  <2>1. CASE Head(toDsp).cmd = "SetMaster"
    <3>1. /\ output' = [output EXCEPT ![Head(toDsp).arg.of] = Head(toDsp).arg.to]
          /\ toUs' = toUs
      BY <2>1 DEF Dsp
    <3>2. Head(toDsp).arg.of # c
      <4>1. SUFFICES ASSUME Head(toDsp).arg.of = c PROVE FALSE
        OBVIOUS
      <4>2. PICK j \in 1..Len(toDsp) : 1 < j /\ toDsp[j].cmd = "GetMaster" /\ toDsp[j].arg = c
        BY <1>2, <2>1, <4>1 DEF QueueInv, Followed
      <4>3. QED
        BY <1>3, <1>7, <4>2 DEF NoneAsked, About
    <3>3. output'[c] = output[c]
      BY <1>1, <2>1, <3>1, <3>2, CommandShape, MasterSet
    <3>4. NoneAsked(c)
      BY <1>5, <1>7, <2>1, <3>2 DEF About
    <3>5. QED
      BY <1>1, <1>7, <3>1, <3>3, <3>4 DEF QueueInv, AnswersRight, Known, NoAnswer
  <2>2. CASE Head(toDsp).cmd = "GetMaster"
    <3> DEFINE s == [of |-> Head(toDsp).arg, to |-> output[Head(toDsp).arg]]
               r == [to |-> "GetMaster", ok |-> TRUE, arg |-> s]
    <3>1. toUs' = Append(toUs, r) /\ output' = output
      BY <2>2 DEF Dsp, Answer, dspVars
    <3>2. /\ r.to = "GetMaster" /\ r.arg.of = Head(toDsp).arg
          /\ r.arg.to = output[Head(toDsp).arg]
      OBVIOUS
    <3> HIDE DEF r
    <3>3. QED
      BY <1>1, <1>6, <1>7, <2>2, <3>1, <3>2 DEF Of, About
  <2>3. CASE Head(toDsp).cmd \in {"GetConfig", "SetConfig"}
    <3>1. PICK r : toUs' = Append(toUs, r) /\ r.to # "GetMaster"
      BY <2>3 DEF Dsp, Answer
    <3>2. output' = output
      BY <2>3 DEF Dsp, dspVars
    <3>3. ~About(Head(toDsp), c) /\ ~Of(r, c)
      BY <2>3, <3>1 DEF About, Of
    <3>4. QED
      BY <1>1, <1>6, <1>7, <3>1, <3>2, <3>3
  <2>4. QED
    BY <1>1, <2>1, <2>2, <2>3, CommandShape
<1>8. QED
  BY <1>1, <1>4, <1>7 DEF QueueInv, NothingTold, Known

\* Who saves and who refreshes after a thread has moved.
LEMMA Moved ==
  ASSUME TypeInv, NEW t \in Threads, NEW x, pc' = [pc EXCEPT ![t] = x]
  PROVE  /\ pc'[t] = x /\ \A u \in Threads : u # t => pc'[u] = pc[u]
         /\ Saving' <=> x = "save" \/ \E u \in Threads : u # t /\ pc[u] = "save"
         /\ Refreshing' <=> \/ x \in {"read", "merge"}
                            \/ \E u \in Threads : u # t /\ pc[u] \in {"read", "merge"}
BY DEF Saving, Refreshing, TypeInv, TypeOK

\* What is shown and what is in the file stay what they are.
LEMMA StateKept ==
  ASSUME MasterInv, NothingTold, UNCHANGED <<master, saved, read, forgot>>,
         torn => torn', Saving' <=> Saving, Refreshing' <=> Refreshing,
         \A t \in Threads : pc'[t] = "merge" => pc[t] = "merge"
  PROVE  MasterInv'
BY DEF MasterInv, NothingTold, VolumeIs, Controls

\* A call ends, and its save is due.
LEMMA StateFinished ==
  ASSUME TypeInv, MasterInv, NothingTold, UNCHANGED <<master, saved, read>>,
         NEW t \in Threads, Finish(t), pc[t] \notin {"save", "read", "merge"}
  PROVE  MasterInv'
<1>1. /\ Saving' /\ (Refreshing' <=> Refreshing)
      /\ \A u \in Threads : pc'[u] = "merge" => pc[u] = "merge"
  BY Moved DEF Finish, Refreshing
<1>2. /\ forgot \subseteq forgot' /\ (Refreshing => "volume" \in forgot')
  BY DEF Finish, Disturb
<1>3. QED
  BY <1>1, <1>2 DEF MasterInv, NothingTold, VolumeIs, Controls

\* The save itself: nobody refreshes, or the volume is given up anyway.
LEMMA StateSaved ==
  ASSUME TypeInv, MasterInv, NothingTold, NEW t \in Threads, Save(t)
  PROVE  MasterInv'
<1>1. /\ pc[t] = "save" /\ UNCHANGED <<master, read, forgot, torn>>
      /\ pc' = [pc EXCEPT ![t] = "idle"] /\ (~torn => saved' = Picture)
  BY DEF Save
<1>2. /\ Saving /\ (Refreshing' <=> Refreshing)
      /\ \A u \in Threads : pc'[u] = "merge" => pc[u] = "merge"
  BY <1>1, Moved DEF Refreshing, Saving
<1>3. Picture.volume = master["volume"] /\ Picture # None
  BY PictureType DEF TypeInv
<1>4. QED
  BY <1>1, <1>2, <1>3 DEF MasterInv, NothingTold, VolumeIs, Controls

\* A refresh starts: what is lost for good is the mute.
LEMMA StateRefreshed ==
  ASSUME TypeInv, MasterInv, NothingTold, NEW t \in Threads, Refresh(t)
  PROVE  MasterInv'
<1>1. /\ pc[t] = "idle" /\ master' = FirstMaster /\ UNCHANGED <<saved, torn, read>>
      /\ pc' = [pc EXCEPT ![t] = "read"]
      /\ forgot \subseteq forgot' /\ (Saving => "volume" \in forgot')
      /\ master["mute"] => "mute" \in forgot'
  BY DEF Refresh, Disturb, fileVars
<1>2. /\ Refreshing' /\ (Saving' <=> Saving)
      /\ \A u \in Threads : pc'[u] = "merge" => pc[u] = "merge"
  <2>1. /\ pc'[t] = "read" /\ \A u \in Threads : u # t => pc'[u] = pc[u]
    BY <1>1, Moved
  <2>2. QED
    BY <1>1, <2>1 DEF Refreshing, Saving
<1>3. master["mute"] \in BOOLEAN /\ FirstMaster["mute"] = FALSE
  BY MasterShape DEF TypeInv, TypeOK, FirstMaster, Controls
<1>4. QED
  BY <1>1, <1>2, <1>3 DEF MasterInv, NothingTold, VolumeIs, Controls

\* The file is read, and holds the volume unless saves spoilt it.
LEMMA StateRead ==
  ASSUME TypeInv, MasterInv, NothingTold, NEW t \in Threads, ReadFile(t)
  PROVE  MasterInv'
<1>1. /\ pc[t] = "read" /\ read' = [read EXCEPT ![t] = saved]
      /\ UNCHANGED <<master, saved, torn>> /\ pc' = [pc EXCEPT ![t] = "merge"]
      /\ forgot \subseteq forgot' /\ (torn => "volume" \in forgot')
  BY DEF ReadFile, Disturb, fileVars
<1>2. /\ Refreshing /\ Refreshing' /\ (Saving' <=> Saving)
      /\ \A u \in Threads : pc'[u] = "merge" => u = t \/ pc[u] = "merge"
  BY <1>1, Moved DEF Saving, Refreshing
<1>3. /\ read'[t] = saved /\ \A u \in Threads : u # t => read'[u] = read[u]
  BY <1>1 DEF TypeInv, TypeOK
<1>4. ASSUME "volume" \notin forgot', Known("volume")'
      PROVE  VolumeIs(output["volume"])'
  <2>1. /\ "volume" \notin forgot /\ ~torn /\ ~Saving /\ output'["volume"] = output["volume"]
        /\ VolumeIs(output["volume"])
    BY <1>1, <1>2, <1>4 DEF MasterInv, NothingTold, Controls
  <2>2. saved # None /\ saved.volume = output["volume"]
    BY <2>1 DEF VolumeIs
  <2>3. \A u \in Threads : pc'[u] = "merge" => read'[u] # None /\ read'[u].volume = output["volume"]
    BY <1>2, <1>3, <2>1, <2>2 DEF VolumeIs
  <2>4. QED
    BY <1>1, <1>2, <2>1, <2>2, <2>3 DEF VolumeIs
<1>5. QED
  BY <1>1, <1>2, <1>4 DEF MasterInv, NothingTold, Controls

\* It is merged into the state.
LEMMA StateMerged ==
  ASSUME TypeInv, MasterInv, NothingTold, NEW t \in Threads, Merge(t)
  PROVE  MasterInv'
<1>1. /\ pc[t] = "merge" /\ read' = [read EXCEPT ![t] = None]
      /\ UNCHANGED <<saved, torn>> /\ pc' = [pc EXCEPT ![t] = "idle"]
  BY DEF Merge, fileVars
<1>2. /\ Refreshing /\ (Saving' <=> Saving)
      /\ \A u \in Threads : pc'[u] = "merge" => u # t /\ pc[u] = "merge"
      /\ \A u \in Threads : u # t => read'[u] = read[u]
  BY <1>1, Moved DEF Saving, Refreshing, TypeInv, TypeOK
<1>3. CASE read[t] = None
  <2>1. UNCHANGED <<master, forgot>>
    BY <1>3 DEF Merge
  <2>2. "volume" \notin forgot => ~Known("volume")
    BY <1>1, <1>3 DEF MasterInv, VolumeIs
  <2>3. QED
    BY <1>2, <2>1, <2>2 DEF MasterInv, NothingTold, Controls
<1>4. CASE read[t] # None
  <2>1. PICK m \in {master["mute"]} \cup (IF Refreshing' THEN {FALSE} ELSE {}) :
          /\ master' = [c \in Controls |-> IF c = "mute" THEN m ELSE read[t].volume]
          /\ forgot' = IF m = master["mute"] THEN forgot ELSE forgot \cup {"mute"}
    BY <1>4 DEF Merge
  <2>2. master'["mute"] = m /\ master'["volume"] = read[t].volume
    BY <2>1 DEF Controls
  <2>3. "mute" \notin forgot' => "mute" \notin forgot /\ master'["mute"] = master["mute"]
    BY <2>1, <2>2
  <2>4. "volume" \notin forgot' => "volume" \notin forgot
    BY <2>1
  <2>5. ASSUME "volume" \notin forgot', Known("volume")'
        PROVE  VolumeIs(output["volume"])'
    <3>1. /\ output'["volume"] = output["volume"] /\ VolumeIs(output["volume"])
      BY <2>4, <2>5 DEF MasterInv, NothingTold, Controls
    <3>2. QED
      BY <1>1, <1>2, <2>2, <3>1 DEF VolumeIs
  <2>6. QED
    BY <1>2, <2>3, <2>4, <2>5 DEF MasterInv, NothingTold, Controls
<1>5. QED
  BY <1>3, <1>4

\* A handler saves what it shows: nobody else saves or refreshes, or it is not
\* counted on.
LEMMA StateHandled ==
  ASSUME TypeInv, TypeInv', MasterInv, NothingTold, Persist, Changed(forgot),
         UNCHANGED <<master, pc, read>>
  PROVE  MasterInv'
<1>1. /\ Saving' = Saving /\ Refreshing' = Refreshing
      /\ forgot' = IF Refreshing THEN forgot \cup {"volume"} ELSE forgot
      /\ torn' = Saving
  BY DEF Saving, Refreshing, Changed, Disturb, Persist
<1>2. ~Saving => saved' # None /\ saved'.volume = master["volume"]
  <2>1. ~Saving => saved' = Picture'
    BY DEF Persist
  <2>2. QED
    BY <2>1, PictureAfter
<1>3. ~Refreshing => \A t \in Threads : pc[t] # "merge"
  BY DEF Refreshing
<1>4. QED
  BY <1>1, <1>2, <1>3 DEF MasterInv, NothingTold, VolumeIs, Controls

\* So does the one that is told what the master is.
LEMMA StateTold ==
  ASSUME TypeInv, TypeInv', QueueInv, MasterInv, OnGetMaster
  PROVE  MasterInv'
<1> DEFINE s == Head(toUs).arg
<1>1. /\ master' = Answered(s) /\ Persist /\ Changed(forgot \ {s.of})
      /\ UNCHANGED <<pc, read, last, gains>> /\ Head(toUs).to = "GetMaster" /\ toUs # <<>>
  BY DEF OnGetMaster, Take, slotVars
<1>2. s \in Setting /\ s.of \in Controls
  BY <1>1, HeadIn, ReplyShape, SettingShape DEF TypeInv, TypeOK
<1>3. \A c \in Controls : master'[c] = IF c = s.of THEN s.to ELSE master[c]
  <2>1. master \in Master /\ master' = [master EXCEPT ![s.of] = s.to]
    BY <1>1 DEF Answered, TypeInv, TypeOK
  <2>2. QED
    BY <1>2, <2>1, MasterSet
<1>4. /\ UNCHANGED output
      /\ \A c \in Controls : Known(c)' => \/ Known(c)
                                          \/ s.of = c /\ s.to = output[c]
  BY MasterAnswered
<1>5. /\ Saving' = Saving /\ Refreshing' = Refreshing /\ torn' = Saving
      /\ \A c \in Controls : c \notin forgot' => (c \notin forgot \/ c = s.of) /\ (c = "volume" => ~Refreshing)
  BY <1>1 DEF Saving, Refreshing, Changed, Disturb, Persist
<1>6. ~Saving => saved' # None /\ saved'.volume = master'["volume"]
  <2>1. ~Saving => saved' = Picture'
    BY <1>1 DEF Persist
  <2>2. QED
    BY <2>1, PictureAfter
<1>7. ~Refreshing => \A t \in Threads : pc[t] # "merge"
  BY DEF Refreshing
<1>8. ASSUME NEW c \in Controls, c \notin forgot', Known(c)', ~Refreshing \/ c = "mute"
      PROVE  master'[c] = output[c]
  <2>1. CASE c = s.of
    <3>1. Known(c) => s.to = output[c]
      <4>1. ASSUME Known(c) PROVE FALSE
        <5>1. Of(toUs[1], c) /\ 1 \in 1..Len(toUs)
          BY <1>1, <2>1, TailAt DEF Of, TypeInv, TypeOK
        <5>2. QED
          BY <4>1, <5>1 DEF Known, NoAnswer
      <4>2. QED
        BY <4>1
    <3>2. QED
      BY <1>3, <1>4, <1>8, <2>1, <3>1
  <2>2. CASE c # s.of
    <3>1. c \notin forgot /\ Known(c) /\ master'[c] = master[c]
      BY <1>3, <1>4, <1>5, <1>8, <2>2
    <3>2. CASE c = "mute"
      BY <3>1, <3>2 DEF MasterInv
    <3>3. CASE c = "volume"
      BY <1>8, <3>1, <3>3 DEF MasterInv, VolumeIs
    <3>4. QED
      BY <3>2, <3>3 DEF Controls
  <2>3. QED
    BY <2>1, <2>2
<1>9. "mute" \notin forgot' => (Known("mute")' => master'["mute"] = output'["mute"])
  BY <1>4, <1>8 DEF Controls
<1>10. ASSUME "volume" \notin forgot'
       PROVE  /\ ~(Saving /\ Refreshing)'
              /\ Known("volume")' => VolumeIs(output["volume"])'
  <2>1. ~Refreshing
    BY <1>5, <1>10 DEF Controls
  <2>2. Known("volume")' => master'["volume"] = output["volume"]
    BY <1>8, <1>10, <2>1 DEF Controls
  <2>3. QED
    BY <1>1, <1>4, <1>5, <1>6, <1>7, <2>1, <2>2 DEF VolumeIs
<1>11. QED
  BY <1>9, <1>10 DEF MasterInv

LEMMA MasterInit == Init => QueueInv /\ MasterInv
<1>1. SUFFICES ASSUME Init PROVE QueueInv /\ MasterInv
  OBVIOUS
<1>2. toDsp = <<>> /\ link = "down" /\ ~Saving /\ ~Refreshing
  BY <1>1 DEF Init, Saving, Refreshing
<1>3. QED
  BY <1>2 DEF QueueInv, Followed, MasterInv, Known

\* Of the connection, a thread moves nothing but what it sends.
LEMMA ThreadMaster ==
  ASSUME TypeInv, QueueInv, MasterInv, NEW t \in Threads, Call(t) \/ ThreadStep(t)
  PROVE  (QueueInv /\ MasterInv)'
<1> USE DEF dspVars, netVars, slotVars, fileVars, bounds
<1>1. ASSUME NEW c \in Requests, Begin(t, c) PROVE (QueueInv /\ MasterInv)'
  <2>1. QueueInv' /\ NothingTold
    BY <1>1, NothingAsked DEF Begin
  <2>2. /\ UNCHANGED <<master, saved, read, forgot>> /\ (torn => torn')
        /\ pc[t] = "idle" /\ pc' = [pc EXCEPT ![t] = "check"]
    BY <1>1 DEF Begin
  <2>3. QED
    BY <2>1, <2>2, Moved, StateKept DEF Saving, Refreshing
<1>2. CASE Check(t)
  <2>1. QueueInv' /\ NothingTold
    BY <1>2, NothingAsked DEF Check
  <2>2. CASE updater = None
    <3>1. /\ UNCHANGED <<master, saved, read, forgot, torn>>
          /\ pc[t] = "check" /\ pc' = [pc EXCEPT ![t] = "claim"]
      BY <1>2, <2>2 DEF Check
    <3>2. QED
      BY <2>1, <3>1, Moved, StateKept DEF Saving, Refreshing
  <2>3. CASE updater # None
    BY <1>2, <2>1, <2>3, StateFinished DEF Check, Raise
  <2>4. QED
    BY <2>2, <2>3
<1>3. CASE Claim(t)
  <2>1. QueueInv' /\ NothingTold
    BY <1>3, NothingAsked DEF Claim
  <2>2. /\ UNCHANGED <<master, saved, read, forgot, torn>>
        /\ pc[t] = "claim" /\ pc' = [pc EXCEPT ![t] = "ask"]
    BY <1>3 DEF Claim
  <2>3. QED
    BY <2>1, <2>2, Moved, StateKept DEF Saving, Refreshing
<1>4. CASE Ask(t)
  <2>1. /\ UNCHANGED <<output, link, toUs, master, saved, read>> /\ Finish(t) /\ pc[t] = "ask"
        /\ toDsp' = toDsp \/ Send(<<Msg("GetConfig", None)>>)
    BY <1>4 DEF Ask, Raise
  <2>2. QueueInv' /\ NothingTold
    BY <2>1, NothingAsked, Commands
  <2>3. QED
    BY <2>1, <2>2, StateFinished
<1>5. ASSUME NEW s \in Settings, SetMaster(t, s) PROVE (QueueInv /\ MasterInv)'
  <2>1. /\ UNCHANGED <<output, link, toUs, master, saved, read>> /\ Finish(t) /\ pc[t] = "idle"
        /\ Send(<<Msg("SetMaster", s), Msg("GetMaster", s.of)>>) /\ s \in Setting
    BY <1>5 DEF SetMaster
  <2>2. QueueInv' /\ NothingTold
    BY <2>1, MasterAsked
  <2>3. QED
    BY <2>1, <2>2, StateFinished
<1>6. CASE Save(t)
  BY <1>6, NothingAsked, StateSaved DEF Save
<1>7. CASE Refresh(t)
  BY <1>7, NothingAsked, StateRefreshed DEF Refresh
<1>8. CASE ReadFile(t)
  BY <1>8, NothingAsked, StateRead DEF ReadFile
<1>9. CASE Merge(t)
  BY <1>9, NothingAsked, StateMerged DEF Merge
<1>10. QED
  BY <1>1, <1>2, <1>3, <1>4, <1>5, <1>6, <1>7, <1>8, <1>9 DEF Call, ThreadStep

LEMMA MasterStep == TypeInv /\ TypeInv' /\ QueueInv /\ MasterInv /\ [Next]_vars => (QueueInv /\ MasterInv)'
<1>1. SUFFICES ASSUME TypeInv, TypeInv', QueueInv, MasterInv, [Next]_vars
               PROVE  (QueueInv /\ MasterInv)'
  OBVIOUS
<1> USE DEF dspVars, netVars, slotVars, fileVars, bounds
<1>2. ASSUME QueueInv', NothingTold, UNCHANGED <<master, saved, read, forgot, torn, pc>>
      PROVE  (QueueInv /\ MasterInv)'
  BY <1>1, <1>2, StateKept DEF Saving, Refreshing
<1>3. CASE OnGetConfig
  <2>1. /\ toUs # <<>> /\ toUs' = Tail(toUs) /\ Head(toUs).to = "GetConfig"
        /\ UNCHANGED <<output, link, master, pc, read>>
        /\ Head(toUs) \in Reply
    BY <1>1, <1>3, HeadIn DEF OnGetConfig, Take, TypeInv, TypeOK
  <2>2. toDsp' = toDsp \/ \E m \in Command : m.cmd \in {"GetConfig", "SetConfig"} /\ Send(<<m>>)
    <3> DEFINE new == Create(updater.change, Head(toUs).arg)
    <3>1. toDsp' = toDsp \/ (updater # None /\ Send(<<Msg("SetConfig", new)>>))
      BY <1>3 DEF OnGetConfig
    <3>2. updater # None => new \in Config
      BY <1>1, <2>1, ReplyShape, ChangeShape DEF TypeInv, TypeOK
    <3>3. QED
      BY <3>1, <3>2, Commands
  <2>3. QueueInv' /\ NothingTold
    BY <1>1, <2>1, <2>2, NothingAsked
  <2>4. \/ UNCHANGED <<saved, torn, forgot>>
        \/ Persist /\ Changed(forgot)
    BY <1>3 DEF OnGetConfig
  <2>5. QED
    BY <1>1, <1>2, <2>1, <2>3, <2>4, StateHandled
<1>4. CASE OnSetConfig
  <2>1. /\ toUs # <<>> /\ toUs' = Tail(toUs) /\ Head(toUs).to = "SetConfig"
        /\ UNCHANGED <<output, link, master, pc, read, toDsp>>
    BY <1>4 DEF OnSetConfig, Take
  <2>2. QueueInv' /\ NothingTold
    BY <1>1, <2>1, NothingAsked
  <2>3. \/ UNCHANGED <<saved, torn, forgot>>
        \/ Persist /\ Changed(forgot)
    BY <1>4 DEF OnSetConfig
  <2>4. QED
    BY <1>1, <1>2, <2>1, <2>2, <2>3, StateHandled
<1>5. CASE Release
  BY <1>1, <1>2, <1>5, NothingAsked DEF Release
<1>6. CASE OnGetMaster
  BY <1>1, <1>6, MasterAnswered, StateTold
<1>7. CASE Dsp
  BY <1>1, <1>2, <1>7, MasterAtDsp DEF Dsp
<1>8. CASE Drop
  <2>1. QueueInv' /\ NothingTold
    BY <1>8 DEF Drop, QueueInv, Followed, NothingTold, Known
  <2>2. QED
    BY <1>2, <1>8, <2>1 DEF Drop
<1>9. CASE Open
  <2>1. toDsp' = <<Msg("GetConfig", None), Msg("GetMaster", "volume"), Msg("GetMaster", "mute")>>
    BY <1>9 DEF Open
  <2>2. /\ Len(toDsp') = 3 /\ toDsp'[1].cmd = "GetConfig"
        /\ toDsp'[2].cmd = "GetMaster" /\ toDsp'[2].arg = "volume"
        /\ toDsp'[3].cmd = "GetMaster" /\ toDsp'[3].arg = "mute"
    BY <2>1, Commands
  <2>3. \A i \in 1..Len(toDsp') : toDsp'[i].cmd # "SetMaster"
    BY <2>2
  <2>4. \A c \in Controls : ~NoneAsked(c)'
    BY <2>2 DEF NoneAsked, About, Controls
  <2>5. QueueInv' /\ NothingTold
    BY <2>3, <2>4 DEF QueueInv, Followed, NothingTold, Known
  <2>6. QED
    BY <1>2, <1>9, <2>5 DEF Open
<1>10. CASE UNCHANGED vars
  BY <1>1, <1>2, <1>10, NothingAsked DEF vars
<1>11. QED
  BY <1>1, <1>3, <1>4, <1>5, <1>6, <1>7, <1>8, <1>9, <1>10, ThreadMaster DEF Next, Handle

\* Whenever the connection is up and nothing about the master is under way, the
\* volume and the mute shown are those of the DSP, whichever threads changed
\* them and whenever the connection was lost - but for the mute that a refresh
\* lost since, and the volume if the refresh overlapped a change or a save.
THEOREM MasterIsTrue == Spec => []MasterMatches
<1>1. TypeInv /\ MasterInv => MasterMatches
  <2>1. SUFFICES ASSUME TypeInv, MasterInv, link = "up", ~MasterMoves, ~Refreshing,
                        NEW c \in Controls \ forgot
                 PROVE  master[c] = output[c]
    BY DEF MasterMatches
  <2>2. DOMAIN toDsp = 1..Len(toDsp) /\ DOMAIN toUs = 1..Len(toUs)
    BY <2>1 DEF TypeInv, TypeOK
  <2>3. Known(c)
    BY <2>1, <2>2 DEF MasterMoves, Known, NoneAsked, NoAnswer, About, Of
  <2>4. CASE c = "mute"
    BY <2>1, <2>3, <2>4 DEF MasterInv
  <2>5. CASE c = "volume"
    BY <2>1, <2>3, <2>5 DEF MasterInv, VolumeIs
  <2>6. QED
    BY <2>1, <2>4, <2>5 DEF Controls
<1>2. TypeInv /\ QueueInv /\ MasterInv /\ [Next]_vars => (TypeInv /\ QueueInv /\ MasterInv)'
  BY NextTypeInv, MasterStep
<1>3. QED
  BY InitTypeInv, MasterInit, <1>1, <1>2, PTL DEF Spec

-----------------------------------------------------------------------------
(* The configuration.                                                      *)

\* The configuration the update is to arrive at.
Made == Create(updater.change, config)

\* The messages on the way, in any order.
Within(s) == {s[i] : i \in DOMAIN s}

\* What is shown, or will be once it is merged: while the state is being built
\* what it shows counts for nothing, and while it is being saved the file.
Views ==
  (IF Refreshing THEN {} ELSE {Picture})
  \cup (IF torn \/ Saving THEN {} ELSE {saved})
  \cup {read[t] : t \in {u \in Threads : pc[u] = "merge"}}

\* Refreshes and saves do not meet, and what was saved can be read.
ViewsOK == ~(Saving /\ Refreshing) /\ Views \subseteq Saved

\* A configuration on its way to the DSP is the one the update is to arrive at.
SetsOK ==
  \A m \in Within(toDsp) : m.cmd = "SetConfig" =>
    /\ updater # None /\ ~CreateRaises(updater.change, config)
    /\ m.arg = Made /\ updater.cfg = Made

\* An answer to it says whether the DSP has it.
AnswersOK ==
  \A r \in Within(toUs) : r.to = "SetConfig" =>
    /\ updater # None /\ ~CreateRaises(updater.change, config)
    /\ updater.cfg = Made
    /\ IF r.ok THEN config = Made ELSE Made \in Refused

\* An update about to end has arrived, and is shown.
ReleaseOK ==
  release =>
    /\ updater # None /\ config = Made /\ gains \in {None, config.gain}
    /\ \A v \in Views :
         /\ v.gains \in {None, config.gain}
         /\ Updating("load") /\ v.last \in Titles => v.last = config.filter

\* Unless a load is under way, nobody changes the filter.
ReadingsOK ==
  ~Updating("load") =>
    \A r \in Within(toUs) : r.to = "GetConfig" =>
      /\ r.arg.filter = config.filter
      /\ r.arg.pipeline = "absent" <=> config.pipeline = "absent"

LastOK == ~Updating("load") => \A v \in Views : v.last \in Titles => v.last = config.filter

\* Unless an update the DSP accepts is under way, nobody changes the gains.
GainsOK ==
  rejects = 0 /\ (updater = None \/ Made \in Refused) =>
    /\ gains \in {None, config.gain}
    /\ \A v \in Views : v.gains \in {None, config.gain}
    /\ \A r \in Within(toUs) : r.to = "GetConfig" => r.arg = config

\* The parts that hold as long as nothing crossed.
Parts == ViewsOK /\ SetsOK /\ AnswersOK /\ ReleaseOK /\ ReadingsOK /\ LastOK /\ GainsOK

UpdateInv ==
  /\ rejects = 0 => \A r \in Within(toUs) : r.to = "GetConfig" => r.ok
  /\ ~crossed => Parts

LEMMA TailWithin ==
  ASSUME NEW S, NEW s \in Seq(S), s # <<>>
  PROVE  Head(s) \in Within(s) /\ Within(Tail(s)) \subseteq Within(s)
<1>1. /\ Head(s) = s[1] /\ 1 \in DOMAIN s
      /\ \A i \in DOMAIN Tail(s) : i + 1 \in DOMAIN s /\ Tail(s)[i] = s[i + 1]
  OBVIOUS
<1>2. QED
  BY <1>1 DEF Within

LEMMA AppendWithin ==
  ASSUME NEW S, NEW s \in Seq(S), NEW x
  PROVE  Within(Append(s, x)) = Within(s) \cup {x}
<1>1. /\ DOMAIN Append(s, x) = 1..(Len(s) + 1) /\ DOMAIN s = 1..Len(s) /\ Len(s) \in Nat
      /\ \A i \in 1..Len(s) : Append(s, x)[i] = s[i]
      /\ Append(s, x)[Len(s) + 1] = x
  OBVIOUS
<1>2. DOMAIN Append(s, x) = DOMAIN s \cup {Len(s) + 1}
  BY <1>1
<1>3. QED
  BY <1>1, <1>2 DEF Within

\* Within of the commands after Send: what was there, and what is sent.
LEMMA SendWithin ==
  ASSUME TypeInv, NEW m \in Command, Send(<<m>>)
  PROVE  Within(toDsp') \subseteq Within(toDsp) \cup {m}
<1>1. toDsp \o <<m>> = Append(toDsp, m)
  BY DEF TypeInv, TypeOK
<1>2. QED
  BY <1>1, AppendWithin DEF Send, TypeInv, TypeOK

LEMMA WithinTypes ==
  ASSUME TypeInv
  PROVE  Within(toDsp) \subseteq Command /\ Within(toUs) \subseteq Reply
BY DEF Within, TypeInv, TypeOK

\* Nothing about the configuration is under way.
LEMMA Silent ==
  ASSUME NEW replies, ~Exchanging(replies)
  PROVE  /\ \A m \in Within(toDsp) : m.cmd \notin {"GetConfig", "SetConfig"}
         /\ \A r \in Within(replies) : r.to \notin {"GetConfig", "SetConfig"}
BY DEF Exchanging, Within

\* Making a change twice is making it once, and what is made has a pipeline.
LEMMA MadeTwice ==
  ASSUME NEW c \in Change, NEW cfg \in Config
  PROVE  /\ Create(c, Create(c, cfg)) = Create(c, cfg)
         /\ Create(c, cfg).pipeline = "some" /\ Create(c, cfg).gain = c.gain
         /\ c.kind = "load" => Create(c, cfg).filter = c.title
         /\ c.kind = "gain" => Create(c, cfg).filter = cfg.filter
         /\ ~CreateRaises(c, Create(c, cfg))
BY DEF Create, CreateRaises, Change, Config

\* A load makes the same of any configuration, a change of gains of any with
\* the same filter.
LEMMA MadeAlike ==
  ASSUME NEW c \in Change, NEW cfg \in Config, NEW other \in Config,
         c.kind = "load" \/ cfg.filter = other.filter
  PROVE  Create(c, cfg) = Create(c, other)
BY DEF Create, Change

\* What the updater is, while there is one.
LEMMA UpdaterShape ==
  ASSUME TypeInv, updater # None
  PROVE  /\ updater.change \in Change /\ updater.cfg \in Config \cup {None}
         /\ config \in Config /\ Made \in Config
         /\ Updating("load") \/ Updating("gain")
         /\ ~(Updating("load") /\ Updating("gain"))
BY ChangeShape DEF TypeInv, TypeOK, Made, Updating

LEMMA UpdateInit == Init => UpdateInv
<1>1. SUFFICES ASSUME Init PROVE UpdateInv
  OBVIOUS
<1>2. Within(toDsp) = {} /\ Within(toUs) = {} /\ ~Saving /\ ~Refreshing
  BY <1>1 DEF Init, Within, Saving, Refreshing
<1>3. Views \subseteq {Picture} /\ Picture \in Saved /\ Picture.last = last /\ Picture.gains = gains
  <2>1. {t \in Threads : pc[t] = "merge"} = {} /\ saved = Picture
    BY <1>1 DEF Init
  <2>2. TypeOK
    BY <1>1, InitTypeInv DEF TypeInv
  <2>3. QED
    BY <2>1, <2>2, PictureType DEF Views
<1>4. /\ updater = None /\ ~release /\ gains = None /\ last = "Empty" /\ config.filter = "Empty"
  BY <1>1 DEF Init
<1>5. QED
  BY <1>2, <1>3, <1>4 DEF UpdateInv, Parts, ViewsOK, SetsOK, AnswersOK, ReleaseOK, ReadingsOK,
       LastOK, GainsOK

\* Where what is shown comes from: v shows no title and no gains but those that
\* were shown before.
Stems(v) ==
  /\ v \in Saved
  /\ v.last \notin Titles \/ \E w \in Views : v.last = w.last
  /\ v.gains \in {None, gains} \/ \E w \in Views : v.gains = w.gains

\* A step that takes messages away, sends none with a configuration and shows
\* nothing new.
LEMMA UpdateKept ==
  ASSUME UpdateInv, UNCHANGED <<config, updater, release, rejects>>,
         \A m \in Within(toDsp') : m \in Within(toDsp) \/ m.cmd # "SetConfig",
         \A r \in Within(toUs') : r \in Within(toUs) \/ r.to = "GetMaster",
         ~crossed' =>
           /\ ~crossed /\ ViewsOK'
           /\ gains' \in {None, gains} \/ \E w \in Views : gains' = w.gains
           /\ \A v \in Views' : Stems(v)
  PROVE  UpdateInv'
<1>1. rejects' = 0 => \A r \in Within(toUs') : r.to = "GetConfig" => r.ok
  BY DEF UpdateInv
<1>2. Made' = Made /\ \A kind : Updating(kind)' = Updating(kind)
  BY DEF Made, Updating
<1>3. ASSUME ~crossed' PROVE Parts'
  <2>1. /\ ViewsOK' /\ SetsOK /\ AnswersOK /\ ReleaseOK /\ ReadingsOK /\ LastOK /\ GainsOK
        /\ gains' \in {None, gains} \/ \E w \in Views : gains' = w.gains
        /\ \A v \in Views' : Stems(v)
    BY <1>3 DEF UpdateInv, Parts
  <2>2. SetsOK' /\ AnswersOK' /\ ReadingsOK'
    BY <1>2, <2>1 DEF SetsOK, AnswersOK, ReadingsOK
  <2>3. ASSUME NEW g, gains \in {None, g}, \A w \in Views : w.gains \in {None, g}
        PROVE  gains' \in {None, g} /\ \A v \in Views' : v.gains \in {None, g}
    BY <2>1, <2>3 DEF Stems
  <2>4. ASSUME NEW l, \A w \in Views : w.last \in Titles => w.last = l
        PROVE  \A v \in Views' : v.last \in Titles => v.last = l
    BY <2>1, <2>4 DEF Stems
  <2>5. ReleaseOK' /\ LastOK' /\ GainsOK'
    <3>1. ReleaseOK'
      <4>1. SUFFICES ASSUME release' PROVE ReleaseOK'
        BY DEF ReleaseOK
      <4>2. /\ updater # None /\ config = Made /\ gains \in {None, config.gain}
            /\ \A w \in Views : w.gains \in {None, config.gain}
            /\ Updating("load") => \A w \in Views : w.last \in Titles => w.last = config.filter
        BY <2>1, <4>1 DEF ReleaseOK
      <4>3. gains' \in {None, config.gain} /\ \A v \in Views' : v.gains \in {None, config.gain}
        BY <2>3, <4>2
      <4>4. Updating("load") => \A v \in Views' : v.last \in Titles => v.last = config.filter
        BY <2>4, <4>2
      <4>5. QED
        BY <1>2, <4>2, <4>3, <4>4 DEF ReleaseOK
    <3>2. LastOK'
      BY <1>2, <2>1, <2>4 DEF LastOK
    <3>3. GainsOK'
      <4>1. SUFFICES ASSUME rejects = 0, updater = None \/ Made \in Refused PROVE GainsOK'
        BY <1>2 DEF GainsOK
      <4>2. /\ gains \in {None, config.gain} /\ \A w \in Views : w.gains \in {None, config.gain}
            /\ \A r \in Within(toUs) : r.to = "GetConfig" => r.arg = config
        BY <2>1, <4>1 DEF GainsOK
      <4>3. gains' \in {None, config.gain} /\ \A v \in Views' : v.gains \in {None, config.gain}
        BY <2>3, <4>2
      <4>4. QED
        BY <4>2, <4>3 DEF GainsOK
    <3>4. QED
      BY <3>1, <3>2, <3>3
  <2>6. QED
    BY <2>1, <2>2, <2>5 DEF Parts
<1>4. QED
  BY <1>1, <1>3 DEF UpdateInv

\* Nothing that is shown, saved or read moves.
LEMMA ViewsSame ==
  ASSUME UNCHANGED <<last, gains, master, saved, torn, read, pc>>
  PROVE  /\ Views' = Views /\ Saving' = Saving /\ Refreshing' = Refreshing
         /\ ViewsOK => ViewsOK' /\ \A v \in Views' : Stems(v)
<1>1. Saving' = Saving /\ Refreshing' = Refreshing /\ Picture' = Picture
  BY DEF Saving, Refreshing, Picture
<1>2. Views' = Views
  BY <1>1 DEF Views
<1>3. QED
  BY <1>1, <1>2 DEF ViewsOK, Stems

\* A thread moves that neither saves nor refreshes.
LEMMA ViewsMoved ==
  ASSUME TypeInv, TypeInv', ViewsOK, UNCHANGED <<gains, saved, read>>, torn => torn',
         NEW t \in Threads, NEW x, pc[t] \notin {"save", "read", "merge"},
         pc' = [pc EXCEPT ![t] = x], x \notin {"save", "read", "merge"},
         last' = last \/ last' \notin Titles
  PROVE  ViewsOK' /\ \A v \in Views' : Stems(v)
<1>1. /\ (Saving' <=> Saving) /\ (Refreshing' <=> Refreshing)
      /\ \A u \in Threads : pc'[u] = "merge" => pc[u] = "merge"
  BY Moved DEF Saving, Refreshing
<1>2. \A v \in Views' : v \in Views \/ (v = Picture' /\ ~Refreshing)
  BY <1>1 DEF Views
<1>3. ~Refreshing => Picture \in Views
  BY DEF Views
<1>4. \A v \in Views' : Stems(v)
  BY <1>2, <1>3, PictureType, PictureAfter DEF Stems, ViewsOK, TypeInv
<1>5. QED
  BY <1>1, <1>4 DEF ViewsOK, Stems

\* A call ends while nobody refreshes.
LEMMA ViewsFinished ==
  ASSUME TypeInv, TypeInv', NEW t \in Threads, Finish(t), pc[t] \notin {"read", "merge"},
         UNCHANGED gains, last' = last \/ last' \notin Titles, ~crossed'
  PROVE  ~crossed /\ ViewsOK' /\ \A v \in Views' : Stems(v)
<1>1. ~crossed /\ ~Refreshing /\ pc' = [pc EXCEPT ![t] = "save"]
  BY DEF Finish
<1>2. /\ Saving' /\ ~Refreshing' /\ \A u \in Threads : pc'[u] # "merge"
  BY <1>1, Moved DEF Refreshing
<1>3. Views' \subseteq {Picture'} /\ Picture \in Views
  BY <1>1, <1>2 DEF Views
<1>4. QED
  BY <1>1, <1>2, <1>3, PictureType, PictureAfter DEF Stems, ViewsOK, TypeInv

LEMMA ViewsSaved ==
  ASSUME TypeInv, ViewsOK, NEW t \in Threads, Save(t)
  PROVE  ViewsOK' /\ \A v \in Views' : Stems(v)
<1>1. /\ pc[t] = "save" /\ UNCHANGED <<last, gains, master, torn>>
      /\ pc' = [pc EXCEPT ![t] = "idle"] /\ (~torn => saved' = Picture)
  BY DEF Save, slotVars
<1>2. ~Refreshing
  BY <1>1 DEF ViewsOK, Saving
<1>3. ~Refreshing' /\ \A u \in Threads : pc'[u] # "merge"
  BY <1>1, <1>2, Moved DEF Refreshing
<1>4. Picture' = Picture
  BY <1>1 DEF Picture
<1>5. Views' \subseteq {Picture} /\ Picture \in Views
  BY <1>1, <1>2, <1>3, <1>4 DEF Views
<1>6. QED
  BY <1>3, <1>5, PictureType DEF Stems, ViewsOK, TypeInv

LEMMA ViewsRefreshed ==
  ASSUME TypeInv, ViewsOK, NEW t \in Threads, Refresh(t), ~crossed'
  PROVE  ~crossed /\ ViewsOK' /\ gains' = None /\ \A v \in Views' : Stems(v)
<1>1. /\ pc[t] = "idle" /\ UNCHANGED <<saved, torn, read>> /\ gains' = None
      /\ pc' = [pc EXCEPT ![t] = "read"] /\ ~crossed /\ ~Saving
  BY DEF Refresh, fileVars
<1>2. /\ Refreshing' /\ ~Saving'
      /\ \A u \in Threads : pc'[u] = "merge" => pc[u] = "merge"
  <2>1. /\ pc'[t] = "read" /\ \A u \in Threads : u # t => pc'[u] = pc[u]
    BY <1>1, Moved
  <2>2. QED
    BY <1>1, <2>1 DEF Refreshing, Saving
<1>3. Views' \subseteq Views
  BY <1>1, <1>2 DEF Views
<1>4. QED
  BY <1>1, <1>2, <1>3 DEF Stems, ViewsOK

LEMMA ViewsRead ==
  ASSUME TypeInv, ViewsOK, NEW t \in Threads, ReadFile(t), ~crossed'
  PROVE  ~crossed /\ ViewsOK' /\ \A v \in Views' : Stems(v)
<1>1. /\ pc[t] = "read" /\ read' = [read EXCEPT ![t] = saved]
      /\ UNCHANGED <<saved, torn>> /\ pc' = [pc EXCEPT ![t] = "merge"] /\ ~crossed /\ ~torn
  BY DEF ReadFile, fileVars
<1>2. Refreshing /\ ~Saving
  BY <1>1 DEF ViewsOK, Refreshing
<1>3. /\ Refreshing' /\ ~Saving'
      /\ \A u \in Threads : pc'[u] = "merge" => u = t \/ pc[u] = "merge"
  BY <1>1, <1>2, Moved DEF Saving
<1>4. read'[t] = saved /\ \A u \in Threads : u # t => read'[u] = read[u]
  BY <1>1 DEF TypeInv, TypeOK
<1>5. Views' \subseteq Views
  BY <1>1, <1>2, <1>3, <1>4 DEF Views
<1>6. QED
  BY <1>1, <1>3, <1>5 DEF Stems, ViewsOK

LEMMA ViewsMerged ==
  ASSUME TypeInv, TypeInv', ViewsOK, NEW t \in Threads, Merge(t)
  PROVE  /\ ViewsOK' /\ \A v \in Views' : Stems(v)
         /\ gains' = gains \/ \E w \in Views : gains' = w.gains
<1>1. /\ pc[t] = "merge" /\ read' = [read EXCEPT ![t] = None]
      /\ UNCHANGED <<saved, torn>> /\ pc' = [pc EXCEPT ![t] = "idle"]
  BY DEF Merge, fileVars
<1>2. read[t] \in Views /\ read[t] # None /\ Refreshing /\ ~Saving
  BY <1>1 DEF Views, ViewsOK, Refreshing
<1>3. /\ ~Saving' /\ \A u \in Threads : pc'[u] = "merge" => u # t /\ pc[u] = "merge"
      /\ \A u \in Threads : u # t => read'[u] = read[u]
  BY <1>1, <1>2, Moved DEF Saving, TypeInv, TypeOK
<1>4. /\ last' = read[t].last
      /\ gains' = IF read[t].gains = None THEN gains ELSE read[t].gains
  BY <1>2 DEF Merge
<1>5. \A v \in Views' : v \in Views \/ v = Picture'
  BY <1>1, <1>2, <1>3 DEF Views
<1>6. \A v \in Views' : Stems(v)
  BY <1>2, <1>4, <1>5, PictureAfter DEF Stems, ViewsOK
<1>7. QED
  BY <1>2, <1>3, <1>4, <1>6 DEF ViewsOK, Stems

\* After a handler there is nothing to be seen but what it shows, if nothing
\* crossed.
LEMMA ViewsHandled ==
  ASSUME TypeInv, TypeInv', NEW lost, Persist, Changed(lost), UNCHANGED <<pc, read>>, ~crossed'
  PROVE  /\ ~crossed /\ ~Crossing /\ ViewsOK'
         /\ Picture \in Views /\ Picture.last = last
         /\ \A v \in Views' : v = Picture' /\ v \in Saved /\ v.last = last' /\ v.gains = gains'
<1>1. ~crossed /\ ~Crossing /\ ~Refreshing
  BY DEF Changed
<1>2. /\ Saving' = Saving /\ ~Refreshing' /\ \A u \in Threads : pc'[u] # "merge"
  BY <1>1 DEF Saving, Refreshing
<1>3. torn' = Saving /\ (~Saving => saved' = Picture')
  BY DEF Persist
<1>4. Views' \subseteq {Picture'} /\ Picture \in Views
  BY <1>1, <1>2, <1>3 DEF Views
<1>5. QED
  BY <1>1, <1>2, <1>4, PictureType, PictureAfter DEF ViewsOK, TypeInv

\* An update that starts while none runs finds no configuration under way.
LEMMA UpdateClaimed ==
  ASSUME TypeInv, TypeInv', UpdateInv, NEW t \in Threads, Claim(t)
  PROVE  UpdateInv'
<1>1. /\ UNCHANGED <<config, toDsp, toUs, release, last, gains, rejects, saved, read, torn>>
      /\ pc[t] = "claim" /\ pc' = [pc EXCEPT ![t] = "ask"]
      /\ updater' = [change |-> op[t], cfg |-> None]
      /\ crossed' = (crossed \/ updater # None)
  BY DEF Claim, dspVars, netVars, slotVars, fileVars, bounds
<1>2. rejects' = 0 => \A r \in Within(toUs') : r.to = "GetConfig" => r.ok
  BY <1>1 DEF UpdateInv
<1>3. ASSUME ~crossed' PROVE Parts'
  <2>1. /\ updater = None /\ ~Updating("load") /\ ViewsOK
        /\ SetsOK /\ AnswersOK /\ ReleaseOK /\ ReadingsOK /\ LastOK /\ GainsOK
    BY <1>1, <1>3 DEF UpdateInv, Parts, Updating
  <2>2. SetsOK' /\ AnswersOK' /\ ReleaseOK'
    BY <1>1, <2>1 DEF SetsOK, AnswersOK, ReleaseOK
  <2>3. ViewsOK' /\ \A v \in Views' : Stems(v)
    BY <1>1, <2>1, ViewsMoved
  <2>4. ReadingsOK' /\ LastOK'
    BY <1>1, <2>1, <2>3 DEF ReadingsOK, LastOK, Stems
  <2>5. GainsOK'
    BY <1>1, <2>1, <2>3 DEF GainsOK, Stems
  <2>6. QED
    BY <2>2, <2>3, <2>4, <2>5 DEF Parts
<1>4. QED
  BY <1>2, <1>3 DEF UpdateInv

\* An update that ends with nothing under way leaves the DSP as it is shown.
LEMMA UpdateEnded ==
  ASSUME TypeInv, UpdateInv, UNCHANGED <<config, toDsp, rejects>>,
         Within(toUs') \subseteq Within(toUs),
         updater # None, updater' = None, ~release',
         ~crossed' =>
           /\ ~Crossing /\ ViewsOK'
           /\ \A v \in Views' : v.last \in Titles => v.last = config.filter
           /\ rejects = 0 => /\ gains' \in {None, config.gain}
                             /\ \A v \in Views' : v.gains \in {None, config.gain}
  PROVE  UpdateInv'
<1>1. rejects' = 0 => \A r \in Within(toUs') : r.to = "GetConfig" => r.ok
  BY DEF UpdateInv
<1>2. ASSUME ~crossed' PROVE Parts'
  <2>1. ~Exchanging(toUs')
    BY <1>2 DEF Crossing
  <2>2. /\ \A m \in Within(toDsp') : m.cmd \notin {"GetConfig", "SetConfig"}
        /\ \A r \in Within(toUs') : r.to \notin {"GetConfig", "SetConfig"}
    BY <2>1, Silent
  <2>3. SetsOK' /\ AnswersOK' /\ ReleaseOK' /\ ReadingsOK'
    BY <2>2 DEF SetsOK, AnswersOK, ReleaseOK, ReadingsOK
  <2>4. LastOK' /\ GainsOK'
    BY <1>2, <2>2 DEF LastOK, GainsOK
  <2>5. QED
    BY <1>2, <2>3, <2>4 DEF Parts
<1>3. QED
  BY <1>1, <1>2 DEF UpdateInv

\* So it does if it fails: nothing has come of it.
LEMMA UpdateFailed ==
  ASSUME TypeInv, TypeInv', UpdateInv, UNCHANGED <<config, toDsp, rejects, release, pc, read>>,
         Persist, Changed(forgot),
         ~release, Within(toUs') \subseteq Within(toUs), updater # None, Failed,
         ~crossed /\ rejects = 0 => Made \in Refused
  PROVE  UpdateInv'
<1>1. ASSUME ~crossed'
      PROVE  /\ ~crossed /\ ~Crossing /\ ViewsOK' /\ gains' = gains
             /\ last' \in Titles => ~Updating("load") /\ last' = last
             /\ Picture \in Views /\ Picture.last = last
             /\ \A v \in Views' : v \in Saved /\ v.last = last' /\ v.gains = gains'
  <2>1. last' \in Titles => ~Updating("load") /\ last' = last
    BY UpdaterShape DEF Failed, Updating, Titles
  <2>2. QED
    BY <1>1, <2>1, ViewsHandled DEF Failed
<1>2. CASE updater' = None
  <2>1. ASSUME ~crossed'
        PROVE  /\ \A v \in Views' : v.last \in Titles => v.last = config.filter
               /\ rejects = 0 => /\ gains' \in {None, config.gain}
                                 /\ \A v \in Views' : v.gains \in {None, config.gain}
    <3>1. LastOK /\ GainsOK
      BY <1>1, <2>1 DEF UpdateInv, Parts
    <3>2. last' \in Titles => last' = config.filter
      BY <1>1, <2>1, <3>1 DEF LastOK
    <3>3. rejects = 0 => gains \in {None, config.gain}
      BY <1>1, <2>1, <3>1 DEF GainsOK
    <3>4. QED
      BY <1>1, <2>1, <3>2, <3>3
  <2>2. QED
    BY <1>1, <1>2, <2>1, UpdateEnded
<1>3. CASE UNCHANGED updater
  <2>1. ASSUME ~crossed' PROVE \A v \in Views' : Stems(v)
    BY <1>1, <2>1 DEF Stems
  <2>2. QED
    BY <1>1, <1>3, <2>1, UpdateKept
<1>4. QED
  BY <1>2, <1>3 DEF Failed

LEMMA UpdateReleased ==
  ASSUME TypeInv, UpdateInv, Release
  PROVE  UpdateInv'
<1>1. /\ UNCHANGED <<config, toDsp, toUs, rejects, last, gains, master, saved, torn, read, pc>>
      /\ crossed' = (crossed \/ Crossing)
      /\ release /\ ~release' /\ updater' = None
  BY DEF Release, dspVars, netVars, slotVars, fileVars, bounds
<1>2. Views' = Views /\ (ViewsOK => ViewsOK')
  BY <1>1, ViewsSame
<1>3. ASSUME ~crossed
      PROVE  /\ updater # None /\ ViewsOK'
             /\ \A v \in Views' : v.last \in Titles => v.last = config.filter
             /\ gains' \in {None, config.gain}
             /\ \A v \in Views' : v.gains \in {None, config.gain}
  BY <1>1, <1>2, <1>3 DEF UpdateInv, Parts, ReleaseOK, LastOK
<1>4. CASE updater # None
  BY <1>1, <1>3, <1>4, UpdateEnded
<1>5. CASE updater = None
  <2>1. crossed /\ crossed'
    BY <1>1, <1>3, <1>5
  <2>2. QED
    BY <1>1, <2>1 DEF UpdateInv
<1>6. QED
  BY <1>4, <1>5

\* The configuration that was read is the one that the change is made to.
LEMMA UpdateRead ==
  ASSUME TypeInv, TypeInv', UpdateInv, OnGetConfig
  PROVE  UpdateInv'
<1> DEFINE r == Head(toUs)
           new == Create(updater.change, r.arg)
<1>1. /\ toUs # <<>> /\ ~release /\ r.to = "GetConfig" /\ toUs' = Tail(toUs)
      /\ UNCHANGED <<config, release, rejects, master, pc, read>>
  BY DEF OnGetConfig, Take, dspVars, bounds
<1>2. /\ r \in Within(toUs) /\ Within(toUs') \subseteq Within(toUs)
      /\ r \in Reply /\ r.arg \in Config /\ r.ok \in BOOLEAN
  BY <1>1, TailWithin, WithinTypes, ReplyShape DEF TypeInv, TypeOK
<1>3. CASE ~r.ok
  <2>1. rejects # 0
    BY <1>1, <1>2, <1>3 DEF UpdateInv
  <2>2. CASE updater # None
    <3>1. Failed /\ Persist /\ Changed(forgot) /\ UNCHANGED toDsp
      BY <1>3, <2>2 DEF OnGetConfig
    <3>2. QED
      BY <1>1, <1>2, <2>1, <2>2, <3>1, UpdateFailed
  <2>3. CASE updater = None
    <3>1. UNCHANGED <<toDsp, updater, last, gains, saved, torn, crossed>>
      BY <1>3, <2>3 DEF OnGetConfig, slotVars, fileVars
    <3>2. ~crossed' => ~crossed /\ ViewsOK' /\ \A v \in Views' : Stems(v)
      BY <1>1, <3>1, ViewsSame DEF UpdateInv, Parts
    <3>3. QED
      BY <1>1, <1>2, <3>1, <3>2, UpdateKept
  <2>4. QED
    BY <2>2, <2>3
<1>4. CASE r.ok
  <2>1. /\ gains' = GainsOf(r.arg) /\ last' = last /\ Persist /\ Changed(forgot)
        /\ \/ UNCHANGED <<updater, toDsp>>
           \/ /\ updater # None /\ CreateRaises(updater.change, r.arg)
              /\ updater' = [updater EXCEPT !.cfg = r.arg] /\ UNCHANGED toDsp
           \/ /\ updater # None /\ ~CreateRaises(updater.change, r.arg)
              /\ updater' = [updater EXCEPT !.cfg = new]
              /\ Send(<<Msg("SetConfig", new)>>)
    BY <1>4 DEF OnGetConfig
  <2>2. rejects' = 0 => \A q \in Within(toUs') : q.to = "GetConfig" => q.ok
    BY <1>1, <1>2 DEF UpdateInv
  <2>3. ASSUME ~crossed' PROVE Parts'
    <3>1. /\ ~crossed /\ ViewsOK' /\ Picture \in Views /\ Picture.last = last
          /\ \A v \in Views' : v.last = last' /\ v.gains = gains'
      BY <1>1, <2>1, <2>3, ViewsHandled
    <3>2. SetsOK /\ AnswersOK /\ ReadingsOK /\ LastOK /\ GainsOK
      BY <3>1 DEF UpdateInv, Parts
    <3>3. ASSUME updater = None \/ Made \in Refused, rejects = 0
          PROVE  gains' \in {None, config.gain} /\ \A v \in Views' : v.gains \in {None, config.gain}
      <4>1. r.arg = config /\ gains \in {None, config.gain}
        BY <1>1, <1>2, <3>2, <3>3 DEF GainsOK
      <4>2. QED
        BY <2>1, <3>1, <4>1 DEF GainsOf
    <3>4. ~Updating("load") => \A v \in Views' : v.last \in Titles => v.last = config.filter
      BY <2>1, <3>1, <3>2 DEF LastOK
    <3>5. CASE UNCHANGED <<updater, toDsp>>
      <4>1. Made' = Made /\ \A kind : Updating(kind)' = Updating(kind)
        BY <1>1, <3>5 DEF Made, Updating
      <4>2. SetsOK' /\ AnswersOK' /\ ReleaseOK' /\ ReadingsOK'
        BY <1>1, <1>2, <3>2, <3>5, <4>1 DEF SetsOK, AnswersOK, ReleaseOK, ReadingsOK
      <4>3. LastOK'
        BY <1>1, <3>4, <4>1 DEF LastOK
      <4>4. GainsOK'
        BY <1>1, <1>2, <3>2, <3>3, <3>5, <4>1 DEF GainsOK
      <4>5. QED
        BY <3>1, <4>2, <4>3, <4>4 DEF Parts
    <3>6. ASSUME updater # None, NEW cfg \in Config, updater' = [updater EXCEPT !.cfg = cfg],
                 \/ CreateRaises(updater.change, r.arg) /\ UNCHANGED toDsp
                 \/ /\ ~CreateRaises(updater.change, r.arg) /\ cfg = new
                    /\ Send(<<Msg("SetConfig", new)>>)
          PROVE  Parts'
      <4>1. /\ updater.change \in Change /\ config \in Config
            /\ Updating("load") \/ Updating("gain")
            /\ ~(Updating("load") /\ Updating("gain"))
        BY <3>6, UpdaterShape
      <4>2. /\ updater' # None /\ updater'.change = updater.change /\ updater'.cfg = cfg
            /\ Made' = Made /\ \A kind : Updating(kind)' = Updating(kind)
        <5>1. updater \in Update
          BY <3>6 DEF TypeInv, TypeOK
        <5>2. updater' \in Update /\ updater'.change = updater.change /\ updater'.cfg = cfg
          BY <3>6, <5>1
        <5>3. QED
          BY <1>1, <3>6, <5>2 DEF Made, Updating
      <4>3. new = Made
        <5>1. updater.change.kind = "load" \/ r.arg.filter = config.filter
          BY <1>1, <1>2, <3>2, <4>1 DEF ReadingsOK, Updating
        <5>2. QED
          BY <1>2, <4>1, <5>1, MadeAlike DEF Made
      <4>4. CreateRaises(updater.change, r.arg) <=> CreateRaises(updater.change, config)
        BY <1>1, <1>2, <3>2, <4>1 DEF ReadingsOK, CreateRaises, Updating
      <4>5. ReleaseOK' /\ ReadingsOK' /\ LastOK'
        BY <1>1, <1>2, <3>2, <3>4, <4>2 DEF ReleaseOK, ReadingsOK, LastOK
      <4>6. GainsOK'
        BY <1>1, <1>2, <3>2, <3>3, <3>6, <4>2 DEF GainsOK
      <4>7. CASE CreateRaises(updater.change, r.arg)
        <5>1. /\ \A m \in Within(toDsp) : m.cmd # "SetConfig"
              /\ \A q \in Within(toUs) : q.to # "SetConfig"
          BY <3>2, <4>4, <4>7 DEF SetsOK, AnswersOK
        <5>2. UNCHANGED toDsp
          BY <3>6, <4>7
        <5>3. SetsOK' /\ AnswersOK'
          BY <1>2, <5>1, <5>2 DEF SetsOK, AnswersOK
        <5>4. QED
          BY <3>1, <4>5, <4>6, <5>3 DEF Parts
      <4>8. CASE ~CreateRaises(updater.change, r.arg)
        <5>1. cfg = new /\ Send(<<Msg("SetConfig", new)>>)
          BY <3>6, <4>8
        <5>2. updater'.cfg = Made
          BY <4>2, <4>3, <5>1
        <5>3. Within(toDsp') \subseteq Within(toDsp) \cup {Msg("SetConfig", new)}
          <6>1. Msg("SetConfig", new) \in Command
            BY <1>2, <4>1, Commands, ChangeShape
          <6>2. QED
            BY <5>1, <6>1, SendWithin
        <5>4. SetsOK'
          BY <1>1, <3>2, <4>2, <4>3, <4>4, <4>8, <5>2, <5>3 DEF SetsOK, Msg
        <5>5. AnswersOK'
          BY <1>1, <1>2, <3>2, <4>2, <4>4, <4>8, <5>2 DEF AnswersOK
        <5>6. QED
          BY <3>1, <4>5, <4>6, <5>4, <5>5 DEF Parts
      <4>9. QED
        BY <4>7, <4>8
    <3>7. updater # None => new \in Config
      BY <1>2, UpdaterShape, ChangeShape
    <3>8. QED
      BY <1>2, <2>1, <3>5, <3>6, <3>7
  <2>4. QED
    BY <2>2, <2>3 DEF UpdateInv
<1>5. QED
  BY <1>2, <1>3, <1>4

\* The DSP has taken the configuration of the update, or does not want it.
LEMMA UpdateSet ==
  ASSUME TypeInv, TypeInv', UpdateInv, OnSetConfig
  PROVE  UpdateInv'
<1> DEFINE r == Head(toUs)
           load == updater.change.kind = "load"
           completed == IF gains = None THEN None ELSE updater.change.gain
<1>1. /\ toUs # <<>> /\ ~release /\ r.to = "SetConfig" /\ toUs' = Tail(toUs)
      /\ UNCHANGED <<config, toDsp, rejects, master, pc, read>>
  BY DEF OnSetConfig, Take, dspVars, bounds
<1>2. /\ r \in Within(toUs) /\ Within(toUs') \subseteq Within(toUs) /\ r.ok \in BOOLEAN
  BY <1>1, TailWithin, WithinTypes, ReplyShape DEF TypeInv, TypeOK
<1>3. CASE updater = None
  <2>1. UNCHANGED <<updater, last, gains, saved, torn, release, crossed>>
    BY <1>3 DEF OnSetConfig, slotVars, fileVars
  <2>2. ~crossed' => ~crossed /\ ViewsOK' /\ \A v \in Views' : Stems(v)
    BY <1>1, <2>1, ViewsSame DEF UpdateInv, Parts
  <2>3. QED
    BY <1>1, <1>2, <2>1, <2>2, UpdateKept
<1>4. CASE updater # None /\ ~r.ok
  <2>1. Failed /\ Persist /\ Changed(forgot) /\ UNCHANGED release
    BY <1>4 DEF OnSetConfig
  <2>2. ~crossed => Made \in Refused
    BY <1>1, <1>2, <1>4 DEF UpdateInv, Parts, AnswersOK
  <2>3. QED
    BY <1>1, <1>2, <1>4, <2>1, <2>2, UpdateFailed
<1>5. CASE updater # None /\ r.ok
  <2>1. /\ last' = IF load THEN updater.change.title ELSE last
        /\ (gains' = completed \/ (updater.cfg # None /\ gains' = GainsOf(updater.cfg)))
        /\ UNCHANGED updater /\ Persist /\ Changed(forgot)
    BY <1>5 DEF OnSetConfig
  <2>2. rejects' = 0 => \A q \in Within(toUs') : q.to = "GetConfig" => q.ok
    BY <1>1, <1>2 DEF UpdateInv
  <2>3. ASSUME ~crossed' PROVE Parts'
    <3>1. /\ ~crossed /\ ViewsOK' /\ Picture \in Views /\ Picture.last = last
          /\ \A v \in Views' : v.last = last' /\ v.gains = gains'
      BY <1>1, <2>1, <2>3, ViewsHandled
    <3>2. SetsOK /\ AnswersOK /\ ReadingsOK /\ LastOK /\ GainsOK
      BY <3>1 DEF UpdateInv, Parts
    <3>3. updater.cfg = Made /\ config = Made
      BY <1>1, <1>2, <1>5, <3>2 DEF AnswersOK
    <3>4. /\ updater.change \in Change /\ config \in Config
          /\ Made.gain = updater.change.gain /\ Made.pipeline = "some"
          /\ load => Made.filter = updater.change.title
      BY <1>5, UpdaterShape, MadeTwice DEF Made
    <3>5. gains' \in {None, config.gain}
      BY <2>1, <3>3, <3>4 DEF GainsOf
    <3>6. last' \in Titles => last' = config.filter
      BY <2>1, <3>1, <3>2, <3>3, <3>4 DEF LastOK, Updating
    <3>7. /\ Made' = Made /\ \A kind : Updating(kind)' = Updating(kind)
      BY <1>1, <2>1 DEF Made, Updating
    <3>8. SetsOK' /\ AnswersOK' /\ ReadingsOK'
      BY <1>1, <1>2, <2>1, <3>2, <3>7 DEF SetsOK, AnswersOK, ReadingsOK
    <3>9. GainsOK'
      BY <1>1, <1>2, <2>1, <3>1, <3>2, <3>5, <3>7 DEF GainsOK
    <3>10. LastOK'
      BY <1>1, <3>1, <3>6 DEF LastOK
    <3>11. ReleaseOK'
      BY <1>1, <1>5, <2>1, <3>1, <3>3, <3>5, <3>6, <3>7 DEF ReleaseOK
    <3>12. QED
      BY <3>1, <3>8, <3>9, <3>10, <3>11 DEF Parts
  <2>4. QED
    BY <2>2, <2>3 DEF UpdateInv
<1>6. QED
  BY <1>2, <1>3, <1>4, <1>5

\* The DSP answers with the configuration it has, and takes the one it is sent
\* unless it refuses it.
LEMMA UpdateAtDsp ==
  ASSUME TypeInv, UpdateInv, Dsp
  PROVE  UpdateInv'
<1> DEFINE m == Head(toDsp)
<1>1. /\ toDsp # <<>> /\ toDsp' = Tail(toDsp)
      /\ UNCHANGED <<updater, release, last, gains, master, saved, torn, read, pc, crossed>>
  BY DEF Dsp, slotVars, fileVars
<1>2. /\ m \in Within(toDsp) /\ Within(toDsp') \subseteq Within(toDsp) /\ m \in Command
      /\ rejects \in Nat
  BY <1>1, TailWithin, WithinTypes DEF TypeInv, TypeOK
<1>3. /\ \A kind : Updating(kind)' = Updating(kind)
      /\ Views' = Views /\ (ViewsOK => ViewsOK' /\ \A v \in Views' : Stems(v))
  BY <1>1, ViewsSame DEF Updating
<1>4. CASE m.cmd = "GetConfig"
  <2>1. PICK ok \in BOOLEAN :
          /\ Answer("GetConfig", ok, config)
          /\ UNCHANGED config
          /\ rejects' = IF ok THEN rejects ELSE rejects + 1
    BY <1>4 DEF Dsp, dspVars
  <2> DEFINE r == [to |-> "GetConfig", ok |-> ok, arg |-> config]
  <2>2. Within(toUs') = Within(toUs) \cup {r}
    BY <2>1, AppendWithin DEF Answer, TypeInv, TypeOK
  <2>3. rejects' = 0 => rejects = 0 /\ ok
    BY <1>2, <2>1
  <2>4. Made' = Made
    BY <1>1, <2>1 DEF Made
  <2>5. rejects' = 0 => \A q \in Within(toUs') : q.to = "GetConfig" => q.ok
    <3>1. SUFFICES ASSUME rejects' = 0, NEW q \in Within(toUs'), q.to = "GetConfig"
                   PROVE  q.ok
      OBVIOUS
    <3>2. rejects = 0 /\ ok /\ r.ok = ok
      BY <2>3, <3>1
    <3>3. CASE q = r
      BY <3>2, <3>3
    <3>4. CASE q \in Within(toUs)
      BY <3>1, <3>2, <3>4 DEF UpdateInv
    <3>5. QED
      BY <2>2, <3>3, <3>4
  <2>6. ASSUME ~crossed'
        PROVE  Parts'
    <3>1. ViewsOK' /\ SetsOK /\ AnswersOK /\ ReleaseOK /\ ReadingsOK /\ LastOK /\ GainsOK
      BY <1>1, <1>3, <2>6 DEF UpdateInv, Parts
    <3>2. SetsOK' /\ AnswersOK'
      BY <1>1, <1>2, <2>1, <2>2, <2>4, <3>1 DEF SetsOK, AnswersOK
    <3>3. ReleaseOK' /\ ReadingsOK' /\ LastOK'
      BY <1>1, <1>3, <2>1, <2>2, <2>4, <3>1 DEF ReleaseOK, ReadingsOK, LastOK
    <3>4. GainsOK'
      BY <1>1, <1>3, <2>1, <2>2, <2>3, <2>4, <3>1 DEF GainsOK
    <3>5. QED
      BY <3>1, <3>2, <3>3, <3>4 DEF Parts
  <2>7. QED
    BY <2>5, <2>6 DEF UpdateInv
<1>5. CASE m.cmd = "SetConfig"
  <2> DEFINE ok == m.arg \notin Refused
             r == [to |-> "SetConfig", ok |-> ok, arg |-> None]
  <2>1. /\ Answer("SetConfig", ok, None) /\ UNCHANGED rejects
        /\ config' = IF ok THEN m.arg ELSE config
    BY <1>5 DEF Dsp
  <2>2. Within(toUs') = Within(toUs) \cup {r}
    BY <2>1, AppendWithin DEF Answer, TypeInv, TypeOK
  <2>3. rejects' = 0 => \A q \in Within(toUs') : q.to = "GetConfig" => q.ok
    BY <2>1, <2>2 DEF UpdateInv
  <2>4. ASSUME ~crossed'
        PROVE  Parts'
    <3>1. ViewsOK' /\ SetsOK /\ AnswersOK /\ ReleaseOK /\ ReadingsOK /\ LastOK /\ GainsOK
      BY <1>1, <1>3, <2>4 DEF UpdateInv, Parts
    <3>2. /\ updater # None /\ ~CreateRaises(updater.change, config)
          /\ m.arg = Made /\ updater.cfg = Made
      BY <1>2, <1>5, <3>1 DEF SetsOK
    <3>3. /\ updater.change \in Change /\ config \in Config
          /\ Updating("load") \/ Updating("gain")
      BY <3>2, UpdaterShape
    <3>4. /\ Create(updater.change, Made) = Made /\ Made.pipeline = "some"
          /\ ~CreateRaises(updater.change, Made)
          /\ Updating("gain") => Made.filter = config.filter /\ config.pipeline # "absent"
      BY <3>2, <3>3, MadeTwice DEF Made, Updating, CreateRaises
    <3>5. /\ config' = IF ok THEN Made ELSE config
          /\ Made' = Made /\ updater' = updater
          /\ ~CreateRaises(updater'.change, config')
          /\ ok <=> Made \notin Refused
      BY <1>1, <2>1, <3>2, <3>4 DEF Made
    <3>6. SetsOK'
      BY <1>2, <3>1, <3>2, <3>5 DEF SetsOK
    <3>7. AnswersOK'
      <4>1. ASSUME NEW q \in Within(toUs'), q.to = "SetConfig"
            PROVE  IF q.ok THEN config' = Made' ELSE Made' \in Refused
        <5>1. CASE q = r
          BY <3>5, <5>1
        <5>2. CASE q \in Within(toUs)
          BY <3>1, <3>5, <4>1, <5>2 DEF AnswersOK
        <5>3. QED
          BY <2>2, <5>1, <5>2
      <4>2. QED
        BY <3>2, <3>5, <4>1 DEF AnswersOK
    <3>8. ReleaseOK'
      BY <1>1, <1>3, <3>1, <3>5 DEF ReleaseOK
    <3>9. ReadingsOK' /\ LastOK'
      BY <1>1, <1>3, <2>2, <3>1, <3>3, <3>4, <3>5 DEF ReadingsOK, LastOK
    <3>10. GainsOK'
      BY <1>1, <1>3, <2>1, <2>2, <3>1, <3>2, <3>5 DEF GainsOK
    <3>11. QED
      BY <3>1, <3>6, <3>7, <3>8, <3>9, <3>10 DEF Parts
  <2>5. QED
    BY <2>3, <2>4 DEF UpdateInv
<1>6. CASE m.cmd \in {"SetMaster", "GetMaster"}
  <2>1. UNCHANGED <<config, rejects>>
    BY <1>6 DEF Dsp, dspVars
  <2>2. /\ Within(toUs) \subseteq Within(toUs')
        /\ \A q \in Within(toUs') : q \in Within(toUs) \/ q.to = "GetMaster"
    <3>1. CASE m.cmd = "SetMaster"
      BY <3>1 DEF Dsp
    <3>2. CASE m.cmd = "GetMaster"
      <4> DEFINE r == [to |-> "GetMaster", ok |-> TRUE, arg |-> [of |-> m.arg, to |-> output[m.arg]]]
      <4>1. toUs' = Append(toUs, r)
        BY <3>2 DEF Dsp, Answer
      <4>2. Within(toUs') = Within(toUs) \cup {r}
        BY <4>1, AppendWithin DEF TypeInv, TypeOK
      <4>3. QED
        BY <4>2
    <3>3. QED
      BY <1>6, <3>1, <3>2
  <2>3. ~crossed' => ~crossed /\ ViewsOK' /\ \A v \in Views' : Stems(v)
    BY <1>1, <1>3 DEF UpdateInv, Parts
  <2>4. QED
    BY <1>1, <1>2, <2>1, <2>2, <2>3, UpdateKept
<1>7. QED
  BY <1>2, <1>4, <1>5, <1>6, CommandShape

\* A thread takes no part in the exchange but to start it.
LEMMA UpdateThread ==
  ASSUME TypeInv, TypeInv', UpdateInv, NEW t \in Threads, Call(t) \/ ThreadStep(t)
  PROVE  UpdateInv'
<1> USE DEF dspVars, netVars, slotVars, fileVars, bounds
<1>1. ~crossed => ViewsOK
  BY DEF UpdateInv, Parts
<1>2. ASSUME NEW c \in Requests, Begin(t, c) PROVE UpdateInv'
  <2>0. last' = last \/ last' \notin Titles
    BY <1>2 DEF Begin, Titles
  <2>1. /\ pc[t] = "idle" /\ pc' = [pc EXCEPT ![t] = "check"] /\ (torn => torn')
        /\ UNCHANGED <<config, toDsp, toUs, updater, release, gains, saved, read, crossed, rejects>>
    BY <1>2 DEF Begin
  <2>2. ~crossed' => ~crossed /\ ViewsOK' /\ \A v \in Views' : Stems(v)
    BY <1>1, <2>0, <2>1, ViewsMoved
  <2>3. QED
    BY <2>1, <2>2, UpdateKept
<1>3. CASE Check(t)
  <2>1. UNCHANGED <<config, toDsp, toUs, updater, release, gains, saved, read, rejects>>
        /\ pc[t] = "check"
    BY <1>3 DEF Check
  <2>2. CASE updater = None
    <3>1. pc' = [pc EXCEPT ![t] = "claim"] /\ UNCHANGED <<last, torn, crossed>>
      BY <1>3, <2>2 DEF Check
    <3>2. ~crossed' => ~crossed /\ ViewsOK' /\ \A v \in Views' : Stems(v)
      BY <1>1, <2>1, <3>1, ViewsMoved
    <3>3. QED
      BY <2>1, <3>1, <3>2, UpdateKept
  <2>3. CASE updater # None
    <3>1. Finish(t) /\ (last' = last \/ last' \notin Titles)
      BY <1>3, <2>3 DEF Check, Raise, Titles
    <3>2. ~crossed' => ~crossed /\ ViewsOK' /\ \A v \in Views' : Stems(v)
      BY <2>1, <3>1, ViewsFinished
    <3>3. QED
      BY <2>1, <3>2, UpdateKept
  <2>4. QED
    BY <2>2, <2>3
<1>4. CASE Claim(t)
  BY <1>4, UpdateClaimed
<1>5. CASE Ask(t)
  <2>1. /\ UNCHANGED <<config, toUs, updater, release, gains, rejects>> /\ pc[t] = "ask"
        /\ Finish(t) /\ (last' = last \/ last' \notin Titles)
        /\ UNCHANGED toDsp \/ Send(<<Msg("GetConfig", None)>>)
    BY <1>5 DEF Ask, Raise, Titles
  <2>2. ~crossed' => ~crossed /\ ViewsOK' /\ \A v \in Views' : Stems(v)
    BY <2>1, ViewsFinished
  <2>3. \A m \in Within(toDsp') : m \in Within(toDsp) \/ m.cmd # "SetConfig"
    BY <2>1, Commands, SendWithin
  <2>4. QED
    BY <2>1, <2>2, <2>3, UpdateKept
<1>6. ASSUME NEW s \in Settings, SetMaster(t, s) PROVE UpdateInv'
  <2> DEFINE a == Msg("SetMaster", s)
             b == Msg("GetMaster", s.of)
  <2>1. /\ UNCHANGED <<config, toUs, updater, release, last, gains, rejects>>
        /\ Finish(t) /\ pc[t] = "idle" /\ Send(<<a, b>>)
    BY <1>6 DEF SetMaster
  <2>2. ~crossed' => ~crossed /\ ViewsOK' /\ \A v \in Views' : Stems(v)
    BY <2>1, ViewsFinished
  <2>3. \A m \in Within(toDsp') : m \in Within(toDsp) \/ m.cmd # "SetConfig"
    <3>1. toDsp \in Seq(Command) /\ a \in Command /\ b \in Command
      BY Commands, SettingShape DEF TypeInv, TypeOK
    <3>2. toDsp \o <<a, b>> = Append(Append(toDsp, a), b) /\ Append(toDsp, a) \in Seq(Command)
      BY <3>1
    <3>3. Within(Append(toDsp, a)) = Within(toDsp) \cup {a}
      BY <3>1, AppendWithin
    <3>4. Within(Append(Append(toDsp, a), b)) = Within(Append(toDsp, a)) \cup {b}
      BY <3>2, AppendWithin
    <3>5. toDsp' \in {toDsp, Append(Append(toDsp, a), b)}
      BY <2>1, <3>2 DEF Send
    <3>6. a.cmd # "SetConfig" /\ b.cmd # "SetConfig"
      BY Commands
    <3>7. QED
      BY <3>3, <3>4, <3>5, <3>6
  <2>4. QED
    BY <2>1, <2>2, <2>3, UpdateKept
<1>7. CASE Save(t)
  <2>1. UNCHANGED <<config, toDsp, toUs, updater, release, gains, crossed, rejects>>
    BY <1>7 DEF Save
  <2>2. ~crossed' => ~crossed /\ ViewsOK' /\ \A v \in Views' : Stems(v)
    BY <1>1, <1>7, <2>1, ViewsSaved
  <2>3. QED
    BY <2>1, <2>2, UpdateKept
<1>8. CASE Refresh(t)
  <2>1. UNCHANGED <<config, toDsp, toUs, updater, release, rejects>> /\ (crossed => crossed')
    BY <1>8 DEF Refresh
  <2>2. ~crossed' => ~crossed /\ ViewsOK' /\ gains' = None /\ \A v \in Views' : Stems(v)
    BY <1>1, <1>8, <2>1, ViewsRefreshed
  <2>3. QED
    BY <2>1, <2>2, UpdateKept
<1>9. CASE ReadFile(t)
  <2>1. UNCHANGED <<config, toDsp, toUs, updater, release, gains, rejects>> /\ (crossed => crossed')
    BY <1>9 DEF ReadFile
  <2>2. ~crossed' => ~crossed /\ ViewsOK' /\ \A v \in Views' : Stems(v)
    BY <1>1, <1>9, <2>1, ViewsRead
  <2>3. QED
    BY <2>1, <2>2, UpdateKept
<1>10. CASE Merge(t)
  <2>1. UNCHANGED <<config, toDsp, toUs, updater, release, crossed, rejects>>
    BY <1>10 DEF Merge
  <2>2. ~crossed' => /\ ~crossed /\ ViewsOK' /\ \A v \in Views' : Stems(v)
                     /\ gains' = gains \/ \E w \in Views : gains' = w.gains
    BY <1>1, <1>10, <2>1, ViewsMerged
  <2>3. QED
    BY <2>1, <2>2, UpdateKept
<1>11. QED
  BY <1>2, <1>3, <1>4, <1>5, <1>6, <1>7, <1>8, <1>9, <1>10 DEF Call, ThreadStep

LEMMA UpdateStep == TypeInv /\ TypeInv' /\ UpdateInv /\ [Next]_vars => UpdateInv'
<1>1. SUFFICES ASSUME TypeInv, TypeInv', UpdateInv, [Next]_vars PROVE UpdateInv'
  OBVIOUS
<1> USE DEF dspVars, netVars, slotVars, fileVars, bounds
<1>2. ASSUME UNCHANGED <<last, gains, master, saved, torn, read, pc, crossed>>
      PROVE  ~crossed' => ~crossed /\ ViewsOK' /\ \A v \in Views' : Stems(v)
  BY <1>1, <1>2, ViewsSame DEF UpdateInv, Parts
<1>3. CASE OnGetMaster
  <2>1. /\ toUs # <<>> /\ toUs' = Tail(toUs)
        /\ UNCHANGED <<config, toDsp, updater, release, last, gains, rejects, pc, read>>
        /\ Persist /\ Changed(forgot \ {Head(toUs).arg.of})
    BY <1>3 DEF OnGetMaster, Take
  <2>2. Within(toUs') \subseteq Within(toUs)
    BY <1>1, <2>1, TailWithin DEF TypeInv, TypeOK
  <2>3. ASSUME ~crossed'
        PROVE  ~crossed /\ ViewsOK' /\ \A v \in Views' : Stems(v)
    <3>1. /\ ~crossed /\ ViewsOK' /\ Picture \in Views /\ Picture.last = last
          /\ \A v \in Views' : v \in Saved /\ v.last = last' /\ v.gains = gains'
      BY <1>1, <2>1, <2>3, ViewsHandled
    <3>2. QED
      BY <2>1, <3>1 DEF Stems
  <2>4. QED
    BY <1>1, <2>1, <2>2, <2>3, UpdateKept
<1>4. CASE Drop
  <2>1. /\ Within(toDsp') = {} /\ Within(toUs') = {}
        /\ UNCHANGED <<config, updater, release, last, gains, master, saved, torn, read, pc,
                       rejects, crossed>>
    BY <1>4 DEF Drop, Within
  <2>2. QED
    BY <1>1, <1>2, <2>1, UpdateKept
<1>5. CASE Open
  <2>1. /\ toDsp' = <<Msg("GetConfig", None), Msg("GetMaster", "volume"), Msg("GetMaster", "mute")>>
        /\ UNCHANGED <<config, toUs, updater, release, last, gains, master, saved, torn, read, pc,
                       rejects, crossed>>
    BY <1>5 DEF Open
  <2>2. /\ DOMAIN toDsp' = {1, 2, 3} /\ toDsp'[1].cmd # "SetConfig"
        /\ toDsp'[2].cmd # "SetConfig" /\ toDsp'[3].cmd # "SetConfig"
    BY <2>1, Commands
  <2>3. \A m \in Within(toDsp') : m.cmd # "SetConfig"
    BY <2>2 DEF Within
  <2>4. QED
    BY <1>1, <1>2, <2>1, <2>3, UpdateKept
<1>6. CASE UNCHANGED vars
  BY <1>1, <1>2, <1>6, UpdateKept DEF vars
<1>7. QED
  BY <1>1, <1>3, <1>4, <1>5, <1>6, UpdateThread, UpdateRead, UpdateSet, UpdateReleased,
     UpdateAtDsp DEF Next, Handle

\* At rest, what is shown is in view.
LEMMA RestViews ==
  ASSUME TypeInv, AtRest
  PROVE  Picture \in Views /\ Picture.last = last /\ updater = None
BY PictureType DEF AtRest, Views, Refreshing, TypeInv

\* When no update runs, a title shown is that of the filter the DSP runs,
\* however connections, refusals, failed readings, refreshes and callers
\* interleave, as long as no update took the messages of another and no refresh
\* overlapped a change or a save.
THEOREM TitleIsTrue == Spec => []TitleUncrossed
<1>1. TypeInv /\ UpdateInv => TitleUncrossed
  <2>1. SUFFICES ASSUME TypeInv, UpdateInv, ~crossed, AtRest, last \in Titles
                 PROVE  config.filter = last
    BY DEF TitleUncrossed, TitleIsLoaded
  <2>2. QED
    BY <2>1, RestViews DEF UpdateInv, Parts, LastOK, Updating
<1>2. TypeInv /\ UpdateInv /\ [Next]_vars => (TypeInv /\ UpdateInv)'
  BY NextTypeInv, UpdateStep
<1>3. QED
  BY InitTypeInv, UpdateInit, <1>1, <1>2, PTL DEF Spec

\* The same of the gains of the BEQ channels, also after an update that the DSP
\* refused, as long as each configuration could be read.
THEOREM GainsAreTrue == Spec => []GainsMatch
<1>1. UpdateInv => GainsMatch
  BY DEF UpdateInv, Parts, GainsOK, GainsMatch, AtRest
<1>2. TypeInv /\ UpdateInv /\ [Next]_vars => (TypeInv /\ UpdateInv)'
  BY NextTypeInv, UpdateStep
<1>3. QED
  BY InitTypeInv, UpdateInit, <1>1, <1>2, PTL DEF Spec
=============================================================================
