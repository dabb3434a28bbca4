----------------------------- MODULE CamillaDsp -----------------------------
(***************************************************************************)
(* The CamillaDSP device of ezbeq (ezbeq/camilladsp.py).                   *)
(*                                                                         *)
(* CamillaDSP is driven over one websocket: commands go out, replies come  *)
(* back in order, and nothing says which reply answers which command.  A   *)
(* change of its configuration - a filter or a channel gain - takes two    *)
(* exchanges, GetConfigJson and SetConfigJson, and is kept in the single   *)
(* __config_updater between them.  Request threads start changes, the      *)
(* reactor thread handles replies; no lock is taken.  The factory notices  *)
(* that a connection is gone when it next sends on it.                     *)
(*                                                                         *)
(* What is shown is saved to a file after every change.  A client that     *)
(* lists the devices has the state built anew and the file merged into it, *)
(* which does not bring back the mute of the master.  Saves that overlap   *)
(* can spoil one another (PersistentDevice); here the file then holds any  *)
(* of what they wrote, or nothing that can be read.                        *)
(*                                                                         *)
(* Gain and mute of the BEQ channels are one value here.                   *)
(***************************************************************************)
EXTENDS Naturals, Sequences

CONSTANTS
  Threads,    \* request threads
  Entries,    \* catalogue entries (each stands for its title too)
  Gains,      \* gain and mute of the BEQ channels
  Zero,       \* 0 dB, not muted
  Volumes,    \* volumes of the master
  ZeroDb,     \* 0 dB: what is shown before the DSP said anything
  None,       \* no value
  Requests,   \* the changes clients ask for
  Settings,   \* what they set the master to
  Outputs,    \* what the master of the DSP may be set to when ezbeq starts
  Refused,    \* configurations the DSP does not accept
  Pipelines,  \* what the DSP's own configuration may have for a pipeline
  MaxCalls,   \* bound on requests
  MaxTroubles \* bound on failures of GetConfigJson, lost connections and
              \* states built anew

Titles == Entries \cup {"Empty"}

Controls == {"volume", "mute"}

Values(c) == IF c = "mute" THEN BOOLEAN ELSE Volumes

\* What the master is set to.
Master == {m \in [Controls -> Volumes \cup BOOLEAN] : \A c \in Controls : m[c] \in Values(c)}

Setting == UNION {[of : {c}, to : Values(c)] : c \in Controls}

Config == [filter : Titles, gain : Gains, pipeline : {"absent", "empty", "some"}]

\* A change: an entry (or none) with an input gain, or a gain alone.
Change == [kind : {"load"}, title : Titles, gain : Gains]
          \cup [kind : {"gain"}, title : {None}, gain : Gains]

\* What __config_updater holds: the change, and the configuration it made.
Update == [change : Change, cfg : Config \cup {None}]

\* What slot.last shows, and what of the state _merge_state finds in the file.
Lasts == Titles \cup {"Loading", "Clearing", "ERROR"}
Saved == [last : Lasts, gains : Gains \cup {None}, volume : Volumes]

ASSUME CamillaAssumption ==
  /\ Zero \in Gains
  /\ ZeroDb \in Volumes
  /\ None \notin Gains \cup Update \cup Saved
  /\ Entries \cap {"Empty", "Loading", "Clearing", "ERROR"} = {}
  /\ Requests \subseteq Change
  /\ Settings \subseteq Setting /\ Outputs \subseteq Master
  /\ Refused \subseteq Config
  /\ Pipelines \subseteq {"absent", "empty", "some"}
  /\ {MaxCalls, MaxTroubles} \subseteq Nat

VARIABLES
  config,   \* the configuration the DSP runs
  output,   \* the master of the DSP
  link,     \* is the websocket connected?
  stale,    \* is a client of a lost connection still registered?
  toDsp,    \* commands on their way
  toUs,     \* replies on their way
  updater,  \* __config_updater
  release,  \* is on_set_config about to reset __config_updater?
  last,     \* slot.last
  gains,    \* slot.gains and mutes, None while the lists are empty
  master,   \* master_volume and mute
  saved,    \* the file, None if it cannot be read; no file is the initial state
  read,     \* what a thread that refreshes the state has read of it
  pc, op,   \* what each request thread does
  crossed,  \* history: were messages of one update left for another to take,
            \* or did a refresh overlap a change or a save?
  torn,     \* history: did the latest save overlap another?
  forgot,   \* history: what the master was that a refresh lost since the DSP
            \* last told it
  clashed,  \* history: did a handler raise since its save overlapped another?
  rejects,  \* history: how often GetConfigJson failed
  calls, troubles

dspVars == <<config, output>>
netVars == <<link, stale, toDsp, toUs>>
slotVars == <<last, gains>>
fileVars == <<saved, torn>>
bounds == <<rejects, calls, troubles>>
vars == <<dspVars, netVars, updater, release, slotVars, master, fileVars, read, pc, op,
          crossed, forgot, clashed, bounds>>

Command == [cmd : {"GetConfig"}, arg : {None}]
           \cup [cmd : {"GetMaster"}, arg : Controls]
           \cup [cmd : {"SetConfig"}, arg : Config]
           \cup [cmd : {"SetMaster"}, arg : Setting]

Reply == [to : {"GetConfig"}, ok : BOOLEAN, arg : Config]
         \cup [to : {"SetConfig"}, ok : BOOLEAN, arg : {None}]
         \cup [to : {"GetMaster"}, ok : {TRUE}, arg : Setting]

\* The type invariant: replies, changes and configurations are never confused
\* with one another, whatever order they come in.
TypeOK ==
  /\ config \in Config /\ output \in Master
  /\ link \in {"up", "down"} /\ stale \in BOOLEAN
  /\ toDsp \in Seq(Command) /\ toUs \in Seq(Reply)
  /\ updater \in Update \cup {None}
  /\ release \in BOOLEAN
  /\ last \in Lasts
  /\ gains \in Gains \cup {None} /\ master \in Master
  /\ saved \in Saved \cup {None} /\ read \in [Threads -> Saved \cup {None}]
  /\ pc \in [Threads -> {"idle", "check", "claim", "ask", "save", "read", "merge"}]
  /\ op \in [Threads -> Change \cup {None}]
  /\ {crossed, torn, clashed} \subseteq BOOLEAN /\ forgot \subseteq Controls
  /\ {rejects, calls, troubles} \subseteq Nat

\* _load_initial_state.
FirstMaster == [c \in Controls |-> IF c = "mute" THEN FALSE ELSE ZeroDb]

\* What is saved of the state, as far as _merge_state looks for it.
Picture == [last |-> last, gains |-> gains, volume |-> master["volume"]]

\* ezbeq has just started and connects; the DSP has no BEQ loaded.
Init ==
  /\ config \in [filter : {"Empty"}, gain : {Zero}, pipeline : Pipelines]
  /\ output \in Outputs /\ master = FirstMaster
  /\ link = "down" /\ stale = FALSE /\ toDsp = <<>> /\ toUs = <<>>
  /\ updater = None /\ release = FALSE
  /\ last = "Empty" /\ gains = None
  /\ saved = Picture /\ read = [t \in Threads |-> None]
  /\ pc = [t \in Threads |-> "idle"]
  /\ op = [t \in Threads |-> None]
  /\ crossed = FALSE /\ torn = FALSE /\ forgot = {} /\ clashed = FALSE
  /\ rejects = 0 /\ calls = 0 /\ troubles = 0

Msg(what, v) == [cmd |-> what, arg |-> v]

Saving == \E t \in Threads : pc[t] = "save"
Refreshing == \E t \in Threads : pc[t] \in {"read", "merge"}

\* Messages about the configuration are on their way, given the replies left.
Exchanging(replies) ==
  \/ \E i \in DOMAIN toDsp : toDsp[i].cmd \in {"GetConfig", "SetConfig"}
  \/ \E i \in DOMAIN replies : replies[i].to \in {"GetConfig", "SetConfig"}

\* An update ends with messages about the configuration under way, which the
\* next update takes for its own.
Crossing == updater # None /\ updater' = None /\ Exchanging(toUs')

\* History: a refresh that overlaps a change or a save loses what it has not
\* read, and has what it built saved.  Of the master it loses the volume.
Disturb(overlap, lost) == forgot' = IF overlap THEN lost \cup {"volume"} ELSE lost

\* CamillaDspClientFactory.broadcast: a client that is gone is dropped from
\* the list without an error; having no client at all is one.
Send(msgs) ==
  /\ toDsp' = IF link = "up" THEN toDsp \o msgs ELSE toDsp
  /\ stale' = FALSE

SendRaises == link = "down" /\ ~stale

-----------------------------------------------------------------------------
(* Request threads.                                                        *)

\* load_filter and clear_filter first show that they are under way; a change
\* of gains shows nothing.  A save under way may miss it.
Begin(t, c) ==
  /\ pc[t] = "idle"
  /\ calls < MaxCalls /\ calls' = calls + 1
  /\ pc' = [pc EXCEPT ![t] = "check"]
  /\ op' = [op EXCEPT ![t] = c]
  /\ last' = CASE c.kind = "gain" -> last
               [] c.title = "Empty" -> "Clearing"
               [] OTHER -> "Loading"
  /\ torn' = (torn \/ Saving)
  /\ UNCHANGED <<dspVars, netVars, updater, release, gains, master, saved, read, crossed,
                 forgot, clashed, rejects, troubles>>

\* The call is done, all but the save that follows whatever came of it.
Finish(t) ==
  /\ pc' = [pc EXCEPT ![t] = "save"]
  /\ torn' = Saving
  /\ crossed' = (crossed \/ Refreshing)
  /\ Disturb(Refreshing, forgot)

\* The call raises: a load shows ERROR, the updater stays whatever it is.
Raise(t) ==
  /\ last' = IF op[t].kind = "load" THEN "ERROR" ELSE last
  /\ Finish(t)

\* __send_filter and __update_channel_levels refuse while an update runs ...
Check(t) ==
  /\ pc[t] = "check"
  /\ IF updater = None
     THEN pc' = [pc EXCEPT ![t] = "claim"] /\ UNCHANGED <<last, torn, crossed, forgot>>
     ELSE Raise(t)
  /\ UNCHANGED <<dspVars, netVars, updater, release, gains, master, saved, read, op, clashed,
                 bounds>>

\* ... and otherwise become the update that runs, in place of one that another
\* thread may have started meanwhile ...
Claim(t) ==
  /\ pc[t] = "claim"
  /\ updater' = [change |-> op[t], cfg |-> None]
  /\ pc' = [pc EXCEPT ![t] = "ask"]
  /\ crossed' = (crossed \/ updater # None)
  /\ UNCHANGED <<dspVars, netVars, release, slotVars, master, fileVars, read, op, forgot,
                 clashed, bounds>>

\* ... before they know whether they can send anything.
Ask(t) ==
  /\ pc[t] = "ask"
  /\ IF updater = None \/ SendRaises
     THEN Raise(t) /\ UNCHANGED <<toDsp, stale>>
     ELSE Send(<<Msg("GetConfig", None)>>) /\ Finish(t) /\ UNCHANGED last
  /\ UNCHANGED <<dspVars, link, toUs, updater, release, gains, master, saved, read, op,
                 clashed, bounds>>

\* mute, unmute and set_gain of the master: __send_command.
SetMaster(t, s) ==
  /\ pc[t] = "idle"
  /\ calls < MaxCalls /\ calls' = calls + 1
  /\ Send(<<Msg("SetMaster", s), Msg("GetMaster", s.of)>>)
  /\ Finish(t)
  /\ UNCHANGED <<dspVars, link, toUs, updater, release, slotVars, master, saved, read, op,
                 clashed, rejects, troubles>>

\* _persist, at the end of each call.
Save(t) ==
  /\ pc[t] = "save"
  /\ saved' \in IF torn THEN {saved, Picture, None} ELSE {Picture}
  /\ pc' = [pc EXCEPT ![t] = "idle"]
  /\ UNCHANGED <<dspVars, netVars, updater, release, slotVars, master, torn, read, op,
                 crossed, forgot, clashed, bounds>>

\* state(refresh=True), for GET /api/2/devices: the state is built anew ...
Refresh(t) ==
  /\ pc[t] = "idle"
  /\ troubles < MaxTroubles /\ troubles' = troubles + 1
  /\ last' = "Empty" /\ gains' = None /\ master' = FirstMaster
  /\ pc' = [pc EXCEPT ![t] = "read"]
  /\ crossed' = (crossed \/ Saving)
  /\ Disturb(Saving, IF master["mute"] THEN forgot \cup {"mute"} ELSE forgot)
  /\ UNCHANGED <<dspVars, netVars, updater, release, fileVars, read, op, clashed,
                 rejects, calls>>

\* ... the file is read ...
ReadFile(t) ==
  /\ pc[t] = "read"
  /\ read' = [read EXCEPT ![t] = saved]
  /\ pc' = [pc EXCEPT ![t] = "merge"]
  /\ crossed' = (crossed \/ torn)
  /\ Disturb(torn, forgot)
  /\ UNCHANGED <<dspVars, netVars, updater, release, slotVars, master, fileVars, op,
                 clashed, bounds>>

\* ... and merged into it: _merge_state.  The mute is not, and a mute that the
\* DSP told meanwhile may be part of a state that another refresh built.
Merge(t) ==
  /\ pc[t] = "merge"
  /\ pc' = [pc EXCEPT ![t] = "idle"] /\ read' = [read EXCEPT ![t] = None]
  /\ IF read[t] = None
     THEN UNCHANGED <<slotVars, master, forgot>>
     ELSE /\ last' = read[t].last
          /\ gains' = IF read[t].gains = None THEN gains ELSE read[t].gains
          /\ \E m \in {master["mute"]} \cup (IF Refreshing' THEN {FALSE} ELSE {}) :
               /\ master' = [c \in Controls |-> IF c = "mute" THEN m ELSE read[t].volume]
               /\ forgot' = IF m = master["mute"] THEN forgot ELSE forgot \cup {"mute"}
  /\ UNCHANGED <<dspVars, netVars, updater, release, fileVars, op, crossed, clashed, bounds>>

-----------------------------------------------------------------------------
(* Replies, on the reactor thread.                                         *)

\* Mutant of GainsOf: only the first configuration is looked at.
GainsAtFirst(cfg) ==
  IF gains = None /\ cfg.pipeline = "some" THEN cfg.gain ELSE gains

\* The gains a configuration shows; without a pipeline they stay as they are.
GainsOf(cfg) == IF cfg.pipeline = "some" THEN cfg.gain ELSE gains

\* create_cfg_for_entry and create_cfg_for_gains.  The second needs a pipeline.
CreateRaises(c, cfg) == c.kind = "gain" /\ cfg.pipeline = "absent"

Create(c, cfg) ==
  [filter |-> IF c.kind = "load" THEN c.title ELSE cfg.filter,
   gain |-> c.gain, pipeline |-> "some"]

Take(what) == ~release /\ toUs # <<>> /\ Head(toUs).to = what /\ toUs' = Tail(toUs)

\* Mutant of Failed: the outcome is not looked at.
FailedUnseen ==
  /\ last' = IF updater.change.kind = "load" THEN updater.change.title ELSE last
  /\ \/ updater' = None /\ UNCHANGED clashed
     \/ Saving /\ UNCHANGED updater /\ clashed' = TRUE
  /\ UNCHANGED gains

\* The update ends in failure: on_complete(False), unless the save clashes with
\* another.
Failed ==
  /\ last' = IF updater.change.kind = "load" THEN "ERROR" ELSE last
  /\ \/ updater' = None /\ UNCHANGED clashed
     \/ Saving /\ UNCHANGED updater /\ clashed' = TRUE
  /\ UNCHANGED gains

\* _persist in a handler, after a change of the state.
Persist ==
  /\ saved' \in IF Saving THEN {Picture, Picture', None} ELSE {Picture'}
  /\ torn' = Saving

\* It may find that the file it is about to rename has gone with another save,
\* and raise.
Clash == Saving /\ clashed' = TRUE
NoClash == UNCHANGED clashed

\* History, after a change of the state: see Crossing and Disturb.
Changed(lost) == crossed' = (crossed \/ Refreshing \/ Crossing) /\ Disturb(Refreshing, lost)

\* on_get_config: the configuration is shown and, if an update is running,
\* changed and sent back.  An exception leaves the update running.
OnGetConfig ==
  /\ Take("GetConfig")
  /\ UNCHANGED <<dspVars, link, release, master, read, pc, op, bounds>>
  /\ LET cfg == Head(toUs).arg
         new == Create(updater.change, cfg)
     IN  \/ /\ ~Head(toUs).ok /\ updater = None
            /\ UNCHANGED <<slotVars, fileVars, updater, toDsp, stale, crossed, forgot, clashed>>
         \/ /\ ~Head(toUs).ok /\ updater # None
            /\ Failed
            /\ Persist /\ Changed(forgot)
            /\ UNCHANGED <<toDsp, stale>>
         \/ /\ Head(toUs).ok
            /\ gains' = GainsOf(cfg) /\ UNCHANGED last
            /\ \/ Clash /\ UNCHANGED <<updater, toDsp, stale>>
               \/ /\ NoClash
                  /\ CASE updater = None -> UNCHANGED <<updater, toDsp, stale>>
                       [] updater # None /\ CreateRaises(updater.change, cfg) ->
                            /\ updater' = [updater EXCEPT !.cfg = cfg]
                            /\ UNCHANGED <<toDsp, stale>>
                       [] OTHER ->
                            /\ updater' = [updater EXCEPT !.cfg = new]
                            /\ Send(<<Msg("SetConfig", new)>>)
            /\ Persist /\ Changed(forgot)

\* on_complete(True), then the configuration sent is shown.  Either raises if
\* it has nothing to work with or its save clashes, and the update is not
\* released.
OnSetConfig ==
  /\ Take("SetConfig")
  /\ UNCHANGED <<dspVars, link, stale, toDsp, master, read, pc, op, bounds>>
  /\ LET load == updater.change.kind = "load"
         lost == gains = None /\ ~load
         completed == IF gains = None THEN None ELSE updater.change.gain
     IN  \/ updater = None /\ UNCHANGED <<updater, slotVars, fileVars, release, crossed,
                                         forgot, clashed>>
         \/ /\ updater # None /\ ~Head(toUs).ok
            /\ Failed /\ Persist /\ Changed(forgot)
            /\ UNCHANGED release
         \/ /\ updater # None /\ Head(toUs).ok
            /\ last' = IF load THEN updater.change.title ELSE last
            /\ UNCHANGED updater
            /\ \/ /\ Clash /\ gains' = completed /\ release' = FALSE
               \/ /\ gains' = IF lost \/ updater.cfg = None THEN completed ELSE GainsOf(updater.cfg)
                  /\ \/ Clash /\ release' = FALSE
                     \/ NoClash /\ release' = (~lost /\ updater.cfg # None)
            /\ Persist /\ Changed(forgot)

\* The last line of on_set_config.
Release ==
  /\ release
  /\ release' = FALSE /\ updater' = None
  /\ UNCHANGED <<dspVars, netVars, slotVars, master, fileVars, read, pc, op, forgot,
                 clashed, bounds>>
  /\ crossed' = (crossed \/ Crossing)

\* Mutant of Answered: volume and mute are mixed up.
AnsweredOther(s) == [c \in Controls |-> IF c = s.of THEN master[c] ELSE s.to]

\* The master shown once the DSP has told one of the two.
Answered(s) == [master EXCEPT ![s.of] = s.to]

\* on_get_volume and on_get_mute.
OnGetMaster ==
  /\ Take("GetMaster")
  /\ UNCHANGED <<dspVars, link, stale, toDsp, updater, release, slotVars, read, pc, op,
                 clashed, bounds>>
  /\ LET s == Head(toUs).arg
     IN  master' = Answered(s) /\ Persist /\ Changed(forgot \ {s.of})

Handle == OnGetConfig \/ OnSetConfig \/ Release \/ OnGetMaster

-----------------------------------------------------------------------------
(* CamillaDSP and the connection to it.                                    *)

Answer(what, ok, arg) == toUs' = Append(toUs, [to |-> what, ok |-> ok, arg |-> arg])

Dsp ==
  /\ link = "up" /\ toDsp # <<>>
  /\ toDsp' = Tail(toDsp)
  /\ LET msg == Head(toDsp)
     IN  \/ /\ msg.cmd = "GetConfig"
            /\ \/ Answer("GetConfig", TRUE, config) /\ UNCHANGED <<rejects, troubles>>
               \/ /\ troubles < MaxTroubles /\ troubles' = troubles + 1
                  /\ rejects' = rejects + 1
                  /\ Answer("GetConfig", FALSE, config)
            /\ UNCHANGED dspVars
         \/ /\ msg.cmd = "SetConfig"
            /\ LET ok == msg.arg \notin Refused
               IN  /\ Answer("SetConfig", ok, None)
                   /\ config' = IF ok THEN msg.arg ELSE config
            /\ UNCHANGED <<output, rejects, troubles>>
         \/ /\ msg.cmd = "SetMaster"
            /\ output' = [output EXCEPT ![msg.arg.of] = msg.arg.to]
            /\ UNCHANGED <<config, toUs, rejects, troubles>>
         \/ /\ msg.cmd = "GetMaster"
            /\ Answer("GetMaster", TRUE, [of |-> msg.arg, to |-> output[msg.arg]])
            /\ UNCHANGED <<dspVars, rejects, troubles>>
  /\ UNCHANGED <<link, stale, updater, release, slotVars, master, fileVars, read, pc, op,
                 crossed, forgot, clashed, calls>>

\* The connection is lost with everything under way; onClose only logs it.
Drop ==
  /\ link = "up"
  /\ troubles < MaxTroubles /\ troubles' = troubles + 1
  /\ link' = "down" /\ stale' = TRUE /\ toDsp' = <<>> /\ toUs' = <<>>
  /\ UNCHANGED <<dspVars, updater, release, slotVars, master, fileVars, read, pc, op,
                 crossed, forgot, clashed, rejects, calls>>

\* Mutants of Open: one of the three is not asked for.
OpenForConfig ==
  /\ link = "down"
  /\ link' = "up" /\ stale' = FALSE
  /\ toDsp' = <<Msg("GetConfig", None), Msg("GetMaster", "volume")>>
  /\ UNCHANGED <<dspVars, toUs, updater, release, slotVars, master, fileVars, read, pc, op,
                 crossed, forgot, clashed, bounds>>

OpenForMaster ==
  /\ link = "down"
  /\ link' = "up" /\ stale' = FALSE
  /\ toDsp' = <<Msg("GetMaster", "volume"), Msg("GetMaster", "mute")>>
  /\ UNCHANGED <<dspVars, toUs, updater, release, slotVars, master, fileVars, read, pc, op,
                 crossed, forgot, clashed, bounds>>

\* The reconnecting factory gets through: on_open.
Open ==
  /\ link = "down"
  /\ link' = "up" /\ stale' = FALSE
  /\ toDsp' = <<Msg("GetConfig", None), Msg("GetMaster", "volume"), Msg("GetMaster", "mute")>>
  /\ UNCHANGED <<dspVars, toUs, updater, release, slotVars, master, fileVars, read, pc, op,
                 crossed, forgot, clashed, bounds>>

-----------------------------------------------------------------------------
ThreadStep(t) == Check(t) \/ Claim(t) \/ Ask(t) \/ Save(t) \/ ReadFile(t) \/ Merge(t)

Call(t) ==
  \/ \E c \in Requests : Begin(t, c)
  \/ \E s \in Settings : SetMaster(t, s)
  \/ Refresh(t)

Next ==
  \/ \E t \in Threads : Call(t) \/ ThreadStep(t)
  \/ Handle \/ Dsp \/ Drop \/ Open

Spec == Init /\ [][Next]_vars

\* Request threads run, the reactor handles what arrives, the DSP answers and
\* the factory reconnects.
Fairness ==
  /\ \A t \in Threads : WF_vars(ThreadStep(t))
  /\ WF_vars(Handle) /\ WF_vars(Dsp) /\ WF_vars(Open)

FairSpec == Spec /\ Fairness

-----------------------------------------------------------------------------
(* Properties.                                                             *)

AtRest == updater = None /\ ~Exchanging(toUs) /\ \A t \in Threads : pc[t] = "idle"

\* "If the update is successful, the title will be displayed": when no update
\* is running the slot shows the filter the DSP runs, unless it shows none.
TitleIsLoaded == AtRest /\ last \in Titles => config.filter = last

\* It does as long as no update replaced another, none ended with messages of
\* its own under way, and no refresh overlapped a change or a save: that takes
\* two updates at once, a reading by on_open that crosses one, or a refresh in
\* the middle of one.  A refresh that does not brings the title back.
TitleUncrossed == ~crossed => TitleIsLoaded

\* The same of the gains of the BEQ channels, if each reading of them succeeds.
GainsMatch == AtRest /\ ~crossed /\ rejects = 0 /\ gains # None => gains = config.gain

MasterMoves ==
  \/ \E i \in DOMAIN toDsp : toDsp[i].cmd \in {"SetMaster", "GetMaster"}
  \/ \E i \in DOMAIN toUs : toUs[i].to = "GetMaster"

\* The volume and the mute shown are those of the DSP once the connection is up,
\* every command is answered and nobody refreshes the state, also after a
\* connection was lost half way - but for what a refresh lost since the DSP last
\* told it: the mute, and the volume if the refresh overlapped a change or a save.
MasterMatches ==
  link = "up" /\ ~MasterMoves /\ ~Refreshing =>
    \A c \in Controls \ forgot : master[c] = output[c]

Updating(kind) == updater # None /\ updater.change.kind = kind

\* The update of a load or clear ends, so that the next one is not refused for
\* ever: if the connection is lost half way, reconnecting takes it up again.
\* Only a save that clashes with that of a request thread prevents it.
LoadEnds == Updating("load") ~> updater = None \/ clashed

\* "Unable to load BEQ, config update already in progress": a change of gains
\* that is in progress ends, too.
GainEnds == Updating("gain") ~> updater = None
=============================================================================
