-------------------------- MODULE MinidspCommands --------------------------
(***************************************************************************)
(* The commands a Minidsp is sent to load or clear an entry, or biquads of *)
(* the user's (ezbeq/minidsp.py: PeqRoutes, BeqFilterAllocator,            *)
(* MinidspDescriptor and its subclasses, make_peq_layout,                  *)
(* MinidspBeqCommandGenerator).                                            *)
(*                                                                         *)
(* A descriptor is its routes in order.  The filters of an entry go to the *)
(* slots its routes set aside for BEQ, one after the other, each to all    *)
(* channels of the route; slots that are left are bypassed.  A filter is a *)
(* number for its coefficients, and a gain is raised or not.               *)
(*                                                                         *)
(* One configuration slot of one device is looked at, by one caller; what  *)
(* becomes of the calls is for Minidsp.                                    *)
(***************************************************************************)
EXTENDS Integers, FiniteSets, SequencesExt

CONSTANTS
  SwChannels, \* lists of channels to take BEQ, of a DDRC-88 or HTx
  Described,  \* lists of routes, of descriptors in the configuration
  MaxSteps    \* bound on operations

VARIABLES
  layout,    \* the routes of the descriptor
  device,    \* what each biquad of the device holds
  gain,      \* the gain of each of its inputs
  gains,     \* MinidspSlotState.gains, by channel
  holds,     \* history: what should be in the biquads
  unsure,    \* history: channels whose gain need not be what is shown
  steps      \* counter for the bound

vars == <<layout, device, gain, gains, holds, unsure, steps>>

INPUT == "input"
OUTPUT == "output"
CROSSOVER == "crossover"

Route(name, biquads, channels, slots, groups) ==
  [name |-> name, biquads |-> biquads, channels |-> channels, slots |-> slots,
   groups |-> groups]

ZeroTil(n) == [i \in 1..n |-> i - 1]

Routes ==
  [name : {INPUT, OUTPUT, CROSSOVER}, biquads : 0..10, channels : Seq(0..11),
   slots : Seq(0..9), groups : Seq(Nat)]

\* The documentation has one route of each kind, only the crossover in groups;
\* its lists are of biquads and channels that the device has.
DescribesDevice(routes) ==
  /\ routes \in Seq(Routes)
  /\ IsInjective([i \in DOMAIN routes |-> routes[i].name])
  /\ \A i \in DOMAIN routes :
       LET r == routes[i]
       IN  /\ r.name = CROSSOVER <=> r.groups # <<>>
           /\ r.name = INPUT => Len(r.channels) <= 8
           /\ Range(r.slots) \subseteq 0..(r.biquads - 1)
           /\ IsInjective(r.slots) /\ IsInjective(r.groups)

\* Channels that are not 0 to 7 are refused.
Constants ==
  /\ \A channels \in SwChannels : channels \in Seq(0..7) /\ Len(channels) <= 8
  /\ \A routes \in Described : DescribesDevice(routes)
  /\ MaxSteps \in Nat

-----------------------------------------------------------------------------
(* Descriptors: MinidspDescriptor.peq_routes of each device type.          *)

Minidsp24HD ==
  << Route(INPUT, 10, ZeroTil(2), ZeroTil(10), <<>>),
     Route(CROSSOVER, 4, ZeroTil(4), <<>>, ZeroTil(2)),
     Route(OUTPUT, 10, ZeroTil(4), <<>>, <<>>) >>

Minidsp812CDSP ==
  << Route(INPUT, 10, ZeroTil(6), ZeroTil(10), <<>>),
     Route(CROSSOVER, 4, ZeroTil(12), <<>>, ZeroTil(2)),
     Route(OUTPUT, 10, ZeroTil(12), <<>>, <<>>) >>

MinidspDDRC24 ==
  << Route(CROSSOVER, 4, ZeroTil(4), <<>>, ZeroTil(2)),
     Route(OUTPUT, 10, ZeroTil(4), ZeroTil(10), <<>>) >>

Others(channels) == SelectSeq(ZeroTil(8), LAMBDA c : ~Contains(channels, c))

\* Without other channels the extra route is None, and takes no BEQ either way.
MinidspDDRC88(channels) ==
  << Route(CROSSOVER, 8, ZeroTil(8), <<>>, ZeroTil(2)),
     Route(OUTPUT, 10, channels, ZeroTil(10), <<>>),
     Route(OUTPUT, 10, Others(channels), <<>>, <<>>) >>

MinidspHTX(channels, useInputs) ==
  IF useInputs
  THEN << Route(INPUT, 10, channels, ZeroTil(10), <<>>),
          Route(CROSSOVER, 8, ZeroTil(8), <<>>, ZeroTil(2)),
          Route(OUTPUT, 10, <<>>, ZeroTil(10), <<>>) >>
  ELSE MinidspDDRC88(channels)

Minidsp410 ==
  << Route(INPUT, 5, ZeroTil(2), ZeroTil(5), <<>>),
     Route(OUTPUT, 5, ZeroTil(8), ZeroTil(5), <<>>) >>

\* use_xo: the groups of the crossover, or <<>> for none.
Minidsp1010(useXo) ==
  << Route(INPUT, 6, ZeroTil(8), ZeroTil(6), <<>>),
     IF useXo = <<>> THEN Route(OUTPUT, 6, ZeroTil(8), ZeroTil(4), <<>>)
     ELSE Route(CROSSOVER, 4, ZeroTil(8), ZeroTil(4), useXo) >>

\* make_peq_layout for a descriptor in the configuration: the first input, xo
\* and output, then what is left.
CustomLayout(routes) ==
  LET Named(n) == {i \in DOMAIN routes : routes[i].name = n}
      First(n) == IF Named(n) = {} THEN <<>> ELSE << routes[Min(Named(n))] >>
      extra == [i \in DOMAIN routes |->
                  IF i = Min(Named(routes[i].name)) THEN <<>> ELSE << routes[i] >>]
  IN  First(INPUT) \o First(CROSSOVER) \o First(OUTPUT) \o FlattenSeq(extra)

-----------------------------------------------------------------------------
(* BeqFilterAllocator.                                                     *)

TakesBeq(r) == r.channels # <<>> /\ r.slots # <<>>

\* Commands address a biquad of a channel, or one of a group of its crossover.
Peq == -1
Slot(r, idx, group) ==
  [side |-> IF r.name = CROSSOVER THEN OUTPUT ELSE r.name,
   bank |-> IF r.name = CROSSOVER THEN group ELSE Peq,
   idx |-> idx, channels |-> r.channels]

Groups(r) == IF r.groups = <<>> THEN <<Peq>> ELSE r.groups

SlotsOf(r) ==
  IF ~TakesBeq(r) THEN <<>>
  ELSE FlattenSeq([i \in DOMAIN r.slots |->
         [j \in DOMAIN Groups(r) |-> Slot(r, r.slots[i], Groups(r)[j])]])

Allocated(routes) == FlattenSeq([i \in DOMAIN routes |-> SlotsOf(routes[i])])

-----------------------------------------------------------------------------
(* MinidspBeqCommandGenerator.                                             *)

Address(side, channel, bank, idx) ==
  [side |-> side, channel |-> channel, bank |-> bank, idx |-> idx]

Set(a, filter) == [op |-> "set", at |-> a, arg |-> filter]
On == 1
Off == 0
Bypass(a, onOff) == [op |-> "bypass", at |-> a, arg |-> onOff]

At(slot, i) == Address(slot.side, slot.channels[i], slot.bank, slot.idx)

\* push.
Push(slot, filter) ==
  FlattenSeq([i \in DOMAIN slot.channels |->
    << Set(At(slot, i), filter), Bypass(At(slot, i), Off) >>])

\* Mutant of Unused: the first channel of what is left is bypassed.
UnusedOnce(slot) == << Bypass(At(slot, 1), On) >>

\* What is left of the slots.
Unused(slot) == [i \in DOMAIN slot.channels |-> Bypass(At(slot, i), On)]

\* filt raises ValueError.
TooMany(filters, routes) == Len(filters) > Len(Allocated(routes))

Filt(filters, routes) ==
  LET slots == Allocated(routes)
  IN  FlattenSeq([i \in DOMAIN slots |->
        IF i <= Len(filters) THEN Push(slots[i], filters[i]) ELSE Unused(slots[i])])

\* biquads: of a user, who counts channels from 1; one that is not given is
\* skipped, or bypassed like those that follow if all are to be overwritten.
NoBiquad == [filter |-> 0, bypass |-> On]
Biquad(filter, bypass) == [filter |-> filter, bypass |-> bypass]
Custom == { <<Biquad(1, Off)>>, <<NoBiquad, Biquad(2, On), Biquad(1, Off)>> }

BiquadsOf(overwrite, side, channel, biquads) ==
  LET at(i) == Address(side, channel - 1, Peq, i - 1)
      given(i) == i <= Len(biquads) /\ biquads[i] # NoBiquad
  IN  FlattenSeq([i \in 1..Max({10, Len(biquads)}) |->
        IF given(i) THEN << Set(at(i), biquads[i].filter), Bypass(at(i), biquads[i].bypass) >>
        ELSE IF overwrite THEN << Bypass(at(i), On) >> ELSE <<>>])

Biquads(overwrite, inputs, outputs, biquads) ==
  LET of(side, channels) ==
        FlattenSeq([i \in DOMAIN channels |->
                      BiquadsOf(overwrite, side, channels[i], biquads)])
  IN  of(INPUT, inputs) \o of(OUTPUT, outputs)

\* The inputs whose gain a command without a channel sets.
GainInputs(channel) == IF channel = 0 THEN {0, 1} ELSE {channel - 1}

\* The inputs whose gain clear_filter resets.
ClearedInputs(routes) ==
  UNION {Range(routes[i].channels) : i \in {j \in DOMAIN routes :
                                              routes[j].name = INPUT /\ TakesBeq(routes[j])}}

-----------------------------------------------------------------------------
(* The device.                                                             *)

Banks(r) == IF r.name = CROSSOVER /\ r.groups # <<>> THEN Range(r.groups) ELSE {Peq}
Side(r) == IF r.name = CROSSOVER THEN OUTPUT ELSE r.name

\* The biquads a route describes.
BiquadsIn(r, indices) ==
  {Address(Side(r), c, b, i) : c \in Range(r.channels), b \in Banks(r), i \in indices}

Addresses(routes) ==
  UNION {BiquadsIn(routes[i], 0..(routes[i].biquads - 1)) : i \in DOMAIN routes}

\* What it holds after commands: the last one to a biquad counts.
Run(commands, before) ==
  LET touched == {commands[i].at : i \in DOMAIN commands}
      to(a, op) == {i \in DOMAIN commands : commands[i].at = a /\ commands[i].op = op}
      last(a, op, old) == IF to(a, op) = {} THEN old ELSE commands[Max(to(a, op))].arg
  IN  [a \in DOMAIN before |->
         IF a \notin touched THEN before[a]
         ELSE [filter |-> last(a, "set", before[a].filter),
               bypass |-> last(a, "bypass", before[a].bypass)]]

-----------------------------------------------------------------------------
(* Operations.                                                             *)

\* The device types, and the descriptors of the configuration.
Descriptors ==
  {Minidsp24HD, Minidsp812CDSP, MinidspDDRC24, Minidsp410}
  \cup {Minidsp1010(useXo) : useXo \in {<<>>, <<0>>, <<1>>, <<0, 1>>}}
  \cup {MinidspDDRC88(channels) : channels \in SwChannels}
  \cup {MinidspHTX(channels, useInputs) : channels \in SwChannels, useInputs \in BOOLEAN}
  \cup {CustomLayout(routes) : routes \in Described}

\* The channels of the input route, which MinidspState shows as 1, 2, ...
InputRoutes(routes) == {i \in DOMAIN routes : routes[i].name = INPUT}
Shown(routes) ==
  IF InputRoutes(routes) = {} THEN 0 ELSE Len(routes[Min(InputRoutes(routes))].channels)

\* The type invariant.
TypeOK ==
  /\ layout \in Descriptors
  /\ device \in [Addresses(layout) -> [filter : Nat, bypass : {On, Off}]]
  /\ gain \in [0..7 -> {0, 1}] /\ gains \in [1..Shown(layout) -> {0, 1}]
  /\ unsure \subseteq DOMAIN gains
  /\ holds.filters \in Nat /\ holds.at \subseteq Addresses(layout)
  /\ steps \in 0..MaxSteps

Unknown == [by |-> "nobody", filters |-> 0, at |-> {}]

Init ==
  /\ layout \in Descriptors
  /\ device = [a \in Addresses(layout) |-> [filter |-> 0, bypass |-> Off]]
  /\ gain = [i \in 0..7 |-> 0]
  /\ gains = [c \in 1..Shown(layout) |-> 0]
  /\ holds = Unknown
  /\ unsure = {} /\ steps = 0

Step == steps < MaxSteps /\ steps' = steps + 1

\* Entries with one filter, with as many as there is room for, and with more.
Entry(n) == [i \in 1..n |-> i]
Entries ==
  LET room == Len(Allocated(layout))
  IN  {Entry(n) : n \in {1, room, room + 1}}

\* load_filter.
LoadFilter ==
  /\ Step
  /\ \E entry \in Entries :
       /\ ~TooMany(entry, layout)
       /\ device' = Run(Filt(entry, layout), device)
       /\ holds' = [by |-> "entry", filters |-> Len(entry), at |-> {}]
  /\ UNCHANGED <<layout, gain, gains, unsure>>

\* The gains are reset, on the inputs that take BEQ, and all that are shown.
Reset ==
  /\ gain' = [i \in DOMAIN gain |-> IF i \in ClearedInputs(layout) THEN 0 ELSE gain[i]]
  /\ gains' = [c \in DOMAIN gains |-> 0]
  /\ unsure' = {c \in DOMAIN gains :
                  ~ \E i \in InputRoutes(layout) :
                      TakesBeq(layout[i]) /\ Contains(layout[i].channels, c - 1)}

\* clear_filter.
ClearFilter ==
  /\ Step
  /\ device' = Run(Filt(<<>>, layout), device)
  /\ holds' = [by |-> "entry", filters |-> 0, at |-> {}]
  /\ Reset
  /\ UNCHANGED layout

Part(commands, n) == SubSeq(commands, 1, n)

\* The commands of load_filter fail part way.
LoadFails ==
  /\ Step
  /\ \E entry \in Entries :
       LET commands == Filt(entry, layout)
       IN  /\ ~TooMany(entry, layout)
           /\ \E n \in {1, Len(commands) \div 2} \cap 0..Len(commands) :
                device' = Run(Part(commands, n), device)
  /\ holds' = Unknown
  /\ UNCHANGED <<layout, gain, gains, unsure>>

\* Those of clear_filter do, some gains being reset already.
ClearFails ==
  /\ Step
  /\ LET commands == Filt(<<>>, layout)
         lost(inputs) ==
           /\ gain' = [i \in DOMAIN gain |-> IF i \in inputs THEN 0 ELSE gain[i]]
           /\ unsure' = unsure \cup {c \in DOMAIN gains : c - 1 \in inputs}
     IN  \/ device' = Run(Part(commands, Len(commands) \div 2), device) /\ lost({})
         \/ /\ device' = Run(commands, device)
            /\ \E i \in ClearedInputs(layout) : lost({i})
  /\ holds' = Unknown
  /\ UNCHANGED <<layout, gains>>

\* load_biquads, for the first input or output; on devices with ten biquads in
\* each channel.
LoadBiquads ==
  /\ Step
  /\ \E side \in {INPUT, OUTPUT}, overwrite \in BOOLEAN, bqs \in Custom :
       LET channels(s) == IF s = side THEN <<1>> ELSE <<>>
           commands == Biquads(overwrite, channels(INPUT), channels(OUTPUT), bqs)
           set == {commands[i].at : i \in {j \in DOMAIN commands : commands[j].op = "set"}}
       IN  /\ \A i \in DOMAIN commands : commands[i].at \in DOMAIN device
           /\ device' = Run(commands, device)
           /\ holds' = IF overwrite THEN [by |-> side, filters |-> 0, at |-> set] ELSE Unknown
  /\ UNCHANGED <<layout, gain, gains, unsure>>

\* set_gain.  With no channel all that are shown are set; with one that is not
\* shown it raises, after the command.
SetGain ==
  /\ Step
  /\ \E c \in {0, 1, 3} :
       /\ gain' = [i \in DOMAIN gain |-> IF i \in GainInputs(c) THEN 1 ELSE gain[i]]
       /\ gains' = [d \in DOMAIN gains |-> IF c \in {0, d} THEN 1 ELSE gains[d]]
       /\ unsure' = IF c = 0 THEN {d \in DOMAIN gains : d - 1 \notin GainInputs(0)}
                    ELSE unsure \ {c}
  /\ UNCHANGED <<layout, device, holds>>

Next == LoadFilter \/ LoadFails \/ ClearFilter \/ ClearFails \/ LoadBiquads \/ SetGain

Spec == Init /\ [][Next]_vars

-----------------------------------------------------------------------------
(* Properties.                                                             *)

\* The routes that take BEQ; the biquads for it that a signal passes which goes
\* through one channel of each of them; and which of some biquads are in use.
Stages(routes) == {i \in DOMAIN routes : TakesBeq(routes[i])}
Paths(routes) ==
  {p \in [Stages(routes) -> 0..11] :
     \A i \in Stages(routes) : Contains(routes[i].channels, p[i])}
Passed(routes, path) ==
  UNION {{a \in BiquadsIn(routes[i], Range(routes[i].slots)) : a.channel = path[i]} :
           i \in Stages(routes)}

Live(as, biquads) == {a \in as : biquads[a].bypass = Off}

\* Each filter of the entry is in the way of every signal exactly once - on its
\* inputs as far as they go - and no other one is in the biquads for BEQ.
EntryExact(routes, biquads, filters) ==
  \A path \in Paths(routes) :
    LET passed == Passed(routes, path)
        live == Live(passed, biquads)
    IN  /\ Cardinality(live) = filters
        /\ {biquads[a].filter : a \in live} = 1..filters
        /\ (\E a \in live : a.side = OUTPUT)
             => \A a \in passed \ live : a.side = OUTPUT

\* What a user sent to overwrite a channel is all there is on it.
BiquadsExact(biquads, side, sent) ==
  \A a \in Live(DOMAIN biquads, biquads) :
    a.side = side /\ a.channel = 0 /\ a.bank = Peq => a \in sent

\* Whatever was there before - other entries, biquads of the user's, what is
\* left of commands that failed - and on every type of device, a load puts each
\* filter of the entry where it belongs and nothing else, what a user sends to
\* overwrite a channel leaves nothing of an entry there, and the gains shown are
\* those of the device.  Excepted are the third input on when a gain is set with
\* no channel, and a clear where the inputs of the route are not 0, 1, ... or do
\* not take BEQ.
ContentsExact ==
  /\ holds.by = "entry" => EntryExact(layout, device, holds.filters)
  /\ holds.by \in {INPUT, OUTPUT} => BiquadsExact(device, holds.by, holds.at)
  /\ \A c \in DOMAIN gains \ unsure : gain[c - 1] = gains[c]
=============================================================================
