-------------------------- MODULE CompositeConfig --------------------------
(***************************************************************************)
(* Which configurations of composite devices ezbeq starts with, and what a *)
(* composite then asks of its members (ezbeq/device.py:                    *)
(* _validate_composite_configs, create_devices, DeviceRepository;          *)
(* ezbeq/composite.py: MemberSpec, __build_specs, __translate_slot).       *)
(*                                                                         *)
(* What becomes of a request once it is fanned out is for Composite.       *)
(***************************************************************************)
EXTENDS FiniteSets, SequencesExt

CONSTANTS
  Configurations,   \* what may be written in the configuration: settings by name
  None              \* no value

(* The settings of a device are its type; those of a composite are also     *)
(* mode, members (a sequence of names), listed (whether the configuration   *)
(* has them as a list, not a mapping), rules (by member: skipOps, slotMap), *)
(* primary, allowPartialGain, exposeMembers.                                *)

AllOps == {"activate", "load_filter", "clear_filter", "load_biquads", "send_commands",
           "mute", "unmute", "set_gain"}
BalanceOps == {"set_gain", "mute", "unmute"}

\* SUPPORTED_OPS and the slots of each device type; one slot if FIXED_SLOT_ID.
SupportedOps ==
  [type \in {"minidsp", "camilladsp", "htp1", "stormaudio", "jriver", "qsys", "reaper"} |->
     CASE type = "minidsp" -> AllOps
       [] type = "camilladsp" -> {"activate", "load_filter", "clear_filter"} \cup BalanceOps
       [] OTHER -> {"activate", "load_filter", "clear_filter"}]
SlotIds(type) == IF type \in {"minidsp", "jriver"} THEN {"1", "2", "3", "4"} ELSE {"only"}

VARIABLES
  cfg,       \* the configuration
  outcome,   \* "starting", "refused", "failed", "running"
  specs,     \* CompositeDevice.__specs of each composite: skip_ops, slot_map
  hidden,    \* DeviceRepository.__hidden
  request,   \* history: what was asked of a composite
  done       \* history: the members that were asked in turn, for which slot

vars == <<cfg, outcome, specs, hidden, request, done>>

Composites == {n \in DOMAIN cfg : cfg[n].type = "composite"}
MembersOf(n) == Range(cfg[n].members)
TypeOf(m) == cfg[m].type

\* The type invariant.
TypeOK ==
  /\ cfg \in Configurations
  /\ outcome \in {"starting", "refused", "failed", "running"}
  /\ outcome # "running" => specs = None /\ request = None
  /\ outcome = "running" => DOMAIN specs = Composites
  /\ hidden \subseteq DOMAIN cfg
  /\ \A d \in done : d.member \in DOMAIN cfg

-----------------------------------------------------------------------------
(* _validate_composite_configs.                                            *)

\* Mutant of Effective: what a member opted out of is not looked at.
EffectiveByType(n, m) == SupportedOps[TypeOf(m)]

\* What a member will be asked to do: effective_support.
Effective(n, m) == SupportedOps[TypeOf(m)] \ cfg[n].rules[m].skipOps

\* _validate_no_silent_partial_gain: all or no members.
PartialGain(n) ==
  \E op \in BalanceOps :
    {m \in MembersOf(n) : op \in Effective(n, m)} \notin {{}, MembersOf(n)}

\* A member named twice, by one composite or by two.
Shared(n) ==
  \/ Cardinality(MembersOf(n)) < Len(cfg[n].members)
  \/ \E o \in Composites \ {n} : MembersOf(o) \cap MembersOf(n) # {}

Invalid(n) ==
  \/ cfg[n].mode \notin {"mirror", "mapped"}
  \/ cfg[n].members = <<>>
  \/ ~(MembersOf(n) \subseteq DOMAIN cfg \ Composites)
  \/ Shared(n)
  \/ cfg[n].mode = "mirror" /\ Cardinality({TypeOf(m) : m \in MembersOf(n)}) > 1
  \/ /\ cfg[n].mode = "mapped"
     /\ \/ cfg[n].primary \notin MembersOf(n)
        \/ /\ ~cfg[n].allowPartialGain /\ ~cfg[n].listed
           /\ PartialGain(n)

\* _device_class_for_type raises.
UnknownType == \E n \in DOMAIN cfg \ Composites : TypeOf(n) \notin DOMAIN SupportedOps

\* Rules are looked up in what is a list: another exception than the checks'.
NoRules == \E n \in Composites : cfg[n].mode = "mapped" /\ cfg[n].listed

-----------------------------------------------------------------------------
(* create_devices.                                                         *)

Rules(n, m) ==
  IF cfg[n].mode = "mapped" THEN cfg[n].rules[m] ELSE [skipOps |-> {}, slotMap |-> << >>]

\* __build_specs.
Specs(n) ==
  [m \in MembersOf(n) |->
     [skip_ops |-> (AllOps \ SupportedOps[TypeOf(m)]) \cup Rules(n, m).skipOps,
      slot_map |-> IF Cardinality(SlotIds(TypeOf(m))) = 1 THEN << >> ELSE Rules(n, m).slotMap]]

\* The members that the list of devices leaves out.
Hidden == UNION {MembersOf(n) : n \in {c \in Composites : ~cfg[c].exposeMembers}}

Init ==
  /\ cfg \in Configurations
  /\ outcome = "starting"
  /\ specs = None /\ hidden = {}
  /\ request = None /\ done = {}

Start ==
  /\ outcome = "starting"
  /\ outcome' = IF UnknownType \/ \E n \in Composites : Invalid(n) THEN "refused"
                ELSE IF NoRules THEN "failed" ELSE "running"
  /\ specs' = IF outcome' = "running" THEN [n \in Composites |-> Specs(n)] ELSE None
  /\ hidden' = IF outcome' = "running" THEN Hidden ELSE {}
  /\ UNCHANGED <<cfg, request, done>>

-----------------------------------------------------------------------------
(* Requests.                                                               *)

\* __translate_slot.
Translated(n, m, slot) ==
  LET map == specs[n][m].slot_map
  IN  IF Cardinality(SlotIds(TypeOf(m))) = 1 THEN CHOOSE s \in SlotIds(TypeOf(m)) : TRUE
      ELSE IF slot \in DOMAIN map THEN map[slot] ELSE slot

\* The member whose slots serialise() shows, and the id it gives a slot: that of
\* inverse_slot_map, one of them if several lead there.
Primary(n) ==
  IF cfg[n].primary \in MembersOf(n) THEN cfg[n].primary ELSE Head(cfg[n].members)

SlotMap(n) == specs[n][Primary(n)].slot_map

ShownAs(n, slot) ==
  LET keys == {k \in DOMAIN SlotMap(n) : SlotMap(n)[k] = slot}
  IN  IF keys = {} THEN {slot} ELSE keys

\* A user picks a slot that the composite shows, for an operation, and that
\* goes to members.
Ask(n, op, slot, id) ==
  /\ request' = [composite |-> n, op |-> op, slot |-> slot, id |-> id]
  /\ done' = {[member |-> m, slot |-> Translated(n, m, id)] :
                m \in {p \in MembersOf(n) : op \notin specs[n][p].skip_ops}}
  /\ UNCHANGED <<cfg, outcome, specs, hidden>>

Next ==
  \/ Start
  \/ /\ outcome = "running" /\ request = None
     /\ \E n \in Composites, op \in BalanceOps \cup {"load_filter"} :
          \E slot \in SlotIds(TypeOf(Primary(n))) :
            \E id \in ShownAs(n, slot) : Ask(n, op, slot, id)

Spec == Init /\ [][Next]_vars

-----------------------------------------------------------------------------
(* Properties.                                                             *)

\* Gains and mutes go to all members or none, unless that was allowed.
Balanced ==
  request # None /\ request.op \in BalanceOps /\ ~cfg[request.composite].allowPartialGain
    => {d.member : d \in done} \in {{}, MembersOf(request.composite)}

\* The primary is asked for the slot the user picked, if the slot map leads to
\* slots it has, and the id is not shown for two slots.
SlotMeant ==
  request # None =>
    LET n == request.composite
        slots == SlotIds(TypeOf(Primary(n)))
        clear == /\ Range(SlotMap(n)) \subseteq slots
                 /\ {s \in slots : request.id \in ShownAs(n, s)} = {request.slot}
    IN  clear => \A d \in done : d.member = Primary(n) => d.slot = request.slot

\* No two composites drive a device, and a user finds each device in the list or
\* behind a composite in the list.
Found ==
  \A n \in DOMAIN cfg \ Composites :
    LET owners == {c \in Composites : n \in MembersOf(c)}
    IN  Cardinality(owners) <= 1 /\ (n \in hidden => owners \ hidden # {})

\* A configuration that ezbeq starts with leads to no request that reaches part
\* of the members unasked, or another slot than the one shown, and to no device
\* that is driven twice or not to be found.
Sound == outcome = "running" => Balanced /\ SlotMeant /\ Found
=============================================================================
