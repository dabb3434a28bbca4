----------------------------- MODULE MCDevices -----------------------------
(* Devices on small instances. *)
EXTENDS Devices

CONSTANTS t1, t2, e1, e2, z1, o1, hdmi, coax

MCEntries == {e1, e2}
MCThreads == {t1, t2}
MCHtp1Threads == {t1}
MCInputs == {hdmi, coax}
MCZones == {z1}
MCAwkward == {e2}
MCOwn == {o1}
MCUnsupported == {e2}

Til(n) == [i \in 1..n |-> i - 1]

MCSwChannels == {<<>>, <<3, 5>>, Til(8)}

Of(name, biquads, channels, slots, groups) ==
  [name |-> name, biquads |-> biquads, channels |-> channels, slots |-> slots,
   groups |-> groups]

\* Routes out of order, an example of the documentation, and one where some of
\* the slots are in the crossover and none on the inputs.
MCDescribed ==
  { << Of("output", 6, <<0>>, Til(6), <<>>), Of("input", 6, Til(4), Til(4), <<>>) >>,
    << Of("input", 10, <<0>>, Til(10), <<>>), Of("crossover", 4, Til(4), <<>>, Til(2)),
       Of("output", 10, Til(4), <<>>, <<>>) >>,
    << Of("input", 10, Til(2), <<>>, <<>>), Of("crossover", 4, Til(4), Til(4), Til(2)),
       Of("output", 10, Til(4), Til(2), <<>>) >> }

-----------------------------------------------------------------------------
(* Configurations: a, b and e are devices, c and d composites.              *)

\* A function from a few slot ids, as pairs.
Map(pairs) == [k \in {p[1] : p \in pairs} |-> (CHOOSE p \in pairs : p[1] = k)[2]]

Rule(skipOps, pairs) == [skipOps |-> skipOps, slotMap |-> Map(pairs)]
NoRule == Rule({}, {})

Rules ==
  { [a |-> ra, b |-> rb, d |-> NoRule, e |-> NoRule, x |-> NoRule] :
    ra \in {NoRule, Rule({"mute"}, {<<"1", "3">>, <<"2", "4">>}),
            Rule({}, {<<"1", "2">>, <<"2", "1">>}), Rule({}, {<<"1", "3">>, <<"2", "3">>})},
    rb \in {NoRule, Rule({"mute"}, {})} }

Group(mode, members, listed, rules, primary, partial, expose) ==
  [type |-> "composite", mode |-> mode, members |-> members, listed |-> listed,
   rules |-> rules, primary |-> primary, allowPartialGain |-> partial,
   exposeMembers |-> expose]

Device(type) == [type |-> type]

MCConfigurations ==
  { [a |-> Device(types[1]), b |-> Device(types[2]), e |-> Device("minidsp"),
     c |-> Group(mode, members, listed, rules, primary, partial, expose),
     d |-> Group("mirror", other, TRUE, rules, None, FALSE, FALSE)] :
    types \in ({"minidsp", "camilladsp", "jriver"} \X {"minidsp", "reaper"})
                \cup {<<"minidsp", "unknown">>},
    mode \in {"mirror", "mapped", "none"},
    members \in {<<>>, <<"a">>, <<"a", "b">>, <<"b", "a">>, <<"a", "a">>, <<"a", "d">>, <<"x">>},
    listed \in BOOLEAN, rules \in Rules, primary \in {"a", None},
    partial \in BOOLEAN, expose \in BOOLEAN, other \in {<<"b">>, <<"e">>} }
=============================================================================
