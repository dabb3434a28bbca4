---------------------------- MODULE MCCamillaDsp ----------------------------
(* CamillaDsp on small instances.                                           *)
EXTENDS CamillaDsp, TLC

CONSTANTS e1, e2, zero, cut, loud, quiet

\* Two loads and a change of gain.
MCRequests ==
  { [kind |-> "load", title |-> e1, gain |-> zero],
    [kind |-> "load", title |-> e2, gain |-> zero],
    [kind |-> "gain", title |-> None, gain |-> cut] }

\* Loads alone.
MCLoads == { c \in MCRequests : c.kind = "load" }

\* The master is muted and quiet, and clients unmute it and turn it up.
MCOutputs == { [c \in {"volume", "mute"} |-> IF c = "mute" THEN TRUE ELSE quiet] }
MCSettings == { [of |-> "mute", to |-> FALSE], [of |-> "volume", to |-> loud] }

\* The DSP does not like the filters of one entry.
MCRefused == { c \in Config : c.filter = e2 }

Symmetry == Permutations(Threads)
=============================================================================
