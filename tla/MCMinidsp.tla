----------------------------- MODULE MCMinidsp -----------------------------
(* Minidsp on small instances: two slots, two catalogue entries, two trims  *)
(* and two volumes.                                                         *)
EXTENDS Minidsp, TLC

CONSTANTS s1, s2, e1, e2, unity, cut, loud, quiet

Do(kind, slot, arg) == [kind |-> kind, slot |-> slot, arg |-> arg]

\* One of each kind of request that changes a slot, a master change, a read,
\* and a PATCH of several fields.
SlotRequests ==
  { <<Do("load", s1, e1)>>, <<Do("clear", s1, None)>>, <<Do("biquads", s2, None)>>,
    <<Do("activate", s2, None)>>, <<Do("volume", NoSlot, quiet)>>, <<StateOp>>,
    <<Do("trim", s1, cut), Do("load", s1, e2), Do("load", s2, e1)>> }

\* A load, a master change and a read: what somebody with a remote control gets
\* in the way of.
RemoteRequests ==
  { <<Do("load", s1, e1)>>, <<Do("mute", NoSlot, None)>>, <<StateOp>> }

\* The last operation of the PATCH: an entry with too many filters.
OneRejected == { Do("load", s2, e1) }

Symmetry == Permutations(Threads)
=============================================================================
