------------------------- MODULE MCPersistentDevice -------------------------
(* PersistentDevice on small instances: two values of each part of a state. *)
EXTENDS PersistentDevice

CONSTANTS empty, x, unset, y

\* What is not restored may be anything when it is loaded, as it is for a
\* device that is asked for it; what is restored starts empty.
Fresh == [kept : {empty}, live : Live]
=============================================================================
