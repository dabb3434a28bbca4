---------------------------- MODULE MCComposite ----------------------------
(* Composite on a small instance: a slow member, which also builds a new    *)
(* state object on every refresh, and a prompt one that skips an operation. *)
EXTENDS Composite

CONSTANTS m1, m2, t1, t2, x, y

SlowFirst == <<m1, m2>>

SkippedByPrompt == [v \in {x, y} |-> IF v = y THEN <<m1>> ELSE SlowFirst]

\* One client loads x, the other updates with both operations; both refresh.
MCRequests ==
  [t \in Threads |->
     { [kind |-> "refresh", arg |-> None],
       IF t = t1 THEN [kind |-> "load", arg |-> x]
       ELSE [kind |-> "update", arg |-> <<y, x>>] }]
=============================================================================
