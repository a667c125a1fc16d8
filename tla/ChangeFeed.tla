------------------------------- MODULE ChangeFeed -------------------------------
(* What the outbox dispatcher promises its hub: changes are numbered in the   *)
(* order in which they become visible, a process hands them out in that       *)
(* order, and it hands none out before every smaller one has been, by itself  *)
(* or by a process before it.  Only a restart goes back: a change may be      *)
(* handed out again, and is never passed over.                                *)
EXTENDS Naturals, Sequences

CONSTANT Ids  \* sequence numbers

VARIABLES
  log,   \* committed changes, in the order of their commits
  last,  \* the change this process handed out last, 0 if none
  seen   \* every change ever handed out

Init == log = <<>> /\ last = 0 /\ seen = {}

Committed == {log[i] : i \in DOMAIN log}

Publish ==
  \E n \in Ids :
    /\ \A m \in Committed : m < n
    /\ log' = Append(log, n)
    /\ UNCHANGED <<last, seen>>

HandOut ==
  \E n \in Committed :
    /\ last < n /\ last' = n
    /\ seen' = seen \cup {m \in Committed : m <= n}
    /\ UNCHANGED log

Restart == last' = 0 /\ UNCHANGED <<log, seen>>

Next == Publish \/ HandOut \/ Restart

Spec == Init /\ [][Next]_<<log, last, seen>>
================================================================================
