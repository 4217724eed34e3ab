---------------------------- MODULE VersionHistory ----------------------------
(***************************************************************************)
(* What the registry promises of the history of a thing: a log of its      *)
(* versions, each with one status, to which versions are added at the end  *)
(* and that is erased as a whole.  One commit may do so to many things.    *)
(***************************************************************************)
EXTENDS Naturals, Sequences, Lifecycle

CONSTANT Things

VARIABLE log

Entry == {{s} : s \in Statuses}

Init == log = [x \in Things |-> <<>>]

\* The new log starts with the old one.
Extended(old, new) ==
  /\ Len(old) <= Len(new)
  /\ \A n \in 1..Len(old) : new[n] = old[n]

Next ==
  /\ DOMAIN log' = Things
  /\ \A x \in Things :
       /\ log'[x] = <<>> \/ Extended(log[x], log'[x])
       /\ \A n \in 1..Len(log'[x]) : log'[x][n] \in Entry

Spec == Init /\ [][Next]_log
==============================================================================
