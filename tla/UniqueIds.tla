----------------------------- MODULE UniqueIds -----------------------------
(***************************************************************************)
(* What the toolkit relies on whenever it names a row of the workspace     *)
(* database: a call that obtains a number for a sequence obtains one that  *)
(* no call obtained before.  Numbers may be skipped, never handed out      *)
(* twice.  times[n][v] counts how often v was returned for sequence n.     *)
(***************************************************************************)
CONSTANTS Name,   \* the sequence names, "<workspace>:<kind>"
          Value   \* the numbers a call may return

VARIABLE times

vars == <<times>>

Init == times = [n \in Name |-> [v \in Value |-> 0]]

Issue(n) == \E v \in Value :
              /\ times[n][v] = 0
              /\ times' = [times EXCEPT ![n][v] = 1]

Next == \E n \in Name : Issue(n)

Spec == Init /\ [][Next]_vars
============================================================================
