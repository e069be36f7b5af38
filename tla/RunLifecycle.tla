---------------------------- MODULE RunLifecycle ----------------------------
(***************************************************************************)
(* What the assessment_runs table promises its readers: runs are numbered  *)
(* upwards, only the newest run can end, it ends once, and the status of a *)
(* run that has ended is final.                                            *)
(***************************************************************************)
EXTENDS Naturals

CONSTANT RunId  \* a set of natural numbers

VARIABLE status

Ended == {"COMPLETED", "CANCELLED"}

Newest(id) == \A k \in RunId : k > id => status[k] = "ABSENT"

Init == status = [id \in RunId |-> "ABSENT"]

Start(id) ==
  /\ status[id] = "ABSENT" /\ Newest(id)
  /\ status' = [status EXCEPT ![id] = "RUNNING"]

End(id) ==
  /\ status[id] = "RUNNING" /\ Newest(id)
  /\ \E s \in Ended : status' = [status EXCEPT ![id] = s]

Next == \E id \in RunId : Start(id) \/ End(id)

Spec == Init /\ [][Next]_status
============================================================================
