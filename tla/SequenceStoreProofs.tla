------------------------ MODULE SequenceStoreProofs ------------------------
(* Proofs about SequenceStore, for every set of processes and names and every *)
(* bound: type correctness, the bound on issued numbers, and, when calls      *)
(* cannot interleave, that no number is issued twice and that the statements  *)
(* implement the abstract issuer.                                             *)
EXTENDS SequenceStore, TLAPS

USE SequenceAssumption

----------------------------------------------------------------------------
(* Type correctness *)

LEMMA InitTypeOK == Init => TypeOK
  BY DEF Init, TypeOK, Absent, Value

LEMMA NextTypeOK == TypeOK /\ [Next]_vars => TypeOK'
<1> SUFFICES ASSUME TypeOK, [Next]_vars PROVE TypeOK'
  OBVIOUS
<1> USE DEF TypeOK, Absent, Value
<1>1. ASSUME NEW p \in Proc, Call(p) PROVE TypeOK'
  BY <1>1 DEF Call, Goto
<1>2. ASSUME NEW p \in Proc, InsertRow(p) PROVE TypeOK'
  BY <1>2 DEF InsertRow, Goto, WriteLock
<1>3. ASSUME NEW p \in Proc, Increment(p) PROVE TypeOK'
  BY <1>3 DEF Increment, Goto, WriteLock
<1>4. ASSUME NEW p \in Proc, Return(p) PROVE TypeOK'
  <2>1. times' \in [Name -> [Value -> Nat]]
    <3> DEFINE n == arg[p]
               row == [times[n] EXCEPT ![value[n]] = @ + 1]
    <3>1. n \in Name /\ times[n] \in [Value -> Nat]
      BY <1>4
    <3>2. row \in [Value -> Nat]
      <4>1. row = [v \in Value |-> IF v = value[n] THEN times[n][v] + 1 ELSE times[n][v]]
        BY <3>1
      <4>2. \A v \in Value : times[n][v] \in Nat
        BY <3>1
      <4>3. \A v \in Value : times[n][v] + 1 \in Nat
        BY <4>2
      <4> HIDE DEF row
      <4> QED
        BY <4>1, <4>2, <4>3
    <3>3. times' = [times EXCEPT ![n] = row]
      BY <1>4 DEF Return
    <3> QED
      BY <3>1, <3>2, <3>3
  <2> QED
    BY <1>4, <2>1 DEF Return, Goto
<1>5. ASSUME NEW p \in Proc, Abort(p) PROVE TypeOK'
  BY <1>5 DEF Abort
<1>6. CASE UNCHANGED vars
  BY <1>6 DEF vars
<1> QED
  BY <1>1, <1>2, <1>3, <1>4, <1>5, <1>6 DEF Next

\* Every reachable state is well typed.
THEOREM TypeCorrect == Spec => []TypeOK
  BY InitTypeOK, NextTypeOK, PTL DEF Spec

----------------------------------------------------------------------------
(* Issued numbers stay at or below the stored value, in every mode *)

\* p is between the first statement of its call and the end of the call.
InCall(p) == pc[p] \in {"update", "select"}

\* A transaction that has begun holds the write lock, so it is the only one.
LockHeld == Transactional => \A p \in Proc : InCall(p) => lock = p

\* No number of p's sequence is above the value a rollback would restore.
RollbackSafe ==
  Transactional =>
    \A p \in Proc : InCall(p) =>
      \A v \in Value : times[arg[p]][v] > 0 => v <= base[p]

\* The row exists once the first statement has run, and has been incremented
\* once the second has.
RowThere ==
  \A p \in Proc :
    /\ InCall(p) => value[arg[p]] >= 0
    /\ pc[p] = "select" => value[arg[p]] >= 1

BoundInv == TypeOK /\ LockHeld /\ RollbackSafe /\ RowThere /\ IssuedBelowValue

\* What the SELECT that ends a call adds to the record of issued numbers.
LEMMA ReturnTimes ==
  ASSUME TypeOK, RowThere, NEW p \in Proc, Return(p)
  PROVE  /\ arg[p] \in Name
         /\ value[arg[p]] \in Value
         /\ \A n \in Name, v \in Value :
              times'[n][v] = IF n = arg[p] /\ v = value[n] THEN times[n][v] + 1
                                                           ELSE times[n][v]
<1>1. pc[p] = "select"
  BY DEF Return, Goto
<1>2. arg[p] \in Name /\ value[arg[p]] \in Value
  BY <1>1 DEF TypeOK, RowThere, Value, Absent
<1>3. ASSUME NEW n \in Name, NEW v \in Value
      PROVE  times'[n][v] = IF n = arg[p] /\ v = value[n] THEN times[n][v] + 1
                                                          ELSE times[n][v]
  <2>1. times'[n] = IF n = arg[p] THEN [times[n] EXCEPT ![value[n]] = @ + 1]
                                  ELSE times[n]
    BY <1>2 DEF Return, TypeOK
  <2>2. times[n] \in [Value -> Nat]
    BY DEF TypeOK
  <2> QED
    BY <2>1, <2>2
<1> QED
  BY <1>2, <1>3

LEMMA InitBoundInv == Init => BoundInv
<1> SUFFICES ASSUME Init PROVE BoundInv
  OBVIOUS
<1>1. TypeOK
  BY InitTypeOK
<1>2. \A p \in Proc : pc[p] = "idle"
  BY DEF Init
<1>3. \A n \in Name, v \in Value : times[n][v] = 0
  BY DEF Init
<1> QED
  BY <1>1, <1>2, <1>3 DEF BoundInv, LockHeld, RollbackSafe, RowThere, InCall, IssuedBelowValue

LEMMA NextBoundInv == BoundInv /\ [Next]_vars => BoundInv'
<1> SUFFICES ASSUME BoundInv, [Next]_vars PROVE BoundInv'
  OBVIOUS
<1> USE DEF BoundInv
<1>t. TypeOK'
  BY NextTypeOK
<1> DEFINE Rest == (LockHeld /\ RollbackSafe /\ RowThere /\ IssuedBelowValue)'
<1>1. ASSUME NEW p \in Proc, Call(p) PROVE Rest
  <2>1. \A q \in Proc : InCall(q)' => q # p /\ InCall(q)
    BY <1>1 DEF Call, Goto, TypeOK, InCall
  <2>2. \A q \in Proc : q # p => arg'[q] = arg[q] /\ pc'[q] = pc[q]
    BY <1>1 DEF Call, Goto, TypeOK
  <2>3. UNCHANGED <<value, base, lock, times>>
    BY <1>1 DEF Call
  <2> QED
    BY <2>1, <2>2, <2>3 DEF LockHeld, RollbackSafe, RowThere, IssuedBelowValue, InCall
<1>2. ASSUME NEW p \in Proc, InsertRow(p) PROVE Rest
  <2>1. /\ \A q \in Proc : pc'[q] = IF q = p THEN "update" ELSE pc[q]
        /\ \A q \in Proc : base'[q] = IF q = p THEN value[arg[p]] ELSE base[q]
        /\ \A n \in Name : value'[n] = IF n = arg[p] /\ value[n] = -1 THEN 0 ELSE value[n]
        /\ arg' = arg /\ times' = times
    BY <1>2 DEF InsertRow, Goto, TypeOK, Absent
  <2>2. Transactional => lock' = p /\ lock \in {None, p}
    BY <1>2 DEF InsertRow, WriteLock
  <2>3. LockHeld'
    BY <2>1, <2>2 DEF LockHeld, InCall
  <2>4. RollbackSafe'
    BY <2>1, <2>2 DEF RollbackSafe, InCall, IssuedBelowValue, TypeOK, LockHeld
  <2>5. RowThere'
    BY <2>1 DEF RowThere, InCall, TypeOK, Absent
  <2>6. IssuedBelowValue'
    <3>1. \A n \in Name : value[n] \in -1 .. MaxValue /\ value[n] <= value'[n]
      BY <2>1 DEF TypeOK, Absent
    <3>2. \A n \in Name, v \in Value : v \in Nat /\ (times[n][v] > 0 => v <= value[n])
      BY DEF IssuedBelowValue, Value
    <3>3. \A n \in Name : value'[n] \in Int
      BY <1>t DEF TypeOK, Absent
    <3> QED
      BY <2>1, <3>1, <3>2, <3>3 DEF IssuedBelowValue
  <2> QED
    BY <2>3, <2>4, <2>5, <2>6
<1>3. ASSUME NEW p \in Proc, Increment(p) PROVE Rest
  <2>1. /\ \A q \in Proc : pc'[q] = IF q = p THEN "select" ELSE pc[q]
        /\ \A n \in Name : value'[n] = IF n = arg[p] THEN value[n] + 1 ELSE value[n]
        /\ arg' = arg /\ times' = times /\ base' = base
        /\ pc[p] = "update"
    BY <1>3 DEF Increment, Goto, TypeOK
  <2>2. Transactional => lock' = p /\ lock \in {None, p}
    BY <1>3 DEF Increment, WriteLock
  <2>3. LockHeld'
    BY <2>1, <2>2 DEF LockHeld, InCall
  <2>4. RollbackSafe'
    BY <2>1 DEF RollbackSafe, InCall
  <2>5. RowThere'
    BY <2>1 DEF RowThere, InCall, TypeOK, Absent
  <2>6. IssuedBelowValue'
    <3>1. \A n \in Name : value[n] \in -1 .. MaxValue /\ value[n] <= value'[n]
      BY <2>1 DEF TypeOK, Absent
    <3>2. \A n \in Name, v \in Value : v \in Nat /\ (times[n][v] > 0 => v <= value[n])
      BY DEF IssuedBelowValue, Value
    <3>3. \A n \in Name : value'[n] \in Int
      BY <1>t DEF TypeOK, Absent
    <3> QED
      BY <2>1, <3>1, <3>2, <3>3 DEF IssuedBelowValue
  <2> QED
    BY <2>3, <2>4, <2>5, <2>6
<1>4. ASSUME NEW p \in Proc, Return(p) PROVE Rest
  <2>1. /\ \A q \in Proc : pc'[q] = IF q = p THEN "idle" ELSE pc[q]
        /\ value' = value /\ arg' = arg /\ base' = base
        /\ pc[p] = "select"
    BY <1>4 DEF Return, Goto, TypeOK
  <2>2. Transactional => \A q \in Proc : InCall(q) => q = p
    BY <2>1 DEF LockHeld, InCall
  <2>3. LockHeld' /\ RollbackSafe'
    BY <2>1, <2>2 DEF LockHeld, RollbackSafe, InCall
  <2>4. RowThere'
    BY <2>1 DEF RowThere, InCall
  <2>5. IssuedBelowValue'
    <3> SUFFICES ASSUME NEW n \in Name, NEW v \in Value, times'[n][v] > 0
                 PROVE  v <= value[n]
      BY <2>1 DEF IssuedBelowValue
    <3>1. times'[n][v] = IF n = arg[p] /\ v = value[n] THEN times[n][v] + 1
                                                       ELSE times[n][v]
      BY <1>4, ReturnTimes
    <3>2. CASE n = arg[p] /\ v = value[n]
      BY <3>2 DEF Value
    <3>3. CASE ~(n = arg[p] /\ v = value[n])
      BY <3>1, <3>3 DEF IssuedBelowValue
    <3> QED
      BY <3>2, <3>3
  <2> QED
    BY <2>3, <2>4, <2>5
<1>5. ASSUME NEW p \in Proc, Abort(p) PROVE Rest
  <2>1. /\ \A q \in Proc : pc'[q] = IF q = p THEN "idle" ELSE pc[q]
        /\ arg' = arg /\ base' = base /\ times' = times
    BY <1>5 DEF Abort, TypeOK
  <2>2. CASE Transactional /\ pc[p] # "insert"
    <3>1. InCall(p)
      BY <1>5, <2>2 DEF Abort, TypeOK, InCall
    <3>2. \A q \in Proc : ~ InCall(q)'
      BY <2>1, <2>2, <3>1 DEF LockHeld, InCall
    <3>3. value' = [value EXCEPT ![arg[p]] = base[p]]
      BY <1>5, <2>2 DEF Abort
    <3>4. IssuedBelowValue'
      BY <2>1, <2>2, <3>1, <3>3 DEF IssuedBelowValue, RollbackSafe, TypeOK
    <3> QED
      BY <3>2, <3>4 DEF LockHeld, RollbackSafe, RowThere, InCall
  <2>3. CASE ~(Transactional /\ pc[p] # "insert")
    <3>1. UNCHANGED <<value, lock>>
      BY <1>5, <2>3 DEF Abort
    <3> QED
      BY <2>1, <3>1 DEF LockHeld, RollbackSafe, RowThere, IssuedBelowValue, InCall
  <2> QED
    BY <2>2, <2>3
<1>6. CASE UNCHANGED vars
  BY <1>6, <1>t DEF vars, LockHeld, RollbackSafe, RowThere, IssuedBelowValue, InCall
<1> QED
  BY <1>t, <1>1, <1>2, <1>3, <1>4, <1>5, <1>6 DEF Next

LEMMA BoundInvCorrect == Spec => []BoundInv
  BY InitBoundInv, NextBoundInv, PTL DEF Spec

\* A number that was handed out stays at or below the stored value, however
\* many processes share the file, and across aborts and rollbacks.
THEOREM IssuedBelowValueCorrect == Spec => []IssuedBelowValue
  BY BoundInvCorrect, PTL DEF BoundInv

----------------------------------------------------------------------------
(* Calls that cannot interleave issue every number once *)

\* The number p is about to read has not been handed out.
Fresh ==
  \A p \in Proc : pc[p] = "select" =>
    \A v \in Value : times[arg[p]][v] > 0 => v < value[arg[p]]

FreshInv == BoundInv /\ Fresh /\ UniqueIssue

LEMMA InitFreshInv == Init => FreshInv
<1> SUFFICES ASSUME Init PROVE FreshInv
  OBVIOUS
<1>1. BoundInv
  BY InitBoundInv
<1>2. \A p \in Proc : pc[p] = "idle"
  BY DEF Init
<1>3. \A n \in Name, v \in Value : times[n][v] = 0
  BY DEF Init
<1> QED
  BY <1>1, <1>2, <1>3 DEF FreshInv, Fresh, UniqueIssue

\* At most one process is inside a call.
LEMMA OneCaller ==
  ASSUME Exclusive, BoundInv, NEW p \in Proc, NEW q \in Proc, InCall(p), InCall(q)
  PROVE  p = q
  BY DEF Exclusive, BoundInv, LockHeld

LEMMA NextFreshInv == ASSUME Exclusive PROVE FreshInv /\ [Next]_vars => FreshInv'
<1> SUFFICES ASSUME FreshInv, [Next]_vars PROVE FreshInv'
  OBVIOUS
<1> USE DEF FreshInv
<1>b. BoundInv' /\ TypeOK
  BY NextBoundInv DEF BoundInv
<1> DEFINE Rest == (Fresh /\ UniqueIssue)'
<1>1. ASSUME NEW p \in Proc, Call(p) PROVE Rest
  <2>1. \A q \in Proc : pc'[q] = "select" => pc[q] = "select" /\ arg'[q] = arg[q]
    BY <1>1, <1>b DEF Call, Goto, TypeOK
  <2>2. value' = value /\ times' = times
    BY <1>1 DEF Call
  <2> QED
    BY <2>1, <2>2 DEF Fresh, UniqueIssue
<1>2. ASSUME NEW p \in Proc, InsertRow(p) PROVE Rest
  <2>1. /\ \A q \in Proc : pc'[q] = IF q = p THEN "update" ELSE pc[q]
        /\ \A n \in Name : value'[n] = IF n = arg[p] /\ value[n] = -1 THEN 0 ELSE value[n]
        /\ arg' = arg /\ times' = times
    BY <1>2, <1>b DEF InsertRow, Goto, TypeOK, Absent
  <2>2. \A q \in Proc : pc[q] = "select" => value[arg[q]] >= 1 /\ arg[q] \in Name
    BY <1>b DEF BoundInv, RowThere, TypeOK
  <2> QED
    BY <2>1, <2>2 DEF Fresh, UniqueIssue
<1>3. ASSUME NEW p \in Proc, Increment(p) PROVE Rest
  <2>1. /\ \A q \in Proc : pc'[q] = IF q = p THEN "select" ELSE pc[q]
        /\ value'[arg[p]] = value[arg[p]] + 1 /\ value[arg[p]] \in Int
        /\ arg' = arg /\ times' = times
        /\ pc[p] = "update" /\ arg[p] \in Name
    BY <1>3, <1>b DEF Increment, Goto, TypeOK, Absent
  <2>2. \A q \in Proc : pc'[q] = "select" => q = p
    BY <2>1, OneCaller DEF InCall
  <2>3. \A v \in Value : times[arg[p]][v] > 0 => v < value'[arg[p]]
    BY <2>1 DEF BoundInv, IssuedBelowValue, Value
  <2> QED
    BY <2>1, <2>2, <2>3 DEF Fresh, UniqueIssue
<1>4. ASSUME NEW p \in Proc, Return(p) PROVE Rest
  <2>1. /\ \A q \in Proc : pc'[q] = IF q = p THEN "idle" ELSE pc[q]
        /\ pc[p] = "select"
    BY <1>4, <1>b DEF Return, Goto, TypeOK
  <2>2. \A q \in Proc : pc'[q] # "select"
    BY <2>1, OneCaller DEF InCall
  <2>3. UniqueIssue'
    <3> SUFFICES ASSUME NEW n \in Name, NEW v \in Value
                 PROVE  times'[n][v] <= 1
      BY DEF UniqueIssue
    <3>1. times'[n][v] = IF n = arg[p] /\ v = value[n] THEN times[n][v] + 1
                                                       ELSE times[n][v]
      BY <1>4, <1>b, ReturnTimes DEF BoundInv
    <3>2. CASE n = arg[p] /\ v = value[n]
      <4>1. ~(times[n][v] > 0)
        BY <2>1, <3>2 DEF Fresh, Value
      <4> QED
        BY <3>1, <3>2, <4>1, <1>b DEF TypeOK
    <3>3. CASE ~(n = arg[p] /\ v = value[n])
      BY <3>1, <3>3 DEF UniqueIssue
    <3> QED
      BY <3>2, <3>3
  <2> QED
    BY <2>2, <2>3 DEF Fresh
<1>5. ASSUME NEW p \in Proc, Abort(p) PROVE Rest
  <2>1. /\ \A q \in Proc : pc'[q] = IF q = p THEN "idle" ELSE pc[q]
        /\ arg' = arg /\ times' = times /\ pc[p] # "idle"
    BY <1>5, <1>b DEF Abort, TypeOK
  <2>2. CASE Transactional /\ pc[p] # "insert"
    <3>1. InCall(p)
      BY <1>b, <2>1, <2>2 DEF TypeOK, InCall
    <3>2. \A q \in Proc : pc'[q] # "select"
      BY <2>1, <3>1, OneCaller DEF InCall
    <3> QED
      BY <2>1, <3>2 DEF Fresh, UniqueIssue
  <2>3. CASE ~(Transactional /\ pc[p] # "insert")
    <3>1. value' = value
      BY <1>5, <2>3 DEF Abort
    <3> QED
      BY <2>1, <3>1 DEF Fresh, UniqueIssue
  <2> QED
    BY <2>2, <2>3
<1>6. CASE UNCHANGED vars
  BY <1>6, <1>b DEF vars, Fresh, UniqueIssue
<1> QED
  BY <1>b, <1>1, <1>2, <1>3, <1>4, <1>5, <1>6 DEF Next

LEMMA FreshInvCorrect == ASSUME Exclusive PROVE Spec => []FreshInv
<1>1. Init => FreshInv
  BY InitFreshInv
<1>2. FreshInv /\ [Next]_vars => FreshInv'
  BY NextFreshInv
<1> QED
  BY <1>1, <1>2, PTL DEF Spec

\* As long as one process has the workspace open, or callers pass a
\* transaction, no number is handed out twice, whatever calls abort.
THEOREM UniqueIssueCorrect == ASSUME Exclusive PROVE Spec => []UniqueIssue
<1>1. FreshInv => UniqueIssue
  BY DEF FreshInv
<1> QED
  BY <1>1, FreshInvCorrect, PTL

\* Under the same assumption the three statements implement the abstract
\* issuer of fresh numbers: the call's SELECT is the issue, the rest stutters.
THEOREM ImplementsIssuer == ASSUME Exclusive PROVE Spec => IssuerSpec
<1>1. Init => Issuer!Init
  BY DEF Init, Issuer!Init
<1>2. FreshInv /\ [Next]_vars => [Issuer!Next]_(Issuer!vars)
  <2> SUFFICES ASSUME FreshInv, [Next]_vars PROVE Issuer!Next \/ times' = times
    BY DEF Issuer!vars
  <2>1. ASSUME NEW p \in Proc, Return(p) PROVE Issuer!Next
    <3>1. arg[p] \in Name /\ value[arg[p]] \in Value /\ pc[p] = "select"
      BY <2>1, ReturnTimes DEF FreshInv, BoundInv, Return, Goto
    <3>2. times[arg[p]][value[arg[p]]] = 0
      <4>1. ~(times[arg[p]][value[arg[p]]] > 0)
        BY <3>1 DEF FreshInv, Fresh, Value
      <4>2. times[arg[p]][value[arg[p]]] \in Nat
        BY <3>1 DEF FreshInv, BoundInv, TypeOK
      <4> QED
        BY <4>1, <4>2
    <3>3. times' = [times EXCEPT ![arg[p]][value[arg[p]]] = 1]
      BY <2>1, <3>2 DEF Return
    <3>4. Issuer!Issue(arg[p])
      BY <3>1, <3>2, <3>3 DEF Issuer!Issue
    <3> QED
      BY <3>1, <3>4 DEF Issuer!Next
  <2>2. ASSUME NEW p \in Proc, Call(p) \/ InsertRow(p) \/ Increment(p) \/ Abort(p)
        PROVE  times' = times
    BY <2>2 DEF Call, InsertRow, Increment, Abort
  <2>3. CASE UNCHANGED vars
    BY <2>3 DEF vars
  <2> QED
    BY <2>1, <2>2, <2>3 DEF Next
<1> QED
  BY <1>1, <1>2, FreshInvCorrect, PTL DEF Spec, IssuerSpec, Issuer!Spec
============================================================================
