------------------------------ MODULE Sniffer ------------------------------
(***************************************************************************)
(* passive.PassiveSniffer: the listeners that the audits of a session      *)
(* start.  The sniffer of the g-th audit has one goroutine <<g, proto>>    *)
(* for each discovery protocol; nobody waits for them, they only look at   *)
(* the audit's context between two reads.  What a packet says besides its  *)
(* source is left out.                                                     *)
(***************************************************************************)
EXTENDS Integers

CONSTANTS Proto,       \* the protocols a sniffer listens for
          Exclusive,   \* those whose socket is not shared: NetBIOS
          Source,      \* the addresses that packets come from
          MaxAudit     \* bound on the number of audits

ASSUME SnifferAssumption == Exclusive \subseteq Proto /\ MaxAudit \in Nat

VARIABLES listener,   \* the state of every listener
          cancelled   \* the audits whose context is cancelled

snifferVars == <<listener, cancelled>>

Listener == (1 .. MaxAudit) \X Proto

NoIP == 0 - 1

InitSniffer ==
  /\ listener = [l \in Listener |-> [pc |-> "off", subnet |-> << >>, ip |-> NoIP]]
  /\ cancelled = {}

Goto(l, pc, ip) == listener' = [listener EXCEPT ![l].pc = pc, ![l].ip = ip]

At(l, pc) == listener[l].pc = pc

Bound(l) == listener[l].pc \notin {"off", "start", "done"}

\* Start returns as soon as the goroutines are spawned.  What they discover is
\* meant for one subnet.
StartListeners(g, subnet) ==
  listener' = [l \in Listener |->
                 IF l[1] = g THEN [pc |-> "start", subnet |-> subnet, ip |-> NoIP]
                 ELSE listener[l]]

\* listenMulticast falls back to listenUDP; a listener without a socket is done.
\* No second socket is bound to an exclusive port, whoever holds it.
Listen(l) ==
  /\ At(l, "start")
  /\ \/ /\ l[2] \in Exclusive => ~\E other \in Listener : other[2] = l[2] /\ Bound(other)
        /\ Goto(l, "loop", NoIP)
     \/ Goto(l, "done", NoIP)
  /\ UNCHANGED cancelled

\* The select at the head of the loop.
CheckContext(l) ==
  /\ At(l, "loop")
  /\ Goto(l, IF l[1] \in cancelled THEN "done" ELSE "read", NoIP)
  /\ UNCHANGED cancelled

\* A read ends after a second, or when a packet comes.
ReadTimeout(l) == At(l, "read") /\ Goto(l, "loop", NoIP) /\ UNCHANGED cancelled

ReadPacket(l) ==
  /\ At(l, "read")
  /\ \E ip \in Source : Goto(l, "found", ip)
  /\ UNCHANGED cancelled

\* The callback of recordDiscovery, whose effect is the caller's.
DiscoveryReturned(l) == At(l, "found") /\ Goto(l, "loop", NoIP) /\ UNCHANGED cancelled
=============================================================================
