---------------------------- MODULE AtomicPackets ----------------------------
(***************************************************************************)
(* What docs/architecture.md promises of build packets: whatever is read   *)
(* and generated before, a packet is a faithful picture of a thread at one *)
(* moment, and at that moment the thread was eligible.  offer[t] is the    *)
(* packet thread t would get now, or NotEligible.                          *)
(***************************************************************************)
EXTENDS Sequences

CONSTANT NotEligible

VARIABLES offer, packets

Init == packets = <<>>

(* Decisions, labels, runs and corrections change what is on offer. *)
Change == UNCHANGED packets

Create ==
    /\ \E t \in DOMAIN offer :
         /\ offer[t] # NotEligible
         /\ packets' = Append(packets, offer[t])
    /\ UNCHANGED offer

Next == Change \/ Create

Spec == Init /\ [][Next]_<<offer, packets>>
=============================================================================
