----------------------------- MODULE DelayLine -----------------------------
(***************************************************************************)
(* What the receive side of the simulation link amounts to: for each id a  *)
(* line that holds one packet back.  The first packet is handed over when  *)
(* it comes and again with the next one; from then on each packet is       *)
(* handed over exactly once, in order, when the one after it comes.        *)
(***************************************************************************)
CONSTANTS Id, Packet, NoPacketYet

VARIABLES
    sent,      \* the packet of an id that was sent last
    waiting,   \* it has not been answered by handing over a packet
    heldBack,  \* the packet that is held back
    got        \* the packet that was handed over last

delayVars == <<sent, waiting, heldBack, got>>

DelayInit == /\ sent = [id \in Id |-> NoPacketYet]
             /\ waiting = [id \in Id |-> FALSE]
             /\ heldBack = [id \in Id |-> NoPacketYet]
             /\ got = [id \in Id |-> NoPacketYet]

Send(id, p) ==
    /\ ~waiting[id]
    /\ sent' = [sent EXCEPT ![id] = p]
    /\ waiting' = [waiting EXCEPT ![id] = TRUE]
    /\ UNCHANGED <<heldBack, got>>

HandOver(id) ==
    /\ waiting[id]
    /\ got' = [got EXCEPT ![id] = IF heldBack[id] = NoPacketYet THEN sent[id]
                                  ELSE heldBack[id]]
    /\ heldBack' = [heldBack EXCEPT ![id] = sent[id]]
    /\ waiting' = [waiting EXCEPT ![id] = FALSE]
    /\ UNCHANGED sent

DelayNext == \E id \in Id : HandOver(id) \/ \E p \in Packet : Send(id, p)

DelaySpec == DelayInit /\ [][DelayNext]_delayVars
             /\ \A id \in Id : WF_delayVars(HandOver(id))
=============================================================================
