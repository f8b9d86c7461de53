------------------------------ MODULE Handover ------------------------------
(***************************************************************************)
(* What a transfer promises, with no protocol in it: a batch of files is   *)
(* handed over, or is not.  Nothing appears at the destination before the  *)
(* receiving user has agreed and the sender has offered the whole batch;   *)
(* the receiver then keeps all of it or drops all of it, apart from files  *)
(* its filesystem refuses to delete; and the sender may only report        *)
(* success for a batch that is kept.                                       *)
(***************************************************************************)
EXTENDS Integers

CONSTANTS Files, Stubborn

VARIABLES agreed,    \* the receiving user said yes
          offered,   \* the sender has sent everything
          dest,      \* files visible under their final names
          receiver,  \* "pending", "kept" or "dropped"
          sender     \* "pending", "completed" or "stopped"

handover == <<agreed, offered, dest, receiver, sender>>

Init == /\ agreed = FALSE /\ offered = FALSE /\ dest = {}
        /\ receiver = "pending" /\ sender = "pending"

Agree == /\ receiver = "pending" /\ agreed' = TRUE
         /\ UNCHANGED <<offered, dest, receiver, sender>>

Offer == /\ sender = "pending" /\ offered' = TRUE
         /\ UNCHANGED <<agreed, dest, receiver, sender>>

Place(f) == /\ agreed /\ offered /\ receiver = "pending"
            /\ dest' = dest \cup {f}
            /\ UNCHANGED <<agreed, offered, receiver, sender>>

Withdraw == /\ receiver = "pending" /\ dest' \in SUBSET (dest \cap Stubborn)
            /\ UNCHANGED <<agreed, offered, receiver, sender>>

Keep == /\ receiver = "pending" /\ dest = Files
        /\ receiver' = "kept"
        /\ UNCHANGED <<agreed, offered, dest, sender>>

Drop == /\ receiver = "pending" /\ dest \subseteq Stubborn
        /\ receiver' = "dropped"
        /\ UNCHANGED <<agreed, offered, dest, sender>>

Complete == /\ sender = "pending" /\ receiver = "kept"
            /\ sender' = "completed"
            /\ UNCHANGED <<agreed, offered, dest, receiver>>

Stop == /\ sender = "pending" /\ sender' = "stopped"
        /\ UNCHANGED <<agreed, offered, dest, receiver>>

Next == \/ Agree \/ Offer \/ Withdraw \/ Keep \/ Drop \/ Complete \/ Stop
        \/ \E f \in Files : Place(f)

Spec == Init /\ [][Next]_handover
=============================================================================
