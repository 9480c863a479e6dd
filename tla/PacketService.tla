-------------------------- MODULE PacketService --------------------------
(***************************************************************************)
(* What a handler promises the processes that send it packets: each packet *)
(* is answered once, every packet is answered as long as the handler is    *)
(* up, and the handler goes down only when nobody holds anything of it.    *)
(***************************************************************************)
CONSTANT Users         \* the processes that send packets

VARIABLES
    asked,             \* those with a packet that has not been answered
    holding,           \* those that hold a lock or handle of the service
    up                 \* the service still answers

vars == <<asked, holding, up>>

Init == /\ asked \subseteq Users
        /\ holding = {}
        /\ up = TRUE

Ask(u) == /\ u \notin asked
          /\ asked' = asked \cup {u}
          /\ UNCHANGED <<holding, up>>

(* An answer may grant the asking process something or take it back.       *)
Answer(u) == /\ up
             /\ u \in asked
             /\ asked' = asked \ {u}
             /\ holding' \in {holding, holding \cup {u}, holding \ {u}}
             /\ UNCHANGED up

Stop == /\ up
        /\ holding = {}
        /\ up' = FALSE
        /\ UNCHANGED <<asked, holding>>

Next == Stop \/ \E u \in Users : Ask(u) \/ Answer(u)

Safety == Init /\ [][Next]_vars

Answering == \A u \in Users : WF_vars(Answer(u))

Spec == Safety /\ Answering
=============================================================================
