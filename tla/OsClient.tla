------------------------------ MODULE OsClient ------------------------------
(* What the rest of the program is promised by an OS client (the trait     *)
(* Client, src/client.rs): it comes up with nothing installed, and routes  *)
(* are installed and withdrawn one by one; a call that fails, or clears a  *)
(* VNI only in part, makes fewer such steps.                               *)
CONSTANT Routes

VARIABLES up, installed

Init == ~up /\ installed = {}

ComeUp == ~up /\ up' /\ installed' = {}
GoDown == up /\ ~up' /\ installed' = {}

Add(r)    == up /\ up' /\ installed' = installed \cup {r}
Remove(r) == up /\ up' /\ installed' = installed \ {r}

Next == ComeUp \/ GoDown \/ \E r \in Routes : Add(r) \/ Remove(r)

Spec == Init /\ [][Next]_<<up, installed>>
=============================================================================
