----------------------------- MODULE TopicService -----------------------------
(***************************************************************************)
(* What a publisher promises the clients of its one topic, without threads *)
(* or locks.  Clients join and leave between two messages, never during    *)
(* one; a message goes to members only, to each once, and is not over      *)
(* before it has reached every member that is ready for it.  A service     *)
(* that fails stands still.                                                *)
(***************************************************************************)
CONSTANT Clients

VARIABLES
  members,         \* clients that have subscribed
  ready,           \* clients that can be written to
  status,          \* "idle", "delivering" a message, or "failed"
  reached          \* members the message in delivery was written to

vars == <<members, ready, status, reached>>

Init ==
  /\ members = {}
  /\ ready = {}
  /\ status = "idle"
  /\ reached = {}

Join(c) ==
  /\ status = "idle"
  /\ members' = members \cup {c}
  /\ UNCHANGED <<ready, status, reached>>

Leave(gone) ==
  /\ status = "idle"
  /\ members' = members \ gone
  /\ UNCHANGED <<ready, status, reached>>

(* A client becomes ready, or ceases to be.                                *)
Turn(c) ==
  /\ status = "idle"
  /\ ready' \in {ready \cup {c}, ready \ {c}}
  /\ UNCHANGED <<members, status, reached>>

Begin ==
  /\ status = "idle"
  /\ status' = "delivering"
  /\ UNCHANGED <<members, ready, reached>>

(* The write may show that the client is no longer ready.                  *)
Reach(c) ==
  /\ status = "delivering"
  /\ c \in (members \cap ready) \ reached
  /\ reached' = reached \cup {c}
  /\ ready' \in {ready, ready \ {c}}
  /\ UNCHANGED <<members, status>>

End ==
  /\ status = "delivering"
  /\ members \cap ready \subseteq reached
  /\ status' = "idle"
  /\ reached' = {}
  /\ UNCHANGED <<members, ready>>

Fail ==
  /\ status' = "failed"
  /\ reached' = {}
  /\ UNCHANGED <<members, ready>>

Next ==
  \/ \E c \in Clients : Join(c) \/ Turn(c) \/ Reach(c)
  \/ \E gone \in SUBSET Clients : Leave(gone)
  \/ Begin \/ End \/ Fail

Spec == Init /\ [][Next]_vars

==============================================================================
