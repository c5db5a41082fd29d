---------------------------- MODULE ConfigFollower ----------------------------
(***************************************************************************)
(* What a DynamicConfigHandler promises, whatever it does with tasks: the  *)
(* set of entries it follows is, after each change it was told of, the set *)
(* the configuration file names.  crypto-market-multicast (file/config.rs) *)
(* and crypto-market-replay (config/dynamic.rs) have one each; their       *)
(* modules are shown to implement this one.                                *)
(***************************************************************************)
CONSTANTS
  Entries,       \* what a file may name
  Unreadable     \* the content of a file that cannot be parsed

VARIABLES
  phase,         \* "off", "deaf" (read, but not watched), "on" or "down"
  content,       \* the entries the file names
  followed,      \* the entries the handler follows
  behind,        \* is an event pending?
  missed         \* was the file last written while the handler was deaf?

vars == <<phase, content, followed, behind, missed>>

Contents == {Unreadable} \cup SUBSET Entries

Init ==
  /\ phase = "off"
  /\ content \in Contents
  /\ followed = {}
  /\ behind = FALSE
  /\ missed = FALSE

Adopt == followed' = IF content = Unreadable THEN followed ELSE content

Start ==
  /\ phase = "off"
  /\ phase' = IF content = Unreadable THEN "down" ELSE "deaf"
  /\ Adopt
  /\ UNCHANGED <<content, behind, missed>>

Listen ==
  /\ phase = "deaf"
  /\ phase' \in {"on", "down"}
  /\ UNCHANGED <<content, followed, behind, missed>>

Write ==
  /\ content' \in Contents
  /\ behind' = (behind \/ phase = "on")
  /\ missed' = (phase = "deaf")
  /\ UNCHANGED <<phase, followed>>

(* The content adopted is the present one; more events may be pending.     *)
Follow ==
  /\ phase = "on"
  /\ behind
  /\ behind' \in BOOLEAN
  /\ Adopt
  /\ UNCHANGED <<phase, content, missed>>

GoDown ==
  /\ phase = "on"
  /\ phase' = "down"
  /\ UNCHANGED <<content, followed, behind, missed>>

Next == Start \/ Listen \/ Write \/ Follow \/ GoDown

Spec == Init /\ [][Next]_vars

(* With no event pending and none missed the handler follows the file.     *)
Faithful ==
  phase \in {"deaf", "on"} /\ ~behind /\ ~missed /\ content # Unreadable => followed = content

(* A file that is not changed any more is followed in the end.             *)
Settles ==
  \A S \in SUBSET Entries :
    <>[](content = S /\ ~missed) => <>[](followed = S \/ phase = "down")

==============================================================================
