-------------------------- MODULE SettingsRegister --------------------------
(***************************************************************************)
(* What the settings promise to whoever sets them: a register whose last   *)
(* write wins.  Versions are numbered in the order in which they were set. *)
(* A version that is stored replaces older ones only; until the disk has   *)
(* it for sure a loss of power may bring an older one back, but none that  *)
(* is older than the last of which that is so.                             *)
(***************************************************************************)
EXTENDS Naturals

VARIABLES asked,    \* the versions that were set
          stored,   \* the one that a reader finds
          safe      \* the newest that no loss of power takes back

vars == <<asked, stored, safe>>

Init == asked = 0 /\ stored = 0 /\ safe = 0

Ask == asked' = asked + 1 /\ UNCHANGED <<stored, safe>>

Store ==
  /\ stored' > stored /\ stored' <= asked
  /\ UNCHANGED <<asked, safe>>

Settle == safe' = stored /\ UNCHANGED <<asked, stored>>

LosePower ==
  /\ stored' <= stored /\ stored' >= safe /\ safe' = stored'
  /\ UNCHANGED asked

Next == Ask \/ Store \/ Settle \/ LosePower

Spec == Init /\ [][Next]_vars
=============================================================================
