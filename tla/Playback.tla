------------------------------ MODULE Playback ------------------------------
(***************************************************************************)
(* What docs/backend-protocol.md promises of reading aloud, without        *)
(* threads, locks or generations: reads are accepted one at a time and in  *)
(* silence only; what is heard is the read accepted last; a read that was  *)
(* canceled may sound until its cancellation completes and never after;    *)
(* a read that ended is not heard again.                                   *)
(***************************************************************************)
EXTENDS Naturals

VARIABLES read,     \* the read accepted last, 0 before the first
          phase,    \* "open" while it may sound, "closing" once canceled
          sounding  \* the read that is heard, 0 in silence

pvars == <<read, phase, sounding>>

Init == read = 0 /\ phase = "closed" /\ sounding = 0

Accept == /\ phase = "closed" /\ sounding = 0
          /\ read' \in {n \in Nat : n > read}
          /\ phase' = "open"
          /\ UNCHANGED sounding

Sound == /\ phase \in {"open", "closing"} /\ sounding = 0
         /\ sounding' = read
         /\ UNCHANGED <<read, phase>>

Quiet == /\ sounding # 0
         /\ sounding' = 0
         /\ UNCHANGED <<read, phase>>

Cancel == /\ phase = "open"
          /\ phase' = "closing"
          /\ UNCHANGED <<read, sounding>>

(* The cancellation completes: silence at the latest now. *)
Cut == /\ phase = "closing"
       /\ phase' = "closed"
       /\ sounding' = 0
       /\ UNCHANGED read

(* A read ends by itself, or is canceled before it could sound. *)
End == /\ phase = "open" /\ sounding = 0
       /\ phase' = "closed"
       /\ UNCHANGED <<read, sounding>>

Next == Accept \/ Sound \/ Quiet \/ Cancel \/ Cut \/ End
Spec == Init /\ [][Next]_pvars
=============================================================================
