---------------------------- MODULE FrameContract ----------------------------
(***************************************************************************)
(* What the inbox, the monolith calls and the outbox promise together for  *)
(* one frame of the provider, however often it is delivered: it is taken   *)
(* up at most once, then settled once and answered once, or refused once;  *)
(* work that dies in between is not taken up again.                        *)
(***************************************************************************)
EXTENDS Naturals

CONSTANT Frames

VARIABLES
    phase,       \* how far the processing of each frame has got
    settlements  \* times the monolith settled it

vars == <<phase, settlements>>

Phases == {"unseen", "taken", "settled", "answered", "acknowledged", "refused"}

Init ==
    /\ phase = [f \in Frames |-> "unseen"]
    /\ settlements = [f \in Frames |-> 0]

Move(f, from, to) ==
    /\ phase[f] = from
    /\ phase' = [phase EXCEPT ![f] = to]

Take(f) == Move(f, "unseen", "taken") /\ UNCHANGED settlements

SettleOnce(f) ==
    /\ Move(f, "taken", "settled")
    /\ settlements' = [settlements EXCEPT ![f] = @ + 1]

Answer(f) == Move(f, "settled", "answered") /\ UNCHANGED settlements

Acknowledge(f) == Move(f, "answered", "acknowledged") /\ UNCHANGED settlements

Refuse(f) == Move(f, "taken", "refused") /\ UNCHANGED settlements

Next ==
    \E f \in Frames :
        Take(f) \/ SettleOnce(f) \/ Answer(f) \/ Acknowledge(f) \/ Refuse(f)

Spec == Init /\ [][Next]_vars
=============================================================================
