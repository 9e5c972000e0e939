---------------------------- MODULE CommandOrder ----------------------------
(***************************************************************************)
(* What numbering the motion commands is for. The scanner gives each       *)
(* command a number after all those before; the robot takes commands in    *)
(* their order, and none twice. It may miss some: two that were sent       *)
(* between two frames, or one under way when the connection closed. A new  *)
(* connection goes on after the last command that was taken.               *)
(***************************************************************************)
EXTENDS Integers

VARIABLES
  sent,   \* the number of the last command
  taken   \* the number of the last command that was taken

vars == <<sent, taken>>

Init == taken \in Nat /\ sent = taken

Send == sent' \in Nat /\ sent' > sent /\ UNCHANGED taken

Take == taken' \in taken + 1 .. sent /\ UNCHANGED sent

Resume == sent' = taken /\ UNCHANGED taken

Next == Send \/ Take \/ Resume

Spec == Init /\ [][Next]_vars

=============================================================================
