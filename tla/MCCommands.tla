----------------------------- MODULE MCCommands -----------------------------
(* The instance of Commands for TLC.                                       *)
EXTENDS Commands, TLC

(* The second is about to end, or has just begun.                          *)
MCStarts == [sec : {1}, nsec : 0 .. NsPerSec - 1]

Names == Permutations(Instances) \cup Permutations(Creations)

=============================================================================
