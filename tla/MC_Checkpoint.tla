---------------------------- MODULE MC_Checkpoint ----------------------------
(* The owed events of two binlog files, the second longer than the first, *)
(* so that the first file's last position also names an event of the      *)
(* second.                                                                *)
EXTENDS Checkpoint

TwoFiles == << <<1, 5>>, <<1, 6>>, <<2, 5>>, <<2, 6>>, <<2, 7>> >>
FirstEvent == <<1, 4>>
EmptyPos == <<0, 0>>
=============================================================================
