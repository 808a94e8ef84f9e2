------------------------------ MODULE MCBridge ------------------------------
(* Bridge is checked as it is: its constants are sets of model values.  No *)
(* property tells one client from another, nor one tree from another, and  *)
(* all of them are safety properties.                                      *)
EXTENDS Bridge, TLC

Alike == Permutations(Client) \cup Permutations(Tree)
=============================================================================
