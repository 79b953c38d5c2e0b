----------------------------- MODULE MCProgress -----------------------------
(* A file that comes in two chunks, one that is announced meanwhile and one
   that goes out. *)
EXTENDS Progress, TLC

CONSTANTS s1, s2, j1

OneFile == s1 :> <<3, 5>> @@ s2 :> <<>>
TwoSizes == s1 :> 3 @@ s2 :> 1
OneSent == j1 :> 2
============================================================================
