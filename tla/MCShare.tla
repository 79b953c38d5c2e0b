------------------------------ MODULE MCShare ------------------------------
(* Instances of Share for TLC. *)
EXTENDS Share, TLC

CONSTANTS r1, r2, t1, t2

(* r1 comes from the local client: a chunk, an entry without data, a chunk,
   for two trackers.  r2 was forwarded by another node, with no size in it, and
   names a directory that is here too. *)
TwoKinds == r1 :> "meta" @@ r2 :> "udp"
TwoUrls == r1 :> {t1, t2} @@ r2 :> {t1}
TwoTcps == r1 :> <<t1>> @@ r2 :> <<t1>>
TwoSizes == r1 :> 2 @@ r2 :> 0
TwoListings == r1 :> <<1, 0, 1>> @@ r2 :> <<1>>

(* One request for two trackers, of which none is told; or for one that is. *)
OneKind == r1 :> "meta"
OneUrls == r1 :> {t1, t2}
OneTcps == r1 :> <<t1>>
OneSize == r1 :> 2
NoTcps == r1 :> <<>>
ToldUrls == r1 :> {t1}
OneListing == r1 :> <<1, 1>>
OneEntry == r1 :> <<1>>

(* A bound: what comes besides r1 is r2; or a POST and Stop; or, with one
   tracker, two POSTs and what is published on seed. *)
Occasion ==
    LET asked == {p \in Posts : ask[p] # "none"} IN
    \/ asked = {} /\ count = 0 /\ phase = "up"
    \/ get[r2] = "new" /\ Cardinality(asked) <= 1 /\ count = 0
    \/ get[r2] = "new" /\ job[<<r1, t2>>] \in {"none", "dialing"} /\ phase = "up"

Alike == Permutations(Posts)
============================================================================
