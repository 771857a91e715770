---------------------------- MODULE MCCloudPlans ----------------------------
(* Two devices' copies of one plan file (the same identity key) and the    *)
(* texts it may have.                                                      *)
EXTENDS CloudPlans, TLC

CONSTANTS l1, l2, k, a, b, c

MCKeyOf == (l1 :> k) @@ (l2 :> k)
MCOneKey == (l1 :> k)
MCHashOf == (a :> a) @@ (b :> b) @@ (c :> c)
RequestSymmetry == Permutations(Requests)

(* Two devices that hold one plan are alike, and so are two requests.      *)
MCTwoHashes == (a :> a) @@ (b :> b)
DeviceSymmetry == Permutations(Requests) \cup Permutations({l1, l2})
=============================================================================
