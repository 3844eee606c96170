----------------------------- MODULE MCServing -----------------------------
(* Small instances of Serving for TLC. *)
EXTENDS Serving, TLC

Forever == {NoExpiry}
ShortLived == {1}
Symmetry == Permutations(Reqs) \cup Permutations(Calls) \cup Permutations(Admins)

(* One policy: a refused domain with a trusted and a low-trust parent, a   *)
(* shortener, a suffix of low trust and private addresses.                 *)
Blocked == {<<"phish", "org">>}
Chained == {<<"bit", "ly">>}
Cheap == {<<"xyz">>}
Local == {<<"localhost">>}
Networks == {<<"10">>, <<"192", "168">>}
Internal == {<<"internal">>}

Trusted == {<<"example", "org">>}
Suspect == {<<"promo", "xyz">>}
Several == {<<>>, <<"evil", "bit", "ly">>, <<"192", "168", "0", "1">>, <<"promo", "xyz">>}
=============================================================================
