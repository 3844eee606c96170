----------------------------- MODULE Reputation -----------------------------
(***************************************************************************)
(* abuse.py: ReputationPolicy.evaluate, which decides at creation what     *)
(* becomes of a link.  A host is the sequence of its labels, so "bit.ly"   *)
(* is <<"bit", "ly">>, and <<>> when the URL has none; a numeric address   *)
(* is the sequence of its parts.                                           *)
(***************************************************************************)
EXTENDS Integers, SequencesExt

CONSTANTS Blocklist, Shorteners,    \* domains: sequences of labels
          LowTrust,                 \* suffixes of low trust, without their first dot
          LocalNames,               \* hosts that are private as they are: localhost
          LocalPrefixes,            \* of private addresses: 10., 192.168.
          LocalSuffixes,            \* of private names: .internal
          AllowPrivate              \* the escape hatch for tests and demos

(* registrable_suffix_match: the host is a domain of the set, or ends in a *)
(* dot and one.                                                            *)
Matches(host, domains) == \E d \in domains : IsSuffix(d, host)

(* PRIVATE_HOST_PATTERNS: those with a dot at their end want one label more. *)
Private(host) ==
  \/ host \in LocalNames
  \/ \E p \in LocalPrefixes : IsStrictPrefix(p, host)
  \/ \E s \in LocalSuffixes : IsStrictSuffix(s, host)

Refused(host) ==
  \/ host = <<>>
  \/ ~AllowPrivate /\ Private(host)
  \/ Matches(host, Blocklist)
  \/ Matches(host, Shorteners)

(* host.endswith(low_trust): every suffix of low trust begins with a dot. *)
OfLowTrust(host) == \E s \in LowTrust : IsStrictSuffix(s, host)

(* evaluate: every check that refuses comes before the one that shows the  *)
(* destination first.                                                      *)
Evaluate(host) ==
  IF Refused(host) THEN "refuse" ELSE IF OfLowTrust(host) THEN "interstitial" ELSE "allow"
=============================================================================
