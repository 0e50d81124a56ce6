---------------------------- MODULE MCEnvelopes ----------------------------
(***************************************************************************)
(* Small universes of envelopes.  The letter of a digest is the branch of  *)
(* the chain it belongs to and the number its sequence; n2 and n3 are      *)
(* signed by the second key generation.                                    *)
(***************************************************************************)

CONSTANTS a1, b1, a2, b2, a3, n2, n3, zero, k1, k2, v1, v2

Envelope(s, kv, prev, key) ==
  [sequence |-> s, keyVersion |-> kv, prevDigest |-> prev, signer |-> key]

AllFields ==
  [d \in {a1, b1, a2, b2, a3, n2, n3} |->
     CASE d = a1 -> Envelope(1, 1, zero, k1)
       [] d = b1 -> Envelope(1, 1, zero, k1)
       [] d = a2 -> Envelope(2, 1, a1, k1)
       [] d = b2 -> Envelope(2, 1, b1, k1)
       [] d = a3 -> Envelope(3, 1, a2, k1)
       [] d = n2 -> Envelope(2, 2, a1, k2)
       [] d = n3 -> Envelope(3, 2, a2, k2)]

(* Two branches that diverge at sequence 1, and an event that only the     *)
(* second key generation may sign.                                         *)
ForkDigest == {a1, b1, a2, b2, n2}

(* One branch to compact, and an event that contradicts it.                 *)
CompactionDigest == {a1, b1, a2, a3}

=============================================================================
