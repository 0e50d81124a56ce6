------------------------------ MODULE AuditLog ------------------------------
(***************************************************************************)
(* What a reader of one device may rely on, whatever the service does with *)
(* candidates, conflicts, keys and views: a log that only grows at its end *)
(* and is only cut at its beginning.  Each entry names the one before it,  *)
(* and the entry a cut removed last stays known as the anchor, to which    *)
(* what follows can be verified.                                           *)
(***************************************************************************)
EXTENDS Integers

CONSTANTS
  Digest,       \* entries
  Fields,       \* Fields[d]: the sequence of entry d and the entry it names
  ZeroDigest,   \* what the first entry names
  MaxSequence   \* the longest log

VARIABLES
  end,       \* the last sequence of the log
  floor,     \* the last sequence that was cut off
  anchor,    \* the entry at the floor
  retained   \* the entries above the floor

vars == <<end, floor, anchor, retained>>

Init ==
  /\ end = 0
  /\ floor = 0
  /\ anchor = ZeroDigest
  /\ retained = {}

(* d is the entry a new one must name.                                      *)
IsLast(d) ==
  \/ floor = end /\ d = anchor
  \/ floor < end /\ d \in retained /\ Fields[d].sequence = end

(* Entries end + 1 to h appear at once, one for each sequence.              *)
Extend(h) ==
  /\ end' = h
  /\ \E run \in [(end + 1)..h -> Digest] :
       /\ \A s \in (end + 1)..h :
            /\ Fields[run[s]].sequence = s
            /\ IF s = end + 1 THEN IsLast(Fields[run[s]].prevDigest)
                              ELSE Fields[run[s]].prevDigest = run[s - 1]
       /\ retained' = retained \cup {run[s] : s \in (end + 1)..h}
  /\ UNCHANGED <<floor, anchor>>

(* The log is cut above c, and the entry at c becomes the anchor.           *)
Truncate(c) ==
  /\ floor' = c
  /\ anchor' \in retained
  /\ Fields[anchor'].sequence = c
  /\ retained' = {d \in retained : Fields[d].sequence > c}
  /\ UNCHANGED end

Next ==
  \/ \E h \in (end + 1)..MaxSequence : Extend(h)
  \/ \E c \in (floor + 1)..end : Truncate(c)

Spec == Init /\ [][Next]_vars

=============================================================================
