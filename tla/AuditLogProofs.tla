---------------------------- MODULE AuditLogProofs ----------------------------
(***************************************************************************)
(* What every reader of an AuditLog relies on: one entry for each sequence *)
(* above the floor, each naming the one before it; and what a bounded      *)
(* query in the order of the sequences returns.                            *)
(***************************************************************************)
EXTENDS AuditLog, FiniteSetTheorems, NaturalsInduction, WellFoundedInduction, TLAPS

SeqOf(d) == Fields[d].sequence

(* One entry for each sequence above the floor.                             *)
Contiguous ==
  /\ end \in Nat /\ floor \in Nat /\ floor =< end
  /\ retained \subseteq Digest /\ IsFiniteSet(retained)
  /\ \A d \in retained : SeqOf(d) \in (floor + 1)..end
  /\ \A s \in (floor + 1)..end : \E d \in retained : SeqOf(d) = s
  /\ \A d, e \in retained : SeqOf(d) = SeqOf(e) => d = e

(* The first one names the anchor, the others their predecessors.           *)
Linked ==
  \A d \in retained :
    IF SeqOf(d) = floor + 1
      THEN Fields[d].prevDigest = anchor
      ELSE Fields[d].prevDigest \in retained /\ SeqOf(Fields[d].prevDigest) = SeqOf(d) - 1

LogInv == Contiguous /\ Linked

-----------------------------------------------------------------------------
(* Numbers and sets.                                                       *)

LEMMA NatHasLeast ==
  ASSUME NEW T \in SUBSET Nat, T # {}
  PROVE  \E x \in T : \A y \in T : x =< y
<1> DEFINE R == OpToRel(<, Nat)
<1>1. IsWellFoundedOn(R, Nat)
  BY NatLessThanWellFounded
<1>2. \A x, y \in T : <<y, x>> \in R <=> y < x
  BY DEF OpToRel
<1> HIDE DEF R
<1>3. \E x \in T : \A y \in T : <<y, x>> \notin R
  BY <1>1, WFMin
<1>4. PICK x \in T : \A y \in T : ~ (y < x)
  BY <1>2, <1>3, Zenon
<1> QED BY <1>4

(* A set that is bounded, and not empty, has a largest element.             *)
LEMMA BoundedHasLargest ==
  ASSUME NEW T \in SUBSET Nat, T # {}, NEW b \in Nat, \A y \in T : y =< b
  PROVE  \E m \in T : \A y \in T : y =< m
<1> DEFINE C == {x \in Nat : \A y \in T : y =< x}
<1>1. C \in SUBSET Nat /\ C # {}
  OBVIOUS
<1>2. PICK m \in C : \A x \in C : m =< x
  <2> HIDE DEF C
  <2> QED BY <1>1, NatHasLeast
<1>3. m \in T
  <2>1. CASE m = 0
    <3>1. PICK y \in T : y =< m
      OBVIOUS
    <3> QED BY <2>1, <3>1
  <2>2. CASE m # 0 /\ m \notin T
    <3>1. m - 1 \in Nat /\ \A y \in T : y =< m - 1
      BY <2>2
    <3> QED BY <1>2, <3>1
  <2> QED BY <2>1, <2>2
<1> QED BY <1>2, <1>3

(* The first n of some rows: a row before one of them is one of them.       *)
LEMMA FirstRows ==
  ASSUME NEW rows, IsFiniteSet(rows), \A d \in rows : SeqOf(d) \in Nat, NEW n \in Nat,
         NEW d \in rows, Cardinality({e \in rows : SeqOf(e) < SeqOf(d)}) < n,
         NEW f \in rows, SeqOf(f) < SeqOf(d)
  PROVE  Cardinality({e \in rows : SeqOf(e) < SeqOf(f)}) < n
<1> DEFINE Below(x) == {e \in rows : SeqOf(e) < SeqOf(x)}
<1>1. IsFiniteSet(Below(d)) /\ IsFiniteSet(Below(f))
  BY FS_Subset
<1>2. Below(f) \in SUBSET Below(d)
  OBVIOUS
<1> HIDE DEF Below
<1>3. /\ Cardinality(Below(f)) =< Cardinality(Below(d))
      /\ Cardinality(Below(f)) \in Nat /\ Cardinality(Below(d)) \in Nat
  BY <1>1, <1>2, FS_Subset, FS_CardinalityType
<1>4. Cardinality(Below(d)) < n
  BY DEF Below
<1>5. Cardinality(Below(f)) < n
  BY <1>3, <1>4
<1> QED BY <1>5 DEF Below

-----------------------------------------------------------------------------
(* The log.                                                                *)

LEMMA InitLog == ASSUME Init PROVE LogInv
BY FS_EmptySet DEF Init, LogInv, Contiguous, Linked

LEMMA ExtendKeepsLog ==
  ASSUME LogInv, NEW h \in Nat, h > end, Extend(h)
  PROVE  LogInv' /\ end' > end /\ floor' = floor
<1> USE DEF LogInv
<1>0. end \in Nat /\ floor \in Nat /\ floor =< end
  BY DEF Contiguous
<1>1. end' = h /\ floor' = floor /\ anchor' = anchor
  BY DEF Extend
<1>2. PICK run \in [(end + 1)..h -> Digest] :
        /\ \A s \in (end + 1)..h :
             /\ Fields[run[s]].sequence = s
             /\ IF s = end + 1 THEN IsLast(Fields[run[s]].prevDigest)
                               ELSE Fields[run[s]].prevDigest = run[s - 1]
        /\ retained' = retained \cup {run[s] : s \in (end + 1)..h}
  BY DEF Extend
<1> DEFINE new == {run[s] : s \in (end + 1)..h}
<1>3. new \subseteq Digest /\ \A s \in (end + 1)..h : run[s] \in new /\ SeqOf(run[s]) = s
  BY <1>2 DEF SeqOf
<1>4. \A d \in new : SeqOf(d) \in (end + 1)..h /\ d = run[SeqOf(d)]
  BY <1>2 DEF SeqOf
<1>5. IsFiniteSet(new)
  <2>1. IsFiniteSet((end + 1)..h)
    BY <1>0, FS_Interval
  <2>2. run \in Surjection((end + 1)..h, new)
    BY <1>2 DEF Surjection
  <2> QED BY <2>1, <2>2, FS_Surjection
<1> HIDE DEF new
<1>6. retained' = retained \cup new
  BY <1>2 DEF new
<1>7. Contiguous'
  <2>1. IsFiniteSet(retained')
    BY <1>5, <1>6, FS_Union DEF Contiguous
  <2>2. \A s \in (floor + 1)..h : \E d \in retained' : SeqOf(d) = s
    <3> SUFFICES ASSUME NEW s \in (floor + 1)..h PROVE \E d \in retained' : SeqOf(d) = s
      OBVIOUS
    <3>1. CASE s =< end
      BY <1>0, <1>6, <3>1 DEF Contiguous
    <3>2. CASE s > end
      BY <1>0, <1>3, <1>6, <3>2
    <3> QED BY <1>0, <3>1, <3>2
  <2>3. \A d, e \in retained' : SeqOf(d) = SeqOf(e) => d = e
    BY <1>0, <1>4, <1>6 DEF Contiguous
  <2>4. \A d \in retained' : SeqOf(d) \in (floor + 1)..h
    BY <1>0, <1>4, <1>6 DEF Contiguous
  <2> QED BY <1>0, <1>1, <1>3, <1>6, <2>1, <2>2, <2>3, <2>4 DEF Contiguous
<1>8. Linked'
  <2> SUFFICES ASSUME NEW d \in retained'
               PROVE  IF SeqOf(d) = floor + 1
                        THEN Fields[d].prevDigest = anchor
                        ELSE /\ Fields[d].prevDigest \in retained'
                             /\ SeqOf(Fields[d].prevDigest) = SeqOf(d) - 1
    BY <1>1 DEF Linked
  <2>1. CASE d \in retained
    BY <1>6, <2>1 DEF Linked
  <2>2. CASE d \in new
    <3> DEFINE s == SeqOf(d)
    <3>1. s \in (end + 1)..h /\ d = run[s]
      BY <1>4, <2>2
    <3>2. CASE s = end + 1
      <4>1. IsLast(Fields[d].prevDigest)
        BY <1>2, <3>1, <3>2
      <4> QED BY <1>0, <1>6, <3>2, <4>1 DEF IsLast, SeqOf
    <3>3. CASE s # end + 1
      <4>1. s - 1 \in (end + 1)..h /\ s # floor + 1
        BY <1>0, <3>1, <3>3
      <4>2. Fields[d].prevDigest = run[s - 1]
        BY <1>2, <3>1, <3>3
      <4> QED BY <1>3, <1>6, <4>1, <4>2
    <3> QED BY <3>2, <3>3
  <2> QED BY <1>6, <2>1, <2>2
<1> QED BY <1>0, <1>1, <1>7, <1>8

LEMMA TruncateKeepsLog ==
  ASSUME LogInv, NEW c \in (floor + 1)..end, Truncate(c)
  PROVE  LogInv' /\ end' = end /\ floor' > floor
<1> USE DEF LogInv
<1>0. end \in Nat /\ floor \in Nat /\ floor =< end /\ c \in Nat /\ c > floor /\ c =< end
  BY DEF Contiguous
<1>1. /\ end' = end /\ floor' = c /\ anchor' \in retained /\ SeqOf(anchor') = c
      /\ retained' = {d \in retained : SeqOf(d) > c}
  BY DEF Truncate, SeqOf
<1>2. IsFiniteSet(retained')
  BY <1>1, FS_Subset DEF Contiguous
<1>3. Contiguous'
  BY <1>0, <1>1, <1>2 DEF Contiguous
<1>4. Linked'
  BY <1>0, <1>1 DEF Linked, Contiguous
<1> QED BY <1>0, <1>1, <1>3, <1>4

(* Whatever the log does, what a reader holds of it can be verified: one    *)
(* entry for each sequence, linked back to the anchor.                      *)
THEOREM LogAlwaysLinked ==
  ASSUME MaxSequence \in Nat
  PROVE  Spec => []LogInv
<1>1. Init => LogInv
  BY InitLog
<1>2. LogInv /\ [Next]_vars => LogInv'
  <2> SUFFICES ASSUME LogInv, [Next]_vars PROVE LogInv'
    OBVIOUS
  <2>1. ASSUME NEW h \in (end + 1)..MaxSequence, Extend(h) PROVE LogInv'
    <3>1. h \in Nat /\ h > end
      BY DEF LogInv, Contiguous
    <3> QED BY <2>1, <3>1, ExtendKeepsLog
  <2>2. ASSUME NEW c \in (floor + 1)..end, Truncate(c) PROVE LogInv'
    BY <2>2, TruncateKeepsLog
  <2>3. CASE UNCHANGED vars
    BY <2>3 DEF vars, LogInv, Contiguous, Linked
  <2> QED BY <2>1, <2>2, <2>3 DEF Next
<1> QED BY <1>1, <1>2, PTL DEF Spec

=============================================================================
