--------------------------- MODULE ConflictReview ---------------------------
(***************************************************************************)
(* An administrator who looks at a conflict before deciding it.            *)
(* listConflicts and getConflict read the conflict rows and their          *)
(* candidates in two queries without a transaction, and the decision is a  *)
(* third call, while every transaction of DeviceLedger goes on, decisions  *)
(* of other administrators included.                                       *)
(***************************************************************************)
EXTENDS DeviceLedger

CONSTANT ListLimit   \* LIMIT of the conflicts query

VARIABLE review   \* what one administrator was shown

reviewVars == <<vars, review>>

NoReview == [phase |-> "idle", sequence |-> 0, revision |-> 0, staged |-> {}]

ReviewInit == Init /\ review = NoReview

HasConflict(s) == conflicts[s].status # "none"

(* ORDER BY sequence LIMIT: the conflict of s comes among the first of rows. *)
Listed(s, rows) == s \in rows /\ Cardinality({t \in rows : t < s}) < ListLimit

(* The first query: the open conflicts, or all of them.                     *)
ListRows ==
  /\ review.phase = "idle"
  /\ \E s \in Sequence :
       /\ \/ Listed(s, {t \in Sequence : conflicts[t].status = "open"})
          \/ Listed(s, {t \in Sequence : HasConflict(t)})
       /\ review' = [NoReview EXCEPT !.phase = "rows", !.sequence = s,
                                     !.revision = conflicts[s].revision]
  /\ UNCHANGED vars

(* The second query: the events at the listed sequences.                    *)
ListCandidates ==
  /\ review.phase = "rows"
  /\ review' = [review EXCEPT !.phase = "shown", !.staged = Staged(status, review.sequence)]
  /\ UNCHANGED vars

(* adjudicate, with the revision that was listed.                           *)
Decide ==
  /\ review.phase = "shown"
  /\ review' = NoReview
  /\ \/ \E d \in Digest : SeqOf(d) = review.sequence
                            /\ AdjudicateSelect(SeqOf(d), review.revision, d)
     \/ AdjudicateRejectAll(review.sequence, review.revision)

ReviewNext ==
  \/ Next /\ UNCHANGED review
  \/ ListRows
  \/ ListCandidates
  \/ Decide

ReviewSpec == ReviewInit /\ [][ReviewNext]_reviewVars

-----------------------------------------------------------------------------
(* Properties.                                                             *)

(* A decision on an open conflict is made on the candidates that the        *)
(* administrator was shown, although they are read after the revision, in   *)
(* another query, and anything may commit between the two and before the    *)
(* decision (conflicts.mjs:28-73, 95-132).                                  *)
DecisionsAreInformed ==
  [][Decide /\ conflicts[review.sequence].status = "open" =>
       review.staged = Staged(status, review.sequence)]_reviewVars

=============================================================================
