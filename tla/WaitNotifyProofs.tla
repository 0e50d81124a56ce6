--------------------------- MODULE WaitNotifyProofs ---------------------------
(***************************************************************************)
(* The pool is accounted for, no answer skips an event and no wake-up is   *)
(* lost, for any number of waiters, uploads, connections and events.       *)
(***************************************************************************)
EXTENDS WaitNotify, FiniteSetTheorems, SequenceTheorems, TLAPS

Facts == INSTANCE AuditLogProofs

Holders == {c \in Call : pc[c] \in Holding}

(* The rows a waiter has read are what follows its position, without a gap  *)
(* up to each of them.                                                      *)
RowsFollow ==
  \A w \in Waiter : \A d \in events[w] :
    /\ SeqOf(d) \in Nat /\ position[w] < SeqOf(d) /\ SeqOf(d) =< end
    /\ \A s \in (position[w] + 1)..SeqOf(d) :
         s =< floor \/ \E e \in events[w] : SeqOf(e) = s

WaitInv ==
  /\ Facts!LogInv
  /\ TypeOK
  /\ IsFiniteSet(Holders)
  /\ RowsFollow
  /\ NothingSkipped
  /\ WakeupOnTheWay

-----------------------------------------------------------------------------
(* The log.                                                                *)

(* The operators AuditLogProofs takes from FiniteSets are those used here.  *)
LEMMA SameFinite == ASSUME NEW S PROVE Facts!IsFiniteSet(S) <=> IsFiniteSet(S)
BY DEF Facts!IsFiniteSet, IsFiniteSet

LEMMA SameCardinality == ASSUME NEW S PROVE Facts!Cardinality(S) = Cardinality(S)
BY DEF Facts!Cardinality, Cardinality

LEMMA SameSeqOf == ASSUME NEW d PROVE Facts!SeqOf(d) = SeqOf(d)
BY DEF Facts!SeqOf, SeqOf

LEMMA LogNumbers ==
  ASSUME Facts!LogInv
  PROVE  end \in Nat /\ floor \in Nat /\ floor =< end
BY DEF Facts!LogInv, Facts!Contiguous

LEMMA PromoteKeepsLog ==
  ASSUME Facts!LogInv, Promote
  PROVE  Facts!LogInv' /\ end' \in Nat /\ end' > end /\ floor' = floor
<1>1. PICK h \in (end + 1)..MaxSequence : Log!Extend(h)
  BY DEF Promote
<1>2. h \in Nat /\ h > end
  BY <1>1, LogNumbers, WaitAssumption
<1>3. Facts!Extend(h)
  BY <1>1 DEF Log!Extend, Facts!Extend, Log!IsLast, Facts!IsLast
<1>4. Facts!LogInv' /\ end' > end /\ floor' = floor
  BY <1>2, <1>3, Facts!ExtendKeepsLog
<1> QED BY <1>4 DEF Facts!LogInv, Facts!Contiguous

LEMMA CompactKeepsLog ==
  ASSUME Facts!LogInv, Compact
  PROVE  Facts!LogInv' /\ end' = end /\ floor' \in Nat /\ floor' > floor
<1>1. PICK c \in (floor + 1)..end : Log!Truncate(c)
  BY DEF Compact
<1>2. Facts!Truncate(c)
  BY <1>1 DEF Log!Truncate, Facts!Truncate
<1>3. Facts!LogInv' /\ end' = end /\ floor' > floor
  BY <1>1, <1>2, Facts!TruncateKeepsLog
<1> QED BY <1>3 DEF Facts!LogInv, Facts!Contiguous

LEMMA StutterKeepsLog ==
  ASSUME Facts!LogInv, UNCHANGED log
  PROVE  Facts!LogInv' /\ end' = end /\ floor' = floor
BY DEF log, Facts!LogInv, Facts!Contiguous, Facts!Linked, Facts!SeqOf

(* Whatever a step does, the log stays one, and its ends only move forward. *)
LEMMA LogMoves ==
  ASSUME Facts!LogInv, [Next]_vars
  PROVE  Facts!LogInv' /\ end' \in Nat /\ floor' \in Nat /\ end' >= end /\ floor' >= floor
<1>1. CASE UNCHANGED log
  BY <1>1, StutterKeepsLog, LogNumbers
<1>2. CASE Promote
  BY <1>2, PromoteKeepsLog, LogNumbers
<1>3. CASE Compact
  BY <1>3, CompactKeepsLog, LogNumbers
<1>4. UNCHANGED log \/ Promote \/ Compact
  BY DEF Next, vars, Connect, ConnectTimeout, Ask, Statement, Deliver, Timeout, Disconnect, Upload,
         Register, PromoteElsewhere, PromoteOther, Listen, SelectWatermark, ReadBatch, Block, Release
<1> QED BY <1>1, <1>2, <1>3, <1>4
-----------------------------------------------------------------------------
(* The pool.                                                               *)

(* What the places of the calls say of the pool and of the listeners.       *)
PoolOK ==
  /\ pc \in [Call -> {"queued", "answered"} \cup Holding]
  /\ IsFiniteSet(Holders)
  /\ idle \in 0..PoolSize
  /\ idle = PoolSize - Cardinality(Holders)

LEMMA HoldersStay ==
  ASSUME PoolOK, NEW c \in Call, NEW to \in {"queued", "answered"} \cup Holding, Go(c, to),
         pc[c] \in Holding <=> to \in Holding, idle' = idle
  PROVE  PoolOK'
<1>1. pc' \in [Call -> {"queued", "answered"} \cup Holding]
  BY DEF PoolOK, Go
<1>2. Holders' = Holders
  BY DEF PoolOK, Go, Holders
<1> QED BY <1>1, <1>2 DEF PoolOK

LEMMA HolderJoins ==
  ASSUME PoolOK, NEW c \in Call, NEW to \in Holding, Go(c, to), pc[c] \notin Holding,
         idle > 0, idle' = idle - 1
  PROVE  PoolOK'
<1>1. pc' \in [Call -> {"queued", "answered"} \cup Holding]
  BY DEF PoolOK, Go
<1>2. Holders' = Holders \cup {c} /\ c \notin Holders
  BY DEF PoolOK, Go, Holders
<1>3. IsFiniteSet(Holders') /\ Cardinality(Holders') = Cardinality(Holders) + 1
  BY <1>2, FS_AddElement DEF PoolOK
<1>4. Cardinality(Holders) \in Nat
  BY FS_CardinalityType DEF PoolOK
<1> QED BY <1>1, <1>3, <1>4, WaitAssumption DEF PoolOK

LEMMA HolderLeaves ==
  ASSUME PoolOK, NEW c \in Call, Go(c, "answered"), pc[c] \in Holding, idle' = idle + 1
  PROVE  PoolOK'
<1>1. pc' \in [Call -> {"queued", "answered"} \cup Holding]
  BY DEF PoolOK, Go
<1>2. Holders' = Holders \ {c} /\ c \in Holders
  BY DEF PoolOK, Go, Holders, Holding
<1>3. IsFiniteSet(Holders') /\ Cardinality(Holders') = Cardinality(Holders) - 1
  BY <1>2, FS_RemoveElement DEF PoolOK
<1>4. Cardinality(Holders) \in Nat /\ Cardinality(Holders') \in Nat
  BY <1>3, FS_CardinalityType DEF PoolOK
<1> QED BY <1>1, <1>3, <1>4, WaitAssumption DEF PoolOK

LEMMA PoolOKMoves ==
  ASSUME PoolOK, [Next]_vars
  PROVE  PoolOK'
<1> USE DEF Holding
<1>1. ASSUME NEW c \in Call, Connect(c) PROVE PoolOK'
  BY <1>1, HolderJoins DEF Connect
<1>2. ASSUME NEW c \in Call, ConnectTimeout(c) \/ Ask(c) PROVE PoolOK'
  BY <1>2, HoldersStay DEF ConnectTimeout, Ask
<1>3. ASSUME NEW w \in Waiter, Release(w) PROVE PoolOK'
  BY <1>3, HolderLeaves DEF Release, Freed, Call
<1>4. ASSUME NEW u \in Uploader, Upload(u) PROVE PoolOK'
  BY <1>4, HolderLeaves DEF Upload, Call
<1>5. ASSUME NEW w \in Waiter, Listen(w) \/ Block(w) \/ Timeout(w) PROVE PoolOK'
  BY <1>5, HoldersStay DEF Listen, Block, Timeout, Call
<1>6. ASSUME NEW w \in Waiter, SelectWatermark(w) PROVE PoolOK'
  BY <1>6, HoldersStay DEF SelectWatermark, Miss, Call
<1>7. ASSUME NEW w \in Waiter, ReadBatch(w) PROVE PoolOK'
  BY <1>7, HoldersStay DEF ReadBatch, Miss, Call
<1>8. CASE UNCHANGED <<pc, idle>>
  BY <1>8 DEF PoolOK, Holders
<1>9. ASSUME NEW w \in Waiter, Deliver(w) \/ Disconnect(w) PROVE PoolOK'
  <2>1. CASE UNCHANGED pc
    BY <1>8, <1>9, <2>1 DEF Deliver, Disconnect
  <2>2. CASE pc[w] = "blocked" /\ Go(w, "select2")
    BY <1>9, <2>2, HoldersStay DEF Deliver, Disconnect, Call
  <2> QED BY <1>9, <2>1, <2>2 DEF Deliver, Disconnect, Wakes
<1>10. CASE Register \/ PromoteElsewhere \/ PromoteOther \/ Compact \/ UNCHANGED vars
  BY <1>8, <1>10 DEF Register, PromoteElsewhere, PromoteOther, Compact, vars
<1> QED BY <1>1, <1>2, <1>3, <1>4, <1>5, <1>6, <1>7, <1>9, <1>10 DEF Next, Statement
-----------------------------------------------------------------------------
(* The two operators a wait is made of.                                    *)

(* What a query reads follows the position without a gap up to each row.    *)
LEMMA BatchFollows ==
  ASSUME Facts!LogInv, NEW after \in Nat
  PROVE  /\ Batch(after) \subseteq Digest
         /\ \A d \in Batch(after) :
              /\ SeqOf(d) \in Nat /\ after < SeqOf(d) /\ SeqOf(d) =< end
              /\ \A s \in (after + 1)..SeqOf(d) :
                   s =< floor \/ \E e \in Batch(after) : SeqOf(e) = s
<1> DEFINE rows == {d \in retained : SeqOf(d) > after}
           Below(d) == {e \in rows : SeqOf(e) < SeqOf(d)}
<1>1. /\ end \in Nat /\ floor \in Nat /\ retained \subseteq Digest /\ IsFiniteSet(retained)
      /\ \A d \in retained : SeqOf(d) \in (floor + 1)..end
      /\ \A s \in (floor + 1)..end : \E d \in retained : SeqOf(d) = s
      /\ \A d, e \in retained : SeqOf(d) = SeqOf(e) => d = e
  BY SameFinite, SameSeqOf DEF Facts!LogInv, Facts!Contiguous
<1>2. Batch(after) = {d \in rows : Cardinality(Below(d)) < PageSize}
  BY DEF Batch
<1>3. IsFiniteSet(rows) /\ \A d \in rows : SeqOf(d) \in Nat
  BY <1>1, FS_Subset
<1>4. ASSUME NEW d \in Batch(after), NEW s \in (after + 1)..SeqOf(d), ~ (s =< floor)
      PROVE  \E e \in Batch(after) : SeqOf(e) = s
  <2>1. d \in rows /\ SeqOf(d) \in (floor + 1)..end /\ Cardinality(Below(d)) < PageSize
    BY <1>1, <1>2
  <2>2. s \in (floor + 1)..end /\ s > after /\ s =< SeqOf(d)
    BY <1>1, <1>4, <2>1
  <2>3. PICK e \in rows : SeqOf(e) = s
    BY <1>1, <2>2
  <2>4. CASE SeqOf(e) = SeqOf(d)
    BY <2>3, <2>4
  <2>5. CASE SeqOf(e) < SeqOf(d)
    <3>1. PageSize \in Nat
      BY WaitAssumption
    <3>2. Facts!IsFiniteSet(rows) /\ \A x \in rows : Facts!SeqOf(x) \in Nat
      BY <1>3, SameFinite, SameSeqOf
    <3>3. Facts!Cardinality({x \in rows : Facts!SeqOf(x) < Facts!SeqOf(d)}) < PageSize
      BY <2>1, SameCardinality, SameSeqOf
    <3>4. d \in rows /\ e \in rows /\ Facts!SeqOf(e) < Facts!SeqOf(d)
      BY <2>1, <2>3, <2>5, SameSeqOf
    <3>5. Facts!Cardinality({x \in rows : Facts!SeqOf(x) < Facts!SeqOf(e)}) < PageSize
      <4> HIDE DEF rows
      <4> QED BY <3>1, <3>2, <3>3, <3>4, Facts!FirstRows
    <3>6. Cardinality(Below(e)) < PageSize
      BY <3>5, SameCardinality, SameSeqOf
    <3> QED BY <1>2, <2>3, <3>6
  <2> QED BY <1>1, <2>1, <2>2, <2>3, <2>4, <2>5
<1>5. ASSUME NEW d \in Batch(after)
      PROVE  d \in Digest /\ SeqOf(d) \in Nat /\ after < SeqOf(d) /\ SeqOf(d) =< end
  BY <1>1, <1>2
<1> QED BY <1>4, <1>5

(* The position a client goes on from is the last row it was given.         *)
LEMMA LastRow ==
  ASSUME NEW T \in SUBSET Nat, NEW p \in Nat, NEW b \in Nat, p =< b, \A x \in T : x =< b
  PROVE  /\ Max({p} \cup T) \in {p} \cup T
         /\ Max({p} \cup T) \in Nat
         /\ Max({p} \cup T) =< b
         /\ \A x \in {p} \cup T : x =< Max({p} \cup T)
<1> DEFINE U == {p} \cup T
<1>1. U \in SUBSET Nat /\ U # {} /\ \A x \in U : x =< b
  OBVIOUS
<1>2. p =< b
  OBVIOUS
<1> HIDE DEF U
<1>3. PICK m \in U : \A x \in U : x =< m
  BY <1>1, Facts!BoundedHasLargest
<1>4. Max(U) \in U /\ \A x \in U : Max(U) >= x
  BY <1>3, <1>1 DEF Max
<1>5. Max(U) \in U /\ Max(U) \in Nat /\ Max(U) =< b /\ \A x \in U : x =< Max(U)
  BY <1>1, <1>4
<1> QED BY <1>5 DEF U
-----------------------------------------------------------------------------
(* The values.                                                             *)

Shapes ==
  /\ registered \in BOOLEAN
  /\ inbox \in [Waiter -> Seq({"this", "other"})]
  /\ aborted \in [Waiter -> BOOLEAN]
  /\ hwm \in [Waiter -> Nat] /\ armedAt \in [Waiter -> Nat] /\ position \in [Waiter -> Nat]
  /\ events \in [Waiter -> SUBSET Digest] /\ received \in [Waiter -> SUBSET Nat]

Listeners ==
  /\ listening = {w \in Waiter : pc[w] \in Holding \ {"connected"}}
  /\ \A w \in Waiter : inbox[w] # <<>> => w \in listening
  /\ \A w \in Waiter : position[w] =< end

LEMMA TypeParts == TypeOK /\ IsFiniteSet(Holders) <=> PoolOK /\ Shapes /\ Listeners
BY DEF TypeOK, PoolOK, Shapes, Listeners, Holders

LEMMA NotifiedShapes ==
  ASSUME Shapes, NEW device \in {"this", "other"}
  PROVE  /\ Notified(device) \in [Waiter -> Seq({"this", "other"})]
         /\ \A w \in Waiter : w \notin listening => Notified(device)[w] = inbox[w]
BY DEF Shapes, Notified

(* The rows a waiter holds when it answers, and where it goes on from.      *)
LEMMA Released ==
  ASSUME Shapes, RowsFollow, Facts!LogInv, NEW w \in Waiter, position[w] =< end
  PROVE  LET T == {SeqOf(d) : d \in events[w]}
             m == Max({position[w]} \cup T)
         IN  /\ T \in SUBSET Nat
             /\ m \in Nat /\ m =< end /\ m >= position[w]
             /\ m \in {position[w]} \cup T
<1> DEFINE T == {SeqOf(d) : d \in events[w]}
<1>1. position[w] \in Nat /\ end \in Nat
  BY LogNumbers DEF Shapes
<1>2. T \in SUBSET Nat /\ \A x \in T : x =< end
  BY DEF RowsFollow
<1> HIDE DEF T
<1>3. /\ Max({position[w]} \cup T) \in {position[w]} \cup T
      /\ Max({position[w]} \cup T) \in Nat
      /\ Max({position[w]} \cup T) =< end
      /\ \A x \in {position[w]} \cup T : x =< Max({position[w]} \cup T)
  BY <1>1, <1>2, LastRow
<1> QED BY <1>1, <1>2, <1>3 DEF T

LEMMA ShapesMove ==
  ASSUME Shapes, Listeners, RowsFollow, Facts!LogInv, [Next]_vars
  PROVE  Shapes'
<1>0. end \in Nat
  BY LogNumbers
<1>1. CASE UNCHANGED <<registered, inbox, aborted, wait, client>>
  BY <1>1 DEF Shapes, wait, client
<1>2. ASSUME NEW w \in Waiter, Release(w) PROVE Shapes'
  <2>1. inbox' \in [Waiter -> Seq({"this", "other"})]
    BY <1>2 DEF Release, Shapes
  <2>2. /\ hwm' \in [Waiter -> Nat] /\ armedAt' \in [Waiter -> Nat]
        /\ events' \in [Waiter -> SUBSET Digest]
        /\ registered' \in BOOLEAN /\ aborted' \in [Waiter -> BOOLEAN]
    BY <1>2 DEF Release, Shapes
  <2>3. position' \in [Waiter -> Nat]
    BY <1>2, Released DEF Release, Shapes, Listeners, client
  <2>4. received' \in [Waiter -> SUBSET Nat]
    BY <1>2, Released DEF Release, Shapes, Listeners, client
  <2> QED BY <2>1, <2>2, <2>3, <2>4 DEF Shapes
<1>3. ASSUME NEW w \in Waiter, SelectWatermark(w) PROVE Shapes'
  BY <1>0, <1>3 DEF SelectWatermark, Shapes, client
<1>4. ASSUME NEW w \in Waiter, ReadBatch(w) PROVE Shapes'
  <2>1. Batch(position[w]) \subseteq Digest
    BY BatchFollows DEF Shapes
  <2> QED BY <1>4, <2>1 DEF ReadBatch, Shapes, client
<1>5. ASSUME NEW w \in Waiter, Block(w) PROVE Shapes'
  BY <1>0, <1>5 DEF Block, Shapes, client
<1>6. ASSUME NEW w \in Waiter, Deliver(w) PROVE Shapes'
  <2>1. inbox[w] \in Seq({"this", "other"}) /\ inbox[w] # <<>>
    BY <1>6 DEF Deliver, Shapes
  <2>2. Tail(inbox[w]) \in Seq({"this", "other"})
    BY <2>1, HeadTailProperties
  <2> QED BY <1>6, <2>2 DEF Deliver, Shapes, client, wait
<1>7. ASSUME NEW w \in Waiter, Disconnect(w) PROVE Shapes'
  BY <1>7 DEF Disconnect, Shapes, client, wait
<1>8. ASSUME NEW c \in Call, Ask(c) PROVE Shapes'
  BY <1>8 DEF Ask, Shapes, client, wait
<1>9. CASE Register
  BY <1>9 DEF Register, Shapes, client, wait
<1>10. ASSUME inbox' = Notified("this") \/ inbox' = Notified("other"),
              UNCHANGED <<registered, aborted, wait, client>> PROVE Shapes'
  BY <1>10, NotifiedShapes DEF Shapes, client, wait
<1>11. ASSUME NEW u \in Uploader, Upload(u) PROVE Shapes'
  BY <1>1, <1>10, <1>11 DEF Upload, Promote
<1>12. ASSUME NEW w \in Waiter, Listen(w) \/ Timeout(w) PROVE Shapes'
  BY <1>1, <1>12 DEF Listen, Timeout
<1>13. ASSUME NEW c \in Call, Connect(c) \/ ConnectTimeout(c) PROVE Shapes'
  BY <1>1, <1>13 DEF Connect, ConnectTimeout
<1>14. CASE PromoteElsewhere \/ PromoteOther
  BY <1>10, <1>14 DEF PromoteElsewhere, PromoteOther, Promote
<1>15. CASE Compact \/ UNCHANGED vars
  BY <1>1, <1>15 DEF Compact, vars
<1> QED BY <1>2, <1>3, <1>4, <1>5, <1>6, <1>7, <1>8, <1>9, <1>11, <1>12, <1>13, <1>14, <1>15
        DEF Next, Statement
-----------------------------------------------------------------------------
(* The listeners.                                                          *)

LEMMA ListenersMove ==
  ASSUME Shapes, PoolOK, Listeners, RowsFollow, Facts!LogInv, [Next]_vars
  PROVE  Listeners'
<1> USE DEF Holding
<1>0. /\ end \in Nat /\ end' \in Nat /\ end' >= end
      /\ \A w \in Waiter : position[w] \in Nat
  BY LogNumbers, LogMoves DEF Shapes
(* A call that starts or stops listening, or none.                          *)
<1>1. ASSUME NEW c \in Call, NEW to, Go(c, to), UNCHANGED <<listening, position>>,
             \A w \in Waiter : inbox'[w] # <<>> => inbox[w] # <<>>,
             c \in Waiter => (pc[c] \in Holding \ {"connected"} <=> to \in Holding \ {"connected"})
      PROVE  Listeners'
  BY <1>0, <1>1 DEF Listeners, Go, PoolOK
<1>2. ASSUME UNCHANGED <<pc, listening, position>>,
             \A w \in Waiter : inbox'[w] # <<>> => inbox[w] # <<>> \/ w \in listening
      PROVE  Listeners'
  BY <1>0, <1>2 DEF Listeners
<1>3. ASSUME NEW w \in Waiter, Release(w) PROVE Listeners'
  <2>1. listening' = {x \in Waiter : pc'[x] \in Holding \ {"connected"}}
    BY <1>3 DEF Release, Go, PoolOK, Listeners, Call
  <2>2. \A x \in Waiter : inbox'[x] # <<>> => x \in listening'
    BY <1>3 DEF Release, Listeners, Shapes
  <2>3. \A x \in Waiter : position'[x] =< end
    BY <1>3, Released DEF Release, Listeners, Shapes, client
  <2> QED BY <1>0, <1>3, <2>1, <2>2, <2>3 DEF Listeners, Release, log, Shapes
<1>4. ASSUME NEW w \in Waiter, Listen(w) PROVE Listeners'
  BY <1>0, <1>4 DEF Listen, Go, PoolOK, Listeners, Call, client
<1>5. ASSUME NEW w \in Waiter, SelectWatermark(w) PROVE Listeners'
  BY <1>1, <1>5 DEF SelectWatermark, Miss, Call, client
<1>6. ASSUME NEW w \in Waiter, ReadBatch(w) PROVE Listeners'
  BY <1>1, <1>6 DEF ReadBatch, Miss, Call, client
<1>7. ASSUME NEW w \in Waiter, Block(w) \/ Timeout(w) PROVE Listeners'
  BY <1>1, <1>7 DEF Block, Timeout, Call, client
<1>8. ASSUME NEW w \in Waiter, Deliver(w) \/ Disconnect(w) PROVE Listeners'
  <2>1. UNCHANGED <<listening, position>> /\ \A x \in Waiter : inbox'[x] # <<>> => inbox[x] # <<>>
    BY <1>8 DEF Deliver, Disconnect, client, Shapes
  <2>2. CASE UNCHANGED pc
    BY <1>2, <2>1, <2>2
  <2>3. CASE pc[w] = "blocked" /\ Go(w, "select2")
    BY <1>1, <2>1, <2>3 DEF Call
  <2> QED BY <1>8, <2>2, <2>3 DEF Deliver, Disconnect, Wakes
<1>9. ASSUME NEW c \in Call, Connect(c) \/ ConnectTimeout(c) \/ Ask(c) PROVE Listeners'
  BY <1>1, <1>9 DEF Connect, ConnectTimeout, Ask, client
<1>10. ASSUME NEW u \in Uploader, Upload(u) PROVE Listeners'
  <2>1. u \in Call /\ u \notin Waiter
    BY WaitAssumption DEF Call
  <2>2. \A x \in Waiter : pc'[x] = pc[x]
    BY <1>10, <2>1 DEF Upload, Go, PoolOK
  <2>3. \A x \in Waiter : inbox'[x] # <<>> => inbox[x] # <<>> \/ x \in listening
    BY <1>10, NotifiedShapes DEF Upload, Promote
  <2> QED BY <1>0, <1>10, <2>2, <2>3 DEF Listeners, Upload, client
<1>11. CASE PromoteElsewhere \/ PromoteOther
  BY <1>2, <1>11, NotifiedShapes DEF PromoteElsewhere, PromoteOther, Promote, client
<1>12. CASE Register \/ Compact \/ UNCHANGED vars
  BY <1>2, <1>12 DEF Register, Compact, vars, client
<1> QED BY <1>3, <1>4, <1>5, <1>6, <1>7, <1>8, <1>9, <1>10, <1>11, <1>12 DEF Next, Statement

-----------------------------------------------------------------------------
(* The answers.                                                            *)

LEMMA RowsMove ==
  ASSUME Shapes, Listeners, RowsFollow, NothingSkipped, Facts!LogInv, [Next]_vars
  PROVE  RowsFollow' /\ NothingSkipped'
<1>0. /\ end \in Nat /\ end' \in Nat /\ end' >= end
      /\ floor \in Nat /\ floor' \in Nat /\ floor' >= floor
      /\ \A w \in Waiter : position[w] \in Nat
  BY LogNumbers, LogMoves DEF Shapes
<1>1. CASE UNCHANGED <<events, client>>
  <2>1. UNCHANGED <<events, position, received>>
    BY <1>1 DEF client
  <2>2. RowsFollow'
    BY <1>0, <2>1 DEF RowsFollow
  <2>3. NothingSkipped'
    BY <1>0, <2>1 DEF NothingSkipped
  <2> QED BY <2>2, <2>3
<1>2. ASSUME NEW w \in Waiter, ReadBatch(w) PROVE RowsFollow' /\ NothingSkipped'
  <2>1. /\ events' = [events EXCEPT ![w] = Batch(position[w])]
        /\ UNCHANGED <<position, received, end, floor>>
    BY <1>2 DEF ReadBatch, client, log
  <2>2. \A d \in Batch(position[w]) :
          /\ SeqOf(d) \in Nat /\ position[w] < SeqOf(d) /\ SeqOf(d) =< end
          /\ \A s \in (position[w] + 1)..SeqOf(d) :
               s =< floor \/ \E e \in Batch(position[w]) : SeqOf(e) = s
    BY <1>0, BatchFollows
  <2>3. events'[w] = Batch(position[w]) /\ \A x \in Waiter \ {w} : events'[x] = events[x]
    BY <2>1 DEF Shapes
  <2>4. RowsFollow'
    BY <2>1, <2>2, <2>3 DEF RowsFollow
  <2>5. NothingSkipped'
    BY <1>0, <2>1 DEF NothingSkipped
  <2> QED BY <2>4, <2>5
<1>3. ASSUME NEW w \in Waiter, Release(w) PROVE RowsFollow' /\ NothingSkipped'
  <2> DEFINE T == {SeqOf(d) : d \in events[w]}
             m == Max({position[w]} \cup T)
  <2>1. /\ events'[w] = {} /\ \A x \in Waiter \ {w} : events'[x] = events[x]
        /\ \A x \in Waiter \ {w} : position'[x] = position[x] /\ received'[x] = received[x]
        /\ UNCHANGED <<end, floor>>
        /\ \/ position'[w] = position[w] /\ received'[w] = received[w]
           \/ position'[w] = m /\ received'[w] = received[w] \cup T
    BY <1>3 DEF Release, Shapes, client, log
  <2>2. T \in SUBSET Nat /\ m \in Nat /\ m >= position[w] /\ m \in {position[w]} \cup T
    BY Released DEF Listeners
  <2>3. \A s \in (position[w] + 1)..m : s \in T \/ s =< floor
    <3>1. CASE m = position[w]
      BY <1>0, <3>1
    <3>2. CASE m # position[w]
      <4>1. PICK d \in events[w] : m = SeqOf(d)
        BY <2>2, <3>2
      <4> QED BY <4>1 DEF RowsFollow
    <3> QED BY <3>1, <3>2
  <2> HIDE DEF m, T
  <2>4. RowsFollow'
    BY <2>1 DEF RowsFollow
  <2>5. ASSUME NEW s \in 1..position'[w] PROVE s \in received'[w] \/ s =< floor
    <3>1. CASE s =< position[w]
      BY <1>0, <2>1, <2>5, <3>1, <2>2 DEF NothingSkipped
    <3>2. CASE s > position[w]
      BY <1>0, <2>1, <2>2, <2>3, <2>5, <3>2
    <3> QED BY <1>0, <2>1, <2>2, <2>5, <3>1, <3>2
  <2>6. NothingSkipped'
    BY <2>1, <2>5 DEF NothingSkipped
  <2> QED BY <2>4, <2>6
<1>4. UNCHANGED <<events, client>> \/ \E w \in Waiter : ReadBatch(w) \/ Release(w)
  BY DEF Next, vars, Connect, ConnectTimeout, Ask, Statement, Deliver, Timeout, Disconnect, Upload,
         Register, PromoteElsewhere, PromoteOther, Compact, Listen, SelectWatermark, Block, wait
<1> QED BY <1>1, <1>2, <1>3, <1>4
-----------------------------------------------------------------------------
(* The wake-ups.                                                           *)

OnTheWay(w) == \E i \in DOMAIN inbox[w] : inbox[w][i] = "this"

LEMMA NotifiedAdds ==
  ASSUME Shapes, NEW device \in {"this", "other"}, NEW w \in Waiter, inbox' = Notified(device)
  PROVE  /\ OnTheWay(w) => OnTheWay(w)'
         /\ device = "this" /\ w \in listening => OnTheWay(w)'
<1>1. CASE w \notin listening
  BY <1>1 DEF Notified, OnTheWay
<1>2. CASE w \in listening
  <2>1. inbox[w] \in Seq({"this", "other"}) /\ inbox'[w] = Append(inbox[w], device)
    BY <1>2 DEF Shapes, Notified
  <2>2. /\ Len(inbox'[w]) = Len(inbox[w]) + 1 /\ Len(inbox[w]) \in Nat
        /\ DOMAIN inbox[w] = 1..Len(inbox[w]) /\ DOMAIN inbox'[w] = 1..Len(inbox'[w])
        /\ \A i \in 1..Len(inbox[w]) : inbox'[w][i] = inbox[w][i]
        /\ inbox'[w][Len(inbox[w]) + 1] = device
    BY <2>1
  <2> QED BY <2>2 DEF OnTheWay
<1> QED BY <1>1, <1>2

LEMMA WakeupsMove ==
  ASSUME Shapes, PoolOK, Listeners, WakeupOnTheWay, Facts!LogInv, [Next]_vars
  PROVE  WakeupOnTheWay'
<1>0. end \in Nat /\ armedAt \in [Waiter -> Nat]
  BY LogNumbers DEF Shapes
(* A step that neither blocks a waiter nor advances the device.             *)
<1>1. ASSUME end' = end, armedAt' = armedAt, \A w \in Waiter : pc'[w] = "blocked" => pc[w] = "blocked",
             \A w \in Waiter : pc'[w] = "blocked" /\ OnTheWay(w) => OnTheWay(w)'
      PROVE  WakeupOnTheWay'
  BY <1>1 DEF WakeupOnTheWay, OnTheWay
<1>2. ASSUME NEW c \in Call, NEW to, Go(c, to), to # "blocked", UNCHANGED <<end, armedAt, inbox>>
      PROVE  WakeupOnTheWay'
  BY <1>1, <1>2 DEF Go, PoolOK, OnTheWay, Call
<1>3. ASSUME Promote, armedAt' = armedAt, \A w \in Waiter : pc'[w] = "blocked" => pc[w] = "blocked"
      PROVE  WakeupOnTheWay'
  <2>1. ASSUME NEW w \in Waiter, pc'[w] = "blocked" PROVE OnTheWay(w)'
    <3>1. w \in listening
      BY <1>3, <2>1 DEF Listeners, Holding
    <3> QED BY <1>3, <3>1, NotifiedAdds DEF Promote
  <2> QED BY <2>1 DEF WakeupOnTheWay, OnTheWay
<1>4. ASSUME NEW w \in Waiter, Block(w) PROVE WakeupOnTheWay'
  BY <1>0, <1>4 DEF Block, Go, PoolOK, WakeupOnTheWay, log, Call
<1>5. ASSUME NEW w \in Waiter, Deliver(w) PROVE WakeupOnTheWay'
  <2>1. inbox[w] \in Seq({"this", "other"}) /\ inbox[w] # <<>> /\ inbox' = [inbox EXCEPT ![w] = Tail(@)]
    BY <1>5 DEF Deliver, Shapes
  <2>2. inbox'[w] = Tail(inbox[w]) /\ \A x \in Waiter \ {w} : inbox'[x] = inbox[x]
    BY <2>1 DEF Shapes
  <2>3. UNCHANGED <<end, armedAt>>
    BY <1>5 DEF Deliver, log, wait
  <2>4. \A x \in Waiter : pc'[x] = "blocked" => pc[x] = "blocked"
    BY <1>5 DEF Deliver, Go, PoolOK, Call
  <2>5. ASSUME pc'[w] = "blocked", OnTheWay(w) PROVE OnTheWay(w)'
    <3>1. Head(inbox[w]) # "this"
      BY <1>5, <2>4, <2>5 DEF Deliver, Wakes, Go, PoolOK, Call
    <3>2. PICK i \in DOMAIN inbox[w] : inbox[w][i] = "this"
      BY <2>5 DEF OnTheWay
    <3>3. /\ Len(inbox[w]) \in Nat /\ DOMAIN inbox[w] = 1..Len(inbox[w])
          /\ Head(inbox[w]) = inbox[w][1]
      BY <2>1
    <3>4. /\ Tail(inbox[w]) \in Seq({"this", "other"}) /\ Len(Tail(inbox[w])) = Len(inbox[w]) - 1
          /\ \A j \in 1..Len(Tail(inbox[w])) : Tail(inbox[w])[j] = inbox[w][j + 1]
      BY <2>1, HeadTailProperties
    <3>5. i - 1 \in 1..Len(Tail(inbox[w]))
      BY <3>1, <3>2, <3>3, <3>4
    <3>6. Tail(inbox[w])[i - 1] = "this" /\ i - 1 \in DOMAIN Tail(inbox[w])
      BY <3>2, <3>3, <3>4, <3>5
    <3> QED BY <2>2, <3>6 DEF OnTheWay
  <2>6. ASSUME NEW x \in Waiter, pc'[x] = "blocked", OnTheWay(x) PROVE OnTheWay(x)'
    <3>1. CASE x = w
      BY <2>5, <2>6, <3>1
    <3>2. CASE x # w
      BY <2>2, <2>6, <3>2 DEF OnTheWay
    <3> QED BY <3>1, <3>2
  <2> QED BY <1>1, <2>3, <2>4, <2>6
<1>6. ASSUME NEW w \in Waiter, Disconnect(w) PROVE WakeupOnTheWay'
  <2>1. CASE UNCHANGED pc
    BY <1>1, <1>6, <2>1 DEF Disconnect, OnTheWay, log, wait
  <2>2. CASE Go(w, "select2")
    BY <1>2, <1>6, <2>2 DEF Disconnect, Call, log, wait
  <2> QED BY <1>6, <2>1, <2>2 DEF Disconnect
<1>7. ASSUME NEW w \in Waiter, Release(w) PROVE WakeupOnTheWay'
  <2>1. ASSUME NEW x \in Waiter, pc'[x] = "blocked"
        PROVE  /\ pc[x] = "blocked" /\ end' = end /\ armedAt'[x] = armedAt[x]
               /\ inbox'[x] = inbox[x]
    BY <1>7, <2>1 DEF Release, Go, PoolOK, Shapes, log, Call
  <2> QED BY <2>1 DEF WakeupOnTheWay
<1>8. ASSUME NEW w \in Waiter, Listen(w) \/ Timeout(w) PROVE WakeupOnTheWay'
  BY <1>2, <1>8 DEF Listen, Timeout, log, wait, Call
<1>9. ASSUME NEW w \in Waiter, SelectWatermark(w) PROVE WakeupOnTheWay'
  BY <1>2, <1>9 DEF SelectWatermark, Miss, log, Call
<1>10. ASSUME NEW w \in Waiter, ReadBatch(w) PROVE WakeupOnTheWay'
  BY <1>2, <1>10 DEF ReadBatch, Miss, log, Call
<1>11. ASSUME NEW c \in Call, Connect(c) \/ ConnectTimeout(c) \/ Ask(c) PROVE WakeupOnTheWay'
  BY <1>2, <1>11 DEF Connect, ConnectTimeout, Ask, log, wait
<1>12. ASSUME NEW u \in Uploader, Upload(u) PROVE WakeupOnTheWay'
  <2>1. armedAt' = armedAt /\ \A w \in Waiter : pc'[w] = "blocked" => pc[w] = "blocked"
    BY <1>12 DEF Upload, Go, PoolOK, wait, Call
  <2>2. CASE Promote
    BY <1>3, <2>1, <2>2
  <2>3. CASE UNCHANGED <<log, inbox>>
    BY <1>1, <2>1, <2>3 DEF log, OnTheWay
  <2> QED BY <1>12, <2>2, <2>3 DEF Upload
<1>13. CASE PromoteElsewhere
  BY <1>3, <1>13 DEF PromoteElsewhere, wait
<1>14. CASE PromoteOther
  BY <1>1, <1>14, NotifiedAdds DEF PromoteOther, log, wait
<1>15. CASE Register \/ UNCHANGED vars
  BY <1>1, <1>15 DEF Register, vars, log, wait, OnTheWay
<1>16. CASE Compact
  <2>1. end' = end
    BY <1>16, CompactKeepsLog
  <2> QED BY <1>1, <1>16, <2>1 DEF Compact, wait, OnTheWay
<1> QED BY <1>4, <1>5, <1>6, <1>7, <1>8, <1>9, <1>10, <1>11, <1>12, <1>13, <1>14, <1>15, <1>16
        DEF Next, Statement

-----------------------------------------------------------------------------
(* The theorems.                                                           *)

LEMMA WaitInit == Init => WaitInv
<1> SUFFICES ASSUME Init PROVE WaitInv
  OBVIOUS
<1> USE DEF Init
<1>1. Facts!LogInv
  <2>1. Facts!Init
    BY DEF Log!Init, Facts!Init
  <2> QED BY <2>1, Facts!InitLog
<1>2. Holders = {}
  BY DEF Holders, Holding
<1>3. PoolOK
  BY <1>2, FS_EmptySet, WaitAssumption DEF PoolOK, Holding
<1>4. Shapes
  <2>1. <<>> \in Seq({"this", "other"})
    OBVIOUS
  <2>2. inbox \in [Waiter -> Seq({"this", "other"})]
    BY <2>1
  <2> QED BY <2>2 DEF Shapes
<1>5. Listeners
  BY DEF Listeners, Holding, Call, Log!Init
<1>6. RowsFollow /\ NothingSkipped
  BY DEF RowsFollow, NothingSkipped
<1>7. WakeupOnTheWay
  BY DEF WakeupOnTheWay, Call
<1> QED BY <1>1, <1>3, <1>4, <1>5, <1>6, <1>7, TypeParts DEF WaitInv

LEMMA WaitNext == WaitInv /\ [Next]_vars => WaitInv'
<1> SUFFICES ASSUME WaitInv, [Next]_vars PROVE WaitInv'
  OBVIOUS
<1>1. PoolOK /\ Shapes /\ Listeners
  BY TypeParts DEF WaitInv
<1>2. Facts!LogInv'
  BY LogMoves DEF WaitInv
<1>3. PoolOK' /\ Shapes' /\ Listeners'
  BY <1>1, PoolOKMoves, ShapesMove, ListenersMove DEF WaitInv
<1>4. TypeOK' /\ IsFiniteSet(Holders')
  BY <1>3 DEF TypeOK, PoolOK, Shapes, Listeners, Holders
<1>5. RowsFollow' /\ NothingSkipped'
  BY <1>1, RowsMove DEF WaitInv
<1>6. WakeupOnTheWay'
  BY <1>1, WakeupsMove DEF WaitInv
<1> QED BY <1>2, <1>4, <1>5, <1>6 DEF WaitInv

(* The inductive invariant: no property of a wait holds alone, since what   *)
(* an answer skips depends on the rows read some statements before it, and  *)
(* a wake-up on who listens.                                                *)
THEOREM WaitInvariant == Spec => []WaitInv
BY WaitInit, WaitNext, PTL DEF Spec

(* Every connection is idle or held by one call, the idle ones are never    *)
(* fewer than none nor more than the pool has, and only a held connection   *)
(* listens (reads.mjs:191-194, 257-264).                                    *)
THEOREM PoolAccounted == Spec => []TypeOK
<1>1. WaitInv => TypeOK
  BY DEF WaitInv
<1> QED BY <1>1, WaitInvariant, PTL

(* A client that goes on from the last event it was given misses none that  *)
(* is not compacted away, for any page size and any interleaving            *)
(* (reads.mjs:2, 198-208).                                                  *)
THEOREM NoEventSkipped == Spec => []NothingSkipped
<1>1. WaitInv => NothingSkipped
  BY DEF WaitInv
<1> QED BY <1>1, WaitInvariant, PTL

(* While a waiter sleeps, the notification of every commit since it blocked *)
(* is on the way to it (reads.mjs:210-211, 0002_advance.sql:166-176).       *)
THEOREM WakeupNotLost == Spec => []WakeupOnTheWay
<1>1. WaitInv => WakeupOnTheWay
  BY DEF WaitInv
<1> QED BY <1>1, WaitInvariant, PTL

=============================================================================
