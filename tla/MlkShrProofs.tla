---------------------------- MODULE MlkShrProofs ----------------------------
(***************************************************************************)
(* Facts about the lock space operators of MlkShr.tla: each of them maps a *)
(* lock space to a lock space, and none but Grant gives a node an owner;   *)
(* they keep the nodes a tree, and the locks of the processes they do not  *)
(* concern; and none but mlk_prcblk_add puts a process in a queue.         *)
(***************************************************************************)
EXTENDS MlkShr, FiniteSetTheorems, FunctionTheorems, SequenceTheorems, WellFoundedInduction, TLAPS

(* Every owned node of t is a node of s with the same name and owner. *)
Weaker(t, s) ==
  \A b \in Blk : t.owner[b] # NoProc => t.owner[b] = s.owner[b] /\ t.name[b] = s.name[b]

LEMMA BlkFacts == NoBlk \notin Blk /\ Blk \subseteq Nat /\ 0 .. max_blkcnt = Blk \cup {NoBlk}
BY SpaceAssumption DEF Blk, NoBlk

(* The sets of nodes the operators count are finite. *)
LEMMA BlkFinite ==
  ASSUME NEW S, S \subseteq Blk
  PROVE  IsFiniteSet(S) /\ Cardinality(S) \in Nat
<1>1. IsFiniteSet(Blk)  BY FS_Interval, SpaceAssumption DEF Blk
<1>2. IsFiniteSet(S)  BY <1>1, FS_Subset
<1> QED  BY <1>2, FS_CardinalityType

LEMMA SeqnoMod == ASSUME NEW i \in Int PROVE i % SeqMod \in Seqno
BY SpaceAssumption DEF Seqno

LEMMA NewSequenceType ==
  ASSUME NEW s \in Space, NEW S \in SUBSET Blk
  PROVE  /\ NewSequence(s, S) \in Space
         /\ NewSequence(s, S).name = s.name
         /\ NewSequence(s, S).owner = s.owner
         /\ NewSequence(s, S).pending = s.pending
         /\ NewSequence(s, S).prccnt = s.prccnt
<1> DEFINE sq == [b \in Blk |->
        IF b \in S THEN (s.lock_sequence + Cardinality({c \in S : c < b})) % SeqMod
                   ELSE s.sequence[b]]
           ls == (s.lock_sequence + Cardinality(S)) % SeqMod
<1>1. s.lock_sequence \in Int  BY SpaceAssumption DEF Space, Seqno
<1>2. ls \in Seqno  BY <1>1, BlkFinite, SeqnoMod
<1>3. sq \in [Blk -> Seqno]
  <2> SUFFICES ASSUME NEW b \in Blk
               PROVE  (IF b \in S THEN (s.lock_sequence + Cardinality({c \in S : c < b})) % SeqMod
                                  ELSE s.sequence[b]) \in Seqno
    OBVIOUS
  <2>1. Cardinality({c \in S : c < b}) \in Nat  BY BlkFinite
  <2>2. s.sequence[b] \in Seqno  BY DEF Space
  <2> QED  BY <1>1, <2>1, <2>2, SeqnoMod
<1>4. NewSequence(s, S) = [s EXCEPT !.sequence = sq, !.lock_sequence = ls]
  BY DEF NewSequence
<1> HIDE DEF sq, ls
<1> QED  BY <1>2, <1>3, <1>4 DEF Space

LEMMA ClearOwnerType ==
  ASSUME NEW s \in Space, NEW S
  PROVE  /\ ClearOwner(s, S) \in Space
         /\ ClearOwner(s, S).name = s.name
         /\ ClearOwner(s, S).pending = s.pending
         /\ ClearOwner(s, S).sequence = s.sequence
         /\ \A b \in Blk : ClearOwner(s, S).owner[b] = IF b \in S THEN NoProc ELSE s.owner[b]
BY DEF ClearOwner, Space, ProcOrNone

LEMMA FreeNodesType ==
  ASSUME NEW s \in Space, NEW S
  PROVE  /\ FreeNodes(s, S) \in Space
         /\ \A b \in Blk : FreeNodes(s, S).owner[b] = IF b \in S THEN NoProc ELSE s.owner[b]
         /\ \A b \in Blk : FreeNodes(s, S).name[b] = IF b \in S THEN NoName ELSE s.name[b]
<1>1. 0 \in Seqno  BY SpaceAssumption DEF Seqno
<1>2. <<>> \in Seq(Prcblk)  OBVIOUS
<1>3. NoProc \in ProcOrNone /\ NoName \in NameOrNone  BY DEF ProcOrNone, NameOrNone
<1> QED  BY <1>1, <1>2, <1>3 DEF FreeNodes, Space

-----------------------------------------------------------------------------
(* Weaker is a preorder, and a weaker space keeps OneOwnerPerBranch. *)
LEMMA WeakerTrans ==
  ASSUME NEW r, NEW s, NEW t, Weaker(r, s), Weaker(s, t)
  PROVE  Weaker(r, t)
BY DEF Weaker

LEMMA WeakerKeeps ==
  ASSUME NEW s \in Space, NEW t \in Space, Weaker(t, s), OneOwnerPerBranch(s)
  PROVE  OneOwnerPerBranch(t)
<1> SUFFICES ASSUME NEW a \in InUse(t), NEW b \in InUse(t),
                    t.owner[a] # NoProc, t.owner[b] # NoProc, Related(t.name[a], t.name[b])
             PROVE  t.owner[a] = t.owner[b]
  BY DEF OneOwnerPerBranch
<1>1. a \in InUse(s) /\ b \in InUse(s)  BY DEF InUse, Weaker
<1>2. /\ s.owner[a] = t.owner[a] /\ s.owner[b] = t.owner[b]
      /\ s.name[a] = t.name[a] /\ s.name[b] = t.name[b]
  BY DEF InUse, Weaker
<1> QED  BY <1>1, <1>2 DEF OneOwnerPerBranch

(* Entries of vanished processes at the head of a queue are at most all of it. *)
LEMMA GoneBound ==
  ASSUME NEW q \in Seq(Prcblk), NEW live
  PROVE  Cardinality(Gone(q, live)) \in 0 .. Len(q)
<1>1. DOMAIN q = 1 .. Len(q) /\ Len(q) \in Nat  OBVIOUS
<1>2. IsFiniteSet(1 .. Len(q)) /\ Cardinality(1 .. Len(q)) = Len(q)
  BY <1>1, FS_Interval
<1>3. Gone(q, live) \subseteq 1 .. Len(q)  BY <1>1 DEF Gone
<1>4. IsFiniteSet(Gone(q, live)) /\ Cardinality(Gone(q, live)) <= Len(q)
  BY <1>2, <1>3, FS_Subset
<1> QED  BY <1>1, <1>4, FS_CardinalityType

LEMMA WakeType ==
  ASSUME NEW s \in Space, NEW W \in SUBSET Blk, NEW live
  PROVE  /\ mlk_wake_pending(s, W, live) \in Space
         /\ mlk_wake_pending(s, W, live).name = s.name
         /\ mlk_wake_pending(s, W, live).owner = s.owner
<1> DEFINE gone(b) == Cardinality(Gone(s.pending[b], live))
           freed   == {bi \in W \X (1 .. max_prccnt) : bi[2] <= gone(bi[1])}
           pend    == [b \in Blk |->
             IF b \in W THEN SubSeq(s.pending[b], gone(b) + 1, Len(s.pending[b])) ELSE s.pending[b]]
           n       == NewSequence(s, W)
<1>1. n \in Space /\ n.name = s.name /\ n.owner = s.owner  BY NewSequenceType
<1>2. pend \in [Blk -> Seq(Prcblk)]
  <2> SUFFICES ASSUME NEW b \in Blk
               PROVE  /\ SubSeq(s.pending[b], gone(b) + 1, Len(s.pending[b])) \in Seq(Prcblk)
                      /\ s.pending[b] \in Seq(Prcblk)
    OBVIOUS
  <2>1. s.pending[b] \in Seq(Prcblk)  BY DEF Space
  <2>2. gone(b) \in 0 .. Len(s.pending[b])  BY <2>1, GoneBound
  <2> HIDE DEF gone
  <2>3. \A i \in gone(b) + 1 .. Len(s.pending[b]) : s.pending[b][i] \in Prcblk
    BY <2>1, <2>2
  <2> QED  BY <2>1, <2>2, <2>3, SubSeqProperties
<1>3. s.prccnt + Cardinality(freed) \in Int
  <2>a. IsFiniteSet(W)  BY BlkFinite
  <2>b. IsFiniteSet(1 .. max_prccnt)  BY FS_Interval, SpaceAssumption
  <2>1. IsFiniteSet(W \X (1 .. max_prccnt))  BY <2>a, <2>b, FS_Product
  <2>2. IsFiniteSet(freed)  BY <2>1, FS_Subset
  <2>3. Cardinality(freed) \in Nat  BY <2>2, FS_CardinalityType
  <2>4. s.prccnt \in Int  BY DEF Space
  <2> QED  BY <2>3, <2>4
<1>4. mlk_wake_pending(s, W, live) = [n EXCEPT !.pending = pend, !.prccnt = s.prccnt + Cardinality(freed)]
  BY DEF mlk_wake_pending
<1> HIDE DEF n, pend, freed
<1> QED  BY <1>1, <1>2, <1>3, <1>4 DEF Space

LEMMA CreateType ==
  ASSUME NEW s \in Space, NEW n \in Name
  PROVE  /\ mlk_shrblk_create(s, n) \in Space
         /\ Weaker(mlk_shrblk_create(s, n), s)
         /\ \A b \in InUse(s) : mlk_shrblk_create(s, n).name[b] = s.name[b]
<1> DEFINE missing == Missing(s, n)
           place   == CHOOSE f \in Injection(missing, Free(s)) : TRUE
           fresh   == {b \in Free(s) : \E m \in missing : place[m] = b}
           nm      == [b \in Blk |-> IF b \in fresh THEN CHOOSE m \in missing : place[m] = b ELSE s.name[b]]
           ow      == [b \in Blk |-> IF b \in fresh THEN NoProc ELSE s.owner[b]]
           sq      == [b \in Blk |-> IF b \in fresh THEN 0 ELSE s.sequence[b]]
           pd      == [b \in Blk |-> IF b \in fresh THEN <<>> ELSE s.pending[b]]
<1>1. missing \subseteq Name  BY PathAssumption DEF Missing
<1>2. mlk_shrblk_create(s, n) = [s EXCEPT !.name = nm, !.owner = ow, !.sequence = sq, !.pending = pd]
  BY DEF mlk_shrblk_create
<1> HIDE DEF missing, place
<1>3. nm \in [Blk -> NameOrNone]
  BY <1>1 DEF Space, NameOrNone
<1>4. ow \in [Blk -> ProcOrNone]  BY DEF Space, ProcOrNone
<1>5. sq \in [Blk -> Seqno]  BY SpaceAssumption DEF Space, Seqno
<1>6. pd \in [Blk -> Seq(Prcblk)]  BY DEF Space
<1>7. \A b \in Blk : b \in fresh => ow[b] = NoProc  OBVIOUS
<1>8. \A b \in Blk : b \notin fresh => ow[b] = s.owner[b] /\ nm[b] = s.name[b]  OBVIOUS
<1>9. \A b \in InUse(s) : b \in Blk /\ b \notin fresh  BY NullAssumption DEF InUse, Free
<1> HIDE DEF fresh, nm, ow, sq, pd
<1>10. /\ mlk_shrblk_create(s, n) \in Space
       /\ mlk_shrblk_create(s, n).name = nm
       /\ mlk_shrblk_create(s, n).owner = ow
  BY <1>2, <1>3, <1>4, <1>5, <1>6 DEF Space
<1> QED  BY <1>7, <1>8, <1>9, <1>10 DEF Weaker

(* With enough free shrblks every name of the path has a node afterwards. *)
LEMMA InjectionExists ==
  ASSUME NEW S, NEW T, IsFiniteSet(S), IsFiniteSet(T), Cardinality(S) <= Cardinality(T)
  PROVE  Injection(S, T) # {}
<1> DEFINE n == Cardinality(S)
           m == Cardinality(T)
<1>1. n \in Nat /\ m \in Nat  BY FS_CardinalityType
<1>a. \A k \in Nat : IsFiniteSet(1 .. k) /\ Cardinality(1 .. k) = k
  <2> SUFFICES ASSUME NEW k \in Nat PROVE IsFiniteSet(1 .. k) /\ Cardinality(1 .. k) = k
    OBVIOUS
  <2> QED  BY FS_Interval
<1>2. /\ IsFiniteSet(1 .. n) /\ Cardinality(1 .. n) = n
      /\ IsFiniteSet(1 .. m) /\ Cardinality(1 .. m) = m
  BY <1>1, <1>a
<1>3. ExistsBijection(S, 1 .. n) /\ ExistsBijection(1 .. m, T)
  BY <1>2, FS_SameCardinalityBij
<1>4. ExistsInjection(S, 1 .. n) /\ ExistsInjection(1 .. m, T)
  BY <1>3 DEF ExistsBijection, ExistsInjection, Bijection
<1>5. ExistsInjection(1 .. n, 1 .. m)  BY <1>1, Fun_NatInjLeq
<1>6. ExistsInjection(S, T)  BY <1>4, <1>5, Fun_ExistsInjTransitive
<1> QED  BY <1>6, Fun_ExistsInj

LEMMA NodeExists ==
  ASSUME NEW s \in Space, NEW n \in Name,
         ~(Cardinality(Missing(s, n)) > Cardinality(Free(s)))
  PROVE  \E b \in Blk : mlk_shrblk_create(s, n).name[b] = n
<1> DEFINE missing == Missing(s, n)
           place   == CHOOSE f \in Injection(missing, Free(s)) : TRUE
           fresh   == {b \in Free(s) : \E m \in missing : place[m] = b}
           nm      == [b \in Blk |-> IF b \in fresh THEN CHOOSE m \in missing : place[m] = b ELSE s.name[b]]
<1>1. mlk_shrblk_create(s, n).name = nm  BY DEF mlk_shrblk_create, Space
<1>2. n \in Path[n] /\ IsFiniteSet(Path[n])  BY PathAssumption
<1>3. CASE n \notin missing
  <2>1. PICK b \in InUse(s) : s.name[b] = n  BY <1>2, <1>3 DEF Missing
  <2>2. b \in Blk /\ b \notin fresh  BY NullAssumption DEF InUse, Free
  <2> HIDE DEF fresh
  <2> QED  BY <1>1, <2>1, <2>2
<1>4. CASE n \in missing
  <2>1. IsFiniteSet(missing) /\ IsFiniteSet(Free(s))
    BY <1>2, FS_Subset, BlkFinite DEF Missing, Free
  <2>2. Cardinality(missing) \in Nat /\ Cardinality(Free(s)) \in Nat
    BY <2>1, FS_CardinalityType
  <2>3. Injection(missing, Free(s)) # {}  BY <2>1, <2>2, InjectionExists
  <2>4. place \in Injection(missing, Free(s))  BY <2>3
  <2> HIDE DEF place, missing
  <2>5. place[n] \in Free(s) /\ \A m \in missing : place[m] = place[n] => m = n
    BY <1>4, <2>4 DEF Injection, IsInjective
  <2>6. place[n] \in Blk /\ place[n] \in fresh  BY <1>4, <2>5 DEF Free
  <2>7. nm[place[n]] = n  BY <1>4, <2>5, <2>6
  <2> QED  BY <1>1, <2>6, <2>7 DEF missing, place
<1> QED  BY <1>3, <1>4

-----------------------------------------------------------------------------
(* The queues *)

LEMMA RemoveAtType ==
  ASSUME NEW S, NEW q \in Seq(S), NEW i \in 1 .. Len(q)
  PROVE  /\ RemoveAt(q, i) \in Seq(S)
         /\ Len(RemoveAt(q, i)) = Len(q) - 1
         /\ \A j \in 1 .. Len(q) - 1 : RemoveAt(q, i)[j] = IF j < i THEN q[j] ELSE q[j + 1]
<1> DEFINE a == SubSeq(q, 1, i - 1)
           b == SubSeq(q, i + 1, Len(q))
<1>1. Len(q) \in Nat /\ \A j \in 1 .. Len(q) : q[j] \in S  OBVIOUS
<1>2. /\ a \in Seq(S) /\ Len(a) = i - 1
      /\ \A j \in 1 .. i - 1 : a[j] = q[j]
  <2>1. \A j \in 1 .. i - 1 : q[j] \in S  BY <1>1
  <2>2. i - 1 \in Int  OBVIOUS
  <2>3. /\ a \in Seq(S) /\ Len(a) = IF 1 <= i - 1 THEN i - 1 - 1 + 1 ELSE 0
        /\ \A j \in 1 .. (i - 1) - 1 + 1 : a[j] = q[1 + j - 1]
    BY <2>1, <2>2, SubSeqProperties
  <2> QED  BY <1>1, <2>3
<1>3. /\ b \in Seq(S) /\ Len(b) = Len(q) - i
      /\ \A j \in 1 .. Len(q) - i : b[j] = q[i + j]
  <2>1. \A j \in i + 1 .. Len(q) : q[j] \in S  BY <1>1
  <2>2. i + 1 \in Int /\ Len(q) \in Int  BY <1>1
  <2>3. /\ b \in Seq(S) /\ Len(b) = IF i + 1 <= Len(q) THEN Len(q) - (i + 1) + 1 ELSE 0
        /\ \A j \in 1 .. Len(q) - (i + 1) + 1 : b[j] = q[(i + 1) + j - 1]
    BY <2>1, <2>2, SubSeqProperties
  <2> QED  BY <1>1, <2>3
<1> HIDE DEF a, b
<1>4. /\ a \o b \in Seq(S) /\ Len(a \o b) = Len(a) + Len(b)
      /\ \A j \in 1 .. Len(a) + Len(b) : (a \o b)[j] = IF j <= Len(a) THEN a[j] ELSE b[j - Len(a)]
  BY <1>2, <1>3, ConcatProperties
<1>5. a \o b \in Seq(S) /\ Len(a \o b) = Len(q) - 1  BY <1>1, <1>2, <1>3, <1>4
<1>6. ASSUME NEW j \in 1 .. Len(q) - 1
      PROVE  (a \o b)[j] = IF j < i THEN q[j] ELSE q[j + 1]
  <2>1. j \in 1 .. Len(a) + Len(b)  BY <1>1, <1>2, <1>3
  <2>2. (a \o b)[j] = IF j <= Len(a) THEN a[j] ELSE b[j - Len(a)]  BY <1>4, <2>1
  <2>3. CASE j < i
    <3>1. j \in 1 .. i - 1 /\ j <= Len(a)  BY <1>1, <1>2, <2>3
    <3> QED  BY <1>2, <2>2, <2>3, <3>1
  <2>4. CASE ~(j < i)
    <3>1. j - Len(a) \in 1 .. Len(q) - i /\ ~(j <= Len(a)) /\ i + (j - Len(a)) = j + 1
      BY <1>1, <1>2, <2>4
    <3> QED  BY <1>3, <2>2, <2>4, <3>1
  <2> QED  BY <2>3, <2>4
<1> QED  BY <1>5, <1>6 DEF a, b, RemoveAt

LEMMA RequeueType ==
  ASSUME NEW s \in Space, NEW d \in Blk, NEW q \in Seq(Prcblk), NEW k \in Int,
         NEW t, t = Requeue(s, d, q, k)
  PROVE  /\ t \in Space /\ t.name = s.name /\ t.owner = s.owner /\ t.sequence = s.sequence
         /\ \A b \in Blk \ {d} : t.pending[b] = s.pending[b]
BY DEF Requeue, Space

LEMMA RefCntType ==
  ASSUME NEW q \in Seq(Prcblk), NEW i \in 1 .. Len(q)
  PROVE  /\ [q EXCEPT ![i].ref_cnt = @ + 1] \in Seq(Prcblk)
         /\ [q EXCEPT ![i].ref_cnt = @ - 1] \in Seq(Prcblk)
<1>1. q[i] \in Prcblk  OBVIOUS
<1>2. PICK r \in Prcblk : r = q[i]  BY <1>1
<1>3. [r EXCEPT !.ref_cnt = @ + 1] \in Prcblk /\ [r EXCEPT !.ref_cnt = @ - 1] \in Prcblk
  BY DEF Prcblk
<1>4. /\ [q EXCEPT ![i] = [r EXCEPT !.ref_cnt = @ + 1]] \in Seq(Prcblk)
      /\ [q EXCEPT ![i] = [r EXCEPT !.ref_cnt = @ - 1]] \in Seq(Prcblk)
  BY <1>3, ExceptSeq
<1> QED  BY <1>2, <1>4

LEMMA PrcblkAddType ==
  ASSUME NEW s \in Space, NEW d \in Blk, NEW p \in Proc, NEW t, t = mlk_prcblk_add(s, d, p)
  PROVE  /\ t \in Space
         /\ t.name = s.name
         /\ t.owner = s.owner
         /\ t.sequence = s.sequence
         /\ \A b \in Blk \ {d} : t.pending[b] = s.pending[b]
<1> DEFINE q == s.pending[d]
           i == CHOOSE i \in Queued(s, d, p) : TRUE
           counted  == [q EXCEPT ![i].ref_cnt = @ + 1]
           appended == Append(q, [process_id |-> p, ref_cnt |-> 1])
<1>1. q \in Seq(Prcblk) /\ s.prccnt \in Int /\ s.prccnt - 1 \in Int  BY DEF Space
<1>2. \/ /\ Queued(s, d, p) # {}
         /\ t = Requeue(s, d, counted, s.prccnt)
      \/ t = s
      \/ t = Requeue(s, d, appended, s.prccnt - 1)
  BY DEF mlk_prcblk_add
<1>3. Queued(s, d, p) # {} => counted \in Seq(Prcblk)
  <2> SUFFICES ASSUME Queued(s, d, p) # {} PROVE counted \in Seq(Prcblk)
    OBVIOUS
  <2>1. i \in 1 .. Len(q)  BY <1>1 DEF Queued
  <2> HIDE DEF q, i
  <2> QED  BY <1>1, <2>1, RefCntType
<1>4. appended \in Seq(Prcblk)
  <2>1. [process_id |-> p, ref_cnt |-> 1] \in Prcblk  BY DEF Prcblk
  <2> HIDE DEF q
  <2> QED  BY <1>1, <2>1, AppendProperties
<1> HIDE DEF counted, appended
<1>5. CASE Queued(s, d, p) # {} /\ t = Requeue(s, d, counted, s.prccnt)
  <2>1. PICK k \in Int : k = s.prccnt  BY <1>1
  <2>2. PICK a \in Seq(Prcblk) : a = counted  BY <1>3, <1>5
  <2>3. t = Requeue(s, d, a, k)  BY <1>5, <2>1, <2>2
  <2> QED  BY <2>3, RequeueType
<1>6. CASE t = Requeue(s, d, appended, s.prccnt - 1)
  <2>1. PICK k \in Int : k = s.prccnt - 1  BY <1>1
  <2>2. PICK a \in Seq(Prcblk) : a = appended  BY <1>4
  <2>3. t = Requeue(s, d, a, k)  BY <1>6, <2>1, <2>2
  <2> QED  BY <2>3, RequeueType
<1> QED  BY <1>2, <1>5, <1>6

LEMMA PrcblkDeleteType ==
  ASSUME NEW s \in Space, NEW d \in Blk, NEW p \in Proc, NEW t, t = mlk_prcblk_delete(s, d, p)
  PROVE  /\ t \in Space
         /\ t.name = s.name
         /\ t.owner = s.owner
         /\ t.sequence = s.sequence
         /\ \A b \in Blk \ {d} : t.pending[b] = s.pending[b]
<1> DEFINE q == s.pending[d]
           i == CHOOSE i \in Queued(s, d, p) : TRUE
           counted == [q EXCEPT ![i].ref_cnt = @ - 1]
           removed == RemoveAt(q, i)
<1>1. q \in Seq(Prcblk) /\ s.prccnt \in Int /\ s.prccnt + 1 \in Int  BY DEF Space
<1>2. \/ t = s
      \/ /\ Queued(s, d, p) # {}
         /\ \/ t = Requeue(s, d, counted, s.prccnt)
            \/ t = Requeue(s, d, removed, s.prccnt + 1)
  BY DEF mlk_prcblk_delete
<1>3. Queued(s, d, p) # {} => counted \in Seq(Prcblk) /\ removed \in Seq(Prcblk)
  <2> SUFFICES ASSUME Queued(s, d, p) # {} PROVE counted \in Seq(Prcblk) /\ removed \in Seq(Prcblk)
    OBVIOUS
  <2>1. i \in 1 .. Len(q)  BY <1>1 DEF Queued
  <2> HIDE DEF q, i
  <2> QED  BY <1>1, <2>1, RefCntType, RemoveAtType
<1> HIDE DEF counted, removed, q, i
<1>4. CASE Queued(s, d, p) # {} /\ t = Requeue(s, d, counted, s.prccnt)
  <2>1. PICK k \in Int : k = s.prccnt  BY <1>1
  <2>2. PICK a \in Seq(Prcblk) : a = counted  BY <1>3, <1>4
  <2>3. t = Requeue(s, d, a, k)  BY <1>4, <2>1, <2>2
  <2> QED  BY <2>3, RequeueType
<1>5. CASE Queued(s, d, p) # {} /\ t = Requeue(s, d, removed, s.prccnt + 1)
  <2>1. PICK k \in Int : k = s.prccnt + 1  BY <1>1
  <2>2. PICK a \in Seq(Prcblk) : a = removed  BY <1>3, <1>5
  <2>3. t = Requeue(s, d, a, k)  BY <1>5, <2>1, <2>2
  <2> QED  BY <2>3, RequeueType
<1> QED  BY <1>2, <1>4, <1>5

-----------------------------------------------------------------------------
(* Unlocking, LKE CLEAR and garbage collection *)

LEMMA ReleaseType ==
  ASSUME NEW s \in Space, NEW d \in Blk, NEW live
  PROVE  Release(s, d, live) \in Space /\ Weaker(Release(s, d, live), s)
<1> DEFINE s0 == ClearOwner(s, {d})
           s1 == NewSequence(s0, {d})
           chain   == OnPath(s1, s.name[d])
           below   == mlk_tree_wake_children(s1, d)
           above   == {b \in chain : Waiting(s1, b)}
           nearest == {b \in above : above \subseteq OnPath(s1, s1.name[b])}
           woken   == IF below # {} THEN below ELSE nearest
           s2 == mlk_wake_pending(s1, woken, live)
           D  == Deletable(s1, chain \cup Visited(s1, d))
<1>1. Release(s, d, live) = FreeNodes(s2, D)  BY DEF Release
<1>2. woken \subseteq Blk
  <2>1. below \subseteq Blk  BY DEF mlk_tree_wake_children, Visited, Below, InUse
  <2>2. nearest \subseteq Blk  BY DEF OnPath, InUse
  <2> QED  BY <2>1, <2>2
<1> HIDE DEF woken, D
<1>3. s0 \in Space /\ Weaker(s0, s)  BY ClearOwnerType DEF Weaker
<1> HIDE DEF s0
<1>4. s1 \in Space /\ Weaker(s1, s0)  BY <1>3, NewSequenceType DEF Weaker
<1> HIDE DEF s1
<1>5. s2 \in Space /\ Weaker(s2, s1)  BY <1>2, <1>4, WakeType DEF Weaker
<1> HIDE DEF s2
<1>6. FreeNodes(s2, D) \in Space /\ Weaker(FreeNodes(s2, D), s2)
  BY <1>5, FreeNodesType DEF Weaker
<1> QED  BY <1>1, <1>3, <1>4, <1>5, <1>6, WeakerTrans

LEMMA UnlockType ==
  ASSUME NEW s \in Space, NEW e, e.nodptr \in Blk \cup {NoBlk}, NEW p, NEW live
  PROVE  mlk_unlock(s, e, p, live) \in Space /\ Weaker(mlk_unlock(s, e, p, live), s)
<1>1. CASE OwnsNode(s, e, p)
  <2>1. e.nodptr \in Blk  BY <1>1 DEF OwnsNode
  <2> QED  BY <1>1, <2>1, ReleaseType DEF mlk_unlock
<1>2. CASE ~OwnsNode(s, e, p)  BY <1>2 DEF mlk_unlock, Weaker
<1> QED  BY <1>1, <1>2

LEMMA LkeClearType ==
  ASSUME NEW s \in Space, NEW d \in Blk, NEW live
  PROVE  lke_clearlock(s, d, live) \in Space /\ Weaker(lke_clearlock(s, d, live), s)
<1> DEFINE s0 == ClearOwner(s, {d})
           s1 == NewSequence(s0, {d})
           s2 == mlk_wake_pending(s1, {d}, live)
<1>1. lke_clearlock(s, d, live) \in {s1, s2}  BY DEF lke_clearlock
<1>3. s0 \in Space /\ Weaker(s0, s)  BY ClearOwnerType DEF Weaker
<1> HIDE DEF s0
<1>4. s1 \in Space /\ Weaker(s1, s0)  BY <1>3, NewSequenceType DEF Weaker
<1> HIDE DEF s1
<1>5. s2 \in Space /\ Weaker(s2, s1)  BY <1>4, WakeType DEF Weaker
<1> QED  BY <1>1, <1>3, <1>4, <1>5, WeakerTrans

LEMMA LkeCleartreeType ==
  ASSUME NEW s \in Space, NEW d \in Blk, NEW live, NEW t \in lke_cleartree(s, d, live)
  PROVE  t \in Space /\ Weaker(t, s)
<1>1. PICK S \in Passed(s, d) : t = lke_clearlock(FreeNodes(s, Deletable(s, S)), d, live)
  BY DEF lke_cleartree
<1> DEFINE r == FreeNodes(s, Deletable(s, S))
<1>2. r \in Space /\ Weaker(r, s)  BY FreeNodesType DEF Weaker
<1>3. t = lke_clearlock(r, d, live)  BY <1>1
<1> HIDE DEF r
<1>4. t \in Space /\ Weaker(t, r)  BY <1>2, <1>3, LkeClearType
<1> QED  BY <1>2, <1>4, WeakerTrans

(* A non-empty set of numbers has a least element. *)
LEMMA LeastExists ==
  ASSUME NEW T, T \subseteq Nat, T # {}
  PROVE  \E x \in T : \A y \in T : x <= y
<1>1. \E x \in T : \A y \in T : ~(<<y, x>> \in OpToRel(<, Nat))
  BY NatLessThanWellFounded, WFMin
<1>2. PICK x \in T : \A y \in T : ~(<<y, x>> \in OpToRel(<, Nat))  BY <1>1
<1>3. \A y \in T : ~(y < x)  BY <1>2 DEF OpToRel
<1>4. \A y \in T : y \in Nat /\ x \in Nat  OBVIOUS
<1> QED  BY <1>3, <1>4

(* A queue without some of its entries is a queue: its k-th entry is the one *)
(* that has k entries at or before it.                                      *)
LEMMA RankExists ==
  ASSUME NEW n \in Nat, NEW K \in SUBSET (1 .. n), NEW k \in 1 .. Cardinality(K)
  PROVE  \E i \in K : Cardinality({j \in K : j <= i}) = k
<1> DEFINE upto(i) == {j \in K : j <= i}
           r(i) == Cardinality(upto(i))
           T == {i \in 0 .. n : r(i) >= k}
<1>0. \A j \in K : j \in Int /\ 1 <= j /\ j <= n  OBVIOUS
<1>a. upto(0) = {} /\ upto(n) = K
  <2> HIDE DEF r, T
  <2>1. \A j \in K : ~(j <= 0) /\ j <= n  BY <1>0
  <2>2. upto(0) = {}  BY <2>1, Zenon
  <2>3. upto(n) = K  BY <2>1, Zenon
  <2> QED  BY <2>2, <2>3
<1>b. ASSUME NEW i \in Int
      PROVE  /\ i \notin K => upto(i) = upto(i - 1)
             /\ i \in K => upto(i) = upto(i - 1) \cup {i} /\ i \notin upto(i - 1)
  <2> HIDE DEF r, T
  <2>1. \A j \in K : j <= i <=> j <= i - 1 \/ j = i  BY <1>0
  <2>2. ~(i <= i - 1)  OBVIOUS
  <2> QED  BY <2>1, <2>2
<1>1. IsFiniteSet(K) /\ Cardinality(K) \in Nat
  <2>1. IsFiniteSet(1 .. n)  BY FS_Interval
  <2>2. IsFiniteSet(K)  BY <2>1, FS_Subset
  <2> QED  BY <2>2, FS_CardinalityType
<1>2. ASSUME NEW i \in Int PROVE IsFiniteSet(upto(i)) /\ r(i) \in Nat
  <2>1. IsFiniteSet(upto(i))  BY <1>1, FS_Subset
  <2> QED  BY <2>1, FS_CardinalityType
<1>3. n \in T
  <2>1. r(n) >= k  BY <1>1, <1>a
  <2> HIDE DEF r
  <2> QED  BY <2>1
<1>4. PICK i \in T : \A y \in T : i <= y
  <2>1. T \subseteq Nat /\ T # {}  BY <1>3
  <2> HIDE DEF T
  <2> QED  BY <2>1, LeastExists
<1>5. i # 0
  <2>2. r(0) = 0  BY <1>a, FS_EmptySet
  <2> HIDE DEF r
  <2> QED  BY <1>4, <2>2
<1>6. i \in 1 .. n /\ i - 1 \in 0 .. n /\ r(i) >= k  BY <1>4, <1>5
<1>7. ~(r(i - 1) >= k)
  <2>1. i - 1 \notin T
    <3> HIDE DEF T
    <3> QED  BY <1>4, <1>6
  <2> HIDE DEF r
  <2> QED  BY <1>6, <2>1
<1>8. r(i) \in Nat /\ r(i - 1) \in Nat /\ IsFiniteSet(upto(i - 1))
  <2>1. i \in Int /\ i - 1 \in Int  BY <1>6
  <2> HIDE DEF r, upto
  <2> QED  BY <1>2, <2>1
<1>9. CASE i \notin K
  <2>0. i \in Int  BY <1>6
  <2> HIDE DEF T, upto
  <2>1. upto(i) = upto(i - 1)  BY <1>b, <1>9, <2>0
  <2> QED  BY <1>6, <1>7, <2>1
<1>10. CASE i \in K
  <2>0. i \in Int  BY <1>6
  <2> HIDE DEF T, upto
  <2>1. upto(i) = upto(i - 1) \cup {i} /\ i \notin upto(i - 1)  BY <1>b, <1>10, <2>0
  <2>2. r(i) = r(i - 1) + 1  BY <1>8, <2>1, FS_AddElement
  <2> HIDE DEF r
  <2>3. r(i) = k  BY <1>6, <1>7, <1>8, <2>2, <1>1
  <2> QED  BY <1>10, <2>3 DEF r, upto
<1> QED  BY <1>9, <1>10

(* Some node of a non-empty set of nodes on one path is below all others. *)
LEMMA LowestExists ==
  ASSUME NEW s \in Space, NEW n \in Name, NEW S \in SUBSET OnPath(s, n), S # {}
  PROVE  Lowest(s, S) \in S
<1> DEFINE c(b) == Cardinality(Path[s.name[b]])
           N == Cardinality(Path[n])
           T == {N - c(b) : b \in S}
<1>1. \A b \in S : b \in InUse(s) /\ s.name[b] \in Path[n] /\ s.name[b] \in Name
  BY PathAssumption DEF OnPath
<1>2. ASSUME NEW m \in Name
      PROVE  m \in Path[m] /\ IsFiniteSet(Path[m]) /\ Cardinality(Path[m]) \in Nat
  BY PathAssumption, FS_CardinalityType
<1>3. ASSUME NEW b \in S PROVE c(b) \in Nat /\ N - c(b) \in Nat
  <2>1. Path[s.name[b]] \subseteq Path[n]  BY <1>1, PathAssumption
  <2>2. c(b) <= N  BY <1>2, <2>1, FS_Subset
  <2>3. c(b) \in Nat /\ N \in Nat  BY <1>1, <1>2
  <2> HIDE DEF c, N
  <2> QED  BY <2>2, <2>3
<1>4. PICK b \in S : \A a \in S : N - c(b) <= N - c(a)
  <2>1. T \subseteq Nat /\ T # {}
    <3> HIDE DEF c, N
    <3> QED  BY <1>3
  <2>2. PICK x \in T : \A y \in T : x <= y
    <3> HIDE DEF T
    <3> QED  BY <2>1, LeastExists
  <2> HIDE DEF c, N
  <2>3. PICK b \in S : x = N - c(b)  OBVIOUS
  <2>4. \A a \in S : N - c(a) \in T  OBVIOUS
  <2> HIDE DEF T
  <2> QED  BY <2>2, <2>3, <2>4
<1>5. ASSUME NEW a \in S PROVE a \in OnPath(s, s.name[b])
  <2>1. s.name[a] \in Path[s.name[b]] \/ s.name[b] \in Path[s.name[a]]
    BY <1>1, PathAssumption
  <2>2. CASE s.name[b] \in Path[s.name[a]]
    <3>1. Path[s.name[b]] \subseteq Path[s.name[a]]  BY <1>1, <2>2, PathAssumption
    <3>2. c(b) <= c(a) /\ (c(a) = c(b) => Path[s.name[a]] = Path[s.name[b]])
      BY <1>1, <1>2, <3>1, FS_Subset
    <3>3. c(a) \in Nat /\ c(b) \in Nat /\ N \in Nat /\ N - c(b) <= N - c(a)
      BY <1>2, <1>3, <1>4
    <3>4. c(a) = c(b)
      <4> HIDE DEF c, N
      <4> QED  BY <3>2, <3>3
    <3> QED  BY <1>1, <1>2, <3>2, <3>4 DEF OnPath
  <2> QED  BY <1>1, <2>1, <2>2 DEF OnPath
<1>6. S \subseteq OnPath(s, s.name[b])  BY <1>5
<1> QED  BY <1>6 DEF Lowest

LEMMA YieldType ==
  ASSUME NEW s \in Space, NEW n \in Name, NEW T \in SUBSET OnPath(s, n), NEW p \in Proc,
         NEW y \in YieldPid, NEW live
  PROVE  mlk_yield_pid(s, T, p, y, live) \in YieldPid
<1> DEFINE marks == {b \in T : \/ HeldAgainst(s, b, p, live)
                               \/ /\ Waiting(s, b) /\ Head(s.pending[b]).process_id # p
                                  /\ FairAt(s, T, b, p, y, live)}
           last  == Lowest(s, marks)
<1>1. mlk_yield_pid(s, T, p, y, live) =
        IF marks = {} THEN y
        ELSE IF HeldAgainst(s, last, p, live) THEN NoProc ELSE Head(s.pending[last]).process_id
  BY DEF mlk_yield_pid
<1>2. CASE marks = {}  BY <1>1, <1>2
<1>3. CASE marks # {} /\ HeldAgainst(s, last, p, live)
  BY <1>1, <1>3 DEF YieldPid
<1>4. CASE marks # {} /\ ~HeldAgainst(s, last, p, live)
  <2>1. marks \subseteq OnPath(s, n)  OBVIOUS
  <2>2. last \in marks
    <3> HIDE DEF marks
    <3> QED  BY <1>4, <2>1, LowestExists
  <2>3. last \in Blk /\ Waiting(s, last)
    <3> HIDE DEF last
    <3> QED  BY <1>4, <2>2 DEF OnPath, InUse
  <2> HIDE DEF last, marks
  <2>4. s.pending[last] \in Seq(Prcblk) /\ s.pending[last] # <<>>
    BY <2>3 DEF Waiting, Space
  <2>5. Head(s.pending[last]) \in Prcblk  BY <2>4, HeadTailProperties
  <2>6. Head(s.pending[last]).process_id \in Proc  BY <2>5 DEF Prcblk
  <2> QED  BY <1>1, <1>4, <2>6 DEF YieldPid
<1> QED  BY <1>2, <1>3, <1>4

LEMMA CreateAfterWake ==
  ASSUME NEW s \in Space, NEW t \in Space, t.name = s.name, NEW n \in Name,
         ~(Cardinality(Missing(s, n)) > Cardinality(Free(s)))
  PROVE  \E b \in Blk : mlk_shrblk_create(t, n).name[b] = n
<1>1. Missing(t, n) = Missing(s, n) /\ Free(t) = Free(s)  BY DEF Missing, Free, InUse
<1> QED  BY <1>1, NodeExists

(* If the walk down the path of n meets nothing that blocks, then no other   *)
(* process is left as owner of a prefix of n.                               *)
LEMMA WalkType ==
  ASSUME NEW s \in Space, NEW p \in Proc, NEW n \in Name, NEW y \in YieldPid, NEW live,
         NEW w, w = Walk(s, p, n, y, live)
  PROVE  /\ w.space \in Space /\ Weaker(w.space, s)
         /\ w.full \in BOOLEAN /\ w.blocked \in Blk \cup {NoBlk} /\ w.yield \in YieldPid
         /\ ~w.full => \E b \in Blk : w.space.name[b] = n
         /\ w.blocked = NoBlk =>
              \A b \in InUse(w.space) : w.space.name[b] \in Path[n] => w.space.owner[b] \in {NoProc, p}
<1> DEFINE path == OnPath(s, n)
           yielding == {b \in path : YieldsTo(s, path, b, p, y, live)}
           stop     == yielding \cup {b \in path : HeldAgainst(s, b, p, live)}
           gone     == {b \in path : Abandoned(s, b, p, live)}
           cleared  == ClearOwner(s, gone)
           full     == Cardinality(Missing(s, n)) > Cardinality(Free(s))
           woken    == mlk_wake_pending(cleared, yielding, live)
<1>1. /\ w.space = IF full THEN woken ELSE mlk_shrblk_create(woken, n)
      /\ w.full = full
      /\ w.blocked = IF stop = {} THEN NoBlk ELSE Lowest(s, stop)
      /\ w.yield = mlk_yield_pid(s, path, p, y, live)
  BY DEF Walk
<1>2. path \subseteq Blk /\ yielding \subseteq path /\ stop \subseteq path /\ yielding \subseteq Blk
  BY DEF OnPath, InUse
<1>3. cleared \in Space /\ cleared.name = s.name
      /\ \A b \in Blk : cleared.owner[b] = IF b \in gone THEN NoProc ELSE s.owner[b]
  <2> HIDE DEF gone
  <2> QED  BY ClearOwnerType
<1>4. ASSUME stop = {}, NEW b \in InUse(s), s.name[b] \in Path[n]
      PROVE  cleared.owner[b] \in {NoProc, p}
  <2>1. b \in path /\ b \in Blk  BY <1>4 DEF OnPath, InUse
  <2>2. ~HeldAgainst(s, b, p, live)  BY <1>4, <2>1
  <2>3. s.owner[b] \in Proc \cup {NoProc}  BY <2>1 DEF Space, ProcOrNone
  <2>4. s.owner[b] \in {NoProc, p} \/ b \in gone
    BY <2>1, <2>2, <2>3 DEF HeldAgainst, Abandoned
  <2> HIDE DEF gone
  <2> QED  BY <1>3, <2>1, <2>4
<1>5. Weaker(cleared, s)  BY <1>3 DEF Weaker
<1> HIDE DEF cleared, gone
<1>6. woken \in Space /\ woken.name = s.name /\ Weaker(woken, cleared)
  <2> HIDE DEF yielding
  <2> QED  BY <1>2, <1>3, WakeType DEF Weaker
<1> HIDE DEF woken
<1>7. mlk_shrblk_create(woken, n) \in Space /\ Weaker(mlk_shrblk_create(woken, n), woken)
  BY <1>6, CreateType
<1>8. w.space \in Space /\ Weaker(w.space, cleared)
  BY <1>1, <1>6, <1>7, WeakerTrans DEF Weaker
<1>9. w.blocked \in Blk \cup {NoBlk} /\ (w.blocked = NoBlk => stop = {})
  <2> HIDE DEF path, stop
  <2>1. CASE stop # {}
    <3>1. Lowest(s, stop) \in stop  BY <1>2, <2>1, LowestExists DEF path
    <3> QED  BY <1>1, <1>2, <2>1, <3>1, BlkFacts
  <2> QED  BY <1>1, <2>1
<1>10. w.yield \in YieldPid  BY <1>1, YieldType
<1>11. ~w.full => \E b \in Blk : w.space.name[b] = n
  <2> SUFFICES ASSUME ~w.full PROVE \E b \in Blk : w.space.name[b] = n
    OBVIOUS
  <2>1. ~full  BY <1>1
  <2>2. \E b \in Blk : mlk_shrblk_create(woken, n).name[b] = n
    BY <1>6, <2>1, CreateAfterWake
  <2> HIDE DEF full, stop, path
  <2> QED  BY <1>1, <2>1, <2>2
<1>12. ASSUME w.blocked = NoBlk, NEW b \in InUse(w.space), w.space.name[b] \in Path[n]
       PROVE  w.space.owner[b] \in {NoProc, p}
  <2> SUFFICES ASSUME w.space.owner[b] # NoProc PROVE w.space.owner[b] = p
    OBVIOUS
  <2>1. b \in Blk /\ cleared.owner[b] = w.space.owner[b] /\ s.name[b] = w.space.name[b]
    BY <1>3, <1>8 DEF Weaker, InUse
  <2>2. b \in InUse(s)  BY <2>1 DEF InUse
  <2>3. cleared.owner[b] \in {NoProc, p}  BY <1>4, <1>9, <1>12, <2>1, <2>2
  <2> QED  BY <2>1, <2>3
<1>13. Weaker(w.space, s)  BY <1>5, <1>8, WeakerTrans
<1>14. w.full \in BOOLEAN  BY <1>1
<1> QED  BY <1>8, <1>9, <1>10, <1>11, <1>12, <1>13, <1>14

(* If nothing below d blocks, then no other process is left as owner there. *)
LEMMA ChildLockType ==
  ASSUME NEW s \in Space, NEW p \in Proc, NEW d \in Blk, NEW live,
         NEW r \in mlk_find_blocking_child_lock(s, p, d, live)
  PROVE  /\ r.space \in Space /\ Weaker(r.space, s) /\ r.space.name = s.name
         /\ r.blocked \in Blk \cup {NoBlk}
         /\ r.blocked = NoBlk => \A b \in Below(s, d) : r.space.owner[b] \in {NoProc, p}
<1> DEFINE held == {b \in Below(s, d) : HeldAgainst(s, b, p, live)}
           dead == {b \in Below(s, d) : Abandoned(s, b, p, live)}
<1>1. \/ held = {} /\ r = [space |-> ClearOwner(s, dead), blocked |-> NoBlk]
      \/ \E b \in held, C \in SUBSET dead : r = [space |-> ClearOwner(s, C), blocked |-> b]
  BY DEF mlk_find_blocking_child_lock
<1>2. CASE held = {} /\ r = [space |-> ClearOwner(s, dead), blocked |-> NoBlk]
  <2>1. r.space = ClearOwner(s, dead) /\ r.blocked = NoBlk  BY <1>2
  <2>2. /\ r.space \in Space /\ r.space.name = s.name
        /\ \A b \in Blk : r.space.owner[b] = IF b \in dead THEN NoProc ELSE s.owner[b]
    <3> HIDE DEF dead
    <3> QED  BY <2>1, ClearOwnerType
  <2>3. ASSUME NEW b \in Below(s, d) PROVE r.space.owner[b] \in {NoProc, p}
    <3>1. b \in Blk /\ s.owner[b] \in Proc \cup {NoProc} /\ ~HeldAgainst(s, b, p, live)
      BY <1>2 DEF Below, InUse, Space, ProcOrNone
    <3>2. b \in dead \/ s.owner[b] \in {NoProc, p}
      BY <3>1 DEF HeldAgainst, Abandoned
    <3> HIDE DEF dead
    <3> QED  BY <2>2, <3>1, <3>2
  <2>4. Weaker(r.space, s)
    <3> HIDE DEF dead
    <3> QED  BY <2>2 DEF Weaker
  <2> QED  BY <2>1, <2>2, <2>3, <2>4
<1>3. CASE \E b \in held, C \in SUBSET dead : r = [space |-> ClearOwner(s, C), blocked |-> b]
  <2>1. PICK b \in held, C \in SUBSET dead : r = [space |-> ClearOwner(s, C), blocked |-> b]
    BY <1>3
  <2>2. r.space = ClearOwner(s, C) /\ r.blocked \in Blk  BY <2>1 DEF Below, InUse
  <2>3. r.space \in Space /\ r.space.name = s.name /\ Weaker(r.space, s)
    BY <2>2, ClearOwnerType DEF Weaker
  <2> QED  BY <2>2, <2>3, BlkFacts
<1> QED  BY <1>1, <1>2, <1>3

(* When mlk_shrblk_find reports that nothing blocks, it has found or made    *)
(* the node of n and no other process owns a node of n's branch.            *)
Clear(s, d, p, n) ==
  /\ d \in Blk /\ s.name[d] = n
  /\ \A b \in InUse(s) : Related(s.name[b], n) => s.owner[b] \in {NoProc, p}

LEMMA FindType ==
  ASSUME NEW s \in Space, NEW p \in Proc, NEW n \in Name, NEW y \in YieldPid, NEW live,
         NEW f \in mlk_shrblk_find(s, p, n, y, live)
  PROVE  /\ f.space \in Space /\ Weaker(f.space, s)
         /\ f.d \in Blk \cup {NoBlk} /\ f.blocked \in Blk \cup {NoBlk} /\ f.yield \in YieldPid
         /\ ~f.isblocked => Clear(f.space, f.d, p, n)
<1> DEFINE w == Walk(s, p, n, y, live)
           d == NodeFor(w.space, n)
<1>1. PICK v : v = w  OBVIOUS
<1>2. /\ v.space \in Space /\ Weaker(v.space, s)
      /\ v.full \in BOOLEAN /\ v.blocked \in Blk \cup {NoBlk} /\ v.yield \in YieldPid
      /\ ~v.full => \E b \in Blk : v.space.name[b] = n
      /\ v.blocked = NoBlk =>
           \A b \in InUse(v.space) : v.space.name[b] \in Path[n] => v.space.owner[b] \in {NoProc, p}
  BY <1>1, WalkType
<1>3. ~v.full => NodeFor(v.space, n) \in Blk /\ v.space.name[NodeFor(v.space, n)] = n
  BY <1>2 DEF NodeFor
<1>4. mlk_shrblk_find(s, p, n, y, live) =
        IF v.full
        THEN {[space |-> v.space, d |-> NoBlk, isblocked |-> TRUE, blocked |-> v.blocked,
               yield |-> v.yield]}
        ELSE IF v.blocked # NoBlk \/ Below(v.space, NodeFor(v.space, n)) = {}
        THEN {[space |-> v.space, d |-> NodeFor(v.space, n), isblocked |-> v.blocked # NoBlk,
               blocked |-> v.blocked, yield |-> v.yield]}
        ELSE {[space |-> r.space, d |-> NodeFor(v.space, n), isblocked |-> r.blocked # NoBlk,
               blocked |-> r.blocked, yield |-> NoProc] :
                 r \in mlk_find_blocking_child_lock(v.space, p, NodeFor(v.space, n), live)}
  BY <1>1 DEF mlk_shrblk_find
<1> HIDE DEF w, d
<1> DEFINE g == NodeFor(v.space, n)
<1> HIDE DEF g
<1>5. CASE v.full
  <2>1. f = [space |-> v.space, d |-> NoBlk, isblocked |-> TRUE, blocked |-> v.blocked, yield |-> v.yield]
    BY <1>4, <1>5
  <2> QED  BY <1>2, <2>1
<1>6. CASE ~v.full /\ (v.blocked # NoBlk \/ Below(v.space, g) = {})
  <2>1. f = [space |-> v.space, d |-> g, isblocked |-> v.blocked # NoBlk,
             blocked |-> v.blocked, yield |-> v.yield]
    BY <1>4, <1>6 DEF g
  <2>2. f.space = v.space /\ f.d = g /\ f.blocked = v.blocked /\ f.yield = v.yield
        /\ f.isblocked = (v.blocked # NoBlk)
    BY <2>1
  <2>3. ASSUME ~f.isblocked PROVE Clear(f.space, f.d, p, n)
    <3>1. v.blocked = NoBlk /\ Below(v.space, g) = {}  BY <1>6, <2>2, <2>3
    <3>2. ASSUME NEW b \in InUse(v.space), Related(v.space.name[b], n)
          PROVE  v.space.owner[b] \in {NoProc, p}
      <4>1. v.space.name[g] = n /\ b \in Blk  BY <1>3, <1>6 DEF InUse, g
      <4>2. v.space.name[b] \in Path[n] \/ n \in Path[v.space.name[b]]  BY <3>2 DEF Related
      <4>3. CASE v.space.name[b] \in Path[n]  BY <1>2, <3>1, <4>3
      <4>4. CASE n \in Path[v.space.name[b]]
        <5>1. b = g  BY <3>1, <4>1, <4>4 DEF Below
        <5> QED  BY <1>2, <3>1, <4>1, <5>1, PathAssumption
      <4> QED  BY <4>2, <4>3, <4>4
    <3> QED  BY <1>3, <1>6, <2>2, <3>2 DEF Clear, g
  <2> QED  BY <1>2, <1>3, <1>6, <2>2, <2>3 DEF g
<1>7. CASE ~v.full /\ v.blocked = NoBlk /\ Below(v.space, g) # {}
  <2>1. PICK r \in mlk_find_blocking_child_lock(v.space, p, g, live) :
          f = [space |-> r.space, d |-> g, isblocked |-> r.blocked # NoBlk,
               blocked |-> r.blocked, yield |-> NoProc]
    BY <1>4, <1>7 DEF g
  <2>2. g \in Blk /\ v.space.name[g] = n  BY <1>3, <1>7 DEF g
  <2>3. /\ r.space \in Space /\ Weaker(r.space, v.space) /\ r.space.name = v.space.name
        /\ r.blocked \in Blk \cup {NoBlk}
        /\ r.blocked = NoBlk => \A b \in Below(v.space, g) : r.space.owner[b] \in {NoProc, p}
    BY <1>2, <2>1, <2>2, ChildLockType
  <2>4. f.space = r.space /\ f.d = g /\ f.blocked = r.blocked /\ f.yield = NoProc
        /\ f.isblocked = (r.blocked # NoBlk)
    BY <2>1
  <2>5. ASSUME ~f.isblocked PROVE Clear(f.space, f.d, p, n)
    <3>1. r.blocked = NoBlk  BY <2>4, <2>5
    <3>2. ASSUME NEW b \in InUse(r.space), Related(r.space.name[b], n), r.space.owner[b] # NoProc
          PROVE  r.space.owner[b] = p
      <4>1. b \in InUse(v.space) /\ b \in Blk /\ v.space.owner[b] = r.space.owner[b]
        BY <2>3, <3>2 DEF InUse, Weaker
      <4>2. v.space.name[b] \in Path[n] \/ n \in Path[v.space.name[b]]
        BY <2>3, <3>2 DEF Related
      <4>3. CASE v.space.name[b] \in Path[n]  BY <1>2, <1>7, <3>2, <4>1, <4>3
      <4>4. CASE n \in Path[v.space.name[b]]
        <5>1. CASE b = g  BY <1>2, <1>7, <2>2, <3>2, <4>1, <5>1, PathAssumption
        <5>2. CASE b # g
          <6>1. b \in Below(v.space, g)  BY <2>2, <4>1, <4>4, <5>2 DEF Below
          <6> QED  BY <2>3, <3>1, <3>2, <6>1
        <5> QED  BY <5>1, <5>2
      <4> QED  BY <4>2, <4>3, <4>4
    <3> QED  BY <2>2, <2>3, <2>4, <3>2 DEF Clear
  <2>6. f.yield \in YieldPid  BY <2>4 DEF YieldPid
  <2>7. Weaker(f.space, s)  BY <1>2, <2>3, <2>4, WeakerTrans
  <2> QED  BY <2>2, <2>3, <2>4, <2>5, <2>6, <2>7
<1> QED  BY <1>2, <1>5, <1>6, <1>7

(* Granting d to p after such a search keeps one owner on every branch. *)
LEMMA GrantType ==
  ASSUME NEW s \in Space, NEW p \in Proc, NEW d \in Blk
  PROVE  /\ Grant(s, d, p) \in Space
         /\ Grant(s, d, p).name = s.name
         /\ Grant(s, d, p).owner = [s.owner EXCEPT ![d] = p]
<1> DEFINE t == [s EXCEPT !.owner[d] = p]
<1>1. t \in Space /\ t.name = s.name /\ t.owner = [s.owner EXCEPT ![d] = p]
  BY DEF Space, ProcOrNone
<1> HIDE DEF t
<1>2. Grant(s, d, p) = NewSequence(t, {d})  BY DEF Grant, t
<1> QED  BY <1>1, <1>2, NewSequenceType

LEMMA GrantKeeps ==
  ASSUME NEW s \in Space, NEW t \in Space, NEW p \in Proc, NEW d, NEW n \in Name,
         Clear(s, d, p, n), OneOwnerPerBranch(s),
         t.name = s.name, t.owner = [s.owner EXCEPT ![d] = p]
  PROVE  OneOwnerPerBranch(t)
<1> SUFFICES ASSUME NEW a \in InUse(t), NEW b \in InUse(t),
                    t.owner[a] # NoProc, t.owner[b] # NoProc, Related(t.name[a], t.name[b])
             PROVE  t.owner[a] = t.owner[b]
  BY DEF OneOwnerPerBranch
<1>1. /\ a \in Blk /\ b \in Blk /\ InUse(t) = InUse(s) /\ a \in InUse(s) /\ b \in InUse(s)
      /\ d \in Blk /\ s.name[d] = n /\ s.owner \in [Blk -> ProcOrNone]
  BY DEF InUse, Clear, Space
<1>2. \A c \in InUse(s) : Related(s.name[c], n) => s.owner[c] \in {NoProc, p}  BY DEF Clear
<1>3. \A x, z : Related(x, z) => Related(z, x)  BY DEF Related
<1>4. CASE a # d /\ b # d  BY <1>1, <1>4 DEF OneOwnerPerBranch
<1>5. CASE a = d
  <2>1. t.owner[a] = p  BY <1>1, <1>5
  <2>2. b # d => t.owner[b] = p  BY <1>1, <1>2, <1>3, <1>5
  <2> QED  BY <1>5, <2>1, <2>2
<1>6. CASE b = d
  <2>1. t.owner[b] = p  BY <1>1, <1>6
  <2>2. a # d => t.owner[a] = p  BY <1>1, <1>2, <1>3, <1>6
  <2> QED  BY <1>6, <2>1, <2>2
<1> QED  BY <1>4, <1>5, <1>6

LEMMA TakeSequenceType ==
  ASSUME NEW s \in Space
  PROVE  /\ TakeSequence(s) \in Space
         /\ TakeSequence(s).name = s.name /\ TakeSequence(s).owner = s.owner
         /\ TakeSequence(s).sequence = s.sequence /\ TakeSequence(s).pending = s.pending
<1>1. s.lock_sequence + 1 \in Int  BY SpaceAssumption DEF Space, Seqno
<1>2. (s.lock_sequence + 1) % SeqMod \in Seqno  BY <1>1, SeqnoMod
<1> QED  BY <1>2 DEF TakeSequence, Space

LEMMA CheckOwnType ==
  ASSUME NEW s \in Space, NEW e, NEW live
  PROVE  mlk_check_own(s, e, live) \in Space /\ Weaker(mlk_check_own(s, e, live), s)
<1> DEFINE t == ClearOwner(s, {e.blocked})
<1>1. t \in Space /\ Weaker(t, s)  BY ClearOwnerType DEF Weaker
<1>2. mlk_check_own(s, e, live) \in {s, TakeSequence(t)}  BY DEF mlk_check_own
<1> HIDE DEF t
<1>3. TakeSequence(t) \in Space /\ Weaker(TakeSequence(t), s)
  BY <1>1, TakeSequenceType DEF Weaker
<1> QED  BY <1>2, <1>3 DEF Weaker

LEMMA SubqueueType ==
  ASSUME NEW S, NEW q \in Seq(S), NEW K \in SUBSET (1 .. Len(q))
  PROVE  [k \in 1 .. Cardinality(K) |-> q[CHOOSE i \in K : Cardinality({j \in K : j <= i}) = k]]
           \in Seq(S)
<1> DEFINE m == Cardinality(K)
           at(k) == CHOOSE i \in K : Cardinality({j \in K : j <= i}) = k
           g == [k \in 1 .. m |-> q[at(k)]]
<1>1. Len(q) \in Nat  OBVIOUS
<1>2. m \in Nat
  <2>1. IsFiniteSet(1 .. Len(q))  BY <1>1, FS_Interval
  <2>2. IsFiniteSet(K)  BY <2>1, FS_Subset
  <2> QED  BY <2>2, FS_CardinalityType
<1>3. ASSUME NEW k \in 1 .. m PROVE at(k) \in 1 .. Len(q)
  <2>1. \E i \in K : Cardinality({j \in K : j <= i}) = k  BY <1>1, RankExists
  <2>2. at(k) \in K  BY <2>1
  <2> HIDE DEF at
  <2> QED  BY <2>2
<1> HIDE DEF at, m
<1>4. \A k \in 1 .. m : q[at(k)] \in S  BY <1>3
<1>5. g \in [1 .. m -> S]  BY <1>4
<1> HIDE DEF g
<1>6. g \in Seq(S)  BY <1>2, <1>5, SeqDef
<1> QED  BY <1>6 DEF g, at, m

(* The lock space in the middle of clean_pids: dead owners cleared and dead  *)
(* waiters dropped, nothing renumbered or freed yet.                        *)
CleanedQueues(s, dead) ==
  LET drop(b)  == {i \in 1 .. Len(s.pending[b]) - 1 : s.pending[b][i].process_id \in dead}
      keep(b)  == DOMAIN s.pending[b] \ drop(b)
      kept(b)  == [k \in 1 .. Cardinality(keep(b)) |->
                     s.pending[b][CHOOSE i \in keep(b) : Cardinality({j \in keep(b) : j <= i}) = k]]
      freed    == UNION {{b} \X drop(b) : b \in InUse(s)}
      cleared  == ClearOwner(s, {b \in InUse(s) : s.owner[b] \in dead})
  IN [cleared EXCEPT !.pending = [b \in Blk |-> kept(b)], !.prccnt = @ + Cardinality(freed)]

LEMMA CleanedQueuesType ==
  ASSUME NEW s \in Space, NEW dead
  PROVE  /\ CleanedQueues(s, dead) \in Space
         /\ CleanedQueues(s, dead).name = s.name
         /\ CleanedQueues(s, dead).sequence = s.sequence
         /\ \A b \in Blk : CleanedQueues(s, dead).owner[b]
              = IF b \in InUse(s) /\ s.owner[b] \in dead THEN NoProc ELSE s.owner[b]
         /\ \A b \in Blk : s.pending[b] = <<>> => CleanedQueues(s, dead).pending[b] = <<>>
<1> DEFINE drop(b)  == {i \in 1 .. Len(s.pending[b]) - 1 : s.pending[b][i].process_id \in dead}
           keep(b)  == DOMAIN s.pending[b] \ drop(b)
           kept(b)  == [k \in 1 .. Cardinality(keep(b)) |->
              s.pending[b][CHOOSE i \in keep(b) : Cardinality({j \in keep(b) : j <= i}) = k]]
           freed    == UNION {{b} \X drop(b) : b \in InUse(s)}
           cleared  == ClearOwner(s, {b \in InUse(s) : s.owner[b] \in dead})
           pend     == [b \in Blk |-> kept(b)]
           queues   == [cleared EXCEPT !.pending = pend, !.prccnt = @ + Cardinality(freed)]
           C        == {b \in InUse(s) : s.owner[b] \in dead}
<1>1. CleanedQueues(s, dead) = queues  BY DEF CleanedQueues
<1>2. pend \in [Blk -> Seq(Prcblk)]
  <2> SUFFICES ASSUME NEW b \in Blk PROVE kept(b) \in Seq(Prcblk)
    OBVIOUS
  <2>1. PICK q \in Seq(Prcblk) : q = s.pending[b]  BY DEF Space
  <2>2. keep(b) \in SUBSET (1 .. Len(q)) /\ Len(q) \in Nat  BY <2>1
  <2>3. PICK K \in SUBSET (1 .. Len(q)) : K = keep(b)  BY <2>2
  <2>4. kept(b) = [k \in 1 .. Cardinality(K) |-> q[CHOOSE i \in K : Cardinality({j \in K : j <= i}) = k]]
    BY <2>1, <2>3
  <2> HIDE DEF keep, kept
  <2>5. [k \in 1 .. Cardinality(K) |-> q[CHOOSE i \in K : Cardinality({j \in K : j <= i}) = k]]
          \in Seq(Prcblk)
    BY SubqueueType, Zenon
  <2> QED  BY <2>4, <2>5, Zenon
<1>3. /\ cleared \in Space /\ cleared.name = s.name /\ cleared.sequence = s.sequence
      /\ \A b \in Blk : cleared.owner[b] = IF b \in C THEN NoProc ELSE s.owner[b]
  <2> HIDE DEF C
  <2> QED  BY ClearOwnerType DEF C
<1>4. Cardinality(freed) \in Int
  <2> DEFINE F == [b \in InUse(s) |-> {b} \X drop(b)]
             T == {{b} \X drop(b) : b \in InUse(s)}
  <2>1. IsFiniteSet(InUse(s))  BY BlkFinite DEF InUse
  <2>2. ASSUME NEW b \in InUse(s) PROVE IsFiniteSet({b} \X drop(b))
    <3>1. s.pending[b] \in Seq(Prcblk)  BY DEF Space, InUse
    <3>2. Len(s.pending[b]) - 1 \in Int  BY <3>1
    <3>3. IsFiniteSet(1 .. Len(s.pending[b]) - 1)  BY <3>2, FS_Interval
    <3>4. IsFiniteSet(drop(b))  BY <3>3, FS_Subset
    <3>5. IsFiniteSet({b})  BY FS_Singleton
    <3> HIDE DEF drop
    <3> QED  BY <3>4, <3>5, FS_Product
  <2>3. F \in Surjection(InUse(s), T)
    <3> HIDE DEF drop
    <3> QED  BY DEF Surjection
  <2>4. IsFiniteSet(T)
    <3> HIDE DEF F, T
    <3> QED  BY <2>1, <2>3, FS_Surjection
  <2>5. \A U \in T : IsFiniteSet(U)
    <3> HIDE DEF drop
    <3> QED  BY <2>2
  <2>6. IsFiniteSet(freed)
    <3> HIDE DEF drop
    <3> QED  BY <2>4, <2>5, FS_UNION
  <2>7. Cardinality(freed) \in Nat
    <3> HIDE DEF freed
    <3> QED  BY <2>6, FS_CardinalityType
  <2> HIDE DEF freed
  <2> QED  BY <2>7
<1>5. ASSUME NEW b \in Blk, s.pending[b] = <<>> PROVE pend[b] = <<>>
  <2>1. DOMAIN s.pending[b] = {}  BY <1>5
  <2>2. keep(b) = {}  BY <2>1
  <2>3. Cardinality(keep(b)) = 0
    <3> HIDE DEF keep
    <3> QED  BY <2>2, FS_EmptySet
  <2>4. pend[b] = kept(b)  OBVIOUS
  <2> HIDE DEF keep
  <2>5. pend[b] \in Seq(Prcblk) /\ DOMAIN pend[b] = 1 .. 0
    <3>1. DOMAIN kept(b) = 1 .. 0  BY <2>3
    <3> HIDE DEF kept
    <3>2. pend[b] \in Seq(Prcblk)
      <4> HIDE DEF pend
      <4> QED  BY <1>2
    <3> HIDE DEF pend
    <3> QED  BY <2>4, <3>1, <3>2
  <2> HIDE DEF pend
  <2>6. PICK q : q = pend[b]  OBVIOUS
  <2>7. Len(q) \in Nat /\ 1 .. Len(q) = 1 .. 0  BY <2>5, <2>6, LenProperties
  <2>8. Len(q) = 0
    <3>1. SUFFICES ASSUME Len(q) >= 1 PROVE FALSE  BY <2>7
    <3>2. 1 \in 1 .. Len(q) /\ 1 \notin 1 .. 0  BY <2>7, <3>1
    <3> QED  BY <2>7, <3>2
  <2> QED  BY <2>5, <2>6, <2>8, EmptySeq
<1> HIDE DEF freed, pend, cleared
<1>6. cleared.prccnt + Cardinality(freed) \in Int  BY <1>3, <1>4 DEF Space
<1>7. /\ queues \in Space /\ queues.owner = cleared.owner /\ queues.name = cleared.name
      /\ queues.sequence = cleared.sequence /\ queues.pending = pend
  BY <1>2, <1>3, <1>6 DEF Space
<1> HIDE DEF queues
<1> QED  BY <1>1, <1>3, <1>5, <1>7

LEMMA CleanPidsType ==
  ASSUME NEW s \in Space, NEW dead
  PROVE  clean_pids(s, dead) \in Space /\ Weaker(clean_pids(s, dead), s)
<1> DEFINE queues == CleanedQueues(s, dead)
           R == {b \in InUse(s) : queues.owner[b] = NoProc}
           renumbered == NewSequence(queues, R)
           D == Deletable(renumbered, InUse(s))
<1>1. clean_pids(s, dead) = FreeNodes(renumbered, D)  BY DEF clean_pids, CleanedQueues
<1>2. queues \in Space /\ Weaker(queues, s)  BY CleanedQueuesType DEF Weaker
<1>3. R \subseteq Blk  BY DEF InUse
<1> HIDE DEF queues, R
<1>4. renumbered \in Space /\ Weaker(renumbered, queues)
  BY <1>2, <1>3, NewSequenceType DEF Weaker
<1> HIDE DEF renumbered, D
<1>5. FreeNodes(renumbered, D) \in Space /\ Weaker(FreeNodes(renumbered, D), renumbered)
  BY <1>4, FreeNodesType DEF Weaker
<1> QED  BY <1>1, <1>2, <1>4, <1>5, WeakerTrans

-----------------------------------------------------------------------------
(* What the operators leave alone *)

(* The nodes form a tree with one node per name, and a free shrblk is empty. *)
UniqueNames(s) == \A a, b \in InUse(s) : s.name[a] = s.name[b] => a = b
PathsClosed(s) == \A b \in InUse(s) : \A m \in Path[s.name[b]] : \E c \in InUse(s) : s.name[c] = m
FreeVacant(s)  == \A b \in Free(s) : Vacant(s, b)

Sound(s) == s \in Space /\ UniqueNames(s) /\ PathsClosed(s) /\ FreeVacant(s)

(* No node changes its name, its owner or its sequence number. *)
SameLocks(t, s) == t.name = s.name /\ t.owner = s.owner /\ t.sequence = s.sequence

(* Outside of D, what a process of L owns in s it owns in t, under the same  *)
(* name and sequence number.                                                *)
Spares(t, s, L, D) ==
  \A b \in Blk \ D : s.owner[b] \in L =>
    t.owner[b] = s.owner[b] /\ t.name[b] = s.name[b] /\ t.sequence[b] = s.sequence[b]

LEMMA SparesTrans ==
  ASSUME NEW r, NEW s, NEW t, NEW L, NEW D, Spares(s, r, L, D), Spares(t, s, L, D)
  PROVE  Spares(t, r, L, D)
BY DEF Spares

LEMMA SparesFewer ==
  ASSUME NEW s, NEW t, NEW L, NEW D, NEW M, NEW E, M \subseteq L, D \subseteq E, Spares(t, s, L, D)
  PROVE  Spares(t, s, M, E)
BY DEF Spares

LEMMA SparesSame ==
  ASSUME NEW s, NEW t, NEW L, NEW D, SameLocks(t, s)
  PROVE  Spares(t, s, L, D) /\ Weaker(t, s)
BY DEF Spares, Weaker, SameLocks

LEMMA BlkSplit ==
  ASSUME NEW s \in Space, NEW b \in Blk
  PROVE  b \in InUse(s) <=> b \notin Free(s)
BY NullAssumption DEF Space, NameOrNone, InUse, Free

LEMMA OwnedInUse ==
  ASSUME NEW s, Sound(s), NEW b \in Blk, s.owner[b] # NoProc
  PROVE  b \in InUse(s)
BY BlkSplit DEF Sound, FreeVacant, Vacant

(* Operators that change no name keep the tree. *)
LEMMA SoundKeeps ==
  ASSUME NEW s, Sound(s), NEW t \in Space, t.name = s.name,
         \A b \in Free(s) : Vacant(t, b)
  PROVE  Sound(t)
<1>1. InUse(t) = InUse(s) /\ Free(t) = Free(s)  BY DEF InUse, Free
<1> QED  BY <1>1 DEF Sound, UniqueNames, PathsClosed, FreeVacant

LEMMA NewSequenceFrame ==
  ASSUME NEW s, Sound(s), NEW S \in SUBSET Blk
  PROVE  /\ Sound(NewSequence(s, S))
         /\ \A b \in Blk \ S : NewSequence(s, S).sequence[b] = s.sequence[b]
<1>1. PICK t : t = NewSequence(s, S)  OBVIOUS
<1>2. t \in Space /\ t.name = s.name /\ t.owner = s.owner /\ t.pending = s.pending
  BY <1>1, NewSequenceType DEF Sound
<1>3. Sound(t)  BY <1>2, SoundKeeps DEF Sound, FreeVacant, Vacant
<1>4. \A b \in Blk \ S : t.sequence[b] = s.sequence[b]
  <2>1. s \in Space  BY DEF Sound
  <2>2. t.sequence = [b \in Blk |->
        IF b \in S THEN (s.lock_sequence + Cardinality({c \in S : c < b})) % SeqMod
                   ELSE s.sequence[b]]
    BY <1>1, <2>1 DEF NewSequence, Space
  <2> QED  BY <2>2
<1> QED  BY <1>1, <1>3, <1>4

LEMMA ClearOwnerFrame ==
  ASSUME NEW s, Sound(s), NEW S
  PROVE  /\ Sound(ClearOwner(s, S))
         /\ Spares(ClearOwner(s, S), s, Proc, S)
<1>1. PICK t : t = ClearOwner(s, S)  OBVIOUS
<1>2. /\ t \in Space /\ t.name = s.name /\ t.pending = s.pending /\ t.sequence = s.sequence
      /\ \A b \in Blk : t.owner[b] = IF b \in S THEN NoProc ELSE s.owner[b]
  BY <1>1, ClearOwnerType DEF Sound
<1>3. \A b \in Free(s) : b \in Blk /\ Vacant(s, b)  BY DEF Sound, FreeVacant, Free
<1>4. \A b \in Free(s) : Vacant(t, b)  BY <1>2, <1>3 DEF Vacant
<1>5. Sound(t)  BY <1>2, <1>4, SoundKeeps
<1> QED  BY <1>1, <1>2, <1>5 DEF Spares

(* Waking the waiters of unowned nodes renumbers these nodes only. *)
LEMMA WakeFrame ==
  ASSUME NEW s, Sound(s), NEW W \in SUBSET InUse(s), NEW live
  PROVE  /\ Sound(mlk_wake_pending(s, W, live))
         /\ mlk_wake_pending(s, W, live).name = s.name
         /\ mlk_wake_pending(s, W, live).owner = s.owner
         /\ \A b \in Blk \ W : /\ mlk_wake_pending(s, W, live).sequence[b] = s.sequence[b]
                               /\ mlk_wake_pending(s, W, live).pending[b] = s.pending[b]
<1> DEFINE gone(b) == Cardinality(Gone(s.pending[b], live))
           freed   == {bi \in W \X (1 .. max_prccnt) : bi[2] <= gone(bi[1])}
           pend    == [b \in Blk |->
             IF b \in W THEN SubSeq(s.pending[b], gone(b) + 1, Len(s.pending[b])) ELSE s.pending[b]]
           n       == NewSequence(s, W)
           t       == mlk_wake_pending(s, W, live)
<1>1. W \subseteq Blk /\ s \in Space  BY DEF InUse, Sound
<1>2. t \in Space /\ t.name = s.name /\ t.owner = s.owner  BY <1>1, WakeType
<1>3. n \in Space /\ \A b \in Blk \ W : n.sequence[b] = s.sequence[b]
  BY <1>1, NewSequenceType, NewSequenceFrame
<1>4. t = [n EXCEPT !.pending = pend, !.prccnt = s.prccnt + Cardinality(freed)]
  BY DEF mlk_wake_pending
<1>5. \A b \in Blk \ W : pend[b] = s.pending[b]  OBVIOUS
<1> HIDE DEF n, pend, freed
<1>6. t.sequence = n.sequence /\ t.pending = pend  BY <1>3, <1>4 DEF Space
<1>7. \A b \in Blk \ W : t.sequence[b] = s.sequence[b] /\ t.pending[b] = s.pending[b]
  BY <1>3, <1>5, <1>6
<1> HIDE DEF t
<1>8. \A b \in Free(s) : b \in Blk \ W /\ Vacant(s, b)
  BY <1>1, BlkSplit DEF Sound, FreeVacant, Free
<1>9. \A b \in Free(s) : Vacant(t, b)  BY <1>2, <1>7, <1>8 DEF Vacant
<1>10. Sound(t)  BY <1>2, <1>9, SoundKeeps
<1> QED  BY <1>2, <1>7, <1>10 DEF t

LEMMA WakeSpares ==
  ASSUME NEW s, Sound(s), NEW W \in SUBSET InUse(s), NEW live, \A b \in W : s.owner[b] = NoProc
  PROVE  Spares(mlk_wake_pending(s, W, live), s, Proc, {})
<1>1. PICK t : t = mlk_wake_pending(s, W, live)  OBVIOUS
<1>2. t.name = s.name /\ t.owner = s.owner /\ \A b \in Blk \ W : t.sequence[b] = s.sequence[b]
  BY <1>1, WakeFrame
<1> QED  BY <1>1, <1>2, NullAssumption DEF Spares

-----------------------------------------------------------------------------
(* Freeing and creating nodes *)

(* A node goes only with everything below it, so that no path is cut. *)
LEMMA DeletableBelow ==
  ASSUME NEW s, Sound(s), NEW t \in Space, t.name = s.name, NEW S,
         NEW b \in InUse(s), NEW c \in InUse(s), s.name[c] \in Path[s.name[b]],
         c \in Deletable(t, S)
  PROVE  b \in Deletable(t, S)
<1>1. InUse(t) = InUse(s)  BY DEF InUse
<1>2. CASE b = c  BY <1>2
<1>3. CASE b # c
  <2>1. b \in Below(t, c)  BY <1>1, <1>3 DEF Below
  <2>2. ASSUME NEW x \in Below(t, b) PROVE x \in Below(t, c)
    <3>1. x \in InUse(s) /\ x # b /\ s.name[b] \in Path[s.name[x]]  BY <1>1, <2>2 DEF Below
    <3>2. s.name[x] \in Name /\ s.name[b] \in Name /\ s.name[c] \in Name  BY <3>1 DEF InUse
    <3>3. s.name[c] \in Path[s.name[x]]  BY <3>1, <3>2, PathAssumption
    <3>4. x # c
      <4>1. SUFFICES ASSUME x = c PROVE FALSE  OBVIOUS
      <4>2. s.name[b] \in Path[s.name[c]]  BY <3>1, <4>1
      <4>3. s.name[b] = s.name[c]  BY <3>2, <4>2, PathAssumption
      <4> QED  BY <1>3, <4>3 DEF Sound, UniqueNames
    <3> QED  BY <1>1, <3>1, <3>3, <3>4 DEF Below
  <2>3. Below(t, c) \subseteq S /\ \A x \in {c} \cup Below(t, c) : Vacant(t, x)  BY DEF Deletable
  <2> QED  BY <2>1, <2>2, <2>3 DEF Deletable
<1> QED  BY <1>2, <1>3

LEMMA FreeNodesFrame ==
  ASSUME NEW s, Sound(s), NEW t \in Space, t.name = s.name, t.owner = s.owner, NEW S \in SUBSET Blk
  PROVE  /\ Sound(FreeNodes(s, Deletable(t, S)))
         /\ Spares(FreeNodes(s, Deletable(t, S)), s, Proc, {})
<1> DEFINE D == Deletable(t, S)
<1>1. PICK u : u = FreeNodes(s, D)  OBVIOUS
<1>2. s \in Space  BY DEF Sound
<1>3. /\ u \in Space
      /\ \A b \in Blk : u.owner[b] = IF b \in D THEN NoProc ELSE s.owner[b]
      /\ \A b \in Blk : u.name[b] = IF b \in D THEN NoName ELSE s.name[b]
  BY <1>1, <1>2, FreeNodesType
<1>4. /\ \A b \in Blk \ D : u.sequence[b] = s.sequence[b] /\ u.pending[b] = s.pending[b]
      /\ \A b \in Blk : b \in D => u.pending[b] = <<>>
  BY <1>1, <1>2 DEF FreeNodes, Space
<1>5. \A b \in D : s.owner[b] = NoProc  BY DEF Deletable, Vacant
<1>6. ASSUME NEW b \in InUse(s), NEW c \in InUse(s), s.name[c] \in Path[s.name[b]], c \in D
      PROVE  b \in D
  BY <1>6, DeletableBelow
<1> HIDE DEF D
<1>7. InUse(u) = InUse(s) \ D
  BY <1>3, NullAssumption DEF InUse
<1>8. UniqueNames(u)  BY <1>3, <1>7 DEF UniqueNames, Sound, InUse
<1>9. PathsClosed(u)
  <2> SUFFICES ASSUME NEW b \in InUse(u), NEW m \in Path[u.name[b]]
               PROVE  \E c \in InUse(u) : u.name[c] = m
    BY DEF PathsClosed
  <2>1. b \in InUse(s) /\ b \notin D /\ u.name[b] = s.name[b]  BY <1>3, <1>7 DEF InUse
  <2>2. PICK c \in InUse(s) : s.name[c] = m  BY <2>1 DEF Sound, PathsClosed
  <2>3. c \notin D  BY <1>6, <2>1, <2>2
  <2> QED  BY <1>3, <1>7, <2>2, <2>3 DEF InUse
<1>10. FreeVacant(u)
  <2> SUFFICES ASSUME NEW b \in Free(u) PROVE Vacant(u, b)
    BY DEF FreeVacant
  <2>1. b \in Blk  BY DEF Free
  <2>2. CASE b \in D  BY <1>3, <1>4, <2>1, <2>2 DEF Vacant
  <2>3. CASE b \notin D
    <3>1. b \in Free(s)  BY <1>3, <2>1, <2>3 DEF Free
    <3>2. Vacant(s, b)  BY <3>1 DEF Sound, FreeVacant
    <3> QED  BY <1>3, <1>4, <2>1, <2>3, <3>2 DEF Vacant
  <2> QED  BY <2>2, <2>3
<1>11. Spares(u, s, Proc, {})  BY <1>3, <1>4, <1>5, NullAssumption DEF Spares
<1> QED  BY <1>1, <1>3, <1>8, <1>9, <1>10, <1>11 DEF Sound, D

(* The missing names of a path get free shrblks, one each. *)
LEMMA CreateFrame ==
  ASSUME NEW s, Sound(s), NEW n \in Name,
         ~(Cardinality(Missing(s, n)) > Cardinality(Free(s)))
  PROVE  /\ Sound(mlk_shrblk_create(s, n))
         /\ Spares(mlk_shrblk_create(s, n), s, Proc, {})
<1> DEFINE missing == Missing(s, n)
           place   == CHOOSE f \in Injection(missing, Free(s)) : TRUE
           fresh   == {b \in Free(s) : \E m \in missing : place[m] = b}
           nm      == [b \in Blk |-> IF b \in fresh THEN CHOOSE m \in missing : place[m] = b ELSE s.name[b]]
           ow      == [b \in Blk |-> IF b \in fresh THEN NoProc ELSE s.owner[b]]
           sq      == [b \in Blk |-> IF b \in fresh THEN 0 ELSE s.sequence[b]]
           pd      == [b \in Blk |-> IF b \in fresh THEN <<>> ELSE s.pending[b]]
           t       == mlk_shrblk_create(s, n)
<1>1. s \in Space /\ t \in Space  BY CreateType DEF Sound
<1>2. t = [s EXCEPT !.name = nm, !.owner = ow, !.sequence = sq, !.pending = pd]
  BY DEF mlk_shrblk_create
<1>3. place \in Injection(missing, Free(s))
  <2>1. IsFiniteSet(missing) /\ IsFiniteSet(Free(s))
    BY PathAssumption, FS_Subset, BlkFinite DEF Missing, Free
  <2>2. Cardinality(missing) \in Nat /\ Cardinality(Free(s)) \in Nat
    BY <2>1, FS_CardinalityType
  <2> QED  BY <2>1, <2>2, InjectionExists
<1>4. missing \subseteq Path[n] /\ missing \subseteq Name /\ \A m \in missing : \A b \in InUse(s) : s.name[b] # m
  BY PathAssumption DEF Missing
<1>5. \A m \in Path[n] \ missing : \E c \in InUse(s) : s.name[c] = m  BY DEF Missing
<1> HIDE DEF missing, place
<1>6. \A b \in fresh : nm[b] \in missing /\ place[nm[b]] = b  BY DEF Free
<1>7. ASSUME NEW m \in missing PROVE place[m] \in fresh /\ nm[place[m]] = m
  <2>1. place[m] \in Free(s) /\ \A k \in missing : place[k] = place[m] => k = m
    BY <1>3 DEF Injection, IsInjective
  <2>2. place[m] \in fresh  BY <2>1
  <2>3. nm[place[m]] \in missing /\ place[nm[place[m]]] = place[m]  BY <1>6, <2>2
  <2> QED  BY <2>1, <2>2, <2>3
<1>8. /\ \A b \in Blk \ fresh : /\ nm[b] = s.name[b] /\ ow[b] = s.owner[b]
                               /\ sq[b] = s.sequence[b] /\ pd[b] = s.pending[b]
      /\ \A b \in fresh : b \in Blk /\ b \in Free(s) /\ ow[b] = NoProc /\ pd[b] = <<>>
  BY DEF Free
<1> HIDE DEF fresh, nm, ow, sq, pd
<1>9. t.name = nm /\ t.owner = ow /\ t.sequence = sq /\ t.pending = pd
  BY <1>1, <1>2 DEF Space
<1> HIDE DEF t
<1>10. \A b \in InUse(s) : b \in Blk \ fresh  BY <1>1, <1>8, BlkSplit DEF InUse
<1>11. InUse(t) = InUse(s) \cup fresh
  <2>1. ASSUME NEW b \in fresh PROVE b \in InUse(t)
    BY <1>4, <1>6, <1>8, <1>9, <2>1 DEF InUse
  <2>2. ASSUME NEW b \in InUse(s) PROVE b \in InUse(t)
    BY <1>8, <1>9, <1>10, <2>2 DEF InUse
  <2>3. ASSUME NEW b \in InUse(t), b \notin fresh PROVE b \in InUse(s)
    BY <1>8, <1>9, <2>3 DEF InUse
  <2> QED  BY <2>1, <2>2, <2>3
<1>12. UniqueNames(t)
  <2> SUFFICES ASSUME NEW a \in InUse(t), NEW b \in InUse(t), t.name[a] = t.name[b] PROVE a = b
    BY DEF UniqueNames
  <2>1. CASE a \in fresh /\ b \in fresh  BY <1>6, <1>9, <2>1
  <2>2. CASE a \notin fresh /\ b \notin fresh
    BY <1>8, <1>9, <1>10, <1>11, <2>2 DEF Sound, UniqueNames
  <2>3. CASE a \in fresh /\ b \notin fresh
    BY <1>4, <1>6, <1>8, <1>9, <1>10, <1>11, <2>3
  <2>4. CASE a \notin fresh /\ b \in fresh
    BY <1>4, <1>6, <1>8, <1>9, <1>10, <1>11, <2>4
  <2> QED  BY <2>1, <2>2, <2>3, <2>4
<1>13. PathsClosed(t)
  <2> SUFFICES ASSUME NEW b \in InUse(t), NEW m \in Path[t.name[b]]
               PROVE  \E c \in InUse(t) : t.name[c] = m
    BY DEF PathsClosed
  <2>1. CASE b \in fresh
    <3>1. t.name[b] \in Path[n]  BY <1>4, <1>6, <1>9, <2>1
    <3>2. m \in Path[n]  BY <3>1, PathAssumption
    <3>3. CASE m \in missing  BY <1>7, <1>9, <1>11, <3>3
    <3>4. CASE m \notin missing
      <4>1. PICK c \in InUse(s) : s.name[c] = m  BY <1>5, <3>2, <3>4
      <4> QED  BY <1>8, <1>9, <1>10, <1>11, <4>1
    <3> QED  BY <3>3, <3>4
  <2>2. CASE b \notin fresh
    <3>1. b \in InUse(s) /\ t.name[b] = s.name[b]  BY <1>8, <1>9, <1>10, <1>11, <2>2
    <3>2. PICK c \in InUse(s) : s.name[c] = m  BY <3>1 DEF Sound, PathsClosed
    <3> QED  BY <1>8, <1>9, <1>10, <1>11, <3>2
  <2> QED  BY <2>1, <2>2
<1>14. FreeVacant(t)
  <2> SUFFICES ASSUME NEW b \in Free(t) PROVE Vacant(t, b)
    BY DEF FreeVacant
  <2>1. b \in Blk /\ b \notin InUse(t)  BY <1>1, BlkSplit DEF Free
  <2>2. b \in Blk \ fresh /\ b \in Free(s)  BY <1>1, <1>11, <2>1, BlkSplit
  <2>3. Vacant(s, b)  BY <2>2 DEF Sound, FreeVacant
  <2> QED  BY <1>8, <1>9, <2>2, <2>3 DEF Vacant
<1>15. Spares(t, s, Proc, {})
  <2> SUFFICES ASSUME NEW b \in Blk, s.owner[b] \in Proc
               PROVE  t.owner[b] = s.owner[b] /\ t.name[b] = s.name[b] /\ t.sequence[b] = s.sequence[b]
    BY DEF Spares
  <2>1. b \in InUse(s)  BY OwnedInUse, NullAssumption
  <2> QED  BY <1>8, <1>9, <1>10, <2>1
<1> QED  BY <1>1, <1>12, <1>13, <1>14, <1>15 DEF Sound, t

(* A name that has a node needs no further one. *)
LEMMA NothingMissing ==
  ASSUME NEW s, Sound(s), NEW n \in Name, NEW b \in InUse(s), s.name[b] = n
  PROVE  ~(Cardinality(Missing(s, n)) > Cardinality(Free(s)))
<1>1. Missing(s, n) = {}  BY DEF Missing, Sound, PathsClosed
<1>2. Cardinality(Missing(s, n)) = 0  BY <1>1, FS_EmptySet
<1>3. Cardinality(Free(s)) \in Nat  BY BlkFinite DEF Free
<1> QED  BY <1>2, <1>3

-----------------------------------------------------------------------------
(* Unlocking, LKE CLEAR and garbage collection *)

LEMMA ReleaseFrame ==
  ASSUME NEW s, Sound(s), NEW d \in InUse(s), NEW live
  PROVE  /\ Sound(Release(s, d, live))
         /\ Spares(Release(s, d, live), s, Proc, {d})
         /\ Release(s, d, live).owner[d] = NoProc
<1> DEFINE s0 == ClearOwner(s, {d})
           s1 == NewSequence(s0, {d})
           chain   == OnPath(s1, s.name[d])
           below   == mlk_tree_wake_children(s1, d)
           above   == {b \in chain : Waiting(s1, b)}
           nearest == {b \in above : above \subseteq OnPath(s1, s1.name[b])}
           woken   == IF below # {} THEN below ELSE nearest
           s2 == mlk_wake_pending(s1, woken, live)
           S  == chain \cup Visited(s1, d)
<1>1. Release(s, d, live) = FreeNodes(s2, Deletable(s1, S))  BY DEF Release
<1>2. /\ woken \subseteq InUse(s1) /\ \A b \in woken : s1.owner[b] = NoProc
      /\ S \subseteq Blk /\ d \in Blk
  <2>1. below \subseteq InUse(s1) /\ \A b \in below : s1.owner[b] = NoProc
    BY DEF mlk_tree_wake_children, Visited, Below, Waiting
  <2>2. nearest \subseteq InUse(s1) /\ \A b \in nearest : s1.owner[b] = NoProc
    BY DEF OnPath, Waiting
  <2>3. S \subseteq Blk /\ d \in Blk  BY DEF OnPath, Visited, Below, InUse
  <2> QED  BY <2>1, <2>2, <2>3
<1> HIDE DEF woken, S
<1>3. /\ Sound(s0) /\ Spares(s0, s, Proc, {d}) /\ s0.owner[d] = NoProc
  BY <1>2, ClearOwnerFrame, ClearOwnerType DEF Sound
<1> HIDE DEF s0
<1>4. Sound(s1) /\ Spares(s1, s0, Proc, {d}) /\ s1.owner[d] = NoProc
  <2>1. {d} \in SUBSET Blk /\ s0 \in Space  BY <1>2, <1>3 DEF Sound
  <2>2. s1.name = s0.name /\ s1.owner = s0.owner /\ Sound(s1)
        /\ \A b \in Blk \ {d} : s1.sequence[b] = s0.sequence[b]
    BY <1>3, <2>1, NewSequenceType, NewSequenceFrame
  <2> QED  BY <1>3, <2>2 DEF Spares
<1> HIDE DEF s1
<1>5. Sound(s2) /\ s2.name = s1.name /\ s2.owner = s1.owner /\ Spares(s2, s1, Proc, {})
  BY <1>2, <1>4, WakeFrame, WakeSpares
<1> HIDE DEF s2
<1>6. PICK u : u = Release(s, d, live)  OBVIOUS
<1>7. Sound(u) /\ Spares(u, s2, Proc, {}) /\ Weaker(u, s2)
  <2>1. s1 \in Space /\ s2 \in Space  BY <1>4, <1>5 DEF Sound
  <2> QED  BY <1>1, <1>2, <1>5, <1>6, <2>1, FreeNodesFrame, FreeNodesType DEF Weaker
<1>8. u.owner[d] = NoProc  BY <1>2, <1>4, <1>5, <1>7 DEF Weaker
<1>9. Spares(u, s, Proc, {d})
  <2>1. Spares(s2, s1, Proc, {d}) /\ Spares(u, s2, Proc, {d})  BY <1>5, <1>7, SparesFewer
  <2> QED  BY <1>3, <1>4, <2>1, SparesTrans
<1> QED  BY <1>6, <1>7, <1>8, <1>9

LEMMA LkeCleartreeFrame ==
  ASSUME NEW s, Sound(s), NEW d \in InUse(s), s.owner[d] # NoProc, NEW live,
         NEW t \in lke_cleartree(s, d, live)
  PROVE  Sound(t) /\ Spares(t, s, Proc, {d}) /\ t.owner[d] = NoProc
<1>1. PICK S \in Passed(s, d) : t = lke_clearlock(FreeNodes(s, Deletable(s, S)), d, live)
  BY DEF lke_cleartree
<1> DEFINE r  == FreeNodes(s, Deletable(s, S))
           s0 == ClearOwner(r, {d})
           s1 == NewSequence(s0, {d})
           s2 == mlk_wake_pending(s1, {d}, live)
<1>2. d \in Blk /\ S \subseteq Blk /\ d \notin Deletable(s, S) /\ s \in Space
  BY DEF InUse, Passed, Deletable, Vacant, Sound
<1>3. Sound(r) /\ Spares(r, s, Proc, {}) /\ d \in InUse(r)
  <2>1. Sound(r) /\ Spares(r, s, Proc, {}) /\ r.name[d] = s.name[d]
    BY <1>2, FreeNodesFrame, FreeNodesType
  <2> HIDE DEF r
  <2> QED  BY <2>1 DEF InUse
<1>4. t \in {s1, s2}  BY <1>1 DEF lke_clearlock
<1> HIDE DEF r
<1>5. Sound(s0) /\ Spares(s0, r, Proc, {d}) /\ s0.owner[d] = NoProc /\ s0.name = r.name
  BY <1>2, <1>3, ClearOwnerFrame, ClearOwnerType DEF Sound
<1> HIDE DEF s0
<1>6. Sound(s1) /\ Spares(s1, s0, Proc, {d}) /\ s1.owner[d] = NoProc /\ d \in InUse(s1)
  <2>1. {d} \in SUBSET Blk /\ s0 \in Space  BY <1>2, <1>5 DEF Sound
  <2>2. s1.name = s0.name /\ s1.owner = s0.owner /\ Sound(s1)
        /\ \A b \in Blk \ {d} : s1.sequence[b] = s0.sequence[b]
    BY <1>5, <2>1, NewSequenceType, NewSequenceFrame
  <2> QED  BY <1>3, <1>5, <2>2 DEF Spares, InUse
<1> HIDE DEF s1
<1>7. Sound(s2) /\ Spares(s2, s1, Proc, {}) /\ s2.owner[d] = NoProc
  <2>1. {d} \in SUBSET InUse(s1)  BY <1>6
  <2> QED  BY <1>6, <2>1, WakeFrame, WakeSpares
<1> HIDE DEF s2
<1>8. Spares(r, s, Proc, {d}) /\ Spares(s2, s1, Proc, {d})  BY <1>3, <1>7, SparesFewer
<1>9. Spares(s1, s, Proc, {d})  BY <1>5, <1>6, <1>8, SparesTrans
<1>10. Spares(s2, s, Proc, {d})  BY <1>8, <1>9, SparesTrans
<1> QED  BY <1>4, <1>6, <1>7, <1>9, <1>10

LEMMA CleanFrame ==
  ASSUME NEW s, Sound(s), NEW dead, NEW live, live \subseteq Proc, dead \cap live = {}
  PROVE  /\ Sound(clean_pids(s, dead))
         /\ Spares(clean_pids(s, dead), s, live, {})
         /\ Weaker(clean_pids(s, dead), s)
<1> DEFINE queues == CleanedQueues(s, dead)
           R == {b \in InUse(s) : queues.owner[b] = NoProc}
           renumbered == NewSequence(queues, R)
           u == FreeNodes(renumbered, Deletable(renumbered, InUse(s)))
<1>1. clean_pids(s, dead) = u  BY DEF clean_pids, CleanedQueues
<1>2. s \in Space  BY DEF Sound
<1>3. /\ queues \in Space /\ queues.name = s.name /\ queues.sequence = s.sequence
      /\ \A b \in Blk : queues.owner[b] = IF b \in InUse(s) /\ s.owner[b] \in dead THEN NoProc ELSE s.owner[b]
      /\ \A b \in Blk : s.pending[b] = <<>> => queues.pending[b] = <<>>
  BY <1>2, CleanedQueuesType
<1>4. R \subseteq Blk /\ (\A b \in R : queues.owner[b] = NoProc) /\ InUse(s) \subseteq Blk
  BY DEF InUse
<1> HIDE DEF queues, R
<1>5. Sound(queues)
  <2>1. \A b \in Free(s) : b \in Blk /\ Vacant(s, b)  BY DEF Sound, FreeVacant, Free
  <2>2. \A b \in Free(s) : Vacant(queues, b)  BY <1>3, <2>1 DEF Vacant
  <2> QED  BY <1>3, <2>2, SoundKeeps
<1>6. Spares(queues, s, live, {}) /\ Weaker(queues, s)  BY <1>3 DEF Spares, Weaker
<1>7. /\ Sound(renumbered) /\ renumbered \in Space
      /\ renumbered.name = queues.name /\ renumbered.owner = queues.owner
      /\ \A b \in Blk \ R : renumbered.sequence[b] = queues.sequence[b]
  BY <1>3, <1>4, <1>5, NewSequenceType, NewSequenceFrame
<1> HIDE DEF renumbered
<1>8. Spares(renumbered, queues, live, {}) /\ Weaker(renumbered, queues)
  BY <1>4, <1>7, NullAssumption DEF Spares, Weaker
<1>9. Sound(u) /\ Spares(u, renumbered, Proc, {}) /\ Weaker(u, renumbered)
  BY <1>4, <1>7, FreeNodesFrame, FreeNodesType DEF Weaker
<1> HIDE DEF u
<1>10. Spares(u, renumbered, live, {})  BY <1>9, SparesFewer
<1>11. Spares(u, s, live, {})  BY <1>6, <1>8, <1>10, SparesTrans
<1>12. Weaker(u, s)  BY <1>6, <1>8, <1>9, WeakerTrans
<1> QED  BY <1>1, <1>9, <1>11, <1>12

LEMMA UnlockFrame ==
  ASSUME NEW s, Sound(s), NEW e, e.nodptr \in Blk \cup {NoBlk}, NEW p \in Proc, NEW live,
         NEW t, t = mlk_unlock(s, e, p, live)
  PROVE  /\ Sound(t) /\ Weaker(t, s)
         /\ Spares(t, s, Proc, {e.nodptr}) /\ Spares(t, s, Proc \ {p}, {})
         /\ OwnsNode(s, e, p) => t.owner[e.nodptr] = NoProc
         /\ ~OwnsNode(s, e, p) => t = s
<1>0. s \in Space  BY DEF Sound
<1>1. CASE ~OwnsNode(s, e, p)
  <2>1. t = s  BY <1>1 DEF mlk_unlock
  <2> QED  BY <1>1, <2>1 DEF Spares, Weaker
<1>2. CASE OwnsNode(s, e, p)
  <2>1. t = Release(s, e.nodptr, live)  BY <1>2 DEF mlk_unlock
  <2>2. e.nodptr \in Blk /\ s.owner[e.nodptr] = p  BY <1>2 DEF OwnsNode
  <2>3. e.nodptr \in InUse(s)  BY <2>2, OwnedInUse, NullAssumption
  <2>4. Sound(t) /\ Spares(t, s, Proc, {e.nodptr}) /\ t.owner[e.nodptr] = NoProc
    BY <2>1, <2>3, ReleaseFrame
  <2>5. Weaker(t, s)  BY <1>0, <2>1, <2>2, ReleaseType
  <2>6. Spares(t, s, Proc \ {p}, {})  BY <2>2, <2>4 DEF Spares
  <2> QED  BY <1>2, <2>4, <2>5, <2>6
<1> QED  BY <1>1, <1>2

LEMMA CheckOwnFrame ==
  ASSUME NEW s, Sound(s), NEW e, NEW live, NEW t, t = mlk_check_own(s, e, live)
  PROVE  Sound(t) /\ Weaker(t, s) /\ Spares(t, s, live, {})
<1>0. s \in Space  BY DEF Sound
<1>1. Weaker(t, s)  BY <1>0, CheckOwnType
<1>2. CASE t = s  BY <1>1, <1>2 DEF Spares
<1>3. CASE t # s
  <2>1. t = TakeSequence(ClearOwner(s, {e.blocked})) /\ s.owner[e.blocked] \notin live
    BY <1>3 DEF mlk_check_own, BlockerAlive
  <2>2. PICK c : c = ClearOwner(s, {e.blocked})  OBVIOUS
  <2>3. Sound(c) /\ Spares(c, s, Proc, {e.blocked}) /\ c \in Space /\ c.name = s.name
        /\ c.sequence = s.sequence
        /\ \A b \in Blk : c.owner[b] = IF b \in {e.blocked} THEN NoProc ELSE s.owner[b]
    BY <1>0, <2>2, ClearOwnerFrame, ClearOwnerType
  <2>4. /\ t \in Space /\ t.name = c.name /\ t.owner = c.owner /\ t.sequence = c.sequence
        /\ t.pending = c.pending
    BY <2>1, <2>2, <2>3, TakeSequenceType
  <2>5. Sound(t)  BY <2>3, <2>4, SoundKeeps DEF Sound, FreeVacant, Vacant
  <2>6. Spares(t, s, live, {})  BY <2>1, <2>3, <2>4 DEF Spares
  <2> QED  BY <1>1, <2>5, <2>6
<1> QED  BY <1>2, <1>3

(* Joining and leaving the queue of a node. *)
LEMMA PrcblkFrame ==
  ASSUME NEW s, Sound(s), NEW d \in Blk, NEW p \in Proc
  PROVE  /\ d \in InUse(s) => Sound(mlk_prcblk_add(s, d, p))
         /\ Sound(mlk_prcblk_delete(s, d, p))
<1>0. s \in Space  BY DEF Sound
<1>1. ASSUME d \in InUse(s) PROVE Sound(mlk_prcblk_add(s, d, p))
  <2>1. PICK t : t = mlk_prcblk_add(s, d, p)  OBVIOUS
  <2>2. /\ t \in Space /\ t.name = s.name /\ t.owner = s.owner
        /\ \A b \in Blk \ {d} : t.pending[b] = s.pending[b]
    BY <1>0, <2>1, PrcblkAddType
  <2>3. \A b \in Free(s) : b \in Blk \ {d} /\ Vacant(s, b)
    BY <1>0, <1>1, BlkSplit DEF Sound, FreeVacant, Free
  <2> QED  BY <2>1, <2>2, <2>3, SoundKeeps DEF Vacant
<1>2. Sound(mlk_prcblk_delete(s, d, p))
  <2>1. PICK t : t = mlk_prcblk_delete(s, d, p)  OBVIOUS
  <2>2. /\ t \in Space /\ t.name = s.name /\ t.owner = s.owner
        /\ \A b \in Blk \ {d} : t.pending[b] = s.pending[b]
    BY <1>0, <2>1, PrcblkDeleteType
  <2>3. \A b \in Free(s) : b \in Blk /\ Vacant(s, b)  BY DEF Sound, FreeVacant, Free
  <2>4. CASE d \in Free(s)
    <3>1. s.pending[d] = <<>>  BY <2>3, <2>4 DEF Vacant
    <3>2. Queued(s, d, p) = {}  BY <3>1 DEF Queued
    <3> QED  BY <3>2 DEF mlk_prcblk_delete
  <2>5. CASE d \notin Free(s)  BY <2>1, <2>2, <2>3, <2>5, SoundKeeps DEF Vacant
  <2> QED  BY <2>4, <2>5
<1> QED  BY <1>1, <1>2

-----------------------------------------------------------------------------
(* Locking *)

LEMMA WalkFrame ==
  ASSUME NEW s, Sound(s), NEW p \in Proc, NEW n \in Name, NEW y \in YieldPid,
         NEW live, live \subseteq Proc, NEW w, w = Walk(s, p, n, y, live)
  PROVE  /\ Sound(w.space) /\ Spares(w.space, s, live \cup {p}, {})
         /\ (\E b \in InUse(s) : s.name[b] = n) => ~w.full
<1> DEFINE path == OnPath(s, n)
           yielding == {b \in path : YieldsTo(s, path, b, p, y, live)}
           stop     == yielding \cup {b \in path : HeldAgainst(s, b, p, live)}
           gone     == {b \in path : Abandoned(s, b, p, live)}
           cleared  == ClearOwner(s, gone)
           full     == Cardinality(Missing(s, n)) > Cardinality(Free(s))
           woken    == mlk_wake_pending(cleared, yielding, live)
           L        == live \cup {p}
<1>0. s \in Space /\ L \subseteq Proc  BY DEF Sound
<1>1. /\ w.space = IF full THEN woken ELSE mlk_shrblk_create(woken, n)
      /\ w.full = full
  BY DEF Walk
<1>2. yielding \subseteq InUse(s) /\ \A b \in yielding : s.owner[b] = NoProc
  BY DEF OnPath, YieldsTo, Waiting
<1>3. \A b \in gone : s.owner[b] \notin L  BY DEF Abandoned
<1> HIDE DEF gone, yielding
<1>4. /\ Sound(cleared) /\ Spares(cleared, s, Proc, gone)
      /\ cleared.name = s.name
      /\ \A b \in Blk : cleared.owner[b] = IF b \in gone THEN NoProc ELSE s.owner[b]
  BY <1>0, ClearOwnerFrame, ClearOwnerType
<1> HIDE DEF cleared
<1>5. Spares(cleared, s, L, {})  BY <1>0, <1>3, <1>4 DEF Spares
<1>6. yielding \subseteq InUse(cleared) /\ \A b \in yielding : cleared.owner[b] = NoProc
  BY <1>2, <1>4 DEF InUse
<1>7. Sound(woken) /\ woken.name = cleared.name /\ Spares(woken, cleared, Proc, {})
  BY <1>4, <1>6, WakeFrame, WakeSpares
<1> HIDE DEF woken
<1>8. Spares(woken, s, L, {})
  <2>1. Spares(woken, cleared, L, {})  BY <1>0, <1>7, SparesFewer
  <2> QED  BY <1>5, <2>1, SparesTrans
<1>9. CASE full
  <2>1. w.space = woken  BY <1>1, <1>9
  <2>2. ~ \E b \in InUse(s) : s.name[b] = n  BY <1>9, NothingMissing
  <2> QED  BY <1>7, <1>8, <2>1, <2>2
<1>10. CASE ~full
  <2>1. ~(Cardinality(Missing(woken, n)) > Cardinality(Free(woken)))
    BY <1>4, <1>7, <1>10 DEF Missing, Free, InUse
  <2>2. PICK c : c = mlk_shrblk_create(woken, n)  OBVIOUS
  <2>3. Sound(c) /\ Spares(c, woken, Proc, {})  BY <1>7, <2>1, <2>2, CreateFrame
  <2>4. Spares(c, woken, L, {})  BY <1>0, <2>3, SparesFewer
  <2>5. Spares(c, s, L, {})  BY <1>8, <2>4, SparesTrans
  <2>6. w.space = c  BY <1>1, <1>10, <2>2
  <2> QED  BY <1>1, <1>10, <2>3, <2>5, <2>6
<1> QED  BY <1>9, <1>10

LEMMA ChildLockFrame ==
  ASSUME NEW s, Sound(s), NEW p \in Proc, NEW d \in Blk, NEW live, live \subseteq Proc,
         NEW r \in mlk_find_blocking_child_lock(s, p, d, live)
  PROVE  Sound(r.space) /\ Spares(r.space, s, live \cup {p}, {})
<1> DEFINE dead == {b \in Below(s, d) : Abandoned(s, b, p, live)}
<1>1. PICK C \in SUBSET dead : r.space = ClearOwner(s, C)
  BY DEF mlk_find_blocking_child_lock
<1>2. \A b \in C : s.owner[b] \notin live \cup {p}  BY DEF Abandoned
<1>3. Sound(r.space) /\ Spares(r.space, s, Proc, C)  BY <1>1, ClearOwnerFrame
<1> QED  BY <1>2, <1>3 DEF Spares

(* The search keeps the tree and the locks of p and of the live processes,   *)
(* and it ends at the node of n, which it finds or makes if there is room.   *)
Found(f, s, p, n, live) ==
  /\ Sound(f.space) /\ Spares(f.space, s, live \cup {p}, {})
  /\ f.d # NoBlk => f.d \in InUse(f.space) /\ f.space.name[f.d] = n
  /\ (\E b \in InUse(s) : s.name[b] = n) => f.d # NoBlk

LEMMA FindFrame ==
  ASSUME NEW s, Sound(s), NEW p \in Proc, NEW n \in Name, NEW y \in YieldPid,
         NEW live, live \subseteq Proc, NEW f \in mlk_shrblk_find(s, p, n, y, live)
  PROVE  Found(f, s, p, n, live)
<1>0. s \in Space  BY DEF Sound
<1>1. PICK v : v = Walk(s, p, n, y, live)  OBVIOUS
<1>2. /\ v.space \in Space /\ v.full \in BOOLEAN
      /\ ~v.full => \E b \in Blk : v.space.name[b] = n
  BY <1>0, <1>1, WalkType
<1>3. /\ Sound(v.space) /\ Spares(v.space, s, live \cup {p}, {})
      /\ (\E b \in InUse(s) : s.name[b] = n) => ~v.full
  BY <1>1, WalkFrame
<1>4. ~v.full => NodeFor(v.space, n) \in Blk /\ v.space.name[NodeFor(v.space, n)] = n
  BY <1>2 DEF NodeFor
<1>5. mlk_shrblk_find(s, p, n, y, live) =
        IF v.full
        THEN {[space |-> v.space, d |-> NoBlk, isblocked |-> TRUE, blocked |-> v.blocked,
               yield |-> v.yield]}
        ELSE IF v.blocked # NoBlk \/ Below(v.space, NodeFor(v.space, n)) = {}
        THEN {[space |-> v.space, d |-> NodeFor(v.space, n), isblocked |-> v.blocked # NoBlk,
               blocked |-> v.blocked, yield |-> v.yield]}
        ELSE {[space |-> r.space, d |-> NodeFor(v.space, n), isblocked |-> r.blocked # NoBlk,
               blocked |-> r.blocked, yield |-> NoProc] :
                 r \in mlk_find_blocking_child_lock(v.space, p, NodeFor(v.space, n), live)}
  BY <1>1 DEF mlk_shrblk_find
<1> DEFINE g == NodeFor(v.space, n)
<1>6. CASE v.full
  <2>1. f.space = v.space /\ f.d = NoBlk  BY <1>5, <1>6
  <2> QED  BY <1>3, <1>6, <2>1 DEF Found
<1>7. CASE ~v.full
  <2>1. g \in InUse(v.space) /\ g \in Blk /\ v.space.name[g] = n  BY <1>4, <1>7 DEF InUse
  <2>2. \/ f.space = v.space /\ f.d = g
        \/ \E r \in mlk_find_blocking_child_lock(v.space, p, g, live) : f.space = r.space /\ f.d = g
    BY <1>5, <1>7
  <2> HIDE DEF g
  <2>3. CASE f.space = v.space /\ f.d = g  BY <1>3, <2>1, <2>3, BlkFacts DEF Found
  <2>4. ASSUME NEW r \in mlk_find_blocking_child_lock(v.space, p, g, live),
               f.space = r.space /\ f.d = g
        PROVE  /\ Sound(f.space) /\ Spares(f.space, s, live \cup {p}, {})
               /\ f.d \in InUse(f.space) /\ f.space.name[f.d] = n /\ f.d # NoBlk
    <3>1. Sound(r.space) /\ Spares(r.space, v.space, live \cup {p}, {})
      BY <1>3, <2>1, ChildLockFrame
    <3>2. r.space.name = v.space.name  BY <1>2, <2>1, ChildLockType
    <3>3. Spares(r.space, s, live \cup {p}, {})  BY <1>3, <3>1, SparesTrans
    <3> QED  BY <2>1, <2>4, <3>1, <3>2, <3>3, BlkFacts DEF InUse
  <2> QED  BY <2>2, <2>3, <2>4 DEF Found
<1> QED  BY <1>2, <1>6, <1>7 DEF Found

(* What mlk_lock(e) by p comes to, seen from the space m that the search      *)
(* leaves: p is refused a lock it does not own, finds that it owns the node   *)
(* already, or is granted a node that nobody owns, on a branch that nobody    *)
(* else owns.                                                               *)
Refused(r, m, e, p) ==
  /\ ~r.got /\ SameLocks(r.space, m)
  /\ \A b \in Blk : m.name[b] = e.name => m.owner[b] # p

FoundOwn(r, m, e, p) ==
  /\ r.got /\ r.space = m /\ r.e.nodptr \in Blk /\ r.e.sequence = e.sequence
  /\ m.name[r.e.nodptr] = e.name /\ m.owner[r.e.nodptr] = p

Granted(r, m, e, p) ==
  LET d == r.e.nodptr IN
  /\ r.got /\ Clear(m, d, p, e.name) /\ m.owner[d] = NoProc
  /\ r.space.name = m.name /\ r.space.owner = [m.owner EXCEPT ![d] = p]
  /\ \A b \in Blk \ {d} : r.space.sequence[b] = m.sequence[b]
  /\ r.e.sequence = r.space.sequence[d]

LEMMA GrantFrame ==
  ASSUME NEW s, Sound(s), NEW p \in Proc, NEW d \in InUse(s), NEW t, t = Grant(s, d, p)
  PROVE  /\ Sound(t) /\ t.name = s.name /\ t.owner = [s.owner EXCEPT ![d] = p]
         /\ \A b \in Blk \ {d} : t.sequence[b] = s.sequence[b]
<1>1. s \in Space /\ d \in Blk  BY DEF Sound, InUse
<1> DEFINE o == [s EXCEPT !.owner[d] = p]
<1>2. /\ o \in Space /\ o.name = s.name /\ o.pending = s.pending /\ o.sequence = s.sequence
      /\ o.owner = [s.owner EXCEPT ![d] = p] /\ \A b \in Blk \ {d} : o.owner[b] = s.owner[b]
  BY <1>1 DEF Space, ProcOrNone
<1>3. t = NewSequence(o, {d})  BY DEF Grant
<1> HIDE DEF o
<1>4. \A b \in Free(s) : b \in Blk \ {d} /\ Vacant(s, b)
  BY <1>1, BlkSplit DEF Sound, FreeVacant, Free
<1>5. Sound(o)  BY <1>2, <1>4, SoundKeeps DEF Vacant
<1>6. t.name = o.name /\ t.owner = o.owner  BY <1>1, <1>2, <1>3, NewSequenceType
<1>7. Sound(t) /\ \A b \in Blk \ {d} : t.sequence[b] = o.sequence[b]
  BY <1>1, <1>3, <1>5, NewSequenceFrame
<1> QED  BY <1>2, <1>6, <1>7

-----------------------------------------------------------------------------
(* The queues and the free list of prcblks *)

(* The prcblks in use, each named by its node and its place in the queue. *)
Slots(s) == {bi \in Blk \X (1 .. max_prccnt) : bi[2] <= Len(s.pending[bi[1]])}

(* Every prcblk is in a queue or on the free list. *)
Accounted(s) ==
  /\ s.prccnt \in Nat /\ \A b \in Blk : Len(s.pending[b]) <= max_prccnt
  /\ s.prccnt + Cardinality(Slots(s)) = max_prccnt

(* Nobody is in the queue twice, or has joined it twice. *)
Single(q) ==
  \A i \in DOMAIN q : q[i].ref_cnt = 1 /\ \A j \in DOMAIN q : q[j].process_id = q[i].process_id => j = i

(* Whoever is in a queue of t was in the same queue of s. *)
Thins(t, s) ==
  \A b \in Blk :
    /\ Single(s.pending[b]) => Single(t.pending[b])
    /\ \A i \in DOMAIN t.pending[b] :
         /\ t.name[b] = s.name[b]
         /\ \E j \in DOMAIN s.pending[b] : s.pending[b][j].process_id = t.pending[b][i].process_id

Tidy(t, s) == (Accounted(s) => Accounted(t)) /\ Thins(t, s)

LEMMA TidyTrans ==
  ASSUME NEW r, NEW s, NEW t, Tidy(s, r), Tidy(t, s)
  PROVE  Tidy(t, r)
<1>1. Thins(t, r)
  <2> SUFFICES ASSUME NEW b \in Blk
               PROVE  /\ Single(r.pending[b]) => Single(t.pending[b])
                      /\ \A i \in DOMAIN t.pending[b] :
                           /\ t.name[b] = r.name[b]
                           /\ \E j \in DOMAIN r.pending[b] : r.pending[b][j].process_id = t.pending[b][i].process_id
    BY DEF Thins
  <2>1. Single(r.pending[b]) => Single(t.pending[b])  BY DEF Tidy, Thins
  <2>2. ASSUME NEW i \in DOMAIN t.pending[b]
        PROVE  /\ t.name[b] = r.name[b]
               /\ \E j \in DOMAIN r.pending[b] : r.pending[b][j].process_id = t.pending[b][i].process_id
    <3>1. PICK k \in DOMAIN s.pending[b] : s.pending[b][k].process_id = t.pending[b][i].process_id
      BY DEF Tidy, Thins
    <3>2. t.name[b] = s.name[b] /\ s.name[b] = r.name[b]  BY <3>1 DEF Tidy, Thins
    <3>3. PICK j \in DOMAIN r.pending[b] : r.pending[b][j].process_id = s.pending[b][k].process_id
      BY <3>1 DEF Tidy, Thins
    <3> QED  BY <3>1, <3>2, <3>3
  <2> QED  BY <2>1, <2>2
<1> QED  BY <1>1 DEF Tidy

(* Operators that leave the queues alone, and the names of the nodes that     *)
(* have one.                                                                *)
LEMMA TidySame ==
  ASSUME NEW s \in Space, NEW t, t.pending = s.pending, t.prccnt = s.prccnt,
         \A b \in Blk : s.pending[b] # <<>> => t.name[b] = s.name[b]
  PROVE  Tidy(t, s)
<1>1. Accounted(s) => Accounted(t)
  <2>1. Slots(t) = Slots(s)  BY DEF Slots
  <2> QED  BY <2>1 DEF Accounted
<1>2. ASSUME NEW b \in Blk, NEW i \in DOMAIN s.pending[b] PROVE t.name[b] = s.name[b]
  <2>1. s.pending[b] # <<>>  BY <1>2
  <2> QED  BY <2>1
<1>3. Thins(t, s)  BY <1>2 DEF Thins
<1> QED  BY <1>1, <1>3 DEF Tidy

LEMMA SlotsFinite ==
  ASSUME NEW s
  PROVE  IsFiniteSet(Slots(s)) /\ Cardinality(Slots(s)) \in Nat
<1>1. IsFiniteSet(Blk) /\ IsFiniteSet(1 .. max_prccnt)
  BY BlkFinite, FS_Interval, SpaceAssumption
<1>2. IsFiniteSet(Blk \X (1 .. max_prccnt))  BY <1>1, FS_Product
<1>3. IsFiniteSet(Slots(s))  BY <1>2, FS_Subset DEF Slots
<1> QED  BY <1>3, FS_CardinalityType

(* Prcblks freed: as many of each queue as F says. *)
LEMMA FreedCount ==
  ASSUME NEW s \in Space, NEW t \in Space, Accounted(s),
         NEW F \in [Blk -> SUBSET (1 .. max_prccnt)],
         \A b \in Blk : Len(t.pending[b]) = Len(s.pending[b]) - Cardinality(F[b]),
         NEW G, G = {bi \in Blk \X (1 .. max_prccnt) : bi[2] \in F[bi[1]]},
         t.prccnt = s.prccnt + Cardinality(G)
  PROVE  Accounted(t)
<1> DEFINE ls == [b \in Blk |-> Len(s.pending[b])]
           lt == [b \in Blk |-> Len(t.pending[b])]
           gap(b) == lt[b] + 1 .. ls[b]
           D == Slots(s) \ Slots(t)
<1>a. \A b \in Blk : ls[b] = Len(s.pending[b]) /\ lt[b] = Len(t.pending[b])  OBVIOUS
<1>b. ls \in [Blk -> Nat] /\ lt \in [Blk -> Nat]
  <2>1. \A b \in Blk : s.pending[b] \in Seq(Prcblk) /\ t.pending[b] \in Seq(Prcblk)  BY DEF Space
  <2> QED  BY <2>1, LenProperties
<1> HIDE DEF ls, lt
<1>c. /\ Slots(s) = {bi \in Blk \X (1 .. max_prccnt) : bi[2] <= ls[bi[1]]}
      /\ Slots(t) = {bi \in Blk \X (1 .. max_prccnt) : bi[2] <= lt[bi[1]]}
  BY <1>a DEF Slots
<1>1. ASSUME NEW b \in Blk
      PROVE  /\ ls[b] \in Nat /\ lt[b] \in Nat /\ lt[b] <= ls[b] /\ ls[b] <= max_prccnt
             /\ IsFiniteSet(F[b]) /\ Cardinality(F[b]) = ls[b] - lt[b]
  <2>1. IsFiniteSet(1 .. max_prccnt)  BY FS_Interval, SpaceAssumption
  <2>2. PICK c : c = Cardinality(F[b])  OBVIOUS
  <2>3. IsFiniteSet(F[b]) /\ c \in Nat  BY <2>1, <2>2, FS_Subset, FS_CardinalityType
  <2>4. lt[b] = ls[b] - c /\ ls[b] <= max_prccnt  BY <1>a, <2>2 DEF Accounted
  <2> QED  BY <1>b, <2>2, <2>3, <2>4
<1>2. ASSUME NEW b \in Blk PROVE Bijection(F[b], gap(b)) # {}
  <2>1. IsFiniteSet(gap(b)) /\ Cardinality(gap(b)) = ls[b] - lt[b]
    <3>1. PICK i \in Nat, j \in Nat, k \in Int : i = lt[b] /\ j = ls[b] /\ i <= j /\ k = i + 1  BY <1>1
    <3>2. IsFiniteSet(k .. j) /\ Cardinality(k .. j) = IF k > j THEN 0 ELSE j - k + 1  BY FS_Interval
    <3>3. Cardinality(k .. j) = j - i  BY <3>1, <3>2
    <3> QED  BY <3>1, <3>2, <3>3
  <2> HIDE DEF gap
  <2>2. PICK X : X = F[b]  OBVIOUS
  <2>3. IsFiniteSet(X) /\ Cardinality(X) = Cardinality(gap(b))  BY <1>1, <2>1, <2>2
  <2>4. ExistsBijection(X, gap(b))  BY <2>1, <2>3, FS_SameCardinalityBij
  <2> QED  BY <2>2, <2>4 DEF ExistsBijection
<1> DEFINE h == [b \in Blk |-> CHOOSE f \in Bijection(F[b], gap(b)) : TRUE]
           H == [bi \in G |-> <<bi[1], h[bi[1]][bi[2]]>>]
<1>3. \A b \in Blk : h[b] \in Bijection(F[b], gap(b))
  <2> HIDE DEF gap
  <2> QED  BY <1>2
<1>4. ASSUME NEW b \in Blk
      PROVE  /\ \A i \in F[b] : h[b][i] \in gap(b)
             /\ \A i, j \in F[b] : h[b][i] = h[b][j] => i = j
             /\ \A k \in gap(b) : \E i \in F[b] : h[b][i] = k
  <2> HIDE DEF gap, h
  <2>1. PICK X, f : X = F[b] /\ f = h[b]  OBVIOUS
  <2>2. f \in Bijection(X, gap(b))  BY <1>3, <2>1
  <2>3. /\ f \in [X -> gap(b)] /\ (\A i, j \in X : f[i] = f[j] => i = j)
        /\ \A k \in gap(b) : \E i \in X : f[i] = k
    BY <2>2, Fun_BijectionProperties
  <2> QED  BY <2>1, <2>3
<1> HIDE DEF h
<1>5. D = {bi \in Blk \X (1 .. max_prccnt) : bi[2] \in gap(bi[1])}
  <2>1. ASSUME NEW b \in Blk, NEW i \in 1 .. max_prccnt
        PROVE  <<b, i>> \in D <=> i \in gap(b)
    BY <1>1, <1>c
  <2> QED  BY <1>c, <2>1
<1>6. ASSUME NEW bi \in G PROVE /\ bi = <<bi[1], bi[2]>> /\ bi[1] \in Blk /\ bi[2] \in F[bi[1]]
                                /\ H[bi] = <<bi[1], h[bi[1]][bi[2]]>> /\ H[bi] \in D
  <2>1. bi = <<bi[1], bi[2]>> /\ bi[1] \in Blk /\ bi[2] \in F[bi[1]]  OBVIOUS
  <2>2. PICK b, k : b = bi[1] /\ k = h[b][bi[2]]  OBVIOUS
  <2>3. b \in Blk /\ k \in gap(b)  BY <1>4, <2>1, <2>2
  <2>4. k \in 1 .. max_prccnt  BY <1>1, <2>3, SpaceAssumption
  <2>5. <<b, k>> \in D
    <3> HIDE DEF D
    <3> QED  BY <1>5, <2>3, <2>4
  <2> HIDE DEF D
  <2> QED  BY <2>1, <2>2, <2>5
<1>7. H \in [G -> D]
  <2> HIDE DEF D
  <2> QED  BY <1>6
<1>8. ASSUME NEW x \in G, NEW y \in G, H[x] = H[y] PROVE x = y
  <2> HIDE DEF H, D, gap
  <2>1. x[1] = y[1] /\ h[x[1]][x[2]] = h[y[1]][y[2]]  BY <1>6, <1>8
  <2>2. x[2] = y[2]  BY <1>4, <1>6, <2>1
  <2> QED  BY <1>6, <2>1, <2>2
<1>9. ASSUME NEW d \in D PROVE \E x \in G : H[x] = d
  <2>1. d = <<d[1], d[2]>> /\ d[1] \in Blk /\ d[2] \in gap(d[1])
    <3> HIDE DEF D, gap
    <3> QED  BY <1>5
  <2>2. PICK i \in F[d[1]] : h[d[1]][i] = d[2]
    <3> HIDE DEF D, gap
    <3> QED  BY <1>4, <2>1
  <2>3. <<d[1], i>> \in G  BY <2>1, <2>2
  <2>4. H[<<d[1], i>>] = <<d[1], d[2]>>
    <3> HIDE DEF D, gap
    <3> QED  BY <2>2, <2>3
  <2> HIDE DEF H, D, gap
  <2> QED  BY <2>1, <2>3, <2>4
<1>10. IsFiniteSet(Slots(s)) /\ IsFiniteSet(Slots(t)) /\ Cardinality(Slots(s)) \in Nat /\ Cardinality(Slots(t)) \in Nat
  BY SlotsFinite
<1>11. Slots(t) \subseteq Slots(s)
  <2>1. ASSUME NEW b \in Blk, NEW i \in 1 .. max_prccnt, i <= lt[b]
        PROVE  i <= ls[b]
    BY <1>1, <2>1
  <2> QED  BY <1>c, <2>1
<1>12. IsFiniteSet(D) /\ Cardinality(D) = Cardinality(Slots(s)) - Cardinality(Slots(t))
  <2>1. PICK X, Y : X = Slots(s) /\ Y = Slots(t)  OBVIOUS
  <2>2. X \cap Y = Y /\ IsFiniteSet(X)  BY <1>10, <1>11, <2>1
  <2>3. IsFiniteSet(X \ Y) /\ Cardinality(X \ Y) = Cardinality(X) - Cardinality(X \cap Y)
    BY <2>2, FS_Difference
  <2> QED  BY <2>1, <2>2, <2>3
<1> HIDE DEF H, D, gap
<1>13. Cardinality(D) = Cardinality(G)
  <2>1. IsFiniteSet(G)
    <3>1. IsFiniteSet(Blk) /\ IsFiniteSet(1 .. max_prccnt)  BY BlkFinite, FS_Interval, SpaceAssumption
    <3>2. IsFiniteSet(Blk \X (1 .. max_prccnt))  BY <3>1, FS_Product
    <3>3. G \subseteq Blk \X (1 .. max_prccnt)  OBVIOUS
    <3> QED  BY <3>2, <3>3, FS_Subset
  <2>2. H \in Bijection(G, D)  BY <1>7, <1>8, <1>9, Fun_IsBij
  <2>3. ExistsBijection(G, D)  BY <2>2 DEF ExistsBijection
  <2> QED  BY <2>1, <2>3, FS_Bijection
<1>14. t.prccnt + Cardinality(Slots(t)) = max_prccnt /\ t.prccnt \in Nat
  <2>1. Cardinality(D) \in Nat  BY <1>12, FS_CardinalityType
  <2>2. s.prccnt \in Nat /\ s.prccnt + Cardinality(Slots(s)) = max_prccnt  BY DEF Accounted
  <2> QED  BY <1>10, <1>12, <1>13, <2>1, <2>2, SpaceAssumption
<1>15. \A b \in Blk : Len(t.pending[b]) <= max_prccnt
  <2>1. ASSUME NEW b \in Blk PROVE lt[b] <= max_prccnt  BY <1>1, SpaceAssumption
  <2> QED  BY <1>a, <2>1
<1> QED  BY <1>14, <1>15 DEF Accounted

LEMMA NewSequenceTidy ==
  ASSUME NEW s \in Space, NEW S \in SUBSET Blk
  PROVE  Tidy(NewSequence(s, S), s)
BY NewSequenceType, TidySame

LEMMA ClearOwnerTidy ==
  ASSUME NEW s \in Space, NEW S
  PROVE  Tidy(ClearOwner(s, S), s)
<1>1. PICK t : t = ClearOwner(s, S)  OBVIOUS
<1>2. t.name = s.name /\ t.pending = s.pending /\ t.prccnt = s.prccnt
  BY <1>1 DEF ClearOwner, Space
<1> QED  BY <1>1, <1>2, TidySame

LEMMA TakeSequenceTidy ==
  ASSUME NEW s \in Space
  PROVE  Tidy(TakeSequence(s), s)
<1>1. PICK t : t = TakeSequence(s)  OBVIOUS
<1>2. t.name = s.name /\ t.pending = s.pending /\ t.prccnt = s.prccnt
  BY <1>1 DEF TakeSequence, Space
<1> QED  BY <1>1, <1>2, TidySame

LEMMA GrantTidy ==
  ASSUME NEW s \in Space, NEW p \in Proc, NEW d \in Blk
  PROVE  Tidy(Grant(s, d, p), s)
<1> DEFINE o == [s EXCEPT !.owner[d] = p]
<1>1. o \in Space /\ o.name = s.name /\ o.pending = s.pending /\ o.prccnt = s.prccnt
  BY DEF Space, ProcOrNone
<1>2. Grant(s, d, p) = NewSequence(o, {d})  BY DEF Grant
<1> HIDE DEF o
<1>3. Tidy(o, s)  BY <1>1, TidySame
<1>4. Tidy(NewSequence(o, {d}), o)  BY <1>1, NewSequenceTidy
<1> QED  BY <1>2, <1>3, <1>4, TidyTrans

LEMMA FreeNodesTidy ==
  ASSUME NEW s \in Space, NEW S, \A b \in S : s.pending[b] = <<>>
  PROVE  Tidy(FreeNodes(s, S), s)
<1> DEFINE pd == [b \in Blk |-> IF b \in S THEN <<>> ELSE s.pending[b]]
<1>1. PICK t : t = FreeNodes(s, S)  OBVIOUS
<1>2. \A b \in Blk : t.name[b] = IF b \in S THEN NoName ELSE s.name[b]
  BY <1>1, FreeNodesType
<1>3. t.pending = pd /\ t.prccnt = s.prccnt  BY <1>1 DEF FreeNodes, Space
<1>4. pd = s.pending
  <2>1. s.pending = [b \in Blk |-> s.pending[b]]  BY DEF Space
  <2>2. \A b \in Blk : pd[b] = s.pending[b]  OBVIOUS
  <2> QED  BY <2>1, <2>2
<1> HIDE DEF pd
<1> QED  BY <1>1, <1>2, <1>3, <1>4, TidySame

LEMMA CreateTidy ==
  ASSUME NEW s, Sound(s), NEW n \in Name
  PROVE  Tidy(mlk_shrblk_create(s, n), s)
<1> DEFINE missing == Missing(s, n)
           place   == CHOOSE f \in Injection(missing, Free(s)) : TRUE
           fresh   == {b \in Free(s) : \E m \in missing : place[m] = b}
           nm      == [b \in Blk |-> IF b \in fresh THEN CHOOSE m \in missing : place[m] = b ELSE s.name[b]]
           ow      == [b \in Blk |-> IF b \in fresh THEN NoProc ELSE s.owner[b]]
           sq      == [b \in Blk |-> IF b \in fresh THEN 0 ELSE s.sequence[b]]
           pd      == [b \in Blk |-> IF b \in fresh THEN <<>> ELSE s.pending[b]]
<1>1. PICK t : t = mlk_shrblk_create(s, n)  OBVIOUS
<1>2. s \in Space  BY DEF Sound
<1>3. t = [s EXCEPT !.name = nm, !.owner = ow, !.sequence = sq, !.pending = pd]
  BY <1>1 DEF mlk_shrblk_create
<1>4. \A b \in fresh : s.pending[b] = <<>>  BY DEF Sound, FreeVacant, Vacant
<1> HIDE DEF missing, place, fresh
<1>5. \A b \in Blk : s.pending[b] # <<>> => nm[b] = s.name[b]  BY <1>4
<1>6. pd = s.pending
  <2>1. s.pending = [b \in Blk |-> s.pending[b]]  BY <1>2 DEF Space
  <2>2. \A b \in Blk : pd[b] = s.pending[b]  BY <1>4
  <2> QED  BY <2>1, <2>2
<1> HIDE DEF nm, ow, sq, pd
<1>7. t.name = nm /\ t.pending = pd /\ t.prccnt = s.prccnt  BY <1>2, <1>3 DEF Space
<1> QED  BY <1>1, <1>2, <1>5, <1>6, <1>7, TidySame

LEMMA WakeTidy ==
  ASSUME NEW s \in Space, NEW W \in SUBSET Blk, NEW live
  PROVE  Tidy(mlk_wake_pending(s, W, live), s)
<1> DEFINE gone(b) == Cardinality(Gone(s.pending[b], live))
           freed   == {bi \in W \X (1 .. max_prccnt) : bi[2] <= gone(bi[1])}
           pend    == [b \in Blk |->
             IF b \in W THEN SubSeq(s.pending[b], gone(b) + 1, Len(s.pending[b])) ELSE s.pending[b]]
           n       == NewSequence(s, W)
<1>1. PICK t : t = mlk_wake_pending(s, W, live)  OBVIOUS
<1>2. t \in Space /\ t.name = s.name  BY <1>1, WakeType
<1>3. t = [n EXCEPT !.pending = pend, !.prccnt = s.prccnt + Cardinality(freed)]
  BY <1>1 DEF mlk_wake_pending
<1>4. n \in Space  BY NewSequenceType
<1>5. t.pending = pend /\ t.prccnt = s.prccnt + Cardinality(freed)
  <2> HIDE DEF n, pend, freed
  <2> QED  BY <1>3, <1>4 DEF Space
<1>6. ASSUME NEW b \in Blk
      PROVE  /\ gone(b) \in Nat /\ Len(s.pending[b]) \in Nat /\ gone(b) <= Len(s.pending[b])
             /\ DOMAIN s.pending[b] = 1 .. Len(s.pending[b])
             /\ b \in W => /\ Len(t.pending[b]) = Len(s.pending[b]) - gone(b)
                           /\ DOMAIN t.pending[b] = 1 .. Len(s.pending[b]) - gone(b)
                           /\ \A i \in DOMAIN t.pending[b] : t.pending[b][i] = s.pending[b][i + gone(b)]
             /\ b \notin W => t.pending[b] = s.pending[b]
  <2>1. PICK q \in Seq(Prcblk) : q = s.pending[b]  BY DEF Space
  <2>2. Len(q) \in Nat /\ DOMAIN q = 1 .. Len(q)  BY LenProperties
  <2>3. PICK g : g = gone(b)  OBVIOUS
  <2>a. PICK N : N = Len(q)  OBVIOUS
  <2>4. g \in 0 .. N /\ N \in Nat  BY <2>1, <2>2, <2>3, <2>a, GoneBound
  <2>5. t.pending[b] = IF b \in W THEN SubSeq(q, g + 1, Len(q)) ELSE q  BY <1>5, <2>1, <2>3
  <2> HIDE DEF gone
  <2>6. PICK u : u = SubSeq(q, g + 1, N)  OBVIOUS
  <2>7. \A i \in g + 1 .. N : q[i] \in Prcblk  BY <2>2, <2>4, <2>a
  <2>8. u \in Seq(Prcblk) /\ Len(u) = N - g /\ \A i \in 1 .. N - g : u[i] = q[i + g]
    <3>1. PICK m \in Int, k \in Int : m = g + 1 /\ k = N  BY <2>4
    <3>2. /\ SubSeq(q, m, k) \in Seq(Prcblk)
          /\ Len(SubSeq(q, m, k)) = IF m <= k THEN k - m + 1 ELSE 0
          /\ \A i \in 1 .. k - m + 1 : SubSeq(q, m, k)[i] = q[m + i - 1]
      BY <2>7, <3>1, SubSeqProperties
    <3>3. k - m + 1 = k - g /\ \A i \in 1 .. k - g : m + i - 1 = i + g  BY <2>4, <3>1
    <3>4. (IF m <= k THEN k - m + 1 ELSE 0) = k - g  BY <2>4, <3>1
    <3>5. u = SubSeq(q, m, k)  BY <2>6, <2>a, <3>1
    <3> QED  BY <3>1, <3>2, <3>3, <3>4, <3>5
  <2>9. DOMAIN u = 1 .. N - g  BY <2>8, LenProperties
  <2>10. b \in W => t.pending[b] = u  BY <2>5, <2>6, <2>a
  <2>11. b \notin W => t.pending[b] = q  BY <2>5
  <2>12. g \in Nat /\ g <= N  BY <2>4
  <2>13. CASE b \in W  BY <2>1, <2>2, <2>3, <2>a, <2>8, <2>9, <2>10, <2>12, <2>13
  <2>14. CASE b \notin W  BY <2>1, <2>2, <2>3, <2>a, <2>11, <2>12, <2>14
  <2> QED  BY <2>13, <2>14
<1>7. ASSUME Accounted(s) PROVE Accounted(t)
  <2> DEFINE F == [b \in Blk |-> IF b \in W THEN 1 .. gone(b) ELSE {}]
             G == {bi \in Blk \X (1 .. max_prccnt) : bi[2] \in F[bi[1]]}
  <2>1. ASSUME NEW b \in Blk
        PROVE  /\ F[b] \in SUBSET (1 .. max_prccnt)
               /\ Cardinality(F[b]) = IF b \in W THEN gone(b) ELSE 0
    <3>1. PICK c \in Nat, k \in Nat : c = gone(b) /\ k = Len(s.pending[b]) /\ c <= k  BY <1>6
    <3>2. k <= max_prccnt  BY <1>7, <3>1 DEF Accounted
    <3>3. F[b] = IF b \in W THEN 1 .. c ELSE {}  BY <3>1
    <3>4. Cardinality(1 .. c) = IF 1 > c THEN 0 ELSE c - 1 + 1  BY FS_Interval
    <3>5. Cardinality(1 .. c) = c  BY <3>4
    <3> HIDE DEF F, gone
    <3> QED  BY <3>1, <3>2, <3>3, <3>5, FS_EmptySet, SpaceAssumption
  <2>2. F \in [Blk -> SUBSET (1 .. max_prccnt)]
    <3>1. F = [b \in Blk |-> F[b]]  OBVIOUS
    <3> HIDE DEF F
    <3> QED  BY <2>1, <3>1
  <2>3. ASSUME NEW b \in Blk PROVE Len(t.pending[b]) = Len(s.pending[b]) - Cardinality(F[b])
    <3>1. PICK c \in Nat, k \in Nat : c = gone(b) /\ k = Len(s.pending[b]) /\ c <= k  BY <1>6
    <3>2. Len(t.pending[b]) = IF b \in W THEN k - c ELSE k  BY <1>6, <3>1
    <3>3. Cardinality(F[b]) = IF b \in W THEN c ELSE 0  BY <2>1, <3>1
    <3> HIDE DEF F, gone
    <3> QED  BY <3>1, <3>2, <3>3
  <2>4. freed = G
    <3>1. ASSUME NEW b \in Blk, NEW i \in 1 .. max_prccnt
          PROVE  i \in F[b] <=> b \in W /\ i <= gone(b)
      BY <1>6, SpaceAssumption
    <3> HIDE DEF F, gone
    <3> QED  BY <3>1
  <2>5. t.prccnt = s.prccnt + Cardinality(G)  BY <1>5, <2>4
  <2> HIDE DEF F, freed
  <2> QED  BY <1>2, <1>7, <2>2, <2>3, <2>5, FreedCount
<1>8. Thins(t, s)
  <2> SUFFICES ASSUME NEW b \in Blk, b \in W
               PROVE  /\ Single(s.pending[b]) => Single(t.pending[b])
                      /\ \A i \in DOMAIN t.pending[b] : \E j \in DOMAIN s.pending[b] :
                           s.pending[b][j].process_id = t.pending[b][i].process_id
    BY <1>2, <1>6 DEF Thins
  <2>0. PICK q, u : q = s.pending[b] /\ u = t.pending[b]  OBVIOUS
  <2>1. PICK c \in Nat, k \in Nat : c = gone(b) /\ k = Len(s.pending[b]) /\ c <= k
    BY <1>6
  <2>2. DOMAIN q = 1 .. k /\ DOMAIN u = 1 .. k - c /\ \A i \in DOMAIN u : u[i] = q[i + c]
    BY <1>6, <2>0, <2>1
  <2> HIDE DEF gone
  <2>3. \A i \in DOMAIN u : i + c \in DOMAIN q /\ i \in Nat  BY <2>1, <2>2
  <2>4. Single(q) => Single(u)
    <3> SUFFICES ASSUME Single(q), NEW i \in DOMAIN u
                 PROVE  u[i].ref_cnt = 1 /\ \A j \in DOMAIN u : u[j].process_id = u[i].process_id => j = i
      BY DEF Single
    <3>1. u[i].ref_cnt = 1  BY <2>2, <2>3 DEF Single
    <3>2. ASSUME NEW j \in DOMAIN u, u[j].process_id = u[i].process_id PROVE j = i
      <4>1. i + c \in DOMAIN q /\ j + c \in DOMAIN q /\ q[j + c].process_id = q[i + c].process_id
        BY <2>2, <2>3, <3>2
      <4>2. j + c = i + c  BY <4>1 DEF Single
      <4> QED  BY <2>1, <2>3, <4>2
    <3> QED  BY <3>1, <3>2
  <2>5. \A i \in DOMAIN u : \E j \in DOMAIN q : q[j].process_id = u[i].process_id
    BY <2>2, <2>3
  <2> QED  BY <2>0, <2>4, <2>5
<1> QED  BY <1>1, <1>7, <1>8 DEF Tidy

LEMMA CleanedQueuesTidy ==
  ASSUME NEW s, Sound(s), NEW dead
  PROVE  Tidy(CleanedQueues(s, dead), s)
<1> DEFINE drop(b)  == {i \in 1 .. Len(s.pending[b]) - 1 : s.pending[b][i].process_id \in dead}
           keep(b)  == DOMAIN s.pending[b] \ drop(b)
           kept(b)  == [k \in 1 .. Cardinality(keep(b)) |->
              s.pending[b][CHOOSE i \in keep(b) : Cardinality({j \in keep(b) : j <= i}) = k]]
           freed    == UNION {{b} \X drop(b) : b \in InUse(s)}
           cleared  == ClearOwner(s, {b \in InUse(s) : s.owner[b] \in dead})
           pend     == [b \in Blk |-> kept(b)]
<1>0. s \in Space  BY DEF Sound
<1>1. PICK t : t = CleanedQueues(s, dead)  OBVIOUS
<1>2. t \in Space /\ t.name = s.name  BY <1>0, <1>1, CleanedQueuesType
<1>3. t = [cleared EXCEPT !.pending = pend, !.prccnt = @ + Cardinality(freed)]
  BY <1>1 DEF CleanedQueues
<1>4. cleared \in Space /\ cleared.prccnt = s.prccnt
  <2>1. PICK C : C = {b \in InUse(s) : s.owner[b] \in dead}  OBVIOUS
  <2>2. PICK c : c = ClearOwner(s, C)  OBVIOUS
  <2>3. c \in Space  BY <1>0, <2>2, ClearOwnerType
  <2>4. c.prccnt = s.prccnt  BY <1>0, <2>2 DEF ClearOwner, Space
  <2> QED  BY <2>1, <2>2, <2>3, <2>4
<1>5. t.pending = pend /\ t.prccnt = s.prccnt + Cardinality(freed)
  <2> HIDE DEF cleared, pend, freed
  <2> QED  BY <1>3, <1>4 DEF Space
<1>6. ASSUME NEW b \in Blk
      PROVE  /\ Len(s.pending[b]) \in Nat /\ drop(b) \subseteq 1 .. Len(s.pending[b])
             /\ Len(t.pending[b]) = Len(s.pending[b]) - Cardinality(drop(b))
             /\ Single(s.pending[b]) => Single(t.pending[b])
             /\ \A i \in DOMAIN t.pending[b] : \E j \in DOMAIN s.pending[b] :
                  s.pending[b][j].process_id = t.pending[b][i].process_id
  <2>1. PICK q \in Seq(Prcblk) : q = s.pending[b]  BY <1>0 DEF Space
  <2>2. PICK N \in Nat : N = Len(q) /\ DOMAIN q = 1 .. N  BY LenProperties
  <2>3. PICK D, K : D = drop(b) /\ K = keep(b)  OBVIOUS
  <2>4. D = {i \in 1 .. N - 1 : q[i].process_id \in dead}  BY <2>1, <2>2, <2>3
  <2>5. D \subseteq 1 .. N /\ K = (1 .. N) \ D  BY <2>1, <2>2, <2>3, <2>4
  <2>6. PICK u : u = t.pending[b]  OBVIOUS
  <2>7. u = [k \in 1 .. Cardinality(K) |-> q[CHOOSE i \in K : Cardinality({j \in K : j <= i}) = k]]
    BY <1>5, <2>1, <2>3, <2>6
  <2> HIDE DEF drop, keep, kept, pend
  <2> DEFINE at(k) == CHOOSE i \in K : Cardinality({j \in K : j <= i}) = k
  <2>8. /\ IsFiniteSet(D) /\ Cardinality(D) \in Nat /\ Cardinality(K) = N - Cardinality(D)
    <3>1. IsFiniteSet(1 .. N) /\ Cardinality(1 .. N) = N
      <4>1. IsFiniteSet(1 .. N) /\ Cardinality(1 .. N) = IF 1 > N THEN 0 ELSE N - 1 + 1  BY FS_Interval
      <4> QED  BY <4>1
    <3>2. IsFiniteSet(D) /\ Cardinality(D) \in Nat  BY <2>5, <3>1, FS_Subset, FS_CardinalityType
    <3>3. (1 .. N) \cap D = D  BY <2>5
    <3>4. Cardinality((1 .. N) \ D) = Cardinality(1 .. N) - Cardinality((1 .. N) \cap D)
      BY <3>1, FS_Difference
    <3> QED  BY <2>5, <3>1, <3>2, <3>3, <3>4
  <2>9. PICK c \in Nat : c = Cardinality(K)
    <3>1. IsFiniteSet(1 .. N)  BY FS_Interval
    <3>2. IsFiniteSet(K)  BY <2>5, <3>1, FS_Subset
    <3> QED  BY <3>2, FS_CardinalityType
  <2>10. ASSUME NEW k \in 1 .. c PROVE at(k) \in K /\ Cardinality({j \in K : j <= at(k)}) = k
    <3>1. K \in SUBSET (1 .. N) /\ k \in 1 .. Cardinality(K)  BY <2>5, <2>9
    <3>2. \E i \in K : Cardinality({j \in K : j <= i}) = k  BY <3>1, RankExists
    <3> QED  BY <3>2
  <2>11. u = [k \in 1 .. c |-> q[at(k)]]  BY <2>7, <2>9
  <2>12. DOMAIN u = 1 .. c /\ Len(u) = c
    <3>1. DOMAIN u = 1 .. c
      <4> HIDE DEF at
      <4> QED  BY <2>11
    <3>2. u \in Seq(Prcblk)  BY <1>2, <2>6 DEF Space
    <3>3. DOMAIN u = 1 .. Len(u) /\ Len(u) \in Nat  BY <3>2, LenProperties
    <3>4. PICK l \in Nat : l = Len(u)  BY <3>3
    <3>5. 1 .. l = 1 .. c  BY <3>1, <3>3, <3>4
    <3>6. l = c
      <4>1. Cardinality(1 .. l) = (IF 1 > l THEN 0 ELSE l - 1 + 1) /\ Cardinality(1 .. c) = (IF 1 > c THEN 0 ELSE c - 1 + 1)
        BY FS_Interval
      <4> QED  BY <3>5, <4>1
    <3> QED  BY <3>1, <3>4, <3>6
  <2>13. ASSUME NEW i \in DOMAIN u PROVE at(i) \in DOMAIN q /\ u[i] = q[at(i)] /\ i \in 1 .. c
    <3>1. at(i) \in K /\ i \in 1 .. c  BY <2>10, <2>12, <2>13
    <3> HIDE DEF at
    <3> QED  BY <2>2, <2>5, <2>11, <3>1
  <2>14. ASSUME NEW i \in DOMAIN u, NEW j \in DOMAIN u, at(i) = at(j) PROVE i = j
    <3>1. i \in 1 .. c /\ j \in 1 .. c  BY <2>12, <2>14
    <3>2. Cardinality({k \in K : k <= at(i)}) = i /\ Cardinality({k \in K : k <= at(j)}) = j
      BY <2>10, <3>1
    <3> HIDE DEF at
    <3> QED  BY <2>14, <3>2
  <2> HIDE DEF at
  <2>15. Single(q) => Single(u)
    <3> SUFFICES ASSUME Single(q), NEW i \in DOMAIN u
                 PROVE  u[i].ref_cnt = 1 /\ \A j \in DOMAIN u : u[j].process_id = u[i].process_id => j = i
      BY DEF Single
    <3>1. u[i].ref_cnt = 1  BY <2>13 DEF Single
    <3>2. ASSUME NEW j \in DOMAIN u, u[j].process_id = u[i].process_id PROVE j = i
      <4>1. at(i) \in DOMAIN q /\ at(j) \in DOMAIN q /\ q[at(j)].process_id = q[at(i)].process_id
        BY <2>13, <3>2
      <4>2. at(j) = at(i)  BY <4>1 DEF Single
      <4> QED  BY <2>14, <4>2
    <3> QED  BY <3>1, <3>2
  <2>16. \A i \in DOMAIN u : \E j \in DOMAIN q : q[j].process_id = u[i].process_id  BY <2>13
  <2>17. Len(u) = N - Cardinality(D)  BY <2>8, <2>9, <2>12
  <2> QED  BY <2>1, <2>2, <2>3, <2>5, <2>6, <2>8, <2>15, <2>16, <2>17
<1> HIDE DEF drop, pend, cleared
<1>7. ASSUME Accounted(s) PROVE Accounted(t)
  <2> DEFINE F == [b \in Blk |-> drop(b)]
             G == {bi \in Blk \X (1 .. max_prccnt) : bi[2] \in F[bi[1]]}
  <2>1. ASSUME NEW b \in Blk
        PROVE  /\ drop(b) \in SUBSET (1 .. max_prccnt)
               /\ Len(t.pending[b]) = Len(s.pending[b]) - Cardinality(drop(b))
    <3>1. PICK N \in Nat : N = Len(s.pending[b]) /\ drop(b) \subseteq 1 .. N  BY <1>6
    <3>2. N <= max_prccnt  BY <1>7, <3>1 DEF Accounted
    <3> QED  BY <1>6, <3>1, <3>2, SpaceAssumption
  <2>2. F \in [Blk -> SUBSET (1 .. max_prccnt)] /\ \A b \in Blk : F[b] = drop(b)  BY <2>1
  <2>3. \A b \in Blk : Len(t.pending[b]) = Len(s.pending[b]) - Cardinality(F[b])  BY <2>1, <2>2
  <2>4. freed = G
    <3>1. ASSUME NEW b \in Blk, b \notin InUse(s) PROVE drop(b) = {}
      <4>1. s.pending[b] = <<>>  BY <1>0, <3>1, BlkSplit DEF Sound, FreeVacant, Vacant
      <4>2. Len(s.pending[b]) = 0  BY <4>1
      <4> QED  BY <4>2 DEF drop
    <3>2. InUse(s) \subseteq Blk  BY DEF InUse
    <3>3. ASSUME NEW x \in freed PROVE x \in G
      <4>1. PICK b \in InUse(s) : x \in {b} \X drop(b)  OBVIOUS
      <4>2. PICK i \in drop(b) : x = <<b, i>>  BY <4>1
      <4> QED  BY <2>1, <2>2, <3>2, <4>2
    <3>4. ASSUME NEW x \in G PROVE x \in freed
      <4>1. PICK b \in Blk, i \in 1 .. max_prccnt : x = <<b, i>> /\ i \in drop(b)  BY <2>2
      <4>2. b \in InUse(s)  BY <3>1, <4>1
      <4>3. x \in {b} \X drop(b)  BY <4>1
      <4> QED  BY <4>2, <4>3
    <3> HIDE DEF freed, G
    <3> QED  BY <3>3, <3>4
  <2>5. t.prccnt = s.prccnt + Cardinality(G)  BY <1>5, <2>4
  <2> HIDE DEF F, freed
  <2> QED  BY <1>0, <1>2, <1>7, <2>2, <2>3, <2>5, FreedCount
<1>8. Thins(t, s)  BY <1>2, <1>6 DEF Thins
<1> QED  BY <1>1, <1>7, <1>8 DEF Tidy

(* A queue that was empty stays empty. *)
LEMMA ThinEmpty ==
  ASSUME NEW s \in Space, NEW t \in Space, Tidy(t, s), NEW b \in Blk, s.pending[b] = <<>>
  PROVE  t.pending[b] = <<>>
<1>1. DOMAIN s.pending[b] = {}  OBVIOUS
<1>2. DOMAIN t.pending[b] = {}  BY <1>1 DEF Tidy, Thins
<1>3. PICK q \in Seq(Prcblk) : q = t.pending[b]  BY DEF Space
<1>4. PICK k \in Nat : k = Len(q) /\ 1 .. k = {}  BY <1>2, <1>3, LenProperties
<1>5. k = 0
  <2>1. 1 \notin 1 .. k  BY <1>4
  <2>2. k \in Nat  OBVIOUS
  <2> QED  BY <2>1, <2>2
<1> QED  BY <1>3, <1>4, <1>5, EmptySeq

LEMMA ReleaseTidy ==
  ASSUME NEW s, Sound(s), NEW d \in InUse(s), NEW live
  PROVE  Tidy(Release(s, d, live), s)
<1> DEFINE s0 == ClearOwner(s, {d})
           s1 == NewSequence(s0, {d})
           chain   == OnPath(s1, s.name[d])
           below   == mlk_tree_wake_children(s1, d)
           above   == {b \in chain : Waiting(s1, b)}
           nearest == {b \in above : above \subseteq OnPath(s1, s1.name[b])}
           woken   == IF below # {} THEN below ELSE nearest
           s2 == mlk_wake_pending(s1, woken, live)
           D  == Deletable(s1, chain \cup Visited(s1, d))
<1>1. Release(s, d, live) = FreeNodes(s2, D)  BY DEF Release
<1>2. /\ woken \subseteq Blk /\ D \subseteq Blk /\ d \in Blk /\ s \in Space
      /\ \A b \in D : s1.pending[b] = <<>>
  <2>1. below \subseteq Blk  BY DEF mlk_tree_wake_children, Visited, Below, InUse
  <2>2. nearest \subseteq Blk /\ d \in Blk /\ s \in Space  BY DEF OnPath, InUse, Sound
  <2>3. chain \cup Visited(s1, d) \subseteq Blk  BY DEF OnPath, Visited, Below, InUse
  <2>4. D \subseteq Blk /\ \A b \in D : s1.pending[b] = <<>>
    <3> HIDE DEF s1, chain
    <3> QED  BY <2>3 DEF Deletable, Vacant
  <2> HIDE DEF below, nearest, D
  <2> QED  BY <2>1, <2>2, <2>4
<1> HIDE DEF woken, D
<1>3. s0 \in Space /\ Tidy(s0, s)  BY <1>2, ClearOwnerType, ClearOwnerTidy
<1> HIDE DEF s0
<1>4. s1 \in Space /\ Tidy(s1, s0)
  <2>1. {d} \in SUBSET Blk  BY <1>2
  <2> QED  BY <1>3, <2>1, NewSequenceType, NewSequenceTidy
<1> HIDE DEF s1
<1>5. s2 \in Space /\ Tidy(s2, s1)  BY <1>2, <1>4, WakeType, WakeTidy
<1> HIDE DEF s2
<1>6. \A b \in D : s2.pending[b] = <<>>  BY <1>2, <1>4, <1>5, ThinEmpty
<1>7. Tidy(FreeNodes(s2, D), s2)  BY <1>5, <1>6, FreeNodesTidy
<1> QED  BY <1>1, <1>3, <1>4, <1>5, <1>7, TidyTrans

LEMMA UnlockTidy ==
  ASSUME NEW s, Sound(s), NEW e, e.nodptr \in Blk \cup {NoBlk}, NEW p \in Proc, NEW live
  PROVE  Tidy(mlk_unlock(s, e, p, live), s)
<1>0. s \in Space  BY DEF Sound
<1>1. CASE ~OwnsNode(s, e, p)
  <2>1. mlk_unlock(s, e, p, live) = s  BY <1>1 DEF mlk_unlock
  <2> QED  BY <1>0, <2>1, TidySame
<1>2. CASE OwnsNode(s, e, p)
  <2>1. mlk_unlock(s, e, p, live) = Release(s, e.nodptr, live)  BY <1>2 DEF mlk_unlock
  <2>2. e.nodptr \in Blk /\ s.owner[e.nodptr] = p  BY <1>2 DEF OwnsNode
  <2>3. e.nodptr \in InUse(s)  BY <2>2, OwnedInUse, NullAssumption
  <2> QED  BY <2>1, <2>3, ReleaseTidy
<1> QED  BY <1>1, <1>2

LEMMA LkeCleartreeTidy ==
  ASSUME NEW s, Sound(s), NEW d \in Blk, NEW live, NEW t \in lke_cleartree(s, d, live)
  PROVE  Tidy(t, s)
<1>1. PICK S \in Passed(s, d) : t = lke_clearlock(FreeNodes(s, Deletable(s, S)), d, live)
  BY DEF lke_cleartree
<1> DEFINE D  == Deletable(s, S)
           r  == FreeNodes(s, D)
           s0 == ClearOwner(r, {d})
           s1 == NewSequence(s0, {d})
           s2 == mlk_wake_pending(s1, {d}, live)
<1>2. t \in {s1, s2}  BY <1>1 DEF lke_clearlock
<1>3. s \in Space /\ \A b \in D : s.pending[b] = <<>>  BY DEF Deletable, Vacant, Sound
<1> HIDE DEF D
<1>4. r \in Space /\ Tidy(r, s)  BY <1>3, FreeNodesType, FreeNodesTidy
<1> HIDE DEF r
<1>5. s0 \in Space /\ Tidy(s0, r)  BY <1>4, ClearOwnerType, ClearOwnerTidy
<1> HIDE DEF s0
<1>6. {d} \in SUBSET Blk  OBVIOUS
<1>7. s1 \in Space /\ Tidy(s1, s0)  BY <1>5, <1>6, NewSequenceType, NewSequenceTidy
<1> HIDE DEF s1
<1>8. Tidy(s2, s1)  BY <1>6, <1>7, WakeTidy
<1> HIDE DEF s2
<1>9. Tidy(s1, s)  BY <1>4, <1>5, <1>7, TidyTrans
<1> QED  BY <1>2, <1>8, <1>9, TidyTrans

LEMMA CheckOwnTidy ==
  ASSUME NEW s \in Space, NEW e, NEW live
  PROVE  Tidy(mlk_check_own(s, e, live), s)
<1>1. PICK c : c = ClearOwner(s, {e.blocked})  OBVIOUS
<1>2. mlk_check_own(s, e, live) \in {s, TakeSequence(c)}  BY <1>1 DEF mlk_check_own
<1>3. c \in Space /\ Tidy(c, s)  BY <1>1, ClearOwnerType, ClearOwnerTidy
<1>4. Tidy(TakeSequence(c), s)  BY <1>3, TakeSequenceTidy, TidyTrans
<1>5. Tidy(s, s)  BY TidySame
<1> QED  BY <1>2, <1>4, <1>5

LEMMA CleanTidy ==
  ASSUME NEW s, Sound(s), NEW dead
  PROVE  Tidy(clean_pids(s, dead), s)
<1> DEFINE queues == CleanedQueues(s, dead)
           R == {b \in InUse(s) : queues.owner[b] = NoProc}
           renumbered == NewSequence(queues, R)
           D == Deletable(renumbered, InUse(s))
<1>1. clean_pids(s, dead) = FreeNodes(renumbered, D)  BY DEF clean_pids, CleanedQueues
<1>2. queues \in Space /\ Tidy(queues, s)
  BY CleanedQueuesType, CleanedQueuesTidy DEF Sound
<1>3. R \in SUBSET Blk  BY DEF InUse
<1> HIDE DEF queues, R
<1>4. renumbered \in Space /\ Tidy(renumbered, queues)
  BY <1>2, <1>3, NewSequenceType, NewSequenceTidy
<1> HIDE DEF renumbered
<1>5. \A b \in D : renumbered.pending[b] = <<>>  BY DEF Deletable, Vacant
<1> HIDE DEF D
<1>6. Tidy(FreeNodes(renumbered, D), renumbered)  BY <1>4, <1>5, FreeNodesTidy
<1> QED  BY <1>1, <1>2, <1>4, <1>6, TidyTrans

LEMMA WalkTidy ==
  ASSUME NEW s, Sound(s), NEW p \in Proc, NEW n \in Name, NEW y \in YieldPid, NEW live
  PROVE  Tidy(Walk(s, p, n, y, live).space, s)
<1> DEFINE path == OnPath(s, n)
           yielding == {b \in path : YieldsTo(s, path, b, p, y, live)}
           cleared  == ClearOwner(s, {b \in path : Abandoned(s, b, p, live)})
           full     == Cardinality(Missing(s, n)) > Cardinality(Free(s))
           woken    == mlk_wake_pending(cleared, yielding, live)
<1>1. Walk(s, p, n, y, live).space = IF full THEN woken ELSE mlk_shrblk_create(woken, n)
  BY DEF Walk
<1>2. yielding \subseteq InUse(s) /\ s \in Space  BY DEF OnPath, Sound
<1> HIDE DEF yielding, full
<1>3. Sound(cleared) /\ cleared \in Space /\ cleared.name = s.name /\ Tidy(cleared, s)
  BY <1>2, ClearOwnerFrame, ClearOwnerType, ClearOwnerTidy
<1> HIDE DEF cleared
<1>4. yielding \in SUBSET InUse(cleared) /\ yielding \in SUBSET Blk  BY <1>2, <1>3 DEF InUse
<1>5. Sound(woken) /\ Tidy(woken, cleared)  BY <1>3, <1>4, WakeFrame, WakeTidy
<1> HIDE DEF woken
<1>6. Tidy(woken, s)  BY <1>3, <1>5, TidyTrans
<1>7. Tidy(mlk_shrblk_create(woken, n), s)  BY <1>5, <1>6, CreateTidy, TidyTrans
<1> QED  BY <1>1, <1>6, <1>7

LEMMA FindTidy ==
  ASSUME NEW s, Sound(s), NEW p \in Proc, NEW n \in Name, NEW y \in YieldPid,
         NEW live, NEW f \in mlk_shrblk_find(s, p, n, y, live)
  PROVE  Tidy(f.space, s)
<1>0. s \in Space  BY DEF Sound
<1>1. PICK v : v = Walk(s, p, n, y, live)  OBVIOUS
<1>2. v.space \in Space /\ Tidy(v.space, s)  BY <1>0, <1>1, WalkType, WalkTidy
<1>3. PICK g : g = NodeFor(v.space, n)  OBVIOUS
<1>4. \/ f.space = v.space
      \/ \E r \in mlk_find_blocking_child_lock(v.space, p, g, live) : f.space = r.space
  BY <1>1, <1>3 DEF mlk_shrblk_find
<1>5. ASSUME NEW r \in mlk_find_blocking_child_lock(v.space, p, g, live), f.space = r.space
      PROVE  Tidy(f.space, s)
  <2>1. PICK C : r.space = ClearOwner(v.space, C)  BY DEF mlk_find_blocking_child_lock
  <2>2. Tidy(r.space, v.space)  BY <1>2, <2>1, ClearOwnerTidy
  <2> QED  BY <1>2, <1>5, <2>2, TidyTrans
<1> QED  BY <1>2, <1>4, <1>5

-----------------------------------------------------------------------------
(* Joining and leaving a queue *)

LEMMA DeleteTidy ==
  ASSUME NEW s \in Space, NEW d \in Blk, NEW p \in Proc, Single(s.pending[d]),
         NEW t, t = mlk_prcblk_delete(s, d, p)
  PROVE  Tidy(t, s) /\ Queued(t, d, p) = {}
<1>0. Tidy(s, s)  BY TidySame
<1>1. CASE Queued(s, d, p) = {}  BY <1>0, <1>1 DEF mlk_prcblk_delete
<1>2. CASE Queued(s, d, p) # {}
  <2> DEFINE i == CHOOSE i \in Queued(s, d, p) : TRUE
  <2>1. PICK q \in Seq(Prcblk) : q = s.pending[d]  BY DEF Space
  <2>2. PICK k \in Nat : k = Len(q) /\ DOMAIN q = 1 .. k  BY LenProperties
  <2>3. i \in 1 .. k /\ q[i].process_id = p /\ q[i].ref_cnt = 1
    <3>1. i \in Queued(s, d, p)  BY <1>2
    <3> HIDE DEF i
    <3> QED  BY <2>1, <2>2, <3>1 DEF Queued, Single
  <2>4. t = Requeue(s, d, RemoveAt(q, i), s.prccnt + 1)
    <3>1. ~(q[i].ref_cnt > 1)  BY <2>3
    <3> QED  BY <1>2, <2>1, <3>1, Zenon DEF mlk_prcblk_delete
  <2> HIDE DEF i
  <2>5. PICK u : u = RemoveAt(q, i)  OBVIOUS
  <2>6. /\ u \in Seq(Prcblk) /\ Len(u) = k - 1 /\ DOMAIN u = 1 .. k - 1
        /\ \A j \in 1 .. k - 1 : u[j] = IF j < i THEN q[j] ELSE q[j + 1]
    <3>1. i \in 1 .. Len(q)  BY <2>2, <2>3
    <3>2. /\ u \in Seq(Prcblk) /\ Len(u) = Len(q) - 1
          /\ \A j \in 1 .. Len(q) - 1 : u[j] = IF j < i THEN q[j] ELSE q[j + 1]
      BY <2>5, <3>1, RemoveAtType
    <3> QED  BY <2>2, <3>2, LenProperties
  <2>7. /\ t.pending = [s.pending EXCEPT ![d] = u] /\ t.prccnt = s.prccnt + 1 /\ t.name = s.name
    BY <2>4, <2>5 DEF Requeue, Space
  <2>8. t.pending[d] = u /\ \A b \in Blk \ {d} : t.pending[b] = s.pending[b]
    BY <2>7 DEF Space
  <2> DEFINE up(j) == IF j < i THEN j ELSE j + 1
  <2>9. \A j \in DOMAIN u : /\ up(j) \in DOMAIN q /\ u[j] = q[up(j)] /\ up(j) # i
                            /\ \A l \in DOMAIN u : up(l) = up(j) => l = j
    BY <2>2, <2>3, <2>6
  <2> HIDE DEF up
  <2>10. Single(u)
    <3> SUFFICES ASSUME NEW j \in DOMAIN u
                 PROVE  u[j].ref_cnt = 1 /\ \A l \in DOMAIN u : u[l].process_id = u[j].process_id => l = j
      BY DEF Single
    <3>1. u[j].ref_cnt = 1  BY <2>1, <2>9 DEF Single
    <3>2. ASSUME NEW l \in DOMAIN u, u[l].process_id = u[j].process_id PROVE l = j
      <4>1. up(l) \in DOMAIN q /\ up(j) \in DOMAIN q /\ q[up(l)].process_id = q[up(j)].process_id
        BY <2>9, <3>2
      <4>2. up(l) = up(j)  BY <2>1, <4>1 DEF Single
      <4> QED  BY <2>9, <4>2
    <3> QED  BY <3>1, <3>2
  <2>11. \A j \in DOMAIN u : u[j].process_id # p
    <3> SUFFICES ASSUME NEW j \in DOMAIN u, u[j].process_id = p PROVE FALSE
      OBVIOUS
    <3>1. up(j) \in DOMAIN q /\ q[up(j)].process_id = q[i].process_id /\ i \in DOMAIN q
      BY <2>2, <2>3, <2>9
    <3> QED  BY <2>1, <2>9, <3>1 DEF Single
  <2>12. Queued(t, d, p) = {}  BY <2>8, <2>11 DEF Queued
  <2>13. Thins(t, s)
    <3> SUFFICES ASSUME NEW b \in Blk
                 PROVE  /\ Single(s.pending[b]) => Single(t.pending[b])
                        /\ \A j \in DOMAIN t.pending[b] : \E l \in DOMAIN s.pending[b] :
                             s.pending[b][l].process_id = t.pending[b][j].process_id
      BY <2>7 DEF Thins
    <3>1. CASE b # d  BY <2>8, <3>1
    <3>2. CASE b = d  BY <2>1, <2>8, <2>9, <2>10, <3>2
    <3> QED  BY <3>1, <3>2
  <2>14. ASSUME Accounted(s) PROVE Accounted(t)
    <3>1. k <= max_prccnt /\ k >= 1  BY <2>1, <2>2, <2>3, <2>14 DEF Accounted
    <3>2. Slots(t) = Slots(s) \ {<<d, k>>}
      <4>1. ASSUME NEW b \in Blk, NEW j \in 1 .. max_prccnt
            PROVE  j <= Len(t.pending[b]) <=> (j <= Len(s.pending[b]) /\ <<b, j>> # <<d, k>>)
        <5>1. CASE b # d  BY <2>8, <5>1
        <5>2. CASE b = d
          <6>1. Len(t.pending[b]) = k - 1 /\ Len(s.pending[b]) = k  BY <2>1, <2>2, <2>6, <2>8, <5>2
          <6> QED  BY <5>2, <6>1
        <5> QED  BY <5>1, <5>2
      <4> QED  BY <4>1 DEF Slots
    <3>3. <<d, k>> \in Slots(s)
      <4>1. k <= Len(s.pending[d])  BY <2>1, <2>2
      <4>2. k \in 1 .. max_prccnt  BY <3>1, SpaceAssumption
      <4> QED  BY <4>1, <4>2 DEF Slots
    <3>4. IsFiniteSet(Slots(s)) /\ Cardinality(Slots(s)) \in Nat  BY SlotsFinite
    <3>5. Cardinality(Slots(t)) = Cardinality(Slots(s)) - 1
      BY <3>2, <3>3, <3>4, FS_RemoveElement
    <3>6. \A b \in Blk : Len(t.pending[b]) <= max_prccnt
      <4> SUFFICES ASSUME NEW b \in Blk PROVE Len(t.pending[b]) <= max_prccnt
        OBVIOUS
      <4>1. CASE b # d  BY <2>8, <2>14, <4>1 DEF Accounted
      <4>2. CASE b = d
        <5>1. Len(t.pending[b]) = k - 1  BY <2>6, <2>8, <4>2
        <5> QED  BY <3>1, <5>1, SpaceAssumption
      <4> QED  BY <4>1, <4>2
    <3>7. t.prccnt \in Nat /\ t.prccnt + Cardinality(Slots(t)) = max_prccnt
      <4>1. s.prccnt \in Nat /\ s.prccnt + Cardinality(Slots(s)) = max_prccnt  BY <2>14 DEF Accounted
      <4> QED  BY <2>7, <3>4, <3>5, <4>1
    <3> QED  BY <3>6, <3>7 DEF Accounted
  <2> QED  BY <2>12, <2>13, <2>14 DEF Tidy
<1> QED  BY <1>1, <1>2

(* A process that is in no queue joins that of d, if there is a prcblk. *)
LEMMA AddTidy ==
  ASSUME NEW s \in Space, NEW d \in Blk, NEW p \in Proc, Single(s.pending[d]), Accounted(s),
         Queued(s, d, p) = {}, NEW t, t = mlk_prcblk_add(s, d, p)
  PROVE  /\ Accounted(t) /\ Single(t.pending[d]) /\ t.name = s.name /\ t.owner = s.owner
         /\ \A b \in Blk \ {d} : t.pending[b] = s.pending[b]
         /\ \A r \in Proc \ {p} : Queued(t, d, r) # {} => Queued(s, d, r) # {}
         /\ Queued(t, d, p) # {} => prcblk_added(s, d, p)
<1>0. s.prccnt \in Nat  BY DEF Accounted
<1>1. CASE s.prccnt < 1
  <2>1. t = s  BY <1>1 DEF mlk_prcblk_add
  <2> QED  BY <2>1
<1>2. CASE ~(s.prccnt < 1)
  <2> DEFINE x == [process_id |-> p, ref_cnt |-> 1]
  <2>1. PICK q \in Seq(Prcblk) : q = s.pending[d]  BY DEF Space
  <2>2. PICK k \in Nat : k = Len(q) /\ DOMAIN q = 1 .. k  BY LenProperties
  <2>3. t = Requeue(s, d, Append(q, x), s.prccnt - 1)
    BY <1>2, <2>1, Zenon DEF mlk_prcblk_add
  <2>4. x \in Prcblk /\ x.process_id = p /\ x.ref_cnt = 1  BY DEF Prcblk
  <2> HIDE DEF x
  <2>5. PICK u : u = Append(q, x)  OBVIOUS
  <2>6. /\ u \in Seq(Prcblk) /\ Len(u) = k + 1 /\ DOMAIN u = 1 .. k + 1
        /\ (\A j \in 1 .. k : u[j] = q[j]) /\ u[k + 1] = x
    BY <2>2, <2>4, <2>5, AppendProperties, LenProperties
  <2>7. t.pending = [s.pending EXCEPT ![d] = u] /\ t.prccnt = s.prccnt - 1 /\ t.name = s.name /\ t.owner = s.owner
    BY <2>3, <2>5 DEF Requeue, Space
  <2>8. t.pending[d] = u /\ \A b \in Blk \ {d} : t.pending[b] = s.pending[b]
    BY <2>7 DEF Space
  <2>9. \A j \in DOMAIN q : q[j].process_id # p  BY <2>1 DEF Queued
  <2>10. Single(u)
    <3>1. ASSUME NEW j \in DOMAIN u
          PROVE  \/ j = k + 1 /\ u[j] = x
                 \/ j \in DOMAIN q /\ u[j] = q[j] /\ j # k + 1
      BY <2>2, <2>6
    <3>2. Single(q)  BY <2>1
    <3> QED  BY <2>4, <2>9, <3>1, <3>2 DEF Single
  <2>11. ASSUME NEW r \in Proc \ {p}, Queued(t, d, r) # {} PROVE Queued(s, d, r) # {}
    <3>1. PICK j \in DOMAIN u : u[j].process_id = r  BY <2>8, <2>11 DEF Queued
    <3>2. j # k + 1  BY <2>4, <2>6, <3>1
    <3>3. j \in DOMAIN q /\ u[j] = q[j]  BY <2>2, <2>6, <3>1, <3>2
    <3> QED  BY <2>1, <3>1, <3>3 DEF Queued
  <2>12. prcblk_added(s, d, p)  BY <1>0, <1>2 DEF prcblk_added
  <2>13. IsFiniteSet(Slots(s)) /\ Cardinality(Slots(s)) \in Nat  BY SlotsFinite
  <2>14. s.prccnt >= 1 /\ s.prccnt + Cardinality(Slots(s)) = max_prccnt  BY <1>0, <1>2 DEF Accounted
  <2>15. k + 1 <= max_prccnt
    <3>1. k <= max_prccnt  BY <2>1, <2>2 DEF Accounted
    <3>2. {d} \X (1 .. k) \subseteq Slots(s)
      <4>1. ASSUME NEW j \in 1 .. k PROVE <<d, j>> \in Slots(s)
        <5>1. j \in 1 .. max_prccnt /\ j <= k  BY <3>1, SpaceAssumption
        <5>2. j <= Len(s.pending[d])  BY <2>1, <2>2, <5>1
        <5> QED  BY <5>1, <5>2 DEF Slots
      <4> QED  BY <4>1
    <3>3. IsFiniteSet({d}) /\ Cardinality({d}) = 1  BY FS_Singleton
    <3>4. IsFiniteSet(1 .. k) /\ Cardinality(1 .. k) = k
      <4>1. IsFiniteSet(1 .. k) /\ Cardinality(1 .. k) = IF 1 > k THEN 0 ELSE k - 1 + 1  BY FS_Interval
      <4> QED  BY <4>1
    <3>5. Cardinality({d} \X (1 .. k)) = Cardinality({d}) * Cardinality(1 .. k)
      BY <3>3, <3>4, FS_Product
    <3>6. Cardinality({d} \X (1 .. k)) = k  BY <3>3, <3>4, <3>5
    <3>7. Cardinality({d} \X (1 .. k)) <= Cardinality(Slots(s))  BY <2>13, <3>2, FS_Subset
    <3> QED  BY <1>0, <2>13, <2>14, <3>6, <3>7
  <2>16. Slots(t) = Slots(s) \cup {<<d, k + 1>>}
    <3>1. ASSUME NEW b \in Blk, NEW j \in 1 .. max_prccnt
          PROVE  j <= Len(t.pending[b]) <=> (j <= Len(s.pending[b]) \/ <<b, j>> = <<d, k + 1>>)
      <4>1. CASE b # d  BY <2>8, <4>1
      <4>2. CASE b = d
        <5>1. Len(t.pending[b]) = k + 1 /\ Len(s.pending[b]) = k  BY <2>1, <2>2, <2>6, <2>8, <4>2
        <5> QED  BY <4>2, <5>1
      <4> QED  BY <4>1, <4>2
    <3>2. k + 1 \in 1 .. max_prccnt  BY <2>15
    <3> QED  BY <3>1, <3>2 DEF Slots
  <2>17. <<d, k + 1>> \notin Slots(s)
    <3>1. ~(k + 1 <= Len(s.pending[d]))  BY <2>1, <2>2
    <3> QED  BY <3>1 DEF Slots
  <2>18. Cardinality(Slots(t)) = Cardinality(Slots(s)) + 1
    <3>1. PICK z : z = <<d, k + 1>>  OBVIOUS
    <3> QED  BY <2>13, <2>16, <2>17, <3>1, FS_AddElement
  <2>19. \A b \in Blk : Len(t.pending[b]) <= max_prccnt
    <3> SUFFICES ASSUME NEW b \in Blk PROVE Len(t.pending[b]) <= max_prccnt
      OBVIOUS
    <3>1. CASE b # d  BY <2>8, <3>1 DEF Accounted
    <3>2. CASE b = d  BY <2>6, <2>8, <2>15, <3>2
    <3> QED  BY <3>1, <3>2
  <2>20. Accounted(t)
    <3>1. t.prccnt \in Nat /\ t.prccnt + Cardinality(Slots(t)) = max_prccnt
      BY <1>0, <2>7, <2>13, <2>14, <2>18
    <3> QED  BY <2>19, <3>1 DEF Accounted
  <2> QED  BY <2>7, <2>8, <2>10, <2>11, <2>12, <2>20
<1> QED  BY <1>1, <1>2
=============================================================================
