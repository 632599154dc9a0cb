---------------------------- MODULE CommitProofs ----------------------------
(***************************************************************************)
(* Proofs about Commit.tla, and first about the operators of Phase2Log.tla *)
(* it is built from.                                                       *)
(***************************************************************************)
EXTENDS Commit, FiniteSetTheorems, SequenceTheorems, WellFoundedInduction, TLAPS

-----------------------------------------------------------------------------
(* The log *)

(***************************************************************************)
(* Lemmas about the operators of Phase2Log.tla: each keeps a log well typed *)
(* and its reservations a chain, in which every slot starts where the one   *)
(* before it ends.  The slot before index1 is part of the chain: it is not  *)
(* used again before index1 moves, because a full array has N - 1 entries.  *)
(***************************************************************************)

(* The slots of the published reservations. *)
InUse(L) ==
  {i \in Index : IF L.index1 <= L.index2 THEN L.index1 <= i /\ i < L.index2
                 ELSE L.index1 <= i \/ i < L.index2}

Follows(s, t) == s.start = EndOf(t) /\ s.prev_jrec_len = t.tot_jrec_len

Chain(L) ==
  /\ L.free = EndOf(L.slot[DECR(L.index1)])
  /\ \A i \in InUse(L) : Follows(L.slot[i], L.slot[DECR(i)])

(* Nothing is reserved beyond the newest slot. *)
Level(L) == L.rsrv = EndOf(Last(L)) /\ L.last = Last(L).tot_jrec_len

-----------------------------------------------------------------------------
(* Indices *)

LEMMA IndexType ==
  /\ Index \subseteq Nat /\ 0 \in Index
  /\ \A i \in Index : INCR(i) \in Index /\ DECR(i) \in Index
  /\ \A i \in Index : DECR(INCR(i)) = i /\ INCR(DECR(i)) = i /\ INCR(i) # i
BY LogAssumption DEF Index, INCR, DECR

LEMMA Mod ==
  ASSUME NEW a \in 0 .. 2 * N - 1
  PROVE  a % N = IF a < N THEN a ELSE a - N
<1>1. CASE a < N  BY <1>1, LogAssumption
<1>2. CASE a >= N  BY <1>2, LogAssumption
<1> QED  BY <1>1, <1>2, LogAssumption

LEMMA UsedIs ==
  ASSUME NEW L, L.index1 \in Index, L.index2 \in Index
  PROVE  /\ Used(L) = IF L.index1 <= L.index2 THEN L.index2 - L.index1
                      ELSE L.index2 - L.index1 + N
         /\ Used(L) \in 0 .. N - 1
<1>1. L.index2 - L.index1 + N \in 0 .. 2 * N - 1  BY LogAssumption DEF Index
<1>2. Used(L) = IF L.index2 - L.index1 + N < N THEN L.index2 - L.index1 + N
                ELSE L.index2 - L.index1 + N - N
  <2>1. PICK a : a = L.index2 - L.index1 + N  OBVIOUS
  <2>2. a % N = IF a < N THEN a ELSE a - N  BY <1>1, <2>1, Mod
  <2>3. a % N = Used(L)  BY <2>1, Zenon DEF Used
  <2> QED  BY <2>1, <2>2, <2>3, LogAssumption DEF Index
<1> QED  BY <1>2, LogAssumption DEF Index

LEMMA AtIs ==
  ASSUME NEW L, L.index1 \in Index, NEW k \in 0 .. N - 1
  PROVE  /\ At(L, k) = IF L.index1 + k < N THEN L.index1 + k ELSE L.index1 + k - N
         /\ At(L, k) \in Index
<1>1. L.index1 + k \in 0 .. 2 * N - 1  BY LogAssumption DEF Index
<1>2. At(L, k) = IF L.index1 + k < N THEN L.index1 + k ELSE L.index1 + k - N
  <2>1. PICK a : a = L.index1 + k  OBVIOUS
  <2>2. a % N = IF a < N THEN a ELSE a - N  BY <1>1, <2>1, Mod
  <2>3. a % N = At(L, k)  BY <2>1, Zenon DEF At
  <2> QED  BY <2>1, <2>2, <2>3, LogAssumption DEF Index
<1> QED  BY <1>2, LogAssumption DEF Index

(* Every slot in use has an age, and the next one is one older. *)
LEMMA InUseAt ==
  ASSUME NEW L, L.index1 \in Index, L.index2 \in Index
  PROVE  /\ \A k \in 0 .. Used(L) - 1 : At(L, k) \in InUse(L)
         /\ \A i \in InUse(L) : \E k \in 0 .. Used(L) - 1 : i = At(L, k)
         /\ \A k \in 1 .. Used(L) : DECR(At(L, k)) = At(L, k - 1)
         /\ At(L, 0) = L.index1 /\ At(L, Used(L)) = L.index2
<1>1. /\ Used(L) = IF L.index1 <= L.index2 THEN L.index2 - L.index1
                   ELSE L.index2 - L.index1 + N
      /\ Used(L) \in 0 .. N - 1
  BY UsedIs
<1>2. \A k \in 0 .. N - 1 :
        At(L, k) = IF L.index1 + k < N THEN L.index1 + k ELSE L.index1 + k - N
  BY AtIs
<1>3. ASSUME NEW k \in 0 .. Used(L) - 1  PROVE At(L, k) \in InUse(L)
  BY <1>1, <1>2, LogAssumption DEF Index, InUse
<1>4. ASSUME NEW i \in InUse(L)  PROVE \E k \in 0 .. Used(L) - 1 : i = At(L, k)
  <2>1. CASE L.index1 <= i
    <3>1. i - L.index1 \in 0 .. Used(L) - 1  BY <1>1, <2>1, LogAssumption DEF Index, InUse
    <3>2. i = At(L, i - L.index1)  BY <1>1, <1>2, <3>1, <2>1, LogAssumption DEF Index, InUse
    <3> QED  BY <3>1, <3>2
  <2>2. CASE i < L.index1
    <3>1. i - L.index1 + N \in 0 .. Used(L) - 1  BY <1>1, <2>2, LogAssumption DEF Index, InUse
    <3>2. i = At(L, i - L.index1 + N)
      BY <1>1, <1>2, <3>1, <2>2, LogAssumption DEF Index, InUse
    <3> QED  BY <3>1, <3>2
  <2> QED  BY <2>1, <2>2, LogAssumption DEF Index, InUse
<1>5. ASSUME NEW k \in 1 .. Used(L)  PROVE DECR(At(L, k)) = At(L, k - 1)
  BY <1>1, <1>2, LogAssumption DEF Index, DECR
<1>6. At(L, 0) = L.index1  BY <1>2, LogAssumption DEF Index
<1>7. At(L, Used(L)) = L.index2  BY <1>1, <1>2, LogAssumption DEF Index
<1> QED  BY <1>3, <1>4, <1>5, <1>6, <1>7

(* A chain covers what lies between free and rsrv. *)
LEMMA ChainTiles ==
  ASSUME NEW L, L.index1 \in Index, L.index2 \in Index, Chain(L), Level(L)
  PROVE  Tiles(L)
<1>1. Used(L) \in 0 .. N - 1  BY UsedIs
<1>2. ASSUME NEW k \in 0 .. Used(L) - 1
      PROVE  L.slot[At(L, k)].start =
               IF k = 0 THEN L.free ELSE EndOf(L.slot[At(L, k - 1)])
  <2>1. At(L, k) \in InUse(L)  BY InUseAt
  <2>2. L.slot[At(L, k)].start = EndOf(L.slot[DECR(At(L, k))])  BY <2>1 DEF Chain, Follows
  <2>3. CASE k = 0  BY <2>2, <2>3, InUseAt DEF Chain
  <2>4. CASE k # 0
    <3>1. k \in 1 .. Used(L)  BY <1>1, <2>4
    <3> QED  BY <2>2, <2>4, <3>1, InUseAt
  <2> QED  BY <2>3, <2>4
<1>3. L.rsrv = IF Used(L) = 0 THEN L.free ELSE EndOf(Last(L))
  <2>1. CASE Used(L) = 0
    <3>1. L.index1 = L.index2  BY <2>1, InUseAt
    <3> QED  BY <3>1, <2>1 DEF Chain, Level, Last
  <2> QED  BY <2>1 DEF Level
<1> QED  BY <1>2, <1>3 DEF Tiles

-----------------------------------------------------------------------------
(* Files *)

LEMMA GarbageType == Garbage \in Record
BY DEF Garbage, Record, Kind

LEMMA StoreIs ==
  ASSUME NEW f \in Seq(Record), NEW a \in Nat, NEW rec \in Record, NEW g, g = Store(f, a, rec)
  PROVE  /\ g \in Seq(Record)
         /\ Len(g) = IF a < Len(f) THEN Len(f) ELSE a + 1
         /\ \A i \in 1 .. Len(g) :
              g[i] = IF i = a + 1 THEN rec ELSE IF i <= Len(f) THEN f[i] ELSE Garbage
<1> DEFINE n == IF a < Len(f) THEN Len(f) ELSE a + 1
<1>1. Len(f) \in Nat /\ n \in Nat  BY LenProperties
<1>2. \A i \in 1 .. n : g[i] = IF i = a + 1 THEN rec ELSE IF i <= Len(f) THEN f[i] ELSE Garbage
  BY DEF Store
<1>3. \A i \in 1 .. n : g[i] \in Record  BY <1>1, <1>2, GarbageType, ElementOfSeq
<1>4. g \in [1 .. n -> Record]  BY <1>3 DEF Store
<1>5. g \in Seq(Record)  BY <1>1, <1>4, SeqDef
<1>6. Len(g) = n
  <2>1. DOMAIN g = 1 .. n  BY <1>4
  <2>2. Len(g) \in Nat /\ DOMAIN g = 1 .. Len(g)  BY <1>5, LenProperties
  <2> QED  BY <1>1, <2>1, <2>2
<1> QED  BY <1>2, <1>5, <1>6

LEMMA MaxIs ==
  ASSUME NEW S, S \subseteq Nat, NEW b \in Nat, \A x \in S : x <= b, S # {}
  PROVE  Max(S) \in S /\ \A x \in S : x <= Max(S)
<1> DEFINE T == {n \in Nat : \A x \in S : x <= n}
<1>1. b \in T  OBVIOUS
<1>2. \E n \in T : \A y \in T : ~(<<y, n>> \in OpToRel(<, Nat))
  BY <1>1, NatLessThanWellFounded, WFMin
<1>3. PICK n \in T : \A y \in T : ~(<<y, n>> \in OpToRel(<, Nat))  BY <1>2
<1>4. n \in Nat /\ (\A y \in T : ~(y < n)) /\ \A x \in S : x <= n
  BY <1>3 DEF OpToRel
<1>5. n \in S
  <2>1. CASE n = 0
    <3>1. PICK x \in S : TRUE  OBVIOUS
    <3>2. x \in Nat /\ x <= 0  BY <2>1, <1>4
    <3> QED  BY <2>1, <3>2
  <2>2. CASE n # 0
    <3> SUFFICES ASSUME n \notin S  PROVE FALSE  OBVIOUS
    <3>1. ASSUME NEW x \in S  PROVE x <= n - 1
      <4>1. x \in Nat /\ x <= n /\ x # n  BY <1>4
      <4> QED  BY <4>1, <1>4
    <3>2. n - 1 \in T  BY <3>1, <2>2, <1>4
    <3> QED  BY <3>2, <1>4
  <2> QED  BY <2>1, <2>2
<1>6. \E x \in S : \A y \in S : x >= y  BY <1>3, <1>5
<1> HIDE DEF T
<1>7. Max(S) \in S /\ \A y \in S : Max(S) >= y  BY <1>6 DEF Max
<1> QED  BY <1>7

LEMMA MinIs ==
  ASSUME NEW S, S \subseteq Nat, S # {}
  PROVE  Min(S) \in S /\ \A x \in S : Min(S) <= x
<1>2. \E n \in S : \A y \in S : ~(<<y, n>> \in OpToRel(<, Nat))
  BY NatLessThanWellFounded, WFMin
<1>3. PICK n \in S : \A y \in S : ~(<<y, n>> \in OpToRel(<, Nat))  BY <1>2
<1>4. n \in Nat /\ \A y \in S : ~(y < n)  BY <1>3 DEF OpToRel
<1>5. \E x \in S : \A y \in S : x =< y  BY <1>4
<1> QED  BY <1>5 DEF Min

(* The salvage of slots that start below b. *)
LEMMA NullifiedIs ==
  ASSUME NEW f \in Seq(Record), NEW S, S \subseteq Slot, NEW b \in Nat,
         \A s \in S : s.start < b, NEW g, g = Nullified(f, S)
  PROVE  /\ g \in Seq(Record) /\ Len(f) <= Len(g)
         /\ \A i \in 1 .. Len(g) : (\A s \in S : s.start + 1 # i) =>
              g[i] = IF i <= Len(f) THEN f[i] ELSE Garbage
         /\ \A s \in S : /\ s.start + 1 \in 1 .. Len(g)
                         /\ \E t \in S : t.start = s.start /\ g[s.start + 1] = SalvageRecord(t)
<1> DEFINE E == {Len(f)} \cup {s.start + 1 : s \in S}
           n == Max(E)
<1>1. Len(f) \in Nat  BY LenProperties
<1>2. \A s \in S : s.start \in Nat  BY DEF Slot
<1>3. E \subseteq Nat /\ E # {}  BY <1>1, <1>2
<1>4. \A x \in E : x <= Len(f) + b  BY <1>1, <1>2
<1>5. n \in E /\ \A x \in E : x <= n
  <2>1. Len(f) + b \in Nat  BY <1>1
  <2> HIDE DEF E
  <2> QED  BY <2>1, <1>3, <1>4, MaxIs
<1>6. n \in Nat  BY <1>5, <1>3
<1>7. g = [i \in 1 .. n |->
             IF \E s \in S : s.start + 1 = i THEN SalvageRecord(CHOOSE s \in S : s.start + 1 = i)
             ELSE IF i <= Len(f) THEN f[i] ELSE Garbage]
  BY DEF Nullified
<1>8. Len(f) <= n /\ \A s \in S : s.start + 1 \in 1 .. n  BY <1>5, <1>2, <1>6
<1> HIDE DEF n
<1>9. \A s \in Slot : SalvageRecord(s) \in Record  BY DEF SalvageRecord, Record, Slot, Kind
<1>10. ASSUME NEW i \in 1 .. n  PROVE g[i] \in Record
  <2>1. CASE \E s \in S : s.start + 1 = i
    <3>1. (CHOOSE s \in S : s.start + 1 = i) \in S  BY <2>1
    <3>2. g[i] = SalvageRecord(CHOOSE s \in S : s.start + 1 = i)  BY <1>7, <2>1
    <3> QED  BY <3>1, <3>2, <1>9
  <2>2. CASE ~\E s \in S : s.start + 1 = i
    <3>1. g[i] = IF i <= Len(f) THEN f[i] ELSE Garbage  BY <1>7, <2>2
    <3> QED  BY <3>1, <1>1, <1>6, GarbageType, ElementOfSeq
  <2> QED  BY <2>1, <2>2
<1>11. g \in [1 .. n -> Record]  BY <1>7, <1>10
<1>12. g \in Seq(Record)  BY <1>6, <1>11, SeqDef
<1>13. Len(g) = n
  <2>1. DOMAIN g = 1 .. n  BY <1>11
  <2>2. Len(g) \in Nat /\ DOMAIN g = 1 .. Len(g)  BY <1>12, LenProperties
  <2> QED  BY <1>6, <2>1, <2>2
<1>14. ASSUME NEW i \in 1 .. Len(g), \A s \in S : s.start + 1 # i
       PROVE  g[i] = IF i <= Len(f) THEN f[i] ELSE Garbage
  BY <1>7, <1>13, <1>14
<1>15. ASSUME NEW s \in S
       PROVE  \E t \in S : t.start = s.start /\ g[s.start + 1] = SalvageRecord(t)
  <2> DEFINE t == CHOOSE t \in S : t.start + 1 = s.start + 1
  <2>1. t \in S /\ t.start + 1 = s.start + 1  OBVIOUS
  <2>2. s.start + 1 \in 1 .. n  BY <1>8
  <2>3. g[s.start + 1] = SalvageRecord(t)  BY <1>7, <2>2
  <2> HIDE DEF t
  <2>4. t.start = s.start  BY <2>1, <1>2
  <2> QED  BY <2>1, <2>3, <2>4
<1> QED  BY <1>8, <1>12, <1>13, <1>14, <1>15

-----------------------------------------------------------------------------
(* The operators of a reservation *)

LEMMA LogFields ==
  ASSUME NEW L \in Log
  PROVE  /\ L.free \in Nat /\ L.rsrv \in Nat /\ L.last \in Nat
         /\ L.index1 \in Index /\ L.index2 \in Index
         /\ L.slot \in [Index -> Slot] /\ L.file \in Seq(Record)
BY DEF Log

LEMMA SlotFields ==
  ASSUME NEW s \in Slot
  PROVE  /\ s.process_id \in Proc \cup {NoProc}
         /\ s.curr_tn \in Nat /\ s.jnl_seqno \in Nat /\ s.start \in Nat
         /\ s.tot_jrec_len \in Nat /\ s.prev_jrec_len \in Nat /\ EndOf(s) \in Nat
BY DEF Slot, EndOf

LEMMA LastType ==
  ASSUME NEW L \in Log
  PROVE  Last(L) \in Slot
BY LogFields, IndexType DEF Last

LEMMA EmptyIs ==
  /\ EmptyLog \in Log /\ InUse(EmptyLog) = {}
  /\ Chain(EmptyLog) /\ Level(EmptyLog)
  /\ \A i \in Index : EmptyLog.slot[i] = EmptySlot
<1>1. EmptySlot \in Slot  BY DEF EmptySlot, Slot
<1>2. EmptyLog \in Log  BY <1>1, IndexType, EmptySeq DEF EmptyLog, Log
<1>3. \A i \in Index : EmptyLog.slot[i] = EmptySlot  BY DEF EmptyLog
<1>4. /\ EmptyLog.free = 0 /\ EmptyLog.rsrv = 0 /\ EmptyLog.last = 0
      /\ EmptyLog.index1 = 0 /\ EmptyLog.index2 = 0
  BY DEF EmptyLog
<1>5. EndOf(EmptySlot) = 0 /\ EmptySlot.tot_jrec_len = 0  BY DEF EmptySlot, EndOf
<1>6. InUse(EmptyLog) = {}  BY <1>4, LogAssumption DEF InUse, Index
<1>7. DECR(0) \in Index  BY IndexType
<1> QED  BY <1>2, <1>3, <1>4, <1>5, <1>6, <1>7 DEF Chain, Level, Last

(* The slot that a reservation stores. *)
Placed(L, s) == [s EXCEPT !.start = L.rsrv, !.prev_jrec_len = L.last]

LEMMA PlacedIs ==
  ASSUME NEW L \in Log, NEW s \in Slot, NEW t, t = Placed(L, s)
  PROVE  /\ t \in Slot
         /\ t.start = L.rsrv /\ t.prev_jrec_len = L.last /\ t.tot_jrec_len = s.tot_jrec_len
         /\ t.process_id = s.process_id /\ t.curr_tn = s.curr_tn /\ t.jnl_seqno = s.jnl_seqno
         /\ t.in_phase2 = s.in_phase2 /\ t.write_complete = s.write_complete
BY LogFields DEF Slot, Placed

LEMMA ReserveIs ==
  ASSUME NEW L \in Log, NEW s \in Slot, NEW M, M = Reserve(L, s)
  PROVE  /\ M \in Log
         /\ M.free = L.free /\ M.index1 = L.index1 /\ M.index2 = L.index2 /\ M.file = L.file
         /\ M.rsrv = L.rsrv + s.tot_jrec_len /\ M.last = s.tot_jrec_len
         /\ M.slot[L.index2] = Placed(L, s)
         /\ \A i \in Index : i # L.index2 => M.slot[i] = L.slot[i]
<1> DEFINE t == Placed(L, s)
<1>1. t \in Slot  BY PlacedIs
<1>2. PICK u : u = [L.slot EXCEPT ![L.index2] = t]  OBVIOUS
<1>3. u \in [Index -> Slot] /\ u[L.index2] = t /\ \A i \in Index : i # L.index2 => u[i] = L.slot[i]
  BY <1>1, <1>2, LogFields
<1>4. M = [L EXCEPT !.slot = u, !.last = s.tot_jrec_len, !.rsrv = L.rsrv + s.tot_jrec_len]
  BY <1>2, Zenon DEF Reserve, Placed
<1> HIDE DEF t
<1>5. s.tot_jrec_len \in Nat /\ L.rsrv + s.tot_jrec_len \in Nat  BY SlotFields, LogFields
<1>6. M \in Log /\ M.slot = u  BY <1>3, <1>4, <1>5 DEF Log
<1>7. /\ M.free = L.free /\ M.index1 = L.index1 /\ M.index2 = L.index2 /\ M.file = L.file
      /\ M.rsrv = L.rsrv + s.tot_jrec_len /\ M.last = s.tot_jrec_len
  BY <1>4 DEF Log
<1> QED  BY <1>3, <1>6, <1>7 DEF t

LEMMA PublishIs ==
  ASSUME NEW L \in Log, NEW M, M = Publish(L)
  PROVE  /\ M \in Log
         /\ M.free = L.free /\ M.rsrv = L.rsrv /\ M.last = L.last /\ M.file = L.file
         /\ M.index1 = L.index1 /\ M.index2 = INCR(L.index2) /\ M.slot = L.slot
BY LogFields, IndexType DEF Log, Publish

LEMMA WithdrawIs ==
  ASSUME NEW L \in Log, NEW M, M = Withdraw(L)
  PROVE  /\ M \in Log
         /\ M.free = L.free /\ M.rsrv = Last(L).start /\ M.last = Last(L).prev_jrec_len
         /\ M.file = L.file
         /\ M.index1 = L.index1 /\ M.index2 = DECR(L.index2) /\ M.slot = L.slot
<1>1. Last(L).start \in Nat /\ Last(L).prev_jrec_len \in Nat  BY LastType, SlotFields
<1>2. DECR(L.index2) \in Index  BY LogFields, IndexType
<1> QED  BY <1>1, <1>2 DEF Log, Withdraw

LEMMA RealignIs ==
  ASSUME NEW L \in Log, NEW M, M = Realign(L)
  PROVE  /\ M \in Log /\ Level(M)
         /\ M.free = L.free /\ M.index1 = L.index1 /\ M.index2 = L.index2
         /\ M.slot = L.slot /\ M.file = L.file
         /\ M.rsrv = EndOf(Last(L)) /\ M.last = Last(L).tot_jrec_len
<1>1. EndOf(Last(L)) \in Nat /\ Last(L).tot_jrec_len \in Nat  BY LastType, SlotFields
<1>2. /\ M \in Log
      /\ M.free = L.free /\ M.index1 = L.index1 /\ M.index2 = L.index2
      /\ M.slot = L.slot /\ M.file = L.file
      /\ M.rsrv = EndOf(Last(L)) /\ M.last = Last(L).tot_jrec_len
  BY <1>1 DEF Log, Realign
<1>3. Last(M) = Last(L)  BY <1>2 DEF Last
<1> QED  BY <1>2, <1>3 DEF Level

LEMMA InUseFrame ==
  ASSUME NEW L, NEW M, M.index1 = L.index1, M.index2 = L.index2
  PROVE  InUse(M) = InUse(L) /\ Full(M) = Full(L)
BY DEF InUse, Full

(* Where the ends of the array are. *)
LEMMA InUseEnds ==
  ASSUME NEW L \in Log
  PROVE  /\ InUse(L) \subseteq Index /\ L.index2 \notin InUse(L)
         /\ ~Full(L) => \A i \in InUse(L) : DECR(i) # L.index2
         /\ L.index1 = L.index2 => InUse(L) = {}
         /\ L.index1 # L.index2 => L.index1 \in InUse(L) /\ DECR(L.index2) \in InUse(L)
         /\ \A i \in InUse(L) : i # L.index1 => DECR(i) \in InUse(L)
         /\ ~Full(L) => DECR(L.index1) # L.index2
<1> USE LogFields, LogAssumption DEF InUse, Index, DECR
<1>1. InUse(L) \subseteq Index /\ L.index2 \notin InUse(L)  OBVIOUS
<1>2. ~Full(L) => \A i \in InUse(L) : DECR(i) # L.index2  BY DEF INCR, Full
<1>3. L.index1 = L.index2 => InUse(L) = {}  OBVIOUS
<1>4. L.index1 # L.index2 => L.index1 \in InUse(L) /\ DECR(L.index2) \in InUse(L)  OBVIOUS
<1>5. \A i \in InUse(L) : i # L.index1 => DECR(i) \in InUse(L)  OBVIOUS
<1>6. ~Full(L) => DECR(L.index1) # L.index2  BY DEF INCR, Full
<1> QED  BY <1>1, <1>2, <1>3, <1>4, <1>5, <1>6

LEMMA InUsePublish ==
  ASSUME NEW L \in Log, NEW M, M.index1 = L.index1, M.index2 = INCR(L.index2), ~Full(L)
  PROVE  InUse(M) = InUse(L) \cup {L.index2}
BY LogFields, LogAssumption DEF InUse, Index, INCR, Full

LEMMA InUseWithdraw ==
  ASSUME NEW L \in Log, NEW M, M.index1 = L.index1, M.index2 = DECR(L.index2),
         L.index1 # L.index2
  PROVE  InUse(M) = InUse(L) \ {DECR(L.index2)} /\ ~Full(M)
BY LogFields, LogAssumption DEF InUse, Index, INCR, DECR, Full

(* A reservation is chained to the newest slot; it becomes part of the chain *)
(* when it is published.                                                     *)
LEMMA ReserveChain ==
  ASSUME NEW L \in Log, NEW s \in Slot, NEW M, M = Reserve(L, s), Chain(L), Level(L), ~Full(L)
  PROVE  /\ Chain(M) /\ Last(M) = Last(L)
         /\ Follows(M.slot[M.index2], Last(M))
         /\ M.rsrv = EndOf(M.slot[M.index2]) /\ M.last = M.slot[M.index2].tot_jrec_len
<1> DEFINE t == Placed(L, s)
<1>1. /\ M.free = L.free /\ M.index1 = L.index1 /\ M.index2 = L.index2
      /\ M.rsrv = L.rsrv + s.tot_jrec_len /\ M.last = s.tot_jrec_len
      /\ M.slot[L.index2] = t
      /\ \A i \in Index : i # L.index2 => M.slot[i] = L.slot[i]
  BY ReserveIs
<1>2. t.start = L.rsrv /\ t.prev_jrec_len = L.last /\ t.tot_jrec_len = s.tot_jrec_len
  BY PlacedIs
<1> HIDE DEF t
<1>3. DECR(L.index2) \in Index /\ DECR(L.index2) # L.index2
  BY LogFields, LogAssumption DEF Index, DECR
<1>4. Last(M) = Last(L)  BY <1>1, <1>3 DEF Last
<1>5. M.slot[DECR(M.index1)] = L.slot[DECR(L.index1)]
  <2>1. DECR(L.index1) \in Index /\ DECR(L.index1) # L.index2  BY InUseEnds, LogFields, IndexType
  <2> QED  BY <1>1, <2>1
<1>6. ASSUME NEW i \in InUse(M)  PROVE Follows(M.slot[i], M.slot[DECR(i)])
  <2>1. i \in InUse(L)  BY <1>1, InUseFrame
  <2>2. i \in Index /\ i # L.index2 /\ DECR(i) \in Index /\ DECR(i) # L.index2
    BY <2>1, InUseEnds, IndexType
  <2>3. Follows(L.slot[i], L.slot[DECR(i)])  BY <2>1 DEF Chain
  <2> QED  BY <2>2, <2>3, <1>1
<1>7. Chain(M)  BY <1>1, <1>5, <1>6 DEF Chain
<1>8. Follows(M.slot[M.index2], Last(M))
  BY <1>1, <1>2, <1>4 DEF Follows, Level
<1>9. M.rsrv = EndOf(M.slot[M.index2]) /\ M.last = M.slot[M.index2].tot_jrec_len
  BY <1>1, <1>2 DEF EndOf
<1> QED  BY <1>4, <1>7, <1>8, <1>9

LEMMA PublishChain ==
  ASSUME NEW L \in Log, NEW M, M = Publish(L), Chain(L), ~Full(L),
         Follows(L.slot[L.index2], Last(L)),
         L.rsrv = EndOf(L.slot[L.index2]), L.last = L.slot[L.index2].tot_jrec_len
  PROVE  Chain(M) /\ Level(M) /\ Last(M) = L.slot[L.index2]
<1>1. /\ M.free = L.free /\ M.rsrv = L.rsrv /\ M.last = L.last
      /\ M.index1 = L.index1 /\ M.index2 = INCR(L.index2) /\ M.slot = L.slot
  BY PublishIs
<1>2. InUse(M) = InUse(L) \cup {L.index2}  BY <1>1, InUsePublish
<1>3. DECR(M.index2) = L.index2  BY <1>1, LogFields, IndexType
<1>4. Last(M) = L.slot[L.index2]  BY <1>1, <1>3 DEF Last
<1>5. ASSUME NEW i \in InUse(M)  PROVE Follows(M.slot[i], M.slot[DECR(i)])
  <2>1. CASE i \in InUse(L)  BY <2>1, <1>1 DEF Chain
  <2>2. CASE i = L.index2  BY <2>2, <1>1 DEF Last
  <2> QED  BY <1>2, <2>1, <2>2
<1> QED  BY <1>1, <1>4, <1>5 DEF Chain, Level

LEMMA WithdrawChain ==
  ASSUME NEW L \in Log, NEW M, M = Withdraw(L), Chain(L), L.index1 # L.index2
  PROVE  /\ Chain(M) /\ Level(M) /\ Last(M) = L.slot[DECR(DECR(L.index2))]
         /\ InUse(M) = InUse(L) \ {DECR(L.index2)} /\ DECR(L.index2) \in InUse(L)
<1>1. /\ M.free = L.free /\ M.rsrv = Last(L).start /\ M.last = Last(L).prev_jrec_len
      /\ M.index1 = L.index1 /\ M.index2 = DECR(L.index2) /\ M.slot = L.slot
  BY WithdrawIs
<1>2. InUse(M) = InUse(L) \ {DECR(L.index2)}  BY <1>1, InUseWithdraw
<1>3. DECR(L.index2) \in InUse(L)  BY InUseEnds
<1>4. Follows(Last(L), L.slot[DECR(DECR(L.index2))])  BY <1>3 DEF Chain, Last
<1>5. Last(M) = L.slot[DECR(DECR(L.index2))]  BY <1>1 DEF Last
<1>6. Chain(M)  BY <1>1, <1>2 DEF Chain
<1>7. Level(M)  BY <1>1, <1>4, <1>5 DEF Level, Follows
<1> QED  BY <1>2, <1>3, <1>5, <1>6, <1>7

(* A set of ages that holds 0 and with each age the next holds all. *)
LEMMA AllAges ==
  ASSUME NEW m \in Nat, NEW S, m > 0 => 0 \in S,
         \A k \in 1 .. m - 1 : k - 1 \in S => k \in S
  PROVE  \A k \in 0 .. m - 1 : k \in S
<1> SUFFICES ASSUME NEW a \in 0 .. m - 1, a \notin S  PROVE FALSE  OBVIOUS
<1> DEFINE T == {n \in Nat : n \in 0 .. m - 1 /\ n \notin S}
<1>1. a \in T  OBVIOUS
<1>2. \E n \in T : \A y \in T : ~(<<y, n>> \in OpToRel(<, Nat))
  BY <1>1, NatLessThanWellFounded, WFMin
<1>3. PICK n \in T : \A y \in T : ~(<<y, n>> \in OpToRel(<, Nat))  BY <1>2
<1>4. n \in 0 .. m - 1 /\ n \notin S /\ \A y \in T : ~(y < n)  BY <1>3 DEF OpToRel
<1>5. n # 0  BY <1>4
<1>6. n - 1 \in S  BY <1>4, <1>5
<1> QED  BY <1>4, <1>5, <1>6

(* In a chain no reservation starts below free. *)
LEMMA AboveFree ==
  ASSUME NEW L \in Log, Chain(L)
  PROVE  /\ \A i \in InUse(L) : L.free <= L.slot[i].start
         /\ L.free <= EndOf(Last(L))
<1> DEFINE S == {k \in 0 .. Used(L) - 1 : L.free <= L.slot[At(L, k)].start}
<1>1. Used(L) \in 0 .. N - 1 /\ N \in Nat  BY LogFields, UsedIs, LogAssumption
<1>2. L.free \in Nat /\ \A i \in Index : L.slot[i].start \in Nat /\ EndOf(L.slot[i]) \in Nat
                                         /\ L.slot[i].start <= EndOf(L.slot[i])
  BY LogFields, SlotFields DEF EndOf
<1>3. ASSUME NEW k \in 0 .. Used(L) - 1
      PROVE  /\ At(L, k) \in InUse(L) /\ At(L, k) \in Index /\ DECR(At(L, k)) \in Index
             /\ L.slot[At(L, k)].start = EndOf(L.slot[DECR(At(L, k))])
  <2>1. At(L, k) \in InUse(L)  BY LogFields, InUseAt
  <2> QED  BY <2>1, IndexType DEF Chain, Follows, InUse
<1>4. Used(L) > 0 => 0 \in S
  <2>1. At(L, 0) = L.index1  BY LogFields, InUseAt
  <2> QED  BY <1>1, <1>2, <1>3, <2>1 DEF Chain
<1>5. ASSUME NEW k \in 1 .. Used(L) - 1, k - 1 \in S  PROVE k \in S
  <2>1. DECR(At(L, k)) = At(L, k - 1)  BY <1>1, LogFields, InUseAt
  <2>2. k \in 0 .. Used(L) - 1 /\ k - 1 \in 0 .. Used(L) - 1  BY <1>1
  <2>3. L.slot[At(L, k)].start = EndOf(L.slot[At(L, k - 1)])  BY <1>3, <2>1, <2>2
  <2>4. At(L, k) \in Index /\ At(L, k - 1) \in Index  BY <1>3, <2>2
  <2> QED  BY <1>2, <1>5, <2>2, <2>3, <2>4
<1>6. \A k \in 0 .. Used(L) - 1 : k \in S
  <2> HIDE DEF S
  <2> QED  BY <1>1, <1>4, <1>5, AllAges
<1>7. \A i \in InUse(L) : L.free <= L.slot[i].start
  <2> SUFFICES ASSUME NEW i \in InUse(L)  PROVE L.free <= L.slot[i].start  OBVIOUS
  <2>1. PICK k \in 0 .. Used(L) - 1 : i = At(L, k)  BY LogFields, InUseAt
  <2> QED  BY <1>6, <2>1
<1>8. L.free <= EndOf(Last(L))
  <2>1. CASE L.index1 = L.index2  BY <1>2, <2>1 DEF Chain, Last
  <2>2. CASE L.index1 # L.index2
    <3>1. DECR(L.index2) \in InUse(L) /\ DECR(L.index2) \in Index  BY <2>2, InUseEnds DEF InUse
    <3> QED  BY <1>2, <1>7, <3>1 DEF Last
  <2> QED  BY <2>1, <2>2
<1> QED  BY <1>7, <1>8

-----------------------------------------------------------------------------
(* Completion, salvage and hand-over *)

Alike(s, t) ==
  /\ s.process_id = t.process_id /\ s.curr_tn = t.curr_tn /\ s.jnl_seqno = t.jnl_seqno
  /\ s.start = t.start /\ s.tot_jrec_len = t.tot_jrec_len
  /\ s.prev_jrec_len = t.prev_jrec_len /\ s.in_phase2 = t.in_phase2

(* M is L after slots of C have been completed and some of the oldest, all  *)
(* complete, handed over.                                                   *)
Tidied(M, L, C) ==
  /\ M \in Log /\ M.rsrv = L.rsrv /\ M.last = L.last /\ M.index2 = L.index2
  /\ \A i \in Index : Alike(M.slot[i], L.slot[i])
  /\ InUse(M) \subseteq InUse(L)
  /\ \A i \in InUse(L) : i \in InUse(M) \/ M.slot[i].write_complete
  /\ \A i \in Index : /\ L.slot[i].write_complete => M.slot[i].write_complete
                      /\ M.slot[i].write_complete => L.slot[i].write_complete \/ i \in C

LEMMA FollowsAlike ==
  ASSUME NEW s, NEW t, NEW u, NEW v, Alike(u, s), Alike(v, t), Follows(s, t)
  PROVE  Follows(u, v)
BY DEF Alike, Follows, EndOf

LEMMA EndOfAlike ==
  ASSUME NEW s, NEW t, Alike(s, t)
  PROVE  EndOf(s) = EndOf(t)
BY DEF Alike, EndOf

LEMMA LevelTidied ==
  ASSUME NEW L \in Log, NEW M, NEW C, Tidied(M, L, C)
  PROVE  Alike(Last(M), Last(L)) /\ (Level(L) => Level(M))
<1>1. DECR(L.index2) \in Index /\ M.index2 = L.index2  BY LogFields, IndexType DEF Tidied
<1>2. Alike(Last(M), Last(L))  BY <1>1 DEF Tidied, Last
<1>3. EndOf(Last(M)) = EndOf(Last(L)) /\ Last(M).tot_jrec_len = Last(L).tot_jrec_len
  BY <1>2, EndOfAlike DEF Alike
<1> QED  BY <1>2, <1>3 DEF Tidied, Level

LEMMA TidiedTrans ==
  ASSUME NEW K, NEW L, NEW M, NEW C, NEW D, L \in Log, K \in Log,
         Tidied(L, K, C), Tidied(M, L, D)
  PROVE  Tidied(M, K, C \cup D)
<1>1. \A i \in Index : Alike(M.slot[i], K.slot[i])  BY DEF Tidied, Alike
<1>2. ASSUME NEW i \in InUse(K)  PROVE i \in InUse(M) \/ M.slot[i].write_complete
  <2>1. CASE i \in InUse(L)  BY <2>1 DEF Tidied
  <2>2. CASE i \notin InUse(L)
    <3>1. i \in Index /\ L.slot[i].write_complete  BY <2>2 DEF Tidied, InUse
    <3> QED  BY <3>1 DEF Tidied
  <2> QED  BY <2>1, <2>2
<1> QED  BY <1>1, <1>2 DEF Tidied

(* Numbers given to the slots have a bound. *)
LEMMA SlotsBounded ==
  ASSUME NEW f \in [Index -> Nat]
  PROVE  \E b \in Nat : \A i \in Index : f[i] < b
<1> DEFINE Bad == {n \in Nat : ~ \E b \in Nat : \A i \in Index : i <= n => f[i] < b}
<1>1. Bad = {}
  <2> SUFFICES ASSUME Bad # {}  PROVE FALSE  OBVIOUS
  <2>1. \E n \in Bad : \A y \in Bad : ~(<<y, n>> \in OpToRel(<, Nat))
    BY NatLessThanWellFounded, WFMin
  <2>2. PICK n \in Bad : \A y \in Bad : ~(<<y, n>> \in OpToRel(<, Nat))  BY <2>1
  <2>3. n \in Nat /\ \A y \in Bad : ~(y < n)  BY <2>2 DEF OpToRel
  <2>4. \E b \in Nat : \A i \in Index : i <= n => f[i] < b
    <3>1. CASE n = 0
      <4>1. \A i \in Index : i <= n => i = 0  BY <3>1, LogAssumption DEF Index
      <4>2. f[0] \in Nat /\ f[0] + 1 \in Nat  BY IndexType
      <4> QED  BY <4>1, <4>2
    <3>2. CASE n # 0
      <4>1. n - 1 \in Nat /\ n - 1 \notin Bad  BY <2>3, <3>2
      <4>2. PICK b \in Nat : \A i \in Index : i <= n - 1 => f[i] < b  BY <4>1
      <4>3. CASE n \in Index
        <5>1. f[n] \in Nat  BY <4>3
        <5>2. PICK c \in Nat : c >= b /\ c > f[n]
          <6>1. b + f[n] + 1 \in Nat /\ b + f[n] + 1 >= b /\ b + f[n] + 1 > f[n]  BY <5>1
          <6> QED  BY <6>1
        <5>3. \A i \in Index : i <= n => f[i] < c
          <6> TAKE i \in Index
          <6>1. i \in Int /\ f[i] \in Nat  BY IndexType
          <6>2. CASE i = n  BY <5>2, <6>2, <5>1
          <6>3. CASE i # n  BY <4>2, <5>2, <6>1, <6>3, <2>3
          <6> QED  BY <6>2, <6>3
        <5> QED  BY <5>3
      <4>4. CASE n \notin Index
        <5>1. ASSUME NEW i \in Index, i <= n  PROVE i <= n - 1
          <6>1. i \in Int /\ i # n  BY <4>4, IndexType
          <6> QED  BY <6>1, <5>1, <2>3
        <5> QED  BY <5>1, <4>2
      <4> QED  BY <4>3, <4>4
    <3> QED  BY <3>1, <3>2
  <2> QED  BY <2>2, <2>4
<1>2. N \in Nat /\ N \notin Bad  BY <1>1, LogAssumption
<1>3. PICK b \in Nat : \A i \in Index : i <= N => f[i] < b  BY <1>2
<1>4. \A i \in Index : i <= N  BY LogAssumption DEF Index
<1> QED  BY <1>3, <1>4

Marked(s, t, done) ==
  Alike(s, t) /\ s.write_complete = (t.write_complete \/ done)

(* jnl_phase2_salvage of a set of slots. *)
LEMMA SalvageIs ==
  ASSUME NEW L \in Log, NEW dead, dead \subseteq Index, NEW M, M = Salvage(L, dead)
  PROVE  /\ M \in Log /\ M.free = L.free /\ M.rsrv = L.rsrv /\ M.last = L.last
         /\ M.index1 = L.index1 /\ M.index2 = L.index2
         /\ \A i \in Index : Marked(M.slot[i], L.slot[i], i \in dead)
         /\ M.file = Nullified(L.file, {s \in {L.slot[i] : i \in dead} : s.in_phase2})
<1> DEFINE u == [i \in Index |-> IF i \in dead THEN [L.slot[i] EXCEPT !.write_complete = TRUE]
                                 ELSE L.slot[i]]
           S == {s \in {L.slot[i] : i \in dead} : s.in_phase2}
<1>1. PICK v : v = u  OBVIOUS
<1>2. PICK g : g = Nullified(L.file, S)  OBVIOUS
<1>3. ASSUME NEW i \in Index
      PROVE  /\ v[i] \in Slot /\ Alike(v[i], L.slot[i])
             /\ v[i].write_complete = (L.slot[i].write_complete \/ i \in dead)
  <2>1. L.slot[i] \in Slot  BY LogFields
  <2>2. CASE i \in dead
    <3>1. v[i] = [L.slot[i] EXCEPT !.write_complete = TRUE]  BY <1>1, <2>2
    <3> QED  BY <3>1, <2>1, <2>2 DEF Slot, Alike
  <2>3. CASE i \notin dead
    <3>1. v[i] = L.slot[i]  BY <1>1, <2>3
    <3>2. L.slot[i].write_complete \in BOOLEAN  BY <2>1 DEF Slot
    <3> QED  BY <3>1, <3>2, <2>1, <2>3 DEF Alike
  <2> QED  BY <2>2, <2>3
<1>4. v \in [Index -> Slot]  BY <1>1, <1>3
<1>5. g \in Seq(Record)
  <2>1. PICK f : f = [i \in Index |-> L.slot[i].start]  OBVIOUS
  <2>2. f \in [Index -> Nat]  BY <2>1, LogFields, SlotFields
  <2>3. PICK b \in Nat : \A i \in Index : f[i] < b  BY <2>2, SlotsBounded
  <2>4. S \subseteq Slot  BY LogFields
  <2>5. \A s \in S : s.start < b  BY <2>1, <2>3
  <2> HIDE DEF S
  <2> QED  BY <1>2, <2>4, <2>5, LogFields, NullifiedIs
<1>6. M = [L EXCEPT !.slot = v, !.file = g]  BY <1>1, <1>2, Zenon DEF Salvage
<1> HIDE DEF u, S
<1>7. /\ M \in Log /\ M.free = L.free /\ M.rsrv = L.rsrv /\ M.last = L.last
      /\ M.index1 = L.index1 /\ M.index2 = L.index2 /\ M.slot = v /\ M.file = g
  BY <1>4, <1>5, <1>6 DEF Log
<1> QED  BY <1>2, <1>3, <1>7 DEF S, Marked

(* A set of numbers closed downwards is an interval. *)
LEMMA InitialSegment ==
  ASSUME NEW m \in Nat, NEW S, S \subseteq 0 .. m - 1, \A k \in S : \A j \in 0 .. k : j \in S
  PROVE  Cardinality(S) \in 0 .. m /\ S = 0 .. Cardinality(S) - 1
<1> DEFINE T == {n \in Nat : n \notin S}
<1>1. m \in T  OBVIOUS
<1>2. \E n \in T : \A y \in T : ~(<<y, n>> \in OpToRel(<, Nat))
  BY <1>1, NatLessThanWellFounded, WFMin
<1>3. PICK n \in T : \A y \in T : ~(<<y, n>> \in OpToRel(<, Nat))  BY <1>2
<1>4. n \in Nat /\ n \notin S /\ \A y \in T : ~(y < n)  BY <1>3 DEF OpToRel
<1>5. n <= m  BY <1>1, <1>4
<1>6. \A k \in S : k < n  BY <1>4
<1>7. \A k \in 0 .. n - 1 : k \in S  BY <1>4
<1>8. S = 0 .. n - 1
  <2>1. \A k \in S : k \in 0 .. n - 1  BY <1>4, <1>6
  <2> QED  BY <1>7, <2>1
<1>9. Cardinality(S) = n  BY <1>4, <1>8, FS_Interval
<1> QED  BY <1>4, <1>5, <1>8, <1>9

LEMMA RunIs ==
  ASSUME NEW L \in Log, NEW n, n = Cardinality(CompleteRun(L))
  PROVE  /\ n \in 0 .. Used(L) /\ \A k \in 0 .. n - 1 : L.slot[At(L, k)].write_complete
<1>1. Used(L) \in 0 .. N - 1  BY LogFields, UsedIs
<1>2. PICK S : S = CompleteRun(L)  OBVIOUS
<1>3. S \subseteq 0 .. Used(L) - 1  BY <1>2 DEF CompleteRun
<1>4. \A k \in S : \A j \in 0 .. k : j \in S  BY <1>1, <1>2 DEF CompleteRun
<1>5. Cardinality(S) \in 0 .. Used(L) /\ S = 0 .. Cardinality(S) - 1
  <2>1. Used(L) \in Nat  BY <1>1, LogAssumption
  <2> QED  BY <2>1, <1>3, <1>4, InitialSegment
<1>6. \A k \in S : L.slot[At(L, k)].write_complete  BY <1>1, <1>2 DEF CompleteRun
<1> QED  BY <1>2, <1>5, <1>6

(* Moving index1 up by n leaves the younger slots in use. *)
LEMMA InUseAdvance ==
  ASSUME NEW L \in Log, NEW n \in 0 .. Used(L), NEW M, M.index1 = At(L, n), M.index2 = L.index2
  PROVE  /\ InUse(M) \subseteq InUse(L)
         /\ \A i \in InUse(L) \ InUse(M) : \E k \in 0 .. n - 1 : i = At(L, k)
         /\ M.index1 \in Index
         /\ n < Used(L) => M.index1 \in InUse(L)
         /\ n = Used(L) => M.index1 = L.index2
<1>1. /\ Used(L) = IF L.index1 <= L.index2 THEN L.index2 - L.index1
                   ELSE L.index2 - L.index1 + N
      /\ Used(L) \in 0 .. N - 1
  BY LogFields, UsedIs
<1>2. n \in 0 .. N - 1  BY <1>1, LogAssumption
<1>3. /\ M.index1 = IF L.index1 + n < N THEN L.index1 + n ELSE L.index1 + n - N
      /\ M.index1 \in Index
  BY <1>2, LogFields, AtIs
<1>4. InUse(M) \subseteq InUse(L)
  BY <1>1, <1>2, <1>3, LogFields, LogAssumption DEF InUse, Index
<1>5. ASSUME NEW i \in InUse(L) \ InUse(M)  PROVE \E k \in 0 .. n - 1 : i = At(L, k)
  <2>1. PICK k \in 0 .. Used(L) - 1 : i = At(L, k)  BY LogFields, InUseAt
  <2>2. k \in 0 .. N - 1  BY <1>1, <2>1, LogAssumption
  <2>3. i = IF L.index1 + k < N THEN L.index1 + k ELSE L.index1 + k - N
    BY <2>1, <2>2, LogFields, AtIs
  <2>4. k < n
    <3> SUFFICES ASSUME k >= n  PROVE i \in InUse(M)  BY <1>2, <2>2
    <3>1. i \in Index  BY DEF InUse
    <3>2. PICK a \in Int, b \in Int, x \in Int :
            a = L.index1 /\ b = L.index2 /\ x = M.index1 /\ 0 <= a /\ a < N /\ 0 <= b /\ b < N
      BY <1>3, LogFields, LogAssumption DEF Index
    <3>3. N \in Int /\ n \in Int /\ k \in Int /\ 0 <= n /\ n <= k  BY <1>2, <2>2, LogAssumption
    <3>4. x = IF a + n < N THEN a + n ELSE a + n - N  BY <1>3, <3>2
    <3>5. k < IF a <= b THEN b - a ELSE b - a + N  BY <1>1, <2>1, <3>2
    <3>6. i = IF a + k < N THEN a + k ELSE a + k - N  BY <2>3, <3>2
    <3>7. IF x <= b THEN x <= i /\ i < b ELSE x <= i \/ i < b
      <4>1. CASE a <= b  BY <4>1, <3>2, <3>3, <3>4, <3>5, <3>6
      <4>2. CASE a > b /\ a + n < N  BY <4>2, <3>2, <3>3, <3>4, <3>5, <3>6
      <4>3. CASE a > b /\ a + n >= N  BY <4>3, <3>2, <3>3, <3>4, <3>5, <3>6
      <4> QED  BY <4>1, <4>2, <4>3, <3>2, <3>3
    <3> QED  BY <3>1, <3>2, <3>7 DEF InUse
  <2> QED  BY <2>1, <2>2, <2>4, <1>2
<1>6. n < Used(L) => M.index1 \in InUse(L)
  <2>1. n < Used(L) => n \in 0 .. Used(L) - 1  BY <1>1, <1>2
  <2> QED  BY <2>1, LogFields, InUseAt
<1>7. n = Used(L) => M.index1 = L.index2  BY LogFields, InUseAt
<1> QED  BY <1>3, <1>4, <1>5, <1>6, <1>7

LEMMA HandOverIs ==
  ASSUME NEW L \in Log, NEW M, M = HandOver(L)
  PROVE  /\ Tidied(M, L, {}) /\ M.slot = L.slot /\ M.file = L.file
         /\ Chain(L) => Chain(M)
<1>1. PICK n : n = Cardinality(CompleteRun(L))  OBVIOUS
<1>2. n \in 0 .. Used(L) /\ \A k \in 0 .. n - 1 : L.slot[At(L, k)].write_complete
  BY <1>1, RunIs
<1>3. Used(L) \in 0 .. N - 1  BY LogFields, UsedIs
<1>4. CASE n = 0
  <2>1. M = L  BY <1>1, <1>4 DEF HandOver
  <2> QED  BY <2>1 DEF Tidied, Alike
<1>5. CASE n # 0
  <2>1. PICK f : f = IF n = Used(L) THEN EndOf(Last(L)) ELSE L.slot[At(L, n)].start  OBVIOUS
  <2>2. PICK x : x = At(L, n)  OBVIOUS
  <2>3. M = [L EXCEPT !.free = f, !.index1 = x]
    BY <1>1, <1>5, <2>1, <2>2, Zenon DEF HandOver
  <2>4. x \in Index  BY <1>2, <1>3, <2>2, LogFields, AtIs, LogAssumption
  <2>5. f \in Nat  BY <2>1, <2>2, <2>4, LogFields, LastType, SlotFields
  <2>6. /\ M \in Log /\ M.free = f /\ M.index1 = x /\ M.index2 = L.index2
        /\ M.rsrv = L.rsrv /\ M.last = L.last /\ M.slot = L.slot /\ M.file = L.file
    BY <2>3, <2>4, <2>5 DEF Log
  <2>7. /\ InUse(M) \subseteq InUse(L)
        /\ \A i \in InUse(L) \ InUse(M) : \E k \in 0 .. n - 1 : i = At(L, k)
        /\ n < Used(L) => M.index1 \in InUse(L)
        /\ n = Used(L) => M.index1 = L.index2
    BY <1>2, <2>2, <2>6, InUseAdvance
  <2>8. \A i \in InUse(L) : i \in InUse(M) \/ M.slot[i].write_complete  BY <1>2, <2>6, <2>7
  <2>9. Tidied(M, L, {})  BY <2>6, <2>7, <2>8 DEF Tidied, Alike
  <2>10. ASSUME Chain(L)  PROVE Chain(M)
    <3>1. M.free = EndOf(M.slot[DECR(M.index1)])
      <4>1. CASE n = Used(L)  BY <4>1, <2>1, <2>6, <2>7 DEF Last
      <4>2. CASE n # Used(L)
        <5>1. M.index1 \in InUse(L)  BY <4>2, <2>7, <1>2, <1>3
        <5> QED  BY <4>2, <5>1, <2>1, <2>2, <2>6, <2>10 DEF Chain, Follows
      <4> QED  BY <4>1, <4>2
    <3> QED  BY <3>1, <2>6, <2>7, <2>10 DEF Chain
  <2> QED  BY <2>6, <2>9, <2>10
<1> QED  BY <1>4, <1>5

(* The slots of processes that are neither alive nor the caller. *)
Orphans(L, p, alive) == {i \in Index : L.slot[i].process_id \notin alive \cup {p}}

LEMMA DeadRunIs ==
  ASSUME NEW L \in Log, NEW p, NEW alive, NEW D, D = DeadRun(L, p, alive)
  PROVE  D \subseteq InUse(L) /\ D \subseteq Orphans(L, p, alive)
<1>1. ASSUME NEW i \in D
      PROVE  /\ i \in L.index1 .. (IF L.index1 <= L.index2 THEN L.index2 ELSE N) - 1
             /\ i \in L.index1 .. i => L.slot[i].process_id # p /\ L.slot[i].process_id \notin alive
  BY DEF DeadRun
<1>2. ASSUME NEW i \in D  PROVE i \in InUse(L) /\ i \in L.index1 .. i
  BY <1>1, LogFields, LogAssumption DEF InUse, Index
<1>3. \A i \in D : i \in Index  BY <1>2 DEF InUse
<1> QED  BY <1>1, <1>2, <1>3 DEF Orphans

LEMMA ChainAlike ==
  ASSUME NEW L \in Log, NEW M, M.index1 = L.index1, M.index2 = L.index2, M.free = L.free,
         \A i \in Index : Alike(M.slot[i], L.slot[i]), Chain(L)
  PROVE  Chain(M)
<1>1. InUse(M) = InUse(L)  BY InUseFrame
<1>2. M.free = EndOf(M.slot[DECR(M.index1)])
  <2>1. DECR(L.index1) \in Index  BY LogFields, IndexType
  <2> QED  BY <2>1, EndOfAlike DEF Chain
<1>3. ASSUME NEW i \in InUse(M)  PROVE Follows(M.slot[i], M.slot[DECR(i)])
  <2>1. i \in Index /\ DECR(i) \in Index  BY IndexType DEF InUse
  <2>2. Follows(L.slot[i], L.slot[DECR(i)])  BY <1>1 DEF Chain
  <2> QED  BY <2>1, <2>2, FollowsAlike
<1> QED  BY <1>2, <1>3 DEF Chain

LEMMA CleanupIs ==
  ASSUME NEW L \in Log, NEW p, NEW hasCrit, NEW alive, NEW M, M = Cleanup(L, p, hasCrit, alive)
  PROVE  /\ Tidied(M, L, IF hasCrit THEN Orphans(L, p, alive) ELSE {})
         /\ Chain(L) => Chain(M)
<1>1. CASE hasCrit
  <2>1. PICK D : D = DeadRun(L, p, alive)  OBVIOUS
  <2>2. PICK K : K = Salvage(L, D)  OBVIOUS
  <2>3. M = HandOver(K)  BY <1>1, <2>1, <2>2, Zenon DEF Cleanup, SalvageDead
  <2>4. D \subseteq InUse(L) /\ D \subseteq Orphans(L, p, alive)  BY <2>1, DeadRunIs
  <2>5. D \subseteq Index  BY <2>4 DEF InUse
  <2>6. /\ K \in Log /\ K.free = L.free /\ K.rsrv = L.rsrv /\ K.last = L.last
        /\ K.index1 = L.index1 /\ K.index2 = L.index2
        /\ \A i \in Index : Marked(K.slot[i], L.slot[i], i \in D)
    BY <2>2, <2>5, SalvageIs
  <2>7. InUse(K) = InUse(L)  BY <2>6, InUseFrame
  <2>8. Tidied(K, L, Orphans(L, p, alive))  BY <2>4, <2>6, <2>7 DEF Tidied, Marked
  <2>9. Tidied(M, K, {}) /\ (Chain(K) => Chain(M))  BY <2>3, <2>6, HandOverIs
  <2>10. Tidied(M, L, Orphans(L, p, alive) \cup {})  BY <2>6, <2>8, <2>9, TidiedTrans
  <2>11. Chain(L) => Chain(K)  BY <2>6, ChainAlike DEF Marked
  <2>12. Orphans(L, p, alive) \cup {} = Orphans(L, p, alive)  OBVIOUS
  <2> QED  BY <1>1, <2>9, <2>10, <2>11, <2>12
<1>2. CASE ~hasCrit
  <2>1. M = HandOver(L)  BY <1>2 DEF Cleanup
  <2> QED  BY <1>2, <2>1, HandOverIs
<1> QED  BY <1>1, <1>2

LEMMA WriteCompleteIs ==
  ASSUME NEW L \in Log, NEW i \in Index, NEW p, NEW hasCrit, NEW alive, NEW M,
         M = WriteComplete(L, i, p, hasCrit, alive)
  PROVE  /\ Tidied(M, L, IF hasCrit THEN {i} \cup Orphans(L, p, alive) ELSE {i})
         /\ Chain(L) => Chain(M)
<1>1. PICK K : K = [L EXCEPT !.slot[i].write_complete = TRUE]  OBVIOUS
<1>2. PICK u : u = [L.slot EXCEPT ![i].write_complete = TRUE]  OBVIOUS
<1>3. K = [L EXCEPT !.slot = u]  BY <1>1, <1>2, Zenon
<1>4. ASSUME NEW j \in Index
      PROVE  /\ u[j] \in Slot /\ Alike(u[j], L.slot[j])
             /\ u[j].write_complete = (L.slot[j].write_complete \/ j = i)
  <2>1. L.slot[j] \in Slot /\ L.slot \in [Index -> Slot]  BY LogFields
  <2>2. CASE j = i
    <3>1. u[j] = [L.slot[j] EXCEPT !.write_complete = TRUE]  BY <1>2, <2>1, <2>2
    <3> QED  BY <3>1, <2>1, <2>2 DEF Slot, Alike
  <2>3. CASE j # i
    <3>1. u[j] = L.slot[j]  BY <1>2, <2>1, <2>3
    <3>2. L.slot[j].write_complete \in BOOLEAN  BY <2>1 DEF Slot
    <3> QED  BY <3>1, <3>2, <2>1, <2>3 DEF Alike
  <2> QED  BY <2>2, <2>3
<1>5. u \in [Index -> Slot]
  <2>1. DOMAIN u = Index  BY <1>2, LogFields
  <2>2. u = [j \in Index |-> u[j]]  BY <1>2, <2>1, LogFields
  <2> QED  BY <1>4, <2>2
<1>6. /\ K \in Log /\ K.free = L.free /\ K.rsrv = L.rsrv /\ K.last = L.last
      /\ K.index1 = L.index1 /\ K.index2 = L.index2 /\ K.slot = u /\ K.file = L.file
  BY <1>3, <1>5 DEF Log
<1>7. InUse(K) = InUse(L)  BY <1>6, InUseFrame
<1>8. Tidied(K, L, {i})  BY <1>4, <1>6, <1>7 DEF Tidied
<1>9. Chain(L) => Chain(K)  BY <1>4, <1>6, ChainAlike
<1>10. \A q : Orphans(K, q, alive) = Orphans(L, q, alive)
  BY <1>4, <1>6 DEF Orphans, Alike
<1>11. CASE i \in {0, N \div 2}
  <2>1. M = Cleanup(K, p, hasCrit, alive)  BY <1>1, <1>11 DEF WriteComplete
  <2>2. PICK C : C = IF hasCrit THEN Orphans(K, p, alive) ELSE {}  OBVIOUS
  <2>3. Tidied(M, K, C) /\ (Chain(K) => Chain(M))  BY <1>6, <2>1, <2>2, CleanupIs
  <2>4. Tidied(M, L, {i} \cup C)  BY <1>6, <1>8, <2>3, TidiedTrans
  <2>5. {i} \cup C = IF hasCrit THEN {i} \cup Orphans(L, p, alive) ELSE {i}  BY <2>2, <1>10
  <2> QED  BY <1>9, <2>3, <2>4, <2>5
<1>12. CASE i \notin {0, N \div 2}
  <2>1. M = K  BY <1>1, <1>12 DEF WriteComplete
  <2>2. Tidied(K, L, IF hasCrit THEN {i} \cup Orphans(L, p, alive) ELSE {i})
    BY <1>8 DEF Tidied
  <2> QED  BY <2>1, <2>2, <1>9
<1> QED  BY <1>11, <1>12

(* Out of crit only the slot itself changes: nobody is salvaged. *)
LEMMA WriteCompleteAlone ==
  ASSUME NEW L \in Log, Chain(L), NEW i \in Index, NEW p, NEW alive, NEW M,
         M = WriteComplete(L, i, p, FALSE, alive)
  PROVE  Tidied(M, L, {i}) /\ Chain(M)
<1>1. PICK c : c = FALSE  OBVIOUS
<1>2. M = WriteComplete(L, i, p, c, alive)  BY <1>1
<1>3. /\ Tidied(M, L, IF c THEN {i} \cup Orphans(L, p, alive) ELSE {i})
      /\ Chain(L) => Chain(M)
  BY <1>2, WriteCompleteIs, Zenon
<1>4. (IF c THEN {i} \cup Orphans(L, p, alive) ELSE {i}) = {i}  BY <1>1
<1> QED  BY <1>3, <1>4

-----------------------------------------------------------------------------
(* The commit *)

(* A process in a loop over regions has a region to work on. *)
InLoop == \A p \in Proc : pc[p] \notin {"idle", "dead"} => rem[p] # {}

TypeInv == TypeOK /\ InLoop

(* The journal pool's mutex is held from CMT02 to CMT15 *)
PoolCrit  == {"cmt03", "cmt03b", "cmt04", "cmt06", "cmt06b", "cmt07", "cmt08", "cmt09",
              "cmt12", "cmt14", "cmt15"} \cup CleaningUp
(* ... the reservation is newer than jnl_seqno from CMT03 to CMT07 *)
Published == {"cmt04", "cmt06", "cmt06b", "cmt07", "undopool"}
(* ... and not complete up to CMT17. *)
Entered   == Published \cup {"cmt08", "cmt09", "cmt12", "cmt14", "cmt15", "finish"} \cup Phase2

Ordered(L) == \A i \in InUse(L) : L.slot[i].jnl_seqno = L.slot[DECR(i)].jnl_seqno + 1

(* The newest reservation is for the seqno before s ... *)
Settled(L, s) == Level(L) /\ Last(L).jnl_seqno + 1 = s

(* ... or for s itself, by h, who has not filled it ... *)
Pending(L, s, h) ==
  /\ Level(L) /\ L.index1 # L.index2
  /\ Last(L).jnl_seqno = s /\ Last(L).process_id = h /\ ~Last(L).write_complete

(* ... or is being made. *)
Reserved(L, s, h) ==
  LET t == L.slot[L.index2] IN
  /\ ~Full(L) /\ Follows(t, Last(L)) /\ L.rsrv = EndOf(t) /\ L.last = t.tot_jrec_len
  /\ t.jnl_seqno = s /\ t.process_id = h /\ ~t.write_complete
  /\ Last(L).jnl_seqno + 1 = s

(* The state in which the holder h of the pool's mutex has, or has left, the *)
(* pool, by its next step l, its token t and its index i.                    *)
Stage(l, L, s, h, t, i) ==
  /\ l = "cmt03b" => Reserved(L, s, h) /\ i = L.index2
  /\ l \in Published => Pending(L, s, h) /\ i = DECR(L.index2)
  /\ l \in {"cmt03", "cmt03b"} \cup Published => t = s
  /\ l = "dead" => Settled(L, s) \/ Pending(L, s, h)
  /\ l \notin {"cmt03b", "dead"} \cup Published => Settled(L, s)

(* p has an entry that waits to be filled, and is the only one to fill it. *)
Mine(l, L, p, t, i) ==
  l \in Entered => /\ i \in InUse(L) /\ ~L.slot[i].write_complete
                   /\ L.slot[i].process_id = p /\ L.slot[i].jnl_seqno = t

Held(l, h, p) ==
  /\ l \in PoolCrit => h = p
  /\ h = p => l \in PoolCrit \cup {"dead"}

PoolInv ==
  /\ Chain(pool) /\ Ordered(pool)
  /\ crit[POOL] = NoProc => Settled(pool, jnl_seqno)
  /\ \A p \in Proc :
       /\ Held(pc[p], crit[POOL], p)
       /\ Mine(pc[p], pool, p, token[p], idx[p][POOL])
       /\ crit[POOL] = p => Stage(pc[p], pool, jnl_seqno, p, token[p], idx[p][POOL])

-----------------------------------------------------------------------------
(* Types *)

LEMMA RegType ==
  ASSUME TypeInv, NEW p \in Proc, rem[p] # {}
  PROVE  reg(p) \in rem[p] /\ reg(p) \in Region
<1>1. rem[p] \subseteq Region  BY DEF TypeInv, TypeOK
<1>2. Region \subseteq Nat  BY CommitAssumption DEF Region
<1> QED  BY <1>1, <1>2, MinIs DEF reg

LEMMA RegionIs == POOL \notin Region /\ NoProc \notin Proc
BY LogAssumption, CommitAssumption DEF POOL, Region

(* The part of the type that belongs to one process. *)
Walk(c, r, u) ==
  /\ c \in [Proc -> PC] /\ u \in [Proc -> SUBSET Region] /\ r \in [Proc -> SUBSET Region]
  /\ \A p \in Proc : r[p] \subseteq u[p]
  /\ \A p \in Proc : c[p] \notin {"idle", "dead"} => r[p] # {}

LEMMA WalkStep ==
  ASSUME Walk(pc, rem, upd), NEW p \in Proc, NEW l \in PC, NEW x, NEW y,
         x \subseteq y, y \subseteq Region, l \notin {"idle", "dead"} => x # {},
         NEW c, c = [pc EXCEPT ![p] = l], NEW r, r = [rem EXCEPT ![p] = x],
         NEW u, u = [upd EXCEPT ![p] = y]
  PROVE  Walk(c, r, u)
<1>1. /\ c \in [Proc -> PC] /\ u \in [Proc -> SUBSET Region] /\ r \in [Proc -> SUBSET Region]
  BY DEF Walk
<1>2. /\ c[p] = l /\ r[p] = x /\ u[p] = y
      /\ \A q \in Proc : q # p => c[q] = pc[q] /\ r[q] = rem[q] /\ u[q] = upd[q]
  BY DEF Walk
<1> QED  BY <1>1, <1>2 DEF Walk

LEMMA WalkGoto ==
  ASSUME Walk(pc, rem, upd), NEW p \in Proc, pc[p] \notin {"idle", "dead"},
         NEW l \in PC, pc' = [pc EXCEPT ![p] = l], rem' = rem, upd' = upd
  PROVE  Walk(pc', rem', upd')
<1>1. rem[p] # {} /\ rem[p] \subseteq upd[p] /\ upd[p] \subseteq Region  BY DEF Walk
<1>2. rem' = [rem EXCEPT ![p] = rem[p]] /\ upd' = [upd EXCEPT ![p] = upd[p]]  BY DEF Walk
<1>3. PICK x, y : x = rem[p] /\ y = upd[p]  OBVIOUS
<1>4. /\ x \subseteq y /\ y \subseteq Region /\ x # {}
      /\ rem' = [rem EXCEPT ![p] = x] /\ upd' = [upd EXCEPT ![p] = y]
  BY <1>1, <1>2, <1>3
<1>5. PICK c, r, u : c = pc' /\ r = rem' /\ u = upd'  OBVIOUS
<1>6. c = [pc EXCEPT ![p] = l] /\ r = [rem EXCEPT ![p] = x] /\ u = [upd EXCEPT ![p] = y]
  BY <1>4, <1>5
<1>7. Walk(c, r, u)  BY <1>4, <1>6, WalkStep
<1> QED  BY <1>5, <1>7

LEMMA WalkLoop ==
  ASSUME Walk(pc, rem, upd), NEW p \in Proc, pc[p] \notin {"idle", "dead"},
         NEW l \in PC, NEW m \in PC, Loop(p, l, m), upd' = upd
  PROVE  Walk(pc', rem', upd')
<1>1. rem[p] # {} /\ rem[p] \subseteq upd[p] /\ upd[p] \subseteq Region  BY DEF Walk
<1>2. upd' = [upd EXCEPT ![p] = upd[p]]  BY DEF Walk
<1> DEFINE left == rem[p] \ {reg(p)}
<1>3. CASE left = {}
  <2>1. pc' = [pc EXCEPT ![p] = m] /\ rem' = [rem EXCEPT ![p] = upd[p]]  BY <1>3 DEF Loop
  <2>2. upd[p] # {}  BY <1>1
  <2> QED  BY <1>1, <1>2, <2>1, <2>2, WalkStep
<1>4. CASE left # {}
  <2>1. pc' = [pc EXCEPT ![p] = l] /\ rem' = [rem EXCEPT ![p] = left]  BY <1>4 DEF Loop
  <2>2. left \subseteq upd[p]  BY <1>1
  <2> HIDE DEF left
  <2> QED  BY <1>1, <1>2, <1>4, <2>1, <2>2, WalkStep
<1> QED  BY <1>3, <1>4

LEMMA TypeIs ==
  TypeInv <=>
    /\ Walk(pc, rem, upd)
    /\ token \in [Proc -> Nat]
    /\ idx \in [Proc -> [Region \cup {POOL} -> Index]]
    /\ crit \in [Region \cup {POOL} -> Proc \cup {NoProc}]
    /\ db \in [Region -> DB]
    /\ jb \in [Region -> Log] /\ pool \in Log
    /\ jnl_seqno \in Nat /\ read_addr \in Nat
    /\ sent \in Seq(Record)
    /\ txn \in Seq([by : Proc, upd : SUBSET Region])
    /\ torn \subseteq Nat \X Region
    /\ cnt \in [txn : 0 .. MaxTxn, fault : 0 .. MaxFault]
BY DEF TypeInv, TypeOK, InLoop, Walk

(* What the repair of a dead owner returns is well typed. *)
LEMMA CleanDeadType ==
  ASSUME TypeInv, NEW h
  PROVE  /\ CleanDeadPool(pool, h) \in Log
         /\ \A r \in Region : CleanDeadJnl(r, h) \in Log /\ CleanDeadDB(r) \in DB
<1>1. \A L \in Log : Realign(L) \in Log /\ Withdraw(L) \in Log  BY RealignIs, WithdrawIs
<1>2. pool \in Log  BY DEF TypeInv, TypeOK
<1>3. CleanDeadPool(pool, h) \in Log  BY <1>1, <1>2 DEF CleanDeadPool
<1>4. ASSUME NEW r \in Region  PROVE CleanDeadJnl(r, h) \in Log /\ CleanDeadDB(r) \in DB
  <2>1. jb[r] \in Log /\ db[r] \in DB  BY DEF TypeInv, TypeOK
  <2>2. CleanDeadJnl(r, h) \in Log  BY <1>1, <2>1 DEF CleanDeadJnl
  <2>3. Last(jb[r]).jnl_seqno + 1 \in Nat  BY <2>1, LastType, SlotFields
  <2>4. CleanDeadDB(r) \in DB  BY <2>1, <2>3 DEF CleanDeadDB, DB
  <2> QED  BY <2>2, <2>4
<1> QED  BY <1>3, <1>4

LEMMA SlotTypes ==
  ASSUME TypeInv, NEW p \in Proc
  PROVE  /\ PoolSlot(p) \in Slot
         /\ \A r \in Region, s \in Nat, b \in BOOLEAN : JnlSlot(r, p, s, b) \in Slot
         /\ \A r \in Region : Inctn(r, p) \in Record
         /\ \A L \in Log, i \in Index : UpdateRecord(L, p, i) \in Record
<1>1. Cardinality(upd[p]) \in Nat
  <2>1. upd[p] \in SUBSET (1 .. NReg) /\ NReg \in Nat  BY CommitAssumption DEF TypeInv, TypeOK, Region
  <2>2. IsFiniteSet(1 .. NReg)  BY <2>1, FS_Interval
  <2> QED  BY <2>1, <2>2, FS_Subset, FS_CardinalityType
<1>2. token[p] \in Nat  BY DEF TypeInv, TypeOK
<1>3. PoolSlot(p) \in Slot  BY <1>1, <1>2 DEF PoolSlot, Slot
<1>4. \A r \in Region : db[r].curr_tn \in Nat  BY DEF TypeInv, TypeOK, DB
<1>5. \A r \in Region, s \in Nat, b \in BOOLEAN : JnlSlot(r, p, s, b) \in Slot
  BY <1>4 DEF JnlSlot, Slot
<1>6. \A r \in Region : Inctn(r, p) \in Record  BY <1>4 DEF Inctn, Record, Kind
<1>7. ASSUME NEW L \in Log, NEW i \in Index  PROVE UpdateRecord(L, p, i) \in Record
  <2>1. L.slot[i].curr_tn \in Nat /\ L.slot[i].tot_jrec_len \in Nat  BY LogFields, SlotFields
  <2> QED  BY <2>1, <1>2 DEF UpdateRecord, Record, Kind
<1> QED  BY <1>3, <1>5, <1>6, <1>7

LEMMA IdxStep ==
  ASSUME TypeInv, NEW p \in Proc, NEW r \in Region \cup {POOL}, NEW x \in Index,
         NEW f, f = [idx EXCEPT ![p][r] = x]
  PROVE  /\ f \in [Proc -> [Region \cup {POOL} -> Index]]
         /\ f[p][r] = x /\ (\A a \in Region \cup {POOL} : a # r => f[p][a] = idx[p][a])
         /\ \A q \in Proc : q # p => f[q] = idx[q]
<1>1. idx \in [Proc -> [Region \cup {POOL} -> Index]]  BY DEF TypeInv, TypeOK
<1>2. PICK R : R = Region \cup {POOL}  OBVIOUS
<1>3. PICK g : g = [idx[p] EXCEPT ![r] = x]  OBVIOUS
<1>4. f = [idx EXCEPT ![p] = g]  BY <1>3, Zenon
<1>5. g \in [R -> Index] /\ g[r] = x /\ \A a \in R : a # r => g[a] = idx[p][a]
  BY <1>1, <1>2, <1>3
<1>6. f \in [Proc -> [R -> Index]] /\ f[p] = g /\ \A q \in Proc : q # p => f[q] = idx[q]
  BY <1>1, <1>2, <1>4, <1>5
<1> QED  BY <1>2, <1>5, <1>6

(* A log with another file *)
LEMMA FileIs ==
  ASSUME NEW L \in Log, NEW g \in Seq(Record), NEW M, M = [L EXCEPT !.file = g]
  PROVE  /\ M \in Log /\ M.free = L.free /\ M.rsrv = L.rsrv /\ M.last = L.last
         /\ M.index1 = L.index1 /\ M.index2 = L.index2 /\ M.slot = L.slot /\ M.file = g
BY DEF Log

LEMMA TypeNext ==
  ASSUME Walk(pc', rem', upd'),
         token' \in [Proc -> Nat],
         idx' \in [Proc -> [Region \cup {POOL} -> Index]],
         crit' \in [Region \cup {POOL} -> Proc \cup {NoProc}],
         db' \in [Region -> DB], jb' \in [Region -> Log], pool' \in Log,
         jnl_seqno' \in Nat, read_addr' \in Nat, sent' \in Seq(Record),
         txn' \in Seq([by : Proc, upd : SUBSET Region]),
         torn' \subseteq Nat \X Region,
         cnt' \in [txn : 0 .. MaxTxn, fault : 0 .. MaxFault]
  PROVE  TypeInv'
BY DEF TypeInv, TypeOK, InLoop, Walk

(* Steps that leave the journals, the pool and the counters alone. *)
LEMMA TypePhase1 ==
  ASSUME TypeInv, NEW p \in Proc,
         \/ GrabLock(p) \/ EarlyTn(p) \/ SetJnlSeqno(p) \/ UpdateUnderway(p) \/ SetRegSeqno(p)
         \/ IncrementCurrTn(p) \/ RelCrit(p) \/ RelLock(p) \/ Finish(p)
  PROVE  TypeInv'
<1> USE TypeIs DEF srcvars, histvars
<1>1. CASE GrabLock(p)
  <2>1. Walk(pc', rem', upd')  BY <1>1, WalkGoto DEF GrabLock, Goto, PC, InCrit
  <2>2. pool' \in Log  BY <1>1, CleanDeadType DEF GrabLock
  <2>3. token' \in [Proc -> Nat] /\ crit' \in [Region \cup {POOL} -> Proc \cup {NoProc}]
    BY <1>1 DEF GrabLock
  <2> QED  BY <1>1, <2>1, <2>2, <2>3, TypeNext DEF GrabLock
<1>2. CASE EarlyTn(p)
  <2>1. Walk(pc', rem', upd')  BY <1>2, WalkLoop DEF EarlyTn, PC, InCrit
  <2>2. pc[p] \notin {"idle", "dead"}  BY <1>2 DEF EarlyTn
  <2>3. reg(p) \in Region  BY <2>2, RegType DEF Walk
  <2>4. db' \in [Region -> DB]
    <3>1. db \in [Region -> DB] /\ token[p] + 1 \in Nat  OBVIOUS
    <3>2. db[reg(p)].curr_tn + 1 \in Nat  BY <2>3, <3>1 DEF DB
    <3> QED  BY <1>2, <2>3, <3>1, <3>2 DEF EarlyTn, DB
  <2> QED  BY <1>2, <2>1, <2>4, TypeNext DEF EarlyTn
<1>3. CASE SetJnlSeqno(p)
  <2>1. Walk(pc', rem', upd')  BY <1>3, WalkGoto DEF SetJnlSeqno, Goto, PC, InCrit
  <2>2. jnl_seqno' \in Nat  BY <1>3 DEF SetJnlSeqno
  <2>3. [by |-> p, upd |-> upd[p]] \in [by : Proc, upd : SUBSET Region]  BY DEF Walk
  <2>4. txn' \in Seq([by : Proc, upd : SUBSET Region])
    <3>1. PICK T, e : T = [by : Proc, upd : SUBSET Region] /\ e = [by |-> p, upd |-> upd[p]]
      OBVIOUS
    <3>2. txn \in Seq(T) /\ e \in T /\ txn' = Append(txn, e)  BY <1>3, <2>3, <3>1 DEF SetJnlSeqno
    <3>3. txn' \in Seq(T)  BY <3>2
    <3> QED  BY <3>1, <3>3
  <2> QED  BY <1>3, <2>1, <2>2, <2>4, TypeNext DEF SetJnlSeqno
<1>4. CASE UpdateUnderway(p)
  <2>1. Walk(pc', rem', upd')  BY <1>4, WalkGoto DEF UpdateUnderway, Goto, PC, InCrit
  <2>2. pc[p] \notin {"idle", "dead"}  BY <1>4 DEF UpdateUnderway
  <2>3. reg(p) \in Region  BY <2>2, RegType DEF Walk
  <2>4. db' \in [Region -> DB]  BY <1>4, <2>3 DEF UpdateUnderway, DB
  <2> QED  BY <1>4, <2>1, <2>4, TypeNext DEF UpdateUnderway
<1>5. CASE SetRegSeqno(p)
  <2>1. Walk(pc', rem', upd')  BY <1>5, WalkGoto DEF SetRegSeqno, Goto, PC, InCrit
  <2>2. pc[p] \notin {"idle", "dead"}  BY <1>5 DEF SetRegSeqno
  <2>3. reg(p) \in Region  BY <2>2, RegType DEF Walk
  <2>4. db' \in [Region -> DB]
    <3>1. db \in [Region -> DB] /\ token[p] + 1 \in Nat  OBVIOUS
    <3>2. db[reg(p)].curr_tn + 1 \in Nat  BY <2>3, <3>1 DEF DB
    <3> QED  BY <1>5, <2>3, <3>1, <3>2 DEF SetRegSeqno, DB
  <2> QED  BY <1>5, <2>1, <2>4, TypeNext DEF SetRegSeqno
<1>6. CASE IncrementCurrTn(p)
  <2>1. Walk(pc', rem', upd')  BY <1>6, WalkGoto DEF IncrementCurrTn, Goto, PC, InCrit
  <2>2. pc[p] \notin {"idle", "dead"}  BY <1>6 DEF IncrementCurrTn
  <2>3. reg(p) \in Region  BY <2>2, RegType DEF Walk
  <2>4. db' \in [Region -> DB]  BY <1>6, <2>3 DEF IncrementCurrTn, DB
  <2> QED  BY <1>6, <2>1, <2>4, TypeNext DEF IncrementCurrTn
<1>7. CASE RelCrit(p)
  <2>1. Walk(pc', rem', upd')  BY <1>7, WalkLoop DEF RelCrit, PC, InCrit
  <2>2. crit' \in [Region \cup {POOL} -> Proc \cup {NoProc}]  BY <1>7 DEF RelCrit
  <2> QED  BY <1>7, <2>1, <2>2, TypeNext DEF RelCrit
<1>8. CASE RelLock(p)
  <2>1. Walk(pc', rem', upd')  BY <1>8, WalkGoto DEF RelLock, Goto, PC, InCrit, Phase2
  <2>2. crit' \in [Region \cup {POOL} -> Proc \cup {NoProc}]  BY <1>8 DEF RelLock
  <2> QED  BY <1>8, <2>1, <2>2, TypeNext DEF RelLock
<1>9. CASE Finish(p)
  <2>1. Walk(pc', rem', upd')  BY <1>9, WalkLoop DEF Finish, PC, InCrit, CleaningUp
  <2>2. pc[p] \notin {"idle", "dead"}  BY <1>9 DEF Finish
  <2>3. reg(p) \in Region  BY <2>2, RegType DEF Walk
  <2>4. db' \in [Region -> DB]
    <3>1. db \in [Region -> DB] /\ token[p] + 1 \in Nat  OBVIOUS
    <3>2. db[reg(p)].curr_tn + 1 \in Nat  BY <2>3, <3>1 DEF DB
    <3>3. PICK d : d = [db[reg(p)] EXCEPT !.update_underway_tn = db[reg(p)].curr_tn,
                                          !.reg_seqno = token[p] + 1,
                                          !.curr_tn = db[reg(p)].early_tn, !.wc_blocked = TRUE]
      OBVIOUS
    <3>4. d \in DB  BY <2>3, <3>1, <3>3 DEF DB
    <3>5. db' = [db EXCEPT ![reg(p)] = d]  BY <1>9, <3>3, Zenon DEF Finish
    <3> QED  BY <3>1, <3>4, <3>5
  <2>5. crit' \in [Region \cup {POOL} -> Proc \cup {NoProc}]  BY <1>9 DEF Finish
  <2> QED  BY <1>9, <2>1, <2>4, <2>5, TypeNext DEF Finish
<1> QED  BY <1>1, <1>2, <1>3, <1>4, <1>5, <1>6, <1>7, <1>8, <1>9

(* Steps of a reservation. *)
LEMMA TypeReserve ==
  ASSUME TypeInv, NEW p \in Proc,
         \/ ReservePool(p) \/ PublishPool(p) \/ ReserveJnl(p) \/ PublishJnl(p)
         \/ UndoPool(p) \/ UndoDB(p) \/ UndoRel(p)
  PROVE  TypeInv'
<1> USE TypeIs DEF srcvars, histvars
<1>0. /\ \A L \in Log : Publish(L) \in Log /\ Withdraw(L) \in Log
      /\ \A L \in Log, s \in Slot : Reserve(L, s) \in Log
      /\ \A L \in Log : Cleanup(L, p, TRUE, Alive) \in Log
  BY PublishIs, WithdrawIs, ReserveIs, CleanupIs DEF Tidied
<1>1. CASE ReservePool(p)
  <2>1. Walk(pc', rem', upd')
    <3>1. PICK l \in {"cmt03", "cmt03b"} : pc' = [pc EXCEPT ![p] = l]
      BY <1>1 DEF ReservePool, Goto, Walk
    <3> QED  BY <1>1, <3>1, WalkGoto DEF ReservePool, PC, InCrit
  <2>2. pool' \in Log
    <3>1. PoolSlot(p) \in Slot  BY SlotTypes
    <3>2. pool' = Cleanup(pool, p, TRUE, Alive) \/ pool' = Reserve(pool, PoolSlot(p))
      BY <1>1 DEF ReservePool
    <3> QED  BY <1>0, <3>1, <3>2
  <2>3. idx' \in [Proc -> [Region \cup {POOL} -> Index]]
    <3>1. pool.index2 \in Index  BY LogFields
    <3>2. idx' = idx \/ idx' = [idx EXCEPT ![p][POOL] = pool.index2]  BY <1>1 DEF ReservePool
    <3>3. PICK x : x = pool.index2  OBVIOUS
    <3>4. CASE idx' = [idx EXCEPT ![p][POOL] = x]  BY <3>1, <3>3, <3>4, IdxStep
    <3> QED  BY <3>2, <3>3, <3>4
  <2> QED  BY <1>1, <2>1, <2>2, <2>3, TypeNext DEF ReservePool
<1>2. CASE PublishPool(p)
  <2>1. Walk(pc', rem', upd')  BY <1>2, WalkGoto DEF PublishPool, Goto, PC, InCrit
  <2>2. pool' \in Log  BY <1>0, <1>2 DEF PublishPool
  <2> QED  BY <1>2, <2>1, <2>2, TypeNext DEF PublishPool
<1>3. CASE ReserveJnl(p)
  <2>1. Walk(pc', rem', upd')
    <3>1. PICK l \in {"cmt06", "cmt06b"} : pc' = [pc EXCEPT ![p] = l]
      BY <1>3 DEF ReserveJnl, Goto, Walk
    <3> QED  BY <1>3, <3>1, WalkGoto DEF ReserveJnl, PC, InCrit
  <2>2. pc[p] \notin {"idle", "dead"}  BY <1>3 DEF ReserveJnl
  <2>3. reg(p) \in Region  BY <2>2, RegType DEF Walk
  <2>4. jb[reg(p)] \in Log /\ jb[reg(p)].index2 \in Index  BY <2>3, LogFields
  <2>5. JnlSlot(reg(p), p, token[p], TRUE) \in Slot  BY <2>3, SlotTypes
  <2>6. \E M \in Log : jb' = [jb EXCEPT ![reg(p)] = M]
    BY <1>0, <1>3, <2>4, <2>5 DEF ReserveJnl
  <2>7. jb' \in [Region -> Log]  BY <2>6
  <2>8. idx' \in [Proc -> [Region \cup {POOL} -> Index]]
    <3>1. idx' = idx \/ idx' = [idx EXCEPT ![p][reg(p)] = jb[reg(p)].index2]
      BY <1>3 DEF ReserveJnl
    <3>2. PICK r, x : r = reg(p) /\ x = jb[reg(p)].index2  OBVIOUS
    <3>3. r \in Region \cup {POOL} /\ x \in Index  BY <2>3, <2>4, <3>2
    <3>4. CASE idx' = [idx EXCEPT ![p][r] = x]  BY <3>3, <3>4, IdxStep
    <3> QED  BY <3>1, <3>2, <3>4
  <2> QED  BY <1>3, <2>1, <2>7, <2>8, TypeNext DEF ReserveJnl
<1>4. CASE PublishJnl(p)
  <2>1. Walk(pc', rem', upd')  BY <1>4, WalkLoop DEF PublishJnl, PC, InCrit
  <2>2. pc[p] \notin {"idle", "dead"}  BY <1>4 DEF PublishJnl
  <2>3. reg(p) \in Region  BY <2>2, RegType DEF Walk
  <2>4. jb' \in [Region -> Log]  BY <1>0, <1>4, <2>3 DEF PublishJnl
  <2> QED  BY <1>4, <2>1, <2>4, TypeNext DEF PublishJnl
<1>5. CASE UndoPool(p)
  <2>1. Walk(pc', rem', upd')  BY <1>5, WalkGoto DEF UndoPool, Goto, PC, CleaningUp
  <2>2. pool' \in Log  BY <1>0, <1>5 DEF UndoPool
  <2> QED  BY <1>5, <2>1, <2>2, TypeNext DEF UndoPool
<1>6. CASE UndoDB(p)
  <2>1. Walk(pc', rem', upd')  BY <1>6, WalkLoop DEF UndoDB, PC, CleaningUp
  <2>2. pc[p] \notin {"idle", "dead"}  BY <1>6 DEF UndoDB
  <2>3. reg(p) \in Region  BY <2>2, RegType DEF Walk
  <2>4. \E M \in Log : jb' = [jb EXCEPT ![reg(p)] = M]  BY <1>0, <1>6, <2>3 DEF UndoDB
  <2>5. jb' \in [Region -> Log]  BY <2>4
  <2>6. db' \in [Region -> DB]  BY <1>6, <2>3 DEF UndoDB, DB
  <2>7. crit' \in [Region \cup {POOL} -> Proc \cup {NoProc}]  BY <1>6 DEF UndoDB
  <2> QED  BY <1>6, <2>1, <2>5, <2>6, <2>7, TypeNext DEF UndoDB
<1>7. CASE UndoRel(p)
  <2>1. Walk(pc', rem', upd')  BY <1>7, WalkStep DEF UndoRel, PC
  <2>2. crit' \in [Region \cup {POOL} -> Proc \cup {NoProc}] /\ token' \in [Proc -> Nat]
    BY <1>7 DEF UndoRel
  <2>3. idx' \in [Proc -> [Region \cup {POOL} -> Index]]  BY <1>7, IndexType DEF UndoRel
  <2> QED  BY <1>7, <2>1, <2>2, <2>3, TypeNext DEF UndoRel
<1> QED  BY <1>1, <1>2, <1>3, <1>4, <1>5, <1>6, <1>7

(* Steps of phase 2. *)
LEMMA TypePhase2 ==
  ASSUME TypeInv, NEW p \in Proc,
         WriteJnl(p) \/ JnlWriteComplete(p) \/ WritePool(p) \/ PoolWriteComplete(p)
  PROVE  TypeInv'
<1> USE TypeIs DEF srcvars, histvars
<1>1. CASE WriteJnl(p)
  <2>1. Walk(pc', rem', upd')  BY <1>1, WalkGoto DEF WriteJnl, Goto, PC, Phase2
  <2>2. pc[p] \notin {"idle", "dead"}  BY <1>1 DEF WriteJnl
  <2>3. reg(p) \in Region  BY <2>2, RegType DEF Walk
  <2>4. PICK L, i : L = jb[reg(p)] /\ i = idx[p][reg(p)]  OBVIOUS
  <2>5. L \in Log /\ i \in Index  BY <2>3, <2>4
  <2>6. L.slot[i].start \in Nat  BY <2>5, LogFields, SlotFields
  <2>7. PICK g : g = Store(L.file, L.slot[i].start, UpdateRecord(L, p, i))  OBVIOUS
  <2>8. g \in Seq(Record)  BY <2>5, <2>6, <2>7, SlotTypes, LogFields, StoreIs
  <2>9. PICK M : M = [L EXCEPT !.file = g]  OBVIOUS
  <2>10. jb' = [jb EXCEPT ![reg(p)] = M]  BY <1>1, <2>4, <2>7, <2>9, Zenon DEF WriteJnl
  <2>11. M \in Log  BY <2>5, <2>8, <2>9, FileIs
  <2>12. jb' \in [Region -> Log]  BY <2>10, <2>11
  <2> QED  BY <1>1, <2>1, <2>12, TypeNext DEF WriteJnl
<1>2. CASE JnlWriteComplete(p)
  <2>1. Walk(pc', rem', upd')  BY <1>2, WalkLoop DEF JnlWriteComplete, PC, Phase2
  <2>2. pc[p] \notin {"idle", "dead"}  BY <1>2 DEF JnlWriteComplete
  <2>3. reg(p) \in Region  BY <2>2, RegType DEF Walk
  <2>4. jb' \in [Region -> Log]
    <3>1. PICK M : M = WriteComplete(jb[reg(p)], idx[p][reg(p)], p, FALSE, Alive)  OBVIOUS
    <3>2. jb[reg(p)] \in Log /\ idx[p][reg(p)] \in Index  BY <2>3
    <3>3. M \in Log  BY <3>1, <3>2, WriteCompleteIs DEF Tidied
    <3>4. jb' = [jb EXCEPT ![reg(p)] = M]  BY <1>2, <3>1 DEF JnlWriteComplete
    <3> QED  BY <3>3, <3>4
  <2> QED  BY <1>2, <2>1, <2>4, TypeNext DEF JnlWriteComplete
<1>3. CASE WritePool(p)
  <2>1. Walk(pc', rem', upd')  BY <1>3, WalkGoto DEF WritePool, Goto, PC, Phase2
  <2>2. PICK i : i = idx[p][POOL]  OBVIOUS
  <2>3. i \in Index  BY <2>2
  <2>4. pool.slot[i].start \in Nat  BY <2>3, LogFields, SlotFields
  <2>5. PICK g : g = Store(pool.file, pool.slot[i].start, UpdateRecord(pool, p, i))  OBVIOUS
  <2>6. g \in Seq(Record)  BY <2>3, <2>4, <2>5, SlotTypes, LogFields, StoreIs
  <2>7. pool' = [pool EXCEPT !.file = g]  BY <1>3, <2>2, <2>5, Zenon DEF WritePool
  <2>8. pool' \in Log  BY <2>6, <2>7, FileIs
  <2> QED  BY <1>3, <2>1, <2>8, TypeNext DEF WritePool
<1>4. CASE PoolWriteComplete(p)
  <2>1. Walk(pc', rem', upd')  BY <1>4, WalkStep DEF PoolWriteComplete, PC
  <2>2. pool' \in Log /\ token' \in [Proc -> Nat]
    <3>1. PICK i : i = idx[p][POOL]  OBVIOUS
    <3>2. pool' = WriteComplete(pool, i, p, FALSE, Alive) /\ i \in Index
      BY <1>4, <3>1 DEF PoolWriteComplete
    <3>3. pool' \in Log  BY <3>2, WriteCompleteIs DEF Tidied
    <3> QED  BY <1>4, <3>3 DEF PoolWriteComplete
  <2>3. idx' \in [Proc -> [Region \cup {POOL} -> Index]]
    BY <1>4, IndexType DEF PoolWriteComplete
  <2> QED  BY <1>4, <2>1, <2>2, <2>3, TypeNext DEF PoolWriteComplete
<1> QED  BY <1>1, <1>2, <1>3, <1>4

(* CMT01 and the recovery of a region. *)
LEMMA TypeGrab ==
  ASSUME TypeInv, NEW p \in Proc, GrabCrit(p) \/ Recover(p) \/ RecoverWritten(p) \/ RecoverDone(p)
  PROVE  TypeInv'
<1> USE TypeIs DEF srcvars, histvars
<1>1. CASE GrabCrit(p)
  <2>1. pc[p] \notin {"idle", "dead"}  BY <1>1 DEF GrabCrit
  <2>2. reg(p) \in Region  BY <2>1, RegType DEF Walk
  <2>3. Walk(pc', rem', upd')
    <3>1. \E b : AfterGrab(p, b)  BY <1>1 DEF GrabCrit
    <3>2. (Goto(p, "recover") /\ rem' = rem) \/ Loop(p, "cmt01", "grabpool")
      BY <3>1 DEF AfterGrab
    <3>3. upd' = upd  BY <1>1 DEF GrabCrit
    <3>4. {"recover", "cmt01", "grabpool"} \subseteq PC  BY DEF PC, InCrit
    <3>5. CASE Goto(p, "recover") /\ rem' = rem
      BY <2>1, <3>3, <3>4, <3>5, WalkGoto DEF Goto
    <3>6. CASE Loop(p, "cmt01", "grabpool")  BY <2>1, <3>3, <3>4, <3>6, WalkLoop
    <3> QED  BY <3>2, <3>5, <3>6
  <2>4. crit' \in [Region \cup {POOL} -> Proc \cup {NoProc}]  BY <1>1 DEF GrabCrit
  <2>5. db' \in [Region -> DB] /\ jb' \in [Region -> Log]
    <3>1. \A h : CleanDeadJnl(reg(p), h) \in Log /\ CleanDeadDB(reg(p)) \in DB
      BY <2>2, CleanDeadType
    <3>2. \/ db' = db /\ jb' = jb
          \/ /\ db' = [db EXCEPT ![reg(p)] = CleanDeadDB(reg(p))]
             /\ jb' = [jb EXCEPT ![reg(p)] = CleanDeadJnl(reg(p), crit[reg(p)])]
      BY <1>1 DEF GrabCrit
    <3>3. PICK d, M : d = CleanDeadDB(reg(p)) /\ M = CleanDeadJnl(reg(p), crit[reg(p)])
      OBVIOUS
    <3>4. d \in DB /\ M \in Log  BY <3>1, <3>3
    <3> QED  BY <3>2, <3>3, <3>4
  <2> QED  BY <1>1, <2>3, <2>4, <2>5, TypeNext DEF GrabCrit
<1>2. CASE Recover(p)
  <2>1. pc[p] \notin {"idle", "dead"}  BY <1>2 DEF Recover
  <2>2. PICK r : r = reg(p)  OBVIOUS
  <2>3. r \in Region  BY <2>1, <2>2, RegType DEF Walk
  <2>4. PICK L : L = Cleanup(jb[r], p, TRUE, Alive)  OBVIOUS
  <2>5. jb[r] \in Log  BY <2>3
  <2>6. L \in Log  BY <2>4, <2>5, CleanupIs DEF Tidied
  <2>7. db' \in [Region -> DB]
    <3>1. db \in [Region -> DB]  OBVIOUS
    <3>2. db[r].curr_tn + 1 \in Nat  BY <2>3, <3>1 DEF DB
    <3>3. db' = [db EXCEPT ![r].early_tn = db[r].curr_tn + 1]  BY <1>2, <2>2 DEF Recover
    <3> QED  BY <2>3, <3>1, <3>2, <3>3 DEF DB
  <2>8. CASE Full(L)
    <3>1. jb' = [jb EXCEPT ![r] = L] /\ pc' = pc /\ idx' = idx
      BY <1>2, <2>2, <2>4, <2>8 DEF Recover
    <3>2. jb' \in [Region -> Log]  BY <2>6, <3>1
    <3>3. Walk(pc', rem', upd')  BY <1>2, <3>1 DEF Recover
    <3> QED  BY <1>2, <2>7, <3>1, <3>2, <3>3, TypeNext DEF Recover
  <2>9. CASE ~Full(L)
    <3>1. PICK g : g = Store(L.file, L.rsrv, Inctn(r, p))  OBVIOUS
    <3>2. g \in Seq(Record)  BY <2>3, <2>6, <3>1, SlotTypes, LogFields, StoreIs
    <3>3. PICK K : K = [L EXCEPT !.file = g]  OBVIOUS
    <3>4. K \in Log  BY <2>6, <3>2, <3>3, FileIs
    <3>5. PICK t : t = JnlSlot(r, p, 0, FALSE)  OBVIOUS
    <3>6. t \in Slot  BY <2>3, <3>5, SlotTypes
    <3>7. PICK M : M = Reserve(K, t)  OBVIOUS
    <3>8. M \in Log  BY <3>4, <3>6, <3>7, ReserveIs
    <3>9. /\ jb' = [jb EXCEPT ![r] = M] /\ idx' = [idx EXCEPT ![p][r] = L.index2]
          /\ Goto(p, "recoverb")
      BY <1>2, <2>2, <2>4, <2>9, <3>1, <3>3, <3>5, <3>7, Zenon DEF Recover
    <3>10. jb' \in [Region -> Log]  BY <3>8, <3>9
    <3>11. PICK x : x = L.index2  OBVIOUS
    <3>12. x \in Index /\ r \in Region \cup {POOL} /\ idx' = [idx EXCEPT ![p][r] = x]
      BY <2>3, <2>6, <3>9, <3>11, LogFields
    <3>13. idx' \in [Proc -> [Region \cup {POOL} -> Index]]  BY <3>12, IdxStep
    <3>14. Walk(pc', rem', upd')  BY <1>2, <2>1, <3>9, WalkGoto DEF Recover, Goto, PC, InCrit
    <3> QED  BY <1>2, <2>7, <3>10, <3>13, <3>14, TypeNext DEF Recover
  <2> QED  BY <2>8, <2>9
<1>3. CASE RecoverWritten(p)
  <2>1. pc[p] \notin {"idle", "dead"}  BY <1>3 DEF RecoverWritten
  <2>2. Walk(pc', rem', upd')  BY <1>3, WalkGoto DEF RecoverWritten, Goto, PC, InCrit
  <2>3. PICK r, i : r = reg(p) /\ i = idx[p][reg(p)]  OBVIOUS
  <2>4. r \in Region  BY <2>1, <2>3, RegType DEF Walk
  <2>5. i \in Index  BY <2>3, <2>4
  <2>6. PICK K : K = Publish(jb[r])  OBVIOUS
  <2>7. jb[r] \in Log  BY <2>4
  <2>8. K \in Log  BY <2>6, <2>7, PublishIs
  <2>9. PICK M : M = WriteComplete(K, i, p, TRUE, Alive)  OBVIOUS
  <2>10. M \in Log  BY <2>5, <2>8, <2>9, WriteCompleteIs DEF Tidied
  <2>11. jb' = [jb EXCEPT ![r] = M]  BY <1>3, <2>3, <2>6, <2>9, Zenon DEF RecoverWritten
  <2>12. jb' \in [Region -> Log]  BY <2>10, <2>11
  <2> QED  BY <1>3, <2>2, <2>12, TypeNext DEF RecoverWritten
<1>4. CASE RecoverDone(p)
  <2>1. Walk(pc', rem', upd')  BY <1>4, WalkLoop DEF RecoverDone, PC, InCrit
  <2>2. pc[p] \notin {"idle", "dead"}  BY <1>4 DEF RecoverDone
  <2>3. PICK r : r = reg(p)  OBVIOUS
  <2>4. r \in Region  BY <2>2, <2>3, RegType DEF Walk
  <2>5. db' \in [Region -> DB]
    <3>1. db \in [Region -> DB]  OBVIOUS
    <3>2. db[r].curr_tn + 1 \in Nat  BY <2>4, <3>1 DEF DB
    <3>3. PICK d : d = [db[r] EXCEPT !.curr_tn = db[r].curr_tn + 1, !.wc_blocked = FALSE]
      OBVIOUS
    <3>4. d \in DB  BY <2>4, <3>1, <3>2, <3>3 DEF DB
    <3>5. db' = [db EXCEPT ![r] = d]  BY <1>4, <2>3, <3>3, Zenon DEF RecoverDone
    <3> QED  BY <3>1, <3>4, <3>5
  <2> QED  BY <1>4, <2>1, <2>5, TypeNext DEF RecoverDone
<1> QED  BY <1>1, <1>2, <1>3, <1>4

(* Beginnings, errors and kills. *)
LEMMA TypeFault ==
  ASSUME TypeInv, NEW p \in Proc, (\E rs \in Updates : Begin(p, rs)) \/ Fail(p) \/ Kill(p)
  PROVE  TypeInv'
<1> USE TypeIs DEF srcvars, histvars
<1>0. /\ cnt.fault < MaxFault => [cnt EXCEPT !.fault = @ + 1] \in [txn : 0 .. MaxTxn, fault : 0 .. MaxFault]
      /\ cnt.txn < MaxTxn => [cnt EXCEPT !.txn = @ + 1] \in [txn : 0 .. MaxTxn, fault : 0 .. MaxFault]
  BY CommitAssumption
<1>1. ASSUME NEW rs \in Updates, Begin(p, rs)  PROVE TypeInv'
  <2>1. rs \subseteq Region /\ rs # {}  BY CommitAssumption
  <2>2. Walk(pc', rem', upd')
    <3>1. "cmt01" \in PC  BY DEF PC
    <3> QED  BY <1>1, <2>1, <3>1, WalkStep DEF Begin, Goto
  <2>3. cnt' \in [txn : 0 .. MaxTxn, fault : 0 .. MaxFault]  BY <1>0, <1>1 DEF Begin
  <2> QED  BY <1>1, <2>2, <2>3, TypeNext DEF Begin
<1>2. CASE Fail(p)
  <2>1. Walk(pc', rem', upd')
    <3>1. pc[p] \notin {"idle", "dead"}  BY <1>2, CommitAssumption DEF Fail
    <3>2. upd[p] # {} /\ rem[p] # {} /\ rem[p] \subseteq upd[p] /\ upd[p] \subseteq Region
      BY <3>1 DEF Walk
    <3>3. {"undopool", "finish"} \subseteq PC  BY DEF PC, CleaningUp
    <3>4. upd' = upd /\ upd' = [upd EXCEPT ![p] = upd[p]]  BY <1>2 DEF Fail, Walk
    <3>5. CASE Goto(p, "undopool") /\ rem' = [rem EXCEPT ![p] = upd[p]]
      BY <3>2, <3>3, <3>4, <3>5, WalkStep DEF Goto
    <3>6. CASE Goto(p, "finish") /\ rem' = rem  BY <3>1, <3>3, <3>4, <3>6, WalkGoto DEF Goto
    <3> QED  BY <1>2, <3>5, <3>6 DEF Fail
  <2>2. cnt' \in [txn : 0 .. MaxTxn, fault : 0 .. MaxFault]  BY <1>0, <1>2 DEF Fail
  <2> QED  BY <1>2, <2>1, <2>2, TypeNext DEF Fail
<1>3. CASE Kill(p)
  <2>1. Walk(pc', rem', upd')  BY <1>3, WalkStep DEF Kill, PC
  <2>2. cnt' \in [txn : 0 .. MaxTxn, fault : 0 .. MaxFault]  BY <1>0, <1>3 DEF Kill
  <2>3. torn' \subseteq Nat \X Region
    <3>1. token[p] \in Nat /\ rem[p] \subseteq Region  BY DEF Walk
    <3>2. NotUnderway(p) \subseteq Region  BY <3>1 DEF NotUnderway
    <3>3. torn' = torn \cup ({token[p]} \X NotUnderway(p))  BY <1>3 DEF Kill
    <3> QED  BY <3>1, <3>2, <3>3
  <2>4. token' \in [Proc -> Nat]  BY <1>3 DEF Kill
  <2>5. idx' \in [Proc -> [Region \cup {POOL} -> Index]]  BY <1>3, IndexType DEF Kill
  <2> QED  BY <1>3, <2>1, <2>2, <2>3, <2>4, <2>5, TypeNext DEF Kill
<1> QED  BY <1>1, <1>2, <1>3

(* Steps of the readers. *)
LEMMA TypeReaders ==
  ASSUME TypeInv, (\E r \in Region : JnlCleanup(r)) \/ Source
  PROVE  TypeInv'
<1> USE TypeIs DEF procvars, srcvars, histvars
<1>1. ASSUME NEW r \in Region, JnlCleanup(r)  PROVE TypeInv'
  <2>1. PICK M : M = Cleanup(jb[r], NoProc, FALSE, Alive)  OBVIOUS
  <2>2. jb[r] \in Log  OBVIOUS
  <2>3. M \in Log  BY <2>1, <2>2, CleanupIs DEF Tidied
  <2>4. jb' \in [Region -> Log]  BY <1>1, <2>1, <2>3 DEF JnlCleanup
  <2> QED  BY <1>1, <2>4, TypeNext DEF JnlCleanup
<1>2. CASE SourceRead
  <2>1. PICK L : L = Cleanup(pool, NoProc, FALSE, Alive)  OBVIOUS
  <2>2. L \in Log  BY <2>1, CleanupIs DEF Tidied
  <2>3. PICK rec : rec = Fetch(L.file, read_addr)  OBVIOUS
  <2>4. rec \in Record
    <3>1. L.file \in Seq(Record) /\ Len(L.file) \in Nat  BY <2>2, LogFields, LenProperties
    <3>2. CASE read_addr < Len(L.file)
      <4>1. read_addr + 1 \in 1 .. Len(L.file)  BY <3>1, <3>2
      <4> QED  BY <2>3, <3>1, <3>2, <4>1, ElementOfSeq DEF Fetch
    <3>3. CASE ~(read_addr < Len(L.file))  BY <2>3, <3>3, GarbageType DEF Fetch
    <3> QED  BY <3>2, <3>3
  <2>5. pool' = L /\ sent' = Append(sent, rec) /\ read_addr' = read_addr + rec.len
    BY <1>2, <2>1, <2>3 DEF SourceRead
  <2>6. sent' \in Seq(Record)  BY <2>4, <2>5
  <2>7. read_addr' \in Nat  BY <2>4, <2>5 DEF Record
  <2> QED  BY <1>2, <2>2, <2>5, <2>6, <2>7, TypeNext DEF SourceRead
<1>3. CASE SourceSalvage
  <2>1. PICK L : L = IF crit[POOL] = NoProc THEN pool ELSE CleanDeadPool(pool, crit[POOL])
    OBVIOUS
  <2>2. L \in Log  BY <2>1, CleanDeadType
  <2>3. pool' = Cleanup(L, NoProc, TRUE, Alive)  BY <1>3, <2>1 DEF SourceSalvage
  <2>4. pool' \in Log  BY <2>2, <2>3, CleanupIs DEF Tidied
  <2>5. crit' \in [Region \cup {POOL} -> Proc \cup {NoProc}]  BY <1>3 DEF SourceSalvage
  <2> QED  BY <1>3, <2>4, <2>5, TypeNext DEF SourceSalvage
<1> QED  BY <1>1, <1>2, <1>3 DEF Source

LEMMA TypeInit == Init => TypeInv
<1> SUFFICES ASSUME Init  PROVE TypeInv  OBVIOUS
<1>1. Walk(pc, rem, upd)  BY DEF Init, Walk, PC
<1>2. jb \in [Region -> Log] /\ pool \in Log  BY EmptyIs DEF Init
<1>3. db \in [Region -> DB]  BY DEF Init, DB
<1>4. /\ token \in [Proc -> Nat] /\ idx \in [Proc -> [Region \cup {POOL} -> Index]]
      /\ crit \in [Region \cup {POOL} -> Proc \cup {NoProc}]
      /\ jnl_seqno \in Nat /\ read_addr \in Nat /\ torn \subseteq Nat \X Region
      /\ cnt \in [txn : 0 .. MaxTxn, fault : 0 .. MaxFault]
  BY IndexType, CommitAssumption DEF Init
<1>5. sent \in Seq(Record) /\ txn \in Seq([by : Proc, upd : SUBSET Region])
  BY EmptySeq DEF Init
<1> QED  BY <1>1, <1>2, <1>3, <1>4, <1>5, TypeIs

LEMMA TypeStep == TypeInv /\ [Next]_vars => TypeInv'
<1> SUFFICES ASSUME TypeInv, [Next]_vars  PROVE TypeInv'  OBVIOUS
<1>1. CASE UNCHANGED vars  BY <1>1 DEF vars, TypeInv, TypeOK, InLoop
<1>2. ASSUME NEW p \in Proc, Step(p)  PROVE TypeInv'
  <2>1. CASE GrabCrit(p) \/ Recover(p) \/ RecoverWritten(p) \/ RecoverDone(p)
    BY <2>1, TypeGrab
  <2>2. CASE \/ GrabLock(p) \/ EarlyTn(p) \/ SetJnlSeqno(p) \/ UpdateUnderway(p)
             \/ SetRegSeqno(p) \/ IncrementCurrTn(p) \/ RelCrit(p) \/ RelLock(p) \/ Finish(p)
    BY <2>2, TypePhase1
  <2>3. CASE \/ ReservePool(p) \/ PublishPool(p) \/ ReserveJnl(p) \/ PublishJnl(p)
             \/ UndoPool(p) \/ UndoDB(p) \/ UndoRel(p)
    BY <2>3, TypeReserve
  <2>4. CASE WriteJnl(p) \/ JnlWriteComplete(p) \/ WritePool(p) \/ PoolWriteComplete(p)
    BY <2>4, TypePhase2
  <2> QED  BY <1>2, <2>1, <2>2, <2>3, <2>4 DEF Step
<1>3. ASSUME NEW p \in Proc, (\E rs \in Updates : Begin(p, rs)) \/ Fail(p) \/ Kill(p)
      PROVE  TypeInv'
  BY <1>3, TypeFault
<1>4. CASE (\E r \in Region : JnlCleanup(r)) \/ Source  BY <1>4, TypeReaders
<1> QED  BY <1>1, <1>2, <1>3, <1>4 DEF Next

(* Every reachable state of the commit protocol is well typed, for any number *)
(* of processes and regions, any size of the phase 2 arrays, and kills and    *)
(* errors at any step: no index leaves its array, no address or transaction   *)
(* number becomes negative.                                                   *)
THEOREM CommitTypeCorrect == Spec => []TypeOK
<1>1. TypeInv => TypeOK  BY DEF TypeInv
<1> QED  BY <1>1, TypeInit, TypeStep, PTL DEF Spec

-----------------------------------------------------------------------------
(* The journal pool *)

LEMMA OrderedTidied ==
  ASSUME NEW L \in Log, NEW M, NEW C, Tidied(M, L, C), Ordered(L)
  PROVE  Ordered(M)
<1> SUFFICES ASSUME NEW i \in InUse(M)  PROVE M.slot[i].jnl_seqno = M.slot[DECR(i)].jnl_seqno + 1
  BY DEF Ordered
<1>1. i \in InUse(L)  BY DEF Tidied
<1>2. i \in Index /\ DECR(i) \in Index  BY IndexType DEF InUse
<1> QED  BY <1>1, <1>2 DEF Ordered, Tidied, Alike

LEMMA FullIs ==
  ASSUME NEW L \in Log
  PROVE  Full(L) <=> INCR(L.index2) \in InUse(L)
BY LogFields, LogAssumption DEF Full, InUse, INCR, Index

LEMMA SettledTidied ==
  ASSUME NEW L \in Log, NEW M, NEW C, Tidied(M, L, C), NEW s, Settled(L, s)
  PROVE  Settled(M, s)
BY LevelTidied DEF Settled, Alike

LEMMA PendingTidied ==
  ASSUME NEW L \in Log, NEW M, NEW C, Tidied(M, L, C), NEW s, NEW h, Pending(L, s, h),
         \A j \in C : L.slot[j].process_id # h
  PROVE  Pending(M, s, h)
<1>1. Alike(Last(M), Last(L)) /\ Level(M)  BY LevelTidied DEF Pending
<1>2. PICK j : j = DECR(L.index2)  OBVIOUS
<1>3. j \in InUse(L) /\ Last(L) = L.slot[j]  BY <1>2, InUseEnds DEF Pending, Last
<1>4. j \in Index /\ j \notin C  BY <1>3 DEF Pending, InUse
<1>5. Last(M) = M.slot[j]  BY <1>2 DEF Last, Tidied
<1>6. ~M.slot[j].write_complete  BY <1>3, <1>4 DEF Tidied, Pending
<1>7. j \in InUse(M)  BY <1>3, <1>6 DEF Tidied
<1>8. M.index1 # M.index2
  <2>1. M \in Log  BY DEF Tidied
  <2> QED  BY <2>1, <1>7, InUseEnds
<1> QED  BY <1>1, <1>5, <1>6, <1>8 DEF Pending, Alike

LEMMA ReservedTidied ==
  ASSUME NEW L \in Log, NEW M, NEW C, Tidied(M, L, C), NEW s, NEW h, Reserved(L, s, h),
         \A j \in C : L.slot[j].process_id # h
  PROVE  Reserved(M, s, h)
<1>1. PICK j : j = L.index2  OBVIOUS
<1>2. j \in Index /\ M.index2 = j /\ M \in Log  BY <1>1, LogFields DEF Tidied
<1>3. Alike(M.slot[j], L.slot[j]) /\ Alike(Last(M), Last(L))  BY <1>2, LevelTidied DEF Tidied
<1>4. ~M.slot[j].write_complete
  <2>1. j \notin C  BY <1>1 DEF Reserved
  <2> QED  BY <1>1, <1>2, <2>1 DEF Tidied, Reserved
<1>5. Follows(M.slot[j], Last(M))  BY <1>1, <1>3, FollowsAlike DEF Reserved
<1>6. EndOf(M.slot[j]) = EndOf(L.slot[j])  BY <1>3, EndOfAlike
<1>7. ~Full(M)
  <2>1. ~Full(L)  BY DEF Reserved
  <2>2. INCR(L.index2) \notin InUse(L)  BY <2>1, FullIs
  <2>3. INCR(M.index2) \notin InUse(M)  BY <2>2, <1>1, <1>2 DEF Tidied
  <2> QED  BY <2>3, <1>2, FullIs
<1> QED  BY <1>1, <1>2, <1>3, <1>4, <1>5, <1>6, <1>7 DEF Reserved, Tidied, Alike

LEMMA StageTidied ==
  ASSUME NEW L \in Log, NEW M, NEW C, Tidied(M, L, C), NEW l, NEW s, NEW h, NEW t, NEW i,
         Stage(l, L, s, h, t, i), \A j \in C : L.slot[j].process_id # h
  PROVE  Stage(l, M, s, h, t, i)
<1>1. M.index2 = L.index2  BY DEF Tidied
<1>2. Settled(L, s) => Settled(M, s)  BY SettledTidied
<1>3. Pending(L, s, h) => Pending(M, s, h)  BY PendingTidied
<1>4. Reserved(L, s, h) => Reserved(M, s, h)  BY ReservedTidied
<1> QED  BY <1>1, <1>2, <1>3, <1>4 DEF Stage

LEMMA MineTidied ==
  ASSUME NEW L \in Log, NEW M, NEW C, Tidied(M, L, C), NEW l, NEW p, NEW t, NEW i,
         Mine(l, L, p, t, i), l \in Entered => \A j \in C : L.slot[j].process_id # p
  PROVE  Mine(l, M, p, t, i)
<1> SUFFICES ASSUME l \in Entered
             PROVE  /\ i \in InUse(M) /\ ~M.slot[i].write_complete
                    /\ M.slot[i].process_id = p /\ M.slot[i].jnl_seqno = t
  BY DEF Mine
<1>1. /\ i \in InUse(L) /\ ~L.slot[i].write_complete
      /\ L.slot[i].process_id = p /\ L.slot[i].jnl_seqno = t
  BY DEF Mine
<1>2. i \in Index /\ i \notin C  BY <1>1 DEF InUse
<1>3. ~M.slot[i].write_complete  BY <1>1, <1>2 DEF Tidied
<1> QED  BY <1>1, <1>2, <1>3 DEF Tidied, Alike

(* Steps between which the pool makes no difference. *)
Kin(a, b) ==
  /\ a \in PoolCrit <=> b \in PoolCrit
  /\ a \in Published <=> b \in Published
  /\ b \in Entered => a \in Entered
  /\ {a, b} \cap {"cmt03", "cmt03b", "dead"} = {}

LEMMA PoolGoto ==
  ASSUME TypeInv, PoolInv, NEW p \in Proc, NEW l, pc' = [pc EXCEPT ![p] = l], Kin(pc[p], l),
         pool' = pool, jnl_seqno' = jnl_seqno, token' = token,
         \A q \in Proc : idx'[q][POOL] = idx[q][POOL], crit'[POOL] = crit[POOL]
  PROVE  PoolInv'
<1>1. pc'[p] = l /\ \A q \in Proc : q # p => pc'[q] = pc[q]  BY DEF TypeInv, TypeOK
<1>2. ASSUME NEW q \in Proc
      PROVE  /\ Held(pc'[q], crit'[POOL], q)
             /\ Mine(pc'[q], pool', q, token'[q], idx'[q][POOL])
             /\ crit'[POOL] = q => Stage(pc'[q], pool', jnl_seqno', q, token'[q], idx'[q][POOL])
  <2>1. /\ Held(pc[q], crit[POOL], q) /\ Mine(pc[q], pool, q, token[q], idx[q][POOL])
        /\ crit[POOL] = q => Stage(pc[q], pool, jnl_seqno, q, token[q], idx[q][POOL])
    BY DEF PoolInv
  <2>2. CASE q # p  BY <1>1, <2>1, <2>2
  <2>3. CASE q = p
    <3>1. Held(l, crit[POOL], q)  BY <2>1, <2>3 DEF Held, Kin
    <3>2. Mine(l, pool, q, token[q], idx[q][POOL])  BY <2>1, <2>3 DEF Mine, Kin
    <3>3. crit[POOL] = q => Stage(l, pool, jnl_seqno, q, token[q], idx[q][POOL])
      BY <2>1, <2>3 DEF Stage, Kin
    <3> QED  BY <1>1, <2>3, <3>1, <3>2, <3>3
  <2> QED  BY <2>2, <2>3
<1> QED  BY <1>2 DEF PoolInv

(* Steps that leave the pool alone. *)
LEMMA PoolKin ==
  ASSUME TypeInv, NEW p \in Proc,
         \/ \E rs \in Updates : Begin(p, rs)
         \/ GrabCrit(p) \/ Recover(p) \/ RecoverWritten(p) \/ RecoverDone(p)
         \/ EarlyTn(p) \/ ReserveJnl(p)
         \/ PublishJnl(p) \/ UpdateUnderway(p) \/ SetRegSeqno(p) \/ IncrementCurrTn(p)
         \/ RelCrit(p) \/ Finish(p) \/ UndoDB(p) \/ WriteJnl(p) \/ JnlWriteComplete(p) \/ Fail(p)
  PROVE  /\ \E l : pc' = [pc EXCEPT ![p] = l] /\ Kin(pc[p], l)
         /\ pool' = pool /\ jnl_seqno' = jnl_seqno /\ token' = token
         /\ \A q \in Proc : idx'[q][POOL] = idx[q][POOL]
         /\ crit'[POOL] = crit[POOL]
<1> DEFINE Moves(a, b) == \E l \in {a, b} : pc' = [pc EXCEPT ![p] = l]
<1>0. ASSUME NEW a, NEW b, Loop(p, a, b)  PROVE Moves(a, b)  BY <1>0 DEF Loop
<1>1. pc \in [Proc -> PC]  BY DEF TypeInv, TypeOK
<1>2. \E l : pc' = [pc EXCEPT ![p] = l] /\ Kin(pc[p], l)
  <2> USE DEF Kin, PoolCrit, CleaningUp, Published, Entered, Phase2
  <2>1. CASE \E rs \in Updates : Begin(p, rs)
    <3>1. pc[p] = "idle" /\ pc' = [pc EXCEPT ![p] = "cmt01"]  BY <2>1 DEF Begin, Goto
    <3> QED  BY <3>1
  <2>2. CASE GrabCrit(p)
    <3>1. Goto(p, "recover") \/ Loop(p, "cmt01", "grabpool")  BY <2>2 DEF GrabCrit, AfterGrab
    <3>2. pc[p] = "cmt01"  BY <2>2 DEF GrabCrit
    <3> QED  BY <3>1, <3>2, <1>0 DEF Goto
  <2>3. CASE Recover(p)
    <3>1. pc[p] = "recover" /\ (pc' = pc \/ Goto(p, "recoverb"))  BY <2>3 DEF Recover
    <3>2. pc = [pc EXCEPT ![p] = pc[p]]  BY <1>1
    <3> QED  BY <3>1, <3>2 DEF Goto
  <2>4. CASE RecoverWritten(p)  BY <2>4 DEF RecoverWritten, Goto
  <2>5. CASE EarlyTn(p)
    <3>1. pc[p] = "cmt04" /\ Loop(p, "cmt04", "cmt06")  BY <2>5 DEF EarlyTn
    <3> QED  BY <3>1, <1>0
  <2>6. CASE ReserveJnl(p)
    <3>1. pc[p] = "cmt06" /\ (pc' = pc \/ Goto(p, "cmt06b"))  BY <2>6 DEF ReserveJnl
    <3>2. pc = [pc EXCEPT ![p] = pc[p]]  BY <1>1
    <3> QED  BY <3>1, <3>2 DEF Goto
  <2>7. CASE PublishJnl(p)
    <3>1. pc[p] = "cmt06b" /\ Loop(p, "cmt06", "cmt07")  BY <2>7 DEF PublishJnl
    <3> QED  BY <3>1, <1>0
  <2>8. CASE UpdateUnderway(p)  BY <2>8 DEF UpdateUnderway, Goto
  <2>9. CASE SetRegSeqno(p)  BY <2>9 DEF SetRegSeqno, Goto
  <2>10. CASE IncrementCurrTn(p)  BY <2>10 DEF IncrementCurrTn, Goto
  <2>11. CASE RelCrit(p)
    <3>1. pc[p] = "cmt14" /\ Loop(p, "cmt08", "cmt15")  BY <2>11 DEF RelCrit
    <3> QED  BY <3>1, <1>0
  <2>12. CASE Finish(p)
    <3>1. pc[p] = "finish" /\ Loop(p, "finish", "cmt15")  BY <2>12 DEF Finish
    <3> QED  BY <3>1, <1>0
  <2>13. CASE UndoDB(p)
    <3>1. pc[p] = "undodb" /\ Loop(p, "undodb", "undorel")  BY <2>13 DEF UndoDB
    <3> QED  BY <3>1, <1>0
  <2>14. CASE WriteJnl(p)  BY <2>14 DEF WriteJnl, Goto
  <2>15. CASE JnlWriteComplete(p)
    <3>1. pc[p] = "cmt16c" /\ Loop(p, "cmt16", "cmt17")  BY <2>15 DEF JnlWriteComplete
    <3> QED  BY <3>1, <1>0
  <2>16. CASE Fail(p)
    <3>1. pc[p] \in {"cmt04", "cmt06", "cmt07", "cmt12"}  BY <2>16, CommitAssumption DEF Fail
    <3>2. \/ pc[p] # "cmt12" /\ pc' = [pc EXCEPT ![p] = "undopool"]
          \/ pc[p] = "cmt12" /\ pc' = [pc EXCEPT ![p] = "finish"]
      BY <2>16 DEF Fail, Goto
    <3> QED  BY <3>1, <3>2
  <2>17. CASE RecoverDone(p)
    <3>1. pc[p] = "recoverc" /\ Loop(p, "cmt01", "grabpool")  BY <2>17 DEF RecoverDone
    <3> QED  BY <3>1, <1>0
  <2> QED  BY <2>1, <2>2, <2>3, <2>4, <2>5, <2>6, <2>7, <2>8, <2>9, <2>10, <2>11, <2>12, <2>13,
              <2>14, <2>15, <2>16, <2>17
<1>3. pool' = pool /\ jnl_seqno' = jnl_seqno /\ token' = token
  BY DEF Begin, GrabCrit, Recover, RecoverWritten, RecoverDone, EarlyTn, ReserveJnl, PublishJnl,
         UpdateUnderway, SetRegSeqno, IncrementCurrTn, RelCrit, Finish, UndoDB, WriteJnl, JnlWriteComplete, Fail
<1>4. pc[p] \in {"cmt01", "recover", "recoverb", "recoverc", "cmt14", "cmt06", "finish", "undodb"} =>
        reg(p) \in Region
  BY RegType DEF TypeInv, InLoop
<1>5. \A q \in Proc : idx'[q][POOL] = idx[q][POOL]
  <2>1. idx' = idx \/ \E x : \E r \in Region : idx' = [idx EXCEPT ![p][r] = x]
    BY <1>4 DEF Begin, GrabCrit, Recover, RecoverWritten, RecoverDone, EarlyTn, ReserveJnl, PublishJnl,
         UpdateUnderway, SetRegSeqno, IncrementCurrTn, RelCrit, Finish, UndoDB, WriteJnl,
         JnlWriteComplete, Fail
  <2>2. ASSUME NEW r \in Region, NEW x, idx' = [idx EXCEPT ![p][r] = x], NEW q \in Proc
        PROVE  idx'[q][POOL] = idx[q][POOL]
    <3>1. idx \in [Proc -> [Region \cup {POOL} -> Index]]  BY DEF TypeInv, TypeOK
    <3>2. PICK g : g = [idx[p] EXCEPT ![r] = x]  OBVIOUS
    <3>3. idx' = [idx EXCEPT ![p] = g]  BY <2>2, <3>2, Zenon
    <3>4. g[POOL] = idx[p][POOL]  BY <3>1, <3>2, RegionIs
    <3> QED  BY <3>1, <3>3, <3>4
  <2> QED  BY <2>1, <2>2
<1>6. crit'[POOL] = crit[POOL]
  <2>1. crit' = crit \/ \E x : \E r \in Region : crit' = [crit EXCEPT ![r] = x]
    BY <1>4 DEF Begin, GrabCrit, Recover, RecoverWritten, RecoverDone, EarlyTn, ReserveJnl, PublishJnl,
         UpdateUnderway, SetRegSeqno, IncrementCurrTn, RelCrit, Finish, UndoDB, WriteJnl,
         JnlWriteComplete, Fail
  <2>2. POOL \in DOMAIN crit  BY DEF TypeInv, TypeOK
  <2> QED  BY <2>1, <2>2, RegionIs
<1> QED  BY <1>2, <1>3, <1>5, <1>6

LEMMA PoolSame ==
  ASSUME TypeInv, PoolInv, NEW p \in Proc,
         \/ \E rs \in Updates : Begin(p, rs)
         \/ GrabCrit(p) \/ Recover(p) \/ RecoverWritten(p) \/ RecoverDone(p)
         \/ EarlyTn(p) \/ ReserveJnl(p)
         \/ PublishJnl(p) \/ UpdateUnderway(p) \/ SetRegSeqno(p) \/ IncrementCurrTn(p)
         \/ RelCrit(p) \/ Finish(p) \/ UndoDB(p) \/ WriteJnl(p) \/ JnlWriteComplete(p) \/ Fail(p)
  PROVE  PoolInv'
BY PoolKin, PoolGoto

(* A log that differs from L in rsrv, last and the file only. *)
LEMMA ChainFrame ==
  ASSUME NEW L, NEW M, M.free = L.free, M.index1 = L.index1, M.index2 = L.index2, M.slot = L.slot
  PROVE  /\ InUse(M) = InUse(L) /\ Last(M) = Last(L)
         /\ Chain(L) => Chain(M) /\ (Ordered(L) => Ordered(M))
<1>1. InUse(M) = InUse(L)  BY InUseFrame
<1> QED  BY <1>1 DEF Chain, Ordered, Last

(* Undoing a reservation for s leaves the one before it. *)
LEMMA WithdrawPool ==
  ASSUME NEW L \in Log, Chain(L), Ordered(L), NEW s, NEW h, Pending(L, s, h),
         NEW M, M = Withdraw(L)
  PROVE  /\ M \in Log /\ Chain(M) /\ Ordered(M) /\ Settled(M, s)
         /\ M.slot = L.slot /\ InUse(M) \subseteq InUse(L)
         /\ \A i \in InUse(L) : L.slot[i].process_id # h => i \in InUse(M)
<1>1. L.index1 # L.index2 /\ Last(L).jnl_seqno = s /\ Last(L).process_id = h  BY DEF Pending
<1>2. /\ Chain(M) /\ Level(M) /\ Last(M) = L.slot[DECR(DECR(L.index2))]
      /\ InUse(M) = InUse(L) \ {DECR(L.index2)} /\ DECR(L.index2) \in InUse(L)
  BY <1>1, WithdrawChain
<1>3. M \in Log /\ M.slot = L.slot  BY WithdrawIs
<1>4. Ordered(M)  BY <1>2, <1>3 DEF Ordered
<1>5. Last(L).jnl_seqno = Last(M).jnl_seqno + 1  BY <1>2 DEF Ordered, Last
<1>6. Settled(M, s)  BY <1>1, <1>2, <1>5 DEF Settled
<1>7. ASSUME NEW i \in InUse(L), L.slot[i].process_id # h  PROVE i \in InUse(M)
  <2>1. i # DECR(L.index2)  BY <1>1, <1>7 DEF Last
  <2> QED  BY <1>2, <2>1
<1> QED  BY <1>2, <1>3, <1>4, <1>6, <1>7

LEMMA MineSpared ==
  ASSUME NEW l, NEW L, NEW M, NEW p, NEW t, NEW i, Mine(l, L, p, t, i), M.slot = L.slot,
         l \in Entered => \A j \in InUse(L) : L.slot[j].process_id = p => j \in InUse(M)
  PROVE  Mine(l, M, p, t, i)
BY DEF Mine

(* mutex_clean_dead_owner brings the pool in order, and takes nothing from   *)
(* the living.                                                               *)
LEMMA CleanPool ==
  ASSUME TypeInv, PoolInv, NEW h \in Proc, crit[POOL] = h, pc[h] = "dead",
         NEW M, M = CleanDeadPool(pool, h)
  PROVE  /\ M \in Log /\ Chain(M) /\ Ordered(M) /\ Settled(M, jnl_seqno)
         /\ \A q \in Proc : Mine(pc[q], M, q, token[q], idx[q][POOL])
<1>1. pool \in Log /\ Chain(pool) /\ Ordered(pool)  BY DEF PoolInv, TypeInv, TypeOK
<1>2. Settled(pool, jnl_seqno) \/ Pending(pool, jnl_seqno, h)
  <2>1. Stage("dead", pool, jnl_seqno, h, token[h], idx[h][POOL])  BY DEF PoolInv
  <2> QED  BY <2>1 DEF Stage
<1>3. \A q \in Proc : Mine(pc[q], pool, q, token[q], idx[q][POOL])  BY DEF PoolInv
<1>4. \A q \in Proc : pc[q] \in Entered => q # h
  BY DEF Entered, Published, Phase2
<1>5. CASE Settled(pool, jnl_seqno)
  <2>1. Last(pool).jnl_seqno # jnl_seqno
    <3>1. Last(pool).jnl_seqno \in Nat  BY <1>1, LastType, SlotFields
    <3> QED  BY <1>5, <3>1 DEF Settled
  <2>2. M = pool \/ M = Realign(pool)  BY <2>1 DEF CleanDeadPool
  <2>3. CASE M = Realign(pool)
    <3>1. /\ M \in Log /\ Level(M)
          /\ M.free = pool.free /\ M.index1 = pool.index1 /\ M.index2 = pool.index2
          /\ M.slot = pool.slot
      BY <1>1, <2>3, RealignIs
    <3>2. InUse(M) = InUse(pool) /\ Last(M) = Last(pool) /\ Chain(M) /\ Ordered(M)
      BY <1>1, <3>1, ChainFrame
    <3>3. \A q \in Proc : Mine(pc[q], M, q, token[q], idx[q][POOL])
      BY <1>3, <3>1, <3>2, MineSpared
    <3> QED  BY <1>5, <3>1, <3>2, <3>3 DEF Settled
  <2> QED  BY <1>1, <1>3, <1>5, <2>2, <2>3
<1>6. CASE Pending(pool, jnl_seqno, h)
  <2>1. M = Withdraw(pool)  BY <1>6 DEF Pending, CleanDeadPool
  <2>2. /\ M \in Log /\ Chain(M) /\ Ordered(M) /\ Settled(M, jnl_seqno)
        /\ M.slot = pool.slot
        /\ \A i \in InUse(pool) : pool.slot[i].process_id # h => i \in InUse(M)
    BY <1>1, <1>6, <2>1, WithdrawPool
  <2>3. \A q \in Proc : Mine(pc[q], M, q, token[q], idx[q][POOL])
    BY <1>3, <1>4, <2>2, MineSpared
  <2> QED  BY <2>2, <2>3
<1> QED  BY <1>2, <1>5, <1>6

(* The holder of the pool's mutex is unique. *)
LEMMA OneHolder ==
  ASSUME PoolInv, NEW p \in Proc, crit[POOL] \notin Proc \ {p} \/ pc[crit[POOL]] = "dead"
  PROVE  \A q \in Proc : q # p => pc[q] \notin PoolCrit
BY DEF PoolInv, Held, PoolCrit, CleaningUp

LEMMA PoolNext ==
  ASSUME Chain(pool'), Ordered(pool'), crit'[POOL] = NoProc => Settled(pool', jnl_seqno'),
         \A q \in Proc :
           /\ Held(pc'[q], crit'[POOL], q)
           /\ Mine(pc'[q], pool', q, token'[q], idx'[q][POOL])
           /\ crit'[POOL] = q => Stage(pc'[q], pool', jnl_seqno', q, token'[q], idx'[q][POOL])
  PROVE  PoolInv'
BY DEF PoolInv

(* What p knows of the pool while it holds the mutex. *)
LEMMA HolderKnows ==
  ASSUME TypeInv, PoolInv, NEW p \in Proc, pc[p] \in PoolCrit
  PROVE  /\ crit[POOL] = p /\ pool \in Log /\ Chain(pool) /\ Ordered(pool)
         /\ Stage(pc[p], pool, jnl_seqno, p, token[p], idx[p][POOL])
         /\ \A q \in Proc : Mine(pc[q], pool, q, token[q], idx[q][POOL])
         /\ \A q \in Proc : q # p => pc[q] \notin PoolCrit
BY OneHolder DEF PoolInv, Held, TypeInv, TypeOK

LEMMA PoolGrab ==
  ASSUME TypeInv, PoolInv, NEW p \in Proc, GrabLock(p)
  PROVE  PoolInv'
<1>1. /\ pc[p] = "grabpool" /\ pc' = [pc EXCEPT ![p] = "cmt03"]
      /\ token' = [token EXCEPT ![p] = jnl_seqno] /\ idx' = idx /\ jnl_seqno' = jnl_seqno
      /\ crit' = [crit EXCEPT ![POOL] = p]
      /\ \/ crit[POOL] = NoProc /\ pool' = pool
         \/ crit[POOL] \in Proc \ Alive /\ pool' = CleanDeadPool(pool, crit[POOL])
  BY DEF GrabLock, Goto
<1>2. pc \in [Proc -> PC] /\ token \in [Proc -> Nat]
      /\ crit \in [Region \cup {POOL} -> Proc \cup {NoProc}]
  BY DEF TypeInv, TypeOK
<1>3. crit'[POOL] = p /\ pc'[p] = "cmt03" /\ token'[p] = jnl_seqno  BY <1>1, <1>2
<1>4. \A q \in Proc : q # p => pc'[q] = pc[q] /\ token'[q] = token[q]  BY <1>1, <1>2
<1>5. /\ Chain(pool') /\ Ordered(pool') /\ Settled(pool', jnl_seqno)
      /\ \A q \in Proc : Mine(pc[q], pool', q, token[q], idx[q][POOL])
  <2>1. CASE crit[POOL] = NoProc /\ pool' = pool  BY <2>1 DEF PoolInv
  <2>2. CASE crit[POOL] \in Proc \ Alive /\ pool' = CleanDeadPool(pool, crit[POOL])
    <3>1. PICK h : h = crit[POOL]  OBVIOUS
    <3>2. h \in Proc /\ pc[h] = "dead" /\ crit[POOL] = h /\ pool' = CleanDeadPool(pool, h)
      BY <2>2, <3>1 DEF Alive
    <3> QED  BY <3>2, CleanPool
  <2> QED  BY <1>1, <2>1, <2>2
<1>6. \A q \in Proc : q # p => pc[q] \notin PoolCrit
  <2>1. crit[POOL] \notin Proc \/ pc[crit[POOL]] = "dead"  BY <1>1, RegionIs DEF Alive
  <2> QED  BY <2>1, OneHolder
<1>7. ASSUME NEW q \in Proc
      PROVE  /\ Held(pc'[q], crit'[POOL], q)
             /\ Mine(pc'[q], pool', q, token'[q], idx'[q][POOL])
             /\ crit'[POOL] = q => Stage(pc'[q], pool', jnl_seqno', q, token'[q], idx'[q][POOL])
  <2>1. CASE q = p
    <3>1. Held("cmt03", p, p)  BY DEF Held, PoolCrit
    <3>2. Mine("cmt03", pool', p, jnl_seqno, idx'[p][POOL])
      BY DEF Mine, Entered, Published, Phase2
    <3>3. Stage("cmt03", pool', jnl_seqno, p, jnl_seqno, idx'[p][POOL])
      BY <1>5 DEF Stage, Published
    <3> QED  BY <1>1, <1>3, <2>1, <3>1, <3>2, <3>3
  <2>2. CASE q # p
    <3>1. Held(pc[q], p, q)  BY <1>6, <2>2 DEF Held
    <3> QED  BY <1>1, <1>3, <1>4, <1>5, <2>2, <3>1
  <2> QED  BY <2>1, <2>2
<1>8. crit'[POOL] # NoProc  BY <1>3, RegionIs
<1> QED  BY <1>5, <1>7, <1>8, PoolNext

LEMMA PoolReserve ==
  ASSUME TypeInv, PoolInv, NEW p \in Proc, ReservePool(p)
  PROVE  PoolInv'
<1>1. /\ pc[p] = "cmt03" /\ token' = token /\ jnl_seqno' = jnl_seqno /\ crit' = crit
  BY DEF ReservePool
<1>2. /\ crit[POOL] = p /\ pool \in Log /\ Chain(pool) /\ Ordered(pool)
      /\ Stage("cmt03", pool, jnl_seqno, p, token[p], idx[p][POOL])
      /\ \A q \in Proc : Mine(pc[q], pool, q, token[q], idx[q][POOL])
      /\ \A q \in Proc : q # p => pc[q] \notin PoolCrit
  BY <1>1, HolderKnows DEF PoolCrit
<1>3. \A q \in Proc : Held(pc[q], crit[POOL], q)  BY DEF PoolInv
<1>4. crit[POOL] # NoProc  BY <1>2, RegionIs
<1>5. CASE Full(pool)
  <2>1. pool' = Cleanup(pool, p, TRUE, Alive) /\ pc' = pc /\ idx' = idx
    BY <1>5 DEF ReservePool
  <2>2. PICK C : C = Orphans(pool, p, Alive)  OBVIOUS
  <2>3. Tidied(pool', pool, C) /\ Chain(pool')  BY <1>2, <2>1, <2>2, CleanupIs
  <2>4. \A q \in Proc : q = p \/ q \in Alive => \A j \in C : pool.slot[j].process_id # q
    BY <2>2 DEF Orphans
  <2>5. Ordered(pool')  BY <1>2, <2>3, OrderedTidied
  <2>6. ASSUME NEW q \in Proc  PROVE Mine(pc[q], pool', q, token[q], idx[q][POOL])
    <3>1. pc[q] \in Entered => q \in Alive  BY DEF Entered, Published, Phase2, Alive
    <3> QED  BY <1>2, <2>3, <2>4, <3>1, MineTidied
  <2>7. Stage(pc[p], pool', jnl_seqno, p, token[p], idx[p][POOL])
    BY <1>1, <1>2, <2>3, <2>4, StageTidied
  <2> QED  BY <1>1, <1>2, <1>3, <1>4, <2>1, <2>3, <2>5, <2>6, <2>7, PoolNext
<1>6. CASE ~Full(pool)
  <2>1. /\ pool' = Reserve(pool, PoolSlot(p)) /\ idx' = [idx EXCEPT ![p][POOL] = pool.index2]
        /\ pc' = [pc EXCEPT ![p] = "cmt03b"]
    BY <1>6 DEF ReservePool, Goto
  <2>2. PICK s : s = PoolSlot(p)  OBVIOUS
  <2>3. s \in Slot  BY <2>2, SlotTypes
  <2>4. s.jnl_seqno = token[p] /\ s.process_id = p /\ ~s.write_complete  BY <2>2 DEF PoolSlot
  <2>5. Settled(pool, jnl_seqno) /\ token[p] = jnl_seqno  BY <1>2 DEF Stage, Published
  <2>6. /\ Chain(pool') /\ Last(pool') = Last(pool)
        /\ Follows(pool'.slot[pool'.index2], Last(pool'))
        /\ pool'.rsrv = EndOf(pool'.slot[pool'.index2])
        /\ pool'.last = pool'.slot[pool'.index2].tot_jrec_len
    BY <1>2, <1>6, <2>1, <2>2, <2>3, <2>5, ReserveChain DEF Settled
  <2>7. /\ pool' \in Log /\ pool'.index1 = pool.index1 /\ pool'.index2 = pool.index2
        /\ pool'.slot[pool.index2] = Placed(pool, s)
        /\ \A i \in Index : i # pool.index2 => pool'.slot[i] = pool.slot[i]
    BY <1>2, <2>1, <2>2, <2>3, ReserveIs
  <2>8. PICK t : t = Placed(pool, s)  OBVIOUS
  <2>9. t.jnl_seqno = jnl_seqno /\ t.process_id = p /\ ~t.write_complete
    BY <1>2, <2>3, <2>4, <2>5, <2>8, PlacedIs
  <2>10. InUse(pool') = InUse(pool) /\ Full(pool') = Full(pool)  BY <2>7, InUseFrame
  <2>11. \A i \in InUse(pool) : pool'.slot[i] = pool.slot[i] /\ pool'.slot[DECR(i)] = pool.slot[DECR(i)]
    <3>1. \A i \in InUse(pool) : /\ i \in Index /\ i # pool.index2
                                 /\ DECR(i) \in Index /\ DECR(i) # pool.index2
      BY <1>2, <1>6, InUseEnds, IndexType
    <3> QED  BY <2>7, <3>1
  <2>12. Ordered(pool')  BY <1>2, <2>10, <2>11 DEF Ordered
  <2>13. Reserved(pool', jnl_seqno, p)
    BY <1>6, <2>5, <2>6, <2>7, <2>8, <2>9, <2>10 DEF Reserved, Settled
  <2>14. PICK x : x = pool.index2  OBVIOUS
  <2>15. x \in Index /\ POOL \in Region \cup {POOL} /\ idx' = [idx EXCEPT ![p][POOL] = x]
    BY <1>2, <2>1, <2>14, LogFields
  <2>16. idx'[p][POOL] = x /\ \A q \in Proc : q # p => idx'[q] = idx[q]  BY <2>15, IdxStep
  <2>17. pc'[p] = "cmt03b" /\ \A q \in Proc : q # p => pc'[q] = pc[q]
    BY <2>1 DEF TypeInv, TypeOK
  <2>18. ASSUME NEW q \in Proc
         PROVE  /\ Held(pc'[q], crit'[POOL], q)
                /\ Mine(pc'[q], pool', q, token'[q], idx'[q][POOL])
                /\ crit'[POOL] = q => Stage(pc'[q], pool', jnl_seqno', q, token'[q], idx'[q][POOL])
    <3>1. CASE q = p
      <4>1. Held("cmt03b", p, p)  BY DEF Held, PoolCrit
      <4>2. Mine("cmt03b", pool', p, token[p], idx'[p][POOL])
        BY DEF Mine, Entered, Published, Phase2
      <4>3. Stage("cmt03b", pool', jnl_seqno, p, token[p], x)
        BY <2>5, <2>7, <2>13, <2>14 DEF Stage, Published
      <4> QED  BY <1>1, <1>2, <2>16, <2>17, <3>1, <4>1, <4>2, <4>3
    <3>2. CASE q # p
      <4>1. Mine(pc[q], pool', q, token[q], idx[q][POOL])  BY <1>2, <2>10, <2>11 DEF Mine
      <4> QED  BY <1>1, <1>2, <1>3, <2>16, <2>17, <3>2, <4>1
    <3> QED  BY <3>1, <3>2
  <2> QED  BY <1>1, <1>4, <2>6, <2>12, <2>18, PoolNext
<1> QED  BY <1>5, <1>6

LEMMA PoolPublish ==
  ASSUME TypeInv, PoolInv, NEW p \in Proc, PublishPool(p)
  PROVE  PoolInv'
<1>1. /\ pc[p] = "cmt03b" /\ token' = token /\ idx' = idx /\ jnl_seqno' = jnl_seqno
      /\ crit' = crit /\ pc' = [pc EXCEPT ![p] = "cmt04"] /\ pool' = Publish(pool)
  BY DEF PublishPool, Goto
<1>2. /\ crit[POOL] = p /\ pool \in Log /\ Chain(pool) /\ Ordered(pool)
      /\ Stage("cmt03b", pool, jnl_seqno, p, token[p], idx[p][POOL])
      /\ \A q \in Proc : Mine(pc[q], pool, q, token[q], idx[q][POOL])
  BY <1>1, HolderKnows DEF PoolCrit
<1>3. PICK t : t = pool.slot[pool.index2]  OBVIOUS
<1>4. /\ ~Full(pool) /\ Follows(t, Last(pool)) /\ pool.rsrv = EndOf(t)
      /\ pool.last = t.tot_jrec_len
      /\ t.jnl_seqno = jnl_seqno /\ t.process_id = p /\ ~t.write_complete
      /\ Last(pool).jnl_seqno + 1 = jnl_seqno
      /\ idx[p][POOL] = pool.index2 /\ token[p] = jnl_seqno
  BY <1>2, <1>3 DEF Stage, Reserved
<1>5. Chain(pool') /\ Level(pool') /\ Last(pool') = t
  BY <1>1, <1>2, <1>3, <1>4, PublishChain
<1>6. /\ pool' \in Log /\ pool'.index1 = pool.index1 /\ pool'.index2 = INCR(pool.index2)
      /\ pool'.slot = pool.slot
  BY <1>1, <1>2, PublishIs
<1>7. InUse(pool') = InUse(pool) \cup {pool.index2}  BY <1>2, <1>4, <1>6, InUsePublish
<1>8. Ordered(pool')
  <2> SUFFICES ASSUME NEW i \in InUse(pool')
               PROVE  pool.slot[i].jnl_seqno = pool.slot[DECR(i)].jnl_seqno + 1
    BY <1>6 DEF Ordered
  <2>1. CASE i \in InUse(pool)  BY <1>2, <2>1 DEF Ordered
  <2>2. CASE i = pool.index2  BY <1>3, <1>4, <2>2 DEF Last
  <2> QED  BY <1>7, <2>1, <2>2
<1>9. Pending(pool', jnl_seqno, p)
  <2>1. pool'.index1 # pool'.index2  BY <1>6, <1>7, InUseEnds
  <2> QED  BY <1>4, <1>5, <2>1 DEF Pending
<1>10. DECR(pool'.index2) = idx[p][POOL]  BY <1>2, <1>4, <1>6, LogFields, IndexType
<1>11. pc'[p] = "cmt04" /\ \A q \in Proc : q # p => pc'[q] = pc[q]
  BY <1>1 DEF TypeInv, TypeOK
<1>12. ASSUME NEW q \in Proc
       PROVE  /\ Held(pc'[q], crit'[POOL], q)
              /\ Mine(pc'[q], pool', q, token'[q], idx'[q][POOL])
              /\ crit'[POOL] = q => Stage(pc'[q], pool', jnl_seqno', q, token'[q], idx'[q][POOL])
  <2>1. CASE q = p
    <3>1. Held("cmt04", p, p)  BY DEF Held, PoolCrit
    <3>2. Mine("cmt04", pool', p, token[p], idx[p][POOL])  BY <1>3, <1>4, <1>6, <1>7 DEF Mine
    <3>3. Stage("cmt04", pool', jnl_seqno, p, token[p], idx[p][POOL])
      BY <1>4, <1>9, <1>10 DEF Stage, Published
    <3> QED  BY <1>1, <1>2, <1>11, <2>1, <3>1, <3>2, <3>3
  <2>2. CASE q # p
    <3>1. Mine(pc[q], pool', q, token[q], idx[q][POOL])  BY <1>2, <1>6, <1>7 DEF Mine
    <3>2. Held(pc[q], crit[POOL], q)  BY DEF PoolInv
    <3> QED  BY <1>1, <1>2, <1>11, <2>2, <3>1, <3>2
  <2> QED  BY <2>1, <2>2
<1>13. crit'[POOL] # NoProc  BY <1>1, <1>2, RegionIs
<1> QED  BY <1>5, <1>8, <1>12, <1>13, PoolNext

LEMMA PoolSeqno ==
  ASSUME TypeInv, PoolInv, NEW p \in Proc, SetJnlSeqno(p)
  PROVE  PoolInv'
<1>1. /\ pc[p] = "cmt07" /\ token' = token /\ idx' = idx /\ jnl_seqno' = token[p] + 1
      /\ crit' = crit /\ pc' = [pc EXCEPT ![p] = "cmt08"] /\ pool' = pool
  BY DEF SetJnlSeqno, Goto
<1>2. /\ crit[POOL] = p /\ pool \in Log /\ Chain(pool) /\ Ordered(pool)
      /\ Stage("cmt07", pool, jnl_seqno, p, token[p], idx[p][POOL])
      /\ \A q \in Proc : Mine(pc[q], pool, q, token[q], idx[q][POOL])
  BY <1>1, HolderKnows DEF PoolCrit
<1>3. Pending(pool, jnl_seqno, p) /\ token[p] = jnl_seqno  BY <1>2 DEF Stage, Published
<1>4. Settled(pool, token[p] + 1)  BY <1>3 DEF Pending, Settled
<1>5. pc'[p] = "cmt08" /\ \A q \in Proc : q # p => pc'[q] = pc[q]
  BY <1>1 DEF TypeInv, TypeOK
<1>6. ASSUME NEW q \in Proc
      PROVE  /\ Held(pc'[q], crit'[POOL], q)
             /\ Mine(pc'[q], pool', q, token'[q], idx'[q][POOL])
             /\ crit'[POOL] = q => Stage(pc'[q], pool', jnl_seqno', q, token'[q], idx'[q][POOL])
  <2>1. CASE q = p
    <3>1. Held("cmt08", p, p)  BY DEF Held, PoolCrit
    <3>2. Mine("cmt07", pool, p, token[p], idx[p][POOL])  BY <1>1, <1>2
    <3>3. Mine("cmt08", pool, p, token[p], idx[p][POOL])  BY <3>2 DEF Mine, Entered, Published
    <3>4. Stage("cmt08", pool, token[p] + 1, p, token[p], idx[p][POOL])
      BY <1>4 DEF Stage, Published
    <3> QED  BY <1>1, <1>2, <1>5, <2>1, <3>1, <3>3, <3>4
  <2>2. CASE q # p
    <3>1. Held(pc[q], crit[POOL], q)  BY DEF PoolInv
    <3> QED  BY <1>1, <1>2, <1>5, <2>2, <3>1
  <2> QED  BY <2>1, <2>2
<1>7. crit'[POOL] # NoProc  BY <1>1, <1>2, RegionIs
<1> QED  BY <1>1, <1>2, <1>6, <1>7, PoolNext

(* CMT15, and the end of a commit that was undone. *)
LEMMA PoolRelease ==
  ASSUME TypeInv, PoolInv, NEW p \in Proc, RelLock(p) \/ UndoRel(p)
  PROVE  PoolInv'
<1>1. /\ pc[p] \in {"cmt15", "undorel"} /\ jnl_seqno' = jnl_seqno /\ pool' = pool
      /\ crit' = [crit EXCEPT ![POOL] = NoProc]
  BY DEF RelLock, UndoRel
<1>2. /\ crit[POOL] = p /\ pool \in Log /\ Chain(pool) /\ Ordered(pool)
      /\ Stage(pc[p], pool, jnl_seqno, p, token[p], idx[p][POOL])
      /\ \A q \in Proc : Mine(pc[q], pool, q, token[q], idx[q][POOL])
      /\ \A q \in Proc : q # p => pc[q] \notin PoolCrit
  BY <1>1, HolderKnows DEF PoolCrit, CleaningUp
<1>3. Settled(pool, jnl_seqno)  BY <1>1, <1>2 DEF Stage, Published
<1>4. crit'[POOL] = NoProc  BY <1>1 DEF TypeInv, TypeOK
<1>5. ASSUME NEW q \in Proc
      PROVE  Held(pc'[q], NoProc, q) /\ Mine(pc'[q], pool, q, token'[q], idx'[q][POOL])
  <2>1. CASE q # p
    <3>1. pc'[q] = pc[q] /\ token'[q] = token[q] /\ idx'[q] = idx[q]
      BY <2>1 DEF TypeInv, TypeOK, RelLock, UndoRel, Goto
    <3>2. Held(pc[q], NoProc, q)  BY <1>2, <2>1, RegionIs DEF Held
    <3> QED  BY <1>2, <3>1, <3>2
  <2>2. CASE q = p /\ RelLock(p)
    <3>1. pc[p] = "cmt15" /\ pc'[p] = "cmt16" /\ token' = token /\ idx' = idx
      BY <2>2 DEF TypeInv, TypeOK, RelLock, Goto
    <3>2. Mine("cmt15", pool, p, token[p], idx[p][POOL])  BY <1>2, <3>1
    <3>3. Mine("cmt16", pool, p, token[p], idx[p][POOL])  BY <3>2 DEF Mine, Entered, Phase2
    <3>4. Held("cmt16", NoProc, p)  BY RegionIs DEF Held, PoolCrit, CleaningUp
    <3> QED  BY <2>2, <3>1, <3>3, <3>4
  <2>3. CASE q = p /\ UndoRel(p)
    <3>1. pc'[p] = "idle"  BY <2>3 DEF TypeInv, TypeOK, UndoRel
    <3>2. Mine("idle", pool, p, token'[p], idx'[p][POOL])
      BY DEF Mine, Entered, Published, Phase2
    <3>3. Held("idle", NoProc, p)  BY RegionIs DEF Held, PoolCrit, CleaningUp
    <3> QED  BY <2>3, <3>1, <3>2, <3>3
  <2> QED  BY <2>1, <2>2, <2>3
<1>6. \A q \in Proc : crit'[POOL] # q  BY <1>4, RegionIs
<1> QED  BY <1>1, <1>2, <1>3, <1>4, <1>5, <1>6, PoolNext

(* t_commit_cleanup *)
LEMMA PoolUndo ==
  ASSUME TypeInv, PoolInv, NEW p \in Proc, UndoPool(p)
  PROVE  PoolInv'
<1>1. /\ pc[p] = "undopool" /\ token' = token /\ idx' = idx /\ jnl_seqno' = jnl_seqno
      /\ crit' = crit /\ pc' = [pc EXCEPT ![p] = "undodb"]
  BY DEF UndoPool, Goto
<1>2. /\ crit[POOL] = p /\ pool \in Log /\ Chain(pool) /\ Ordered(pool)
      /\ Stage("undopool", pool, jnl_seqno, p, token[p], idx[p][POOL])
      /\ \A q \in Proc : Mine(pc[q], pool, q, token[q], idx[q][POOL])
  BY <1>1, HolderKnows DEF PoolCrit, CleaningUp
<1>3. Pending(pool, jnl_seqno, p)  BY <1>2 DEF Stage, Published
<1>4. pool' = Withdraw(pool)  BY <1>3 DEF UndoPool, Pending
<1>5. /\ Chain(pool') /\ Ordered(pool') /\ Settled(pool', jnl_seqno)
      /\ pool'.slot = pool.slot
      /\ \A i \in InUse(pool) : pool.slot[i].process_id # p => i \in InUse(pool')
  BY <1>2, <1>3, <1>4, WithdrawPool
<1>6. pc'[p] = "undodb" /\ \A q \in Proc : q # p => pc'[q] = pc[q]
  BY <1>1 DEF TypeInv, TypeOK
<1>7. ASSUME NEW q \in Proc
      PROVE  /\ Held(pc'[q], crit'[POOL], q)
             /\ Mine(pc'[q], pool', q, token'[q], idx'[q][POOL])
             /\ crit'[POOL] = q => Stage(pc'[q], pool', jnl_seqno', q, token'[q], idx'[q][POOL])
  <2>1. CASE q = p
    <3>1. Held("undodb", p, p)  BY DEF Held, PoolCrit, CleaningUp
    <3>2. Mine("undodb", pool', p, token[p], idx[p][POOL])
      BY DEF Mine, Entered, Published, Phase2
    <3>3. Stage("undodb", pool', jnl_seqno, p, token[p], idx[p][POOL])
      BY <1>5 DEF Stage, Published
    <3> QED  BY <1>1, <1>2, <1>6, <2>1, <3>1, <3>2, <3>3
  <2>2. CASE q # p
    <3>1. Held(pc[q], crit[POOL], q)  BY DEF PoolInv
    <3>2. Mine(pc[q], pool', q, token[q], idx[q][POOL])  BY <1>2, <1>5, <2>2, MineSpared
    <3> QED  BY <1>1, <1>2, <1>6, <2>2, <3>1, <3>2
  <2> QED  BY <2>1, <2>2
<1>8. crit'[POOL] # NoProc  BY <1>1, <1>2, RegionIs
<1> QED  BY <1>5, <1>7, <1>8, PoolNext

(* A change of the pool that completes slots of nobody but those who leave. *)
LEMMA PoolTidy ==
  ASSUME TypeInv, PoolInv, NEW C, Tidied(pool', pool, C), Chain(pool'),
         jnl_seqno' = jnl_seqno, crit'[POOL] = crit[POOL],
         \A q \in Proc :
           \/ /\ pc'[q] = pc[q] /\ token'[q] = token[q] /\ idx'[q][POOL] = idx[q][POOL]
              /\ \A j \in C : pool.slot[j].process_id # q
           \/ pc'[q] \notin Entered \cup PoolCrit /\ crit[POOL] # q
  PROVE  PoolInv'
<1>1. pool \in Log /\ Ordered(pool)  BY DEF TypeInv, TypeOK, PoolInv
<1>2. Ordered(pool')  BY <1>1, OrderedTidied
<1>3. crit[POOL] = NoProc => Settled(pool', jnl_seqno)
  BY <1>1, SettledTidied DEF PoolInv
<1>4. ASSUME NEW q \in Proc
      PROVE  /\ Held(pc'[q], crit'[POOL], q)
             /\ Mine(pc'[q], pool', q, token'[q], idx'[q][POOL])
             /\ crit'[POOL] = q => Stage(pc'[q], pool', jnl_seqno', q, token'[q], idx'[q][POOL])
  <2>1. CASE /\ pc'[q] = pc[q] /\ token'[q] = token[q] /\ idx'[q][POOL] = idx[q][POOL]
             /\ \A j \in C : pool.slot[j].process_id # q
    <3>1. /\ Held(pc[q], crit[POOL], q) /\ Mine(pc[q], pool, q, token[q], idx[q][POOL])
          /\ crit[POOL] = q => Stage(pc[q], pool, jnl_seqno, q, token[q], idx[q][POOL])
      BY DEF PoolInv
    <3>2. Mine(pc[q], pool', q, token[q], idx[q][POOL])  BY <1>1, <2>1, <3>1, MineTidied
    <3>3. ASSUME crit[POOL] = q  PROVE Stage(pc[q], pool', jnl_seqno, q, token[q], idx[q][POOL])
      BY <1>1, <2>1, <3>1, <3>3, StageTidied
    <3> QED  BY <2>1, <3>1, <3>2, <3>3
  <2>2. CASE pc'[q] \notin Entered \cup PoolCrit /\ crit[POOL] # q
    BY <2>2 DEF Held, Mine
  <2> QED  BY <2>1, <2>2
<1> QED  BY <1>2, <1>3, <1>4, PoolNext

(* CMT17: p's own entry, which is nobody else's. *)
LEMMA PoolFill ==
  ASSUME TypeInv, PoolInv, NEW p \in Proc, WritePool(p) \/ PoolWriteComplete(p)
  PROVE  PoolInv'
<1>1. /\ pc[p] \in {"cmt17", "cmt17c"} /\ jnl_seqno' = jnl_seqno /\ crit' = crit
      /\ pool \in Log /\ Chain(pool)
  BY DEF WritePool, PoolWriteComplete, TypeInv, TypeOK, PoolInv
<1>2. PICK i : i = idx[p][POOL]  OBVIOUS
<1>3. Mine(pc[p], pool, p, token[p], i) /\ Held(pc[p], crit[POOL], p)  BY <1>2 DEF PoolInv
<1>4. i \in Index /\ pool.slot[i].process_id = p  BY <1>1, <1>3 DEF Mine, Entered, Phase2, InUse
<1>5. crit[POOL] # p  BY <1>1, <1>3 DEF Held, PoolCrit, CleaningUp
<1>6. CASE WritePool(p)
  <2>1. PICK g : g = Store(pool.file, pool.slot[i].start, UpdateRecord(pool, p, i))  OBVIOUS
  <2>2. pool.slot[i].start \in Nat  BY <1>1, <1>4, LogFields, SlotFields
  <2>3. g \in Seq(Record)  BY <1>1, <1>4, <2>1, <2>2, SlotTypes, LogFields, StoreIs
  <2>4. pool' = [pool EXCEPT !.file = g]  BY <1>2, <1>6, <2>1, Zenon DEF WritePool
  <2>5. /\ pool' \in Log /\ pool'.free = pool.free /\ pool'.rsrv = pool.rsrv
        /\ pool'.last = pool.last /\ pool'.index1 = pool.index1 /\ pool'.index2 = pool.index2
        /\ pool'.slot = pool.slot
    BY <1>1, <2>3, <2>4, FileIs
  <2>6. InUse(pool') = InUse(pool) /\ Chain(pool')  BY <1>1, <2>5, ChainFrame
  <2>7. Tidied(pool', pool, {})  BY <2>5, <2>6 DEF Tidied, Alike
  <2>8. PICK M : M = pool'  OBVIOUS
  <2>9. pc' = [pc EXCEPT ![p] = "cmt17c"] /\ token' = token /\ idx' = idx
    BY <1>6 DEF WritePool, Goto
  <2>10. pc[p] = "cmt17" /\ pc'[p] = "cmt17c" /\ \A q \in Proc : q # p => pc'[q] = pc[q]
    BY <1>6, <2>9 DEF WritePool, TypeInv, TypeOK
  <2>11. Ordered(pool')  BY <1>1, <2>7, OrderedTidied DEF PoolInv
  <2>12. crit[POOL] = NoProc => Settled(pool', jnl_seqno)  BY <1>1, <2>7, SettledTidied DEF PoolInv
  <2>13. ASSUME NEW q \in Proc
         PROVE  /\ Held(pc'[q], crit'[POOL], q)
                /\ Mine(pc'[q], pool', q, token'[q], idx'[q][POOL])
                /\ crit'[POOL] = q => Stage(pc'[q], pool', jnl_seqno', q, token'[q], idx'[q][POOL])
    <3>1. /\ Held(pc[q], crit[POOL], q) /\ Mine(pc[q], pool, q, token[q], idx[q][POOL])
          /\ crit[POOL] = q => Stage(pc[q], pool, jnl_seqno, q, token[q], idx[q][POOL])
      BY DEF PoolInv
    <3>2. Mine(pc[q], pool', q, token[q], idx[q][POOL])  BY <1>1, <2>7, <3>1, MineTidied
    <3>3. CASE q = p
      <4>1. Held("cmt17c", crit[POOL], p)  BY <1>5 DEF Held, PoolCrit, CleaningUp
      <4>2. Mine("cmt17c", pool', p, token[p], idx[p][POOL])
        BY <2>10, <3>2, <3>3 DEF Mine, Entered, Phase2
      <4> QED  BY <1>1, <1>5, <2>9, <2>10, <3>3, <4>1, <4>2
    <3>4. CASE q # p
      <4>1. ASSUME crit[POOL] = q
            PROVE  Stage(pc[q], pool', jnl_seqno, q, token[q], idx[q][POOL])
        BY <1>1, <2>7, <3>1, <4>1, StageTidied
      <4> QED  BY <1>1, <2>9, <2>10, <3>1, <3>2, <3>4, <4>1
    <3> QED  BY <3>3, <3>4
  <2> QED  BY <1>1, <2>6, <2>11, <2>12, <2>13, PoolNext
<1>7. CASE PoolWriteComplete(p)
  <2>1. pool' = WriteComplete(pool, i, p, FALSE, Alive)  BY <1>2, <1>7 DEF PoolWriteComplete
  <2>2. Tidied(pool', pool, {i}) /\ Chain(pool')
    BY <1>1, <1>4, <2>1, WriteCompleteAlone
  <2>3. /\ pc'[p] = "idle"
        /\ \A q \in Proc : q # p => pc'[q] = pc[q] /\ token'[q] = token[q] /\ idx'[q] = idx[q]
    BY <1>7 DEF PoolWriteComplete, TypeInv, TypeOK
  <2>4. "idle" \notin Entered \cup PoolCrit
    BY DEF Entered, Published, Phase2, PoolCrit, CleaningUp
  <2>5. \A q \in Proc :
          \/ /\ pc'[q] = pc[q] /\ token'[q] = token[q] /\ idx'[q][POOL] = idx[q][POOL]
             /\ \A j \in {i} : pool.slot[j].process_id # q
          \/ pc'[q] \notin Entered \cup PoolCrit /\ crit[POOL] # q
    BY <1>4, <1>5, <2>3, <2>4
  <2> QED  BY <1>1, <2>2, <2>5, PoolTidy
<1> QED  BY <1>6, <1>7

(* A kill leaves the pool as a repair can tell: CMT03 done or not begun. *)
LEMMA PoolKill ==
  ASSUME TypeInv, PoolInv, NEW p \in Proc, Kill(p), "cmt03b" \notin KillPoints
  PROVE  PoolInv'
<1>1. /\ pc[p] \in KillPoints /\ pool' = pool /\ crit' = crit /\ jnl_seqno' = jnl_seqno
      /\ pc'[p] = "dead"
      /\ \A q \in Proc : q # p => pc'[q] = pc[q] /\ token'[q] = token[q] /\ idx'[q] = idx[q]
  BY DEF Kill, TypeInv, TypeOK
<1>2. pc[p] # "cmt03b"  BY <1>1
<1>3. ASSUME NEW q \in Proc
      PROVE  /\ Held(pc'[q], crit'[POOL], q)
             /\ Mine(pc'[q], pool', q, token'[q], idx'[q][POOL])
             /\ crit'[POOL] = q => Stage(pc'[q], pool', jnl_seqno', q, token'[q], idx'[q][POOL])
  <2>1. /\ Held(pc[q], crit[POOL], q) /\ Mine(pc[q], pool, q, token[q], idx[q][POOL])
        /\ crit[POOL] = q => Stage(pc[q], pool, jnl_seqno, q, token[q], idx[q][POOL])
    BY DEF PoolInv
  <2>2. CASE q = p
    <3>1. Held("dead", crit[POOL], p)  BY DEF Held, PoolCrit, CleaningUp
    <3>2. Mine("dead", pool, p, token'[p], idx'[p][POOL])
      BY DEF Mine, Entered, Published, Phase2
    <3>3. ASSUME crit[POOL] = p
          PROVE  Stage("dead", pool, jnl_seqno, p, token'[p], idx'[p][POOL])
      BY <1>2, <2>1, <2>2, <3>3 DEF Stage, Published
    <3> QED  BY <1>1, <2>2, <3>1, <3>2, <3>3
  <2>3. CASE q # p  BY <1>1, <2>1, <2>3
  <2> QED  BY <2>2, <2>3
<1>4. Chain(pool) /\ Ordered(pool) /\ (crit[POOL] = NoProc => Settled(pool, jnl_seqno))
  BY DEF PoolInv
<1> QED  BY <1>1, <1>3, <1>4, PoolNext

LEMMA PoolReaders ==
  ASSUME TypeInv, PoolInv, (\E r \in Region : JnlCleanup(r)) \/ Source \/ UNCHANGED vars
  PROVE  PoolInv'
<1>0. pool \in Log /\ Chain(pool) /\ Ordered(pool)  BY DEF TypeInv, TypeOK, PoolInv
<1>1. CASE (\E r \in Region : JnlCleanup(r)) \/ UNCHANGED vars
  <2>1. /\ pc' = pc /\ token' = token /\ idx' = idx /\ crit' = crit /\ pool' = pool
        /\ jnl_seqno' = jnl_seqno
    BY <1>1 DEF JnlCleanup, procvars, vars
  <2> QED  BY <2>1 DEF PoolInv
<1>2. CASE SourceRead
  <2>1. /\ pc' = pc /\ token' = token /\ idx' = idx /\ crit' = crit /\ jnl_seqno' = jnl_seqno
        /\ pool' = Cleanup(pool, NoProc, FALSE, Alive)
    BY <1>2 DEF SourceRead, procvars
  <2>2. Tidied(pool', pool, {}) /\ Chain(pool')  BY <1>0, <2>1, CleanupIs
  <2>3. \A q \in Proc :
          \/ /\ pc'[q] = pc[q] /\ token'[q] = token[q] /\ idx'[q][POOL] = idx[q][POOL]
             /\ \A j \in {} : pool.slot[j].process_id # q
          \/ pc'[q] \notin Entered \cup PoolCrit /\ crit[POOL] # q
    BY <2>1
  <2>4. PICK C : C = {}  OBVIOUS
  <2>5. Tidied(pool', pool, C) /\ Chain(pool')  BY <2>2, <2>4
  <2>6. \A q \in Proc :
          \/ /\ pc'[q] = pc[q] /\ token'[q] = token[q] /\ idx'[q][POOL] = idx[q][POOL]
             /\ \A j \in C : pool.slot[j].process_id # q
          \/ pc'[q] \notin Entered \cup PoolCrit /\ crit[POOL] # q
    BY <2>3, <2>4
  <2>7. jnl_seqno' = jnl_seqno /\ crit'[POOL] = crit[POOL]  BY <2>1
  <2> QED  BY <2>5, <2>6, <2>7, PoolTidy
<1>3. CASE SourceSalvage
  <2>1. PICK L : L = IF crit[POOL] = NoProc THEN pool ELSE CleanDeadPool(pool, crit[POOL])
    OBVIOUS
  <2>2. /\ pc' = pc /\ token' = token /\ idx' = idx /\ jnl_seqno' = jnl_seqno
        /\ crit' = [crit EXCEPT ![POOL] = NoProc] /\ crit[POOL] \notin Alive
        /\ pool' = Cleanup(L, NoProc, TRUE, Alive)
    BY <1>3, <2>1 DEF SourceSalvage, procvars
  <2>3. /\ L \in Log /\ Chain(L) /\ Ordered(L) /\ Settled(L, jnl_seqno)
        /\ \A q \in Proc : Mine(pc[q], L, q, token[q], idx[q][POOL])
    <3>1. CASE crit[POOL] = NoProc  BY <1>0, <2>1, <3>1 DEF PoolInv
    <3>2. CASE crit[POOL] # NoProc
      <4>1. PICK h : h = crit[POOL]  OBVIOUS
      <4>2. h \in Proc /\ pc[h] = "dead" /\ crit[POOL] = h /\ L = CleanDeadPool(pool, h)
        BY <2>1, <2>2, <3>2, <4>1 DEF Alive, TypeInv, TypeOK
      <4> QED  BY <4>2, CleanPool
    <3> QED  BY <3>1, <3>2
  <2>4. PICK C : C = Orphans(L, NoProc, Alive)  OBVIOUS
  <2>5. Tidied(pool', L, C) /\ Chain(pool')  BY <2>2, <2>3, <2>4, CleanupIs
  <2>6. Ordered(pool') /\ Settled(pool', jnl_seqno)  BY <2>3, <2>5, OrderedTidied, SettledTidied
  <2>7. crit'[POOL] = NoProc  BY <2>2 DEF TypeInv, TypeOK
  <2>8. ASSUME NEW q \in Proc
        PROVE  Held(pc[q], NoProc, q) /\ Mine(pc[q], pool', q, token[q], idx[q][POOL])
    <3>1. pc[q] \in Entered => \A j \in C : L.slot[j].process_id # q
      BY <2>4 DEF Orphans, Alive, Entered, Published, Phase2
    <3>2. Mine(pc[q], pool', q, token[q], idx[q][POOL])  BY <2>3, <2>5, <3>1, MineTidied
    <3>3. pc[q] \notin PoolCrit
      BY <2>2 DEF PoolInv, Held, Alive, PoolCrit, CleaningUp
    <3> QED  BY <3>2, <3>3, RegionIs DEF Held
  <2>9. \A q \in Proc : crit'[POOL] # q  BY <2>7, RegionIs
  <2> QED  BY <2>2, <2>5, <2>6, <2>7, <2>8, <2>9, PoolNext
<1> QED  BY <1>1, <1>2, <1>3 DEF Source

LEMMA PoolInit == Init => PoolInv
<1> SUFFICES ASSUME Init  PROVE PoolInv  OBVIOUS
<1>1. pool = EmptyLog /\ jnl_seqno = 1 /\ crit[POOL] = NoProc  BY DEF Init
<1>2. Chain(pool) /\ Level(pool) /\ InUse(pool) = {}  BY <1>1, EmptyIs
<1>3. Ordered(pool)  BY <1>2 DEF Ordered
<1>4. Last(pool) = EmptySlot
  <2>1. DECR(EmptyLog.index2) \in Index  BY EmptyIs, LogFields, IndexType
  <2> QED  BY <1>1, <2>1, EmptyIs DEF Last
<1>5. Settled(pool, jnl_seqno)  BY <1>1, <1>2, <1>4 DEF Settled, EmptySlot
<1>6. ASSUME NEW p \in Proc
      PROVE  Held(pc[p], crit[POOL], p) /\ Mine(pc[p], pool, p, token[p], idx[p][POOL])
  <2>1. pc[p] = "idle"  BY DEF Init
  <2>2. crit[POOL] # p  BY <1>1, RegionIs
  <2> QED  BY <2>1, <2>2 DEF Held, Mine, PoolCrit, CleaningUp, Entered, Published, Phase2
<1>7. \A p \in Proc : crit[POOL] # p  BY <1>1, RegionIs
<1> QED  BY <1>2, <1>3, <1>5, <1>6, <1>7 DEF PoolInv

LEMMA PoolStep ==
  ASSUME "cmt03b" \notin KillPoints
  PROVE  TypeInv /\ PoolInv /\ [Next]_vars => PoolInv'
<1> SUFFICES ASSUME TypeInv, PoolInv, [Next]_vars  PROVE PoolInv'  OBVIOUS
<1>1. ASSUME NEW p \in Proc, (\E rs \in Updates : Begin(p, rs)) \/ Step(p) \/ Fail(p) \/ Kill(p)
      PROVE  PoolInv'
  <2>1. CASE \/ \E rs \in Updates : Begin(p, rs)
             \/ GrabCrit(p) \/ Recover(p) \/ RecoverWritten(p) \/ RecoverDone(p)
         \/ EarlyTn(p) \/ ReserveJnl(p)
             \/ PublishJnl(p) \/ UpdateUnderway(p) \/ SetRegSeqno(p) \/ IncrementCurrTn(p)
             \/ RelCrit(p) \/ Finish(p) \/ UndoDB(p) \/ WriteJnl(p) \/ JnlWriteComplete(p)
             \/ Fail(p)
    BY <2>1, PoolSame
  <2>2. CASE GrabLock(p)  BY <2>2, PoolGrab
  <2>3. CASE ReservePool(p)  BY <2>3, PoolReserve
  <2>4. CASE PublishPool(p)  BY <2>4, PoolPublish
  <2>5. CASE SetJnlSeqno(p)  BY <2>5, PoolSeqno
  <2>6. CASE RelLock(p) \/ UndoRel(p)  BY <2>6, PoolRelease
  <2>7. CASE UndoPool(p)  BY <2>7, PoolUndo
  <2>8. CASE WritePool(p) \/ PoolWriteComplete(p)  BY <2>8, PoolFill
  <2>9. CASE Kill(p)  BY <2>9, PoolKill
  <2> QED  BY <1>1, <2>1, <2>2, <2>3, <2>4, <2>5, <2>6, <2>7, <2>8, <2>9 DEF Step
<1>2. CASE (\E r \in Region : JnlCleanup(r)) \/ Source \/ UNCHANGED vars  BY <1>2, PoolReaders
<1> QED  BY <1>1, <1>2 DEF Next

(* If no process is killed between the stores of UPDATE_JPL_RSRV_WRITE_ADDR,  *)
(* the reservations of the pool cover it without a gap and end with the seqno *)
(* before jnl_seqno whenever the pool's mutex is free, however its holders    *)
(* ended and whoever cleaned up after them (mutex_clean_dead_owner,           *)
(* t_commit_cleanup, repl_phase2_cleanup).  Run cmt03 shows that the          *)
(* hypothesis cannot be dropped.                                              *)
THEOREM PoolHasNoGaps ==
  ASSUME "cmt03b" \notin KillPoints
  PROVE  Spec => []PoolTiles
<1>1. TypeInv /\ PoolInv => PoolTiles
  <2> SUFFICES ASSUME TypeInv, PoolInv, crit[POOL] = NoProc
               PROVE  /\ Tiles(pool) /\ Last(pool).jnl_seqno + 1 = jnl_seqno
                      /\ Last(pool).tot_jrec_len = pool.last
    BY DEF PoolTiles
  <2>1. pool \in Log /\ Chain(pool) /\ Settled(pool, jnl_seqno)  BY DEF TypeInv, TypeOK, PoolInv
  <2>2. Tiles(pool)  BY <2>1, LogFields, ChainTiles DEF Settled
  <2> QED  BY <2>1, <2>2 DEF Settled, Level
<1> QED  BY <1>1, TypeInit, TypeStep, PoolInit, PoolStep, PTL DEF Spec
=============================================================================
