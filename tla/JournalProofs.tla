---------------------------- MODULE JournalProofs ---------------------------
(***************************************************************************)
(* Proofs about Commit.tla: the journals of the regions.                     *)
(*                                                                         *)
(* JournalMatchesDb speaks of a region whose crit is free; the invariant   *)
(* JnlInv says what the owner of crit finds or has left at each of its     *)
(* steps (Rest, Early, Taking, Redo, Logged), dead or alive, and that the   *)
(* entry of a process which has left crit stays where it is until the       *)
(* process fills it.  Spot says where a process is in each region of its    *)
(* loop.  JnlInv needs LateErrors: t_commit_cleanup withdraws the newest    *)
(* entry of the process, which after CMT06 is that of its commit.           *)
(*                                                                         *)
(* ReadersSeeCommits is about every record: RecInv adds who wrote what, in  *)
(* the journals and in the journal pool, but for the one reservation of     *)
(* each that may still be withdrawn (Doubts, PoolDoubts).                   *)
(*                                                                         *)
(* AllOrNothing counts: CountInv says that a journal has no seqno twice and  *)
(* has every seqno it owes (Owed), and that what may be withdrawn for a dead *)
(* owner of crit is not owed.                                               *)
(*                                                                         *)
(* ShippedIsJournaled is about a reader of the pool: OrderInv says that the  *)
(* lengths in the headers lead it from each transaction to the next in seqno *)
(* order (Track), and BackInv that an update in the pool, or sent, is in the *)
(* journals of its transaction, where what is complete stays, but for the    *)
(* INCTN records (Holds).                                                    *)
(***************************************************************************)
EXTENDS CommitProofs

(* Entry t comes after entry s: with the next transaction number, or with the *)
(* same one, if both are INCTN records of wcs_recover.                        *)
Succeeds(s, t) ==
  \/ t.curr_tn = s.curr_tn + 1
  \/ t.curr_tn = s.curr_tn /\ t.curr_tn # 0 /\ t.jnl_seqno = 0 /\ s.jnl_seqno = 0

(* In a journal every reservation is one unit long. *)
Unit(L) ==
  \A i \in InUse(L) : L.slot[i].tot_jrec_len = 1 /\ Succeeds(L.slot[DECR(i)], L.slot[i])

(* What slot s reserved has been written. *)
Good(f, s) ==
  /\ s.start < Len(f)
  /\ f[s.start + 1].tn = s.curr_tn /\ f[s.start + 1].jnl_seqno = s.jnl_seqno

(* The entry before the oldest is the one that was handed over last. *)
Joined(L) ==
  LET s == L.slot[DECR(L.index1)] IN
  IF L.free = 0 THEN s.curr_tn = 0
  ELSE s.curr_tn = L.file[L.free].tn /\ s.jnl_seqno = L.file[L.free].jnl_seqno

Filed(L) ==
  /\ L.free <= Len(L.file) /\ Joined(L)
  /\ \A k \in 1 .. L.free : Successive(L.file, k) /\ L.file[k].tn # 0
  /\ \A i \in InUse(L) :
       L.slot[i].write_complete \/ ~L.slot[i].in_phase2 => Good(L.file, L.slot[i])

Sound(L) == Chain(L) /\ Unit(L) /\ Filed(L)

(* The seqnos in a journal, those of the reservations D left out. *)
Seqnos(L, D) ==
  {L.file[k].jnl_seqno : k \in 1 .. L.free} \cup {L.slot[i].jnl_seqno : i \in InUse(L) \ D}

(* g is one more than the newest of the seqnos X. *)
OneMore(g, X) == (\A x \in X : x < g) /\ (g = 1 \/ g - 1 \in X)

-----------------------------------------------------------------------------
(* Addresses *)

(* In a journal the addresses count the reservations. *)
LEMMA Ages ==
  ASSUME NEW L \in Log, Chain(L), Unit(L)
  PROVE  /\ \A k \in 0 .. Used(L) - 1 : L.slot[At(L, k)].start = L.free + k
         /\ EndOf(Last(L)) = L.free + Used(L)
<1> DEFINE S == {k \in 0 .. Used(L) - 1 : L.slot[At(L, k)].start = L.free + k}
<1>1. Used(L) \in 0 .. N - 1 /\ N \in Nat  BY LogFields, UsedIs, LogAssumption
<1>2. L.free \in Nat /\ \A i \in Index : L.slot[i].start \in Nat
  BY LogFields, SlotFields
<1>3. ASSUME NEW k \in 0 .. Used(L) - 1
      PROVE  /\ At(L, k) \in Index
             /\ L.slot[At(L, k)].start = EndOf(L.slot[DECR(At(L, k))])
             /\ EndOf(L.slot[At(L, k)]) = L.slot[At(L, k)].start + 1
  <2>1. At(L, k) \in InUse(L)  BY LogFields, InUseAt
  <2> QED  BY <2>1 DEF Chain, Follows, InUse, Unit, EndOf
<1>4. Used(L) > 0 => 0 \in S
  <2>1. At(L, 0) = L.index1  BY LogFields, InUseAt
  <2> QED  BY <1>1, <1>2, <1>3, <2>1 DEF Chain
<1>5. ASSUME NEW k \in 1 .. Used(L) - 1, k - 1 \in S  PROVE k \in S
  <2>1. DECR(At(L, k)) = At(L, k - 1)  BY <1>1, LogFields, InUseAt
  <2>2. k \in 0 .. Used(L) - 1 /\ k - 1 \in 0 .. Used(L) - 1  BY <1>1
  <2>3. L.slot[At(L, k)].start = L.slot[At(L, k - 1)].start + 1  BY <1>3, <2>1, <2>2
  <2> QED  BY <1>1, <1>2, <1>5, <2>2, <2>3
<1>6. \A k \in 0 .. Used(L) - 1 : k \in S
  <2> HIDE DEF S
  <2> QED  BY <1>1, <1>4, <1>5, AllAges
<1>7. EndOf(Last(L)) = L.free + Used(L)
  <2>1. CASE Used(L) = 0
    <3>1. L.index1 = L.index2  BY <2>1, LogFields, InUseAt
    <3> QED  BY <1>2, <2>1, <3>1 DEF Chain, Last
  <2>2. CASE Used(L) # 0
    <3>1. PICK k : k = Used(L) - 1  OBVIOUS
    <3>2. k \in 0 .. Used(L) - 1 /\ k + 1 = Used(L) /\ k \in Nat  BY <1>1, <2>2, <3>1
    <3>3. DECR(L.index2) = At(L, k)
      <4>1. Used(L) \in 1 .. Used(L)  BY <1>1, <2>2
      <4> QED  BY <3>1, <4>1, LogFields, InUseAt
    <3> QED  BY <1>2, <1>3, <1>6, <3>2, <3>3 DEF Last
  <2> QED  BY <2>1, <2>2
<1> QED  BY <1>6, <1>7

(* No two reservations of a journal start at one address. *)
LEMMA OneStart ==
  ASSUME NEW L \in Log, Chain(L), Unit(L), NEW i \in InUse(L), NEW j \in InUse(L),
         L.slot[i].start = L.slot[j].start
  PROVE  i = j
<1>1. Used(L) \in 0 .. N - 1 /\ N \in Nat /\ L.free \in Nat  BY LogFields, UsedIs, LogAssumption
<1>2. PICK k \in 0 .. Used(L) - 1 : i = At(L, k)  BY LogFields, InUseAt
<1>3. PICK m \in 0 .. Used(L) - 1 : j = At(L, m)  BY LogFields, InUseAt
<1>4. L.free + k = L.free + m  BY <1>2, <1>3, Ages
<1> QED  BY <1>1, <1>2, <1>3, <1>4

-----------------------------------------------------------------------------
(* What readers may have seen is kept *)

LEMMA KeptSame ==
  ASSUME NEW L \in Log, NEW M, M.free = L.free, M.file = L.file
  PROVE  Kept(L, M)
BY LogFields DEF Kept

LEMMA KeptTrans ==
  ASSUME NEW K \in Log, NEW L \in Log, NEW M \in Log, Kept(K, L), Kept(L, M)
  PROVE  Kept(K, M)
<1>1. K.free \in Nat /\ L.free \in Nat /\ M.free \in Nat  BY LogFields
<1> QED  BY <1>1 DEF Kept

Stored(g, f, a, rec) ==
  /\ g \in Seq(Record) /\ Len(g) = IF a < Len(f) THEN Len(f) ELSE a + 1
  /\ \A i \in 1 .. Len(g) :
       g[i] = IF i = a + 1 THEN rec ELSE IF i <= Len(f) THEN f[i] ELSE Garbage

LEMMA StoreStores ==
  ASSUME NEW f \in Seq(Record), NEW a \in Nat, NEW rec \in Record
  PROVE  Stored(Store(f, a, rec), f, a, rec)
<1>1. PICK g : g = Store(f, a, rec)  OBVIOUS
<1>2. PICK n : n = IF a < Len(f) THEN Len(f) ELSE a + 1  OBVIOUS
<1>3. Len(f) \in Nat /\ n \in Nat  BY <1>2, LenProperties
<1>4. \A i \in 1 .. n : g[i] = IF i = a + 1 THEN rec ELSE IF i <= Len(f) THEN f[i] ELSE Garbage
  BY <1>1, <1>2 DEF Store
<1>5. g \in Seq(Record)  BY <1>1, StoreIs
<1>6. Len(g) = n
  <2>1. DOMAIN g = 1 .. n  BY <1>1, <1>2 DEF Store
  <2>2. Len(g) \in Nat /\ DOMAIN g = 1 .. Len(g)  BY <1>5, LenProperties
  <2> QED  BY <1>3, <2>1, <2>2
<1>7. Stored(g, f, a, rec)  BY <1>2, <1>4, <1>5, <1>6 DEF Stored
<1> QED  BY <1>1, <1>7

LEMMA KeptStore ==
  ASSUME NEW L \in Log, NEW M, NEW a \in Nat, NEW rec \in Record, L.free <= a,
         M.free = L.free, M.file = Store(L.file, a, rec)
  PROVE  Kept(L, M)
<1>1. L.free \in Nat /\ L.file \in Seq(Record)  BY LogFields
<1>2. PICK f, g : f = L.file /\ g = M.file /\ g = Store(f, a, rec)  OBVIOUS
<1>3. /\ g \in Seq(Record) /\ Len(g) = IF a < Len(f) THEN Len(f) ELSE a + 1
      /\ \A i \in 1 .. Len(g) :
           g[i] = IF i = a + 1 THEN rec ELSE IF i <= Len(f) THEN f[i] ELSE Garbage
  <2>1. Stored(g, f, a, rec)  BY <1>1, <1>2, StoreStores
  <2> QED  BY <2>1 DEF Stored
<1>4. ASSUME NEW k \in 0 .. L.free - 1  PROVE Fetch(f, k) = Fetch(g, k)
  <2>1. k \in Nat /\ k < a /\ Len(f) \in Nat  BY <1>1, <1>2
  <2>2. k < Len(g) /\ k + 1 \in 1 .. Len(g)  BY <1>3, <2>1
  <2>3. g[k + 1] = IF k + 1 <= Len(f) THEN f[k + 1] ELSE Garbage  BY <1>3, <2>1, <2>2
  <2> QED  BY <2>1, <2>2, <2>3 DEF Fetch
<1> QED  BY <1>1, <1>2, <1>4 DEF Kept

LEMMA SalvageKept ==
  ASSUME NEW L \in Log, Chain(L), NEW dead, dead \subseteq InUse(L), NEW M, M = Salvage(L, dead)
  PROVE  Kept(L, M)
<1> DEFINE S == {s \in {L.slot[i] : i \in dead} : s.in_phase2}
<1>0. dead \subseteq Index  BY DEF InUse
<1>1. M.free = L.free /\ M.file = Nullified(L.file, S)  BY <1>0, SalvageIs
<1>2. L.free \in Nat /\ L.file \in Seq(Record)  BY LogFields
<1>3. S \subseteq Slot /\ \A s \in S : L.free <= s.start  BY <1>0, LogFields, AboveFree
<1>4. PICK b \in Nat : \A s \in S : s.start < b
  <2>1. PICK f : f = [i \in Index |-> L.slot[i].start]  OBVIOUS
  <2>2. f \in [Index -> Nat]  BY <2>1, LogFields, SlotFields
  <2>3. PICK b \in Nat : \A i \in Index : f[i] < b  BY <2>2, SlotsBounded
  <2>4. \A s \in S : s.start < b  BY <1>0, <2>1, <2>3
  <2> QED  BY <2>4
<1> HIDE DEF S
<1>5. PICK f, g : f = L.file /\ g = M.file  OBVIOUS
<1>6. /\ g \in Seq(Record) /\ Len(f) <= Len(g)
      /\ \A i \in 1 .. Len(g) : (\A s \in S : s.start + 1 # i) =>
           g[i] = IF i <= Len(f) THEN f[i] ELSE Garbage
  BY <1>1, <1>2, <1>3, <1>4, <1>5, NullifiedIs
<1>7. ASSUME NEW k \in 0 .. L.free - 1  PROVE Fetch(f, k) = Fetch(g, k)
  <2>1. k \in Nat /\ Len(f) \in Nat /\ Len(g) \in Nat  BY <1>2, <1>5, <1>6
  <2>2. \A s \in S : s.start + 1 # k + 1
    <3> SUFFICES ASSUME NEW s \in S  PROVE s.start + 1 # k + 1  OBVIOUS
    <3>1. s.start \in Nat /\ L.free <= s.start  BY <1>3, SlotFields
    <3> QED  BY <1>2, <2>1, <3>1
  <2>3. k < Len(g) => g[k + 1] = IF k + 1 <= Len(f) THEN f[k + 1] ELSE Garbage
    BY <1>6, <2>1, <2>2
  <2> QED  BY <1>6, <2>1, <2>3 DEF Fetch
<1> QED  BY <1>1, <1>2, <1>5, <1>7 DEF Kept

(* What is handed over: the n oldest, which are complete. *)
LEMMA HandOverShape ==
  ASSUME NEW L \in Log, Chain(L), NEW M, M = HandOver(L)
  PROVE  \E n \in 0 .. Used(L) :
           /\ \A k \in 0 .. n - 1 : L.slot[At(L, k)].write_complete
           /\ M.index1 = At(L, n) /\ M.index2 = L.index2 /\ M.slot = L.slot /\ M.file = L.file
           /\ M.free = IF n = Used(L) THEN EndOf(Last(L)) ELSE L.slot[At(L, n)].start
<1>1. PICK n : n = Cardinality(CompleteRun(L))  OBVIOUS
<1>2. n \in 0 .. Used(L) /\ \A k \in 0 .. n - 1 : L.slot[At(L, k)].write_complete
  BY <1>1, RunIs
<1>3. Used(L) \in 0 .. N - 1 /\ N \in Nat  BY LogFields, UsedIs, LogAssumption
<1>4. M.slot = L.slot /\ M.file = L.file /\ M.index2 = L.index2  BY HandOverIs DEF Tidied
<1>5. /\ M.index1 = At(L, n)
      /\ M.free = IF n = Used(L) THEN EndOf(Last(L)) ELSE L.slot[At(L, n)].start
  <2>1. CASE n = 0
    <3>1. M = L  BY <1>1, <2>1 DEF HandOver
    <3>2. At(L, 0) = L.index1  BY LogFields, InUseAt
    <3>3. CASE Used(L) = 0
      <4>1. L.index1 = L.index2  BY <3>3, LogFields, InUseAt
      <4> QED  BY <2>1, <3>1, <3>2, <3>3, <4>1 DEF Chain, Last
    <3>4. CASE Used(L) # 0
      <4>1. L.index1 \in InUse(L)  BY <1>3, <3>2, <3>4, LogFields, InUseAt
      <4> QED  BY <2>1, <3>1, <3>2, <3>4, <4>1 DEF Chain, Follows
    <3> QED  BY <3>3, <3>4
  <2>2. CASE n # 0
    <3>1. PICK f, x : /\ f = IF n = Used(L) THEN EndOf(Last(L)) ELSE L.slot[At(L, n)].start
                      /\ x = At(L, n)
      OBVIOUS
    <3>2. M = [L EXCEPT !.free = f, !.index1 = x]
      BY <1>1, <2>2, <3>1, Zenon DEF HandOver
    <3>3. M.free = f /\ M.index1 = x  BY <3>2 DEF Log
    <3> QED  BY <3>1, <3>3
  <2> QED  BY <2>1, <2>2
<1> QED  BY <1>2, <1>4, <1>5

LEMMA HandOverKept ==
  ASSUME NEW L \in Log, Chain(L), NEW M, M = HandOver(L)
  PROVE  Kept(L, M)
<1>1. PICK n \in 0 .. Used(L) :
        /\ M.index1 = At(L, n) /\ M.file = L.file
        /\ M.free = IF n = Used(L) THEN EndOf(Last(L)) ELSE L.slot[At(L, n)].start
  BY HandOverShape
<1>2. Used(L) \in 0 .. N - 1 /\ N \in Nat  BY LogFields, UsedIs, LogAssumption
<1>3. L.free <= M.free
  <2>1. CASE n = Used(L)  BY <1>1, <2>1, AboveFree
  <2>2. CASE n # Used(L)
    <3>1. n \in 0 .. Used(L) - 1  BY <1>2, <2>2
    <3>2. At(L, n) \in InUse(L)  BY <3>1, LogFields, InUseAt
    <3> QED  BY <1>1, <2>2, <3>2, AboveFree
  <2> QED  BY <2>1, <2>2
<1> QED  BY <1>1, <1>3 DEF Kept

LEMMA CleanupKept ==
  ASSUME NEW L \in Log, Chain(L), NEW p, NEW c, NEW alive, NEW M,
         M = Cleanup(L, p, c, alive)
  PROVE  Kept(L, M)
<1>1. CASE c
  <2>1. PICK D : D = DeadRun(L, p, alive)  OBVIOUS
  <2>2. PICK K : K = Salvage(L, D)  OBVIOUS
  <2>3. M = HandOver(K)  BY <1>1, <2>1, <2>2, Zenon DEF Cleanup, SalvageDead
  <2>4. D \subseteq InUse(L) /\ D \subseteq Index  BY <2>1, DeadRunIs DEF InUse
  <2>5. /\ K \in Log /\ K.free = L.free /\ K.index1 = L.index1 /\ K.index2 = L.index2
        /\ \A i \in Index : Marked(K.slot[i], L.slot[i], i \in D)
    BY <2>2, <2>4, SalvageIs
  <2>6. Chain(K) /\ Kept(L, K)
    <3>1. \A i \in Index : Alike(K.slot[i], L.slot[i])  BY <2>5 DEF Marked
    <3> QED  BY <2>2, <2>4, <2>5, <3>1, ChainAlike, SalvageKept
  <2>7. Kept(K, M) /\ M \in Log  BY <2>3, <2>5, <2>6, HandOverKept, HandOverIs DEF Tidied
  <2> QED  BY <2>5, <2>6, <2>7, KeptTrans
<1>2. CASE ~c
  <2>1. M = HandOver(L)  BY <1>2 DEF Cleanup
  <2> QED  BY <2>1, HandOverKept
<1> QED  BY <1>1, <1>2

(* A slot that is marked complete *)
Done(L, i) == [L EXCEPT !.slot[i].write_complete = TRUE]

LEMMA MarkedIs ==
  ASSUME NEW L \in Log, NEW i \in Index, NEW K, K = Done(L, i)
  PROVE  /\ K \in Log /\ K.free = L.free /\ K.rsrv = L.rsrv /\ K.last = L.last
         /\ K.index1 = L.index1 /\ K.index2 = L.index2 /\ K.file = L.file
         /\ InUse(K) = InUse(L)
         /\ \A j \in Index :
              /\ Alike(K.slot[j], L.slot[j])
              /\ K.slot[j].write_complete <=> L.slot[j].write_complete \/ j = i
<1>2. PICK u : u = [L.slot EXCEPT ![i].write_complete = TRUE]  OBVIOUS
<1>3. K = [L EXCEPT !.slot = u]  BY <1>2, Zenon DEF Done
<1>4. ASSUME NEW j \in Index
      PROVE  /\ u[j] \in Slot /\ Alike(u[j], L.slot[j])
             /\ u[j].write_complete = (L.slot[j].write_complete \/ j = i)
  <2>1. L.slot[j] \in Slot /\ L.slot \in [Index -> Slot]  BY LogFields
  <2>2. CASE j = i
    <3>1. u[j] = [L.slot[j] EXCEPT !.write_complete = TRUE]  BY <1>2, <2>1, <2>2
    <3> QED  BY <3>1, <2>1, <2>2 DEF Slot, Alike
  <2>3. CASE j # i
    <3>1. u[j] = L.slot[j]  BY <1>2, <2>1, <2>3
    <3>2. L.slot[j].write_complete \in BOOLEAN  BY <2>1 DEF Slot
    <3> QED  BY <3>1, <3>2, <2>1, <2>3 DEF Alike
  <2> QED  BY <2>2, <2>3
<1>5. u \in [Index -> Slot]
  <2>1. DOMAIN u = Index  BY <1>2, LogFields
  <2>2. u = [j \in Index |-> u[j]]  BY <1>2, <2>1, LogFields
  <2> QED  BY <1>4, <2>2
<1>6. /\ K \in Log /\ K.free = L.free /\ K.rsrv = L.rsrv /\ K.last = L.last
      /\ K.index1 = L.index1 /\ K.index2 = L.index2 /\ K.slot = u /\ K.file = L.file
  BY <1>3, <1>5 DEF Log
<1>7. InUse(K) = InUse(L)  BY <1>6, InUseFrame
<1> QED  BY <1>4, <1>6, <1>7

LEMMA WriteCompleteKept ==
  ASSUME NEW L \in Log, Chain(L), NEW i \in Index, NEW p, NEW c, NEW alive, NEW M,
         M = WriteComplete(L, i, p, c, alive)
  PROVE  Kept(L, M)
<1>1. PICK K : K = Done(L, i)  OBVIOUS
<1>2. /\ K \in Log /\ K.free = L.free /\ K.file = L.file
      /\ K.index1 = L.index1 /\ K.index2 = L.index2
      /\ \A j \in Index : Alike(K.slot[j], L.slot[j])
  BY <1>1, MarkedIs
<1>3. Chain(K) /\ Kept(L, K)  BY <1>2, ChainAlike, KeptSame
<1>4. CASE i \in {0, N \div 2}
  <2>1. M = Cleanup(K, p, c, alive)  BY <1>1, <1>4 DEF WriteComplete, Done
  <2>2. Kept(K, M) /\ M \in Log  BY <1>2, <1>3, <2>1, CleanupKept, CleanupIs DEF Tidied
  <2> QED  BY <1>2, <1>3, <2>2, KeptTrans
<1>5. CASE i \notin {0, N \div 2}
  <2>1. M = K  BY <1>1, <1>5 DEF WriteComplete, Done
  <2> QED  BY <1>3, <2>1
<1> QED  BY <1>4, <1>5

-----------------------------------------------------------------------------
(* Operations on a journal *)

(* M is L after readers or salvagers have been at work; the reservations D    *)
(* are still waiting.                                                        *)
Carried(M, L, D) ==
  /\ Sound(M) /\ Seqnos(M, D) = Seqnos(L, D)
  /\ \A i \in InUse(M) : Good(L.file, L.slot[i]) => Good(M.file, M.slot[i])

LEMMA SoundFrame ==
  ASSUME NEW L \in Log, NEW M \in Log, M.free = L.free, M.index1 = L.index1,
         M.index2 = L.index2, M.slot = L.slot, M.file = L.file, Sound(L)
  PROVE  Sound(M) /\ \A D : Seqnos(M, D) = Seqnos(L, D)
<1>1. InUse(M) = InUse(L)  BY InUseFrame
<1> QED  BY <1>1 DEF Sound, Chain, Unit, Filed, Joined, Seqnos

LEMMA SucceedsAlike ==
  ASSUME NEW s, NEW t, NEW a, NEW b, Alike(a, s), Alike(b, t), Succeeds(s, t)
  PROVE  Succeeds(a, b)
BY DEF Succeeds, Alike

LEMMA GoodAlike ==
  ASSUME NEW f, NEW s, NEW t, Alike(s, t), Good(f, t)
  PROVE  Good(f, s)
BY DEF Good, Alike

(* Another file, with the same contents below free and for the slots in use. *)
LEMMA FileSound ==
  ASSUME NEW L \in Log, NEW M \in Log, M.free = L.free, M.index1 = L.index1,
         M.index2 = L.index2, Sound(L), Len(L.file) <= Len(M.file),
         \A k \in 1 .. L.free : M.file[k] = L.file[k],
         \A i \in Index : Alike(M.slot[i], L.slot[i]),
         \A i \in InUse(L) : Good(L.file, L.slot[i]) => Good(M.file, M.slot[i]),
         \A i \in InUse(L) : M.slot[i].write_complete \/ ~M.slot[i].in_phase2
                               => Good(M.file, M.slot[i])
  PROVE  Sound(M) /\ \A D : Carried(M, L, D)
<1>1. InUse(M) = InUse(L) /\ InUse(L) \subseteq Index  BY InUseFrame DEF InUse
<1>2. Chain(M)  BY ChainAlike DEF Sound
<1>3. Unit(M)
  <2>1. \A i \in InUse(L) : i \in Index /\ DECR(i) \in Index  BY <1>1, IndexType
  <2>2. \A i \in InUse(L) : Succeeds(M.slot[DECR(i)], M.slot[i])
    BY <2>1, SucceedsAlike DEF Sound, Unit
  <2> QED  BY <1>1, <2>1, <2>2 DEF Sound, Unit, Alike
<1>4. Filed(M)
  <2>1. Len(L.file) \in Nat /\ Len(M.file) \in Nat /\ L.free \in Nat  BY LogFields
  <2>2. Joined(M)
    <3>1. DECR(L.index1) \in Index  BY LogFields, IndexType
    <3>2. L.free # 0 => M.file[L.free] = L.file[L.free]  BY <2>1
    <3> QED  BY <3>1, <3>2 DEF Sound, Filed, Joined, Alike
  <2>3. ASSUME NEW k \in 1 .. L.free  PROVE Successive(M.file, k) /\ M.file[k].tn # 0
    <3>1. k # 1 => k - 1 \in 1 .. L.free  BY <2>1
    <3>2. M.file[k] = L.file[k] /\ (k # 1 => M.file[k - 1] = L.file[k - 1])  BY <3>1
    <3> QED  BY <3>2 DEF Sound, Filed, Successive
  <2> QED  BY <1>1, <2>1, <2>2, <2>3 DEF Sound, Filed
<1>5. ASSUME NEW D  PROVE Seqnos(M, D) = Seqnos(L, D)
  <2>1. {M.file[k].jnl_seqno : k \in 1 .. M.free} = {L.file[k].jnl_seqno : k \in 1 .. L.free}
    OBVIOUS
  <2>2. {M.slot[i].jnl_seqno : i \in InUse(M) \ D} = {L.slot[i].jnl_seqno : i \in InUse(L) \ D}
    BY <1>1 DEF Alike
  <2> QED  BY <2>1, <2>2 DEF Seqnos
<1> QED  BY <1>1, <1>2, <1>3, <1>4, <1>5 DEF Sound, Carried

LEMMA ReserveSound ==
  ASSUME NEW L \in Log, NEW s \in Slot, NEW M, M = Reserve(L, s), Sound(L), Level(L), ~Full(L)
  PROVE  /\ Sound(M) /\ Seqnos(M, {}) = Seqnos(L, {}) /\ InUse(M) = InUse(L)
         /\ \A i \in InUse(L) : M.slot[i] = L.slot[i]
<1>1. /\ M \in Log
      /\ M.free = L.free /\ M.index1 = L.index1 /\ M.index2 = L.index2 /\ M.file = L.file
      /\ \A i \in Index : i # L.index2 => M.slot[i] = L.slot[i]
  BY ReserveIs
<1>2. InUse(M) = InUse(L)  BY <1>1, InUseFrame
<1>3. Chain(M)  BY ReserveChain DEF Sound
<1>4. /\ InUse(L) \subseteq Index /\ L.index2 \notin InUse(L) /\ DECR(L.index1) # L.index2
      /\ DECR(L.index1) \in Index
  BY InUseEnds, LogFields, IndexType
<1>5. \A i \in InUse(L) : M.slot[i] = L.slot[i]  BY <1>1, <1>4
<1>6. Unit(M)
  <2>1. \A i \in InUse(L) : DECR(i) \in Index /\ DECR(i) # L.index2  BY <1>4, InUseEnds, IndexType
  <2> QED  BY <1>1, <1>2, <1>5, <2>1 DEF Sound, Unit
<1>7. Filed(M)  BY <1>1, <1>2, <1>4, <1>5 DEF Sound, Filed, Joined
<1>8. Seqnos(M, {}) = Seqnos(L, {})
  <2>1. {M.slot[i].jnl_seqno : i \in InUse(M) \ {}} = {L.slot[i].jnl_seqno : i \in InUse(L) \ {}}
    BY <1>2, <1>5
  <2> QED  BY <1>1, <2>1 DEF Seqnos
<1> QED  BY <1>2, <1>3, <1>5, <1>6, <1>7, <1>8 DEF Sound

LEMMA PublishSound ==
  ASSUME NEW L \in Log, NEW M, M = Publish(L), Sound(L), ~Full(L), NEW s, s = L.slot[L.index2],
         Follows(s, Last(L)), L.rsrv = EndOf(s), L.last = s.tot_jrec_len,
         s.tot_jrec_len = 1, Succeeds(Last(L), s), ~s.write_complete,
         s.in_phase2 \/ Good(L.file, s)
  PROVE  /\ Sound(M) /\ Level(M) /\ Last(M) = s /\ M.index1 # M.index2
         /\ DECR(M.index2) = L.index2 /\ InUse(M) = InUse(L) \cup {L.index2}
         /\ Seqnos(M, {L.index2}) = Seqnos(L, {})
         /\ Seqnos(M, {}) = Seqnos(L, {}) \cup {s.jnl_seqno}
<1>1. /\ M \in Log /\ M.free = L.free /\ M.file = L.file
      /\ M.index1 = L.index1 /\ M.index2 = INCR(L.index2) /\ M.slot = L.slot
  BY PublishIs
<1>2. InUse(M) = InUse(L) \cup {L.index2}  BY <1>1, InUsePublish
<1>3. Chain(M) /\ Level(M) /\ Last(M) = s  BY PublishChain DEF Sound
<1>4. L.index2 \notin InUse(L)  BY InUseEnds
<1>5. Unit(M)  BY <1>1, <1>2 DEF Sound, Unit, Last
<1>6. Filed(M)  BY <1>1, <1>2 DEF Sound, Filed, Joined
<1>7. M.index1 # M.index2 /\ DECR(M.index2) = L.index2
  BY <1>1, LogFields, IndexType DEF Full
<1>8. InUse(M) \ {L.index2} = InUse(L) \ {} /\ InUse(M) \ {} = InUse(L) \cup {L.index2}
  BY <1>2, <1>4
<1>9. Seqnos(M, {L.index2}) = Seqnos(L, {})  BY <1>1, <1>8 DEF Seqnos
<1>10. Seqnos(M, {}) = Seqnos(L, {}) \cup {s.jnl_seqno}  BY <1>1, <1>8 DEF Seqnos
<1> QED  BY <1>2, <1>3, <1>5, <1>6, <1>7, <1>9, <1>10 DEF Sound

LEMMA WithdrawSound ==
  ASSUME NEW L \in Log, NEW M, M = Withdraw(L), Sound(L), L.index1 # L.index2
  PROVE  /\ Sound(M) /\ Level(M) /\ Seqnos(M, {}) = Seqnos(L, {DECR(L.index2)})
         /\ Succeeds(Last(M), Last(L))
<1>1. /\ M \in Log /\ M.free = L.free /\ M.file = L.file
      /\ M.index1 = L.index1 /\ M.index2 = DECR(L.index2) /\ M.slot = L.slot
  BY WithdrawIs
<1>2. /\ Chain(M) /\ Level(M) /\ InUse(M) = InUse(L) \ {DECR(L.index2)}
      /\ Last(M) = L.slot[DECR(DECR(L.index2))] /\ DECR(L.index2) \in InUse(L)
  BY WithdrawChain DEF Sound
<1>3. Unit(M)  BY <1>1, <1>2 DEF Sound, Unit
<1>4. Filed(M)  BY <1>1, <1>2 DEF Sound, Filed, Joined
<1>5. Seqnos(M, {}) = Seqnos(L, {DECR(L.index2)})  BY <1>1, <1>2 DEF Seqnos
<1>6. Succeeds(Last(M), Last(L))  BY <1>2 DEF Sound, Unit, Last
<1> QED  BY <1>2, <1>3, <1>4, <1>5, <1>6 DEF Sound

(* jnl_write_phase2 into the space that slot i reserved. *)
LEMMA StoreSound ==
  ASSUME NEW L \in Log, Sound(L), NEW i \in InUse(L), NEW rec \in Record,
         rec.tn = L.slot[i].curr_tn, rec.jnl_seqno = L.slot[i].jnl_seqno, NEW M \in Log,
         M.free = L.free, M.index1 = L.index1, M.index2 = L.index2, M.slot = L.slot,
         M.file = Store(L.file, L.slot[i].start, rec)
  PROVE  Sound(M) /\ (\A D : Carried(M, L, D)) /\ Good(M.file, M.slot[i])
<1>1. PICK a, f, g : a = L.slot[i].start /\ f = L.file /\ g = M.file  OBVIOUS
<1>2. /\ a \in Nat /\ f \in Seq(Record) /\ L.free \in Nat /\ L.free <= a /\ InUse(L) \subseteq Index
      /\ Len(f) \in Nat
  BY <1>1, LogFields, SlotFields, AboveFree DEF InUse, Sound
<1>3. /\ Len(g) = IF a < Len(f) THEN Len(f) ELSE a + 1
      /\ \A k \in 1 .. Len(g) :
           g[k] = IF k = a + 1 THEN rec ELSE IF k <= Len(f) THEN f[k] ELSE Garbage
  <2>1. Stored(g, f, a, rec)  BY <1>1, <1>2, StoreStores
  <2> QED  BY <2>1 DEF Stored
<1>4. Len(f) <= Len(g) /\ a < Len(g) /\ Len(g) \in Nat  BY <1>2, <1>3
<1>5. \A k \in 1 .. Len(f) : k # a + 1 => g[k] = f[k]  BY <1>2, <1>3, <1>4
<1>6. g[a + 1] = rec  BY <1>2, <1>3, <1>4
<1>7. L.free <= Len(f)  BY <1>1 DEF Sound, Filed
<1>8. \A k \in 1 .. L.free : g[k] = f[k]  BY <1>2, <1>5, <1>7
<1>9. Good(g, L.slot[i])  BY <1>1, <1>4, <1>6 DEF Good
<1>10. ASSUME NEW j \in InUse(L), Good(f, L.slot[j])  PROVE Good(g, L.slot[j])
  <2>1. CASE j = i  BY <1>9, <2>1
  <2>2. CASE j # i
    <3>1. L.slot[j].start # a  BY <1>1, <2>2, OneStart DEF Sound
    <3>2. L.slot[j].start \in Nat  BY <1>2, LogFields, SlotFields
    <3>3. PICK b : b = L.slot[j].start  OBVIOUS
    <3>4. b < Len(f) /\ b \in Nat /\ b + 1 # a + 1  BY <1>2, <1>10, <3>1, <3>2, <3>3 DEF Good
    <3>5. b < Len(g) /\ g[b + 1] = f[b + 1]  BY <1>2, <1>4, <1>5, <3>4
    <3> QED  BY <1>10, <3>3, <3>5 DEF Good
  <2> QED  BY <2>1, <2>2
<1>11. \A j \in Index : Alike(M.slot[j], L.slot[j])  BY DEF Alike
<1>12. \A j \in InUse(L) : L.slot[j].write_complete \/ ~L.slot[j].in_phase2 => Good(f, L.slot[j])
  BY <1>1 DEF Sound, Filed
<1> QED  BY <1>1, <1>4, <1>8, <1>9, <1>10, <1>11, <1>12, FileSound

(* jnl_write stores beyond all reservations. *)
LEMMA StoreBeyond ==
  ASSUME NEW L \in Log, Sound(L), Level(L), NEW rec \in Record, NEW M \in Log,
         M.free = L.free, M.index1 = L.index1, M.index2 = L.index2, M.slot = L.slot,
         M.file = Store(L.file, L.rsrv, rec)
  PROVE  /\ Sound(M) /\ \A D : Carried(M, L, D)
         /\ L.rsrv < Len(M.file) /\ M.file[L.rsrv + 1] = rec
<1>1. PICK a, f, g : a = L.rsrv /\ f = L.file /\ g = M.file  OBVIOUS
<1>2. /\ a \in Nat /\ f \in Seq(Record) /\ L.free \in Nat /\ L.free <= a /\ InUse(L) \subseteq Index
      /\ Len(f) \in Nat
  BY <1>1, LogFields, AboveFree DEF InUse, Sound, Level
<1>3. /\ Len(g) = IF a < Len(f) THEN Len(f) ELSE a + 1
      /\ \A k \in 1 .. Len(g) :
           g[k] = IF k = a + 1 THEN rec ELSE IF k <= Len(f) THEN f[k] ELSE Garbage
  <2>1. Stored(g, f, a, rec)  BY <1>1, <1>2, StoreStores
  <2> QED  BY <2>1 DEF Stored
<1>4. Len(f) <= Len(g) /\ a < Len(g) /\ Len(g) \in Nat  BY <1>2, <1>3
<1>5. \A k \in 1 .. Len(f) : k # a + 1 => g[k] = f[k]  BY <1>2, <1>3, <1>4
<1>6. g[a + 1] = rec  BY <1>2, <1>3, <1>4
<1>7. L.free <= Len(f)  BY <1>1 DEF Sound, Filed
<1>8. \A k \in 1 .. L.free : g[k] = f[k]  BY <1>2, <1>5, <1>7
<1>9. ASSUME NEW j \in InUse(L), Good(f, L.slot[j])  PROVE Good(g, L.slot[j])
  <2>1. L.slot[j].start \in Nat  BY <1>2, LogFields, SlotFields
  <2>2. PICK b : b = L.slot[j].start  OBVIOUS
  <2>3. b < a
    <3>1. PICK k \in 0 .. Used(L) - 1 : j = At(L, k)  BY LogFields, InUseAt
    <3>2. b = L.free + k /\ a = L.free + Used(L)  BY <1>1, <2>2, <3>1, Ages DEF Sound, Level
    <3>3. Used(L) \in 0 .. N - 1 /\ N \in Nat  BY LogFields, UsedIs, LogAssumption
    <3> QED  BY <1>2, <3>1, <3>2, <3>3
  <2>4. b < Len(f) /\ b \in Nat /\ b + 1 # a + 1  BY <1>2, <1>9, <2>1, <2>2, <2>3 DEF Good
  <2>5. b < Len(g) /\ g[b + 1] = f[b + 1]  BY <1>2, <1>4, <1>5, <2>4
  <2> QED  BY <1>9, <2>2, <2>5 DEF Good
<1>10. \A j \in Index : Alike(M.slot[j], L.slot[j])  BY DEF Alike
<1>11. \A j \in InUse(L) : L.slot[j].write_complete \/ ~L.slot[j].in_phase2 => Good(f, L.slot[j])
  BY <1>1 DEF Sound, Filed
<1>12. Sound(M) /\ \A D : Carried(M, L, D)
  BY <1>1, <1>4, <1>8, <1>9, <1>10, <1>11, FileSound
<1> QED  BY <1>1, <1>4, <1>6, <1>12

(* The slots that are handed over hold the records between the two addresses. *)
LEMMA HandOverSound ==
  ASSUME NEW L \in Log, Sound(L), NEW M, M = HandOver(L), NEW D,
         \A i \in D : ~L.slot[i].write_complete
  PROVE  Carried(M, L, D)
<1>1. PICK n \in 0 .. Used(L) :
        /\ \A k \in 0 .. n - 1 : L.slot[At(L, k)].write_complete
        /\ M.index1 = At(L, n) /\ M.index2 = L.index2 /\ M.slot = L.slot /\ M.file = L.file
        /\ M.free = IF n = Used(L) THEN EndOf(Last(L)) ELSE L.slot[At(L, n)].start
  BY HandOverShape DEF Sound
<1>2. Used(L) \in 0 .. N - 1 /\ N \in Nat /\ n \in Nat /\ L.free \in Nat /\ Len(L.file) \in Nat
  BY LogFields, UsedIs, LogAssumption
<1>3. /\ \A k \in 0 .. Used(L) - 1 : L.slot[At(L, k)].start = L.free + k
      /\ EndOf(Last(L)) = L.free + Used(L)
  BY Ages DEF Sound
<1>4. M.free = L.free + n
  <2>1. CASE n = Used(L)  BY <1>1, <1>3, <2>1
  <2>2. CASE n # Used(L)
    <3>1. n \in 0 .. Used(L) - 1  BY <1>2, <2>2
    <3> QED  BY <1>1, <1>3, <2>2, <3>1
  <2> QED  BY <2>1, <2>2
<1>5. /\ InUse(M) \subseteq InUse(L)
      /\ \A i \in InUse(L) \ InUse(M) : \E k \in 0 .. n - 1 : i = At(L, k)
  BY <1>1, InUseAdvance
<1>6. M \in Log /\ Chain(M)  BY HandOverIs DEF Tidied, Sound
<1>7. Unit(M)  BY <1>1, <1>5 DEF Sound, Unit
<1>8. ASSUME NEW m \in 0 .. n - 1
      PROVE  /\ At(L, m) \in InUse(L) /\ L.slot[At(L, m)].write_complete
             /\ L.free + m < Len(L.file)
             /\ L.file[L.free + m + 1].tn = L.slot[At(L, m)].curr_tn
             /\ L.file[L.free + m + 1].jnl_seqno = L.slot[At(L, m)].jnl_seqno
  <2>1. m \in 0 .. Used(L) - 1 /\ m \in Nat  BY <1>2
  <2>2. At(L, m) \in InUse(L)  BY <2>1, LogFields, InUseAt
  <2>3. PICK s : s = L.slot[At(L, m)]  OBVIOUS
  <2>4. s.write_complete /\ s.start = L.free + m  BY <1>1, <1>3, <2>1, <2>3
  <2>5. Good(L.file, s)  BY <2>2, <2>3, <2>4 DEF Sound, Filed
  <2> QED  BY <2>2, <2>3, <2>4, <2>5 DEF Good
<1>9. Filed(M)
  <2>1. M.free <= Len(M.file)
    <3>1. CASE n = 0  BY <1>1, <1>2, <1>4, <3>1 DEF Sound, Filed
    <3>2. CASE n # 0
      <4>1. n - 1 \in 0 .. n - 1  BY <1>2, <3>2
      <4>2. L.free + (n - 1) < Len(L.file)  BY <1>8, <4>1
      <4> QED  BY <1>1, <1>2, <1>4, <4>2
    <3> QED  BY <3>1, <3>2
  <2>2. ASSUME NEW k \in 1 .. M.free  PROVE Successive(M.file, k) /\ M.file[k].tn # 0
    <3>1. CASE k <= L.free
      <4>1. k \in 1 .. L.free  BY <1>2, <1>4, <3>1
      <4> QED  BY <1>1, <4>1 DEF Sound, Filed
    <3>2. CASE k > L.free
      <4>1. PICK m \in 0 .. n - 1 : k = L.free + m + 1
        <5>1. k - L.free - 1 \in 0 .. n - 1 /\ k = L.free + (k - L.free - 1) + 1
          BY <1>2, <1>4, <3>2
        <5> QED  BY <5>1
      <4>2. PICK s, t : s = L.slot[DECR(At(L, m))] /\ t = L.slot[At(L, m)]  OBVIOUS
      <4>3. /\ Succeeds(s, t) /\ M.file[k].tn = t.curr_tn /\ M.file[k].jnl_seqno = t.jnl_seqno
            /\ s.curr_tn \in Nat
        <5>1. At(L, m) \in InUse(L)  BY <1>8
        <5>2. DECR(At(L, m)) \in Index  BY <5>1, IndexType DEF InUse
        <5> QED  BY <1>1, <1>8, <4>1, <4>2, <5>1, <5>2, LogFields, SlotFields DEF Sound, Unit
      <4>4. CASE m = 0
        <5>1. s = L.slot[DECR(L.index1)] /\ k = L.free + 1  BY <1>2, <4>1, <4>2, <4>4, LogFields, InUseAt
        <5>2. CASE L.free = 0
          BY <1>2, <4>3, <5>1, <5>2 DEF Sound, Filed, Joined, Succeeds, Successive
        <5>3. CASE L.free # 0
          <6>1. k # 1 /\ k - 1 = L.free  BY <1>2, <5>1, <5>3
          <6>2. s.curr_tn = M.file[k - 1].tn /\ s.jnl_seqno = M.file[k - 1].jnl_seqno
            BY <1>1, <5>1, <5>3, <6>1 DEF Sound, Filed, Joined
          <6> QED  BY <4>3, <6>1, <6>2 DEF Succeeds, Successive
        <5> QED  BY <5>2, <5>3
      <4>5. CASE m # 0
        <5>1. m - 1 \in 0 .. n - 1 /\ m \in 1 .. Used(L) /\ k - 1 = L.free + (m - 1) + 1 /\ k # 1
          BY <1>2, <4>1, <4>5
        <5>2. s = L.slot[At(L, m - 1)]  BY <4>2, <5>1, LogFields, InUseAt
        <5>3. s.curr_tn = M.file[k - 1].tn /\ s.jnl_seqno = M.file[k - 1].jnl_seqno
          BY <1>1, <1>8, <5>1, <5>2
        <5> QED  BY <4>3, <5>1, <5>3 DEF Succeeds, Successive
      <4> QED  BY <4>4, <4>5
    <3> QED  BY <1>2, <1>4, <3>1, <3>2
  <2>3. \A i \in InUse(M) :
          M.slot[i].write_complete \/ ~M.slot[i].in_phase2 => Good(M.file, M.slot[i])
    BY <1>1, <1>5 DEF Sound, Filed
  <2>4. Joined(M)
    <3>1. CASE n = 0
      <4>1. M.index1 = L.index1 /\ M.free = L.free  BY <1>1, <1>2, <1>4, <3>1, LogFields, InUseAt
      <4> QED  BY <1>1, <4>1 DEF Sound, Filed, Joined
    <3>2. CASE n # 0
      <4>1. n \in 1 .. Used(L) /\ n - 1 \in 0 .. n - 1 /\ M.free = L.free + (n - 1) + 1 /\ M.free # 0
        BY <1>2, <1>4, <3>2
      <4>2. DECR(M.index1) = At(L, n - 1)  BY <1>1, <4>1, LogFields, InUseAt
      <4> QED  BY <1>1, <1>8, <4>1, <4>2 DEF Joined
    <3> QED  BY <3>1, <3>2
  <2> QED  BY <2>1, <2>2, <2>3, <2>4 DEF Filed
<1>10. ASSUME NEW x \in Seqnos(M, D)  PROVE x \in Seqnos(L, D)
  <2>1. CASE \E i \in InUse(M) \ D : x = M.slot[i].jnl_seqno  BY <1>1, <1>5, <2>1 DEF Seqnos
  <2>2. CASE \E k \in 1 .. M.free : x = M.file[k].jnl_seqno
    <3>1. PICK k \in 1 .. M.free : x = M.file[k].jnl_seqno  BY <2>2
    <3>2. CASE k <= L.free
      <4>1. k \in 1 .. L.free  BY <1>2, <1>4, <3>2
      <4> QED  BY <1>1, <3>1, <4>1 DEF Seqnos
    <3>3. CASE k > L.free
      <4>1. PICK m \in 0 .. n - 1 : k = L.free + m + 1
        <5>1. k - L.free - 1 \in 0 .. n - 1 /\ k = L.free + (k - L.free - 1) + 1
          BY <1>2, <1>4, <3>3
        <5> QED  BY <5>1
      <4>2. x = L.slot[At(L, m)].jnl_seqno /\ At(L, m) \in InUse(L) \ D  BY <1>1, <1>8, <3>1, <4>1
      <4> QED  BY <4>2 DEF Seqnos
    <3> QED  BY <1>2, <1>4, <3>2, <3>3
  <2> QED  BY <2>1, <2>2 DEF Seqnos
<1>11. ASSUME NEW x \in Seqnos(L, D)  PROVE x \in Seqnos(M, D)
  <2>1. CASE \E k \in 1 .. L.free : x = L.file[k].jnl_seqno
    <3>1. PICK k \in 1 .. L.free : x = L.file[k].jnl_seqno  BY <2>1
    <3>2. k \in 1 .. M.free  BY <1>2, <1>4
    <3> QED  BY <1>1, <3>1, <3>2 DEF Seqnos
  <2>2. CASE \E i \in InUse(L) \ D : x = L.slot[i].jnl_seqno
    <3>1. PICK i \in InUse(L) \ D : x = L.slot[i].jnl_seqno  BY <2>2
    <3>2. CASE i \in InUse(M)  BY <1>1, <3>1, <3>2 DEF Seqnos
    <3>3. CASE i \notin InUse(M)
      <4>1. PICK m \in 0 .. n - 1 : i = At(L, m)  BY <1>5, <3>3
      <4>2. x = M.file[L.free + m + 1].jnl_seqno  BY <1>1, <1>8, <3>1, <4>1
      <4>3. L.free + m + 1 \in 1 .. M.free  BY <1>2, <1>4
      <4> QED  BY <4>2, <4>3 DEF Seqnos
    <3> QED  BY <3>2, <3>3
  <2> QED  BY <2>1, <2>2 DEF Seqnos
<1>12. Seqnos(M, D) = Seqnos(L, D)  BY <1>10, <1>11
<1> QED  BY <1>1, <1>6, <1>7, <1>9, <1>12 DEF Carried, Sound

LEMMA SalvageSound ==
  ASSUME NEW L \in Log, Sound(L), NEW dead, dead \subseteq InUse(L), NEW M, M = Salvage(L, dead)
  PROVE  Sound(M) /\ \A D : Carried(M, L, D)
<1> DEFINE S == {s \in {L.slot[i] : i \in dead} : s.in_phase2}
<1>0. dead \subseteq Index /\ InUse(L) \subseteq Index  BY DEF InUse
<1>1. /\ M \in Log /\ M.free = L.free /\ M.index1 = L.index1 /\ M.index2 = L.index2
      /\ \A i \in Index : Marked(M.slot[i], L.slot[i], i \in dead)
      /\ M.file = Nullified(L.file, S)
  BY <1>0, SalvageIs
<1>2. L.free \in Nat /\ L.file \in Seq(Record) /\ Len(L.file) \in Nat /\ L.free <= Len(L.file)
  BY LogFields DEF Sound, Filed
<1>3. S \subseteq Slot /\ \A s \in S : L.free <= s.start  BY <1>0, LogFields, AboveFree DEF Sound
<1>4. PICK b \in Nat : \A s \in S : s.start < b
  <2>1. PICK f : f = [i \in Index |-> L.slot[i].start]  OBVIOUS
  <2>2. f \in [Index -> Nat]  BY <2>1, LogFields, SlotFields
  <2>3. PICK b \in Nat : \A i \in Index : f[i] < b  BY <2>2, SlotsBounded
  <2>4. \A s \in S : s.start < b  BY <1>0, <2>1, <2>3
  <2> QED  BY <2>4
<1>5. \A s \in S : \E i \in dead : s = L.slot[i]  OBVIOUS
<1>6. \A i \in dead : L.slot[i].in_phase2 => L.slot[i] \in S  OBVIOUS
<1> HIDE DEF S
<1>7. PICK f, g : f = L.file /\ g = M.file  OBVIOUS
<1>8. /\ g \in Seq(Record) /\ Len(f) <= Len(g)
      /\ \A i \in 1 .. Len(g) : (\A s \in S : s.start + 1 # i) =>
           g[i] = IF i <= Len(f) THEN f[i] ELSE Garbage
      /\ \A s \in S : /\ s.start + 1 \in 1 .. Len(g)
                      /\ \E t \in S : t.start = s.start /\ g[s.start + 1] = SalvageRecord(t)
  BY <1>1, <1>2, <1>3, <1>4, <1>7, NullifiedIs
<1>9. ASSUME NEW k \in 1 .. Len(f), \A s \in S : s.start + 1 # k  PROVE g[k] = f[k]
  BY <1>2, <1>7, <1>8, <1>9
<1>10. ASSUME NEW k \in 1 .. L.free  PROVE g[k] = f[k]
  <2>1. \A s \in S : s.start \in Nat  BY <1>3, SlotFields
  <2>2. \A s \in S : s.start + 1 # k  BY <1>2, <1>3, <2>1
  <2>3. k \in 1 .. Len(f)  BY <1>2, <1>7
  <2> QED  BY <1>9, <2>2, <2>3
<1>11. ASSUME NEW s \in S  PROVE Good(g, s)
  <2>1. PICK t \in S : t.start = s.start /\ g[s.start + 1] = SalvageRecord(t)  BY <1>8
  <2>2. t = s  BY <1>5, <2>1, OneStart DEF Sound
  <2>3. s.start \in Nat /\ s.start + 1 \in 1 .. Len(g) /\ Len(g) \in Nat  BY <1>3, <1>8, SlotFields
  <2> QED  BY <2>1, <2>2, <2>3 DEF Good, SalvageRecord
<1>12. ASSUME NEW j \in InUse(L), Good(f, L.slot[j])  PROVE Good(g, L.slot[j])
  <2>1. CASE L.slot[j] \in S  BY <1>11, <2>1
  <2>2. CASE L.slot[j] \notin S
    <3>1. PICK a : a = L.slot[j].start  OBVIOUS
    <3>2. a \in Nat /\ a < Len(f) /\ a + 1 \in 1 .. Len(f)
      BY <1>0, <1>2, <1>7, <1>12, <3>1, LogFields, SlotFields DEF Good
    <3>3. ASSUME NEW s \in S  PROVE s.start + 1 # a + 1
      <4>1. PICK i \in dead : s = L.slot[i]  BY <1>5
      <4>2. i # j  BY <2>2, <4>1
      <4>3. s.start # a  BY <3>1, <4>1, <4>2, OneStart DEF Sound
      <4>4. s.start \in Nat  BY <1>3, SlotFields
      <4> QED  BY <3>2, <4>3, <4>4
    <3>4. g[a + 1] = f[a + 1]  BY <1>9, <3>2, <3>3
    <3>5. a < Len(g)  BY <1>2, <1>7, <1>8, <3>2
    <3> QED  BY <1>12, <3>1, <3>4, <3>5 DEF Good
  <2> QED  BY <2>1, <2>2
<1>13. \A j \in Index : /\ Alike(M.slot[j], L.slot[j])
                        /\ M.slot[j].write_complete = (L.slot[j].write_complete \/ j \in dead)
  BY <1>1 DEF Marked
<1>14. ASSUME NEW j \in InUse(L), M.slot[j].write_complete \/ ~M.slot[j].in_phase2
       PROVE  Good(g, M.slot[j])
  <2>1. j \in Index /\ Alike(M.slot[j], L.slot[j])  BY <1>0, <1>13
  <2>2. L.slot[j].write_complete \/ ~L.slot[j].in_phase2 \/ L.slot[j] \in S
    BY <1>6, <1>13, <1>14, <2>1 DEF Alike
  <2>3. Good(g, L.slot[j])
    <3>1. CASE L.slot[j] \in S  BY <1>11, <3>1
    <3>2. CASE L.slot[j].write_complete \/ ~L.slot[j].in_phase2
      <4>1. Good(f, L.slot[j])  BY <1>7, <3>2 DEF Sound, Filed
      <4> QED  BY <1>12, <4>1
    <3> QED  BY <2>2, <3>1, <3>2
  <2> QED  BY <2>1, <2>3, GoodAlike
<1>15. \A j \in InUse(L) : Good(f, L.slot[j]) => Good(g, M.slot[j])
  BY <1>0, <1>12, <1>13, GoodAlike
<1>16. \A j \in Index : Alike(M.slot[j], L.slot[j])  BY <1>13
<1> QED  BY <1>1, <1>7, <1>8, <1>10, <1>14, <1>15, <1>16, FileSound

LEMMA CarriedTrans ==
  ASSUME NEW K, NEW L, NEW M, NEW D, Carried(L, K, D), Carried(M, L, D), InUse(M) \subseteq InUse(L)
  PROVE  Carried(M, K, D)
BY DEF Carried

LEMMA CleanupSound ==
  ASSUME NEW L \in Log, Sound(L), NEW p, NEW c, NEW alive, NEW M,
         M = Cleanup(L, p, c, alive), NEW D, D \subseteq InUse(L),
         \A i \in D : ~L.slot[i].write_complete, c => D \cap Orphans(L, p, alive) = {}
  PROVE  Carried(M, L, D)
<1>1. CASE c
  <2>1. PICK E : E = DeadRun(L, p, alive)  OBVIOUS
  <2>2. PICK K : K = Salvage(L, E)  OBVIOUS
  <2>3. M = HandOver(K)  BY <1>1, <2>1, <2>2, Zenon DEF Cleanup, SalvageDead
  <2>4. E \subseteq InUse(L) /\ E \subseteq Orphans(L, p, alive) /\ E \subseteq Index
    BY <2>1, DeadRunIs DEF InUse
  <2>5. K \in Log /\ \A i \in Index : Marked(K.slot[i], L.slot[i], i \in E)
    BY <2>2, <2>4, SalvageIs
  <2>6. Sound(K) /\ Carried(K, L, D)  BY <2>2, <2>4, SalvageSound
  <2>7. \A i \in D : ~K.slot[i].write_complete
    BY <1>1, <2>4, <2>5 DEF Marked, InUse
  <2>8. Carried(M, K, D)  BY <2>3, <2>5, <2>6, <2>7, HandOverSound
  <2>9. InUse(M) \subseteq InUse(K)  BY <2>3, <2>5, HandOverIs DEF Tidied
  <2> QED  BY <2>6, <2>8, <2>9, CarriedTrans
<1>2. CASE ~c
  <2>1. M = HandOver(L)  BY <1>2 DEF Cleanup
  <2> QED  BY <2>1, HandOverSound
<1> QED  BY <1>1, <1>2

LEMMA DoneSound ==
  ASSUME NEW L \in Log, Sound(L), NEW i \in InUse(L), Good(L.file, L.slot[i]), NEW K, K = Done(L, i)
  PROVE  /\ K \in Log /\ Sound(K) /\ (\A D : Carried(K, L, D)) /\ InUse(K) = InUse(L)
         /\ K.free = L.free /\ K.file = L.file
         /\ \A j \in Index :
              /\ Alike(K.slot[j], L.slot[j])
              /\ K.slot[j].write_complete <=> L.slot[j].write_complete \/ j = i
<1>0. i \in Index /\ InUse(L) \subseteq Index  BY DEF InUse
<1>1. /\ K \in Log /\ K.free = L.free /\ K.file = L.file
      /\ K.index1 = L.index1 /\ K.index2 = L.index2 /\ InUse(K) = InUse(L)
      /\ \A j \in Index :
           /\ Alike(K.slot[j], L.slot[j])
           /\ K.slot[j].write_complete <=> L.slot[j].write_complete \/ j = i
  BY <1>0, MarkedIs
<1>2. \A j \in InUse(L) : Good(L.file, L.slot[j]) => Good(K.file, K.slot[j])
  BY <1>0, <1>1, GoodAlike
<1>3. \A j \in InUse(L) : K.slot[j].write_complete \/ ~K.slot[j].in_phase2
                            => Good(K.file, K.slot[j])
  <2> SUFFICES ASSUME NEW j \in InUse(L), K.slot[j].write_complete \/ ~K.slot[j].in_phase2
               PROVE  Good(K.file, K.slot[j])
    OBVIOUS
  <2>1. L.slot[j].write_complete \/ ~L.slot[j].in_phase2 \/ j = i  BY <1>0, <1>1 DEF Alike
  <2>2. Good(L.file, L.slot[j])  BY <2>1 DEF Sound, Filed
  <2> QED  BY <1>2, <2>2
<1>4. Sound(K) /\ \A D : Carried(K, L, D)
  <2>1. Len(L.file) <= Len(K.file) /\ \A k \in 1 .. L.free : K.file[k] = L.file[k]
    BY <1>1, LogFields
  <2>2. \A j \in Index : Alike(K.slot[j], L.slot[j])  BY <1>1
  <2> QED  BY <1>1, <1>2, <1>3, <2>1, <2>2, FileSound
<1> QED  BY <1>1, <1>4

LEMMA WriteCompleteSound ==
  ASSUME NEW L \in Log, Sound(L), NEW i \in InUse(L), Good(L.file, L.slot[i]),
         NEW p, NEW c, NEW alive, NEW M, M = WriteComplete(L, i, p, c, alive),
         NEW D, D \subseteq InUse(L), i \notin D,
         \A j \in D : ~L.slot[j].write_complete, c => D \cap Orphans(L, p, alive) = {}
  PROVE  Carried(M, L, D)
<1>0. i \in Index /\ InUse(L) \subseteq Index  BY DEF InUse
<1>1. PICK K : K = Done(L, i)  OBVIOUS
<1>2. /\ K \in Log /\ InUse(K) = InUse(L)
      /\ \A j \in Index :
           /\ Alike(K.slot[j], L.slot[j])
           /\ K.slot[j].write_complete <=> L.slot[j].write_complete \/ j = i
  BY <1>1, DoneSound
<1>5. Sound(K) /\ Carried(K, L, D)  BY <1>1, DoneSound
<1>6. CASE i \in {0, N \div 2}
  <2>1. M = Cleanup(K, p, c, alive)  BY <1>1, <1>6 DEF WriteComplete, Done
  <2>2. D \subseteq InUse(K) /\ \A j \in D : ~K.slot[j].write_complete  BY <1>0, <1>2
  <2>3. Orphans(K, p, alive) = Orphans(L, p, alive)  BY <1>2 DEF Orphans, Alike
  <2>4. Carried(M, K, D)  BY <1>2, <1>5, <2>1, <2>2, <2>3, CleanupSound
  <2>5. InUse(M) \subseteq InUse(K)  BY <1>2, <2>1, CleanupIs DEF Tidied
  <2> QED  BY <1>5, <2>4, <2>5, CarriedTrans
<1>7. CASE i \notin {0, N \div 2}
  <2>1. M = K  BY <1>1, <1>7 DEF WriteComplete, Done
  <2> QED  BY <1>5, <2>1
<1> QED  BY <1>6, <1>7

-----------------------------------------------------------------------------
(* The states in which a region is between the steps of a commit *)

(* Nothing is reserved, and the header agrees with the journal: the newest    *)
(* entry has the number before curr_tn ...                                    *)
Base(L, d) ==
  /\ Level(L) /\ d.update_underway_tn < d.curr_tn
  /\ OneMore(d.reg_seqno, Seqnos(L, {}))

Calm(L, d) == Base(L, d) /\ Last(L).curr_tn + 1 = d.curr_tn

(* ... or is the INCTN record of a wcs_recover that has not moved curr_tn ...  *)
Redo(L, d) == Base(L, d) /\ Last(L).curr_tn = d.curr_tn /\ Last(L).jnl_seqno = 0

Near(L, d) == Calm(L, d) \/ Redo(L, d)

Rest(L, d)  == Calm(L, d) /\ d.early_tn = d.curr_tn

(* ... after CMT04 ... *)
Early(L, d) == Calm(L, d) /\ d.early_tn = d.curr_tn + 1

(* ... in the middle of CMT06, or of jnl_write: h has written the slot at    *)
(* index2, which nobody sees ...                                             *)
Taking(L, d, h) ==
  LET s == L.slot[L.index2] IN
  /\ ~Full(L) /\ Follows(s, Last(L)) /\ L.rsrv = EndOf(s) /\ L.last = s.tot_jrec_len
  /\ s.tot_jrec_len = 1 /\ Succeeds(Last(L), s) /\ s.curr_tn = d.curr_tn
  /\ s.process_id = h /\ ~s.write_complete /\ (s.in_phase2 \/ Good(L.file, s))
  /\ d.early_tn = d.curr_tn + 1 /\ d.update_underway_tn < d.curr_tn
  /\ OneMore(d.reg_seqno, Seqnos(L, {}))

(* ... after CMT06: the newest reservation is h's, with the newest seqno.     *)
(* The header agrees with what is before it up to CMT08.                     *)
Logged(L, d, h) ==
  /\ Level(L) /\ L.index1 # L.index2 /\ d.early_tn = d.curr_tn + 1
  /\ Last(L).curr_tn = d.curr_tn /\ Last(L).jnl_seqno > 0
  /\ Last(L).process_id = h /\ ~Last(L).write_complete
  /\ d.update_underway_tn <= d.curr_tn
  /\ d.reg_seqno <= Last(L).jnl_seqno + 1
  /\ \A x \in Seqnos(L, {DECR(L.index2)}) : x <= Last(L).jnl_seqno
  /\ d.update_underway_tn # d.curr_tn => OneMore(d.reg_seqno, Seqnos(L, {DECR(L.index2)}))

(* Where a process with next step l is in the regions its loop has done ...   *)
Behind(l) ==
  CASE l \in {"cmt01", "recover", "recoverb", "recoverc"}    -> "rest"
    [] l = "cmt04"                                           -> "early"
    [] l \in {"cmt06", "cmt06b"}                             -> "logged"
    [] l \in {"cmt08", "cmt09", "cmt12", "cmt14", "finish"}  -> "owed"
    [] OTHER                                                 -> "out"

(* ... in those it has yet to do ...                                          *)
Ahead(l) ==
  CASE l \in {"grabpool", "cmt03", "cmt03b", "cmt04"}        -> "rest"
    [] l \in {"cmt06", "cmt06b"}                             -> "early"
    [] l \in {"cmt07", "undopool", "cmt08", "cmt09", "cmt12", "cmt14", "undodb"} -> "logged"
    [] l = "finish"                                          -> "finish"
    [] l \in {"cmt15", "cmt16", "cmt16c"}                    -> "owed"
    [] OTHER                                                 -> "out"

(* ... and in the one it is at.                                               *)
Here(l) ==
  CASE l = "recover"  -> "recover"
    [] l = "recoverb" -> "recoverb"
    [] l = "recoverc" -> "recoverc"
    [] l = "cmt06b"   -> "taking"
    [] l = "cmt09"    -> "underway"
    [] l = "cmt12"    -> "numbered"
    [] l = "cmt14"    -> "current"
    [] l = "cmt16c"   -> "filled"
    [] OTHER          -> Ahead(l)

Where(l, U, R, x, r) ==
  IF l = "dead" THEN "dead"
  ELSE IF r \notin U THEN "out"
  ELSE IF r \notin R THEN Behind(l)
  ELSE IF r = x THEN Here(l) ELSE Ahead(l)

Spot(p, r) == Where(pc[p], upd[p], rem[p], reg(p), r)

(* In crit of the region; with an entry that is to be filled. *)
Inside  == {"rest", "recover", "recoverb", "recoverc", "early", "taking", "logged", "underway",
            "numbered", "current", "finish"}
Entries == {"logged", "underway", "numbered", "current", "finish", "owed", "filled"}

Owns(w, h, p) == (w \in Inside => h = p) /\ (h = p => w \in Inside \cup {"dead"})

(* What the owner h of crit finds, or has left, in its region. *)
Stands(w, L, d, h, t, i, s) ==
  /\ w \in {"rest", "current"} => Rest(L, d)
  /\ w = "recover" => Near(L, d) /\ d.early_tn \in {d.curr_tn, d.curr_tn + 1}
  /\ w = "recoverc" => Redo(L, d) /\ d.early_tn = d.curr_tn + 1
  /\ w = "early" => Early(L, d)
  /\ w = "recoverb" => /\ Taking(L, d, h) /\ i = L.index2 /\ L.slot[i].jnl_seqno = 0
                       /\ Good(L.file, L.slot[i]) /\ ~L.slot[i].in_phase2
  /\ w = "taking" => /\ Taking(L, d, h) /\ i = L.index2 /\ L.slot[i].jnl_seqno = t
                     /\ L.slot[i].in_phase2
  /\ w \in {"logged", "underway", "numbered", "finish"} =>
       Logged(L, d, h) /\ Last(L).jnl_seqno = t
  /\ w = "logged" => d.update_underway_tn # d.curr_tn
  /\ w \in {"underway", "numbered"} => d.update_underway_tn = d.curr_tn
  /\ w = "numbered" => d.reg_seqno = t + 1
  /\ w = "dead" => \/ Near(L, d) /\ d.early_tn \in {d.curr_tn, d.curr_tn + 1}
                   \/ Taking(L, d, h)
                   \/ /\ Logged(L, d, h)
                      /\ d.update_underway_tn = d.curr_tn => Last(L).jnl_seqno < s

(* p's entry waits for p to fill it, and is the only one at its index. *)
Entry(w, L, p, t, i) ==
  /\ w \in Entries => /\ i \in InUse(L) /\ ~L.slot[i].write_complete /\ L.slot[i].in_phase2
                      /\ L.slot[i].process_id = p /\ L.slot[i].jnl_seqno = t
  /\ w = "filled" => Good(L.file, L.slot[i])

(* Between two loops all regions are to be done. *)
Whole(l, U, R) ==
  l \in {"grabpool", "cmt03", "cmt03b", "cmt07", "undopool", "cmt15", "undorel", "cmt17",
         "cmt17c"} => R = U

(* The seqno of a transaction is jnl_seqno up to CMT07, and to the end of an undo. *)
Token(l, t, s) ==
  /\ l \in {"cmt03", "cmt03b", "undodb"} \cup Published => t = s
  /\ l \in {"cmt08", "cmt09", "cmt12", "cmt14", "finish"} => t < s

TokenInv ==
  \A p \in Proc : /\ Held(pc[p], crit[POOL], p) /\ Token(pc[p], token[p], jnl_seqno)
                  /\ Whole(pc[p], upd[p], rem[p])

RegionInv(r) ==
  /\ Sound(jb[r]) /\ db[r].reg_seqno <= jnl_seqno
  /\ crit[r] = NoProc => Rest(jb[r], db[r])

PlaceInv(p, r) ==
  /\ Owns(Spot(p, r), crit[r], p)
  /\ Entry(Spot(p, r), jb[r], p, token[p], idx[p][r])
  /\ crit[r] = p => Stands(Spot(p, r), jb[r], db[r], p, token[p], idx[p][r], jnl_seqno)

JnlInv == \A r \in Region : RegionInv(r) /\ \A p \in Proc : PlaceInv(p, r)

(* The journals are right if no error comes between CMT04 and CMT06, where    *)
(* t_commit_cleanup takes an earlier entry of the process for the one of its  *)
(* commit (run undo06).                                                       *)
LateErrors == FailPoints \subseteq {"cmt07", "cmt12"}

-----------------------------------------------------------------------------
(* Processes *)

(* Only p moves. *)
Alone(p) ==
  \A q \in Proc : q # p => /\ pc'[q] = pc[q] /\ upd'[q] = upd[q] /\ rem'[q] = rem[q]
                           /\ token'[q] = token[q] /\ idx'[q] = idx[q]

LEMMA AloneIs ==
  ASSUME TypeInv, NEW p \in Proc,
         (\E rs \in Updates : Begin(p, rs)) \/ Step(p) \/ Fail(p) \/ Kill(p)
  PROVE  Alone(p)
<1> USE DEF Begin, Step, Fail, Kill, GrabCrit, AfterGrab, Recover, RecoverWritten, RecoverDone,
            GrabLock, ReservePool, PublishPool, EarlyTn, ReserveJnl, PublishJnl, SetJnlSeqno,
            UpdateUnderway, SetRegSeqno, IncrementCurrTn, RelCrit, RelLock, WriteJnl,
            JnlWriteComplete, WritePool, PoolWriteComplete, UndoPool, UndoDB, UndoRel, Finish,
            Goto, Loop
<1>1. pc' = pc \/ \E x : pc' = [pc EXCEPT ![p] = x]  OBVIOUS
<1>2. rem' = rem \/ \E x : rem' = [rem EXCEPT ![p] = x]  OBVIOUS
<1>3. upd' = upd \/ \E x : upd' = [upd EXCEPT ![p] = x]  OBVIOUS
<1>4. token' = token \/ \E x : token' = [token EXCEPT ![p] = x]  OBVIOUS
<1>5. \/ idx' = idx \/ \E x : idx' = [idx EXCEPT ![p] = x]
      \/ \E x, r : idx' = [idx EXCEPT ![p][r] = x]
  OBVIOUS
<1>6. idx' = idx \/ \E x : idx' = [idx EXCEPT ![p] = x]
  <2>1. ASSUME NEW x, NEW r, idx' = [idx EXCEPT ![p][r] = x]
        PROVE  \E g : idx' = [idx EXCEPT ![p] = g]
    <3>1. PICK g : g = [idx[p] EXCEPT ![r] = x]  OBVIOUS
    <3>2. idx' = [idx EXCEPT ![p] = g]  BY <2>1, <3>1, Zenon
    <3> QED  BY <3>2
  <2> QED  BY <1>5, <2>1
<1>7. /\ DOMAIN pc = Proc /\ DOMAIN rem = Proc /\ DOMAIN upd = Proc
      /\ DOMAIN token = Proc /\ DOMAIN idx = Proc
  BY DEF TypeInv, TypeOK
<1> QED  BY <1>1, <1>2, <1>3, <1>4, <1>6, <1>7 DEF Alone

LEMMA LoopIs ==
  ASSUME TypeInv, NEW p \in Proc, NEW a, NEW b, Loop(p, a, b)
  PROVE  \/ /\ pc'[p] = a /\ rem'[p] = rem[p] \ {reg(p)} /\ rem[p] \ {reg(p)} # {}
         \/ pc'[p] = b /\ rem'[p] = upd[p] /\ rem[p] \ {reg(p)} = {}
BY DEF Loop, TypeInv, TypeOK

LEMMA GotoIs ==
  ASSUME TypeInv, NEW p \in Proc, NEW l, Goto(p, l)
  PROVE  pc'[p] = l
BY DEF Goto, TypeInv, TypeOK

(* Where a step leaves its process in the regions it is not about. *)
LEMMA SpotGoto ==
  ASSUME TypeInv, NEW p \in Proc, NEW l, NEW m, pc[p] = l, pc'[p] = m, rem'[p] = rem[p],
         upd'[p] = upd[p], l # "dead", m # "dead", Ahead(m) = Ahead(l),
         Behind(m) = Behind(l) \/ rem[p] = upd[p], NEW r \in Region
  PROVE  IF r = reg(p) /\ r \in rem[p] THEN Spot(p, r)' = Here(m) ELSE Spot(p, r)' = Spot(p, r)
<1>1. rem[p] \subseteq upd[p]  BY DEF TypeInv, TypeOK
<1>2. reg(p)' = reg(p)  BY DEF reg
<1> QED  BY <1>1, <1>2 DEF Spot, Where

LEMMA SpotLoop ==
  ASSUME TypeInv, NEW p \in Proc, NEW l, NEW a, NEW b, pc[p] = l, Loop(p, a, b),
         upd'[p] = upd[p], l \notin {"idle", "dead"}, a # "dead", b # "dead",
         Behind(a) = Behind(l), Ahead(b) = Behind(l), Here(b) = Behind(l),
         Ahead(a) = Ahead(l), Here(a) = Ahead(l), NEW r \in Region
  PROVE  IF r = reg(p) THEN Spot(p, r)' = Behind(l) ELSE Spot(p, r)' = Spot(p, r)
<1>1. rem[p] \subseteq upd[p] /\ rem[p] # {}  BY DEF TypeInv, TypeOK, InLoop
<1>2. reg(p) \in rem[p]  BY <1>1, RegType
<1>3. CASE /\ pc'[p] = a /\ rem'[p] = rem[p] \ {reg(p)} /\ rem[p] \ {reg(p)} # {}
  BY <1>1, <1>2, <1>3 DEF Spot, Where
<1>4. CASE pc'[p] = b /\ rem'[p] = upd[p] /\ rem[p] \ {reg(p)} = {}
  BY <1>1, <1>2, <1>4 DEF Spot, Where
<1> QED  BY <1>3, <1>4, LoopIs

LEMMA SpotSame ==
  ASSUME NEW p, NEW r, pc'[p] = pc[p], upd'[p] = upd[p], rem'[p] = rem[p]
  PROVE  Spot(p, r)' = Spot(p, r)
BY DEF Spot, reg

-----------------------------------------------------------------------------
(* Tokens *)

LEMMA TokenFrame ==
  ASSUME TypeInv, TokenInv, NEW p \in Proc, Alone(p),
         \/ jnl_seqno' = jnl_seqno
         \/ pc[p] \in PoolCrit /\ jnl_seqno' = jnl_seqno + 1,
         \/ crit'[POOL] = crit[POOL]
         \/ crit'[POOL] \in {p, NoProc} /\ (crit[POOL] \notin Proc \ {p} \/ pc[crit[POOL]] = "dead"),
         Held(pc'[p], crit'[POOL], p), Token(pc'[p], token'[p], jnl_seqno'),
         Whole(pc'[p], upd'[p], rem'[p])
  PROVE  TokenInv'
<1>1. ASSUME NEW q \in Proc, q # p
      PROVE  /\ Held(pc'[q], crit'[POOL], q) /\ Token(pc'[q], token'[q], jnl_seqno')
             /\ Whole(pc'[q], upd'[q], rem'[q])
  <2>1. /\ pc'[q] = pc[q] /\ upd'[q] = upd[q] /\ rem'[q] = rem[q] /\ token'[q] = token[q]
    BY <1>1 DEF Alone
  <2>2. /\ Held(pc[q], crit[POOL], q) /\ Token(pc[q], token[q], jnl_seqno)
        /\ Whole(pc[q], upd[q], rem[q]) /\ Held(pc[p], crit[POOL], p)
    BY DEF TokenInv
  <2>3. token[q] \in Nat /\ jnl_seqno \in Nat  BY DEF TypeInv, TypeOK
  <2>4. Held(pc[q], crit'[POOL], q)
    <3>1. CASE crit'[POOL] = crit[POOL]  BY <2>2, <3>1
    <3>2. CASE crit'[POOL] \in {p, NoProc} /\ (crit[POOL] \notin Proc \ {p} \/ pc[crit[POOL]] = "dead")
      BY <1>1, <2>2, <3>2, RegionIs DEF Held, PoolCrit, CleaningUp
    <3> QED  BY <3>1, <3>2
  <2>5. Token(pc[q], token[q], jnl_seqno')
    <3>1. CASE jnl_seqno' = jnl_seqno  BY <2>2, <3>1
    <3>2. CASE pc[p] \in PoolCrit /\ jnl_seqno' = jnl_seqno + 1
      <4>1. pc[q] \notin PoolCrit  BY <1>1, <2>2, <3>2 DEF Held
      <4> QED  BY <2>2, <2>3, <3>2, <4>1 DEF Token, PoolCrit, Published, CleaningUp
    <3> QED  BY <3>1, <3>2
  <2> QED  BY <2>1, <2>2, <2>4, <2>5
<1> QED  BY <1>1 DEF TokenInv

(* Steps that leave the pool's mutex and the seqnos alone. *)
LEMMA TokenMoves ==
  ASSUME TypeInv, TokenInv, NEW p \in Proc, Alone(p), jnl_seqno' = jnl_seqno,
         crit'[POOL] = crit[POOL], token'[p] = token[p],
         Held(pc[p], crit[POOL], p) => Held(pc'[p], crit[POOL], p),
         Token(pc[p], token[p], jnl_seqno) => Token(pc'[p], token[p], jnl_seqno),
         Whole(pc[p], upd[p], rem[p]) => Whole(pc'[p], upd'[p], rem'[p])
  PROVE  TokenInv'
<1>1. /\ Held(pc[p], crit[POOL], p) /\ Token(pc[p], token[p], jnl_seqno)
      /\ Whole(pc[p], upd[p], rem[p])
  BY DEF TokenInv
<1> QED  BY <1>1, TokenFrame

(* The steps of a process that is in a loop over regions, or begins one. *)
LEMMA TokenLoops ==
  ASSUME TypeInv, TokenInv, NEW p \in Proc,
         \/ GrabCrit(p) \/ Recover(p) \/ RecoverWritten(p) \/ RecoverDone(p) \/ EarlyTn(p)
         \/ ReserveJnl(p) \/ PublishJnl(p) \/ UpdateUnderway(p) \/ SetRegSeqno(p)
         \/ IncrementCurrTn(p) \/ RelCrit(p) \/ Finish(p) \/ UndoDB(p) \/ WriteJnl(p)
         \/ JnlWriteComplete(p)
  PROVE  TokenInv'
<1>1. Alone(p)  BY AloneIs DEF Step
<1>2. jnl_seqno' = jnl_seqno /\ token' = token /\ upd' = upd
  BY DEF GrabCrit, Recover, RecoverWritten, RecoverDone, EarlyTn, ReserveJnl, PublishJnl, UpdateUnderway,
         SetRegSeqno, IncrementCurrTn, RelCrit, Finish, UndoDB, WriteJnl, JnlWriteComplete
<1>3. crit'[POOL] = crit[POOL]
  <2>1. pc[p] \notin {"idle", "dead"}
    BY DEF GrabCrit, Recover, RecoverWritten, RecoverDone, EarlyTn, ReserveJnl, PublishJnl, UpdateUnderway,
         SetRegSeqno, IncrementCurrTn, RelCrit, Finish, UndoDB, WriteJnl, JnlWriteComplete
  <2>2. reg(p) \in Region  BY <2>1, RegType DEF TypeInv, InLoop
  <2>3. crit' = crit \/ \E x : crit' = [crit EXCEPT ![reg(p)] = x]
    BY DEF GrabCrit, Recover, RecoverWritten, RecoverDone, EarlyTn, ReserveJnl, PublishJnl, UpdateUnderway,
         SetRegSeqno, IncrementCurrTn, RelCrit, Finish, UndoDB, WriteJnl, JnlWriteComplete
  <2>4. POOL \in DOMAIN crit  BY DEF TypeInv, TypeOK
  <2> QED  BY <2>2, <2>3, <2>4, RegionIs
<1>4. PICK l : l = pc[p]  OBVIOUS
<1>5. \/ /\ rem'[p] = rem[p]
         /\ \/ l = "cmt01" /\ pc'[p] = "recover"
            \/ l = "recover" /\ pc'[p] \in {"recover", "recoverb"}
            \/ l = "recoverb" /\ pc'[p] = "recoverc"
            \/ l = "cmt06" /\ pc'[p] \in {"cmt06", "cmt06b"}
            \/ l = "cmt08" /\ pc'[p] = "cmt09"
            \/ l = "cmt09" /\ pc'[p] = "cmt12"
            \/ l = "cmt12" /\ pc'[p] = "cmt14"
            \/ l = "cmt16" /\ pc'[p] = "cmt16c"
      \/ \E m, n : /\ Loop(p, m, n)
                   /\ \/ l \in {"cmt01", "recoverc"} /\ m = "cmt01" /\ n = "grabpool"
                      \/ l = "cmt04" /\ m = "cmt04" /\ n = "cmt06"
                      \/ l = "cmt06b" /\ m = "cmt06" /\ n = "cmt07"
                      \/ l = "cmt14" /\ m = "cmt08" /\ n = "cmt15"
                      \/ l = "finish" /\ m = "finish" /\ n = "cmt15"
                      \/ l = "undodb" /\ m = "undodb" /\ n = "undorel"
                      \/ l = "cmt16c" /\ m = "cmt16" /\ n = "cmt17"
  <2> USE <1>4
  <2>1. CASE GrabCrit(p)  BY <2>1, GotoIs DEF GrabCrit, AfterGrab
  <2>2. CASE Recover(p)  BY <2>2, GotoIs DEF Recover
  <2>6. CASE RecoverWritten(p)  BY <2>6, GotoIs DEF RecoverWritten
  <2>3. CASE ReserveJnl(p)
    <3>1. l = "cmt06" /\ rem' = rem /\ (pc' = pc \/ Goto(p, "cmt06b"))
      BY <2>3 DEF ReserveJnl
    <3>2. pc'[p] \in {"cmt06", "cmt06b"} /\ rem'[p] = rem[p]  BY <3>1, GotoIs
    <3> QED  BY <3>1, <3>2
  <2>4. CASE UpdateUnderway(p) \/ SetRegSeqno(p) \/ IncrementCurrTn(p) \/ WriteJnl(p)
    <3>1. CASE UpdateUnderway(p)
      <4>1. l = "cmt08" /\ rem' = rem /\ Goto(p, "cmt09")  BY <3>1 DEF UpdateUnderway
      <4> QED  BY <4>1, GotoIs
    <3>2. CASE SetRegSeqno(p)
      <4>1. l = "cmt09" /\ rem' = rem /\ Goto(p, "cmt12")  BY <3>2 DEF SetRegSeqno
      <4> QED  BY <4>1, GotoIs
    <3>3. CASE IncrementCurrTn(p)
      <4>1. l = "cmt12" /\ rem' = rem /\ Goto(p, "cmt14")  BY <3>3 DEF IncrementCurrTn
      <4> QED  BY <4>1, GotoIs
    <3>4. CASE WriteJnl(p)
      <4>1. l = "cmt16" /\ rem' = rem /\ Goto(p, "cmt16c")  BY <3>4 DEF WriteJnl
      <4> QED  BY <4>1, GotoIs
    <3> QED  BY <2>4, <3>1, <3>2, <3>3, <3>4
  <2>5. CASE \/ RecoverDone(p) \/ EarlyTn(p) \/ PublishJnl(p) \/ RelCrit(p) \/ Finish(p)
             \/ UndoDB(p) \/ JnlWriteComplete(p)
    BY <2>5 DEF RecoverDone, EarlyTn, PublishJnl, RelCrit, Finish, UndoDB, JnlWriteComplete
  <2> QED  BY <2>1, <2>2, <2>3, <2>4, <2>5, <2>6
<1> USE <1>4 DEF Held, Token, Whole, PoolCrit, Published, CleaningUp
<1>6. ASSUME /\ rem'[p] = rem[p]
             /\ \/ l = "cmt01" /\ pc'[p] = "recover"
                \/ l = "recover" /\ pc'[p] \in {"recover", "recoverb"}
                \/ l = "recoverb" /\ pc'[p] = "recoverc"
                \/ l = "cmt06" /\ pc'[p] \in {"cmt06", "cmt06b"}
                \/ l = "cmt08" /\ pc'[p] = "cmt09"
                \/ l = "cmt09" /\ pc'[p] = "cmt12"
                \/ l = "cmt12" /\ pc'[p] = "cmt14"
                \/ l = "cmt16" /\ pc'[p] = "cmt16c"
      PROVE  /\ Held(pc[p], crit[POOL], p) => Held(pc'[p], crit[POOL], p)
             /\ Token(pc[p], token[p], jnl_seqno) => Token(pc'[p], token[p], jnl_seqno)
             /\ Whole(pc[p], upd[p], rem[p]) => Whole(pc'[p], upd'[p], rem'[p])
  BY <1>2, <1>6
<1>7. ASSUME NEW m, NEW n, Loop(p, m, n),
             \/ l \in {"cmt01", "recoverc"} /\ m = "cmt01" /\ n = "grabpool"
             \/ l = "cmt04" /\ m = "cmt04" /\ n = "cmt06"
             \/ l = "cmt06b" /\ m = "cmt06" /\ n = "cmt07"
             \/ l = "cmt14" /\ m = "cmt08" /\ n = "cmt15"
             \/ l = "finish" /\ m = "finish" /\ n = "cmt15"
             \/ l = "undodb" /\ m = "undodb" /\ n = "undorel"
             \/ l = "cmt16c" /\ m = "cmt16" /\ n = "cmt17"
      PROVE  /\ Held(pc[p], crit[POOL], p) => Held(pc'[p], crit[POOL], p)
             /\ Token(pc[p], token[p], jnl_seqno) => Token(pc'[p], token[p], jnl_seqno)
             /\ Whole(pc[p], upd[p], rem[p]) => Whole(pc'[p], upd'[p], rem'[p])
  <2>1. pc'[p] = m \/ (pc'[p] = n /\ rem'[p] = upd[p])  BY <1>7, LoopIs
  <2> QED  BY <1>2, <1>7, <2>1
<1>8. /\ Held(pc[p], crit[POOL], p) => Held(pc'[p], crit[POOL], p)
      /\ Token(pc[p], token[p], jnl_seqno) => Token(pc'[p], token[p], jnl_seqno)
      /\ Whole(pc[p], upd[p], rem[p]) => Whole(pc'[p], upd'[p], rem'[p])
  BY <1>5, <1>6, <1>7
<1>9. token'[p] = token[p]  BY <1>2
<1> QED  BY <1>1, <1>2, <1>3, <1>8, <1>9, TokenMoves

(* The others *)
LEMMA TokenPool ==
  ASSUME TypeInv, TokenInv, NEW p \in Proc,
         \/ \E rs \in Updates : Begin(p, rs)
         \/ GrabLock(p) \/ ReservePool(p) \/ PublishPool(p) \/ SetJnlSeqno(p) \/ RelLock(p)
         \/ WritePool(p) \/ PoolWriteComplete(p) \/ UndoPool(p) \/ UndoRel(p) \/ Fail(p) \/ Kill(p)
  PROVE  TokenInv'
<1>1. Alone(p)  BY AloneIs DEF Step
<1>2. /\ Held(pc[p], crit[POOL], p) /\ Token(pc[p], token[p], jnl_seqno)
      /\ Whole(pc[p], upd[p], rem[p])
  BY DEF TokenInv
<1>3. /\ token \in [Proc -> Nat] /\ jnl_seqno \in Nat /\ pc \in [Proc -> PC]
      /\ crit \in [Region \cup {POOL} -> Proc \cup {NoProc}]
      /\ rem \in [Proc -> SUBSET Region] /\ upd \in [Proc -> SUBSET Region]
  BY DEF TypeInv, TypeOK
<1> USE DEF Held, Token, Whole, PoolCrit, Published, CleaningUp, Goto
<1>4. CASE \E rs \in Updates : Begin(p, rs)
  <2>1. /\ pc[p] = "idle" /\ pc'[p] = "cmt01" /\ jnl_seqno' = jnl_seqno /\ crit' = crit
        /\ token' = token
    BY <1>3, <1>4 DEF Begin
  <2> QED  BY <1>1, <1>2, <2>1, TokenFrame
<1>5. CASE GrabLock(p)
  <2>1. /\ pc[p] = "grabpool" /\ pc'[p] = "cmt03" /\ jnl_seqno' = jnl_seqno /\ crit'[POOL] = p
        /\ token'[p] = jnl_seqno /\ rem' = rem /\ upd' = upd
        /\ (crit[POOL] = NoProc \/ crit[POOL] \in Proc \ Alive)
    BY <1>3, <1>5 DEF GrabLock
  <2>2. crit[POOL] \notin Proc \ {p} \/ pc[crit[POOL]] = "dead"  BY <2>1, RegionIs DEF Alive
  <2> QED  BY <1>1, <1>2, <2>1, <2>2, TokenFrame
<1>6. CASE ReservePool(p)
  <2>1. /\ pc[p] = "cmt03" /\ pc'[p] \in {"cmt03", "cmt03b"} /\ jnl_seqno' = jnl_seqno
        /\ crit' = crit /\ token' = token /\ rem' = rem /\ upd' = upd
    BY <1>3, <1>6 DEF ReservePool
  <2> QED  BY <1>1, <1>2, <2>1, TokenFrame
<1>7. CASE PublishPool(p)
  <2>1. /\ pc[p] = "cmt03b" /\ pc'[p] = "cmt04" /\ jnl_seqno' = jnl_seqno
        /\ crit' = crit /\ token' = token /\ rem' = rem /\ upd' = upd
    BY <1>3, <1>7 DEF PublishPool
  <2> QED  BY <1>1, <1>2, <2>1, TokenFrame
<1>8. CASE SetJnlSeqno(p)
  <2>1. /\ pc[p] = "cmt07" /\ pc'[p] = "cmt08" /\ jnl_seqno' = token[p] + 1
        /\ crit' = crit /\ token' = token /\ rem' = rem /\ upd' = upd
    BY <1>3, <1>8 DEF SetJnlSeqno
  <2>2. token[p] \in Nat /\ jnl_seqno' = jnl_seqno + 1  BY <1>2, <1>3, <2>1
  <2> QED  BY <1>1, <1>2, <2>1, <2>2, TokenFrame
<1>9. CASE RelLock(p)
  <2>1. /\ pc[p] = "cmt15" /\ pc'[p] = "cmt16" /\ jnl_seqno' = jnl_seqno
        /\ crit'[POOL] = NoProc /\ token' = token /\ rem' = rem /\ upd' = upd
    BY <1>3, <1>9 DEF RelLock
  <2> QED  BY <1>1, <1>2, <2>1, TokenFrame, RegionIs
<1>10. CASE WritePool(p)
  <2>1. /\ pc[p] = "cmt17" /\ pc'[p] = "cmt17c" /\ jnl_seqno' = jnl_seqno
        /\ crit' = crit /\ token' = token /\ rem' = rem /\ upd' = upd
    BY <1>3, <1>10 DEF WritePool
  <2> QED  BY <1>1, <1>2, <2>1, TokenFrame
<1>11. CASE PoolWriteComplete(p)
  <2>1. pc[p] = "cmt17c" /\ pc'[p] = "idle" /\ jnl_seqno' = jnl_seqno /\ crit' = crit
    BY <1>3, <1>11 DEF PoolWriteComplete
  <2> QED  BY <1>1, <1>2, <2>1, TokenFrame
<1>12. CASE UndoPool(p)
  <2>1. /\ pc[p] = "undopool" /\ pc'[p] = "undodb" /\ jnl_seqno' = jnl_seqno
        /\ crit' = crit /\ token' = token /\ rem' = rem /\ upd' = upd
    BY <1>3, <1>12 DEF UndoPool
  <2> QED  BY <1>1, <1>2, <2>1, TokenFrame
<1>13. CASE UndoRel(p)
  <2>1. pc[p] = "undorel" /\ pc'[p] = "idle" /\ jnl_seqno' = jnl_seqno /\ crit'[POOL] = NoProc
    BY <1>3, <1>13 DEF UndoRel
  <2> QED  BY <1>1, <1>2, <2>1, TokenFrame, RegionIs
<1>14. CASE Fail(p)
  <2>1. /\ jnl_seqno' = jnl_seqno /\ crit' = crit /\ token' = token /\ upd' = upd
        /\ \/ /\ pc[p] \in {"cmt04", "cmt06", "cmt07"} /\ pc'[p] = "undopool"
              /\ rem'[p] = upd[p]
           \/ pc[p] = "cmt12" /\ pc'[p] = "finish"
    <3>1. /\ jnl_seqno' = jnl_seqno /\ crit' = crit /\ token' = token /\ upd' = upd
      BY <1>14 DEF Fail
    <3>2. \/ /\ pc[p] \in {"cmt04", "cmt06", "cmt07"} /\ Goto(p, "undopool")
             /\ rem' = [rem EXCEPT ![p] = upd[p]]
          \/ pc[p] = "cmt12" /\ Goto(p, "finish")
      BY <1>14, CommitAssumption DEF Fail
    <3> QED  BY <1>3, <3>1, <3>2, GotoIs
  <2> QED  BY <1>1, <1>2, <2>1, TokenFrame
<1>15. CASE Kill(p)
  <2>1. pc'[p] = "dead" /\ jnl_seqno' = jnl_seqno /\ crit' = crit  BY <1>3, <1>15 DEF Kill
  <2> QED  BY <1>1, <1>2, <2>1, TokenFrame
<1> QED  BY <1>4, <1>5, <1>6, <1>7, <1>8, <1>9, <1>10, <1>11, <1>12, <1>13, <1>14, <1>15

LEMMA TokenStep == TypeInv /\ TokenInv /\ [Next]_vars => TokenInv'
<1> SUFFICES ASSUME TypeInv, TokenInv, [Next]_vars  PROVE TokenInv'  OBVIOUS
<1>1. ASSUME NEW p \in Proc, (\E rs \in Updates : Begin(p, rs)) \/ Step(p) \/ Fail(p) \/ Kill(p)
      PROVE  TokenInv'
  BY <1>1, TokenLoops, TokenPool DEF Step
<1>2. CASE (\E r \in Region : JnlCleanup(r)) \/ SourceRead \/ UNCHANGED vars
  <2>1. pc' = pc /\ upd' = upd /\ rem' = rem /\ token' = token /\ crit' = crit
        /\ jnl_seqno' = jnl_seqno
    BY <1>2 DEF JnlCleanup, SourceRead, procvars, vars
  <2> QED  BY <2>1 DEF TokenInv
<1>3. CASE SourceSalvage
  <2>1. /\ pc' = pc /\ upd' = upd /\ rem' = rem /\ token' = token /\ jnl_seqno' = jnl_seqno
        /\ crit' = [crit EXCEPT ![POOL] = NoProc] /\ crit[POOL] \notin Alive
    BY <1>3 DEF SourceSalvage, procvars
  <2>2. crit'[POOL] = NoProc  BY <2>1 DEF TypeInv, TypeOK
  <2>3. \A q \in Proc : Held(pc[q], NoProc, q)
    BY <2>1, RegionIs DEF TokenInv, Held, Alive, PoolCrit, CleaningUp
  <2> QED  BY <2>1, <2>2, <2>3 DEF TokenInv
<1> QED  BY <1>1, <1>2, <1>3 DEF Next, Source

LEMMA TokenInit == Init => TokenInv
BY RegionIs DEF Init, TokenInv, Held, Token, Whole, PoolCrit, Published, CleaningUp

-----------------------------------------------------------------------------
(* What becomes of the regions when a log changes *)

(* The entries that q has not filled are as they were. *)
Spares(M, L, q) ==
  \A i \in InUse(L) : L.slot[i].process_id = q /\ ~L.slot[i].write_complete =>
    /\ i \in InUse(M) /\ Alike(M.slot[i], L.slot[i]) /\ ~M.slot[i].write_complete
    /\ Good(L.file, L.slot[i]) => Good(M.file, M.slot[i])

LEMMA EntrySpared ==
  ASSUME NEW L, NEW M, NEW q, NEW w, NEW t, NEW i, Entry(w, L, q, t, i), Spares(M, L, q)
  PROVE  Entry(w, M, q, t, i)
BY DEF Entry, Spares, Alike, Entries

LEMMA SparesTrans ==
  ASSUME NEW K, NEW L, NEW M, NEW q, Spares(L, K, q), Spares(M, L, q)
  PROVE  Spares(M, K, q)
BY DEF Spares, Alike

LEMMA SparesTidied ==
  ASSUME NEW L \in Log, NEW M, NEW C, Tidied(M, L, C), NEW D, Carried(M, L, D), NEW q,
         \A j \in C : L.slot[j].process_id # q
  PROVE  Spares(M, L, q)
<1> SUFFICES ASSUME NEW i \in InUse(L), L.slot[i].process_id = q, ~L.slot[i].write_complete
             PROVE  /\ i \in InUse(M) /\ Alike(M.slot[i], L.slot[i]) /\ ~M.slot[i].write_complete
                    /\ Good(L.file, L.slot[i]) => Good(M.file, M.slot[i])
  BY DEF Spares
<1>1. i \in Index /\ i \notin C  BY DEF InUse
<1>2. ~M.slot[i].write_complete /\ Alike(M.slot[i], L.slot[i])  BY <1>1 DEF Tidied
<1>3. i \in InUse(M)  BY <1>2 DEF Tidied
<1> QED  BY <1>2, <1>3 DEF Carried

(* The slots in use and the file are kept. *)
LEMMA SparesFrame ==
  ASSUME NEW L, NEW M, InUse(L) \subseteq InUse(M), M.file = L.file,
         \A i \in InUse(L) : M.slot[i] = L.slot[i], NEW q
  PROVE  Spares(M, L, q)
BY DEF Spares, Alike

LEMMA SparesWithdraw ==
  ASSUME NEW L \in Log, NEW M, M = Withdraw(L), Sound(L), L.index1 # L.index2, NEW q,
         Last(L).process_id # q
  PROVE  Spares(M, L, q)
<1>1. M.file = L.file /\ M.slot = L.slot  BY WithdrawIs
<1>2. InUse(M) = InUse(L) \ {DECR(L.index2)}  BY WithdrawChain DEF Sound
<1> QED  BY <1>1, <1>2 DEF Spares, Alike, Last

(* A header that agrees with the journal still does. *)
LEMMA CalmTidied ==
  ASSUME NEW L \in Log, NEW M, NEW C, Tidied(M, L, C), Carried(M, L, {}), NEW d
  PROVE  (Calm(L, d) => Calm(M, d)) /\ (Redo(L, d) => Redo(M, d))
<1>1. Base(L, d) => Base(M, d) /\ Alike(Last(M), Last(L))
  <2>1. Seqnos(M, {}) = Seqnos(L, {})  BY DEF Carried
  <2> QED  BY <2>1, LevelTidied DEF Base
<1> QED  BY <1>1 DEF Calm, Redo, Alike

LEMMA TakingTidied ==
  ASSUME NEW L \in Log, NEW M, NEW C, Tidied(M, L, C), Carried(M, L, {}), NEW d, NEW h,
         Taking(L, d, h), \A j \in C : L.slot[j].process_id # h,
         Good(L.file, L.slot[L.index2]) => Good(M.file, M.slot[L.index2])
  PROVE  Taking(M, d, h)
<1>1. PICK j : j = L.index2  OBVIOUS
<1>2. j \in Index /\ M.index2 = j /\ M \in Log  BY <1>1, LogFields DEF Tidied
<1>3. Alike(M.slot[j], L.slot[j]) /\ Alike(Last(M), Last(L))  BY <1>2, LevelTidied DEF Tidied
<1>4. ~M.slot[j].write_complete
  <2>1. j \notin C  BY <1>1 DEF Taking
  <2> QED  BY <1>1, <1>2, <2>1 DEF Tidied, Taking
<1>5. Follows(M.slot[j], Last(M))  BY <1>1, <1>3, FollowsAlike DEF Taking
<1>6. EndOf(M.slot[j]) = EndOf(L.slot[j])  BY <1>3, EndOfAlike
<1>7. ~Full(M)
  <2>1. ~Full(L)  BY DEF Taking
  <2>2. INCR(L.index2) \notin InUse(L)  BY <2>1, FullIs
  <2>3. INCR(M.index2) \notin InUse(M)  BY <2>2, <1>1, <1>2 DEF Tidied
  <2> QED  BY <2>3, <1>2, FullIs
<1>8. Seqnos(M, {}) = Seqnos(L, {})  BY DEF Carried
<1>9. M.rsrv = L.rsrv /\ M.last = L.last  BY DEF Tidied
<1>10. M.slot[j].in_phase2 \/ Good(M.file, M.slot[j])  BY <1>1, <1>3 DEF Taking, Alike
<1>11. Succeeds(Last(M), M.slot[j])  BY <1>1, <1>3, SucceedsAlike DEF Taking
<1> QED  BY <1>1, <1>2, <1>3, <1>4, <1>5, <1>6, <1>7, <1>8, <1>9, <1>10, <1>11 DEF Taking, Alike

LEMMA LoggedTidied ==
  ASSUME NEW L \in Log, NEW M, NEW C, Tidied(M, L, C), Carried(M, L, {DECR(L.index2)}), NEW d,
         NEW h, Logged(L, d, h), \A j \in C : L.slot[j].process_id # h
  PROVE  Logged(M, d, h) /\ Last(M).jnl_seqno = Last(L).jnl_seqno
<1>1. Alike(Last(M), Last(L)) /\ Level(M)  BY LevelTidied DEF Logged
<1>2. PICK j : j = DECR(L.index2)  OBVIOUS
<1>3. j \in InUse(L) /\ Last(L) = L.slot[j]  BY <1>2, InUseEnds DEF Logged, Last
<1>4. j \in Index /\ j \notin C  BY <1>3 DEF Logged, InUse
<1>5. Last(M) = M.slot[j]  BY <1>2 DEF Last, Tidied
<1>6. ~M.slot[j].write_complete  BY <1>3, <1>4 DEF Tidied, Logged
<1>7. j \in InUse(M)  BY <1>3, <1>6 DEF Tidied
<1>8. M.index1 # M.index2
  <2>1. M \in Log  BY DEF Tidied
  <2> QED  BY <2>1, <1>7, InUseEnds
<1>9. Seqnos(M, {j}) = Seqnos(L, {j})  BY <1>2 DEF Carried
<1>10. M.index2 = L.index2  BY DEF Tidied
<1> QED  BY <1>1, <1>2, <1>5, <1>6, <1>8, <1>9, <1>10 DEF Logged, Alike

(* M is L after somebody who is not in crit was at work in it. *)
Worked(M, L, C) ==
  /\ Tidied(M, L, C) /\ Carried(M, L, {})
  /\ \A i \in InUse(L) : ~L.slot[i].write_complete /\ i \notin C => Carried(M, L, {i})
  /\ Follows(L.slot[L.index2], Last(L)) /\ Good(L.file, L.slot[L.index2])
       => Good(M.file, M.slot[L.index2])

LEMMA StandsWorked ==
  ASSUME NEW L \in Log, NEW M, NEW C, Worked(M, L, C), NEW w, NEW d, NEW h, NEW t, NEW i, NEW s,
         Stands(w, L, d, h, t, i, s), \A j \in C : L.slot[j].process_id # h
  PROVE  Stands(w, M, d, h, t, i, s)
<1>1. (Calm(L, d) => Calm(M, d)) /\ (Redo(L, d) => Redo(M, d))  BY CalmTidied DEF Worked
<1>9. Near(L, d) => Near(M, d)  BY <1>1 DEF Near
<1>2. Rest(L, d) => Rest(M, d)  BY <1>1 DEF Rest
<1>3. Early(L, d) => Early(M, d)  BY <1>1 DEF Early
<1>0. Taking(L, d, h) => Follows(L.slot[L.index2], Last(L))  BY DEF Taking
<1>4. Taking(L, d, h) => Taking(M, d, h)  BY <1>0, TakingTidied DEF Worked
<1>5. ASSUME Logged(L, d, h)  PROVE Logged(M, d, h) /\ Last(M).jnl_seqno = Last(L).jnl_seqno
  <2>1. PICK j : j = DECR(L.index2)  OBVIOUS
  <2>2. j \in InUse(L) /\ Last(L) = L.slot[j]  BY <1>5, <2>1, InUseEnds DEF Logged, Last
  <2>3. j \notin C /\ ~L.slot[j].write_complete  BY <1>5, <2>2 DEF Logged
  <2>4. Carried(M, L, {DECR(L.index2)})  BY <2>1, <2>2, <2>3 DEF Worked
  <2> QED  BY <1>5, <2>4, LoggedTidied DEF Worked
<1>6. M.index2 = L.index2 /\ Alike(M.slot[L.index2], L.slot[L.index2])
  BY LogFields DEF Worked, Tidied
<1>7. w = "recoverb" => /\ i = M.index2 /\ M.slot[i].jnl_seqno = 0 /\ Good(M.file, M.slot[i])
                        /\ ~M.slot[i].in_phase2
  BY <1>0, <1>6 DEF Worked, Stands, Alike
<1>8. w = "taking" => i = M.index2 /\ M.slot[i].jnl_seqno = t /\ M.slot[i].in_phase2
  BY <1>6 DEF Stands, Alike
<1> QED  BY <1>1, <1>2, <1>3, <1>4, <1>5, <1>7, <1>8, <1>9 DEF Stands

LEMMA CleanupWorked ==
  ASSUME NEW L \in Log, Sound(L), NEW p, NEW alive, NEW M, M = Cleanup(L, p, FALSE, alive)
  PROVE  Worked(M, L, {})
<1>1. M = HandOver(L)  BY DEF Cleanup
<1>2. Tidied(M, L, {}) /\ M.file = L.file /\ M.slot = L.slot  BY <1>1, HandOverIs DEF Sound
<1>3. Carried(M, L, {})  BY <1>1, HandOverSound
<1>4. ASSUME NEW i \in InUse(L), ~L.slot[i].write_complete  PROVE Carried(M, L, {i})
  <2>1. PICK D : D = {i}  OBVIOUS
  <2>2. \A j \in D : ~L.slot[j].write_complete  BY <1>4, <2>1
  <2>3. Carried(M, L, D)  BY <1>1, <2>2, HandOverSound
  <2> QED  BY <2>1, <2>3
<1> QED  BY <1>2, <1>3, <1>4 DEF Worked

LEMMA WriteCompleteWorked ==
  ASSUME NEW L \in Log, Sound(L), NEW i \in InUse(L), Good(L.file, L.slot[i]), NEW p, NEW alive,
         NEW M, M = WriteComplete(L, i, p, FALSE, alive)
  PROVE  Worked(M, L, {i})
<1>0. i \in Index  BY DEF InUse
<1>1. PICK K : K = Done(L, i)  OBVIOUS
<1>2. K \in Log /\ K.file = L.file /\ \A j \in Index : Alike(K.slot[j], L.slot[j])
  BY <1>0, <1>1, MarkedIs
<1>3. M.file = L.file
  <2>1. CASE i \in {0, N \div 2}
    <3>1. M = HandOver(K)  BY <1>1, <2>1 DEF WriteComplete, Done, Cleanup
    <3> QED  BY <1>2, <3>1, HandOverIs
  <2>2. CASE i \notin {0, N \div 2}
    <3>1. M = K  BY <1>1, <2>2 DEF WriteComplete, Done
    <3> QED  BY <1>2, <3>1
  <2> QED  BY <2>1, <2>2
<1>4. Tidied(M, L, {i})  BY <1>0, WriteCompleteAlone DEF Sound
<1>5. Good(L.file, L.slot[L.index2]) => Good(M.file, M.slot[L.index2])
  <2>1. Alike(M.slot[L.index2], L.slot[L.index2])  BY <1>4, LogFields DEF Tidied
  <2> QED  BY <1>3, <2>1, GoodAlike
<1>6. PICK c : c = FALSE  OBVIOUS
<1>7. M = WriteComplete(L, i, p, c, alive)  BY <1>6
<1>8. ASSUME NEW D, D \subseteq InUse(L), i \notin D, \A j \in D : ~L.slot[j].write_complete
      PROVE  Carried(M, L, D)
  BY <1>6, <1>7, <1>8, WriteCompleteSound
<1>9. Carried(M, L, {})
  <2>1. PICK D : D = {}  OBVIOUS
  <2>2. D \subseteq InUse(L) /\ i \notin D /\ \A j \in D : ~L.slot[j].write_complete  BY <2>1
  <2>3. Carried(M, L, D)  BY <1>8, <2>2
  <2> QED  BY <2>1, <2>3
<1>10. ASSUME NEW k \in InUse(L), ~L.slot[k].write_complete, k \notin {i}  PROVE Carried(M, L, {k})
  <2>1. PICK D : D = {k}  OBVIOUS
  <2>2. D \subseteq InUse(L) /\ i \notin D /\ \A j \in D : ~L.slot[j].write_complete
    BY <1>10, <2>1
  <2>3. Carried(M, L, D)  BY <1>8, <2>2
  <2> QED  BY <2>1, <2>3
<1> QED  BY <1>4, <1>5, <1>9, <1>10 DEF Worked

(* The record of slot i cannot hit the slot at index2: that one starts where  *)
(* the newest ends, if it is being taken.                                    *)
LEMMA StoreWorked ==
  ASSUME NEW L \in Log, Sound(L), NEW i \in InUse(L), NEW rec \in Record,
         rec.tn = L.slot[i].curr_tn, rec.jnl_seqno = L.slot[i].jnl_seqno, NEW M \in Log,
         M.free = L.free, M.index1 = L.index1, M.index2 = L.index2, M.slot = L.slot,
         M.rsrv = L.rsrv, M.last = L.last,
         M.file = Store(L.file, L.slot[i].start, rec)
  PROVE  Worked(M, L, {}) /\ Good(M.file, M.slot[i])
<1>1. (\A D : Carried(M, L, D)) /\ Good(M.file, M.slot[i])  BY StoreSound
<1>2. Tidied(M, L, {})
  <2>1. InUse(M) = InUse(L)  BY InUseFrame
  <2> QED  BY <2>1 DEF Tidied, Alike
<1>3. ASSUME Follows(L.slot[L.index2], Last(L)), Good(L.file, L.slot[L.index2])
      PROVE  Good(M.file, L.slot[L.index2])
  <2>1. PICK a, b, f, g : /\ a = L.slot[i].start /\ f = L.file /\ g = M.file
                          /\ b = L.slot[L.index2].start
    OBVIOUS
  <2>2. a \in Nat /\ f \in Seq(Record) /\ Len(f) \in Nat /\ b \in Nat
    BY <2>1, LogFields, SlotFields DEF InUse
  <2>3. a < b
    <3>1. PICK k \in 0 .. Used(L) - 1 : i = At(L, k)  BY LogFields, InUseAt
    <3>2. a = L.free + k /\ b = L.free + Used(L)  BY <1>3, <2>1, <3>1, Ages DEF Sound, Follows
    <3>3. Used(L) \in 0 .. N - 1 /\ N \in Nat /\ L.free \in Nat
      BY LogFields, UsedIs, LogAssumption
    <3> QED  BY <3>1, <3>2, <3>3
  <2>4. /\ Len(g) = IF a < Len(f) THEN Len(f) ELSE a + 1
        /\ \A k \in 1 .. Len(g) :
             g[k] = IF k = a + 1 THEN rec ELSE IF k <= Len(f) THEN f[k] ELSE Garbage
    <3>1. Stored(g, f, a, rec)  BY <2>1, <2>2, StoreStores
    <3> QED  BY <3>1 DEF Stored
  <2>5. b < Len(f)  BY <1>3, <2>1 DEF Good
  <2>6. b < Len(g) /\ b + 1 \in 1 .. Len(g) /\ b + 1 # a + 1 /\ b + 1 <= Len(f)
    BY <2>2, <2>3, <2>4, <2>5
  <2>7. g[b + 1] = f[b + 1]  BY <2>4, <2>6
  <2> QED  BY <1>3, <2>1, <2>6, <2>7 DEF Good
<1> QED  BY <1>1, <1>2, <1>3 DEF Worked

-----------------------------------------------------------------------------
(* Processes and regions *)

LEMMA SpotsOf ==
  ASSUME NEW p, NEW q, NEW r, Alone(p), q \in Proc, q # p
  PROVE  Spot(q, r)' = Spot(q, r)
BY DEF Alone, Spot, reg

LEMMA DeadSpot ==
  ASSUME NEW q, NEW r
  PROVE  pc[q] = "dead" <=> Spot(q, r) = "dead"
BY DEF Spot, Where, Behind, Ahead, Here

(* Only p moves, and only what it says of region x changes. *)
Elsewhere(p, x) ==
  \A r \in Region : r # x => /\ jb'[r] = jb[r] /\ db'[r] = db[r] /\ crit'[r] = crit[r]
                             /\ Spot(p, r)' = Spot(p, r) /\ idx'[p][r] = idx[p][r]

LEMMA ElsewhereIs ==
  ASSUME JnlInv, NEW p \in Proc, Alone(p), NEW x \in Region, Elsewhere(p, x),
         token'[p] = token[p], jnl_seqno' = jnl_seqno, NEW r \in Region, r # x
  PROVE  RegionInv(r)' /\ \A q \in Proc : PlaceInv(q, r)'
<1>1. jb'[r] = jb[r] /\ db'[r] = db[r] /\ crit'[r] = crit[r]  BY DEF Elsewhere
<1>2. RegionInv(r) /\ \A q \in Proc : PlaceInv(q, r)  BY DEF JnlInv
<1>3. ASSUME NEW q \in Proc  PROVE PlaceInv(q, r)'
  <2>1. Spot(q, r)' = Spot(q, r) /\ token'[q] = token[q] /\ idx'[q][r] = idx[q][r]
    <3>1. CASE q = p  BY <3>1 DEF Elsewhere
    <3>2. CASE q # p  BY <3>2, SpotsOf DEF Alone
    <3> QED  BY <3>1, <3>2
  <2>2. PICK w : w = Spot(q, r)  OBVIOUS
  <2>3. w = Spot(q, r)'  BY <2>1, <2>2
  <2> QED  BY <1>1, <1>2, <2>1, <2>2, <2>3 DEF PlaceInv
<1> QED  BY <1>1, <1>2, <1>3 DEF RegionInv

(* A step of p in crit of x, or into it, or out of it. *)
LEMMA JnlOwner ==
  ASSUME JnlInv, NEW p \in Proc, Alone(p), NEW x \in Region, Elsewhere(p, x),
         token'[p] = token[p], jnl_seqno' = jnl_seqno,
         crit[x] \notin Proc \ {p} \/ pc[crit[x]] = "dead", crit'[x] \in {p, NoProc},
         Sound(jb'[x]), db'[x].reg_seqno <= jnl_seqno, NEW w, Spot(p, x)' = w,
         crit'[x] = p => /\ w \in Inside
                         /\ Stands(w, jb'[x], db'[x], p, token[p], idx'[p][x], jnl_seqno),
         crit'[x] = NoProc => w \notin Inside /\ Rest(jb'[x], db'[x]),
         Entry(w, jb'[x], p, token[p], idx'[p][x]),
         \A q \in Proc : q # p /\ pc[q] # "dead" => Spares(jb'[x], jb[x], q)
  PROVE  JnlInv'
<1>1. \A r \in Region : r # x => RegionInv(r)' /\ \A q \in Proc : PlaceInv(q, r)'
  BY ElsewhereIs
<1>2. RegionInv(x)'  BY DEF RegionInv
<1>3. PlaceInv(p, x)'
  <2>1. Owns(w, crit'[x], p)  BY RegionIs DEF Owns
  <2> QED  BY <2>1, RegionIs DEF PlaceInv
<1>4. ASSUME NEW q \in Proc, q # p  PROVE PlaceInv(q, x)'
  <2>1. PICK v : v = Spot(q, x)  OBVIOUS
  <2>2. Spot(q, x)' = v /\ token'[q] = token[q] /\ idx'[q][x] = idx[q][x]
    <3>1. Spot(q, x)' = Spot(q, x)  BY <1>4, SpotsOf
    <3> QED  BY <1>4, <2>1, <3>1 DEF Alone
  <2>3. Owns(v, crit[x], q) /\ Entry(v, jb[x], q, token[q], idx[q][x])
    BY <2>1 DEF JnlInv, PlaceInv
  <2>4. v = "dead" <=> pc[q] = "dead"  BY <2>1, DeadSpot
  <2>5. crit'[x] # q  BY <1>4, RegionIs
  <2>6. v \notin Inside
    <3> SUFFICES ASSUME v \in Inside  PROVE FALSE  OBVIOUS
    <3>1. crit[x] = q  BY <2>3 DEF Owns
    <3>2. pc[q] = "dead"  BY <1>4, <3>1
    <3> QED  BY <2>4, <3>2 DEF Inside
  <2>7. Entry(v, jb'[x], q, token[q], idx[q][x])
    <3>1. CASE pc[q] = "dead"  BY <2>4, <3>1 DEF Entry, Entries
    <3>2. CASE pc[q] # "dead"  BY <1>4, <2>3, <3>2, EntrySpared
    <3> QED  BY <3>1, <3>2
  <2>8. Owns(v, crit'[x], q)  BY <2>5, <2>6 DEF Owns
  <2> QED  BY <2>2, <2>5, <2>7, <2>8 DEF PlaceInv
<1> QED  BY <1>1, <1>2, <1>3, <1>4 DEF JnlInv

(* A step of p out of crit, in the journal of x. *)
LEMMA JnlOutside ==
  ASSUME TypeInv, JnlInv, NEW p \in Proc, Alone(p), NEW x \in Region, Elsewhere(p, x),
         token'[p] = token[p], jnl_seqno' = jnl_seqno,
         crit' = crit, db' = db, crit[x] # p, NEW C, Worked(jb'[x], jb[x], C),
         \A j \in C : jb[x].slot[j].process_id = p,
         NEW w, Spot(p, x)' = w, w \notin Inside, Entry(w, jb'[x], p, token[p], idx'[p][x])
  PROVE  JnlInv'
<1>1. \A r \in Region : r # x => RegionInv(r)' /\ \A q \in Proc : PlaceInv(q, r)'
  BY ElsewhereIs
<1>2. jb[x] \in Log  BY DEF TypeInv, TypeOK
<1>3. RegionInv(x) /\ \A q \in Proc : PlaceInv(q, x)  BY DEF JnlInv
<1>4. RegionInv(x)'
  <2>1. Rest(jb[x], db[x]) => Rest(jb'[x], db[x])  BY <1>2, CalmTidied DEF Rest, Worked
  <2>2. Sound(jb'[x])  BY DEF Worked, Carried
  <2> QED  BY <1>3, <2>1, <2>2 DEF RegionInv
<1>5. PlaceInv(p, x)'
  <2>1. Owns(w, crit[x], p)  BY DEF Owns
  <2> QED  BY <2>1 DEF PlaceInv
<1>6. ASSUME NEW q \in Proc, q # p  PROVE PlaceInv(q, x)'
  <2>1. PICK v : v = Spot(q, x)  OBVIOUS
  <2>2. Spot(q, x)' = v /\ token'[q] = token[q] /\ idx'[q][x] = idx[q][x]
    <3>1. Spot(q, x)' = Spot(q, x)  BY <1>6, SpotsOf
    <3> QED  BY <1>6, <2>1, <3>1 DEF Alone
  <2>3. \A j \in C : jb[x].slot[j].process_id # q  BY <1>6
  <2>4. /\ Owns(v, crit[x], q) /\ Entry(v, jb[x], q, token[q], idx[q][x])
        /\ crit[x] = q => Stands(v, jb[x], db[x], q, token[q], idx[q][x], jnl_seqno)
    BY <1>3, <2>1 DEF PlaceInv
  <2>5. Entry(v, jb'[x], q, token[q], idx[q][x])
    BY <1>2, <2>3, <2>4, SparesTidied, EntrySpared DEF Worked
  <2>6. crit[x] = q => Stands(v, jb'[x], db[x], q, token[q], idx[q][x], jnl_seqno)
    BY <1>2, <2>3, <2>4, StandsWorked
  <2> QED  BY <2>2, <2>4, <2>5, <2>6 DEF PlaceInv
<1> QED  BY <1>1, <1>4, <1>5, <1>6 DEF JnlInv

(* A step of p that leaves the regions alone. *)
LEMMA StandsLater ==
  ASSUME NEW L \in Log, NEW s \in Nat, NEW u \in Nat, s <= u, NEW w, NEW d, NEW h, NEW t, NEW i,
         Stands(w, L, d, h, t, i, s)
  PROVE  Stands(w, L, d, h, t, i, u)
<1>1. Last(L).jnl_seqno \in Nat  BY LastType, SlotFields
<1>2. Last(L).jnl_seqno < s => Last(L).jnl_seqno < u  BY <1>1
<1> QED  BY <1>2 DEF Stands

LEMMA JnlQuiet ==
  ASSUME TypeInv, JnlInv, NEW p \in Proc, Alone(p), jb' = jb, db' = db,
         \A r \in Region : crit'[r] = crit[r], jnl_seqno' \in Nat, jnl_seqno <= jnl_seqno',
         \A r \in Region : PlaceInv(p, r)'
  PROVE  JnlInv'
<1>1. ASSUME NEW r \in Region  PROVE RegionInv(r)'
  <2>1. RegionInv(r) /\ db[r].reg_seqno \in Nat /\ jnl_seqno \in Nat
    BY DEF JnlInv, TypeInv, TypeOK, DB
  <2>2. db[r].reg_seqno <= jnl_seqno'  BY <2>1 DEF RegionInv
  <2> QED  BY <2>1, <2>2 DEF RegionInv
<1>2. ASSUME NEW r \in Region, NEW q \in Proc, q # p  PROVE PlaceInv(q, r)'
  <2>1. PICK v : v = Spot(q, r)  OBVIOUS
  <2>2. Spot(q, r)' = v /\ token'[q] = token[q] /\ idx'[q][r] = idx[q][r]
    <3>1. Spot(q, r)' = Spot(q, r)  BY <1>2, SpotsOf
    <3> QED  BY <1>2, <2>1, <3>1 DEF Alone
  <2>3. /\ Owns(v, crit[r], q) /\ Entry(v, jb[r], q, token[q], idx[q][r])
        /\ crit[r] = q => Stands(v, jb[r], db[r], q, token[q], idx[q][r], jnl_seqno)
    BY <2>1 DEF JnlInv, PlaceInv
  <2>4. jb[r] \in Log /\ jnl_seqno \in Nat  BY DEF TypeInv, TypeOK
  <2>5. crit[r] = q => Stands(v, jb[r], db[r], q, token[q], idx[q][r], jnl_seqno')
    BY <2>3, <2>4, StandsLater
  <2> QED  BY <2>2, <2>3, <2>5 DEF PlaceInv
<1> QED  BY <1>1, <1>2 DEF JnlInv

(* ... and p where it was in them ... *)
LEMMA PlaceKept ==
  ASSUME TypeInv, JnlInv, NEW p \in Proc, NEW r \in Region, jb' = jb, db' = db,
         crit'[r] = crit[r], jnl_seqno' \in Nat, jnl_seqno <= jnl_seqno',
         Spot(p, r)' = Spot(p, r),
         \/ token'[p] = token[p] /\ idx'[p][r] = idx[p][r]
         \/ Spot(p, r) \in {"rest", "out"}
  PROVE  PlaceInv(p, r)'
<1>1. PICK v : v = Spot(p, r)  OBVIOUS
<1>2. /\ Owns(v, crit[r], p) /\ Entry(v, jb[r], p, token[p], idx[p][r])
      /\ crit[r] = p => Stands(v, jb[r], db[r], p, token[p], idx[p][r], jnl_seqno)
  BY <1>1 DEF JnlInv, PlaceInv
<1>3. jb[r] \in Log /\ jnl_seqno \in Nat  BY DEF TypeInv, TypeOK
<1>4. Entry(v, jb[r], p, token'[p], idx'[p][r])
  <2>1. CASE token'[p] = token[p] /\ idx'[p][r] = idx[p][r]  BY <1>2, <2>1
  <2>2. CASE Spot(p, r) \in {"rest", "out"}  BY <1>1, <2>2 DEF Entry, Entries
  <2> QED  BY <2>1, <2>2
<1>5. crit[r] = p => Stands(v, jb[r], db[r], p, token'[p], idx'[p][r], jnl_seqno')
  <2>1. CASE token'[p] = token[p] /\ idx'[p][r] = idx[p][r]  BY <1>2, <1>3, <2>1, StandsLater
  <2>2. CASE Spot(p, r) \in {"rest", "out"}  BY <1>1, <1>2, <2>2 DEF Stands
  <2> QED  BY <2>1, <2>2
<1>6. Spot(p, r)' = v  BY <1>1
<1> QED  BY <1>2, <1>4, <1>5, <1>6 DEF PlaceInv

(* ... or dead. *)
LEMMA StandsDead ==
  ASSUME NEW w, NEW L, NEW d, NEW h, NEW t, NEW i, NEW s, Stands(w, L, d, h, t, i, s),
         w \in Inside, w \in {"underway", "numbered", "finish"} => t < s
  PROVE  Stands("dead", L, d, h, t, i, s)
<1>1. Rest(L, d) => Near(L, d) /\ d.early_tn \in {d.curr_tn, d.curr_tn + 1}  BY DEF Rest, Near
<1>2. Early(L, d) => Near(L, d) /\ d.early_tn \in {d.curr_tn, d.curr_tn + 1}  BY DEF Early, Near
<1>3. Redo(L, d) => Near(L, d)  BY DEF Near
<1> QED  BY <1>1, <1>2, <1>3 DEF Stands, Inside

(* The places from which a process has passed CMT07. *)
LEMMA PastSeqno ==
  ASSUME NEW p, NEW r, Spot(p, r) \in {"underway", "numbered", "finish"}
  PROVE  pc[p] \in {"cmt09", "cmt12", "finish"}
BY DEF Spot, Where, Behind, Ahead, Here

LEMMA JnlPool ==
  ASSUME TypeInv, TypeInv', TokenInv, JnlInv, NEW p \in Proc,
         \/ \E rs \in Updates : Begin(p, rs)
         \/ GrabLock(p) \/ ReservePool(p) \/ PublishPool(p) \/ SetJnlSeqno(p) \/ RelLock(p)
         \/ WritePool(p) \/ PoolWriteComplete(p) \/ UndoPool(p) \/ UndoRel(p)
  PROVE  JnlInv'
<1>1. Alone(p)  BY AloneIs DEF Step
<1>2. jb' = jb /\ db' = db
  BY DEF Begin, GrabLock, ReservePool, PublishPool, SetJnlSeqno, RelLock, WritePool,
         PoolWriteComplete, UndoPool, UndoRel
<1>3. \A r \in Region : crit'[r] = crit[r]
  <2>1. crit' = crit \/ \E y : crit' = [crit EXCEPT ![POOL] = y]
    BY DEF Begin, GrabLock, ReservePool, PublishPool, SetJnlSeqno, RelLock, WritePool,
           PoolWriteComplete, UndoPool, UndoRel
  <2>2. crit \in [Region \cup {POOL} -> Proc \cup {NoProc}]  BY DEF TypeInv, TypeOK
  <2> QED  BY <2>1, <2>2, RegionIs
<1>4. jnl_seqno' \in Nat /\ jnl_seqno <= jnl_seqno'
  <2>1. jnl_seqno \in Nat /\ jnl_seqno' \in Nat  BY DEF TypeInv, TypeOK
  <2>2. jnl_seqno' = jnl_seqno \/ (pc[p] = "cmt07" /\ jnl_seqno' = token[p] + 1)
    BY DEF Begin, GrabLock, ReservePool, PublishPool, SetJnlSeqno, RelLock, WritePool,
           PoolWriteComplete, UndoPool, UndoRel
  <2>3. pc[p] = "cmt07" => token[p] = jnl_seqno  BY DEF TokenInv, Token, Published
  <2> QED  BY <2>1, <2>2, <2>3
<1>5. Whole(pc[p], upd[p], rem[p]) /\ rem[p] \subseteq upd[p]  BY DEF TokenInv, TypeInv, TypeOK
<1>6. /\ pc \in [Proc -> PC] /\ upd \in [Proc -> SUBSET Region] /\ rem \in [Proc -> SUBSET Region]
      /\ token \in [Proc -> Nat] /\ idx \in [Proc -> [Region \cup {POOL} -> Index]]
  BY DEF TypeInv, TypeOK
<1>7. ASSUME NEW r \in Region
      PROVE  /\ Spot(p, r)' = Spot(p, r)
             /\ \/ token'[p] = token[p] /\ idx'[p][r] = idx[p][r]
                \/ Spot(p, r) \in {"rest", "out"}
  <2> USE DEF Spot, Where, Behind, Ahead, Here
  <2>1. CASE \E rs \in Updates : Begin(p, rs)
    <3>1. /\ pc[p] = "idle" /\ pc'[p] = "cmt01" /\ upd'[p] = rem'[p] /\ token' = token /\ idx' = idx
      BY <1>6, <2>1 DEF Begin, Goto
    <3> QED  BY <3>1
  <2>2. CASE GrabLock(p)
    <3>1. /\ pc[p] = "grabpool" /\ pc'[p] = "cmt03" /\ upd' = upd /\ rem' = rem
      BY <1>6, <2>2 DEF GrabLock, Goto
    <3>2. rem[p] = upd[p]  BY <1>5, <3>1 DEF Whole
    <3>3. reg(p)' = reg(p)  BY <3>1 DEF reg
    <3> QED  BY <3>1, <3>2, <3>3
  <2>3. CASE ReservePool(p)
    <3>1. /\ pc[p] = "cmt03" /\ pc'[p] \in {"cmt03", "cmt03b"} /\ upd' = upd /\ rem' = rem
      BY <1>6, <2>3 DEF ReservePool, Goto
    <3>2. rem[p] = upd[p]  BY <1>5, <3>1 DEF Whole
    <3>3. reg(p)' = reg(p)  BY <3>1 DEF reg
    <3> QED  BY <3>1, <3>2, <3>3
  <2>4. CASE PublishPool(p)
    <3>1. /\ pc[p] = "cmt03b" /\ pc'[p] = "cmt04" /\ upd' = upd /\ rem' = rem
      BY <1>6, <2>4 DEF PublishPool, Goto
    <3>2. rem[p] = upd[p]  BY <1>5, <3>1 DEF Whole
    <3>3. reg(p)' = reg(p)  BY <3>1 DEF reg
    <3> QED  BY <3>1, <3>2, <3>3
  <2>5. CASE SetJnlSeqno(p)
    <3>1. /\ pc[p] = "cmt07" /\ pc'[p] = "cmt08" /\ upd' = upd /\ rem' = rem
          /\ token' = token /\ idx' = idx
      BY <1>6, <2>5 DEF SetJnlSeqno, Goto
    <3>2. rem[p] = upd[p]  BY <1>5, <3>1 DEF Whole
    <3>3. reg(p)' = reg(p)  BY <3>1 DEF reg
    <3> QED  BY <3>1, <3>2, <3>3
  <2>6. CASE RelLock(p)
    <3>1. /\ pc[p] = "cmt15" /\ pc'[p] = "cmt16" /\ upd' = upd /\ rem' = rem
          /\ token' = token /\ idx' = idx
      BY <1>6, <2>6 DEF RelLock, Goto
    <3>2. reg(p)' = reg(p)  BY <3>1 DEF reg
    <3> QED  BY <3>1, <3>2
  <2>7. CASE WritePool(p)
    <3>1. pc[p] = "cmt17" /\ pc'[p] = "cmt17c"  BY <1>6, <2>7 DEF WritePool, Goto
    <3> QED  BY <3>1
  <2>8. CASE PoolWriteComplete(p)
    <3>1. pc[p] = "cmt17c" /\ pc'[p] = "idle"  BY <1>6, <2>8 DEF PoolWriteComplete
    <3> QED  BY <3>1
  <2>9. CASE UndoPool(p)
    <3>1. /\ pc[p] = "undopool" /\ pc'[p] = "undodb" /\ upd' = upd /\ rem' = rem
          /\ token' = token /\ idx' = idx
      BY <1>6, <2>9 DEF UndoPool, Goto
    <3>2. rem[p] = upd[p]  BY <1>5, <3>1 DEF Whole
    <3>3. reg(p)' = reg(p)  BY <3>1 DEF reg
    <3> QED  BY <3>1, <3>2, <3>3
  <2>10. CASE UndoRel(p)
    <3>1. pc[p] = "undorel" /\ pc'[p] = "idle"  BY <1>6, <2>10 DEF UndoRel
    <3> QED  BY <3>1
  <2> QED  BY <2>1, <2>2, <2>3, <2>4, <2>5, <2>6, <2>7, <2>8, <2>9, <2>10
<1>8. \A r \in Region : PlaceInv(p, r)'  BY <1>2, <1>3, <1>4, <1>7, PlaceKept
<1> QED  BY <1>1, <1>2, <1>3, <1>4, <1>8, JnlQuiet

LEMMA JnlKill ==
  ASSUME TypeInv, TokenInv, JnlInv, NEW p \in Proc, Kill(p)
  PROVE  JnlInv'
<1>1. Alone(p)  BY AloneIs
<1>2. jb' = jb /\ db' = db /\ crit' = crit /\ jnl_seqno' = jnl_seqno /\ jnl_seqno \in Nat
  BY DEF Kill, TypeInv, TypeOK
<1>3. pc[p] # "dead" /\ pc'[p] = "dead"
  BY CommitAssumption DEF Kill, TypeInv, TypeOK
<1>4. ASSUME NEW r \in Region  PROVE PlaceInv(p, r)'
  <2>1. PICK v : v = Spot(p, r)  OBVIOUS
  <2>2. /\ Owns(v, crit[r], p)
        /\ crit[r] = p => Stands(v, jb[r], db[r], p, token[p], idx[p][r], jnl_seqno)
    BY <2>1 DEF JnlInv, PlaceInv
  <2>3. v # "dead"  BY <1>3, <2>1, DeadSpot
  <2>4. Spot(p, r)' = "dead"  BY <1>3 DEF Spot, Where
  <2>5. v \in {"underway", "numbered", "finish"} => token[p] < jnl_seqno
    <3>1. v \in {"underway", "numbered", "finish"} => pc[p] \in {"cmt09", "cmt12", "finish"}
      BY <2>1, PastSeqno
    <3> QED  BY <3>1 DEF TokenInv, Token
  <2>6. crit[r] = p => Stands("dead", jb[r], db[r], p, token[p], idx[p][r], jnl_seqno)
    <3>1. crit[r] = p => v \in Inside  BY <2>2, <2>3 DEF Owns
    <3> QED  BY <2>2, <2>5, <3>1, StandsDead
  <2>7. crit[r] = p => Stands("dead", jb[r], db[r], p, token'[p], idx'[p][r], jnl_seqno)
    BY <2>6 DEF Stands
  <2>8. Owns("dead", crit[r], p) /\ Entry("dead", jb[r], p, token'[p], idx'[p][r])
    BY DEF Owns, Entry, Inside, Entries
  <2> QED  BY <1>2, <2>4, <2>7, <2>8 DEF PlaceInv
<1> QED  BY <1>1, <1>2, <1>4, JnlQuiet

LEMMA LateFail ==
  ASSUME LateErrors, TypeInv, TokenInv, NEW p \in Proc, Fail(p)
  PROVE  /\ jb' = jb /\ db' = db /\ crit' = crit /\ jnl_seqno' = jnl_seqno /\ pool' = pool
         /\ token' = token /\ idx' = idx /\ upd' = upd /\ rem'[p] = rem[p] /\ reg(p)' = reg(p)
         /\ txn' = txn /\ torn' = torn /\ sent' = sent /\ read_addr' = read_addr
         /\ \/ pc[p] = "cmt07" /\ pc'[p] = "undopool"
            \/ pc[p] = "cmt12" /\ pc'[p] = "finish"
<1>1. /\ jb' = jb /\ db' = db /\ crit' = crit /\ jnl_seqno' = jnl_seqno /\ pool' = pool
      /\ token' = token /\ idx' = idx /\ upd' = upd
      /\ txn' = txn /\ torn' = torn /\ sent' = sent /\ read_addr' = read_addr
  BY DEF Fail, srcvars
<1>2. \/ pc[p] = "cmt07" /\ Goto(p, "undopool") /\ rem' = [rem EXCEPT ![p] = upd[p]]
      \/ pc[p] = "cmt12" /\ Goto(p, "finish") /\ rem' = rem
  BY DEF Fail, LateErrors
<1>3. pc[p] = "cmt07" => rem[p] = upd[p]  BY DEF TokenInv, Whole
<1>4. rem'[p] = rem[p]  BY <1>2, <1>3 DEF TypeInv, TypeOK
<1>5. reg(p)' = reg(p)  BY <1>4 DEF reg
<1>6. \/ pc[p] = "cmt07" /\ pc'[p] = "undopool"
      \/ pc[p] = "cmt12" /\ pc'[p] = "finish"
  BY <1>2, GotoIs
<1> QED  BY <1>1, <1>4, <1>5, <1>6

LEMMA JnlFail ==
  ASSUME LateErrors, TypeInv, TokenInv, JnlInv, NEW p \in Proc, Fail(p)
  PROVE  JnlInv'
<1>1. Alone(p)  BY AloneIs
<1>2. /\ jb' = jb /\ db' = db /\ crit' = crit /\ jnl_seqno' = jnl_seqno /\ jnl_seqno \in Nat
      /\ token' = token /\ idx' = idx /\ upd' = upd /\ rem'[p] = rem[p] /\ reg(p)' = reg(p)
  BY LateFail DEF TypeInv, TypeOK
<1>3. \/ pc[p] = "cmt07" /\ pc'[p] = "undopool"
      \/ pc[p] = "cmt12" /\ pc'[p] = "finish"
  BY LateFail
<1>4. ASSUME NEW r \in Region  PROVE PlaceInv(p, r)'
  <2>1. reg(p)' = reg(p)  BY <1>2
  <2>2. CASE pc[p] = "cmt07" /\ pc'[p] = "undopool"
    <3>1. Spot(p, r)' = Spot(p, r)
      BY <1>2, <2>1, <2>2 DEF Spot, Where, Behind, Ahead, Here
    <3> QED  BY <1>2, <3>1, PlaceKept
  <2>3. CASE pc[p] = "cmt12" /\ pc'[p] = "finish"
    <3>1. \/ Spot(p, r)' = Spot(p, r)
          \/ Spot(p, r) \in {"numbered", "logged"} /\ Spot(p, r)' = "finish"
      BY <1>2, <2>1, <2>3 DEF Spot, Where, Behind, Ahead, Here
    <3>2. CASE Spot(p, r)' = Spot(p, r)  BY <1>2, <3>2, PlaceKept
    <3>3. CASE Spot(p, r) \in {"numbered", "logged"} /\ Spot(p, r)' = "finish"
      <4>1. PICK v : v = Spot(p, r)  OBVIOUS
      <4>2. /\ Owns(v, crit[r], p) /\ Entry(v, jb[r], p, token[p], idx[p][r])
            /\ crit[r] = p => Stands(v, jb[r], db[r], p, token[p], idx[p][r], jnl_seqno)
        BY <4>1 DEF JnlInv, PlaceInv
      <4>3. v \in {"numbered", "logged"}  BY <3>3, <4>1
      <4>4. /\ Owns("finish", crit[r], p) /\ Entry("finish", jb[r], p, token[p], idx[p][r])
            /\ crit[r] = p => Stands("finish", jb[r], db[r], p, token[p], idx[p][r], jnl_seqno)
        BY <4>2, <4>3 DEF Owns, Entry, Stands, Inside, Entries
      <4> QED  BY <1>2, <3>3, <4>4 DEF PlaceInv
    <3> QED  BY <3>1, <3>2, <3>3
  <2> QED  BY <1>3, <2>2, <2>3
<1> QED  BY <1>1, <1>2, <1>4, JnlQuiet

-----------------------------------------------------------------------------
(* The steps in crit of a region *)

(* A process in a loop over regions is somewhere. *)
LEMMA HereIs ==
  ASSUME TypeInv, NEW p \in Proc, pc[p] \notin {"idle", "dead"}
  PROVE  reg(p) \in Region /\ reg(p) \in rem[p] /\ Spot(p, reg(p)) = Here(pc[p])
<1>1. rem[p] \subseteq upd[p] /\ rem[p] # {}  BY DEF TypeInv, TypeOK, InLoop
<1>2. reg(p) \in rem[p] /\ reg(p) \in Region  BY <1>1, RegType
<1> QED  BY <1>1, <1>2 DEF Spot, Where

(* What p knows of the region it is in. *)
LEMMA InsideKnows ==
  ASSUME TypeInv, JnlInv, NEW p \in Proc, pc[p] \notin {"idle", "dead"}, NEW w, w = Here(pc[p]),
         w \in Inside, NEW x, x = reg(p)
  PROVE  /\ x \in Region /\ crit[x] = p /\ jb[x] \in Log /\ db[x] \in DB /\ Sound(jb[x])
         /\ db[x].reg_seqno <= jnl_seqno /\ Entry(w, jb[x], p, token[p], idx[p][x])
         /\ Stands(w, jb[x], db[x], p, token[p], idx[p][x], jnl_seqno)
<1>1. x \in Region /\ Spot(p, x) = w  BY HereIs
<1>2. PlaceInv(p, x) /\ RegionInv(x)  BY <1>1 DEF JnlInv
<1>3. Owns(w, crit[x], p)  BY <1>1, <1>2 DEF PlaceInv
<1>4. crit[x] = p  BY <1>3 DEF Owns
<1> QED  BY <1>1, <1>2, <1>4 DEF PlaceInv, RegionInv, TypeInv, TypeOK

LEMMA DBFields ==
  ASSUME NEW d \in DB
  PROVE  /\ d.curr_tn \in Nat /\ d.early_tn \in Nat /\ d.update_underway_tn \in Nat
         /\ d.reg_seqno \in Nat
BY DEF DB

Local(p, x) ==
  \A r \in Region : r # x => /\ jb'[r] = jb[r] /\ db'[r] = db[r] /\ crit'[r] = crit[r]
                             /\ idx'[p][r] = idx[p][r]

LEMMA LocalIs ==
  ASSUME TypeInv, NEW p \in Proc, NEW x, x = reg(p),
         \/ GrabCrit(p) \/ Recover(p) \/ RecoverWritten(p) \/ RecoverDone(p) \/ EarlyTn(p)
         \/ ReserveJnl(p) \/ PublishJnl(p) \/ UpdateUnderway(p) \/ SetRegSeqno(p)
         \/ IncrementCurrTn(p) \/ RelCrit(p) \/ Finish(p) \/ UndoDB(p) \/ WriteJnl(p)
         \/ JnlWriteComplete(p)
  PROVE  /\ Local(p, x) /\ Alone(p) /\ token' = token /\ upd' = upd /\ jnl_seqno' = jnl_seqno
         /\ pc[p] \notin {"idle", "dead"}
<1>1. Alone(p)  BY AloneIs DEF Step
<1>2. /\ token' = token /\ upd' = upd /\ jnl_seqno' = jnl_seqno /\ pc[p] \notin {"idle", "dead"}
  BY DEF GrabCrit, Recover, RecoverWritten, RecoverDone, EarlyTn, ReserveJnl, PublishJnl, UpdateUnderway,
         SetRegSeqno, IncrementCurrTn, RelCrit, Finish, UndoDB, WriteJnl, JnlWriteComplete
<1>3. crit' = crit \/ \E y : crit' = [crit EXCEPT ![x] = y]
  BY DEF GrabCrit, Recover, RecoverWritten, RecoverDone, EarlyTn, ReserveJnl, PublishJnl, UpdateUnderway,
         SetRegSeqno, IncrementCurrTn, RelCrit, Finish, UndoDB, WriteJnl, JnlWriteComplete
<1>4. idx' = idx \/ \E y : idx' = [idx EXCEPT ![p][x] = y]
  BY DEF GrabCrit, Recover, RecoverWritten, RecoverDone, EarlyTn, ReserveJnl, PublishJnl, UpdateUnderway,
         SetRegSeqno, IncrementCurrTn, RelCrit, Finish, UndoDB, WriteJnl, JnlWriteComplete
<1>5. ASSUME NEW r \in Region, r # x  PROVE jb'[r] = jb[r]
  BY <1>5 DEF GrabCrit, Recover, RecoverWritten, RecoverDone, EarlyTn, ReserveJnl, PublishJnl, UpdateUnderway,
         SetRegSeqno, IncrementCurrTn, RelCrit, Finish, UndoDB, WriteJnl, JnlWriteComplete,
         TypeInv, TypeOK
<1>6. ASSUME NEW r \in Region, r # x  PROVE db'[r] = db[r]
  BY <1>6 DEF GrabCrit, Recover, RecoverWritten, RecoverDone, EarlyTn, ReserveJnl, PublishJnl, UpdateUnderway,
         SetRegSeqno, IncrementCurrTn, RelCrit, Finish, UndoDB, WriteJnl, JnlWriteComplete,
         TypeInv, TypeOK
<1>7. ASSUME NEW r \in Region, r # x  PROVE crit'[r] = crit[r] /\ idx'[p][r] = idx[p][r]
  BY <1>3, <1>4, <1>7 DEF TypeInv, TypeOK
<1> QED  BY <1>1, <1>2, <1>5, <1>6, <1>7 DEF Local

(* p goes on with its region, or with the next. *)
LEMMA GoesOn ==
  ASSUME TypeInv, NEW p \in Proc, NEW x, x = reg(p), Local(p, x), NEW l, NEW m, pc[p] = l,
         pc'[p] = m, rem'[p] = rem[p], upd'[p] = upd[p], l \notin {"idle", "dead"}, m # "dead",
         Ahead(m) = Ahead(l), Behind(m) = Behind(l)
  PROVE  Elsewhere(p, x) /\ Spot(p, x)' = Here(m)
<1>1. x \in Region /\ x \in rem[p]  BY HereIs
<1>2. \A r \in Region : IF r = x /\ r \in rem[p] THEN Spot(p, r)' = Here(m)
                        ELSE Spot(p, r)' = Spot(p, r)
  BY SpotGoto
<1> QED  BY <1>1, <1>2 DEF Elsewhere, Local

LEMMA Leaves ==
  ASSUME TypeInv, NEW p \in Proc, NEW x, x = reg(p), Local(p, x), NEW l, NEW a, NEW b, pc[p] = l,
         Loop(p, a, b), upd'[p] = upd[p], l \notin {"idle", "dead"}, a # "dead", b # "dead",
         Behind(a) = Behind(l), Ahead(b) = Behind(l), Here(b) = Behind(l),
         Ahead(a) = Ahead(l), Here(a) = Ahead(l)
  PROVE  Elsewhere(p, x) /\ Spot(p, x)' = Behind(l)
<1>1. x \in Region  BY HereIs
<1>2. \A r \in Region : IF r = x THEN Spot(p, r)' = Behind(l) ELSE Spot(p, r)' = Spot(p, r)
  BY SpotLoop
<1> QED  BY <1>1, <1>2 DEF Elsewhere, Local

LEMMA JnlEarly ==
  ASSUME TypeInv, JnlInv, NEW p \in Proc, EarlyTn(p)
  PROVE  JnlInv'
<1>1. PICK x : x = reg(p)  OBVIOUS
<1>2. /\ pc[p] = "cmt04" /\ Loop(p, "cmt04", "cmt06") /\ crit' = crit /\ jb' = jb /\ idx' = idx
      /\ db' = [db EXCEPT ![x].early_tn = db[x].curr_tn + 1]
  BY <1>1 DEF EarlyTn
<1>3. /\ Local(p, x) /\ Alone(p) /\ token' = token /\ upd' = upd /\ jnl_seqno' = jnl_seqno
  BY <1>1, LocalIs
<1>4. /\ x \in Region /\ crit[x] = p /\ jb[x] \in Log /\ db[x] \in DB /\ Sound(jb[x])
      /\ db[x].reg_seqno <= jnl_seqno
      /\ Stands("rest", jb[x], db[x], p, token[p], idx[p][x], jnl_seqno)
  BY <1>1, <1>2, InsideKnows DEF Here, Ahead, Inside
<1>5. Elsewhere(p, x) /\ Spot(p, x)' = "early"
  BY <1>1, <1>2, <1>3, Leaves DEF Here, Ahead, Behind
<1>6. PICK d : d = db'[x]  OBVIOUS
<1>7. /\ d.curr_tn = db[x].curr_tn /\ d.early_tn = db[x].curr_tn + 1
      /\ d.update_underway_tn = db[x].update_underway_tn /\ d.reg_seqno = db[x].reg_seqno
  BY <1>2, <1>4, <1>6 DEF DB, TypeInv, TypeOK
<1>8. Early(jb[x], d)  BY <1>4, <1>7 DEF Stands, Rest, Early, Calm, Base
<1>9. Stands("early", jb[x], d, p, token[p], idx[p][x], jnl_seqno)  BY <1>8 DEF Stands
<1>10. Entry("early", jb[x], p, token[p], idx[p][x])  BY DEF Entry, Entries
<1>11. \A q \in Proc : Spares(jb[x], jb[x], q)  BY SparesFrame
<1>12. crit'[x] = p /\ "early" \in Inside  BY <1>2, <1>4 DEF Inside
<1> QED  BY <1>2, <1>3, <1>4, <1>5, <1>6, <1>7, <1>9, <1>10, <1>11, <1>12, RegionIs, JnlOwner

LEMMA SeqnosAll ==
  ASSUME NEW L \in Log, L.index1 # L.index2
  PROVE  Seqnos(L, {}) = Seqnos(L, {DECR(L.index2)}) \cup {Last(L).jnl_seqno}
<1>1. DECR(L.index2) \in InUse(L)  BY InUseEnds
<1> QED  BY <1>1 DEF Seqnos, Last

LEMMA SeqnosType ==
  ASSUME NEW L \in Log, Sound(L), NEW D
  PROVE  Seqnos(L, D) \subseteq Nat
<1>1. \A i \in InUse(L) : L.slot[i].jnl_seqno \in Nat  BY LogFields, SlotFields DEF InUse
<1>2. ASSUME NEW k \in 1 .. L.free  PROVE L.file[k].jnl_seqno \in Nat
  <2>1. L.file \in Seq(Record) /\ L.free \in Nat /\ L.free <= Len(L.file)
    BY LogFields DEF Sound, Filed
  <2>2. k \in 1 .. Len(L.file)  BY <2>1
  <2>3. L.file[k] \in Record  BY <2>1, <2>2, ElementOfSeq
  <2> QED  BY <2>3 DEF Record
<1> QED  BY <1>1, <1>2 DEF Seqnos

(* A commit that is rolled forward, or back. *)
LEMMA LoggedForward ==
  ASSUME NEW L \in Log, Sound(L), NEW d \in DB, NEW h, Logged(L, d, h), NEW e,
         e.curr_tn = d.early_tn, e.early_tn = d.early_tn, e.update_underway_tn = d.curr_tn,
         e.reg_seqno = Last(L).jnl_seqno + 1
  PROVE  Rest(L, e)
<1>1. d.curr_tn \in Nat /\ Last(L).jnl_seqno \in Nat
  BY DBFields, LastType, SlotFields
<1>2. PICK t : t = Last(L).jnl_seqno  OBVIOUS
<1>3. PICK X : X = Seqnos(L, {DECR(L.index2)})  OBVIOUS
<1>4. Seqnos(L, {}) = X \cup {t} /\ X \subseteq Nat /\ t \in Nat /\ \A y \in X : y <= t
  BY <1>1, <1>2, <1>3, SeqnosAll, SeqnosType DEF Logged
<1>5. OneMore(t + 1, X \cup {t})  BY <1>4 DEF OneMore
<1>6. OneMore(e.reg_seqno, Seqnos(L, {}))  BY <1>2, <1>4, <1>5
<1>7. Level(L) /\ Last(L).curr_tn + 1 = e.curr_tn /\ e.update_underway_tn < e.curr_tn
  BY <1>1 DEF Logged
<1> QED  BY <1>6, <1>7 DEF Rest, Calm, Base

LEMMA LoggedBack ==
  ASSUME NEW L \in Log, Sound(L), NEW d \in DB, NEW h, Logged(L, d, h),
         d.update_underway_tn # d.curr_tn, NEW M, M = Withdraw(L), NEW e,
         e.curr_tn = d.curr_tn, e.early_tn = d.curr_tn, e.reg_seqno = d.reg_seqno,
         e.update_underway_tn = d.update_underway_tn
  PROVE  Sound(M) /\ Rest(M, e)
<1>1. d.curr_tn \in Nat /\ d.update_underway_tn \in Nat  BY DBFields
<1>2. Last(L).jnl_seqno \in Nat  BY LastType, SlotFields
<1>3. /\ Sound(M) /\ Level(M) /\ Seqnos(M, {}) = Seqnos(L, {DECR(L.index2)})
      /\ Succeeds(Last(M), Last(L))
  BY WithdrawSound DEF Logged
<1>4. Last(M).curr_tn + 1 = d.curr_tn  BY <1>2, <1>3 DEF Logged, Succeeds
<1>5. OneMore(e.reg_seqno, Seqnos(M, {}))  BY <1>3 DEF Logged
<1>6. e.update_underway_tn < e.curr_tn  BY <1>1 DEF Logged
<1> QED  BY <1>3, <1>4, <1>5, <1>6 DEF Rest, Calm, Base

(* ... with the header's fields up to CMT09. *)
LEMMA LoggedUnderway ==
  ASSUME NEW L, NEW d, NEW h, Logged(L, d, h), NEW e, e.curr_tn = d.curr_tn,
         e.early_tn = d.early_tn, e.update_underway_tn = e.curr_tn, e.curr_tn \in Nat,
         e.reg_seqno <= Last(L).jnl_seqno + 1
  PROVE  Logged(L, e, h)
BY DEF Logged

(* CMT08 and CMT09 *)
LEMMA JnlUnderway ==
  ASSUME TypeInv, TokenInv, JnlInv, NEW p \in Proc, UpdateUnderway(p) \/ SetRegSeqno(p)
  PROVE  JnlInv'
<1>1. PICK x : x = reg(p)  OBVIOUS
<1>2. /\ crit' = crit /\ jb' = jb /\ idx' = idx /\ rem' = rem
      /\ \/ /\ pc[p] = "cmt08" /\ pc'[p] = "cmt09"
            /\ db' = [db EXCEPT ![x].update_underway_tn = db[x].curr_tn]
         \/ /\ pc[p] = "cmt09" /\ pc'[p] = "cmt12"
            /\ db' = [db EXCEPT ![x].reg_seqno = token[p] + 1]
  BY <1>1, GotoIs DEF UpdateUnderway, SetRegSeqno
<1>3. /\ Local(p, x) /\ Alone(p) /\ token' = token /\ upd' = upd /\ jnl_seqno' = jnl_seqno
  BY <1>1, LocalIs
<1>4. PICK v, w : v = Here(pc[p]) /\ w = Here(pc'[p])  OBVIOUS
<1>5. \/ pc[p] = "cmt08" /\ v = "logged" /\ w = "underway"
      \/ pc[p] = "cmt09" /\ v = "underway" /\ w = "numbered"
  BY <1>2, <1>4 DEF Here, Ahead
<1>6. /\ x \in Region /\ crit[x] = p /\ jb[x] \in Log /\ db[x] \in DB /\ Sound(jb[x])
      /\ db[x].reg_seqno <= jnl_seqno /\ Entry(v, jb[x], p, token[p], idx[p][x])
      /\ Stands(v, jb[x], db[x], p, token[p], idx[p][x], jnl_seqno)
  BY <1>1, <1>4, <1>5, InsideKnows DEF Inside
<1>7. Elsewhere(p, x) /\ Spot(p, x)' = w
  BY <1>1, <1>2, <1>3, <1>4, GoesOn DEF Ahead, Behind
<1>8. PICK d, e : d = db[x] /\ e = db'[x]  OBVIOUS
<1>9. d \in DB /\ db \in [Region -> DB] /\ token[p] \in Nat /\ jnl_seqno \in Nat
      /\ d.curr_tn \in Nat
  BY <1>6, <1>8, DBFields DEF TypeInv, TypeOK
<1>10. Logged(jb[x], d, p) /\ Last(jb[x]).jnl_seqno = token[p]  BY <1>5, <1>6, <1>8 DEF Stands
<1>11. /\ Logged(jb[x], e, p) /\ e.update_underway_tn = e.curr_tn /\ e.reg_seqno <= jnl_seqno
       /\ w = "numbered" => e.reg_seqno = token[p] + 1
  <2>1. CASE pc[p] = "cmt08" /\ v = "logged" /\ w = "underway"
    <3>1. e = [d EXCEPT !.update_underway_tn = d.curr_tn]  BY <1>2, <1>6, <1>8, <1>9, <2>1
    <3>2. /\ e.curr_tn = d.curr_tn /\ e.early_tn = d.early_tn /\ e.reg_seqno = d.reg_seqno
          /\ e.update_underway_tn = d.curr_tn
      BY <1>9, <3>1 DEF DB
    <3>3. e.reg_seqno <= Last(jb[x]).jnl_seqno + 1 /\ e.reg_seqno <= jnl_seqno
      BY <1>6, <1>8, <1>10, <3>2 DEF Logged
    <3>4. Logged(jb[x], e, p)  BY <1>9, <1>10, <3>2, <3>3, LoggedUnderway
    <3> QED  BY <2>1, <3>2, <3>3, <3>4
  <2>2. CASE pc[p] = "cmt09" /\ v = "underway" /\ w = "numbered"
    <3>1. e = [d EXCEPT !.reg_seqno = token[p] + 1]  BY <1>2, <1>6, <1>8, <1>9, <2>2
    <3>2. /\ e.curr_tn = d.curr_tn /\ e.early_tn = d.early_tn /\ e.reg_seqno = token[p] + 1
          /\ e.update_underway_tn = d.update_underway_tn
      BY <1>9, <3>1 DEF DB
    <3>3. d.update_underway_tn = d.curr_tn  BY <1>6, <1>8, <2>2 DEF Stands
    <3>4. token[p] < jnl_seqno  BY <2>2 DEF TokenInv, Token
    <3>5. e.reg_seqno <= Last(jb[x]).jnl_seqno + 1 /\ e.reg_seqno <= jnl_seqno
      BY <1>9, <1>10, <3>2, <3>4
    <3>6. Logged(jb[x], e, p)  BY <1>9, <1>10, <3>2, <3>3, <3>5, LoggedUnderway
    <3> QED  BY <3>2, <3>3, <3>5, <3>6
  <2> QED  BY <1>5, <2>1, <2>2
<1>12. Stands(w, jb[x], e, p, token[p], idx[p][x], jnl_seqno)
  BY <1>5, <1>10, <1>11 DEF Stands
<1>13. Entry(w, jb[x], p, token[p], idx[p][x])  BY <1>5, <1>6 DEF Entry, Entries
<1>14. \A q \in Proc : Spares(jb[x], jb[x], q)  BY SparesFrame
<1>15. crit'[x] = p /\ w \in Inside  BY <1>2, <1>5, <1>6 DEF Inside
<1> QED  BY <1>2, <1>3, <1>6, <1>7, <1>8, <1>11, <1>12, <1>13, <1>14, <1>15, RegionIs, JnlOwner

(* CMT12 *)
LEMMA JnlCurrTn ==
  ASSUME TypeInv, TokenInv, JnlInv, NEW p \in Proc, IncrementCurrTn(p)
  PROVE  JnlInv'
<1>1. PICK x : x = reg(p)  OBVIOUS
<1>2. /\ crit' = crit /\ jb' = jb /\ idx' = idx /\ rem' = rem
      /\ pc[p] = "cmt12" /\ pc'[p] = "cmt14"
      /\ db' = [db EXCEPT ![x].curr_tn = db[x].early_tn]
  BY <1>1, GotoIs DEF IncrementCurrTn
<1>3. /\ Local(p, x) /\ Alone(p) /\ token' = token /\ upd' = upd /\ jnl_seqno' = jnl_seqno
  BY <1>1, LocalIs
<1>4. /\ x \in Region /\ crit[x] = p /\ jb[x] \in Log /\ db[x] \in DB /\ Sound(jb[x])
      /\ db[x].reg_seqno <= jnl_seqno /\ Entry("numbered", jb[x], p, token[p], idx[p][x])
      /\ Stands("numbered", jb[x], db[x], p, token[p], idx[p][x], jnl_seqno)
  BY <1>1, <1>2, InsideKnows DEF Here, Ahead, Inside
<1>5. Elsewhere(p, x) /\ Spot(p, x)' = "current"
  <2>1. Here("cmt14") = "current"  BY DEF Here
  <2> QED  BY <1>1, <1>2, <1>3, <2>1, GoesOn DEF Ahead, Behind
<1>6. PICK d, e : d = db[x] /\ e = db'[x]  OBVIOUS
<1>7. /\ e.curr_tn = d.early_tn /\ e.early_tn = d.early_tn
      /\ e.update_underway_tn = d.update_underway_tn /\ e.reg_seqno = d.reg_seqno
  BY <1>2, <1>4, <1>6 DEF DB, TypeInv, TypeOK
<1>8. /\ Logged(jb[x], d, p) /\ d.update_underway_tn = d.curr_tn
      /\ d.reg_seqno = Last(jb[x]).jnl_seqno + 1
  BY <1>4, <1>6 DEF Stands
<1>9. Rest(jb[x], e)  BY <1>4, <1>6, <1>7, <1>8, LoggedForward
<1>10. Stands("current", jb[x], e, p, token[p], idx[p][x], jnl_seqno)  BY <1>9 DEF Stands
<1>11. Entry("current", jb[x], p, token[p], idx[p][x])  BY <1>4 DEF Entry, Entries
<1>12. \A q \in Proc : Spares(jb[x], jb[x], q)  BY SparesFrame
<1>13. crit'[x] = p /\ "current" \in Inside  BY <1>2, <1>4 DEF Inside
<1> QED  BY <1>2, <1>3, <1>4, <1>5, <1>6, <1>7, <1>10, <1>11, <1>12, <1>13, RegionIs, JnlOwner

(* CMT14, after CMT12 or after secshr_finish_CMT08_to_CMT14 *)
LEMMA JnlRelCrit ==
  ASSUME TypeInv, TokenInv, JnlInv, NEW p \in Proc, RelCrit(p) \/ Finish(p)
  PROVE  JnlInv'
<1>1. PICK x : x = reg(p)  OBVIOUS
<1>2. /\ crit' = [crit EXCEPT ![x] = NoProc] /\ jb' = jb /\ idx' = idx
      /\ \/ pc[p] = "cmt14" /\ Loop(p, "cmt08", "cmt15") /\ db' = db
         \/ /\ pc[p] = "finish" /\ Loop(p, "finish", "cmt15")
            /\ db' = [db EXCEPT ![x].update_underway_tn = db[x].curr_tn, ![x].reg_seqno = token[p] + 1,
                                ![x].curr_tn = db[x].early_tn, ![x].wc_blocked = TRUE]
  BY <1>1 DEF RelCrit, Finish
<1>3. /\ Local(p, x) /\ Alone(p) /\ token' = token /\ upd' = upd /\ jnl_seqno' = jnl_seqno
  BY <1>1, LocalIs
<1>4. PICK v : v = Here(pc[p])  OBVIOUS
<1>5. \/ pc[p] = "cmt14" /\ v = "current"
      \/ pc[p] = "finish" /\ v = "finish"
  BY <1>2, <1>4 DEF Here, Ahead
<1>6. /\ x \in Region /\ crit[x] = p /\ jb[x] \in Log /\ db[x] \in DB /\ Sound(jb[x])
      /\ db[x].reg_seqno <= jnl_seqno /\ Entry(v, jb[x], p, token[p], idx[p][x])
      /\ Stands(v, jb[x], db[x], p, token[p], idx[p][x], jnl_seqno)
  BY <1>1, <1>4, <1>5, InsideKnows DEF Inside
<1>7. Elsewhere(p, x) /\ Spot(p, x)' = "owed"
  BY <1>1, <1>2, <1>3, Leaves DEF Here, Ahead, Behind
<1>8. PICK d, e : d = db[x] /\ e = db'[x]  OBVIOUS
<1>9. Rest(jb[x], e) /\ e.reg_seqno <= jnl_seqno
  <2>1. CASE pc[p] = "cmt14" /\ v = "current"  BY <1>2, <1>6, <1>8, <2>1 DEF Stands
  <2>2. CASE pc[p] = "finish" /\ v = "finish"
    <3>1. /\ e.curr_tn = d.early_tn /\ e.early_tn = d.early_tn
          /\ e.update_underway_tn = d.curr_tn /\ e.reg_seqno = token[p] + 1
      BY <1>2, <1>6, <1>8, <2>2 DEF DB, TypeInv, TypeOK
    <3>2. Logged(jb[x], d, p) /\ Last(jb[x]).jnl_seqno = token[p]
      BY <1>6, <1>8, <2>2 DEF Stands
    <3>3. Rest(jb[x], e)  BY <1>6, <1>8, <3>1, <3>2, LoggedForward
    <3>4. token[p] < jnl_seqno  BY <2>2 DEF TokenInv, Token
    <3>5. token[p] \in Nat /\ jnl_seqno \in Nat  BY DEF TypeInv, TypeOK
    <3> QED  BY <3>1, <3>3, <3>4, <3>5
  <2> QED  BY <1>5, <2>1, <2>2
<1>10. Entry("owed", jb[x], p, token[p], idx[p][x])  BY <1>5, <1>6 DEF Entry, Entries
<1>11. \A q \in Proc : Spares(jb[x], jb[x], q)  BY SparesFrame
<1>12. crit'[x] = NoProc /\ "owed" \notin Inside  BY <1>2, <1>6 DEF Inside, TypeInv, TypeOK
<1> QED  BY <1>2, <1>3, <1>6, <1>7, <1>8, <1>9, <1>10, <1>11, <1>12, RegionIs, JnlOwner

(* T_COMMIT_CLEANUP_DB *)
LEMMA JnlUndo ==
  ASSUME TypeInv, TokenInv, JnlInv, NEW p \in Proc, UndoDB(p)
  PROVE  JnlInv'
<1>1. PICK x, L, d : x = reg(p) /\ L = jb[x] /\ d = db[x]  OBVIOUS
<1>2. /\ crit' = [crit EXCEPT ![x] = NoProc] /\ idx' = idx /\ pc[p] = "undodb"
      /\ Loop(p, "undodb", "undorel") /\ db' = [db EXCEPT ![x].early_tn = d.curr_tn]
      /\ jb' = [jb EXCEPT ![x] =
                   IF InCommit(x) /\ L.index1 # L.index2 /\ Last(L).process_id = p
                   THEN Withdraw(L) ELSE L]
  BY <1>1 DEF UndoDB
<1>3. /\ Local(p, x) /\ Alone(p) /\ token' = token /\ upd' = upd /\ jnl_seqno' = jnl_seqno
  BY <1>1, LocalIs
<1>4. /\ x \in Region /\ crit[x] = p /\ L \in Log /\ d \in DB /\ Sound(L)
      /\ d.reg_seqno <= jnl_seqno
      /\ Stands("logged", L, d, p, token[p], idx[p][x], jnl_seqno)
  BY <1>1, <1>2, InsideKnows DEF Here, Ahead, Inside
<1>5. Elsewhere(p, x) /\ Spot(p, x)' = "out"
  BY <1>1, <1>2, <1>3, Leaves DEF Here, Ahead, Behind
<1>6. PICK e, M : e = db'[x] /\ M = jb'[x]  OBVIOUS
<1>7. /\ e.curr_tn = d.curr_tn /\ e.early_tn = d.curr_tn
      /\ e.update_underway_tn = d.update_underway_tn /\ e.reg_seqno = d.reg_seqno
  BY <1>1, <1>2, <1>4, <1>6 DEF DB, TypeInv, TypeOK
<1>8. Logged(L, d, p) /\ d.update_underway_tn # d.curr_tn  BY <1>4 DEF Stands
<1>9. InCommit(x)
  <2>1. d.curr_tn \in Nat  BY <1>4, DBFields
  <2> QED  BY <1>1, <1>8, <2>1 DEF InCommit, Logged
<1>10. L.index1 # L.index2 /\ Last(L).process_id = p  BY <1>8 DEF Logged
<1>11. M = Withdraw(L)
  <2>1. jb \in [Region -> Log]  BY DEF TypeInv, TypeOK
  <2> QED  BY <1>2, <1>4, <1>6, <1>9, <1>10, <2>1
<1>12. Sound(M) /\ Rest(M, e)  BY <1>4, <1>7, <1>8, <1>11, LoggedBack
<1>13. Entry("out", M, p, token[p], idx[p][x])  BY DEF Entry, Entries
<1>14. \A q \in Proc : q # p => Spares(M, L, q)  BY <1>4, <1>10, <1>11, SparesWithdraw
<1>15. crit'[x] = NoProc /\ "out" \notin Inside  BY <1>2, <1>4 DEF Inside, TypeInv, TypeOK
<1> QED  BY <1>1, <1>2, <1>3, <1>4, <1>5, <1>6, <1>7, <1>12, <1>13, <1>14, <1>15, RegionIs, JnlOwner

(* A salvage in crit by p. *)
LEMMA CleanupCalm ==
  ASSUME TypeInv, NEW L \in Log, Sound(L), NEW p \in Proc, NEW M, M = Cleanup(L, p, TRUE, Alive)
  PROVE  /\ M \in Log /\ Sound(M)
         /\ \A d : (Calm(L, d) => Calm(M, d)) /\ (Near(L, d) => Near(M, d))
         /\ M.rsrv = L.rsrv /\ M.index2 = L.index2
         /\ \A q \in Proc : pc[q] # "dead" => Spares(M, L, q)
<1>1. PICK C : C = Orphans(L, p, Alive)  OBVIOUS
<1>2. Tidied(M, L, C)  BY <1>1, CleanupIs
<1>3. Carried(M, L, {})
  <2>1. PICK D, c : D = {} /\ c = TRUE  OBVIOUS
  <2>2. /\ M = Cleanup(L, p, c, Alive) /\ D \subseteq InUse(L)
        /\ \A i \in D : ~L.slot[i].write_complete
        /\ c => D \cap Orphans(L, p, Alive) = {}
    BY <2>1
  <2>3. Carried(M, L, D)  BY <2>1, <2>2, CleanupSound
  <2> QED  BY <2>1, <2>3
<1>4. \A d : (Calm(L, d) => Calm(M, d)) /\ (Near(L, d) => Near(M, d))
  BY <1>2, <1>3, CalmTidied DEF Near
<1>5. ASSUME NEW q \in Proc, pc[q] # "dead"  PROVE Spares(M, L, q)
  <2>1. \A j \in C : L.slot[j].process_id # q  BY <1>1, <1>5 DEF Orphans, Alive
  <2> QED  BY <1>2, <1>3, <2>1, SparesTidied
<1> QED  BY <1>2, <1>3, <1>4, <1>5 DEF Tidied, Carried

LEMMA ReserveTaking ==
  ASSUME NEW L \in Log, Sound(L), ~Full(L), NEW d \in DB, Near(L, d),
         d.early_tn = d.curr_tn + 1, NEW s \in Slot, NEW h, s.jnl_seqno = 0 \/ Calm(L, d),
         s.tot_jrec_len = 1, s.curr_tn = d.curr_tn, s.process_id = h, ~s.write_complete,
         NEW M, M = Reserve(L, s),
         \/ s.in_phase2
         \/ /\ L.rsrv < Len(L.file) /\ L.file[L.rsrv + 1].tn = s.curr_tn
            /\ L.file[L.rsrv + 1].jnl_seqno = s.jnl_seqno
  PROVE  /\ Sound(M) /\ Taking(M, d, h) /\ M.index2 = L.index2
         /\ M.slot[M.index2].jnl_seqno = s.jnl_seqno /\ M.slot[M.index2].in_phase2 = s.in_phase2
         /\ s.in_phase2 \/ Good(M.file, M.slot[M.index2])
         /\ \A q : Spares(M, L, q)
<1>1. Level(L) /\ d.update_underway_tn < d.curr_tn /\ OneMore(d.reg_seqno, Seqnos(L, {}))
  BY DEF Near, Calm, Redo, Base
<1>2. /\ Sound(M) /\ Seqnos(M, {}) = Seqnos(L, {}) /\ InUse(M) = InUse(L)
      /\ \A i \in InUse(L) : M.slot[i] = L.slot[i]
  BY <1>1, ReserveSound
<1>3. /\ M \in Log /\ M.index1 = L.index1 /\ M.index2 = L.index2 /\ M.file = L.file
      /\ M.slot[L.index2] = Placed(L, s)
  BY ReserveIs
<1>4. /\ Follows(M.slot[M.index2], Last(M)) /\ M.rsrv = EndOf(M.slot[M.index2])
      /\ M.last = M.slot[M.index2].tot_jrec_len /\ Last(M) = Last(L)
  BY <1>1, ReserveChain DEF Sound
<1>5. PICK t : t = Placed(L, s)  OBVIOUS
<1>6. /\ t.start = L.rsrv /\ t.tot_jrec_len = 1 /\ t.process_id = h /\ t.curr_tn = d.curr_tn
      /\ t.jnl_seqno = s.jnl_seqno /\ t.in_phase2 = s.in_phase2 /\ ~t.write_complete
  BY <1>5, PlacedIs
<1>7. M.slot[M.index2] = t  BY <1>3, <1>5
<1>8. Succeeds(Last(M), t)
  <2>1. d.curr_tn \in Nat /\ d.update_underway_tn \in Nat  BY DBFields
  <2>2. d.curr_tn # 0  BY <1>1, <2>1
  <2> QED  BY <1>4, <1>6, <2>2 DEF Succeeds, Near, Calm, Redo
<1>9. s.in_phase2 \/ Good(M.file, t)  BY <1>3, <1>6 DEF Good
<1>10. ~Full(M)  BY <1>3, InUseFrame
<1>11. /\ d.early_tn = d.curr_tn + 1 /\ d.update_underway_tn < d.curr_tn
       /\ OneMore(d.reg_seqno, Seqnos(M, {}))
  BY <1>1, <1>2
<1>12. Taking(M, d, h)  BY <1>4, <1>6, <1>7, <1>8, <1>9, <1>10, <1>11 DEF Taking
<1>13. \A q : Spares(M, L, q)  BY <1>2, <1>3, SparesFrame
<1> QED  BY <1>2, <1>3, <1>6, <1>7, <1>9, <1>12, <1>13

(* CMT06 *)
LEMMA JnlReserve ==
  ASSUME TypeInv, TokenInv, JnlInv, NEW p \in Proc, ReserveJnl(p)
  PROVE  JnlInv'
<1>1. PICK x, L, d : x = reg(p) /\ L = jb[x] /\ d = db[x]  OBVIOUS
<1>2. pc[p] = "cmt06" /\ crit' = crit /\ db' = db /\ rem' = rem  BY DEF ReserveJnl
<1>3. /\ Local(p, x) /\ Alone(p) /\ token' = token /\ upd' = upd /\ jnl_seqno' = jnl_seqno
  BY <1>1, LocalIs
<1>4. /\ x \in Region /\ crit[x] = p /\ L \in Log /\ d \in DB /\ Sound(L)
      /\ d.reg_seqno <= jnl_seqno
      /\ Stands("early", L, d, p, token[p], idx[p][x], jnl_seqno)
  BY <1>1, <1>2, InsideKnows DEF Here, Ahead, Inside
<1>5. Early(L, d) /\ Calm(L, d) /\ Near(L, d) /\ d.early_tn = d.curr_tn + 1
  BY <1>4 DEF Stands, Early, Near
<1>6. PICK M : M = jb'[x]  OBVIOUS
<1>7. jb \in [Region -> Log] /\ token[p] \in Nat  BY DEF TypeInv, TypeOK
<1>8. crit'[x] = p /\ p # NoProc  BY <1>2, <1>4, RegionIs
<1>9. CASE Full(L)
  <2>1. M = Cleanup(L, p, TRUE, Alive) /\ pc' = pc /\ idx' = idx
    BY <1>1, <1>4, <1>6, <1>7, <1>9 DEF ReserveJnl
  <2>2. Sound(M) /\ Calm(M, d) /\ \A q \in Proc : pc[q] # "dead" => Spares(M, L, q)
    BY <1>4, <1>5, <2>1, CleanupCalm DEF Early
  <2>3. Early(M, d)  BY <1>5, <2>2 DEF Early
  <2>4. Elsewhere(p, x) /\ Spot(p, x)' = "early"
    <3>1. Here("cmt06") = "early"  BY DEF Here, Ahead
    <3> QED  BY <1>1, <1>2, <1>3, <2>1, <3>1, GoesOn
  <2>5. Stands("early", M, d, p, token[p], idx'[p][x], jnl_seqno)  BY <2>3 DEF Stands
  <2>6. Entry("early", M, p, token[p], idx'[p][x]) /\ "early" \in Inside
    BY DEF Entry, Entries, Inside
  <2> QED  BY <1>1, <1>2, <1>3, <1>4, <1>6, <1>8, <2>2, <2>4, <2>5, <2>6, JnlOwner
<1>10. CASE ~Full(L)
  <2>1. PICK s : s = JnlSlot(x, p, token[p], TRUE)  OBVIOUS
  <2>2. /\ M = Reserve(L, s) /\ pc'[p] = "cmt06b" /\ idx' = [idx EXCEPT ![p][x] = L.index2]
    BY <1>1, <1>4, <1>6, <1>7, <1>10, <2>1, GotoIs DEF ReserveJnl
  <2>3. s \in Slot  BY <1>4, <1>7, <2>1, SlotTypes
  <2>4. /\ s.tot_jrec_len = 1 /\ s.curr_tn = d.curr_tn /\ s.process_id = p /\ ~s.write_complete
        /\ s.in_phase2 /\ s.jnl_seqno = token[p]
    BY <1>1, <2>1 DEF JnlSlot
  <2>5. /\ Sound(M) /\ Taking(M, d, p) /\ M.index2 = L.index2
        /\ M.slot[M.index2].jnl_seqno = token[p] /\ M.slot[M.index2].in_phase2
        /\ \A q : Spares(M, L, q)
    BY <1>4, <1>5, <1>10, <2>2, <2>3, <2>4, ReserveTaking
  <2>6. idx'[p][x] = M.index2
    <3>1. L.index2 \in Index  BY <1>4, LogFields
    <3> QED  BY <1>4, <2>2, <2>5, <3>1, IdxStep
  <2>7. Elsewhere(p, x) /\ Spot(p, x)' = "taking"
    <3>1. Here("cmt06b") = "taking"  BY DEF Here
    <3> QED  BY <1>1, <1>2, <1>3, <2>2, <3>1, GoesOn DEF Ahead, Behind
  <2>8. Stands("taking", M, d, p, token[p], idx'[p][x], jnl_seqno)  BY <2>5, <2>6 DEF Stands
  <2>9. Entry("taking", M, p, token[p], idx'[p][x]) /\ "taking" \in Inside
    BY DEF Entry, Entries, Inside
  <2> QED  BY <1>1, <1>2, <1>3, <1>4, <1>6, <1>8, <2>5, <2>7, <2>8, <2>9, JnlOwner
<1> QED  BY <1>9, <1>10

LEMMA PublishTaking ==
  ASSUME NEW L \in Log, Sound(L), NEW d, NEW h, Taking(L, d, h), NEW M, M = Publish(L)
  PROVE  /\ Sound(M) /\ Level(M) /\ Last(M) = L.slot[L.index2] /\ M.index1 # M.index2
         /\ DECR(M.index2) = L.index2 /\ InUse(M) = InUse(L) \cup {L.index2}
         /\ Seqnos(M, {L.index2}) = Seqnos(L, {})
         /\ Seqnos(M, {}) = Seqnos(L, {}) \cup {L.slot[L.index2].jnl_seqno}
<1>1. PICK s : s = L.slot[L.index2]  OBVIOUS
<1>2. /\ ~Full(L) /\ Follows(s, Last(L)) /\ L.rsrv = EndOf(s) /\ L.last = s.tot_jrec_len
      /\ s.tot_jrec_len = 1 /\ Succeeds(Last(L), s)
      /\ ~s.write_complete /\ (s.in_phase2 \/ Good(L.file, s))
  BY <1>1 DEF Taking
<1>3. /\ Sound(M) /\ Level(M) /\ Last(M) = s /\ M.index1 # M.index2
      /\ DECR(M.index2) = L.index2 /\ InUse(M) = InUse(L) \cup {L.index2}
      /\ Seqnos(M, {L.index2}) = Seqnos(L, {})
      /\ Seqnos(M, {}) = Seqnos(L, {}) \cup {s.jnl_seqno}
  BY <1>1, <1>2, PublishSound
<1> QED  BY <1>1, <1>3

LEMMA JnlPublish ==
  ASSUME TypeInv, TokenInv, JnlInv, NEW p \in Proc, PublishJnl(p)
  PROVE  JnlInv'
<1>1. PICK x, L, d : x = reg(p) /\ L = jb[x] /\ d = db[x]  OBVIOUS
<1>2. /\ pc[p] = "cmt06b" /\ crit' = crit /\ db' = db /\ idx' = idx /\ Loop(p, "cmt06", "cmt07")
      /\ jb' = [jb EXCEPT ![x] = Publish(L)]
  BY <1>1 DEF PublishJnl
<1>3. /\ Local(p, x) /\ Alone(p) /\ token' = token /\ upd' = upd /\ jnl_seqno' = jnl_seqno
  BY <1>1, LocalIs
<1>4. /\ x \in Region /\ crit[x] = p /\ L \in Log /\ d \in DB /\ Sound(L)
      /\ d.reg_seqno <= jnl_seqno
      /\ Stands("taking", L, d, p, token[p], idx[p][x], jnl_seqno)
  BY <1>1, <1>2, InsideKnows DEF Here, Ahead, Inside
<1>5. PICK M, s, i : M = jb'[x] /\ s = L.slot[L.index2] /\ i = L.index2  OBVIOUS
<1>6. M = Publish(L)
  <2>1. jb \in [Region -> Log]  BY DEF TypeInv, TypeOK
  <2> QED  BY <1>2, <1>4, <1>5, <2>1
<1>7. /\ Taking(L, d, p) /\ idx[p][x] = i /\ s.jnl_seqno = token[p] /\ s.in_phase2
  BY <1>4, <1>5 DEF Stands
<1>8. /\ ~Full(L) /\ Follows(s, Last(L)) /\ L.rsrv = EndOf(s) /\ L.last = s.tot_jrec_len
      /\ s.tot_jrec_len = 1 /\ s.curr_tn = d.curr_tn
      /\ s.process_id = p /\ ~s.write_complete
      /\ d.early_tn = d.curr_tn + 1 /\ d.update_underway_tn < d.curr_tn
      /\ OneMore(d.reg_seqno, Seqnos(L, {}))
  BY <1>5, <1>7 DEF Taking
<1>9. /\ Sound(M) /\ Level(M) /\ Last(M) = s /\ M.index1 # M.index2
      /\ DECR(M.index2) = i /\ InUse(M) = InUse(L) \cup {i}
      /\ Seqnos(M, {i}) = Seqnos(L, {})
  <2>1. /\ Sound(M) /\ Level(M) /\ Last(M) = s /\ M.index1 # M.index2
        /\ DECR(M.index2) = L.index2 /\ InUse(M) = InUse(L) \cup {L.index2}
        /\ Seqnos(M, {L.index2}) = Seqnos(L, {})
    BY <1>4, <1>5, <1>6, <1>7, PublishTaking
  <2> QED  BY <1>5, <2>1
<1>10. M.rsrv = L.rsrv /\ M.slot = L.slot /\ M.file = L.file  BY <1>4, <1>6, PublishIs
<1>11. /\ d.curr_tn \in Nat /\ d.reg_seqno \in Nat /\ d.update_underway_tn \in Nat
       /\ token[p] \in Nat /\ token[p] = jnl_seqno
  BY <1>2, <1>4, DBFields DEF TokenInv, Token, Published, TypeInv, TypeOK
<1>12. (\A y \in Seqnos(L, {}) : y <= token[p]) /\ token[p] > 0
  <2>1. PICK X, g : X = Seqnos(L, {}) /\ g = d.reg_seqno  OBVIOUS
  <2>2. X \subseteq Nat /\ g \in Nat /\ g <= token[p] /\ OneMore(g, X)
    BY <1>4, <1>8, <1>11, <2>1, SeqnosType
  <2>3. (\A y \in X : y <= token[p]) /\ token[p] > 0  BY <1>11, <2>2 DEF OneMore
  <2> QED  BY <2>1, <2>3
<1>13. Logged(M, d, p)
  <2>1. d.update_underway_tn <= d.curr_tn /\ d.reg_seqno <= s.jnl_seqno + 1
    BY <1>4, <1>7, <1>8, <1>11
  <2>2. (\A y \in Seqnos(M, {i}) : y <= s.jnl_seqno) /\ OneMore(d.reg_seqno, Seqnos(M, {i}))
    BY <1>7, <1>8, <1>9, <1>12
  <2> QED  BY <1>7, <1>8, <1>9, <1>10, <1>12, <2>1, <2>2 DEF Logged
<1>14. Stands("logged", M, d, p, token[p], idx[p][x], jnl_seqno)
  BY <1>7, <1>8, <1>9, <1>11, <1>13 DEF Stands
<1>15. Entry("logged", M, p, token[p], idx[p][x])
  BY <1>5, <1>7, <1>8, <1>9, <1>10 DEF Entry
<1>16. \A q : Spares(M, L, q)  BY <1>9, <1>10, SparesFrame
<1>17. Elsewhere(p, x) /\ Spot(p, x)' = "logged"
  BY <1>1, <1>2, <1>3, Leaves DEF Here, Ahead, Behind
<1>18. crit'[x] = p /\ p # NoProc /\ "logged" \in Inside  BY <1>2, <1>4, RegionIs DEF Inside
<1> QED  BY <1>1, <1>2, <1>3, <1>4, <1>5, <1>9, <1>14, <1>15, <1>16, <1>17, <1>18, JnlOwner

-----------------------------------------------------------------------------
(* The steps out of crit *)

(* What p knows of the region it has left. *)
LEMMA OutsideKnows ==
  ASSUME TypeInv, JnlInv, NEW p \in Proc, pc[p] \notin {"idle", "dead"}, NEW w, w = Here(pc[p]),
         w \notin Inside \cup {"dead"}, NEW x, x = reg(p)
  PROVE  /\ x \in Region /\ crit[x] # p /\ jb[x] \in Log /\ Sound(jb[x])
         /\ Entry(w, jb[x], p, token[p], idx[p][x])
<1>1. x \in Region /\ Spot(p, x) = w  BY HereIs
<1>2. PlaceInv(p, x) /\ RegionInv(x)  BY <1>1 DEF JnlInv
<1>3. Owns(w, crit[x], p)  BY <1>1, <1>2 DEF PlaceInv
<1>4. crit[x] # p  BY <1>3 DEF Owns
<1> QED  BY <1>1, <1>2, <1>4 DEF PlaceInv, RegionInv, TypeInv, TypeOK

LEMMA JnlFill ==
  ASSUME TypeInv, TokenInv, JnlInv, NEW p \in Proc, WriteJnl(p)
  PROVE  JnlInv'
<1>1. PICK x, L, i, f : /\ x = reg(p) /\ L = jb[x] /\ i = idx[p][x]
                        /\ f = Store(L.file, L.slot[i].start, UpdateRecord(L, p, i))
  OBVIOUS
<1>2. /\ pc[p] = "cmt16" /\ crit' = crit /\ db' = db /\ rem' = rem /\ idx' = idx
      /\ pc'[p] = "cmt16c" /\ jb' = [jb EXCEPT ![x].file = f]
  BY <1>1, GotoIs DEF WriteJnl
<1>3. /\ Local(p, x) /\ Alone(p) /\ token' = token /\ upd' = upd /\ jnl_seqno' = jnl_seqno
  BY <1>1, LocalIs
<1>4. /\ x \in Region /\ crit[x] # p /\ L \in Log /\ Sound(L) /\ Entry("owed", L, p, token[p], i)
  BY <1>1, <1>2, OutsideKnows DEF Here, Ahead, Inside
<1>5. /\ i \in InUse(L) /\ ~L.slot[i].write_complete /\ L.slot[i].in_phase2
      /\ L.slot[i].process_id = p /\ L.slot[i].jnl_seqno = token[p] /\ i \in Index
  BY <1>4 DEF Entry, Entries, InUse
<1>6. PICK rec : rec = UpdateRecord(L, p, i)  OBVIOUS
<1>7. /\ rec \in Record /\ rec.tn = L.slot[i].curr_tn /\ rec.jnl_seqno = L.slot[i].jnl_seqno
      /\ f = Store(L.file, L.slot[i].start, rec)
  <2>1. rec \in Record  BY <1>4, <1>5, <1>6, SlotTypes
  <2>2. rec.tn = L.slot[i].curr_tn /\ rec.jnl_seqno = token[p]  BY <1>6 DEF UpdateRecord
  <2> QED  BY <1>1, <1>5, <1>6, <2>1, <2>2
<1>8. PICK M : M = jb'[x]  OBVIOUS
<1>9. /\ M \in Log /\ M.free = L.free /\ M.rsrv = L.rsrv /\ M.last = L.last
      /\ M.index1 = L.index1 /\ M.index2 = L.index2 /\ M.slot = L.slot /\ M.file = f
  <2>1. f \in Seq(Record)
    <3>1. L.file \in Seq(Record) /\ L.slot[i].start \in Nat  BY <1>4, <1>5, LogFields, SlotFields
    <3> QED  BY <1>7, <3>1, StoreIs
  <2>2. M = [L EXCEPT !.file = f]  BY <1>1, <1>2, <1>4, <1>8 DEF TypeInv, TypeOK
  <2> QED  BY <1>4, <2>1, <2>2, FileIs
<1>10. Worked(M, L, {}) /\ Good(M.file, M.slot[i])  BY <1>4, <1>5, <1>7, <1>9, StoreWorked
<1>11. Entry("filled", M, p, token[p], i)
  <2>1. InUse(M) = InUse(L)  BY <1>9, InUseFrame
  <2> QED  BY <1>5, <1>9, <1>10, <2>1 DEF Entry
<1>12. Elsewhere(p, x) /\ Spot(p, x)' = "filled"
  <2>1. Here("cmt16c") = "filled"  BY DEF Here
  <2> QED  BY <1>1, <1>2, <1>3, <2>1, GoesOn DEF Ahead, Behind
<1>13. "filled" \notin Inside  BY DEF Inside
<1>14. PICK C : C = {}  OBVIOUS
<1>15. Worked(M, L, C) /\ \A j \in C : L.slot[j].process_id = p  BY <1>10, <1>14
<1> QED  BY <1>1, <1>2, <1>3, <1>4, <1>8, <1>11, <1>12, <1>13, <1>15, JnlOutside

LEMMA JnlComplete ==
  ASSUME TypeInv, TokenInv, JnlInv, NEW p \in Proc, JnlWriteComplete(p)
  PROVE  JnlInv'
<1>1. PICK x, L, i : x = reg(p) /\ L = jb[x] /\ i = idx[p][x]  OBVIOUS
<1>2. /\ pc[p] = "cmt16c" /\ crit' = crit /\ db' = db /\ idx' = idx /\ Loop(p, "cmt16", "cmt17")
      /\ jb' = [jb EXCEPT ![x] = WriteComplete(L, i, p, FALSE, Alive)]
  BY <1>1 DEF JnlWriteComplete
<1>3. /\ Local(p, x) /\ Alone(p) /\ token' = token /\ upd' = upd /\ jnl_seqno' = jnl_seqno
  BY <1>1, LocalIs
<1>4. /\ x \in Region /\ crit[x] # p /\ L \in Log /\ Sound(L) /\ Entry("filled", L, p, token[p], i)
  BY <1>1, <1>2, OutsideKnows DEF Here, Inside
<1>5. i \in InUse(L) /\ L.slot[i].process_id = p /\ Good(L.file, L.slot[i])
  BY <1>4 DEF Entry, Entries
<1>6. PICK M : M = jb'[x]  OBVIOUS
<1>7. M = WriteComplete(L, i, p, FALSE, Alive)
  <2>1. jb \in [Region -> Log]  BY DEF TypeInv, TypeOK
  <2> QED  BY <1>2, <1>4, <1>6, <2>1
<1>8. PICK C : C = {i}  OBVIOUS
<1>9. Worked(M, L, C) /\ \A j \in C : L.slot[j].process_id = p
  <2>1. Worked(M, L, {i})  BY <1>4, <1>5, <1>7, WriteCompleteWorked
  <2> QED  BY <1>5, <1>8, <2>1
<1>10. Entry("out", M, p, token[p], i) /\ "out" \notin Inside  BY DEF Entry, Entries, Inside
<1>11. Elsewhere(p, x) /\ Spot(p, x)' = "out"
  BY <1>1, <1>2, <1>3, Leaves DEF Here, Ahead, Behind
<1> QED  BY <1>1, <1>2, <1>3, <1>4, <1>6, <1>9, <1>10, <1>11, JnlOutside

LEMMA JnlTidy ==
  ASSUME TypeInv, JnlInv, NEW x \in Region, JnlCleanup(x)
  PROVE  JnlInv'
<1>1. PICK L, M : L = jb[x] /\ M = jb'[x]  OBVIOUS
<1>2. /\ pc' = pc /\ upd' = upd /\ rem' = rem /\ token' = token /\ idx' = idx /\ crit' = crit
      /\ db' = db /\ jnl_seqno' = jnl_seqno
      /\ jb' = [jb EXCEPT ![x] = Cleanup(jb[x], NoProc, FALSE, Alive)]
  BY DEF JnlCleanup, procvars
<1>3. L \in Log /\ jb \in [Region -> Log]  BY <1>1 DEF TypeInv, TypeOK
<1>4. M = Cleanup(L, NoProc, FALSE, Alive)  BY <1>1, <1>2, <1>3
<1>5. \A r \in Region : r # x => jb'[r] = jb[r]  BY <1>2, <1>3
<1>6. \A r \in Region : RegionInv(r) /\ \A q \in Proc : PlaceInv(q, r)  BY DEF JnlInv
<1>7. PICK C : C = {}  OBVIOUS
<1>8. Worked(M, L, C)
  <2>1. Sound(L)  BY <1>1, <1>6 DEF RegionInv
  <2>2. Worked(M, L, {})  BY <1>3, <1>4, <2>1, CleanupWorked
  <2> QED  BY <1>7, <2>2
<1>9. ASSUME NEW r \in Region  PROVE RegionInv(r)'
  <2>1. CASE r # x  BY <1>2, <1>5, <1>6, <2>1 DEF RegionInv
  <2>2. CASE r = x
    <3>1. Rest(L, db[x]) => Rest(M, db[x])  BY <1>3, <1>8, CalmTidied DEF Rest, Worked
    <3>2. Sound(M)  BY <1>8 DEF Worked, Carried
    <3> QED  BY <1>1, <1>2, <1>6, <2>2, <3>1, <3>2 DEF RegionInv
  <2> QED  BY <2>1, <2>2
<1>10. ASSUME NEW r \in Region, NEW q \in Proc  PROVE PlaceInv(q, r)'
  <2>1. PICK v : v = Spot(q, r)  OBVIOUS
  <2>2. Spot(q, r)' = v
    <3>1. Spot(q, r)' = Spot(q, r)  BY <1>2, SpotSame
    <3> QED  BY <2>1, <3>1
  <2>3. /\ Owns(v, crit[r], q) /\ Entry(v, jb[r], q, token[q], idx[q][r])
        /\ crit[r] = q => Stands(v, jb[r], db[r], q, token[q], idx[q][r], jnl_seqno)
    BY <1>6, <2>1 DEF PlaceInv
  <2>4. /\ Entry(v, jb'[r], q, token[q], idx[q][r])
        /\ crit[r] = q => Stands(v, jb'[r], db[r], q, token[q], idx[q][r], jnl_seqno)
    <3>1. CASE r # x  BY <1>5, <2>3, <3>1
    <3>2. CASE r = x
      <4>1. \A j \in C : L.slot[j].process_id # q  BY <1>7
      <4>2. Spares(M, L, q)  BY <1>3, <1>8, <4>1, SparesTidied DEF Worked
      <4>3. Entry(v, M, q, token[q], idx[q][r])  BY <1>1, <2>3, <3>2, <4>2, EntrySpared
      <4>4. crit[r] = q => Stands(v, M, db[r], q, token[q], idx[q][r], jnl_seqno)
        BY <1>1, <1>3, <1>8, <2>3, <3>2, <4>1, StandsWorked
      <4> QED  BY <1>1, <3>2, <4>3, <4>4
    <3> QED  BY <3>1, <3>2
  <2> QED  BY <1>2, <2>2, <2>3, <2>4 DEF PlaceInv
<1> QED  BY <1>9, <1>10 DEF JnlInv

-----------------------------------------------------------------------------
(* Into crit: mutex_clean_dead_owner and wcs_recover *)

LEMMA CleanFields ==
  ASSUME NEW x, NEW d \in DB, d = db[x], NEW e, e = CleanDeadDB(x),
         Last(jb[x]).jnl_seqno \in Nat
  PROVE  /\ e.update_underway_tn = d.update_underway_tn
         /\ ~InCommit(x) => /\ e.curr_tn = d.curr_tn /\ e.early_tn = d.early_tn
                            /\ e.reg_seqno = d.reg_seqno
         /\ InCommit(x) /\ ~Underway(x) => /\ e.curr_tn = d.curr_tn /\ e.early_tn = d.curr_tn
                                           /\ e.reg_seqno = d.reg_seqno
         /\ InCommit(x) /\ Underway(x) => /\ e.curr_tn = d.early_tn /\ e.early_tn = d.early_tn
                                          /\ e.reg_seqno = Last(jb[x]).jnl_seqno + 1
<1>1. CASE ~InCommit(x)
  <2>1. e = [d EXCEPT !.wc_blocked = TRUE]  BY <1>1 DEF CleanDeadDB
  <2> QED  BY <1>1, <2>1 DEF DB
<1>2. CASE InCommit(x) /\ ~Underway(x)
  <2>1. e = [[d EXCEPT !.early_tn = d.curr_tn] EXCEPT !.wc_blocked = TRUE]
    BY <1>2 DEF CleanDeadDB
  <2> QED  BY <1>2, <2>1 DEF DB
<1>3. CASE InCommit(x) /\ Underway(x)
  <2>1. PICK g : g = Last(jb[x]).jnl_seqno + 1  OBVIOUS
  <2>2. e = [[d EXCEPT !.reg_seqno = g, !.curr_tn = d.early_tn] EXCEPT !.wc_blocked = TRUE]
    BY <1>3, <2>1 DEF CleanDeadDB
  <2> QED  BY <1>3, <2>1, <2>2 DEF DB
<1> QED  BY <1>1, <1>2, <1>3

(* Whether or not a reservation was begun, the newest entry is the one before *)
(* curr_tn, or an INCTN record.                                               *)
Ready(L, d) ==
  /\ \/ Last(L).curr_tn + 1 = d.curr_tn
     \/ Last(L).curr_tn = d.curr_tn /\ Last(L).jnl_seqno = 0
  /\ d.update_underway_tn < d.curr_tn /\ OneMore(d.reg_seqno, Seqnos(L, {}))

(* A reservation that was not published is undone by the newest slot. *)
LEMMA RealignNear ==
  ASSUME NEW L \in Log, Sound(L), NEW M, M = Realign(L), NEW d \in DB, Ready(L, d), NEW e,
         e.curr_tn = d.curr_tn, e.reg_seqno = d.reg_seqno,
         e.update_underway_tn = d.update_underway_tn
  PROVE  Sound(M) /\ Near(M, e) /\ \A q : Spares(M, L, q)
<1>1. /\ M \in Log /\ Level(M)
      /\ M.free = L.free /\ M.index1 = L.index1 /\ M.index2 = L.index2
      /\ M.slot = L.slot /\ M.file = L.file /\ M.rsrv = EndOf(Last(L))
  BY RealignIs
<1>2. Sound(M) /\ Seqnos(M, {}) = Seqnos(L, {})  BY <1>1, SoundFrame
<1>3. InUse(M) = InUse(L)  BY <1>1, InUseFrame
<1>6. Last(M) = Last(L)  BY <1>1 DEF Last
<1>4. Near(M, e)  BY <1>1, <1>2, <1>6 DEF Ready, Near, Calm, Redo, Base
<1>5. \A q : Spares(M, L, q)  BY <1>1, <1>3, SparesFrame
<1> QED  BY <1>2, <1>4, <1>5

(* The INCTN record of a dead wcs_recover is withdrawn. *)
LEMMA WithdrawNear ==
  ASSUME NEW L \in Log, Sound(L), NEW M, M = Withdraw(L), L.index1 # L.index2, NEW d \in DB,
         Ready(L, d), Last(L).curr_tn = d.curr_tn, NEW e,
         e.curr_tn = d.curr_tn, e.reg_seqno = d.reg_seqno,
         e.update_underway_tn = d.update_underway_tn
  PROVE  Sound(M) /\ Near(M, e)
<1>1. /\ Sound(M) /\ Level(M) /\ Seqnos(M, {}) = Seqnos(L, {DECR(L.index2)})
      /\ Succeeds(Last(M), Last(L))
  BY WithdrawSound
<1>2. d.curr_tn \in Nat /\ d.reg_seqno \in Nat  BY DBFields
<1>3. Last(L).jnl_seqno = 0  BY <1>2 DEF Ready
<1>4. PICK X, Y, g : X = Seqnos(L, {}) /\ Y = Seqnos(M, {}) /\ g = d.reg_seqno  OBVIOUS
<1>5. X = Y \cup {0}  BY <1>1, <1>3, <1>4, SeqnosAll
<1>6. OneMore(g, X)  BY <1>4 DEF Ready
<1>7. OneMore(g, Y)  BY <1>2, <1>4, <1>5, <1>6 DEF OneMore
<1>8. Base(M, e)  BY <1>1, <1>4, <1>7 DEF Base, Ready
<1> QED  BY <1>1, <1>8 DEF Near, Calm, Redo, Succeeds

(* What mutex_clean_dead_owner leaves. *)
Mended(L, d) == Near(L, d) /\ d.early_tn = d.curr_tn

(* What a dead owner left is brought in order. *)
LEMMA CleanRegion ==
  ASSUME TypeInv, NEW x \in Region, NEW h, NEW L, NEW d, L = jb[x], d = db[x], Sound(L),
         d.reg_seqno <= jnl_seqno, NEW t, NEW i, Stands("dead", L, d, h, t, i, jnl_seqno),
         NEW M, M = CleanDeadJnl(x, h), NEW e, e = CleanDeadDB(x)
  PROVE  /\ Sound(M) /\ Mended(M, e) /\ e.reg_seqno <= jnl_seqno
         /\ \A q : q # h => Spares(M, L, q)
<1>1. L \in Log /\ d \in DB /\ jnl_seqno \in Nat  BY DEF TypeInv, TypeOK
<1>2. /\ d.curr_tn \in Nat /\ d.update_underway_tn \in Nat
      /\ Last(L).jnl_seqno \in Nat /\ Last(L).curr_tn \in Nat
  BY <1>1, DBFields, LogFields, LastType, SlotFields
<1>3. /\ e.update_underway_tn = d.update_underway_tn
      /\ ~InCommit(x) => /\ e.curr_tn = d.curr_tn /\ e.early_tn = d.early_tn
                         /\ e.reg_seqno = d.reg_seqno
      /\ InCommit(x) /\ ~Underway(x) => /\ e.curr_tn = d.curr_tn /\ e.early_tn = d.curr_tn
                                        /\ e.reg_seqno = d.reg_seqno
      /\ InCommit(x) /\ Underway(x) => /\ e.curr_tn = d.early_tn /\ e.early_tn = d.early_tn
                                       /\ e.reg_seqno = Last(L).jnl_seqno + 1
  BY <1>1, <1>2, CleanFields
<1>4. (InCommit(x) <=> d.early_tn # d.curr_tn) /\ (Underway(x) <=> d.update_underway_tn = d.curr_tn)
  BY DEF InCommit, Underway
<1>6. \A q : Spares(L, L, q)  BY SparesFrame
<1>7. CASE Near(L, d) /\ d.early_tn = d.curr_tn
  <2>1. ~InCommit(x)  BY <1>4, <1>7
  <2>2. M = L  BY <2>1 DEF CleanDeadJnl
  <2>3. Near(L, e)  BY <1>3, <1>7, <2>1 DEF Near, Calm, Redo, Base
  <2> QED  BY <1>3, <1>6, <1>7, <2>1, <2>2, <2>3 DEF Mended
<1>8. CASE (Near(L, d) /\ d.early_tn = d.curr_tn + 1) \/ Taking(L, d, h)
  <2>1. Ready(L, d) /\ d.early_tn = d.curr_tn + 1
    <3>1. CASE Near(L, d) /\ d.early_tn = d.curr_tn + 1
      BY <3>1 DEF Ready, Near, Calm, Redo, Base
    <3>2. CASE Taking(L, d, h)  BY <3>2 DEF Taking, Succeeds, Ready
    <3> QED  BY <1>8, <3>1, <3>2
  <2>2. InCommit(x) /\ ~Underway(x)  BY <1>2, <1>4, <2>1 DEF Ready
  <2>3. CASE /\ L.index1 # L.index2 /\ Last(L).process_id = h /\ Last(L).curr_tn = d.curr_tn
    <3>1. M = Withdraw(L)  BY <2>2, <2>3 DEF CleanDeadJnl
    <3>2. Sound(M) /\ Near(M, e)  BY <1>1, <1>3, <2>1, <2>2, <2>3, <3>1, WithdrawNear
    <3>3. \A q : q # h => Spares(M, L, q)  BY <1>1, <2>3, <3>1, SparesWithdraw
    <3> QED  BY <1>3, <2>2, <3>2, <3>3 DEF Mended
  <2>4. CASE ~(L.index1 # L.index2 /\ Last(L).process_id = h /\ Last(L).curr_tn = d.curr_tn)
    <3>1. M = Realign(L)  BY <2>2, <2>4 DEF CleanDeadJnl
    <3>2. Sound(M) /\ Near(M, e) /\ \A q : Spares(M, L, q)
      BY <1>1, <1>3, <2>1, <2>2, <3>1, RealignNear
    <3> QED  BY <1>3, <2>2, <3>2 DEF Mended
  <2> QED  BY <2>3, <2>4
<1>9. CASE Logged(L, d, h) /\ d.update_underway_tn # d.curr_tn
  <2>1. /\ L.index1 # L.index2 /\ Last(L).process_id = h /\ Last(L).curr_tn = d.curr_tn
        /\ d.early_tn = d.curr_tn + 1
    BY <1>9 DEF Logged
  <2>2. InCommit(x) /\ ~Underway(x)  BY <1>2, <1>4, <1>9, <2>1
  <2>3. M = Withdraw(L)  BY <2>1, <2>2 DEF CleanDeadJnl
  <2>4. Sound(M) /\ Rest(M, e)  BY <1>1, <1>3, <1>9, <2>2, <2>3, LoggedBack
  <2>5. \A q : q # h => Spares(M, L, q)  BY <1>1, <2>1, <2>3, SparesWithdraw
  <2> QED  BY <1>3, <2>2, <2>4, <2>5 DEF Rest, Near, Mended
<1>10. CASE Logged(L, d, h) /\ d.update_underway_tn = d.curr_tn /\ Last(L).jnl_seqno < jnl_seqno
  <2>1. InCommit(x) /\ Underway(x)  BY <1>2, <1>4, <1>10 DEF Logged
  <2>2. M = L  BY <2>1 DEF CleanDeadJnl
  <2>3. Rest(L, e)  BY <1>1, <1>3, <1>10, <2>1, LoggedForward
  <2>4. e.reg_seqno <= jnl_seqno  BY <1>1, <1>2, <1>3, <1>10, <2>1
  <2> QED  BY <1>6, <2>2, <2>3, <2>4 DEF Rest, Near, Mended
<1> QED  BY <1>7, <1>8, <1>9, <1>10 DEF Stands

LEMMA JnlGrab ==
  ASSUME TypeInv, TypeInv', TokenInv, JnlInv, NEW p \in Proc, GrabCrit(p)
  PROVE  JnlInv'
<1>1. PICK x, L, d : x = reg(p) /\ L = jb[x] /\ d = db[x]  OBVIOUS
<1>2. /\ pc[p] = "cmt01" /\ crit' = [crit EXCEPT ![x] = p] /\ idx' = idx
      /\ \/ crit[x] = NoProc /\ AfterGrab(p, d.wc_blocked) /\ db' = db /\ jb' = jb
         \/ /\ crit[x] \in Proc \ Alive /\ AfterGrab(p, TRUE)
            /\ db' = [db EXCEPT ![x] = CleanDeadDB(x)]
            /\ jb' = [jb EXCEPT ![x] = CleanDeadJnl(x, crit[x])]
  BY <1>1 DEF GrabCrit
<1>3. /\ Local(p, x) /\ Alone(p) /\ token' = token /\ upd' = upd /\ jnl_seqno' = jnl_seqno
  BY <1>1, LocalIs
<1>4. x \in Region  BY <1>1, <1>2, HereIs
<1>5. RegionInv(x) /\ L \in Log /\ d \in DB  BY <1>1, <1>4 DEF JnlInv, TypeInv, TypeOK
<1>6. PICK M, e : M = jb'[x] /\ e = db'[x]  OBVIOUS
<1>7. /\ crit[x] \notin Proc \/ pc[crit[x]] = "dead"
      /\ Sound(M) /\ Mended(M, e) /\ e.reg_seqno <= jnl_seqno
      /\ \A q \in Proc : pc[q] # "dead" => Spares(M, L, q)
      /\ AfterGrab(p, TRUE) \/ Rest(M, e)
  <2>1. CASE crit[x] = NoProc /\ db' = db /\ jb' = jb
    <3>1. \A q : Spares(L, L, q)  BY SparesFrame
    <3> QED  BY <1>1, <1>5, <1>6, <2>1, <3>1, RegionIs DEF RegionInv, Rest, Near, Mended
  <2>2. CASE /\ crit[x] \in Proc \ Alive /\ AfterGrab(p, TRUE)
             /\ db' = [db EXCEPT ![x] = CleanDeadDB(x)]
             /\ jb' = [jb EXCEPT ![x] = CleanDeadJnl(x, crit[x])]
    <3>1. PICK h : h = crit[x]  OBVIOUS
    <3>2. h \in Proc /\ pc[h] = "dead"  BY <2>2, <3>1 DEF Alive
    <3>3. M = CleanDeadJnl(x, h) /\ e = CleanDeadDB(x)
      BY <1>4, <1>6, <2>2, <3>1 DEF TypeInv, TypeOK
    <3>4. Spot(h, x) = "dead"  BY <3>2, DeadSpot
    <3>5. Stands("dead", L, d, h, token[h], idx[h][x], jnl_seqno)
      BY <1>1, <1>4, <3>1, <3>2, <3>4 DEF JnlInv, PlaceInv
    <3>6. Sound(L) /\ d.reg_seqno <= jnl_seqno  BY <1>1, <1>5 DEF RegionInv
    <3>7. /\ Sound(M) /\ Mended(M, e) /\ e.reg_seqno <= jnl_seqno
          /\ \A q : q # h => Spares(M, L, q)
      BY <1>1, <1>4, <3>3, <3>5, <3>6, CleanRegion
    <3> QED  BY <2>2, <3>1, <3>2, <3>7
  <2> QED  BY <1>2, <2>1, <2>2
<1>8. \/ pc'[p] = "recover" /\ rem'[p] = rem[p]
      \/ Loop(p, "cmt01", "grabpool") /\ Rest(M, e)
  BY <1>2, <1>7, GotoIs DEF AfterGrab
<1>9. PICK w : w = Spot(p, x)'  OBVIOUS
<1>10. Elsewhere(p, x) /\ (w = "recover" \/ (w = "rest" /\ Rest(M, e)))
  <2>1. CASE pc'[p] = "recover" /\ rem'[p] = rem[p]
    <3>1. Here("recover") = "recover"  BY DEF Here
    <3>2. Elsewhere(p, x) /\ w = "recover"
      BY <1>1, <1>2, <1>3, <1>9, <2>1, <3>1, GoesOn DEF Ahead, Behind
    <3> QED  BY <3>2
  <2>2. CASE Loop(p, "cmt01", "grabpool") /\ Rest(M, e)
    BY <1>1, <1>2, <1>3, <1>9, <2>2, Leaves DEF Here, Ahead, Behind
  <2> QED  BY <1>8, <2>1, <2>2
<1>11. Stands(w, M, e, p, token[p], idx'[p][x], jnl_seqno)  BY <1>7, <1>10 DEF Stands, Mended
<1>12. Entry(w, M, p, token[p], idx'[p][x]) /\ w \in Inside  BY <1>10 DEF Entry, Entries, Inside
<1>13. crit'[x] = p /\ p # NoProc  BY <1>2, <1>4, RegionIs DEF TypeInv, TypeOK
<1> QED  BY <1>1, <1>3, <1>4, <1>6, <1>7, <1>9, <1>10, <1>11, <1>12, <1>13, JnlOwner

LEMMA JnlRecover ==
  ASSUME TypeInv, TypeInv', TokenInv, JnlInv, NEW p \in Proc, Recover(p)
  PROVE  JnlInv'
<1>1. PICK x, L, d : x = reg(p) /\ L = jb[x] /\ d = db[x]  OBVIOUS
<1>2. PICK K : K = Cleanup(L, p, TRUE, Alive)  OBVIOUS
<1>3. pc[p] = "recover" /\ crit' = crit /\ rem' = rem /\ db' = [db EXCEPT ![x].early_tn = d.curr_tn + 1]
  BY <1>1 DEF Recover
<1>4. /\ Local(p, x) /\ Alone(p) /\ token' = token /\ upd' = upd /\ jnl_seqno' = jnl_seqno
  BY <1>1, LocalIs
<1>5. /\ x \in Region /\ crit[x] = p /\ L \in Log /\ d \in DB /\ Sound(L)
      /\ d.reg_seqno <= jnl_seqno
      /\ Stands("recover", L, d, p, token[p], idx[p][x], jnl_seqno)
  BY <1>1, <1>3, InsideKnows DEF Here, Inside
<1>6. Near(L, d)  BY <1>5 DEF Stands
<1>7. /\ K \in Log /\ Sound(K) /\ Near(K, d)
      /\ \A q \in Proc : pc[q] # "dead" => Spares(K, L, q)
  BY <1>2, <1>5, <1>6, CleanupCalm
<1>8. PICK M, e : M = jb'[x] /\ e = db'[x]  OBVIOUS
<1>9. /\ e.curr_tn = d.curr_tn /\ e.early_tn = d.curr_tn + 1 /\ e \in DB
      /\ e.update_underway_tn = d.update_underway_tn /\ e.reg_seqno = d.reg_seqno
  <2>1. e \in DB  BY <1>5, <1>8 DEF TypeInv, TypeOK
  <2>2. e = [d EXCEPT !.early_tn = d.curr_tn + 1]
    BY <1>1, <1>3, <1>5, <1>8 DEF TypeInv, TypeOK
  <2> QED  BY <1>5, <2>1, <2>2 DEF DB
<1>10. Near(K, e)  BY <1>7, <1>9 DEF Near, Calm, Redo, Base
<1>11. jb \in [Region -> Log]  BY DEF TypeInv, TypeOK
<1>12. crit'[x] = p /\ p # NoProc  BY <1>3, <1>5, RegionIs
<1>13. CASE Full(K)
  <2>1. M = K /\ pc' = pc /\ idx' = idx
    BY <1>1, <1>2, <1>5, <1>8, <1>11, <1>13 DEF Recover
  <2>2. Elsewhere(p, x) /\ Spot(p, x)' = "recover"
    <3>1. Here("recover") = "recover"  BY DEF Here
    <3> QED  BY <1>1, <1>3, <1>4, <2>1, <3>1, GoesOn
  <2>3. Stands("recover", M, e, p, token[p], idx'[p][x], jnl_seqno)
    BY <1>9, <1>10, <2>1 DEF Stands
  <2>4. Entry("recover", M, p, token[p], idx'[p][x]) /\ "recover" \in Inside
    BY DEF Entry, Entries, Inside
  <2> QED  BY <1>1, <1>4, <1>5, <1>7, <1>8, <1>9, <1>12, <2>1, <2>2, <2>3, <2>4, JnlOwner
<1>14. CASE ~Full(K)
  <2>1. PICK s, rec, f : /\ s = JnlSlot(x, p, 0, FALSE) /\ rec = Inctn(x, p)
                         /\ f = Store(K.file, K.rsrv, rec)
    OBVIOUS
  <2>2. PICK F : F = [K EXCEPT !.file = f]  OBVIOUS
  <2>3. M = Reserve(F, s) /\ pc'[p] = "recoverb" /\ idx' = [idx EXCEPT ![p][x] = K.index2]
    <3>1. /\ jb' = [jb EXCEPT ![x] = Reserve(F, s)] /\ Goto(p, "recoverb")
          /\ idx' = [idx EXCEPT ![p][x] = K.index2]
      BY <1>1, <1>2, <1>14, <2>1, <2>2 DEF Recover
    <3> QED  BY <1>5, <1>8, <1>11, <3>1, GotoIs
  <2>4. s \in Slot /\ rec \in Record  BY <1>5, <2>1, SlotTypes
  <2>5. /\ s.tot_jrec_len = 1 /\ s.curr_tn = e.curr_tn /\ s.process_id = p /\ ~s.write_complete
        /\ ~s.in_phase2 /\ s.jnl_seqno = 0 /\ rec.tn = s.curr_tn /\ rec.jnl_seqno = 0
    BY <1>1, <1>9, <2>1 DEF JnlSlot, Inctn
  <2>6. f \in Seq(Record)
    <3>1. K.file \in Seq(Record) /\ K.rsrv \in Nat  BY <1>7, LogFields
    <3> QED  BY <2>1, <2>4, <3>1, StoreIs
  <2>7. /\ F \in Log /\ F.free = K.free /\ F.rsrv = K.rsrv /\ F.last = K.last
        /\ F.index1 = K.index1 /\ F.index2 = K.index2 /\ F.slot = K.slot /\ F.file = f
    BY <1>7, <2>2, <2>6, FileIs
  <2>8. Level(K)  BY <1>7 DEF Near, Calm, Redo, Base
  <2>9. /\ Sound(F) /\ (\A D : Carried(F, K, D))
        /\ F.rsrv < Len(F.file) /\ F.file[F.rsrv + 1] = rec
    <3>1. /\ Sound(F) /\ (\A D : Carried(F, K, D))
          /\ K.rsrv < Len(F.file) /\ F.file[K.rsrv + 1] = rec
      BY <1>7, <2>1, <2>4, <2>7, <2>8, StoreBeyond
    <3> QED  BY <2>7, <3>1
  <2>10. PICK C : C = {}  OBVIOUS
  <2>11. Tidied(F, K, C) /\ ~Full(F)
    <3>1. InUse(F) = InUse(K) /\ ~Full(F)  BY <1>14, <2>7, InUseFrame
    <3> QED  BY <2>7, <3>1 DEF Tidied, Alike
  <2>12. Near(F, e)  BY <1>7, <1>10, <2>9, <2>11, CalmTidied DEF Near
  <2>13. \A q : Spares(F, K, q)
    <3>1. \A q : \A j \in C : K.slot[j].process_id # q  BY <2>10
    <3> QED  BY <1>7, <2>9, <2>11, <3>1, SparesTidied
  <2>14. /\ Sound(M) /\ Taking(M, e, p) /\ M.index2 = F.index2
         /\ M.slot[M.index2].jnl_seqno = s.jnl_seqno /\ M.slot[M.index2].in_phase2 = s.in_phase2
         /\ s.in_phase2 \/ Good(M.file, M.slot[M.index2])
         /\ \A q : Spares(M, F, q)
    BY <1>9, <2>3, <2>4, <2>5, <2>7, <2>9, <2>11, <2>12, ReserveTaking
  <2>15. \A q \in Proc : pc[q] # "dead" => Spares(M, L, q)
    BY <1>7, <2>13, <2>14, SparesTrans
  <2>16. idx'[p][x] = M.index2
    <3>1. K.index2 \in Index  BY <1>7, LogFields
    <3> QED  BY <1>5, <2>3, <2>7, <2>14, <3>1, IdxStep
  <2>17. Elsewhere(p, x) /\ Spot(p, x)' = "recoverb"
    <3>1. Here("recoverb") = "recoverb"  BY DEF Here
    <3> QED  BY <1>1, <1>3, <1>4, <2>3, <3>1, GoesOn DEF Ahead, Behind
  <2>18. Stands("recoverb", M, e, p, token[p], idx'[p][x], jnl_seqno)
    BY <2>5, <2>14, <2>16 DEF Stands
  <2>19. Entry("recoverb", M, p, token[p], idx'[p][x]) /\ "recoverb" \in Inside
    BY DEF Entry, Entries, Inside
  <2> QED  BY <1>1, <1>4, <1>5, <1>8, <1>9, <1>12, <2>14, <2>15, <2>17, <2>18, <2>19, JnlOwner
<1> QED  BY <1>13, <1>14

(* jnl_write's last steps: the slot is made visible and complete. *)
LEMMA WrittenDone ==
  ASSUME TypeInv, NEW L \in Log, Sound(L), NEW p \in Proc, NEW d \in DB, Taking(L, d, p),
         NEW i, i = L.index2, Good(L.file, L.slot[i]), L.slot[i].jnl_seqno = 0,
         NEW M, M = WriteComplete(Publish(L), i, p, TRUE, Alive)
  PROVE  /\ Sound(M) /\ Redo(M, d)
         /\ \A q \in Proc : q # p /\ pc[q] # "dead" => Spares(M, L, q)
<1>1. PICK K : K = Publish(L)  OBVIOUS
<1>2. /\ K \in Log /\ K.rsrv = L.rsrv /\ K.file = L.file /\ K.slot = L.slot  BY <1>1, PublishIs
<1>3. /\ Sound(K) /\ Level(K) /\ i \in InUse(K) /\ InUse(L) \subseteq InUse(K)
      /\ Seqnos(K, {}) = Seqnos(L, {}) \cup {0} /\ Last(K) = L.slot[i]
  BY <1>1, PublishTaking
<1>4. /\ L.slot[i].curr_tn = d.curr_tn /\ d.update_underway_tn < d.curr_tn
      /\ OneMore(d.reg_seqno, Seqnos(L, {})) /\ L.slot[i].process_id = p
  BY DEF Taking
<1>5. PICK X, g : X = Seqnos(L, {}) /\ g = d.reg_seqno  OBVIOUS
<1>6. X \subseteq Nat /\ g \in Nat /\ d.curr_tn \in Nat /\ d.update_underway_tn \in Nat
  BY <1>5, SeqnosType, DBFields
<1>7. OneMore(g, X \cup {0})  BY <1>4, <1>5, <1>6 DEF OneMore
<1>8. Redo(K, d)
  <2>1. OneMore(d.reg_seqno, Seqnos(K, {}))  BY <1>3, <1>5, <1>7
  <2> QED  BY <1>3, <1>4, <2>1 DEF Redo, Base
<1>9. PICK C, c, D : C = {i} \cup Orphans(K, p, Alive) /\ c = TRUE /\ D = {}  OBVIOUS
<1>10. M = WriteComplete(K, i, p, c, Alive) /\ i \in Index  BY <1>1, <1>3, <1>9 DEF InUse
<1>11. Tidied(M, K, C)
  <2>1. Tidied(M, K, IF c THEN {i} \cup Orphans(K, p, Alive) ELSE {i})
    BY <1>2, <1>10, WriteCompleteIs
  <2> QED  BY <1>9, <2>1
<1>12. Good(K.file, K.slot[i])  BY <1>2
<1>13. Carried(M, K, D)
  <2>1. /\ D \subseteq InUse(K) /\ i \notin D /\ \A j \in D : ~K.slot[j].write_complete
        /\ c => D \cap Orphans(K, p, Alive) = {}
    BY <1>9
  <2> QED  BY <1>2, <1>3, <1>10, <1>12, <2>1, WriteCompleteSound
<1>14. Carried(M, K, {})  BY <1>9, <1>13
<1>15. Redo(M, d) /\ Sound(M)  BY <1>2, <1>8, <1>11, <1>14, CalmTidied DEF Carried
<1>17. ASSUME NEW q \in Proc, q # p, pc[q] # "dead"  PROVE Spares(M, L, q)
  <2>1. \A j \in C : K.slot[j].process_id # q
    BY <1>2, <1>4, <1>9, <1>17 DEF Orphans, Alive
  <2>2. Spares(M, K, q)  BY <1>2, <1>11, <1>13, <2>1, SparesTidied
  <2>3. Spares(K, L, q)  BY <1>2, <1>3, SparesFrame
  <2> QED  BY <2>2, <2>3, SparesTrans
<1> QED  BY <1>15, <1>17

LEMMA JnlRecoverWritten ==
  ASSUME TypeInv, TokenInv, JnlInv, NEW p \in Proc, RecoverWritten(p)
  PROVE  JnlInv'
<1>1. PICK x, L, d, i : x = reg(p) /\ L = jb[x] /\ d = db[x] /\ i = idx[p][x]  OBVIOUS
<1>2. /\ pc[p] = "recoverb" /\ crit' = crit /\ idx' = idx /\ db' = db /\ rem' = rem
      /\ pc'[p] = "recoverc"
      /\ jb' = [jb EXCEPT ![x] = WriteComplete(Publish(L), i, p, TRUE, Alive)]
  BY <1>1, GotoIs DEF RecoverWritten
<1>3. /\ Local(p, x) /\ Alone(p) /\ token' = token /\ upd' = upd /\ jnl_seqno' = jnl_seqno
  BY <1>1, LocalIs
<1>4. /\ x \in Region /\ crit[x] = p /\ L \in Log /\ d \in DB /\ Sound(L)
      /\ d.reg_seqno <= jnl_seqno
      /\ Stands("recoverb", L, d, p, token[p], i, jnl_seqno)
  BY <1>1, <1>2, InsideKnows DEF Here, Inside
<1>5. Taking(L, d, p) /\ i = L.index2 /\ L.slot[i].jnl_seqno = 0 /\ Good(L.file, L.slot[i])
  BY <1>4 DEF Stands
<1>6. PICK M, e : M = jb'[x] /\ e = db'[x]  OBVIOUS
<1>7. M = WriteComplete(Publish(L), i, p, TRUE, Alive)
  <2>1. jb \in [Region -> Log]  BY DEF TypeInv, TypeOK
  <2> QED  BY <1>2, <1>4, <1>6, <2>1
<1>8. e = d /\ d.early_tn = d.curr_tn + 1  BY <1>1, <1>2, <1>5, <1>6 DEF Taking
<1>9. /\ Sound(M) /\ Redo(M, d)
      /\ \A q \in Proc : q # p /\ pc[q] # "dead" => Spares(M, L, q)
  BY <1>4, <1>5, <1>7, WrittenDone
<1>10. Elsewhere(p, x) /\ Spot(p, x)' = "recoverc"
  <2>1. Here("recoverc") = "recoverc"  BY DEF Here
  <2> QED  BY <1>1, <1>2, <1>3, <2>1, GoesOn DEF Ahead, Behind
<1>11. Stands("recoverc", M, e, p, token[p], idx'[p][x], jnl_seqno)  BY <1>8, <1>9 DEF Stands
<1>12. Entry("recoverc", M, p, token[p], idx'[p][x]) /\ "recoverc" \in Inside
  BY DEF Entry, Entries, Inside
<1>13. crit'[x] = p /\ p # NoProc  BY <1>2, <1>4, RegionIs
<1> QED  BY <1>1, <1>3, <1>4, <1>6, <1>8, <1>9, <1>10, <1>11, <1>12, <1>13, JnlOwner

(* curr_tn moves past the INCTN record. *)
LEMMA JnlRecoverDone ==
  ASSUME TypeInv, TokenInv, JnlInv, NEW p \in Proc, RecoverDone(p)
  PROVE  JnlInv'
<1>1. PICK x, L, d : x = reg(p) /\ L = jb[x] /\ d = db[x]  OBVIOUS
<1>2. /\ pc[p] = "recoverc" /\ crit' = crit /\ idx' = idx /\ jb' = jb
      /\ Loop(p, "cmt01", "grabpool")
      /\ db' = [db EXCEPT ![x].curr_tn = d.curr_tn + 1, ![x].wc_blocked = FALSE]
  BY <1>1 DEF RecoverDone
<1>3. /\ Local(p, x) /\ Alone(p) /\ token' = token /\ upd' = upd /\ jnl_seqno' = jnl_seqno
  BY <1>1, LocalIs
<1>4. /\ x \in Region /\ crit[x] = p /\ L \in Log /\ d \in DB /\ Sound(L)
      /\ d.reg_seqno <= jnl_seqno
      /\ Stands("recoverc", L, d, p, token[p], idx[p][x], jnl_seqno)
  BY <1>1, <1>2, InsideKnows DEF Here, Inside
<1>5. PICK e : e = db'[x]  OBVIOUS
<1>6. /\ e.curr_tn = d.curr_tn + 1 /\ e.early_tn = d.early_tn /\ e.reg_seqno = d.reg_seqno
      /\ e.update_underway_tn = d.update_underway_tn
  BY <1>1, <1>2, <1>4, <1>5 DEF DB, TypeInv, TypeOK
<1>7. Rest(L, e)
  <2>1. Redo(L, d) /\ d.early_tn = d.curr_tn + 1  BY <1>4 DEF Stands
  <2>2. d.curr_tn \in Nat /\ d.update_underway_tn \in Nat  BY <1>4, DBFields
  <2> QED  BY <1>6, <2>1, <2>2 DEF Redo, Base, Rest, Calm
<1>8. Elsewhere(p, x) /\ Spot(p, x)' = "rest"
  BY <1>1, <1>2, <1>3, Leaves DEF Here, Ahead, Behind
<1>9. Stands("rest", L, e, p, token[p], idx'[p][x], jnl_seqno)  BY <1>7 DEF Stands
<1>10. Entry("rest", L, p, token[p], idx'[p][x]) /\ "rest" \in Inside
  BY DEF Entry, Entries, Inside
<1>11. crit'[x] = p /\ p # NoProc  BY <1>2, <1>4, RegionIs
<1>12. \A q : Spares(L, L, q)  BY SparesFrame
<1> QED  BY <1>1, <1>2, <1>3, <1>4, <1>5, <1>6, <1>8, <1>9, <1>10, <1>11, <1>12, JnlOwner

-----------------------------------------------------------------------------
(* The invariant *)

(* Steps of the source server. *)
LEMMA JnlFrame ==
  ASSUME JnlInv, pc' = pc, upd' = upd, rem' = rem, token' = token, idx' = idx, jb' = jb,
         db' = db, jnl_seqno' = jnl_seqno, \A r \in Region : crit'[r] = crit[r]
  PROVE  JnlInv'
<1>1. ASSUME NEW r \in Region  PROVE RegionInv(r)'
  BY DEF JnlInv, RegionInv
<1>2. ASSUME NEW r \in Region, NEW q \in Proc  PROVE PlaceInv(q, r)'
  <2>1. PICK v : v = Spot(q, r)  OBVIOUS
  <2>2. Spot(q, r)' = v
    <3>1. Spot(q, r)' = Spot(q, r)  BY SpotSame
    <3> QED  BY <2>1, <3>1
  <2>3. PlaceInv(q, r)  BY DEF JnlInv
  <2> QED  BY <2>1, <2>2, <2>3 DEF PlaceInv
<1> QED  BY <1>1, <1>2 DEF JnlInv

LEMMA JnlStep ==
  ASSUME LateErrors, TypeInv, TypeInv', TokenInv, JnlInv, [Next]_vars
  PROVE  JnlInv'
<1>1. CASE UNCHANGED vars  BY <1>1, JnlFrame DEF vars, procvars
<1>2. ASSUME NEW p \in Proc, Step(p)  PROVE JnlInv'
  <2>1. CASE GrabCrit(p)  BY <2>1, JnlGrab
  <2>2. CASE Recover(p)  BY <2>2, JnlRecover
  <2>3. CASE RecoverDone(p)  BY <2>3, JnlRecoverDone
  <2>14. CASE RecoverWritten(p)  BY <2>14, JnlRecoverWritten
  <2>4. CASE EarlyTn(p)  BY <2>4, JnlEarly
  <2>5. CASE ReserveJnl(p)  BY <2>5, JnlReserve
  <2>6. CASE PublishJnl(p)  BY <2>6, JnlPublish
  <2>7. CASE UpdateUnderway(p) \/ SetRegSeqno(p)  BY <2>7, JnlUnderway
  <2>8. CASE IncrementCurrTn(p)  BY <2>8, JnlCurrTn
  <2>9. CASE RelCrit(p) \/ Finish(p)  BY <2>9, JnlRelCrit
  <2>10. CASE WriteJnl(p)  BY <2>10, JnlFill
  <2>11. CASE JnlWriteComplete(p)  BY <2>11, JnlComplete
  <2>12. CASE UndoDB(p)  BY <2>12, JnlUndo
  <2>13. CASE \/ GrabLock(p) \/ ReservePool(p) \/ PublishPool(p) \/ SetJnlSeqno(p)
              \/ RelLock(p) \/ WritePool(p) \/ PoolWriteComplete(p) \/ UndoPool(p) \/ UndoRel(p)
    BY <2>13, JnlPool
  <2> QED
    BY <1>2, <2>1, <2>2, <2>3, <2>4, <2>5, <2>6, <2>7, <2>8, <2>9, <2>10, <2>11, <2>12, <2>13,
       <2>14
    DEF Step
<1>3. ASSUME NEW p \in Proc, NEW rs \in Updates, Begin(p, rs)  PROVE JnlInv'
  BY <1>3, JnlPool
<1>4. ASSUME NEW p \in Proc, Kill(p)  PROVE JnlInv'  BY <1>4, JnlKill
<1>5. ASSUME NEW p \in Proc, Fail(p)  PROVE JnlInv'  BY <1>5, JnlFail
<1>6. ASSUME NEW r \in Region, JnlCleanup(r)  PROVE JnlInv'  BY <1>6, JnlTidy
<1>7. CASE Source
  <2>1. \A r \in Region : crit'[r] = crit[r]
    BY <1>7, RegionIs DEF Source, SourceRead, SourceSalvage, TypeInv, TypeOK
  <2> QED  BY <1>7, <2>1, JnlFrame DEF Source, SourceRead, SourceSalvage, procvars
<1> QED  BY <1>1, <1>2, <1>3, <1>4, <1>5, <1>6, <1>7 DEF Next

LEMMA JnlInit == Init => JnlInv
<1> SUFFICES ASSUME Init  PROVE JnlInv  OBVIOUS
<1>1. PICK L : L = EmptyLog  OBVIOUS
<1>2. L \in Log /\ InUse(L) = {} /\ Chain(L) /\ Level(L) /\ \A i \in Index : L.slot[i] = EmptySlot
  BY <1>1, EmptyIs
<1>3. L.free = 0 /\ L.rsrv = 0 /\ L.index1 \in Index /\ L.file \in Seq(Record)
  BY <1>1, <1>2, LogFields DEF EmptyLog
<1>4. Unit(L)  BY <1>2 DEF Unit
<1>5. Filed(L) /\ Last(L).curr_tn = 0
  <2>1. Len(L.file) \in Nat  BY <1>3, LenProperties
  <2>2. DECR(L.index1) \in Index /\ DECR(L.index2) \in Index  BY <1>2, LogFields, IndexType
  <2>3. EmptySlot.curr_tn = 0  BY DEF EmptySlot
  <2> QED  BY <1>2, <1>3, <2>1, <2>2, <2>3 DEF Filed, Joined, Last
<1>6. Seqnos(L, {}) = {}  BY <1>2, <1>3 DEF Seqnos
<1>7. ASSUME NEW r \in Region  PROVE RegionInv(r)
  <2>1. PICK d : d = db[r]  OBVIOUS
  <2>2. /\ d.curr_tn = 1 /\ d.early_tn = 1 /\ d.update_underway_tn = 0 /\ d.reg_seqno = 1
        /\ jb[r] = L /\ jnl_seqno = 1
    BY <1>1, <1>7, <2>1 DEF Init
  <2>3. OneMore(d.reg_seqno, Seqnos(L, {}))  BY <1>6, <2>2 DEF OneMore
  <2>4. Rest(L, d)  BY <1>2, <1>5, <2>2, <2>3 DEF Rest, Calm, Base
  <2> QED  BY <1>2, <1>4, <1>5, <2>1, <2>2, <2>4 DEF RegionInv, Sound
<1>8. ASSUME NEW r \in Region, NEW p \in Proc  PROVE PlaceInv(p, r)
  <2>1. pc[p] = "idle" /\ upd[p] = {} /\ crit[r] = NoProc  BY <1>8 DEF Init
  <2>2. PICK w : w = Spot(p, r)  OBVIOUS
  <2>3. w = "out"  BY <2>1, <2>2 DEF Spot, Where
  <2>4. crit[r] # p  BY <2>1, RegionIs
  <2> QED  BY <2>2, <2>3, <2>4 DEF PlaceInv, Owns, Entry, Inside, Entries
<1> QED  BY <1>7, <1>8 DEF JnlInv

-----------------------------------------------------------------------------
(* What the invariant says of View *)

(* In a journal, View is its records by address, and then its reservations. *)
LEMMA ViewIs ==
  ASSUME NEW L \in Log, Sound(L), NEW v, v = View(L)
  PROVE  /\ v \in Seq([tn : Nat, jnl_seqno : Nat])
         /\ Len(v) = L.free + Used(L) /\ DOMAIN v = 1 .. L.free + Used(L)
         /\ \A i \in 1 .. L.free :
              v[i].tn = L.file[i].tn /\ v[i].jnl_seqno = L.file[i].jnl_seqno
         /\ \A k \in 0 .. Used(L) - 1 :
              /\ v[L.free + k + 1].tn = L.slot[At(L, k)].curr_tn
              /\ v[L.free + k + 1].jnl_seqno = L.slot[At(L, k)].jnl_seqno
<1> DEFINE R == [tn : Nat, jnl_seqno : Nat]
           a == [i \in 1 .. L.free |-> [tn |-> L.file[i].tn, jnl_seqno |-> L.file[i].jnl_seqno]]
           e(k) == [tn |-> L.slot[At(L, k - 1)].curr_tn, jnl_seqno |-> L.slot[At(L, k - 1)].jnl_seqno]
           b == [k \in 1 .. Used(L) |-> e(k)]
<1>1. L.free \in Nat /\ Used(L) \in Nat /\ L.file \in Seq(Record) /\ L.free <= Len(L.file)
  BY LogFields, UsedIs, LogAssumption DEF Sound, Filed
<1>2. \A i \in 1 .. L.free : L.file[i].tn \in Nat /\ L.file[i].jnl_seqno \in Nat
  <2> SUFFICES ASSUME NEW i \in 1 .. L.free
               PROVE  L.file[i].tn \in Nat /\ L.file[i].jnl_seqno \in Nat
    OBVIOUS
  <2>1. Len(L.file) \in Nat  BY <1>1, LenProperties
  <2>2. i \in 1 .. Len(L.file)  BY <1>1, <2>1
  <2>3. L.file[i] \in Record  BY <1>1, <2>2, ElementOfSeq
  <2> QED  BY <2>3 DEF Record
<1>3. ASSUME NEW k \in 0 .. Used(L) - 1
      PROVE  /\ L.slot[At(L, k)].curr_tn \in Nat
             /\ L.slot[At(L, k)].jnl_seqno \in Nat
  <2>1. At(L, k) \in InUse(L)  BY <1>3, LogFields, InUseAt
  <2>3. At(L, k) \in Index  BY <2>1 DEF InUse
  <2> QED  BY <2>3, LogFields, SlotFields
<1>4. a \in Seq(R) /\ Len(a) = L.free
  <2>1. PICK n : n = L.free  OBVIOUS
  <2>2. \A i \in 1 .. n : [tn |-> L.file[i].tn, jnl_seqno |-> L.file[i].jnl_seqno] \in R
    BY <1>1, <1>2, <2>1
  <2> HIDE DEF R
  <2>3. n \in Nat /\ a \in [1 .. n -> R]  BY <1>1, <2>1, <2>2
  <2> HIDE DEF a
  <2>4. a \in Seq(R)  BY <2>3, SeqDef
  <2>5. Len(a) = n
    <3>1. Len(a) \in Nat /\ DOMAIN a = 1 .. Len(a) /\ DOMAIN a = 1 .. n
      BY <2>3, <2>4, LenProperties
    <3> QED  BY <2>3, <3>1
  <2> QED  BY <2>1, <2>4, <2>5
<1>5. b \in Seq(R) /\ Len(b) = Used(L)
  <2>1. ASSUME NEW k \in 1 .. Used(L)  PROVE e(k) \in R
    <3>1. k - 1 \in 0 .. Used(L) - 1  BY <1>1
    <3> QED  BY <1>1, <1>3, <3>1
  <2>2. PICK n : n = Used(L)  OBVIOUS
  <2> HIDE DEF e, R
  <2>3. n \in Nat /\ b \in [1 .. n -> R]  BY <1>1, <2>1, <2>2
  <2> HIDE DEF b
  <2>4. b \in Seq(R)  BY <2>3, SeqDef
  <2>5. Len(b) = n
    <3>1. Len(b) \in Nat /\ DOMAIN b = 1 .. Len(b) /\ DOMAIN b = 1 .. n
      BY <2>3, <2>4, LenProperties
    <3> QED  BY <2>3, <3>1
  <2> QED  BY <2>2, <2>4, <2>5
<1>6. v = a \o b  BY DEF View
<1>7. /\ Len(a \o b) = L.free + Used(L) /\ a \o b \in Seq(R)
      /\ \A i \in 1 .. L.free + Used(L) :
           (a \o b)[i] = IF i <= L.free THEN a[i] ELSE b[i - L.free]
  <2> HIDE DEF a, b, R
  <2>1. PICK f, g, n, m : f = a /\ g = b /\ n = L.free /\ m = Used(L)  OBVIOUS
  <2>2. f \in Seq(R) /\ g \in Seq(R) /\ Len(f) = n /\ Len(g) = m  BY <1>4, <1>5, <2>1
  <2>3. /\ f \o g \in Seq(R) /\ Len(f \o g) = n + m
        /\ \A i \in 1 .. n + m : (f \o g)[i] = IF i <= n THEN f[i] ELSE g[i - n]
    BY <2>2, ConcatProperties
  <2> QED  BY <2>1, <2>3
<1>8. DOMAIN v = 1 .. L.free + Used(L) /\ Len(v) = L.free + Used(L)
  <2> HIDE DEF a, b, R
  <2> QED  BY <1>6, <1>7, LenProperties
<1>9. ASSUME NEW i \in 1 .. L.free
      PROVE  v[i].tn = L.file[i].tn /\ v[i].jnl_seqno = L.file[i].jnl_seqno
  <2>1. v[i] = a[i]
    <3> HIDE DEF a, b, R
    <3> QED  BY <1>1, <1>6, <1>7
  <2> QED  BY <1>2, <2>1
<1>10. ASSUME NEW k \in 0 .. Used(L) - 1
       PROVE  /\ v[L.free + k + 1].tn = L.slot[At(L, k)].curr_tn
              /\ v[L.free + k + 1].jnl_seqno = L.slot[At(L, k)].jnl_seqno
  <2>1. PICK j : j = k + 1  OBVIOUS
  <2>2. j \in 1 .. Used(L) /\ j - 1 = k /\ L.free + j = L.free + k + 1 /\ j \in Nat
    BY <1>1, <2>1
  <2>3. v[L.free + j] = b[j]
    <3> HIDE DEF a, b, R
    <3>1. L.free + j \in 1 .. L.free + Used(L) /\ ~(L.free + j <= L.free)
          /\ (L.free + j) - L.free = j
      BY <1>1, <2>2
    <3> QED  BY <1>6, <1>7, <3>1
  <2>4. b[j] = e(j)  BY <2>2
  <2>5. v[L.free + k + 1] = [tn |-> L.slot[At(L, k)].curr_tn, jnl_seqno |-> L.slot[At(L, k)].jnl_seqno]
    BY <2>2, <2>3, <2>4
  <2> QED  BY <1>3, <2>5
<1>11. v \in Seq(R)
  <2> HIDE DEF a, b, R
  <2> QED  BY <1>6, <1>7
<1> QED  BY <1>8, <1>9, <1>10, <1>11

(* The seqnos of View are those of the journal. *)
LEMMA ViewSeqnos ==
  ASSUME NEW L \in Log, Sound(L), NEW v, v = View(L)
  PROVE  {v[i].jnl_seqno : i \in DOMAIN v} = Seqnos(L, {})
<1>1. PICK n, m : n = L.free /\ m = Used(L)  OBVIOUS
<1>2. n \in Nat /\ m \in Nat  BY <1>1, LogFields, UsedIs, LogAssumption
<1>3. /\ DOMAIN v = 1 .. n + m /\ \A i \in 1 .. n : v[i].jnl_seqno = L.file[i].jnl_seqno
      /\ \A k \in 0 .. m - 1 : v[n + k + 1].jnl_seqno = L.slot[At(L, k)].jnl_seqno
  BY <1>1, ViewIs
<1>4. ASSUME NEW i \in DOMAIN v  PROVE v[i].jnl_seqno \in Seqnos(L, {})
  <2>1. CASE i \in 1 .. n  BY <1>1, <1>3, <2>1 DEF Seqnos
  <2>2. CASE i \notin 1 .. n
    <3>1. PICK k : k = i - n - 1  OBVIOUS
    <3>2. k \in 0 .. m - 1 /\ n + k + 1 = i  BY <1>2, <1>3, <2>2, <3>1
    <3>3. At(L, k) \in InUse(L)  BY <1>1, <3>2, LogFields, InUseAt
    <3>4. v[i].jnl_seqno = L.slot[At(L, k)].jnl_seqno  BY <1>3, <3>2
    <3> QED  BY <3>3, <3>4 DEF Seqnos
  <2> QED  BY <2>1, <2>2
<1>5. ASSUME NEW y \in Seqnos(L, {})  PROVE \E i \in DOMAIN v : v[i].jnl_seqno = y
  <2>1. CASE \E i \in 1 .. n : y = L.file[i].jnl_seqno
    <3>1. PICK i \in 1 .. n : y = L.file[i].jnl_seqno  BY <2>1
    <3>2. i \in DOMAIN v  BY <1>2, <1>3
    <3> QED  BY <1>3, <3>1, <3>2
  <2>2. CASE \E j \in InUse(L) : y = L.slot[j].jnl_seqno
    <3>1. PICK j \in InUse(L) : y = L.slot[j].jnl_seqno  BY <2>2
    <3>2. PICK k \in 0 .. m - 1 : j = At(L, k)  BY <1>1, LogFields, InUseAt
    <3>3. PICK i : i = n + k + 1  OBVIOUS
    <3>4. i \in DOMAIN v  BY <1>2, <1>3, <3>3
    <3> QED  BY <1>3, <3>1, <3>2, <3>3, <3>4
  <2> QED  BY <1>1, <2>1, <2>2 DEF Seqnos
<1> QED  BY <1>4, <1>5

LEMMA OneMoreMax ==
  ASSUME NEW X, X \subseteq Nat, NEW g \in Nat, OneMore(g, X), NEW Y, Y = {0} \cup X
  PROVE  g = Max(Y) + 1
<1>1. Y \subseteq Nat /\ Y # {} /\ 0 \in Y  OBVIOUS
<1>2. g >= 1 /\ \A y \in Y : y <= g - 1  BY DEF OneMore
<1>3. g - 1 \in Y  BY <1>1, <1>2 DEF OneMore
<1>4. g - 1 \in Nat  BY <1>2
<1>5. Max(Y) \in Y /\ \A y \in Y : y <= Max(Y)  BY <1>1, <1>2, <1>4, MaxIs
<1>6. PICK m : m = Max(Y)  OBVIOUS
<1>7. m \in Nat /\ m <= g - 1 /\ g - 1 <= m  BY <1>1, <1>2, <1>3, <1>5, <1>6
<1>8. g = m + 1  BY <1>4, <1>7
<1> QED  BY <1>6, <1>8

(* The entries of View follow each other. *)
LEMMA ViewSuccessive ==
  ASSUME NEW L \in Log, Sound(L), NEW v, v = View(L)
  PROVE  /\ \A i \in DOMAIN v : Successive(v, i)
         /\ IF v = <<>> THEN Last(L).curr_tn = 0 ELSE v[Len(v)].tn = Last(L).curr_tn
<1>1. PICK n, m, f : n = L.free /\ m = Used(L) /\ f = L.file  OBVIOUS
<1>2. n \in Nat /\ m \in Nat /\ m < N /\ N \in Nat
  BY <1>1, LogFields, UsedIs, LogAssumption
<1>3. /\ Len(v) = n + m /\ DOMAIN v = 1 .. n + m
      /\ \A i \in 1 .. n : v[i].tn = f[i].tn /\ v[i].jnl_seqno = f[i].jnl_seqno
      /\ \A k \in 0 .. m - 1 : /\ v[n + k + 1].tn = L.slot[At(L, k)].curr_tn
                               /\ v[n + k + 1].jnl_seqno = L.slot[At(L, k)].jnl_seqno
  BY <1>1, ViewIs
<1>4. /\ \A i \in 1 .. n : Successive(f, i)
      /\ n = 0 => L.slot[DECR(L.index1)].curr_tn = 0
      /\ n # 0 => /\ L.slot[DECR(L.index1)].curr_tn = f[n].tn
                  /\ L.slot[DECR(L.index1)].jnl_seqno = f[n].jnl_seqno
  BY <1>1 DEF Sound, Filed, Joined
<1>5. ASSUME NEW k \in 0 .. m - 1
      PROVE  Succeeds(L.slot[DECR(At(L, k))], L.slot[At(L, k)])
  <2>1. At(L, k) \in InUse(L)  BY <1>1, LogFields, InUseAt
  <2> QED  BY <2>1 DEF Sound, Unit
<1>6. /\ At(L, 0) = L.index1 /\ At(L, m) = L.index2
      /\ \A k \in 1 .. m : DECR(At(L, k)) = At(L, k - 1)
  BY <1>1, LogFields, InUseAt
<1>7. ASSUME NEW i \in DOMAIN v  PROVE Successive(v, i)
  <2>1. CASE i \in 1 .. n
    <3>1. i # 1 => i - 1 \in 1 .. n  BY <1>2, <2>1
    <3> QED  BY <1>3, <1>4, <2>1, <3>1 DEF Successive
  <2>2. CASE i = n + 1 /\ i \notin 1 .. n
    <3>1. 0 \in 0 .. m - 1 /\ i = n + 0 + 1  BY <1>2, <1>3, <2>2
    <3>2. Succeeds(L.slot[DECR(L.index1)], L.slot[L.index1])  BY <1>5, <1>6, <3>1
    <3>3. v[i].tn = L.slot[L.index1].curr_tn /\ v[i].jnl_seqno = L.slot[L.index1].jnl_seqno
      BY <1>3, <1>6, <3>1
    <3>4. CASE n = 0
      <4>1. L.slot[L.index1].curr_tn = 1  BY <1>4, <3>2, <3>4 DEF Succeeds
      <4> QED  BY <2>2, <3>3, <3>4, <4>1 DEF Successive
    <3>5. CASE n # 0
      <4>1. i # 1 /\ i - 1 = n /\ n \in 1 .. n  BY <1>2, <2>2, <3>5
      <4>2. v[i - 1].tn = f[n].tn /\ v[i - 1].jnl_seqno = f[n].jnl_seqno  BY <1>3, <4>1
      <4> QED  BY <1>4, <3>2, <3>3, <3>5, <4>1, <4>2 DEF Successive, Succeeds
    <3> QED  BY <3>4, <3>5
  <2>3. CASE i # n + 1 /\ i \notin 1 .. n
    <3>1. PICK k : k = i - n - 1  OBVIOUS
    <3>2. /\ k \in 0 .. m - 1 /\ k \in 1 .. m /\ k - 1 \in 0 .. m - 1
          /\ n + k + 1 = i /\ n + (k - 1) + 1 = i - 1 /\ i # 1
      <4>1. i \in Nat /\ i > n + 1 /\ i <= n + m  BY <1>2, <1>3, <2>3
      <4> QED  BY <1>2, <3>1, <4>1
    <3>3. Succeeds(L.slot[At(L, k - 1)], L.slot[At(L, k)])  BY <1>5, <1>6, <3>2
    <3>4. v[i].tn = L.slot[At(L, k)].curr_tn /\ v[i].jnl_seqno = L.slot[At(L, k)].jnl_seqno
      BY <1>3, <3>2
    <3>5. /\ v[i - 1].tn = L.slot[At(L, k - 1)].curr_tn
          /\ v[i - 1].jnl_seqno = L.slot[At(L, k - 1)].jnl_seqno
      BY <1>3, <3>2
    <3> QED  BY <3>2, <3>3, <3>4, <3>5 DEF Successive, Succeeds
  <2> QED  BY <2>1, <2>2, <2>3
<1>8. IF v = <<>> THEN Last(L).curr_tn = 0 ELSE v[Len(v)].tn = Last(L).curr_tn
  <2>1. v = <<>> => n + m = 0  BY <1>3
  <2>2. CASE m = 0
    <3>1. Last(L) = L.slot[DECR(L.index1)]  BY <1>6, <2>2 DEF Last
    <3>2. CASE n = 0
      <4>1. v = <<>>
        <5>1. PICK T : T = [tn : Nat, jnl_seqno : Nat]  OBVIOUS
        <5>2. v \in Seq(T)  BY <5>1, ViewIs
        <5> QED  BY <1>3, <2>2, <3>2, <5>2, EmptySeq
      <4> QED  BY <1>4, <3>1, <3>2, <4>1
    <3>3. CASE n # 0
      <4>1. Len(v) = n /\ n \in 1 .. n /\ v # <<>>  BY <1>2, <1>3, <2>1, <2>2, <3>3
      <4> QED  BY <1>3, <1>4, <3>1, <3>3, <4>1
    <3> QED  BY <3>2, <3>3
  <2>3. CASE m # 0
    <3>1. m - 1 \in 0 .. m - 1 /\ m \in 1 .. m /\ n + (m - 1) + 1 = n + m /\ n + m # 0
      BY <1>2, <2>3
    <3>2. Last(L) = L.slot[At(L, m - 1)]  BY <1>6, <3>1 DEF Last
    <3>3. v[Len(v)].tn = L.slot[At(L, m - 1)].curr_tn  BY <1>3, <3>1
    <3> QED  BY <2>1, <3>1, <3>2, <3>3
  <2> QED  BY <2>2, <2>3
<1> QED  BY <1>7, <1>8

(* JournalMatchesDb, of one region. *)
Agree(L, d, v) ==
  /\ Tiles(L) /\ d.early_tn = d.curr_tn
  /\ IF v = <<>> THEN d.curr_tn = 1 ELSE v[Len(v)].tn + 1 = d.curr_tn
  /\ \A i \in DOMAIN v : Successive(v, i)
  /\ d.reg_seqno = Max({0} \cup {v[i].jnl_seqno : i \in DOMAIN v}) + 1

LEMMA JnlMatches ==
  ASSUME TypeInv, JnlInv
  PROVE  JournalMatchesDb
<1> SUFFICES ASSUME NEW r \in Region, crit[r] = NoProc  PROVE Agree(jb[r], db[r], View(jb[r]))
  BY Zenon DEF JournalMatchesDb, Agree
<1> SUFFICES ASSUME NEW L, NEW d, NEW v, L = jb[r], d = db[r], v = View(L)  PROVE Agree(L, d, v)
  OBVIOUS
<1>1. L \in Log /\ d \in DB  BY DEF TypeInv, TypeOK
<1>2. Sound(L) /\ Rest(L, d)  BY DEF JnlInv, RegionInv
<1>3. Level(L) /\ Last(L).curr_tn + 1 = d.curr_tn /\ OneMore(d.reg_seqno, Seqnos(L, {}))
  BY <1>2 DEF Rest, Calm, Base
<1>4. Tiles(L)  BY <1>1, <1>2, <1>3, LogFields, ChainTiles DEF Sound
<1>5. /\ \A i \in DOMAIN v : Successive(v, i)
      /\ IF v = <<>> THEN Last(L).curr_tn = 0 ELSE v[Len(v)].tn = Last(L).curr_tn
  BY <1>1, <1>2, ViewSuccessive
<1>6. d.early_tn = d.curr_tn  BY <1>2 DEF Rest
<1>7. IF v = <<>> THEN d.curr_tn = 1 ELSE v[Len(v)].tn + 1 = d.curr_tn  BY <1>3, <1>5
<1>10. PICK X : X = Seqnos(L, {})  OBVIOUS
<1>11. {v[i].jnl_seqno : i \in DOMAIN v} = X  BY <1>1, <1>2, <1>10, ViewSeqnos
<1>12. X \subseteq Nat /\ d.reg_seqno \in Nat  BY <1>1, <1>2, <1>10, SeqnosType, DBFields
<1>13. PICK Y : Y = {0} \cup X  OBVIOUS
<1>14. d.reg_seqno = Max(Y) + 1  BY <1>3, <1>10, <1>12, <1>13, OneMoreMax
<1>15. d.reg_seqno = Max({0} \cup {v[i].jnl_seqno : i \in DOMAIN v}) + 1
  BY <1>11, <1>13, <1>14
<1> QED  BY <1>4, <1>5, <1>6, <1>7, <1>15 DEF Agree

(* Wherever processes are killed, and if none meets an error between CMT04 and *)
(* CMT06: a region whose crit is free has a journal that agrees with its file  *)
(* header.  CMT04, CMT06, CMT08, CMT09 and CMT12 are undone or redone          *)
(* together, for any number of processes, regions, faults and transactions,    *)
(* any size of the array of reservations and any set of points at which a      *)
(* process may be killed.                                                      *)
THEOREM JournalsMatch ==
  ASSUME LateErrors
  PROVE  Spec => []JournalMatchesDb
<1>1. Init => TypeInv /\ TokenInv /\ JnlInv  BY TypeInit, TokenInit, JnlInit
<1>2. TypeInv /\ TokenInv /\ JnlInv /\ [Next]_vars => TypeInv' /\ TokenInv' /\ JnlInv'
  <2> SUFFICES ASSUME TypeInv, TokenInv, JnlInv, [Next]_vars
               PROVE  TypeInv' /\ TokenInv' /\ JnlInv'
    OBVIOUS
  <2>1. TypeInv'  BY TypeStep
  <2>2. TokenInv'  BY TokenStep
  <2>3. JnlInv'  BY <2>1, JnlStep
  <2> QED  BY <2>1, <2>2, <2>3
<1>3. TypeInv /\ TokenInv /\ JnlInv => JournalMatchesDb  BY JnlMatches
<1> QED  BY <1>1, <1>2, <1>3, PTL DEF Spec

-----------------------------------------------------------------------------
(* What readers may have seen is never taken back *)

LEMMA PoolOnward ==
  ASSUME TypeInv, TypeInv', PoolInv, [Next]_vars
  PROVE  Kept(pool, pool')
<1>1. PICK L, M : L = pool /\ M = pool'  OBVIOUS
<1>2. L \in Log /\ M \in Log /\ Chain(L)  BY <1>1 DEF TypeInv, TypeOK, PoolInv
<1>3. ASSUME M.free = L.free, M.file = L.file  PROVE Kept(L, M)  BY <1>2, <1>3, KeptSame
<1>4. ASSUME NEW K, NEW h, K = CleanDeadPool(L, h)
      PROVE  K.free = L.free /\ K.file = L.file
  BY <1>2, <1>4, RealignIs, WithdrawIs DEF CleanDeadPool
<1>5. ASSUME NEW p \in Proc, Step(p)  PROVE Kept(L, M)
  <2>1. CASE \/ GrabCrit(p) \/ Recover(p) \/ RecoverWritten(p) \/ RecoverDone(p) \/ EarlyTn(p)
             \/ ReserveJnl(p) \/ PublishJnl(p) \/ SetJnlSeqno(p) \/ UpdateUnderway(p)
             \/ SetRegSeqno(p) \/ IncrementCurrTn(p) \/ RelCrit(p) \/ RelLock(p) \/ Finish(p)
             \/ UndoDB(p) \/ UndoRel(p) \/ WriteJnl(p) \/ JnlWriteComplete(p)
    <3>1. pool' = pool
      BY <2>1 DEF GrabCrit, Recover, RecoverWritten, RecoverDone, EarlyTn, ReserveJnl, PublishJnl,
                  SetJnlSeqno, UpdateUnderway, SetRegSeqno, IncrementCurrTn, RelCrit, RelLock,
                  Finish, UndoDB, UndoRel, WriteJnl, JnlWriteComplete
    <3> QED  BY <1>1, <1>3, <3>1
  <2>2. CASE GrabLock(p)
    <3>1. M = L \/ M = CleanDeadPool(L, crit[POOL])  BY <1>1, <2>2 DEF GrabLock
    <3> QED  BY <1>3, <1>4, <3>1
  <2>3. CASE ReservePool(p)
    <3>1. CASE Full(L)
      <4>1. PICK c : c = TRUE  OBVIOUS
      <4>2. M = Cleanup(L, p, c, Alive)  BY <1>1, <2>3, <3>1, <4>1 DEF ReservePool
      <4> QED  BY <1>2, <4>2, CleanupKept
    <3>2. CASE ~Full(L)
      <4>1. PICK s : s = PoolSlot(p)  OBVIOUS
      <4>2. M = Reserve(L, s)  BY <1>1, <2>3, <3>2, <4>1 DEF ReservePool
      <4>3. s \in Slot  BY <4>1, SlotTypes
      <4> QED  BY <1>2, <1>3, <4>2, <4>3, ReserveIs
    <3> QED  BY <3>1, <3>2
  <2>4. CASE PublishPool(p)
    <3>1. M = Publish(L)  BY <1>1, <2>4 DEF PublishPool
    <3> QED  BY <1>2, <1>3, <3>1, PublishIs
  <2>5. CASE UndoPool(p)
    <3>1. M = L \/ M = Withdraw(L)  BY <1>1, <2>5 DEF UndoPool
    <3> QED  BY <1>2, <1>3, <3>1, WithdrawIs
  <2>6. CASE WritePool(p) \/ PoolWriteComplete(p)
    <3>1. PICK i : i = idx[p][POOL]  OBVIOUS
    <3>2. pc[p] \in Entered  BY <2>6 DEF WritePool, PoolWriteComplete, Entered, Phase2
    <3>3. i \in InUse(L) /\ i \in Index  BY <1>1, <3>1, <3>2 DEF PoolInv, Mine, InUse
    <3>4. CASE WritePool(p)
      <4>1. PICK a, rec, f : /\ a = L.slot[i].start /\ rec = UpdateRecord(L, p, i)
                             /\ f = Store(L.file, a, rec)
        OBVIOUS
      <4>2. rec \in Record  BY <1>2, <3>3, <4>1, SlotTypes
      <4>3. M = [L EXCEPT !.file = f]  BY <1>1, <3>1, <3>4, <4>1 DEF WritePool
      <4>4. a \in Nat /\ L.file \in Seq(Record)  BY <1>2, <3>3, <4>1, LogFields, SlotFields
      <4>5. f \in Seq(Record)  BY <4>1, <4>2, <4>4, StoreIs
      <4>6. M.free = L.free /\ M.file = f  BY <1>2, <4>3, <4>5, FileIs
      <4>7. L.free <= a  BY <1>2, <3>3, <4>1, AboveFree
      <4> QED  BY <1>2, <4>1, <4>2, <4>4, <4>6, <4>7, KeptStore
    <3>5. CASE PoolWriteComplete(p)
      <4>1. PICK c : c = FALSE  OBVIOUS
      <4>2. M = WriteComplete(L, i, p, c, Alive)
        BY <1>1, <3>1, <3>5, <4>1 DEF PoolWriteComplete
      <4> QED  BY <1>2, <3>3, <4>2, WriteCompleteKept
    <3> QED  BY <2>6, <3>4, <3>5
  <2> QED  BY <1>5, <2>1, <2>2, <2>3, <2>4, <2>5, <2>6 DEF Step
<1>6. CASE SourceRead
  <2>1. PICK c : c = FALSE  OBVIOUS
  <2>2. M = Cleanup(L, NoProc, c, Alive)  BY <1>1, <1>6, <2>1 DEF SourceRead
  <2> QED  BY <1>1, <1>2, <2>2, CleanupKept
<1>7. CASE SourceSalvage
  <2>1. PICK K : K = IF crit[POOL] = NoProc THEN L ELSE CleanDeadPool(L, crit[POOL])  OBVIOUS
  <2>2. PICK c : c = TRUE  OBVIOUS
  <2>3. M = Cleanup(K, NoProc, c, Alive) /\ crit[POOL] \notin Alive
    BY <1>1, <1>7, <2>1, <2>2 DEF SourceSalvage
  <2>4. K \in Log /\ Chain(K)
    <3>1. CASE crit[POOL] = NoProc  BY <1>2, <2>1, <3>1
    <3>2. CASE crit[POOL] # NoProc
      <4>1. PICK h : h = crit[POOL]  OBVIOUS
      <4>2. h \in Proc /\ pc[h] = "dead" /\ crit[POOL] = h /\ K = CleanDeadPool(pool, h)
        BY <1>1, <2>1, <2>3, <3>2, <4>1 DEF Alive, TypeInv, TypeOK
      <4> QED  BY <4>2, CleanPool
    <3> QED  BY <3>1, <3>2
  <2>5. Kept(L, K)
    <3>1. K.free = L.free /\ K.file = L.file  BY <1>4, <2>1
    <3> QED  BY <1>2, <3>1, KeptSame
  <2>6. Kept(K, M)  BY <2>3, <2>4, CleanupKept
  <2> QED  BY <1>1, <1>2, <2>4, <2>5, <2>6, KeptTrans
<1>8. CASE \/ UNCHANGED vars \/ \E r \in Region : JnlCleanup(r)
           \/ \E p \in Proc : (\E rs \in Updates : Begin(p, rs)) \/ Fail(p) \/ Kill(p)
  <2>1. pool' = pool  BY <1>8 DEF vars, JnlCleanup, Begin, Fail, Kill
  <2> QED  BY <1>1, <1>3, <2>1
<1> QED  BY <1>1, <1>5, <1>6, <1>7, <1>8 DEF Next, Source

(* A region from L and d to M and e. *)
Onward(L, d, M, e) == Kept(L, M) /\ d.curr_tn <= e.curr_tn /\ d.reg_seqno <= e.reg_seqno

LEMMA OnwardSame ==
  ASSUME NEW L \in Log, NEW d \in DB
  PROVE  Onward(L, d, L, d)
<1>1. Kept(L, L)  BY KeptSame
<1> QED  BY <1>1, DBFields DEF Onward

(* Only region x changes. *)
LEMMA OnwardLocal ==
  ASSUME TypeInv, NEW p, NEW x, Local(p, x),
         x \in Region => Onward(jb[x], db[x], jb'[x], db'[x])
  PROVE  \A r \in Region : Onward(jb[r], db[r], jb'[r], db'[r])
<1> SUFFICES ASSUME NEW r \in Region  PROVE Onward(jb[r], db[r], jb'[r], db'[r])  OBVIOUS
<1>1. CASE r = x  BY <1>1
<1>2. CASE r # x
  <2>1. jb[r] \in Log /\ db[r] \in DB  BY DEF TypeInv, TypeOK
  <2>2. jb'[r] = jb[r] /\ db'[r] = db[r]  BY <1>2 DEF Local
  <2> QED  BY <2>1, <2>2, OnwardSame
<1> QED  BY <1>1, <1>2

LEMMA OnwardClean ==
  ASSUME TypeInv, NEW x \in Region, NEW h, NEW L, NEW d, L = jb[x], d = db[x],
         NEW t, NEW i, Stands("dead", L, d, h, t, i, jnl_seqno),
         NEW M, M = CleanDeadJnl(x, h), NEW e, e = CleanDeadDB(x)
  PROVE  Onward(L, d, M, e)
<1>1. L \in Log /\ d \in DB  BY DEF TypeInv, TypeOK
<1>2. /\ d.curr_tn \in Nat /\ d.update_underway_tn \in Nat /\ d.early_tn \in Nat
      /\ d.reg_seqno \in Nat /\ Last(L).jnl_seqno \in Nat
  BY <1>1, DBFields, LastType, SlotFields
<1>3. /\ ~InCommit(x) => e.curr_tn = d.curr_tn /\ e.reg_seqno = d.reg_seqno
      /\ InCommit(x) /\ ~Underway(x) => e.curr_tn = d.curr_tn /\ e.reg_seqno = d.reg_seqno
      /\ InCommit(x) /\ Underway(x) => /\ e.curr_tn = d.early_tn
                                       /\ e.reg_seqno = Last(L).jnl_seqno + 1
  BY <1>1, <1>2, CleanFields
<1>4. (InCommit(x) <=> d.early_tn # d.curr_tn) /\ (Underway(x) <=> d.update_underway_tn = d.curr_tn)
  BY DEF InCommit, Underway
<1>5. InCommit(x) /\ Underway(x) => Logged(L, d, h)
  BY <1>2, <1>4 DEF Stands, Taking, Near, Calm, Redo, Base
<1>6. d.curr_tn <= e.curr_tn /\ d.reg_seqno <= e.reg_seqno
  <2>1. Logged(L, d, h) => d.early_tn = d.curr_tn + 1 /\ d.reg_seqno <= Last(L).jnl_seqno + 1
    BY DEF Logged
  <2> QED  BY <1>2, <1>3, <1>5, <2>1
<1>7. M \in {L, Realign(L), Withdraw(L)}  BY DEF CleanDeadJnl
<1>8. M.free = L.free /\ M.file = L.file  BY <1>1, <1>7, RealignIs, WithdrawIs
<1> QED  BY <1>1, <1>6, <1>8, KeptSame DEF Onward

(* The journal alone changes, or the header alone. *)
LEMMA OnwardJnl ==
  ASSUME TypeInv, NEW x \in Region, NEW d, d = db[x], db'[x].curr_tn = d.curr_tn,
         db'[x].reg_seqno = d.reg_seqno, Kept(jb[x], jb'[x])
  PROVE  Onward(jb[x], db[x], jb'[x], db'[x])
<1>1. d \in DB  BY DEF TypeInv, TypeOK
<1> QED  BY <1>1, DBFields DEF Onward

LEMMA OnwardHead ==
  ASSUME TypeInv, NEW x \in Region, jb'[x] = jb[x], db[x].curr_tn <= db'[x].curr_tn,
         db[x].reg_seqno <= db'[x].reg_seqno
  PROVE  Onward(jb[x], db[x], jb'[x], db'[x])
<1>1. jb[x] \in Log  BY DEF TypeInv, TypeOK
<1> QED  BY <1>1, KeptSame DEF Onward

LEMMA OnwardGrab ==
  ASSUME TypeInv, JnlInv, NEW p \in Proc, NEW x \in Region, x = reg(p), GrabCrit(p)
  PROVE  Onward(jb[x], db[x], jb'[x], db'[x])
<1>1. jb[x] \in Log /\ db[x] \in DB  BY DEF TypeInv, TypeOK
<1>2. CASE db' = db /\ jb' = jb  BY <1>1, <1>2, OnwardSame
<1>3. CASE /\ crit[x] \in Proc \ Alive
           /\ db' = [db EXCEPT ![x] = CleanDeadDB(x)]
           /\ jb' = [jb EXCEPT ![x] = CleanDeadJnl(x, crit[x])]
  <2>1. PICK h, M, e : h = crit[x] /\ M = jb'[x] /\ e = db'[x]  OBVIOUS
  <2>2. h \in Proc /\ pc[h] = "dead"  BY <1>3, <2>1 DEF Alive
  <2>3. M = CleanDeadJnl(x, h) /\ e = CleanDeadDB(x)  BY <1>3, <2>1 DEF TypeInv, TypeOK
  <2>4. Spot(h, x) = "dead"  BY <2>2, DeadSpot
  <2>5. Stands("dead", jb[x], db[x], h, token[h], idx[h][x], jnl_seqno)
    BY <2>1, <2>2, <2>4 DEF JnlInv, PlaceInv
  <2>6. Onward(jb[x], db[x], M, e)  BY <2>3, <2>5, OnwardClean
  <2> QED  BY <2>1, <2>6
<1> QED  BY <1>2, <1>3 DEF GrabCrit

LEMMA OnwardRecover ==
  ASSUME TypeInv, TypeInv', JnlInv, NEW p \in Proc, NEW x \in Region, x = reg(p),
         Recover(p) \/ RecoverWritten(p) \/ RecoverDone(p)
  PROVE  Onward(jb[x], db[x], jb'[x], db'[x])
<1>1. PICK L, M, d : L = jb[x] /\ M = jb'[x] /\ d = db[x]  OBVIOUS
<1>2. PICK c : c = TRUE  OBVIOUS
<1>3. L \in Log /\ M \in Log /\ d \in DB /\ d.curr_tn \in Nat /\ d.reg_seqno \in Nat
  BY <1>1, DBFields DEF TypeInv, TypeOK
<1>4. CASE Recover(p)
  <2>1. pc[p] = "recover" /\ db' = [db EXCEPT ![x].early_tn = d.curr_tn + 1]
    BY <1>1, <1>4 DEF Recover
  <2>2. Sound(L) /\ Stands("recover", L, d, p, token[p], idx[p][x], jnl_seqno)
    BY <1>1, <2>1, InsideKnows DEF Here, Inside
  <2>3. PICK K : K = Cleanup(L, p, c, Alive)  OBVIOUS
  <2>4. K \in Log /\ Sound(K) /\ Near(K, d)
    <3>1. K = Cleanup(L, p, TRUE, Alive)  BY <1>2, <2>3
    <3>2. Near(L, d)  BY <2>2 DEF Stands
    <3> QED  BY <1>3, <2>2, <3>1, <3>2, CleanupCalm
  <2>5. Kept(L, K)  BY <1>3, <2>2, <2>3, CleanupKept DEF Sound
  <2>6. Kept(K, M)
    <3>1. jb \in [Region -> Log]  BY DEF TypeInv, TypeOK
    <3>2. K = Cleanup(jb[x], p, TRUE, Alive)  BY <1>1, <1>2, <2>3
    <3>3. CASE Full(K)
      <4>1. M = K  BY <1>1, <1>4, <3>1, <3>2, <3>3 DEF Recover
      <4> QED  BY <2>4, <4>1, KeptSame
    <3>4. CASE ~Full(K)
      <4>1. PICK s, rec, f : /\ s = JnlSlot(x, p, 0, FALSE) /\ rec = Inctn(x, p)
                             /\ f = Store(K.file, K.rsrv, rec)
        OBVIOUS
      <4>2. PICK F : F = [K EXCEPT !.file = f]  OBVIOUS
      <4>3. M = Reserve(F, s)
        <5>1. jb' = [jb EXCEPT ![x] = Reserve(F, s)]
          BY <1>4, <3>2, <3>4, <4>1, <4>2 DEF Recover
        <5> QED  BY <1>1, <3>1, <5>1
      <4>4. s \in Slot /\ rec \in Record  BY <4>1, SlotTypes
      <4>5. K.file \in Seq(Record) /\ K.rsrv \in Nat  BY <2>4, LogFields
      <4>6. f \in Seq(Record)  BY <4>1, <4>4, <4>5, StoreIs
      <4>7. F \in Log /\ F.free = K.free /\ F.file = f  BY <2>4, <4>2, <4>6, FileIs
      <4>8. M.free = K.free /\ M.file = Store(K.file, K.rsrv, rec)
        BY <4>1, <4>3, <4>4, <4>7, ReserveIs
      <4>9. K.free <= K.rsrv
        <5>1. Level(K)  BY <2>4 DEF Near, Calm, Redo, Base
        <5> QED  BY <2>4, <5>1, AboveFree DEF Sound, Level
      <4> QED  BY <2>4, <4>4, <4>5, <4>8, <4>9, KeptStore
    <3> QED  BY <3>3, <3>4
  <2>7. Kept(L, M)  BY <1>3, <2>4, <2>5, <2>6, KeptTrans
  <2>8. db'[x].curr_tn = d.curr_tn /\ db'[x].reg_seqno = d.reg_seqno
    BY <1>1, <1>3, <2>1 DEF DB, TypeInv, TypeOK
  <2> QED  BY <1>1, <2>7, <2>8, OnwardJnl
<1>5. CASE RecoverWritten(p)
  <2>1. PICK i, K : i = idx[p][x] /\ K = Publish(L)  OBVIOUS
  <2>2. /\ pc[p] = "recoverb" /\ jb' = [jb EXCEPT ![x] = WriteComplete(K, i, p, c, Alive)]
        /\ db' = db
    BY <1>1, <1>2, <1>5, <2>1 DEF RecoverWritten
  <2>3. Sound(L) /\ Stands("recoverb", L, d, p, token[p], i, jnl_seqno)
    BY <1>1, <2>1, <2>2, InsideKnows DEF Here, Inside
  <2>4. Taking(L, d, p) /\ i = L.index2  BY <2>3 DEF Stands
  <2>5. K \in Log /\ K.free = L.free /\ K.file = L.file /\ Chain(K) /\ i \in Index
    BY <1>3, <2>1, <2>3, <2>4, PublishIs, PublishTaking, LogFields DEF Sound
  <2>6. M = WriteComplete(K, i, p, c, Alive)
    <3>1. jb \in [Region -> Log]  BY DEF TypeInv, TypeOK
    <3> QED  BY <1>1, <2>2, <3>1
  <2>7. Kept(K, M)  BY <2>5, <2>6, WriteCompleteKept
  <2>8. Kept(L, K)  BY <1>3, <2>5, KeptSame
  <2>9. Kept(L, M)  BY <1>3, <2>5, <2>7, <2>8, KeptTrans
  <2> QED  BY <1>1, <2>2, <2>9, OnwardJnl
<1>6. CASE RecoverDone(p)
  <2>1. /\ jb' = jb
        /\ db' = [db EXCEPT ![x].curr_tn = d.curr_tn + 1, ![x].wc_blocked = FALSE]
    BY <1>1, <1>6 DEF RecoverDone
  <2>2. db'[x].curr_tn = d.curr_tn + 1 /\ db'[x].reg_seqno = d.reg_seqno
    BY <1>1, <1>3, <2>1 DEF DB, TypeInv, TypeOK
  <2>3. d.curr_tn <= db'[x].curr_tn /\ d.reg_seqno <= db'[x].reg_seqno  BY <1>3, <2>2
  <2> QED  BY <1>1, <2>1, <2>3, OnwardHead
<1> QED  BY <1>4, <1>5, <1>6

LEMMA OnwardLogs ==
  ASSUME TypeInv, TypeInv', JnlInv, NEW p \in Proc, NEW x \in Region, x = reg(p),
         \/ ReserveJnl(p) \/ PublishJnl(p) \/ WriteJnl(p) \/ JnlWriteComplete(p) \/ UndoDB(p)
  PROVE  Onward(jb[x], db[x], jb'[x], db'[x])
<1>1. PICK L, M, d, i : L = jb[x] /\ M = jb'[x] /\ d = db[x] /\ i = idx[p][x]  OBVIOUS
<1>2. L \in Log /\ M \in Log /\ d \in DB  BY <1>1 DEF TypeInv, TypeOK
<1>3. Sound(L) /\ jb \in [Region -> Log]  BY <1>1 DEF JnlInv, RegionInv, TypeInv, TypeOK
<1>4. db'[x].curr_tn = d.curr_tn /\ db'[x].reg_seqno = d.reg_seqno
  <2>1. db' = db \/ db' = [db EXCEPT ![x].early_tn = d.curr_tn]
    BY <1>1 DEF ReserveJnl, PublishJnl, WriteJnl, JnlWriteComplete, UndoDB
  <2>2. db'[x] = d \/ db'[x] = [d EXCEPT !.early_tn = d.curr_tn]
    BY <1>1, <2>1 DEF TypeInv, TypeOK
  <2> QED  BY <1>2, <2>2 DEF DB
<1>5. ASSUME M.free = L.free, M.file = L.file  PROVE Kept(L, M)  BY <1>2, <1>5, KeptSame
<1>6. CASE ReserveJnl(p)
  <2>1. CASE Full(L)
    <3>1. PICK c : c = TRUE  OBVIOUS
    <3>2. M = Cleanup(L, p, c, Alive)  BY <1>1, <1>3, <1>6, <2>1, <3>1 DEF ReserveJnl
    <3>3. Kept(L, M)  BY <1>2, <1>3, <3>2, CleanupKept DEF Sound
    <3> QED  BY <1>1, <1>4, <3>3, OnwardJnl
  <2>2. CASE ~Full(L)
    <3>1. PICK s : s = JnlSlot(x, p, token[p], TRUE)  OBVIOUS
    <3>2. M = Reserve(L, s)  BY <1>1, <1>3, <1>6, <2>2, <3>1 DEF ReserveJnl
    <3>3. token[p] \in Nat  BY DEF TypeInv, TypeOK
    <3>4. s \in Slot  BY <3>1, <3>3, SlotTypes
    <3>5. Kept(L, M)  BY <1>2, <1>5, <3>2, <3>4, ReserveIs
    <3> QED  BY <1>1, <1>4, <3>5, OnwardJnl
  <2> QED  BY <2>1, <2>2
<1>7. CASE PublishJnl(p)
  <2>1. M = Publish(L)  BY <1>1, <1>3, <1>7 DEF PublishJnl
  <2>2. Kept(L, M)  BY <1>2, <1>5, <2>1, PublishIs
  <2> QED  BY <1>1, <1>4, <2>2, OnwardJnl
<1>8. CASE UndoDB(p)
  <2>1. M = L \/ M = Withdraw(L)  BY <1>1, <1>3, <1>8 DEF UndoDB
  <2>2. Kept(L, M)  BY <1>2, <1>5, <2>1, WithdrawIs
  <2> QED  BY <1>1, <1>4, <2>2, OnwardJnl
<1>9. CASE WriteJnl(p)
  <2>1. pc[p] = "cmt16" /\ Here("cmt16") = "owed"  BY <1>9 DEF WriteJnl, Here, Ahead
  <2>2. Entry("owed", L, p, token[p], i)  BY <1>1, <2>1, OutsideKnows DEF Inside
  <2>3. i \in InUse(L) /\ i \in Index  BY <2>2 DEF Entry, Entries, InUse
  <2>4. PICK a, rec, f : /\ a = L.slot[i].start /\ rec = UpdateRecord(L, p, i)
                         /\ f = Store(L.file, a, rec)
    OBVIOUS
  <2>5. rec \in Record  BY <1>2, <2>3, <2>4, SlotTypes
  <2>6. M = [L EXCEPT !.file = f]
    <3>1. jb' = [jb EXCEPT ![x].file = f]  BY <1>1, <1>9, <2>4 DEF WriteJnl
    <3> QED  BY <1>1, <1>3, <3>1
  <2>7. a \in Nat /\ L.file \in Seq(Record)  BY <1>2, <2>3, <2>4, LogFields, SlotFields
  <2>8. f \in Seq(Record)  BY <2>4, <2>5, <2>7, StoreIs
  <2>9. M.free = L.free /\ M.file = f  BY <1>2, <2>6, <2>8, FileIs
  <2>10. L.free <= a  BY <1>2, <1>3, <2>3, <2>4, AboveFree DEF Sound
  <2>11. Kept(L, M)  BY <1>2, <2>4, <2>5, <2>7, <2>9, <2>10, KeptStore
  <2> QED  BY <1>1, <1>4, <2>11, OnwardJnl
<1>10. CASE JnlWriteComplete(p)
  <2>1. i \in Index  BY <1>1 DEF TypeInv, TypeOK
  <2>2. PICK c : c = FALSE  OBVIOUS
  <2>3. M = WriteComplete(L, i, p, c, Alive)  BY <1>1, <1>3, <1>10, <2>2 DEF JnlWriteComplete
  <2>4. Kept(L, M)  BY <1>2, <1>3, <2>1, <2>3, WriteCompleteKept DEF Sound
  <2> QED  BY <1>1, <1>4, <2>4, OnwardJnl
<1> QED  BY <1>6, <1>7, <1>8, <1>9, <1>10

LEMMA OnwardHeads ==
  ASSUME TypeInv, TypeInv', JnlInv, NEW p \in Proc, NEW x \in Region, x = reg(p),
         \/ EarlyTn(p) \/ UpdateUnderway(p) \/ SetRegSeqno(p) \/ IncrementCurrTn(p) \/ RelCrit(p)
         \/ Finish(p)
  PROVE  Onward(jb[x], db[x], jb'[x], db'[x])
<1>1. PICK L, d, e : L = jb[x] /\ d = db[x] /\ e = db'[x]  OBVIOUS
<1>2. /\ L \in Log /\ d \in DB /\ d.curr_tn \in Nat /\ d.reg_seqno \in Nat
      /\ db \in [Region -> DB]
  BY <1>1, DBFields DEF TypeInv, TypeOK
<1>3. jb' = jb
  BY DEF EarlyTn, UpdateUnderway, SetRegSeqno, IncrementCurrTn, RelCrit, Finish
<1>4. CASE EarlyTn(p) \/ UpdateUnderway(p) \/ RelCrit(p)
  <2>1. \/ db' = db \/ db' = [db EXCEPT ![x].early_tn = d.curr_tn + 1]
        \/ db' = [db EXCEPT ![x].update_underway_tn = d.curr_tn]
    BY <1>1, <1>4 DEF EarlyTn, UpdateUnderway, RelCrit
  <2>2. e.curr_tn = d.curr_tn /\ e.reg_seqno = d.reg_seqno  BY <1>1, <1>2, <2>1 DEF DB
  <2> QED  BY <1>1, <1>2, <1>3, <2>2, OnwardHead
<1>5. CASE SetRegSeqno(p) \/ IncrementCurrTn(p) \/ Finish(p)
  <2>1. PICK w : w = Here(pc[p])  OBVIOUS
  <2>2. pc[p] \in {"cmt09", "cmt12", "finish"} /\ w \in {"underway", "numbered", "finish"}
    BY <1>5, <2>1 DEF SetRegSeqno, IncrementCurrTn, Finish, Here, Ahead
  <2>3. Stands(w, L, d, p, token[p], idx[p][x], jnl_seqno)
    BY <1>1, <2>1, <2>2, InsideKnows DEF Inside
  <2>4. Logged(L, d, p) /\ Last(L).jnl_seqno = token[p]  BY <2>2, <2>3 DEF Stands
  <2>5. d.early_tn = d.curr_tn + 1 /\ d.reg_seqno <= token[p] + 1  BY <2>4 DEF Logged
  <2>6. \/ db' = [db EXCEPT ![x].reg_seqno = token[p] + 1]
        \/ db' = [db EXCEPT ![x].curr_tn = d.early_tn]
        \/ db' = [db EXCEPT ![x].update_underway_tn = d.curr_tn, ![x].reg_seqno = token[p] + 1,
                            ![x].curr_tn = d.early_tn, ![x].wc_blocked = TRUE]
    BY <1>1, <1>5 DEF SetRegSeqno, IncrementCurrTn, Finish
  <2>7. e.curr_tn \in {d.curr_tn, d.early_tn} /\ e.reg_seqno \in {d.reg_seqno, token[p] + 1}
    BY <1>1, <1>2, <2>6 DEF DB
  <2>8. d.curr_tn <= e.curr_tn /\ d.reg_seqno <= e.reg_seqno  BY <1>2, <2>5, <2>7
  <2> QED  BY <1>1, <1>3, <2>8, OnwardHead
<1> QED  BY <1>4, <1>5

LEMMA RegionsOnward ==
  ASSUME TypeInv, TypeInv', TokenInv, JnlInv, [Next]_vars
  PROVE  \A r \in Region : Onward(jb[r], db[r], jb'[r], db'[r])
<1>1. ASSUME jb' = jb, db' = db  PROVE \A r \in Region : Onward(jb[r], db[r], jb'[r], db'[r])
  BY <1>1, OnwardSame DEF TypeInv, TypeOK
<1>2. ASSUME NEW p \in Proc,
             \/ GrabCrit(p) \/ Recover(p) \/ RecoverWritten(p) \/ RecoverDone(p) \/ EarlyTn(p)
             \/ ReserveJnl(p) \/ PublishJnl(p) \/ UpdateUnderway(p) \/ SetRegSeqno(p)
             \/ IncrementCurrTn(p) \/ RelCrit(p) \/ Finish(p) \/ UndoDB(p) \/ WriteJnl(p)
             \/ JnlWriteComplete(p)
      PROVE  \A r \in Region : Onward(jb[r], db[r], jb'[r], db'[r])
  <2>1. PICK x : x = reg(p)  OBVIOUS
  <2>2. Local(p, x)  BY <1>2, <2>1, LocalIs
  <2>3. ASSUME x \in Region  PROVE Onward(jb[x], db[x], jb'[x], db'[x])
    BY <1>2, <2>1, <2>3, OnwardGrab, OnwardRecover, OnwardLogs, OnwardHeads
  <2> QED  BY <2>2, <2>3, OnwardLocal
<1>3. ASSUME NEW x \in Region, JnlCleanup(x)
      PROVE  \A r \in Region : Onward(jb[r], db[r], jb'[r], db'[r])
  <2>1. PICK c, L : c = FALSE /\ L = jb[x]  OBVIOUS
  <2>2. jb' = [jb EXCEPT ![x] = Cleanup(L, NoProc, c, Alive)] /\ db' = db
    BY <1>3, <2>1 DEF JnlCleanup
  <2>3. L \in Log /\ Sound(L) /\ jb \in [Region -> Log]
    BY <2>1 DEF TypeInv, TypeOK, JnlInv, RegionInv
  <2>4. jb'[x] = Cleanup(L, NoProc, c, Alive)  BY <2>2, <2>3
  <2>5. Kept(L, jb'[x])  BY <2>3, <2>4, CleanupKept DEF Sound
  <2>6. Onward(jb[x], db[x], jb'[x], db'[x])  BY <2>1, <2>2, <2>5, OnwardJnl
  <2>7. \A r \in Region : r # x => jb'[r] = jb[r]  BY <2>2, <2>3
  <2> QED  BY <2>2, <2>6, <2>7, OnwardSame DEF TypeInv, TypeOK
<1>4. ASSUME NEW p \in Proc,
             \/ \E rs \in Updates : Begin(p, rs)
             \/ GrabLock(p) \/ ReservePool(p) \/ PublishPool(p) \/ SetJnlSeqno(p) \/ RelLock(p)
             \/ WritePool(p) \/ PoolWriteComplete(p) \/ UndoPool(p) \/ UndoRel(p) \/ Fail(p) \/ Kill(p)
      PROVE  \A r \in Region : Onward(jb[r], db[r], jb'[r], db'[r])
  <2>1. jb' = jb /\ db' = db
    BY <1>4 DEF Begin, GrabLock, ReservePool, PublishPool, SetJnlSeqno, RelLock, WritePool,
                PoolWriteComplete, UndoPool, UndoRel, Fail, Kill
  <2> QED  BY <1>1, <2>1
<1>5. CASE Source \/ UNCHANGED vars
  <2>1. jb' = jb /\ db' = db  BY <1>5 DEF Source, SourceRead, SourceSalvage, vars
  <2> QED  BY <1>1, <2>1
<1> QED  BY <1>2, <1>3, <1>4, <1>5 DEF Next, Step

LEMMA SeqnoOnward ==
  ASSUME TypeInv, TokenInv, [Next]_vars
  PROVE  jnl_seqno <= jnl_seqno'
<1>1. jnl_seqno \in Nat  BY DEF TypeInv, TypeOK
<1>2. CASE \E p \in Proc : SetJnlSeqno(p)
  <2>1. PICK p \in Proc : SetJnlSeqno(p)  BY <1>2
  <2>2. pc[p] = "cmt07" /\ jnl_seqno' = token[p] + 1  BY <2>1 DEF SetJnlSeqno
  <2>3. token[p] = jnl_seqno  BY <2>2 DEF TokenInv, Token, Published
  <2> QED  BY <1>1, <2>2, <2>3
<1>3. CASE ~ \E p \in Proc : SetJnlSeqno(p)
  <2>1. ASSUME NEW p \in Proc, Step(p)  PROVE jnl_seqno' = jnl_seqno
    <3>1. ~SetJnlSeqno(p)  BY <1>3
    <3> QED
      BY <2>1, <3>1 DEF Step, GrabCrit, Recover, RecoverWritten, RecoverDone, GrabLock,
           ReservePool, PublishPool, EarlyTn, ReserveJnl, PublishJnl, UpdateUnderway, SetRegSeqno,
           IncrementCurrTn, RelCrit, RelLock, WriteJnl, JnlWriteComplete, WritePool,
           PoolWriteComplete, UndoPool, UndoDB, UndoRel, Finish
  <2>2. ASSUME NEW p \in Proc, (\E rs \in Updates : Begin(p, rs)) \/ Fail(p) \/ Kill(p)
        PROVE  jnl_seqno' = jnl_seqno
    BY <2>2 DEF Begin, Fail, Kill
  <2>3. ASSUME NEW r \in Region, JnlCleanup(r)  PROVE jnl_seqno' = jnl_seqno
    BY <2>3 DEF JnlCleanup
  <2>4. ASSUME SourceRead \/ SourceSalvage  PROVE jnl_seqno' = jnl_seqno
    BY <2>4 DEF SourceRead, SourceSalvage
  <2>5. CASE UNCHANGED vars  BY <1>1, <2>5 DEF vars
  <2> QED  BY <1>1, <2>1, <2>2, <2>3, <2>4, <2>5 DEF Next, Source
<1> QED  BY <1>2, <1>3

(* If no process is killed between the stores of UPDATE_JPL_RSRV_WRITE_ADDR,  *)
(* and no error comes between CMT04 and CMT06 (LateErrors),                   *)
(* no step of any process, repair or reader takes back what a reader may have *)
(* seen: the addresses handed over in the pool and in the journals, the       *)
(* records below them, curr_tn, reg_seqno and jnl_seqno.                      *)
THEOREM SeenIsKept ==
  ASSUME LateErrors, "cmt03b" \notin KillPoints
  PROVE  Spec => NothingTakenBack
<1> DEFINE Inv == TypeInv /\ TokenInv /\ PoolInv /\ JnlInv
<1>1. Init => Inv  BY TypeInit, TokenInit, PoolInit, JnlInit
<1>2. ASSUME Inv, [Next]_vars
      PROVE  /\ Inv'
             /\ Kept(pool, pool') /\ jnl_seqno <= jnl_seqno'
             /\ \A r \in Region :
                  /\ Kept(jb[r], jb'[r])
                  /\ db[r].curr_tn <= db'[r].curr_tn /\ db[r].reg_seqno <= db'[r].reg_seqno
  <2>1. TypeInv'  BY <1>2, TypeStep
  <2>2. TokenInv' /\ PoolInv'  BY <1>2, TokenStep, PoolStep
  <2>3. JnlInv'  BY <1>2, <2>1, JnlStep
  <2>4. Kept(pool, pool')  BY <1>2, <2>1, PoolOnward
  <2>5. jnl_seqno <= jnl_seqno'  BY <1>2, SeqnoOnward
  <2>6. \A r \in Region : Onward(jb[r], db[r], jb'[r], db'[r])  BY <1>2, <2>1, RegionsOnward
  <2> QED  BY <2>1, <2>2, <2>3, <2>4, <2>5, <2>6 DEF Onward
<1>3. Spec => []Inv
  <2> HIDE DEF Inv
  <2> QED  BY <1>1, <1>2, PTL DEF Spec
<1>4. Inv /\ [Next]_vars =>
        [/\ Kept(pool, pool') /\ jnl_seqno <= jnl_seqno'
         /\ \A r \in Region :
              /\ Kept(jb[r], jb'[r])
              /\ db[r].curr_tn <= db'[r].curr_tn /\ db[r].reg_seqno <= db'[r].reg_seqno]_vars
  BY <1>2
<1> HIDE DEF Inv
<1> QED  BY <1>3, <1>4, PTL DEF Spec, NothingTakenBack


-----------------------------------------------------------------------------
(* Who wrote what *)

(* p has taken seqno s, for region r among others. *)
Names(r, s, p) ==
  /\ s \in 1 .. jnl_seqno - 1 /\ txn[s].by = p /\ (r = POOL \/ r \in txn[s].upd)

(* A record is of a transaction that its process has committed, or an INCTN   *)
(* record; a salvaged one, of a process that is dead.                        *)
RecOk(r, rec) ==
  \/ rec = Garbage
  \/ rec.kind = "inctn" /\ rec.jnl_seqno = 0
  \/ /\ rec.kind \in {"update", "null"} /\ Names(r, rec.jnl_seqno, rec.by)
     /\ rec.kind = "null" => pc[rec.by] = "dead"

FileOk(r, f) == \A k \in 1 .. Len(f) : RecOk(r, f[k])

SlotOk(r, s) == IF s.in_phase2 THEN Names(r, s.jnl_seqno, s.process_id) ELSE s.jnl_seqno = 0

(* ... and so is a reservation, those of D left out. *)
AllOk(r, L, D) == \A i \in InUse(L) \ D : SlotOk(r, L.slot[i])

(* The reservation of a journal that may have to be withdrawn is the newest:  *)
(* the owner h of crit is between CMT06 and CMT08.                           *)
Doubts(L, d, h) ==
  {i \in {DECR(L.index2)} : /\ L.slot[i].in_phase2 /\ L.slot[i].jnl_seqno # 0
                            /\ d.early_tn # d.curr_tn /\ d.update_underway_tn # d.curr_tn
                            /\ L.slot[i].process_id = h /\ L.slot[i].curr_tn = d.curr_tn}

(* In the pool, the owner is between CMT03 and CMT07. *)
PoolDoubts ==
  {i \in {DECR(pool.index2)} : \E h \in Proc :
      /\ pool.slot[i].in_phase2 /\ crit[POOL] = h /\ pc[h] \in Published \cup {"dead"}
      /\ pool.slot[i].process_id = h /\ pool.slot[i].jnl_seqno = jnl_seqno}

(* p is in the middle of CMT03. *)
Reserving(L, p, t) ==
  LET s == L.slot[L.index2] IN s.process_id = p /\ s.in_phase2 /\ s.jnl_seqno = t

Committed == {"cmt08", "cmt09", "cmt12", "cmt14", "cmt15", "finish"} \cup Phase2

TxnInv ==
  /\ Len(txn) + 1 = jnl_seqno
  /\ \A p \in Proc : pc[p] \in Committed =>
       token[p] \in 1 .. Len(txn) /\ txn[token[p]].by = p /\ txn[token[p]].upd = upd[p]

RegionOk(r) ==
  FileOk(r, jb[r].file) /\ AllOk(r, jb[r], Doubts(jb[r], db[r], crit[r]))

PoolOk ==
  /\ FileOk(POOL, pool.file) /\ AllOk(POOL, pool, PoolDoubts)
  /\ \A p \in Proc : pc[p] = "cmt03b" => Reserving(pool, p, token[p])

RecInv == TxnInv /\ PoolOk /\ \A r \in Region : RegionOk(r)

-----------------------------------------------------------------------------
(* The history only grows *)

History ==
  /\ jnl_seqno <= jnl_seqno' /\ \A s \in 1 .. jnl_seqno - 1 : txn'[s] = txn[s]
  /\ \A p \in Proc : pc[p] = "dead" => pc'[p] = "dead"

LEMMA NamesLater ==
  ASSUME TypeInv, TypeInv', History, NEW r, NEW s, NEW p, Names(r, s, p)
  PROVE  Names(r, s, p)'
<1>1. jnl_seqno \in Nat /\ jnl_seqno' \in Nat  BY DEF TypeInv, TypeOK
<1>2. s \in 1 .. jnl_seqno' - 1
  <2>1. s \in 1 .. jnl_seqno - 1 /\ jnl_seqno <= jnl_seqno'  BY DEF Names, History
  <2>2. PICK a, b : a = jnl_seqno /\ b = jnl_seqno'  OBVIOUS
  <2>3. a \in Nat /\ b \in Nat /\ s \in 1 .. a - 1 /\ a <= b  BY <1>1, <2>1, <2>2
  <2>4. s \in 1 .. b - 1  BY <2>3
  <2> QED  BY <2>2, <2>4
<1>3. txn'[s] = txn[s]  BY DEF Names, History
<1> QED  BY <1>2, <1>3 DEF Names

LEMMA NamesProc ==
  ASSUME TypeInv, TxnInv, NEW r, NEW s, NEW p, Names(r, s, p)
  PROVE  p \in Proc /\ s \in Nat /\ s # 0
<1>1. jnl_seqno \in Nat /\ txn \in Seq([by : Proc, upd : SUBSET Region])  BY DEF TypeInv, TypeOK
<1>2. s \in 1 .. Len(txn) /\ txn[s].by = p  BY <1>1 DEF Names, TxnInv
<1>3. PICK T : T = [by : Proc, upd : SUBSET Region]  OBVIOUS
<1>4. txn[s] \in T
  <2>1. txn \in Seq(T)  BY <1>1, <1>3
  <2> QED  BY <1>2, <2>1
<1>5. txn[s].by \in Proc  BY <1>3, <1>4
<1>6. s \in Nat /\ s # 0  BY <1>1, <1>2
<1> QED  BY <1>2, <1>5, <1>6

LEMMA OkLater ==
  ASSUME TypeInv, TypeInv', TxnInv, History, NEW r
  PROVE  /\ \A f : FileOk(r, f) => FileOk(r, f)'
         /\ \A L, D : AllOk(r, L, D) => AllOk(r, L, D)'
<1>1. ASSUME NEW rec, RecOk(r, rec)  PROVE RecOk(r, rec)'
  <2>1. CASE rec = Garbage \/ (rec.kind = "inctn" /\ rec.jnl_seqno = 0)
    BY <2>1 DEF RecOk
  <2>2. CASE /\ rec.kind \in {"update", "null"} /\ Names(r, rec.jnl_seqno, rec.by)
             /\ rec.kind = "null" => pc[rec.by] = "dead"
    <3>1. PICK s, p : s = rec.jnl_seqno /\ p = rec.by  OBVIOUS
    <3>2. Names(r, s, p)  BY <2>2, <3>1
    <3>3. Names(r, s, p)' /\ p \in Proc  BY <3>2, NamesLater, NamesProc
    <3>4. Names(r, rec.jnl_seqno, rec.by)'
      <4>1. jnl_seqno' \in Nat  BY DEF TypeInv, TypeOK
      <4> QED  BY <3>1, <3>3, <4>1 DEF Names
    <3>5. pc[p] = "dead" => pc'[p] = "dead"  BY <3>3 DEF History
    <3> QED  BY <2>2, <3>1, <3>4, <3>5 DEF RecOk
  <2> QED  BY <1>1, <2>1, <2>2 DEF RecOk
<1>2. ASSUME NEW f, FileOk(r, f)  PROVE FileOk(r, f)'
  BY <1>1, <1>2 DEF FileOk
<1>3. ASSUME NEW s, SlotOk(r, s)  PROVE SlotOk(r, s)'
  <2>1. PICK q, p : q = s.jnl_seqno /\ p = s.process_id  OBVIOUS
  <2>2. Names(r, q, p) => Names(r, q, p)'  BY NamesLater
  <2> QED  BY <1>3, <2>1, <2>2 DEF SlotOk, Names
<1>4. ASSUME NEW L, NEW D, AllOk(r, L, D)  PROVE AllOk(r, L, D)'
  BY <1>3, <1>4 DEF AllOk
<1> QED  BY <1>2, <1>4

LEMMA TxnSame ==
  ASSUME [Next]_vars, ~ \E p \in Proc : SetJnlSeqno(p)
  PROVE  jnl_seqno' = jnl_seqno /\ txn' = txn
<1>1. ASSUME NEW p \in Proc, Step(p)  PROVE jnl_seqno' = jnl_seqno /\ txn' = txn
  <2>1. ~SetJnlSeqno(p)  OBVIOUS
  <2> QED
    BY <1>1, <2>1 DEF Step, GrabCrit, Recover, RecoverWritten, RecoverDone, GrabLock, ReservePool,
         PublishPool, EarlyTn, ReserveJnl, PublishJnl, UpdateUnderway, SetRegSeqno,
         IncrementCurrTn, RelCrit, RelLock, WriteJnl, JnlWriteComplete, WritePool,
         PoolWriteComplete, UndoPool, UndoDB, UndoRel, Finish, histvars
<1>2. ASSUME NEW p \in Proc, (\E rs \in Updates : Begin(p, rs)) \/ Fail(p) \/ Kill(p)
      PROVE  jnl_seqno' = jnl_seqno /\ txn' = txn
  BY <1>2 DEF Begin, Fail, Kill
<1>3. ASSUME NEW r \in Region, JnlCleanup(r)  PROVE jnl_seqno' = jnl_seqno /\ txn' = txn
  BY <1>3 DEF JnlCleanup, histvars
<1>4. ASSUME SourceRead \/ SourceSalvage  PROVE jnl_seqno' = jnl_seqno /\ txn' = txn
  BY <1>4 DEF SourceRead, SourceSalvage, histvars
<1>5. CASE UNCHANGED vars  BY <1>5 DEF vars
<1> QED  BY <1>1, <1>2, <1>3, <1>4, <1>5 DEF Next, Source

(* CMT07 appends to the history. *)
LEMMA TxnAppended ==
  ASSUME TypeInv, TokenInv, TxnInv, NEW p \in Proc, SetJnlSeqno(p)
  PROVE  /\ token[p] = jnl_seqno /\ jnl_seqno' = jnl_seqno + 1 /\ Len(txn') = jnl_seqno
         /\ jnl_seqno \in Nat /\ txn'[jnl_seqno].by = p /\ txn'[jnl_seqno].upd = upd[p]
         /\ \A s \in 1 .. Len(txn) : txn'[s] = txn[s]
<1>1. jnl_seqno \in Nat /\ txn \in Seq([by : Proc, upd : SUBSET Region])  BY DEF TypeInv, TypeOK
<1>2. /\ pc[p] = "cmt07" /\ jnl_seqno' = token[p] + 1
      /\ txn' = Append(txn, [by |-> p, upd |-> upd[p]])
  BY DEF SetJnlSeqno
<1>3. token[p] = jnl_seqno  BY <1>2 DEF TokenInv, Token, Published
<1>4. Len(txn) + 1 = jnl_seqno /\ Len(txn) \in Nat  BY <1>1 DEF TxnInv
<1>5. PICK e : e = [by |-> p, upd |-> upd[p]]  OBVIOUS
<1>6. txn' = Append(txn, e) /\ e.by = p /\ e.upd = upd[p]  BY <1>2, <1>5
<1>7. Len(txn') = Len(txn) + 1 /\ txn'[Len(txn) + 1] = e
      /\ \A s \in 1 .. Len(txn) : txn'[s] = txn[s]
  BY <1>1, <1>6
<1> QED  BY <1>1, <1>2, <1>3, <1>4, <1>6, <1>7

LEMMA DeadStay ==
  ASSUME TypeInv, [Next]_vars
  PROVE  \A q \in Proc : pc[q] = "dead" => pc'[q] = "dead"
<1> SUFFICES ASSUME NEW q \in Proc, pc[q] = "dead"  PROVE pc'[q] = "dead"  OBVIOUS
<1>1. ASSUME NEW p \in Proc, (\E rs \in Updates : Begin(p, rs)) \/ Step(p) \/ Fail(p) \/ Kill(p)
      PROVE  pc'[q] = "dead"
  <2>1. Alone(p)  BY <1>1, AloneIs
  <2>2. CASE p # q  BY <2>1, <2>2 DEF Alone
  <2>3. CASE p = q
    <3>1. ~ \E rs \in Updates : Begin(p, rs)  BY <2>3 DEF Begin
    <3>2. ~Step(p)
      <4>1. pc[p] = "dead"  BY <2>3
      <4>2. ~(\/ GrabCrit(p) \/ Recover(p) \/ RecoverWritten(p) \/ RecoverDone(p) \/ EarlyTn(p)
              \/ ReserveJnl(p) \/ PublishJnl(p) \/ UpdateUnderway(p) \/ SetRegSeqno(p)
              \/ IncrementCurrTn(p) \/ RelCrit(p) \/ Finish(p) \/ UndoDB(p) \/ WriteJnl(p)
              \/ JnlWriteComplete(p))
        <5>1. PICK x : x = reg(p)  OBVIOUS
        <5> QED  BY <4>1, <5>1, LocalIs
      <4> QED
        BY <4>1, <4>2 DEF Step, GrabLock, ReservePool, PublishPool, SetJnlSeqno, RelLock, WritePool,
           PoolWriteComplete, UndoPool, UndoRel
    <3>3. ~Fail(p)  BY <2>3, CommitAssumption DEF Fail
    <3>4. CASE Kill(p)  BY <2>3, <3>4 DEF Kill, TypeInv, TypeOK
    <3> QED  BY <1>1, <3>1, <3>2, <3>3, <3>4
  <2> QED  BY <2>2, <2>3
<1>2. CASE (\E r \in Region : JnlCleanup(r)) \/ SourceRead \/ SourceSalvage
  BY <1>2 DEF JnlCleanup, SourceRead, SourceSalvage, procvars
<1>3. CASE UNCHANGED vars  BY <1>3 DEF vars
<1> QED  BY <1>1, <1>2, <1>3 DEF Next, Source

LEMMA HistoryStep ==
  ASSUME TypeInv, TokenInv, TxnInv, [Next]_vars
  PROVE  History
<1>1. jnl_seqno <= jnl_seqno'  BY SeqnoOnward
<1>2. \A s \in 1 .. jnl_seqno - 1 : txn'[s] = txn[s]
  <2>1. CASE \E p \in Proc : SetJnlSeqno(p)
    <3>1. PICK p \in Proc : SetJnlSeqno(p)  BY <2>1
    <3>2. txn \in Seq([by : Proc, upd : SUBSET Region])  BY DEF TypeInv, TypeOK
    <3>3. \A s \in 1 .. Len(txn) : txn'[s] = txn[s]  BY <3>1, TxnAppended
    <3>4. jnl_seqno - 1 = Len(txn)  BY <3>2 DEF TxnInv
    <3> QED  BY <3>3, <3>4
  <2>2. CASE ~ \E p \in Proc : SetJnlSeqno(p)  BY <2>2, TxnSame
  <2> QED  BY <2>1, <2>2
<1>3. \A p \in Proc : pc[p] = "dead" => pc'[p] = "dead"  BY DeadStay
<1> QED  BY <1>1, <1>2, <1>3 DEF History

(* A committed transaction stays as it is. *)
LEMMA CommittedSame ==
  ASSUME TypeInv, NEW p \in Proc,
         (\E rs \in Updates : Begin(p, rs)) \/ Step(p) \/ Fail(p) \/ Kill(p),
         ~SetJnlSeqno(p), pc'[p] \in Committed
  PROVE  pc[p] \in Committed /\ token'[p] = token[p] /\ upd'[p] = upd[p]
<1>0. pc \in [Proc -> PC]  BY DEF TypeInv, TypeOK
<1>1. ~ \E rs \in Updates : Begin(p, rs)  BY <1>0 DEF Begin, Goto, Committed, Phase2
<1>2. ~Kill(p)  BY <1>0 DEF Kill, Committed, Phase2
<1>3. CASE Fail(p)
  <2>1. Goto(p, "undopool") \/ (pc[p] = "cmt12" /\ token' = token /\ upd' = upd)
    BY <1>3 DEF Fail
  <2> QED  BY <1>0, <2>1 DEF Goto, Committed, Phase2
<1>4. CASE \/ GrabLock(p) \/ ReservePool(p) \/ PublishPool(p) \/ RelLock(p) \/ WritePool(p)
           \/ PoolWriteComplete(p) \/ UndoPool(p) \/ UndoRel(p)
  BY <1>0, <1>4 DEF GrabLock, ReservePool, PublishPool, RelLock, WritePool, PoolWriteComplete,
     UndoPool, UndoRel, Goto, Committed, Phase2
<1>5. CASE \/ GrabCrit(p) \/ Recover(p) \/ RecoverWritten(p) \/ RecoverDone(p) \/ EarlyTn(p)
           \/ ReserveJnl(p) \/ PublishJnl(p) \/ UndoDB(p)
  BY <1>0, <1>5 DEF GrabCrit, AfterGrab, Recover, RecoverWritten, RecoverDone, EarlyTn,
     ReserveJnl, PublishJnl, UndoDB, Loop, Goto, Committed, Phase2
<1>6. CASE \/ UpdateUnderway(p) \/ SetRegSeqno(p) \/ IncrementCurrTn(p) \/ RelCrit(p) \/ Finish(p)
           \/ WriteJnl(p) \/ JnlWriteComplete(p)
  BY <1>6 DEF UpdateUnderway, SetRegSeqno, IncrementCurrTn, RelCrit, Finish, WriteJnl,
     JnlWriteComplete, Committed, Phase2
<1> QED  BY <1>1, <1>2, <1>3, <1>4, <1>5, <1>6 DEF Step

LEMMA TxnStep ==
  ASSUME TypeInv, TokenInv, TxnInv, [Next]_vars
  PROVE  TxnInv'
<1>1. /\ jnl_seqno \in Nat /\ txn \in Seq([by : Proc, upd : SUBSET Region])
      /\ pc \in [Proc -> PC]
  BY DEF TypeInv, TypeOK
<1>2. ASSUME NEW p \in Proc, SetJnlSeqno(p)  PROVE TxnInv'
  <2>1. /\ token[p] = jnl_seqno /\ jnl_seqno' = jnl_seqno + 1 /\ Len(txn') = jnl_seqno
        /\ txn'[jnl_seqno].by = p /\ txn'[jnl_seqno].upd = upd[p]
        /\ \A s \in 1 .. Len(txn) : txn'[s] = txn[s]
    BY <1>2, TxnAppended
  <2>2. Len(txn) + 1 = jnl_seqno /\ Len(txn) \in Nat  BY <1>1 DEF TxnInv
  <2>3. upd' = upd /\ token' = token /\ pc' = [pc EXCEPT ![p] = "cmt08"]
    BY <1>2 DEF SetJnlSeqno, Goto
  <2>4. ASSUME NEW q \in Proc, pc'[q] \in Committed
        PROVE  /\ token'[q] \in 1 .. Len(txn') /\ txn'[token'[q]].by = q
               /\ txn'[token'[q]].upd = upd'[q]
    <3>1. CASE q = p  BY <1>1, <2>1, <2>2, <2>3, <3>1
    <3>2. CASE q # p
      <4>1. pc[q] \in Committed  BY <1>1, <2>3, <2>4, <3>2
      <4>2. token[q] \in 1 .. Len(txn) /\ txn[token[q]].by = q /\ txn[token[q]].upd = upd[q]
        BY <4>1 DEF TxnInv
      <4> QED  BY <2>1, <2>2, <2>3, <4>2
    <3> QED  BY <3>1, <3>2
  <2> QED  BY <2>1, <2>4 DEF TxnInv
<1>3. ASSUME ~ \E p \in Proc : SetJnlSeqno(p)  PROVE TxnInv'
  <2>1. jnl_seqno' = jnl_seqno /\ txn' = txn  BY <1>3, TxnSame
  <2>2. ASSUME NEW q \in Proc, pc'[q] \in Committed
        PROVE  pc[q] \in Committed /\ token'[q] = token[q] /\ upd'[q] = upd[q]
    <3>1. ASSUME NEW p \in Proc,
                 (\E rs \in Updates : Begin(p, rs)) \/ Step(p) \/ Fail(p) \/ Kill(p)
          PROVE  pc[q] \in Committed /\ token'[q] = token[q] /\ upd'[q] = upd[q]
      <4>1. CASE p = q  BY <1>3, <2>2, <3>1, <4>1, CommittedSame
      <4>2. CASE p # q
        <5>1. Alone(p)  BY <3>1, AloneIs
        <5> QED  BY <2>2, <4>2, <5>1 DEF Alone
      <4> QED  BY <4>1, <4>2
    <3>2. CASE (\E r \in Region : JnlCleanup(r)) \/ SourceRead \/ SourceSalvage
      BY <2>2, <3>2 DEF JnlCleanup, SourceRead, SourceSalvage, procvars
    <3>3. CASE UNCHANGED vars  BY <2>2, <3>3 DEF vars
    <3> QED  BY <3>1, <3>2, <3>3 DEF Next, Source
  <2> QED  BY <2>1, <2>2 DEF TxnInv
<1> QED  BY <1>2, <1>3

-----------------------------------------------------------------------------
(* Operations on a log *)

LEMMA OkTidied ==
  ASSUME NEW r, NEW L \in Log, NEW M, NEW C, Tidied(M, L, C), NEW D, AllOk(r, L, D)
  PROVE  AllOk(r, M, D)
<1> SUFFICES ASSUME NEW i \in InUse(M) \ D  PROVE SlotOk(r, M.slot[i])  BY DEF AllOk
<1>1. i \in InUse(L) \ D /\ i \in Index  BY DEF Tidied, InUse
<1>2. Alike(M.slot[i], L.slot[i])  BY <1>1 DEF Tidied
<1>3. SlotOk(r, L.slot[i])  BY <1>1 DEF AllOk
<1> QED  BY <1>2, <1>3 DEF Alike, SlotOk

LEMMA OkStore ==
  ASSUME NEW r, NEW f \in Seq(Record), NEW a \in Nat, NEW rec \in Record, FileOk(r, f),
         RecOk(r, rec), NEW g, g = Store(f, a, rec)
  PROVE  FileOk(r, g)
<1>1. /\ g \in Seq(Record)
      /\ \A i \in 1 .. Len(g) :
           g[i] = IF i = a + 1 THEN rec ELSE IF i <= Len(f) THEN f[i] ELSE Garbage
  <2>1. Stored(g, f, a, rec)  BY StoreStores
  <2> QED  BY <2>1 DEF Stored
<1> SUFFICES ASSUME NEW i \in 1 .. Len(g)  PROVE RecOk(r, g[i])  BY DEF FileOk
<1>2. Len(f) \in Nat /\ Len(g) \in Nat  BY <1>1
<1>3. i \in Nat /\ 1 <= i  BY <1>2
<1>4. g[i] = rec \/ g[i] = Garbage \/ (i \in 1 .. Len(f) /\ g[i] = f[i])  BY <1>1, <1>2, <1>3
<1>5. RecOk(r, Garbage)  BY DEF RecOk
<1> QED  BY <1>4, <1>5 DEF FileOk

(* What is salvaged is known, and its process dead. *)
LEMMA OkSalvage ==
  ASSUME TypeInv, TxnInv, NEW r, NEW L \in Log, FileOk(r, L.file), NEW D, AllOk(r, L, D),
         NEW dead, dead \subseteq InUse(L) \ D, \A i \in dead : L.slot[i].process_id \notin Alive,
         NEW M, M = Salvage(L, dead)
  PROVE  FileOk(r, M.file)
<1> DEFINE S == {s \in {L.slot[i] : i \in dead} : s.in_phase2}
<1>0. dead \subseteq Index  BY DEF InUse
<1>1. M.file = Nullified(L.file, S)  BY <1>0, SalvageIs
<1>2. L.file \in Seq(Record)  BY LogFields
<1>3. S \subseteq Slot  BY <1>0, LogFields
<1>4. PICK b \in Nat : \A s \in S : s.start < b
  <2>1. PICK f : f = [i \in Index |-> L.slot[i].start]  OBVIOUS
  <2>2. f \in [Index -> Nat]  BY <2>1, LogFields, SlotFields
  <2>3. PICK b \in Nat : \A i \in Index : f[i] < b  BY <2>2, SlotsBounded
  <2>4. \A s \in S : s.start < b  BY <1>0, <2>1, <2>3
  <2> QED  BY <2>4
<1>5. ASSUME NEW t \in S  PROVE RecOk(r, SalvageRecord(t))
  <2>1. PICK i \in dead : t = L.slot[i] /\ t.in_phase2  OBVIOUS
  <2>2. SlotOk(r, t) /\ t.process_id \notin Alive  BY <2>1 DEF AllOk
  <2>3. Names(r, t.jnl_seqno, t.process_id)  BY <2>1, <2>2 DEF SlotOk
  <2>4. t.process_id \in Proc  BY <2>3, NamesProc
  <2>5. pc[t.process_id] = "dead"  BY <2>2, <2>4 DEF Alive
  <2>6. PICK c : c = SalvageRecord(t)  OBVIOUS
  <2>7. c.kind = "null" /\ c.jnl_seqno = t.jnl_seqno /\ c.by = t.process_id
    BY <2>6 DEF SalvageRecord
  <2>8. RecOk(r, c)  BY <2>3, <2>5, <2>7 DEF RecOk
  <2> QED  BY <2>6, <2>8
<1> HIDE DEF S
<1>6. PICK f, g : f = L.file /\ g = M.file  OBVIOUS
<1>7. /\ g \in Seq(Record) /\ Len(f) <= Len(g)
      /\ \A i \in 1 .. Len(g) : (\A s \in S : s.start + 1 # i) =>
           g[i] = IF i <= Len(f) THEN f[i] ELSE Garbage
      /\ \A s \in S : \E t \in S : t.start = s.start /\ g[s.start + 1] = SalvageRecord(t)
  BY <1>1, <1>2, <1>3, <1>4, <1>6, NullifiedIs
<1>8. ASSUME NEW i \in 1 .. Len(g)  PROVE RecOk(r, g[i])
  <2>1. CASE \E s \in S : s.start + 1 = i
    <3>1. PICK s \in S : s.start + 1 = i  BY <2>1
    <3>2. PICK t \in S : g[s.start + 1] = SalvageRecord(t)  BY <1>7
    <3> QED  BY <1>5, <3>1, <3>2
  <2>2. CASE \A s \in S : s.start + 1 # i
    <3>1. g[i] = IF i <= Len(f) THEN f[i] ELSE Garbage  BY <1>7, <2>2
    <3>2. CASE i <= Len(f)
      <4>1. i \in 1 .. Len(f)  BY <1>2, <1>6, <1>7, <3>2
      <4> QED  BY <1>6, <3>1, <3>2, <4>1 DEF FileOk
    <3>3. CASE ~(i <= Len(f))  BY <3>1, <3>3 DEF RecOk
    <3> QED  BY <3>2, <3>3
  <2> QED  BY <2>1, <2>2
<1> QED  BY <1>6, <1>8 DEF FileOk

LEMMA OkCleanup ==
  ASSUME TypeInv, TxnInv, NEW r, NEW L \in Log, FileOk(r, L.file), NEW D, AllOk(r, L, D),
         NEW p, NEW c, c => InUse(L) \cap D \cap Orphans(L, p, Alive) = {},
         NEW M, M = Cleanup(L, p, c, Alive)
  PROVE  FileOk(r, M.file) /\ AllOk(r, M, D)
<1>1. AllOk(r, M, D)  BY CleanupIs, OkTidied
<1>2. CASE c
  <2>1. PICK E : E = DeadRun(L, p, Alive)  OBVIOUS
  <2>2. PICK K : K = Salvage(L, E)  OBVIOUS
  <2>3. M = HandOver(K)  BY <1>2, <2>1, <2>2, Zenon DEF Cleanup, SalvageDead
  <2>4. E \subseteq InUse(L) /\ E \subseteq Orphans(L, p, Alive)  BY <2>1, DeadRunIs
  <2>5. E \subseteq InUse(L) \ D /\ \A i \in E : L.slot[i].process_id \notin Alive
    BY <1>2, <2>4 DEF Orphans
  <2>6. FileOk(r, K.file)  BY <2>2, <2>5, OkSalvage
  <2>7. E \subseteq Index  BY <2>4 DEF InUse
  <2>8. K \in Log  BY <2>2, <2>7, SalvageIs
  <2>9. M.file = K.file  BY <2>3, <2>8, HandOverIs
  <2> QED  BY <1>1, <2>6, <2>9
<1>3. CASE ~c
  <2>1. M = HandOver(L)  BY <1>3 DEF Cleanup
  <2>2. M.file = L.file  BY <2>1, HandOverIs
  <2> QED  BY <1>1, <2>2
<1> QED  BY <1>2, <1>3

LEMMA OkWriteComplete ==
  ASSUME TypeInv, TxnInv, NEW r, NEW L \in Log, FileOk(r, L.file), NEW D, AllOk(r, L, D),
         NEW i \in Index, NEW p, NEW c, c => InUse(L) \cap D \cap Orphans(L, p, Alive) = {},
         NEW M, M = WriteComplete(L, i, p, c, Alive)
  PROVE  FileOk(r, M.file) /\ AllOk(r, M, D)
<1>1. PICK K : K = Done(L, i)  OBVIOUS
<1>2. /\ K \in Log /\ K.file = L.file /\ InUse(K) = InUse(L)
      /\ \A j \in Index : Alike(K.slot[j], L.slot[j])
  BY <1>1, MarkedIs
<1>3. FileOk(r, K.file)  BY <1>2
<1>4. AllOk(r, K, D)
  <2> SUFFICES ASSUME NEW j \in InUse(K) \ D  PROVE SlotOk(r, K.slot[j])  BY DEF AllOk
  <2>1. j \in InUse(L) \ D /\ j \in Index  BY <1>2 DEF InUse
  <2>2. SlotOk(r, L.slot[j]) /\ Alike(K.slot[j], L.slot[j])  BY <1>2, <2>1 DEF AllOk
  <2> QED  BY <2>2 DEF Alike, SlotOk
<1>5. c => InUse(K) \cap D \cap Orphans(K, p, Alive) = {}
  <2>1. Orphans(K, p, Alive) = Orphans(L, p, Alive)  BY <1>2 DEF Orphans, Alike
  <2> QED  BY <1>2, <2>1
<1>6. M = Cleanup(K, p, c, Alive) \/ M = K
  BY <1>1, Zenon DEF WriteComplete, Done
<1> QED  BY <1>2, <1>3, <1>4, <1>5, <1>6, OkCleanup

LEMMA OkInit == ASSUME NEW r, NEW D  PROVE FileOk(r, EmptyLog.file) /\ AllOk(r, EmptyLog, D)
<1>1. EmptyLog.file = << >> /\ InUse(EmptyLog) = {}  BY EmptyIs DEF EmptyLog
<1>2. AllOk(r, EmptyLog, D)  BY <1>1 DEF AllOk
<1>3. FileOk(r, EmptyLog.file)  BY <1>1 DEF FileOk
<1> QED  BY <1>2, <1>3

-----------------------------------------------------------------------------
(* The journals *)

(* Before CMT06 nothing is in doubt. *)
LEMMA NoDoubts ==
  ASSUME NEW L \in Log, NEW d \in DB, NEW g, Near(L, d) \/ Taking(L, d, g), NEW h
  PROVE  InUse(L) \cap Doubts(L, d, h) = {}
<1> SUFFICES ASSUME NEW i \in InUse(L), i \in Doubts(L, d, h)  PROVE FALSE  OBVIOUS
<1>1. Last(L).curr_tn = d.curr_tn /\ Last(L).jnl_seqno # 0  BY DEF Doubts, Last
<1>2. Last(L).curr_tn \in Nat  BY LastType, SlotFields
<1>3. CASE Near(L, d)  BY <1>1, <1>2, <1>3 DEF Near, Calm, Redo
<1>4. CASE Taking(L, d, g)  BY <1>1, <1>2, <1>4 DEF Taking, Succeeds
<1> QED  BY <1>3, <1>4

LEMMA AllSettled ==
  ASSUME NEW L \in Log, NEW d \in DB, NEW g, Near(L, d) \/ Taking(L, d, g), NEW h,
         NEW r, AllOk(r, L, Doubts(L, d, h))
  PROVE  AllOk(r, L, {})
BY NoDoubts DEF AllOk

LEMMA AllSettledUnderway ==
  ASSUME NEW L, NEW d, d.update_underway_tn = d.curr_tn \/ d.early_tn = d.curr_tn, NEW h, NEW r,
         AllOk(r, L, Doubts(L, d, h))
  PROVE  AllOk(r, L, {})
<1>1. Doubts(L, d, h) = {}  BY DEF Doubts
<1> QED  BY <1>1

LEMMA OkAny ==
  ASSUME NEW r, NEW L, AllOk(r, L, {}), NEW D
  PROVE  AllOk(r, L, D)
BY DEF AllOk

(* The newest reservation becomes known at CMT08. *)
LEMMA AllSettledLogged ==
  ASSUME NEW L \in Log, NEW d, NEW h, NEW r, AllOk(r, L, Doubts(L, d, h)),
         Last(L).process_id = h, Names(r, Last(L).jnl_seqno, h)
  PROVE  AllOk(r, L, {})
<1> SUFFICES ASSUME NEW i \in InUse(L)  PROVE SlotOk(r, L.slot[i])  BY DEF AllOk
<1>1. CASE i \in Doubts(L, d, h)
  <2>1. L.slot[i] = Last(L) /\ L.slot[i].in_phase2  BY <1>1 DEF Doubts, Last
  <2> QED  BY <2>1 DEF SlotOk
<1>2. CASE i \notin Doubts(L, d, h)  BY <1>2 DEF AllOk
<1> QED  BY <1>1, <1>2

LEMMA TokenNames ==
  ASSUME TypeInv, TxnInv, NEW p \in Proc, pc[p] \in Committed
  PROVE  Names(POOL, token[p], p) /\ \A r \in upd[p] : Names(r, token[p], p)
<1>1. jnl_seqno \in Nat /\ txn \in Seq([by : Proc, upd : SUBSET Region])  BY DEF TypeInv, TypeOK
<1>2. jnl_seqno - 1 = Len(txn)  BY <1>1 DEF TxnInv
<1> QED  BY <1>2 DEF TxnInv, Names

(* In which steps the owner of crit has nothing in doubt *)
LEMMA SettledAt ==
  ASSUME TypeInv, JnlInv, RecInv, NEW p \in Proc, NEW x, x = reg(p),
         pc[p] \in {"recover", "recoverb", "recoverc", "cmt04", "cmt06", "cmt06b", "cmt08",
                    "cmt09", "cmt12", "cmt14", "finish"}
  PROVE  AllOk(x, jb[x], {})
<1>1. PICK w, L, d : w = Here(pc[p]) /\ L = jb[x] /\ d = db[x]  OBVIOUS
<1>2. /\ w \in Inside
      /\ pc[p] = "recover" => w = "recover"
      /\ pc[p] = "recoverb" => w = "recoverb"
      /\ pc[p] = "recoverc" => w = "recoverc"
      /\ pc[p] = "cmt04" => w = "rest"
      /\ pc[p] = "cmt06" => w = "early"
      /\ pc[p] = "cmt06b" => w = "taking"
      /\ pc[p] = "cmt08" => w = "logged"
      /\ pc[p] = "cmt09" => w = "underway"
      /\ pc[p] = "cmt12" => w = "numbered"
      /\ pc[p] = "cmt14" => w = "current"
      /\ pc[p] = "finish" => w = "finish"
  BY <1>1 DEF Here, Ahead, Inside
<1>3. /\ x \in Region /\ crit[x] = p /\ L \in Log /\ d \in DB /\ Sound(L)
      /\ Stands(w, L, d, p, token[p], idx[p][x], jnl_seqno)
  BY <1>1, <1>2, InsideKnows
<1>4. AllOk(x, L, Doubts(L, d, p))  BY <1>1, <1>3 DEF RecInv, RegionOk
<1>5. CASE pc[p] \in {"recover", "recoverb", "recoverc", "cmt04", "cmt06", "cmt06b", "cmt14"}
  <2>1. Near(L, d) \/ Taking(L, d, p)  BY <1>2, <1>3, <1>5 DEF Stands, Rest, Early, Near
  <2> QED  BY <1>1, <1>3, <1>4, <2>1, AllSettled
<1>6. CASE pc[p] \in {"cmt09", "cmt12"}
  <2>1. d.update_underway_tn = d.curr_tn  BY <1>2, <1>3, <1>6 DEF Stands
  <2> QED  BY <1>1, <1>4, <2>1, AllSettledUnderway
<1>7. CASE pc[p] \in {"cmt08", "finish"}
  <2>1. Last(L).process_id = p /\ Last(L).jnl_seqno = token[p]
    BY <1>2, <1>3, <1>7 DEF Stands, Logged
  <2>2. x \in upd[p]  BY <1>7, RegType DEF TypeInv, TypeOK, InLoop
  <2>3. Names(x, token[p], p)  BY <1>7, <2>2, TokenNames DEF Committed, RecInv
  <2> QED  BY <1>1, <1>3, <1>4, <2>1, <2>3, AllSettledLogged
<1> QED  BY <1>5, <1>6, <1>7

(* Region x goes on with M, e and owner g *)
GoesOk(x, M, e, g) == FileOk(x, M.file) /\ AllOk(x, M, Doubts(M, e, g))

LEMMA OkHeads ==
  ASSUME TypeInv, JnlInv, RecInv, NEW p \in Proc, NEW x \in Region, x = reg(p),
         \/ EarlyTn(p) \/ UpdateUnderway(p) \/ SetRegSeqno(p) \/ IncrementCurrTn(p) \/ RelCrit(p)
         \/ Finish(p)
  PROVE  GoesOk(x, jb'[x], db'[x], crit'[x])
<1>1. /\ pc[p] \in {"cmt04", "cmt08", "cmt09", "cmt12", "cmt14", "finish"} /\ jb' = jb
  BY DEF EarlyTn, UpdateUnderway, SetRegSeqno, IncrementCurrTn, RelCrit, Finish
<1>2. AllOk(x, jb[x], {})  BY <1>1, SettledAt
<1>3. FileOk(x, jb[x].file)  BY DEF RecInv, RegionOk
<1> QED  BY <1>1, <1>2, <1>3, OkAny DEF GoesOk

(* What mutex_clean_dead_owner leaves is known. *)
LEMMA OkClean ==
  ASSUME TypeInv, NEW x \in Region, NEW h \in Proc, NEW L, NEW d, L = jb[x], d = db[x], Sound(L),
         NEW t, NEW i, Stands("dead", L, d, h, t, i, jnl_seqno), AllOk(x, L, Doubts(L, d, h)),
         NEW M, M = CleanDeadJnl(x, h)
  PROVE  M.file = L.file /\ AllOk(x, M, {})
<1>1. L \in Log /\ d \in DB  BY DEF TypeInv, TypeOK
<1>2. M \in {L, Realign(L), Withdraw(L)}  BY DEF CleanDeadJnl
<1>3. M.file = L.file  BY <1>1, <1>2, RealignIs, WithdrawIs
<1>4. (InCommit(x) <=> d.early_tn # d.curr_tn) /\ (Underway(x) <=> d.update_underway_tn = d.curr_tn)
  BY DEF InCommit, Underway
<1>5. CASE ~InCommit(x) \/ Underway(x)
  <2>1. M = L  BY <1>5 DEF CleanDeadJnl
  <2> QED  BY <1>3, <1>4, <1>5, <2>1, AllSettledUnderway
<1>6. CASE InCommit(x) /\ ~Underway(x)
  <2>1. CASE L.index1 # L.index2 /\ Last(L).process_id = h /\ Last(L).curr_tn = d.curr_tn
    <3>1. M = Withdraw(L)  BY <1>6, <2>1 DEF CleanDeadJnl
    <3>2. M.index1 = L.index1 /\ M.index2 = DECR(L.index2) /\ M.slot = L.slot
      BY <1>1, <3>1, WithdrawIs
    <3>3. InUse(M) = InUse(L) \ {DECR(L.index2)}  BY <1>1, <2>1, <3>2, InUseWithdraw
    <3> QED  BY <1>3, <3>2, <3>3 DEF AllOk, Doubts
  <2>2. CASE ~(L.index1 # L.index2 /\ Last(L).process_id = h /\ Last(L).curr_tn = d.curr_tn)
    <3>1. M = Realign(L)  BY <1>6, <2>2 DEF CleanDeadJnl
    <3>2. M.index1 = L.index1 /\ M.index2 = L.index2 /\ M.slot = L.slot
      BY <1>1, <3>1, RealignIs
    <3>3. InUse(M) = InUse(L)  BY <3>2, InUseFrame
    <3>4. InUse(L) \cap Doubts(L, d, h) = {}
      BY <1>1, <2>2, InUseEnds DEF Doubts, Last
    <3> QED  BY <1>3, <3>2, <3>3, <3>4 DEF AllOk
  <2> QED  BY <2>1, <2>2
<1> QED  BY <1>5, <1>6

LEMMA OkGrab ==
  ASSUME TypeInv, JnlInv, RecInv, NEW p \in Proc, NEW x \in Region, x = reg(p), GrabCrit(p)
  PROVE  GoesOk(x, jb'[x], db'[x], crit'[x])
<1>1. PICK L, d, M, e : L = jb[x] /\ d = db[x] /\ M = jb'[x] /\ e = db'[x]  OBVIOUS
<1>2. L \in Log /\ d \in DB /\ Sound(L)  BY <1>1 DEF TypeInv, TypeOK, JnlInv, RegionInv
<1>3. FileOk(x, L.file) /\ AllOk(x, L, Doubts(L, d, crit[x]))  BY <1>1 DEF RecInv, RegionOk
<1>4. FileOk(x, M.file) /\ AllOk(x, M, {})
  <2>1. CASE crit[x] = NoProc /\ db' = db /\ jb' = jb
    <3>1. Near(L, d)  BY <1>1, <2>1 DEF JnlInv, RegionInv, Rest, Near
    <3>2. AllOk(x, L, {})  BY <1>2, <1>3, <3>1, AllSettled
    <3> QED  BY <1>1, <1>3, <2>1, <3>2
  <2>2. CASE crit[x] \in Proc \ Alive /\ jb' = [jb EXCEPT ![x] = CleanDeadJnl(x, crit[x])]
    <3>1. PICK h : h = crit[x]  OBVIOUS
    <3>2. h \in Proc /\ pc[h] = "dead"  BY <2>2, <3>1 DEF Alive
    <3>3. M = CleanDeadJnl(x, h)  BY <1>1, <2>2, <3>1 DEF TypeInv, TypeOK
    <3>4. Spot(h, x) = "dead"  BY <3>2, DeadSpot
    <3>5. Stands("dead", L, d, h, token[h], idx[h][x], jnl_seqno)
      BY <1>1, <3>1, <3>2, <3>4 DEF JnlInv, PlaceInv
    <3>6. AllOk(x, L, Doubts(L, d, h))  BY <1>3, <3>1
    <3>7. M.file = L.file /\ AllOk(x, M, {})
      BY <1>1, <1>2, <3>2, <3>3, <3>5, <3>6, OkClean
    <3> QED  BY <1>3, <3>7
  <2> QED  BY <2>1, <2>2 DEF GrabCrit
<1> QED  BY <1>1, <1>4, OkAny DEF GoesOk

LEMMA OkRecover ==
  ASSUME TypeInv, TypeInv', JnlInv, RecInv, NEW p \in Proc, NEW x \in Region, x = reg(p),
         Recover(p) \/ RecoverWritten(p) \/ RecoverDone(p)
  PROVE  GoesOk(x, jb'[x], db'[x], crit'[x])
<1>1. PICK L, M, d : L = jb[x] /\ M = jb'[x] /\ d = db[x]  OBVIOUS
<1>2. PICK c : c = TRUE  OBVIOUS
<1>3. L \in Log /\ M \in Log /\ d \in DB /\ jb \in [Region -> Log]
  BY <1>1 DEF TypeInv, TypeOK
<1>4. FileOk(x, L.file) /\ AllOk(x, L, {})
  <2>1. pc[p] \in {"recover", "recoverb", "recoverc"}  BY DEF Recover, RecoverWritten, RecoverDone
  <2> QED  BY <1>1, <2>1, SettledAt DEF RecInv, RegionOk
<1>5. TxnInv  BY DEF RecInv
<1>6. FileOk(x, M.file) /\ AllOk(x, M, {})
  <2>1. CASE Recover(p)
    <3>1. PICK K : K = Cleanup(L, p, c, Alive)  OBVIOUS
    <3>2. FileOk(x, K.file) /\ AllOk(x, K, {})  BY <1>3, <1>4, <1>5, <3>1, OkCleanup
    <3>3. K \in Log  BY <1>3, <3>1, CleanupIs DEF Tidied
    <3>4. K = Cleanup(jb[x], p, TRUE, Alive)  BY <1>1, <1>2, <3>1
    <3>5. CASE Full(K)
      <4>1. M = K  BY <1>1, <1>3, <2>1, <3>4, <3>5 DEF Recover
      <4> QED  BY <3>2, <4>1
    <3>6. CASE ~Full(K)
      <4>1. PICK s, rec, f : /\ s = JnlSlot(x, p, 0, FALSE) /\ rec = Inctn(x, p)
                             /\ f = Store(K.file, K.rsrv, rec)
        OBVIOUS
      <4>2. PICK F : F = [K EXCEPT !.file = f]  OBVIOUS
      <4>3. M = Reserve(F, s)
        <5>1. jb' = [jb EXCEPT ![x] = Reserve(F, s)]
          BY <2>1, <3>4, <3>6, <4>1, <4>2 DEF Recover
        <5> QED  BY <1>1, <1>3, <5>1
      <4>4. s \in Slot /\ rec \in Record  BY <4>1, SlotTypes
      <4>5. K.file \in Seq(Record) /\ K.rsrv \in Nat  BY <3>3, LogFields
      <4>6. f \in Seq(Record)  BY <4>1, <4>4, <4>5, StoreIs
      <4>7. /\ F \in Log /\ F.index1 = K.index1 /\ F.index2 = K.index2 /\ F.slot = K.slot
            /\ F.file = f
        BY <3>3, <4>2, <4>6, FileIs
      <4>8. /\ M.file = f /\ M.index1 = F.index1 /\ M.index2 = F.index2
            /\ \A i \in Index : i # F.index2 => M.slot[i] = F.slot[i]
        BY <4>3, <4>4, <4>7, ReserveIs
      <4>9. RecOk(x, rec)  BY <4>1 DEF RecOk, Inctn
      <4>10. FileOk(x, f)  BY <3>2, <4>1, <4>4, <4>5, <4>9, OkStore
      <4>11. AllOk(x, M, {})
        <5>1. InUse(M) = InUse(K)  BY <4>7, <4>8, InUseFrame
        <5>2. InUse(K) \subseteq Index /\ K.index2 \notin InUse(K)  BY <3>3, InUseEnds
        <5> QED  BY <3>2, <4>7, <4>8, <5>1, <5>2 DEF AllOk
      <4> QED  BY <4>8, <4>10, <4>11
    <3> QED  BY <3>5, <3>6
  <2>3. CASE RecoverDone(p)  BY <1>1, <1>4, <2>3 DEF RecoverDone
  <2>2. CASE RecoverWritten(p)
    <3>1. PICK i, K : i = idx[p][x] /\ K = Publish(L)  OBVIOUS
    <3>2. pc[p] = "recoverb" /\ jb' = [jb EXCEPT ![x] = WriteComplete(K, i, p, c, Alive)]
      BY <1>1, <1>2, <2>2, <3>1 DEF RecoverWritten
    <3>3. Sound(L) /\ Stands("recoverb", L, d, p, token[p], i, jnl_seqno)
      BY <1>1, <3>1, <3>2, InsideKnows DEF Here, Inside
    <3>4. /\ Taking(L, d, p) /\ i = L.index2 /\ L.slot[i].jnl_seqno = 0 /\ ~L.slot[i].in_phase2
          /\ i \in Index
      BY <1>3, <3>3, LogFields DEF Stands
    <3>5. K \in Log /\ K.file = L.file /\ K.slot = L.slot /\ InUse(K) = InUse(L) \cup {i}
      <4>1. K \in Log /\ K.file = L.file /\ K.slot = L.slot  BY <1>3, <3>1, PublishIs
      <4>2. InUse(K) = InUse(L) \cup {L.index2}  BY <1>3, <3>1, <3>3, <3>4, PublishTaking
      <4> QED  BY <3>4, <4>1, <4>2
    <3>6. AllOk(x, K, {})  BY <1>4, <3>4, <3>5 DEF AllOk, SlotOk
    <3>7. M = WriteComplete(K, i, p, c, Alive)  BY <1>1, <1>3, <3>2
    <3>8. FileOk(x, K.file)  BY <1>4, <3>5
    <3>9. c => InUse(K) \cap {} \cap Orphans(K, p, Alive) = {}  OBVIOUS
    <3> QED  BY <1>5, <3>4, <3>5, <3>6, <3>7, <3>8, <3>9, OkWriteComplete
  <2> QED  BY <2>1, <2>2, <2>3
<1> QED  BY <1>1, <1>6, OkAny DEF GoesOk

LEMMA OkLogs ==
  ASSUME TypeInv, TypeInv', TokenInv, JnlInv, RecInv, NEW p \in Proc, NEW x \in Region, x = reg(p),
         ReserveJnl(p) \/ PublishJnl(p) \/ UndoDB(p)
  PROVE  GoesOk(x, jb'[x], db'[x], crit'[x])
<1>1. PICK L, M, d : L = jb[x] /\ M = jb'[x] /\ d = db[x]  OBVIOUS
<1>2. L \in Log /\ M \in Log /\ d \in DB /\ jb \in [Region -> Log]
  BY <1>1 DEF TypeInv, TypeOK
<1>3. FileOk(x, L.file) /\ TxnInv  BY <1>1 DEF RecInv, RegionOk
<1>4. CASE ReserveJnl(p)
  <2>1. AllOk(x, L, {})  BY <1>1, <1>4, SettledAt DEF ReserveJnl
  <2>2. FileOk(x, M.file) /\ AllOk(x, M, {})
    <3>1. CASE Full(L)
      <4>1. PICK c : c = TRUE  OBVIOUS
      <4>2. M = Cleanup(L, p, c, Alive)  BY <1>1, <1>2, <1>4, <3>1, <4>1 DEF ReserveJnl
      <4>3. c => InUse(L) \cap {} \cap Orphans(L, p, Alive) = {}  OBVIOUS
      <4> QED  BY <1>2, <1>3, <2>1, <4>2, <4>3, OkCleanup
    <3>2. CASE ~Full(L)
      <4>1. PICK s : s = JnlSlot(x, p, token[p], TRUE)  OBVIOUS
      <4>2. M = Reserve(L, s)  BY <1>1, <1>2, <1>4, <3>2, <4>1 DEF ReserveJnl
      <4>3. token[p] \in Nat  BY DEF TypeInv, TypeOK
      <4>4. s \in Slot  BY <4>1, <4>3, SlotTypes
      <4>5. /\ M.file = L.file /\ M.index1 = L.index1 /\ M.index2 = L.index2
            /\ \A i \in Index : i # L.index2 => M.slot[i] = L.slot[i]
        BY <1>2, <4>2, <4>4, ReserveIs
      <4>6. InUse(M) = InUse(L)  BY <4>5, InUseFrame
      <4>7. InUse(L) \subseteq Index /\ L.index2 \notin InUse(L)  BY <1>2, InUseEnds
      <4> QED  BY <1>3, <2>1, <4>5, <4>6, <4>7 DEF AllOk
    <3> QED  BY <3>1, <3>2
  <2> QED  BY <1>1, <2>2, OkAny DEF GoesOk
<1>5. CASE PublishJnl(p)
  <2>1. pc[p] = "cmt06b" /\ db' = db /\ crit' = crit /\ M = Publish(L)
    BY <1>1, <1>2, <1>5 DEF PublishJnl
  <2>2. AllOk(x, L, {})  BY <1>1, <2>1, SettledAt
  <2>3. Sound(L) /\ crit[x] = p /\ Stands("taking", L, d, p, token[p], idx[p][x], jnl_seqno)
    BY <1>1, <2>1, InsideKnows DEF Here, Inside
  <2>4. Taking(L, d, p) /\ L.slot[L.index2].in_phase2  BY <2>3 DEF Stands
  <2>5. M.file = L.file /\ M.slot = L.slot  BY <1>2, <2>1, PublishIs
  <2>6. DECR(M.index2) = L.index2 /\ InUse(M) = InUse(L) \cup {L.index2}
    BY <1>2, <2>1, <2>3, <2>4, PublishTaking
  <2>7. L.index2 \in Doubts(M, d, p)
    <3>1. /\ L.slot[L.index2].process_id = p /\ L.slot[L.index2].curr_tn = d.curr_tn
          /\ d.early_tn = d.curr_tn + 1 /\ d.update_underway_tn < d.curr_tn
      BY <2>4 DEF Taking
    <3>2. d.early_tn # d.curr_tn /\ d.update_underway_tn # d.curr_tn  BY <1>2, <3>1, DBFields
    <3>3. L.slot[L.index2].jnl_seqno = token[p]  BY <2>3 DEF Stands
    <3>4. token[p] = jnl_seqno  BY <2>1 DEF TokenInv, Token, Published
    <3>5. txn \in Seq([by : Proc, upd : SUBSET Region])  BY DEF TypeInv, TypeOK
    <3>6. jnl_seqno # 0  BY <1>3, <3>5 DEF TxnInv
    <3> QED  BY <2>4, <2>5, <2>6, <3>1, <3>2, <3>3, <3>4, <3>6 DEF Doubts
  <2>8. AllOk(x, M, Doubts(M, d, p))  BY <2>2, <2>5, <2>6, <2>7 DEF AllOk
  <2> QED  BY <1>1, <1>3, <2>1, <2>3, <2>5, <2>8 DEF GoesOk
<1>6. CASE UndoDB(p)
  <2>1. /\ pc[p] = "undodb"
        /\ M = IF InCommit(x) /\ L.index1 # L.index2 /\ Last(L).process_id = p
               THEN Withdraw(L) ELSE L
    BY <1>1, <1>2, <1>6 DEF UndoDB
  <2>2. Sound(L) /\ crit[x] = p /\ Stands("logged", L, d, p, token[p], idx[p][x], jnl_seqno)
    BY <1>1, <2>1, InsideKnows DEF Here, Ahead, Inside
  <2>3. Logged(L, d, p)  BY <2>2 DEF Stands
  <2>4. InCommit(x)
    <3>1. d.early_tn = d.curr_tn + 1 /\ d.curr_tn \in Nat  BY <1>2, <2>3, DBFields DEF Logged
    <3> QED  BY <1>1, <3>1 DEF InCommit
  <2>5. M = Withdraw(L) /\ L.index1 # L.index2  BY <2>1, <2>3, <2>4 DEF Logged
  <2>6. M.file = L.file /\ M.index1 = L.index1 /\ M.index2 = DECR(L.index2) /\ M.slot = L.slot
    BY <1>2, <2>5, WithdrawIs
  <2>7. InUse(M) = InUse(L) \ {DECR(L.index2)}  BY <1>2, <2>5, <2>6, InUseWithdraw
  <2>8. AllOk(x, L, Doubts(L, d, p))  BY <1>1, <2>2 DEF RecInv, RegionOk
  <2>9. AllOk(x, M, {})  BY <2>6, <2>7, <2>8 DEF AllOk, Doubts
  <2> QED  BY <1>1, <1>3, <2>6, <2>9, OkAny DEF GoesOk
<1> QED  BY <1>4, <1>5, <1>6

(* Work on the journal by somebody who is not in crit leaves the doubts. *)
LEMMA DoubtsSame ==
  ASSUME NEW L \in Log, NEW M, M.index2 = L.index2,
         Alike(M.slot[DECR(L.index2)], L.slot[DECR(L.index2)]), NEW d, NEW h
  PROVE  Doubts(M, d, h) = Doubts(L, d, h)
BY DEF Doubts, Alike

LEMMA OkPhase2 ==
  ASSUME TypeInv, TypeInv', JnlInv, RecInv, NEW p \in Proc, NEW x \in Region, x = reg(p),
         WriteJnl(p) \/ JnlWriteComplete(p)
  PROVE  GoesOk(x, jb'[x], db'[x], crit'[x])
<1>1. PICK L, M, d, h, i : L = jb[x] /\ M = jb'[x] /\ d = db[x] /\ h = crit[x] /\ i = idx[p][x]
  OBVIOUS
<1>2. L \in Log /\ M \in Log /\ jb \in [Region -> Log] /\ i \in Index
  BY <1>1 DEF TypeInv, TypeOK
<1>3. db' = db /\ crit' = crit /\ pc[p] \in {"cmt16", "cmt16c"}
  BY DEF WriteJnl, JnlWriteComplete
<1>4. FileOk(x, L.file) /\ TxnInv /\ AllOk(x, L, Doubts(L, d, h))  BY <1>1 DEF RecInv, RegionOk
<1>5. DECR(L.index2) \in Index  BY <1>2, LogFields, IndexType
<1>6. CASE WriteJnl(p)
  <2>1. PICK a, rec, f : /\ a = L.slot[i].start /\ rec = UpdateRecord(L, p, i)
                         /\ f = Store(L.file, a, rec)
    OBVIOUS
  <2>2. rec \in Record  BY <1>2, <2>1, SlotTypes
  <2>3. M = [L EXCEPT !.file = f]
    <3>1. jb' = [jb EXCEPT ![x].file = f]  BY <1>1, <1>6, <2>1 DEF WriteJnl
    <3> QED  BY <1>1, <1>2, <3>1
  <2>4. a \in Nat /\ L.file \in Seq(Record)  BY <1>2, <2>1, LogFields, SlotFields
  <2>5. f \in Seq(Record)  BY <2>1, <2>2, <2>4, StoreIs
  <2>6. M.index1 = L.index1 /\ M.index2 = L.index2 /\ M.slot = L.slot /\ M.file = f
    BY <1>2, <2>3, <2>5, FileIs
  <2>7. RecOk(x, rec)
    <3>1. rec.kind = "update" /\ rec.jnl_seqno = token[p] /\ rec.by = p
      BY <2>1 DEF UpdateRecord
    <3>2. x \in upd[p]  BY <1>3, RegType DEF TypeInv, TypeOK, InLoop
    <3>3. Names(x, token[p], p)
      BY <1>3, <1>4, <3>2, TokenNames DEF Committed, Phase2
    <3> QED  BY <3>1, <3>3 DEF RecOk
  <2>8. FileOk(x, M.file)  BY <1>4, <2>1, <2>2, <2>4, <2>6, <2>7, OkStore
  <2>9. InUse(M) = InUse(L)  BY <2>6, InUseFrame
  <2>10. Doubts(M, d, h) = Doubts(L, d, h)  BY <2>6 DEF Doubts
  <2>11. AllOk(x, M, Doubts(M, d, h))  BY <1>4, <2>6, <2>9, <2>10 DEF AllOk
  <2> QED  BY <1>1, <1>3, <2>8, <2>11 DEF GoesOk
<1>7. CASE JnlWriteComplete(p)
  <2>1. PICK c : c = FALSE  OBVIOUS
  <2>2. M = WriteComplete(L, i, p, c, Alive)  BY <1>1, <1>2, <1>7, <2>1 DEF JnlWriteComplete
  <2>3. FileOk(x, M.file) /\ AllOk(x, M, Doubts(L, d, h))
    BY <1>2, <1>4, <2>1, <2>2, OkWriteComplete
  <2>4. PICK C : Tidied(M, L, C)  BY <1>2, <2>2, WriteCompleteIs
  <2>5. Doubts(M, d, h) = Doubts(L, d, h)
    BY <1>2, <1>5, <2>4, DoubtsSame DEF Tidied
  <2> QED  BY <1>1, <1>3, <2>3, <2>5 DEF GoesOk
<1> QED  BY <1>6, <1>7

LEMMA OkReader ==
  ASSUME TypeInv, RecInv, NEW x \in Region, JnlCleanup(x)
  PROVE  GoesOk(x, jb'[x], db'[x], crit'[x])
<1>1. PICK L, M, d, h, c : /\ L = jb[x] /\ M = jb'[x] /\ d = db[x] /\ h = crit[x] /\ c = FALSE
  OBVIOUS
<1>2. L \in Log /\ jb \in [Region -> Log]  BY <1>1 DEF TypeInv, TypeOK
<1>3. db' = db /\ crit' = crit /\ M = Cleanup(L, NoProc, c, Alive)
  BY <1>1, <1>2 DEF JnlCleanup
<1>4. FileOk(x, L.file) /\ TxnInv /\ AllOk(x, L, Doubts(L, d, h))  BY <1>1 DEF RecInv, RegionOk
<1>5. FileOk(x, M.file) /\ AllOk(x, M, Doubts(L, d, h))
  BY <1>1, <1>2, <1>3, <1>4, OkCleanup
<1>6. PICK C : Tidied(M, L, C)  BY <1>2, <1>3, CleanupIs
<1>7. DECR(L.index2) \in Index  BY <1>2, LogFields, IndexType
<1>8. Doubts(M, d, h) = Doubts(L, d, h)  BY <1>2, <1>6, <1>7, DoubtsSame DEF Tidied
<1> QED  BY <1>1, <1>3, <1>5, <1>8 DEF GoesOk

(* What is known of a region now is known later. *)
LEMMA GoesLater ==
  ASSUME TypeInv, TypeInv', TxnInv, History, NEW r \in Region,
         GoesOk(r, jb'[r], db'[r], crit'[r])
  PROVE  RegionOk(r)'
<1>1. PICK M, e, g : M = jb'[r] /\ e = db'[r] /\ g = crit'[r]  OBVIOUS
<1>2. PICK f, D : f = M.file /\ D = Doubts(M, e, g)  OBVIOUS
<1>3. FileOk(r, f) /\ AllOk(r, M, D)  BY <1>1, <1>2 DEF GoesOk
<1>4. FileOk(r, f)' /\ AllOk(r, M, D)'  BY <1>3, OkLater
<1>5. FileOk(r, jb[r].file)'  BY <1>1, <1>2, <1>4 DEF FileOk, RecOk, Names
<1>6. AllOk(r, jb[r], Doubts(jb[r], db[r], crit[r]))'
  BY <1>1, <1>2, <1>4 DEF AllOk, SlotOk, Names, Doubts
<1> QED  BY <1>5, <1>6 DEF RegionOk

LEMMA RegionsOk ==
  ASSUME TypeInv, TypeInv', TokenInv, JnlInv, RecInv, [Next]_vars
  PROVE  \A r \in Region : RegionOk(r)'
<1>0. History /\ TxnInv  BY HistoryStep DEF RecInv
<1>1. ASSUME NEW r \in Region, jb'[r] = jb[r], db'[r] = db[r], crit'[r] = crit[r]
      PROVE  GoesOk(r, jb'[r], db'[r], crit'[r])
  BY <1>1 DEF RecInv, RegionOk, GoesOk
<1>2. \A r \in Region : GoesOk(r, jb'[r], db'[r], crit'[r])
  <2>1. ASSUME NEW p \in Proc,
             \/ GrabCrit(p) \/ Recover(p) \/ RecoverWritten(p) \/ RecoverDone(p) \/ EarlyTn(p)
             \/ ReserveJnl(p) \/ PublishJnl(p) \/ UpdateUnderway(p) \/ SetRegSeqno(p)
             \/ IncrementCurrTn(p) \/ RelCrit(p) \/ Finish(p) \/ UndoDB(p) \/ WriteJnl(p)
             \/ JnlWriteComplete(p),
             NEW r \in Region
        PROVE  GoesOk(r, jb'[r], db'[r], crit'[r])
    <3>1. PICK x : x = reg(p)  OBVIOUS
    <3>2. Local(p, x) /\ pc[p] \notin {"idle", "dead"}  BY <2>1, <3>1, LocalIs
    <3>3. CASE r = x
      BY <2>1, <3>1, <3>3, OkHeads, OkGrab, OkRecover, OkLogs, OkPhase2
    <3>4. CASE r # x
      <4>1. jb'[r] = jb[r] /\ db'[r] = db[r] /\ crit'[r] = crit[r]  BY <3>2, <3>4 DEF Local
      <4> QED  BY <1>1, <4>1
    <3> QED  BY <3>3, <3>4
  <2>2. ASSUME NEW x \in Region, JnlCleanup(x), NEW r \in Region
        PROVE  GoesOk(r, jb'[r], db'[r], crit'[r])
    <3>1. CASE r = x  BY <2>2, <3>1, OkReader
    <3>2. CASE r # x
      <4>1. jb'[r] = jb[r] /\ db'[r] = db[r] /\ crit'[r] = crit[r]
        BY <2>2, <3>2 DEF JnlCleanup, TypeInv, TypeOK
      <4> QED  BY <1>1, <4>1
    <3> QED  BY <3>1, <3>2
  <2>3. ASSUME NEW p \in Proc,
               \/ \E rs \in Updates : Begin(p, rs)
               \/ GrabLock(p) \/ ReservePool(p) \/ PublishPool(p) \/ SetJnlSeqno(p) \/ RelLock(p)
               \/ WritePool(p) \/ PoolWriteComplete(p) \/ UndoPool(p) \/ UndoRel(p) \/ Fail(p)
               \/ Kill(p),
               NEW r \in Region
        PROVE  GoesOk(r, jb'[r], db'[r], crit'[r])
    <3>1. jb' = jb /\ db' = db /\ (crit' = crit \/ \E y : crit' = [crit EXCEPT ![POOL] = y])
      BY <2>3 DEF Begin, GrabLock, ReservePool, PublishPool, SetJnlSeqno, RelLock, WritePool,
                  PoolWriteComplete, UndoPool, UndoRel, Fail, Kill
    <3>2. crit'[r] = crit[r]  BY <3>1, RegionIs DEF TypeInv, TypeOK
    <3> QED  BY <1>1, <3>1, <3>2
  <2>4. ASSUME SourceRead \/ SourceSalvage \/ UNCHANGED vars, NEW r \in Region
        PROVE  GoesOk(r, jb'[r], db'[r], crit'[r])
    <3>1. jb' = jb /\ db' = db /\ (crit' = crit \/ \E y : crit' = [crit EXCEPT ![POOL] = y])
      BY <2>4 DEF SourceRead, SourceSalvage, vars
    <3>2. crit'[r] = crit[r]  BY <3>1, RegionIs DEF TypeInv, TypeOK
    <3> QED  BY <1>1, <3>1, <3>2
  <2> QED  BY <2>1, <2>2, <2>3, <2>4 DEF Next, Step, Source
<1> QED  BY <1>0, <1>2, GoesLater

-----------------------------------------------------------------------------
(* The pool *)

LEMMA NoPoolDoubts ==
  ASSUME TypeInv, TokenInv,
         crit[POOL] = NoProc \/ \E p \in Proc : pc[p] \in PoolCrit \ Published
  PROVE  PoolDoubts = {}
<1>1. ASSUME NEW h \in Proc, crit[POOL] = h, pc[h] \in Published \cup {"dead"}  PROVE FALSE
  <2>1. CASE crit[POOL] = NoProc  BY <1>1, <2>1, RegionIs
  <2>2. CASE \E p \in Proc : pc[p] \in PoolCrit \ Published
    <3>1. PICK p \in Proc : pc[p] \in PoolCrit \ Published  BY <2>2
    <3>2. crit[POOL] = p  BY <3>1 DEF TokenInv, Held
    <3> QED  BY <1>1, <3>1, <3>2 DEF PoolCrit, CleaningUp
  <2> QED  BY <2>1, <2>2
<1> QED  BY <1>1 DEF PoolDoubts

LEMMA PublishInUse ==
  ASSUME NEW L \in Log, NEW M, M = Publish(L)
  PROVE  InUse(M) \subseteq InUse(L) \cup {L.index2} /\ DECR(M.index2) = L.index2
<1>1. M.index1 = L.index1 /\ M.index2 = INCR(L.index2)  BY PublishIs
<1>2. DECR(M.index2) = L.index2  BY <1>1, LogFields, IndexType
<1>3. CASE ~Full(L)  BY <1>1, <1>2, <1>3, InUsePublish
<1>4. CASE Full(L)
  <2>1. M.index1 = M.index2 /\ M \in Log  BY <1>1, <1>4, PublishIs DEF Full
  <2>2. InUse(M) = {}  BY <2>1, InUseEnds
  <2> QED  BY <1>2, <2>2
<1> QED  BY <1>3, <1>4

(* mutex_clean_dead_owner, or t_commit_cleanup, withdraws what is in doubt. *)
LEMMA OkCleanPool ==
  ASSUME TypeInv, NEW h \in Proc, crit[POOL] = h, AllOk(POOL, pool, PoolDoubts), NEW M,
         \/ M = CleanDeadPool(pool, h)
         \/ M = IF pool.index1 # pool.index2 /\ Last(pool).process_id = h THEN Withdraw(pool)
                ELSE pool
  PROVE  M \in Log /\ M.file = pool.file /\ AllOk(POOL, M, {})
<1>1. pool \in Log  BY DEF TypeInv, TypeOK
<1>2. M \in {pool, Realign(pool), Withdraw(pool)}  BY DEF CleanDeadPool
<1>3. M \in Log /\ M.file = pool.file  BY <1>1, <1>2, RealignIs, WithdrawIs
<1>4. CASE M = Withdraw(pool) /\ pool.index1 # pool.index2
  <2>1. M.index1 = pool.index1 /\ M.index2 = DECR(pool.index2) /\ M.slot = pool.slot
    BY <1>1, <1>4, WithdrawIs
  <2>2. InUse(M) = InUse(pool) \ {DECR(pool.index2)}  BY <1>1, <1>4, <2>1, InUseWithdraw
  <2> QED  BY <1>3, <2>1, <2>2 DEF AllOk, PoolDoubts
<1>5. CASE /\ M \in {pool, Realign(pool)}
           /\ \/ pool.index1 = pool.index2 \/ Last(pool).process_id # h
              \/ Last(pool).jnl_seqno # jnl_seqno
  <2>1. M.index1 = pool.index1 /\ M.index2 = pool.index2 /\ M.slot = pool.slot
    BY <1>1, <1>5, RealignIs
  <2>2. InUse(M) = InUse(pool)  BY <2>1, InUseFrame
  <2>3. InUse(pool) \cap PoolDoubts = {}
    <3>1. CASE pool.index1 = pool.index2  BY <1>1, <3>1, InUseEnds
    <3>2. CASE Last(pool).process_id # h \/ Last(pool).jnl_seqno # jnl_seqno
      BY <3>2 DEF PoolDoubts, Last
    <3> QED  BY <1>5, <3>1, <3>2
  <2> QED  BY <1>3, <2>1, <2>2, <2>3 DEF AllOk
<1> QED  BY <1>4, <1>5 DEF CleanDeadPool

(* What is known of the pool now is known later. *)
LEMMA PoolLater ==
  ASSUME TypeInv, TypeInv', TxnInv, History, NEW M, M = pool', FileOk(POOL, M.file), NEW D,
         AllOk(POOL, M, D), InUse(M) \cap D \subseteq PoolDoubts',
         \A p \in Proc : pc'[p] = "cmt03b" => Reserving(M, p, token'[p])
  PROVE  PoolOk'
<1>1. PICK f : f = M.file  OBVIOUS
<1>2. FileOk(POOL, f) /\ AllOk(POOL, M, D)  BY <1>1
<1>3. FileOk(POOL, f)' /\ AllOk(POOL, M, D)'  BY <1>2, OkLater
<1>4. FileOk(POOL, pool.file)'  BY <1>1, <1>3 DEF FileOk, RecOk, Names
<1>5. AllOk(POOL, pool, PoolDoubts)'
  <2>1. PICK E : E = PoolDoubts'  OBVIOUS
  <2>2. InUse(M) \ E \subseteq InUse(M) \ D  BY <2>1
  <2>3. AllOk(POOL, M, E)'  BY <1>3, <2>2 DEF AllOk
  <2> QED  BY <2>1, <2>3 DEF AllOk, SlotOk, Names
<1>6. \A p \in Proc : (pc[p] = "cmt03b" => Reserving(pool, p, token[p]))'  BY DEF Reserving
<1> QED  BY <1>4, <1>5, <1>6 DEF PoolOk

(* Steps of processes that are not at the pool *)
LEMMA PoolOkSame ==
  ASSUME TypeInv, TypeInv', TxnInv, History, PoolOk, pool' = pool, jnl_seqno' = jnl_seqno,
         crit'[POOL] = crit[POOL],
         \A q \in Proc :
           /\ pc[q] \in Published \cup {"dead"} => pc'[q] \in Published \cup {"dead"}
           /\ pc'[q] = "cmt03b" => pc[q] = "cmt03b" /\ token'[q] = token[q]
  PROVE  PoolOk'
<1>1. PICK M, D : M = pool' /\ D = PoolDoubts  OBVIOUS
<1>2. FileOk(POOL, M.file) /\ AllOk(POOL, M, D)  BY <1>1 DEF PoolOk
<1>3. D \subseteq PoolDoubts'  BY <1>1 DEF PoolDoubts
<1>4. \A p \in Proc : pc'[p] = "cmt03b" => Reserving(M, p, token'[p])  BY <1>1 DEF PoolOk
<1> QED  BY <1>1, <1>2, <1>3, <1>4, PoolLater

LEMMA PoolOkElsewhere ==
  ASSUME TypeInv, TypeInv', TokenInv, TxnInv, History, PoolOk, NEW p \in Proc,
         \/ \E rs \in Updates : Begin(p, rs)
         \/ GrabCrit(p) \/ Recover(p) \/ RecoverWritten(p) \/ RecoverDone(p) \/ EarlyTn(p)
         \/ ReserveJnl(p) \/ PublishJnl(p) \/ UpdateUnderway(p) \/ SetRegSeqno(p)
         \/ IncrementCurrTn(p) \/ RelCrit(p) \/ Finish(p) \/ UndoDB(p) \/ WriteJnl(p)
         \/ JnlWriteComplete(p) \/ Fail(p)
  PROVE  PoolOk'
<1>1. PICK l : pc' = [pc EXCEPT ![p] = l] /\ Kin(pc[p], l)  BY PoolKin
<1>2. pool' = pool /\ jnl_seqno' = jnl_seqno /\ token' = token /\ crit'[POOL] = crit[POOL]
  BY PoolKin
<1>3. pc'[p] = l /\ \A q \in Proc : q # p => pc'[q] = pc[q]  BY <1>1 DEF TypeInv, TypeOK
<1>4. \A q \in Proc :
        /\ pc[q] \in Published \cup {"dead"} => pc'[q] \in Published \cup {"dead"}
        /\ pc'[q] = "cmt03b" => pc[q] = "cmt03b"
  BY <1>1, <1>3 DEF Kin
<1> QED  BY <1>2, <1>4, PoolOkSame

LEMMA PoolOkKill ==
  ASSUME TypeInv, TypeInv', TxnInv, History, PoolOk, NEW p \in Proc, Kill(p)
  PROVE  PoolOk'
<1>1. pool' = pool /\ jnl_seqno' = jnl_seqno /\ crit' = crit  BY DEF Kill
<1>2. pc'[p] = "dead" /\ \A q \in Proc : q # p => pc'[q] = pc[q] /\ token'[q] = token[q]
  BY DEF Kill, TypeInv, TypeOK
<1>3. \A q \in Proc :
        /\ pc[q] \in Published \cup {"dead"} => pc'[q] \in Published \cup {"dead"}
        /\ pc'[q] = "cmt03b" => pc[q] = "cmt03b" /\ token'[q] = token[q]
  BY <1>2
<1> QED  BY <1>1, <1>3, PoolOkSame

(* Nobody else is in the middle of CMT03. *)
LEMMA OneReserves ==
  ASSUME TokenInv, NEW p \in Proc, pc[p] \in PoolCrit \/ crit[POOL] \notin Alive, NEW q \in Proc,
         q # p, pc[q] = "cmt03b"
  PROVE  FALSE
BY DEF TokenInv, Held, PoolCrit, Alive

LEMMA PoolOkGrab ==
  ASSUME TypeInv, TypeInv', TokenInv, TxnInv, History, PoolOk, NEW p \in Proc, GrabLock(p)
  PROVE  PoolOk'
<1>1. /\ pc[p] = "grabpool" /\ jnl_seqno' = jnl_seqno /\ pc' = [pc EXCEPT ![p] = "cmt03"]
      /\ \/ crit[POOL] = NoProc /\ pool' = pool
         \/ crit[POOL] \in Proc \ Alive /\ pool' = CleanDeadPool(pool, crit[POOL])
  BY DEF GrabLock, Goto
<1>2. crit[POOL] \notin Alive  BY <1>1, RegionIs DEF Alive
<1>3. PICK M : M = pool'  OBVIOUS
<1>4. FileOk(POOL, M.file) /\ AllOk(POOL, M, {})
  <2>1. CASE crit[POOL] = NoProc /\ pool' = pool
    <3>1. PoolDoubts = {}  BY <2>1, NoPoolDoubts
    <3> QED  BY <1>3, <2>1, <3>1 DEF PoolOk
  <2>2. CASE crit[POOL] \in Proc \ Alive /\ pool' = CleanDeadPool(pool, crit[POOL])
    <3>1. M.file = pool.file /\ AllOk(POOL, M, {})  BY <1>3, <2>2, OkCleanPool DEF PoolOk
    <3> QED  BY <3>1 DEF PoolOk
  <2> QED  BY <1>1, <2>1, <2>2
<1>5. \A q \in Proc : pc'[q] # "cmt03b"  BY <1>1, <1>2, OneReserves DEF TypeInv, TypeOK
<1> QED  BY <1>3, <1>4, <1>5, PoolLater

LEMMA PoolOkReserve ==
  ASSUME TypeInv, TypeInv', TokenInv, TxnInv, History, PoolOk, NEW p \in Proc, ReservePool(p)
  PROVE  PoolOk'
<1>1. pc[p] = "cmt03" /\ token' = token /\ jnl_seqno' = jnl_seqno  BY DEF ReservePool
<1>2. pc[p] \in PoolCrit \ Published  BY <1>1 DEF PoolCrit, Published
<1>3. PoolDoubts = {}  BY <1>2, NoPoolDoubts
<1>4. PICK L, M : L = pool /\ M = pool'  OBVIOUS
<1>5. L \in Log /\ FileOk(POOL, L.file) /\ AllOk(POOL, L, {})
  BY <1>3, <1>4 DEF PoolOk, TypeInv, TypeOK
<1>6. ASSUME NEW q \in Proc, q # p  PROVE pc'[q] # "cmt03b"
  <2>1. pc'[q] = pc[q]  BY <1>6 DEF ReservePool, Goto, TypeInv, TypeOK
  <2> QED  BY <1>2, <1>6, <2>1, OneReserves
<1>7. CASE Full(L)
  <2>1. PICK c : c = TRUE  OBVIOUS
  <2>2. M = Cleanup(L, p, c, Alive) /\ pc' = pc  BY <1>4, <1>7, <2>1 DEF ReservePool
  <2>3. FileOk(POOL, M.file) /\ AllOk(POOL, M, {})  BY <1>5, <2>2, OkCleanup
  <2>4. \A q \in Proc : pc'[q] # "cmt03b"  BY <1>1, <1>6, <2>2
  <2> QED  BY <1>4, <2>3, <2>4, PoolLater
<1>8. CASE ~Full(L)
  <2>1. PICK s : s = PoolSlot(p)  OBVIOUS
  <2>2. M = Reserve(L, s)  BY <1>4, <1>8, <2>1 DEF ReservePool
  <2>3. s \in Slot  BY <2>1, SlotTypes
  <2>4. s.process_id = p /\ s.in_phase2 /\ s.jnl_seqno = token[p]  BY <2>1 DEF PoolSlot
  <2>5. /\ M.file = L.file /\ M.index1 = L.index1 /\ M.index2 = L.index2
        /\ M.slot[L.index2] = Placed(L, s)
        /\ \A i \in Index : i # L.index2 => M.slot[i] = L.slot[i]
    BY <1>5, <2>2, <2>3, ReserveIs
  <2>6. InUse(M) = InUse(L)  BY <2>5, InUseFrame
  <2>7. InUse(L) \subseteq Index /\ L.index2 \notin InUse(L)  BY <1>5, InUseEnds
  <2>8. FileOk(POOL, M.file) /\ AllOk(POOL, M, {})  BY <1>5, <2>5, <2>6, <2>7 DEF AllOk
  <2>9. Reserving(M, p, token[p])
    <3>1. PICK t : t = Placed(L, s)  OBVIOUS
    <3>2. t.process_id = s.process_id /\ t.in_phase2 = s.in_phase2 /\ t.jnl_seqno = s.jnl_seqno
      BY <1>5, <2>3, <3>1, PlacedIs
    <3> QED  BY <2>4, <2>5, <3>1, <3>2 DEF Reserving
  <2>10. \A q \in Proc : pc'[q] = "cmt03b" => Reserving(M, q, token'[q])  BY <1>1, <1>6, <2>9
  <2> QED  BY <1>4, <2>8, <2>10, PoolLater
<1> QED  BY <1>7, <1>8

LEMMA PoolOkPublish ==
  ASSUME TypeInv, TypeInv', TokenInv, TxnInv, History, PoolOk, NEW p \in Proc, PublishPool(p)
  PROVE  PoolOk'
<1>1. /\ pc[p] = "cmt03b" /\ pc' = [pc EXCEPT ![p] = "cmt04"] /\ jnl_seqno' = jnl_seqno
      /\ crit' = crit
  BY DEF PublishPool, Goto
<1>2. pc[p] \in PoolCrit \ Published  BY <1>1 DEF PoolCrit, Published
<1>3. PoolDoubts = {} /\ crit[POOL] = p /\ token[p] = jnl_seqno
  BY <1>1, <1>2, NoPoolDoubts DEF TokenInv, Held, Token
<1>4. PICK L, M : L = pool /\ M = pool'  OBVIOUS
<1>5. L \in Log /\ FileOk(POOL, L.file) /\ AllOk(POOL, L, {}) /\ M = Publish(L)
  BY <1>3, <1>4 DEF PoolOk, TypeInv, TypeOK, PublishPool
<1>6. M.file = L.file /\ M.slot = L.slot  BY <1>5, PublishIs
<1>7. InUse(M) \subseteq InUse(L) \cup {L.index2} /\ DECR(M.index2) = L.index2
  BY <1>5, PublishInUse
<1>8. Reserving(L, p, jnl_seqno)  BY <1>1, <1>3, <1>4 DEF PoolOk
<1>9. L.index2 \in PoolDoubts'
  <2>1. pc'[p] \in Published  BY <1>1 DEF Published, TypeInv, TypeOK
  <2>2. /\ M.slot[L.index2].in_phase2 /\ M.slot[L.index2].process_id = p
        /\ M.slot[L.index2].jnl_seqno = jnl_seqno'
    BY <1>1, <1>6, <1>8 DEF Reserving
  <2> QED  BY <1>1, <1>3, <1>4, <1>7, <2>1, <2>2 DEF PoolDoubts
<1>10. PICK D : D = {L.index2}  OBVIOUS
<1>11. AllOk(POOL, M, D)  BY <1>5, <1>6, <1>7, <1>10 DEF AllOk
<1>12. \A q \in Proc : pc'[q] # "cmt03b"
  BY <1>1, <1>2, OneReserves DEF TypeInv, TypeOK
<1> QED  BY <1>4, <1>5, <1>6, <1>9, <1>10, <1>11, <1>12, PoolLater

(* CMT07: the reservation is known. *)
LEMMA PoolOkSeqno ==
  ASSUME TypeInv, TypeInv', TokenInv, TxnInv, History, PoolOk, NEW p \in Proc, SetJnlSeqno(p)
  PROVE  PoolOk'
<1>1. pc[p] = "cmt07" /\ pc' = [pc EXCEPT ![p] = "cmt08"] /\ pool' = pool
  BY DEF SetJnlSeqno, Goto
<1>2. pc[p] \in PoolCrit  BY <1>1 DEF PoolCrit
<1>3. crit[POOL] = p  BY <1>2 DEF TokenInv, Held
<1>4. /\ jnl_seqno' = jnl_seqno + 1 /\ Len(txn') = jnl_seqno /\ jnl_seqno \in Nat
      /\ txn'[jnl_seqno].by = p
  BY TxnAppended
<1>5. jnl_seqno \in 1 .. jnl_seqno
  <2>1. txn \in Seq([by : Proc, upd : SUBSET Region])  BY DEF TypeInv, TypeOK
  <2>2. Len(txn) \in Nat  BY <2>1
  <2> QED  BY <1>4, <2>2 DEF TxnInv
<1>6. PICK n : n = jnl_seqno  OBVIOUS
<1>7. Names(POOL, n, p)'
  <2>1. n \in Nat /\ n \in 1 .. n /\ jnl_seqno' = n + 1 /\ txn'[n].by = p  BY <1>4, <1>5, <1>6
  <2>2. n \in 1 .. jnl_seqno' - 1  BY <2>1
  <2> QED  BY <2>1, <2>2 DEF Names
<1>8. PICK L, D : L = pool /\ D = PoolDoubts  OBVIOUS
<1>9. FileOk(POOL, L.file) /\ AllOk(POOL, L, D)  BY <1>8 DEF PoolOk
<1>10. PICK f : f = L.file  OBVIOUS
<1>11. FileOk(POOL, f)' /\ AllOk(POOL, L, D)'  BY <1>9, <1>10, OkLater
<1>12. AllOk(POOL, L, {})'
  <2> SUFFICES ASSUME NEW i \in InUse(L)  PROVE SlotOk(POOL, L.slot[i])'  BY DEF AllOk
  <2>1. CASE i \in D
    <3>1. /\ L.slot[i].in_phase2 /\ L.slot[i].process_id = p /\ L.slot[i].jnl_seqno = n
      BY <1>3, <1>6, <1>8, <2>1 DEF PoolDoubts
    <3> QED  BY <1>7, <3>1 DEF SlotOk, Names
  <2>2. CASE i \notin D  BY <1>11, <2>2 DEF AllOk
  <2> QED  BY <2>1, <2>2
<1>13. FileOk(POOL, pool.file)'  BY <1>1, <1>8, <1>10, <1>11 DEF FileOk, RecOk, Names
<1>14. AllOk(POOL, pool, PoolDoubts)'  BY <1>1, <1>8, <1>12 DEF AllOk, SlotOk, Names
<1>15. \A q \in Proc : pc'[q] # "cmt03b"
  BY <1>1, <1>2, OneReserves DEF TypeInv, TypeOK
<1> QED  BY <1>13, <1>14, <1>15 DEF PoolOk

(* Work on the pool by somebody who does not hold the lock *)
LEMMA PoolOkOutside ==
  ASSUME TypeInv, TypeInv', TxnInv, History, PoolOk, NEW L, NEW M, L = pool, M = pool',
         M.index2 = L.index2, \A i \in Index : Alike(M.slot[i], L.slot[i]),
         FileOk(POOL, M.file), AllOk(POOL, M, PoolDoubts),
         jnl_seqno' = jnl_seqno, crit' = crit,
         \A q \in Proc :
           /\ pc[q] \in Published \cup {"dead"} => pc'[q] \in Published \cup {"dead"}
           /\ pc'[q] = "cmt03b" => pc[q] = "cmt03b" /\ token'[q] = token[q]
  PROVE  PoolOk'
<1>1. PICK D : D = PoolDoubts  OBVIOUS
<1>2. L.index2 \in Index /\ DECR(L.index2) \in Index
  BY LogFields, IndexType DEF TypeInv, TypeOK
<1>3. D \subseteq PoolDoubts'
  <2>1. PICK i : i = DECR(L.index2)  OBVIOUS
  <2>2. Alike(M.slot[i], L.slot[i])  BY <1>2, <2>1
  <2> QED  BY <1>1, <2>1, <2>2 DEF PoolDoubts, Alike
<1>4. ASSUME NEW q \in Proc, pc'[q] = "cmt03b"  PROVE Reserving(M, q, token'[q])
  <2>1. Reserving(L, q, token'[q])  BY <1>4 DEF PoolOk
  <2>2. Alike(M.slot[L.index2], L.slot[L.index2])  BY <1>2
  <2> QED  BY <2>1, <2>2 DEF Reserving, Alike
<1> QED  BY <1>1, <1>3, <1>4, PoolLater

LEMMA PoolOkLeave ==
  ASSUME TypeInv, TypeInv', TokenInv, TxnInv, History, PoolOk, NEW p \in Proc,
         UndoPool(p) \/ RelLock(p) \/ UndoRel(p)
  PROVE  PoolOk'
<1>1. /\ pc[p] \in {"undopool", "cmt15", "undorel"} /\ jnl_seqno' = jnl_seqno
      /\ pc'[p] # "cmt03b" /\ \A q \in Proc : q # p => pc'[q] = pc[q]
  BY DEF UndoPool, RelLock, UndoRel, Goto, TypeInv, TypeOK
<1>2. pc[p] \in PoolCrit  BY <1>1 DEF PoolCrit, CleaningUp
<1>3. crit[POOL] = p  BY <1>2 DEF TokenInv, Held
<1>4. \A q \in Proc : pc'[q] # "cmt03b"  BY <1>1, <1>2, OneReserves
<1>5. PICK M : M = pool'  OBVIOUS
<1>6. FileOk(POOL, M.file) /\ AllOk(POOL, M, {})
  <2>1. CASE UndoPool(p)
    <3>1. M.file = pool.file /\ AllOk(POOL, M, {})
      BY <1>3, <1>5, <2>1, OkCleanPool DEF PoolOk, UndoPool
    <3> QED  BY <3>1 DEF PoolOk
  <2>2. CASE RelLock(p) \/ UndoRel(p)
    <3>1. pc[p] \in PoolCrit \ Published /\ pool' = pool
      BY <1>2, <2>2 DEF RelLock, UndoRel, Published
    <3>2. PoolDoubts = {}  BY <3>1, NoPoolDoubts
    <3> QED  BY <1>5, <3>1, <3>2 DEF PoolOk
  <2> QED  BY <2>1, <2>2
<1> QED  BY <1>4, <1>5, <1>6, PoolLater

LEMMA PoolOkPhase2 ==
  ASSUME TypeInv, TypeInv', TxnInv, History, PoolOk, NEW p \in Proc,
         WritePool(p) \/ PoolWriteComplete(p)
  PROVE  PoolOk'
<1>1. PICK L, M, i : L = pool /\ M = pool' /\ i = idx[p][POOL]  OBVIOUS
<1>2. L \in Log /\ i \in Index  BY <1>1 DEF TypeInv, TypeOK
<1>3. FileOk(POOL, L.file) /\ AllOk(POOL, L, PoolDoubts)  BY <1>1 DEF PoolOk
<1>4. /\ pc[p] \in {"cmt17", "cmt17c"} /\ pc'[p] \in {"cmt17c", "idle"}
      /\ jnl_seqno' = jnl_seqno /\ crit' = crit
      /\ \A q \in Proc : q # p => pc'[q] = pc[q] /\ token'[q] = token[q]
  BY DEF WritePool, PoolWriteComplete, Goto, TypeInv, TypeOK
<1>5. \A q \in Proc :
        /\ pc[q] \in Published \cup {"dead"} => pc'[q] \in Published \cup {"dead"}
        /\ pc'[q] = "cmt03b" => pc[q] = "cmt03b" /\ token'[q] = token[q]
  BY <1>4 DEF Published
<1>6. /\ M.index2 = L.index2 /\ \A j \in Index : Alike(M.slot[j], L.slot[j])
      /\ FileOk(POOL, M.file) /\ AllOk(POOL, M, PoolDoubts)
  <2>1. CASE WritePool(p)
    <3>1. PICK a, rec, f : /\ a = L.slot[i].start /\ rec = UpdateRecord(L, p, i)
                           /\ f = Store(L.file, a, rec)
      OBVIOUS
    <3>2. rec \in Record  BY <1>2, <3>1, SlotTypes
    <3>3. M = [L EXCEPT !.file = f]  BY <1>1, <2>1, <3>1 DEF WritePool
    <3>4. a \in Nat /\ L.file \in Seq(Record)  BY <1>2, <3>1, LogFields, SlotFields
    <3>5. f \in Seq(Record)  BY <3>1, <3>2, <3>4, StoreIs
    <3>6. M.index1 = L.index1 /\ M.index2 = L.index2 /\ M.slot = L.slot /\ M.file = f
      BY <1>2, <3>3, <3>5, FileIs
    <3>7. RecOk(POOL, rec)
      <4>1. rec.kind = "update" /\ rec.jnl_seqno = token[p] /\ rec.by = p
        BY <3>1 DEF UpdateRecord
      <4>2. Names(POOL, token[p], p)  BY <1>4, TokenNames DEF Committed, Phase2
      <4> QED  BY <4>1, <4>2 DEF RecOk
    <3>8. FileOk(POOL, M.file)  BY <1>3, <3>1, <3>2, <3>4, <3>6, <3>7, OkStore
    <3>9. InUse(M) = InUse(L)  BY <3>6, InUseFrame
    <3> QED  BY <1>3, <3>6, <3>8, <3>9 DEF AllOk, Alike
  <2>2. CASE PoolWriteComplete(p)
    <3>1. PICK c : c = FALSE  OBVIOUS
    <3>2. M = WriteComplete(L, i, p, c, Alive)  BY <1>1, <2>2, <3>1 DEF PoolWriteComplete
    <3>3. FileOk(POOL, M.file) /\ AllOk(POOL, M, PoolDoubts)
      BY <1>2, <1>3, <3>1, <3>2, OkWriteComplete
    <3>4. PICK C : Tidied(M, L, C)  BY <1>2, <3>2, WriteCompleteIs
    <3> QED  BY <3>3, <3>4 DEF Tidied
  <2> QED  BY <2>1, <2>2
<1> QED  BY <1>1, <1>4, <1>5, <1>6, PoolOkOutside

LEMMA PoolOkSource ==
  ASSUME TypeInv, TypeInv', TokenInv, TxnInv, History, PoolOk, SourceRead \/ SourceSalvage
  PROVE  PoolOk'
<1>1. PICK L, M : L = pool /\ M = pool'  OBVIOUS
<1>2. L \in Log  BY <1>1 DEF TypeInv, TypeOK
<1>3. FileOk(POOL, L.file) /\ AllOk(POOL, L, PoolDoubts)  BY <1>1 DEF PoolOk
<1>4. pc' = pc /\ token' = token /\ jnl_seqno' = jnl_seqno
  BY DEF SourceRead, SourceSalvage, procvars
<1>5. CASE SourceRead
  <2>1. PICK c : c = FALSE  BY Zenon
  <2>2. M = Cleanup(L, NoProc, c, Alive) /\ crit' = crit  BY <1>1, <1>5, <2>1 DEF SourceRead
  <2>3. FileOk(POOL, M.file) /\ AllOk(POOL, M, PoolDoubts)  BY <1>2, <1>3, <2>1, <2>2, OkCleanup
  <2>4. PICK C : Tidied(M, L, C)  BY <1>2, <2>2, CleanupIs
  <2>5. M.index2 = L.index2 /\ \A j \in Index : Alike(M.slot[j], L.slot[j])
    BY <2>4 DEF Tidied
  <2> QED  BY <1>1, <1>4, <2>2, <2>3, <2>5, PoolOkOutside
<1>6. CASE SourceSalvage
  <2>1. PICK c : c = TRUE  OBVIOUS
  <2>2. PICK K : K = IF crit[POOL] = NoProc THEN L ELSE CleanDeadPool(L, crit[POOL])  OBVIOUS
  <2>3. M = Cleanup(K, NoProc, c, Alive) /\ crit[POOL] \notin Alive
    BY <1>1, <1>6, <2>1, <2>2 DEF SourceSalvage
  <2>4. K \in Log /\ FileOk(POOL, K.file) /\ AllOk(POOL, K, {})
    <3>1. CASE crit[POOL] = NoProc
      <4>1. PoolDoubts = {}  BY <3>1, NoPoolDoubts
      <4> QED  BY <1>2, <1>3, <2>2, <3>1, <4>1
    <3>2. CASE crit[POOL] # NoProc
      <4>1. crit[POOL] \in Proc /\ K = CleanDeadPool(pool, crit[POOL])
        BY <1>1, <2>2, <3>2 DEF TypeInv, TypeOK
      <4>2. AllOk(POOL, pool, PoolDoubts)  BY <1>1, <1>3
      <4>3. K \in Log /\ K.file = pool.file /\ AllOk(POOL, K, {})
        BY <4>1, <4>2, OkCleanPool
      <4> QED  BY <1>1, <1>3, <4>3
    <3> QED  BY <3>1, <3>2
  <2>5. FileOk(POOL, M.file) /\ AllOk(POOL, M, {})
    <3>1. c => InUse(K) \cap {} \cap Orphans(K, NoProc, Alive) = {}  OBVIOUS
    <3> QED  BY <2>3, <2>4, <3>1, OkCleanup
  <2>6. \A q \in Proc : pc'[q] # "cmt03b"
    BY <1>4, <2>3 DEF TokenInv, Held, PoolCrit, Alive
  <2> QED  BY <1>1, <2>5, <2>6, PoolLater
<1> QED  BY <1>5, <1>6

LEMMA PoolOkStep ==
  ASSUME TypeInv, TypeInv', TokenInv, RecInv, [Next]_vars
  PROVE  PoolOk'
<1>0. History /\ TxnInv /\ PoolOk  BY HistoryStep DEF RecInv
<1>1. ASSUME NEW p \in Proc, (\E rs \in Updates : Begin(p, rs)) \/ Step(p) \/ Fail(p)
      PROVE  PoolOk'
  BY <1>0, <1>1, PoolOkElsewhere, PoolOkGrab, PoolOkReserve, PoolOkPublish, PoolOkSeqno,
     PoolOkLeave, PoolOkPhase2 DEF Step
<1>2. ASSUME NEW p \in Proc, Kill(p)  PROVE PoolOk'  BY <1>0, <1>2, PoolOkKill
<1>3. CASE (\E r \in Region : JnlCleanup(r)) \/ UNCHANGED vars
  <2>1. pool' = pool /\ jnl_seqno' = jnl_seqno /\ crit' = crit /\ pc' = pc /\ token' = token
    BY <1>3 DEF JnlCleanup, procvars, vars
  <2> QED  BY <1>0, <2>1, PoolOkSame
<1>4. CASE SourceRead \/ SourceSalvage  BY <1>0, <1>4, PoolOkSource
<1> QED  BY <1>1, <1>2, <1>3, <1>4 DEF Next, Source

-----------------------------------------------------------------------------
(* What readers may read *)

LEMMA RecInit == Init => RecInv
<1> SUFFICES ASSUME Init  PROVE RecInv  OBVIOUS
<1>1. TxnInv
  <2>1. Len(txn) = 0 /\ jnl_seqno = 1  BY DEF Init
  <2>2. \A p \in Proc : pc[p] \notin Committed  BY DEF Init, Committed, Phase2
  <2> QED  BY <2>1, <2>2 DEF TxnInv
<1>2. PoolOk  BY OkInit DEF Init, PoolOk
<1>3. \A r \in Region : RegionOk(r)  BY OkInit DEF Init, RegionOk
<1> QED  BY <1>1, <1>2, <1>3 DEF RecInv

LEMMA RecStep == TypeInv /\ TypeInv' /\ TokenInv /\ JnlInv /\ RecInv /\ [Next]_vars => RecInv'
<1> SUFFICES ASSUME TypeInv, TypeInv', TokenInv, JnlInv, RecInv, [Next]_vars  PROVE RecInv'
  OBVIOUS
<1>1. TxnInv'  BY TxnStep DEF RecInv
<1>2. PoolOk'  BY PoolOkStep
<1>3. \A r \in Region : RegionOk(r)'  BY RegionsOk
<1> QED  BY <1>1, <1>2, <1>3 DEF RecInv

Readable(L, rec) ==
  \/ L = pool /\ rec.kind = "bad"
  \/ /\ rec.kind # "bad"
     /\ (rec.kind = "inctn" <=> rec.jnl_seqno = 0)
     /\ rec.kind # "inctn" => rec.jnl_seqno < jnl_seqno /\ rec.by = txn[rec.jnl_seqno].by
     /\ rec.kind = "null" => rec.by \notin Alive

LEMMA RecReadable ==
  ASSUME TypeInv, NEW r, NEW rec, RecOk(r, rec), NEW L, L = pool \/ rec # Garbage
  PROVE  Readable(L, rec)
<1>1. CASE rec = Garbage  BY <1>1 DEF Readable, Garbage
<1>2. CASE rec.kind = "inctn" /\ rec.jnl_seqno = 0  BY <1>2 DEF Readable
<1>3. CASE /\ rec.kind \in {"update", "null"} /\ Names(r, rec.jnl_seqno, rec.by)
           /\ rec.kind = "null" => pc[rec.by] = "dead"
  <2>1. PICK s : s = rec.jnl_seqno  OBVIOUS
  <2>2. s \in 1 .. jnl_seqno - 1 /\ jnl_seqno \in Nat  BY <1>3, <2>1 DEF Names, TypeInv, TypeOK
  <2>3. s # 0 /\ s < jnl_seqno  BY <2>2
  <2>4. rec.by = txn[s].by  BY <1>3, <2>1 DEF Names
  <2>5. rec.kind = "null" => rec.by \notin Alive  BY <1>3 DEF Alive
  <2> QED  BY <1>3, <2>1, <2>3, <2>4, <2>5 DEF Readable
<1> QED  BY <1>1, <1>2, <1>3 DEF RecOk

LEMMA RecReaders == TypeInv /\ JnlInv /\ RecInv => ReadersSeeCommits
<1> SUFFICES ASSUME TypeInv, JnlInv, RecInv  PROVE ReadersSeeCommits  OBVIOUS
<1>1. ASSUME NEW k \in 0 .. pool.free - 1  PROVE Readable(pool, Fetch(pool.file, k))
  <2>1. pool.file \in Seq(Record) /\ pool.free \in Nat  BY LogFields DEF TypeInv, TypeOK
  <2>2. RecOk(POOL, Garbage)  BY DEF RecOk
  <2>3. k < Len(pool.file) => k + 1 \in 1 .. Len(pool.file)  BY <2>1
  <2>4. RecOk(POOL, Fetch(pool.file, k))
    BY <2>2, <2>3 DEF RecInv, PoolOk, FileOk, Fetch
  <2> QED  BY <2>4, RecReadable
<1>2. ASSUME NEW r \in Region, NEW k \in 0 .. jb[r].free - 1
      PROVE  Readable(jb[r], Fetch(jb[r].file, k))
  <2>1. PICK L : L = jb[r]  OBVIOUS
  <2>2. L \in Log  BY <2>1 DEF TypeInv, TypeOK
  <2>3. L.file \in Seq(Record) /\ L.free \in Nat /\ L.free <= Len(L.file)
        /\ \A n \in 1 .. L.free : L.file[n].tn # 0
    BY <2>1, <2>2, LogFields DEF JnlInv, RegionInv, Sound, Filed
  <2>4. /\ k \in Nat /\ k + 1 \in 1 .. L.free /\ k + 1 \in 1 .. Len(L.file) /\ k < Len(L.file)
    BY <1>2, <2>1, <2>3
  <2>5. PICK n, rec : n = k + 1 /\ rec = L.file[n]  OBVIOUS
  <2>6. Fetch(L.file, k) = rec  BY <2>4, <2>5 DEF Fetch
  <2>7. rec.tn # 0  BY <2>3, <2>4, <2>5
  <2>8. rec # Garbage  BY <2>7 DEF Garbage
  <2>9. RecOk(r, rec)  BY <2>1, <2>4, <2>5 DEF RecInv, RegionOk, FileOk
  <2> QED  BY <2>1, <2>6, <2>8, <2>9, RecReadable
<1> QED  BY <1>1, <1>2 DEF ReadersSeeCommits, Readable

(* Whatever is killed, and wherever, what the journal writers and the source  *)
(* server may read is what the committer wrote under its own seqno, or what   *)
(* was put in its place after its death: never garbage, a record of another   *)
(* transaction, or a NULL record for a process that lives.  Errors come at     *)
(* CMT07 or later (LateErrors).                                                *)
THEOREM ReadersReadCommits ==
  ASSUME LateErrors
  PROVE  Spec => []ReadersSeeCommits
<1> DEFINE Inv == TypeInv /\ TokenInv /\ JnlInv /\ RecInv
<1>1. Init => Inv  BY TypeInit, TokenInit, JnlInit, RecInit
<1>2. Inv /\ [Next]_vars => Inv'
  <2> SUFFICES ASSUME Inv, [Next]_vars  PROVE Inv'  OBVIOUS
  <2>1. TypeInv'  BY TypeStep
  <2>2. TokenInv'  BY TokenStep
  <2>3. JnlInv'  BY <2>1, JnlStep
  <2>4. RecInv'  BY <2>1, RecStep
  <2> QED  BY <2>1, <2>2, <2>3, <2>4
<1>3. Inv => ReadersSeeCommits  BY RecReaders
<1> QED  BY <1>1, <1>2, <1>3, PTL DEF Spec


-----------------------------------------------------------------------------
(* All or nothing *)

(* The k-th record of the journal L, written or reserved, has seqno s. *)
Mark(L, k, s) ==
  \/ k \in 1 .. L.free /\ L.file[k].jnl_seqno = s
  \/ \E i \in InUse(L) : EndOf(L.slot[i]) = k /\ L.slot[i].jnl_seqno = s

Has(L, s) == \E k : Mark(L, k, s)
Single(L) == \A s, j, k : s # 0 /\ Mark(L, j, s) /\ Mark(L, k, s) => j = k
Bears(M, L) == \A k, s : Mark(M, k, s) <=> Mark(L, k, s)

LEMMA BearsTrans ==
  ASSUME NEW K, NEW L, NEW M, Bears(L, K), Bears(M, L)
  PROVE  Bears(M, K)
BY DEF Bears

LEMMA BearsFrame ==
  ASSUME NEW L, NEW M, M.free = L.free, InUse(M) = InUse(L),
         \A k \in 1 .. L.free : M.file[k] = L.file[k],
         \A i \in InUse(L) : /\ EndOf(M.slot[i]) = EndOf(L.slot[i])
                             /\ M.slot[i].jnl_seqno = L.slot[i].jnl_seqno
  PROVE  Bears(M, L)
BY DEF Bears, Mark

(* What readers have seen says the same below free. *)
LEMMA KeptBelow ==
  ASSUME NEW L \in Log, NEW M \in Log, Sound(L), Sound(M), Kept(L, M)
  PROVE  \A k \in 1 .. L.free : M.file[k] = L.file[k]
<1> SUFFICES ASSUME NEW k \in 1 .. L.free  PROVE M.file[k] = L.file[k]  OBVIOUS
<1>1. /\ L.free \in Nat /\ M.free \in Nat /\ L.free <= M.free /\ L.free <= Len(L.file)
      /\ M.free <= Len(M.file) /\ Len(L.file) \in Nat /\ Len(M.file) \in Nat
  BY LogFields DEF Kept, Sound, Filed
<1>2. PICK a : a = k - 1  OBVIOUS
<1>3. a \in 0 .. L.free - 1 /\ a + 1 = k /\ a < Len(L.file) /\ a < Len(M.file)  BY <1>1, <1>2
<1>4. Fetch(L.file, a) = Fetch(M.file, a)  BY <1>3 DEF Kept
<1> QED  BY <1>3, <1>4 DEF Fetch

LEMMA BearsHandOver ==
  ASSUME NEW L \in Log, Sound(L), NEW M, M = HandOver(L)
  PROVE  Bears(M, L)
<1>1. PICK n \in 0 .. Used(L) :
        /\ \A k \in 0 .. n - 1 : L.slot[At(L, k)].write_complete
        /\ M.index1 = At(L, n) /\ M.index2 = L.index2 /\ M.slot = L.slot /\ M.file = L.file
        /\ M.free = IF n = Used(L) THEN EndOf(Last(L)) ELSE L.slot[At(L, n)].start
  BY HandOverShape DEF Sound
<1>2. Used(L) \in 0 .. N - 1 /\ N \in Nat /\ n \in Nat /\ L.free \in Nat
  BY LogFields, UsedIs, LogAssumption
<1>3. /\ \A k \in 0 .. Used(L) - 1 : L.slot[At(L, k)].start = L.free + k
      /\ EndOf(Last(L)) = L.free + Used(L)
  BY Ages DEF Sound
<1>4. M.free = L.free + n
  <2>1. CASE n = Used(L)  BY <1>1, <1>3, <2>1
  <2>2. CASE n # Used(L)
    <3>1. n \in 0 .. Used(L) - 1  BY <1>2, <2>2
    <3> QED  BY <1>1, <1>3, <2>2, <3>1
  <2> QED  BY <2>1, <2>2
<1>5. /\ InUse(M) \subseteq InUse(L)
      /\ \A i \in InUse(L) \ InUse(M) : \E k \in 0 .. n - 1 : i = At(L, k)
  BY <1>1, InUseAdvance
<1>6. ASSUME NEW m \in 0 .. n - 1
      PROVE  /\ At(L, m) \in InUse(L) /\ EndOf(L.slot[At(L, m)]) = L.free + m + 1
             /\ L.file[L.free + m + 1].jnl_seqno = L.slot[At(L, m)].jnl_seqno
  <2>1. m \in 0 .. Used(L) - 1 /\ m \in Nat  BY <1>2
  <2>2. At(L, m) \in InUse(L)  BY <2>1, LogFields, InUseAt
  <2>3. PICK s : s = L.slot[At(L, m)]  OBVIOUS
  <2>4. s.write_complete /\ s.start = L.free + m  BY <1>1, <1>3, <2>1, <2>3
  <2>5. Good(L.file, s)  BY <2>2, <2>3, <2>4 DEF Sound, Filed
  <2>6. EndOf(s) = s.start + 1  BY <2>2, <2>3 DEF Sound, Unit, EndOf
  <2> QED  BY <2>2, <2>3, <2>4, <2>5, <2>6 DEF Good
<1>7. ASSUME NEW k, NEW s, Mark(M, k, s)  PROVE Mark(L, k, s)
  <2>1. CASE \E i \in InUse(M) : EndOf(M.slot[i]) = k /\ M.slot[i].jnl_seqno = s
    BY <1>1, <1>5, <2>1 DEF Mark
  <2>2. CASE k \in 1 .. M.free /\ M.file[k].jnl_seqno = s
    <3>1. CASE k <= L.free
      <4>1. k \in 1 .. L.free  BY <1>2, <1>4, <2>2, <3>1
      <4> QED  BY <1>1, <2>2, <4>1 DEF Mark
    <3>2. CASE k > L.free
      <4>1. PICK m \in 0 .. n - 1 : k = L.free + m + 1
        <5>1. k - L.free - 1 \in 0 .. n - 1 /\ k = L.free + (k - L.free - 1) + 1
          BY <1>2, <1>4, <2>2, <3>2
        <5> QED  BY <5>1
      <4>2. /\ At(L, m) \in InUse(L) /\ EndOf(L.slot[At(L, m)]) = k
            /\ L.slot[At(L, m)].jnl_seqno = s
        BY <1>1, <1>6, <2>2, <4>1
      <4> QED  BY <4>2 DEF Mark
    <3> QED  BY <1>2, <1>4, <2>2, <3>1, <3>2
  <2> QED  BY <1>7, <2>1, <2>2 DEF Mark
<1>8. ASSUME NEW k, NEW s, Mark(L, k, s)  PROVE Mark(M, k, s)
  <2>1. CASE k \in 1 .. L.free /\ L.file[k].jnl_seqno = s
    <3>1. k \in 1 .. M.free  BY <1>2, <1>4, <2>1
    <3> QED  BY <1>1, <2>1, <3>1 DEF Mark
  <2>2. CASE \E i \in InUse(L) : EndOf(L.slot[i]) = k /\ L.slot[i].jnl_seqno = s
    <3>1. PICK i \in InUse(L) : EndOf(L.slot[i]) = k /\ L.slot[i].jnl_seqno = s  BY <2>2
    <3>2. CASE i \in InUse(M)  BY <1>1, <3>1, <3>2 DEF Mark
    <3>3. CASE i \notin InUse(M)
      <4>1. PICK m \in 0 .. n - 1 : i = At(L, m)  BY <1>5, <3>3
      <4>2. k = L.free + m + 1 /\ M.file[k].jnl_seqno = s  BY <1>1, <1>6, <3>1, <4>1
      <4>3. k \in 1 .. M.free  BY <1>2, <1>4, <4>2
      <4> QED  BY <4>2, <4>3 DEF Mark
    <3> QED  BY <3>2, <3>3
  <2> QED  BY <1>8, <2>1, <2>2 DEF Mark
<1> QED  BY <1>7, <1>8 DEF Bears

LEMMA BearsCleanup ==
  ASSUME NEW L \in Log, Sound(L), NEW p, NEW c, NEW alive, NEW M, M = Cleanup(L, p, c, alive)
  PROVE  Bears(M, L)
<1>1. CASE c
  <2>1. PICK E : E = DeadRun(L, p, alive)  OBVIOUS
  <2>2. PICK K : K = Salvage(L, E)  OBVIOUS
  <2>3. M = HandOver(K)  BY <1>1, <2>1, <2>2, Zenon DEF Cleanup, SalvageDead
  <2>4. E \subseteq InUse(L) /\ E \subseteq Index /\ InUse(L) \subseteq Index
    BY <2>1, DeadRunIs DEF InUse
  <2>5. /\ K \in Log /\ K.free = L.free /\ K.index1 = L.index1 /\ K.index2 = L.index2
        /\ \A i \in Index : Marked(K.slot[i], L.slot[i], i \in E)
    BY <2>2, <2>4, SalvageIs
  <2>6. Sound(K) /\ Kept(L, K)  BY <2>2, <2>4, SalvageSound, SalvageKept DEF Sound
  <2>7. \A k \in 1 .. L.free : K.file[k] = L.file[k]  BY <2>5, <2>6, KeptBelow
  <2>8. InUse(K) = InUse(L)  BY <2>5, InUseFrame
  <2>9. \A i \in InUse(L) : /\ EndOf(K.slot[i]) = EndOf(L.slot[i])
                            /\ K.slot[i].jnl_seqno = L.slot[i].jnl_seqno
    BY <2>4, <2>5 DEF Marked, Alike, EndOf
  <2>10. Bears(K, L)  BY <2>5, <2>7, <2>8, <2>9, BearsFrame
  <2>11. Bears(M, K)  BY <2>3, <2>5, <2>6, BearsHandOver
  <2> QED  BY <2>10, <2>11, BearsTrans
<1>2. CASE ~c
  <2>1. M = HandOver(L)  BY <1>2 DEF Cleanup
  <2> QED  BY <2>1, BearsHandOver
<1> QED  BY <1>1, <1>2

LEMMA BearsWriteComplete ==
  ASSUME NEW L \in Log, Sound(L), NEW i \in InUse(L), Good(L.file, L.slot[i]),
         NEW p, NEW c, NEW alive, NEW M, M = WriteComplete(L, i, p, c, alive)
  PROVE  Bears(M, L)
<1>1. PICK K : K = Done(L, i)  OBVIOUS
<1>2. /\ K \in Log /\ Sound(K) /\ InUse(K) = InUse(L) /\ K.free = L.free /\ K.file = L.file
      /\ \A j \in Index : Alike(K.slot[j], L.slot[j])
  BY <1>1, DoneSound
<1>3. InUse(L) \subseteq Index  BY DEF InUse
<1>4. Bears(K, L)  BY <1>2, <1>3, BearsFrame DEF Alike, EndOf
<1>5. CASE i \in {0, N \div 2}
  <2>1. M = Cleanup(K, p, c, alive)  BY <1>1, <1>5 DEF WriteComplete, Done
  <2> QED  BY <1>2, <1>4, <2>1, BearsCleanup, BearsTrans
<1>6. CASE i \notin {0, N \div 2}
  <2>1. M = K  BY <1>1, <1>6 DEF WriteComplete, Done
  <2> QED  BY <1>4, <2>1
<1> QED  BY <1>5, <1>6

LEMMA BearsReserve ==
  ASSUME NEW L \in Log, NEW s \in Slot, NEW M, M = Reserve(L, s)
  PROVE  Bears(M, L)
<1>1. /\ M.free = L.free /\ M.index1 = L.index1 /\ M.index2 = L.index2 /\ M.file = L.file
      /\ \A i \in Index : i # L.index2 => M.slot[i] = L.slot[i]
  BY ReserveIs
<1>2. InUse(M) = InUse(L)  BY <1>1, InUseFrame
<1>3. InUse(L) \subseteq Index /\ L.index2 \notin InUse(L)  BY InUseEnds
<1> QED  BY <1>1, <1>2, <1>3, BearsFrame

(* A store at or above free. *)
LEMMA BearsStore ==
  ASSUME NEW L \in Log, NEW M \in Log, Sound(L), Sound(M), NEW a \in Nat, NEW rec \in Record,
         L.free <= a, M.free = L.free, M.index1 = L.index1, M.index2 = L.index2,
         M.slot = L.slot, M.file = Store(L.file, a, rec)
  PROVE  Bears(M, L)
<1>1. Kept(L, M)  BY KeptStore
<1>2. \A k \in 1 .. L.free : M.file[k] = L.file[k]  BY <1>1, KeptBelow
<1>3. InUse(M) = InUse(L)  BY InUseFrame
<1> QED  BY <1>2, <1>3, BearsFrame

(* A reservation that becomes visible. *)
LEMMA MarkPublish ==
  ASSUME NEW L, NEW M, M.free = L.free, M.file = L.file, M.slot = L.slot,
         InUse(M) = InUse(L) \cup {L.index2}, NEW u, u = L.slot[L.index2]
  PROVE  \A k, s : Mark(M, k, s) <=> Mark(L, k, s) \/ (k = EndOf(u) /\ s = u.jnl_seqno)
BY DEF Mark

(* The newest reservation is withdrawn. *)
LEMMA MarkWithdraw ==
  ASSUME NEW L \in Log, NEW M, M = Withdraw(L), L.index1 # L.index2
  PROVE  /\ \A k, s : Mark(M, k, s) => Mark(L, k, s)
         /\ \A k, s : Mark(L, k, s) /\ s # Last(L).jnl_seqno => Mark(M, k, s)
<1>1. M.free = L.free /\ M.file = L.file /\ M.index1 = L.index1 /\ M.index2 = DECR(L.index2)
      /\ M.slot = L.slot
  BY WithdrawIs
<1>2. InUse(M) = InUse(L) \ {DECR(L.index2)}  BY <1>1, InUseWithdraw
<1> QED  BY <1>1, <1>2 DEF Mark, Last

-----------------------------------------------------------------------------
(* Seqnos that the journal of a region must have *)

Owed(r, s) == s \in 1 .. jnl_seqno - 1 /\ r \in txn[s].upd /\ <<s, r>> \notin torn

(* What may be withdrawn for a dead owner of crit is not among them. *)
Lost(r, L, d, h) ==
  h \in Proc /\ pc[h] = "dead" =>
    \A i \in Doubts(L, d, h) \cap InUse(L) : ~Owed(r, L.slot[i].jnl_seqno)

Counts(r, L) == Single(L) /\ \A s : Owed(r, s) => Has(L, s)

CountInv == \A r \in Region : Counts(r, jb[r]) /\ Lost(r, jb[r], db[r], crit[r])

LEMMA CountsBears ==
  ASSUME NEW r, NEW L, NEW M, Bears(M, L), Counts(r, L)
  PROVE  Counts(r, M)
BY DEF Bears, Counts, Single, Has

LEMMA CountsWithdraw ==
  ASSUME NEW r, NEW L \in Log, NEW M, M = Withdraw(L), L.index1 # L.index2, Counts(r, L),
         ~Owed(r, Last(L).jnl_seqno)
  PROVE  Counts(r, M)
<1>1. /\ \A k, s : Mark(M, k, s) => Mark(L, k, s)
      /\ \A k, s : Mark(L, k, s) /\ s # Last(L).jnl_seqno => Mark(M, k, s)
  BY MarkWithdraw
<1>2. Single(M)  BY <1>1 DEF Counts, Single
<1>3. ASSUME NEW s, Owed(r, s)  PROVE Has(M, s)
  <2>1. PICK k : Mark(L, k, s)  BY <1>3 DEF Counts, Has
  <2>2. s # Last(L).jnl_seqno  BY <1>3
  <2> QED  BY <1>1, <2>1, <2>2 DEF Has
<1> QED  BY <1>2, <1>3 DEF Counts

(* A seqno that is new, or none. *)
LEMMA CountsPublish ==
  ASSUME NEW r, NEW L \in Log, Sound(L), NEW d, NEW h, Taking(L, d, h), NEW M, M = Publish(L),
         NEW t, t = L.slot[L.index2].jnl_seqno, t = 0 \/ ~Has(L, t), Counts(r, L)
  PROVE  Counts(r, M)
<1>1. M.free = L.free /\ M.file = L.file /\ M.slot = L.slot  BY PublishIs
<1>2. InUse(M) = InUse(L) \cup {L.index2}  BY PublishTaking
<1>3. PICK u : u = L.slot[L.index2]  OBVIOUS
<1>4. \A k, s : Mark(M, k, s) <=> Mark(L, k, s) \/ (k = EndOf(u) /\ s = u.jnl_seqno)
  BY <1>1, <1>2, <1>3, MarkPublish
<1>5. Single(M)
  <2> SUFFICES ASSUME NEW s, NEW j, NEW k, s # 0, Mark(M, j, s), Mark(M, k, s)  PROVE j = k
    BY DEF Single
  <2>1. CASE s = t  BY <1>3, <1>4, <2>1 DEF Has
  <2>2. CASE s # t
    <3>1. Mark(L, j, s) /\ Mark(L, k, s)  BY <1>3, <1>4, <2>2
    <3> QED  BY <3>1 DEF Counts, Single
  <2> QED  BY <2>1, <2>2
<1>6. \A s : Has(L, s) => Has(M, s)  BY <1>4 DEF Has
<1> QED  BY <1>5, <1>6 DEF Counts

(* The seqnos of the journal are those of its marks. *)
LEMMA HasSeqnos ==
  ASSUME NEW L, NEW s, Has(L, s)
  PROVE  s \in Seqnos(L, {})
BY DEF Has, Mark, Seqnos

(* A live owner of crit that has a reservation in doubt: it has not done CMT07, or *)
(* it has and would tear its transaction by dying here.                      *)
LEMMA InDoubt ==
  ASSUME TypeInv, TokenInv, JnlInv, NEW r \in Region, NEW p \in Proc, crit[r] = p, pc[p] # "dead",
         NEW i \in Doubts(jb[r], db[r], p) \cap InUse(jb[r])
  PROVE  /\ jb[r].slot[i].jnl_seqno = token[p]
         /\ \/ token[p] = jnl_seqno
            \/ r \in NotUnderway(p) /\ r \in upd[p] /\ pc[p] \in {"cmt08", "cmt09", "cmt12", "cmt14", "finish"}
<1>1. PICK w, L, d : w = Spot(p, r) /\ L = jb[r] /\ d = db[r]  OBVIOUS
<1>2. L \in Log /\ d \in DB /\ Sound(L)  BY <1>1 DEF TypeInv, TypeOK, JnlInv, RegionInv
<1>3. Owns(w, p, p) /\ Stands(w, L, d, p, token[p], idx[p][r], jnl_seqno)
  BY <1>1 DEF JnlInv, PlaceInv
<1>4. w \in Inside  BY <1>1, <1>3, DeadSpot DEF Owns
<1>5. w \in {"logged", "finish"} /\ d.update_underway_tn # d.curr_tn /\ i = DECR(L.index2)
  <2>1. d.update_underway_tn # d.curr_tn /\ i = DECR(L.index2)  BY <1>1 DEF Doubts
  <2>2. ~Near(L, d) /\ ~Taking(L, d, p)  BY <1>1, <1>2, NoDoubts
  <2> QED  BY <1>3, <1>4, <2>1, <2>2 DEF Stands, Inside, Rest, Early, Near
<1>6. Last(L).jnl_seqno = token[p]  BY <1>3, <1>5 DEF Stands
<1>7. /\ r \in upd[p] /\ pc[p] \in {"cmt06", "cmt06b", "cmt07", "undopool", "undodb", "cmt08", "cmt09",
                                   "cmt12", "cmt14", "finish"}
      /\ pc[p] \in {"cmt08", "finish"} => r \in rem[p]
      /\ pc[p] \in {"cmt09", "cmt12", "cmt14"} => r \in rem[p] \ {reg(p)}
  BY <1>1, <1>5 DEF Spot, Where, Here, Ahead, Behind
<1>8. pc[p] \in {"cmt06", "cmt06b", "cmt07", "undopool", "undodb"} => token[p] = jnl_seqno
  BY DEF TokenInv, Token, Published
<1>9. pc[p] \in {"cmt08", "cmt09", "cmt12", "cmt14", "finish"} => r \in NotUnderway(p)
  <2>1. ~Underway(r)  BY <1>1, <1>5 DEF Underway
  <2> QED  BY <1>7, <2>1 DEF NotUnderway
<1> QED  BY <1>1, <1>5, <1>6, <1>7, <1>8, <1>9 DEF Last

-----------------------------------------------------------------------------
(* The steps *)

LEMMA CountGrab ==
  ASSUME TypeInv, JnlInv, RecInv, CountInv, NEW p \in Proc, NEW x \in Region, x = reg(p), GrabCrit(p)
  PROVE  Counts(x, jb'[x])
<1>1. PICK L, d, M : L = jb[x] /\ d = db[x] /\ M = jb'[x]  OBVIOUS
<1>2. L \in Log /\ d \in DB /\ Sound(L)  BY <1>1 DEF TypeInv, TypeOK, JnlInv, RegionInv
<1>3. Counts(x, L) /\ Lost(x, L, d, crit[x])  BY <1>1 DEF CountInv
<1>4. CASE crit[x] = NoProc /\ jb' = jb  BY <1>1, <1>3, <1>4
<1>5. CASE crit[x] \in Proc \ Alive /\ jb' = [jb EXCEPT ![x] = CleanDeadJnl(x, crit[x])]
  <2>1. PICK h : h = crit[x]  OBVIOUS
  <2>2. h \in Proc /\ pc[h] = "dead"  BY <1>5, <2>1 DEF Alive
  <2>3. M = CleanDeadJnl(x, h)  BY <1>1, <1>5, <2>1 DEF TypeInv, TypeOK
  <2>4. CASE M = L  BY <1>1, <1>3, <2>4
  <2>5. CASE M = Realign(L)
    <3>1. M.free = L.free /\ M.file = L.file /\ M.index1 = L.index1 /\ M.index2 = L.index2
          /\ M.slot = L.slot
      BY <1>2, <2>5, RealignIs
    <3>2. InUse(M) = InUse(L)  BY <3>1, InUseFrame
    <3>3. Bears(M, L)  BY <3>1, <3>2, BearsFrame
    <3> QED  BY <1>1, <1>3, <3>3, CountsBears
  <2>6. CASE M = Withdraw(L) /\ M # L /\ M # Realign(L)
    <3>1. /\ d.early_tn # d.curr_tn /\ d.update_underway_tn # d.curr_tn /\ L.index1 # L.index2
          /\ Last(L).process_id = h /\ Last(L).curr_tn = d.curr_tn
      BY <1>1, <2>3, <2>6 DEF CleanDeadJnl, InCommit, Underway
    <3>2. PICK i : i = DECR(L.index2)  OBVIOUS
    <3>3. i \in InUse(L) /\ Last(L) = L.slot[i]  BY <1>2, <3>1, <3>2, InUseEnds DEF Last
    <3>4. ~Owed(x, Last(L).jnl_seqno)
      <4>1. CASE L.slot[i].in_phase2 /\ L.slot[i].jnl_seqno # 0
        <5>1. i \in Doubts(L, d, h)  BY <3>1, <3>2, <3>3, <4>1 DEF Doubts
        <5> QED  BY <1>3, <2>1, <2>2, <3>3, <5>1 DEF Lost
      <4>3. CASE L.slot[i].jnl_seqno = 0  BY <3>3, <4>3 DEF Owed
      <4>2. CASE ~L.slot[i].in_phase2
        <5>1. AllOk(x, L, Doubts(L, d, h)) /\ i \notin Doubts(L, d, h)
          BY <1>1, <2>1, <4>2 DEF RecInv, RegionOk, Doubts
        <5>2. L.slot[i].jnl_seqno = 0  BY <3>3, <4>2, <5>1 DEF AllOk, SlotOk
        <5> QED  BY <3>3, <5>2 DEF Owed
      <4> QED  BY <4>1, <4>2, <4>3
    <3> QED  BY <1>1, <1>2, <1>3, <2>6, <3>1, <3>4, CountsWithdraw
  <2> QED  BY <1>1, <2>3, <2>4, <2>5, <2>6 DEF CleanDeadJnl
<1> QED  BY <1>4, <1>5 DEF GrabCrit

LEMMA CountRecover ==
  ASSUME TypeInv, TypeInv', JnlInv, CountInv, NEW p \in Proc, NEW x \in Region, x = reg(p),
         Recover(p)
  PROVE  Counts(x, jb'[x])
<1>1. PICK L, M, d, c : L = jb[x] /\ M = jb'[x] /\ d = db[x] /\ c = TRUE  BY Zenon
<1>2. L \in Log /\ M \in Log /\ d \in DB /\ jb \in [Region -> Log] /\ Counts(x, L)
  BY <1>1 DEF TypeInv, TypeOK, CountInv
<1>3. pc[p] = "recover"  BY DEF Recover
<1>4. Sound(L) /\ Stands("recover", L, d, p, token[p], idx[p][x], jnl_seqno)
  BY <1>1, <1>3, InsideKnows DEF Here, Inside
<1>5. Near(L, d)  BY <1>4 DEF Stands
<1>6. PICK K : K = Cleanup(L, p, c, Alive)  OBVIOUS
<1>7. K = Cleanup(L, p, TRUE, Alive)  BY <1>1, <1>6
<1>8. K \in Log /\ Sound(K) /\ Near(K, d)  BY <1>2, <1>4, <1>5, <1>7, CleanupCalm
<1>9. Bears(K, L)  BY <1>2, <1>4, <1>6, BearsCleanup
<1>10. CASE Full(K)
  <2>1. M = K  BY <1>1, <1>2, <1>7, <1>10 DEF Recover
  <2> QED  BY <1>1, <1>2, <1>9, <2>1, CountsBears
<1>11. CASE ~Full(K)
  <2>1. PICK s, rec, f : /\ s = JnlSlot(x, p, 0, FALSE) /\ rec = Inctn(x, p)
                         /\ f = Store(K.file, K.rsrv, rec)
    OBVIOUS
  <2>2. PICK F : F = [K EXCEPT !.file = f]  OBVIOUS
  <2>3. M = Reserve(F, s)
    <3>1. jb' = [jb EXCEPT ![x] = Reserve(F, s)]  BY <1>1, <1>7, <1>11, <2>1, <2>2 DEF Recover
    <3> QED  BY <1>1, <1>2, <3>1
  <2>4. s \in Slot /\ rec \in Record  BY <2>1, SlotTypes
  <2>5. K.file \in Seq(Record) /\ K.rsrv \in Nat /\ K.free \in Nat  BY <1>8, LogFields
  <2>6. f \in Seq(Record)  BY <2>1, <2>4, <2>5, StoreIs
  <2>7. /\ F \in Log /\ F.free = K.free /\ F.index1 = K.index1 /\ F.index2 = K.index2
        /\ F.slot = K.slot /\ F.file = f
    BY <1>8, <2>2, <2>6, FileIs
  <2>8. Level(K) /\ K.free <= K.rsrv
    <3>1. Level(K)  BY <1>8 DEF Near, Calm, Redo, Base
    <3>2. K.free <= EndOf(Last(K))  BY <1>8, AboveFree DEF Sound
    <3> QED  BY <3>1, <3>2 DEF Level
  <2>9. Sound(F)  BY <1>8, <2>1, <2>4, <2>7, <2>8, StoreBeyond
  <2>10. Bears(F, K)  BY <1>8, <2>1, <2>4, <2>5, <2>7, <2>8, <2>9, BearsStore
  <2>11. Bears(M, F)  BY <2>3, <2>4, <2>7, BearsReserve
  <2> QED  BY <1>1, <1>2, <1>9, <2>10, <2>11, BearsTrans, CountsBears
<1> QED  BY <1>10, <1>11

LEMMA CountRecoverWritten ==
  ASSUME TypeInv, JnlInv, CountInv, NEW p \in Proc, NEW x \in Region, x = reg(p),
         RecoverWritten(p)
  PROVE  Counts(x, jb'[x])
<1>1. PICK L, M, d, i, K, c : /\ L = jb[x] /\ M = jb'[x] /\ d = db[x] /\ i = idx[p][x]
                              /\ K = Publish(L) /\ c = TRUE
  BY Zenon
<1>2. L \in Log /\ jb \in [Region -> Log] /\ Counts(x, L)  BY <1>1 DEF TypeInv, TypeOK, CountInv
<1>3. pc[p] = "recoverb" /\ M = WriteComplete(K, i, p, c, Alive)
  <2>1. jb' = [jb EXCEPT ![x] = WriteComplete(K, i, p, c, Alive)]  BY <1>1 DEF RecoverWritten
  <2> QED  BY <1>1, <1>2, <2>1 DEF RecoverWritten
<1>4. Sound(L) /\ Stands("recoverb", L, d, p, token[p], i, jnl_seqno)
  BY <1>1, <1>3, InsideKnows DEF Here, Inside
<1>5. /\ Taking(L, d, p) /\ i = L.index2 /\ L.slot[i].jnl_seqno = 0 /\ Good(L.file, L.slot[i])
  BY <1>4 DEF Stands
<1>6. /\ K \in Log /\ Sound(K) /\ InUse(K) = InUse(L) \cup {L.index2}
      /\ K.file = L.file /\ K.slot = L.slot
  BY <1>1, <1>2, <1>4, <1>5, PublishIs, PublishTaking
<1>7. Counts(x, K)  BY <1>1, <1>2, <1>4, <1>5, CountsPublish
<1>8. i \in InUse(K) /\ Good(K.file, K.slot[i])  BY <1>5, <1>6
<1>9. Bears(M, K)  BY <1>3, <1>6, <1>8, BearsWriteComplete
<1> QED  BY <1>1, <1>7, <1>9, CountsBears

LEMMA CountReserve ==
  ASSUME TypeInv, JnlInv, CountInv, NEW p \in Proc, NEW x \in Region, x = reg(p), ReserveJnl(p)
  PROVE  Counts(x, jb'[x])
<1>1. PICK L, M, c : L = jb[x] /\ M = jb'[x] /\ c = TRUE  BY Zenon
<1>2. L \in Log /\ Sound(L) /\ jb \in [Region -> Log] /\ Counts(x, L)
  BY <1>1 DEF TypeInv, TypeOK, CountInv, JnlInv, RegionInv
<1>3. Bears(M, L)
  <2>1. CASE Full(L)
    <3>1. M = Cleanup(L, p, c, Alive)  BY <1>1, <1>2, <2>1 DEF ReserveJnl
    <3> QED  BY <1>2, <3>1, BearsCleanup
  <2>2. CASE ~Full(L)
    <3>1. PICK s : s = JnlSlot(x, p, token[p], TRUE)  OBVIOUS
    <3>2. M = Reserve(L, s)  BY <1>1, <1>2, <2>2, <3>1 DEF ReserveJnl
    <3>3. token[p] \in Nat  BY DEF TypeInv, TypeOK
    <3>4. s \in Slot  BY <3>1, <3>3, SlotTypes
    <3> QED  BY <1>2, <3>2, <3>4, BearsReserve
  <2> QED  BY <2>1, <2>2
<1> QED  BY <1>1, <1>2, <1>3, CountsBears

(* The seqno of CMT06 is newer than all in the journal. *)
LEMMA CountPublish ==
  ASSUME TypeInv, TokenInv, JnlInv, CountInv, NEW p \in Proc, NEW x \in Region, x = reg(p),
         PublishJnl(p)
  PROVE  Counts(x, jb'[x])
<1>1. PICK L, M, d, t : L = jb[x] /\ M = jb'[x] /\ d = db[x] /\ t = token[p]  OBVIOUS
<1>2. L \in Log /\ d \in DB /\ jb \in [Region -> Log] /\ Counts(x, L) /\ jnl_seqno \in Nat
  BY <1>1 DEF TypeInv, TypeOK, CountInv
<1>3. pc[p] = "cmt06b" /\ M = Publish(L)  BY <1>1, <1>2 DEF PublishJnl
<1>4. /\ Sound(L) /\ d.reg_seqno <= jnl_seqno
      /\ Stands("taking", L, d, p, t, idx[p][x], jnl_seqno)
  BY <1>1, <1>3, InsideKnows DEF Here, Inside
<1>5. Taking(L, d, p) /\ L.slot[L.index2].jnl_seqno = t  BY <1>4 DEF Stands
<1>6. t = jnl_seqno  BY <1>1, <1>3 DEF TokenInv, Token, Published
<1>7. ~Has(L, t)
  <2> SUFFICES ASSUME Has(L, t)  PROVE FALSE  OBVIOUS
  <2>1. t \in Seqnos(L, {})  BY HasSeqnos
  <2>2. t < d.reg_seqno  BY <1>5, <2>1 DEF Taking, OneMore
  <2>3. d.reg_seqno \in Nat  BY <1>2, DBFields
  <2> QED  BY <1>2, <1>4, <1>6, <2>2, <2>3
<1> QED  BY <1>1, <1>2, <1>3, <1>4, <1>5, <1>7, CountsPublish

LEMMA CountUndo ==
  ASSUME TypeInv, TokenInv, JnlInv, CountInv, NEW p \in Proc, NEW x \in Region, x = reg(p),
         UndoDB(p)
  PROVE  Counts(x, jb'[x])
<1>1. PICK L, M : L = jb[x] /\ M = jb'[x]  OBVIOUS
<1>2. L \in Log /\ jb \in [Region -> Log] /\ Counts(x, L) /\ jnl_seqno \in Nat
  BY <1>1 DEF TypeInv, TypeOK, CountInv
<1>3. /\ pc[p] = "undodb"
      /\ M = L \/ (M = Withdraw(L) /\ L.index1 # L.index2)
  BY <1>1, <1>2 DEF UndoDB
<1>4. Stands("logged", L, db[x], p, token[p], idx[p][x], jnl_seqno)
  BY <1>1, <1>3, InsideKnows DEF Here, Ahead, Inside
<1>5. Last(L).jnl_seqno = jnl_seqno  BY <1>3, <1>4 DEF Stands, TokenInv, Token
<1>6. ~Owed(x, Last(L).jnl_seqno)  BY <1>2, <1>5 DEF Owed
<1> QED  BY <1>1, <1>2, <1>3, <1>6, CountsWithdraw

LEMMA LostTidied ==
  ASSUME NEW x, NEW L \in Log, NEW M, NEW C, Tidied(M, L, C), NEW d, NEW h, Lost(x, L, d, h)
  PROVE  Lost(x, M, d, h)
<1>1. DECR(L.index2) \in Index  BY LogFields, IndexType
<1>2. Doubts(M, d, h) = Doubts(L, d, h)  BY <1>1, DoubtsSame DEF Tidied
<1>3. InUse(M) \subseteq InUse(L) /\ InUse(L) \subseteq Index  BY DEF Tidied, InUse
<1>4. \A i \in Index : M.slot[i].jnl_seqno = L.slot[i].jnl_seqno  BY DEF Tidied, Alike
<1> QED  BY <1>2, <1>3, <1>4 DEF Lost

LEMMA CountPhase2 ==
  ASSUME TypeInv, TypeInv', JnlInv, CountInv, NEW p \in Proc, NEW x \in Region, x = reg(p),
         WriteJnl(p) \/ JnlWriteComplete(p)
  PROVE  Counts(x, jb'[x]) /\ \A d, h : Lost(x, jb[x], d, h) => Lost(x, jb'[x], d, h)
<1>1. PICK L, M, i : L = jb[x] /\ M = jb'[x] /\ i = idx[p][x]  OBVIOUS
<1>2. L \in Log /\ M \in Log /\ jb \in [Region -> Log] /\ i \in Index /\ Counts(x, L)
  BY <1>1 DEF TypeInv, TypeOK, CountInv
<1>3. pc[p] \in {"cmt16", "cmt16c"}  BY DEF WriteJnl, JnlWriteComplete
<1>4. Sound(L) /\ Entry(Here(pc[p]), L, p, token[p], i)
  BY <1>1, <1>3, OutsideKnows DEF Here, Ahead, Inside
<1>5. i \in InUse(L) /\ L.slot[i].jnl_seqno = token[p]
  BY <1>3, <1>4 DEF Entry, Entries, Here, Ahead
<1>6. Bears(M, L) /\ \E C : Tidied(M, L, C)
  <2>1. CASE WriteJnl(p)
    <3>1. PICK a, rec, f : /\ a = L.slot[i].start /\ rec = UpdateRecord(L, p, i)
                           /\ f = Store(L.file, a, rec)
      OBVIOUS
    <3>2. rec \in Record  BY <1>2, <3>1, SlotTypes
    <3>3. M = [L EXCEPT !.file = f]
      <4>1. jb' = [jb EXCEPT ![x].file = f]  BY <1>1, <2>1, <3>1 DEF WriteJnl
      <4> QED  BY <1>1, <1>2, <4>1
    <3>4. a \in Nat /\ L.file \in Seq(Record)  BY <1>2, <3>1, LogFields, SlotFields
    <3>5. f \in Seq(Record)  BY <3>1, <3>2, <3>4, StoreIs
    <3>6. /\ M.free = L.free /\ M.rsrv = L.rsrv /\ M.last = L.last /\ M.index1 = L.index1
          /\ M.index2 = L.index2 /\ M.slot = L.slot /\ M.file = f
      BY <1>2, <3>3, <3>5, FileIs
    <3>7. rec.tn = L.slot[i].curr_tn /\ rec.jnl_seqno = L.slot[i].jnl_seqno
      BY <1>5, <3>1 DEF UpdateRecord
    <3>8. Worked(M, L, {})  BY <1>2, <1>4, <1>5, <3>1, <3>2, <3>6, <3>7, StoreWorked
    <3>9. Sound(M)  BY <3>8 DEF Worked, Carried
    <3>10. L.free <= a  BY <1>2, <1>4, <1>5, <3>1, AboveFree DEF Sound
    <3>11. Bears(M, L)  BY <1>2, <1>4, <3>1, <3>2, <3>4, <3>6, <3>9, <3>10, BearsStore
    <3> QED  BY <3>8, <3>11 DEF Worked
  <2>2. CASE JnlWriteComplete(p)
    <3>1. PICK c : c = FALSE  BY Zenon
    <3>2. pc[p] = "cmt16c" /\ M = WriteComplete(L, i, p, c, Alive)
      BY <1>1, <1>2, <2>2, <3>1 DEF JnlWriteComplete
    <3>3. Good(L.file, L.slot[i])  BY <1>4, <3>2 DEF Entry, Here
    <3>4. Bears(M, L)  BY <1>2, <1>4, <1>5, <3>2, <3>3, BearsWriteComplete
    <3> QED  BY <1>2, <3>2, <3>4, WriteCompleteIs
  <2> QED  BY <2>1, <2>2
<1>7. ASSUME NEW d, NEW h, Lost(x, L, d, h)  PROVE Lost(x, M, d, h)
  BY <1>2, <1>6, <1>7, LostTidied
<1> QED  BY <1>1, <1>2, <1>6, <1>7, CountsBears

LEMMA CountReader ==
  ASSUME TypeInv, JnlInv, CountInv, NEW x \in Region, JnlCleanup(x)
  PROVE  Counts(x, jb'[x]) /\ \A d, h : Lost(x, jb[x], d, h) => Lost(x, jb'[x], d, h)
<1>1. PICK L, M, c : L = jb[x] /\ M = jb'[x] /\ c = FALSE  BY Zenon
<1>2. L \in Log /\ Sound(L) /\ jb \in [Region -> Log] /\ Counts(x, L)
  BY <1>1 DEF TypeInv, TypeOK, CountInv, JnlInv, RegionInv
<1>3. M = Cleanup(L, NoProc, c, Alive)  BY <1>1, <1>2 DEF JnlCleanup
<1>4. Bears(M, L)  BY <1>2, <1>3, BearsCleanup
<1>5. PICK C : Tidied(M, L, C)  BY <1>2, <1>3, CleanupIs
<1>6. ASSUME NEW d, NEW h, Lost(x, L, d, h)  PROVE Lost(x, M, d, h)
  BY <1>2, <1>5, <1>6, LostTidied
<1> QED  BY <1>1, <1>2, <1>4, <1>6, CountsBears

(* Nothing becomes owed but by CMT07. *)
LEMMA OwedLater ==
  ASSUME TypeInv, [Next]_vars, ~ \E p \in Proc : SetJnlSeqno(p), NEW r, NEW s, Owed(r, s)'
  PROVE  Owed(r, s)
<1>1. jnl_seqno' = jnl_seqno /\ txn' = txn  BY TxnSame
<1>2. torn \subseteq torn'
  <2>1. ASSUME NEW p \in Proc, (\E rs \in Updates : Begin(p, rs)) \/ Step(p) \/ Fail(p)
        PROVE  torn' = torn
    BY <2>1 DEF Step, Begin, GrabCrit, Recover, RecoverWritten, RecoverDone, GrabLock, ReservePool,
         PublishPool, EarlyTn, ReserveJnl, PublishJnl, SetJnlSeqno, UpdateUnderway, SetRegSeqno,
         IncrementCurrTn, RelCrit, RelLock, WriteJnl, JnlWriteComplete, WritePool,
         PoolWriteComplete, UndoPool, UndoDB, UndoRel, Finish, Fail, histvars
  <2>2. ASSUME NEW p \in Proc, Kill(p)  PROVE torn \subseteq torn'  BY <2>2 DEF Kill
  <2>3. ASSUME (\E x \in Region : JnlCleanup(x)) \/ Source \/ UNCHANGED vars  PROVE torn' = torn
    BY <2>3 DEF JnlCleanup, Source, SourceRead, SourceSalvage, histvars, vars
  <2> QED  BY <2>1, <2>2, <2>3 DEF Next
<1> QED  BY <1>1, <1>2 DEF Owed

(* What is known of a region now is known later. *)
LEMMA CountsLater ==
  ASSUME TypeInv, [Next]_vars, ~ \E p \in Proc : SetJnlSeqno(p), NEW r \in Region,
         Counts(r, jb'[r]),
         Lost(r, jb'[r], db'[r], crit'[r]) \/ crit'[r] \notin Proc \/ pc'[crit'[r]] # "dead",
         \A q \in Proc : pc'[q] = "dead" => pc[q] = "dead"
  PROVE  (Counts(r, jb[r]) /\ Lost(r, jb[r], db[r], crit[r]))'
<1>1. PICK M, e, g : M = jb'[r] /\ e = db'[r] /\ g = crit'[r]  OBVIOUS
<1>2. \A s : Owed(r, s)' => Owed(r, s)  BY OwedLater
<1>3. Single(M) /\ \A s : Owed(r, s)' => Has(M, s)  BY <1>1, <1>2 DEF Counts
<1>4. Counts(r, jb[r])'  BY <1>1, <1>3 DEF Counts, Single, Has, Mark, InUse
<1>5. ASSUME g \in Proc, pc'[g] = "dead", NEW i \in Doubts(M, e, g) \cap InUse(M),
             Owed(r, M.slot[i].jnl_seqno)'
      PROVE  FALSE
  <2>1. pc[g] = "dead" /\ Lost(r, M, e, g)  BY <1>1, <1>5
  <2>2. ~Owed(r, M.slot[i].jnl_seqno)  BY <1>5, <2>1 DEF Lost
  <2> QED  BY <1>2, <1>5, <2>2
<1>6. Lost(r, jb[r], db[r], crit[r])'  BY <1>1, <1>5 DEF Lost, Doubts, InUse
<1> QED  BY <1>4, <1>6

(* Steps of live processes leave them alive. *)
LEMMA AliveStay ==
  ASSUME TypeInv, [Next]_vars, ~ \E p \in Proc : Kill(p)
  PROVE  \A q \in Proc : pc'[q] = "dead" => pc[q] = "dead"
<1> SUFFICES ASSUME NEW q \in Proc, pc'[q] = "dead", pc[q] # "dead"  PROVE FALSE  OBVIOUS
<1>1. pc \in [Proc -> PC]  BY DEF TypeInv, TypeOK
<1>2. ASSUME NEW p \in Proc, (\E rs \in Updates : Begin(p, rs)) \/ Step(p) \/ Fail(p)
      PROVE  pc'[p] # "dead"
  BY <1>1, <1>2 DEF Step, Begin, GrabCrit, AfterGrab, Recover, RecoverWritten, RecoverDone, GrabLock,
         ReservePool, PublishPool, EarlyTn, ReserveJnl, PublishJnl, SetJnlSeqno, UpdateUnderway, SetRegSeqno,
         IncrementCurrTn, RelCrit, RelLock, WriteJnl, JnlWriteComplete, WritePool,
         PoolWriteComplete, UndoPool, UndoDB, UndoRel, Finish, Fail, Goto, Loop
<1>3. ASSUME NEW p \in Proc, (\E rs \in Updates : Begin(p, rs)) \/ Step(p) \/ Fail(p)  PROVE FALSE
  <2>1. Alone(p) /\ pc'[p] # "dead"  BY <1>2, <1>3, AloneIs
  <2> QED  BY <2>1 DEF Alone
<1>4. ASSUME (\E r \in Region : JnlCleanup(r)) \/ Source \/ UNCHANGED vars  PROVE FALSE
  BY <1>4 DEF JnlCleanup, Source, SourceRead, SourceSalvage, procvars, vars
<1> QED  BY <1>3, <1>4 DEF Next

LEMMA CountSame ==
  ASSUME TypeInv, TypeInv', [Next]_vars, CountInv, ~ \E p \in Proc : SetJnlSeqno(p) \/ Kill(p),
         NEW r \in Region, jb'[r] = jb[r], db'[r] = db[r], crit'[r] = crit[r]
  PROVE  (Counts(r, jb[r]) /\ Lost(r, jb[r], db[r], crit[r]))'
<1>1. Counts(r, jb'[r]) /\ Lost(r, jb'[r], db'[r], crit'[r])  BY DEF CountInv
<1>2. \A q \in Proc : pc'[q] = "dead" => pc[q] = "dead"  BY AliveStay
<1> QED  BY <1>1, <1>2, CountsLater

LEMMA CountLoops ==
  ASSUME TypeInv, TypeInv', TokenInv, JnlInv, RecInv, CountInv, [Next]_vars,
         ~ \E q \in Proc : SetJnlSeqno(q) \/ Kill(q), NEW p \in Proc,
         \/ GrabCrit(p) \/ Recover(p) \/ RecoverWritten(p) \/ RecoverDone(p) \/ EarlyTn(p)
         \/ ReserveJnl(p) \/ PublishJnl(p) \/ UpdateUnderway(p) \/ SetRegSeqno(p)
         \/ IncrementCurrTn(p) \/ RelCrit(p) \/ Finish(p) \/ UndoDB(p) \/ WriteJnl(p)
         \/ JnlWriteComplete(p)
  PROVE  CountInv'
<1> SUFFICES ASSUME NEW r \in Region
             PROVE  (Counts(r, jb[r]) /\ Lost(r, jb[r], db[r], crit[r]))'
  BY DEF CountInv
<1>1. PICK x : x = reg(p)  OBVIOUS
<1>2. Local(p, x) /\ Alone(p) /\ pc[p] \notin {"idle", "dead"}  BY <1>1, LocalIs
<1>3. CASE r # x
  <2>1. jb'[r] = jb[r] /\ db'[r] = db[r] /\ crit'[r] = crit[r]  BY <1>2, <1>3 DEF Local
  <2> QED  BY <2>1, CountSame
<1>4. CASE r = x
  <2>1. Counts(x, jb'[x])
    <3>1. CASE EarlyTn(p) \/ UpdateUnderway(p) \/ SetRegSeqno(p) \/ IncrementCurrTn(p)
               \/ RelCrit(p) \/ Finish(p) \/ RecoverDone(p)
      <4>1. jb' = jb
        BY <3>1 DEF EarlyTn, UpdateUnderway, SetRegSeqno, IncrementCurrTn, RelCrit, Finish,
                    RecoverDone
      <4> QED  BY <1>4, <4>1 DEF CountInv
    <3> QED  BY <1>1, <1>4, <3>1, CountGrab, CountRecover, CountRecoverWritten, CountReserve,
                CountPublish, CountUndo, CountPhase2
  <2>2. \A q \in Proc : pc'[q] = "dead" => pc[q] = "dead"  BY AliveStay
  <2>3. Lost(x, jb'[x], db'[x], crit'[x]) \/ crit'[x] \notin Proc \/ pc'[crit'[x]] # "dead"
    <3>1. CASE WriteJnl(p) \/ JnlWriteComplete(p)
      <4>1. db' = db /\ crit' = crit  BY <3>1 DEF WriteJnl, JnlWriteComplete
      <4>2. Lost(x, jb[x], db[x], crit[x])  BY <1>4 DEF CountInv
      <4> QED  BY <1>1, <1>4, <3>1, <4>1, <4>2, CountPhase2
    <3>2. CASE ~(WriteJnl(p) \/ JnlWriteComplete(p))
      <4>1. crit'[x] = p \/ crit'[x] = NoProc
        <5>1. crit \in [Region \cup {POOL} -> Proc \cup {NoProc}]  BY DEF TypeInv, TypeOK
        <5>2. CASE GrabCrit(p) \/ RelCrit(p) \/ UndoDB(p) \/ Finish(p)
          BY <1>1, <1>4, <5>1, <5>2 DEF GrabCrit, RelCrit, UndoDB, Finish
        <5>3. CASE \/ Recover(p) \/ RecoverWritten(p) \/ RecoverDone(p) \/ EarlyTn(p)
                   \/ ReserveJnl(p) \/ PublishJnl(p) \/ UpdateUnderway(p) \/ SetRegSeqno(p)
                   \/ IncrementCurrTn(p)
          <6>1. /\ crit' = crit
                /\ pc[p] \in {"recover", "recoverb", "recoverc", "cmt04", "cmt06", "cmt06b",
                              "cmt08", "cmt09", "cmt12"}
            BY <5>3 DEF Recover, RecoverWritten, RecoverDone, EarlyTn, ReserveJnl, PublishJnl,
                        UpdateUnderway, SetRegSeqno, IncrementCurrTn
          <6>2. Here(pc[p]) \in Inside  BY <6>1 DEF Here, Ahead, Inside
          <6> QED  BY <1>1, <1>2, <6>1, <6>2, InsideKnows
        <5> QED  BY <3>2, <5>2, <5>3
      <4>2. pc'[p] # "dead"  BY <1>2, <2>2
      <4> QED  BY <4>1, <4>2, RegionIs
    <3> QED  BY <3>1, <3>2
  <2> QED  BY <1>4, <2>1, <2>2, <2>3, CountsLater
<1> QED  BY <1>3, <1>4

(* CMT07: the seqno is in the journals of all regions of the transaction. *)
LEMMA CountSeqno ==
  ASSUME TypeInv, TypeInv', TokenInv, JnlInv, RecInv, CountInv, NEW p \in Proc, SetJnlSeqno(p)
  PROVE  CountInv'
<1>1. /\ token[p] = jnl_seqno /\ jnl_seqno' = jnl_seqno + 1 /\ Len(txn) + 1 = jnl_seqno
      /\ jnl_seqno \in Nat /\ txn'[jnl_seqno].upd = upd[p]
      /\ \A s \in 1 .. Len(txn) : txn'[s] = txn[s]
  BY TxnAppended DEF RecInv, TxnInv
<1>2. pc[p] = "cmt07" /\ jb' = jb /\ db' = db /\ crit' = crit /\ torn' = torn
      /\ pc' = [pc EXCEPT ![p] = "cmt08"]
  BY DEF SetJnlSeqno, Goto
<1>3. rem[p] = upd[p]  BY <1>2 DEF TokenInv, Whole
<1>4. ASSUME NEW r, NEW s, Owed(r, s)'  PROVE Owed(r, s) \/ (s = jnl_seqno /\ r \in upd[p])
  <2>1. s \in 1 .. jnl_seqno' - 1 /\ r \in txn'[s].upd /\ <<s, r>> \notin torn  BY <1>2, <1>4 DEF Owed
  <2>2. CASE s = jnl_seqno  BY <1>1, <2>1, <2>2
  <2>3. CASE s # jnl_seqno
    <3>1. Len(txn) \in Nat  BY LenProperties DEF TypeInv, TypeOK
    <3>2. s \in 1 .. Len(txn) /\ s \in 1 .. jnl_seqno - 1  BY <1>1, <2>1, <2>3, <3>1
    <3>3. txn'[s] = txn[s]  BY <1>1, <3>2
    <3> QED  BY <2>1, <3>2, <3>3 DEF Owed
  <2> QED  BY <2>2, <2>3
<1>5. ASSUME NEW r \in Region, r \in upd[p]  PROVE crit[r] = p /\ Has(jb[r], jnl_seqno)
  <2>1. Spot(p, r) = "logged"  BY <1>2, <1>3, <1>5 DEF Spot, Where, Here, Ahead
  <2>2. Owns("logged", crit[r], p) /\ Entry("logged", jb[r], p, token[p], idx[p][r])
    BY <2>1 DEF JnlInv, PlaceInv
  <2>3. PICK i \in InUse(jb[r]) : jb[r].slot[i].jnl_seqno = jnl_seqno
    BY <1>1, <2>2 DEF Entry, Entries
  <2>4. Mark(jb[r], EndOf(jb[r].slot[i]), jnl_seqno)  BY <2>3 DEF Mark
  <2> QED  BY <2>2, <2>4 DEF Has, Owns, Inside
<1>6. ASSUME NEW r \in Region  PROVE (Counts(r, jb[r]) /\ Lost(r, jb[r], db[r], crit[r]))'
  <2>1. Counts(r, jb[r]) /\ Lost(r, jb[r], db[r], crit[r])  BY DEF CountInv
  <2>2. \A s : Owed(r, s)' => Has(jb[r], s)  BY <1>4, <1>5, <2>1 DEF Counts
  <2>3. Counts(r, jb[r])'  BY <1>2, <2>1, <2>2 DEF Counts, Single, Has, Mark, InUse
  <2>4. \A q \in Proc : pc'[q] = "dead" => pc[q] = "dead" /\ q # p
    BY <1>2 DEF TypeInv, TypeOK
  <2>5. ASSUME crit[r] \in Proc, pc'[crit[r]] = "dead",
               NEW i \in Doubts(jb[r], db[r], crit[r]) \cap InUse(jb[r]),
               NEW t, t = jb[r].slot[i].jnl_seqno, Owed(r, t)'
        PROVE  FALSE
    <3>1. pc[crit[r]] = "dead" /\ crit[r] # p  BY <2>4, <2>5
    <3>2. ~Owed(r, t)  BY <2>1, <2>5, <3>1 DEF Lost
    <3> QED  BY <1>4, <1>5, <2>5, <3>1, <3>2
  <2>6. Lost(r, jb[r], db[r], crit[r])'  BY <1>2, <2>5 DEF Lost, Doubts, InUse
  <2> QED  BY <2>3, <2>6
<1> QED  BY <1>6 DEF CountInv

(* A kill tears the transactions whose reservations may have to be withdrawn. *)
LEMMA CountKill ==
  ASSUME TypeInv, TypeInv', TokenInv, JnlInv, CountInv, NEW p \in Proc, Kill(p)
  PROVE  CountInv'
<1>1. /\ jb' = jb /\ db' = db /\ crit' = crit /\ txn' = txn /\ jnl_seqno' = jnl_seqno
      /\ torn' = torn \cup ({token[p]} \X NotUnderway(p)) /\ pc' = [pc EXCEPT ![p] = "dead"]
  BY DEF Kill
<1>2. \A r, s : Owed(r, s)' => Owed(r, s)  BY <1>1 DEF Owed
<1>3. pc[p] # "dead" /\ jnl_seqno \in Nat  BY CommitAssumption DEF Kill, TypeInv, TypeOK
<1>4. ASSUME NEW r \in Region  PROVE (Counts(r, jb[r]) /\ Lost(r, jb[r], db[r], crit[r]))'
  <2>1. Counts(r, jb[r]) /\ Lost(r, jb[r], db[r], crit[r])  BY DEF CountInv
  <2>2. Counts(r, jb[r])'  BY <1>1, <1>2, <2>1 DEF Counts, Single, Has, Mark, InUse
  <2>3. ASSUME crit[r] \in Proc, pc'[crit[r]] = "dead",
               NEW i \in Doubts(jb[r], db[r], crit[r]) \cap InUse(jb[r]),
               NEW t, t = jb[r].slot[i].jnl_seqno, Owed(r, t)'
        PROVE  FALSE
    <3>1. CASE crit[r] = p
      <4>1. /\ jb[r].slot[i].jnl_seqno = token[p]
            /\ token[p] = jnl_seqno \/ r \in NotUnderway(p)
        BY <1>3, <2>3, <3>1, InDoubt
      <4>2. CASE token[p] = jnl_seqno  BY <1>1, <1>3, <2>3, <4>1, <4>2 DEF Owed
      <4>3. CASE r \in NotUnderway(p)
        <5>1. <<token[p], r>> \in torn'  BY <1>1, <4>3
        <5> QED  BY <1>1, <2>3, <4>1, <5>1 DEF Owed
      <4> QED  BY <4>1, <4>2, <4>3
    <3>2. CASE crit[r] # p
      <4>1. pc[crit[r]] = "dead"  BY <1>1, <2>3, <3>2 DEF TypeInv, TypeOK
      <4>2. ~Owed(r, t)  BY <2>1, <2>3, <4>1 DEF Lost
      <4> QED  BY <1>2, <2>3, <4>2
    <3> QED  BY <3>1, <3>2
  <2>4. Lost(r, jb[r], db[r], crit[r])'  BY <1>1, <2>3 DEF Lost, Doubts, InUse
  <2> QED  BY <2>2, <2>4
<1> QED  BY <1>4 DEF CountInv

LEMMA CountStep ==
  TypeInv /\ TypeInv' /\ TokenInv /\ JnlInv /\ RecInv /\ CountInv /\ [Next]_vars => CountInv'
<1> SUFFICES ASSUME TypeInv, TypeInv', TokenInv, JnlInv, RecInv, CountInv, [Next]_vars
             PROVE  CountInv'
  OBVIOUS
<1>1. CASE \E p \in Proc : SetJnlSeqno(p) \/ Kill(p)  BY <1>1, CountSeqno, CountKill
<1>2. CASE ~ \E p \in Proc : SetJnlSeqno(p) \/ Kill(p)
  <2>1. ASSUME \A r \in Region : jb'[r] = jb[r] /\ db'[r] = db[r] /\ crit'[r] = crit[r]
        PROVE  CountInv'
    <3>1. \A r \in Region : (Counts(r, jb[r]) /\ Lost(r, jb[r], db[r], crit[r]))'
      BY <1>2, <2>1, CountSame
    <3> QED  BY <3>1 DEF CountInv
  <2>2. ASSUME NEW p \in Proc,
               \/ \E rs \in Updates : Begin(p, rs)
               \/ GrabLock(p) \/ ReservePool(p) \/ PublishPool(p) \/ RelLock(p)
               \/ WritePool(p) \/ PoolWriteComplete(p) \/ UndoPool(p) \/ UndoRel(p) \/ Fail(p)
        PROVE  CountInv'
    <3>1. jb' = jb /\ db' = db /\ (crit' = crit \/ \E y : crit' = [crit EXCEPT ![POOL] = y])
      BY <2>2 DEF Begin, GrabLock, ReservePool, PublishPool, RelLock, WritePool,
                  PoolWriteComplete, UndoPool, UndoRel, Fail
    <3>2. \A r \in Region : crit'[r] = crit[r]  BY <3>1, RegionIs DEF TypeInv, TypeOK
    <3> QED  BY <2>1, <3>1, <3>2
  <2>3. ASSUME NEW x \in Region, JnlCleanup(x)  PROVE CountInv'
    <3> SUFFICES ASSUME NEW r \in Region
                 PROVE  (Counts(r, jb[r]) /\ Lost(r, jb[r], db[r], crit[r]))'
      BY DEF CountInv
    <3>1. db' = db /\ crit' = crit  BY <2>3 DEF JnlCleanup
    <3>2. CASE r # x
      <4>1. jb'[r] = jb[r]  BY <2>3, <3>2 DEF JnlCleanup, TypeInv, TypeOK
      <4> QED  BY <1>2, <3>1, <4>1, CountSame
    <3>3. CASE r = x
      <4>1. Counts(r, jb'[r]) /\ Lost(r, jb'[r], db'[r], crit'[r])
        BY <2>3, <3>1, <3>3, CountReader DEF CountInv
      <4>2. \A q \in Proc : pc'[q] = "dead" => pc[q] = "dead"  BY <1>2, AliveStay
      <4> QED  BY <1>2, <4>1, <4>2, CountsLater
    <3> QED  BY <3>2, <3>3
  <2>4. ASSUME SourceRead \/ SourceSalvage \/ UNCHANGED vars  PROVE CountInv'
    <3>1. jb' = jb /\ db' = db /\ (crit' = crit \/ \E y : crit' = [crit EXCEPT ![POOL] = y])
      BY <2>4 DEF SourceRead, SourceSalvage, vars
    <3>2. \A r \in Region : crit'[r] = crit[r]  BY <3>1, RegionIs DEF TypeInv, TypeOK
    <3> QED  BY <2>1, <3>1, <3>2
  <2> QED  BY <1>2, <2>2, <2>3, <2>4, CountLoops DEF Next, Step, Source
<1> QED  BY <1>1, <1>2

-----------------------------------------------------------------------------
(* What the invariant says of View *)

(* A mark of the journal is an entry of View at its place. *)
LEMMA ViewMarks ==
  ASSUME NEW L \in Log, Sound(L), NEW v, v = View(L), NEW s, NEW k
  PROVE  k \in DOMAIN v /\ v[k].jnl_seqno = s <=> Mark(L, k, s)
<1>1. PICK n, m : n = L.free /\ m = Used(L)  OBVIOUS
<1>2. n \in Nat /\ m \in Nat  BY <1>1, LogFields, UsedIs, LogAssumption
<1>3. /\ DOMAIN v = 1 .. n + m /\ \A i \in 1 .. n : v[i].jnl_seqno = L.file[i].jnl_seqno
      /\ \A a \in 0 .. m - 1 : v[n + a + 1].jnl_seqno = L.slot[At(L, a)].jnl_seqno
  BY <1>1, ViewIs
<1>4. ASSUME NEW a \in 0 .. m - 1  PROVE At(L, a) \in InUse(L) /\ EndOf(L.slot[At(L, a)]) = n + a + 1
  <2>1. At(L, a) \in InUse(L)  BY <1>1, LogFields, InUseAt
  <2>2. L.slot[At(L, a)].start = n + a  BY <1>1, Ages DEF Sound
  <2> QED  BY <1>2, <2>1, <2>2 DEF Sound, Unit, EndOf
<1>5. ASSUME k \in DOMAIN v, v[k].jnl_seqno = s  PROVE Mark(L, k, s)
  <2>1. CASE k \in 1 .. n  BY <1>1, <1>3, <1>5, <2>1 DEF Mark
  <2>2. CASE k \notin 1 .. n
    <3>1. PICK a : a = k - n - 1  OBVIOUS
    <3>2. a \in 0 .. m - 1 /\ n + a + 1 = k  BY <1>2, <1>3, <1>5, <2>2, <3>1
    <3>3. /\ At(L, a) \in InUse(L) /\ EndOf(L.slot[At(L, a)]) = k
          /\ L.slot[At(L, a)].jnl_seqno = s
      BY <1>3, <1>4, <1>5, <3>2
    <3> QED  BY <3>3 DEF Mark
  <2> QED  BY <2>1, <2>2
<1>6. ASSUME Mark(L, k, s)  PROVE k \in DOMAIN v /\ v[k].jnl_seqno = s
  <2>1. CASE k \in 1 .. n /\ L.file[k].jnl_seqno = s
    <3>1. k \in DOMAIN v  BY <1>2, <1>3, <2>1
    <3> QED  BY <1>3, <2>1, <3>1
  <2>2. CASE \E i \in InUse(L) : EndOf(L.slot[i]) = k /\ L.slot[i].jnl_seqno = s
    <3>1. PICK i \in InUse(L) : EndOf(L.slot[i]) = k /\ L.slot[i].jnl_seqno = s  BY <2>2
    <3>2. PICK a \in 0 .. m - 1 : i = At(L, a)  BY <1>1, LogFields, InUseAt
    <3>3. k = n + a + 1  BY <1>4, <3>1, <3>2
    <3>4. k \in DOMAIN v  BY <1>2, <1>3, <3>3
    <3> QED  BY <1>3, <3>1, <3>2, <3>3, <3>4
  <2> QED  BY <1>1, <1>6, <2>1, <2>2 DEF Mark
<1> QED  BY <1>5, <1>6

(* No journal has a seqno of a transaction that does not update its region. *)
LEMMA OnlyNamed ==
  ASSUME TypeInv, TokenInv, JnlInv, RecInv, NEW r \in Region, crit[r] \in Alive \cup {NoProc},
         NEW s \in 1 .. jnl_seqno - 1, NEW k, Mark(jb[r], k, s)
  PROVE  r \in txn[s].upd
<1>1. PICK L, D : L = jb[r] /\ D = Doubts(jb[r], db[r], crit[r])  OBVIOUS
<1>2. L \in Log /\ Sound(L) /\ jnl_seqno \in Nat /\ s # 0 /\ s # jnl_seqno
  BY <1>1 DEF TypeInv, TypeOK, JnlInv, RegionInv
<1>3. FileOk(r, L.file) /\ AllOk(r, L, D) /\ TxnInv  BY <1>1 DEF RecInv, RegionOk
<1>4. r # POOL  BY RegionIs
<1>5. CASE k \in 1 .. L.free /\ L.file[k].jnl_seqno = s
  <2>1. L.free <= Len(L.file) /\ L.free \in Nat /\ Len(L.file) \in Nat
    BY <1>2, LogFields DEF Sound, Filed
  <2>2. k \in 1 .. Len(L.file)  BY <1>5, <2>1
  <2>3. RecOk(r, L.file[k])  BY <1>3, <2>2 DEF FileOk
  <2>4. L.file[k] # Garbage  BY <1>2, <1>5 DEF Garbage
  <2> QED  BY <1>2, <1>4, <1>5, <2>3, <2>4 DEF RecOk, Names
<1>6. CASE \E i \in InUse(L) : EndOf(L.slot[i]) = k /\ L.slot[i].jnl_seqno = s
  <2>1. PICK i \in InUse(L) : L.slot[i].jnl_seqno = s  BY <1>6
  <2>2. CASE i \notin D  BY <1>2, <1>3, <1>4, <2>1, <2>2 DEF AllOk, SlotOk, Names
  <2>3. CASE i \in D
    <3>1. CASE crit[r] = NoProc
      <4>1. Near(L, db[r]) /\ db[r] \in DB
        BY <1>1, <3>1 DEF JnlInv, RegionInv, Rest, Near, TypeInv, TypeOK
      <4>2. InUse(L) \cap D = {}  BY <1>1, <1>2, <4>1, NoDoubts
      <4> QED  BY <2>1, <2>3, <4>2
    <3>2. CASE crit[r] # NoProc
      <4>1. PICK p : p = crit[r]  OBVIOUS
      <4>2. p \in Proc /\ pc[p] # "dead"  BY <3>2, <4>1 DEF Alive
      <4>3. /\ token[p] = s
            /\ \/ token[p] = jnl_seqno
               \/ r \in upd[p] /\ pc[p] \in {"cmt08", "cmt09", "cmt12", "cmt14", "finish"}
        BY <1>1, <2>1, <2>3, <4>1, <4>2, InDoubt
      <4>4. Names(r, s, p)  BY <1>2, <1>3, <4>2, <4>3, TokenNames DEF Committed
      <4> QED  BY <1>4, <4>4 DEF Names
    <3> QED  BY <3>1, <3>2
  <2> QED  BY <2>2, <2>3
<1> QED  BY <1>1, <1>5, <1>6 DEF Mark

(* AllOrNothing, of one seqno and one region. *)
OnceOrNone(r, s, v) ==
  LET n == Cardinality({i \in DOMAIN v : v[i].jnl_seqno = s})
  IN IF r \notin txn[s].upd THEN n = 0
     ELSE IF <<s, r>> \in torn THEN n \in {0, 1}
     ELSE n = 1

LEMMA CountAll == TypeInv /\ TokenInv /\ JnlInv /\ RecInv /\ CountInv => AllOrNothing
<1> SUFFICES ASSUME TypeInv, TokenInv, JnlInv, RecInv, CountInv, NEW s \in 1 .. jnl_seqno - 1,
                    NEW r \in Region, crit[r] \in Alive \cup {NoProc}, NEW v, v = View(jb[r])
             PROVE  OnceOrNone(r, s, v)
  BY Zenon DEF AllOrNothing, OnceOrNone
<1>1. PICK L, S : L = jb[r] /\ S = {i \in DOMAIN v : v[i].jnl_seqno = s}  OBVIOUS
<1>2. L \in Log /\ Sound(L) /\ Counts(r, L) /\ s # 0
  BY <1>1 DEF TypeInv, TypeOK, JnlInv, RegionInv, CountInv
<1>3. \A k : k \in S <=> Mark(L, k, s)  BY <1>1, <1>2, ViewMarks
<1>4. \A j, k : j \in S /\ k \in S => j = k  BY <1>2, <1>3 DEF Counts, Single
<1>5. S = {} \/ \E k : S = {k}  BY <1>4
<1>6. (S = {} => Cardinality(S) = 0) /\ (S # {} => Cardinality(S) = 1)
  BY <1>5, FS_EmptySet, FS_Singleton
<1>7. r \notin txn[s].upd => S = {}  BY <1>1, <1>3, OnlyNamed
<1>8. r \in txn[s].upd /\ <<s, r>> \notin torn => S # {}
  BY <1>2, <1>3 DEF Owed, Counts, Has
<1> QED  BY <1>1, <1>6, <1>7, <1>8 DEF OnceOrNone

LEMMA CountInit == Init => CountInv
<1> SUFFICES ASSUME Init, NEW r \in Region
             PROVE  Counts(r, jb[r]) /\ Lost(r, jb[r], db[r], crit[r])
  BY DEF CountInv
<1>1. jb[r] = EmptyLog /\ crit[r] = NoProc /\ jnl_seqno = 1  BY DEF Init
<1>2. EmptyLog.free = 0 /\ InUse(EmptyLog) = {}  BY EmptyIs DEF EmptyLog
<1>3. \A k, s : ~Mark(jb[r], k, s)  BY <1>1, <1>2 DEF Mark
<1>4. \A s : ~Owed(r, s)  BY <1>1 DEF Owed
<1> QED  BY <1>1, <1>3, <1>4, RegionIs DEF Counts, Single, Lost

(* If no error comes between CMT04 and CMT06 (LateErrors; run undo06 shows what *)
(* one does), then, whatever is killed and wherever, a seqno that was taken is  *)
(* in the journal of every region its transaction updates and of no other,      *)
(* exactly once; but for the regions for which a process was killed after CMT07 *)
(* and before CMT08, where mutex_clean_dead_owner withdraws the reservation.    *)
THEOREM SeqnosAllOrNothing ==
  ASSUME LateErrors
  PROVE  Spec => []AllOrNothing
<1> DEFINE Inv == TypeInv /\ TokenInv /\ JnlInv /\ RecInv /\ CountInv
<1>1. Init => Inv  BY TypeInit, TokenInit, JnlInit, RecInit, CountInit
<1>2. Inv /\ [Next]_vars => Inv'
  <2> SUFFICES ASSUME Inv, [Next]_vars  PROVE Inv'  OBVIOUS
  <2>1. TypeInv'  BY TypeStep
  <2>2. TokenInv'  BY TokenStep
  <2>3. JnlInv'  BY <2>1, JnlStep
  <2>4. RecInv'  BY <2>1, RecStep
  <2>5. CountInv'  BY <2>1, CountStep
  <2> QED  BY <2>1, <2>2, <2>3, <2>4, <2>5
<1>3. Inv => AllOrNothing  BY CountAll
<1> QED  BY <1>1, <1>2, <1>3, PTL DEF Spec

-----------------------------------------------------------------------------
(* What stays in a journal *)

(* The record at k has been handed over, or its slot is complete. *)
Firm(L, k) ==
  k \in 1 .. L.free \/ \E i \in InUse(L) : L.slot[i].write_complete /\ L.slot[i].start + 1 = k

(* M has what is firm in L, but for INCTN records. *)
Holds(M, L) ==
  \A k : Firm(L, k) /\ L.file[k].jnl_seqno # 0 => Firm(M, k) /\ M.file[k] = L.file[k]

LEMMA HoldsSame == ASSUME NEW L  PROVE Holds(L, L)
BY DEF Holds

LEMMA HoldsTrans ==
  ASSUME NEW K, NEW L, NEW M, Holds(L, K), Holds(M, L)
  PROVE  Holds(M, K)
BY DEF Holds

LEMMA HoldsFrame ==
  ASSUME NEW L, NEW M, M.free = L.free, M.file = L.file,
         \A i \in InUse(L) : L.slot[i].write_complete =>
           i \in InUse(M) /\ M.slot[i].write_complete /\ M.slot[i].start = L.slot[i].start
  PROVE  Holds(M, L)
BY DEF Holds, Firm

(* What is firm is in the file, and not where an incomplete slot is to be filled. *)
LEMMA FirmIs ==
  ASSUME NEW L \in Log, Sound(L), NEW k, Firm(L, k)
  PROVE  /\ k \in 1 .. Len(L.file)
         /\ \A i \in InUse(L) : ~L.slot[i].write_complete => L.slot[i].start + 1 # k
         /\ k # EndOf(Last(L)) + 1
<1>1. L.free \in Nat /\ Len(L.file) \in Nat /\ L.free <= Len(L.file) /\ EndOf(Last(L)) \in Nat
  BY LogFields, LastType, SlotFields DEF Sound, Filed
<1>2. ASSUME NEW i \in InUse(L)
      PROVE  /\ L.slot[i].start \in Nat /\ L.free <= L.slot[i].start
             /\ L.slot[i].start < EndOf(Last(L))
  <2>1. L.slot[i] \in Slot  BY LogFields DEF InUse
  <2>2. L.slot[i].start \in Nat /\ L.free <= L.slot[i].start
    BY <2>1, SlotFields, AboveFree DEF Sound
  <2>3. PICK m \in 0 .. Used(L) - 1 : i = At(L, m)  BY LogFields, InUseAt
  <2>4. L.slot[i].start = L.free + m /\ EndOf(Last(L)) = L.free + Used(L)
    BY <2>3, Ages DEF Sound
  <2>5. Used(L) \in 0 .. N - 1 /\ N \in Nat  BY LogFields, UsedIs, LogAssumption
  <2> QED  BY <1>1, <2>2, <2>4, <2>5
<1>3. CASE k \in 1 .. L.free
  <2>1. L.free <= EndOf(Last(L))  BY AboveFree DEF Sound
  <2> QED  BY <1>1, <1>2, <1>3, <2>1
<1>4. CASE \E i \in InUse(L) : L.slot[i].write_complete /\ L.slot[i].start + 1 = k
  <2>1. PICK j \in InUse(L) : L.slot[j].write_complete /\ L.slot[j].start + 1 = k  BY <1>4
  <2>2. Good(L.file, L.slot[j])  BY <2>1 DEF Sound, Filed
  <2>3. L.slot[j].start < Len(L.file)  BY <2>2 DEF Good
  <2>4. k \in 1 .. Len(L.file) /\ k # EndOf(Last(L)) + 1  BY <1>1, <1>2, <2>1, <2>3
  <2>5. ASSUME NEW i \in InUse(L), ~L.slot[i].write_complete, L.slot[i].start + 1 = k
        PROVE  FALSE
    <3>1. L.slot[i].start = L.slot[j].start  BY <1>2, <2>1, <2>5
    <3>2. i = j  BY <3>1, OneStart DEF Sound
    <3> QED  BY <2>1, <2>5, <3>2
  <2> QED  BY <2>4, <2>5
<1> QED  BY <1>3, <1>4 DEF Firm

LEMMA HoldsHandOver ==
  ASSUME NEW L \in Log, Sound(L), NEW M, M = HandOver(L)
  PROVE  Holds(M, L)
<1>1. PICK n \in 0 .. Used(L) :
        /\ \A k \in 0 .. n - 1 : L.slot[At(L, k)].write_complete
        /\ M.index1 = At(L, n) /\ M.index2 = L.index2 /\ M.slot = L.slot /\ M.file = L.file
        /\ M.free = IF n = Used(L) THEN EndOf(Last(L)) ELSE L.slot[At(L, n)].start
  BY HandOverShape DEF Sound
<1>2. Used(L) \in 0 .. N - 1 /\ N \in Nat /\ n \in Nat /\ L.free \in Nat
  BY LogFields, UsedIs, LogAssumption
<1>3. /\ \A k \in 0 .. Used(L) - 1 : L.slot[At(L, k)].start = L.free + k
      /\ EndOf(Last(L)) = L.free + Used(L)
  BY Ages DEF Sound
<1>4. M.free = L.free + n
  <2>1. CASE n = Used(L)  BY <1>1, <1>3, <2>1
  <2>2. CASE n # Used(L)
    <3>1. n \in 0 .. Used(L) - 1  BY <1>2, <2>2
    <3> QED  BY <1>1, <1>3, <2>2, <3>1
  <2> QED  BY <2>1, <2>2
<1>5. \A i \in InUse(L) \ InUse(M) : \E k \in 0 .. n - 1 : i = At(L, k)
  BY <1>1, InUseAdvance
<1>6. ASSUME NEW k, Firm(L, k)  PROVE Firm(M, k)
  <2>1. CASE k \in 1 .. L.free
    <3>1. k \in 1 .. M.free  BY <1>2, <1>4, <2>1
    <3> QED  BY <3>1 DEF Firm
  <2>2. CASE \E i \in InUse(L) : L.slot[i].write_complete /\ L.slot[i].start + 1 = k
    <3>1. PICK i \in InUse(L) : L.slot[i].write_complete /\ L.slot[i].start + 1 = k  BY <2>2
    <3>2. CASE i \in InUse(M)  BY <1>1, <3>1, <3>2 DEF Firm
    <3>3. CASE i \notin InUse(M)
      <4>1. PICK m \in 0 .. n - 1 : i = At(L, m)  BY <1>5, <3>3
      <4>2. m \in 0 .. Used(L) - 1  BY <1>2
      <4>3. k = L.free + m + 1  BY <1>3, <3>1, <4>1, <4>2
      <4>4. k \in 1 .. M.free  BY <1>2, <1>4, <4>3
      <4> QED  BY <4>4 DEF Firm
    <3> QED  BY <3>2, <3>3
  <2> QED  BY <1>6, <2>1, <2>2 DEF Firm
<1> QED  BY <1>1, <1>6 DEF Holds

(* A store where nothing is firm. *)
LEMMA HoldsStore ==
  ASSUME NEW L \in Log, Sound(L), NEW M, NEW a \in Nat, NEW rec \in Record,
         ~Firm(L, a + 1), M.free = L.free, M.index1 = L.index1, M.index2 = L.index2,
         M.slot = L.slot, M.file = Store(L.file, a, rec)
  PROVE  Holds(M, L)
<1>1. InUse(M) = InUse(L)  BY InUseFrame
<1>2. PICK f, g : f = L.file /\ g = M.file  OBVIOUS
<1>3. f \in Seq(Record) /\ Len(f) \in Nat  BY <1>2, LogFields
<1>4. /\ Len(g) = IF a < Len(f) THEN Len(f) ELSE a + 1
      /\ \A i \in 1 .. Len(g) :
           g[i] = IF i = a + 1 THEN rec ELSE IF i <= Len(f) THEN f[i] ELSE Garbage
  <2>1. g = Store(f, a, rec)  BY <1>2
  <2>2. Stored(g, f, a, rec)  BY <1>3, <2>1, StoreStores
  <2> QED  BY <2>2 DEF Stored
<1>5. ASSUME NEW k, Firm(L, k)  PROVE Firm(M, k) /\ M.file[k] = L.file[k]
  <2>1. k \in 1 .. Len(f) /\ k # a + 1  BY <1>2, <1>5, FirmIs
  <2>2. k \in 1 .. Len(g)  BY <1>3, <1>4, <2>1
  <2>3. g[k] = f[k]  BY <1>4, <2>1, <2>2
  <2> QED  BY <1>1, <1>2, <1>5, <2>3 DEF Firm
<1> QED  BY <1>5 DEF Holds

(* The salvage loop fills incomplete slots only. *)
LEMMA DeadRunOpen ==
  ASSUME NEW L \in Log, NEW p, NEW alive
  PROVE  \A i \in DeadRun(L, p, alive) : ~L.slot[i].write_complete
<1> SUFFICES ASSUME NEW i \in DeadRun(L, p, alive)  PROVE ~L.slot[i].write_complete  OBVIOUS
<1>1. /\ i \in L.index1 .. (IF L.index1 <= L.index2 THEN L.index2 ELSE N) - 1
      /\ i \in L.index1 .. i => ~L.slot[i].write_complete
  BY DEF DeadRun
<1>2. L.index1 \in Nat  BY LogFields, IndexType
<1> QED  BY <1>1, <1>2

LEMMA HoldsSalvage ==
  ASSUME NEW L \in Log, Sound(L), NEW dead, dead \subseteq InUse(L),
         \A i \in dead : ~L.slot[i].write_complete, NEW M, M = Salvage(L, dead)
  PROVE  Holds(M, L)
<1>1. InUse(L) \subseteq Index  BY DEF InUse
<1>2. /\ M.free = L.free /\ M.index1 = L.index1 /\ M.index2 = L.index2
      /\ \A i \in Index : Marked(M.slot[i], L.slot[i], i \in dead)
      /\ M.file = Nullified(L.file, {s \in {L.slot[i] : i \in dead} : s.in_phase2})
  BY <1>1, SalvageIs
<1>3. InUse(M) = InUse(L)  BY <1>2, InUseFrame
<1>4. PICK S : S = {s \in {L.slot[i] : i \in dead} : s.in_phase2}  OBVIOUS
<1>5. PICK f, g : f = L.file /\ g = M.file  OBVIOUS
<1>6. S \subseteq Slot /\ \A s \in S : \E i \in dead : s = L.slot[i]
  BY <1>1, <1>4, LogFields
<1>7. PICK b \in Nat : \A s \in S : s.start < b
  <2>1. PICK h : h = [i \in Index |-> L.slot[i].start]  OBVIOUS
  <2>2. h \in [Index -> Nat]  BY <2>1, LogFields, SlotFields
  <2>3. PICK b \in Nat : \A i \in Index : h[i] < b  BY <2>2, SlotsBounded
  <2> QED  BY <1>1, <1>6, <2>1, <2>3
<1>8. f \in Seq(Record) /\ g = Nullified(f, S)  BY <1>2, <1>4, <1>5, LogFields
<1>9. /\ g \in Seq(Record) /\ Len(f) <= Len(g)
      /\ \A i \in 1 .. Len(g) : (\A s \in S : s.start + 1 # i) =>
           g[i] = IF i <= Len(f) THEN f[i] ELSE Garbage
  BY <1>6, <1>7, <1>8, NullifiedIs
<1>10. ASSUME NEW k, Firm(L, k)  PROVE Firm(M, k) /\ M.file[k] = L.file[k]
  <2>1. /\ k \in 1 .. Len(f)
        /\ \A i \in InUse(L) : ~L.slot[i].write_complete => L.slot[i].start + 1 # k
    BY <1>5, <1>10, FirmIs
  <2>2. \A s \in S : s.start + 1 # k  BY <1>6, <2>1
  <2>3. k \in 1 .. Len(g) /\ k <= Len(f)  BY <1>8, <1>9, <2>1
  <2>4. g[k] = f[k]  BY <1>9, <2>2, <2>3
  <2>5. Firm(M, k)
    <3>1. CASE k \in 1 .. L.free  BY <1>2, <3>1 DEF Firm
    <3>2. CASE \E i \in InUse(L) : L.slot[i].write_complete /\ L.slot[i].start + 1 = k
      <4>1. PICK i \in InUse(L) : L.slot[i].write_complete /\ L.slot[i].start + 1 = k  BY <3>2
      <4>2. Marked(M.slot[i], L.slot[i], i \in dead)  BY <1>1, <1>2
      <4>3. M.slot[i].write_complete /\ M.slot[i].start + 1 = k  BY <4>1, <4>2 DEF Marked, Alike
      <4> QED  BY <1>3, <4>3 DEF Firm
    <3> QED  BY <1>10, <3>1, <3>2 DEF Firm
  <2> QED  BY <1>5, <2>4, <2>5
<1> QED  BY <1>10 DEF Holds

LEMMA HoldsCleanup ==
  ASSUME NEW L \in Log, Sound(L), NEW p, NEW c, NEW alive, NEW M, M = Cleanup(L, p, c, alive)
  PROVE  Holds(M, L)
<1>1. CASE c
  <2>1. PICK E : E = DeadRun(L, p, alive)  OBVIOUS
  <2>2. PICK K : K = Salvage(L, E)  OBVIOUS
  <2>3. M = HandOver(K)  BY <1>1, <2>1, <2>2, Zenon DEF Cleanup, SalvageDead
  <2>4. E \subseteq InUse(L) /\ E \subseteq Index /\ \A i \in E : ~L.slot[i].write_complete
    BY <2>1, DeadRunIs, DeadRunOpen DEF InUse
  <2>5. K \in Log /\ Sound(K)  BY <2>2, <2>4, SalvageIs, SalvageSound
  <2>6. Holds(K, L)  BY <2>2, <2>4, HoldsSalvage
  <2>7. Holds(M, K)  BY <2>3, <2>5, HoldsHandOver
  <2> QED  BY <2>6, <2>7, HoldsTrans
<1>2. CASE ~c
  <2>1. M = HandOver(L)  BY <1>2 DEF Cleanup
  <2> QED  BY <2>1, HoldsHandOver
<1> QED  BY <1>1, <1>2

(* What was filled is firm when it is complete. *)
LEMMA HoldsWriteComplete ==
  ASSUME NEW L \in Log, Sound(L), NEW i \in InUse(L), Good(L.file, L.slot[i]),
         NEW p, NEW c, NEW alive, NEW M, M = WriteComplete(L, i, p, c, alive),
         NEW k, k = L.slot[i].start + 1
  PROVE  Holds(M, L) /\ (L.file[k].jnl_seqno # 0 => Firm(M, k) /\ M.file[k] = L.file[k])
<1>1. PICK K : K = Done(L, i)  OBVIOUS
<1>2. /\ K \in Log /\ Sound(K) /\ InUse(K) = InUse(L) /\ K.free = L.free /\ K.file = L.file
      /\ \A j \in Index : /\ Alike(K.slot[j], L.slot[j])
                          /\ K.slot[j].write_complete <=> L.slot[j].write_complete \/ j = i
  BY <1>1, DoneSound
<1>3. InUse(L) \subseteq Index  BY DEF InUse
<1>4. \A j \in InUse(L) : /\ K.slot[j].start = L.slot[j].start
                          /\ K.slot[j].write_complete <=> L.slot[j].write_complete \/ j = i
  BY <1>2, <1>3 DEF Alike
<1>5. Holds(K, L)  BY <1>2, <1>4, HoldsFrame
<1>6. Firm(K, k)  BY <1>2, <1>4 DEF Firm
<1>7. Holds(M, K)
  <2>1. CASE i \in {0, N \div 2}
    <3>1. M = Cleanup(K, p, c, alive)  BY <1>1, <2>1 DEF WriteComplete, Done
    <3> QED  BY <1>2, <3>1, HoldsCleanup
  <2>2. CASE i \notin {0, N \div 2}
    <3>1. M = K  BY <1>1, <2>2 DEF WriteComplete, Done
    <3> QED  BY <3>1, HoldsSame
  <2> QED  BY <2>1, <2>2
<1>8. K.file[k].jnl_seqno # 0 => Firm(M, k) /\ M.file[k] = K.file[k]  BY <1>6, <1>7 DEF Holds
<1> QED  BY <1>2, <1>5, <1>7, <1>8, HoldsTrans

LEMMA HoldsReserve ==
  ASSUME NEW L \in Log, NEW s \in Slot, NEW M, M = Reserve(L, s)
  PROVE  Holds(M, L)
<1>1. /\ M.free = L.free /\ M.index1 = L.index1 /\ M.index2 = L.index2 /\ M.file = L.file
      /\ \A i \in Index : i # L.index2 => M.slot[i] = L.slot[i]
  BY ReserveIs
<1>2. InUse(M) = InUse(L)  BY <1>1, InUseFrame
<1>3. InUse(L) \subseteq Index /\ L.index2 \notin InUse(L)  BY InUseEnds
<1> QED  BY <1>1, <1>2, <1>3, HoldsFrame

LEMMA HoldsPublish ==
  ASSUME NEW L \in Log, ~Full(L), NEW M, M = Publish(L)
  PROVE  Holds(M, L)
<1>1. /\ M.free = L.free /\ M.file = L.file /\ M.slot = L.slot /\ M.index1 = L.index1
      /\ M.index2 = INCR(L.index2)
  BY PublishIs
<1>2. InUse(M) = InUse(L) \cup {L.index2}  BY <1>1, InUsePublish
<1> QED  BY <1>1, <1>2, HoldsFrame

(* What is withdrawn is incomplete, or an INCTN record. *)
LEMMA HoldsWithdraw ==
  ASSUME NEW L \in Log, Sound(L), L.index1 # L.index2,
         ~Last(L).write_complete \/ Last(L).jnl_seqno = 0, NEW M, M = Withdraw(L)
  PROVE  Holds(M, L)
<1>1. /\ M.free = L.free /\ M.file = L.file /\ M.index1 = L.index1 /\ M.index2 = DECR(L.index2)
      /\ M.slot = L.slot
  BY WithdrawIs
<1>2. InUse(M) = InUse(L) \ {DECR(L.index2)}  BY <1>1, InUseWithdraw
<1>3. ASSUME NEW k, Firm(L, k), L.file[k].jnl_seqno # 0  PROVE Firm(M, k)
  <2>1. CASE k \in 1 .. L.free  BY <1>1, <2>1 DEF Firm
  <2>2. CASE \E i \in InUse(L) : L.slot[i].write_complete /\ L.slot[i].start + 1 = k
    <3>1. PICK i \in InUse(L) : L.slot[i].write_complete /\ L.slot[i].start + 1 = k  BY <2>2
    <3>2. L.file[k].jnl_seqno = L.slot[i].jnl_seqno  BY <3>1 DEF Sound, Filed, Good
    <3>3. i # DECR(L.index2)  BY <1>3, <3>1, <3>2 DEF Last
    <3> QED  BY <1>1, <1>2, <3>1, <3>3 DEF Firm
  <2> QED  BY <1>3, <2>1, <2>2 DEF Firm
<1> QED  BY <1>1, <1>3 DEF Holds

-----------------------------------------------------------------------------
(* No step takes back what is firm in a journal *)

LEMMA HoldGrab ==
  ASSUME TypeInv, JnlInv, NEW p \in Proc, NEW x \in Region, x = reg(p), GrabCrit(p)
  PROVE  Holds(jb'[x], jb[x])
<1>1. PICK L, d, M : L = jb[x] /\ d = db[x] /\ M = jb'[x]  OBVIOUS
<1>2. L \in Log /\ d \in DB /\ Sound(L)  BY <1>1 DEF TypeInv, TypeOK, JnlInv, RegionInv
<1>3. CASE jb' = jb  BY <1>3, HoldsSame
<1>4. CASE crit[x] \in Proc \ Alive /\ jb' = [jb EXCEPT ![x] = CleanDeadJnl(x, crit[x])]
  <2>1. PICK h : h = crit[x]  OBVIOUS
  <2>2. h \in Proc /\ pc[h] = "dead"  BY <1>4, <2>1 DEF Alive
  <2>3. M = CleanDeadJnl(x, h)  BY <1>1, <1>4, <2>1 DEF TypeInv, TypeOK
  <2>4. CASE M = L  BY <1>1, <2>4, HoldsSame
  <2>5. CASE M = Realign(L)
    <3>1. M.free = L.free /\ M.file = L.file /\ M.index1 = L.index1 /\ M.index2 = L.index2
          /\ M.slot = L.slot
      BY <1>2, <2>5, RealignIs
    <3>2. InUse(M) = InUse(L)  BY <3>1, InUseFrame
    <3> QED  BY <1>1, <3>1, <3>2, HoldsFrame
  <2>6. CASE M = Withdraw(L) /\ M # L /\ M # Realign(L)
    <3>1. /\ d.early_tn # d.curr_tn /\ L.index1 # L.index2 /\ Last(L).curr_tn = d.curr_tn
      BY <1>1, <2>3, <2>6 DEF CleanDeadJnl, InCommit, Underway
    <3>2. Spot(h, x) = "dead"  BY <2>2, DeadSpot
    <3>3. Stands("dead", L, d, h, token[h], idx[h][x], jnl_seqno)
      BY <1>1, <2>1, <2>2, <3>2 DEF JnlInv, PlaceInv
    <3>4. d.curr_tn \in Nat  BY <1>2, DBFields
    <3>5. Calm(L, d) => FALSE  BY <3>1, <3>4 DEF Calm
    <3>6. Taking(L, d, h) => Last(L).jnl_seqno = 0
      <4>1. PICK s, t : s = L.slot[L.index2] /\ t = Last(L)  OBVIOUS
      <4>2. ASSUME Taking(L, d, h)  PROVE Succeeds(t, s) /\ s.curr_tn = t.curr_tn
        BY <3>1, <4>1, <4>2 DEF Taking
      <4>3. t.curr_tn \in Nat  BY <3>1, <3>4, <4>1
      <4> QED  BY <4>1, <4>2, <4>3 DEF Succeeds
    <3>7. Redo(L, d) => Last(L).jnl_seqno = 0  BY DEF Redo
    <3>8. ~Last(L).write_complete \/ Last(L).jnl_seqno = 0
      BY <3>3, <3>5, <3>6, <3>7 DEF Stands, Near, Logged
    <3> QED  BY <1>1, <1>2, <2>6, <3>1, <3>8, HoldsWithdraw
  <2> QED  BY <1>1, <2>3, <2>4, <2>5, <2>6 DEF CleanDeadJnl
<1> QED  BY <1>3, <1>4 DEF GrabCrit

LEMMA HoldRecover ==
  ASSUME TypeInv, TypeInv', JnlInv, NEW p \in Proc, NEW x \in Region, x = reg(p), Recover(p)
  PROVE  Holds(jb'[x], jb[x])
<1>1. PICK L, M, d, c : L = jb[x] /\ M = jb'[x] /\ d = db[x] /\ c = TRUE  BY Zenon
<1>2. L \in Log /\ M \in Log /\ d \in DB /\ jb \in [Region -> Log]
  BY <1>1 DEF TypeInv, TypeOK
<1>3. pc[p] = "recover"  BY DEF Recover
<1>4. Sound(L) /\ Stands("recover", L, d, p, token[p], idx[p][x], jnl_seqno)
  BY <1>1, <1>3, InsideKnows DEF Here, Inside
<1>5. Near(L, d)  BY <1>4 DEF Stands
<1>6. PICK K : K = Cleanup(L, p, c, Alive)  OBVIOUS
<1>7. K = Cleanup(L, p, TRUE, Alive)  BY <1>1, <1>6
<1>8. K \in Log /\ Sound(K) /\ Near(K, d)  BY <1>2, <1>4, <1>5, <1>7, CleanupCalm
<1>9. Holds(K, L)  BY <1>2, <1>4, <1>6, HoldsCleanup
<1>10. CASE Full(K)
  <2>1. M = K  BY <1>1, <1>2, <1>7, <1>10 DEF Recover
  <2> QED  BY <1>1, <1>9, <2>1
<1>11. CASE ~Full(K)
  <2>1. PICK a, s, rec, f : /\ a = K.rsrv /\ s = JnlSlot(x, p, 0, FALSE) /\ rec = Inctn(x, p)
                            /\ f = Store(K.file, a, rec)
    OBVIOUS
  <2>2. PICK F : F = [K EXCEPT !.file = f]  OBVIOUS
  <2>3. M = Reserve(F, s)
    <3>1. jb' = [jb EXCEPT ![x] = Reserve(F, s)]  BY <1>1, <1>7, <1>11, <2>1, <2>2 DEF Recover
    <3> QED  BY <1>1, <1>2, <3>1
  <2>4. s \in Slot /\ rec \in Record  BY <2>1, SlotTypes
  <2>5. K.file \in Seq(Record) /\ a \in Nat  BY <1>8, <2>1, LogFields
  <2>6. f \in Seq(Record)  BY <2>1, <2>4, <2>5, StoreIs
  <2>7. /\ F \in Log /\ F.free = K.free /\ F.index1 = K.index1 /\ F.index2 = K.index2
        /\ F.slot = K.slot /\ F.file = f
    BY <1>8, <2>2, <2>6, FileIs
  <2>8. a = EndOf(Last(K))  BY <1>8, <2>1 DEF Near, Calm, Redo, Base, Level
  <2>9. ~Firm(K, a + 1)  BY <1>8, <2>8, FirmIs
  <2>10. Holds(F, K)  BY <1>8, <2>1, <2>4, <2>5, <2>7, <2>9, HoldsStore
  <2>11. Holds(M, F)  BY <2>3, <2>4, <2>7, HoldsReserve
  <2> QED  BY <1>1, <1>9, <2>10, <2>11, HoldsTrans
<1> QED  BY <1>10, <1>11

LEMMA HoldRecoverWritten ==
  ASSUME TypeInv, JnlInv, NEW p \in Proc, NEW x \in Region, x = reg(p), RecoverWritten(p)
  PROVE  Holds(jb'[x], jb[x])
<1>1. PICK L, M, d, i, K, c : /\ L = jb[x] /\ M = jb'[x] /\ d = db[x] /\ i = idx[p][x]
                              /\ K = Publish(L) /\ c = TRUE
  BY Zenon
<1>2. L \in Log /\ jb \in [Region -> Log]  BY <1>1 DEF TypeInv, TypeOK
<1>3. pc[p] = "recoverb" /\ M = WriteComplete(K, i, p, c, Alive)
  <2>1. jb' = [jb EXCEPT ![x] = WriteComplete(K, i, p, c, Alive)]  BY <1>1 DEF RecoverWritten
  <2> QED  BY <1>1, <1>2, <2>1 DEF RecoverWritten
<1>4. Sound(L) /\ Stands("recoverb", L, d, p, token[p], i, jnl_seqno)
  BY <1>1, <1>3, InsideKnows DEF Here, Inside
<1>5. Taking(L, d, p) /\ i = L.index2 /\ Good(L.file, L.slot[i])  BY <1>4 DEF Stands
<1>6. /\ K \in Log /\ Sound(K) /\ InUse(K) = InUse(L) \cup {L.index2}
      /\ K.file = L.file /\ K.slot = L.slot
  BY <1>1, <1>2, <1>4, <1>5, PublishIs, PublishTaking
<1>7. Holds(K, L)  BY <1>1, <1>2, <1>5, HoldsPublish DEF Taking
<1>8. i \in InUse(K) /\ Good(K.file, K.slot[i])  BY <1>5, <1>6
<1>9. Holds(M, K)  BY <1>3, <1>6, <1>8, HoldsWriteComplete
<1> QED  BY <1>1, <1>7, <1>9, HoldsTrans

LEMMA HoldLogs ==
  ASSUME TypeInv, TypeInv', JnlInv, NEW p \in Proc, NEW x \in Region, x = reg(p),
         ReserveJnl(p) \/ PublishJnl(p) \/ UndoDB(p)
  PROVE  Holds(jb'[x], jb[x])
<1>1. PICK L, M, d, c : L = jb[x] /\ M = jb'[x] /\ d = db[x] /\ c = TRUE  BY Zenon
<1>2. L \in Log /\ Sound(L) /\ jb \in [Region -> Log]
  BY <1>1 DEF TypeInv, TypeOK, JnlInv, RegionInv
<1>3. CASE ReserveJnl(p)
  <2>1. CASE Full(L)
    <3>1. M = Cleanup(L, p, c, Alive)  BY <1>1, <1>2, <1>3, <2>1 DEF ReserveJnl
    <3> QED  BY <1>1, <1>2, <3>1, HoldsCleanup
  <2>2. CASE ~Full(L)
    <3>1. PICK s : s = JnlSlot(x, p, token[p], TRUE)  OBVIOUS
    <3>2. M = Reserve(L, s)  BY <1>1, <1>2, <1>3, <2>2, <3>1 DEF ReserveJnl
    <3>3. token[p] \in Nat  BY DEF TypeInv, TypeOK
    <3>4. s \in Slot  BY <3>1, <3>3, SlotTypes
    <3> QED  BY <1>1, <1>2, <3>2, <3>4, HoldsReserve
  <2> QED  BY <2>1, <2>2
<1>4. CASE PublishJnl(p)
  <2>1. pc[p] = "cmt06b" /\ M = Publish(L)  BY <1>1, <1>2, <1>4 DEF PublishJnl
  <2>2. Stands("taking", L, d, p, token[p], idx[p][x], jnl_seqno)
    BY <1>1, <2>1, InsideKnows DEF Here, Inside
  <2>3. ~Full(L)  BY <2>2 DEF Stands, Taking
  <2> QED  BY <1>1, <1>2, <2>1, <2>3, HoldsPublish
<1>5. CASE UndoDB(p)
  <2>1. pc[p] = "undodb" /\ (M = L \/ (M = Withdraw(L) /\ L.index1 # L.index2))
    BY <1>1, <1>2, <1>5 DEF UndoDB
  <2>2. Stands("logged", L, d, p, token[p], idx[p][x], jnl_seqno)
    BY <1>1, <2>1, InsideKnows DEF Here, Ahead, Inside
  <2>3. ~Last(L).write_complete  BY <2>2 DEF Stands, Logged
  <2> QED  BY <1>1, <1>2, <2>1, <2>3, HoldsSame, HoldsWithdraw
<1> QED  BY <1>3, <1>4, <1>5

(* ... and CMT16 adds the record of p. *)
LEMMA HoldPhase2 ==
  ASSUME TypeInv, TypeInv', JnlInv, NEW p \in Proc, NEW x \in Region, x = reg(p),
         WriteJnl(p) \/ JnlWriteComplete(p)
  PROVE  /\ Holds(jb'[x], jb[x])
         /\ JnlWriteComplete(p) /\ token[p] # 0 =>
              \E k \in 1 .. Len(jb[x].file) : /\ Firm(jb'[x], k) /\ jb'[x].file[k] = jb[x].file[k]
                                              /\ jb[x].file[k].jnl_seqno = token[p]
<1>1. PICK L, M, i : L = jb[x] /\ M = jb'[x] /\ i = idx[p][x]  OBVIOUS
<1>2. L \in Log /\ M \in Log /\ jb \in [Region -> Log] /\ i \in Index
  BY <1>1 DEF TypeInv, TypeOK
<1>3. pc[p] \in {"cmt16", "cmt16c"}  BY DEF WriteJnl, JnlWriteComplete
<1>4. Sound(L) /\ Entry(Here(pc[p]), L, p, token[p], i)
  BY <1>1, <1>3, OutsideKnows DEF Here, Ahead, Inside
<1>5. i \in InUse(L) /\ L.slot[i].jnl_seqno = token[p] /\ ~L.slot[i].write_complete
  BY <1>3, <1>4 DEF Entry, Entries, Here, Ahead
<1>6. CASE WriteJnl(p)
  <2>1. PICK a, rec, f : /\ a = L.slot[i].start /\ rec = UpdateRecord(L, p, i)
                         /\ f = Store(L.file, a, rec)
    OBVIOUS
  <2>2. rec \in Record  BY <1>2, <2>1, SlotTypes
  <2>3. M = [L EXCEPT !.file = f]
    <3>1. jb' = [jb EXCEPT ![x].file = f]  BY <1>1, <1>6, <2>1 DEF WriteJnl
    <3> QED  BY <1>1, <1>2, <3>1
  <2>4. a \in Nat /\ L.file \in Seq(Record)  BY <1>2, <2>1, LogFields, SlotFields
  <2>5. f \in Seq(Record)  BY <2>1, <2>2, <2>4, StoreIs
  <2>6. /\ M.free = L.free /\ M.index1 = L.index1 /\ M.index2 = L.index2 /\ M.slot = L.slot
        /\ M.file = f
    BY <1>2, <2>3, <2>5, FileIs
  <2>7. ~Firm(L, a + 1)  BY <1>2, <1>4, <1>5, <2>1, FirmIs
  <2>8. Holds(M, L)  BY <1>2, <1>4, <2>1, <2>2, <2>4, <2>6, <2>7, HoldsStore
  <2>9. ~JnlWriteComplete(p)  BY <1>6 DEF WriteJnl, JnlWriteComplete
  <2> QED  BY <1>1, <2>8, <2>9
<1>7. CASE JnlWriteComplete(p)
  <2>1. PICK c : c = FALSE  BY Zenon
  <2>2. pc[p] = "cmt16c" /\ M = WriteComplete(L, i, p, c, Alive)
    BY <1>1, <1>2, <1>7, <2>1 DEF JnlWriteComplete
  <2>3. Good(L.file, L.slot[i])  BY <1>4, <2>2 DEF Entry, Here
  <2>4. PICK k : k = L.slot[i].start + 1  OBVIOUS
  <2>5. Holds(M, L) /\ (L.file[k].jnl_seqno # 0 => Firm(M, k) /\ M.file[k] = L.file[k])
    BY <1>2, <1>4, <1>5, <2>2, <2>3, <2>4, HoldsWriteComplete
  <2>6. L.slot[i].start \in Nat /\ Len(L.file) \in Nat  BY <1>2, LogFields, SlotFields
  <2>7. k \in 1 .. Len(L.file) /\ L.file[k].jnl_seqno = token[p]
    BY <1>5, <2>3, <2>4, <2>6 DEF Good
  <2> QED  BY <1>1, <2>5, <2>7
<1> QED  BY <1>6, <1>7

LEMMA HoldsStep ==
  ASSUME TypeInv, TypeInv', JnlInv, [Next]_vars
  PROVE  \A r \in Region : Holds(jb'[r], jb[r])
<1>1. ASSUME jb' = jb  PROVE \A r \in Region : Holds(jb'[r], jb[r])  BY <1>1, HoldsSame
<1>2. ASSUME NEW p \in Proc,
             \/ GrabCrit(p) \/ Recover(p) \/ RecoverWritten(p) \/ ReserveJnl(p) \/ PublishJnl(p)
             \/ UndoDB(p) \/ WriteJnl(p) \/ JnlWriteComplete(p)
      PROVE  \A r \in Region : Holds(jb'[r], jb[r])
  <2>1. PICK x : x = reg(p)  OBVIOUS
  <2>2. Local(p, x)  BY <1>2, <2>1, LocalIs
  <2>3. ASSUME x \in Region  PROVE Holds(jb'[x], jb[x])
    BY <1>2, <2>1, <2>3, HoldGrab, HoldRecover, HoldRecoverWritten, HoldLogs, HoldPhase2
  <2>4. \A r \in Region : r # x => jb'[r] = jb[r]  BY <2>2 DEF Local
  <2> QED  BY <2>3, <2>4, HoldsSame
<1>3. ASSUME NEW x \in Region, JnlCleanup(x)  PROVE \A r \in Region : Holds(jb'[r], jb[r])
  <2>1. PICK L, M, c : L = jb[x] /\ M = jb'[x] /\ c = FALSE  BY Zenon
  <2>2. L \in Log /\ Sound(L) /\ jb \in [Region -> Log]
    BY <2>1 DEF TypeInv, TypeOK, JnlInv, RegionInv
  <2>3. jb' = [jb EXCEPT ![x] = Cleanup(L, NoProc, c, Alive)]  BY <1>3, <2>1 DEF JnlCleanup
  <2>4. M = Cleanup(L, NoProc, c, Alive) /\ \A r \in Region : r # x => jb'[r] = jb[r]
    BY <2>1, <2>2, <2>3
  <2>5. Holds(jb'[x], jb[x])  BY <2>1, <2>2, <2>4, HoldsCleanup
  <2> QED  BY <2>4, <2>5, HoldsSame
<1>4. ASSUME NEW p \in Proc,
             \/ \E rs \in Updates : Begin(p, rs)
             \/ RecoverDone(p)
             \/ EarlyTn(p) \/ UpdateUnderway(p) \/ SetRegSeqno(p) \/ IncrementCurrTn(p)
             \/ RelCrit(p) \/ Finish(p)
             \/ GrabLock(p) \/ ReservePool(p) \/ PublishPool(p) \/ SetJnlSeqno(p) \/ RelLock(p)
             \/ WritePool(p) \/ PoolWriteComplete(p) \/ UndoPool(p) \/ UndoRel(p) \/ Fail(p) \/ Kill(p)
      PROVE  jb' = jb
  BY <1>4 DEF Begin, RecoverDone, EarlyTn, UpdateUnderway, SetRegSeqno, IncrementCurrTn, RelCrit, Finish,
              GrabLock, ReservePool, PublishPool, SetJnlSeqno, RelLock, WritePool,
              PoolWriteComplete, UndoPool, UndoRel, Fail, Kill
<1>5. ASSUME Source \/ UNCHANGED vars  PROVE jb' = jb
  BY <1>5 DEF Source, SourceRead, SourceSalvage, vars
<1> QED  BY <1>1, <1>2, <1>3, <1>4, <1>5 DEF Next, Step

-----------------------------------------------------------------------------
(* What is in the pool is in the journals *)

(* The journal has the update of seqno s, for good. *)
Filled(L, s) ==
  \E k \in 1 .. Len(L.file) : Firm(L, k) /\ L.file[k].kind = "update" /\ L.file[k].jnl_seqno = s

(* The regions for which a process in phase 2 is past CMT16. *)
Past(l, U, R) ==
  IF l \in {"cmt16", "cmt16c"} THEN U \ R ELSE IF l \in {"cmt17", "cmt17c"} THEN U ELSE {}

Backed(rec) ==
  rec.kind = "update" => \A r \in txn[rec.jnl_seqno].upd : Filled(jb[r], rec.jnl_seqno)

BackInv ==
  /\ \A p \in Proc : \A r \in Past(pc[p], upd[p], rem[p]) : Filled(jb[r], token[p])
  /\ \A k \in 1 .. Len(pool.file) : Backed(pool.file[k])
  /\ \A k \in 1 .. Len(sent) :
       k \in 1 .. jnl_seqno - 1 /\ sent[k].jnl_seqno = k /\ Backed(sent[k])

LEMMA FilledHolds ==
  ASSUME NEW L, NEW M \in Log, Sound(M), Holds(M, L), NEW s, s # 0, Filled(L, s)
  PROVE  Filled(M, s)
<1>1. PICK k \in 1 .. Len(L.file) :
        Firm(L, k) /\ L.file[k].kind = "update" /\ L.file[k].jnl_seqno = s
  BY DEF Filled
<1>2. Firm(M, k) /\ M.file[k] = L.file[k]  BY <1>1 DEF Holds
<1>3. k \in 1 .. Len(M.file)  BY <1>2, FirmIs
<1> QED  BY <1>1, <1>2, <1>3 DEF Filled

LEMMA FilledLater ==
  ASSUME TypeInv, TypeInv', JnlInv, JnlInv', [Next]_vars, NEW r \in Region, NEW s, s # 0,
         Filled(jb[r], s)
  PROVE  Filled(jb'[r], s)
<1>1. jb'[r] \in Log /\ Sound(jb'[r])  BY DEF TypeInv, TypeOK, JnlInv, RegionInv
<1>2. Holds(jb'[r], jb[r])  BY HoldsStep
<1> QED  BY <1>1, <1>2, FilledHolds

LEMMA BackedLater ==
  ASSUME TypeInv, TypeInv', TxnInv, JnlInv, JnlInv', [Next]_vars, History,
         NEW rec, rec.kind = "update" => rec.jnl_seqno \in 1 .. jnl_seqno - 1, Backed(rec)
  PROVE  Backed(rec)'
<1> SUFFICES ASSUME rec.kind = "update"
             PROVE  \A r \in txn'[rec.jnl_seqno].upd : Filled(jb'[r], rec.jnl_seqno)
  BY DEF Backed
<1>1. PICK s : s = rec.jnl_seqno  OBVIOUS
<1>2. s \in 1 .. jnl_seqno - 1 /\ txn'[s] = txn[s]  BY <1>1 DEF History
<1>3. txn[s].upd \subseteq Region
  <2>1. txn \in Seq([by : Proc, upd : SUBSET Region]) /\ jnl_seqno \in Nat
    BY DEF TypeInv, TypeOK
  <2>2. Len(txn) \in Nat /\ Len(txn) + 1 = jnl_seqno  BY <2>1 DEF TxnInv
  <2>3. s \in 1 .. Len(txn)  BY <1>2, <2>2
  <2>4. txn[s] \in [by : Proc, upd : SUBSET Region]  BY <2>1, <2>3, ElementOfSeq
  <2> QED  BY <2>4
<1>4. \A r \in txn[s].upd : Filled(jb[r], s)  BY <1>1 DEF Backed
<1>5. s # 0  BY <1>2
<1> QED  BY <1>1, <1>2, <1>3, <1>4, <1>5, FilledLater

(* A process gets past CMT16 region by region. *)
LEMMA PastStep ==
  ASSUME TypeInv, TokenInv, NEW p \in Proc,
         (\E rs \in Updates : Begin(p, rs)) \/ Step(p) \/ Fail(p) \/ Kill(p),
         NEW r \in Past(pc'[p], upd'[p], rem'[p])
  PROVE  /\ token'[p] = token[p] /\ r \in upd[p]
         /\ r \in Past(pc[p], upd[p], rem[p]) \/ (JnlWriteComplete(p) /\ r = reg(p))
<1>0. /\ pc \in [Proc -> PC] /\ rem \in [Proc -> SUBSET Region] /\ upd \in [Proc -> SUBSET Region]
      /\ rem[p] \subseteq upd[p]
  BY DEF TypeInv, TypeOK
<1>1. pc'[p] \in Phase2  BY DEF Past, Phase2
<1>2. ~ ((\E rs \in Updates : Begin(p, rs)) \/ Kill(p) \/ Fail(p))
  BY <1>0, <1>1 DEF Begin, Kill, Fail, Goto, Phase2
<1>3. ~ (\/ GrabLock(p) \/ ReservePool(p) \/ PublishPool(p) \/ PoolWriteComplete(p)
         \/ UndoPool(p) \/ UndoRel(p) \/ SetJnlSeqno(p) \/ UpdateUnderway(p) \/ SetRegSeqno(p)
         \/ IncrementCurrTn(p))
  BY <1>0, <1>1 DEF GrabLock, ReservePool, PublishPool, PoolWriteComplete, UndoPool, UndoRel,
     SetJnlSeqno, UpdateUnderway, SetRegSeqno, IncrementCurrTn, Goto, Phase2
<1>4. ~ (\/ GrabCrit(p) \/ Recover(p) \/ RecoverWritten(p) \/ RecoverDone(p) \/ EarlyTn(p)
         \/ ReserveJnl(p) \/ PublishJnl(p) \/ UndoDB(p) \/ RelCrit(p) \/ Finish(p))
  BY <1>0, <1>1 DEF GrabCrit, AfterGrab, Recover, RecoverWritten, RecoverDone, EarlyTn,
     ReserveJnl, PublishJnl, UndoDB, RelCrit, Finish, Loop, Goto, Phase2
<1>5. CASE RelLock(p)
  <2>1. pc[p] = "cmt15" /\ pc'[p] = "cmt16" /\ upd' = upd /\ rem' = rem
    BY <1>0, <1>5 DEF RelLock, Goto
  <2>2. rem[p] = upd[p]  BY <2>1 DEF TokenInv, Whole
  <2>3. Past(pc'[p], upd'[p], rem'[p]) = {}  BY <2>1, <2>2 DEF Past
  <2> QED  BY <2>3
<1>6. CASE WriteJnl(p)
  <2>1. pc[p] = "cmt16" /\ pc'[p] = "cmt16c" /\ upd' = upd /\ rem' = rem /\ token' = token
    BY <1>0, <1>6 DEF WriteJnl, Goto
  <2> QED  BY <2>1 DEF Past
<1>7. CASE WritePool(p)
  <2>1. pc[p] = "cmt17" /\ pc'[p] = "cmt17c" /\ upd' = upd /\ rem' = rem /\ token' = token
    BY <1>0, <1>7 DEF WritePool, Goto
  <2> QED  BY <2>1 DEF Past
<1>8. CASE JnlWriteComplete(p)
  <2>1. pc[p] = "cmt16c" /\ upd' = upd /\ token' = token /\ Loop(p, "cmt16", "cmt17")
    BY <1>8 DEF JnlWriteComplete
  <2>2. \/ pc'[p] = "cmt16" /\ rem'[p] = rem[p] \ {reg(p)}
        \/ pc'[p] = "cmt17" /\ rem[p] \ {reg(p)} = {}
    BY <2>1, LoopIs
  <2> QED  BY <1>8, <2>1, <2>2 DEF Past
<1> QED  BY <1>2, <1>3, <1>4, <1>5, <1>6, <1>7, <1>8 DEF Step

(* CMT16 marks complete what p itself has written. *)
LEMMA FilledByMe ==
  ASSUME TypeInv, TypeInv', JnlInv, JnlInv', RecInv, NEW p \in Proc, JnlWriteComplete(p),
         NEW x, x = reg(p), NEW t, t = token[p]
  PROVE  x \in Region /\ Filled(jb'[x], t)
<1>1. pc[p] = "cmt16c"  BY DEF JnlWriteComplete
<1>2. x \in Region  BY <1>1, HereIs
<1>6. t \in 1 .. Len(txn) /\ txn[t].by = p  BY <1>1 DEF RecInv, TxnInv, Committed, Phase2
<1>7. t # 0  BY <1>6
<1>3. PICK k \in 1 .. Len(jb[x].file) : /\ Firm(jb'[x], k) /\ jb'[x].file[k] = jb[x].file[k]
                                        /\ jb[x].file[k].jnl_seqno = t
  BY <1>2, <1>7, HoldPhase2
<1>4. PICK rec : rec = jb[x].file[k]  OBVIOUS
<1>5. RecOk(x, rec)  BY <1>2, <1>4 DEF RecInv, RegionOk, FileOk
<1>8. rec # Garbage /\ rec.jnl_seqno # 0  BY <1>3, <1>4, <1>7 DEF Garbage
<1>9. rec.kind = "update"
  <2>1. /\ rec.kind \in {"update", "null"} /\ Names(x, t, rec.by)
        /\ rec.kind = "null" => pc[rec.by] = "dead"
    BY <1>3, <1>4, <1>5, <1>8 DEF RecOk
  <2>2. rec.by = p  BY <1>6, <2>1 DEF Names
  <2> QED  BY <1>1, <2>1, <2>2
<1>10. jb'[x] \in Log /\ Sound(jb'[x])  BY <1>2 DEF TypeInv, TypeOK, JnlInv, RegionInv
<1>11. k \in 1 .. Len(jb'[x].file)  BY <1>3, <1>10, FirmIs
<1> QED  BY <1>2, <1>3, <1>4, <1>9, <1>11 DEF Filled

LEMMA PastLater ==
  ASSUME TypeInv, TypeInv', TokenInv, JnlInv, JnlInv', RecInv, BackInv, [Next]_vars,
         NEW q \in Proc, NEW r \in Past(pc'[q], upd'[q], rem'[q])
  PROVE  Filled(jb'[r], token'[q])
<1>0. upd[q] \subseteq Region  BY DEF TypeInv, TypeOK
<1>1. ASSUME r \in Past(pc[q], upd[q], rem[q]), token'[q] = token[q]
      PROVE  Filled(jb'[r], token'[q])
  <2>1. r \in Region  BY <1>0, <1>1 DEF Past
  <2>2. Filled(jb[r], token[q])  BY <1>1 DEF BackInv
  <2>3. PICK t : t = token[q]  OBVIOUS
  <2>4. t # 0
    <3>1. pc[q] \in Phase2  BY <1>1 DEF Past, Phase2
    <3>2. t \in 1 .. Len(txn)  BY <2>3, <3>1 DEF RecInv, TxnInv, Committed
    <3> QED  BY <3>2
  <2>5. Filled(jb'[r], t)  BY <2>1, <2>2, <2>3, <2>4, FilledLater
  <2> QED  BY <1>1, <2>3, <2>5
<1>2. ASSUME pc'[q] = pc[q], upd'[q] = upd[q], rem'[q] = rem[q], token'[q] = token[q]
      PROVE  Filled(jb'[r], token'[q])
  BY <1>1, <1>2
<1>3. ASSUME NEW p \in Proc,
             (\E rs \in Updates : Begin(p, rs)) \/ Step(p) \/ Fail(p) \/ Kill(p)
      PROVE  Filled(jb'[r], token'[q])
  <2>1. CASE p = q
    <3>1. /\ token'[q] = token[q]
          /\ r \in Past(pc[q], upd[q], rem[q]) \/ (JnlWriteComplete(q) /\ r = reg(q))
      BY <1>3, <2>1, PastStep
    <3>2. CASE JnlWriteComplete(q) /\ r = reg(q)
      <4>1. PICK t : t = token[q]  OBVIOUS
      <4>2. Filled(jb'[r], t)  BY <3>2, <4>1, FilledByMe
      <4> QED  BY <3>1, <4>1, <4>2
    <3> QED  BY <1>1, <3>1, <3>2
  <2>2. CASE p # q
    <3>1. Alone(p)  BY <1>3, AloneIs
    <3> QED  BY <1>2, <2>2, <3>1 DEF Alone
  <2> QED  BY <2>1, <2>2
<1>4. CASE (\E x \in Region : JnlCleanup(x)) \/ SourceRead \/ SourceSalvage
  BY <1>2, <1>4 DEF JnlCleanup, SourceRead, SourceSalvage, procvars
<1>5. CASE UNCHANGED vars  BY <1>2, <1>5 DEF vars
<1> QED  BY <1>3, <1>4, <1>5 DEF Next, Source

-----------------------------------------------------------------------------
(* The order of the pool *)

(* What slot s reserved has been written: its header says how far it goes. *)
Fills(f, s) == Fetch(f, s.start).jnl_seqno = s.jnl_seqno /\ Fetch(f, s.start).len = s.tot_jrec_len

(* Every transaction in the pool takes space, and its header is there when it *)
(* is complete, or among those of W that are about to be.                    *)
Entire(L, W) ==
  \A i \in InUse(L) :
    /\ L.slot[i].tot_jrec_len >= 1 /\ L.slot[i].in_phase2
    /\ L.slot[i].write_complete \/ i \in W => Fills(L.file, L.slot[i])

(* At address a a reader finds seqno s, or, if it has read all there is, s is *)
(* the next to come; A are the addresses at which a transaction begins.      *)
Due(L, A, a, s) ==
  \/ a = L.free /\ L.slot[DECR(L.index1)].jnl_seqno + 1 = s
  \/ a \in A /\ Fetch(L.file, a).jnl_seqno = s

(* From every transaction the length in its header leads to the next. *)
Trail(L, A) ==
  /\ A \subseteq 0 .. L.free - 1
  /\ \A a \in A : Due(L, A, a + Fetch(L.file, a).len, Fetch(L.file, a).jnl_seqno + 1)

Track(L, a, s) == \E A : Trail(L, A) /\ Due(L, A, a, s)

LEMMA EntireFewer ==
  ASSUME NEW L, NEW M, NEW W, NEW V, Entire(L, W), V \subseteq W, InUse(M) \subseteq InUse(L),
         \A i \in InUse(M) : M.slot[i] = L.slot[i], M.file = L.file
  PROVE  Entire(M, V)
BY DEF Entire

LEMMA TrackSame ==
  ASSUME NEW L, NEW M, M.free = L.free, M.index1 = L.index1,
         M.slot[DECR(L.index1)].jnl_seqno = L.slot[DECR(L.index1)].jnl_seqno, Kept(L, M),
         NEW a, NEW s, Track(L, a, s)
  PROVE  Track(M, a, s)
<1>1. PICK A : Trail(L, A) /\ Due(L, A, a, s)  BY DEF Track
<1>2. \A b \in A : Fetch(M.file, b) = Fetch(L.file, b)  BY <1>1 DEF Trail, Kept
<1>3. \A b, t : Due(L, A, b, t) => Due(M, A, b, t)  BY <1>2 DEF Due
<1>4. Trail(M, A)  BY <1>1, <1>2, <1>3 DEF Trail
<1> QED  BY <1>1, <1>3, <1>4 DEF Track

(* A reader that is not at the end finds the seqno it is due, and goes on. *)
LEMMA TrackRead ==
  ASSUME NEW L, NEW a, NEW s, Track(L, a, s), a # L.free
  PROVE  Fetch(L.file, a).jnl_seqno = s /\ Track(L, a + Fetch(L.file, a).len, s + 1)
<1>1. PICK A : Trail(L, A) /\ Due(L, A, a, s)  BY DEF Track
<1>2. a \in A /\ Fetch(L.file, a).jnl_seqno = s  BY <1>1 DEF Due
<1>3. Due(L, A, a + Fetch(L.file, a).len, s + 1)  BY <1>1, <1>2 DEF Trail
<1> QED  BY <1>1, <1>2, <1>3 DEF Track

(* The reservations of a chain begin at different addresses, in their order. *)
LEMMA Rising ==
  ASSUME NEW L \in Log, Chain(L), \A i \in InUse(L) : L.slot[i].tot_jrec_len >= 1,
         NEW k \in 0 .. Used(L) - 1, NEW m \in 0 .. Used(L) - 1, k < m
  PROVE  L.slot[At(L, k)].start < L.slot[At(L, m)].start
<1> DEFINE S == {n \in 0 .. Used(L) - 1 : k < n => L.slot[At(L, k)].start < L.slot[At(L, n)].start}
<1>1. Used(L) \in Nat  BY LogFields, UsedIs, LogAssumption
<1>2. ASSUME NEW n \in 0 .. Used(L) - 1
      PROVE  /\ At(L, n) \in InUse(L) /\ L.slot[At(L, n)].start \in Nat
             /\ L.slot[At(L, n)].tot_jrec_len \in Nat /\ L.slot[At(L, n)].tot_jrec_len >= 1
  <2>1. At(L, n) \in InUse(L)  BY LogFields, InUseAt
  <2>2. L.slot[At(L, n)] \in Slot  BY <2>1, LogFields DEF InUse
  <2> QED  BY <2>1, <2>2, SlotFields
<1>3. Used(L) > 0 => 0 \in S  BY <1>1
<1>4. ASSUME NEW n \in 1 .. Used(L) - 1, n - 1 \in S  PROVE n \in S
  <2>1. n \in 0 .. Used(L) - 1 /\ n - 1 \in 0 .. Used(L) - 1 /\ n \in 1 .. Used(L)  BY <1>1
  <2>2. PICK x, y, z : /\ x = L.slot[At(L, k)].start /\ y = L.slot[At(L, n - 1)].start
                       /\ z = L.slot[At(L, n)].start
    OBVIOUS
  <2>3. DECR(At(L, n)) = At(L, n - 1)  BY <2>1, LogFields, InUseAt
  <2>4. z = y + L.slot[At(L, n - 1)].tot_jrec_len
    <3>1. Follows(L.slot[At(L, n)], L.slot[At(L, n - 1)])  BY <1>2, <2>1, <2>3 DEF Chain
    <3> QED  BY <2>2, <3>1 DEF Follows, EndOf
  <2>5. x \in Nat /\ y \in Nat /\ z \in Nat /\ y < z  BY <1>2, <2>1, <2>2, <2>4
  <2>6. CASE k < n - 1
    <3>1. x < y  BY <1>4, <2>2, <2>6
    <3>2. x < z  BY <2>5, <3>1
    <3> QED  BY <2>1, <2>2, <3>2
  <2>7. CASE k = n - 1
    <3>1. x < z  BY <2>2, <2>5, <2>7
    <3> QED  BY <2>1, <2>2, <3>1
  <2>8. CASE ~(k < n - 1) /\ k # n - 1
    <3>1. ~(k < n)  BY <1>1, <2>8
    <3> QED  BY <2>1, <3>1
  <2> QED  BY <2>6, <2>7, <2>8
<1>5. m \in S  BY <1>1, <1>3, <1>4, AllAges
<1> QED  BY <1>5

LEMMA StartsDiffer ==
  ASSUME NEW L \in Log, Chain(L), \A i \in InUse(L) : L.slot[i].tot_jrec_len >= 1,
         NEW i \in InUse(L), NEW j \in InUse(L), L.slot[i].start = L.slot[j].start
  PROVE  i = j
<1>1. PICK k \in 0 .. Used(L) - 1 : i = At(L, k)  BY LogFields, InUseAt
<1>2. PICK m \in 0 .. Used(L) - 1 : j = At(L, m)  BY LogFields, InUseAt
<1>3. L.slot[i] \in Slot /\ L.slot[j] \in Slot  BY LogFields DEF InUse
<1>4. L.slot[i].start \in Nat  BY <1>3, SlotFields
<1>5. CASE k < m
  <2>1. L.slot[i].start < L.slot[j].start  BY <1>1, <1>2, <1>5, Rising
  <2> QED  BY <1>4, <2>1
<1>6. CASE m < k
  <2>1. L.slot[j].start < L.slot[i].start  BY <1>1, <1>2, <1>6, Rising
  <2> QED  BY <1>4, <2>1
<1>7. CASE k = m  BY <1>1, <1>2, <1>7
<1>8. k \in Int /\ m \in Int  OBVIOUS
<1> QED  BY <1>5, <1>6, <1>7, <1>8

-----------------------------------------------------------------------------
(* What the operators of a log do to a trail *)

(* g has no update that f has not. *)
NoNew(g, f) == \A k \in 1 .. Len(g) : g[k].kind = "update" => k \in 1 .. Len(f) /\ g[k] = f[k]

LEMMA NoNewTrans ==
  ASSUME NEW f, NEW g, NEW h, NoNew(g, f), NoNew(h, g)
  PROVE  NoNew(h, f)
BY DEF NoNew

LEMMA StoreFetch ==
  ASSUME NEW f \in Seq(Record), NEW a \in Nat, NEW rec \in Record, NEW g, g = Store(f, a, rec)
  PROVE  Fetch(g, a) = rec /\ \A b \in Nat : b # a => Fetch(g, b) = Fetch(f, b)
<1>1. /\ Len(g) = IF a < Len(f) THEN Len(f) ELSE a + 1
      /\ \A i \in 1 .. Len(g) :
           g[i] = IF i = a + 1 THEN rec ELSE IF i <= Len(f) THEN f[i] ELSE Garbage
  <2>1. Stored(g, f, a, rec)  BY StoreStores
  <2> QED  BY <2>1 DEF Stored
<1>2. Len(f) \in Nat /\ Len(g) \in Nat  BY <1>1, LenProperties
<1>3. Fetch(g, a) = rec
  <2>1. a + 1 \in 1 .. Len(g) /\ a < Len(g)  BY <1>1, <1>2
  <2> QED  BY <1>1, <2>1 DEF Fetch
<1>4. ASSUME NEW b \in Nat, b # a  PROVE Fetch(g, b) = Fetch(f, b)
  <2>1. CASE b < Len(g)
    <3>1. b + 1 \in 1 .. Len(g) /\ b + 1 # a + 1  BY <1>2, <1>4, <2>1
    <3>2. g[b + 1] = IF b + 1 <= Len(f) THEN f[b + 1] ELSE Garbage  BY <1>1, <3>1
    <3> QED  BY <1>2, <2>1, <3>2 DEF Fetch
  <2>2. CASE ~(b < Len(g))
    <3>1. ~(b < Len(f))  BY <1>1, <1>2, <2>2
    <3> QED  BY <2>2, <3>1 DEF Fetch
  <2> QED  BY <2>1, <2>2
<1> QED  BY <1>3, <1>4

(* p stores the header of its own transaction. *)
LEMMA EntireStore ==
  ASSUME NEW L \in Log, Chain(L), NEW W, Entire(L, W), NEW i \in InUse(L), NEW rec \in Record,
         rec.jnl_seqno = L.slot[i].jnl_seqno, rec.len = L.slot[i].tot_jrec_len,
         NEW M, M.index1 = L.index1, M.index2 = L.index2, M.slot = L.slot,
         M.file = Store(L.file, L.slot[i].start, rec)
  PROVE  Entire(M, W \cup {i})
<1>1. InUse(M) = InUse(L)  BY InUseFrame
<1>2. PICK a, g : a = L.slot[i].start /\ g = Store(L.file, a, rec)  OBVIOUS
<1>3. \A j \in InUse(L) : L.slot[j].start \in Nat  BY LogFields, SlotFields DEF InUse
<1>4. L.file \in Seq(Record) /\ a \in Nat  BY <1>2, <1>3, LogFields
<1>5. Fetch(g, a) = rec /\ \A b \in Nat : b # a => Fetch(g, b) = Fetch(L.file, b)
  BY <1>2, <1>4, StoreFetch
<1>6. \A j \in InUse(L) : L.slot[j].tot_jrec_len >= 1  BY DEF Entire
<1>7. ASSUME NEW j \in InUse(L), L.slot[j].write_complete \/ j \in W \cup {i}
      PROVE  Fills(g, L.slot[j])
  <2>1. CASE j = i  BY <1>2, <1>5, <2>1 DEF Fills
  <2>2. CASE j # i
    <3>1. L.slot[j].start # a  BY <1>2, <1>6, <2>2, StartsDiffer
    <3>2. Fetch(g, L.slot[j].start) = Fetch(L.file, L.slot[j].start)  BY <1>3, <1>5, <3>1
    <3>3. Fills(L.file, L.slot[j])  BY <1>7, <2>2 DEF Entire
    <3> QED  BY <3>2, <3>3 DEF Fills
  <2> QED  BY <2>1, <2>2
<1> QED  BY <1>1, <1>2, <1>7 DEF Entire

(* The salvage loop stores headers too. *)
LEMMA EntireSalvage ==
  ASSUME NEW L \in Log, Chain(L), NEW W, Entire(L, W), NEW dead, dead \subseteq InUse(L),
         NEW M, M = Salvage(L, dead)
  PROVE  Entire(M, W) /\ NoNew(M.file, L.file)
<1>1. InUse(L) \subseteq Index /\ dead \subseteq Index  BY DEF InUse
<1>2. /\ M.index1 = L.index1 /\ M.index2 = L.index2
      /\ \A i \in Index : Marked(M.slot[i], L.slot[i], i \in dead)
      /\ M.file = Nullified(L.file, {s \in {L.slot[i] : i \in dead} : s.in_phase2})
  BY <1>1, SalvageIs
<1>3. InUse(M) = InUse(L)  BY <1>2, InUseFrame
<1>4. PICK S : S = {s \in {L.slot[i] : i \in dead} : s.in_phase2}  OBVIOUS
<1>5. PICK f, g : f = L.file /\ g = M.file  OBVIOUS
<1>6. S \subseteq Slot /\ (\A s \in S : \E i \in dead : s = L.slot[i])
      /\ \A i \in dead : L.slot[i] \in S
  BY <1>1, <1>4, LogFields DEF Entire
<1>7. PICK b \in Nat : \A s \in S : s.start < b
  <2>1. PICK h : h = [i \in Index |-> L.slot[i].start]  OBVIOUS
  <2>2. h \in [Index -> Nat]  BY <2>1, LogFields, SlotFields
  <2>3. PICK b \in Nat : \A i \in Index : h[i] < b  BY <2>2, SlotsBounded
  <2> QED  BY <1>1, <1>6, <2>1, <2>3
<1>8. f \in Seq(Record) /\ g = Nullified(f, S)  BY <1>2, <1>4, <1>5, LogFields
<1>9. /\ g \in Seq(Record) /\ Len(f) <= Len(g)
      /\ \A i \in 1 .. Len(g) : (\A s \in S : s.start + 1 # i) =>
           g[i] = IF i <= Len(f) THEN f[i] ELSE Garbage
      /\ \A s \in S : /\ s.start + 1 \in 1 .. Len(g)
                      /\ \E t \in S : t.start = s.start /\ g[s.start + 1] = SalvageRecord(t)
  BY <1>6, <1>7, <1>8, NullifiedIs
<1>10. Len(f) \in Nat /\ Len(g) \in Nat  BY <1>8, <1>9, LenProperties
<1>11. \A i \in InUse(L) : L.slot[i].start \in Nat  BY <1>1, LogFields, SlotFields
<1>12. \A i \in InUse(L) : L.slot[i].tot_jrec_len >= 1  BY DEF Entire
<1>13. ASSUME NEW i \in dead  PROVE Fills(g, L.slot[i])
  <2>1. PICK a : a = L.slot[i].start  OBVIOUS
  <2>2. PICK t \in S : t.start = a /\ g[a + 1] = SalvageRecord(t)  BY <1>6, <1>9, <2>1
  <2>3. a \in Nat /\ a + 1 \in 1 .. Len(g)  BY <1>6, <1>9, <1>11, <2>1
  <2>4. PICK j \in dead : t = L.slot[j]  BY <1>6
  <2>5. j = i  BY <1>12, <2>1, <2>2, <2>4, StartsDiffer
  <2>6. Fetch(g, a) = SalvageRecord(L.slot[i])  BY <1>10, <2>2, <2>3, <2>4, <2>5 DEF Fetch
  <2> QED  BY <2>1, <2>6 DEF Fills, SalvageRecord
<1>14. ASSUME NEW i \in InUse(L), i \notin dead, Fills(f, L.slot[i])  PROVE Fills(g, L.slot[i])
  <2>1. PICK a : a = L.slot[i].start  OBVIOUS
  <2>2. a \in Nat  BY <1>11, <2>1
  <2>3. \A s \in S : s.start + 1 # a + 1
    <3> SUFFICES ASSUME NEW s \in S, s.start + 1 = a + 1  PROVE FALSE  OBVIOUS
    <3>1. PICK j \in dead : s = L.slot[j]  BY <1>6
    <3>2. L.slot[j].start = a  BY <1>11, <2>2, <3>1
    <3>3. j = i  BY <1>12, <2>1, <3>2, StartsDiffer
    <3> QED  BY <1>14, <3>3
  <2>4. Fetch(g, a) = Fetch(f, a)
    <3>1. CASE a < Len(g)
      <4>1. a + 1 \in 1 .. Len(g)  BY <1>10, <2>2, <3>1
      <4>2. g[a + 1] = IF a + 1 <= Len(f) THEN f[a + 1] ELSE Garbage  BY <1>9, <2>3, <4>1
      <4> QED  BY <1>10, <2>2, <3>1, <4>2 DEF Fetch
    <3>2. CASE ~(a < Len(g))  BY <1>9, <1>10, <2>2, <3>2 DEF Fetch
    <3> QED  BY <3>1, <3>2
  <2> QED  BY <1>14, <2>1, <2>4 DEF Fills
<1>15. ASSUME NEW i \in InUse(M)
       PROVE  /\ M.slot[i].tot_jrec_len >= 1 /\ M.slot[i].in_phase2
              /\ M.slot[i].write_complete \/ i \in W => Fills(M.file, M.slot[i])
  <2>1. i \in InUse(L) /\ Marked(M.slot[i], L.slot[i], i \in dead)  BY <1>1, <1>2, <1>3
  <2>2. PICK s, t : s = M.slot[i] /\ t = L.slot[i]  OBVIOUS
  <2>3. /\ s.jnl_seqno = t.jnl_seqno /\ s.start = t.start /\ s.tot_jrec_len = t.tot_jrec_len
        /\ s.in_phase2 = t.in_phase2 /\ s.write_complete = (t.write_complete \/ i \in dead)
    BY <2>1, <2>2 DEF Marked, Alike
  <2>4. t.tot_jrec_len >= 1 /\ t.in_phase2 /\ (t.write_complete \/ i \in W => Fills(f, t))
    BY <1>5, <2>1, <2>2 DEF Entire
  <2>5. ASSUME s.write_complete \/ i \in W  PROVE Fills(g, t)
    <3>1. CASE i \in dead  BY <1>13, <2>2, <3>1
    <3>2. CASE i \notin dead  BY <1>14, <2>1, <2>2, <2>3, <2>4, <2>5, <3>2
    <3> QED  BY <3>1, <3>2
  <2>6. Fills(g, t) => Fills(g, s)  BY <2>3 DEF Fills
  <2> QED  BY <1>5, <2>2, <2>3, <2>4, <2>5, <2>6
<1>16. ASSUME NEW k \in 1 .. Len(g), g[k].kind = "update"
       PROVE  k \in 1 .. Len(f) /\ g[k] = f[k]
  <2>1. \A s \in S : s.start + 1 # k
    <3> SUFFICES ASSUME NEW s \in S, s.start + 1 = k  PROVE FALSE  OBVIOUS
    <3>1. PICK t \in S : g[k] = SalvageRecord(t)  BY <1>9
    <3> QED  BY <1>16, <3>1 DEF SalvageRecord
  <2>2. g[k] = IF k <= Len(f) THEN f[k] ELSE Garbage  BY <1>9, <2>1
  <2>3. g[k] # Garbage  BY <1>16 DEF Garbage
  <2> QED  BY <1>10, <2>2, <2>3
<1> QED  BY <1>5, <1>15, <1>16 DEF Entire, NoNew

(* A transaction ends where the next one begins. *)
LEMMA EndsAt ==
  ASSUME NEW L \in Log, Chain(L), NEW k \in 0 .. Used(L) - 1
  PROVE  EndOf(L.slot[At(L, k)]) =
           IF k + 1 = Used(L) THEN EndOf(Last(L)) ELSE L.slot[At(L, k + 1)].start
<1>1. Used(L) \in Nat  BY LogFields, UsedIs, LogAssumption
<1>2. k + 1 \in 1 .. Used(L) /\ (k + 1) - 1 = k  BY <1>1
<1>3. DECR(At(L, k + 1)) = At(L, k)  BY <1>2, LogFields, InUseAt
<1>4. CASE k + 1 = Used(L)
  <2>1. At(L, k + 1) = L.index2  BY <1>4, LogFields, InUseAt
  <2> QED  BY <1>3, <1>4, <2>1 DEF Last
<1>5. CASE k + 1 # Used(L)
  <2>1. k + 1 \in 0 .. Used(L) - 1  BY <1>1, <1>5
  <2>2. At(L, k + 1) \in InUse(L)  BY <2>1, LogFields, InUseAt
  <2>3. Follows(L.slot[At(L, k + 1)], L.slot[At(L, k)])  BY <1>3, <2>2 DEF Chain
  <2> QED  BY <1>5, <2>3 DEF Follows
<1> QED  BY <1>4, <1>5

(* What is handed over continues the trail. *)
LEMMA TrackHandOver ==
  ASSUME NEW L \in Log, Chain(L), Ordered(L), NEW W, Entire(L, W), NEW M, M = HandOver(L),
         NEW x, NEW y, Track(L, x, y)
  PROVE  Track(M, x, y)
<1>1. PICK n \in 0 .. Used(L) :
        /\ \A k \in 0 .. n - 1 : L.slot[At(L, k)].write_complete
        /\ M.index1 = At(L, n) /\ M.index2 = L.index2 /\ M.slot = L.slot /\ M.file = L.file
        /\ M.free = IF n = Used(L) THEN EndOf(Last(L)) ELSE L.slot[At(L, n)].start
  BY HandOverShape
<1>2. Used(L) \in Nat /\ n \in Nat /\ L.free \in Nat  BY LogFields, UsedIs, LogAssumption
<1>3. At(L, 0) = L.index1 /\ At(L, Used(L)) = L.index2  BY LogFields, InUseAt
<1>4. Kept(L, M) /\ M.free \in Nat
  <2>1. Kept(L, M)  BY HandOverKept
  <2>2. M \in Log  BY HandOverIs DEF Tidied
  <2> QED  BY <2>1, <2>2, LogFields
<1>5. CASE n = 0
  <2>1. M.free = L.free
    <3>1. CASE Used(L) = 0
      <4>1. L.index1 = L.index2  BY <1>3, <3>1
      <4> QED  BY <1>1, <1>5, <3>1, <4>1 DEF Chain, Last
    <3>2. CASE Used(L) # 0
      <4>1. 0 \in 0 .. Used(L) - 1  BY <1>2, <3>2
      <4>2. L.index1 \in InUse(L)  BY <1>3, <4>1, LogFields, InUseAt
      <4> QED  BY <1>1, <1>3, <1>5, <3>2, <4>2 DEF Chain, Follows
    <3> QED  BY <3>1, <3>2
  <2> QED  BY <1>1, <1>3, <1>4, <1>5, <2>1, TrackSame
<1>6. CASE n # 0
  <2>1. PICK A : Trail(L, A) /\ Due(L, A, x, y)  BY DEF Track
  <2>2. PICK f, st, sq : /\ f = L.file
                         /\ st = [k \in 0 .. Used(L) - 1 |-> L.slot[At(L, k)].start]
                         /\ sq = [k \in 0 .. Used(L) - 1 |-> L.slot[At(L, k)].jnl_seqno]
    OBVIOUS
  <2>3. PICK B : B = A \cup {st[k] : k \in 0 .. n - 1}  OBVIOUS
  <2>4. ASSUME NEW k \in 0 .. Used(L) - 1
        PROVE  /\ At(L, k) \in InUse(L) /\ L.slot[At(L, k)] \in Slot
               /\ st[k] \in Nat /\ sq[k] \in Nat /\ L.free <= st[k]
    <3>1. At(L, k) \in InUse(L)  BY LogFields, InUseAt
    <3>2. L.slot[At(L, k)] \in Slot  BY <3>1, LogFields DEF InUse
    <3>3. L.free <= L.slot[At(L, k)].start  BY <3>1, AboveFree
    <3> QED  BY <2>2, <3>1, <3>2, <3>3, SlotFields
  <2>5. \A k \in 0 .. n - 1 : k \in 0 .. Used(L) - 1  BY <1>2
  <2>6. ASSUME NEW k \in 0 .. n - 1
        PROVE  Fetch(f, st[k]).jnl_seqno = sq[k] /\ st[k] + Fetch(f, st[k]).len = EndOf(L.slot[At(L, k)])
    <3>1. Fills(L.file, L.slot[At(L, k)])  BY <1>1, <2>4, <2>5 DEF Entire
    <3> QED  BY <2>2, <2>5, <3>1 DEF Fills, EndOf
  <2>7. ASSUME NEW k \in 0 .. n - 1
        PROVE  EndOf(L.slot[At(L, k)]) = IF k + 1 = n THEN M.free ELSE st[k + 1]
    <3>1. EndOf(L.slot[At(L, k)]) =
            IF k + 1 = Used(L) THEN EndOf(Last(L)) ELSE L.slot[At(L, k + 1)].start
      BY <2>5, EndsAt
    <3>2. CASE k + 1 = n  BY <1>1, <3>1, <3>2
    <3>3. CASE k + 1 # n
      <4>1. k + 1 \in 0 .. Used(L) - 1 /\ k + 1 # Used(L)  BY <1>2, <3>3
      <4> QED  BY <2>2, <3>1, <3>3, <4>1
    <3> QED  BY <3>2, <3>3
  <2>8. \A k \in 1 .. Used(L) - 1 : sq[k] = sq[k - 1] + 1
    <3> SUFFICES ASSUME NEW k \in 1 .. Used(L) - 1  PROVE sq[k] = sq[k - 1] + 1  OBVIOUS
    <3>1. k \in 0 .. Used(L) - 1 /\ k - 1 \in 0 .. Used(L) - 1 /\ k \in 1 .. Used(L)  BY <1>2
    <3>2. DECR(At(L, k)) = At(L, k - 1)  BY <3>1, LogFields, InUseAt
    <3>3. L.slot[At(L, k)].jnl_seqno = L.slot[At(L, k - 1)].jnl_seqno + 1
      BY <2>4, <3>1, <3>2 DEF Ordered
    <3> QED  BY <2>2, <3>1, <3>3
  <2>9. M.slot[DECR(M.index1)].jnl_seqno = sq[n - 1]
    <3>1. n \in 1 .. Used(L) /\ n - 1 \in 0 .. Used(L) - 1  BY <1>2, <1>6
    <3>2. DECR(At(L, n)) = At(L, n - 1)  BY <3>1, LogFields, InUseAt
    <3> QED  BY <1>1, <2>2, <3>1, <3>2
  <2>10. st[0] = L.free /\ sq[0] = L.slot[DECR(L.index1)].jnl_seqno + 1
    <3>1. 0 \in 0 .. Used(L) - 1  BY <1>2, <1>6
    <3>2. L.index1 \in InUse(L)  BY <1>3, <2>4, <3>1
    <3>3. Follows(L.slot[L.index1], L.slot[DECR(L.index1)])  BY <3>2 DEF Chain
    <3> QED  BY <1>3, <2>2, <3>1, <3>2, <3>3 DEF Chain, Ordered, Follows
  <2>11. ASSUME NEW k \in 0 .. n - 1  PROVE Due(M, B, st[k] + Fetch(f, st[k]).len, sq[k] + 1)
    <3>1. CASE k + 1 = n
      <4>1. st[k] + Fetch(f, st[k]).len = M.free  BY <2>6, <2>7, <3>1
      <4>2. n - 1 = k  BY <1>2, <3>1
      <4> QED  BY <2>9, <4>1, <4>2 DEF Due
    <3>2. CASE k + 1 # n
      <4>1. k + 1 \in 0 .. n - 1 /\ k + 1 \in 1 .. Used(L) - 1 /\ (k + 1) - 1 = k  BY <1>2, <3>2
      <4>2. st[k] + Fetch(f, st[k]).len = st[k + 1]  BY <2>6, <2>7, <3>2
      <4>3. Fetch(f, st[k + 1]).jnl_seqno = sq[k + 1] /\ sq[k + 1] = sq[k] + 1
        BY <2>6, <2>8, <4>1
      <4>4. st[k + 1] \in B  BY <2>3, <4>1
      <4>5. Fetch(M.file, st[k + 1]).jnl_seqno = sq[k] + 1  BY <1>1, <2>2, <4>3
      <4>6. Due(M, B, st[k + 1], sq[k] + 1)  BY <4>4, <4>5 DEF Due
      <4> QED  BY <4>2, <4>6
    <3> QED  BY <3>1, <3>2
  <2>12. ASSUME NEW b, NEW t, Due(L, A, b, t)  PROVE Due(M, B, b, t)
    <3>1. CASE b \in A /\ Fetch(L.file, b).jnl_seqno = t  BY <1>1, <2>3, <3>1 DEF Due
    <3>2. CASE b = L.free /\ L.slot[DECR(L.index1)].jnl_seqno + 1 = t
      <4>1. 0 \in 0 .. n - 1  BY <1>2, <1>6
      <4>2. b \in B /\ Fetch(f, b).jnl_seqno = t  BY <2>3, <2>6, <2>10, <3>2, <4>1
      <4> QED  BY <1>1, <2>2, <4>2 DEF Due
    <3> QED  BY <2>12, <3>1, <3>2 DEF Due
  <2>13. B \subseteq 0 .. M.free - 1
    <3>1. L.free <= M.free  BY <1>4 DEF Kept
    <3>2. A \subseteq 0 .. L.free - 1  BY <2>1 DEF Trail
    <3>3. A \subseteq 0 .. M.free - 1  BY <1>2, <1>4, <3>1, <3>2
    <3>4. ASSUME NEW k \in 0 .. n - 1  PROVE st[k] < M.free
      <4>1. \A i \in InUse(L) : L.slot[i].tot_jrec_len >= 1  BY DEF Entire
      <4>2. k \in 0 .. Used(L) - 1 /\ n - 1 \in 0 .. Used(L) - 1 /\ n - 1 \in 0 .. n - 1
        BY <1>2, <1>6
      <4>3. k < n - 1 => st[k] < st[n - 1]  BY <2>2, <4>1, <4>2, Rising
      <4>4. st[n - 1] < M.free
        <5>1. PICK z : z = L.slot[At(L, n - 1)]  OBVIOUS
        <5>2. z \in Slot /\ z.tot_jrec_len >= 1 /\ st[n - 1] = z.start
          BY <2>2, <2>4, <4>1, <4>2, <5>1
        <5>3. (n - 1) + 1 = n  BY <1>2
        <5>4. M.free = z.start + z.tot_jrec_len  BY <2>7, <4>2, <5>1, <5>3 DEF EndOf
        <5>5. z.start \in Nat /\ z.tot_jrec_len \in Nat  BY <5>2, SlotFields
        <5> QED  BY <5>2, <5>4, <5>5
      <4>5. st[k] \in Nat /\ st[n - 1] \in Nat  BY <2>4, <4>2
      <4>6. CASE k < n - 1  BY <1>4, <4>3, <4>4, <4>5, <4>6
      <4>7. CASE k = n - 1  BY <4>4, <4>7
      <4> QED  BY <1>2, <4>6, <4>7
    <3>5. \A k \in 0 .. n - 1 : st[k] \in 0 .. M.free - 1
      BY <1>4, <2>4, <2>5, <3>4
    <3> QED  BY <2>3, <3>3, <3>5
  <2>14. ASSUME NEW b \in B
         PROVE  Due(M, B, b + Fetch(M.file, b).len, Fetch(M.file, b).jnl_seqno + 1)
    <3>1. CASE b \in A
      <4>1. Due(L, A, b + Fetch(L.file, b).len, Fetch(L.file, b).jnl_seqno + 1)
        BY <2>1, <3>1 DEF Trail
      <4> QED  BY <1>1, <2>12, <4>1
    <3>2. CASE \E k \in 0 .. n - 1 : b = st[k]
      <4>1. PICK k \in 0 .. n - 1 : b = st[k]  BY <3>2
      <4>2. Fetch(f, b).jnl_seqno = sq[k]  BY <2>6, <4>1
      <4> QED  BY <1>1, <2>2, <2>11, <4>1, <4>2
    <3> QED  BY <2>3, <3>1, <3>2
  <2>15. Trail(M, B)  BY <2>13, <2>14 DEF Trail
  <2>16. Due(M, B, x, y)  BY <2>1, <2>12
  <2> QED  BY <2>15, <2>16 DEF Track
<1> QED  BY <1>5, <1>6

LEMMA EntireHandOver ==
  ASSUME NEW L \in Log, NEW W, Entire(L, W), NEW M, M = HandOver(L)
  PROVE  Entire(M, W) /\ M.file = L.file
<1>1. M.slot = L.slot /\ M.file = L.file /\ InUse(M) \subseteq InUse(L)
  BY HandOverIs DEF Tidied
<1> QED  BY <1>1, EntireFewer

(* A pool with a trail, as far as one log shows it. *)
Paved(L, W, a, s) == L \in Log /\ Chain(L) /\ Ordered(L) /\ Entire(L, W) /\ Track(L, a, s)

LEMMA PavedHandOver ==
  ASSUME NEW L, NEW W, NEW a, NEW s, Paved(L, W, a, s), NEW M, M = HandOver(L)
  PROVE  Paved(M, W, a, s) /\ NoNew(M.file, L.file)
<1>1. L \in Log /\ Chain(L) /\ Ordered(L) /\ Entire(L, W) /\ Track(L, a, s)  BY DEF Paved
<1>2. Tidied(M, L, {}) /\ Chain(M)  BY <1>1, HandOverIs
<1>3. M \in Log /\ Ordered(M)  BY <1>1, <1>2, OrderedTidied DEF Tidied
<1>4. Entire(M, W) /\ M.file = L.file  BY <1>1, EntireHandOver
<1>5. Track(M, a, s)  BY <1>1, TrackHandOver
<1> QED  BY <1>2, <1>3, <1>4, <1>5 DEF Paved, NoNew

LEMMA PavedSalvage ==
  ASSUME NEW L, NEW W, NEW a, NEW s, Paved(L, W, a, s), NEW dead, dead \subseteq InUse(L),
         NEW M, M = Salvage(L, dead)
  PROVE  Paved(M, W, a, s) /\ NoNew(M.file, L.file)
<1>1. L \in Log /\ Chain(L) /\ Ordered(L) /\ Entire(L, W) /\ Track(L, a, s)  BY DEF Paved
<1>2. dead \subseteq Index  BY DEF InUse
<1>3. /\ M \in Log /\ M.free = L.free /\ M.index1 = L.index1 /\ M.index2 = L.index2
      /\ \A i \in Index : Alike(M.slot[i], L.slot[i])
  <2>1. /\ M \in Log /\ M.free = L.free /\ M.index1 = L.index1 /\ M.index2 = L.index2
        /\ \A i \in Index : Marked(M.slot[i], L.slot[i], i \in dead)
    BY <1>1, <1>2, SalvageIs, Zenon
  <2> QED  BY <2>1 DEF Marked
<1>4. Chain(M)  BY <1>1, <1>3, ChainAlike
<1>5. Ordered(M)
  <2>1. InUse(M) = InUse(L)  BY <1>3, InUseFrame
  <2>2. \A i \in InUse(L) : i \in Index /\ DECR(i) \in Index  BY IndexType DEF InUse
  <2> QED  BY <1>1, <1>3, <2>1, <2>2 DEF Ordered, Alike
<1>6. Entire(M, W) /\ NoNew(M.file, L.file)  BY <1>1, EntireSalvage
<1>7. Track(M, a, s)
  <2>1. Kept(L, M)  BY <1>1, SalvageKept
  <2>2. DECR(L.index1) \in Index  BY <1>1, LogFields, IndexType
  <2>3. M.slot[DECR(L.index1)].jnl_seqno = L.slot[DECR(L.index1)].jnl_seqno
    BY <1>3, <2>2 DEF Alike
  <2> QED  BY <1>1, <1>3, <2>1, <2>3, TrackSame
<1> QED  BY <1>3, <1>4, <1>5, <1>6, <1>7 DEF Paved

LEMMA PavedCleanup ==
  ASSUME NEW L, NEW W, NEW a, NEW s, Paved(L, W, a, s), NEW p, NEW c, NEW alive,
         NEW M, M = Cleanup(L, p, c, alive)
  PROVE  Paved(M, W, a, s) /\ NoNew(M.file, L.file)
<1>1. CASE c
  <2>1. PICK E : E = DeadRun(L, p, alive)  OBVIOUS
  <2>2. PICK K : K = Salvage(L, E)  OBVIOUS
  <2>3. M = HandOver(K)  BY <1>1, <2>1, <2>2, Zenon DEF Cleanup, SalvageDead
  <2>4. E \subseteq InUse(L)  BY <2>1, DeadRunIs DEF Paved
  <2>5. Paved(K, W, a, s) /\ NoNew(K.file, L.file)  BY <2>2, <2>4, PavedSalvage
  <2>6. Paved(M, W, a, s) /\ NoNew(M.file, K.file)  BY <2>3, <2>5, PavedHandOver
  <2> QED  BY <2>5, <2>6, NoNewTrans
<1>2. CASE ~c
  <2>1. M = HandOver(L)  BY <1>2 DEF Cleanup
  <2> QED  BY <2>1, PavedHandOver
<1> QED  BY <1>1, <1>2

LEMMA PavedWriteComplete ==
  ASSUME NEW L, NEW W, NEW a, NEW s, Paved(L, W, a, s), NEW i \in InUse(L), i \in W,
         NEW p, NEW c, NEW alive, NEW M, M = WriteComplete(L, i, p, c, alive)
  PROVE  Paved(M, W, a, s) /\ NoNew(M.file, L.file)
<1>1. L \in Log /\ Chain(L) /\ Ordered(L) /\ Entire(L, W) /\ Track(L, a, s)  BY DEF Paved
<1>2. PICK K : K = Done(L, i)  OBVIOUS
<1>3. i \in Index  BY DEF InUse
<1>4. /\ K \in Log /\ K.free = L.free /\ K.index1 = L.index1 /\ K.index2 = L.index2
      /\ K.file = L.file
      /\ \A j \in Index : /\ Alike(K.slot[j], L.slot[j])
                          /\ K.slot[j].write_complete => L.slot[j].write_complete \/ j = i
  BY <1>1, <1>2, <1>3, MarkedIs
<1>5. InUse(K) = InUse(L)  BY <1>4, InUseFrame
<1>6. Chain(K)  BY <1>1, <1>4, ChainAlike
<1>7. Ordered(K)
  <2>1. \A j \in InUse(L) : j \in Index /\ DECR(j) \in Index  BY IndexType DEF InUse
  <2> QED  BY <1>1, <1>4, <1>5, <2>1 DEF Ordered, Alike
<1>8. Entire(K, W)
  <2> SUFFICES ASSUME NEW j \in InUse(L)
               PROVE  /\ K.slot[j].tot_jrec_len >= 1 /\ K.slot[j].in_phase2
                      /\ K.slot[j].write_complete \/ j \in W => Fills(K.file, K.slot[j])
    BY <1>5 DEF Entire
  <2>1. PICK x, y : x = K.slot[j] /\ y = L.slot[j]  OBVIOUS
  <2>2. /\ x.jnl_seqno = y.jnl_seqno /\ x.start = y.start /\ x.tot_jrec_len = y.tot_jrec_len
        /\ x.in_phase2 = y.in_phase2 /\ (x.write_complete => y.write_complete \/ j = i)
    BY <1>4, <2>1 DEF Alike, InUse
  <2>3. y.tot_jrec_len >= 1 /\ y.in_phase2 /\ (y.write_complete \/ j \in W => Fills(L.file, y))
    BY <1>1, <2>1 DEF Entire
  <2>4. Fills(L.file, y) => Fills(L.file, x)  BY <2>2 DEF Fills
  <2> QED  BY <1>4, <2>1, <2>2, <2>3, <2>4
<1>9. Track(K, a, s)
  <2>1. Kept(L, K)  BY <1>1, <1>4, LogFields DEF Kept
  <2>2. DECR(L.index1) \in Index  BY <1>1, LogFields, IndexType
  <2>3. K.slot[DECR(L.index1)].jnl_seqno = L.slot[DECR(L.index1)].jnl_seqno
    BY <1>4, <2>2 DEF Alike
  <2> QED  BY <1>1, <1>4, <2>1, <2>3, TrackSame
<1>10. Paved(K, W, a, s)  BY <1>4, <1>6, <1>7, <1>8, <1>9 DEF Paved
<1>11. CASE i \in {0, N \div 2}
  <2>1. M = Cleanup(K, p, c, alive)  BY <1>2, <1>11 DEF WriteComplete, Done
  <2> QED  BY <1>4, <1>10, <2>1, PavedCleanup
<1>12. CASE i \notin {0, N \div 2}
  <2>1. M = K  BY <1>2, <1>12 DEF WriteComplete, Done
  <2> QED  BY <1>4, <1>10, <2>1 DEF NoNew
<1> QED  BY <1>11, <1>12

-----------------------------------------------------------------------------
(* The source server finds the seqnos in their order *)

(* The entries whose header is stored and not yet marked complete *)
Written == {idx[p][POOL] : p \in {q \in Proc : pc[q] = "cmt17c"}}

(* A reservation that is being made *)
Begun(L) == L.slot[L.index2].tot_jrec_len >= 1 /\ L.slot[L.index2].in_phase2

OrderInv ==
  /\ Entire(pool, Written) /\ Track(pool, read_addr, Len(sent) + 1)
  /\ \A p \in Proc : pc[p] = "cmt03b" => Begun(pool)

LEMMA PavedNow ==
  ASSUME TypeInv, PoolInv, OrderInv
  PROVE  Paved(pool, Written, read_addr, Len(sent) + 1)
BY DEF TypeInv, TypeOK, PoolInv, OrderInv, Paved

LEMMA OrderNext ==
  ASSUME NEW M, M = pool', NEW W, Written' \subseteq W, NEW a, a = read_addr',
         NEW s, s = Len(sent') + 1, Paved(M, W, a, s),
         \A q \in Proc : pc'[q] = "cmt03b" => Begun(M)
  PROVE  OrderInv'
<1>1. Entire(M, W) /\ Track(M, a, s)  BY DEF Paved
<1>2. Entire(M, Written')  BY <1>1 DEF Entire
<1> QED  BY <1>1, <1>2 DEF OrderInv

(* A pool with fewer reservations *)
LEMMA PavedLess ==
  ASSUME NEW L, NEW W, NEW a, NEW s, Paved(L, W, a, s), NEW M \in Log, Chain(M), Ordered(M),
         M.free = L.free, M.index1 = L.index1, M.file = L.file, InUse(M) \subseteq InUse(L),
         M.slot = L.slot
  PROVE  Paved(M, W, a, s)
<1>1. L \in Log /\ Entire(L, W) /\ Track(L, a, s)  BY DEF Paved
<1>2. Entire(M, W)  BY <1>1, EntireFewer
<1>3. Kept(L, M)  BY <1>1, KeptSame
<1>4. Track(M, a, s)  BY <1>1, <1>3, TrackSame
<1> QED  BY <1>2, <1>4 DEF Paved

(* mutex_clean_dead_owner and t_commit_cleanup *)
LEMMA Shortened ==
  ASSUME NEW L \in Log, NEW M,
         \/ M = L \/ \E h : M = CleanDeadPool(L, h)
         \/ M = Withdraw(L) /\ L.index1 # L.index2
  PROVE  /\ M \in Log /\ M.free = L.free /\ M.index1 = L.index1 /\ M.file = L.file
         /\ InUse(M) \subseteq InUse(L) /\ M.slot = L.slot
<1>1. CASE M = L  BY <1>1
<1>2. CASE M = Realign(L)
  <2>1. /\ M \in Log /\ M.free = L.free /\ M.index1 = L.index1 /\ M.index2 = L.index2
        /\ M.slot = L.slot /\ M.file = L.file
    BY <1>2, RealignIs
  <2> QED  BY <2>1, InUseFrame
<1>3. CASE M = Withdraw(L) /\ L.index1 # L.index2
  <2>1. /\ M \in Log /\ M.free = L.free /\ M.file = L.file
        /\ M.index1 = L.index1 /\ M.index2 = DECR(L.index2) /\ M.slot = L.slot
    BY <1>3, WithdrawIs
  <2>2. InUse(M) = InUse(L) \ {DECR(L.index2)}  BY <1>3, <2>1, InUseWithdraw
  <2> QED  BY <2>1, <2>2
<1> QED  BY <1>1, <1>2, <1>3 DEF CleanDeadPool

(* Who gets where *)
LEMMA Arrives ==
  ASSUME TypeInv, NEW p \in Proc,
         (\E rs \in Updates : Begin(p, rs)) \/ Step(p) \/ Fail(p) \/ Kill(p)
  PROVE  /\ pc'[p] = "cmt17c" => WritePool(p)
         /\ pc'[p] = "cmt03b" => ReservePool(p) /\ ~Full(pool)
<1>0. pc \in [Proc -> PC]  BY DEF TypeInv, TypeOK
<1>1. CASE (\E rs \in Updates : Begin(p, rs)) \/ Kill(p) \/ Fail(p)
  BY <1>0, <1>1 DEF Begin, Kill, Fail, Goto
<1>2. CASE \/ GrabLock(p) \/ PublishPool(p) \/ PoolWriteComplete(p) \/ UndoPool(p) \/ UndoRel(p)
           \/ SetJnlSeqno(p) \/ UpdateUnderway(p) \/ SetRegSeqno(p) \/ IncrementCurrTn(p)
           \/ RelLock(p) \/ WriteJnl(p)
  BY <1>0, <1>2 DEF GrabLock, PublishPool, PoolWriteComplete, UndoPool, UndoRel,
     SetJnlSeqno, UpdateUnderway, SetRegSeqno, IncrementCurrTn, RelLock, WriteJnl, Goto
<1>3. CASE \/ GrabCrit(p) \/ Recover(p) \/ RecoverWritten(p) \/ RecoverDone(p) \/ EarlyTn(p)
           \/ ReserveJnl(p) \/ PublishJnl(p) \/ UndoDB(p) \/ RelCrit(p) \/ Finish(p)
           \/ JnlWriteComplete(p)
  BY <1>0, <1>3 DEF GrabCrit, AfterGrab, Recover, RecoverWritten, RecoverDone, EarlyTn,
     ReserveJnl, PublishJnl, UndoDB, RelCrit, Finish, JnlWriteComplete, Loop, Goto
<1>4. CASE WritePool(p)  BY <1>0, <1>4 DEF WritePool, Goto
<1>5. CASE ReservePool(p)  BY <1>0, <1>5 DEF ReservePool, Goto
<1> QED  BY <1>1, <1>2, <1>3, <1>4, <1>5 DEF Step

LEMMA WrittenStep ==
  ASSUME TypeInv, NEW p \in Proc,
         (\E rs \in Updates : Begin(p, rs)) \/ Step(p) \/ Fail(p) \/ Kill(p)
  PROVE  /\ \A i \in Written' : i \in Written \/ (WritePool(p) /\ i = idx[p][POOL])
         /\ \A q \in Proc : q # p /\ pc'[q] = "cmt03b" => pc[q] = "cmt03b"
<1>1. Alone(p)  BY AloneIs
<1>2. ASSUME NEW i \in Written'  PROVE i \in Written \/ (WritePool(p) /\ i = idx[p][POOL])
  <2>1. PICK q \in Proc : pc'[q] = "cmt17c" /\ i = idx'[q][POOL]  BY <1>2 DEF Written
  <2>2. CASE q = p
    <3>1. WritePool(p)  BY <2>1, <2>2, Arrives
    <3>2. idx' = idx  BY <3>1 DEF WritePool
    <3> QED  BY <2>1, <2>2, <3>1, <3>2
  <2>3. CASE q # p
    <3>1. pc[q] = "cmt17c" /\ i = idx[q][POOL]  BY <1>1, <2>1, <2>3 DEF Alone
    <3> QED  BY <3>1 DEF Written
  <2> QED  BY <2>2, <2>3
<1> QED  BY <1>1, <1>2 DEF Alone

(* The entries of Written are in use. *)
LEMMA WrittenInUse ==
  ASSUME PoolInv
  PROVE  Written \subseteq InUse(pool)
<1> SUFFICES ASSUME NEW p \in Proc, pc[p] = "cmt17c"  PROVE idx[p][POOL] \in InUse(pool)
  BY DEF Written
<1>1. pc[p] \in Entered  BY DEF Entered, Phase2
<1> QED  BY <1>1 DEF PoolInv, Mine

LEMMA BegunTidied ==
  ASSUME NEW L \in Log, NEW M, NEW C, Tidied(M, L, C), Begun(L)
  PROVE  Begun(M)
<1>1. L.index2 \in Index  BY LogFields
<1>2. M.index2 = L.index2 /\ Alike(M.slot[L.index2], L.slot[L.index2])  BY <1>1 DEF Tidied
<1> QED  BY <1>2 DEF Begun, Alike

(* Steps that leave the pool to itself *)
LEMMA OrderSame ==
  ASSUME TypeInv, PoolInv, OrderInv, pool' = pool, read_addr' = read_addr, sent' = sent,
         Written' \subseteq Written, \A q \in Proc : pc'[q] = "cmt03b" => pc[q] = "cmt03b"
  PROVE  OrderInv' /\ NoNew(pool'.file, pool.file)
<1>1. PICK M, a, s : M = pool /\ a = read_addr /\ s = Len(sent) + 1  OBVIOUS
<1>2. Paved(M, Written, a, s)  BY <1>1, PavedNow
<1>3. \A q \in Proc : pc'[q] = "cmt03b" => Begun(M)  BY <1>1 DEF OrderInv
<1>4. OrderInv'  BY <1>1, <1>2, <1>3, OrderNext
<1> QED  BY <1>4 DEF NoNew

(* CMT02, and t_commit_cleanup *)
LEMMA OrderLess ==
  ASSUME TypeInv, TypeInv', PoolInv, PoolInv', OrderInv, NEW p \in Proc, GrabLock(p) \/ UndoPool(p)
  PROVE  OrderInv' /\ NoNew(pool'.file, pool.file)
<1>1. PICK L, M, a, s : L = pool /\ M = pool' /\ a = read_addr /\ s = Len(sent) + 1  OBVIOUS
<1>2. L \in Log /\ M \in Log /\ Chain(M) /\ Ordered(M)  BY <1>1 DEF TypeInv, TypeOK, PoolInv
<1>3. M = L \/ (\E h : M = CleanDeadPool(L, h)) \/ (M = Withdraw(L) /\ L.index1 # L.index2)
  BY <1>1 DEF GrabLock, UndoPool
<1>4. /\ M.free = L.free /\ M.index1 = L.index1 /\ M.file = L.file
      /\ InUse(M) \subseteq InUse(L) /\ M.slot = L.slot
  BY <1>2, <1>3, Shortened
<1>5. Paved(L, Written, a, s)  BY <1>1, PavedNow
<1>6. Paved(M, Written, a, s)  BY <1>2, <1>4, <1>5, PavedLess
<1>7. pc'[p] \in {"cmt03", "undodb"} /\ read_addr' = read_addr /\ sent' = sent
  BY DEF GrabLock, UndoPool, Goto, TypeInv, TypeOK, srcvars
<1>8. \A q \in Proc : q # p => pc[q] \notin PoolCrit
  <2>1. CASE GrabLock(p)
    <3>1. crit[POOL] \notin Proc \ {p} \/ pc[crit[POOL]] = "dead"
      BY <2>1, RegionIs DEF GrabLock, Alive
    <3> QED  BY <3>1, OneHolder
  <2>2. CASE UndoPool(p)
    <3>1. pc[p] \in PoolCrit  BY <2>2 DEF UndoPool, PoolCrit, CleaningUp
    <3> QED  BY <3>1, HolderKnows
  <2> QED  BY <2>1, <2>2
<1>9. Step(p)  BY DEF Step
<1>10. /\ \A i \in Written' : i \in Written \/ (WritePool(p) /\ i = idx[p][POOL])
       /\ \A q \in Proc : q # p /\ pc'[q] = "cmt03b" => pc[q] = "cmt03b"
  BY <1>9, WrittenStep
<1>11. ~WritePool(p)  BY DEF WritePool, GrabLock, UndoPool
<1>12. \A q \in Proc : pc'[q] # "cmt03b"  BY <1>7, <1>8, <1>10 DEF PoolCrit
<1>13. Written' \subseteq Written  BY <1>10, <1>11
<1>14. OrderInv'  BY <1>1, <1>6, <1>7, <1>12, <1>13, OrderNext
<1> QED  BY <1>1, <1>4, <1>14 DEF NoNew

(* CMT03 *)
LEMMA OrderReserve ==
  ASSUME TypeInv, TypeInv', PoolInv, PoolInv', OrderInv, NEW p \in Proc, ReservePool(p)
  PROVE  OrderInv' /\ NoNew(pool'.file, pool.file)
<1>1. PICK L, M, a, s, c : /\ L = pool /\ M = pool' /\ a = read_addr /\ s = Len(sent) + 1
                           /\ c = TRUE
  BY Zenon
<1>2. L \in Log /\ M \in Log /\ Chain(M) /\ Ordered(M)  BY <1>1 DEF TypeInv, TypeOK, PoolInv
<1>3. Paved(L, Written, a, s)  BY <1>1, PavedNow
<1>4. pc[p] = "cmt03" /\ read_addr' = read_addr /\ sent' = sent  BY DEF ReservePool, srcvars
<1>5. \A q \in Proc : q # p => pc[q] \notin PoolCrit
  <2>1. pc[p] \in PoolCrit  BY <1>4 DEF PoolCrit
  <2> QED  BY <2>1, HolderKnows
<1>6. Step(p)  BY DEF Step
<1>7. /\ \A i \in Written' : i \in Written \/ (WritePool(p) /\ i = idx[p][POOL])
      /\ \A q \in Proc : q # p /\ pc'[q] = "cmt03b" => pc[q] = "cmt03b"
  BY <1>6, WrittenStep
<1>8. ~WritePool(p)  BY <1>4 DEF WritePool
<1>9. Written' \subseteq Written /\ \A q \in Proc : q # p => pc'[q] # "cmt03b"
  BY <1>5, <1>7, <1>8 DEF PoolCrit
<1>10. CASE Full(L)
  <2>1. M = Cleanup(L, p, c, Alive) /\ pc' = pc  BY <1>1, <1>10 DEF ReservePool
  <2>2. Paved(M, Written, a, s) /\ NoNew(M.file, L.file)  BY <1>3, <2>1, PavedCleanup
  <2>3. \A q \in Proc : pc'[q] # "cmt03b"  BY <1>4, <1>9, <2>1
  <2>4. OrderInv'  BY <1>1, <1>4, <1>9, <2>2, <2>3, OrderNext
  <2> QED  BY <1>1, <2>2, <2>4
<1>11. CASE ~Full(L)
  <2>1. PICK t : t = PoolSlot(p)  OBVIOUS
  <2>2. M = Reserve(L, t)  BY <1>1, <1>11, <2>1 DEF ReservePool
  <2>3. t \in Slot  BY <2>1, SlotTypes
  <2>4. /\ M.free = L.free /\ M.index1 = L.index1 /\ M.index2 = L.index2 /\ M.file = L.file
        /\ M.slot[L.index2] = Placed(L, t)
        /\ \A i \in Index : i # L.index2 => M.slot[i] = L.slot[i]
    BY <1>2, <2>2, <2>3, ReserveIs
  <2>5. InUse(M) = InUse(L)  BY <2>4, InUseFrame
  <2>6. InUse(L) \subseteq Index /\ L.index2 \notin InUse(L) /\ DECR(L.index1) # L.index2
    BY <1>2, <1>11, InUseEnds
  <2>7. Entire(M, Written)
    <3>1. Entire(L, Written)  BY <1>3 DEF Paved
    <3> QED  BY <2>4, <2>5, <2>6, <3>1, EntireFewer
  <2>8. Track(M, a, s)
    <3>1. Track(L, a, s)  BY <1>3 DEF Paved
    <3>2. Kept(L, M)  BY <1>2, <2>4, KeptSame
    <3>3. DECR(L.index1) \in Index  BY <1>2, LogFields, IndexType
    <3>4. M.slot[DECR(L.index1)] = L.slot[DECR(L.index1)]  BY <2>4, <2>6, <3>3
    <3> QED  BY <2>4, <3>1, <3>2, <3>4, TrackSame
  <2>9. Paved(M, Written, a, s)  BY <1>2, <2>7, <2>8 DEF Paved
  <2>10. Begun(M)
    <3>1. PICK u, n : u = upd[p] /\ n = Cardinality(u)  OBVIOUS
    <3>2. u \subseteq 1 .. NReg /\ NReg \in Nat /\ u # {}
      BY <1>4, <3>1, CommitAssumption DEF TypeInv, TypeOK, InLoop, Region
    <3>3. IsFiniteSet(u)
      <4>1. PICK m : m = NReg  OBVIOUS
      <4>2. 1 \in Int /\ m \in Int  BY <3>2, <4>1
      <4>3. IsFiniteSet(1 .. m)  BY <4>2, FS_Interval
      <4> QED  BY <3>2, <4>1, <4>3, FS_Subset
    <3>4. n \in Nat /\ n # 0  BY <3>1, <3>2, <3>3, FS_CardinalityType, FS_EmptySet
    <3>5. t.tot_jrec_len = n /\ t.in_phase2  BY <2>1, <3>1 DEF PoolSlot
    <3>6. PICK v : v = Placed(L, t)  OBVIOUS
    <3>7. v.tot_jrec_len = t.tot_jrec_len /\ v.in_phase2 = t.in_phase2
      BY <1>2, <2>3, <3>6, PlacedIs, Zenon
    <3> QED  BY <2>4, <3>4, <3>5, <3>6, <3>7 DEF Begun
  <2>11. OrderInv'  BY <1>1, <1>4, <1>9, <2>9, <2>10, OrderNext
  <2> QED  BY <1>1, <2>4, <2>11 DEF NoNew
<1> QED  BY <1>10, <1>11

LEMMA OrderPublish ==
  ASSUME TypeInv, TypeInv', PoolInv, PoolInv', OrderInv, NEW p \in Proc, PublishPool(p)
  PROVE  OrderInv' /\ NoNew(pool'.file, pool.file)
<1>1. PICK L, M, a, s : L = pool /\ M = pool' /\ a = read_addr /\ s = Len(sent) + 1  OBVIOUS
<1>2. L \in Log /\ M \in Log /\ Chain(M) /\ Ordered(M)  BY <1>1 DEF TypeInv, TypeOK, PoolInv
<1>3. Paved(L, Written, a, s)  BY <1>1, PavedNow
<1>4. /\ pc[p] = "cmt03b" /\ pc'[p] = "cmt04" /\ M = Publish(L)
      /\ read_addr' = read_addr /\ sent' = sent
  BY <1>1 DEF PublishPool, Goto, TypeInv, TypeOK, srcvars
<1>5. /\ \A q \in Proc : q # p => pc[q] \notin PoolCrit
      /\ Stage("cmt03b", L, jnl_seqno, p, token[p], idx[p][POOL])
  <2>1. pc[p] \in PoolCrit  BY <1>4 DEF PoolCrit
  <2> QED  BY <1>1, <1>4, <2>1, HolderKnows
<1>6. ~Full(L) /\ ~L.slot[L.index2].write_complete  BY <1>5 DEF Stage, Reserved
<1>7. Step(p)  BY DEF Step
<1>8. /\ \A i \in Written' : i \in Written \/ (WritePool(p) /\ i = idx[p][POOL])
      /\ \A q \in Proc : q # p /\ pc'[q] = "cmt03b" => pc[q] = "cmt03b"
  BY <1>7, WrittenStep
<1>9. ~WritePool(p)  BY <1>4 DEF WritePool
<1>10. Written' \subseteq Written /\ \A q \in Proc : pc'[q] # "cmt03b"
  BY <1>4, <1>5, <1>8, <1>9 DEF PoolCrit
<1>11. /\ M.free = L.free /\ M.file = L.file /\ M.index1 = L.index1
       /\ M.index2 = INCR(L.index2) /\ M.slot = L.slot
  BY <1>2, <1>4, PublishIs
<1>12. InUse(M) = InUse(L) \cup {L.index2}  BY <1>2, <1>6, <1>11, InUsePublish
<1>13. Entire(M, Written)
  <2>1. Begun(L)  BY <1>1, <1>4 DEF OrderInv
  <2>2. L.index2 \notin Written  BY <1>1, <1>2, WrittenInUse, InUseEnds
  <2>3. Entire(L, Written)  BY <1>3 DEF Paved
  <2> QED  BY <1>6, <1>11, <1>12, <2>1, <2>2, <2>3 DEF Entire, Begun
<1>14. Track(M, a, s)
  <2>1. Track(L, a, s)  BY <1>3 DEF Paved
  <2>2. Kept(L, M)  BY <1>2, <1>11, KeptSame
  <2> QED  BY <1>11, <2>1, <2>2, TrackSame
<1>15. Paved(M, Written, a, s)  BY <1>2, <1>13, <1>14 DEF Paved
<1>16. OrderInv'  BY <1>1, <1>4, <1>10, <1>15, OrderNext
<1> QED  BY <1>1, <1>11, <1>16 DEF NoNew

(* CMT17: the header is stored ... *)
LEMMA OrderWrite ==
  ASSUME TypeInv, TypeInv', PoolInv, PoolInv', OrderInv, NEW p \in Proc, WritePool(p)
  PROVE  /\ OrderInv'
         /\ \A k \in 1 .. Len(pool'.file) :
              \/ pool'.file[k] = UpdateRecord(pool, p, idx[p][POOL]) \/ pool'.file[k] = Garbage
              \/ k \in 1 .. Len(pool.file) /\ pool'.file[k] = pool.file[k]
<1>1. PICK L, M, x, s, i : /\ L = pool /\ M = pool' /\ x = read_addr /\ s = Len(sent) + 1
                           /\ i = idx[p][POOL]
  OBVIOUS
<1>2. L \in Log /\ M \in Log /\ Chain(M) /\ Ordered(M)  BY <1>1 DEF TypeInv, TypeOK, PoolInv
<1>3. Paved(L, Written, x, s)  BY <1>1, PavedNow
<1>4. pc[p] = "cmt17" /\ pc'[p] = "cmt17c" /\ read_addr' = read_addr /\ sent' = sent
  BY DEF WritePool, Goto, TypeInv, TypeOK, srcvars
<1>5. pc[p] \in Entered  BY <1>4 DEF Entered, Phase2
<1>6. i \in InUse(L) /\ i \in Index /\ L.slot[i].jnl_seqno = token[p]
  BY <1>1, <1>5 DEF PoolInv, Mine, InUse
<1>7. PICK a, rec, f : /\ a = L.slot[i].start /\ rec = UpdateRecord(L, p, i)
                       /\ f = Store(L.file, a, rec)
  OBVIOUS
<1>8. rec \in Record  BY <1>2, <1>6, <1>7, SlotTypes
<1>9. M = [L EXCEPT !.file = f]  BY <1>1, <1>7 DEF WritePool
<1>10. a \in Nat /\ L.file \in Seq(Record)  BY <1>2, <1>6, <1>7, LogFields, SlotFields
<1>11. f \in Seq(Record)  BY <1>7, <1>8, <1>10, StoreIs
<1>12. /\ M.free = L.free /\ M.index1 = L.index1 /\ M.index2 = L.index2 /\ M.slot = L.slot
       /\ M.file = f
  BY <1>2, <1>9, <1>11, FileIs
<1>13. Entire(M, Written \cup {i})
  <2>1. rec.jnl_seqno = L.slot[i].jnl_seqno /\ rec.len = L.slot[i].tot_jrec_len
    BY <1>6, <1>7 DEF UpdateRecord
  <2>2. Chain(L) /\ Entire(L, Written)  BY <1>3 DEF Paved
  <2>3. M.file = Store(L.file, L.slot[i].start, rec)  BY <1>7, <1>12
  <2> QED  BY <1>2, <1>6, <1>8, <1>12, <2>1, <2>2, <2>3, EntireStore
<1>14. Track(M, x, s)
  <2>1. Chain(L) /\ Track(L, x, s)  BY <1>3 DEF Paved
  <2>2. L.free <= a  BY <1>2, <1>6, <1>7, <2>1, AboveFree
  <2>3. Kept(L, M)  BY <1>2, <1>7, <1>8, <1>10, <1>12, <2>2, KeptStore
  <2> QED  BY <1>12, <2>1, <2>3, TrackSame
<1>15. Paved(M, Written \cup {i}, x, s)  BY <1>2, <1>13, <1>14 DEF Paved
<1>16. Step(p)  BY DEF Step
<1>17. /\ \A j \in Written' : j \in Written \/ (WritePool(p) /\ j = idx[p][POOL])
       /\ \A q \in Proc : q # p /\ pc'[q] = "cmt03b" => pc[q] = "cmt03b"
  BY <1>16, WrittenStep
<1>18. Written' \subseteq Written \cup {i}  BY <1>1, <1>17
<1>19. \A q \in Proc : pc'[q] = "cmt03b" => Begun(M)
  BY <1>1, <1>4, <1>12, <1>17 DEF OrderInv, Begun
<1>20. OrderInv'  BY <1>1, <1>4, <1>15, <1>18, <1>19, OrderNext
<1>21. \A k \in 1 .. Len(f) :
         f[k] = rec \/ f[k] = Garbage \/ (k \in 1 .. Len(L.file) /\ f[k] = L.file[k])
  <2> SUFFICES ASSUME NEW k \in 1 .. Len(f)
               PROVE  f[k] = rec \/ f[k] = Garbage \/ (k \in 1 .. Len(L.file) /\ f[k] = L.file[k])
    OBVIOUS
  <2>1. Stored(f, L.file, a, rec)  BY <1>7, <1>8, <1>10, StoreStores
  <2>2. f[k] = IF k = a + 1 THEN rec ELSE IF k <= Len(L.file) THEN L.file[k] ELSE Garbage
    BY <2>1 DEF Stored
  <2>3. Len(L.file) \in Nat /\ k \in Nat /\ k >= 1  BY <1>10, <1>11, LenProperties
  <2> QED  BY <2>2, <2>3
<1> QED  BY <1>1, <1>7, <1>12, <1>20, <1>21

(* ... and marked complete. *)
LEMMA OrderComplete ==
  ASSUME TypeInv, TypeInv', PoolInv, PoolInv', OrderInv, NEW p \in Proc, PoolWriteComplete(p)
  PROVE  OrderInv' /\ NoNew(pool'.file, pool.file)
<1>1. PICK L, M, a, s, i, c : /\ L = pool /\ M = pool' /\ a = read_addr /\ s = Len(sent) + 1
                              /\ i = idx[p][POOL] /\ c = FALSE
  BY Zenon
<1>2. L \in Log /\ M \in Log  BY <1>1 DEF TypeInv, TypeOK
<1>3. Paved(L, Written, a, s)  BY <1>1, PavedNow
<1>4. /\ pc[p] = "cmt17c" /\ pc'[p] = "idle" /\ M = WriteComplete(L, i, p, c, Alive)
      /\ read_addr' = read_addr /\ sent' = sent
  BY <1>1 DEF PoolWriteComplete, TypeInv, TypeOK, srcvars
<1>5. i \in Written /\ i \in InUse(L)  BY <1>1, <1>4, WrittenInUse DEF Written
<1>6. Paved(M, Written, a, s) /\ NoNew(M.file, L.file)
  BY <1>3, <1>4, <1>5, PavedWriteComplete
<1>7. Step(p)  BY DEF Step
<1>8. /\ \A j \in Written' : j \in Written \/ (WritePool(p) /\ j = idx[p][POOL])
      /\ \A q \in Proc : q # p /\ pc'[q] = "cmt03b" => pc[q] = "cmt03b"
  BY <1>7, WrittenStep
<1>9. ~WritePool(p)  BY <1>4 DEF WritePool
<1>10. Written' \subseteq Written  BY <1>8, <1>9
<1>11. \E C : Tidied(M, L, C)
  <2>1. i \in Index  BY <1>5 DEF InUse
  <2> QED  BY <1>2, <1>4, <2>1, WriteCompleteIs
<1>12. \A q \in Proc : pc'[q] = "cmt03b" => Begun(M)
  <2> SUFFICES ASSUME NEW q \in Proc, pc'[q] = "cmt03b"  PROVE Begun(M)  OBVIOUS
  <2>1. pc[q] = "cmt03b"  BY <1>4, <1>8
  <2>2. Begun(L)  BY <1>1, <2>1 DEF OrderInv
  <2> QED  BY <1>2, <1>11, <2>2, BegunTidied
<1>13. OrderInv'  BY <1>1, <1>4, <1>6, <1>10, <1>12, OrderNext
<1> QED  BY <1>1, <1>6, <1>13

(* The source server reads the next seqno, and moves on by its length. *)
LEMMA OrderRead ==
  ASSUME TypeInv, TypeInv', PoolInv, PoolInv', OrderInv, SourceRead
  PROVE  /\ OrderInv' /\ NoNew(pool'.file, pool.file)
         /\ \E rec : /\ sent' = Append(sent, rec) /\ rec.jnl_seqno = Len(sent) + 1
                     /\ rec = Fetch(pool'.file, read_addr)
<1>1. PICK L, M, a, s, c : /\ L = pool /\ M = pool' /\ a = read_addr /\ s = Len(sent) + 1
                           /\ c = FALSE
  BY Zenon
<1>2. L \in Log /\ M \in Log /\ a \in Nat /\ sent \in Seq(Record) /\ sent' \in Seq(Record)
  BY <1>1 DEF TypeInv, TypeOK
<1>3. Paved(L, Written, a, s)  BY <1>1, PavedNow
<1>4. PICK rec : rec = Fetch(M.file, a)  OBVIOUS
<1>5. /\ M = Cleanup(L, NoProc, c, Alive) /\ a < M.free /\ sent' = Append(sent, rec)
      /\ read_addr' = a + rec.len /\ pc' = pc /\ idx' = idx
  BY <1>1, <1>4 DEF SourceRead, procvars
<1>6. Paved(M, Written, a, s) /\ NoNew(M.file, L.file)  BY <1>3, <1>5, PavedCleanup
<1>7. a # M.free
  <2>1. M.free \in Nat  BY <1>2, LogFields
  <2> QED  BY <1>2, <1>5, <2>1
<1>8. rec.jnl_seqno = s /\ Track(M, a + rec.len, s + 1)
  <2>1. Track(M, a, s)  BY <1>6 DEF Paved
  <2> QED  BY <1>4, <1>7, <2>1, TrackRead
<1>9. Paved(M, Written, a + rec.len, s + 1)  BY <1>6, <1>8 DEF Paved
<1>10. Len(sent') + 1 = s + 1
  <2>1. PICK z : z = sent  OBVIOUS
  <2>2. z \in Seq(Record) /\ Append(z, rec) \in Seq(Record)  BY <1>2, <1>5, <2>1
  <2>3. Len(Append(z, rec)) = Len(z) + 1  BY <2>2
  <2> QED  BY <1>1, <1>5, <2>1, <2>3
<1>11. Written' = Written  BY <1>5 DEF Written
<1>12. \A q \in Proc : pc'[q] = "cmt03b" => Begun(M)
  <2> SUFFICES ASSUME NEW q \in Proc, pc'[q] = "cmt03b"  PROVE Begun(M)  OBVIOUS
  <2>1. Begun(L)  BY <1>1, <1>5 DEF OrderInv
  <2>2. \E C : Tidied(M, L, C)  BY <1>2, <1>5, CleanupIs
  <2> QED  BY <1>2, <2>1, <2>2, BegunTidied
<1>13. OrderInv'  BY <1>1, <1>5, <1>9, <1>10, <1>11, <1>12, OrderNext
<1> QED  BY <1>1, <1>4, <1>5, <1>6, <1>8, <1>13

LEMMA OrderSalvage ==
  ASSUME TypeInv, TypeInv', PoolInv, PoolInv', OrderInv, SourceSalvage
  PROVE  OrderInv' /\ NoNew(pool'.file, pool.file)
<1>1. PICK L, M, a, s, c : /\ L = pool /\ M = pool' /\ a = read_addr /\ s = Len(sent) + 1
                           /\ c = TRUE
  BY Zenon
<1>2. L \in Log /\ Chain(L) /\ Ordered(L)  BY <1>1 DEF TypeInv, TypeOK, PoolInv
<1>3. Paved(L, Written, a, s)  BY <1>1, PavedNow
<1>4. PICK K : K = IF crit[POOL] = NoProc THEN L ELSE CleanDeadPool(L, crit[POOL])  OBVIOUS
<1>5. /\ M = Cleanup(K, NoProc, c, Alive) /\ crit[POOL] \notin Alive /\ pc' = pc /\ idx' = idx
      /\ read_addr' = read_addr /\ sent' = sent
  BY <1>1, <1>4 DEF SourceSalvage, procvars, srcvars
<1>6. K \in Log /\ Chain(K) /\ Ordered(K)
  <2>1. CASE crit[POOL] = NoProc  BY <1>2, <1>4, <2>1
  <2>2. CASE crit[POOL] # NoProc
    <3>1. PICK h : h = crit[POOL]  OBVIOUS
    <3>2. h \in Proc /\ pc[h] = "dead" /\ crit[POOL] = h /\ K = CleanDeadPool(pool, h)
      BY <1>1, <1>4, <1>5, <2>2, <3>1 DEF Alive, TypeInv, TypeOK
    <3> QED  BY <3>2, CleanPool
  <2> QED  BY <2>1, <2>2
<1>7. /\ K.free = L.free /\ K.index1 = L.index1 /\ K.file = L.file
      /\ InUse(K) \subseteq InUse(L) /\ K.slot = L.slot
  BY <1>2, <1>4, Shortened
<1>8. Paved(K, Written, a, s)  BY <1>3, <1>6, <1>7, PavedLess
<1>9. Paved(M, Written, a, s) /\ NoNew(M.file, K.file)  BY <1>5, <1>8, PavedCleanup
<1>10. Written' = Written  BY <1>5 DEF Written
<1>11. \A q \in Proc : pc'[q] # "cmt03b"
  <2> SUFFICES ASSUME NEW q \in Proc, pc[q] = "cmt03b"  PROVE FALSE  BY <1>5
  <2>1. crit[POOL] = q  BY DEF PoolInv, Held, PoolCrit
  <2> QED  BY <1>5, <2>1 DEF Alive
<1>12. OrderInv'  BY <1>1, <1>5, <1>9, <1>10, <1>11, OrderNext
<1> QED  BY <1>1, <1>7, <1>9, <1>12

LEMMA OrderStep ==
  ASSUME TypeInv, TypeInv', PoolInv, PoolInv', OrderInv, [Next]_vars
  PROVE  OrderInv' /\ (NoNew(pool'.file, pool.file) \/ \E p \in Proc : WritePool(p))
<1>1. ASSUME NEW p \in Proc,
             \/ \E rs \in Updates : Begin(p, rs)
             \/ GrabCrit(p) \/ Recover(p) \/ RecoverWritten(p) \/ RecoverDone(p) \/ EarlyTn(p)
             \/ ReserveJnl(p) \/ PublishJnl(p) \/ SetJnlSeqno(p) \/ UpdateUnderway(p)
             \/ SetRegSeqno(p) \/ IncrementCurrTn(p) \/ RelCrit(p) \/ RelLock(p) \/ Finish(p)
             \/ UndoDB(p) \/ UndoRel(p) \/ WriteJnl(p) \/ JnlWriteComplete(p) \/ Fail(p) \/ Kill(p)
      PROVE  OrderInv' /\ NoNew(pool'.file, pool.file)
  <2>1. pool' = pool /\ read_addr' = read_addr /\ sent' = sent
    BY <1>1 DEF Begin, GrabCrit, Recover, RecoverWritten, RecoverDone, EarlyTn, ReserveJnl, PublishJnl,
                SetJnlSeqno, UpdateUnderway, SetRegSeqno, IncrementCurrTn, RelCrit, RelLock,
                Finish, UndoDB, UndoRel, WriteJnl, JnlWriteComplete, Fail, Kill, srcvars
  <2>2. (\E rs \in Updates : Begin(p, rs)) \/ Step(p) \/ Fail(p) \/ Kill(p)  BY <1>1 DEF Step
  <2>3. ~WritePool(p) /\ ~(ReservePool(p) /\ ~Full(pool))
    <3>1. CASE Kill(p)
      <4>1. pc'[p] = "dead"  BY <3>1 DEF Kill, TypeInv, TypeOK
      <4>2. ~WritePool(p)  BY <4>1 DEF WritePool, Goto, TypeInv, TypeOK
      <4>3. ~(ReservePool(p) /\ ~Full(pool))  BY <4>1 DEF ReservePool, Goto, TypeInv, TypeOK
      <4> QED  BY <4>2, <4>3
    <3>2. CASE ~Kill(p)
      <4>1. pc[p] \notin {"cmt17", "cmt03"}
        BY <1>1, <3>2, CommitAssumption DEF Fail, Begin, GrabCrit, Recover, RecoverWritten, RecoverDone, EarlyTn,
           ReserveJnl, PublishJnl, SetJnlSeqno, UpdateUnderway, SetRegSeqno, IncrementCurrTn,
           RelCrit, RelLock, Finish, UndoDB, UndoRel, WriteJnl, JnlWriteComplete
      <4> QED  BY <4>1 DEF WritePool, ReservePool
    <3> QED  BY <3>1, <3>2
  <2>4. pc'[p] # "cmt03b"  BY <2>2, <2>3, Arrives
  <2>5. /\ \A i \in Written' : i \in Written \/ (WritePool(p) /\ i = idx[p][POOL])
        /\ \A q \in Proc : q # p /\ pc'[q] = "cmt03b" => pc[q] = "cmt03b"
    BY <2>2, WrittenStep
  <2>6. Written' \subseteq Written /\ \A q \in Proc : pc'[q] = "cmt03b" => pc[q] = "cmt03b"
    BY <2>3, <2>4, <2>5
  <2> QED  BY <2>1, <2>6, OrderSame
<1>2. ASSUME (\E r \in Region : JnlCleanup(r)) \/ UNCHANGED vars
      PROVE  OrderInv' /\ NoNew(pool'.file, pool.file)
  <2>1. pool' = pool /\ read_addr' = read_addr /\ sent' = sent /\ pc' = pc /\ idx' = idx
    BY <1>2 DEF JnlCleanup, vars, procvars, srcvars
  <2>2. Written' = Written  BY <2>1 DEF Written
  <2> QED  BY <2>1, <2>2, OrderSame
<1>3. ASSUME NEW p \in Proc, Step(p)
      PROVE  OrderInv' /\ (NoNew(pool'.file, pool.file) \/ WritePool(p))
  BY <1>1, <1>3, OrderLess, OrderReserve, OrderPublish, OrderWrite, OrderComplete DEF Step
<1> QED  BY <1>1, <1>2, <1>3, OrderRead, OrderSalvage DEF Next, Source

(* An update in the pool is of a transaction that was committed. *)
LEMMA PoolBacked ==
  ASSUME PoolOk, NEW k \in 1 .. Len(pool.file), NEW rec, rec = pool.file[k], rec.kind = "update"
  PROVE  rec.jnl_seqno \in 1 .. jnl_seqno - 1
<1>1. RecOk(POOL, rec)  BY DEF PoolOk, FileOk
<1>2. rec # Garbage  BY DEF Garbage
<1> QED  BY <1>1, <1>2 DEF RecOk, Names

LEMMA BackPool ==
  ASSUME TypeInv, TypeInv', TokenInv, PoolInv, PoolInv', JnlInv, JnlInv', RecInv, OrderInv,
         BackInv, [Next]_vars, NEW k \in 1 .. Len(pool'.file), NEW rec, rec = pool'.file[k]
  PROVE  Backed(rec)'
<1>1. History  BY HistoryStep DEF RecInv
<1>2. ASSUME k \in 1 .. Len(pool.file), rec = pool.file[k]  PROVE Backed(rec)'
  <2>1. Backed(rec)  BY <1>2 DEF BackInv
  <2>2. rec.kind = "update" => rec.jnl_seqno \in 1 .. jnl_seqno - 1
    BY <1>2, PoolBacked DEF RecInv
  <2>3. TxnInv  BY DEF RecInv
  <2> QED  BY <1>1, <2>1, <2>2, <2>3, BackedLater
<1>3. ASSUME rec.kind # "update"  PROVE Backed(rec)'  BY <1>3 DEF Backed
<1>4. CASE NoNew(pool'.file, pool.file)
  <2>1. rec.kind = "update" => k \in 1 .. Len(pool.file) /\ rec = pool.file[k]
    BY <1>4 DEF NoNew
  <2> QED  BY <1>2, <1>3, <2>1
<1>5. CASE \E p \in Proc : WritePool(p)
  <2>1. PICK p \in Proc : WritePool(p)  BY <1>5
  <2>2. PICK u : u = UpdateRecord(pool, p, idx[p][POOL])  OBVIOUS
  <2>3. \/ rec = u \/ rec = Garbage
        \/ k \in 1 .. Len(pool.file) /\ rec = pool.file[k]
    BY <2>1, <2>2, OrderWrite
  <2>4. CASE rec = Garbage
    <3>1. rec.kind # "update"  BY <2>4 DEF Garbage
    <3> QED  BY <1>3, <3>1
  <2>5. CASE rec = u
    <3>1. PICK t : t = token[p]  OBVIOUS
    <3>2. rec.jnl_seqno = t  BY <2>2, <2>5, <3>1 DEF UpdateRecord
    <3>3. pc[p] = "cmt17" /\ jb' = jb /\ txn' = txn  BY <2>1 DEF WritePool, histvars
    <3>4. txn[t].upd = upd[p]  BY <3>1, <3>3 DEF RecInv, TxnInv, Committed, Phase2
    <3>5. Past(pc[p], upd[p], rem[p]) = upd[p]  BY <3>3 DEF Past
    <3>6. \A r \in upd[p] : Filled(jb[r], t)  BY <3>1, <3>5 DEF BackInv
    <3>7. \A r \in txn'[t].upd : Filled(jb'[r], t)  BY <3>3, <3>4, <3>6
    <3> QED  BY <3>2, <3>7 DEF Backed
  <2> QED  BY <1>2, <2>3, <2>4, <2>5
<1> QED  BY <1>4, <1>5, OrderStep

LEMMA BackStep ==
  ASSUME TypeInv, TypeInv', TokenInv, PoolInv, PoolInv', JnlInv, JnlInv', RecInv, RecInv',
         OrderInv, BackInv, [Next]_vars
  PROVE  BackInv'
<1>1. \A p \in Proc : \A r \in Past(pc'[p], upd'[p], rem'[p]) : Filled(jb'[r], token'[p])
  BY PastLater
<1>2. \A k \in 1 .. Len(pool'.file) : Backed(pool.file[k])'
  <2> SUFFICES ASSUME NEW k \in 1 .. Len(pool'.file)  PROVE Backed(pool.file[k])'  OBVIOUS
  <2>1. PICK rec : rec = pool'.file[k]  OBVIOUS
  <2>2. Backed(rec)'  BY <2>1, BackPool
  <2> QED  BY <2>1, <2>2 DEF Backed
<1>3. History  BY HistoryStep DEF RecInv
<1>4. sent \in Seq(Record) /\ sent' \in Seq(Record) /\ jnl_seqno \in Nat /\ jnl_seqno' \in Nat
  BY DEF TypeInv, TypeOK
<1>5. ASSUME NEW k \in 1 .. Len(sent), sent'[k] = sent[k]
      PROVE  k \in 1 .. jnl_seqno' - 1 /\ sent'[k].jnl_seqno = k /\ Backed(sent[k])'
  <2>1. PICK rec : rec = sent[k]  OBVIOUS
  <2>2. k \in 1 .. jnl_seqno - 1 /\ rec.jnl_seqno = k /\ Backed(rec)  BY <2>1 DEF BackInv
  <2>3. TxnInv  BY DEF RecInv
  <2>4. Backed(rec)'  BY <1>3, <2>2, <2>3, BackedLater
  <2>5. k \in 1 .. jnl_seqno' - 1
    <3>1. PICK m, n : m = jnl_seqno /\ n = jnl_seqno'  OBVIOUS
    <3>2. m \in Nat /\ n \in Nat /\ m <= n  BY <1>3, <1>4, <3>1 DEF History
    <3>3. k \in 1 .. m - 1  BY <2>2, <3>1
    <3>4. k \in 1 .. n - 1  BY <3>2, <3>3
    <3> QED  BY <3>1, <3>4
  <2>6. Backed(sent[k])'  BY <1>5, <2>1, <2>4 DEF Backed
  <2> QED  BY <1>5, <2>1, <2>2, <2>5, <2>6
<1>6. \A k \in 1 .. Len(sent') :
        k \in 1 .. jnl_seqno' - 1 /\ sent'[k].jnl_seqno = k /\ Backed(sent[k])'
  <2>1. CASE sent' = sent  BY <1>5, <2>1
  <2>2. CASE SourceRead
    <3>1. PICK rec : /\ sent' = Append(sent, rec) /\ rec.jnl_seqno = Len(sent) + 1
                     /\ rec = Fetch(pool'.file, read_addr)
      BY <2>2, OrderRead
    <3>2. PICK n, z, a : n = Len(sent) + 1 /\ z = sent /\ a = read_addr  OBVIOUS
    <3>3. n \in Nat \ {0} /\ a \in Nat  BY <1>4, <3>2 DEF TypeInv, TypeOK
    <3>4. /\ Len(sent') = n /\ sent'[n] = rec
          /\ \A k \in 1 .. Len(sent) : sent'[k] = sent[k]
      <4>1. z \in Seq(Record) /\ Append(z, rec) \in Seq(Record)  BY <1>4, <3>1, <3>2
      <4>2. /\ Len(Append(z, rec)) = Len(z) + 1 /\ Append(z, rec)[Len(z) + 1] = rec
            /\ \A k \in 1 .. Len(z) : Append(z, rec)[k] = z[k]
        BY <4>1
      <4> QED  BY <3>1, <3>2, <4>2
    <3>5. rec # Garbage  BY <3>1, <3>2, <3>3 DEF Garbage
    <3>6. PICK f : f = pool'.file  OBVIOUS
    <3>7. Len(f) \in Nat
      <4>1. pool' \in Log  BY DEF TypeInv, TypeOK
      <4> QED  BY <3>6, <4>1, LogFields
    <3>8. a + 1 \in 1 .. Len(f) /\ rec = f[a + 1]  BY <3>1, <3>2, <3>3, <3>5, <3>6, <3>7 DEF Fetch
    <3>9. PICK m \in 1 .. Len(pool'.file) : rec = pool'.file[m]  BY <3>6, <3>8
    <3>10. Backed(rec)'  BY <3>9, BackPool
    <3>11. n \in 1 .. jnl_seqno' - 1
      <4>1. RecOk(POOL, rec)'  BY <3>9 DEF RecInv, PoolOk, FileOk
      <4> QED  BY <3>1, <3>2, <3>3, <3>5, <4>1 DEF RecOk, Names
    <3> SUFFICES ASSUME NEW k \in 1 .. Len(sent')
                 PROVE  k \in 1 .. jnl_seqno' - 1 /\ sent'[k].jnl_seqno = k /\ Backed(sent[k])'
      OBVIOUS
    <3>12. CASE k = n
      <4>1. Backed(sent[k])'  BY <3>4, <3>10, <3>12 DEF Backed
      <4> QED  BY <3>1, <3>2, <3>4, <3>11, <3>12, <4>1
    <3>13. CASE k # n
      <4>1. k \in 1 .. Len(sent)  BY <1>4, <3>2, <3>3, <3>4, <3>13
      <4> QED  BY <1>5, <3>4, <4>1
    <3> QED  BY <3>12, <3>13
  <2>3. sent' = sent \/ SourceRead
    <3>1. ASSUME NEW p \in Proc, (\E rs \in Updates : Begin(p, rs)) \/ Step(p) \/ Fail(p) \/ Kill(p)
          PROVE  sent' = sent
      BY <3>1 DEF Step, Begin, GrabCrit, Recover, RecoverWritten, RecoverDone, EarlyTn, ReserveJnl,
         PublishJnl, SetJnlSeqno, UpdateUnderway, SetRegSeqno, IncrementCurrTn, RelCrit, RelLock, Finish, UndoDB,
         UndoRel, WriteJnl, JnlWriteComplete, Fail, Kill, GrabLock, ReservePool, PublishPool,
         WritePool, PoolWriteComplete, UndoPool, srcvars
    <3>2. ASSUME (\E r \in Region : JnlCleanup(r)) \/ SourceSalvage \/ UNCHANGED vars
          PROVE  sent' = sent
      BY <3>2 DEF JnlCleanup, SourceSalvage, srcvars, vars
    <3> QED  BY <3>1, <3>2 DEF Next, Source
  <2> QED  BY <2>1, <2>2, <2>3
<1> QED  BY <1>1, <1>2, <1>6 DEF BackInv

LEMMA ShipInit == Init => OrderInv /\ BackInv
<1> SUFFICES ASSUME Init  PROVE OrderInv /\ BackInv  OBVIOUS
<1>1. pool = EmptyLog /\ read_addr = 0 /\ sent = <<>> /\ \A p \in Proc : pc[p] = "idle"
  BY DEF Init
<1>2. Entire(pool, Written)  BY <1>1, EmptyIs DEF Entire
<1>3. Track(pool, read_addr, Len(sent) + 1)
  <2>1. pool.free = 0 /\ pool.index1 = 0 /\ pool.file = <<>>  BY <1>1 DEF EmptyLog
  <2>2. pool.slot[DECR(pool.index1)].jnl_seqno = 0
    <3>1. DECR(pool.index1) \in Index  BY <2>1, IndexType
    <3> QED  BY <1>1, <3>1, EmptyIs DEF EmptySlot
  <2>3. Len(sent) = 0  BY <1>1
  <2>4. Due(pool, {}, read_addr, Len(sent) + 1)  BY <1>1, <2>1, <2>2, <2>3 DEF Due
  <2>5. Trail(pool, {})  BY DEF Trail
  <2> QED  BY <2>4, <2>5 DEF Track
<1>4. OrderInv  BY <1>1, <1>2, <1>3 DEF OrderInv
<1>5. \A p \in Proc : Past(pc[p], upd[p], rem[p]) = {}  BY <1>1 DEF Past
<1>6. Len(pool.file) = 0 /\ Len(sent) = 0  BY <1>1 DEF EmptyLog
<1>7. BackInv  BY <1>5, <1>6 DEF BackInv
<1> QED  BY <1>4, <1>7

LEMMA ShipIs ==
  ASSUME TypeInv, RecInv, BackInv
  PROVE  ShippedIsJournaled
<1>1. sent \in Seq(Record) /\ txn \in Seq([by : Proc, upd : SUBSET Region])
  BY DEF TypeInv, TypeOK
<1>2. Len(txn) \in Nat /\ Len(txn) + 1 = jnl_seqno  BY <1>1 DEF RecInv, TxnInv
<1>3. ASSUME NEW s \in 1 .. Len(sent)
      PROVE  /\ sent[s].jnl_seqno = s
             /\ sent[s].kind = "update" =>
                  \A r \in txn[s].upd : \E i \in DOMAIN jb[r].file :
                    jb[r].file[i].kind = "update" /\ jb[r].file[i].jnl_seqno = s
  <2>1. s \in 1 .. jnl_seqno - 1 /\ sent[s].jnl_seqno = s /\ Backed(sent[s])  BY DEF BackInv
  <2>2. s \in 1 .. Len(txn)  BY <1>2, <2>1
  <2>3. txn[s] \in [by : Proc, upd : SUBSET Region]  BY <1>1, <2>2, ElementOfSeq
  <2>4. ASSUME sent[s].kind = "update", NEW r \in txn[s].upd
        PROVE  \E i \in DOMAIN jb[r].file :
                 jb[r].file[i].kind = "update" /\ jb[r].file[i].jnl_seqno = s
    <3>1. r \in Region  BY <2>3
    <3>2. Filled(jb[r], s)  BY <2>1, <2>4 DEF Backed
    <3>3. jb[r] \in Log  BY <3>1 DEF TypeInv, TypeOK
    <3>4. DOMAIN jb[r].file = 1 .. Len(jb[r].file)  BY <3>3, LogFields, LenProperties
    <3> QED  BY <3>2, <3>4 DEF Filled
  <2> QED  BY <2>1, <2>4
<1>4. DOMAIN sent = 1 .. Len(sent)  BY <1>1, LenProperties
<1> QED  BY <1>3, <1>4 DEF ShippedIsJournaled

(* If no process is killed between the stores of UPDATE_JPL_RSRV_WRITE_ADDR   *)
(* and no commit meets an error between CMT04 and CMT06 (LateErrors), the     *)
(* source server sends the seqnos 1, 2, 3 ... in order, and sends an          *)
(* update only if the journal of every region of its transaction has the      *)
(* update under the same seqno (CMT16 of all regions comes before CMT17, and  *)
(* what a salvage nullifies in one of them was nullified in the pool too),    *)
(* for any number of processes, regions and faults, and any interleaving of   *)
(* committers, salvagers and the source server.                               *)
THEOREM ShippedJournaled ==
  ASSUME LateErrors, "cmt03b" \notin KillPoints
  PROVE  Spec => []ShippedIsJournaled
<1> DEFINE Inv == TypeInv /\ TokenInv /\ PoolInv /\ JnlInv /\ RecInv /\ OrderInv /\ BackInv
<1>1. Init => Inv  BY TypeInit, TokenInit, PoolInit, JnlInit, RecInit, ShipInit
<1>2. Inv /\ [Next]_vars => Inv'
  <2> SUFFICES ASSUME Inv, [Next]_vars  PROVE Inv'  OBVIOUS
  <2>1. TypeInv'  BY TypeStep
  <2>2. TokenInv' /\ PoolInv'  BY TokenStep, PoolStep
  <2>3. JnlInv'  BY <2>1, JnlStep
  <2>4. RecInv'  BY <2>1, RecStep
  <2>5. OrderInv'  BY <2>1, <2>2, OrderStep
  <2>6. BackInv'  BY <2>1, <2>2, <2>3, <2>4, BackStep
  <2> QED  BY <2>1, <2>2, <2>3, <2>4, <2>5, <2>6
<1>3. Inv => ShippedIsJournaled  BY ShipIs
<1> QED  BY <1>1, <1>2, <1>3, PTL DEF Spec
=============================================================================
