---------------------------- MODULE CacheProofs -----------------------------
(***************************************************************************)
(* Proofs about Database.tla, 2: the buffer cache and the optimistic       *)
(* transactions on it.  Core, the invariant of the buffers, is inductive   *)
(* by itself; CommitInv, StartInv, SnapInv and FinalInv rest on it.        *)
(***************************************************************************)
EXTENDS DatabaseProofs

USE DEF NoProc, NoBlock, Torn

(* What validation has shown of a block of the path *)
LEMMA StillValidIs ==
  ASSUME Types, JobInv, CritInv, PinInv, BtInv, HistInv, NEW p \in Proc, Valid(p), NEW b \in ToSet(Path(p)),
         NEW c, c = hist[p][b].cr
  PROVE  /\ b \in Block /\ c \in Buffer /\ cr[c].blk = b /\ cr[c].cycle = hist[p][b].cycle /\ cr[c].rip = NoProc
         /\ Ver(b).tn < hist[p][b].tn /\ hist[p][b].ver = Ver(b)
         /\ cr[c].in_tend = NoProc /\ \A q \in Proc : b \notin Pinned(q)
<1>1. /\ pc[p] = "valid" /\ ToSet(Path(p)) \subseteq Block /\ StillValid(b, hist[p][b])
  BY ValidIs
<1>2. b \in Block /\ hist[p][b] \in HistRec  BY <1>1 DEF Types, HistTypes
<1>3. c \in Buffer /\ hist[p][b].tn \in Nat  BY <1>2, HistFields
<1>4. cr[c].blk = b /\ cr[c].cycle = hist[p][b].cycle  BY <1>1 DEF StillValid, CrOf
<1>5. Ver(b).tn < hist[p][b].tn
  <2>1. Covers(b, Ver(b).tn)  BY <1>2 DEF BtInv
  <2>2. Ver(b).tn \in Nat  BY VersionIs DEF Ver, Types, FileTypes
  <2>3. bt \in Seq(BtRec) /\ bt # << >>  BY DEF Types, BufTypes, BtRec
  <2>4. \A i \in 1 .. Len(bt) : bt[i].tn \in Nat
    <3>1. \A i \in 1 .. Len(bt) : bt[i] \in BtRec  BY <2>3
    <3> QED  BY <3>1 DEF BtRec
  <2>5. Head(bt) = bt[1] /\ 1 \in 1 .. Len(bt)  BY <2>3
  <2>6. CASE BtOf(b) = {}
    <3>1. Ver(b).tn <= bt[1].tn /\ hist[p][b].tn > bt[1].tn
      BY <1>1, <2>1, <2>5, <2>6 DEF Covers, StillValid, OLDEST_HIST_TN
    <3> QED  BY <1>3, <2>2, <2>4, <2>5, <3>1
  <2>7. CASE BtOf(b) # {}
    <3>1. PICK i \in BtOf(b) : TRUE  BY <2>7
    <3>2. i \in 1 .. Len(bt)  BY DEF BtOf
    <3>3. Ver(b).tn <= bt[i].tn /\ hist[p][b].tn > bt[i].tn  BY <1>1, <2>1, <3>1 DEF Covers, StillValid
    <3> QED  BY <1>3, <2>2, <2>4, <3>2, <3>3
  <2> QED  BY <2>6, <2>7
<1>6. b \in LookSet(p) /\ b \in SeenSet(p)  BY <1>1 DEF LookSet, SeenSet, AtEnd, InCommit
<1>7. Found(p, b, c) /\ Seen(p, b, c)  BY <1>2, <1>3, <1>6 DEF HistInv, HistFor
<1>8. cr[c].rip = NoProc /\ Settled(c) /\ hist[p][b].ver = Ver(b)  BY <1>4, <1>5, <1>7 DEF Found, Seen
<1>9. \A q \in Proc : pc[q] \notin InCommit
  BY <1>1 DEF CritInv, CritFor, InCommit
<1>10. \A q \in Proc : cr[c].in_tend # q  BY <1>8, <1>9 DEF Settled
<1>11. cr[c].in_tend = NoProc  BY <1>3, <1>10, CrFields
<1>12. \A q \in Proc : b \notin Tending(q)  BY <1>3, <1>4, <1>10 DEF PinInv
<1>13. \A q \in Proc : b \notin Pinned(q)  BY <1>9, <1>12 DEF Tending, Pinned
<1> QED  BY <1>2, <1>3, <1>4, <1>5, <1>8, <1>11, <1>13

LEMMA PinValid ==
  ASSUME Types, JobInv, CritInv, PinInv, BtInv, HistInv, NEW p \in Proc, Valid(p), Others(p)
  PROVE  PinInv'
<1>1. /\ Upd(p) \subseteq ToSet(Path(p)) /\ ToSet(Path(p)) \subseteq Block /\ Buffer' = Buffer
      /\ Tending(p) = {} /\ Tending(p)' = {} /\ Pinned(p) = {} /\ Pinned(p)' = Upd(p)
      /\ \A c \in Buffer : /\ SameId(c) /\ cr'[c].in_tend = cr[c].in_tend
                           /\ cr'[c].in_cw_set = IF cr[c].blk \in Upd(p) THEN p ELSE cr[c].in_cw_set
      /\ \A b \in Block : hist'[p][b].cr = hist[p][b].cr /\ hist'[p][b].cycle = hist[p][b].cycle
  BY ValidIs
<1>2. \A q \in Proc \ {p} : Tending(q)' = Tending(q) /\ Pinned(q)' = Pinned(q)  BY OtherSame DEF SameSets
<1>3. \A b \in Upd(p), q \in Proc : b \notin Pinned(q)  BY <1>1, StillValidIs
<1>4. \A c, d \in Buffer' : cr'[c].blk # NoBlock /\ cr'[c].blk = cr'[d].blk => c = d
  BY <1>1 DEF PinInv, SameId
<1>5. \A c \in Buffer', q \in Proc : cr'[c].in_tend = q <=> cr'[c].blk \in Tending(q)'
  BY <1>1, <1>2 DEF PinInv, SameId
<1>6. ASSUME NEW c \in Buffer', NEW q \in Proc  PROVE cr'[c].in_cw_set = q <=> cr'[c].blk \in Pinned(q)'
  <2>1. cr'[c].blk = cr[c].blk /\ c \in Buffer  BY <1>1 DEF SameId
  <2>2. cr[c].in_cw_set = q <=> cr[c].blk \in Pinned(q)  BY <2>1 DEF PinInv
  <2>3. CASE cr[c].blk \in Upd(p)
    <3>1. cr'[c].in_cw_set = p /\ cr[c].blk \notin Pinned(q)  BY <1>1, <1>3, <2>1, <2>3
    <3> QED  BY <1>1, <1>2, <2>1, <2>3, <3>1
  <2>4. CASE cr[c].blk \notin Upd(p)
    <3>1. cr'[c].in_cw_set = cr[c].in_cw_set  BY <1>1, <2>1, <2>4
    <3> QED  BY <1>1, <1>2, <2>1, <2>2, <2>4, <3>1
  <2> QED  BY <2>3, <2>4
<1>7. ASSUME NEW q \in Proc, NEW b \in Pinned(q)'
      PROVE  LET h == hist'[q][b] IN cr'[h.cr].blk = b /\ cr'[h.cr].cycle = h.cycle /\ cr'[h.cr].rip = NoProc
  <2>1. CASE q = p
    <3>1. b \in ToSet(Path(p)) /\ b \in Block  BY <1>1, <1>7, <2>1
    <3>2. PICK c : c = hist[p][b].cr  OBVIOUS
    <3>3. c \in Buffer /\ cr[c].blk = b /\ cr[c].cycle = hist[p][b].cycle /\ cr[c].rip = NoProc
      BY <3>1, <3>2, StillValidIs
    <3>4. SameId(c) /\ hist'[p][b].cr = c /\ hist'[p][b].cycle = hist[p][b].cycle  BY <1>1, <3>1, <3>2, <3>3
    <3> QED  BY <2>1, <3>3, <3>4 DEF SameId
  <2>2. CASE q # p
    <3>1. b \in Pinned(q) /\ b \in Block /\ hist'[q] = hist[q]  BY <1>2, <1>7, <2>2, TendingPinned DEF Others
    <3>2. hist[q][b] \in HistRec  BY <3>1 DEF Types, HistTypes
    <3>3. hist[q][b].cr \in Buffer  BY <3>2, HistFields
    <3> QED  BY <1>1, <3>1, <3>3 DEF PinInv, Kept, SameId
  <2> QED  BY <2>1, <2>2
<1> QED  BY <1>4, <1>5, <1>6, <1>7 DEF PinInv, Kept

-----------------------------------------------------------------------------
(* ReadInv: a buffer is left alone by all but its reader until the read from the file is done *)

(* A buffer that is being read is left alone by all but its reader. *)
LEMMA ReadFrame ==
  ASSUME Types, JobInv, ReadInv, NEW p, Others(p), Buffer' = Buffer,
         p \in Proc => pc[p] # "read" /\ pc'[p] # "read",
         \A c \in Buffer : /\ SameId(c)
                           /\ cr[c].rip # NoProc /\ cr[c].dirty = 0 /\ cr[c].latch = "clear" /\ ~cr[c].queued => SameWtr(c)
  PROVE  ReadInv'
<1>1. \A q \in Proc : q # p => pc'[q] = pc[q] /\ Blk(q)' = Blk(q) /\ Hist(q)' = Hist(q)
  BY OtherSets DEF Others
<1>2. ASSUME NEW c \in Buffer', NEW q \in Proc, cr'[c].rip = q
      PROVE  pc'[q] = "read" /\ Hist(q)'.cr = c
  <2>1. cr[c].rip = q  BY <1>2 DEF SameId
  <2>2. pc[q] = "read" /\ Hist(q).cr = c  BY <1>2, <2>1 DEF ReadInv
  <2> QED  BY <1>1, <2>2
<1>3. ASSUME NEW q \in Proc, pc'[q] = "read"
      PROVE  LET r == cr'[Hist(q)'.cr] IN
               /\ r.rip = q /\ r.blk = Blk(q)' /\ Hist(q)'.cycle = r.cycle
               /\ r.dirty = 0 /\ r.latch = "clear" /\ ~r.queued
  <2>1. pc[q] = "read" /\ Blk(q)' = Blk(q) /\ Hist(q)' = Hist(q)  BY <1>1, <1>3
  <2>2. PICK c : c = Hist(q).cr  OBVIOUS
  <2>3. Hist(q) \in HistRec  BY <2>1, JobFacts
  <2>4. c \in Buffer  BY <2>2, <2>3, HistFields
  <2>5. /\ cr[c].rip = q /\ cr[c].blk = Blk(q) /\ Hist(q).cycle = cr[c].cycle
        /\ cr[c].dirty = 0 /\ cr[c].latch = "clear" /\ ~cr[c].queued
    BY <2>1, <2>2 DEF ReadInv
  <2>6. SameId(c) /\ SameWtr(c)  BY <2>4, <2>5, BlockNat
  <2> QED  BY <2>1, <2>2, <2>5, <2>6 DEF SameId, SameWtr
<1> QED  BY <1>2, <1>3 DEF ReadInv

LEMMA ReadNewBuffer ==
  ASSUME Types, Types', JobInv, ReadInv, WtrInv, NEW p \in Proc, NewBuffer(p), Others(p)
  PROVE  ReadInv'
<1>1. PICK c \in Reusable(p) :
        /\ c \in Buffer /\ Only(c) /\ cr'[c].rip = p /\ cr'[c].blk = Blk(p) /\ cr'[c].cycle = cr[c].cycle + 1
        /\ SameLock(c) /\ SameWtr(c) /\ Hist(p)'.cr = c /\ Hist(p)'.cycle = cr[c].cycle + 1
  BY NewBufferIs
<1>2. pc[p] = "getn" /\ pc'[p] = "read" /\ Blk(p)' = Blk(p)  BY NewBufferIs
<1>3. cr[c].dirty = 0 /\ cr[c].latch = "clear" /\ cr[c].rip = NoProc  BY <1>1 DEF Reusable
<1>4. ~cr[c].queued  BY <1>1, <1>3 DEF WtrInv, WtrFor
<1>5. Buffer' = Buffer /\ \A d \in Buffer \ {c} : SameAll(d)  BY <1>1, OnlyAll DEF Only
<1>6. \A q \in Proc \ {p} : pc'[q] = pc[q] /\ Blk(q)' = Blk(q) /\ Hist(q)' = Hist(q)
  BY OtherSets DEF Others
<1>7. ASSUME NEW d \in Buffer', NEW q \in Proc, cr'[d].rip = q
      PROVE  pc'[q] = "read" /\ Hist(q)'.cr = d
  <2>1. CASE d = c  BY <1>1, <1>2, <1>7, <2>1
  <2>2. CASE d # c
    <3>1. cr[d].rip = q  BY <1>5, <1>7, <2>2 DEF SameAll, SameId
    <3>2. pc[q] = "read" /\ Hist(q).cr = d  BY <1>5, <3>1 DEF ReadInv
    <3> QED  BY <1>2, <1>6, <3>2
  <2> QED  BY <2>1, <2>2
<1>8. ASSUME NEW q \in Proc, pc'[q] = "read"
      PROVE  LET r == cr'[Hist(q)'.cr] IN
               /\ r.rip = q /\ r.blk = Blk(q)' /\ Hist(q)'.cycle = r.cycle
               /\ r.dirty = 0 /\ r.latch = "clear" /\ ~r.queued
  <2>1. CASE q = p  BY <1>1, <1>2, <1>3, <1>4, <2>1 DEF SameWtr
  <2>2. CASE q # p
    <3>1. pc[q] = "read" /\ Blk(q)' = Blk(q) /\ Hist(q)' = Hist(q)  BY <1>6, <1>8, <2>2
    <3>2. PICK d : d = Hist(q).cr  OBVIOUS
    <3>3. Hist(q) \in HistRec  BY <3>1, JobFacts
    <3>4. d \in Buffer  BY <3>2, <3>3, HistFields
    <3>5. /\ cr[d].rip = q /\ cr[d].blk = Blk(q) /\ Hist(q).cycle = cr[d].cycle
          /\ cr[d].dirty = 0 /\ cr[d].latch = "clear" /\ ~cr[d].queued
      BY <3>1, <3>2 DEF ReadInv
    <3>6. d # c  BY <1>3, <3>5, BlockNat
    <3>7. SameId(d) /\ SameWtr(d)  BY <1>5, <3>4, <3>6 DEF SameAll
    <3> QED  BY <3>1, <3>2, <3>5, <3>7 DEF SameId, SameWtr
  <2> QED  BY <2>1, <2>2
<1> QED  BY <1>7, <1>8 DEF ReadInv

LEMMA ReadDskRead ==
  ASSUME Types, JobInv, ReadInv, NEW p \in Proc, DskRead(p), Others(p)
  PROVE  ReadInv'
<1>0. PICK c : c = Hist(p).cr  OBVIOUS
<1>1. c \in Buffer /\ Only(c) /\ cr'[c].rip = NoProc /\ pc[p] = "read" /\ pc'[p] = "look"
  BY <1>0, DskReadIs
<1>2. cr[c].rip = p  BY <1>0, <1>1 DEF ReadInv
<1>5. Buffer' = Buffer /\ \A d \in Buffer \ {c} : SameAll(d)  BY <1>1, OnlyAll DEF Only
<1>6. \A q \in Proc \ {p} : pc'[q] = pc[q] /\ Blk(q)' = Blk(q) /\ Hist(q)' = Hist(q)
  BY OtherSets DEF Others
<1>7. ASSUME NEW d \in Buffer', NEW q \in Proc, cr'[d].rip = q
      PROVE  pc'[q] = "read" /\ Hist(q)'.cr = d
  <2>1. d # c  BY <1>1, <1>7, BlockNat
  <2>2. cr[d].rip = q  BY <1>5, <1>7, <2>1 DEF SameAll, SameId
  <2>3. pc[q] = "read" /\ Hist(q).cr = d  BY <1>5, <2>2 DEF ReadInv
  <2>4. q # p  BY <1>0, <2>1, <2>3
  <2> QED  BY <1>6, <2>3, <2>4
<1>8. ASSUME NEW q \in Proc, pc'[q] = "read"
      PROVE  LET r == cr'[Hist(q)'.cr] IN
               /\ r.rip = q /\ r.blk = Blk(q)' /\ Hist(q)'.cycle = r.cycle
               /\ r.dirty = 0 /\ r.latch = "clear" /\ ~r.queued
  <2>0. q # p  BY <1>1, <1>8
  <2>1. pc[q] = "read" /\ Blk(q)' = Blk(q) /\ Hist(q)' = Hist(q)  BY <1>6, <1>8, <2>0
  <2>2. PICK d : d = Hist(q).cr  OBVIOUS
  <2>3. Hist(q) \in HistRec  BY <2>1, JobFacts
  <2>4. d \in Buffer  BY <2>2, <2>3, HistFields
  <2>5. /\ cr[d].rip = q /\ cr[d].blk = Blk(q) /\ Hist(q).cycle = cr[d].cycle
        /\ cr[d].dirty = 0 /\ cr[d].latch = "clear" /\ ~cr[d].queued
    BY <2>1, <2>2 DEF ReadInv
  <2>6. d # c  BY <1>2, <2>0, <2>5
  <2>7. SameId(d) /\ SameWtr(d)  BY <1>5, <2>4, <2>6 DEF SameAll
  <2> QED  BY <2>1, <2>2, <2>5, <2>7 DEF SameId, SameWtr
<1> QED  BY <1>7, <1>8 DEF ReadInv

LEMMA ReadRest ==
  ASSUME Types, JobInv, PinInv, ReadInv, NEW p \in Proc, Others(p), Valid(p) \/ BufStep(p)
  PROVE  ReadInv'
<1>0. PICK b, c : b = Cse(p) /\ c = CseCr(p)  OBVIOUS
<1>1. ASSUME Turn(p, b, c), Only(c), SameId(c)
      PROVE  Buffer' = Buffer /\ \A d \in Buffer : SameId(d) /\ (cr[d].rip # NoProc => SameWtr(d))
  BY <1>1, OnlyAll DEF Turn, Only, SameAll
<1>2. /\ Buffer' = Buffer /\ \A d \in Buffer : SameId(d) /\ (cr[d].rip # NoProc => SameWtr(d))
      /\ pc[p] # "read" /\ pc'[p] # "read"
  <2>1. CASE Valid(p)  BY <2>1, ValidIs
  <2>2. CASE Phase1(p)
    <3>1. Turn(p, b, c) /\ Only(c) /\ SameId(c) /\ pc[p] = "cmt10" /\ pc'[p] \in Early
      BY <1>0, <2>2, Phase1Is DEF DirtiedIs
    <3> QED  BY <1>1, <3>1 DEF Early
  <2>3. CASE Phase1Wait(p)
    <3>1. Turn(p, b, c) /\ Only(c) /\ SameId(c) /\ pc[p] = "cmt10w" /\ pc'[p] \in Early
      BY <1>0, <2>3, Phase1WaitIs DEF DirtiedIs
    <3> QED  BY <1>1, <3>1 DEF Early
  <2>4. CASE IncrementTn(p)
    <3>1. cr' = cr /\ pc[p] = "cmt12" /\ pc'[p] = "cmt16"  BY <2>4, IncrementIs
    <3> QED  BY <3>1 DEF SameId, SameWtr, Buffer
  <2>5. CASE BuildStart(p)
    <3>1. Turn(p, b, c) /\ Only(c) /\ SameId(c) /\ pc[p] = "cmt18a" /\ pc'[p] = "cmt18b"
      BY <1>0, <2>5, BuildStartIs
    <3> QED  BY <1>1, <3>1
  <2>6. CASE BuildEnd(p)
    <3>1. Turn(p, b, c) /\ Only(c) /\ SameId(c) /\ pc[p] = "cmt18b" /\ pc'[p] = "cmt18c"
      BY <1>0, <2>6, BuildEndIs
    <3> QED  BY <1>1, <3>1
  <2>7. CASE Release(p)
    <3>1. Turn(p, b, c) /\ Only(c) /\ SameId(c) /\ pc[p] = "cmt18c" /\ pc'[p] = "cmt18d"
      BY <1>0, <2>7, ReleaseIs
    <3> QED  BY <1>1, <3>1
  <2>8. CASE ResetInTend(p)
    <3>1. Turn(p, b, c) /\ Only(c) /\ SameId(c) /\ pc[p] = "cmt18d" /\ pc'[p] \in {"idle", "cmt18a"}
      BY <1>0, <2>8, ResetIs
    <3> QED  BY <1>1, <3>1
  <2> QED  BY <2>1, <2>2, <2>3, <2>4, <2>5, <2>6, <2>7, <2>8 DEF BufStep
<1> QED  BY <1>2, ReadFrame

LEMMA ReadWriter ==
  ASSUME Types, JobInv, WtrInv, ReadInv, NEW w \in Writer, WtStep(w)
  PROVE  ReadInv'
<1>1. ASSUME NEW c \in Buffer, Only(c), SameId(c), cr[c].dirty # 0 \/ cr[c].latch # "clear" \/ cr[c].queued
      PROVE  ReadInv'
  <2>1. /\ Buffer' = Buffer
        /\ \A d \in Buffer :
             /\ SameId(d)
             /\ cr[d].rip # NoProc /\ cr[d].dirty = 0 /\ cr[d].latch = "clear" /\ ~cr[d].queued => SameWtr(d)
    BY <1>1, OnlyAll DEF Only, SameAll
  <2>2. Others(NoProc) /\ NoProc \notin Proc  BY OthersWriter, BlockNat
  <2> QED  BY <2>1, <2>2, ReadFrame
<1>2. ASSUME NEW c \in Buffer, WtStart(w, c)  PROVE ReadInv'  BY <1>1, <1>2, WtStartIs
<1>3. PICK c : c = wtr[w].cr  OBVIOUS
<1>4. CASE WtLock(w)
  <2>1. c \in Buffer /\ Only(c) /\ SameId(c) /\ wtr[w].pc = "lock"  BY <1>3, <1>4, WtLockIs
  <2>2. cr[c].dirty # 0  BY <1>3, <2>1 DEF WtrInv, WtrFor, Busy
  <2> QED  BY <1>1, <2>1, <2>2
<1>5. CASE WtWrite(w)
  <2>1. c \in Buffer /\ Only(c) /\ SameId(c) /\ wtr[w].pc = "write"  BY <1>3, <1>5, WtWriteIs
  <2>2. cr[c].dirty # 0  BY <1>3, <2>1 DEF WtrInv, WtrFor, Busy
  <2> QED  BY <1>1, <2>1, <2>2
<1>6. CASE WtRelease(w)
  <2>1. c \in Buffer /\ Only(c) /\ SameId(c) /\ wtr[w].pc = "release"  BY <1>3, <1>6, WtReleaseIs
  <2>2. cr[c].latch # "clear"  BY <1>3, <2>1 DEF WtrInv, WtrFor, Busy
  <2> QED  BY <1>1, <2>1, <2>2
<1> QED  BY <1>2, <1>4, <1>5, <1>6 DEF WtStep

-----------------------------------------------------------------------------
(* BtInv: the BT remembers every change, or that something as late has been forgotten *)

(* The BT is left alone, and so are the versions of the blocks. *)
LEMMA BtFrame ==
  ASSUME Types, BtInv, bt' = bt, curr_tn' = curr_tn, jnl' = jnl,
         \A q \in Proc : /\ pc'[q] \in InCommit => (pc[q] \in InCommit /\ Tending(q)' \subseteq Tending(q)) \/ Tending(q)' = {}
                         /\ pc[q] \in Early => pc'[q] \in Early
  PROVE  BtInv'
<1>1. \A b \in Block : Ver(b)' = Ver(b)  BY JnlSame, SameVer
<1>2. \A b, t : Covers(b, t)' <=> Covers(b, t)  BY DEF Covers, BtOf
<1>3. \A b \in Block : Covers(b, Ver(b).tn)'
  BY <1>1, <1>2 DEF BtInv, Covers, BtOf
<1>4. ASSUME NEW q \in Proc, pc'[q] \in InCommit, NEW b \in Tending(q)'  PROVE Covers(b, curr_tn)'
  <2>1. pc[q] \in InCommit /\ b \in Tending(q)  BY <1>4
  <2>2. Covers(b, curr_tn)  BY <2>1 DEF BtInv
  <2> QED  BY <2>2 DEF Covers, BtOf
<1>5. \A i \in 1 .. Len(bt') : bt'[i].tn = curr_tn' => \E q \in Proc : pc'[q] \in Early  BY DEF BtInv
<1> QED  BY <1>3, <1>4, <1>5 DEF BtInv

LEMMA BtFields ==
  ASSUME Types
  PROVE  /\ Len(bt) \in Nat /\ Len(bt) > 0 /\ \A i \in 1 .. Len(bt) : bt[i].tn \in Nat
         /\ Head(bt) = bt[1] /\ 1 \in 1 .. Len(bt)
<1>1. bt \in Seq(BtRec) /\ bt # << >>  BY DEF Types, BufTypes, BtRec
<1>2. \A i \in 1 .. Len(bt) : bt[i] \in BtRec  BY <1>1
<1> QED  BY <1>1, <1>2 DEF BtRec

LEMMA VerNat ==
  ASSUME Types, NEW b
  PROVE  Ver(b).tn \in Nat /\ Ver(b).tn < curr_tn /\ Ver(b).blk = b /\ curr_tn \in Nat /\ Ver(b) = [blk |-> b, tn |-> Ver(b).tn]
BY VersionIs DEF Ver, Types, FileTypes

(* bt_put forgets no change: the record of b is new, and the one it may displace is the oldest. *)
LEMMA BtPutCovers ==
  ASSUME Types, BtInv, NEW b \in Block, BtPut(b), curr_tn' = curr_tn
  PROVE  /\ \A i, j \in 1 .. Len(bt') : i < j => bt'[i].tn <= bt'[j].tn
         /\ \A i, j \in 1 .. Len(bt') : bt'[i].blk # NoBlock /\ bt'[i].blk = bt'[j].blk => i = j
         /\ \A i \in 1 .. Len(bt') : bt'[i].tn <= curr_tn
         /\ \A d \in Block, t \in Nat : t <= curr_tn /\ Covers(d, t) => Covers(d, t)'
         /\ Covers(b, curr_tn)'
<1>1. PICK n : n = Len(bt)  OBVIOUS
<1>2. n \in Nat /\ n > 0 /\ \A i \in 1 .. n : bt[i].tn \in Nat  BY <1>1, BtFields
<1>3. bt' \in Seq(BtRec) /\ Len(bt') = n  BY <1>1, BtPutIs
<1>4. PICK k \in 1 .. n : /\ (BtOf(b) = {} /\ k = 1) \/ k \in BtOf(b)
                          /\ \A j \in 1 .. n : bt'[j] = IF j < k THEN bt[j] ELSE IF j < n THEN bt[j + 1]
                                                        ELSE [blk |-> b, tn |-> curr_tn]
  BY <1>1, BtPutIs
<1>5. /\ \A i, j \in 1 .. n : i < j => bt[i].tn <= bt[j].tn
      /\ \A i, j \in 1 .. n : bt[i].blk # NoBlock /\ bt[i].blk = bt[j].blk => i = j
      /\ \A i \in 1 .. n : bt[i].tn <= curr_tn
  BY <1>1 DEF BtInv
<1>6. curr_tn \in Nat  BY DEF Types, FileTypes
<1>7. bt'[n] = [blk |-> b, tn |-> curr_tn]  BY <1>2, <1>4
<1>8. \A j \in 1 .. n : j < k => bt'[j] = bt[j]  BY <1>4
<1>9. \A j \in 1 .. n : j >= k /\ j < n => bt'[j] = bt[j + 1]  BY <1>4
<1>10. bt'[n].tn = curr_tn /\ bt'[n].blk = b  BY <1>7
<1>11. \A i, j \in 1 .. n : i < j => bt'[i].tn <= bt'[j].tn
  <2> TAKE i, j \in 1 .. n
  <2> HAVE i < j
  <2>1. CASE j = n
    <3>1. CASE i < k  BY <1>5, <1>8, <1>10, <2>1, <3>1
    <3>2. CASE i >= k
      <4>1. bt'[i] = bt[i + 1] /\ i + 1 \in 1 .. n  BY <1>2, <1>9, <2>1, <3>2
      <4> QED  BY <1>5, <1>10, <2>1, <4>1
    <3> QED  BY <1>2, <3>1, <3>2
  <2>2. CASE j # n
    <3>1. PICK i2 \in 1 .. n : bt'[i] = bt[i2] /\ ((i2 = i /\ i < k) \/ (i2 = i + 1 /\ i >= k))
      <4>1. CASE i < k  BY <1>8, <4>1
      <4>2. CASE i >= k
        <5>1. bt'[i] = bt[i + 1] /\ i + 1 \in 1 .. n  BY <1>2, <1>9, <2>2, <4>2
        <5> QED  BY <4>2, <5>1
      <4> QED  BY <4>1, <4>2
    <3>2. PICK j2 \in 1 .. n : bt'[j] = bt[j2] /\ ((j2 = j /\ j < k) \/ (j2 = j + 1 /\ j >= k))
      <4>1. CASE j < k  BY <1>8, <4>1
      <4>2. CASE j >= k
        <5>1. bt'[j] = bt[j + 1] /\ j + 1 \in 1 .. n  BY <1>2, <1>9, <2>2, <4>2
        <5> QED  BY <4>2, <5>1
      <4> QED  BY <4>1, <4>2
    <3>3. i2 < j2  BY <3>1, <3>2
    <3> QED  BY <1>5, <3>1, <3>2, <3>3
  <2> QED  BY <2>1, <2>2
<1>12. \A j \in 1 .. n : j # n => \E j2 \in 1 .. n : bt'[j] = bt[j2] /\ j2 # k /\ ((j2 = j /\ j < k) \/ (j2 = j + 1 /\ j >= k))
  <2> TAKE j \in 1 .. n
  <2> HAVE j # n
  <2>1. CASE j < k  BY <1>8, <2>1
  <2>2. CASE j >= k
    <3>1. bt'[j] = bt[j + 1] /\ j + 1 \in 1 .. n  BY <1>2, <1>9, <2>2
    <3>2. j + 1 # k  BY <2>2
    <3> QED  BY <2>2, <3>1, <3>2
  <2> QED  BY <2>1, <2>2
<1>13. \A j \in 1 .. n : j # n => bt'[j].blk # b
  <2> TAKE j \in 1 .. n
  <2> HAVE j # n
  <2>1. PICK j2 \in 1 .. n : bt'[j] = bt[j2] /\ j2 # k  BY <1>12
  <2>2. ASSUME bt[j2].blk = b  PROVE FALSE
    <3>1. j2 \in BtOf(b)  BY <1>1, <2>2 DEF BtOf
    <3>2. k \in BtOf(b)  BY <1>4, <3>1
    <3>3. bt[k].blk = b  BY <3>2 DEF BtOf
    <3> QED  BY <1>5, <2>1, <2>2, <3>3, BlockNat
  <2> QED  BY <2>1, <2>2
<1>14. \A i, j \in 1 .. n : bt'[i].blk # NoBlock /\ bt'[i].blk = bt'[j].blk => i = j
  <2> TAKE i, j \in 1 .. n
  <2> HAVE bt'[i].blk # NoBlock /\ bt'[i].blk = bt'[j].blk
  <2>1. CASE i = n \/ j = n  BY <1>10, <1>13, <2>1
  <2>2. CASE i # n /\ j # n
    <3>1. PICK i2 \in 1 .. n : bt'[i] = bt[i2] /\ ((i2 = i /\ i < k) \/ (i2 = i + 1 /\ i >= k))  BY <1>12, <2>2
    <3>2. PICK j2 \in 1 .. n : bt'[j] = bt[j2] /\ ((j2 = j /\ j < k) \/ (j2 = j + 1 /\ j >= k))  BY <1>12, <2>2
    <3>3. i2 = j2  BY <1>5, <3>1, <3>2
    <3> QED  BY <3>1, <3>2, <3>3
  <2> QED  BY <2>1, <2>2
<1>15. \A i \in 1 .. n : bt'[i].tn <= curr_tn
  <2> TAKE i \in 1 .. n
  <2>1. CASE i = n  BY <1>6, <1>10, <2>1
  <2>2. CASE i # n  BY <1>5, <1>12, <2>2
  <2> QED  BY <2>1, <2>2
<1>16. bt[1].tn <= bt'[1].tn
  <2>1. 1 \in 1 .. n  BY <1>2
  <2>2. CASE n = 1  BY <1>5, <1>10, <2>1, <2>2
  <2>3. CASE n # 1
    <3>1. PICK j2 \in 1 .. n : bt'[1] = bt[j2]  BY <1>12, <2>1, <2>3
    <3>2. j2 = 1 \/ 1 < j2  OBVIOUS
    <3>3. bt[1].tn <= bt[1].tn  BY <1>2, <2>1
    <3> QED  BY <1>5, <2>1, <3>1, <3>2, <3>3
  <2> QED  BY <2>2, <2>3
<1>17. Head(bt') = bt'[1] /\ Head(bt) = bt[1] /\ 1 \in 1 .. n /\ bt'[1].tn \in Nat
  <2>1. bt' # << >> /\ 1 \in 1 .. n  BY <1>2, <1>3
  <2>2. bt'[1] \in BtRec  BY <1>3, <2>1
  <2> QED  BY <1>3, <2>1, <2>2, BtFields DEF BtRec
<1>18. ASSUME NEW d \in Block, NEW t \in Nat, t <= curr_tn, Covers(d, t)  PROVE Covers(d, t)'
  <2>1. ASSUME NEW i \in 1 .. n, bt'[i].blk = d  PROVE t <= bt'[i].tn
    <3>1. CASE i = n  BY <1>10, <1>18, <3>1
    <3>2. CASE i # n
      <4>1. PICK j \in 1 .. n : bt'[i] = bt[j]  BY <1>12, <3>2
      <4>2. j \in BtOf(d)  BY <1>1, <2>1, <4>1 DEF BtOf
      <4> QED  BY <1>18, <4>1, <4>2 DEF Covers
    <3> QED  BY <3>1, <3>2
  <2>2. ASSUME \A i \in 1 .. n : bt'[i].blk # d  PROVE t <= bt'[1].tn
    <3>1. CASE BtOf(d) = {}
      <4>1. t <= bt[1].tn  BY <1>17, <1>18, <3>1 DEF Covers
      <4> QED  BY <1>2, <1>16, <1>17, <4>1
    <3>2. CASE BtOf(d) # {}
      <4>1. PICK j \in BtOf(d) : TRUE  BY <3>2
      <4>2. j \in 1 .. n /\ bt[j].blk = d  BY <1>1, <4>1 DEF BtOf
      <4>3. j = k
        <5>1. ASSUME j < k  PROVE FALSE  BY <1>8, <2>2, <4>2, <5>1
        <5>2. ASSUME j > k  PROVE FALSE
          <6>1. j - 1 \in 1 .. n /\ j - 1 >= k /\ j - 1 < n /\ (j - 1) + 1 = j  BY <1>2, <4>2, <5>2
          <6>2. bt'[j - 1] = bt[j]  BY <1>9, <6>1
          <6> QED  BY <2>2, <4>2, <6>1, <6>2
        <5> QED  BY <4>2, <5>1, <5>2
      <4>4. d # b  BY <1>2, <1>10, <2>2
      <4>5. k \notin BtOf(b)  BY <4>2, <4>3, <4>4 DEF BtOf
      <4>6. k = 1  BY <1>4, <4>5
      <4>7. t <= bt[1].tn  BY <1>18, <4>1, <4>3, <4>6 DEF Covers
      <4> QED  BY <1>2, <1>16, <1>17, <4>7
    <3> QED  BY <3>1, <3>2
  <2> QED  BY <1>3, <1>17, <2>1, <2>2 DEF Covers, BtOf
<1>19. Covers(b, curr_tn)'
  <2>1. ASSUME NEW i \in 1 .. n, bt'[i].blk = b  PROVE curr_tn <= bt'[i].tn  BY <1>6, <1>10, <1>13, <2>1
  <2>2. n \in 1 .. n /\ bt'[n].blk = b  BY <1>2, <1>10
  <2> QED  BY <1>3, <2>1, <2>2 DEF Covers, BtOf
<1> QED  BY <1>3, <1>11, <1>14, <1>15, <1>18, <1>19

LEMMA BtPhase1 ==
  ASSUME Types, JobInv, CritInv, PinInv, BtInv, NEW p \in Proc, Others(p), Phase1(p)
  PROVE  BtInv'
<1>0. PICK b, c : b = Cse(p) /\ c = CseCr(p)  OBVIOUS
<1>1. /\ Turn(p, b, c) /\ CommitFrame(p) /\ BtPut(b) /\ curr_tn' = curr_tn /\ pc[p] = "cmt10" /\ pc'[p] \in Early
      /\ Tending(p)' = Tending(p) \cup {b}
  BY <1>0, Phase1Is
<1>2. b \in Block /\ jnl' = jnl  BY <1>1 DEF Turn, CommitFrame
<1>3. /\ \A i, j \in 1 .. Len(bt') : i < j => bt'[i].tn <= bt'[j].tn
      /\ \A i, j \in 1 .. Len(bt') : bt'[i].blk # NoBlock /\ bt'[i].blk = bt'[j].blk => i = j
      /\ \A i \in 1 .. Len(bt') : bt'[i].tn <= curr_tn
      /\ \A d \in Block, t \in Nat : t <= curr_tn /\ Covers(d, t) => Covers(d, t)'
      /\ Covers(b, curr_tn)'
  BY <1>1, <1>2, BtPutCovers
<1>4. \A d \in Block : Ver(d)' = Ver(d)  BY <1>1, <1>2, JnlSame, SameVer
<1>5. ASSUME NEW d \in Block  PROVE Covers(d, Ver(d).tn)'
  <2>1. PICK t : t = Ver(d).tn  OBVIOUS
  <2>2. t \in Nat /\ t <= curr_tn /\ Covers(d, t)  BY <2>1, VerNat DEF BtInv
  <2>3. Covers(d, t)' /\ Ver(d)'.tn = t  BY <1>3, <1>4, <2>1, <2>2
  <2> QED  BY <2>3 DEF Covers
<1>6. ASSUME NEW q \in Proc, pc'[q] \in InCommit, NEW d \in Tending(q)'  PROVE Covers(d, curr_tn)'
  <2>1. q = p
    <3>1. q # p => pc[q] \in InCommit  BY <1>6 DEF Others
    <3> QED  BY <1>1, <3>1, OneCommit DEF InCommit
  <2>2. curr_tn \in Nat /\ curr_tn <= curr_tn  BY DEF Types, FileTypes
  <2>3. ASSUME d \in Tending(p)  PROVE Covers(d, curr_tn)'
    <3>1. PICK t : t = curr_tn  OBVIOUS
    <3>2. Covers(d, curr_tn) /\ d \in Block  BY <1>1, <2>3 DEF BtInv, InCommit, Tending
    <3>3. Covers(d, t)'  BY <1>3, <2>2, <3>1, <3>2
    <3> QED  BY <1>1, <3>1, <3>3 DEF Covers
  <2> QED  BY <1>1, <1>3, <1>6, <2>1, <2>3
<1>7. \E q \in Proc : pc'[q] \in Early  BY <1>1
<1> QED  BY <1>1, <1>3, <1>5, <1>6, <1>7 DEF BtInv

LEMMA BtIncrement ==
  ASSUME Types, JobInv, CritInv, TnInv, BtInv, NEW p \in Proc, Others(p), IncrementTn(p)
  PROVE  BtInv'
<1>1. bt' = bt /\ curr_tn' = curr_tn + 1 /\ pc[p] = "cmt12" /\ pc'[p] = "cmt16" /\ Tending(p) = Upd(p)
  BY IncrementIs
<1>2. curr_tn \in Nat  BY DEF Types, FileTypes
<1>3. \A i \in 1 .. Len(bt) : bt[i].tn \in Nat /\ bt[i].tn <= curr_tn  BY BtFields DEF BtInv
<1>4. ASSUME NEW d \in Block  PROVE Covers(d, Ver(d).tn)'
  <2>1. Ver(d)' = IF d \in Upd(p) THEN [blk |-> d, tn |-> curr_tn] ELSE Ver(d)  BY CommitVersions
  <2>2. Covers(d, Ver(d)'.tn)
    <3>1. CASE d \in Upd(p)
      <4>1. Covers(d, curr_tn)  BY <1>1, <3>1 DEF BtInv, InCommit
      <4> QED  BY <2>1, <3>1, <4>1
    <3>2. CASE d \notin Upd(p)  BY <2>1, <3>2 DEF BtInv
    <3> QED  BY <3>1, <3>2
  <2>3. PICK t : t = Ver(d)'.tn  OBVIOUS
  <2>4. Covers(d, t)  BY <2>2, <2>3
  <2>5. Covers(d, t)'  BY <1>1, <2>4 DEF Covers, BtOf
  <2> QED  BY <2>3, <2>5 DEF Covers
<1>5. ASSUME NEW q \in Proc, pc'[q] \in InCommit  PROVE FALSE
  <2>1. q # p /\ pc[q] \in InCommit  BY <1>1, <1>5 DEF Others, InCommit
  <2> QED  BY <1>1, <2>1, OneCommit DEF InCommit
<1>6. \A i \in 1 .. Len(bt') : bt'[i].tn <= curr_tn' /\ bt'[i].tn # curr_tn'  BY <1>1, <1>2, <1>3
<1> QED  BY <1>1, <1>4, <1>5, <1>6 DEF BtInv

LEMMA BtRest ==
  ASSUME Types, JobInv, PinInv, BtInv, NEW p \in Proc, Others(p),
         \/ NewBuffer(p) \/ DskRead(p) \/ Valid(p) \/ Phase1Wait(p) \/ BuildStart(p) \/ BuildEnd(p)
         \/ Release(p) \/ ResetInTend(p)
  PROVE  BtInv'
<1>0. PICK b, c : b = Cse(p) /\ c = CseCr(p)  OBVIOUS
<1>1. /\ bt' = bt /\ curr_tn' = curr_tn /\ jnl' = jnl
      /\ pc'[p] \in InCommit => (pc[p] \in InCommit /\ Tending(p)' \subseteq Tending(p)) \/ Tending(p)' = {}
      /\ pc[p] \in Early => pc'[p] \in Early
  <2> USE DEF CommitFrame, Early, InCommit
  <2>1. CASE NewBuffer(p)  BY <2>1, NewBufferIs
  <2>2. CASE DskRead(p)  BY <2>2, DskReadIs
  <2>3. CASE Valid(p)  BY <2>3, ValidIs
  <2>4. CASE Phase1Wait(p)  BY <1>0, <2>4, Phase1WaitIs
  <2>5. CASE BuildStart(p)  BY <1>0, <2>5, BuildStartIs
  <2>6. CASE BuildEnd(p)  BY <1>0, <2>6, BuildEndIs
  <2>7. CASE Release(p)  BY <1>0, <2>7, ReleaseIs
  <2>8. CASE ResetInTend(p)  BY <1>0, <2>8, ResetIs
  <2> QED  BY <2>1, <2>2, <2>3, <2>4, <2>5, <2>6, <2>7, <2>8
<1>2. \A q \in Proc \ {p} : pc'[q] = pc[q] /\ Tending(q)' = Tending(q)  BY OtherSets DEF Others
<1> QED  BY <1>1, <1>2, BtFrame

LEMMA BtWriter ==
  ASSUME Types, BtInv, NEW w \in Writer, WtStep(w)
  PROVE  BtInv'
<1>1. WtrFrame  BY WtrFrameIs
<1> QED  BY <1>1, BtFrame DEF WtrFrame, SameSets

-----------------------------------------------------------------------------
(* WtrInv: writers and committers exclude each other on a buffer, and no dirty buffer is lost *)

LEMMA WtrKeep ==
  ASSUME NEW c, WtrFor(c), cr'[c].blk = cr[c].blk, cr'[c].rip = cr[c].rip, SameWtr(c), SameTn(c),
         \A q \in Proc : /\ cr[c].blk \in Locked(q)' <=> cr[c].blk \in Locked(q)
                         /\ cr[c].blk \in Unbuilt(q)' => cr[c].blk \in Unbuilt(q),
         \A w \in Writer : wtr'[w] = wtr[w] \/ (~Busy(w, c) /\ ~Busy(w, c)')
  PROVE  WtrFor(c)'
<1>1. \A w \in Writer : (Busy(w, c)' <=> Busy(w, c)) /\ (Busy(w, c) => wtr'[w] = wtr[w])  BY DEF Busy
<1>2. \A w \in Writer : Busy(w, c)' =>
       /\ ~cr'[c].queued /\ (wtr'[w].pc = "release" <=> cr'[c].dirty = 0)
       /\ wtr'[w].pc # "lock" => cr'[c].latch # "clear" /\ \A p \in Proc : cr'[c].blk \notin Locked(p)'
  BY <1>1 DEF WtrFor, SameWtr
<1>3. \A p \in Proc : cr'[c].blk \in Locked(p)' =>
       /\ cr'[c].latch # "clear" /\ cr'[c].dirty # 0
       /\ cr'[c].latch = "conflict" => ~cr'[c].queued /\ \A w \in Writer : ~Busy(w, c)'
  BY <1>1 DEF WtrFor, SameWtr
<1>4. \A p \in Proc : cr'[c].blk \in Unbuilt(p)' /\ cr'[c].tn = 0 =>
       cr'[c].latch = "set" /\ ~cr'[c].queued /\ \A w \in Writer : ~Busy(w, c)'
  BY <1>1 DEF WtrFor, SameWtr, SameTn
<1> QED  BY <1>2, <1>3, <1>4 DEF WtrFor, SameWtr

(* A step of p on one buffer, whose block is b in the end *)
LEMMA WtrOne ==
  ASSUME Types, JobInv, PinInv, WtrInv, NEW p \in Proc, Others(p), NEW c \in Buffer, NEW b \in Block, Only(c), wtr' = wtr,
         \A d \in Buffer \ {c} : cr[d].blk # b,
         \A e \in Block \ {b} : (e \in Locked(p)' <=> e \in Locked(p)) /\ (e \in Unbuilt(p)' => e \in Unbuilt(p)),
         NoBlock \notin Locked(p)', WtrFor(c)'
  PROVE  WtrInv'
<1>1. OneWriter'  BY DEF WtrInv, OneWriter
<1>2. ASSUME NEW d \in Buffer \ {c}  PROVE WtrFor(d)'
  <2>1. WtrFor(d) /\ SameAll(d)  BY OnlyAll DEF WtrInv
  <2>2. ASSUME NEW q \in Proc
        PROVE  (cr[d].blk \in Locked(q)' <=> cr[d].blk \in Locked(q)) /\ (cr[d].blk \in Unbuilt(q)' => cr[d].blk \in Unbuilt(q))
    <3>1. CASE q # p  BY <3>1, OtherSets
    <3>2. CASE q = p
      <4>1. CASE cr[d].blk \in Block  BY <3>2, <4>1
      <4>2. CASE cr[d].blk = NoBlock
        <5>1. NoBlock \notin Locked(p) /\ NoBlock \notin Unbuilt(p)'  BY TendingPinned, BlockNat DEF Unbuilt
        <5> QED  BY <3>2, <4>2, <5>1
      <4> QED  BY <4>1, <4>2, CrFields
    <3> QED  BY <3>1, <3>2
  <2> QED  BY <2>1, <2>2, WtrKeep DEF SameAll, SameId
<1> QED  BY <1>1, <1>2 DEF WtrInv, Only

LEMMA LockedBlock ==
  NoBlock \notin Block /\ \A p : NoBlock \notin Locked(p) /\ NoBlock \notin Unbuilt(p)
BY BlockNat DEF Locked, Unbuilt

LEMMA WtrNewBuffer ==
  ASSUME Types, JobInv, PinInv, WtrInv, NEW p \in Proc, Others(p), NewBuffer(p)
  PROVE  WtrInv'
<1>0. PICK b : b = Blk(p)  OBVIOUS
<1>1. PICK c \in Reusable(p) :
        /\ c \in Buffer /\ Only(c) /\ cr'[c].rip = p /\ cr'[c].blk = b /\ SameWtr(c)
  BY <1>0, NewBufferIs
<1>2. NewSets(p) /\ b \in Block /\ CrOf(b) = {} /\ wtr' = wtr  BY <1>0, NewBufferIs
<1>3. \A d \in Buffer : cr[d].blk # b  BY <1>2 DEF CrOf
<1>4. cr[c].dirty = 0 /\ cr[c].latch = "clear" /\ cr[c].rip = NoProc  BY <1>1 DEF Reusable
<1>5. \A w \in Writer : ~Busy(w, c)
  <2> TAKE w \in Writer
  <2>1. WtrFor(c)  BY <1>1 DEF WtrInv
  <2> QED  BY <1>4, <2>1 DEF WtrFor
<1>6. ~cr[c].queued  BY <1>1, <1>4 DEF WtrInv, WtrFor
<1>7. \A q \in Proc : b \notin Locked(q) /\ b \notin Unbuilt(q)
  <2> TAKE q \in Proc
  <2>1. hist[q][b] \in HistRec  BY <1>2 DEF Types, HistTypes
  <2>2. hist[q][b].cr \in Buffer  BY <2>1, HistFields
  <2> QED  BY <1>3, <2>2, TendingPinned DEF PinInv
<1>8. \A q \in Proc : Locked(q)' = Locked(q) /\ Unbuilt(q)' = Unbuilt(q)
  BY <1>2, OtherSets DEF NewSets
<1>9. \A w \in Writer : ~Busy(w, c)'  BY <1>2, <1>5 DEF Busy
<1>10. WtrFor(c)'  BY <1>1, <1>4, <1>6, <1>7, <1>8, <1>9 DEF WtrFor, SameWtr
<1>11. NoBlock \notin Locked(p)'  BY <1>2 DEF NewSets
<1> QED  BY <1>1, <1>2, <1>3, <1>8, <1>10, <1>11, WtrOne

LEMMA WtrDskRead ==
  ASSUME Types, JobInv, PinInv, WtrInv, ReadInv, NEW p \in Proc, Others(p), DskRead(p)
  PROVE  WtrInv'
<1>0. PICK c, b : c = Hist(p).cr /\ b = Blk(p)  OBVIOUS
<1>1. /\ c \in Buffer /\ Only(c) /\ cr'[c].rip = NoProc /\ cr'[c].blk = cr[c].blk /\ SameWtr(c) /\ NewSets(p)
      /\ wtr' = wtr /\ pc[p] = "read" /\ b \in Block
  BY <1>0, DskReadIs
<1>2. cr[c].blk = b /\ cr[c].dirty = 0 /\ cr[c].latch = "clear" /\ ~cr[c].queued
  BY <1>0, <1>1 DEF ReadInv
<1>3. WtrFor(c)  BY <1>1 DEF WtrInv
<1>5. \A w \in Writer : ~Busy(w, c)  BY <1>2, <1>3 DEF WtrFor
<1>6. \A q \in Proc : b \notin Locked(q)  BY <1>2, <1>3 DEF WtrFor
<1>7. \A q \in Proc : b \notin Unbuilt(q)  BY <1>6, TendingPinned
<1>8. \A q \in Proc : Locked(q)' = Locked(q) /\ Unbuilt(q)' = Unbuilt(q)
  BY <1>1, OtherSets DEF NewSets
<1>9. \A w \in Writer : ~Busy(w, c)'  BY <1>1, <1>5 DEF Busy
<1>10. WtrFor(c)'  BY <1>1, <1>2, <1>6, <1>7, <1>8, <1>9 DEF WtrFor, SameWtr
<1>11. NoBlock \notin Locked(p)'  BY <1>1 DEF NewSets
<1>12. \A d \in Buffer \ {c} : cr[d].blk # b  BY <1>1, <1>2, BlockNat DEF PinInv
<1> QED  BY <1>1, <1>8, <1>10, <1>11, <1>12, WtrOne

LEMMA WtrValid ==
  ASSUME Types, JobInv, WtrInv, NEW p \in Proc, Others(p), Valid(p) \/ IncrementTn(p)
  PROVE  WtrInv'
<1>1. /\ Buffer' = Buffer /\ wtr' = wtr /\ Locked(p)' = Locked(p) /\ Unbuilt(p)' = Unbuilt(p)
      /\ \A c \in Buffer : SameId(c) /\ SameWtr(c) /\ SameTn(c)
  <2>1. CASE Valid(p)  BY <2>1, ValidIs
  <2>2. CASE IncrementTn(p)  BY <2>2, IncrementIs DEF CommitFrame, SameSets, SameId, SameWtr, SameTn, Buffer
  <2> QED  BY <2>1, <2>2
<1>2. \A q \in Proc : Locked(q)' = Locked(q) /\ Unbuilt(q)' = Unbuilt(q)  BY <1>1, OtherSets
<1>3. ASSUME NEW c \in Buffer  PROVE WtrFor(c)'
  <2>1. WtrFor(c)  BY DEF WtrInv
  <2> QED  BY <1>1, <1>2, <2>1, WtrKeep DEF SameId
<1>4. OneWriter'  BY <1>1 DEF WtrInv, OneWriter
<1> QED  BY <1>1, <1>3, <1>4 DEF WtrInv

(* The block whose turn it is: it is in no other buffer, and only p updates it. *)
LEMMA TurnAlone ==
  ASSUME Types, JobInv, PinInv, NEW p \in Proc, NEW b, NEW c, Turn(p, b, c),
         pc[p] \in {"cmt10", "cmt10w"} \cup Phase2
  PROVE  /\ \A d \in Buffer \ {c} : cr[d].blk # b
         /\ \A q \in Proc \ {p} : b \notin Locked(q) /\ b \notin Unbuilt(q) /\ b \notin Pinned(q) /\ b \notin Tending(q)
         /\ b \in Pinned(p)
<1>1. \A d \in Buffer \ {c} : cr[d].blk # b  BY BlockNat DEF PinInv, Turn
<1>2. b \in Pinned(p)  BY DEF Turn, Pinned, InCommit
<1> QED  BY <1>1, <1>2, PinOne, TendingPinned

LEMMA WtrDirtied ==
  ASSUME Types, JobInv, PinInv, TnInv, WtrInv, NEW p \in Proc, Others(p), NEW b, NEW c, Turn(p, b, c),
         pc[p] \in {"cmt10", "cmt10w"}, cr[c].latch = "clear", DirtiedIs(p, c), wtr' = wtr,
         Locked(p)' = Locked(p) \cup {b}, Unbuilt(p)' = Unbuilt(p) \cup {b}
  PROVE  WtrInv'
<1>1. ctn[p] # 0  BY DEF TnInv, Early, Types, FileTypes
<1>2. c \in Buffer /\ b \in Block /\ cr[c].blk = b /\ cr[c].rip = NoProc  BY DEF Turn
<1>3. WtrFor(c)  BY <1>2 DEF WtrInv
<1>4. \A w \in Writer : Busy(w, c) => wtr[w].pc = "lock" /\ cr[c].dirty # 0 /\ ~cr[c].queued
  BY <1>3 DEF WtrFor
<1>5. \A w \in Writer : Busy(w, c)' <=> Busy(w, c)  BY DEF Busy
<1>6. /\ cr'[c].blk = b /\ cr'[c].rip = NoProc /\ cr'[c].queued = cr[c].queued /\ cr'[c].latch = "set"
      /\ cr'[c].dirty # 0 /\ (cr'[c].tn = 0 => cr[c].dirty = 0)
  BY <1>1, <1>2 DEF DirtiedIs, SameId
<1>7. cr[c].dirty = 0 => ~cr[c].queued  BY <1>3 DEF WtrFor
<1>8. WtrFor(c)'
  <2>1. \A w \in Writer : Busy(w, c)' =>
          /\ ~cr'[c].queued /\ (wtr'[w].pc = "release" <=> cr'[c].dirty = 0)
          /\ wtr'[w].pc # "lock" => cr'[c].latch # "clear" /\ \A q \in Proc : cr'[c].blk \notin Locked(q)'
    BY <1>4, <1>5, <1>6
  <2>2. cr'[c].tn = 0 => cr'[c].latch = "set" /\ ~cr'[c].queued /\ \A w \in Writer : ~Busy(w, c)'
    BY <1>4, <1>5, <1>6, <1>7
  <2> QED  BY <1>2, <1>6, <2>1, <2>2, BlockNat DEF WtrFor
<1>9. NoBlock \notin Locked(p)'  BY <1>2, LockedBlock
<1> QED  BY <1>2, <1>8, <1>9, TurnAlone, WtrOne DEF DirtiedIs

LEMMA WtrPhase1 ==
  ASSUME Types, JobInv, PinInv, TnInv, WtrInv, NEW p \in Proc, Others(p), Phase1(p) \/ Phase1Wait(p)
  PROVE  WtrInv'
<1>0. PICK b, c : b = Cse(p) /\ c = CseCr(p)  OBVIOUS
<1>1. CASE Phase1Wait(p)  BY <1>0, <1>1, Phase1WaitIs, WtrDirtied DEF CommitFrame
<1>2. CASE Phase1(p)
  <2>1. Turn(p, b, c) /\ CommitFrame(p) /\ pc[p] = "cmt10" /\ cr[c].in_tend = NoProc  BY <1>0, <1>2, Phase1Is
  <2>2. CASE /\ cr[c].latch = "clear" /\ DirtiedIs(p, c) /\ rem'[p] = rem[p] \ {b}
             /\ Locked(p)' = Locked(p) \cup {b} /\ Unbuilt(p)' = Unbuilt(p) \cup {b}
    BY <2>1, <2>2, WtrDirtied DEF CommitFrame
  <2>3. CASE /\ cr[c].latch # "clear" /\ Only(c) /\ SameId(c) /\ SameData(c) /\ SameTn(c) /\ SameAddr(c)
             /\ cr'[c].in_cw_set = cr[c].in_cw_set /\ cr'[c].dirty = cr[c].dirty
             /\ cr'[c].queued = cr[c].queued /\ cr'[c].in_tend = p /\ cr'[c].latch = "set"
             /\ rem' = rem /\ pc'[p] = "cmt10w" /\ Locked(p)' = Locked(p) /\ Unbuilt(p)' = Unbuilt(p)
    <3>1. c \in Buffer /\ b \in Block /\ cr[c].blk = b /\ cr[c].rip = NoProc  BY <2>1 DEF Turn
    <3>2. WtrFor(c)  BY <3>1 DEF WtrInv
    <3>3. \A q \in Proc : b \notin Tending(q)  BY <2>1, <3>1, BlockNat DEF PinInv
    <3>4. \A q \in Proc : b \notin Locked(q) /\ b \notin Unbuilt(q)  BY <3>3, TendingPinned
    <3>5. \A q \in Proc : b \notin Locked(q)' /\ b \notin Unbuilt(q)'  BY <2>3, <3>4, OtherSets
    <3>6. wtr' = wtr /\ \A w \in Writer : Busy(w, c)' <=> Busy(w, c)  BY <2>1 DEF Busy, CommitFrame
    <3>7. cr'[c].blk = b /\ cr'[c].rip = NoProc  BY <2>3, <3>1 DEF SameId
    <3>8. WtrFor(c)'  BY <2>3, <3>1, <3>2, <3>5, <3>6, <3>7 DEF WtrFor
    <3>9. NoBlock \notin Locked(p)'  BY <2>3, LockedBlock
    <3> QED  BY <2>1, <2>3, <3>1, <3>6, <3>8, <3>9, TurnAlone, WtrOne
  <2> QED  BY <1>0, <1>2, <2>2, <2>3, Phase1Is
<1> QED  BY <1>1, <1>2

LEMMA WtrPhase2 ==
  ASSUME Types, JobInv, PinInv, WtrInv, NEW p \in Proc, Others(p),
         BuildStart(p) \/ BuildEnd(p) \/ Release(p) \/ ResetInTend(p)
  PROVE  WtrInv'
<1>0. PICK b, c : b = Cse(p) /\ c = CseCr(p)  OBVIOUS
<1>1. ASSUME Turn(p, b, c)
      PROVE  c \in Buffer /\ b \in Block /\ cr[c].blk = b /\ cr[c].rip = NoProc /\ WtrFor(c)
  BY <1>1 DEF Turn, WtrInv
<1>2. wtr' = wtr => \A w \in Writer : Busy(w, c)' <=> Busy(w, c)  BY DEF Busy
<1>3. CASE BuildStart(p) \/ ResetInTend(p)
  <2>1. /\ Turn(p, b, c) /\ CommitFrame(p) /\ Locked(p)' = Locked(p) /\ Unbuilt(p)' = Unbuilt(p)
        /\ Only(c) /\ SameId(c) /\ SameWtr(c) /\ SameTn(c) /\ pc[p] \in Phase2
    BY <1>0, <1>3, BuildStartIs, ResetIs DEF SameSets, Phase2
  <2>2. \A q \in Proc : Locked(q)' = Locked(q) /\ Unbuilt(q)' = Unbuilt(q)  BY <2>1, OtherSets
  <2>3. WtrFor(c)'  BY <1>1, <2>1, <2>2, WtrKeep DEF SameId, CommitFrame
  <2>4. NoBlock \notin Locked(p)'  BY <2>1, LockedBlock
  <2> QED  BY <1>1, <2>1, <2>2, <2>3, <2>4, TurnAlone, WtrOne DEF CommitFrame
<1>4. CASE BuildEnd(p)
  <2>1. /\ Turn(p, b, c) /\ CommitFrame(p) /\ Locked(p)' = Locked(p) /\ Unbuilt(p)' = Unbuilt(p) \ {b} /\ b \in Unbuilt(p)
        /\ Only(c) /\ SameId(c) /\ SameTn(c) /\ pc[p] \in Phase2
        /\ cr'[c].dirty = cr[c].dirty /\ cr'[c].latch = cr[c].latch
        /\ cr[c].tn # 0 => cr'[c].queued = cr[c].queued
        /\ cr[c].tn = 0 => cr'[c].queued
    BY <1>0, <1>4, BuildEndIs DEF Phase2
  <2>2. c \in Buffer /\ b \in Block /\ cr[c].blk = b /\ cr[c].rip = NoProc /\ WtrFor(c)  BY <1>1, <2>1
  <2>3. \A q \in Proc \ {p} : Locked(q)' = Locked(q) /\ Unbuilt(q)' = Unbuilt(q)  BY OtherSets
  <2>4. \A q \in Proc : b \notin Unbuilt(q)'  BY <2>1, <2>3, TurnAlone
  <2>5. wtr' = wtr /\ \A w \in Writer : Busy(w, c)' <=> Busy(w, c)  BY <1>2, <2>1 DEF CommitFrame
  <2>6. b \in Locked(p)  BY <2>1, TendingPinned
  <2>7. cr[c].dirty # 0  BY <2>2, <2>6 DEF WtrFor
  <2>8. cr'[c].blk = b /\ cr'[c].rip = NoProc  BY <2>1, <2>2 DEF SameId
  <2>9. \A q \in Proc : Locked(q)' = Locked(q)  BY <2>1, <2>3
  <2>10. WtrFor(c)'
    <3>1. CASE cr[c].tn = 0
      <4>1. cr[c].latch = "set" /\ \A w \in Writer : ~Busy(w, c)'  BY <2>1, <2>2, <2>5, <3>1 DEF WtrFor
      <4> QED  BY <2>1, <2>2, <2>4, <2>7, <2>8, <4>1, BlockNat DEF WtrFor
    <3>2. CASE cr[c].tn # 0  BY <2>1, <2>2, <2>4, <2>5, <2>7, <2>8, <2>9, <3>2, BlockNat DEF WtrFor
    <3> QED  BY <3>1, <3>2
  <2>11. NoBlock \notin Locked(p)'  BY <2>1, LockedBlock
  <2> QED  BY <2>1, <2>2, <2>5, <2>10, <2>11, TurnAlone, WtrOne
<1>5. CASE Release(p)
  <2>1. /\ Turn(p, b, c) /\ CommitFrame(p) /\ Locked(p)' = Locked(p) \ {b} /\ Unbuilt(p)' = Unbuilt(p) /\ b \notin Unbuilt(p)
        /\ Only(c) /\ SameId(c) /\ SameTn(c) /\ pc[p] \in Phase2 /\ b \in Locked(p)
        /\ cr'[c].dirty = cr[c].dirty /\ cr'[c].latch = "clear"
        /\ cr'[c].queued = (cr[c].queued \/ cr[c].latch = "conflict")
    BY <1>0, <1>5, ReleaseIs DEF Phase2
  <2>2. c \in Buffer /\ b \in Block /\ cr[c].blk = b /\ cr[c].rip = NoProc /\ WtrFor(c)  BY <1>1, <2>1
  <2>3. \A q \in Proc \ {p} : Locked(q)' = Locked(q) /\ Unbuilt(q)' = Unbuilt(q)  BY OtherSets
  <2>4. \A q \in Proc : b \notin Unbuilt(q)' /\ b \notin Locked(q)'  BY <2>1, <2>3, TurnAlone
  <2>5. wtr' = wtr /\ \A w \in Writer : Busy(w, c)' <=> Busy(w, c)  BY <1>2, <2>1 DEF CommitFrame
  <2>7. /\ cr[c].dirty # 0 /\ (cr[c].latch = "conflict" => \A w \in Writer : ~Busy(w, c))
        /\ \A w \in Writer : Busy(w, c) => wtr[w].pc = "lock" /\ ~cr[c].queued
    BY <2>1, <2>2 DEF WtrFor
  <2>8. cr'[c].blk = b /\ cr'[c].rip = NoProc  BY <2>1, <2>2 DEF SameId
  <2>9. \A w \in Writer : Busy(w, c)' => ~cr'[c].queued /\ wtr'[w].pc = "lock"  BY <2>1, <2>5, <2>7
  <2>10. WtrFor(c)'  BY <2>1, <2>2, <2>4, <2>7, <2>8, <2>9, BlockNat DEF WtrFor
  <2>11. NoBlock \notin Locked(p)'  BY <2>1, LockedBlock
  <2> QED  BY <2>1, <2>2, <2>5, <2>10, <2>11, TurnAlone, WtrOne
<1> QED  BY <1>3, <1>4, <1>5

(* A step of writer w on buffer c *)
LEMMA WtrStep ==
  ASSUME Types, WtrInv, WtrFrame, NEW w \in Writer, NEW c \in Buffer, Only(c),
         wtr'[w].cr = c, \A v \in Writer \ {w} : wtr'[v] = wtr[v],
         wtr[w].pc = "idle" \/ wtr[w].cr = c, WtrFor(c)',
         \A v \in Writer \ {w} : wtr'[w].pc # "idle" => ~Busy(v, c)
  PROVE  WtrInv'
<1>1. \A q \in Proc : Locked(q)' = Locked(q) /\ Unbuilt(q)' = Unbuilt(q)  BY DEF WtrFrame, SameSets
<1>2. ASSUME NEW d \in Buffer \ {c}  PROVE WtrFor(d)'
  <2>1. WtrFor(d) /\ SameAll(d)  BY OnlyAll DEF WtrInv
  <2>2. \A v \in Writer : wtr'[v] = wtr[v] \/ (~Busy(v, d) /\ ~Busy(v, d)')  BY DEF Busy
  <2> QED  BY <1>1, <2>1, <2>2, WtrKeep DEF SameAll, SameId
<1>3. OneWriter'
  <2> SUFFICES ASSUME NEW u \in Writer, NEW v \in Writer, wtr'[u].pc # "idle", wtr'[v].pc # "idle", wtr'[u].cr = wtr'[v].cr
               PROVE  u = v
    BY DEF OneWriter
  <2>1. CASE u = w /\ v # w  BY <2>1 DEF Busy
  <2>2. CASE v = w /\ u # w  BY <2>2 DEF Busy
  <2>3. CASE u # w /\ v # w  BY <2>3 DEF WtrInv, OneWriter
  <2> QED  BY <2>1, <2>2, <2>3
<1> QED  BY <1>2, <1>3 DEF WtrInv, Only

LEMMA WtrWriter ==
  ASSUME Types, WtrInv, NEW w \in Writer, WtStep(w)
  PROVE  WtrInv'
<1>0. WtrFrame /\ \A q \in Proc : Locked(q)' = Locked(q) /\ Unbuilt(q)' = Unbuilt(q)
  BY WtrFrameIs DEF WtrFrame, SameSets
<1>1. ASSUME NEW c \in Buffer, WtStart(w, c)  PROVE WtrInv'
  <2>1. /\ wtr[w].pc = "idle" /\ cr[c].queued
        /\ Only(c) /\ SameId(c) /\ SameTn(c)
        /\ cr'[c].dirty = cr[c].dirty /\ cr'[c].latch = cr[c].latch /\ ~cr'[c].queued
        /\ wtr'[w].pc = "lock" /\ wtr'[w].cr = c /\ \A v \in Writer \ {w} : wtr'[v] = wtr[v]
    BY <1>1, WtStartIs
  <2>2. WtrFor(c)  BY DEF WtrInv
  <2>3. cr[c].dirty # 0 /\ \A v \in Writer : ~Busy(v, c)  BY <2>1, <2>2 DEF WtrFor
  <2>4. \A v \in Writer : Busy(v, c)' => v = w  BY <2>1, <2>3 DEF Busy
  <2>5. \A q \in Proc : cr[c].blk \in Locked(q) => cr[c].latch = "set"
    BY <2>1, <2>2, CrFields DEF WtrFor
  <2>6. \A q \in Proc : ~(cr[c].blk \in Unbuilt(q) /\ cr[c].tn = 0)  BY <2>1, <2>2 DEF WtrFor
  <2>7. cr'[c].blk = cr[c].blk /\ cr'[c].rip = cr[c].rip /\ cr'[c].tn = cr[c].tn  BY <2>1 DEF SameId, SameTn
  <2>8. cr[c].blk # NoBlock /\ cr[c].rip = NoProc  BY <2>2, <2>3 DEF WtrFor
  <2>9. WtrFor(c)'  BY <1>0, <2>1, <2>3, <2>4, <2>5, <2>6, <2>7, <2>8 DEF WtrFor
  <2> QED  BY <1>0, <2>1, <2>3, <2>9, WtrStep
<1>2. PICK c : c = wtr[w].cr  OBVIOUS
<1>3. ASSUME wtr[w].pc # "idle", c \in Buffer
      PROVE  Busy(w, c) /\ WtrFor(c) /\ \A v \in Writer \ {w} : ~Busy(v, c)
  BY <1>2, <1>3 DEF Busy, WtrInv, OneWriter
<1>4. CASE WtLock(w)
  <2>1. /\ wtr[w].pc = "lock" /\ c \in Buffer
        /\ Only(c) /\ SameId(c) /\ SameTn(c)
        /\ cr'[c].dirty = cr[c].dirty /\ cr'[c].latch = "conflict" /\ cr'[c].queued = cr[c].queued
        /\ wtr'[w].pc = (IF cr[c].latch = "clear" THEN "write" ELSE "idle") /\ wtr'[w].cr = c
        /\ \A v \in Writer \ {w} : wtr'[v] = wtr[v]
    BY <1>2, <1>4, WtLockIs
  <2>2. Busy(w, c) /\ WtrFor(c) /\ \A v \in Writer \ {w} : ~Busy(v, c)  BY <1>3, <2>1
  <2>3. cr[c].dirty # 0 /\ ~cr[c].queued  BY <2>1, <2>2 DEF WtrFor
  <2>4. \A v \in Writer : Busy(v, c)' => v = w /\ cr[c].latch = "clear"  BY <2>1, <2>2 DEF Busy
  <2>5. cr[c].latch = "clear" => \A q \in Proc : cr[c].blk \notin Locked(q)  BY <2>2 DEF WtrFor
  <2>6. \A q \in Proc : ~(cr[c].blk \in Unbuilt(q) /\ cr[c].tn = 0)  BY <2>2 DEF WtrFor
  <2>7. cr'[c].blk = cr[c].blk /\ cr'[c].rip = cr[c].rip /\ cr'[c].tn = cr[c].tn  BY <2>1 DEF SameId, SameTn
  <2>8. cr[c].blk # NoBlock /\ cr[c].rip = NoProc  BY <2>2, <2>3 DEF WtrFor
  <2>9. \A v \in Writer : Busy(v, c)' => wtr'[v].pc = "write" /\ \A q \in Proc : cr'[c].blk \notin Locked(q)'
    BY <1>0, <2>1, <2>4, <2>5, <2>7
  <2>10. \A q \in Proc : cr'[c].blk \in Locked(q)' => \A v \in Writer : ~Busy(v, c)'
    BY <2>9
  <2>11. WtrFor(c)'  BY <1>0, <2>1, <2>3, <2>6, <2>7, <2>8, <2>9, <2>10 DEF WtrFor
  <2> QED  BY <1>0, <1>2, <2>1, <2>2, <2>11, WtrStep
<1>5. CASE WtWrite(w)
  <2>1. /\ wtr[w].pc = "write" /\ c \in Buffer
        /\ Only(c) /\ SameId(c) /\ SameTn(c)
        /\ cr'[c].dirty = 0 /\ cr'[c].latch = cr[c].latch /\ cr'[c].queued = cr[c].queued
        /\ wtr'[w].pc = "release" /\ wtr'[w].cr = c
        /\ \A v \in Writer \ {w} : wtr'[v] = wtr[v]
    BY <1>2, <1>5, WtWriteIs
  <2>2. Busy(w, c) /\ WtrFor(c) /\ \A v \in Writer \ {w} : ~Busy(v, c)  BY <1>3, <2>1
  <2>3. ~cr[c].queued /\ cr[c].latch # "clear" /\ \A q \in Proc : cr[c].blk \notin Locked(q)
    BY <2>1, <2>2 DEF WtrFor
  <2>4. \A v \in Writer : Busy(v, c)' => v = w  BY <2>1, <2>2 DEF Busy
  <2>5. \A q \in Proc : cr[c].blk \notin Unbuilt(q)  BY <2>3 DEF Unbuilt
  <2>7. cr'[c].blk = cr[c].blk  BY <2>1 DEF SameId
  <2>8. WtrFor(c)'  BY <1>0, <2>1, <2>3, <2>4, <2>5, <2>7 DEF WtrFor
  <2> QED  BY <1>0, <1>2, <2>1, <2>2, <2>8, WtrStep
<1>6. CASE WtRelease(w)
  <2>1. /\ wtr[w].pc = "release" /\ c \in Buffer
        /\ Only(c) /\ SameId(c) /\ SameTn(c)
        /\ cr'[c].dirty = cr[c].dirty /\ cr'[c].latch = "clear" /\ cr'[c].queued = cr[c].queued
        /\ wtr'[w].pc = "idle" /\ wtr'[w].cr = c
        /\ \A v \in Writer \ {w} : wtr'[v] = wtr[v]
    BY <1>2, <1>6, WtReleaseIs
  <2>2. Busy(w, c) /\ WtrFor(c) /\ \A v \in Writer \ {w} : ~Busy(v, c)  BY <1>3, <2>1
  <2>3. ~cr[c].queued /\ cr[c].dirty = 0 /\ \A q \in Proc : cr[c].blk \notin Locked(q)
    BY <2>1, <2>2 DEF WtrFor
  <2>4. \A v \in Writer : ~Busy(v, c)'  BY <2>1, <2>2 DEF Busy
  <2>5. \A q \in Proc : cr[c].blk \notin Unbuilt(q)  BY <2>3 DEF Unbuilt
  <2>7. cr'[c].blk = cr[c].blk  BY <2>1 DEF SameId
  <2>8. WtrFor(c)'  BY <1>0, <2>1, <2>3, <2>4, <2>5, <2>7 DEF WtrFor
  <2> QED  BY <1>0, <1>2, <2>1, <2>2, <2>8, WtrStep
<1> QED  BY <1>1, <1>4, <1>5, <1>6 DEF WtStep

-----------------------------------------------------------------------------
(* DataInv: the contents of buffers and of the file *)

LEMMA DataKeep ==
  ASSUME NEW c, NEW b, DataFor(c, b), SameData(c), cr'[c].in_tend = cr[c].in_tend, cr'[c].dirty = 0 => cr[c].dirty = 0,
         Ver(b)' = Ver(b), disk'[b] = disk[b],
         \A q \in Proc : cr[c].in_tend = q =>
           /\ pc'[q] \in InCommit => pc[q] \in InCommit
           /\ pc'[q] \in Phase2 => pc[q] \in Phase2 /\ ctn'[q] = ctn[q]
           /\ pc'[q] \in {"cmt18c", "cmt18d"} /\ b = Cse(q)' => pc[q] \in {"cmt18c", "cmt18d"} /\ b = Cse(q)
  PROVE  DataFor(c, b)'
<1>1. Settled(c)' => Settled(c)  BY DEF Settled
<1>2. ASSUME NEW q \in Proc, cr'[c].in_tend = q, pc'[q] \in Phase2
      PROVE  /\ Ver(b)'.tn = ctn'[q]
             /\ pc'[q] \in {"cmt18c", "cmt18d"} /\ b = Cse(q)' => cr'[c].data.tn = ctn'[q]
  BY <1>2 DEF DataFor, SameData
<1> QED  BY <1>1, <1>2 DEF DataFor, SameData

LEMMA OtherData ==
  ASSUME NEW p, Others(p), NEW q \in Proc \ {p}
  PROVE  pc'[q] = pc[q] /\ ctn'[q] = ctn[q] /\ Cse(q)' = Cse(q)
BY OtherSets DEF Others

(* A step that reads nothing from the file and changes no version *)
LEMMA DataFrame ==
  ASSUME Types, DataInv, NEW p, Others(p), Buffer' = Buffer, \A c \in Buffer : SameId(c),
         disk' = disk, jnl' = jnl, curr_tn' = curr_tn, p \in Proc => pc[p] # "read" /\ pc'[p] # "read",
         \A c \in Buffer, b \in Block : cr[c].blk = b /\ cr[c].rip = NoProc /\ DataFor(c, b) => DataFor(c, b)'
  PROVE  DataInv'
<1>1. \A b \in Block : Ver(b)' = Ver(b)  BY JnlSame, SameVer
<1>2. \A b \in Block : CrOf(b)' = {} => disk'[b] = Ver(b)'
  <2> TAKE b \in Block
  <2>1. CrOf(b)' = CrOf(b)  BY DEF CrOf, SameId
  <2> QED  BY <1>1, <2>1 DEF DataInv
<1>3. ASSUME NEW q \in Proc, NEW b \in Block, pc'[q] = "read", Blk(q)' = b  PROVE disk'[b] = Ver(b)'
  <2>1. q # p  BY <1>3
  <2>2. pc[q] = "read" /\ Blk(q) = b  BY <1>3, <2>1, OtherSets DEF Others
  <2> QED  BY <1>1, <2>2 DEF DataInv
<1>4. ASSUME NEW c \in Buffer', NEW b \in Block, cr'[c].blk = b, cr'[c].rip = NoProc  PROVE DataFor(c, b)'
  <2>1. cr[c].blk = b /\ cr[c].rip = NoProc /\ DataFor(c, b)  BY <1>4 DEF DataInv, SameId
  <2> QED  BY <2>1
<1> QED  BY <1>2, <1>3, <1>4 DEF DataInv

(* A step on one buffer: the others keep their contents. *)
LEMMA DataOne ==
  ASSUME Types, DataInv, NEW p, Others(p), NEW c \in Buffer, Only(c), SameId(c), NEW b \in Block, cr[c].blk = b,
         disk' = disk, jnl' = jnl, curr_tn' = curr_tn, p \in Proc => pc[p] # "read" /\ pc'[p] # "read",
         p \in Proc => /\ pc'[p] \in InCommit => pc[p] \in InCommit
                       /\ pc'[p] \in Phase2 => pc[p] \in Phase2 /\ ctn'[p] = ctn[p]
                       /\ \A e \in Block \ {b} : pc'[p] \in {"cmt18c", "cmt18d"} /\ e = Cse(p)' =>
                            pc[p] \in {"cmt18c", "cmt18d"} /\ e = Cse(p),
         PinInv, cr[c].rip = NoProc /\ DataFor(c, b) => DataFor(c, b)'
  PROVE  DataInv'
<1>1. \A e \in Block : Ver(e)' = Ver(e)  BY JnlSame, SameVer
<1>2. ASSUME NEW d \in Buffer, NEW e \in Block, cr[d].blk = e, cr[d].rip = NoProc, DataFor(d, e)  PROVE DataFor(d, e)'
  <2>1. CASE d = c  BY <1>2, <2>1
  <2>2. CASE d # c
    <3>1. SameAll(d)  BY <2>2, OnlyAll
    <3>2. e # b  BY <1>2, <2>2, BlockNat DEF PinInv
    <3>3. ASSUME NEW q \in Proc
          PROVE  /\ pc'[q] \in InCommit => pc[q] \in InCommit
                 /\ pc'[q] \in Phase2 => pc[q] \in Phase2 /\ ctn'[q] = ctn[q]
                 /\ pc'[q] \in {"cmt18c", "cmt18d"} /\ e = Cse(q)' => pc[q] \in {"cmt18c", "cmt18d"} /\ e = Cse(q)
      <4>1. CASE q = p  BY <3>2, <4>1
      <4>2. CASE q # p  BY <4>2, OtherData
      <4> QED  BY <4>1, <4>2
    <3> QED  BY <1>1, <1>2, <3>1, <3>3, DataKeep DEF SameAll, SameLock, SameWtr
  <2> QED  BY <2>1, <2>2
<1>3. Buffer' = Buffer /\ \A d \in Buffer : SameId(d)  BY OnlyAll DEF Only, SameAll
<1> QED  BY <1>2, <1>3, DataFrame

LEMMA DataValid ==
  ASSUME Types, JobInv, PinInv, DataInv, NEW p \in Proc, Others(p), Valid(p)
  PROVE  DataInv'
<1>1. /\ pc[p] = "valid" /\ pc'[p] = "commit" /\ Tending(p) = {} /\ disk' = disk /\ curr_tn' = curr_tn /\ jnl' = jnl
      /\ Buffer' = Buffer
      /\ \A c \in Buffer : SameId(c) /\ SameWtr(c) /\ SameData(c) /\ cr'[c].in_tend = cr[c].in_tend
  BY ValidIs
<1>2. \A e \in Block : Ver(e)' = Ver(e)  BY <1>1, JnlSame, SameVer
<1>3. ASSUME NEW d \in Buffer, NEW e \in Block, cr[d].blk = e, cr[d].rip = NoProc, DataFor(d, e)  PROVE DataFor(d, e)'
  <2>1. cr[d].in_tend # p  BY <1>1 DEF PinInv
  <2>2. \A q \in Proc : cr[d].in_tend = q => pc'[q] = pc[q] /\ ctn'[q] = ctn[q] /\ Cse(q)' = Cse(q)
    BY <2>1, OtherData
  <2> QED  BY <1>1, <1>2, <1>3, <2>2, DataKeep DEF SameWtr
<1> QED  BY <1>1, <1>3, DataFrame

LEMMA DataPhase1 ==
  ASSUME Types, JobInv, PinInv, DataInv, NEW p \in Proc, Others(p), Phase1(p) \/ Phase1Wait(p)
  PROVE  DataInv'
<1>0. PICK b, c : b = Cse(p) /\ c = CseCr(p)  OBVIOUS
<1>1. /\ Turn(p, b, c) /\ CommitFrame(p) /\ pc[p] \in {"cmt10", "cmt10w"} /\ pc'[p] \in Early /\ curr_tn' = curr_tn
      /\ Only(c) /\ SameId(c) /\ SameData(c) /\ cr'[c].in_tend = p /\ cr[c].in_tend \in {NoProc, p}
      /\ cr'[c].dirty = 0 => cr[c].dirty = 0
  <2>1. CASE Phase1(p)  BY <1>0, <2>1, Phase1Is DEF DirtiedIs
  <2>2. CASE Phase1Wait(p)  BY <1>0, <2>2, Phase1WaitIs DEF DirtiedIs
  <2> QED  BY <2>1, <2>2
<1>2. c \in Buffer /\ b \in Block /\ cr[c].blk = b  BY <1>1 DEF Turn
<1>3. pc[p] \in InCommit /\ pc[p] # "read" /\ pc'[p] \notin Phase2 /\ pc'[p] # "read"  BY <1>1 DEF InCommit, Phase2, Early
<1>4. ASSUME DataFor(c, b)  PROVE DataFor(c, b)'
  <2>1. Ver(b)' = Ver(b) /\ disk' = disk  BY <1>1, <1>2, JnlSame, SameVer DEF CommitFrame
  <2>2. Settled(c)  BY <1>1, <1>3, BlockNat DEF Settled
  <2>3. \A q \in Proc : cr'[c].in_tend = q => pc'[q] \notin Phase2  BY <1>1, <1>3
  <2> QED  BY <1>1, <1>4, <2>1, <2>2, <2>3 DEF DataFor, SameData
<1>5. pc'[p] \notin {"cmt18c", "cmt18d"}  BY <1>1 DEF Early
<1> QED  BY <1>1, <1>2, <1>3, <1>4, <1>5, DataOne DEF CommitFrame

LEMMA DataIncrement ==
  ASSUME Types, JobInv, CritInv, TnInv, PinInv, ReadInv, DataInv, NEW p \in Proc, Others(p), IncrementTn(p)
  PROVE  DataInv'
<1>1. /\ CommitFrame(p) /\ curr_tn' = curr_tn + 1 /\ cr' = cr /\ pc[p] = "cmt12" /\ pc'[p] = "cmt16"
      /\ Tending(p) = Upd(p) /\ Pinned(p) = Upd(p) /\ rem'[p] = Upd(p)
  BY IncrementIs
<1>2. \A b \in Block : Ver(b)' = IF b \in Upd(p) THEN [blk |-> b, tn |-> curr_tn] ELSE Ver(b)  BY CommitVersions
<1>3. ctn[p] = curr_tn /\ ctn' = ctn /\ disk' = disk  BY <1>1 DEF TnInv, Early, CommitFrame
<1>4. Buffer' = Buffer  BY <1>1 DEF Buffer
<1>5. \A b \in Upd(p) : /\ b \in Block /\ hist[p][b].cr \in Buffer
                        /\ cr[hist[p][b].cr].blk = b /\ cr[hist[p][b].cr].rip = NoProc
  <2> TAKE b \in Upd(p)
  <2>1. b \in Pinned(p) /\ b \in Block  BY <1>1, TendingPinned
  <2>2. hist[p][b] \in HistRec  BY <2>1 DEF Types, HistTypes
  <2> QED  BY <2>1, <2>2, HistFields DEF PinInv
<1>6. \A b \in Block : CrOf(b)' = {} => disk'[b] = Ver(b)'
  <2> TAKE b \in Block
  <2> HAVE CrOf(b)' = {}
  <2>1. CrOf(b) = {}  BY <1>1, <1>4 DEF CrOf
  <2>2. b \notin Upd(p)  BY <1>5, <2>1 DEF CrOf
  <2> QED  BY <1>2, <1>3, <2>1, <2>2 DEF DataInv
<1>7. ASSUME NEW q \in Proc, NEW b \in Block, pc'[q] = "read", Blk(q)' = b  PROVE disk'[b] = Ver(b)'
  <2>1. q # p  BY <1>1, <1>7
  <2>2. pc[q] = "read" /\ Blk(q) = b  BY <1>7, <2>1, OtherSets DEF Others
  <2>3. PICK c : c = Hist(q).cr  OBVIOUS
  <2>4. Hist(q) \in HistRec  BY <2>2, JobFacts
  <2>5. c \in Buffer /\ cr[c].rip = q /\ cr[c].blk = b  BY <2>2, <2>3, <2>4, HistFields DEF ReadInv
  <2>6. b \notin Upd(p)
    <3> SUFFICES ASSUME b \in Upd(p)  PROVE FALSE  OBVIOUS
    <3>1. c = hist[p][b].cr  BY <1>5, <2>5, BlockNat DEF PinInv
    <3> QED  BY <1>5, <2>5, <3>1, BlockNat
  <2> QED  BY <1>2, <1>3, <2>2, <2>6 DEF DataInv
<1>8. ASSUME NEW c \in Buffer', NEW b \in Block, cr'[c].blk = b, cr'[c].rip = NoProc  PROVE DataFor(c, b)'
  <2>1. c \in Buffer /\ cr[c].blk = b /\ DataFor(c, b)  BY <1>1, <1>4, <1>8 DEF DataInv
  <2>2. CASE b \in Upd(p)
    <3>1. cr[c].in_tend = p  BY <1>1, <2>1, <2>2 DEF PinInv
    <3>2. ~Settled(c)'  BY <1>1, <3>1 DEF Settled, InCommit
    <3>3. Ver(b)'.tn = ctn'[p]  BY <1>2, <1>3, <2>2
    <3> QED  BY <1>1, <1>3, <2>1, <3>1, <3>2, <3>3 DEF DataFor
  <2>3. CASE b \notin Upd(p)
    <3>1. cr[c].in_tend # p  BY <1>1, <2>1, <2>3 DEF PinInv
    <3>2. \A q \in Proc : cr[c].in_tend = q => pc'[q] = pc[q] /\ ctn'[q] = ctn[q] /\ Cse(q)' = Cse(q)
      BY <3>1, OtherData
    <3>3. Ver(b)' = Ver(b)  BY <1>2, <2>3
    <3> QED  BY <1>1, <1>3, <2>1, <3>2, <3>3, DataKeep DEF SameData
  <2> QED  BY <2>2, <2>3
<1> QED  BY <1>6, <1>7, <1>8 DEF DataInv

LEMMA DataBuild ==
  ASSUME Types, JobInv, PinInv, WtrInv, DataInv, NEW p \in Proc, Others(p), BuildStart(p) \/ BuildEnd(p)
  PROVE  DataInv'
<1>0. PICK b, c : b = Cse(p) /\ c = CseCr(p)  OBVIOUS
<1>1. /\ Turn(p, b, c) /\ CommitFrame(p) /\ curr_tn' = curr_tn /\ rem' = rem
      /\ \/ pc[p] = "cmt18a" /\ pc'[p] = "cmt18b"
         \/ pc[p] = "cmt18b" /\ pc'[p] = "cmt18c" /\ cr'[c].data.tn = ctn[p]
      /\ Only(c) /\ SameId(c) /\ SameLock(c) /\ cr'[c].dirty = cr[c].dirty /\ cr'[c].data.blk = cr[c].data.blk
  <2>1. CASE BuildStart(p)  BY <1>0, <2>1, BuildStartIs DEF SameWtr
  <2>2. CASE BuildEnd(p)  BY <1>0, <2>2, BuildEndIs
  <2> QED  BY <2>1, <2>2
<1>2. c \in Buffer /\ b \in Block /\ cr[c].blk = b /\ b \in rem[p]  BY <1>1 DEF Turn
<1>3. b \in Locked(p) /\ b \in Tending(p)  BY <1>1, <1>2 DEF Locked, Tending, Phase2
<1>4. cr[c].dirty # 0 /\ cr[c].in_tend = p  BY <1>2, <1>3 DEF WtrInv, WtrFor, PinInv
<1>5. Cse(p)' = b  BY <1>0, <1>1 DEF Cse
<1>6. pc[p] \in Phase2 /\ pc'[p] \in Phase2 /\ pc'[p] \notin InCommit /\ pc[p] # "read" /\ pc'[p] # "read"
  BY <1>1 DEF Phase2, InCommit
<1>7. ASSUME DataFor(c, b)  PROVE DataFor(c, b)'
  <2>1. Ver(b)' = Ver(b) /\ ctn' = ctn  BY <1>1, <1>2, JnlSame, SameVer DEF CommitFrame
  <2>2. cr'[c].in_tend = p /\ cr'[c].dirty # 0  BY <1>1, <1>4 DEF SameLock
  <2>3. ~Settled(c)'  BY <1>6, <2>2 DEF Settled
  <2>4. Ver(b).tn = ctn[p]  BY <1>4, <1>6, <1>7 DEF DataFor
  <2>5. pc'[p] \in {"cmt18c", "cmt18d"} => cr'[c].data.tn = ctn[p]  BY <1>1
  <2> QED  BY <1>1, <1>7, <2>1, <2>2, <2>3, <2>4, <2>5 DEF DataFor
<1> QED  BY <1>1, <1>2, <1>5, <1>6, <1>7, DataOne DEF CommitFrame

LEMMA DataRelease ==
  ASSUME Types, JobInv, PinInv, DataInv, NEW p \in Proc, Others(p), Release(p)
  PROVE  DataInv'
<1>0. PICK b, c : b = Cse(p) /\ c = CseCr(p)  OBVIOUS
<1>1. /\ Turn(p, b, c) /\ CommitFrame(p) /\ curr_tn' = curr_tn /\ pc[p] = "cmt18c" /\ pc'[p] = "cmt18d"
      /\ Only(c) /\ SameId(c) /\ SameLock(c) /\ cr'[c].dirty = cr[c].dirty /\ SameData(c) /\ Cse(p)' = b
  BY <1>0, ReleaseIs
<1>2. c \in Buffer /\ b \in Block /\ cr[c].blk = b  BY <1>1 DEF Turn
<1>3. pc[p] \in Phase2 /\ pc'[p] \notin InCommit /\ pc[p] # "read" /\ pc'[p] # "read"  BY <1>1 DEF Phase2, InCommit
<1>4. ctn' = ctn /\ disk' = disk /\ jnl' = jnl  BY <1>1 DEF CommitFrame
<1>5. ASSUME NEW q \in Proc
      PROVE  /\ pc'[q] \in InCommit => pc[q] \in InCommit
             /\ pc'[q] \in Phase2 => pc[q] \in Phase2 /\ ctn'[q] = ctn[q]
             /\ pc'[q] \in {"cmt18c", "cmt18d"} /\ b = Cse(q)' => pc[q] \in {"cmt18c", "cmt18d"} /\ b = Cse(q)
  <2>1. CASE q = p  BY <1>0, <1>1, <1>3, <1>4, <2>1
  <2>2. CASE q # p  BY <2>2, OtherData
  <2> QED  BY <2>1, <2>2
<1>6. ASSUME DataFor(c, b)  PROVE DataFor(c, b)'
  <2>1. Ver(b)' = Ver(b)  BY <1>1, <1>2, <1>4, JnlSame, SameVer
  <2> QED  BY <1>1, <1>4, <1>5, <1>6, <2>1, DataKeep DEF SameLock
<1> QED  BY <1>0, <1>1, <1>2, <1>3, <1>4, <1>6, DataOne

LEMMA DataReset ==
  ASSUME Types, Types', JobInv, PinInv, DataInv, NEW p \in Proc, Others(p), ResetInTend(p)
  PROVE  DataInv'
<1>0. PICK b, c : b = Cse(p) /\ c = CseCr(p)  OBVIOUS
<1>1. /\ Turn(p, b, c) /\ CommitFrame(p) /\ curr_tn' = curr_tn /\ pc[p] = "cmt18d" /\ pc'[p] \in {"idle", "cmt18a"}
      /\ Only(c) /\ SameId(c) /\ SameWtr(c) /\ SameData(c) /\ cr'[c].in_tend = NoProc
  BY <1>0, ResetIs
<1>2. c \in Buffer /\ b \in Block /\ cr[c].blk = b /\ b \in rem[p]  BY <1>1 DEF Turn
<1>3. pc[p] \in Phase2 /\ pc'[p] \notin InCommit /\ pc[p] # "read" /\ pc'[p] # "read"  BY <1>1 DEF Phase2, InCommit
<1>4. ctn' = ctn /\ disk' = disk /\ jnl' = jnl  BY <1>1 DEF CommitFrame
<1>5. cr[c].in_tend = p  BY <1>1, <1>2, <1>3 DEF PinInv, Tending
<1>6. ASSUME DataFor(c, b)  PROVE DataFor(c, b)'
  <2>1. Ver(b)' = Ver(b)  BY <1>1, <1>2, <1>4, JnlSame, SameVer
  <2>2. cr[c].data.blk = b /\ cr[c].data.tn = ctn[p] /\ Ver(b).tn = ctn[p]
    BY <1>0, <1>1, <1>3, <1>5, <1>6 DEF DataFor
  <2>3. cr[c].data = [blk |-> b, tn |-> ctn[p]]
    <3>1. cr[c].data \in Contents  BY <1>2, CrFields
    <3> QED  BY <2>2, <3>1 DEF Contents
  <2>4. cr[c].data = Ver(b)  BY <2>2, <2>3, VerNat
  <2>5. \A q \in Proc : cr'[c].in_tend # q  BY <1>1, BlockNat
  <2> QED  BY <1>1, <1>4, <1>6, <2>1, <2>4, <2>5 DEF DataFor, SameData, SameWtr
<1>7. pc'[p] \notin {"cmt18c", "cmt18d"}  BY <1>1
<1> QED  BY <1>1, <1>2, <1>3, <1>4, <1>6, <1>7, DataOne

LEMMA DataNewBuffer ==
  ASSUME Types, JobInv, PinInv, DataInv, NEW p \in Proc, Others(p), NewBuffer(p)
  PROVE  DataInv'
<1>0. PICK b : b = Blk(p)  OBVIOUS
<1>1. PICK c \in Reusable(p) :
        /\ c \in Buffer /\ Only(c) /\ cr'[c].rip = p /\ cr'[c].blk = b
  BY <1>0, NewBufferIs
<1>2. /\ b \in Block /\ CrOf(b) = {} /\ pc[p] = "getn" /\ pc'[p] = "read" /\ Blk(p)' = b
      /\ disk' = disk /\ curr_tn' = curr_tn /\ jnl' = jnl
  BY <1>0, NewBufferIs
<1>3. cr[c].dirty = 0 /\ cr[c].in_tend = NoProc /\ cr[c].rip = NoProc  BY <1>1 DEF Reusable
<1>4. Buffer' = Buffer /\ \A d \in Buffer \ {c} : SameAll(d)  BY <1>1, OnlyAll DEF Only
<1>5. \A e \in Block : Ver(e)' = Ver(e)  BY <1>2, JnlSame, SameVer
<1>6. ASSUME NEW e \in Block, CrOf(e)' = {}  PROVE disk'[e] = Ver(e)'
  <2>1. \A d \in Buffer : cr'[d].blk # e  BY <1>4, <1>6 DEF CrOf
  <2>2. CASE cr[c].blk = e
    <3>1. DataFor(c, e)  BY <1>1, <1>3, <2>2 DEF DataInv
    <3>2. Settled(c)  BY <1>3, BlockNat DEF Settled
    <3> QED  BY <1>2, <1>3, <1>5, <3>1, <3>2 DEF DataFor
  <2>3. CASE cr[c].blk # e
    <3>1. CrOf(e) = {}  BY <1>4, <2>1, <2>3 DEF CrOf, SameAll, SameId
    <3> QED  BY <1>2, <1>5, <3>1 DEF DataInv
  <2> QED  BY <2>2, <2>3
<1>7. ASSUME NEW q \in Proc, NEW e \in Block, pc'[q] = "read", Blk(q)' = e  PROVE disk'[e] = Ver(e)'
  <2>1. CASE q = p  BY <1>2, <1>5, <1>7, <2>1 DEF DataInv
  <2>2. CASE q # p
    <3>1. pc[q] = "read" /\ Blk(q) = e  BY <1>7, <2>2, OtherSets DEF Others
    <3> QED  BY <1>2, <1>5, <3>1 DEF DataInv
  <2> QED  BY <2>1, <2>2
<1>8. ASSUME NEW d \in Buffer', NEW e \in Block, cr'[d].blk = e, cr'[d].rip = NoProc  PROVE DataFor(d, e)'
  <2>1. d # c  BY <1>1, <1>8, BlockNat
  <2>2. SameAll(d) /\ d \in Buffer  BY <1>4, <2>1
  <2>3. cr[d].blk = e /\ cr[d].rip = NoProc  BY <1>8, <2>2 DEF SameAll, SameId
  <2>4. DataFor(d, e)  BY <2>2, <2>3 DEF DataInv
  <2>5. \A q \in Proc : /\ pc'[q] \in InCommit \cup Phase2 => pc'[q] = pc[q] /\ ctn'[q] = ctn[q] /\ Cse(q)' = Cse(q)
    <3> TAKE q \in Proc
    <3>1. CASE q = p  BY <1>2, <3>1 DEF InCommit, Phase2
    <3>2. CASE q # p  BY <3>2, OtherData
    <3> QED  BY <3>1, <3>2
  <2>6. \A q \in Proc : pc'[q] \in {"cmt18c", "cmt18d"} => pc'[q] = pc[q] /\ Cse(q)' = Cse(q)  BY <2>5 DEF Phase2
  <2> QED  BY <1>2, <1>5, <2>2, <2>4, <2>5, <2>6, DataKeep DEF SameAll, SameLock, SameWtr
<1> QED  BY <1>6, <1>7, <1>8 DEF DataInv

LEMMA DataDskRead ==
  ASSUME Types, JobInv, PinInv, ReadInv, DataInv, NEW p \in Proc, Others(p), DskRead(p)
  PROVE  DataInv'
<1>0. PICK c, b : c = Hist(p).cr /\ b = Blk(p)  OBVIOUS
<1>1. /\ c \in Buffer /\ Only(c) /\ cr'[c].blk = cr[c].blk /\ SameWtr(c) /\ SameLock(c) /\ cr'[c].data = disk[b]
      /\ pc[p] = "read" /\ pc'[p] = "look" /\ b \in Block /\ disk' = disk /\ curr_tn' = curr_tn /\ jnl' = jnl
  BY <1>0, DskReadIs
<1>2. cr[c].blk = b /\ cr[c].rip = p  BY <1>0, <1>1 DEF ReadInv
<1>3. disk[b] = Ver(b)  BY <1>0, <1>1 DEF DataInv
<1>4. Buffer' = Buffer /\ \A d \in Buffer \ {c} : SameAll(d)  BY <1>1, OnlyAll DEF Only
<1>5. \A e \in Block : Ver(e)' = Ver(e)  BY <1>1, JnlSame, SameVer
<1>6. \A q \in Proc : cr[c].in_tend # q
  <2> SUFFICES ASSUME NEW q \in Proc, cr[c].in_tend = q  PROVE FALSE  OBVIOUS
  <2>1. b \in Pinned(q)  BY <1>1, <1>2, TendingPinned DEF PinInv
  <2>2. hist[q][b] \in HistRec  BY <1>1 DEF Types, HistTypes
  <2>3. hist[q][b].cr \in Buffer /\ cr[hist[q][b].cr].blk = b /\ cr[hist[q][b].cr].rip = NoProc
    BY <2>1, <2>2, HistFields DEF PinInv
  <2>4. hist[q][b].cr = c  BY <1>1, <1>2, <2>3, BlockNat DEF PinInv
  <2> QED  BY <1>2, <2>3, <2>4, BlockNat
<1>7. ASSUME NEW e \in Block, CrOf(e)' = {}  PROVE disk'[e] = Ver(e)'
  <2>1. \A d \in Buffer : cr'[d].blk = cr[d].blk  BY <1>1, <1>4 DEF SameAll, SameId
  <2>2. CrOf(e) = {}  BY <1>4, <1>7, <2>1 DEF CrOf
  <2> QED  BY <1>1, <1>5, <2>2 DEF DataInv
<1>8. ASSUME NEW q \in Proc, NEW e \in Block, pc'[q] = "read", Blk(q)' = e  PROVE disk'[e] = Ver(e)'
  <2>1. q # p  BY <1>1, <1>8
  <2>2. pc[q] = "read" /\ Blk(q) = e  BY <1>8, <2>1, OtherSets DEF Others
  <2> QED  BY <1>1, <1>5, <2>2 DEF DataInv
<1>9. ASSUME NEW d \in Buffer', NEW e \in Block, cr'[d].blk = e, cr'[d].rip = NoProc  PROVE DataFor(d, e)'
  <2>1. CASE d = c
    <3>1. e = b  BY <1>1, <1>2, <1>9, <2>1
    <3>2. \A q \in Proc : cr'[c].in_tend # q  BY <1>1, <1>6 DEF SameLock
    <3>3. Ver(b).blk = b  BY VerNat
    <3> QED  BY <1>1, <1>3, <1>5, <2>1, <3>1, <3>2, <3>3 DEF DataFor
  <2>2. CASE d # c
    <3>1. SameAll(d) /\ d \in Buffer  BY <1>4, <2>2
    <3>2. cr[d].blk = e /\ cr[d].rip = NoProc  BY <1>9, <3>1 DEF SameAll, SameId
    <3>3. DataFor(d, e)  BY <3>1, <3>2 DEF DataInv
    <3>4. \A q \in Proc : pc'[q] \in InCommit \cup Phase2 => pc'[q] = pc[q] /\ ctn'[q] = ctn[q] /\ Cse(q)' = Cse(q)
      <4> TAKE q \in Proc
      <4>1. CASE q = p  BY <1>1, <4>1 DEF InCommit, Phase2
      <4>2. CASE q # p  BY <4>2, OtherData
      <4> QED  BY <4>1, <4>2
    <3>5. \A q \in Proc : pc'[q] \in {"cmt18c", "cmt18d"} => pc'[q] = pc[q] /\ Cse(q)' = Cse(q)  BY <3>4 DEF Phase2
    <3> QED  BY <1>1, <1>5, <3>1, <3>3, <3>4, <3>5, DataKeep DEF SameAll, SameLock, SameWtr
  <2> QED  BY <2>1, <2>2
<1> QED  BY <1>7, <1>8, <1>9 DEF DataInv

LEMMA DataWriter ==
  ASSUME Types, JobInv, PinInv, ReadInv, WtrInv, DataInv, NEW w \in Writer, WtStep(w)
  PROVE  DataInv'
<1>0. WtrFrame /\ pc' = pc /\ ctn' = ctn /\ rem' = rem /\ curr_tn' = curr_tn /\ jnl' = jnl
  BY WtrFrameIs DEF WtrFrame
<1>1. \A q \in Proc : Cse(q)' = Cse(q)  BY <1>0 DEF Cse
<1>2. \A e \in Block : Ver(e)' = Ver(e)  BY <1>0, JnlSame, SameVer
<1>3. ASSUME NEW c \in Buffer, Only(c), SameId(c), SameLock(c), SameData(c), cr'[c].dirty = cr[c].dirty, disk' = disk
      PROVE  DataInv'
  <2>1. ASSUME NEW d \in Buffer, NEW e \in Block, cr[d].blk = e, cr[d].rip = NoProc, DataFor(d, e)  PROVE DataFor(d, e)'
    <3>1. SameData(d) /\ SameLock(d) /\ cr'[d].dirty = cr[d].dirty  BY <1>3, OnlyAll DEF SameAll, SameWtr
    <3> QED  BY <1>0, <1>1, <1>2, <1>3, <2>1, <3>1, DataKeep DEF SameLock
  <2>2. Buffer' = Buffer /\ \A d \in Buffer : SameId(d)  BY <1>3, OnlyAll DEF Only, SameAll
  <2>3. Others(NoProc) /\ NoProc \notin Proc  BY OthersWriter, BlockNat
  <2> QED  BY <1>0, <1>3, <2>1, <2>2, <2>3, DataFrame
<1>4. ASSUME NEW c \in Buffer, WtStart(w, c)  PROVE DataInv'  BY <1>3, <1>4, WtStartIs
<1>5. PICK c : c = wtr[w].cr  OBVIOUS
<1>6. CASE WtLock(w)  BY <1>3, <1>5, <1>6, WtLockIs
<1>7. CASE WtRelease(w)  BY <1>3, <1>5, <1>7, WtReleaseIs
<1>8. CASE WtWrite(w)
  <2>1. /\ wtr[w].pc = "write" /\ c \in Buffer
        /\ Only(c) /\ SameId(c) /\ SameLock(c) /\ SameData(c)
        /\ \A e \in Block : disk'[e] = IF e = cr[c].blk THEN cr[c].data ELSE disk[e]
    <3>1. wtr[w].pc = "write" /\ c \in Buffer /\ Only(c) /\ SameId(c) /\ SameLock(c) /\ SameData(c)
      BY <1>5, <1>8, WtWriteIs
    <3>2. \A e \in Block : disk'[e] = IF e = cr[c].blk THEN cr[c].data ELSE disk[e]
      BY <1>5, <1>8 DEF WtWrite, Types, FileTypes
    <3> QED  BY <3>1, <3>2
  <2>2. Busy(w, c)  BY <1>5, <2>1 DEF Busy
  <2>3. cr[c].dirty # 0 /\ cr[c].blk # NoBlock /\ cr[c].rip = NoProc  BY <2>1, <2>2 DEF WtrInv, WtrFor
  <2>4. PICK b \in Block : b = cr[c].blk  BY <2>1, <2>3, CrFields
  <2>5. Buffer' = Buffer /\ (\A d \in Buffer \ {c} : SameAll(d)) /\ \A d \in Buffer : SameId(d)
    BY <2>1, OnlyAll DEF Only, SameAll
  <2>6. ASSUME NEW e \in Block, CrOf(e)' = {}  PROVE disk'[e] = Ver(e)'
    <3>1. CrOf(e) = {}  BY <2>5, <2>6 DEF CrOf, SameId
    <3>2. e # b  BY <2>1, <2>4, <3>1 DEF CrOf
    <3> QED  BY <1>2, <2>1, <2>4, <3>1, <3>2 DEF DataInv
  <2>7. ASSUME NEW q \in Proc, NEW e \in Block, pc'[q] = "read", Blk(q)' = e  PROVE disk'[e] = Ver(e)'
    <3>1. pc[q] = "read" /\ Blk(q) = e  BY <1>0, <2>7 DEF Blk, Path, WtrFrame
    <3>2. PICK d : d = Hist(q).cr  OBVIOUS
    <3>3. Hist(q) \in HistRec  BY <3>1, JobFacts
    <3>4. d \in Buffer /\ cr[d].rip = q /\ cr[d].blk = e  BY <3>1, <3>2, <3>3, HistFields DEF ReadInv
    <3>5. d # c  BY <2>3, <3>4, BlockNat
    <3>6. e # b  BY <2>1, <2>4, <3>4, <3>5, BlockNat DEF PinInv
    <3> QED  BY <1>2, <2>1, <2>4, <3>1, <3>6 DEF DataInv
  <2>8. ASSUME NEW d \in Buffer', NEW e \in Block, cr'[d].blk = e, cr'[d].rip = NoProc  PROVE DataFor(d, e)'
    <3>1. d \in Buffer /\ cr[d].blk = e /\ cr[d].rip = NoProc  BY <2>5, <2>8 DEF SameId
    <3>2. DataFor(d, e)  BY <3>1 DEF DataInv
    <3>3. CASE d = c
      <4>1. e = b /\ disk'[e] = cr[c].data  BY <2>1, <2>4, <3>1, <3>3
      <4>2. Settled(c)' => Settled(c)  BY <1>0, <2>1 DEF Settled, SameLock
      <4>3. ASSUME NEW q \in Proc, cr'[c].in_tend = q, pc'[q] \in Phase2
            PROVE  /\ Ver(b)'.tn = ctn'[q]
                   /\ pc'[q] \in {"cmt18c", "cmt18d"} /\ b = Cse(q)' => cr'[c].data.tn = ctn'[q]
        BY <1>0, <1>1, <1>2, <2>1, <3>2, <3>3, <4>1, <4>3 DEF DataFor, SameLock, SameData
      <4> QED  BY <1>2, <2>1, <3>2, <3>3, <4>1, <4>2, <4>3 DEF DataFor, SameData
    <3>4. CASE d # c
      <4>1. e # b  BY <2>1, <2>4, <3>1, <3>4, BlockNat DEF PinInv
      <4>2. disk'[e] = disk[e] /\ SameAll(d)  BY <2>1, <2>4, <2>5, <3>1, <3>4, <4>1
      <4> QED  BY <1>0, <1>1, <1>2, <3>2, <4>2, DataKeep DEF SameAll, SameLock, SameWtr
    <3> QED  BY <3>3, <3>4
  <2> QED  BY <2>6, <2>7, <2>8 DEF DataInv
<1> QED  BY <1>4, <1>6, <1>7, <1>8 DEF WtStep

-----------------------------------------------------------------------------
(* HistInv: what a search has noted of a buffer holds while its cycle has not moved *)

(* What a step of anyone may do to the buffers and blocks a search has noted *)
Moves ==
  /\ Buffer' = Buffer /\ curr_tn <= curr_tn'
  /\ \A c \in Buffer : /\ cr[c].cycle <= cr'[c].cycle
                       /\ cr'[c].cycle = cr[c].cycle =>
                            cr'[c].blk = cr[c].blk /\ (cr[c].rip = NoProc => cr'[c].rip = NoProc)
  /\ \A b \in Block : Ver(b)' = Ver(b) \/ (curr_tn' # curr_tn /\ curr_tn = Ver(b)'.tn)
  /\ \A c \in Buffer, b \in Block : cr[c].blk = b /\ cr'[c].cycle = cr[c].cycle /\ Ver(b)' = Ver(b) /\ Settled(c) => Settled(c)'

LEMMA MovesFrame ==
  ASSUME Types, Buffer' = Buffer, curr_tn' = curr_tn, \A b \in Block : Ver(b)' = Ver(b),
         \A c \in Buffer : /\ cr[c].cycle <= cr'[c].cycle
                           /\ cr'[c].cycle = cr[c].cycle =>
                                /\ cr'[c].blk = cr[c].blk /\ (cr[c].rip = NoProc => cr'[c].rip = NoProc)
                                /\ \A q \in Proc : cr'[c].in_tend = q => cr[c].in_tend = q \/ pc'[q] \in InCommit,
         \A q \in Proc : pc[q] \in InCommit => pc'[q] \in InCommit
  PROVE  Moves
<1>1. curr_tn <= curr_tn'  BY DEF Types, FileTypes
<1>2. ASSUME NEW c \in Buffer, NEW b \in Block, cr[c].blk = b, cr'[c].cycle = cr[c].cycle, Settled(c)  PROVE Settled(c)'
  BY <1>2 DEF Settled
<1> QED  BY <1>1, <1>2 DEF Moves

LEMMA MovesQuiet ==
  ASSUME Types, NEW p, Quiet(p)
  PROVE  Moves
<1>1. cr' = cr /\ Buffer' = Buffer /\ curr_tn' = curr_tn  BY DEF Quiet, Buffer
<1>2. \A b \in Block : Ver(b)' = Ver(b)  BY SameVer DEF Quiet
<1>3. \A q \in Proc : pc[q] \in InCommit => pc'[q] \in InCommit  BY QuietSets
<1>4. \A c \in Buffer : cr[c].cycle <= cr'[c].cycle  BY <1>1, CrFields
<1> QED  BY <1>1, <1>2, <1>3, <1>4, MovesFrame

LEMMA OtherCommit ==
  ASSUME NEW p, Others(p), p \in Proc => (pc[p] \in InCommit => pc'[p] \in InCommit)
  PROVE  \A q \in Proc : pc[q] \in InCommit => pc'[q] \in InCommit
BY DEF Others

LEMMA CycleNat ==
  ASSUME Types, NEW c \in Buffer
  PROVE  cr[c].cycle \in Nat /\ cr[c].cycle <= cr[c].cycle /\ cr[c].cycle <= cr[c].cycle + 1 /\ cr[c].cycle + 1 # cr[c].cycle
<1>1. cr[c].cycle \in Nat  BY CrFields
<1> QED  BY <1>1

LEMMA MovesSearch ==
  ASSUME Types, JobInv, NEW p \in Proc, Others(p), NewBuffer(p) \/ DskRead(p)
  PROVE  Moves
<1>1. CASE NewBuffer(p)
  <2>1. PICK c \in Buffer : Only(c) /\ cr'[c].cycle = cr[c].cycle + 1  BY <1>1, NewBufferIs DEF Reusable
  <2>2. pc[p] = "getn" /\ curr_tn' = curr_tn /\ jnl' = jnl  BY <1>1, NewBufferIs
  <2>3. \A b \in Block : Ver(b)' = Ver(b)  BY <2>2, JnlSame, SameVer
  <2>4. \A q \in Proc : pc[q] \in InCommit => pc'[q] \in InCommit  BY <2>2, OtherCommit DEF InCommit
  <2>5. \A d \in Buffer : d # c => SameAll(d)  BY <2>1, OnlyAll
  <2>6. Buffer' = Buffer  BY <2>1 DEF Only
  <2>7. ASSUME NEW d \in Buffer
        PROVE  /\ cr[d].cycle <= cr'[d].cycle
               /\ cr'[d].cycle = cr[d].cycle =>
                    /\ cr'[d].blk = cr[d].blk /\ (cr[d].rip = NoProc => cr'[d].rip = NoProc)
                    /\ \A q \in Proc : cr'[d].in_tend = q => cr[d].in_tend = q \/ pc'[q] \in InCommit
    <3>1. CASE d = c  BY <2>1, <3>1, CycleNat
    <3>2. CASE d # c  BY <2>5, <3>2, CycleNat DEF SameAll, SameId, SameLock
    <3> QED  BY <3>1, <3>2
  <2> QED  BY <2>2, <2>3, <2>4, <2>6, <2>7, MovesFrame
<1>2. CASE DskRead(p)
  <2>0. PICK c : c = Hist(p).cr  OBVIOUS
  <2>1. /\ c \in Buffer /\ Only(c) /\ cr'[c].cycle = cr[c].cycle /\ cr'[c].blk = cr[c].blk /\ cr'[c].rip = NoProc
        /\ SameLock(c)
    BY <1>2, <2>0, DskReadIs
  <2>2. pc[p] = "read" /\ curr_tn' = curr_tn /\ jnl' = jnl  BY <1>2, DskReadIs
  <2>3. \A b \in Block : Ver(b)' = Ver(b)  BY <2>2, JnlSame, SameVer
  <2>4. \A q \in Proc : pc[q] \in InCommit => pc'[q] \in InCommit  BY <2>2, OtherCommit DEF InCommit
  <2>5. \A d \in Buffer : d # c => SameAll(d)  BY <2>1, OnlyAll
  <2>6. Buffer' = Buffer  BY <2>1 DEF Only
  <2>7. ASSUME NEW d \in Buffer
        PROVE  /\ cr[d].cycle <= cr'[d].cycle
               /\ cr'[d].cycle = cr[d].cycle =>
                    /\ cr'[d].blk = cr[d].blk /\ (cr[d].rip = NoProc => cr'[d].rip = NoProc)
                    /\ \A q \in Proc : cr'[d].in_tend = q => cr[d].in_tend = q \/ pc'[q] \in InCommit
    <3>1. CASE d = c  BY <2>1, <3>1, CycleNat DEF SameLock
    <3>2. CASE d # c  BY <2>5, <3>2, CycleNat DEF SameAll, SameId, SameLock
    <3> QED  BY <3>1, <3>2
  <2> QED  BY <2>2, <2>3, <2>4, <2>6, <2>7, MovesFrame
<1> QED  BY <1>1, <1>2

(* The same for a step that gives no buffer away *)
LEMMA MovesSame ==
  ASSUME Types, Buffer' = Buffer, curr_tn' = curr_tn, jnl' = jnl,
         \A c \in Buffer : SameId(c) /\ \A q \in Proc : cr'[c].in_tend = q => cr[c].in_tend = q \/ pc'[q] \in InCommit,
         \A q \in Proc : pc[q] \in InCommit => pc'[q] \in InCommit
  PROVE  Moves
<1>1. \A b \in Block : Ver(b)' = Ver(b)  BY JnlSame, SameVer
<1>2. \A c \in Buffer : /\ cr[c].cycle <= cr'[c].cycle
                        /\ cr'[c].cycle = cr[c].cycle =>
                             /\ cr'[c].blk = cr[c].blk /\ (cr[c].rip = NoProc => cr'[c].rip = NoProc)
                             /\ \A q \in Proc : cr'[c].in_tend = q => cr[c].in_tend = q \/ pc'[q] \in InCommit
  BY CycleNat DEF SameId
<1> QED  BY <1>1, <1>2, MovesFrame

LEMMA MovesCommit ==
  ASSUME Types, JobInv, PinInv, CritInv, TnInv, NEW p \in Proc, Others(p), Valid(p) \/ BufStep(p)
  PROVE  Moves
<1>0. PICK b, c : b = Cse(p) /\ c = CseCr(p)  OBVIOUS
<1>1. ASSUME c \in Buffer, Only(c), SameId(c), curr_tn' = curr_tn, jnl' = jnl,
             \A q \in Proc : cr'[c].in_tend = q => cr[c].in_tend = q \/ pc'[q] \in InCommit,
             pc[p] \in InCommit => pc'[p] \in InCommit
      PROVE  Moves
  <2>1. Buffer' = Buffer  BY <1>1 DEF Only
  <2>2. ASSUME NEW d \in Buffer
        PROVE  SameId(d) /\ \A q \in Proc : cr'[d].in_tend = q => cr[d].in_tend = q \/ pc'[q] \in InCommit
    BY <1>1, OnlyAll DEF SameAll, SameLock
  <2>3. \A q \in Proc : pc[q] \in InCommit => pc'[q] \in InCommit  BY <1>1, OtherCommit
  <2> QED  BY <1>1, <2>1, <2>2, <2>3, MovesSame
<1>2. CASE Valid(p)
  <2>1. /\ pc[p] = "valid" /\ curr_tn' = curr_tn /\ jnl' = jnl /\ Buffer' = Buffer
        /\ \A d \in Buffer : SameId(d) /\ cr'[d].in_tend = cr[d].in_tend
    BY <1>2, ValidIs
  <2>2. \A q \in Proc : pc[q] \in InCommit => pc'[q] \in InCommit  BY <2>1, OtherCommit DEF InCommit
  <2> QED  BY <2>1, <2>2, MovesSame
<1>3. CASE Phase1(p)
  <2>1. /\ c \in Buffer /\ Only(c) /\ SameId(c) /\ curr_tn' = curr_tn /\ jnl' = jnl /\ cr'[c].in_tend = p /\ pc'[p] \in Early
    BY <1>0, <1>3, Phase1Is DEF Turn, CommitFrame, DirtiedIs
  <2> QED  BY <1>1, <2>1 DEF Early, InCommit
<1>4. CASE Phase1Wait(p)
  <2>1. /\ c \in Buffer /\ Only(c) /\ SameId(c) /\ curr_tn' = curr_tn /\ jnl' = jnl /\ cr'[c].in_tend = p /\ pc'[p] \in Early
    BY <1>0, <1>4, Phase1WaitIs DEF Turn, CommitFrame, DirtiedIs
  <2> QED  BY <1>1, <2>1 DEF Early, InCommit
<1>5. CASE BuildStart(p)
  <2>1. /\ c \in Buffer /\ Only(c) /\ SameId(c) /\ curr_tn' = curr_tn /\ jnl' = jnl /\ SameLock(c) /\ pc[p] = "cmt18a"
    BY <1>0, <1>5, BuildStartIs DEF Turn, CommitFrame
  <2> QED  BY <1>1, <2>1 DEF InCommit, SameLock
<1>6. CASE BuildEnd(p)
  <2>1. /\ c \in Buffer /\ Only(c) /\ SameId(c) /\ curr_tn' = curr_tn /\ jnl' = jnl /\ SameLock(c) /\ pc[p] = "cmt18b"
    BY <1>0, <1>6, BuildEndIs DEF Turn, CommitFrame
  <2> QED  BY <1>1, <2>1 DEF InCommit, SameLock
<1>7. CASE Release(p)
  <2>1. /\ c \in Buffer /\ Only(c) /\ SameId(c) /\ curr_tn' = curr_tn /\ jnl' = jnl /\ SameLock(c) /\ pc[p] = "cmt18c"
    BY <1>0, <1>7, ReleaseIs DEF Turn, CommitFrame
  <2> QED  BY <1>1, <2>1 DEF InCommit, SameLock
<1>8. CASE ResetInTend(p)
  <2>1. /\ c \in Buffer /\ Only(c) /\ SameId(c) /\ curr_tn' = curr_tn /\ jnl' = jnl /\ cr'[c].in_tend = NoProc /\ pc[p] = "cmt18d"
    BY <1>0, <1>8, ResetIs DEF Turn, CommitFrame
  <2> QED  BY <1>1, <2>1, BlockNat DEF InCommit
<1>9. CASE IncrementTn(p)
  <2>1. /\ curr_tn' = curr_tn + 1 /\ cr' = cr /\ pc[p] = "cmt12" /\ pc'[p] = "cmt16" /\ Tending(p) = Upd(p)
    BY <1>9, IncrementIs
  <2>2. curr_tn \in Nat /\ Buffer' = Buffer  BY <2>1 DEF Types, FileTypes, Buffer
  <2>3. \A e \in Block : Ver(e)' = IF e \in Upd(p) THEN [blk |-> e, tn |-> curr_tn] ELSE Ver(e)  BY <1>9, CommitVersions
  <2>4. \A e \in Block : Ver(e)' = Ver(e) \/ (curr_tn' # curr_tn /\ curr_tn = Ver(e)'.tn)  BY <2>1, <2>2, <2>3
  <2>5. ASSUME NEW d \in Buffer, NEW e \in Block, cr[d].blk = e, Ver(e)' = Ver(e), Settled(d)  PROVE Settled(d)'
    <3>1. e \notin Upd(p)
      <4> SUFFICES ASSUME e \in Upd(p)  PROVE FALSE  OBVIOUS
      <4>1. Ver(e).tn = curr_tn  BY <2>3, <2>5
      <4> QED  BY <4>1, VerNat
    <3>2. cr[d].in_tend # p  BY <2>1, <2>5, <3>1 DEF PinInv
    <3> QED  BY <2>1, <2>5, <3>2 DEF Settled, Others
  <2> QED  BY <2>1, <2>2, <2>4, <2>5, CycleNat DEF Moves
<1> QED  BY <1>2, <1>3, <1>4, <1>5, <1>6, <1>7, <1>8, <1>9 DEF BufStep

LEMMA MovesWriter ==
  ASSUME Types, NEW w \in Writer, WtStep(w)
  PROVE  Moves
<1>1. PICK c \in Buffer : Only(c) /\ SameId(c) /\ SameLock(c)  BY WriterOnly
<1>2. WtrFrame  BY WtrFrameIs
<1>3. Buffer' = Buffer /\ \A d \in Buffer : SameId(d) /\ SameLock(d)  BY <1>1, OnlyAll DEF Only, SameAll
<1> QED  BY <1>2, <1>3, MovesSame DEF WtrFrame, SameLock

(* What HistFor says of the entry of block b, which points to buffer c *)
Entry(p, b, c) ==
  /\ pc[p] \in {"wait", "intend"} /\ Blk(p) = b => Waits(p, b, c)
  /\ b \in LookSet(p) => Found(p, b, c)
  /\ b \in SeenSet(p) => Seen(p, b, c)

LEMMA HistEntry ==
  ASSUME Types, Types', Moves, NEW p \in Proc, NEW b \in Block, NEW c \in Buffer, hist'[p][b] = hist[p][b],
         Ver(b)' = Ver(b) \/ hist[p][b].tn <= curr_tn
  PROVE  /\ Found(p, b, c) => Found(p, b, c)'
         /\ Found(p, b, c) /\ Seen(p, b, c) => Seen(p, b, c)'
         /\ Waits(p, b, c) /\ (pc'[p] = "intend" => pc[p] = "intend") => Waits(p, b, c)'
<1>1. PICK h \in HistRec : h = hist[p][b]  BY DEF Types, HistTypes
<1>2. h.cycle \in Nat /\ h.tn \in Nat  BY <1>1, HistFields
<1>3. PICK n, m : n = cr[c].cycle /\ m = cr'[c].cycle  OBVIOUS
<1>4. n \in Nat /\ n <= m /\ m \in Nat
  <2>1. n \in Nat /\ n <= m  BY <1>3, CrFields DEF Moves
  <2>2. cr'[c] \in CacheRec  BY DEF Types, BufTypes, Moves
  <2> QED  BY <1>3, <2>1, <2>2 DEF CacheRec
<1>5. h.cycle <= n => h.cycle <= m /\ (h.cycle = m => h.cycle = n /\ m = n)
  <2>1. CASE m = n  BY <2>1
  <2>2. CASE m # n
    <3>1. n < m  BY <1>4, <2>2
    <3> QED  BY <1>2, <1>4, <3>1
  <2> QED  BY <2>1, <2>2
<1>6. PICK v, w : v = Ver(b) /\ w = Ver(b)'  OBVIOUS
<1>7. w.tn < h.tn => w = v
  <2>1. SUFFICES ASSUME w # v  PROVE ~(w.tn < h.tn)  OBVIOUS
  <2>2. h.tn <= curr_tn /\ curr_tn = w.tn  BY <1>1, <1>6, <2>1 DEF Moves
  <2>3. curr_tn \in Nat  BY DEF Types, FileTypes
  <2> QED  BY <1>2, <2>2, <2>3
<1>8. Found(p, b, c) => Found(p, b, c)'
  <2> SUFFICES ASSUME Found(p, b, c)  PROVE Found(p, b, c)'  OBVIOUS
  <2>1. h.cycle <= n /\ (h.cycle = n => cr[c].blk = b /\ cr[c].rip = NoProc /\ (v.tn < h.tn => Settled(c)))
    BY <1>1, <1>3, <1>6 DEF Found
  <2>2. ASSUME h.cycle = m  PROVE cr'[c].blk = b /\ cr'[c].rip = NoProc /\ (w.tn < h.tn => Settled(c)')
    <3>1. m = n /\ h.cycle = n  BY <1>5, <2>1, <2>2
    <3>2. cr[c].blk = b /\ cr[c].rip = NoProc  BY <2>1, <3>1
    <3>3. cr'[c].blk = b /\ cr'[c].rip = NoProc  BY <1>3, <3>1, <3>2 DEF Moves
    <3>4. ASSUME w.tn < h.tn  PROVE Settled(c)'
      <4>1. w = v /\ Settled(c)  BY <1>7, <2>1, <3>1, <3>4
      <4> QED  BY <1>3, <1>6, <3>1, <3>2, <4>1 DEF Moves
    <3> QED  BY <3>3, <3>4
  <2> QED  BY <1>1, <1>3, <1>5, <1>6, <2>1, <2>2 DEF Found
<1>9. Found(p, b, c) /\ Seen(p, b, c) => Seen(p, b, c)'
  <2> SUFFICES ASSUME h.cycle <= n, h.cycle = n /\ v.tn < h.tn => h.ver = v, h.cycle = m, w.tn < h.tn  PROVE h.ver = w
    BY <1>1, <1>3, <1>6 DEF Found, Seen
  <2> QED  BY <1>5, <1>7
<1>10. Waits(p, b, c) /\ (pc'[p] = "intend" => pc[p] = "intend") => Waits(p, b, c)'
  <2> SUFFICES ASSUME Waits(p, b, c), pc'[p] = "intend" => pc[p] = "intend"  PROVE Waits(p, b, c)'  OBVIOUS
  <2>1. h.cycle <= n /\ (pc[p] = "intend" /\ h.cycle = n => cr[c].blk = b /\ cr[c].rip = NoProc)
    BY <1>1, <1>3 DEF Waits
  <2>2. ASSUME h.cycle = m, pc'[p] = "intend"  PROVE cr'[c].blk = b /\ cr'[c].rip = NoProc
    BY <1>3, <1>5, <2>1, <2>2 DEF Moves
  <2> QED  BY <1>1, <1>3, <1>5, <2>1, <2>2 DEF Waits
<1> QED  BY <1>8, <1>9, <1>10

(* A step that changes at most the entry of block e *)
LEMMA HistStep ==
  ASSUME Types, Types', Moves, NEW p \in Proc, HistFor(p), HistTn(p)', NEW e,
         \A b \in Block \ {e} :
           /\ hist'[p][b] = hist[p][b]
           /\ b \in LookSet(p)' => b \in LookSet(p)
           /\ b \in SeenSet(p)' => b \in SeenSet(p) /\ b \in LookSet(p)
           /\ pc'[p] \in {"wait", "intend"} /\ Blk(p)' = b => pc'[p] = pc[p] /\ Blk(p) = b
           /\ Ver(b)' = Ver(b) \/ hist[p][b].tn <= curr_tn,
         e \in Block => \A c \in Buffer : hist'[p][e].cr = c => Entry(p, e, c)'
  PROVE  HistFor(p)'
<1>1. ASSUME NEW b \in Block, NEW c \in Buffer, hist'[p][b].cr = c  PROVE Entry(p, b, c)'
  <2>1. CASE b = e  BY <1>1, <2>1
  <2>2. CASE b # e
    <3>1. /\ hist'[p][b] = hist[p][b] /\ (Ver(b)' = Ver(b) \/ hist[p][b].tn <= curr_tn)
          /\ b \in LookSet(p)' => b \in LookSet(p)
          /\ b \in SeenSet(p)' => b \in SeenSet(p) /\ b \in LookSet(p)
          /\ pc'[p] \in {"wait", "intend"} /\ Blk(p)' = b => pc'[p] = pc[p] /\ Blk(p) = b
      BY <2>2
    <3>2. Entry(p, b, c)  BY <1>1, <3>1 DEF HistFor, Entry
    <3>3. /\ Found(p, b, c) => Found(p, b, c)'
          /\ Found(p, b, c) /\ Seen(p, b, c) => Seen(p, b, c)'
          /\ Waits(p, b, c) /\ (pc'[p] = "intend" => pc[p] = "intend") => Waits(p, b, c)'
      BY <3>1, HistEntry
    <3>4. b \in LookSet(p)' => Found(p, b, c)'  BY <3>1, <3>2, <3>3 DEF Entry
    <3>5. b \in SeenSet(p)' => Seen(p, b, c)'  BY <3>1, <3>2, <3>3 DEF Entry
    <3>6. pc'[p] \in {"wait", "intend"} /\ Blk(p)' = b => Waits(p, b, c)'  BY <3>1, <3>2, <3>3 DEF Entry
    <3> QED  BY <3>4, <3>5, <3>6 DEF Entry
  <2> QED  BY <2>1, <2>2
<1>2. Buffer' = Buffer  BY DEF Moves
<1> QED  BY <1>1, <1>2 DEF HistFor, Entry

LEMMA SeenLook ==
  ASSUME Types, JobInv, NEW p \in Proc
  PROVE  /\ SeenSet(p) \subseteq LookSet(p)
         /\ \A s \in Seq(Block) : NonLeaf(s) \subseteq ToSet(s)
         /\ pc[p] \notin {"idle", "gone"} => Prefix(p) \subseteq NonLeaf(Path(p)) /\ Blk(p) \notin Prefix(p) /\ Blk(p) \in ToSet(Path(p))
<1>1. \A s \in Seq(Block) : NonLeaf(s) \subseteq ToSet(s)
  <2> TAKE s \in Seq(Block)
  <2>1. Len(s) \in Nat /\ DOMAIN s = 1 .. Len(s)  OBVIOUS
  <2>2. \A i \in 1 .. Len(s) - 1 : i \in 1 .. Len(s)  BY <2>1
  <2> QED  BY <2>1, <2>2 DEF NonLeaf, ToSet
<1>2. ASSUME pc[p] \notin {"idle", "gone"}
      PROVE  /\ Prefix(p) \subseteq NonLeaf(Path(p)) /\ Blk(p) \notin Prefix(p) /\ Blk(p) \in ToSet(Path(p))
             /\ NonLeaf(Path(p)) \subseteq ToSet(Path(p))
  <2>1. PICK s, l : s = Path(p) /\ l = lvl[p]  OBVIOUS
  <2>2. /\ s \in Seq(Block) /\ Len(s) \in Nat \ {0} /\ l \in 1 .. Len(s) /\ DOMAIN s = 1 .. Len(s)
        /\ \A i, j \in 1 .. Len(s) : s[i] = s[j] => i = j
    BY <1>2, <2>1, JobFacts
  <2>3. \A i \in 1 .. l - 1 : i \in 1 .. Len(s) - 1 /\ i \in 1 .. Len(s) /\ i # l  BY <2>2
  <2>4. Prefix(p) = {s[i] : i \in 1 .. l - 1} /\ NonLeaf(Path(p)) = {s[i] : i \in 1 .. Len(s) - 1} /\ Blk(p) = s[l]
    BY <2>1 DEF Prefix, NonLeaf, Blk
  <2>5. Prefix(p) \subseteq NonLeaf(Path(p))  BY <2>3, <2>4
  <2>6. Blk(p) \notin Prefix(p)  BY <2>2, <2>3, <2>4
  <2>7. Blk(p) \in ToSet(Path(p))  BY <2>1, <2>2, <2>4 DEF ToSet
  <2> QED  BY <1>1, <2>1, <2>2, <2>5, <2>6, <2>7
<1>3. clue[p] \in Seq(Block)  BY DEF Types, ProcTypes
<1>4. SeenSet(p) \subseteq LookSet(p)
  <2>1. CASE pc[p] = "idle"  BY <1>1, <1>3, <2>1 DEF SeenSet, LookSet
  <2>2. CASE pc[p] = "clue"  BY <1>2, <2>2 DEF SeenSet, LookSet
  <2>3. CASE pc[p] = "look"  BY <2>3 DEF SeenSet, LookSet, AtEnd, InCommit, Phase2
  <2> QED  BY <2>1, <2>2, <2>3 DEF SeenSet
<1> QED  BY <1>1, <1>2, <1>4

(* The others, while one steps *)
LEMMA HistOther ==
  ASSUME Types, Types', JobInv, CritInv, HistInv, Moves, NEW p, Others(p), curr_tn' # curr_tn => p \in Proc /\ pc[p] \in InCommit,
         NEW q \in Proc \ {p}
  PROVE  HistFor(q)'
<1>1. /\ Path(q)' = Path(q) /\ Blk(q)' = Blk(q) /\ LookSet(q)' = LookSet(q) /\ SeenSet(q)' = SeenSet(q)  BY OtherSets
<1>2. pc'[q] = pc[q] /\ hist'[q] = hist[q]  BY DEF Others
<1>3. SeenSet(q) \subseteq LookSet(q) /\ HistFor(q)  BY SeenLook DEF HistInv
<1>4. pc[q] \in InCommit => curr_tn' = curr_tn  BY OneCommit
<1>5. curr_tn \in Nat /\ curr_tn' \in Nat /\ curr_tn <= curr_tn'  BY DEF Moves, Types, FileTypes
<1>6. \A b \in Block : hist[q][b].tn \in Nat
  <2> TAKE b \in Block
  <2>1. PICK h \in HistRec : h = hist[q][b]  BY DEF Types, HistTypes
  <2> QED  BY <2>1, HistFields
<1>7. pc[q] \notin InCommit => \A b \in Block : hist[q][b].tn <= curr_tn  BY <1>3 DEF HistFor, HistTn
<1>8. HistTn(q)'
  <2>1. CASE pc[q] \in InCommit  BY <1>1, <1>2, <1>3, <1>4, <2>1 DEF HistFor, HistTn
  <2>2. CASE pc[q] \notin InCommit
    <3>1. \A b \in Block : hist[q][b].tn <= curr_tn'
      <4> TAKE b \in Block
      <4>1. hist[q][b].tn \in Nat /\ hist[q][b].tn <= curr_tn  BY <1>6, <1>7, <2>2
      <4>2. curr_tn' = curr_tn \/ curr_tn < curr_tn'  BY <1>5
      <4> QED  BY <1>5, <4>1, <4>2
    <3> QED  BY <1>2, <2>2, <3>1 DEF HistTn
  <2> QED  BY <2>1, <2>2
<1>9. \A b \in Block : Ver(b)' = Ver(b) \/ hist[q][b].tn <= curr_tn
  BY <1>4, <1>7 DEF Moves
<1>10. NoBlock \notin Block  BY BlockNat
<1> HIDE DEF NoBlock
<1> QED  BY <1>1, <1>2, <1>3, <1>8, <1>9, <1>10, HistStep

(* The first l - 1 blocks of a path *)
PreOf(s, l) == {s[i] : i \in 1 .. l - 1}

LEMMA PreOfIs ==
  ASSUME NEW s \in Seq(Block), s # << >>
  PROVE  /\ PreOf(s, 1) = {} /\ PreOf(s, Len(s) + 1) = ToSet(s) /\ NonLeaf(s) = PreOf(s, Len(s))
         /\ \A l \in 1 .. Len(s) : PreOf(s, l + 1) = PreOf(s, l) \cup {s[l]}
<1>1. Len(s) \in Nat \ {0} /\ DOMAIN s = 1 .. Len(s)  OBVIOUS
<1>2. PreOf(s, 1) = {}  BY DEF PreOf
<1>3. (Len(s) + 1) - 1 = Len(s)  BY <1>1
<1>4. PreOf(s, Len(s) + 1) = ToSet(s)  BY <1>1, <1>3 DEF PreOf, ToSet
<1>5. NonLeaf(s) = PreOf(s, Len(s))  BY DEF PreOf, NonLeaf
<1>6. ASSUME NEW l \in 1 .. Len(s)  PROVE PreOf(s, l + 1) = PreOf(s, l) \cup {s[l]}
  <2>1. 1 .. (l + 1) - 1 = (1 .. l - 1) \cup {l}  BY <1>1
  <2> QED  BY <2>1 DEF PreOf
<1> QED  BY <1>2, <1>4, <1>5, <1>6

(* The same for a step out of a commit *)
LEMMA HistOut ==
  ASSUME Types, Types', Moves, NEW p \in Proc, HistFor(p), pc[p] \notin InCommit, pc'[p] \notin InCommit,
         curr_tn' = curr_tn, NEW e,
         \A b \in Block \ {e} :
           /\ hist'[p][b] = hist[p][b]
           /\ b \in LookSet(p)' => b \in LookSet(p)
           /\ b \in SeenSet(p)' => b \in SeenSet(p) /\ b \in LookSet(p)
           /\ pc'[p] \in {"wait", "intend"} /\ Blk(p)' = b => pc'[p] = pc[p] /\ Blk(p) = b,
         e \in Block => /\ hist'[p][e].tn <= curr_tn
                        /\ \A c \in Buffer : hist'[p][e].cr = c => Entry(p, e, c)'
  PROVE  HistFor(p)'
<1>1. \A b \in Block : hist[p][b].tn <= curr_tn  BY DEF HistFor, HistTn
<1>2. \A b \in Block : hist'[p][b].tn <= curr_tn  BY <1>1
<1>3. HistTn(p)'  BY <1>2 DEF HistTn
<1> QED  BY <1>1, <1>3, HistStep

(* A search that notes or waits for the block it is at, and has only those before it *)
LEMMA HistAt ==
  ASSUME Types, Types', JobInv, Moves, NEW p \in Proc, Others(p), HistFor(p), curr_tn' = curr_tn,
         pc[p] \in Reading \ {"clue", "look"}, pc'[p] \in Reading \ {"clue", "look"},
         lvl'[p] = lvl[p], todo'[p] = todo[p],
         \A b \in Block \ {Blk(p)} : hist'[p][b] = hist[p][b], hist'[p][Blk(p)].tn <= curr_tn,
         NEW e, e = Blk(p),
         \A c \in Buffer : hist'[p][e].cr = c /\ pc'[p] \in {"wait", "intend"} => Waits(p, e, c)'
  PROVE  HistFor(p)'
<1>1. pc[p] \notin {"idle", "gone"}  BY DEF Reading
<1>2. e \in Block /\ e \notin Prefix(p)  BY <1>1, JobFacts, SeenLook
<1>3. Path(p)' = Path(p) /\ Blk(p)' = Blk(p) /\ Prefix(p)' = Prefix(p)  BY DEF Path, Blk, Prefix
<1>4. LookSet(p) = Prefix(p) /\ SeenSet(p) = Prefix(p)  BY DEF LookSet, SeenSet, Reading, AtEnd, InCommit, Phase2
<1>5. LookSet(p)' = Prefix(p) /\ SeenSet(p)' = Prefix(p)  BY <1>3 DEF LookSet, SeenSet, Reading, AtEnd, InCommit, Phase2
<1>6. pc[p] \notin InCommit /\ pc'[p] \notin InCommit  BY DEF Reading, InCommit
<1>7. \A c \in Buffer : hist'[p][e].cr = c => Entry(p, e, c)'  BY <1>2, <1>3, <1>5 DEF Entry
<1> QED  BY <1>2, <1>3, <1>4, <1>5, <1>6, <1>7, HistOut

(* The buffer of the block is found to hold it *)
LEMMA HistFound ==
  ASSUME Types, Types', JobInv, Moves, NEW p \in Proc, Others(p), HistFor(p), curr_tn' = curr_tn,
         pc[p] \in Reading \ {"clue", "look"}, pc'[p] = "look", hist' = hist,
         lvl'[p] = lvl[p], todo'[p] = todo[p], NEW e, e = Blk(p),
         \A c \in Buffer : hist[p][e].cr = c => Found(p, e, c)'
  PROVE  HistFor(p)'
<1>1. pc[p] \notin {"idle", "gone"}  BY DEF Reading
<1>2. e \in Block /\ e \notin Prefix(p)  BY <1>1, JobFacts, SeenLook
<1>3. Path(p)' = Path(p) /\ Blk(p)' = Blk(p) /\ Prefix(p)' = Prefix(p)  BY DEF Path, Blk, Prefix
<1>4. LookSet(p) = Prefix(p) /\ SeenSet(p) = Prefix(p)  BY DEF LookSet, SeenSet, Reading, AtEnd, InCommit, Phase2
<1>5. LookSet(p)' = Prefix(p) \cup {e} /\ SeenSet(p)' = Prefix(p)  BY <1>3 DEF LookSet, SeenSet, Reading, AtEnd, InCommit, Phase2
<1>6. pc[p] \notin InCommit /\ pc'[p] \notin InCommit  BY DEF Reading, InCommit
<1>7. \A c \in Buffer : hist'[p][e].cr = c => Entry(p, e, c)'  BY <1>2, <1>5 DEF Entry
<1>8. hist[p][e].tn <= curr_tn  BY <1>2, <1>6 DEF HistFor, HistTn
<1> QED  BY <1>2, <1>3, <1>4, <1>5, <1>6, <1>7, <1>8, HistOut

LEMMA SetHistIs ==
  ASSUME Types, JobInv, NEW p \in Proc, pc[p] \notin {"idle", "gone"}, NEW h, SetHist(p, h)
  PROVE  /\ \A b \in Block \ {Blk(p)} : hist'[p][b] = hist[p][b]
         /\ hist'[p][Blk(p)] = h
<1>1. Blk(p) \in Block  BY JobFacts
<1> QED  BY <1>1 DEF SetHist, Types, HistTypes

LEMMA HistSearch ==
  ASSUME Types, Types', JobInv, PinInv, ReadInv, DataInv, Moves, NEW p \in Proc, Others(p), HistFor(p), Search(p)
  PROVE  HistFor(p)'
<1> USE DEF jnlvars, dskvars, tnvars, txnvars, cmtvars
<1>a. /\ pc \in [Proc -> PC] /\ lvl \in [Proc -> Nat] /\ hist \in [Proc -> [Block -> HistRec]] /\ clue \in [Proc -> Seq(Block)]
      /\ curr_tn \in Nat
  BY DEF Types, ProcTypes, HistTypes, FileTypes
<1>b. NoBlock \notin Block  BY BlockNat
<1>c. pc[p] \notin InCommit => \A b \in Block : hist[p][b].tn <= curr_tn  BY DEF HistFor, HistTn
<1>d. SeenSet(p) \subseteq LookSet(p)  BY SeenLook
<1>1. CASE Begin(p)
  <2>1. pc[p] = "idle" /\ hist' = hist /\ todo' = todo /\ curr_tn' = curr_tn  BY <1>1 DEF Begin
  <2>2. Path(p)' = Path(p)  BY <2>1 DEF Path
  <2>3. \/ pc'[p] = "clue" /\ clue[p] = Path(p)
        \/ pc'[p] = "note" /\ lvl'[p] = 1
    BY <1>a, <1>1 DEF Begin, Go
  <2>4. LookSet(p) = ToSet(clue[p]) /\ SeenSet(p) = NonLeaf(clue[p])  BY <2>1 DEF LookSet, SeenSet
  <2>5. CASE pc'[p] = "clue" /\ clue[p] = Path(p)
    <3>1. LookSet(p)' = LookSet(p) /\ SeenSet(p)' = SeenSet(p)  BY <2>2, <2>4, <2>5 DEF LookSet, SeenSet, NonLeaf
    <3> QED  BY <1>b, <1>d, <2>1, <2>5, <3>1, HistOut DEF InCommit
  <2>6. CASE pc'[p] = "note" /\ lvl'[p] = 1
    <3>0. Prefix(p)' = {}  BY <2>6 DEF Prefix
    <3>1. LookSet(p)' = {} /\ SeenSet(p)' = {}  BY <2>6, <3>0 DEF LookSet, SeenSet, Reading, AtEnd, InCommit, Phase2
    <3> QED  BY <1>b, <2>1, <2>6, <3>1, HistOut DEF InCommit
  <2> QED  BY <2>3, <2>5, <2>6
<1>2. CASE CheckClue(p)
  <2>1. pc[p] = "clue" /\ hist' = hist /\ todo' = todo /\ curr_tn' = curr_tn  BY <1>2 DEF CheckClue
  <2>2. Path(p)' = Path(p)  BY <2>1 DEF Path
  <2>3. \/ pc'[p] = "clue"
        \/ pc'[p] = "note" /\ lvl'[p] = 1
        \/ pc'[p] = "look" /\ lvl'[p] = Len(Path(p))
    BY <1>a, <1>2 DEF CheckClue, Go
  <2>4. LookSet(p) = ToSet(Path(p)) /\ SeenSet(p) = NonLeaf(Path(p))  BY <2>1 DEF LookSet, SeenSet
  <2>5. CASE pc'[p] = "clue"
    <3>1. LookSet(p)' = LookSet(p) /\ SeenSet(p)' = SeenSet(p)  BY <2>2, <2>4, <2>5 DEF LookSet, SeenSet, NonLeaf
    <3> QED  BY <1>b, <1>d, <2>1, <2>5, <3>1, HistOut DEF InCommit
  <2>6. CASE pc'[p] = "note" /\ lvl'[p] = 1
    <3>0. Prefix(p)' = {}  BY <2>6 DEF Prefix
    <3>1. LookSet(p)' = {} /\ SeenSet(p)' = {}  BY <2>6, <3>0 DEF LookSet, SeenSet, Reading, AtEnd, InCommit, Phase2
    <3> QED  BY <1>b, <2>1, <2>6, <3>1, HistOut DEF InCommit
  <2>7. CASE pc'[p] = "look" /\ lvl'[p] = Len(Path(p))
    <3>1. Path(p) \in Seq(Block) /\ Len(Path(p)) \in Nat \ {0} /\ DOMAIN Path(p) = 1 .. Len(Path(p))  BY <2>1, JobFacts
    <3>2. Prefix(p)' = NonLeaf(Path(p))  BY <2>2, <2>7 DEF Prefix, NonLeaf
    <3>3. Blk(p)' = Path(p)[Len(Path(p))]  BY <2>2, <2>7 DEF Blk
    <3>4. Blk(p)' \in ToSet(Path(p))  BY <3>1, <3>3 DEF ToSet
    <3>5. NonLeaf(Path(p)) \subseteq ToSet(Path(p))  BY <3>1, SeenLook
    <3>6. LookSet(p)' \subseteq LookSet(p) /\ SeenSet(p)' = SeenSet(p)
      BY <2>4, <2>7, <3>2, <3>4, <3>5 DEF LookSet, SeenSet, Reading, AtEnd, InCommit, Phase2
    <3> QED  BY <1>b, <1>d, <2>1, <2>7, <3>6, HistOut DEF InCommit
  <2> QED  BY <2>3, <2>5, <2>6, <2>7
<1>e. PICK e : e = Blk(p)  OBVIOUS
<1>f. pc[p] \notin {"idle", "gone"} => e \in Block /\ Hist(p) = hist[p][e] /\ hist[p][e] \in HistRec  BY <1>e, JobFacts DEF Hist
<1>3. CASE NoteTn(p)
  <2>1. pc[p] = "note" /\ pc'[p] = "find" /\ lvl' = lvl /\ todo' = todo /\ curr_tn' = curr_tn  BY <1>a, <1>3 DEF NoteTn, Go
  <2>2. PICK h \in HistRec : h = hist[p][e]  BY <1>f, <2>1
  <2>3. SetHist(p, [h EXCEPT !.tn = curr_tn])  BY <1>3, <1>f, <2>1, <2>2 DEF NoteTn
  <2>4. /\ \A b \in Block \ {Blk(p)} : hist'[p][b] = hist[p][b]
        /\ hist'[p][Blk(p)] = [h EXCEPT !.tn = curr_tn]
    BY <2>1, <2>3, SetHistIs
  <2>5. hist'[p][Blk(p)].tn <= curr_tn  BY <1>a, <2>2, <2>4 DEF HistRec
  <2> QED  BY <1>e, <2>1, <2>4, <2>5, HistAt DEF Reading
<1>4. CASE Find(p)
  <2>1. /\ pc[p] = "find" /\ pc'[p] \in {"miss", "cycle"} /\ lvl' = lvl /\ todo' = todo /\ curr_tn' = curr_tn
    BY <1>a, <1>4 DEF Find, Go
  <2>2. PICK h \in HistRec : h = hist[p][e]  BY <1>f, <2>1
  <2>3. hist' = hist \/ \E c : SetHist(p, [h EXCEPT !.cr = c])  BY <1>4, <1>f, <2>1, <2>2 DEF Find
  <2>4. h.tn <= curr_tn  BY <1>c, <1>f, <2>1, <2>2 DEF InCommit
  <2>5. CASE hist' = hist  BY <1>e, <2>1, <2>2, <2>4, <2>5, HistAt DEF Reading
  <2>6. ASSUME NEW c, SetHist(p, [h EXCEPT !.cr = c])  PROVE HistFor(p)'
    <3>1. /\ \A b \in Block \ {Blk(p)} : hist'[p][b] = hist[p][b]
          /\ hist'[p][Blk(p)] = [h EXCEPT !.cr = c]
      BY <2>1, <2>6, SetHistIs
    <3>2. hist'[p][Blk(p)].tn <= curr_tn  BY <2>4, <3>1 DEF HistRec
    <3> QED  BY <1>e, <2>1, <3>1, <3>2, HistAt DEF Reading
  <2> QED  BY <2>3, <2>5, <2>6
<1>5. CASE Miss(p)
  <2>1. /\ pc[p] = "miss" /\ pc'[p] = "getn" /\ lvl' = lvl /\ todo' = todo /\ curr_tn' = curr_tn /\ hist' = hist
    BY <1>a, <1>5 DEF Miss, Go
  <2>2. hist[p][e].tn <= curr_tn  BY <1>c, <1>f, <2>1 DEF InCommit
  <2> QED  BY <1>e, <2>1, <2>2, HistAt DEF Reading
<1>6. CASE GetBuffer(p)
  <2>1. /\ pc[p] = "getn" /\ pc'[p] \in {"cycle", "read"} /\ lvl' = lvl /\ todo' = todo /\ curr_tn' = curr_tn
    BY <1>a, <1>6 DEF GetBuffer, Go
  <2>2. PICK h \in HistRec : h = hist[p][e]  BY <1>f, <2>1
  <2>3. (\E c : SetHist(p, [h EXCEPT !.cr = c])) \/ \E c, n : SetHist(p, [h EXCEPT !.cr = c, !.cycle = n])
    BY <1>6, <1>f, <2>1, <2>2 DEF GetBuffer
  <2>4. h.tn <= curr_tn  BY <1>c, <1>f, <2>1, <2>2 DEF InCommit
  <2>5. ASSUME NEW c, SetHist(p, [h EXCEPT !.cr = c])  PROVE HistFor(p)'
    <3>1. /\ \A b \in Block \ {Blk(p)} : hist'[p][b] = hist[p][b]
          /\ hist'[p][Blk(p)] = [h EXCEPT !.cr = c]
      BY <2>1, <2>5, SetHistIs
    <3>2. hist'[p][Blk(p)].tn <= curr_tn  BY <2>4, <3>1 DEF HistRec
    <3> QED  BY <1>e, <2>1, <3>1, <3>2, HistAt DEF Reading
  <2>6. ASSUME NEW c, NEW n, SetHist(p, [h EXCEPT !.cr = c, !.cycle = n])  PROVE HistFor(p)'
    <3>1. /\ \A b \in Block \ {Blk(p)} : hist'[p][b] = hist[p][b]
          /\ hist'[p][Blk(p)] = [h EXCEPT !.cr = c, !.cycle = n]
      BY <2>1, <2>6, SetHistIs
    <3>2. hist'[p][Blk(p)].tn <= curr_tn  BY <2>4, <3>1 DEF HistRec
    <3> QED  BY <1>e, <2>1, <3>1, <3>2, HistAt DEF Reading
  <2> QED  BY <2>3, <2>5, <2>6
<1>7. CASE DskRead(p)
  <2>1. /\ pc[p] = "read" /\ pc'[p] = "look" /\ hist' = hist /\ lvl'[p] = lvl[p] /\ todo'[p] = todo[p] /\ curr_tn' = curr_tn
    BY <1>7, DskReadIs
  <2>2. PICK h \in HistRec : h = hist[p][e]  BY <1>f, <2>1
  <2>3. PICK c \in Buffer : c = h.cr  BY <2>2, HistFields
  <2>4. h.cycle = cr[c].cycle /\ cr[c].blk = e  BY <1>e, <1>f, <2>1, <2>2, <2>3 DEF ReadInv
  <2>5. cr'[c].rip = NoProc /\ cr'[c].blk = e /\ cr'[c].cycle = h.cycle /\ cr'[c].in_tend = cr[c].in_tend
    BY <1>7, <1>f, <2>1, <2>2, <2>3, <2>4, DskReadIs DEF SameLock
  <2>6. \A q \in Proc : cr[c].in_tend # q
    <3> TAKE q \in Proc
    <3> SUFFICES ASSUME cr[c].in_tend = q  PROVE FALSE  OBVIOUS
    <3>1. e \in Tending(q)  BY <2>4 DEF PinInv
    <3>2. e \in Pinned(q)  BY <3>1, TendingPinned
    <3>3. PICK d \in Buffer : d = hist[q][e].cr
      <4>1. hist[q][e] \in HistRec  BY <1>a, <1>f, <2>1
      <4> QED  BY <4>1, HistFields
    <3>4. cr[d].blk = e /\ cr[d].rip = NoProc  BY <3>2, <3>3 DEF PinInv
    <3>5. d = c  BY <1>b, <1>f, <2>1, <2>4, <3>4 DEF PinInv
    <3>6. cr[c].rip = p  BY <1>f, <2>1, <2>2, <2>3 DEF ReadInv
    <3> QED  BY <3>4, <3>5, <3>6, BlockNat
  <2>7. Settled(c)'  BY <2>5, <2>6 DEF Settled
  <2>8. h.cycle \in Nat /\ h.cycle <= h.cycle
    <3>1. h.cycle \in Nat  BY <2>2, HistFields
    <3> QED  BY <3>1
  <2>9. Found(p, e, c)'  BY <2>1, <2>2, <2>5, <2>7, <2>8 DEF Found
  <2> QED  BY <1>e, <2>1, <2>2, <2>3, <2>9, HistFound DEF Reading
<1>8. CASE NoteCycle(p)
  <2>1. /\ pc[p] = "cycle" /\ pc'[p] = "wait" /\ lvl' = lvl /\ todo' = todo /\ curr_tn' = curr_tn /\ cr' = cr
    BY <1>a, <1>8 DEF NoteCycle, Go
  <2>2. PICK h \in HistRec : h = hist[p][e]  BY <1>f, <2>1
  <2>3. PICK c \in Buffer : c = h.cr  BY <2>2, HistFields
  <2>4. SetHist(p, [h EXCEPT !.cycle = cr[c].cycle])  BY <1>8, <1>f, <2>1, <2>2, <2>3 DEF NoteCycle
  <2>5. h.tn <= curr_tn  BY <1>c, <1>f, <2>1, <2>2 DEF InCommit
  <2>6. /\ \A b \in Block \ {Blk(p)} : hist'[p][b] = hist[p][b]
        /\ hist'[p][Blk(p)] = [h EXCEPT !.cycle = cr[c].cycle]
    BY <2>1, <2>4, SetHistIs
  <2>7. hist'[p][Blk(p)].tn <= curr_tn  BY <2>5, <2>6 DEF HistRec
  <2>8. hist'[p][e].cycle = cr'[c].cycle /\ hist'[p][e].cr = c  BY <1>e, <2>1, <2>3, <2>6 DEF HistRec
  <2>9. Waits(p, e, c)'
    <3>1. cr'[c].cycle \in Nat  BY <2>1, CrFields
    <3> QED  BY <2>1, <2>8, <3>1 DEF Waits
  <2>10. \A d \in Buffer : hist'[p][e].cr = d /\ pc'[p] \in {"wait", "intend"} => Waits(p, e, d)'  BY <2>8, <2>9
  <2>11. pc[p] \in Reading \ {"clue", "look"} /\ pc'[p] \in Reading \ {"clue", "look"}  BY <2>1 DEF Reading
  <2> QED  BY <1>e, <2>1, <2>6, <2>7, <2>10, <2>11, HistAt
<1>9. CASE WaitRead(p)
  <2>1. /\ pc[p] = "wait" /\ lvl' = lvl /\ todo' = todo /\ curr_tn' = curr_tn /\ cr' = cr /\ hist' = hist
    BY <1>a, <1>9 DEF WaitRead
  <2>2. PICK h \in HistRec : h = hist[p][e]  BY <1>f, <2>1
  <2>3. PICK c \in Buffer : c = h.cr  BY <2>2, HistFields
  <2>4. /\ cr[c].blk = e => cr[c].rip = NoProc
        /\ pc'[p] = IF cr[c].blk # e THEN "find" ELSE IF cr[c].in_tend # NoProc THEN "intend" ELSE "look"
    BY <1>9, <1>a, <1>e, <1>f, <2>1, <2>2, <2>3 DEF WaitRead, Go
  <2>5. h.tn <= curr_tn  BY <1>c, <1>f, <2>1, <2>2 DEF InCommit
  <2>6. Waits(p, e, c)  BY <1>e, <1>f, <2>1, <2>2, <2>3 DEF HistFor
  <2>7. h.cycle <= cr[c].cycle  BY <2>2, <2>6 DEF Waits
  <2>8. CASE cr[c].blk # e
    <3>1. pc'[p] = "find"  BY <2>4, <2>8
    <3> QED  BY <1>e, <2>1, <2>2, <2>5, <3>1, HistAt DEF Reading
  <2>9. CASE cr[c].blk = e /\ cr[c].in_tend # NoProc
    <3>1. pc'[p] = "intend"  BY <2>4, <2>9
    <3>2. Waits(p, e, c)'  BY <2>1, <2>2, <2>4, <2>7, <2>9 DEF Waits
    <3> QED  BY <1>e, <2>1, <2>2, <2>3, <2>5, <3>1, <3>2, HistAt DEF Reading
  <2>10. CASE cr[c].blk = e /\ cr[c].in_tend = NoProc
    <3>1. pc'[p] = "look"  BY <2>4, <2>10
    <3>2. Settled(c)'  BY <2>1, <2>10, BlockNat DEF Settled
    <3>3. Found(p, e, c)'  BY <2>1, <2>2, <2>4, <2>7, <2>10, <3>2 DEF Found
    <3> QED  BY <1>e, <2>1, <2>2, <2>3, <3>1, <3>3, HistFound DEF Reading
  <2> QED  BY <2>8, <2>9, <2>10
<1>10. CASE WaitInTend(p)
  <2>1. /\ pc[p] = "intend" /\ pc'[p] = "look" /\ lvl' = lvl /\ todo' = todo /\ curr_tn' = curr_tn /\ cr' = cr /\ hist' = hist
    BY <1>a, <1>10 DEF WaitInTend, Go
  <2>2. PICK h \in HistRec : h = hist[p][e]  BY <1>f, <2>1
  <2>3. PICK c \in Buffer : c = h.cr  BY <2>2, HistFields
  <2>4. cr[c].in_tend = NoProc  BY <1>10, <1>f, <2>1, <2>2, <2>3 DEF WaitInTend
  <2>5. Waits(p, e, c)  BY <1>e, <1>f, <2>1, <2>2, <2>3 DEF HistFor
  <2>6. h.cycle <= cr[c].cycle /\ (h.cycle = cr[c].cycle => cr[c].blk = e /\ cr[c].rip = NoProc)  BY <2>1, <2>2, <2>5 DEF Waits
  <2>7. Settled(c)'  BY <2>1, <2>4, BlockNat DEF Settled
  <2>8. Found(p, e, c)'  BY <2>1, <2>2, <2>6, <2>7 DEF Found
  <2> QED  BY <1>e, <2>1, <2>2, <2>3, <2>8, HistFound DEF Reading
<1>11. CASE Look(p)
  <2>1. /\ pc[p] = "look" /\ todo' = todo /\ curr_tn' = curr_tn /\ cr' = cr /\ jnl' = jnl
    BY <1>a, <1>11 DEF Look
  <2>2. PICK h \in HistRec : h = hist[p][e]  BY <1>f, <2>1
  <2>3. PICK c \in Buffer : c = h.cr  BY <2>2, HistFields
  <2>4. PICK v : v = cr[c].data  OBVIOUS
  <2>5. SetHist(p, [h EXCEPT !.ver = v])  BY <1>11, <1>f, <2>1, <2>2, <2>3, <2>4 DEF Look
  <2>6. h.tn <= curr_tn  BY <1>c, <1>f, <2>1, <2>2 DEF InCommit
  <2>7. /\ \A b \in Block \ {Blk(p)} : hist'[p][b] = hist[p][b]
        /\ hist'[p][e] = [h EXCEPT !.ver = v]
    BY <1>e, <2>1, <2>5, SetHistIs
  <2>8. PICK k : k = hist'[p][e]  OBVIOUS
  <2>9. k.tn = h.tn /\ k.cr = h.cr /\ k.cycle = h.cycle /\ k.ver = v  BY <2>7, <2>8 DEF HistRec
  <2>10. Path(p)' = Path(p)  BY <2>1 DEF Path
  <2>11. LookSet(p) = Prefix(p) \cup {e} /\ SeenSet(p) = Prefix(p)  BY <1>e, <2>1 DEF LookSet, SeenSet, Reading, AtEnd, InCommit, Phase2
  <2>12. Found(p, e, c)  BY <1>f, <2>1, <2>2, <2>3, <2>11 DEF HistFor
  <2>13. Ver(e)' = Ver(e)  BY <2>1, <1>f, JnlSame, SameVer
  <2>14. Settled(c) => Settled(c)'
    <3>1. ASSUME NEW q \in Proc, pc[q] \in InCommit  PROVE pc'[q] \in InCommit  BY <2>1, <3>1 DEF Others, InCommit
    <3> QED  BY <2>1, <3>1 DEF Settled
  <2>15. Found(p, e, c)'  BY <2>1, <2>2, <2>8, <2>9, <2>12, <2>13, <2>14 DEF Found
  <2>16. Seen(p, e, c)'
    <3>1. SUFFICES ASSUME h.cycle = cr[c].cycle, Ver(e).tn < h.tn  PROVE v = Ver(e)
      BY <2>1, <2>8, <2>9, <2>13 DEF Seen
    <3>2. cr[c].blk = e /\ cr[c].rip = NoProc /\ Settled(c)  BY <2>2, <2>12, <3>1 DEF Found
    <3>3. DataFor(c, e)  BY <1>f, <2>1, <3>2 DEF DataInv
    <3> QED  BY <2>4, <3>2, <3>3 DEF DataFor
  <2>17. LookSet(p)' = Prefix(p) \cup {e} /\ SeenSet(p)' = Prefix(p) \cup {e} /\ pc'[p] \in {"note", "ro", "grab"}
    <3>0. PICK s, l : s = Path(p) /\ l = lvl[p]  OBVIOUS
    <3>1. s \in Seq(Block) /\ s # << >> /\ l \in 1 .. Len(s)  BY <2>1, <3>0, JobFacts
    <3>2. PreOf(s, l + 1) = Prefix(p) \cup {e}  BY <1>e, <3>0, <3>1, PreOfIs DEF Prefix, PreOf, Blk
    <3>3. CASE l < Len(s)
      <4>1. pc'[p] = "note" /\ lvl'[p] = l + 1  BY <1>11, <1>a, <3>0, <3>3 DEF Look, Go
      <4>2. Prefix(p)' = PreOf(s, l + 1)  BY <2>10, <3>0, <4>1 DEF Prefix, PreOf
      <4> QED  BY <3>2, <4>1, <4>2 DEF LookSet, SeenSet, Reading, AtEnd, InCommit, Phase2
    <3>4. CASE ~(l < Len(s))
      <4>1. pc'[p] \in {"ro", "grab"}  BY <1>11, <1>a, <3>0, <3>4 DEF Look, Go
      <4>2. l = Len(s)  BY <3>1, <3>4
      <4>3. ToSet(s) = PreOf(s, l + 1)  BY <3>1, <4>2, PreOfIs
      <4>4. ToSet(Path(p)') = PreOf(s, l + 1)  BY <2>10, <3>0, <4>3
      <4> QED  BY <3>2, <4>1, <4>4 DEF LookSet, SeenSet, Reading, AtEnd, InCommit, Phase2
    <3> QED  BY <3>3, <3>4
  <2>18. \A d \in Buffer : hist'[p][e].cr = d => Entry(p, e, d)'  BY <2>3, <2>8, <2>9, <2>15, <2>16, <2>17 DEF Entry
  <2>19. hist'[p][e].tn <= curr_tn  BY <2>6, <2>8, <2>9
  <2>20. pc[p] \notin InCommit /\ pc'[p] \notin InCommit /\ pc'[p] \notin {"wait", "intend"}  BY <2>1, <2>17 DEF InCommit
  <2> QED  BY <1>e, <2>1, <2>7, <2>11, <2>17, <2>18, <2>19, <2>20, HistOut
<1> QED  BY <1>1, <1>2, <1>3, <1>4, <1>5, <1>6, <1>7, <1>8, <1>9, <1>10, <1>11 DEF Search

LEMMA HistLess ==
  ASSUME Types, Types', JobInv, Moves, NEW p \in Proc, HistFor(p), hist' = hist, curr_tn' = curr_tn,
         pc[p] \notin InCommit, pc'[p] \notin InCommit \cup {"wait", "intend"},
         LookSet(p)' \subseteq LookSet(p), SeenSet(p)' \subseteq SeenSet(p)
  PROVE  HistFor(p)'
<1>1. SeenSet(p) \subseteq LookSet(p)  BY SeenLook
<1>2. NoBlock \notin Block  BY BlockNat
<1> HIDE DEF NoBlock
<1> QED  BY <1>1, <1>2, HistOut

LEMMA HistTEnd ==
  ASSUME Types, Types', JobInv, CritInv, PinInv, BtInv, HistInv, Moves, NEW p \in Proc, Others(p), TEnd(p)
  PROVE  HistFor(p)'
<1> USE DEF jnlvars, dskvars, tnvars, txnvars, cmtvars
<1>a. /\ pc \in [Proc -> PC] /\ lvl \in [Proc -> Nat] /\ hist \in [Proc -> [Block -> HistRec]] /\ clue \in [Proc -> Seq(Block)]
      /\ curr_tn \in Nat
  BY DEF Types, ProcTypes, HistTypes, FileTypes
<1>b. HistFor(p)  BY DEF HistInv
<1>c. ASSUME pc[p] \in AtEnd, pc'[p] \in AtEnd, todo' = todo, hist' = hist, curr_tn' = curr_tn  PROVE HistFor(p)'
  <2>1. Path(p)' = Path(p)  BY <1>c DEF Path
  <2>2. LookSet(p)' = LookSet(p) /\ SeenSet(p)' = SeenSet(p)  BY <1>c, <2>1 DEF LookSet, SeenSet, AtEnd
  <2>3. pc[p] \notin InCommit /\ pc'[p] \notin InCommit \cup {"wait", "intend"}  BY <1>c DEF AtEnd, InCommit
  <2> QED  BY <1>b, <1>c, <2>2, <2>3, HistLess
<1>d. ASSUME pc[p] \in AtEnd \cup {"retry"}, pc'[p] = "retry" \/ (pc'[p] = "note" /\ lvl'[p] = 1), hist' = hist, curr_tn' = curr_tn
      PROVE  HistFor(p)'
  <2>1. pc'[p] = "note" => Prefix(p)' = {}  BY <1>d DEF Prefix
  <2>2. LookSet(p)' = {} /\ SeenSet(p)' = {}  BY <1>d, <2>1 DEF LookSet, SeenSet, AtEnd, Reading, InCommit, Phase2
  <2>3. pc[p] \notin InCommit /\ pc'[p] \notin InCommit \cup {"wait", "intend"}  BY <1>d DEF AtEnd, InCommit
  <2> QED  BY <1>b, <1>d, <2>2, <2>3, HistLess
<1>1. CASE ReadOnlyEnd(p)
  <2>1. pc[p] = "ro" /\ pc'[p] \in {"rocyc", "romod"} /\ todo' = todo /\ hist' = hist /\ curr_tn' = curr_tn
    BY <1>a, <1>1 DEF ReadOnlyEnd, Go
  <2> QED  BY <1>c, <2>1 DEF AtEnd
<1>2. CASE CheckTn(p)
  <2>1. pc[p] = "romod" /\ pc'[p] \in {"rocyc", "retry"} /\ todo' = todo /\ hist' = hist /\ curr_tn' = curr_tn
    BY <1>a, <1>2 DEF CheckTn, Fail, Go
  <2> QED  BY <1>c, <1>d, <2>1 DEF AtEnd
<1>3. CASE CheckCycle(p)
  <2>1. pc[p] = "rocyc" /\ pc'[p] \in {"rocyc", "romod", "rodone", "retry"} /\ todo' = todo /\ hist' = hist /\ curr_tn' = curr_tn
    BY <1>a, <1>3 DEF CheckCycle, Fail, Go
  <2> QED  BY <1>c, <1>d, <2>1 DEF AtEnd
<1>4. CASE ReadOnlyDone(p)
  <2>1. pc[p] = "rodone" /\ pc'[p] = "idle" /\ clue' = clue /\ hist' = hist /\ curr_tn' = curr_tn
    BY <1>a, <1>4 DEF ReadOnlyDone, Go
  <2>2. clue[p] = Path(p)  BY <2>1 DEF JobInv, JobFor, AtEnd
  <2>3. LookSet(p) = ToSet(Path(p)) /\ SeenSet(p) = ToSet(Path(p))  BY <2>1 DEF LookSet, SeenSet, AtEnd
  <2>4. LookSet(p)' = ToSet(Path(p)) /\ SeenSet(p)' = NonLeaf(Path(p))  BY <2>1, <2>2 DEF LookSet, SeenSet, NonLeaf
  <2>5. NonLeaf(Path(p)) \subseteq ToSet(Path(p))  BY <1>a, <2>2, SeenLook
  <2>6. pc[p] \notin InCommit /\ pc'[p] \notin InCommit \cup {"wait", "intend"}  BY <2>1 DEF InCommit
  <2> QED  BY <1>b, <2>1, <2>3, <2>4, <2>5, <2>6, HistLess
<1>5. CASE Retry(p)
  <2>1. pc[p] = "retry" /\ pc'[p] = "note" /\ lvl'[p] = 1 /\ hist' = hist /\ curr_tn' = curr_tn
    BY <1>a, <1>5 DEF Retry, Go
  <2> QED  BY <1>d, <2>1
<1>6. CASE GrabCrit(p)
  <2>1. pc[p] = "grab" /\ pc'[p] = "valid" /\ todo' = todo /\ hist' = hist /\ curr_tn' = curr_tn
    BY <1>a, <1>6 DEF GrabCrit, Go
  <2> QED  BY <1>c, <2>1 DEF AtEnd
<1>7. CASE Validate(p) /\ ~Valid(p)
  <2>1. pc[p] = "valid" /\ pc'[p] = "retry" /\ hist' = hist /\ curr_tn' = curr_tn
    BY <1>a, <1>7 DEF Validate, Valid, Fail, Go
  <2> QED  BY <1>d, <2>1 DEF AtEnd
<1>8. CASE Valid(p)
  <2>1. /\ pc[p] = "valid" /\ pc'[p] = "commit" /\ Path(p)' = Path(p) /\ curr_tn' = curr_tn /\ jnl' = jnl /\ Buffer' = Buffer
        /\ ToSet(Path(p)) \subseteq Block
    BY <1>8, ValidIs
  <2>2. \A b \in Block : hist[p][b].tn <= curr_tn  BY <1>b, <2>1 DEF HistFor, HistTn, InCommit
  <2>3. HistTn(p)'
    <3>1. \A b \in Block : hist'[p][b].tn = (IF b \in ToSet(Path(p)) THEN curr_tn + 1 ELSE hist[p][b].tn)  BY <1>8, ValidIs
    <3>2. ASSUME NEW b \in Block  PROVE hist'[p][b].tn <= curr_tn + 1
      <4>1. PICK h \in HistRec : h = hist[p][b]  BY <1>a
      <4>2. h.tn \in Nat /\ h.tn <= curr_tn  BY <2>2, <4>1, HistFields
      <4>3. h.tn <= curr_tn + 1 /\ curr_tn + 1 <= curr_tn + 1  BY <1>a, <4>2
      <4>4. CASE b \in ToSet(Path(p))  BY <3>1, <4>3, <4>4
      <4>5. CASE b \notin ToSet(Path(p))  BY <3>1, <4>1, <4>3, <4>5
      <4> QED  BY <4>4, <4>5
    <3> QED  BY <2>1, <3>1, <3>2 DEF HistTn, InCommit
  <2>4. LookSet(p)' = ToSet(Path(p)) /\ SeenSet(p)' = ToSet(Path(p))  BY <2>1 DEF LookSet, SeenSet, InCommit
  <2>5. ASSUME NEW b \in ToSet(Path(p)), NEW c \in Buffer, hist'[p][b].cr = c  PROVE Found(p, b, c)' /\ Seen(p, b, c)'
    <3>1. b \in Block /\ hist[p][b].cr = c  BY <1>8, <2>1, <2>5, ValidIs
    <3>2. /\ cr[c].blk = b /\ cr[c].cycle = hist[p][b].cycle /\ cr[c].rip = NoProc /\ hist[p][b].ver = Ver(b) /\ cr[c].in_tend = NoProc
      BY <1>8, <3>1, StillValidIs
    <3>3. cr'[c].blk = b /\ cr'[c].rip = NoProc /\ cr'[c].in_tend = NoProc /\ cr'[c].cycle = cr[c].cycle
      BY <1>8, <3>2, ValidIs DEF SameId
    <3>4. hist'[p][b].cycle = cr[c].cycle /\ hist'[p][b].ver = Ver(b)  BY <1>8, <3>1, <3>2, ValidIs
    <3>5. cr[c].cycle \in Nat /\ cr[c].cycle <= cr[c].cycle  BY CycleNat
    <3>6. Settled(c)'  BY <3>3, BlockNat DEF Settled
    <3>7. Ver(b)' = Ver(b)  BY <2>1, <3>1, JnlSame, SameVer
    <3> QED  BY <3>3, <3>4, <3>5, <3>6, <3>7 DEF Found, Seen
  <2> QED  BY <2>1, <2>3, <2>4, <2>5 DEF HistFor
<1> QED  BY <1>1, <1>2, <1>3, <1>4, <1>5, <1>6, <1>7, <1>8 DEF TEnd

LEMMA HistCommit ==
  ASSUME Types, Types', JobInv, CritInv, TnInv, PinInv, HistInv, Moves, NEW p \in Proc, Others(p), Commit(p)
  PROVE  HistFor(p)'
<1> USE DEF jnlvars, dskvars, tnvars, txnvars, cmtvars
<1>a. /\ pc \in [Proc -> PC] /\ lvl \in [Proc -> Nat] /\ hist \in [Proc -> [Block -> HistRec]] /\ clue \in [Proc -> Seq(Block)]
      /\ curr_tn \in Nat
  BY DEF Types, ProcTypes, HistTypes, FileTypes
<1>b. HistFor(p)  BY DEF HistInv
<1>0. NoBlock \notin Block /\ SeenSet(p) \subseteq LookSet(p)  BY BlockNat, SeenLook
<1>c. ASSUME pc[p] \in InCommit, pc'[p] \in InCommit, todo' = todo, hist' = hist, curr_tn' = curr_tn  PROVE HistFor(p)'
  <2>1. Path(p)' = Path(p)  BY <1>c DEF Path
  <2>2. LookSet(p)' = LookSet(p) /\ SeenSet(p)' = SeenSet(p)  BY <1>c, <2>1 DEF LookSet, SeenSet, InCommit
  <2>3. pc'[p] \notin {"wait", "intend"}  BY <1>c DEF InCommit
  <2>4. HistTn(p)'  BY <1>b, <1>c, <2>1 DEF HistFor, HistTn
  <2>5. \A b \in Block : Ver(b)' = Ver(b)  BY <1>c DEF Moves
  <2> HIDE DEF NoBlock
  <2> QED  BY <1>0, <1>b, <1>c, <2>2, <2>3, <2>4, <2>5, HistStep
<1>d. ASSUME pc[p] \in Phase2, pc'[p] \in Phase2, todo' = todo, hist' = hist, curr_tn' = curr_tn  PROVE HistFor(p)'
  <2>1. Path(p)' = Path(p) /\ Upd(p)' = Upd(p)  BY <1>d DEF Path, Upd
  <2>2. LookSet(p)' = LookSet(p) /\ SeenSet(p)' = SeenSet(p)  BY <1>d, <2>1 DEF LookSet, SeenSet, Phase2, AtEnd, InCommit
  <2>3. pc[p] \notin InCommit /\ pc'[p] \notin InCommit \cup {"wait", "intend"}  BY <1>d DEF Phase2, InCommit
  <2> QED  BY <1>b, <1>d, <2>2, <2>3, HistLess
<1>1. CASE CheckEpoch(p)
  <2>1. pc[p] = "commit" /\ pc'[p] = "flu1" /\ todo' = todo /\ hist' = hist /\ curr_tn' = curr_tn  BY <1>a, <1>1 DEF CheckEpoch, Go
  <2> QED  BY <1>c, <2>1 DEF InCommit
<1>2. CASE FlushJnl(p)
  <2>1. pc[p] = "flu1" /\ pc'[p] = "flu2" /\ todo' = todo /\ hist' = hist /\ curr_tn' = curr_tn  BY <1>a, <1>2 DEF FlushJnl, Go
  <2> QED  BY <1>c, <2>1 DEF InCommit
<1>3. CASE WriteEpoch(p)
  <2>1. pc[p] = "flu2" /\ pc'[p] = "cmt04" /\ todo' = todo /\ hist' = hist /\ curr_tn' = curr_tn  BY <1>a, <1>3 DEF WriteEpoch, Go
  <2> QED  BY <1>c, <2>1 DEF InCommit
<1>4. CASE Reserve(p)
  <2>1. pc[p] \in {"commit", "cmt04"} /\ pc'[p] = "cmt10" /\ todo' = todo /\ hist' = hist /\ curr_tn' = curr_tn
    BY <1>a, <1>4 DEF Reserve, Go
  <2> QED  BY <1>c, <2>1 DEF InCommit
<1>5. CASE Phase1(p)
  <2>1. pc[p] = "cmt10" /\ pc'[p] \in Early /\ todo' = todo /\ hist' = hist /\ curr_tn' = curr_tn
    BY <1>5, Phase1Is DEF CommitFrame
  <2> QED  BY <1>c, <2>1 DEF InCommit, Early
<1>6. CASE Phase1Wait(p)
  <2>1. pc[p] = "cmt10w" /\ pc'[p] \in Early /\ todo' = todo /\ hist' = hist /\ curr_tn' = curr_tn
    BY <1>6, Phase1WaitIs DEF CommitFrame
  <2> QED  BY <1>c, <2>1 DEF InCommit, Early
<1>7. CASE IncrementTn(p)
  <2>1. pc[p] = "cmt12" /\ pc'[p] = "cmt16" /\ todo' = todo /\ hist' = hist /\ curr_tn' = curr_tn + 1
    BY <1>a, <1>7 DEF IncrementTn, Go
  <2>2. Path(p)' = Path(p) /\ Upd(p)' = Upd(p)  BY <2>1 DEF Path, Upd
  <2>3. LookSet(p) = ToSet(Path(p)) /\ SeenSet(p) = ToSet(Path(p))  BY <2>1 DEF LookSet, SeenSet, InCommit
  <2>4. LookSet(p)' = ToSet(Path(p)) \ Upd(p) /\ SeenSet(p)' = ToSet(Path(p)) \ Upd(p)
    BY <2>1, <2>2 DEF LookSet, SeenSet, Phase2, InCommit, AtEnd
  <2>5. \A b \in Block : hist[p][b].tn <= curr_tn + 1  BY <1>b, <2>1 DEF HistFor, HistTn, InCommit
  <2>6. HistTn(p)'  BY <2>1, <2>5 DEF HistTn, InCommit
  <2>7. \A b \in Block : b \notin Upd(p) => Ver(b)' = Ver(b)  BY <1>7, CommitVersions
  <2>8. ASSUME NEW b \in Block, NEW c \in Buffer, hist'[p][b].cr = c, b \in LookSet(p)'  PROVE Found(p, b, c)' /\ Seen(p, b, c)'
    <3>1. hist[p][b].cr = c /\ hist'[p][b] = hist[p][b] /\ b \in LookSet(p) /\ b \in SeenSet(p) /\ Ver(b)' = Ver(b)
      BY <2>1, <2>3, <2>4, <2>7, <2>8
    <3>2. Found(p, b, c) /\ Seen(p, b, c)  BY <1>b, <3>1 DEF HistFor
    <3> QED  BY <3>1, <3>2, HistEntry
  <2>9. Buffer' = Buffer  BY DEF Moves
  <2> QED  BY <2>1, <2>4, <2>6, <2>8, <2>9 DEF HistFor
<1>8. CASE WriteJnl(p)
  <2>1. pc[p] = "cmt16" /\ pc'[p] = "cmt18a" /\ todo' = todo /\ hist' = hist /\ curr_tn' = curr_tn  BY <1>a, <1>8 DEF WriteJnl, Go
  <2> QED  BY <1>d, <2>1 DEF Phase2
<1>9. CASE BuildStart(p)
  <2>1. pc[p] = "cmt18a" /\ pc'[p] = "cmt18b" /\ todo' = todo /\ hist' = hist /\ curr_tn' = curr_tn  BY <1>a, <1>9 DEF BuildStart, Go
  <2> QED  BY <1>d, <2>1 DEF Phase2
<1>10. CASE BuildEnd(p)
  <2>1. pc[p] = "cmt18b" /\ pc'[p] = "cmt18c" /\ todo' = todo /\ hist' = hist /\ curr_tn' = curr_tn  BY <1>a, <1>10 DEF BuildEnd, Go
  <2> QED  BY <1>d, <2>1 DEF Phase2
<1>11. CASE Release(p)
  <2>1. pc[p] = "cmt18c" /\ pc'[p] = "cmt18d" /\ todo' = todo /\ hist' = hist /\ curr_tn' = curr_tn  BY <1>a, <1>11 DEF Release, Go
  <2> QED  BY <1>d, <2>1 DEF Phase2
<1>12. CASE ResetInTend(p)
  <2>0. PICK e, c : e = Cse(p) /\ c = CseCr(p)  OBVIOUS
  <2>1. /\ pc[p] = "cmt18d" /\ hist' = hist /\ curr_tn' = curr_tn /\ rem'[p] = rem[p] \ {e} /\ Turn(p, e, c)
        /\ pc'[p] = IF rem[p] \ {e} = {} THEN "idle" ELSE "cmt18a"
        /\ cr'[c].in_tend = NoProc /\ SameId(c)
    BY <1>12, <2>0, ResetIs DEF CommitFrame
  <2>2. CASE rem[p] \ {e} # {}
    <3>1. todo' = todo  BY <1>12, <2>0, <2>1, <2>2 DEF ResetInTend
    <3> QED  BY <1>d, <2>1, <2>2, <3>1 DEF Phase2
  <2>3. CASE rem[p] \ {e} = {}
    <3>1. pc'[p] = "idle" /\ clue'[p] = IF Upd(p) = {Last(Path(p))} THEN clue[p] ELSE << >>
      BY <1>12, <1>a, <2>0, <2>1, <2>3 DEF ResetInTend
    <3>2. clue[p] = Path(p)  BY <2>1 DEF JobInv, JobFor, Phase2
    <3>3. pc[p] \notin InCommit /\ pc'[p] \notin InCommit \cup {"wait", "intend"}  BY <2>1, <3>1 DEF InCommit
    <3>4. LookSet(p) = ToSet(Path(p)) \ Upd(p) /\ SeenSet(p) = ToSet(Path(p)) \ Upd(p)
      BY <2>1 DEF LookSet, SeenSet, Phase2, InCommit, AtEnd
    <3>5. LookSet(p)' = ToSet(clue'[p]) /\ SeenSet(p)' = NonLeaf(clue'[p])  BY <3>1 DEF LookSet, SeenSet, NonLeaf
    <3>6. CASE Upd(p) # {Last(Path(p))}
      <4>1. clue'[p] = << >>  BY <3>1, <3>6
      <4>2. ToSet(<< >>) = {} /\ NonLeaf(<< >>) = {}  BY DEF ToSet, NonLeaf
      <4> QED  BY <1>b, <2>1, <3>3, <3>5, <4>1, <4>2, HistLess
    <3>7. CASE Upd(p) = {Last(Path(p))}
      <4>0. PICK s : s = Path(p)  OBVIOUS
      <4>1. /\ s \in Seq(Block) /\ s # << >> /\ Len(s) \in Nat \ {0} /\ DOMAIN s = 1 .. Len(s)
            /\ \A i, j \in 1 .. Len(s) : s[i] = s[j] => i = j
        BY <2>1, <4>0, JobFacts
      <4>2. e = s[Len(s)] /\ Upd(p) = {e} /\ e \in Block /\ e \in rem[p]
        BY <2>1, <3>7, <4>0 DEF Turn, Last
      <4>3. ToSet(s) = PreOf(s, Len(s)) \cup {e} /\ NonLeaf(s) = PreOf(s, Len(s))
        <5>1. Len(s) \in 1 .. Len(s)  BY <4>1
        <5> QED  BY <4>1, <4>2, <5>1, PreOfIs
      <4>4. e \notin PreOf(s, Len(s))
        <5>0. PICK n \in Nat \ {0} : n = Len(s)  BY <4>1
        <5>1. n \in 1 .. n /\ \A i \in 1 .. n - 1 : i \in 1 .. n /\ i # n  BY <5>0
        <5>2. \A i \in 1 .. n - 1 : s[i] # s[n]  BY <4>1, <5>0, <5>1
        <5> QED  BY <4>2, <5>0, <5>2 DEF PreOf
      <4>5. LookSet(p)' = ToSet(s) /\ SeenSet(p)' = NonLeaf(s)  BY <3>1, <3>2, <3>5, <3>7, <4>0
      <4>6. Found(p, e, c)'
        <5>1. PICK h \in HistRec : h = hist[p][e]  BY <1>a, <4>2
        <5>2. h.cr = c /\ c \in Buffer  BY <2>1, <5>1 DEF Turn
        <5>3. e \in Pinned(p)  BY <2>1, <4>2 DEF Pinned, Phase2
        <5>4. cr[c].blk = e /\ cr[c].cycle = h.cycle /\ cr[c].rip = NoProc  BY <5>1, <5>2, <5>3 DEF PinInv, Kept
        <5>5. cr'[c].blk = e /\ cr'[c].cycle = h.cycle /\ cr'[c].rip = NoProc  BY <2>1, <5>4 DEF SameId
        <5>6. h.cycle <= h.cycle
          <6>1. h.cycle \in Nat  BY <5>1, HistFields
          <6> QED  BY <6>1
        <5>7. Settled(c)'  BY <2>1, BlockNat DEF Settled
        <5> QED  BY <2>1, <5>1, <5>5, <5>6, <5>7 DEF Found
      <4>7. hist[p][e].tn <= curr_tn  BY <1>b, <3>3, <4>2 DEF HistFor, HistTn
      <4>8. \A d \in Buffer : hist'[p][e].cr = d => Entry(p, e, d)'
        <5>1. hist'[p][e].cr = c  BY <2>1 DEF Turn
        <5>2. e \notin SeenSet(p)'  BY <4>3, <4>4, <4>5
        <5> QED  BY <3>3, <4>6, <5>1, <5>2 DEF Entry
      <4>9. \A b \in Block \ {e} : /\ b \in LookSet(p)' => b \in LookSet(p)
                                   /\ b \in SeenSet(p)' => b \in SeenSet(p) /\ b \in LookSet(p)
        BY <3>4, <4>0, <4>2, <4>3, <4>5
      <4> QED  BY <1>b, <2>1, <3>3, <4>2, <4>7, <4>8, <4>9, HistOut
    <3> QED  BY <3>6, <3>7
  <2> QED  BY <2>2, <2>3
<1>13. CASE Halt(p)
  <2>1. pc'[p] = "gone" /\ hist'[p] = [b \in Block |-> NoHist] /\ curr_tn' = curr_tn  BY <1>13, <1>a DEF Halt, Go
  <2>2. LookSet(p)' = {} /\ SeenSet(p)' = {}  BY <2>1 DEF LookSet, SeenSet, AtEnd, InCommit, Phase2, Reading
  <2>3. \A b \in Block : hist'[p][b].tn <= curr_tn  BY <1>a, <2>1 DEF NoHist
  <2>4. HistTn(p)'  BY <2>1, <2>3 DEF HistTn, InCommit
  <2> QED  BY <2>1, <2>2, <2>4 DEF HistFor
<1> QED  BY <1>1, <1>2, <1>3, <1>4, <1>5, <1>6, <1>7, <1>8, <1>9, <1>10, <1>11, <1>12, <1>13 DEF Commit

-----------------------------------------------------------------------------
(* The invariant of buffers, history and journal, and its steps *)

Core == /\ Types /\ JobInv /\ CritInv /\ TnInv /\ OpenInv /\ PinInv /\ ReadInv /\ WtrInv /\ DataInv
        /\ BtInv /\ HistInv

LEMMA CoreSearch ==
  ASSUME Core, NEW p \in Proc, Search(p)
  PROVE  Core' /\ Moves /\ Others(p)
<1>1. /\ Types /\ JobInv /\ CritInv /\ TnInv /\ OpenInv /\ PinInv /\ ReadInv /\ WtrInv /\ DataInv
      /\ BtInv /\ HistInv
  BY DEF Core
<1>2. Types' /\ Others(p) /\ JobInv' /\ CritInv' /\ Steady(p)
  BY <1>1, TypesSearch, OthersSearch, JobSearch, CritSearch, SteadySearch
<1>3. TnInv' /\ OpenInv'  BY <1>1, <1>2, TnSteady, OpenSteady
<1>4. PinInv' /\ ReadInv' /\ WtrInv' /\ DataInv' /\ BtInv' /\ Moves
  <2>1. CASE Quiet(p)  BY <1>1, <2>1, PinQuiet, ReadQuiet, WtrQuiet, DataQuiet, BtQuiet, MovesQuiet
  <2>2. CASE NewBuffer(p)
    BY <1>1, <1>2, <2>2, PinNewBuffer, ReadNewBuffer, WtrNewBuffer, DataNewBuffer, BtRest, MovesSearch
  <2>3. CASE DskRead(p)
    BY <1>1, <1>2, <2>3, PinDskRead, ReadDskRead, WtrDskRead, DataDskRead, BtRest, MovesSearch
  <2> QED  BY <1>1, <2>1, <2>2, <2>3, QuietSearch
<1>5. curr_tn' = curr_tn  BY <1>2 DEF Steady
<1>6. HistInv'
  <2>1. HistFor(p)'
    <3>1. HistFor(p)  BY <1>1 DEF HistInv
    <3> QED  BY <1>1, <1>2, <1>4, <3>1, HistSearch
  <2>2. \A q \in Proc \ {p} : HistFor(q)'  BY <1>1, <1>2, <1>4, <1>5, HistOther
  <2> QED  BY <2>1, <2>2 DEF HistInv
<1> QED  BY <1>2, <1>3, <1>4, <1>6 DEF Core

LEMMA CoreTEnd ==
  ASSUME Core, NEW p \in Proc, TEnd(p)
  PROVE  Core' /\ Moves /\ Others(p)
<1>1. /\ Types /\ JobInv /\ CritInv /\ TnInv /\ OpenInv /\ PinInv /\ ReadInv /\ WtrInv /\ DataInv
      /\ BtInv /\ HistInv
  BY DEF Core
<1>2. Types' /\ Others(p) /\ JobInv' /\ CritInv' /\ Steady(p)
  BY <1>1, TypesTEnd, OthersTEnd, JobTEnd, CritTEnd, SteadyTEnd
<1>3. TnInv' /\ OpenInv'  BY <1>1, <1>2, TnSteady, OpenSteady
<1>4. PinInv' /\ ReadInv' /\ WtrInv' /\ DataInv' /\ BtInv' /\ Moves
  <2>1. CASE Quiet(p)  BY <1>1, <2>1, PinQuiet, ReadQuiet, WtrQuiet, DataQuiet, BtQuiet, MovesQuiet
  <2>2. CASE Valid(p)
    BY <1>1, <1>2, <2>2, PinValid, ReadRest, WtrValid, DataValid, BtRest, MovesCommit
  <2> QED  BY <1>1, <2>1, <2>2, QuietTEnd
<1>5. curr_tn' = curr_tn  BY <1>2 DEF Steady
<1>6. HistInv'
  <2>1. HistFor(p)'  BY <1>1, <1>2, <1>4, HistTEnd
  <2>2. \A q \in Proc \ {p} : HistFor(q)'  BY <1>1, <1>2, <1>4, <1>5, HistOther
  <2> QED  BY <2>1, <2>2 DEF HistInv
<1> QED  BY <1>2, <1>3, <1>4, <1>6 DEF Core

LEMMA CoreCommit ==
  ASSUME Core, NEW p \in Proc, Commit(p)
  PROVE  Core' /\ Moves /\ Others(p)
<1>1. /\ Types /\ JobInv /\ CritInv /\ TnInv /\ OpenInv /\ PinInv /\ ReadInv /\ WtrInv /\ DataInv
      /\ BtInv /\ HistInv
  BY DEF Core
<1>2. Types' /\ Others(p) /\ JobInv' /\ CritInv'
  BY <1>1, TypesCommit, OthersCommit, JobCommit, CritCommit
<1>3. TnInv' /\ OpenInv'
  <2>1. CASE Steady(p)  BY <1>1, <1>2, <2>1, TnSteady, OpenSteady
  <2>2. CASE LogStep(p)
    <3>1. OpenInv'  BY <1>1, <1>2, <2>2, OpenLog
    <3>2. TnInv'  BY <1>1, <1>2, <2>2, TnLog, TnReserve, TnIncrement DEF LogStep
    <3> QED  BY <3>1, <3>2
  <2> QED  BY <1>1, <2>1, <2>2, SteadyCommit
<1>4. PinInv' /\ ReadInv' /\ WtrInv' /\ DataInv' /\ BtInv' /\ Moves
  <2>1. CASE Quiet(p)  BY <1>1, <2>1, PinQuiet, ReadQuiet, WtrQuiet, DataQuiet, BtQuiet, MovesQuiet
  <2>2. CASE BufStep(p)
    <3>1. ReadInv' /\ Moves  BY <1>1, <1>2, <2>2, ReadRest, MovesCommit
    <3>2. CASE Phase1(p)  BY <1>1, <1>2, <3>1, <3>2, PinPhase1, WtrPhase1, DataPhase1, BtPhase1
    <3>3. CASE Phase1Wait(p)  BY <1>1, <1>2, <3>1, <3>3, PinRest, WtrPhase1, DataPhase1, BtRest
    <3>4. CASE IncrementTn(p)  BY <1>1, <1>2, <3>1, <3>4, PinRest, WtrValid, DataIncrement, BtIncrement
    <3>5. CASE BuildStart(p) \/ BuildEnd(p)  BY <1>1, <1>2, <3>1, <3>5, PinRest, WtrPhase2, DataBuild, BtRest
    <3>6. CASE Release(p)  BY <1>1, <1>2, <3>1, <3>6, PinRest, WtrPhase2, DataRelease, BtRest
    <3>7. CASE ResetInTend(p)  BY <1>1, <1>2, <3>1, <3>7, PinReset, WtrPhase2, DataReset, BtRest
    <3> QED  BY <2>2, <3>2, <3>3, <3>4, <3>5, <3>6, <3>7 DEF BufStep
  <2> QED  BY <1>1, <1>2, <2>1, <2>2, QuietCommit
<1>5. curr_tn' # curr_tn => pc[p] \in InCommit
  <2>1. CASE IncrementTn(p)  BY <2>1 DEF IncrementTn, InCommit
  <2>2. CASE Steady(p) \/ WriteEpoch(p) \/ Reserve(p) \/ WriteJnl(p)
    BY <2>2 DEF Steady, WriteEpoch, Reserve, WriteJnl, tnvars
  <2> QED  BY <1>1, <2>1, <2>2, SteadyCommit DEF LogStep
<1>6. HistInv'
  <2>1. HistFor(p)'  BY <1>1, <1>2, <1>4, HistCommit
  <2>2. \A q \in Proc \ {p} : HistFor(q)'  BY <1>1, <1>2, <1>4, <1>5, HistOther
  <2> QED  BY <2>1, <2>2 DEF HistInv
<1> QED  BY <1>2, <1>3, <1>4, <1>6 DEF Core

LEMMA CoreWriter ==
  ASSUME Core, NEW w \in Writer, WtStep(w)
  PROVE  Core' /\ Moves /\ Others(NoProc) /\ curr_tn' = curr_tn
<1>1. /\ Types /\ JobInv /\ CritInv /\ TnInv /\ OpenInv /\ PinInv /\ ReadInv /\ WtrInv /\ DataInv
      /\ BtInv /\ HistInv
  BY DEF Core
<1>2. Types' /\ Others(NoProc) /\ Steady(NoProc)  BY <1>1, TypesWriter, OthersWriter, SteadyRest
<1>3. JobInv' /\ CritInv'  BY <1>1, <1>2, JobRest, CritRest
<1>4. TnInv' /\ OpenInv'  BY <1>1, <1>2, TnSteady, OpenSteady
<1>5. PinInv' /\ ReadInv' /\ WtrInv' /\ DataInv' /\ BtInv' /\ Moves
  BY <1>1, PinWriter, ReadWriter, WtrWriter, DataWriter, BtWriter, MovesWriter
<1>6. curr_tn' = curr_tn  BY <1>2 DEF Steady
<1>7. HistInv'
  <2>1. \A q \in Proc \ {NoProc} : HistFor(q)'
    <3> HIDE DEF NoProc
    <3> QED  BY <1>1, <1>2, <1>5, <1>6, HistOther
  <2> QED  BY <2>1, BlockNat DEF HistInv
<1> QED  BY <1>2, <1>3, <1>4, <1>5, <1>6, <1>7 DEF Core

LEMMA CoreRest ==
  ASSUME Core, JnlQio \/ UNCHANGED vars
  PROVE  Core' /\ Moves /\ Others(NoProc) /\ curr_tn' = curr_tn
<1>1. /\ Types /\ JobInv /\ CritInv /\ TnInv /\ OpenInv /\ PinInv /\ ReadInv /\ WtrInv /\ DataInv
      /\ BtInv /\ HistInv
  BY DEF Core
<1>2. Types'
  <2>1. CASE JnlQio  BY <1>1, <2>1, TypesQio
  <2>2. CASE UNCHANGED vars
    <3>1. BufTypes' /\ HistTypes' /\ WtrTypes' /\ JnlTypes'  BY <1>1, <2>2, Frames DEF vars
    <3>2. ProcTypes' /\ FileTypes'  BY <1>1, <2>2 DEF vars, Types, ProcTypes, FileTypes
    <3> QED  BY <3>1, <3>2 DEF Types
  <2> QED  BY <2>1, <2>2
<1>3. Others(NoProc) /\ Steady(NoProc) /\ Quiet(NoProc) /\ CritInv'
  <2>1. CASE JnlQio  BY <1>1, <2>1, OthersWriter, SteadyRest, QuietQio, CritRest
  <2>2. CASE UNCHANGED vars
    <3>1. Others(NoProc)  BY <2>2 DEF vars, Others
    <3>2. Steady(NoProc)  BY <2>2, <3>1, BlockNat DEF vars, Steady
    <3>3. SameVersions  BY <2>2, JnlSame DEF vars
    <3>4. Quiet(NoProc)  BY <2>2, <3>1, <3>3, BlockNat DEF vars, Quiet
    <3>5. CritInv'  BY <1>1, <2>2, <3>1, CritStep, BlockNat DEF vars
    <3> QED  BY <3>1, <3>2, <3>4, <3>5
  <2> QED  BY <2>1, <2>2
<1>4. JobInv' /\ TnInv' /\ OpenInv'  BY <1>1, <1>2, <1>3, JobRest, TnSteady, OpenSteady
<1>5. PinInv' /\ ReadInv' /\ WtrInv' /\ DataInv' /\ BtInv' /\ Moves
  BY <1>1, <1>3, PinQuiet, ReadQuiet, WtrQuiet, DataQuiet, BtQuiet, MovesQuiet
<1>6. curr_tn' = curr_tn  BY <1>3 DEF Steady
<1>7. HistInv'
  <2>1. \A q \in Proc \ {NoProc} : HistFor(q)'
    <3> HIDE DEF NoProc
    <3> QED  BY <1>1, <1>2, <1>3, <1>5, <1>6, HistOther
  <2> QED  BY <2>1, BlockNat DEF HistInv
<1> QED  BY <1>2, <1>3, <1>4, <1>5, <1>6, <1>7 DEF Core

LEMMA CoreNext ==
  ASSUME Core, [Next]_vars
  PROVE  Core'
BY CoreSearch, CoreTEnd, CoreCommit, CoreWriter, CoreRest DEF Next, ProcStep

LEMMA InitTypes ==
  ASSUME Init
  PROVE  /\ Types /\ jnl = << >> /\ curr_tn = 1 /\ early_tn = 1
         /\ \A c \in Buffer : cr[c] = EmptyRec
         /\ \A i \in 1 .. Len(bt) : bt[i] = [blk |-> NoBlock, tn |-> 0]
         /\ \A p \in Proc : \A i \in 1 .. Len(todo[p]) : JobOK(todo[p][i])
<1>0. PICK w \in Workloads : /\ todo = w.todo /\ epochs = w.epochs
                             /\ cr = [c \in 1 .. w.n_bts |-> EmptyRec]
                             /\ bt = [i \in 1 .. w.n_bts |-> [blk |-> NoBlock, tn |-> 0]]
  BY DEF Init
<1>1. PICK n \in Nat \ {0} : n = w.n_bts  BY DatabaseAssumption
<1>2. Buffer = 1 .. n /\ cr \in [1 .. n -> {EmptyRec}]  BY <1>0, <1>1 DEF Buffer
<1>3. EmptyRec \in CacheRec  BY DEF EmptyRec, CacheRec, Nothing, Contents
<1>4. bt \in Seq([blk : Block \cup {NoBlock}, tn : Nat]) /\ Len(bt) = n /\ bt # << >>
  <2>1. bt \in [1 .. n -> [blk : Block \cup {NoBlock}, tn : Nat]]  BY <1>0, <1>1
  <2>2. bt \in Seq([blk : Block \cup {NoBlock}, tn : Nat])
    <3>1. PICK R : R = [blk : Block \cup {NoBlock}, tn : Nat]  OBVIOUS
    <3>2. bt = [i \in 1 .. n |-> [blk |-> NoBlock, tn |-> 0]] /\ [blk |-> NoBlock, tn |-> 0] \in R  BY <1>0, <1>1, <3>1
    <3>3. [i \in 1 .. n |-> [blk |-> NoBlock, tn |-> 0]] \in Seq(R)  BY <1>1, <3>2, IsASeq
    <3> QED  BY <3>1, <3>2, <3>3
  <2>3. DOMAIN bt = 1 .. n  BY <2>1
  <2>4. Len(bt) = n  BY <2>2, <2>3, LenProperties
  <2> QED  BY <2>2, <2>4
<1>5. BufTypes
  <2>1. cr \in [Buffer -> CacheRec]  BY <1>2, <1>3
  <2> QED  BY <1>2, <1>4, <2>1 DEF BufTypes
<1>6. 1 \in Buffer  BY <1>1, <1>2
<1>7. HistTypes
  <2>1. NoHist \in HistRec  BY <1>6 DEF NoHist, HistRec, Nothing, Contents
  <2> QED  BY <2>1 DEF Init, HistTypes
<1>8. WtrTypes  BY <1>6 DEF Init, WtrTypes
<1>9. todo \in [Proc -> Seq(Job)] /\ epochs \in Nat /\ \A p \in Proc : \A i \in 1 .. Len(todo[p]) : JobOK(todo[p][i])
  <2>1. todo \in [Proc -> Seq(Job)] /\ epochs \in Nat  BY <1>0, DatabaseAssumption
  <2>2. ASSUME NEW p \in Proc, NEW i \in 1 .. Len(todo[p])  PROVE JobOK(todo[p][i])
    <3>1. todo[p][i] \in Job  BY <2>1
    <3>2. IsPath(todo[p][i].path) /\ todo[p][i].upd \subseteq ToSet(todo[p][i].path)  BY <1>0, DatabaseAssumption
    <3> QED  BY <3>1, <3>2 DEF JobOK
  <2> QED  BY <2>1, <2>2
<1>10. ProcTypes
  <2>1. "idle" \in PC /\ 0 \in 0 .. CDB_STAGNATE /\ << >> \in Seq(Block)  BY DatabaseAssumption DEF PC
  <2> QED  BY <1>9, <2>1 DEF Init, ProcTypes
<1>11. FileTypes
  <2>1. disk \in [Block -> Contents] /\ stable \in [Block -> SUBSET Contents]  BY DEF Init, Contents
  <2>2. /\ crit = NoProc /\ curr_tn = 1 /\ early_tn = 1 /\ dskaddr = 0 /\ fsync_dskaddr = 0
        /\ epoch_tn = 1
    BY DEF Init
  <2>3. need_db_fsync \in BOOLEAN  BY Zenon DEF Init
  <2>4. 1 \in Nat \ {0} /\ 0 \in Nat /\ 1 \in Nat  OBVIOUS
  <2> QED  BY <1>9, <2>1, <2>2, <2>3, <2>4, Zenon DEF FileTypes
<1>12. JnlTypes  BY DEF Init, JnlTypes
<1>13. Types  BY <1>5, <1>7, <1>8, <1>10, <1>11, <1>12 DEF Types
<1> QED  BY <1>0, <1>1, <1>2, <1>4, <1>9, <1>13 DEF Init

LEMMA InitCore ==
  ASSUME Init
  PROVE  Core
<1>1. /\ Types /\ jnl = << >> /\ curr_tn = 1 /\ early_tn = 1
      /\ \A c \in Buffer : cr[c] = EmptyRec
      /\ \A i \in 1 .. Len(bt) : bt[i] = [blk |-> NoBlock, tn |-> 0]
      /\ \A p \in Proc : \A i \in 1 .. Len(todo[p]) : JobOK(todo[p][i])
  BY InitTypes
<1>2. \A p \in Proc : pc[p] = "idle" /\ clue[p] = << >> /\ \A b \in Block : hist[p][b] = NoHist  BY DEF Init
<1>3. JobInv  BY <1>1, <1>2 DEF JobInv, JobFor, AtEnd, InCommit, Phase2, Early
<1>4. CritInv  BY <1>2 DEF CritInv, CritFor, InCommit, Reading, AtEnd
<1>5. TnInv /\ OpenInv  BY <1>1, <1>2 DEF TnInv, OpenInv, Early, Phase2
<1>6. \A p \in Proc : Tending(p) = {} /\ Pinned(p) = {} /\ Locked(p) = {} /\ Unbuilt(p) = {}
  BY <1>2, NoSets DEF InCommit, Phase2
<1>7. \A c \in Buffer : /\ cr[c].blk = NoBlock /\ cr[c].in_tend = NoProc /\ cr[c].in_cw_set = NoProc /\ cr[c].rip = NoProc
                        /\ cr[c].dirty = 0 /\ ~cr[c].queued
  BY <1>1 DEF EmptyRec
<1>8. PinInv  BY <1>6, <1>7, BlockNat DEF PinInv
<1>9. ReadInv  BY <1>2, <1>7, BlockNat DEF ReadInv
<1>10. \A w \in Writer : wtr[w].pc = "idle"  BY DEF Init
<1>11. WtrInv  BY <1>6, <1>7, <1>10 DEF WtrInv, OneWriter, WtrFor, Busy
<1>12. \A b \in Block : Ver(b) = [blk |-> b, tn |-> 0]
  <2> TAKE b \in Block
  <2>1. Ver(b).tn \in Nat /\ Ver(b).tn < 1 /\ Ver(b) = [blk |-> b, tn |-> Ver(b).tn]  BY <1>1, VerNat
  <2>2. Ver(b).tn = 0  BY <2>1
  <2> QED  BY <2>1, <2>2
<1>13. DataInv
  <2>1. \A b \in Block : disk[b] = Ver(b)  BY <1>12 DEF Init
  <2>2. \A c \in Buffer, b \in Block : cr[c].blk # b  BY <1>7, BlockNat
  <2> QED  BY <1>2, <2>1, <2>2 DEF DataInv
<1>14. BtInv
  <2>1. \A i \in 1 .. Len(bt) : bt[i].blk = NoBlock /\ bt[i].tn = 0  BY <1>1
  <2>2. \A b \in Block : BtOf(b) = {}  BY <2>1, BlockNat DEF BtOf
  <2>3. Head(bt).tn = 0  BY <1>1, <2>1, BtFields
  <2>4. \A b \in Block : Covers(b, Ver(b).tn)  BY <1>12, <2>2, <2>3 DEF Covers
  <2> QED  BY <1>1, <1>2, <2>1, <2>4 DEF BtInv, InCommit
<1>15. HistInv
  <2>1. ToSet(<< >>) = {} /\ NonLeaf(<< >>) = {}  BY DEF ToSet, NonLeaf
  <2>2. \A p \in Proc : LookSet(p) = {} /\ SeenSet(p) = {}  BY <1>2, <2>1 DEF LookSet, SeenSet
  <2>3. \A p \in Proc : HistTn(p)  BY <1>1, <1>2 DEF HistTn, InCommit, NoHist
  <2> QED  BY <1>2, <2>2, <2>3 DEF HistInv, HistFor
<1> QED  BY <1>1, <1>3, <1>4, <1>5, <1>8, <1>9, <1>11, <1>13, <1>14, <1>15 DEF Core

-----------------------------------------------------------------------------
(* CacheCoherent *)

LEMMA CoherentIs ==
  ASSUME Core
  PROVE  CacheCoherent
<1>1. Types /\ PinInv /\ DataInv  BY DEF Core
<1>2. ASSUME NEW b \in Block  PROVE Cardinality(CrOf(b)) <= 1
  <2>1. CASE CrOf(b) = {}
    <3>1. Cardinality(CrOf(b)) = 0  BY <2>1, FS_EmptySet
    <3> QED  BY <3>1
  <2>2. CASE CrOf(b) # {}
    <3>1. PICK c : c \in CrOf(b)  BY <2>2
    <3>2. b # NoBlock  BY BlockNat
    <3>3. \A d \in CrOf(b) : d = c  BY <1>1, <3>1, <3>2 DEF CrOf, PinInv
    <3>4. CrOf(b) = {c}  BY <3>1, <3>3
    <3>5. Cardinality(CrOf(b)) = 1  BY <3>4, FS_Singleton
    <3> QED  BY <3>5
  <2> QED  BY <2>1, <2>2
<1>3. \A b \in Block : CrOf(b) = {} => disk[b] = VersionAt(b, curr_tn)  BY <1>1 DEF DataInv, Ver
<1>4. ASSUME NEW c \in Buffer, cr[c].blk # NoBlock, cr[c].rip = NoProc
      PROVE  /\ cr[c].in_tend = NoProc => cr[c].data = VersionAt(cr[c].blk, curr_tn)
             /\ cr[c].dirty = 0 => cr[c].data = disk[cr[c].blk]
  <2>1. PICK b \in Block : b = cr[c].blk  BY <1>1, <1>4, CrFields
  <2>2. DataFor(c, b)  BY <1>1, <1>4, <2>1 DEF DataInv
  <2>3. cr[c].in_tend = NoProc => Settled(c)  BY BlockNat DEF Settled
  <2> QED  BY <2>1, <2>2, <2>3 DEF DataFor, Ver
<1> QED  BY <1>2, <1>3, <1>4 DEF CacheCoherent

-----------------------------------------------------------------------------
(* CommitInv: what a commit has read stays current until its transaction number is taken *)

LEMMA CommitStep ==
  ASSUME Core, CommitInv, Moves, NEW p, Others(p), curr_tn' # curr_tn => p \in Proc /\ pc[p] \in InCommit,
         p \in Proc => CommitFor(p)'
  PROVE  CommitInv'
<1>1. ASSUME NEW q \in Proc, q # p, pc'[q] \in InCommit, NEW b \in ToSet(Path(q)')  PROVE hist'[q][b].ver = Ver(b)'
  <2>1. pc[q] \in InCommit /\ Path(q)' = Path(q) /\ hist'[q] = hist[q]  BY <1>1 DEF Others, Path
  <2>2. curr_tn' = curr_tn  BY <1>1, <2>1, OneCommit DEF Core
  <2>3. b \in ToSet(Path(q)) /\ b \in Block  BY <1>1, <2>1, JobFacts DEF Core, InCommit
  <2>4. Ver(b)' = Ver(b)  BY <2>2, <2>3 DEF Moves
  <2> QED  BY <2>1, <2>3, <2>4 DEF CommitInv, CommitFor
<1> QED  BY <1>1 DEF CommitInv, CommitFor

LEMMA CommitOut ==
  ASSUME NEW p, pc'[p] \notin InCommit
  PROVE  CommitFor(p)'
BY DEF CommitFor

LEMMA CommitStay ==
  ASSUME Core, CommitInv, Moves, NEW p \in Proc, hist' = hist, todo' = todo, curr_tn' = curr_tn, pc[p] \in InCommit
  PROVE  CommitFor(p)'
<1>1. Path(p)' = Path(p)  BY DEF Path
<1>2. ToSet(Path(p)) \subseteq Block  BY JobFacts DEF Core, InCommit
<1>3. \A b \in Block : Ver(b)' = Ver(b)  BY DEF Moves
<1> QED  BY <1>1, <1>2, <1>3 DEF CommitInv, CommitFor

LEMMA CommitSearch ==
  ASSUME Core, CommitInv, NEW p \in Proc, Search(p)
  PROVE  CommitInv'
<1>1. Moves /\ Others(p)  BY CoreSearch
<1>2. pc \in [Proc -> PC]  BY DEF Core, Types, ProcTypes
<1>3. pc'[p] \in Reading \cup {"ro", "grab"}
  BY <1>2 DEF Search, Begin, CheckClue, NoteTn, Find, Miss, GetBuffer, DskRead, NoteCycle, WaitRead, WaitInTend, Look, Go, Reading
<1>4. curr_tn' = curr_tn  BY SteadySearch DEF Steady, Core
<1>5. CommitFor(p)'  BY <1>3, CommitOut DEF Reading, InCommit
<1> QED  BY <1>1, <1>4, <1>5, CommitStep

LEMMA CommitTEnd ==
  ASSUME Core, CommitInv, NEW p \in Proc, TEnd(p)
  PROVE  CommitInv'
<1>1. Moves /\ Others(p)  BY CoreTEnd
<1>2. pc \in [Proc -> PC]  BY DEF Core, Types, ProcTypes
<1>3. Valid(p) \/ pc'[p] \in AtEnd \cup {"idle", "note", "retry"}
  BY <1>2 DEF TEnd, ReadOnlyEnd, CheckTn, CheckCycle, ReadOnlyDone, Retry, GrabCrit, Validate, Valid, Fail, Go, AtEnd
<1>4. curr_tn' = curr_tn  BY SteadyTEnd DEF Steady, Core
<1>5. CommitFor(p)'
  <2>1. CASE Valid(p)
    <3>1. /\ Path(p)' = Path(p) /\ ToSet(Path(p)) \subseteq Block
          /\ \A b \in Block : hist'[p][b].ver = hist[p][b].ver
      BY <2>1, ValidIs DEF Core
    <3>2. ASSUME NEW b \in ToSet(Path(p))  PROVE hist'[p][b].ver = Ver(b)'
      <4>1. hist[p][b].ver = Ver(b)
        <5>1. PICK c : c = hist[p][b].cr  OBVIOUS
        <5> QED  BY <2>1, <5>1, StillValidIs DEF Core
      <4>2. Ver(b)' = Ver(b)  BY <1>1, <1>4, <3>1 DEF Moves
      <4> QED  BY <3>1, <4>1, <4>2
    <3> QED  BY <3>1, <3>2 DEF CommitFor
  <2>2. CASE pc'[p] \in AtEnd \cup {"idle", "note", "retry"}
    BY <2>2, CommitOut DEF AtEnd, InCommit
  <2> QED  BY <1>3, <2>1, <2>2
<1> QED  BY <1>1, <1>4, <1>5, CommitStep

LEMMA CommitCommit ==
  ASSUME Core, CommitInv, NEW p \in Proc, Commit(p)
  PROVE  CommitInv'
<1> USE DEF jnlvars, dskvars, tnvars, txnvars, cmtvars
<1>1. Moves /\ Others(p)  BY CoreCommit
<1>2. pc \in [Proc -> PC]  BY DEF Core, Types, ProcTypes
<1>3. \/ pc[p] \in InCommit /\ hist' = hist /\ todo' = todo /\ (curr_tn' = curr_tn \/ IncrementTn(p))
      \/ pc'[p] \in Phase2 \cup {"idle", "gone"} /\ curr_tn' = curr_tn
  <2>1. CASE CheckEpoch(p)  BY <2>1 DEF CheckEpoch, InCommit
  <2>2. CASE FlushJnl(p)  BY <2>2 DEF FlushJnl, InCommit
  <2>3. CASE WriteEpoch(p)  BY <2>3 DEF WriteEpoch, InCommit
  <2>4. CASE Reserve(p)  BY <2>4 DEF Reserve, InCommit
  <2>5. CASE Phase1(p)  BY <2>5 DEF Phase1, InCommit
  <2>6. CASE Phase1Wait(p)  BY <2>6 DEF Phase1Wait, InCommit
  <2>7. CASE IncrementTn(p)  BY <2>7 DEF IncrementTn, InCommit
  <2>8. CASE WriteJnl(p)  BY <1>2, <2>8 DEF WriteJnl, Go, Phase2
  <2>9. CASE BuildStart(p)  BY <1>2, <2>9 DEF BuildStart, Go, Phase2
  <2>10. CASE BuildEnd(p)  BY <1>2, <2>10 DEF BuildEnd, Go, Phase2
  <2>11. CASE Release(p)  BY <1>2, <2>11 DEF Release, Go, Phase2
  <2>12. CASE ResetInTend(p)  BY <1>2, <2>12 DEF ResetInTend, NextCse, Go, Phase2
  <2>13. CASE Halt(p)  BY <1>2, <2>13 DEF Halt, Go, Phase2
  <2> QED  BY <2>1, <2>2, <2>3, <2>4, <2>5, <2>6, <2>7, <2>8, <2>9, <2>10, <2>11, <2>12, <2>13 DEF Commit
<1>4. IncrementTn(p) => pc'[p] = "cmt16"  BY <1>2 DEF IncrementTn, Go
<1>5. CommitFor(p)'
  <2>1. CASE IncrementTn(p)  BY <1>4, <2>1, CommitOut DEF InCommit
  <2>2. CASE pc[p] \in InCommit /\ hist' = hist /\ todo' = todo /\ curr_tn' = curr_tn  BY <1>1, <2>2, CommitStay
  <2>3. CASE pc'[p] \in Phase2 \cup {"idle", "gone"}  BY <2>3, CommitOut DEF InCommit, Phase2
  <2> QED  BY <1>3, <2>1, <2>2, <2>3
<1>6. curr_tn' # curr_tn => pc[p] \in InCommit  BY <1>3
<1> QED  BY <1>1, <1>5, <1>6, CommitStep

LEMMA CommitRest ==
  ASSUME Core, CommitInv, (\E w \in Writer : WtStep(w)) \/ JnlQio \/ UNCHANGED vars
  PROVE  CommitInv'
<1>1. Moves /\ Others(NoProc) /\ curr_tn' = curr_tn  BY CoreWriter, CoreRest
<1>2. NoProc \notin Proc  BY BlockNat
<1> HIDE DEF NoProc
<1> QED  BY <1>1, <1>2, CommitStep

-----------------------------------------------------------------------------
(* StartInv: no entry of the history is older than the start of the transaction *)

StartSet(p) == {b \in Block : b \in LookSet(p) \/ (pc[p] \in Getting /\ Blk(p) = b)}

LEMMA StartStep ==
  ASSUME Core, Types', StartInv, Moves, NEW p, Others(p), p \in Proc => StartFor(p)'
  PROVE  StartInv'
<1>1. ASSUME NEW q \in Proc, q # p  PROVE StartFor(q)'
  <2>1. /\ pc'[q] = pc[q] /\ began'[q] = began[q] /\ start_tn'[q] = start_tn[q] /\ hist'[q] = hist[q]
        /\ Blk(q)' = Blk(q) /\ LookSet(q)' = LookSet(q)
    BY <1>1, OtherSets DEF Others
  <2>2. PICK m \in Nat, n \in Nat : m = began[q] /\ n = start_tn[q]  BY DEF Core, Types, ProcTypes
  <2>3. PICK s \in Nat, t \in Nat : s = curr_tn /\ t = curr_tn' /\ s <= t  BY DEF Core, Types, FileTypes, Moves
  <2>4. (m <= s => m <= t) /\ (n <= s => n <= t)  BY <2>3
  <2> QED  BY <2>1, <2>2, <2>3, <2>4 DEF StartInv, StartFor
<1> QED  BY <1>1 DEF StartInv

LEMMA StartKeep ==
  ASSUME Core, NEW p \in Proc, StartFor(p), pc[p] \in Reading \cup AtEnd, curr_tn' = curr_tn,
         began'[p] = began[p], start_tn'[p] = start_tn[p],
         \A b \in Block : b \in StartSet(p)' => \/ hist'[p][b].tn = curr_tn
                                                \/ b \in StartSet(p) /\ hist'[p][b].tn = hist[p][b].tn
  PROVE  StartFor(p)'
<1>1. began[p] <= curr_tn /\ start_tn[p] <= curr_tn /\ \A b \in StartSet(p) : start_tn[p] <= hist[p][b].tn
  BY DEF StartFor, StartSet
<1>2. ASSUME NEW b \in Block, b \in StartSet(p)'  PROVE start_tn[p] <= hist'[p][b].tn  BY <1>1, <1>2
<1> QED  BY <1>1, <1>2 DEF StartFor, StartSet

(* What a search leaves of the history *)
LEMMA SearchTn ==
  ASSUME Core, NEW p \in Proc, Search(p), pc[p] # "idle"
  PROVE  /\ pc[p] \in Reading /\ pc'[p] \in Reading \cup {"ro", "grab"} /\ curr_tn' = curr_tn /\ todo' = todo
         /\ tries' = tries /\ start_tn' = start_tn /\ began' = began
         /\ \A b \in Block : b # Blk(p) => hist'[p][b] = hist[p][b]
         /\ hist'[p][Blk(p)].tn = IF pc[p] = "note" THEN curr_tn ELSE hist[p][Blk(p)].tn
         /\ pc'[p] \in Getting => pc[p] \in Getting \cup {"note"} /\ Blk(p)' = Blk(p) /\ LookSet(p)' = LookSet(p) /\ LookSet(p) = Prefix(p)
         /\ pc'[p] \in {"clue", "note", "look", "ro", "grab"} /\ pc[p] \notin Getting => LookSet(p)' \subseteq LookSet(p)
         /\ pc[p] \in Getting /\ pc'[p] \notin Getting => pc'[p] = "look" /\ hist' = hist /\ LookSet(p)' = LookSet(p) \cup {Blk(p)} /\ LookSet(p) = Prefix(p)
<1> USE DEF jnlvars, dskvars, tnvars, txnvars, cmtvars
<1>a. /\ pc \in [Proc -> PC] /\ lvl \in [Proc -> Nat] /\ hist \in [Proc -> [Block -> HistRec]] /\ Types /\ JobInv
  BY DEF Core, Types, ProcTypes, HistTypes
<1>0. PICK e : e = Blk(p)  OBVIOUS
<1>1. pc[p] \in Reading  BY DEF Search, Begin, CheckClue, NoteTn, Find, Miss, GetBuffer, DskRead, NoteCycle, WaitRead, WaitInTend, Look, Reading
<1>2. PICK h \in HistRec : h = hist[p][e] /\ e \in Block /\ Hist(p) = h  BY <1>0, <1>1, <1>a, JobFacts DEF Reading, Hist
<1>b. \A h1, h2 : h1 \in HistRec /\ SetHist(p, h2) => (\A b \in Block : b # e => hist'[p][b] = hist[p][b]) /\ hist'[p][e] = h2
  BY <1>0, <1>1, <1>a, SetHistIs DEF Reading
<1>3. CASE CheckClue(p)
  <2>1. /\ pc[p] = "clue" /\ curr_tn' = curr_tn /\ todo' = todo /\ hist' = hist
        /\ tries' = tries /\ start_tn' = start_tn /\ began' = began
    BY <1>3 DEF CheckClue
  <2>2. Path(p)' = Path(p)  BY <2>1 DEF Path
  <2>3. \/ pc'[p] = "clue"
        \/ pc'[p] = "note" /\ lvl'[p] = 1
        \/ pc'[p] = "look" /\ lvl'[p] = Len(Path(p))
    BY <1>a, <1>3 DEF CheckClue, Go
  <2>4. LookSet(p) = ToSet(Path(p))  BY <2>1 DEF LookSet
  <2>5. LookSet(p)' \subseteq LookSet(p)
    <3>1. CASE pc'[p] = "clue"  BY <2>2, <2>4, <3>1 DEF LookSet
    <3>2. CASE pc'[p] = "note" /\ lvl'[p] = 1
      <4>0. Prefix(p)' = {}  BY <3>2 DEF Prefix
      <4> QED  BY <3>2, <4>0 DEF LookSet, Reading, AtEnd, InCommit, Phase2
    <3>3. CASE pc'[p] = "look" /\ lvl'[p] = Len(Path(p))
      <4>1. Path(p) \in Seq(Block) /\ Len(Path(p)) \in Nat \ {0} /\ DOMAIN Path(p) = 1 .. Len(Path(p))  BY <1>a, <2>1, JobFacts
      <4>2. Prefix(p)' = NonLeaf(Path(p))  BY <2>2, <3>3 DEF Prefix, NonLeaf
      <4>3. Blk(p)' = Path(p)[Len(Path(p))]  BY <2>2, <3>3 DEF Blk
      <4>4. Blk(p)' \in ToSet(Path(p))  BY <4>1, <4>3 DEF ToSet
      <4>5. NonLeaf(Path(p)) \subseteq ToSet(Path(p))  BY <1>a, <4>1, SeenLook
      <4> QED  BY <2>4, <3>3, <4>2, <4>4, <4>5 DEF LookSet, Reading, AtEnd, InCommit, Phase2
    <3> QED  BY <2>3, <3>1, <3>2, <3>3
  <2> QED  BY <1>1, <2>1, <2>3, <2>5 DEF Getting, Reading
<1>4. CASE Look(p)
  <2>1. /\ pc[p] = "look" /\ pc'[p] \in {"note", "ro", "grab"} /\ curr_tn' = curr_tn /\ todo' = todo
        /\ tries' = tries /\ start_tn' = start_tn /\ began' = began
    BY <1>4, <1>a DEF Look, Go
  <2>2. PICK v : SetHist(p, [h EXCEPT !.ver = v])  BY <1>4, <1>2 DEF Look
  <2>3. (\A b \in Block : b # e => hist'[p][b] = hist[p][b]) /\ hist'[p][e] = [h EXCEPT !.ver = v]  BY <1>b, <1>2, <2>2
  <2>4. hist'[p][e].tn = h.tn  BY <2>3 DEF HistRec
  <2>5. Path(p)' = Path(p)  BY <2>1 DEF Path
  <2>6. LookSet(p) = Prefix(p) \cup {e}  BY <1>0, <2>1 DEF LookSet, Reading, AtEnd, InCommit, Phase2
  <2>7. LookSet(p)' \subseteq LookSet(p)
    <3>0. PICK s, l : s = Path(p) /\ l = lvl[p]  OBVIOUS
    <3>1. s \in Seq(Block) /\ s # << >> /\ l \in 1 .. Len(s)  BY <1>a, <2>1, <3>0, JobFacts
    <3>2. PreOf(s, l + 1) = Prefix(p) \cup {e}  BY <1>0, <3>0, <3>1, PreOfIs DEF Prefix, PreOf, Blk
    <3>3. CASE l < Len(s)
      <4>1. pc'[p] = "note" /\ lvl'[p] = l + 1  BY <1>4, <1>a, <3>0, <3>3 DEF Look, Go
      <4>2. Prefix(p)' = PreOf(s, l + 1)  BY <2>5, <3>0, <4>1 DEF Prefix, PreOf
      <4> QED  BY <2>6, <3>2, <4>1, <4>2 DEF LookSet, Reading, AtEnd, InCommit, Phase2
    <3>4. CASE ~(l < Len(s))
      <4>1. pc'[p] \in {"ro", "grab"}  BY <1>4, <1>a, <3>0, <3>4 DEF Look, Go
      <4>2. l = Len(s)  BY <3>1, <3>4
      <4>3. ToSet(s) = PreOf(s, l + 1)  BY <3>1, <4>2, PreOfIs
      <4>4. ToSet(Path(p)') = PreOf(s, l + 1)  BY <2>5, <3>0, <4>3
      <4> QED  BY <2>6, <3>2, <4>1, <4>4 DEF LookSet, Reading, AtEnd, InCommit, Phase2
    <3> QED  BY <3>3, <3>4
  <2> QED  BY <1>0, <1>1, <1>2, <2>1, <2>3, <2>4, <2>7 DEF Getting, Reading
<1>c. ASSUME pc[p] \in Getting \cup {"note"}, pc'[p] \in Getting \cup {"look"}, lvl' = lvl, todo' = todo
      PROVE  /\ Blk(p)' = Blk(p) /\ LookSet(p) = Prefix(p)
             /\ LookSet(p)' = IF pc'[p] = "look" THEN LookSet(p) \cup {Blk(p)} ELSE LookSet(p)
  <2>1. Path(p)' = Path(p)  BY <1>c DEF Path
  <2>2. Prefix(p)' = Prefix(p) /\ Blk(p)' = Blk(p)  BY <1>c, <2>1 DEF Prefix, Blk
  <2>3. LookSet(p) = Prefix(p)  BY <1>c DEF LookSet, Getting, Reading, AtEnd, InCommit, Phase2
  <2> QED  BY <1>c, <2>2, <2>3 DEF LookSet, Getting, Reading, AtEnd, InCommit, Phase2
<1>5. CASE ~CheckClue(p) /\ ~Look(p)
  <2>1. /\ pc[p] \in Getting \cup {"note"} /\ pc'[p] \in Getting \cup {"look"} /\ lvl' = lvl /\ todo' = todo /\ curr_tn' = curr_tn
        /\ tries' = tries /\ start_tn' = start_tn /\ began' = began /\ (pc[p] = "note" => pc'[p] \in Getting)
        /\ pc'[p] = "look" => hist' = hist
    <3>1. CASE NoteTn(p)  BY <1>a, <3>1 DEF NoteTn, Go, Getting
    <3>2. CASE Find(p)  BY <1>a, <3>2 DEF Find, Go, Getting
    <3>3. CASE Miss(p)  BY <1>a, <3>3 DEF Miss, Go, Getting
    <3>4. CASE GetBuffer(p)  BY <1>a, <3>4 DEF GetBuffer, Go, Getting
    <3>5. CASE DskRead(p)  BY <1>a, <3>5 DEF DskRead, Go, Getting
    <3>6. CASE NoteCycle(p)  BY <1>a, <3>6 DEF NoteCycle, Go, Getting
    <3>7. CASE WaitRead(p)  BY <1>a, <3>7 DEF WaitRead, Go, Getting
    <3>8. CASE WaitInTend(p)  BY <1>a, <3>8 DEF WaitInTend, Go, Getting
    <3> QED  BY <1>5, <3>1, <3>2, <3>3, <3>4, <3>5, <3>6, <3>7, <3>8 DEF Search, Begin
  <2>2. /\ \A b \in Block : b # e => hist'[p][b] = hist[p][b]
        /\ hist'[p][e].tn = IF pc[p] = "note" THEN curr_tn ELSE h.tn
    <3>1. CASE NoteTn(p)
      <4>1. SetHist(p, [h EXCEPT !.tn = curr_tn]) /\ pc[p] = "note"  BY <1>2, <3>1 DEF NoteTn
      <4>2. (\A b \in Block : b # e => hist'[p][b] = hist[p][b]) /\ hist'[p][e] = [h EXCEPT !.tn = curr_tn]  BY <1>b, <1>2, <4>1
      <4>3. hist'[p][e].tn = curr_tn  BY <4>2 DEF HistRec
      <4> QED  BY <4>1, <4>2, <4>3
    <3>2. CASE hist' = hist /\ pc[p] # "note"  BY <1>2, <3>2
    <3>3. ASSUME NEW c, SetHist(p, [h EXCEPT !.cr = c]), pc[p] # "note"  PROVE <2>2!:
      <4>2. (\A b \in Block : b # e => hist'[p][b] = hist[p][b]) /\ hist'[p][e] = [h EXCEPT !.cr = c]  BY <1>b, <1>2, <3>3
      <4>3. hist'[p][e].tn = h.tn  BY <4>2 DEF HistRec
      <4> QED  BY <3>3, <4>2, <4>3
    <3>4. ASSUME NEW c, NEW n, SetHist(p, [h EXCEPT !.cr = c, !.cycle = n]), pc[p] # "note"  PROVE <2>2!:
      <4>2. (\A b \in Block : b # e => hist'[p][b] = hist[p][b]) /\ hist'[p][e] = [h EXCEPT !.cr = c, !.cycle = n]  BY <1>b, <1>2, <3>4
      <4>3. hist'[p][e].tn = h.tn  BY <4>2 DEF HistRec
      <4> QED  BY <3>4, <4>2, <4>3
    <3>5. ASSUME NEW n, SetHist(p, [h EXCEPT !.cycle = n]), pc[p] # "note"  PROVE <2>2!:
      <4>2. (\A b \in Block : b # e => hist'[p][b] = hist[p][b]) /\ hist'[p][e] = [h EXCEPT !.cycle = n]  BY <1>b, <1>2, <3>5
      <4>3. hist'[p][e].tn = h.tn  BY <4>2 DEF HistRec
      <4> QED  BY <3>5, <4>2, <4>3
    <3>6. CASE Find(p)
      <4>1. pc[p] # "note" /\ (hist' = hist \/ \E c : SetHist(p, [h EXCEPT !.cr = c]))  BY <1>2, <3>6 DEF Find
      <4> QED  BY <3>2, <3>3, <4>1
    <3>7. CASE GetBuffer(p)
      <4>1. pc[p] # "note" /\ ((\E c : SetHist(p, [h EXCEPT !.cr = c])) \/ (\E c, n : SetHist(p, [h EXCEPT !.cr = c, !.cycle = n])))
        BY <1>2, <3>7 DEF GetBuffer
      <4> QED  BY <3>3, <3>4, <4>1
    <3>8. CASE NoteCycle(p)
      <4>1. pc[p] # "note" /\ \E n : SetHist(p, [h EXCEPT !.cycle = n])  BY <1>2, <3>8 DEF NoteCycle
      <4> QED  BY <3>5, <4>1
    <3>9. CASE Miss(p)  BY <3>2, <3>9 DEF Miss
    <3>10. CASE DskRead(p)  BY <3>2, <3>10 DEF DskRead
    <3>11. CASE WaitRead(p)  BY <3>2, <3>11 DEF WaitRead
    <3>12. CASE WaitInTend(p)  BY <3>2, <3>12 DEF WaitInTend
    <3> QED  BY <1>5, <3>1, <3>6, <3>7, <3>8, <3>9, <3>10, <3>11, <3>12 DEF Search, Begin
  <2> QED  BY <1>0, <1>1, <1>2, <1>c, <2>1, <2>2 DEF Getting, Reading
<1> QED  BY <1>3, <1>4, <1>5

LEMMA StartOut ==
  ASSUME Core, Types', Moves, NEW p \in Proc, StartInv, began'[p] \in {began[p], 0}, pc'[p] \notin Reading \cup AtEnd
  PROVE  StartFor(p)'
<1>1. PICK m \in Nat, s \in Nat, t \in Nat : m = began[p] /\ s = curr_tn /\ t = curr_tn' /\ s <= t
  BY DEF Core, Types, ProcTypes, FileTypes, Moves
<1>2. m <= s  BY <1>1 DEF StartInv, StartFor
<1>3. m <= t /\ 0 <= t  BY <1>1, <1>2
<1>4. began'[p] <= curr_tn'  BY <1>1, <1>3
<1> QED  BY <1>4 DEF StartFor

LEMMA StartSearch ==
  ASSUME Core, StartInv, NEW p \in Proc, Search(p)
  PROVE  StartInv'
<1> USE DEF jnlvars, dskvars, tnvars, txnvars, cmtvars
<1>1. Types' /\ Moves /\ Others(p)  BY CoreSearch DEF Core
<1>a. /\ pc \in [Proc -> PC] /\ start_tn \in [Proc -> Nat] /\ began \in [Proc -> Nat] /\ curr_tn \in Nat
      /\ hist \in [Proc -> [Block -> HistRec]] /\ clue \in [Proc -> Seq(Block)]
  BY DEF Core, Types, ProcTypes, FileTypes, HistTypes
<1>2. CASE pc[p] = "idle"
  <2>1. /\ hist' = hist /\ todo' = todo /\ curr_tn' = curr_tn /\ began'[p] = curr_tn
        /\ start_tn'[p] = Min({curr_tn} \cup {hist[p][b].tn : b \in ToSet(clue[p])})
        /\ pc'[p] = (IF clue[p] = Path(p) THEN "clue" ELSE "note") /\ (clue[p] # Path(p) => lvl'[p] = 1)
        /\ todo[p] # << >>
    <3>1. Begin(p)
      BY <1>2 DEF Search, CheckClue, NoteTn, Find, Miss, GetBuffer, DskRead, NoteCycle, WaitRead, WaitInTend, Look
    <3>2. hist' = hist /\ todo' = todo /\ curr_tn' = curr_tn /\ todo[p] # << >>  BY <3>1 DEF Begin
    <3>3. began'[p] = curr_tn /\ start_tn'[p] = Min({curr_tn} \cup {hist[p][b].tn : b \in ToSet(clue[p])})
      BY <3>1, <1>a DEF Begin
    <3>4. pc'[p] = (IF clue[p] = Path(p) THEN "clue" ELSE "note") /\ (clue[p] # Path(p) => lvl'[p] = 1)
      BY <3>1, <1>a DEF Begin, Go, Core, Types, ProcTypes
    <3> QED  BY <3>2, <3>3, <3>4
  <2>2. PICK S : S = {curr_tn} \cup {hist[p][b].tn : b \in ToSet(clue[p])}  OBVIOUS
  <2>3. ToSet(clue[p]) \subseteq Block
    <3>1. PICK s \in Seq(Block) : s = clue[p]  BY <1>a
    <3> QED  BY <3>1 DEF ToSet
  <2>4. \A b \in Block : hist[p][b].tn \in Nat
    <3> TAKE b \in Block
    <3>1. PICK h \in HistRec : h = hist[p][b]  BY <1>a
    <3> QED  BY <3>1, HistFields
  <2>5. S \subseteq Nat /\ curr_tn \in S /\ \A b \in ToSet(clue[p]) : hist[p][b].tn \in S  BY <1>a, <2>2, <2>3, <2>4
  <2>6. Min(S) <= curr_tn /\ \A b \in ToSet(clue[p]) : Min(S) <= hist[p][b].tn  BY <2>5, MinIs
  <2>7. LookSet(p)' \subseteq ToSet(clue[p]) /\ pc'[p] \notin Getting
    <3>1. Path(p)' = Path(p)  BY <2>1 DEF Path
    <3>2. CASE clue[p] = Path(p)  BY <2>1, <3>1, <3>2 DEF LookSet, Getting
    <3>3. CASE clue[p] # Path(p)
      <4>0. Prefix(p)' = {}  BY <2>1, <3>3 DEF Prefix
      <4> QED  BY <2>1, <3>3, <4>0 DEF LookSet, Reading, AtEnd, InCommit, Phase2, Getting
    <3> QED  BY <3>2, <3>3
  <2>8. StartFor(p)'
    <3>1. began'[p] <= curr_tn  BY <1>a, <2>1
    <3> QED  BY <2>1, <2>2, <2>6, <2>7, <3>1 DEF StartFor
  <2> QED  BY <1>1, <2>8, StartStep
<1>3. CASE pc[p] # "idle"
  <2>1. /\ pc[p] \in Reading /\ pc'[p] \in Reading \cup {"ro", "grab"} /\ curr_tn' = curr_tn
        /\ start_tn' = start_tn /\ began' = began
        /\ \A b \in Block : b # Blk(p) => hist'[p][b] = hist[p][b]
        /\ hist'[p][Blk(p)].tn = IF pc[p] = "note" THEN curr_tn ELSE hist[p][Blk(p)].tn
        /\ pc'[p] \in Getting => pc[p] \in Getting \cup {"note"} /\ Blk(p)' = Blk(p) /\ LookSet(p)' = LookSet(p)
        /\ pc'[p] \in {"clue", "note", "look", "ro", "grab"} /\ pc[p] \notin Getting => LookSet(p)' \subseteq LookSet(p)
        /\ pc[p] \in Getting /\ pc'[p] \notin Getting => hist' = hist /\ LookSet(p)' = LookSet(p) \cup {Blk(p)}
    BY <1>3, SearchTn
  <2>2. PICK e : e = Blk(p)  OBVIOUS
  <2>3. ASSUME NEW b \in Block, b \in StartSet(p)'
        PROVE  \/ hist'[p][b].tn = curr_tn
               \/ b \in StartSet(p) /\ hist'[p][b].tn = hist[p][b].tn
    <3>0. b \in LookSet(p)' \/ (pc'[p] \in Getting /\ Blk(p)' = b)  BY <2>3 DEF StartSet
    <3>1. CASE pc'[p] \in Getting
      <4>1. b \in LookSet(p) \/ b = e  BY <2>1, <2>2, <3>0, <3>1
      <4>2. CASE b # e
        <5>1. b \in StartSet(p) /\ hist'[p][b] = hist[p][b]  BY <2>1, <2>2, <4>1, <4>2 DEF StartSet
        <5> QED  BY <5>1
      <4>3. CASE b = e /\ pc[p] = "note"  BY <2>1, <2>2, <4>3
      <4>4. CASE b = e /\ pc[p] # "note"
        <5>1. b \in StartSet(p)  BY <2>1, <2>2, <3>1, <4>4 DEF StartSet
        <5> QED  BY <2>1, <2>2, <4>4, <5>1
      <4> QED  BY <4>2, <4>3, <4>4
    <3>2. CASE pc'[p] \notin Getting
      <4>0. b \in LookSet(p)' /\ pc'[p] \in {"clue", "note", "look", "ro", "grab"}  BY <2>1, <3>0, <3>2 DEF Getting, Reading
      <4>1. CASE pc[p] \in Getting
        <5>1. b \in StartSet(p)  BY <2>1, <3>2, <4>0, <4>1 DEF StartSet
        <5> QED  BY <2>1, <3>2, <4>1, <5>1
      <4>2. CASE pc[p] \notin Getting
        <5>1. b \in StartSet(p)  BY <2>1, <4>0, <4>2 DEF StartSet
        <5>2. b # e => hist'[p][b].tn = hist[p][b].tn  BY <2>1, <2>2
        <5>3. b = e => hist'[p][b].tn = curr_tn \/ hist'[p][b].tn = hist[p][b].tn  BY <2>1, <2>2
        <5> QED  BY <5>1, <5>2, <5>3
      <4> QED  BY <4>1, <4>2
    <3> QED  BY <3>1, <3>2
  <2>4. StartFor(p)  BY DEF StartInv
  <2>5. StartFor(p)'  BY <2>1, <2>3, <2>4, StartKeep
  <2> QED  BY <1>1, <2>5, StartStep
<1> QED  BY <1>2, <1>3

LEMMA StartTEnd ==
  ASSUME Core, StartInv, NEW p \in Proc, TEnd(p)
  PROVE  StartInv'
<1> USE DEF jnlvars, dskvars, tnvars, txnvars, cmtvars
<1>1. Types' /\ Moves /\ Others(p)  BY CoreTEnd DEF Core
<1>a. /\ pc \in [Proc -> PC] /\ start_tn \in [Proc -> Nat] /\ began \in [Proc -> Nat] /\ curr_tn \in Nat
  BY DEF Core, Types, ProcTypes, FileTypes
<1>b. StartFor(p)  BY DEF StartInv
<1>2. CASE Retry(p)
  <2>1. /\ pc[p] = "retry" /\ pc'[p] = "note" /\ lvl'[p] = 1 /\ start_tn'[p] = curr_tn /\ began' = began /\ curr_tn' = curr_tn
    BY <1>2, <1>a DEF Retry, Go, Types, ProcTypes, Core
  <2>2. PICK m \in Nat : m = began[p]  BY <1>a
  <2>3. Prefix(p)' = {}  BY <2>1 DEF Prefix
  <2>4. LookSet(p)' = {}  BY <2>1, <2>3 DEF LookSet, Reading, AtEnd, InCommit, Phase2
  <2>5. StartFor(p)'
    <3>1. began[p] <= curr_tn  BY <1>b DEF StartFor
    <3> QED  BY <1>a, <2>1, <2>4, <3>1 DEF StartFor, Getting
  <2> QED  BY <1>1, <2>5, StartStep
<1>3. CASE ~Retry(p)
  <2>1. pc[p] \in AtEnd /\ start_tn' = start_tn /\ began' = began /\ curr_tn' = curr_tn
    BY <1>3 DEF TEnd, ReadOnlyEnd, CheckTn, CheckCycle, ReadOnlyDone, GrabCrit, Validate, AtEnd
  <2>2. \/ pc'[p] \in AtEnd /\ todo' = todo /\ hist' = hist
        \/ pc'[p] \notin Reading \cup AtEnd
    BY <1>3, <1>a DEF TEnd, ReadOnlyEnd, CheckTn, CheckCycle, ReadOnlyDone, GrabCrit, Validate, AtEnd, Fail, Go, Reading
  <2>3. CASE pc'[p] \in AtEnd /\ todo' = todo /\ hist' = hist
    <3>1. Path(p)' = Path(p)  BY <2>3 DEF Path
    <3>2. LookSet(p)' = LookSet(p)  BY <2>1, <2>3, <3>1 DEF LookSet, AtEnd
    <3>3. pc'[p] \notin Getting  BY <2>3 DEF AtEnd, Getting
    <3>4. \A b \in Block : b \in StartSet(p)' => b \in StartSet(p) /\ hist'[p][b].tn = hist[p][b].tn
      BY <2>3, <3>2, <3>3 DEF StartSet
    <3>5. StartFor(p)'  BY <1>b, <2>1, <3>4, StartKeep
    <3> QED  BY <1>1, <3>5, StartStep
  <2>4. CASE pc'[p] \notin Reading \cup AtEnd
    <3>1. StartFor(p)'  BY <1>1, <2>1, <2>4, StartOut
    <3> QED  BY <1>1, <3>1, StartStep
  <2> QED  BY <2>2, <2>3, <2>4
<1> QED  BY <1>2, <1>3

LEMMA StartCommit ==
  ASSUME Core, StartInv, NEW p \in Proc, Commit(p)
  PROVE  StartInv'
<1>1. Types' /\ Moves /\ Others(p)  BY CoreCommit DEF Core
<1>a. pc \in [Proc -> PC]  BY DEF Core, Types, ProcTypes
<1>2. pc'[p] \notin Reading \cup AtEnd
  BY <1>a DEF Commit, CheckEpoch, FlushJnl, WriteEpoch, Reserve, Phase1, Phase1Wait, IncrementTn, WriteJnl, BuildStart, BuildEnd,
              Release, ResetInTend, Halt, NextCse, Go, Reading, AtEnd
<1>3. began'[p] \in {began[p], 0}
  <2>1. began \in [Proc -> Nat]  BY DEF Core, Types, ProcTypes
  <2> QED  BY <2>1 DEF Commit, CheckEpoch, FlushJnl, WriteEpoch, Reserve, Phase1, Phase1Wait, IncrementTn, WriteJnl, BuildStart, BuildEnd,
              Release, ResetInTend, Halt, txnvars
<1>4. StartFor(p)'  BY <1>1, <1>2, <1>3, StartOut
<1> QED  BY <1>1, <1>4, StartStep

LEMMA StartRest ==
  ASSUME Core, StartInv, (\E w \in Writer : WtStep(w)) \/ JnlQio \/ UNCHANGED vars
  PROVE  StartInv'
<1>1. Moves /\ Others(NoProc) /\ Types'  BY CoreWriter, CoreRest DEF Core
<1>2. NoProc \notin Proc  BY BlockNat
<1> HIDE DEF NoProc
<1> QED  BY <1>1, <1>2, StartStep

-----------------------------------------------------------------------------
(* SnapInv: the tn at which a read-only transaction sees the database *)

LEMMA CommitSame ==
  ASSUME Core, NEW p \in Proc, Commit(p)
  PROVE  SameVersions
<1>1. Types' /\ Types /\ JobInv  BY CoreCommit DEF Core
<1>2. CASE Steady(p)  BY <1>2, JnlSame DEF Steady
<1>3. CASE LogStep(p)  BY <1>1, <1>3, LogVersions
<1> QED  BY <1>1, <1>2, <1>3, SteadyCommit

(* A step after which the history of q is as it was *)
LEMMA SnapKeep ==
  ASSUME Core, Types', Moves, SameVersions, NEW q \in Proc, pc[q] \in {"romod", "rocyc", "rodone"},
         NEW t \in Nat, t <= curr_tn, SnapAt(q, t),
         hist'[q] = hist[q], Path(q)' = Path(q), pc'[q] = pc[q], lvl'[q] = lvl[q], same'[q] = same[q]
  PROVE  SnapAt(q, t)'
<1>0. Types /\ JobInv /\ HistFor(q)  BY DEF Core, HistInv
<1>1. SUFFICES ASSUME NEW i \in 1 .. Len(Path(q)), NEW b \in Block, NEW c \in Buffer, Path(q)[i] = b, hist[q][b].cr = c
              PROVE  Snap(q, i, b, c, t)'
  BY DEF SnapAt, Moves
<1>2. Snap(q, i, b, c, t)  BY <1>1 DEF SnapAt
<1>3. PICK h \in HistRec : h = hist[q][b] /\ hist'[q][b] = h  BY <1>0 DEF Types, HistTypes
<1>4. h.cycle \in Nat /\ h.tn \in Nat  BY <1>3, HistFields
<1>5. b \in LookSet(q) /\ pc[q] \notin InCommit /\ pc[q] \notin {"idle", "gone"}
  <2>1. pc[q] \notin {"idle", "gone"}  OBVIOUS
  <2>2. b \in ToSet(Path(q))  BY <1>0, <1>1, <2>1, JobFacts DEF ToSet
  <2> QED  BY <2>1, <2>2 DEF LookSet, AtEnd, InCommit
<1>6. h.tn <= curr_tn /\ h.cycle <= cr[c].cycle  BY <1>0, <1>1, <1>3, <1>5 DEF HistFor, HistTn, Found
<1>7. PICK n \in Nat, m \in Nat : n = cr[c].cycle /\ m = cr'[c].cycle /\ n <= m
  <2>1. cr[c].cycle \in Nat /\ cr[c].cycle <= cr'[c].cycle  BY <1>0, CrFields DEF Moves
  <2>2. cr'[c] \in CacheRec  BY DEF Types, BufTypes, Moves
  <2>3. cr'[c].cycle \in Nat  BY <2>2 DEF CacheRec
  <2> QED  BY <2>1, <2>3
<1>8. h.cycle = m => h.cycle = n
  <2>1. h.cycle <= n  BY <1>6, <1>7
  <2> QED  BY <1>4, <1>7, <2>1
<1>9. PICK v, w : v = Ver(b) /\ w = Ver(b)'  OBVIOUS
<1>10. w.tn < h.tn => v.tn < h.tn
  <2>1. SUFFICES ASSUME w # v  PROVE ~(w.tn < h.tn)  OBVIOUS
  <2>2. curr_tn = w.tn /\ curr_tn \in Nat  BY <1>0, <1>9, <2>1 DEF Moves, Types, FileTypes
  <2> QED  BY <1>4, <1>6, <2>2
<1>11. VersionAt(b, t)' = VersionAt(b, t)
  <2>1. t \in 0 .. curr_tn  BY <1>0 DEF Types, FileTypes
  <2> QED  BY <2>1 DEF SameVersions
<1>12. /\ h.tn <= t
       /\ i > lvl[q] \/ pc[q] = "rodone" => h.ver = VersionAt(b, t)
       /\ h.cycle = n /\ (same[q] \/ (pc[q] = "rocyc" /\ i = lvl[q]) \/ v.tn < h.tn) => h.ver = VersionAt(b, t)
  BY <1>2, <1>3, <1>7, <1>9 DEF Snap
<1>13. h.cycle = m /\ (same[q] \/ (pc[q] = "rocyc" /\ i = lvl[q]) \/ w.tn < h.tn) => h.ver = VersionAt(b, t)
  BY <1>8, <1>10, <1>12
<1> QED  BY <1>3, <1>7, <1>9, <1>11, <1>12, <1>13 DEF Snap

LEMMA SnapStep ==
  ASSUME Core, Types', Moves, SameVersions, SnapInv, NEW p, Others(p), p \in Proc => SnapFor(p)'
  PROVE  SnapInv'
<1>1. ASSUME NEW q \in Proc, q # p, pc'[q] \in {"romod", "rocyc", "rodone"}
      PROVE  \E t \in Nat : began'[q] <= t /\ t <= curr_tn' /\ SnapAt(q, t)'
  <2>1. /\ pc'[q] = pc[q] /\ began'[q] = began[q] /\ lvl'[q] = lvl[q] /\ hist'[q] = hist[q] /\ same'[q] = same[q]
        /\ Path(q)' = Path(q)
    BY <1>1, OtherSets DEF Others
  <2>2. PICK t \in Nat : began[q] <= t /\ t <= curr_tn /\ SnapAt(q, t)  BY <1>1, <2>1 DEF SnapInv, SnapFor
  <2>3. SnapAt(q, t)'  BY <1>1, <2>1, <2>2, SnapKeep
  <2>4. t <= curr_tn'
    <3>1. PICK m \in Nat, n \in Nat : m = curr_tn /\ n = curr_tn' /\ m <= n  BY DEF Core, Types, FileTypes, Moves
    <3> QED  BY <2>2, <3>1
  <2> QED  BY <2>1, <2>2, <2>3, <2>4
<1> QED  BY <1>1 DEF SnapInv, SnapFor

LEMMA SnapOut ==
  ASSUME NEW p, pc'[p] \notin {"romod", "rocyc", "rodone"}
  PROVE  SnapFor(p)'
BY DEF SnapFor

LEMMA SnapSearch ==
  ASSUME Core, SnapInv, NEW p \in Proc, Search(p)
  PROVE  SnapInv'
<1>1. Types' /\ Moves /\ Others(p)  BY CoreSearch DEF Core
<1>a. pc \in [Proc -> PC]  BY DEF Core, Types, ProcTypes
<1>2. pc'[p] \in Reading \cup {"ro", "grab"}
  BY <1>a DEF Search, Begin, CheckClue, NoteTn, Find, Miss, GetBuffer, DskRead, NoteCycle, WaitRead, WaitInTend, Look, Go, Reading
<1>3. SameVersions  BY SteadySearch, JnlSame DEF Steady, Core
<1>4. SnapFor(p)'  BY <1>2, SnapOut DEF Reading
<1> QED  BY <1>1, <1>3, <1>4, SnapStep

LEMMA SnapCommit ==
  ASSUME Core, SnapInv, NEW p \in Proc, Commit(p)
  PROVE  SnapInv'
<1>1. Types' /\ Moves /\ Others(p)  BY CoreCommit DEF Core
<1>a. pc \in [Proc -> PC]  BY DEF Core, Types, ProcTypes
<1>2. pc'[p] \notin {"romod", "rocyc", "rodone"}
  BY <1>a DEF Commit, CheckEpoch, FlushJnl, WriteEpoch, Reserve, Phase1, Phase1Wait, IncrementTn, WriteJnl, BuildStart, BuildEnd,
              Release, ResetInTend, Halt, NextCse, Go
<1> QED  BY <1>1, <1>2, CommitSame, SnapOut, SnapStep

LEMMA SnapRest ==
  ASSUME Core, SnapInv, (\E w \in Writer : WtStep(w)) \/ JnlQio \/ UNCHANGED vars
  PROVE  SnapInv'
<1>1. Moves /\ Others(NoProc) /\ Types'  BY CoreWriter, CoreRest DEF Core
<1>2. NoProc \notin Proc  BY BlockNat
<1>3. SameVersions
  <2>1. jnl' = jnl  BY SteadyRest DEF Steady, vars
  <2> QED  BY <2>1, JnlSame
<1> HIDE DEF NoProc
<1> QED  BY <1>1, <1>2, <1>3, SnapStep

LEMMA SnapTEnd ==
  ASSUME Core, StartInv, SnapInv, NEW p \in Proc, TEnd(p)
  PROVE  SnapInv'
<1> USE DEF jnlvars, dskvars, tnvars, txnvars, cmtvars
<1>1. Types' /\ Moves /\ Others(p)  BY CoreTEnd DEF Core
<1>a. /\ pc \in [Proc -> PC] /\ start_tn \in [Proc -> Nat] /\ began \in [Proc -> Nat] /\ curr_tn \in Nat /\ lvl \in [Proc -> Nat]
      /\ same \in [Proc -> BOOLEAN]
  BY DEF Core, Types, ProcTypes, FileTypes
<1>2. SameVersions /\ curr_tn' = curr_tn /\ jnl' = jnl  BY SteadyTEnd, JnlSame DEF Steady, Core
<1>b. Types /\ JobInv /\ HistFor(p) /\ StartFor(p) /\ DataInv /\ TnInv  BY DEF Core, HistInv, StartInv
<1>c. \A b \in Block : Ver(b)' = Ver(b)  BY <1>1, <1>2 DEF Moves
<1>d. pc[p] \in {"ro", "romod", "rocyc", "rodone"} =>
        /\ \A i \in 1 .. Len(Path(p)) : Path(p)[i] \in LookSet(p) /\ Path(p)[i] \in SeenSet(p) /\ Path(p)[i] \in Block
        /\ Len(Path(p)) \in Nat \ {0} /\ lvl[p] \in 1 .. Len(Path(p)) /\ pc[p] \notin InCommit
  <2> SUFFICES ASSUME pc[p] \in {"ro", "romod", "rocyc", "rodone"}
               PROVE  /\ \A i \in 1 .. Len(Path(p)) : Path(p)[i] \in LookSet(p) /\ Path(p)[i] \in SeenSet(p) /\ Path(p)[i] \in Block
                      /\ Len(Path(p)) \in Nat \ {0} /\ lvl[p] \in 1 .. Len(Path(p)) /\ pc[p] \notin InCommit
    OBVIOUS
  <2>1. pc[p] \notin {"idle", "gone"} /\ pc[p] \in AtEnd /\ pc[p] \notin InCommit  BY DEF AtEnd, InCommit
  <2>2. LookSet(p) = ToSet(Path(p)) /\ SeenSet(p) = ToSet(Path(p))  BY <2>1 DEF LookSet, SeenSet, AtEnd
  <2>3. \A i \in 1 .. Len(Path(p)) : Path(p)[i] \in ToSet(Path(p)) /\ Path(p)[i] \in Block
    BY <1>b, <2>1, JobFacts DEF ToSet
  <2> QED  BY <1>b, <2>1, <2>2, <2>3, JobFacts
<1>3. CASE ReadOnlyEnd(p)
  <2>1. /\ pc[p] = "ro" /\ hist' = hist /\ todo' = todo /\ began' = began /\ cr' = cr /\ lvl'[p] = Len(Path(p))
        /\ same'[p] = (start_tn[p] = early_tn) /\ pc'[p] = IF same'[p] THEN "rocyc" ELSE "romod"
    BY <1>3, <1>a DEF ReadOnlyEnd, Go
  <2>2. Path(p)' = Path(p)  BY <2>1 DEF Path
  <2>3. ASSUME NEW i \in 1 .. Len(Path(p)), NEW b \in Block, NEW c \in Buffer, Path(p)[i] = b, hist[p][b].cr = c
        PROVE  Snap(p, i, b, c, curr_tn)'
    <3>1. PICK h \in HistRec : h = hist[p][b]  BY <1>b DEF Types, HistTypes
    <3>2. h.tn \in Nat /\ h.tn <= curr_tn  BY <1>b, <1>d, <2>1, <3>1, HistFields DEF HistFor, HistTn
    <3>3. Seen(p, b, c)  BY <1>b, <1>d, <2>1, <2>3 DEF HistFor
    <3>4. start_tn[p] <= h.tn  BY <1>b, <1>d, <2>1, <2>3, <3>1 DEF StartFor, AtEnd
    <3>5. same'[p] => Ver(b).tn < h.tn
      <4> SUFFICES ASSUME same'[p]  PROVE Ver(b).tn < h.tn  OBVIOUS
      <4>1. start_tn[p] = early_tn /\ early_tn \in {curr_tn, curr_tn + 1}  BY <1>b, <2>1 DEF TnInv
      <4>2. h.tn = curr_tn  BY <1>a, <3>2, <3>4, <4>1
      <4> QED  BY <1>b, <4>2, VerNat
    <3>6. pc'[p] = "rocyc" => same'[p]  BY <2>1
    <3>7. ~(i > lvl'[p]) /\ pc'[p] # "rodone"
      <4>1. Len(Path(p)) \in Nat  BY <1>d, <2>1
      <4> QED  BY <2>1, <4>1
    <3>8. h.cycle = cr[c].cycle /\ Ver(b).tn < h.tn => h.ver = Ver(b)  BY <3>1, <3>3 DEF Seen
    <3>9. VersionAt(b, curr_tn)' = Ver(b) /\ Ver(b)' = Ver(b)  BY <1>2, <1>c DEF Ver
    <3> QED  BY <1>2, <2>1, <3>1, <3>2, <3>5, <3>6, <3>7, <3>8, <3>9 DEF Snap
  <2>4. PICK t \in Nat : t = curr_tn  BY <1>a
  <2>5. SnapAt(p, t)'
    <3>1. Buffer' = Buffer  BY <1>1 DEF Moves
    <3>2. \A i \in 1 .. Len(Path(p)), b \in Block, c \in Buffer : Path(p)[i] = b /\ hist[p][b].cr = c => Snap(p, i, b, c, t)'
      BY <1>2, <2>3, <2>4
    <3> QED  BY <2>1, <2>2, <3>1, <3>2 DEF SnapAt
  <2>6. began'[p] <= t /\ t <= curr_tn'  BY <1>2, <1>a, <1>b, <2>1, <2>4 DEF StartFor
  <2>7. SnapFor(p)'  BY <2>5, <2>6 DEF SnapFor
  <2> QED  BY <1>1, <1>2, <2>7, SnapInv, SnapStep
<1>e. PICK e, l : e = Blk(p) /\ l = lvl[p]  OBVIOUS
<1>f. pc[p] \in {"romod", "rocyc"} => e \in Block /\ Hist(p) = hist[p][e] /\ e = Path(p)[l]
  BY <1>b, <1>e, JobFacts DEF Hist, Blk
<1>4. CASE CheckTn(p)
  <2>0. pc[p] = "romod"  BY <1>4 DEF CheckTn
  <2>1. CASE BLKMOD(Hist(p))
    <3>1. pc'[p] = "retry"  BY <1>4, <1>a, <2>1 DEF CheckTn, Fail, Go
    <3> QED  BY <1>1, <1>2, <3>1, SnapOut, SnapStep
  <2>2. CASE ~BLKMOD(Hist(p))
    <3>1. pc'[p] = "rocyc" /\ hist' = hist /\ todo' = todo /\ began' = began /\ cr' = cr /\ lvl' = lvl /\ same' = same
      BY <1>4, <1>a, <2>2 DEF CheckTn, Go
    <3>2. Path(p)' = Path(p)  BY <3>1 DEF Path
    <3>3. PICK t \in Nat : began[p] <= t /\ t <= curr_tn /\ SnapAt(p, t)  BY <2>0 DEF SnapInv, SnapFor
    <3>4. ASSUME NEW i \in 1 .. Len(Path(p)), NEW b \in Block, NEW c \in Buffer, Path(p)[i] = b, hist[p][b].cr = c
          PROVE  Snap(p, i, b, c, t)'
      <4>1. Snap(p, i, b, c, t)  BY <3>3, <3>4 DEF SnapAt
      <4>2. PICK h \in HistRec : h = hist[p][b]  BY <1>b DEF Types, HistTypes
      <4>3. VersionAt(b, t)' = VersionAt(b, t)  BY <1>2, JnlSame
      <4>4. ASSUME h.cycle = cr[c].cycle, i = l  PROVE h.ver = VersionAt(b, t)
        <5>1. b = e /\ Hist(p) = h  BY <1>f, <2>0, <3>4, <4>2, <4>4
        <5>2. cr[c].in_tend = NoProc /\ ~(h.tn <= cr[c].data.tn)  BY <2>2, <3>4, <4>2, <5>1 DEF BLKMOD
        <5>3. Found(p, b, c)  BY <1>b, <1>d, <2>0, <3>4 DEF HistFor
        <5>4. cr[c].blk = b /\ cr[c].rip = NoProc  BY <4>2, <4>4, <5>3 DEF Found
        <5>5. Settled(c)  BY <5>2, BlockNat DEF Settled
        <5>6. cr[c].data = Ver(b)  BY <1>b, <5>4, <5>5 DEF DataInv, DataFor
        <5>7. Ver(b).tn \in Nat /\ h.tn \in Nat  BY <1>b, <4>2, VerNat, HistFields
        <5>8. Ver(b).tn < h.tn  BY <5>2, <5>6, <5>7
        <5> QED  BY <4>1, <4>2, <4>4, <5>8 DEF Snap
      <4>5. /\ h.tn <= t
            /\ i > l => h.ver = VersionAt(b, t)
            /\ h.cycle = cr[c].cycle /\ (same[p] \/ Ver(b).tn < h.tn) => h.ver = VersionAt(b, t)
        BY <1>e, <4>1, <4>2 DEF Snap
      <4> QED  BY <1>c, <1>e, <3>1, <4>2, <4>3, <4>4, <4>5 DEF Snap
    <3>5. SnapAt(p, t)'
      <4>1. Buffer' = Buffer  BY <1>1 DEF Moves
      <4> QED  BY <3>1, <3>2, <3>4, <4>1 DEF SnapAt
    <3>6. SnapFor(p)'  BY <1>2, <3>1, <3>3, <3>5 DEF SnapFor
    <3> QED  BY <1>1, <1>2, <3>6, SnapStep
  <2> QED  BY <2>1, <2>2
<1>5. CASE CheckCycle(p)
  <2>0. pc[p] = "rocyc"  BY <1>5 DEF CheckCycle
  <2>1. CASE LostCr(Hist(p))
    <3>1. pc'[p] = "retry"  BY <1>5, <1>a, <2>1 DEF CheckCycle, Fail, Go
    <3> QED  BY <1>1, <1>2, <3>1, SnapOut, SnapStep
  <2>2. CASE ~LostCr(Hist(p))
    <3>1. hist' = hist /\ todo' = todo /\ began' = began /\ cr' = cr /\ same' = same
      BY <1>5, <2>2 DEF CheckCycle
    <3>2. \/ l > 1 /\ lvl'[p] = l - 1 /\ pc'[p] = IF same[p] THEN "rocyc" ELSE "romod"
          \/ ~(l > 1) /\ lvl'[p] = l /\ pc'[p] = "rodone"
      BY <1>5, <1>a, <1>e, <2>2 DEF CheckCycle, Go
    <3>3. Path(p)' = Path(p)  BY <3>1 DEF Path
    <3>4. PICK t \in Nat : began[p] <= t /\ t <= curr_tn /\ SnapAt(p, t)  BY <2>0 DEF SnapInv, SnapFor
    <3>5. ASSUME NEW i \in 1 .. Len(Path(p)), NEW b \in Block, NEW c \in Buffer, Path(p)[i] = b, hist[p][b].cr = c
          PROVE  Snap(p, i, b, c, t)'
      <4>1. Snap(p, i, b, c, t)  BY <3>4, <3>5 DEF SnapAt
      <4>2. PICK h \in HistRec : h = hist[p][b]  BY <1>b DEF Types, HistTypes
      <4>3. VersionAt(b, t)' = VersionAt(b, t)  BY <1>2, JnlSame
      <4>4. i = l => h.ver = VersionAt(b, t)
        <5> SUFFICES ASSUME i = l  PROVE h.ver = VersionAt(b, t)  OBVIOUS
        <5>1. Hist(p) = h  BY <1>f, <2>0, <3>5, <4>2
        <5>2. cr[c].cycle = h.cycle  BY <2>2, <3>5, <4>2, <5>1 DEF LostCr
        <5> QED  BY <1>e, <2>0, <4>1, <4>2, <5>2 DEF Snap
      <4>5. /\ h.tn <= t
            /\ i > l => h.ver = VersionAt(b, t)
            /\ h.cycle = cr[c].cycle /\ (same[p] \/ Ver(b).tn < h.tn) => h.ver = VersionAt(b, t)
        BY <1>e, <4>1, <4>2 DEF Snap
      <4>6. i > lvl'[p] \/ pc'[p] = "rodone" => i >= l
        <5>1. l \in 1 .. Len(Path(p)) /\ Len(Path(p)) \in Nat /\ i \in 1 .. Len(Path(p))  BY <1>d, <1>e, <2>0
        <5>2. CASE l > 1 /\ lvl'[p] = l - 1 /\ pc'[p] = IF same[p] THEN "rocyc" ELSE "romod"
          <6>1. pc'[p] # "rodone"  BY <5>2
          <6> QED  BY <5>1, <5>2, <6>1
        <5>3. CASE ~(l > 1) /\ lvl'[p] = l /\ pc'[p] = "rodone"  BY <5>1, <5>3
        <5> QED  BY <3>2, <5>2, <5>3
      <4>7. i >= l => h.ver = VersionAt(b, t)
        <5>1. l \in Nat /\ i \in Nat  BY <1>d, <1>e, <2>0
        <5> QED  BY <4>4, <4>5, <5>1
      <4>8. pc'[p] = "rocyc" => same[p]  BY <3>2
      <4> QED  BY <1>c, <3>1, <4>2, <4>3, <4>5, <4>6, <4>7, <4>8 DEF Snap
    <3>6. SnapAt(p, t)'
      <4>1. Buffer' = Buffer  BY <1>1 DEF Moves
      <4> QED  BY <3>1, <3>3, <3>5, <4>1 DEF SnapAt
    <3>7. SnapFor(p)'  BY <1>2, <3>1, <3>4, <3>6 DEF SnapFor
    <3> QED  BY <1>1, <1>2, <3>7, SnapStep
  <2> QED  BY <2>1, <2>2
<1>6. CASE ReadOnlyDone(p) \/ Retry(p) \/ GrabCrit(p) \/ Validate(p)
  <2>1. pc'[p] \notin {"romod", "rocyc", "rodone"}  BY <1>6, <1>a DEF ReadOnlyDone, Retry, GrabCrit, Validate, Fail, Go
  <2> QED  BY <1>1, <1>2, <2>1, SnapOut, SnapStep
<1> QED  BY <1>3, <1>4, <1>5, <1>6 DEF TEnd

LEMMA SnapIs ==
  ASSUME Core, SnapInv
  PROVE  ReadsAreSnapshots
<1> SUFFICES ASSUME NEW p \in Proc, pc[p] = "rodone"
             PROVE  \E t \in began[p] .. curr_tn : \A b \in ToSet(Path(p)) : hist[p][b].ver = VersionAt(b, t)
  BY DEF ReadsAreSnapshots
<1>1. PICK t \in Nat : began[p] <= t /\ t <= curr_tn /\ SnapAt(p, t)  BY DEF SnapInv, SnapFor
<1>2. t \in began[p] .. curr_tn
  <2>1. began[p] \in Nat /\ curr_tn \in Nat  BY DEF Core, Types, ProcTypes, FileTypes
  <2> QED  BY <1>1, <2>1
<1>3. ASSUME NEW b \in ToSet(Path(p))  PROVE hist[p][b].ver = VersionAt(b, t)
  <2>1. PICK i \in 1 .. Len(Path(p)) : Path(p)[i] = b  BY <1>3, JobFacts DEF ToSet, Core
  <2>2. b \in Block  BY <2>1, JobFacts DEF Core
  <2>3. hist[p][b] \in HistRec  BY <2>2 DEF Core, Types, HistTypes
  <2>4. PICK c \in Buffer : c = hist[p][b].cr  BY <2>3, HistFields
  <2>5. Snap(p, i, b, c, t)  BY <1>1, <2>1, <2>2, <2>4 DEF SnapAt
  <2> QED  BY <2>5 DEF Snap
<1> QED  BY <1>2, <1>3

(* A step that neither takes a buffer from its block nor starts to update one *)
CalmAt(c) == /\ cr'[c].blk = cr[c].blk /\ cr'[c].cycle = cr[c].cycle
             /\ cr[c].in_tend = NoProc => cr'[c].in_tend = NoProc
Calm == Buffer' = Buffer /\ curr_tn' = curr_tn /\ \A c \in Buffer : CalmAt(c)

LEMMA CalmOne ==
  ASSUME NEW c \in Buffer, Only(c), SameId(c), cr[c].in_tend = NoProc => cr'[c].in_tend = NoProc, curr_tn' = curr_tn
  PROVE  Calm
BY DEF Calm, CalmAt, Only, SameId

LEMMA CalmSearch ==
  ASSUME Core, NEW p \in Proc, Search(p)
  PROVE  Calm \/ NewBuffer(p)
<1>0. Types /\ JobInv  BY DEF Core
<1>1. CASE Quiet(p)  BY <1>1 DEF Quiet, Calm, CalmAt, Buffer
<1>2. CASE DskRead(p)
  <2>1. PICK c : c = Hist(p).cr  OBVIOUS
  <2>2. c \in Buffer /\ Only(c) /\ cr'[c].blk = cr[c].blk /\ cr'[c].cycle = cr[c].cycle /\ SameLock(c) /\ curr_tn' = curr_tn
    BY <1>0, <1>2, <2>1, DskReadIs
  <2> QED  BY <2>2 DEF Calm, CalmAt, Only, SameLock
<1> QED  BY <1>0, <1>1, <1>2, QuietSearch

LEMMA CalmTEnd ==
  ASSUME Core, NEW p \in Proc, TEnd(p)
  PROVE  Calm
<1>0. Types /\ JobInv  BY DEF Core
<1>1. CASE Quiet(p)  BY <1>1 DEF Quiet, Calm, CalmAt, Buffer
<1>2. CASE Valid(p)
  <2>1. Buffer' = Buffer /\ curr_tn' = curr_tn /\ \A c \in Buffer : SameId(c) /\ cr'[c].in_tend = cr[c].in_tend
    BY <1>0, <1>2, ValidIs
  <2> QED  BY <2>1 DEF Calm, CalmAt, SameId
<1> QED  BY <1>0, <1>1, <1>2, QuietTEnd

LEMMA CalmCommit ==
  ASSUME Core, NEW p \in Proc, Commit(p)
  PROVE  Calm \/ pc[p] \in InCommit
<1>0. Types /\ JobInv /\ PinInv /\ Types'  BY CoreCommit DEF Core
<1>1. CASE Quiet(p)  BY <1>1 DEF Quiet, Calm, CalmAt, Buffer
<1>b. PICK b, c : b = Cse(p) /\ c = CseCr(p)  OBVIOUS
<1>2. CASE Phase1(p) \/ Phase1Wait(p) \/ IncrementTn(p)  BY <1>2 DEF Phase1, Phase1Wait, IncrementTn, InCommit
<1>3. CASE BuildStart(p)
  <2>1. c \in Buffer /\ Only(c) /\ SameId(c) /\ SameLock(c) /\ curr_tn' = curr_tn
    BY <1>0, <1>b, <1>3, BuildStartIs DEF Turn
  <2> QED  BY <2>1, CalmOne DEF SameLock
<1>4. CASE BuildEnd(p)
  <2>1. c \in Buffer /\ Only(c) /\ SameId(c) /\ SameLock(c) /\ curr_tn' = curr_tn
    BY <1>0, <1>b, <1>4, BuildEndIs DEF Turn
  <2> QED  BY <2>1, CalmOne DEF SameLock
<1>5. CASE Release(p)
  <2>1. c \in Buffer /\ Only(c) /\ SameId(c) /\ SameLock(c) /\ curr_tn' = curr_tn
    BY <1>0, <1>b, <1>5, ReleaseIs DEF Turn
  <2> QED  BY <2>1, CalmOne DEF SameLock
<1>6. CASE ResetInTend(p)
  <2>1. c \in Buffer /\ Only(c) /\ SameId(c) /\ cr'[c].in_tend = NoProc /\ curr_tn' = curr_tn
    BY <1>0, <1>b, <1>6, ResetIs DEF Turn
  <2> QED  BY <2>1, CalmOne
<1> QED  BY <1>0, <1>1, <1>2, <1>3, <1>4, <1>5, <1>6, QuietCommit DEF BufStep

LEMMA CalmRest ==
  ASSUME Core, (\E w \in Writer : WtStep(w)) \/ JnlQio \/ UNCHANGED vars
  PROVE  Calm
<1>0. Types  BY DEF Core
<1>1. CASE JnlQio  BY <1>1 DEF JnlQio, tnvars, Calm, CalmAt, Buffer
<1>2. CASE UNCHANGED vars  BY <1>2 DEF vars, Calm, CalmAt, Buffer
<1>3. ASSUME NEW w \in Writer, WtStep(w)  PROVE Calm
  <2>0. PICK d : d = wtr[w].cr  OBVIOUS
  <2>1. curr_tn' = curr_tn  BY <1>3, WtrFrameIs DEF WtrFrame
  <2>2. ASSUME NEW c \in Buffer, WtStart(w, c)  PROVE Calm
    <3>1. Only(c) /\ SameId(c) /\ SameLock(c)  BY <1>0, <2>2, WtStartIs
    <3> QED  BY <2>1, <3>1, CalmOne DEF SameLock
  <2>3. CASE WtLock(w)
    <3>1. d \in Buffer /\ Only(d) /\ SameId(d) /\ SameLock(d)  BY <1>0, <2>0, <2>3, WtLockIs
    <3> QED  BY <2>1, <3>1, CalmOne DEF SameLock
  <2>4. CASE WtWrite(w)
    <3>1. d \in Buffer /\ Only(d) /\ SameId(d) /\ SameLock(d)  BY <1>0, <2>0, <2>4, WtWriteIs
    <3> QED  BY <2>1, <3>1, CalmOne DEF SameLock
  <2>5. CASE WtRelease(w)
    <3>1. d \in Buffer /\ Only(d) /\ SameId(d) /\ SameLock(d)  BY <1>0, <2>0, <2>5, WtReleaseIs
    <3> QED  BY <2>1, <3>1, CalmOne DEF SameLock
  <2> QED  BY <1>3, <2>2, <2>3, <2>4, <2>5 DEF WtStep
<1> QED  BY <1>1, <1>2, <1>3

LEMMA HeldKeep ==
  ASSUME NEW p, NEW b, NEW c, Held(p, b, c), CalmAt(c), curr_tn' = curr_tn,
         hist'[p][b].cycle = hist[p][b].cycle, hist'[p][b].tn = hist[p][b].tn,
         b \in LookSet(p)' => b \in LookSet(p),
         pc'[p] \in Getting /\ Blk(p)' = b => Blk(p) = b /\ pc'[p] = pc[p]
  PROVE  Held(p, b, c)'
BY DEF Held, CalmAt, Getting

(* The process in its final retry has crit, and the others do not take it. *)
LEMMA FinalStep ==
  ASSUME Core, FinalInv, NEW p, Others(p), Calm \/ (p \in Proc /\ crit = p), Buffer' = Buffer, p \in Proc => FinalFor(p)'
  PROVE  FinalInv'
<1> SUFFICES ASSUME NEW q \in Proc, q # p  PROVE FinalFor(q)'  BY DEF FinalInv
<1>0. q \in Proc \ {p}  OBVIOUS
<1>a. pc'[q] = pc[q] /\ hist'[q] = hist[q] /\ tries'[q] = tries[q]  BY <1>0 DEF Others
<1>b. LookSet(q)' = LookSet(q) /\ Blk(q)' = Blk(q)  BY <1>0, OtherSets
<1>1. /\ (Final(q)' <=> Final(q)) /\ pc'[q] = pc[q] /\ hist'[q] = hist[q] /\ LookSet(q)' = LookSet(q) /\ Blk(q)' = Blk(q)
  BY <1>a, <1>b DEF Final
<1>2. FinalFor(q)  BY DEF FinalInv
<1>3. SUFFICES ASSUME Final(q), pc[q] \in Reading \cup AtEnd \cup {"retry"}, NEW b \in Block, NEW c \in Buffer, hist[q][b].cr = c
               PROVE  pc[q] # "retry" /\ pc[q] # "clue" /\ Held(q, b, c)'
  <2> QED  BY <1>1, <1>2 DEF FinalFor
<1>4. pc[q] # "retry" /\ pc[q] # "clue" /\ Held(q, b, c)  BY <1>2, <1>3 DEF FinalFor
<1>5. crit = q  BY <1>3, <1>4 DEF Core, CritInv, CritFor
<1>6. Calm  BY <1>5
<1>7. CalmAt(c) /\ curr_tn' = curr_tn  BY <1>6 DEF Calm
<1>8. Held(q, b, c)'  BY <1>1, <1>4, <1>7, HeldKeep
<1> QED  BY <1>4, <1>8

(* The other blocks of the history of a search step *)
LEMMA FinalRest ==
  ASSUME Core, Calm, NEW p \in Proc, Search(p), pc[p] # "idle", NEW b \in Block, b # Blk(p), NEW c \in Buffer,
         pc[p] # "clue", Held(p, b, c)
  PROVE  Held(p, b, c)' /\ hist'[p][b] = hist[p][b]
<1>1. /\ hist'[p][b] = hist[p][b] /\ pc[p] \in Reading /\ pc'[p] \in Reading \cup {"ro", "grab"} /\ curr_tn' = curr_tn
      /\ pc'[p] \in Getting => Blk(p)' = Blk(p) /\ LookSet(p)' = LookSet(p)
      /\ pc'[p] \in {"clue", "note", "look", "ro", "grab"} /\ pc[p] \notin Getting => LookSet(p)' \subseteq LookSet(p)
      /\ pc[p] \in Getting /\ pc'[p] \notin Getting => LookSet(p)' = LookSet(p) \cup {Blk(p)}
  BY SearchTn
<1>2. b \in LookSet(p)' => b \in LookSet(p)
  <2>1. CASE pc'[p] \in Getting  BY <1>1, <2>1
  <2>2. CASE pc'[p] \notin Getting /\ pc[p] \in Getting  BY <1>1, <2>2
  <2>3. CASE pc'[p] \notin Getting /\ pc[p] \notin Getting
    <3>1. pc'[p] \in {"clue", "note", "look", "ro", "grab"}  BY <1>1, <2>3 DEF Getting, Reading
    <3> QED  BY <1>1, <2>3, <3>1
  <2> QED  BY <2>1, <2>2, <2>3
<1>3. CalmAt(c)  BY DEF Calm
<1> QED  BY <1>1, <1>2, <1>3, HeldKeep

(* The entry of the block the search is at *)
LEMMA FinalHere ==
  ASSUME Core, Calm, NEW p \in Proc, Search(p), pc[p] # "idle", pc[p] # "clue", NEW e \in Block, e = Blk(p), NEW c \in Buffer,
         Final(p), FinalFor(p), hist'[p][e].cr = c
  PROVE  Held(p, e, c)'
<1> USE DEF jnlvars, dskvars, tnvars, txnvars, cmtvars
<1>a. /\ pc \in [Proc -> PC] /\ lvl \in [Proc -> Nat] /\ hist \in [Proc -> [Block -> HistRec]] /\ Types /\ JobInv
      /\ Types' /\ Moves /\ Others(p)
  BY CoreSearch DEF Core, Types, ProcTypes, HistTypes
<1>1. /\ pc[p] \in Reading /\ pc'[p] \in Reading \cup {"ro", "grab"} /\ curr_tn' = curr_tn /\ todo' = todo
      /\ hist'[p][e].tn = (IF pc[p] = "note" THEN curr_tn ELSE hist[p][e].tn)
      /\ pc'[p] \in Getting => /\ pc[p] \in Getting \cup {"note"} /\ Blk(p)' = Blk(p)
                               /\ LookSet(p)' = LookSet(p) /\ LookSet(p) = Prefix(p)
      /\ pc'[p] \in {"clue", "note", "look", "ro", "grab"} /\ pc[p] \notin Getting => LookSet(p)' \subseteq LookSet(p)
      /\ pc[p] \in Getting /\ pc'[p] \notin Getting =>
           pc'[p] = "look" /\ hist' = hist /\ LookSet(p)' = LookSet(p) \cup {e}
  BY SearchTn
<1>2. PICK h \in HistRec : h = hist[p][e] /\ Hist(p) = h  BY <1>a, <1>1, JobFacts DEF Reading, Hist
<1>3. PICK d \in Buffer : d = h.cr  BY <1>2, HistFields
<1>4. Held(p, e, d)  BY <1>1, <1>2, <1>3 DEF FinalFor
<1>5. CalmAt(d) /\ CalmAt(c)  BY DEF Calm
<1>6. e \notin Prefix(p)  BY <1>a, <1>1, SeenLook DEF Reading
<1>7. hist'[p][e].tn = curr_tn /\ (pc[p] # "note" => h.tn = curr_tn)
  <2>1. CASE pc[p] = "note"  BY <1>1, <2>1
  <2>2. CASE pc[p] \in Getting
    <3>1. h.tn = curr_tn  BY <1>2, <1>4, <2>2 DEF Held
    <3> QED  BY <1>1, <1>2, <2>2, <3>1 DEF Getting
  <2>3. CASE pc[p] = "look"
    <3>1. e \in LookSet(p)  BY <2>3 DEF LookSet, AtEnd, InCommit, Phase2
    <3>2. h.tn = curr_tn  BY <1>2, <1>4, <3>1 DEF Held
    <3> QED  BY <1>1, <1>2, <2>3, <3>2
  <2> QED  BY <1>1, <2>1, <2>2, <2>3 DEF Reading, Getting
<1>8. CASE Look(p)
  <2>1. pc[p] = "look" /\ cr' = cr /\ pc'[p] \in {"note", "ro", "grab"}  BY <1>8, <1>a DEF Look, Go
  <2>2. PICK v : SetHist(p, [h EXCEPT !.ver = v])  BY <1>8, <1>2 DEF Look
  <2>3. hist'[p][e] = [h EXCEPT !.ver = v]  BY <1>a, <2>1, <2>2, SetHistIs
  <2>4. hist'[p][e].cr = h.cr /\ hist'[p][e].cycle = h.cycle /\ hist'[p][e].tn = h.tn  BY <2>3 DEF HistRec
  <2>5. c = d /\ e \in LookSet(p)  BY <1>3, <2>1, <2>4 DEF LookSet, AtEnd, InCommit, Phase2
  <2>6. pc'[p] \notin Getting  BY <2>1 DEF Getting
  <2> QED  BY <1>1, <1>2, <1>4, <1>5, <2>4, <2>5, <2>6, HeldKeep
<1>9. CASE pc'[p] \in {"find", "miss", "getn", "read"}
  <2>1. e \notin LookSet(p)'  BY <1>1, <1>6, <1>9 DEF Getting
  <2> QED  BY <1>1, <1>7, <1>9, <2>1 DEF Held
<1>10. CASE pc'[p] \in {"cycle", "wait", "intend"}
  <2>1. e \notin LookSet(p)'  BY <1>1, <1>6, <1>10 DEF Getting
  <2> SUFFICES cr'[c].blk = e /\ (pc'[p] \in {"wait", "intend"} => hist'[p][e].cycle = cr'[c].cycle)
    BY <1>1, <1>7, <1>10, <2>1 DEF Held
  <2>2. CASE pc'[p] = "cycle"
    <3>1. Find(p) \/ GetBuffer(p)
      BY <2>2, <1>a DEF Search, Go, Begin, CheckClue, NoteTn, Find, Miss, GetBuffer, DskRead, NoteCycle, WaitRead, WaitInTend, Look
    <3>2. CrOf(e) # {} /\ SetHist(p, [h EXCEPT !.cr = The(CrOf(e))])
      <4>1. CASE Find(p)  BY <2>2, <4>1, <1>a, <1>2 DEF Find, Go
      <4>2. CASE GetBuffer(p)  BY <2>2, <4>2, <1>a, <1>2 DEF GetBuffer, Go
      <4> QED  BY <3>1, <4>1, <4>2
    <3>3. pc[p] \notin {"idle", "gone"}  BY <1>1 DEF Reading
    <3>4. PICK x : x = The(CrOf(e))  OBVIOUS
    <3>5. x \in CrOf(e)  BY <3>2, <3>4, TheIs
    <3>6. hist'[p][e] = [h EXCEPT !.cr = x]  BY <1>a, <3>2, <3>3, <3>4, SetHistIs
    <3>7. hist'[p][e].cr = x  BY <3>6 DEF HistRec
    <3>8. cr[c].blk = e  BY <3>5, <3>7 DEF CrOf
    <3> QED  BY <1>5, <2>2, <3>8 DEF CalmAt
  <2>3. CASE pc'[p] = "wait"
    <3>1. NoteCycle(p)
      BY <2>3, <1>a DEF Search, Go, Begin, CheckClue, NoteTn, Find, Miss, GetBuffer, DskRead, NoteCycle, WaitRead, WaitInTend, Look
    <3>2. pc[p] = "cycle" /\ cr' = cr /\ SetHist(p, [h EXCEPT !.cycle = cr[d].cycle])  BY <3>1, <1>2, <1>3 DEF NoteCycle
    <3>3. hist'[p][e] = [h EXCEPT !.cycle = cr[d].cycle]  BY <1>a, <3>2, SetHistIs
    <3>4. hist'[p][e].cr = d /\ hist'[p][e].cycle = cr[d].cycle  BY <1>3, <3>3 DEF HistRec
    <3>5. cr[d].blk = e  BY <1>4, <3>2 DEF Held
    <3> QED  BY <3>2, <3>4, <3>5
  <2>4. CASE pc'[p] = "intend"
    <3>1. WaitRead(p)
      BY <2>4, <1>a DEF Search, Go, Begin, CheckClue, NoteTn, Find, Miss, GetBuffer, DskRead, NoteCycle, WaitRead, WaitInTend, Look
    <3>2. pc[p] = "wait" /\ cr' = cr /\ hist' = hist  BY <3>1 DEF WaitRead
    <3>3. cr[d].blk = e /\ h.cycle = cr[d].cycle  BY <1>2, <1>4, <3>2 DEF Held
    <3> QED  BY <1>2, <1>3, <3>2, <3>3
  <2> QED  BY <1>10, <2>2, <2>3, <2>4
<1>11. CASE pc'[p] = "look"
  <2>0. DskRead(p) \/ WaitRead(p) \/ WaitInTend(p)
    BY <1>11, <1>a DEF Search, Go, Begin, CheckClue, NoteTn, Find, Miss, GetBuffer, DskRead, NoteCycle, WaitRead, WaitInTend, Look
  <2>1. pc[p] \in Getting /\ hist' = hist  BY <2>0 DEF DskRead, WaitRead, WaitInTend, Getting
  <2>2. c = d  BY <1>2, <1>3, <2>1
  <2> SUFFICES h.cycle = cr'[d].cycle /\ cr'[d].in_tend = NoProc
    BY <1>1, <1>2, <1>7, <1>11, <2>1, <2>2 DEF Held, Getting
  <2>3. CASE DskRead(p)
    <3>1. cr'[d].in_tend = cr[d].in_tend /\ pc[p] = "read"  BY <1>a, <1>2, <1>3, <2>3, DskReadIs DEF SameLock
    <3>2. cr[d].rip = p /\ h.cycle = cr[d].cycle /\ cr[d].blk = e  BY <3>1, <1>2, <1>3 DEF Core, ReadInv
    <3>3. \A q \in Proc : cr[d].in_tend # q
      <4> TAKE q \in Proc
      <4> SUFFICES ASSUME cr[d].in_tend = q  PROVE FALSE  OBVIOUS
      <4>1. e \in Pinned(q)  BY <1>a, <3>2, TendingPinned DEF Core, PinInv
      <4>2. PICK x \in Buffer : x = hist[q][e].cr
        <5>1. hist[q][e] \in HistRec  BY <1>a
        <5> QED  BY <5>1, HistFields
      <4>3. cr[x].blk = e /\ cr[x].rip = NoProc  BY <4>1, <4>2 DEF Core, PinInv
      <4>4. x = d  BY <3>2, <4>3, BlockNat DEF Core, PinInv
      <4> QED  BY <3>2, <4>3, <4>4, BlockNat
    <3>4. cr[d].in_tend = NoProc  BY <1>a, <3>3, CrFields
    <3> QED  BY <1>5, <3>1, <3>2, <3>4 DEF CalmAt
  <2>4. CASE WaitRead(p)
    <3>1. pc[p] = "wait" /\ cr' = cr  BY <2>4 DEF WaitRead
    <3>2. cr[d].blk = e /\ h.cycle = cr[d].cycle  BY <1>2, <1>4, <3>1 DEF Held
    <3>3. cr[d].in_tend = NoProc  BY <1>11, <1>a, <1>2, <1>3, <2>4, <3>2 DEF WaitRead, Go
    <3> QED  BY <3>1, <3>2, <3>3
  <2>5. CASE WaitInTend(p)
    <3>1. pc[p] = "intend" /\ cr' = cr /\ cr[d].in_tend = NoProc  BY <1>2, <1>3, <2>5 DEF WaitInTend
    <3>2. h.cycle = cr[d].cycle  BY <1>2, <1>4, <3>1 DEF Held
    <3> QED  BY <3>1, <3>2
  <2> QED  BY <2>0, <2>3, <2>4, <2>5
<1>12. pc[p] # "look" => pc'[p] \in Getting \cup {"look"}
  BY <1>a, <1>1 DEF Search, Go, Begin, CheckClue, NoteTn, Find, Miss, GetBuffer, DskRead, NoteCycle, WaitRead, WaitInTend, Look, Getting
<1>13. pc[p] = "look" => Look(p)
  BY DEF Search, Begin, CheckClue, NoteTn, Find, Miss, GetBuffer, DskRead, NoteCycle, WaitRead, WaitInTend, Look
<1> QED  BY <1>8, <1>9, <1>10, <1>11, <1>12, <1>13 DEF Getting

LEMMA FinalSearch ==
  ASSUME Core, FinalInv, NEW p \in Proc, Search(p)
  PROVE  FinalInv'
<1> USE DEF jnlvars, dskvars, tnvars, txnvars, cmtvars
<1>a. /\ Types /\ JobInv /\ Types' /\ Moves /\ Others(p) /\ hist \in [Proc -> [Block -> HistRec]]
  BY CoreSearch DEF Core, Types, HistTypes
<1>b. Buffer' = Buffer  BY <1>a DEF Moves
<1>c. FinalFor(p)  BY DEF FinalInv
<1>1. FinalFor(p)'
  <2>1. CASE pc[p] = "idle"
    <3>1. Begin(p)
      BY <2>1 DEF Search, CheckClue, NoteTn, Find, Miss, GetBuffer, DskRead, NoteCycle, WaitRead, WaitInTend, Look
    <3>2. tries'[p] = 0  BY <3>1, <1>a DEF Begin, Types, ProcTypes
    <3>3. ~Final(p)'  BY <3>2, DatabaseAssumption DEF Final
    <3> QED  BY <3>3 DEF FinalFor
  <2>2. CASE pc[p] # "idle"
    <3>1. /\ pc[p] \in Reading /\ pc'[p] \in Reading \cup {"ro", "grab"} /\ curr_tn' = curr_tn /\ tries' = tries
          /\ \A b \in Block : b # Blk(p) => hist'[p][b] = hist[p][b]
          /\ hist'[p][Blk(p)].tn = (IF pc[p] = "note" THEN curr_tn ELSE hist[p][Blk(p)].tn)
      BY <2>2, SearchTn
    <3>2. SUFFICES ASSUME Final(p), pc'[p] \in Reading \cup AtEnd \cup {"retry"}
                   PROVE  /\ pc'[p] # "retry" /\ pc'[p] # "clue"
                          /\ \A b \in Block, c \in Buffer : hist'[p][b].cr = c => Held(p, b, c)'
      <4>1. Final(p)' <=> Final(p)  BY <3>1 DEF Final
      <4> QED  BY <1>b, <4>1 DEF FinalFor
    <3>3. pc[p] # "clue" /\ \A b \in Block, c \in Buffer : hist[p][b].cr = c => Held(p, b, c)
      BY <1>c, <3>1, <3>2 DEF FinalFor
    <3>4. pc'[p] # "retry"  BY <3>1 DEF Reading
    <3>5. pc'[p] # "clue"
      BY <1>a, <2>2, <3>3 DEF Search, Go, Begin, CheckClue, NoteTn, Find, Miss, GetBuffer, DskRead, NoteCycle, WaitRead, WaitInTend,
         Look, Types, ProcTypes
    <3>6. PICK e \in Block : e = Blk(p)  BY <1>a, <3>1, JobFacts DEF Reading
    <3> SUFFICES ASSUME NEW b \in Block, NEW c \in Buffer, hist'[p][b].cr = c
                 PROVE  Held(p, b, c)'
      BY <3>4, <3>5
    <3>7. CASE Calm
      <4>1. CASE b = e  BY <1>c, <2>2, <3>2, <3>3, <3>6, <3>7, <4>1, FinalHere
      <4>2. CASE b # e
        <5>1. hist'[p][b] = hist[p][b]  BY <3>1, <3>6, <4>2
        <5>2. Held(p, b, c)  BY <3>3, <5>1
        <5> QED  BY <2>2, <3>3, <3>6, <3>7, <4>2, <5>2, FinalRest
      <4> QED  BY <4>1, <4>2
    <3>8. CASE NewBuffer(p)
      <4>1. pc[p] = "getn" /\ pc'[p] = "read" /\ Blk(p)' = e /\ lvl'[p] = lvl[p] /\ todo'[p] = todo[p]
        BY <1>a, <3>6, <3>8, NewBufferIs
      <4>2. PICK d \in Reusable(p) : d \in Buffer /\ Only(d)  BY <1>a, <3>8, NewBufferIs
      <4>3. Path(p)' = Path(p)  BY <4>1 DEF Path
      <4>4. Prefix(p)' = Prefix(p)  BY <4>1, <4>3 DEF Prefix
      <4>5. LookSet(p) = Prefix(p) /\ LookSet(p)' = Prefix(p)
        BY <4>1, <4>4 DEF LookSet, Reading, AtEnd, InCommit, Phase2
      <4>6. e \notin Prefix(p)  BY <1>a, <3>6, <4>1, SeenLook
      <4>7. CASE b = e
        <5>1. hist[p][e].tn = curr_tn
          <6>1. PICK x \in Buffer : x = hist[p][e].cr
            <7>1. hist[p][e] \in HistRec  BY <1>a
            <7> QED  BY <7>1, HistFields
          <6>2. Held(p, e, x)  BY <3>3, <6>1
          <6> QED  BY <3>6, <4>1, <6>2 DEF Held, Getting
        <5>2. hist'[p][e].tn = curr_tn  BY <3>1, <3>6, <4>1, <5>1
        <5> QED  BY <3>1, <4>1, <4>5, <4>6, <4>7, <5>2 DEF Held
      <4>8. CASE b # e
        <5>1. hist'[p][b] = hist[p][b]  BY <3>1, <3>6, <4>8
        <5>2. Held(p, b, c)  BY <3>3, <5>1
        <5>3. b \in LookSet(p)' => c # d
          <6> SUFFICES ASSUME b \in Prefix(p), c = d  PROVE FALSE  BY <4>5
          <6>1. hist[p][b].cycle = cr[c].cycle  BY <4>5, <5>2 DEF Held
          <6>2. Found(p, b, c)  BY <4>5, <5>1 DEF Core, HistInv, HistFor
          <6>3. cr[c].blk = b  BY <6>1, <6>2 DEF Found
          <6>4. cr[d].blk \notin Prefix(p)  BY <3>2, <4>2 DEF Reusable, Prefix
          <6> QED  BY <6>3, <6>4
        <5>4. b \in LookSet(p)' => CalmAt(c)  BY <4>2, <5>3 DEF Only, CalmAt
        <5>5. b \in LookSet(p)' => Held(p, b, c)'  BY <3>1, <4>1, <4>5, <4>8, <5>1, <5>2, <5>4, HeldKeep
        <5>6. b \notin LookSet(p)' => Held(p, b, c)'  BY <4>1, <4>8 DEF Held
        <5> QED  BY <5>5, <5>6
      <4> QED  BY <4>7, <4>8
    <3> QED  BY <3>7, <3>8, CalmSearch
  <2> QED  BY <2>1, <2>2
<1>2. Calm \/ crit = p
  <2>1. NewBuffer(p) => pc[p] = "getn"  BY <1>a, NewBufferIs
  <2>2. pc[p] = "getn" => crit = p  BY DEF Core, CritInv, CritFor
  <2> QED  BY <2>1, <2>2, CalmSearch
<1> QED  BY <1>a, <1>b, <1>1, <1>2, FinalStep

LEMMA FinalOut ==
  ASSUME NEW p \in Proc, pc'[p] \notin Reading \cup AtEnd \cup {"retry"}
  PROVE  FinalFor(p)'
BY DEF FinalFor

(* Nothing of the history is lost *)
LEMMA FinalStay ==
  ASSUME Core, Calm, NEW p \in Proc, FinalFor(p), pc[p] \in AtEnd, pc'[p] \in AtEnd, hist'[p] = hist[p], todo'[p] = todo[p],
         tries'[p] = tries[p]
  PROVE  FinalFor(p)'
<1>1. Path(p)' = Path(p)  BY DEF Path
<1>2. LookSet(p) = ToSet(Path(p)) /\ LookSet(p)' = ToSet(Path(p))  BY <1>1 DEF LookSet, AtEnd
<1>3. pc'[p] \notin Getting /\ pc'[p] # "retry" /\ pc'[p] # "clue"  BY DEF Getting, AtEnd
<1>4. Buffer' = Buffer /\ curr_tn' = curr_tn  BY DEF Calm
<1>5. Final(p)' <=> Final(p)  BY DEF Final
<1> SUFFICES ASSUME Final(p), NEW b \in Block, NEW c \in Buffer, hist[p][b].cr = c  PROVE Held(p, b, c)'
  BY <1>3, <1>4, <1>5 DEF FinalFor
<1>6. Held(p, b, c)  BY DEF FinalFor
<1>7. CalmAt(c)  BY DEF Calm
<1> QED  BY <1>2, <1>3, <1>4, <1>6, <1>7, HeldKeep

(* What the final retry has found is valid *)
LEMMA FinalValid ==
  ASSUME Core, NEW p \in Proc, Final(p), FinalFor(p), pc[p] \in AtEnd, NEW b \in ToSet(Path(p))
  PROVE  LET h == hist[p][b] IN ~BLKMOD(h) /\ ~LostCr(h) /\ (pc[p] = "valid" => StillValid(b, h))
<1>a. Types /\ JobInv  BY DEF Core
<1>0. b \in Block /\ b \in LookSet(p)  BY <1>a, JobFacts DEF LookSet, AtEnd
<1>1. PICK h \in HistRec : h = hist[p][b]  BY <1>0, <1>a DEF Types, HistTypes
<1>2. PICK c \in Buffer : c = h.cr  BY <1>1, HistFields
<1>3. Held(p, b, c)  BY <1>0, <1>1, <1>2 DEF FinalFor, AtEnd
<1>4. h.cycle = cr[c].cycle /\ h.tn = curr_tn /\ cr[c].in_tend = NoProc  BY <1>0, <1>1, <1>3 DEF Held
<1>5. Found(p, b, c)  BY <1>0, <1>1, <1>2 DEF Core, HistInv, HistFor
<1>6. cr[c].blk = b /\ cr[c].rip = NoProc  BY <1>1, <1>4, <1>5 DEF Found
<1>7. PICK n \in Nat : n = curr_tn /\ n > 0  BY <1>a DEF Types, FileTypes
<1>8. Settled(c)  BY <1>4, BlockNat DEF Settled
<1>9. cr[c].data = Ver(b)  BY <1>0, <1>6, <1>8 DEF Core, DataInv, DataFor
<1>10. PICK m \in Nat : m = cr[c].data.tn /\ m < n  BY <1>a, <1>7, <1>9, VersionIs DEF Ver
<1>11. ~BLKMOD(h)  BY <1>2, <1>4, <1>7, <1>10 DEF BLKMOD
<1>12. ~LostCr(h)  BY <1>2, <1>4 DEF LostCr
<1>13. ASSUME pc[p] = "valid"  PROVE StillValid(b, h)
  <2>1. crit = p  BY <1>13 DEF Core, CritInv, CritFor
  <2>2. \A q \in Proc : pc[q] \notin Early
    <3> SUFFICES ASSUME NEW q \in Proc, pc[q] \in Early  PROVE FALSE  OBVIOUS
    <3>1. crit = q  BY DEF Core, CritInv, CritFor, InCommit, Early
    <3> QED  BY <1>13, <2>1, <3>1 DEF Early
  <2>3. \A i \in 1 .. Len(bt) : bt[i].tn \in Nat /\ bt[i].tn < n
    <3> TAKE i \in 1 .. Len(bt)
    <3>1. PICK k : k = bt[i].tn  OBVIOUS
    <3>2. k \in Nat
      <4>1. bt \in Seq(BtRec)  BY <1>a DEF Types, BufTypes, BtRec
      <4>2. bt[i] \in BtRec  BY <4>1
      <4> QED  BY <3>1, <4>2 DEF BtRec
    <3>3. k <= n /\ k # n  BY <1>7, <2>2, <3>1 DEF Core, BtInv
    <3> QED  BY <3>1, <3>2, <3>3
  <2>4. 1 \in 1 .. Len(bt) /\ Head(bt) = bt[1]
    <3>1. bt \in Seq([blk : Block \cup {NoBlock}, tn : Nat]) /\ bt # << >>  BY <1>a DEF Types, BufTypes
    <3> QED  BY <3>1
  <2>5. OLDEST_HIST_TN \in Nat /\ h.tn > OLDEST_HIST_TN  BY <1>4, <1>7, <2>3, <2>4 DEF OLDEST_HIST_TN
  <2>6. \A i \in BtOf(b) : h.tn > bt[i].tn  BY <1>4, <1>7, <2>3 DEF BtOf
  <2>7. h.cr \in CrOf(b)  BY <1>2, <1>6 DEF CrOf
  <2> QED  BY <1>2, <1>4, <2>5, <2>6, <2>7 DEF StillValid
<1> QED  BY <1>1, <1>11, <1>12, <1>13

LEMMA FinalTEnd ==
  ASSUME Core, FinalInv, NEW p \in Proc, TEnd(p)
  PROVE  FinalInv'
<1> USE DEF jnlvars, dskvars, tnvars, txnvars, cmtvars
<1>a. /\ Types /\ JobInv /\ Types' /\ Moves /\ Others(p) /\ Calm
  BY CoreTEnd, CalmTEnd DEF Core
<1>b. Buffer' = Buffer  BY <1>a DEF Moves
<1>c. FinalFor(p) /\ pc \in [Proc -> PC] /\ lvl \in [Proc -> Nat]  BY <1>a DEF FinalInv, Types, ProcTypes
<1>d. pc[p] \notin {"idle", "gone"} => Blk(p) \in ToSet(Path(p)) /\ Hist(p) = hist[p][Blk(p)]
  BY <1>a, SeenLook DEF Hist
<1>1. FinalFor(p)'
  <2>1. CASE ReadOnlyEnd(p)
    <3>1. pc[p] = "ro" /\ pc'[p] \in {"rocyc", "romod"} /\ hist' = hist /\ todo' = todo /\ tries' = tries
      BY <2>1, <1>c DEF ReadOnlyEnd, Go
    <3> QED  BY <1>a, <1>c, <3>1, FinalStay DEF AtEnd
  <2>2. CASE CheckTn(p)
    <3>1. pc[p] = "romod" /\ hist' = hist /\ todo' = todo /\ tries' = tries  BY <2>2, <1>c DEF CheckTn, Go
    <3>2. CASE Final(p)
      <4>1. ~BLKMOD(Hist(p))  BY <1>c, <1>d, <3>1, <3>2, FinalValid DEF AtEnd
      <4>2. pc'[p] = "rocyc"  BY <2>2, <1>c, <4>1 DEF CheckTn, Go
      <4> QED  BY <1>a, <1>c, <3>1, <4>2, FinalStay DEF AtEnd
    <3>3. CASE ~Final(p)
      <4>1. ~Final(p)'  BY <3>1, <3>3 DEF Final
      <4> QED  BY <4>1 DEF FinalFor
    <3> QED  BY <3>2, <3>3
  <2>3. CASE CheckCycle(p)
    <3>1. pc[p] = "rocyc" /\ hist' = hist /\ todo' = todo /\ tries' = tries  BY <2>3, <1>c DEF CheckCycle, Go
    <3>2. CASE Final(p)
      <4>1. ~LostCr(Hist(p))  BY <1>c, <1>d, <3>1, <3>2, FinalValid DEF AtEnd
      <4>2. pc'[p] \in {"rocyc", "romod", "rodone"}  BY <2>3, <1>c, <4>1 DEF CheckCycle, Go
      <4> QED  BY <1>a, <1>c, <3>1, <4>2, FinalStay DEF AtEnd
    <3>3. CASE ~Final(p)
      <4>1. ~Final(p)'  BY <3>1, <3>3 DEF Final
      <4> QED  BY <4>1 DEF FinalFor
    <3> QED  BY <3>2, <3>3
  <2>4. CASE ReadOnlyDone(p)
    <3>1. pc'[p] = "idle"  BY <2>4, <1>c DEF ReadOnlyDone, Go
    <3> QED  BY <3>1, FinalOut DEF Reading, AtEnd
  <2>5. CASE Retry(p)
    <3>1. pc'[p] = "note" /\ lvl'[p] = 1  BY <2>5, <1>c DEF Retry, Go
    <3>2. Prefix(p)' = {}  BY <3>1 DEF Prefix
    <3>3. LookSet(p)' = {}  BY <3>1, <3>2 DEF LookSet, Reading, AtEnd, InCommit, Phase2
    <3>4. \A b \in Block, c \in Buffer : Held(p, b, c)'  BY <3>1, <3>3 DEF Held, Getting
    <3> QED  BY <1>b, <3>1, <3>4 DEF FinalFor
  <2>6. CASE GrabCrit(p)
    <3>1. pc[p] = "grab" /\ pc'[p] = "valid" /\ hist' = hist /\ todo' = todo /\ tries' = tries
      BY <2>6, <1>c DEF GrabCrit, Go
    <3> QED  BY <1>a, <1>c, <3>1, FinalStay DEF AtEnd
  <2>7. CASE Validate(p)
    <3>1. pc[p] = "valid" /\ tries' = tries  BY <2>7 DEF Validate
    <3>2. CASE Final(p)
      <4>1. \A b \in ToSet(Path(p)) : StillValid(b, hist[p][b])  BY <1>c, <3>1, <3>2, FinalValid DEF AtEnd
      <4>2. pc'[p] = "commit"  BY <2>7, <1>c, <4>1 DEF Validate, Go
      <4> QED  BY <4>2, FinalOut DEF Reading, AtEnd
    <3>3. CASE ~Final(p)
      <4>1. ~Final(p)'  BY <3>1, <3>3 DEF Final
      <4> QED  BY <4>1 DEF FinalFor
    <3> QED  BY <3>2, <3>3
  <2> QED  BY <2>1, <2>2, <2>3, <2>4, <2>5, <2>6, <2>7 DEF TEnd
<1> QED  BY <1>a, <1>b, <1>1, FinalStep

LEMMA FinalCommit ==
  ASSUME Core, FinalInv, NEW p \in Proc, Commit(p)
  PROVE  FinalInv'
<1>a. /\ Types /\ JobInv /\ Types' /\ Moves /\ Others(p)  BY CoreCommit DEF Core
<1>b. Buffer' = Buffer  BY <1>a DEF Moves
<1>1. pc'[p] \in InCommit \cup Phase2 \cup {"idle", "gone"}
  <2>0. pc \in [Proc -> PC]  BY <1>a DEF Types, ProcTypes
  <2> QED  BY <2>0 DEF Commit, CheckEpoch, FlushJnl, WriteEpoch, Reserve, Phase1, Phase1Wait, IncrementTn, WriteJnl,
             BuildStart, BuildEnd, Release, ResetInTend, Halt, NextCse, Go, InCommit, Phase2
<1>2. FinalFor(p)'  BY <1>1, FinalOut DEF InCommit, Phase2, Reading, AtEnd
<1>3. Calm \/ crit = p
  <2>1. pc[p] \in InCommit => crit = p  BY DEF Core, CritInv, CritFor
  <2> QED  BY <2>1, CalmCommit
<1> QED  BY <1>a, <1>b, <1>2, <1>3, FinalStep

LEMMA FinalRestStep ==
  ASSUME Core, FinalInv, (\E w \in Writer : WtStep(w)) \/ JnlQio \/ UNCHANGED vars
  PROVE  FinalInv'
<1> HIDE DEF NoProc
<1>1. Others(NoProc) /\ Moves  BY CoreWriter, CoreRest
<1>2. NoProc \notin Proc /\ Calm /\ Buffer' = Buffer  BY <1>1, BlockNat, CalmRest DEF Moves
<1> QED  BY <1>1, <1>2, FinalStep

-----------------------------------------------------------------------------
(* The inductive invariant of the transactions *)

DbInv == Core /\ CommitInv /\ StartInv /\ SnapInv /\ FinalInv

LEMMA DbNext ==
  ASSUME DbInv, [Next]_vars
  PROVE  DbInv'
<1>0. Core /\ CommitInv /\ StartInv /\ SnapInv /\ FinalInv  BY DEF DbInv
<1>1. ASSUME NEW p \in Proc, Search(p)  PROVE DbInv'
  BY <1>0, <1>1, CoreSearch, CommitSearch, StartSearch, SnapSearch, FinalSearch DEF DbInv
<1>2. ASSUME NEW p \in Proc, TEnd(p)  PROVE DbInv'
  BY <1>0, <1>2, CoreTEnd, CommitTEnd, StartTEnd, SnapTEnd, FinalTEnd DEF DbInv
<1>3. ASSUME NEW p \in Proc, Commit(p)  PROVE DbInv'
  BY <1>0, <1>3, CoreCommit, CommitCommit, StartCommit, SnapCommit, FinalCommit DEF DbInv
<1>4. CASE (\E w \in Writer : WtStep(w)) \/ JnlQio \/ UNCHANGED vars
  <2>1. Core'  BY <1>0, <1>4, CoreWriter, CoreRest
  <2> QED  BY <1>0, <1>4, <2>1, CommitRest, StartRest, SnapRest, FinalRestStep DEF DbInv
<1> QED  BY <1>1, <1>2, <1>3, <1>4 DEF Next, ProcStep

LEMMA InitDb ==
  ASSUME Init
  PROVE  DbInv
<1>1. Core  BY InitCore
<1>2. pc = [p \in Proc |-> "idle"] /\ began = [p \in Proc |-> 0] /\ curr_tn = 1  BY DEF Init
<1>3. \A p \in Proc : pc[p] = "idle" /\ began[p] <= curr_tn  BY <1>2
<1>4. CommitInv  BY <1>3 DEF CommitInv, CommitFor, InCommit
<1>5. StartInv  BY <1>3 DEF StartInv, StartFor, Reading, AtEnd
<1>6. SnapInv  BY <1>3 DEF SnapInv, SnapFor
<1>7. FinalInv  BY <1>3 DEF FinalInv, FinalFor, Reading, AtEnd
<1> QED  BY <1>1, <1>4, <1>5, <1>6, <1>7 DEF DbInv

(* The cache never lies about the database: t_qread puts a block into one buffer only, bg_update leaves a       *)
(* buffer at rest with the last committed contents of its block, and wcs_wtstart makes a buffer clean only when *)
(* the file has these contents, so that a block whose buffer was given to another can be read back from disk.   *)
THEOREM Coherent == Spec => []CacheCoherent
<1>1. Init => Core  BY InitCore
<1>2. Core /\ [Next]_vars => Core'  BY CoreNext
<1>3. Core => CacheCoherent  BY CoherentIs
<1> QED  BY <1>1, <1>2, <1>3, PTL DEF Spec

(* Optimistic validation is enough: a transaction that t_end lets into its commit read, without crit, in every *)
(* block of its path what the last committed transaction left there; no update is lost.                        *)
THEOREM CommitsCurrent == Spec => []CommitsAreCurrent
<1>1. Init => DbInv  BY InitDb
<1>2. DbInv /\ [Next]_vars => DbInv'  BY DbNext
<1>3. DbInv => CommitsAreCurrent  BY DEF DbInv, CommitInv, CommitFor, CommitsAreCurrent, Ver
<1> QED  BY <1>1, <1>2, <1>3, PTL DEF Spec

(* A read-only transaction of t_end, which checks its blocks one after the other and never takes crit, returns *)
(* blocks as they were together at one transaction number since it began.                                      *)
THEOREM Snapshots == Spec => []ReadsAreSnapshots
<1>1. Init => DbInv  BY InitDb
<1>2. DbInv /\ [Next]_vars => DbInv'  BY DbNext
<1>3. DbInv => ReadsAreSnapshots  BY SnapIs DEF DbInv
<1> QED  BY <1>1, <1>2, <1>3, PTL DEF Spec

(* The last of the CDB_STAGNATE tries, made in crit from its first read (t_retry), never restarts: t_end and *)
(* t_qread assert this.                                                                                      *)
THEOREM FinalSucceeds == Spec => []NoFinalRestart
<1>1. Init => DbInv  BY InitDb
<1>2. DbInv /\ [Next]_vars => DbInv'  BY DbNext
<1>3. DbInv => NoFinalRestart  BY DEF DbInv, FinalInv, FinalFor, NoFinalRestart
<1> QED  BY <1>1, <1>2, <1>3, PTL DEF Spec
=============================================================================
