--------------------------- MODULE RecoveryProofs ---------------------------
(***************************************************************************)
(* Proofs about Database.tla, 3: the journal, the database file and        *)
(* before-image recovery.                                                  *)
(***************************************************************************)
EXTENDS CacheProofs

USE DEF NoProc, NoBlock, Torn

-----------------------------------------------------------------------------
(* The addresses of the journal *)

AddrInv == /\ fsync_dskaddr <= dskaddr /\ dskaddr <= Len(jnl)
           /\ \A i \in 1 .. dskaddr : jnl[i].written
(* Records are in tn order; an epoch comes after what was committed before its tn *)
OrderInv == \A i, j \in 1 .. Len(jnl) : i < j => jnl[i].tn <= jnl[j].tn
EpochInv ==
  /\ 1 <= epoch_tn /\ epoch_tn <= curr_tn
  /\ \A e \in 1 .. Len(jnl) : jnl[e].type = "epoch" =>
       /\ jnl[e].tn <= epoch_tn /\ jnl[e].written
       /\ \A j \in 1 .. e - 1 : jnl[j].type = "set" => jnl[j].tn < jnl[e].tn
FluFor(p) == pc[p] = "flu2" => fsync_dskaddr = Len(jnl) /\ dskaddr = Len(jnl)
FluInv == \A p \in Proc : FluFor(p)
JnlInv == AddrInv /\ OrderInv /\ EpochInv /\ FluInv

(* A step that leaves the two files alone *)
SameFiles == /\ dskaddr' = dskaddr /\ fsync_dskaddr' = fsync_dskaddr /\ need_db_fsync' = need_db_fsync
             /\ stable' = stable /\ disk' = disk
SameLog == jnl' = jnl /\ epoch_tn' = epoch_tn /\ curr_tn' = curr_tn

LEMMA LogSearch ==
  ASSUME NEW p \in Proc, Search(p) \/ TEnd(p)
  PROVE  SameLog /\ SameFiles
<1> USE DEF jnlvars, dskvars, tnvars, txnvars, cmtvars, SameLog, SameFiles
<1>1. CASE Search(p)
  BY <1>1 DEF Search, Begin, CheckClue, NoteTn, Find, Miss, GetBuffer, DskRead, NoteCycle, WaitRead, WaitInTend, Look
<1>2. CASE TEnd(p)
  BY <1>2 DEF TEnd, ReadOnlyEnd, CheckTn, CheckCycle, ReadOnlyDone, Retry, GrabCrit, Validate
<1> QED  BY <1>1, <1>2

LEMMA LogCommit ==
  ASSUME NEW p \in Proc, Commit(p)
  PROVE  \/ SameLog /\ SameFiles
         \/ FlushJnl(p) /\ SameLog
         \/ LogStep(p)
<1> USE DEF jnlvars, dskvars, tnvars, txnvars, cmtvars, SameLog, SameFiles
<1>1. CASE FlushJnl(p)  BY <1>1 DEF FlushJnl
<1>2. CASE LogStep(p)  BY <1>2
<1>3. CASE ~FlushJnl(p) /\ ~LogStep(p)
  BY <1>3 DEF Commit, LogStep, CheckEpoch, Phase1, Phase1Wait, BuildStart, BuildEnd, Release, ResetInTend, Halt
<1> QED  BY <1>1, <1>2, <1>3

LEMMA LogFiles ==
  ASSUME NEW p \in Proc, LogStep(p)
  PROVE  /\ dskaddr' = dskaddr /\ fsync_dskaddr' = fsync_dskaddr /\ stable' = stable /\ disk' = disk
         /\ ~WriteEpoch(p) => epoch_tn' = epoch_tn /\ need_db_fsync' = need_db_fsync
BY DEF LogStep, WriteEpoch, Reserve, IncrementTn, WriteJnl, jnlvars, dskvars, tnvars, txnvars, cmtvars

(* Only FlushJnl leads to flu2. *)
LEMMA FluPc ==
  ASSUME Types, NEW p \in Proc, ProcStep(p), pc'[p] = "flu2"
  PROVE  FlushJnl(p)
<1>0. pc \in [Proc -> PC]  BY DEF Types, ProcTypes
<1>1. ~Search(p)
  BY <1>0 DEF Search, Begin, CheckClue, NoteTn, Find, Miss, GetBuffer, DskRead, NoteCycle, WaitRead, WaitInTend, Look, Go
<1>2. ~TEnd(p)
  BY <1>0 DEF TEnd, ReadOnlyEnd, CheckTn, CheckCycle, ReadOnlyDone, Retry, GrabCrit, Validate, Go, Fail
<1>3. Commit(p) => FlushJnl(p)
  BY <1>0 DEF Commit, CheckEpoch, WriteEpoch, Reserve, Phase1, Phase1Wait, IncrementTn, WriteJnl,
             BuildStart, BuildEnd, Release, ResetInTend, Halt, NextCse, Go
<1> QED  BY <1>1, <1>2, <1>3 DEF ProcStep

(* The numbers the journal invariants speak of *)
LEMMA AddrNat ==
  ASSUME Types
  PROVE  /\ Len(jnl) \in Nat /\ dskaddr \in Nat /\ fsync_dskaddr \in Nat /\ epoch_tn \in Nat /\ curr_tn \in Nat
         /\ \A i \in 1 .. Len(jnl) : jnl[i].tn \in Nat
<1>1. jnl \in Seq(JnlRec)  BY DEF Types, JnlTypes
<1>2. Len(jnl) \in Nat  BY <1>1
<1> QED  BY <1>2, JnlFields DEF Types, FileTypes

LEMMA JnlStay ==
  ASSUME Types, JnlInv, SameLog, SameFiles, \A q \in Proc : pc'[q] = "flu2" => pc[q] = "flu2"
  PROVE  JnlInv'
<1>1. AddrInv' /\ OrderInv' /\ EpochInv'  BY DEF JnlInv, AddrInv, OrderInv, EpochInv, SameLog, SameFiles
<1>2. FluInv'  BY DEF JnlInv, FluInv, FluFor, SameLog, SameFiles
<1> QED  BY <1>1, <1>2 DEF JnlInv

LEMMA FluOthers ==
  ASSUME Types, NEW p \in Proc, Others(p), ProcStep(p), ~FlushJnl(p)
  PROVE  \A q \in Proc : pc'[q] = "flu2" => pc[q] = "flu2" /\ q # p
BY FluPc DEF Others

LEMMA JnlFlush ==
  ASSUME Types, Types', JnlInv, NEW p \in Proc, FlushJnl(p), Others(p)
  PROVE  JnlInv'
<1>1. dskaddr' = Len(jnl) /\ fsync_dskaddr' = Len(jnl) /\ jnl' = jnl /\ epoch_tn' = epoch_tn /\ curr_tn' = curr_tn /\ freeaddr = Len(jnl)
  BY DEF FlushJnl, JnlOutput, tnvars
<1>2. \A i \in 1 .. Len(jnl) : jnl[i].written  BY <1>1, FreeaddrIs
<1>3. AddrInv'  BY <1>1, <1>2, AddrNat DEF AddrInv
<1>4. FluInv'  BY <1>1 DEF FluInv, FluFor
<1> QED  BY <1>1, <1>3, <1>4 DEF JnlInv, OrderInv, EpochInv

LEMMA JnlQioStep ==
  ASSUME Types, JnlInv, JnlQio
  PROVE  JnlInv'
<1>1. /\ dskaddr < freeaddr /\ dskaddr' = freeaddr /\ fsync_dskaddr' = fsync_dskaddr /\ jnl' = jnl /\ epoch_tn' = epoch_tn
      /\ curr_tn' = curr_tn /\ pc' = pc
  BY DEF JnlQio, JnlOutput, tnvars
<1>2. PICK f \in Nat : f = freeaddr /\ f <= Len(jnl) /\ \A i \in 1 .. f : jnl[i].written  BY FreeaddrIs, AddrNat
<1>3. AddrInv'  BY <1>1, <1>2, AddrNat DEF AddrInv, JnlInv
<1>4. FluInv'  BY <1>1, <1>2, AddrNat DEF FluInv, FluFor, JnlInv
<1> QED  BY <1>1, <1>3, <1>4 DEF JnlInv, OrderInv, EpochInv

LEMMA JnlWriter ==
  ASSUME Types, JnlInv, NEW w \in Writer, WtStep(w)
  PROVE  JnlInv'
<1>1. jnl' = jnl /\ dskaddr' = dskaddr /\ epoch_tn' = epoch_tn /\ curr_tn' = curr_tn /\ pc' = pc
  BY WtrFrameIs DEF WtrFrame
<1>2. fsync_dskaddr' \in {fsync_dskaddr, dskaddr}
  BY DEF WtStep, WtStart, WtLock, WtWrite, WtRelease, jnlvars
<1>3. AddrInv'  BY <1>1, <1>2, AddrNat DEF AddrInv, JnlInv
<1>4. FluInv'  BY <1>1, <1>2 DEF FluInv, FluFor, JnlInv
<1> QED  BY <1>1, <1>3, <1>4 DEF JnlInv, OrderInv, EpochInv

LEMMA UnwrittenIs ==
  ASSUME NEW p, NEW t, NEW b, NEW r, r = Unwritten(p, t, b)
  PROVE  r.type = t /\ r.by = p /\ r.blks = b /\ r.tn = curr_tn /\ ~r.written
BY DEF Unwritten

LEMMA JnlLog ==
  ASSUME Core, Core', JnlInv, NEW p \in Proc, LogStep(p), Others(p)
  PROVE  JnlInv'
<1>a. Types /\ Types' /\ JobInv  BY DEF Core
<1>1. /\ Len(jnl) \in Nat /\ Len(jnl') \in Nat /\ Len(jnl) <= Len(jnl')
      /\ \A i \in 1 .. Len(jnl) : jnl'[i].tn = jnl[i].tn /\ jnl'[i].type = jnl[i].type
      /\ \A i \in Len(jnl) + 1 .. Len(jnl') : jnl'[i].tn = curr_tn
  BY <1>a, LogGrows
<1>2. PICK m \in Nat, n \in Nat : m = Len(jnl) /\ n = Len(jnl') /\ m <= n  BY <1>1
<1>3. \A i \in 1 .. m : jnl[i].tn \in Nat /\ jnl[i].tn <= curr_tn  BY <1>a, <1>2, AddrNat DEF Core, TnInv
<1>4. curr_tn \in Nat /\ dskaddr \in Nat /\ fsync_dskaddr \in Nat /\ epoch_tn \in Nat  BY <1>a, AddrNat
<1>5. OrderInv'
  <2> SUFFICES ASSUME NEW i \in 1 .. n, NEW j \in 1 .. n, i < j  PROVE jnl'[i].tn <= jnl'[j].tn  BY <1>2 DEF OrderInv
  <2>1. CASE j <= m
    <3>1. jnl[i].tn <= jnl[j].tn  BY <1>2, <2>1 DEF JnlInv, OrderInv
    <3> QED  BY <1>1, <1>2, <2>1, <3>1
  <2>2. CASE i <= m /\ ~(j <= m)
    <3>1. jnl'[j].tn = curr_tn /\ jnl'[i].tn = jnl[i].tn /\ jnl[i].tn <= curr_tn  BY <1>1, <1>2, <1>3, <2>2
    <3> QED  BY <3>1
  <2>3. CASE ~(i <= m)
    <3>1. jnl'[j].tn = curr_tn /\ jnl'[i].tn = curr_tn  BY <1>1, <1>2, <2>3
    <3> QED  BY <1>4, <3>1
  <2> QED  BY <2>1, <2>2, <2>3
<1>6. \A i \in 1 .. m : jnl[i].written => jnl'[i].written
  <2>1. CASE WriteEpoch(p)  BY <1>a, <1>2, <2>1, WriteEpochIs
  <2>2. CASE Reserve(p)
    <3>1. PICK k \in Nat, f \in Seq(Block) : Reserved(p, Len(jnl), k, f)  BY <1>a, <2>2, ReserveIs
    <3> QED  BY <1>2, <3>1 DEF Reserved
  <2>3. CASE IncrementTn(p)  BY <2>3 DEF IncrementTn, jnlvars
  <2>4. CASE WriteJnl(p)  BY <1>a, <1>2, <2>4, WriteJnlIs
  <2> QED  BY <2>1, <2>2, <2>3, <2>4 DEF LogStep
<1>7. dskaddr' = dskaddr /\ fsync_dskaddr' = fsync_dskaddr  BY LogFiles
<1>8. AddrInv'  BY <1>1, <1>2, <1>4, <1>6, <1>7 DEF AddrInv, JnlInv
<1>9. FluInv'
  <2> SUFFICES ASSUME NEW q \in Proc, pc'[q] = "flu2"  PROVE fsync_dskaddr' = Len(jnl') /\ dskaddr' = Len(jnl')
    BY DEF FluInv, FluFor
  <2>1. ~FlushJnl(p) /\ ProcStep(p)
    BY DEF LogStep, FlushJnl, WriteEpoch, Reserve, IncrementTn, WriteJnl, ProcStep, Commit
  <2>2. pc[q] = "flu2" /\ q # p  BY <1>a, <2>1, FluOthers
  <2>3. crit = q /\ fsync_dskaddr = Len(jnl) /\ dskaddr = Len(jnl)
    BY <2>2 DEF Core, CritInv, CritFor, InCommit, JnlInv, FluInv, FluFor
  <2>4. WriteJnl(p)
    <3>1. WriteEpoch(p) \/ Reserve(p) \/ IncrementTn(p) => pc[p] \in InCommit  BY DEF WriteEpoch, Reserve, IncrementTn, InCommit
    <3>2. pc[p] \in InCommit => crit = p  BY DEF Core, CritInv, CritFor
    <3> QED  BY <2>2, <2>3, <3>1, <3>2 DEF LogStep
  <2>5. Len(jnl') = Len(jnl)  BY <1>a, <2>4, WriteJnlIs
  <2> QED  BY <1>7, <2>3, <2>5
<1>10. EpochInv'
  <2>1. CASE WriteEpoch(p)
    <3>1. curr_tn' = curr_tn  BY <2>1 DEF WriteEpoch, tnvars
    <3>2. CASE jnl' = jnl /\ epoch_tn' = epoch_tn  BY <3>1, <3>2 DEF JnlInv, EpochInv
    <3>3. CASE n = m + 1 /\ (\A i \in 1 .. m : jnl'[i] = jnl[i]) /\ jnl'[m + 1] = EpochRec(p) /\ epoch_tn' = curr_tn
      <4>1. 1 <= epoch_tn' /\ epoch_tn' <= curr_tn'  BY <1>4, <3>1, <3>3 DEF JnlInv, EpochInv
      <4>2. \A j \in 1 .. m : jnl[j].type = "set" => jnl[j].tn < curr_tn
        <5> SUFFICES ASSUME NEW j \in 1 .. m, jnl[j].type = "set", jnl[j].tn = curr_tn  PROVE FALSE  BY <1>3, <1>4
        <5>1. PICK q \in Proc : pc[q] \in Early  BY <1>2 DEF Core, TnInv
        <5>2. pc[p] = "flu2" /\ crit = p /\ crit = q
          BY <2>1, <5>1 DEF WriteEpoch, Core, CritInv, CritFor, InCommit, Early
        <5> QED  BY <5>1, <5>2 DEF Early
      <4>3. ASSUME NEW e \in 1 .. n, jnl'[e].type = "epoch"
            PROVE  /\ jnl'[e].tn <= epoch_tn' /\ jnl'[e].written
                   /\ \A j \in 1 .. e - 1 : jnl'[j].type = "set" => jnl'[j].tn < jnl'[e].tn
        <5>1. CASE e = m + 1
          <6>1. jnl'[e].tn = curr_tn /\ jnl'[e].written  BY <3>3, <5>1 DEF EpochRec
          <6>2. \A j \in 1 .. e - 1 : j \in 1 .. m /\ jnl'[j] = jnl[j]  BY <3>3, <5>1
          <6> QED  BY <1>4, <3>3, <4>2, <6>1, <6>2
        <5>2. CASE e \in 1 .. m
          <6>1. jnl'[e] = jnl[e] /\ \A j \in 1 .. e - 1 : j \in 1 .. m /\ jnl'[j] = jnl[j]  BY <3>3, <5>2
          <6>2. jnl[e].tn <= epoch_tn /\ jnl[e].written /\ epoch_tn <= curr_tn
                /\ \A j \in 1 .. e - 1 : jnl[j].type = "set" => jnl[j].tn < jnl[e].tn
            BY <1>2, <4>3, <5>2, <6>1 DEF JnlInv, EpochInv
          <6>3. jnl[e].tn <= curr_tn  BY <1>3, <5>2
          <6> QED  BY <3>3, <6>1, <6>2, <6>3
        <5> QED  BY <1>2, <3>3, <5>1, <5>2
      <4> QED  BY <1>2, <4>1, <4>3 DEF EpochInv
    <3> QED  BY <1>a, <1>2, <2>1, <3>2, <3>3, WriteEpochIs
  <2>2. CASE ~WriteEpoch(p)
    <3>1. epoch_tn' = epoch_tn  BY <2>2, LogFiles
    <3>2. curr_tn' \in Nat /\ curr_tn <= curr_tn'
      <4>1. curr_tn' \in {curr_tn, curr_tn + 1}  BY DEF LogStep, WriteEpoch, Reserve, IncrementTn, WriteJnl, tnvars
      <4> QED  BY <1>4, <4>1
    <3>3. 1 <= epoch_tn' /\ epoch_tn' <= curr_tn'  BY <1>4, <3>1, <3>2 DEF JnlInv, EpochInv
    <3>4. \A e \in 1 .. n : jnl'[e].type = "epoch" => e \in 1 .. m
      <4>1. CASE Reserve(p)
        <5>1. PICK k \in Nat, f \in Seq(Block) : Reserved(p, m, k, f)  BY <1>a, <1>2, <4>1, ReserveIs
        <5>3. n = m + k + 1 /\ jnl'[m + k + 1].type = "set"  BY <1>2, <5>1 DEF Reserved, Unwritten
        <5>4. \A i \in m + 1 .. m + k : \E b : jnl'[i] = Unwritten(p, "pblk", b)  BY <5>1 DEF Reserved
        <5>5. \A i \in m + 1 .. m + k : jnl'[i].type = "pblk"
          <6> TAKE i \in m + 1 .. m + k
          <6>1. PICK b : jnl'[i] = Unwritten(p, "pblk", b)  BY <5>4
          <6> QED  BY <6>1, UnwrittenIs
        <5>2. n = m + k + 1 /\ (\A i \in m + 1 .. m + k : jnl'[i].type = "pblk") /\ jnl'[m + k + 1].type = "set"
          BY <5>3, <5>5
        <5> QED  BY <5>2
      <4>2. CASE IncrementTn(p)  BY <1>2, <4>2 DEF IncrementTn, jnlvars
      <4>3. CASE WriteJnl(p)  BY <1>a, <1>2, <4>3, WriteJnlIs
      <4> QED  BY <2>2, <4>1, <4>2, <4>3 DEF LogStep
    <3>5. ASSUME NEW e \in 1 .. n, jnl'[e].type = "epoch"
          PROVE  /\ jnl'[e].tn <= epoch_tn' /\ jnl'[e].written
                 /\ \A j \in 1 .. e - 1 : jnl'[j].type = "set" => jnl'[j].tn < jnl'[e].tn
      <4>1. e \in 1 .. m /\ \A j \in 1 .. e - 1 : j \in 1 .. m  BY <3>4, <3>5
      <4>2. jnl[e].type = "epoch"  BY <1>1, <1>2, <3>5, <4>1
      <4>3. jnl[e].tn <= epoch_tn /\ jnl[e].written /\ \A j \in 1 .. e - 1 : jnl[j].type = "set" => jnl[j].tn < jnl[e].tn
        BY <1>2, <4>1, <4>2 DEF JnlInv, EpochInv
      <4> QED  BY <1>1, <1>2, <1>6, <3>1, <4>1, <4>3
    <3> QED  BY <1>2, <3>3, <3>5 DEF EpochInv
  <2> QED  BY <2>1, <2>2
<1> QED  BY <1>5, <1>8, <1>9, <1>10 DEF JnlInv

LEMMA JnlNext ==
  ASSUME Core, JnlInv, [Next]_vars
  PROVE  JnlInv'
<1>a. Types /\ JobInv  BY DEF Core
<1>b. Core'  BY CoreNext
<1>c. Types'  BY <1>b DEF Core
<1>1. ASSUME NEW p \in Proc, Search(p) \/ TEnd(p)  PROVE JnlInv'
  <2>1. Others(p)  BY <1>1, CoreSearch, CoreTEnd
  <2>2. ProcStep(p) /\ ~FlushJnl(p)
    <3>1. Search(p) => ~FlushJnl(p)
      BY DEF Search, Begin, CheckClue, NoteTn, Find, Miss, GetBuffer, DskRead, NoteCycle, WaitRead, WaitInTend, Look, FlushJnl
    <3>2. TEnd(p) => ~FlushJnl(p)
      BY DEF TEnd, ReadOnlyEnd, CheckTn, CheckCycle, ReadOnlyDone, Retry, GrabCrit, Validate, FlushJnl
    <3> QED  BY <1>1, <3>1, <3>2 DEF ProcStep
  <2>3. \A q \in Proc : pc'[q] = "flu2" => pc[q] = "flu2"  BY <1>a, <2>1, <2>2, FluOthers
  <2>4. SameLog /\ SameFiles  BY <1>1, LogSearch
  <2> QED  BY <1>a, <2>3, <2>4, JnlStay
<1>2. ASSUME NEW p \in Proc, Commit(p)  PROVE JnlInv'
  <2>1. Others(p)  BY <1>2, CoreCommit
  <2>2. CASE FlushJnl(p)  BY <1>a, <1>c, <2>1, <2>2, JnlFlush
  <2>3. CASE LogStep(p)  BY <1>b, <2>1, <2>3, JnlLog
  <2>4. CASE ~FlushJnl(p) /\ SameLog /\ SameFiles
    <3>1. \A q \in Proc : pc'[q] = "flu2" => pc[q] = "flu2"  BY <1>a, <1>2, <2>1, <2>4, FluOthers DEF ProcStep
    <3> QED  BY <1>a, <2>4, <3>1, JnlStay
  <2> QED  BY <1>2, <2>2, <2>3, <2>4, LogCommit
<1>3. ASSUME NEW w \in Writer, WtStep(w)  PROVE JnlInv'  BY <1>a, <1>3, JnlWriter
<1>4. CASE JnlQio  BY <1>a, <1>4, JnlQioStep
<1>5. CASE UNCHANGED vars
  <2>1. SameLog /\ SameFiles /\ pc' = pc  BY <1>5 DEF vars, SameLog, SameFiles
  <2> QED  BY <1>a, <2>1, JnlStay
<1> QED  BY <1>1, <1>2, <1>3, <1>4, <1>5 DEF Next, ProcStep

LEMMA InitJnl ==
  ASSUME Init
  PROVE  JnlInv
<1>1. jnl = << >> /\ dskaddr = 0 /\ fsync_dskaddr = 0 /\ epoch_tn = 1 /\ curr_tn = 1 /\ pc = [p \in Proc |-> "idle"]  BY DEF Init
<1>2. Len(jnl) = 0  BY <1>1
<1>3. AddrInv /\ OrderInv /\ EpochInv  BY <1>1, <1>2 DEF AddrInv, OrderInv, EpochInv
<1>4. FluInv  BY <1>1 DEF FluInv, FluFor
<1> QED  BY <1>3, <1>4 DEF JnlInv

LEMMA TypesOK ==
  ASSUME Core, JnlInv
  PROVE  TypeOK
<1>a. Types /\ JobInv  BY DEF Core
<1>1. /\ pc \in [Proc -> PC] /\ todo \in [Proc -> Seq(Job)]
      /\ tries \in [Proc -> 0 .. CDB_STAGNATE] /\ start_tn \in [Proc -> Nat]
      /\ clue \in [Proc -> Seq(Block)] /\ same \in [Proc -> BOOLEAN]
      /\ rem \in [Proc -> SUBSET Block] /\ ctn \in [Proc -> Nat]
      /\ jnl_freeaddr \in [Proc -> [Block -> Nat]] /\ began \in [Proc -> Nat]
  BY <1>a DEF Types, ProcTypes
<1>2. \A p \in Proc : pc[p] \notin {"idle", "gone"} => todo[p] # << >> /\ lvl[p] \in 1 .. Len(Path(p))
  BY <1>a DEF JobInv, JobFor
<1>3. hist \in [Proc -> [Block -> [cr : Buffer, cycle : Nat, tn : Nat, ver : Contents]]]
  BY <1>a DEF Types, HistTypes, HistRec
<1>4. crit \in Proc \cup {NoProc} /\ curr_tn \in Nat /\ disk \in [Block -> Contents] /\ stable \in [Block -> SUBSET Contents]
      /\ epoch_tn \in Nat /\ need_db_fsync \in BOOLEAN /\ epochs \in Nat
  BY <1>a DEF Types, FileTypes
<1>5. early_tn \in {curr_tn, curr_tn + 1}  BY DEF Core, TnInv
<1>6. cr \in [Buffer -> CacheRec] /\ bt \in Seq(BtRec) /\ Buffer = 1 .. Len(bt)  BY <1>a DEF Types, BufTypes, BtRec
<1>7. DOMAIN bt = Buffer /\ \A i \in Buffer : bt[i] \in [blk : Block \cup {NoBlock}, tn : Nat]
  <2>1. DOMAIN bt = 1 .. Len(bt) /\ \A i \in 1 .. Len(bt) : bt[i] \in BtRec  BY <1>6
  <2> QED  BY <1>6, <2>1 DEF BtRec
<1>8. jnl \in Seq(JnlRec)  BY <1>a DEF Types, JnlTypes
<1>9. 0 <= fsync_dskaddr /\ fsync_dskaddr <= dskaddr /\ dskaddr <= freeaddr
  <2>1. fsync_dskaddr \in Nat /\ dskaddr \in Nat /\ Len(jnl) \in Nat  BY <1>a, AddrNat
  <2>2. dskaddr \in 0 .. Len(jnl) /\ fsync_dskaddr <= dskaddr /\ \A i \in 1 .. dskaddr : jnl[i].written
    BY <2>1 DEF JnlInv, AddrInv
  <2>3. dskaddr <= freeaddr  BY <1>a, <2>2, FreeaddrIs
  <2> QED  BY <2>1, <2>2, <2>3
<1>10. wtr \in [Writer -> [pc : {"idle", "lock", "write", "release"}, cr : Buffer]]  BY <1>a DEF Types, WtrTypes
<1>11. \A b \in Block : stable[b] \subseteq Contents  BY <1>4
<1> QED  BY <1>1, <1>2, <1>3, <1>4, <1>5, <1>6, <1>7, <1>8, <1>9, <1>10, <1>11 DEF TypeOK

(* Every variable keeps its type, and the journal addresses stay in order: what jnl_fsync has hardened is in the *)
(* file (jnl_output_sp), and what is in the file has been completed by phase 2.                                  *)
THEOREM DatabaseTypes == Spec => []TypeOK
<1>1. Init => Core /\ JnlInv  BY InitCore, InitJnl
<1>2. Core /\ JnlInv /\ [Next]_vars => (Core /\ JnlInv)'  BY CoreNext, JnlNext
<1>3. Core /\ JnlInv => TypeOK  BY TypesOK
<1> QED  BY <1>1, <1>2, <1>3, PTL DEF Spec

-----------------------------------------------------------------------------
(* The before-images *)

Epochs == {0} \cup {i \in 1 .. Len(jnl) : jnl[i].type = "epoch"}
Pblks(b) == {i \in 1 .. Len(jnl) : jnl[i].type = "pblk" /\ b \in jnl[i].blks}

ImageFor(i, b) == jnl[i].blks = {b} /\ (jnl[i].written => jnl[i].image = VersionAt(b, jnl[i].tn))
ImageInv == \A i \in 1 .. Len(jnl) : jnl[i].type = "pblk" => \E b \in Block : ImageFor(i, b)
BeforeFor(e, j, b) == e < j /\ jnl[j].type = "set" /\ b \in jnl[j].blks => \E i \in Pblks(b) : e < i /\ i < j
BeforeInv == \A e \in Epochs, j \in 1 .. Len(jnl), b \in Block : BeforeFor(e, j, b)
CopyFor(p, c, b, t) == pc[p] = "cmt16" /\ cr[c].blk = b /\ b \in Upd(p) /\ ctn[p] = t => cr[c].data = VersionAt(b, t)
CopyInv == \A p \in Proc, c \in Buffer, b \in Block, t \in Nat : CopyFor(p, c, b, t)

(* The buffers of a commit before CMT14 have the last committed contents. *)
LEMMA CommitData ==
  ASSUME Core, NEW p \in Proc, pc[p] \in InCommit, NEW b \in Upd(p)
  PROVE  /\ b \in Block /\ \A c \in Buffer : cr[c].blk = b => cr[c].data = Ver(b) /\ c = The(CrOf(b))
         /\ CrOf(b) # {}
<1>a. Types /\ JobInv /\ PinInv  BY DEF Core
<1>1. b \in Block  BY <1>a, JobFacts DEF InCommit
<1>2. b \in Pinned(p)  BY <1>1 DEF Pinned
<1>3. PICK d \in Buffer : d = hist[p][b].cr
  <2>1. hist[p][b] \in HistRec  BY <1>1, <1>a DEF Types, HistTypes
  <2> QED  BY <2>1, HistFields
<1>4. cr[d].blk = b /\ cr[d].rip = NoProc  BY <1>2, <1>3, <1>a DEF PinInv
<1>5. \A c \in Buffer : cr[c].blk = b => c = d  BY <1>1, <1>4, <1>a, BlockNat DEF PinInv
<1>6. Settled(d)
  <2> SUFFICES ASSUME NEW q \in Proc, cr[d].in_tend = q  PROVE pc[q] \in InCommit  BY DEF Settled
  <2>1. b \in Pinned(q)  BY <1>4, <1>a, TendingPinned DEF PinInv
  <2>2. cr[d].in_cw_set = q /\ cr[d].in_cw_set = p  BY <1>2, <1>4, <2>1, <1>a DEF PinInv
  <2> QED  BY <2>2
<1>7. cr[d].data = Ver(b)  BY <1>1, <1>4, <1>6 DEF Core, DataInv, DataFor
<1>8. CrOf(b) = {d}  BY <1>4, <1>5 DEF CrOf
<1>9. The(CrOf(b)) = d  BY <1>8, TheIs
<1> QED  BY <1>1, <1>5, <1>7, <1>8, <1>9

(* A step leaves the buffers alone that other commits have pinned. *)
LEMMA PinnedStill ==
  ASSUME Core, NEW p, Next, p \in Proc => ProcStep(p), p \notin Proc => JnlQio \/ \E w \in Writer : WtStep(w),
         NEW q \in Proc, q # p, NEW b \in Pinned(q), NEW c \in Buffer, cr'[c].blk = b
  PROVE  cr[c].blk = b /\ SameData(c)
<1>a. Types /\ JobInv /\ PinInv  BY DEF Core
<1>b. b \in Block  BY <1>a, TendingPinned
<1>c. PICK d \in Buffer : d = hist[q][b].cr
  <2>1. hist[q][b] \in HistRec  BY <1>b, <1>a DEF Types, HistTypes
  <2> QED  BY <2>1, HistFields
<1>d. cr[d].blk = b /\ cr[d].rip = NoProc  BY <1>c, <1>a DEF PinInv
<1>e. \A x \in Buffer : cr[x].blk = b => x = d  BY <1>b, <1>d, <1>a, BlockNat DEF PinInv
<1>1. CASE p \in Proc /\ Quiet(p)  BY <1>1 DEF Quiet, SameData
<1>2. CASE p \in Proc /\ Search(p)
  <2>1. CASE NewBuffer(p)
    <3>1. PICK x \in Buffer : Only(x) /\ cr'[x].blk = Blk(p) /\ SameData(x) /\ CrOf(Blk(p)) = {}  BY <1>a, <1>2, <2>1, NewBufferIs
    <3>2. b # Blk(p)  BY <1>d, <3>1 DEF CrOf
    <3>3. c # x  BY <3>1, <3>2
    <3> QED  BY <3>1, <3>3 DEF Only, SameData
  <2>2. CASE DskRead(p)
    <3>1. PICK x \in Buffer : x = Hist(p).cr /\ Only(x) /\ cr'[x].blk = cr[x].blk /\ pc[p] = "read"  BY <1>a, <1>2, <2>2, DskReadIs
    <3>2. cr[x].rip = p  BY <1>2, <3>1 DEF Core, ReadInv
    <3>3. c # x  BY <1>2, <1>d, <1>e, <3>1, <3>2, BlockNat
    <3> QED  BY <3>1, <3>3 DEF Only, SameData
  <2> QED  BY <1>1, <1>2, <1>a, <2>1, <2>2, QuietSearch
<1>3. CASE p \in Proc /\ TEnd(p)
  <2>1. CASE Valid(p)
    <3>1. SameId(c) /\ SameData(c)  BY <1>3, <1>a, <2>1, ValidIs
    <3> QED  BY <3>1 DEF SameId
  <2> QED  BY <1>1, <1>3, <1>a, <2>1, QuietTEnd
<1>4. CASE p \in Proc /\ Commit(p)
  <2>0. Types'  BY <1>4, CoreCommit DEF Core
  <2>b. PICK f, x : f = Cse(p) /\ x = CseCr(p)  OBVIOUS
  <2>1. CASE IncrementTn(p)  BY <1>a, <1>4, <2>1, IncrementIs DEF SameData
  <2>2. CASE BufStep(p) /\ ~IncrementTn(p)
    <3>1. pc[p] \in {"cmt10", "cmt10w"} \cup Phase2
      BY <2>2 DEF BufStep, Phase1, Phase1Wait, BuildStart, BuildEnd, Release, ResetInTend, Phase2
    <3>2. Turn(p, f, x)  BY <1>a, <1>4, <2>b, <3>1, TurnIs
    <3>3. Only(x) /\ SameId(x)
      <4>1. CASE Phase1(p)  BY <1>a, <1>4, <2>b, <4>1, Phase1Is DEF DirtiedIs
      <4>2. CASE Phase1Wait(p)  BY <1>a, <1>4, <2>b, <4>2, Phase1WaitIs DEF DirtiedIs
      <4>3. CASE BuildStart(p)  BY <1>a, <1>4, <2>b, <4>3, BuildStartIs
      <4>4. CASE BuildEnd(p)  BY <1>a, <1>4, <2>b, <4>4, BuildEndIs
      <4>5. CASE Release(p)  BY <1>a, <1>4, <2>b, <4>5, ReleaseIs
      <4>6. CASE ResetInTend(p)  BY <1>a, <1>4, <2>b, <4>6, ResetIs
      <4> QED  BY <2>2, <4>1, <4>2, <4>3, <4>4, <4>5, <4>6 DEF BufStep
    <3>4. f # b  BY <1>a, <1>4, <3>1, <3>2, TurnAlone
    <3>5. c # x  BY <3>2, <3>3, <3>4 DEF Turn, SameId
    <3> QED  BY <3>3, <3>5 DEF Only, SameData
  <2> QED  BY <1>1, <1>4, <1>a, <2>0, <2>1, <2>2, QuietCommit
<1>5. CASE JnlQio  BY <1>5 DEF JnlQio, SameData
<1>6. ASSUME NEW w \in Writer, WtStep(w)  PROVE cr[c].blk = b /\ SameData(c)
  <2>0. PICK y : y = wtr[w].cr  OBVIOUS
  <2>2. ASSUME NEW x \in Buffer, Only(x), SameId(x), SameData(x)  PROVE cr[c].blk = b /\ SameData(c)
    BY <2>2 DEF Only, SameId, SameData
  <2>3. ASSUME NEW x \in Buffer, WtStart(w, x)  PROVE Only(x) /\ SameId(x) /\ SameData(x)  BY <1>a, <2>3, WtStartIs
  <2>4. WtLock(w) => y \in Buffer /\ Only(y) /\ SameId(y) /\ SameData(y)  BY <1>a, <2>0, WtLockIs
  <2>5. WtWrite(w) => y \in Buffer /\ Only(y) /\ SameId(y) /\ SameData(y)  BY <1>a, <2>0, WtWriteIs
  <2>6. WtRelease(w) => y \in Buffer /\ Only(y) /\ SameId(y) /\ SameData(y)  BY <1>a, <2>0, WtReleaseIs
  <2> QED  BY <1>6, <2>2, <2>3, <2>4, <2>5, <2>6 DEF WtStep
<1> QED  BY <1>2, <1>3, <1>4, <1>5, <1>6 DEF ProcStep

LEMMA NextSame ==
  ASSUME Core, [Next]_vars
  PROVE  SameVersions
<1>1. ASSUME NEW p \in Proc, Commit(p)  PROVE SameVersions  BY <1>1, CommitSame
<1>2. ASSUME NEW p \in Proc, Search(p) \/ TEnd(p)  PROVE jnl' = jnl  BY <1>2, LogSearch DEF SameLog
<1>3. ASSUME NEW w \in Writer, WtStep(w)  PROVE jnl' = jnl  BY <1>3, WtrFrameIs DEF WtrFrame
<1>4. JnlQio => jnl' = jnl  BY DEF JnlQio
<1>5. UNCHANGED vars => jnl' = jnl  BY DEF vars
<1> QED  BY <1>1, <1>2, <1>3, <1>4, <1>5, JnlSame DEF Next, ProcStep

LEMMA Cmt16Pc ==
  ASSUME Types, NEW p \in Proc, ProcStep(p), pc'[p] = "cmt16"
  PROVE  IncrementTn(p)
<1>0. pc \in [Proc -> PC]  BY DEF Types, ProcTypes
<1>1. ~Search(p)
  BY <1>0 DEF Search, Begin, CheckClue, NoteTn, Find, Miss, GetBuffer, DskRead, NoteCycle, WaitRead, WaitInTend, Look, Go
<1>2. ~TEnd(p)
  BY <1>0 DEF TEnd, ReadOnlyEnd, CheckTn, CheckCycle, ReadOnlyDone, Retry, GrabCrit, Validate, Go, Fail
<1>3. Commit(p) => IncrementTn(p)
  BY <1>0 DEF Commit, CheckEpoch, FlushJnl, WriteEpoch, Reserve, Phase1, Phase1Wait, WriteJnl,
             BuildStart, BuildEnd, Release, ResetInTend, Halt, NextCse, Go
<1> QED  BY <1>1, <1>2, <1>3 DEF ProcStep

LEMMA CopyOther ==
  ASSUME Core, CopyInv, Moves, SameVersions, NEW p, Others(p), Next, p \in Proc => ProcStep(p),
         p \notin Proc => JnlQio \/ \E w \in Writer : WtStep(w),
         NEW q \in Proc, q # p, NEW c \in Buffer, NEW b \in Block, NEW t \in Nat
  PROVE  CopyFor(q, c, b, t)'
<1>0. q \in Proc \ {p}  OBVIOUS
<1>1. Upd(q)' = Upd(q)  BY <1>0, OtherSets
<1>2. pc'[q] = pc[q] /\ ctn'[q] = ctn[q]  BY <1>0 DEF Others
<1> SUFFICES ASSUME pc[q] = "cmt16", cr'[c].blk = b, b \in Upd(q), ctn[q] = t  PROVE cr'[c].data = VersionAt(b, t)'
  BY <1>1, <1>2 DEF CopyFor
<1>3. b \in Pinned(q)  BY DEF Core, JobInv, JobFor, Pinned, Phase2
<1>4. cr[c].blk = b /\ cr'[c].data = cr[c].data  BY <1>3, PinnedStill DEF SameData
<1>5. cr[c].data = VersionAt(b, t)  BY <1>4 DEF CopyInv, CopyFor
<1>6. t \in 0 .. curr_tn
  <2>1. t < curr_tn  BY DEF Core, TnInv, Phase2
  <2>2. curr_tn \in Nat  BY DEF Core, Types, FileTypes
  <2> QED  BY <2>1, <2>2
<1>7. VersionAt(b, t)' = VersionAt(b, t)  BY <1>6 DEF SameVersions
<1> QED  BY <1>4, <1>5, <1>7

LEMMA CopyNext ==
  ASSUME Core, CopyInv, [Next]_vars
  PROVE  CopyInv'
<1>0. SameVersions  BY NextSame
<1>1. ASSUME NEW p \in Proc, ProcStep(p)  PROVE CopyInv'
  <2>0. Next  BY <1>1 DEF Next
  <2>1. Others(p) /\ Moves  BY <1>1, CoreSearch, CoreTEnd, CoreCommit DEF ProcStep
  <2>2. Buffer' = Buffer  BY <2>1 DEF Moves
  <2> SUFFICES ASSUME NEW q \in Proc, NEW c \in Buffer, NEW b \in Block, NEW t \in Nat  PROVE CopyFor(q, c, b, t)'
    BY <2>2 DEF CopyInv
  <2>3. CASE q # p  BY <1>0, <1>1, <2>0, <2>1, <2>3, CopyOther
  <2>4. CASE q = p
    <3> SUFFICES ASSUME pc'[p] = "cmt16", cr'[c].blk = b, b \in Upd(p)', ctn'[p] = t  PROVE cr'[c].data = VersionAt(b, t)'
      BY <2>4 DEF CopyFor
    <3>1. IncrementTn(p)  BY <1>1, Cmt16Pc DEF Core
    <3>2. cr' = cr /\ todo' = todo /\ ctn' = ctn /\ pc[p] = "cmt12"  BY <3>1 DEF IncrementTn, txnvars
    <3>3. b \in Upd(p)  BY <3>2 DEF Upd
    <3>4. t = curr_tn /\ curr_tn \in Nat  BY <3>2 DEF Core, TnInv, Early, Types, FileTypes
    <3>5. cr[c].data = VersionAt(b, curr_tn)  BY <3>2, <3>3, CommitData DEF InCommit, Ver
    <3>6. VersionAt(b, t)' = VersionAt(b, t)  BY <1>0, <3>4 DEF SameVersions
    <3> QED  BY <3>2, <3>4, <3>5, <3>6
  <2> QED  BY <2>3, <2>4
<1>2. CASE JnlQio \/ \E w \in Writer : WtStep(w)
  <2> HIDE DEF NoProc
  <2>0. Next /\ NoProc \notin Proc  BY <1>2, BlockNat DEF Next
  <2>1. Others(NoProc) /\ Moves  BY <1>2, CoreWriter, CoreRest
  <2>2. Buffer' = Buffer  BY <2>1 DEF Moves
  <2> SUFFICES ASSUME NEW q \in Proc, NEW c \in Buffer, NEW b \in Block, NEW t \in Nat  PROVE CopyFor(q, c, b, t)'
    BY <2>2 DEF CopyInv
  <2>3. q # NoProc  BY <2>0
  <2> QED  BY <1>0, <1>2, <2>0, <2>1, <2>3, CopyOther
<1>3. CASE UNCHANGED vars
  <2>1. pc' = pc /\ cr' = cr /\ todo' = todo /\ ctn' = ctn /\ jnl' = jnl  BY <1>3 DEF vars
  <2>2. (\A q : Upd(q)' = Upd(q)) /\ (\A b, t : VersionAt(b, t)' = VersionAt(b, t)) /\ Buffer' = Buffer
    BY <2>1, JnlSame DEF Upd, Buffer
  <2> QED  BY <2>1, <2>2 DEF CopyInv, CopyFor
<1> QED  BY <1>1, <1>2, <1>3 DEF Next

(* Every epoch is followed by a before-image of a block that changed since. *)
LEMMA AfterEpoch ==
  ASSUME Core, JnlInv, BeforeInv, NEW b \in Block, NEW t, t = Ver(b).tn, epoch_tn <= t, NEW e \in Epochs
  PROVE  \E i \in Pblks(b) : e < i
<1>a. Types  BY DEF Core
<1>1. epoch_tn \in Nat /\ curr_tn \in Nat /\ 1 <= epoch_tn /\ Len(jnl) \in Nat /\ t \in Nat
  BY <1>a, AddrNat, VersionIs DEF JnlInv, EpochInv, Ver
<1>2. t \in SetTns(b, curr_tn)
  <2>1. t \in {0} \cup SetTns(b, curr_tn)  BY <1>a, <1>1, VersionIs DEF Ver
  <2> QED  BY <1>1, <2>1
<1>3. PICK j \in 1 .. Len(jnl) : jnl[j].type = "set" /\ b \in jnl[j].blks /\ jnl[j].tn = t  BY <1>2 DEF SetTns
<1>4. e < j
  <2>1. CASE e = 0  BY <2>1
  <2>2. CASE e \in 1 .. Len(jnl) /\ jnl[e].type = "epoch"
    <3>1. j # e  BY <1>3, <2>2
    <3>2. ~(j < e)
      <4> SUFFICES ASSUME j < e  PROVE FALSE  OBVIOUS
      <4>1. j \in 1 .. e - 1  BY <1>1, <2>2
      <4>2. jnl[j].tn < jnl[e].tn /\ jnl[e].tn <= epoch_tn  BY <1>3, <2>2, <4>1 DEF JnlInv, EpochInv
      <4>3. jnl[e].tn \in Nat  BY <1>a, <2>2, AddrNat
      <4> QED  BY <1>1, <1>3, <4>2, <4>3
    <3> QED  BY <1>1, <2>2, <3>1, <3>2
  <2> QED  BY <2>1, <2>2 DEF Epochs
<1>5. PICK i \in Pblks(b) : e < i /\ i < j  BY <1>3, <1>4 DEF BeforeInv, BeforeFor
<1> QED  BY <1>5

(* What CMT06 reserves: the before-images f of n blocks, and the logical record *)
Fills(p, m, n, f) ==
  /\ m = Len(jnl) /\ Len(jnl') = m + n + 1 /\ f \in [1 .. n -> NeedPblk(p)]
  /\ \A i \in 1 .. m : jnl'[i] = jnl[i]
  /\ \A i \in m + 1 .. m + n : jnl'[i].type = "pblk" /\ jnl'[i].blks = {f[i - m]} /\ ~jnl'[i].written
  /\ jnl'[m + n + 1].type = "set" /\ jnl'[m + n + 1].blks = Upd(p)
  /\ \A b \in NeedPblk(p) : \E i \in 1 .. n : f[i] = b /\ jnl_freeaddr'[p][b] = m + i
  /\ \A b \in Block \ NeedPblk(p) : jnl_freeaddr'[p][b] = 0

LEMMA ReserveLog ==
  ASSUME Types, JobInv, NEW p \in Proc, Reserve(p)
  PROVE  \E m \in Nat, n \in Nat, f \in Seq(Block) : Fills(p, m, n, f)
<1>1. PICK m \in Nat : m = Len(jnl)  BY AddrNat
<1>2. PICK n \in Nat, f \in Seq(Block) : Reserved(p, m, n, f)  BY <1>1, ReserveIs
<1>3. \A i \in m + 1 .. m + n : jnl'[i].type = "pblk" /\ jnl'[i].blks = {f[i - m]} /\ ~jnl'[i].written
  <2> TAKE i \in m + 1 .. m + n
  <2>1. jnl'[i] = Unwritten(p, "pblk", {f[i - m]})  BY <1>2 DEF Reserved
  <2> QED  BY <2>1, UnwrittenIs
<1>4. jnl'[m + n + 1].type = "set" /\ jnl'[m + n + 1].blks = Upd(p)
  <2>1. jnl'[m + n + 1] = Unwritten(p, "set", Upd(p))  BY <1>2 DEF Reserved
  <2> QED  BY <2>1, UnwrittenIs
<1>5. /\ m = Len(jnl) /\ Len(jnl') = m + n + 1 /\ f \in [1 .. n -> NeedPblk(p)]
      /\ \A i \in 1 .. m : jnl'[i] = jnl[i]
      /\ \A b \in NeedPblk(p) : \E i \in 1 .. n : f[i] = b /\ jnl_freeaddr'[p][b] = m + i
      /\ \A b \in Block \ NeedPblk(p) : jnl_freeaddr'[p][b] = 0
  BY <1>1, <1>2 DEF Reserved
<1>6. Fills(p, m, n, f)  BY <1>3, <1>4, <1>5 DEF Fills
<1> QED  BY <1>6

LEMMA NeedPblkIs ==
  ASSUME Core, NEW p \in Proc, pc[p] \in InCommit, NEW b \in Upd(p)
  PROVE  b \in NeedPblk(p) <=> Ver(b).tn < epoch_tn
<1>1. CrOf(b) # {}  BY CommitData
<1>2. PICK c : c = The(CrOf(b))  OBVIOUS
<1>3. c \in Buffer /\ cr[c].blk = b  BY <1>1, <1>2, TheIs DEF CrOf
<1>4. cr[c].data = Ver(b)  BY <1>3, CommitData
<1> QED  BY <1>2, <1>4 DEF NeedPblk

(* The records of the journal after CMT06 *)
LEMMA ReserveSets ==
  ASSUME Types, NEW p \in Proc, NEW m \in Nat, NEW n \in Nat, NEW f, Fills(p, m, n, f)
  PROVE  /\ Epochs' = Epochs
         /\ \A b : Pblks(b)' = Pblks(b) \cup {i \in m + 1 .. m + n : b = f[i - m]}
<1>1. \A i \in 1 .. m + n + 1 : i \in 1 .. m \/ i \in m + 1 .. m + n \/ i = m + n + 1  OBVIOUS
<1>2. \A i \in 1 .. m : i \in 1 .. m + n + 1 /\ jnl'[i] = jnl[i]  BY DEF Fills
<1>3. \A i \in m + 1 .. m + n : i \in 1 .. m + n + 1 /\ jnl'[i].type = "pblk" /\ jnl'[i].blks = {f[i - m]}  BY DEF Fills
<1>4. jnl'[m + n + 1].type = "set" /\ Len(jnl') = m + n + 1 /\ Len(jnl) = m  BY DEF Fills
<1>5. Epochs' = Epochs  BY <1>1, <1>2, <1>3, <1>4 DEF Epochs
<1>6. \A b : Pblks(b)' = Pblks(b) \cup {i \in m + 1 .. m + n : b = f[i - m]}
  <2> TAKE b
  <2>1. Pblks(b)' = {i \in 1 .. m + n + 1 : jnl'[i].type = "pblk" /\ b \in jnl'[i].blks}  BY <1>4 DEF Pblks
  <2>2. Pblks(b) = {i \in 1 .. m : jnl[i].type = "pblk" /\ b \in jnl[i].blks}  BY <1>4 DEF Pblks
  <2> QED  BY <1>1, <1>2, <1>3, <1>4, <2>1, <2>2
<1> QED  BY <1>5, <1>6

LEMMA ImageReserve ==
  ASSUME Core, Core', JnlInv, ImageInv, BeforeInv, NEW p \in Proc, Reserve(p)
  PROVE  ImageInv' /\ BeforeInv'
<1>a. Types /\ JobInv /\ Types'  BY DEF Core
<1>0. PICK m \in Nat, n \in Nat, f \in Seq(Block) : Fills(p, m, n, f)  BY <1>a, ReserveLog
<1>b. /\ m = Len(jnl) /\ Len(jnl') = m + n + 1 /\ f \in [1 .. n -> NeedPblk(p)]
      /\ \A i \in 1 .. m : jnl'[i] = jnl[i]
      /\ \A i \in m + 1 .. m + n : jnl'[i].type = "pblk" /\ jnl'[i].blks = {f[i - m]} /\ ~jnl'[i].written
      /\ jnl'[m + n + 1].type = "set" /\ jnl'[m + n + 1].blks = Upd(p)
      /\ \A b \in NeedPblk(p) : \E i \in 1 .. n : f[i] = b
  BY <1>0 DEF Fills
<1>c. SameVersions /\ curr_tn \in Nat
  <2>1. Commit(p)  BY DEF Commit
  <2> QED  BY <1>a, <2>1, CommitSame, AddrNat
<1>d. pc[p] \in InCommit  BY DEF Reserve, InCommit
<1>e. Upd(p) \subseteq Block  BY <1>a, <1>d, JobFacts DEF InCommit
<1>1. ImageInv'
  <2> SUFFICES ASSUME NEW i \in 1 .. m + n + 1, jnl'[i].type = "pblk"  PROVE \E b \in Block : ImageFor(i, b)'
    BY <1>b DEF ImageInv
  <2>1. CASE i \in 1 .. m
    <3>1. PICK b \in Block : ImageFor(i, b)  BY <1>b, <2>1 DEF ImageInv
    <3>2. jnl[i].tn \in 0 .. curr_tn
      <4>1. jnl[i].tn \in Nat /\ jnl[i].tn <= curr_tn  BY <1>a, <1>b, <2>1, AddrNat DEF Core, TnInv
      <4> QED  BY <1>c, <4>1
    <3>3. PICK t : t = jnl[i].tn  OBVIOUS
    <3>4. VersionAt(b, t)' = VersionAt(b, t)  BY <1>c, <3>2, <3>3 DEF SameVersions
    <3>5. jnl'[i] = jnl[i]  BY <1>b, <2>1
    <3>6. ImageFor(i, b)'  BY <3>1, <3>3, <3>4, <3>5 DEF ImageFor
    <3> QED  BY <3>6
  <2>2. CASE i \in m + 1 .. m + n
    <3>1. PICK b : b = f[i - m]  OBVIOUS
    <3>2. b \in Block
      <4>1. i - m \in 1 .. n  BY <2>2
      <4>2. b \in NeedPblk(p)  BY <1>b, <3>1, <4>1
      <4> QED  BY <1>e, <4>2 DEF NeedPblk
    <3>3. ImageFor(i, b)'  BY <1>b, <2>2, <3>1 DEF ImageFor
    <3> QED  BY <3>2, <3>3
  <2>3. CASE i = m + n + 1  BY <1>b, <2>3
  <2> QED  BY <2>1, <2>2, <2>3
<1>2. BeforeInv'
  <2>0. Epochs' = Epochs /\ \A b : Pblks(b)' = Pblks(b) \cup {i \in m + 1 .. m + n : b = f[i - m]}  BY <1>a, <1>0, ReserveSets
  <2>a. \A e \in Epochs : e \in Nat /\ e <= m  BY <1>b DEF Epochs
  <2> SUFFICES ASSUME NEW e \in Epochs, NEW j \in 1 .. m + n + 1, NEW b \in Block, e < j, jnl'[j].type = "set", b \in jnl'[j].blks
               PROVE  \E i \in Pblks(b)' : e < i /\ i < j
    BY <1>b, <2>0 DEF BeforeInv, BeforeFor
  <2>1. CASE j \in 1 .. m
    <3>1. PICK i \in Pblks(b) : e < i /\ i < j  BY <1>b, <2>1 DEF BeforeInv, BeforeFor
    <3> QED  BY <2>0, <3>1
  <2>2. CASE j \in m + 1 .. m + n  BY <1>b, <2>2
  <2>3. CASE j = m + n + 1
    <3>1. b \in Upd(p)  BY <1>b, <2>3
    <3>2. CASE b \in NeedPblk(p)
      <4>1. PICK k \in 1 .. n : f[k] = b  BY <1>b, <3>2
      <4>2. PICK i : i = m + k  OBVIOUS
      <4>3. i \in m + 1 .. m + n /\ b = f[i - m] /\ e < i /\ i < j  BY <2>3, <2>a, <4>1, <4>2
      <4>4. i \in Pblks(b)'  BY <2>0, <4>3
      <4> QED  BY <4>3, <4>4
    <3>3. CASE b \notin NeedPblk(p)
      <4>1. PICK t \in Nat : t = Ver(b).tn  BY <1>a, <1>c, VersionIs DEF Ver
      <4>2. ~(t < epoch_tn) /\ epoch_tn \in Nat  BY <1>a, <1>d, <3>1, <3>3, <4>1, NeedPblkIs, AddrNat
      <4>3. epoch_tn <= t  BY <4>1, <4>2
      <4>4. PICK i \in Pblks(b) : e < i  BY <4>1, <4>3, AfterEpoch
      <4>5. i < j  BY <1>b, <2>3, <4>4 DEF Pblks
      <4> QED  BY <2>0, <4>4, <4>5
    <3> QED  BY <3>2, <3>3
  <2> QED  BY <2>1, <2>2, <2>3
<1> QED  BY <1>1, <1>2

NewEpoch(p) == WriteEpoch(p) /\ ~EpochCurrent

LEMMA EpochSets ==
  ASSUME Types, NEW p \in Proc, NewEpoch(p)
  PROVE  /\ Len(jnl) \in Nat /\ Len(jnl') = Len(jnl) + 1 /\ \A i \in 1 .. Len(jnl) : jnl'[i] = jnl[i]
         /\ jnl'[Len(jnl) + 1].type = "epoch" /\ epoch_tn' = curr_tn /\ need_db_fsync' = TRUE
         /\ Epochs' = Epochs \cup {Len(jnl) + 1} /\ \A b : Pblks(b)' = Pblks(b)
<1>1. PICK m : m = Len(jnl)  OBVIOUS
<1>2. /\ Len(jnl') = m + 1 /\ m \in Nat /\ \A i \in 1 .. m : jnl'[i] = jnl[i]
      /\ jnl'[m + 1] = EpochRec(p) /\ epoch_tn' = curr_tn /\ need_db_fsync' = TRUE
  BY <1>1, WriteEpochIs DEF NewEpoch
<1>3. jnl'[m + 1].type = "epoch"  BY <1>2 DEF EpochRec
<1>4. \A i \in 1 .. m + 1 : i \in 1 .. m \/ i = m + 1  BY <1>2
<1>5. Epochs' = Epochs \cup {m + 1}  BY <1>1, <1>2, <1>3, <1>4 DEF Epochs
<1>6. \A b : Pblks(b)' = Pblks(b)  BY <1>1, <1>2, <1>3, <1>4 DEF Pblks
<1> QED  BY <1>1, <1>2, <1>3, <1>5, <1>6

(* The same records, whatever else is new in them *)
LEMMA SameSetsOf ==
  ASSUME Types, Len(jnl') = Len(jnl),
         \A i \in 1 .. Len(jnl) : jnl'[i].type = jnl[i].type /\ jnl'[i].blks = jnl[i].blks
  PROVE  Epochs' = Epochs /\ \A b : Pblks(b)' = Pblks(b)
BY DEF Epochs, Pblks

LEMMA ImageEpoch ==
  ASSUME Core, ImageInv, BeforeInv, NEW p \in Proc, NewEpoch(p)
  PROVE  ImageInv' /\ BeforeInv'
<1>a. Types  BY DEF Core
<1>1. PICK m \in Nat : m = Len(jnl)  BY <1>a, AddrNat
<1>2. /\ Len(jnl') = m + 1 /\ \A i \in 1 .. m : jnl'[i] = jnl[i]
      /\ jnl'[m + 1].type = "epoch" /\ Epochs' = Epochs \cup {m + 1} /\ \A b : Pblks(b)' = Pblks(b)
  BY <1>a, <1>1, EpochSets
<1>c. SameVersions /\ curr_tn \in Nat
  <2>1. Commit(p)  BY DEF NewEpoch, Commit
  <2> QED  BY <1>a, <2>1, CommitSame, AddrNat
<1>3. ImageInv'
  <2> SUFFICES ASSUME NEW i \in 1 .. m + 1, jnl'[i].type = "pblk"  PROVE \E b \in Block : ImageFor(i, b)'
    BY <1>2 DEF ImageInv
  <2>1. i \in 1 .. m  BY <1>2
  <2>2. PICK b \in Block : ImageFor(i, b)  BY <1>1, <1>2, <2>1 DEF ImageInv
  <2>3. PICK t : t = jnl[i].tn  OBVIOUS
  <2>4. t \in 0 .. curr_tn
    <3>1. t \in Nat /\ t <= curr_tn  BY <1>a, <1>1, <2>1, <2>3, AddrNat DEF Core, TnInv
    <3> QED  BY <1>c, <3>1
  <2>5. VersionAt(b, t)' = VersionAt(b, t)  BY <1>c, <2>4 DEF SameVersions
  <2>6. jnl'[i] = jnl[i]  BY <1>2, <2>1
  <2>7. ImageFor(i, b)'  BY <2>2, <2>3, <2>5, <2>6 DEF ImageFor
  <2> QED  BY <2>7
<1>4. BeforeInv'
  <2> SUFFICES ASSUME NEW e \in Epochs \cup {m + 1}, NEW j \in 1 .. m + 1, NEW b \in Block, e < j, jnl'[j].type = "set",
                      b \in jnl'[j].blks
               PROVE  \E i \in Pblks(b) : e < i /\ i < j
    BY <1>2 DEF BeforeInv, BeforeFor
  <2>1. j \in 1 .. m  BY <1>2
  <2>2. e \in Epochs  BY <2>1
  <2> QED  BY <1>1, <1>2, <2>1, <2>2 DEF BeforeInv, BeforeFor
<1> QED  BY <1>3, <1>4

LEMMA ImageWrite ==
  ASSUME Core, Types', ImageInv, BeforeInv, CopyInv, NEW p \in Proc, WriteJnl(p)
  PROVE  ImageInv' /\ BeforeInv'
<1>a. Types /\ JobInv /\ PinInv  BY DEF Core
<1>1. PICK m \in Nat : m = Len(jnl)  BY <1>a, AddrNat
<1>2. /\ Len(jnl') = m
      /\ \A i \in 1 .. m :
              /\ jnl'[i].type = jnl[i].type /\ jnl'[i].blks = jnl[i].blks /\ jnl'[i].tn = jnl[i].tn
              /\ jnl[i].written \/ jnl[i].by # p => jnl'[i] = jnl[i]
              /\ ~jnl[i].written /\ jnl[i].by = p =>
                   /\ jnl'[i].written
                   /\ jnl[i].type = "pblk" => jnl'[i].image = cr[The(CrOf(Max(jnl[i].blks)))].data
  BY <1>a, <1>1, WriteJnlIs
<1>c. SameVersions /\ curr_tn \in Nat
  <2>1. Commit(p)  BY DEF Commit
  <2> QED  BY <1>a, <2>1, CommitSame, AddrNat
<1>d. pc[p] = "cmt16"  BY DEF WriteJnl
<1>3. ImageInv'
  <2> SUFFICES ASSUME NEW i \in 1 .. m, jnl[i].type = "pblk"  PROVE \E b \in Block : ImageFor(i, b)'
    BY <1>2 DEF ImageInv
  <2>2. PICK b \in Block : ImageFor(i, b)  BY <1>1 DEF ImageInv
  <2>3. PICK t : t = jnl[i].tn  OBVIOUS
  <2>4. t \in 0 .. curr_tn /\ t \in Nat
    <3>1. t \in Nat /\ t <= curr_tn  BY <1>a, <1>1, <2>3, AddrNat DEF Core, TnInv
    <3> QED  BY <1>c, <3>1
  <2>5. VersionAt(b, t)' = VersionAt(b, t)  BY <1>c, <2>4 DEF SameVersions
  <2>6. CASE jnl[i].written \/ jnl[i].by # p
    <3>1. jnl'[i] = jnl[i]  BY <1>2, <2>6
    <3>2. ImageFor(i, b)'  BY <2>2, <2>3, <2>5, <3>1 DEF ImageFor
    <3> QED  BY <3>2
  <2>7. CASE ~jnl[i].written /\ jnl[i].by = p
    <3>1. jnl[i].blks = {b}  BY <2>2 DEF ImageFor
    <3>2. t = ctn[p] /\ b \in Upd(p)
      <4>1. t = ctn[p] /\ \E x \in Upd(p) : jnl[i].blks = {x}  BY <1>1, <2>3, <2>7 DEF Core, OpenInv
      <4> QED  BY <3>1, <4>1
    <3>3. Max({b}) = b
      <4>1. b \in Nat  BY BlockNat
      <4>2. Max({b}) \in {b}  BY <4>1, MaxIs
      <4> QED  BY <4>2
    <3>4. b \in Pinned(p)  BY <1>d, <3>2 DEF Core, JobInv, JobFor, Pinned, Phase2
    <3>5. PICK d \in Buffer : cr[d].blk = b
      <4>1. hist[p][b] \in HistRec  BY <1>a DEF Types, HistTypes
      <4>2. hist[p][b].cr \in Buffer  BY <4>1, HistFields
      <4> QED  BY <1>a, <3>4, <4>2 DEF PinInv
    <3>6. PICK c : c = The(CrOf(b))  OBVIOUS
    <3>7. c \in Buffer /\ cr[c].blk = b  BY <3>5, <3>6, TheIs DEF CrOf
    <3>8. cr[c].data = VersionAt(b, t)  BY <1>d, <2>4, <3>2, <3>7 DEF CopyInv, CopyFor
    <3>a. jnl'[i].image = cr[The(CrOf(Max(jnl[i].blks)))].data  BY <1>2, <2>7
    <3>b. jnl'[i].image = cr[c].data  BY <3>1, <3>3, <3>6, <3>a
    <3>c. jnl'[i].blks = jnl[i].blks /\ jnl'[i].tn = jnl[i].tn  BY <1>2
    <3>9. jnl'[i].image = VersionAt(b, t) /\ jnl'[i].blks = {b} /\ jnl'[i].tn = t
      BY <2>3, <3>1, <3>8, <3>b, <3>c
    <3>10. ImageFor(i, b)'  BY <2>5, <3>9 DEF ImageFor
    <3> QED  BY <3>10
  <2> QED  BY <2>6, <2>7
<1>4. BeforeInv'
  <2>1. Epochs' = Epochs /\ \A b : Pblks(b)' = Pblks(b)  BY <1>a, <1>1, <1>2, SameSetsOf
  <2>2. ASSUME NEW e \in Epochs, NEW j \in 1 .. m, NEW b \in Block  PROVE BeforeFor(e, j, b)'
    <3>1. BeforeFor(e, j, b)  BY <1>1 DEF BeforeInv
    <3> QED  BY <1>2, <2>1, <3>1 DEF BeforeFor
  <2> QED  BY <1>2, <2>1, <2>2 DEF BeforeInv
<1> QED  BY <1>3, <1>4

Images == ImageInv /\ BeforeInv /\ CopyInv

LEMMA ImageNext ==
  ASSUME Core, JnlInv, Images, [Next]_vars
  PROVE  Images'
<1>a. Types /\ ImageInv /\ BeforeInv /\ CopyInv  BY DEF Core, Images
<1>b. Core'  BY CoreNext
<1>c. Types'  BY <1>b DEF Core
<1>1. ASSUME jnl' = jnl  PROVE ImageInv' /\ BeforeInv'
  <2>1. (\A b, t : VersionAt(b, t)' = VersionAt(b, t)) /\ Epochs' = Epochs /\ \A b : Pblks(b)' = Pblks(b)
    BY <1>1, JnlSame DEF Epochs, Pblks
  <2>2. ImageInv'
    <3> SUFFICES ASSUME NEW i \in 1 .. Len(jnl), jnl[i].type = "pblk"  PROVE \E b \in Block : ImageFor(i, b)'
      BY <1>1 DEF ImageInv
    <3>1. PICK b \in Block : ImageFor(i, b)  BY <1>a DEF ImageInv
    <3>2. PICK t : t = jnl[i].tn  OBVIOUS
    <3>3. ImageFor(i, b)'  BY <1>1, <2>1, <3>1, <3>2 DEF ImageFor
    <3> QED  BY <3>3
  <2>3. BeforeInv'  BY <1>1, <1>a, <2>1 DEF BeforeInv, BeforeFor
  <2> QED  BY <2>2, <2>3
<1>2. ASSUME NEW p \in Proc, LogStep(p)  PROVE ImageInv' /\ BeforeInv'
  <2>1. CASE WriteEpoch(p)
    <3>1. CASE EpochCurrent
      <4>1. jnl' = jnl  BY <2>1, <3>1 DEF WriteEpoch
      <4> QED  BY <1>1, <4>1
    <3>2. CASE ~EpochCurrent  BY <1>a, <2>1, <3>2, ImageEpoch DEF NewEpoch
    <3> QED  BY <3>1, <3>2
  <2>2. CASE Reserve(p)  BY <1>a, <1>b, <2>2, ImageReserve
  <2>3. CASE IncrementTn(p)
    <3>1. jnl' = jnl  BY <2>3 DEF IncrementTn, jnlvars
    <3> QED  BY <1>1, <3>1
  <2>4. CASE WriteJnl(p)  BY <1>a, <1>c, <2>4, ImageWrite
  <2> QED  BY <1>2, <2>1, <2>2, <2>3, <2>4 DEF LogStep
<1>3. ImageInv' /\ BeforeInv'
  <2>1. ASSUME NEW p \in Proc, Search(p) \/ TEnd(p)  PROVE jnl' = jnl  BY <2>1, LogSearch DEF SameLog
  <2>2. ASSUME NEW p \in Proc, Commit(p)  PROVE jnl' = jnl \/ LogStep(p)  BY <2>2, LogCommit DEF SameLog
  <2>3. ASSUME NEW w \in Writer, WtStep(w)  PROVE jnl' = jnl  BY <2>3, WtrFrameIs DEF WtrFrame
  <2>4. JnlQio => jnl' = jnl  BY DEF JnlQio
  <2>5. UNCHANGED vars => jnl' = jnl  BY DEF vars
  <2> QED  BY <1>1, <1>2, <2>1, <2>2, <2>3, <2>4, <2>5 DEF Next, ProcStep
<1>4. CopyInv'  BY <1>a, CopyNext
<1> QED  BY <1>3, <1>4 DEF Images

LEMMA InitImages ==
  ASSUME Init
  PROVE  Images
<1>1. jnl = << >> /\ pc = [p \in Proc |-> "idle"]  BY DEF Init
<1>2. Len(jnl) = 0  BY <1>1
<1>3. ImageInv /\ BeforeInv  BY <1>2 DEF ImageInv, BeforeInv
<1>4. CopyInv  BY <1>1 DEF CopyInv, CopyFor
<1> QED  BY <1>3, <1>4 DEF Images

-----------------------------------------------------------------------------
(* Journal before database *)

(* A before-image of b after every epoch is among the first n records, or is hardened *)
Guarded(b, n) == \A e \in Epochs : \E i \in Pblks(b) : e < i /\ i <= n
Hard(b) == \A e \in Epochs : \E i \in Pblks(b) : e < i /\ i <= fsync_dskaddr
Safe(b, n) == Guarded(b, n) \/ Hard(b)

(* p has made c dirty, and is yet to set its jnl_addr *)
Fresh(c, p) == cr[c].blk \in Unbuilt(p) /\ cr[c].tn = 0

(* The buffer c of block b may be written once the journal is hardened up to its jnl_addr *)
BufFor(c, b) ==
  /\ cr[c].dirty # 0 /\ (\A p \in Proc : ~Fresh(c, p)) => \A n \in Nat : cr[c].jnl_addr = n => Safe(b, n)
  /\ \A p \in Proc : Fresh(c, p) => \A n \in Nat : jnl_freeaddr[p][b] = n => Safe(b, n)
  /\ \A w \in Writer : wtr[w].pc \in {"lock", "write"} /\ wtr[w].cr = c => Hard(b)
BufInv == \A c \in Buffer, b \in Block : cr[c].blk = b => BufFor(c, b)

(* A block changed since the last epoch has a before-image, hardened once its buffer is clean *)
CleanFor(b) == (\A c \in Buffer : cr[c].blk = b => cr[c].dirty = 0) =>
                 \A t \in Nat : Ver(b).tn = t /\ epoch_tn <= t => Hard(b)
CleanInv == \A b \in Block : CleanFor(b)

(* A commit has reserved the before-images that are missing *)
EarlyFor(p, b) == pc[p] \in Early /\ b \in Upd(p) => \A n \in Nat : jnl_freeaddr[p][b] = n =>
                    IF n = 0 THEN epoch_tn <= Ver(b).tn ELSE Guarded(b, n)
EarlyInv == \A p \in Proc, b \in Block : EarlyFor(p, b)

WalInv == BufInv /\ CleanInv /\ EarlyInv

(* Every step but an epoch leaves the guards in place *)
Grows == /\ Epochs' = Epochs /\ (\A b : Pblks(b) \subseteq Pblks(b)')
         /\ fsync_dskaddr <= fsync_dskaddr' /\ epoch_tn' = epoch_tn

LEMMA GrowsSafe ==
  ASSUME Types, Types', Grows, NEW b
  PROVE  /\ Hard(b) => Hard(b)'
         /\ \A n \in Nat : (Guarded(b, n) => Guarded(b, n)') /\ (Safe(b, n) => Safe(b, n)')
<1>1. fsync_dskaddr \in Nat /\ fsync_dskaddr' \in Nat  BY DEF Types, FileTypes
<1>2. Pblks(b) \subseteq Nat  BY AddrNat DEF Pblks
<1>3. Hard(b) => Hard(b)'  BY <1>1, <1>2 DEF Hard, Grows
<1>4. \A n \in Nat : Guarded(b, n) => Guarded(b, n)'  BY DEF Guarded, Grows
<1> QED  BY <1>3, <1>4 DEF Safe

LEMMA GrowsLog ==
  ASSUME Core, Core', JnlInv, JnlInv', [Next]_vars, \A p \in Proc : ~NewEpoch(p)
  PROVE  Grows
<1>a. Types /\ Types' /\ JobInv  BY DEF Core
<1>b. fsync_dskaddr \in Nat /\ dskaddr \in Nat /\ fsync_dskaddr <= dskaddr
  BY <1>a, AddrNat DEF JnlInv, AddrInv
<1>1. ASSUME jnl' = jnl, epoch_tn' = epoch_tn, fsync_dskaddr' = fsync_dskaddr \/ fsync_dskaddr <= fsync_dskaddr'
      PROVE  Grows
  BY <1>b, <1>1 DEF Grows, Epochs, Pblks
<1>2. ASSUME NEW p \in Proc, Search(p) \/ TEnd(p)  PROVE Grows  BY <1>1, <1>2, LogSearch DEF SameLog, SameFiles
<1>3. ASSUME NEW p \in Proc, FlushJnl(p)  PROVE Grows
  <2>1. jnl' = jnl /\ epoch_tn' = epoch_tn /\ fsync_dskaddr' = freeaddr  BY <1>3 DEF FlushJnl, JnlOutput
  <2>2. dskaddr <= freeaddr /\ freeaddr \in Nat
    <3>1. Len(jnl) \in Nat /\ dskaddr \in 0 .. Len(jnl)  BY <1>a, <1>b, AddrNat DEF JnlInv, AddrInv
    <3> QED  BY <1>a, <3>1, FreeaddrIs DEF JnlInv, AddrInv
  <2> QED  BY <1>1, <1>b, <2>1, <2>2
<1>4. ASSUME NEW p \in Proc, LogStep(p)  PROVE Grows
  <2>1. fsync_dskaddr' = fsync_dskaddr /\ (~WriteEpoch(p) => epoch_tn' = epoch_tn)  BY <1>4, LogFiles
  <2>2. CASE WriteEpoch(p)
    <3>1. EpochCurrent  BY <2>2 DEF NewEpoch
    <3>2. jnl' = jnl /\ epoch_tn' = epoch_tn  BY <2>2, <3>1 DEF WriteEpoch
    <3> QED  BY <1>1, <2>1, <3>2
  <2>3. CASE Reserve(p)
    <3>1. PICK m \in Nat, n \in Nat, f \in Seq(Block) : Fills(p, m, n, f)  BY <1>a, <2>3, ReserveLog
    <3>2. Epochs' = Epochs /\ \A b : Pblks(b) \subseteq Pblks(b)'  BY <1>a, <3>1, ReserveSets
    <3>3. epoch_tn' = epoch_tn  BY <2>3 DEF Reserve
    <3> QED  BY <1>b, <2>1, <3>2, <3>3 DEF Grows
  <2>4. CASE IncrementTn(p)  BY <1>1, <2>4 DEF IncrementTn, jnlvars
  <2>5. CASE WriteJnl(p)
    <3>1. Epochs' = Epochs /\ \A b : Pblks(b)' = Pblks(b)
      <4>1. Len(jnl') = Len(jnl) /\ \A i \in 1 .. Len(jnl) : jnl'[i].type = jnl[i].type /\ jnl'[i].blks = jnl[i].blks
        BY <1>a, <2>5, WriteJnlIs
      <4> QED  BY <1>a, <4>1, SameSetsOf
    <3>2. epoch_tn' = epoch_tn  BY <2>5 DEF WriteJnl
    <3> QED  BY <1>b, <2>1, <3>1, <3>2 DEF Grows
  <2> QED  BY <1>4, <2>2, <2>3, <2>4, <2>5 DEF LogStep
<1>5. ASSUME NEW p \in Proc, Commit(p)  PROVE Grows
  BY <1>1, <1>3, <1>4, <1>5, LogCommit DEF SameLog, SameFiles
<1>6. ASSUME NEW w \in Writer, WtStep(w)  PROVE Grows
  <2>1. jnl' = jnl /\ epoch_tn' = epoch_tn  BY <1>6, WtrFrameIs DEF WtrFrame
  <2>2. fsync_dskaddr' = fsync_dskaddr \/ fsync_dskaddr' = dskaddr
    BY <1>6 DEF WtStep, WtStart, WtLock, WtWrite, WtRelease, jnlvars
  <2> QED  BY <1>1, <1>b, <2>1, <2>2
<1>7. CASE JnlQio  BY <1>1, <1>7 DEF JnlQio
<1>8. CASE UNCHANGED vars  BY <1>1, <1>8 DEF vars
<1> QED  BY <1>2, <1>5, <1>6, <1>7, <1>8 DEF Next, ProcStep

-----------------------------------------------------------------------------
(* What keeps the parts of the invariant *)

LEMMA BufKeep ==
  ASSUME Types, Types', Grows, NEW c, NEW b, BufFor(c, b), cr[c].blk = b, cr'[c].blk = b,
         cr'[c].dirty # 0 => cr[c].dirty # 0, SameTn(c), SameAddr(c),
         \A q \in Proc : b \in Unbuilt(q)' <=> b \in Unbuilt(q),
         \A q \in Proc : b \in Unbuilt(q) => jnl_freeaddr'[q][b] = jnl_freeaddr[q][b],
         \A w \in Writer : wtr'[w].pc \in {"lock", "write"} /\ wtr'[w].cr = c => wtr[w].pc \in {"lock", "write"} /\ wtr[w].cr = c
  PROVE  BufFor(c, b)'
<1>1. /\ Hard(b) => Hard(b)'
      /\ \A n \in Nat : Safe(b, n) => Safe(b, n)'
  BY GrowsSafe
<1>2. \A q \in Proc : Fresh(c, q)' <=> Fresh(c, q)  BY DEF Fresh, SameTn
<1>3. cr'[c].dirty # 0 /\ (\A p \in Proc : ~Fresh(c, p)') => \A n \in Nat : cr'[c].jnl_addr = n => Safe(b, n)'
  BY <1>1, <1>2 DEF BufFor, SameAddr
<1>4. ASSUME NEW p \in Proc, Fresh(c, p)', NEW n \in Nat, jnl_freeaddr'[p][b] = n  PROVE Safe(b, n)'
  <2>1. Fresh(c, p) /\ b \in Unbuilt(p)  BY <1>2, <1>4 DEF Fresh
  <2> QED  BY <1>1, <1>4, <2>1 DEF BufFor
<1>5. \A w \in Writer : wtr'[w].pc \in {"lock", "write"} /\ wtr'[w].cr = c => Hard(b)'  BY <1>1 DEF BufFor
<1> QED  BY <1>3, <1>4, <1>5 DEF BufFor

LEMMA BufClean ==
  ASSUME WtrInv', NEW c \in Buffer', cr'[c].dirty = 0, NEW b
  PROVE  BufFor(c, b)'
<1>1. WtrFor(c)'  BY DEF WtrInv
<1>2. ASSUME NEW q \in Proc  PROVE ~Fresh(c, q)'
  <2>1. cr'[c].blk \notin Locked(q)'  BY <1>1 DEF WtrFor
  <2> QED  BY <2>1 DEF Fresh, Unbuilt
<1>3. \A w \in Writer : wtr'[w].cr = c => wtr'[w].pc \notin {"lock", "write"}  BY <1>1 DEF WtrFor, Busy
<1> QED  BY <1>2, <1>3 DEF BufFor

LEMMA CleanStep ==
  ASSUME Types, Types', CleanInv, Grows, Buffer' = Buffer, \A b \in Block : Ver(b)' = Ver(b),
         \A c \in Buffer : cr[c].dirty # 0 => cr'[c].dirty # 0 /\ cr'[c].blk = cr[c].blk
  PROVE  CleanInv'
<1> SUFFICES ASSUME NEW b \in Block, \A c \in Buffer : cr'[c].blk = b => cr'[c].dirty = 0,
                    NEW t \in Nat, Ver(b)'.tn = t, epoch_tn' <= t
             PROVE  Hard(b)'
  BY DEF CleanInv, CleanFor
<1>1. \A c \in Buffer : cr[c].blk = b => cr[c].dirty = 0  OBVIOUS
<1>2. Hard(b)  BY <1>1 DEF CleanInv, CleanFor, Grows
<1> QED  BY <1>2, GrowsSafe

LEMMA EarlyStep ==
  ASSUME Types, Types', EarlyInv, Grows, NEW p, Others(p), \A b \in Block : Ver(b)' = Ver(b),
         p \in Proc /\ pc'[p] \in Early => pc[p] \in Early /\ Upd(p)' = Upd(p) /\ jnl_freeaddr'[p] = jnl_freeaddr[p]
  PROVE  EarlyInv'
<1> SUFFICES ASSUME NEW q \in Proc, NEW b \in Block, pc'[q] \in Early, b \in Upd(q)', NEW n \in Nat, jnl_freeaddr'[q][b] = n
             PROVE  IF n = 0 THEN epoch_tn' <= Ver(b)'.tn ELSE Guarded(b, n)'
  BY DEF EarlyInv, EarlyFor
<1>1. pc[q] \in Early /\ b \in Upd(q) /\ jnl_freeaddr[q][b] = n
  <2>1. CASE q = p  BY <2>1
  <2>2. CASE q # p  BY <2>2, OtherSets DEF Others
  <2> QED  BY <2>1, <2>2
<1>2. IF n = 0 THEN epoch_tn <= Ver(b).tn ELSE Guarded(b, n)  BY <1>1 DEF EarlyInv, EarlyFor
<1>3. epoch_tn' = epoch_tn /\ Ver(b)' = Ver(b)  BY DEF Grows
<1> QED  BY <1>2, <1>3, GrowsSafe

-----------------------------------------------------------------------------
(* The steps *)

LEMMA BufAll ==
  ASSUME Types, Types', BufInv, Grows, Buffer' = Buffer, wtr' = wtr, NEW p, Others(p),
         \A c \in Buffer : SameId(c) /\ SameWtr(c) /\ SameTn(c) /\ SameAddr(c),
         p \in Proc => Unbuilt(p)' = Unbuilt(p) /\ (jnl_freeaddr'[p] = jnl_freeaddr[p] \/ Unbuilt(p) = {})
  PROVE  BufInv'
<1> SUFFICES ASSUME NEW c \in Buffer, NEW b \in Block, cr'[c].blk = b  PROVE BufFor(c, b)'  BY DEF BufInv
<1>1. cr[c].blk = b /\ BufFor(c, b)  BY DEF SameId, BufInv
<1>2. ASSUME NEW q \in Proc  PROVE (b \in Unbuilt(q)' <=> b \in Unbuilt(q)) /\ (b \in Unbuilt(q) => jnl_freeaddr'[q][b] = jnl_freeaddr[q][b])
  <2>1. CASE q = p  BY <2>1
  <2>2. CASE q # p  BY <2>2, OtherSets DEF Others
  <2> QED  BY <2>1, <2>2
<1>3. SameTn(c) /\ SameAddr(c) /\ cr'[c].dirty = cr[c].dirty  BY DEF SameWtr
<1> QED  BY <1>1, <1>2, <1>3, BufKeep

LEMMA WalQuiet ==
  ASSUME Core, Core', WalInv, Grows, NEW p, Quiet(p),
         p \in Proc => jnl_freeaddr'[p] = jnl_freeaddr[p] \/ Unbuilt(p) = {}
  PROVE  BufInv' /\ CleanInv'
<1>a. Types /\ Types' /\ BufInv /\ CleanInv  BY DEF Core, WalInv
<1>1. cr' = cr /\ wtr' = wtr /\ Others(p) /\ SameVersions /\ curr_tn' = curr_tn  BY DEF Quiet
<1>2. Buffer' = Buffer /\ \A c \in Buffer : SameId(c) /\ SameWtr(c) /\ SameTn(c) /\ SameAddr(c)
  BY <1>1 DEF Buffer, SameId, SameWtr, SameTn, SameAddr
<1>3. BufInv'  BY <1>a, <1>1, <1>2, BufAll DEF Quiet
<1>4. \A b \in Block : Ver(b)' = Ver(b)  BY <1>a, <1>1, SameVer
<1>5. CleanInv'  BY <1>a, <1>1, <1>2, <1>4, CleanStep
<1> QED  BY <1>3, <1>5

(* The buffer c of block b is changed by p *)
LEMMA BufOne ==
  ASSUME Types, Types', BufInv, Grows, NEW p, Others(p), NEW c \in Buffer, NEW b, Only(c),
         \A d \in Buffer \ {c} : cr[d].blk # b,
         \A w \in Writer : wtr'[w].pc \in {"lock", "write"} /\ wtr'[w].cr # c => wtr'[w] = wtr[w],
         p \in Proc => /\ \A e \in Block \ {b} : e \in Unbuilt(p)' <=> e \in Unbuilt(p)
                       /\ jnl_freeaddr'[p] = jnl_freeaddr[p],
         \A e \in Block : cr'[c].blk = e => BufFor(c, e)'
  PROVE  BufInv'
<1> SUFFICES ASSUME NEW d \in Buffer, NEW e \in Block, d # c, cr'[d].blk = e  PROVE BufFor(d, e)'
  BY DEF BufInv, Only
<1>1. cr'[d] = cr[d]  BY DEF Only
<1>2. cr[d].blk = e /\ BufFor(d, e) /\ e # b  BY <1>1 DEF BufInv
<1>3. ASSUME NEW q \in Proc  PROVE (e \in Unbuilt(q)' <=> e \in Unbuilt(q)) /\ jnl_freeaddr'[q][e] = jnl_freeaddr[q][e]
  <2>1. CASE q = p  BY <1>2, <2>1
  <2>2. CASE q # p
    <3>1. Unbuilt(q)' = Unbuilt(q)  BY <2>2, OtherSets
    <3>2. jnl_freeaddr'[q] = jnl_freeaddr[q]  BY <2>2 DEF Others
    <3> QED  BY <3>1, <3>2
  <2> QED  BY <2>1, <2>2
<1>4. SameTn(d) /\ SameAddr(d) /\ cr'[d].dirty = cr[d].dirty  BY <1>1 DEF SameTn, SameAddr
<1>5. \A w \in Writer : wtr'[w].pc \in {"lock", "write"} /\ wtr'[w].cr = d => wtr[w].pc \in {"lock", "write"} /\ wtr[w].cr = d
  OBVIOUS
<1> QED  BY <1>1, <1>2, <1>3, <1>4, <1>5, BufKeep

LEMMA BufRead ==
  ASSUME Core, Core', BufInv, Grows, NEW p \in Proc, Others(p), NewBuffer(p) \/ DskRead(p)
  PROVE  BufInv' /\ \A c \in Buffer : cr[c].dirty # 0 => cr'[c].dirty # 0 /\ cr'[c].blk = cr[c].blk
<1>a. Types /\ Types' /\ JobInv /\ ReadInv /\ WtrInv'  BY DEF Core
<1>b. jnl_freeaddr' = jnl_freeaddr  BY DEF NewBuffer, GetBuffer, DskRead, cmtvars
<1>1. PICK c \in Buffer : Only(c) /\ cr[c].dirty = 0 /\ cr'[c].dirty = 0
  <2>1. CASE NewBuffer(p)
    <3>1. PICK c \in Reusable(p) : c \in Buffer /\ Only(c) /\ SameWtr(c)  BY <1>a, <2>1, NewBufferIs
    <3> QED  BY <3>1 DEF Reusable, SameWtr
  <2>2. CASE DskRead(p)
    <3>1. pc[p] = "read" /\ Hist(p).cr \in Buffer /\ Only(Hist(p).cr) /\ SameWtr(Hist(p).cr)  BY <1>a, <2>2, DskReadIs
    <3> QED  BY <1>a, <3>1 DEF ReadInv, SameWtr
  <2> QED  BY <2>1, <2>2
<1>2. NewSets(p) /\ wtr' = wtr  BY <1>a, NewBufferIs, DskReadIs
<1>3. \A e : BufFor(c, e)'
  <2>1. c \in Buffer'  BY <1>1 DEF Only
  <2> QED  BY <1>a, <1>1, <2>1, BufClean
<1>4. PICK b : \A d \in Buffer : cr[d].blk # b
  <2>1. PICK b : b \notin Block \cup {NoBlock}
    <3>1. -1 \notin Block \cup {NoBlock}  BY BlockNat
    <3> QED  BY <3>1
  <2> QED  BY <1>a, <2>1, CrFields
<1>5. BufInv'  BY <1>a, <1>b, <1>1, <1>2, <1>3, <1>4, BufOne DEF NewSets
<1> QED  BY <1>1, <1>5 DEF Only

(* End of phase 1: a clean buffer becomes dirty with the before-image its commit reserved *)
LEMMA BufDirtied ==
  ASSUME Core, Core', WalInv, Grows, NEW p \in Proc, Others(p), NEW b, NEW c, Turn(p, b, c), pc[p] \in {"cmt10", "cmt10w"},
         DirtiedIs(p, c), wtr' = wtr, jnl_freeaddr' = jnl_freeaddr,
         Unbuilt(p)' = Unbuilt(p) \cup {b}
  PROVE  BufInv'
<1>a. Types /\ Types' /\ JobInv /\ PinInv /\ BufInv /\ WtrInv  BY DEF Core, WalInv
<1>0. c \in Buffer /\ b \in Block /\ cr[c].blk = b /\ cr'[c].blk = b /\ b \in rem[p] /\ b \in Upd(p) /\ pc[p] \in Early
  BY DEF Turn, DirtiedIs, SameId, Early
<1>1. /\ \A d \in Buffer \ {c} : cr[d].blk # b
      /\ \A q \in Proc \ {p} : b \notin Unbuilt(q)
  BY <1>a, TurnAlone
<1>2. b \notin Unbuilt(p)  BY <1>0 DEF Unbuilt, Locked, Early, Phase2
<1>3. \A q \in Proc \ {p} : b \notin Unbuilt(q)'  BY <1>1, OtherSets
<1>4. \A n \in Nat : Safe(b, n) => Safe(b, n)'  BY <1>a, GrowsSafe
<1>5. BufFor(c, b)'
  <2>1. BufFor(c, b)  BY <1>0, <1>a DEF BufInv
  <2>2. CASE cr[c].dirty = 0
    <3>1. Fresh(c, p)' /\ \A q \in Proc \ {p} : ~Fresh(c, q)'  BY <1>0, <1>3, <2>2 DEF DirtiedIs, Fresh
    <3>2. ASSUME NEW n \in Nat, jnl_freeaddr[p][b] = n  PROVE Safe(b, n)
      <4>1. IF n = 0 THEN epoch_tn <= Ver(b).tn ELSE Guarded(b, n)  BY <1>0, <3>2 DEF WalInv, EarlyInv, EarlyFor
      <4>2. ASSUME epoch_tn <= Ver(b).tn  PROVE Hard(b)
        <5>1. \A d \in Buffer : cr[d].blk = b => cr[d].dirty = 0  BY <1>1, <2>2
        <5>2. Ver(b).tn \in Nat  BY <1>a, VerNat
        <5> QED  BY <1>0, <4>2, <5>1, <5>2 DEF WalInv, CleanInv, CleanFor
      <4> QED  BY <4>1, <4>2 DEF Safe
    <3>3. \A w \in Writer : wtr[w].cr = c => wtr[w].pc \notin {"lock", "write"}
      <4>1. WtrFor(c)  BY <1>0, <1>a DEF WtrInv
      <4> QED  BY <2>2, <4>1 DEF WtrFor, Busy
    <3>4. \A q \in Proc : Fresh(c, q)' => \A n \in Nat : jnl_freeaddr'[q][b] = n => Safe(b, n)'
      BY <1>4, <3>1, <3>2
    <3> QED  BY <3>1, <3>3, <3>4 DEF BufFor
  <2>3. CASE cr[c].dirty # 0
    <3>1. ctn[p] \in Nat /\ ctn[p] # 0
      <4>1. ctn[p] = curr_tn  BY <1>0 DEF Core, TnInv
      <4> QED  BY <1>a, <4>1 DEF Types, FileTypes
    <3>2. \A q \in Proc : ~Fresh(c, q)'  BY <2>3, <3>1 DEF DirtiedIs, Fresh
    <3>3. \A q \in Proc : ~Fresh(c, q)  BY <1>0, <1>1, <1>2 DEF Fresh
    <3>4. \A n \in Nat : cr'[c].jnl_addr = n => Safe(b, n)'  BY <1>4, <2>1, <2>3, <3>3 DEF BufFor, DirtiedIs, SameAddr
    <3>5. \A w \in Writer : wtr'[w].pc \in {"lock", "write"} /\ wtr'[w].cr = c => Hard(b)'  BY <1>a, <2>1, GrowsSafe DEF BufFor
    <3> QED  BY <3>2, <3>4, <3>5 DEF BufFor
  <2> QED  BY <2>2, <2>3
<1> QED  BY <1>a, <1>0, <1>1, <1>5, BufOne DEF DirtiedIs

(* A step of p that leaves what the guards of its buffer depend on *)
LEMMA BufSteady ==
  ASSUME Types, Types', JobInv, PinInv, BufInv, Grows, NEW p \in Proc, Others(p), NEW b, NEW c, Turn(p, b, c),
         pc[p] \in {"cmt10", "cmt10w"} \cup Phase2, Only(c), SameId(c), SameTn(c), SameAddr(c), cr'[c].dirty = cr[c].dirty,
         wtr' = wtr, jnl_freeaddr' = jnl_freeaddr, Unbuilt(p)' = Unbuilt(p)
  PROVE  BufInv'
<1>0. c \in Buffer /\ b \in Block /\ cr[c].blk = b /\ cr'[c].blk = b  BY DEF Turn, SameId
<1>1. \A d \in Buffer \ {c} : cr[d].blk # b  BY TurnAlone
<1>2. \A q \in Proc : Unbuilt(q)' = Unbuilt(q)  BY OtherSets
<1>3. BufFor(c, b)  BY <1>0 DEF BufInv
<1>4. BufFor(c, b)'  BY <1>0, <1>2, <1>3, BufKeep
<1>5. \A e \in Block : cr'[c].blk = e => BufFor(c, e)'  BY <1>0, <1>4
<1>6. \A w \in Writer : wtr'[w].pc \in {"lock", "write"} /\ wtr'[w].cr # c => wtr'[w] = wtr[w]  OBVIOUS
<1>7. (\A e \in Block \ {b} : e \in Unbuilt(p)' <=> e \in Unbuilt(p)) /\ jnl_freeaddr'[p] = jnl_freeaddr[p]  OBVIOUS
<1> QED  BY <1>0, <1>1, <1>5, <1>6, <1>7, BufOne

LEMMA BufPhase1 ==
  ASSUME Core, Core', WalInv, Grows, NEW p \in Proc, Others(p), Phase1(p) \/ Phase1Wait(p)
  PROVE  BufInv' /\ \A c \in Buffer : cr[c].dirty # 0 => cr'[c].dirty # 0 /\ cr'[c].blk = cr[c].blk
<1>a. Types /\ Types' /\ JobInv /\ PinInv /\ BufInv  BY DEF Core, WalInv
<1>1. PICK b, c : b = Cse(p) /\ c = CseCr(p)  OBVIOUS
<1>2. Turn(p, b, c) /\ CommitFrame(p) /\ pc[p] \in {"cmt10", "cmt10w"}  BY <1>a, <1>1, Phase1Is, Phase1WaitIs
<1>3. wtr' = wtr /\ jnl_freeaddr' = jnl_freeaddr  BY <1>2 DEF CommitFrame
<1>4. CASE DirtiedIs(p, c) /\ Unbuilt(p)' = Unbuilt(p) \cup {b}
  <2>1. BufInv'  BY <1>2, <1>3, <1>4, BufDirtied
  <2>2. c \in Buffer /\ Only(c) /\ cr'[c].blk = cr[c].blk  BY <1>2, <1>4 DEF Turn, DirtiedIs, SameId
  <2>3. cr[c].dirty # 0 => cr'[c].dirty # 0  BY <1>4 DEF DirtiedIs
  <2> QED  BY <2>1, <2>2, <2>3 DEF Only
<1>5. CASE /\ Only(c) /\ SameId(c) /\ SameTn(c) /\ SameAddr(c) /\ cr'[c].dirty = cr[c].dirty
           /\ Unbuilt(p)' = Unbuilt(p)
  <2>1. BufInv'  BY <1>a, <1>2, <1>3, <1>5, BufSteady
  <2> QED  BY <1>5, <2>1 DEF Only, SameId
<1> QED  BY <1>a, <1>1, <1>4, <1>5, Phase1Is, Phase1WaitIs

LEMMA BufBuildEnd ==
  ASSUME Core, Core', WalInv, Grows, NEW p \in Proc, Others(p), BuildEnd(p)
  PROVE  BufInv' /\ \A c \in Buffer : cr[c].dirty # 0 => cr'[c].dirty # 0 /\ cr'[c].blk = cr[c].blk
<1>a. Types /\ Types' /\ JobInv /\ PinInv /\ BufInv  BY DEF Core, WalInv
<1>1. PICK b, c : b = Cse(p) /\ c = CseCr(p)  OBVIOUS
<1>2. /\ Turn(p, b, c) /\ CommitFrame(p) /\ pc[p] = "cmt18b"
      /\ Unbuilt(p)' = Unbuilt(p) \ {b} /\ b \in Unbuilt(p)
      /\ Only(c) /\ SameId(c) /\ SameTn(c) /\ cr'[c].dirty = cr[c].dirty
      /\ cr[c].tn # 0 => SameAddr(c)
      /\ cr[c].tn = 0 => cr'[c].jnl_addr = jnl_freeaddr[p][b]
  BY <1>a, <1>1, BuildEndIs
<1>3. wtr' = wtr /\ jnl_freeaddr' = jnl_freeaddr  BY <1>2 DEF CommitFrame
<1>0. c \in Buffer /\ b \in Block /\ cr[c].blk = b /\ cr'[c].blk = b  BY <1>2 DEF Turn, SameId
<1>4. /\ \A d \in Buffer \ {c} : cr[d].blk # b
      /\ \A q \in Proc \ {p} : b \notin Unbuilt(q)
  BY <1>a, <1>2, TurnAlone DEF Phase2
<1>5. \A q \in Proc : ~Fresh(c, q)'
  <2>1. \A q \in Proc \ {p} : b \notin Unbuilt(q)'  BY <1>4, OtherSets
  <2> QED  BY <1>0, <1>2, <2>1 DEF Fresh
<1>6. BufFor(c, b)  BY <1>0, <1>a DEF BufInv
<1>7. ASSUME NEW n \in Nat, cr'[c].jnl_addr = n, cr[c].dirty # 0  PROVE Safe(b, n)'
  <2>1. CASE cr[c].tn # 0
    <3>1. \A q \in Proc : ~Fresh(c, q)  BY <2>1 DEF Fresh
    <3>2. Safe(b, n)  BY <1>2, <1>6, <1>7, <2>1, <3>1 DEF BufFor, SameAddr
    <3> QED  BY <1>a, <3>2, GrowsSafe
  <2>2. CASE cr[c].tn = 0
    <3>1. Fresh(c, p)  BY <1>0, <1>2, <2>2 DEF Fresh
    <3>2. Safe(b, n)  BY <1>2, <1>6, <1>7, <2>2, <3>1 DEF BufFor
    <3> QED  BY <1>a, <3>2, GrowsSafe
  <2> QED  BY <2>1, <2>2
<1>8. \A w \in Writer : wtr'[w].pc \in {"lock", "write"} /\ wtr'[w].cr = c => Hard(b)'
  BY <1>a, <1>3, <1>6, GrowsSafe DEF BufFor
<1>9. BufFor(c, b)'  BY <1>2, <1>5, <1>7, <1>8 DEF BufFor
<1>10. \A e \in Block : cr'[c].blk = e => BufFor(c, e)'  BY <1>0, <1>9
<1>11. \A e \in Block \ {b} : e \in Unbuilt(p)' <=> e \in Unbuilt(p)  BY <1>2
<1>12. BufInv'  BY <1>a, <1>0, <1>2, <1>3, <1>4, <1>10, <1>11, BufOne
<1> QED  BY <1>0, <1>2, <1>12 DEF Only

LEMMA BufPhase2 ==
  ASSUME Core, Core', WalInv, Grows, NEW p \in Proc, Others(p), BuildStart(p) \/ Release(p) \/ ResetInTend(p)
  PROVE  BufInv' /\ \A c \in Buffer : cr[c].dirty # 0 => cr'[c].dirty # 0 /\ cr'[c].blk = cr[c].blk
<1>a. Types /\ Types' /\ JobInv /\ PinInv /\ BufInv  BY DEF Core, WalInv
<1>1. PICK b, c : b = Cse(p) /\ c = CseCr(p)  OBVIOUS
<1>2. /\ Turn(p, b, c) /\ CommitFrame(p) /\ pc[p] \in Phase2 /\ Unbuilt(p)' = Unbuilt(p)
      /\ Only(c) /\ SameId(c) /\ SameTn(c) /\ SameAddr(c) /\ cr'[c].dirty = cr[c].dirty
  <2>1. CASE BuildStart(p)  BY <1>a, <1>1, <2>1, BuildStartIs DEF Phase2, SameWtr, SameSets
  <2>2. CASE Release(p)  BY <1>a, <1>1, <2>2, ReleaseIs DEF Phase2
  <2>3. CASE ResetInTend(p)  BY <1>a, <1>1, <2>3, ResetIs DEF Phase2, SameWtr
  <2> QED  BY <2>1, <2>2, <2>3
<1>3. wtr' = wtr /\ jnl_freeaddr' = jnl_freeaddr  BY <1>2 DEF CommitFrame
<1>4. BufInv'  BY <1>a, <1>2, <1>3, BufSteady
<1> QED  BY <1>2, <1>4 DEF Only, SameId

(* Validation and CMT12 *)
LEMMA BufValid ==
  ASSUME Core, Core', WalInv, Grows, NEW p \in Proc, Others(p), Valid(p) \/ IncrementTn(p)
  PROVE  BufInv' /\ Buffer' = Buffer /\ \A c \in Buffer : cr[c].dirty # 0 => cr'[c].dirty # 0 /\ cr'[c].blk = cr[c].blk
<1>a. Types /\ Types' /\ JobInv /\ BufInv  BY DEF Core, WalInv
<1>1. jnl_freeaddr' = jnl_freeaddr /\ wtr' = wtr
  BY DEF Valid, Validate, IncrementTn, cmtvars
<1>2. Unbuilt(p)' = Unbuilt(p) /\ Buffer' = Buffer /\ \A c \in Buffer : SameId(c) /\ SameWtr(c) /\ SameTn(c) /\ SameAddr(c)
  <2>1. CASE Valid(p)  BY <1>a, <2>1, ValidIs
  <2>2. CASE IncrementTn(p)
    <3>1. SameSets(p) /\ cr' = cr  BY <1>a, <2>2, IncrementIs
    <3> QED  BY <3>1 DEF SameSets, Buffer, SameId, SameWtr, SameTn, SameAddr
  <2> QED  BY <2>1, <2>2
<1>3. BufInv'  BY <1>a, <1>1, <1>2, BufAll
<1> QED  BY <1>2, <1>3 DEF SameId, SameWtr

(* wcs_wtstart hardens the journal up to jnl_addr before it writes *)
LEMMA BufStart ==
  ASSUME Core, JnlInv, WalInv, Grows, Types', NEW w \in Writer, NEW c \in Buffer, WtStart(w, c), NEW b \in Block, cr[c].blk = b
  PROVE  Hard(b)'
<1>a. Types /\ WtrInv /\ BufInv  BY DEF Core, WalInv
<1>1. /\ cr[c].queued /\ cr[c].jnl_addr <= dskaddr
      /\ fsync_dskaddr' = IF cr[c].jnl_addr > fsync_dskaddr THEN dskaddr ELSE fsync_dskaddr
  BY <1>a, WtStartIs
<1>2. WtrFor(c) /\ BufFor(c, b)  BY <1>a DEF WtrInv, BufInv
<1>3. cr[c].dirty # 0 /\ \A q \in Proc : ~Fresh(c, q)  BY <1>1, <1>2 DEF WtrFor, Fresh
<1>4. PICK n \in Nat : n = cr[c].jnl_addr  BY <1>a, CrFields
<1>5. Safe(b, n)  BY <1>2, <1>3, <1>4 DEF BufFor
<1>6. n <= fsync_dskaddr' /\ fsync_dskaddr' \in Nat
  <2>1. fsync_dskaddr \in Nat /\ dskaddr \in Nat  BY <1>a, AddrNat
  <2> QED  BY <1>1, <1>4, <2>1
<1>7. CASE Hard(b)  BY <1>a, <1>7, GrowsSafe
<1>8. CASE Guarded(b, n)
  <2>1. Pblks(b) \subseteq Nat /\ Pblks(b) \subseteq Pblks(b)' /\ Epochs' = Epochs  BY <1>a, AddrNat DEF Pblks, Grows
  <2> SUFFICES ASSUME NEW e \in Epochs  PROVE \E i \in Pblks(b)' : e < i /\ i <= fsync_dskaddr'  BY <2>1 DEF Hard
  <2>2. PICK i \in Pblks(b) : e < i /\ i <= n  BY <1>8 DEF Guarded
  <2> QED  BY <1>6, <2>1, <2>2
<1> QED  BY <1>5, <1>7, <1>8 DEF Safe

WtBuffer(w, c) ==
  /\ Only(c) /\ SameId(c) /\ wtr'[w].cr = c /\ \A v \in Writer \ {w} : wtr'[v] = wtr[v]
  /\ \A e \in Block : cr'[c].blk = e => BufFor(c, e)'

LEMMA BufWriter ==
  ASSUME Core, Core', JnlInv, WalInv, Grows, NEW w \in Writer, WtStep(w)
  PROVE  BufInv'
<1>a. Types /\ Types' /\ JobInv /\ WtrInv /\ WtrInv' /\ BufInv  BY DEF Core, WalInv
<1>b. WtrFrame  BY WtrFrameIs
<1>c. \A q \in Proc : Unbuilt(q)' = Unbuilt(q) /\ jnl_freeaddr'[q] = jnl_freeaddr[q]  BY <1>b DEF WtrFrame, SameSets
<1>1. PICK c \in Buffer : WtBuffer(w, c)
  <2>1. ASSUME NEW c \in Buffer, WtStart(w, c)  PROVE WtBuffer(w, c)
    <3>1. /\ Only(c) /\ SameId(c) /\ SameTn(c) /\ \A v \in Writer \ {w} : wtr'[v] = wtr[v]
          /\ wtr'[w].cr = c /\ cr[c].queued /\ cr'[c].dirty = cr[c].dirty
      BY <1>a, <2>1, WtStartIs
    <3>2. ASSUME NEW e \in Block, cr'[c].blk = e  PROVE BufFor(c, e)'
      <4>1. cr[c].blk = e  BY <3>1, <3>2 DEF SameId
      <4>2. Hard(e)'  BY <1>a, <2>1, <4>1, BufStart
      <4>3. \A q \in Proc : ~Fresh(c, q)'
        <5>1. WtrFor(c)  BY <1>a DEF WtrInv
        <5>2. \A q \in Proc : ~Fresh(c, q)  BY <3>1, <5>1 DEF WtrFor, Fresh
        <5> QED  BY <1>c, <3>1, <5>2 DEF Fresh, SameTn, SameId
      <4> QED  BY <4>2, <4>3 DEF BufFor, Safe
    <3> QED  BY <3>1, <3>2 DEF WtBuffer
  <2>2. ASSUME WtLock(w), NEW c, c = wtr[w].cr  PROVE c \in Buffer /\ WtBuffer(w, c)
    <3>1. /\ c \in Buffer /\ wtr[w].pc = "lock" /\ Only(c) /\ SameId(c) /\ SameTn(c) /\ SameAddr(c) /\ cr'[c].dirty = cr[c].dirty
          /\ wtr'[w].cr = c /\ \A v \in Writer \ {w} : wtr'[v] = wtr[v]
      BY <1>a, <2>2, WtLockIs
    <3>2. ASSUME NEW e \in Block, cr'[c].blk = e  PROVE BufFor(c, e)'
      <4>1. cr[c].blk = e  BY <3>1, <3>2 DEF SameId
      <4>2. BufFor(c, e)  BY <1>a, <3>1, <4>1 DEF BufInv
      <4>3. \A v \in Writer : wtr'[v].pc \in {"lock", "write"} /\ wtr'[v].cr = c => wtr[v].pc \in {"lock", "write"} /\ wtr[v].cr = c
        BY <2>2, <3>1
      <4> QED  BY <1>a, <1>c, <3>1, <3>2, <4>1, <4>2, <4>3, BufKeep
    <3> QED  BY <3>1, <3>2 DEF WtBuffer
  <2>3. ASSUME WtWrite(w) \/ WtRelease(w), NEW c, c = wtr[w].cr  PROVE c \in Buffer /\ WtBuffer(w, c)
    <3>1. /\ c \in Buffer /\ Only(c) /\ SameId(c) /\ cr'[c].dirty = 0
          /\ wtr'[w].cr = c /\ \A v \in Writer \ {w} : wtr'[v] = wtr[v]
      <4>1. CASE WtWrite(w)  BY <1>a, <2>3, <4>1, WtWriteIs
      <4>2. CASE WtRelease(w)
        <5>1. /\ c \in Buffer /\ wtr[w].pc = "release" /\ Only(c) /\ SameId(c) /\ cr'[c].dirty = cr[c].dirty
              /\ wtr'[w].cr = c /\ \A v \in Writer \ {w} : wtr'[v] = wtr[v]
          BY <1>a, <2>3, <4>2, WtReleaseIs
        <5>2. WtrFor(c) /\ Busy(w, c)  BY <1>a, <2>3, <5>1 DEF WtrInv, Busy
        <5> QED  BY <5>1, <5>2 DEF WtrFor
      <4> QED  BY <2>3, <4>1, <4>2
    <3>2. c \in Buffer'  BY <3>1 DEF Only
    <3>3. \A e \in Block : BufFor(c, e)'  BY <1>a, <3>1, <3>2, BufClean
    <3> QED  BY <3>1, <3>3 DEF WtBuffer
  <2> QED  BY <2>1, <2>2, <2>3 DEF WtStep
<1>2. PICK b : \A d \in Buffer : cr[d].blk # b
  <2>1. -1 \notin Block \cup {NoBlock}  BY BlockNat
  <2> QED  BY <1>a, <2>1, CrFields
<1>3. Others(NoProc)  BY CoreWriter
<1>4. \A v \in Writer : wtr'[v].pc \in {"lock", "write"} /\ wtr'[v].cr # c => wtr'[v] = wtr[v]  BY <1>1 DEF WtBuffer
<1>5. NoProc \notin Proc  BY BlockNat
<1> HIDE DEF NoProc
<1> QED  BY <1>a, <1>1, <1>2, <1>3, <1>4, <1>5, BufOne DEF WtBuffer

LEMMA WalWriter ==
  ASSUME Core, Core', JnlInv, WalInv, Grows, NEW w \in Writer, WtStep(w)
  PROVE  WalInv'
<1>a. Types /\ Types' /\ WtrInv /\ BufInv /\ CleanInv /\ EarlyInv  BY DEF Core, WalInv
<1>b. WtrFrame  BY WtrFrameIs
<1>c. \A b \in Block : Ver(b)' = Ver(b)
  <2>1. SameVersions  BY <1>b, JnlSame DEF WtrFrame
  <2> QED  BY <1>a, <1>b, <2>1, SameVer DEF WtrFrame
<1>1. BufInv'  BY BufWriter
<1>2. EarlyInv'
  <2>1. Others(NoProc) /\ NoProc \notin Proc  BY CoreWriter, BlockNat
  <2> HIDE DEF NoProc
  <2> QED  BY <1>a, <1>c, <2>1, EarlyStep
<1>3. CleanInv'
  <2>1. CASE ~WtWrite(w)
    <3>1. PICK c \in Buffer : Only(c) /\ SameId(c) /\ cr'[c].dirty = cr[c].dirty
      <4>1. PICK c : c = wtr[w].cr  OBVIOUS
      <4>2. WtLock(w) \/ WtRelease(w) => c \in Buffer /\ Only(c) /\ SameId(c) /\ cr'[c].dirty = cr[c].dirty
        BY <1>a, <4>1, WtLockIs, WtReleaseIs
      <4>3. \A d \in Buffer : WtStart(w, d) => Only(d) /\ SameId(d) /\ cr'[d].dirty = cr[d].dirty
        BY <1>a, WtStartIs
      <4> QED  BY <2>1, <4>2, <4>3 DEF WtStep
    <3>2. Buffer' = Buffer /\ \A d \in Buffer : cr[d].dirty # 0 => cr'[d].dirty # 0 /\ cr'[d].blk = cr[d].blk
      BY <3>1 DEF Only, SameId
    <3> QED  BY <1>a, <1>c, <3>2, CleanStep
  <2>2. CASE WtWrite(w)
    <3>1. PICK c : c = wtr[w].cr  OBVIOUS
    <3>2. c \in Buffer /\ wtr[w].pc = "write" /\ Only(c) /\ SameId(c)  BY <1>a, <2>2, <3>1, WtWriteIs
    <3> SUFFICES ASSUME NEW b \in Block, \A d \in Buffer : cr'[d].blk = b => cr'[d].dirty = 0,
                        NEW t \in Nat, Ver(b)'.tn = t, epoch_tn' <= t
                 PROVE  Hard(b)'
      BY <3>2 DEF CleanInv, CleanFor, Only
    <3>3. CASE cr[c].blk = b
      <4>1. BufFor(c, b)  BY <1>a, <3>2, <3>3 DEF BufInv
      <4>2. Hard(b)  BY <3>1, <3>2, <4>1 DEF BufFor
      <4> QED  BY <1>a, <4>2, GrowsSafe
    <3>4. CASE cr[c].blk # b
      <4>1. \A d \in Buffer : cr[d].blk = b => cr[d].dirty = 0  BY <3>2, <3>4 DEF Only
      <4>2. Hard(b)  BY <1>a, <1>c, <4>1 DEF CleanInv, CleanFor, Grows
      <4> QED  BY <1>a, <4>2, GrowsSafe
    <3> QED  BY <3>3, <3>4
  <2> QED  BY <2>1, <2>2
<1> QED  BY <1>1, <1>2, <1>3 DEF WalInv

LEMMA EarlyPc ==
  ASSUME Types, NEW p \in Proc, ProcStep(p), pc'[p] \in Early
  PROVE  Reserve(p) \/ Phase1(p) \/ Phase1Wait(p)
<1>0. pc \in [Proc -> PC]  BY DEF Types, ProcTypes
<1> USE DEF Early
<1>1. ~Search(p)
  BY <1>0 DEF Search, Begin, CheckClue, NoteTn, Find, Miss, GetBuffer, DskRead, NoteCycle, WaitRead, WaitInTend, Look, Go
<1>2. ~TEnd(p)
  BY <1>0 DEF TEnd, ReadOnlyEnd, CheckTn, CheckCycle, ReadOnlyDone, Retry, GrabCrit, Validate, Go, Fail
<1>3. Commit(p) => Reserve(p) \/ Phase1(p) \/ Phase1Wait(p)
  BY <1>0 DEF Commit, CheckEpoch, FlushJnl, WriteEpoch, IncrementTn, WriteJnl,
             BuildStart, BuildEnd, Release, ResetInTend, Halt, NextCse, Go
<1> QED  BY <1>1, <1>2, <1>3 DEF ProcStep

LEMMA EarlyReserve ==
  ASSUME Core, Core', JnlInv, Grows, NEW p \in Proc, Others(p), Reserve(p)
  PROVE  EarlyInv'
<1>a. Types /\ Types' /\ JobInv /\ CritInv  BY DEF Core
<1>1. pc[p] \in InCommit /\ todo' = todo /\ curr_tn' = curr_tn  BY DEF Reserve, InCommit, txnvars
<1>2. Upd(p)' = Upd(p)  BY <1>1 DEF Upd
<1>3. PICK m \in Nat, k \in Nat, f \in Seq(Block) : Fills(p, m, k, f)  BY <1>a, ReserveLog
<1>4. /\ Epochs' = Epochs
      /\ \A b : Pblks(b)' = Pblks(b) \cup {i \in m + 1 .. m + k : b = f[i - m]}
  BY <1>a, <1>3, ReserveSets
<1>5. \A e \in Epochs : e \in Nat /\ e <= m  BY <1>3 DEF Fills, Epochs
<1>6. SameVersions
  <2>1. Commit(p)  BY DEF Commit
  <2> QED  BY <2>1, CommitSame
<1> SUFFICES ASSUME NEW q \in Proc, NEW b \in Block, pc'[q] \in Early, b \in Upd(q)', NEW n \in Nat, jnl_freeaddr'[q][b] = n
             PROVE  IF n = 0 THEN epoch_tn' <= Ver(b)'.tn ELSE Guarded(b, n)'
  BY DEF EarlyInv, EarlyFor
<1>7. q = p
  <2> SUFFICES ASSUME q # p  PROVE FALSE  OBVIOUS
  <2>1. pc[q] \in InCommit  BY DEF Others, Early, InCommit
  <2> QED  BY <1>a, <1>1, <2>1, OneCommit
<1>8. CASE b \in NeedPblk(p)
  <2>1. PICK i \in 1 .. k : f[i] = b /\ n = m + i  BY <1>3, <1>7, <1>8 DEF Fills
  <2>2. m + i \in m + 1 .. m + k /\ (m + i) - m = i  OBVIOUS
  <2>3. n \in Pblks(b)'  BY <1>4, <2>1, <2>2
  <2>4. Guarded(b, n)'  BY <1>4, <1>5, <2>1, <2>3 DEF Guarded
  <2> QED  BY <2>1, <2>4
<1>9. CASE b \notin NeedPblk(p)
  <2>1. n = 0  BY <1>3, <1>7, <1>9 DEF Fills
  <2>2. b \in Upd(p)  BY <1>2, <1>7
  <2>3. ~(Ver(b).tn < epoch_tn)  BY <1>1, <1>9, <2>2, NeedPblkIs
  <2>4. Ver(b).tn \in Nat /\ epoch_tn \in Nat  BY <1>a, AddrNat, VerNat
  <2>5. Ver(b)' = Ver(b) /\ epoch_tn' = epoch_tn  BY <1>a, <1>1, <1>6, SameVer DEF Grows
  <2> QED  BY <2>1, <2>3, <2>4, <2>5
<1> QED  BY <1>8, <1>9

LEMMA EarlyProc ==
  ASSUME Core, Core', JnlInv, EarlyInv, Grows, NEW p \in Proc, Others(p), ProcStep(p), ~IncrementTn(p),
         \A b \in Block : Ver(b)' = Ver(b)
  PROVE  EarlyInv'
<1>a. Types /\ Types'  BY DEF Core
<1>1. CASE Reserve(p)  BY <1>1, EarlyReserve
<1>2. CASE ~Reserve(p)
  <2>1. ASSUME pc'[p] \in Early  PROVE pc[p] \in Early /\ Upd(p)' = Upd(p) /\ jnl_freeaddr'[p] = jnl_freeaddr[p]
    <3>1. Phase1(p) \/ Phase1Wait(p)  BY <1>a, <1>2, <2>1, EarlyPc
    <3> QED  BY <3>1 DEF Phase1, Phase1Wait, Early, Upd, txnvars
  <2> QED  BY <1>a, <2>1, EarlyStep
<1> QED  BY <1>1, <1>2

(* CMT12: the blocks that change are in dirty buffers *)
LEMMA WalIncrement ==
  ASSUME Core, Core', WalInv, Grows, NEW p \in Proc, Others(p), IncrementTn(p)
  PROVE  WalInv'
<1>a. Types /\ Types' /\ JobInv /\ CritInv /\ TnInv /\ PinInv /\ WtrInv  BY DEF Core
<1>1. BufInv' /\ Buffer' = Buffer  BY BufValid
<1>2. pc[p] = "cmt12" /\ pc'[p] = "cmt16" /\ cr' = cr  BY <1>a, IncrementIs
<1>3. EarlyInv'
  <2> SUFFICES ASSUME NEW q \in Proc, pc'[q] \in Early  PROVE FALSE  BY DEF EarlyInv, EarlyFor
  <2>1. q # p /\ pc[q] \in InCommit  BY <1>2 DEF Others, Early, InCommit
  <2> QED  BY <1>a, <1>2, <2>1, OneCommit DEF InCommit
<1>4. CleanInv'
  <2> SUFFICES ASSUME NEW b \in Block, \A c \in Buffer : cr[c].blk = b => cr[c].dirty = 0,
                      NEW t \in Nat, Ver(b)'.tn = t, epoch_tn' <= t
               PROVE  Hard(b)'
    BY <1>1, <1>2 DEF CleanInv, CleanFor
  <2>1. b \notin Upd(p)
    <3> SUFFICES ASSUME b \in Upd(p)  PROVE FALSE  OBVIOUS
    <3>1. rem[p] = {}  BY <1>a, <1>2 DEF JobInv, JobFor, Early
    <3>2. b \in Locked(p) /\ b \in Pinned(p)  BY <1>2, <3>1 DEF Locked, Pinned, Early, InCommit
    <3>3. PICK c \in Buffer : c = hist[p][b].cr
      <4>1. hist[p][b] \in HistRec  BY <1>a DEF Types, HistTypes
      <4> QED  BY <4>1, HistFields
    <3>4. cr[c].blk = b  BY <1>a, <3>2, <3>3 DEF PinInv
    <3>5. WtrFor(c)  BY <1>a DEF WtrInv
    <3> QED  BY <3>2, <3>4, <3>5 DEF WtrFor
  <2>2. Ver(b)' = Ver(b)  BY <1>a, <2>1, CommitVersions
  <2>3. Hard(b)  BY <2>2 DEF WalInv, CleanInv, CleanFor, Grows
  <2> QED  BY <1>a, <2>3, GrowsSafe
<1> QED  BY <1>1, <1>3, <1>4 DEF WalInv

(* wcs_flu: at an epoch nothing is dirty *)
LEMMA WalEpoch ==
  ASSUME Core, Core', JnlInv, NEW p \in Proc, Others(p), NewEpoch(p)
  PROVE  WalInv'
<1>a. Types /\ Types' /\ CritInv /\ WtrInv'  BY DEF Core
<1>1. cr' = cr /\ CanWriteEpoch /\ pc[p] = "flu2" /\ pc'[p] = "cmt04" /\ curr_tn' = curr_tn
  BY <1>a DEF NewEpoch, WriteEpoch, Go, tnvars, Types, ProcTypes
<1>2. Buffer' = Buffer /\ \A c \in Buffer : cr'[c].dirty = 0  BY <1>1 DEF Buffer, CanWriteEpoch
<1>3. BufInv'  BY <1>a, <1>2, BufClean DEF BufInv
<1>4. EarlyInv'
  <2> SUFFICES ASSUME NEW q \in Proc, pc'[q] \in Early  PROVE FALSE  BY DEF EarlyInv, EarlyFor
  <2>1. q # p /\ pc[q] \in InCommit  BY <1>1 DEF Others, Early, InCommit
  <2> QED  BY <1>a, <1>1, <2>1, OneCommit DEF InCommit
<1>5. CleanInv'
  <2>1. epoch_tn' = curr_tn  BY <1>a, EpochSets
  <2>2. SameVersions
    <3>1. Commit(p)  BY DEF Commit, NewEpoch
    <3> QED  BY <3>1, CommitSame
  <2>3. ASSUME NEW b \in Block, NEW t \in Nat, Ver(b)'.tn = t, epoch_tn' <= t  PROVE FALSE
    <3>1. Ver(b)' = Ver(b)  BY <1>a, <1>1, <2>2, SameVer
    <3>2. Ver(b).tn \in Nat /\ Ver(b).tn < curr_tn /\ curr_tn \in Nat  BY <1>a, VerNat
    <3> QED  BY <2>1, <2>3, <3>1, <3>2
  <2> QED  BY <2>3 DEF CleanInv, CleanFor
<1> QED  BY <1>3, <1>4, <1>5 DEF WalInv

LEMMA FreeaddrKeep ==
  ASSUME NEW p \in Proc, ProcStep(p)
  PROVE  jnl_freeaddr'[p] = jnl_freeaddr[p] \/ Unbuilt(p) = {}
<1>1. Search(p) => jnl_freeaddr' = jnl_freeaddr
  BY DEF Search, Begin, CheckClue, NoteTn, Find, Miss, GetBuffer, DskRead, NoteCycle, WaitRead, WaitInTend, Look, cmtvars
<1>2. TEnd(p) => jnl_freeaddr' = jnl_freeaddr
  BY DEF TEnd, ReadOnlyEnd, CheckTn, CheckCycle, ReadOnlyDone, Retry, GrabCrit, Validate, cmtvars
<1>3. Commit(p) => jnl_freeaddr' = jnl_freeaddr \/ Reserve(p) \/ Halt(p)
  BY DEF Commit, CheckEpoch, FlushJnl, WriteEpoch, Phase1, Phase1Wait, IncrementTn, WriteJnl, BuildStart, BuildEnd,
         Release, ResetInTend, cmtvars
<1>4. Reserve(p) \/ Halt(p) => Unbuilt(p) = {}  BY DEF Reserve, Halt, Unbuilt, Locked, Early, Phase2
<1> QED  BY <1>1, <1>2, <1>3, <1>4 DEF ProcStep

LEMMA ProcTn ==
  ASSUME Types, NEW p \in Proc, ProcStep(p), ~IncrementTn(p)
  PROVE  curr_tn' = curr_tn
<1>1. Search(p) \/ TEnd(p) => curr_tn' = curr_tn  BY SteadySearch, SteadyTEnd DEF Steady
<1>2. Commit(p) => Steady(p) \/ LogStep(p)  BY SteadyCommit
<1>3. LogStep(p) => curr_tn' = curr_tn  BY DEF LogStep, WriteEpoch, Reserve, WriteJnl, tnvars
<1> QED  BY <1>1, <1>2, <1>3 DEF ProcStep, Steady

LEMMA WalProc ==
  ASSUME Core, Core', JnlInv, WalInv, Grows, NEW p \in Proc, Others(p), ProcStep(p), ~IncrementTn(p)
  PROVE  WalInv'
<1>a. Types /\ Types' /\ JobInv /\ BufInv /\ CleanInv /\ EarlyInv  BY DEF Core, WalInv
<1>b. \A b \in Block : Ver(b)' = Ver(b)
  <2>1. curr_tn' = curr_tn  BY <1>a, ProcTn
  <2>2. SameVersions  BY NextSame DEF Next
  <2> QED  BY <1>a, <2>1, <2>2, SameVer
<1>1. EarlyInv'  BY <1>a, <1>b, EarlyProc
<1>2. CASE Quiet(p)
  <2>1. BufInv' /\ CleanInv'  BY <1>2, WalQuiet, FreeaddrKeep
  <2> QED  BY <1>1, <2>1 DEF WalInv
<1>3. CASE ~Quiet(p)
  <2>1. NewBuffer(p) \/ DskRead(p) \/ Valid(p) \/ BufStep(p)
    BY <1>a, <1>3, QuietSearch, QuietTEnd, QuietCommit DEF ProcStep
  <2>2. BufInv' /\ \A c \in Buffer : cr[c].dirty # 0 => cr'[c].dirty # 0 /\ cr'[c].blk = cr[c].blk
    <3>1. CASE NewBuffer(p) \/ DskRead(p)  BY <1>a, <3>1, BufRead
    <3>2. CASE Valid(p)  BY <3>2, BufValid
    <3>3. CASE Phase1(p) \/ Phase1Wait(p)  BY <3>3, BufPhase1
    <3>4. CASE BuildEnd(p)  BY <3>4, BufBuildEnd
    <3>5. CASE BuildStart(p) \/ Release(p) \/ ResetInTend(p)  BY <3>5, BufPhase2
    <3> QED  BY <2>1, <3>1, <3>2, <3>3, <3>4, <3>5 DEF BufStep
  <2>3. Buffer' = Buffer
    <3>1. CASE NewBuffer(p)  BY <1>a, <3>1, NewBufferIs DEF Only
    <3>2. CASE DskRead(p)  BY <1>a, <3>2, DskReadIs DEF Only
    <3>3. CASE Valid(p)  BY <1>a, <3>3, ValidIs
    <3>4. CASE BufStep(p)
      <4>1. DOMAIN cr' = DOMAIN cr
        BY <3>4 DEF BufStep, Phase1, Phase1Wait, IncrementTn, BuildStart, BuildEnd, Release, ResetInTend
      <4> QED  BY <4>1 DEF Buffer
    <3> QED  BY <2>1, <3>1, <3>2, <3>3, <3>4
  <2>4. CleanInv'  BY <1>a, <1>b, <2>2, <2>3, CleanStep
  <2> QED  BY <1>1, <2>2, <2>4 DEF WalInv
<1> QED  BY <1>2, <1>3

LEMMA WalNext ==
  ASSUME Core, JnlInv, WalInv, [Next]_vars
  PROVE  WalInv'
<1>b. Core' /\ JnlInv'  BY CoreNext, JnlNext
<1>1. ASSUME NEW p \in Proc, ProcStep(p)  PROVE WalInv'
  <2>1. Others(p)  BY <1>1, CoreSearch, CoreTEnd, CoreCommit DEF ProcStep
  <2>2. CASE NewEpoch(p)  BY <1>b, <2>1, <2>2, WalEpoch
  <2>3. CASE ~NewEpoch(p)
    <3>1. \A q \in Proc : ~NewEpoch(q)
      <4> SUFFICES ASSUME NEW q \in Proc, NewEpoch(q), q # p  PROVE FALSE  BY <2>3
      <4>1. pc[q] = "flu2" /\ pc'[q] = "cmt04"  BY DEF NewEpoch, WriteEpoch, Go, Core, Types, ProcTypes
      <4> QED  BY <2>1, <4>1 DEF Others
    <3>2. Grows  BY <1>b, <3>1, GrowsLog
    <3>3. CASE IncrementTn(p)  BY <1>b, <2>1, <3>2, <3>3, WalIncrement
    <3>4. CASE ~IncrementTn(p)  BY <1>1, <1>b, <2>1, <3>2, <3>4, WalProc
    <3> QED  BY <3>3, <3>4
  <2> QED  BY <2>2, <2>3
<1>2. CASE (\E w \in Writer : WtStep(w)) \/ JnlQio \/ UNCHANGED vars
  <2>1. Others(NoProc) /\ NoProc \notin Proc /\ curr_tn' = curr_tn  BY <1>2, CoreWriter, CoreRest, BlockNat
  <2>2. \A q \in Proc : ~NewEpoch(q)
    <3> SUFFICES ASSUME NEW q \in Proc, NewEpoch(q)  PROVE FALSE  OBVIOUS
    <3>1. pc[q] = "flu2" /\ pc'[q] = "cmt04"  BY DEF NewEpoch, WriteEpoch, Go, Core, Types, ProcTypes
    <3> QED  BY <2>1, <3>1 DEF Others
  <2>3. Grows  BY <1>b, <2>2, GrowsLog
  <2>4. ASSUME NEW w \in Writer, WtStep(w)  PROVE WalInv'  BY <1>b, <2>3, <2>4, WalWriter
  <2>5. CASE JnlQio \/ UNCHANGED vars
    <3>1. Quiet(NoProc)
      <4>1. UNCHANGED vars => cr' = cr /\ bt' = bt /\ wtr' = wtr /\ disk' = disk /\ jnl' = jnl  BY DEF vars
      <4> QED  BY <2>1, <2>5, <4>1, QuietQio, JnlSame DEF Quiet
    <3>a. Types /\ Types' /\ EarlyInv  BY <1>b DEF Core, WalInv
    <3>2. \A b \in Block : Ver(b)' = Ver(b)  BY <2>1, <3>1, <3>a, SameVer DEF Quiet
    <3> HIDE DEF NoProc
    <3>3. BufInv' /\ CleanInv'  BY <1>b, <2>1, <2>3, <3>1, WalQuiet
    <3>4. EarlyInv'  BY <2>1, <2>3, <3>2, <3>a, EarlyStep
    <3> QED  BY <3>3, <3>4 DEF WalInv
  <2> QED  BY <1>2, <2>4, <2>5
<1> QED  BY <1>1, <1>2 DEF Next

LEMMA InitWal ==
  ASSUME Init
  PROVE  WalInv
<1>1. Types /\ curr_tn = 1 /\ \A c \in Buffer : cr[c] = EmptyRec  BY InitTypes
<1>2. \A c \in Buffer, b \in Block : cr[c].blk # b  BY <1>1, BlockNat DEF EmptyRec
<1>3. BufInv  BY <1>2 DEF BufInv
<1>4. EarlyInv  BY DEF Init, EarlyInv, EarlyFor, Early
<1>5. CleanInv
  <2>1. epoch_tn = 1  BY DEF Init
  <2>2. ASSUME NEW b \in Block, NEW t \in Nat, Ver(b).tn = t, epoch_tn <= t  PROVE FALSE
    <3>1. Ver(b).tn \in Nat /\ Ver(b).tn < 1  BY <1>1, VerNat
    <3> QED  BY <2>1, <2>2, <3>1
  <2> QED  BY <2>2 DEF CleanInv, CleanFor
<1> QED  BY <1>3, <1>4, <1>5 DEF WalInv

-----------------------------------------------------------------------------
(* What a crash leaves *)

Undone(e, b, v) == v = LastSet(b, 1 .. e) \/ \E i \in Pblks(b) : e < i /\ i <= fsync_dskaddr
StableFor(e, b) ==
  /\ e <= dskaddr => \A v \in stable[b] : Undone(e, b, v)
  /\ dskaddr < e => need_db_fsync /\ e <= fsync_dskaddr + 1 /\ disk[b] = LastSet(b, 1 .. e)
StableInv == /\ \A b \in Block : disk[b] \in stable[b]
             /\ \A e \in Epochs, b \in Block : StableFor(e, b)

LEMMA LastSetSame ==
  ASSUME NEW b, NEW e \in Nat, \A i \in 1 .. e : jnl'[i].tn = jnl[i].tn /\ jnl'[i].type = jnl[i].type /\ jnl'[i].blks = jnl[i].blks
  PROVE  LastSet(b, 1 .. e)' = LastSet(b, 1 .. e)
<1>1. {j \in 1 .. e : jnl'[j].type = "set" /\ b \in jnl'[j].blks} = {j \in 1 .. e : jnl[j].type = "set" /\ b \in jnl[j].blks}
  OBVIOUS
<1>2. PICK S : S = {j \in 1 .. e : jnl[j].type = "set" /\ b \in jnl[j].blks}  OBVIOUS
<1>3. {jnl'[i].tn : i \in S} = {jnl[i].tn : i \in S}  BY <1>2
<1> QED  BY <1>1, <1>2, <1>3 DEF LastSet

(* Records that are in the journal keep what they say *)
LEMMA LastSets ==
  ASSUME Core, Core', [Next]_vars, NEW b, NEW e \in Epochs
  PROVE  LastSet(b, 1 .. e)' = LastSet(b, 1 .. e)
<1>a. Types /\ Types' /\ JobInv  BY DEF Core
<1>0. Len(jnl) \in Nat  BY <1>a, AddrNat
<1>1. e \in Nat /\ \A i \in 1 .. e : i \in 1 .. Len(jnl)  BY <1>0 DEF Epochs
<1>2. \A i \in 1 .. Len(jnl) : jnl'[i].tn = jnl[i].tn /\ jnl'[i].type = jnl[i].type /\ jnl'[i].blks = jnl[i].blks
  <2>1. jnl' = jnl \/ \E p \in Proc : LogStep(p)
    <3>1. ASSUME NEW p \in Proc, Search(p) \/ TEnd(p)  PROVE jnl' = jnl  BY <3>1, LogSearch DEF SameLog
    <3>2. ASSUME NEW p \in Proc, Commit(p)  PROVE jnl' = jnl \/ LogStep(p)  BY <3>2, LogCommit DEF SameLog
    <3>3. ASSUME NEW w \in Writer, WtStep(w)  PROVE jnl' = jnl  BY <3>3, WtrFrameIs DEF WtrFrame
    <3>4. JnlQio => jnl' = jnl  BY DEF JnlQio
    <3>5. UNCHANGED vars => jnl' = jnl  BY DEF vars
    <3> QED  BY <3>1, <3>2, <3>3, <3>4, <3>5 DEF Next, ProcStep
  <2> QED  BY <1>a, <2>1, LogGrows
<1> QED  BY <1>1, <1>2, LastSetSame

LEMMA UndoneKeep ==
  ASSUME Core, Core', [Next]_vars, NEW b, NEW e \in Epochs, NEW v, Undone(e, b, v),
         Pblks(b) \subseteq Pblks(b)', fsync_dskaddr <= fsync_dskaddr'
  PROVE  Undone(e, b, v)'
<1>1. LastSet(b, 1 .. e)' = LastSet(b, 1 .. e)  BY LastSets
<1>2. fsync_dskaddr \in Nat /\ fsync_dskaddr' \in Nat /\ Pblks(b) \subseteq Nat
  <2>1. Types /\ Types'  BY DEF Core
  <2>2. Pblks(b) \subseteq Nat  BY <2>1, AddrNat DEF Pblks
  <2> QED  BY <2>1, <2>2 DEF Types, FileTypes
<1> QED  BY <1>1, <1>2 DEF Undone

(* A step that leaves the files alone, but for the hardening of journal records *)
LEMMA StableKeep ==
  ASSUME Core, Core', [Next]_vars, Grows, StableInv, dskaddr' = dskaddr, stable' = stable, disk' = disk,
         need_db_fsync' = need_db_fsync
  PROVE  StableInv'
<1>a. Types /\ Types'  BY DEF Core
<1>1. \A b \in Block : disk'[b] \in stable'[b]  BY DEF StableInv
<1>2. ASSUME NEW e \in Epochs, NEW b \in Block  PROVE StableFor(e, b)'
  <2>1. StableFor(e, b)  BY DEF StableInv
  <2>2. \A v \in stable[b] : Undone(e, b, v) => Undone(e, b, v)'  BY UndoneKeep DEF Grows
  <2>3. LastSet(b, 1 .. e)' = LastSet(b, 1 .. e)  BY LastSets
  <2>4. fsync_dskaddr \in Nat /\ fsync_dskaddr' \in Nat /\ fsync_dskaddr <= fsync_dskaddr' /\ e \in Nat
    BY <1>a, AddrNat DEF Types, FileTypes, Grows, Epochs
  <2>5. e <= fsync_dskaddr + 1 => e <= fsync_dskaddr' + 1
    <3>1. PICK f \in Nat, g \in Nat : f = fsync_dskaddr /\ g = fsync_dskaddr'  BY <2>4
    <3>2. f <= g /\ e \in Nat  BY <2>4, <3>1
    <3>3. e <= f + 1 => e <= g + 1  BY <3>2
    <3> QED  BY <3>1, <3>3
  <2>6. e <= dskaddr' => \A v \in stable'[b] : Undone(e, b, v)'  BY <2>1, <2>2 DEF StableFor
  <2>7. dskaddr' < e => need_db_fsync' /\ e <= fsync_dskaddr' + 1 /\ disk'[b] = LastSet(b, 1 .. e)'
    BY <2>1, <2>3, <2>5 DEF StableFor
  <2> QED  BY <2>6, <2>7 DEF StableFor
<1> QED  BY <1>1, <1>2 DEF StableInv, Grows

(* jnl_output_sp: the epoch that is waiting for the fsync of the database goes out with it *)
LEMMA StableOutput ==
  ASSUME Core, Core', JnlInv, [Next]_vars, Grows, StableInv, JnlOutput, disk' = disk
  PROVE  StableInv'
<1>a. Types /\ Types'  BY DEF Core
<1>b. Len(jnl) \in Nat /\ dskaddr \in 0 .. Len(jnl) /\ fsync_dskaddr \in Nat /\ fsync_dskaddr <= dskaddr /\ dskaddr \in Nat
  BY <1>a, AddrNat DEF JnlInv, AddrInv
<1>c. stable \in [Block -> SUBSET Contents]  BY <1>a DEF Types, FileTypes
<1>1. dskaddr' = freeaddr /\ stable' = IF need_db_fsync THEN [b \in Block |-> {disk[b]}] ELSE stable  BY DEF JnlOutput
<1>2. freeaddr \in Nat /\ dskaddr <= freeaddr
  <2>1. \A i \in 1 .. dskaddr : jnl[i].written  BY DEF JnlInv, AddrInv
  <2> QED  BY <1>a, <1>b, <2>1, FreeaddrIs
<1>3. \A b \in Block : disk'[b] \in stable'[b] /\ stable'[b] \subseteq stable[b]  BY <1>1 DEF StableInv
<1>4. ASSUME NEW e \in Epochs, NEW b \in Block  PROVE StableFor(e, b)'
  <2>1. StableFor(e, b) /\ e \in Nat /\ (e = 0 \/ (e \in 1 .. Len(jnl) /\ jnl[e].type = "epoch"))
    BY <1>b DEF StableInv, Epochs
  <2>2. \A v \in stable[b] : Undone(e, b, v) => Undone(e, b, v)'  BY UndoneKeep DEF Grows
  <2>3. CASE e <= dskaddr
    <3>1. e <= dskaddr'  BY <1>1, <1>2, <1>b, <2>1, <2>3
    <3>2. \A v \in stable'[b] : Undone(e, b, v)'  BY <1>3, <2>1, <2>2, <2>3 DEF StableFor
    <3> QED  BY <1>1, <1>2, <2>1, <3>1, <3>2 DEF StableFor
  <2>4. CASE dskaddr < e
    <3>1. need_db_fsync /\ e <= fsync_dskaddr + 1 /\ disk[b] = LastSet(b, 1 .. e)  BY <2>1, <2>4 DEF StableFor
    <3>2. e = dskaddr + 1  BY <1>b, <2>1, <2>4, <3>1
    <3>3. e <= freeaddr
      <4>1. jnl[e].written  BY <1>b, <2>1, <2>4 DEF JnlInv, EpochInv
      <4>2. \A i \in 1 .. e : jnl[i].written
        <5>1. \A i \in 1 .. dskaddr : jnl[i].written  BY DEF JnlInv, AddrInv
        <5> QED  BY <1>b, <3>2, <4>1, <5>1
      <4>3. e \in 0 .. Len(jnl)  BY <1>b, <2>1
      <4> QED  BY <1>a, <4>2, <4>3, FreeaddrIs
    <3>4. stable'[b] = {disk[b]}  BY <1>1, <3>1
    <3>5. LastSet(b, 1 .. e)' = LastSet(b, 1 .. e)  BY LastSets
    <3>6. \A v \in stable'[b] : Undone(e, b, v)'  BY <3>1, <3>4, <3>5 DEF Undone
    <3> QED  BY <1>1, <1>2, <2>1, <3>3, <3>6 DEF StableFor
  <2> QED  BY <1>b, <2>1, <2>3, <2>4
<1> QED  BY <1>3, <1>4 DEF StableInv, Grows

(* What WtWrite does to the database file *)
MaySurvive(b, c) == stable[b] \cup {cr[c].data, [blk |-> b, tn |-> Torn]}
WritesOne(b, c) ==
  IF b = cr[c].blk THEN disk'[b] = cr[c].data /\ stable'[b] = MaySurvive(b, c)
  ELSE disk'[b] = disk[b] /\ stable'[b] = stable[b]
Writes(c) == \A b \in Block : WritesOne(b, c)

LEMMA WtWriteFile ==
  ASSUME Types, NEW w \in Writer, WtWrite(w)
  PROVE  /\ wtr[w].pc = "write" /\ wtr[w].cr \in Buffer /\ Writes(wtr[w].cr)
         /\ need_db_fsync' = need_db_fsync /\ fsync_dskaddr' = fsync_dskaddr
<1>1. PICK c : c = wtr[w].cr  OBVIOUS
<1>2. c \in Buffer  BY <1>1, WtrFields
<1>3. ASSUME NEW b \in Block  PROVE WritesOne(b, c)
  <2>1. b = cr[c].blk => disk'[b] = cr[c].data  BY <1>1 DEF WtWrite, Types, FileTypes
  <2>2. b # cr[c].blk => disk'[b] = disk[b]  BY <1>1 DEF WtWrite, Types, FileTypes
  <2>3. b = cr[c].blk => stable'[b] = MaySurvive(b, c)  BY <1>1 DEF WtWrite, Types, FileTypes, MaySurvive
  <2>4. b # cr[c].blk => stable'[b] = stable[b]  BY <1>1 DEF WtWrite, Types, FileTypes
  <2> QED  BY <2>1, <2>2, <2>3, <2>4 DEF WritesOne
<1>5. Writes(c)  BY <1>3 DEF Writes
<1>6. wtr[w].pc = "write" /\ need_db_fsync' = need_db_fsync /\ fsync_dskaddr' = fsync_dskaddr
  BY DEF WtWrite, jnlvars
<1> QED  BY <1>1, <1>2, <1>5, <1>6

(* A buffer is written once a before-image of its block is hardened *)
LEMMA StableWrite ==
  ASSUME Core, Core', JnlInv, WalInv, Grows, StableInv, NEW w \in Writer, WtWrite(w)
  PROVE  StableInv'
<1>a. Types /\ Types' /\ WtrInv /\ BufInv  BY DEF Core, WalInv
<1>b. WtStep(w)  BY DEF WtStep
<1>c. [Next]_vars  BY <1>b DEF Next
<1>d. dskaddr \in Nat /\ fsync_dskaddr \in Nat /\ fsync_dskaddr <= dskaddr  BY <1>a, AddrNat DEF JnlInv, AddrInv
<1>1. PICK c : c = wtr[w].cr  OBVIOUS
<1>2. /\ wtr[w].pc = "write" /\ c \in Buffer /\ Writes(c)
      /\ need_db_fsync' = need_db_fsync /\ fsync_dskaddr' = fsync_dskaddr
  BY <1>a, <1>1, WtWriteFile
<1>3. dskaddr' = dskaddr  BY <1>b, WtrFrameIs DEF WtrFrame
<1>4. ASSUME NEW b \in Block  PROVE disk'[b] \in stable'[b]
  <2>1. WritesOne(b, c) /\ disk[b] \in stable[b]  BY <1>2 DEF StableInv, Writes
  <2> QED  BY <2>1 DEF WritesOne, MaySurvive
<1>5. ASSUME NEW e \in Epochs, NEW b \in Block  PROVE StableFor(e, b)'
  <2>0. e \in Nat  BY <1>a, AddrNat DEF Epochs
  <2>1. CASE b = cr[c].blk
    <3>1. BufFor(c, b)  BY <1>a, <1>2, <2>1 DEF BufInv
    <3>2. Hard(b)  BY <1>1, <1>2, <3>1 DEF BufFor
    <3>3. PICK i \in Pblks(b) : e < i /\ i <= fsync_dskaddr  BY <3>2 DEF Hard
    <3>4. i \in Nat /\ i \in Pblks(b)'  BY <1>a, AddrNat DEF Pblks, Grows
    <3>5. e <= dskaddr  BY <1>d, <2>0, <3>3, <3>4
    <3>6. \A v : Undone(e, b, v)'  BY <1>2, <3>3, <3>4 DEF Undone
    <3> QED  BY <1>3, <1>d, <2>0, <3>5, <3>6 DEF StableFor
  <2>2. CASE b # cr[c].blk
    <3>1. StableFor(e, b) /\ stable'[b] = stable[b] /\ disk'[b] = disk[b]  BY <1>2, <2>2 DEF StableInv, Writes, WritesOne
    <3>2. \A v \in stable[b] : Undone(e, b, v) => Undone(e, b, v)'  BY <1>c, UndoneKeep DEF Grows
    <3>3. LastSet(b, 1 .. e)' = LastSet(b, 1 .. e)  BY <1>c, LastSets
    <3>4. e <= dskaddr' => \A v \in stable'[b] : Undone(e, b, v)'  BY <1>3, <3>1, <3>2 DEF StableFor
    <3>5. dskaddr' < e => need_db_fsync' /\ e <= fsync_dskaddr' + 1 /\ disk'[b] = LastSet(b, 1 .. e)'
      BY <1>2, <1>3, <3>1, <3>3 DEF StableFor
    <3> QED  BY <3>4, <3>5 DEF StableFor
  <2> QED  BY <2>1, <2>2
<1> QED  BY <1>4, <1>5 DEF StableInv, Grows

(* wcs_flu: at an epoch the file has the last committed contents of every block *)
LEMMA DiskCurrent ==
  ASSUME Core, CanWriteEpoch, NEW b \in Block
  PROVE  disk[b] = Ver(b)
<1>a. Types /\ JobInv /\ PinInv /\ ReadInv /\ DataInv  BY DEF Core
<1>1. CASE CrOf(b) = {}  BY <1>1, <1>a DEF DataInv
<1>2. ASSUME NEW c \in Buffer, cr[c].blk = b  PROVE disk[b] = Ver(b)
  <2>1. ASSUME NEW q \in Proc, cr[c].rip = q  PROVE disk[b] = Ver(b)
    <3>1. pc[q] = "read" /\ Hist(q).cr = c  BY <1>a, <2>1 DEF ReadInv
    <3>2. Blk(q) = b  BY <1>2, <1>a, <3>1 DEF ReadInv
    <3> QED  BY <1>a, <3>1, <3>2 DEF DataInv
  <2>2. CASE cr[c].rip = NoProc
    <3>1. DataFor(c, b)  BY <1>2, <1>a, <2>2 DEF DataInv
    <3>2. Settled(c)
      <4> SUFFICES ASSUME NEW q \in Proc, cr[c].in_tend = q  PROVE pc[q] \in InCommit  BY DEF Settled
      <4>1. b \in Tending(q)  BY <1>2, <1>a DEF PinInv
      <4>2. pc[q] \notin Phase2  BY DEF CanWriteEpoch
      <4> QED  BY <4>1, <4>2 DEF Tending, Early, InCommit
    <3>3. cr[c].dirty = 0  BY DEF CanWriteEpoch
    <3> QED  BY <3>1, <3>2, <3>3 DEF DataFor
  <2> QED  BY <1>a, <2>1, <2>2, CrFields
<1> QED  BY <1>1, <1>2 DEF CrOf

LEMMA StableEpoch ==
  ASSUME Core, Core', JnlInv, StableInv, NEW p \in Proc, NewEpoch(p)
  PROVE  StableInv'
<1>a. Types /\ Types' /\ CritInv /\ TnInv  BY DEF Core
<1>b. [Next]_vars  BY DEF NewEpoch, Commit, ProcStep, Next
<1>1. PICK m \in Nat : m = Len(jnl)  BY <1>a, AddrNat
<1>2. /\ Len(jnl') = m + 1 /\ \A i \in 1 .. m : jnl'[i] = jnl[i]
      /\ jnl'[m + 1].type = "epoch" /\ need_db_fsync' = TRUE
      /\ Epochs' = Epochs \cup {m + 1} /\ \A b : Pblks(b)' = Pblks(b)
  BY <1>a, <1>1, EpochSets
<1>3. pc[p] = "flu2" /\ CanWriteEpoch /\ dskaddr' = dskaddr /\ fsync_dskaddr' = fsync_dskaddr /\ stable' = stable /\ disk' = disk
  BY DEF NewEpoch, WriteEpoch, dskvars
<1>4. dskaddr = m /\ fsync_dskaddr = m  BY <1>1, <1>3 DEF JnlInv, FluInv, FluFor
<1>5. \A b \in Block : disk'[b] \in stable'[b]  BY <1>3 DEF StableInv
<1>6. ASSUME NEW e \in Epochs, NEW b \in Block  PROVE StableFor(e, b)'
  <2>1. e \in Nat /\ e <= m  BY <1>1 DEF Epochs
  <2>2. StableFor(e, b)  BY DEF StableInv
  <2>3. fsync_dskaddr <= fsync_dskaddr'  BY <1>3, <1>4
  <2>4. \A v \in stable[b] : Undone(e, b, v)'
    <3> TAKE v \in stable[b]
    <3>1. Undone(e, b, v)  BY <1>4, <2>1, <2>2 DEF StableFor
    <3> QED  BY <1>b, <1>2, <2>3, <3>1, UndoneKeep
  <2> QED  BY <1>3, <1>4, <2>1, <2>4 DEF StableFor
<1>7. ASSUME NEW b \in Block, NEW e, e = m + 1  PROVE StableFor(e, b)'
  <2>1. disk[b] = Ver(b)  BY <1>3, DiskCurrent
  <2>2. curr_tn \in Nat /\ \A i \in 1 .. m : jnl[i].tn \in Nat /\ jnl[i].tn <= curr_tn  BY <1>a, <1>1, AddrNat DEF TnInv
  <2>3. ASSUME NEW i \in 1 .. m, jnl[i].type = "set"  PROVE jnl[i].tn < curr_tn
    <3>1. CASE jnl[i].tn = curr_tn
      <4>1. PICK q \in Proc : pc[q] \in Early  BY <1>a, <1>1, <2>3, <3>1 DEF TnInv
      <4>2. q # p /\ pc[q] \in InCommit /\ pc[p] \in InCommit  BY <1>3, <4>1 DEF Early, InCommit
      <4> QED  BY <1>a, <4>2, OneCommit
    <3>2. CASE jnl[i].tn # curr_tn
      <4>1. PICK t \in Nat, u \in Nat : t = jnl[i].tn /\ u = curr_tn  BY <2>2
      <4> QED  BY <2>2, <3>2, <4>1
    <3> QED  BY <3>1, <3>2
  <2>4. PICK S : S = {j \in 1 .. m : jnl[j].type = "set" /\ b \in jnl[j].blks}  OBVIOUS
  <2>5. {j \in {i \in 1 .. m : jnl[i].tn < curr_tn} : jnl[j].type = "set" /\ b \in jnl[j].blks} = S  BY <2>3, <2>4
  <2>6. {j \in 1 .. e : jnl'[j].type = "set" /\ b \in jnl'[j].blks} = S
    <3>1. \A j \in 1 .. e : j \in 1 .. m \/ j = m + 1  BY <1>7
    <3>2. \A j \in 1 .. m : j \in 1 .. e  BY <1>7
    <3> QED  BY <1>2, <2>4, <3>1, <3>2
  <2>7. {jnl'[i].tn : i \in S} = {jnl[i].tn : i \in S}  BY <1>2, <2>4
  <2>8. Ver(b) = [blk |-> b, tn |-> Max({0} \cup {jnl[i].tn : i \in S})]  BY <1>1, <2>5 DEF Ver, VersionAt, LastSet
  <2>9. LastSet(b, 1 .. e)' = [blk |-> b, tn |-> Max({0} \cup {jnl[i].tn : i \in S})]  BY <2>6, <2>7 DEF LastSet
  <2>10. disk'[b] = LastSet(b, 1 .. e)'  BY <1>3, <2>1, <2>8, <2>9
  <2>11. ~(e <= dskaddr') /\ e <= fsync_dskaddr' + 1  BY <1>3, <1>4, <1>7
  <2> QED  BY <1>2, <2>10, <2>11 DEF StableFor
<1> QED  BY <1>2, <1>5, <1>6, <1>7 DEF StableInv

LEMMA StableNext ==
  ASSUME Core, JnlInv, WalInv, StableInv, [Next]_vars
  PROVE  StableInv'
<1>b. Core' /\ JnlInv'  BY CoreNext, JnlNext
<1>1. CASE \E p \in Proc : NewEpoch(p)  BY <1>1, <1>b, StableEpoch
<1>2. CASE \A p \in Proc : ~NewEpoch(p)
  <2>1. Grows  BY <1>2, <1>b, GrowsLog
  <2>2. ASSUME SameFiles  PROVE StableInv'  BY <1>b, <2>1, <2>2, StableKeep DEF SameFiles
  <2>3. ASSUME NEW p \in Proc, Search(p) \/ TEnd(p)  PROVE StableInv'  BY <2>2, <2>3, LogSearch
  <2>4. ASSUME NEW p \in Proc, FlushJnl(p)  PROVE StableInv'
    <3>1. JnlOutput /\ disk' = disk  BY <2>4 DEF FlushJnl
    <3> QED  BY <1>b, <2>1, <3>1, StableOutput
  <2>5. ASSUME NEW p \in Proc, LogStep(p)  PROVE StableInv'
    <3>1. dskaddr' = dskaddr /\ fsync_dskaddr' = fsync_dskaddr /\ stable' = stable /\ disk' = disk
          /\ (~WriteEpoch(p) => need_db_fsync' = need_db_fsync)
      BY <2>5, LogFiles
    <3>2. WriteEpoch(p) => need_db_fsync' = need_db_fsync  BY <1>2 DEF NewEpoch, WriteEpoch
    <3> QED  BY <2>2, <3>1, <3>2 DEF SameFiles
  <2>6. ASSUME NEW p \in Proc, Commit(p)  PROVE StableInv'  BY <2>2, <2>4, <2>5, <2>6, LogCommit
  <2>7. ASSUME NEW w \in Writer, WtStep(w)  PROVE StableInv'
    <3>1. CASE WtWrite(w)  BY <1>b, <2>1, <3>1, StableWrite
    <3>2. CASE ~WtWrite(w)
      <4>1. dskaddr' = dskaddr  BY <2>7, WtrFrameIs DEF WtrFrame
      <4>2. stable' = stable /\ disk' = disk /\ need_db_fsync' = need_db_fsync
        BY <2>7, <3>2 DEF WtStep, WtStart, WtLock, WtRelease, dskvars, jnlvars
      <4> QED  BY <1>b, <2>1, <4>1, <4>2, StableKeep
    <3> QED  BY <3>1, <3>2
  <2>8. CASE JnlQio
    <3>1. JnlOutput /\ disk' = disk  BY <2>8 DEF JnlQio
    <3> QED  BY <1>b, <2>1, <3>1, StableOutput
  <2>9. CASE UNCHANGED vars  BY <2>2, <2>9 DEF vars, SameFiles
  <2> QED  BY <2>3, <2>6, <2>7, <2>8, <2>9 DEF Next, ProcStep
<1> QED  BY <1>1, <1>2

LEMMA InitStable ==
  ASSUME Init
  PROVE  StableInv
<1>1. jnl = << >> /\ dskaddr = 0 /\ Len(jnl) = 0  BY DEF Init
<1>2. \A b \in Block : disk[b] = [blk |-> b, tn |-> 0] /\ stable[b] = {disk[b]}  BY DEF Init
<1>3. Epochs = {0}  BY <1>1 DEF Epochs
<1>4. ASSUME NEW b \in Block  PROVE LastSet(b, 1 .. 0) = [blk |-> b, tn |-> 0]
  <2>1. {j \in 1 .. 0 : jnl[j].type = "set" /\ b \in jnl[j].blks} = {}  OBVIOUS
  <2>2. {0} \cup {jnl[i].tn : i \in {}} = {0}  OBVIOUS
  <2>3. Max({0}) = 0
    <3>1. Max({0}) \in {0}  BY MaxIs
    <3> QED  BY <3>1
  <2> QED  BY <2>1, <2>2, <2>3 DEF LastSet
<1>5. \A b \in Block : StableFor(0, b)  BY <1>1, <1>2, <1>4 DEF StableFor, Undone
<1> QED  BY <1>2, <1>3, <1>5 DEF StableInv

-----------------------------------------------------------------------------
(* Recovery *)

(* The first before-image after an epoch has the contents at that epoch *)
LEMMA FirstImage ==
  ASSUME Core, JnlInv, Images, NEW e \in Epochs, NEW b \in Block, NEW k \in Nat, k <= dskaddr,
         NEW m \in Pblks(b), e < m, m <= k, \A i \in Pblks(b) : e < i /\ i <= k => m <= i
  PROVE  jnl[m].image = LastSet(b, 1 .. e)
<1>a. Types  BY DEF Core
<1>0. PICK n \in Nat : n = Len(jnl) /\ dskaddr \in Nat /\ dskaddr <= n  BY <1>a, AddrNat DEF JnlInv, AddrInv
<1>1. m \in 1 .. n /\ jnl[m].type = "pblk" /\ b \in jnl[m].blks  BY <1>0 DEF Pblks
<1>2. e \in Nat /\ e < n /\ (e = 0 \/ (e \in 1 .. n /\ jnl[e].type = "epoch"))  BY <1>0, <1>1 DEF Epochs
<1>3. jnl[m].written
  <2>1. m \in 1 .. dskaddr  BY <1>0, <1>1
  <2> QED  BY <2>1 DEF JnlInv, AddrInv
<1>4. PICK t \in Nat : t = jnl[m].tn  BY <1>a, <1>0, <1>1, AddrNat
<1>5. jnl[m].image = VersionAt(b, t)
  <2>1. PICK d \in Block : ImageFor(m, d)  BY <1>0, <1>1 DEF Images, ImageInv
  <2>2. d = b  BY <1>1, <2>1 DEF ImageFor
  <2> QED  BY <1>3, <1>4, <2>1, <2>2 DEF ImageFor
<1>6. \A i \in 1 .. n : jnl[i].tn \in Nat  BY <1>a, <1>0, AddrNat
<1>7. ASSUME NEW j \in 1 .. n, jnl[j].type = "set", b \in jnl[j].blks  PROVE jnl[j].tn < t <=> j <= e
  <2>0. PICK x \in Nat : x = jnl[j].tn  BY <1>6
  <2>1. ASSUME j <= e  PROVE x < t
    <3>1. e \in 1 .. n /\ jnl[e].type = "epoch"  BY <1>2, <2>1
    <3>2. j \in 1 .. e - 1  BY <1>2, <1>7, <2>1, <3>1
    <3>3. PICK y \in Nat : y = jnl[e].tn  BY <1>6, <3>1
    <3>4. x < y  BY <1>0, <1>7, <2>0, <3>1, <3>2, <3>3 DEF JnlInv, EpochInv
    <3>5. y <= t  BY <1>0, <1>1, <1>4, <3>1, <3>3 DEF JnlInv, OrderInv
    <3> QED  BY <3>4, <3>5
  <2>2. ASSUME x < t, e < j  PROVE FALSE
    <3>1. j < m
      <4> SUFFICES ASSUME m <= j  PROVE FALSE  BY <1>1
      <4>1. m # j  BY <1>1, <1>7
      <4>2. m < j  BY <1>1, <4>1
      <4>3. t <= x  BY <1>0, <1>1, <1>4, <2>0, <4>2 DEF JnlInv, OrderInv
      <4> QED  BY <2>2, <4>3
    <3>2. PICK i \in Pblks(b) : e < i /\ i < j
      <4>1. BeforeFor(e, j, b)  BY <1>0 DEF Images, BeforeInv
      <4> QED  BY <1>7, <2>2, <4>1 DEF BeforeFor
    <3>3. i \in Nat  BY <1>0 DEF Pblks
    <3>4. i <= k /\ i < m  BY <1>1, <3>1, <3>2, <3>3
    <3> QED  BY <1>1, <3>2, <3>3, <3>4
  <2> QED  BY <1>2, <2>0, <2>1, <2>2
<1>8. {j \in {i \in 1 .. n : jnl[i].tn < t} : jnl[j].type = "set" /\ b \in jnl[j].blks}
        = {j \in 1 .. e : jnl[j].type = "set" /\ b \in jnl[j].blks}
  <2>1. \A j \in 1 .. e : j \in 1 .. n  BY <1>2
  <2>2. \A j \in 1 .. n : j <= e => j \in 1 .. e  BY <1>2
  <2> QED  BY <1>7, <2>1, <2>2
<1>9. VersionAt(b, t) = LastSet(b, 1 .. e)  BY <1>0, <1>8 DEF VersionAt, LastSet
<1> QED  BY <1>5, <1>9

LEMMA Recovers ==
  ASSUME Core, JnlInv, Images, StableInv
  PROVE  CrashRecovers
<1>a. Types  BY DEF Core
<1>0. PICK n \in Nat : n = Len(jnl) /\ dskaddr \in Nat /\ fsync_dskaddr \in Nat /\ dskaddr <= n /\ fsync_dskaddr <= dskaddr
  BY <1>a, AddrNat DEF JnlInv, AddrInv
<1> SUFFICES ASSUME NEW k \in fsync_dskaddr .. dskaddr, NEW e \in {0} \cup {i \in 1 .. k : jnl[i].type = "epoch"},
                    NEW b \in Block, NEW v \in stable[b]
             PROVE  Recovered(b, v, e, k) = LastSet(b, 1 .. e)
  BY DEF CrashRecovers
<1>1. k \in Nat /\ k <= dskaddr /\ fsync_dskaddr <= k  BY <1>0
<1>2. e \in Epochs /\ e \in Nat /\ e <= k  BY <1>0, <1>1 DEF Epochs
<1>3. PICK S : S = {i \in e + 1 .. k : jnl[i].type = "pblk" /\ b \in jnl[i].blks}  OBVIOUS
<1>4. \A i : i \in S <=> i \in Pblks(b) /\ e < i /\ i <= k
  <2>1. \A i \in e + 1 .. k : i \in 1 .. n /\ e < i /\ i <= k  BY <1>0, <1>1, <1>2
  <2>2. \A i \in 1 .. n : e < i /\ i <= k => i \in e + 1 .. k  BY <1>0, <1>1, <1>2
  <2> QED  BY <1>0, <1>3, <2>1, <2>2 DEF Pblks
<1>5. CASE S = {}
  <2>1. Recovered(b, v, e, k) = v  BY <1>3, <1>5 DEF Recovered
  <2>2. Undone(e, b, v)
    <3>1. e <= dskaddr  BY <1>0, <1>1, <1>2
    <3> QED  BY <1>2, <3>1 DEF StableInv, StableFor
  <2>3. ASSUME NEW i \in Pblks(b), e < i, i <= fsync_dskaddr  PROVE FALSE
    <3>1. i \in Nat  BY <1>0 DEF Pblks
    <3>2. i <= k  BY <1>0, <1>1, <2>3, <3>1
    <3> QED  BY <1>4, <1>5, <2>3, <3>2
  <2> QED  BY <2>1, <2>2, <2>3 DEF Undone
<1>6. CASE S # {}
  <2>1. S \subseteq Nat  BY <1>1, <1>2, <1>3
  <2>2. PICK m : m = Min(S)  OBVIOUS
  <2>3. m \in S /\ \A i \in S : m <= i  BY <1>6, <2>1, <2>2, MinIs
  <2>4. m \in Pblks(b) /\ e < m /\ m <= k  BY <1>4, <2>3
  <2>5. \A i \in Pblks(b) : e < i /\ i <= k => m <= i  BY <1>4, <2>3
  <2>6. jnl[m].image = LastSet(b, 1 .. e)  BY <1>1, <1>2, <2>4, <2>5, FirstImage
  <2>7. Recovered(b, v, e, k) = jnl[m].image  BY <1>3, <1>6, <2>2 DEF Recovered
  <2> QED  BY <2>6, <2>7
<1> QED  BY <1>5, <1>6

(* The inductive invariant of recovery *)
DiskInv == Core /\ JnlInv /\ Images /\ WalInv /\ StableInv

(* Before-image recovery works: at whatever step the machine stops, and whichever writes of the two files    *)
(* survive, applying the PBLKs after an epoch (mur_apply_pblk) gives every block its contents at that epoch. *)
(* jnl_write_pblk comes before bg_update changes a block, wcs_wtstart hardens the journal before it writes a *)
(* block, and wcs_flu hardens the database before it writes an EPOCH.                                        *)
THEOREM CrashSafe == Spec => []CrashRecovers
<1>1. Init => DiskInv  BY InitCore, InitJnl, InitImages, InitWal, InitStable DEF DiskInv
<1>2. DiskInv /\ [Next]_vars => DiskInv'  BY CoreNext, JnlNext, ImageNext, WalNext, StableNext DEF DiskInv
<1>3. DiskInv => CrashRecovers  BY Recovers DEF DiskInv
<1> QED  BY <1>1, <1>2, <1>3, PTL DEF Spec
=============================================================================
