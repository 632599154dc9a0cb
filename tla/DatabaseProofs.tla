--------------------------- MODULE DatabaseProofs ---------------------------
(***************************************************************************)
(* Proofs about Database.tla, 1: the parts of the invariant, what each     *)
(* step does to the buffers, and who may use which buffer.                 *)
(*                                                                         *)
(* The invariant is about a process at each of its steps: JobInv where it  *)
(* is in its transaction, CritInv whether it is in crit, TnInv and OpenInv *)
(* its transaction number and journal records, PinInv the buffers it tends *)
(* to. ReadInv, WtrInv and DataInv speak of the buffer a process reads, a  *)
(* writer writes and of what is in it, BtInv of the BT, HistInv of what    *)
(* the history of a search tells about buffers and blocks that have moved  *)
(* since.                                                                  *)
(***************************************************************************)
EXTENDS Database, FiniteSetTheorems, SequenceTheorems, WellFoundedInduction, TLAPS

(* From the reservation of the records to the increment of curr_tn; and in t_end before the commit *)
Early == {"cmt10", "cmt10w", "cmt12"}
AtEnd == {"ro", "romod", "rocyc", "rodone", "grab", "valid"}

(* The last committed contents of b *)
Ver(b) == VersionAt(b, curr_tn)

JobOK(j) == j \in Job /\ IsPath(j.path) /\ j.upd \subseteq ToSet(j.path)

HistRec == [cr : Buffer, cycle : Nat, tn : Nat, ver : Contents]

(* The types of the variables *)
ProcTypes ==
  /\ pc \in [Proc -> PC] /\ lvl \in [Proc -> Nat] /\ todo \in [Proc -> Seq(Job)]
  /\ tries \in [Proc -> 0 .. CDB_STAGNATE] /\ start_tn \in [Proc -> Nat]
  /\ clue \in [Proc -> Seq(Block)] /\ same \in [Proc -> BOOLEAN]
  /\ rem \in [Proc -> SUBSET Block] /\ ctn \in [Proc -> Nat]
  /\ jnl_freeaddr \in [Proc -> [Block -> Nat]] /\ began \in [Proc -> Nat]
HistTypes == hist \in [Proc -> [Block -> HistRec]]
BufTypes ==
  /\ cr \in [Buffer -> CacheRec]
  /\ bt \in Seq([blk : Block \cup {NoBlock}, tn : Nat]) /\ Buffer = 1 .. Len(bt) /\ bt # << >>
WtrTypes == wtr \in [Writer -> [pc : {"idle", "lock", "write", "release"}, cr : Buffer]]
FileTypes ==
  /\ crit \in Proc \cup {NoProc} /\ curr_tn \in Nat \ {0} /\ early_tn \in Nat
  /\ disk \in [Block -> Contents] /\ stable \in [Block -> SUBSET Contents]
  /\ dskaddr \in Nat /\ fsync_dskaddr \in Nat
  /\ epoch_tn \in Nat /\ need_db_fsync \in BOOLEAN /\ epochs \in Nat
JnlTypes == jnl \in Seq(JnlRec)
Types == ProcTypes /\ HistTypes /\ BufTypes /\ WtrTypes /\ FileTypes /\ JnlTypes

(* What a process is asked to do, where it is in its path, and the blocks left of a loop over cw_set *)
JobFor(p) ==
  /\ \A i \in 1 .. Len(todo[p]) : JobOK(todo[p][i])
  /\ pc[p] \notin {"idle", "gone"} => todo[p] # << >> /\ lvl[p] \in 1 .. Len(Path(p))
  /\ pc[p] \in AtEnd \cup InCommit \cup Phase2 => clue[p] = Path(p)
  /\ pc[p] = "clue" => clue[p] = Path(p)
  /\ pc[p] \in {"grab", "valid"} \cup InCommit \cup Phase2 => Upd(p) # {}
  /\ pc[p] \in Early \cup Phase2 => rem[p] \subseteq Upd(p) /\ (rem[p] = {} <=> pc[p] = "cmt12")
  /\ pc[p] = "cmt16" => rem[p] = Upd(p)
JobInv == \A p \in Proc : JobFor(p)

(* Who is in crit *)
CritFor(p) ==
  /\ pc[p] \in {"getn", "valid"} \cup InCommit => crit = p
  /\ Final(p) /\ pc[p] \in Reading \cup AtEnd => crit = p
CritInv == \A p \in Proc : CritFor(p)

(* The transaction numbers *)
TnInv ==
  /\ \A p \in Proc : /\ pc[p] \in Early => early_tn = curr_tn + 1 /\ ctn[p] = curr_tn
                     /\ pc[p] \in Phase2 => ctn[p] < curr_tn /\ ctn[p] > 0
  /\ early_tn \in {curr_tn, curr_tn + 1}
  /\ \A i \in 1 .. Len(jnl) : jnl[i].tn <= curr_tn
  /\ \A i \in 1 .. Len(jnl) : jnl[i].type = "set" /\ jnl[i].tn = curr_tn =>
       \E p \in Proc : pc[p] \in Early /\ jnl[i].blks = Upd(p)
  /\ \A p \in Proc : pc[p] \in Early =>
       \E i \in 1 .. Len(jnl) : jnl[i].type = "set" /\ jnl[i].tn = curr_tn /\ jnl[i].blks = Upd(p)

(* A record that is still to be written is of a transaction before CMT18 *)
OpenInv ==
  \A i \in 1 .. Len(jnl), q \in Proc : ~jnl[i].written /\ jnl[i].by = q =>
    /\ pc[q] \in Early \cup {"cmt16"} /\ jnl[i].tn = ctn[q]
    /\ jnl[i].type = "pblk" => \E b \in Upd(q) : jnl[i].blks = {b}

(* The blocks whose buffer has in_tend, or in_cw_set, of p; those p keeps the writers from; and of *)
(* these the ones whose contents are still the old ones                                              *)
Tending(p) == {b \in Block : \/ pc[p] \in Early /\ b \in Upd(p) \ rem[p]
                             \/ pc[p] = "cmt10w" /\ b = Cse(p)
                             \/ pc[p] \in Phase2 /\ b \in rem[p]}
Pinned(p)  == {b \in Block : \/ pc[p] \in InCommit /\ b \in Upd(p)
                             \/ pc[p] \in Phase2 /\ b \in rem[p]}
Locked(p)  == {b \in Block : \/ pc[p] \in Early /\ b \in Upd(p) \ rem[p]
                             \/ pc[p] \in Phase2 /\ b \in rem[p] /\ (pc[p] = "cmt18d" => b # Cse(p))}
Unbuilt(p) == {b \in Locked(p) : pc[p] = "cmt18c" => b # Cse(p)}

(* The buffer has not been given away since h was noted; nobody is building its contents *)
Kept(h) == cr[h.cr].cycle = h.cycle
Settled(c) == \A p \in Proc : cr[c].in_tend = p => pc[p] \in InCommit

(* The buffers of a commit *)
PinInv ==
  /\ \A c, d \in Buffer : cr[c].blk # NoBlock /\ cr[c].blk = cr[d].blk => c = d
  /\ \A c \in Buffer, p \in Proc : cr[c].in_tend = p <=> cr[c].blk \in Tending(p)
  /\ \A c \in Buffer, p \in Proc : cr[c].in_cw_set = p <=> cr[c].blk \in Pinned(p)
  /\ \A p \in Proc : \A b \in Pinned(p) :
       LET h == hist[p][b] IN cr[h.cr].blk = b /\ Kept(h) /\ cr[h.cr].rip = NoProc

(* The buffer that is being read from the file *)
ReadInv ==
  /\ \A c \in Buffer, p \in Proc : cr[c].rip = p => pc[p] = "read" /\ Hist(p).cr = c
  /\ \A p \in Proc : pc[p] = "read" =>
       LET r == cr[Hist(p).cr] IN
         /\ r.rip = p /\ r.blk = Blk(p) /\ Hist(p).cycle = r.cycle
         /\ r.dirty = 0 /\ r.latch = "clear" /\ ~r.queued

(* The writers: a buffer is on the active queue, with a writer, or kept from both by a commit *)
Busy(w, c) == wtr[w].pc # "idle" /\ wtr[w].cr = c
OneWriter == \A v, w \in Writer : wtr[v].pc # "idle" /\ wtr[w].pc # "idle" /\ wtr[v].cr = wtr[w].cr => v = w
WtrFor(c) ==
  /\ cr[c].queued => cr[c].dirty # 0
  /\ cr[c].dirty # 0 => cr[c].blk # NoBlock /\ cr[c].rip = NoProc
  /\ \A w \in Writer : Busy(w, c) =>
       /\ ~cr[c].queued /\ (wtr[w].pc = "release" <=> cr[c].dirty = 0)
       /\ wtr[w].pc # "lock" => cr[c].latch # "clear" /\ \A p \in Proc : cr[c].blk \notin Locked(p)
  /\ \A p \in Proc : cr[c].blk \in Locked(p) =>
       /\ cr[c].latch # "clear" /\ cr[c].dirty # 0
       /\ cr[c].latch = "conflict" => ~cr[c].queued /\ \A w \in Writer : ~Busy(w, c)
  /\ \A p \in Proc : cr[c].blk \in Unbuilt(p) /\ cr[c].tn = 0 =>
       cr[c].latch = "set" /\ ~cr[c].queued /\ \A w \in Writer : ~Busy(w, c)
WtrInv == OneWriter /\ \A c \in Buffer : WtrFor(c)

(* The buffer c, which holds block b *)
DataFor(c, b) ==
  /\ cr[c].data.blk = b
  /\ Settled(c) => cr[c].data = Ver(b)
  /\ cr[c].dirty = 0 => cr[c].data = disk[b]
  /\ \A p \in Proc : cr[c].in_tend = p /\ pc[p] \in Phase2 =>
       /\ Ver(b).tn = ctn[p]
       /\ pc[p] \in {"cmt18c", "cmt18d"} /\ b = Cse(p) => cr[c].data.tn = ctn[p]
DataInv ==
  /\ \A b \in Block : CrOf(b) = {} => disk[b] = Ver(b)
  /\ \A p \in Proc, b \in Block : pc[p] = "read" /\ Blk(p) = b => disk[b] = Ver(b)
  /\ \A c \in Buffer, b \in Block : cr[c].blk = b /\ cr[c].rip = NoProc => DataFor(c, b)

(* BT says that b changed at t or later, or has forgotten something as late *)
Covers(b, t) == /\ \A i \in BtOf(b) : t <= bt[i].tn
                /\ BtOf(b) = {} => t <= Head(bt).tn
BtInv ==
  /\ \A i, j \in 1 .. Len(bt) : i < j => bt[i].tn <= bt[j].tn
  /\ \A i, j \in 1 .. Len(bt) : bt[i].blk # NoBlock /\ bt[i].blk = bt[j].blk => i = j
  /\ \A i \in 1 .. Len(bt) : bt[i].tn <= curr_tn
  /\ \A i \in 1 .. Len(bt) : bt[i].tn = curr_tn => \E p \in Proc : pc[p] \in Early
  /\ \A b \in Block : Covers(b, Ver(b).tn)
  /\ \A p \in Proc : pc[p] \in InCommit => \A b \in Tending(p) : Covers(b, curr_tn)

(* The blocks of which p has a valid entry in its history; and those it has also looked at *)
NonLeaf(s) == {s[i] : i \in 1 .. Len(s) - 1}
Prefix(p) == {Path(p)[i] : i \in 1 .. lvl[p] - 1}
LookSet(p) ==
  IF pc[p] = "idle" THEN ToSet(clue[p])
  ELSE IF pc[p] \in {"clue"} \cup AtEnd \cup InCommit THEN ToSet(Path(p))
  ELSE IF pc[p] \in Phase2 THEN ToSet(Path(p)) \ Upd(p)
  ELSE IF pc[p] = "look" THEN Prefix(p) \cup {Blk(p)}
  ELSE IF pc[p] \in Reading THEN Prefix(p) ELSE {}
SeenSet(p) ==
  IF pc[p] = "idle" THEN NonLeaf(clue[p])
  ELSE IF pc[p] = "clue" THEN NonLeaf(Path(p))
  ELSE IF pc[p] = "look" THEN Prefix(p)
  ELSE LookSet(p)

(* What the history of p says of block b, in buffer c *)
Found(p, b, c) ==
  /\ hist[p][b].cycle <= cr[c].cycle
  /\ hist[p][b].cycle = cr[c].cycle =>
       /\ cr[c].blk = b /\ cr[c].rip = NoProc
       /\ Ver(b).tn < hist[p][b].tn => Settled(c)
Seen(p, b, c) == hist[p][b].cycle = cr[c].cycle /\ Ver(b).tn < hist[p][b].tn => hist[p][b].ver = Ver(b)
Waits(p, b, c) ==
  /\ hist[p][b].cycle <= cr[c].cycle
  /\ pc[p] = "intend" /\ hist[p][b].cycle = cr[c].cycle => cr[c].blk = b /\ cr[c].rip = NoProc
HistTn(p) ==
  /\ \A b \in Block : hist[p][b].tn <= IF pc[p] \in InCommit THEN curr_tn + 1 ELSE curr_tn
  /\ pc[p] \in InCommit => \A b \in ToSet(Path(p)) : hist[p][b].tn = curr_tn + 1
HistFor(p) ==
  /\ HistTn(p)
  /\ \A b \in Block, c \in Buffer : hist[p][b].cr = c =>
       /\ pc[p] \in {"wait", "intend"} /\ Blk(p) = b => Waits(p, b, c)
       /\ b \in LookSet(p) => Found(p, b, c)
       /\ b \in SeenSet(p) => Seen(p, b, c)
HistInv == \A p \in Proc : HistFor(p)

(* What a commit has read is current *)
CommitFor(p) == pc[p] \in InCommit => \A b \in ToSet(Path(p)) : hist[p][b].ver = Ver(b)
CommitInv == \A p \in Proc : CommitFor(p)

(* Between NoteTn and the look at the block *)
Getting == {"find", "miss", "getn", "read", "cycle", "wait", "intend"}

StartFor(p) ==
  /\ began[p] <= curr_tn
  /\ pc[p] \in Reading \cup AtEnd =>
       /\ start_tn[p] <= curr_tn
       /\ \A b \in Block : b \in LookSet(p) \/ (pc[p] \in Getting /\ Blk(p) = b) => start_tn[p] <= hist[p][b].tn
StartInv == \A p \in Proc : StartFor(p)

(* The history of p against the database as it was at t *)
Snap(p, i, b, c, t) ==
  /\ hist[p][b].tn <= t
  /\ i > lvl[p] \/ pc[p] = "rodone" => hist[p][b].ver = VersionAt(b, t)
  /\ hist[p][b].cycle = cr[c].cycle /\ (same[p] \/ (pc[p] = "rocyc" /\ i = lvl[p]) \/ Ver(b).tn < hist[p][b].tn) =>
       hist[p][b].ver = VersionAt(b, t)
SnapAt(p, t) == \A i \in 1 .. Len(Path(p)), b \in Block, c \in Buffer :
                  Path(p)[i] = b /\ hist[p][b].cr = c => Snap(p, i, b, c, t)
SnapFor(p) == pc[p] \in {"romod", "rocyc", "rodone"} => \E t \in Nat : began[p] <= t /\ t <= curr_tn /\ SnapAt(p, t)
SnapInv == \A p \in Proc : SnapFor(p)

(* The final retry, in crit from its start *)
Held(p, b, c) ==
  /\ b \in LookSet(p) => hist[p][b].cycle = cr[c].cycle /\ hist[p][b].tn = curr_tn /\ cr[c].in_tend = NoProc
  /\ pc[p] \in Getting /\ Blk(p) = b => hist[p][b].tn = curr_tn
  /\ pc[p] \in {"cycle", "wait", "intend"} /\ Blk(p) = b => cr[c].blk = b
  /\ pc[p] \in {"wait", "intend"} /\ Blk(p) = b => hist[p][b].cycle = cr[c].cycle
FinalFor(p) ==
  Final(p) /\ pc[p] \in Reading \cup AtEnd \cup {"retry"} =>
    /\ pc[p] # "retry" /\ pc[p] # "clue"
    /\ \A b \in Block, c \in Buffer : hist[p][b].cr = c => Held(p, b, c)
FinalInv == \A p \in Proc : FinalFor(p)

-----------------------------------------------------------------------------
(* Sets and sequences *)

LEMMA LeastNat ==
  ASSUME NEW T, T \subseteq Nat, T # {}
  PROVE  \E n \in T : \A y \in T : n <= y
<1>1. PICK n \in T : \A y \in T : ~(<<y, n>> \in OpToRel(<, Nat))  BY NatLessThanWellFounded, WFMin
<1>2. n \in Nat /\ \A y \in T : y \in Nat /\ ~(y < n)  BY <1>1 DEF OpToRel
<1>3. n \in T /\ \A y \in T : n <= y  BY <1>2
<1> QED  BY <1>3

(* The maximum of a bounded set of numbers is one of them. *)
LEMMA MaxIs ==
  ASSUME NEW S, S \subseteq Nat, NEW m \in Nat, \A x \in S : x <= m, S # {}
  PROVE  Max(S) \in S /\ \A x \in S : x <= Max(S)
<1> DEFINE T == {n \in Nat : \A x \in S : x <= n}
<1>1. PICK n \in T : \A y \in T : n <= y
  <2>1. T \subseteq Nat /\ m \in T  OBVIOUS
  <2> HIDE DEF T
  <2> QED  BY <2>1, LeastNat
<1>2. n \in S
  <2>1. CASE n = 0
    <3>1. PICK x \in S : TRUE  OBVIOUS
    <3>2. x \in Nat /\ x <= 0  BY <1>1, <2>1
    <3>3. x = 0  BY <3>2
    <3> QED  BY <2>1, <3>1, <3>3
  <2>2. CASE n # 0
    <3>1. n - 1 \in Nat /\ n - 1 \notin T  BY <1>1, <2>2
    <3>2. PICK x \in S : ~(x <= n - 1)  BY <3>1
    <3> QED  BY <1>1, <3>1, <3>2
  <2> QED  BY <2>1, <2>2
<1>3. \E x \in S : \A y \in S : x >= y  BY <1>1, <1>2
<1>4. Max(S) \in S /\ \A y \in S : Max(S) >= y  BY <1>3 DEF Max
<1> QED  BY <1>4

LEMMA MinIs ==
  ASSUME NEW S, S \subseteq Nat, S # {}
  PROVE  Min(S) \in S /\ \A x \in S : Min(S) <= x
<1>1. \E n \in S : \A y \in S : n =< y  BY LeastNat
<1> QED  BY <1>1 DEF Min

LEMMA SeqBounded ==
  ASSUME NEW s, NEW n \in Nat, \A i \in 1 .. n : s[i] \in Nat
  PROVE  \E m \in Nat : \A i \in 1 .. n : s[i] <= m
<1> DEFINE Has(k) == \E m \in Nat : \A i \in 1 .. k : s[i] <= m
           T == {k \in Nat : k <= n /\ ~Has(k)}
<1> SUFFICES ASSUME n \in T  PROVE FALSE  OBVIOUS
<1>1. PICK k \in T : \A y \in T : k <= y
  <2>1. T \subseteq Nat /\ T # {}  OBVIOUS
  <2> HIDE DEF T
  <2> QED  BY <2>1, LeastNat
<1>2. k \in Nat /\ k <= n /\ ~Has(k) /\ \A y \in T : k <= y  BY <1>1
<1>0. k # 0  BY <1>2
<1>3. k - 1 \in Nat /\ k - 1 <= n /\ k - 1 \notin T
  <2> HIDE DEF T
  <2> QED  BY <1>0, <1>2
<1>4. PICK m \in Nat : \A i \in 1 .. k - 1 : s[i] <= m  BY <1>3
<1>5. PICK x \in Nat : x = s[k]
  <2>1. k \in 1 .. n  BY <1>0, <1>2
  <2> QED  BY <2>1
<1>6. PICK y \in Nat : y >= m /\ y >= x
  <2>1. m + x \in Nat /\ m + x >= m /\ m + x >= x  OBVIOUS
  <2> QED  BY <2>1
<1>7. \A i \in 1 .. k : s[i] <= y
  <2> TAKE i \in 1 .. k
  <2>1. CASE i = k  BY <1>5, <1>6, <2>1
  <2>2. CASE i # k
    <3>1. i \in 1 .. k - 1 /\ s[i] \in Nat  BY <1>2, <2>2
    <3> QED  BY <1>4, <1>6, <3>1
  <2> QED  BY <2>1, <2>2
<1> QED  BY <1>2, <1>7

LEMMA TheIs ==
  ASSUME NEW S, S # {}
  PROVE  The(S) \in S
BY DEF The

-----------------------------------------------------------------------------
(* The jobs of a process, and its path *)

LEMMA JobFacts ==
  ASSUME Types, JobInv, NEW p \in Proc, pc[p] \notin {"idle", "gone"}
  PROVE  /\ todo[p] # << >> /\ Path(p) \in Seq(Block) /\ Len(Path(p)) \in Nat \ {0}
         /\ lvl[p] \in 1 .. Len(Path(p)) /\ DOMAIN Path(p) = 1 .. Len(Path(p))
         /\ \A i \in 1 .. Len(Path(p)) : Path(p)[i] \in Block
         /\ \A i, j \in 1 .. Len(Path(p)) : Path(p)[i] = Path(p)[j] => i = j
         /\ Blk(p) \in Block /\ Hist(p) \in HistRec
         /\ ToSet(Path(p)) \subseteq Block /\ Upd(p) \subseteq ToSet(Path(p))
<1>1. todo[p] \in Seq(Job) /\ todo[p] # << >> /\ lvl[p] \in 1 .. Len(Path(p))  BY DEF Types, ProcTypes, JobInv, JobFor
<1>2. Head(todo[p]) = todo[p][1] /\ 1 \in 1 .. Len(todo[p])  BY <1>1
<1>3. JobOK(Head(todo[p]))  BY <1>2 DEF JobInv, JobFor
<1>4. /\ Path(p) \in Seq(Block) /\ Path(p) # << >> /\ Upd(p) \subseteq ToSet(Path(p))
      /\ \A i, j \in 1 .. Len(Path(p)) : Path(p)[i] = Path(p)[j] => i = j
  BY <1>3 DEF JobOK, Job, IsPath, Path, Upd
<1>5. /\ Len(Path(p)) \in Nat \ {0} /\ DOMAIN Path(p) = 1 .. Len(Path(p))
      /\ \A i \in 1 .. Len(Path(p)) : Path(p)[i] \in Block
  BY <1>4
<1>6. Blk(p) \in Block  BY <1>1, <1>5 DEF Blk
<1>7. Hist(p) \in HistRec  BY <1>6 DEF Hist, Types, HistTypes
<1>8. ToSet(Path(p)) \subseteq Block  BY <1>5 DEF ToSet
<1> QED  BY <1>1, <1>4, <1>5, <1>6, <1>7, <1>8

LEMMA BlockNat == Block \subseteq Nat \ {0} /\ NoBlock \notin Block /\ NoProc \notin Proc
BY DatabaseAssumption DEF NoBlock, NoProc

(* The next block of cw_set is one of those left. *)
LEMMA CseIs ==
  ASSUME Types, JobInv, NEW p \in Proc, pc[p] \in Early \cup Phase2, rem[p] # {}
  PROVE  Cse(p) \in rem[p]
<1>1. pc[p] \notin {"idle", "gone"}  BY DEF Early, Phase2
<1>2. rem[p] \subseteq ToSet(Path(p))  BY <1>1, JobFacts DEF JobInv, JobFor
<1>3. PICK s, n : s = Path(p) /\ n = Len(Path(p))  OBVIOUS
<1>4. n \in Nat /\ \A i \in 1 .. n : s[i] \in Nat  BY <1>1, <1>3, JobFacts, BlockNat
<1>5. PICK m \in Nat : \A i \in 1 .. n : s[i] <= m  BY <1>4, SeqBounded
<1>6. rem[p] \subseteq Nat /\ \A x \in rem[p] : x <= m
  BY <1>1, <1>2, <1>3, <1>4, <1>5, JobFacts DEF ToSet
<1> QED  BY <1>6, MaxIs DEF Cse

-----------------------------------------------------------------------------
(* The versions of a block *)

SetTns(b, t) == {jnl[i].tn : i \in {j \in {k \in 1 .. Len(jnl) : jnl[k].tn < t} :
                                      jnl[j].type = "set" /\ b \in jnl[j].blks}}

LEMMA JnlFields ==
  ASSUME Types, NEW i \in 1 .. Len(jnl)
  PROVE  /\ jnl[i] \in JnlRec /\ jnl[i].type \in {"pblk", "set", "epoch"} /\ jnl[i].by \in Proc
         /\ jnl[i].blks \subseteq Block /\ jnl[i].tn \in Nat /\ jnl[i].written \in BOOLEAN
<1>1. jnl \in Seq(JnlRec)  BY DEF Types, JnlTypes, FileTypes
<1>2. jnl[i] \in JnlRec  BY <1>1
<1> QED  BY <1>2 DEF JnlRec

LEMMA VersionIs ==
  ASSUME Types, NEW b, NEW t \in Nat
  PROVE  /\ VersionAt(b, t).blk = b /\ VersionAt(b, t) = [blk |-> b, tn |-> VersionAt(b, t).tn]
         /\ VersionAt(b, t).tn \in {0} \cup SetTns(b, t) /\ VersionAt(b, t).tn \in Nat
         /\ \A x \in SetTns(b, t) : x <= VersionAt(b, t).tn
         /\ t > 0 => VersionAt(b, t).tn < t
<1> DEFINE S == {0} \cup SetTns(b, t)
<1>2. \A i \in 1 .. Len(jnl) : jnl[i].tn \in Nat  BY JnlFields
<1>3. S \subseteq Nat /\ \A x \in S : x <= t  BY <1>2 DEF SetTns
<1>4. Max(S) \in S /\ \A x \in S : x <= Max(S)
  <2> HIDE DEF S
  <2>1. S # {}  BY DEF S
  <2> QED  BY <1>3, <2>1, MaxIs
<1>5. VersionAt(b, t) = [blk |-> b, tn |-> Max(S)]  BY DEF VersionAt, LastSet, SetTns
<1>6. t > 0 => Max(S) < t  BY <1>2, <1>4 DEF SetTns
<1> QED  BY <1>3, <1>4, <1>5, <1>6

LEMMA VersionMax ==
  ASSUME Types, NEW b, NEW t \in Nat, NEW m \in {0} \cup SetTns(b, t), \A x \in SetTns(b, t) : x <= m
  PROVE  VersionAt(b, t) = [blk |-> b, tn |-> m]
<1>1. PICK n : n = VersionAt(b, t).tn  OBVIOUS
<1>2. n \in {0} \cup SetTns(b, t) /\ n \in Nat /\ \A x \in SetTns(b, t) : x <= n  BY <1>1, VersionIs
<1>4. SetTns(b, t) \subseteq Nat  BY JnlFields DEF SetTns
<1>5. m = n  BY <1>2, <1>4
<1> QED  BY <1>1, <1>5, VersionIs

(* A step that leaves the versions before curr_tn alone. *)
SameVersions == \A b \in Block, t \in 0 .. curr_tn : VersionAt(b, t)' = VersionAt(b, t)

LEMMA JnlSame ==
  ASSUME jnl' = jnl
  PROVE  SameVersions /\ \A b, t : VersionAt(b, t)' = VersionAt(b, t)
BY DEF SameVersions, VersionAt, LastSet

(* New records of the current transaction, and other changes to the records, do not count. *)
LEMMA JnlGrows ==
  ASSUME Types, Len(jnl) \in Nat, Len(jnl') \in Nat, Len(jnl) <= Len(jnl'),
         \A i \in 1 .. Len(jnl) : jnl'[i].tn = jnl[i].tn /\ jnl'[i].type = jnl[i].type
                                  /\ jnl'[i].blks = jnl[i].blks,
         \A i \in Len(jnl) + 1 .. Len(jnl') : jnl'[i].tn = curr_tn
  PROVE  SameVersions
<1> SUFFICES ASSUME NEW b \in Block, NEW t \in 0 .. curr_tn
             PROVE  VersionAt(b, t)' = VersionAt(b, t)
  BY DEF SameVersions
<1>1. curr_tn \in Nat  BY DEF Types, JnlTypes, FileTypes
<1>2. \A i \in 1 .. Len(jnl') : ~(jnl'[i].tn < t) \/ i \in 1 .. Len(jnl)  BY <1>1
<1>3. SetTns(b, t)' = SetTns(b, t)  BY <1>2 DEF SetTns
<1> QED  BY <1>3 DEF SetTns, VersionAt, LastSet

-----------------------------------------------------------------------------
(* The types of the variables *)

USE DEF NoProc, NoBlock, Torn

LEMMA HistSet ==
  ASSUME Types, JobInv, NEW p \in Proc, pc[p] \notin {"idle", "gone"}, NEW h \in HistRec,
         SetHist(p, h), Buffer' = Buffer
  PROVE  HistTypes'
<1>1. Blk(p) \in Block /\ hist \in [Proc -> [Block -> HistRec]]  BY JobFacts DEF Types, HistTypes
<1>2. hist' \in [Proc -> [Block -> HistRec]]  BY <1>1 DEF SetHist
<1>3. HistRec' = HistRec  BY DEF HistRec
<1> QED  BY <1>2, <1>3 DEF HistTypes

LEMMA HistFields ==
  ASSUME NEW h \in HistRec
  PROVE  /\ h.cr \in Buffer /\ h.cycle \in Nat /\ h.tn \in Nat /\ h.ver \in Contents
         /\ \A c \in Buffer : [h EXCEPT !.cr = c] \in HistRec
         /\ \A n \in Nat : [h EXCEPT !.tn = n] \in HistRec /\ [h EXCEPT !.cycle = n] \in HistRec
         /\ \A v \in Contents : [h EXCEPT !.ver = v] \in HistRec
         /\ \A c \in Buffer, n \in Nat : [h EXCEPT !.cr = c, !.cycle = n] \in HistRec
BY DEF HistRec

LEMMA CrFields ==
  ASSUME Types, NEW c \in Buffer
  PROVE  /\ cr[c].blk \in Block \cup {NoBlock} /\ cr[c].cycle \in Nat /\ cr[c].rip \in Proc \cup {NoProc}
         /\ cr[c].in_tend \in Proc \cup {NoProc} /\ cr[c].in_cw_set \in Proc \cup {NoProc}
         /\ cr[c].dirty \in Nat /\ cr[c].tn \in Nat /\ cr[c].latch \in {"clear", "set", "conflict"}
         /\ cr[c].queued \in BOOLEAN /\ cr[c].jnl_addr \in Nat /\ cr[c].data \in Contents
         /\ cr[c] \in CacheRec
<1>1. cr[c] \in CacheRec  BY DEF Types, BufTypes
<1> QED  BY <1>1 DEF CacheRec

LEMMA CrOfIs ==
  ASSUME NEW b, CrOf(b) # {}
  PROVE  The(CrOf(b)) \in Buffer /\ cr[The(CrOf(b))].blk = b
BY TheIs DEF CrOf

(* The variables of the types that a step leaves alone. *)
LEMMA Frames ==
  /\ UNCHANGED <<cr, bt>> /\ Types => BufTypes' /\ Buffer' = Buffer
  /\ UNCHANGED hist /\ Buffer' = Buffer /\ Types => HistTypes'
  /\ UNCHANGED wtr /\ Buffer' = Buffer /\ Types => WtrTypes'
  /\ UNCHANGED jnl /\ Types => JnlTypes'
BY DEF Types, BufTypes, HistTypes, WtrTypes, JnlTypes, HistRec, Buffer

LEMMA TypesSearch ==
  ASSUME Types, JobInv, NEW p \in Proc, Search(p)
  PROVE  Types'
<1>0. Types  OBVIOUS
<1> USE DEF txnvars, cmtvars, jnlvars, dskvars, tnvars, Go
<1>1. CASE Begin(p)
  <2>1. ProcTypes'
    <3> DEFINE S == {curr_tn} \cup {hist[p][b].tn : b \in ToSet(clue[p])}
    <3>1. clue[p] \in Seq(Block) /\ curr_tn \in Nat /\ \A b \in Block : hist[p][b] \in HistRec
      BY DEF Types, ProcTypes, HistTypes, FileTypes
    <3>2. ToSet(clue[p]) \subseteq Block  BY <3>1 DEF ToSet
    <3>3. S \subseteq Nat /\ S # {}  BY <3>1, <3>2, HistFields
    <3>4. Min(S) \in Nat
      <4> HIDE DEF S
      <4> QED  BY <3>3, MinIs
    <3>5. todo[p] # << >> /\ todo[p] \in Seq(Job)  BY <1>1 DEF Begin, Types, ProcTypes
    <3>6. Head(todo[p]) \in Job  BY <3>5
    <3>7. Len(Path(p)) \in Nat  BY <3>6 DEF Path, Job
    <3>8. pc' \in [Proc -> PC]  BY <1>1 DEF Begin, Types, ProcTypes, PC, Reading
    <3>9. lvl' \in [Proc -> Nat]  BY <1>1, <3>7 DEF Begin, Types, ProcTypes
    <3>10. start_tn' \in [Proc -> Nat]  BY <1>1, <3>4 DEF Begin, Types, ProcTypes
    <3>11. tries' \in [Proc -> 0 .. CDB_STAGNATE]
      BY <1>1, DatabaseAssumption DEF Begin, Types, ProcTypes
    <3>12. began' \in [Proc -> Nat]  BY <1>1, <3>1 DEF Begin, Types, ProcTypes
    <3> QED  BY <1>1, <3>8, <3>9, <3>10, <3>11, <3>12 DEF Begin, Types, ProcTypes
  <2>2. BufTypes' /\ Buffer' = Buffer  BY <1>1, Frames DEF Begin
  <2>3. HistTypes'  BY <1>1, <2>2, Frames DEF Begin
  <2>4. WtrTypes' /\ FileTypes' /\ JnlTypes'  BY <1>1, <2>2, Frames DEF Begin, Types, FileTypes
  <2> QED  BY <2>1, <2>2, <2>3, <2>4 DEF Types
<1>2. CASE CheckClue(p)
  <2>1. ProcTypes'
    <3>1. pc' \in [Proc -> PC]  BY <1>2 DEF CheckClue, Types, ProcTypes, PC, Reading
    <3>2. Len(Path(p)) \in Nat /\ lvl[p] - 1 \in Nat  BY <1>2, JobFacts DEF CheckClue
    <3>3. \E n \in Nat : lvl' = [lvl EXCEPT ![p] = n]  BY <1>2, <3>2 DEF CheckClue
    <3>4. lvl' \in [Proc -> Nat]  BY <3>3 DEF Types, ProcTypes
    <3> QED  BY <1>2, <3>1, <3>4 DEF CheckClue, Types, ProcTypes
  <2>2. BufTypes' /\ Buffer' = Buffer  BY <1>2, Frames DEF CheckClue
  <2>3. HistTypes'  BY <1>2, <2>2, Frames DEF CheckClue
  <2>4. WtrTypes' /\ FileTypes' /\ JnlTypes'  BY <1>2, <2>2, Frames DEF CheckClue, Types, FileTypes
  <2> QED  BY <2>1, <2>2, <2>3, <2>4 DEF Types
<1>3. CASE NoteTn(p)
  <2>1. ProcTypes'  BY <1>3, JobFacts DEF NoteTn, Types, ProcTypes, PC, Reading, Checking
  <2>2. BufTypes' /\ Buffer' = Buffer  BY <1>3, Frames DEF NoteTn
  <2>3. HistTypes'
    <3>1. [Hist(p) EXCEPT !.tn = curr_tn] \in HistRec
      BY <1>3, JobFacts, HistFields DEF NoteTn, Types, FileTypes
    <3> QED  BY <1>3, <2>2, <3>1, HistSet DEF NoteTn
  <2>4. WtrTypes' /\ FileTypes' /\ JnlTypes'  BY <1>3, <2>2, Frames DEF NoteTn, Types, FileTypes
  <2> QED  BY <2>1, <2>2, <2>3, <2>4 DEF Types
<1>4. CASE Find(p)
  <2>1. ProcTypes'  BY <1>4, JobFacts DEF Find, Types, ProcTypes, PC, Reading, Checking
  <2>2. BufTypes' /\ Buffer' = Buffer  BY <1>4, Frames DEF Find
  <2>3. HistTypes'
    <3>1. CASE CrOf(Blk(p)) = {}  BY <1>4, <2>2, <3>1, Frames DEF Find
    <3>2. CASE CrOf(Blk(p)) # {}
      <4>1. [Hist(p) EXCEPT !.cr = The(CrOf(Blk(p)))] \in HistRec
        BY <1>4, <3>2, JobFacts, HistFields, CrOfIs DEF Find
      <4> QED  BY <1>4, <2>2, <3>2, <4>1, HistSet DEF Find
    <3> QED  BY <3>1, <3>2
  <2>4. WtrTypes' /\ FileTypes' /\ JnlTypes'  BY <1>4, <2>2, Frames DEF Find, Types, FileTypes
  <2> QED  BY <2>1, <2>2, <2>3, <2>4 DEF Types
<1>5. CASE Miss(p)
  <2>1. ProcTypes'  BY <1>5, JobFacts DEF Miss, Types, ProcTypes, PC, Reading, Checking
  <2>2. BufTypes' /\ Buffer' = Buffer  BY <1>5, Frames DEF Miss
  <2>3. HistTypes'  BY <1>5, <2>2, Frames DEF Miss
  <2>4. WtrTypes' /\ FileTypes' /\ JnlTypes'  BY <1>5, <2>2, Frames DEF Miss, Types, FileTypes
  <2> QED  BY <2>1, <2>2, <2>3, <2>4 DEF Types
<1>6. CASE GetBuffer(p)
  <2>1. ProcTypes'  BY <1>6, JobFacts DEF GetBuffer, Types, ProcTypes, PC, Reading, Checking
  <2>2. BufTypes' /\ Buffer' = Buffer
    <3>1. CASE CrOf(Blk(p)) # {}  BY <1>6, <3>1, Frames DEF GetBuffer
    <3>2. CASE CrOf(Blk(p)) = {}
      <4>1. PICK c \in Reusable(p) :
              cr' = [cr EXCEPT ![c].rip = p, ![c].blk = Blk(p), ![c].cycle = @ + 1,
                               ![c].jnl_addr = 0, ![c].tn = curr_tn]
        BY <1>6, <3>2 DEF GetBuffer
      <4>2. c \in Buffer /\ cr[c] \in CacheRec /\ Blk(p) \in Block /\ curr_tn \in Nat
        BY <1>6, <4>1, CrFields, JobFacts DEF GetBuffer, Reusable, Types, FileTypes
      <4>3. [cr[c] EXCEPT !.rip = p, !.blk = Blk(p), !.cycle = @ + 1, !.jnl_addr = 0, !.tn = curr_tn]
              \in CacheRec
        <5>1. PICK r \in CacheRec : r = cr[c]  BY <4>2
        <5>2. PICK b \in Block, t \in Nat : b = Blk(p) /\ t = curr_tn  BY <4>2
        <5>3. PICK n \in Nat : n = r.cycle + 1  BY DEF CacheRec
        <5>4. [r EXCEPT !.rip = p, !.blk = b, !.cycle = n, !.jnl_addr = 0, !.tn = t] \in CacheRec
          BY DEF CacheRec
        <5> QED  BY <5>1, <5>2, <5>3, <5>4
      <4> QED  BY <1>6, <4>1, <4>2, <4>3 DEF GetBuffer, Types, BufTypes, Buffer
    <3> QED  BY <3>1, <3>2
  <2>3. HistTypes'
    <3>1. CASE CrOf(Blk(p)) # {}
      <4>1. [Hist(p) EXCEPT !.cr = The(CrOf(Blk(p)))] \in HistRec
        BY <1>6, <3>1, JobFacts, HistFields, CrOfIs DEF GetBuffer
      <4> QED  BY <1>6, <2>2, <3>1, <4>1, HistSet DEF GetBuffer
    <3>2. CASE CrOf(Blk(p)) = {}
      <4>1. PICK c \in Reusable(p) : SetHist(p, [Hist(p) EXCEPT !.cr = c, !.cycle = cr[c].cycle + 1])
        BY <1>6, <3>2 DEF GetBuffer
      <4>2. c \in Buffer /\ cr[c].cycle + 1 \in Nat  BY <4>1, CrFields DEF Reusable
      <4>3. [Hist(p) EXCEPT !.cr = c, !.cycle = cr[c].cycle + 1] \in HistRec
        BY <1>6, <4>2, JobFacts, HistFields DEF GetBuffer
      <4> QED  BY <1>6, <2>2, <4>1, <4>3, HistSet DEF GetBuffer
    <3> QED  BY <3>1, <3>2
  <2>4. WtrTypes' /\ FileTypes' /\ JnlTypes'  BY <1>6, <2>2, Frames DEF GetBuffer, Types, FileTypes
  <2> QED  BY <2>1, <2>2, <2>3, <2>4 DEF Types
<1>7. CASE DskRead(p)
  <2>1. ProcTypes'  BY <1>7, JobFacts DEF DskRead, Types, ProcTypes, PC, Reading, Checking
  <2>2. BufTypes' /\ Buffer' = Buffer
    <3>1. Hist(p).cr \in Buffer /\ disk[Blk(p)] \in Contents
      BY <1>7, JobFacts, HistFields DEF DskRead, Types, FileTypes
    <3>2. [cr[Hist(p).cr] EXCEPT !.data = disk[Blk(p)], !.rip = NoProc] \in CacheRec
      BY <3>1, CrFields DEF CacheRec
    <3> QED  BY <1>7, <3>1, <3>2 DEF DskRead, Types, BufTypes, Buffer
  <2>3. HistTypes'  BY <1>7, <2>2, Frames DEF DskRead
  <2>4. WtrTypes' /\ FileTypes' /\ JnlTypes'  BY <1>7, <2>2, Frames DEF DskRead, Types, FileTypes
  <2> QED  BY <2>1, <2>2, <2>3, <2>4 DEF Types
<1>8. CASE NoteCycle(p)
  <2>1. ProcTypes'  BY <1>8, JobFacts DEF NoteCycle, Types, ProcTypes, PC, Reading, Checking
  <2>2. BufTypes' /\ Buffer' = Buffer  BY <1>8, Frames DEF NoteCycle
  <2>3. HistTypes'
    <3>1. [Hist(p) EXCEPT !.cycle = cr[Hist(p).cr].cycle] \in HistRec
      BY <1>8, JobFacts, HistFields, CrFields DEF NoteCycle
    <3> QED  BY <1>8, <2>2, <3>1, HistSet DEF NoteCycle
  <2>4. WtrTypes' /\ FileTypes' /\ JnlTypes'  BY <1>8, <2>2, Frames DEF NoteCycle, Types, FileTypes
  <2> QED  BY <2>1, <2>2, <2>3, <2>4 DEF Types
<1>9. CASE WaitRead(p)
  <2>1. ProcTypes'  BY <1>9, JobFacts DEF WaitRead, Types, ProcTypes, PC, Reading, Checking
  <2>2. BufTypes' /\ Buffer' = Buffer  BY <1>9, Frames DEF WaitRead
  <2>3. HistTypes'  BY <1>9, <2>2, Frames DEF WaitRead
  <2>4. WtrTypes' /\ FileTypes' /\ JnlTypes'  BY <1>9, <2>2, Frames DEF WaitRead, Types, FileTypes
  <2> QED  BY <2>1, <2>2, <2>3, <2>4 DEF Types
<1>10. CASE WaitInTend(p)
  <2>1. ProcTypes'  BY <1>10, JobFacts DEF WaitInTend, Types, ProcTypes, PC, Reading, Checking
  <2>2. BufTypes' /\ Buffer' = Buffer  BY <1>10, Frames DEF WaitInTend
  <2>3. HistTypes'  BY <1>10, <2>2, Frames DEF WaitInTend
  <2>4. WtrTypes' /\ FileTypes' /\ JnlTypes'  BY <1>10, <2>2, Frames DEF WaitInTend, Types, FileTypes
  <2> QED  BY <2>1, <2>2, <2>3, <2>4 DEF Types
<1>11. CASE Look(p)
  <2>1. ProcTypes'
    <3>1. pc' \in [Proc -> PC]  BY <1>11 DEF Look, Types, ProcTypes, PC, Reading, Checking
    <3>2. Path(p) \in Seq(Block) /\ lvl[p] + 1 \in Nat  BY <1>11, JobFacts DEF Look
    <3>3. lvl' \in [Proc -> Nat]  BY <1>11, <3>2 DEF Look, Types, ProcTypes
    <3>4. clue' \in [Proc -> Seq(Block)]  BY <1>11, <3>2 DEF Look, Types, ProcTypes
    <3> QED  BY <1>11, <3>1, <3>3, <3>4 DEF Look, Types, ProcTypes
  <2>2. BufTypes' /\ Buffer' = Buffer  BY <1>11, Frames DEF Look
  <2>3. HistTypes'
    <3>1. [Hist(p) EXCEPT !.ver = cr[Hist(p).cr].data] \in HistRec
      BY <1>11, JobFacts, HistFields, CrFields DEF Look
    <3> QED  BY <1>11, <2>2, <3>1, HistSet DEF Look
  <2>4. WtrTypes' /\ FileTypes' /\ JnlTypes'  BY <1>11, <2>2, Frames DEF Look, Types, FileTypes
  <2> QED  BY <2>1, <2>2, <2>3, <2>4 DEF Types
<1> QED  BY <1>1, <1>2, <1>3, <1>4, <1>5, <1>6, <1>7, <1>8, <1>9, <1>10, <1>11 DEF Search

(* bt_put moves one record to the end. *)
BtRec == [blk : Block \cup {NoBlock}, tn : Nat]

LEMMA BtPutIs ==
  ASSUME Types, NEW b \in Block, BtPut(b)
  PROVE  /\ bt' \in Seq(BtRec) /\ Len(bt') = Len(bt)
         /\ \E i \in 1 .. Len(bt) :
              /\ (BtOf(b) = {} /\ i = 1) \/ i \in BtOf(b)
              /\ \A j \in 1 .. Len(bt) : bt'[j] = IF j < i THEN bt[j]
                                                  ELSE IF j < Len(bt) THEN bt[j + 1]
                                                  ELSE [blk |-> b, tn |-> curr_tn]
<1>1. bt \in Seq(BtRec) /\ bt # << >> /\ curr_tn \in Nat  BY DEF Types, BufTypes, FileTypes, BtRec
<1>2. PICK n : n = Len(bt)  OBVIOUS
<1>3. n \in Nat \ {0}  BY <1>1, <1>2
<1>4. PICK i : i = IF BtOf(b) = {} THEN 1 ELSE The(BtOf(b))  OBVIOUS
<1>5. ((BtOf(b) = {} /\ i = 1) \/ i \in BtOf(b)) /\ i \in 1 .. n
  <2>1. CASE BtOf(b) = {}  BY <1>3, <1>4, <2>1
  <2>2. CASE BtOf(b) # {}
    <3>1. i \in BtOf(b)  BY <1>4, <2>2, TheIs
    <3> QED  BY <1>2, <3>1 DEF BtOf
  <2> QED  BY <2>1, <2>2
<1>6. PICK e \in BtRec : e = [blk |-> b, tn |-> curr_tn]  BY <1>1 DEF BtRec
<1>7. bt' = Append(SubSeq(bt, 1, i - 1) \o SubSeq(bt, i + 1, n), e)
  BY <1>2, <1>4, <1>6 DEF BtPut, RemoveAt
<1>8. PICK u, v : u = SubSeq(bt, 1, i - 1) /\ v = SubSeq(bt, i + 1, n)  OBVIOUS
<1>9. u \in Seq(BtRec) /\ Len(u) = i - 1 /\ \A j \in 1 .. i - 1 : u[j] = bt[j]
  BY <1>1, <1>2, <1>3, <1>5, <1>8
<1>10. v \in Seq(BtRec) /\ Len(v) = n - i /\ \A j \in 1 .. n - i : v[j] = bt[j + i]
  BY <1>1, <1>2, <1>3, <1>5, <1>8
<1>11. PICK s : s = u \o v  OBVIOUS
<1>12. s \in Seq(BtRec) /\ Len(s) = n - 1 /\ (\A j \in 1 .. i - 1 : s[j] = u[j])
       /\ \A j \in i .. n - 1 : s[j] = v[j - i + 1]
  <2>1. Len(u) \in Nat /\ Len(v) \in Nat /\ Len(u) + Len(v) = n - 1  BY <1>3, <1>5, <1>9, <1>10
  <2>2. s \in Seq(BtRec) /\ Len(s) = Len(u) + Len(v)  BY <1>9, <1>10, <1>11, ConcatProperties
  <2>3. \A j \in 1 .. Len(u) + Len(v) : s[j] = IF j <= Len(u) THEN u[j] ELSE v[j - Len(u)]
    BY <1>9, <1>10, <1>11
  <2>4. ASSUME NEW j \in 1 .. i - 1  PROVE s[j] = u[j]  BY <1>3, <1>5, <1>9, <2>1, <2>3
  <2>5. ASSUME NEW j \in i .. n - 1  PROVE s[j] = v[j - i + 1]
    <3>1. j \in 1 .. Len(u) + Len(v) /\ ~(j <= Len(u)) /\ j - Len(u) = j - i + 1
      BY <1>3, <1>5, <1>9, <2>1
    <3> QED  BY <2>3, <3>1
  <2> QED  BY <2>1, <2>2, <2>4, <2>5
<1>13. \A j \in i .. n - 1 : s[j] = bt[j + 1]
  <2> TAKE j \in i .. n - 1
  <2>1. j - i + 1 \in 1 .. n - i /\ (j - i + 1) + i = j + 1  BY <1>3, <1>5
  <2> QED  BY <1>10, <1>12, <2>1
<1>14. bt' = Append(s, e)  BY <1>7, <1>8, <1>11
<1>15. bt' \in Seq(BtRec) /\ Len(bt') = n /\ (\A j \in 1 .. n - 1 : bt'[j] = s[j]) /\ bt'[n] = e
  BY <1>3, <1>6, <1>12, <1>14
<1>16. ASSUME NEW j \in 1 .. n
       PROVE  bt'[j] = IF j < i THEN bt[j] ELSE IF j < n THEN bt[j + 1] ELSE e
  <2>1. CASE j < i  BY <1>3, <1>5, <1>9, <1>12, <1>15, <2>1
  <2>2. CASE ~(j < i) /\ j < n  BY <1>3, <1>5, <1>13, <1>15, <2>2
  <2>3. CASE j = n /\ ~(j < i)  BY <1>15, <2>3
  <2> QED  BY <1>3, <1>5, <2>1, <2>2, <2>3
<1> QED  BY <1>2, <1>5, <1>6, <1>15, <1>16

LEMMA FreeaddrIs ==
  ASSUME Types
  PROVE  /\ freeaddr \in 0 .. Len(jnl) /\ \A i \in 1 .. freeaddr : jnl[i].written
         /\ \A n \in 0 .. Len(jnl) : (\A i \in 1 .. n : jnl[i].written) => n <= freeaddr
<1> DEFINE S == {n \in 0 .. Len(jnl) : \A i \in 1 .. n : jnl[i].written}
<1>1. Len(jnl) \in Nat  BY DEF Types, JnlTypes
<1>2. S \subseteq Nat /\ 0 \in S /\ \A x \in S : x <= Len(jnl)  BY <1>1
<1>3. Max(S) \in S /\ \A x \in S : x <= Max(S)
  <2> HIDE DEF S
  <2> QED  BY <1>1, <1>2, MaxIs
<1>4. freeaddr = Max(S)  BY DEF freeaddr
<1> QED  BY <1>3, <1>4

(* One cache record changes. *)
LEMMA CrSet ==
  ASSUME Types, NEW c, NEW r, c \in Buffer => r \in CacheRec, cr' = [cr EXCEPT ![c] = r], bt' = bt
  PROVE  BufTypes' /\ Buffer' = Buffer
BY DEF Types, BufTypes, Buffer

LEMMA PathFinite ==
  ASSUME Types, JobInv, NEW p \in Proc, pc[p] \notin {"idle", "gone"}, NEW S, S \subseteq Upd(p)
  PROVE  IsFiniteSet(S) /\ Cardinality(S) \in Nat
<1>1. PICK s, n : s = Path(p) /\ n = Len(Path(p))  OBVIOUS
<1>2. n \in Nat /\ ToSet(s) = {s[i] : i \in 1 .. n} /\ S \subseteq ToSet(s)
  BY <1>1, JobFacts DEF ToSet
<1>3. IsFiniteSet(1 .. n)  BY <1>2, FS_Interval
<1>4. PICK f : f = [i \in 1 .. n |-> s[i]]  OBVIOUS
<1>5. f \in Surjection(1 .. n, ToSet(s))  BY <1>2, <1>4 DEF Surjection
<1>6. IsFiniteSet(ToSet(s))  BY <1>3, <1>5, FS_Surjection
<1>7. IsFiniteSet(S)  BY <1>2, <1>6, FS_Subset
<1> QED  BY <1>7, FS_CardinalityType

(* The records that CMT06 makes room for after the m there are: before-images of the blocks of f, *)
(* and the logical record.                                                                        *)
Reserved(p, m, n, f) ==
  /\ f \in [1 .. n -> NeedPblk(p)]
  /\ jnl' \in Seq(JnlRec) /\ Len(jnl') = m + n + 1
  /\ \A i \in 1 .. m : jnl'[i] = jnl[i]
  /\ \A i \in m + 1 .. m + n : jnl'[i] = Unwritten(p, "pblk", {f[i - m]})
  /\ jnl'[m + n + 1] = Unwritten(p, "set", Upd(p))
  /\ jnl_freeaddr' \in [Proc -> [Block -> Nat]]
  /\ \A q \in Proc \ {p} : jnl_freeaddr'[q] = jnl_freeaddr[q]
  /\ \A b \in NeedPblk(p) : \E i \in 1 .. n : f[i] = b /\ jnl_freeaddr'[p][b] = m + i
  /\ \A b \in Block \ NeedPblk(p) : jnl_freeaddr'[p][b] = 0

LEMMA ReserveIs ==
  ASSUME Types, JobInv, NEW p \in Proc, Reserve(p)
  PROVE  \E n \in Nat, f \in Seq(Block) : Reserved(p, Len(jnl), n, f)
<1>1. PICK f \in InCwOrder(NeedPblk(p)) :
        /\ jnl' = jnl \o [i \in 1 .. Len(f) |-> Unwritten(p, "pblk", {f[i]})]
                      \o <<Unwritten(p, "set", Upd(p))>>
        /\ jnl_freeaddr' = [jnl_freeaddr EXCEPT ![p] = [b \in Block |->
                              IF b \in NeedPblk(p)
                              THEN Len(jnl) + CHOOSE i \in 1 .. Len(f) : f[i] = b ELSE 0]]
  BY DEF Reserve
<1>2. pc[p] \notin {"idle", "gone"}  BY DEF Reserve
<1>3. Upd(p) \subseteq Block /\ NeedPblk(p) \subseteq Upd(p)  BY <1>2, JobFacts DEF NeedPblk
<1>4. PICK n \in Nat : n = Cardinality(NeedPblk(p))  BY <1>2, <1>3, PathFinite
<1>5. f \in [1 .. n -> NeedPblk(p)] /\ ToSet(f) = NeedPblk(p)  BY <1>1, <1>4 DEF InCwOrder
<1>6. Len(f) = n  BY <1>5
<1>7. PICK m \in Nat : m = Len(jnl)  BY DEF Types, JnlTypes
<1>8. jnl \in Seq(JnlRec) /\ curr_tn \in Nat /\ jnl_freeaddr \in [Proc -> [Block -> Nat]]
  BY DEF Types, JnlTypes, FileTypes, ProcTypes
<1>9. PICK g : g = [i \in 1 .. n |-> Unwritten(p, "pblk", {f[i]})]  OBVIOUS
<1>10. PICK e : e = Unwritten(p, "set", Upd(p))  OBVIOUS
<1>11. e \in JnlRec  BY <1>3, <1>8, <1>10 DEF JnlRec, Unwritten, Contents, Nothing
<1>12. ASSUME NEW i \in 1 .. n  PROVE Unwritten(p, "pblk", {f[i]}) \in JnlRec
  <2>1. {f[i]} \subseteq Block  BY <1>3, <1>5
  <2> QED  BY <1>8, <2>1 DEF JnlRec, Unwritten, Contents, Nothing
<1>13. g \in [1 .. n -> JnlRec] /\ \A i \in 1 .. n : g[i] = Unwritten(p, "pblk", {f[i]})
  BY <1>9, <1>12
<1>14. g \in Seq(JnlRec) /\ Len(g) = n  BY <1>13
<1>15. PICK h : h = jnl \o g  OBVIOUS
<1>16. h \in Seq(JnlRec) /\ Len(h) = m + n
       /\ \A i \in 1 .. m + n : h[i] = IF i <= m THEN jnl[i] ELSE g[i - m]
  BY <1>7, <1>8, <1>14, <1>15, ConcatProperties
<1>17. jnl' = h \o <<e>>  BY <1>1, <1>6, <1>9, <1>10, <1>15
<1>18. <<e>> \in Seq(JnlRec) /\ Len(<<e>>) = 1 /\ <<e>>[1] = e  BY <1>11
<1>19. jnl' \in Seq(JnlRec) /\ Len(jnl') = m + n + 1
       /\ \A i \in 1 .. m + n + 1 : jnl'[i] = IF i <= m + n THEN h[i] ELSE <<e>>[i - (m + n)]
  <2>1. PICK s : s = <<e>>  OBVIOUS
  <2>2. PICK N \in Nat : N = m + n  OBVIOUS
  <2>3. h \in Seq(JnlRec) /\ Len(h) = N  BY <1>16, <2>2
  <2>4. s \in Seq(JnlRec) /\ Len(s) = 1  BY <1>18, <2>1
  <2>5. h \o s \in Seq(JnlRec) /\ Len(h \o s) = Len(h) + Len(s)
        /\ \A i \in 1 .. Len(h) + Len(s) : (h \o s)[i] = IF i <= Len(h) THEN h[i] ELSE s[i - Len(h)]
    BY <2>3, <2>4, ConcatProperties
  <2>6. jnl' = h \o s  BY <1>17, <2>1
  <2>7. jnl' \in Seq(JnlRec) /\ Len(jnl') = N + 1
        /\ \A i \in 1 .. N + 1 : jnl'[i] = IF i <= N THEN h[i] ELSE s[i - N]
    BY <2>3, <2>4, <2>5, <2>6
  <2> QED  BY <2>1, <2>2, <2>7
<1>20. \A i \in 1 .. m : jnl'[i] = jnl[i]  BY <1>16, <1>19
<1>21. \A i \in m + 1 .. m + n : jnl'[i] = Unwritten(p, "pblk", {f[i - m]})
  <2> TAKE i \in m + 1 .. m + n
  <2>1. i - m \in 1 .. n /\ ~(i <= m) /\ i \in 1 .. m + n /\ i \in 1 .. m + n + 1  OBVIOUS
  <2>2. jnl'[i] = g[i - m]  BY <1>16, <1>19, <2>1
  <2> QED  BY <1>13, <2>1, <2>2
<1>22. jnl'[m + n + 1] = e
  <2>1. m + n + 1 \in 1 .. m + n + 1 /\ ~(m + n + 1 <= m + n) /\ (m + n + 1) - (m + n) = 1  OBVIOUS
  <2> QED  BY <1>18, <1>19, <2>1
<1>23. ASSUME NEW b \in NeedPblk(p)
       PROVE  \E i \in 1 .. n : f[i] = b /\ i = CHOOSE j \in 1 .. n : f[j] = b
  <2>1. \E j \in 1 .. n : f[j] = b  BY <1>5 DEF ToSet
  <2> QED  BY <2>1
<1>24. PICK k : k = [b \in Block |-> IF b \in NeedPblk(p)
                                      THEN m + CHOOSE j \in 1 .. n : f[j] = b ELSE 0]  OBVIOUS
<1>25. /\ \A b \in NeedPblk(p) : \E i \in 1 .. n : f[i] = b /\ k[b] = m + i
       /\ \A b \in Block \ NeedPblk(p) : k[b] = 0
  BY <1>3, <1>23, <1>24
<1>26. k \in [Block -> Nat]
  <2>1. \A b \in Block : k[b] \in Nat  BY <1>25
  <2> QED  BY <1>24, <2>1
<1>27. jnl_freeaddr' = [jnl_freeaddr EXCEPT ![p] = k]  BY <1>1, <1>6, <1>7, <1>24
<1>28. /\ jnl_freeaddr' \in [Proc -> [Block -> Nat]] /\ jnl_freeaddr'[p] = k
       /\ \A q \in Proc \ {p} : jnl_freeaddr'[q] = jnl_freeaddr[q]
  BY <1>8, <1>26, <1>27
<1>29. Reserved(p, m, n, f)
  BY <1>5, <1>10, <1>19, <1>20, <1>21, <1>22, <1>25, <1>28 DEF Reserved
<1>30. f \in Seq(Block)
  <2>1. f \in [1 .. n -> Block]  BY <1>3, <1>5
  <2> QED  BY <2>1
<1> QED  BY <1>7, <1>29, <1>30

LEMMA ClueTypes ==
  ASSUME Types, NEW p \in Proc, clue' = clue \/ clue' = [clue EXCEPT ![p] = << >>]
  PROVE  clue' \in [Proc -> Seq(Block)]
<1>1. clue \in [Proc -> Seq(Block)] /\ << >> \in Seq(Block)  BY DEF Types, ProcTypes
<1> QED  BY <1>1

LEMMA DirtiedType ==
  ASSUME Types, NEW p \in Proc, NEW r \in CacheRec
  PROVE  Dirtied(p, r) \in CacheRec
<1>1. ctn[p] \in Nat  BY DEF Types, ProcTypes
<1>2. PICK t \in Nat, d \in Nat : /\ t = IF r.dirty = 0 THEN 0 ELSE ctn[p]
                                 /\ d = IF r.dirty = 0 THEN ctn[p] ELSE r.dirty
  BY <1>1 DEF CacheRec
<1>3. Dirtied(p, r) = [r EXCEPT !.in_tend = p, !.latch = "set", !.tn = t, !.dirty = d]
  BY <1>2 DEF Dirtied, CacheRec
<1>4. [r EXCEPT !.in_tend = p, !.latch = "set", !.tn = t, !.dirty = d] \in CacheRec  BY DEF CacheRec
<1> QED  BY <1>3, <1>4

LEMMA CseCrIs ==
  ASSUME Types, JobInv, PinInv, NEW p \in Proc, pc[p] \in {"cmt10", "cmt10w"} \cup Phase2
  PROVE  /\ Cse(p) \in rem[p] /\ Cse(p) \in Block /\ Cse(p) \in Upd(p)
         /\ CseCr(p) \in Buffer /\ cr[CseCr(p)].blk = Cse(p) /\ CseCr(p) = hist[p][Cse(p)].cr
         /\ cr[CseCr(p)].rip = NoProc /\ cr[CseCr(p)].in_cw_set = p
<1>1. pc[p] \in Early \cup Phase2 /\ pc[p] # "cmt12"  BY DEF Early, Phase2
<1>2. rem[p] # {} /\ rem[p] \subseteq Upd(p)  BY <1>1 DEF JobInv, JobFor
<1>3. Cse(p) \in rem[p] /\ Cse(p) \in Block  BY <1>1, <1>2, CseIs DEF Types, ProcTypes
<1>4. Cse(p) \in Pinned(p)  BY <1>2, <1>3 DEF Pinned, InCommit
<1>5. /\ hist[p][Cse(p)].cr \in Buffer /\ cr[hist[p][Cse(p)].cr].blk = Cse(p)
      /\ cr[hist[p][Cse(p)].cr].rip = NoProc
  <2>1. hist[p][Cse(p)] \in HistRec  BY <1>3 DEF Types, HistTypes
  <2> QED  BY <1>4, <2>1, HistFields DEF PinInv
<1>6. CseCr(p) \in Buffer /\ cr[CseCr(p)].blk = Cse(p)
  <2>1. CrOf(Cse(p)) # {}  BY <1>5 DEF CrOf
  <2> QED  BY <2>1, CrOfIs DEF CseCr
<1>7. CseCr(p) = hist[p][Cse(p)].cr  BY <1>3, <1>5, <1>6, BlockNat DEF PinInv
<1> QED  BY <1>2, <1>3, <1>4, <1>5, <1>6, <1>7 DEF PinInv

LEMMA TypesTEnd ==
  ASSUME Types, JobInv, NEW p \in Proc, TEnd(p)
  PROVE  Types'
<1> USE DEF txnvars, cmtvars, jnlvars, dskvars, tnvars, Go
<1>1. CASE ReadOnlyEnd(p)
  <2>1. ProcTypes'
    <3>1. Len(Path(p)) \in Nat  BY <1>1, JobFacts DEF ReadOnlyEnd
    <3>2. (start_tn[p] = early_tn) \in BOOLEAN  OBVIOUS
    <3>3. same' \in [Proc -> BOOLEAN]  BY <1>1, <3>2 DEF ReadOnlyEnd, Types, ProcTypes
    <3>4. pc' \in [Proc -> PC] /\ lvl' \in [Proc -> Nat]
      BY <1>1, <3>1 DEF ReadOnlyEnd, Types, ProcTypes, PC, Checking
    <3> QED  BY <1>1, <3>3, <3>4 DEF ReadOnlyEnd, Types, ProcTypes
  <2>2. BufTypes' /\ Buffer' = Buffer  BY <1>1, Frames DEF ReadOnlyEnd
  <2>3. HistTypes'  BY <1>1, <2>2, Frames DEF ReadOnlyEnd
  <2>4. WtrTypes' /\ FileTypes' /\ JnlTypes'  BY <1>1, <2>2, Frames DEF ReadOnlyEnd, Types, FileTypes
  <2> QED  BY <2>1, <2>2, <2>3, <2>4 DEF Types
<1>2. CASE CheckTn(p)
  <2>1. ProcTypes'
    <3>1. pc' \in [Proc -> PC]  BY <1>2 DEF CheckTn, Fail, Types, ProcTypes, PC, Checking
    <3>9. clue' = clue \/ clue' = [clue EXCEPT ![p] = << >>]  BY <1>2 DEF CheckTn, Fail
    <3>2. clue' \in [Proc -> Seq(Block)]  BY <3>9, ClueTypes
    <3> QED  BY <1>2, <3>1, <3>2 DEF CheckTn, Types, ProcTypes
  <2>2. BufTypes' /\ Buffer' = Buffer  BY <1>2, Frames DEF CheckTn
  <2>3. HistTypes'  BY <1>2, <2>2, Frames DEF CheckTn
  <2>4. WtrTypes' /\ FileTypes' /\ JnlTypes'
    <3>1. crit' \in Proc \cup {NoProc}  BY <1>2 DEF CheckTn, Fail, Types, FileTypes
    <3> QED  BY <1>2, <2>2, <3>1, Frames DEF CheckTn, Types, FileTypes
  <2> QED  BY <2>1, <2>2, <2>3, <2>4 DEF Types
<1>3. CASE CheckCycle(p)
  <2>1. ProcTypes'
    <3>1. pc' \in [Proc -> PC]  BY <1>3 DEF CheckCycle, Fail, Types, ProcTypes, PC, Checking
    <3>9. clue' = clue \/ clue' = [clue EXCEPT ![p] = << >>]  BY <1>3 DEF CheckCycle, Fail
    <3>2. clue' \in [Proc -> Seq(Block)]  BY <3>9, ClueTypes
    <3>3. lvl[p] - 1 \in Nat  BY <1>3, JobFacts DEF CheckCycle
    <3>4. lvl' \in [Proc -> Nat]  BY <1>3, <3>3 DEF CheckCycle, Types, ProcTypes
    <3> QED  BY <1>3, <3>1, <3>2, <3>4 DEF CheckCycle, Types, ProcTypes
  <2>2. BufTypes' /\ Buffer' = Buffer  BY <1>3, Frames DEF CheckCycle
  <2>3. HistTypes'  BY <1>3, <2>2, Frames DEF CheckCycle
  <2>4. WtrTypes' /\ FileTypes' /\ JnlTypes'
    <3>1. crit' \in Proc \cup {NoProc}  BY <1>3 DEF CheckCycle, Fail, Types, FileTypes
    <3> QED  BY <1>3, <2>2, <3>1, Frames DEF CheckCycle, Types, FileTypes
  <2> QED  BY <2>1, <2>2, <2>3, <2>4 DEF Types
<1>4. CASE ReadOnlyDone(p)
  <2>1. ProcTypes'
    <3>1. todo[p] \in Seq(Job) /\ todo[p] # << >>  BY <1>4, JobFacts DEF ReadOnlyDone, Types, ProcTypes
    <3>2. Tail(todo[p]) \in Seq(Job)  BY <3>1
    <3>3. todo' \in [Proc -> Seq(Job)]  BY <1>4, <3>2 DEF ReadOnlyDone, Types, ProcTypes
    <3> QED  BY <1>4, <3>3 DEF ReadOnlyDone, Types, ProcTypes, PC
  <2>2. BufTypes' /\ Buffer' = Buffer  BY <1>4, Frames DEF ReadOnlyDone
  <2>3. HistTypes'  BY <1>4, <2>2, Frames DEF ReadOnlyDone
  <2>4. WtrTypes' /\ FileTypes' /\ JnlTypes'  BY <1>4, <2>2, Frames DEF ReadOnlyDone, Types, FileTypes
  <2> QED  BY <2>1, <2>2, <2>3, <2>4 DEF Types
<1>5. CASE Retry(p)
  <2>1. ProcTypes'
    <3>1. tries[p] + 1 \in 0 .. CDB_STAGNATE
      BY <1>5, DatabaseAssumption DEF Retry, Final, Types, ProcTypes
    <3>2. tries' \in [Proc -> 0 .. CDB_STAGNATE]  BY <1>5, <3>1 DEF Retry, Types, ProcTypes
    <3>3. start_tn' \in [Proc -> Nat]  BY <1>5 DEF Retry, Types, ProcTypes, FileTypes
    <3> QED  BY <1>5, <3>2, <3>3 DEF Retry, Types, ProcTypes, PC, Reading
  <2>2. BufTypes' /\ Buffer' = Buffer  BY <1>5, Frames DEF Retry
  <2>3. HistTypes'  BY <1>5, <2>2, Frames DEF Retry
  <2>4. WtrTypes' /\ FileTypes' /\ JnlTypes'  BY <1>5, <2>2, Frames DEF Retry, Types, FileTypes
  <2> QED  BY <2>1, <2>2, <2>3, <2>4 DEF Types
<1>6. CASE GrabCrit(p)
  <2>1. ProcTypes'  BY <1>6, JobFacts DEF GrabCrit, Types, ProcTypes, PC, Reading, Checking, InCommit, Phase2
  <2>2. BufTypes' /\ Buffer' = Buffer  BY <1>6, Frames DEF GrabCrit
  <2>3. HistTypes'  BY <1>6, <2>2, Frames DEF GrabCrit
  <2>4. WtrTypes' /\ FileTypes' /\ JnlTypes'  BY <1>6, <2>2, Frames DEF GrabCrit, Types, FileTypes
  <2> QED  BY <2>1, <2>2, <2>3, <2>4 DEF Types
<1>7. CASE Validate(p)
  <2>1. ProcTypes'
    <3>1. pc' \in [Proc -> PC]  BY <1>7 DEF Validate, Fail, Types, ProcTypes, PC, Checking, InCommit
    <3>9. clue' = clue \/ clue' = [clue EXCEPT ![p] = << >>]  BY <1>7 DEF Validate, Fail
    <3>2. clue' \in [Proc -> Seq(Block)]  BY <3>9, ClueTypes
    <3> QED  BY <1>7, <3>1, <3>2 DEF Validate, Types, ProcTypes
  <2>2. BufTypes' /\ Buffer' = Buffer
    <3>1. cr' = cr \/ cr' = [c \in Buffer |-> IF cr[c].blk \in Upd(p)
                                             THEN [cr[c] EXCEPT !.in_cw_set = p] ELSE cr[c]]
      BY <1>7 DEF Validate
    <3>2. CASE cr' = cr  BY <1>7, <3>2, Frames DEF Validate
    <3>3. CASE cr' = [c \in Buffer |-> IF cr[c].blk \in Upd(p)
                                       THEN [cr[c] EXCEPT !.in_cw_set = p] ELSE cr[c]]
      <4>1. \A c \in Buffer : [cr[c] EXCEPT !.in_cw_set = p] \in CacheRec /\ cr[c] \in CacheRec
        BY CrFields DEF CacheRec
      <4> QED  BY <1>7, <3>3, <4>1 DEF Validate, Types, BufTypes, Buffer
    <3> QED  BY <3>1, <3>2, <3>3
  <2>3. HistTypes'
    <3>1. CASE UNCHANGED hist  BY <2>2, <3>1, Frames
    <3>2. CASE hist' = [hist EXCEPT ![p] = [b \in Block |->
                 IF b \in ToSet(Path(p)) THEN [@[b] EXCEPT !.tn = curr_tn + 1] ELSE @[b]]]
      <4>1. \A b \in Block : hist[p][b] \in HistRec  BY DEF Types, HistTypes
      <4>2. curr_tn + 1 \in Nat  BY DEF Types, FileTypes
      <4>3. \A b \in Block : [hist[p][b] EXCEPT !.tn = curr_tn + 1] \in HistRec
        BY <4>1, <4>2, HistFields
      <4>4. HistRec' = HistRec  BY <2>2 DEF HistRec
      <4> QED  BY <3>2, <4>1, <4>3, <4>4 DEF Types, HistTypes
    <3> QED  BY <1>7, <3>1, <3>2 DEF Validate
  <2>4. WtrTypes' /\ FileTypes' /\ JnlTypes'
    <3>1. crit' \in Proc \cup {NoProc}  BY <1>7 DEF Validate, Fail, Types, FileTypes
    <3> QED  BY <1>7, <2>2, <3>1, Frames DEF Validate, Types, FileTypes
  <2> QED  BY <2>1, <2>2, <2>3, <2>4 DEF Types
<1> QED  BY <1>1, <1>2, <1>3, <1>4, <1>5, <1>6, <1>7 DEF TEnd

LEMMA TypesCommit ==
  ASSUME Types, JobInv, PinInv, OpenInv, NEW p \in Proc, Commit(p)
  PROVE  Types'
<1> USE DEF txnvars, cmtvars, jnlvars, dskvars, tnvars, Go
<1>1. CASE CheckEpoch(p)
  <2>1. ProcTypes'  BY <1>1, JobFacts DEF CheckEpoch, Types, ProcTypes, PC, Reading, Checking, InCommit, Phase2
  <2>2. BufTypes' /\ Buffer' = Buffer  BY <1>1, Frames DEF CheckEpoch
  <2>3. HistTypes'  BY <1>1, <2>2, Frames DEF CheckEpoch
  <2>4. WtrTypes' /\ FileTypes' /\ JnlTypes'  BY <1>1, <2>2, Frames DEF CheckEpoch, Types, FileTypes
  <2> QED  BY <2>1, <2>2, <2>3, <2>4 DEF Types
<1>2. CASE FlushJnl(p)
  <2>1. ProcTypes'  BY <1>2, JobFacts DEF FlushJnl, Types, ProcTypes, PC, Reading, Checking, InCommit, Phase2
  <2>2. BufTypes' /\ Buffer' = Buffer  BY <1>2, Frames DEF FlushJnl
  <2>3. HistTypes'  BY <1>2, <2>2, Frames DEF FlushJnl
  <2>4. WtrTypes' /\ FileTypes' /\ JnlTypes'
    <3>1. freeaddr \in Nat  BY FreeaddrIs
    <3>2. stable' \in [Block -> SUBSET Contents]  BY <1>2 DEF FlushJnl, JnlOutput, Types, FileTypes
    <3> QED  BY <1>2, <2>2, <3>1, <3>2, Frames DEF FlushJnl, JnlOutput, Types, FileTypes
  <2> QED  BY <2>1, <2>2, <2>3, <2>4 DEF Types
<1>3. CASE WriteEpoch(p)
  <2>1. ProcTypes'  BY <1>3, JobFacts DEF WriteEpoch, Types, ProcTypes, PC, Reading, Checking, InCommit, Phase2
  <2>2. BufTypes' /\ Buffer' = Buffer  BY <1>3, Frames DEF WriteEpoch
  <2>3. HistTypes'  BY <1>3, <2>2, Frames DEF WriteEpoch
  <2>4. WtrTypes' /\ FileTypes' /\ JnlTypes'
    <3>1. jnl \in Seq(JnlRec) /\ curr_tn \in Nat  BY DEF Types, JnlTypes, FileTypes
    <3>2. [type |-> "epoch", by |-> p, blks |-> {}, tn |-> curr_tn, image |-> Nothing,
           written |-> TRUE] \in JnlRec
      BY <3>1 DEF JnlRec, Nothing, Contents
    <3>3. JnlTypes'  BY <1>3, <3>1, <3>2 DEF WriteEpoch, JnlTypes
    <3> QED  BY <1>3, <2>2, <3>1, <3>3, Frames DEF WriteEpoch, Types, FileTypes
  <2> QED  BY <2>1, <2>2, <2>3, <2>4 DEF Types
<1>4. CASE Reserve(p)
  <2>1. ProcTypes'
    <3>1. jnl_freeaddr' \in [Proc -> [Block -> Nat]]  BY <1>4, ReserveIs DEF Reserved
    <3>2. pc' \in [Proc -> PC]  BY <1>4 DEF Reserve, Types, ProcTypes, PC, InCommit
    <3>3. Upd(p) \subseteq Block  BY <1>4, JobFacts DEF Reserve
    <3>4. rem' \in [Proc -> SUBSET Block]  BY <1>4, <3>3 DEF Reserve, Types, ProcTypes
    <3>5. ctn' \in [Proc -> Nat]  BY <1>4 DEF Reserve, Types, ProcTypes, FileTypes
    <3> QED  BY <1>4, <3>1, <3>2, <3>4, <3>5 DEF Reserve, Types, ProcTypes
  <2>2. BufTypes' /\ Buffer' = Buffer  BY <1>4, Frames DEF Reserve
  <2>3. HistTypes'  BY <1>4, <2>2, Frames DEF Reserve
  <2>4. WtrTypes' /\ FileTypes' /\ JnlTypes'
    <3>1. JnlTypes'  BY <1>4, ReserveIs DEF Reserved, JnlTypes
    <3> QED  BY <1>4, <2>2, <3>1, Frames DEF Reserve, Types, FileTypes
  <2> QED  BY <2>1, <2>2, <2>3, <2>4 DEF Types
<1>5. CASE Phase1(p)
  <2>1. ProcTypes'
    <3>3. rem' = rem \/ rem' = [rem EXCEPT ![p] = rem[p] \ {Cse(p)}]  BY <1>5 DEF Phase1, NextCse
    <3>1. rem' \in [Proc -> SUBSET Block]  BY <3>3 DEF Types, ProcTypes
    <3>2. pc' \in [Proc -> PC]  BY <1>5 DEF Phase1, NextCse, Types, ProcTypes, PC, InCommit
    <3> QED  BY <1>5, <3>1, <3>2 DEF Phase1, Types, ProcTypes
  <2>2. BufTypes' /\ Buffer' = Buffer
    <3>1. Cse(p) \in Block
      BY <1>5, CseIs DEF Phase1, JobInv, JobFor, Early, Types, ProcTypes
    <3>2. bt' \in Seq(BtRec) /\ Len(bt') = Len(bt)  BY <1>5, <3>1, BtPutIs DEF Phase1
    <3>3. bt' # << >>  BY <3>2 DEF Types, BufTypes
    <3>4. \A c \in Buffer : Dirtied(p, cr[c]) \in CacheRec
                           /\ [cr[c] EXCEPT !.in_tend = p, !.latch = "set"] \in CacheRec
      <4> TAKE c \in Buffer
      <4>1. cr[c] \in CacheRec  BY CrFields
      <4>2. [cr[c] EXCEPT !.in_tend = p, !.latch = "set"] \in CacheRec  BY <4>1 DEF CacheRec
      <4> QED  BY <4>1, <4>2, DirtiedType
    <3>5. \/ cr' = [cr EXCEPT ![CseCr(p)] = Dirtied(p, cr[CseCr(p)])]
          \/ cr' = [cr EXCEPT ![CseCr(p)] = [cr[CseCr(p)] EXCEPT !.in_tend = p, !.latch = "set"]]
      BY <1>5 DEF Phase1
    <3>6. cr' \in [Buffer -> CacheRec]  BY <3>4, <3>5 DEF Types, BufTypes, Buffer
    <3> QED  BY <3>2, <3>3, <3>6 DEF Types, BufTypes, BtRec, Buffer
  <2>3. HistTypes'  BY <1>5, <2>2, Frames DEF Phase1
  <2>4. WtrTypes' /\ FileTypes' /\ JnlTypes'  BY <1>5, <2>2, Frames DEF Phase1, Types, FileTypes
  <2> QED  BY <2>1, <2>2, <2>3, <2>4 DEF Types
<1>6. CASE Phase1Wait(p)
  <2>1. ProcTypes'
    <3>3. rem' = rem \/ rem' = [rem EXCEPT ![p] = rem[p] \ {Cse(p)}]  BY <1>6 DEF Phase1Wait, NextCse
    <3>1. rem' \in [Proc -> SUBSET Block]  BY <3>3 DEF Types, ProcTypes
    <3>2. pc' \in [Proc -> PC]  BY <1>6 DEF Phase1Wait, NextCse, Types, ProcTypes, PC, InCommit
    <3> QED  BY <1>6, <3>1, <3>2 DEF Phase1Wait, Types, ProcTypes
  <2>2. BufTypes' /\ Buffer' = Buffer
    <3>1. CseCr(p) \in Buffer => Dirtied(p, cr[CseCr(p)]) \in CacheRec
      BY CrFields, DirtiedType
    <3>2. cr' = [cr EXCEPT ![CseCr(p)] = Dirtied(p, cr[CseCr(p)])]  BY <1>6 DEF Phase1Wait
    <3> QED  BY <1>6, <3>1, <3>2, CrSet DEF Phase1Wait
  <2>3. HistTypes'  BY <1>6, <2>2, Frames DEF Phase1Wait
  <2>4. WtrTypes' /\ FileTypes' /\ JnlTypes'  BY <1>6, <2>2, Frames DEF Phase1Wait, Types, FileTypes
  <2> QED  BY <2>1, <2>2, <2>3, <2>4 DEF Types
<1>7. CASE IncrementTn(p)
  <2>1. ProcTypes'  BY <1>7, JobFacts DEF IncrementTn, Types, ProcTypes, PC, Reading, Checking, InCommit, Phase2
  <2>2. BufTypes' /\ Buffer' = Buffer  BY <1>7, Frames DEF IncrementTn
  <2>3. HistTypes'  BY <1>7, <2>2, Frames DEF IncrementTn
  <2>4. WtrTypes' /\ FileTypes' /\ JnlTypes'  BY <1>7, <2>2, Frames DEF IncrementTn, Types, FileTypes
  <2> QED  BY <2>1, <2>2, <2>3, <2>4 DEF Types
<1>8. CASE WriteJnl(p)
  <2>1. ProcTypes'  BY <1>8, JobFacts DEF WriteJnl, Types, ProcTypes, PC, Reading, Checking, InCommit, Phase2
  <2>2. BufTypes' /\ Buffer' = Buffer  BY <1>8, Frames DEF WriteJnl
  <2>3. HistTypes'  BY <1>8, <2>2, Frames DEF WriteJnl
  <2>4. WtrTypes' /\ FileTypes' /\ JnlTypes'
    <3>1. ASSUME NEW i \in 1 .. Len(jnl), jnl[i].by = p, ~jnl[i].written
          PROVE  [jnl[i] EXCEPT !.written = TRUE,
                    !.image = IF jnl[i].type = "pblk" THEN cr[The(CrOf(Max(jnl[i].blks)))].data
                              ELSE Nothing] \in JnlRec
      <4>1. Nothing \in Contents  BY DEF Nothing, Contents
      <4>2. jnl[i].type = "pblk" => cr[The(CrOf(Max(jnl[i].blks)))].data \in Contents
        <5> HAVE jnl[i].type = "pblk"
        <5>1. PICK b \in Upd(p) : jnl[i].blks = {b}  BY <3>1 DEF OpenInv
        <5>2. pc[p] = "cmt16" /\ rem[p] = Upd(p) /\ Upd(p) \subseteq Block  BY <1>8, JobFacts DEF WriteJnl, JobInv, JobFor
        <5>6. b \in Pinned(p) /\ hist[p][b] \in HistRec
          BY <5>1, <5>2 DEF Pinned, Phase2, Types, HistTypes
        <5>3. hist[p][b].cr \in CrOf(b)  BY <5>6, HistFields DEF PinInv, CrOf
        <5>4. Max({b}) = b  BY DEF Max
        <5>5. The(CrOf(b)) \in Buffer  BY <5>3, CrOfIs
        <5> QED  BY <5>1, <5>4, <5>5, CrFields
      <4>3. PICK v \in Contents : v = IF jnl[i].type = "pblk" THEN cr[The(CrOf(Max(jnl[i].blks)))].data
                                      ELSE Nothing
        BY <4>1, <4>2
      <4>4. jnl[i] \in JnlRec  BY JnlFields
      <4>5. [jnl[i] EXCEPT !.written = TRUE, !.image = v] \in JnlRec  BY <4>4 DEF JnlRec
      <4> QED  BY <4>3, <4>5
    <3>2. \A i \in 1 .. Len(jnl) : jnl'[i] \in JnlRec  BY <1>8, <3>1, JnlFields DEF WriteJnl
    <3>4. Len(jnl) \in Nat  BY DEF JnlTypes, Types
    <3>5. jnl' \in [1 .. Len(jnl) -> JnlRec]  BY <1>8, <3>2 DEF WriteJnl
    <3>3. JnlTypes'  BY <3>4, <3>5 DEF JnlTypes
    <3> QED  BY <1>8, <2>2, <3>3, Frames DEF WriteJnl, Types, FileTypes
  <2> QED  BY <2>1, <2>2, <2>3, <2>4 DEF Types
<1>9. CASE BuildStart(p)
  <2>1. ProcTypes'  BY <1>9, JobFacts DEF BuildStart, Types, ProcTypes, PC, Reading, Checking, InCommit, Phase2
  <2>2. BufTypes' /\ Buffer' = Buffer
    <3>1. CseCr(p) \in Buffer => [cr[CseCr(p)] EXCEPT !.data.tn = Torn] \in CacheRec
      <4> HAVE CseCr(p) \in Buffer
      <4>1. [cr[CseCr(p)].data EXCEPT !.tn = Torn] \in Contents  BY CrFields DEF Contents
      <4> QED  BY <4>1, CrFields DEF CacheRec
    <3>2. cr' = [cr EXCEPT ![CseCr(p)] = [cr[CseCr(p)] EXCEPT !.data.tn = Torn]]  BY <1>9 DEF BuildStart
    <3> QED  BY <1>9, <3>1, <3>2, CrSet DEF BuildStart
  <2>3. HistTypes'  BY <1>9, <2>2, Frames DEF BuildStart
  <2>4. WtrTypes' /\ FileTypes' /\ JnlTypes'  BY <1>9, <2>2, Frames DEF BuildStart, Types, FileTypes
  <2> QED  BY <2>1, <2>2, <2>3, <2>4 DEF Types
<1>10. CASE BuildEnd(p)
  <2>1. ProcTypes'  BY <1>10, JobFacts DEF BuildEnd, Types, ProcTypes, PC, Reading, Checking, InCommit, Phase2
  <2>2. BufTypes' /\ Buffer' = Buffer
    <3>1. CseCr(p) \in Buffer => Built(p, cr[CseCr(p)]) \in CacheRec
      <4> HAVE CseCr(p) \in Buffer
      <4>1. [cr[CseCr(p)].data EXCEPT !.tn = ctn[p]] \in Contents
        BY CrFields DEF Contents, Types, ProcTypes
      <4>2. CASE cr[CseCr(p)].tn # 0  BY <4>1, <4>2, CrFields DEF CacheRec, Built
      <4>3. CASE cr[CseCr(p)].tn = 0
        <5>1. PICK r \in CacheRec : r = cr[CseCr(p)]  BY CrFields
        <5>2. r.blk \in Block /\ jnl_freeaddr[p][r.blk] \in Nat
          BY <5>1, <1>10, CseCrIs DEF Types, ProcTypes, Phase2, BuildEnd
        <5>3. PICK v \in Contents, a \in Nat :
                v = [r.data EXCEPT !.tn = ctn[p]] /\ a = jnl_freeaddr[p][r.blk]
          BY <4>1, <5>1, <5>2
        <5>4. [r EXCEPT !.data = v, !.jnl_addr = a, !.queued = TRUE] \in CacheRec  BY DEF CacheRec
        <5>5. Built(p, r) = [r EXCEPT !.data = v, !.jnl_addr = a, !.queued = TRUE]
          BY <4>3, <5>1, <5>3 DEF Built, CacheRec
        <5> QED  BY <5>1, <5>4, <5>5
      <4> QED  BY <4>2, <4>3
    <3>2. cr' = [cr EXCEPT ![CseCr(p)] = Built(p, cr[CseCr(p)])]  BY <1>10 DEF BuildEnd
    <3> QED  BY <1>10, <3>1, <3>2, CrSet DEF BuildEnd
  <2>3. HistTypes'  BY <1>10, <2>2, Frames DEF BuildEnd
  <2>4. WtrTypes' /\ FileTypes' /\ JnlTypes'  BY <1>10, <2>2, Frames DEF BuildEnd, Types, FileTypes
  <2> QED  BY <2>1, <2>2, <2>3, <2>4 DEF Types
<1>11. CASE Release(p)
  <2>1. ProcTypes'  BY <1>11, JobFacts DEF Release, Types, ProcTypes, PC, Reading, Checking, InCommit, Phase2
  <2>2. BufTypes' /\ Buffer' = Buffer
    <3>1. CseCr(p) \in Buffer => Released(cr[CseCr(p)]) \in CacheRec
      BY CrFields DEF CacheRec, Released
    <3>2. cr' = [cr EXCEPT ![CseCr(p)] = Released(cr[CseCr(p)])]  BY <1>11 DEF Release
    <3> QED  BY <1>11, <3>1, <3>2, CrSet DEF Release
  <2>3. HistTypes'  BY <1>11, <2>2, Frames DEF Release
  <2>4. WtrTypes' /\ FileTypes' /\ JnlTypes'  BY <1>11, <2>2, Frames DEF Release, Types, FileTypes
  <2> QED  BY <2>1, <2>2, <2>3, <2>4 DEF Types
<1>12. CASE ResetInTend(p)
  <2>1. ProcTypes'
    <3>1. todo[p] \in Seq(Job) /\ todo[p] # << >>  BY <1>12, JobFacts DEF ResetInTend, Types, ProcTypes
    <3>2. Tail(todo[p]) \in Seq(Job)  BY <3>1
    <3>3. todo' \in [Proc -> Seq(Job)]  BY <1>12, <3>2 DEF ResetInTend, Types, ProcTypes
    <3>9. clue' = clue \/ clue' = [clue EXCEPT ![p] = << >>]
      <4>1. clue \in [Proc -> Seq(Block)]  BY DEF Types, ProcTypes
      <4> QED  BY <1>12, <4>1 DEF ResetInTend
    <3>4. clue' \in [Proc -> Seq(Block)]  BY <3>9, ClueTypes
    <3>5. rem' \in [Proc -> SUBSET Block]  BY <1>12 DEF ResetInTend, NextCse, Types, ProcTypes
    <3>6. pc' \in [Proc -> PC]  BY <1>12 DEF ResetInTend, NextCse, Types, ProcTypes, PC, Phase2
    <3> QED  BY <1>12, <3>3, <3>4, <3>5, <3>6 DEF ResetInTend, Types, ProcTypes
  <2>2. BufTypes' /\ Buffer' = Buffer
    <3>1. CseCr(p) \in Buffer => [cr[CseCr(p)] EXCEPT !.in_tend = NoProc, !.in_cw_set = NoProc] \in CacheRec
      BY CrFields DEF CacheRec
    <3>2. cr' = [cr EXCEPT ![CseCr(p)] = [cr[CseCr(p)] EXCEPT !.in_tend = NoProc, !.in_cw_set = NoProc]]
      BY <1>12 DEF ResetInTend
    <3> QED  BY <1>12, <3>1, <3>2, CrSet DEF ResetInTend
  <2>3. HistTypes'  BY <1>12, <2>2, Frames DEF ResetInTend
  <2>4. WtrTypes' /\ FileTypes' /\ JnlTypes'  BY <1>12, <2>2, Frames DEF ResetInTend, Types, FileTypes
  <2> QED  BY <2>1, <2>2, <2>3, <2>4 DEF Types
<1>13. CASE Halt(p)
  <2>1. ProcTypes'
    <3>1. lvl' \in [Proc -> Nat] /\ start_tn' \in [Proc -> Nat] /\ began' \in [Proc -> Nat]
          /\ ctn' \in [Proc -> Nat]
      BY <1>13 DEF Halt, Types, ProcTypes
    <3>2. tries' \in [Proc -> 0 .. CDB_STAGNATE]  BY <1>13, DatabaseAssumption DEF Halt, Types, ProcTypes
    <3>3. clue' \in [Proc -> Seq(Block)] /\ same' \in [Proc -> BOOLEAN]
      BY <1>13 DEF Halt, Types, ProcTypes
    <3>4. jnl_freeaddr' \in [Proc -> [Block -> Nat]]  BY <1>13 DEF Halt, Types, ProcTypes
    <3>5. pc' \in [Proc -> PC]  BY <1>13 DEF Halt, Types, ProcTypes, PC
    <3> QED  BY <1>13, <3>1, <3>2, <3>3, <3>4, <3>5 DEF Halt, Types, ProcTypes
  <2>2. BufTypes' /\ Buffer' = Buffer  BY <1>13, Frames DEF Halt
  <2>3. HistTypes'
    <3>1. 1 \in Buffer  BY DEF Types, BufTypes
    <3>2. NoHist \in HistRec  BY <3>1 DEF NoHist, HistRec, Nothing, Contents
    <3>3. HistRec' = HistRec  BY <2>2 DEF HistRec
    <3> QED  BY <1>13, <3>2, <3>3 DEF Halt, Types, HistTypes
  <2>4. WtrTypes' /\ FileTypes' /\ JnlTypes'  BY <1>13, <2>2, Frames DEF Halt, Types, FileTypes
  <2> QED  BY <2>1, <2>2, <2>3, <2>4 DEF Types
<1> QED  BY <1>1, <1>2, <1>3, <1>4, <1>5, <1>6, <1>7, <1>8, <1>9, <1>10, <1>11, <1>12, <1>13 DEF Commit

LEMMA WtrFields ==
  ASSUME Types, NEW w \in Writer
  PROVE  /\ wtr[w].pc \in {"idle", "lock", "write", "release"} /\ wtr[w].cr \in Buffer
         /\ wtr[w] \in [pc : {"idle", "lock", "write", "release"}, cr : Buffer]
BY DEF Types, WtrTypes

LEMMA TypesWriter ==
  ASSUME Types, NEW w \in Writer, WtStep(w)
  PROVE  Types'
<1> USE DEF txnvars, cmtvars, jnlvars, dskvars, tnvars
<1>1. ASSUME NEW c \in Buffer, WtStart(w, c)  PROVE Types'
  <2>1. [cr[c] EXCEPT !.queued = FALSE] \in CacheRec  BY CrFields DEF CacheRec
  <2>2. BufTypes' /\ Buffer' = Buffer
    <3>1. cr' = [cr EXCEPT ![c] = [cr[c] EXCEPT !.queued = FALSE]]  BY <1>1 DEF WtStart
    <3> QED  BY <1>1, <2>1, <3>1, CrSet DEF WtStart
  <2>3. HistTypes'  BY <1>1, <2>2, Frames DEF WtStart
  <2>4. WtrTypes'  BY <1>1, <2>2 DEF WtStart, Types, WtrTypes
  <2>5. ProcTypes' /\ JnlTypes' /\ FileTypes'
    BY <1>1 DEF WtStart, Types, ProcTypes, JnlTypes, FileTypes
  <2> QED  BY <2>2, <2>3, <2>4, <2>5 DEF Types
<1>2. CASE WtLock(w)
  <2>1. [cr[wtr[w].cr] EXCEPT !.latch = "conflict"] \in CacheRec  BY CrFields, WtrFields DEF CacheRec
  <2>2. BufTypes' /\ Buffer' = Buffer
    <3>1. cr' = [cr EXCEPT ![wtr[w].cr] = [cr[wtr[w].cr] EXCEPT !.latch = "conflict"]]
      BY <1>2 DEF WtLock
    <3> QED  BY <1>2, <2>1, <3>1, CrSet DEF WtLock
  <2>3. HistTypes'  BY <1>2, <2>2, Frames DEF WtLock
  <2>4. WtrTypes'  BY <1>2, <2>2 DEF WtLock, Types, WtrTypes
  <2>5. ProcTypes' /\ JnlTypes' /\ FileTypes'
    BY <1>2 DEF WtLock, Types, ProcTypes, JnlTypes, FileTypes
  <2> QED  BY <2>2, <2>3, <2>4, <2>5 DEF Types
<1>3. CASE WtWrite(w)
  <2>0. PICK c \in Buffer : c = wtr[w].cr  BY WtrFields
  <2>1. [cr[c] EXCEPT !.dirty = 0] \in CacheRec  BY CrFields DEF CacheRec
  <2>2. BufTypes' /\ Buffer' = Buffer
    <3>1. cr' = [cr EXCEPT ![c] = [cr[c] EXCEPT !.dirty = 0]]  BY <1>3, <2>0 DEF WtWrite
    <3> QED  BY <1>3, <2>1, <3>1, CrSet DEF WtWrite
  <2>3. HistTypes'  BY <1>3, <2>2, Frames DEF WtWrite
  <2>4. WtrTypes'  BY <1>3, <2>2 DEF WtWrite, Types, WtrTypes
  <2>5. ProcTypes' /\ JnlTypes'  BY <1>3 DEF WtWrite, Types, ProcTypes, JnlTypes
  <2>6. FileTypes'
    <3>1. cr[c].data \in Contents /\ [blk |-> cr[c].blk, tn |-> Torn] \in Contents
      BY CrFields DEF Contents
    <3>2. disk' \in [Block -> Contents]  BY <1>3, <2>0, <3>1 DEF WtWrite, Types, FileTypes
    <3>3. stable' \in [Block -> SUBSET Contents]  BY <1>3, <2>0, <3>1 DEF WtWrite, Types, FileTypes
    <3> QED  BY <1>3, <3>2, <3>3 DEF WtWrite, Types, FileTypes
  <2> QED  BY <2>2, <2>3, <2>4, <2>5, <2>6 DEF Types
<1>4. CASE WtRelease(w)
  <2>1. [cr[wtr[w].cr] EXCEPT !.latch = "clear"] \in CacheRec  BY CrFields, WtrFields DEF CacheRec
  <2>2. BufTypes' /\ Buffer' = Buffer
    <3>1. cr' = [cr EXCEPT ![wtr[w].cr] = [cr[wtr[w].cr] EXCEPT !.latch = "clear"]]
      BY <1>4 DEF WtRelease
    <3> QED  BY <1>4, <2>1, <3>1, CrSet DEF WtRelease
  <2>3. HistTypes'  BY <1>4, <2>2, Frames DEF WtRelease
  <2>4. WtrTypes'  BY <1>4, <2>2 DEF WtRelease, Types, WtrTypes
  <2>5. ProcTypes' /\ JnlTypes' /\ FileTypes'
    BY <1>4 DEF WtRelease, Types, ProcTypes, JnlTypes, FileTypes
  <2> QED  BY <2>2, <2>3, <2>4, <2>5 DEF Types
<1> QED  BY <1>1, <1>2, <1>3, <1>4 DEF WtStep

LEMMA TypesQio ==
  ASSUME Types, JnlQio
  PROVE  Types'
<1> USE DEF txnvars, cmtvars, jnlvars, dskvars, tnvars
<1>1. freeaddr \in Nat  BY FreeaddrIs
<1>2. stable' \in [Block -> SUBSET Contents]  BY DEF JnlQio, JnlOutput, Types, FileTypes
<1>3. FileTypes'  BY <1>1, <1>2 DEF JnlQio, JnlOutput, Types, FileTypes
<1>4. BufTypes' /\ Buffer' = Buffer  BY Frames DEF JnlQio
<1>5. HistTypes' /\ WtrTypes' /\ JnlTypes'  BY <1>4, Frames DEF JnlQio
<1>6. ProcTypes'  BY DEF JnlQio, Types, ProcTypes
<1> QED  BY <1>3, <1>4, <1>5, <1>6 DEF Types

-----------------------------------------------------------------------------
(* What a step leaves alone *)

(* What the other processes keep in a step of p. *)
Others(p) ==
  \A q \in Proc \ {p} :
    /\ pc'[q] = pc[q] /\ lvl'[q] = lvl[q] /\ todo'[q] = todo[q] /\ tries'[q] = tries[q]
    /\ start_tn'[q] = start_tn[q] /\ hist'[q] = hist[q] /\ clue'[q] = clue[q] /\ same'[q] = same[q]
    /\ rem'[q] = rem[q] /\ ctn'[q] = ctn[q] /\ jnl_freeaddr'[q] = jnl_freeaddr[q]
    /\ began'[q] = began[q]

LEMMA OthersSearch ==
  ASSUME Types, NEW p \in Proc, Search(p)
  PROVE  Others(p)
<1> USE DEF txnvars, cmtvars, Go, Types, ProcTypes, HistTypes, Others
<1>1. CASE Begin(p)  BY <1>1 DEF Begin
<1>2. CASE CheckClue(p)  BY <1>2 DEF CheckClue
<1>3. CASE NoteTn(p)  BY <1>3 DEF NoteTn, SetHist
<1>4. CASE Find(p)  BY <1>4 DEF Find, SetHist
<1>5. CASE Miss(p)  BY <1>5 DEF Miss
<1>6. CASE GetBuffer(p)  BY <1>6 DEF GetBuffer, SetHist
<1>7. CASE DskRead(p)  BY <1>7 DEF DskRead
<1>8. CASE NoteCycle(p)  BY <1>8 DEF NoteCycle, SetHist
<1>9. CASE WaitRead(p)  BY <1>9 DEF WaitRead
<1>10. CASE WaitInTend(p)  BY <1>10 DEF WaitInTend
<1>11. CASE Look(p)  BY <1>11 DEF Look, SetHist
<1> QED  BY <1>1, <1>2, <1>3, <1>4, <1>5, <1>6, <1>7, <1>8, <1>9, <1>10, <1>11 DEF Search

LEMMA OthersTEnd ==
  ASSUME Types, NEW p \in Proc, TEnd(p)
  PROVE  Others(p)
<1> USE DEF txnvars, cmtvars, Go, Types, ProcTypes, HistTypes, Others
<1>1. CASE ReadOnlyEnd(p)  BY <1>1 DEF ReadOnlyEnd
<1>2. CASE CheckTn(p)  BY <1>2 DEF CheckTn, Fail
<1>3. CASE CheckCycle(p)  BY <1>3 DEF CheckCycle, Fail
<1>4. CASE ReadOnlyDone(p)  BY <1>4 DEF ReadOnlyDone
<1>5. CASE Retry(p)  BY <1>5 DEF Retry
<1>6. CASE GrabCrit(p)  BY <1>6 DEF GrabCrit
<1>7. CASE Validate(p)  BY <1>7 DEF Validate, Fail
<1> QED  BY <1>1, <1>2, <1>3, <1>4, <1>5, <1>6, <1>7 DEF TEnd

LEMMA OthersCommit ==
  ASSUME Types, NEW p \in Proc, Commit(p)
  PROVE  Others(p)
<1> USE DEF txnvars, cmtvars, Go, Types, ProcTypes, HistTypes, Others
<1>1. CASE CheckEpoch(p)  BY <1>1 DEF CheckEpoch
<1>2. CASE FlushJnl(p)  BY <1>2 DEF FlushJnl
<1>3. CASE WriteEpoch(p)  BY <1>3 DEF WriteEpoch
<1>4. CASE Reserve(p)  BY <1>4 DEF Reserve
<1>5. CASE Phase1(p)  BY <1>5 DEF Phase1, NextCse
<1>6. CASE Phase1Wait(p)  BY <1>6 DEF Phase1Wait, NextCse
<1>7. CASE IncrementTn(p)  BY <1>7 DEF IncrementTn
<1>8. CASE WriteJnl(p)  BY <1>8 DEF WriteJnl
<1>9. CASE BuildStart(p)  BY <1>9 DEF BuildStart
<1>10. CASE BuildEnd(p)  BY <1>10 DEF BuildEnd
<1>11. CASE Release(p)  BY <1>11 DEF Release
<1>12. CASE ResetInTend(p)  BY <1>12 DEF ResetInTend, NextCse
<1>13. CASE Halt(p)  BY <1>13 DEF Halt
<1> QED  BY <1>1, <1>2, <1>3, <1>4, <1>5, <1>6, <1>7, <1>8, <1>9, <1>10, <1>11, <1>12, <1>13 DEF Commit

-----------------------------------------------------------------------------
(* The job of a process *)

LEMMA JobStep ==
  ASSUME JobInv, NEW p, Others(p), p \in Proc => JobFor(p)'
  PROVE  JobInv'
<1> SUFFICES ASSUME NEW q \in Proc  PROVE JobFor(q)'  BY DEF JobInv
<1>1. CASE q # p
  <2>1. /\ pc'[q] = pc[q] /\ lvl'[q] = lvl[q] /\ todo'[q] = todo[q] /\ clue'[q] = clue[q] /\ rem'[q] = rem[q]
    BY <1>1 DEF Others
  <2>2. Path(q)' = Path(q) /\ Upd(q)' = Upd(q)  BY <2>1 DEF Path, Upd
  <2> QED  BY <2>1, <2>2 DEF JobInv, JobFor
<1> QED  BY <1>1

(* A step within a transaction. *)
LEMMA JobKeep ==
  ASSUME Types, JobInv, NEW p \in Proc, Others(p), pc[p] \notin {"idle", "gone"},
         todo'[p] = todo[p], lvl'[p] \in 1 .. Len(Path(p)),
         pc'[p] \in AtEnd \cup InCommit \cup Phase2 => clue'[p] = Path(p),
         pc'[p] = "clue" => clue'[p] = Path(p),
         pc'[p] \in {"grab", "valid"} \cup InCommit \cup Phase2 => Upd(p) # {},
         pc'[p] \in Early \cup Phase2 => rem'[p] \subseteq Upd(p) /\ (rem'[p] = {} <=> pc'[p] = "cmt12"),
         pc'[p] = "cmt16" => rem'[p] = Upd(p)
  PROVE  JobInv'
<1>1. Path(p)' = Path(p) /\ Upd(p)' = Upd(p)  BY DEF Path, Upd
<1>2. todo[p] # << >> /\ \A i \in 1 .. Len(todo[p]) : JobOK(todo[p][i])  BY DEF JobInv, JobFor
<1> QED  BY <1>1, <1>2, JobStep DEF JobFor

LEMMA JobSearch ==
  ASSUME Types, JobInv, NEW p \in Proc, Search(p)
  PROVE  JobInv'
<1> USE DEF txnvars, cmtvars, Go
<1>0. Others(p)  BY OthersSearch
<1> DEFINE n == Len(Path(p))
<1>a. pc[p] \notin {"idle", "gone"} => n \in Nat \ {0} /\ lvl[p] \in 1 .. n  BY JobFacts
<1>b. pc \in [Proc -> PC] /\ lvl \in [Proc -> Nat] /\ clue \in [Proc -> Seq(Block)]  BY DEF Types, ProcTypes
<1>1. CASE Begin(p)
  <2>1. todo[p] # << >> /\ todo[p] \in Seq(Job) /\ todo'[p] = todo[p] /\ clue'[p] = clue[p]
    BY <1>1 DEF Begin, Types, ProcTypes
  <2>2. JobOK(Head(todo[p])) /\ \A i \in 1 .. Len(todo[p]) : JobOK(todo[p][i])
    <3>1. Head(todo[p]) = todo[p][1] /\ 1 \in 1 .. Len(todo[p])  BY <2>1
    <3> QED  BY <3>1 DEF JobInv, JobFor
  <2>3. Path(p) \in Seq(Block) /\ Path(p) # << >>  BY <2>2 DEF JobOK, Job, IsPath, Path
  <2>4. n \in Nat \ {0}  BY <2>3
  <2>5. lvl'[p] \in 1 .. n  BY <1>1, <1>b, <2>4 DEF Begin
  <2>6. Path(p)' = Path(p)  BY <2>1 DEF Path
  <2>7. pc'[p] \in {"clue", "note"} /\ (pc'[p] = "clue" => clue[p] = Path(p))  BY <1>1, <1>b DEF Begin
  <2> HIDE DEF n
  <2>8. pc'[p] \notin AtEnd \cup InCommit \cup Phase2 \cup Early /\ pc'[p] # "cmt16"
        /\ pc'[p] \notin {"grab", "valid"}
    BY <2>7 DEF AtEnd, InCommit, Phase2, Early
  <2> QED  BY <1>0, <2>1, <2>2, <2>5, <2>6, <2>7, <2>8, JobStep DEF n, JobFor
<1> USE DEF AtEnd, InCommit, Phase2, Early
<1>2. CASE CheckClue(p)
  <2>1. lvl'[p] \in 1 .. n /\ todo'[p] = todo[p] /\ clue'[p] = clue[p] /\ pc'[p] \in {"clue", "note", "look"}
        /\ pc[p] = "clue"
    BY <1>2, <1>a, <1>b DEF CheckClue
  <2>2. clue[p] = Path(p)  BY <2>1 DEF JobInv, JobFor
  <2> QED  BY <1>0, <2>1, <2>2, JobKeep
<1>3. CASE NoteTn(p)
  <2>1. lvl'[p] \in 1 .. n /\ todo'[p] = todo[p] /\ pc'[p] \in {"find"} /\ pc[p] = "note"
    BY <1>3, <1>a, <1>b DEF NoteTn
  <2> QED  BY <1>0, <2>1, JobKeep
<1>4. CASE Find(p)
  <2>1. lvl'[p] \in 1 .. n /\ todo'[p] = todo[p] /\ pc'[p] \in {"miss", "cycle"} /\ pc[p] = "find"
    BY <1>4, <1>a, <1>b DEF Find
  <2> QED  BY <1>0, <2>1, JobKeep
<1>5. CASE Miss(p)
  <2>1. lvl'[p] \in 1 .. n /\ todo'[p] = todo[p] /\ pc'[p] \in {"getn"} /\ pc[p] = "miss"
    BY <1>5, <1>a, <1>b DEF Miss
  <2> QED  BY <1>0, <2>1, JobKeep
<1>6. CASE GetBuffer(p)
  <2>1. lvl'[p] \in 1 .. n /\ todo'[p] = todo[p] /\ pc'[p] \in {"cycle", "read"} /\ pc[p] = "getn"
    BY <1>6, <1>a, <1>b DEF GetBuffer
  <2> QED  BY <1>0, <2>1, JobKeep
<1>7. CASE DskRead(p)
  <2>1. lvl'[p] \in 1 .. n /\ todo'[p] = todo[p] /\ pc'[p] \in {"look"} /\ pc[p] = "read"
    BY <1>7, <1>a, <1>b DEF DskRead
  <2> QED  BY <1>0, <2>1, JobKeep
<1>8. CASE NoteCycle(p)
  <2>1. lvl'[p] \in 1 .. n /\ todo'[p] = todo[p] /\ pc'[p] \in {"wait"} /\ pc[p] = "cycle"
    BY <1>8, <1>a, <1>b DEF NoteCycle
  <2> QED  BY <1>0, <2>1, JobKeep
<1>9. CASE WaitRead(p)
  <2>1. lvl'[p] \in 1 .. n /\ todo'[p] = todo[p] /\ pc'[p] \in {"find", "intend", "look"} /\ pc[p] = "wait"
    BY <1>9, <1>a, <1>b DEF WaitRead
  <2> QED  BY <1>0, <2>1, JobKeep
<1>10. CASE WaitInTend(p)
  <2>1. lvl'[p] \in 1 .. n /\ todo'[p] = todo[p] /\ pc'[p] \in {"look"} /\ pc[p] = "intend"
    BY <1>10, <1>a, <1>b DEF WaitInTend
  <2> QED  BY <1>0, <2>1, JobKeep
<1>11. CASE Look(p)
  <2>1. lvl'[p] \in 1 .. n /\ todo'[p] = todo[p] /\ pc[p] = "look"
    BY <1>11, <1>a, <1>b DEF Look
  <2>2. pc'[p] = "note" \/ (pc'[p] = "ro" /\ clue'[p] = Path(p))
        \/ (pc'[p] = "grab" /\ clue'[p] = Path(p) /\ Upd(p) # {})
    BY <1>11, <1>b DEF Look
  <2> QED  BY <1>0, <2>1, <2>2, JobKeep
<1> QED  BY <1>1, <1>2, <1>3, <1>4, <1>5, <1>6, <1>7, <1>8, <1>9, <1>10, <1>11 DEF Search

LEMMA OthersWriter ==
  ASSUME (\E w \in Writer : WtStep(w)) \/ JnlQio
  PROVE  Others(NoProc)
<1> USE DEF txnvars, cmtvars, Others
<1>1. ASSUME NEW w \in Writer, WtStep(w)  PROVE Others(NoProc)
  <2>1. ASSUME NEW c \in Buffer, WtStart(w, c)  PROVE Others(NoProc)  BY <2>1 DEF WtStart
  <2>2. CASE WtLock(w)  BY <2>2 DEF WtLock
  <2>3. CASE WtWrite(w)  BY <2>3 DEF WtWrite
  <2>4. CASE WtRelease(w)  BY <2>4 DEF WtRelease
  <2> QED  BY <1>1, <2>1, <2>2, <2>3, <2>4 DEF WtStep
<1>2. CASE JnlQio  BY <1>2 DEF JnlQio
<1> QED  BY <1>1, <1>2

LEMMA JobRest ==
  ASSUME JobInv, Others(NoProc)
  PROVE  JobInv'
BY JobStep, BlockNat

(* The transaction of p is over. *)
LEMMA JobDone ==
  ASSUME Types, JobInv, NEW p \in Proc, Others(p), todo[p] # << >>, todo'[p] = Tail(todo[p]), pc'[p] = "idle"
  PROVE  JobInv'
<1>1. todo[p] \in Seq(Job)  BY DEF Types, ProcTypes
<1>2. \A i \in 1 .. Len(todo[p]) : JobOK(todo[p][i])  BY DEF JobInv, JobFor
<1>3. PICK m \in Nat : m = Len(todo[p]) /\ m > 0  BY <1>1
<1>4. Len(Tail(todo[p])) = m - 1 /\ \A i \in 1 .. m - 1 : Tail(todo[p])[i] = todo[p][i + 1]
  BY <1>1, <1>3
<1>5. \A i \in 1 .. Len(todo'[p]) : JobOK(todo'[p][i])
  <2>0. Len(todo'[p]) = m - 1  BY <1>4
  <2> TAKE i \in 1 .. Len(todo'[p])
  <2>1. i \in 1 .. m - 1 /\ i + 1 \in 1 .. Len(todo[p])  BY <1>3, <2>0
  <2>2. todo'[p][i] = todo[p][i + 1]  BY <1>4, <2>1
  <2> QED  BY <1>2, <2>1, <2>2
<1>6. JobFor(p)'  BY <1>5 DEF JobFor, AtEnd, InCommit, Phase2, Early
<1> QED  BY <1>6, JobStep

LEMMA JobTEnd ==
  ASSUME Types, JobInv, NEW p \in Proc, TEnd(p)
  PROVE  JobInv'
<1> USE DEF txnvars, cmtvars, Go
<1>0. Others(p)  BY OthersTEnd
<1> DEFINE n == Len(Path(p))
<1>a. pc[p] \notin {"idle", "gone"} => n \in Nat \ {0} /\ lvl[p] \in 1 .. n  BY JobFacts
<1>b. pc \in [Proc -> PC] /\ lvl \in [Proc -> Nat] /\ clue \in [Proc -> Seq(Block)]
      /\ todo \in [Proc -> Seq(Job)]  BY DEF Types, ProcTypes
<1> USE DEF AtEnd, InCommit, Phase2, Early
<1>1. CASE ReadOnlyEnd(p)
  <2>1. lvl'[p] \in 1 .. n /\ todo'[p] = todo[p] /\ clue'[p] = clue[p] /\ pc[p] = "ro"
        /\ pc'[p] \in {"rocyc", "romod"}
    BY <1>1, <1>a, <1>b DEF ReadOnlyEnd
  <2>2. clue[p] = Path(p)  BY <2>1 DEF JobInv, JobFor
  <2> QED  BY <1>0, <2>1, <2>2, JobKeep
<1>2. CASE CheckTn(p)
  <2>1. lvl'[p] \in 1 .. n /\ todo'[p] = todo[p] /\ pc[p] = "romod"
        /\ (pc'[p] = "retry" \/ (pc'[p] = "rocyc" /\ clue'[p] = clue[p]))
    BY <1>2, <1>a, <1>b DEF CheckTn, Fail
  <2>2. clue[p] = Path(p)  BY <2>1 DEF JobInv, JobFor
  <2> QED  BY <1>0, <2>1, <2>2, JobKeep
<1>3. CASE CheckCycle(p)
  <2>1. lvl'[p] \in 1 .. n /\ todo'[p] = todo[p] /\ pc[p] = "rocyc"
        /\ (pc'[p] = "retry" \/ (pc'[p] \in {"rocyc", "romod", "rodone"} /\ clue'[p] = clue[p]))
    BY <1>3, <1>a, <1>b DEF CheckCycle, Fail
  <2>2. clue[p] = Path(p)  BY <2>1 DEF JobInv, JobFor
  <2> QED  BY <1>0, <2>1, <2>2, JobKeep
<1>4. CASE ReadOnlyDone(p)
  <2>1. pc[p] = "rodone" /\ pc'[p] = "idle" /\ todo'[p] = Tail(todo[p])  BY <1>4, <1>b DEF ReadOnlyDone
  <2>2. todo[p] # << >>  BY <2>1 DEF JobInv, JobFor
  <2> QED  BY <1>0, <2>1, <2>2, JobDone
<1>5. CASE Retry(p)
  <2>1. lvl'[p] \in 1 .. n /\ todo'[p] = todo[p] /\ pc[p] = "retry" /\ pc'[p] = "note"
    BY <1>5, <1>a, <1>b DEF Retry
  <2> QED  BY <1>0, <2>1, JobKeep
<1>6. CASE GrabCrit(p)
  <2>1. lvl'[p] \in 1 .. n /\ todo'[p] = todo[p] /\ clue'[p] = clue[p] /\ pc[p] = "grab" /\ pc'[p] = "valid"
    BY <1>6, <1>a, <1>b DEF GrabCrit
  <2>2. clue[p] = Path(p) /\ Upd(p) # {}  BY <2>1 DEF JobInv, JobFor
  <2> QED  BY <1>0, <2>1, <2>2, JobKeep
<1>7. CASE Validate(p)
  <2>1. lvl'[p] \in 1 .. n /\ todo'[p] = todo[p] /\ pc[p] = "valid"
        /\ (pc'[p] = "retry" \/ (pc'[p] = "commit" /\ clue'[p] = clue[p]))
    BY <1>7, <1>a, <1>b DEF Validate, Fail
  <2>2. clue[p] = Path(p) /\ Upd(p) # {}  BY <2>1 DEF JobInv, JobFor
  <2> QED  BY <1>0, <2>1, <2>2, JobKeep
<1> QED  BY <1>1, <1>2, <1>3, <1>4, <1>5, <1>6, <1>7 DEF TEnd

LEMMA JobCommit ==
  ASSUME Types, JobInv, PinInv, NEW p \in Proc, Commit(p)
  PROVE  JobInv'
<1> USE DEF txnvars, cmtvars, Go
<1>0. Others(p)  BY OthersCommit
<1> DEFINE n == Len(Path(p))
<1>a. pc[p] \notin {"idle", "gone"} => n \in Nat \ {0} /\ lvl[p] \in 1 .. n  BY JobFacts
<1>b. pc \in [Proc -> PC] /\ lvl \in [Proc -> Nat] /\ clue \in [Proc -> Seq(Block)]
      /\ todo \in [Proc -> Seq(Job)] /\ rem \in [Proc -> SUBSET Block]  BY DEF Types, ProcTypes
<1>c. pc[p] \in InCommit \cup Phase2 => clue[p] = Path(p) /\ Upd(p) # {}
  BY DEF JobInv, JobFor
<1>d. pc[p] \in Early \cup Phase2 => rem[p] \subseteq Upd(p) /\ (rem[p] = {} <=> pc[p] = "cmt12")
  BY DEF JobInv, JobFor
<1>e. pc[p] = "cmt16" => rem[p] = Upd(p)  BY DEF JobInv, JobFor
<1>f. pc[p] \in {"cmt10", "cmt10w"} \cup Phase2 => Cse(p) \in rem[p]  BY CseCrIs
<1> USE DEF AtEnd, InCommit, Phase2, Early
<1>1. CASE CheckEpoch(p)
  <2>1. lvl'[p] \in 1 .. n /\ todo'[p] = todo[p] /\ clue'[p] = clue[p] /\ pc[p] = "commit" /\ pc'[p] = "flu1"
    BY <1>1, <1>a, <1>b DEF CheckEpoch
  <2> QED  BY <1>0, <1>c, <1>d, <1>e, <1>f, <2>1, JobKeep
<1>2. CASE FlushJnl(p)
  <2>1. lvl'[p] \in 1 .. n /\ todo'[p] = todo[p] /\ clue'[p] = clue[p] /\ pc[p] = "flu1" /\ pc'[p] = "flu2"
    BY <1>2, <1>a, <1>b DEF FlushJnl
  <2> QED  BY <1>0, <1>c, <1>d, <1>e, <1>f, <2>1, JobKeep
<1>3. CASE WriteEpoch(p)
  <2>1. lvl'[p] \in 1 .. n /\ todo'[p] = todo[p] /\ clue'[p] = clue[p] /\ pc[p] = "flu2" /\ pc'[p] = "cmt04"
    BY <1>3, <1>a, <1>b DEF WriteEpoch
  <2> QED  BY <1>0, <1>c, <1>d, <1>e, <1>f, <2>1, JobKeep
<1>4. CASE Reserve(p)
  <2>1. lvl'[p] \in 1 .. n /\ todo'[p] = todo[p] /\ clue'[p] = clue[p] /\ pc[p] \in {"commit", "cmt04"} /\ pc'[p] = "cmt10" /\ rem'[p] = Upd(p)
    BY <1>4, <1>a, <1>b DEF Reserve
  <2> QED  BY <1>0, <1>c, <1>d, <1>e, <1>f, <2>1, JobKeep
<1>5. CASE Phase1(p)
  <2>1. lvl'[p] \in 1 .. n /\ todo'[p] = todo[p] /\ clue'[p] = clue[p] /\ pc[p] = "cmt10"
        /\ ((rem'[p] = rem[p] \ {Cse(p)} /\ pc'[p] = IF rem'[p] = {} THEN "cmt12" ELSE "cmt10")
            \/ (pc'[p] = "cmt10w" /\ rem'[p] = rem[p]))
    BY <1>5, <1>a, <1>b DEF Phase1, NextCse
  <2> QED  BY <1>0, <1>c, <1>d, <1>e, <1>f, <2>1, JobKeep
<1>6. CASE Phase1Wait(p)
  <2>1. lvl'[p] \in 1 .. n /\ todo'[p] = todo[p] /\ clue'[p] = clue[p] /\ pc[p] = "cmt10w"
        /\ rem'[p] = rem[p] \ {Cse(p)} /\ pc'[p] = IF rem'[p] = {} THEN "cmt12" ELSE "cmt10"
    BY <1>6, <1>a, <1>b DEF Phase1Wait, NextCse
  <2> QED  BY <1>0, <1>c, <1>d, <1>e, <1>f, <2>1, JobKeep
<1>7. CASE IncrementTn(p)
  <2>1. lvl'[p] \in 1 .. n /\ todo'[p] = todo[p] /\ clue'[p] = clue[p] /\ pc[p] = "cmt12" /\ pc'[p] = "cmt16" /\ rem'[p] = Upd(p)
    BY <1>7, <1>a, <1>b DEF IncrementTn
  <2> QED  BY <1>0, <1>c, <1>d, <1>e, <1>f, <2>1, JobKeep
<1>8. CASE WriteJnl(p)
  <2>1. lvl'[p] \in 1 .. n /\ todo'[p] = todo[p] /\ clue'[p] = clue[p] /\ pc[p] = "cmt16" /\ pc'[p] = "cmt18a" /\ rem'[p] = rem[p]
    BY <1>8, <1>a, <1>b DEF WriteJnl
  <2> QED  BY <1>0, <1>c, <1>d, <1>e, <1>f, <2>1, JobKeep
<1>9. CASE BuildStart(p)
  <2>1. lvl'[p] \in 1 .. n /\ todo'[p] = todo[p] /\ clue'[p] = clue[p] /\ pc[p] = "cmt18a" /\ pc'[p] = "cmt18b" /\ rem'[p] = rem[p]
    BY <1>9, <1>a, <1>b DEF BuildStart
  <2> QED  BY <1>0, <1>c, <1>d, <1>e, <1>f, <2>1, JobKeep
<1>10. CASE BuildEnd(p)
  <2>1. lvl'[p] \in 1 .. n /\ todo'[p] = todo[p] /\ clue'[p] = clue[p] /\ pc[p] = "cmt18b" /\ pc'[p] = "cmt18c" /\ rem'[p] = rem[p]
    BY <1>10, <1>a, <1>b DEF BuildEnd
  <2> QED  BY <1>0, <1>c, <1>d, <1>e, <1>f, <2>1, JobKeep
<1>11. CASE Release(p)
  <2>1. lvl'[p] \in 1 .. n /\ todo'[p] = todo[p] /\ clue'[p] = clue[p] /\ pc[p] = "cmt18c" /\ pc'[p] = "cmt18d" /\ rem'[p] = rem[p]
    BY <1>11, <1>a, <1>b DEF Release
  <2> QED  BY <1>0, <1>c, <1>d, <1>e, <1>f, <2>1, JobKeep
<1>12. CASE ResetInTend(p)
  <2>1. pc[p] = "cmt18d" /\ lvl'[p] \in 1 .. n /\ rem'[p] = rem[p] \ {Cse(p)}
        /\ pc'[p] = IF rem'[p] = {} THEN "idle" ELSE "cmt18a"
    BY <1>12, <1>a, <1>b DEF ResetInTend, NextCse
  <2>2. CASE rem'[p] = {}
    <3>1. todo'[p] = Tail(todo[p]) /\ pc'[p] = "idle"  BY <1>12, <1>b, <2>1, <2>2 DEF ResetInTend
    <3>2. todo[p] # << >>  BY <2>1 DEF JobInv, JobFor
    <3> QED  BY <1>0, <3>1, <3>2, JobDone
  <2>3. CASE rem'[p] # {}
    <3>1. todo'[p] = todo[p] /\ clue'[p] = clue[p]  BY <1>12, <2>3 DEF ResetInTend
    <3> QED  BY <1>0, <1>c, <1>d, <2>1, <2>3, <3>1, JobKeep
  <2> QED  BY <2>2, <2>3
<1>13. CASE Halt(p)
  <2>1. todo'[p] = todo[p] /\ pc'[p] = "gone"  BY <1>13, <1>b DEF Halt
  <2>2. JobFor(p)'  BY <2>1 DEF JobInv, JobFor
  <2> QED  BY <1>0, <2>2, JobStep
<1> QED  BY <1>1, <1>2, <1>3, <1>4, <1>5, <1>6, <1>7, <1>8, <1>9, <1>10, <1>11, <1>12, <1>13 DEF Commit

-----------------------------------------------------------------------------
(* Who is in crit *)

LEMMA CritStep ==
  ASSUME CritInv, NEW p, Others(p), crit' = crit \/ crit \in {NoProc, p}, p \in Proc => CritFor(p)'
  PROVE  CritInv'
<1> SUFFICES ASSUME NEW q \in Proc  PROVE CritFor(q)'  BY DEF CritInv
<1>1. CASE q # p
  <2>1. pc'[q] = pc[q] /\ tries'[q] = tries[q]  BY <1>1 DEF Others
  <2>2. CritFor(q)  BY DEF CritInv
  <2>3. q # NoProc  BY BlockNat
  <2>4. Final(q)' = Final(q)  BY <2>1 DEF Final
  <2> QED  BY <1>1, <2>1, <2>2, <2>3, <2>4 DEF CritFor
<1> QED  BY <1>1

LEMMA CritSearch ==
  ASSUME Types, CritInv, NEW p \in Proc, Search(p)
  PROVE  CritInv'
<1> USE DEF txnvars, cmtvars, Go
<1>0. Others(p)  BY OthersSearch
<1>a. pc \in [Proc -> PC] /\ tries \in [Proc -> 0 .. CDB_STAGNATE]  BY DEF Types, ProcTypes
<1>b. CritFor(p)  BY DEF CritInv
<1>c. CDB_STAGNATE \in Nat \ {0}  BY DatabaseAssumption
<1> USE DEF Reading, AtEnd, InCommit, CritFor, Final
<1>1. CASE Begin(p)
  <2>1. crit' = crit \/ crit \in {NoProc, p}  BY <1>1, <1>b DEF Begin
  <2>2. CritFor(p)'  BY <1>1, <1>a, <1>b, <1>c DEF Begin
  <2> QED  BY <1>0, <2>1, <2>2, CritStep
<1>2. CASE CheckClue(p)
  <2>1. crit' = crit \/ crit \in {NoProc, p}  BY <1>2, <1>b DEF CheckClue
  <2>2. CritFor(p)'  BY <1>2, <1>a, <1>b, <1>c DEF CheckClue
  <2> QED  BY <1>0, <2>1, <2>2, CritStep
<1>3. CASE NoteTn(p)
  <2>1. crit' = crit \/ crit \in {NoProc, p}  BY <1>3, <1>b DEF NoteTn
  <2>2. CritFor(p)'  BY <1>3, <1>a, <1>b, <1>c DEF NoteTn
  <2> QED  BY <1>0, <2>1, <2>2, CritStep
<1>4. CASE Find(p)
  <2>1. crit' = crit \/ crit \in {NoProc, p}  BY <1>4, <1>b DEF Find
  <2>2. CritFor(p)'  BY <1>4, <1>a, <1>b, <1>c DEF Find
  <2> QED  BY <1>0, <2>1, <2>2, CritStep
<1>5. CASE Miss(p)
  <2>1. crit' = crit \/ crit \in {NoProc, p}  BY <1>5, <1>b DEF Miss
  <2>2. CritFor(p)'  BY <1>5, <1>a, <1>b, <1>c DEF Miss
  <2> QED  BY <1>0, <2>1, <2>2, CritStep
<1>6. CASE GetBuffer(p)
  <2>1. crit' = crit \/ crit \in {NoProc, p}  BY <1>6, <1>b DEF GetBuffer
  <2>2. CritFor(p)'  BY <1>6, <1>a, <1>b, <1>c DEF GetBuffer
  <2> QED  BY <1>0, <2>1, <2>2, CritStep
<1>7. CASE DskRead(p)
  <2>1. crit' = crit \/ crit \in {NoProc, p}  BY <1>7, <1>b DEF DskRead
  <2>2. CritFor(p)'  BY <1>7, <1>a, <1>b, <1>c DEF DskRead
  <2> QED  BY <1>0, <2>1, <2>2, CritStep
<1>8. CASE NoteCycle(p)
  <2>1. crit' = crit \/ crit \in {NoProc, p}  BY <1>8, <1>b DEF NoteCycle
  <2>2. CritFor(p)'  BY <1>8, <1>a, <1>b, <1>c DEF NoteCycle
  <2> QED  BY <1>0, <2>1, <2>2, CritStep
<1>9. CASE WaitRead(p)
  <2>1. crit' = crit \/ crit \in {NoProc, p}  BY <1>9, <1>b DEF WaitRead
  <2>2. CritFor(p)'  BY <1>9, <1>a, <1>b, <1>c DEF WaitRead
  <2> QED  BY <1>0, <2>1, <2>2, CritStep
<1>10. CASE WaitInTend(p)
  <2>1. crit' = crit \/ crit \in {NoProc, p}  BY <1>10, <1>b DEF WaitInTend
  <2>2. CritFor(p)'  BY <1>10, <1>a, <1>b, <1>c DEF WaitInTend
  <2> QED  BY <1>0, <2>1, <2>2, CritStep
<1>11. CASE Look(p)
  <2>1. crit' = crit \/ crit \in {NoProc, p}  BY <1>11, <1>b DEF Look
  <2>2. CritFor(p)'  BY <1>11, <1>a, <1>b, <1>c DEF Look
  <2> QED  BY <1>0, <2>1, <2>2, CritStep
<1> QED  BY <1>1, <1>2, <1>3, <1>4, <1>5, <1>6, <1>7, <1>8, <1>9, <1>10, <1>11 DEF Search

LEMMA CritTEnd ==
  ASSUME Types, CritInv, NEW p \in Proc, TEnd(p)
  PROVE  CritInv'
<1> USE DEF txnvars, cmtvars, Go
<1>0. Others(p)  BY OthersTEnd
<1>a. pc \in [Proc -> PC] /\ tries \in [Proc -> 0 .. CDB_STAGNATE]  BY DEF Types, ProcTypes
<1>b. CritFor(p)  BY DEF CritInv
<1>c. CDB_STAGNATE \in Nat \ {0}  BY DatabaseAssumption
<1> USE DEF Reading, AtEnd, InCommit, CritFor, Final
<1>1. CASE ReadOnlyEnd(p)
  <2>1. crit' = crit \/ crit \in {NoProc, p}  BY <1>1, <1>b DEF ReadOnlyEnd
  <2>2. CritFor(p)'  BY <1>1, <1>a, <1>b, <1>c DEF ReadOnlyEnd
  <2> QED  BY <1>0, <2>1, <2>2, CritStep
<1>2. CASE CheckTn(p)
  <2>1. crit' = crit \/ crit \in {NoProc, p}  BY <1>2, <1>b DEF CheckTn, Fail
  <2>2. CritFor(p)'  BY <1>2, <1>a, <1>b, <1>c DEF CheckTn, Fail
  <2> QED  BY <1>0, <2>1, <2>2, CritStep
<1>3. CASE CheckCycle(p)
  <2>1. crit' = crit \/ crit \in {NoProc, p}  BY <1>3, <1>b DEF CheckCycle, Fail
  <2>2. CritFor(p)'  BY <1>3, <1>a, <1>b, <1>c DEF CheckCycle, Fail
  <2> QED  BY <1>0, <2>1, <2>2, CritStep
<1>4. CASE ReadOnlyDone(p)
  <2>1. crit' = crit \/ crit \in {NoProc, p}  BY <1>4, <1>b DEF ReadOnlyDone
  <2>2. CritFor(p)'  BY <1>4, <1>a, <1>b, <1>c DEF ReadOnlyDone
  <2> QED  BY <1>0, <2>1, <2>2, CritStep
<1>5. CASE Retry(p)
  <2>1. crit' = crit \/ crit \in {NoProc, p}  BY <1>5, <1>b DEF Retry
  <2>2. CritFor(p)'  BY <1>5, <1>a, <1>b, <1>c DEF Retry
  <2> QED  BY <1>0, <2>1, <2>2, CritStep
<1>6. CASE GrabCrit(p)
  <2>1. crit' = crit \/ crit \in {NoProc, p}  BY <1>6, <1>b DEF GrabCrit
  <2>2. CritFor(p)'  BY <1>6, <1>a, <1>b, <1>c DEF GrabCrit
  <2> QED  BY <1>0, <2>1, <2>2, CritStep
<1>7. CASE Validate(p)
  <2>1. crit' = crit \/ crit \in {NoProc, p}  BY <1>7, <1>b DEF Validate, Fail
  <2>2. CritFor(p)'  BY <1>7, <1>a, <1>b, <1>c DEF Validate, Fail
  <2> QED  BY <1>0, <2>1, <2>2, CritStep
<1> QED  BY <1>1, <1>2, <1>3, <1>4, <1>5, <1>6, <1>7 DEF TEnd

LEMMA CritCommit ==
  ASSUME Types, CritInv, NEW p \in Proc, Commit(p)
  PROVE  CritInv'
<1> USE DEF txnvars, cmtvars, Go
<1>0. Others(p)  BY OthersCommit
<1>a. pc \in [Proc -> PC] /\ tries \in [Proc -> 0 .. CDB_STAGNATE]  BY DEF Types, ProcTypes
<1>b. CritFor(p)  BY DEF CritInv
<1>c. CDB_STAGNATE \in Nat \ {0}  BY DatabaseAssumption
<1> USE DEF Reading, AtEnd, InCommit, CritFor, Final
<1>1. CASE CheckEpoch(p)
  <2>1. crit' = crit \/ crit \in {NoProc, p}  BY <1>1, <1>b DEF CheckEpoch
  <2>2. CritFor(p)'  BY <1>1, <1>a, <1>b, <1>c DEF CheckEpoch
  <2> QED  BY <1>0, <2>1, <2>2, CritStep
<1>2. CASE FlushJnl(p)
  <2>1. crit' = crit \/ crit \in {NoProc, p}  BY <1>2, <1>b DEF FlushJnl
  <2>2. CritFor(p)'  BY <1>2, <1>a, <1>b, <1>c DEF FlushJnl
  <2> QED  BY <1>0, <2>1, <2>2, CritStep
<1>3. CASE WriteEpoch(p)
  <2>1. crit' = crit \/ crit \in {NoProc, p}  BY <1>3, <1>b DEF WriteEpoch
  <2>2. CritFor(p)'  BY <1>3, <1>a, <1>b, <1>c DEF WriteEpoch
  <2> QED  BY <1>0, <2>1, <2>2, CritStep
<1>4. CASE Reserve(p)
  <2>1. crit' = crit \/ crit \in {NoProc, p}  BY <1>4, <1>b DEF Reserve
  <2>2. CritFor(p)'  BY <1>4, <1>a, <1>b, <1>c DEF Reserve
  <2> QED  BY <1>0, <2>1, <2>2, CritStep
<1>5. CASE Phase1(p)
  <2>1. crit' = crit \/ crit \in {NoProc, p}  BY <1>5, <1>b DEF Phase1, NextCse
  <2>2. CritFor(p)'  BY <1>5, <1>a, <1>b, <1>c DEF Phase1, NextCse
  <2> QED  BY <1>0, <2>1, <2>2, CritStep
<1>6. CASE Phase1Wait(p)
  <2>1. crit' = crit \/ crit \in {NoProc, p}  BY <1>6, <1>b DEF Phase1Wait, NextCse
  <2>2. CritFor(p)'  BY <1>6, <1>a, <1>b, <1>c DEF Phase1Wait, NextCse
  <2> QED  BY <1>0, <2>1, <2>2, CritStep
<1>7. CASE IncrementTn(p)
  <2>1. crit' = crit \/ crit \in {NoProc, p}  BY <1>7, <1>b DEF IncrementTn
  <2>2. CritFor(p)'  BY <1>7, <1>a, <1>b, <1>c DEF IncrementTn
  <2> QED  BY <1>0, <2>1, <2>2, CritStep
<1>8. CASE WriteJnl(p)
  <2>1. crit' = crit \/ crit \in {NoProc, p}  BY <1>8, <1>b DEF WriteJnl
  <2>2. CritFor(p)'  BY <1>8, <1>a, <1>b, <1>c DEF WriteJnl
  <2> QED  BY <1>0, <2>1, <2>2, CritStep
<1>9. CASE BuildStart(p)
  <2>1. crit' = crit \/ crit \in {NoProc, p}  BY <1>9, <1>b DEF BuildStart
  <2>2. CritFor(p)'  BY <1>9, <1>a, <1>b, <1>c DEF BuildStart
  <2> QED  BY <1>0, <2>1, <2>2, CritStep
<1>10. CASE BuildEnd(p)
  <2>1. crit' = crit \/ crit \in {NoProc, p}  BY <1>10, <1>b DEF BuildEnd
  <2>2. CritFor(p)'  BY <1>10, <1>a, <1>b, <1>c DEF BuildEnd
  <2> QED  BY <1>0, <2>1, <2>2, CritStep
<1>11. CASE Release(p)
  <2>1. crit' = crit \/ crit \in {NoProc, p}  BY <1>11, <1>b DEF Release
  <2>2. CritFor(p)'  BY <1>11, <1>a, <1>b, <1>c DEF Release
  <2> QED  BY <1>0, <2>1, <2>2, CritStep
<1>12. CASE ResetInTend(p)
  <2>1. crit' = crit \/ crit \in {NoProc, p}  BY <1>12, <1>b DEF ResetInTend, NextCse
  <2>2. CritFor(p)'  BY <1>12, <1>a, <1>b, <1>c DEF ResetInTend, NextCse
  <2> QED  BY <1>0, <2>1, <2>2, CritStep
<1>13. CASE Halt(p)
  <2>1. crit' = crit \/ crit \in {NoProc, p}  BY <1>13, <1>b DEF Halt
  <2>2. CritFor(p)'  BY <1>13, <1>a, <1>b, <1>c DEF Halt
  <2> QED  BY <1>0, <2>1, <2>2, CritStep
<1> QED  BY <1>1, <1>2, <1>3, <1>4, <1>5, <1>6, <1>7, <1>8, <1>9, <1>10, <1>11, <1>12, <1>13 DEF Commit

LEMMA CritRest ==
  ASSUME CritInv, (\E w \in Writer : WtStep(w)) \/ JnlQio
  PROVE  CritInv'
<1>1. Others(NoProc)  BY OthersWriter
<1>2. crit' = crit  BY DEF WtStep, WtStart, WtLock, WtWrite, WtRelease, JnlQio
<1> QED  BY <1>1, <1>2, CritStep, BlockNat

-----------------------------------------------------------------------------
(* The transaction numbers and the journal records of open transactions *)

(* A step that neither adds records nor writes them nor moves the transaction numbers. *)
Steady(p) ==
  /\ jnl' = jnl /\ curr_tn' = curr_tn /\ early_tn' = early_tn /\ Others(p)
  /\ p \in Proc => /\ pc'[p] \in Early <=> pc[p] \in Early
                   /\ pc'[p] \in Phase2 => pc[p] \in Phase2
                   /\ pc'[p] = "cmt16" <=> pc[p] = "cmt16"
                   /\ pc'[p] \in Early \cup Phase2 => ctn'[p] = ctn[p] /\ Upd(p)' = Upd(p)

LEMMA TnSteady ==
  ASSUME Types, TnInv, NEW p, Steady(p)
  PROVE  TnInv'
<1>1. \A q \in Proc \ {p} : pc'[q] = pc[q] /\ ctn'[q] = ctn[q] /\ Upd(q)' = Upd(q)
  BY DEF Steady, Others, Upd
<1>2. \A q \in Proc : /\ pc'[q] \in Early <=> pc[q] \in Early
                      /\ pc'[q] \in Phase2 => pc[q] \in Phase2
                      /\ pc'[q] \in Early \cup Phase2 => ctn'[q] = ctn[q] /\ Upd(q)' = Upd(q)
  BY <1>1 DEF Steady
<1>3. jnl' = jnl /\ curr_tn' = curr_tn /\ early_tn' = early_tn  BY DEF Steady
<1>4. ASSUME NEW q \in Proc
      PROVE  /\ pc'[q] \in Early => early_tn' = curr_tn' + 1 /\ ctn'[q] = curr_tn'
             /\ pc'[q] \in Phase2 => ctn'[q] < curr_tn' /\ ctn'[q] > 0
             /\ pc'[q] \in Early => \E i \in 1 .. Len(jnl') : /\ jnl'[i].type = "set" /\ jnl'[i].tn = curr_tn'
                                                           /\ jnl'[i].blks = Upd(q)'
  BY <1>2, <1>3 DEF TnInv
<1>5. ASSUME NEW i \in 1 .. Len(jnl'), jnl'[i].type = "set", jnl'[i].tn = curr_tn'
      PROVE  \E q \in Proc : pc'[q] \in Early /\ jnl'[i].blks = Upd(q)'
  <2>1. PICK q \in Proc : pc[q] \in Early /\ jnl[i].blks = Upd(q)  BY <1>3, <1>5 DEF TnInv
  <2> QED  BY <1>2, <1>3, <2>1
<1>6. early_tn' \in {curr_tn', curr_tn' + 1} /\ \A i \in 1 .. Len(jnl') : jnl'[i].tn <= curr_tn'
  BY <1>3 DEF TnInv
<1> QED  BY <1>4, <1>5, <1>6 DEF TnInv

LEMMA OpenSteady ==
  ASSUME Types, OpenInv, NEW p, Steady(p)
  PROVE  OpenInv'
<1>1. \A q \in Proc \ {p} : pc'[q] = pc[q] /\ ctn'[q] = ctn[q] /\ Upd(q)' = Upd(q)
  BY DEF Steady, Others, Upd
<1>2. \A q \in Proc : /\ pc'[q] \in Early \cup {"cmt16"} <=> pc[q] \in Early \cup {"cmt16"}
                      /\ pc'[q] \in Early \cup {"cmt16"} => ctn'[q] = ctn[q] /\ Upd(q)' = Upd(q)
  BY <1>1 DEF Steady, Phase2
<1>3. jnl' = jnl  BY DEF Steady
<1>4. ASSUME NEW i \in 1 .. Len(jnl), NEW q \in Proc, ~jnl[i].written, jnl[i].by = q
      PROVE  /\ pc'[q] \in Early \cup {"cmt16"} /\ jnl[i].tn = ctn'[q]
             /\ jnl[i].type = "pblk" => \E b \in Upd(q)' : jnl[i].blks = {b}
  <2>1. pc[q] \in Early \cup {"cmt16"} /\ jnl[i].tn = ctn[q]
        /\ (jnl[i].type = "pblk" => \E b \in Upd(q) : jnl[i].blks = {b})
    BY <1>4 DEF OpenInv
  <2>2. jnl[i].tn = ctn'[q] /\ pc'[q] \in Early \cup {"cmt16"} /\ Upd(q)' = Upd(q)  BY <1>2, <2>1
  <2> QED  BY <2>1, <2>2
<1> QED  BY <1>3, <1>4 DEF OpenInv

LEMMA SteadySearch ==
  ASSUME Types, NEW p \in Proc, Search(p)
  PROVE  Steady(p)
<1> USE DEF txnvars, cmtvars, jnlvars, tnvars, Go, Early, Phase2
<1>0. Others(p)  BY OthersSearch
<1>a. pc \in [Proc -> PC] /\ rem \in [Proc -> SUBSET Block]  BY DEF Types, ProcTypes
<1>1. CASE Begin(p)  BY <1>0, <1>a, <1>1 DEF Begin, Upd, Steady
<1>2. CASE CheckClue(p)  BY <1>0, <1>a, <1>2 DEF CheckClue, Upd, Steady
<1>3. CASE NoteTn(p)  BY <1>0, <1>a, <1>3 DEF NoteTn, Upd, Steady
<1>4. CASE Find(p)  BY <1>0, <1>a, <1>4 DEF Find, Upd, Steady
<1>5. CASE Miss(p)  BY <1>0, <1>a, <1>5 DEF Miss, Upd, Steady
<1>6. CASE GetBuffer(p)  BY <1>0, <1>a, <1>6 DEF GetBuffer, Upd, Steady
<1>7. CASE DskRead(p)  BY <1>0, <1>a, <1>7 DEF DskRead, Upd, Steady
<1>8. CASE NoteCycle(p)  BY <1>0, <1>a, <1>8 DEF NoteCycle, Upd, Steady
<1>9. CASE WaitRead(p)  BY <1>0, <1>a, <1>9 DEF WaitRead, Upd, Steady
<1>10. CASE WaitInTend(p)  BY <1>0, <1>a, <1>10 DEF WaitInTend, Upd, Steady
<1>11. CASE Look(p)  BY <1>0, <1>a, <1>11 DEF Look, Upd, Steady
<1> QED  BY <1>1, <1>2, <1>3, <1>4, <1>5, <1>6, <1>7, <1>8, <1>9, <1>10, <1>11 DEF Search

LEMMA SteadyTEnd ==
  ASSUME Types, NEW p \in Proc, TEnd(p)
  PROVE  Steady(p)
<1> USE DEF txnvars, cmtvars, jnlvars, tnvars, Go, Early, Phase2
<1>0. Others(p)  BY OthersTEnd
<1>a. pc \in [Proc -> PC] /\ rem \in [Proc -> SUBSET Block]  BY DEF Types, ProcTypes
<1>1. CASE ReadOnlyEnd(p)  BY <1>0, <1>a, <1>1 DEF ReadOnlyEnd, Upd, Steady
<1>2. CASE CheckTn(p)  BY <1>0, <1>a, <1>2 DEF CheckTn, Fail, Upd, Steady
<1>3. CASE CheckCycle(p)  BY <1>0, <1>a, <1>3 DEF CheckCycle, Fail, Upd, Steady
<1>4. CASE ReadOnlyDone(p)  BY <1>0, <1>a, <1>4 DEF ReadOnlyDone, Upd, Steady
<1>5. CASE Retry(p)  BY <1>0, <1>a, <1>5 DEF Retry, Upd, Steady
<1>6. CASE GrabCrit(p)  BY <1>0, <1>a, <1>6 DEF GrabCrit, Upd, Steady
<1>7. CASE Validate(p)  BY <1>0, <1>a, <1>7 DEF Validate, Fail, Upd, Steady
<1> QED  BY <1>1, <1>2, <1>3, <1>4, <1>5, <1>6, <1>7 DEF TEnd

(* The steps of a commit that are not steady. *)
LogStep(p) == WriteEpoch(p) \/ Reserve(p) \/ IncrementTn(p) \/ WriteJnl(p)

LEMMA SteadyCommit ==
  ASSUME Types, NEW p \in Proc, Commit(p)
  PROVE  Steady(p) \/ LogStep(p)
<1> USE DEF txnvars, cmtvars, jnlvars, tnvars, Go, Early, Phase2
<1>0. Others(p)  BY OthersCommit
<1>a. pc \in [Proc -> PC] /\ rem \in [Proc -> SUBSET Block]  BY DEF Types, ProcTypes
<1>1. CASE CheckEpoch(p)  BY <1>0, <1>a, <1>1 DEF CheckEpoch, Upd, Steady
<1>2. CASE FlushJnl(p)  BY <1>0, <1>a, <1>2 DEF FlushJnl, JnlOutput, Upd, Steady
<1>5. CASE Phase1(p)  BY <1>0, <1>a, <1>5 DEF Phase1, NextCse, Upd, Steady
<1>6. CASE Phase1Wait(p)  BY <1>0, <1>a, <1>6 DEF Phase1Wait, NextCse, Upd, Steady
<1>9. CASE BuildStart(p)  BY <1>0, <1>a, <1>9 DEF BuildStart, Upd, Steady
<1>10. CASE BuildEnd(p)  BY <1>0, <1>a, <1>10 DEF BuildEnd, Upd, Steady
<1>11. CASE Release(p)  BY <1>0, <1>a, <1>11 DEF Release, Upd, Steady
<1>12. CASE ResetInTend(p)  BY <1>0, <1>a, <1>12 DEF ResetInTend, NextCse, Upd, Steady
<1>13. CASE Halt(p)  BY <1>0, <1>a, <1>13 DEF Halt, Upd, Steady
<1> QED  BY <1>1, <1>2, <1>5, <1>6, <1>9, <1>10, <1>11, <1>12, <1>13 DEF Commit, LogStep

LEMMA SteadyRest ==
  ASSUME (\E w \in Writer : WtStep(w)) \/ JnlQio
  PROVE  Steady(NoProc)
<1>1. Others(NoProc)  BY OthersWriter
<1>2. jnl' = jnl /\ curr_tn' = curr_tn /\ early_tn' = early_tn
  BY DEF WtStep, WtStart, WtLock, WtWrite, WtRelease, JnlQio, tnvars, jnlvars
<1> QED  BY <1>1, <1>2, BlockNat DEF Steady

LEMMA OneCommit ==
  ASSUME CritInv, NEW p \in Proc, NEW q \in Proc, pc[p] \in InCommit, pc[q] \in InCommit
  PROVE  p = q
BY DEF CritInv, CritFor

EpochRec(p) == [type |-> "epoch", by |-> p, blks |-> {}, tn |-> curr_tn, image |-> Nothing, written |-> TRUE]

(* What each step of the log does to the records *)
LEMMA WriteEpochIs ==
  ASSUME Types, NEW p \in Proc, WriteEpoch(p)
  PROVE  \/ jnl' = jnl /\ epoch_tn' = epoch_tn /\ need_db_fsync' = need_db_fsync /\ EpochCurrent
         \/ /\ Len(jnl') = Len(jnl) + 1 /\ Len(jnl) \in Nat
            /\ \A i \in 1 .. Len(jnl) : jnl'[i] = jnl[i]
            /\ jnl'[Len(jnl) + 1] = EpochRec(p)
            /\ epoch_tn' = curr_tn /\ need_db_fsync' = TRUE
<1>1. jnl \in Seq(JnlRec)  BY DEF Types, JnlTypes
<1>2. CASE EpochCurrent  BY <1>2 DEF WriteEpoch
<1>3. CASE ~EpochCurrent
  <2>1. PICK e : e = EpochRec(p)  OBVIOUS
  <2>2. jnl' = Append(jnl, e) /\ epoch_tn' = curr_tn /\ need_db_fsync' = TRUE
    BY <1>3, <2>1 DEF WriteEpoch, EpochRec
  <2>3. e \in JnlRec  BY <2>1 DEF EpochRec, JnlRec, Contents, Nothing, Types, FileTypes
  <2>4. /\ Len(jnl') = Len(jnl) + 1 /\ Len(jnl) \in Nat /\ (\A i \in 1 .. Len(jnl) : jnl'[i] = jnl[i])
        /\ jnl'[Len(jnl) + 1] = e
    BY <1>1, <2>2, <2>3
  <2> QED  BY <2>1, <2>2, <2>4
<1> QED  BY <1>2, <1>3

LEMMA WriteJnlIs ==
  ASSUME Types, Types', NEW p \in Proc, WriteJnl(p)
  PROVE  /\ Len(jnl') = Len(jnl) /\ Len(jnl) \in Nat
         /\ \A i \in 1 .. Len(jnl) :
              /\ jnl'[i].type = jnl[i].type /\ jnl'[i].by = jnl[i].by /\ jnl'[i].blks = jnl[i].blks
              /\ jnl'[i].tn = jnl[i].tn
              /\ jnl[i].written \/ jnl[i].by # p => jnl'[i] = jnl[i]
              /\ ~jnl[i].written /\ jnl[i].by = p =>
                   /\ jnl'[i].written
                   /\ jnl[i].type = "pblk" => jnl'[i].image = cr[The(CrOf(Max(jnl[i].blks)))].data
<1>1. Len(jnl) \in Nat  BY DEF Types, JnlTypes
<1>2. Len(jnl') = Len(jnl)
  <2>1. DOMAIN jnl' = 1 .. Len(jnl)  BY DEF WriteJnl
  <2>2. jnl' \in Seq(JnlRec)  BY DEF Types, JnlTypes, JnlRec, Contents
  <2>3. DOMAIN jnl' = 1 .. Len(jnl') /\ Len(jnl') \in Nat  BY <2>2
  <2> QED  BY <1>1, <2>1, <2>3
<1>3. ASSUME NEW i \in 1 .. Len(jnl)
      PROVE  /\ jnl'[i].type = jnl[i].type /\ jnl'[i].by = jnl[i].by /\ jnl'[i].blks = jnl[i].blks
             /\ jnl'[i].tn = jnl[i].tn
             /\ jnl[i].written \/ jnl[i].by # p => jnl'[i] = jnl[i]
             /\ ~jnl[i].written /\ jnl[i].by = p =>
                  /\ jnl'[i].written
                  /\ jnl[i].type = "pblk" => jnl'[i].image = cr[The(CrOf(Max(jnl[i].blks)))].data
  <2>1. PICK r \in JnlRec : r = jnl[i]  BY JnlFields
  <2>2. CASE r.by = p /\ ~r.written
    <3>1. PICK v : v = IF r.type = "pblk" THEN cr[The(CrOf(Max(r.blks)))].data ELSE Nothing  OBVIOUS
    <3>2. jnl'[i] = [r EXCEPT !.written = TRUE, !.image = v]  BY <2>1, <2>2, <3>1 DEF WriteJnl
    <3>3. /\ jnl'[i].type = r.type /\ jnl'[i].by = r.by /\ jnl'[i].blks = r.blks /\ jnl'[i].tn = r.tn
          /\ jnl'[i].written /\ jnl'[i].image = v
      BY <3>2 DEF JnlRec
    <3> QED  BY <2>1, <2>2, <3>1, <3>3
  <2>3. CASE r.by # p \/ r.written
    <3>1. jnl'[i] = r  BY <2>1, <2>3 DEF WriteJnl
    <3> QED  BY <2>1, <2>3, <3>1
  <2> QED  BY <2>2, <2>3
<1> QED  BY <1>1, <1>2, <1>3

(* A step of the log keeps what the records say, and gives new ones the current tn. *)
LEMMA LogGrows ==
  ASSUME Types, Types', JobInv, NEW p \in Proc, LogStep(p)
  PROVE  /\ Len(jnl) \in Nat /\ Len(jnl') \in Nat /\ Len(jnl) <= Len(jnl')
         /\ \A i \in 1 .. Len(jnl) : jnl'[i].tn = jnl[i].tn /\ jnl'[i].type = jnl[i].type
                                     /\ jnl'[i].blks = jnl[i].blks /\ jnl'[i].by = jnl[i].by
         /\ \A i \in Len(jnl) + 1 .. Len(jnl') : jnl'[i].tn = curr_tn
<1>0. Len(jnl) \in Nat  BY DEF Types, JnlTypes
<1>1. CASE WriteEpoch(p)
  <2>1. CASE jnl' = jnl  BY <1>0, <2>1
  <2>2. CASE /\ Len(jnl') = Len(jnl) + 1 /\ (\A i \in 1 .. Len(jnl) : jnl'[i] = jnl[i])
             /\ jnl'[Len(jnl) + 1] = EpochRec(p)
    <3>1. jnl'[Len(jnl) + 1].tn = curr_tn  BY <2>2 DEF EpochRec
    <3> QED  BY <1>0, <2>2, <3>1
  <2> QED  BY <1>1, <2>1, <2>2, WriteEpochIs
<1>2. CASE Reserve(p)
  <2>1. PICK m \in Nat : m = Len(jnl)  BY <1>0
  <2>2. PICK n \in Nat, f \in Seq(Block) : Reserved(p, m, n, f)  BY <1>2, <2>1, ReserveIs
  <2>3. Len(jnl') = m + n + 1 /\ \A i \in 1 .. m : jnl'[i] = jnl[i]  BY <2>2 DEF Reserved
  <2>4. \A i \in m + 1 .. m + n + 1 : jnl'[i].tn = curr_tn
    <3> TAKE i \in m + 1 .. m + n + 1
    <3>1. CASE i \in m + 1 .. m + n  
      <4>1. jnl'[i] = Unwritten(p, "pblk", {f[i - m]})  BY <2>2, <3>1 DEF Reserved
      <4> QED  BY <4>1 DEF Unwritten
    <3>2. CASE i = m + n + 1  BY <2>2, <3>2 DEF Reserved, Unwritten
    <3> QED  BY <3>1, <3>2
  <2> QED  BY <2>1, <2>3, <2>4
<1>3. CASE IncrementTn(p)  BY <1>0, <1>3 DEF IncrementTn, jnlvars
<1>4. CASE WriteJnl(p)  BY <1>0, <1>4, WriteJnlIs
<1> QED  BY <1>1, <1>2, <1>3, <1>4 DEF LogStep

LEMMA LogVersions ==
  ASSUME Types, Types', JobInv, NEW p \in Proc, LogStep(p)
  PROVE  SameVersions
BY LogGrows, JnlGrows

(* The versions of the blocks after the end of a commit *)
LEMMA CommitVersions ==
  ASSUME Types, JobInv, TnInv, CritInv, NEW p \in Proc, IncrementTn(p), NEW b \in Block
  PROVE  Ver(b)' = IF b \in Upd(p) THEN [blk |-> b, tn |-> curr_tn] ELSE Ver(b)
<1>1. jnl' = jnl /\ curr_tn' = curr_tn + 1 /\ pc[p] = "cmt12" /\ curr_tn \in Nat
  BY DEF IncrementTn, jnlvars, Types, FileTypes
<1>2. Ver(b)' = VersionAt(b, curr_tn + 1)  BY <1>1, JnlSame DEF Ver, VersionAt, LastSet
<1>3. PICK i \in 1 .. Len(jnl) : jnl[i].type = "set" /\ jnl[i].tn = curr_tn /\ jnl[i].blks = Upd(p)
  BY <1>1 DEF TnInv, Early
<1>4. \A j \in 1 .. Len(jnl) : jnl[j].tn \in Nat /\ jnl[j].tn <= curr_tn  BY JnlFields DEF TnInv
<1>5. CASE b \in Upd(p)
  <2>1. curr_tn \in SetTns(b, curr_tn + 1)  BY <1>1, <1>3, <1>5 DEF SetTns
  <2>2. \A x \in SetTns(b, curr_tn + 1) : x <= curr_tn  BY <1>4 DEF SetTns
  <2> QED  BY <1>1, <1>2, <1>5, <2>1, <2>2, VersionMax
<1>6. CASE b \notin Upd(p)
  <2>1. ASSUME NEW j \in 1 .. Len(jnl), jnl[j].type = "set", b \in jnl[j].blks
        PROVE  jnl[j].tn < curr_tn
    <3>1. SUFFICES ASSUME jnl[j].tn = curr_tn  PROVE FALSE  BY <1>1, <1>4
    <3>2. PICK q \in Proc : pc[q] \in Early /\ jnl[j].blks = Upd(q)  BY <2>1, <3>1 DEF TnInv
    <3>3. q = p  BY <1>1, <3>2, OneCommit DEF Early, InCommit
    <3> QED  BY <1>6, <2>1, <3>2, <3>3
  <2>2. SetTns(b, curr_tn + 1) = SetTns(b, curr_tn)  BY <1>1, <1>4, <2>1 DEF SetTns
  <2>3. PICK m : m = VersionAt(b, curr_tn).tn  OBVIOUS
  <2>4. m \in {0} \cup SetTns(b, curr_tn + 1) /\ \A x \in SetTns(b, curr_tn + 1) : x <= m
    BY <1>1, <2>2, <2>3, VersionIs
  <2>5. VersionAt(b, curr_tn + 1) = [blk |-> b, tn |-> m]  BY <1>1, <2>4, VersionMax
  <2> QED  BY <1>1, <1>2, <1>6, <2>3, <2>5, VersionIs DEF Ver
<1> QED  BY <1>5, <1>6

LEMMA TnLog ==
  ASSUME Types, Types', JobInv, TnInv, NEW p \in Proc, WriteEpoch(p) \/ WriteJnl(p)
  PROVE  TnInv'
<1>0. Others(p) /\ LogStep(p)  BY OthersCommit DEF Commit, LogStep
<1>1. \A q \in Proc \ {p} : pc'[q] = pc[q] /\ ctn'[q] = ctn[q] /\ Upd(q)' = Upd(q)
  BY <1>0 DEF Others, Upd
<1>2. pc[p] \notin Early /\ pc'[p] \notin Early /\ (pc'[p] \in Phase2 => pc[p] \in Phase2 /\ ctn'[p] = ctn[p])
  BY DEF WriteEpoch, WriteJnl, Types, ProcTypes, Early, Phase2, Go, cmtvars
<1>3. curr_tn' = curr_tn /\ early_tn' = early_tn  BY DEF WriteEpoch, WriteJnl, tnvars
<1>4. /\ Len(jnl) \in Nat /\ Len(jnl') \in Nat /\ Len(jnl) <= Len(jnl')
      /\ \A i \in 1 .. Len(jnl) : jnl'[i].tn = jnl[i].tn /\ jnl'[i].type = jnl[i].type
                                  /\ jnl'[i].blks = jnl[i].blks
      /\ \A i \in Len(jnl) + 1 .. Len(jnl') : jnl'[i].tn = curr_tn
  BY <1>0, LogGrows
<1>5. \A i \in Len(jnl) + 1 .. Len(jnl') : jnl'[i].type = "epoch"
  <2>1. CASE WriteEpoch(p)
    <3> TAKE i \in Len(jnl) + 1 .. Len(jnl')
    <3>1. CASE jnl' = jnl  BY <1>4, <3>1
    <3>2. CASE jnl' # jnl
      <4>1. Len(jnl') = Len(jnl) + 1 /\ jnl'[Len(jnl) + 1] = EpochRec(p)  BY <2>1, <3>2, WriteEpochIs
      <4>2. i = Len(jnl) + 1  BY <1>4, <4>1
      <4> QED  BY <4>1, <4>2 DEF EpochRec
    <3> QED  BY <3>1, <3>2
  <2>2. CASE WriteJnl(p)
    <3>1. Len(jnl') = Len(jnl)  BY <2>2, WriteJnlIs
    <3> QED  BY <1>4, <3>1
  <2> QED  BY <2>1, <2>2
<1>6. ASSUME NEW q \in Proc
      PROVE  /\ pc'[q] \in Early => early_tn' = curr_tn' + 1 /\ ctn'[q] = curr_tn'
             /\ pc'[q] \in Phase2 => ctn'[q] < curr_tn' /\ ctn'[q] > 0
  <2>1. CASE q = p  BY <1>2, <1>3, <2>1 DEF TnInv
  <2>2. CASE q # p  BY <1>1, <1>3, <2>2 DEF TnInv
  <2> QED  BY <2>1, <2>2
<1>7. ASSUME NEW q \in Proc, pc'[q] \in Early
      PROVE  \E i \in 1 .. Len(jnl') : jnl'[i].type = "set" /\ jnl'[i].tn = curr_tn' /\ jnl'[i].blks = Upd(q)'
  <2>1. q # p /\ pc[q] \in Early /\ Upd(q)' = Upd(q)  BY <1>1, <1>2, <1>7
  <2>2. PICK i \in 1 .. Len(jnl) : jnl[i].type = "set" /\ jnl[i].tn = curr_tn /\ jnl[i].blks = Upd(q)
    BY <2>1 DEF TnInv
  <2>3. i \in 1 .. Len(jnl')  BY <1>4
  <2> QED  BY <1>3, <1>4, <2>1, <2>2, <2>3
<1>8. ASSUME NEW i \in 1 .. Len(jnl')
      PROVE  /\ jnl'[i].tn <= curr_tn'
             /\ jnl'[i].type = "set" /\ jnl'[i].tn = curr_tn' =>
                  \E q \in Proc : pc'[q] \in Early /\ jnl'[i].blks = Upd(q)'
  <2>1. CASE i \in 1 .. Len(jnl)
    <3>1. jnl'[i].tn <= curr_tn'  BY <1>3, <1>4, <2>1 DEF TnInv
    <3>2. ASSUME jnl'[i].type = "set", jnl'[i].tn = curr_tn'
          PROVE  \E q \in Proc : pc'[q] \in Early /\ jnl'[i].blks = Upd(q)'
      <4>1. PICK q \in Proc : pc[q] \in Early /\ jnl[i].blks = Upd(q)  BY <1>3, <1>4, <2>1, <3>2 DEF TnInv
      <4>2. q # p  BY <1>2, <4>1
      <4> QED  BY <1>1, <1>4, <2>1, <4>1, <4>2
    <3> QED  BY <3>1, <3>2
  <2>2. CASE i \notin 1 .. Len(jnl)
    <3>1. i \in Len(jnl) + 1 .. Len(jnl')  BY <1>4, <2>2
    <3>2. jnl'[i].tn = curr_tn /\ jnl'[i].type = "epoch" /\ curr_tn \in Nat  BY <1>4, <1>5, <3>1 DEF Types, FileTypes
    <3> QED  BY <1>3, <3>2
  <2> QED  BY <2>1, <2>2
<1>9. early_tn' \in {curr_tn', curr_tn' + 1}  BY <1>3 DEF TnInv
<1> QED  BY <1>6, <1>7, <1>8, <1>9 DEF TnInv

LEMMA TnReserve ==
  ASSUME Types, Types', JobInv, CritInv, TnInv, NEW p \in Proc, Reserve(p)
  PROVE  TnInv'
<1>0. Others(p) /\ LogStep(p)  BY OthersCommit DEF Commit, LogStep
<1>1. \A q \in Proc \ {p} : pc'[q] = pc[q] /\ ctn'[q] = ctn[q] /\ Upd(q)' = Upd(q)
  BY <1>0 DEF Others, Upd
<1>2. /\ pc[p] \in InCommit /\ pc[p] \notin Early /\ pc'[p] = "cmt10" /\ ctn'[p] = curr_tn /\ Upd(p)' = Upd(p)
      /\ curr_tn' = curr_tn /\ early_tn' = curr_tn + 1 /\ curr_tn \in Nat
  BY DEF Reserve, Types, ProcTypes, FileTypes, Early, InCommit, Go, txnvars, Upd
<1>3. \A q \in Proc : pc[q] \notin Early  BY <1>2, OneCommit DEF Early, InCommit
<1>4. \A q \in Proc : pc'[q] \in Early => q = p  BY <1>1, <1>3
<1>5. PICK m \in Nat : m = Len(jnl)  BY DEF Types, JnlTypes
<1>6. PICK n \in Nat, f \in Seq(Block) : Reserved(p, m, n, f)  BY <1>5, ReserveIs
<1>7. Len(jnl') = m + n + 1 /\ jnl'[m + n + 1] = Unwritten(p, "set", Upd(p))  BY <1>6 DEF Reserved
<1>8. m + n + 1 \in 1 .. Len(jnl') /\ jnl'[m + n + 1].type = "set" /\ jnl'[m + n + 1].tn = curr_tn
      /\ jnl'[m + n + 1].blks = Upd(p)
  BY <1>7 DEF Unwritten
<1>9. \A i \in m + 1 .. m + n : jnl'[i] = Unwritten(p, "pblk", {f[i - m]})  BY <1>6 DEF Reserved
<1>10. ASSUME NEW q \in Proc
       PROVE  /\ pc'[q] \in Early => early_tn' = curr_tn' + 1 /\ ctn'[q] = curr_tn'
              /\ pc'[q] \in Phase2 => ctn'[q] < curr_tn' /\ ctn'[q] > 0
              /\ pc'[q] \in Early => \E i \in 1 .. Len(jnl') :
                   jnl'[i].type = "set" /\ jnl'[i].tn = curr_tn' /\ jnl'[i].blks = Upd(q)'
  <2>1. CASE q = p  BY <1>2, <1>8, <2>1 DEF Phase2
  <2>2. CASE q # p  BY <1>1, <1>2, <1>4, <2>2 DEF TnInv
  <2> QED  BY <2>1, <2>2
<1>11. ASSUME NEW i \in 1 .. Len(jnl')
       PROVE  /\ jnl'[i].tn <= curr_tn'
              /\ jnl'[i].type = "set" /\ jnl'[i].tn = curr_tn' =>
                   \E q \in Proc : pc'[q] \in Early /\ jnl'[i].blks = Upd(q)'
  <2>1. CASE i \in 1 .. m
    <3>1. jnl'[i] = jnl[i]  BY <1>6, <2>1 DEF Reserved
    <3>2. jnl[i].tn <= curr_tn /\ ~(jnl[i].type = "set" /\ jnl[i].tn = curr_tn)
      BY <1>3, <1>5, <2>1 DEF TnInv
    <3> QED  BY <1>2, <3>1, <3>2
  <2>2. CASE i \in m + 1 .. m + n
    <3>0. jnl'[i] = Unwritten(p, "pblk", {f[i - m]})  BY <1>9, <2>2
    <3>1. jnl'[i].tn = curr_tn /\ jnl'[i].type = "pblk"  BY <3>0 DEF Unwritten
    <3> QED  BY <1>2, <3>1
  <2>3. CASE i = m + n + 1  BY <1>2, <1>8, <2>3 DEF Early
  <2> QED  BY <1>7, <2>1, <2>2, <2>3
<1> QED  BY <1>2, <1>10, <1>11 DEF TnInv

LEMMA TnIncrement ==
  ASSUME Types, Types', JobInv, CritInv, TnInv, NEW p \in Proc, IncrementTn(p)
  PROVE  TnInv'
<1>0. Others(p)  BY OthersCommit DEF Commit
<1>1. \A q \in Proc \ {p} : pc'[q] = pc[q] /\ ctn'[q] = ctn[q] /\ Upd(q)' = Upd(q)
  BY <1>0 DEF Others, Upd
<1>2. /\ pc[p] = "cmt12" /\ pc'[p] = "cmt16" /\ ctn'[p] = ctn[p] /\ jnl' = jnl
      /\ curr_tn' = curr_tn + 1 /\ early_tn' = early_tn /\ curr_tn \in Nat \ {0}
  BY DEF IncrementTn, Types, ProcTypes, FileTypes, Go, jnlvars
<1>3. \A q \in Proc : pc[q] \in Early => q = p  BY <1>2, OneCommit DEF Early, InCommit
<1>4. \A q \in Proc : pc'[q] \notin Early  BY <1>1, <1>2, <1>3 DEF Early
<1>5. ctn[p] = curr_tn /\ early_tn = curr_tn + 1  BY <1>2 DEF TnInv, Early
<1>6. ASSUME NEW q \in Proc, pc'[q] \in Phase2  PROVE ctn'[q] < curr_tn' /\ ctn'[q] > 0
  <2>1. CASE q = p  BY <1>2, <1>5, <2>1
  <2>2. CASE q # p
    <3>1. ctn[q] < curr_tn /\ ctn[q] > 0 /\ ctn[q] \in Nat /\ ctn'[q] = ctn[q]
      BY <1>1, <1>6, <2>2 DEF TnInv, Types, ProcTypes
    <3> QED  BY <1>2, <3>1
  <2> QED  BY <2>1, <2>2
<1>7. \A i \in 1 .. Len(jnl') : jnl'[i].tn <= curr_tn' /\ jnl'[i].tn # curr_tn'
  <2> TAKE i \in 1 .. Len(jnl')
  <2>1. jnl[i].tn <= curr_tn /\ jnl[i].tn \in Nat  BY <1>2, JnlFields DEF TnInv
  <2> QED  BY <1>2, <2>1
<1> QED  BY <1>2, <1>4, <1>5, <1>6, <1>7 DEF TnInv

LEMMA OpenLog ==
  ASSUME Types, Types', JobInv, CritInv, TnInv, OpenInv, NEW p \in Proc, LogStep(p)
  PROVE  OpenInv'
<1>0. Others(p)  BY OthersCommit DEF Commit, LogStep
<1>1. \A q \in Proc \ {p} : pc'[q] = pc[q] /\ ctn'[q] = ctn[q] /\ Upd(q)' = Upd(q)
  BY <1>0 DEF Others, Upd
<1>2. todo'[p] = todo[p]  BY DEF LogStep, WriteEpoch, Reserve, IncrementTn, WriteJnl, txnvars
<1>3. Upd(p)' = Upd(p)  BY <1>2 DEF Upd
<1>4. /\ Len(jnl) \in Nat /\ Len(jnl') \in Nat /\ Len(jnl) <= Len(jnl')
      /\ \A i \in 1 .. Len(jnl) : jnl'[i].tn = jnl[i].tn /\ jnl'[i].type = jnl[i].type
                                  /\ jnl'[i].blks = jnl[i].blks /\ jnl'[i].by = jnl[i].by
  BY LogGrows
<1> SUFFICES ASSUME NEW i \in 1 .. Len(jnl'), NEW q \in Proc, ~jnl'[i].written, jnl'[i].by = q
             PROVE  /\ pc'[q] \in Early \cup {"cmt16"} /\ jnl'[i].tn = ctn'[q]
                    /\ jnl'[i].type = "pblk" => \E b \in Upd(q)' : jnl'[i].blks = {b}
  BY DEF OpenInv
<1>5. i \in 1 .. Len(jnl) => ~jnl[i].written
  <2>1. CASE WriteEpoch(p)  BY <2>1, WriteEpochIs
  <2>2. CASE Reserve(p)
    <3>1. PICK n \in Nat, f \in Seq(Block) : Reserved(p, Len(jnl), n, f)  BY <2>2, ReserveIs
    <3> QED  BY <3>1 DEF Reserved
  <2>3. CASE IncrementTn(p)  BY <2>3 DEF IncrementTn, jnlvars
  <2>4. CASE WriteJnl(p)  BY <2>4, WriteJnlIs
  <2> QED  BY <2>1, <2>2, <2>3, <2>4 DEF LogStep
<1>6. i \in 1 .. Len(jnl) => /\ pc[q] \in Early \cup {"cmt16"} /\ jnl'[i].tn = ctn[q]
                             /\ jnl'[i].type = "pblk" => \E b \in Upd(q) : jnl'[i].blks = {b}
  BY <1>4, <1>5 DEF OpenInv
<1>7. CASE i \in 1 .. Len(jnl) /\ q # p  BY <1>1, <1>6, <1>7
<1>8. CASE i \in 1 .. Len(jnl) /\ q = p
  <2>1. CASE WriteEpoch(p)  BY <1>6, <1>8, <2>1 DEF WriteEpoch, Early
  <2>2. CASE Reserve(p)  BY <1>6, <1>8, <2>2 DEF Reserve, Early
  <2>3. CASE IncrementTn(p)
    <3>1. pc'[p] = "cmt16" /\ ctn'[p] = ctn[p]  BY <2>3 DEF IncrementTn, Go, Types, ProcTypes
    <3> QED  BY <1>3, <1>6, <1>8, <3>1
  <2>4. CASE WriteJnl(p)
    <3>1. jnl[i].by = p /\ ~jnl[i].written  BY <1>4, <1>5, <1>8
    <3> QED  BY <1>8, <2>4, <3>1, WriteJnlIs
  <2> QED  BY <2>1, <2>2, <2>3, <2>4 DEF LogStep
<1>9. CASE i \notin 1 .. Len(jnl)
  <2>0. PICK m \in Nat : m = Len(jnl)  BY <1>4
  <2>1. CASE WriteEpoch(p)
    <3>1. jnl' # jnl  BY <1>9
    <3>2. Len(jnl') = m + 1 /\ jnl'[m + 1] = EpochRec(p)  BY <2>0, <2>1, <3>1, WriteEpochIs
    <3>3. i = m + 1  BY <1>9, <2>0, <3>2
    <3> QED  BY <3>2, <3>3 DEF EpochRec
  <2>2. CASE Reserve(p)
    <3>1. PICK n \in Nat, f \in Seq(Block) : Reserved(p, m, n, f)  BY <2>0, <2>2, ReserveIs
    <3>2. pc'[p] = "cmt10" /\ ctn'[p] = curr_tn  BY <2>2 DEF Reserve, Go, Types, ProcTypes
    <3>3. CASE i \in m + 1 .. m + n
      <4>1. jnl'[i] = Unwritten(p, "pblk", {f[i - m]})  BY <3>1, <3>3 DEF Reserved
      <4>2. f[i - m] \in Upd(p)
        <5>1. i - m \in 1 .. n  BY <3>3
        <5> QED  BY <3>1, <5>1 DEF Reserved, NeedPblk
      <4>3. q = p /\ jnl'[i].tn = curr_tn /\ jnl'[i].blks = {f[i - m]}  BY <4>1 DEF Unwritten
      <4> QED  BY <1>3, <3>2, <4>2, <4>3 DEF Early
    <3>4. CASE i = m + n + 1
      <4>1. jnl'[i] = Unwritten(p, "set", Upd(p))  BY <3>1, <3>4 DEF Reserved
      <4> QED  BY <3>2, <4>1 DEF Unwritten, Early
    <3>5. Len(jnl') = m + n + 1  BY <3>1 DEF Reserved
    <3> QED  BY <1>9, <2>0, <3>3, <3>4, <3>5
  <2>3. CASE IncrementTn(p)  BY <1>9, <2>3 DEF IncrementTn, jnlvars
  <2>4. CASE WriteJnl(p)  BY <1>9, <2>4, WriteJnlIs
  <2> QED  BY <2>1, <2>2, <2>3, <2>4 DEF LogStep
<1> QED  BY <1>7, <1>8, <1>9

-----------------------------------------------------------------------------
(* Steps that leave the buffers alone *)

(* The sets of blocks of the processes that do not move *)
LEMMA OtherSets ==
  ASSUME NEW p, Others(p), NEW q \in Proc \ {p}
  PROVE  /\ Tending(q)' = Tending(q) /\ Pinned(q)' = Pinned(q) /\ Locked(q)' = Locked(q)
         /\ Unbuilt(q)' = Unbuilt(q) /\ Cse(q)' = Cse(q) /\ Path(q)' = Path(q) /\ Upd(q)' = Upd(q)
         /\ Blk(q)' = Blk(q) /\ Hist(q)' = Hist(q) /\ LookSet(q)' = LookSet(q) /\ SeenSet(q)' = SeenSet(q)
         /\ Final(q)' = Final(q)
<1>1. /\ pc'[q] = pc[q] /\ lvl'[q] = lvl[q] /\ todo'[q] = todo[q] /\ rem'[q] = rem[q] /\ hist'[q] = hist[q]
      /\ clue'[q] = clue[q] /\ tries'[q] = tries[q]
  BY DEF Others
<1>2. Path(q)' = Path(q) /\ Upd(q)' = Upd(q) /\ Cse(q)' = Cse(q) /\ Final(q)' = Final(q)
  BY <1>1 DEF Path, Upd, Cse, Final
<1>3. Blk(q)' = Blk(q) /\ Prefix(q)' = Prefix(q)  BY <1>1, <1>2 DEF Blk, Prefix
<1>4. Hist(q)' = Hist(q)  BY <1>1, <1>3 DEF Hist
<1>5. Tending(q)' = Tending(q)  BY <1>1, <1>2 DEF Tending
<1>6. Pinned(q)' = Pinned(q)  BY <1>1, <1>2 DEF Pinned
<1>7. Locked(q)' = Locked(q)  BY <1>1, <1>2 DEF Locked
<1>8. Unbuilt(q)' = Unbuilt(q)  BY <1>1, <1>2, <1>7 DEF Unbuilt
<1>9. LookSet(q)' = LookSet(q)  BY <1>1, <1>2, <1>3 DEF LookSet
<1>10. SeenSet(q)' = SeenSet(q)  BY <1>1, <1>2, <1>3, <1>9 DEF SeenSet, NonLeaf
<1> QED  BY <1>2, <1>3, <1>4, <1>5, <1>6, <1>7, <1>8, <1>9, <1>10

Quiet(p) ==
  /\ cr' = cr /\ bt' = bt /\ wtr' = wtr /\ disk' = disk /\ curr_tn' = curr_tn
  /\ SameVersions /\ Others(p)
  /\ p \in Proc =>
       /\ Tending(p)' = Tending(p) /\ Pinned(p)' = Pinned(p) /\ Locked(p)' = Locked(p)
       /\ Unbuilt(p)' = Unbuilt(p)
       /\ pc[p] # "read" /\ pc'[p] # "read" /\ pc'[p] \notin {"cmt18c", "cmt18d"}
       /\ pc'[p] \in InCommit <=> pc[p] \in InCommit
       /\ pc'[p] \in Phase2 => pc[p] \in Phase2 /\ ctn'[p] = ctn[p]
       /\ pc[p] \in Early => pc'[p] \in Early
       /\ \A b \in Pinned(p) : hist'[p][b] = hist[p][b]

(* Out of a commit a process tends to no block. *)
LEMMA NoSets ==
  ASSUME NEW p, pc[p] \notin InCommit \cup Phase2
  PROVE  Tending(p) = {} /\ Pinned(p) = {} /\ Locked(p) = {} /\ Unbuilt(p) = {}
<1>1. Tending(p) = {} /\ Pinned(p) = {} /\ Locked(p) = {}
  BY DEF Tending, Pinned, Locked, InCommit, Early, Phase2
<1> QED  BY <1>1 DEF Unbuilt

LEMMA QuietOutside ==
  ASSUME NEW p \in Proc, cr' = cr, bt' = bt, wtr' = wtr, disk' = disk, curr_tn' = curr_tn, SameVersions, Others(p),
         pc[p] \notin InCommit \cup Phase2 \cup {"read"}, pc'[p] \notin InCommit \cup Phase2 \cup {"read"}
  PROVE  Quiet(p)
<1>1. Tending(p) = {} /\ Pinned(p) = {} /\ Locked(p) = {} /\ Unbuilt(p) = {}  BY NoSets
<1>2. Tending(p)' = {} /\ Pinned(p)' = {} /\ Locked(p)' = {}
  BY DEF Tending, Pinned, Locked, InCommit, Early, Phase2
<1>3. Unbuilt(p)' = {}  BY <1>2 DEF Unbuilt
<1> QED  BY <1>1, <1>2, <1>3 DEF Quiet, InCommit, Early, Phase2

(* The steps of the search, of t_end and of the commit that change buffers *)
NewBuffer(p) == GetBuffer(p) /\ CrOf(Blk(p)) = {}
Valid(p)     == Validate(p) /\ \A b \in ToSet(Path(p)) : StillValid(b, hist[p][b])
BufStep(p)   == \/ Phase1(p) \/ Phase1Wait(p) \/ IncrementTn(p) \/ BuildStart(p) \/ BuildEnd(p)
                \/ Release(p) \/ ResetInTend(p)

LEMMA QuietSearch ==
  ASSUME Types, NEW p \in Proc, Search(p)
  PROVE  Quiet(p) \/ NewBuffer(p) \/ DskRead(p)
<1> SUFFICES ASSUME ~(NewBuffer(p) \/ DskRead(p))  PROVE Quiet(p)  OBVIOUS
<1> USE DEF jnlvars, dskvars, tnvars
<1>0. Others(p)  BY OthersSearch
<1>a. pc \in [Proc -> PC]  BY DEF Types, ProcTypes
<1>b. jnl' = jnl => SameVersions  BY JnlSame
<1>1. CASE Begin(p)
  <2>1. cr' = cr /\ bt' = bt /\ wtr' = wtr /\ disk' = disk /\ curr_tn' = curr_tn /\ jnl' = jnl  BY <1>1 DEF Begin
  <2>2. pc[p] \notin InCommit \cup Phase2 \cup {"read"} /\ pc'[p] \notin InCommit \cup Phase2 \cup {"read"}
    BY <1>a, <1>1 DEF Begin, Go, InCommit, Phase2
  <2> QED  BY <1>0, <1>b, <2>1, <2>2, QuietOutside
<1>2. CASE CheckClue(p)
  <2>1. cr' = cr /\ bt' = bt /\ wtr' = wtr /\ disk' = disk /\ curr_tn' = curr_tn /\ jnl' = jnl  BY <1>2 DEF CheckClue
  <2>2. pc[p] \notin InCommit \cup Phase2 \cup {"read"} /\ pc'[p] \notin InCommit \cup Phase2 \cup {"read"}
    BY <1>a, <1>2 DEF CheckClue, Go, InCommit, Phase2
  <2> QED  BY <1>0, <1>b, <2>1, <2>2, QuietOutside
<1>3. CASE NoteTn(p)
  <2>1. cr' = cr /\ bt' = bt /\ wtr' = wtr /\ disk' = disk /\ curr_tn' = curr_tn /\ jnl' = jnl  BY <1>3 DEF NoteTn
  <2>2. pc[p] \notin InCommit \cup Phase2 \cup {"read"} /\ pc'[p] \notin InCommit \cup Phase2 \cup {"read"}
    BY <1>a, <1>3 DEF NoteTn, Go, InCommit, Phase2
  <2> QED  BY <1>0, <1>b, <2>1, <2>2, QuietOutside
<1>4. CASE Find(p)
  <2>1. cr' = cr /\ bt' = bt /\ wtr' = wtr /\ disk' = disk /\ curr_tn' = curr_tn /\ jnl' = jnl  BY <1>4 DEF Find
  <2>2. pc[p] \notin InCommit \cup Phase2 \cup {"read"} /\ pc'[p] \notin InCommit \cup Phase2 \cup {"read"}
    BY <1>a, <1>4 DEF Find, Go, InCommit, Phase2
  <2> QED  BY <1>0, <1>b, <2>1, <2>2, QuietOutside
<1>5. CASE Miss(p)
  <2>1. cr' = cr /\ bt' = bt /\ wtr' = wtr /\ disk' = disk /\ curr_tn' = curr_tn /\ jnl' = jnl  BY <1>5 DEF Miss
  <2>2. pc[p] \notin InCommit \cup Phase2 \cup {"read"} /\ pc'[p] \notin InCommit \cup Phase2 \cup {"read"}
    BY <1>a, <1>5 DEF Miss, Go, InCommit, Phase2
  <2> QED  BY <1>0, <1>b, <2>1, <2>2, QuietOutside
<1>6. CASE GetBuffer(p)
  <2>1. cr' = cr /\ bt' = bt /\ wtr' = wtr /\ disk' = disk /\ curr_tn' = curr_tn /\ jnl' = jnl  BY <1>6 DEF GetBuffer, NewBuffer
  <2>2. pc[p] \notin InCommit \cup Phase2 \cup {"read"} /\ pc'[p] \notin InCommit \cup Phase2 \cup {"read"}
    BY <1>a, <1>6 DEF GetBuffer, NewBuffer, Go, InCommit, Phase2
  <2> QED  BY <1>0, <1>b, <2>1, <2>2, QuietOutside
<1>8. CASE NoteCycle(p)
  <2>1. cr' = cr /\ bt' = bt /\ wtr' = wtr /\ disk' = disk /\ curr_tn' = curr_tn /\ jnl' = jnl  BY <1>8 DEF NoteCycle
  <2>2. pc[p] \notin InCommit \cup Phase2 \cup {"read"} /\ pc'[p] \notin InCommit \cup Phase2 \cup {"read"}
    BY <1>a, <1>8 DEF NoteCycle, Go, InCommit, Phase2
  <2> QED  BY <1>0, <1>b, <2>1, <2>2, QuietOutside
<1>9. CASE WaitRead(p)
  <2>1. cr' = cr /\ bt' = bt /\ wtr' = wtr /\ disk' = disk /\ curr_tn' = curr_tn /\ jnl' = jnl  BY <1>9 DEF WaitRead
  <2>2. pc[p] \notin InCommit \cup Phase2 \cup {"read"} /\ pc'[p] \notin InCommit \cup Phase2 \cup {"read"}
    BY <1>a, <1>9 DEF WaitRead, Go, InCommit, Phase2
  <2> QED  BY <1>0, <1>b, <2>1, <2>2, QuietOutside
<1>10. CASE WaitInTend(p)
  <2>1. cr' = cr /\ bt' = bt /\ wtr' = wtr /\ disk' = disk /\ curr_tn' = curr_tn /\ jnl' = jnl  BY <1>10 DEF WaitInTend
  <2>2. pc[p] \notin InCommit \cup Phase2 \cup {"read"} /\ pc'[p] \notin InCommit \cup Phase2 \cup {"read"}
    BY <1>a, <1>10 DEF WaitInTend, Go, InCommit, Phase2
  <2> QED  BY <1>0, <1>b, <2>1, <2>2, QuietOutside
<1>11. CASE Look(p)
  <2>1. cr' = cr /\ bt' = bt /\ wtr' = wtr /\ disk' = disk /\ curr_tn' = curr_tn /\ jnl' = jnl  BY <1>11 DEF Look
  <2>2. pc[p] \notin InCommit \cup Phase2 \cup {"read"} /\ pc'[p] \notin InCommit \cup Phase2 \cup {"read"}
    BY <1>a, <1>11 DEF Look, Go, InCommit, Phase2
  <2> QED  BY <1>0, <1>b, <2>1, <2>2, QuietOutside
<1> QED  BY <1>1, <1>2, <1>3, <1>4, <1>5, <1>6, <1>8, <1>9, <1>10, <1>11 DEF Search

LEMMA QuietTEnd ==
  ASSUME Types, NEW p \in Proc, TEnd(p)
  PROVE  Quiet(p) \/ Valid(p)
<1> SUFFICES ASSUME ~(Valid(p))  PROVE Quiet(p)  OBVIOUS
<1> USE DEF jnlvars, dskvars, tnvars
<1>0. Others(p)  BY OthersTEnd
<1>a. pc \in [Proc -> PC]  BY DEF Types, ProcTypes
<1>b. jnl' = jnl => SameVersions  BY JnlSame
<1>1. CASE ReadOnlyEnd(p)
  <2>1. cr' = cr /\ bt' = bt /\ wtr' = wtr /\ disk' = disk /\ curr_tn' = curr_tn /\ jnl' = jnl  BY <1>1 DEF ReadOnlyEnd
  <2>2. pc[p] \notin InCommit \cup Phase2 \cup {"read"} /\ pc'[p] \notin InCommit \cup Phase2 \cup {"read"}
    BY <1>a, <1>1 DEF ReadOnlyEnd, Go, InCommit, Phase2
  <2> QED  BY <1>0, <1>b, <2>1, <2>2, QuietOutside
<1>2. CASE CheckTn(p)
  <2>1. cr' = cr /\ bt' = bt /\ wtr' = wtr /\ disk' = disk /\ curr_tn' = curr_tn /\ jnl' = jnl  BY <1>2 DEF CheckTn, Fail
  <2>2. pc[p] \notin InCommit \cup Phase2 \cup {"read"} /\ pc'[p] \notin InCommit \cup Phase2 \cup {"read"}
    BY <1>a, <1>2 DEF CheckTn, Fail, Go, InCommit, Phase2
  <2> QED  BY <1>0, <1>b, <2>1, <2>2, QuietOutside
<1>3. CASE CheckCycle(p)
  <2>1. cr' = cr /\ bt' = bt /\ wtr' = wtr /\ disk' = disk /\ curr_tn' = curr_tn /\ jnl' = jnl  BY <1>3 DEF CheckCycle, Fail
  <2>2. pc[p] \notin InCommit \cup Phase2 \cup {"read"} /\ pc'[p] \notin InCommit \cup Phase2 \cup {"read"}
    BY <1>a, <1>3 DEF CheckCycle, Fail, Go, InCommit, Phase2
  <2> QED  BY <1>0, <1>b, <2>1, <2>2, QuietOutside
<1>4. CASE ReadOnlyDone(p)
  <2>1. cr' = cr /\ bt' = bt /\ wtr' = wtr /\ disk' = disk /\ curr_tn' = curr_tn /\ jnl' = jnl  BY <1>4 DEF ReadOnlyDone
  <2>2. pc[p] \notin InCommit \cup Phase2 \cup {"read"} /\ pc'[p] \notin InCommit \cup Phase2 \cup {"read"}
    BY <1>a, <1>4 DEF ReadOnlyDone, Go, InCommit, Phase2
  <2> QED  BY <1>0, <1>b, <2>1, <2>2, QuietOutside
<1>5. CASE Retry(p)
  <2>1. cr' = cr /\ bt' = bt /\ wtr' = wtr /\ disk' = disk /\ curr_tn' = curr_tn /\ jnl' = jnl  BY <1>5 DEF Retry
  <2>2. pc[p] \notin InCommit \cup Phase2 \cup {"read"} /\ pc'[p] \notin InCommit \cup Phase2 \cup {"read"}
    BY <1>a, <1>5 DEF Retry, Go, InCommit, Phase2
  <2> QED  BY <1>0, <1>b, <2>1, <2>2, QuietOutside
<1>6. CASE GrabCrit(p)
  <2>1. cr' = cr /\ bt' = bt /\ wtr' = wtr /\ disk' = disk /\ curr_tn' = curr_tn /\ jnl' = jnl  BY <1>6 DEF GrabCrit
  <2>2. pc[p] \notin InCommit \cup Phase2 \cup {"read"} /\ pc'[p] \notin InCommit \cup Phase2 \cup {"read"}
    BY <1>a, <1>6 DEF GrabCrit, Go, InCommit, Phase2
  <2> QED  BY <1>0, <1>b, <2>1, <2>2, QuietOutside
<1>7. CASE Validate(p)
  <2>1. cr' = cr /\ bt' = bt /\ wtr' = wtr /\ disk' = disk /\ curr_tn' = curr_tn /\ jnl' = jnl  BY <1>7 DEF Validate, Fail, Valid
  <2>2. pc[p] \notin InCommit \cup Phase2 \cup {"read"} /\ pc'[p] \notin InCommit \cup Phase2 \cup {"read"}
    BY <1>a, <1>7 DEF Validate, Fail, Valid, Go, InCommit, Phase2
  <2> QED  BY <1>0, <1>b, <2>1, <2>2, QuietOutside
<1> QED  BY <1>1, <1>2, <1>3, <1>4, <1>5, <1>6, <1>7 DEF TEnd

LEMMA QuietCommit ==
  ASSUME Types, Types', JobInv, NEW p \in Proc, Commit(p)
  PROVE  Quiet(p) \/ BufStep(p)
<1> SUFFICES ASSUME ~BufStep(p)  PROVE Quiet(p)  OBVIOUS
<1> USE DEF jnlvars, dskvars, tnvars, txnvars, cmtvars
<1>0. Others(p)  BY OthersCommit
<1>a. pc \in [Proc -> PC]  BY DEF Types, ProcTypes
<1>b. jnl' = jnl => SameVersions  BY JnlSame
<1>c. LogStep(p) => SameVersions  BY LogVersions
<1>1. CASE CheckEpoch(p)
  <2>1. /\ cr' = cr /\ bt' = bt /\ wtr' = wtr /\ disk' = disk /\ curr_tn' = curr_tn
        /\ hist' = hist /\ todo' = todo /\ pc[p] = "commit" /\ pc'[p] = "flu1"
    BY <1>a, <1>1 DEF CheckEpoch, Go
  <2>2. SameVersions  BY <1>b, <1>c, <1>1 DEF CheckEpoch, LogStep
  <2>3. Upd(p)' = Upd(p)  BY <2>1 DEF Upd
  <2>4. Tending(p)' = Tending(p) /\ Pinned(p)' = Pinned(p) /\ Locked(p)' = {} /\ Locked(p) = {}
    BY <2>1, <2>3 DEF Tending, Pinned, Locked, InCommit, Early, Phase2
  <2>5. Unbuilt(p)' = {} /\ Unbuilt(p) = {}  BY <2>4 DEF Unbuilt
  <2> QED  BY <1>0, <2>1, <2>2, <2>4, <2>5 DEF Quiet, InCommit, Early, Phase2
<1>2. CASE FlushJnl(p)
  <2>1. /\ cr' = cr /\ bt' = bt /\ wtr' = wtr /\ disk' = disk /\ curr_tn' = curr_tn
        /\ hist' = hist /\ todo' = todo /\ pc[p] = "flu1" /\ pc'[p] = "flu2"
    BY <1>a, <1>2 DEF FlushJnl, JnlOutput, Go
  <2>2. SameVersions  BY <1>b, <1>c, <1>2 DEF FlushJnl, LogStep
  <2>3. Upd(p)' = Upd(p)  BY <2>1 DEF Upd
  <2>4. Tending(p)' = Tending(p) /\ Pinned(p)' = Pinned(p) /\ Locked(p)' = {} /\ Locked(p) = {}
    BY <2>1, <2>3 DEF Tending, Pinned, Locked, InCommit, Early, Phase2
  <2>5. Unbuilt(p)' = {} /\ Unbuilt(p) = {}  BY <2>4 DEF Unbuilt
  <2> QED  BY <1>0, <2>1, <2>2, <2>4, <2>5 DEF Quiet, InCommit, Early, Phase2
<1>3. CASE WriteEpoch(p)
  <2>1. /\ cr' = cr /\ bt' = bt /\ wtr' = wtr /\ disk' = disk /\ curr_tn' = curr_tn
        /\ hist' = hist /\ todo' = todo /\ pc[p] = "flu2" /\ pc'[p] = "cmt04"
    BY <1>a, <1>3 DEF WriteEpoch, Go
  <2>2. SameVersions  BY <1>b, <1>c, <1>3 DEF WriteEpoch, LogStep
  <2>3. Upd(p)' = Upd(p)  BY <2>1 DEF Upd
  <2>4. Tending(p)' = Tending(p) /\ Pinned(p)' = Pinned(p) /\ Locked(p)' = {} /\ Locked(p) = {}
    BY <2>1, <2>3 DEF Tending, Pinned, Locked, InCommit, Early, Phase2
  <2>5. Unbuilt(p)' = {} /\ Unbuilt(p) = {}  BY <2>4 DEF Unbuilt
  <2> QED  BY <1>0, <2>1, <2>2, <2>4, <2>5 DEF Quiet, InCommit, Early, Phase2
<1>4. CASE Reserve(p)
  <2>1. /\ cr' = cr /\ bt' = bt /\ wtr' = wtr /\ disk' = disk /\ curr_tn' = curr_tn
        /\ hist' = hist /\ todo' = todo /\ pc[p] \in {"commit", "cmt04"} /\ pc'[p] = "cmt10" /\ rem'[p] = Upd(p)
    BY <1>a, <1>4 DEF Reserve, Go, Types, ProcTypes
  <2>2. SameVersions  BY <1>c, <1>4 DEF LogStep
  <2>3. Upd(p)' = Upd(p)  BY <2>1 DEF Upd
  <2>4. Tending(p)' = {} /\ Tending(p) = {} /\ Pinned(p)' = Pinned(p) /\ Locked(p)' = {} /\ Locked(p) = {}
    BY <2>1, <2>3 DEF Tending, Pinned, Locked, InCommit, Early, Phase2
  <2>5. Unbuilt(p)' = {} /\ Unbuilt(p) = {}  BY <2>4 DEF Unbuilt
  <2> QED  BY <1>0, <2>1, <2>2, <2>4, <2>5 DEF Quiet, InCommit, Early, Phase2
<1>5. CASE WriteJnl(p)
  <2>1. /\ cr' = cr /\ bt' = bt /\ wtr' = wtr /\ disk' = disk /\ curr_tn' = curr_tn /\ ctn' = ctn
        /\ hist' = hist /\ todo' = todo /\ pc[p] = "cmt16" /\ pc'[p] = "cmt18a" /\ rem' = rem
    BY <1>a, <1>5 DEF WriteJnl, Go
  <2>2. SameVersions  BY <1>c, <1>5 DEF LogStep
  <2>4. Tending(p)' = Tending(p) /\ Pinned(p)' = Pinned(p) /\ Locked(p)' = Locked(p)
    BY <2>1 DEF Tending, Pinned, Locked, InCommit, Early, Phase2
  <2>5. Unbuilt(p)' = Unbuilt(p)  BY <2>1, <2>4 DEF Unbuilt
  <2> QED  BY <1>0, <2>1, <2>2, <2>4, <2>5 DEF Quiet, InCommit, Early, Phase2
<1>6. CASE Halt(p)
  <2>1. cr' = cr /\ bt' = bt /\ wtr' = wtr /\ disk' = disk /\ curr_tn' = curr_tn /\ jnl' = jnl  BY <1>6 DEF Halt
  <2>2. pc[p] \notin InCommit \cup Phase2 \cup {"read"} /\ pc'[p] \notin InCommit \cup Phase2 \cup {"read"}
    BY <1>a, <1>6 DEF Halt, Go, InCommit, Phase2
  <2> QED  BY <1>0, <1>b, <2>1, <2>2, QuietOutside
<1> QED  BY <1>1, <1>2, <1>3, <1>4, <1>5, <1>6 DEF Commit, BufStep

LEMMA QuietQio ==
  ASSUME JnlQio
  PROVE  Quiet(NoProc)
<1>1. Others(NoProc) /\ NoProc \notin Proc  BY OthersWriter, BlockNat
<1>2. cr' = cr /\ bt' = bt /\ wtr' = wtr /\ disk' = disk /\ curr_tn' = curr_tn /\ jnl' = jnl
  BY DEF JnlQio, tnvars
<1> QED  BY <1>1, <1>2, JnlSame DEF Quiet

LEMMA SameVer ==
  ASSUME Types, SameVersions, curr_tn' = curr_tn, NEW b \in Block
  PROVE  Ver(b)' = Ver(b)
<1>1. curr_tn \in 0 .. curr_tn  BY DEF Types, FileTypes
<1> QED  BY <1>1 DEF SameVersions, Ver, VersionAt, LastSet

(* What every process keeps in a quiet step *)
LEMMA QuietSets ==
  ASSUME NEW p, Quiet(p), NEW q \in Proc
  PROVE  /\ Tending(q)' = Tending(q) /\ Pinned(q)' = Pinned(q) /\ Locked(q)' = Locked(q)
         /\ Unbuilt(q)' = Unbuilt(q)
         /\ pc'[q] \in InCommit <=> pc[q] \in InCommit
         /\ pc'[q] \in Phase2 => pc[q] \in Phase2 /\ ctn'[q] = ctn[q]
         /\ pc[q] \in Early => pc'[q] \in Early
         /\ \A b \in Pinned(q) : hist'[q][b] = hist[q][b]
<1>1. CASE q = p  BY <1>1 DEF Quiet
<1>2. CASE q # p
  <2>1. Others(p) /\ q \in Proc \ {p}  BY <1>2 DEF Quiet
  <2> QED  BY <2>1, OtherSets DEF Others
<1> QED  BY <1>1, <1>2

LEMMA PinQuiet ==
  ASSUME Types, PinInv, NEW p, Quiet(p)
  PROVE  PinInv'
<1>0. cr' = cr /\ Buffer' = Buffer  BY DEF Quiet, Buffer
<1>1. \A q \in Proc : Tending(q)' = Tending(q) /\ Pinned(q)' = Pinned(q)
                      /\ \A b \in Pinned(q) : hist'[q][b] = hist[q][b]
  BY QuietSets
<1>2. \A c, d \in Buffer' : cr'[c].blk # NoBlock /\ cr'[c].blk = cr'[d].blk => c = d  BY <1>0 DEF PinInv
<1>3. \A c \in Buffer', q \in Proc : cr'[c].in_tend = q <=> cr'[c].blk \in Tending(q)'
  BY <1>0, <1>1 DEF PinInv
<1>4. \A c \in Buffer', q \in Proc : cr'[c].in_cw_set = q <=> cr'[c].blk \in Pinned(q)'
  BY <1>0, <1>1 DEF PinInv
<1>5. ASSUME NEW q \in Proc, NEW b \in Pinned(q)'
      PROVE  LET h == hist'[q][b] IN cr'[h.cr].blk = b /\ cr'[h.cr].cycle = h.cycle /\ cr'[h.cr].rip = NoProc
  BY <1>0, <1>1, <1>5 DEF PinInv, Kept
<1> QED  BY <1>2, <1>3, <1>4, <1>5 DEF PinInv, Kept

LEMMA ReadQuiet ==
  ASSUME Types, ReadInv, NEW p, Quiet(p)
  PROVE  ReadInv'
<1>0. cr' = cr /\ Buffer' = Buffer /\ Others(p)  BY DEF Quiet, Buffer
<1>1. \A q \in Proc : q # p => pc'[q] = pc[q] /\ Blk(q)' = Blk(q) /\ Hist(q)' = Hist(q)
  BY <1>0, OtherSets DEF Others
<1>2. p \in Proc => pc[p] # "read" /\ pc'[p] # "read"  BY DEF Quiet
<1>3. ASSUME NEW c \in Buffer', NEW q \in Proc, cr'[c].rip = q
      PROVE  pc'[q] = "read" /\ Hist(q)'.cr = c
  <2>2. pc[q] = "read" /\ Hist(q).cr = c  BY <1>0, <1>3 DEF ReadInv
  <2>3. q # p  BY <1>2, <2>2
  <2> QED  BY <1>0, <1>1, <2>2, <2>3
<1>4. ASSUME NEW q \in Proc, pc'[q] = "read"
      PROVE  LET r == cr'[Hist(q)'.cr] IN
               /\ r.rip = q /\ r.blk = Blk(q)' /\ Hist(q)'.cycle = r.cycle
               /\ r.dirty = 0 /\ r.latch = "clear" /\ ~r.queued
  <2>1. q # p  BY <1>2, <1>4
  <2> QED  BY <1>0, <1>1, <1>4, <2>1 DEF ReadInv
<1> QED  BY <1>3, <1>4 DEF ReadInv

LEMMA WtrQuiet ==
  ASSUME Types, WtrInv, NEW p, Quiet(p)
  PROVE  WtrInv'
<1>0. cr' = cr /\ Buffer' = Buffer /\ wtr' = wtr  BY DEF Quiet, Buffer
<1>1. \A q \in Proc : Locked(q)' = Locked(q) /\ Unbuilt(q)' = Unbuilt(q)  BY QuietSets
<1>2. \A c \in Buffer : WtrFor(c)'  BY <1>0, <1>1 DEF WtrInv, WtrFor, Busy
<1>3. OneWriter'  BY <1>0 DEF WtrInv, OneWriter
<1> QED  BY <1>0, <1>2, <1>3 DEF WtrInv

LEMMA BtQuiet ==
  ASSUME Types, BtInv, NEW p, Quiet(p)
  PROVE  BtInv'
<1>0. bt' = bt /\ curr_tn' = curr_tn  BY DEF Quiet, Buffer
<1>1. \A q \in Proc : Tending(q)' = Tending(q) /\ (pc'[q] \in InCommit <=> pc[q] \in InCommit)
                      /\ (pc[q] \in Early => pc'[q] \in Early)
  BY QuietSets
<1>2. \A b \in Block : Ver(b)' = Ver(b)  BY SameVer DEF Quiet
<1> QED  BY <1>0, <1>1, <1>2 DEF BtInv, Covers, BtOf

LEMMA DataQuiet ==
  ASSUME Types, DataInv, NEW p, Quiet(p)
  PROVE  DataInv'
<1>0. cr' = cr /\ Buffer' = Buffer /\ disk' = disk /\ Others(p)  BY DEF Quiet, Buffer
<1>1. \A b \in Block : Ver(b)' = Ver(b)  BY SameVer DEF Quiet
<1>2. \A b \in Block : CrOf(b)' = {} => disk'[b] = Ver(b)'  BY <1>0, <1>1 DEF DataInv, CrOf
<1>3. ASSUME NEW q \in Proc, NEW b \in Block, pc'[q] = "read", Blk(q)' = b  PROVE disk'[b] = Ver(b)'
  <2>1. q # p  BY <1>3 DEF Quiet
  <2>2. pc[q] = "read" /\ Blk(q) = b  BY <1>0, <1>3, <2>1, OtherSets DEF Others
  <2> QED  BY <1>0, <1>1, <2>2 DEF DataInv
<1>4. ASSUME NEW c \in Buffer', NEW b \in Block, cr'[c].blk = b, cr'[c].rip = NoProc
      PROVE  DataFor(c, b)'
  <2>1. DataFor(c, b)  BY <1>0, <1>4 DEF DataInv
  <2>2. Settled(c)' => Settled(c)  BY <1>0, QuietSets DEF Settled
  <2>3. ASSUME NEW q \in Proc, cr'[c].in_tend = q, pc'[q] \in Phase2
        PROVE  /\ Ver(b)'.tn = ctn'[q]
               /\ pc'[q] \in {"cmt18c", "cmt18d"} /\ b = Cse(q)' => cr'[c].data.tn = ctn'[q]
    <3>1. pc[q] \in Phase2 /\ ctn'[q] = ctn[q]  BY <2>3, QuietSets
    <3>2. Ver(b)'.tn = ctn'[q]  BY <1>0, <1>1, <2>1, <2>3, <3>1 DEF DataFor
    <3>3. ASSUME pc'[q] \in {"cmt18c", "cmt18d"}, b = Cse(q)'  PROVE cr'[c].data.tn = ctn'[q]
      <4>1. q # p  BY <3>3 DEF Quiet
      <4>2. pc'[q] = pc[q] /\ Cse(q)' = Cse(q)  BY <1>0, <4>1, OtherSets DEF Others
      <4> QED  BY <1>0, <2>1, <2>3, <3>1, <3>3, <4>2 DEF DataFor
    <3> QED  BY <3>2, <3>3
  <2> QED  BY <1>0, <1>1, <2>1, <2>2, <2>3 DEF DataFor
<1> QED  BY <1>2, <1>3, <1>4 DEF DataInv

-----------------------------------------------------------------------------
(* What the other steps do to the buffers, field by field *)

Only(c) == Buffer' = Buffer /\ \A d \in Buffer \ {c} : cr'[d] = cr[d]

(* The identity of the buffer: the block it holds, since when, and whether it is being read *)
SameId(c)   == cr'[c].blk = cr[c].blk /\ cr'[c].cycle = cr[c].cycle /\ cr'[c].rip = cr[c].rip
SameLock(c) == cr'[c].in_tend = cr[c].in_tend /\ cr'[c].in_cw_set = cr[c].in_cw_set
SameWtr(c)  == cr'[c].dirty = cr[c].dirty /\ cr'[c].latch = cr[c].latch /\ cr'[c].queued = cr[c].queued
SameTn(c)   == cr'[c].tn = cr[c].tn
SameAddr(c) == cr'[c].jnl_addr = cr[c].jnl_addr
SameData(c) == cr'[c].data = cr[c].data

SameSets(p) == /\ Tending(p)' = Tending(p) /\ Pinned(p)' = Pinned(p) /\ Locked(p)' = Locked(p)
               /\ Unbuilt(p)' = Unbuilt(p)
NewSets(p)  == /\ Tending(p)' = {} /\ Pinned(p)' = {} /\ Locked(p)' = {} /\ Unbuilt(p)' = {}
               /\ Tending(p) = {} /\ Pinned(p) = {} /\ Locked(p) = {} /\ Unbuilt(p) = {}

LEMMA OnlyIs ==
  ASSUME Types, NEW c \in Buffer, NEW r, cr' = [cr EXCEPT ![c] = r]
  PROVE  Only(c) /\ cr'[c] = r
<1>1. cr \in [Buffer -> CacheRec]  BY DEF Types, BufTypes
<1> QED  BY <1>1 DEF Only, Buffer

LEMMA NewBufferIs ==
  ASSUME Types, JobInv, NEW p \in Proc, NewBuffer(p)
  PROVE  /\ NewSets(p) /\ pc[p] = "getn" /\ pc'[p] = "read" /\ lvl'[p] = lvl[p] /\ todo'[p] = todo[p]
         /\ Blk(p)' = Blk(p) /\ Blk(p) \in Block /\ CrOf(Blk(p)) = {}
         /\ bt' = bt /\ wtr' = wtr /\ disk' = disk /\ curr_tn' = curr_tn /\ jnl' = jnl
         /\ \A b \in Block \ {Blk(p)} : hist'[p][b] = hist[p][b]
         /\ \E c \in Reusable(p) :
              /\ c \in Buffer /\ Only(c) /\ cr'[c].rip = p /\ cr'[c].blk = Blk(p) /\ cr'[c].cycle = cr[c].cycle + 1
              /\ SameLock(c) /\ SameWtr(c) /\ SameData(c) /\ cr'[c].jnl_addr = 0
              /\ Hist(p)'.cr = c /\ Hist(p)'.cycle = cr[c].cycle + 1 /\ Hist(p)'.tn = Hist(p).tn
<1> USE DEF jnlvars, dskvars, tnvars, txnvars, cmtvars
<1>1. /\ pc[p] = "getn" /\ pc'[p] = "read" /\ lvl'[p] = lvl[p] /\ todo'[p] = todo[p] /\ CrOf(Blk(p)) = {}
      /\ bt' = bt /\ wtr' = wtr /\ disk' = disk /\ curr_tn' = curr_tn /\ jnl' = jnl
  BY DEF NewBuffer, GetBuffer, Go, Types, ProcTypes
<1>2. NewSets(p)
  <2>1. Tending(p)' = {} /\ Pinned(p)' = {} /\ Locked(p)' = {}
    BY <1>1 DEF Tending, Pinned, Locked, InCommit, Early, Phase2
  <2>2. Unbuilt(p)' = {}  BY <2>1 DEF Unbuilt
  <2>3. pc[p] \notin InCommit \cup Phase2  BY <1>1 DEF InCommit, Phase2
  <2> QED  BY <2>1, <2>2, <2>3, NoSets DEF NewSets
<1>3. PICK c \in Reusable(p) :
        /\ cr' = [cr EXCEPT ![c].rip = p, ![c].blk = Blk(p), ![c].cycle = @ + 1,
                            ![c].jnl_addr = 0, ![c].tn = curr_tn]
        /\ SetHist(p, [Hist(p) EXCEPT !.cr = c, !.cycle = cr[c].cycle + 1])
  BY DEF NewBuffer, GetBuffer
<1>4. c \in Buffer /\ cr[c] \in CacheRec /\ Blk(p) \in Block /\ Hist(p) \in HistRec
  BY <1>1, <1>3, CrFields, JobFacts DEF Reusable
<1>5. cr' = [cr EXCEPT ![c] = [cr[c] EXCEPT !.rip = p, !.blk = Blk(p), !.cycle = @ + 1,
                                            !.jnl_addr = 0, !.tn = curr_tn]]
  BY <1>3, <1>4 DEF Types, BufTypes
<1>6. Only(c) /\ cr'[c] = [cr[c] EXCEPT !.rip = p, !.blk = Blk(p), !.cycle = @ + 1, !.jnl_addr = 0, !.tn = curr_tn]
  BY <1>4, <1>5, OnlyIs
<1>7. Blk(p)' = Blk(p)  BY <1>1 DEF Blk, Path
<1>8. hist'[p] = [hist[p] EXCEPT ![Blk(p)] = [Hist(p) EXCEPT !.cr = c, !.cycle = cr[c].cycle + 1]]
  BY <1>3 DEF SetHist, Types, HistTypes
<1>9. Hist(p)' = [Hist(p) EXCEPT !.cr = c, !.cycle = cr[c].cycle + 1]
  BY <1>4, <1>7, <1>8 DEF Hist, Types, HistTypes
<1>10. Hist(p)'.cr = c /\ Hist(p)'.cycle = cr[c].cycle + 1 /\ Hist(p)'.tn = Hist(p).tn
  BY <1>4, <1>9 DEF HistRec
<1>11. \A b \in Block \ {Blk(p)} : hist'[p][b] = hist[p][b]  BY <1>8 DEF Types, HistTypes
<1>12. /\ cr'[c].rip = p /\ cr'[c].blk = Blk(p) /\ cr'[c].cycle = cr[c].cycle + 1 /\ cr'[c].jnl_addr = 0
       /\ SameLock(c) /\ SameWtr(c) /\ SameData(c)
  BY <1>4, <1>6 DEF CacheRec, SameLock, SameWtr, SameData
<1> QED  BY <1>1, <1>2, <1>3, <1>4, <1>6, <1>7, <1>10, <1>11, <1>12

LEMMA DskReadIs ==
  ASSUME Types, JobInv, NEW p \in Proc, DskRead(p)
  PROVE  /\ NewSets(p) /\ pc[p] = "read" /\ pc'[p] = "look" /\ hist' = hist /\ lvl'[p] = lvl[p] /\ todo'[p] = todo[p]
         /\ Blk(p)' = Blk(p) /\ Blk(p) \in Block /\ Hist(p)' = Hist(p)
         /\ bt' = bt /\ wtr' = wtr /\ disk' = disk /\ curr_tn' = curr_tn /\ jnl' = jnl
         /\ Hist(p).cr \in Buffer /\ Only(Hist(p).cr)
         /\ cr'[Hist(p).cr].rip = NoProc /\ cr'[Hist(p).cr].data = disk[Blk(p)]
         /\ cr'[Hist(p).cr].blk = cr[Hist(p).cr].blk /\ cr'[Hist(p).cr].cycle = cr[Hist(p).cr].cycle
         /\ SameLock(Hist(p).cr) /\ SameWtr(Hist(p).cr) /\ SameAddr(Hist(p).cr)
<1> USE DEF jnlvars, dskvars, tnvars, txnvars, cmtvars
<1>1. /\ pc[p] = "read" /\ pc'[p] = "look" /\ hist' = hist /\ lvl'[p] = lvl[p] /\ todo'[p] = todo[p]
      /\ bt' = bt /\ wtr' = wtr /\ disk' = disk /\ curr_tn' = curr_tn /\ jnl' = jnl
  BY DEF DskRead, Go, Types, ProcTypes
<1>2. NewSets(p)
  <2>1. Tending(p)' = {} /\ Pinned(p)' = {} /\ Locked(p)' = {}
    BY <1>1 DEF Tending, Pinned, Locked, InCommit, Early, Phase2
  <2>2. Unbuilt(p)' = {}  BY <2>1 DEF Unbuilt
  <2>3. pc[p] \notin InCommit \cup Phase2  BY <1>1 DEF InCommit, Phase2
  <2> QED  BY <2>1, <2>2, <2>3, NoSets DEF NewSets
<1>3. Hist(p) \in HistRec /\ Blk(p) \in Block  BY <1>1, JobFacts
<1>4. PICK c \in Buffer : c = Hist(p).cr  BY <1>3, HistFields
<1>5. cr[c] \in CacheRec  BY CrFields
<1>6. cr' = [cr EXCEPT ![c] = [cr[c] EXCEPT !.data = disk[Blk(p)], !.rip = NoProc]]
  BY <1>4, <1>5 DEF DskRead, Types, BufTypes
<1>7. Only(c) /\ cr'[c] = [cr[c] EXCEPT !.data = disk[Blk(p)], !.rip = NoProc]
  <2>1. PICK r : r = [cr[c] EXCEPT !.data = disk[Blk(p)], !.rip = NoProc]  OBVIOUS
  <2> QED  BY <1>6, <2>1, OnlyIs
<1>8. /\ cr'[c].rip = NoProc /\ cr'[c].data = disk[Blk(p)] /\ cr'[c].blk = cr[c].blk /\ cr'[c].cycle = cr[c].cycle
      /\ SameLock(c) /\ SameWtr(c) /\ SameAddr(c)
  BY <1>5, <1>7 DEF CacheRec, SameLock, SameWtr, SameAddr
<1>9. Blk(p)' = Blk(p)  BY <1>1 DEF Blk, Path
<1>10. Hist(p)' = Hist(p)  BY <1>1, <1>9 DEF Hist
<1> QED  BY <1>1, <1>2, <1>3, <1>4, <1>7, <1>8, <1>9, <1>10

LEMMA ValidIs ==
  ASSUME Types, JobInv, NEW p \in Proc, Valid(p)
  PROVE  /\ pc[p] = "valid" /\ pc'[p] = "commit" /\ Upd(p)' = Upd(p) /\ Path(p)' = Path(p) /\ crit' = crit
         /\ Tending(p) = {} /\ Pinned(p) = {} /\ Locked(p) = {} /\ Unbuilt(p) = {}
         /\ Tending(p)' = {} /\ Pinned(p)' = Upd(p) /\ Locked(p)' = {} /\ Unbuilt(p)' = {}
         /\ bt' = bt /\ wtr' = wtr /\ disk' = disk /\ curr_tn' = curr_tn /\ jnl' = jnl /\ Buffer' = Buffer
         /\ \A c \in Buffer : /\ SameId(c) /\ SameWtr(c) /\ SameTn(c) /\ SameAddr(c) /\ SameData(c)
                              /\ cr'[c].in_tend = cr[c].in_tend
                              /\ cr'[c].in_cw_set = IF cr[c].blk \in Upd(p) THEN p ELSE cr[c].in_cw_set
         /\ \A b \in Block : /\ hist'[p][b].cr = hist[p][b].cr /\ hist'[p][b].cycle = hist[p][b].cycle
                             /\ hist'[p][b].ver = hist[p][b].ver
                             /\ hist'[p][b].tn = IF b \in ToSet(Path(p)) THEN curr_tn + 1 ELSE hist[p][b].tn
         /\ \A b \in ToSet(Path(p)) : StillValid(b, hist[p][b])
         /\ Upd(p) \subseteq ToSet(Path(p)) /\ ToSet(Path(p)) \subseteq Block
<1> USE DEF jnlvars, dskvars, tnvars, txnvars, cmtvars
<1>1. /\ pc[p] = "valid" /\ pc'[p] = "commit" /\ todo' = todo /\ crit' = crit
      /\ bt' = bt /\ wtr' = wtr /\ disk' = disk /\ curr_tn' = curr_tn /\ jnl' = jnl
      /\ \A b \in ToSet(Path(p)) : StillValid(b, hist[p][b])
  BY DEF Valid, Validate, Go, Types, ProcTypes
<1>2. Upd(p)' = Upd(p) /\ Path(p)' = Path(p)  BY <1>1 DEF Upd, Path
<1>3. Upd(p) \subseteq ToSet(Path(p)) /\ ToSet(Path(p)) \subseteq Block  BY <1>1, JobFacts
<1>4. Tending(p)' = {} /\ Pinned(p)' = Upd(p) /\ Locked(p)' = {}
  BY <1>1, <1>2, <1>3 DEF Tending, Pinned, Locked, InCommit, Early, Phase2
<1>5. Unbuilt(p)' = {}  BY <1>4 DEF Unbuilt
<1>6. pc[p] \notin InCommit \cup Phase2  BY <1>1 DEF InCommit, Phase2
<1>7. cr' = [c \in Buffer |-> IF cr[c].blk \in Upd(p) THEN [cr[c] EXCEPT !.in_cw_set = p] ELSE cr[c]]
  BY DEF Valid, Validate
<1>8. Buffer' = Buffer  BY <1>7 DEF Buffer
<1>9. ASSUME NEW c \in Buffer
      PROVE  /\ SameId(c) /\ SameWtr(c) /\ SameTn(c) /\ SameAddr(c) /\ SameData(c)
             /\ cr'[c].in_tend = cr[c].in_tend
             /\ cr'[c].in_cw_set = IF cr[c].blk \in Upd(p) THEN p ELSE cr[c].in_cw_set
  <2>1. cr[c] \in CacheRec  BY CrFields
  <2>2. cr'[c] = IF cr[c].blk \in Upd(p) THEN [cr[c] EXCEPT !.in_cw_set = p] ELSE cr[c]  BY <1>7
  <2> QED  BY <2>1, <2>2 DEF CacheRec, SameId, SameWtr, SameTn, SameAddr, SameData
<1>10. hist'[p] = [b \in Block |-> IF b \in ToSet(Path(p)) THEN [hist[p][b] EXCEPT !.tn = curr_tn + 1]
                                   ELSE hist[p][b]]
  BY DEF Valid, Validate, Types, HistTypes
<1>11. ASSUME NEW b \in Block
       PROVE  /\ hist'[p][b].cr = hist[p][b].cr /\ hist'[p][b].cycle = hist[p][b].cycle
              /\ hist'[p][b].ver = hist[p][b].ver
              /\ hist'[p][b].tn = IF b \in ToSet(Path(p)) THEN curr_tn + 1 ELSE hist[p][b].tn
  <2>1. PICK h \in HistRec : h = hist[p][b]  BY DEF Types, HistTypes
  <2>2. hist'[p][b] = IF b \in ToSet(Path(p)) THEN [h EXCEPT !.tn = curr_tn + 1] ELSE h  BY <1>10, <2>1
  <2> QED  BY <2>1, <2>2 DEF HistRec
<1> QED  BY <1>1, <1>2, <1>3, <1>4, <1>5, <1>6, <1>8, <1>9, <1>11, NoSets

(* The commit: c is the buffer of the block b that is its turn *)
Turn(p, b, c) ==
  /\ b = Cse(p) /\ c = CseCr(p) /\ b \in rem[p] /\ b \in Block /\ b \in Upd(p)
  /\ c \in Buffer /\ cr[c].blk = b /\ c = hist[p][b].cr /\ cr[c].rip = NoProc /\ cr[c].in_cw_set = p

(* What a commit leaves alone *)
CommitFrame(p) ==
  /\ hist' = hist /\ lvl' = lvl /\ wtr' = wtr /\ disk' = disk /\ jnl' = jnl /\ ctn' = ctn
  /\ stable' = stable /\ jnl_freeaddr' = jnl_freeaddr

LEMMA TurnIs ==
  ASSUME Types, JobInv, PinInv, NEW p \in Proc, pc[p] \in {"cmt10", "cmt10w"} \cup Phase2
  PROVE  Turn(p, Cse(p), CseCr(p))
BY CseCrIs DEF Turn

DirtiedIs(p, c) ==
  /\ Only(c) /\ SameId(c) /\ cr'[c].in_cw_set = cr[c].in_cw_set /\ SameData(c) /\ SameAddr(c)
  /\ cr'[c].queued = cr[c].queued /\ cr'[c].in_tend = p /\ cr'[c].latch = "set"
  /\ cr'[c].tn = (IF cr[c].dirty = 0 THEN 0 ELSE ctn[p])
  /\ cr'[c].dirty = (IF cr[c].dirty = 0 THEN ctn[p] ELSE cr[c].dirty)

LEMMA DirtiedFields ==
  ASSUME Types, NEW p \in Proc, NEW c \in Buffer, cr' = [cr EXCEPT ![c] = Dirtied(p, @)]
  PROVE  DirtiedIs(p, c)
<1>1. PICK r \in CacheRec : r = cr[c]  BY CrFields
<1>2. Only(c) /\ cr'[c] = Dirtied(p, r)  BY <1>1, OnlyIs
<1>0. ctn[p] \in Nat  BY DEF Types, ProcTypes
<1>3. PICK t \in Nat, d \in Nat : /\ t = (IF r.dirty = 0 THEN 0 ELSE ctn[p])
                                 /\ d = (IF r.dirty = 0 THEN ctn[p] ELSE r.dirty)
  BY <1>0 DEF CacheRec
<1>4. PICK s : s = cr'[c]  OBVIOUS
<1>5. s = [r EXCEPT !.in_tend = p, !.latch = "set", !.tn = t, !.dirty = d]
  BY <1>2, <1>3, <1>4 DEF Dirtied, CacheRec
<1>6. /\ s.blk = r.blk /\ s.cycle = r.cycle /\ s.rip = r.rip /\ s.in_cw_set = r.in_cw_set /\ s.data = r.data
      /\ s.jnl_addr = r.jnl_addr /\ s.queued = r.queued /\ s.in_tend = p /\ s.latch = "set"
      /\ s.tn = t /\ s.dirty = d
  BY <1>5 DEF CacheRec
<1> HIDE DEF CacheRec
<1> QED  BY <1>1, <1>2, <1>3, <1>4, <1>6 DEF DirtiedIs, SameId, SameData, SameAddr

LEMMA Phase1Is ==
  ASSUME Types, JobInv, PinInv, NEW p \in Proc, Phase1(p), NEW b, NEW c, b = Cse(p), c = CseCr(p)
  PROVE  /\ Turn(p, b, c) /\ CommitFrame(p) /\ BtPut(b) /\ curr_tn' = curr_tn /\ todo' = todo
         /\ pc[p] = "cmt10" /\ cr[c].in_tend = NoProc /\ Pinned(p)' = Pinned(p)
         /\ Tending(p)' = Tending(p) \cup {b} /\ pc'[p] \in Early
         /\ \/ /\ cr[c].latch = "clear" /\ DirtiedIs(p, c) /\ rem'[p] = rem[p] \ {b}
               /\ Locked(p)' = Locked(p) \cup {b} /\ Unbuilt(p)' = Unbuilt(p) \cup {b}
            \/ /\ cr[c].latch # "clear" /\ Only(c) /\ SameId(c) /\ SameData(c) /\ SameTn(c) /\ SameAddr(c)
               /\ cr'[c].in_cw_set = cr[c].in_cw_set /\ cr'[c].dirty = cr[c].dirty
               /\ cr'[c].queued = cr[c].queued /\ cr'[c].in_tend = p /\ cr'[c].latch = "set"
               /\ rem' = rem /\ pc'[p] = "cmt10w" /\ Locked(p)' = Locked(p) /\ Unbuilt(p)' = Unbuilt(p)
<1> USE DEF jnlvars, dskvars, tnvars, txnvars, cmtvars
<1>0. pc[p] = "cmt10"  BY DEF Phase1
<1>1. Turn(p, b, c)  BY <1>0, TurnIs
<1>2. b \in rem[p] /\ b \in Upd(p) /\ b \in Block /\ c \in Buffer /\ cr[c].blk = b  BY <1>1 DEF Turn
<1>3. CommitFrame(p) /\ BtPut(b) /\ curr_tn' = curr_tn /\ todo' = todo /\ cr[c].in_tend = NoProc
  BY DEF Phase1, CommitFrame
<1>4. Upd(p)' = Upd(p) /\ rem[p] \subseteq Upd(p) /\ Upd(p) \subseteq Block
  BY <1>0, <1>3, JobFacts DEF Upd, JobInv, JobFor, Early
<1>5. CASE cr[c].latch = "clear"
  <2>1. DirtiedIs(p, c)  BY <1>2, <1>5, DirtiedFields DEF Phase1
  <2>2. rem'[p] = rem[p] \ {b} /\ pc'[p] \in {"cmt10", "cmt12"}
    BY <1>5 DEF Phase1, NextCse, Go, Types, ProcTypes
  <2>3. Tending(p)' = Tending(p) \cup {b} /\ Pinned(p)' = Pinned(p) /\ Locked(p)' = Locked(p) \cup {b}
    BY <1>0, <1>2, <1>4, <2>2 DEF Tending, Pinned, Locked, Early, Phase2, InCommit
  <2>4. Unbuilt(p)' = Unbuilt(p) \cup {b}  BY <1>0, <2>2, <2>3 DEF Unbuilt
  <2> QED  BY <1>0, <1>1, <1>3, <1>5, <2>1, <2>2, <2>3, <2>4 DEF Early
<1>6. CASE cr[c].latch # "clear"
  <2>0. PICK r \in CacheRec : r = cr[c]  BY <1>2, CrFields
  <2>1. cr' = [cr EXCEPT ![c] = [r EXCEPT !.in_tend = p, !.latch = "set"]]
    BY <1>2, <1>6, <2>0 DEF Phase1, Types, BufTypes
  <2>2. Only(c) /\ cr'[c] = [r EXCEPT !.in_tend = p, !.latch = "set"]  BY <1>2, <2>1, OnlyIs
  <2>3. rem' = rem /\ pc'[p] = "cmt10w"  BY <1>6 DEF Phase1, Go, Types, ProcTypes
  <2>4. Tending(p)' = Tending(p) \cup {b} /\ Pinned(p)' = Pinned(p) /\ Locked(p)' = Locked(p)
    <3>1. Cse(p)' = Cse(p)  BY <2>3 DEF Cse
    <3> QED  BY <1>0, <1>2, <1>4, <2>3, <3>1 DEF Tending, Pinned, Locked, Early, Phase2, InCommit
  <2>5. Unbuilt(p)' = Unbuilt(p)  BY <1>0, <2>3, <2>4 DEF Unbuilt
  <2>6. /\ SameId(c) /\ SameData(c) /\ SameTn(c) /\ SameAddr(c)
        /\ cr'[c].in_cw_set = cr[c].in_cw_set /\ cr'[c].dirty = cr[c].dirty
        /\ cr'[c].queued = cr[c].queued /\ cr'[c].in_tend = p /\ cr'[c].latch = "set"
    BY <2>0, <2>2 DEF CacheRec, SameId, SameData, SameTn, SameAddr
  <2> QED  BY <1>0, <1>1, <1>3, <1>6, <2>2, <2>3, <2>4, <2>5, <2>6 DEF Early
<1> QED  BY <1>5, <1>6

LEMMA Phase1WaitIs ==
  ASSUME Types, JobInv, PinInv, NEW p \in Proc, Phase1Wait(p), NEW b, NEW c, b = Cse(p), c = CseCr(p)
  PROVE  /\ Turn(p, b, c) /\ CommitFrame(p) /\ bt' = bt /\ curr_tn' = curr_tn /\ todo' = todo
         /\ pc[p] = "cmt10w" /\ cr[c].in_tend = p /\ Pinned(p)' = Pinned(p)
         /\ Tending(p)' = Tending(p) /\ pc'[p] \in Early
         /\ cr[c].latch = "clear" /\ DirtiedIs(p, c) /\ rem'[p] = rem[p] \ {b}
         /\ Locked(p)' = Locked(p) \cup {b} /\ Unbuilt(p)' = Unbuilt(p) \cup {b}
<1> USE DEF jnlvars, dskvars, tnvars, txnvars, cmtvars
<1>0. pc[p] = "cmt10w"  BY DEF Phase1Wait
<1>1. Turn(p, b, c)  BY <1>0, TurnIs
<1>2. b \in rem[p] /\ b \in Upd(p) /\ b \in Block /\ c \in Buffer /\ cr[c].blk = b  BY <1>1 DEF Turn
<1>3. CommitFrame(p) /\ bt' = bt /\ curr_tn' = curr_tn /\ todo' = todo /\ cr[c].latch = "clear"
  BY DEF Phase1Wait, CommitFrame
<1>4. Upd(p)' = Upd(p) /\ rem[p] \subseteq Upd(p) /\ Upd(p) \subseteq Block
  BY <1>0, <1>3, JobFacts DEF Upd, JobInv, JobFor, Early
<1>5. DirtiedIs(p, c)  BY <1>2, DirtiedFields DEF Phase1Wait
<1>6. rem'[p] = rem[p] \ {b} /\ pc'[p] \in {"cmt10", "cmt12"}
  BY DEF Phase1Wait, NextCse, Go, Types, ProcTypes
<1>7. Tending(p)' = Tending(p) /\ Pinned(p)' = Pinned(p) /\ Locked(p)' = Locked(p) \cup {b}
  BY <1>0, <1>2, <1>4, <1>6 DEF Tending, Pinned, Locked, Early, Phase2, InCommit
<1>8. Unbuilt(p)' = Unbuilt(p) \cup {b}  BY <1>0, <1>6, <1>7 DEF Unbuilt
<1>9. b \in Tending(p)  BY <1>0, <1>2 DEF Tending
<1>10. cr[c].in_tend = p  BY <1>2, <1>9 DEF PinInv
<1> QED  BY <1>0, <1>1, <1>3, <1>5, <1>6, <1>7, <1>8, <1>10 DEF Early

LEMMA IncrementIs ==
  ASSUME Types, JobInv, NEW p \in Proc, IncrementTn(p)
  PROVE  /\ CommitFrame(p) /\ bt' = bt /\ curr_tn' = curr_tn + 1 /\ todo' = todo /\ cr' = cr
         /\ pc[p] = "cmt12" /\ pc'[p] = "cmt16" /\ SameSets(p) /\ Tending(p) = Upd(p) /\ Pinned(p) = Upd(p)
         /\ rem'[p] = Upd(p) /\ clue' = clue
<1> USE DEF jnlvars, dskvars, tnvars, txnvars, cmtvars
<1>0. /\ pc[p] = "cmt12" /\ pc'[p] = "cmt16" /\ CommitFrame(p) /\ bt' = bt /\ curr_tn' = curr_tn + 1 /\ todo' = todo
      /\ cr' = cr /\ rem'[p] = Upd(p) /\ clue' = clue
  BY DEF IncrementTn, CommitFrame, Go, Types, ProcTypes
<1>1. Upd(p)' = Upd(p) /\ rem[p] = {} /\ Upd(p) \subseteq Block
  BY <1>0, JobFacts DEF Upd, JobInv, JobFor, Early
<1>2. /\ Tending(p)' = Upd(p) /\ Pinned(p)' = Upd(p) /\ Locked(p)' = Upd(p)
      /\ Tending(p) = Upd(p) /\ Pinned(p) = Upd(p) /\ Locked(p) = Upd(p)
  BY <1>0, <1>1 DEF Tending, Pinned, Locked, Early, Phase2, InCommit
<1>3. Unbuilt(p)' = Unbuilt(p)  BY <1>0, <1>2 DEF Unbuilt
<1> QED  BY <1>0, <1>2, <1>3 DEF SameSets

LEMMA BuildStartIs ==
  ASSUME Types, JobInv, PinInv, NEW p \in Proc, BuildStart(p), NEW b, NEW c, b = Cse(p), c = CseCr(p)
  PROVE  /\ Turn(p, b, c) /\ CommitFrame(p) /\ bt' = bt /\ curr_tn' = curr_tn /\ todo' = todo /\ rem' = rem
         /\ pc[p] = "cmt18a" /\ pc'[p] = "cmt18b" /\ SameSets(p)
         /\ Only(c) /\ SameId(c) /\ SameLock(c) /\ SameWtr(c) /\ SameTn(c) /\ SameAddr(c)
         /\ cr'[c].data.blk = cr[c].data.blk
<1> USE DEF jnlvars, dskvars, tnvars, txnvars, cmtvars
<1>0. /\ pc[p] = "cmt18a" /\ pc'[p] = "cmt18b" /\ CommitFrame(p) /\ bt' = bt /\ curr_tn' = curr_tn /\ todo' = todo
      /\ rem' = rem
  BY DEF BuildStart, CommitFrame, Go, Types, ProcTypes
<1>1. Turn(p, b, c)  BY <1>0, TurnIs DEF Phase2
<1>2. Tending(p)' = Tending(p) /\ Pinned(p)' = Pinned(p) /\ Locked(p)' = Locked(p)
  BY <1>0 DEF Tending, Pinned, Locked, Early, Phase2, InCommit
<1>3. Unbuilt(p)' = Unbuilt(p)  BY <1>0, <1>2 DEF Unbuilt
<1>4. PICK r \in CacheRec : r = cr[c]  BY <1>1, CrFields DEF Turn
<1>5. PICK v : v = [r.data EXCEPT !.tn = Torn]  OBVIOUS
<1>6. cr' = [cr EXCEPT ![c] = [r EXCEPT !.data = v]]
  BY <1>1, <1>4, <1>5 DEF BuildStart, Turn, Types, BufTypes, CacheRec
<1>7. Only(c) /\ cr'[c] = [r EXCEPT !.data = v]  BY <1>1, <1>6, OnlyIs DEF Turn
<1>8. v.blk = r.data.blk  BY <1>5 DEF CacheRec, Contents
<1>9. /\ SameId(c) /\ SameLock(c) /\ SameWtr(c) /\ SameTn(c) /\ SameAddr(c) /\ cr'[c].data = v
  BY <1>4, <1>7 DEF CacheRec, SameId, SameLock, SameWtr, SameTn, SameAddr
<1> QED  BY <1>0, <1>1, <1>2, <1>3, <1>4, <1>7, <1>8, <1>9 DEF SameSets

LEMMA BuildEndIs ==
  ASSUME Types, JobInv, PinInv, NEW p \in Proc, BuildEnd(p), NEW b, NEW c, b = Cse(p), c = CseCr(p)
  PROVE  /\ Turn(p, b, c) /\ CommitFrame(p) /\ bt' = bt /\ curr_tn' = curr_tn /\ todo' = todo /\ rem' = rem
         /\ pc[p] = "cmt18b" /\ pc'[p] = "cmt18c"
         /\ Tending(p)' = Tending(p) /\ Pinned(p)' = Pinned(p) /\ Locked(p)' = Locked(p)
         /\ Unbuilt(p)' = Unbuilt(p) \ {b} /\ b \in Unbuilt(p)
         /\ Only(c) /\ SameId(c) /\ SameLock(c) /\ SameTn(c)
         /\ cr'[c].dirty = cr[c].dirty /\ cr'[c].latch = cr[c].latch
         /\ cr'[c].data.blk = cr[c].data.blk /\ cr'[c].data.tn = ctn[p]
         /\ cr[c].tn # 0 => SameAddr(c) /\ cr'[c].queued = cr[c].queued
         /\ cr[c].tn = 0 => cr'[c].jnl_addr = jnl_freeaddr[p][b] /\ cr'[c].queued
<1> USE DEF jnlvars, dskvars, tnvars, txnvars, cmtvars
<1>0. /\ pc[p] = "cmt18b" /\ pc'[p] = "cmt18c" /\ CommitFrame(p) /\ bt' = bt /\ curr_tn' = curr_tn /\ todo' = todo
      /\ rem' = rem
  BY DEF BuildEnd, CommitFrame, Go, Types, ProcTypes
<1>1. Turn(p, b, c)  BY <1>0, TurnIs DEF Phase2
<1>2. Tending(p)' = Tending(p) /\ Pinned(p)' = Pinned(p) /\ Locked(p)' = Locked(p) /\ Cse(p)' = b /\ b \in Locked(p)
  BY <1>0, <1>1 DEF Tending, Pinned, Locked, Early, Phase2, InCommit, Cse, Turn
<1>3. Unbuilt(p)' = Unbuilt(p) \ {b} /\ b \in Unbuilt(p)  BY <1>0, <1>2 DEF Unbuilt
<1>4. PICK r \in CacheRec : r = cr[c]  BY <1>1, CrFields DEF Turn
<1>5. PICK v : v = [r.data EXCEPT !.tn = ctn[p]]  OBVIOUS
<1>6. Only(c) /\ cr'[c] = Built(p, r)
  <2>1. cr' = [cr EXCEPT ![c] = Built(p, r)]  BY <1>4 DEF BuildEnd
  <2> QED  BY <1>1, <2>1, OnlyIs DEF Turn
<1>7. r.blk = b  BY <1>1, <1>4 DEF Turn
<1>8. v.blk = r.data.blk /\ v.tn = ctn[p]  BY <1>5 DEF CacheRec, Contents
<1>9. CASE r.tn # 0
  <2>1. cr'[c] = [r EXCEPT !.data = v]  BY <1>5, <1>6, <1>9 DEF Built, CacheRec
  <2>2. /\ SameId(c) /\ SameLock(c) /\ SameWtr(c) /\ SameTn(c) /\ SameAddr(c) /\ cr'[c].data = v
    BY <1>4, <2>1 DEF CacheRec, SameId, SameLock, SameWtr, SameTn, SameAddr
  <2> QED  BY <1>0, <1>1, <1>2, <1>3, <1>4, <1>6, <1>8, <1>9, <2>2 DEF SameWtr
<1>10. CASE r.tn = 0
  <2>1. cr'[c] = [r EXCEPT !.data = v, !.jnl_addr = jnl_freeaddr[p][b], !.queued = TRUE]
    BY <1>5, <1>6, <1>7, <1>10 DEF Built, CacheRec
  <2>2. /\ SameId(c) /\ SameLock(c) /\ SameTn(c) /\ cr'[c].dirty = cr[c].dirty /\ cr'[c].latch = cr[c].latch
        /\ cr'[c].data = v /\ cr'[c].jnl_addr = jnl_freeaddr[p][b] /\ cr'[c].queued
    BY <1>4, <2>1 DEF CacheRec, SameId, SameLock, SameTn
  <2> QED  BY <1>0, <1>1, <1>2, <1>3, <1>4, <1>6, <1>8, <1>10, <2>2
<1> QED  BY <1>9, <1>10

LEMMA ReleaseIs ==
  ASSUME Types, JobInv, PinInv, NEW p \in Proc, Release(p), NEW b, NEW c, b = Cse(p), c = CseCr(p)
  PROVE  /\ Turn(p, b, c) /\ CommitFrame(p) /\ bt' = bt /\ curr_tn' = curr_tn /\ todo' = todo /\ rem' = rem
         /\ pc[p] = "cmt18c" /\ pc'[p] = "cmt18d"
         /\ Tending(p)' = Tending(p) /\ Pinned(p)' = Pinned(p) /\ Locked(p)' = Locked(p) \ {b} /\ b \in Locked(p)
         /\ Unbuilt(p)' = Unbuilt(p) /\ b \notin Unbuilt(p) /\ Cse(p)' = b
         /\ Only(c) /\ SameId(c) /\ SameLock(c) /\ SameTn(c) /\ SameAddr(c) /\ SameData(c)
         /\ cr'[c].dirty = cr[c].dirty /\ cr'[c].latch = "clear"
         /\ cr'[c].queued = (cr[c].queued \/ cr[c].latch = "conflict")
<1> USE DEF jnlvars, dskvars, tnvars, txnvars, cmtvars
<1>0. /\ pc[p] = "cmt18c" /\ pc'[p] = "cmt18d" /\ CommitFrame(p) /\ bt' = bt /\ curr_tn' = curr_tn /\ todo' = todo
      /\ rem' = rem
  BY DEF Release, CommitFrame, Go, Types, ProcTypes
<1>1. Turn(p, b, c)  BY <1>0, TurnIs DEF Phase2
<1>2. /\ Tending(p)' = Tending(p) /\ Pinned(p)' = Pinned(p) /\ Locked(p)' = Locked(p) \ {b} /\ Cse(p)' = b
      /\ b \in Locked(p)
  BY <1>0, <1>1 DEF Tending, Pinned, Locked, Early, Phase2, InCommit, Cse, Turn
<1>3. Unbuilt(p)' = Unbuilt(p) /\ b \notin Unbuilt(p)  BY <1>0, <1>2, <1>1 DEF Unbuilt, Turn
<1>4. PICK r \in CacheRec : r = cr[c]  BY <1>1, CrFields DEF Turn
<1>6. Only(c) /\ cr'[c] = Released(r)
  <2>1. cr' = [cr EXCEPT ![c] = Released(r)]  BY <1>4 DEF Release
  <2> QED  BY <1>1, <2>1, OnlyIs DEF Turn
<1>7. /\ SameId(c) /\ SameLock(c) /\ SameTn(c) /\ SameAddr(c) /\ SameData(c)
      /\ cr'[c].dirty = cr[c].dirty /\ cr'[c].latch = "clear"
  BY <1>4, <1>6 DEF Released, CacheRec, SameId, SameLock, SameTn, SameAddr, SameData
<1>8. cr'[c].queued = (cr[c].queued \/ cr[c].latch = "conflict")  BY <1>4, <1>6 DEF Released, CacheRec
<1> QED  BY <1>0, <1>1, <1>2, <1>3, <1>6, <1>7, <1>8

LEMMA ResetIs ==
  ASSUME Types, JobInv, PinInv, NEW p \in Proc, ResetInTend(p), NEW b, NEW c, b = Cse(p), c = CseCr(p)
  PROVE  /\ Turn(p, b, c) /\ CommitFrame(p) /\ bt' = bt /\ curr_tn' = curr_tn
         /\ pc[p] = "cmt18d" /\ rem'[p] = rem[p] \ {b} /\ pc'[p] = IF rem[p] \ {b} = {} THEN "idle" ELSE "cmt18a"
         /\ Tending(p)' = Tending(p) \ {b} /\ Pinned(p)' = Pinned(p) \ {b} /\ Locked(p)' = Locked(p)
         /\ Unbuilt(p)' = Unbuilt(p) /\ b \notin Unbuilt(p) /\ b \notin Locked(p)
         /\ Only(c) /\ SameId(c) /\ SameWtr(c) /\ SameTn(c) /\ SameAddr(c) /\ SameData(c)
         /\ cr'[c].in_tend = NoProc /\ cr'[c].in_cw_set = NoProc
<1> USE DEF jnlvars, dskvars, tnvars, txnvars, cmtvars
<1>0. /\ pc[p] = "cmt18d" /\ CommitFrame(p) /\ bt' = bt /\ curr_tn' = curr_tn
      /\ rem'[p] = rem[p] \ {b} /\ pc'[p] = IF rem[p] \ {b} = {} THEN "idle" ELSE "cmt18a"
  BY DEF ResetInTend, NextCse, CommitFrame, Go, Types, ProcTypes
<1>1. Turn(p, b, c)  BY <1>0, TurnIs DEF Phase2
<1>2. /\ Tending(p)' = Tending(p) \ {b} /\ Pinned(p)' = Pinned(p) \ {b} /\ Locked(p)' = Locked(p)
      /\ b \notin Locked(p)
  BY <1>0, <1>1 DEF Tending, Pinned, Locked, Early, Phase2, InCommit, Turn
<1>3. Unbuilt(p)' = Unbuilt(p) /\ b \notin Unbuilt(p)  BY <1>0, <1>2 DEF Unbuilt
<1>4. PICK r \in CacheRec : r = cr[c]  BY <1>1, CrFields DEF Turn
<1>5. cr' = [cr EXCEPT ![c] = [r EXCEPT !.in_tend = NoProc, !.in_cw_set = NoProc]]
  BY <1>1, <1>4 DEF ResetInTend, Turn, Types, BufTypes
<1>6. Only(c) /\ cr'[c] = [r EXCEPT !.in_tend = NoProc, !.in_cw_set = NoProc]  BY <1>1, <1>5, OnlyIs DEF Turn
<1>7. /\ SameId(c) /\ SameWtr(c) /\ SameTn(c) /\ SameAddr(c) /\ SameData(c)
      /\ cr'[c].in_tend = NoProc /\ cr'[c].in_cw_set = NoProc
  BY <1>4, <1>6 DEF CacheRec, SameId, SameWtr, SameTn, SameAddr, SameData
<1> QED  BY <1>0, <1>1, <1>2, <1>3, <1>6, <1>7

(* The writers: what w leaves alone *)
WtrFrame ==
  /\ hist' = hist /\ lvl' = lvl /\ pc' = pc /\ todo' = todo /\ jnl' = jnl /\ bt' = bt /\ curr_tn' = curr_tn
  /\ rem' = rem /\ ctn' = ctn /\ jnl_freeaddr' = jnl_freeaddr /\ epoch_tn' = epoch_tn /\ dskaddr' = dskaddr
  /\ \A q \in Proc : SameSets(q)

LEMMA WtrFrameIs ==
  ASSUME NEW w \in Writer, WtStep(w)
  PROVE  WtrFrame
<1> USE DEF jnlvars, dskvars, tnvars, txnvars, cmtvars
<1>1. /\ hist' = hist /\ lvl' = lvl /\ pc' = pc /\ todo' = todo /\ jnl' = jnl /\ bt' = bt /\ curr_tn' = curr_tn
      /\ rem' = rem /\ ctn' = ctn /\ jnl_freeaddr' = jnl_freeaddr /\ epoch_tn' = epoch_tn /\ dskaddr' = dskaddr
  <2>1. ASSUME NEW c \in Buffer, WtStart(w, c)  PROVE <1>1!:  BY <2>1 DEF WtStart
  <2>2. CASE WtLock(w)  BY <2>2 DEF WtLock
  <2>3. CASE WtWrite(w)  BY <2>3 DEF WtWrite
  <2>4. CASE WtRelease(w)  BY <2>4 DEF WtRelease
  <2> QED  BY <2>1, <2>2, <2>3, <2>4 DEF WtStep
<1>2. Others(NoProc)  BY OthersWriter
<1>3. \A q \in Proc : q \in Proc \ {NoProc}  BY BlockNat
<1>4. \A q \in Proc : SameSets(q)  BY <1>2, <1>3, OtherSets DEF SameSets
<1> QED  BY <1>1, <1>4 DEF WtrFrame

LEMMA WtStartIs ==
  ASSUME Types, NEW w \in Writer, NEW c \in Buffer, WtStart(w, c)
  PROVE  /\ wtr[w].pc = "idle" /\ cr[c].queued /\ cr[c].jnl_addr <= dskaddr
         /\ Only(c) /\ SameId(c) /\ SameLock(c) /\ SameTn(c) /\ SameAddr(c) /\ SameData(c)
         /\ cr'[c].dirty = cr[c].dirty /\ cr'[c].latch = cr[c].latch /\ ~cr'[c].queued
         /\ wtr'[w].pc = "lock" /\ wtr'[w].cr = c /\ \A v \in Writer \ {w} : wtr'[v] = wtr[v]
         /\ disk' = disk /\ stable' = stable /\ need_db_fsync' = need_db_fsync
         /\ fsync_dskaddr' = IF cr[c].jnl_addr > fsync_dskaddr THEN dskaddr ELSE fsync_dskaddr
<1>1. PICK r \in CacheRec : r = cr[c]  BY CrFields
<1>2. cr' = [cr EXCEPT ![c] = [r EXCEPT !.queued = FALSE]]  BY <1>1 DEF WtStart, Types, BufTypes
<1>3. Only(c) /\ cr'[c] = [r EXCEPT !.queued = FALSE]  BY <1>2, OnlyIs
<1>4. /\ SameId(c) /\ SameLock(c) /\ SameTn(c) /\ SameAddr(c) /\ SameData(c)
      /\ cr'[c].dirty = cr[c].dirty /\ cr'[c].latch = cr[c].latch /\ ~cr'[c].queued
  BY <1>1, <1>3 DEF CacheRec, SameId, SameLock, SameTn, SameAddr, SameData
<1>5. wtr'[w].pc = "lock" /\ wtr'[w].cr = c /\ \A v \in Writer \ {w} : wtr'[v] = wtr[v]
  BY DEF WtStart, Types, WtrTypes
<1> QED  BY <1>3, <1>4, <1>5 DEF WtStart, JnlWritten, dskvars

LEMMA WtLockIs ==
  ASSUME Types, NEW w \in Writer, WtLock(w), NEW c, c = wtr[w].cr
  PROVE  /\ wtr[w].pc = "lock" /\ c \in Buffer
         /\ Only(c) /\ SameId(c) /\ SameLock(c) /\ SameTn(c) /\ SameAddr(c) /\ SameData(c)
         /\ cr'[c].dirty = cr[c].dirty /\ cr'[c].latch = "conflict" /\ cr'[c].queued = cr[c].queued
         /\ wtr'[w].pc = (IF cr[c].latch = "clear" THEN "write" ELSE "idle") /\ wtr'[w].cr = c
         /\ \A v \in Writer \ {w} : wtr'[v] = wtr[v]
         /\ disk' = disk /\ stable' = stable /\ need_db_fsync' = need_db_fsync /\ fsync_dskaddr' = fsync_dskaddr
<1>0. c \in Buffer  BY WtrFields
<1>1. PICK r \in CacheRec : r = cr[c]  BY <1>0, CrFields
<1>2. cr' = [cr EXCEPT ![c] = [r EXCEPT !.latch = "conflict"]]  BY <1>0, <1>1 DEF WtLock, Types, BufTypes
<1>3. Only(c) /\ cr'[c] = [r EXCEPT !.latch = "conflict"]  BY <1>0, <1>2, OnlyIs
<1>4. /\ SameId(c) /\ SameLock(c) /\ SameTn(c) /\ SameAddr(c) /\ SameData(c)
      /\ cr'[c].dirty = cr[c].dirty /\ cr'[c].latch = "conflict" /\ cr'[c].queued = cr[c].queued
  BY <1>1, <1>3 DEF CacheRec, SameId, SameLock, SameTn, SameAddr, SameData
<1>5. /\ wtr'[w].pc = (IF cr[c].latch = "clear" THEN "write" ELSE "idle") /\ wtr'[w].cr = c
      /\ \A v \in Writer \ {w} : wtr'[v] = wtr[v]
  BY DEF WtLock, Types, WtrTypes
<1> QED  BY <1>0, <1>3, <1>4, <1>5 DEF WtLock, dskvars, jnlvars

LEMMA WtWriteIs ==
  ASSUME Types, NEW w \in Writer, WtWrite(w), NEW c, c = wtr[w].cr
  PROVE  /\ wtr[w].pc = "write" /\ c \in Buffer
         /\ Only(c) /\ SameId(c) /\ SameLock(c) /\ SameTn(c) /\ SameAddr(c) /\ SameData(c)
         /\ cr'[c].dirty = 0 /\ cr'[c].latch = cr[c].latch /\ cr'[c].queued = cr[c].queued
         /\ wtr'[w].pc = "release" /\ wtr'[w].cr = c /\ \A v \in Writer \ {w} : wtr'[v] = wtr[v]
         /\ \A b \in Block : /\ disk'[b] = IF b = cr[c].blk THEN cr[c].data ELSE disk[b]
                             /\ stable'[b] = IF b = cr[c].blk
                                             THEN stable[b] \cup {cr[c].data, [blk |-> b, tn |-> Torn]}
                                             ELSE stable[b]
         /\ need_db_fsync' = need_db_fsync /\ fsync_dskaddr' = fsync_dskaddr
<1>0. c \in Buffer  BY WtrFields
<1>1. PICK r \in CacheRec : r = cr[c]  BY <1>0, CrFields
<1>2. cr' = [cr EXCEPT ![c] = [r EXCEPT !.dirty = 0]]  BY <1>0, <1>1 DEF WtWrite, Types, BufTypes
<1>3. Only(c) /\ cr'[c] = [r EXCEPT !.dirty = 0]  BY <1>0, <1>2, OnlyIs
<1>4. /\ SameId(c) /\ SameLock(c) /\ SameTn(c) /\ SameAddr(c) /\ SameData(c)
      /\ cr'[c].dirty = 0 /\ cr'[c].latch = cr[c].latch /\ cr'[c].queued = cr[c].queued
  BY <1>1, <1>3 DEF CacheRec, SameId, SameLock, SameTn, SameAddr, SameData
<1>5. /\ wtr'[w].pc = "release" /\ wtr'[w].cr = c /\ \A v \in Writer \ {w} : wtr'[v] = wtr[v]
  BY DEF WtWrite, Types, WtrTypes
<1>6. \A b \in Block : disk'[b] = IF b = cr[c].blk THEN cr[c].data ELSE disk[b]
  BY DEF WtWrite, Types, FileTypes
<1>7. \A b \in Block : stable'[b] = IF b = cr[c].blk
                                    THEN stable[b] \cup {cr[c].data, [blk |-> b, tn |-> Torn]} ELSE stable[b]
  BY DEF WtWrite, Types, FileTypes
<1> QED  BY <1>0, <1>3, <1>4, <1>5, <1>6, <1>7 DEF WtWrite, jnlvars

LEMMA WtReleaseIs ==
  ASSUME Types, NEW w \in Writer, WtRelease(w), NEW c, c = wtr[w].cr
  PROVE  /\ wtr[w].pc = "release" /\ c \in Buffer
         /\ Only(c) /\ SameId(c) /\ SameLock(c) /\ SameTn(c) /\ SameAddr(c) /\ SameData(c)
         /\ cr'[c].dirty = cr[c].dirty /\ cr'[c].latch = "clear" /\ cr'[c].queued = cr[c].queued
         /\ wtr'[w].pc = "idle" /\ wtr'[w].cr = c /\ \A v \in Writer \ {w} : wtr'[v] = wtr[v]
         /\ disk' = disk /\ stable' = stable /\ need_db_fsync' = need_db_fsync /\ fsync_dskaddr' = fsync_dskaddr
<1>0. c \in Buffer  BY WtrFields
<1>1. PICK r \in CacheRec : r = cr[c]  BY <1>0, CrFields
<1>2. cr' = [cr EXCEPT ![c] = [r EXCEPT !.latch = "clear"]]  BY <1>0, <1>1 DEF WtRelease, Types, BufTypes
<1>3. Only(c) /\ cr'[c] = [r EXCEPT !.latch = "clear"]  BY <1>0, <1>2, OnlyIs
<1>4. /\ SameId(c) /\ SameLock(c) /\ SameTn(c) /\ SameAddr(c) /\ SameData(c)
      /\ cr'[c].dirty = cr[c].dirty /\ cr'[c].latch = "clear" /\ cr'[c].queued = cr[c].queued
  BY <1>1, <1>3 DEF CacheRec, SameId, SameLock, SameTn, SameAddr, SameData
<1>5. /\ wtr'[w].pc = "idle" /\ wtr'[w].cr = c /\ \A v \in Writer \ {w} : wtr'[v] = wtr[v]
  BY DEF WtRelease, Types, WtrTypes
<1> QED  BY <1>0, <1>3, <1>4, <1>5 DEF WtRelease, dskvars, jnlvars

-----------------------------------------------------------------------------
(* PinInv: a block is in one buffer, and a commit keeps the buffers of its blocks *)

SameAll(c) == SameId(c) /\ SameLock(c) /\ SameWtr(c) /\ SameTn(c) /\ SameAddr(c) /\ SameData(c)

LEMMA OnlyAll ==
  ASSUME NEW c, Only(c), NEW d \in Buffer \ {c}
  PROVE  SameAll(d)
BY DEF Only, SameAll, SameId, SameLock, SameWtr, SameTn, SameAddr, SameData

LEMMA OtherSame ==
  ASSUME NEW p, Others(p), NEW q \in Proc \ {p}
  PROVE  SameSets(q)
BY OtherSets DEF SameSets

LEMMA TendingPinned ==
  ASSUME Types, JobInv, NEW p \in Proc
  PROVE  /\ Tending(p) \subseteq Pinned(p) /\ Locked(p) \subseteq Tending(p) /\ Unbuilt(p) \subseteq Locked(p)
         /\ Pinned(p) \subseteq Block
<1>1. pc[p] = "cmt10w" => Cse(p) \in Upd(p)
  <2> HAVE pc[p] = "cmt10w"
  <2>1. Cse(p) \in rem[p] /\ rem[p] \subseteq Upd(p)  BY CseIs DEF JobInv, JobFor, Early
  <2> QED  BY <2>1
<1>2. Tending(p) \subseteq Pinned(p)  BY <1>1 DEF Tending, Pinned, Early, InCommit, Phase2
<1>3. Locked(p) \subseteq Tending(p)  BY DEF Tending, Locked
<1> QED  BY <1>2, <1>3 DEF Unbuilt, Pinned

(* No other process tends to a block that p has pinned. *)
LEMMA PinOne ==
  ASSUME Types, JobInv, PinInv, NEW p \in Proc, NEW q \in Proc, NEW b \in Pinned(p), b \in Pinned(q)
  PROVE  p = q
<1>1. b \in Block /\ hist[p][b] \in HistRec  BY TendingPinned DEF Types, HistTypes
<1>2. hist[p][b].cr \in Buffer /\ cr[hist[p][b].cr].blk = b  BY <1>1, HistFields DEF PinInv
<1>3. cr[hist[p][b].cr].in_cw_set = p /\ cr[hist[p][b].cr].in_cw_set = q  BY <1>2 DEF PinInv
<1> QED  BY <1>3

LEMMA PinFrame ==
  ASSUME PinInv, Buffer' = Buffer, \A c \in Buffer : SameId(c) /\ SameLock(c), hist' = hist,
         \A q \in Proc : Tending(q)' = Tending(q) /\ Pinned(q)' = Pinned(q),
         Types, JobInv
  PROVE  PinInv'
<1>1. \A c, d \in Buffer' : cr'[c].blk # NoBlock /\ cr'[c].blk = cr'[d].blk => c = d  BY DEF PinInv, SameId
<1>2. \A c \in Buffer', q \in Proc : cr'[c].in_tend = q <=> cr'[c].blk \in Tending(q)'
  BY DEF PinInv, SameId, SameLock
<1>3. \A c \in Buffer', q \in Proc : cr'[c].in_cw_set = q <=> cr'[c].blk \in Pinned(q)'
  BY DEF PinInv, SameId, SameLock
<1>4. ASSUME NEW q \in Proc, NEW b \in Pinned(q)'
      PROVE  LET h == hist'[q][b] IN cr'[h.cr].blk = b /\ cr'[h.cr].cycle = h.cycle /\ cr'[h.cr].rip = NoProc
  <2>1. b \in Pinned(q) /\ b \in Block  BY <1>4, TendingPinned
  <2>2. hist[q][b] \in HistRec  BY <2>1 DEF Types, HistTypes
  <2>3. hist[q][b].cr \in Buffer  BY <2>2, HistFields
  <2> QED  BY <2>1, <2>3 DEF PinInv, Kept, SameId
<1> QED  BY <1>1, <1>2, <1>3, <1>4 DEF PinInv, Kept

LEMMA PinNewBuffer ==
  ASSUME Types, JobInv, PinInv, NEW p \in Proc, NewBuffer(p), Others(p)
  PROVE  PinInv'
<1>1. PICK c \in Reusable(p) :
        /\ c \in Buffer /\ Only(c) /\ cr'[c].rip = p /\ cr'[c].blk = Blk(p) /\ cr'[c].cycle = cr[c].cycle + 1
        /\ SameLock(c)
  BY NewBufferIs
<1>2. NewSets(p) /\ Blk(p) \in Block /\ CrOf(Blk(p)) = {}  BY NewBufferIs
<1>3. \A d \in Buffer : cr[d].blk # Blk(p)  BY <1>2 DEF CrOf
<1>4. cr[c].in_tend = NoProc /\ cr[c].in_cw_set = NoProc  BY <1>1 DEF Reusable
<1>5. Buffer' = Buffer /\ \A d \in Buffer \ {c} : SameAll(d)  BY <1>1, OnlyAll DEF Only
<1>6. \A q \in Proc : Tending(q)' = Tending(q) /\ Pinned(q)' = Pinned(q)
  BY <1>2, OtherSame DEF NewSets, SameSets
<1>7. \A q \in Proc : Blk(p) \notin Pinned(q) /\ Blk(p) \notin Tending(q)
  <2> TAKE q \in Proc
  <2>1. hist[q][Blk(p)] \in HistRec  BY <1>2 DEF Types, HistTypes
  <2>2. hist[q][Blk(p)].cr \in Buffer  BY <2>1, HistFields
  <2> QED  BY <1>3, <2>2, TendingPinned DEF PinInv
<1>8. \A d, e \in Buffer' : cr'[d].blk # NoBlock /\ cr'[d].blk = cr'[e].blk => d = e
  BY <1>1, <1>3, <1>5 DEF PinInv, SameAll, SameId
<1>9. \A d \in Buffer', q \in Proc : cr'[d].in_tend = q <=> cr'[d].blk \in Tending(q)'
  <2> TAKE d \in Buffer', q \in Proc
  <2>1. CASE d = c  BY <1>1, <1>4, <1>6, <1>7, <2>1, BlockNat DEF SameLock
  <2>2. CASE d # c  BY <1>5, <1>6, <2>2 DEF PinInv, SameAll, SameId, SameLock
  <2> QED  BY <2>1, <2>2
<1>10. \A d \in Buffer', q \in Proc : cr'[d].in_cw_set = q <=> cr'[d].blk \in Pinned(q)'
  <2> TAKE d \in Buffer', q \in Proc
  <2>1. CASE d = c  BY <1>1, <1>4, <1>6, <1>7, <2>1, BlockNat DEF SameLock
  <2>2. CASE d # c  BY <1>5, <1>6, <2>2 DEF PinInv, SameAll, SameId, SameLock
  <2> QED  BY <2>1, <2>2
<1>11. ASSUME NEW q \in Proc, NEW b \in Pinned(q)'
       PROVE  LET h == hist'[q][b] IN cr'[h.cr].blk = b /\ cr'[h.cr].cycle = h.cycle /\ cr'[h.cr].rip = NoProc
  <2>1. b \in Pinned(q) /\ b \in Block /\ q # p  BY <1>2, <1>6, <1>11, TendingPinned DEF NewSets
  <2>2. hist[q][b] \in HistRec /\ hist'[q] = hist[q]  BY <2>1 DEF Types, HistTypes, Others
  <2>3. hist[q][b].cr \in Buffer  BY <2>2, HistFields
  <2>4. cr[hist[q][b].cr].blk = b /\ Kept(hist[q][b]) /\ cr[hist[q][b].cr].rip = NoProc  BY <2>1 DEF PinInv
  <2>5. cr[hist[q][b].cr].in_cw_set = q  BY <2>1, <2>3, <2>4 DEF PinInv
  <2>6. hist[q][b].cr # c  BY <1>4, <2>5, BlockNat
  <2> QED  BY <1>5, <2>2, <2>3, <2>4, <2>6 DEF Kept, SameAll, SameId
<1> QED  BY <1>8, <1>9, <1>10, <1>11 DEF PinInv, Kept

LEMMA PinDskRead ==
  ASSUME Types, JobInv, PinInv, ReadInv, NEW p \in Proc, DskRead(p), Others(p)
  PROVE  PinInv'
<1>0. PICK c : c = Hist(p).cr  OBVIOUS
<1>1. /\ c \in Buffer /\ Only(c) /\ cr'[c].rip = NoProc /\ cr'[c].blk = cr[c].blk /\ cr'[c].cycle = cr[c].cycle
      /\ SameLock(c) /\ NewSets(p) /\ hist' = hist
  BY <1>0, DskReadIs
<1>5. Buffer' = Buffer /\ \A d \in Buffer \ {c} : SameAll(d)  BY <1>1, OnlyAll DEF Only
<1>6. \A q \in Proc : Tending(q)' = Tending(q) /\ Pinned(q)' = Pinned(q)
  BY <1>1, OtherSame DEF NewSets, SameSets
<1>7. \A d \in Buffer : cr'[d].blk = cr[d].blk /\ SameLock(d) /\ cr'[d].cycle = cr[d].cycle
                        /\ (cr[d].rip = NoProc => cr'[d].rip = NoProc)
  BY <1>1, <1>5 DEF SameAll, SameId
<1>8. \A d, e \in Buffer' : cr'[d].blk # NoBlock /\ cr'[d].blk = cr'[e].blk => d = e  BY <1>5, <1>7 DEF PinInv
<1>9. \A d \in Buffer', q \in Proc : cr'[d].in_tend = q <=> cr'[d].blk \in Tending(q)'
  BY <1>5, <1>6, <1>7 DEF PinInv, SameLock
<1>10. \A d \in Buffer', q \in Proc : cr'[d].in_cw_set = q <=> cr'[d].blk \in Pinned(q)'
  BY <1>5, <1>6, <1>7 DEF PinInv, SameLock
<1>11. ASSUME NEW q \in Proc, NEW b \in Pinned(q)'
       PROVE  LET h == hist'[q][b] IN cr'[h.cr].blk = b /\ cr'[h.cr].cycle = h.cycle /\ cr'[h.cr].rip = NoProc
  <2>1. b \in Pinned(q) /\ b \in Block  BY <1>6, <1>11, TendingPinned
  <2>2. hist[q][b] \in HistRec  BY <2>1 DEF Types, HistTypes
  <2>3. hist[q][b].cr \in Buffer  BY <2>2, HistFields
  <2> QED  BY <1>1, <1>7, <2>1, <2>3 DEF PinInv, Kept
<1> QED  BY <1>8, <1>9, <1>10, <1>11 DEF PinInv, Kept

(* Only p pins blocks of its path while it is in crit: the others in phase 2 would show in BT. *)
LEMMA PinPhase1 ==
  ASSUME Types, JobInv, PinInv, NEW p \in Proc, Phase1(p), Others(p)
  PROVE  PinInv'
<1>0. PICK b, c : b = Cse(p) /\ c = CseCr(p)  OBVIOUS
<1>1. /\ Turn(p, b, c) /\ CommitFrame(p) /\ cr[c].in_tend = NoProc /\ Pinned(p)' = Pinned(p)
      /\ Tending(p)' = Tending(p) \cup {b} /\ Only(c) /\ SameId(c) /\ cr'[c].in_cw_set = cr[c].in_cw_set
      /\ cr'[c].in_tend = p
  BY <1>0, Phase1Is DEF DirtiedIs
<1>2. c \in Buffer /\ cr[c].blk = b /\ b \in Block /\ hist' = hist  BY <1>1 DEF Turn, CommitFrame
<1>5. Buffer' = Buffer /\ \A d \in Buffer \ {c} : SameAll(d)  BY <1>1, OnlyAll DEF Only
<1>6. \A q \in Proc : Pinned(q)' = Pinned(q) /\ (q # p => Tending(q)' = Tending(q))
  BY <1>1, OtherSame DEF SameSets
<1>7. \A d \in Buffer : SameId(d) /\ cr'[d].in_cw_set = cr[d].in_cw_set /\ (d # c => cr'[d].in_tend = cr[d].in_tend)
  BY <1>1, <1>5 DEF SameAll, SameLock
<1>8. \A d, e \in Buffer' : cr'[d].blk # NoBlock /\ cr'[d].blk = cr'[e].blk => d = e
  BY <1>5, <1>7 DEF PinInv, SameId
<1>9. ASSUME NEW d \in Buffer', NEW q \in Proc  PROVE cr'[d].in_tend = q <=> cr'[d].blk \in Tending(q)'
  <2>1. CASE d = c
    <3>1. \A r \in Proc : b \notin Tending(r)  BY <1>1, <1>2, BlockNat DEF PinInv
    <3>2. cr'[d].blk = b  BY <1>2, <1>7, <2>1 DEF SameId
    <3> QED  BY <1>1, <1>6, <2>1, <3>1, <3>2
  <2>2. CASE d # c
    <3>1. cr[d].blk # b  BY <1>2, <1>5, <2>2, BlockNat DEF PinInv
    <3> QED  BY <1>1, <1>5, <1>6, <1>7, <2>2, <3>1 DEF PinInv, SameId
  <2> QED  BY <2>1, <2>2
<1>10. \A d \in Buffer', q \in Proc : cr'[d].in_cw_set = q <=> cr'[d].blk \in Pinned(q)'
  BY <1>5, <1>6, <1>7 DEF PinInv, SameId
<1>11. ASSUME NEW q \in Proc, NEW e \in Pinned(q)'
       PROVE  LET h == hist'[q][e] IN cr'[h.cr].blk = e /\ cr'[h.cr].cycle = h.cycle /\ cr'[h.cr].rip = NoProc
  <2>1. e \in Pinned(q) /\ e \in Block  BY <1>6, <1>11, TendingPinned
  <2>2. hist[q][e] \in HistRec  BY <2>1 DEF Types, HistTypes
  <2>3. hist[q][e].cr \in Buffer  BY <2>2, HistFields
  <2> QED  BY <1>2, <1>7, <2>1, <2>3 DEF PinInv, Kept, SameId
<1> QED  BY <1>8, <1>9, <1>10, <1>11 DEF PinInv, Kept

LEMMA PinReset ==
  ASSUME Types, JobInv, PinInv, NEW p \in Proc, ResetInTend(p), Others(p)
  PROVE  PinInv'
<1>0. PICK b, c : b = Cse(p) /\ c = CseCr(p)  OBVIOUS
<1>1. /\ Turn(p, b, c) /\ CommitFrame(p) /\ Pinned(p)' = Pinned(p) \ {b} /\ pc[p] = "cmt18d"
      /\ Tending(p)' = Tending(p) \ {b} /\ Only(c) /\ SameId(c) /\ cr'[c].in_cw_set = NoProc
      /\ cr'[c].in_tend = NoProc
  BY <1>0, ResetIs
<1>2. c \in Buffer /\ cr[c].blk = b /\ b \in Block /\ hist' = hist /\ cr[c].in_cw_set = p
  BY <1>1 DEF Turn, CommitFrame
<1>3. b \in Tending(p) /\ b \in Pinned(p)  BY <1>1 DEF Tending, Pinned, Turn, Phase2
<1>5. Buffer' = Buffer /\ \A d \in Buffer \ {c} : SameAll(d)  BY <1>1, OnlyAll DEF Only
<1>6. \A q \in Proc \ {p} : Pinned(q)' = Pinned(q) /\ Tending(q)' = Tending(q)
  BY OtherSame DEF SameSets
<1>7. \A d \in Buffer : SameId(d) /\ (d # c => SameLock(d))  BY <1>1, <1>5 DEF SameAll
<1>8. \A d, e \in Buffer' : cr'[d].blk # NoBlock /\ cr'[d].blk = cr'[e].blk => d = e
  BY <1>5, <1>7 DEF PinInv, SameId
<1>9. \A q \in Proc \ {p} : b \notin Pinned(q) /\ b \notin Tending(q)  BY <1>3, PinOne, TendingPinned
<1>10. ASSUME NEW d \in Buffer', NEW q \in Proc
       PROVE  (cr'[d].in_tend = q <=> cr'[d].blk \in Tending(q)') /\ (cr'[d].in_cw_set = q <=> cr'[d].blk \in Pinned(q)')
  <2>1. CASE d = c
    <3>1. cr'[d].blk = b  BY <1>2, <1>7, <2>1 DEF SameId
    <3>2. b \notin Tending(q)' /\ b \notin Pinned(q)'  BY <1>1, <1>6, <1>9
    <3> QED  BY <1>1, <2>1, <3>1, <3>2, BlockNat
  <2>2. CASE d # c
    <3>1. cr[d].blk # b  BY <1>2, <1>5, <2>2, BlockNat DEF PinInv
    <3>2. cr'[d].blk = cr[d].blk /\ cr'[d].in_tend = cr[d].in_tend /\ cr'[d].in_cw_set = cr[d].in_cw_set
      BY <1>5, <1>7, <2>2 DEF SameId, SameLock
    <3> QED  BY <1>1, <1>5, <1>6, <3>1, <3>2 DEF PinInv
  <2> QED  BY <2>1, <2>2
<1>11. ASSUME NEW q \in Proc, NEW e \in Pinned(q)'
       PROVE  LET h == hist'[q][e] IN cr'[h.cr].blk = e /\ cr'[h.cr].cycle = h.cycle /\ cr'[h.cr].rip = NoProc
  <2>1. e \in Pinned(q) /\ e \in Block  BY <1>1, <1>6, <1>11, TendingPinned
  <2>2. hist[q][e] \in HistRec  BY <2>1 DEF Types, HistTypes
  <2>3. hist[q][e].cr \in Buffer  BY <2>2, HistFields
  <2> QED  BY <1>2, <1>7, <2>1, <2>3 DEF PinInv, Kept, SameId
<1> QED  BY <1>8, <1>10, <1>11 DEF PinInv, Kept

LEMMA PinRest ==
  ASSUME Types, JobInv, PinInv, NEW p \in Proc, Others(p),
         Phase1Wait(p) \/ IncrementTn(p) \/ BuildStart(p) \/ BuildEnd(p) \/ Release(p)
  PROVE  PinInv'
<1>0. PICK b, c : b = Cse(p) /\ c = CseCr(p)  OBVIOUS
<1>1. /\ hist' = hist /\ Buffer' = Buffer /\ (\A d \in Buffer : SameId(d) /\ SameLock(d))
      /\ Tending(p)' = Tending(p) /\ Pinned(p)' = Pinned(p)
  <2>1. CASE Phase1Wait(p)
    <3>1. /\ CommitFrame(p) /\ Only(c) /\ SameId(c) /\ SameLock(c) /\ Tending(p)' = Tending(p) /\ Pinned(p)' = Pinned(p)
      BY <1>0, <2>1, Phase1WaitIs DEF DirtiedIs, SameLock
    <3> QED  BY <3>1, OnlyAll DEF SameAll, CommitFrame, Only
  <2>2. CASE IncrementTn(p)
    <3>1. CommitFrame(p) /\ SameSets(p) /\ cr' = cr  BY <2>2, IncrementIs
    <3> QED  BY <3>1 DEF CommitFrame, SameSets, SameId, SameLock, Buffer
  <2>3. CASE BuildStart(p)
    <3>1. CommitFrame(p) /\ SameSets(p) /\ Only(c) /\ SameId(c) /\ SameLock(c)  BY <1>0, <2>3, BuildStartIs
    <3> QED  BY <3>1, OnlyAll DEF SameAll, CommitFrame, Only, SameSets
  <2>4. CASE BuildEnd(p)
    <3>1. /\ CommitFrame(p) /\ Only(c) /\ SameId(c) /\ SameLock(c) /\ Tending(p)' = Tending(p) /\ Pinned(p)' = Pinned(p)
      BY <1>0, <2>4, BuildEndIs
    <3> QED  BY <3>1, OnlyAll DEF SameAll, CommitFrame, Only
  <2>5. CASE Release(p)
    <3>1. /\ CommitFrame(p) /\ Only(c) /\ SameId(c) /\ SameLock(c) /\ Tending(p)' = Tending(p) /\ Pinned(p)' = Pinned(p)
      BY <1>0, <2>5, ReleaseIs
    <3> QED  BY <3>1, OnlyAll DEF SameAll, CommitFrame, Only
  <2> QED  BY <2>1, <2>2, <2>3, <2>4, <2>5
<1>2. \A q \in Proc : Tending(q)' = Tending(q) /\ Pinned(q)' = Pinned(q)  BY <1>1, OtherSame DEF SameSets
<1> QED  BY <1>1, <1>2, PinFrame

LEMMA WriterOnly ==
  ASSUME Types, NEW w \in Writer, WtStep(w)
  PROVE  \E c \in Buffer : Only(c) /\ SameId(c) /\ SameLock(c) /\ SameTn(c) /\ SameAddr(c) /\ SameData(c)
<1>1. ASSUME NEW c \in Buffer, WtStart(w, c)
      PROVE  Only(c) /\ SameId(c) /\ SameLock(c) /\ SameTn(c) /\ SameAddr(c) /\ SameData(c)  BY <1>1, WtStartIs
<1>2. PICK c : c = wtr[w].cr  OBVIOUS
<1>3. WtLock(w) \/ WtWrite(w) \/ WtRelease(w) =>
        c \in Buffer /\ Only(c) /\ SameId(c) /\ SameLock(c) /\ SameTn(c) /\ SameAddr(c) /\ SameData(c)
  BY <1>2, WtLockIs, WtWriteIs, WtReleaseIs
<1> QED  BY <1>1, <1>3 DEF WtStep

LEMMA PinWriter ==
  ASSUME Types, JobInv, PinInv, NEW w \in Writer, WtStep(w)
  PROVE  PinInv'
<1>1. PICK c \in Buffer : Only(c) /\ SameId(c) /\ SameLock(c)  BY WriterOnly
<1>2. hist' = hist /\ \A q \in Proc : SameSets(q)  BY WtrFrameIs DEF WtrFrame
<1>3. Buffer' = Buffer /\ \A d \in Buffer : SameId(d) /\ SameLock(d)  BY <1>1, OnlyAll DEF SameAll, Only
<1> QED  BY <1>2, <1>3, PinFrame DEF SameSets
=============================================================================
