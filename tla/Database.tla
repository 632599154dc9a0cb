------------------------------ MODULE Database ------------------------------
(***************************************************************************)
(* Optimistic transactions on one journaled BG region: the search with its  *)
(* history and clue (gvcst_search, t_qread), the global buffers             *)
(* (db_csh_getn, bg_update_phase1 and phase2), validation and commit        *)
(* (t_end, t_retry), the writer of dirty buffers (wcs_wtstart), journal     *)
(* output with before-images, and epochs (wcs_flu).                         *)
(*                                                                         *)
(* The contents of a block are its number and the tn in its header, Torn    *)
(* while it is being built.  asyncio is off, so buffers have no twins.  No process   *)
(* is killed here (Commit covers that); a crash of the machine is           *)
(* considered in every state by CrashRecovers.                              *)
(***************************************************************************)
EXTENDS Integers, Sequences, FiniteSetsExt, SequencesExt

CONSTANTS
  Proc,          \* processes, positive numbers
  Writer,        \* the wcs_wtstart calls that may be active at a time
  Block,         \* block numbers, positive; an index block has the smaller number
  CDB_STAGNATE,  \* the number of the final retry
  Workloads      \* [todo, epochs, n_bts]: what is asked of the processes, how many epochs become due,
                 \* and csd->n_bts, the number of global buffers and of BT records

NoProc  == 0
NoBlock == 0
Torn    == -1

\* A transaction reads the blocks of path, root to leaf, and updates those of upd
Job == [path : Seq(Block), upd : SUBSET Block]

\* A search visits a block of the tree per level
IsPath(s) == s # << >> /\ \A i, j \in 1 .. Len(s) : s[i] = s[j] => i = j

ASSUME DatabaseAssumption ==
  /\ Proc \subseteq Nat \ {0} /\ Block \subseteq Nat \ {0}
  /\ CDB_STAGNATE \in Nat \ {0}
  /\ \A w \in Workloads : /\ w.todo \in [Proc -> Seq(Job)] /\ {w.epochs, w.n_bts} \subseteq Nat
                          /\ w.n_bts # 0
                          /\ \A p \in Proc : \A i \in 1 .. Len(w.todo[p]) :
                               /\ IsPath(w.todo[p][i].path)
                               /\ w.todo[p][i].upd \subseteq ToSet(w.todo[p][i].path)
                               /\ Cardinality(w.todo[p][i].upd) < w.n_bts

VARIABLES
  pc, lvl,       \* per process: its next step, the position in path it is at
  todo,          \* per process: the transactions to do; the first is the current one
  tries,         \* per process: t_tries
  start_tn,      \* per process
  hist,          \* per process: the search history, [cr, cycle, tn] and the contents seen, per block
  clue,          \* per process: the path the history is a clue for, or << >>
  same,          \* per process: same_db_state of a read-only t_end
  rem, ctn,      \* per process: the blocks left in this loop over cw_set, the tn of the commit
  jnl_freeaddr,  \* per process and block: cs->jnl_freeaddr
  crit,          \* the owner of the critical section
  curr_tn, early_tn,
  cr,            \* the cache records with their buffers
  bt,            \* the BT in tn order, the oldest first
  disk,          \* the database file as read() returns it, per block
  stable,        \* per block: what the file may hold after a crash
  jnl,           \* the journal: PBLK, logical and EPOCH records, in the order of their reservation
  dskaddr,       \* number of records written to the journal file
  fsync_dskaddr, \* number of records hardened there
  epoch_tn, need_db_fsync,
  epochs,        \* epochs still to become due (bound)
  wtr,           \* per writer: its next step and its cache record
  began          \* history, per process: curr_tn when the transaction began

txnvars == <<todo, tries, start_tn, clue, same, began>>
cmtvars == <<rem, ctn, jnl_freeaddr>>
jnlvars == <<jnl, dskaddr, fsync_dskaddr, epoch_tn, need_db_fsync, epochs>>
dskvars == <<disk, stable>>
tnvars  == <<curr_tn, early_tn>>
vars == <<pc, lvl, todo, tries, start_tn, hist, clue, same, rem, ctn, jnl_freeaddr, crit, curr_tn,
          early_tn, cr, bt, disk, stable, jnl, dskaddr, fsync_dskaddr, epoch_tn, need_db_fsync,
          epochs, wtr, began>>

Reading  == {"clue", "note", "find", "miss", "getn", "read", "cycle", "wait", "intend", "look"}
Checking == {"ro", "romod", "rocyc", "rodone", "grab", "valid", "retry"}
InCommit == {"commit", "flu1", "flu2", "cmt04", "cmt10", "cmt10w", "cmt12"}
Phase2   == {"cmt16", "cmt18a", "cmt18b", "cmt18c", "cmt18d"}
PC       == {"idle", "gone"} \cup Reading \cup Checking \cup InCommit \cup Phase2

Buffer   == DOMAIN cr
Contents == [blk : Block \cup {NoBlock}, tn : Nat \cup {Torn}]
CacheRec == [blk : Block \cup {NoBlock}, cycle : Nat, rip : Proc \cup {NoProc},
             in_tend : Proc \cup {NoProc}, in_cw_set : Proc \cup {NoProc}, dirty : Nat, tn : Nat,
             latch : {"clear", "set", "conflict"}, queued : BOOLEAN, jnl_addr : Nat, data : Contents]
JnlRec   == [type : {"pblk", "set", "epoch"}, by : Proc, blks : SUBSET Block, tn : Nat,
             image : Contents, written : BOOLEAN]

Nothing  == [blk |-> NoBlock, tn |-> 0]
EmptyRec == [blk |-> NoBlock, cycle |-> 0, rip |-> NoProc, in_tend |-> NoProc,
             in_cw_set |-> NoProc, dirty |-> 0, tn |-> 0, latch |-> "clear", queued |-> FALSE,
             jnl_addr |-> 0, data |-> Nothing]
NoHist == [cr |-> 1, cycle |-> 0, tn |-> 0, ver |-> Nothing]

\* A freshly opened database: curr_tn is 1, the journal file starts with an EPOCH of that tn
Init ==
  /\ \E w \in Workloads :
       /\ todo = w.todo /\ epochs = w.epochs
       /\ cr = [c \in 1 .. w.n_bts |-> EmptyRec]
       /\ bt = [i \in 1 .. w.n_bts |-> [blk |-> NoBlock, tn |-> 0]]
  /\ pc = [p \in Proc |-> "idle"] /\ lvl = [p \in Proc |-> 1]
  /\ tries = [p \in Proc |-> 0] /\ start_tn = [p \in Proc |-> 0]
  /\ hist = [p \in Proc |-> [b \in Block |-> NoHist]]
  /\ clue = [p \in Proc |-> << >>] /\ same = [p \in Proc |-> FALSE]
  /\ rem = [p \in Proc |-> {}] /\ ctn = [p \in Proc |-> 0]
  /\ jnl_freeaddr = [p \in Proc |-> [b \in Block |-> 0]]
  /\ crit = NoProc /\ curr_tn = 1 /\ early_tn = 1
  /\ disk = [b \in Block |-> [blk |-> b, tn |-> 0]] /\ stable = [b \in Block |-> {disk[b]}]
  /\ jnl = << >> /\ dskaddr = 0 /\ fsync_dskaddr = 0
  /\ epoch_tn = 1 /\ need_db_fsync = FALSE
  /\ wtr = [w \in Writer |-> [pc |-> "idle", cr |-> 1]]
  /\ began = [p \in Proc |-> 0]

(***************************************************************************)
(* Helpers                                                                  *)
(***************************************************************************)
Path(p)  == Head(todo[p]).path
Upd(p)   == Head(todo[p]).upd
Blk(p)   == Path(p)[lvl[p]]
Hist(p)  == hist[p][Blk(p)]
Final(p) == tries[p] >= CDB_STAGNATE

Go(p, s) == pc' = [pc EXCEPT ![p] = s]

\* db_csh_get: the cache records that hold block b (at most one)
CrOf(b) == {c \in Buffer : cr[c].blk = b}
The(S)  == CHOOSE c \in S : TRUE

OLDEST_HIST_TN == Head(bt).tn
BtOf(b) == {i \in 1 .. Len(bt) : bt[i].blk = b}

\* TP_IS_CDB_SC_BLKMOD: the buffer h points to is being updated, or was since h.tn
BLKMOD(h) == cr[h.cr].in_tend # NoProc \/ h.tn <= cr[h.cr].data.tn

\* Wrong variant: a reused buffer is not noticed.
LostCr_never(h) == FALSE

LostCr(h) == cr[h.cr].cycle # h.cycle

\* jb->freeaddr: the records up to the first one still to be written in phase 2
freeaddr == Max({n \in 0 .. Len(jnl) : \A i \in 1 .. n : jnl[i].written})

\* The contents of b after the logical records of I, and as of the commits before tn t
LastSet(b, I)   == [blk |-> b, tn |-> Max({0} \cup {jnl[i].tn : i \in {j \in I : /\ jnl[j].type = "set"
                                                                                 /\ b \in jnl[j].blks}})]
VersionAt(b, t) == LastSet(b, {i \in 1 .. Len(jnl) : jnl[i].tn < t})

(***************************************************************************)
(* The search: gvcst_search and t_qread                                     *)
(***************************************************************************)
\* t_begin: a history kept as a clue takes start_tn back to its oldest tn
Begin(p) ==
  /\ pc[p] = "idle" /\ todo[p] # << >>
  /\ start_tn' = [start_tn EXCEPT ![p] =
                    Min({curr_tn} \cup {hist[p][b].tn : b \in ToSet(clue[p])})]
  /\ tries' = [tries EXCEPT ![p] = 0] /\ began' = [began EXCEPT ![p] = curr_tn]
  /\ LET use == clue[p] = Path(p) IN
       /\ Go(p, IF use THEN "clue" ELSE "note")
       /\ lvl' = [lvl EXCEPT ![p] = IF use THEN Len(Path(p)) ELSE 1]
  /\ UNCHANGED <<todo, hist, clue, same, crit, cr, bt, wtr, cmtvars, jnlvars, dskvars, tnvars>>

\* Every level of the clue is validated, leaf first; then only the leaf is searched again
CheckClue(p) ==
  /\ pc[p] = "clue"
  /\ LET bad == BLKMOD(Hist(p)) \/ LostCr(Hist(p)) IN
       IF ~bad /\ lvl[p] > 1
       THEN lvl' = [lvl EXCEPT ![p] = @ - 1] /\ UNCHANGED pc
       ELSE /\ Go(p, IF bad THEN "note" ELSE "look")
            /\ lvl' = [lvl EXCEPT ![p] = IF bad THEN 1 ELSE Len(Path(p))]
  /\ UNCHANGED <<hist, crit, cr, bt, wtr, txnvars, cmtvars, jnlvars, dskvars, tnvars>>

SetHist(p, h) == hist' = [hist EXCEPT ![p][Blk(p)] = h]

\* The tn of a history entry is noted before t_qread
NoteTn(p) ==
  /\ pc[p] = "note" /\ Go(p, "find")
  /\ SetHist(p, [Hist(p) EXCEPT !.tn = curr_tn])
  /\ UNCHANGED <<lvl, crit, cr, bt, wtr, txnvars, cmtvars, jnlvars, dskvars, tnvars>>

Find(p) ==
  /\ pc[p] = "find"
  /\ IF CrOf(Blk(p)) = {} THEN Go(p, "miss") /\ UNCHANGED hist
     ELSE Go(p, "cycle") /\ SetHist(p, [Hist(p) EXCEPT !.cr = The(CrOf(Blk(p)))])
  /\ UNCHANGED <<lvl, crit, cr, bt, wtr, txnvars, cmtvars, jnlvars, dskvars, tnvars>>

\* The block is not in memory: get crit, unless this is the final retry, which has it
Miss(p) ==
  /\ pc[p] = "miss" /\ crit = IF Final(p) THEN p ELSE NoProc
  /\ crit' = p /\ Go(p, "getn")
  /\ UNCHANGED <<lvl, hist, cr, bt, wtr, txnvars, cmtvars, jnlvars, dskvars, tnvars>>

\* Wrong variant: the final retry evicts blocks of its own path.
Reusable_stagnate(p) ==
  {c \in Buffer :
     /\ cr[c].in_cw_set = NoProc /\ cr[c].in_tend = NoProc /\ cr[c].dirty = 0
     /\ cr[c].latch = "clear" /\ cr[c].rip = NoProc}

\* The cache records db_csh_getn may reuse: not pinned, clean (it waits for a dirty one to be
\* flushed), the writer gone, no read in progress, and in the final retry (cw_stagnate) not a
\* block this search already uses
Reusable(p) ==
  {c \in Buffer :
     /\ cr[c].in_cw_set = NoProc /\ cr[c].in_tend = NoProc /\ cr[c].dirty = 0
     /\ cr[c].latch = "clear" /\ cr[c].rip = NoProc
     /\ Final(p) => cr[c].blk \notin {Path(p)[i] : i \in 1 .. lvl[p] - 1}}

\* In crit: the block may have arrived; else db_csh_getn takes over a cache record, the empty ones
\* first and in order (the clock hand starts at the first), later any one
GetBuffer(p) ==
  /\ pc[p] = "getn"
  /\ IF CrOf(Blk(p)) # {}
     THEN /\ Go(p, "cycle") /\ SetHist(p, [Hist(p) EXCEPT !.cr = The(CrOf(Blk(p)))])
          /\ UNCHANGED cr
     ELSE /\ Go(p, "read")
          /\ \E c \in Reusable(p) :
               /\ \A d \in Buffer : cr[d].blk = NoBlock => cr[c].blk = NoBlock /\ c <= d
               /\ cr' = [cr EXCEPT ![c].rip = p, ![c].blk = Blk(p), ![c].cycle = @ + 1,
                                   ![c].jnl_addr = 0, ![c].tn = curr_tn]
               /\ SetHist(p, [Hist(p) EXCEPT !.cr = c, !.cycle = cr[c].cycle + 1])
  /\ crit' = IF Final(p) THEN p ELSE NoProc
  /\ UNCHANGED <<lvl, bt, wtr, txnvars, cmtvars, jnlvars, dskvars, tnvars>>

\* dsk_read, out of crit, and the release of the read lock
DskRead(p) ==
  /\ pc[p] = "read" /\ Go(p, "look")
  /\ cr' = [cr EXCEPT ![Hist(p).cr].data = disk[Blk(p)], ![Hist(p).cr].rip = NoProc]
  /\ UNCHANGED <<lvl, hist, crit, bt, wtr, txnvars, cmtvars, jnlvars, dskvars, tnvars>>

\* The cycle is noted before read_in_progress, blk and in_tend are looked at
NoteCycle(p) ==
  /\ pc[p] = "cycle" /\ Go(p, "wait")
  /\ SetHist(p, [Hist(p) EXCEPT !.cycle = cr[Hist(p).cr].cycle])
  /\ UNCHANGED <<lvl, crit, cr, bt, wtr, txnvars, cmtvars, jnlvars, dskvars, tnvars>>

WaitRead(p) ==
  /\ pc[p] = "wait"
  /\ LET c == cr[Hist(p).cr] IN
       /\ c.rip = NoProc \/ c.blk # Blk(p)
       /\ Go(p, IF c.blk # Blk(p) THEN "find"
                ELSE IF c.in_tend # NoProc THEN "intend" ELSE "look")
  /\ UNCHANGED <<lvl, hist, crit, cr, bt, wtr, txnvars, cmtvars, jnlvars, dskvars, tnvars>>

WaitInTend(p) ==
  /\ pc[p] = "intend" /\ cr[Hist(p).cr].in_tend = NoProc /\ Go(p, "look")
  /\ UNCHANGED <<lvl, hist, crit, cr, bt, wtr, txnvars, cmtvars, jnlvars, dskvars, tnvars>>

\* gvcst_search_blk; after the leaf the history becomes the clue
Look(p) ==
  /\ pc[p] = "look"
  /\ SetHist(p, [Hist(p) EXCEPT !.ver = cr[Hist(p).cr].data])
  /\ IF lvl[p] < Len(Path(p))
     THEN lvl' = [lvl EXCEPT ![p] = @ + 1] /\ Go(p, "note") /\ UNCHANGED clue
     ELSE /\ clue' = [clue EXCEPT ![p] = Path(p)] /\ UNCHANGED lvl
          /\ Go(p, IF Upd(p) = {} THEN "ro" ELSE "grab")
  /\ UNCHANGED <<todo, tries, start_tn, same, began, crit, cr, bt, wtr, cmtvars, jnlvars, dskvars,
                 tnvars>>

(***************************************************************************)
(* t_end of a read-only transaction, without crit; and t_retry              *)
(***************************************************************************)
Fail(p) ==
  /\ Go(p, "retry") /\ clue' = [clue EXCEPT ![p] = << >>]
  /\ crit' = IF crit = p THEN NoProc ELSE crit

ReadOnlyEnd(p) ==
  /\ pc[p] = "ro" /\ same' = [same EXCEPT ![p] = start_tn[p] = early_tn]
  /\ Go(p, IF same'[p] THEN "rocyc" ELSE "romod")
  /\ lvl' = [lvl EXCEPT ![p] = Len(Path(p))]
  /\ UNCHANGED <<todo, tries, start_tn, clue, began, hist, crit, cr, bt, wtr, cmtvars, jnlvars,
                 dskvars, tnvars>>

CheckTn(p) ==
  /\ pc[p] = "romod"
  /\ IF BLKMOD(Hist(p)) THEN Fail(p) ELSE Go(p, "rocyc") /\ UNCHANGED <<clue, crit>>
  /\ UNCHANGED <<lvl, todo, tries, start_tn, same, began, hist, cr, bt, wtr, cmtvars, jnlvars,
                 dskvars, tnvars>>

CheckCycle(p) ==
  /\ pc[p] = "rocyc"
  /\ IF LostCr(Hist(p)) THEN Fail(p) /\ UNCHANGED lvl
     ELSE /\ IF lvl[p] > 1 THEN lvl' = [lvl EXCEPT ![p] = @ - 1]
                                /\ Go(p, IF same[p] THEN "rocyc" ELSE "romod")
                           ELSE Go(p, "rodone") /\ UNCHANGED lvl
          /\ UNCHANGED <<clue, crit>>
  /\ UNCHANGED <<todo, tries, start_tn, same, began, hist, cr, bt, wtr, cmtvars, jnlvars, dskvars,
                 tnvars>>

ReadOnlyDone(p) ==
  /\ pc[p] = "rodone" /\ Go(p, "idle")
  /\ crit' = IF crit = p THEN NoProc ELSE crit
  /\ todo' = [todo EXCEPT ![p] = Tail(@)]
  /\ UNCHANGED <<lvl, tries, start_tn, clue, same, began, hist, cr, bt, wtr, cmtvars, jnlvars,
                 dskvars, tnvars>>

\* t_retry: the final retry runs in crit from here; there is none after it
Retry(p) ==
  /\ pc[p] = "retry" /\ ~Final(p)
  /\ tries' = [tries EXCEPT ![p] = @ + 1]
  /\ IF tries'[p] >= CDB_STAGNATE THEN crit = NoProc /\ crit' = p ELSE UNCHANGED crit
  /\ start_tn' = [start_tn EXCEPT ![p] = curr_tn]
  /\ lvl' = [lvl EXCEPT ![p] = 1] /\ Go(p, "note")
  /\ UNCHANGED <<todo, clue, same, began, hist, cr, bt, wtr, cmtvars, jnlvars, dskvars, tnvars>>
(***************************************************************************)
(* t_end of an update                                                       *)
(***************************************************************************)
\* The call of WCS_GET_SPACE before this one only saves time in crit
GrabCrit(p) ==
  /\ pc[p] = "grab" /\ crit = IF Final(p) THEN p ELSE NoProc
  /\ crit' = p /\ Go(p, "valid")
  /\ UNCHANGED <<lvl, hist, cr, bt, wtr, txnvars, cmtvars, jnlvars, dskvars, tnvars>>

\* Wrong variant: a change at the tn of the history passes.
StillValid_ge(b, h) ==
  /\ \A i \in BtOf(b) : h.tn >= bt[i].tn
  /\ BtOf(b) = {} => h.tn > OLDEST_HIST_TN
  /\ h.cr \in CrOf(b) /\ cr[h.cr].cycle = h.cycle

\* The block of h was neither changed since h.tn nor did it leave its buffer
StillValid(b, h) ==
  /\ \A i \in BtOf(b) : h.tn > bt[i].tn
  /\ BtOf(b) = {} => h.tn > OLDEST_HIST_TN
  /\ h.cr \in CrOf(b) /\ cr[h.cr].cycle = h.cycle

\* WCS_GET_SPACE, then the validation; buffers to update are pinned, the history is valid thru now
Validate(p) ==
  /\ pc[p] = "valid"
  /\ Cardinality({c \in Buffer : cr[c].dirty = 0}) > Cardinality(Upd(p))
  /\ IF \A b \in ToSet(Path(p)) : StillValid(b, hist[p][b])
     THEN /\ Go(p, "commit") /\ UNCHANGED <<clue, crit>>
          /\ cr' = [c \in Buffer |-> IF cr[c].blk \in Upd(p)
                                     THEN [cr[c] EXCEPT !.in_cw_set = p] ELSE cr[c]]
          /\ hist' = [hist EXCEPT ![p] = [b \in Block |->
                        IF b \in ToSet(Path(p)) THEN [@[b] EXCEPT !.tn = curr_tn + 1] ELSE @[b]]]
     ELSE Fail(p) /\ UNCHANGED <<cr, hist>>
  /\ UNCHANGED <<lvl, todo, tries, start_tn, same, began, bt, wtr, cmtvars, jnlvars, dskvars, tnvars>>

\* next_epoch_time has come
CheckEpoch(p) ==
  /\ pc[p] = "commit" /\ epochs > 0 /\ epochs' = epochs - 1 /\ Go(p, "flu1")
  /\ UNCHANGED <<lvl, hist, crit, cr, bt, wtr, jnl, dskaddr, fsync_dskaddr, epoch_tn,
                 need_db_fsync, txnvars, cmtvars, dskvars, tnvars>>

\* Wrong variant: reserved records are written before phase 2 has filled them.
JnlOutput_reserved ==
  /\ dskaddr' = Len(jnl) /\ need_db_fsync' = FALSE
  /\ stable' = IF need_db_fsync THEN [b \in Block |-> {disk[b]}] ELSE stable

\* jnl_output_sp: a pending fsync of the database comes before the write to the journal file
JnlOutput ==
  /\ dskaddr' = freeaddr /\ need_db_fsync' = FALSE
  /\ stable' = IF need_db_fsync THEN [b \in Block |-> {disk[b]}] ELSE stable

\* wcs_flu: jnl_flush waits for every reservation to be written, then jnl_fsync
FlushJnl(p) ==
  /\ pc[p] = "flu1" /\ freeaddr = Len(jnl)
  /\ JnlOutput /\ fsync_dskaddr' = dskaddr' /\ Go(p, "flu2")
  /\ UNCHANGED <<lvl, hist, crit, cr, bt, wtr, jnl, epoch_tn, epochs, disk, txnvars, cmtvars, tnvars>>

\* wcs_flu: phase 2 commits are over, every buffer is flushed, no writer is active; the epoch
\* record is written, the fsync of the database left to the next output of the journal
CanWriteEpoch ==
  /\ \A q \in Proc : pc[q] \notin Phase2
  /\ \A c \in Buffer : cr[c].dirty = 0
  /\ \A w \in Writer : wtr[w].pc = "idle"

\* epoch_already_current: no record since the last epoch, so no new one
EpochCurrent == jnl = << >> \/ Last(jnl).type = "epoch"

WriteEpoch(p) ==
  /\ pc[p] = "flu2" /\ CanWriteEpoch /\ Go(p, "cmt04")
  /\ IF EpochCurrent THEN UNCHANGED <<jnl, epoch_tn, need_db_fsync>>
     ELSE /\ jnl' = Append(jnl, [type |-> "epoch", by |-> p, blks |-> {}, tn |-> curr_tn,
                                 image |-> Nothing, written |-> TRUE])
          /\ epoch_tn' = curr_tn /\ need_db_fsync' = TRUE
  /\ UNCHANGED <<lvl, hist, crit, cr, bt, wtr, dskaddr, fsync_dskaddr, epochs, txnvars, cmtvars,
                 dskvars, tnvars>>

\* The blocks whose before-image is not yet in the journal since the last epoch, in cw_set order
NeedPblk(p)  == {b \in Upd(p) : cr[The(CrOf(b))].data.tn < epoch_tn}
InCwOrder(S) == {s \in [1 .. Cardinality(S) -> S] :
                   ToSet(s) = S /\ \A i \in 1 .. Cardinality(S) - 1 : s[i] > s[i + 1]}
Unwritten(p, type, blks) == [type |-> type, by |-> p, blks |-> blks, tn |-> curr_tn, image |-> Nothing,
                             written |-> FALSE]

\* CMT04 and CMT06: early_tn moves, the journal records get their space
Reserve(p) ==
  /\ pc[p] \in {"commit", "cmt04"} /\ Go(p, "cmt10")
  /\ early_tn' = curr_tn + 1
  /\ \E pblks \in InCwOrder(NeedPblk(p)) :
       /\ jnl' = jnl \o [i \in 1 .. Len(pblks) |-> Unwritten(p, "pblk", {pblks[i]})]
                     \o <<Unwritten(p, "set", Upd(p))>>
       /\ jnl_freeaddr' = [jnl_freeaddr EXCEPT ![p] = [b \in Block |->
                             IF b \in NeedPblk(p)
                             THEN Len(jnl) + CHOOSE i \in 1 .. Len(pblks) : pblks[i] = b
                             ELSE 0]]
  /\ rem' = [rem EXCEPT ![p] = Upd(p)] /\ ctn' = [ctn EXCEPT ![p] = curr_tn]
  /\ UNCHANGED <<lvl, hist, crit, cr, bt, wtr, dskaddr, fsync_dskaddr, epoch_tn, need_db_fsync,
                 epochs, curr_tn, txnvars, dskvars>>

\* bt_put: the record of b, or else the oldest one, whose block must be clean, moves to the end
BtPut(b) ==
  LET i == IF BtOf(b) = {} THEN 1 ELSE The(BtOf(b)) IN
    /\ BtOf(b) = {} => \A c \in CrOf(Head(bt).blk) : cr[c].dirty = 0
    /\ bt' = Append(RemoveAt(bt, i), [blk |-> b, tn |-> curr_tn])

\* The block p is to process next in its loop over cw_set, and its cache record
Cse(p)   == Max(rem[p])
CseCr(p) == The(CrOf(Cse(p)))

\* End of phase 1 for a cache record p has locked: tn tells phase 2 that it was dirty already
Dirtied(p, c) == [c EXCEPT !.in_tend = p, !.latch = "set", !.tn = IF c.dirty = 0 THEN 0 ELSE ctn[p],
                           !.dirty = IF @ = 0 THEN ctn[p] ELSE @]
NextCse(p, again, done) ==
  /\ rem' = [rem EXCEPT ![p] = @ \ {Cse(p)}]
  /\ Go(p, IF rem'[p] = {} THEN done ELSE again)

\* CMT10, bg_update_phase1: a writer at work on the buffer keeps it
Phase1(p) ==
  /\ pc[p] = "cmt10" /\ BtPut(Cse(p)) /\ cr[CseCr(p)].in_tend = NoProc
  /\ IF cr[CseCr(p)].latch = "clear"
     THEN /\ cr' = [cr EXCEPT ![CseCr(p)] = Dirtied(p, @)]
          /\ NextCse(p, "cmt10", "cmt12")
     ELSE /\ cr' = [cr EXCEPT ![CseCr(p)].in_tend = p, ![CseCr(p)].latch = "set"]
          /\ Go(p, "cmt10w") /\ UNCHANGED rem
  /\ UNCHANGED <<lvl, hist, crit, wtr, ctn, jnl_freeaddr, txnvars, jnlvars, dskvars, tnvars>>

\* Wrong variant: the update does not wait for the writer.
Phase1Wait_nowait(p) ==
  /\ pc[p] = "cmt10w"
  /\ cr' = [cr EXCEPT ![CseCr(p)] = Dirtied(p, @)]
  /\ NextCse(p, "cmt10", "cmt12")
  /\ UNCHANGED <<lvl, hist, crit, bt, wtr, ctn, jnl_freeaddr, txnvars, jnlvars, dskvars, tnvars>>

\* wcs_write_in_progress_wait: the writer has cleared the latch
Phase1Wait(p) ==
  /\ pc[p] = "cmt10w" /\ cr[CseCr(p)].latch = "clear"
  /\ cr' = [cr EXCEPT ![CseCr(p)] = Dirtied(p, @)]
  /\ NextCse(p, "cmt10", "cmt12")
  /\ UNCHANGED <<lvl, hist, crit, bt, wtr, ctn, jnl_freeaddr, txnvars, jnlvars, dskvars, tnvars>>

\* CMT12 and CMT14
IncrementTn(p) ==
  /\ pc[p] = "cmt12" /\ Go(p, "cmt16")
  /\ curr_tn' = curr_tn + 1 /\ crit' = NoProc
  /\ rem' = [rem EXCEPT ![p] = Upd(p)]
  /\ UNCHANGED <<lvl, hist, cr, bt, wtr, ctn, jnl_freeaddr, early_tn, txnvars, jnlvars, dskvars>>

\* CMT16: the records are written, each before-image from its buffer
WriteJnl(p) ==
  /\ pc[p] = "cmt16" /\ Go(p, "cmt18a")
  /\ jnl' = [i \in 1 .. Len(jnl) |->
              IF jnl[i].by = p /\ ~jnl[i].written
              THEN [jnl[i] EXCEPT !.written = TRUE,
                      !.image = IF jnl[i].type = "pblk" THEN cr[The(CrOf(Max(jnl[i].blks)))].data
                                ELSE Nothing]
              ELSE jnl[i]]
  /\ UNCHANGED <<lvl, hist, crit, cr, bt, wtr, dskaddr, fsync_dskaddr, epoch_tn, need_db_fsync,
                 epochs, txnvars, cmtvars, dskvars, tnvars>>

\* CMT18, bg_update_phase2: the block is changed in place, between the stores of data_invalid
BuildStart(p) ==
  /\ pc[p] = "cmt18a" /\ Go(p, "cmt18b")
  /\ cr' = [cr EXCEPT ![CseCr(p)].data.tn = Torn]
  /\ UNCHANGED <<lvl, hist, crit, bt, wtr, txnvars, cmtvars, jnlvars, dskvars, tnvars>>

\* Wrong variant: jnl_addr moves although the buffer was dirty.
Built_recycled(p, c) ==
  [c EXCEPT !.data.tn = ctn[p], !.jnl_addr = jnl_freeaddr[p][c.blk], !.queued = @ \/ c.tn = 0]

\* A record that was dirty already is in the active queue and keeps its jnl_addr
Built(p, c) ==
  IF c.tn # 0 THEN [c EXCEPT !.data.tn = ctn[p]]
  ELSE [c EXCEPT !.data.tn = ctn[p], !.jnl_addr = jnl_freeaddr[p][c.blk], !.queued = TRUE]

BuildEnd(p) ==
  /\ pc[p] = "cmt18b" /\ Go(p, "cmt18c")
  /\ cr' = [cr EXCEPT ![CseCr(p)] = Built(p, @)]
  /\ UNCHANGED <<lvl, hist, crit, bt, wtr, txnvars, cmtvars, jnlvars, dskvars, tnvars>>

\* Wrong variant: the buffer the writer left is not put back.
Released_norequeue(c) == [c EXCEPT !.latch = "clear"]

\* RELEASE_BUFF_UPDATE_LOCK; a writer that found the buffer locked took it off the queue, and this
\* process puts it back
Released(c) == [c EXCEPT !.latch = "clear", !.queued = @ \/ c.latch = "conflict"]

Release(p) ==
  /\ pc[p] = "cmt18c" /\ Go(p, "cmt18d")
  /\ cr' = [cr EXCEPT ![CseCr(p)] = Released(@)]
  /\ UNCHANGED <<lvl, hist, crit, bt, wtr, txnvars, cmtvars, jnlvars, dskvars, tnvars>>

\* RESET_CR_IN_TEND_AFTER_PHASE2_COMMIT, which also unpins the buffer.  After the last block the
\* clue survives if only the leaf was updated (no block split)
ResetInTend(p) ==
  /\ pc[p] = "cmt18d"
  /\ cr' = [cr EXCEPT ![CseCr(p)].in_tend = NoProc, ![CseCr(p)].in_cw_set = NoProc]
  /\ NextCse(p, "cmt18a", "idle")
  /\ IF rem'[p] = {}
     THEN /\ todo' = [todo EXCEPT ![p] = Tail(@)]
          /\ clue' = [clue EXCEPT ![p] = IF Upd(p) = {Last(Path(p))} THEN @ ELSE << >>]
     ELSE UNCHANGED <<todo, clue>>
  /\ UNCHANGED <<lvl, hist, tries, start_tn, same, began, crit, bt, wtr, ctn, jnl_freeaddr, jnlvars,
                 dskvars, tnvars>>

\* The process exits; its private state is gone
Halt(p) ==
  /\ pc[p] = "idle" /\ todo[p] = << >> /\ Go(p, "gone")
  /\ lvl' = [lvl EXCEPT ![p] = 1] /\ tries' = [tries EXCEPT ![p] = 0]
  /\ start_tn' = [start_tn EXCEPT ![p] = 0] /\ began' = [began EXCEPT ![p] = 0]
  /\ hist' = [hist EXCEPT ![p] = [b \in Block |-> NoHist]]
  /\ clue' = [clue EXCEPT ![p] = << >>] /\ same' = [same EXCEPT ![p] = FALSE]
  /\ ctn' = [ctn EXCEPT ![p] = 0] /\ jnl_freeaddr' = [jnl_freeaddr EXCEPT ![p] = [b \in Block |-> 0]]
  /\ UNCHANGED <<todo, rem, crit, cr, bt, wtr, jnlvars, dskvars, tnvars>>

(***************************************************************************)
(* The writer (wcs_wtstart) and the output of the journal (jnl_qio_start)   *)
(***************************************************************************)
\* The journal records a buffer depends on are in the journal file
JnlWritten(c) == cr[c].jnl_addr <= dskaddr

\* Take a record off the active queue; harden its journal records.  One whose records are not
\* even written is put back
WtStart(w, c) ==
  /\ wtr[w].pc = "idle" /\ cr[c].queued /\ JnlWritten(c)
  /\ cr' = [cr EXCEPT ![c].queued = FALSE]
  /\ wtr' = [wtr EXCEPT ![w] = [pc |-> "lock", cr |-> c]]
  /\ fsync_dskaddr' = IF cr[c].jnl_addr > fsync_dskaddr THEN dskaddr ELSE fsync_dskaddr
  /\ UNCHANGED <<pc, lvl, hist, crit, bt, jnl, dskaddr, epoch_tn, need_db_fsync, epochs, txnvars,
                 cmtvars, dskvars, tnvars>>

\* LOCK_BUFF_FOR_WRITE: a buffer that is being updated is left to the updater
WtLock(w) ==
  /\ wtr[w].pc = "lock"
  /\ wtr' = [wtr EXCEPT ![w].pc = IF cr[wtr[w].cr].latch = "clear" THEN "write" ELSE "idle"]
  /\ cr' = [cr EXCEPT ![wtr[w].cr].latch = "conflict"]
  /\ UNCHANGED <<pc, lvl, hist, crit, bt, txnvars, cmtvars, jnlvars, dskvars, tnvars>>

\* DB_LSEEKWRITE, into the cache of the file system; the record is clean before its latch is clear
WtWrite(w) ==
  LET c == wtr[w].cr IN
    /\ wtr[w].pc = "write" /\ wtr' = [wtr EXCEPT ![w].pc = "release"]
    /\ disk' = [disk EXCEPT ![cr[c].blk] = cr[c].data]
    /\ stable' = [stable EXCEPT ![cr[c].blk] = @ \cup {cr[c].data, [blk |-> cr[c].blk, tn |-> Torn]}]
    /\ cr' = [cr EXCEPT ![c].dirty = 0]
    /\ UNCHANGED <<pc, lvl, hist, crit, bt, txnvars, cmtvars, jnlvars, tnvars>>

WtRelease(w) ==
  /\ wtr[w].pc = "release" /\ wtr' = [wtr EXCEPT ![w].pc = "idle"]
  /\ cr' = [cr EXCEPT ![wtr[w].cr].latch = "clear"]
  /\ UNCHANGED <<pc, lvl, hist, crit, bt, txnvars, cmtvars, jnlvars, dskvars, tnvars>>

JnlQio ==
  /\ dskaddr < freeaddr /\ JnlOutput
  /\ UNCHANGED <<pc, lvl, hist, crit, cr, bt, wtr, jnl, fsync_dskaddr, epoch_tn, epochs, disk,
                 txnvars, cmtvars, tnvars>>

(***************************************************************************)
(* Recovery after a crash of the machine                                    *)
(***************************************************************************)
\* mur_apply_pblk reads backward from record k to the epoch e and writes each before-image into
\* the file, where b has the contents v: the oldest image is what stays
Recovered(b, v, e, k) ==
  LET pblks == {i \in e + 1 .. k : jnl[i].type = "pblk" /\ b \in jnl[i].blks}
  IN  IF pblks = {} THEN v ELSE jnl[Min(pblks)].image

(***************************************************************************)
(* Specification                                                            *)
(***************************************************************************)
Search(p)   == \/ Begin(p) \/ CheckClue(p) \/ NoteTn(p) \/ Find(p) \/ Miss(p) \/ GetBuffer(p)
               \/ DskRead(p) \/ NoteCycle(p) \/ WaitRead(p) \/ WaitInTend(p) \/ Look(p)
TEnd(p)     == \/ ReadOnlyEnd(p) \/ CheckTn(p) \/ CheckCycle(p) \/ ReadOnlyDone(p) \/ Retry(p)
               \/ GrabCrit(p) \/ Validate(p)
Commit(p)   == \/ CheckEpoch(p) \/ FlushJnl(p) \/ WriteEpoch(p) \/ Reserve(p) \/ Phase1(p)
               \/ Phase1Wait(p) \/ IncrementTn(p) \/ WriteJnl(p) \/ BuildStart(p) \/ BuildEnd(p)
               \/ Release(p) \/ ResetInTend(p) \/ Halt(p)
ProcStep(p) == Search(p) \/ TEnd(p) \/ Commit(p)
WtStep(w)   == (\E c \in Buffer : WtStart(w, c)) \/ WtLock(w) \/ WtWrite(w) \/ WtRelease(w)

Next == \/ \E p \in Proc : ProcStep(p)
        \/ \E w \in Writer : WtStep(w)
        \/ JnlQio

\* Processes run; waits end in a flush (wcs_get_space, wcs_flu) or a journal write (jnl_wait) of
\* the waiting process itself, and flush timers do the same
Spec == /\ Init /\ [][Next]_vars
        /\ \A p \in Proc : WF_vars(ProcStep(p))
        /\ \A w \in Writer : WF_vars(WtStep(w))
        /\ WF_vars(JnlQio)

(***************************************************************************)
(* Properties                                                               *)
(***************************************************************************)
\* Types, and the order of the journal addresses: hardened, written to the file, completed by
\* phase 2, reserved.
TypeOK ==
  /\ pc \in [Proc -> PC] /\ todo \in [Proc -> Seq(Job)]
  /\ \A p \in Proc : pc[p] \notin {"idle", "gone"} => todo[p] # << >> /\ lvl[p] \in 1 .. Len(Path(p))
  /\ tries \in [Proc -> 0 .. CDB_STAGNATE] /\ start_tn \in [Proc -> Nat]
  /\ hist \in [Proc -> [Block -> [cr : Buffer, cycle : Nat, tn : Nat, ver : Contents]]]
  /\ clue \in [Proc -> Seq(Block)] /\ same \in [Proc -> BOOLEAN]
  /\ rem \in [Proc -> SUBSET Block] /\ ctn \in [Proc -> Nat]
  /\ jnl_freeaddr \in [Proc -> [Block -> Nat]]
  /\ crit \in Proc \cup {NoProc} /\ curr_tn \in Nat /\ early_tn \in {curr_tn, curr_tn + 1}
  /\ cr \in [Buffer -> CacheRec]
  /\ DOMAIN bt = Buffer /\ \A i \in Buffer : bt[i] \in [blk : Block \cup {NoBlock}, tn : Nat]
  /\ disk \in [Block -> Contents] /\ \A b \in Block : stable[b] \subseteq Contents
  /\ jnl \in Seq(JnlRec)
  /\ 0 <= fsync_dskaddr /\ fsync_dskaddr <= dskaddr /\ dskaddr <= freeaddr
  /\ epoch_tn \in Nat /\ need_db_fsync \in BOOLEAN /\ epochs \in Nat
  /\ wtr \in [Writer -> [pc : {"idle", "lock", "write", "release"}, cr : Buffer]]
  /\ began \in [Proc -> Nat]

\* An update that passed validation in t_end has seen, in every block of its path, what the last
\* committed transaction left there, though it read them out of crit and maybe from a clue.
CommitsAreCurrent ==
  \A p \in Proc : pc[p] \in InCommit =>
    \A b \in ToSet(Path(p)) : hist[p][b].ver = VersionAt(b, curr_tn)

\* A read-only transaction, which never holds crit and checks one block after the other, returns
\* blocks as they were together at one tn, not before the tn at which it began.
ReadsAreSnapshots ==
  \A p \in Proc : pc[p] = "rodone" =>
    \E t \in began[p] .. curr_tn :
      \A b \in ToSet(Path(p)) : hist[p][b].ver = VersionAt(b, t)

\* The final retry does not restart: what the asserts (CDB_STAGNATE > t_tries) of t_end claim.
NoFinalRestart == \A p \in Proc : pc[p] = "retry" => ~Final(p)

\* A block is in one buffer at most; a buffer at rest has the last committed contents, a clean one
\* agrees with the file, and so does a block that is in no buffer.
CacheCoherent ==
  /\ \A b \in Block : Cardinality(CrOf(b)) <= 1
  /\ \A b \in Block : CrOf(b) = {} => disk[b] = VersionAt(b, curr_tn)
  /\ \A c \in Buffer : LET r == cr[c] IN
       r.blk # NoBlock /\ r.rip = NoProc =>
         /\ r.in_tend = NoProc => r.data = VersionAt(r.blk, curr_tn)
         /\ r.dirty = 0 => r.data = disk[r.blk]

\* Whatever a crash leaves of the two files, recovery can go back to any epoch that is in the
\* journal file: undoing the before-images after it gives each block the contents it had at that
\* epoch (PBLKs written before the change, journal before database, database before EPOCH).
CrashRecovers ==
  \A k \in fsync_dskaddr .. dskaddr :
    \A e \in {0} \cup {i \in 1 .. k : jnl[i].type = "epoch"} :
      \A b \in Block : \A v \in stable[b] : Recovered(b, v, e, k) = LastSet(b, 1 .. e)

\* Every transaction ends, whatever it waits for: crit, buffers, the writer, other commits.
TransactionsEnd == \A p \in Proc : <>(pc[p] = "gone")
=============================================================================
