------------------------------- MODULE Commit -------------------------------
(***************************************************************************)
(* The commit protocol of t_end and tp_tend, steps CMT01 to CMT19 (the list *)
(* at the top of secshr_db_clnup.c), of processes that update journaled and *)
(* replicated BG regions, and the source server that ships the journal      *)
(* pool.  A process may be killed between any two steps of KillPoints; the  *)
(* next process to get its critical sections repairs what it left.  It may  *)
(* also run into an error, and then rolls its own commit back or forward.   *)
(*                                                                         *)
(* t_end is the case of one region.  The regions are numbered in ftok       *)
(* order, the order in which tp_tend gets crit; region POOL is the journal  *)
(* pool's jnlpool_dummy_reg.  A transaction takes one unit of each journal  *)
(* it writes and one unit of the pool for each region.                      *)
(***************************************************************************)
EXTENDS Phase2Log

CONSTANTS
  NReg,        \* number of regions
  Updates,     \* the sets of regions a transaction may update
  MaxTxn,      \* bound: transactions begun
  MaxFault,    \* bound: commits that meet an error or a kill (or both, one cleaning up)
  KillPoints,  \* values of pc at which a process may be killed
  FailPoints   \* values of pc at which a process may run into an error

POOL   == 0
Region == 1 .. NReg

\* The next step of a process; cmt03b and cmt06b: space is reserved, index2 not yet moved
InCrit  == {"recover", "recoverb", "recoverc", "grabpool", "cmt03", "cmt03b", "cmt04", "cmt06",
            "cmt06b", "cmt07", "cmt08", "cmt09", "cmt12", "cmt14", "cmt15"}
CleaningUp == {"undopool", "undodb", "undorel", "finish"}
Phase2  == {"cmt16", "cmt16c", "cmt17", "cmt17c"}
PC      == {"idle", "cmt01", "dead"} \cup InCrit \cup CleaningUp \cup Phase2

ASSUME CommitAssumption ==
  /\ NReg \in Nat \ {0} /\ Updates \subseteq (SUBSET Region) \ {{}}
  /\ MaxTxn \in Nat /\ MaxFault \in Nat
  /\ KillPoints \subseteq PC \ {"idle", "dead"}
  /\ FailPoints \subseteq {"cmt04", "cmt06", "cmt07", "cmt12"}

VARIABLES
  pc, upd, rem,  \* per process: its next step, the regions it updates, those left in this loop
  token,         \* per process: jnl_fence_ctl.token, the seqno of its transaction
  idx,           \* per process and region or POOL: phase2_commit_index of its reservation
  crit,          \* per region and POOL: the owner of the robust mutex, dead or alive
  db,            \* per region: the file header and node_local fields below
  jb,            \* per region: the journal buffer
  pool,          \* the journal pool as a log
  jnl_seqno,     \* jpl->jnl_seqno
  read_addr,     \* the source server's read_addr in the pool
  sent,          \* the transactions it sent
  txn,           \* history: who took each seqno, for which regions (appended in CMT07)
  torn,          \* history: <<seqno, region>> where a kill came after CMT07, before CMT08
  cnt            \* transactions begun, faults

procvars == <<pc, upd, rem, token, idx>>
srcvars  == <<read_addr, sent>>
histvars == <<txn, torn, cnt>>
vars == <<pc, upd, rem, token, idx, crit, db, jb, pool, jnl_seqno, read_addr, sent, txn, torn, cnt>>

DB == [curr_tn : Nat, early_tn : Nat, update_underway_tn : Nat, reg_seqno : Nat,
       wc_blocked : BOOLEAN]

TypeOK ==
  /\ pc \in [Proc -> PC]
  /\ upd \in [Proc -> SUBSET Region] /\ rem \in [Proc -> SUBSET Region]
  /\ \A p \in Proc : rem[p] \subseteq upd[p]
  /\ token \in [Proc -> Nat]
  /\ idx \in [Proc -> [Region \cup {POOL} -> Index]]
  /\ crit \in [Region \cup {POOL} -> Proc \cup {NoProc}]
  /\ db \in [Region -> DB]
  /\ jb \in [Region -> Log] /\ pool \in Log
  /\ jnl_seqno \in Nat /\ read_addr \in Nat
  /\ sent \in Seq(Record)
  /\ txn \in Seq([by : Proc, upd : SUBSET Region])
  /\ torn \subseteq Nat \X Region
  /\ cnt \in [txn : 0 .. MaxTxn, fault : 0 .. MaxFault]

Init ==
  /\ pc = [p \in Proc |-> "idle"]
  /\ upd = [p \in Proc |-> {}] /\ rem = [p \in Proc |-> {}]
  /\ token = [p \in Proc |-> 0]
  /\ idx = [p \in Proc |-> [r \in Region \cup {POOL} |-> 0]]
  /\ crit = [r \in Region \cup {POOL} |-> NoProc]
  /\ db = [r \in Region |-> [curr_tn |-> 1, early_tn |-> 1, update_underway_tn |-> 0,
                             reg_seqno |-> 1, wc_blocked |-> FALSE]]
  /\ jb = [r \in Region |-> EmptyLog]
  /\ pool = EmptyLog /\ jnl_seqno = 1
  /\ read_addr = 0 /\ sent = <<>>
  /\ txn = <<>> /\ torn = {}
  /\ cnt = [txn |-> 0, fault |-> 0]

Alive == {p \in Proc : pc[p] # "dead"}
reg(p) == Min(rem[p])     \* the region this iteration of the loop is about

\* The loop over regions: go on with the next region at the same step, or leave it
Loop(p, again, next) ==
  LET left == rem[p] \ {reg(p)} IN
  /\ pc'  = [pc EXCEPT ![p] = IF left = {} THEN next ELSE again]
  /\ rem' = [rem EXCEPT ![p] = IF left = {} THEN upd[p] ELSE left]

Goto(p, step) == pc' = [pc EXCEPT ![p] = step]

-----------------------------------------------------------------------------
(* mutex_clean_dead_owner: what the next owner of a robust mutex does when   *)
(* pthread_mutex_lock says EOWNERDEAD                                        *)

\* Wrong variant: the seqno of the entry is not compared.
CleanDeadPool_noseqno(L, holder) ==
  IF L.index1 = L.index2 \/ Last(L).process_id # holder THEN Realign(L) ELSE Withdraw(L)

CleanDeadPool(L, holder) ==
  IF L.index1 = L.index2 \/ Last(L).process_id # holder THEN Realign(L)
  ELSE IF Last(L).jnl_seqno = jnl_seqno THEN Withdraw(L) ELSE L

InCommit(r) == db[r].early_tn # db[r].curr_tn         \* CMT04 < killed < CMT12
Underway(r) == db[r].update_underway_tn = db[r].curr_tn

\* Wrong variant: a commit past CMT08 is rolled back too.
CleanDeadJnl_always(r, holder) ==
  LET L == jb[r] IN
  IF ~InCommit(r) THEN L
  ELSE IF \/ L.index1 = L.index2
          \/ Last(L).process_id # holder
          \/ Last(L).curr_tn # db[r].curr_tn
       THEN Realign(L)
       ELSE Withdraw(L)

\* Wrong variant: an earlier entry of the dead process is taken for its last.
CleanDeadJnl_pidonly(r, holder) ==
  LET L == jb[r] IN
  IF ~InCommit(r) \/ Underway(r) THEN L
  ELSE IF Last(L).process_id # holder THEN Realign(L)
       ELSE Withdraw(L)

CleanDeadJnl(r, holder) ==
  LET L == jb[r] IN
  IF ~InCommit(r) \/ Underway(r) THEN L
  ELSE IF \/ L.index1 = L.index2
          \/ Last(L).process_id # holder
          \/ Last(L).curr_tn # db[r].curr_tn
       THEN Realign(L)
       ELSE Withdraw(L)

CleanDeadDB(r) ==
  LET d == IF ~InCommit(r) THEN db[r]
           ELSE IF Underway(r)
           THEN [db[r] EXCEPT !.reg_seqno = Last(jb[r]).jnl_seqno + 1, !.curr_tn = db[r].early_tn]
           ELSE [db[r] EXCEPT !.early_tn = db[r].curr_tn]
  IN [d EXCEPT !.wc_blocked = TRUE]

-----------------------------------------------------------------------------
(* Phase 1, in crit                                                          *)

Begin(p, rs) ==
  /\ pc[p] = "idle" /\ cnt.txn < MaxTxn
  /\ upd' = [upd EXCEPT ![p] = rs] /\ rem' = [rem EXCEPT ![p] = rs]
  /\ Goto(p, "cmt01")
  /\ cnt' = [cnt EXCEPT !.txn = @ + 1]
  /\ UNCHANGED <<token, idx, crit, db, jb, pool, jnl_seqno, srcvars, txn, torn>>

\* After grab_crit: wcs_recover if the cache is blocked, else crit of the next region
AfterGrab(p, blocked) ==
  IF blocked THEN Goto(p, "recover") /\ UNCHANGED rem
  ELSE Loop(p, "cmt01", "grabpool")

\* CMT01: grab_crit
GrabCrit(p) ==
  /\ pc[p] = "cmt01"
  /\ LET r == reg(p) IN
     /\ crit' = [crit EXCEPT ![r] = p]
     /\ \/ /\ crit[r] = NoProc
           /\ AfterGrab(p, db[r].wc_blocked)
           /\ UNCHANGED <<db, jb>>
        \/ /\ crit[r] \in Proc \ Alive
           /\ db' = [db EXCEPT ![r] = CleanDeadDB(r)]
           /\ jb' = [jb EXCEPT ![r] = CleanDeadJnl(r, crit[r])]
           /\ AfterGrab(p, TRUE)
  /\ UNCHANGED <<upd, token, idx, pool, jnl_seqno, srcvars, histvars>>

Inctn(r, p) ==
  [kind |-> "inctn", tn |-> db[r].curr_tn, jnl_seqno |-> 0, len |-> 1, by |-> p]

\* A reservation of one unit of the journal of region r
JnlSlot(r, p, seqno, phase2) ==
  [process_id |-> p, curr_tn |-> db[r].curr_tn, jnl_seqno |-> seqno, start |-> 0,
   tot_jrec_len |-> 1, prev_jrec_len |-> 0, in_phase2 |-> phase2, write_complete |-> FALSE]

\* wcs_recover: jnl_phase2_cleanup, early_tn, and an INCTN record with jnl_write, which
\* stores the record before it reserves the space
Recover(p) ==
  /\ pc[p] = "recover"
  /\ LET r == reg(p)
         L == Cleanup(jb[r], p, TRUE, Alive)
     IN /\ db' = [db EXCEPT ![r].early_tn = db[r].curr_tn + 1]
        /\ IF Full(L)
           THEN /\ L # jb[r] \/ db' # db
                /\ jb' = [jb EXCEPT ![r] = L]
                /\ UNCHANGED <<pc, idx>>
           ELSE /\ jb' = [jb EXCEPT ![r] =
                            Reserve([L EXCEPT !.file = Store(L.file, L.rsrv, Inctn(r, p))],
                                    JnlSlot(r, p, 0, FALSE))]
                /\ idx' = [idx EXCEPT ![p][r] = L.index2]
                /\ Goto(p, "recoverb")
  /\ UNCHANGED <<upd, rem, token, crit, pool, jnl_seqno, srcvars, histvars>>

\* ... jnl_write publishes it and marks it complete ...
RecoverWritten(p) ==
  /\ pc[p] = "recoverb"
  /\ LET r == reg(p) IN
     jb' = [jb EXCEPT ![r] = WriteComplete(Publish(jb[r]), idx[p][r], p, TRUE, Alive)]
  /\ Goto(p, "recoverc")
  /\ UNCHANGED <<upd, rem, token, idx, crit, db, pool, jnl_seqno, srcvars, histvars>>

\* ... and INCREMENT_CURR_TN.  A process killed before it leaves an INCTN record with the
\* number of the next one.
RecoverDone(p) ==
  /\ pc[p] = "recoverc"
  /\ db' = [db EXCEPT ![reg(p)].curr_tn = db[reg(p)].curr_tn + 1, ![reg(p)].wc_blocked = FALSE]
  /\ Loop(p, "cmt01", "grabpool")
  /\ UNCHANGED <<upd, token, idx, crit, jb, pool, jnl_seqno, srcvars, histvars>>

\* CMT02: grab_lock
GrabLock(p) ==
  /\ pc[p] = "grabpool"
  /\ \/ crit[POOL] = NoProc /\ UNCHANGED pool
     \/ crit[POOL] \in Proc \ Alive /\ pool' = CleanDeadPool(pool, crit[POOL])
  /\ crit' = [crit EXCEPT ![POOL] = p]
  /\ token' = [token EXCEPT ![p] = jnl_seqno]
  /\ Goto(p, "cmt03")
  /\ UNCHANGED <<upd, rem, idx, db, jb, jnl_seqno, srcvars, histvars>>

PoolSlot(p) ==
  [process_id |-> p, curr_tn |-> 0, jnl_seqno |-> token[p], start |-> 0,
   tot_jrec_len |-> Cardinality(upd[p]), prev_jrec_len |-> 0, in_phase2 |-> TRUE,
   write_complete |-> FALSE]

\* CMT03: UPDATE_JPL_RSRV_WRITE_ADDR, up to rsrv_write_addr
ReservePool(p) ==
  /\ pc[p] = "cmt03"
  /\ IF Full(pool)
     THEN /\ pool' = Cleanup(pool, p, TRUE, Alive)
          /\ pool' # pool                       \* else sleep and try again
          /\ UNCHANGED <<pc, idx>>
     ELSE /\ pool' = Reserve(pool, PoolSlot(p))
          /\ idx' = [idx EXCEPT ![p][POOL] = pool.index2]
          /\ Goto(p, "cmt03b")
  /\ UNCHANGED <<upd, rem, token, crit, db, jb, jnl_seqno, srcvars, histvars>>

PublishPool(p) ==
  /\ pc[p] = "cmt03b"
  /\ pool' = Publish(pool)
  /\ Goto(p, "cmt04")
  /\ UNCHANGED <<upd, rem, token, idx, crit, db, jb, jnl_seqno, srcvars, histvars>>

\* CMT04 and CMT05, for every region
EarlyTn(p) ==
  /\ pc[p] = "cmt04"
  /\ db' = [db EXCEPT ![reg(p)].early_tn = db[reg(p)].curr_tn + 1]
  /\ Loop(p, "cmt04", "cmt06")
  /\ UNCHANGED <<upd, token, idx, crit, jb, pool, jnl_seqno, srcvars, histvars>>

\* CMT06, for every region: UPDATE_JRS_RSRV_FREEADDR
ReserveJnl(p) ==
  /\ pc[p] = "cmt06"
  /\ LET r == reg(p) IN
     IF Full(jb[r])
     THEN /\ jb' = [jb EXCEPT ![r] = Cleanup(jb[r], p, TRUE, Alive)]
          /\ jb' # jb
          /\ UNCHANGED <<pc, idx>>
     ELSE /\ jb' = [jb EXCEPT ![r] = Reserve(jb[r], JnlSlot(r, p, token[p], TRUE))]
          /\ idx' = [idx EXCEPT ![p][r] = jb[r].index2]
          /\ Goto(p, "cmt06b")
  /\ UNCHANGED <<upd, rem, token, crit, db, pool, jnl_seqno, srcvars, histvars>>

PublishJnl(p) ==
  /\ pc[p] = "cmt06b"
  /\ jb' = [jb EXCEPT ![reg(p)] = Publish(jb[reg(p)])]
  /\ Loop(p, "cmt06", "cmt07")
  /\ UNCHANGED <<upd, token, idx, crit, db, pool, jnl_seqno, srcvars, histvars>>

\* CMT07: SET_JNL_SEQNO
SetJnlSeqno(p) ==
  /\ pc[p] = "cmt07"
  /\ jnl_seqno' = token[p] + 1
  /\ txn' = Append(txn, [by |-> p, upd |-> upd[p]])
  /\ Goto(p, "cmt08")
  /\ UNCHANGED <<upd, rem, token, idx, crit, db, jb, pool, srcvars, torn, cnt>>

\* CMT08: SET_T_COMMIT_CRIT_PHASE1; from here on the region is rolled forward
UpdateUnderway(p) ==
  /\ pc[p] = "cmt08"
  /\ db' = [db EXCEPT ![reg(p)].update_underway_tn = db[reg(p)].curr_tn]
  /\ Goto(p, "cmt09")
  /\ UNCHANGED <<upd, rem, token, idx, crit, jb, pool, jnl_seqno, srcvars, histvars>>

\* CMT09: SET_REG_SEQNO
SetRegSeqno(p) ==
  /\ pc[p] = "cmt09"
  /\ db' = [db EXCEPT ![reg(p)].reg_seqno = token[p] + 1]
  /\ Goto(p, "cmt12")
  /\ UNCHANGED <<upd, rem, token, idx, crit, jb, pool, jnl_seqno, srcvars, histvars>>

\* CMT10 to CMT13: the cache records of the updated blocks are locked, and curr_tn moves
IncrementCurrTn(p) ==
  /\ pc[p] = "cmt12"
  /\ db' = [db EXCEPT ![reg(p)].curr_tn = db[reg(p)].early_tn]
  /\ Goto(p, "cmt14")
  /\ UNCHANGED <<upd, rem, token, idx, crit, jb, pool, jnl_seqno, srcvars, histvars>>

\* CMT14: rel_crit, and the next region's CMT08
RelCrit(p) ==
  /\ pc[p] = "cmt14"
  /\ crit' = [crit EXCEPT ![reg(p)] = NoProc]
  /\ Loop(p, "cmt08", "cmt15")
  /\ UNCHANGED <<upd, token, idx, db, jb, pool, jnl_seqno, srcvars, histvars>>

\* CMT15: rel_lock
RelLock(p) ==
  /\ pc[p] = "cmt15"
  /\ crit' = [crit EXCEPT ![POOL] = NoProc]
  /\ Goto(p, "cmt16")
  /\ UNCHANGED <<upd, rem, token, idx, db, jb, pool, jnl_seqno, srcvars, histvars>>

-----------------------------------------------------------------------------
(* Phase 2, out of crit                                                      *)

UpdateRecord(L, p, i) ==
  [kind |-> "update", tn |-> L.slot[i].curr_tn, jnl_seqno |-> token[p],
   len |-> L.slot[i].tot_jrec_len, by |-> p]

\* CMT16: jnl_write_phase2 writes the records of the region ...
WriteJnl(p) ==
  /\ pc[p] = "cmt16"
  /\ LET r == reg(p)
         i == idx[p][r]
     IN jb' = [jb EXCEPT ![r].file =
                 Store(jb[r].file, jb[r].slot[i].start, UpdateRecord(jb[r], p, i))]
  /\ Goto(p, "cmt16c")
  /\ UNCHANGED <<upd, rem, token, idx, crit, db, pool, jnl_seqno, srcvars, histvars>>

\* ... and marks them complete
JnlWriteComplete(p) ==
  /\ pc[p] = "cmt16c"
  /\ LET r == reg(p) IN
     jb' = [jb EXCEPT ![r] = WriteComplete(jb[r], idx[p][r], p, FALSE, Alive)]
  /\ Loop(p, "cmt16", "cmt17")
  /\ UNCHANGED <<upd, token, idx, crit, db, pool, jnl_seqno, srcvars, histvars>>

\* CMT17: jpl_phase2_write_complete stores the header of the transaction ...
WritePool(p) ==
  /\ pc[p] = "cmt17"
  /\ LET i == idx[p][POOL] IN
     pool' = [pool EXCEPT !.file = Store(pool.file, pool.slot[i].start, UpdateRecord(pool, p, i))]
  /\ Goto(p, "cmt17c")
  /\ UNCHANGED <<upd, rem, token, idx, crit, db, jb, jnl_seqno, srcvars, histvars>>

\* ... and marks it complete.  CMT18, CMT19: bg_update_phase2, t_commit_crit = FALSE.
PoolWriteComplete(p) ==
  /\ pc[p] = "cmt17c"
  /\ pool' = WriteComplete(pool, idx[p][POOL], p, FALSE, Alive)
  /\ pc' = [pc EXCEPT ![p] = "idle"]
  /\ upd' = [upd EXCEPT ![p] = {}] /\ rem' = [rem EXCEPT ![p] = {}]
  /\ token' = [token EXCEPT ![p] = 0]
  /\ idx' = [idx EXCEPT ![p] = [r \in Region \cup {POOL} |-> 0]]
  /\ UNCHANGED <<crit, db, jb, jnl_seqno, srcvars, histvars>>

-----------------------------------------------------------------------------
(* Errors: t_commit_cleanup rolls back a commit that has not reached CMT08,  *)
(* secshr_db_clnup finishes one that has                                     *)

\* An rts_error in crit, for instance of a malloc in jnl_write_reserve, which runs for a
\* region after its CMT04 and again before its CMT06: t_ch calls t_commit_cleanup, which
\* loops over all regions of the transaction.
Fail(p) ==
  /\ pc[p] \in FailPoints
  /\ pc[p] = "cmt04" => rem[p] # upd[p]
  /\ cnt.fault < MaxFault
  /\ cnt' = [cnt EXCEPT !.fault = @ + 1]
  /\ \/ /\ pc[p] # "cmt12"
        /\ Goto(p, "undopool")
        /\ rem' = [rem EXCEPT ![p] = upd[p]]
     \/ /\ pc[p] = "cmt12"
        /\ Goto(p, "finish")
        /\ UNCHANGED rem
  /\ UNCHANGED <<upd, token, idx, crit, db, jb, pool, jnl_seqno, srcvars, txn, torn>>

\* Wrong variant: the reservation in the pool is left.
UndoPool_noop(p) ==
  /\ pc[p] = "undopool"
  /\ Goto(p, "undodb")
  /\ UNCHANGED <<upd, rem, token, idx, crit, db, jb, pool, jnl_seqno, srcvars, histvars>>

UndoPool(p) ==
  /\ pc[p] = "undopool"
  /\ pool' = IF pool.index1 # pool.index2 /\ Last(pool).process_id = p THEN Withdraw(pool) ELSE pool
  /\ Goto(p, "undodb")
  /\ UNCHANGED <<upd, rem, token, idx, crit, db, jb, jnl_seqno, srcvars, histvars>>



\* Wrong variant: what was handed over is withdrawn too.
UndoDB_handedover(p) ==
  /\ pc[p] = "undodb"
  /\ LET r == reg(p) IN
     /\ jb' = [jb EXCEPT ![r] =
                 IF InCommit(r) /\ Last(jb[r]).process_id = p THEN Withdraw(jb[r]) ELSE jb[r]]
     /\ db' = [db EXCEPT ![r].early_tn = db[r].curr_tn]
     /\ crit' = [crit EXCEPT ![r] = NoProc]
  /\ Loop(p, "undodb", "undorel")
  /\ UNCHANGED <<upd, token, idx, pool, jnl_seqno, srcvars, histvars>>

\* T_COMMIT_CLEANUP_DB, for every region.  In the window between CMT04 and CMT06 the newest
\* entry of the process may be that of an earlier commit (run undo06).
UndoDB(p) ==
  /\ pc[p] = "undodb"
  /\ LET r == reg(p)
         L == jb[r]
     IN /\ jb' = [jb EXCEPT ![r] =
                    IF InCommit(r) /\ L.index1 # L.index2 /\ Last(L).process_id = p
                    THEN Withdraw(L) ELSE L]
        /\ db' = [db EXCEPT ![r].early_tn = db[r].curr_tn]
        /\ crit' = [crit EXCEPT ![r] = NoProc]
  /\ Loop(p, "undodb", "undorel")
  /\ UNCHANGED <<upd, token, idx, pool, jnl_seqno, srcvars, histvars>>

\* Wrong variant: the journal pool's lock is kept.
UndoRel_keep(p) ==
  /\ pc[p] = "undorel"
  /\ pc' = [pc EXCEPT ![p] = "idle"]
  /\ upd' = [upd EXCEPT ![p] = {}] /\ rem' = [rem EXCEPT ![p] = {}]
  /\ token' = [token EXCEPT ![p] = 0]
  /\ idx' = [idx EXCEPT ![p] = [r \in Region \cup {POOL} |-> 0]]
  /\ UNCHANGED <<crit, db, jb, pool, jnl_seqno, srcvars, histvars>>

UndoRel(p) ==
  /\ pc[p] = "undorel"
  /\ crit' = [crit EXCEPT ![POOL] = NoProc]
  /\ pc' = [pc EXCEPT ![p] = "idle"]
  /\ upd' = [upd EXCEPT ![p] = {}] /\ rem' = [rem EXCEPT ![p] = {}]
  /\ token' = [token EXCEPT ![p] = 0]
  /\ idx' = [idx EXCEPT ![p] = [r \in Region \cup {POOL} |-> 0]]
  /\ UNCHANGED <<db, jb, pool, jnl_seqno, srcvars, histvars>>

\* secshr_finish_CMT08_to_CMT14, for the regions that are still in crit
Finish(p) ==
  /\ pc[p] = "finish"
  /\ LET r == reg(p) IN
     /\ db' = [db EXCEPT ![r].update_underway_tn = db[r].curr_tn, ![r].reg_seqno = token[p] + 1,
                         ![r].curr_tn = db[r].early_tn, ![r].wc_blocked = TRUE]
     /\ crit' = [crit EXCEPT ![r] = NoProc]
  /\ Loop(p, "finish", "cmt15")
  /\ UNCHANGED <<upd, token, idx, jb, pool, jnl_seqno, srcvars, histvars>>

-----------------------------------------------------------------------------
(* kill -9, the journal writers, the source server                           *)

\* The regions for which p, past CMT07, has not done CMT08
NotUnderway(p) ==
  CASE pc[p] = "cmt08"                         -> rem[p]
    [] pc[p] \in {"cmt09", "cmt12", "cmt14"}   -> rem[p] \ {reg(p)}
    [] pc[p] = "finish"                        -> {r \in rem[p] : ~Underway(r)}
    [] OTHER                                   -> {}

Kill(p) ==
  /\ pc[p] \in KillPoints
  /\ \/ pc[p] \in CleaningUp /\ UNCHANGED cnt
     \/ pc[p] \notin CleaningUp /\ cnt.fault < MaxFault /\ cnt' = [cnt EXCEPT !.fault = @ + 1]
  /\ torn' = torn \cup ({token[p]} \X NotUnderway(p))
  /\ pc' = [pc EXCEPT ![p] = "dead"]
  /\ upd' = [upd EXCEPT ![p] = {}] /\ rem' = [rem EXCEPT ![p] = {}]
  /\ token' = [token EXCEPT ![p] = 0]
  /\ idx' = [idx EXCEPT ![p] = [r \in Region \cup {POOL} |-> 0]]
  /\ UNCHANGED <<crit, db, jb, pool, jnl_seqno, srcvars, txn>>

\* jnl_write_attempt, jnl_output_sp: JNL_PHASE2_CLEANUP_IF_POSSIBLE by anybody, without crit
JnlCleanup(r) ==
  /\ jb[r].index1 # jb[r].index2
  /\ jb[r].slot[jb[r].index1].write_complete
  /\ jb' = [jb EXCEPT ![r] = Cleanup(jb[r], NoProc, FALSE, Alive)]
  /\ UNCHANGED <<procvars, crit, db, pool, jnl_seqno, srcvars, histvars>>

\* gtmsource_get_jnlrecs in READ_POOL: bring write_addr up to date, and send what is there
SourceRead ==
  LET L == Cleanup(pool, NoProc, FALSE, Alive)
      rec == Fetch(L.file, read_addr)
  IN /\ read_addr < L.free
     /\ pool' = L
     /\ sent' = Append(sent, rec)
     /\ read_addr' = read_addr + rec.len
     /\ UNCHANGED <<procvars, crit, db, jb, jnl_seqno, histvars>>

\* Wrong variant: the lock of a dead process is not taken over.
SourceSalvage_free ==
  /\ read_addr = pool.free /\ pool.free # pool.rsrv
  /\ crit[POOL] = NoProc
  /\ pool' = Cleanup(pool, NoProc, TRUE, Alive)
  /\ UNCHANGED <<procvars, crit, db, jb, jnl_seqno, srcvars, histvars>>

\* gtmsource_process: nothing to send, and a commit makes no progress; get the lock if it
\* is free (or its owner is dead) and salvage
SourceSalvage ==
  LET L == IF crit[POOL] = NoProc THEN pool ELSE CleanDeadPool(pool, crit[POOL]) IN
  /\ read_addr = pool.free /\ pool.free # pool.rsrv
  /\ crit[POOL] \notin Alive
  /\ pool' = Cleanup(L, NoProc, TRUE, Alive)
  /\ crit' = [crit EXCEPT ![POOL] = NoProc]
  /\ UNCHANGED <<procvars, db, jb, jnl_seqno, srcvars, histvars>>

-----------------------------------------------------------------------------
Step(p) ==
  \/ GrabCrit(p)    \/ Recover(p)      \/ RecoverWritten(p) \/ RecoverDone(p)
  \/ GrabLock(p)
  \/ ReservePool(p) \/ PublishPool(p)  \/ EarlyTn(p)      \/ ReserveJnl(p)
  \/ PublishJnl(p)  \/ SetJnlSeqno(p)  \/ UpdateUnderway(p) \/ SetRegSeqno(p)
  \/ IncrementCurrTn(p) \/ RelCrit(p)  \/ RelLock(p)      \/ WriteJnl(p)
  \/ JnlWriteComplete(p) \/ WritePool(p) \/ PoolWriteComplete(p)
  \/ UndoPool(p)    \/ UndoDB(p)       \/ UndoRel(p)      \/ Finish(p)

Source == SourceRead \/ SourceSalvage

Next ==
  \/ \E p \in Proc :
        \/ \E rs \in Updates : Begin(p, rs)
        \/ Step(p) \/ Fail(p) \/ Kill(p)
  \/ \E r \in Region : JnlCleanup(r)
  \/ Source

\* Some live process that can go on with its commit does, or the source server does: the
\* sleep loops of the full arrays and the mutex are tried again and again.
Progress == (\E p \in Proc : Step(p)) \/ Source
Fairness == WF_vars(Progress)

Spec == Init /\ [][Next]_vars /\ Fairness
-----------------------------------------------------------------------------
(* Properties                                                                *)

\* What a journal holds from its first address to rsrv: the records handed over and the
\* reservations
View(L) ==
  [i \in 1 .. L.free |-> [tn |-> L.file[i].tn, jnl_seqno |-> L.file[i].jnl_seqno]] \o
  [k \in 1 .. Used(L) |-> LET s == L.slot[At(L, k - 1)] IN
                          [tn |-> s.curr_tn, jnl_seqno |-> s.jnl_seqno]]

\* When nobody holds the journal pool's lock, the reservations cover the pool from
\* write_addr to rsrv_write_addr without a gap, and the newest is for the seqno before
\* jnl_seqno with the length in lastwrite_len, however the previous holders ended
\* (UPDATE_JPL_RSRV_WRITE_ADDR undone by mutex_clean_dead_owner or t_commit_cleanup).
PoolTiles ==
  crit[POOL] = NoProc =>
    /\ Tiles(pool)
    /\ Last(pool).jnl_seqno + 1 = jnl_seqno
    /\ Last(pool).tot_jrec_len = pool.last

\* Record i of a journal follows the one before it: it has the next transaction number, or
\* both are INCTN records (jnl_seqno 0) with the same one, which mur_output_record and
\* mur_forward_play_cur_jrec expect of a process killed in wcs_recover.
Successive(v, i) ==
  IF i = 1 THEN v[i].tn = 1
  ELSE \/ v[i].tn = v[i - 1].tn + 1
       \/ v[i].tn = v[i - 1].tn /\ v[i].jnl_seqno = 0 /\ v[i - 1].jnl_seqno = 0

\* When nobody holds crit of a region, no commit is half done there: early_tn is curr_tn,
\* the journal is without a gap and holds every transaction number before curr_tn, in
\* order and, INCTN records apart, exactly once, and reg_seqno is one more than the newest
\* seqno in it (CMT04, CMT06, CMT08, CMT09 and CMT12 undone or redone together).  Without
\* the errors between CMT04 and CMT06 (run undo06), for which it does not hold.
JournalMatchesDb ==
  \A r \in Region : crit[r] = NoProc =>
    LET v == View(jb[r]) IN
    /\ Tiles(jb[r])
    /\ db[r].early_tn = db[r].curr_tn
    /\ IF v = <<>> THEN db[r].curr_tn = 1 ELSE v[Len(v)].tn + 1 = db[r].curr_tn
    /\ \A i \in DOMAIN v : Successive(v, i)
    /\ db[r].reg_seqno = Max({0} \cup {v[i].jnl_seqno : i \in DOMAIN v}) + 1

\* A seqno that was taken (CMT07) is in the journal of every region its transaction
\* updates and of no other, exactly once; the exception is the window the comment in
\* mutex_clean_dead_owner leaves open, a kill after CMT07 and before CMT08 of the region.
\* (A region whose crit is still with a dead process is looked at once it is repaired.)
\* Without the errors between CMT04 and CMT06, where t_commit_cleanup may withdraw an
\* earlier entry of the process (run undo06 shows it).
AllOrNothing ==
  \A s \in 1 .. jnl_seqno - 1, r \in {q \in Region : crit[q] \in Alive \cup {NoProc}} :
    LET v == View(jb[r])
        n == Cardinality({i \in DOMAIN v : v[i].jnl_seqno = s})
    IN IF r \notin txn[s].upd THEN n = 0
       ELSE IF <<s, r>> \in torn THEN n \in {0, 1}
       ELSE n = 1

\* What the journal writer and the source server may read is what the committer wrote
\* (or the salvager in its place, if the committer is dead): no garbage, no record of
\* another transaction, never a NULL record for a live process.
ReadersSeeCommits ==
  \A L \in {pool} \cup {jb[r] : r \in Region} :
    \A k \in 0 .. L.free - 1 :
      LET rec == Fetch(L.file, k) IN
      \/ L = pool /\ rec.kind = "bad"     \* the middle of a transaction: nobody starts there
      \/ /\ rec.kind # "bad"
         /\ (rec.kind = "inctn" <=> rec.jnl_seqno = 0)
         /\ rec.kind # "inctn" => rec.jnl_seqno < jnl_seqno /\ rec.by = txn[rec.jnl_seqno].by
         /\ rec.kind = "null" => rec.by \notin Alive

\* The source server sends the seqnos 1, 2, 3 ... in order, and sends an update only if
\* the journal file of every region of the transaction has it: a secondary never gets what
\* the primary's journals lost to a salvage (CMT16 of all regions before CMT17).  Without
\* the errors between CMT04 and CMT06, which may withdraw what was shipped (run undo06).
ShippedIsJournaled ==
  \A s \in DOMAIN sent :
    /\ sent[s].jnl_seqno = s
    /\ sent[s].kind = "update" =>
         \A r \in txn[s].upd : \E i \in DOMAIN jb[r].file :
           jb[r].file[i].kind = "update" /\ jb[r].file[i].jnl_seqno = s

\* What readers may have seen is never taken back: addresses handed over, curr_tn,
\* jnl_seqno and reg_seqno only grow, and the records below them never change.
Kept(L, M) ==
  /\ L.free <= M.free
  /\ \A a \in 0 .. L.free - 1 : Fetch(L.file, a) = Fetch(M.file, a)

NothingTakenBack ==
  [][/\ Kept(pool, pool') /\ jnl_seqno <= jnl_seqno'
     /\ \A r \in Region :
          /\ Kept(jb[r], jb'[r])
          /\ db[r].curr_tn <= db'[r].curr_tn /\ db[r].reg_seqno <= db'[r].reg_seqno]_vars

\* However the processes die or fail, what is in flight comes to its end: no process waits
\* for ever for the mutex of a dead process, or in crit for a slot of an array whose oldest
\* reservation is of a dead process, and every seqno taken is sent, if need be salvaged by
\* the source server itself.
InFlightEnds ==
  []<>((\A p \in Proc : pc[p] \in {"idle", "dead"}) /\ Len(sent) = jnl_seqno - 1)
=============================================================================
