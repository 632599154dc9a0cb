------------------------------- MODULE MLock --------------------------------
(***************************************************************************)
(* Processes executing M lock commands on one region: LOCK, LOCK +, LOCK -, *)
(* argumentless LOCK, ZALLOCATE and ZDEALLOCATE, with timeouts, interrupts, *)
(* process exit, kill -9, lock space garbage collection and LKE CLEAR.      *)
(*                                                                         *)
(* Each action is the work of one process between two points where other    *)
(* processes may run: one mlk_* call (which holds LOCK crit from start to   *)
(* end), one unprotected read or write of shared memory, or a stretch of    *)
(* purely private work.  MlkShr.tla has the mlk_* calls themselves.         *)
(***************************************************************************)
EXTENDS MlkShr

CONSTANTS
  Commands,   \* Commands[p]: the commands process p may execute
  MaxCmds,    \* bound: commands per process
  MaxClears,  \* bound: LKE CLEARs
  LevelMax,   \* greatest value of the level bit field (511)
  Faults      \* which of FaultKind may happen

UCHAR_MAX == 255   \* translev is an unsigned char

FaultKind == {"kill", "exit", "end", "interrupt", "argerror", "reorder"}
LockOp    == {"LOCK", "LOCK+", "ZALLOCATE"}
Op        == LockOp \cup {"LOCK-", "ZDEALLOCATE", "UNLOCK"}
Command   == [op : Op, args : Seq(Name), time : {"none", "zero", "timed"}]

ASSUME CommandAssumption ==
  /\ \A p \in Proc : \A c \in Commands[p] : c \in Command
  /\ MaxCmds \in Nat /\ MaxClears \in Nat /\ LevelMax \in Nat \ {0}
  /\ Faults \subseteq FaultKind

VARIABLES
  shr,     \* the shared lock space
  latch,   \* lock_gc_in_progress
  alive,   \* the processes kill(pid, 0) finds
  pc,      \* where each process is
  pvt,     \* mlk_pvt_root: the list of private blocks of each process
  lks,     \* lks_this_cmd
  yield,   \* mlk_yield_pid
  loc,     \* the command being executed and the routine's local variables
  ncmd,    \* commands begun, per process
  nclear   \* LKE CLEARs done

vars == <<shr, latch, alive, pc, pvt, lks, yield, loc, ncmd, nclear>>
procvars == <<alive, ncmd, nclear>>

Pvtblk ==
  [name : Name, nodptr : 0 .. max_blkcnt, blocked : 0 .. max_blkcnt,
   sequence : Seqno, blk_sequence : Seqno, level : 0 .. LevelMax,
   zalloc : BOOLEAN, granted : BOOLEAN, trans : BOOLEAN, translev : 0 .. UCHAR_MAX]

PC == {"idle", "name", "lock", "bckout", "wait", "poll", "checkown", "relinquish",
       "unpend", "prune", "unlock", "decr", "zdealloc", "gcwait", "gcfill", "gccheck", "gcclean",
       "exit", "nocrit", "exitzd", "dead", "gtmassert"}

Local ==
  [op : Op, args : Seq(Name), time : {"none", "zero", "timed"},
   pos : Nat \ {0}, left : Nat, new : BOOLEAN, already : BOOLEAN, oot : BOOLEAN, oob : BOOLEAN,
   tab : SUBSET Proc, tmp : Seqno, stored : SUBSET {"counter", "sequence", "owner"}]

NoLocal ==
  [op |-> "UNLOCK", args |-> <<>>, time |-> "none", pos |-> 1, left |-> 0, new |-> FALSE,
   already |-> FALSE, oot |-> FALSE, oob |-> FALSE, tab |-> {}, tmp |-> 0, stored |-> {}]

TypeOK ==
  /\ shr \in Space
  /\ latch \in ProcOrNone
  /\ alive \in SUBSET Proc
  /\ pc \in [Proc -> PC]
  /\ pvt \in [Proc -> Seq(Pvtblk)]
  /\ lks \in [Proc -> Nat]
  /\ yield \in [Proc -> YieldPid]
  /\ loc \in [Proc -> Local]
  /\ ncmd \in [Proc -> Nat]
  /\ nclear \in Nat

Init ==
  /\ shr = mlk_shr_init
  /\ latch = NoProc
  /\ alive = Proc
  /\ pc = [p \in Proc |-> "idle"]
  /\ pvt = [p \in Proc |-> <<>>]
  /\ lks = [p \in Proc |-> 0]
  /\ yield = [p \in Proc |-> NoProc]
  /\ loc = [p \in Proc |-> NoLocal]
  /\ ncmd = [p \in Proc |-> 0]
  /\ nclear = 0

-----------------------------------------------------------------------------
(* Private steps *)

Cur(p) == pvt[p][loc[p].pos]
Goto(p, l) == pc' = [pc EXCEPT ![p] = l]
Update(p, i, e) == pvt' = [pvt EXCEPT ![p][i] = e]

(* The command is over: lks_this_cmd is reset and the locals are gone. *)
Finish(p) ==
  /\ Goto(p, "idle")
  /\ lks' = [lks EXCEPT ![p] = 0]
  /\ loc' = [loc EXCEPT ![p] = NoLocal]

NewPvtblk(n) ==
  [name |-> n, nodptr |-> NoBlk, blocked |-> NoBlk, sequence |-> 0, blk_sequence |-> 0,
   level |-> 0, zalloc |-> FALSE, granted |-> FALSE, trans |-> TRUE, translev |-> 1]

(* A name that is in the list already: counted again if it was named before  *)
(* in this command.                                                         *)
NamedAgain(e) ==
  [e EXCEPT !.trans = TRUE,
            !.translev = IF e.trans THEN (e.translev + 1) % (UCHAR_MAX + 1) ELSE 1]

(* Wrong variant: a name held since an earlier command is entered afresh. *)
mlk_pvtblk_insert_afresh(q, n) ==
  LET at == {i \in DOMAIN q : q[i].name = n}
  IN IF at = {} THEN <<NewPvtblk(n)>> \o q
     ELSE LET i == CHOOSE i \in at : TRUE
          IN <<IF q[i].trans THEN NamedAgain(q[i]) ELSE NewPvtblk(n)>> \o RemoveAt(q, i)

(* Wrong variant: a name that is repeated in a command is counted once more. *)
mlk_pvtblk_insert_recount(q, n) ==
  LET at == {i \in DOMAIN q : q[i].name = n}
  IN IF at = {} THEN <<NewPvtblk(n)>> \o q
     ELSE LET i == CHOOSE i \in at : TRUE
          IN <<[q[i] EXCEPT !.trans = TRUE, !.translev = 1]>> \o RemoveAt(q, i)

(* A name already in the list moves to its front. *)
mlk_pvtblk_insert(q, n) ==
  LET at == {i \in DOMAIN q : q[i].name = n}
  IN IF at = {} THEN <<NewPvtblk(n)>> \o q
     ELSE LET i == CHOOSE i \in at : TRUE
          IN <<NamedAgain(q[i])>> \o RemoveAt(q, i)

lckclr(q, n) == [i \in DOMAIN q |-> IF i <= n THEN [q[i] EXCEPT !.trans = FALSE] ELSE q[i]]

(* An M command is issued.  LOCK and argumentless LOCK run op_unlock first;  *)
(* the others start with op_lkinit, which fails with BADLOCKNEST, and clears *)
(* lks_this_cmd, if an earlier command never got to its end.                *)
Begin(p, c) ==
  /\ p \in alive /\ pc[p] = "idle" /\ ncmd[p] < MaxCmds
  /\ ncmd' = [ncmd EXCEPT ![p] = @ + 1]
  /\ LET l == [NoLocal EXCEPT !.op = c.op, !.args = c.args, !.time = c.time,
                              !.left = Len(pvt[p])]
     IN \/ /\ c.op \in {"LOCK", "UNLOCK"}
           /\ lks' = [lks EXCEPT ![p] = 0]
           /\ loc' = [loc EXCEPT ![p] = l]
           /\ Goto(p, "unlock")
        \/ /\ c.op \notin {"LOCK", "UNLOCK"} /\ lks[p] # 0
           /\ lks' = [lks EXCEPT ![p] = 0]
           /\ UNCHANGED <<loc, pc>>
        \/ /\ c.op \notin {"LOCK", "UNLOCK"} /\ lks[p] = 0
           /\ loc' = [loc EXCEPT ![p] = l]
           /\ Goto(p, "name")
           /\ UNCHANGED lks
  /\ UNCHANGED <<shr, latch, alive, pvt, yield, nclear>>

(* op_lkname for the next argument.  A name whose translev has wrapped around *)
(* to 0 is counted in lks_this_cmd once more when it is named again.         *)
MoreArgs(p) == loc[p].pos <= Len(loc[p].args)

OpLkname(p) ==
  /\ pc[p] = "name" /\ MoreArgs(p)
  /\ LET q == mlk_pvtblk_insert(pvt[p], loc[p].args[loc[p].pos])
     IN /\ pvt' = [pvt EXCEPT ![p] = q]
        /\ lks' = [lks EXCEPT ![p] = IF q[1].translev = 1 THEN @ + 1 ELSE @]
  /\ loc' = [loc EXCEPT ![p].pos = @ + 1]
  /\ UNCHANGED <<shr, latch, pc, yield, procvars>>

(* Evaluating the next argument raises an error: the M error trap runs, and  *)
(* nothing undoes the names already entered.                                *)
ArgError(p) ==
  /\ "argerror" \in Faults /\ pc[p] = "name" /\ MoreArgs(p)
  /\ Goto(p, "idle")
  /\ loc' = [loc EXCEPT ![p] = NoLocal]
  /\ UNCHANGED <<shr, latch, pvt, lks, yield, procvars>>

(* All names are entered: op_lock2, op_decrlock or op_zdealloc2 begins. *)
StartLock(p) ==
  /\ pc[p] = "name" /\ ~MoreArgs(p) /\ loc[p].op \in LockOp
  /\ pvt' = [pvt EXCEPT ![p] = lckclr(@, lks[p])]
  /\ yield' = [yield EXCEPT ![p] = NoProc]
  /\ IF lks[p] = 0 THEN Finish(p)
     ELSE /\ loc' = [loc EXCEPT ![p].pos = 1, ![p].new = TRUE, ![p].already = FALSE,
                                ![p].oot = loc[p].time = "zero"]
          /\ Goto(p, "lock")
          /\ UNCHANGED lks
  /\ UNCHANGED <<shr, latch, procvars>>

StartRelease(p) ==
  /\ pc[p] = "name" /\ ~MoreArgs(p) /\ loc[p].op \in {"LOCK-", "ZDEALLOCATE"}
  /\ pvt' = [pvt EXCEPT ![p] = lckclr(@, lks[p])]
  /\ loc' = [loc EXCEPT ![p].pos = 1,
               ![p].left = IF loc[p].op = "ZDEALLOCATE" /\ lks[p] = 0 THEN Len(pvt[p]) ELSE lks[p]]
  /\ Goto(p, IF loc[p].op = "LOCK-" THEN "decr" ELSE "zdealloc")
  /\ UNCHANGED <<shr, latch, lks, yield, procvars>>

-----------------------------------------------------------------------------
(* op_lock2: trying for the locks in turn *)

(* The lock at pos is obtained: account for it and go on to the next one.    *)
(* LOCK + of a lock at the greatest level is an error that ends the command. *)
Raised(e) == [e EXCEPT !.granted = TRUE, !.level = (e.level + e.translev) % (LevelMax + 1)]

Obtained(p, e) ==
  LET i    == loc[p].pos
      full == loc[p].op = "LOCK+" /\ e.level >= LevelMax
  IN /\ \/ loc[p].op = "LOCK" /\ Update(p, i, [e EXCEPT !.granted = TRUE, !.level = 1])
        \/ loc[p].op = "ZALLOCATE" /\ Update(p, i, [e EXCEPT !.granted = TRUE, !.zalloc = TRUE])
        \/ loc[p].op = "LOCK+" /\ ~full /\ Update(p, i, Raised(e))
        \/ full /\ Update(p, i, [e EXCEPT !.granted = TRUE])
     /\ IF i = lks[p] \/ full THEN Finish(p)
        ELSE /\ loc' = [loc EXCEPT ![p].pos = i + 1]
             /\ Goto(p, "lock")
             /\ UNCHANGED lks

(* The result r of mlk_lock for the lock at pos, first attempt. *)
FirstAttempt(p, r) ==
  /\ yield' = [yield EXCEPT ![p] = r.yield]
  /\ \/ r.got /\ Obtained(p, r.e)
     \/ /\ ~r.got
        /\ Update(p, loc[p].pos, r.e)
        /\ loc' = [loc EXCEPT ![p].left = loc[p].pos - 1, ![p].new = FALSE]
        /\ Goto(p, IF loc[p].pos > 1 THEN "bckout" ELSE "wait")
        /\ UNCHANGED lks

(* ... and of a later attempt.  If it succeeds for the first lock of the     *)
(* list that lock is kept; otherwise it is given up and all are tried again. *)
Reattempt(p, r) ==
  /\ Update(p, loc[p].pos, r.e)
  /\ UNCHANGED lks
  /\ \/ /\ r.got /\ loc[p].pos = 1
        /\ yield' = [yield EXCEPT ![p] = IF r.yield = MLK_FAIRNESS_DISABLED THEN r.yield ELSE NoProc]
        /\ loc' = [loc EXCEPT ![p].already = TRUE, ![p].new = TRUE]
        /\ Goto(p, "lock")
     \/ /\ r.got /\ loc[p].pos > 1
        /\ yield' = [yield EXCEPT ![p] = r.yield]
        /\ Goto(p, "relinquish")
        /\ UNCHANGED loc
     \/ /\ ~r.got
        /\ yield' = [yield EXCEPT ![p] = r.yield]
        /\ Goto(p, IF r.e.nodptr # NoBlk THEN "checkown" ELSE "wait")
        /\ UNCHANGED loc

LockIn(p, s) ==
  \E r \in mlk_lock(s, Cur(p), p, loc[p].new, yield[p], alive) :
    /\ shr' = r.space
    /\ IF loc[p].new THEN FirstAttempt(p, r) ELSE Reattempt(p, r)

(* Wrong variant: every lock of the list counts as obtained. *)
AlreadyLocked_all(p) == loc[p].new /\ loc[p].already

AlreadyLocked(p) == loc[p].new /\ loc[p].already /\ loc[p].pos = 1
SpaceShort(p) == Cardinality(Free(shr)) < subscript_cnt(Cur(p).name)

TryLock(p) ==
  /\ pc[p] = "lock" /\ ~AlreadyLocked(p) /\ ~SpaceShort(p)
  /\ LockIn(p, shr)
  /\ UNCHANGED <<latch, procvars>>

SkipLocked(p) ==
  /\ pc[p] = "lock" /\ AlreadyLocked(p)
  /\ Obtained(p, Cur(p))
  /\ UNCHANGED <<shr, latch, yield, procvars>>

(* mlk_bckout of the locks before the one that blocked, from the front.      *)
(* op_lock2 passes CM_ZALLOCATES, which mlk_bckout does not know: GTMASSERT.  *)
Lowered(e) == [e EXCEPT !.level = (e.level - e.translev) % (LevelMax + 1)]

(* Wrong variants: the backed out lock still counts as granted; the loop     *)
(* goes one lock too far.                                                   *)
Undone_granted(e) == [e EXCEPT !.level = 0, !.nodptr = NoBlk]
BckoutDone_late(p) == loc[p].left = 0

BckoutDone(p) == loc[p].left = 1
Undone(e) == [e EXCEPT !.granted = FALSE, !.level = 0, !.nodptr = NoBlk]

mlk_bckout(p) ==
  LET i  == loc[p].pos - loc[p].left
      e  == pvt[p][i]
      e1 == IF loc[p].op = "LOCK" THEN [e EXCEPT !.level = 0] ELSE Lowered(e)
  IN /\ pc[p] = "bckout" /\ loc[p].op # "ZALLOCATE"
     /\ \/ /\ e1.level = 0 /\ ~e.zalloc
           /\ shr' = mlk_unlock(shr, e, p, alive)
           /\ Update(p, i, Undone(e))
        \/ /\ e1.level # 0 \/ e.zalloc
           /\ Update(p, i, e1)
           /\ UNCHANGED shr
     /\ loc' = [loc EXCEPT ![p].left = @ - 1]
     /\ Goto(p, IF BckoutDone(p) THEN "wait" ELSE "bckout")
     /\ UNCHANGED <<latch, lks, yield, procvars>>

BckoutZallocate(p) ==
  /\ pc[p] = "bckout" /\ loc[p].op = "ZALLOCATE"
  /\ Goto(p, "gtmassert")
  /\ alive' = alive \ {p}
  /\ UNCHANGED <<shr, latch, pvt, lks, yield, loc, ncmd, nclear>>

-----------------------------------------------------------------------------
(* op_lock2: waiting for the lock at pos *)

(* The timer of a timed command: wake_alarm sets out_of_time. *)
TimerPop(p) ==
  /\ pc[p] = "wait" /\ loc[p].time = "timed" /\ ~loc[p].oot
  /\ loc' = [loc EXCEPT ![p].oot = TRUE]
  /\ UNCHANGED <<shr, latch, pc, pvt, lks, yield, procvars>>

(* Out of time: give up, unless the blocking lock has meanwhile gone. *)
OutOfTime(p) ==
  /\ pc[p] = "wait" /\ loc[p].oot
  /\ shr' = mlk_check_own(shr, Cur(p), alive)
  /\ Goto(p, IF check_own_result(shr, Cur(p), alive) THEN "poll" ELSE "unpend")
  /\ UNCHANGED <<latch, pvt, lks, yield, loc, procvars>>

(* CTRL-C, a job interrupt or a TP timeout is pending. *)
Interrupt(p) ==
  /\ "interrupt" \in Faults /\ pc[p] = "wait"
  /\ loc' = [loc EXCEPT ![p].oob = TRUE]
  /\ Goto(p, "unpend")
  /\ UNCHANGED <<shr, latch, pvt, lks, yield, procvars>>

(* After the sleep: is a new attempt worth taking crit for?  The test reads  *)
(* the blocking node without crit.                                          *)
(* Wrong variant: the death of the blocking process is not noticed. *)
StillBlocked_deaf(e) ==
  e.blocked # NoBlk /\ e.blk_sequence = shr.sequence[e.blocked]

StillBlocked(e) ==
  /\ e.blocked # NoBlk
  /\ e.blk_sequence = shr.sequence[e.blocked]
  /\ BlockerAlive(shr, e, alive)

Poll(p) ==
  /\ pc[p] = "poll" \/ (pc[p] = "wait" /\ ~loc[p].oot)
  /\ \/ /\ StillBlocked(Cur(p))
        /\ latch' = IF latch = p THEN NoProc ELSE latch
        /\ Goto(p, "wait")
     \/ /\ ~StillBlocked(Cur(p))
        /\ Goto(p, "lock")
        /\ UNCHANGED latch
  /\ UNCHANGED <<shr, pvt, lks, yield, loc, procvars>>

CheckOwn(p) ==
  /\ pc[p] = "checkown"
  /\ shr' = mlk_check_own(shr, Cur(p), alive)
  /\ Goto(p, "wait")
  /\ UNCHANGED <<latch, pvt, lks, yield, loc, procvars>>

(* The lock was obtained on a later attempt, but it is not the first of the  *)
(* list: give it up, switch fairness off and start again with the first.     *)
Relinquish(p) ==
  /\ pc[p] = "relinquish"
  /\ shr' = mlk_unlock(shr, Cur(p), p, alive)
  /\ yield' = [yield EXCEPT ![p] = MLK_FAIRNESS_DISABLED]
  /\ loc' = [loc EXCEPT ![p].pos = 1, ![p].new = TRUE, ![p].already = FALSE]
  /\ Goto(p, "lock")
  /\ UNCHANGED <<latch, pvt, lks, procvars>>

(* Leave the queue.  An interrupt before the time is up abandons the command *)
(* and leaves its private blocks where they are; a timeout goes on to remove *)
(* those that were not granted.                                             *)
Unpend(p) ==
  /\ pc[p] = "unpend"
  /\ shr' = IF Cur(p).nodptr # NoBlk THEN mlk_unpend(shr, Cur(p), p) ELSE shr
  /\ \/ loc[p].oob /\ ~loc[p].oot /\ Finish(p)
     \/ /\ loc[p].oot \/ loc[p].time = "timed"
        /\ lks' = [lks EXCEPT ![p] = 0]
        /\ loc' = [loc EXCEPT ![p].pos = 1, ![p].left = Len(pvt[p])]
        /\ Goto(p, "prune")
  /\ UNCHANGED <<latch, pvt, yield, procvars>>

-----------------------------------------------------------------------------
(* Garbage collection from inside mlk_lock *)

NeedGc(p) ==
  /\ pc[p] = "lock" /\ ~AlreadyLocked(p) /\ SpaceShort(p)
  /\ Goto(p, "gcwait")
  /\ UNCHANGED <<shr, latch, pvt, lks, yield, loc, procvars>>

(* prepare_for_gc: take the latch when it is free, free it when its holder   *)
(* is dead.                                                                 *)
GetGcLatch(p) ==
  /\ pc[p] = "gcwait" /\ latch \in {NoProc, p}
  /\ latch' = p
  /\ Goto(p, "gcfill")
  /\ UNCHANGED <<shr, pvt, lks, yield, loc, procvars>>

(* Wrong variant: the latch of a dead collector is never freed. *)
SalvageGcLatch_never(p) == FALSE

SalvageGcLatch(p) ==
  /\ pc[p] = "gcwait" /\ latch \notin alive \cup {NoProc}
  /\ latch' = NoProc
  /\ UNCHANGED <<shr, pc, pvt, lks, yield, loc, procvars>>

(* Back in crit: the shortage may have passed.  Any part of the pids may be  *)
(* missing from the table: it is indexed by pid modulo its size, so a pid    *)
(* may displace others, and the loop over a ring of three or more siblings   *)
(* ends before it has seen them all.                                        *)
GcFill(p) ==
  /\ pc[p] = "gcfill"
  /\ \/ /\ ~SpaceShort(p) \/ InUse(shr) = {}
        /\ latch' = NoProc
        /\ LockIn(p, shr)
     \/ /\ SpaceShort(p) /\ InUse(shr) # {}
        /\ \E T \in SUBSET fill_pid_table(shr) : loc' = [loc EXCEPT ![p].tab = T]
        /\ Goto(p, "gccheck")
        /\ UNCHANGED <<shr, latch, pvt, lks, yield>>
  /\ UNCHANGED procvars

(* Wrong variant: nobody is asked whether the pids in the table are alive. *)
check_pids_blind(p) ==
  /\ pc[p] = "gccheck"
  /\ Goto(p, "gcclean")
  /\ UNCHANGED <<shr, latch, pvt, lks, yield, loc, procvars>>

check_pids(p) ==
  /\ pc[p] = "gccheck"
  /\ loc' = [loc EXCEPT ![p].tab = @ \ alive]
  /\ Goto(p, "gcclean")
  /\ UNCHANGED <<shr, latch, pvt, lks, yield, procvars>>

GcClean(p) ==
  /\ pc[p] = "gcclean"
  /\ latch' = NoProc
  /\ LockIn(p, clean_pids(shr, loc[p].tab))
  /\ UNCHANGED procvars

-----------------------------------------------------------------------------
(* Releasing: op_unlock, op_decrlock, op_zdealloc2 walk the private list *)

(* Drop the private block at pos; the walk goes on with the one behind it. *)
DropCur(p) ==
  /\ pvt' = [pvt EXCEPT ![p] = RemoveAt(@, loc[p].pos)]
  /\ loc' = [loc EXCEPT ![p].left = @ - 1]

KeepCur(p, e) ==
  /\ Update(p, loc[p].pos, e)
  /\ loc' = [loc EXCEPT ![p].left = @ - 1, ![p].pos = @ + 1]

(* The end of a timed command that failed: the private blocks that were      *)
(* never granted go.                                                        *)
PruneStep(p) ==
  /\ pc[p] = "prune" /\ loc[p].left > 0
  /\ IF Cur(p).granted THEN KeepCur(p, Cur(p)) ELSE DropCur(p)
  /\ UNCHANGED <<shr, latch, pc, lks, yield, procvars>>

(* Wrong variant: a lock taken several times is released one level at a time. *)
UnlockStep_onelevel(p) ==
  /\ pc[p] = "unlock" /\ loc[p].left > 0
  /\ \/ ~Cur(p).granted /\ DropCur(p) /\ UNCHANGED shr
     \/ /\ Cur(p).granted /\ (Cur(p).zalloc \/ Cur(p).level > 1)
        /\ KeepCur(p, [Cur(p) EXCEPT !.level = 1]) /\ UNCHANGED shr
     \/ /\ Cur(p).granted /\ ~Cur(p).zalloc /\ Cur(p).level <= 1
        /\ shr' = mlk_unlock(shr, Cur(p), p, alive) /\ DropCur(p)
  /\ UNCHANGED <<latch, pc, lks, yield, procvars>>

UnlockStep(p) ==
  /\ pc[p] = "unlock" /\ loc[p].left > 0
  /\ \/ ~Cur(p).granted /\ DropCur(p) /\ UNCHANGED shr
     \/ /\ Cur(p).granted /\ Cur(p).zalloc
        /\ KeepCur(p, [Cur(p) EXCEPT !.level = 0]) /\ UNCHANGED shr
     \/ /\ Cur(p).granted /\ ~Cur(p).zalloc
        /\ shr' = mlk_unlock(shr, Cur(p), p, alive) /\ DropCur(p)
  /\ UNCHANGED <<latch, pc, lks, yield, procvars>>

op_decrlock(p) ==
  LET e   == Cur(p)
      lev == IF e.translev > e.level THEN 0 ELSE e.level - e.translev
  IN /\ pc[p] = "decr" /\ loc[p].left > 0
     /\ \/ ~e.granted /\ DropCur(p) /\ UNCHANGED shr
        \/ /\ e.granted /\ ~e.zalloc /\ lev = 0
           /\ shr' = mlk_unlock(shr, e, p, alive) /\ DropCur(p)
        \/ /\ e.granted /\ (e.zalloc \/ lev # 0)
           /\ KeepCur(p, [e EXCEPT !.level = lev]) /\ UNCHANGED shr
     /\ UNCHANGED <<latch, pc, lks, yield, procvars>>

op_zdealloc2(p) ==
  /\ pc[p] \in {"zdealloc", "exitzd"} /\ loc[p].left > 0
  /\ \/ ~Cur(p).granted /\ DropCur(p) /\ UNCHANGED shr
     \/ /\ Cur(p).granted /\ Cur(p).level = 0
        /\ shr' = mlk_unlock(shr, Cur(p), p, alive) /\ DropCur(p)
     \/ /\ Cur(p).granted /\ Cur(p).level # 0
        /\ KeepCur(p, [Cur(p) EXCEPT !.zalloc = FALSE]) /\ UNCHANGED shr
  /\ UNCHANGED <<latch, pc, lks, yield, procvars>>

EndRelease(p) ==
  /\ pc[p] \in {"unlock", "decr", "zdealloc", "prune"} /\ loc[p].left = 0
  /\ IF pc[p] = "unlock" /\ loc[p].op = "LOCK"
     THEN Goto(p, "name") /\ loc' = [loc EXCEPT ![p].pos = 1] /\ UNCHANGED lks
     ELSE Finish(p)
  /\ UNCHANGED <<shr, latch, pvt, yield, procvars>>

-----------------------------------------------------------------------------
(* Process exit and death *)

(* The exit handler: op_unlock with process_exiting set, then op_zdeallocate. *)
(* It runs when the M program ends or, after a signal, wherever it is.       *)
Exit(p) ==
  /\ "exit" \in Faults \/ ("end" \in Faults /\ pc[p] = "idle")
  /\ p \in alive /\ pc[p] \notin {"exit", "nocrit", "exitzd"}
  /\ Goto(p, "exit")
  /\ lks' = [lks EXCEPT ![p] = 0]
  /\ loc' = [loc EXCEPT ![p] = [NoLocal EXCEPT !.left = Len(pvt[p])]]
  /\ UNCHANGED <<shr, latch, pvt, yield, procvars>>

(* mlk_nocrit_unlock runs without crit: its test and the load of the counter *)
(* come first, then the stores to lock_sequence, d->sequence and d->owner,   *)
(* each visible to the others on its own.                                   *)
ExitStep(p) ==
  /\ pc[p] = "exit" /\ loc[p].left > 0
  /\ LET e == Cur(p) IN
     \/ /\ ~e.granted \/ (~e.zalloc /\ ~OwnsNode(shr, e, p))
        /\ DropCur(p) /\ UNCHANGED pc
     \/ /\ e.granted /\ e.zalloc
        /\ KeepCur(p, [e EXCEPT !.level = 0]) /\ UNCHANGED pc
     \/ /\ e.granted /\ ~e.zalloc /\ OwnsNode(shr, e, p)
        /\ loc' = [loc EXCEPT ![p].tmp = shr.lock_sequence, ![p].stored = {}]
        /\ Goto(p, "nocrit")
        /\ UNCHANGED pvt
  /\ UNCHANGED <<shr, latch, lks, yield, procvars>>

Stored(p, what) ==
  IF loc[p].stored \cup {what} = {"counter", "sequence", "owner"}
  THEN DropCur(p) /\ Goto(p, "exit")
  ELSE loc' = [loc EXCEPT ![p].stored = @ \cup {what}] /\ UNCHANGED <<pvt, pc>>

StoreCounter(p) ==
  /\ pc[p] = "nocrit" /\ loc[p].stored = {}
  /\ shr' = [shr EXCEPT !.lock_sequence = (loc[p].tmp + 1) % SeqMod]
  /\ Stored(p, "counter")
  /\ UNCHANGED <<latch, lks, yield, procvars>>

StoreSequence(p) ==
  /\ pc[p] = "nocrit" /\ "counter" \in loc[p].stored /\ "sequence" \notin loc[p].stored
  /\ shr' = [shr EXCEPT !.sequence[Cur(p).nodptr] = loc[p].tmp]
  /\ Stored(p, "sequence")
  /\ UNCHANGED <<latch, lks, yield, procvars>>

(* Wrong variant: the owner may be cleared before the sequence number is set. *)
StoreOwner_early(p) ==
  /\ pc[p] = "nocrit" /\ "counter" \in loc[p].stored /\ "owner" \notin loc[p].stored
  /\ shr' = ClearOwner(shr, {Cur(p).nodptr})
  /\ Stored(p, "owner")
  /\ UNCHANGED <<latch, lks, yield, procvars>>

StoreOwner(p) ==
  /\ pc[p] = "nocrit" /\ "counter" \in loc[p].stored /\ "owner" \notin loc[p].stored
  /\ "sequence" \in loc[p].stored \/ "reorder" \in Faults
  /\ shr' = ClearOwner(shr, {Cur(p).nodptr})
  /\ Stored(p, "owner")
  /\ UNCHANGED <<latch, lks, yield, procvars>>

ExitZdeallocate(p) ==
  /\ pc[p] = "exit" /\ loc[p].left = 0
  /\ Goto(p, "exitzd")
  /\ loc' = [loc EXCEPT ![p] = [NoLocal EXCEPT !.left = Len(pvt[p])]]
  /\ UNCHANGED <<shr, latch, pvt, lks, yield, procvars>>

(* The process is gone, by exit or by kill -9, with whatever it left behind. *)
Vanish(p) ==
  /\ alive' = alive \ {p}
  /\ Goto(p, "dead")
  /\ pvt' = [pvt EXCEPT ![p] = <<>>]
  /\ lks' = [lks EXCEPT ![p] = 0]
  /\ yield' = [yield EXCEPT ![p] = NoProc]
  /\ loc' = [loc EXCEPT ![p] = NoLocal]
  /\ UNCHANGED <<shr, latch, ncmd, nclear>>

ExitDone(p) == pc[p] = "exitzd" /\ loc[p].left = 0 /\ Vanish(p)
Kill(p) == "kill" \in Faults /\ p \in alive /\ Vanish(p)

(* LKE CLEAR of one lock, in crit, from a process that takes no locks. *)
LkeClear(b) ==
  /\ nclear < MaxClears /\ b \in InUse(shr) /\ shr.owner[b] # NoProc
  /\ shr' \in lke_cleartree(shr, b, alive)
  /\ nclear' = nclear + 1
  /\ UNCHANGED <<latch, alive, pc, pvt, lks, yield, loc, ncmd>>

-----------------------------------------------------------------------------
(* What a process does of its own accord once it is inside a command *)
Run(p) ==
  \/ OpLkname(p) \/ StartLock(p) \/ StartRelease(p)
  \/ TryLock(p) \/ SkipLocked(p) \/ mlk_bckout(p) \/ BckoutZallocate(p)
  \/ TimerPop(p) \/ OutOfTime(p) \/ Poll(p) \/ CheckOwn(p) \/ Relinquish(p) \/ Unpend(p)
  \/ NeedGc(p) \/ GetGcLatch(p) \/ SalvageGcLatch(p) \/ GcFill(p) \/ check_pids(p) \/ GcClean(p)
  \/ PruneStep(p) \/ UnlockStep(p) \/ op_decrlock(p) \/ op_zdealloc2(p) \/ EndRelease(p)
  \/ ExitStep(p) \/ StoreCounter(p) \/ StoreSequence(p) \/ StoreOwner(p)
  \/ ExitZdeallocate(p) \/ ExitDone(p)

Next ==
  \/ \E p \in Proc : \E c \in Commands[p] : Begin(p, c)
  \/ \E p \in Proc : Run(p)
  \/ \E p \in Proc : ArgError(p) \/ Interrupt(p) \/ Exit(p) \/ Kill(p)
  \/ \E b \in Blk : LkeClear(b)

Spec == Init /\ [][Next]_vars

-----------------------------------------------------------------------------
(* Properties *)

Exiting == {"exit", "nocrit", "exitzd"}
InLock == {"lock", "bckout", "wait", "poll", "checkown", "relinquish", "unpend",
           "gcwait", "gcfill", "gccheck", "gcclean"}
Releasing == Exiting \cup {"unlock", "decr", "zdealloc", "prune"}
Running(p) == p \in alive /\ pc[p] \notin Exiting

(* M locks are hierarchical: two nodes of which one is above the other, or   *)
(* which have the same name, never have different owners, even while a dead  *)
(* process still owns one of them: mlk_lock clears it before it grants.      *)
Exclusion == OneOwnerPerBranch(shr)

(* No translev has wrapped: no command, with the names an argument error left *)
(* before it, named one lock 256 times.  The code does not ensure it.        *)
RepeatsFit == \A p \in Proc : \A i \in DOMAIN pvt[p] : pvt[p][i].translev # 0

(* The private list is long enough for every loop that counts its way along  *)
(* it: the first lks_this_cmd blocks are the names of this command, whatever *)
(* earlier commands left behind.  This holds as long as RepeatsFit does: the *)
(* 257th mention of a name makes mlk_pvtblk_insert count it a second time.   *)
Listed(l, q, k, m) ==
  /\ l = "name" => k <= Len(q) /\ \A i \in 1 .. k : q[i].trans
  /\ l \in InLock => m.pos <= k /\ k <= Len(q)
  /\ l = "bckout" => m.left \in 1 .. m.pos - 1
  /\ l = "unlock" => k = 0
  /\ l \in Releasing => m.pos + m.left <= Len(q) + 1
  /\ l = "nocrit" => m.left > 0 /\ q[m.pos].nodptr # NoBlk

WalksStayInList == \A p \in Proc : Listed(pc[p], pvt[p], lks[p], loc[p])

(* The nodes form a tree: each prefix of a node's name has exactly one node  *)
(* (a second one would be a second lock of that name).                      *)
TreeShape ==
  \A b \in InUse(shr) : \A m \in Path[shr.name[b]] :
    Cardinality({c \in InUse(shr) : shr.name[c] = m}) = 1

(* No prcblk is lost or counted twice, and free shrblks carry no queue.      *)
PrcblksConserved ==
  /\ shr.prccnt + Cardinality({bi \in Blk \X (1 .. max_prccnt) : bi[2] <= Len(shr.pending[bi[1]])})
       = max_prccnt
  /\ \A b \in Free(shr) : Vacant(shr, b)

(* A process that is not on its way out is queued only on the node of the    *)
(* lock it is waiting for, and only once.                                   *)
QueuedIsWaiting ==
  \A b \in Blk : \A i \in DOMAIN shr.pending[b] :
    LET r == shr.pending[b][i] IN
    /\ r.ref_cnt = 1
    /\ Queued(shr, b, r.process_id) = {i}
    /\ Running(r.process_id) =>
         /\ pc[r.process_id] \in InLock /\ ~loc[r.process_id].new
         /\ Cur(r.process_id).nodptr = b

(* What a process believes and what the lock space says agree, unless LKE    *)
(* has interfered: a granted private block points to a node of its name that *)
(* the process owns under the sequence number that mlk_unlock will test ...  *)
HeldIsOwned ==
  nclear = 0 =>
    \A p \in Proc : Running(p) => \A i \in DOMAIN pvt[p] :
      pvt[p][i].granted =>
        OwnsNode(shr, pvt[p][i], p) /\ shr.name[pvt[p][i].nodptr] = pvt[p][i].name

(* ... and a node owned by a running process has a private block through     *)
(* which the process will release it: no lock is leaked.                    *)
OwnedIsHeld ==
  \A b \in InUse(shr) : Running(shr.owner[b]) =>
    LET p == shr.owner[b] IN
    \E i \in DOMAIN pvt[p] :
      /\ pvt[p][i].name = shr.name[b]
      /\ pvt[p][i].nodptr = b /\ OwnsNode(shr, pvt[p][i], p)
      /\ pvt[p][i].granted \/ i = loc[p].pos

(* A waiter that goes on sleeping without taking crit is blocked by a live   *)
(* owner of a related name, not by a stranger in a node that was freed and   *)
(* reused: op_lock2 tells them apart by blk_sequence alone.  This holds as   *)
(* long as no process exits with a lock: the unprotected lock_sequence++ of  *)
(* mlk_nocrit_unlock may set the counter back, and a number comes twice.     *)
SleepJustified ==
  \A p \in alive : pc[p] \in {"wait", "poll"} /\ StillBlocked(Cur(p)) =>
    /\ Cur(p).blocked \in InUse(shr)
    /\ Related(shr.name[Cur(p).blocked], Cur(p).name)
    /\ shr.owner[Cur(p).blocked] # p

(* When a LOCK, LOCK + or ZALLOCATE command completes without an error every *)
(* name of its list is reserved by the process, as long as LKE CLEAR has not *)
(* taken a lock away.                                                       *)
Completes(p) ==
  /\ loc[p].op \in LockOp /\ pc[p] \in {"name", "lock", "gcfill", "gcclean"} /\ pc'[p] = "idle"
  /\ ~(pc[p] = "name" /\ MoreArgs(p))
  /\ pc[p] # "name" /\ loc[p].op = "LOCK+" => Cur(p).level < LevelMax

CompletedIsReserved ==
  [][\A p \in Proc : nclear = 0 /\ Completes(p) =>
       \A k \in DOMAIN loc[p].args : \E i \in DOMAIN pvt'[p] :
         pvt'[p][i].name = loc[p].args[k] /\ OwnsNode(shr', pvt'[p][i], p)]_vars

(* When an argumentless LOCK completes, or a LOCK gives up by timeout or     *)
(* interrupt, the process owns nothing but what it has ZALLOCATEd.           *)
UnlockedIsReleased ==
  [][\A p \in Proc :
       /\ pc'[p] = "idle"
       /\ \/ pc[p] = "unlock"
          \/ pc[p] \in {"unpend", "prune"} /\ loc[p].op = "LOCK"
       => \A b \in InUse(shr') : shr'.owner[b] = p =>
            \E i \in DOMAIN pvt'[p] : pvt'[p][i].nodptr = b /\ pvt'[p][i].zalloc]_vars

(* The lock manager keeps the promise of HierLock.tla: holder is read off    *)
(* the lock space, a process is busy from the start of a command (or of its  *)
(* exit handler) to its end.                                                *)
OwnedNodes(s, n) == {b \in Blk : s.name[b] = n /\ s.owner[b] # NoProc}
Holder(s) == [n \in Name |-> IF OwnedNodes(s, n) = {} THEN NoProc
                             ELSE s.owner[CHOOSE b \in OwnedNodes(s, n) : TRUE]]
Busy == {p \in alive : pc[p] # "idle"}

HL == INSTANCE HierLock WITH
  holder <- Holder(shr),
  busy   <- Busy,
  live   <- alive,
  MayClear <- MaxClears > 0

KeepsPromise == HL!HSpec

-----------------------------------------------------------------------------
(* Scheduling.  CanRun(p) is ENABLED <<Run(p)>>_vars outside prepare_for_gc, *)
(* written out: inside a command a process is stopped only by the lock it    *)
(* waits for or by the holder of the collection latch.                       *)
CanRun(p) ==
  /\ p \in alive /\ pc[p] \notin {"idle", "gcwait"}
  /\ pc[p] = "wait" => \/ loc[p].oot \/ loc[p].time = "timed"
                      \/ ~StillBlocked(Cur(p)) \/ latch = p

(* A process that can go on does so (weak fairness of Run, and of what it    *)
(* does in prepare_for_gc), and no process sits on its locks for ever:       *)
(* between commands it exits in the end.                                    *)
FairSpec ==
  /\ Spec
  /\ \A p \in Proc :
       /\ <>[]CanRun(p) => []<><<Run(p)>>_vars
       /\ WF_vars(GetGcLatch(p) \/ SalvageGcLatch(p))
       /\ WF_vars(pc[p] = "idle" /\ Exit(p))

(* Nobody waits for ever for a lock that its holders give up in the end.     *)
Served == \A p \in Proc : pc[p] \in InLock ~> pc[p] \notin InLock

(* A process is never kept waiting for ever by waiters only: "we will        *)
(* eventually get our turn this way (won't starve)", mlk_shrblk_find.c.      *)
OnlyWaitersBlock(p) ==
  /\ p \in alive /\ pc[p] \in InLock
  /\ \A b \in InUse(shr) : Related(shr.name[b], Cur(p).name) => shr.owner[b] \in {NoProc, p}

NeverStarved == \A p \in Proc : []<>~OnlyWaitersBlock(p)
=============================================================================
