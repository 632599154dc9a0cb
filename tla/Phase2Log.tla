----------------------------- MODULE Phase2Log ------------------------------
(***************************************************************************)
(* The two-phase log that a journal buffer (jnl_buffer) and the journal     *)
(* pool (jnlpool_ctl) both are.  A committer reserves space in crit, fills  *)
(* it after it has released crit, and says so; the space is handed to the   *)
(* readers (the journal writer, the source server) in order, up to the      *)
(* first reservation that is not filled.  Reservations of dead processes    *)
(* are filled with NULL (or INCTN) records by someone who holds crit.       *)
(*                                                                         *)
(* These are the operations on one log, as functions from log to log; every *)
(* one runs under phase2_commit_latch or in crit.  Commit.tla has the       *)
(* processes.  Field names are those of the code with the names of the two  *)
(* structures unified:                                                      *)
(*    free    freeaddr            write_addr                                *)
(*    rsrv    rsrv_freeaddr       rsrv_write_addr                           *)
(*    last    (none)              lastwrite_len                             *)
(*    index1, index2              phase2_commit_index1, phase2_commit_index2*)
(*    slot    phase2_commit_array                                           *)
(*    file    the bytes: what a reader finds at each address                *)
(***************************************************************************)
EXTENDS Integers, Sequences, FiniteSetsExt

CONSTANTS
  Proc,      \* process ids
  N          \* JNL_PHASE2_COMMIT_ARRAY_SIZE, JPL_PHASE2_COMMIT_ARRAY_SIZE

NoProc == 0

ASSUME LogAssumption == NoProc \notin Proc /\ N \in Nat \ {0, 1}

Index == 0 .. N - 1

\* jbuf_phase2_in_prog_t and jpl_phase2_in_prog_t; the pool has no curr_tn and no
\* in_phase2, the journal buffer no prev_jrec_len
Slot ==
  [process_id : Proc \cup {NoProc}, curr_tn : Nat, jnl_seqno : Nat, start : Nat,
   tot_jrec_len : Nat, prev_jrec_len : Nat, in_phase2 : BOOLEAN, write_complete : BOOLEAN]

\* What a reader finds at the start of a transaction; len is jnldata_len in the pool
Kind   == {"bad", "update", "null", "inctn"}
Record == [kind : Kind, tn : Nat, jnl_seqno : Nat, len : Nat, by : Proc \cup {NoProc}]

Log ==
  [free : Nat, rsrv : Nat, last : Nat, index1 : Index, index2 : Index,
   slot : [Index -> Slot], file : Seq(Record)]

Garbage == [kind |-> "bad", tn |-> 0, jnl_seqno |-> 0, len |-> 1, by |-> NoProc]

EmptySlot ==
  [process_id |-> NoProc, curr_tn |-> 0, jnl_seqno |-> 0, start |-> 0, tot_jrec_len |-> 0,
   prev_jrec_len |-> 0, in_phase2 |-> FALSE, write_complete |-> FALSE]

EmptyLog ==
  [free |-> 0, rsrv |-> 0, last |-> 0, index1 |-> 0, index2 |-> 0,
   slot |-> [i \in Index |-> EmptySlot], file |-> <<>>]

-----------------------------------------------------------------------------
\* Wrong variant: the index does not wrap around.
INCR_nowrap(i) == i + 1

INCR(i) == IF i + 1 = N THEN 0 ELSE i + 1
DECR(i) == IF i = 0 THEN N - 1 ELSE i - 1

Used(L)     == (L.index2 - L.index1 + N) % N
At(L, k)    == (L.index1 + k) % N          \* index of the (k+1)st oldest reservation
Full(L)     == INCR(L.index2) = L.index1
Last(L)     == L.slot[DECR(L.index2)]
EndOf(s)    == s.start + s.tot_jrec_len

\* memcpy of a record to address a of the log
Store(f, a, rec) ==
  [i \in 1 .. (IF a < Len(f) THEN Len(f) ELSE a + 1) |->
     IF i = a + 1 THEN rec ELSE IF i <= Len(f) THEN f[i] ELSE Garbage]

Fetch(f, a) == IF a < Len(f) THEN f[a + 1] ELSE Garbage

-----------------------------------------------------------------------------
(* Reservation.  The stores up to rsrv are one step, phase2_commit_index2    *)
(* another: a kill may come between the two.                                 *)

Reserve(L, s) ==
  [L EXCEPT !.slot[L.index2] = [s EXCEPT !.start = L.rsrv, !.prev_jrec_len = L.last],
            !.last = s.tot_jrec_len,
            !.rsrv = L.rsrv + s.tot_jrec_len]

Publish(L) == [L EXCEPT !.index2 = INCR(L.index2)]

\* Undo of a reservation: forget the newest slot
Withdraw(L) ==
  [L EXCEPT !.rsrv = Last(L).start, !.last = Last(L).prev_jrec_len, !.index2 = DECR(L.index2)]

\* Wrong variant: a reservation that was not published is not undone.
Realign_noop(L) == L

\* Undo of a reservation that was not published: go by the newest slot
Realign(L) == [L EXCEPT !.rsrv = EndOf(Last(L)), !.last = Last(L).tot_jrec_len]

-----------------------------------------------------------------------------
(* jnl_phase2_salvage, repl_phase2_salvage                                   *)

\* The records of the dead process become one NULL record; a record that
\* jnl_write had already put in the buffer before it reserved is kept.
SalvageRecord(s) ==
  [kind |-> "null", tn |-> s.curr_tn, jnl_seqno |-> s.jnl_seqno, len |-> s.tot_jrec_len,
   by |-> s.process_id]

\* The log's bytes after the salvage of the slots S, whose addresses differ
Nullified(f, S) ==
  LET end == Max({Len(f)} \cup {s.start + 1 : s \in S}) IN
  [i \in 1 .. end |->
     IF \E s \in S : s.start + 1 = i THEN SalvageRecord(CHOOSE s \in S : s.start + 1 = i)
     ELSE IF i <= Len(f) THEN f[i] ELSE Garbage]

Salvage(L, dead) ==
  [L EXCEPT !.slot = [i \in Index |-> IF i \in dead
                                       THEN [L.slot[i] EXCEPT !.write_complete = TRUE]
                                       ELSE L.slot[i]],
            !.file = Nullified(L.file, {s \in {L.slot[i] : i \in dead} : s.in_phase2})]

\* Wrong variant: nobody is asked whether the process is alive.
DeadRun_blind(L, p, alive) ==
  IF L.index1 # L.index2 /\ ~L.slot[L.index1].write_complete THEN {L.index1} ELSE {}

\* The slots the salvage loop visits: from index1 up, stopping at a complete entry,
\* the caller's own, one of a live process, index2, or the end of the array (the loop
\* does not wrap).
DeadRun(L, p, alive) ==
  LET top == IF L.index1 <= L.index2 THEN L.index2 ELSE N IN
  {i \in L.index1 .. top - 1 :
     \A j \in L.index1 .. i :
        /\ ~L.slot[j].write_complete
        /\ L.slot[j].process_id # p
        /\ L.slot[j].process_id \notin alive}

SalvageDead(L, p, alive) == Salvage(L, DeadRun(L, p, alive))

\* PHASE2_COMMIT_ARRAY_ITERATE_UNTIL_WRITE_COMPLETE_FALSE, with its wrap around
CompleteRun(L) ==
  {k \in 0 .. Used(L) - 1 : \A j \in 0 .. k : L.slot[At(L, j)].write_complete}

HandOver(L) ==
  LET n == Cardinality(CompleteRun(L)) IN
  IF n = 0 THEN L
  ELSE [L EXCEPT !.free = IF n = Used(L) THEN EndOf(Last(L)) ELSE L.slot[At(L, n)].start,
                 !.index1 = At(L, n)]

\* Wrong variant: the dead are salvaged without crit.
Cleanup_nocrit(L, p, crit, alive) == HandOver(SalvageDead(L, p, alive))

\* jnl_phase2_cleanup and repl_phase2_cleanup, called by p; crit says if p holds crit
Cleanup(L, p, crit, alive) ==
  HandOver(IF crit THEN SalvageDead(L, p, alive) ELSE L)

\* JNL_PHASE2_WRITE_COMPLETE and jpl_phase2_write_complete after the header is stored:
\* the cleanup is done sparingly, for two of the indices only
WriteComplete(L, i, p, crit, alive) ==
  LET done == [L EXCEPT !.slot[i].write_complete = TRUE] IN
  IF i \in {0, N \div 2} THEN Cleanup(done, p, crit, alive) ELSE done

-----------------------------------------------------------------------------
\* The published reservations cover, without gap or overlap, what lies between the
\* addresses free and rsrv.
Tiles(L) ==
  /\ \A k \in 0 .. Used(L) - 1 :
        L.slot[At(L, k)].start =
          IF k = 0 THEN L.free ELSE EndOf(L.slot[At(L, k - 1)])
  /\ L.rsrv = IF Used(L) = 0 THEN L.free ELSE EndOf(Last(L))
=============================================================================
