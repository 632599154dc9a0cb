------------------------------- MODULE MlkShr -------------------------------
(***************************************************************************)
(* The shared lock space of one region: the tree of mlk_shrblk nodes, the   *)
(* queues of mlk_prcblk entries on them and the lock_sequence counter of    *)
(* the file header, with the routines that read and change them while LOCK  *)
(* crit is held (src/sr_port/mlk_*.c).  Every operator here maps a lock     *)
(* space to a lock space; MLock.tla says which process calls it and when.   *)
(*                                                                         *)
(* A node is identified by its index in the shrblk array (MLK_SHRBLK_IDX,   *)
(* which starts at 1; 0 is the null pointer), so that a private pointer may *)
(* outlive the node it was made for.  A lock name stands for its whole      *)
(* subscript list; Path gives the prefixes of a name, itself included.      *)
(* Parent, child and sibling links follow from the names: the order of      *)
(* siblings is abstracted, and where the code's result depends on it the    *)
(* model allows every order.                                               *)
(***************************************************************************)
EXTENDS Integers, Sequences, FiniteSets, Functions

CONSTANTS
  Proc,         \* process ids
  NoProc,       \* process id 0: no owner, nobody to yield to
  MLK_FAIRNESS_DISABLED, \* the value of mlk_yield_pid that switches fairness off
  Name,         \* lock names (nrefs)
  NoName,       \* the "name" of a free shrblk
  Path,         \* Path[n]: the prefixes of n, n included
  max_blkcnt,   \* number of shrblks in the lock space
  max_prccnt,   \* number of prcblks in the lock space
  SeqMod        \* lock_sequence is a uint4: SeqMod stands for 2^32

ASSUME NullAssumption ==
  /\ NoProc \notin Proc /\ MLK_FAIRNESS_DISABLED \notin Proc \cup {NoProc}
  /\ NoName \notin Name

(* Names form a forest: prefixes are closed, linearly ordered and antisymmetric. *)
ASSUME PathAssumption ==
  /\ Path \in [Name -> SUBSET Name]
  /\ \A n \in Name : n \in Path[n] /\ IsFiniteSet(Path[n])
  /\ \A n \in Name : \A m \in Path[n] : Path[m] \subseteq Path[n]
  /\ \A n \in Name : \A m \in Path[n] : n \in Path[m] => m = n
  /\ \A n \in Name : \A k, m \in Path[n] : k \in Path[m] \/ m \in Path[k]

ASSUME SpaceAssumption ==
  /\ max_blkcnt \in Nat \ {0} /\ max_prccnt \in Nat \ {0} /\ SeqMod \in Nat \ {0}

Blk == 1 .. max_blkcnt
NoBlk == 0
Seqno == 0 .. SeqMod - 1
NameOrNone == Name \cup {NoName}
ProcOrNone == Proc \cup {NoProc}
YieldPid == Proc \cup {NoProc, MLK_FAIRNESS_DISABLED}
Prcblk == [process_id : Proc, ref_cnt : Int]

Space ==
  [name : [Blk -> NameOrNone], owner : [Blk -> ProcOrNone], sequence : [Blk -> Seqno],
   pending : [Blk -> Seq(Prcblk)], prccnt : Int, lock_sequence : Seqno]

(* mlk_shr_init: an empty tree, all shrblks and prcblks on the free lists. *)
mlk_shr_init ==
  [name |-> [b \in Blk |-> NoName], owner |-> [b \in Blk |-> NoProc],
   sequence |-> [b \in Blk |-> 0], pending |-> [b \in Blk |-> <<>>],
   prccnt |-> max_prccnt, lock_sequence |-> 0]

-----------------------------------------------------------------------------
(* The tree *)

subscript_cnt(n) == Cardinality(Path[n])
Related(m, n) == m \in Path[n] \/ n \in Path[m]

Free(s) == {b \in Blk : s.name[b] = NoName}
InUse(s) == {b \in Blk : s.name[b] \in Name}
OnPath(s, n) == {b \in InUse(s) : s.name[b] \in Path[n]}
Below(s, d) == {b \in InUse(s) \ {d} : s.name[d] \in Path[s.name[b]]}
Lowest(s, S) == CHOOSE b \in S : S \subseteq OnPath(s, s.name[b])
NodeFor(s, n) == CHOOSE b \in Blk : s.name[b] = n

(* Give the nodes of S the next values of lock_sequence, one each. *)
NewSequence(s, S) ==
  [s EXCEPT
     !.sequence = [b \in Blk |->
        IF b \in S THEN (s.lock_sequence + Cardinality({c \in S : c < b})) % SeqMod
                   ELSE s.sequence[b]],
     !.lock_sequence = (s.lock_sequence + Cardinality(S)) % SeqMod]

ClearOwner(s, S) ==
  [s EXCEPT !.owner = [b \in Blk |-> IF b \in S THEN NoProc ELSE s.owner[b]]]

(* Return the nodes of S to the free list: memset of the shrblk. *)
FreeNodes(s, S) ==
  [s EXCEPT !.name     = [b \in Blk |-> IF b \in S THEN NoName ELSE s.name[b]],
            !.owner    = [b \in Blk |-> IF b \in S THEN NoProc ELSE s.owner[b]],
            !.sequence = [b \in Blk |-> IF b \in S THEN 0 ELSE s.sequence[b]],
            !.pending  = [b \in Blk |-> IF b \in S THEN <<>> ELSE s.pending[b]]]

(* mlk_shrblk_create for every name of n's path that has no node yet.  Which *)
(* shrblk of the free list a name gets is left open (but fixed).             *)
Missing(s, n) == Path[n] \ {s.name[b] : b \in InUse(s)}

mlk_shrblk_create(s, n) ==
  LET missing == Missing(s, n)
      place   == CHOOSE f \in Injection(missing, Free(s)) : TRUE
      fresh   == {b \in Free(s) : \E m \in missing : place[m] = b}
  IN [s EXCEPT !.name     = [b \in Blk |-> IF b \in fresh THEN CHOOSE m \in missing : place[m] = b
                                                         ELSE s.name[b]],
               !.owner    = [b \in Blk |-> IF b \in fresh THEN NoProc ELSE s.owner[b]],
               !.sequence = [b \in Blk |-> IF b \in fresh THEN 0 ELSE s.sequence[b]],
               !.pending  = [b \in Blk |-> IF b \in fresh THEN <<>> ELSE s.pending[b]]]

-----------------------------------------------------------------------------
(* The queues of waiting processes *)

Queued(s, d, p) == {i \in DOMAIN s.pending[d] : s.pending[d][i].process_id = p}

(* mlk_prcblk_add: TRUE when the process is queued on d afterwards. *)
prcblk_added(s, d, p) == Queued(s, d, p) # {} \/ s.prccnt >= 1

(* The queue of d becomes q, with k prcblks left on the free list. *)
Requeue(s, d, q, k) == [s EXCEPT !.pending[d] = q, !.prccnt = k]

mlk_prcblk_add(s, d, p) ==
  LET q == s.pending[d]
      i == CHOOSE i \in Queued(s, d, p) : TRUE
  IN IF Queued(s, d, p) # {} THEN Requeue(s, d, [q EXCEPT ![i].ref_cnt = @ + 1], s.prccnt)
     ELSE IF s.prccnt < 1 THEN s
     ELSE Requeue(s, d, Append(q, [process_id |-> p, ref_cnt |-> 1]), s.prccnt - 1)

RemoveAt(q, i) == SubSeq(q, 1, i - 1) \o SubSeq(q, i + 1, Len(q))

(* Wrong variant: the prcblk is not returned to the free list. *)
mlk_prcblk_delete_lost(s, d, p) ==
  LET q == s.pending[d]
      i == CHOOSE i \in Queued(s, d, p) : TRUE
  IN IF Queued(s, d, p) = {} THEN s
     ELSE IF q[i].ref_cnt > 1 THEN Requeue(s, d, [q EXCEPT ![i].ref_cnt = @ - 1], s.prccnt)
     ELSE Requeue(s, d, RemoveAt(q, i), s.prccnt)

mlk_prcblk_delete(s, d, p) ==
  LET q == s.pending[d]
      i == CHOOSE i \in Queued(s, d, p) : TRUE
  IN IF Queued(s, d, p) = {} THEN s
     ELSE IF q[i].ref_cnt > 1 THEN Requeue(s, d, [q EXCEPT ![i].ref_cnt = @ - 1], s.prccnt)
     ELSE Requeue(s, d, RemoveAt(q, i), s.prccnt + 1)

(* mlk_wake_pending on each node of W, all of which have waiters: the node   *)
(* gets a new sequence number, entries of vanished processes at the head of  *)
(* the queue are dropped and the first live waiter is sent a wakeup (which   *)
(* only shortens its sleep and is not state).                               *)
Gone(q, live) == {i \in DOMAIN q : \A j \in 1 .. i : q[j].process_id \notin live}

mlk_wake_pending(s, W, live) ==
  LET gone(b) == Cardinality(Gone(s.pending[b], live))
      freed   == {bi \in W \X (1 .. max_prccnt) : bi[2] <= gone(bi[1])}
  IN [NewSequence(s, W) EXCEPT
        !.pending = [b \in Blk |->
           IF b \in W THEN SubSeq(s.pending[b], gone(b) + 1, Len(s.pending[b]))
                      ELSE s.pending[b]],
        !.prccnt = s.prccnt + Cardinality(freed)]

-----------------------------------------------------------------------------
(* Unlocking *)

Vacant(s, b) == s.owner[b] = NoProc /\ s.pending[b] = <<>>
Waiting(s, b) == s.owner[b] = NoProc /\ s.pending[b] # <<>>

(* Wrong variant: a node is freed without looking at its children. *)
Deletable_childless(s, S) == {b \in S : Vacant(s, b)}

(* mlk_shrblk_delete_if_empty over the nodes of S, children before parents.  *)
Deletable(s, S) ==
  {b \in S : Below(s, b) \subseteq S /\ \A c \in {b} \cup Below(s, b) : Vacant(s, c)}

(* The nodes mlk_tree_wake_children(d) visits: it does not descend below an  *)
(* owned node.  It wakes a node that has waiters unless it woke one below.   *)
Visited(s, d) ==
  {b \in Below(s, d) : \A c \in Below(s, d) : b \in Below(s, c) => s.owner[c] = NoProc}

mlk_tree_wake_children(s, d) ==
  {b \in Visited(s, d) :
     Waiting(s, b) /\ \A c \in Visited(s, d) \cap Below(s, b) : ~Waiting(s, c)}

(* The part of mlk_unlock behind its ownership test: give up node d, wake    *)
(* the topmost waiters below it or else the nearest waiter at or above it,   *)
(* and free the nodes this empties.                                         *)
Release(s, d, live) ==
  LET s1      == NewSequence(ClearOwner(s, {d}), {d})
      chain   == OnPath(s1, s.name[d])
      below   == mlk_tree_wake_children(s1, d)
      above   == {b \in chain : Waiting(s1, b)}
      nearest == {b \in above : above \subseteq OnPath(s1, s1.name[b])}
      woken   == IF below # {} THEN below ELSE nearest
  IN FreeNodes(mlk_wake_pending(s1, woken, live), Deletable(s1, chain \cup Visited(s1, d)))

(* mlk_unlock(p): only the owner whose private sequence number is the node's. *)
OwnsNode(s, e, p) ==
  e.nodptr # NoBlk /\ s.owner[e.nodptr] = p /\ s.sequence[e.nodptr] = e.sequence

mlk_unlock(s, e, p, live) == IF OwnsNode(s, e, p) THEN Release(s, e.nodptr, live) ELSE s

-----------------------------------------------------------------------------
(* Locking *)

HeldAgainst(s, b, p, live) == s.owner[b] \in live \ {p}

(* Wrong variants: a dead owner is left in place; every owner counts as dead. *)
Abandoned_never(s, b, p, live) == FALSE
Abandoned_any(s, b, p, live) == s.owner[b] \in Proc \ {p}

Abandoned(s, b, p, live) == s.owner[b] \in Proc \ (live \cup {p})

(* mlk_yield_pid when the walk of mlk_shrblk_find has passed the nodes of T,  *)
(* starting from y.  A live owner resets it, to 0 even if it was             *)
(* MLK_FAIRNESS_DISABLED; an unowned node with a waiter sets it to the first  *)
(* waiter (or finds it set to that one already).                            *)
FairAt(s, T, b, p, y, live) ==
  y # MLK_FAIRNESS_DISABLED \/ \E a \in T \ {b} : HeldAgainst(s, a, p, live) /\ b \in Below(s, a)

mlk_yield_pid(s, T, p, y, live) ==
  LET marks == {b \in T : \/ HeldAgainst(s, b, p, live)
                          \/ /\ Waiting(s, b) /\ Head(s.pending[b]).process_id # p
                             /\ FairAt(s, T, b, p, y, live)}
      last  == Lowest(s, marks)
  IN IF marks = {} THEN y
     ELSE IF HeldAgainst(s, last, p, live) THEN NoProc ELSE Head(s.pending[last]).process_id

(* The walk yields at node b to a first waiter it has not just yielded to.   *)
YieldsTo(s, T, b, p, y, live) ==
  LET above == {a \in T : b \in Below(s, a)}
      now   == mlk_yield_pid(s, above, p, y, live)
  IN /\ Waiting(s, b)
     /\ now # MLK_FAIRNESS_DISABLED
     /\ Head(s.pending[b]).process_id \notin {now, p}

(* The walk of mlk_shrblk_find down n's path: an owner that is alive blocks, *)
(* one that is dead is cleared, an unowned node with a waiter the process    *)
(* has not yet yielded to blocks once.  The lowest such node is recorded in  *)
(* the private block, with the sequence number from before the wakeup.       *)
Walk(s, p, n, y, live) ==
  LET path == OnPath(s, n)
      yielding == {b \in path : YieldsTo(s, path, b, p, y, live)}
      stop     == yielding \cup {b \in path : HeldAgainst(s, b, p, live)}
      cleared  == ClearOwner(s, {b \in path : Abandoned(s, b, p, live)})
      full     == Cardinality(Missing(s, n)) > Cardinality(Free(s))
      woken    == mlk_wake_pending(cleared, yielding, live)
  IN [space |-> IF full THEN woken ELSE mlk_shrblk_create(woken, n),
      full |-> full,
      blocked |-> IF stop = {} THEN NoBlk ELSE Lowest(s, stop),
      yield |-> mlk_yield_pid(s, path, p, y, live)]

(* Wrong variant: locks below are ignored. *)
mlk_find_blocking_child_lock_skip(s, p, d, live) == {[space |-> s, blocked |-> NoBlk]}

(* mlk_find_blocking_child_lock below d.  A live foreign owner blocks; dead  *)
(* ones met before it are cleared.                                          *)
mlk_find_blocking_child_lock(s, p, d, live) ==
  LET held == {b \in Below(s, d) : HeldAgainst(s, b, p, live)}
      dead == {b \in Below(s, d) : Abandoned(s, b, p, live)}
  IN IF held = {} THEN {[space |-> ClearOwner(s, dead), blocked |-> NoBlk]}
     ELSE {[space |-> ClearOwner(s, C), blocked |-> b] : b \in held, C \in SUBSET dead}

(* mlk_shrblk_find: the possible results.  d is the node of n, or NoBlk if   *)
(* there was no room to create it.                                          *)
mlk_shrblk_find(s, p, n, y, live) ==
  LET w == Walk(s, p, n, y, live)
      d == NodeFor(w.space, n)
  IN IF w.full
     THEN {[space |-> w.space, d |-> NoBlk, isblocked |-> TRUE, blocked |-> w.blocked,
            yield |-> w.yield]}
     ELSE IF w.blocked # NoBlk \/ Below(w.space, d) = {}
     THEN {[space |-> w.space, d |-> d, isblocked |-> w.blocked # NoBlk,
            blocked |-> w.blocked, yield |-> w.yield]}
     ELSE {[space |-> r.space, d |-> d, isblocked |-> r.blocked # NoBlk,
            blocked |-> r.blocked, yield |-> NoProc] :
              r \in mlk_find_blocking_child_lock(w.space, p, d, live)}

(* mlk_lock(p, 0, new) from the point where no collection is needed: the set *)
(* of possible results, with the private block e as it is left.  s0 is the   *)
(* space before the call: blk_sequence is read before the wakeup.            *)
TakeSequence(s) == [s EXCEPT !.lock_sequence = (@ + 1) % SeqMod]

(* Wrong variant: the node keeps its sequence number. *)
Grant_stale(s, d, p) == [s EXCEPT !.owner[d] = p]

Grant(s, d, p) == NewSequence([s EXCEPT !.owner[d] = p], {d})

mlk_lock(s0, e, p, new, y, live) ==
  {LET s  == f.space
       d  == f.d
       e1 == IF f.blocked = NoBlk THEN e
             ELSE [e EXCEPT !.blocked = f.blocked, !.blk_sequence = s0.sequence[f.blocked]]
       s1 == IF new THEN mlk_prcblk_add(s, d, p) ELSE s
       s2 == Grant(IF new THEN s ELSE mlk_prcblk_delete(s, d, p), d, p)
   IN IF d = NoBlk THEN [space |-> s, e |-> e1, got |-> FALSE, yield |-> f.yield]
      ELSE IF s.owner[d] = p
      THEN [space |-> s, e |-> [e1 EXCEPT !.nodptr = d], got |-> TRUE, yield |-> f.yield]
      ELSE IF f.isblocked
      THEN [space |-> TakeSequence(s1),
            e |-> IF new /\ ~prcblk_added(s, d, p) THEN e1
                  ELSE [e1 EXCEPT !.nodptr = d, !.sequence = s.sequence[d]],
            got |-> FALSE, yield |-> f.yield]
      ELSE [space |-> s2,
            e |-> [e1 EXCEPT !.nodptr = d, !.sequence = s2.sequence[d]],
            got |-> TRUE, yield |-> f.yield]
   : f \in mlk_shrblk_find(s0, p, e.name, y, live)}

(* Wrong variant: the process stays in the queue. *)
mlk_unpend_stay(s, e, p) == s

(* mlk_unpend: leave the queue of the node we wanted. *)
mlk_unpend(s, e, p) == mlk_prcblk_delete(s, e.nodptr, p)

(* mlk_check_own: is the lock that blocked us gone?  Clears a dead owner.    *)
BlockerAlive(s, e, live) == s.owner[e.blocked] \in live

check_own_result(s, e, live) ==
  /\ e.blocked # NoBlk
  /\ \/ s.owner[e.blocked] = NoProc
     \/ s.sequence[e.blocked] # e.blk_sequence
     \/ ~BlockerAlive(s, e, live)

(* Wrong variant: the owner is cleared without asking whether it is alive. *)
mlk_check_own_steal(s, e, live) ==
  IF e.blocked # NoBlk /\ s.owner[e.blocked] # NoProc /\ s.sequence[e.blocked] = e.blk_sequence
  THEN TakeSequence(ClearOwner(s, {e.blocked}))
  ELSE s

mlk_check_own(s, e, live) ==
  IF /\ e.blocked # NoBlk
     /\ s.owner[e.blocked] # NoProc
     /\ s.sequence[e.blocked] = e.blk_sequence
     /\ ~BlockerAlive(s, e, live)
  THEN TakeSequence(ClearOwner(s, {e.blocked}))
  ELSE s

-----------------------------------------------------------------------------
(* Garbage collection *)

(* fill_pid_table: the owners, and all queued processes but the last one of  *)
(* each queue (its loops stop at p->next).                                  *)
fill_pid_table(s) ==
  ({s.owner[b] : b \in InUse(s)} \cap Proc)
    \cup UNION {{s.pending[b][i].process_id : i \in 1 .. Len(s.pending[b]) - 1} : b \in InUse(s)}

(* clean_pids: drop the dead from the queues (again not the last entry),     *)
(* clear dead owners, renumber every unowned node and free the empty ones.   *)
clean_pids(s, dead) ==
  LET drop(b)  == {i \in 1 .. Len(s.pending[b]) - 1 : s.pending[b][i].process_id \in dead}
      keep(b)  == DOMAIN s.pending[b] \ drop(b)
      kept(b)  == [k \in 1 .. Cardinality(keep(b)) |->
                     s.pending[b][CHOOSE i \in keep(b) : Cardinality({j \in keep(b) : j <= i}) = k]]
      freed    == UNION {{b} \X drop(b) : b \in InUse(s)}
      cleared  == ClearOwner(s, {b \in InUse(s) : s.owner[b] \in dead})
      queues   == [cleared EXCEPT !.pending = [b \in Blk |-> kept(b)],
                                  !.prccnt = @ + Cardinality(freed)]
      renumbered == NewSequence(queues, {b \in InUse(s) : queues.owner[b] = NoProc})
  IN FreeNodes(renumbered, Deletable(renumbered, InUse(s)))

(* lke_clearlock for node d, with the wakeup its caller adds. *)
lke_clearlock(s, d, live) ==
  LET s1 == NewSequence(ClearOwner(s, {d}), {d})
  IN IF s1.pending[d] # <<>> THEN mlk_wake_pending(s1, {d}, live) ELSE s1

(* lke_cleartree for LKE CLEAR -EXACT -LOCK= of node d: the possible results. *)
(* On its way to d it frees the empty nodes of the subtrees it has passed;    *)
(* which these are depends on the order of the siblings.                     *)
Passed(s, d) ==
  {S \in SUBSET (InUse(s) \ (OnPath(s, s.name[d]) \cup Below(s, d))) :
     \A b \in S : Below(s, b) \subseteq S}

lke_cleartree(s, d, live) ==
  {lke_clearlock(FreeNodes(s, Deletable(s, S)), d, live) : S \in Passed(s, d)}

-----------------------------------------------------------------------------
(* Owned nodes on one branch of the tree have the same owner. *)
OneOwnerPerBranch(s) ==
  \A a, b \in InUse(s) :
    /\ s.owner[a] # NoProc /\ s.owner[b] # NoProc
    /\ Related(s.name[a], s.name[b])
    => s.owner[a] = s.owner[b]
=============================================================================
