------------------------------ MODULE HierLock ------------------------------
(***************************************************************************)
(* What the lock manager promises its callers, without lock space, queues,  *)
(* sequence numbers or private blocks: names in a hierarchy, at most one    *)
(* live process on each branch, and a lock that stays with its holder until *)
(* the holder itself gives it up, dies, or an operator clears it.           *)
(***************************************************************************)
CONSTANTS
  Proc, NoProc, Name, Path,  \* as in MlkShr
  MayClear                   \* whether an operator may clear locks

VARIABLES
  holder,   \* holder[n]: the process that holds n, or NoProc
  busy,     \* the processes executing a lock command or exiting
  live      \* the processes that exist

hvars == <<holder, busy, live>>

HTypeOK ==
  /\ holder \in [Name -> Proc \cup {NoProc}]
  /\ busy \subseteq Proc
  /\ live \subseteq Proc

HInit ==
  /\ holder = [n \in Name |-> NoProc]
  /\ busy = {}
  /\ live = Proc

SameBranch(m, n) == m \in Path[n] \/ n \in Path[m]

(* The holders left when the locks of D, all of dead processes, are reaped.  *)
Reaped(D) == [n \in Name |-> IF n \in D THEN NoProc ELSE holder[n]]
DeadHeld == {n \in Name : holder[n] \notin live \cup {NoProc}}

Call(p) ==
  /\ p \in live \ busy
  /\ busy' = busy \cup {p}
  /\ UNCHANGED <<holder, live>>

(* A step inside a call that changes no holder of a live process, and the    *)
(* return from a call.                                                      *)
Work(p) ==
  /\ p \in busy
  /\ \E D \in SUBSET DeadHeld : holder' = Reaped(D)
  /\ busy' \in {busy, busy \ {p}}
  /\ UNCHANGED live

(* p gets n: nobody else may be left holding a name of the branch. *)
Acquire(p, n) ==
  /\ p \in busy
  /\ \E D \in SUBSET DeadHeld :
       /\ \A m \in Name : SameBranch(m, n) => Reaped(D)[m] \in {NoProc, p}
       /\ holder' = [Reaped(D) EXCEPT ![n] = p]
  /\ busy' \in {busy, busy \ {p}}
  /\ UNCHANGED live

GiveUp(p, n) ==
  /\ p \in busy /\ holder[n] = p
  /\ holder' = [holder EXCEPT ![n] = NoProc]
  /\ UNCHANGED <<busy, live>>

Die(p) ==
  /\ p \in live
  /\ live' = live \ {p}
  /\ busy' = busy \ {p}
  /\ UNCHANGED holder

OperatorClear(n) ==
  /\ MayClear /\ holder[n] # NoProc
  /\ holder' = [holder EXCEPT ![n] = NoProc]
  /\ UNCHANGED <<busy, live>>

HNext ==
  \/ \E p \in Proc : Call(p) \/ Work(p) \/ Die(p)
  \/ \E p \in Proc, n \in Name : Acquire(p, n) \/ GiveUp(p, n)
  \/ \E n \in Name : OperatorClear(n)

HSpec == HInit /\ [][HNext]_hvars
=============================================================================
