----------------------------- MODULE MLockHeld ------------------------------
(***************************************************************************)
(* What the private list of a process says about the locks it has in        *)
(* MLock.tla agrees with the lock space, and what a command has done to the  *)
(* list when it completes or gives up; and who is in the queues of nodes.    *)
(***************************************************************************)
EXTENDS MLockProofs

Distinct(q) == \A i, j \in DOMAIN q : q[i].name = q[j].name => i = j

(* mlk_unlock with private block e would release a lock of e's own name. *)
Holds(s, e, p) == OwnsNode(s, e, p) /\ s.name[e.nodptr] = e.name

(* The lock at pos is owned and not yet marked as granted. *)
Keeping(l, m) == l = "relinquish" \/ (l = "lock" /\ m.new /\ m.already /\ m.pos = 1)

Trying == {"lock", "gcwait", "gcfill", "gccheck", "gcclean"}

(* The locks before pos have been obtained in this pass over the list. *)
PassAt(l, q, m) ==
  /\ l \in Trying /\ m.new => \A i \in 1 .. m.pos - 1 : q[i].granted
  /\ l = "bckout" => \A i \in m.pos - m.left .. m.pos - 1 : q[i].granted
  /\ l \in InLock \ Trying => ~m.new

(* Every node p owns has a private block that will release it ... *)
LeakAt(p, s, l, q, m) ==
  \A b \in Blk : s.owner[b] = p =>
    \E i \in DOMAIN q : /\ q[i].nodptr = b /\ Holds(s, q[i], p)
                        /\ q[i].granted \/ (i = m.pos /\ Keeping(l, m))

(* ... and every private block that is granted a node that p owns. *)
HeldAt(p, s, l, q, m) ==
  /\ \A i \in DOMAIN q : q[i].granted => Holds(s, q[i], p)
  /\ Keeping(l, m) => Holds(s, q[m.pos], p)
  /\ l \in InLock /\ ~m.new => ~q[m.pos].granted

(* An unprotected release may hit the lock of another process only after LKE *)
(* CLEAR has been used.                                                     *)
Undisturbed(c) == c = 0 \/ Faults \cap {"exit", "end"} = {}

FitAt(p, s, l, q, m, c) ==
  /\ Distinct(q) /\ PassAt(l, q, m)
  /\ l = "nocrit" => "owner" \notin m.stored
  /\ l \notin Exiting \cup Ended => /\ Undisturbed(c) => LeakAt(p, s, l, q, m)
                                    /\ c = 0 => HeldAt(p, s, l, q, m)

HeldInv ==
  /\ TreeInv
  /\ \A p \in Proc : FitAt(p, shr, pc[p], pvt[p], loc[p], nclear)

-----------------------------------------------------------------------------
(* One process *)

SameKey(f, e) == f.name = e.name /\ f.nodptr = e.nodptr /\ f.sequence = e.sequence

(* What was granted stays granted, and nothing else is. *)
Carries(u, q, C) ==
  /\ \A i \in DOMAIN q \ C : q[i].granted => \E j \in DOMAIN u : u[j].granted /\ SameKey(u[j], q[i])
  /\ \A j \in DOMAIN u : u[j].granted => \E i \in DOMAIN q \ C : q[i].granted /\ SameKey(u[j], q[i])

LEMMA HoldsSpared ==
  ASSUME NEW p, NEW s, NEW t, NEW L, p \in L, NEW D, Spares(t, s, L, D), NEW e, NEW f, SameKey(f, e),
         e.nodptr \in Blk \ D, Holds(s, e, p)
  PROVE  Holds(t, f, p)
BY DEF Spares, SameKey, Holds, OwnsNode

LEMMA CarryLeak ==
  ASSUME NEW p \in Proc, NEW s, NEW t, Spares(t, s, {p}, {}), Weaker(t, s),
         NEW l, NEW k, NEW m, NEW n, ~Keeping(l, m), NEW q, NEW u, Carries(u, q, {}),
         LeakAt(p, s, l, q, m)
  PROVE  LeakAt(p, t, k, u, n)
<1> SUFFICES ASSUME NEW b \in Blk, t.owner[b] = p
             PROVE  \E j \in DOMAIN u : /\ u[j].nodptr = b /\ Holds(t, u[j], p)
                                        /\ u[j].granted \/ (j = n.pos /\ Keeping(k, n))
  BY DEF LeakAt
<1>1. s.owner[b] = p  BY NullAssumption DEF Weaker
<1>2. PICK i \in DOMAIN q : q[i].nodptr = b /\ Holds(s, q[i], p) /\ q[i].granted
  BY <1>1 DEF LeakAt
<1>3. PICK j \in DOMAIN u : u[j].granted /\ SameKey(u[j], q[i])  BY <1>2 DEF Carries
<1>4. Holds(t, u[j], p)  BY <1>2, <1>3, HoldsSpared
<1> QED  BY <1>2, <1>3, <1>4 DEF SameKey

LEMMA CarryHeld ==
  ASSUME NEW p \in Proc, NEW s, NEW t, Spares(t, s, {p}, {}), s \in Space,
         NEW l, NEW k, NEW m, NEW n, ~Keeping(k, n),
         NEW q \in Seq(Pvtblk), NEW u, Carries(u, q, {}),
         k \in InLock /\ ~n.new => ~u[n.pos].granted, HeldAt(p, s, l, q, m)
  PROVE  HeldAt(p, t, k, u, n)
<1>1. ASSUME NEW j \in DOMAIN u, u[j].granted PROVE Holds(t, u[j], p)
  <2>1. PICK i \in DOMAIN q : q[i].granted /\ SameKey(u[j], q[i])  BY <1>1 DEF Carries
  <2>2. Holds(s, q[i], p)  BY <2>1 DEF HeldAt
  <2>3. q[i] \in Pvtblk  OBVIOUS
  <2>4. q[i].nodptr \in Blk  BY <2>2, <2>3 DEF Holds, OwnsNode, Pvtblk, Blk, NoBlk
  <2> QED  BY <2>1, <2>2, <2>4, HoldsSpared
<1> QED  BY <1>1 DEF HeldAt

LEMMA UnlockClears ==
  ASSUME NEW p \in Proc, NEW s, Sound(s), NEW live, NEW e, e.nodptr \in Blk \cup {NoBlk},
         OwnsNode(s, e, p), NEW t, t = mlk_unlock(s, e, p, live)
  PROVE  t.owner[e.nodptr] = NoProc
BY UnlockFrame

(* mlk_unlock with the private block at c, which goes or loses its grant. *)
LEMMA ReleaseLeak ==
  ASSUME NEW p \in Proc, NEW s, Sound(s), NEW live, NEW l, NEW k, NEW m, NEW n,
         NEW q, NEW u, NEW c \in DOMAIN q, q[c].nodptr \in Blk \cup {NoBlk},
         NEW t, t = mlk_unlock(s, q[c], p, live),
         \A i \in DOMAIN q \ {c} :
           q[i].granted => \E j \in DOMAIN u : u[j].granted /\ SameKey(u[j], q[i]),
         Keeping(l, m) => m.pos = c, LeakAt(p, s, l, q, m)
  PROVE  LeakAt(p, t, k, u, n)
<1> SUFFICES ASSUME NEW b \in Blk, t.owner[b] = p
             PROVE  \E j \in DOMAIN u : /\ u[j].nodptr = b /\ Holds(t, u[j], p)
                                        /\ u[j].granted \/ (j = n.pos /\ Keeping(k, n))
  BY DEF LeakAt
<1>1. /\ Weaker(t, s) /\ Spares(t, s, Proc, {q[c].nodptr})
      /\ OwnsNode(s, q[c], p) => t.owner[q[c].nodptr] = NoProc
      /\ ~OwnsNode(s, q[c], p) => t = s
  <2>1. Weaker(t, s) /\ Spares(t, s, Proc, {q[c].nodptr})  BY UnlockFrame
  <2>2. ~OwnsNode(s, q[c], p) => t = s  BY DEF mlk_unlock
  <2>3. ASSUME OwnsNode(s, q[c], p) PROVE t.owner[q[c].nodptr] = NoProc
    <3>1. PICK e : e = q[c]  OBVIOUS
    <3>2. e.nodptr \in Blk \cup {NoBlk} /\ t = mlk_unlock(s, e, p, live) /\ OwnsNode(s, e, p)
      BY <2>3, <3>1
    <3>3. t.owner[e.nodptr] = NoProc  BY <3>2, UnlockClears
    <3> QED  BY <3>1, <3>3
  <2> QED  BY <2>1, <2>2, <2>3
<1>2. s.owner[b] = p  BY <1>1, NullAssumption DEF Weaker
<1>3. PICK i \in DOMAIN q : /\ q[i].nodptr = b /\ Holds(s, q[i], p)
                            /\ q[i].granted \/ (i = m.pos /\ Keeping(l, m))
  BY <1>2 DEF LeakAt
<1>4. i # c  BY <1>1, <1>3, NullAssumption DEF Holds
<1>5. PICK j \in DOMAIN u : u[j].granted /\ SameKey(u[j], q[i])  BY <1>3, <1>4
<1>6. Holds(t, u[j], p)
  <2>1. CASE t = s  BY <1>3, <1>5, <2>1 DEF Holds, OwnsNode, SameKey
  <2>2. CASE OwnsNode(s, q[c], p)
    <3>1. b # q[c].nodptr  BY <1>1, <2>2, NullAssumption
    <3> QED  BY <1>1, <1>3, <1>5, <3>1, HoldsSpared
  <2> QED  BY <1>1, <2>1, <2>2
<1> QED  BY <1>3, <1>5, <1>6 DEF SameKey

LEMMA ReleaseHeld ==
  ASSUME NEW p \in Proc, NEW s, Sound(s), NEW live, NEW l, NEW k, NEW m, NEW n,
         NEW q \in Seq(Pvtblk), Distinct(q), NEW u, NEW c \in DOMAIN q, Holds(s, q[c], p),
         NEW t, t = mlk_unlock(s, q[c], p, live), Carries(u, q, {c}),
         ~Keeping(k, n), k \in InLock /\ ~n.new => ~u[n.pos].granted, HeldAt(p, s, l, q, m)
  PROVE  HeldAt(p, t, k, u, n)
<1>0. \A i \in DOMAIN q : q[i].nodptr \in Blk \cup {NoBlk}
  <2>1. \A i \in DOMAIN q : q[i] \in Pvtblk  OBVIOUS
  <2> QED  BY <2>1 DEF Pvtblk, Blk, NoBlk
<1>1. Spares(t, s, Proc, {q[c].nodptr})  BY <1>0, UnlockFrame
<1>2. ASSUME NEW j \in DOMAIN u, u[j].granted PROVE Holds(t, u[j], p)
  <2>1. PICK i \in DOMAIN q \ {c} : q[i].granted /\ SameKey(u[j], q[i])  BY <1>2 DEF Carries
  <2>2. Holds(s, q[i], p)  BY <2>1 DEF HeldAt
  <2>3. q[i].nodptr \in Blk  BY <1>0, <2>2 DEF Holds, OwnsNode
  <2>4. q[i].nodptr # q[c].nodptr  BY <2>2 DEF Holds, Distinct
  <2> QED  BY <1>1, <2>1, <2>2, <2>3, <2>4, HoldsSpared
<1> QED  BY <1>2 DEF HeldAt

-----------------------------------------------------------------------------
(* The other processes *)

(* The locks of the other live processes stay as they are, and none is given *)
(* to them.                                                                 *)
Frame(p) ==
  /\ Spares(shr', shr, alive \ {p}, {})
  /\ \A b \in Blk : shr'.owner[b] \in Proc \ {p} =>
       shr.owner[b] = shr'.owner[b] /\ shr.name[b] = shr'.name[b]

LEMMA HeldStep ==
  ASSUME HeldInv, TreeInv', NEW p \in Proc, Elsewhere(p), nclear' = nclear,
         Undisturbed(nclear) => Frame(p),
         FitAt(p, shr', pc'[p], pvt'[p], loc'[p], nclear)
  PROVE  HeldInv'
<1> SUFFICES ASSUME NEW r \in Proc, r # p PROVE FitAt(r, shr', pc[r], pvt[r], loc[r], nclear)
  BY DEF HeldInv, Elsewhere
<1>0. FitAt(r, shr, pc[r], pvt[r], loc[r], nclear)  BY DEF HeldInv
<1> SUFFICES ASSUME pc[r] \notin Exiting \cup Ended, Undisturbed(nclear)
             PROVE  /\ LeakAt(r, shr', pc[r], pvt[r], loc[r])
                    /\ nclear = 0 => HeldAt(r, shr', pc[r], pvt[r], loc[r])
  BY <1>0 DEF FitAt, Undisturbed
<1>1. r \in alive /\ r \in alive \ {p}  BY DEF HeldInv, TreeInv, LivesAt
<1>2. Spares(shr', shr, {r}, {}) /\ \A b \in Blk : shr'.owner[b] = r => shr.owner[b] = r
  BY <1>1 DEF Frame, Spares
<1>3. LeakAt(r, shr', pc[r], pvt[r], loc[r])
  <2>1. LeakAt(r, shr, pc[r], pvt[r], loc[r])  BY <1>0 DEF FitAt
  <2> SUFFICES ASSUME NEW b \in Blk, shr'.owner[b] = r
               PROVE  \E i \in DOMAIN pvt[r] :
                        /\ pvt[r][i].nodptr = b /\ Holds(shr', pvt[r][i], r)
                        /\ pvt[r][i].granted \/ (i = loc[r].pos /\ Keeping(pc[r], loc[r]))
    BY DEF LeakAt
  <2>2. PICK i \in DOMAIN pvt[r] :
                        /\ pvt[r][i].nodptr = b /\ Holds(shr, pvt[r][i], r)
                        /\ pvt[r][i].granted \/ (i = loc[r].pos /\ Keeping(pc[r], loc[r]))
    BY <1>2, <2>1 DEF LeakAt
  <2>3. Holds(shr', pvt[r][i], r)  BY <1>2, <2>2, HoldsSpared DEF SameKey
  <2> QED  BY <2>2, <2>3
<1>4. ASSUME nclear = 0 PROVE HeldAt(r, shr', pc[r], pvt[r], loc[r])
  <2>1. HeldAt(r, shr, pc[r], pvt[r], loc[r])  BY <1>0, <1>4 DEF FitAt
  <2>2. pvt[r] \in Seq(Pvtblk)  BY ProcFacts DEF HeldInv, TreeInv
  <2>3. ASSUME NEW i \in DOMAIN pvt[r], Holds(shr, pvt[r][i], r) PROVE Holds(shr', pvt[r][i], r)
    <3>1. pvt[r][i] \in Pvtblk  BY <2>2
    <3>2. pvt[r][i].nodptr \in Blk  BY <2>3, <3>1 DEF Holds, OwnsNode, Pvtblk, Blk, NoBlk
    <3> QED  BY <1>2, <2>3, <3>2, HoldsSpared DEF SameKey
  <2>4. Keeping(pc[r], loc[r]) => loc[r].pos \in DOMAIN pvt[r]
    <3>1. Keeping(pc[r], loc[r]) => pc[r] \in InLock  BY DEF Keeping, InLock
    <3>2. pc[r] \in InLock => loc[r].pos \in 1 .. Len(pvt[r])  BY CurType DEF HeldInv, TreeInv
    <3> QED  BY <2>2, <3>1, <3>2
  <2> QED  BY <2>1, <2>3, <2>4 DEF HeldAt
<1> QED  BY <1>3, <1>4

-----------------------------------------------------------------------------
(* The private list *)

LEMMA ListSame == ASSUME NEW q PROVE Carries(q, q, {})
BY DEF Carries, SameKey

LEMMA ListUpdate ==
  ASSUME NEW q \in Seq(Pvtblk), Distinct(q), NEW i \in 1 .. Len(q), NEW x, x.name = q[i].name,
         NEW u, DOMAIN u = DOMAIN q, u[i] = x, \A j \in DOMAIN q \ {i} : u[j] = q[j]
  PROVE  Distinct(u)
<1>1. \A j \in DOMAIN q : u[j].name = q[j].name  OBVIOUS
<1> QED  BY <1>1 DEF Distinct

LEMMA ListKept ==
  ASSUME NEW q \in Seq(Pvtblk), Distinct(q), NEW i \in 1 .. Len(q), NEW x, SameKey(x, q[i]),
         x.granted = q[i].granted, NEW u, u = [q EXCEPT ![i] = x]
  PROVE  Carries(u, q, {}) /\ Distinct(u)
<1>1. DOMAIN u = DOMAIN q /\ u[i] = x /\ \A j \in DOMAIN q \ {i} : u[j] = q[j]  OBVIOUS
<1>2. \A j \in DOMAIN q : u[j].granted = q[j].granted /\ SameKey(u[j], q[j])
  BY <1>1 DEF SameKey
<1>3. Distinct(u)  BY <1>1, <1>2 DEF Distinct, SameKey
<1> QED  BY <1>1, <1>2, <1>3 DEF Carries

(* u is q without its element c. *)
Dropped(u, q, c) ==
  /\ Len(u) = Len(q) - 1
  /\ \A j \in 1 .. Len(q) - 1 : u[j] = IF j < c THEN q[j] ELSE q[j + 1]

LEMMA RemoveAtDrops ==
  ASSUME NEW S, NEW q \in Seq(S), NEW c \in 1 .. Len(q)
  PROVE  Dropped(RemoveAt(q, c), q, c)
BY RemoveAtType, Zenon DEF Dropped

LEMMA ListDrop ==
  ASSUME NEW q \in Seq(Pvtblk), Distinct(q), NEW c \in 1 .. Len(q), NEW u, u = RemoveAt(q, c)
  PROVE  /\ Carries(u, q, {c}) /\ Distinct(u)
         /\ ~q[c].granted => Carries(u, q, {})
<1>1. /\ u \in Seq(Pvtblk) /\ Len(u) = Len(q) - 1 /\ Len(q) \in Nat
      /\ \A j \in 1 .. Len(q) - 1 : u[j] = IF j < c THEN q[j] ELSE q[j + 1]
  <2>1. Len(q) \in Nat  OBVIOUS
  <2>2. u \in Seq(Pvtblk)  BY RemoveAtType
  <2>3. Dropped(u, q, c)  BY RemoveAtDrops
  <2> QED  BY <2>1, <2>2, <2>3 DEF Dropped
<1>2. DOMAIN u = 1 .. Len(q) - 1 /\ DOMAIN q = 1 .. Len(q)  BY <1>1
<1>3. ASSUME NEW i \in DOMAIN q \ {c} PROVE \E j \in DOMAIN u : u[j] = q[i]
  <2>1. CASE i < c
    <3>1. i \in DOMAIN u /\ u[i] = q[i]  BY <1>1, <1>2, <2>1
    <3> QED  BY <3>1
  <2>2. CASE i > c
    <3>1. i - 1 \in DOMAIN u /\ u[i - 1] = q[i]  BY <1>1, <1>2, <2>2
    <3> QED  BY <3>1
  <2> QED  BY <1>2, <2>1, <2>2
<1> DEFINE g(j) == IF j < c THEN j ELSE j + 1
<1>4. \A j \in DOMAIN u : g(j) \in DOMAIN q \ {c} /\ u[j] = q[g(j)]  BY <1>1, <1>2
<1>5. \A j, k \in DOMAIN u : g(j) = g(k) => j = k  BY <1>2
<1> HIDE DEF g
<1>6. Carries(u, q, {c})  BY <1>3, <1>4 DEF Carries, SameKey
<1>7. ~q[c].granted => Carries(u, q, {})  BY <1>6 DEF Carries
<1>8. Distinct(u)  BY <1>4, <1>5 DEF Distinct
<1> QED  BY <1>6, <1>7, <1>8

LEMMA AgainKeeps ==
  ASSUME NEW e \in Pvtblk
  PROVE  /\ SameKey(NamedAgain(e), e) /\ NamedAgain(e).granted = e.granted
         /\ NamedAgain(e).zalloc = e.zalloc
BY DEF SameKey, NamedAgain, Pvtblk

LEMMA ListInsert ==
  ASSUME NEW q \in Seq(Pvtblk), Distinct(q), NEW n \in Name,
         NEW r, r = mlk_pvtblk_insert(q, n)
  PROVE  Carries(r, q, {}) /\ Distinct(r)
<1>1. Len(q) \in Nat /\ DOMAIN q = 1 .. Len(q)  OBVIOUS
<1>2. CASE \A i \in DOMAIN q : q[i].name # n
  <2>1. /\ r \in Seq(Pvtblk) /\ Len(r) = Len(q) + 1 /\ r[1] = NewPvtblk(n)
        /\ \A j \in 2 .. Len(q) + 1 : r[j] = q[j - 1]
    BY <1>2, InsertNew
  <2>2. DOMAIN r = 1 .. Len(q) + 1  BY <2>1
  <2>3. r[1].name = n /\ ~r[1].granted  BY <2>1 DEF NewPvtblk
  <2>4. \A j \in DOMAIN r \ {1} : j - 1 \in DOMAIN q /\ r[j] = q[j - 1]  BY <1>1, <2>1, <2>2
  <2>5. \A i \in DOMAIN q : i + 1 \in DOMAIN r /\ r[i + 1] = q[i]  BY <1>1, <2>1, <2>2
  <2>6. Carries(r, q, {})  BY <2>3, <2>4, <2>5 DEF Carries, SameKey
  <2>7. ASSUME NEW j \in DOMAIN r, NEW k \in DOMAIN r, r[j].name = r[k].name PROVE j = k
    <3>1. CASE j = 1 /\ k # 1  BY <1>2, <2>3, <2>4, <2>7, <3>1
    <3>2. CASE j # 1 /\ k = 1  BY <1>2, <2>3, <2>4, <2>7, <3>2
    <3>3. CASE j # 1 /\ k # 1
      <4>1. j - 1 = k - 1  BY <2>4, <2>7, <3>3 DEF Distinct
      <4> QED  BY <2>2, <4>1
    <3> QED  BY <3>1, <3>2, <3>3
  <2> QED  BY <2>6, <2>7 DEF Distinct
<1>3. CASE \E i \in DOMAIN q : q[i].name = n
  <2>1. /\ r \in Seq(Pvtblk) /\ Len(r) = Len(q)
        /\ \E h \in 1 .. Len(q) :
             /\ q[h].name = n /\ r[1] = NamedAgain(q[h])
             /\ \A j \in 2 .. Len(q) : r[j] = IF j - 1 < h THEN q[j - 1] ELSE q[j]
    BY <1>3, InsertAgain
  <2>2. PICK h \in 1 .. Len(q) :
          /\ q[h].name = n /\ r[1] = NamedAgain(q[h])
          /\ \A j \in 2 .. Len(q) : r[j] = IF j - 1 < h THEN q[j - 1] ELSE q[j]
    BY <2>1
  <2>3. DOMAIN r = 1 .. Len(q)  BY <2>1
  <2> DEFINE g(j) == IF j = 1 THEN h ELSE IF j - 1 < h THEN j - 1 ELSE j
  <2>4. q[h] \in Pvtblk  OBVIOUS
  <2>5. SameKey(r[1], q[h]) /\ r[1].granted = q[h].granted  BY <2>2, <2>4, AgainKeeps
  <2>6. ASSUME NEW j \in DOMAIN r
        PROVE  g(j) \in DOMAIN q /\ SameKey(r[j], q[g(j)]) /\ r[j].granted = q[g(j)].granted
    <3>1. CASE j = 1  BY <1>1, <2>5, <3>1
    <3>2. CASE j # 1
      <4>1. j \in 2 .. Len(q) /\ g(j) \in DOMAIN q /\ r[j] = q[g(j)]  BY <1>1, <2>2, <2>3, <3>2
      <4> QED  BY <4>1 DEF SameKey
    <3> QED  BY <3>1, <3>2
  <2>7. \A j, k \in DOMAIN r : g(j) = g(k) => j = k  BY <2>3
  <2>8. ASSUME NEW i \in DOMAIN q PROVE \E j \in DOMAIN r : g(j) = i
    <3>1. CASE i = h  BY <1>1, <2>3, <3>1
    <3>2. CASE i < h
      <4>1. i + 1 \in DOMAIN r /\ g(i + 1) = i  BY <1>1, <2>3, <3>2
      <4> QED  BY <4>1
    <3>3. CASE i > h
      <4>1. i \in DOMAIN r /\ g(i) = i  BY <1>1, <2>3, <3>3
      <4> QED  BY <4>1
    <3> QED  BY <1>1, <3>1, <3>2, <3>3
  <2> HIDE DEF g
  <2>9. Carries(r, q, {})  BY <2>6, <2>8 DEF Carries
  <2>10. Distinct(r)  BY <2>6, <2>7 DEF Distinct, SameKey
  <2> QED  BY <2>9, <2>10
<1> QED  BY <1>2, <1>3

LEMMA ListCleared ==
  ASSUME NEW q \in Seq(Pvtblk), Distinct(q), NEW n, NEW u, u = lckclr(q, n)
  PROVE  Carries(u, q, {}) /\ Distinct(u)
<1>1. DOMAIN u = DOMAIN q  BY DEF lckclr
<1>2. ASSUME NEW i \in DOMAIN q PROVE SameKey(u[i], q[i]) /\ u[i].granted = q[i].granted
  <2>1. q[i] \in Pvtblk  OBVIOUS
  <2>2. u[i] = q[i] \/ u[i] = [q[i] EXCEPT !.trans = FALSE]  BY DEF lckclr
  <2> QED  BY <2>1, <2>2 DEF SameKey, Pvtblk
<1>3. Carries(u, q, {})  BY <1>1, <1>2 DEF Carries
<1> QED  BY <1>1, <1>2, <1>3 DEF Distinct, SameKey

-----------------------------------------------------------------------------
(* Steps that carry the list over *)

LEMMA FrameWeaker ==
  ASSUME NEW p, Weaker(shr', shr), Spares(shr', shr, alive \ {p}, {})
  PROVE  Frame(p)
BY NullAssumption DEF Frame, Weaker

InCall(l) == l \notin Exiting \cup Ended

LEMMA FitFacts ==
  ASSUME HeldInv, NEW p \in Proc
  PROVE  /\ FitAt(p, shr, pc[p], pvt[p], loc[p], nclear) /\ Distinct(pvt[p])
         /\ InCall(pc[p]) => p \in alive
         /\ pvt[p] \in Seq(Pvtblk) /\ loc[p] \in Local /\ TreeInv /\ Inv
         /\ shr \in Space /\ Sound(shr)
BY ProcFacts DEF HeldInv, FitAt, TreeInv, LivesAt, InCall, Inv, TypeOK

(* Nothing p has changes. *)
LEMMA CarryStep ==
  ASSUME HeldInv, TreeInv', NEW p \in Proc, Elsewhere(p), nclear' = nclear,
         Weaker(shr', shr), Spares(shr', shr, alive, {}),
         InCall(pc[p]), ~Keeping(pc[p], loc[p]), InCall(pc'[p]), ~Keeping(pc'[p], loc'[p]),
         Distinct(pvt'[p]), PassAt(pc'[p], pvt'[p], loc'[p]), Carries(pvt'[p], pvt[p], {}),
         pc'[p] \in InLock /\ ~loc'[p].new =>
           /\ pc[p] \in InLock /\ ~loc[p].new
           /\ pvt'[p][loc'[p].pos].granted => pvt[p][loc[p].pos].granted
  PROVE  HeldInv'
<1>1. /\ FitAt(p, shr, pc[p], pvt[p], loc[p], nclear) /\ p \in alive
      /\ pvt[p] \in Seq(Pvtblk) /\ shr \in Space
  BY FitFacts
<1>2. Spares(shr', shr, {p}, {}) /\ Spares(shr', shr, alive \ {p}, {})
  BY <1>1 DEF Spares
<1>3. Frame(p)  BY <1>2, FrameWeaker
<1>4. ASSUME Undisturbed(nclear) PROVE LeakAt(p, shr', pc'[p], pvt'[p], loc'[p])
  <2>1. LeakAt(p, shr, pc[p], pvt[p], loc[p])  BY <1>1, <1>4 DEF FitAt, InCall
  <2> QED  BY <1>2, <2>1, CarryLeak
<1>5. ASSUME nclear = 0 PROVE HeldAt(p, shr', pc'[p], pvt'[p], loc'[p])
  <2>1. HeldAt(p, shr, pc[p], pvt[p], loc[p])  BY <1>1, <1>5 DEF FitAt, InCall
  <2>2. pc'[p] \in InLock /\ ~loc'[p].new => ~pvt'[p][loc'[p].pos].granted  BY <2>1 DEF HeldAt
  <2> QED  BY <1>1, <1>2, <2>1, <2>2, CarryHeld
<1>6. pc'[p] # "nocrit"  BY DEF InCall, Exiting
<1>7. FitAt(p, shr', pc'[p], pvt'[p], loc'[p], nclear)  BY <1>4, <1>5, <1>6 DEF FitAt
<1> QED  BY <1>3, <1>7, HeldStep

(* The process stays where it is in its list. *)
LEMMA StayStep ==
  ASSUME HeldInv, TreeInv', NEW p \in Proc, Elsewhere(p), nclear' = nclear,
         Weaker(shr', shr), Spares(shr', shr, alive, {}), pvt'[p] = pvt[p],
         InCall(pc[p]), ~Keeping(pc[p], loc[p]), InCall(pc'[p]), ~Keeping(pc'[p], loc'[p]),
         PassAt(pc'[p], pvt[p], loc'[p]),
         pc'[p] \in InLock /\ ~loc'[p].new =>
           pc[p] \in InLock /\ ~loc[p].new /\ loc'[p].pos = loc[p].pos
  PROVE  HeldInv'
<1>1. Distinct(pvt[p]) /\ Carries(pvt[p], pvt[p], {})  BY FitFacts, ListSame
<1> QED  BY <1>1, CarryStep

LEMMA QuietSpares ==
  ASSUME shr' = shr
  PROVE  Weaker(shr', shr) /\ Spares(shr', shr, alive, {}) /\ \A p \in Proc : Frame(p)
BY DEF Weaker, Spares, Frame

(* The process is on its way out, or gone. *)
LEMMA GoneStep ==
  ASSUME HeldInv, TreeInv', NEW p \in Proc, Elsewhere(p), nclear' = nclear,
         Undisturbed(nclear) => Frame(p), pc'[p] \in Exiting \cup Ended, Distinct(pvt'[p]),
         pc'[p] = "nocrit" => "owner" \notin loc'[p].stored
  PROVE  HeldInv'
<1>1. PassAt(pc'[p], pvt'[p], loc'[p])  BY DEF PassAt, Exiting, Ended, Trying, InLock
<1>2. FitAt(p, shr', pc'[p], pvt'[p], loc'[p], nclear)  BY <1>1 DEF FitAt
<1> QED  BY <1>2, HeldStep

-----------------------------------------------------------------------------
(* The actions *)

LEMMA BeginHeld ==
  ASSUME HeldInv, TreeInv', NEW p \in Proc, NEW c \in Commands[p], Begin(p, c)
  PROVE  HeldInv'
<1>0. pc \in [Proc -> PC] /\ loc \in [Proc -> Local]  BY DEF HeldInv, TreeInv, Inv, TypeOK
<1>1. pc[p] = "idle" /\ UNCHANGED <<shr, pvt, alive, nclear>>  BY DEF Begin
<1>2. \/ pc' = [pc EXCEPT ![p] = "unlock"] /\ \E x : loc' = [loc EXCEPT ![p] = x]
      \/ pc' = pc /\ loc' = loc
      \/ pc' = [pc EXCEPT ![p] = "name"] /\ \E x : loc' = [loc EXCEPT ![p] = x]
  BY Zenon DEF Begin, Goto
<1>3. Elsewhere(p) /\ pc'[p] \in {"idle", "unlock", "name"}
  BY <1>0, <1>1, <1>2 DEF Elsewhere
<1>4. /\ InCall(pc[p]) /\ ~Keeping(pc[p], loc[p]) /\ InCall(pc'[p]) /\ ~Keeping(pc'[p], loc'[p])
      /\ PassAt(pc'[p], pvt[p], loc'[p]) /\ pc'[p] \notin InLock
  BY <1>1, <1>3 DEF InCall, Exiting, Ended, Keeping, PassAt, Trying, InLock
<1>5. Weaker(shr', shr) /\ Spares(shr', shr, alive, {}) /\ pvt'[p] = pvt[p] /\ nclear' = nclear
  BY <1>1, QuietSpares
<1> QED  BY <1>3, <1>4, <1>5, StayStep

LEMMA OpLknameHeld ==
  ASSUME HeldInv, TreeInv', NEW p \in Proc, OpLkname(p)
  PROVE  HeldInv'
<1>0. /\ pc \in [Proc -> PC] /\ pvt \in [Proc -> Seq(Pvtblk)] /\ loc \in [Proc -> Local]
      /\ loc[p] \in Local /\ pvt[p] \in Seq(Pvtblk) /\ Distinct(pvt[p])
  BY FitFacts DEF Inv, TypeOK
<1>1. /\ pc[p] = "name" /\ MoreArgs(p) /\ UNCHANGED <<shr, pc, alive, nclear>>
      /\ pvt' = [pvt EXCEPT ![p] = mlk_pvtblk_insert(pvt[p], loc[p].args[loc[p].pos])]
      /\ loc' = [loc EXCEPT ![p].pos = @ + 1]
  BY DEF OpLkname, procvars
<1>2. loc[p].args[loc[p].pos] \in Name  BY <1>0, <1>1 DEF MoreArgs, Local
<1>3. PICK u : u = mlk_pvtblk_insert(pvt[p], loc[p].args[loc[p].pos])  OBVIOUS
<1>4. Carries(u, pvt[p], {}) /\ Distinct(u)  BY <1>0, <1>1, <1>2, <1>3, ListInsert
<1>5. Elsewhere(p) /\ pvt'[p] = u /\ pc'[p] = "name"  BY <1>0, <1>1, <1>3 DEF Elsewhere
<1>6. /\ InCall(pc[p]) /\ ~Keeping(pc[p], loc[p]) /\ InCall(pc'[p]) /\ ~Keeping(pc'[p], loc'[p])
      /\ PassAt(pc'[p], pvt'[p], loc'[p]) /\ pc'[p] \notin InLock
  BY <1>1, <1>5 DEF InCall, Exiting, Ended, Keeping, PassAt, Trying, InLock
<1>7. Weaker(shr', shr) /\ Spares(shr', shr, alive, {}) /\ nclear' = nclear
  BY <1>1, QuietSpares
<1> QED  BY <1>4, <1>5, <1>6, <1>7, CarryStep

LEMMA NamedHeld ==
  ASSUME HeldInv, TreeInv', NEW p \in Proc, ArgError(p) \/ StartLock(p) \/ StartRelease(p)
  PROVE  HeldInv'
<1>0. /\ pc \in [Proc -> PC] /\ pvt \in [Proc -> Seq(Pvtblk)] /\ loc \in [Proc -> Local]
      /\ loc[p] \in Local /\ pvt[p] \in Seq(Pvtblk) /\ Distinct(pvt[p])
  BY FitFacts DEF Inv, TypeOK
<1>1. /\ pc[p] = "name" /\ UNCHANGED <<shr, alive, nclear>>
      /\ pvt' = pvt \/ pvt' = [pvt EXCEPT ![p] = lckclr(@, lks[p])]
  BY DEF ArgError, StartLock, StartRelease, procvars
<1>2. \/ \E l \in {"idle", "decr", "zdealloc"} : pc' = [pc EXCEPT ![p] = l] /\ \E x : loc' = [loc EXCEPT ![p] = x]
      \/ /\ pc' = [pc EXCEPT ![p] = "lock"]
         /\ loc' = [loc EXCEPT ![p].pos = 1, ![p].new = TRUE, ![p].already = FALSE,
                               ![p].oot = loc[p].time = "zero"]
  <2>1. CASE ArgError(p)  BY <2>1 DEF ArgError, Goto
  <2>2. CASE StartLock(p)  BY <2>2 DEF StartLock, Goto, Finish
  <2>3. CASE StartRelease(p)
    <3>1. /\ pc' = [pc EXCEPT ![p] = "decr"] \/ pc' = [pc EXCEPT ![p] = "zdealloc"]
          /\ \E x : loc' = [loc EXCEPT ![p] = x]
      BY <2>3, Zenon DEF StartRelease, Goto
    <3> QED  BY <3>1
  <2> QED  BY <2>1, <2>2, <2>3
<1>3. Elsewhere(p) /\ pc'[p] \in {"idle", "decr", "zdealloc", "lock"}
  BY <1>0, <1>1, <1>2 DEF Elsewhere
<1>4. Carries(pvt'[p], pvt[p], {}) /\ Distinct(pvt'[p])
  <2>1. PICK u : u = lckclr(pvt[p], lks[p])  OBVIOUS
  <2>2. Carries(u, pvt[p], {}) /\ Distinct(u)  BY <1>0, <2>1, ListCleared
  <2> QED  BY <1>0, <1>1, <2>1, <2>2, ListSame
<1>5. pc'[p] = "lock" => loc'[p].pos = 1 /\ loc'[p].new /\ ~loc'[p].already
  <2>1. CASE pc'[p] = "lock"
    <3>1. loc' = [loc EXCEPT ![p].pos = 1, ![p].new = TRUE, ![p].already = FALSE,
                             ![p].oot = loc[p].time = "zero"]
      BY <1>0, <1>2, <2>1
    <3> QED  BY <1>0, <3>1 DEF Local
  <2> QED  BY <2>1
<1>6. /\ InCall(pc[p]) /\ ~Keeping(pc[p], loc[p]) /\ InCall(pc'[p]) /\ ~Keeping(pc'[p], loc'[p])
      /\ PassAt(pc'[p], pvt'[p], loc'[p]) /\ (pc'[p] \in InLock => loc'[p].new)
  BY <1>1, <1>3, <1>5 DEF InCall, Exiting, Ended, Keeping, PassAt, Trying, InLock
<1>7. Weaker(shr', shr) /\ Spares(shr', shr, alive, {}) /\ nclear' = nclear
  BY <1>1, QuietSpares
<1> QED  BY <1>3, <1>4, <1>6, <1>7, CarryStep

LEMMA WaitHeld ==
  ASSUME HeldInv, TreeInv', NEW p \in Proc,
         TimerPop(p) \/ Interrupt(p) \/ OutOfTime(p) \/ CheckOwn(p) \/ Poll(p)
  PROVE  HeldInv'
<1>0. /\ pc \in [Proc -> PC] /\ loc \in [Proc -> Local] /\ loc[p] \in Local
      /\ FitAt(p, shr, pc[p], pvt[p], loc[p], nclear) /\ Sound(shr)
  BY FitFacts DEF Inv, TypeOK
<1>1. /\ pc[p] \in {"wait", "poll", "checkown"} /\ UNCHANGED <<alive, nclear, pvt>>
      /\ shr' = shr \/ shr' = mlk_check_own(shr, Cur(p), alive)
  BY DEF TimerPop, Interrupt, OutOfTime, CheckOwn, Poll, procvars
<1>2. pc'[p] \in {"wait", "poll", "unpend", "lock"} /\ \A r \in Proc \ {p} : pc'[r] = pc[r]
  BY <1>0, <1>1 DEF TimerPop, Interrupt, OutOfTime, CheckOwn, Poll, Goto
<1>3. \/ loc' = loc \/ loc' = [loc EXCEPT ![p].oot = TRUE] \/ loc' = [loc EXCEPT ![p].oob = TRUE]
  BY DEF TimerPop, Interrupt, OutOfTime, CheckOwn, Poll
<1>4. /\ \A r \in Proc \ {p} : loc'[r] = loc[r]
      /\ loc'[p].new = loc[p].new /\ loc'[p].pos = loc[p].pos
  BY <1>0, <1>3 DEF Local
<1>5. ~loc[p].new  BY <1>0, <1>1 DEF FitAt, PassAt, InLock, Trying
<1>6. /\ Elsewhere(p)
      /\ InCall(pc[p]) /\ ~Keeping(pc[p], loc[p]) /\ InCall(pc'[p]) /\ ~Keeping(pc'[p], loc'[p])
      /\ PassAt(pc'[p], pvt[p], loc'[p]) /\ pc[p] \in InLock
  BY <1>1, <1>2, <1>4, <1>5 DEF Elsewhere, InCall, Exiting, Ended, Keeping, PassAt, Trying, InLock
<1>7. Weaker(shr', shr) /\ Spares(shr', shr, alive, {})
  BY <1>0, <1>1, QuietSpares, CheckOwnFrame
<1>8. nclear' = nclear /\ pvt'[p] = pvt[p]  BY <1>1
<1> QED  BY <1>4, <1>5, <1>6, <1>7, <1>8, StayStep

LEMMA UnpendHeld ==
  ASSUME HeldInv, TreeInv', NEW p \in Proc, Unpend(p)
  PROVE  HeldInv'
<1>0. /\ pc \in [Proc -> PC] /\ loc \in [Proc -> Local] /\ Sound(shr) /\ shr \in Space
      /\ pc[p] = "unpend" /\ pc[p] \in InLock /\ UNCHANGED <<pvt, alive, nclear>>
  BY FitFacts DEF Inv, TypeOK, Unpend, InLock, procvars
<1>1. Elsewhere(p) /\ pc'[p] \in {"idle", "prune"}
  BY <1>0 DEF Unpend, Finish, Goto, Elsewhere
<1>2. PICK d \in Blk \cup {NoBlk} : d = Cur(p).nodptr  BY <1>0, CurType, FitFacts
<1>3. SameLocks(shr', shr)
  <2>1. CASE d = NoBlk  BY <1>2, <2>1 DEF Unpend, SameLocks
  <2>2. CASE d # NoBlk
    <3>1. d \in Blk /\ shr' = mlk_prcblk_delete(shr, d, p)  BY <1>2, <2>2 DEF Unpend, mlk_unpend
    <3> QED  BY <1>0, <3>1, PrcblkDeleteType DEF SameLocks
  <2> QED  BY <2>1, <2>2
<1>4. Weaker(shr', shr) /\ Spares(shr', shr, alive, {})  BY <1>3, SparesSame
<1>5. /\ InCall(pc[p]) /\ ~Keeping(pc[p], loc[p]) /\ InCall(pc'[p]) /\ ~Keeping(pc'[p], loc'[p])
      /\ PassAt(pc'[p], pvt[p], loc'[p]) /\ pc'[p] \notin InLock
  BY <1>0, <1>1 DEF InCall, Exiting, Ended, Keeping, PassAt, Trying, InLock
<1>6. nclear' = nclear /\ pvt'[p] = pvt[p]  BY <1>0
<1> QED  BY <1>1, <1>4, <1>5, <1>6, StayStep

(* mlk_gc: no lock of the collecting process is affected. *)
LEMMA CollectHeld ==
  ASSUME HeldInv, TreeInv', NEW p \in Proc, pc[p] \in Trying, pc'[p] \in Trying \ {"lock"},
         pc[p] = "lock" => ~AlreadyLocked(p),
         \A r \in Proc \ {p} : pc'[r] = pc[r], UNCHANGED <<shr, pvt, alive, nclear>>,
         \A r \in Proc \ {p} : loc'[r] = loc[r], loc'[p].new = loc[p].new, loc'[p].pos = loc[p].pos
  PROVE  HeldInv'
<1>1. FitAt(p, shr, pc[p], pvt[p], loc[p], nclear)  BY FitFacts
<1>2. /\ Elsewhere(p)
      /\ InCall(pc[p]) /\ ~Keeping(pc[p], loc[p]) /\ InCall(pc'[p]) /\ ~Keeping(pc'[p], loc'[p])
      /\ PassAt(pc'[p], pvt[p], loc'[p]) /\ pc[p] \in InLock
  BY <1>1 DEF Elsewhere, InCall, Exiting, Ended, Keeping, FitAt, PassAt, Trying, InLock, AlreadyLocked
<1>3. /\ Weaker(shr', shr) /\ Spares(shr', shr, alive, {}) /\ nclear' = nclear /\ pvt'[p] = pvt[p]
  BY QuietSpares
<1> QED  BY <1>2, <1>3, StayStep

LEMMA LatchHeld ==
  ASSUME HeldInv, TreeInv', NEW p \in Proc,
         NeedGc(p) \/ GetGcLatch(p) \/ SalvageGcLatch(p) \/ check_pids(p)
  PROVE  HeldInv'
<1>0. pc \in [Proc -> PC] /\ loc \in [Proc -> Local] /\ loc[p] \in Local
  BY FitFacts DEF Inv, TypeOK
<1>1. /\ pc[p] \in Trying /\ (pc[p] = "lock" => ~AlreadyLocked(p))
      /\ UNCHANGED <<shr, pvt, alive, nclear>>
      /\ pc' = pc \/ \E l \in Trying \ {"lock"} : pc' = [pc EXCEPT ![p] = l]
      /\ pc' = pc => pc[p] # "lock"
      /\ loc' = loc \/ loc' = [loc EXCEPT ![p].tab = @ \ alive]
  <2>1. CASE NeedGc(p)  BY <1>0, <2>1 DEF NeedGc, procvars, Trying, Goto
  <2>2. CASE GetGcLatch(p)  BY <2>2 DEF GetGcLatch, procvars, Trying, Goto
  <2>3. CASE SalvageGcLatch(p)  BY <2>3 DEF SalvageGcLatch, procvars, Trying, Goto
  <2>4. CASE check_pids(p)  BY <2>4 DEF check_pids, procvars, Trying, Goto
  <2> QED  BY <2>1, <2>2, <2>3, <2>4
<1>2. pc'[p] \in Trying \ {"lock"} /\ \A r \in Proc \ {p} : pc'[r] = pc[r]
  BY <1>0, <1>1
<1>3. /\ \A r \in Proc \ {p} : loc'[r] = loc[r]
      /\ loc'[p].new = loc[p].new /\ loc'[p].pos = loc[p].pos
  BY <1>0, <1>1 DEF Local
<1> QED  BY <1>1, <1>2, <1>3, CollectHeld

-----------------------------------------------------------------------------
(* Steps that release the lock of one private block *)

(* A private block is kept, or goes, in the place of the block at c. *)
Spared(u, q, c) ==
  \A i \in DOMAIN q \ {c} : q[i].granted => \E j \in DOMAIN u : u[j].granted /\ SameKey(u[j], q[i])

LEMMA ReleaseStep ==
  ASSUME HeldInv, TreeInv', NEW p \in Proc, Elsewhere(p), nclear' = nclear,
         InCall(pc[p]), InCall(pc'[p]), ~Keeping(pc'[p], loc'[p]),
         NEW c \in DOMAIN pvt[p], shr' = mlk_unlock(shr, pvt[p][c], p, alive),
         Keeping(pc[p], loc[p]) => loc[p].pos = c,
         Spared(pvt'[p], pvt[p], c),
         nclear = 0 => /\ Holds(shr, pvt[p][c], p) /\ Carries(pvt'[p], pvt[p], {c})
                       /\ pc'[p] \in InLock /\ ~loc'[p].new => ~pvt'[p][loc'[p].pos].granted,
         Distinct(pvt'[p]), PassAt(pc'[p], pvt'[p], loc'[p])
  PROVE  HeldInv'
<1>1. /\ FitAt(p, shr, pc[p], pvt[p], loc[p], nclear) /\ Distinct(pvt[p]) /\ alive \subseteq Proc
      /\ pvt[p] \in Seq(Pvtblk) /\ shr \in Space /\ Sound(shr)
  BY FitFacts DEF Inv, TypeOK
<1>2. pvt[p][c].nodptr \in Blk \cup {NoBlk}
  <2>1. pvt[p][c] \in Pvtblk  BY <1>1
  <2> QED  BY <2>1 DEF Pvtblk, Blk, NoBlk
<1>3. Frame(p)
  <2>1. PICK e : e = pvt[p][c]  OBVIOUS
  <2>2. Weaker(shr', shr) /\ Spares(shr', shr, Proc \ {p}, {})
    BY <1>1, <1>2, <2>1, UnlockFrame
  <2>3. Spares(shr', shr, alive \ {p}, {})  BY <1>1, <2>2 DEF Spares
  <2> QED  BY <2>2, <2>3, FrameWeaker
<1>4. ASSUME Undisturbed(nclear) PROVE LeakAt(p, shr', pc'[p], pvt'[p], loc'[p])
  <2>1. LeakAt(p, shr, pc[p], pvt[p], loc[p])  BY <1>1, <1>4 DEF FitAt, InCall
  <2> QED  BY <1>1, <1>2, <2>1, ReleaseLeak DEF Spared
<1>5. ASSUME nclear = 0 PROVE HeldAt(p, shr', pc'[p], pvt'[p], loc'[p])
  <2>1. HeldAt(p, shr, pc[p], pvt[p], loc[p])  BY <1>1, <1>5 DEF FitAt, InCall
  <2> QED  BY <1>1, <1>5, <2>1, ReleaseHeld
<1>6. pc'[p] # "nocrit"  BY DEF InCall, Exiting
<1>7. FitAt(p, shr', pc'[p], pvt'[p], loc'[p], nclear)  BY <1>4, <1>5, <1>6 DEF FitAt
<1> QED  BY <1>3, <1>7, HeldStep

LEMMA CarriesSpared ==
  ASSUME NEW u, NEW q, NEW c, Carries(u, q, {c})
  PROVE  Spared(u, q, c)
BY DEF Carries, Spared

LEMMA RelinquishHeld ==
  ASSUME HeldInv, TreeInv', NEW p \in Proc, Relinquish(p)
  PROVE  HeldInv'
<1>0. /\ pc \in [Proc -> PC] /\ loc \in [Proc -> Local] /\ loc[p] \in Local /\ pvt[p] \in Seq(Pvtblk)
      /\ pc[p] = "relinquish" /\ pc[p] \in InLock /\ UNCHANGED <<pvt, nclear>>
      /\ FitAt(p, shr, pc[p], pvt[p], loc[p], nclear) /\ Distinct(pvt[p])
  BY FitFacts DEF Inv, TypeOK, Relinquish, InLock, procvars
<1>1. PICK c : c = loc[p].pos  OBVIOUS
<1>2. c \in DOMAIN pvt[p] /\ shr' = mlk_unlock(shr, pvt[p][c], p, alive)
  <2>1. loc[p].pos \in 1 .. Len(pvt[p])  BY <1>0, CurType, FitFacts
  <2> QED  BY <1>0, <1>1, <2>1 DEF Relinquish, Cur
<1>3. Elsewhere(p) /\ pc'[p] = "lock"  BY <1>0 DEF Relinquish, Goto, Elsewhere
<1>4. loc'[p].pos = 1 /\ loc'[p].new /\ ~loc'[p].already
  <2>1. loc' = [loc EXCEPT ![p].pos = 1, ![p].new = TRUE, ![p].already = FALSE]  BY DEF Relinquish
  <2> QED  BY <1>0, <2>1 DEF Local
<1>5. /\ InCall(pc[p]) /\ InCall(pc'[p]) /\ ~Keeping(pc'[p], loc'[p])
      /\ PassAt(pc'[p], pvt'[p], loc'[p]) /\ Spared(pvt'[p], pvt[p], c)
  BY <1>0, <1>3, <1>4 DEF InCall, Exiting, Ended, Keeping, PassAt, Trying, InLock, Spared, SameKey
<1>6. ASSUME nclear = 0 PROVE Holds(shr, pvt[p][c], p) /\ Carries(pvt'[p], pvt[p], {c})
  <2>1. HeldAt(p, shr, pc[p], pvt[p], loc[p])  BY <1>0, <1>5, <1>6 DEF FitAt, InCall
  <2>2. Keeping(pc[p], loc[p]) /\ ~loc[p].new
    BY <1>0 DEF Keeping, FitAt, PassAt, InLock, Trying
  <2>3. Holds(shr, pvt[p][c], p) /\ ~pvt[p][c].granted  BY <1>0, <1>1, <2>1, <2>2 DEF HeldAt
  <2> QED  BY <1>0, <2>3 DEF Carries, SameKey
<1>7. pc'[p] \in InLock /\ ~loc'[p].new => ~pvt'[p][loc'[p].pos].granted  BY <1>4
<1> QED  BY <1>0, <1>1, <1>2, <1>3, <1>5, <1>6, <1>7, ReleaseStep

(* The steps of op_unlock, op_decrlock and op_zdealloc2. *)
Walking == {"prune", "unlock", "decr", "zdealloc"}

LEMMA DropHeld ==
  ASSUME HeldInv, TreeInv', NEW p \in Proc, pc[p] \in Walking, loc[p].left > 0,
         DropCur(p), UNCHANGED <<pc, alive, nclear>>,
         \/ ~Cur(p).granted /\ shr' = shr
         \/ Cur(p).granted /\ shr' = mlk_unlock(shr, Cur(p), p, alive)
  PROVE  HeldInv'
<1>0. /\ pvt \in [Proc -> Seq(Pvtblk)] /\ loc \in [Proc -> Local] /\ pvt[p] \in Seq(Pvtblk)
      /\ FitAt(p, shr, pc[p], pvt[p], loc[p], nclear) /\ Distinct(pvt[p])
  BY FitFacts DEF Inv, TypeOK
<1>1. Elsewhere(p)  BY <1>0 DEF DropCur, Elsewhere
<1>2. PICK c : c = loc[p].pos  OBVIOUS
<1>3. c \in 1 .. Len(pvt[p])
  BY <1>2, WalkFacts, FitFacts DEF Walking, Releasing
<1>4. PICK u : u = RemoveAt(pvt[p], c)  OBVIOUS
<1>5. pvt'[p] = u  BY <1>0, <1>2, <1>4 DEF DropCur
<1>6. /\ Carries(u, pvt[p], {c}) /\ Distinct(u)
      /\ ~pvt[p][c].granted => Carries(u, pvt[p], {})
  BY <1>0, <1>3, <1>4, ListDrop
<1>7. /\ InCall(pc[p]) /\ ~Keeping(pc[p], loc[p]) /\ InCall(pc'[p]) /\ ~Keeping(pc'[p], loc'[p])
      /\ PassAt(pc'[p], pvt'[p], loc'[p]) /\ pc'[p] \notin InLock
  BY DEF Walking, InCall, Exiting, Ended, Keeping, PassAt, Trying, InLock
<1>8. CASE ~Cur(p).granted /\ shr' = shr
  <2>1. Weaker(shr', shr) /\ Spares(shr', shr, alive, {})  BY <1>8, QuietSpares
  <2>2. Carries(pvt'[p], pvt[p], {}) /\ Distinct(pvt'[p])  BY <1>2, <1>5, <1>6, <1>8 DEF Cur
  <2> QED  BY <1>1, <1>7, <2>1, <2>2, CarryStep
<1>9. CASE Cur(p).granted /\ shr' = mlk_unlock(shr, Cur(p), p, alive)
  <2>1. shr' = mlk_unlock(shr, pvt[p][c], p, alive) /\ c \in DOMAIN pvt[p]
    BY <1>0, <1>2, <1>3, <1>9 DEF Cur
  <2>2. Carries(pvt'[p], pvt[p], {c}) /\ Spared(pvt'[p], pvt[p], c) /\ Distinct(pvt'[p])
    BY <1>5, <1>6, CarriesSpared
  <2>3. nclear = 0 => Holds(shr, pvt[p][c], p)
    BY <1>0, <1>2, <1>7, <1>9, <2>1 DEF FitAt, HeldAt, InCall, Cur
  <2> QED  BY <1>1, <1>7, <2>1, <2>2, <2>3, ReleaseStep
<1> QED  BY <1>8, <1>9

LEMMA KeepHeld ==
  ASSUME HeldInv, TreeInv', NEW p \in Proc, pc[p] \in Walking, loc[p].left > 0,
         NEW x, KeepCur(p, x), SameKey(x, Cur(p)), x.granted = Cur(p).granted,
         UNCHANGED <<shr, pc, alive, nclear>>
  PROVE  HeldInv'
<1>0. /\ pvt \in [Proc -> Seq(Pvtblk)] /\ loc \in [Proc -> Local] /\ pvt[p] \in Seq(Pvtblk)
      /\ Distinct(pvt[p])
  BY FitFacts DEF Inv, TypeOK
<1>1. Elsewhere(p)  BY <1>0 DEF KeepCur, Update, Elsewhere
<1>2. PICK c : c = loc[p].pos  OBVIOUS
<1>3. c \in 1 .. Len(pvt[p])
  BY <1>2, WalkFacts, FitFacts DEF Walking, Releasing
<1>4. PICK u : u = [pvt[p] EXCEPT ![c] = x]  OBVIOUS
<1>5. pvt'[p] = u  BY <1>0, <1>2, <1>4 DEF KeepCur, Update
<1>6. Carries(u, pvt[p], {}) /\ Distinct(u)
  BY <1>0, <1>2, <1>3, <1>4, ListKept DEF Cur
<1>7. /\ InCall(pc[p]) /\ ~Keeping(pc[p], loc[p]) /\ InCall(pc'[p]) /\ ~Keeping(pc'[p], loc'[p])
      /\ PassAt(pc'[p], pvt'[p], loc'[p]) /\ pc'[p] \notin InLock
  BY DEF Walking, InCall, Exiting, Ended, Keeping, PassAt, Trying, InLock
<1>8. Weaker(shr', shr) /\ Spares(shr', shr, alive, {})  BY QuietSpares
<1> QED  BY <1>1, <1>5, <1>6, <1>7, <1>8, CarryStep

LEMMA ResetKeeps ==
  ASSUME NEW e \in Pvtblk, NEW l
  PROVE  /\ SameKey([e EXCEPT !.level = l], e) /\ [e EXCEPT !.level = l].granted = e.granted
         /\ SameKey([e EXCEPT !.zalloc = FALSE], e) /\ [e EXCEPT !.zalloc = FALSE].granted = e.granted
         /\ SameKey(e, e)
BY DEF SameKey, Pvtblk

LEMMA WalkHeld ==
  ASSUME HeldInv, TreeInv', NEW p \in Proc, pc[p] \in Walking,
         PruneStep(p) \/ UnlockStep(p) \/ op_decrlock(p) \/ op_zdealloc2(p)
  PROVE  HeldInv'
<1>1. loc[p].left > 0 /\ UNCHANGED <<pc, alive, nclear>>
  BY DEF PruneStep, UnlockStep, op_decrlock, op_zdealloc2, procvars
<1>2. \/ ~Cur(p).granted /\ DropCur(p) /\ shr' = shr
      \/ Cur(p).granted /\ DropCur(p) /\ shr' = mlk_unlock(shr, Cur(p), p, alive)
      \/ KeepCur(p, Cur(p)) /\ shr' = shr
      \/ \E l : KeepCur(p, [Cur(p) EXCEPT !.level = l]) /\ shr' = shr
      \/ KeepCur(p, [Cur(p) EXCEPT !.zalloc = FALSE]) /\ shr' = shr
  BY Zenon DEF PruneStep, UnlockStep, op_decrlock, op_zdealloc2
<1>3. Cur(p) \in Pvtblk
  BY <1>1, WalkFacts, FitFacts DEF Walking, Releasing
<1>4. CASE DropCur(p) /\ \/ ~Cur(p).granted /\ shr' = shr
                         \/ Cur(p).granted /\ shr' = mlk_unlock(shr, Cur(p), p, alive)
  BY <1>1, <1>4, DropHeld
<1>5. ASSUME NEW x, KeepCur(p, x), shr' = shr, SameKey(x, Cur(p)), x.granted = Cur(p).granted
      PROVE  HeldInv'
  BY <1>1, <1>5, KeepHeld
<1>6. CASE KeepCur(p, Cur(p)) /\ shr' = shr  BY <1>3, <1>5, <1>6, ResetKeeps
<1>7. ASSUME NEW l, KeepCur(p, [Cur(p) EXCEPT !.level = l]), shr' = shr PROVE HeldInv'
  BY <1>3, <1>5, <1>7, ResetKeeps
<1>8. CASE KeepCur(p, [Cur(p) EXCEPT !.zalloc = FALSE]) /\ shr' = shr
  BY <1>3, <1>5, <1>8, ResetKeeps
<1> QED  BY <1>2, <1>4, <1>6, <1>7, <1>8

LEMMA EndReleaseHeld ==
  ASSUME HeldInv, TreeInv', NEW p \in Proc, EndRelease(p)
  PROVE  HeldInv'
<1>0. pc \in [Proc -> PC] /\ loc \in [Proc -> Local]  BY FitFacts DEF Inv, TypeOK
<1>1. pc[p] \in Walking /\ UNCHANGED <<shr, pvt, alive, nclear>>
  BY DEF EndRelease, procvars, Walking
<1>2. pc'[p] \in {"name", "idle"} /\ Elsewhere(p)
  BY <1>0, <1>1 DEF EndRelease, Finish, Goto, Elsewhere
<1>3. /\ InCall(pc[p]) /\ ~Keeping(pc[p], loc[p]) /\ InCall(pc'[p]) /\ ~Keeping(pc'[p], loc'[p])
      /\ PassAt(pc'[p], pvt[p], loc'[p]) /\ pc'[p] \notin InLock
  BY <1>1, <1>2 DEF Walking, InCall, Exiting, Ended, Keeping, PassAt, Trying, InLock
<1>4. Weaker(shr', shr) /\ Spares(shr', shr, alive, {}) /\ pvt'[p] = pvt[p] /\ nclear' = nclear
  BY <1>1, QuietSpares
<1> QED  BY <1>2, <1>3, <1>4, StayStep

LEMMA UndoneKeeps ==
  ASSUME NEW e \in Pvtblk
  PROVE  /\ Undone(e).name = e.name /\ ~Undone(e).granted
         /\ SameKey(Lowered(e), e) /\ Lowered(e).granted = e.granted
BY DEF SameKey, Undone, Lowered, Pvtblk

LEMMA BckoutHeld ==
  ASSUME HeldInv, TreeInv', NEW p \in Proc, mlk_bckout(p)
  PROVE  HeldInv'
<1>0. /\ pc \in [Proc -> PC] /\ pvt \in [Proc -> Seq(Pvtblk)] /\ loc \in [Proc -> Local]
      /\ pvt[p] \in Seq(Pvtblk) /\ loc[p] \in Local /\ Distinct(pvt[p])
      /\ pc[p] = "bckout" /\ UNCHANGED <<alive, nclear>>
      /\ FitAt(p, shr, pc[p], pvt[p], loc[p], nclear)
  BY FitFacts DEF Inv, TypeOK, mlk_bckout, procvars
<1>1. PICK i : i = loc[p].pos - loc[p].left  OBVIOUS
<1>2. /\ i \in 1 .. Len(pvt[p]) /\ DOMAIN pvt[p] = 1 .. Len(pvt[p]) /\ Len(pvt[p]) \in Nat
      /\ i < loc[p].pos /\ loc[p].pos \in 1 .. Len(pvt[p])
      /\ loc[p].left \in Nat \ {0} /\ loc[p].pos \in Nat
  <2>1. lks[p] \in Nat /\ Listed("bckout", pvt[p], lks[p], loc[p])
    BY <1>0, ProcFacts, FitFacts
  <2> QED  BY <1>0, <1>1, <2>1 DEF Listed, InLock, Local
<1>3. PICK e \in Pvtblk : e = pvt[p][i]  BY <1>0, <1>2
<1>4. PICK x : /\ pvt' = [pvt EXCEPT ![p][i] = x]
               /\ \/ x = Undone(e) /\ shr' = mlk_unlock(shr, e, p, alive)
                  \/ (x = [e EXCEPT !.level = 0] \/ x = Lowered(e)) /\ shr' = shr
  BY <1>1, <1>3, Zenon DEF mlk_bckout, Update
<1>5. /\ \E l \in {"wait", "bckout"} : pc' = [pc EXCEPT ![p] = l]
      /\ loc' = [loc EXCEPT ![p].left = @ - 1]
  BY DEF mlk_bckout, Goto
<1>6. Elsewhere(p) /\ pc'[p] \in {"wait", "bckout"}  BY <1>0, <1>4, <1>5 DEF Elsewhere
<1>7. loc'[p].left = loc[p].left - 1 /\ loc'[p].pos = loc[p].pos /\ loc'[p].new = loc[p].new
  BY <1>0, <1>5 DEF Local
<1>8. PICK u : u = [pvt[p] EXCEPT ![i] = x]  OBVIOUS
<1>9. /\ pvt'[p] = u /\ DOMAIN u = DOMAIN pvt[p] /\ u[i] = x
      /\ \A j \in DOMAIN pvt[p] \ {i} : u[j] = pvt[p][j]
  BY <1>0, <1>2, <1>4, <1>8
<1>10. PassAt(pc'[p], pvt'[p], loc'[p])
  <2>1. \A j \in loc[p].pos - loc[p].left .. loc[p].pos - 1 : pvt[p][j].granted
    BY <1>0 DEF FitAt, PassAt
  <2>2. ASSUME NEW j \in loc'[p].pos - loc'[p].left .. loc'[p].pos - 1 PROVE u[j].granted
    <3>1. j \in loc[p].pos - loc[p].left .. loc[p].pos - 1 /\ j \in DOMAIN pvt[p] \ {i}
      BY <1>1, <1>2, <1>7
    <3> QED  BY <1>9, <2>1, <3>1
  <2>3. ~loc'[p].new  BY <1>0, <1>7 DEF FitAt, PassAt, InLock, Trying
  <2> QED  BY <1>6, <1>9, <2>2, <2>3 DEF PassAt, Trying
<1>11. /\ InCall(pc[p]) /\ ~Keeping(pc[p], loc[p]) /\ InCall(pc'[p]) /\ ~Keeping(pc'[p], loc'[p])
       /\ pc[p] \in InLock /\ ~loc[p].new
  BY <1>0, <1>6 DEF InCall, Exiting, Ended, Keeping, InLock, FitAt, PassAt, Trying
<1>12. u[loc[p].pos] = pvt[p][loc[p].pos]  BY <1>2, <1>9
<1>13. CASE x = Undone(e) /\ shr' = mlk_unlock(shr, e, p, alive)
  <2>1. x.name = pvt[p][i].name /\ ~x.granted  BY <1>3, <1>13, UndoneKeeps
  <2>2. Distinct(u)  BY <1>0, <1>2, <1>9, <2>1, ListUpdate
  <2>3. Carries(u, pvt[p], {i})  BY <1>9, <2>1 DEF Carries, SameKey
  <2>4. pvt[p][i].granted
    BY <1>0, <1>1, <1>2 DEF FitAt, PassAt
  <2>5. ASSUME nclear = 0
        PROVE  Holds(shr, pvt[p][i], p) /\ ~u[loc[p].pos].granted
    <3>1. HeldAt(p, shr, pc[p], pvt[p], loc[p])  BY <1>0, <1>11, <2>5 DEF FitAt, InCall
    <3> QED  BY <1>2, <1>11, <1>12, <2>4, <3>1 DEF HeldAt
  <2>6. i \in DOMAIN pvt[p] /\ shr' = mlk_unlock(shr, pvt[p][i], p, alive)  BY <1>2, <1>3, <1>13
  <2>7. Spared(pvt'[p], pvt[p], i)  BY <1>9, <2>3, CarriesSpared
  <2> QED  BY <1>0, <1>6, <1>7, <1>9, <1>10, <1>11, <2>2, <2>3, <2>5, <2>6, <2>7, ReleaseStep
<1>14. CASE (x = [e EXCEPT !.level = 0] \/ x = Lowered(e)) /\ shr' = shr
  <2>1. SameKey(x, pvt[p][i]) /\ x.granted = pvt[p][i].granted
    <3>1. SameKey(x, e) /\ x.granted = e.granted
      <4>1. CASE x = [e EXCEPT !.level = 0]  BY <4>1, ResetKeeps
      <4>2. CASE x = Lowered(e)  BY <4>2, UndoneKeeps
      <4> QED  BY <1>14, <4>1, <4>2
    <3> QED  BY <1>3, <3>1
  <2>2. Carries(u, pvt[p], {}) /\ Distinct(u)  BY <1>0, <1>2, <1>8, <2>1, ListKept
  <2>3. Weaker(shr', shr) /\ Spares(shr', shr, alive, {})  BY <1>14, QuietSpares
  <2> QED  BY <1>0, <1>6, <1>7, <1>9, <1>10, <1>11, <1>12, <2>2, <2>3, CarryStep
<1> QED  BY <1>4, <1>13, <1>14

-----------------------------------------------------------------------------
(* mlk_lock *)

(* The private block at i is replaced by x. *)
Replaces(u, q, i, x) ==
  /\ DOMAIN u = DOMAIN q /\ i \in DOMAIN q /\ u[i] = x
  /\ \A j \in DOMAIN q \ {i} : u[j] = q[j]

(* The node that the result of mlk_lock is about is the only one of its name. *)
LEMMA LockLeak ==
  ASSUME NEW p \in Proc, NEW m, Sound(m), NEW q, Distinct(q), NEW i, NEW x, NEW u, Replaces(u, q, i, x),
         NEW r, Refused(r, m, q[i], p) \/ FoundOwn(r, m, q[i], p) \/ Granted(r, m, q[i], p),
         SameKey(x, r.e), SameClaim(r.e, q[i]), q[i].name \in Name,
         NEW l, NEW o, ~Keeping(l, o), LeakAt(p, m, l, q, o), NEW k, NEW n,
         r.got => x.granted \/ (i = n.pos /\ Keeping(k, n))
  PROVE  LeakAt(p, r.space, k, u, n)
<1> SUFFICES ASSUME NEW b \in Blk, r.space.owner[b] = p
             PROVE  \E j \in DOMAIN u : /\ u[j].nodptr = b /\ Holds(r.space, u[j], p)
                                        /\ u[j].granted \/ (j = n.pos /\ Keeping(k, n))
  BY DEF LeakAt
<1>0. m.owner \in [Blk -> ProcOrNone] /\ m.name \in [Blk -> NameOrNone]  BY DEF Sound, Space
<1>1. ASSUME m.owner[b] = p
      PROVE  \E j \in DOMAIN q : q[j].nodptr = b /\ Holds(m, q[j], p) /\ q[j].granted
  BY <1>1 DEF LeakAt
<1>2. CASE Refused(r, m, q[i], p)
  <2>1. SameLocks(r.space, m) /\ m.owner[b] = p  BY <1>2 DEF Refused, SameLocks
  <2>2. PICK j \in DOMAIN q : q[j].nodptr = b /\ Holds(m, q[j], p) /\ q[j].granted  BY <1>1, <2>1
  <2>3. j # i  BY <1>2, <2>1, <2>2 DEF Refused, Holds
  <2>4. Holds(r.space, q[j], p)  BY <2>1, <2>2 DEF Holds, OwnsNode, SameLocks
  <2> QED  BY <2>2, <2>3, <2>4 DEF Replaces
<1>3. CASE FoundOwn(r, m, q[i], p)
  <2>1. /\ r.got /\ r.space = m /\ r.e.nodptr \in Blk /\ r.e.sequence = q[i].sequence
        /\ m.name[r.e.nodptr] = q[i].name /\ m.owner[b] = p
    BY <1>3 DEF FoundOwn
  <2>2. PICK j \in DOMAIN q : q[j].nodptr = b /\ Holds(m, q[j], p) /\ q[j].granted  BY <1>1, <2>1
  <2>3. CASE j = i
    <3>1. b = r.e.nodptr
      <4>1. m.name[b] = q[i].name  BY <2>2, <2>3 DEF Holds
      <4>2. b \in InUse(m) /\ r.e.nodptr \in InUse(m)  BY <2>1, <4>1 DEF InUse
      <4> QED  BY <2>1, <4>1, <4>2 DEF Sound, UniqueNames
    <3>2. u[i].nodptr = b /\ u[i].sequence = q[i].sequence /\ u[i].name = q[i].name
      BY <2>1, <3>1 DEF Replaces, SameKey, SameClaim
    <3>3. Holds(r.space, u[i], p)  BY <2>1, <2>2, <2>3, <3>2 DEF Holds, OwnsNode
    <3> QED  BY <2>1, <3>2, <3>3 DEF Replaces
  <2>4. CASE j # i  BY <2>1, <2>2, <2>4 DEF Replaces
  <2> QED  BY <2>3, <2>4
<1>4. CASE Granted(r, m, q[i], p)
  <2>1. PICK d : d = r.e.nodptr  OBVIOUS
  <2>2. /\ r.got /\ d \in Blk /\ m.name[d] = q[i].name /\ m.owner[d] = NoProc
        /\ r.space.name = m.name /\ r.space.owner = [m.owner EXCEPT ![d] = p]
        /\ \A c \in Blk \ {d} : r.space.sequence[c] = m.sequence[c]
        /\ r.e.sequence = r.space.sequence[d]
    BY <1>4, <2>1 DEF Granted, Clear
  <2>3. CASE b = d
    <3>1. u[i].nodptr = b /\ u[i].sequence = r.e.sequence /\ u[i].name = q[i].name
      BY <2>1, <2>3 DEF Replaces, SameKey, SameClaim
    <3>2. d # NoBlk  BY <2>2, BlkFacts
    <3>3. Holds(r.space, u[i], p)  BY <2>2, <2>3, <3>1, <3>2 DEF Holds, OwnsNode
    <3> QED  BY <2>2, <3>1, <3>3 DEF Replaces
  <2>4. CASE b # d
    <3>1. m.owner[b] = p  BY <1>0, <2>2, <2>4
    <3>2. PICK j \in DOMAIN q : q[j].nodptr = b /\ Holds(m, q[j], p) /\ q[j].granted  BY <1>1, <3>1
    <3>3. j # i
      <4>1. SUFFICES ASSUME j = i PROVE FALSE
        OBVIOUS
      <4>2. m.name[b] = q[i].name  BY <3>2, <4>1 DEF Holds
      <4>3. b \in InUse(m) /\ d \in InUse(m)  BY <2>2, <4>2 DEF InUse
      <4> QED  BY <2>2, <2>4, <4>2, <4>3 DEF Sound, UniqueNames
    <3>4. Holds(r.space, q[j], p)
      BY <1>0, <2>2, <2>4, <3>2 DEF Holds, OwnsNode
    <3> QED  BY <3>2, <3>3, <3>4 DEF Replaces
  <2> QED  BY <2>3, <2>4
<1> QED  BY <1>2, <1>3, <1>4

LEMMA LockHeld ==
  ASSUME NEW p \in Proc, NEW m, Sound(m), NEW q \in Seq(Pvtblk), Distinct(q),
         NEW i, NEW x, NEW u, Replaces(u, q, i, x),
         NEW r, Refused(r, m, q[i], p) \/ FoundOwn(r, m, q[i], p) \/ Granted(r, m, q[i], p),
         SameKey(x, r.e), SameClaim(r.e, q[i]), q[i].name \in Name,
         NEW l, NEW o, ~Keeping(l, o), l \in InLock, i = o.pos,
         LeakAt(p, m, l, q, o), HeldAt(p, m, l, q, o), NEW k, NEW n,
         ~r.got \/ ~o.new => x.granted = q[i].granted,
         Keeping(k, n) => r.got /\ n.pos = i,
         k \in InLock /\ ~n.new => n.pos = i /\ (~r.got \/ ~o.new)
  PROVE  HeldAt(p, r.space, k, u, n)
<1>0. /\ m.owner \in [Blk -> ProcOrNone] /\ i \in DOMAIN q
      /\ \A j \in DOMAIN q : q[j].granted => Holds(m, q[j], p)
      /\ \A j \in DOMAIN q : q[j].nodptr \in Blk \cup {NoBlk}
      /\ ~o.new => ~q[i].granted
  <2>1. \A j \in DOMAIN q : q[j] \in Pvtblk  OBVIOUS
  <2>2. \A j \in DOMAIN q : q[j].nodptr \in Blk \cup {NoBlk}  BY <2>1 DEF Pvtblk, Blk, NoBlk
  <2>3. m.owner \in [Blk -> ProcOrNone] /\ i \in DOMAIN q  BY DEF Sound, Space, Replaces
  <2>4. /\ \A j \in DOMAIN q : q[j].granted => Holds(m, q[j], p)
        /\ ~o.new => ~q[i].granted
    BY DEF HeldAt
  <2> QED  BY <2>2, <2>3, <2>4
<1>1. CASE Refused(r, m, q[i], p)
  <2>1. /\ ~r.got /\ SameLocks(r.space, m)
        /\ \A b \in Blk : m.name[b] = q[i].name => m.owner[b] # p
    BY <1>1 DEF Refused
  <2>2. ~q[i].granted
    <3>1. SUFFICES ASSUME Holds(m, q[i], p) PROVE FALSE
      BY <1>0
    <3>2. q[i].nodptr \in Blk  BY <1>0, <3>1 DEF Holds, OwnsNode
    <3> QED  BY <2>1, <3>1, <3>2 DEF Holds, OwnsNode
  <2>3. ~u[i].granted  BY <2>1, <2>2 DEF Replaces
  <2>4. \A j \in DOMAIN u : u[j].granted => j # i /\ Holds(r.space, u[j], p)
    BY <1>0, <2>1, <2>3 DEF Replaces, Holds, OwnsNode, SameLocks
  <2> QED  BY <2>1, <2>3, <2>4 DEF HeldAt
<1>2. CASE FoundOwn(r, m, q[i], p)
  <2>1. /\ r.got /\ r.space = m /\ r.e.nodptr \in Blk /\ r.e.sequence = q[i].sequence
        /\ m.name[r.e.nodptr] = q[i].name /\ m.owner[r.e.nodptr] = p
    BY <1>2 DEF FoundOwn
  <2>2. PICK j \in DOMAIN q : q[j].nodptr = r.e.nodptr /\ Holds(m, q[j], p) /\ q[j].granted
    BY <2>1 DEF LeakAt
  <2>3. j = i
    <3>1. q[j].name = q[i].name  BY <2>1, <2>2 DEF Holds
    <3> QED  BY <1>0, <3>1 DEF Distinct
  <2>4. Holds(m, u[i], p)
    BY <2>1, <2>2, <2>3 DEF Holds, OwnsNode, Replaces, SameKey, SameClaim
  <2>5. o.new  BY <1>0, <2>2, <2>3
  <2>6. \A c \in DOMAIN u : u[c].granted => Holds(r.space, u[c], p)
    BY <1>0, <2>1, <2>4 DEF Replaces
  <2> QED  BY <2>1, <2>4, <2>5, <2>6 DEF HeldAt
<1>3. CASE Granted(r, m, q[i], p)
  <2>1. PICK d : d = r.e.nodptr  OBVIOUS
  <2>2. /\ r.got /\ d \in Blk /\ m.name[d] = q[i].name /\ m.owner[d] = NoProc
        /\ r.space.name = m.name /\ r.space.owner = [m.owner EXCEPT ![d] = p]
        /\ \A c \in Blk \ {d} : r.space.sequence[c] = m.sequence[c]
        /\ r.e.sequence = r.space.sequence[d]
    BY <1>3, <2>1 DEF Granted, Clear
  <2>3. Holds(r.space, u[i], p)
    <3>1. u[i].nodptr = d /\ u[i].sequence = r.e.sequence /\ u[i].name = q[i].name
      BY <2>1 DEF Replaces, SameKey, SameClaim
    <3>2. d # NoBlk /\ r.space.owner[d] = p  BY <1>0, <2>2, BlkFacts
    <3> QED  BY <2>2, <3>1, <3>2 DEF Holds, OwnsNode
  <2>4. ASSUME NEW c \in DOMAIN u, u[c].granted, c # i PROVE Holds(r.space, u[c], p)
    <3>1. u[c] = q[c] /\ Holds(m, q[c], p) /\ q[c].nodptr \in Blk
      BY <1>0, <2>4 DEF Replaces, Holds, OwnsNode
    <3>2. q[c].nodptr # d  BY <2>2, <3>1, NullAssumption DEF Holds, OwnsNode
    <3>3. r.space.owner[q[c].nodptr] = m.owner[q[c].nodptr]  BY <1>0, <2>2, <3>1, <3>2
    <3> QED  BY <2>2, <3>1, <3>2, <3>3 DEF Holds, OwnsNode
  <2>5. k \in InLock /\ ~n.new => ~u[n.pos].granted  BY <1>0, <2>2 DEF Replaces
  <2> QED  BY <2>2, <2>3, <2>4, <2>5 DEF HeldAt
<1> QED  BY <1>1, <1>2, <1>3

LEMMA GrantedKeeps ==
  ASSUME NEW e \in Pvtblk, NEW x,
         \/ x = [e EXCEPT !.granted = TRUE, !.level = 1] \/ x = [e EXCEPT !.granted = TRUE, !.zalloc = TRUE]
         \/ x = Raised(e) \/ x = [e EXCEPT !.granted = TRUE]
  PROVE  SameKey(x, e) /\ x.granted
<1>1. CASE x = [e EXCEPT !.granted = TRUE, !.level = 1]  BY <1>1 DEF SameKey, Pvtblk
<1>2. CASE x = [e EXCEPT !.granted = TRUE, !.zalloc = TRUE]  BY <1>2 DEF SameKey, Pvtblk
<1>3. CASE x = Raised(e)
  <2>1. PICK y : y = (e.level + e.translev) % (LevelMax + 1)  OBVIOUS
  <2>2. x = [e EXCEPT !.granted = TRUE, !.level = y]  BY <1>3, <2>1 DEF Raised
  <2> QED  BY <2>2 DEF SameKey, Pvtblk
<1>4. CASE x = [e EXCEPT !.granted = TRUE]  BY <1>4 DEF SameKey, Pvtblk
<1> QED  BY <1>1, <1>2, <1>3, <1>4

(* Obtained marks the lock at pos as granted and goes on or ends. *)
LEMMA ObtainedOutcome ==
  ASSUME Inv, NEW p \in Proc, pc[p] \in InLock, NEW e \in Pvtblk, Obtained(p, e)
  PROVE  \E x : /\ Replaces(pvt'[p], pvt[p], loc[p].pos, x) /\ SameKey(x, e) /\ x.granted
                /\ \/ pc'[p] = "idle"
                   \/ /\ pc'[p] = "lock" /\ loc'[p].pos = loc[p].pos + 1 /\ loc'[p].new = loc[p].new
<1>0. /\ pc \in [Proc -> PC] /\ pvt \in [Proc -> Seq(Pvtblk)] /\ loc \in [Proc -> Local]
      /\ pvt[p] \in Seq(Pvtblk) /\ loc[p] \in Local
  BY ProcFacts DEF Inv, TypeOK
<1>1. loc[p].pos \in 1 .. Len(pvt[p])  BY CurType
<1>2. PICK x : /\ pvt' = [pvt EXCEPT ![p][loc[p].pos] = x]
               /\ \/ x = [e EXCEPT !.granted = TRUE, !.level = 1] \/ x = [e EXCEPT !.granted = TRUE, !.zalloc = TRUE]
                  \/ x = Raised(e) \/ x = [e EXCEPT !.granted = TRUE]
  BY Zenon DEF Obtained, Update
<1>3. SameKey(x, e) /\ x.granted  BY <1>2, GrantedKeeps
<1>4. Replaces(pvt'[p], pvt[p], loc[p].pos, x)  BY <1>0, <1>1, <1>2 DEF Replaces
<1>5. \/ pc' = [pc EXCEPT ![p] = "idle"]
      \/ pc' = [pc EXCEPT ![p] = "lock"] /\ loc' = [loc EXCEPT ![p].pos = loc[p].pos + 1]
  BY DEF Obtained, Finish, Goto
<1>6. \/ pc'[p] = "idle"
      \/ pc'[p] = "lock" /\ loc'[p].pos = loc[p].pos + 1 /\ loc'[p].new = loc[p].new
  BY <1>0, <1>5 DEF Local
<1> QED  BY <1>3, <1>4, <1>6

(* What op_lock2 makes of the result of mlk_lock. *)
Outcome(p, r, x) ==
  /\ Replaces(pvt'[p], pvt[p], loc[p].pos, x) /\ SameKey(x, r.e)
  /\ \/ /\ r.got /\ loc[p].new /\ x.granted
        /\ \/ pc'[p] = "idle"
           \/ pc'[p] = "lock" /\ loc'[p].pos = loc[p].pos + 1 /\ loc'[p].new
     \/ /\ ~r.got /\ x.granted = r.e.granted /\ pc'[p] \in {"bckout", "wait", "checkown"}
        /\ loc'[p].pos = loc[p].pos /\ ~loc'[p].new
        /\ pc'[p] = "bckout" => loc[p].new /\ loc'[p].left = loc[p].pos - 1
     \/ /\ r.got /\ ~loc[p].new /\ x.granted = r.e.granted
        /\ loc'[p].pos = loc[p].pos
        /\ \/ pc'[p] = "relinquish" /\ ~loc'[p].new
           \/ pc'[p] = "lock" /\ loc'[p].new /\ loc'[p].already /\ loc[p].pos = 1

LEMMA FirstOutcome ==
  ASSUME Inv, NEW p \in Proc, pc[p] \in InLock, NEW r, r.e \in Pvtblk, loc[p].new, FirstAttempt(p, r)
  PROVE  \E x : Outcome(p, r, x)
<1>0. /\ pc \in [Proc -> PC] /\ pvt \in [Proc -> Seq(Pvtblk)] /\ loc \in [Proc -> Local]
      /\ pvt[p] \in Seq(Pvtblk) /\ loc[p] \in Local
  BY ProcFacts DEF Inv, TypeOK
<1>1. CASE r.got /\ Obtained(p, r.e)
  <2>1. PICK e \in Pvtblk : e = r.e  OBVIOUS
  <2>2. PICK x : /\ Replaces(pvt'[p], pvt[p], loc[p].pos, x) /\ SameKey(x, e) /\ x.granted
                 /\ \/ pc'[p] = "idle"
                    \/ /\ pc'[p] = "lock" /\ loc'[p].pos = loc[p].pos + 1 /\ loc'[p].new = loc[p].new
    BY <1>1, <2>1, ObtainedOutcome
  <2>3. Outcome(p, r, x)  BY <1>1, <2>1, <2>2 DEF Outcome
  <2> QED  BY <2>3
<1>2. CASE ~r.got
  <2>1. /\ pvt' = [pvt EXCEPT ![p][loc[p].pos] = r.e]
        /\ loc' = [loc EXCEPT ![p].left = loc[p].pos - 1, ![p].new = FALSE]
        /\ pc' = [pc EXCEPT ![p] = "bckout"] \/ pc' = [pc EXCEPT ![p] = "wait"]
    BY <1>2 DEF FirstAttempt, Update, Goto
  <2>2. loc[p].pos \in 1 .. Len(pvt[p])  BY CurType
  <2>3. Replaces(pvt'[p], pvt[p], loc[p].pos, r.e)  BY <1>0, <2>1, <2>2 DEF Replaces
  <2>4. /\ loc'[p].pos = loc[p].pos /\ ~loc'[p].new /\ loc'[p].left = loc[p].pos - 1
        /\ pc'[p] \in {"bckout", "wait"}
    BY <1>0, <2>1 DEF Local
  <2>5. Outcome(p, r, r.e)  BY <1>2, <2>3, <2>4 DEF Outcome, SameKey
  <2> QED  BY <2>5
<1> QED  BY <1>1, <1>2 DEF FirstAttempt

LEMMA LaterOutcome ==
  ASSUME Inv, NEW p \in Proc, pc[p] \in InLock, NEW r, r.e \in Pvtblk, ~loc[p].new, Reattempt(p, r)
  PROVE  \E x : Outcome(p, r, x)
<1>0. /\ pc \in [Proc -> PC] /\ pvt \in [Proc -> Seq(Pvtblk)] /\ loc \in [Proc -> Local]
      /\ pvt[p] \in Seq(Pvtblk) /\ loc[p] \in Local
  BY ProcFacts DEF Inv, TypeOK
<1>1. pvt' = [pvt EXCEPT ![p][loc[p].pos] = r.e]  BY DEF Reattempt, Update
<1>2. loc[p].pos \in 1 .. Len(pvt[p])  BY CurType
<1>3. Replaces(pvt'[p], pvt[p], loc[p].pos, r.e) /\ SameKey(r.e, r.e)
  BY <1>0, <1>1, <1>2 DEF Replaces, SameKey
<1>4. \/ /\ r.got /\ loc[p].pos = 1 /\ pc' = [pc EXCEPT ![p] = "lock"]
         /\ loc' = [loc EXCEPT ![p].already = TRUE, ![p].new = TRUE]
      \/ r.got /\ pc' = [pc EXCEPT ![p] = "relinquish"] /\ loc' = loc
      \/ /\ ~r.got /\ (pc' = [pc EXCEPT ![p] = "checkown"] \/ pc' = [pc EXCEPT ![p] = "wait"])
         /\ loc' = loc
  BY DEF Reattempt, Goto
<1>5. CASE /\ r.got /\ loc[p].pos = 1 /\ pc' = [pc EXCEPT ![p] = "lock"]
           /\ loc' = [loc EXCEPT ![p].already = TRUE, ![p].new = TRUE]
  <2>1. loc'[p].pos = loc[p].pos /\ loc'[p].new /\ loc'[p].already /\ pc'[p] = "lock"
    BY <1>0, <1>5 DEF Local
  <2> QED  BY <1>3, <1>5, <2>1 DEF Outcome
<1>6. CASE r.got /\ pc' = [pc EXCEPT ![p] = "relinquish"] /\ loc' = loc
  <2>1. pc'[p] = "relinquish" /\ loc'[p] = loc[p]  BY <1>0, <1>6
  <2> QED  BY <1>3, <1>6, <2>1 DEF Outcome
<1>7. CASE /\ ~r.got /\ (pc' = [pc EXCEPT ![p] = "checkown"] \/ pc' = [pc EXCEPT ![p] = "wait"])
           /\ loc' = loc
  <2>1. pc'[p] \in {"checkown", "wait"} /\ loc'[p] = loc[p]  BY <1>0, <1>7
  <2> QED  BY <1>3, <1>7, <2>1 DEF Outcome
<1> QED  BY <1>4, <1>5, <1>6, <1>7

LEMMA ReplacesDistinct ==
  ASSUME NEW q, Distinct(q), NEW i, NEW x, NEW u, Replaces(u, q, i, x), x.name = q[i].name
  PROVE  Distinct(u)
<1>1. \A j \in DOMAIN q : u[j].name = q[j].name  BY DEF Replaces
<1> QED  BY <1>1 DEF Distinct, Replaces

LEMMA LockInFrame ==
  ASSUME NEW p \in Proc, alive \subseteq Proc, NEW m, Sound(m), Weaker(m, shr), Spares(m, shr, alive, {}),
         NEW r, NEW e, shr' = r.space,
         Refused(r, m, e, p) \/ FoundOwn(r, m, e, p) \/ Granted(r, m, e, p)
  PROVE  Frame(p)
<1>1. CASE Refused(r, m, e, p) \/ FoundOwn(r, m, e, p)
  <2>1. SameLocks(shr', m)  BY <1>1 DEF Refused, FoundOwn, SameLocks
  <2> QED  BY <2>1, NullAssumption DEF Frame, Weaker, Spares, SameLocks
<1>2. CASE Granted(r, m, e, p)
  <2>1. PICK d : d = r.e.nodptr  OBVIOUS
  <2>2. /\ d \in Blk /\ m.owner[d] = NoProc /\ m.owner \in [Blk -> ProcOrNone]
        /\ shr'.name = m.name /\ shr'.owner = [m.owner EXCEPT ![d] = p]
        /\ \A c \in Blk \ {d} : shr'.sequence[c] = m.sequence[c]
    BY <1>2, <2>1 DEF Granted, Clear, Sound, Space
  <2>3. shr'.owner[d] = p /\ \A c \in Blk \ {d} : shr'.owner[c] = m.owner[c]  BY <2>2
  <2> QED  BY <2>2, <2>3, NullAssumption DEF Frame, Weaker, Spares
<1> QED  BY <1>1, <1>2

LEMMA OutcomePass ==
  ASSUME NEW p \in Proc, NEW r, NEW x, Outcome(p, r, x), pc[p] \in Trying,
         pvt[p] \in Seq(Pvtblk), loc[p].pos \in 1 .. Len(pvt[p]), PassAt(pc[p], pvt[p], loc[p])
  PROVE  PassAt(pc'[p], pvt'[p], loc'[p])
<1>0. /\ DOMAIN pvt[p] = 1 .. Len(pvt[p]) /\ Len(pvt[p]) \in Nat
      /\ pvt'[p][loc[p].pos] = x
      /\ \A j \in 1 .. Len(pvt[p]) : j # loc[p].pos => pvt'[p][j] = pvt[p][j]
  BY DEF Outcome, Replaces
<1>1. ASSUME loc[p].new, NEW j \in 1 .. loc[p].pos - 1 PROVE pvt'[p][j].granted
  <2>1. pvt[p][j].granted /\ j \in 1 .. Len(pvt[p]) /\ j # loc[p].pos  BY <1>1 DEF PassAt
  <2> QED  BY <1>0, <2>1
<1>2. CASE pc'[p] = "idle"  BY <1>2 DEF PassAt, Trying, InLock
<1>3. CASE pc'[p] = "lock" /\ loc[p].new /\ x.granted /\ loc'[p].pos = loc[p].pos + 1
  <2>1. ASSUME NEW j \in 1 .. loc'[p].pos - 1 PROVE pvt'[p][j].granted
    <3>1. CASE j = loc[p].pos  BY <1>0, <1>3, <3>1
    <3>2. CASE j # loc[p].pos
      <4>1. j \in 1 .. loc[p].pos - 1  BY <1>3, <3>2
      <4> QED  BY <1>1, <1>3, <4>1
    <3> QED  BY <3>1, <3>2
  <2> QED  BY <1>3, <2>1 DEF PassAt, Trying
<1>4. CASE pc'[p] = "bckout" /\ loc[p].new /\ loc'[p].left = loc[p].pos - 1 /\ loc'[p].pos = loc[p].pos
           /\ ~loc'[p].new
  <2>1. loc'[p].pos - loc'[p].left = 1  BY <1>4
  <2> QED  BY <1>1, <1>4, <2>1 DEF PassAt, Trying
<1>5. CASE pc'[p] \in {"wait", "checkown", "relinquish"} /\ ~loc'[p].new
  BY <1>5 DEF PassAt, Trying
<1>6. CASE pc'[p] = "lock" /\ loc'[p].pos = 1
  <2>1. \A j \in 1 .. loc'[p].pos - 1 : FALSE  BY <1>6
  <2> QED  BY <1>6, <2>1 DEF PassAt, Trying
<1> QED  BY <1>2, <1>3, <1>4, <1>5, <1>6 DEF Outcome

LEMMA LockInHeld ==
  ASSUME HeldInv, TreeInv', NEW p \in Proc, pc[p] \in Trying, ~Keeping(pc[p], loc[p]),
         NEW s, Sound(s), OneOwnerPerBranch(s), Weaker(s, shr), Spares(s, shr, alive, {}),
         LockIn(p, s), UNCHANGED procvars
  PROVE  HeldInv'
<1>0. /\ pc[p] \in InLock /\ InCall(pc[p]) /\ Inv /\ TreeInv /\ shr \in Space /\ pvt[p] \in Seq(Pvtblk)
      /\ FitAt(p, shr, pc[p], pvt[p], loc[p], nclear) /\ Distinct(pvt[p]) /\ s \in Space
      /\ PassAt(pc[p], pvt[p], loc[p]) /\ nclear' = nclear
  BY FitFacts DEF Trying, InLock, InCall, Exiting, Ended, FitAt, Sound, procvars
<1>1. PICK r \in mlk_lock(s, Cur(p), p, loc[p].new, yield[p], alive) :
        shr' = r.space /\ IF loc[p].new THEN FirstAttempt(p, r) ELSE Reattempt(p, r)
  BY DEF LockIn
<1>2. Elsewhere(p) /\ pc'[p] \in {"idle", "lock", "bckout", "wait", "relinquish", "checkown"}
  BY <1>0, <1>1, LockInOrdinary
<1>3. PICK e \in Pvtblk : e = Cur(p) /\ e.name \in Name  BY <1>0, CurType DEF Pvtblk
<1>4. PICK i : i = loc[p].pos  OBVIOUS
<1>5. i \in 1 .. Len(pvt[p]) /\ i \in DOMAIN pvt[p] /\ e = pvt[p][i]
  BY <1>0, <1>3, <1>4, CurType DEF Cur
<1>6. p \in alive /\ alive \subseteq Proc /\ alive \cup {p} = alive /\ yield[p] \in YieldPid
  BY <1>0, FitFacts, ProcFacts DEF Inv, TypeOK
<1>7. r \in mlk_lock(s, e, p, loc[p].new, yield[p], alive)  BY <1>1, <1>3
<1>8. r.e \in Pvtblk  BY <1>0, <1>6, <1>7, LockType
<1>9. SameClaim(r.e, e)  BY <1>6, <1>7, LockFrame
<1>10. PICK m : /\ Sound(m) /\ Weaker(m, s) /\ Spares(m, s, alive, {})
                /\ Refused(r, m, e, p) \/ FoundOwn(r, m, e, p) \/ Granted(r, m, e, p)
  <2>1. \E m : /\ Sound(m) /\ Weaker(m, s) /\ Spares(m, s, alive \cup {p}, {})
               /\ Refused(r, m, e, p) \/ FoundOwn(r, m, e, p) \/ Granted(r, m, e, p)
    BY <1>6, <1>7, LockFrame
  <2> QED  BY <1>6, <2>1
<1>11. Weaker(m, shr) /\ Spares(m, shr, alive, {})  BY <1>10, WeakerTrans, SparesTrans
<1>12. Spares(m, shr, {p}, {})  BY <1>6, <1>11 DEF Spares
<1>13. PICK x : Outcome(p, r, x)
  BY <1>0, <1>1, <1>8, FirstOutcome, LaterOutcome
<1>14. Frame(p)  BY <1>1, <1>6, <1>10, <1>11, LockInFrame
<1>15. PassAt(pc'[p], pvt'[p], loc'[p])  BY <1>0, <1>4, <1>5, <1>13, OutcomePass
<1>16. Replaces(pvt'[p], pvt[p], i, x) /\ SameKey(x, r.e)  BY <1>4, <1>13 DEF Outcome
<1>17. Distinct(pvt'[p])
  <2>1. x.name = pvt[p][i].name  BY <1>5, <1>9, <1>16 DEF SameKey, SameClaim
  <2> QED  BY <1>0, <1>16, <2>1, ReplacesDistinct
<1>18. Carries(pvt[p], pvt[p], {})  BY ListSame
<1>19. ASSUME Undisturbed(nclear)
       PROVE  LeakAt(p, m, pc[p], pvt[p], loc[p]) /\ LeakAt(p, shr', pc'[p], pvt'[p], loc'[p])
  <2>1. LeakAt(p, shr, pc[p], pvt[p], loc[p])  BY <1>0, <1>19 DEF FitAt, InCall
  <2>2. LeakAt(p, m, pc[p], pvt[p], loc[p])  BY <1>11, <1>12, <1>18, <2>1, CarryLeak
  <2>3. r.got => x.granted \/ (i = loc'[p].pos /\ Keeping(pc'[p], loc'[p]))
    BY <1>4, <1>13 DEF Outcome, Keeping
  <2>4. /\ SameClaim(r.e, pvt[p][i]) /\ pvt[p][i].name \in Name
        /\ Refused(r, m, pvt[p][i], p) \/ FoundOwn(r, m, pvt[p][i], p) \/ Granted(r, m, pvt[p][i], p)
    BY <1>3, <1>5, <1>9, <1>10
  <2>5. PICK q : q = pvt[p]  OBVIOUS
  <2>6. LeakAt(p, r.space, pc'[p], pvt'[p], loc'[p])
    BY <1>0, <1>10, <1>16, <2>2, <2>3, <2>4, <2>5, LockLeak
  <2> QED  BY <1>1, <2>2, <2>6
<1>20. ASSUME nclear = 0 PROVE HeldAt(p, shr', pc'[p], pvt'[p], loc'[p])
  <2>1. HeldAt(p, shr, pc[p], pvt[p], loc[p])  BY <1>0, <1>20 DEF FitAt, InCall
  <2>2. HeldAt(p, m, pc[p], pvt[p], loc[p])
    <3>1. pc[p] \in InLock /\ ~loc[p].new => ~pvt[p][loc[p].pos].granted  BY <2>1 DEF HeldAt
    <3> QED  BY <1>0, <1>12, <1>18, <2>1, <3>1, CarryHeld
  <2>3. LeakAt(p, m, pc[p], pvt[p], loc[p])  BY <1>19, <1>20 DEF Undisturbed
  <2>4. ~r.got \/ ~loc[p].new => x.granted = pvt[p][i].granted
    BY <1>5, <1>9, <1>13 DEF Outcome, SameClaim
  <2>5. Keeping(pc'[p], loc'[p]) => r.got /\ loc'[p].pos = i
    <3>1. loc[p].pos + 1 # 1  BY <1>4, <1>5
    <3> QED  BY <1>4, <1>13, <3>1 DEF Outcome, Keeping
  <2>6. pc'[p] \in InLock /\ ~loc'[p].new => loc'[p].pos = i /\ (~r.got \/ ~loc[p].new)
    BY <1>4, <1>13 DEF Outcome, InLock
  <2>7. HeldAt(p, r.space, pc'[p], pvt'[p], loc'[p])
    BY <1>0, <1>3, <1>4, <1>5, <1>9, <1>10, <1>16, <2>2, <2>3, <2>4, <2>5, <2>6, LockHeld
  <2> QED  BY <1>1, <2>7
<1>21. pc'[p] # "nocrit"  BY <1>2
<1>22. FitAt(p, shr', pc'[p], pvt'[p], loc'[p], nclear)
  BY <1>15, <1>17, <1>19, <1>20, <1>21 DEF FitAt
<1> QED  BY <1>0, <1>2, <1>14, <1>22, HeldStep

LEMMA TryHeld ==
  ASSUME HeldInv, TreeInv', NEW p \in Proc, TryLock(p) \/ GcFill(p) \/ GcClean(p)
  PROVE  HeldInv'
<1>0. /\ Sound(shr) /\ OneOwnerPerBranch(shr) /\ Weaker(shr, shr) /\ Spares(shr, shr, alive, {})
      /\ pc \in [Proc -> PC] /\ loc \in [Proc -> Local] /\ loc[p] \in Local /\ TreeInv
  BY FitFacts DEF Inv, Exclusion, TypeOK, Weaker, Spares
<1>1. CASE TryLock(p)
  <2>1. pc[p] \in Trying /\ ~Keeping(pc[p], loc[p]) /\ LockIn(p, shr) /\ UNCHANGED procvars
    BY <1>1 DEF TryLock, Trying, Keeping, AlreadyLocked
  <2> QED  BY <1>0, <2>1, LockInHeld
<1>2. CASE GcFill(p)
  <2>1. pc[p] = "gcfill" /\ pc[p] \in Trying /\ ~Keeping(pc[p], loc[p]) /\ UNCHANGED procvars
    BY <1>2 DEF GcFill, Trying, Keeping
  <2>2. CASE LockIn(p, shr)  BY <1>0, <2>1, <2>2, LockInHeld
  <2>3. CASE /\ \E T \in SUBSET fill_pid_table(shr) : loc' = [loc EXCEPT ![p].tab = T]
             /\ Goto(p, "gccheck")
             /\ UNCHANGED <<shr, latch, pvt, lks, yield>>
    <3>1. pc'[p] \in Trying \ {"lock"} /\ \A r \in Proc \ {p} : pc'[r] = pc[r]
      BY <1>0, <2>3 DEF Goto, Trying
    <3>2. /\ \A r \in Proc \ {p} : loc'[r] = loc[r]
          /\ loc'[p].new = loc[p].new /\ loc'[p].pos = loc[p].pos
      BY <1>0, <2>3 DEF Local
    <3>3. UNCHANGED <<shr, pvt, alive, nclear>>  BY <2>1, <2>3 DEF procvars
    <3> QED  BY <2>1, <3>1, <3>2, <3>3, CollectHeld
  <2> QED  BY <1>2, <2>2, <2>3 DEF GcFill
<1>3. CASE GcClean(p)
  <2>1. PICK s : s = clean_pids(shr, loc[p].tab)  OBVIOUS
  <2>2. /\ pc[p] = "gcclean" /\ pc[p] \in Trying /\ ~Keeping(pc[p], loc[p])
        /\ UNCHANGED procvars /\ LockIn(p, s)
    BY <1>3, <2>1 DEF GcClean, Trying, Keeping
  <2>3. alive \subseteq Proc /\ loc[p].tab \cap alive = {}
    BY <1>0, <2>2 DEF TreeInv, LivesAt, Inv, TypeOK
  <2>4. Sound(s) /\ Weaker(s, shr) /\ Spares(s, shr, alive, {})  BY <1>0, <2>1, <2>3, CleanFrame
  <2>5. OneOwnerPerBranch(s)
    <3>1. s \in Space /\ shr \in Space  BY <1>0, <2>4 DEF Sound
    <3> QED  BY <1>0, <2>4, <3>1, WeakerKeeps
  <2> QED  BY <2>2, <2>4, <2>5, LockInHeld
<1> QED  BY <1>1, <1>2, <1>3

LEMMA SkipHeld ==
  ASSUME HeldInv, TreeInv', NEW p \in Proc, SkipLocked(p)
  PROVE  HeldInv'
<1>0. /\ pc[p] = "lock" /\ pc[p] \in InLock /\ AlreadyLocked(p) /\ Obtained(p, Cur(p)) /\ shr' = shr
      /\ nclear' = nclear /\ Inv /\ TreeInv /\ pvt[p] \in Seq(Pvtblk) /\ Distinct(pvt[p])
      /\ FitAt(p, shr, pc[p], pvt[p], loc[p], nclear)
  BY FitFacts DEF SkipLocked, procvars, InLock
<1>1. loc[p].pos = 1 /\ loc[p].new /\ Keeping(pc[p], loc[p]) /\ InCall(pc[p])
  BY <1>0 DEF AlreadyLocked, Keeping, InCall, Exiting, Ended
<1>2. Elsewhere(p) /\ pc'[p] \in {"idle", "lock"}  BY <1>0, ObtainedOrdinary
<1>3. PICK e \in Pvtblk : e = Cur(p) /\ e = pvt[p][1]  BY <1>0, <1>1, CurType DEF Cur
<1>4. PICK x : /\ Replaces(pvt'[p], pvt[p], loc[p].pos, x) /\ SameKey(x, e) /\ x.granted
               /\ \/ pc'[p] = "idle"
                  \/ pc'[p] = "lock" /\ loc'[p].pos = loc[p].pos + 1 /\ loc'[p].new = loc[p].new
  <2>1. Obtained(p, e)  BY <1>0, <1>3
  <2> QED  BY <1>0, <2>1, ObtainedOutcome
<1>5. /\ Replaces(pvt'[p], pvt[p], 1, x) /\ SameKey(x, pvt[p][1])
      /\ pc'[p] = "idle" \/ (pc'[p] = "lock" /\ loc'[p].pos = 2 /\ loc'[p].new)
  <2>1. Replaces(pvt'[p], pvt[p], 1, x)  BY <1>1, <1>4, Zenon
  <2>2. SameKey(x, pvt[p][1])  BY <1>3, <1>4
  <2>3. loc'[p].new = loc[p].new => loc'[p].new  BY <1>1, Zenon
  <2>4. loc'[p].pos = loc[p].pos + 1 => loc'[p].pos = 2  BY <1>1
  <2> QED  BY <1>4, <2>1, <2>2, <2>3, <2>4
<1>6. Distinct(pvt'[p])  BY <1>0, <1>5, ReplacesDistinct DEF SameKey
<1>7. PassAt(pc'[p], pvt'[p], loc'[p]) /\ ~Keeping(pc'[p], loc'[p])
  <2>1. CASE pc'[p] = "idle"  BY <2>1 DEF PassAt, Keeping, Trying, InLock
  <2>2. CASE pc'[p] = "lock" /\ loc'[p].pos = 2 /\ loc'[p].new
    <3>1. pvt'[p][1].granted  BY <1>4, <1>5 DEF Replaces
    <3>2. \A j \in 1 .. loc'[p].pos - 1 : j = 1  BY <2>2
    <3> QED  BY <2>2, <3>1, <3>2 DEF PassAt, Keeping, Trying, InLock
  <2> QED  BY <1>5, <2>1, <2>2
<1>8. ASSUME Undisturbed(nclear) PROVE LeakAt(p, shr', pc'[p], pvt'[p], loc'[p])
  <2>1. LeakAt(p, shr, pc[p], pvt[p], loc[p])  BY <1>0, <1>1, <1>8 DEF FitAt, InCall
  <2> SUFFICES ASSUME NEW b \in Blk, shr.owner[b] = p
               PROVE  \E j \in DOMAIN pvt'[p] : /\ pvt'[p][j].nodptr = b /\ Holds(shr, pvt'[p][j], p)
                                                /\ pvt'[p][j].granted
    BY <1>0 DEF LeakAt
  <2>2. PICK j \in DOMAIN pvt[p] : /\ pvt[p][j].nodptr = b /\ Holds(shr, pvt[p][j], p)
                                   /\ pvt[p][j].granted \/ j = 1
    BY <1>1, <2>1 DEF LeakAt
  <2>3. CASE j # 1  BY <1>5, <2>2, <2>3 DEF Replaces
  <2>4. CASE j = 1
    <3>1. pvt'[p][1] = x /\ 1 \in DOMAIN pvt'[p]  BY <1>5 DEF Replaces
    <3>2. x.nodptr = b /\ Holds(shr, x, p)  BY <1>5, <2>2, <2>4 DEF SameKey, Holds, OwnsNode
    <3> QED  BY <1>4, <3>1, <3>2
  <2> QED  BY <2>3, <2>4
<1>9. ASSUME nclear = 0 PROVE HeldAt(p, shr', pc'[p], pvt'[p], loc'[p])
  <2>1. HeldAt(p, shr, pc[p], pvt[p], loc[p])  BY <1>0, <1>1, <1>9 DEF FitAt, InCall
  <2>2. Holds(shr, x, p)  BY <1>1, <1>5, <2>1 DEF HeldAt, SameKey, Holds, OwnsNode
  <2>3. \A j \in DOMAIN pvt'[p] : pvt'[p][j].granted => Holds(shr, pvt'[p][j], p)
    BY <1>5, <2>1, <2>2 DEF HeldAt, Replaces
  <2> QED  BY <1>0, <1>5, <1>7, <2>3 DEF HeldAt, InLock
<1>10. Frame(p)  BY <1>0, QuietSpares
<1>11. FitAt(p, shr', pc'[p], pvt'[p], loc'[p], nclear)
  BY <1>2, <1>6, <1>7, <1>8, <1>9 DEF FitAt
<1> QED  BY <1>0, <1>2, <1>10, <1>11, HeldStep

-----------------------------------------------------------------------------
(* Exit, death and LKE *)

LEMMA DeathHeld ==
  ASSUME HeldInv, TreeInv', NEW p \in Proc,
         BckoutZallocate(p) \/ ExitDone(p) \/ Kill(p) \/ Exit(p) \/ ExitZdeallocate(p)
  PROVE  HeldInv'
<1>0. /\ pc \in [Proc -> PC] /\ pvt \in [Proc -> Seq(Pvtblk)] /\ loc \in [Proc -> Local]
      /\ Distinct(pvt[p])
  BY FitFacts DEF Inv, TypeOK
<1>1. /\ UNCHANGED <<shr, nclear>>
      /\ \E l \in Ended \cup {"exit", "exitzd"} : pc' = [pc EXCEPT ![p] = l]
      /\ pvt' = pvt \/ pvt' = [pvt EXCEPT ![p] = <<>>]
      /\ loc' = loc \/ \E x : loc' = [loc EXCEPT ![p] = x]
  <2>1. CASE BckoutZallocate(p)  BY <2>1 DEF BckoutZallocate, Goto, Ended
  <2>2. CASE ExitDone(p)  BY <2>2 DEF ExitDone, Vanish, Goto, Ended
  <2>3. CASE Kill(p)  BY <2>3 DEF Kill, Vanish, Goto, Ended
  <2>4. CASE Exit(p)  BY <2>4 DEF Exit, Goto, procvars
  <2>5. CASE ExitZdeallocate(p)  BY <2>5 DEF ExitZdeallocate, Goto, procvars
  <2> QED  BY <2>1, <2>2, <2>3, <2>4, <2>5
<1>2. Elsewhere(p) /\ pc'[p] \in Ended \cup {"exit", "exitzd"}  BY <1>0, <1>1 DEF Elsewhere
<1>3. Distinct(pvt'[p])
  <2>1. Distinct(<<>>)  BY DEF Distinct
  <2> QED  BY <1>0, <1>1, <2>1
<1>4. pc'[p] \in Exiting \cup Ended /\ pc'[p] # "nocrit"  BY <1>2 DEF Exiting, Ended
<1>5. Frame(p) /\ nclear' = nclear  BY <1>1, QuietSpares
<1> QED  BY <1>2, <1>3, <1>4, <1>5, GoneStep

LEMMA DropDistinct ==
  ASSUME HeldInv, NEW p \in Proc, pc[p] \in Releasing, loc[p].left > 0, DropCur(p)
  PROVE  Distinct(pvt'[p])
<1>0. pvt \in [Proc -> Seq(Pvtblk)] /\ pvt[p] \in Seq(Pvtblk) /\ Distinct(pvt[p])
  BY FitFacts DEF Inv, TypeOK
<1>1. PICK c : c = loc[p].pos  OBVIOUS
<1>2. c \in 1 .. Len(pvt[p])  BY <1>1, WalkFacts, FitFacts
<1>3. PICK u : u = RemoveAt(pvt[p], c)  OBVIOUS
<1>4. pvt'[p] = u  BY <1>0, <1>1, <1>3 DEF DropCur
<1> QED  BY <1>0, <1>2, <1>3, <1>4, ListDrop

LEMMA KeepDistinct ==
  ASSUME HeldInv, NEW p \in Proc, pc[p] \in Releasing, loc[p].left > 0, NEW x, KeepCur(p, x),
         x.name = Cur(p).name
  PROVE  Distinct(pvt'[p])
<1>0. pvt \in [Proc -> Seq(Pvtblk)] /\ pvt[p] \in Seq(Pvtblk) /\ Distinct(pvt[p])
  BY FitFacts DEF Inv, TypeOK
<1>1. PICK c : c = loc[p].pos  OBVIOUS
<1>2. c \in 1 .. Len(pvt[p])  BY <1>1, WalkFacts, FitFacts
<1>3. Replaces(pvt'[p], pvt[p], c, x)  BY <1>0, <1>1, <1>2 DEF KeepCur, Update, Replaces
<1> QED  BY <1>0, <1>1, <1>3, ReplacesDistinct DEF Cur

LEMMA ExitStepHeld ==
  ASSUME HeldInv, TreeInv', NEW p \in Proc, ExitStep(p)
  PROVE  HeldInv'
<1>0. /\ pc \in [Proc -> PC] /\ pvt \in [Proc -> Seq(Pvtblk)] /\ loc \in [Proc -> Local]
      /\ Distinct(pvt[p]) /\ loc[p] \in Local
  BY FitFacts DEF Inv, TypeOK
<1>1. /\ pc[p] = "exit" /\ pc[p] \in Releasing /\ loc[p].left > 0 /\ UNCHANGED <<shr, nclear>>
      /\ \/ DropCur(p) /\ pc' = pc
         \/ KeepCur(p, [Cur(p) EXCEPT !.level = 0]) /\ pc' = pc
         \/ /\ loc' = [loc EXCEPT ![p].tmp = shr.lock_sequence, ![p].stored = {}]
            /\ pc' = [pc EXCEPT ![p] = "nocrit"] /\ pvt' = pvt
  BY DEF ExitStep, procvars, Goto, Releasing, Exiting
<1>2. Elsewhere(p) /\ pc'[p] \in {"exit", "nocrit"}
  BY <1>0, <1>1 DEF DropCur, KeepCur, Update, Elsewhere
<1>3. Distinct(pvt'[p])
  <2>1. Cur(p) \in Pvtblk  BY <1>1, WalkFacts, FitFacts
  <2>2. [Cur(p) EXCEPT !.level = 0].name = Cur(p).name  BY <2>1 DEF Pvtblk
  <2> QED  BY <1>0, <1>1, <2>2, DropDistinct, KeepDistinct
<1>4. pc'[p] = "nocrit" => "owner" \notin loc'[p].stored
  <2>1. CASE pc'[p] = "nocrit"
    <3>1. loc' = [loc EXCEPT ![p].tmp = shr.lock_sequence, ![p].stored = {}]
      BY <1>0, <1>1, <2>1
    <3>2. loc'[p].stored = {}  BY <1>0, <3>1 DEF Local
    <3> QED  BY <3>2
  <2> QED  BY <2>1
<1>5. pc'[p] \in Exiting \cup Ended  BY <1>2 DEF Exiting
<1>6. Frame(p) /\ nclear' = nclear  BY <1>1, QuietSpares
<1> QED  BY <1>2, <1>3, <1>4, <1>5, <1>6, GoneStep

LEMMA ExitZdHeld ==
  ASSUME HeldInv, TreeInv', NEW p \in Proc, pc[p] = "exitzd", op_zdealloc2(p)
  PROVE  HeldInv'
<1>0. /\ pvt \in [Proc -> Seq(Pvtblk)] /\ loc \in [Proc -> Local] /\ Sound(shr) /\ alive \subseteq Proc
  BY FitFacts DEF Inv, TypeOK
<1>1. /\ pc[p] \in Releasing /\ loc[p].left > 0 /\ UNCHANGED <<pc, nclear>>
      /\ DropCur(p) \/ KeepCur(p, [Cur(p) EXCEPT !.zalloc = FALSE])
      /\ shr' = shr \/ shr' = mlk_unlock(shr, Cur(p), p, alive)
  BY DEF op_zdealloc2, procvars, Releasing, Exiting
<1>2. Cur(p) \in Pvtblk /\ Cur(p).nodptr \in Blk \cup {NoBlk}  BY <1>1, WalkFacts, FitFacts
<1>3. Elsewhere(p)  BY <1>0, <1>1 DEF DropCur, KeepCur, Update, Elsewhere
<1>4. Distinct(pvt'[p])
  <2>1. [Cur(p) EXCEPT !.zalloc = FALSE].name = Cur(p).name  BY <1>2 DEF Pvtblk
  <2> QED  BY <1>1, <2>1, DropDistinct, KeepDistinct
<1>5. Frame(p)
  <2>1. CASE shr' = shr  BY <2>1, QuietSpares
  <2>2. CASE shr' = mlk_unlock(shr, Cur(p), p, alive)
    <3>1. Weaker(shr', shr) /\ Spares(shr', shr, Proc \ {p}, {})  BY <1>0, <1>2, <2>2, UnlockFrame
    <3>2. Spares(shr', shr, alive \ {p}, {})  BY <1>0, <3>1 DEF Spares
    <3> QED  BY <3>1, <3>2, FrameWeaker
  <2> QED  BY <1>1, <2>1, <2>2
<1>6. pc'[p] \in Exiting \cup Ended /\ pc'[p] # "nocrit"  BY <1>1 DEF Exiting
<1> QED  BY <1>1, <1>3, <1>4, <1>5, <1>6, GoneStep

(* The stores of mlk_nocrit_unlock go to a node of its caller's, unless LKE   *)
(* has been used; the one to the owner comes last.                           *)
LEMMA StoreHeld ==
  ASSUME HeldInv, TreeInv', "reorder" \notin Faults, NEW p \in Proc,
         StoreCounter(p) \/ StoreSequence(p) \/ StoreOwner(p)
  PROVE  HeldInv'
<1>0. /\ pc \in [Proc -> PC] /\ loc[p] \in Local /\ shr \in Space /\ Inv /\ TreeInv /\ Distinct(pvt[p])
      /\ FitAt(p, shr, pc[p], pvt[p], loc[p], nclear)
  BY FitFacts DEF Inv, TypeOK
<1>1. PICK what \in {"counter", "sequence", "owner"} :
        /\ Stored(p, what)
        /\ what = "owner" => "counter" \in loc[p].stored /\ "sequence" \in loc[p].stored
  BY DEF StoreCounter, StoreSequence, StoreOwner
<1>2. pc[p] = "nocrit" /\ UNCHANGED procvars /\ nclear' = nclear
  BY DEF StoreCounter, StoreSequence, StoreOwner, procvars
<1>3. /\ Ordinary(p) /\ pc'[p] \in {"exit", "nocrit"}
      /\ pc'[p] = "nocrit" => /\ pvt'[p] = pvt[p] /\ loc'[p].stored = loc[p].stored \cup {what}
  BY <1>0, <1>1, <1>2, StoredOrdinary
<1>4. Elsewhere(p)  BY <1>3 DEF Ordinary
<1>5. Distinct(pvt'[p])
  <2>1. CASE DropCur(p)
    <3>1. pc[p] \in Releasing /\ loc[p].left > 0
      BY <1>0, <1>2, ProcFacts DEF Listed, Releasing, Exiting
    <3> QED  BY <2>1, <3>1, DropDistinct
  <2>2. CASE pvt' = pvt  BY <1>0, <2>2
  <2> QED  BY <1>1, <2>1, <2>2 DEF Stored
<1>6. pc'[p] = "nocrit" => "owner" \notin loc'[p].stored
  <2>1. ASSUME what = "owner" PROVE pc'[p] = "exit"
    <3>1. loc[p].stored \cup {what} = {"counter", "sequence", "owner"}
      BY <1>0, <1>1, <2>1 DEF Local
    <3>2. pc' = [pc EXCEPT ![p] = "exit"]  BY <1>1, <3>1 DEF Stored, Goto
    <3> QED  BY <1>0, <3>2
  <2>2. "owner" \notin loc[p].stored  BY <1>0, <1>2 DEF FitAt
  <2> QED  BY <1>3, <2>1, <2>2
<1>7. PICK d \in Blk : d = pvt[p][loc[p].pos].nodptr  BY <1>0, <1>2, NocritNode
<1>8. ASSUME Undisturbed(nclear) PROVE Frame(p)
  <2>1. nclear = 0  BY <1>0, <1>2, <1>8 DEF TreeInv, LivesAt, Exiting, Undisturbed
  <2>2. shr.owner[d] = p  BY <1>0, <1>2, <1>7, <2>1 DEF TreeInv, StoringAt, FitAt
  <2>3. /\ shr'.name = shr.name /\ \A b \in Blk \ {d} : shr'.owner[b] = shr.owner[b]
        /\ shr'.owner[d] \in {p, NoProc} /\ \A b \in Blk \ {d} : shr'.sequence[b] = shr.sequence[b]
    <3>1. CASE StoreCounter(p)
      <4>1. shr' = [shr EXCEPT !.lock_sequence = (loc[p].tmp + 1) % SeqMod]  BY <3>1 DEF StoreCounter
      <4> QED  BY <1>0, <2>2, <4>1 DEF Space
    <3>2. CASE StoreSequence(p)
      <4>1. shr' = [shr EXCEPT !.sequence[d] = loc[p].tmp]  BY <1>7, <3>2 DEF StoreSequence, Cur
      <4> QED  BY <1>0, <2>2, <4>1 DEF Space
    <3>3. CASE StoreOwner(p)
      <4>1. shr' = ClearOwner(shr, {d})  BY <1>7, <3>3 DEF StoreOwner, Cur
      <4>2. /\ shr'.name = shr.name /\ shr'.sequence = shr.sequence
            /\ \A b \in Blk : shr'.owner[b] = IF b \in {d} THEN NoProc ELSE shr.owner[b]
        BY <1>0, <4>1, ClearOwnerType
      <4> QED  BY <4>2
    <3> QED  BY <3>1, <3>2, <3>3
  <2> QED  BY <2>2, <2>3, NullAssumption DEF Frame, Spares
<1>9. pc'[p] \in Exiting \cup Ended  BY <1>3 DEF Exiting
<1> QED  BY <1>2, <1>4, <1>5, <1>6, <1>8, <1>9, GoneStep

(* LKE CLEAR takes a lock away behind the back of its owner: the private      *)
(* block stays granted, so that only LeakAt is left of what the list says.   *)
LEMMA LkeClearHeld ==
  ASSUME HeldInv, TreeInv', NEW b \in Blk, LkeClear(b)
  PROVE  HeldInv'
<1>1. /\ b \in InUse(shr) /\ shr.owner[b] # NoProc /\ shr' \in lke_cleartree(shr, b, alive)
      /\ nclear \in Nat /\ nclear' = nclear + 1 /\ UNCHANGED <<alive, pc, pvt, loc>>
      /\ Sound(shr) /\ shr \in Space
  BY DEF LkeClear, HeldInv, TreeInv, Inv, TypeOK
<1>2. Spares(shr', shr, Proc, {b}) /\ shr'.owner[b] = NoProc /\ Weaker(shr', shr)
  BY <1>1, LkeCleartreeFrame, LkeCleartreeType
<1>3. nclear' # 0  BY <1>1
<1> SUFFICES ASSUME NEW p \in Proc PROVE FitAt(p, shr', pc[p], pvt[p], loc[p], nclear')
  BY <1>1 DEF HeldInv
<1>4. FitAt(p, shr, pc[p], pvt[p], loc[p], nclear)  BY DEF HeldInv
<1>5. ASSUME pc[p] \notin Exiting \cup Ended, Undisturbed(nclear')
      PROVE  LeakAt(p, shr', pc[p], pvt[p], loc[p])
  <2>1. LeakAt(p, shr, pc[p], pvt[p], loc[p])  BY <1>3, <1>4, <1>5 DEF FitAt, Undisturbed
  <2> SUFFICES ASSUME NEW c \in Blk, shr'.owner[c] = p
               PROVE  \E i \in DOMAIN pvt[p] :
                        /\ pvt[p][i].nodptr = c /\ Holds(shr', pvt[p][i], p)
                        /\ pvt[p][i].granted \/ (i = loc[p].pos /\ Keeping(pc[p], loc[p]))
    BY DEF LeakAt
  <2>2. c # b /\ shr.owner[c] = p  BY <1>2, NullAssumption DEF Weaker
  <2>3. PICK i \in DOMAIN pvt[p] :
                        /\ pvt[p][i].nodptr = c /\ Holds(shr, pvt[p][i], p)
                        /\ pvt[p][i].granted \/ (i = loc[p].pos /\ Keeping(pc[p], loc[p]))
    BY <2>1, <2>2 DEF LeakAt
  <2>4. Holds(shr', pvt[p][i], p)  BY <1>2, <2>2, <2>3, HoldsSpared DEF SameKey
  <2> QED  BY <2>3, <2>4
<1> QED  BY <1>3, <1>4, <1>5 DEF FitAt

-----------------------------------------------------------------------------
(* The theorems *)

LEMMA InitHeld == Init => HeldInv
<1> SUFFICES ASSUME Init PROVE HeldInv
  OBVIOUS
<1>1. TreeInv  BY InitTree
<1> SUFFICES ASSUME NEW p \in Proc PROVE FitAt(p, shr, pc[p], pvt[p], loc[p], nclear)
  BY <1>1 DEF HeldInv
<1>2. pc[p] = "idle" /\ pvt[p] = <<>>  BY DEF Init
<1>3. shr = mlk_shr_init  BY DEF Init
<1>4. \A b \in Blk : shr.owner[b] = NoProc  BY <1>3 DEF mlk_shr_init
<1>5. Distinct(pvt[p]) /\ PassAt(pc[p], pvt[p], loc[p])
  BY <1>2 DEF Distinct, PassAt, Trying, InLock
<1>6. LeakAt(p, shr, pc[p], pvt[p], loc[p])  BY <1>4, NullAssumption DEF LeakAt
<1>7. HeldAt(p, shr, pc[p], pvt[p], loc[p])  BY <1>2 DEF HeldAt, Keeping, InLock
<1> QED  BY <1>2, <1>5, <1>6, <1>7 DEF FitAt

LEMMA StepHeld ==
  ASSUME "reorder" \notin Faults, HeldInv, RepeatsFit, [Next]_vars
  PROVE  HeldInv'
<1>0. TreeInv'  BY StepPromised DEF HeldInv
<1>1. CASE UNCHANGED vars
  <2>1. UNCHANGED <<shr, pc, pvt, loc, nclear>>  BY <1>1 DEF vars
  <2> QED  BY <1>0, <2>1 DEF HeldInv
<1>2. ASSUME NEW p \in Proc, NEW c \in Commands[p], Begin(p, c) PROVE HeldInv'
  BY <1>0, <1>2, BeginHeld
<1>3. ASSUME NEW p \in Proc, Run(p) PROVE HeldInv'
  <2>1. CASE OpLkname(p) \/ StartLock(p) \/ StartRelease(p)
    BY <1>0, <2>1, OpLknameHeld, NamedHeld
  <2>2. CASE TryLock(p) \/ GcFill(p) \/ GcClean(p)  BY <1>0, <2>2, TryHeld
  <2>3. CASE SkipLocked(p) \/ mlk_bckout(p)  BY <1>0, <2>3, SkipHeld, BckoutHeld
  <2>4. CASE TimerPop(p) \/ OutOfTime(p) \/ Poll(p) \/ CheckOwn(p)  BY <1>0, <2>4, WaitHeld
  <2>5. CASE Relinquish(p) \/ Unpend(p)  BY <1>0, <2>5, RelinquishHeld, UnpendHeld
  <2>6. CASE NeedGc(p) \/ GetGcLatch(p) \/ SalvageGcLatch(p) \/ check_pids(p)
    BY <1>0, <2>6, LatchHeld
  <2>7. CASE PruneStep(p) \/ UnlockStep(p) \/ op_decrlock(p) \/ op_zdealloc2(p)
    <3>1. pc[p] \in Walking \/ (pc[p] = "exitzd" /\ op_zdealloc2(p))
      BY <2>7 DEF PruneStep, UnlockStep, op_decrlock, op_zdealloc2, Walking
    <3> QED  BY <1>0, <2>7, <3>1, WalkHeld, ExitZdHeld
  <2>8. CASE EndRelease(p)  BY <1>0, <2>8, EndReleaseHeld
  <2>9. CASE ExitStep(p)  BY <1>0, <2>9, ExitStepHeld
  <2>10. CASE StoreCounter(p) \/ StoreSequence(p) \/ StoreOwner(p)  BY <1>0, <2>10, StoreHeld
  <2>11. CASE BckoutZallocate(p) \/ ExitZdeallocate(p) \/ ExitDone(p)  BY <1>0, <2>11, DeathHeld
  <2> QED
    BY <1>3, <2>1, <2>2, <2>3, <2>4, <2>5, <2>6, <2>7, <2>8, <2>9, <2>10, <2>11 DEF Run
<1>4. ASSUME NEW p \in Proc, ArgError(p) \/ Interrupt(p) \/ Exit(p) \/ Kill(p) PROVE HeldInv'
  BY <1>0, <1>4, NamedHeld, WaitHeld, DeathHeld
<1>5. ASSUME NEW b \in Blk, LkeClear(b) PROVE HeldInv'
  BY <1>0, <1>5, LkeClearHeld
<1> QED  BY <1>1, <1>2, <1>3, <1>4, <1>5 DEF Next

LEMMA RunningInCall ==
  ASSUME HeldInv, NEW p \in Proc, Running(p)
  PROVE  pc[p] \notin Exiting \cup Ended
BY DEF HeldInv, TreeInv, LivesAt, Running

(* As long as LKE CLEAR has not been used, every private block that a running *)
(* process believes granted points to a node of its name that the process     *)
(* owns, under the sequence number mlk_unlock will ask for.  The hypothesis   *)
(* excludes processors on which the stores of mlk_nocrit_unlock become visible *)
(* out of order: there the code is wrong.  The other hypothesis, here and in   *)
(* the theorems below: no command names a lock 256 times.                      *)
THEOREM GrantsAreOwned ==
  ASSUME "reorder" \notin Faults
  PROVE  Spec /\ []RepeatsFit => []HeldIsOwned
<1>1. HeldInv => HeldIsOwned
  <2> SUFFICES ASSUME HeldInv, nclear = 0, NEW p \in Proc, Running(p),
                      NEW i \in DOMAIN pvt[p], pvt[p][i].granted
               PROVE  OwnsNode(shr, pvt[p][i], p) /\ shr.name[pvt[p][i].nodptr] = pvt[p][i].name
    BY DEF HeldIsOwned
  <2>1. HeldAt(p, shr, pc[p], pvt[p], loc[p])  BY RunningInCall DEF HeldInv, FitAt
  <2> QED  BY <2>1 DEF HeldAt, Holds
<1>2. Init => HeldInv  BY InitHeld
<1>3. HeldInv /\ RepeatsFit /\ [Next]_vars => HeldInv'  BY StepHeld
<1> QED  BY <1>1, <1>2, <1>3, PTL DEF Spec

(* No lock leaks: every node a running process owns has a private block       *)
(* through which the process will release it.  LKE CLEAR alone does no harm,   *)
(* but an exiting process that tested its ownership before the operator       *)
(* cleared the lock stores into a node that has a new owner by then.          *)
THEOREM NoLockLeaks ==
  ASSUME "reorder" \notin Faults, MaxClears = 0 \/ Faults \cap {"exit", "end"} = {}
  PROVE  Spec /\ []RepeatsFit => []OwnedIsHeld
<1>1. HeldInv => OwnedIsHeld
  <2> SUFFICES ASSUME HeldInv, NEW b \in InUse(shr), Running(shr.owner[b]), NEW p, p = shr.owner[b]
               PROVE  \E i \in DOMAIN pvt[p] :
                        /\ pvt[p][i].name = shr.name[b]
                        /\ pvt[p][i].nodptr = b /\ OwnsNode(shr, pvt[p][i], p)
                        /\ pvt[p][i].granted \/ i = loc[p].pos
    BY DEF OwnedIsHeld
  <2>1. b \in Blk /\ p \in Proc
    BY DEF Running, InUse, HeldInv, TreeInv, Inv, TypeOK
  <2>2. Undisturbed(nclear)
    <3>1. nclear \in Nat /\ nclear <= MaxClears  BY DEF HeldInv, TreeInv, Inv, TypeOK
    <3> QED  BY <3>1 DEF Undisturbed
  <2>3. LeakAt(p, shr, pc[p], pvt[p], loc[p])
    BY <2>1, <2>2, RunningInCall DEF HeldInv, FitAt
  <2>4. PICK i \in DOMAIN pvt[p] : /\ pvt[p][i].nodptr = b /\ Holds(shr, pvt[p][i], p)
                                   /\ pvt[p][i].granted \/ i = loc[p].pos
    BY <2>1, <2>3 DEF LeakAt
  <2> QED  BY <2>4 DEF Holds
<1>2. Init => HeldInv  BY InitHeld
<1>3. HeldInv /\ RepeatsFit /\ [Next]_vars => HeldInv'  BY StepHeld
<1> QED  BY <1>1, <1>2, <1>3, PTL DEF Spec

-----------------------------------------------------------------------------
(* What a command has done so far *)

(* The locks obtained in this pass over the list, and not yet backed out of. *)
Fresh(l, m) ==
  IF l \in Trying /\ m.new THEN 1 .. m.pos - 1
  ELSE IF l = "bckout" THEN m.pos - m.left .. m.pos - 1 ELSE {}

(* LOCK has released everything but what is ZALLOCATEd before it enters its   *)
(* names, and has nothing else in its hand when it waits or gives up.         *)
ZallocAt(l, q, m) ==
  /\ m.op = "LOCK" /\ l \in InLock \cup {"name", "prune"} =>
       \A i \in DOMAIN q \ Fresh(l, m) : q[i].granted => q[i].zalloc
  /\ l = "unlock" => m.pos + m.left = Len(q) + 1 /\ \A i \in 1 .. m.pos - 1 : q[i].zalloc

(* The first lks_this_cmd blocks are those of the arguments. *)
NamesAt(l, q, k, m) ==
  /\ l = "name" => /\ \A i \in DOMAIN q : q[i].trans => i <= k
                   /\ \A j \in 1 .. m.pos - 1 : \E i \in 1 .. k : q[i].name = m.args[j]
  /\ InCall(l) /\ l # "name" => \A i \in DOMAIN q : ~q[i].trans
  /\ l \in InLock => \A j \in DOMAIN m.args : \E i \in 1 .. k : q[i].name = m.args[j]

CmdAt(l, q, k, m) == ("argerror" \notin Faults => NamesAt(l, q, k, m)) /\ ZallocAt(l, q, m)

CmdInv == \A p \in Proc : CmdAt(pc[p], pvt[p], lks[p], loc[p])

Alone(p) == Elsewhere(p) /\ \A r \in Proc \ {p} : lks'[r] = lks[r]

LEMMA CmdStep ==
  ASSUME CmdInv, NEW p \in Proc, Alone(p), CmdAt(pc'[p], pvt'[p], lks'[p], loc'[p])
  PROVE  CmdInv'
<1> SUFFICES ASSUME NEW r \in Proc PROVE CmdAt(pc'[r], pvt'[r], lks'[r], loc'[r])
  BY DEF CmdInv
<1>1. CASE r = p  BY <1>1
<1>2. CASE r # p
  <2>1. CmdAt(pc[r], pvt[r], lks[r], loc[r])  BY DEF CmdInv
  <2>2. pc'[r] = pc[r] /\ pvt'[r] = pvt[r] /\ lks'[r] = lks[r] /\ loc'[r] = loc[r]
    BY <1>2 DEF Alone, Elsewhere
  <2> QED  BY <2>1, <2>2
<1> QED  BY <1>1, <1>2

LEMMA CmdFacts ==
  ASSUME Inv, NEW p \in Proc
  PROVE  /\ pc \in [Proc -> PC] /\ pvt \in [Proc -> Seq(Pvtblk)] /\ loc \in [Proc -> Local]
         /\ lks \in [Proc -> Nat] /\ pvt[p] \in Seq(Pvtblk) /\ loc[p] \in Local /\ lks[p] \in Nat
         /\ Len(pvt[p]) \in Nat /\ DOMAIN pvt[p] = 1 .. Len(pvt[p])
         /\ \A i \in DOMAIN pvt[p] : pvt[p][i] \in Pvtblk
         /\ Listed(pc[p], pvt[p], lks[p], loc[p])
<1>1. pvt[p] \in Seq(Pvtblk)  BY ProcFacts
<1>2. Len(pvt[p]) \in Nat /\ DOMAIN pvt[p] = 1 .. Len(pvt[p])  BY <1>1, LenProperties
<1>3. \A i \in DOMAIN pvt[p] : pvt[p][i] \in Pvtblk  BY <1>1, <1>2, ElementOfSeq
<1> QED  BY <1>1, <1>2, <1>3, ProcFacts DEF Inv, TypeOK

(* The process is on its way out, or gone. *)
LEMMA GoneCmd ==
  ASSUME NEW l \in Exiting \cup Ended, NEW q, NEW k, NEW m
  PROVE  CmdAt(l, q, k, m)
<1>1. l \notin InLock \cup {"name", "prune", "unlock"} /\ ~InCall(l)
  BY DEF Exiting, Ended, InLock, InCall
<1> QED  BY <1>1 DEF CmdAt, NamesAt, ZallocAt

(* Between commands, and in the walks of LOCK - and ZDEALLOCATE, no block is  *)
(* marked as named.                                                          *)
LEMMA OtherCmd ==
  ASSUME NEW l \in {"idle", "decr", "zdealloc"}, NEW q, NEW k, NEW m,
         "argerror" \notin Faults => \A i \in DOMAIN q : ~q[i].trans
  PROVE  CmdAt(l, q, k, m)
<1>1. l \notin InLock \cup {"name", "prune", "unlock"}  BY DEF InLock
<1> QED  BY <1>1 DEF CmdAt, NamesAt, ZallocAt

(* A step inside op_lock2 changes at most the block at i. *)
LEMMA LockCmd ==
  ASSUME NEW l \in InLock, NEW q, NEW k, NEW m, CmdAt(l, q, k, m),
         NEW ll \in InLock, NEW mm, mm.op = m.op, mm.args = m.args, k \in 0 .. Len(q), DOMAIN q = 1 .. Len(q),
         NEW i, NEW x, NEW u, Replaces(u, q, i, x), x.name = q[i].name, x.trans = q[i].trans,
         Fresh(l, m) \ {i} \subseteq Fresh(ll, mm),
         m.op = "LOCK" => i \in Fresh(ll, mm) \/ (x.granted => x.zalloc)
                          \/ (i \notin Fresh(l, m) /\ x.granted = q[i].granted /\ x.zalloc = q[i].zalloc)
  PROVE  CmdAt(ll, u, k, mm)
<1>0. /\ l # "name" /\ ll # "name" /\ InCall(l) /\ InCall(ll) /\ ll # "unlock"
      /\ DOMAIN u = DOMAIN q /\ i \in DOMAIN q /\ u[i] = x /\ \A j \in DOMAIN q \ {i} : u[j] = q[j]
  BY DEF InLock, InCall, Exiting, Ended, Replaces
<1>1. ASSUME "argerror" \notin Faults PROVE NamesAt(ll, u, k, mm)
  <2>1. NamesAt(l, q, k, m)  BY <1>1 DEF CmdAt
  <2>2. \A j \in DOMAIN u : u[j].name = q[j].name /\ u[j].trans = q[j].trans  BY <1>0
  <2>3. \A j \in DOMAIN u : ~u[j].trans  BY <1>0, <2>1, <2>2 DEF NamesAt
  <2>4. ASSUME NEW j \in DOMAIN mm.args PROVE \E c \in 1 .. k : u[c].name = mm.args[j]
    <3>1. PICK c \in 1 .. k : q[c].name = m.args[j]  BY <2>1, <2>4 DEF NamesAt
    <3>2. c \in DOMAIN u  BY <1>0
    <3> QED  BY <2>2, <3>1, <3>2
  <2> QED  BY <1>0, <2>3, <2>4 DEF NamesAt
<1>2. ZallocAt(ll, u, mm)
  <2>1. ZallocAt(l, q, m)  BY DEF CmdAt
  <2> SUFFICES ASSUME m.op = "LOCK", NEW j \in DOMAIN u \ Fresh(ll, mm), u[j].granted PROVE u[j].zalloc
    BY <1>0 DEF ZallocAt
  <2>2. \A c \in DOMAIN q \ Fresh(l, m) : q[c].granted => q[c].zalloc  BY <2>1 DEF ZallocAt
  <2>3. CASE j # i  BY <1>0, <2>2, <2>3
  <2>4. CASE j = i  BY <1>0, <2>2, <2>4
  <2> QED  BY <2>3, <2>4
<1> QED  BY <1>1, <1>2 DEF CmdAt

LEMMA StayCmd ==
  ASSUME NEW l \in InLock, NEW q, NEW k, NEW m, CmdAt(l, q, k, m),
         NEW ll \in InLock, NEW mm, mm.op = m.op, mm.args = m.args, Fresh(l, m) \subseteq Fresh(ll, mm)
  PROVE  CmdAt(ll, q, k, mm)
<1>0. l # "name" /\ ll # "name" /\ InCall(l) /\ InCall(ll) /\ ll # "unlock"
  BY DEF InLock, InCall, Exiting, Ended
<1> QED  BY <1>0 DEF CmdAt, NamesAt, ZallocAt

-----------------------------------------------------------------------------
(* Entering the names *)

LEMMA AgainCounts ==
  ASSUME NEW x \in Pvtblk, NEW y, y = NamedAgain(x), ~x.trans
  PROVE  y.translev = 1
BY DEF NamedAgain, Pvtblk

(* The first k blocks, and no others, are marked as named. *)
Marked(q, k) ==
  /\ k \in Nat /\ k <= Len(q)
  /\ \A i \in 1 .. k : q[i].trans
  /\ \A i \in DOMAIN q : q[i].trans => i <= k

(* The first c blocks of r have the name n and the names of the first k of q. *)
Entered(r, c, q, k, n) ==
  /\ \A i \in DOMAIN r : r[i].trans => i <= c
  /\ \E i \in 1 .. c : r[i].name = n
  /\ \A i \in 1 .. k : \E j \in 1 .. c : r[j].name = q[i].name

LEMMA InsertNames ==
  ASSUME NEW q \in Seq(Pvtblk), NEW n \in Name, NEW k, Marked(q, k),
         \A i \in DOMAIN q : q[i].translev # 0,
         NEW r, r = mlk_pvtblk_insert(q, n), NEW c, c = IF r[1].translev = 1 THEN k + 1 ELSE k
  PROVE  Entered(r, c, q, k, n)
<1>a. /\ k \in Nat /\ k <= Len(q) /\ \A i \in 1 .. k : q[i].trans
      /\ \A i \in DOMAIN q : q[i].trans => i <= k
  BY DEF Marked
<1> SUFFICES /\ \A i \in DOMAIN r : r[i].trans => i <= c
             /\ \E i \in 1 .. c : r[i].name = n
             /\ \A i \in 1 .. k : \E j \in 1 .. c : r[j].name = q[i].name
  BY DEF Entered
<1> USE <1>a
<1>1. Len(q) \in Nat /\ DOMAIN q = 1 .. Len(q)  BY LenProperties
<1>2. CASE \A i \in DOMAIN q : q[i].name # n
  <2>1. /\ r \in Seq(Pvtblk) /\ Len(r) = Len(q) + 1 /\ r[1] = NewPvtblk(n)
        /\ \A j \in 2 .. Len(q) + 1 : r[j] = q[j - 1]
    BY <1>2, InsertNew
  <2>2. r[1].name = n /\ r[1].translev = 1 /\ c = k + 1  BY <2>1 DEF NewPvtblk
  <2>3. DOMAIN r = 1 .. Len(q) + 1  BY <2>1, LenProperties
  <2>4. ASSUME NEW i \in DOMAIN r, r[i].trans PROVE i <= c
    <3>1. CASE i = 1  BY <2>2, <3>1
    <3>2. CASE i # 1
      <4>1. i \in 2 .. Len(q) + 1 /\ i - 1 \in DOMAIN q  BY <1>1, <2>3, <3>2
      <4>2. i - 1 <= k  BY <2>1, <2>4, <4>1
      <4> QED  BY <2>2, <4>1, <4>2
    <3> QED  BY <3>1, <3>2
  <2>5. ASSUME NEW i \in 1 .. k PROVE \E j \in 1 .. c : r[j].name = q[i].name
    <3>1. i + 1 \in 2 .. Len(q) + 1 /\ i + 1 \in 1 .. c /\ (i + 1) - 1 = i  BY <1>1, <2>2
    <3>2. r[i + 1] = q[i]  BY <2>1, <3>1
    <3> QED  BY <3>1, <3>2
  <2>6. 1 \in 1 .. c  BY <2>2
  <2> QED  BY <2>2, <2>4, <2>5, <2>6
<1>3. CASE \E i \in DOMAIN q : q[i].name = n
  <2>1. /\ r \in Seq(Pvtblk) /\ Len(r) = Len(q)
        /\ \E h \in 1 .. Len(q) :
             /\ q[h].name = n /\ r[1] = NamedAgain(q[h])
             /\ \A j \in 2 .. Len(q) : r[j] = IF j - 1 < h THEN q[j - 1] ELSE q[j]
    BY <1>3, InsertAgain
  <2>2. PICK h \in 1 .. Len(q) :
          /\ q[h].name = n /\ r[1] = NamedAgain(q[h])
          /\ \A j \in 2 .. Len(q) : r[j] = IF j - 1 < h THEN q[j - 1] ELSE q[j]
    BY <2>1
  <2>3. DOMAIN r = 1 .. Len(q)  BY <2>1, LenProperties
  <2>4. q[h] \in Pvtblk /\ q[h].translev # 0  BY <1>1, <2>2
  <2>5. (r[1].translev = 1) <=> ~q[h].trans  BY <2>2, <2>4, AgainType, AgainCounts
  <2>6. r[1].name = n
    <3>1. SameKey(r[1], q[h])  BY <2>2, <2>4, AgainKeeps
    <3> QED  BY <2>2, <3>1 DEF SameKey
  <2>7. (h <= k /\ c = k) \/ (h > k /\ c = k + 1)
    <3>1. CASE q[h].trans  BY <1>1, <2>5, <3>1
    <3>2. CASE ~q[h].trans
      <4>1. ~(h \in 1 .. k)  BY <3>2
      <4> QED  BY <2>5, <3>2, <4>1
    <3> QED  BY <3>1, <3>2
  <2>8. 1 \in 1 .. c  BY <2>7
  <2>9. ASSUME NEW i \in DOMAIN r, r[i].trans PROVE i <= c
    <3>1. CASE i = 1  BY <2>8, <3>1
    <3>2. CASE i # 1 /\ i - 1 < h
      <4>1. i \in 2 .. Len(q) /\ i - 1 \in DOMAIN q  BY <1>1, <2>3, <3>2
      <4>2. i - 1 <= k  BY <2>2, <2>9, <3>2, <4>1
      <4> QED  BY <2>7, <3>2, <4>1, <4>2
    <3>3. CASE i # 1 /\ ~(i - 1 < h)
      <4>1. i \in 2 .. Len(q) /\ i \in DOMAIN q  BY <1>1, <2>3, <3>3
      <4>2. i <= k  BY <2>2, <2>9, <3>3, <4>1
      <4> QED  BY <2>7, <4>1, <4>2
    <3> QED  BY <3>1, <3>2, <3>3
  <2>10. ASSUME NEW i \in 1 .. k PROVE \E j \in 1 .. c : r[j].name = q[i].name
    <3>1. CASE i = h  BY <2>2, <2>6, <2>8, <3>1
    <3>2. CASE i < h
      <4>1. i + 1 \in 2 .. Len(q) /\ i + 1 \in 1 .. c /\ (i + 1) - 1 = i  BY <1>1, <2>7, <3>2
      <4>2. r[i + 1] = q[i]  BY <2>2, <3>2, <4>1
      <4> QED  BY <4>1, <4>2
    <3>3. CASE i > h
      <4>1. i \in 2 .. Len(q) /\ i \in 1 .. c /\ ~(i - 1 < h)  BY <1>1, <2>7, <3>3
      <4>2. r[i] = q[i]  BY <2>2, <4>1
      <4> QED  BY <4>1, <4>2
    <3> QED  BY <3>1, <3>2, <3>3
  <2> QED  BY <2>6, <2>8, <2>9, <2>10
<1> QED  BY <1>2, <1>3

LEMMA InsertZalloc ==
  ASSUME NEW q \in Seq(Pvtblk), NEW n \in Name,
         \A i \in DOMAIN q : q[i].granted => q[i].zalloc, NEW r, r = mlk_pvtblk_insert(q, n)
  PROVE  \A i \in DOMAIN r : r[i].granted => r[i].zalloc
<1>1. Len(q) \in Nat /\ DOMAIN q = 1 .. Len(q)  BY LenProperties
<1>2. CASE \A i \in DOMAIN q : q[i].name # n
  <2>1. /\ r \in Seq(Pvtblk) /\ Len(r) = Len(q) + 1 /\ r[1] = NewPvtblk(n)
        /\ \A j \in 2 .. Len(q) + 1 : r[j] = q[j - 1]
    BY <1>2, InsertNew
  <2>2. ~r[1].granted  BY <2>1 DEF NewPvtblk
  <2>3. DOMAIN r = 1 .. Len(q) + 1  BY <2>1, LenProperties
  <2>4. \A i \in DOMAIN r \ {1} : i \in 2 .. Len(q) + 1 /\ i - 1 \in DOMAIN q  BY <1>1, <2>3
  <2> QED  BY <2>1, <2>2, <2>4
<1>3. CASE \E i \in DOMAIN q : q[i].name = n
  <2>1. /\ r \in Seq(Pvtblk) /\ Len(r) = Len(q)
        /\ \E h \in 1 .. Len(q) :
             /\ q[h].name = n /\ r[1] = NamedAgain(q[h])
             /\ \A j \in 2 .. Len(q) : r[j] = IF j - 1 < h THEN q[j - 1] ELSE q[j]
    BY <1>3, InsertAgain
  <2>2. PICK h \in 1 .. Len(q) :
          /\ q[h].name = n /\ r[1] = NamedAgain(q[h])
          /\ \A j \in 2 .. Len(q) : r[j] = IF j - 1 < h THEN q[j - 1] ELSE q[j]
    BY <2>1
  <2>3. DOMAIN r = 1 .. Len(q)  BY <2>1, LenProperties
  <2>4. r[1].granted => r[1].zalloc
    <3>1. q[h] \in Pvtblk /\ h \in DOMAIN q  BY <1>1
    <3> QED  BY <2>2, <3>1, AgainKeeps
  <2>5. \A i \in DOMAIN r \ {1} : i \in 2 .. Len(q) /\ i - 1 \in DOMAIN q /\ i \in DOMAIN q  BY <1>1, <2>3
  <2> QED  BY <2>2, <2>4, <2>5
<1> QED  BY <1>2, <1>3

LEMMA BeginCmd ==
  ASSUME Inv, CmdInv, NEW p \in Proc, NEW c \in Commands[p], Begin(p, c)
  PROVE  CmdInv'
<1>0. /\ pc \in [Proc -> PC] /\ loc \in [Proc -> Local] /\ lks \in [Proc -> Nat] /\ c \in Command
      /\ Len(pvt[p]) \in Nat /\ pc[p] = "idle" /\ pvt' = pvt /\ CmdAt(pc[p], pvt[p], lks[p], loc[p])
  BY CmdFacts, CommandAssumption DEF Begin, CmdInv
<1> DEFINE m == [NoLocal EXCEPT !.op = c.op, !.args = c.args, !.time = c.time, !.left = Len(pvt[p])]
<1>1. m.pos = 1 /\ m.left = Len(pvt[p]) /\ m.op = c.op  BY DEF NoLocal
<1>2. \/ pc' = [pc EXCEPT ![p] = "unlock"] /\ loc' = [loc EXCEPT ![p] = m] /\ lks' = [lks EXCEPT ![p] = 0]
      \/ pc' = pc /\ loc' = loc /\ lks' = [lks EXCEPT ![p] = 0]
      \/ /\ pc' = [pc EXCEPT ![p] = "name"] /\ loc' = [loc EXCEPT ![p] = m] /\ lks' = lks
         /\ lks[p] = 0 /\ c.op # "LOCK"
  BY DEF Begin, Goto
<1> HIDE DEF m
<1>3. Alone(p)  BY <1>0, <1>2 DEF Alone, Elsewhere
<1>4. "argerror" \notin Faults => \A i \in DOMAIN pvt[p] : ~pvt[p][i].trans
  BY <1>0 DEF CmdAt, NamesAt, InCall, Exiting, Ended
<1>5. \A i \in 1 .. m.pos - 1 : FALSE  BY <1>1
<1>6. CASE pc'[p] = "unlock" /\ loc'[p] = m
  <2>1. m.pos + m.left = Len(pvt[p]) + 1  BY <1>0, <1>1
  <2>2. CmdAt("unlock", pvt[p], lks'[p], m)  BY <1>4, <1>5, <2>1 DEF CmdAt, NamesAt, ZallocAt, InLock
  <2> QED  BY <1>0, <1>3, <1>6, <2>2, CmdStep
<1>7. CASE pc'[p] = "idle"
  <2>1. CmdAt("idle", pvt[p], lks'[p], loc'[p])  BY <1>4, OtherCmd
  <2> QED  BY <1>0, <1>3, <1>7, <2>1, CmdStep
<1>8. CASE pc'[p] = "name" /\ loc'[p] = m /\ c.op # "LOCK"
  <2>1. CmdAt("name", pvt[p], lks'[p], m)  BY <1>1, <1>4, <1>5, <1>8 DEF CmdAt, NamesAt, ZallocAt, InLock
  <2> QED  BY <1>0, <1>3, <1>8, <2>1, CmdStep
<1>9. \/ pc'[p] = "unlock" /\ loc'[p] = m
      \/ pc'[p] = "idle"
      \/ pc'[p] = "name" /\ loc'[p] = m /\ c.op # "LOCK"
  BY <1>0, <1>2
<1> QED  BY <1>6, <1>7, <1>8, <1>9

LEMMA OpLknameCmd ==
  ASSUME Inv, CmdInv, RepeatsFit, NEW p \in Proc, OpLkname(p)
  PROVE  CmdInv'
<1>0. /\ pc \in [Proc -> PC] /\ pvt \in [Proc -> Seq(Pvtblk)] /\ loc \in [Proc -> Local]
      /\ lks \in [Proc -> Nat] /\ lks[p] \in Nat /\ loc[p] \in Local /\ pvt[p] \in Seq(Pvtblk)
      /\ CmdAt(pc[p], pvt[p], lks[p], loc[p]) /\ Listed(pc[p], pvt[p], lks[p], loc[p])
  BY CmdFacts DEF CmdInv
<1>1. PICK n : n = loc[p].args[loc[p].pos]  OBVIOUS
<1>2. PICK u : u = mlk_pvtblk_insert(pvt[p], n)  OBVIOUS
<1>3. PICK k : k = IF u[1].translev = 1 THEN lks[p] + 1 ELSE lks[p]  OBVIOUS
<1>4. /\ pc[p] = "name" /\ MoreArgs(p) /\ pc' = pc
      /\ pvt' = [pvt EXCEPT ![p] = u] /\ loc' = [loc EXCEPT ![p].pos = @ + 1]
      /\ lks' = [lks EXCEPT ![p] = k]
  BY <1>1, <1>2, <1>3 DEF OpLkname
<1>5. n \in Name /\ loc[p].pos \in Nat \ {0}  BY <1>0, <1>1, <1>4 DEF MoreArgs, Local
<1>6. Alone(p) /\ pvt'[p] = u /\ lks'[p] = k /\ pc'[p] = "name"
  BY <1>0, <1>4 DEF Alone, Elsewhere
<1>7. loc'[p].pos = loc[p].pos + 1 /\ loc'[p].args = loc[p].args /\ loc'[p].op = loc[p].op
  BY <1>0, <1>4 DEF Local
<1>8. ASSUME "argerror" \notin Faults PROVE NamesAt("name", u, k, loc'[p])
  <2>1. NamesAt("name", pvt[p], lks[p], loc[p])  BY <1>0, <1>4, <1>8 DEF CmdAt
  <2>2. lks[p] <= Len(pvt[p]) /\ \A i \in 1 .. lks[p] : pvt[p][i].trans  BY <1>0, <1>4 DEF Listed
  <2>3. \A i \in DOMAIN pvt[p] : pvt[p][i].trans => i <= lks[p]  BY <2>1 DEF NamesAt
  <2>4. /\ \A i \in DOMAIN u : u[i].trans => i <= k
        /\ \E i \in 1 .. k : u[i].name = n
        /\ \A i \in 1 .. lks[p] : \E j \in 1 .. k : u[j].name = pvt[p][i].name
    <3>0. \A i \in DOMAIN pvt[p] : pvt[p][i].translev # 0  BY DEF RepeatsFit
    <3>1. Marked(pvt[p], lks[p])  BY <1>0, <2>2, <2>3 DEF Marked
    <3>2. Entered(u, k, pvt[p], lks[p], n)
      BY <1>0, <1>2, <1>3, <1>4, <1>5, <3>0, <3>1, InsertNames
    <3> QED  BY <3>2 DEF Entered
  <2>5. ASSUME NEW j \in 1 .. loc'[p].pos - 1 PROVE \E i \in 1 .. k : u[i].name = loc'[p].args[j]
    <3>1. CASE j = loc[p].pos  BY <1>1, <1>7, <2>4, <3>1
    <3>2. CASE j # loc[p].pos
      <4>1. j \in 1 .. loc[p].pos - 1  BY <1>5, <1>7, <3>2
      <4>2. PICK i \in 1 .. lks[p] : pvt[p][i].name = loc[p].args[j]  BY <2>1, <4>1 DEF NamesAt
      <4> QED  BY <1>7, <2>4, <4>2
    <3> QED  BY <3>1, <3>2
  <2> QED  BY <2>4, <2>5 DEF NamesAt, InLock
<1>9. ZallocAt("name", u, loc'[p])
  <2>1. ASSUME loc[p].op = "LOCK" PROVE \A i \in DOMAIN u : u[i].granted => u[i].zalloc
    <3>1. Fresh("name", loc[p]) = {}  BY DEF Fresh, Trying
    <3>2. \A i \in DOMAIN pvt[p] : pvt[p][i].granted => pvt[p][i].zalloc
      BY <1>0, <1>4, <2>1, <3>1 DEF CmdAt, ZallocAt
    <3> QED  BY <1>0, <1>2, <1>4, <1>5, <3>2, InsertZalloc
  <2> QED  BY <1>7, <2>1 DEF ZallocAt
<1> QED  BY <1>6, <1>8, <1>9, CmdStep DEF CmdAt

LEMMA ClearedIs ==
  ASSUME NEW q, \A i \in DOMAIN q : q[i] \in Pvtblk, NEW n, NEW u, u = lckclr(q, n)
  PROVE  /\ DOMAIN u = DOMAIN q
         /\ \A i \in DOMAIN q : /\ u[i].name = q[i].name /\ u[i].granted = q[i].granted
                                /\ u[i].zalloc = q[i].zalloc
                                /\ u[i].trans => q[i].trans /\ ~(i <= n)
<1>1. DOMAIN u = DOMAIN q  BY DEF lckclr
<1>2. ASSUME NEW i \in DOMAIN q
      PROVE  /\ u[i].name = q[i].name /\ u[i].granted = q[i].granted /\ u[i].zalloc = q[i].zalloc
             /\ u[i].trans => q[i].trans /\ ~(i <= n)
  <2>1. q[i] \in Pvtblk  OBVIOUS
  <2>2. CASE i <= n
    <3>1. u[i] = [q[i] EXCEPT !.trans = FALSE]  BY <2>2 DEF lckclr
    <3> QED  BY <2>1, <3>1 DEF Pvtblk
  <2>3. CASE ~(i <= n)
    <3>1. u[i] = q[i]  BY <2>3 DEF lckclr
    <3> QED  BY <2>3, <3>1
  <2> QED  BY <2>2, <2>3
<1> QED  BY <1>1, <1>2

LEMMA NamedCmd ==
  ASSUME Inv, CmdInv, NEW p \in Proc, StartLock(p) \/ StartRelease(p)
  PROVE  /\ CmdInv'
         /\ "argerror" \notin Faults /\ pc'[p] = "idle" => DOMAIN loc[p].args = {}
<1>0. /\ pc \in [Proc -> PC] /\ pvt \in [Proc -> Seq(Pvtblk)] /\ loc \in [Proc -> Local]
      /\ lks \in [Proc -> Nat] /\ lks[p] \in Nat /\ loc[p] \in Local
      /\ \A i \in DOMAIN pvt[p] : pvt[p][i] \in Pvtblk
      /\ CmdAt(pc[p], pvt[p], lks[p], loc[p]) /\ Listed(pc[p], pvt[p], lks[p], loc[p])
      /\ DOMAIN pvt[p] = 1 .. Len(pvt[p]) /\ Len(pvt[p]) \in Nat
  BY CmdFacts DEF CmdInv
<1>1. PICK u : u = lckclr(pvt[p], lks[p])  OBVIOUS
<1>2. pc[p] = "name" /\ ~MoreArgs(p) /\ pvt' = [pvt EXCEPT ![p] = u]
  BY <1>1 DEF StartLock, StartRelease
<1>3. \/ \E l \in {"decr", "zdealloc"} : pc' = [pc EXCEPT ![p] = l] /\ lks' = lks /\ \E x : loc' = [loc EXCEPT ![p] = x]
      \/ /\ pc' = [pc EXCEPT ![p] = "idle"] /\ lks[p] = 0 /\ lks' = [lks EXCEPT ![p] = 0]
         /\ loc' = [loc EXCEPT ![p] = NoLocal]
      \/ /\ pc' = [pc EXCEPT ![p] = "lock"] /\ lks' = lks
         /\ loc' = [loc EXCEPT ![p].pos = 1, ![p].new = TRUE, ![p].already = FALSE,
                               ![p].oot = loc[p].time = "zero"]
  <2>1. CASE StartLock(p)  BY <2>1 DEF StartLock, Goto, Finish
  <2>2. CASE StartRelease(p)
    <3>1. /\ pc' = [pc EXCEPT ![p] = "decr"] \/ pc' = [pc EXCEPT ![p] = "zdealloc"]
          /\ lks' = lks /\ \E x : loc' = [loc EXCEPT ![p] = x]
      BY <2>2, Zenon DEF StartRelease, Goto
    <3> QED  BY <3>1
  <2> QED  BY <2>1, <2>2
<1>4. Alone(p) /\ pvt'[p] = u  BY <1>0, <1>2, <1>3 DEF Alone, Elsewhere
<1>5. /\ DOMAIN u = DOMAIN pvt[p]
      /\ \A i \in DOMAIN u : /\ u[i].name = pvt[p][i].name /\ u[i].granted = pvt[p][i].granted
                             /\ u[i].zalloc = pvt[p][i].zalloc
                             /\ u[i].trans => pvt[p][i].trans /\ ~(i <= lks[p])
  <2>1. PICK q : q = pvt[p]  OBVIOUS
  <2>2. (\A i \in DOMAIN q : q[i] \in Pvtblk) /\ u = lckclr(q, lks[p])  BY <1>0, <1>1, <2>1
  <2> HIDE <2>1
  <2>3. /\ DOMAIN u = DOMAIN q
        /\ \A i \in DOMAIN q : /\ u[i].name = q[i].name /\ u[i].granted = q[i].granted
                               /\ u[i].zalloc = q[i].zalloc
                               /\ u[i].trans => q[i].trans /\ ~(i <= lks[p])
    BY <2>2, ClearedIs
  <2> QED  BY <2>1, <2>3
<1>6. ASSUME "argerror" \notin Faults
      PROVE  /\ \A i \in DOMAIN u : ~u[i].trans
             /\ \A j \in DOMAIN loc[p].args : \E i \in 1 .. lks[p] : pvt[p][i].name = loc[p].args[j]
  <2>1. NamesAt("name", pvt[p], lks[p], loc[p])  BY <1>0, <1>2, <1>6 DEF CmdAt
  <2>2. \A j \in DOMAIN loc[p].args : j \in 1 .. loc[p].pos - 1
    <3>1. loc[p].args \in Seq(Name) /\ loc[p].pos \in Nat \ {0}  BY <1>0 DEF Local
    <3>2. DOMAIN loc[p].args = 1 .. Len(loc[p].args) /\ Len(loc[p].args) \in Nat  BY <3>1, LenProperties
    <3>3. ~(loc[p].pos <= Len(loc[p].args))  BY <1>2 DEF MoreArgs
    <3> QED  BY <3>1, <3>2, <3>3
  <2> QED  BY <1>5, <2>1, <2>2 DEF NamesAt
<1>7. ASSUME pc'[p] \in {"idle", "decr", "zdealloc"} PROVE CmdInv'
  <2>1. CmdAt(pc'[p], u, lks'[p], loc'[p])  BY <1>6, <1>7, OtherCmd
  <2> QED  BY <1>4, <2>1, CmdStep
<1>8. ASSUME pc'[p] = "idle", "argerror" \notin Faults PROVE DOMAIN loc[p].args = {}
  <2>1. lks[p] = 0  BY <1>0, <1>3, <1>8
  <2>2. \A i \in 1 .. lks[p] : FALSE  BY <2>1
  <2> QED  BY <1>6, <1>8, <2>2
<1>9. CASE /\ pc' = [pc EXCEPT ![p] = "lock"] /\ lks' = lks
           /\ loc' = [loc EXCEPT ![p].pos = 1, ![p].new = TRUE, ![p].already = FALSE,
                               ![p].oot = loc[p].time = "zero"]
  <2>1. /\ pc'[p] = "lock" /\ lks'[p] = lks[p] /\ loc'[p].args = loc[p].args /\ loc'[p].op = loc[p].op
    BY <1>0, <1>9 DEF Local
  <2>2. Fresh("name", loc[p]) = {}  BY DEF Fresh, Trying
  <2>3. ASSUME "argerror" \notin Faults PROVE NamesAt("lock", u, lks[p], loc'[p])
    <3>1. lks[p] <= Len(pvt[p])  BY <1>0, <1>2 DEF Listed
    <3>2. \A i \in 1 .. lks[p] : i \in DOMAIN u  BY <1>0, <1>5, <3>1
    <3> QED  BY <1>5, <1>6, <2>1, <2>3, <3>2 DEF NamesAt
  <2>4. ZallocAt("lock", u, loc'[p])
    BY <1>0, <1>2, <1>5, <2>1, <2>2 DEF CmdAt, ZallocAt
  <2>5. CmdAt("lock", u, lks[p], loc'[p])  BY <2>3, <2>4 DEF CmdAt
  <2>6. CmdInv'  BY <1>4, <2>1, <2>5, CmdStep
  <2> QED  BY <2>1, <2>6
<1>10. CASE pc'[p] \in {"idle", "decr", "zdealloc"}  BY <1>7, <1>8, <1>10
<1>11. CASE pc'[p] \notin {"idle", "decr", "zdealloc"}
  <2>1. ~\E l \in {"decr", "zdealloc", "idle"} : pc' = [pc EXCEPT ![p] = l]  BY <1>0, <1>11
  <2> QED  BY <1>3, <1>9, <2>1
<1> QED  BY <1>10, <1>11

-----------------------------------------------------------------------------
(* Trying for the locks *)

LEMMA ArgErrorCmd ==
  ASSUME Inv, CmdInv, NEW p \in Proc, ArgError(p)
  PROVE  CmdInv'
<1>0. pc \in [Proc -> PC] /\ loc \in [Proc -> Local]  BY CmdFacts
<1>1. /\ "argerror" \in Faults /\ pc' = [pc EXCEPT ![p] = "idle"] /\ UNCHANGED <<pvt, lks>>
      /\ loc' = [loc EXCEPT ![p] = NoLocal]
  BY DEF ArgError, Goto
<1>2. Alone(p) /\ pc'[p] = "idle"  BY <1>0, <1>1 DEF Alone, Elsewhere
<1>3. CmdAt("idle", pvt'[p], lks'[p], loc'[p])  BY <1>1, OtherCmd
<1> QED  BY <1>2, <1>3, CmdStep

LEMMA LockListed ==
  ASSUME Inv, NEW p \in Proc, pc[p] \in InLock
  PROVE  /\ lks[p] \in 0 .. Len(pvt[p]) /\ loc[p].pos \in 1 .. lks[p] /\ loc[p].pos \in DOMAIN pvt[p]
         /\ Cur(p) = pvt[p][loc[p].pos] /\ Cur(p) \in Pvtblk
<1>1. /\ Listed(pc[p], pvt[p], lks[p], loc[p]) /\ loc[p] \in Local /\ lks[p] \in Nat
      /\ Len(pvt[p]) \in Nat /\ DOMAIN pvt[p] = 1 .. Len(pvt[p])
      /\ \A i \in DOMAIN pvt[p] : pvt[p][i] \in Pvtblk
  BY CmdFacts
<1>2. loc[p].pos <= lks[p] /\ lks[p] <= Len(pvt[p]) /\ loc[p].pos \in Nat \ {0}
  BY <1>1 DEF Listed, Local
<1> QED  BY <1>1, <1>2 DEF Cur

(* What Obtained does to the list and the counters of the command. *)
Taken(p, e, x) ==
  /\ Replaces(pvt'[p], pvt[p], loc[p].pos, x) /\ x.name = e.name /\ x.trans = e.trans /\ x.granted
  /\ Alone(p)
  /\ \/ /\ pc'[p] = "idle"
        /\ loc[p].pos = lks[p] \/ (loc[p].op = "LOCK+" /\ e.level >= LevelMax)
     \/ /\ pc'[p] = "lock" /\ lks'[p] = lks[p] /\ loc'[p].pos = loc[p].pos + 1
        /\ loc'[p].new = loc[p].new /\ loc'[p].op = loc[p].op /\ loc'[p].args = loc[p].args

LEMMA ObtainedTakes ==
  ASSUME Inv, NEW p \in Proc, pc[p] \in InLock, NEW e \in Pvtblk, Obtained(p, e)
  PROVE  \E x : Taken(p, e, x)
<1>0. /\ pc \in [Proc -> PC] /\ pvt \in [Proc -> Seq(Pvtblk)] /\ loc \in [Proc -> Local]
      /\ lks \in [Proc -> Nat] /\ pvt[p] \in Seq(Pvtblk) /\ loc[p] \in Local
      /\ loc[p].pos \in DOMAIN pvt[p]
  BY CmdFacts, LockListed
<1>1. PICK x : /\ pvt' = [pvt EXCEPT ![p][loc[p].pos] = x]
               /\ \/ x = [e EXCEPT !.granted = TRUE, !.level = 1] \/ x = [e EXCEPT !.granted = TRUE, !.zalloc = TRUE]
                  \/ x = Raised(e) \/ x = [e EXCEPT !.granted = TRUE]
  BY Zenon DEF Obtained, Update
<1>2. x.trans = e.trans /\ x.name = e.name /\ x.granted
  <2>1. CASE x = [e EXCEPT !.granted = TRUE, !.level = 1]  BY <2>1 DEF Pvtblk
  <2>2. CASE x = [e EXCEPT !.granted = TRUE, !.zalloc = TRUE]  BY <2>2 DEF Pvtblk
  <2>3. CASE x = Raised(e)
    <3>1. PICK y : y = (e.level + e.translev) % (LevelMax + 1)  OBVIOUS
    <3>2. x = [e EXCEPT !.granted = TRUE, !.level = y]  BY <2>3, <3>1 DEF Raised
    <3> QED  BY <3>2 DEF Pvtblk
  <2>4. CASE x = [e EXCEPT !.granted = TRUE]  BY <2>4 DEF Pvtblk
  <2> QED  BY <1>1, <2>1, <2>2, <2>3, <2>4
<1>3. Replaces(pvt'[p], pvt[p], loc[p].pos, x)  BY <1>0, <1>1 DEF Replaces
<1>4. \/ /\ pc' = [pc EXCEPT ![p] = "idle"] /\ lks' = [lks EXCEPT ![p] = 0] /\ loc' = [loc EXCEPT ![p] = NoLocal]
         /\ loc[p].pos = lks[p] \/ (loc[p].op = "LOCK+" /\ e.level >= LevelMax)
      \/ /\ pc' = [pc EXCEPT ![p] = "lock"] /\ loc' = [loc EXCEPT ![p].pos = loc[p].pos + 1] /\ lks' = lks
  BY DEF Obtained, Finish, Goto
<1>5. Alone(p)  BY <1>0, <1>1, <1>4 DEF Alone, Elsewhere
<1>6. \/ /\ pc'[p] = "idle"
         /\ loc[p].pos = lks[p] \/ (loc[p].op = "LOCK+" /\ e.level >= LevelMax)
      \/ /\ pc'[p] = "lock" /\ lks'[p] = lks[p] /\ loc'[p].pos = loc[p].pos + 1
         /\ loc'[p].new = loc[p].new /\ loc'[p].op = loc[p].op /\ loc'[p].args = loc[p].args
  BY <1>0, <1>4 DEF Local
<1> QED  BY <1>2, <1>3, <1>5, <1>6 DEF Taken

(* When op_lock2 ends, all blocks of the command are granted. *)
Granting(p) ==
  pc'[p] = "idle" /\ "argerror" \notin Faults /\ ~(loc[p].op = "LOCK+" /\ Cur(p).level >= LevelMax) =>
    \A k \in DOMAIN loc[p].args : \E i \in DOMAIN pvt'[p] :
      pvt'[p][i].name = loc[p].args[k] /\ pvt'[p][i].granted

LEMMA TakenCmd ==
  ASSUME Inv, CmdInv, NEW p \in Proc, pc[p] \in Trying, loc[p].new, PassAt(pc[p], pvt[p], loc[p]),
         NEW e, SameClaim(e, Cur(p)), NEW x, Taken(p, e, x)
  PROVE  CmdInv' /\ Granting(p)
<1>0. /\ pc[p] \in InLock /\ CmdAt(pc[p], pvt[p], lks[p], loc[p]) /\ DOMAIN pvt[p] = 1 .. Len(pvt[p])
      /\ Len(pvt[p]) \in Nat
  BY CmdFacts DEF CmdInv, Trying, InLock
<1>1. /\ lks[p] \in 0 .. Len(pvt[p]) /\ loc[p].pos \in 1 .. lks[p] /\ loc[p].pos \in DOMAIN pvt[p]
      /\ Cur(p) = pvt[p][loc[p].pos]
  BY <1>0, LockListed
<1>2. PICK i : i = loc[p].pos  OBVIOUS
<1>3. x.name = pvt[p][i].name /\ x.trans = pvt[p][i].trans /\ e.level = Cur(p).level
  BY <1>1, <1>2 DEF Taken, SameClaim
<1>4. Alone(p) /\ Replaces(pvt'[p], pvt[p], i, x) /\ x.granted  BY <1>2 DEF Taken
<1>5. Fresh(pc[p], loc[p]) = 1 .. i - 1  BY <1>2 DEF Fresh
<1>6. \A j \in 1 .. i - 1 : pvt[p][j].granted  BY <1>2 DEF PassAt
<1>7. CASE pc'[p] = "idle"
  <2>1. "argerror" \notin Faults =>
          /\ \A j \in DOMAIN pvt[p] : ~pvt[p][j].trans
          /\ \A j \in DOMAIN loc[p].args : \E c \in 1 .. lks[p] : pvt[p][c].name = loc[p].args[j]
    BY <1>0 DEF CmdAt, NamesAt, InCall, Exiting, Ended, InLock
  <2>2. "argerror" \notin Faults => \A j \in DOMAIN pvt'[p] : ~pvt'[p][j].trans
    BY <1>3, <1>4, <2>1 DEF Replaces
  <2>3. CmdAt(pc'[p], pvt'[p], lks'[p], loc'[p])  BY <1>7, <2>2, OtherCmd
  <2>4. CmdInv'  BY <1>4, <2>3, CmdStep
  <2>5. ASSUME "argerror" \notin Faults, ~(loc[p].op = "LOCK+" /\ Cur(p).level >= LevelMax),
               NEW k \in DOMAIN loc[p].args
        PROVE  \E c \in DOMAIN pvt'[p] : pvt'[p][c].name = loc[p].args[k] /\ pvt'[p][c].granted
    <3>1. i = lks[p]  BY <1>2, <1>3, <1>7, <2>5 DEF Taken
    <3>2. PICK c \in 1 .. lks[p] : pvt[p][c].name = loc[p].args[k]  BY <2>1, <2>5
    <3>3. c \in DOMAIN pvt'[p] /\ c \in DOMAIN pvt[p]  BY <1>0, <1>1, <1>4 DEF Replaces
    <3>4. CASE c = i  BY <1>3, <1>4, <3>2, <3>3, <3>4 DEF Replaces
    <3>5. CASE c # i
      <4>1. c \in 1 .. i - 1  BY <1>1, <3>1, <3>5
      <4>2. pvt'[p][c] = pvt[p][c]  BY <1>4, <3>3, <3>5 DEF Replaces
      <4> QED  BY <1>6, <3>2, <3>3, <4>1, <4>2
    <3> QED  BY <3>4, <3>5
  <2> QED  BY <2>4, <2>5 DEF Granting
<1>8. CASE pc'[p] # "idle"
  <2>1. /\ pc'[p] = "lock" /\ lks'[p] = lks[p] /\ loc'[p].pos = i + 1 /\ pc'[p] \in InLock
        /\ loc'[p].new /\ loc'[p].op = loc[p].op /\ loc'[p].args = loc[p].args
    BY <1>2, <1>8 DEF Taken, InLock
  <2>2. Fresh(pc'[p], loc'[p]) = 1 .. i
    <3>1. (i + 1) - 1 = i  BY <1>1, <1>2
    <3> QED  BY <2>1, <3>1 DEF Fresh, Trying
  <2>3. Fresh(pc[p], loc[p]) \ {i} \subseteq Fresh(pc'[p], loc'[p]) /\ i \in Fresh(pc'[p], loc'[p])
    BY <1>1, <1>2, <1>5, <2>2
  <2>4. CmdAt(pc'[p], pvt'[p], lks[p], loc'[p])
    <3>1. PICK l, q, k, m, ll, mm, u :
            l = pc[p] /\ q = pvt[p] /\ k = lks[p] /\ m = loc[p] /\ ll = pc'[p] /\ mm = loc'[p] /\ u = pvt'[p]
      OBVIOUS
    <3>2. /\ l \in InLock /\ CmdAt(l, q, k, m) /\ ll \in InLock /\ mm.op = m.op /\ mm.args = m.args
          /\ k \in 0 .. Len(q) /\ DOMAIN q = 1 .. Len(q) /\ Replaces(u, q, i, x)
          /\ x.name = q[i].name /\ x.trans = q[i].trans
          /\ Fresh(l, m) \ {i} \subseteq Fresh(ll, mm) /\ i \in Fresh(ll, mm)
      BY <1>0, <1>1, <1>3, <1>4, <2>1, <2>3, <3>1
    <3>3. CmdAt(ll, u, k, mm)  BY <3>2, LockCmd
    <3> QED  BY <3>1, <3>3
  <2> QED  BY <1>4, <1>8, <2>1, <2>4, CmdStep DEF Granting
<1> QED  BY <1>7, <1>8

(* A block is replaced in the middle of op_lock2. *)
LEMMA ReplaceCmd ==
  ASSUME Inv, CmdInv, NEW p \in Proc, pc[p] \in InLock, Alone(p), pc'[p] \in InLock, lks'[p] = lks[p],
         loc'[p].op = loc[p].op, loc'[p].args = loc[p].args,
         NEW i, NEW x, Replaces(pvt'[p], pvt[p], i, x), x.name = pvt[p][i].name, x.trans = pvt[p][i].trans,
         Fresh(pc[p], loc[p]) \ {i} \subseteq Fresh(pc'[p], loc'[p]),
         loc[p].op = "LOCK" =>
           \/ i \in Fresh(pc'[p], loc'[p]) \/ (x.granted => x.zalloc)
           \/ /\ i \notin Fresh(pc[p], loc[p]) /\ x.granted = pvt[p][i].granted
              /\ x.zalloc = pvt[p][i].zalloc
  PROVE  CmdInv' /\ Granting(p)
<1>1. PICK l, q, k, m, ll, mm, u :
        l = pc[p] /\ q = pvt[p] /\ k = lks[p] /\ m = loc[p] /\ ll = pc'[p] /\ mm = loc'[p] /\ u = pvt'[p]
  OBVIOUS
<1>2. CmdAt(l, q, k, m) /\ k \in 0 .. Len(q) /\ DOMAIN q = 1 .. Len(q)
  BY <1>1, CmdFacts, LockListed DEF CmdInv
<1>3. /\ l \in InLock /\ ll \in InLock /\ mm.op = m.op /\ mm.args = m.args
      /\ Replaces(u, q, i, x) /\ x.name = q[i].name /\ x.trans = q[i].trans
      /\ Fresh(l, m) \ {i} \subseteq Fresh(ll, mm)
      /\ m.op = "LOCK" => i \in Fresh(ll, mm) \/ (x.granted => x.zalloc)
                          \/ (i \notin Fresh(l, m) /\ x.granted = q[i].granted /\ x.zalloc = q[i].zalloc)
  BY <1>1
<1>4. CmdAt(ll, u, k, mm)  BY <1>2, <1>3, LockCmd
<1>5. CmdAt(pc'[p], pvt'[p], lks'[p], loc'[p])  BY <1>1, <1>4
<1>6. pc'[p] # "idle"  BY DEF InLock
<1> QED  BY <1>5, <1>6, CmdStep DEF Granting

LEMMA StayStepCmd ==
  ASSUME CmdInv, NEW p \in Proc, pc[p] \in InLock, Alone(p), pc'[p] \in InLock,
         pvt'[p] = pvt[p], lks'[p] = lks[p], loc'[p].op = loc[p].op, loc'[p].args = loc[p].args,
         Fresh(pc[p], loc[p]) \subseteq Fresh(pc'[p], loc'[p])
  PROVE  CmdInv' /\ Granting(p)
<1>1. PICK ll, mm : ll = pc'[p] /\ mm = loc'[p]  OBVIOUS
<1>2. CmdAt(ll, pvt[p], lks[p], mm)  BY <1>1, StayCmd DEF CmdInv
<1>3. pc'[p] # "idle"  BY DEF InLock
<1> QED  BY <1>1, <1>2, <1>3, CmdStep DEF Granting

LEMMA AttemptCmd ==
  ASSUME Inv, CmdInv, NEW p \in Proc, pc[p] \in Trying, PassAt(pc[p], pvt[p], loc[p]),
         NEW r, r.e \in Pvtblk, SameClaim(r.e, Cur(p)),
         IF loc[p].new THEN FirstAttempt(p, r) ELSE Reattempt(p, r)
  PROVE  CmdInv' /\ Granting(p)
<1>0. /\ pc \in [Proc -> PC] /\ pvt \in [Proc -> Seq(Pvtblk)] /\ loc \in [Proc -> Local]
      /\ lks \in [Proc -> Nat] /\ pvt[p] \in Seq(Pvtblk) /\ loc[p] \in Local /\ pc[p] \in InLock
      /\ loc[p].pos \in DOMAIN pvt[p] /\ Cur(p) = pvt[p][loc[p].pos] /\ loc[p].pos \in Nat \ {0}
  <2>1. pc[p] \in InLock  BY DEF Trying, InLock
  <2>2. loc[p] \in Local  BY CmdFacts
  <2> QED  BY <2>1, <2>2, CmdFacts, LockListed DEF Local
<1>1. CASE loc[p].new /\ r.got
  <2>1. PICK e \in Pvtblk : e = r.e  OBVIOUS
  <2>2. Obtained(p, e) /\ SameClaim(e, Cur(p))  BY <1>1, <2>1 DEF FirstAttempt
  <2>3. PICK x : Taken(p, e, x)  BY <1>0, <2>2, ObtainedTakes
  <2> QED  BY <1>1, <2>2, <2>3, TakenCmd
<1>2. CASE ~(loc[p].new /\ r.got)
  <2>1. pvt' = [pvt EXCEPT ![p][loc[p].pos] = r.e] /\ lks' = lks
    BY <1>2 DEF FirstAttempt, Reattempt, Update
  <2>2. PICK i, x : i = loc[p].pos /\ x = r.e  OBVIOUS
  <2>3. Replaces(pvt'[p], pvt[p], i, x)  BY <1>0, <2>1, <2>2 DEF Replaces
  <2>4. /\ x.name = pvt[p][i].name /\ x.trans = pvt[p][i].trans /\ x.granted = pvt[p][i].granted
        /\ x.zalloc = pvt[p][i].zalloc
    BY <1>0, <2>2 DEF SameClaim
  <2>5. lks'[p] = lks[p] /\ \A c \in Proc \ {p} : lks'[c] = lks[c] /\ pvt'[c] = pvt[c]
    BY <1>0, <2>1
  <2>6. CASE loc[p].new
    <3>1. /\ loc' = [loc EXCEPT ![p].left = loc[p].pos - 1, ![p].new = FALSE]
          /\ loc[p].pos > 1 => pc' = [pc EXCEPT ![p] = "bckout"]
          /\ ~(loc[p].pos > 1) => pc' = [pc EXCEPT ![p] = "wait"]
      BY <1>2, <2>6 DEF FirstAttempt, Goto
    <3>2. /\ loc'[p].op = loc[p].op /\ loc'[p].args = loc[p].args /\ loc'[p].pos = i /\ loc'[p].left = i - 1
          /\ pc'[p] = "bckout" \/ (pc'[p] = "wait" /\ i = 1)
          /\ ~loc'[p].new
      BY <1>0, <2>2, <3>1 DEF Local
    <3>3. Fresh(pc[p], loc[p]) = 1 .. i - 1  BY <2>2, <2>6 DEF Fresh
    <3>4. Fresh(pc[p], loc[p]) \subseteq Fresh(pc'[p], loc'[p]) /\ i \notin Fresh(pc[p], loc[p])
      <4>1. CASE pc'[p] = "bckout"
        <5>1. i - (i - 1) = 1  BY <1>0, <2>2
        <5>2. Fresh(pc'[p], loc'[p]) = 1 .. i - 1  BY <3>2, <4>1, <5>1 DEF Fresh, Trying
        <5> QED  BY <1>0, <2>2, <3>3, <5>2
      <4>2. CASE i = 1  BY <3>3, <4>2
      <4> QED  BY <3>2, <4>1, <4>2
    <3>5. Alone(p) /\ pc'[p] \in InLock  BY <1>0, <2>5, <3>1, <3>2 DEF Alone, Elsewhere, InLock
    <3> QED  BY <1>0, <2>3, <2>4, <2>5, <3>2, <3>4, <3>5, ReplaceCmd
  <2>7. CASE ~loc[p].new
    <3>1. /\ loc' = loc \/ loc' = [loc EXCEPT ![p].already = TRUE, ![p].new = TRUE]
          /\ \E l \in {"lock", "relinquish", "checkown", "wait"} : pc' = [pc EXCEPT ![p] = l]
      BY <2>7 DEF Reattempt, Goto
    <3>2. loc'[p].op = loc[p].op /\ loc'[p].args = loc[p].args  BY <1>0, <3>1 DEF Local
    <3>3. Fresh(pc[p], loc[p]) = {}  BY <2>7 DEF Fresh, Trying
    <3>4. Alone(p) /\ pc'[p] \in InLock  BY <1>0, <2>5, <3>1 DEF Alone, Elsewhere, InLock
    <3> QED  BY <1>0, <2>3, <2>4, <2>5, <3>2, <3>3, <3>4, ReplaceCmd
  <2> QED  BY <2>6, <2>7
<1> QED  BY <1>1, <1>2

LEMMA TryCmd ==
  ASSUME HeldInv, CmdInv, NEW p \in Proc, TryLock(p) \/ GcFill(p) \/ GcClean(p)
  PROVE  CmdInv' /\ Granting(p)
<1>0. /\ Inv /\ TreeInv /\ pc \in [Proc -> PC] /\ loc \in [Proc -> Local] /\ loc[p] \in Local
      /\ FitAt(p, shr, pc[p], pvt[p], loc[p], nclear) /\ alive \subseteq Proc /\ Sound(shr)
      /\ OneOwnerPerBranch(shr) /\ shr \in Space
      /\ CmdAt(pc[p], pvt[p], lks[p], loc[p]) /\ Weaker(shr, shr) /\ Spares(shr, shr, alive, {})
  BY FitFacts DEF Inv, TypeOK, Exclusion, CmdInv, Weaker, Spares
<1>1. pc[p] \in Trying /\ pc[p] \in InLock /\ PassAt(pc[p], pvt[p], loc[p])
  BY <1>0 DEF TryLock, GcFill, GcClean, Trying, InLock, FitAt
<1>2. ASSUME NEW s, Sound(s), OneOwnerPerBranch(s), LockIn(p, s) PROVE CmdInv' /\ Granting(p)
  <2>1. PICK r \in mlk_lock(s, Cur(p), p, loc[p].new, yield[p], alive) :
          IF loc[p].new THEN FirstAttempt(p, r) ELSE Reattempt(p, r)
    BY <1>2 DEF LockIn
  <2>2. PICK e \in Pvtblk : e = Cur(p)  BY <1>0, <1>1, LockListed
  <2>3. r \in mlk_lock(s, e, p, loc[p].new, yield[p], alive)  BY <2>1, <2>2
  <2>4. s \in Space /\ yield[p] \in YieldPid  BY <1>0, <1>2, ProcFacts DEF Sound
  <2>5. r.e \in Pvtblk  BY <1>2, <2>3, <2>4, LockType
  <2>6. SameClaim(r.e, Cur(p))  BY <1>0, <1>2, <2>2, <2>3, <2>4, LockFrame
  <2> QED  BY <1>0, <1>1, <2>1, <2>5, <2>6, AttemptCmd
<1>3. CASE TryLock(p) \/ LockIn(p, shr)  BY <1>0, <1>2, <1>3 DEF TryLock
<1>4. CASE GcFill(p) /\ ~LockIn(p, shr)
  <2>1. /\ \E T \in SUBSET fill_pid_table(shr) : loc' = [loc EXCEPT ![p].tab = T]
        /\ pc[p] = "gcfill" /\ pc' = [pc EXCEPT ![p] = "gccheck"] /\ pvt' = pvt /\ lks' = lks
    BY <1>4 DEF GcFill, Goto
  <2>2. /\ loc'[p].op = loc[p].op /\ loc'[p].args = loc[p].args /\ loc'[p].new = loc[p].new
        /\ loc'[p].pos = loc[p].pos /\ pc'[p] = "gccheck" /\ Alone(p)
    BY <1>0, <2>1 DEF Local, Alone, Elsewhere
  <2>3. Fresh("gcfill", loc[p]) = Fresh("gccheck", loc'[p])  BY <2>2 DEF Fresh, Trying
  <2>4. pc'[p] \in InLock /\ pvt'[p] = pvt[p] /\ lks'[p] = lks[p]  BY <2>1, <2>2 DEF InLock
  <2> QED  BY <1>1, <2>1, <2>2, <2>3, <2>4, StayStepCmd
<1>5. CASE GcClean(p)
  <2>1. PICK s : s = clean_pids(shr, loc[p].tab)  OBVIOUS
  <2>2. pc[p] = "gcclean" /\ LockIn(p, s)  BY <1>5, <2>1 DEF GcClean
  <2>3. loc[p].tab \cap alive = {}  BY <1>0, <2>2 DEF TreeInv, LivesAt
  <2>4. Sound(s) /\ Weaker(s, shr)  BY <1>0, <2>1, <2>3, CleanFrame
  <2>5. OneOwnerPerBranch(s)
    <3>1. s \in Space  BY <2>4 DEF Sound
    <3> QED  BY <1>0, <2>4, <3>1, WeakerKeeps
  <2> QED  BY <1>2, <2>2, <2>4, <2>5
<1> QED  BY <1>3, <1>4, <1>5

LEMMA SkipCmd ==
  ASSUME HeldInv, CmdInv, NEW p \in Proc, SkipLocked(p)
  PROVE  CmdInv' /\ Granting(p)
<1>1. /\ Inv /\ pc[p] = "lock" /\ pc[p] \in InLock /\ pc[p] \in Trying /\ loc[p].new
      /\ Obtained(p, Cur(p)) /\ PassAt(pc[p], pvt[p], loc[p])
  BY FitFacts DEF SkipLocked, AlreadyLocked, InLock, Trying, FitAt
<1>2. PICK e \in Pvtblk : e = Cur(p)  BY <1>1, LockListed
<1>3. Obtained(p, e) /\ SameClaim(e, Cur(p))  BY <1>1, <1>2 DEF SameClaim
<1>4. PICK x : Taken(p, e, x)  BY <1>1, <1>3, ObtainedTakes
<1> QED  BY <1>1, <1>3, <1>4, TakenCmd

LEMMA BckoutCmd ==
  ASSUME HeldInv, CmdInv, NEW p \in Proc, mlk_bckout(p)
  PROVE  CmdInv'
<1>0. /\ pc \in [Proc -> PC] /\ pvt \in [Proc -> Seq(Pvtblk)] /\ loc \in [Proc -> Local] /\ Inv
      /\ lks \in [Proc -> Nat] /\ lks[p] \in Nat
      /\ pvt[p] \in Seq(Pvtblk) /\ loc[p] \in Local /\ pc[p] = "bckout" /\ pc[p] \in InLock
      /\ DOMAIN pvt[p] = 1 .. Len(pvt[p]) /\ Len(pvt[p]) \in Nat /\ lks' = lks
      /\ Listed(pc[p], pvt[p], lks[p], loc[p])
  BY FitFacts, CmdFacts DEF mlk_bckout, InLock
<1>1. PICK i : i = loc[p].pos - loc[p].left  OBVIOUS
<1>2. /\ i \in DOMAIN pvt[p] /\ loc[p].left \in Nat \ {0} /\ loc[p].pos \in Nat
  BY <1>0, <1>1 DEF Listed, InLock, Local
<1>3. PICK e \in Pvtblk : e = pvt[p][i]  BY <1>0, <1>2, CmdFacts
<1>4. PICK x : /\ pvt' = [pvt EXCEPT ![p][i] = x]
               /\ \/ x = Undone(e)
                  \/ x = [e EXCEPT !.level = 0] /\ (e.zalloc \/ loc[p].op # "LOCK" \/ x.level # 0)
                  \/ x = Lowered(e) /\ loc[p].op # "LOCK"
  BY <1>1, <1>3, Zenon DEF mlk_bckout, Update
<1>5. /\ pc' = [pc EXCEPT ![p] = IF BckoutDone(p) THEN "wait" ELSE "bckout"]
      /\ loc' = [loc EXCEPT ![p].left = @ - 1]
  BY DEF mlk_bckout, Goto
<1>6. /\ Alone(p) /\ pc'[p] \in InLock /\ lks'[p] = lks[p]
      /\ loc'[p].op = loc[p].op /\ loc'[p].args = loc[p].args
      /\ loc'[p].left = loc[p].left - 1 /\ loc'[p].pos = loc[p].pos
      /\ pc'[p] = IF loc[p].left = 1 THEN "wait" ELSE "bckout"
  BY <1>0, <1>4, <1>5 DEF Alone, Elsewhere, Local, InLock, BckoutDone
<1>7. Replaces(pvt'[p], pvt[p], i, x)  BY <1>0, <1>2, <1>4 DEF Replaces
<1>8. /\ x.name = pvt[p][i].name /\ x.trans = pvt[p][i].trans
      /\ loc[p].op = "LOCK" => (x.granted => x.zalloc)
  <2>1. CASE x = Undone(e)  BY <1>3, <2>1 DEF Undone, Pvtblk
  <2>2. CASE x = [e EXCEPT !.level = 0] /\ (e.zalloc \/ loc[p].op # "LOCK" \/ x.level # 0)
    BY <1>3, <2>2 DEF Pvtblk
  <2>3. CASE x = Lowered(e) /\ loc[p].op # "LOCK"
    <3>1. PICK y : y = (e.level - e.translev) % (LevelMax + 1)  OBVIOUS
    <3>2. x = [e EXCEPT !.level = y]  BY <2>3, <3>1 DEF Lowered
    <3> QED  BY <1>3, <2>3, <3>2 DEF Pvtblk
  <2> QED  BY <1>4, <2>1, <2>2, <2>3
<1>9. Fresh(pc[p], loc[p]) \ {i} \subseteq Fresh(pc'[p], loc'[p])
  <2>1. Fresh(pc[p], loc[p]) = i .. loc[p].pos - 1  BY <1>0, <1>1 DEF Fresh, Trying
  <2>2. CASE loc[p].left = 1
    <3>1. loc[p].pos - 1 = i  BY <1>1, <1>2, <2>2
    <3> QED  BY <1>0, <1>2, <2>1, <3>1
  <2>3. CASE loc[p].left # 1
    <3>1. Fresh(pc'[p], loc'[p]) = loc[p].pos - (loc[p].left - 1) .. loc[p].pos - 1
      BY <1>6, <2>3 DEF Fresh, Trying
    <3>2. loc[p].pos - (loc[p].left - 1) = i + 1  BY <1>1, <1>2
    <3> QED  BY <1>0, <1>2, <2>1, <3>1, <3>2
  <2> QED  BY <2>2, <2>3
<1> QED  BY <1>0, <1>6, <1>7, <1>8, <1>9, ReplaceCmd

LEMMA WaitCmd ==
  ASSUME HeldInv, CmdInv, NEW p \in Proc,
         \/ TimerPop(p) \/ Interrupt(p) \/ OutOfTime(p) \/ CheckOwn(p) \/ Poll(p) \/ Relinquish(p)
         \/ NeedGc(p) \/ GetGcLatch(p) \/ SalvageGcLatch(p) \/ check_pids(p)
  PROVE  CmdInv' /\ Granting(p)
<1>0. /\ pc \in [Proc -> PC] /\ loc \in [Proc -> Local] /\ loc[p] \in Local /\ Inv
      /\ PassAt(pc[p], pvt[p], loc[p])
  BY FitFacts DEF Inv, TypeOK, FitAt
<1>1. CASE TimerPop(p) \/ Interrupt(p) \/ OutOfTime(p) \/ CheckOwn(p) \/ Poll(p)
  <2>1. /\ pc[p] \in {"wait", "poll", "checkown"} /\ pc[p] \in InLock /\ UNCHANGED <<pvt, lks>>
        /\ \E l \in InLock : pc' = [pc EXCEPT ![p] = l]
        /\ loc' = loc \/ loc' = [loc EXCEPT ![p].oot = TRUE] \/ loc' = [loc EXCEPT ![p].oob = TRUE]
    <3>1. CASE TimerPop(p)  BY <1>0, <3>1 DEF TimerPop, InLock
    <3>2. CASE Interrupt(p)  BY <3>2 DEF Interrupt, Goto, InLock
    <3>3. CASE OutOfTime(p)  BY <3>3 DEF OutOfTime, Goto, InLock
    <3>4. CASE CheckOwn(p)  BY <3>4 DEF CheckOwn, Goto, InLock
    <3>5. CASE Poll(p)  BY <3>5 DEF Poll, Goto, InLock
    <3> QED  BY <1>1, <3>1, <3>2, <3>3, <3>4, <3>5
  <2>2. /\ Alone(p) /\ pc'[p] \in InLock /\ loc'[p].op = loc[p].op /\ loc'[p].args = loc[p].args
    BY <1>0, <2>1 DEF Alone, Elsewhere, Local
  <2>3. Fresh(pc[p], loc[p]) = {}  BY <2>1 DEF Fresh, Trying
  <2> QED  BY <2>1, <2>2, <2>3, StayStepCmd
<1>2. CASE Relinquish(p)
  <2>1. /\ pc[p] = "relinquish" /\ pc[p] \in InLock /\ UNCHANGED <<pvt, lks>>
        /\ pc' = [pc EXCEPT ![p] = "lock"]
        /\ loc' = [loc EXCEPT ![p].pos = 1, ![p].new = TRUE, ![p].already = FALSE]
    BY <1>2 DEF Relinquish, Goto, InLock
  <2>2. /\ Alone(p) /\ pc'[p] \in InLock /\ loc'[p].op = loc[p].op /\ loc'[p].args = loc[p].args
    BY <1>0, <2>1 DEF Alone, Elsewhere, Local, InLock
  <2>3. Fresh(pc[p], loc[p]) = {}  BY <2>1 DEF Fresh, Trying
  <2> QED  BY <2>1, <2>2, <2>3, StayStepCmd
<1>3. CASE NeedGc(p) \/ GetGcLatch(p) \/ SalvageGcLatch(p) \/ check_pids(p)
  <2>1. /\ pc[p] \in Trying /\ UNCHANGED <<pvt, lks>>
        /\ pc' = pc \/ \E l \in Trying : pc' = [pc EXCEPT ![p] = l]
        /\ loc' = loc \/ loc' = [loc EXCEPT ![p].tab = @ \ alive]
    <3>1. CASE NeedGc(p)  BY <3>1 DEF NeedGc, Trying, Goto
    <3>2. CASE GetGcLatch(p)  BY <3>2 DEF GetGcLatch, Trying, Goto
    <3>3. CASE SalvageGcLatch(p)  BY <3>3 DEF SalvageGcLatch, Trying, Goto
    <3>4. CASE check_pids(p)  BY <3>4 DEF check_pids, Trying, Goto
    <3> QED  BY <1>3, <3>1, <3>2, <3>3, <3>4
  <2>2. /\ Alone(p) /\ pc'[p] \in Trying /\ loc'[p].op = loc[p].op /\ loc'[p].args = loc[p].args
        /\ loc'[p].new = loc[p].new /\ loc'[p].pos = loc[p].pos
    BY <1>0, <2>1 DEF Alone, Elsewhere, Local
  <2>3. Fresh(pc'[p], loc'[p]) = Fresh(pc[p], loc[p])  BY <2>1, <2>2 DEF Fresh, Trying
  <2>4. pc[p] \in InLock /\ pc'[p] \in InLock  BY <2>1, <2>2 DEF Trying, InLock
  <2> QED  BY <2>1, <2>2, <2>3, <2>4, StayStepCmd
<1> QED  BY <1>1, <1>2, <1>3

-----------------------------------------------------------------------------
(* Giving up and releasing *)

(* All that is granted is ZALLOCATEd, and the list stays as it is. *)
OnlyZalloc(p) == pvt'[p] = pvt[p] /\ \A i \in DOMAIN pvt[p] : pvt[p][i].granted => pvt[p][i].zalloc

LEMMA UnpendCmd ==
  ASSUME HeldInv, CmdInv, NEW p \in Proc, Unpend(p)
  PROVE  CmdInv' /\ (loc[p].op = "LOCK" => OnlyZalloc(p))
<1>0. /\ pc \in [Proc -> PC] /\ loc \in [Proc -> Local] /\ lks \in [Proc -> Nat] /\ loc[p] \in Local
      /\ pc[p] = "unpend" /\ pvt' = pvt /\ CmdAt("unpend", pvt[p], lks[p], loc[p])
  BY FitFacts, CmdFacts DEF CmdInv, Unpend
<1>1. "argerror" \notin Faults => \A i \in DOMAIN pvt[p] : ~pvt[p][i].trans
  BY <1>0 DEF CmdAt, NamesAt, InCall, Exiting, Ended
<1>2. loc[p].op = "LOCK" => \A i \in DOMAIN pvt[p] : pvt[p][i].granted => pvt[p][i].zalloc
  <2>1. Fresh("unpend", loc[p]) = {}  BY DEF Fresh, Trying
  <2> QED  BY <1>0, <2>1 DEF CmdAt, ZallocAt, InLock
<1>3. \/ pc' = [pc EXCEPT ![p] = "idle"] /\ lks' = [lks EXCEPT ![p] = 0] /\ loc' = [loc EXCEPT ![p] = NoLocal]
      \/ /\ pc' = [pc EXCEPT ![p] = "prune"] /\ lks' = [lks EXCEPT ![p] = 0]
         /\ loc' = [loc EXCEPT ![p].pos = 1, ![p].left = Len(pvt[p])]
  BY DEF Unpend, Finish, Goto
<1>4. Alone(p)  BY <1>0, <1>3 DEF Alone, Elsewhere
<1>5. CASE pc'[p] = "idle"
  <2>1. CmdAt("idle", pvt[p], lks'[p], loc'[p])  BY <1>1, OtherCmd
  <2> QED  BY <1>0, <1>2, <1>4, <1>5, <2>1, CmdStep DEF OnlyZalloc
<1>6. CASE pc'[p] = "prune" /\ loc'[p].op = loc[p].op
  <2>1. CmdAt("prune", pvt[p], lks'[p], loc'[p])
    BY <1>1, <1>2, <1>6 DEF CmdAt, NamesAt, ZallocAt, InLock
  <2> QED  BY <1>0, <1>2, <1>4, <1>6, <2>1, CmdStep DEF OnlyZalloc
<1>7. pc'[p] = "idle" \/ (pc'[p] = "prune" /\ loc'[p].op = loc[p].op)  BY <1>0, <1>3 DEF Local
<1> QED  BY <1>5, <1>6, <1>7

(* The blocks of u are blocks of q. *)
LEMMA DropFrom ==
  ASSUME NEW q \in Seq(Pvtblk), NEW c \in 1 .. Len(q), NEW u, u = RemoveAt(q, c)
  PROVE  /\ Len(u) = Len(q) - 1 /\ \A j \in DOMAIN u : \E i \in DOMAIN q : u[j] = q[i]
         /\ \A j \in 1 .. c - 1 : u[j] = q[j]
<1>1. /\ u \in Seq(Pvtblk) /\ Len(u) = Len(q) - 1 /\ Len(q) \in Nat
      /\ \A j \in 1 .. Len(q) - 1 : u[j] = IF j < c THEN q[j] ELSE q[j + 1]
  <2>1. u \in Seq(Pvtblk)  BY RemoveAtType
  <2>2. Dropped(u, q, c)  BY RemoveAtDrops
  <2> QED  BY <2>1, <2>2, LenProperties DEF Dropped
<1>2. DOMAIN u = 1 .. Len(q) - 1 /\ DOMAIN q = 1 .. Len(q)  BY <1>1, LenProperties
<1>3. ASSUME NEW j \in DOMAIN u PROVE \E i \in DOMAIN q : u[j] = q[i]
  <2>1. j \in DOMAIN q /\ j + 1 \in DOMAIN q  BY <1>1, <1>2
  <2> QED  BY <1>1, <1>2, <2>1
<1>4. ASSUME NEW j \in 1 .. c - 1 PROVE u[j] = q[j]
  <2>1. j \in 1 .. Len(q) - 1 /\ j < c  BY <1>1
  <2> QED  BY <1>1, <2>1
<1> QED  BY <1>1, <1>3, <1>4

LEMMA DropCmd ==
  ASSUME Inv, CmdInv, NEW p \in Proc, pc[p] \in Walking, loc[p].left > 0, DropCur(p), UNCHANGED <<pc, lks>>
  PROVE  CmdInv'
<1>0. /\ pvt \in [Proc -> Seq(Pvtblk)] /\ loc \in [Proc -> Local] /\ pvt[p] \in Seq(Pvtblk)
      /\ loc[p] \in Local /\ Len(pvt[p]) \in Nat /\ CmdAt(pc[p], pvt[p], lks[p], loc[p])
  BY CmdFacts DEF CmdInv
<1>1. PICK c, q, u : c = loc[p].pos /\ q = pvt[p] /\ u = RemoveAt(q, c)  OBVIOUS
<1>2. c \in 1 .. Len(q)  BY <1>1, WalkFacts DEF Walking, Releasing
<1>3. pvt' = [pvt EXCEPT ![p] = u] /\ loc' = [loc EXCEPT ![p].left = @ - 1]  BY <1>1 DEF DropCur
<1>4. Alone(p) /\ pvt'[p] = u  BY <1>0, <1>3 DEF Alone, Elsewhere
<1>5. /\ loc'[p].op = loc[p].op /\ loc'[p].pos = c /\ loc'[p].left = loc[p].left - 1
      /\ loc[p].left \in Nat /\ c \in Nat
  BY <1>0, <1>1, <1>3 DEF Local
<1>6. /\ Len(u) = Len(q) - 1 /\ \A j \in DOMAIN u : \E i \in DOMAIN q : u[j] = q[i]
      /\ \A j \in 1 .. c - 1 : u[j] = q[j]
  BY <1>0, <1>1, <1>2, DropFrom
<1>7. pc[p] # "name" /\ InCall(pc[p]) /\ pc[p] \notin InLock
  BY DEF Walking, InCall, Exiting, Ended, InLock
<1>8. "argerror" \notin Faults => NamesAt(pc[p], u, lks[p], loc'[p])
  BY <1>0, <1>1, <1>6, <1>7 DEF CmdAt, NamesAt
<1>9. ZallocAt(pc[p], u, loc'[p])
  <2>1. ZallocAt(pc[p], q, loc[p])  BY <1>0, <1>1 DEF CmdAt
  <2>2. Fresh(pc[p], loc[p]) = {}  BY DEF Fresh, Walking, Trying
  <2>3. pc[p] = "unlock" => /\ loc'[p].pos + loc'[p].left = Len(u) + 1
                            /\ \A i \in 1 .. loc'[p].pos - 1 : u[i].zalloc
    <3>1. CASE pc[p] = "unlock"
      <4>1. loc[p].pos + loc[p].left = Len(q) + 1 /\ \A i \in 1 .. c - 1 : q[i].zalloc
        BY <1>1, <2>1, <3>1 DEF ZallocAt
      <4> QED  BY <1>0, <1>1, <1>5, <1>6, <4>1
    <3> QED  BY <3>1
  <2>4. loc[p].op = "LOCK" /\ pc[p] = "prune" => \A i \in DOMAIN u : u[i].granted => u[i].zalloc
    BY <1>6, <2>1, <2>2 DEF ZallocAt
  <2> QED  BY <1>5, <1>7, <2>3, <2>4 DEF ZallocAt
<1> QED  BY <1>4, <1>8, <1>9, CmdStep DEF CmdAt

LEMMA KeepCmd ==
  ASSUME Inv, CmdInv, NEW p \in Proc, pc[p] \in Walking, loc[p].left > 0, NEW x, KeepCur(p, x),
         UNCHANGED <<pc, lks>>, x.trans = Cur(p).trans, pc[p] = "unlock" => x.zalloc,
         pc[p] = "prune" => x = Cur(p)
  PROVE  CmdInv'
<1>0. /\ pvt \in [Proc -> Seq(Pvtblk)] /\ loc \in [Proc -> Local] /\ pvt[p] \in Seq(Pvtblk)
      /\ loc[p] \in Local /\ Len(pvt[p]) \in Nat /\ CmdAt(pc[p], pvt[p], lks[p], loc[p])
      /\ DOMAIN pvt[p] = 1 .. Len(pvt[p])
  BY CmdFacts DEF CmdInv
<1>1. PICK c, q, u : c = loc[p].pos /\ q = pvt[p] /\ u = [q EXCEPT ![c] = x]  OBVIOUS
<1>2. c \in 1 .. Len(q)  BY <1>1, WalkFacts DEF Walking, Releasing
<1>3. pvt' = [pvt EXCEPT ![p] = u] /\ loc' = [loc EXCEPT ![p].left = @ - 1, ![p].pos = @ + 1]
  BY <1>0, <1>1 DEF KeepCur, Update
<1>4. Alone(p) /\ pvt'[p] = u  BY <1>0, <1>3 DEF Alone, Elsewhere
<1>5. /\ loc'[p].op = loc[p].op /\ loc'[p].pos = c + 1 /\ loc'[p].left = loc[p].left - 1
      /\ loc[p].left \in Nat /\ c \in Nat
  BY <1>0, <1>1, <1>3 DEF Local
<1>6. /\ DOMAIN u = DOMAIN q /\ u[c] = x /\ \A j \in DOMAIN q \ {c} : u[j] = q[j]
      /\ DOMAIN q = 1 .. Len(q) /\ Len(q) \in Nat /\ q[c] = Cur(p) /\ Len(u) = Len(q)
  BY <1>0, <1>1, <1>2 DEF Cur
<1>7. pc[p] # "name" /\ InCall(pc[p]) /\ pc[p] \notin InLock
  BY DEF Walking, InCall, Exiting, Ended, InLock
<1>8. "argerror" \notin Faults => NamesAt(pc[p], u, lks[p], loc'[p])
  BY <1>0, <1>1, <1>2, <1>6, <1>7 DEF CmdAt, NamesAt
<1>9. ZallocAt(pc[p], u, loc'[p])
  <2>1. ZallocAt(pc[p], q, loc[p])  BY <1>0, <1>1 DEF CmdAt
  <2>2. Fresh(pc[p], loc[p]) = {}  BY DEF Fresh, Walking, Trying
  <2>3. pc[p] = "unlock" => /\ loc'[p].pos + loc'[p].left = Len(u) + 1
                            /\ \A i \in 1 .. loc'[p].pos - 1 : u[i].zalloc
    <3>1. CASE pc[p] = "unlock"
      <4>1. loc[p].pos + loc[p].left = Len(q) + 1 /\ \A i \in 1 .. c - 1 : q[i].zalloc
        BY <1>1, <2>1, <3>1 DEF ZallocAt
      <4>2. ASSUME NEW i \in 1 .. c PROVE u[i].zalloc
        <5>1. CASE i = c  BY <1>6, <3>1, <5>1
        <5>2. CASE i # c
          <6>1. i \in 1 .. c - 1 /\ i \in DOMAIN q  BY <1>2, <1>5, <1>6, <5>2
          <6> QED  BY <1>6, <4>1, <5>2, <6>1
        <5> QED  BY <5>1, <5>2
      <4>3. loc'[p].pos - 1 = c  BY <1>5
      <4> QED  BY <1>1, <1>5, <1>6, <4>1, <4>2, <4>3
    <3> QED  BY <3>1
  <2>4. loc[p].op = "LOCK" /\ pc[p] = "prune" => \A i \in DOMAIN u : u[i].granted => u[i].zalloc
    <3>1. pc[p] = "prune" => \A i \in DOMAIN u : u[i] = q[i]  BY <1>6
    <3> QED  BY <1>6, <2>1, <2>2, <3>1 DEF ZallocAt
  <2> QED  BY <1>5, <1>7, <2>3, <2>4 DEF ZallocAt
<1> QED  BY <1>4, <1>8, <1>9, CmdStep DEF CmdAt

LEMMA WalkCmd ==
  ASSUME Inv, CmdInv, NEW p \in Proc, pc[p] \in Walking,
         PruneStep(p) \/ UnlockStep(p) \/ op_decrlock(p) \/ op_zdealloc2(p)
  PROVE  CmdInv'
<1>1. loc[p].left > 0 /\ UNCHANGED <<pc, lks>>
  BY DEF PruneStep, UnlockStep, op_decrlock, op_zdealloc2
<1>2. \/ DropCur(p)
      \/ KeepCur(p, Cur(p)) /\ pc[p] = "prune"
      \/ KeepCur(p, [Cur(p) EXCEPT !.level = 0]) /\ Cur(p).zalloc /\ pc[p] = "unlock"
      \/ \E l : KeepCur(p, [Cur(p) EXCEPT !.level = l]) /\ pc[p] = "decr"
      \/ KeepCur(p, [Cur(p) EXCEPT !.zalloc = FALSE]) /\ pc[p] = "zdealloc"
  <2>1. CASE PruneStep(p)  BY <2>1, Zenon DEF PruneStep
  <2>2. CASE UnlockStep(p)  BY <2>2, Zenon DEF UnlockStep
  <2>3. CASE op_decrlock(p)  BY <2>3, Zenon DEF op_decrlock
  <2>4. CASE op_zdealloc2(p)
    <3>1. pc[p] = "zdealloc"  BY <2>4 DEF op_zdealloc2, Walking
    <3> QED  BY <2>4, <3>1, Zenon DEF op_zdealloc2
  <2> QED  BY <2>1, <2>2, <2>3, <2>4
<1>3. Cur(p) \in Pvtblk  BY <1>1, WalkFacts DEF Walking, Releasing
<1>4. CASE DropCur(p)  BY <1>1, <1>4, DropCmd
<1>5. CASE KeepCur(p, Cur(p)) /\ pc[p] = "prune"  BY <1>1, <1>5, KeepCmd
<1>6. CASE KeepCur(p, [Cur(p) EXCEPT !.level = 0]) /\ Cur(p).zalloc /\ pc[p] = "unlock"
  <2>1. PICK x : x = [Cur(p) EXCEPT !.level = 0]  OBVIOUS
  <2>2. x.trans = Cur(p).trans /\ x.zalloc = Cur(p).zalloc  BY <1>3, <2>1 DEF Pvtblk
  <2> QED  BY <1>1, <1>6, <2>1, <2>2, KeepCmd
<1>7. ASSUME NEW l, KeepCur(p, [Cur(p) EXCEPT !.level = l]), pc[p] = "decr" PROVE CmdInv'
  <2>1. PICK x : x = [Cur(p) EXCEPT !.level = l]  OBVIOUS
  <2>2. x.trans = Cur(p).trans  BY <1>3, <2>1 DEF Pvtblk
  <2> QED  BY <1>1, <1>7, <2>1, <2>2, KeepCmd
<1>8. CASE KeepCur(p, [Cur(p) EXCEPT !.zalloc = FALSE]) /\ pc[p] = "zdealloc"
  <2>1. PICK x : x = [Cur(p) EXCEPT !.zalloc = FALSE]  OBVIOUS
  <2>2. x.trans = Cur(p).trans  BY <1>3, <2>1 DEF Pvtblk
  <2> QED  BY <1>1, <1>8, <2>1, <2>2, KeepCmd
<1> QED  BY <1>2, <1>4, <1>5, <1>6, <1>7, <1>8

LEMMA EndReleaseCmd ==
  ASSUME Inv, CmdInv, NEW p \in Proc, EndRelease(p)
  PROVE  CmdInv' /\ (pc[p] = "unlock" \/ (pc[p] = "prune" /\ loc[p].op = "LOCK") => OnlyZalloc(p))
<1>0. /\ pc \in [Proc -> PC] /\ loc \in [Proc -> Local] /\ lks \in [Proc -> Nat] /\ loc[p] \in Local
      /\ pc[p] \in Walking /\ loc[p].left = 0 /\ pvt' = pvt /\ CmdAt(pc[p], pvt[p], lks[p], loc[p])
      /\ DOMAIN pvt[p] = 1 .. Len(pvt[p]) /\ Len(pvt[p]) \in Nat
  BY CmdFacts DEF CmdInv, EndRelease, Walking
<1>1. "argerror" \notin Faults => \A i \in DOMAIN pvt[p] : ~pvt[p][i].trans
  BY <1>0 DEF CmdAt, NamesAt, InCall, Exiting, Ended, Walking
<1>2. ASSUME pc[p] = "unlock" \/ (pc[p] = "prune" /\ loc[p].op = "LOCK")
      PROVE  \A i \in DOMAIN pvt[p] : pvt[p][i].granted => pvt[p][i].zalloc
  <2>1. CASE pc[p] = "unlock"
    <3>1. /\ loc[p].pos + loc[p].left = Len(pvt[p]) + 1 /\ \A i \in 1 .. loc[p].pos - 1 : pvt[p][i].zalloc
      BY <1>0, <2>1 DEF CmdAt, ZallocAt
    <3>2. loc[p].pos - 1 = Len(pvt[p])  BY <1>0, <3>1 DEF Local
    <3> QED  BY <1>0, <3>1, <3>2
  <2>2. CASE pc[p] = "prune" /\ loc[p].op = "LOCK"
    <3>1. Fresh("prune", loc[p]) = {}  BY DEF Fresh, Trying
    <3> QED  BY <1>0, <2>2, <3>1 DEF CmdAt, ZallocAt
  <2> QED  BY <1>2, <2>1, <2>2
<1>3. \/ pc[p] = "unlock" /\ pc' = [pc EXCEPT ![p] = "name"] /\ loc' = [loc EXCEPT ![p].pos = 1] /\ lks' = lks
      \/ pc' = [pc EXCEPT ![p] = "idle"] /\ lks' = [lks EXCEPT ![p] = 0] /\ loc' = [loc EXCEPT ![p] = NoLocal]
  BY DEF EndRelease, Finish, Goto
<1>4. Alone(p)  BY <1>0, <1>3 DEF Alone, Elsewhere
<1>5. CASE pc'[p] = "idle"
  <2>1. CmdAt("idle", pvt[p], lks'[p], loc'[p])  BY <1>1, OtherCmd
  <2> QED  BY <1>0, <1>2, <1>4, <1>5, <2>1, CmdStep DEF OnlyZalloc
<1>6. CASE pc'[p] = "name" /\ pc[p] = "unlock" /\ loc'[p].pos = 1
  <2>1. \A j \in 1 .. loc'[p].pos - 1 : FALSE  BY <1>6
  <2>2. "argerror" \notin Faults => NamesAt("name", pvt[p], lks'[p], loc'[p])
    BY <1>1, <2>1 DEF NamesAt, InLock
  <2>3. ZallocAt("name", pvt[p], loc'[p])  BY <1>2, <1>6 DEF ZallocAt
  <2>4. CmdAt("name", pvt[p], lks'[p], loc'[p])  BY <2>2, <2>3 DEF CmdAt
  <2> QED  BY <1>0, <1>2, <1>4, <1>6, <2>4, CmdStep DEF OnlyZalloc
<1>7. pc'[p] = "idle" \/ (pc'[p] = "name" /\ pc[p] = "unlock" /\ loc'[p].pos = 1)
  BY <1>0, <1>3 DEF Local
<1> QED  BY <1>5, <1>6, <1>7

LEMMA ExitCmd ==
  ASSUME Inv, CmdInv, NEW p \in Proc,
         \/ BckoutZallocate(p) \/ Exit(p) \/ Kill(p) \/ ExitDone(p) \/ ExitZdeallocate(p) \/ ExitStep(p)
         \/ StoreCounter(p) \/ StoreSequence(p) \/ StoreOwner(p)
         \/ op_zdealloc2(p) /\ pc[p] = "exitzd"
  PROVE  CmdInv'
<1>0. /\ pc \in [Proc -> PC] /\ pvt \in [Proc -> Seq(Pvtblk)] /\ loc \in [Proc -> Local]
      /\ lks \in [Proc -> Nat]
  BY CmdFacts
<1>1. /\ (pc' = pc /\ pc[p] \in Exiting) \/ \E l \in Exiting \cup Ended : pc' = [pc EXCEPT ![p] = l]
      /\ pvt' = pvt \/ \E x : pvt' = [pvt EXCEPT ![p] = x]
      /\ loc' = loc \/ \E x : loc' = [loc EXCEPT ![p] = x]
      /\ lks' = lks \/ \E x : lks' = [lks EXCEPT ![p] = x]
  <2>1. CASE BckoutZallocate(p)  BY <2>1 DEF BckoutZallocate, Goto, Ended
  <2>2. CASE Exit(p)  BY <2>2 DEF Exit, Goto, Exiting
  <2>3. CASE Kill(p) \/ ExitDone(p)  BY <2>3 DEF Kill, ExitDone, Vanish, Goto, Ended
  <2>4. CASE ExitZdeallocate(p)  BY <2>4 DEF ExitZdeallocate, Goto, Exiting
  <2>5. CASE ExitStep(p)  BY <2>5 DEF ExitStep, DropCur, KeepCur, Update, Goto, Exiting
  <2>6. ASSUME NEW what, Stored(p, what), pc[p] = "nocrit", lks' = lks
        PROVE  /\ (pc' = pc /\ pc[p] \in Exiting) \/ \E l \in Exiting \cup Ended : pc' = [pc EXCEPT ![p] = l]
               /\ pvt' = pvt \/ \E x : pvt' = [pvt EXCEPT ![p] = x]
               /\ loc' = loc \/ \E x : loc' = [loc EXCEPT ![p] = x]
               /\ lks' = lks \/ \E x : lks' = [lks EXCEPT ![p] = x]
    BY <2>6 DEF Stored, DropCur, Goto, Exiting
  <2>7. CASE StoreCounter(p) \/ StoreSequence(p) \/ StoreOwner(p)
    BY <2>6, <2>7 DEF StoreCounter, StoreSequence, StoreOwner
  <2>8. CASE op_zdealloc2(p) /\ pc[p] = "exitzd"
    BY <2>8 DEF op_zdealloc2, DropCur, KeepCur, Update, Exiting
  <2> QED  BY <2>1, <2>2, <2>3, <2>4, <2>5, <2>7, <2>8
<1>2. Alone(p)
  <2>1. \A r \in Proc \ {p} : pc'[r] = pc[r]  BY <1>0, <1>1
  <2>2. \A r \in Proc \ {p} : pvt'[r] = pvt[r]  BY <1>0, <1>1
  <2>3. \A r \in Proc \ {p} : loc'[r] = loc[r]  BY <1>0, <1>1
  <2>4. \A r \in Proc \ {p} : lks'[r] = lks[r]  BY <1>0, <1>1
  <2> QED  BY <2>1, <2>2, <2>3, <2>4 DEF Alone, Elsewhere
<1>3. pc'[p] \in Exiting \cup Ended  BY <1>0, <1>1
<1>4. CmdAt(pc'[p], pvt'[p], lks'[p], loc'[p])  BY <1>3, GoneCmd
<1> QED  BY <1>2, <1>4, CmdStep

-----------------------------------------------------------------------------
(* The action properties *)

LEMMA InitCmd == Init => CmdInv
<1> SUFFICES ASSUME Init, NEW p \in Proc PROVE CmdAt(pc[p], pvt[p], lks[p], loc[p])
  BY DEF CmdInv
<1>1. pc[p] = "idle" /\ pvt[p] = <<>>  BY DEF Init
<1>2. DOMAIN pvt[p] = {}  BY <1>1
<1> QED  BY <1>1, <1>2, OtherCmd

LEMMA StepCmd ==
  ASSUME HeldInv, CmdInv, RepeatsFit, [Next]_vars
  PROVE  CmdInv'
<1>0. Inv  BY DEF HeldInv, TreeInv
<1>1. ASSUME UNCHANGED <<pc, pvt, lks, loc>> PROVE CmdInv'
  BY <1>1 DEF CmdInv
<1>2. ASSUME NEW p \in Proc, NEW c \in Commands[p], Begin(p, c) PROVE CmdInv'
  BY <1>0, <1>2, BeginCmd
<1>3. ASSUME NEW p \in Proc, Run(p) PROVE CmdInv'
  <2>1. CASE OpLkname(p) \/ StartLock(p) \/ StartRelease(p)
    BY <1>0, <2>1, OpLknameCmd, NamedCmd
  <2>2. CASE TryLock(p) \/ GcFill(p) \/ GcClean(p)  BY <2>2, TryCmd
  <2>3. CASE SkipLocked(p) \/ mlk_bckout(p)  BY <2>3, SkipCmd, BckoutCmd
  <2>4. CASE \/ TimerPop(p) \/ OutOfTime(p) \/ Poll(p) \/ CheckOwn(p) \/ Relinquish(p)
             \/ NeedGc(p) \/ GetGcLatch(p) \/ SalvageGcLatch(p) \/ check_pids(p)
    BY <2>4, WaitCmd
  <2>5. CASE Unpend(p)  BY <2>5, UnpendCmd
  <2>6. CASE PruneStep(p) \/ UnlockStep(p) \/ op_decrlock(p) \/ op_zdealloc2(p)
    <3>1. pc[p] \in Walking \/ (pc[p] = "exitzd" /\ op_zdealloc2(p))
      BY <2>6 DEF PruneStep, UnlockStep, op_decrlock, op_zdealloc2, Walking
    <3> QED  BY <1>0, <2>6, <3>1, WalkCmd, ExitCmd
  <2>7. CASE EndRelease(p)  BY <1>0, <2>7, EndReleaseCmd
  <2>8. CASE \/ ExitStep(p) \/ StoreCounter(p) \/ StoreSequence(p) \/ StoreOwner(p)
             \/ BckoutZallocate(p) \/ ExitZdeallocate(p) \/ ExitDone(p)
    BY <1>0, <2>8, ExitCmd
  <2> QED  BY <1>3, <2>1, <2>2, <2>3, <2>4, <2>5, <2>6, <2>7, <2>8 DEF Run
<1>4. ASSUME NEW p \in Proc, ArgError(p) \/ Interrupt(p) \/ Exit(p) \/ Kill(p) PROVE CmdInv'
  BY <1>0, <1>4, ArgErrorCmd, WaitCmd, ExitCmd
<1>5. ASSUME NEW b \in Blk, LkeClear(b) PROVE CmdInv'
  BY <1>1, <1>5 DEF LkeClear
<1> QED  BY <1>1, <1>2, <1>3, <1>4, <1>5 DEF Next, vars

(* At most r moves, and if idle is FALSE it does not become idle. *)
Turns(r, idle) == pc' = pc \/ \E l : pc' = [pc EXCEPT ![r] = l] /\ (l = "idle" => idle)

Ending(p) ==
  \/ StartLock(p) \/ TryLock(p) \/ GcFill(p) \/ GcClean(p) \/ SkipLocked(p) \/ ArgError(p)
  \/ Unpend(p) \/ EndRelease(p)

LEMMA EndsBy ==
  ASSUME Inv, [Next]_vars, NEW p \in Proc, pc[p] # "idle", pc'[p] = "idle"
  PROVE  Ending(p)
<1>0. pc \in [Proc -> PC]  BY DEF Inv, TypeOK
<1>1. ASSUME NEW r \in Proc, Turns(r, FALSE) PROVE FALSE
  BY <1>0, <1>1 DEF Turns
<1>2. ASSUME NEW r \in Proc, Turns(r, TRUE) PROVE r = p
  BY <1>0, <1>2 DEF Turns
<1>3. CASE UNCHANGED vars  BY <1>3 DEF vars
<1>4. ASSUME NEW r \in Proc, NEW c \in Commands[r], Begin(r, c) PROVE FALSE
  <2>1. Turns(r, TRUE) /\ pc[r] = "idle"  BY <1>4 DEF Begin, Goto, Turns
  <2> QED  BY <1>2, <2>1
<1>5. ASSUME NEW r \in Proc, Ending(r) PROVE r = p
  <2>1. ASSUME NEW e, Obtained(r, e) PROVE Turns(r, TRUE)
    BY <2>1, Zenon DEF Obtained, Goto, Finish, Turns
  <2>2. ASSUME NEW s, LockIn(r, s) PROVE Turns(r, TRUE)
    <3>1. PICK o : IF loc[r].new THEN FirstAttempt(r, o) ELSE Reattempt(r, o)  BY <2>2 DEF LockIn
    <3>2. CASE FirstAttempt(r, o)  BY <2>1, <3>2 DEF FirstAttempt, Goto, Turns
    <3>3. CASE Reattempt(r, o)  BY <3>3 DEF Reattempt, Goto, Turns
    <3> QED  BY <3>1, <3>2, <3>3
  <2>3. CASE StartLock(r)  BY <1>2, <2>3 DEF StartLock, Finish, Goto, Turns
  <2>4. CASE TryLock(r)  BY <1>2, <2>2, <2>4 DEF TryLock
  <2>5. CASE GcFill(r)  BY <1>2, <2>2, <2>5 DEF GcFill, Goto, Turns
  <2>6. CASE GcClean(r)  BY <1>2, <2>2, <2>6 DEF GcClean
  <2>7. CASE SkipLocked(r)  BY <1>2, <2>1, <2>7 DEF SkipLocked
  <2>8. CASE ArgError(r)  BY <1>2, <2>8 DEF ArgError, Goto, Turns
  <2>9. CASE Unpend(r)  BY <1>2, <2>9 DEF Unpend, Finish, Goto, Turns
  <2>10. CASE EndRelease(r)  BY <1>2, <2>10 DEF EndRelease, Finish, Goto, Turns
  <2> QED  BY <1>5, <2>3, <2>4, <2>5, <2>6, <2>7, <2>8, <2>9, <2>10 DEF Ending
<1>6. ASSUME NEW r \in Proc, Run(r), ~Ending(r) PROVE FALSE
  <2>1. CASE OpLkname(r) \/ StartRelease(r)
    <3>1. Turns(r, FALSE)  BY <2>1 DEF OpLkname, StartRelease, Goto, Turns
    <3> QED  BY <1>1, <3>1
  <2>2. CASE mlk_bckout(r) \/ BckoutZallocate(r)
    <3>1. Turns(r, FALSE)  BY <2>2 DEF mlk_bckout, BckoutZallocate, Goto, Turns
    <3> QED  BY <1>1, <3>1
  <2>3. CASE TimerPop(r) \/ OutOfTime(r) \/ Poll(r) \/ CheckOwn(r) \/ Relinquish(r)
    <3>1. Turns(r, FALSE)  BY <2>3 DEF TimerPop, OutOfTime, Poll, CheckOwn, Relinquish, Goto, Turns
    <3> QED  BY <1>1, <3>1
  <2>4. CASE NeedGc(r) \/ GetGcLatch(r) \/ SalvageGcLatch(r) \/ check_pids(r)
    <3>1. Turns(r, FALSE)  BY <2>4 DEF NeedGc, GetGcLatch, SalvageGcLatch, check_pids, Goto, Turns
    <3> QED  BY <1>1, <3>1
  <2>5. CASE PruneStep(r) \/ UnlockStep(r) \/ op_decrlock(r) \/ op_zdealloc2(r)
    <3>1. pc' = pc  BY <2>5 DEF PruneStep, UnlockStep, op_decrlock, op_zdealloc2
    <3> QED  BY <3>1
  <2>6. CASE ExitStep(r) \/ StoreCounter(r) \/ StoreSequence(r) \/ StoreOwner(r)
    <3>1. Turns(r, FALSE)
      BY <2>6 DEF ExitStep, StoreCounter, StoreSequence, StoreOwner, Stored, Goto, Turns
    <3> QED  BY <1>1, <3>1
  <2>7. CASE ExitZdeallocate(r) \/ ExitDone(r)
    <3>1. Turns(r, FALSE)  BY <2>7 DEF ExitZdeallocate, ExitDone, Vanish, Goto, Turns
    <3> QED  BY <1>1, <3>1
  <2> QED  BY <1>6, <2>1, <2>2, <2>3, <2>4, <2>5, <2>6, <2>7 DEF Run, Ending
<1>7. ASSUME NEW r \in Proc, Interrupt(r) \/ Exit(r) \/ Kill(r) PROVE FALSE
  <2>1. Turns(r, FALSE)  BY <1>7 DEF Interrupt, Exit, Kill, Vanish, Goto, Turns
  <2> QED  BY <1>1, <2>1
<1>8. ASSUME NEW b \in Blk, LkeClear(b) PROVE FALSE
  BY <1>8 DEF LkeClear
<1>9. \/ \E r \in Proc : Ending(r) \/ Run(r)
  BY <1>3, <1>4, <1>7, <1>8 DEF Next, Ending
<1> QED  BY <1>5, <1>6, <1>9

LEMMA EndingQuiet ==
  ASSUME NEW p \in Proc, Ending(p)
  PROVE  nclear' = nclear
BY DEF Ending, StartLock, TryLock, GcFill, GcClean, SkipLocked, ArgError, Unpend, EndRelease, procvars

(* When LOCK, LOCK + or ZALLOCATE (op_lock2) completes, every name it was given *)
(* has a block in the private list that points to a node the process owns, as   *)
(* long as LKE CLEAR has not been used.  Without the second hypothesis it is    *)
(* false: after an error in an argument the names already entered stay marked,  *)
(* and a later command takes them for repetitions and does not lock them.       *)
THEOREM ReservedOnCompletion ==
  ASSUME "reorder" \notin Faults, "argerror" \notin Faults
  PROVE  Spec /\ []RepeatsFit => CompletedIsReserved
<1> DEFINE I == HeldInv /\ CmdInv
<1> DEFINE A == \A p \in Proc : nclear = 0 /\ Completes(p) =>
                  \A k \in DOMAIN loc[p].args : \E i \in DOMAIN pvt'[p] :
                    pvt'[p][i].name = loc[p].args[k] /\ OwnsNode(shr', pvt'[p][i], p)
<1>1. Init => I  BY InitHeld, InitCmd
<1>2. I /\ RepeatsFit /\ [Next]_vars => I'  BY StepHeld, StepCmd
<1>3. I /\ I' /\ [Next]_vars => [A]_vars
  <2> SUFFICES ASSUME I, I', [Next]_vars, NEW p \in Proc, nclear = 0, Completes(p),
                      NEW k \in DOMAIN loc[p].args
               PROVE  \E i \in DOMAIN pvt'[p] :
                        pvt'[p][i].name = loc[p].args[k] /\ OwnsNode(shr', pvt'[p][i], p)
    OBVIOUS
  <2>1. /\ Inv /\ pc[p] \in {"name", "lock", "gcfill", "gcclean"} /\ pc'[p] = "idle"
        /\ pc[p] # "name" /\ loc[p].op = "LOCK+" => Cur(p).level < LevelMax
    BY DEF HeldInv, TreeInv, Completes
  <2>2. Ending(p)  BY <2>1, EndsBy
  <2>3. CASE StartLock(p)  BY <2>1, <2>3, NamedCmd
  <2>4. CASE TryLock(p) \/ GcFill(p) \/ GcClean(p) \/ SkipLocked(p)
    <3>1. Granting(p)  BY <2>4, TryCmd, SkipCmd
    <3>2. pc[p] \in InLock  BY <2>4 DEF TryLock, GcFill, GcClean, SkipLocked, InLock
    <3>3. Cur(p) \in Pvtblk  BY <2>1, <3>2, LockListed
    <3>4. ~(loc[p].op = "LOCK+" /\ Cur(p).level >= LevelMax)
      <4>1. Cur(p).level \in Nat /\ LevelMax \in Nat  BY <3>3, CommandAssumption DEF Pvtblk
      <4>2. pc[p] # "name"  BY <3>2 DEF InLock
      <4> QED  BY <2>1, <4>1, <4>2
    <3>5. PICK i \in DOMAIN pvt'[p] : pvt'[p][i].name = loc[p].args[k] /\ pvt'[p][i].granted
      BY <2>1, <3>1, <3>4 DEF Granting
    <3>6. nclear' = 0  BY <2>2, EndingQuiet
    <3>7. HeldAt(p, shr', pc'[p], pvt'[p], loc'[p])
      <4>1. FitAt(p, shr', pc'[p], pvt'[p], loc'[p], nclear')  BY DEF HeldInv
      <4> QED  BY <2>1, <3>6, <4>1 DEF FitAt, Exiting, Ended
    <3> QED  BY <3>5, <3>7 DEF HeldAt, Holds
  <2>5. CASE ArgError(p)  BY <2>5 DEF ArgError
  <2>6. CASE Unpend(p) \/ EndRelease(p)  BY <2>1, <2>6 DEF Unpend, EndRelease
  <2> QED  BY <2>2, <2>3, <2>4, <2>5, <2>6 DEF Ending
<1> QED  BY <1>1, <1>2, <1>3, PTL DEF Spec, CompletedIsReserved

(* When an argumentless LOCK (op_unlock) completes, or a LOCK gives up by      *)
(* timeout or interrupt after mlk_bckout, the process owns no node but those   *)
(* it has ZALLOCATEd, and each of these has its block in the private list.     *)
(* The hypotheses are those of NoLockLeaks.                                   *)
THEOREM ReleasedOnUnlock ==
  ASSUME "reorder" \notin Faults, MaxClears = 0 \/ Faults \cap {"exit", "end"} = {}
  PROVE  Spec /\ []RepeatsFit => UnlockedIsReleased
<1> DEFINE I == HeldInv /\ CmdInv
<1> DEFINE A == \A p \in Proc :
                  /\ pc'[p] = "idle"
                  /\ \/ pc[p] = "unlock"
                     \/ pc[p] \in {"unpend", "prune"} /\ loc[p].op = "LOCK"
                  => \A b \in InUse(shr') : shr'.owner[b] = p =>
                       \E i \in DOMAIN pvt'[p] : pvt'[p][i].nodptr = b /\ pvt'[p][i].zalloc
<1>1. Init => I  BY InitHeld, InitCmd
<1>2. I /\ RepeatsFit /\ [Next]_vars => I'  BY StepHeld, StepCmd
<1>3. I /\ I' /\ [Next]_vars => [A]_vars
  <2> SUFFICES ASSUME I, I', [Next]_vars, NEW p \in Proc, pc'[p] = "idle",
                      \/ pc[p] = "unlock"
                      \/ pc[p] \in {"unpend", "prune"} /\ loc[p].op = "LOCK",
                      NEW b \in InUse(shr'), shr'.owner[b] = p
               PROVE  \E i \in DOMAIN pvt'[p] : pvt'[p][i].nodptr = b /\ pvt'[p][i].zalloc
    OBVIOUS
  <2>1. Inv  BY DEF HeldInv, TreeInv
  <2>2. Ending(p)  BY <2>1, EndsBy
  <2>3. Unpend(p) \/ EndRelease(p)
    BY <2>2 DEF Ending, StartLock, TryLock, GcFill, GcClean, SkipLocked, ArgError
  <2>4. OnlyZalloc(p)
    <3>1. CASE Unpend(p)
      <4>1. pc[p] = "unpend"  BY <3>1 DEF Unpend
      <4> QED  BY <3>1, <4>1, UnpendCmd
    <3>2. CASE EndRelease(p)
      <4>1. pc[p] # "unpend"  BY <3>2 DEF EndRelease
      <4> QED  BY <2>1, <3>2, <4>1, EndReleaseCmd
    <3> QED  BY <2>3, <3>1, <3>2
  <2>5. Undisturbed(nclear')
    <3>1. nclear' \in Nat /\ nclear' <= MaxClears  BY DEF HeldInv, TreeInv, Inv, TypeOK
    <3> QED  BY <3>1 DEF Undisturbed
  <2>6. LeakAt(p, shr', pc'[p], pvt'[p], loc'[p])
    <3>1. FitAt(p, shr', pc'[p], pvt'[p], loc'[p], nclear')  BY DEF HeldInv
    <3> QED  BY <2>5, <3>1 DEF FitAt, Exiting, Ended
  <2>7. b \in Blk  BY DEF InUse
  <2>8. ~Keeping(pc'[p], loc'[p])  BY DEF Keeping
  <2>9. PICK i \in DOMAIN pvt'[p] : pvt'[p][i].nodptr = b /\ pvt'[p][i].granted
    BY <2>6, <2>7, <2>8 DEF LeakAt
  <2> QED  BY <2>4, <2>9 DEF OnlyZalloc
<1> QED  BY <1>1, <1>2, <1>3, PTL DEF Spec, UnlockedIsReleased

-----------------------------------------------------------------------------
(* The queues *)
(*                                                                         *)
(* QueueInv, with TreeInv, is inductive.  A process that owned the node it    *)
(* is queued on would be told by mlk_lock that it has the lock, and stay in   *)
(* the queue; and mlk_lock looks for the node by name, so that the process    *)
(* leaves the right queue only because the node it is queued on has the name  *)
(* it waits for.                                                            *)

(* The prcblks are accounted for, and nobody is queued twice. *)
Orderly(s) == Accounted(s) /\ \A b \in Blk : Single(s.pending[b])

(* Whoever of S is queued in t was queued on the same node of s. *)
Remains(t, s, S) ==
  \A b \in Blk, x \in S : Queued(t, b, x) # {} => Queued(s, b, x) # {} /\ t.name[b] = s.name[b]

LEMMA TidyOrderly ==
  ASSUME NEW s, NEW t, Tidy(t, s), Orderly(s)
  PROVE  Orderly(t) /\ Remains(t, s, Proc)
<1>1. Orderly(t)  BY DEF Orderly, Tidy, Thins
<1>2. ASSUME NEW b \in Blk, NEW x \in Proc, Queued(t, b, x) # {}
      PROVE  Queued(s, b, x) # {} /\ t.name[b] = s.name[b]
  <2>1. PICK i \in DOMAIN t.pending[b] : t.pending[b][i].process_id = x  BY <1>2 DEF Queued
  <2>2. PICK j \in DOMAIN s.pending[b] : s.pending[b][j].process_id = x  BY <2>1 DEF Tidy, Thins
  <2>3. j \in Queued(s, b, x)  BY <2>2 DEF Queued
  <2> QED  BY <2>1, <2>3 DEF Tidy, Thins
<1> QED  BY <1>1, <1>2 DEF Remains

(* What mlk_lock does to the queues: the caller is queued afterwards only on  *)
(* the node it points to, and only if it did not get the lock.               *)
LEMMA LockQueues ==
  ASSUME NEW s0, Sound(s0), Orderly(s0), NEW e \in Pvtblk, NEW p \in Proc, NEW new \in BOOLEAN,
         NEW y \in YieldPid, NEW live, live \subseteq Proc,
         NEW r \in mlk_lock(s0, e, p, new, y, live),
         \A b \in Blk : Queued(s0, b, p) # {} => ~new /\ s0.name[b] = e.name /\ s0.owner[b] # p
  PROVE  /\ Orderly(r.space) /\ Remains(r.space, s0, Proc \ {p})
         /\ \A b \in Blk : Queued(r.space, b, p) # {} =>
              /\ ~r.got /\ r.e.nodptr = b
              /\ r.space.name[b] = e.name /\ r.space.owner[b] # p
<1>0. s0 \in Space /\ e.name \in Name  BY DEF Sound, Pvtblk
<1>1. PICK f \in mlk_shrblk_find(s0, p, e.name, y, live) :
        r = LET s  == f.space
                d  == f.d
                e1 == IF f.blocked = NoBlk THEN e
                      ELSE [e EXCEPT !.blocked = f.blocked, !.blk_sequence = s0.sequence[f.blocked]]
                s1 == IF new THEN mlk_prcblk_add(s, d, p) ELSE s
                s2 == Grant(IF new THEN s ELSE mlk_prcblk_delete(s, d, p), d, p)
            IN IF d = NoBlk THEN [space |-> s, e |-> e1, got |-> FALSE, yield |-> f.yield]
               ELSE IF s.owner[d] = p
               THEN [space |-> s, e |-> [e1 EXCEPT !.nodptr = d], got |-> TRUE, yield |-> f.yield]
               ELSE IF f.isblocked
               THEN [space |-> TakeSequence(s1),
                     e |-> IF new /\ ~prcblk_added(s, d, p) THEN e1
                           ELSE [e1 EXCEPT !.nodptr = d, !.sequence = s.sequence[d]],
                     got |-> FALSE, yield |-> f.yield]
               ELSE [space |-> s2,
                     e |-> [e1 EXCEPT !.nodptr = d, !.sequence = s2.sequence[d]],
                     got |-> TRUE, yield |-> f.yield]
  BY DEF mlk_lock
<1> DEFINE e0 == IF f.blocked = NoBlk THEN e
                 ELSE [e EXCEPT !.blocked = f.blocked, !.blk_sequence = s0.sequence[f.blocked]]
<1>2. PICK s, d : s = f.space /\ d = f.d  OBVIOUS
<1>3. \/ d = NoBlk /\ r.space = s
      \/ d # NoBlk /\ s.owner[d] = p /\ r.space = s
      \/ /\ d # NoBlk /\ s.owner[d] # p /\ ~r.got /\ new
         /\ r.space = TakeSequence(mlk_prcblk_add(s, d, p))
         /\ prcblk_added(s, d, p) => r.e = [e0 EXCEPT !.nodptr = d, !.sequence = s.sequence[d]]
      \/ /\ d # NoBlk /\ s.owner[d] # p /\ ~r.got /\ ~new
         /\ r.space = TakeSequence(s)
         /\ r.e = [e0 EXCEPT !.nodptr = d, !.sequence = s.sequence[d]]
      \/ d # NoBlk /\ new /\ r.space = Grant(s, d, p)
      \/ d # NoBlk /\ ~new /\ r.space = Grant(mlk_prcblk_delete(s, d, p), d, p)
  BY <1>1, <1>2, Zenon
<1>4. /\ s \in Space /\ Weaker(s, s0) /\ d \in Blk \cup {NoBlk} /\ f.blocked \in Blk \cup {NoBlk}
  BY <1>0, <1>2, FindType
<1>5. /\ Sound(s) /\ (d # NoBlk => d \in InUse(s) /\ s.name[d] = e.name)
      /\ (\E b \in InUse(s0) : s0.name[b] = e.name) => d # NoBlk
  <2>1. Found(f, s0, p, e.name, live)  BY <1>0, FindFrame
  <2> QED  BY <1>2, <2>1 DEF Found
<1>6. e0 \in Pvtblk
  <2>1. CASE f.blocked # NoBlk
    <3>1. PICK x \in Seqno : x = s0.sequence[f.blocked]  BY <1>0, <1>4, <2>1 DEF Space
    <3>2. e0 = [e EXCEPT !.blocked = f.blocked, !.blk_sequence = x] /\ f.blocked \in Blk
      BY <1>4, <2>1, <3>1
    <3> HIDE DEF e0
    <3> QED  BY <3>2, PvtblkNode
  <2> QED  BY <2>1
<1> HIDE DEF e0
<1>7. d # NoBlk => [e0 EXCEPT !.nodptr = d, !.sequence = s.sequence[d]].nodptr = d
  BY <1>6 DEF Pvtblk
<1>8. Orderly(s) /\ Remains(s, s0, Proc)
  <2>1. Tidy(s, s0)  BY <1>0, <1>2, FindTidy
  <2> QED  BY <2>1, TidyOrderly
<1>9. ASSUME NEW b \in Blk, Queued(s, b, p) # {}
      PROVE  ~new /\ b = d /\ s.owner[b] # p /\ s.name[b] = e.name
  <2>1. ~new /\ s0.name[b] = e.name /\ s0.owner[b] # p /\ s.name[b] = e.name
    BY <1>8, <1>9 DEF Remains
  <2>2. b \in InUse(s0) /\ b \in InUse(s)  BY <1>0, <2>1 DEF InUse
  <2>3. d # NoBlk  BY <1>5, <2>1, <2>2
  <2>4. b = d  BY <1>5, <2>1, <2>2, <2>3 DEF Sound, UniqueNames
  <2>5. s.owner[b] # p  BY <1>4, <2>1, NullAssumption DEF Weaker
  <2> QED  BY <2>1, <2>4, <2>5
<1>10. ASSUME NEW t, Remains(t, s, Proc \ {p}) PROVE Remains(t, s0, Proc \ {p})
  BY <1>8, <1>10 DEF Remains
<1>11. Remains(s, s, Proc \ {p})  BY DEF Remains
<1>12. CASE d = NoBlk /\ r.space = s
  <2>1. \A b \in Blk : b # d  BY <1>12, NullAssumption DEF Blk, NoBlk
  <2> QED  BY <1>8, <1>9, <1>10, <1>11, <1>12, <2>1
<1>13. CASE d # NoBlk /\ s.owner[d] = p /\ r.space = s
  BY <1>8, <1>9, <1>10, <1>11, <1>13
<1> SUFFICES ASSUME d # NoBlk PROVE
         /\ Orderly(r.space) /\ Remains(r.space, s0, Proc \ {p})
         /\ \A b \in Blk : Queued(r.space, b, p) # {} =>
              /\ ~r.got /\ r.e.nodptr = b
              /\ r.space.name[b] = e.name /\ r.space.owner[b] # p
  BY <1>3, <1>12, <1>13
<1>14. d \in Blk /\ s.name[d] = e.name  BY <1>4, <1>5
<1>15. CASE /\ s.owner[d] # p /\ ~r.got /\ new
            /\ r.space = TakeSequence(mlk_prcblk_add(s, d, p))
            /\ prcblk_added(s, d, p) => r.e = [e0 EXCEPT !.nodptr = d, !.sequence = s.sequence[d]]
  <2>1. \A b \in Blk : Queued(s, b, p) = {}  BY <1>9, <1>15
  <2>2. PICK t : t = mlk_prcblk_add(s, d, p)  OBVIOUS
  <2>3. Single(s.pending[d]) /\ Accounted(s)  BY <1>8, <1>14 DEF Orderly
  <2>4. /\ Accounted(t) /\ Single(t.pending[d]) /\ t.name = s.name /\ t.owner = s.owner
        /\ \A b \in Blk \ {d} : t.pending[b] = s.pending[b]
        /\ \A x \in Proc \ {p} : Queued(t, d, x) # {} => Queued(s, d, x) # {}
        /\ Queued(t, d, p) # {} => prcblk_added(s, d, p)
    BY <1>4, <1>14, <2>1, <2>2, <2>3, AddTidy
  <2>5. Orderly(t)
    <3>1. \A b \in Blk : Single(t.pending[b])  BY <1>8, <2>4 DEF Orderly
    <3> QED  BY <2>4, <3>1 DEF Orderly
  <2>6. Remains(t, s, Proc \ {p})
    <3> SUFFICES ASSUME NEW b \in Blk, NEW x \in Proc \ {p}, Queued(t, b, x) # {}
                 PROVE  Queued(s, b, x) # {} /\ t.name[b] = s.name[b]
      BY DEF Remains
    <3>1. CASE b = d  BY <2>4, <3>1
    <3>2. CASE b # d
      <4>1. Queued(t, b, x) = Queued(s, b, x)  BY <2>4, <3>2 DEF Queued
      <4> QED  BY <2>4, <4>1
    <3> QED  BY <3>1, <3>2
  <2>7. t \in Space  BY <1>4, <1>14, <2>2, PrcblkAddType
  <2>8. PICK u : u = TakeSequence(t)  OBVIOUS
  <2>9. u.pending = t.pending /\ u.name = t.name /\ u.owner = t.owner
    BY <2>7, <2>8, TakeSequenceType
  <2>10. Orderly(u)  BY <2>5, <2>7, <2>8, TakeSequenceTidy, TidyOrderly
  <2>11. Remains(u, s, Proc \ {p})  BY <2>6, <2>9 DEF Remains, Queued
  <2>12. ASSUME NEW b \in Blk, Queued(u, b, p) # {} PROVE b = d /\ prcblk_added(s, d, p)
    <3>1. Queued(t, b, p) # {}  BY <2>9, <2>12 DEF Queued
    <3>2. b # d => Queued(t, b, p) = Queued(s, b, p)  BY <2>4 DEF Queued
    <3> QED  BY <2>1, <2>4, <3>1, <3>2
  <2>13. r.space = u  BY <1>15, <2>2, <2>8
  <2> QED  BY <1>7, <1>10, <1>14, <1>15, <2>4, <2>9, <2>10, <2>11, <2>12, <2>13
<1>16. CASE /\ s.owner[d] # p /\ ~r.got /\ ~new
            /\ r.space = TakeSequence(s)
            /\ r.e = [e0 EXCEPT !.nodptr = d, !.sequence = s.sequence[d]]
  <2>1. PICK u : u = TakeSequence(s)  OBVIOUS
  <2>2. u.pending = s.pending /\ u.name = s.name /\ u.owner = s.owner
    BY <1>4, <2>1, TakeSequenceType
  <2>3. Orderly(u)  BY <1>4, <1>8, <2>1, TakeSequenceTidy, TidyOrderly
  <2>4. Remains(u, s, Proc \ {p})  BY <2>2 DEF Remains, Queued
  <2>5. \A b \in Blk : Queued(u, b, p) = Queued(s, b, p)  BY <2>2 DEF Queued
  <2>6. r.space = u /\ r.e.nodptr = d  BY <1>7, <1>16, <2>1
  <2> QED  BY <1>9, <1>10, <1>16, <2>2, <2>3, <2>4, <2>5, <2>6
<1>17. ASSUME NEW t \in Space, Orderly(t), Remains(t, s, Proc \ {p}), r.space = Grant(t, d, p),
              \A b \in Blk : Queued(t, b, p) = {}
       PROVE  /\ Orderly(r.space) /\ Remains(r.space, s0, Proc \ {p})
              /\ \A b \in Blk : Queued(r.space, b, p) = {}
  <2>1. Orderly(r.space) /\ Remains(r.space, t, Proc)  BY <1>14, <1>17, GrantTidy, TidyOrderly
  <2>2. Remains(r.space, s, Proc \ {p})  BY <1>17, <2>1 DEF Remains
  <2> QED  BY <1>10, <1>17, <2>1, <2>2 DEF Remains
<1>18. CASE new /\ r.space = Grant(s, d, p)
  <2>1. \A b \in Blk : Queued(s, b, p) = {}  BY <1>9, <1>18
  <2> QED  BY <1>4, <1>8, <1>11, <1>17, <1>18, <2>1
<1>19. CASE ~new /\ r.space = Grant(mlk_prcblk_delete(s, d, p), d, p)
  <2>1. PICK t : t = mlk_prcblk_delete(s, d, p)  OBVIOUS
  <2>2. Single(s.pending[d])  BY <1>8, <1>14 DEF Orderly
  <2>3. t \in Space  BY <1>4, <1>14, <2>1, PrcblkDeleteType
  <2>4. Tidy(t, s) /\ Queued(t, d, p) = {}  BY <1>4, <1>14, <2>1, <2>2, DeleteTidy
  <2>5. Orderly(t) /\ Remains(t, s, Proc)  BY <1>8, <2>4, TidyOrderly
  <2>6. \A b \in Blk : Queued(t, b, p) = {}  BY <1>9, <2>4, <2>5 DEF Remains
  <2>7. Remains(t, s, Proc \ {p})  BY <2>5 DEF Remains
  <2> QED  BY <1>17, <1>19, <2>1, <2>3, <2>5, <2>6, <2>7
<1> QED  BY <1>3, <1>13, <1>15, <1>16, <1>18, <1>19

(* p waits for the lock at pos, whose node is b, and has not got it. *)
WaitsAt(p, s, b, l, q, m) ==
  /\ l \in InLock \ {"relinquish"} /\ ~m.new
  /\ q[m.pos].nodptr = b /\ q[m.pos].name = s.name[b] /\ s.owner[b] # p

QueuedAt(p, s, l, q, m) ==
  InCall(l) => \A b \in Blk : Queued(s, b, p) # {} => WaitsAt(p, s, b, l, q, m)

QueueInv ==
  /\ Orderly(shr)
  /\ \A p \in Proc : QueuedAt(p, shr, pc[p], pvt[p], loc[p])

(* At most p moves. *)
Sole(p) ==
  /\ pc' = pc \/ \E l : pc' = [pc EXCEPT ![p] = l]
  /\ pvt' = pvt \/ \E q : pvt' = [pvt EXCEPT ![p] = q]
  /\ loc' = loc \/ \E m : loc' = [loc EXCEPT ![p] = m]

LEMMA SoleElsewhere ==
  ASSUME Inv, NEW p \in Proc, Sole(p)
  PROVE  Elsewhere(p)
<1>0. pc \in [Proc -> PC] /\ pvt \in [Proc -> Seq(Pvtblk)] /\ loc \in [Proc -> Local]
  BY DEF Inv, TypeOK
<1>1. \A r \in Proc \ {p} : pc'[r] = pc[r]  BY <1>0 DEF Sole
<1>2. \A r \in Proc \ {p} : pvt'[r] = pvt[r]  BY <1>0 DEF Sole
<1>3. \A r \in Proc \ {p} : loc'[r] = loc[r]  BY <1>0 DEF Sole
<1> QED  BY <1>1, <1>2, <1>3 DEF Elsewhere

LEMMA QueueStep ==
  ASSUME QueueInv, NEW p \in Proc, Elsewhere(p), Orderly(shr'), Remains(shr', shr, Proc \ {p}),
         \A b \in Blk : shr'.owner[b] \in Proc \ {p} => shr.owner[b] = shr'.owner[b],
         QueuedAt(p, shr', pc'[p], pvt'[p], loc'[p])
  PROVE  QueueInv'
<1> SUFFICES ASSUME NEW r \in Proc, r # p, InCall(pc[r]), NEW b \in Blk, Queued(shr', b, r) # {}
             PROVE  WaitsAt(r, shr', b, pc[r], pvt[r], loc[r])
  BY DEF QueueInv, QueuedAt, Elsewhere
<1>1. Queued(shr, b, r) # {} /\ shr'.name[b] = shr.name[b]  BY DEF Remains
<1>2. WaitsAt(r, shr, b, pc[r], pvt[r], loc[r])  BY <1>1 DEF QueueInv, QueuedAt
<1>3. shr'.owner[b] # r  BY <1>2 DEF WaitsAt
<1> QED  BY <1>1, <1>2, <1>3 DEF WaitsAt

(* The queues of p: it does not wait, or goes, or waits on for the same node. *)
Steady(p) ==
  \/ InCall(pc[p]) /\ (pc[p] \notin InLock \ {"relinquish"} \/ loc[p].new)
  \/ ~InCall(pc'[p])
  \/ /\ InCall(pc[p]) /\ pc'[p] \in InLock \ {"relinquish"} /\ loc'[p].new = loc[p].new
     /\ pvt'[p][loc'[p].pos].nodptr = pvt[p][loc[p].pos].nodptr
     /\ pvt'[p][loc'[p].pos].name = pvt[p][loc[p].pos].name

LEMMA TidyStep ==
  ASSUME QueueInv, NEW p \in Proc, Elsewhere(p), Tidy(shr', shr), Weaker(shr', shr), Steady(p)
  PROVE  QueueInv'
<1>1. Orderly(shr') /\ Remains(shr', shr, Proc)  BY TidyOrderly DEF QueueInv
<1>2. Remains(shr', shr, Proc \ {p})  BY <1>1 DEF Remains
<1>3. \A b \in Blk, r \in Proc : shr'.owner[b] = r => shr.owner[b] = r
  BY NullAssumption DEF Weaker
<1>4. ASSUME InCall(pc'[p]), NEW b \in Blk, Queued(shr', b, p) # {}
      PROVE  WaitsAt(p, shr', b, pc'[p], pvt'[p], loc'[p])
  <2>1. InCall(pc[p])  BY <1>4 DEF Steady
  <2>2. Queued(shr, b, p) # {} /\ shr'.name[b] = shr.name[b]  BY <1>1, <1>4 DEF Remains
  <2>3. WaitsAt(p, shr, b, pc[p], pvt[p], loc[p])  BY <2>1, <2>2 DEF QueueInv, QueuedAt
  <2>4. shr'.owner[b] # p  BY <1>3, <2>3 DEF WaitsAt
  <2> QED  BY <1>4, <2>2, <2>3, <2>4 DEF WaitsAt, Steady
<1> QED  BY <1>1, <1>2, <1>3, <1>4, QueueStep DEF QueuedAt

LEMMA QuietTidy ==
  ASSUME TreeInv, shr' = shr
  PROVE  Tidy(shr', shr) /\ Weaker(shr', shr)
BY TidySame DEF TreeInv, Inv, TypeOK, Weaker

(* Outside of op_lock2, and while it makes a first attempt, nobody waits. *)
LEMMA FreeQueue ==
  ASSUME TreeInv, QueueInv, NEW p \in Proc,
         \/ \E c \in Commands[p] : Begin(p, c)
         \/ OpLkname(p) \/ StartLock(p) \/ StartRelease(p) \/ ArgError(p)
         \/ SkipLocked(p) \/ EndRelease(p)
  PROVE  QueueInv'
<1>1. Inv /\ shr' = shr
  BY DEF TreeInv, Begin, OpLkname, StartLock, StartRelease, ArgError, SkipLocked, EndRelease
<1>2. /\ InCall(pc[p]) /\ (pc[p] \notin InLock \ {"relinquish"} \/ loc[p].new)
  BY DEF Begin, OpLkname, StartLock, StartRelease, ArgError, SkipLocked, EndRelease,
         AlreadyLocked, InCall, InLock, Exiting, Ended
<1>3. Elsewhere(p)
  <2>1. CASE \E c \in Commands[p] : Begin(p, c)
    <3>1. PICK c \in Commands[p] : Begin(p, c)  BY <2>1
    <3>2. Sole(p)  BY <3>1, Zenon DEF Begin, Goto, Sole
    <3> QED  BY <1>1, <3>2, SoleElsewhere
  <2>2. CASE OpLkname(p)
    <3>1. Sole(p)  BY <2>2, Zenon DEF OpLkname, Sole
    <3> QED  BY <1>1, <3>1, SoleElsewhere
  <2>3. CASE StartLock(p)
    <3>1. Sole(p)  BY <2>3, Zenon DEF StartLock, Finish, Goto, Sole
    <3> QED  BY <1>1, <3>1, SoleElsewhere
  <2>4. CASE StartRelease(p)
    <3>1. Sole(p)  BY <2>4, Zenon DEF StartRelease, Goto, Sole
    <3> QED  BY <1>1, <3>1, SoleElsewhere
  <2>5. CASE ArgError(p)
    <3>1. Sole(p)  BY <2>5, Zenon DEF ArgError, Goto, Sole
    <3> QED  BY <1>1, <3>1, SoleElsewhere
  <2>6. CASE SkipLocked(p)  BY <2>6, ObtainedOrdinary DEF SkipLocked
  <2>7. CASE EndRelease(p)
    <3>1. Sole(p)  BY <2>7, Zenon DEF EndRelease, Finish, Goto, Sole
    <3> QED  BY <1>1, <3>1, SoleElsewhere
  <2> QED  BY <2>1, <2>2, <2>3, <2>4, <2>5, <2>6, <2>7
<1>4. Tidy(shr', shr) /\ Weaker(shr', shr)  BY <1>1, QuietTidy
<1> QED  BY <1>2, <1>3, <1>4, TidyStep DEF Steady

LEMMA UnlockSafe ==
  ASSUME TreeInv, NEW p \in Proc, NEW e, e.nodptr \in Blk \cup {NoBlk},
         shr' = mlk_unlock(shr, e, p, alive)
  PROVE  Tidy(shr', shr) /\ Weaker(shr', shr)
<1>1. Sound(shr) /\ shr \in Space  BY DEF TreeInv, Inv, TypeOK
<1> QED  BY <1>1, UnlockTidy, UnlockType

LEMMA WalkQueue ==
  ASSUME TreeInv, QueueInv, NEW p \in Proc,
         PruneStep(p) \/ UnlockStep(p) \/ op_decrlock(p) \/ op_zdealloc2(p)
  PROVE  QueueInv'
<1>1. /\ Inv /\ pc' = pc /\ pc[p] \in Walking \cup {"exitzd"} /\ loc[p].left > 0
      /\ shr' = shr \/ shr' = mlk_unlock(shr, Cur(p), p, alive)
  BY DEF TreeInv, PruneStep, UnlockStep, op_decrlock, op_zdealloc2, Walking
<1>2. DropCur(p) \/ \E e : KeepCur(p, e)
  BY Zenon DEF PruneStep, UnlockStep, op_decrlock, op_zdealloc2
<1>3. Sole(p)  BY <1>1, <1>2, Zenon DEF DropCur, KeepCur, Update, Sole
<1>4. Elsewhere(p)  BY <1>1, <1>3, SoleElsewhere
<1>5. Steady(p)
  BY <1>1 DEF Steady, Walking, InCall, InLock, Exiting, Ended
<1>6. PICK e : e = Cur(p) /\ e.nodptr \in Blk \cup {NoBlk}
  BY <1>1, WalkFacts DEF Walking, Releasing, Exiting
<1>7. Tidy(shr', shr) /\ Weaker(shr', shr)  BY <1>1, <1>6, QuietTidy, UnlockSafe
<1> QED  BY <1>4, <1>5, <1>7, TidyStep

LEMMA RelinquishQueue ==
  ASSUME TreeInv, QueueInv, NEW p \in Proc, Relinquish(p)
  PROVE  QueueInv'
<1>1. Inv /\ pc[p] = "relinquish" /\ shr' = mlk_unlock(shr, Cur(p), p, alive)
  BY DEF TreeInv, Relinquish
<1>2. Sole(p)  BY Zenon DEF Relinquish, Goto, Sole
<1>3. Elsewhere(p)  BY <1>1, <1>2, SoleElsewhere
<1>4. Steady(p)  BY <1>1 DEF Steady, InCall, Exiting, Ended
<1>5. PICK e : e = Cur(p) /\ e.nodptr \in Blk \cup {NoBlk}  BY <1>1, CurType DEF InLock
<1>6. Tidy(shr', shr) /\ Weaker(shr', shr)  BY <1>1, <1>5, UnlockSafe
<1> QED  BY <1>3, <1>4, <1>6, TidyStep

LEMMA GoneQueue ==
  ASSUME TreeInv, QueueInv, NEW p \in Proc,
         \/ BckoutZallocate(p) \/ Exit(p) \/ Kill(p) \/ ExitDone(p) \/ ExitZdeallocate(p) \/ ExitStep(p)
         \/ StoreCounter(p) \/ StoreSequence(p) \/ StoreOwner(p)
  PROVE  QueueInv'
<1>0. Inv /\ pc \in [Proc -> PC] /\ shr \in Space /\ shr' \in Space \cup {shr'}
  BY DEF TreeInv, Inv, TypeOK
<1>1. Sole(p) /\ ((pc' = pc /\ pc[p] \in Exiting) \/ \E l \in Exiting \cup Ended : pc' = [pc EXCEPT ![p] = l])
  <2>1. CASE BckoutZallocate(p)  BY <2>1 DEF BckoutZallocate, Goto, Ended, Sole
  <2>2. CASE Exit(p)  BY <2>2 DEF Exit, Goto, Exiting, Sole
  <2>3. CASE Kill(p) \/ ExitDone(p)  BY <2>3 DEF Kill, ExitDone, Vanish, Goto, Ended, Sole
  <2>4. CASE ExitZdeallocate(p)  BY <2>4 DEF ExitZdeallocate, Goto, Exiting, Sole
  <2>5. CASE ExitStep(p)  BY <2>5 DEF ExitStep, DropCur, KeepCur, Update, Goto, Exiting, Sole
  <2>6. CASE StoreCounter(p) \/ StoreSequence(p) \/ StoreOwner(p)
    <3>1. PICK what : Stored(p, what)  BY <2>6 DEF StoreCounter, StoreSequence, StoreOwner
    <3>2. pc[p] = "nocrit"  BY <2>6 DEF StoreCounter, StoreSequence, StoreOwner
    <3> QED  BY <3>1, <3>2 DEF Stored, DropCur, Goto, Exiting, Sole
  <2> QED  BY <2>1, <2>2, <2>3, <2>4, <2>5, <2>6
<1>2. Elsewhere(p) /\ pc'[p] \in Exiting \cup Ended  BY <1>0, <1>1, SoleElsewhere
<1>3. Tidy(shr', shr) /\ Weaker(shr', shr)
  <2>1. CASE shr' = shr  BY <2>1, QuietTidy
  <2>2. CASE StoreCounter(p)
    <3>1. /\ shr'.name = shr.name /\ shr'.owner = shr.owner /\ shr'.pending = shr.pending
          /\ shr'.prccnt = shr.prccnt
      BY <1>0, <2>2 DEF StoreCounter, Space
    <3> QED  BY <1>0, <3>1, TidySame DEF Weaker
  <2>3. CASE StoreSequence(p)
    <3>1. /\ shr'.name = shr.name /\ shr'.owner = shr.owner /\ shr'.pending = shr.pending
          /\ shr'.prccnt = shr.prccnt
      BY <1>0, <2>3 DEF StoreSequence, Space
    <3> QED  BY <1>0, <3>1, TidySame DEF Weaker
  <2>4. CASE StoreOwner(p)
    <3>1. shr' = ClearOwner(shr, {Cur(p).nodptr})  BY <2>4 DEF StoreOwner
    <3> QED  BY <1>0, <3>1, ClearOwnerType, ClearOwnerTidy DEF Weaker
  <2> QED
    BY <2>1, <2>2, <2>3, <2>4 DEF BckoutZallocate, Exit, Kill, ExitDone, Vanish, ExitZdeallocate, ExitStep
<1>4. Steady(p)  BY <1>2 DEF Steady, InCall
<1> QED  BY <1>2, <1>3, <1>4, TidyStep

LEMMA StayQueue ==
  ASSUME TreeInv, QueueInv, NEW p \in Proc,
         \/ TimerPop(p) \/ Interrupt(p) \/ OutOfTime(p) \/ CheckOwn(p) \/ Poll(p)
         \/ NeedGc(p) \/ GetGcLatch(p) \/ SalvageGcLatch(p) \/ check_pids(p)
         \/ GcFill(p) /\ ~LockIn(p, shr)
  PROVE  QueueInv'
<1>0. /\ Inv /\ Sound(shr) /\ shr \in Space /\ pc \in [Proc -> PC] /\ loc \in [Proc -> Local]
      /\ loc[p] \in Local
  BY DEF TreeInv, Inv, TypeOK
<1>1. /\ pc[p] \in InLock /\ pvt' = pvt
      /\ (pc' = pc /\ pc[p] # "relinquish") \/ \E l \in InLock \ {"relinquish"} : pc' = [pc EXCEPT ![p] = l]
      /\ \/ loc' = loc \/ loc' = [loc EXCEPT ![p].oot = TRUE] \/ loc' = [loc EXCEPT ![p].oob = TRUE]
         \/ \E T : loc' = [loc EXCEPT ![p].tab = T]
      /\ shr' = shr \/ shr' = mlk_check_own(shr, Cur(p), alive)
  <2>1. CASE TimerPop(p)  BY <2>1 DEF TimerPop, InLock
  <2>2. CASE Interrupt(p)  BY <2>2 DEF Interrupt, Goto, InLock
  <2>3. CASE OutOfTime(p)  BY <2>3 DEF OutOfTime, Goto, InLock
  <2>4. CASE CheckOwn(p)  BY <2>4 DEF CheckOwn, Goto, InLock
  <2>5. CASE Poll(p)  BY <2>5 DEF Poll, Goto, InLock
  <2>6. CASE NeedGc(p)  BY <2>6 DEF NeedGc, Goto, InLock
  <2>7. CASE GetGcLatch(p)  BY <2>7 DEF GetGcLatch, Goto, InLock
  <2>8. CASE SalvageGcLatch(p)  BY <2>8 DEF SalvageGcLatch, InLock
  <2>9. CASE check_pids(p)  BY <2>9 DEF check_pids, Goto, InLock
  <2>10. CASE GcFill(p) /\ ~LockIn(p, shr)  BY <2>10 DEF GcFill, Goto, InLock
  <2> QED  BY <2>1, <2>2, <2>3, <2>4, <2>5, <2>6, <2>7, <2>8, <2>9, <2>10
<1>2. Elsewhere(p) /\ pc'[p] \in InLock \ {"relinquish"} /\ InCall(pc[p])
  <2>1. Sole(p)  BY <1>1, Zenon DEF Sole
  <2> QED  BY <1>0, <1>1, <2>1, SoleElsewhere DEF InCall, InLock, Exiting, Ended
<1>3. loc'[p].new = loc[p].new /\ loc'[p].pos = loc[p].pos  BY <1>0, <1>1 DEF Local
<1>4. Steady(p)  BY <1>1, <1>2, <1>3 DEF Steady
<1>5. Tidy(shr', shr) /\ Weaker(shr', shr)
  BY <1>0, <1>1, QuietTidy, CheckOwnTidy, CheckOwnType
<1> QED  BY <1>2, <1>4, <1>5, TidyStep

(* mlk_bckout goes through the locks before the one p waits for. *)
LEMMA BckoutQueue ==
  ASSUME TreeInv, QueueInv, NEW p \in Proc, mlk_bckout(p)
  PROVE  QueueInv'
<1>0. /\ Inv /\ pc \in [Proc -> PC] /\ pvt \in [Proc -> Seq(Pvtblk)] /\ loc \in [Proc -> Local]
      /\ pvt[p] \in Seq(Pvtblk) /\ loc[p] \in Local /\ pc[p] = "bckout" /\ pc[p] \in InLock
      /\ DOMAIN pvt[p] = 1 .. Len(pvt[p]) /\ Len(pvt[p]) \in Nat /\ lks[p] \in Nat
      /\ Listed(pc[p], pvt[p], lks[p], loc[p])
  BY CmdFacts DEF TreeInv, mlk_bckout, InLock
<1>1. PICK i : i = loc[p].pos - loc[p].left  OBVIOUS
<1>2. i \in DOMAIN pvt[p] /\ i # loc[p].pos  BY <1>0, <1>1 DEF Listed, InLock, Local
<1>3. PICK e \in Pvtblk : e = pvt[p][i]  BY <1>0, <1>2, CmdFacts
<1>4. /\ \E x : pvt' = [pvt EXCEPT ![p][i] = x]
      /\ shr' = shr \/ shr' = mlk_unlock(shr, e, p, alive)
      /\ pc' = [pc EXCEPT ![p] = IF BckoutDone(p) THEN "wait" ELSE "bckout"]
      /\ loc' = [loc EXCEPT ![p].left = @ - 1]
  BY <1>1, <1>3, Zenon DEF mlk_bckout, Update, Goto
<1>5. Elsewhere(p)
  <2>1. Sole(p)  BY <1>4, Zenon DEF Sole
  <2> QED  BY <1>0, <2>1, SoleElsewhere
<1>6. /\ pc'[p] \in InLock \ {"relinquish"} /\ loc'[p].new = loc[p].new /\ loc'[p].pos = loc[p].pos
      /\ pvt'[p][loc[p].pos] = pvt[p][loc[p].pos]
  BY <1>0, <1>2, <1>4 DEF Local, InLock
<1>7. Steady(p)  BY <1>0, <1>6 DEF Steady, InCall, Exiting, Ended
<1>8. e.nodptr \in Blk \cup {NoBlk}  BY <1>3, BlkFacts DEF Pvtblk
<1>9. Tidy(shr', shr) /\ Weaker(shr', shr)  BY <1>4, <1>8, QuietTidy, UnlockSafe
<1> QED  BY <1>5, <1>7, <1>9, TidyStep

(* Giving up, the process leaves the one queue it can be in. *)
LEMMA UnpendQueue ==
  ASSUME TreeInv, QueueInv, NEW p \in Proc, Unpend(p)
  PROVE  QueueInv'
<1>0. Inv /\ Sound(shr) /\ shr \in Space /\ pc[p] = "unpend" /\ pc[p] \in InLock /\ InCall(pc[p])
  BY DEF TreeInv, Inv, TypeOK, Unpend, InLock, InCall, Exiting, Ended
<1>1. Elsewhere(p)
  <2>1. Sole(p)  BY Zenon DEF Unpend, Finish, Goto, Sole
  <2> QED  BY <1>0, <2>1, SoleElsewhere
<1>2. PICK d \in Blk \cup {NoBlk} : d = Cur(p).nodptr  BY <1>0, CurType
<1>3. \A b \in Blk : Queued(shr, b, p) # {} => b = d
  BY <1>0, <1>2 DEF QueueInv, QueuedAt, WaitsAt, Cur
<1>4. /\ Tidy(shr', shr) /\ Weaker(shr', shr)
      /\ \A b \in Blk : Queued(shr', b, p) = {}
  <2>1. CASE d = NoBlk
    <3>1. shr' = shr  BY <1>2, <2>1 DEF Unpend
    <3>2. \A b \in Blk : b # d  BY <2>1 DEF Blk, NoBlk
    <3> QED  BY <1>3, <3>1, <3>2, QuietTidy
  <2>2. CASE d # NoBlk
    <3>1. d \in Blk /\ shr' = mlk_prcblk_delete(shr, d, p)  BY <1>2, <2>2 DEF Unpend, mlk_unpend
    <3>2. Single(shr.pending[d])  BY <3>1 DEF QueueInv, Orderly
    <3>3. Tidy(shr', shr) /\ Queued(shr', d, p) = {}  BY <1>0, <3>1, <3>2, DeleteTidy
    <3>4. Weaker(shr', shr)  BY <1>0, <3>1, PrcblkDeleteType DEF Weaker
    <3>5. Remains(shr', shr, Proc)  BY <3>3, TidyOrderly DEF QueueInv
    <3> QED  BY <1>3, <3>3, <3>4, <3>5 DEF Remains
  <2> QED  BY <2>1, <2>2
<1>5. Orderly(shr') /\ Remains(shr', shr, Proc)  BY <1>4, TidyOrderly DEF QueueInv
<1>6. Remains(shr', shr, Proc \ {p})  BY <1>5 DEF Remains
<1>7. \A b \in Blk : shr'.owner[b] \in Proc \ {p} => shr.owner[b] = shr'.owner[b]
  BY <1>4, NullAssumption DEF Weaker
<1>8. QueuedAt(p, shr', pc'[p], pvt'[p], loc'[p])  BY <1>4 DEF QueuedAt
<1> QED  BY <1>1, <1>5, <1>6, <1>7, <1>8, QueueStep

(* mlk_lock from the lock space s that the collector left. *)
LEMMA LockInQueue ==
  ASSUME TreeInv, QueueInv, NEW p \in Proc, pc[p] \in Trying,
         NEW s, Sound(s), OneOwnerPerBranch(s), Weaker(s, shr), Spares(s, shr, alive, {}), Tidy(s, shr),
         LockIn(p, s)
  PROVE  QueueInv'
<1>0. /\ pc[p] \in InLock /\ InCall(pc[p]) /\ Inv /\ pvt[p] \in Seq(Pvtblk) /\ loc[p] \in Local
      /\ s \in Space /\ alive \subseteq Proc /\ yield[p] \in YieldPid
  BY ProcFacts DEF Trying, InLock, InCall, Exiting, Ended, Sound, TreeInv, Inv, TypeOK
<1>1. PICK r \in mlk_lock(s, Cur(p), p, loc[p].new, yield[p], alive) :
        shr' = r.space /\ IF loc[p].new THEN FirstAttempt(p, r) ELSE Reattempt(p, r)
  BY DEF LockIn
<1>2. Elsewhere(p)  BY <1>1, LockInOrdinary
<1>3. PICK e \in Pvtblk : e = Cur(p) /\ e = pvt[p][loc[p].pos]  BY <1>0, CurType DEF Cur
<1>4. PICK n \in BOOLEAN : n = loc[p].new  BY <1>0 DEF Local
<1>5. r \in mlk_lock(s, e, p, n, yield[p], alive)  BY <1>1, <1>3, <1>4
<1>6. r.e \in Pvtblk  BY <1>0, <1>5, LockType
<1>7. SameClaim(r.e, e)  BY <1>0, <1>5, LockFrame
<1>8. PICK m : /\ Sound(m) /\ Weaker(m, s) /\ Spares(m, s, alive \cup {p}, {})
               /\ Refused(r, m, e, p) \/ FoundOwn(r, m, e, p) \/ Granted(r, m, e, p)
  BY <1>0, <1>5, LockFrame
<1>9. PICK x : Outcome(p, r, x)  BY <1>0, <1>1, <1>6, FirstOutcome, LaterOutcome
<1>10. \A b \in Blk : shr'.owner[b] \in Proc \ {p} => shr.owner[b] = shr'.owner[b]
  <2>1. Weaker(m, shr) /\ Spares(m, s, alive, {})  BY <1>8, WeakerTrans DEF Spares
  <2>2. Spares(m, shr, alive, {})  BY <2>1, SparesTrans
  <2>3. Frame(p)  BY <1>0, <1>1, <1>8, <2>1, <2>2, LockInFrame
  <2> QED  BY <2>3 DEF Frame
<1>11. Orderly(s) /\ Remains(s, shr, Proc)  BY TidyOrderly DEF QueueInv
<1>12. ASSUME NEW b \in Blk, Queued(s, b, p) # {} PROVE ~n /\ s.name[b] = e.name /\ s.owner[b] # p
  <2>1. Queued(shr, b, p) # {} /\ s.name[b] = shr.name[b]  BY <1>11, <1>12 DEF Remains
  <2>2. WaitsAt(p, shr, b, pc[p], pvt[p], loc[p])  BY <1>0, <2>1 DEF QueueInv, QueuedAt
  <2>3. s.owner[b] # p  BY <2>2, NullAssumption DEF WaitsAt, Weaker
  <2> QED  BY <1>3, <1>4, <2>1, <2>2, <2>3 DEF WaitsAt
<1>13. /\ Orderly(r.space) /\ Remains(r.space, s, Proc \ {p})
       /\ \A b \in Blk : Queued(r.space, b, p) # {} =>
            /\ ~r.got /\ r.e.nodptr = b
            /\ r.space.name[b] = e.name /\ r.space.owner[b] # p
  <2>1. PICK y \in YieldPid, live \in SUBSET Proc : y = yield[p] /\ live = alive  BY <1>0
  <2>2. r \in mlk_lock(s, e, p, n, y, live) /\ live \subseteq Proc  BY <1>5, <2>1
  <2>3. \A b \in Blk : Queued(s, b, p) # {} => ~n /\ s.name[b] = e.name /\ s.owner[b] # p  BY <1>12
  <2>4. Orderly(s)  BY <1>11
  <2> QED  BY <2>2, <2>3, <2>4, LockQueues
<1>14. Orderly(shr') /\ Remains(shr', shr, Proc \ {p})  BY <1>1, <1>11, <1>13 DEF Remains
<1>15. ASSUME NEW b \in Blk, Queued(shr', b, p) # {}
       PROVE  WaitsAt(p, shr', b, pc'[p], pvt'[p], loc'[p])
  <2>1. /\ ~r.got /\ r.e.nodptr = b /\ shr'.name[b] = e.name /\ shr'.owner[b] # p
    BY <1>1, <1>13, <1>15
  <2>2. /\ pc'[p] \in {"bckout", "wait", "checkown"} /\ ~loc'[p].new /\ loc'[p].pos = loc[p].pos
        /\ pvt'[p][loc[p].pos] = x /\ SameKey(x, r.e)
    BY <1>9, <2>1 DEF Outcome, Replaces
  <2>3. x.nodptr = b /\ x.name = e.name  BY <1>7, <2>1, <2>2 DEF SameKey, SameClaim
  <2>4. pc'[p] \in InLock \ {"relinquish"}  BY <2>2 DEF InLock
  <2> QED  BY <2>1, <2>2, <2>3, <2>4 DEF WaitsAt
<1>16. QueuedAt(p, shr', pc'[p], pvt'[p], loc'[p])  BY <1>15 DEF QueuedAt
<1> QED  BY <1>2, <1>10, <1>14, <1>16, QueueStep

LEMMA TryQueue ==
  ASSUME TreeInv, QueueInv, NEW p \in Proc, TryLock(p) \/ GcFill(p) \/ GcClean(p)
  PROVE  QueueInv'
<1>0. /\ Sound(shr) /\ OneOwnerPerBranch(shr) /\ Weaker(shr, shr) /\ Spares(shr, shr, alive, {})
      /\ shr \in Space /\ alive \subseteq Proc
  BY DEF TreeInv, Inv, TypeOK, Exclusion, Weaker, Spares
<1>1. Tidy(shr, shr)  BY <1>0, TidySame
<1>2. CASE TryLock(p) \/ (GcFill(p) /\ LockIn(p, shr))
  <2>1. pc[p] \in Trying /\ LockIn(p, shr)  BY <1>2 DEF TryLock, GcFill, Trying
  <2> QED  BY <1>0, <1>1, <2>1, LockInQueue
<1>3. CASE GcFill(p) /\ ~LockIn(p, shr)  BY <1>3, StayQueue
<1>4. CASE GcClean(p)
  <2>1. PICK s : s = clean_pids(shr, loc[p].tab)  OBVIOUS
  <2>2. pc[p] = "gcclean" /\ pc[p] \in Trying /\ LockIn(p, s)  BY <1>4, <2>1 DEF GcClean, Trying
  <2>3. loc[p].tab \cap alive = {}  BY <2>2 DEF TreeInv, LivesAt
  <2>4. Sound(s) /\ Weaker(s, shr) /\ Spares(s, shr, alive, {}) /\ Tidy(s, shr)
    BY <1>0, <2>1, <2>3, CleanFrame, CleanTidy
  <2>5. OneOwnerPerBranch(s)
    <3>1. s \in Space  BY <2>4 DEF Sound
    <3> QED  BY <1>0, <2>4, <3>1, WeakerKeeps
  <2> QED  BY <2>2, <2>4, <2>5, LockInQueue
<1> QED  BY <1>2, <1>3, <1>4

LEMMA LkeClearQueue ==
  ASSUME TreeInv, QueueInv, NEW b \in Blk, LkeClear(b)
  PROVE  QueueInv'
<1>0. Sound(shr) /\ shr \in Space /\ UNCHANGED <<pc, pvt, loc>> /\ shr' \in lke_cleartree(shr, b, alive)
  BY DEF TreeInv, Inv, TypeOK, LkeClear
<1>1. Tidy(shr', shr) /\ Weaker(shr', shr)  BY <1>0, LkeCleartreeTidy, LkeCleartreeType
<1>2. Orderly(shr') /\ Remains(shr', shr, Proc)  BY <1>1, TidyOrderly DEF QueueInv
<1>3. ASSUME NEW p \in Proc, InCall(pc[p]), NEW c \in Blk, Queued(shr', c, p) # {}
      PROVE  WaitsAt(p, shr', c, pc[p], pvt[p], loc[p])
  <2>1. Queued(shr, c, p) # {} /\ shr'.name[c] = shr.name[c]  BY <1>2, <1>3 DEF Remains
  <2>2. WaitsAt(p, shr, c, pc[p], pvt[p], loc[p])  BY <1>3, <2>1 DEF QueueInv, QueuedAt
  <2>3. shr'.owner[c] # p  BY <1>1, <2>2, NullAssumption DEF WaitsAt, Weaker
  <2> QED  BY <2>1, <2>2, <2>3 DEF WaitsAt
<1> QED  BY <1>0, <1>2, <1>3 DEF QueueInv, QueuedAt

LEMMA InitQueue == Init => QueueInv
<1> SUFFICES ASSUME Init PROVE QueueInv
  OBVIOUS
<1>1. shr = mlk_shr_init  BY DEF Init
<1>2. \A b \in Blk : shr.pending[b] = <<>>  BY <1>1 DEF mlk_shr_init
<1>3. shr.prccnt = max_prccnt  BY <1>1 DEF mlk_shr_init
<1>4. \A b \in Blk : Len(shr.pending[b]) = 0 /\ DOMAIN shr.pending[b] = {}  BY <1>2
<1>5. Slots(shr) = {}
  <2> SUFFICES ASSUME NEW b \in Blk, NEW i \in 1 .. max_prccnt, i <= Len(shr.pending[b]) PROVE FALSE
    BY DEF Slots
  <2>1. i <= 0  BY <1>4
  <2> QED  BY <2>1
<1>6. Cardinality(Slots(shr)) = 0  BY <1>5, FS_EmptySet
<1>7. max_prccnt \in Nat  BY SpaceAssumption
<1>8. Accounted(shr)  BY <1>3, <1>4, <1>6, <1>7 DEF Accounted
<1>9. \A b \in Blk : Single(shr.pending[b])  BY <1>4 DEF Single
<1>10. \A b \in Blk, p \in Proc : Queued(shr, b, p) = {}  BY <1>4 DEF Queued
<1> QED  BY <1>8, <1>9, <1>10 DEF QueueInv, QueuedAt, Orderly

LEMMA StepQueue ==
  ASSUME TreeInv, QueueInv, [Next]_vars
  PROVE  QueueInv'
<1>1. CASE UNCHANGED vars  BY <1>1 DEF vars, QueueInv, QueuedAt
<1>2. ASSUME NEW p \in Proc, NEW c \in Commands[p], Begin(p, c) PROVE QueueInv'
  BY <1>2, FreeQueue
<1>3. ASSUME NEW p \in Proc, Run(p) PROVE QueueInv'
  <2>1. CASE OpLkname(p) \/ StartLock(p) \/ StartRelease(p) \/ SkipLocked(p) \/ EndRelease(p)
    BY <2>1, FreeQueue
  <2>2. CASE TryLock(p) \/ GcFill(p) \/ GcClean(p)  BY <2>2, TryQueue
  <2>3. CASE mlk_bckout(p) \/ Relinquish(p) \/ Unpend(p)
    BY <2>3, BckoutQueue, RelinquishQueue, UnpendQueue
  <2>4. CASE \/ TimerPop(p) \/ OutOfTime(p) \/ Poll(p) \/ CheckOwn(p)
             \/ NeedGc(p) \/ GetGcLatch(p) \/ SalvageGcLatch(p) \/ check_pids(p)
    BY <2>4, StayQueue
  <2>5. CASE PruneStep(p) \/ UnlockStep(p) \/ op_decrlock(p) \/ op_zdealloc2(p)
    BY <2>5, WalkQueue
  <2>6. CASE \/ ExitStep(p) \/ StoreCounter(p) \/ StoreSequence(p) \/ StoreOwner(p)
             \/ BckoutZallocate(p) \/ ExitZdeallocate(p) \/ ExitDone(p)
    BY <2>6, GoneQueue
  <2> QED  BY <1>3, <2>1, <2>2, <2>3, <2>4, <2>5, <2>6 DEF Run
<1>4. ASSUME NEW p \in Proc, ArgError(p) \/ Interrupt(p) \/ Exit(p) \/ Kill(p) PROVE QueueInv'
  BY <1>4, FreeQueue, StayQueue, GoneQueue
<1>5. ASSUME NEW b \in Blk, LkeClear(b) PROVE QueueInv'
  BY <1>5, LkeClearQueue
<1> QED  BY <1>1, <1>2, <1>3, <1>4, <1>5 DEF Next

(* No prcblk is lost or counted twice: what mlk_prcblk_add takes from the      *)
(* free list is in exactly one queue until mlk_prcblk_delete, mlk_wake_pending *)
(* or clean_pids puts it back, and a node that is freed has no queue, whatever *)
(* processes die in a queue and whoever runs out of prcblks.                   *)
THEOREM PrcblksKept == Spec /\ []RepeatsFit => []PrcblksConserved
<1>1. TreeInv /\ QueueInv => PrcblksConserved
  <2> SUFFICES ASSUME TreeInv, QueueInv PROVE PrcblksConserved
    OBVIOUS
  <2>1. shr.prccnt + Cardinality(Slots(shr)) = max_prccnt  BY DEF QueueInv, Orderly, Accounted
  <2>2. \A b \in Free(shr) : Vacant(shr, b)  BY DEF TreeInv, Sound, FreeVacant
  <2> QED  BY <2>1, <2>2 DEF PrcblksConserved, Slots
<1>2. Init => TreeInv /\ QueueInv  BY InitTree, InitQueue
<1>3. TreeInv /\ QueueInv /\ RepeatsFit /\ [Next]_vars => (TreeInv /\ QueueInv)'  BY StepPromised, StepQueue
<1> QED  BY <1>1, <1>2, <1>3, PTL DEF Spec

(* A running process is in no queue but that of the node of the lock it is     *)
(* waiting for, and there only once: mlk_lock takes it out of the queue when   *)
(* it grants the lock and mlk_unpend when op_lock2 gives up, so that no        *)
(* release wakes a process for a lock that it does not want any more.          *)
THEOREM WaitersQueued == Spec /\ []RepeatsFit => []QueuedIsWaiting
<1>1. TreeInv /\ QueueInv => QueuedIsWaiting
  <2> SUFFICES ASSUME TreeInv, QueueInv, NEW b \in Blk, NEW i \in DOMAIN shr.pending[b],
                      NEW x, x = shr.pending[b][i].process_id
               PROVE  /\ shr.pending[b][i].ref_cnt = 1
                      /\ Queued(shr, b, x) = {i}
                      /\ Running(x) => pc[x] \in InLock /\ ~loc[x].new /\ Cur(x).nodptr = b
    BY DEF QueuedIsWaiting
  <2>1. Single(shr.pending[b])  BY DEF QueueInv, Orderly
  <2>2. shr.pending[b][i].ref_cnt = 1  BY <2>1 DEF Single
  <2>3. Queued(shr, b, x) = {i}  BY <2>1 DEF Single, Queued
  <2>4. ASSUME Running(x) PROVE pc[x] \in InLock /\ ~loc[x].new /\ Cur(x).nodptr = b
    <3>1. x \in Proc  BY <2>4 DEF Running, TreeInv, Inv, TypeOK
    <3>2. InCall(pc[x])  BY <2>4, <3>1 DEF Running, TreeInv, LivesAt, InCall
    <3>3. WaitsAt(x, shr, b, pc[x], pvt[x], loc[x])  BY <2>3, <3>1, <3>2 DEF QueueInv, QueuedAt
    <3> QED  BY <3>3 DEF WaitsAt, Cur
  <2> QED  BY <2>2, <2>3, <2>4
<1>2. Init => TreeInv /\ QueueInv  BY InitTree, InitQueue
<1>3. TreeInv /\ QueueInv /\ RepeatsFit /\ [Next]_vars => (TreeInv /\ QueueInv)'  BY StepPromised, StepQueue
<1> QED  BY <1>1, <1>2, <1>3, PTL DEF Spec
=============================================================================
