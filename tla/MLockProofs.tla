---------------------------- MODULE MLockProofs -----------------------------
(***************************************************************************)
(* Type correctness, bounds of the walks along the private list and mutual *)
(* exclusion of MLock.tla, for every number of processes, names, shrblks,  *)
(* prcblks and commands; then that MLock.tla keeps the shrblks a tree and  *)
(* implements HierLock.tla.  Every theorem is about the behaviours in which *)
(* RepeatsFit always holds: beyond them op_lock2 leaves its list and the    *)
(* code has no meaning.                                                    *)
(***************************************************************************)
EXTENDS MLock, MlkShrProofs

Inv == TypeOK /\ WalksStayInList /\ Exclusion

-----------------------------------------------------------------------------
(* A step of one process *)

(* p goes to l with private list q, lks_this_cmd k and local variables m. *)
Moves(p, l, q, k, m) ==
  /\ pc' = [pc EXCEPT ![p] = l]
  /\ pvt' = [pvt EXCEPT ![p] = q]
  /\ lks' = [lks EXCEPT ![p] = k]
  /\ loc' = [loc EXCEPT ![p] = m]

(* What is not a process's own is well-formed after the step. *)
SharedOK ==
  /\ shr' \in Space /\ OneOwnerPerBranch(shr')
  /\ latch' \in ProcOrNone
  /\ alive' \in SUBSET Proc
  /\ yield' \in [Proc -> YieldPid]
  /\ ncmd' \in [Proc -> Nat]
  /\ nclear' \in Nat

(* A step keeps the invariant when the shared state and the new position of  *)
(* the process that takes it are in order.                                  *)
LEMMA StepKeeps ==
  ASSUME Inv, SharedOK, NEW p \in Proc, NEW l \in PC, NEW q \in Seq(Pvtblk), NEW k \in Nat,
         NEW m \in Local, Moves(p, l, q, k, m), Listed(l, q, k, m)
  PROVE  Inv'
<1>1. TypeOK'  BY DEF Inv, TypeOK, SharedOK, Moves
<1>2. WalksStayInList'
  <2> SUFFICES ASSUME NEW r \in Proc PROVE Listed(pc'[r], pvt'[r], lks'[r], loc'[r])
    BY DEF WalksStayInList, Listed
  <2>1. CASE r = p
    <3>1. pc'[r] = l /\ pvt'[r] = q /\ lks'[r] = k /\ loc'[r] = m
      BY <2>1 DEF Inv, TypeOK, Moves
    <3> QED  BY <3>1
  <2>2. CASE r # p
    <3>1. pc'[r] = pc[r] /\ pvt'[r] = pvt[r] /\ lks'[r] = lks[r] /\ loc'[r] = loc[r]
      BY <2>2 DEF Inv, TypeOK, Moves
    <3> QED  BY <3>1 DEF Inv, WalksStayInList
  <2> QED  BY <2>1, <2>2
<1>3. Exclusion'  BY DEF SharedOK, Exclusion
<1> QED  BY <1>1, <1>2, <1>3 DEF Inv

(* The state of one process before the step. *)
LEMMA ProcFacts ==
  ASSUME Inv, NEW p \in Proc
  PROVE  /\ pc[p] \in PC /\ pvt[p] \in Seq(Pvtblk) /\ lks[p] \in Nat /\ loc[p] \in Local
         /\ yield[p] \in YieldPid
         /\ Listed(pc[p], pvt[p], lks[p], loc[p])
BY DEF Inv, TypeOK, WalksStayInList

(* A step that leaves the lock space alone, and one that takes owners away.  *)
Quiet == UNCHANGED <<shr, latch, alive, yield, ncmd, nclear>>

LEMMA QuietKeeps == ASSUME Inv, Quiet PROVE SharedOK
BY DEF Inv, TypeOK, Exclusion, Quiet, SharedOK

LEMMA NoLocalType == NoLocal \in Local
BY SpaceAssumption DEF NoLocal, Local, Op, LockOp, Seqno

(* The changes the actions make to the local variables. *)
LEMMA LocalPos ==
  ASSUME NEW x \in Local, NEW i \in Nat \ {0}
  PROVE  /\ [x EXCEPT !.pos = i] \in Local
         /\ [x EXCEPT !.pos = i].pos = i /\ [x EXCEPT !.pos = i].left = x.left
BY DEF Local

LEMMA LocalLeft ==
  ASSUME NEW x \in Local, NEW j \in Nat
  PROVE  /\ [x EXCEPT !.left = j] \in Local
         /\ [x EXCEPT !.left = j].left = j /\ [x EXCEPT !.left = j].pos = x.pos
BY DEF Local

LEMMA LocalRestart ==
  ASSUME NEW x \in Local, NEW c \in BOOLEAN
  PROVE  /\ [x EXCEPT !.pos = 1, !.new = TRUE, !.already = FALSE] \in Local
         /\ [x EXCEPT !.pos = 1, !.new = TRUE, !.already = FALSE].pos = 1
         /\ [x EXCEPT !.pos = 1, !.new = TRUE, !.already = FALSE, !.oot = c] \in Local
         /\ [x EXCEPT !.pos = 1, !.new = TRUE, !.already = FALSE, !.oot = c].pos = 1
<1>1. PICK i \in Nat \ {0} : i = 1  OBVIOUS
<1>a. PICK a \in BOOLEAN : a = TRUE  BY Zenon
<1>b. PICK b \in BOOLEAN : b = FALSE  BY Zenon
<1>2. /\ [x EXCEPT !.pos = i, !.new = a, !.already = b] \in Local
      /\ [x EXCEPT !.pos = i, !.new = a, !.already = b].pos = i
      /\ [x EXCEPT !.pos = i, !.new = a, !.already = b, !.oot = c] \in Local
      /\ [x EXCEPT !.pos = i, !.new = a, !.already = b, !.oot = c].pos = i
  BY DEF Local
<1> QED  BY <1>1, <1>a, <1>b, <1>2, Zenon

LEMMA LocalFront ==
  ASSUME NEW x \in Local, NEW j \in Nat
  PROVE  /\ [x EXCEPT !.pos = 1, !.left = j] \in Local
         /\ [x EXCEPT !.pos = 1, !.left = j].pos = 1
         /\ [x EXCEPT !.pos = 1, !.left = j].left = j
<1>1. PICK i \in Nat \ {0} : i = 1  OBVIOUS
<1>2. /\ [x EXCEPT !.pos = i, !.left = j] \in Local
      /\ [x EXCEPT !.pos = i, !.left = j].pos = i
      /\ [x EXCEPT !.pos = i, !.left = j].left = j
  BY DEF Local
<1> QED  BY <1>1, <1>2, Zenon

LEMMA UpdateType ==
  ASSUME NEW q \in Seq(Pvtblk), NEW i \in 1 .. Len(q), NEW e \in Pvtblk
  PROVE  [q EXCEPT ![i] = e] \in Seq(Pvtblk) /\ Len([q EXCEPT ![i] = e]) = Len(q)
BY ExceptSeq

-----------------------------------------------------------------------------
(* Entering names *)

LEMMA ConsType ==
  ASSUME NEW S, NEW e \in S, NEW t \in Seq(S)
  PROVE  /\ <<e>> \o t \in Seq(S)
         /\ Len(<<e>> \o t) = Len(t) + 1
         /\ (<<e>> \o t)[1] = e
         /\ \A j \in 2 .. Len(t) + 1 : (<<e>> \o t)[j] = t[j - 1]
<1> DEFINE u == <<e>>
<1>1. u \in Seq(S) /\ Len(u) = 1 /\ u[1] = e  OBVIOUS
<1>2. Len(t) \in Nat  OBVIOUS
<1> HIDE DEF u
<1>3. /\ u \o t \in Seq(S) /\ Len(u \o t) = Len(u) + Len(t)
      /\ \A i \in 1 .. Len(u) + Len(t) : (u \o t)[i] = IF i <= Len(u) THEN u[i] ELSE t[i - Len(u)]
  BY <1>1, ConcatProperties
<1>4. (u \o t)[1] = e  BY <1>1, <1>2, <1>3
<1>5. ASSUME NEW j \in 2 .. Len(t) + 1 PROVE (u \o t)[j] = t[j - 1]
  BY <1>1, <1>2, <1>3
<1> QED  BY <1>1, <1>2, <1>3, <1>4, <1>5 DEF u

LEMMA NewPvtblkType ==
  ASSUME NEW n \in Name
  PROVE  NewPvtblk(n) \in Pvtblk /\ NewPvtblk(n).trans /\ NewPvtblk(n).translev = 1
BY SpaceAssumption, CommandAssumption DEF NewPvtblk, Pvtblk, Seqno, NoBlk, UCHAR_MAX

LEMMA AgainType ==
  ASSUME NEW x \in Pvtblk, NEW y, y = NamedAgain(x)
  PROVE  y \in Pvtblk /\ y.trans /\ (x.translev # 0 /\ y.translev = 1 => ~x.trans)
<1>1. x.translev \in 0 .. UCHAR_MAX /\ x.trans \in BOOLEAN  BY DEF Pvtblk
<1> DEFINE n == IF x.trans THEN (x.translev + 1) % (UCHAR_MAX + 1) ELSE 1
<1>2. n \in 0 .. UCHAR_MAX /\ (x.translev # 0 /\ n = 1 => ~x.trans)
  <2>1. CASE x.trans
    <3>1. (x.translev + 1) % (UCHAR_MAX + 1) = IF x.translev < UCHAR_MAX THEN x.translev + 1 ELSE 0
      BY <1>1 DEF UCHAR_MAX
    <3> QED  BY <1>1, <2>1, <3>1 DEF UCHAR_MAX
  <2>2. CASE ~x.trans  BY <2>2 DEF UCHAR_MAX
  <2> QED  BY <2>1, <2>2
<1>3. y.trans /\ y.translev = n  BY DEF Pvtblk, NamedAgain
<1>4. y = [x EXCEPT !.trans = TRUE, !.translev = n]  BY DEF NamedAgain
<1> HIDE DEF n
<1>5. y \in Pvtblk  BY <1>2, <1>4 DEF Pvtblk
<1> QED  BY <1>2, <1>3, <1>5

(* mlk_pvtblk_insert puts a new block in front, or moves the one it finds. *)
LEMMA InsertNew ==
  ASSUME NEW q \in Seq(Pvtblk), NEW n \in Name, \A i \in DOMAIN q : q[i].name # n,
         NEW r, r = mlk_pvtblk_insert(q, n)
  PROVE  /\ r \in Seq(Pvtblk) /\ Len(r) = Len(q) + 1 /\ r[1] = NewPvtblk(n)
         /\ \A j \in 2 .. Len(q) + 1 : r[j] = q[j - 1]
<1>1. PICK x \in Pvtblk : x = NewPvtblk(n)  BY NewPvtblkType
<1>2. r = <<x>> \o q
  <2>1. {i \in DOMAIN q : q[i].name = n} = {}  OBVIOUS
  <2> QED  BY <1>1, <2>1 DEF mlk_pvtblk_insert
<1> QED  BY <1>1, <1>2, ConsType

LEMMA InsertAgain ==
  ASSUME NEW q \in Seq(Pvtblk), NEW n \in Name, \E i \in DOMAIN q : q[i].name = n,
         NEW r, r = mlk_pvtblk_insert(q, n)
  PROVE  /\ r \in Seq(Pvtblk) /\ Len(r) = Len(q)
         /\ \E h \in 1 .. Len(q) :
              /\ q[h].name = n /\ r[1] = NamedAgain(q[h])
              /\ \A j \in 2 .. Len(q) : r[j] = IF j - 1 < h THEN q[j - 1] ELSE q[j]
<1> DEFINE at == {i \in DOMAIN q : q[i].name = n}
           i  == CHOOSE i \in at : TRUE
<1>1. r = <<NamedAgain(q[i])>> \o RemoveAt(q, i)  BY DEF mlk_pvtblk_insert
<1>2. Len(q) \in Nat /\ DOMAIN q = 1 .. Len(q)  OBVIOUS
<1>3. PICK h \in 1 .. Len(q) : h = i /\ q[h].name = n  BY <1>2
<1>4. PICK x \in Pvtblk : x = q[h]  OBVIOUS
<1>6. PICK y \in Pvtblk : y = NamedAgain(x)  BY AgainType
<1> DEFINE t == RemoveAt(q, h)
<1>7. /\ t \in Seq(Pvtblk) /\ Len(t) = Len(q) - 1
      /\ \A j \in 1 .. Len(q) - 1 : t[j] = IF j < h THEN q[j] ELSE q[j + 1]
  BY RemoveAtType
<1>8. r = <<y>> \o t  BY <1>1, <1>3, <1>4, <1>6
<1> HIDE DEF t, i, at
<1>9. /\ r \in Seq(Pvtblk) /\ Len(r) = Len(q) /\ r[1] = y
      /\ \A j \in 2 .. Len(q) : r[j] = t[j - 1]
  <2>1. /\ r \in Seq(Pvtblk) /\ Len(r) = Len(t) + 1 /\ r[1] = y
        /\ \A j \in 2 .. Len(t) + 1 : r[j] = t[j - 1]
    BY <1>7, <1>8, ConsType
  <2>2. Len(t) + 1 = Len(q)  BY <1>2, <1>7
  <2> QED  BY <2>1, <2>2
<1>10. ASSUME NEW j \in 2 .. Len(q) PROVE r[j] = IF j - 1 < h THEN q[j - 1] ELSE q[j]
  <2>1. j - 1 \in 1 .. Len(q) - 1 /\ (j - 1) + 1 = j  BY <1>2
  <2>2. t[j - 1] = IF j - 1 < h THEN q[j - 1] ELSE q[(j - 1) + 1]  BY <1>7, <2>1
  <2> QED  BY <1>9, <2>1, <2>2
<1> QED  BY <1>3, <1>4, <1>6, <1>9, <1>10

(* Entering a name keeps the first lks_this_cmd blocks those of the command. *)
LEMMA InsertType ==
  ASSUME NEW q \in Seq(Pvtblk), NEW n \in Name, NEW k \in Nat, k <= Len(q),
         \A i \in 1 .. k : q[i].trans, \A i \in DOMAIN q : q[i].translev # 0,
         NEW r, r = mlk_pvtblk_insert(q, n)
  PROVE  /\ r \in Seq(Pvtblk)
         /\ r[1].translev = 1 => k + 1 <= Len(r) /\ \A i \in 1 .. k + 1 : r[i].trans
         /\ r[1].translev # 1 => k <= Len(r) /\ \A i \in 1 .. k : r[i].trans
<1>2. Len(q) \in Nat /\ DOMAIN q = 1 .. Len(q)  OBVIOUS
<1>3. CASE \A i \in DOMAIN q : q[i].name # n
  <2>3. /\ r \in Seq(Pvtblk) /\ Len(r) = Len(q) + 1 /\ r[1].trans /\ r[1].translev = 1
        /\ \A j \in 2 .. Len(q) + 1 : r[j] = q[j - 1]
    BY <1>3, InsertNew, NewPvtblkType
  <2>4. ASSUME NEW j \in 1 .. k + 1 PROVE r[j].trans
    <3>1. CASE j = 1  BY <2>3, <3>1
    <3>2. CASE j # 1
      <4>1. j \in 2 .. Len(q) + 1 /\ j - 1 \in 1 .. k  BY <1>2, <3>2
      <4> QED  BY <2>3, <4>1
    <3> QED  BY <3>1, <3>2
  <2> QED  BY <1>2, <2>3, <2>4
<1>4. CASE \E i \in DOMAIN q : q[i].name = n
  <2>1. /\ r \in Seq(Pvtblk) /\ Len(r) = Len(q)
        /\ \E h \in 1 .. Len(q) :
             /\ q[h].name = n /\ r[1] = NamedAgain(q[h])
             /\ \A j \in 2 .. Len(q) : r[j] = IF j - 1 < h THEN q[j - 1] ELSE q[j]
    BY <1>4, InsertAgain
  <2>2. PICK h \in 1 .. Len(q) :
          /\ q[h].name = n /\ r[1] = NamedAgain(q[h])
          /\ \A j \in 2 .. Len(q) : r[j] = IF j - 1 < h THEN q[j - 1] ELSE q[j]
    BY <2>1
  <2>3. q[h] \in Pvtblk /\ q[h].translev # 0  BY <1>2, <2>2
  <2>4. r[1].trans /\ (r[1].translev = 1 => ~q[h].trans)  BY <2>2, <2>3, AgainType
  <2>10. CASE r[1].translev = 1
    <3>1. h > k  BY <1>2, <2>4, <2>10
    <3>2. k + 1 <= Len(r)  BY <1>2, <2>1, <3>1
    <3>3. ASSUME NEW j \in 1 .. k + 1 PROVE r[j].trans
      <4>1. CASE j = 1  BY <2>4, <4>1
      <4>2. CASE j # 1
        <5>1. j \in 2 .. Len(q) /\ j - 1 < h /\ j - 1 \in 1 .. k  BY <1>2, <2>1, <3>1, <3>2, <4>2
        <5> QED  BY <2>2, <5>1
      <4> QED  BY <4>1, <4>2
    <3> QED  BY <2>1, <2>10, <3>2, <3>3
  <2>11. CASE r[1].translev # 1
    <3>1. ASSUME NEW j \in 1 .. k PROVE r[j].trans
      <4>1. CASE j = 1  BY <2>4, <4>1
      <4>2. CASE j # 1
        <5>1. j \in 2 .. Len(q) /\ j - 1 \in 1 .. k  BY <1>2, <4>2
        <5> QED  BY <2>2, <5>1
      <4> QED  BY <4>1, <4>2
    <3> QED  BY <2>1, <2>11, <3>1
  <2> QED  BY <2>10, <2>11
<1> QED  BY <1>3, <1>4

LEMMA LckclrType ==
  ASSUME NEW q \in Seq(Pvtblk), NEW n
  PROVE  lckclr(q, n) \in Seq(Pvtblk) /\ Len(lckclr(q, n)) = Len(q)
<1> DEFINE g == lckclr(q, n)
<1>1. Len(q) \in Nat /\ DOMAIN q = 1 .. Len(q)  OBVIOUS
<1>2. \A i \in 1 .. Len(q) : q[i] \in Pvtblk  OBVIOUS
<1>3. \A e \in Pvtblk : [e EXCEPT !.trans = FALSE] \in Pvtblk  BY DEF Pvtblk
<1>4. g \in [1 .. Len(q) -> Pvtblk]  BY <1>1, <1>2, <1>3 DEF lckclr
<1> HIDE DEF g
<1>5. g \in Seq(Pvtblk)  BY <1>1, <1>4, SeqDef
<1>6. Len(g) = Len(q)  BY <1>1, <1>4, <1>5
<1> QED  BY <1>5, <1>6 DEF g

LEMMA BeginKeeps ==
  ASSUME Inv, NEW p \in Proc, NEW c \in Commands[p], Begin(p, c)
  PROVE  Inv'
<1>1. c \in Command  BY CommandAssumption
<1>2. /\ pvt[p] \in Seq(Pvtblk) /\ Len(pvt[p]) \in Nat /\ lks[p] \in Nat /\ loc[p] \in Local
      /\ pc[p] = "idle" /\ pc \in [Proc -> PC] /\ pvt \in [Proc -> Seq(Pvtblk)]
      /\ lks \in [Proc -> Nat] /\ loc \in [Proc -> Local]
  BY DEF Inv, TypeOK, Begin
<1> DEFINE m == [NoLocal EXCEPT !.op = c.op, !.args = c.args, !.time = c.time, !.left = Len(pvt[p])]
<1>3. m \in Local  BY <1>1, <1>2, NoLocalType DEF Command, Local
<1>4. m.pos = 1 /\ m.left = Len(pvt[p])  BY DEF NoLocal
<1>5. SharedOK
  <2>1. ncmd' \in [Proc -> Nat]  BY DEF Begin, Inv, TypeOK
  <2> QED  BY <2>1 DEF Begin, Inv, TypeOK, Exclusion, SharedOK
<1>6. \/ Moves(p, "unlock", pvt[p], 0, m)
      \/ Moves(p, "idle", pvt[p], 0, loc[p])
      \/ Moves(p, "name", pvt[p], lks[p], m) /\ lks[p] = 0
  BY <1>2 DEF Begin, Moves, Goto
<1>7. /\ Listed("unlock", pvt[p], 0, m) /\ Listed("idle", pvt[p], 0, loc[p])
      /\ lks[p] = 0 => Listed("name", pvt[p], lks[p], m)
  <2> HIDE DEF m
  <2> QED  BY <1>2, <1>4 DEF Listed, InLock, Releasing, Exiting
<1>8. 0 \in Nat /\ "unlock" \in PC /\ "idle" \in PC /\ "name" \in PC  BY DEF PC
<1> HIDE DEF m
<1> QED  BY <1>2, <1>3, <1>5, <1>6, <1>7, <1>8, StepKeeps

LEMMA OpLknameKeeps ==
  ASSUME Inv, RepeatsFit, NEW p \in Proc, OpLkname(p)
  PROVE  Inv'
<1> DEFINE q == mlk_pvtblk_insert(pvt[p], loc[p].args[loc[p].pos])
           k == IF q[1].translev = 1 THEN lks[p] + 1 ELSE lks[p]
           m == [loc[p] EXCEPT !.pos = @ + 1]
<1>1. /\ pvt[p] \in Seq(Pvtblk) /\ lks[p] \in Nat /\ loc[p] \in Local /\ pc[p] = "name"
      /\ Listed("name", pvt[p], lks[p], loc[p])
      /\ pc \in [Proc -> PC] /\ pvt \in [Proc -> Seq(Pvtblk)]
      /\ lks \in [Proc -> Nat] /\ loc \in [Proc -> Local]
  BY ProcFacts DEF OpLkname, Inv, TypeOK
<1>2. loc[p].args[loc[p].pos] \in Name  BY <1>1 DEF OpLkname, MoreArgs, Local
<1>3. lks[p] <= Len(pvt[p]) /\ \A i \in 1 .. lks[p] : pvt[p][i].trans  BY <1>1 DEF Listed
<1>4. /\ q \in Seq(Pvtblk)
      /\ q[1].translev = 1 => lks[p] + 1 <= Len(q) /\ \A i \in 1 .. lks[p] + 1 : q[i].trans
      /\ q[1].translev # 1 => lks[p] <= Len(q) /\ \A i \in 1 .. lks[p] : q[i].trans
  <2>1. \A i \in DOMAIN pvt[p] : pvt[p][i].translev # 0  BY DEF RepeatsFit
  <2> QED  BY <1>1, <1>2, <1>3, <2>1, InsertType
<1>5. Moves(p, "name", q, k, m)  BY <1>1 DEF OpLkname, Moves
<1>6. m \in Local
  <2>1. loc[p].pos + 1 \in Nat \ {0}  BY <1>1 DEF Local
  <2> QED  BY <1>1, <2>1, LocalPos
<1>7. SharedOK  BY QuietKeeps DEF OpLkname, Quiet, procvars
<1> HIDE DEF q, m
<1>8. k \in Nat /\ Listed("name", q, k, m)
  BY <1>1, <1>4 DEF Listed, InLock, Releasing, Exiting
<1> HIDE DEF k
<1> QED  BY <1>4, <1>5, <1>6, <1>7, <1>8, StepKeeps DEF PC

LEMMA ArgErrorKeeps ==
  ASSUME Inv, NEW p \in Proc, ArgError(p)
  PROVE  Inv'
<1>1. Moves(p, "idle", pvt[p], lks[p], NoLocal)
  BY DEF ArgError, Moves, Goto, Inv, TypeOK
<1>2. SharedOK  BY QuietKeeps DEF ArgError, Quiet, procvars
<1>3. Listed("idle", pvt[p], lks[p], NoLocal)  BY DEF Listed, InLock, Releasing, Exiting
<1> QED  BY <1>1, <1>2, <1>3, ProcFacts, NoLocalType, StepKeeps DEF PC

LEMMA StartLockKeeps ==
  ASSUME Inv, NEW p \in Proc, StartLock(p)
  PROVE  Inv'
<1> DEFINE q == lckclr(pvt[p], lks[p])
           m == [loc[p] EXCEPT !.pos = 1, !.new = TRUE, !.already = FALSE,
                               !.oot = loc[p].time = "zero"]
<1>1. /\ pvt[p] \in Seq(Pvtblk) /\ lks[p] \in Nat /\ loc[p] \in Local /\ pc[p] = "name"
      /\ Listed("name", pvt[p], lks[p], loc[p])
      /\ pc \in [Proc -> PC] /\ pvt \in [Proc -> Seq(Pvtblk)]
      /\ lks \in [Proc -> Nat] /\ loc \in [Proc -> Local]
  BY ProcFacts DEF StartLock, Inv, TypeOK
<1>2. q \in Seq(Pvtblk) /\ Len(q) = Len(pvt[p])  BY <1>1, LckclrType
<1>3. SharedOK
  <2>1. yield' \in [Proc -> YieldPid]  BY DEF StartLock, Inv, TypeOK, YieldPid
  <2> QED  BY <2>1 DEF StartLock, procvars, Inv, TypeOK, Exclusion, SharedOK
<1>4. \/ Moves(p, "idle", q, 0, NoLocal)
      \/ lks[p] # 0 /\ Moves(p, "lock", q, lks[p], m)
  BY <1>1 DEF StartLock, Finish, Moves, Goto
<1>5. m \in Local /\ m.pos = 1
  <2>1. (loc[p].time = "zero") \in BOOLEAN  OBVIOUS
  <2> QED  BY <1>1, <2>1, LocalRestart
<1> HIDE DEF q, m
<1>6. Listed("idle", q, 0, NoLocal)  BY DEF Listed, InLock, Releasing, Exiting
<1>7. lks[p] # 0 => Listed("lock", q, lks[p], m)
  BY <1>1, <1>2, <1>5 DEF Listed, InLock, Releasing, Exiting
<1>8. 0 \in Nat /\ "idle" \in PC /\ "lock" \in PC  BY DEF PC
<1> QED  BY <1>1, <1>2, <1>3, <1>4, <1>5, <1>6, <1>7, <1>8, NoLocalType, StepKeeps

LEMMA StartReleaseKeeps ==
  ASSUME Inv, NEW p \in Proc, StartRelease(p)
  PROVE  Inv'
<1> DEFINE q == lckclr(pvt[p], lks[p])
           k == IF loc[p].op = "ZDEALLOCATE" /\ lks[p] = 0 THEN Len(pvt[p]) ELSE lks[p]
           m == [loc[p] EXCEPT !.pos = 1, !.left = k]
           l == IF loc[p].op = "LOCK-" THEN "decr" ELSE "zdealloc"
<1>1. /\ pvt[p] \in Seq(Pvtblk) /\ lks[p] \in Nat /\ loc[p] \in Local /\ pc[p] = "name"
      /\ Listed("name", pvt[p], lks[p], loc[p])
      /\ pc \in [Proc -> PC] /\ pvt \in [Proc -> Seq(Pvtblk)]
      /\ lks \in [Proc -> Nat] /\ loc \in [Proc -> Local]
  BY ProcFacts DEF StartRelease, Inv, TypeOK
<1>2. q \in Seq(Pvtblk) /\ Len(q) = Len(pvt[p])  BY <1>1, LckclrType
<1>3. SharedOK  BY QuietKeeps DEF StartRelease, Quiet, procvars
<1>4. Moves(p, l, q, lks[p], m)  BY <1>1 DEF StartRelease, Moves, Goto
<1>5. l \in {"decr", "zdealloc"} /\ l \in PC  BY DEF PC
<1>6. k \in Nat /\ k <= Len(pvt[p])  BY <1>1 DEF Listed
<1> HIDE DEF q, l, k
<1>7. m \in Local /\ m.pos = 1 /\ m.left = k
  BY <1>1, <1>6, LocalFront
<1> HIDE DEF m
<1>8. Listed(l, q, lks[p], m)
  BY <1>1, <1>2, <1>5, <1>6, <1>7 DEF Listed, InLock, Releasing, Exiting
<1> QED  BY <1>1, <1>2, <1>3, <1>4, <1>5, <1>7, <1>8, StepKeeps

-----------------------------------------------------------------------------
(* Trying for a lock *)

LEMMA PvtblkNode ==
  ASSUME NEW e \in Pvtblk, NEW d \in Blk, NEW g \in Seqno
  PROVE  /\ [e EXCEPT !.nodptr = d] \in Pvtblk
         /\ [e EXCEPT !.nodptr = d, !.sequence = g] \in Pvtblk
         /\ [e EXCEPT !.blocked = d, !.blk_sequence = g] \in Pvtblk
<1>1. d \in 0 .. max_blkcnt  BY BlkFacts
<1>2. [e EXCEPT !.nodptr = d] \in Pvtblk  BY <1>1 DEF Pvtblk
<1>3. [e EXCEPT !.nodptr = d, !.sequence = g] \in Pvtblk  BY <1>1 DEF Pvtblk
<1>4. [e EXCEPT !.blocked = d, !.blk_sequence = g] \in Pvtblk  BY <1>1 DEF Pvtblk
<1> QED  BY <1>2, <1>3, <1>4

(* mlk_lock, with or without the lock obtained, leaves one owner per branch. *)
LEMMA LockType ==
  ASSUME NEW s0 \in Space, OneOwnerPerBranch(s0), NEW e \in Pvtblk, NEW p \in Proc, NEW new,
         NEW y \in YieldPid, NEW live, NEW r \in mlk_lock(s0, e, p, new, y, live)
  PROVE  /\ r.space \in Space /\ OneOwnerPerBranch(r.space)
         /\ r.e \in Pvtblk /\ r.yield \in YieldPid
<1>1. PICK f \in mlk_shrblk_find(s0, p, e.name, y, live) :
        r = LET s  == f.space
                d  == f.d
                e1 == IF f.blocked = NoBlk THEN e
                      ELSE [e EXCEPT !.blocked = f.blocked, !.blk_sequence = s0.sequence[f.blocked]]
                s1 == IF new THEN mlk_prcblk_add(s, d, p) ELSE s
                s2 == Grant(IF new THEN s ELSE mlk_prcblk_delete(s, d, p), d, p)
            IN IF d = NoBlk THEN [space |-> s, e |-> e1, got |-> FALSE, yield |-> f.yield]
               ELSE IF s.owner[d] = p
               THEN [space |-> s, e |-> [e1 EXCEPT !.nodptr = d], got |-> TRUE, yield |-> f.yield]
               ELSE IF f.isblocked
               THEN [space |-> TakeSequence(s1),
                     e |-> IF new /\ ~prcblk_added(s, d, p) THEN e1
                           ELSE [e1 EXCEPT !.nodptr = d, !.sequence = s.sequence[d]],
                     got |-> FALSE, yield |-> f.yield]
               ELSE [space |-> s2,
                     e |-> [e1 EXCEPT !.nodptr = d, !.sequence = s2.sequence[d]],
                     got |-> TRUE, yield |-> f.yield]
  BY DEF mlk_lock
<1> DEFINE e0 == IF f.blocked = NoBlk THEN e
                 ELSE [e EXCEPT !.blocked = f.blocked, !.blk_sequence = s0.sequence[f.blocked]]
           t1 == IF new THEN mlk_prcblk_add(f.space, f.d, p) ELSE f.space
           t2 == IF new THEN f.space ELSE mlk_prcblk_delete(f.space, f.d, p)
           t3 == Grant(t2, f.d, p)
<1>2. e.name \in Name  BY DEF Pvtblk
<1>3. /\ f.space \in Space /\ Weaker(f.space, s0)
      /\ f.d \in Blk \cup {NoBlk} /\ f.blocked \in Blk \cup {NoBlk} /\ f.yield \in YieldPid
      /\ ~f.isblocked => Clear(f.space, f.d, p, e.name)
  BY <1>2, FindType
<1>4. OneOwnerPerBranch(f.space)  BY <1>3, WeakerKeeps
<1>5. e0 \in Pvtblk
  <2>1. CASE f.blocked = NoBlk  BY <2>1
  <2>2. CASE f.blocked # NoBlk
    <3>1. f.blocked \in Blk /\ s0.sequence[f.blocked] \in Seqno  BY <1>3, <2>2 DEF Space
    <3> QED  BY <2>2, <3>1, PvtblkNode
  <2> QED  BY <2>1, <2>2
<1>6. \/ r = [space |-> f.space, e |-> e0, got |-> FALSE, yield |-> f.yield]
      \/ /\ f.d # NoBlk
         /\ \/ r = [space |-> f.space, e |-> [e0 EXCEPT !.nodptr = f.d], got |-> TRUE, yield |-> f.yield]
            \/ r = [space |-> TakeSequence(t1), e |-> e0, got |-> FALSE, yield |-> f.yield]
            \/ r = [space |-> TakeSequence(t1),
                    e |-> [e0 EXCEPT !.nodptr = f.d, !.sequence = f.space.sequence[f.d]],
                    got |-> FALSE, yield |-> f.yield]
            \/ /\ ~f.isblocked
               /\ r = [space |-> t3, e |-> [e0 EXCEPT !.nodptr = f.d, !.sequence = t3.sequence[f.d]],
                       got |-> TRUE, yield |-> f.yield]
  BY <1>1, Zenon
<1> HIDE DEF e0
<1>7. CASE r = [space |-> f.space, e |-> e0, got |-> FALSE, yield |-> f.yield]
  BY <1>3, <1>4, <1>5, <1>7
<1>8. CASE f.d # NoBlk
  <2>1. f.d \in Blk /\ f.space.sequence[f.d] \in Seqno  BY <1>3, <1>8 DEF Space
  <2>2. /\ [e0 EXCEPT !.nodptr = f.d] \in Pvtblk
        /\ [e0 EXCEPT !.nodptr = f.d, !.sequence = f.space.sequence[f.d]] \in Pvtblk
    BY <1>5, <2>1, PvtblkNode
  <2>3. t1 \in Space /\ t1.name = f.space.name /\ t1.owner = f.space.owner
    BY <1>3, <2>1, PrcblkAddType
  <2>4. t2 \in Space /\ t2.name = f.space.name /\ t2.owner = f.space.owner
    BY <1>3, <2>1, PrcblkDeleteType
  <2> HIDE DEF t1, t2
  <2>5. TakeSequence(t1) \in Space /\ OneOwnerPerBranch(TakeSequence(t1))
    <3>1. /\ TakeSequence(t1) \in Space
          /\ TakeSequence(t1).name = f.space.name /\ TakeSequence(t1).owner = f.space.owner
      BY <2>3, TakeSequenceType
    <3> QED  BY <1>3, <1>4, <3>1, WeakerKeeps DEF Weaker
  <2>6. CASE r = [space |-> f.space, e |-> [e0 EXCEPT !.nodptr = f.d], got |-> TRUE, yield |-> f.yield]
    BY <1>3, <1>4, <2>2, <2>6
  <2>7. CASE r = [space |-> TakeSequence(t1), e |-> e0, got |-> FALSE, yield |-> f.yield]
    BY <1>3, <1>5, <2>5, <2>7
  <2>8. CASE r = [space |-> TakeSequence(t1),
                  e |-> [e0 EXCEPT !.nodptr = f.d, !.sequence = f.space.sequence[f.d]],
                  got |-> FALSE, yield |-> f.yield]
    BY <1>3, <2>2, <2>5, <2>8
  <2>9. CASE /\ ~f.isblocked
             /\ r = [space |-> t3, e |-> [e0 EXCEPT !.nodptr = f.d, !.sequence = t3.sequence[f.d]],
                     got |-> TRUE, yield |-> f.yield]
    <3>1. t3 \in Space /\ t3.name = f.space.name /\ t3.owner = [f.space.owner EXCEPT ![f.d] = p]
      BY <2>1, <2>4, GrantType
    <3> HIDE DEF t3
    <3>2. OneOwnerPerBranch(t3)  BY <1>2, <1>3, <1>4, <2>9, <3>1, GrantKeeps
    <3>3. t3.sequence[f.d] \in Seqno  BY <2>1, <3>1 DEF Space
    <3>4. [e0 EXCEPT !.nodptr = f.d, !.sequence = t3.sequence[f.d]] \in Pvtblk
      BY <1>5, <2>1, <3>3, PvtblkNode
    <3> QED  BY <1>3, <2>9, <3>1, <3>2, <3>4
  <2> QED  BY <1>6, <1>7, <2>6, <2>7, <2>8, <2>9
<1> QED  BY <1>6, <1>7, <1>8

(* The lock counts that op_lock2 keeps in a private block stay in range. *)
LEMMA PvtblkGranted ==
  ASSUME NEW e \in Pvtblk
  PROVE  /\ [e EXCEPT !.granted = TRUE, !.level = 1] \in Pvtblk
         /\ [e EXCEPT !.granted = TRUE, !.zalloc = TRUE] \in Pvtblk
         /\ [e EXCEPT !.granted = TRUE] \in Pvtblk
         /\ Raised(e) \in Pvtblk
<1>1. LevelMax \in Nat \ {0}  BY CommandAssumption
<1>2. e.level \in 0 .. LevelMax /\ e.translev \in Nat  BY DEF Pvtblk, UCHAR_MAX
<1>3. PICK l \in 0 .. LevelMax : l = 1  BY <1>1
<1>4. PICK m \in 0 .. LevelMax : m = (e.level + e.translev) % (LevelMax + 1)  BY <1>1, <1>2
<1>5. PICK b \in BOOLEAN : b = TRUE  BY Zenon
<1>6. [e EXCEPT !.granted = b, !.level = l] \in Pvtblk  BY DEF Pvtblk
<1>7. [e EXCEPT !.granted = b, !.zalloc = b] \in Pvtblk  BY DEF Pvtblk
<1>8. [e EXCEPT !.granted = b] \in Pvtblk  BY DEF Pvtblk
<1>9. [e EXCEPT !.granted = b, !.level = m] \in Pvtblk  BY DEF Pvtblk
<1> QED  BY <1>3, <1>4, <1>5, <1>6, <1>7, <1>8, <1>9, Zenon DEF Raised

LEMMA ObtainedKeeps ==
  ASSUME Inv, SharedOK, NEW p \in Proc, pc[p] \in InLock, NEW e \in Pvtblk, Obtained(p, e)
  PROVE  Inv'
<1> DEFINE i == loc[p].pos
           m == [loc[p] EXCEPT !.pos = i + 1]
<1>1. /\ pvt[p] \in Seq(Pvtblk) /\ lks[p] \in Nat /\ loc[p] \in Local
      /\ Listed(pc[p], pvt[p], lks[p], loc[p])
      /\ pc \in [Proc -> PC] /\ pvt \in [Proc -> Seq(Pvtblk)]
      /\ lks \in [Proc -> Nat] /\ loc \in [Proc -> Local]
  BY ProcFacts DEF Inv, TypeOK
<1>2. i \in Nat \ {0} /\ i <= lks[p] /\ lks[p] <= Len(pvt[p]) /\ Len(pvt[p]) \in Nat
  BY <1>1 DEF Listed, Local
<1>3. i \in 1 .. Len(pvt[p]) /\ i + 1 \in Nat \ {0}  BY <1>1, <1>2
<1>4. PICK x \in Pvtblk : pvt' = [pvt EXCEPT ![p][i] = x]
  BY PvtblkGranted DEF Obtained, Update
<1> DEFINE q == [pvt[p] EXCEPT ![i] = x]
<1>5. q \in Seq(Pvtblk) /\ Len(q) = Len(pvt[p])  BY <1>1, <1>3, UpdateType
<1>6. pvt' = [pvt EXCEPT ![p] = q]  BY <1>1, <1>4
<1> HIDE DEF q
<1>7. \/ Moves(p, "idle", q, 0, NoLocal)
      \/ i # lks[p] /\ Moves(p, "lock", q, lks[p], m)
  BY <1>1, <1>6 DEF Obtained, Finish, Moves, Goto
<1>8. m \in Local /\ m.pos = i + 1  BY <1>1, <1>3, LocalPos
<1> HIDE DEF i, m
<1>9. Listed("idle", q, 0, NoLocal)  BY DEF Listed, InLock, Releasing, Exiting
<1>10. i # lks[p] => Listed("lock", q, lks[p], m)
  BY <1>1, <1>2, <1>5, <1>8 DEF Listed, InLock, Releasing, Exiting
<1>11. 0 \in Nat /\ "idle" \in PC /\ "lock" \in PC  BY DEF PC
<1> QED  BY <1>1, <1>5, <1>7, <1>8, <1>9, <1>10, <1>11, NoLocalType, StepKeeps

(* The lock at pos is not obtained, or not yet kept: its private block       *)
(* changes and the process stays inside op_lock2.                           *)
LEMMA AttemptKeeps ==
  ASSUME Inv, SharedOK, NEW p \in Proc, pc[p] \in InLock, NEW x \in Pvtblk,
         Update(p, loc[p].pos, x), UNCHANGED lks,
         NEW l \in InLock, Goto(p, l), NEW m \in Local, loc' = [loc EXCEPT ![p] = m],
         m.pos = loc[p].pos, l = "bckout" => m.left \in 1 .. m.pos - 1
  PROVE  Inv'
<1> DEFINE i == loc[p].pos
           q == [pvt[p] EXCEPT ![i] = x]
<1>1. /\ pvt[p] \in Seq(Pvtblk) /\ lks[p] \in Nat /\ loc[p] \in Local
      /\ Listed(pc[p], pvt[p], lks[p], loc[p])
      /\ pc \in [Proc -> PC] /\ pvt \in [Proc -> Seq(Pvtblk)]
      /\ lks \in [Proc -> Nat] /\ loc \in [Proc -> Local]
  BY ProcFacts DEF Inv, TypeOK
<1>2. i \in Nat \ {0} /\ i <= lks[p] /\ lks[p] <= Len(pvt[p]) /\ Len(pvt[p]) \in Nat
  BY <1>1 DEF Listed, Local
<1>3. i \in 1 .. Len(pvt[p])  BY <1>1, <1>2
<1>5. q \in Seq(Pvtblk) /\ Len(q) = Len(pvt[p])  BY <1>1, <1>3, UpdateType
<1>6. pvt' = [pvt EXCEPT ![p] = q]  BY <1>1 DEF Update
<1> HIDE DEF q
<1>7. Moves(p, l, q, lks[p], m)  BY <1>1, <1>6 DEF Moves, Goto
<1>8. Listed(l, q, lks[p], m)
  BY <1>1, <1>2, <1>5 DEF Listed, InLock, Releasing, Exiting
<1>9. l \in PC  BY DEF PC, InLock
<1> QED  BY <1>1, <1>5, <1>7, <1>8, <1>9, StepKeeps

LEMMA LockInKeeps ==
  ASSUME Inv, NEW p \in Proc, pc[p] \in InLock, NEW s \in Space, OneOwnerPerBranch(s),
         LockIn(p, s), latch' \in ProcOrNone, UNCHANGED procvars
  PROVE  Inv'
<1>1. /\ pvt[p] \in Seq(Pvtblk) /\ loc[p] \in Local /\ yield[p] \in YieldPid
      /\ Listed(pc[p], pvt[p], lks[p], loc[p]) /\ lks[p] \in Nat /\ loc \in [Proc -> Local]
  BY ProcFacts DEF Inv, TypeOK
<1>2. loc[p].pos \in 1 .. Len(pvt[p]) /\ loc[p].pos \in Nat \ {0} /\ loc[p].left \in Nat
  BY <1>1 DEF Listed, Local
<1>3. Cur(p) \in Pvtblk  BY <1>1, <1>2 DEF Cur
<1>4. PICK r \in mlk_lock(s, Cur(p), p, loc[p].new, yield[p], alive) :
        shr' = r.space /\ IF loc[p].new THEN FirstAttempt(p, r) ELSE Reattempt(p, r)
  BY DEF LockIn
<1>5. r.space \in Space /\ OneOwnerPerBranch(r.space) /\ r.e \in Pvtblk /\ r.yield \in YieldPid
  BY <1>1, <1>3, <1>4, LockType
<1>6. yield' \in [Proc -> YieldPid]
  <2>1. NoProc \in YieldPid  BY DEF YieldPid
  <2>2. PICK y \in YieldPid : yield' = [yield EXCEPT ![p] = y]
    BY <1>4, <1>5, <2>1 DEF FirstAttempt, Reattempt
  <2> QED  BY <2>2 DEF Inv, TypeOK
<1>7. SharedOK  BY <1>4, <1>5, <1>6 DEF SharedOK, procvars, Inv, TypeOK
<1> DEFINE m1 == [loc[p] EXCEPT !.left = loc[p].pos - 1, !.new = FALSE]
           m2 == [loc[p] EXCEPT !.already = TRUE, !.new = TRUE]
<1>8. m1 \in Local /\ m1.pos = loc[p].pos /\ m1.left = loc[p].pos - 1
  <2>1. PICK x \in Local : x = loc[p]  BY <1>1
  <2>2. PICK j \in Nat : j = loc[p].pos - 1  BY <1>2
  <2>3. PICK b \in BOOLEAN : b = FALSE  BY Zenon
  <2>4. [x EXCEPT !.left = j, !.new = b] \in Local  BY DEF Local
  <2>5. [x EXCEPT !.left = j, !.new = b].pos = x.pos  BY DEF Local
  <2>6. [x EXCEPT !.left = j, !.new = b].left = j  BY DEF Local
  <2> QED  BY <2>1, <2>2, <2>3, <2>4, <2>5, <2>6, Zenon
<1>9. m2 \in Local /\ m2.pos = loc[p].pos
  <2>1. PICK x \in Local : x = loc[p]  BY <1>1
  <2>3. PICK b \in BOOLEAN : b = TRUE  BY Zenon
  <2>4. [x EXCEPT !.already = b, !.new = b] \in Local  BY DEF Local
  <2>5. [x EXCEPT !.already = b, !.new = b].pos = x.pos  BY DEF Local
  <2> QED  BY <2>1, <2>3, <2>4, <2>5, Zenon
<1>10. CASE loc[p].new /\ r.got
  <2>1. \/ Obtained(p, r.e)
        \/ r.got = FALSE
    BY <1>4, <1>10 DEF FirstAttempt
  <2> QED  BY <1>5, <1>7, <1>10, <2>1, ObtainedKeeps
<1>11. CASE loc[p].new /\ ~r.got
  <2> DEFINE l == IF loc[p].pos > 1 THEN "bckout" ELSE "wait"
  <2>1. /\ Update(p, loc[p].pos, r.e) /\ UNCHANGED lks /\ Goto(p, l)
        /\ loc' = [loc EXCEPT ![p] = m1]
    BY <1>1, <1>4, <1>11 DEF FirstAttempt
  <2>2. l \in InLock /\ (l = "bckout" => loc[p].pos - 1 \in 1 .. loc[p].pos - 1)
    BY <1>2 DEF InLock
  <2> HIDE DEF l, m1
  <2>3. l = "bckout" => m1.left \in 1 .. m1.pos - 1  BY <1>8, <2>2
  <2> QED  BY <1>5, <1>7, <1>8, <2>1, <2>2, <2>3, AttemptKeeps
<1>12. CASE ~loc[p].new
  <2>1. Reattempt(p, r)  BY <1>4, <1>12
  <2>2. Update(p, loc[p].pos, r.e) /\ UNCHANGED lks  BY <2>1 DEF Reattempt
  <2>3. \/ Goto(p, "lock") /\ loc' = [loc EXCEPT ![p] = m2]
        \/ \E l \in {"relinquish", "checkown", "wait"} : Goto(p, l) /\ UNCHANGED loc
    BY <1>1, <2>1 DEF Reattempt
  <2> HIDE DEF m2
  <2>4. CASE Goto(p, "lock") /\ loc' = [loc EXCEPT ![p] = m2]
    <3>1. "lock" \in InLock /\ ~("lock" = "bckout")  BY DEF InLock
    <3> QED  BY <1>5, <1>7, <1>9, <2>2, <2>4, <3>1, AttemptKeeps
  <2>5. CASE \E l \in {"relinquish", "checkown", "wait"} : Goto(p, l) /\ UNCHANGED loc
    <3>1. PICK l \in {"relinquish", "checkown", "wait"} : Goto(p, l) /\ UNCHANGED loc  BY <2>5
    <3>2. l \in InLock /\ l # "bckout"  BY DEF InLock
    <3>3. loc' = [loc EXCEPT ![p] = loc[p]]  BY <1>1, <3>1
    <3> QED  BY <1>1, <1>5, <1>7, <2>2, <3>1, <3>2, <3>3, AttemptKeeps
  <2> QED  BY <2>3, <2>4, <2>5
<1> QED  BY <1>10, <1>11, <1>12

LEMMA WeakerKeepsShared ==
  ASSUME Inv, shr' \in Space, Weaker(shr', shr), latch' \in ProcOrNone,
         yield' \in [Proc -> YieldPid], UNCHANGED procvars
  PROVE  SharedOK
<1>1. OneOwnerPerBranch(shr')  BY WeakerKeeps DEF Inv, TypeOK, Exclusion
<1> QED  BY <1>1 DEF SharedOK, Inv, TypeOK, procvars

(* The process stays inside op_lock2 with its private list as it is. *)
LEMMA StayKeeps ==
  ASSUME Inv, SharedOK, NEW p \in Proc, pc[p] \in InLock,
         NEW l \in InLock, l # "bckout", Goto(p, l), UNCHANGED <<pvt, lks>>,
         NEW m \in Local, loc' = [loc EXCEPT ![p] = m], m.pos = loc[p].pos
  PROVE  Inv'
<1>1. pvt[p] \in Seq(Pvtblk) /\ lks[p] \in Nat /\ Listed(pc[p], pvt[p], lks[p], loc[p])
  BY ProcFacts
<1>2. Moves(p, l, pvt[p], lks[p], m)  BY DEF Moves, Goto, Inv, TypeOK
<1>3. Listed(l, pvt[p], lks[p], m)  BY <1>1 DEF Listed, InLock, Releasing, Exiting
<1>4. l \in PC  BY DEF PC, InLock
<1> QED  BY <1>1, <1>2, <1>3, <1>4, StepKeeps

LEMMA CurType ==
  ASSUME Inv, NEW p \in Proc, pc[p] \in InLock
  PROVE  /\ Cur(p) \in Pvtblk /\ loc[p].pos \in 1 .. Len(pvt[p])
         /\ Cur(p).nodptr \in Blk \cup {NoBlk}
<1>1. pvt[p] \in Seq(Pvtblk) /\ lks[p] \in Nat /\ loc[p] \in Local /\ Listed(pc[p], pvt[p], lks[p], loc[p])
  BY ProcFacts
<1>2. loc[p].pos \in 1 .. Len(pvt[p])  BY <1>1 DEF Listed, Local
<1>3. Cur(p) \in Pvtblk  BY <1>1, <1>2 DEF Cur
<1> QED  BY <1>2, <1>3, BlkFacts DEF Pvtblk

LEMMA TryLockKeeps ==
  ASSUME Inv, NEW p \in Proc, TryLock(p) \/ SkipLocked(p)
  PROVE  Inv'
<1>1. pc[p] = "lock" /\ pc[p] \in InLock  BY DEF TryLock, SkipLocked, InLock
<1>2. shr \in Space /\ OneOwnerPerBranch(shr) /\ latch \in ProcOrNone
  BY DEF Inv, TypeOK, Exclusion
<1>3. CASE TryLock(p)
  <2>1. LockIn(p, shr) /\ latch' \in ProcOrNone /\ UNCHANGED procvars
    BY <1>2, <1>3 DEF TryLock
  <2> QED  BY <1>1, <1>2, <2>1, LockInKeeps
<1>4. CASE SkipLocked(p)
  <2>1. SharedOK  BY <1>4, QuietKeeps DEF SkipLocked, Quiet, procvars
  <2>2. Obtained(p, Cur(p))  BY <1>4 DEF SkipLocked
  <2> QED  BY <1>1, <2>1, <2>2, CurType, ObtainedKeeps
<1> QED  BY <1>3, <1>4

-----------------------------------------------------------------------------
(* Backing out *)

LEMMA PvtblkUndone ==
  ASSUME NEW e \in Pvtblk
  PROVE  /\ Undone(e) \in Pvtblk /\ Lowered(e) \in Pvtblk
         /\ [e EXCEPT !.level = 0] \in Pvtblk
<1>1. LevelMax \in Nat \ {0}  BY CommandAssumption
<1>2. e.level \in 0 .. LevelMax /\ e.translev \in Nat  BY DEF Pvtblk, UCHAR_MAX
<1>3. PICK l \in 0 .. LevelMax : l = 0  BY <1>1
<1>4. PICK m \in 0 .. LevelMax : m = (e.level - e.translev) % (LevelMax + 1)  BY <1>1, <1>2
<1>5. PICK b \in BOOLEAN : b = FALSE  BY Zenon
<1>6. PICK d \in 0 .. max_blkcnt : d = NoBlk  BY BlkFacts
<1>7. [e EXCEPT !.granted = b, !.level = l, !.nodptr = d] \in Pvtblk  BY DEF Pvtblk
<1>8. [e EXCEPT !.level = m] \in Pvtblk  BY DEF Pvtblk
<1>9. [e EXCEPT !.level = l] \in Pvtblk  BY DEF Pvtblk
<1> QED  BY <1>3, <1>4, <1>5, <1>6, <1>7, <1>8, <1>9, Zenon DEF Undone, Lowered

LEMMA BckoutKeeps ==
  ASSUME Inv, NEW p \in Proc, mlk_bckout(p)
  PROVE  Inv'
<1> DEFINE i  == loc[p].pos - loc[p].left
           e  == pvt[p][i]
           e1 == IF loc[p].op = "LOCK" THEN [e EXCEPT !.level = 0] ELSE Lowered(e)
           m  == [loc[p] EXCEPT !.left = loc[p].left - 1]
           l  == IF BckoutDone(p) THEN "wait" ELSE "bckout"
<1>1. /\ pvt[p] \in Seq(Pvtblk) /\ lks[p] \in Nat /\ loc[p] \in Local /\ pc[p] = "bckout"
      /\ Listed("bckout", pvt[p], lks[p], loc[p]) /\ shr \in Space
      /\ pc \in [Proc -> PC] /\ pvt \in [Proc -> Seq(Pvtblk)]
      /\ lks \in [Proc -> Nat] /\ loc \in [Proc -> Local]
  BY ProcFacts DEF mlk_bckout, Inv, TypeOK
<1>2. /\ loc[p].pos \in Nat \ {0} /\ loc[p].left \in 1 .. loc[p].pos - 1
      /\ loc[p].pos <= lks[p] /\ lks[p] <= Len(pvt[p]) /\ Len(pvt[p]) \in Nat
  BY <1>1 DEF Listed, InLock, Local
<1>3. i \in 1 .. Len(pvt[p]) /\ loc[p].left - 1 \in Nat  BY <1>1, <1>2
<1>4. e \in Pvtblk  BY <1>1, <1>3
<1>5. e1 \in Pvtblk /\ Undone(e) \in Pvtblk  BY <1>4, PvtblkUndone
<1>6. m \in Local /\ m.left = loc[p].left - 1 /\ m.pos = loc[p].pos
  BY <1>1, <1>3, LocalLeft
<1>7. SharedOK
  <2>1. e.nodptr \in Blk \cup {NoBlk}  BY <1>4, BlkFacts DEF Pvtblk
  <2>2. shr' = mlk_unlock(shr, e, p, alive) \/ shr' = shr  BY DEF mlk_bckout
  <2> HIDE DEF e
  <2>3. shr' \in Space /\ Weaker(shr', shr)  BY <1>1, <2>1, <2>2, UnlockType DEF Weaker
  <2> QED  BY <2>3, WeakerKeepsShared DEF mlk_bckout, Inv, TypeOK
<1>8. PICK x \in Pvtblk : pvt' = [pvt EXCEPT ![p][i] = x]
  BY <1>5 DEF mlk_bckout, Update
<1> DEFINE q == [pvt[p] EXCEPT ![i] = x]
<1>9. q \in Seq(Pvtblk) /\ Len(q) = Len(pvt[p])  BY <1>1, <1>3, UpdateType
<1>10. pvt' = [pvt EXCEPT ![p] = q]  BY <1>1, <1>8
<1> HIDE DEF q, e, e1
<1>11. Moves(p, l, q, lks[p], m)
  <2>1. loc' = [loc EXCEPT ![p].left = @ - 1] /\ Goto(p, l) /\ UNCHANGED lks
    BY DEF mlk_bckout
  <2> QED  BY <1>1, <1>10, <2>1 DEF Moves, Goto
<1>12. l \in PC /\ l \in {"wait", "bckout"} /\ (l = "bckout" => loc[p].left # 1)
  BY DEF PC, BckoutDone
<1> HIDE DEF m, l
<1>13. Listed(l, q, lks[p], m)
  BY <1>1, <1>2, <1>6, <1>9, <1>12 DEF Listed, InLock, Releasing, Exiting
<1> QED  BY <1>1, <1>6, <1>7, <1>9, <1>11, <1>12, <1>13, StepKeeps

LEMMA BckoutZallocateKeeps ==
  ASSUME Inv, NEW p \in Proc, BckoutZallocate(p)
  PROVE  Inv'
<1>1. SharedOK  BY DEF BckoutZallocate, Inv, TypeOK, Exclusion, SharedOK
<1>2. Moves(p, "gtmassert", pvt[p], lks[p], loc[p])
  BY DEF BckoutZallocate, Moves, Goto, Inv, TypeOK
<1>3. Listed("gtmassert", pvt[p], lks[p], loc[p])  BY DEF Listed, InLock, Releasing, Exiting
<1>4. "gtmassert" \in PC  BY DEF PC
<1> QED  BY <1>1, <1>2, <1>3, <1>4, ProcFacts, StepKeeps

-----------------------------------------------------------------------------
(* Waiting *)

LEMMA LocalFlag ==
  ASSUME NEW x \in Local, NEW b \in BOOLEAN, NEW T \in SUBSET Proc
  PROVE  /\ [x EXCEPT !.oot = b] \in Local /\ [x EXCEPT !.oot = b].pos = x.pos
         /\ [x EXCEPT !.oob = b] \in Local /\ [x EXCEPT !.oob = b].pos = x.pos
         /\ [x EXCEPT !.tab = T] \in Local /\ [x EXCEPT !.tab = T].pos = x.pos
<1>1. [x EXCEPT !.oot = b] \in Local /\ [x EXCEPT !.oot = b].pos = x.pos  BY DEF Local
<1>2. [x EXCEPT !.oob = b] \in Local /\ [x EXCEPT !.oob = b].pos = x.pos  BY DEF Local
<1>3. [x EXCEPT !.tab = T] \in Local /\ [x EXCEPT !.tab = T].pos = x.pos  BY DEF Local
<1> QED  BY <1>1, <1>2, <1>3

LEMMA TimerKeeps ==
  ASSUME Inv, NEW p \in Proc, TimerPop(p) \/ Interrupt(p)
  PROVE  Inv'
<1> DEFINE m1 == [loc[p] EXCEPT !.oot = TRUE]
           m2 == [loc[p] EXCEPT !.oob = TRUE]
<1>1. /\ pc[p] = "wait" /\ pc[p] \in InLock /\ loc[p] \in Local
      /\ loc \in [Proc -> Local] /\ pc \in [Proc -> PC]
  BY DEF TimerPop, Interrupt, InLock, Inv, TypeOK
<1>2. SharedOK  BY QuietKeeps DEF TimerPop, Interrupt, Quiet, procvars
<1>3. m1 \in Local /\ m1.pos = loc[p].pos /\ m2 \in Local /\ m2.pos = loc[p].pos
  <2>1. PICK b \in BOOLEAN : b = TRUE  BY Zenon
  <2>2. PICK x \in Local : x = loc[p]  BY <1>1
  <2>3. /\ [x EXCEPT !.oot = b] \in Local /\ [x EXCEPT !.oot = b].pos = x.pos
        /\ [x EXCEPT !.oob = b] \in Local /\ [x EXCEPT !.oob = b].pos = x.pos
    BY LocalFlag
  <2> QED  BY <2>1, <2>2, <2>3, Zenon
<1>4. UNCHANGED <<pvt, lks>>  BY DEF TimerPop, Interrupt
<1>5. \/ Goto(p, "wait") /\ loc' = [loc EXCEPT ![p] = m1]
      \/ Goto(p, "unpend") /\ loc' = [loc EXCEPT ![p] = m2]
  BY <1>1 DEF TimerPop, Interrupt, Goto
<1>6. /\ "wait" \in InLock /\ "unpend" \in InLock
      /\ "wait" # "bckout" /\ "unpend" # "bckout"
  BY DEF InLock
<1> HIDE DEF m1, m2
<1> QED  BY <1>1, <1>2, <1>3, <1>4, <1>5, <1>6, StayKeeps

(* The steps that go from one place of op_lock2 to another, without a change *)
(* of the process's own variables.                                          *)
LEMMA HopKeeps ==
  ASSUME Inv, SharedOK, NEW p \in Proc, pc[p] \in InLock,
         NEW l \in InLock, l # "bckout", Goto(p, l), UNCHANGED <<pvt, lks, loc>>
  PROVE  Inv'
<1>1. loc[p] \in Local /\ loc' = [loc EXCEPT ![p] = loc[p]]  BY DEF Inv, TypeOK
<1> QED  BY <1>1, StayKeeps

LEMMA CheckOwnShared ==
  ASSUME Inv, NEW p \in Proc, shr' = mlk_check_own(shr, Cur(p), alive),
         UNCHANGED <<latch, yield, procvars>>
  PROVE  SharedOK
<1>1. shr' \in Space /\ Weaker(shr', shr)  BY CheckOwnType DEF Inv, TypeOK
<1> QED  BY <1>1, WeakerKeepsShared DEF Inv, TypeOK

LEMMA WaitKeeps ==
  ASSUME Inv, NEW p \in Proc, OutOfTime(p) \/ CheckOwn(p) \/ Poll(p)
  PROVE  Inv'
<1>1. pc[p] \in InLock  BY DEF OutOfTime, CheckOwn, Poll, InLock
<1>2. UNCHANGED <<pvt, lks, loc, yield, procvars>>  BY DEF OutOfTime, CheckOwn, Poll
<1>3. \E l \in {"poll", "unpend", "wait", "lock"} : Goto(p, l)
  BY DEF OutOfTime, CheckOwn, Poll
<1>4. PICK l \in {"poll", "unpend", "wait", "lock"} : Goto(p, l)  BY <1>3
<1>5. l \in InLock /\ l # "bckout"  BY DEF InLock
<1>6. SharedOK
  <2>1. CASE OutOfTime(p) \/ CheckOwn(p)
    BY <1>2, <2>1, CheckOwnShared DEF OutOfTime, CheckOwn
  <2>2. CASE Poll(p)
    <3>1. shr' = shr /\ latch' \in ProcOrNone
      BY <2>2 DEF Poll, Inv, TypeOK, ProcOrNone
    <3>2. shr' \in Space /\ Weaker(shr', shr) /\ yield' \in [Proc -> YieldPid]
      BY <1>2, <3>1 DEF Inv, TypeOK, Weaker
    <3> QED  BY <1>2, <3>1, <3>2, WeakerKeepsShared
  <2> QED  BY <2>1, <2>2
<1> QED  BY <1>1, <1>2, <1>4, <1>5, <1>6, HopKeeps

LEMMA RelinquishKeeps ==
  ASSUME Inv, NEW p \in Proc, Relinquish(p)
  PROVE  Inv'
<1> DEFINE m == [loc[p] EXCEPT !.pos = 1, !.new = TRUE, !.already = FALSE]
<1>1. /\ pc[p] = "relinquish" /\ pc[p] \in InLock /\ shr \in Space
      /\ pvt[p] \in Seq(Pvtblk) /\ lks[p] \in Nat /\ loc[p] \in Local
      /\ Listed(pc[p], pvt[p], lks[p], loc[p])
      /\ pc \in [Proc -> PC] /\ pvt \in [Proc -> Seq(Pvtblk)]
      /\ lks \in [Proc -> Nat] /\ loc \in [Proc -> Local]
  BY ProcFacts DEF Relinquish, InLock, Inv, TypeOK
<1>2. SharedOK
  <2>1. shr' \in Space /\ Weaker(shr', shr)  BY <1>1, CurType, UnlockType DEF Relinquish
  <2>2. yield' \in [Proc -> YieldPid]  BY DEF Relinquish, Inv, TypeOK, YieldPid
  <2> QED  BY <2>1, <2>2, WeakerKeepsShared DEF Relinquish, Inv, TypeOK
<1>3. m \in Local /\ m.pos = 1
  <2>1. PICK c \in BOOLEAN : c = TRUE  BY Zenon
  <2> QED  BY <1>1, <2>1, LocalRestart
<1>4. Moves(p, "lock", pvt[p], lks[p], m)  BY <1>1 DEF Relinquish, Moves, Goto
<1> HIDE DEF m
<1>5. 1 <= lks[p] /\ lks[p] <= Len(pvt[p])  BY <1>1 DEF Listed, Local
<1>6. Listed("lock", pvt[p], lks[p], m)
  BY <1>1, <1>3, <1>5 DEF Listed, InLock, Releasing, Exiting
<1>7. "lock" \in PC  BY DEF PC
<1> QED  BY <1>1, <1>2, <1>3, <1>4, <1>6, <1>7, StepKeeps

LEMMA UnpendKeeps ==
  ASSUME Inv, NEW p \in Proc, Unpend(p)
  PROVE  Inv'
<1> DEFINE m == [loc[p] EXCEPT !.pos = 1, !.left = Len(pvt[p])]
<1>1. /\ pc[p] = "unpend" /\ pc[p] \in InLock /\ shr \in Space
      /\ pvt[p] \in Seq(Pvtblk) /\ Len(pvt[p]) \in Nat /\ loc[p] \in Local
      /\ pc \in [Proc -> PC] /\ pvt \in [Proc -> Seq(Pvtblk)]
      /\ lks \in [Proc -> Nat] /\ loc \in [Proc -> Local]
  BY ProcFacts DEF Unpend, InLock, Inv, TypeOK
<1>2. SharedOK
  <2>1. CASE Cur(p).nodptr # NoBlk
    <3>1. Cur(p).nodptr \in Blk  BY <1>1, <2>1, CurType
    <3>2. shr' = mlk_prcblk_delete(shr, Cur(p).nodptr, p)  BY <2>1 DEF Unpend, mlk_unpend
    <3>3. shr' \in Space /\ Weaker(shr', shr)  BY <1>1, <3>1, <3>2, PrcblkDeleteType DEF Weaker
    <3> QED  BY <3>3, WeakerKeepsShared DEF Unpend, Inv, TypeOK
  <2>2. CASE Cur(p).nodptr = NoBlk
    <3>1. shr' = shr  BY <2>2 DEF Unpend
    <3> QED  BY <3>1, WeakerKeepsShared DEF Weaker, Unpend, Inv, TypeOK
  <2> QED  BY <2>1, <2>2
<1>3. m \in Local /\ m.pos = 1 /\ m.left = Len(pvt[p])  BY <1>1, LocalFront
<1>4. \/ Moves(p, "idle", pvt[p], 0, NoLocal)
      \/ Moves(p, "prune", pvt[p], 0, m)
  BY <1>1 DEF Unpend, Finish, Moves, Goto
<1> HIDE DEF m
<1>5. Listed("idle", pvt[p], 0, NoLocal)  BY DEF Listed, InLock, Releasing, Exiting
<1>6. Listed("prune", pvt[p], 0, m)  BY <1>1, <1>3 DEF Listed, InLock, Releasing, Exiting
<1>7. 0 \in Nat /\ "idle" \in PC /\ "prune" \in PC  BY DEF PC
<1> QED  BY <1>1, <1>2, <1>3, <1>4, <1>5, <1>6, <1>7, NoLocalType, StepKeeps

-----------------------------------------------------------------------------
(* Garbage collection *)

LEMMA LatchKeeps ==
  ASSUME Inv, NEW p \in Proc, NeedGc(p) \/ GetGcLatch(p) \/ SalvageGcLatch(p)
  PROVE  Inv'
<1>1. pc[p] \in InLock /\ pc \in [Proc -> PC]
  BY DEF NeedGc, GetGcLatch, SalvageGcLatch, InLock, Inv, TypeOK
<1>2. UNCHANGED <<pvt, lks, loc, yield, shr, procvars>>  BY DEF NeedGc, GetGcLatch, SalvageGcLatch
<1>3. \E l \in {"gcwait", "gcfill"} : Goto(p, l)
  BY <1>1 DEF NeedGc, GetGcLatch, SalvageGcLatch, Goto
<1>4. PICK l \in {"gcwait", "gcfill"} : Goto(p, l)  BY <1>3
<1>5. l \in InLock /\ l # "bckout"  BY DEF InLock
<1>6. latch' \in ProcOrNone
  BY DEF NeedGc, GetGcLatch, SalvageGcLatch, Inv, TypeOK, ProcOrNone
<1>7. SharedOK  BY <1>2, <1>6, WeakerKeepsShared DEF Weaker, Inv, TypeOK
<1> QED  BY <1>1, <1>2, <1>4, <1>5, <1>7, HopKeeps

LEMMA GcFillKeeps ==
  ASSUME Inv, NEW p \in Proc, GcFill(p)
  PROVE  Inv'
<1>1. /\ pc[p] = "gcfill" /\ pc[p] \in InLock /\ loc[p] \in Local /\ loc \in [Proc -> Local]
      /\ shr \in Space /\ OneOwnerPerBranch(shr) /\ UNCHANGED procvars
  BY DEF GcFill, InLock, Inv, TypeOK, Exclusion
<1>2. CASE latch' = NoProc /\ LockIn(p, shr)
  <2>1. latch' \in ProcOrNone  BY <1>2 DEF ProcOrNone
  <2> QED  BY <1>1, <1>2, <2>1, LockInKeeps
<1>3. CASE /\ \E T \in SUBSET fill_pid_table(shr) : loc' = [loc EXCEPT ![p].tab = T]
           /\ Goto(p, "gccheck")
           /\ UNCHANGED <<shr, latch, pvt, lks, yield>>
  <2>1. SharedOK  BY <1>1, <1>3, QuietKeeps DEF Quiet, procvars
  <2>2. PICK T \in SUBSET fill_pid_table(shr) : loc' = [loc EXCEPT ![p].tab = T]  BY <1>3
  <2>3. T \in SUBSET Proc
    <3>1. ASSUME NEW b \in InUse(shr), NEW i \in 1 .. Len(shr.pending[b]) - 1
          PROVE  shr.pending[b][i].process_id \in Proc
      <4>1. shr.pending[b] \in Seq(Prcblk)  BY <1>1 DEF InUse, Space
      <4>2. i \in 1 .. Len(shr.pending[b])  BY <4>1
      <4>3. shr.pending[b][i] \in Prcblk  BY <4>1, <4>2
      <4> QED  BY <4>3 DEF Prcblk
    <3> QED  BY <3>1 DEF fill_pid_table
  <2> DEFINE m == [loc[p] EXCEPT !.tab = T]
  <2>4. m \in Local /\ m.pos = loc[p].pos
    <3>1. PICK b \in BOOLEAN : b = TRUE  BY Zenon
    <3> QED  BY <1>1, <2>3, <3>1, LocalFlag
  <2>5. loc' = [loc EXCEPT ![p] = m]  BY <1>1, <2>2
  <2>6. "gccheck" \in InLock /\ "gccheck" # "bckout"  BY DEF InLock
  <2> HIDE DEF m
  <2> QED  BY <1>1, <1>3, <2>1, <2>4, <2>5, <2>6, StayKeeps
<1> QED  BY <1>2, <1>3 DEF GcFill

LEMMA GcCheckKeeps ==
  ASSUME Inv, NEW p \in Proc, check_pids(p)
  PROVE  Inv'
<1> DEFINE m == [loc[p] EXCEPT !.tab = loc[p].tab \ alive]
<1>1. /\ pc[p] = "gccheck" /\ pc[p] \in InLock /\ loc[p] \in Local /\ loc \in [Proc -> Local]
  BY DEF check_pids, InLock, Inv, TypeOK
<1>2. SharedOK  BY QuietKeeps DEF check_pids, Quiet, procvars
<1>3. m \in Local /\ m.pos = loc[p].pos
  <2>1. PICK b \in BOOLEAN : b = TRUE  BY Zenon
  <2>2. loc[p].tab \ alive \in SUBSET Proc  BY <1>1 DEF Local
  <2> QED  BY <1>1, <2>1, <2>2, LocalFlag
<1>4. loc' = [loc EXCEPT ![p] = m] /\ Goto(p, "gcclean") /\ UNCHANGED <<pvt, lks>>
  BY <1>1 DEF check_pids
<1>5. "gcclean" \in InLock /\ "gcclean" # "bckout"  BY DEF InLock
<1> HIDE DEF m
<1> QED  BY <1>1, <1>2, <1>3, <1>4, <1>5, StayKeeps

LEMMA GcCleanKeeps ==
  ASSUME Inv, NEW p \in Proc, GcClean(p)
  PROVE  Inv'
<1>1. pc[p] \in InLock /\ shr \in Space /\ OneOwnerPerBranch(shr)
  BY DEF GcClean, InLock, Inv, TypeOK, Exclusion
<1>2. PICK s : s = clean_pids(shr, loc[p].tab)  OBVIOUS
<1>3. s \in Space /\ OneOwnerPerBranch(s)  BY <1>1, <1>2, CleanPidsType, WeakerKeeps
<1>4. LockIn(p, s) /\ latch' \in ProcOrNone /\ UNCHANGED procvars
  BY <1>2 DEF GcClean, ProcOrNone
<1> QED  BY <1>1, <1>3, <1>4, LockInKeeps

-----------------------------------------------------------------------------
(* Releasing and exit *)

LEMMA WalkFacts ==
  ASSUME Inv, NEW p \in Proc, pc[p] \in Releasing, loc[p].left > 0
  PROVE  /\ loc[p].pos \in 1 .. Len(pvt[p]) /\ loc[p].pos + loc[p].left <= Len(pvt[p]) + 1
         /\ loc[p].left \in Nat /\ loc[p].left - 1 \in Nat /\ Len(pvt[p]) \in Nat
         /\ Cur(p) \in Pvtblk /\ Cur(p).nodptr \in Blk \cup {NoBlk}
<1>1. pvt[p] \in Seq(Pvtblk) /\ loc[p] \in Local /\ Listed(pc[p], pvt[p], lks[p], loc[p])
  BY ProcFacts
<1>2. /\ loc[p].pos \in Nat \ {0} /\ loc[p].left \in Nat /\ Len(pvt[p]) \in Nat
      /\ loc[p].pos + loc[p].left <= Len(pvt[p]) + 1
  BY <1>1 DEF Listed, Local
<1>3. loc[p].pos \in 1 .. Len(pvt[p]) /\ loc[p].left - 1 \in Nat  BY <1>2
<1>4. Cur(p) \in Pvtblk  BY <1>1, <1>3 DEF Cur
<1> QED  BY <1>2, <1>3, <1>4, BlkFacts DEF Pvtblk

LEMMA DropKeeps ==
  ASSUME Inv, SharedOK, NEW p \in Proc, pc[p] \in Releasing, loc[p].left > 0, DropCur(p),
         NEW l \in Releasing, l # "nocrit", l = "unlock" => lks[p] = 0, Goto(p, l), UNCHANGED lks
  PROVE  Inv'
<1> DEFINE q == RemoveAt(pvt[p], loc[p].pos)
           m == [loc[p] EXCEPT !.left = loc[p].left - 1]
<1>1. /\ pvt[p] \in Seq(Pvtblk) /\ lks[p] \in Nat /\ loc[p] \in Local
      /\ pc \in [Proc -> PC] /\ pvt \in [Proc -> Seq(Pvtblk)]
      /\ lks \in [Proc -> Nat] /\ loc \in [Proc -> Local]
  BY ProcFacts DEF Inv, TypeOK
<1>2. q \in Seq(Pvtblk) /\ Len(q) = Len(pvt[p]) - 1  BY <1>1, WalkFacts, RemoveAtType
<1>3. m \in Local /\ m.left = loc[p].left - 1 /\ m.pos = loc[p].pos
  BY <1>1, WalkFacts, LocalLeft
<1>4. Moves(p, l, q, lks[p], m)  BY <1>1 DEF DropCur, Goto, Moves
<1> HIDE DEF q, m
<1>5. m.pos + m.left <= Len(q) + 1
  <2>1. /\ loc[p].pos \in Nat /\ loc[p].left \in Nat /\ Len(pvt[p]) \in Nat
        /\ loc[p].pos + loc[p].left <= Len(pvt[p]) + 1
    BY WalkFacts
  <2> QED  BY <1>2, <1>3, <2>1
<1>6. Listed(l, q, lks[p], m)  BY <1>1, <1>5 DEF Listed, InLock, Releasing, Exiting
<1>7. l \in PC  BY DEF PC, Releasing, Exiting
<1> QED  BY <1>1, <1>2, <1>3, <1>4, <1>6, <1>7, StepKeeps

LEMMA KeepKeeps ==
  ASSUME Inv, SharedOK, NEW p \in Proc, pc[p] \in Releasing, pc[p] # "nocrit", loc[p].left > 0,
         NEW e \in Pvtblk, KeepCur(p, e), UNCHANGED <<pc, lks>>
  PROVE  Inv'
<1> DEFINE q == [pvt[p] EXCEPT ![loc[p].pos] = e]
           m == [loc[p] EXCEPT !.left = loc[p].left - 1, !.pos = loc[p].pos + 1]
<1>1. /\ pvt[p] \in Seq(Pvtblk) /\ lks[p] \in Nat /\ loc[p] \in Local /\ pc[p] \in PC
      /\ Listed(pc[p], pvt[p], lks[p], loc[p])
      /\ pc \in [Proc -> PC] /\ pvt \in [Proc -> Seq(Pvtblk)]
      /\ lks \in [Proc -> Nat] /\ loc \in [Proc -> Local]
  BY ProcFacts DEF Inv, TypeOK
<1>2. q \in Seq(Pvtblk) /\ Len(q) = Len(pvt[p])  BY <1>1, WalkFacts, UpdateType
<1>3. m \in Local /\ m.left = loc[p].left - 1 /\ m.pos = loc[p].pos + 1
  <2>1. PICK x \in Local : x = loc[p]  BY <1>1
  <2>2. PICK j \in Nat : j = loc[p].left - 1  BY WalkFacts
  <2>3. PICK i \in Nat \ {0} : i = loc[p].pos + 1  BY WalkFacts
  <2>4. [x EXCEPT !.left = j, !.pos = i] \in Local  BY DEF Local
  <2>5. [x EXCEPT !.left = j, !.pos = i].left = j  BY DEF Local
  <2>6. [x EXCEPT !.left = j, !.pos = i].pos = i  BY DEF Local
  <2> QED  BY <2>1, <2>2, <2>3, <2>4, <2>5, <2>6, Zenon
<1>4. Moves(p, pc[p], q, lks[p], m)  BY <1>1 DEF KeepCur, Update, Moves
<1> HIDE DEF q, m
<1>5. m.pos + m.left <= Len(q) + 1
  <2>1. /\ loc[p].pos \in Nat /\ loc[p].left \in Nat /\ Len(pvt[p]) \in Nat
        /\ loc[p].pos + loc[p].left <= Len(pvt[p]) + 1
    BY WalkFacts
  <2> QED  BY <1>2, <1>3, <2>1
<1>6. Listed(pc[p], q, lks[p], m)  BY <1>1, <1>5 DEF Listed, InLock, Releasing, Exiting
<1> QED  BY <1>1, <1>2, <1>3, <1>4, <1>6, StepKeeps

LEMMA PvtblkReset ==
  ASSUME NEW e \in Pvtblk, NEW l \in 0 .. LevelMax
  PROVE  /\ [e EXCEPT !.level = l] \in Pvtblk
         /\ [e EXCEPT !.zalloc = FALSE] \in Pvtblk
<1>1. PICK b \in BOOLEAN : b = FALSE  BY Zenon
<1>2. [e EXCEPT !.zalloc = b] \in Pvtblk  BY DEF Pvtblk
<1>3. [e EXCEPT !.level = l] \in Pvtblk  BY DEF Pvtblk
<1>4. [e EXCEPT !.zalloc = FALSE] \in Pvtblk  BY <1>1, <1>2, Zenon
<1> QED  BY <1>3, <1>4

(* Every step of the four walks drops the block at pos or keeps it, and      *)
(* releases its node or leaves the lock space alone.                        *)
LEMMA ReleaseStepKeeps ==
  ASSUME Inv, NEW p \in Proc,
         PruneStep(p) \/ UnlockStep(p) \/ op_decrlock(p) \/ op_zdealloc2(p)
  PROVE  Inv'
<1>1. /\ pc[p] \in Releasing /\ pc[p] # "nocrit" /\ loc[p].left > 0
      /\ UNCHANGED <<latch, pc, lks, yield, procvars>>
  BY DEF PruneStep, UnlockStep, op_decrlock, op_zdealloc2, Releasing, Exiting
<1>2. shr' = shr \/ shr' = mlk_unlock(shr, Cur(p), p, alive)
  BY DEF PruneStep, UnlockStep, op_decrlock, op_zdealloc2
<1>3. SharedOK
  <2>1. shr' \in Space /\ Weaker(shr', shr)
    BY <1>1, <1>2, WalkFacts, UnlockType DEF Weaker, Inv, TypeOK
  <2> QED  BY <1>1, <2>1, WeakerKeepsShared DEF Inv, TypeOK
<1>4. PICK e : e = Cur(p) /\ e \in Pvtblk  BY <1>1, WalkFacts
<1>5. LevelMax \in Nat \ {0} /\ e.level \in 0 .. LevelMax /\ e.translev \in Nat
  BY <1>4, CommandAssumption DEF Pvtblk, UCHAR_MAX
<1>6. PICK l \in 0 .. LevelMax : l = IF e.translev > e.level THEN 0 ELSE e.level - e.translev
  BY <1>5
<1>7. PICK z \in 0 .. LevelMax : z = 0  BY <1>5
<1>8. /\ [e EXCEPT !.level = l] \in Pvtblk /\ [e EXCEPT !.level = z] \in Pvtblk
      /\ [e EXCEPT !.zalloc = FALSE] \in Pvtblk
  BY <1>4, PvtblkReset
<1>9. \/ DropCur(p)
      \/ KeepCur(p, e) \/ KeepCur(p, [e EXCEPT !.level = z])
      \/ KeepCur(p, [e EXCEPT !.level = l]) \/ KeepCur(p, [e EXCEPT !.zalloc = FALSE])
  BY <1>4, <1>6, <1>7, Zenon DEF PruneStep, UnlockStep, op_decrlock, op_zdealloc2
<1>10. CASE DropCur(p)
  <2>1. Goto(p, pc[p])  BY <1>1 DEF Goto, Inv, TypeOK
  <2>2. pc[p] = "unlock" => lks[p] = 0  BY ProcFacts DEF Listed
  <2> QED  BY <1>1, <1>3, <1>10, <2>1, <2>2, DropKeeps
<1>11. CASE ~DropCur(p)
  <2>1. PICK x \in Pvtblk : KeepCur(p, x)  BY <1>4, <1>8, <1>9, <1>11
  <2> QED  BY <1>1, <1>3, <2>1, KeepKeeps
<1> QED  BY <1>10, <1>11

LEMMA EndReleaseKeeps ==
  ASSUME Inv, NEW p \in Proc, EndRelease(p)
  PROVE  Inv'
<1> DEFINE m == [loc[p] EXCEPT !.pos = 1]
<1>1. /\ pvt[p] \in Seq(Pvtblk) /\ lks[p] \in Nat /\ loc[p] \in Local /\ Len(pvt[p]) \in Nat
      /\ Listed(pc[p], pvt[p], lks[p], loc[p])
      /\ pc \in [Proc -> PC] /\ pvt \in [Proc -> Seq(Pvtblk)]
      /\ lks \in [Proc -> Nat] /\ loc \in [Proc -> Local]
  BY ProcFacts DEF Inv, TypeOK
<1>2. SharedOK  BY QuietKeeps DEF EndRelease, Quiet, procvars
<1>3. m \in Local
  <2>1. PICK i \in Nat \ {0} : i = 1  OBVIOUS
  <2>2. [loc[p] EXCEPT !.pos = i] \in Local  BY <1>1, LocalPos
  <2> QED  BY <2>1, <2>2, Zenon
<1>4. \/ Moves(p, "idle", pvt[p], 0, NoLocal)
      \/ pc[p] = "unlock" /\ Moves(p, "name", pvt[p], lks[p], m)
  BY <1>1 DEF EndRelease, Finish, Moves, Goto
<1> HIDE DEF m
<1>5. Listed("idle", pvt[p], 0, NoLocal)  BY DEF Listed, InLock, Releasing, Exiting
<1>6. pc[p] = "unlock" => Listed("name", pvt[p], lks[p], m)
  BY <1>1 DEF Listed, InLock, Releasing, Exiting
<1>7. 0 \in Nat /\ "idle" \in PC /\ "name" \in PC  BY DEF PC
<1> QED  BY <1>1, <1>2, <1>3, <1>4, <1>5, <1>6, <1>7, NoLocalType, StepKeeps

(* The exit handler's walks start at the head of the list. *)
LEMMA FrontType ==
  ASSUME NEW j \in Nat
  PROVE  /\ [NoLocal EXCEPT !.left = j] \in Local
         /\ [NoLocal EXCEPT !.left = j].pos = 1 /\ [NoLocal EXCEPT !.left = j].left = j
<1>1. NoLocal.pos = 1  BY DEF NoLocal
<1> QED  BY <1>1, NoLocalType, LocalLeft

LEMMA ExitKeeps ==
  ASSUME Inv, NEW p \in Proc, Exit(p) \/ ExitZdeallocate(p)
  PROVE  Inv'
<1> DEFINE m == [NoLocal EXCEPT !.left = Len(pvt[p])]
<1>1. /\ pvt[p] \in Seq(Pvtblk) /\ lks[p] \in Nat /\ Len(pvt[p]) \in Nat
      /\ pc \in [Proc -> PC] /\ pvt \in [Proc -> Seq(Pvtblk)]
      /\ lks \in [Proc -> Nat] /\ loc \in [Proc -> Local]
  BY ProcFacts DEF Inv, TypeOK
<1>2. SharedOK  BY QuietKeeps DEF Exit, ExitZdeallocate, Quiet, procvars
<1>3. m \in Local /\ m.pos = 1 /\ m.left = Len(pvt[p])  BY <1>1, FrontType
<1>4. \/ Moves(p, "exit", pvt[p], 0, m)
      \/ Moves(p, "exitzd", pvt[p], lks[p], m)
  BY <1>1 DEF Exit, ExitZdeallocate, Moves, Goto
<1> HIDE DEF m
<1>5. Listed("exit", pvt[p], 0, m) /\ Listed("exitzd", pvt[p], lks[p], m)
  BY <1>1, <1>3 DEF Listed, InLock, Releasing, Exiting
<1>6. 0 \in Nat /\ "exit" \in PC /\ "exitzd" \in PC  BY DEF PC
<1> QED  BY <1>1, <1>2, <1>3, <1>4, <1>5, <1>6, StepKeeps

LEMMA ExitStepKeeps ==
  ASSUME Inv, NEW p \in Proc, ExitStep(p)
  PROVE  Inv'
<1>1. /\ pc[p] = "exit" /\ pc[p] \in Releasing /\ pc[p] # "nocrit" /\ loc[p].left > 0
      /\ UNCHANGED <<shr, latch, lks, yield, procvars>>
  BY DEF ExitStep, Releasing, Exiting
<1>2. SharedOK  BY <1>1, QuietKeeps DEF Quiet, procvars
<1>3. PICK e : e = Cur(p) /\ e \in Pvtblk  BY <1>1, WalkFacts
<1>4. PICK z \in 0 .. LevelMax : z = 0  BY CommandAssumption
<1>5. [e EXCEPT !.level = z] \in Pvtblk  BY <1>3, PvtblkReset
<1>6. \/ DropCur(p) /\ UNCHANGED pc
      \/ KeepCur(p, [e EXCEPT !.level = z]) /\ UNCHANGED pc
      \/ /\ OwnsNode(shr, e, p)
         /\ loc' = [loc EXCEPT ![p].tmp = shr.lock_sequence, ![p].stored = {}]
         /\ Goto(p, "nocrit")
         /\ UNCHANGED pvt
  BY <1>3, <1>4, Zenon DEF ExitStep
<1>7. CASE DropCur(p) /\ UNCHANGED pc
  <2>1. Goto(p, "exit") /\ "exit" \in Releasing /\ "exit" # "unlock" /\ "exit" # "nocrit"
    BY <1>1, <1>7 DEF Goto, Inv, TypeOK, Releasing, Exiting
  <2> QED  BY <1>1, <1>2, <1>7, <2>1, DropKeeps
<1>8. CASE KeepCur(p, [e EXCEPT !.level = z]) /\ UNCHANGED pc
  <2>1. PICK x \in Pvtblk : KeepCur(p, x)  BY <1>5, <1>8
  <2> QED  BY <1>1, <1>2, <1>8, <2>1, KeepKeeps
<1>9. CASE /\ OwnsNode(shr, e, p)
           /\ loc' = [loc EXCEPT ![p].tmp = shr.lock_sequence, ![p].stored = {}]
           /\ Goto(p, "nocrit")
           /\ UNCHANGED pvt
  <2> DEFINE m == [loc[p] EXCEPT !.tmp = shr.lock_sequence, !.stored = {}]
  <2>1. /\ pvt[p] \in Seq(Pvtblk) /\ lks[p] \in Nat /\ loc[p] \in Local
        /\ pc \in [Proc -> PC] /\ pvt \in [Proc -> Seq(Pvtblk)]
        /\ lks \in [Proc -> Nat] /\ loc \in [Proc -> Local] /\ shr \in Space
    BY ProcFacts DEF Inv, TypeOK
  <2>2. m \in Local /\ m.pos = loc[p].pos /\ m.left = loc[p].left
    <3>1. PICK x \in Local : x = loc[p]  BY <2>1
    <3>2. PICK g \in Seqno : g = shr.lock_sequence  BY <2>1 DEF Space
    <3>3. PICK S \in SUBSET {"counter", "sequence", "owner"} : S = {}  OBVIOUS
    <3>4. [x EXCEPT !.tmp = g, !.stored = S] \in Local  BY DEF Local
    <3>5. [x EXCEPT !.tmp = g, !.stored = S].pos = x.pos  BY DEF Local
    <3>6. [x EXCEPT !.tmp = g, !.stored = S].left = x.left  BY DEF Local
    <3> QED  BY <3>1, <3>2, <3>3, <3>4, <3>5, <3>6, Zenon
  <2>3. Moves(p, "nocrit", pvt[p], lks[p], m)  BY <1>1, <1>9, <2>1 DEF Moves, Goto
  <2> HIDE DEF m
  <2>4. pvt[p][m.pos].nodptr # NoBlk  BY <1>3, <1>9, <2>2 DEF Cur, OwnsNode
  <2>5. Listed("nocrit", pvt[p], lks[p], m)
    BY <1>1, <2>2, <2>4, WalkFacts DEF Listed, InLock, Releasing, Exiting
  <2>6. "nocrit" \in PC  BY DEF PC
  <2> QED  BY <1>2, <2>1, <2>2, <2>3, <2>5, <2>6, StepKeeps
<1> QED  BY <1>6, <1>7, <1>8, <1>9

(* mlk_nocrit_unlock: any of its three stores. *)
LEMMA StoredKeeps ==
  ASSUME Inv, SharedOK, NEW p \in Proc, pc[p] = "nocrit",
         NEW what \in {"counter", "sequence", "owner"}, Stored(p, what), UNCHANGED lks
  PROVE  Inv'
<1>1. /\ pvt[p] \in Seq(Pvtblk) /\ lks[p] \in Nat /\ loc[p] \in Local
      /\ Listed("nocrit", pvt[p], lks[p], loc[p])
      /\ pc \in [Proc -> PC] /\ pvt \in [Proc -> Seq(Pvtblk)]
      /\ lks \in [Proc -> Nat] /\ loc \in [Proc -> Local]
  BY ProcFacts DEF Inv, TypeOK
<1>2. loc[p].left > 0 /\ pc[p] \in Releasing  BY <1>1 DEF Listed, Releasing, Exiting
<1>3. CASE DropCur(p) /\ Goto(p, "exit")
  <2>1. "exit" \in Releasing /\ "exit" # "unlock" /\ "exit" # "nocrit"  BY DEF Releasing, Exiting
  <2> QED  BY <1>2, <1>3, <2>1, DropKeeps
<1>4. CASE loc' = [loc EXCEPT ![p].stored = @ \cup {what}] /\ UNCHANGED <<pvt, pc>>
  <2> DEFINE m == [loc[p] EXCEPT !.stored = loc[p].stored \cup {what}]
  <2>1. m \in Local /\ m.pos = loc[p].pos /\ m.left = loc[p].left
    <3>1. PICK x \in Local : x = loc[p]  BY <1>1
    <3>2. PICK S \in SUBSET {"counter", "sequence", "owner"} : S = loc[p].stored \cup {what}
      BY <1>1 DEF Local
    <3>3. [x EXCEPT !.stored = S] \in Local  BY DEF Local
    <3>4. [x EXCEPT !.stored = S].pos = x.pos  BY DEF Local
    <3>5. [x EXCEPT !.stored = S].left = x.left  BY DEF Local
    <3> QED  BY <3>1, <3>2, <3>3, <3>4, <3>5, Zenon
  <2>2. Moves(p, "nocrit", pvt[p], lks[p], m)  BY <1>1, <1>4 DEF Moves
  <2> HIDE DEF m
  <2>3. Listed("nocrit", pvt[p], lks[p], m)
    BY <1>1, <2>1 DEF Listed, InLock, Releasing, Exiting
  <2>4. "nocrit" \in PC  BY DEF PC
  <2> QED  BY <1>1, <2>1, <2>2, <2>3, <2>4, StepKeeps
<1> QED  BY <1>3, <1>4 DEF Stored

LEMMA StoreKeeps ==
  ASSUME Inv, NEW p \in Proc, StoreCounter(p) \/ StoreSequence(p) \/ StoreOwner(p)
  PROVE  Inv'
<1>1. /\ pc[p] = "nocrit" /\ UNCHANGED <<latch, lks, yield, procvars>>
      /\ loc[p] \in Local /\ shr \in Space /\ pvt[p] \in Seq(Pvtblk)
  BY ProcFacts DEF StoreCounter, StoreSequence, StoreOwner, Inv, TypeOK
<1>2. PICK g \in Seqno : g = (loc[p].tmp + 1) % SeqMod
  <2>1. loc[p].tmp + 1 \in Int  BY <1>1, SpaceAssumption DEF Local, Seqno
  <2> QED  BY <2>1, SeqnoMod
<1>3. PICK h \in Seqno : h = loc[p].tmp  BY <1>1 DEF Local
<1>4. Cur(p).nodptr \in Blk
  <2>1. loc[p].left > 0 /\ pc[p] \in Releasing /\ Cur(p).nodptr # NoBlk
    BY <1>1, ProcFacts DEF Listed, Releasing, Exiting, Cur
  <2> QED  BY <2>1, WalkFacts
<1>5. PICK d \in Blk : d = Cur(p).nodptr  BY <1>4
<1>6. shr' \in Space /\ Weaker(shr', shr)
  <2>1. CASE StoreCounter(p)
    <3>1. shr' = [shr EXCEPT !.lock_sequence = g]  BY <1>2, <2>1 DEF StoreCounter
    <3>2. shr' \in Space /\ shr'.name = shr.name /\ shr'.owner = shr.owner
      BY <1>1, <3>1 DEF Space
    <3> QED  BY <3>2 DEF Weaker
  <2>2. CASE StoreSequence(p)
    <3>1. shr' = [shr EXCEPT !.sequence[d] = h]  BY <1>3, <1>5, <2>2 DEF StoreSequence
    <3>2. shr' \in Space /\ shr'.name = shr.name /\ shr'.owner = shr.owner
      BY <1>1, <3>1 DEF Space
    <3> QED  BY <3>2 DEF Weaker
  <2>3. CASE StoreOwner(p)
    <3>1. shr' = ClearOwner(shr, {d})  BY <1>5, <2>3 DEF StoreOwner
    <3> QED  BY <1>1, <3>1, ClearOwnerType DEF Weaker
  <2> QED  BY <2>1, <2>2, <2>3
<1>7. SharedOK  BY <1>1, <1>6, WeakerKeepsShared DEF Inv, TypeOK
<1>8. \E what \in {"counter", "sequence", "owner"} : Stored(p, what)
  BY DEF StoreCounter, StoreSequence, StoreOwner
<1> QED  BY <1>1, <1>7, <1>8, StoredKeeps

LEMMA VanishKeeps ==
  ASSUME Inv, NEW p \in Proc, ExitDone(p) \/ Kill(p)
  PROVE  Inv'
<1>1. Vanish(p)  BY DEF ExitDone, Kill
<1>2. yield' \in [Proc -> YieldPid] /\ alive' \in SUBSET Proc
  BY <1>1 DEF Vanish, Inv, TypeOK, YieldPid
<1>3. SharedOK  BY <1>1, <1>2 DEF Vanish, Inv, TypeOK, Exclusion, SharedOK
<1>4. Moves(p, "dead", <<>>, 0, NoLocal)  BY <1>1 DEF Vanish, Moves, Goto
<1>5. Listed("dead", <<>>, 0, NoLocal)  BY DEF Listed, InLock, Releasing, Exiting
<1>6. 0 \in Nat /\ "dead" \in PC /\ <<>> \in Seq(Pvtblk)  BY DEF PC
<1> QED  BY <1>3, <1>4, <1>5, <1>6, NoLocalType, StepKeeps

LEMMA LkeClearKeeps ==
  ASSUME Inv, NEW b \in Blk, LkeClear(b)
  PROVE  Inv'
<1>1. shr \in Space /\ OneOwnerPerBranch(shr) /\ nclear \in Nat  BY DEF Inv, TypeOK, Exclusion
<1>2. shr' \in lke_cleartree(shr, b, alive)  BY DEF LkeClear
<1>3. shr' \in Space /\ Weaker(shr', shr)  BY <1>1, <1>2, LkeCleartreeType
<1>4. OneOwnerPerBranch(shr')  BY <1>1, <1>3, WeakerKeeps
<1>5. TypeOK'  BY <1>1, <1>3 DEF LkeClear, Inv, TypeOK
<1>6. WalksStayInList'  BY DEF LkeClear, Inv, WalksStayInList, Listed
<1> QED  BY <1>4, <1>5, <1>6 DEF Inv, Exclusion

-----------------------------------------------------------------------------
(* The theorems *)

LEMMA InitInv == Init => Inv
<1> SUFFICES ASSUME Init PROVE Inv
  OBVIOUS
<1>1. mlk_shr_init \in Space /\ OneOwnerPerBranch(mlk_shr_init)
  <2>1. /\ [b \in Blk |-> NoName] \in [Blk -> NameOrNone]
        /\ [b \in Blk |-> NoProc] \in [Blk -> ProcOrNone]
        /\ [b \in Blk |-> 0] \in [Blk -> Seqno]
        /\ [b \in Blk |-> <<>>] \in [Blk -> Seq(Prcblk)]
        /\ max_prccnt \in Int /\ 0 \in Seqno
    BY SpaceAssumption DEF NameOrNone, ProcOrNone, Seqno
  <2>2. mlk_shr_init \in Space  BY <2>1 DEF mlk_shr_init, Space
  <2>3. \A b \in Blk : mlk_shr_init.name[b] = NoName  BY DEF mlk_shr_init
  <2>4. InUse(mlk_shr_init) = {}  BY <2>3, NullAssumption DEF InUse
  <2> QED  BY <2>2, <2>4 DEF OneOwnerPerBranch
<1>2. TypeOK
  <2>1. NoProc \in ProcOrNone /\ NoProc \in YieldPid /\ "idle" \in PC /\ <<>> \in Seq(Pvtblk)
    BY DEF ProcOrNone, YieldPid, PC
  <2> QED  BY <1>1, <2>1, NoLocalType DEF Init, TypeOK
<1>3. WalksStayInList
  BY DEF Init, WalksStayInList, Listed, InLock, Releasing, Exiting
<1> QED  BY <1>1, <1>2, <1>3 DEF Init, Inv, Exclusion

LEMMA NextInv == Inv /\ RepeatsFit /\ [Next]_vars => Inv'
<1> SUFFICES ASSUME Inv, RepeatsFit, [Next]_vars PROVE Inv'
  OBVIOUS
<1>1. CASE UNCHANGED vars
  BY <1>1 DEF vars, Inv, TypeOK, WalksStayInList, Listed, Exclusion
<1>2. ASSUME NEW p \in Proc, NEW c \in Commands[p], Begin(p, c) PROVE Inv'
  BY <1>2, BeginKeeps
<1>3. ASSUME NEW p \in Proc, Run(p) PROVE Inv'
  <2>1. CASE OpLkname(p) \/ StartLock(p) \/ StartRelease(p)
    BY <2>1, OpLknameKeeps, StartLockKeeps, StartReleaseKeeps
  <2>2. CASE TryLock(p) \/ SkipLocked(p) \/ mlk_bckout(p) \/ BckoutZallocate(p)
    BY <2>2, TryLockKeeps, BckoutKeeps, BckoutZallocateKeeps
  <2>3. CASE TimerPop(p) \/ OutOfTime(p) \/ Poll(p) \/ CheckOwn(p) \/ Relinquish(p) \/ Unpend(p)
    BY <2>3, TimerKeeps, WaitKeeps, RelinquishKeeps, UnpendKeeps
  <2>4. CASE \/ NeedGc(p) \/ GetGcLatch(p) \/ SalvageGcLatch(p)
             \/ GcFill(p) \/ check_pids(p) \/ GcClean(p)
    BY <2>4, LatchKeeps, GcFillKeeps, GcCheckKeeps, GcCleanKeeps
  <2>5. CASE PruneStep(p) \/ UnlockStep(p) \/ op_decrlock(p) \/ op_zdealloc2(p) \/ EndRelease(p)
    BY <2>5, ReleaseStepKeeps, EndReleaseKeeps
  <2>6. CASE \/ ExitStep(p) \/ StoreCounter(p) \/ StoreSequence(p) \/ StoreOwner(p)
             \/ ExitZdeallocate(p) \/ ExitDone(p)
    BY <2>6, ExitStepKeeps, StoreKeeps, ExitKeeps, VanishKeeps
  <2> QED  BY <1>3, <2>1, <2>2, <2>3, <2>4, <2>5, <2>6 DEF Run
<1>4. ASSUME NEW p \in Proc, ArgError(p) \/ Interrupt(p) \/ Exit(p) \/ Kill(p) PROVE Inv'
  BY <1>4, ArgErrorKeeps, TimerKeeps, ExitKeeps, VanishKeeps
<1>5. ASSUME NEW b \in Blk, LkeClear(b) PROVE Inv'
  BY <1>5, LkeClearKeeps
<1> QED  BY <1>1, <1>2, <1>3, <1>4, <1>5 DEF Next

(* Every reachable state is well-formed: the lock space, the queues, the     *)
(* private blocks with their 9-bit levels and 32-bit sequence numbers, and   *)
(* the local variables of every routine keep their types, unless one command *)
(* names a lock 256 times.                                                  *)
THEOREM TypeCorrect == Spec /\ []RepeatsFit => []TypeOK
<1>1. Inv => TypeOK  BY DEF Inv
<1> QED  BY <1>1, InitInv, NextInv, PTL DEF Spec

(* The loops of op_lock2, op_unlock, op_decrlock, op_zdealloc2 and           *)
(* mlk_bckout, which count to lks_this_cmd or along the list without looking *)
(* for its end, do not run past the end of the private list as long as no    *)
(* translev wraps: the hypothesis says that no lock is named 256 times in a  *)
(* command, and without it the statement is false.                          *)
THEOREM WalksBounded == Spec /\ []RepeatsFit => []WalksStayInList
<1>1. Inv => WalksStayInList  BY DEF Inv
<1> QED  BY <1>1, InitInv, NextInv, PTL DEF Spec

(* Mutual exclusion along the tree of names: mlk_lock never grants a node    *)
(* while a node above or below it has another owner, whatever crashes,       *)
(* collections, operator clears and unprotected releases happen meanwhile,   *)
(* unless one command names a lock 256 times.                               *)
THEOREM MutualExclusion == Spec /\ []RepeatsFit => []Exclusion
<1>1. Inv => Exclusion  BY DEF Inv
<1> QED  BY <1>1, InitInv, NextInv, PTL DEF Spec

-----------------------------------------------------------------------------
(* The tree, and the promise of HierLock.tla *)
(*                                                                         *)
(* TreeInv is inductive.  Beside the tree it says that a process is alive    *)
(* exactly until it ends, that clean_pids is given pids of dead processes    *)
(* only, and that the node mlk_nocrit_unlock is about to clear without crit  *)
(* is still its caller's unless LKE CLEAR has been used: without these the   *)
(* collector or an exiting process could take a lock from a live process.    *)

(* A private block keeps all but its pointers and sequence numbers. *)
SameClaim(f, e) ==
  /\ f.name = e.name /\ f.level = e.level /\ f.zalloc = e.zalloc
  /\ f.granted = e.granted /\ f.trans = e.trans /\ f.translev = e.translev

(* mlk_lock keeps the tree and the locks of p and of the live processes. *)
LEMMA LockFrame ==
  ASSUME NEW s0, Sound(s0), NEW e \in Pvtblk, NEW p \in Proc, NEW new,
         NEW y \in YieldPid, NEW live, live \subseteq Proc,
         NEW r \in mlk_lock(s0, e, p, new, y, live)
  PROVE  /\ Sound(r.space) /\ SameClaim(r.e, e) /\ r.got \in BOOLEAN
         /\ \E m : /\ Sound(m) /\ Weaker(m, s0) /\ Spares(m, s0, live \cup {p}, {})
                   /\ Refused(r, m, e, p) \/ FoundOwn(r, m, e, p) \/ Granted(r, m, e, p)
<1>0. s0 \in Space /\ e.name \in Name  BY DEF Sound, Pvtblk
<1>1. PICK f \in mlk_shrblk_find(s0, p, e.name, y, live) :
        r = LET s  == f.space
                d  == f.d
                e1 == IF f.blocked = NoBlk THEN e
                      ELSE [e EXCEPT !.blocked = f.blocked, !.blk_sequence = s0.sequence[f.blocked]]
                s1 == IF new THEN mlk_prcblk_add(s, d, p) ELSE s
                s2 == Grant(IF new THEN s ELSE mlk_prcblk_delete(s, d, p), d, p)
            IN IF d = NoBlk THEN [space |-> s, e |-> e1, got |-> FALSE, yield |-> f.yield]
               ELSE IF s.owner[d] = p
               THEN [space |-> s, e |-> [e1 EXCEPT !.nodptr = d], got |-> TRUE, yield |-> f.yield]
               ELSE IF f.isblocked
               THEN [space |-> TakeSequence(s1),
                     e |-> IF new /\ ~prcblk_added(s, d, p) THEN e1
                           ELSE [e1 EXCEPT !.nodptr = d, !.sequence = s.sequence[d]],
                     got |-> FALSE, yield |-> f.yield]
               ELSE [space |-> s2,
                     e |-> [e1 EXCEPT !.nodptr = d, !.sequence = s2.sequence[d]],
                     got |-> TRUE, yield |-> f.yield]
  BY DEF mlk_lock
<1> DEFINE e0 == IF f.blocked = NoBlk THEN e
                 ELSE [e EXCEPT !.blocked = f.blocked, !.blk_sequence = s0.sequence[f.blocked]]
           t1 == IF new THEN mlk_prcblk_add(f.space, f.d, p) ELSE f.space
           t2 == IF new THEN f.space ELSE mlk_prcblk_delete(f.space, f.d, p)
           t3 == Grant(t2, f.d, p)
<1>2. /\ f.space \in Space /\ Weaker(f.space, s0)
      /\ f.d \in Blk \cup {NoBlk} /\ f.blocked \in Blk \cup {NoBlk}
      /\ ~f.isblocked => Clear(f.space, f.d, p, e.name)
  BY <1>0, FindType
<1>3. /\ Sound(f.space) /\ Spares(f.space, s0, live \cup {p}, {})
      /\ f.d # NoBlk => f.d \in InUse(f.space) /\ f.space.name[f.d] = e.name
      /\ (\E b \in InUse(s0) : s0.name[b] = e.name) => f.d # NoBlk
  <2>1. Found(f, s0, p, e.name, live)  BY <1>0, FindFrame
  <2> QED  BY <2>1 DEF Found
<1>4. e0 \in Pvtblk /\ SameClaim(e0, e) /\ e0.sequence = e.sequence
  <2>1. CASE f.blocked = NoBlk  BY <2>1 DEF SameClaim
  <2>2. CASE f.blocked # NoBlk
    <3>1. f.blocked \in Blk /\ s0.sequence[f.blocked] \in Seqno  BY <1>0, <1>2, <2>2 DEF Space
    <3>2. PICK x \in Seqno : x = s0.sequence[f.blocked]  BY <3>1
    <3>3. e0 = [e EXCEPT !.blocked = f.blocked, !.blk_sequence = x]  BY <2>2, <3>2
    <3> HIDE DEF e0
    <3>4. e0 \in Pvtblk  BY <3>1, <3>3, PvtblkNode
    <3> QED  BY <3>3, <3>4 DEF Pvtblk, SameClaim
  <2> QED  BY <2>1, <2>2
<1>5. \/ /\ f.d = NoBlk
         /\ r = [space |-> f.space, e |-> e0, got |-> FALSE, yield |-> f.yield]
      \/ /\ f.d # NoBlk
         /\ \/ /\ f.space.owner[f.d] = p
               /\ r = [space |-> f.space, e |-> [e0 EXCEPT !.nodptr = f.d], got |-> TRUE, yield |-> f.yield]
            \/ /\ f.space.owner[f.d] # p
               /\ r = [space |-> TakeSequence(t1), e |-> e0, got |-> FALSE, yield |-> f.yield]
            \/ /\ f.space.owner[f.d] # p
               /\ r = [space |-> TakeSequence(t1),
                    e |-> [e0 EXCEPT !.nodptr = f.d, !.sequence = f.space.sequence[f.d]],
                    got |-> FALSE, yield |-> f.yield]
            \/ /\ f.space.owner[f.d] # p
               /\ ~f.isblocked
               /\ r = [space |-> t3, e |-> [e0 EXCEPT !.nodptr = f.d, !.sequence = t3.sequence[f.d]],
                       got |-> TRUE, yield |-> f.yield]
  BY <1>1, Zenon
<1> HIDE DEF e0
<1>6. SUFFICES /\ Sound(r.space) /\ SameClaim(r.e, e) /\ r.got \in BOOLEAN
               /\ \/ Refused(r, f.space, e, p) \/ FoundOwn(r, f.space, e, p)
                  \/ Granted(r, f.space, e, p)
  BY <1>2, <1>3
<1>7. CASE f.d = NoBlk /\ r = [space |-> f.space, e |-> e0, got |-> FALSE, yield |-> f.yield]
  <2>1. r.space = f.space /\ r.e = e0 /\ ~r.got /\ r.got \in BOOLEAN  BY <1>7
  <2>2. ASSUME NEW b \in Blk, f.space.name[b] = e.name, f.space.owner[b] = p PROVE FALSE
    <3>1. s0.owner[b] = p /\ s0.name[b] = e.name  BY <1>2, <2>2, NullAssumption DEF Weaker
    <3>2. b \in InUse(s0)  BY <1>0, <3>1 DEF InUse
    <3> QED  BY <1>3, <1>7, <3>1, <3>2
  <2>3. Refused(r, f.space, e, p)  BY <2>1, <2>2 DEF Refused, SameLocks
  <2> QED  BY <1>3, <1>4, <2>1, <2>3
<1>8. CASE f.d # NoBlk
  <2>1. f.d \in Blk /\ f.d \in InUse(f.space) /\ f.space.name[f.d] = e.name
        /\ f.space.sequence[f.d] \in Seqno
    BY <1>2, <1>3, <1>8 DEF Space
  <2>2. /\ SameClaim([e0 EXCEPT !.nodptr = f.d], e)
        /\ [e0 EXCEPT !.nodptr = f.d].sequence = e.sequence
        /\ [e0 EXCEPT !.nodptr = f.d].nodptr = f.d
        /\ SameClaim([e0 EXCEPT !.nodptr = f.d, !.sequence = f.space.sequence[f.d]], e)
    BY <1>4 DEF Pvtblk, SameClaim
  <2>3. Sound(t1) /\ SameLocks(t1, f.space)
    BY <1>2, <1>3, <2>1, PrcblkAddType, PrcblkFrame DEF SameLocks
  <2>4. Sound(t2) /\ SameLocks(t2, f.space)
    BY <1>2, <1>3, <2>1, PrcblkDeleteType, PrcblkFrame DEF SameLocks
  <2> HIDE DEF t1, t2
  <2>5. Sound(TakeSequence(t1)) /\ SameLocks(TakeSequence(t1), f.space)
    <3>1. PICK t : t = TakeSequence(t1)  OBVIOUS
    <3>2. t1 \in Space  BY <2>3 DEF Sound
    <3>3. /\ t \in Space /\ t.name = t1.name /\ t.owner = t1.owner /\ t.sequence = t1.sequence
          /\ t.pending = t1.pending
      BY <3>1, <3>2, TakeSequenceType
    <3>4. Sound(t)  BY <2>3, <3>3, SoundKeeps DEF Sound, FreeVacant, Vacant
    <3> QED  BY <2>3, <3>1, <3>3, <3>4 DEF SameLocks
  <2>6. ASSUME f.space.owner[f.d] # p PROVE \A b \in Blk : f.space.name[b] = e.name => f.space.owner[b] # p
    <3>1. \A b \in Blk : f.space.name[b] = e.name => b \in InUse(f.space)  BY <1>0 DEF InUse
    <3> QED  BY <1>3, <2>1, <2>6, <3>1 DEF Sound, UniqueNames
  <2>7. CASE /\ f.space.owner[f.d] = p
             /\ r = [space |-> f.space, e |-> [e0 EXCEPT !.nodptr = f.d], got |-> TRUE, yield |-> f.yield]
    <3>1. r.space = f.space /\ r.e = [e0 EXCEPT !.nodptr = f.d] /\ r.got /\ r.got \in BOOLEAN  BY <2>7
    <3>2. FoundOwn(r, f.space, e, p)  BY <2>1, <2>2, <2>7, <3>1 DEF FoundOwn
    <3> QED  BY <1>3, <2>2, <3>1, <3>2
  <2>8. CASE /\ f.space.owner[f.d] # p
             /\ r = [space |-> TakeSequence(t1), e |-> e0, got |-> FALSE, yield |-> f.yield]
    <3>1. r.space = TakeSequence(t1) /\ r.e = e0 /\ ~r.got /\ r.got \in BOOLEAN  BY <2>8
    <3> QED  BY <1>4, <2>5, <2>6, <2>8, <3>1 DEF Refused
  <2>9. CASE /\ f.space.owner[f.d] # p
             /\ r = [space |-> TakeSequence(t1),
                     e |-> [e0 EXCEPT !.nodptr = f.d, !.sequence = f.space.sequence[f.d]],
                     got |-> FALSE, yield |-> f.yield]
    <3>1. /\ r.space = TakeSequence(t1) /\ ~r.got /\ r.got \in BOOLEAN
          /\ r.e = [e0 EXCEPT !.nodptr = f.d, !.sequence = f.space.sequence[f.d]]
      BY <2>9
    <3> QED  BY <2>2, <2>5, <2>6, <2>9, <3>1 DEF Refused
  <2>10. CASE /\ f.space.owner[f.d] # p
              /\ ~f.isblocked
              /\ r = [space |-> t3, e |-> [e0 EXCEPT !.nodptr = f.d, !.sequence = t3.sequence[f.d]],
                      got |-> TRUE, yield |-> f.yield]
    <3>1. /\ r.space = t3 /\ r.got /\ r.got \in BOOLEAN
          /\ r.e = [e0 EXCEPT !.nodptr = f.d, !.sequence = t3.sequence[f.d]]
      BY <2>10
    <3>2. f.d \in InUse(t2)  BY <2>1, <2>4 DEF InUse, SameLocks
    <3>3. /\ Sound(t3) /\ t3.name = t2.name /\ t3.owner = [t2.owner EXCEPT ![f.d] = p]
          /\ \A b \in Blk \ {f.d} : t3.sequence[b] = t2.sequence[b]
      <4>1. PICK d : d = f.d  OBVIOUS
      <4>2. t3 = Grant(t2, d, p)  BY <4>1
      <4> HIDE DEF t3
      <4> QED  BY <2>4, <3>2, <4>1, <4>2, GrantFrame
    <3> HIDE DEF t3
    <3>4. r.e.nodptr = f.d /\ r.e.sequence = t3.sequence[f.d] /\ SameClaim(r.e, e)
      BY <1>4, <3>1 DEF Pvtblk,  SameClaim
    <3>5. f.space.owner[f.d] = NoProc
      <4>1. Related(e.name, e.name)  BY <1>0, PathAssumption DEF Related
      <4> QED  BY <1>2, <2>1, <2>10, <4>1 DEF Clear
    <3>6. Granted(r, f.space, e, p)
      <4>1. PICK d : d = r.e.nodptr  OBVIOUS
      <4>2. d = f.d /\ Clear(f.space, d, p, e.name) /\ f.space.owner[d] = NoProc
        BY <1>2, <2>10, <3>4, <3>5, <4>1
      <4>3. /\ r.space.name = f.space.name /\ r.space.owner = [f.space.owner EXCEPT ![d] = p]
            /\ \A b \in Blk \ {d} : r.space.sequence[b] = f.space.sequence[b]
            /\ r.e.sequence = r.space.sequence[d]
        BY <2>4, <3>1, <3>3, <3>4, <4>2 DEF SameLocks
      <4> QED  BY <3>1, <4>1, <4>2, <4>3 DEF Granted
    <3> QED  BY <3>1, <3>3, <3>4, <3>6
  <2> QED  BY <1>5, <1>8, <2>7, <2>8, <2>9, <2>10
<1> QED  BY <1>5, <1>7, <1>8

-----------------------------------------------------------------------------
(* Who holds a name, read off the lock space *)

LEMMA HolderIs ==
  ASSUME NEW s, Sound(s), NEW b \in Blk, s.owner[b] # NoProc
  PROVE  s.name[b] \in Name /\ Holder(s)[s.name[b]] = s.owner[b]
<1>1. b \in InUse(s) /\ s.name[b] \in Name  BY OwnedInUse DEF InUse
<1> DEFINE O == OwnedNodes(s, s.name[b])
<1>2. b \in O /\ \A c \in O : c \in InUse(s) /\ s.name[c] = s.name[b]
  BY <1>1 DEF OwnedNodes, InUse
<1>3. \A c \in O : c = b  BY <1>1, <1>2 DEF Sound, UniqueNames
<1>4. (CHOOSE c \in O : TRUE) = b /\ O # {}
  <2> HIDE DEF O
  <2> QED  BY <1>2, <1>3
<1> QED  BY <1>1, <1>4 DEF Holder

LEMMA HolderFrom ==
  ASSUME NEW s, NEW n \in Name
  PROVE  \/ Holder(s)[n] = NoProc /\ \A b \in Blk : s.name[b] = n => s.owner[b] = NoProc
         \/ \E b \in Blk : s.name[b] = n /\ s.owner[b] # NoProc /\ Holder(s)[n] = s.owner[b]
<1> DEFINE O == OwnedNodes(s, n)
<1>1. CASE O = {}
  <2>1. Holder(s)[n] = NoProc  BY <1>1 DEF Holder
  <2> QED  BY <1>1, <2>1 DEF OwnedNodes
<1>2. CASE O # {}
  <2> DEFINE c == CHOOSE b \in O : TRUE
  <2>1. c \in O /\ Holder(s)[n] = s.owner[c]  BY <1>2 DEF Holder
  <2> HIDE DEF c
  <2> QED  BY <2>1 DEF OwnedNodes
<1> QED  BY <1>1, <1>2

LEMMA HolderType ==
  ASSUME NEW s, Sound(s)
  PROVE  Holder(s) \in [Name -> ProcOrNone] /\ DOMAIN Holder(s) = Name
<1>1. ASSUME NEW n \in Name PROVE Holder(s)[n] \in ProcOrNone
  <2>1. \A b \in Blk : s.owner[b] \in ProcOrNone  BY DEF Sound, Space
  <2> QED  BY <2>1, HolderFrom DEF ProcOrNone
<1>2. Holder(s) = [n \in Name |-> Holder(s)[n]]  BY DEF Holder
<1> QED  BY <1>1, <1>2

(* Locks of dead processes may have gone. *)
LEMMA HolderReaped ==
  ASSUME NEW s, NEW t, Sound(s), Sound(t), NEW live, Weaker(t, s), Spares(t, s, live, {})
  PROVE  \E D \in SUBSET {n \in Name : Holder(s)[n] \notin live \cup {NoProc}} :
           Holder(t) = [n \in Name |-> IF n \in D THEN NoProc ELSE Holder(s)[n]]
<1> DEFINE A == {n \in Name : Holder(s)[n] \notin live \cup {NoProc}}
           D == {n \in A : Holder(t)[n] = NoProc}
           h == [n \in Name |-> IF n \in D THEN NoProc ELSE Holder(s)[n]]
<1>1. ASSUME NEW n \in Name PROVE Holder(t)[n] = h[n]
  <2>1. CASE Holder(t)[n] # NoProc
    <3>1. PICK b \in Blk : t.name[b] = n /\ t.owner[b] # NoProc /\ Holder(t)[n] = t.owner[b]
      BY <2>1, HolderFrom
    <3>2. s.owner[b] = t.owner[b] /\ s.name[b] = n  BY <3>1 DEF Weaker
    <3>3. Holder(s)[n] = s.owner[b]  BY <3>1, <3>2, HolderIs
    <3> QED  BY <2>1, <3>1, <3>2, <3>3
  <2>2. CASE Holder(t)[n] = NoProc
    <3>1. CASE Holder(s)[n] = NoProc  BY <2>2, <3>1
    <3>2. CASE Holder(s)[n] # NoProc /\ Holder(s)[n] \notin live  BY <2>2, <3>2
    <3>3. CASE Holder(s)[n] # NoProc /\ Holder(s)[n] \in live
      <4>1. PICK b \in Blk : s.name[b] = n /\ s.owner[b] # NoProc /\ Holder(s)[n] = s.owner[b]
        BY <3>3, HolderFrom
      <4>2. t.owner[b] = s.owner[b] /\ t.name[b] = n  BY <3>3, <4>1 DEF Spares
      <4>3. Holder(t)[n] = t.owner[b]  BY <4>1, <4>2, HolderIs
      <4> QED  BY <2>2, <4>1, <4>2, <4>3
    <3> QED  BY <3>1, <3>2, <3>3
  <2> QED  BY <2>1, <2>2
<1> HIDE DEF h
<1>2. Holder(t) = h
  <2>1. Holder(t) = [n \in Name |-> Holder(t)[n]]  BY DEF Holder
  <2>2. h = [n \in Name |-> h[n]]  BY DEF h
  <2> QED  BY <1>1, <2>1, <2>2
<1>3. D \in SUBSET A  OBVIOUS
<1> QED  BY <1>2, <1>3 DEF h

(* One node changes hands. *)
LEMMA HolderGranted ==
  ASSUME NEW m, NEW t, Sound(m), Sound(t), NEW d \in Blk, NEW n \in Name, NEW p \in Proc,
         m.name[d] = n, t.name = m.name, t.owner[d] = p,
         \A b \in Blk \ {d} : t.owner[b] = m.owner[b]
  PROVE  Holder(t) = [Holder(m) EXCEPT ![n] = p]
<1>1. p # NoProc  BY NullAssumption
<1>2. Holder(t)[n] = p  BY <1>1, HolderIs
<1>3. ASSUME NEW k \in Name, k # n PROVE Holder(t)[k] = Holder(m)[k]
  <2>1. CASE Holder(m)[k] = NoProc /\ \A b \in Blk : m.name[b] = k => m.owner[b] = NoProc
    <3>1. \A b \in Blk : t.name[b] = k => t.owner[b] = NoProc  BY <1>1, <1>3, <2>1
    <3> QED  BY <2>1, <3>1, HolderFrom
  <2>2. CASE \E b \in Blk : m.name[b] = k /\ m.owner[b] # NoProc /\ Holder(m)[k] = m.owner[b]
    <3>1. PICK b \in Blk : m.name[b] = k /\ m.owner[b] # NoProc /\ Holder(m)[k] = m.owner[b]
      BY <2>2
    <3>2. t.owner[b] = m.owner[b] /\ t.name[b] = k  BY <1>1, <1>3, <3>1
    <3> QED  BY <3>1, <3>2, HolderIs
  <2> QED  BY <2>1, <2>2, HolderFrom
<1> QED  BY <1>2, <1>3, HolderType

LEMMA HolderGivenUp ==
  ASSUME NEW s, NEW t, Sound(s), Sound(t), NEW d \in Blk, s.owner[d] # NoProc,
         Weaker(t, s), Spares(t, s, Proc, {d}), t.owner[d] = NoProc
  PROVE  Holder(t) = [Holder(s) EXCEPT ![s.name[d]] = NoProc]
<1>0. s.owner \in [Blk -> ProcOrNone]  BY DEF Sound, Space
<1>1. PICK n \in Name : n = s.name[d] /\ d \in InUse(s)  BY HolderIs, OwnedInUse
<1>2. Holder(t)[n] = NoProc
  <2>1. SUFFICES ASSUME NEW b \in Blk, t.name[b] = n, t.owner[b] # NoProc PROVE FALSE
    BY HolderFrom
  <2>2. s.name[b] = n /\ s.owner[b] # NoProc  BY <2>1 DEF Weaker
  <2>3. b \in InUse(s)  BY <2>2, OwnedInUse
  <2>4. b = d  BY <1>1, <2>2, <2>3 DEF Sound, UniqueNames
  <2> QED  BY <2>1, <2>4
<1>3. ASSUME NEW k \in Name, k # n PROVE Holder(t)[k] = Holder(s)[k]
  <2>1. CASE Holder(s)[k] = NoProc /\ \A b \in Blk : s.name[b] = k => s.owner[b] = NoProc
    <3>1. \A b \in Blk : t.name[b] = k => t.owner[b] = NoProc  BY <2>1 DEF Weaker
    <3> QED  BY <2>1, <3>1, HolderFrom
  <2>2. CASE \E b \in Blk : s.name[b] = k /\ s.owner[b] # NoProc /\ Holder(s)[k] = s.owner[b]
    <3>1. PICK b \in Blk : s.name[b] = k /\ s.owner[b] # NoProc /\ Holder(s)[k] = s.owner[b]
      BY <2>2
    <3>2. b # d /\ s.owner[b] \in Proc  BY <1>0, <1>1, <1>3, <3>1 DEF ProcOrNone
    <3>3. t.owner[b] = s.owner[b] /\ t.name[b] = k  BY <3>1, <3>2 DEF Spares
    <3> QED  BY <3>1, <3>3, HolderIs
  <2> QED  BY <2>1, <2>2, HolderFrom
<1> QED  BY <1>1, <1>2, <1>3, HolderType

-----------------------------------------------------------------------------
(* The invariant *)

Ended == {"dead", "gtmassert"}

(* A process is alive until it ends, it collects only pids of dead processes, *)
(* and its exit handler runs only where processes exit.                      *)
LivesAt(p, l, m, live) ==
  /\ p \in live <=> l \notin Ended
  /\ l = "gcclean" => m.tab \cap live = {}
  /\ l \in Exiting => Faults \cap {"exit", "end"} # {}

(* The node mlk_nocrit_unlock is about to clear still belongs to p. *)
StoringAt(p, s, l, q, m) ==
  l = "nocrit" /\ "owner" \notin m.stored => s.owner[q[m.pos].nodptr] = p

TreeInv ==
  /\ Inv /\ Sound(shr) /\ nclear <= MaxClears
  /\ \A p \in Proc : LivesAt(p, pc[p], loc[p], alive)
  /\ nclear = 0 => \A p \in Proc : StoringAt(p, shr, pc[p], pvt[p], loc[p])

(* Only p moves. *)
Elsewhere(p) ==
  \A r \in Proc \ {p} : pc'[r] = pc[r] /\ pvt'[r] = pvt[r] /\ loc'[r] = loc[r]

LEMMA NocritNode ==
  ASSUME Inv, NEW p \in Proc, pc[p] = "nocrit"
  PROVE  /\ pvt[p][loc[p].pos] \in Pvtblk /\ pvt[p][loc[p].pos].nodptr \in Blk
         /\ loc[p].pos \in 1 .. Len(pvt[p])
<1>1. pvt[p] \in Seq(Pvtblk) /\ loc[p] \in Local /\ Listed(pc[p], pvt[p], lks[p], loc[p])
  BY ProcFacts
<1>2. loc[p].left > 0 /\ pc[p] \in Releasing /\ Cur(p).nodptr # NoBlk
  BY <1>1 DEF Listed, Releasing, Exiting, Cur
<1>3. loc[p].pos \in 1 .. Len(pvt[p])
  BY <1>1, <1>2 DEF Listed, Local
<1> QED  BY <1>2, <1>3, WalkFacts DEF Cur

(* The step of p leaves the owners of the other live processes alone. *)
OthersKeep(p) ==
  \A b \in Blk : shr.owner[b] \in alive \ {p} => shr'.owner[b] = shr.owner[b]

LEMMA TreeStep ==
  ASSUME TreeInv, Inv', NEW p \in Proc, Elsewhere(p), nclear' = nclear,
         alive' \subseteq alive, alive \ {p} \subseteq alive',
         LivesAt(p, pc'[p], loc'[p], alive'), Sound(shr'),
         nclear = 0 => OthersKeep(p) /\ StoringAt(p, shr', pc'[p], pvt'[p], loc'[p])
  PROVE  TreeInv'
<1>1. ASSUME NEW r \in Proc PROVE LivesAt(r, pc'[r], loc'[r], alive')
  <2>1. CASE r = p  BY <2>1
  <2>2. CASE r # p  BY <2>2 DEF Elsewhere, TreeInv, LivesAt
  <2> QED  BY <2>1, <2>2
<1>2. ASSUME nclear = 0, NEW r \in Proc PROVE StoringAt(r, shr', pc'[r], pvt'[r], loc'[r])
  <2>1. CASE r = p  BY <1>2, <2>1
  <2>2. CASE r # p
    <3> SUFFICES ASSUME pc[r] = "nocrit", "owner" \notin loc[r].stored
                 PROVE  shr'.owner[pvt[r][loc[r].pos].nodptr] = r
      BY <2>2 DEF Elsewhere, StoringAt
    <3>1. pvt[r][loc[r].pos].nodptr \in Blk  BY NocritNode DEF TreeInv
    <3>2. shr.owner[pvt[r][loc[r].pos].nodptr] = r  BY <1>2 DEF TreeInv, StoringAt
    <3>3. r \in alive  BY DEF TreeInv, LivesAt, Ended
    <3> QED  BY <1>2, <2>2, <3>1, <3>2, <3>3 DEF OthersKeep
  <2> QED  BY <2>1, <2>2
<1> QED  BY <1>1, <1>2 DEF TreeInv

(* What a step has to do with the promise of HierLock.tla. *)
Promised == HL!HNext \/ UNCHANGED <<Holder(shr), Busy, alive>>

(* A step inside a call: the process neither begins nor dies, and takes up    *)
(* neither the exit handler nor clean_pids.                                  *)
Ordinary(p) ==
  /\ Elsewhere(p) /\ nclear' = nclear /\ alive' = alive
  /\ pc[p] \notin Ended \cup {"idle"} /\ pc'[p] \notin Ended \cup {"gcclean"}
  /\ pc'[p] \in Exiting => pc[p] \in Exiting

LEMMA OrdinaryLives ==
  ASSUME TreeInv, NEW p \in Proc, Ordinary(p)
  PROVE  p \in alive /\ LivesAt(p, pc'[p], loc'[p], alive')
BY DEF TreeInv, LivesAt, Ordinary

LEMMA OrdinaryTree ==
  ASSUME TreeInv, Inv', NEW p \in Proc, Ordinary(p), Sound(shr'),
         nclear = 0 => OthersKeep(p) /\ StoringAt(p, shr', pc'[p], pvt'[p], loc'[p])
  PROVE  TreeInv'
<1>1. LivesAt(p, pc'[p], loc'[p], alive')  BY OrdinaryLives
<1> QED  BY <1>1, TreeStep DEF Ordinary

LEMMA BusyStep ==
  ASSUME TreeInv, NEW p \in Proc, Ordinary(p)
  PROVE  /\ p \in Busy /\ Busy' \in {Busy, Busy \ {p}}
         /\ pc'[p] # "idle" => Busy' = Busy
<1>1. alive \subseteq Proc /\ p \in alive  BY OrdinaryLives DEF TreeInv, Inv, TypeOK
<1>2. p \in Busy /\ pc[p] # "idle" /\ Elsewhere(p) /\ alive' = alive  BY <1>1 DEF Busy, Ordinary
<1>3. CASE pc'[p] = "idle"
  <2>1. Busy' = Busy \ {p}  BY <1>1, <1>2, <1>3 DEF Busy, Elsewhere
  <2> QED  BY <1>2, <1>3, <2>1
<1>4. CASE pc'[p] # "idle"
  <2>1. Busy' = Busy  BY <1>1, <1>2, <1>4 DEF Busy, Elsewhere
  <2> QED  BY <1>2, <2>1
<1> QED  BY <1>3, <1>4

(* A step that takes at most locks of dead processes away. *)
LEMMA WorkPromised ==
  ASSUME TreeInv, NEW p \in Proc, Ordinary(p),
         Sound(shr'), Weaker(shr', shr), Spares(shr', shr, alive, {})
  PROVE  Promised
<1>1. p \in Busy /\ Busy' \in {Busy, Busy \ {p}}  BY BusyStep
<1>2. PICK D \in SUBSET {n \in Name : Holder(shr)[n] \notin alive \cup {NoProc}} :
        Holder(shr') = [n \in Name |-> IF n \in D THEN NoProc ELSE Holder(shr)[n]]
  BY HolderReaped DEF TreeInv
<1>3. HL!Work(p)  BY <1>1, <1>2 DEF HL!Work, HL!DeadHeld, HL!Reaped, Ordinary
<1> QED  BY <1>3 DEF Promised, HL!HNext

LEMMA WorkKeeps ==
  ASSUME TreeInv, Inv', NEW p \in Proc, Ordinary(p), pc'[p] # "nocrit",
         Sound(shr'), Weaker(shr', shr), Spares(shr', shr, alive, {})
  PROVE  TreeInv' /\ Promised
<1>1. OthersKeep(p)  BY DEF OthersKeep, Spares
<1>2. TreeInv'  BY <1>1, OrdinaryTree DEF StoringAt
<1> QED  BY <1>2, WorkPromised

(* A step that leaves the lock space alone. *)
LEMMA QuietWork ==
  ASSUME TreeInv, Inv', NEW p \in Proc, Ordinary(p), pc'[p] # "nocrit", shr' = shr
  PROVE  TreeInv' /\ Promised
<1>1. Sound(shr') /\ Weaker(shr', shr) /\ Spares(shr', shr, alive, {})
  BY DEF TreeInv, Weaker, Spares
<1> QED  BY <1>1, WorkKeeps

(* A step that only changes sequence numbers or queues. *)
LEMMA SameHolderWork ==
  ASSUME TreeInv, Inv', NEW p \in Proc, Ordinary(p), Sound(shr'),
         shr'.name = shr.name, shr'.owner = shr.owner,
         nclear = 0 => StoringAt(p, shr', pc'[p], pvt'[p], loc'[p])
  PROVE  TreeInv' /\ Promised
<1>1. TreeInv'  BY OrdinaryTree DEF OthersKeep
<1>2. Holder(shr') = Holder(shr)  BY DEF Holder, OwnedNodes
<1>3. p \in Busy /\ Busy' \in {Busy, Busy \ {p}}  BY BusyStep
<1>4. {} \in SUBSET {n \in Name : Holder(shr)[n] \notin alive \cup {NoProc}}  OBVIOUS
<1>5. Holder(shr') = [n \in Name |-> IF n \in {} THEN NoProc ELSE Holder(shr)[n]]
  BY <1>2, HolderType DEF TreeInv
<1>6. HL!Work(p)  BY <1>3, <1>4, <1>5 DEF HL!Work, HL!DeadHeld, HL!Reaped, Ordinary
<1> QED  BY <1>1, <1>6 DEF Promised, HL!HNext

(* mlk_unlock takes a lock of p away, or nothing. *)
LEMMA UnlockWork ==
  ASSUME TreeInv, Inv', NEW p \in Proc, Ordinary(p), pc'[p] \notin {"idle", "nocrit"},
         NEW e, e.nodptr \in Blk \cup {NoBlk}, shr' = mlk_unlock(shr, e, p, alive)
  PROVE  TreeInv' /\ Promised
<1>1. /\ Sound(shr') /\ Weaker(shr', shr) /\ Spares(shr', shr, Proc, {e.nodptr})
      /\ Spares(shr', shr, Proc \ {p}, {})
      /\ OwnsNode(shr, e, p) => shr'.owner[e.nodptr] = NoProc
      /\ ~OwnsNode(shr, e, p) => shr' = shr
  BY UnlockFrame DEF TreeInv
<1>2. CASE ~OwnsNode(shr, e, p)  BY <1>1, <1>2, QuietWork
<1>3. CASE OwnsNode(shr, e, p)
  <2>1. alive \subseteq Proc  BY DEF TreeInv, Inv, TypeOK
  <2>2. TreeInv'
    <3>1. OthersKeep(p)  BY <1>1, <2>1 DEF OthersKeep, Spares
    <3> QED  BY <1>1, <3>1, OrdinaryTree DEF StoringAt
  <2>3. PICK d \in Blk : d = e.nodptr /\ shr.owner[d] = p  BY <1>3 DEF OwnsNode
  <2>4. p # NoProc /\ Sound(shr)  BY NullAssumption DEF TreeInv
  <2>5. /\ shr.name[d] \in Name /\ Holder(shr)[shr.name[d]] = p
        /\ Holder(shr') = [Holder(shr) EXCEPT ![shr.name[d]] = NoProc]
    <3>1. Spares(shr', shr, Proc, {d}) /\ shr'.owner[d] = NoProc  BY <1>1, <1>3, <2>3
    <3> QED  BY <1>1, <2>3, <2>4, <3>1, HolderIs, HolderGivenUp
  <2>6. p \in Busy /\ Busy' = Busy  BY BusyStep
  <2>7. HL!GiveUp(p, shr.name[d])  BY <2>5, <2>6 DEF HL!GiveUp, Ordinary
  <2> QED  BY <2>2, <2>5, <2>7 DEF Promised, HL!HNext
<1> QED  BY <1>2, <1>3

-----------------------------------------------------------------------------
(* The actions *)

LEMMA NamingPromised ==
  ASSUME TreeInv, Inv', NEW p \in Proc,
         OpLkname(p) \/ ArgError(p) \/ StartLock(p) \/ StartRelease(p)
  PROVE  TreeInv' /\ Promised
<1>0. pc \in [Proc -> PC] /\ pvt \in [Proc -> Seq(Pvtblk)] /\ loc \in [Proc -> Local]
  BY DEF TreeInv, Inv, TypeOK
<1>1. shr' = shr /\ pc[p] = "name" /\ nclear' = nclear /\ alive' = alive
  BY DEF OpLkname, ArgError, StartLock, StartRelease, procvars
<1>2. pc'[p] \in {"idle", "name", "lock", "decr", "zdealloc"}
  BY <1>0, <1>1 DEF OpLkname, ArgError, StartLock, StartRelease, Goto, Finish
<1>3. Elsewhere(p)
  BY <1>0 DEF OpLkname, ArgError, StartLock, StartRelease, Goto, Finish, Elsewhere
<1>4. Ordinary(p) /\ pc'[p] # "nocrit"  BY <1>1, <1>2, <1>3 DEF Ordinary, Ended, Exiting
<1> QED  BY <1>1, <1>4, QuietWork

LEMMA ObtainedOrdinary ==
  ASSUME TreeInv, NEW p \in Proc, NEW e, Obtained(p, e)
  PROVE  Elsewhere(p) /\ pc'[p] \in {"idle", "lock"}
<1>0. pc \in [Proc -> PC] /\ pvt \in [Proc -> Seq(Pvtblk)] /\ loc \in [Proc -> Local]
  BY DEF TreeInv, Inv, TypeOK
<1>1. \E x : pvt' = [pvt EXCEPT ![p] = x]  BY Zenon DEF Obtained, Update
<1>2. \/ pc' = [pc EXCEPT ![p] = "idle"] /\ loc' = [loc EXCEPT ![p] = NoLocal]
      \/ /\ pc' = [pc EXCEPT ![p] = "lock"]
         /\ loc' = [loc EXCEPT ![p].pos = loc[p].pos + 1]
  BY DEF Obtained, Finish, Goto
<1> QED  BY <1>0, <1>1, <1>2 DEF Elsewhere

LEMMA SkipLockedPromised ==
  ASSUME TreeInv, Inv', NEW p \in Proc, SkipLocked(p)
  PROVE  TreeInv' /\ Promised
<1>1. shr' = shr /\ pc[p] = "lock" /\ nclear' = nclear /\ alive' = alive /\ Obtained(p, Cur(p))
  BY DEF SkipLocked, procvars
<1>2. Elsewhere(p) /\ pc'[p] \in {"idle", "lock"}  BY <1>1, ObtainedOrdinary
<1>3. Ordinary(p) /\ pc'[p] # "nocrit"  BY <1>1, <1>2 DEF Ordinary, Ended, Exiting
<1> QED  BY <1>1, <1>3, QuietWork

LEMMA LockInOrdinary ==
  ASSUME TreeInv, NEW p \in Proc, NEW r, IF loc[p].new THEN FirstAttempt(p, r) ELSE Reattempt(p, r)
  PROVE  Elsewhere(p) /\ pc'[p] \in {"idle", "lock", "bckout", "wait", "relinquish", "checkown"}
<1>0. pc \in [Proc -> PC] /\ pvt \in [Proc -> Seq(Pvtblk)] /\ loc \in [Proc -> Local]
  BY DEF TreeInv, Inv, TypeOK
<1>1. CASE loc[p].new /\ r.got /\ Obtained(p, r.e)  BY <1>1, ObtainedOrdinary
<1>2. CASE ~(loc[p].new /\ r.got /\ Obtained(p, r.e))
  <2>1. pvt' = [pvt EXCEPT ![p][loc[p].pos] = r.e]
    BY <1>2 DEF FirstAttempt, Reattempt, Update
  <2>2. /\ \E x : loc' = [loc EXCEPT ![p] = x] \/ loc' = loc
        /\ \E l \in {"bckout", "wait", "lock", "relinquish", "checkown"} : pc' = [pc EXCEPT ![p] = l]
    BY <1>2 DEF FirstAttempt, Reattempt, Goto
  <2> QED  BY <1>0, <2>1, <2>2 DEF Elsewhere
<1> QED  BY <1>1, <1>2

LEMMA LockInPromised ==
  ASSUME TreeInv, Inv', NEW p \in Proc, pc[p] \in InLock, NEW s, Sound(s), Weaker(s, shr),
         Spares(s, shr, alive, {}), LockIn(p, s), UNCHANGED procvars
  PROVE  TreeInv' /\ Promised
<1>1. PICK r \in mlk_lock(s, Cur(p), p, loc[p].new, yield[p], alive) :
        shr' = r.space /\ IF loc[p].new THEN FirstAttempt(p, r) ELSE Reattempt(p, r)
  BY DEF LockIn
<1>2. Elsewhere(p) /\ pc'[p] \in {"idle", "lock", "bckout", "wait", "relinquish", "checkown"}
  BY <1>1, LockInOrdinary
<1>3. Ordinary(p) /\ pc'[p] # "nocrit"
  BY <1>2 DEF Ordinary, Ended, Exiting, InLock, procvars
<1>4. PICK e \in Pvtblk : e = Cur(p) /\ e.name \in Name  BY CurType DEF TreeInv, Pvtblk
<1>5. p \in alive /\ alive \subseteq Proc /\ alive \cup {p} = alive /\ yield[p] \in YieldPid
  BY <1>3, OrdinaryLives DEF TreeInv, Inv, TypeOK
<1>6. PICK m : /\ Sound(m) /\ Weaker(m, s) /\ Spares(m, s, alive, {}) /\ Sound(shr')
               /\ Refused(r, m, e, p) \/ FoundOwn(r, m, e, p) \/ Granted(r, m, e, p)
  <2>1. r \in mlk_lock(s, e, p, loc[p].new, yield[p], alive)  BY <1>4
  <2>2. /\ Sound(r.space)
        /\ \E m : /\ Sound(m) /\ Weaker(m, s) /\ Spares(m, s, alive \cup {p}, {})
                  /\ Refused(r, m, e, p) \/ FoundOwn(r, m, e, p) \/ Granted(r, m, e, p)
    BY <1>5, <2>1, LockFrame
  <2> QED  BY <1>1, <1>5, <2>2
<1>7. Weaker(m, shr) /\ Spares(m, shr, alive, {})
  BY <1>6, WeakerTrans, SparesTrans
<1>8. CASE Refused(r, m, e, p) \/ FoundOwn(r, m, e, p)
  <2>1. SameLocks(shr', m)  BY <1>1, <1>8 DEF Refused, FoundOwn, SameLocks
  <2>2. Weaker(shr', shr) /\ Spares(shr', shr, alive, {})
    BY <1>7, <2>1, SparesSame, WeakerTrans, SparesTrans
  <2> QED  BY <1>3, <1>6, <2>2, WorkKeeps
<1>9. CASE Granted(r, m, e, p)
  <2>1. PICK d : d = r.e.nodptr  OBVIOUS
  <2>2. /\ Clear(m, d, p, e.name) /\ m.owner[d] = NoProc
        /\ shr'.name = m.name /\ shr'.owner = [m.owner EXCEPT ![d] = p]
    BY <1>1, <1>9, <2>1 DEF Granted
  <2>3. d \in Blk /\ m.name[d] = e.name /\ m.owner \in [Blk -> ProcOrNone]
    BY <1>6, <2>2 DEF Clear, Sound, Space
  <2>4. shr'.owner[d] = p /\ \A b \in Blk \ {d} : shr'.owner[b] = m.owner[b]  BY <2>2, <2>3
  <2>5. OthersKeep(p)
    <3>1. NoProc \notin alive  BY <1>5, NullAssumption
    <3> QED  BY <1>7, <2>2, <2>4, <3>1 DEF OthersKeep, Spares
  <2>6. TreeInv'  BY <1>3, <1>6, <2>5, OrdinaryTree DEF StoringAt
  <2>7. PICK D \in SUBSET {n \in Name : Holder(shr)[n] \notin alive \cup {NoProc}} :
          Holder(m) = [n \in Name |-> IF n \in D THEN NoProc ELSE Holder(shr)[n]]
    BY <1>6, <1>7, HolderReaped DEF TreeInv
  <2>8. Holder(shr') = [Holder(m) EXCEPT ![e.name] = p]
    BY <1>4, <1>6, <2>2, <2>3, <2>4, HolderGranted
  <2>9. \A n \in Name : HL!SameBranch(n, e.name) => Holder(m)[n] \in {NoProc, p}
    <3> SUFFICES ASSUME NEW n \in Name, HL!SameBranch(n, e.name), Holder(m)[n] # NoProc
                 PROVE  Holder(m)[n] = p
      OBVIOUS
    <3>1. PICK b \in Blk : m.name[b] = n /\ m.owner[b] # NoProc /\ Holder(m)[n] = m.owner[b]
      BY HolderFrom
    <3>2. b \in InUse(m) /\ Related(m.name[b], e.name)
      BY <3>1 DEF InUse, Related, HL!SameBranch
    <3> QED  BY <2>2, <3>1, <3>2 DEF Clear
  <2>10. p \in Busy /\ Busy' \in {Busy, Busy \ {p}}  BY <1>3, BusyStep
  <2>11. HL!Acquire(p, e.name)
    BY <2>7, <2>8, <2>9, <2>10 DEF HL!Acquire, HL!DeadHeld, HL!Reaped, procvars
  <2> QED  BY <1>4, <2>6, <2>11 DEF Promised, HL!HNext
<1> QED  BY <1>6, <1>8, <1>9

LEMMA TryLockPromised ==
  ASSUME TreeInv, Inv', NEW p \in Proc, TryLock(p)
  PROVE  TreeInv' /\ Promised
<1>1. Sound(shr) /\ Weaker(shr, shr) /\ Spares(shr, shr, alive, {})
  BY DEF TreeInv, Weaker, Spares
<1>2. pc[p] \in InLock /\ LockIn(p, shr) /\ UNCHANGED procvars  BY DEF TryLock, InLock
<1> QED  BY <1>1, <1>2, LockInPromised

LEMMA GcFillPromised ==
  ASSUME TreeInv, Inv', NEW p \in Proc, GcFill(p)
  PROVE  TreeInv' /\ Promised
<1>0. pc \in [Proc -> PC] /\ pvt \in [Proc -> Seq(Pvtblk)] /\ loc \in [Proc -> Local]
  BY DEF TreeInv, Inv, TypeOK
<1>1. pc[p] = "gcfill" /\ pc[p] \in InLock /\ UNCHANGED procvars  BY DEF GcFill, InLock
<1>2. CASE LockIn(p, shr)
  <2>1. Sound(shr) /\ Weaker(shr, shr) /\ Spares(shr, shr, alive, {})
    BY DEF TreeInv, Weaker, Spares
  <2> QED  BY <1>1, <1>2, <2>1, LockInPromised
<1>3. CASE /\ \E T \in SUBSET fill_pid_table(shr) : loc' = [loc EXCEPT ![p].tab = T]
           /\ Goto(p, "gccheck")
           /\ UNCHANGED <<shr, latch, pvt, lks, yield>>
  <2>1. Elsewhere(p) /\ pc'[p] = "gccheck"  BY <1>0, <1>3 DEF Elsewhere, Goto
  <2>2. Ordinary(p)  BY <1>1, <2>1 DEF Ordinary, Ended, Exiting, procvars
  <2> QED  BY <1>3, <2>1, <2>2, QuietWork
<1> QED  BY <1>2, <1>3 DEF GcFill

LEMMA GcCleanPromised ==
  ASSUME TreeInv, Inv', NEW p \in Proc, GcClean(p)
  PROVE  TreeInv' /\ Promised
<1>1. PICK s : s = clean_pids(shr, loc[p].tab)  OBVIOUS
<1>2. pc[p] = "gcclean" /\ pc[p] \in InLock /\ UNCHANGED procvars /\ LockIn(p, s)
  BY <1>1 DEF GcClean, InLock
<1>3. alive \subseteq Proc /\ loc[p].tab \cap alive = {} /\ Sound(shr)
  BY <1>2 DEF TreeInv, LivesAt, Inv, TypeOK
<1>4. Sound(s) /\ Weaker(s, shr) /\ Spares(s, shr, alive, {})  BY <1>1, <1>3, CleanFrame
<1> QED  BY <1>2, <1>4, LockInPromised

LEMMA BckoutPromised ==
  ASSUME TreeInv, Inv', NEW p \in Proc, mlk_bckout(p)
  PROVE  TreeInv' /\ Promised
<1>0. /\ pc \in [Proc -> PC] /\ pvt \in [Proc -> Seq(Pvtblk)] /\ loc \in [Proc -> Local]
      /\ pc[p] = "bckout" /\ nclear' = nclear /\ alive' = alive
  BY DEF TreeInv, Inv, TypeOK, mlk_bckout, procvars
<1>1. PICK i : i = loc[p].pos - loc[p].left  OBVIOUS
<1>2. pvt[p][i].nodptr \in Blk \cup {NoBlk}
  <2>1. /\ pvt[p] \in Seq(Pvtblk) /\ loc[p] \in Local /\ lks[p] \in Nat
        /\ Listed("bckout", pvt[p], lks[p], loc[p])
    BY <1>0, ProcFacts DEF TreeInv
  <2>2. i \in 1 .. Len(pvt[p])  BY <1>1, <2>1 DEF Listed, InLock, Local
  <2>3. pvt[p][i] \in Pvtblk  BY <2>1, <2>2
  <2> QED  BY <2>3 DEF Pvtblk, Blk, NoBlk
<1>3. \/ shr' = mlk_unlock(shr, pvt[p][i], p, alive)
      \/ shr' = shr
  BY <1>1 DEF mlk_bckout
<1>4. \E x : pvt' = [pvt EXCEPT ![p] = x]  BY Zenon DEF mlk_bckout, Update
<1>5. \E l \in {"wait", "bckout"} : pc' = [pc EXCEPT ![p] = l]  BY DEF mlk_bckout, Goto
<1>6. loc' = [loc EXCEPT ![p].left = @ - 1]  BY DEF mlk_bckout
<1>7. Elsewhere(p) /\ pc'[p] \in {"wait", "bckout"}  BY <1>0, <1>4, <1>5, <1>6 DEF Elsewhere
<1>8. Ordinary(p) /\ pc'[p] \notin {"idle", "nocrit"}
  BY <1>0, <1>7 DEF Ordinary, Ended, Exiting
<1> QED  BY <1>2, <1>3, <1>8, QuietWork, UnlockWork

LEMMA WaitPromised ==
  ASSUME TreeInv, Inv', NEW p \in Proc,
         TimerPop(p) \/ Interrupt(p) \/ OutOfTime(p) \/ CheckOwn(p) \/ Poll(p)
  PROVE  TreeInv' /\ Promised
<1>0. pc \in [Proc -> PC] /\ pvt \in [Proc -> Seq(Pvtblk)] /\ loc \in [Proc -> Local]
  BY DEF TreeInv, Inv, TypeOK
<1>1. /\ pc[p] \in {"wait", "poll", "checkown"} /\ nclear' = nclear /\ alive' = alive /\ pvt' = pvt
      /\ shr' = shr \/ shr' = mlk_check_own(shr, Cur(p), alive)
  BY DEF TimerPop, Interrupt, OutOfTime, CheckOwn, Poll, procvars
<1>2. pc'[p] \in {"wait", "poll", "unpend", "lock"} /\ \A r \in Proc \ {p} : pc'[r] = pc[r]
  BY <1>0, <1>1 DEF TimerPop, Interrupt, OutOfTime, CheckOwn, Poll, Goto
<1>3. \A r \in Proc \ {p} : loc'[r] = loc[r]
  BY <1>0 DEF TimerPop, Interrupt, OutOfTime, CheckOwn, Poll
<1>4. Ordinary(p) /\ pc'[p] # "nocrit"
  BY <1>1, <1>2, <1>3 DEF Ordinary, Elsewhere, Ended, Exiting
<1>5. CASE shr' = shr  BY <1>4, <1>5, QuietWork
<1>6. CASE shr' = mlk_check_own(shr, Cur(p), alive)
  <2>1. Sound(shr') /\ Weaker(shr', shr) /\ Spares(shr', shr, alive, {})
    BY <1>6, CheckOwnFrame DEF TreeInv
  <2> QED  BY <1>4, <2>1, WorkKeeps
<1> QED  BY <1>1, <1>5, <1>6

LEMMA RelinquishPromised ==
  ASSUME TreeInv, Inv', NEW p \in Proc, Relinquish(p)
  PROVE  TreeInv' /\ Promised
<1>0. /\ pc \in [Proc -> PC] /\ pvt \in [Proc -> Seq(Pvtblk)] /\ loc \in [Proc -> Local]
      /\ pc[p] = "relinquish" /\ pc[p] \in InLock
  BY DEF TreeInv, Inv, TypeOK, Relinquish, InLock
<1>1. Elsewhere(p) /\ pc'[p] = "lock"  BY <1>0 DEF Relinquish, Goto, Elsewhere
<1>2. Ordinary(p)  BY <1>0, <1>1 DEF Relinquish, Ordinary, Ended, Exiting, procvars
<1>3. Cur(p).nodptr \in Blk \cup {NoBlk}  BY <1>0, CurType DEF TreeInv
<1>4. shr' = mlk_unlock(shr, Cur(p), p, alive)  BY DEF Relinquish
<1> QED  BY <1>1, <1>2, <1>3, <1>4, UnlockWork

LEMMA UnpendPromised ==
  ASSUME TreeInv, Inv', NEW p \in Proc, Unpend(p)
  PROVE  TreeInv' /\ Promised
<1>0. /\ pc \in [Proc -> PC] /\ pvt \in [Proc -> Seq(Pvtblk)] /\ loc \in [Proc -> Local]
      /\ pc[p] = "unpend" /\ pc[p] \in InLock /\ shr \in Space /\ Sound(shr)
  BY DEF TreeInv, Inv, TypeOK, Unpend, InLock
<1>1. Elsewhere(p) /\ pc'[p] \in {"idle", "prune"}  BY <1>0 DEF Unpend, Finish, Goto, Elsewhere
<1>2. Ordinary(p) /\ pc'[p] # "nocrit"
  BY <1>0, <1>1 DEF Unpend, Ordinary, Ended, Exiting, procvars
<1>3. PICK d \in Blk \cup {NoBlk} : d = Cur(p).nodptr  BY <1>0, CurType DEF TreeInv
<1>4. CASE d = NoBlk
  <2>1. shr' = shr  BY <1>3, <1>4 DEF Unpend
  <2> QED  BY <1>2, <2>1, QuietWork
<1>5. CASE d # NoBlk
  <2>1. d \in Blk /\ shr' = mlk_prcblk_delete(shr, d, p)  BY <1>3, <1>5 DEF Unpend, mlk_unpend
  <2>2. Sound(shr') /\ shr'.name = shr.name /\ shr'.owner = shr.owner
    BY <1>0, <2>1, PrcblkFrame, PrcblkDeleteType
  <2> QED  BY <1>2, <2>2, SameHolderWork DEF StoringAt
<1> QED  BY <1>4, <1>5

LEMMA LatchPromised ==
  ASSUME TreeInv, Inv', NEW p \in Proc, NeedGc(p) \/ GetGcLatch(p) \/ SalvageGcLatch(p)
  PROVE  TreeInv' /\ Promised
<1>0. pc \in [Proc -> PC]  BY DEF TreeInv, Inv, TypeOK
<1>1. /\ shr' = shr /\ pc[p] \in {"lock", "gcwait"} /\ nclear' = nclear /\ alive' = alive
      /\ UNCHANGED <<pvt, loc>>
  BY DEF NeedGc, GetGcLatch, SalvageGcLatch, procvars
<1>2. pc'[p] \in {"gcwait", "gcfill"} /\ \A r \in Proc \ {p} : pc'[r] = pc[r]
  BY <1>0, <1>1 DEF NeedGc, GetGcLatch, SalvageGcLatch, Goto
<1>3. Ordinary(p) /\ pc'[p] # "nocrit"
  BY <1>1, <1>2 DEF Ordinary, Elsewhere, Ended, Exiting
<1> QED  BY <1>1, <1>3, QuietWork

(* check_pids leaves only dead processes in the table, and a process that is  *)
(* dead stays dead.                                                          *)
LEMMA GcCheckPromised ==
  ASSUME TreeInv, Inv', NEW p \in Proc, check_pids(p)
  PROVE  TreeInv' /\ Promised
<1>0. pc \in [Proc -> PC] /\ pvt \in [Proc -> Seq(Pvtblk)] /\ loc \in [Proc -> Local]
  BY DEF TreeInv, Inv, TypeOK
<1>1. /\ pc[p] = "gccheck" /\ UNCHANGED <<shr, pvt, alive, nclear>> /\ pc' = [pc EXCEPT ![p] = "gcclean"]
      /\ loc' = [loc EXCEPT ![p].tab = @ \ alive]
  BY DEF check_pids, procvars, Goto
<1>2. Elsewhere(p) /\ pc'[p] = "gcclean" /\ loc'[p].tab \cap alive = {}
  <2>1. loc'[p].tab = loc[p].tab \ alive  BY <1>0, <1>1 DEF Local
  <2> QED  BY <1>0, <1>1, <2>1 DEF Elsewhere
<1>3. p \in alive  BY <1>1 DEF TreeInv, LivesAt, Ended
<1>4. LivesAt(p, pc'[p], loc'[p], alive')  BY <1>1, <1>2, <1>3 DEF LivesAt, Ended, Exiting
<1>5. TreeInv'  BY <1>1, <1>2, <1>4, TreeStep DEF TreeInv, OthersKeep, StoringAt
<1>6. Busy' = Busy  BY <1>0, <1>1 DEF Busy
<1>7. UNCHANGED <<Holder(shr), Busy, alive>>  BY <1>1, <1>6
<1> QED  BY <1>5, <1>7 DEF Promised

LEMMA ReleasePromised ==
  ASSUME TreeInv, Inv', NEW p \in Proc,
         PruneStep(p) \/ UnlockStep(p) \/ op_decrlock(p) \/ op_zdealloc2(p)
  PROVE  TreeInv' /\ Promised
<1>0. pc \in [Proc -> PC] /\ pvt \in [Proc -> Seq(Pvtblk)] /\ loc \in [Proc -> Local]
  BY DEF TreeInv, Inv, TypeOK
<1>1. /\ pc[p] \in {"prune", "unlock", "decr", "zdealloc", "exitzd"} /\ loc[p].left > 0
      /\ pc' = pc /\ nclear' = nclear /\ alive' = alive
  BY DEF PruneStep, UnlockStep, op_decrlock, op_zdealloc2, procvars
<1>2. shr' = shr \/ shr' = mlk_unlock(shr, Cur(p), p, alive)
  BY DEF PruneStep, UnlockStep, op_decrlock, op_zdealloc2
<1>3. DropCur(p) \/ \E x : KeepCur(p, x)
  BY Zenon DEF PruneStep, UnlockStep, op_decrlock, op_zdealloc2
<1>4. Elsewhere(p)  BY <1>0, <1>1, <1>3 DEF DropCur, KeepCur, Update, Elsewhere
<1>5. Ordinary(p) /\ pc'[p] \notin {"idle", "nocrit"}
  BY <1>1, <1>4 DEF Ordinary, Ended, Exiting
<1>6. Cur(p).nodptr \in Blk \cup {NoBlk}
  BY <1>1, WalkFacts DEF TreeInv, Releasing, Exiting
<1> QED  BY <1>2, <1>5, <1>6, QuietWork, UnlockWork

LEMMA EndReleasePromised ==
  ASSUME TreeInv, Inv', NEW p \in Proc, EndRelease(p)
  PROVE  TreeInv' /\ Promised
<1>0. pc \in [Proc -> PC] /\ pvt \in [Proc -> Seq(Pvtblk)] /\ loc \in [Proc -> Local]
  BY DEF TreeInv, Inv, TypeOK
<1>1. /\ pc[p] \in {"prune", "unlock", "decr", "zdealloc"} /\ shr' = shr
      /\ pvt' = pvt /\ nclear' = nclear /\ alive' = alive
  BY DEF EndRelease, procvars
<1>2. pc'[p] \in {"name", "idle"} /\ Elsewhere(p)
  BY <1>0, <1>1 DEF EndRelease, Finish, Goto, Elsewhere
<1>3. Ordinary(p) /\ pc'[p] # "nocrit"  BY <1>1, <1>2 DEF Ordinary, Ended, Exiting
<1> QED  BY <1>1, <1>3, QuietWork

(* Entering the exit handler, from between two commands or inside one. *)
LEMMA ExitPromised ==
  ASSUME TreeInv, Inv', NEW p \in Proc, Exit(p)
  PROVE  TreeInv' /\ Promised
<1>0. pc \in [Proc -> PC] /\ loc \in [Proc -> Local] /\ alive \subseteq Proc
  BY DEF TreeInv, Inv, TypeOK
<1>1. /\ p \in alive /\ UNCHANGED <<shr, pvt, alive, nclear>> /\ pc' = [pc EXCEPT ![p] = "exit"]
      /\ Faults \cap {"exit", "end"} # {}
  BY DEF Exit, Goto, procvars
<1>2. Elsewhere(p) /\ pc'[p] = "exit"  BY <1>0, <1>1 DEF Exit, Elsewhere
<1>3. LivesAt(p, pc'[p], loc'[p], alive')  BY <1>1, <1>2 DEF LivesAt, Ended
<1>4. TreeInv'  BY <1>1, <1>2, <1>3, TreeStep DEF TreeInv, OthersKeep, StoringAt
<1>5. CASE pc[p] = "idle"
  <2>1. Busy' = Busy \cup {p} /\ p \notin Busy  BY <1>0, <1>1, <1>5 DEF Busy
  <2>2. HL!Call(p)  BY <1>1, <2>1 DEF HL!Call
  <2> QED  BY <1>4, <2>2 DEF Promised, HL!HNext
<1>6. CASE pc[p] # "idle"
  <2>1. Busy' = Busy  BY <1>0, <1>1, <1>6 DEF Busy
  <2>2. UNCHANGED <<Holder(shr), Busy, alive>>  BY <1>1, <2>1
  <2> QED  BY <1>4, <2>2 DEF Promised
<1> QED  BY <1>5, <1>6

LEMMA ExitStepPromised ==
  ASSUME TreeInv, Inv', NEW p \in Proc, ExitStep(p) \/ ExitZdeallocate(p)
  PROVE  TreeInv' /\ Promised
<1>0. pc \in [Proc -> PC] /\ pvt \in [Proc -> Seq(Pvtblk)] /\ loc \in [Proc -> Local]
  BY DEF TreeInv, Inv, TypeOK
<1>1. pc[p] = "exit" /\ UNCHANGED <<shr, alive, nclear>>
  BY DEF ExitStep, ExitZdeallocate, procvars
<1>2. \/ pc' = pc /\ (DropCur(p) \/ \E x : KeepCur(p, x))
      \/ /\ pc' = [pc EXCEPT ![p] = "exitzd"] /\ pvt' = pvt
         /\ \E x : loc' = [loc EXCEPT ![p] = x]
      \/ /\ pc' = [pc EXCEPT ![p] = "nocrit"] /\ pvt' = pvt /\ OwnsNode(shr, Cur(p), p)
         /\ loc' = [loc EXCEPT ![p].tmp = shr.lock_sequence, ![p].stored = {}]
  BY Zenon DEF ExitStep, ExitZdeallocate, Goto
<1>3. Elsewhere(p) /\ pc'[p] \in Exiting
  BY <1>0, <1>1, <1>2 DEF Elsewhere, DropCur, KeepCur, Update, Exiting
<1>4. Ordinary(p)  BY <1>1, <1>3 DEF Ordinary, Ended, Exiting
<1>5. StoringAt(p, shr', pc'[p], pvt'[p], loc'[p])
  <2>1. CASE pc'[p] # "nocrit"  BY <2>1 DEF StoringAt
  <2>2. CASE pc'[p] = "nocrit"
    <3>1. /\ pvt' = pvt /\ OwnsNode(shr, Cur(p), p)
          /\ loc' = [loc EXCEPT ![p].tmp = shr.lock_sequence, ![p].stored = {}]
      BY <1>0, <1>1, <1>2, <2>2
    <3>2. loc'[p].pos = loc[p].pos  BY <1>0, <3>1 DEF Local
    <3> QED  BY <1>1, <3>1, <3>2 DEF StoringAt, OwnsNode, Cur
  <2> QED  BY <2>1, <2>2
<1> QED  BY <1>1, <1>4, <1>5, SameHolderWork DEF TreeInv

(* The stores of mlk_nocrit_unlock. *)
LEMMA StoredOrdinary ==
  ASSUME TreeInv, NEW p \in Proc, pc[p] = "nocrit",
         NEW what \in {"counter", "sequence", "owner"}, Stored(p, what), UNCHANGED procvars
  PROVE  /\ Ordinary(p) /\ pc'[p] \in {"exit", "nocrit"}
         /\ pc'[p] = "nocrit" => /\ pvt'[p] = pvt[p] /\ loc'[p].pos = loc[p].pos
                                 /\ loc'[p].stored = loc[p].stored \cup {what}
<1>0. pc \in [Proc -> PC] /\ pvt \in [Proc -> Seq(Pvtblk)] /\ loc \in [Proc -> Local]
  BY DEF TreeInv, Inv, TypeOK
<1>1. \/ pc' = [pc EXCEPT ![p] = "exit"] /\ DropCur(p)
      \/ loc' = [loc EXCEPT ![p].stored = @ \cup {what}] /\ pvt' = pvt /\ pc' = pc
  BY DEF Stored, Goto
<1>2. CASE pc' = [pc EXCEPT ![p] = "exit"] /\ DropCur(p)
  <2>1. Elsewhere(p) /\ pc'[p] = "exit"  BY <1>0, <1>2 DEF DropCur, Elsewhere
  <2> QED  BY <2>1 DEF Ordinary, Ended, Exiting, procvars
<1>3. CASE loc' = [loc EXCEPT ![p].stored = @ \cup {what}] /\ pvt' = pvt /\ pc' = pc
  <2>1. Elsewhere(p)  BY <1>0, <1>3 DEF Elsewhere
  <2>2. loc'[p].pos = loc[p].pos /\ loc'[p].stored = loc[p].stored \cup {what}
    BY <1>0, <1>3 DEF Local
  <2> QED  BY <1>3, <2>1, <2>2 DEF Ordinary, Ended, Exiting, procvars
<1> QED  BY <1>1, <1>2, <1>3

LEMMA StoreNumberPromised ==
  ASSUME TreeInv, Inv', NEW p \in Proc, StoreCounter(p) \/ StoreSequence(p)
  PROVE  TreeInv' /\ Promised
<1>1. PICK what \in {"counter", "sequence"} : Stored(p, what)
  BY DEF StoreCounter, StoreSequence
<1>2. pc[p] = "nocrit" /\ UNCHANGED procvars /\ shr \in Space /\ Sound(shr) /\ shr' \in Space
  BY DEF StoreCounter, StoreSequence, TreeInv, Inv, TypeOK
<1>3. shr'.name = shr.name /\ shr'.owner = shr.owner /\ shr'.pending = shr.pending
  BY <1>2 DEF StoreCounter, StoreSequence, Space
<1>4. Sound(shr')  BY <1>2, <1>3, SoundKeeps DEF Sound, FreeVacant, Vacant
<1>5. /\ Ordinary(p) /\ pc'[p] \in {"exit", "nocrit"}
      /\ pc'[p] = "nocrit" => /\ pvt'[p] = pvt[p] /\ loc'[p].pos = loc[p].pos
                              /\ loc'[p].stored = loc[p].stored \cup {what}
  BY <1>1, <1>2, StoredOrdinary
<1>6. nclear = 0 => StoringAt(p, shr', pc'[p], pvt'[p], loc'[p])
  BY <1>2, <1>3, <1>5 DEF TreeInv, StoringAt
<1> QED  BY <1>3, <1>4, <1>5, <1>6, SameHolderWork

(* The store to d->owner takes a lock of p away; after an LKE CLEAR it may be *)
(* the lock of the process that got the node since.                          *)
LEMMA StoreOwnerPromised ==
  ASSUME TreeInv, Inv', NEW p \in Proc, StoreOwner(p)
  PROVE  TreeInv' /\ Promised
<1>1. /\ pc[p] = "nocrit" /\ "owner" \notin loc[p].stored /\ Stored(p, "owner")
      /\ UNCHANGED procvars /\ Sound(shr) /\ shr \in Space /\ nclear \in Nat /\ MaxClears \in Nat
      /\ nclear <= MaxClears /\ alive \subseteq Proc
  BY CommandAssumption DEF StoreOwner, TreeInv, Inv, TypeOK
<1>2. PICK d \in Blk : d = pvt[p][loc[p].pos].nodptr  BY <1>1, NocritNode DEF TreeInv
<1>3. shr' = ClearOwner(shr, {d})  BY <1>2 DEF StoreOwner, Cur
<1>4. /\ Sound(shr') /\ Spares(shr', shr, Proc, {d})
      /\ shr'.name = shr.name
      /\ \A b \in Blk : shr'.owner[b] = IF b = d THEN NoProc ELSE shr.owner[b]
  BY <1>1, <1>3, ClearOwnerFrame, ClearOwnerType
<1>5. Weaker(shr', shr) /\ shr'.owner[d] = NoProc  BY <1>4 DEF Weaker
<1>6. /\ Ordinary(p) /\ pc'[p] \in {"exit", "nocrit"}
      /\ pc'[p] = "nocrit" => loc'[p].stored = loc[p].stored \cup {"owner"}
  BY <1>1, StoredOrdinary
<1>7. nclear = 0 => shr.owner[d] = p  BY <1>1, <1>2 DEF TreeInv, StoringAt
<1>8. TreeInv'
  <2>1. nclear = 0 => OthersKeep(p)  BY <1>4, <1>7 DEF OthersKeep
  <2>2. StoringAt(p, shr', pc'[p], pvt'[p], loc'[p])  BY <1>6 DEF StoringAt
  <2> QED  BY <1>4, <1>6, <2>1, <2>2, OrdinaryTree
<1>9. p \in Busy /\ Busy' = Busy /\ alive' = alive  BY <1>6, BusyStep DEF Ordinary
<1>10. CASE shr.owner[d] = NoProc
  <2>1. Spares(shr', shr, alive, {})  BY <1>1, <1>4, <1>10, NullAssumption DEF Spares
  <2> QED  BY <1>4, <1>5, <1>6, <1>8, <2>1, WorkPromised
<1>11. CASE shr.owner[d] # NoProc
  <2>1. /\ shr.name[d] \in Name /\ Holder(shr)[shr.name[d]] = shr.owner[d]
        /\ Holder(shr') = [Holder(shr) EXCEPT ![shr.name[d]] = NoProc]
    BY <1>1, <1>4, <1>5, <1>11, HolderIs, HolderGivenUp
  <2>2. CASE nclear = 0
    <3>1. HL!GiveUp(p, shr.name[d])  BY <1>7, <1>9, <2>1, <2>2 DEF HL!GiveUp
    <3> QED  BY <1>8, <2>1, <3>1 DEF Promised, HL!HNext
  <2>3. CASE nclear # 0
    <3>1. HL!OperatorClear(shr.name[d])  BY <1>1, <1>9, <1>11, <2>1, <2>3 DEF HL!OperatorClear
    <3> QED  BY <1>8, <2>1, <3>1 DEF Promised, HL!HNext
  <2> QED  BY <2>2, <2>3
<1> QED  BY <1>10, <1>11

LEMMA DeathPromised ==
  ASSUME TreeInv, Inv', NEW p \in Proc, BckoutZallocate(p) \/ ExitDone(p) \/ Kill(p)
  PROVE  TreeInv' /\ Promised
<1>0. pc \in [Proc -> PC] /\ pvt \in [Proc -> Seq(Pvtblk)] /\ loc \in [Proc -> Local] /\ alive \subseteq Proc
  BY DEF TreeInv, Inv, TypeOK
<1>1. /\ alive' = alive \ {p} /\ UNCHANGED <<shr, nclear>>
      /\ \E l \in Ended : pc' = [pc EXCEPT ![p] = l]
  BY DEF BckoutZallocate, ExitDone, Kill, Vanish, Goto, Ended
<1>2. p \in alive
  <2>1. CASE pc[p] \in {"bckout", "exitzd"}  BY <2>1 DEF TreeInv, LivesAt, Ended
  <2> QED  BY <2>1 DEF BckoutZallocate, ExitDone, Kill
<1>3. Elsewhere(p) /\ pc'[p] \in Ended
  BY <1>0, <1>1 DEF BckoutZallocate, ExitDone, Kill, Vanish, Elsewhere
<1>4. LivesAt(p, pc'[p], loc'[p], alive')  BY <1>1, <1>3 DEF LivesAt, Ended, Exiting
<1>5. StoringAt(p, shr', pc'[p], pvt'[p], loc'[p])  BY <1>3 DEF StoringAt, Ended
<1>6. TreeInv'
  BY <1>1, <1>3, <1>4, <1>5, TreeStep DEF TreeInv, OthersKeep
<1>7. Busy' = Busy \ {p}  BY <1>0, <1>1, <1>3 DEF Busy, Elsewhere
<1>8. HL!Die(p)  BY <1>1, <1>2, <1>7 DEF HL!Die
<1> QED  BY <1>6, <1>8 DEF Promised, HL!HNext

LEMMA BeginPromised ==
  ASSUME TreeInv, Inv', NEW p \in Proc, NEW c \in Commands[p], Begin(p, c)
  PROVE  TreeInv' /\ Promised
<1>0. pc \in [Proc -> PC] /\ loc \in [Proc -> Local] /\ alive \subseteq Proc
  BY DEF TreeInv, Inv, TypeOK
<1>1. p \in alive /\ pc[p] = "idle" /\ UNCHANGED <<shr, pvt, alive, nclear>>  BY DEF Begin
<1>2. \/ pc' = [pc EXCEPT ![p] = "unlock"] /\ \E x : loc' = [loc EXCEPT ![p] = x]
      \/ pc' = pc /\ loc' = loc
      \/ pc' = [pc EXCEPT ![p] = "name"] /\ \E x : loc' = [loc EXCEPT ![p] = x]
  BY Zenon DEF Begin, Goto
<1>3. Elsewhere(p) /\ pc'[p] \in {"idle", "unlock", "name"}
  BY <1>0, <1>1, <1>2 DEF Elsewhere
<1>4. LivesAt(p, pc'[p], loc'[p], alive')  BY <1>1, <1>3 DEF LivesAt, Ended, Exiting
<1>5. StoringAt(p, shr', pc'[p], pvt'[p], loc'[p])  BY <1>3 DEF StoringAt
<1>6. TreeInv'  BY <1>1, <1>3, <1>4, <1>5, TreeStep DEF TreeInv, OthersKeep
<1>7. CASE pc'[p] = "idle"
  <2>1. Busy' = Busy  BY <1>0, <1>1, <1>3, <1>7 DEF Busy, Elsewhere
  <2>2. UNCHANGED <<Holder(shr), Busy, alive>>  BY <1>1, <2>1
  <2> QED  BY <1>6, <2>2 DEF Promised
<1>8. CASE pc'[p] # "idle"
  <2>1. Busy' = Busy \cup {p} /\ p \notin Busy  BY <1>0, <1>1, <1>3, <1>8 DEF Busy, Elsewhere
  <2>2. HL!Call(p)  BY <1>1, <2>1 DEF HL!Call
  <2> QED  BY <1>6, <2>2 DEF Promised, HL!HNext
<1> QED  BY <1>7, <1>8

LEMMA LkeClearPromised ==
  ASSUME TreeInv, Inv', NEW b \in Blk, LkeClear(b)
  PROVE  TreeInv' /\ Promised
<1>1. /\ b \in InUse(shr) /\ shr.owner[b] # NoProc /\ shr' \in lke_cleartree(shr, b, alive)
      /\ nclear < MaxClears /\ nclear' = nclear + 1 /\ UNCHANGED <<alive, pc, pvt, loc>>
      /\ nclear \in Nat /\ MaxClears \in Nat /\ Sound(shr) /\ shr \in Space
  BY CommandAssumption DEF LkeClear, TreeInv, Inv, TypeOK
<1>2. Sound(shr') /\ Spares(shr', shr, Proc, {b}) /\ shr'.owner[b] = NoProc /\ Weaker(shr', shr)
  BY <1>1, LkeCleartreeFrame, LkeCleartreeType
<1>3. TreeInv'
  <2>1. nclear' <= MaxClears /\ nclear' # 0  BY <1>1
  <2>2. \A p \in Proc : LivesAt(p, pc'[p], loc'[p], alive')  BY <1>1 DEF TreeInv
  <2> QED  BY <1>2, <2>1, <2>2 DEF TreeInv
<1>4. /\ shr.name[b] \in Name /\ Holder(shr)[shr.name[b]] = shr.owner[b]
      /\ Holder(shr') = [Holder(shr) EXCEPT ![shr.name[b]] = NoProc]
  BY <1>1, <1>2, HolderIs, HolderGivenUp
<1>5. Busy' = Busy  BY <1>1 DEF Busy
<1>6. MaxClears > 0  BY <1>1
<1>7. HL!OperatorClear(shr.name[b])  BY <1>1, <1>4, <1>5, <1>6 DEF HL!OperatorClear
<1> QED  BY <1>3, <1>4, <1>7 DEF Promised, HL!HNext

-----------------------------------------------------------------------------
(* The theorems *)

LEMMA InitSound == Sound(mlk_shr_init) /\ Holder(mlk_shr_init) = [n \in Name |-> NoProc]
<1>1. /\ [b \in Blk |-> NoName] \in [Blk -> NameOrNone]
      /\ [b \in Blk |-> NoProc] \in [Blk -> ProcOrNone]
      /\ [b \in Blk |-> 0] \in [Blk -> Seqno]
      /\ [b \in Blk |-> <<>>] \in [Blk -> Seq(Prcblk)]
      /\ max_prccnt \in Int /\ 0 \in Seqno
  BY SpaceAssumption DEF NameOrNone, ProcOrNone, Seqno
<1>2. PICK s : s = mlk_shr_init  OBVIOUS
<1>3. /\ s \in Space
      /\ \A b \in Blk : s.name[b] = NoName /\ s.owner[b] = NoProc /\ s.pending[b] = <<>>
  BY <1>1, <1>2 DEF mlk_shr_init, Space
<1>4. InUse(s) = {}  BY <1>3, NullAssumption DEF InUse
<1>5. Sound(s)
  BY <1>3, <1>4 DEF Sound, UniqueNames, PathsClosed, FreeVacant, Free, Vacant
<1>6. \A n \in Name : OwnedNodes(s, n) = {}  BY <1>3 DEF OwnedNodes
<1>7. Holder(s) = [n \in Name |-> NoProc]  BY <1>6 DEF Holder
<1> QED  BY <1>2, <1>5, <1>7

LEMMA InitTree == Init => TreeInv /\ HL!HInit
<1> SUFFICES ASSUME Init PROVE TreeInv /\ HL!HInit
  OBVIOUS
<1>1. Inv  BY InitInv
<1>2. Sound(shr) /\ Holder(shr) = [n \in Name |-> NoProc]  BY InitSound DEF Init
<1>3. nclear <= MaxClears  BY CommandAssumption DEF Init
<1>4. \A p \in Proc : LivesAt(p, pc[p], loc[p], alive)  BY DEF Init, LivesAt, Ended, Exiting
<1>5. \A p \in Proc : StoringAt(p, shr, pc[p], pvt[p], loc[p])  BY DEF Init, StoringAt
<1>6. Busy = {} /\ alive = Proc  BY DEF Init, Busy
<1> QED  BY <1>1, <1>2, <1>3, <1>4, <1>5, <1>6 DEF TreeInv, HL!HInit

LEMMA StepPromised == TreeInv /\ RepeatsFit /\ [Next]_vars => TreeInv' /\ Promised
<1> SUFFICES ASSUME TreeInv, RepeatsFit, [Next]_vars PROVE TreeInv' /\ Promised
  OBVIOUS
<1>0. Inv'  BY NextInv DEF TreeInv
<1>1. CASE UNCHANGED vars
  <2>1. TreeInv'  BY <1>0, <1>1 DEF vars, TreeInv
  <2>2. UNCHANGED <<Holder(shr), Busy, alive>>  BY <1>1 DEF vars, Busy
  <2> QED  BY <2>1, <2>2 DEF Promised
<1>2. ASSUME NEW p \in Proc, NEW c \in Commands[p], Begin(p, c) PROVE TreeInv' /\ Promised
  BY <1>0, <1>2, BeginPromised
<1>3. ASSUME NEW p \in Proc, Run(p) PROVE TreeInv' /\ Promised
  <2>1. CASE OpLkname(p) \/ StartLock(p) \/ StartRelease(p)
    BY <1>0, <2>1, NamingPromised
  <2>2. CASE TryLock(p) \/ SkipLocked(p) \/ mlk_bckout(p) \/ BckoutZallocate(p)
    BY <1>0, <2>2, TryLockPromised, SkipLockedPromised, BckoutPromised, DeathPromised
  <2>3. CASE TimerPop(p) \/ OutOfTime(p) \/ Poll(p) \/ CheckOwn(p) \/ Relinquish(p) \/ Unpend(p)
    BY <1>0, <2>3, WaitPromised, RelinquishPromised, UnpendPromised
  <2>4. CASE \/ NeedGc(p) \/ GetGcLatch(p) \/ SalvageGcLatch(p)
             \/ GcFill(p) \/ check_pids(p) \/ GcClean(p)
    BY <1>0, <2>4, LatchPromised, GcFillPromised, GcCheckPromised, GcCleanPromised
  <2>5. CASE PruneStep(p) \/ UnlockStep(p) \/ op_decrlock(p) \/ op_zdealloc2(p) \/ EndRelease(p)
    BY <1>0, <2>5, ReleasePromised, EndReleasePromised
  <2>6. CASE \/ ExitStep(p) \/ StoreCounter(p) \/ StoreSequence(p) \/ StoreOwner(p)
             \/ ExitZdeallocate(p) \/ ExitDone(p)
    BY <1>0, <2>6, ExitStepPromised, StoreNumberPromised, StoreOwnerPromised, DeathPromised
  <2> QED  BY <1>3, <2>1, <2>2, <2>3, <2>4, <2>5, <2>6 DEF Run
<1>4. ASSUME NEW p \in Proc, ArgError(p) \/ Interrupt(p) \/ Exit(p) \/ Kill(p)
      PROVE  TreeInv' /\ Promised
  BY <1>0, <1>4, NamingPromised, WaitPromised, ExitPromised, DeathPromised
<1>5. ASSUME NEW b \in Blk, LkeClear(b) PROVE TreeInv' /\ Promised
  BY <1>0, <1>5, LkeClearPromised
<1> QED  BY <1>1, <1>2, <1>3, <1>4, <1>5 DEF Next

(* The shrblks in use form a tree with exactly one node for every prefix of   *)
(* every name in it, whatever the walk of mlk_shrblk_find creates, mlk_unlock, *)
(* LKE and the garbage collection free, and processes that die leave behind,  *)
(* unless one command names a lock 256 times.                                *)
THEOREM TreeKept == Spec /\ []RepeatsFit => []TreeShape
<1>1. TreeInv => TreeShape
  <2> SUFFICES ASSUME TreeInv, NEW b \in InUse(shr), NEW m \in Path[shr.name[b]]
               PROVE  Cardinality({c \in InUse(shr) : shr.name[c] = m}) = 1
    BY DEF TreeShape
  <2>1. Sound(shr)  BY DEF TreeInv
  <2>2. PICK c \in InUse(shr) : shr.name[c] = m  BY <2>1 DEF Sound, PathsClosed
  <2>3. {a \in InUse(shr) : shr.name[a] = m} = {c}  BY <2>1, <2>2 DEF Sound, UniqueNames
  <2> QED  BY <2>3, FS_Singleton
<1>2. Init => TreeInv  BY InitTree
<1>3. TreeInv /\ RepeatsFit /\ [Next]_vars => TreeInv'  BY StepPromised
<1> QED  BY <1>1, <1>2, <1>3, PTL DEF Spec

(* The lock manager implements HierLock: a lock goes to a process only when   *)
(* no live process holds a name of its branch, and it stays with its holder   *)
(* until the holder releases it inside a lock command or its exit handler,    *)
(* dies, or an operator clears it.  Only locks of dead processes are reaped.  *)
(* The hypothesis: no command names a lock 256 times.                        *)
THEOREM PromiseKept == Spec /\ []RepeatsFit => KeepsPromise
<1>1. Init => TreeInv /\ HL!HInit  BY InitTree
<1>2. TreeInv /\ RepeatsFit /\ [Next]_vars => TreeInv' /\ [HL!HNext]_(HL!hvars)
  BY StepPromised DEF Promised, HL!hvars
<1> QED  BY <1>1, <1>2, PTL DEF Spec, KeepsPromise, HL!HSpec
=============================================================================
