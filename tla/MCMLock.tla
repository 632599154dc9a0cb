------------------------------ MODULE MCMLock -------------------------------
(* Instances of MLock for TLC. *)
EXTENDS MLock, TLC

CONSTANTS p1, p2, p3

Cmd(op, args, time) == [op |-> op, args |-> args, time |-> time]

(* Bound: two processes that back out of each other's lists may retry for    *)
(* ever, and every attempt takes a sequence number.                         *)
CONSTANT MaxSequence
SequenceBound == shr.lock_sequence <= MaxSequence

(* Two levels: A with a child A1, and B. *)
MCName == {"A", "A1", "B"}
MCPath == [n \in MCName |-> IF n = "A1" THEN {"A", "A1"} ELSE {n}]

(* Lists of locks in opposite orders, timeouts, levels. *)
ListCommands ==
  [p \in Proc |->
    IF p = p1 THEN {Cmd("LOCK", <<"A", "B">>, "none"), Cmd("LOCK+", <<"A1", "A1">>, "timed"),
                    Cmd("LOCK-", <<"A1">>, "none")}
    ELSE {Cmd("LOCK+", <<"B", "A1">>, "timed"), Cmd("LOCK+", <<"A">>, "zero"), Cmd("UNLOCK", <<>>, "none")}]

(* One lock at a time, so that no process waits for one lock with another in *)
(* its hand.                                                                *)
FairCommands ==
  [p \in Proc |->
    IF p = p1 THEN {Cmd("LOCK", <<"A">>, "none")}
    ELSE IF p = p2 THEN {Cmd("LOCK", <<"A1">>, "timed")}
    ELSE {Cmd("LOCK", <<"A1">>, "none")}]

(* Three levels: A, A(1), A(1,1) and A(1,2). *)
DeepName == {"A", "A1", "A11", "A12"}
DeepPath == [n \in DeepName |->
  IF n = "A" THEN {"A"} ELSE IF n = "A1" THEN {"A", "A1"} ELSE {"A", "A1", n}]

(* p1 holds A(1,2) and wants A(1,1); p2 and p3 queue on A and A(1). *)
DeepCommands ==
  [p \in Proc |->
    IF p = p1 THEN {Cmd("LOCK+", <<"A12">>, "none"), Cmd("LOCK+", <<"A11">>, "none")}
    ELSE IF p = p2 THEN {Cmd("LOCK+", <<"A">>, "none")}
    ELSE {Cmd("LOCK+", <<"A1">>, "none")}]

(* A lock named once more than an unsigned char can count. *)
RepeatCommands == [p \in Proc |-> {Cmd("LOCK+", [i \in 1 .. 257 |-> "A"], "none")}]

(* Three names that have nothing to do with each other: p2 waits for A, which *)
(* p1 releases to take B, while p3 exits with C in its hand.                 *)
FlatName == {"A", "B", "C"}
FlatPath == [n \in FlatName |-> {n}]

FlatCommands ==
  [p \in Proc |->
    IF p = p1 THEN {Cmd("LOCK", <<"A">>, "none"), Cmd("LOCK", <<"B">>, "none")}
    ELSE IF p = p2 THEN {Cmd("LOCK", <<"A">>, "none")}
    ELSE {Cmd("LOCK", <<"C">>, "none")}]

(* Bound: p2 and p3 issue one command each, and only p3 exits. *)
FlatBound == \A p \in Proc : (p # p1 => ncmd[p] <= 1) /\ (p # p3 => pc[p] # "exit")

ErrorCommands ==
  [p \in Proc |->
    {Cmd("LOCK+", <<"A", "B">>, "none"), Cmd("LOCK+", <<"A">>, "none")}]

(* ZALLOCATE beside LOCK, for the runs in which processes exit. *)
ExitCommands ==
  [p \in Proc |->
    IF p = p1 THEN {Cmd("LOCK", <<"A1">>, "none"), Cmd("ZALLOCATE", <<"A">>, "none"),
                    Cmd("ZDEALLOCATE", <<"A">>, "none")}
    ELSE {Cmd("LOCK", <<"A">>, "none"), Cmd("ZALLOCATE", <<"A", "B">>, "none")}]

(* Single locks, for the runs in which the lock space is short. *)
SpaceCommands ==
  [p \in Proc |->
    IF p = p1 THEN {Cmd("LOCK+", <<"A1", "B">>, "none"), Cmd("ZALLOCATE", <<"A">>, "none")}
    ELSE {Cmd("LOCK", <<"A">>, "none"), Cmd("LOCK", <<"B">>, "timed")}]
=============================================================================
