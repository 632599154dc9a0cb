----------------------------- MODULE MCDatabase -----------------------------
(***************************************************************************)
(* Instances of Database for TLC                                            *)
(***************************************************************************)
EXTENDS Database, TLC

Read(leaf)       == [path |-> <<1, leaf>>, upd |-> {}]
Put(leaf, blks)  == [path |-> <<1, leaf>>, upd |-> blks]
Work(t1, t2, n, bufs) == [todo |-> (1 :> t1 @@ 2 :> t2), epochs |-> n, n_bts |-> bufs]

\* A reader against an update of its whole path, the second time from the clue; updates of one
\* block from a clue and not, its buffer still dirty or being written; two leaves in too few
\* buffers, so that a search evicts what the other has found; updates and epochs in a row
Mixed == {Work(<<Read(2), Read(2)>>, <<Put(2, {1, 2})>>, 0, 3),
          Work(<<Put(2, {2}), Put(2, {2})>>, <<Put(2, {2})>>, 1, 2),
          Work(<<Put(2, {2})>>, <<Put(2, {2})>>, 1, 3),
          Work(<<Put(2, {2})>>, <<Put(3, {3})>>, 1, 2),
          Work(<<Read(2)>>, <<Put(3, {3})>>, 0, 2),
          Work(<<Put(2, {1, 2}), Put(2, {2}), Put(2, {2})>>, << >>, 2, 3)}
=============================================================================
