---------------------------- MODULE MCWriterThread ----------------------------
(***************************************************************************)
(* Small instances of WriterThread.  c and d are calls and u, v updates of *)
(* callers outside; nc is a call and nu, nv updates the closure of c asks  *)
(* for.  v and nv need a larger stack than the rest.                       *)
(***************************************************************************)
EXTENDS WriterThread

CONSTANTS c, d, u, v, nc, nu, nv

MCAskedBy == [w \in Writes |-> IF w \in {nc, nu, nv} THEN c ELSE Outside]

OneStack == [w \in Writes |-> 1]

TwoStacks == [w \in Writes |-> CASE w = v  -> 3
                                 [] w = nv -> 5
                                 [] OTHER  -> 1]
=============================================================================
