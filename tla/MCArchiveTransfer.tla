------------------------ MODULE MCArchiveTransfer ------------------------
(* Two requests at a time. r1 opens and r2 puts chunks, and both finalize. *)
(* Chunks are put for the first session only, the second of them with the  *)
(* declared bytes or with others; the second session shows what happens to *)
(* the requests and the directory of the first when it is replaced.        *)
(* No symmetry: liveness is checked.                                       *)
EXTENDS ArchiveTransfer

Chunk(k, body) == [token |-> 1, part |-> k, body |-> body]
LastMaySpoil == {Chunk(1, "right"), Chunk(2, "right"), Chunk(2, "wrong")}
=============================================================================
