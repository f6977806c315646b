------------------------------- MODULE Values -------------------------------
(* With(v, LAMBDA x : e) is LET x == v IN e.  TLC's coverage statistics    *)
(* expand a definition wherever it is used, so that LETs over LETs grow    *)
(* exponentially; a parameter is expanded once.  The pure computations use *)
(* With where a value that is large to write is used more than once.       *)
With(v, Body(_)) == Body(v)

(* What Of gives for each member of a set, likewise.                       *)
Table(S, Of(_)) == [c \in S |-> Of(c)]
=============================================================================
