---------------------- MODULE MCTransactionProcessing ----------------------
EXTENDS TransactionProcessing

CONSTANTS t1, t2, t3, a, b, c

\* Two transactions read an account the third one writes.
MCWrites == (t1 :> {a}) @@ (t2 :> {b}) @@ (t3 :> {b, c})
MCReads == (t1 :> {c}) @@ (t2 :> {c}) @@ (t3 :> {})
MCPayer == (t1 :> a) @@ (t2 :> b) @@ (t3 :> c)
MCBlockhash == (t1 :> 0) @@ (t2 :> 1) @@ (t3 :> 1)

ThreadSymmetry == Permutations(Threads)
=============================================================================
