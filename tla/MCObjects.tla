------------------------------ MODULE MCObjects ------------------------------
EXTENDS Objects

(* Four values and calls nested up to four deep. *)
MCLazyValues == {"v1", "v2", "v3", "v4"}
MCMaxDepth == 4
(* Circles of two and of three closures. *)
MCOnceObjects == {"a", "b", "c"}
(* Two locks of each kind, three readers at most. *)
MCRwLocks == {"r1", "r2"}
MCMutexes == {"m1", "m2"}
MCMax == 3
(* PATH and two other variables. *)
MCKeys == {"PATH", "HOME", "LANG"}
MCEnvValues == {"v1", "v2"}
(* Three threads race; after a take two of them may race again. *)
MCThreads == {"t1", "t2", "t3"}
MCBoxes == {"b1", "b2", "b3"}
=============================================================================
