-------------------------------- MODULE Scan --------------------------------
(***************************************************************************)
(* Scanning of a sequence of symbols: what the parsers use of ffbase's     *)
(* string functions.  Positions count from 1; the position after the last  *)
(* symbol stands for "not found".                                          *)
(***************************************************************************)
EXTENDS Integers, Sequences

\* ffs_skip_ranges, ffs_skipany: the first position from `k` on whose symbol is not in S.
Past(s, k, S) ==
    CHOOSE j \in k .. Len(s) + 1 :
        /\ j <= Len(s) => s[j] \notin S
        /\ \A m \in k .. j - 1 : s[m] \in S

\* ffs_findany, ffmem_findbyte: the first position from `k` on whose symbol is in S.
Find(s, k, S) ==
    CHOOSE j \in k .. Len(s) + 1 :
        /\ j <= Len(s) => s[j] \in S
        /\ \A m \in k .. j - 1 : s[m] \notin S


=============================================================================
