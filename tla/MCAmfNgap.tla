------------------------------ MODULE MCAmfNgap ------------------------------
(***************************************************************************)
(* Two RANs, two AmfUes, and enough connections for a handover or a repeat *)
(* and for a reset that skips one.                                         *)
(***************************************************************************)
EXTENDS AmfNgap, TLC

CONSTANTS r1, r2, u1, u2

\* RANs are alike, and so are AmfUes.
NgapSymmetry == Permutations(Rans) \cup Permutations(AmfUes)

\* ReleaseAction is read only where a release is pending, and Ran only of
\* RanUes in the pool.
Live ==
    <<[amf EXCEPT !.ran = [i \in RanUes |-> IF i \in amf.pool THEN @[i] ELSE NoRan],
                  !.action = [i \in RanUes |-> IF <<"Release", i>> \in cmds THEN @[i]
                                              ELSE "N2NormalRelease"]],
      cmds, overlapped>>

\* The loop of RemoveAllUeInRan after n turns: the array the range statement
\* reads, the length of ran.RanUeList, and the connections removed.
Loop(s) ==
    LET F[n \in 0..Len(s)] ==
          IF n = 0 THEN [array |-> s, len |-> Len(s), removed |-> {}]
          ELSE LET f == F[n-1]
                   i == f.array[n]
                   live == SubSeq(f.array, 1, f.len)
               IN  IF i \in f.removed THEN f
                   ELSE LET rest == Without(live, i)
                        IN  [array   |-> rest \o SubSeq(f.array, f.len, Len(s)),
                             len     |-> f.len - 1,
                             removed |-> f.removed \cup {i}]
    IN  [list |-> SubSeq(F[Len(s)].array, 1, F[Len(s)].len), removed |-> F[Len(s)].removed]

\* Reached and Skipped are what that loop leaves.
ASSUME LoopAssumption ==
    \A n \in 0..7 : LET s == [k \in 1..n |-> k]
                    IN  Loop(s) = [list |-> Skipped(s), removed |-> Reached(s)]
=============================================================================
