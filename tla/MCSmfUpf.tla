------------------------------ MODULE MCSmfUpf ------------------------------
(* SmfUpf with an access UPF and an anchor behind it.                      *)
EXTENDS SmfUpf, TLC

CONSTANTS access, anchor, stranger, s1, s2

\* The anchor is reached through the access UPF, which serves the DNN alone, too.
Paths == (access :> <<access>>) @@ (anchor :> <<access, anchor>>)

\* Nothing reads upfPool once the last association message is handled, nor
\* whether a context that is not in use was late.
Needed ==
    <<IF handled = MaxAssoc THEN {} ELSE upfPool, status, info, answered, handled, crashed, stray,
      default, ids, addr, seidv, sm, {s \in late : sm[s].pc # "idle"}>>

SessionSymmetry == Permutations(Sessions)
=============================================================================
