----------------------------- MODULE MCScanDir -----------------------------
(***************************************************************************)
(* Instances of ScanDir for TLC: trees of up to three levels with names of *)
(* one to three bytes, and buffers from one in which hardly a name fits to *)
(* one that is never filled.                                               *)
(***************************************************************************)
EXTENDS ScanDir, TLC

CONSTANTS a, bb, ccc

MCNames == {a, bb, ccc}
MCLength == (a :> 1) @@ (bb :> 2) @@ (ccc :> 3)

Tree(paths, dirs) == [paths |-> paths, dirs |-> dirs]
MCTrees ==
    {Tree({<<a>>, <<bb>>, <<ccc>>}, {}),
     Tree({<<a>>, <<bb>>, <<ccc>>, <<bb, a>>, <<bb, ccc>>}, {<<bb>>}),
     Tree({<<a>>, <<a, bb>>, <<bb>>, <<bb, a>>, <<bb, a, a>>, <<bb, a, ccc>>},
          {<<a>>, <<bb>>, <<bb, a>>}),
     Tree({<<a>>, <<a, a>>, <<a, bb>>, <<a, bb, a>>, <<a, ccc>>, <<ccc>>},
          {<<a>>, <<a, bb>>})}
MCSizes == 6..16
=============================================================================
