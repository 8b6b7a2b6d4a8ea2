------------------------------ MODULE MCGrouped ------------------------------
(* Instances of MlxGrouped for TLC. *)
EXTENDS MlxGrouped

Prog(kind, int_lane, mult) == [kind |-> kind, int_lane |-> int_lane, mult |-> mult]

\* dense, scatter and CPU accumulators with two groups at a distance
MCCards == {<<2>>, <<2, 2>>, <<3, 2>>}

MCPrograms ==
    {<<Prog("SUM", TRUE, 1), Prog("COUNT_STAR", TRUE, 1)>>,
     <<Prog("AVG", TRUE, 3), Prog("SUM", TRUE, 1)>>,
     <<Prog("SUM", FALSE, 1), Prog("COUNT", TRUE, 1)>>,
     <<Prog("MIN", TRUE, 1), Prog("MAX", FALSE, 1), Prog("SUM", TRUE, 1)>>}

MCLayouts == {<<3>>, <<2, 1>>, <<1, 1, 1>>}

=============================================================================
