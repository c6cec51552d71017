----------------------------- MODULE MCTimeLoop -----------------------------
(* Instances of TimeLoop for TLC.                                           *)
EXTENDS TimeLoop

Setting(begin, end, const, policy, n, times, count, all) ==
    [tBegin |-> begin, tEnd |-> end, constant_dt |-> const,
     output_policy |-> policy, nOutput |-> n, output_times |-> times,
     max_checkpoint_count |-> count, all_outputs_are_checkpoint |-> all]

(* Four outputs, and two checkpoints among them, from a beginning that is   *)
(* not 0, or three at times of their own; two listed times, all of them     *)
(* checkpoints, or with other checkpoints; a constant step that does not    *)
(* divide the run, and one checkpoint, at its end; an output at every step; *)
(* checkpoints and no output.                                               *)
MCSettings ==
    {Setting(1, 13, 0, "EQUISPACED", 4, <<>>, 2, FALSE),
     Setting(1, 13, 0, "EQUISPACED", 4, <<>>, 3, FALSE),
     Setting(0, 10, 0, "PREDEFINED", 2, <<3, 7>>, 3, TRUE),
     Setting(0, 10, 0, "PREDEFINED", 2, <<4, 6>>, 5, FALSE),
     Setting(1, 12, 2, "EQUISPACED", 3, <<>>, 1, FALSE),
     Setting(0, 5, 0, "EQUISPACED", -1, <<>>, 2, FALSE),
     Setting(0, 6, 0, "EQUISPACED", 0, <<>>, 2, FALSE)}
=============================================================================
