---------------------------- MODULE MCTimedCommand ----------------------------
(***************************************************************************)
(* Children that write nothing, little, and more than the pipes hold, to   *)
(* one pipe or to both in turns.                                           *)
(***************************************************************************)
EXTENDS TimedCommand

MCScripts ==
    {<<>>,
     <<"stdout">>,
     <<"stderr", "stderr", "stderr", "stdout">>,
     <<"stdout", "stdout", "stdout", "stderr", "stderr", "stderr">>,
     <<"stdout", "stderr", "stdout", "stderr", "stdout">>}
=============================================================================
