--------------------------- MODULE MCStreamWorker ---------------------------
(* Lines for TLC: one of each kind, and some that are read together. *)
EXTENDS StreamWorker

MCBatches == {<<"data">>, <<"skipped">>, <<"bare">>, <<"data", "data">>,
              <<"data", "broken", "data">>}
=============================================================================
