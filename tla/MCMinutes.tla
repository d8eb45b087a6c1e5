------------------------------ MODULE MCMinutes -----------------------------
(* Small instances of MinutesPipeline for TLC; see manual.cfg,              *)
(* automatic.cfg, reviewed.cfg and locked.cfg.                              *)
EXTENDS MinutesPipeline, TLC

CONSTANTS r1, r2, worker, deliverer

OneRequest  == {r1}
TwoRequests == {r1, r2}

\* Slots are interchangeable: sound where only safety is checked
Slots == Permutations(TwoRequests)

=============================================================================
