---------------------------- MODULE MCRunBatches ----------------------------
(***************************************************************************)
(* The constants of RunBatches' and Evidence's run: two tasks, one of them *)
(* verified, under two profiles, of two threads and of one: a batch of two *)
(* trials that overlap and a batch of two that take turns.                 *)
(***************************************************************************)
EXTENDS Evidence, TLC

MCProfileOrder == 0 :> <<"wide", "narrow">>
MCTaskOrder == 0 :> <<"verified", "plain">>
MCConcurrency == <<2, 1>>
=============================================================================
