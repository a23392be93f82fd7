----------------------------- MODULE MCVideoTask -----------------------------
(***************************************************************************)
(* Two handlers and, for the kinds with a poller, two video tasks; each    *)
(* kind of provider in turn.  The poller's page takes one task, so that    *)
(* the second waits for the first; one handler may die, outlive its lock,  *)
(* or fail to save or to refund, and one answer be an error.               *)
(***************************************************************************)
EXTENDS VideoTask, TLC

CONSTANTS h1, h2

MCTaskIds == 1..2
MCAsked == {1}
MCHandlers == {h1, h2}

\* The handlers are interchangeable while they are idle: the second one begins only
\* while the first is at work.  (A lock that outlives its holder keeps its name, and
\* excludes either of them.)
FirstHandlerFirst ==
    call[h2].step = "idle" /\ call'[h2].step # "idle" => call[h1].step # "idle"
=============================================================================
