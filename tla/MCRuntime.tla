------------------------------ MODULE MCRuntime ------------------------------
(***************************************************************************)
(* Three things checked in one run, each behaviour being about one: the    *)
(* Analytics worker's batch consumer; how every program starts and stops;  *)
(* and the BFF's pages.  Of the pages, either one of any kind, opened at   *)
(* time 0 while the genre list stands; or two of albums without artists or *)
(* tracks, which share the genre cache while the list changes and lose     *)
(* calls only to the budget.                                               *)
(***************************************************************************)
EXTENDS BatchConsumer, Lifecycle, BffPages

CONSTANTS q1, q2

AllOrNone == {{"library", "history", "playlists", "profiles"}, {}}

VARIABLE subject

runtime == <<subject, vars, lifecycleVars, pageVars>>

NoBatch == Init /\ ~DLQ
NoProgram == program = Bff_main /\ LifecycleInit
NoPages == PagesInit /\ personal = {}

MCInit ==
  \/ subject = "batch" /\ Init /\ NoProgram /\ NoPages
  \/ subject = "program" /\ LifecycleInit /\ NoBatch /\ NoPages
  \/ subject = "a page" /\ PagesInit /\ NoBatch /\ NoProgram
  \/ subject = "tags" /\ NoPages /\ NoBatch /\ NoProgram

Batch == subject = "batch" /\ Next /\ UNCHANGED <<subject, lifecycleVars, pageVars>>
Program == subject = "program" /\ LifecycleNext /\ UNCHANGED <<subject, vars, pageVars>>
OnePage ==
  /\ subject = "a page" /\ PagesNext
  /\ page'[q2] = page[q2] /\ page'[q1].opened = 0
  /\ UNCHANGED <<replaced, subject, vars, lifecycleVars>>
Tags ==
  /\ subject = "tags" /\ PagesNext
  /\ \A r \in Requests :
       /\ page'[r].kind \in {"none", "album"} /\ ~page'[r].user /\ page'[r].got = {}
       /\ page'[r].lost # page[r].lost => Expired(page[r])
  /\ UNCHANGED <<subject, vars, lifecycleVars>>
Pages == subject \in {"a page", "tags"}

\* The fairness of each part, in the behaviours that are about it.
MCFairness ==
  /\ \A m \in Members :
       /\ WF_steps(subject = "batch" /\ Collect(m))
       /\ WF_steps(subject = "batch" /\ RunStep(m))
       /\ WF_steps(subject = "batch" /\ Environment(m))
  /\ WF_runtimeVars(subject = "program" /\ MainMoves)
  /\ WF_runtimeVars(subject = "program" /\ Drain)
  /\ \A l \in Loops : WF_runtimeVars(subject = "program" /\ asked /\ LoopEnds(l))
  /\ WF_pageVars(Pages /\ PageTick)
  /\ \A r \in Requests : WF_pageVars(Pages /\ JoinCalls(r)) /\ WF_pageVars(Pages /\ BudgetEnds(r))

MCSpec == MCInit /\ [][Batch \/ Program \/ OnePage \/ Tags]_runtime /\ MCFairness

\* The consumer's and the programs' variables keep their types.
RuntimeTypeOK == TypeOK /\ LifecycleTypeOK
=============================================================================
