---------------------------- MODULE TesReporter -----------------------------
(* TesManager implements Reporter.                                          *)
EXTENDS TesManager

\* The posts of _answerUDPSem not yet spent, with the one that processRQS is
\* about to make and the one answerUDP has just spent.
Due ==
  sem["answersUDP"]
    + (IF pc["processRQS"] = "postUDP" THEN 1 ELSE 0)
    + (IF pc["answerUDP"] = "pop" THEN 1 ELSE 0)

\* The IQRs the server can put together.
Reportable ==
  [sid : Sids, qid : Qid, score : {Score[x] : x \in Sheets \X Files}]

Phase ==
  CASE pc["answerUDP"] \in {"wait", "pop"} -> "idle"
    [] pc["answerUDP"] = "store"           -> "sending"
    [] pc["answerUDP"] = "done"            -> "done"
    [] pc["answerUDP"] = "terminated"      -> "gone"

Reports == INSTANCE Reporter WITH
  Iqrs <- Reportable, Qids <- Qid,
  results <- answersUDP, due <- Due, hand <- iqr, phase <- Phase

\* Whatever its other threads do, the server's map of scores changes only as a
\* reporter's does, and answerUDP sends no more datagrams than were asked for.
ImplementsReporter == Reports!Spec
=============================================================================
