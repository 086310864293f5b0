------------------------------ MODULE TesLedger ------------------------------
(* TesManager implements Ledger.                                            *)
EXTENDS TesManager

ASSUME LedgerNone == None \notin [qid : Qid, quiz : Quiz]

\* ERR tells a student nothing of a questionnaire.
ToldOf(a) == IF a = ERR THEN None ELSE a

Seen == [c \in Clients |-> ToldOf(answer[c])]

\* processRQT has dealt a questionnaire and not left the map yet.
Filing == IF pc["processRQT"] \in {"lock", "insert"} THEN cur["processRQT"] ELSE None

\* processRQS has taken a quiz out and not marked it yet.
Desk == IF quiz = None THEN None
        ELSE [qid |-> line[cur["processRQS"]].qid, quiz |-> quiz]

Promise == INSTANCE Ledger WITH
  told   <- Seen,
  filing <- Filing,
  open   <- questionaries,
  desk   <- Desk

\* Seen through the mapping, the eight kinds of threads do what the ledger
\* allows and nothing else: whatever their interleaving, a questionnaire is
\* dealt, opened, taken out once and marked as it was dealt.
ImplementsLedger == Promise!Spec
=============================================================================
