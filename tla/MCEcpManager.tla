---------------------------- MODULE MCEcpManager ----------------------------
(* EcpManager on small sets.                                               *)
EXTENDS EcpManager

Plain(kinds) == [kind : kinds]
Ter(topic)   == [kind |-> "TER", topic |-> topic]
Iqr(result)  == [kind |-> "IQR", result |-> result]

\* A line of each kind, with a topic that is listed and one that is not.
AllLines ==
  Plain({"TQR", "badTER", "badIQR", "hugeIQR", "other", "unterminated", "tooLong"})
    \cup {Ter(1), Ter(2)} \cup {Iqr(x) : x \in Results}

\* A line for each of the four queues.
OfEachQueue == Plain({"TQR", "unterminated"}) \cup {Ter(1)} \cup {Iqr(x) : x \in Results}
=============================================================================
