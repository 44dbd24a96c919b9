---------------------------- MODULE MCRofSockTx ----------------------------
(* RofSockTx on small instances. *)
EXTENDS RofSockTx, TLC

\* Every class is served once per round: the scheduler's turns come quickly.
MCWeights1 == [q \in QueueIds |-> 1]
MCSymmetryMsgs == Permutations(Msgs)
MCSymmetry == Permutations(Senders)
=============================================================================
