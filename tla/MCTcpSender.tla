---------------------------- MODULE MCTcpSender ----------------------------
(* Instances of TcpSender for TLC.                                         *)
EXTENDS TcpSender, TLC

MCPayloads == {<<1>>, <<2, 3>>}
MCFiles == {<<>>, <<4, 5>>}

ProducerSymmetry == Permutations(Producers)
=============================================================================
