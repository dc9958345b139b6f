---------------------------- MODULE MCEditBroker ----------------------------
EXTENDS EditBrokerClaims, TLC

\* Sessions, connections, files, code paths and transaction ids are interchangeable.
BrokerSymmetry ==
    Permutations(Sessions) \cup Permutations(Conns) \cup Permutations(Files)
        \cup Permutations(Paths) \cup Permutations(Txns)

=============================================================================
