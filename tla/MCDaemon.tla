------------------------------ MODULE MCDaemon ------------------------------
\* Daemon.tla on small instances.
EXTENDS Daemon, TLC

Symmetry == Permutations(Addr) \cup Permutations(ConsumerConn)
              \cup Permutations(ProducerConn) \cup Permutations(Screen)
=============================================================================
