---------------------------- MODULE MCThreadPool ----------------------------
(***************************************************************************)
(* Instances of ThreadPool for TLC.  TestProtocol: one thread enqueues,    *)
(* closes and waits, as the tests of the pool do.  ServerProtocol: the     *)
(* thread of HttpServer::serve() enqueues while another calls stop().      *)
(***************************************************************************)
EXTENDS ThreadPool, TLC

CONSTANTS w1, w2, main, acceptor

OneWorker == {w1}
TwoWorkers == {w1, w2}
OnlyMain == {main}
OnlyAcceptor == {acceptor}

=============================================================================
