---------------------------- MODULE MCLifecycle ----------------------------
(* Small instances of Lifecycle for TLC.                                   *)
EXTENDS Lifecycle, Sequences

Mode(k, t) == [kind |-> k, trigger |-> t]

\* Pairs of modes that bring every kind of thread together with every other.
Pairs ==
  {<<Mode("pub", "listener"), Mode("sub", "listener")>>,
   <<Mode("sub", "waitset"), Mode("pub", "listener")>>,
   <<Mode("ping", "listener"), Mode("pong", "waitset")>>,
   <<Mode("ping", "waitset"), Mode("pong", "listener")>>}

OneListener == {<<Mode("sub", "listener")>>}
=============================================================================
