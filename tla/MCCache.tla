------------------------------- MODULE MCCache -------------------------------
(***************************************************************************)
(* Instances of the cache for TLC.                                         *)
(***************************************************************************)
EXTENDS CacheCorrectness

\* one instance is outside of the environment's promise: restarting a machine
\* whose cache holds dirty lines
ASSUME EnvironmentAssumption \/ (AllowRestart /\ WritePolicy = "WP_BACK")

Req(a, n) == [addr |-> a, size |-> n]

Bytes == {0, 1}
ImageZero == [a \in Addr |-> 0]

\* single bytes, two bytes across a block boundary
FewRequests == {Req(0, 1), Req(1, 2), Req(4, 1)}
ByteRequests == {Req(0, 1), Req(2, 1), Req(4, 1)}
DebugBytes == {Req(1, 1)}
\* every block once; used where the counters make the state space large
BlockRequests == {Req(0, 1), Req(3, 2)}
\* blocks of one byte: an access over three blocks; the last block is uncached
\* and holds a device register
UncachedRequests == {Req(0, 3), Req(1, 1), Req(4, 1)}
UncachedDebug == {Req(2, 1), Req(4, 1)}
OneRegister == {4}
NoDebug == {}
NoDevice == {}
=============================================================================
