------------------------ MODULE MCTurnStateFallback ------------------------
(***************************************************************************)
(* TurnStateFallback for TLC: three submissions on two workers that may    *)
(* find Redis at any time.  The configuration looks at the memory of one   *)
(* worker, and the instance at Redis.                                      *)
(***************************************************************************)
EXTENDS TurnStateFallback, TLC

\* Turns and request ids are only compared.
Alike == Permutations(Turns) \cup Permutations(Requests)

LookedAtFromRedis == INSTANCE TurnStateFallback WITH Observed <- NoWorker

\* Whichever workers join or leave, turns on Redis are one at a time there: a
\* request id that is mapped may be given a second turn, by an attempt that read
\* no mapping, but only when the first is over.
RedisKeepsContract == LookedAtFromRedis!ImplementsContract
=============================================================================
