------------------------------- MODULE Redis -------------------------------
(***************************************************************************)
(* What the code in internal/repository/redis uses of a Redis server: keys *)
(* with an optional expiry, and the three ways one command can end.        *)
(* Redis itself is not part of the repository, so these definitions are    *)
(* external: they follow how go-redis is called there.                     *)
(*                                                                         *)
(* A pipeline (rdb.Pipeline) is not a transaction: its commands reach the  *)
(* server in order, commands of other connections may run between them,    *)
(* and a failure may cut it after any prefix.  Modules that use one model  *)
(* each of its commands as a step.                                         *)
(***************************************************************************)
EXTENDS Integers

CONSTANT None   \* the absent value (redis.Nil, a cookie that was not sent)

(***************************************************************************)
(* A key holds a value and the last instant at which it is readable; exp   *)
(* is 0 for a key without a TTL, which is also what go-redis makes of an   *)
(* expiration of 0.  An expired key is kept and LiveKey hides it.          *)
(***************************************************************************)
NoKey == [val |-> None, exp |-> 0]

SetKey(v, now, ttl) == [val |-> v, exp |-> IF ttl = 0 THEN 0 ELSE now + ttl]

LiveKey(e, now) == e.val # None /\ (e.exp = 0 \/ now <= e.exp)

(***************************************************************************)
(* How a command ends for its caller: executed and answered, executed but  *)
(* the answer lost (the caller sees an error), or never executed.          *)
(***************************************************************************)
Outcomes == {"ok", "lost", "failed"}

Executed(o) == o \in {"ok", "lost"}

=============================================================================
