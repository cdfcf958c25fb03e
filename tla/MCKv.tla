-------------------------------- MODULE MCKv --------------------------------
(***************************************************************************)
(* The commands given to KvReplay in its run. Keys and values are          *)
(* sequences of characters, as the codecs need them.                       *)
(***************************************************************************)
EXTENDS KvRestart

MCEmpty == <<>>
k1 == <<1>>
k2 == <<2, 2>>
v1 == <<3>>
v2 == <<1, 3>>
r1 == 5
r2 == 6

Put(k, v, r) == [type |-> "Put", key |-> k, value |-> v, request_id |-> r]
Delete(k, v, r) == [type |-> "Delete", key |-> k, value |-> v, request_id |-> r]

\* Repetitions, conflicting contents, commands without an id, malformed ones.
MCOffered ==
  {Put(k1, v1, r1), Put(k1, v2, r1), Delete(k1, Empty, r2), Delete(k2, Empty, r2),
   Put(k1, v1, NoId), Put(k2, v2, NoId), Delete(k1, Empty, NoId), NoOpCommand,
   Delete(k1, v1, r2), [NoOpCommand EXCEPT !.request_id = r1]}
=============================================================================
