-------------------------- MODULE MCHeartbeatCache --------------------------
(* The first instance has a health check of its own (TTL 2), any other   *)
(* is on the default TTL (1).  The runs use one instance: a client can    *)
(* heartbeat again while its previous task is queued, which fills a       *)
(* channel of one.  Times are scaled down keeping their order: item TTL   *)
(* <= expireAfterSeconds.                                                  *)
EXTENDS HeartbeatCache

(* Only the janitor runs OnEvicted: no caller of RemoveCacheInstance.     *)
MCJanitorOnly == {"janitor"}

MCHealthTTL == [i \in Instances |-> IF i = CHOOSE j \in Instances : TRUE THEN 2 ELSE 0]
=============================================================================
