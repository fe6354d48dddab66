------------------------------- MODULE Engine -------------------------------
(***************************************************************************)
(* What set and get of DbSyncEngine (src/include/dbsync_engine.hpp) do to  *)
(* the entry of one key, and the RESP replies the server makes of it       *)
(* (src/include/command_handler.hpp).                                      *)
(*                                                                         *)
(* Of a value the properties tell apart which one it is and whether it is  *)
(* empty.  Time is abstracted to a choice, made when an entry with a TTL   *)
(* is read, of whether its expiry has passed; the clock is system_clock,   *)
(* which may also go back.                                                 *)
(***************************************************************************)
CONSTANTS Values, EmptyValue

ASSUME EmptyValueAssumption == EmptyValue \in Values

(* Entries of a shard: a ValueEntry, or nothing stored for the key.        *)
Entry == [found : BOOLEAN, val : Values, ttl : BOOLEAN]
Absent == [found |-> FALSE, val |-> EmptyValue, ttl |-> FALSE]

(* set: the entry it writes, with an expiry if a TTL was given.            *)
Stored(v, t) == [found |-> TRUE, val |-> v, ttl |-> t]

(* get: the entries it may leave behind, which are also what it reports:   *)
(* one whose expiry has passed is erased and reported as absent.           *)
Lookups(e) == {e} \cup (IF e.ttl THEN {Absent} ELSE {})

(* Replies.  The placeholder is the empty string that stands in a pipeline *)
(* for a command that was sent to its owner.                               *)
Reply == [kind : {"placeholder", "OK", "NIL", "bulk", "other"}, val : Values]

Plain(k)    == [kind |-> k, val |-> EmptyValue]
Placeholder == Plain("placeholder")
OK          == Plain("OK")
NIL         == Plain("NIL")
Other       == Plain("other")      \* PONG, :1, the empty array, ERR_UNKNOWN
Bulk(v)     == [kind |-> "bulk", val |-> v]

(* The reply to a GET that is executed where it was read.                  *)
GetReply(e) == IF e.found THEN Bulk(e.val) ELSE NIL
=============================================================================
