----------------------------- MODULE RedisCommands -----------------------------
(***************************************************************************)
(* ParseRedisCommand, GetRedisCommandCategory and GetRedisKey              *)
(* (pkg/protocol/redis.go): from a parsed RESP array to the command, its   *)
(* category and the key it is about.                                       *)
(***************************************************************************)
EXTENDS Naturals, Sequences

\* The commands, by the comments that head the groups of their constants.
StringCommands == {"SET", "GET", "DEL", "MSET", "MGET", "INCR", "DECR", "APPEND", "SETEX", "SETNX",
                   "GETSET", "STRLEN"}
HashCommands == {"HSET", "HGET", "HDEL", "HGETALL", "HMSET", "HMGET", "HKEYS", "HVALS", "HLEN", "HEXISTS"}
ListCommands == {"LPUSH", "RPUSH", "LPOP", "RPOP", "LLEN", "LRANGE", "LINDEX", "LSET", "LREM"}
SetCommands == {"SADD", "SMEMBERS", "SREM", "SISMEMBER", "SCARD"}
SortedSetCommands == {"ZADD", "ZRANGE", "ZREM", "ZSCORE", "ZCARD"}
PubSubCommands == {"PUBLISH", "SUBSCRIBE"}
OtherCommands == {"MULTI", "EXEC", "DISCARD", "PING", "AUTH", "SELECT", "QUIT", "ECHO", "INFO", "DBSIZE",
                  "FLUSHALL", "FLUSHDB"}
DataCommands == StringCommands \cup HashCommands \cup ListCommands \cup SetCommands \cup SortedSetCommands
Commands == DataCommands \cup PubSubCommands \cup OtherCommands

-------------------------------------------------------------------------------
Reads == {"GET", "MGET", "HGET", "HGETALL", "HMGET", "HKEYS", "HVALS", "HLEN", "HEXISTS", "LLEN", "LRANGE",
          "LINDEX", "SMEMBERS", "SISMEMBER", "SCARD", "ZRANGE", "ZSCORE", "ZCARD", "STRLEN"}
Writes == {"SET", "DEL", "MSET", "INCR", "DECR", "APPEND", "SETEX", "SETNX", "GETSET", "HSET", "HDEL",
           "HMSET", "LPUSH", "RPUSH", "LPOP", "RPOP", "LSET", "LREM", "SADD", "SREM", "ZADD", "ZREM"}

\* redisCommandCategories; a command that is not in it counts as a read.
GetRedisCommandCategory(name) ==
  CASE name \in Writes -> "write"
    [] name = "PUBLISH" -> "pubsub"
    [] name \in {"MULTI", "EXEC", "DISCARD"} -> "transaction"
    [] name \in {"PING", "AUTH", "SELECT", "QUIT", "ECHO"} -> "connection"
    [] name \in {"INFO", "DBSIZE", "FLUSHALL", "FLUSHDB"} -> "admin"
    [] OTHER -> "read"

\* The commands of GetRedisKey's cases.
keyed == DataCommands

GetRedisKey(c) == IF c.name \in keyed /\ c.args # <<>> THEN Head(c.args) ELSE "none"

IsString(e) == e \notin {"null", "array"}

\* The elements after the name, those that are no strings left out.
argsOf(es) == SelectSeq(Tail(es), IsString)

ParseRedisCommand(es) ==
  IF es = <<>> \/ ~IsString(Head(es)) THEN [ok |-> FALSE, name |-> "none", args |-> <<>>]
  ELSE [ok |-> TRUE, name |-> Head(es), args |-> argsOf(es)]
===============================================================================
