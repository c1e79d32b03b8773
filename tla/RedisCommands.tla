---------------------------- MODULE RedisCommands ----------------------------
(***************************************************************************)
(* The redis commands of the client library.  Every method sends one       *)
(* command with CallN (Call for AUTH, PING and INFO) and converts the      *)
(* reply to its return type.  A method is the command it sends and the     *)
(* conversion it applies; a reply is what its tokens have become after     *)
(* readResponse.  QUIT, SORT and BITPOS are empty in the code.             *)
(***************************************************************************)
EXTENDS Integers, FiniteSets

CONSTANT RetryTimes   \* attempts of CallN

ASSUME CmdBounds == RetryTimes \in Nat \ {0}

Row(name, wire, conv) == [name |-> name, wire |-> wire, conv |-> conv]
Rows(names, conv) == {Row(n, n, conv) : n \in names}

Connections == {Row("AUTH", "AUTH", "ok"), Row("IsAlive", "PING", "pong"),
                Row("Info", "INFO", "bytes")}

Keys1 ==
  Rows({"DEL"}, "int") \cup {Row("DELMulti", "DEL", "int")}
    \cup Rows({"DUMP"}, "bytesOrNil")
    \cup Rows({"EXISTS", "EXPIRE", "EXPIREAT"}, "int")
    \cup Rows({"KEYS"}, "members") \cup Rows({"MIGRATE"}, "ok")
    \cup Rows({"SELECT"}, "bytes")

Keys2 ==
  Rows({"MOVE", "PERSIST", "PTTL", "RENAMENX"}, "int")
    \cup {Row("PEXPIRE", "EXPIRE", "int"), Row("PEXPIREAT", "EXPIREAT", "int")}
    \cup Rows({"OBJECT"}, "intOrBytes")
    \cup Rows({"RANDOMKEY"}, "bytesOrNil") \cup Rows({"RENAME"}, "bytes")

Keys3 ==
  Rows({"RESTORE", "TYPE"}, "bytes") \cup Rows({"TTL"}, "intUnchecked")
    \cup Rows({"SCAN"}, "page")

Sets1 ==
  Rows({"SADD", "SREM", "SISMEMBER", "SCARD", "SINTERSTORE"}, "int")
    \cup Rows({"SMEMBERS", "SINTER", "SDIFF"}, "members")

Sets2 ==
  Rows({"SDIFFSTORE", "SMOVE", "SUNIONSTORE"}, "int")
    \cup Rows({"SPOP"}, "bytesOrNil") \cup Rows({"SUNION"}, "members")
    \cup {Row("SRANDMEMBER", "SRANDMEMBER", "bytesUnchecked"),
          Row("SRANDMEMBER_count", "SRANDMEMBER_count", "membersOrNil")}

Strings1 ==
  Rows({"APPEND", "BITCOUNT", "BITOP", "DECR", "DECRBY", "INCR", "INCRBY"}, "int")
    \cup Rows({"INCRBYFLOAT", "SET"}, "bytes") \cup Rows({"GET"}, "bytesOrNil")

Strings2 ==
  Rows({"GETBIT", "MSETNX", "SETBIT"}, "int")
    \cup Rows({"GETRANGE", "PSETEX", "SETEX"}, "bytes")
    \cup Rows({"GETSET"}, "bytesOrNil") \cup Rows({"MGET"}, "array")
    \cup Rows({"MSET"}, "mset")

Strings3 == Rows({"SETNX", "SETRANGE", "STRLEN"}, "int") \cup Rows({"SSCAN"}, "page")

Hashes1 ==
  Rows({"HDEL", "HEXISTS", "HINCRBY"}, "int") \cup Rows({"HGET"}, "bytesOrNil")
    \cup Rows({"HGETALL"}, "arrayOrNil") \cup {Row("HGETALLMAP", "HGETALL", "map")}
    \cup Rows({"HINCRBYFLOAT"}, "bytes") \cup Rows({"HKEYS"}, "membersOrNil")

Hashes2 ==
  Rows({"HLEN", "HSET", "HSETNX"}, "int") \cup Rows({"HMGET"}, "arrayOrNil")
    \cup Rows({"HMSET"}, "bytes") \cup Rows({"HVALS"}, "array")
    \cup Rows({"HSCAN"}, "page")

Lists1 ==
  Rows({"BLPOP", "BRPOP"}, "arrayOrNil")
    \cup Rows({"BRPOPLPUSH", "LINDEX", "LPOP"}, "bytesOrNil")
    \cup Rows({"LINSERT", "LLEN", "LPUSH"}, "int")

Lists2 ==
  Rows({"LPUSHX", "LREM", "RPUSH", "RPUSHX"}, "int") \cup Rows({"LRANGE"}, "array")
    \cup Rows({"LSET", "LTRIM"}, "bytes") \cup Rows({"RPOP", "RPOPLPUSH"}, "bytesOrNil")

SortedSets1 ==
  {Row("ZADDSpec", "ZADD", "int")}
    \cup Rows({"ZADD", "ZCARD", "ZCOUNT", "ZINTERSTORE"}, "int")
    \cup Rows({"ZINCRBY"}, "bytes")
    \cup {Row("ZRANGE", "ZRANGE", "array"),
          Row("ZRANGE_withscores", "ZRANGE", "arrayUnchecked")}

SortedSets2 ==
  Rows({"ZRANGEBYSCORE", "ZREVRANGEBYSCORE"}, "array") \cup Rows({"ZRANK"}, "rank")
    \cup Rows({"ZREM", "ZREMRANGEBYRANK", "ZREMRANGEBYSCORE"}, "int")
    \cup {Row("ZREVRANGE", "ZREVRANGE", "array"),
          Row("ZREVRANGE_withscores", "ZREVRANGE", "arrayUnchecked")}

SortedSets3 ==
  Rows({"ZREVRANK"}, "rank") \cup Rows({"ZSCORE"}, "bytesOrNil")
    \cup Rows({"ZUNIONSTORE"}, "int") \cup Rows({"ZSCAN"}, "page")

HyperLogLog == Rows({"PFADD", "PFCOUNT"}, "int") \cup Rows({"PFMERGE"}, "bytes")

Scripting ==
  Rows({"EVAL", "EVALSHA"}, "any") \cup {Row("SCRIPTEXISTS", "SCRIPT_EXISTS", "array")}
    \cup {Row("SCRIPTFLUSH", "SCRIPT_FLUSH", "bytes"),
          Row("SCRIPTKILL", "SCRIPT_KILL", "bytes"),
          Row("SCRIPTLOAD", "SCRIPT_LOAD", "bytes")}

Methods ==
  UNION {Connections, Keys1, Keys2, Keys3, Sets1, Sets2, Strings1, Strings2, Strings3,
         Hashes1, Hashes2, Lists1, Lists2, SortedSets1, SortedSets2, SortedSets3,
         HyperLogLog, Scripting}

-----------------------------------------------------------------------------
\* What the server may answer, by command, when it does not answer an error.
\* A bulk null is "nil", an array null is "null"; "holes" has null elements,
\* "page" is a cursor and an array.
Replies(wire) ==
  CASE wire \in {"AUTH", "RENAME", "RESTORE", "SELECT", "SET", "MSET", "PSETEX", "SETEX",
                 "HMSET", "LSET", "LTRIM", "PFMERGE", "SCRIPT_FLUSH", "SCRIPT_KILL"} -> {"ok"}
    [] wire = "PING" -> {"pong"}
    [] wire = "MIGRATE" -> {"ok", "bytes"}
    [] wire \in {"INFO", "TYPE", "INCRBYFLOAT", "GETRANGE", "HINCRBYFLOAT", "ZINCRBY",
                 "SCRIPT_LOAD"} -> {"bytes"}
    [] wire \in {"DUMP", "RANDOMKEY", "SPOP", "SRANDMEMBER", "GET", "GETSET", "HGET",
                 "LINDEX", "LPOP", "RPOP", "RPOPLPUSH", "ZSCORE"} -> {"bytes", "nil"}
    [] wire = "OBJECT" -> {"int", "bytes", "nil"}
    [] wire \in {"ZRANK", "ZREVRANK"} -> {"int", "nil"}
    [] wire = "BRPOPLPUSH" -> {"bytes", "null"}
    [] wire \in {"BLPOP", "BRPOP"} -> {"list", "null"}
    [] wire \in {"KEYS", "SMEMBERS", "SINTER", "SDIFF", "SUNION", "SRANDMEMBER_count",
                 "HGETALL", "HKEYS", "HVALS", "LRANGE", "ZRANGE", "ZREVRANGE",
                 "ZRANGEBYSCORE", "ZREVRANGEBYSCORE"} -> {"list", "empty"}
    [] wire \in {"MGET", "HMGET"} -> {"list", "holes"}
    [] wire \in {"SCAN", "SSCAN", "HSCAN", "ZSCAN"} -> {"page"}
    [] wire = "SCRIPT_EXISTS" -> {"ints"}
    [] wire \in {"EVAL", "EVALSHA"} -> {"ok", "bytes", "int", "nil", "list", "empty", "ints"}
    [] OTHER -> {"int"}

Bytes == {"ok", "pong", "bytes"}
Lists == {"list", "empty", "null"}
Arrays == Lists \cup {"holes", "ints", "page"}

\* A checked type assertion, and one that is not checked.
TypeAssert(reply, type) == IF reply \in type THEN "value" ELSE "typeError"
Assume(reply, type) == IF reply \in type THEN "value" ELSE "panic"
OrNil(reply, result) == IF reply = "nil" THEN "notExist" ELSE result

\* A slice of byte slices: the elements are not checked.
Members(reply) ==
  IF reply \in Arrays THEN Assume(reply, Lists) ELSE "typeError"

\* Mutant of Convert: nil is not told from a reply of another type.
ConvertNilLate(conv, reply) ==
  CASE conv = "int" -> TypeAssert(reply, {"int"})
    [] OTHER -> TypeAssert(reply, Bytes \cup Arrays)

\* From the reply to what the method returns.
Convert(conv, reply) ==
  CASE conv = "int"            -> TypeAssert(reply, {"int"})
    [] conv = "intUnchecked"   -> Assume(reply, {"int"})
    [] conv = "intOrBytes"     -> OrNil(reply, TypeAssert(reply, Bytes \cup {"int"}))
    [] conv = "rank"           -> IF reply = "int" THEN "value" ELSE "notExist"
    [] conv = "ok"             -> IF reply = "ok" THEN "value" ELSE IF reply \in Bytes THEN "refused"
                                  ELSE "typeError"
    [] conv = "pong"           -> "value"
    [] conv = "bytes"          -> TypeAssert(reply, Bytes)
    [] conv = "bytesOrNil"     -> OrNil(reply, TypeAssert(reply, Bytes))
    [] conv = "bytesUnchecked" -> Assume(reply, Bytes)
    [] conv = "members"        -> Members(reply)
    [] conv = "membersOrNil"   -> OrNil(reply, Members(reply))
    [] conv = "array"          -> TypeAssert(reply, Arrays)
    [] conv = "arrayOrNil"     -> OrNil(reply, TypeAssert(reply, Arrays))
    [] conv = "arrayUnchecked" -> Assume(reply, Arrays)
    [] conv = "map"            -> OrNil(reply, IF reply = "list" THEN "value" ELSE "notExist")
    [] conv = "page"           -> IF reply \in Arrays THEN Assume(reply, {"page"})
                                  ELSE "typeError"
    [] conv = "mset"           -> IF reply \in Arrays THEN "panic" ELSE "typeError"
    [] conv = "any"            -> "value"

-----------------------------------------------------------------------------
VARIABLES
  method,    \* the method being called
  tries,     \* attempts made
  execs,     \* times the server has executed the command
  lost,      \* of these, how often its reply did not arrive
  answer,    \* the reply that arrived
  outcome    \* what the method returned, "running" until it does

cmdVars == <<method, tries, execs, lost, answer, outcome>>

None == Row("none", "none", "none")

CmdInit ==
  /\ method = None
  /\ tries = 0
  /\ execs = 0
  /\ lost = 0
  /\ answer = "none"
  /\ outcome = "idle"

\* CallN makes RetryTimes attempts, Call one.
Attempts(m) == IF m \in Connections THEN 1 ELSE RetryTimes

\* One call; calls have nothing in common but the connections (RedisPool).
Begin(m, o) ==
  /\ outcome = "idle"
  /\ method' = m
  /\ outcome' = o
  /\ UNCHANGED <<tries, execs, lost, answer>>

\* The method is called; on a connection without error it goes to the server.
Start(m) == Begin(m, "running")

\* Call got no connection from the pool and carries its error.
NoConn(m) == Begin(m, "netError")

\* LINSERT, ZINTERSTORE and ZUNIONSTORE refuse bad arguments before the call;
\* EVAL and EVALSHA index past their arguments when there are more keys than
\* numkeys.
BadArgs(m) ==
  \/ m.name \in {"LINSERT", "ZINTERSTORE", "ZUNIONSTORE"} /\ Begin(m, "badArgs")
  \/ m.name \in {"EVAL", "EVALSHA"} /\ Begin(m, "panic")

\* The reply arrives, an error reply included, and is converted.
Arrives(reply) ==
  /\ outcome = "running"
  /\ reply \in Replies(method.wire) \cup {"error"}
  /\ tries' = tries + 1
  /\ execs' = execs + 1
  /\ answer' = reply
  /\ outcome' = IF reply = "error" THEN "error" ELSE Convert(method.conv, reply)
  /\ UNCHANGED <<method, lost>>

\* The connection fails, before or after the server has executed the command.
\* CallN takes another connection from the pool and tries again; it gives up
\* when attempts or connections run out.
Fails(executed) ==
  /\ outcome = "running"
  /\ tries' = tries + 1
  /\ execs' = IF executed THEN execs + 1 ELSE execs
  /\ lost' = IF executed THEN lost + 1 ELSE lost
  /\ \/ tries' < Attempts(method) /\ UNCHANGED outcome
     \/ outcome' = "netError"
  /\ UNCHANGED <<method, answer>>

Shapes == Bytes \cup Arrays \cup {"int", "nil", "error"}

CmdNext ==
  \/ \E m \in Methods : Start(m) \/ NoConn(m) \/ BadArgs(m)
  \/ \E reply \in Shapes : Arrives(reply)
  \/ \E executed \in BOOLEAN : Fails(executed)

CmdSpec == CmdInit /\ [][CmdNext]_cmdVars

-----------------------------------------------------------------------------
CmdTypeOK ==
  /\ method \in Methods \cup {None}
  /\ tries \in 0 .. RetryTimes
  /\ execs \in 0 .. tries
  /\ lost \in 0 .. execs
  /\ answer \in Shapes \cup {"none"}
  /\ outcome \in {"idle", "running", "value", "notExist", "typeError", "panic", "refused",
                  "error", "netError", "badArgs"}

\* Calls whose conversion does not fit the answer of the server: MSET expects an
\* array, SRANDMEMBER without count asserts bytes, and a pop that timed out is
\* an empty slice that is not nil.
Misread ==
  {<<"MSET", "ok">>, <<"SRANDMEMBER", "nil">>, <<"BLPOP", "null">>, <<"BRPOP", "null">>,
   <<"BRPOPLPUSH", "null">>}

Expected(m, reply) ==
  IF reply = "error" THEN "error"
  ELSE IF m.conv = "any" THEN "value"
  ELSE IF reply \in {"nil", "null"} \/ (m.name = "HGETALLMAP" /\ reply = "empty") THEN "notExist"
  ELSE IF m.name = "MIGRATE" /\ reply = "bytes" THEN "refused"
  ELSE "value"

\* Whatever the server answers, a method returns the value, ErrKeyNotExist for a
\* missing one, or the server's error, and never panics on a reply, except in
\* the listed cases.  What it reports fits what was executed: once for every
\* answer, again only after a reply was lost, at most RetryTimes times, and once
\* at most for AUTH, PING and INFO (commands.go, conn.go:142-172).
ConversionsTotal ==
  /\ (answer # "none" /\ <<method.name, answer>> \notin Misread) =>
       outcome = Expected(method, answer)
  /\ execs = lost + (IF answer = "none" THEN 0 ELSE 1)
  /\ execs <= Attempts(method)
  /\ outcome = "panic" => method.name \in {"EVAL", "EVALSHA", "SRANDMEMBER"}
=============================================================================
