----------------------------- MODULE SnapshotMC -----------------------------
(* A dump with a key of every type, chunked containers and a slot key.     *)
EXTENDS Snapshot

MCFiles == <<"info", "CURRENT", "sst">>
MCChunks == [info |-> 1, CURRENT |-> 1, sst |-> 2]

Entry(k, v, ttl) == [key |-> k, content |-> v, ttl |-> ttl]
MCDb ==
  [string |-> <<Entry("slot", "x", 0), Entry("str", "v1", 0)>>,
   list   |-> <<Entry("list", <<"p", "q", "r">>, 60)>>,
   hash   |-> <<Entry("user", <<<<"name", "n1">>, <<"age", "a1">>, <<"zip", "z1">>>>, 0)>>,
   set    |-> <<Entry("set", <<"m1", "m2">>, 0)>>,
   zset   |-> <<Entry("zset", <<<<"m1", 13>>, <<"m2", 20>>>>, 0)>>]
MCKeys == {"str", "list", "user", "set", "zset"}

V35(strings, hashes) ==
  [e \in {"strings", "hashes", "lists", "zsets", "sets", "streams", "0", "1", "2"} |->
     CASE e \in {"0", "1", "2"} -> "absent" [] e = "strings" -> strings
       [] e = "hashes" -> hashes [] OTHER -> "db"]
V40(kv) ==
  [e \in {"strings", "hashes", "lists", "zsets", "sets", "streams", "0", "1", "2"} |->
     IF e \in {"0", "1", "2"} THEN kv ELSE "absent"]
MCLayouts == {V35("empty", "db"), V35("db", "nocurrent"), V40("db")}

Cmd(c, k, a) == [cmd |-> c, key |-> k, args |-> a]
MCCommands ==
  <<Cmd("SET", "str", <<"v2">>), Cmd("DEL", "str", <<>>), Cmd("DEL", "user", <<>>),
    Cmd("HMSET", "user", <<<<"age", "a2">>>>), Cmd("RPUSH", "list", <<"s">>),
    Cmd("LPOP", "list", <<>>), Cmd("RPOP", "list", <<>>), Cmd("SADD", "set", <<"m3">>),
    Cmd("SREM", "set", <<"m1">>), Cmd("ZADD", "zset", <<<<Shortest(47), "m1">>>>),
    Cmd("ZREM", "zset", <<"m1">>), Cmd("EXPIRE", "user", <<60>>)>>

MCKeyParts == [str |-> <<"s:", "1">>, user |-> <<"user:", "7", ":p">>, list |-> <<"l">>,
               set |-> <<"set">>, zset |-> <<"z">>]
MCRules ==
  <<[types |-> {"hash"}, pattern |-> <<[lit |-> "user:"], [field |-> "uid"], [lit |-> ":p"]>>,
     table |-> "users", pk |-> {"uid"}, fields |-> [name |-> "cname", age |-> "cage"],
     valueColumn |-> "value", delete |-> "row"],
    [types |-> {"string"}, pattern |-> <<[lit |-> "s:"], [field |-> "sid"]>>, table |-> "strs",
     pk |-> {"sid"}, fields |-> <<>>, valueColumn |-> "value", delete |-> "row"]>>
MCTarget ==
  [user |-> [id |-> <<"users", [uid |-> <<"7">>]>>, cols |-> [cname |-> "name", cage |-> "age"]],
   str |-> [id |-> <<"strs", [sid |-> <<"1">>]>>, cols |-> [value |-> ""]]]

=============================================================================
