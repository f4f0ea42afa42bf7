-------------------------------- MODULE Codec --------------------------------
(***************************************************************************)
(* The conversions at the edges of the server, each applied to one input   *)
(* and compared with what it is meant to compute: subject matching         *)
(* (NatsSubjects), Redis replies (RedisReplies), PostgreSQL parameters and *)
(* columns (PgValues), the RPC serializer (MsgPack), and messages between  *)
(* sender and handler (Messages).                                          *)
(***************************************************************************)
EXTENDS Integers, Sequences, SequencesExt

CONSTANTS Patterns, Subjects,   \* names over the characters a, ., * and >
          RedisTexts, RedisInts, \* what Redis answers with
          LuaValues,            \* parameters of SQL
          NativeArgs, LuaArgs,  \* arguments <<types, values>>, and Lua arguments
          Payloads,             \* the data of messages
          BlockBaseSize, Overhead, MaxFactor, BaseFactor, BLOCKSIZE, kDefaultBufferSize, HeaderSize, MetaSize

S == INSTANCE NatsSubjects
R == INSTANCE RedisReplies
P == INSTANCE PgValues
M == INSTANCE MsgPack
Q == INSTANCE Messages

----------------------------------------------------------------------------
(* The meaning of subjects and patterns, by tokens.                        *)

\* The tokens between dots.
Tokens(s) ==
    LET d == SetToSortSeq({0, Len(s) + 1} \cup {i \in DOMAIN s : s[i] = "."}, <) IN
    [k \in 1 .. Len(d) - 1 |-> SubSeq(s, d[k] + 1, d[k + 1] - 1)]

\* A subject has no empty token and no wildcard; in a pattern "*" is a token of
\* its own and ">" is the last one.
IsSubject(s) == \A k \in DOMAIN Tokens(s) :
    Tokens(s)[k] # <<>> /\ ~Contains(Tokens(s)[k], "*") /\ ~Contains(Tokens(s)[k], ">")
IsPattern(s) == LET t == Tokens(s) IN
    \A k \in DOMAIN t : /\ t[k] # <<>>
                        /\ Contains(t[k], "*") => Len(t[k]) = 1
                        /\ Contains(t[k], ">") => Len(t[k]) = 1 /\ k = Len(t)

ValidPatterns == {q \in Patterns : IsPattern(q)}
ValidSubjects == {q \in Subjects : IsSubject(q)}

Matches(p, s) ==
    LET a == Tokens(p)
        b == Tokens(s)
        Same(n) == \A k \in 1 .. n : a[k] \in {<<"*">>, b[k]}
    IN IF Last(a) = <<">">> THEN Len(b) >= Len(a) /\ Same(Len(a) - 1)
                            ELSE Len(b) = Len(a) /\ Same(Len(a))

----------------------------------------------------------------------------
(* What Redis answers to a command, and the reply that carries it in RESP2 *)
(* and in RESP3.                                                           *)

Scores == RedisInts
Lists  == {<<>>} \cup {<<a>> : a \in RedisTexts} \cup {<<a, b>> : a, b \in RedisTexts}
Ranked == {<<>>} \cup {<<<<a, d>>>> : a \in RedisTexts, d \in Scores}
          \cup {<<<<a, d>>, <<b, d + 1>>>> : a, b \in RedisTexts, d \in Scores}

Ints    == {<<"int", n>> : n \in RedisInts}
Absent  == <<"absent", 0>>     \* no such key, field or member
Strs    == {<<"str", s>> : s \in RedisTexts} \cup {Absent}
AnswersTo(cmd) ==
    {<<"error", R!Text("ERR")>>} \cup
    (CASE cmd \in {"Set", "SetEx", "Ping"}          -> {<<"ok", 0>>}
       [] cmd \in {"Get", "HGet", "LPop", "RPop"}   -> Strs
       [] cmd \in {"HKeys", "HVals"}                -> {<<"list", l>> : l \in Lists}
       [] cmd \in R!ZRanges   \* without and with WITHSCORES
            -> {<<"list", l>> : l \in Lists} \cup {<<"ranked", l>> : l \in Ranked}
       [] cmd \in R!ZPairs                          -> {<<"ranked", l>> : l \in Ranked}
       [] cmd = "ZIncrBy"                           -> {<<"score", d>> : d \in Scores}
       [] cmd = "ZScore"                            -> {<<"score", d>> : d \in Scores} \cup {Absent}
       [] cmd \in R!ZRanks                          -> Ints \cup {Absent}
       [] OTHER                                     -> Ints)

Str(s) == [type |-> "STRING", v |-> s]
Reply(resp, a) ==
    CASE a[1] = "error"  -> [type |-> "ERROR", v |-> a[2]]
      [] a[1] = "ok"     -> [type |-> "STATUS", v |-> R!Text("OK")]
      [] a[1] = "absent" -> [type |-> "NIL"]
      [] a[1] = "str"    -> Str(a[2])
      [] a[1] = "int"    -> [type |-> "INTEGER", v |-> a[2]]
      [] a[1] = "list"   -> [type |-> "ARRAY", v |-> [i \in DOMAIN a[2] |-> Str(a[2][i])]]
      [] a[1] = "score"  -> IF resp = 3 THEN [type |-> "DOUBLE", v |-> a[2]] ELSE Str(R!Numeral(a[2], "int"))
      [] a[1] = "ranked" /\ resp = 3 ->
            [type |-> "ARRAY",
             v |-> [i \in DOMAIN a[2] |->
                      [type |-> "ARRAY", v |-> <<Str(a[2][i][1]), [type |-> "DOUBLE", v |-> a[2][i][2]]>>]]]
      [] a[1] = "ranked" /\ resp = 2 ->
            [type |-> "ARRAY",
             v |-> FlattenSeq([i \in DOMAIN a[2] |-> <<Str(a[2][i][1]), Str(R!Numeral(a[2][i][2], "int"))>>])]

\* The strings of a range with its scores: each member and its score, as Redis
\* writes it in RESP2 and as std::to_string writes the double of RESP3.
WithScores(resp, a) ==
    FlattenSeq([i \in DOMAIN a[2] |-> <<a[2][i][1], R!Numeral(a[2][i][2], IF resp = 3 THEN "double" ELSE "int")>>])

\* What the answer means to the callback of the command.  A member that is absent
\* has rank 0, as the first has, and score 0.
Meaning(cmd, a, resp) ==
    CASE a[1] = "ok"     -> IF cmd = "Ping" THEN R!CbBool(TRUE) ELSE R!Nothing
      [] a[1] = "absent" -> CASE cmd \in R!ZRanks -> R!CbInt(0)
                              [] cmd = "ZScore"   -> R!CbDouble(0)
                              [] OTHER            -> R!CbStr(R!Empty)
      [] a[1] = "str"    -> R!CbStr(a[2])
      [] a[1] = "int"    -> IF cmd \in {"Exists", "Expire"} THEN R!CbBool(a[2] > 0) ELSE R!CbInt(a[2])
      [] a[1] = "list"   -> R!CbStrs(a[2])
      [] a[1] = "score"  -> R!CbDouble(a[2])
      [] a[1] = "ranked" -> IF cmd \in R!ZRanges THEN R!CbStrs(WithScores(resp, a)) ELSE R!CbPairs(a[2])

Typed == R!Commands \ R!CallCommands

----------------------------------------------------------------------------
(* Which arguments survive the serializer.                                 *)

Minus32 == M!SignFill(<<224>>)

RECURSIVE Native(_, _)
Native(t, v) ==
    CASE t[1] = "string" -> Len(v) <= 255
      [] t[1] = "bin"    -> Len(v) <= 254
      [] t[1] = "vector" -> Len(v) <= 15 /\ \A i \in DOMAIN v : Native(t[2], v[i])
      [] t[1] = "map"    -> Len(v) <= 15 /\ \A i \in DOMAIN v : Native(t[2], v[i][1]) /\ Native(t[3], v[i][2])
      [] OTHER           -> TRUE

RECURSIVE InLua(_)
InLua(x) ==
    CASE x[1] = "integer" -> x[2] # Minus32
      [] x[1] = "number"  -> x[2][1] = "frac"
      [] x[1] = "string"  -> Len(x[2]) <= 255
      [] x[1] = "table"   -> \A i \in DOMAIN x[2] : InLua(x[2][i][1]) /\ InLua(x[2][i][2])
      [] OTHER            -> TRUE

----------------------------------------------------------------------------
VARIABLES input,    \* <<kind, argument, ...>>
          output,   \* what the code computes from it
          done

codecVars == <<input, output, done>>

\* Where the blocks of a received message meet, up to the end of the longest.
Cuts == 0 .. HeaderSize + MetaSize + 8

\* The results of up to three statements of which the last may fail.
CommandResult(n) == [status |-> "COMMAND_OK", tuples |-> P!Integral(n)]
CommandError     == [status |-> "FATAL_ERROR", tuples |-> P!Integral(0)]
CommandResults ==
    LET good == UNION {[1 .. k -> {CommandResult(n) : n \in 0 .. 2}] : k \in 0 .. 2}
    IN  (good \ {<<>>}) \cup {Append(g, CommandError) : g \in good}

Inputs ==
    {<<"message", "heartbeat", "None", <<>>, cut>> : cut \in 0 .. HeaderSize}
    \cup {<<"subject", p, s>> : p \in ValidPatterns, s \in ValidSubjects}
    \cup UNION {{<<"reply", cmd, a, resp>> : a \in AnswersTo(cmd), resp \in {2, 3}} : cmd \in Typed}
    \cup {<<"column", x>> : x \in LuaValues}
    \cup {<<"command", rs>> : rs \in CommandResults}
    \cup {<<"native", a>> : a \in NativeArgs}
    \cup {<<"lua", a>> : a \in LuaArgs}
    \cup {<<"message", h, c, d, cut>> : h \in {"message", "luamessage", "bytes", "reply", "call", "lua", "callproto"},
                                        c \in Q!C!CompressTypes, d \in Payloads, cut \in Cuts}

CodecInit == input \in Inputs /\ output = <<>> /\ done = FALSE

Yields(kind, o) == ~done /\ input[1] = kind /\ output' = o /\ done' = TRUE /\ UNCHANGED input

\* OnNatsSubMsg looks for the subscriptions of a subject.
MatchSubject == Yields("subject", <<S!MatchSub(input[2], input[3])>>)

\* A command's callback in C++, its callback in Lua, its coroutine, and what the
\* accessors make of the value.
ReceiveReply ==
    LET v == R!FromReply(Reply(input[4], input[3]))
    IN  Yields("reply", <<R!Async(input[2], v), R!Lua(input[2], v), R!Co(input[2], v),
                          <<R!as_bool(v), R!as_str_array(v), R!as_pairs(v)>>>>)

\* SELECT $1 with a column of the parameter's type.
Oid(x) == CASE x[1] = "boolean" -> 16 [] x[1] = "integer" -> 20 [] x[1] = "number" -> 701 [] OTHER -> 25
SelectParam ==
    LET x == input[2]
        Row(ts) == P!CollectResults(<<[status |-> "TUPLES_OK",
                                       rows |-> <<<<[name |-> "p", oid |-> Oid(x), text |-> ts[1]]>>>>]>>)
        ps == <<P!LuaValueToDbValue(x)>>
    IN  Yields("column", <<P!LuaQuery(Row(P!QueryParams(ps))), P!LuaQuery(Row(P!AsyncQueryParams(ps)))>>)

\* A command of several statements is answered by a result of each, up to the
\* first that fails.
RunCommand ==
    LET r == P!CollectResults(input[2])
    IN  Yields("command", [count |-> P!ExecuteResult(r),
                           plain |-> P!LuaExecute(r, FALSE), params |-> P!LuaExecute(r, TRUE),
                           begin |-> P!LuaBegin(r), commit |-> P!LuaCommit(r), rollback |-> P!LuaRollback(r)])

\* An argument list is packed by the caller and unpacked by the callee.
SendNative == Yields("native", <<M!unpack(input[2][1], M!pack(input[2][1], input[2][2]))>>)
SendLua    == Yields("lua", <<M!unpack_args(M!pack_args(input[2]))>>)

\* A message is sent, received in two blocks and handled: output holds the
\* buffers on the way.
SendMessage ==
    /\ ~done /\ input[1] = "message" /\ output = <<>>
    /\ output' = <<Q!Sent(input[2], input[3], input[4])>>
    /\ UNCHANGED <<input, done>>
ReceiveMessage ==
    /\ ~done /\ input[1] = "message" /\ Len(output) = 1
    /\ output' = Append(output, Q!Received(output[1], input[5]))
    /\ UNCHANGED <<input, done>>
HandleMessage ==
    /\ input[1] = "message" /\ Len(output) = 2
    /\ Yields("message", <<Q!Delivered(input[2], output[1], output[2])>>)

CodecNext == MatchSubject \/ ReceiveReply \/ SelectParam \/ RunCommand \/ SendNative \/ SendLua \/ SendMessage \/ ReceiveMessage \/ HandleMessage

CodecSpec == CodecInit /\ [][CodecNext]_codecVars

----------------------------------------------------------------------------
Done(kind) == done /\ input[1] = kind

\* NatsWildcardMatch walks characters; it decides as the comparison of tokens
\* does, for every valid pattern and subject (nats_manager.cpp:33).
SubjectMatchExact == Done("subject") => output[1] = Matches(input[2], input[3])

\* A command's callback gets what Redis answered, in RESP2 and in RESP3 alike but
\* for the scores in a range, which keep the form they came in, and an error
\* exactly for an error; the answer that there is no such member reads as rank
\* or score 0, so a caller cannot tell it from the first rank (ToInt, ToDouble:
\* redis_connection.cpp:95, 111).  So does the Lua callback, except that Expire
\* passes no value and Exists always passes true.  A coroutine gets the
\* value alone, and from Set whether there was an error.  The accessors of the
\* value read lists, the pairs of RESP2 and integers as ToStrArray, ToPairs and
\* ToInt do (redis_connection.cpp:70, redis_value.cpp:92, register_redis.cpp:272).
RepliesExact ==
    Done("reply") =>
      LET cmd == input[2]
          a   == input[3]
          cb  == output[1]
          lua == output[2]
          co  == output[3]
          acc == output[4]
          meant == Meaning(cmd, a, input[4])
      IN /\ (cb.err # R!NoErr) = (a[1] = "error") /\ (lua[1] # R!NoErr) = (a[1] = "error")
         /\ a[1] # "error" => /\ cb.val = meant
                              /\ cmd \notin {"Exists", "Expire"} => lua[2] = meant
         /\ co = (IF cmd \in {"Set", "SetEx"} THEN R!CbBool(a[1] # "error")
                  ELSE IF a[1] # "error" THEN meant ELSE cb.val)
         /\ a[1] = "int"  => acc[1] = (a[2] # 0)
         /\ a[1] = "list" => acc[2] = a[2]
         /\ a[1] = "ranked" /\ input[4] = 2 => acc[3] = a[2]

\* A parameter comes back from its column as the Lua value it was; a number that
\* is no integer within half a unit of the sixth decimal (pg_connection.cpp:312).
\* Of the statements of a command the last that succeeded gives the count, and a
\* failure is reported exactly when none did (pg_connection.cpp:141), by Begin,
\* Commit, Rollback and pg.AsyncExecute with parameters.  Without parameters
\* AsyncExecute passes its Lua function no error (register_postgresql.cpp:424): a
\* success reports none, and nothing is claimed of a failure.
SqlComesBack ==
    /\ Done("column") =>
         LET x == input[2]
             Same(y) == IF x[1] = "number" THEN y[1] = "number" /\ y[2] - x[2] \in -5 .. 5 ELSE y = x
         IN  \A i \in 1 .. 2 : Same(output[i][2][2][1]["p"])
    /\ Done("command") =>
         LET good  == {i \in DOMAIN input[2] : input[2][i].status = "COMMAND_OK"}
             ok    == good # {}
             count == IF ok THEN input[2][CHOOSE i \in good : \A k \in good : k <= i].tuples[2] ELSE 0
             err   == IF ok THEN "" ELSE "error"
         IN  /\ output.count = count /\ output.params = <<err, count>>
             /\ output.begin = <<err, ok>> /\ output.commit = <<err, ok>> /\ output.rollback = <<err, ok>>
             /\ output.plain[2] = count
             /\ ok => output.plain[1] = ""

\* A C++ argument list is read back as it was packed exactly when it holds no
\* string above 255, no binary above 254 and no container above 15 items: the
\* unpacker reads the longer lengths as 8 bytes (msgpack.hpp:1034, 1590).  A Lua
\* argument list is exactly when no string is above 255, no number is a float of
\* integral value, and no integer is -32, the byte of format_t::table
\* (msgpack.hpp:118, 1147).
ArgsComeBack ==
    /\ Done("native") =>
         LET ts == input[2][1]
             vs == input[2][2]
         IN (output[1] = [vs |-> vs, ec |-> FALSE]) = (\A i \in DOMAIN vs : Native(ts[i], vs[i]))
    /\ Done("lua") =>
         (output[1] = [vs |-> input[2], ec |-> FALSE]) = (\A i \in DOMAIN input[2] : InLua(input[2][i]))

\* What a handler gets is what was sent, however header, meta and data fall into
\* blocks and whatever the compression, except when the meta lies in two received
\* blocks (message_meta.h:45), when bytes are compressed with LZ4, whose last
\* bytes are not written when they are copied (session.cpp:168), and when a
\* compressed protobuf argument of a request is parsed as it stands
\* (rpc_function.hpp:74).  All blocks return to the pool.
MessageComesBack ==
    Done("message") =>
      LET how  == input[2]
          c    == input[3]
          data == input[4]
          j    == output[1]
          bare == how \in {"call", "lua", "callproto"} /\ data = <<>>
          metaSplit == input[5] > HeaderSize /\ input[5] < HeaderSize + MetaSize
          unwritten == c = "LZ4" /\ how \in {"bytes", "reply", "call", "lua"} /\ ~bare
          unread    == c # "None" /\ how = "callproto" /\ ~bare
      IN  /\ (j.got = data) = ~(metaSplit \/ unwritten \/ unread)
          /\ j.skips /\ j.returned
=============================================================================
