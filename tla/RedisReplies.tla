---------------------------- MODULE RedisReplies ----------------------------
(***************************************************************************)
(* What a Redis reply becomes on its way to a caller (src/db/redis): the   *)
(* reply of hiredis is copied into a RedisValue (FromReply), each AsyncXxx *)
(* converts it for its callback, each CoXxx for its coroutine and each     *)
(* redis.AsyncXxx of Lua for a Lua function.                               *)
(*                                                                         *)
(* A string is empty, a text, or the numeral of a number, printed from an  *)
(* integer or from a double ("7" or "7.000000"); doubles are integers.     *)
(* A command is named by what follows Async, Co or redis.Async.            *)
(***************************************************************************)
EXTENDS Integers, Sequences, SequencesExt

Empty            == <<"empty", 0>>
Text(x)          == <<"text", x>>
Numeral(n, form) == <<form, n>>             \* form: "int" or "double"

\* strtoll and strtod: the number at the front of the string, or 0.
SafeStoll(s) == IF s[1] \in {"int", "double"} THEN s[2] ELSE 0
SafeStod(s)  == IF s[1] \in {"int", "double"} THEN s[2] ELSE 0

----------------------------------------------------------------------------
(* RedisValue.                                                             *)

MakeNil      == [type |-> "Nil"]
MakeBool(b)  == [type |-> "Bool", v |-> b]
MakeInt(n)   == [type |-> "Int", v |-> n]
MakeDouble(d) == [type |-> "Double", v |-> d]
MakeStr(s)   == [type |-> "Str", v |-> s]
MakeArray(a) == [type |-> "Array", v |-> a]
MakeMap(m)   == [type |-> "Map", v |-> m]
MakeError(s) == [type |-> "Error", v |-> s]

as_str(v) ==
    CASE v.type = "Str"    -> v.v
      [] v.type = "Int"    -> Numeral(v.v, "int")
      [] v.type = "Double" -> Numeral(v.v, "double")
      [] v.type = "Bool"   -> Numeral(IF v.v THEN 1 ELSE 0, "int")
      [] OTHER             -> Empty

as_int(v) ==
    CASE v.type \in {"Int", "Double"} -> v.v
      [] v.type = "Bool"   -> IF v.v THEN 1 ELSE 0
      [] v.type = "Str"    -> SafeStoll(v.v)
      [] OTHER             -> 0

\* A Bool is not converted: it is logged as an error.
as_double(v) ==
    CASE v.type \in {"Double", "Int"} -> v.v
      [] v.type = "Str"    -> SafeStod(v.v)
      [] OTHER             -> 0

as_bool(v) ==
    CASE v.type = "Bool"   -> v.v
      [] v.type = "Int"    -> v.v # 0
      [] v.type = "Str"    -> v.v \in {Numeral(1, "int"), Text("true")}
      [] OTHER             -> FALSE

as_str_array(v) ==
    IF v.type # "Array" THEN <<>>
    ELSE [i \in DOMAIN v.v |-> CASE v.v[i].type = "Str" -> v.v[i].v
                                 [] v.v[i].type = "Int" -> Numeral(v.v[i].v, "int")
                                 [] OTHER               -> Empty]

as_pairs(v) ==
    IF v.type # "Array" THEN <<>>
    ELSE [i \in 1 .. Len(v.v) \div 2 |-> <<as_str(v.v[2 * i - 1]), SafeStod(as_str(v.v[2 * i]))>>]

RECURSIVE FromReply(_)

\* The members of a reply are copied in order; those of a map two by two, with
\* the text of the first as key.  A key with neither is empty.
FromReply(r) ==
    CASE r.type = "NIL"      -> MakeNil
      [] r.type = "INTEGER"  -> MakeInt(r.v)
      [] r.type = "DOUBLE"   -> MakeDouble(r.v)
      [] r.type = "BOOL"     -> MakeBool(r.v # 0)
      [] r.type \in {"STRING", "STATUS", "VERB", "BIGNUM"} -> MakeStr(r.v)
      [] r.type = "ERROR"    -> MakeError(r.v)
      [] r.type \in {"ARRAY", "SET", "PUSH"} -> MakeArray([i \in DOMAIN r.v |-> FromReply(r.v[i])])
      [] r.type \in {"MAP", "ATTR"} ->
            MakeMap([i \in 1 .. Len(r.v) \div 2 |->
                       LET k == r.v[2 * i - 1] IN
                       <<CASE k.type \in {"STRING", "STATUS", "VERB", "BIGNUM", "ERROR"} -> k.v
                           [] k.type \in {"INTEGER", "DOUBLE"} -> Numeral(k.v, "int")
                           [] OTHER -> Empty,
                         FromReply(r.v[2 * i])>>])
      [] OTHER -> MakeNil

----------------------------------------------------------------------------
(* Conversions for the callbacks.                                          *)

StrOf(v) == IF v.type = "Nil" THEN Empty ELSE as_str(v)

\* One level of nesting is flattened.
ToStrArray(v) ==
    IF v.type # "Array" THEN <<>>
    ELSE FlattenSeq([i \in DOMAIN v.v |->
                       IF v.v[i].type = "Array" THEN [j \in DOMAIN v.v[i].v |-> StrOf(v.v[i].v[j])]
                                                ELSE <<StrOf(v.v[i])>>])

\* Mutant: the last pair of a flat reply is not taken.
ToPairs_Short(v) ==
    IF v.type # "Array" THEN <<>>
    ELSE IF v.v # <<>> /\ v.v[1].type = "Array"
    THEN [i \in DOMAIN v.v |-> <<as_str(v.v[i].v[1]), as_double(v.v[i].v[2])>>]
    ELSE [i \in 1 .. (Len(v.v) - 1) \div 2 |-> <<as_str(v.v[2 * i - 1]), SafeStod(as_str(v.v[2 * i]))>>]

\* RESP3 nests the pairs, RESP2 does not.
ToPairs(v) ==
    IF v.type # "Array" THEN <<>>
    ELSE IF v.v # <<>> /\ v.v[1].type = "Array"
    THEN LET pairs == SelectSeq(v.v, LAMBDA e : e.type = "Array" /\ Len(e.v) >= 2)
         IN  [i \in DOMAIN pairs |-> <<as_str(pairs[i].v[1]), as_double(pairs[i].v[2])>>]
    ELSE [i \in 1 .. Len(v.v) \div 2 |-> <<as_str(v.v[2 * i - 1]), SafeStod(as_str(v.v[2 * i]))>>]

ToInt(v)    == IF v.type \in {"Nil", "Array", "Map", "Error"} THEN 0 ELSE as_int(v)
ToDouble(v) == IF v.type = "Bool" THEN (IF v.v THEN 1 ELSE 0) ELSE as_double(v)
ToStr(v) == StrOf(v)

\* What a callback gets: an error (NoErr if none) and a value with its type.
NoErr       == Empty
Nothing     == <<"none", 0>>
CbStr(s)    == <<"str", s>>
CbInt(n)    == <<"int", n>>
CbDouble(d) == <<"double", d>>
CbBool(b)   == <<"bool", b>>
CbStrs(a)   == <<"strs", a>>
CbPairs(a)  == <<"pairs", a>>

Called(v, val, dflt) ==
    IF v.type = "Error" THEN [err |-> v.v, val |-> dflt] ELSE [err |-> NoErr, val |-> val]

KvAsync(cmd, v) ==
    CASE cmd \in {"Set", "SetEx"}          -> Called(v, Nothing, Nothing)
      [] cmd = "Get"                       -> Called(v, CbStr(ToStr(v)), CbStr(Empty))
      [] cmd \in {"Del", "Incr", "IncrBy"} -> Called(v, CbInt(ToInt(v)), CbInt(0))
      [] cmd = "Exists"                    -> Called(v, CbBool(ToInt(v) > 0), CbBool(FALSE))

HashAsync(cmd, v) ==
    CASE cmd \in {"HSet", "HDel", "HLen"}  -> Called(v, CbInt(ToInt(v)), CbInt(0))
      [] cmd = "HGet"                      -> Called(v, CbStr(ToStr(v)), CbStr(Empty))
      [] cmd \in {"HKeys", "HVals"}        -> Called(v, CbStrs(ToStrArray(v)), CbStrs(<<>>))

ListAsync(cmd, v) ==
    CASE cmd \in {"LPush", "RPush", "LLen"} -> Called(v, CbInt(ToInt(v)), CbInt(0))
      [] cmd \in {"LPop", "RPop"}           -> Called(v, CbStr(ToStr(v)), CbStr(Empty))

ZCounts == {"ZAdd", "ZCard", "ZRem", "ZCount", "ZRemRangeByRank", "ZRemRangeByScore"}
ZRanks  == {"ZRank", "ZRevRank"}
ZRanges == {"ZRange", "ZRevRange", "ZRangeByScore", "ZRevRangeByScore"}
ZPairs  == {"ZRangeWithScores", "ZRevRangeWithScores"}

\* A rank that is absent (nil) is 0, as the first rank is.
ZSetAsync(cmd, v) ==
    CASE cmd \in ZCounts  -> Called(v, CbInt(ToInt(v)), CbInt(0))
      [] cmd \in ZRanks   -> Called(v, CbInt(ToInt(v)), CbInt(-1))
      [] cmd = "ZScore"   -> Called(v, CbDouble(ToDouble(v)), CbDouble(-1))
      [] cmd = "ZIncrBy"  -> Called(v, CbDouble(ToDouble(v)), CbDouble(0))
      [] cmd \in ZRanges  -> Called(v, CbStrs(ToStrArray(v)), CbStrs(<<>>))
      [] cmd \in ZPairs   -> Called(v, CbPairs(ToPairs(v)), CbPairs(<<>>))

KeyAsync(cmd, v) ==
    CASE cmd = "Expire" -> Called(v, CbBool(ToInt(v) > 0), CbBool(FALSE))
      [] cmd = "TTL"    -> Called(v, CbInt(ToInt(v)), CbInt(-2))
      [] cmd = "Ping"   -> Called(v, CbBool(TRUE), CbBool(FALSE))

\* AsyncCall and AsyncEval pass the value itself.
CallAsync(v) == Called(v, <<"value", v>>, <<"value", v>>)

KvCommands   == {"Set", "SetEx", "Get", "Del", "Incr", "IncrBy", "Exists"}
HashCommands == {"HSet", "HDel", "HLen", "HGet", "HKeys", "HVals"}
ListCommands == {"LPush", "RPush", "LLen", "LPop", "RPop"}
ZCommands    == ZCounts \cup ZRanks \cup ZRanges \cup ZPairs \cup {"ZScore", "ZIncrBy"}
KeyCommands  == {"Expire", "TTL", "Ping"}
CallCommands == {"Call", "Eval"}
Commands     == KvCommands \cup HashCommands \cup ListCommands \cup ZCommands \cup KeyCommands \cup CallCommands

Async(cmd, v) ==
    CASE cmd \in KvCommands   -> KvAsync(cmd, v)
      [] cmd \in HashCommands -> HashAsync(cmd, v)
      [] cmd \in ListCommands -> ListAsync(cmd, v)
      [] cmd \in ZCommands    -> ZSetAsync(cmd, v)
      [] cmd \in KeyCommands  -> KeyAsync(cmd, v)
      [] cmd \in CallCommands -> CallAsync(v)

----------------------------------------------------------------------------
(* Coroutines: the value alone, or for a command without one whether there *)
(* was no error.                                                           *)

CbToLazy(e) == IF e.val = Nothing THEN CbBool(e.err = NoErr) ELSE e.val

CoKv(cmd, v)   == CbToLazy(KvAsync(cmd, v))
CoHash(cmd, v) == CbToLazy(HashAsync(cmd, v))
CoList(cmd, v) == CbToLazy(ListAsync(cmd, v))
CoZSet(cmd, v) == CbToLazy(ZSetAsync(cmd, v))
CoKey(cmd, v)  == CbToLazy(KeyAsync(cmd, v))

Co(cmd, v) ==
    CASE cmd \in KvCommands   -> CoKv(cmd, v)
      [] cmd \in HashCommands -> CoHash(cmd, v)
      [] cmd \in ListCommands -> CoList(cmd, v)
      [] cmd \in ZCommands    -> CoZSet(cmd, v)
      [] cmd \in KeyCommands  -> CoKey(cmd, v)

----------------------------------------------------------------------------
(* Lua: LuaCbBridge and the functions registered as redis.AsyncXxx, as the *)
(* arguments <<err, value>> of the Lua callback.                           *)

LuaNil == <<"nil", 0>>

RECURSIVE RedisValueToLua(_)

\* An array of an even number of members, every other one a string, becomes a
\* table of member and score whatever the command was.
RedisValueToLua(v) ==
    CASE v.type \in {"Bool", "Int", "Double", "Str"} -> <<v.type, v.v>>
      [] v.type = "Array" ->
            IF Len(v.v) >= 2 /\ Len(v.v) % 2 = 0 /\ \A i \in 1 .. Len(v.v) \div 2 : v.v[2 * i - 1].type = "Str"
            THEN <<"pairs", [i \in 1 .. Len(v.v) \div 2 |-> <<as_str(v.v[2 * i - 1]), as_double(v.v[2 * i])>>]>>
            ELSE <<"table", [i \in DOMAIN v.v |-> RedisValueToLua(v.v[i])]>>
      [] v.type = "Map" -> <<"table", [i \in DOMAIN v.v |-> <<v.v[i][1], RedisValueToLua(v.v[i][2])>>]>>
      [] OTHER -> LuaNil

PostCb(e)       == <<e.err, e.val>>
PostCbStr(e)    == <<e.err, IF e.err # NoErr THEN CbStr(Empty) ELSE e.val>>
\* The value of the reply is not passed on.
PostCbBool(e)   == <<e.err, IF e.err # NoErr THEN CbStr(Empty) ELSE CbBool(TRUE)>>
PostCbStrVec(e) == <<e.err, IF e.err # NoErr THEN LuaNil ELSE e.val>>
PostCbDouble(e) == <<e.err, IF e.err # NoErr THEN CbDouble(-1) ELSE e.val>>
PostCbPairs(e)  == <<e.err, IF e.err # NoErr THEN LuaNil ELSE e.val>>
PostGeneric(e)  == <<e.err, IF e.err # NoErr THEN LuaNil ELSE RedisValueToLua(e.val[2])>>

LuaKv(cmd, v) ==
    LET e == KvAsync(cmd, v) IN
    CASE cmd = "Get" -> PostCbStr(e) [] cmd = "Exists" -> PostCbBool(e) [] OTHER -> PostCb(e)

LuaHash(cmd, v) ==
    LET e == HashAsync(cmd, v) IN
    CASE cmd = "HGet" -> PostCbStr(e) [] cmd \in {"HKeys", "HVals"} -> PostCbStrVec(e) [] OTHER -> PostCb(e)

LuaList(cmd, v) ==
    LET e == ListAsync(cmd, v) IN
    IF cmd \in {"LPop", "RPop"} THEN PostCbStr(e) ELSE PostCb(e)

LuaZSet(cmd, v) ==
    LET e == ZSetAsync(cmd, v) IN
    CASE cmd \in ZRanges               -> PostCbStrVec(e)
      [] cmd \in {"ZScore", "ZIncrBy"} -> PostCbDouble(e)
      [] cmd \in ZPairs                -> PostCbPairs(e)
      [] OTHER                         -> PostCb(e)

LuaKey(cmd, v) ==
    LET e == KeyAsync(cmd, v) IN
    CASE cmd = "Expire" -> PostCb([e EXCEPT !.val = Nothing])
      [] cmd = "TTL"    -> PostCb(e)
      [] cmd = "Ping"   -> PostCbBool(e)

LuaCall(v) == PostGeneric(CallAsync(v))

Lua(cmd, v) ==
    CASE cmd \in KvCommands   -> LuaKv(cmd, v)
      [] cmd \in HashCommands -> LuaHash(cmd, v)
      [] cmd \in ListCommands -> LuaList(cmd, v)
      [] cmd \in ZCommands    -> LuaZSet(cmd, v)
      [] cmd \in KeyCommands  -> LuaKey(cmd, v)
      [] cmd \in CallCommands -> LuaCall(v)
=============================================================================
