------------------------------ MODULE PgValues ------------------------------
(***************************************************************************)
(* The values of a PostgreSQL query on their way from Lua to the server    *)
(* and back (src/db/postgres): LuaValueToDbValue, the text parameters of   *)
(* libpq, PGresult to DbResult, and DbResultToLua.                         *)
(*                                                                         *)
(* A text is a tuple: a numeral of an integer, one with six decimals (in   *)
(* units of 10^-6), or other characters.  A double is an integer in units  *)
(* of 10^-7, so that six decimals do not hold every one.                   *)
(***************************************************************************)
EXTENDS Integers, Sequences, SequencesExt

Chars(x)   == <<"chars", x>>
Integral(n) == <<"integral", n>>
Fixed(k)   == <<"fixed", k>>
NullText   == <<"null", 0>>

Null       == [type |-> "NULL_TYPE", v |-> 0]
Value(t, v) == [type |-> t, v |-> v]

----------------------------------------------------------------------------
(* Parameters.                                                             *)

\* A Lua value is its type and its content.  What is no nil, boolean, number or
\* string is printed with tostring.
LuaValueToDbValue(x) ==
    CASE x[1] = "nil"     -> Null
      [] x[1] = "boolean" -> Value("BOOL", x[2])
      [] x[1] = "integer" -> Value("INT64", x[2])
      [] x[1] = "number"  -> Value("DOUBLE", x[2])
      [] OTHER            -> Value("STRING", x[2])

Integers8To64 == {"INT8", "INT16", "INT32", "INT64", "UINT64"}

\* std::to_string of a double prints six decimals.
Rounded(d) == (d + 5) \div 10

\* Mutant: true and false are printed as numbers.
ParamText_Bool(v) ==
    CASE v.type = "NULL_TYPE"         -> NullText
      [] v.type = "BOOL"              -> IF v.v THEN Integral(1) ELSE Integral(0)
      [] v.type \in Integers8To64     -> Integral(v.v)
      [] v.type \in {"FLOAT", "DOUBLE"} -> Fixed(Rounded(v.v))
      [] OTHER                        -> v.v

\* The text of a parameter of Query(sql, params); the types that are stored as
\* tagged strings (NUMERIC, DATE, UUID, ...) become the empty text.
ParamText(v) ==
    CASE v.type = "NULL_TYPE"         -> NullText
      [] v.type = "BOOL"              -> IF v.v THEN Chars("t") ELSE Chars("f")
      [] v.type \in Integers8To64     -> Integral(v.v)
      [] v.type \in {"FLOAT", "DOUBLE"} -> Fixed(Rounded(v.v))
      [] v.type = "STRING"            -> v.v
      [] OTHER                        -> Chars("")

\* Query and AsyncQuery each convert their parameters in order.
QueryParams(ps)      == [i \in DOMAIN ps |-> ParamText(ps[i])]
AsyncQueryParams(ps) == [i \in DOMAIN ps |-> ParamText(ps[i])]

----------------------------------------------------------------------------
(* Results.                                                                *)

\* The number in a text (atoll, atof), in units of 1 and of 10^-7.
Atoll(t) == CASE t[1] = "integral" -> t[2] [] t[1] = "fixed" -> t[2] \div 1000000 [] OTHER -> 0
Atof(t)  == CASE t[1] = "integral" -> t[2] * 10000000 [] t[1] = "fixed" -> t[2] * 10 [] OTHER -> 0

ToDbValue(t, oid) ==
    CASE oid = 16            -> Value("BOOL", t = Chars("t"))
      [] oid \in {20, 21, 23} -> Value("INT64", Atoll(t))
      [] oid = 700           -> Value("FLOAT", Atof(t))
      [] oid = 701           -> Value("DOUBLE", Atof(t))
      [] OTHER               -> Value("STRING", t)

ErrorResult == [ok |-> FALSE, rows |-> <<>>, affected |-> 0]

\* A PGresult: its status, its rows of cells [name, oid, text], PQcmdTuples.
ParseResult(res) ==
    CASE res.status = "TUPLES_OK" ->
            [ok |-> TRUE, affected |-> 0,
             rows |-> [r \in DOMAIN res.rows |->
                         [c \in DOMAIN res.rows[r] |->
                            LET cell == res.rows[r][c] IN
                            <<cell.name, IF cell.text = NullText THEN Null ELSE ToDbValue(cell.text, cell.oid)>>]]]
      [] res.status = "COMMAND_OK" -> [ok |-> TRUE, affected |-> Atoll(res.tuples), rows |-> <<>>]
      [] OTHER -> ErrorResult

\* The loop over PQgetResult: the last result that is no error, or the last
\* error.  An error after a result is not reported.
CollectResults(rs) ==
    LET parsed == [i \in DOMAIN rs |-> ParseResult(rs[i])]
        good   == SelectSeq(parsed, LAMBDA r : r.ok) IN
    CASE good # <<>>   -> Last(good)
      [] parsed # <<>> -> Last(parsed)
      [] OTHER         -> ErrorResult

\* What Execute, Begin, Commit and Rollback make of it.  The coroutine forms of
\* the last three return nothing: a failure does not reach their caller.
ExecuteResult(r)      == IF r.ok THEN r.affected ELSE 0
BeginResult(r)        == "done"
CommitResult(r)       == "done"
RollbackResult(r)     == "done"
AsyncExecuteResult(r) == IF r.ok THEN r.affected ELSE 0
AsyncBeginOk(r)       == r.ok
AsyncCommitOk(r)      == r.ok
AsyncRollbackOk(r)    == r.ok

----------------------------------------------------------------------------
(* Lua.                                                                    *)

LuaNil == <<"nil", 0>>

DbValueToLua(v) ==
    CASE v.type = "NULL_TYPE" -> LuaNil
      [] v.type = "BOOL"      -> <<"boolean", v.v>>
      [] v.type \in Integers8To64 \ {"UINT64"} -> <<"integer", v.v>>
      [] v.type = "UINT64"    -> <<"number", v.v * 10000000>>
      [] v.type \in {"FLOAT", "DOUBLE"} -> <<"number", v.v>>
      [] OTHER                -> <<"string", v.v>>

\* A row is a table from names to values; of two columns with one name the last
\* one stays.
DbResultToLua(r) ==
    IF ~r.ok THEN LuaNil
    ELSE <<"table", [i \in DOMAIN r.rows |->
                       LET row == r.rows[i] IN
                       [n \in {row[c][1] : c \in DOMAIN row} |->
                          LET c == CHOOSE c \in DOMAIN row : row[c][1] = n
                                      /\ \A d \in DOMAIN row : row[d][1] = n => d <= c
                          IN  DbValueToLua(row[c][2])]]>>

\* The arguments of the callbacks of pg.AsyncQuery, pg.AsyncExecute and the
\* others.  AsyncExecute without parameters reports a failure as zero rows.
LuaQuery(r)           == IF r.ok THEN <<"", DbResultToLua(r)>> ELSE <<"error", LuaNil>>
LuaExecute(r, params) ==
    IF ~params THEN <<"", AsyncExecuteResult(r)>>
    ELSE IF r.ok THEN <<"", r.affected>> ELSE <<"error", 0>>
LuaBegin(r)    == <<IF AsyncBeginOk(r) THEN "" ELSE "error", AsyncBeginOk(r)>>
LuaCommit(r)   == <<IF AsyncCommitOk(r) THEN "" ELSE "error", AsyncCommitOk(r)>>
LuaRollback(r) == <<IF AsyncRollbackOk(r) THEN "" ELSE "error", AsyncRollbackOk(r)>>
=============================================================================
