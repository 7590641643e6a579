----------------------------- MODULE Parameters -----------------------------
(****************************************************************************)
(* Query parameters of every type: what query_param_impl::bind() puts into  *)
(* the bind structure, which codes precision and scale into its capacity,   *)
(* and what statement::bind_param() then declares to the driver.            *)
(*                                                                          *)
(* A parameter is a record: its type (the names of bind::buffer_type), "by" *)
(* ("value" or "ref"), prec and scale; precision 0 and scale Unset are those*)
(* that have not been specified.                                            *)
(****************************************************************************)
EXTENDS Integers

CONSTANT ShortMax   \* bytes of a short value whose precision is not known (1024)

Unset == 65535      \* the scale 0xFFFF
MaxScale == 38      \* the largest that the server knows, of a decimal
Unlimited == 0      \* SQL_SS_LENGTH_UNLIMITED

Integral == {"bit", "tinyint", "smallint", "int", "bigint"}
ShortTypes == {"string", "nstring", "binary"}
LongTypes == {"long_string", "long_nstring", "long_binary"}
FixedTypes == {"smallmoney", "money", "date", "uniqueidentifier", "rowversion"}
TimeTypes == {"time", "datetime", "datetimeoffset"}
ParamTypes == Integral \cup ShortTypes \cup LongTypes \cup FixedTypes \cup TimeTypes
                \cup {"decimal", "float4", "float8"}

Or0(p, default) == IF p # 0 THEN p ELSE default
OrUnset(s, default) == IF s # Unset THEN s ELSE default

\* type, capacity and indicator of the bind structure, and the size of the
\* buffer in bytes, for data of varying length.
Bind(type, capacity, ind) == [type |-> type, capacity |-> capacity, ind |-> ind, buffer |-> 0]
AtExec == -2        \* SQL_DATA_AT_EXEC
OfData == -3        \* the length of the data

------------------------------------------------------------------------------
\* The specialisations of query_param_impl

BindIntegral(p) == Bind(p.type, 0, 0)
BindBigint(p) == Bind("bigint", 0, 0)

\* The scale of a parameter by value has no default.
BindDecimal(p) ==
  Bind("decimal",
       Or0(p.prec, 18) * 100 + (IF p.by = "ref" THEN OrUnset(p.scale, 0) ELSE p.scale), 0)

BindMoney(p) == Bind(p.type, 0, IF p.type = "money" THEN 8 ELSE 4)
BindFloat(p) == Bind(p.type, Or0(p.prec, IF p.type = "float4" THEN 24 ELSE 53), 0)

\* The convention for character data: room for a terminator.
BindString(p) ==
  LET buffer == Or0(p.prec, ShortMax)
  IN  [Bind("string", buffer + 1, OfData) EXCEPT !.buffer = buffer]
\* Mutant of BindNString: the terminator is taken for a byte.
BindNStringByte(p) ==
  LET buffer == IF p.prec # 0 THEN p.prec * 2 ELSE ShortMax
  IN  [Bind("nstring", buffer + 1, OfData) EXCEPT !.buffer = buffer]
BindNString(p) ==
  LET buffer == IF p.prec # 0 THEN p.prec * 2 ELSE ShortMax
  IN  [Bind("nstring", buffer + 2, OfData) EXCEPT !.buffer = buffer]
BindBinary(p) ==
  LET buffer == Or0(p.prec, ShortMax)
  IN  [Bind("binary", buffer, OfData) EXCEPT !.buffer = buffer]

\* Long data by reference goes through the callback; by value there is a copy,
\* which is bound as short data of a column that may be unlimited.
BindLongString(p) ==
  IF p.by = "ref" THEN Bind("long_string", p.prec, AtExec)
  ELSE Bind("string", IF p.prec # 0 THEN p.prec + 1 ELSE 0, OfData)
BindLongNString(p) ==
  IF p.by = "ref" THEN Bind("long_nstring", p.prec * 2, AtExec)
  ELSE Bind("nstring", IF p.prec # 0 THEN (p.prec + 1) * 2 ELSE 0, OfData)
BindLongBinary(p) ==
  IF p.by = "ref" THEN Bind("long_binary", p.prec, AtExec)
  ELSE Bind("binary", p.prec, OfData)

BindDate(p) == Bind("date", 0, 0)
BindTime(p) == Bind("time", OrUnset(p.scale, 7), 12)
\* Of the two structures that hold a date with a time, the one with an offset is
\* bound as binary data and needs its size.
BindDatetime(p) ==
  Bind(p.type, OrUnset(p.scale, 7), IF p.type = "datetimeoffset" THEN 20 ELSE 0)
BindGuid(p) == Bind("uniqueidentifier", 0, 0)
BindRowversion(p) == Bind("rowversion", 0, 8)

Bound(p) ==
  CASE p.type \in Integral \ {"bigint"} -> BindIntegral(p)
    [] p.type = "bigint" -> BindBigint(p)
    [] p.type = "decimal" -> BindDecimal(p)
    [] p.type \in {"smallmoney", "money"} -> BindMoney(p)
    [] p.type \in {"float4", "float8"} -> BindFloat(p)
    [] p.type = "string" -> BindString(p)
    [] p.type = "nstring" -> BindNString(p)
    [] p.type = "binary" -> BindBinary(p)
    [] p.type = "long_string" -> BindLongString(p)
    [] p.type = "long_nstring" -> BindLongNString(p)
    [] p.type = "long_binary" -> BindLongBinary(p)
    [] p.type = "date" -> BindDate(p)
    [] p.type = "time" -> BindTime(p)
    [] p.type \in {"datetime", "datetimeoffset"} -> BindDatetime(p)
    [] p.type = "uniqueidentifier" -> BindGuid(p)
    [] p.type = "rowversion" -> BindRowversion(p)

------------------------------------------------------------------------------
\* statement::bind_param()

SqlType ==
  [t \in ParamTypes |->
     CASE t \in {"decimal", "smallmoney", "money"} -> "SQL_DECIMAL"
       [] t \in {"float4", "float8"} -> "SQL_FLOAT"
       [] t \in {"string", "long_string"} -> "SQL_VARCHAR"
       [] t \in {"nstring", "long_nstring"} -> "SQL_WVARCHAR"
       [] t \in {"binary", "long_binary"} -> "SQL_VARBINARY"
       [] t = "rowversion" -> "SQL_BINARY"
       [] OTHER -> t]   \* a type of its own

\* The C types that matter: data of these carry their size in the indicator.
CBinary == {"smallmoney", "money", "binary", "long_binary", "time", "datetimeoffset", "rowversion"}
BufferSize ==
  [t \in CBinary \ {"binary", "long_binary"} |->
     CASE t = "smallmoney" -> 4 [] t \in {"money", "rowversion"} -> 8
       [] t = "time" -> 12 [] t = "datetimeoffset" -> 20]

Declaration(size, digits) == [size |-> size, digits |-> digits]
Sized(capacity, size) == Declaration(IF capacity # 0 THEN size ELSE Unlimited, 0)

DeclareNumber(b) ==
  CASE b.type = "decimal" -> Declaration(b.capacity \div 100, b.capacity % 100)
    [] b.type = "smallmoney" -> Declaration(10, 4)
    [] b.type = "money" -> Declaration(19, 4)
    [] b.type \in {"float4", "float8"} -> Declaration(b.capacity, 0)

\* In characters and without the terminator.
DeclareData(b) ==
  CASE b.type \in {"long_string", "long_binary", "binary"} -> Sized(b.capacity, b.capacity)
    [] b.type = "long_nstring" -> Sized(b.capacity, b.capacity \div 2)
    [] b.type = "string" -> Sized(b.capacity, b.capacity - 1)
    [] b.type = "nstring" -> Sized(b.capacity, b.capacity \div 2 - 1)

\* 8 digits stand for SMALLDATETIME, which has minutes.
DeclareTime(b) ==
  CASE b.type = "date" -> Declaration(10, 0)
    [] b.type = "time" -> Declaration(IF b.capacity = 0 THEN 8 ELSE b.capacity + 9, b.capacity)
    [] b.type = "datetime" /\ b.capacity = 8 -> Declaration(16, 0)
    [] b.type = "datetime" /\ b.capacity # 8 ->
         Declaration(IF b.capacity = 0 THEN 19 ELSE b.capacity + 20, b.capacity)
    [] b.type = "datetimeoffset" ->
         Declaration(IF b.capacity = 0 THEN 26 ELSE b.capacity + 27, b.capacity)

Declared(b) ==
  CASE b.type \in {"decimal", "smallmoney", "money", "float4", "float8"} -> DeclareNumber(b)
    [] b.type \in ShortTypes \cup LongTypes -> DeclareData(b)
    [] b.type \in TimeTypes \cup {"date"} -> DeclareTime(b)
    [] b.type = "rowversion" -> Declaration(8, 0)
    [] OTHER -> Declaration(0, 0)

------------------------------------------------------------------------------
\* What the server's own types look like

Fraction(digits) == IF digits = 0 THEN 0 ELSE digits + 1

\* A column with the precision and scale, or the one that SQL Server makes when
\* they are not specified.  Strings of an unspecified size are short.
ColumnOf(p) ==
  LET scale == OrUnset(p.scale, IF p.type = "decimal" THEN 0 ELSE 7) IN
  CASE p.type = "decimal" -> Declaration(Or0(p.prec, 18), scale)
    [] p.type = "smallmoney" -> Declaration(10, 4)
    [] p.type = "money" -> Declaration(19, 4)
    [] p.type = "float4" -> Declaration(Or0(p.prec, 24), 0)
    [] p.type = "float8" -> Declaration(Or0(p.prec, 53), 0)
    [] p.type \in {"string", "binary"} -> Declaration(Or0(p.prec, ShortMax), 0)
    [] p.type = "nstring" -> Declaration(Or0(p.prec, ShortMax \div 2), 0)
    [] p.type \in LongTypes -> Declaration(Or0(p.prec, Unlimited), 0)
    [] p.type = "date" -> Declaration(10, 0)
    [] p.type = "time" -> Declaration(8 + Fraction(scale), scale)
    [] p.type = "datetime" ->
         IF scale = 8 THEN Declaration(16, 0) ELSE Declaration(19 + Fraction(scale), scale)
    [] p.type = "datetimeoffset" -> Declaration(26 + Fraction(scale), scale)
    [] p.type = "rowversion" -> Declaration(8, 0)
    [] OTHER -> Declaration(0, 0)
==============================================================================
