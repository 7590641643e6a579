------------------------------- MODULE Values -------------------------------
(****************************************************************************)
(* Values on their way between the program and the server: data (LongData), *)
(* amounts of money and version numbers, which change their form, and query *)
(* parameters (Parameters), which are declared to the driver first.         *)
(****************************************************************************)
EXTENDS LongData, Parameters

CONSTANTS Params,     \* parameters, as in Parameters
          Amounts,    \* amounts of money, in units of the fraction
          Scale,      \* units in one (10000)
          Word,       \* 2^32, the words that money is sent in
          ByteBase,   \* 2^8
          FloatBits,  \* digits of a float and a double (24 and 53)
          Quantum     \* bound: floats are whole numbers of 1 / Quantum

ASSUME ValuesAssumption ==
  /\ ShortMax \in Nat \ {0} /\ ShortMax % 2 = 0
  /\ Params \subseteq [type : ParamTypes, by : {"value", "ref"}, prec : Nat,
                      scale : (0..MaxScale) \cup {Unset}]
  /\ Amounts \subseteq Int
  /\ Scale \in Nat \ {0} /\ Word \in Nat \ {0} /\ ByteBase \in Nat \ {0}
  /\ FloatBits \subseteq Nat \ {0} /\ Quantum \in Nat \ {0}

VARIABLES
  item,      \* what is on its way: data, a number, a float or a parameter
  outcome    \* what has become of anything but data

valuesVars == <<vars, item, outcome>>

Data == [what |-> "data"]
Pending == [step |-> "pending"]

\* Division and remainder of C++ round towards 0.
Quotient(a, b) == IF a >= 0 THEN a \div b ELSE -((-a) \div b)
Remainder(a, b) == a - b * Quotient(a, b)

\* What fits the words of a smallmoney and a money image.
InWords(kind, v) ==
  IF kind \in {"smallmoney_int", "smallmoney_float"}
  THEN v \in -(Word \div 2)..(Word \div 2 - 1)
  ELSE -(Word * Word) <= 2 * v /\ 2 * v < Word * Word

\* Numbers as they are in the program: units of the fraction, or a version.
NumberKinds == {"smallmoney_int", "money_int", "rowversion"}
Numbers ==
  {n \in [what : {"number"}, kind : NumberKinds, number : Amounts, null : BOOLEAN] :
     IF n.kind = "rowversion"
     THEN ~n.null /\ n.number \in 0..(ByteBase * ByteBase * ByteBase * ByteBase - 1)
     ELSE InWords(n.kind, n.number)}

------------------------------------------------------------------------------
\* Money as a float or a double: a whole number of quanta here

Magnitude(a) == IF a < 0 THEN -a ELSE a

\* The distance of neighbouring floats, and the one nearest to num / den, the even
\* one of two.
Spacing(x, bits) ==
  LET double[n \in Nat] == IF n < 2 ^ bits THEN 1 ELSE 2 * double[n \div 2] IN double[x]
Nearest(num, den, bits) ==
  LET x == Magnitude(num)
      space == Spacing(x \div den, bits)
      below == x \div (den * space)
      rest == 2 * (x % (den * space))
      up == rest > den * space \/ (rest = den * space /\ below % 2 = 1)
      nearest == (IF up THEN below + 1 ELSE below) * space
  IN  IF num < 0 THEN -nearest ELSE nearest

\* An amount as the program has it, its product with the scale, which is rounded,
\* and what is made of both.
FloatOf(f) == Nearest(f.number * Quantum, Scale, f.bits)
Product(f) == Nearest(FloatOf(f) * Scale, 1, f.bits)
FloatUnits(f) ==
  Quotient(FloatOf(f), Quantum) * Scale + Remainder(Quotient(Product(f), Quantum), Scale)

\* Mutant of FromUnits: the fraction is divided before it becomes a float.
FromUnitsWhole(i, bits) == Nearest(Quotient(i, Scale) * Quantum, 1, bits)
\* The way back: both parts are rounded, and so is their sum.
FromUnits(i, bits) ==
  Nearest(Nearest(Quotient(i, Scale) * Quantum, 1, bits)
          + Nearest(Remainder(i, Scale) * Quantum, Scale, bits), 1, bits)

\* The conversion of a float that does not fit is undefined: the product and the
\* units are to fit.
Floats ==
  {f \in [what : {"float"}, kind : {"smallmoney_float", "money_float"}, bits : FloatBits,
          number : Amounts, null : BOOLEAN] :
     /\ InWords(f.kind, f.number)
     /\ InWords(f.kind, Quotient(Product(f), Quantum)) /\ InWords(f.kind, FloatUnits(f))}

------------------------------------------------------------------------------
\* A short parameter brings a value along; null, nullable and the like are idle.
ValuesInit ==
  /\ outcome = Pending
  /\ \/ item = Data /\ Init
     \/ /\ item \in Numbers \cup Floats \cup {[what |-> "parameter", param |-> p] : p \in Params}
        /\ from = "string" /\ to = "string" /\ room = 0 /\ behind = 0
        /\ cap = CHOOSE n \in Capacities : TRUE
        /\ null = FALSE /\ nullable = FALSE /\ isNull = FALSE /\ known = TRUE
        /\ \E n \in IF item.what = "parameter" /\ item.param.type \in ShortTypes THEN Lengths ELSE {0} :
             value = [i \in 1..n |-> i]
        /\ before = <<>> /\ member = <<>> /\ tmp = <<>> /\ stored = <<>>
        /\ position = 0 /\ got = 0 /\ at = 0 /\ size = 0
        /\ pc = "done" /\ chunk = "none" /\ into = "tmp"

------------------------------------------------------------------------------
\* Numbers and floats

\* A money image is two words, the low one without a sign.
MoneyImage(v) == [high |-> v \div Word, low |-> v % Word]
MoneyUnits(i) == i.high * Word + i.low

\* The bytes of a number in the order of the server, and those in memory of a
\* machine that has the lowest first.
Bytes(v) ==
  LET shifted == <<v, v \div ByteBase, (v \div ByteBase) \div ByteBase,
                   ((v \div ByteBase) \div ByteBase) \div ByteBase>>
  IN  [i \in 1..4 |-> shifted[i] % ByteBase]
RowversionImage(v) == Reverse(Bytes(v))
RowversionValue(i) == ((i[1] * ByteBase + i[2]) * ByteBase + i[3]) * ByteBase + i[4]

Image(n) ==
  CASE n.null -> "NULL"
    [] ~n.null /\ n.kind = "smallmoney_int" -> n.number
    [] ~n.null /\ n.kind = "money_int" -> MoneyImage(n.number)
    [] ~n.null /\ n.kind = "rowversion" -> RowversionImage(n.number)
    [] ~n.null /\ n.kind = "smallmoney_float" -> FloatUnits(n)
    [] ~n.null /\ n.kind = "money_float" -> MoneyImage(FloatUnits(n))

Value(n, image) ==
  CASE n.null -> 0
    [] ~n.null /\ n.kind = "smallmoney_int" -> image
    [] ~n.null /\ n.kind = "money_int" -> MoneyUnits(image)
    [] ~n.null /\ n.kind = "rowversion" -> RowversionValue(image)
    [] ~n.null /\ n.kind = "smallmoney_float" -> FromUnits(image, n.bits)
    [] ~n.null /\ n.kind = "money_float" -> FromUnits(MoneyUnits(image), n.bits)

SendNumber ==
  /\ item.what \in {"number", "float"} /\ outcome = Pending
  /\ outcome' = [step |-> "sent", image |-> Image(item)]
  /\ UNCHANGED <<vars, item>>

ReceiveNumber ==
  /\ item.what \in {"number", "float"} /\ outcome.step = "sent"
  /\ outcome' = [step |-> "received", value |-> Value(item, outcome.image)]
  /\ UNCHANGED <<vars, item>>

------------------------------------------------------------------------------
\* Parameters: bound, declared, and a short one cut to its buffer

Room(b) == IF b.type = "nstring" THEN b.buffer \div 2 ELSE b.buffer

BindParam ==
  /\ item.what = "parameter" /\ outcome = Pending
  /\ LET b == Bound(item.param) IN
     outcome' = [step |-> "bound", type |-> SqlType[b.type], as |-> b.type, ind |-> b.ind,
                 declared |-> Declared(b), sent |-> SubSeq(value, 1, Min({Len(value), Room(b)}))]
  /\ UNCHANGED <<vars, item>>

ValuesNext ==
  \/ item.what = "data" /\ Next /\ UNCHANGED <<item, outcome>>
  \/ SendNumber \/ ReceiveNumber \/ BindParam

ValuesSpec == ValuesInit /\ [][ValuesNext]_valuesVars

------------------------------------------------------------------------------
\* Properties

\* Data of any length come back as they were sent but in the two cases that RoundTrip
\* names, and so do money that the program keeps in units and versions, through words
\* and bytes that are in the order of the server.
ValuesRoundTrip ==
  CASE item.what = "data" -> RoundTrip
    [] item.what = "number" ->
         outcome.step = "received" => outcome.value = (IF item.null THEN 0 ELSE item.number)
    [] item.what \in {"float", "parameter"} -> TRUE

\* Money that is a float comes back but for the last unit, which the product with the
\* scale may lose, and but for the rounding of a float, as long as a float has a digit
\* to spare for the amount.  Of larger amounts the whole part is cut off before the
\* product is rounded, and less than one whole may be lost or gained.
FloatMoney ==
  item.what = "float" /\ outcome.step = "received" =>
    IF item.null THEN outcome.value = 0
    ELSE LET space == Spacing(Magnitude(outcome.value), item.bits)
             Far(u) == Magnitude(outcome.value * Scale - u * Quantum)
             nearer == IF item.number > 0 THEN item.number - 1 ELSE item.number + 1
         IN  IF Magnitude(item.number) < 2 ^ (item.bits - 1)
             THEN \E u \in {item.number, nearer} : Far(u) <= Scale * space
             ELSE Magnitude(outcome.value - FloatOf(item)) < Quantum + space

\* A parameter is declared as the column of its type, precision and scale, so that
\* the server compares without a conversion; of binary data the driver knows the
\* size; and of a short value only what the column could not hold is cut off.  The
\* exception is a decimal by value whose scale is not specified.
DeclaredAsTheColumn ==
  outcome.step = "bound" =>
    LET p == item.param
        column == ColumnOf(p)
    IN  \/ p.type = "decimal" /\ p.by = "value" /\ p.scale = Unset
        \/ /\ outcome.type = SqlType[p.type]
           /\ outcome.declared = column
           /\ outcome.as \in DOMAIN BufferSize => outcome.ind = BufferSize[outcome.as]
           /\ p.type \in ShortTypes => outcome.sent = SubSeq(value, 1, Min({Len(value), column.size}))
==============================================================================
