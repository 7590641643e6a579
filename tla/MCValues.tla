------------------------------ MODULE MCValues ------------------------------
(****************************************************************************)
(* Instances of Values for TLC.  The sizes of buffers are scaled down from  *)
(* 4096, 128 and 256; the values reach the third growth of a string, and    *)
(* the arrays are shorter than, as long as and longer than the temporary    *)
(* buffer.  Money has a seventh, words of seven bits and floats of five     *)
(* and of nine, so that most amounts have too many digits for the smaller;  *)
(* it goes up to the largest and over the end of the low word.  Versions    *)
(* have four bytes of two bits.                                             *)
(****************************************************************************)
EXTENDS Values

MCLengths == 0..14
MCAmounts == (-2048..2047) \cup (-8192..-8181) \cup (8180..8191)

\* Every type with its usual precisions and scales, and without.
Precisions(t) ==
  CASE t = "decimal" -> {0, 1, 18, 38}
    [] t = "float4" -> {0, 1, 24} [] t = "float8" -> {0, 25, 53}
    [] t \in ShortTypes -> {0, 1, 3, 9} [] t \in LongTypes -> {0, 1, 4000}
    [] OTHER -> {0}
Scales(t) ==
  CASE t = "decimal" -> {0, 1, 4, Unset} [] t \in {"time", "datetimeoffset"} -> (0..7) \cup {Unset}
    [] t = "datetime" -> (0..8) \cup {Unset} [] OTHER -> {Unset}
MCParams ==
  UNION {[type : {t}, by : {"value", "ref"}, prec : Precisions(t), scale : Scales(t)] : t \in ParamTypes}
==============================================================================
