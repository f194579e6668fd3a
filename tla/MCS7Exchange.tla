----------------------------- MODULE MCS7Exchange -----------------------------
\* A variable of each type, with two values that differ in sign and in each byte.
EXTENDS S7Exchange

MCValues ==
  [t \in Types |->
     CASE t = "BIT"     -> {0, 1}
       [] t = "INTEGER" -> {258, -1}
       [] t = "LONG"    -> {16909060, -2}
       [] t = "FLOAT"   -> {<<63, 128, 0, 0>>, <<192, 73, 15, 219>>}
       [] OTHER            -> {<<65, 66>>, <<66, 0>>}]
=============================================================================
