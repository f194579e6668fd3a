------------------------------- MODULE SapiData -------------------------------
(***************************************************************************)
(* The conversions of CConnection::ReadData and CConnection::WriteData     *)
(* (SAPI/CConnection.cpp).  The PLC has the most significant byte of a     *)
(* number first, the host has it last.  A byte is a number below 256, and  *)
(* what a union ConvHeap holds is the sequence of its four bytes.          *)
(*                                                                         *)
(* A BIT, an INTEGER and a LONG are the numbers their texts stand for.  A  *)
(* FLOAT is the four bytes of its pattern, the most significant first, and *)
(* a STRING* is its characters, as many as the type says.                  *)
(***************************************************************************)
EXTENDS Integers, Sequences

Types == {"BIT", "INTEGER", "LONG", "FLOAT", "STRING*"}

Byte == {n \in Int : 0 <= n /\ n <= 255}

\* The values of a variable in the PLC: a short and a long number are signed.
Bits == {0, 1}
Shorts == {n \in Int : -32768 <= n /\ n <= 32767}
Longs == {n \in Int : -2147483647 - 1 <= n /\ n <= 2147483647}
Floats == Byte \X Byte \X Byte \X Byte

TypeRange(type) ==
  IF type = "BIT" THEN Bits
  ELSE IF type = "INTEGER" THEN Shorts
  ELSE IF type = "LONG" THEN Longs
  ELSE IF type = "FLOAT" THEN Floats
  ELSE Seq(Byte)

\* The bytes of number n in a ConvHeap, and the number its bytes are.
Heap(n) == <<n % 256, (n \div 256) % 256, (n \div 65536) % 256, (n \div 16777216) % 256>>
Signed(b) == IF b < 128 THEN b ELSE b - 256
HeapNumber(s) == s[1] + 256 * s[2] + 65536 * s[3] + 16777216 * Signed(s[4])

Swapped(s) == <<s[4], s[3], s[2], s[1]>>

Convert2Flt(data) == Swapped(data)
ConvertFlt(s) == Swapped(s)

Convert2Lng(data) == HeapNumber(Swapped(data))
ConvertLng(n) == Swapped(Heap(n))

\* An int has four bytes, and the upper two are set to 0.
Convert2Int(data) == HeapNumber(<<data[2], data[1], 0, 0>>)
ConvertInt(n) == <<Heap(n)[2], Heap(n)[1]>>

\* The buffer WriteData makes of a value.
ToPlc(type, v) ==
  IF type = "BIT" THEN <<v % 256>>
  ELSE IF type = "INTEGER" THEN ConvertInt(v)
  ELSE IF type = "LONG" THEN ConvertLng(v)
  ELSE IF type = "FLOAT" THEN ConvertFlt(Swapped(v))
  ELSE v

\* The value ReadData makes of the buffer.
FromPlc(type, data) ==
  IF type = "BIT" THEN data[1] % 2
  ELSE IF type = "INTEGER" THEN Convert2Int(data)
  ELSE IF type = "LONG" THEN Convert2Lng(data)
  ELSE IF type = "FLOAT" THEN Swapped(Convert2Flt(data))
  ELSE data

-----------------------------------------------------------------------------
\* What the bytes of a variable are to the PLC, and the bytes of a value: numbers
\* are two's complement, the most significant byte first.
PlcValue(type, data) ==
  IF type = "BIT" THEN data[1]
  ELSE IF type = "INTEGER" THEN 256 * Signed(data[1]) + data[2]
  ELSE IF type = "LONG" THEN 16777216 * Signed(data[1]) + 65536 * data[2] + 256 * data[3] + data[4]
  ELSE data

PlcBytes(type, v) ==
  IF type = "BIT" THEN <<v>>
  ELSE IF type = "INTEGER" THEN <<(v \div 256) % 256, v % 256>>
  ELSE IF type = "LONG" THEN <<(v \div 16777216) % 256, (v \div 65536) % 256,
                                (v \div 256) % 256, v % 256>>
  ELSE v
=============================================================================
