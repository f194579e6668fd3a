--------------------------- MODULE S7ExchangeProofs ---------------------------
(***************************************************************************)
(* Proofs about one read or write of the PLC, for any values of the types  *)
(* and however the PLC answers.                                            *)
(***************************************************************************)
EXTENDS S7Exchange, TLAPS

-----------------------------------------------------------------------------
(* The invariant                                                           *)

Elems(s) == {s[i] : i \in 1 .. Len(s)}

\* The buffers a write may send.
Sendable == {PlcBytes(type, v) : v \in Values[type]}

PlcType == [values : SUBSET Values[type], written : SUBSET Values[type],
            confirmed : BOOLEAN, refused : BOOLEAN]

\* The call that is made has answered message m: the variable has a value of this
\* call, or the PLC has refused.
Answered(m) ==
  /\ m.kind = "write" /\ m.confirmed => value \in plc.written
  /\ m.kind = "read" /\ m.confirmed => \E v \in plc.values : m.data = PlcBytes(type, v)
  /\ m.kind \in {"read", "write"} /\ ~m.confirmed => plc.refused

\* A request of this call: it writes the caller's value, or no bytes when the value
\* has been written.
OwnRequest(r) ==
  r.op = "write" =>
    r.data = ToPlc(type, value) /\ value \in Values[type] /\ (r.length = "full" \/ value \in plc.written)

\* What is under way belongs to this call, unless an s7_abort before it had failed.
\* Whatever write the PLC gets, it can execute.
QueueInv ==
  /\ \A r \in Elems(pending) : r.op = "write" => r.data \in Sendable
  /\ ~stale => /\ \A m \in Elems(inbox) : Answered(m)
               /\ \A r \in Elems(pending) : OwnRequest(r)

\* A write sends the caller's value, until its length is that of an answer: 0, the
\* value is written, or -4, it was refused.
WriteInv ==
  /\ pc = "loop" => iAtt > 0
  /\ memory \in plc.values
  /\ op = "write" /\ pc # "idle" =>
       /\ value \in Values[type]
       /\ data = ToPlc(type, value)
       /\ ~stale /\ nBufLen = "zero" => value \in plc.written
       /\ ~stale /\ nBufLen = "refused" => plc.refused

\* What the call has returned.
ReturnInv ==
  /\ WriteReturnsWritten
  /\ Returned("read") /\ code = 0 => \E v \in plc.values : data = PlcBytes(type, v)
  /\ CrashNeedsRefusal

IInv == TypeOK /\ QueueInv /\ WriteInv /\ ReturnInv

-----------------------------------------------------------------------------
(* The conversions                                                         *)

\* The bytes of a number are its digits to the base 256.
LEMMA Digits ==
  ASSUME NEW v \in Longs
  PROVE  LET q == v \div 256  r == v \div 65536  s == v \div 16777216
         IN  /\ s \in -128 .. 127
             /\ v = 256 * q + (v % 256) /\ v % 256 \in Byte
             /\ q = 256 * r + (q % 256) /\ q % 256 \in Byte
             /\ r = 256 * s + (r % 256) /\ r % 256 \in Byte
             /\ Signed(s % 256) = s /\ s % 256 \in Byte
             /\ v = 16777216 * Signed(s % 256) + 65536 * (r % 256) + 256 * (q % 256) + (v % 256)
<1>. DEFINE q == v \div 256  r == v \div 65536  s == v \div 16777216
<1>0. v \in Int /\ -2147483647 - 1 <= v /\ v <= 2147483647
  BY SMT DEF Longs
<1>1. q \in Int /\ v = 256 * q + (v % 256) /\ v % 256 \in Byte
  BY <1>0, SMT DEF Byte
<1>2. r \in Int /\ v = 65536 * r + (v % 65536) /\ 0 <= v % 65536 /\ v % 65536 < 65536
  BY <1>0, SMT
<1>3. s \in Int /\ v = 16777216 * s + (v % 16777216)
      /\ 0 <= v % 16777216 /\ v % 16777216 < 16777216
  BY <1>0, SMT
<1>4. s \in -128 .. 127
  BY <1>0, <1>3, SMT
<1>. HIDE DEF q, r, s
<1>5. q - 256 * r \in Byte
  BY <1>0, <1>1, <1>2, SMT DEF Byte
<1>6. r - 256 * s \in Byte
  BY <1>0, <1>2, <1>3, SMT DEF Byte
<1>7. q % 256 = q - 256 * r
  BY <1>1, <1>2, <1>5, SMT DEF Byte
<1>8. r % 256 = r - 256 * s
  BY <1>2, <1>3, <1>6, SMT DEF Byte
<1>9. s % 256 \in Byte /\ Signed(s % 256) = s
  BY <1>4, SMT DEF Signed, Byte
<1>10. v = 16777216 * Signed(s % 256) + 65536 * (r % 256) + 256 * (q % 256) + (v % 256)
  <2>. DEFINE a == r % 256  b == q % 256  d == v % 256
  <2>1. /\ q \in Int /\ r \in Int /\ s \in Int /\ a \in Int /\ b \in Int /\ d \in Int
        /\ v = 256 * q + d /\ q = 256 * r + b /\ r = 256 * s + a
    BY <1>1, <1>2, <1>3, <1>5, <1>6, <1>7, <1>8, SMT DEF Byte
  <2>. HIDE DEF a, b, d
  <2>2. v = 16777216 * s + 65536 * a + 256 * b + d
    BY <2>1, SMT
  <2>. QED
    BY <1>9, <2>2, SMT DEF a, b, d
<1>11. v % 256 \in Byte /\ q % 256 \in Byte /\ r % 256 \in Byte /\ s % 256 \in Byte
  BY <1>1, <1>5, <1>6, <1>7, <1>8, <1>9, SMT DEF Byte
<1>12. v = 256 * q + (v % 256) /\ q = 256 * r + (q % 256) /\ r = 256 * s + (r % 256)
  BY <1>1, <1>2, <1>3, <1>5, <1>6, <1>7, <1>8, SMT
<1>. QED
  BY <1>4, <1>9, <1>10, <1>11, <1>12, SMT DEF q, r, s

\* Swapping the bytes twice.
LEMMA FloatBytes ==
  ASSUME NEW v \in Floats
  PROVE  Swapped(Swapped(v)) = v
<1>1. v = <<v[1], v[2], v[3], v[4]>>
  BY DEF Floats
<1>. QED
  BY <1>1 DEF Swapped

\* The digits of a short number.
LEMMA ShortDigits ==
  ASSUME NEW v \in Shorts
  PROVE  LET q == v \div 256
         IN  /\ q \in -128 .. 127 /\ v = 256 * q + (v % 256) /\ v % 256 \in Byte
             /\ Signed(q % 256) = q /\ q % 256 \in Byte
             /\ LET r == (v % 256) + 256 * (q % 256)
                IN  v = IF r > 32767 THEN r - 65536 ELSE r
<1>1. v \in Int /\ -32768 <= v /\ v <= 32767
  BY DEF Shorts
<1>. DEFINE q == v \div 256
<1>2. q \in -128 .. 127 /\ v = 256 * q + (v % 256) /\ v % 256 \in Byte
  BY <1>1, SMT DEF Byte
<1>. HIDE DEF q
<1>3. q % 256 = (IF q < 0 THEN q + 256 ELSE q)
  BY <1>2, SMT
<1>4. Signed(q % 256) = q
  BY <1>2, <1>3, SMT DEF Signed
<1>5. q % 256 \in Byte
  BY <1>2, <1>3 DEF Byte
<1>. DEFINE r == (v % 256) + 256 * (q % 256)
<1>6. v = IF r > 32767 THEN r - 65536 ELSE r
  BY <1>1, <1>2, <1>3, SMT DEF Byte
<1>. QED
  BY <1>2, <1>4, <1>5, <1>6 DEF q

\* The buffer that WriteData makes of a value are the bytes of the value.
LEMMA SentBytes ==
  ASSUME NEW t \in Types, NEW v \in TypeRange(t)
  PROVE  ToPlc(t, v) = PlcBytes(t, v)
<1>1. CASE t = "BIT"
  <2>1. v \in Bits
    BY <1>1 DEF TypeRange
  <2>2. v % 256 = v
    BY <2>1 DEF Bits
  <2>. QED
    BY <1>1, <2>2 DEF ToPlc, PlcBytes
<1>2. CASE t = "INTEGER"
  BY <1>2, SMT DEF ToPlc, PlcBytes, ConvertInt, Heap
<1>3. CASE t = "LONG"
  BY <1>3, SMT DEF ToPlc, PlcBytes, ConvertLng, Heap, Swapped
<1>4. CASE t = "FLOAT"
  BY <1>4, FloatBytes DEF ToPlc, PlcBytes, ConvertFlt, TypeRange
<1>5. CASE t = "STRING*"
  BY <1>5 DEF ToPlc, PlcBytes
<1>. QED
  BY <1>1, <1>2, <1>3, <1>4, <1>5 DEF Types

\* The PLC finds the value in its bytes.
LEMMA BytesOfValue ==
  ASSUME NEW t \in Types, NEW v \in TypeRange(t)
  PROVE  PlcValue(t, PlcBytes(t, v)) = v
<1>1. CASE t = "BIT"
  BY <1>1 DEF PlcValue, PlcBytes
<1>2. CASE t = "INTEGER"
  <2>1. v \in Shorts
    BY <1>2 DEF TypeRange
  <2>2. PlcValue(t, PlcBytes(t, v)) = 256 * Signed((v \div 256) % 256) + (v % 256)
    BY <1>2 DEF PlcValue, PlcBytes
  <2>. QED
    BY <2>1, <2>2, ShortDigits, SMT
<1>3. CASE t = "LONG"
  <2>1. v \in Longs
    BY <1>3 DEF TypeRange
  <2>2. PlcValue(t, PlcBytes(t, v))
          = 16777216 * Signed((v \div 16777216) % 256) + 65536 * ((v \div 65536) % 256)
            + 256 * ((v \div 256) % 256) + (v % 256)
    BY <1>3, SMT DEF PlcValue, PlcBytes
  <2>. QED
    BY <2>1, <2>2, Digits, SMT
<1>4. CASE t \in {"FLOAT", "STRING*"}
  BY <1>4 DEF PlcValue, PlcBytes
<1>. QED
  BY <1>1, <1>2, <1>3, <1>4 DEF Types

\* What ReadData makes of the bytes of a value stands for the value: a negative
\* INTEGER comes back with 65536 added.
LEMMA ReadBytes ==
  ASSUME NEW t \in Types, NEW v \in TypeRange(t)
  PROVE  LET r == FromPlc(t, PlcBytes(t, v))
         IN  v = IF t = "INTEGER" /\ r > 32767 THEN r - 65536 ELSE r
<1>. DEFINE r == FromPlc(t, PlcBytes(t, v))
<1>1. CASE t = "BIT"
  <2>1. v \in Bits
    BY <1>1 DEF TypeRange
  <2>2. v % 2 = v
    BY <2>1 DEF Bits
  <2>. QED
    BY <1>1, <2>2 DEF FromPlc, PlcBytes
<1>2. CASE t = "INTEGER"
  <2>1. v \in Shorts
    BY <1>2 DEF TypeRange
  <2>2. r = HeapNumber(<<v % 256, (v \div 256) % 256, 0, 0>>)
    BY <1>2 DEF FromPlc, PlcBytes, Convert2Int
  <2>3. \A a, b \in Byte : HeapNumber(<<a, b, 0, 0>>) = a + 256 * b
    BY SMT DEF HeapNumber, Signed, Byte
  <2>. HIDE DEF r
  <2>4. v = IF r > 32767 THEN r - 65536 ELSE r
    <3>1. r = (v % 256) + 256 * ((v \div 256) % 256)
      BY <2>1, <2>2, <2>3, ShortDigits, SMT
    <3>. QED
      BY <2>1, <3>1, ShortDigits, SMT
  <2>. QED
    BY <1>2, <2>4 DEF r
<1>3. CASE t = "LONG"
  <2>1. v \in Longs
    BY <1>3 DEF TypeRange
  <2>2. r = (v % 256) + 256 * ((v \div 256) % 256) + 65536 * ((v \div 65536) % 256)
            + 16777216 * Signed((v \div 16777216) % 256)
    BY <1>3, SMT DEF FromPlc, PlcBytes, Convert2Lng, HeapNumber, Swapped
  <2>. DEFINE d == v % 256  b == (v \div 256) % 256  a == (v \div 65536) % 256
              s == Signed((v \div 16777216) % 256)
  <2>. HIDE DEF r
  <2>3. /\ a \in Byte /\ b \in Byte /\ d \in Byte /\ s \in Int
        /\ v = 16777216 * s + 65536 * a + 256 * b + d
        /\ r = d + 256 * b + 65536 * a + 16777216 * s
    BY <2>1, <2>2, Digits, SMT
  <2>. HIDE DEF a, b, d, s
  <2>4. r = v
    BY <2>3, SMT DEF Byte
  <2>. QED
    BY <1>3, <2>4 DEF r
<1>4. CASE t = "FLOAT"
  BY <1>4, FloatBytes DEF FromPlc, PlcBytes, Convert2Flt, TypeRange
<1>5. CASE t = "STRING*"
  BY <1>5 DEF FromPlc, PlcBytes
<1>. QED
  BY <1>1, <1>2, <1>3, <1>4, <1>5 DEF Types

-----------------------------------------------------------------------------
(* The buffers and the messages                                            *)

\* The value to write becomes its bytes, which the PLC takes for the value.
LEMMA Buffer ==
  ASSUME type \in DOMAIN Values, NEW v \in Values[type]
  PROVE  /\ type \in Types /\ v \in TypeRange(type)
         /\ ToPlc(type, v) = PlcBytes(type, v)
         /\ ToPlc(type, v) \in Buffers
         /\ PlcValue(type, ToPlc(type, v)) = v
<1>1. type \in Types /\ v \in TypeRange(type)
  BY ExchangeAssumption
<1>2. ToPlc(type, v) = PlcBytes(type, v) /\ PlcValue(type, PlcBytes(type, v)) = v
  BY <1>1, SentBytes, BytesOfValue
<1>3. PlcBytes(type, v) \in Buffers
  BY DEF Buffers
<1>. QED
  BY <1>1, <1>2, <1>3

LEMMA ElemsEmpty == Elems(<< >>) = {} /\ \A S : << >> \in Seq(S)
BY DEF Elems

LEMMA ElemsTail ==
  ASSUME NEW S, NEW s \in Seq(S), s # << >>
  PROVE  Tail(s) \in Seq(S) /\ Elems(Tail(s)) \subseteq Elems(s) /\ Head(s) \in Elems(s) /\ Head(s) \in S
<1>1. Len(s) \in Nat /\ Len(s) > 0 /\ Head(s) = s[1]
  OBVIOUS
<1>2. Tail(s) \in Seq(S) /\ Len(Tail(s)) = Len(s) - 1
      /\ \A i \in 1 .. Len(s) - 1 : Tail(s)[i] = s[i + 1]
  BY <1>1
<1>3. \A i \in 1 .. Len(s) - 1 : i + 1 \in 1 .. Len(s)
  BY <1>1
<1>4. Elems(Tail(s)) \subseteq Elems(s)
  BY <1>2, <1>3 DEF Elems
<1>5. 1 \in 1 .. Len(s)
  BY <1>1
<1>6. Head(s) \in Elems(s) /\ Head(s) \in S
  BY <1>1, <1>5 DEF Elems
<1>. QED
  BY <1>2, <1>4, <1>6

LEMMA ElemsAppend ==
  ASSUME NEW S, NEW s \in Seq(S), NEW e \in S
  PROVE  Append(s, e) \in Seq(S) /\ Elems(Append(s, e)) = Elems(s) \cup {e}
<1>1. Len(s) \in Nat /\ Append(s, e) \in Seq(S) /\ Len(Append(s, e)) = Len(s) + 1
      /\ Append(s, e)[Len(s) + 1] = e /\ \A i \in 1 .. Len(s) : Append(s, e)[i] = s[i]
  OBVIOUS
<1>2. 1 .. Len(s) + 1 = (1 .. Len(s)) \cup {Len(s) + 1}
  BY <1>1
<1>. QED
  BY <1>1, <1>2 DEF Elems

\* The queues are typed, and have nothing but what was there and these messages and
\* requests.
Queues(messages, requests) ==
  /\ inbox' \in Seq(Messages) /\ pending' \in Seq(Requests)
  /\ asked' \in BOOLEAN /\ unaborted' \in BOOLEAN
  /\ Elems(inbox') \subseteq Elems(inbox) \cup messages
  /\ Elems(pending') \subseteq Elems(pending) \cup requests

\* The driver discards everything, or with a failed s7_abort nothing.
LEMMA AbortChanges ==
  ASSUME TypeOK, NEW m \in Seq(Messages), Elems(m) \subseteq Elems(inbox),
         NEW requests, NEW r \in Seq(Requests), Elems(r) \subseteq Elems(pending) \cup requests,
         Abort(m, r) \/ Shut
  PROVE  /\ Queues({}, requests) /\ stale' = stale
         /\ ~unaborted' => inbox' = << >> /\ pending' = << >> /\ ~asked'
<1>1. CASE Shut
  BY <1>1, ElemsEmpty DEF Shut, Queues
<1>2. CASE inbox' = m /\ pending' = r /\ unaborted' = TRUE /\ UNCHANGED <<asked, stale>>
  BY <1>2 DEF Queues, TypeOK
<1>. QED
  BY <1>1, <1>2 DEF Abort

-----------------------------------------------------------------------------
(* What each step changes                                                  *)

\* Outside the receive loop nothing is under way, unless s7_abort has failed.
Settled == pc # "loop" /\ ~unaborted => inbox = << >> /\ pending = << >> /\ ~asked

\* The steps of the call between the receipts.
LEMMA CallChanges ==
  ASSUME IInv, StartPoint \/ NoMessage \/ WrongMessage \/ TenSeconds
  PROVE  /\ UNCHANGED <<type, op, value, nBufLen, data, crashed, plcVars, stale>>
         /\ pc \in {"start", "loop"} /\ iAtt' \in 0 .. 3 /\ late' \in BOOLEAN
         /\ pc' \in {"idle", "start", "loop"} /\ (pc' = "loop" => iAtt' > 0)
         /\ Queues({}, {}) /\ Settled'
         /\ (code' = code /\ pc' # "idle") \/ code' \in {-1, -2, -3}
<1>. /\ TypeOK /\ WriteInv /\ inbox \in Seq(Messages) /\ pending \in Seq(Requests)
     /\ asked \in BOOLEAN /\ unaborted \in BOOLEAN /\ iAtt \in 0 .. 3 /\ late \in BOOLEAN
  BY DEF IInv, TypeOK
<1>s. ASSUME Shut
      PROVE  Queues({}, {}) /\ stale' = stale /\ inbox' = << >> /\ pending' = << >> /\ ~asked'
  BY <1>s, ElemsEmpty DEF Shut, Queues
<1>1. CASE StartPoint
  <2>1. pc = "start" /\ UNCHANGED <<type, op, value, nBufLen, data, crashed, plcVars>>
        /\ iAtt' = (IF iAtt < 3 THEN iAtt + 1 ELSE iAtt)
    BY <1>1 DEF StartPoint
  <2>2. iAtt' \in 0 .. 3
    BY <2>1
  <2>3. CASE pc' = "idle" /\ code' \in {-1, -3} /\ Shut /\ UNCHANGED late
    BY <1>s, <2>1, <2>2, <2>3 DEF Settled
  <2>4. CASE iAtt < 3 /\ pc' = "loop" /\ late' = FALSE /\ asked' = TRUE
             /\ UNCHANGED <<code, inbox, pending, unaborted, stale>>
    <3>1. iAtt' > 0
      BY <2>1, <2>4
    <3>. QED
      BY <2>1, <2>2, <2>4, <3>1 DEF Settled, Queues
  <2>. QED
    BY <1>1, <2>3, <2>4 DEF StartPoint, AttemptsLeft, Return
<1>2. CASE NoMessage
  <2>1. Abort(inbox, pending) /\ pc = "loop" /\ pc' = "start"
        /\ UNCHANGED <<type, op, value, iAtt, nBufLen, data, late, code, crashed, plcVars>>
    BY <1>2 DEF NoMessage, GiveUp
  <2>2. Queues({}, {}) /\ stale' = stale /\ (~unaborted' => inbox' = << >> /\ pending' = << >> /\ ~asked')
    BY <2>1, AbortChanges
  <2>. QED
    BY <2>1, <2>2 DEF Settled
<1>3. CASE WrongMessage
  BY <1>3, <1>s DEF WrongMessage, Return, Settled
<1>4. CASE TenSeconds
  BY <1>4 DEF TenSeconds, wireVars, Settled, Queues, WriteInv
<1>. QED
  BY <1>1, <1>2, <1>3, <1>4

\* What InitiateCnf does: the process dies, or the request is sent or not.
LEMMA InitiateChanges ==
  ASSUME IInv, InitiateCnf
  PROVE  /\ pc = "loop" /\ UNCHANGED <<type, op, value, iAtt, nBufLen, data, late, code, plcVars, stale>>
         /\ pc' \in {"start", "loop"}
         /\ \/ /\ op = "write" /\ nBufLen = "refused" /\ crashed' = TRUE
               /\ UNCHANGED <<inbox, pending, asked, unaborted>> /\ pc' = pc
            \/ (op = "write" => nBufLen # "refused") /\ UNCHANGED crashed
         /\ Queues({}, IF op = "write" /\ nBufLen = "refused" THEN {} ELSE {Request}) /\ Settled'
<1>. /\ TypeOK /\ inbox \in Seq(Messages) /\ pending \in Seq(Requests)
     /\ asked \in BOOLEAN /\ unaborted \in BOOLEAN
  BY DEF IInv, TypeOK
<1>1. pc = "loop" /\ inbox # << >> /\ UNCHANGED <<type, op, value, iAtt, nBufLen, data, late, code, plcVars>>
  BY DEF InitiateCnf
<1>2. CASE op = "write" /\ nBufLen = "refused" /\ crashed' = TRUE /\ UNCHANGED <<pc, wireVars>>
  BY <1>1, <1>2 DEF wireVars, Queues, Settled
<1>3. ASSUME ~(op = "write" /\ nBufLen = "refused"), UNCHANGED crashed,
             NEW requests \in {pending} \cup {r \in {Append(pending, Request)} : Len(r) <= MaxQueue},
             IF late
               THEN GiveUp(Tail(inbox), requests)
               ELSE inbox' = Tail(inbox) /\ pending' = requests /\ UNCHANGED <<pc, asked, unaborted, stale>>
      PROVE  Queues({}, {Request}) /\ Settled' /\ pc' \in {"start", "loop"} /\ stale' = stale
  <2>1. Request \in Requests
    BY DEF Request, Requests, TypeOK
  <2>2. requests \in Seq(Requests) /\ Elems(requests) \subseteq Elems(pending) \cup {Request}
    <3>1. CASE requests = pending
      BY <3>1
    <3>2. CASE requests = Append(pending, Request)
      BY <2>1, <3>2, ElemsAppend
    <3>. QED
      BY <1>3, <3>1, <3>2
  <2>3. Tail(inbox) \in Seq(Messages) /\ Elems(Tail(inbox)) \subseteq Elems(inbox)
    BY <1>1, ElemsTail
  <2>. HIDE DEF Request
  <2>4. CASE late
    <3>1. Abort(Tail(inbox), requests) /\ pc' = "start"
      BY <1>3, <2>4 DEF GiveUp
    <3>. QED
      BY <2>2, <2>3, <3>1, AbortChanges DEF Settled
  <2>5. CASE ~late
    BY <1>1, <1>3, <2>2, <2>3, <2>5 DEF Queues, Settled
  <2>. QED
    BY <2>4, <2>5
<1>. QED
  BY <1>1, <1>2, <1>3 DEF InitiateCnf, wireVars

\* What a confirmation does: it is the answer to this call, or to an earlier one.
LEMMA ConfirmationChanges ==
  ASSUME IInv, Confirmation
  PROVE  /\ pc = "loop" /\ Head(inbox) \in Messages /\ Head(inbox) \in Elems(inbox) /\ Head(inbox).kind = op
         /\ nBufLen' = NewLength(Head(inbox).confirmed)
         /\ data' = IF op = "read" /\ Head(inbox).confirmed THEN Head(inbox).data ELSE data
         /\ \/ pc' = "start" /\ UNCHANGED code
            \/ pc' = "idle" /\ code' = IF nBufLen' = "refused" THEN -4 ELSE 0
         /\ Queues({}, {}) /\ Settled'
         /\ UNCHANGED <<type, op, value, iAtt, late, crashed, plcVars, stale>>
<1>. /\ TypeOK /\ inbox \in Seq(Messages) /\ pending \in Seq(Requests)
  BY DEF IInv, TypeOK
<1>1. inbox # << >>
  BY DEF Confirmation
<1>2. /\ Tail(inbox) \in Seq(Messages) /\ Elems(Tail(inbox)) \subseteq Elems(inbox)
      /\ Head(inbox) \in Elems(inbox) /\ Head(inbox) \in Messages
  BY <1>1, ElemsTail
<1>3. Abort(Tail(inbox), pending) \/ Shut
  BY DEF Confirmation, GiveUp
<1>4. Queues({}, {}) /\ stale' = stale /\ (~unaborted' => inbox' = << >> /\ pending' = << >> /\ ~asked')
  BY <1>2, <1>3, AbortChanges
<1>5. \/ pc' = "start" /\ UNCHANGED code
      \/ pc' = "idle" /\ code' = IF nBufLen' = "refused" THEN -4 ELSE 0
  BY DEF Confirmation, GiveUp, Return
<1>. QED
  BY <1>2, <1>4, <1>5 DEF Confirmation, Settled

\* The message the driver delivers.
LEMMA DeliverChanges ==
  ASSUME TypeOK, NEW m \in Messages, Deliver(m), NEW r \in Seq(Requests), pending' = r,
         Elems(r) \subseteq Elems(pending), asked' \in BOOLEAN, UNCHANGED unaborted
  PROVE  Queues({m}, {})
<1>1. inbox' = Append(inbox, m) /\ inbox \in Seq(Messages) /\ unaborted \in BOOLEAN
  BY DEF Deliver, TypeOK
<1>. QED
  BY <1>1, ElemsAppend DEF Queues

\* The driver answers the demand for a connection, or it breaks.
LEMMA DriverChanges ==
  ASSUME IInv, PlcAccepts \/ PlcBreaks
  PROVE  /\ UNCHANGED <<callVars, unaborted, stale, plcVars>>
         /\ \E m : Queues({m}, {}) /\ (~stale => Answered(m)')
         /\ pc = "loop" \/ asked
<1>. TypeOK /\ pending \in Seq(Requests) /\ asked \in BOOLEAN
  BY DEF IInv, TypeOK
<1>1. CASE PlcAccepts
  <2>1. PICK m \in Messages : m.kind = "initiate" /\ Deliver(m)
    BY <1>1 DEF PlcAccepts, Message, Messages, Buffers
  <2>2. asked /\ asked' \in BOOLEAN /\ UNCHANGED pending /\ UNCHANGED <<callVars, unaborted, stale, plcVars>>
    BY <1>1 DEF PlcAccepts
  <2>3. Queues({m}, {})
    BY <2>1, <2>2, DeliverChanges
  <2>4. Answered(m)'
    BY <2>1 DEF Answered
  <2>. QED
    BY <2>2, <2>3, <2>4
<1>2. CASE PlcBreaks
  <2>1. PICK m \in Messages : m.kind = "abort" /\ Deliver(m)
    BY <1>2 DEF PlcBreaks, Message, Messages, Buffers
  <2>2. pc = "loop" /\ asked' \in BOOLEAN /\ pending' = << >>
        /\ UNCHANGED <<callVars, unaborted, stale, plcVars>>
    BY <1>2 DEF PlcBreaks
  <2>3. Queues({m}, {})
    BY <2>1, <2>2, DeliverChanges, ElemsEmpty
  <2>4. Answered(m)'
    BY <2>1 DEF Answered
  <2>. QED
    BY <2>2, <2>3, <2>4
<1>. QED
  BY <1>1, <1>2

\* What the PLC does with a request: it executes or refuses it.
LEMMA AnswerChanges ==
  ASSUME IInv, PlcExecutes \/ PlcRefuses
  PROVE  /\ UNCHANGED <<callVars, unaborted, stale>> /\ pending # << >>
         /\ memory' \in Values[type] /\ plc' \in PlcType
         /\ plc.values \subseteq plc'.values /\ plc.written \subseteq plc'.written
         /\ plc.refused => plc'.refused
         /\ memory' \in plc'.values
         /\ \E m : Queues({m}, {}) /\ (~stale => Answered(m)')
<1>. /\ TypeOK /\ WriteInv /\ QueueInv /\ pending \in Seq(Requests) /\ asked \in BOOLEAN
     /\ memory \in Values[type] /\ memory \in plc.values
     /\ type \in DOMAIN Values /\ type \in Types
  BY ExchangeAssumption DEF IInv, TypeOK, WriteInv
<1>0. plc \in PlcType
  BY DEF TypeOK, PlcType
<1>. DEFINE request == Head(pending)
            writes == request.op = "write" /\ request.length = "full"
<1>1. pending # << >> /\ pending' = Tail(pending) /\ UNCHANGED <<callVars, asked, unaborted, stale>>
  BY DEF PlcExecutes, PlcRefuses
<1>2. /\ request \in Requests /\ request \in Elems(pending)
      /\ Tail(pending) \in Seq(Requests) /\ Elems(Tail(pending)) \subseteq Elems(pending)
  BY <1>1, ElemsTail
<1>3. UNCHANGED <<type, value>>
  BY <1>1 DEF callVars
<1>a. CASE PlcExecutes
  <2>1. /\ memory' = (IF writes THEN PlcValue(type, request.data) ELSE memory)
        /\ plc' = [plc EXCEPT !.values = @ \cup {memory'}, !.confirmed = TRUE,
                              !.written = IF writes THEN @ \cup {memory'} ELSE @]
        /\ Deliver(Message(request.op, TRUE, PlcBytes(type, memory')))
    BY <1>a DEF PlcExecutes
  <2>2. memory' \in Values[type]
    <3>1. ASSUME writes
          PROVE  PlcValue(type, request.data) \in Values[type]
      <4>1. PICK v \in Values[type] : request.data = PlcBytes(type, v)
        BY <1>2, <3>1 DEF QueueInv, Sendable
      <4>2. PlcValue(type, PlcBytes(type, v)) = v
        BY BytesOfValue, Buffer
      <4>. QED
        BY <4>1, <4>2
    <3>. QED
      BY <2>1, <3>1
  <2>3. ~stale /\ writes => memory' = value
    <3>1. ASSUME ~stale, writes
          PROVE  PlcValue(type, request.data) = value
      <4>1. request.data = ToPlc(type, value) /\ value \in Values[type]
        BY <1>2, <3>1 DEF QueueInv, OwnRequest
      <4>. QED
        BY <4>1, Buffer
    <3>. QED
      BY <2>1, <3>1
  <2>4. ~stale /\ request.op = "write" /\ ~writes => value \in plc.written
    BY <1>2 DEF QueueInv, OwnRequest
  <2>. HIDE DEF writes
  <2>5. /\ plc' \in PlcType
        /\ plc'.values = plc.values \cup {memory'} /\ plc'.refused = plc.refused
        /\ plc'.written = IF writes THEN plc.written \cup {memory'} ELSE plc.written
    <3>1. CASE writes
      BY <1>0, <2>1, <2>2, <3>1 DEF PlcType
    <3>2. CASE ~writes
      BY <1>0, <2>1, <2>2, <3>2 DEF PlcType
    <3>. QED
      BY <3>1, <3>2
  <2>. DEFINE op1 == request.op  bytes == PlcBytes(type, memory')
  <2>6. PICK m \in Messages : m.kind = op1 /\ m.confirmed = TRUE /\ m.data = bytes /\ Deliver(m)
    BY <1>2, <2>1, <2>2 DEF Message, Messages, Buffers, Requests
  <2>7. Queues({m}, {})
    BY <1>1, <1>2, <2>1, <2>6, DeliverChanges
  <2>8. ~stale /\ request.op = "write" => value \in plc'.written
    BY <2>3, <2>4, <2>5
  <2>9. ~stale => Answered(m)'
    <3>1. memory' \in plc'.values
      BY <1>3, <2>5
    <3>. QED
      BY <1>3, <2>6, <2>8, <2>5 DEF Answered
  <2>. QED
    BY <1>1, <2>2, <2>5, <2>7, <2>9
<1>b. CASE PlcRefuses
  <2>1. memory' = memory /\ plc' = [plc EXCEPT !.refused = TRUE]
        /\ Deliver(Message(request.op, FALSE, NoValue))
    BY <1>b DEF PlcRefuses
  <2>2. /\ plc' \in PlcType /\ plc'.values = plc.values /\ plc'.written = plc.written
        /\ plc'.refused = TRUE
    BY <1>0, <2>1 DEF PlcType
  <2>3. PICK m \in Messages : m.confirmed = FALSE /\ Deliver(m)
    BY <1>2, <2>1 DEF Message, Messages, Buffers, Requests
  <2>4. Queues({m}, {})
    BY <1>1, <1>2, <2>1, <2>3, DeliverChanges
  <2>5. Answered(m)'
    BY <2>2, <2>3 DEF Answered
  <2>. QED
    BY <1>1, <2>1, <2>2, <2>4, <2>5
<1>. QED
  BY <1>a, <1>b

-----------------------------------------------------------------------------
(* The steps                                                               *)

\* The call begins: what is under way is not its own.
LEMMA BeginChanges ==
  ASSUME IInv, NEW o \in {"read", "write"}, NEW v \in Values[type], BeginCall(o, v)
  PROVE  /\ pc = "idle" /\ pc' = "start" /\ op' = o /\ iAtt' = 0 /\ nBufLen' = "full"
         /\ UNCHANGED <<type, late, code, crashed, inbox, pending, asked, unaborted, memory>>
         /\ stale' = unaborted
         /\ value' \in {v, NoValue} /\ data' \in Buffers
         /\ o = "write" => value' = v /\ data' = ToPlc(type, v)
         /\ plc' = Fresh(memory) /\ plc' \in PlcType /\ plc'.values = {memory}
<1>1. type \in DOMAIN Values /\ memory \in Values[type]
  BY DEF IInv, TypeOK
<1>2. ToPlc(type, v) \in Buffers /\ NoValue \in Buffers
  BY <1>1, Buffer DEF Buffers
<1>3. Fresh(memory) \in PlcType /\ Fresh(memory).values = {memory}
  BY <1>1 DEF Fresh, PlcType
<1>. QED
  BY <1>2, <1>3 DEF BeginCall

\* A call with a type that is not known.
LEMMA UnknownChanges ==
  ASSUME IInv, UnknownType
  PROVE  /\ pc' = "idle" /\ iAtt' = 0 /\ value' = NoValue /\ op' \in {"read", "write"}
         /\ code' \in {-1, -5, -6}
         /\ UNCHANGED <<type, nBufLen, data, late, crashed, plcVars, stale>>
         /\ Queues({}, {}) /\ Settled' /\ pending' = << >> /\ inbox' = << >>
BY ElemsEmpty DEF UnknownType, Return, Shut, Queues, Settled

LEMMA SettledType == IInv => Settled
BY DEF IInv, TypeOK, Settled

LEMMA TypeOKStep ==
  ASSUME IInv, [Next]_vars
  PROVE  TypeOK'
<1>. DEFINE CallType == /\ pc \in {"idle", "start", "loop"}
                        /\ op \in {"read", "write"}
                        /\ value \in Values[type] \cup {NoValue}
                        /\ iAtt \in 0 .. 3
                        /\ nBufLen \in {"full", "zero", "refused"}
                        /\ data \in Buffers
                        /\ late \in BOOLEAN /\ crashed \in BOOLEAN
                        /\ code \in -6 .. 0
            PlcsType == memory \in Values[type] /\ plc \in PlcType
            WireType == /\ inbox' \in Seq(Messages) /\ pending' \in Seq(Requests)
                        /\ asked' \in BOOLEAN /\ unaborted' \in BOOLEAN
                        /\ stale' \in BOOLEAN /\ Settled'
<1>. /\ TypeOK /\ CallType /\ PlcsType /\ type \in DOMAIN Values
     /\ stale \in BOOLEAN /\ unaborted \in BOOLEAN /\ asked \in BOOLEAN /\ Settled
     /\ inbox \in Seq(Messages) /\ pending \in Seq(Requests)
  BY SettledType DEF IInv, TypeOK, PlcType
<1>a. ASSUME type' = type, CallType', PlcsType', WireType
      PROVE  TypeOK'
  <2>1. Buffers' = Buffers /\ Messages' = Messages /\ Requests' = Requests
    BY <1>a DEF Buffers, Messages, Requests
  <2>. QED
    BY <1>a, <2>1 DEF TypeOK, Settled, PlcType
<1>b. ASSUME UNCHANGED plcVars, UNCHANGED type
      PROVE  PlcsType'
  BY <1>b DEF plcVars, PlcType
<1>c. ASSUME UNCHANGED callVars
      PROVE  CallType' /\ type' = type
  BY <1>c DEF callVars, Buffers
<1>d. ASSUME UNCHANGED type, NEW b \in Buffers
      PROVE  b \in Buffers'
  BY <1>d DEF Buffers
<1>e. ASSUME NEW m, NEW r, Queues(m, r), stale' = stale, Settled'
      PROVE  WireType
  BY <1>e DEF Queues
<1>1. ASSUME NEW o \in {"read", "write"}, NEW v \in Values[type], BeginCall(o, v)
      PROVE  TypeOK'
  <2>1. /\ pc = "idle" /\ pc' = "start" /\ op' = o /\ iAtt' = 0 /\ nBufLen' = "full"
        /\ UNCHANGED <<type, late, code, crashed, inbox, pending, asked, unaborted, memory>>
        /\ stale' = unaborted
        /\ value' \in {v, NoValue} /\ data' \in Buffers /\ plc' \in PlcType
    BY <1>1, BeginChanges
  <2>2. data' \in Buffers'
    BY <1>d, <2>1
  <2>3. CallType'
    BY <2>1, <2>2
  <2>4. PlcsType'
    BY <2>1 DEF PlcType
  <2>5. WireType
    BY <2>1 DEF Settled
  <2>. QED
    BY <1>a, <2>1, <2>3, <2>4, <2>5
<1>2. CASE UnknownType
  <2>1. /\ pc' = "idle" /\ iAtt' = 0 /\ value' = NoValue /\ op' \in {"read", "write"}
        /\ code' \in {-1, -5, -6}
        /\ UNCHANGED <<type, nBufLen, data, late, crashed, plcVars, stale>>
        /\ Queues({}, {}) /\ Settled'
    BY <1>2, UnknownChanges
  <2>2. CallType'
    BY <1>d, <2>1
  <2>. QED
    BY <1>a, <1>b, <1>e, <2>1, <2>2
<1>3. CASE StartPoint \/ NoMessage \/ WrongMessage \/ TenSeconds
  <2>1. /\ UNCHANGED <<type, op, value, nBufLen, data, crashed, plcVars, stale>>
        /\ pc' \in {"idle", "start", "loop"} /\ iAtt' \in 0 .. 3 /\ late' \in BOOLEAN
        /\ code' = code \/ code' \in {-1, -2, -3}
        /\ Queues({}, {}) /\ Settled'
    BY <1>3, CallChanges
  <2>2. CallType'
    BY <1>d, <2>1
  <2>. QED
    BY <1>a, <1>b, <1>e, <2>1, <2>2
<1>4. CASE InitiateCnf
  <2>. DEFINE sent == IF op = "write" /\ nBufLen = "refused" THEN {} ELSE {Request}
  <2>1. /\ UNCHANGED <<type, op, value, iAtt, nBufLen, data, late, code, plcVars, stale>>
        /\ pc' \in {"start", "loop"} /\ crashed' \in BOOLEAN
        /\ Queues({}, sent) /\ Settled'
    BY <1>4, InitiateChanges
  <2>. HIDE DEF sent
  <2>2. CallType'
    BY <1>d, <2>1
  <2>. QED
    BY <1>a, <1>b, <1>e, <2>1, <2>2
<1>5. CASE Confirmation
  <2>1. /\ UNCHANGED <<type, op, value, iAtt, late, crashed, plcVars, stale>>
        /\ Head(inbox) \in Messages
        /\ nBufLen' = NewLength(Head(inbox).confirmed)
        /\ data' = (IF op = "read" /\ Head(inbox).confirmed THEN Head(inbox).data ELSE data)
        /\ pc' \in {"idle", "start"} /\ code' \in -6 .. 0
        /\ Queues({}, {}) /\ Settled'
    BY <1>5, ConfirmationChanges
  <2>2. data' \in Buffers
    BY <2>1 DEF Messages
  <2>3. data' \in Buffers'
    BY <1>d, <2>1, <2>2
  <2>4. nBufLen' \in {"full", "zero", "refused"}
    BY <2>1 DEF NewLength
  <2>5. CallType'
    BY <2>1, <2>3, <2>4
  <2>. QED
    BY <1>a, <1>b, <1>e, <2>1, <2>5
<1>s. ASSUME UNCHANGED <<callVars, unaborted>>, pc = "loop" \/ asked \/ pending # << >>
      PROVE  Settled'
  <2>1. pc' = pc /\ unaborted' = unaborted
    BY <1>s DEF callVars
  <2>. QED
    BY <1>s, <2>1 DEF Settled
<1>6. CASE PlcAccepts \/ PlcBreaks
  <2>1. /\ UNCHANGED callVars /\ UNCHANGED plcVars /\ stale' = stale /\ unaborted' = unaborted
        /\ pc = "loop" \/ asked
        /\ \E m : Queues({m}, {})
    BY <1>6, DriverChanges
  <2>2. Settled'
    BY <1>s, <2>1
  <2>. QED
    BY <1>a, <1>b, <1>c, <1>e, <2>1, <2>2
<1>7. CASE PlcExecutes \/ PlcRefuses
  <2>1. /\ UNCHANGED callVars /\ stale' = stale /\ unaborted' = unaborted /\ pending # << >>
        /\ memory' \in Values[type] /\ plc' \in PlcType
        /\ \E m : Queues({m}, {})
    BY <1>7, AnswerChanges
  <2>2. Settled'
    BY <1>s, <2>1
  <2>3. CallType' /\ type' = type
    BY <1>c, <2>1
  <2>4. PlcsType'
    BY <2>1, <2>3 DEF PlcType
  <2>. QED
    BY <1>a, <1>e, <2>1, <2>2, <2>3, <2>4
<1>9. CASE PlcChanges
  <2>1. UNCHANGED callVars /\ UNCHANGED wireVars /\ memory' \in Values[type]
        /\ plc' = [plc EXCEPT !.values = @ \cup {memory'}]
    BY <1>9 DEF PlcChanges
  <2>2. plc' \in PlcType
    BY <2>1 DEF PlcType
  <2>3. CallType' /\ type' = type
    BY <1>c, <2>1
  <2>4. PlcsType'
    BY <2>1, <2>2, <2>3 DEF PlcType
  <2>5. WireType
    BY <2>1 DEF wireVars, callVars, Settled
  <2>. QED
    BY <1>a, <2>3, <2>4, <2>5
<1>10. CASE UNCHANGED vars
  <2>1. UNCHANGED callVars /\ UNCHANGED wireVars /\ UNCHANGED plcVars
    BY <1>10 DEF vars
  <2>2. WireType
    BY <2>1 DEF wireVars, callVars, Settled
  <2>. QED
    BY <1>a, <1>b, <1>c, <2>1, <2>2
<1>. QED
  BY <1>1, <1>2, <1>3, <1>4, <1>5, <1>6, <1>7, <1>9, <1>10 DEF Next, Step

\* What is under way stays the call's own when the call goes on with the same value,
\* the PLC has not forgotten anything, and what is new is the call's own.
LEMMA QueueKept ==
  ASSUME IInv, NEW m, NEW r, Queues(m, r), UNCHANGED <<type, value, stale>>,
         plc.values \subseteq plc'.values, plc.written \subseteq plc'.written, plc.refused => plc'.refused,
         ~stale => \A x \in m : Answered(x)',
         \A x \in r : (x.op = "write" => x.data \in Sendable) /\ (~stale => OwnRequest(x))
  PROVE  QueueInv'
<1>. QueueInv
  BY DEF IInv
<1>1. Sendable' = Sendable
  BY DEF Sendable
<1>2. ASSUME ~stale', NEW x \in Elems(inbox')
      PROVE  Answered(x)'
  <2>1. CASE x \in Elems(inbox)
    BY <1>2, <2>1 DEF QueueInv, Answered
  <2>2. CASE x \in m
    BY <1>2, <2>2
  <2>. QED
    BY <1>2, <2>1, <2>2 DEF Queues
<1>3. ASSUME NEW x \in Elems(pending')
      PROVE  (x.op = "write" => x.data \in Sendable') /\ (~stale' => OwnRequest(x)')
  <2>1. (x.op = "write" => x.data \in Sendable) /\ (~stale => OwnRequest(x))
    BY <1>3 DEF QueueInv, Queues
  <2>2. OwnRequest(x) => OwnRequest(x)'
    BY DEF OwnRequest
  <2>. QED
    BY <1>1, <2>1, <2>2
<1>. QED
  BY <1>2, <1>3 DEF QueueInv, Elems

LEMMA QueueStep ==
  ASSUME IInv, [Next]_vars
  PROVE  QueueInv'
<1>. TypeOK /\ QueueInv /\ WriteInv /\ type \in DOMAIN Values
  BY DEF IInv, TypeOK
<1>1. ASSUME NEW o \in {"read", "write"}, NEW v \in Values[type], BeginCall(o, v)
      PROVE  QueueInv'
  <2>1. UNCHANGED <<type, inbox, pending>> /\ stale' = unaborted /\ pc = "idle"
    BY <1>1, BeginChanges
  <2>2. ~stale' => inbox' = << >> /\ pending' = << >>
    BY <2>1 DEF TypeOK
  <2>3. Sendable' = Sendable
    BY <2>1 DEF Sendable
  <2>4. ~stale' => Elems(inbox') = {} /\ Elems(pending') = {}
    BY <2>2, ElemsEmpty
  <2>5. \A r \in Elems(pending') : r.op = "write" => r.data \in Sendable'
    BY <2>1, <2>3 DEF QueueInv
  <2>. QED
    BY <2>4, <2>5 DEF QueueInv, Elems
<1>2. CASE UnknownType
  <2>1. pending' = << >> /\ inbox' = << >>
    BY <1>2, UnknownChanges
  <2>2. Elems(pending') = {} /\ Elems(inbox') = {}
    BY <2>1, ElemsEmpty
  <2>. QED
    BY <2>2 DEF QueueInv, Elems
<1>3. CASE StartPoint \/ NoMessage \/ WrongMessage \/ TenSeconds
  <2>1. UNCHANGED <<type, op, value, nBufLen, data, crashed, plcVars, stale>> /\ Queues({}, {})
    BY <1>3, CallChanges
  <2>2. UNCHANGED <<type, value, stale>> /\ plc' = plc
    BY <2>1 DEF plcVars
  <2>. QED
    BY <2>1, <2>2, QueueKept
<1>4. CASE InitiateCnf
  <2>. DEFINE sent == IF op = "write" /\ nBufLen = "refused" THEN {} ELSE {Request}
  <2>1. /\ UNCHANGED <<type, op, value, iAtt, nBufLen, data, late, code, plcVars, stale>> /\ pc = "loop"
        /\ Queues({}, sent)
    BY <1>4, InitiateChanges
  <2>2. UNCHANGED <<type, value, stale>> /\ plc' = plc
    BY <2>1 DEF plcVars
  <2>3. ASSUME NEW x \in sent
        PROVE  (x.op = "write" => x.data \in Sendable) /\ (~stale => OwnRequest(x))
    <3>1. x = Request /\ x.op = op /\ x.length = nBufLen /\ x.data = data
          /\ ~(op = "write" /\ nBufLen = "refused")
      BY <2>3 DEF Request
    <3>2. op = "write" => value \in Values[type] /\ data = ToPlc(type, value)
      BY <2>1 DEF WriteInv
    <3>3. op = "write" => data \in Sendable
      BY <3>2, Buffer DEF Sendable
    <3>4. op = "write" /\ ~stale => nBufLen = "full" \/ value \in plc.written
      BY <2>1, <3>1 DEF WriteInv, TypeOK
    <3>. QED
      BY <3>1, <3>2, <3>3, <3>4 DEF OwnRequest
  <2>. HIDE DEF sent
  <2>. QED
    BY <2>1, <2>2, <2>3, QueueKept
<1>5. CASE Confirmation
  <2>1. UNCHANGED <<type, op, value, iAtt, late, crashed, plcVars, stale>> /\ Queues({}, {})
    BY <1>5, ConfirmationChanges
  <2>2. UNCHANGED <<type, value, stale>> /\ plc' = plc
    BY <2>1 DEF plcVars
  <2>. QED
    BY <2>1, <2>2, QueueKept
<1>6. CASE PlcAccepts \/ PlcBreaks
  <2>1. UNCHANGED <<callVars, unaborted, stale, plcVars>>
        /\ \E m : Queues({m}, {}) /\ (~stale => Answered(m)')
    BY <1>6, DriverChanges
  <2>2. UNCHANGED <<type, value, stale>> /\ plc' = plc
    BY <2>1 DEF callVars, plcVars
  <2>. QED
    BY <2>1, <2>2, QueueKept
<1>7. CASE PlcExecutes \/ PlcRefuses
  <2>1. /\ UNCHANGED <<callVars, unaborted, stale>>
        /\ plc.values \subseteq plc'.values /\ plc.written \subseteq plc'.written
        /\ plc.refused => plc'.refused
        /\ \E m : Queues({m}, {}) /\ (~stale => Answered(m)')
    BY <1>7, AnswerChanges
  <2>2. UNCHANGED <<type, value, stale>>
    BY <2>1 DEF callVars
  <2>. QED
    BY <2>1, <2>2, QueueKept
<1>o. ASSUME UNCHANGED callVars, UNCHANGED wireVars,
             plc.values \subseteq plc'.values, plc.written \subseteq plc'.written, plc.refused => plc'.refused
      PROVE  QueueInv'
  <2>1. UNCHANGED <<type, value, stale, inbox, pending, asked, unaborted>>
    BY <1>o DEF callVars, wireVars
  <2>2. Queues({}, {})
    BY <2>1 DEF Queues, TypeOK
  <2>. QED
    BY <1>o, <2>1, <2>2, QueueKept
<1>9. CASE PlcChanges
  <2>1. plc' = [plc EXCEPT !.values = @ \cup {memory'}] /\ UNCHANGED callVars /\ UNCHANGED wireVars
    BY <1>9 DEF PlcChanges
  <2>2. plc \in PlcType
    BY DEF TypeOK, PlcType
  <2>3. plc.values \subseteq plc'.values /\ plc'.written = plc.written /\ plc'.refused = plc.refused
    BY <2>1, <2>2 DEF PlcType
  <2>. QED
    BY <1>o, <2>1, <2>3
<1>10. CASE UNCHANGED vars
  BY <1>10, <1>o DEF vars, plcVars
<1>. QED
  BY <1>1, <1>2, <1>3, <1>4, <1>5, <1>6, <1>7, <1>9, <1>10 DEF Next, Step

LEMMA WriteStep ==
  ASSUME IInv, [Next]_vars
  PROVE  WriteInv'
<1>. TypeOK /\ QueueInv /\ WriteInv /\ memory \in Values[type] /\ nBufLen \in {"full", "zero", "refused"}
  BY DEF IInv, TypeOK
<1>a. ASSUME UNCHANGED <<type, op, value, nBufLen, data, stale>>, pc' = "idle" \/ pc # "idle",
             pc' = "loop" => iAtt' > 0, memory' \in plc'.values,
             plc.written \subseteq plc'.written, plc.refused => plc'.refused
      PROVE  WriteInv'
  BY <1>a DEF WriteInv
<1>1. ASSUME NEW o \in {"read", "write"}, NEW v \in Values[type], BeginCall(o, v)
      PROVE  WriteInv'
  <2>1. /\ pc' = "start" /\ op' = o /\ UNCHANGED <<type, memory>> /\ nBufLen' = "full"
        /\ (o = "write" => value' = v /\ data' = ToPlc(type, v)) /\ plc'.values = {memory}
    BY <1>1, BeginChanges
  <2>. QED
    BY <2>1 DEF WriteInv
<1>2. CASE UnknownType
  <2>1. pc' = "idle" /\ UNCHANGED <<memory, plc>>
    BY <1>2, UnknownChanges DEF plcVars
  <2>. QED
    BY <2>1 DEF WriteInv
<1>3. CASE StartPoint \/ NoMessage \/ WrongMessage \/ TenSeconds
  <2>1. /\ UNCHANGED <<type, op, value, nBufLen, data, stale>> /\ pc # "idle"
        /\ (pc' = "loop" => iAtt' > 0) /\ UNCHANGED <<memory, plc>>
    BY <1>3, CallChanges DEF plcVars
  <2>. QED
    BY <1>a, <2>1 DEF WriteInv
<1>4. CASE InitiateCnf
  <2>1. /\ UNCHANGED <<type, op, value, nBufLen, data, stale, iAtt, memory, plc>> /\ pc = "loop"
    BY <1>4, InitiateChanges DEF plcVars
  <2>. QED
    BY <1>a, <2>1 DEF WriteInv
<1>5. CASE Confirmation
  <2>1. /\ pc = "loop" /\ Head(inbox) \in Elems(inbox) /\ Head(inbox).kind = op
        /\ nBufLen' = NewLength(Head(inbox).confirmed) /\ pc' # "loop"
        /\ op = "write" => data' = data
        /\ UNCHANGED <<type, op, value, memory, plc, stale>>
    BY <1>5, ConfirmationChanges DEF plcVars
  <2>2. ~stale => Answered(Head(inbox))
    BY <2>1 DEF QueueInv
  <2>3. op = "write" /\ ~stale =>
          /\ nBufLen' = "zero" => value \in plc.written
          /\ nBufLen' = "refused" => plc.refused
    <3>1. CASE Head(inbox).confirmed
      BY <2>1, <2>2, <3>1 DEF Answered, NewLength
    <3>2. CASE ~Head(inbox).confirmed
      BY <2>1, <2>2, <3>2 DEF Answered, NewLength
    <3>. QED
      BY <3>1, <3>2
  <2>. QED
    BY <2>1, <2>3 DEF WriteInv
<1>6. CASE PlcAccepts \/ PlcBreaks
  <2>1. UNCHANGED <<pc, type, op, value, iAtt, nBufLen, data, stale, memory, plc>>
    BY <1>6, DriverChanges DEF callVars, plcVars
  <2>. QED
    BY <1>a, <2>1 DEF WriteInv
<1>7. CASE PlcExecutes \/ PlcRefuses
  <2>1. /\ UNCHANGED <<pc, type, op, value, iAtt, nBufLen, data, stale>>
        /\ plc.written \subseteq plc'.written /\ (plc.refused => plc'.refused)
        /\ memory' \in plc'.values
    BY <1>7, AnswerChanges DEF callVars
  <2>2. pc' = "loop" => iAtt' > 0
    BY <2>1 DEF WriteInv
  <2>3. pc' = "idle" \/ pc # "idle"
    BY <2>1
  <2>. QED
    BY <1>a, <2>1, <2>2, <2>3
<1>9. CASE PlcChanges
  <2>1. UNCHANGED <<pc, type, op, value, iAtt, nBufLen, data, stale>>
        /\ plc' = [plc EXCEPT !.values = @ \cup {memory'}]
    BY <1>9 DEF PlcChanges, callVars, wireVars
  <2>2. plc \in PlcType
    BY DEF TypeOK, PlcType
  <2>3. plc'.values = plc.values \cup {memory'} /\ plc'.written = plc.written /\ plc'.refused = plc.refused
    BY <2>1, <2>2 DEF PlcType
  <2>. QED
    BY <1>a, <2>1, <2>3 DEF WriteInv
<1>10. CASE UNCHANGED vars
  BY <1>10, <1>a DEF vars, callVars, wireVars, plcVars, WriteInv
<1>. QED
  BY <1>1, <1>2, <1>3, <1>4, <1>5, <1>6, <1>7, <1>9, <1>10 DEF Next, Step

LEMMA ReturnStep ==
  ASSUME IInv, [Next]_vars
  PROVE  ReturnInv'
<1>. TypeOK /\ QueueInv /\ WriteInv /\ ReturnInv
  BY DEF IInv
<1>. USE DEF ReturnInv, WriteReturnsWritten, CrashNeedsRefusal, Returned
<1>0. CASE UNCHANGED vars
  BY <1>0 DEF vars, callVars, wireVars, plcVars
<1>. SUFFICES ASSUME ~crashed, Next
              PROVE  ReturnInv'
  BY <1>0 DEF Next
<1>1. ASSUME NEW o \in {"read", "write"}, NEW v \in Values[type], BeginCall(o, v)
      PROVE  ReturnInv'
  BY <1>1, BeginChanges
<1>2. CASE UnknownType
  BY <1>2, UnknownChanges
<1>3. CASE StartPoint \/ NoMessage \/ WrongMessage \/ TenSeconds
  <2>1. ~crashed' /\ (pc' = "idle" => code' \in {-1, -2, -3})
    BY <1>3, CallChanges
  <2>. QED
    BY <2>1
<1>4. CASE InitiateCnf
  <2>1. pc = "loop" /\ pc' # "idle" /\ UNCHANGED <<type, op, value, data, code, memory, plc, stale>>
    BY <1>4, InitiateChanges DEF plcVars
  <2>2. CASE op = "write" /\ nBufLen = "refused" /\ crashed' = TRUE
    <3>1. ~stale => plc.refused
      BY <2>1, <2>2 DEF WriteInv
    <3>. QED
      BY <2>1, <2>2, <3>1
  <2>3. CASE UNCHANGED crashed
    BY <2>1, <2>3
  <2>. QED
    BY <1>4, <2>2, <2>3, InitiateChanges
<1>5. CASE Confirmation
  <2>1. /\ pc = "loop" /\ Head(inbox) \in Elems(inbox) /\ Head(inbox).kind = op /\ ~crashed'
        /\ nBufLen' = NewLength(Head(inbox).confirmed)
        /\ data' = IF op = "read" /\ Head(inbox).confirmed THEN Head(inbox).data ELSE data
        /\ pc' = "idle" => code' = IF nBufLen' = "refused" THEN -4 ELSE 0
        /\ UNCHANGED <<type, op, value, memory, plc, stale>>
    BY <1>5, ConfirmationChanges DEF plcVars
  <2>2. ~stale => Answered(Head(inbox))
    BY <2>1 DEF QueueInv
  <2>3. CASE Head(inbox).confirmed
    BY <2>1, <2>2, <2>3 DEF Answered
  <2>4. CASE ~Head(inbox).confirmed
    BY <2>1, <2>2, <2>4 DEF NewLength
  <2>. QED
    BY <2>3, <2>4
<1>a. ASSUME UNCHANGED callVars, stale' = stale, plc.values \subseteq plc'.values,
             plc.written \subseteq plc'.written
      PROVE  ReturnInv'
  BY <1>a DEF callVars
<1>6. CASE PlcAccepts \/ PlcBreaks
  BY <1>6, <1>a, DriverChanges DEF plcVars
<1>7. CASE PlcExecutes \/ PlcRefuses
  BY <1>7, <1>a, AnswerChanges
<1>9. CASE PlcChanges
  <2>1. plc' = [plc EXCEPT !.values = @ \cup {memory'}] /\ UNCHANGED callVars /\ stale' = stale
    BY <1>9 DEF PlcChanges, wireVars
  <2>2. plc \in PlcType
    BY DEF TypeOK, PlcType
  <2>3. plc.values \subseteq plc'.values /\ plc'.written = plc.written
    BY <2>1, <2>2 DEF PlcType
  <2>. QED
    BY <1>a, <2>1, <2>3
<1>. QED
  BY <1>1, <1>2, <1>3, <1>4, <1>5, <1>6, <1>7, <1>9 DEF Next, Step

-----------------------------------------------------------------------------
(* The theorems                                                            *)

LEMMA InitInv == Init => IInv
<1>. SUFFICES ASSUME Init PROVE IInv
  OBVIOUS
<1>1. /\ pc = "idle" /\ op = "read" /\ iAtt = 0 /\ nBufLen = "full"
      /\ data = NoValue /\ late = FALSE /\ code = 0 /\ crashed = FALSE
      /\ inbox = << >> /\ pending = << >> /\ asked = FALSE /\ unaborted = FALSE /\ stale = FALSE
      /\ type \in DOMAIN Values /\ value = NoValue /\ memory \in Values[type]
      /\ plc = [values |-> {memory}, written |-> {}, confirmed |-> FALSE, refused |-> FALSE]
  BY DEF Init, Fresh
<1>2. plc \in PlcType /\ plc.values = {memory}
  BY <1>1 DEF PlcType
<1>3. << >> \in Seq(Messages) /\ << >> \in Seq(Requests) /\ NoValue \in Buffers /\ Elems(<< >>) = {}
  BY ElemsEmpty DEF Buffers
<1>4. TypeOK
  <2>1. iAtt \in 0 .. 3 /\ code \in -6 .. 0
    BY <1>1
  <2>2. /\ pc \in {"idle", "start", "loop"} /\ op \in {"read", "write"}
        /\ value \in Values[type] \cup {NoValue} /\ nBufLen \in {"full", "zero", "refused"}
        /\ inbox \in Seq(Messages) /\ pending \in Seq(Requests) /\ data \in Buffers
    BY <1>1, <1>3
  <2>3. late \in BOOLEAN /\ crashed \in BOOLEAN /\ asked \in BOOLEAN /\ unaborted \in BOOLEAN /\ stale \in BOOLEAN
    BY <1>1
  <2>. QED
    BY <1>1, <1>2, <2>1, <2>2, <2>3 DEF TypeOK, PlcType
<1>5. QueueInv /\ WriteInv
  BY <1>1, <1>2, <1>3 DEF QueueInv, WriteInv
<1>6. ReturnInv
  BY <1>1 DEF ReturnInv, WriteReturnsWritten, CrashNeedsRefusal, Returned
<1>. QED
  BY <1>4, <1>5, <1>6 DEF IInv

\* The invariant that carries the theorems below.
THEOREM Invariance == Spec => []IInv
<1>1. IInv /\ [Next]_vars => IInv'
  BY TypeOKStep, QueueStep, WriteStep, ReturnStep DEF IInv
<1>. QED
  BY <1>1, InitInv, PTL DEF Spec

\* Every variable keeps its type, and outside the receive loop nothing is under way
\* unless s7_abort has failed.
THEOREM TypeCorrect == Spec => []TypeOK
BY Invariance, PTL DEF IInv

\* A write that returns no error has given the variable the caller's value, for any
\* value of any type (CConnection.cpp:260-362, 592-676).
THEOREM WrittenOnSuccess == Spec => []WriteReturnsWritten
<1>1. IInv => WriteReturnsWritten
  BY DEF IInv, ReturnInv
<1>. QED
  BY <1>1, Invariance, PTL

\* A read that returns no error returns a value the variable had during the call
\* (CConnection.cpp:156-258, 441-590).
THEOREM CurrentOnSuccess == Spec => []ReadReturnsCurrent
<1>1. ASSUME IInv, Returned("read"), code = 0
      PROVE  StandsFor(FromPlc(type, data)) \in plc.values
  <2>1. PICK v \in plc.values : data = PlcBytes(type, v)
    BY <1>1 DEF IInv, ReturnInv
  <2>2. type \in Types /\ v \in TypeRange(type)
    <3>1. v \in Values[type] /\ type \in DOMAIN Values
      BY <1>1, <2>1 DEF IInv, TypeOK
    <3>. QED
      BY <3>1, Buffer
  <2>3. StandsFor(FromPlc(type, data)) = v
    BY <2>1, <2>2, ReadBytes DEF StandsFor
  <2>. QED
    BY <2>1, <2>3
<1>2. IInv => ReadReturnsCurrent
  BY <1>1 DEF ReadReturnsCurrent
<1>. QED
  BY <1>2, Invariance, PTL

\* The process dies in the copy of the value only if the PLC has refused this write
\* (CConnection.cpp:306-318), unless an s7_abort before this call had failed.
THEOREM CrashCause == Spec => []CrashNeedsRefusal
<1>1. IInv => CrashNeedsRefusal
  BY DEF IInv, ReturnInv
<1>. QED
  BY <1>1, Invariance, PTL
=============================================================================
