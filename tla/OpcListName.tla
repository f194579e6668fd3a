------------------------------ MODULE OpcListName ------------------------------
(***************************************************************************)
(* The name OpcS7.dll gives to the OPC group of a list of items            *)
(* (OpcS7/EdpsParams.cpp).  A group that exists under the name is used as  *)
(* it is, so two lists that get one name share the items of the first.  A  *)
(* DWORD is the set of its bits that are 1; a text is the sequence of its  *)
(* character codes.                                                        *)
(***************************************************************************)
EXTENDS Integers, Sequences

\* The bits of a number below 256: a character, or the length of a text.
BitsOf(n) == {b \in 0 .. 7 : (n \div 2 ^ b) % 2 = 1}

Rotated(h) == {(b + 1) % 32 : b \in h}

Xor(g, h) == (g \ h) \cup (h \ g)

\* dwHash after the characters of a text.
Mixed(h, text) ==
  LET mixed[k \in 0 .. Len(text)] ==
        IF k = 0 THEN h ELSE Xor(Rotated(mixed[k - 1]), BitsOf(text[k]))
  IN mixed[Len(text)]

AddHash(h, text) == Mixed(h, text) \cup BitsOf(Len(text))

\* The name of the list of items with these identifiers and these texts.
GetListName(ids, texts) ==
  LET hash[k \in 0 .. Len(texts)] == IF k = 0 THEN {} ELSE AddHash(hash[k - 1], texts[k])
  IN <<ids, hash[Len(texts)]>>
=============================================================================
