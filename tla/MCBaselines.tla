----------------------------- MODULE MCBaselines -----------------------------
(* Blocks of six 16-bit words of four 4-bit bytes, so that three 8-byte     *)
(* values are compared and every mode of BDI is the best of some block. The *)
(* words in even places stay below 2^15, for TLC's integers.                *)
EXTENDS BaselineEvaluation

(* Zero, small and negative numbers, numbers of one half, words that share  *)
(* their high byte or half with another, repeated bytes, small differences. *)
High == {0, 3, 4660, 4661, 4700, 65436, 65534}
Low  == {0, 100, 4608, 4661, 17476, 32767}

Arranged ==
  {BlockOf(<<a, b, c, d, a, b>>) : a, c \in High, b \in Low, d \in {0, 4607}} \cup
  {BlockOf(<<a, b, c, b, c, b>>) : a, c \in High, b \in Low}

(* Runs and repetitions of bytes, for matches that overlap themselves;      *)
(* 2-byte values close to each other; frequencies that make long codes.     *)
Bytewise ==
  {[i \in 1..24 |-> IF i % 8 = 0 THEN 1 ELSE i % n] : n \in 2..7} \cup
  {[i \in 1..24 |-> IF i <= n THEN 5 ELSE i \div 4] : n \in 1..23} \cup
  {[i \in 1..24 |-> IF i % 2 = 0 THEN 1 ELSE (i * i) % n] : n \in {5, 7, 11}} \cup
  {<<1, 1, 1, 1, 1, 1, 1, 1, 1, 1, 1, 1, 2, 2, 2, 2, 2, 2, 3, 3, 3, 4, 4, 5>>,
   <<9, 8, 9, 8, 9, 8, 9, 1, 2, 9, 8, 9, 8, 9, 8, 1, 9, 8, 9, 2, 9, 8, 9, 1>>}

MCTraces ==
  {<<b>> : b \in Arranged \cup Bytewise} \cup
  {<< >>, <<BlockOf(<<0, 0, 0, 0, 0, 0>>), BlockOf(<<4660, 3, 4661, 4660, 0, 0>>),
            BlockOf(<<65534, 32767, 4660, 17476, 99, 7>>), BlockOf(<<3, 0, 0, 0, 0, 0>>)>>}

MCTargetLists == {<<8, 4, 8, 12>>, <<24, 4>>}
=============================================================================
