--------------------------------- MODULE RangeCoder ---------------------------------
(***************************************************************************)
(* The compressor of the boot modules (lib/librc): an adaptive range coder *)
(* over a binary indexed table of frequencies, and the coder of zero runs. *)
(* The words are scaled down: a byte has ByteBits bits and a word four     *)
(* bytes.  impl is the encoder after the characters of ideal; got is what  *)
(* the decoder makes of its output, want the characters.                   *)
(***************************************************************************)
EXTENDS Integers, SequencesExt, FiniteSetsExt

CONSTANTS
  ByteBits,
  FreqInc,     \* FREQ_INC
  FreqLimit,   \* FREQ_LIMIT
  TextMax,     \* the longest text compressed
  RunByte,     \* the bytes of the texts given to the zero run coder
  RunMax       \* and their longest

VARIABLES kind, impl, ideal, got, want

ByteRange == 2 ^ ByteBits
WordRange == ByteRange ^ 4
MaxRange == WordRange - 1
MinRange == ByteRange ^ 3
ChrRange == ByteRange + 1
ChrEos == ByteRange
Error == <<-1>>

-----------------------------------------------------------------------------
(* bit_common.c: count[i] holds the frequencies of the lowest bit of i        *)
(* characters up to i; count[0] that of 0.                                    *)

RECURSIVE LowBit(_)
LowBit(c) == IF c % 2 = 1 THEN 1 ELSE 2 * LowBit(c \div 2)

RECURSIVE Chain(_)
Chain(c) == IF c >= ChrRange THEN {} ELSE {c} \cup Chain(c + LowBit(c))
Inc(freq, ch, n) ==
  LET touched == IF ch > 0 THEN Chain(ch) ELSE {0}
  IN [count |-> [c \in 0..(ChrRange - 1) |-> freq.count[c] + IF c \in touched THEN n ELSE 0],
      sum |-> freq.sum + n]

FrequencyInitialize ==
  FoldLeft(LAMBDA f, i : Inc(f, i - 1, 1), [count |-> [c \in 0..(ChrRange - 1) |-> 0], sum |-> 0],
           [i \in 1..ChrRange |-> i])
Mid == ByteRange \div 2

\* The nodes met from i down to j by dropping the lowest bit.
RECURSIVE Down(_, _)
Down(i, j) == IF i = j THEN {} ELSE {i} \cup Down(i - LowBit(i), j)
SumCounts(freq, nodes) == FoldFunctionOnSet(LAMBDA a, b : a + b, 0, freq.count, nodes)
FrequencyCount(freq, ch) ==
  IF ch > 0 /\ ch % 2 = 0
  THEN freq.count[ch] - SumCounts(freq, Down(ch - 1, ch - LowBit(ch)))
  ELSE freq.count[ch]

FrequencyUpdate(freq, ch) ==
  LET f == Inc(freq, ch, FreqInc)
  IN IF f.sum < FreqLimit THEN f
     ELSE FoldLeft(LAMBDA g, i : Inc(g, i - 1, -(FrequencyCount(g, i - 1) \div 2)), f,
                   [i \in 1..ChrRange |-> i])

-----------------------------------------------------------------------------
(* bit_encode.c, drc_encode.c.  The first byte put is dropped (bputc_1st).    *)

RcInitialize == [range |-> MaxRange, low |-> 0, carry |-> FALSE, buf |-> 0, count |-> 0, out |-> <<>>]
\* put stores a byte.
PutBuf(rc, ch, n) == [rc EXCEPT !.out = Append(@, rc.buf % ByteRange) \o [i \in 1..n |-> ch]]

RECURSIVE EncodeShift(_)
EncodeShift(rc) ==
  LET settled == rc.low < (ByteRange - 1) * MinRange
      put == IF settled
             THEN [PutBuf(rc, ByteRange - 1, rc.count) EXCEPT !.buf = rc.low \div MinRange, !.count = 0]
             ELSE [rc EXCEPT !.count = @ + 1]
  IN IF rc.range >= MinRange THEN rc
     ELSE EncodeShift([put EXCEPT !.low = (@ * ByteRange) % WordRange, !.range = @ * ByteRange])

\* Mutant: a carry does not reach the bytes held back.
EncodeNormalizeNoCarry(rc) == EncodeShift([rc EXCEPT !.carry = FALSE])

EncodeNormalize(rc) ==
  LET up == [rc EXCEPT !.carry = FALSE, !.buf = @ + 1]
  IN EncodeShift(IF ~rc.carry THEN rc
                 ELSE IF rc.count > 0 THEN [PutBuf(up, 0, rc.count - 1) EXCEPT !.buf = 0, !.count = 0]
                 ELSE up)

\* What the characters before ch count together.
Calc(freq, ch) == IF ch = 0 THEN 0 ELSE freq.count[0] + SumCounts(freq, Down(ch - 1, 0))

FrequencyEncode(e, ch) ==
  LET unit == e.rc.range \div e.freq.sum
      low == e.rc.low + Calc(e.freq, ch) * unit
  IN [rc |-> EncodeNormalize([e.rc EXCEPT !.low = low % WordRange, !.carry = low >= WordRange,
                                          !.range = FrequencyCount(e.freq, ch) * unit]),
      freq |-> FrequencyUpdate(e.freq, ch)]

Finish(rc) ==
  LET up == IF rc.carry THEN [rc EXCEPT !.buf = @ + 1] ELSE rc
  IN PutBuf(up, IF rc.carry THEN 0 ELSE ByteRange - 1, rc.count).out
     \o [i \in 1..4 |-> (rc.low \div ByteRange ^ (4 - i)) % ByteRange]

RcEncodeEnd(e) == Tail(Finish(FrequencyEncode(e, ChrEos).rc))

-----------------------------------------------------------------------------
(* bit_decode.c, drc_decode.c: low and range, and the bytes still to read.    *)

RECURSIVE DecodeNormalize(_)
DecodeNormalize(rc) ==
  IF rc.range >= MinRange \/ rc.err THEN rc
  ELSE IF rc.in = <<>> THEN [rc EXCEPT !.err = TRUE]
  ELSE DecodeNormalize([rc EXCEPT !.low = (@ * ByteRange + Head(rc.in)) % WordRange,
                                  !.range = @ * ByteRange, !.in = Tail(@)])

RECURSIVE Locate(_, _, _, _, _)
Locate(freq, value, h, i, n) ==
  LET q == i + h
  IN IF h = 0 THEN <<i + 1, n>>
     ELSE IF q < ChrRange /\ n + freq.count[q] <= value
     THEN Locate(freq, value, h \div 2, q, n + freq.count[q])
     ELSE Locate(freq, value, h \div 2, i, n)

FrequencyDecode(d) ==
  LET unit == d.rc.range \div d.freq.sum
      value == d.rc.low \div unit
      found == IF d.freq.count[0] <= value THEN Locate(d.freq, value, Mid, 0, d.freq.count[0]) ELSE <<0, 0>>
  IN [ch |-> found[1],
      rc |-> DecodeNormalize([d.rc EXCEPT !.low = @ - found[2] * unit,
                                          !.range = FrequencyCount(d.freq, found[1]) * unit]),
      freq |-> FrequencyUpdate(d.freq, found[1])]

RECURSIVE DecodeLoop(_)
DecodeLoop(d) ==
  LET next == FrequencyDecode(d)
      rest == DecodeLoop([rc |-> next.rc, freq |-> next.freq])
  IN IF next.rc.err \/ next.ch >= ChrRange THEN Error
     ELSE IF next.ch = ChrEos THEN <<>>
     ELSE IF rest = Error THEN Error
     ELSE <<next.ch>> \o rest

RcDecode(in) ==
  IF Len(in) < 4 THEN Error
  ELSE DecodeLoop([freq |-> FrequencyInitialize,
                   rc |-> [range |-> MaxRange, err |-> FALSE, in |-> SubSeq(in, 5, Len(in)),
                           low |-> FoldLeft(LAMBDA a, b : a * ByteRange + b, 0, SubSeq(in, 1, 4))]])

\* The text grows by a character; what is written if it ends there is decoded.
CoderInit == [rc |-> RcInitialize, freq |-> FrequencyInitialize]
Compress ==
  \E ch \in 0..(ByteRange - 1) :
    LET e == FrequencyEncode(impl, ch)
    IN /\ Len(ideal) < TextMax
       /\ impl' = e
       /\ ideal' = Append(ideal, ch)
       /\ got' = RcDecode(RcEncodeEnd(e))
       /\ want' = ideal'

-----------------------------------------------------------------------------
(* zle_encode.c, zle_decode.c, with bytes of eight bits.                      *)

RECURSIVE Bits(_)
Bits(n) == IF n = 1 THEN <<>> ELSE <<n % 2>> \o Bits(n \div 2)
Run(s) == Min({i \in 0..Len(s) : i = Len(s) \/ s[i + 1] # 0})

RECURSIVE ZleEncode(_)
ZleEncode(s) ==
  LET n == Run(s)
      rest == ZleEncode(Tail(s))
  IN IF s = <<>> THEN <<>>
     ELSE IF n > 0 THEN Bits(n + 1) \o ZleEncode(SubSeq(s, n + 1, Len(s)))
     ELSE CASE s[1] = 254 -> <<255, 0>> \o rest
            [] s[1] = 255 -> <<255, 1>> \o rest
            [] OTHER -> <<s[1] + 1>> \o rest

\* The bits 0 and 1 up to the next other byte, lowest first, and one more on top.
Binary(s) == Min({i \in 0..Len(s) : i = Len(s) \/ s[i + 1] > 1})
RECURSIVE ZleDecode(_)
ZleDecode(s) ==
  LET n == Binary(s)
      count == 2 ^ n + FoldFunctionOnSet(LAMBDA a, b : a + b, 0, [i \in 1..n |-> s[i] * 2 ^ (i - 1)], 1..n)
      from(k) == ZleDecode(SubSeq(s, k, Len(s)))
  IN IF s = <<>> THEN <<>>
     ELSE IF n > 0 THEN [i \in 1..(count - 1) |-> 0] \o from(n + 1)
     ELSE IF s[1] = 255 THEN (IF Len(s) = 1 THEN Error ELSE <<IF s[2] # 0 THEN 255 ELSE 254>> \o from(3))
     ELSE <<s[1] - 1>> \o from(2)

SquashRuns ==
  \E n \in 0..RunMax : \E s \in [1..n -> RunByte] :
    /\ ideal = <<>>
    /\ ideal' = s
    /\ got' = ZleDecode(ZleEncode(s))
    /\ want' = s
    /\ UNCHANGED impl

CoderNext ==
  \/ kind = "coder" /\ Compress /\ UNCHANGED kind
  \/ kind = "runs" /\ SquashRuns /\ UNCHANGED kind

=============================================================================
