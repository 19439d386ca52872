-------------------------------- MODULE Cbor --------------------------------
(***************************************************************************)
(* The CBOR codec of both workers (cbor-x, bundled in their lib.js), as    *)
(* the default encoder runs it: no records, no packing, no bundles.        *)
(*                                                                         *)
(* A value is a record whose field t is its kind.  A string is a sequence  *)
(* of code points, a float its eight bytes, a bigint its sign and the      *)
(* bytes of its magnitude (of -1 - n if negative).  Numbers are those of   *)
(* 31 bits; larger ones are floats.  What is read from a buffer before it  *)
(* was written, or written beyond its end, is Lost.                        *)
(***************************************************************************)
EXTENDS Integers, Sequences, FiniteSets, SequencesExt

Lost == -1
FirstSize == 8192      \* ByteArrayAllocate(8192)
LeastLeft == 2048      \* what encode() wants to have left when it begins
Spare == 10            \* what safeEnd keeps free for heads
Page == 4096

Arr(a) == [t |-> "arr", a |-> a]
Bytes(b) == [t |-> "bytes", b |-> b]

(***************************************************************************)
(* Bytes of numbers and strings                                            *)
(***************************************************************************)

BigEndian(n, k) == [i \in 1..k |-> (n \div (256 ^ (k - i))) % 256]
Number(bytes) == FoldLeft(LAMBDA n, b : 256 * n + b, 0, bytes)

\* The initial byte of an item and its argument, in the fewest bytes.
Header(major, n) ==
  IF n < 24 THEN <<32 * major + n>>
  ELSE IF n < 256 THEN <<32 * major + 24, n>>
  ELSE IF n < 65536 THEN <<32 * major + 25>> \o BigEndian(n, 2)
  ELSE <<32 * major + 26>> \o BigEndian(n, 4)

Units(s) == Len(s) + Cardinality({i \in DOMAIN s : s[i] >= 65536})

IsAscii(s) == \A i \in DOMAIN s : s[i] \in 0..127

Utf8(c) ==
  LET low(k) == 128 + ((c \div (64 ^ k)) % 64) IN
  IF c < 128 THEN <<c>>
  ELSE IF c < 2048 THEN <<192 + c \div 64, low(0)>>
  ELSE IF c < 65536 THEN <<224 + c \div 4096, low(1), low(0)>>
  ELSE <<240 + c \div 262144, low(2), low(1), low(0)>>

RECURSIVE Utf8Span(_, _, _)
Utf8Span(s, i, j) ==
  IF i > j THEN <<>> ELSE IF i = j THEN Utf8(s[i])
  ELSE LET m == (i + j) \div 2 IN Utf8Span(s, i, m) \o Utf8Span(s, m + 1, j)

Utf8Of(s) == IF IsAscii(s) THEN s ELSE Utf8Span(s, 1, Len(s))

Width(b) == IF b < 128 THEN 1 ELSE IF b < 224 THEN 2 ELSE IF b < 240 THEN 3 ELSE 4

CharAt(b, i) ==
  LET low(k) == b[i + k] % 64 IN
  CASE Width(b[i]) = 1 -> b[i]
    [] Width(b[i]) = 2 -> 64 * (b[i] % 32) + low(1)
    [] Width(b[i]) = 3 -> 4096 * (b[i] % 16) + 64 * low(1) + low(2)
    [] Width(b[i]) = 4 -> 262144 * (b[i] % 8) + 4096 * low(1) + 64 * low(2) + low(3)

\* The characters of bytes i to j, split near the middle where one begins.
RECURSIVE CharsSpan(_, _, _)
CharsSpan(b, i, j) ==
  IF i > j THEN <<>>
  ELSE IF i + Width(b[i]) > j THEN <<CharAt(b, i)>>
  ELSE LET h == (i + j) \div 2
           firsts == {x \in h - 2..h + 1 : x > i /\ b[x] \notin 128..191}
           m == IF firsts = {} THEN i + Width(b[i]) ELSE CHOOSE x \in firsts : TRUE
       IN CharsSpan(b, i, m - 1) \o CharsSpan(b, m, j)

CharsOf(b) == IF IsAscii(b) THEN b ELSE CharsSpan(b, 1, Len(b))

\* TextDecoder: as the loop, but a byte order mark at the start is dropped.
WithoutMark(s) == IF s # <<>> /\ s[1] = 65279 THEN Tail(s) ELSE s

(***************************************************************************)
(* The encoder.  e is its buffer (a number and its size), where the        *)
(* current encoding starts in it, and the bytes written from there on.     *)
(***************************************************************************)

Pos(e) == e.start + Len(e.out)
SafeEnd(e) == e.size - Spare

Put(e, bytes) ==
  [e EXCEPT !.out = @ \o (IF Pos(e) + Len(bytes) <= e.size THEN bytes
                         ELSE [i \in 1..Len(bytes) |->
                                 IF Pos(e) + i <= e.size THEN bytes[i] ELSE Lost])]

\* A larger buffer, to which what is written so far is copied.
MakeRoom(e, end) ==
  LET need == 4 * (end - e.start)
      least == IF need > e.size - 1 THEN need ELSE e.size - 1
  IN [e EXCEPT !.buf = @ + 1, !.size = (least \div Page + 1) * Page, !.start = 0]

Room(e, end) == IF end > SafeEnd(e) THEN MakeRoom(e, end) ELSE e

HeaderGuess(units) ==
  IF units < 32 THEN 1 ELSE IF units < 256 THEN 2 ELSE IF units < 65536 THEN 3 ELSE 5

\* Mutant: the bytes are not moved when the header turns out longer.
MovedBehindNot(guess, size, bytes) ==
  [k \in 1..Len(bytes) |-> IF size + k - 1 \in guess..guess + Len(bytes) - 1
                           THEN bytes[size + k - guess] ELSE Lost]

\* The bytes were written behind a header of the size guessed from the number
\* of units.  If it is longer they are moved (copyWithin): what stands behind
\* the header in the end.
MovedBehind(guess, size, bytes) ==
  LET from == IF guess >= size THEN size ELSE IF size = 5 THEN 3 ELSE size - 1
  IN [k \in 1..Len(bytes) |-> IF from + k - 1 \in guess..guess + Len(bytes) - 1
                              THEN bytes[from + k - guess] ELSE Lost]

EncodeString(e, s) ==
  LET units == Units(s)
      bytes == Utf8Of(s)
      header == Header(3, Len(bytes))
  IN Put(Room(e, Pos(e) + 3 * units),
         header \o MovedBehind(HeaderGuess(units), Len(header), bytes))

\* writeBuffer
EncodeBytes(e, b) ==
  LET h == Put(e, Header(2, Len(b)))
      end == Pos(h) + Len(b)
  IN Put(IF end >= h.size THEN MakeRoom(h, end) ELSE h, b)

\* -2^64 would fit too, but is sent like those beyond.
Beyond64(v) ==
  v.t = "big" /\ (Len(v.m) > 8 \/ (v.neg /\ v.m = [i \in 1..8 |-> 255]))

\* In eight bytes, or as the bytes of the tags 2 and 3.
EncodeBig(e, v) ==
  IF ~Beyond64(v)
  THEN Put(e, <<IF v.neg THEN 59 ELSE 27>> \o [i \in 1..8 - Len(v.m) |-> 0] \o v.m)
  ELSE EncodeBytes(Put(e, <<IF v.neg THEN 195 ELSE 194>>), v.m)

Pairs(v) == [i \in 1..2 * Len(v.k) |->
               IF i % 2 = 1 THEN v.k[(i + 1) \div 2] ELSE v.v[i \div 2]]

RECURSIVE Encode(_, _)

EncodeAll(e, vs) == FoldLeft(LAMBDA acc, v : Encode(acc, v), e, vs)

\* The number of keys is filled in when they are written; its place is counted
\* from the start of the encoding, which survives a larger buffer.
EncodeObject(e, v) ==
  LET h == Put(e, <<185, 0, 0>>)
      at == Len(e.out) + 2
      all == EncodeAll(h, Pairs(v))
      size == BigEndian(Len(v.k), 2)
  IN [all EXCEPT !.out[at] = size[1], !.out[at + 1] = size[2]]

Encode(e, v) ==
  LET r == Room(e, Pos(e)) IN
  CASE v.t = "str" -> EncodeString(r, v.s)
    [] v.t = "int" -> Put(r, IF v.n >= 0 THEN Header(0, v.n) ELSE Header(1, -1 - v.n))
    [] v.t = "float" -> Put(r, <<251>> \o v.x)
    [] v.t = "big" -> EncodeBig(r, v)
    [] v.t = "bool" -> Put(r, <<IF v.yes THEN 245 ELSE 244>>)
    [] v.t = "null" -> Put(r, <<246>>)
    [] v.t = "undefined" -> Put(r, <<247>>)
    [] v.t = "arr" -> EncodeAll(Put(r, Header(4, Len(v.a))), v.a)
    [] v.t = "obj" -> EncodeObject(r, v)
    [] v.t = "map" -> EncodeAll(Put(r, <<217, 1, 3>> \o Header(5, Len(v.k))), Pairs(v))
    [] v.t = "bytes" -> EncodeBytes(r, v.b)
    [] v.t = "typed" -> Encode(Put(r, Header(6, v.tag)), Bytes(v.b))
    [] v.t = "set" -> Encode(Put(r, Header(6, 258)), Arr(v.a))
    [] v.t = "date" -> Put(r, <<193, 26>> \o BigEndian(v.secs, 4))
    [] v.t = "tag" -> Encode(Put(r, Header(6, v.tag)), v.of)
    [] v.t = "iter" -> Put(EncodeAll(Put(r, <<159>>), v.a), <<255>>)

(***************************************************************************)
(* The decoder.  A read begins behind the first p bytes; it fails, or      *)
(* returns a value and how many bytes are consumed then.                   *)
(***************************************************************************)

Fails == [ok |-> FALSE]
Gives(v, p) == [ok |-> TRUE, v |-> v, p |-> p]
Stop == [t |-> "stop"]

ArgSize(info) ==
  CASE info = 24 -> 1 [] info = 25 -> 2 [] info = 26 -> 4 [] info = 27 -> 8 [] OTHER -> 0

Trimmed(m) == LET zeros == Cardinality({i \in DOMAIN m : \A j \in 1..i : m[j] = 0})
              IN SubSeq(m, zeros + 1, Len(m))

Big(neg, m) == [t |-> "big", neg |-> neg, m |-> Trimmed(m)]

\* Up to 15 bytes as they are, or nothing if one is not ASCII: the position is
\* set back by as many bytes as were read by then.
ShortString(b) == IF Len(b) < 16 /\ IsAscii(b) THEN {b} ELSE {}

\* The same for up to 31 bytes of a short source.
LongString(src, b) ==
  IF Len(src) < 140 /\ Len(b) \in 16..31 /\ IsAscii(b) THEN {b} ELSE {}

\* What neither reads is for the loop; a long string for the TextDecoder.
ReadString(src, p, n) ==
  LET b == SubSeq(src, p + 1, p + n)
      asIs == ShortString(b) \cup LongString(src, b)
  IN IF asIs # {} THEN CHOOSE s \in asIs : TRUE
     ELSE IF n > 64 THEN WithoutMark(CharsOf(b)) ELSE CharsOf(b)

Simple(n, p) ==
  CASE n = 20 -> Gives([t |-> "bool", yes |-> FALSE], p)
    [] n = 21 -> Gives([t |-> "bool", yes |-> TRUE], p)
    [] n = 22 -> Gives([t |-> "null"], p)
    [] n = 23 -> Gives([t |-> "undefined"], p)
    [] OTHER -> Fails

TypedTags == {64} \cup 68..72 \cup 77..79 \cup 85..86

\* What a tag makes of the value it stands before; a tag nobody knows stays.
Extension(tag, v) ==
  CASE tag = 1 -> [t |-> "date", secs |-> v.n]
    [] tag = 2 -> Big(FALSE, v.b)
    [] tag = 3 -> Big(TRUE, v.b)
    [] tag = 258 -> [t |-> "set", a |-> v.a]
    [] tag \in TypedTags -> [t |-> "typed", tag |-> tag, b |-> v.b]
    [] OTHER -> [t |-> "tag", tag |-> tag, of |-> v]

\* Every other value, from the first or the second on.
Odd(vs, first) == [i \in 1..Len(vs) \div 2 |-> vs[2 * i - 2 + first]]
Keyed(t, vs) == [t |-> t, k |-> Odd(vs, 1), v |-> Odd(vs, 2)]

RECURSIVE ReadItem(_, _, _)

ReadMany(src, p, n) ==
  FoldLeft(LAMBDA acc, i :
             LET r == IF acc.ok THEN ReadItem(src, acc.p, FALSE) ELSE Fails IN
             IF r.ok THEN Gives(Append(acc.v, r.v), r.p) ELSE Fails,
           Gives(<<>>, p), [i \in 1..n |-> i])

RECURSIVE ReadUntilStop(_, _, _)
ReadUntilStop(src, p, vs) ==
  LET r == ReadItem(src, p, FALSE) IN
  IF ~r.ok THEN Fails
  ELSE IF r.v = Stop THEN Gives(vs, r.p)
  ELSE ReadUntilStop(src, r.p, Append(vs, r.v))

\* asMap: the tag 259 stands before this item, so a map stays a Map; what is
\* in it does not (restoreMapsAsObject).
ReadItem(src, p, asMap) ==
  IF p >= Len(src) THEN Fails ELSE
  LET major == src[p + 1] \div 32
      info == src[p + 1] % 32
      size == ArgSize(info)
      q == p + 1 + size
      arg == SubSeq(src, p + 2, q)
      n == IF size = 0 THEN info ELSE Number(arg)
      keyed(vs) == Keyed(IF asMap THEN "map" ELSE "obj", vs)
      result(r, V(_)) == IF r.ok THEN Gives(V(r.v), r.p) ELSE Fails
  IN
  CASE q > Len(src) \/ info \in 28..30 -> Fails
    [] info = 31 /\ major = 7 -> Gives(Stop, q)
    [] info = 31 /\ major = 4 -> result(ReadUntilStop(src, q, <<>>), Arr)
    [] info = 31 /\ major = 5 -> result(ReadUntilStop(src, q, <<>>), keyed)
    [] info = 31 /\ major \notin {4, 5, 7} -> Fails
    [] info = 27 /\ major <= 1 -> Gives(Big(major = 1, arg), q)
    [] info = 27 /\ major = 7 -> Gives([t |-> "float", x |-> arg], q)
    [] OTHER ->
       CASE major = 0 -> Gives([t |-> "int", n |-> n], q)
         [] major = 1 -> Gives([t |-> "int", n |-> -1 - n], q)
         [] major = 2 /\ q + n > Len(src) -> Fails
         [] major = 3 /\ q + n > Len(src) -> Fails
         [] major = 2 /\ q + n <= Len(src) -> Gives(Bytes(SubSeq(src, q + 1, q + n)), q + n)
         [] major = 3 /\ q + n <= Len(src) ->
              Gives([t |-> "str", s |-> ReadString(src, q, n)], q + n)
         [] major = 4 -> result(ReadMany(src, q, n), Arr)
         [] major = 5 -> result(ReadMany(src, q, 2 * n), keyed)
         [] major = 6 -> IF n = 259 THEN ReadItem(src, q, TRUE)
                         ELSE result(ReadItem(src, q, FALSE), LAMBDA v : Extension(n, v))
         [] major = 7 -> Simple(n, q)

\* checkedRead: the value must end where the source does.
Decode(src) ==
  LET r == ReadItem(src, 0, FALSE) IN IF r.ok /\ r.p = Len(src) THEN r ELSE Fails

(***************************************************************************)
(* What comes back for a value: itself, but a long string loses its mark   *)
(* and what was iterated is an array.                                      *)
(***************************************************************************)
RECURSIVE Canonical(_)
Canonical(v) ==
  LET each(vs) == [i \in DOMAIN vs |-> Canonical(vs[i])] IN
  CASE v.t = "str" -> IF Len(Utf8Of(v.s)) > 64 THEN [v EXCEPT !.s = WithoutMark(@)] ELSE v
    [] v.t \in {"arr", "iter"} -> Arr(each(v.a))
    [] v.t = "set" -> [v EXCEPT !.a = each(@)]
    [] v.t \in {"obj", "map"} -> [v EXCEPT !.k = each(@), !.v = each(@)]
    [] v.t = "tag" -> [v EXCEPT !.of = Canonical(@)]
    [] OTHER -> v
=============================================================================
