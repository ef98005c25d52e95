-------------------------------- MODULE Layout --------------------------------
(***************************************************************************)
(* Wire formats as data.  A layout is a sequence of fields; a field says   *)
(* how one value is written as octets and how it is read back.  Numbers    *)
(* are sequences of octets, most significant first, so that the order in   *)
(* which they travel shows.  The codecs of the repository are tables of    *)
(* layouts in the modules that extend this one; where the code writes a    *)
(* message in one place and reads it in another, each has its own layout.  *)
(***************************************************************************)
EXTENDS Integers, Sequences, FiniteSets, SequencesExt, Bitwise

\* Numbers of n octets, the most or the least significant one first; octets in order.
U(n) == [t |-> "int", n |-> n, le |-> FALSE]
L(n) == [t |-> "int", n |-> n, le |-> TRUE]
\* A number that has to be one of S.
In(f, S) == [t |-> "in", f |-> f, S |-> S]
Is(f, x) == In(f, {x})
\* Octets the reader checks (Lit); n octets the reader does not look at (Skip).
Lit(b) == [t |-> "lit", b |-> b]
Skip(n) == [t |-> "skip", n |-> n]
\* Several numbers packed into the bits of one, the first in the lowest bits, each
\* given by its width and the values it may have.
Bits(f, w) == [t |-> "bits", f |-> f, w |-> w]
W(n) == [n |-> n, S |-> 0 .. 2^n - 1]
Only(n, S) == [n |-> n, S |-> S]
\* All the octets that are left; `min` and `max` are the shortest and longest a sender makes.
Between(m, n) == [t |-> "rest", min |-> m, max |-> n]
Upto(n) == Between(0, n)
Rest == Upto(3)
\* A layout preceded by its length.  The reader takes the octets counted: all of
\* them have to make sense (Sized), or the first of them (Slack); as many as there are
\* (Clamped), or with zeros for those that are missing (Filled); or it does not look at
\* the length (Total).
Counting(mode, len, of) == [t |-> "sized", mode |-> mode, len |-> len, bias |-> 0, mid |-> <<>>, of |-> of]
Sized(len, of) == Counting("sized", len, of)
Slack(len, of) == Counting("slack", len, of)
Clamped(len, of) == Counting("clamped", len, of)
Filled(len, of) == Counting("filled", len, of)
Total(len, of) == Counting("total", len, of)
\* A length that counts `bias` octets besides; a length or count in front of fields it does not count.
Biased(f, bias) == [f EXCEPT !.bias = bias]
Over(f, mid) == [f EXCEPT !.mid = mid]
\* A number of equal layouts preceded by their count, any or at least one or just one;
\* `keep` for a reader that keeps the ones before the first that is cut short.
Counted(len, of) == [t |-> "counted", len |-> len, of |-> of, mid |-> <<>>, min |-> 0, max |-> 2, keep |-> FALSE]
Single(len, of) == [Counted(len, of) EXCEPT !.min = 1, !.max = 1]
Some(len, of) == [Counted(len, of) EXCEPT !.min = 1]
Kept(len, of) == [Counted(len, of) EXCEPT !.keep = TRUE]
\* Equal layouts to the end, a last one that is cut short dropped, or refused.
Items(of) == [t |-> "items", of |-> of, drop |-> TRUE]
Whole(of) == [t |-> "items", of |-> of, drop |-> FALSE]
\* Layouts of one length, which precedes them; `head` is the shortest they may be.
Uniform(len, head, of) == [t |-> "uniform", len |-> len, head |-> head, of |-> of]
\* Octets filled up with zeros to n; the reader drops the zeros at the end.
Padded(n) == [t |-> "padded", n |-> n]
\* A mask, and one layout for each of its bits that is set.
PerBit(f, of) == [t |-> "perbit", f |-> f, of |-> of]
\* Characters of two octets, ended by a zero one unless there are none.
Text == [t |-> "text"]
\* A length of seven bits, or of fifteen in two octets; a bit says which.
Ea == [t |-> "ea", n |-> 2]
\* A layout followed by the check sum of its first octets.
Sealed(over, of) == [t |-> "sealed", over |-> over, of |-> of]
\* A layout that may be missing at the end.
Opt(of) == [t |-> "opt", of |-> of]
\* A code, and the layout it stands for; codes without one are refused.
Choice(f, of) == [t |-> "choice", f |-> f, of |-> of]

Lowest(S) == CHOOSE x \in S : \A y \in S : x <= y
Octets(f, x) == [i \in 1 .. f.n |-> (x \div 256^(f.n - i)) % 256]
Num(b) == FoldLeft(LAMBDA a, x : a * 256 + x, 0, b)
Ordered(f, b) == IF f.le THEN Reverse(b) ELSE b
Shift(w, i) == FoldLeft(LAMBDA a, x : a * 2^x.n, 1, SubSeq(w, 1, i - 1))
Pack(w, v) == FoldLeft(LAMBDA a, i : a + v[i] * Shift(w, i), 0, [i \in 1 .. Len(w) |-> i])
Trimmed(b) == SubSeq(b, 1, Lowest({n \in 0 .. Len(b) : \A i \in n + 1 .. Len(b) : b[i] = 0}))
Ones(x) == Cardinality({i \in 0 .. 7 : (x \div 2^i) % 2 = 1})
Unpack(w, x) == [i \in 1 .. Len(w) |-> (x \div Shift(w, i)) % 2^w[i].n]

\* The check sum of RFCOMM: the table of the code holds eight steps of each octet.
FcsStep(x, i) == IF x % 2 = 1 THEN (x \div 2) ^^ 224 ELSE x \div 2
Fcs(b) == 255 - FoldLeft(LAMBDA a, x : FoldLeft(FcsStep, a ^^ x, [i \in 1 .. 8 |-> i]), 255, b)

--------------------------------------------------------------------------------
After(b, n) == SubSeq(b, n + 1, Len(b))
First(b, n) == SubSeq(b, 1, IF n < Len(b) THEN n ELSE Len(b))

\* Writing.
RECURSIVE Enc(_, _)
EncAll(fs, v) == FlattenSeq([i \in 1 .. Len(fs) |-> Enc(fs[i], v[i])])
EncEach(of, v) == FlattenSeq([i \in 1 .. Len(v) |-> EncAll(of, v[i])])

Enc(f, v) ==
  CASE f.t = "int" -> Ordered(f, v)
    [] f.t = "in" -> Enc(f.f, v)
    [] f.t = "lit" -> f.b
    [] f.t = "bits" -> Enc(f.f, Octets(f.f, Pack(f.w, v)))
    [] f.t = "rest" -> v
    [] f.t = "padded" -> v \o [i \in 1 .. f.n - Len(v) |-> 0]
    [] f.t = "text" -> IF v = <<>> THEN v ELSE v \o <<0, 0>>
    [] f.t = "ea" -> LET x == Num(v) IN IF x > 127 THEN <<(x % 128) * 2, x \div 128>> ELSE <<x * 2 + 1>>
    [] f.t = "sealed" -> LET b == EncAll(f.of, v) IN Append(b, Fcs(First(b, f.over)))
    [] f.t = "perbit" -> Enc(f.f, v[1]) \o EncEach(f.of, v[2])
    [] f.t = "sized" ->
         LET m == Len(f.mid)
             b == EncAll(f.of, After(v, m))
         IN Enc(f.len, Octets(f.len, Len(b) + f.bias)) \o EncAll(f.mid, First(v, m)) \o b
    [] f.t = "counted" ->
         LET m == Len(f.mid)
         IN Enc(f.len, Octets(f.len, Len(v) - m)) \o EncAll(f.mid, First(v, m)) \o EncEach(f.of, After(v, m))
    [] f.t = "items" -> EncEach(f.of, v)
    [] f.t = "uniform" -> Enc(f.len, Octets(f.len, Len(EncAll(f.of, v[1])))) \o EncEach(f.of, v)
    [] f.t = "opt" -> EncEach(f.of, v)
    [] f.t = "choice" -> Enc(f.f, Octets(f.f, v[1])) \o EncAll(f.of[v[1]], v[2])

--------------------------------------------------------------------------------
\* Reading: whether it succeeds, the value, and the octets after it.
Fail == [ok |-> FALSE, v |-> <<>>, rest |-> <<>>]
Read(v, rest) == [ok |-> TRUE, v |-> v, rest |-> rest]
RECURSIVE Dec(_, _), DecFrom(_, _, _, _), DecTimes(_, _, _, _, _), DecItems(_, _, _, _)
DecFrom(fs, i, b, v) ==
  IF i > Len(fs) THEN Read(v, b)
  ELSE LET r == Dec(fs[i], b) IN IF r.ok THEN DecFrom(fs, i + 1, r.rest, Append(v, r.v)) ELSE Fail
DecAll(fs, b) == DecFrom(fs, 1, b, <<>>)

DecTimes(of, n, keep, b, v) ==
  IF n = 0 THEN Read(v, b)
  ELSE LET r == DecAll(of, b)
       IN IF r.ok THEN DecTimes(of, n - 1, keep, r.rest, Append(v, r.v))
          ELSE IF keep THEN Read(v, <<>>) ELSE Fail

DecItems(of, drop, b, v) ==
  IF b = <<>> THEN Read(v, b)
  ELSE LET r == DecAll(of, b)
       IN IF r.ok THEN DecItems(of, drop, r.rest, Append(v, r.v))
          ELSE IF drop THEN Read(v, <<>>) ELSE Fail

\* A number read with f, handed to the reader of what follows it.
With(f, b, Then(_, _)) == LET r == Dec(f, b) IN IF r.ok THEN Then(Num(r.v), r.rest) ELSE Fail

\* The fields a length does not count, then the octets it counts, read with the layout they hold.
Body(f, counted, octets) ==
  LET m == DecAll(f.mid, octets)
      n == counted - f.bias
      b == IF f.mode = "filled" THEN m.rest \o [i \in 1 .. n - Len(m.rest) |-> 0] ELSE m.rest
      k == IF f.mode = "clamped" /\ n > Len(b) THEN Len(b) ELSE n
      r == DecAll(f.of, IF f.mode = "total" THEN b ELSE First(b, k))
  IN IF ~m.ok \/ counted < f.bias \/ ~r.ok THEN Fail
     ELSE IF f.mode = "total" THEN Read(m.v \o r.v, r.rest)
     ELSE IF k > Len(b) \/ (f.mode = "sized" /\ r.rest # <<>>) THEN Fail
     ELSE Read(m.v \o r.v, After(b, k))

\* Items of n octets each; what is left over at the end is dropped.
Equal(f, n, b) ==
  IF n < f.head \/ n = 0 THEN Fail
  ELSE Read([i \in 1 .. Len(b) \div n |-> DecAll(f.of, SubSeq(b, (i - 1) * n + 1, i * n)).v], <<>>)

Dec(f, b) ==
  CASE f.t = "int" -> IF Len(b) < f.n THEN Fail ELSE Read(Ordered(f, SubSeq(b, 1, f.n)), After(b, f.n))
    [] f.t = "in" -> LET r == Dec(f.f, b) IN IF r.ok /\ Num(r.v) \in f.S THEN r ELSE Fail
    [] f.t = "lit" -> IF IsPrefix(f.b, b) THEN Read(<<>>, After(b, Len(f.b))) ELSE Fail
    [] f.t = "skip" -> IF Len(b) < f.n THEN Fail ELSE Read(<<>>, After(b, f.n))
    [] f.t = "bits" ->
         LET Split(x, rest) == LET v == Unpack(f.w, x)
                               IN IF \A i \in 1 .. Len(v) : v[i] \in f.w[i].S THEN Read(v, rest) ELSE Fail
         IN With(f.f, b, Split)
    [] f.t = "rest" -> Read(b, <<>>)
    [] f.t = "padded" -> Read(Trimmed(First(b, f.n)), After(b, f.n))
    [] f.t = "text" -> LET n == Lowest({i \in 0 .. Len(b) \div 2 : i = Len(b) \div 2 \/ b[2 * i + 1] + b[2 * i + 2] = 0})
                       IN Read(SubSeq(b, 1, 2 * n), <<>>)
    [] f.t = "ea" ->
         IF b = <<>> \/ (b[1] % 2 = 0 /\ Len(b) = 1) THEN Fail
         ELSE IF b[1] % 2 = 1 THEN Read(<<0, b[1] \div 2>>, Tail(b))
         ELSE Read(Octets(f, b[1] \div 2 + b[2] * 128), After(b, 2))
    [] f.t = "sealed" ->
         IF b = <<>> \/ Last(b) # Fcs(First(Front(b), f.over)) THEN Fail ELSE DecAll(f.of, Front(b))
    [] f.t = "perbit" ->
         LET m == Dec(f.f, b)
             r == DecTimes(f.of, Ones(m.v[1]), FALSE, m.rest, <<>>)
         IN IF m.ok /\ r.ok THEN Read(<<m.v, r.v>>, r.rest) ELSE Fail
    [] f.t = "sized" -> LET Take(n, rest) == Body(f, n, rest) IN With(f.len, b, Take)
    [] f.t = "counted" ->
         LET Take(n, rest) == LET m == DecAll(f.mid, rest)
                              IN IF n < f.min \/ ~m.ok THEN Fail ELSE DecTimes(f.of, n, f.keep, m.rest, m.v)
         IN With(f.len, b, Take)
    [] f.t = "items" -> DecItems(f.of, f.drop, b, <<>>)
    [] f.t = "uniform" -> LET Take(n, rest) == Equal(f, n, rest) IN With(f.len, b, Take)
    [] f.t = "opt" -> IF b = <<>> THEN Read(<<>>, b) ELSE DecTimes(f.of, 1, FALSE, b, <<>>)
    [] f.t = "choice" ->
         LET Pick(c, rest) == IF c \notin DOMAIN f.of THEN Fail
                              ELSE LET r == DecAll(f.of[c], rest) IN IF r.ok THEN Read(<<c, r.v>>, r.rest) ELSE Fail
         IN With(f.f, b, Pick)

--------------------------------------------------------------------------------
\* Whether what a reader got is what was sent, field by field of the reader's layout;
\* or, of a message cut short, a part of it: lists and octets may end early.
RECURSIVE Shows(_, _, _, _)
ShowsAll(fs, x, y, cut) == \A i \in 1 .. Len(fs) : Shows(fs[i], x[i], y[i], cut)
ShowsEach(of, x, y, cut) ==
  /\ IF cut THEN Len(x) <= Len(y) ELSE Len(x) = Len(y)
  /\ \A i \in 1 .. Len(x) : ShowsAll(of, x[i], y[i], cut)

Shows(f, x, y, cut) ==
  CASE f.t \in {"skip", "lit"} -> TRUE
    [] f.t \in {"rest", "padded", "text"} -> IF cut THEN IsPrefix(x, y) ELSE x = y
    [] f.t = "sized" -> ShowsAll(f.mid \o f.of, x, y, cut)
    [] f.t = "sealed" -> ShowsAll(f.of, x, y, cut)
    [] f.t = "perbit" -> x[1] = y[1] /\ ShowsEach(f.of, x[2], y[2], cut)
    [] f.t = "counted" -> LET m == Len(f.mid) IN ShowsAll(f.mid, x, y, cut) /\ ShowsEach(f.of, After(x, m), After(y, m), cut)
    [] f.t \in {"items", "uniform", "opt"} -> ShowsEach(f.of, x, y, cut)
    [] f.t = "choice" -> x[1] = y[1] /\ ShowsAll(f.of[x[1]], x[2], y[2], cut)
    [] OTHER -> x = y

--------------------------------------------------------------------------------
\* Values to send: one of each layout, and those that differ from it in one field.
RECURSIVE Base(_), Vals(_)
BaseAll(fs) == [i \in 1 .. Len(fs) |-> Base(fs[i])]
SamplesAll(fs) == LET b == BaseAll(fs) IN {b} \cup UNION {{[b EXCEPT ![i] = x] : x \in Vals(fs[i])} : i \in 1 .. Len(fs)}
Lists(of) == {<<>>, <<BaseAll(of), BaseAll(of)>>} \cup {<<x>> : x \in SamplesAll(of)}
Run(n, x) == [i \in 1 .. n |-> x]

Base(f) ==
  CASE f.t = "int" -> [i \in 1 .. f.n |-> i]
    [] f.t = "in" -> Octets(f.f, Lowest(f.S))
    [] f.t \in {"lit", "skip"} -> <<>>
    [] f.t = "bits" -> [i \in 1 .. Len(f.w) |-> Lowest(f.w[i].S)]
    [] f.t = "rest" -> IF f.min = 0 /\ f.max >= 3 THEN <<9, 8, 7>> ELSE Run(f.max, 9)
    [] f.t = "padded" -> <<9, 0, 7>>
    [] f.t = "text" -> <<0, 9, 9, 0>>
    [] f.t = "sealed" -> BaseAll(f.of)
    [] f.t = "perbit" -> <<<<5>>, <<BaseAll(f.of), BaseAll(f.of)>>>>
    [] f.t = "sized" -> BaseAll(f.mid \o f.of)
    [] f.t = "counted" -> BaseAll(f.mid) \o <<BaseAll(f.of)>>
    [] f.t \in {"items", "uniform", "opt"} -> <<BaseAll(f.of)>>
    [] f.t = "choice" -> LET c == Lowest(DOMAIN f.of) IN <<c, BaseAll(f.of[c])>>

Vals(f) ==
  CASE f.t = "int" -> {Run(f.n, 0), Run(f.n, 255)}
    [] f.t = "in" -> {Octets(f.f, x) : x \in f.S}
    [] f.t = "bits" -> UNION {{[Base(f) EXCEPT ![i] = x] : x \in {y \in f.w[i].S : y + 1 \notin f.w[i].S \/ y = 1}} : i \in 1 .. Len(f.w)}
    [] f.t = "rest" -> {Run(f.min, 9), Run(f.min + 1, 9), Run(f.max, 9)}
    [] f.t = "padded" -> {<<>>, Run(f.n, 9)}
    [] f.t = "text" -> {<<>>}
    [] f.t = "sealed" -> SamplesAll(f.of)
    [] f.t = "perbit" -> {<<<<0>>, <<>>>>} \cup {<<<<4>>, <<x>>>> : x \in SamplesAll(f.of)}
    [] f.t = "sized" -> SamplesAll(f.mid \o f.of)
    [] f.t = "counted" ->
         {v \in {m \o l : m \in SamplesAll(f.mid), l \in Lists(f.of)} : Len(v) - Len(f.mid) \in f.min .. f.max}
    [] f.t = "items" -> Lists(f.of)
    [] f.t = "uniform" -> Lists(f.of) \ {<<>>}
    [] f.t = "opt" -> {<<>>} \cup {<<x>> : x \in SamplesAll(f.of)}
    [] f.t = "choice" -> UNION {{<<c, x>> : x \in SamplesAll(f.of[c])} : c \in DOMAIN f.of}
    [] OTHER -> {Base(f)}
================================================================================
