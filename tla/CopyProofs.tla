------------------------------ MODULE CopyProofs ------------------------------
(***************************************************************************)
(* What NearCopy promises for any texts and policies.                      *)
(* The windows of a run are in a row: each begins before the n-grams of    *)
(* the one before have ended, as words of a run begin two graphemes apart  *)
(* or more.  So the counts that slide along are those of each window, a    *)
(* removal finds what it removes, and two windows with enough n-grams in   *)
(* common have the least of these in both prefixes (SlidingIsSafe,         *)
(* GramScanIsExact).                                                       *)
(* The runs of an exact rule are chains of units, CJK graphemes or words,  *)
(* that only a break ends; so windows of as many units as the policy says  *)
(* are exactly the spans that no break divides (ExactScanIsExact).         *)
(* A recursive function of NearCopy is traced by the least index at which  *)
(* what is claimed of it would fail.                                       *)
(***************************************************************************)
EXTENDS NearCopy, SumProofs

-----------------------------------------------------------------------------
(***************************************************************************)
(* Counts of n-grams.                                                      *)
(***************************************************************************)
At(h, a, b, x) == {k \in a .. b : h[k] = x}

Number(h, a, b, x) == Cardinality(At(h, a, b, x))

Values(h, a, b) == {h[k] : k \in a .. b}

CountsOf(h, a, b) == [x \in Values(h, a, b) |-> Number(h, a, b, x)]

\* The bag of a part of a sequence counts what is between its ends.
LEMMA BagOfPart ==
  ASSUME NEW S, NEW h \in Seq(S), NEW a \in Nat, NEW b \in Nat, 1 <= a, b <= Len(h), a <= b + 1
  PROVE  ToBag(SubSeq(h, a, b)) = CountsOf(h, a, b)
<1> DEFINE s == SubSeq(h, a, b)
           n == b - a + 1
           In(x) == {i \in DOMAIN s : s[i] = x}
           place == [i \in 1 .. n |-> a + i - 1]
<1>1. n \in Nat /\ DOMAIN s = 1 .. n /\ \A i \in 1 .. n : s[i] = h[a + i - 1]
  OBVIOUS
<1>2. /\ \A i \in 1 .. n : a + i - 1 \in a .. b
      /\ \A k \in a .. b : k - a + 1 \in 1 .. n /\ a + (k - a + 1) - 1 = k
  OBVIOUS
<1>3. Range(s) = Values(h, a, b)
  <2> HIDE DEF s, n
  <2>1. \A i \in DOMAIN s : s[i] \in Values(h, a, b)
    BY <1>1, <1>2 DEF Values
  <2>2. ASSUME NEW k \in a .. b PROVE \E i \in DOMAIN s : s[i] = h[k]
    <3>1. k - a + 1 \in DOMAIN s /\ s[k - a + 1] = h[a + (k - a + 1) - 1]
      BY <1>1, <1>2
    <3>2. QED  BY <1>2, <3>1
  <2>3. QED  BY <2>1, <2>2 DEF Range, Values
<1>4. ASSUME NEW x PROVE Cardinality(In(x)) = Number(h, a, b, x)
  <2> DEFINE f == [i \in In(x) |-> a + i - 1]
  <2>1. OneToOne(f, In(x), At(h, a, b, x))
    <3>1. In(x) = {i \in 1 .. n : h[a + i - 1] = x}
      BY <1>1
    <3>2. \A i \in In(x) : f[i] \in At(h, a, b, x)
      BY <1>2, <3>1 DEF At
    <3>3. \A i, j \in In(x) : f[i] = f[j] => i = j
      BY <3>1
    <3>4. ASSUME NEW k \in At(h, a, b, x) PROVE \E i \in In(x) : f[i] = k
      <4>1. k \in a .. b /\ h[k] = x
        BY DEF At
      <4>2. k - a + 1 \in 1 .. n /\ a + (k - a + 1) - 1 = k
        BY <1>2, <4>1
      <4>3. k - a + 1 \in In(x)
        BY <3>1, <4>1, <4>2
      <4>4. f[k - a + 1] = k
        BY <4>2, <4>3
      <4>5. QED  BY <4>3, <4>4
    <3>5. f \in [In(x) -> At(h, a, b, x)]
      <4> HIDE DEF In
      <4> QED  BY <3>2
    <3>6. QED
      <4> HIDE DEF In, f
      <4> QED  BY <3>3, <3>4, <3>5 DEF OneToOne
  <2>2. IsFiniteSet(In(x))
    <3>1. IsFiniteSet(1 .. n)
      <4> HIDE DEF n
      <4> QED  BY <1>1, FS_Interval
    <3>2. In(x) \in SUBSET (1 .. n)
      BY <1>1
    <3>3. QED
      <4> HIDE DEF In, n
      <4> QED  BY <3>1, <3>2, FS_Subset
  <2>3. QED
    <3> HIDE DEF In, f
    <3> QED  BY <2>1, <2>2, CountedBy DEF Number
<1>5. ToBag(s) = [x \in Range(s) |-> Cardinality(In(x))]
  BY DEF ToBag
<1>6. ToBag(s) = CountsOf(h, a, b)
  <2> HIDE DEF s, In
  <2> QED  BY <1>3, <1>4, <1>5 DEF CountsOf
<1>7. QED  BY <1>6

\* What occurs in two parts that follow each other.
LEMMA NumberSplits ==
  ASSUME NEW h, NEW a \in Int, NEW b \in Int, NEW c \in Int, a <= b + 1, b <= c, NEW x
  PROVE  /\ Number(h, a, c, x) = Number(h, a, b, x) + Number(h, b + 1, c, x)
         /\ Number(h, a, b, x) \in Nat
<1> DEFINE r == b + 1
<1>1. IsFiniteSet(a .. b) /\ IsFiniteSet(r .. c) /\ r \in Int
  <2>1. r \in Int
    OBVIOUS
  <2>2. QED
    <3> HIDE DEF r
    <3> QED  BY <2>1, FS_Interval
<1>2. a .. c = (a .. b) \cup (r .. c) /\ (a .. b) \cap (r .. c) = {}
  OBVIOUS
<1> HIDE DEF r
<1>3. IsFiniteSet(At(h, a, b, x)) /\ IsFiniteSet(At(h, r, c, x))
  <2>1. At(h, a, b, x) \in SUBSET (a .. b) /\ At(h, r, c, x) \in SUBSET (r .. c)
    BY DEF At
  <2>2. QED  BY <1>1, <2>1, FS_Subset
<1>4. /\ At(h, a, c, x) = At(h, a, b, x) \cup At(h, r, c, x)
      /\ At(h, a, b, x) \cap At(h, r, c, x) = {}
  BY <1>2 DEF At
<1>5. Cardinality(At(h, a, b, x)) \in Nat /\ Cardinality(At(h, r, c, x)) \in Nat
  BY <1>3, FS_CardinalityType
<1>6. Cardinality(At(h, a, c, x)) = Cardinality(At(h, a, b, x)) + Cardinality(At(h, r, c, x))
  <2>1. Cardinality(At(h, a, b, x) \cup At(h, r, c, x))
          = Cardinality(At(h, a, b, x)) + Cardinality(At(h, r, c, x))
              - Cardinality(At(h, a, b, x) \cap At(h, r, c, x))
    BY <1>3, FS_Union
  <2>2. QED  BY <1>4, <1>5, <2>1, FS_EmptySet
<1>7. QED  BY <1>5, <1>6 DEF Number, r

\* What occurs is what is counted.
LEMMA NumberOfValue ==
  ASSUME NEW h, NEW a \in Int, NEW b \in Int, NEW x
  PROVE  /\ Number(h, a, b, x) \in Nat
         /\ Number(h, a, b, x) > 0 <=> x \in Values(h, a, b)
<1>1. IsFiniteSet(a .. b) /\ At(h, a, b, x) \in SUBSET (a .. b)
  BY FS_Interval DEF At
<1>2. IsFiniteSet(At(h, a, b, x))
  BY <1>1, FS_Subset
<1>3. At(h, a, b, x) # {} <=> x \in Values(h, a, b)
  BY DEF At, Values
<1>4. Cardinality(At(h, a, b, x)) \in Nat /\ (Cardinality(At(h, a, b, x)) = 0 <=> At(h, a, b, x) = {})
  BY <1>2, FS_EmptySet, FS_CardinalityType
<1>5. QED  BY <1>3, <1>4 DEF Number

\* Removing what is left behind and adding what is new counts what is between the new ends.
LEMMA Slides ==
  ASSUME NEW h, NEW a \in Nat, NEW b \in Nat, NEW e \in Nat, NEW f \in Nat,
         a <= b, b <= e + 1, e <= f
  PROVE  /\ CountsOf(h, a, b - 1) \sqsubseteq CountsOf(h, a, e)
         /\ (CountsOf(h, a, e) (-) CountsOf(h, a, b - 1)) (+) CountsOf(h, e + 1, f)
              = CountsOf(h, b, f)
<1> DEFINE old(x) == Number(h, a, e, x)
           gone(x) == Number(h, a, b - 1, x)
           kept(x) == Number(h, b, e, x)
           new(x) == Number(h, e + 1, f, x)
           next(x) == Number(h, b, f, x)
<1>1. \A x : /\ old(x) = gone(x) + kept(x) /\ next(x) = kept(x) + new(x)
             /\ {gone(x), kept(x), new(x)} \subseteq Nat
  <2> TAKE x
  <2>1. Number(h, a, e, x) = Number(h, a, b - 1, x) + Number(h, (b - 1) + 1, e, x)
    <3> DEFINE r == b - 1
    <3>1. r \in Int /\ a <= r + 1 /\ r <= e
      OBVIOUS
    <3> HIDE DEF r
    <3>2. Number(h, a, e, x) = Number(h, a, r, x) + Number(h, r + 1, e, x)
      BY <3>1, NumberSplits
    <3>3. QED  BY <3>2 DEF r
  <2>2. (b - 1) + 1 = b
    OBVIOUS
  <2>3. Number(h, b, f, x) = Number(h, b, e, x) + Number(h, e + 1, f, x)
    BY NumberSplits
  <2>4. Number(h, a, b - 1, x) \in Nat /\ Number(h, b, e, x) \in Nat /\ Number(h, e + 1, f, x) \in Nat
    BY NumberOfValue
  <2>5. QED  BY <2>1, <2>2, <2>3, <2>4
<1>2. /\ \A x : x \in Values(h, a, e) <=> old(x) > 0
      /\ \A x : x \in Values(h, a, b - 1) <=> gone(x) > 0
      /\ \A x : x \in Values(h, e + 1, f) <=> new(x) > 0
      /\ \A x : x \in Values(h, b, f) <=> next(x) > 0
  BY NumberOfValue
<1> DEFINE A == CountsOf(h, a, e)
           G == CountsOf(h, a, b - 1)
           B == CountsOf(h, e + 1, f)
           C == CountsOf(h, b, f)
<1>3. /\ A = [x \in Values(h, a, e) |-> old(x)]
      /\ G = [x \in Values(h, a, b - 1) |-> gone(x)]
      /\ B = [x \in Values(h, e + 1, f) |-> new(x)]
      /\ C = [x \in Values(h, b, f) |-> next(x)]
  BY DEF CountsOf
<1> HIDE DEF old, gone, kept, new, next
<1>4. G \sqsubseteq A
  <2> HIDE DEF A, G
  <2>1. DOMAIN G \subseteq DOMAIN A
    BY <1>1, <1>2, <1>3
  <2>2. \A x \in DOMAIN G : G[x] <= A[x]
    BY <1>1, <1>2, <1>3
  <2>3. QED  BY <2>1, <2>2 DEF \sqsubseteq
<1>5. A (-) G = [x \in {y \in Values(h, a, e) : kept(y) > 0} |-> kept(x)]
  <2> HIDE DEF A, G
  <2> DEFINE D == [x \in DOMAIN A |-> IF x \in DOMAIN G THEN A[x] - G[x] ELSE A[x]]
  <2>1. D = [x \in Values(h, a, e) |-> kept(x)]
    BY <1>1, <1>2, <1>3
  <2>2. A (-) G = [x \in {y \in DOMAIN D : D[y] > 0} |-> D[x]]
    BY DEF (-)
  <2>3. QED
    <3> HIDE DEF D
    <3> QED  BY <2>1, <2>2
<1>6. QED
  <2> DEFINE K == A (-) G
  <2>1. DOMAIN K = {y \in Values(h, a, e) : kept(y) > 0} /\ \A x \in DOMAIN K : K[x] = kept(x)
    <3> HIDE DEF A, G
    <3> QED  BY <1>5
  <2> HIDE DEF K, A, B, C, G
  <2>2. DOMAIN K \cup DOMAIN B = Values(h, b, f)
    BY <1>1, <1>2, <1>3, <2>1
  <2>3. \A x \in Values(h, b, f) :
          (IF x \in DOMAIN K THEN K[x] ELSE 0) + (IF x \in DOMAIN B THEN B[x] ELSE 0) = next(x)
    BY <1>1, <1>2, <1>3, <2>1
  <2>4. K (+) B = C
    BY <1>3, <2>2, <2>3 DEF (+)
  <2>5. QED  BY <1>4, <2>4 DEF K, A, B, C, G

-----------------------------------------------------------------------------
(***************************************************************************)
(* Recursion.  What a recursive function of the model computes is reached  *)
(* step by step: were there numbers without the steps up to them, one      *)
(* would be the least.                                                     *)
(***************************************************************************)
Step(c, before, n) ==
  IF c.kind = "read" THEN Grapheme(before, c.text[n], n)
  ELSE IF c.kind = "visit" THEN Visit(before, c.windows[n], c.runs, c.source, c.classes)
  ELSE IF c.kind = "key" THEN before * Base + c.gram[n]
  ELSE IF n = 1 THEN c.parts[n] ELSE before \o c.parts[n]

Onward(c, n, trace) == [i \in 0 .. n |-> IF i = 0 THEN c.start ELSE Step(c, trace[i - 1], i)]

LEMMA TraceExists ==
  ASSUME NEW c, NEW n \in Nat
  PROVE  \E trace : trace = Onward(c, n, trace)
<1> DEFINE Bad == {m \in Nat : ~\E trace : trace = Onward(c, m, trace)}
<1>1. Bad = {}
  <2> SUFFICES ASSUME Bad # {} PROVE FALSE
    OBVIOUS
  <2>1. PICK m \in Bad : \A l \in Bad : m <= l
    <3> HIDE DEF Bad
    <3>1. Bad \in SUBSET Nat
      BY DEF Bad
    <3>2. QED  BY <3>1, Smallest
  <2>2. CASE m = 0
    <3> DEFINE trace == [i \in 0 .. 0 |-> c.start]
    <3>1. trace = Onward(c, 0, trace)
      BY DEF Onward
    <3>2. QED  BY <2>2, <3>1
  <2>3. CASE m # 0
    <3>1. m - 1 \in Nat /\ m - 1 \notin Bad
      BY <2>1, <2>3
    <3>2. PICK trace : trace = Onward(c, m - 1, trace)
      BY <3>1
    <3> DEFINE next == Onward(c, m, trace)
    <3>3. \A i \in 0 .. m : i # 0 => i - 1 \in 0 .. (m - 1)
      OBVIOUS
    <3>4. \A i \in 0 .. (m - 1) : next[i] = trace[i]
      <4>1. \A i \in 0 .. (m - 1) :
              trace[i] = IF i = 0 THEN c.start ELSE Step(c, trace[i - 1], i)
        BY <3>2 DEF Onward
      <4>2. \A i \in 0 .. (m - 1) : i \in 0 .. m
        BY <3>1
      <4>3. QED  BY <4>1, <4>2 DEF Onward
    <3>5. next = Onward(c, m, next)
      BY <3>3, <3>4 DEF Onward
    <3>6. QED  BY <3>5
  <2>4. QED  BY <2>2, <2>3
<1>2. QED  BY <1>1

\* The key of an n-gram of numbers is a number.
KeyFrom(gram, key) ==
  [n \in 0 .. Len(gram) |-> IF n = 0 THEN 0 ELSE key[n - 1] * Base + gram[n]]

LEMMA KeyIsNumber ==
  ASSUME NEW gram, Len(gram) \in Nat, \A n \in 1 .. Len(gram) : gram[n] \in Nat
  PROVE  Key(gram) \in Nat
<1> DEFINE c == [kind |-> "key", start |-> 0, gram |-> gram]
           key == CHOOSE x : x = KeyFrom(gram, x)
           Bad == {n \in 0 .. Len(gram) : key[n] \notin Nat}
           then(x, n) == x * Base + gram[n]
<1>1. \A x, n : Step(c, x, n) = then(x, n)
  BY DEF Step
<1>2. c.start = 0
  OBVIOUS
<1> HIDE DEF c
<1>3. PICK trace : trace = Onward(c, Len(gram), trace)
  BY TraceExists
<1>4. trace = KeyFrom(gram, trace)
  <2> DEFINE onward(n) == IF n = 0 THEN c.start ELSE Step(c, trace[n - 1], n)
             keyed(n) == IF n = 0 THEN 0 ELSE then(trace[n - 1], n)
  <2>1. KeyFrom(gram, trace) = [n \in 0 .. Len(gram) |-> keyed(n)]
    BY DEF KeyFrom
  <2>2. trace = [n \in 0 .. Len(gram) |-> onward(n)]
    BY <1>3 DEF Onward
  <2> HIDE DEF then
  <2>3. \A n \in 0 .. Len(gram) : onward(n) = keyed(n)
    BY <1>1, <1>2
  <2> HIDE DEF onward, keyed
  <2>4. QED  BY <2>1, <2>2, <2>3
<1>5. key = KeyFrom(gram, key)
  BY <1>4
<1>6. Key(gram) = key[Len(gram)]
  BY DEF Key, KeyFrom
<1> HIDE DEF key
<1>7. \A n \in 0 .. Len(gram) : key[n] = IF n = 0 THEN 0 ELSE key[n - 1] * Base + gram[n]
  BY <1>5 DEF KeyFrom
<1>8. Bad = {}
  <2> SUFFICES ASSUME Bad # {} PROVE FALSE
    OBVIOUS
  <2>1. PICK n \in Bad : \A m \in Bad : n <= m
    <3> HIDE DEF Bad
    <3>1. Bad \in SUBSET Nat
      BY DEF Bad
    <3>2. QED  BY <3>1, Smallest
  <2>2. n # 0
    BY <1>7
  <2>3. n \in 1 .. Len(gram) /\ n - 1 \in 0 .. Len(gram) /\ ~(n <= n - 1)
    BY <2>2
  <2>4. key[n - 1] \in Nat /\ key[n] = key[n - 1] * Base + gram[n]
    BY <1>7, <2>1, <2>2, <2>3
  <2>5. \A x, y, z \in Nat : x * y + z \in Nat
    OBVIOUS
  <2>6. Base \in Nat
    BY CopyAssumption
  <2>7. gram[n] \in Nat
    BY <2>3
  <2> DEFINE x == key[n - 1]
             y == gram[n]
  <2>8. key[n] \in Nat
    <3>1. x \in Nat /\ y \in Nat /\ key[n] = x * Base + y
      BY <2>4, <2>7
    <3> HIDE DEF x, y
    <3>2. QED  BY <2>5, <2>6, <3>1
  <2>9. QED  BY <2>8
<1>9. Len(gram) \in 0 .. Len(gram)
  OBVIOUS
<1>10. QED  BY <1>6, <1>8, <1>9

\* The graphemes that were read, one after the other.
ReadFrom(text, read) ==
  [n \in 0 .. Len(text) |-> IF n = 0 THEN NoRuns ELSE Grapheme(read[n - 1], text[n], n)]

Reading(text) == CHOOSE read : read = ReadFrom(text, read)

LEMMA ReadsEach ==
  ASSUME NEW text, Len(text) \in Nat
  PROVE  /\ ReadAll(text) = Reading(text)[Len(text)]
         /\ Reading(text)[0] = NoRuns
         /\ \A n \in 1 .. Len(text) : Reading(text)[n] = Grapheme(Reading(text)[n - 1], text[n], n)
<1> DEFINE c == [kind |-> "read", start |-> NoRuns, text |-> text]
<1>1. \A x, n : Step(c, x, n) = Grapheme(x, text[n], n)
  BY DEF Step
<1>2. c.start = NoRuns
  OBVIOUS
<1> HIDE DEF c
<1>3. PICK trace : trace = Onward(c, Len(text), trace)
  BY TraceExists
<1>4. trace = ReadFrom(text, trace)
  BY <1>1, <1>2, <1>3 DEF Onward, ReadFrom
<1>5. Reading(text) = ReadFrom(text, Reading(text))
  BY <1>4 DEF Reading
<1>6. ReadAll(text) = Reading(text)[Len(text)]
  BY DEF ReadAll, Reading, ReadFrom
<1>7. \A n \in 0 .. Len(text) :
        Reading(text)[n] = IF n = 0 THEN NoRuns ELSE Grapheme(Reading(text)[n - 1], text[n], n)
  BY <1>5 DEF ReadFrom
<1>8. QED  BY <1>6, <1>7

\* The windows of the source that were visited, one after the other.
VisitFrom(theirs, sruns, source, classes, after) ==
  [n \in 0 .. Len(theirs) |->
    IF n = 0 THEN Start ELSE Visit(after[n - 1], theirs[n], sruns, source, classes)]

Visiting(theirs, sruns, source, classes) ==
  CHOOSE after : after = VisitFrom(theirs, sruns, source, classes, after)

LEMMA VisitsEach ==
  ASSUME NEW theirs, Len(theirs) \in Nat, NEW sruns, NEW source, NEW classes
  PROVE  LET after == Visiting(theirs, sruns, source, classes)
         IN  /\ VisitAll(theirs, sruns, source, classes) = after[Len(theirs)]
             /\ after[0] = Start
             /\ \A n \in 1 .. Len(theirs) :
                  after[n] = Visit(after[n - 1], theirs[n], sruns, source, classes)
<1> DEFINE c == [kind |-> "visit", start |-> Start, windows |-> theirs, runs |-> sruns,
                 source |-> source, classes |-> classes]
           after == Visiting(theirs, sruns, source, classes)
<1>1. \A x, n : Step(c, x, n) = Visit(x, theirs[n], sruns, source, classes)
  BY DEF Step
<1>2. c.start = Start
  OBVIOUS
<1> HIDE DEF c
<1>3. PICK trace : trace = Onward(c, Len(theirs), trace)
  BY TraceExists
<1>4. trace = VisitFrom(theirs, sruns, source, classes, trace)
  BY <1>1, <1>2, <1>3 DEF Onward, VisitFrom
<1>5. after = VisitFrom(theirs, sruns, source, classes, after)
  BY <1>4 DEF Visiting
<1>6. VisitAll(theirs, sruns, source, classes) = after[Len(theirs)]
  BY DEF VisitAll, Visiting, VisitFrom
<1> HIDE DEF after
<1>7. \A n \in 0 .. Len(theirs) :
        after[n] = IF n = 0 THEN Start ELSE Visit(after[n - 1], theirs[n], sruns, source, classes)
  BY <1>5 DEF VisitFrom
<1>8. QED  BY <1>6, <1>7 DEF after

\* Sequences that are joined, one after the other.
FlatFrom(parts, flat) ==
  [i \in 1 .. Len(parts) |-> IF i = 1 THEN parts[i] ELSE flat[i - 1] \o parts[i]]

Flat(parts) == CHOOSE flat : flat = FlatFrom(parts, flat)

LEMMA JoinsEach ==
  ASSUME NEW parts, Len(parts) \in Nat, Len(parts) # 0
  PROVE  /\ FlattenSeq(parts) = Flat(parts)[Len(parts)]
         /\ Flat(parts)[1] = parts[1]
         /\ \A n \in 2 .. Len(parts) : Flat(parts)[n] = Flat(parts)[n - 1] \o parts[n]
<1> DEFINE c == [kind |-> "flat", start |-> <<>>, parts |-> parts]
<1>1. \A x, n : Step(c, x, n) = IF n = 1 THEN parts[n] ELSE x \o parts[n]
  BY DEF Step
<1> HIDE DEF c
<1>2. PICK trace : trace = Onward(c, Len(parts), trace)
  BY TraceExists
<1>3. \A i \in 1 .. Len(parts) : trace[i] = IF i = 1 THEN parts[i] ELSE trace[i - 1] \o parts[i]
  <2>1. \A i \in 0 .. Len(parts) : trace[i] = IF i = 0 THEN c.start ELSE Step(c, trace[i - 1], i)
    BY <1>2 DEF Onward
  <2>2. \A i \in 1 .. Len(parts) : i \in 0 .. Len(parts) /\ i # 0
    OBVIOUS
  <2>3. \A i \in 1 .. Len(parts) : trace[i] = Step(c, trace[i - 1], i)
    BY <2>1, <2>2
  <2>4. QED  BY <1>1, <2>3
<1> DEFINE flat == [i \in 1 .. Len(parts) |-> trace[i]]
<1>4. \A i \in 1 .. Len(parts) : i # 1 => i - 1 \in 1 .. Len(parts)
  OBVIOUS
<1>5. flat = FlatFrom(parts, flat)
  BY <1>3, <1>4 DEF FlatFrom
<1> HIDE DEF flat
<1>6. Flat(parts) = FlatFrom(parts, Flat(parts))
  BY <1>5 DEF Flat
<1>7. FlattenSeq(parts) = Flat(parts)[Len(parts)]
  BY DEF FlattenSeq, Flat, FlatFrom
<1>8. \A i \in 1 .. Len(parts) :
        Flat(parts)[i] = IF i = 1 THEN parts[i] ELSE Flat(parts)[i - 1] \o parts[i]
  BY <1>6 DEF FlatFrom
<1>9. /\ 1 \in 1 .. Len(parts)
      /\ \A i \in 2 .. Len(parts) : i \in 1 .. Len(parts) /\ i # 1
  OBVIOUS
<1>10. Flat(parts)[1] = parts[1]
  BY <1>8, <1>9
<1>11. \A n \in 2 .. Len(parts) : Flat(parts)[n] = Flat(parts)[n - 1] \o parts[n]
  BY <1>8, <1>9
<1>12. QED  BY <1>7, <1>10, <1>11

-----------------------------------------------------------------------------
(***************************************************************************)
(* Reading a text.  Words are at least two graphemes apart in their run,   *)
(* for a blank lies between them, and every start lies in its run.         *)
(***************************************************************************)
TokenOf == [t : Cjk \cup Letter \cup Symbol \cup {Blank}, from : Nat, to : Nat]

Spaced(starts, n) ==
  /\ starts \in Seq(Nat)
  /\ \A k \in 1 .. Len(starts) : starts[k] \in 1 .. n
  /\ \A k \in 1 .. Len(starts) - 1 : starts[k] + 2 <= starts[k + 1]

\* The last word has ended.
Closed(starts, n) == starts = <<>> \/ starts[Len(starts)] < n

CharRun == {x \in [tokens : Seq(TokenOf), starts : Seq(Nat)] : Spaced(x.starts, Len(x.tokens))}

Fields == {"cjk", "cjk_runs", "word", "words", "word_runs", "chars", "starts", "char_runs", "all"}

ReadOK(r) ==
  /\ DOMAIN r = Fields
  /\ r.chars \in Seq(TokenOf) /\ r.all \in Seq(TokenOf)
  /\ r.char_runs \in Seq(CharRun)
  /\ Spaced(r.starts, Len(r.chars))
  /\ r.word = <<>> => Closed(r.starts, Len(r.chars))

LEMMA NothingRead == ReadOK(NoRuns)
<1>1. <<>> \in Seq(TokenOf) /\ <<>> \in Seq(CharRun) /\ <<>> \in Seq(Nat) /\ Len(<<>>) = 0
  OBVIOUS
<1>2. Spaced(<<>>, 0) /\ Closed(<<>>, 0)
  BY <1>1 DEF Spaced, Closed
<1>3. /\ DOMAIN NoRuns = Fields
      /\ NoRuns.chars = <<>> /\ NoRuns.all = <<>> /\ NoRuns.char_runs = <<>>
      /\ NoRuns.starts = <<>> /\ NoRuns.word = <<>>
  BY DEF NoRuns, Fields
<1>4. QED  BY <1>1, <1>2, <1>3 DEF ReadOK

\* More graphemes, and a new word behind a word that has ended.
LEMMA SpacedGrows ==
  ASSUME NEW starts, NEW n \in Nat, NEW m \in Nat, n <= m, Spaced(starts, n)
  PROVE  Spaced(starts, m)
BY DEF Spaced

LEMMA SpacedStart ==
  ASSUME NEW starts, NEW n \in Nat, Spaced(starts, n), Closed(starts, n)
  PROVE  /\ Spaced(Append(starts, n + 1), n + 1)
         /\ Spaced(starts, n + 1) /\ Closed(starts, n + 1)
<1> DEFINE r == n + 1
           more == Append(starts, r)
           len == Len(starts)
<1>1. /\ starts \in Seq(Nat) /\ len \in Nat
      /\ \A k \in 1 .. len : starts[k] \in 1 .. n
      /\ \A k \in 1 .. len - 1 : starts[k] + 2 <= starts[k + 1]
  BY DEF Spaced
<1>2. r \in Nat /\ n < r /\ 1 <= r /\ r = n + 1
  OBVIOUS
<1> HIDE DEF r
<1>3. /\ more \in Seq(Nat) /\ Len(more) = len + 1 /\ more[len + 1] = r
      /\ \A k \in 1 .. len : more[k] = starts[k]
  BY <1>1, <1>2
<1>4. len # 0 => starts[len] < n
  BY <1>1 DEF Closed
<1> HIDE DEF more, len
<1>5. ASSUME NEW k \in 1 .. len + 1 PROVE more[k] \in 1 .. r
  <2>1. CASE k = len + 1
    BY <1>2, <1>3, <2>1
  <2>2. CASE k # len + 1
    <3>1. k \in 1 .. len
      BY <1>1, <2>2
    <3>2. more[k] = starts[k] /\ starts[k] \in 1 .. n
      BY <1>1, <1>3, <3>1
    <3>3. QED  BY <1>2, <3>2
  <2>3. QED  BY <2>1, <2>2
<1>6. \A k \in 1 .. len : more[k] + 2 <= more[k + 1]
  <2> TAKE k \in 1 .. len
  <2>1. CASE k = len
    <3>1. starts[len] \in Nat /\ starts[len] < n
      BY <1>1, <1>4, <2>1
    <3>2. QED  BY <1>1, <1>2, <1>3, <2>1, <3>1
  <2>2. CASE k # len
    <3>1. k \in 1 .. len - 1 /\ k + 1 \in 1 .. len
      BY <1>1, <2>2
    <3>2. QED  BY <1>1, <1>3, <3>1
  <2>3. QED  BY <2>1, <2>2
<1>7. Spaced(more, r)
  BY <1>1, <1>3, <1>5, <1>6 DEF Spaced
<1>8. Spaced(starts, r)
  BY <1>2, SpacedGrows
<1>9. Closed(starts, r)
  BY <1>1, <1>2, <1>4 DEF Closed, len
<1>10. QED  BY <1>7, <1>8, <1>9 DEF more, r

\* What the parts of Grapheme leave in the fields that matter here.
LEMMA EndsWord ==
  ASSUME NEW r, DOMAIN r = Fields
  PROVE  LET e == EndWord(r)
         IN  /\ DOMAIN e = Fields /\ e.word = <<>> /\ e.chars = r.chars /\ e.all = r.all
             /\ e.starts = r.starts /\ e.char_runs = r.char_runs
BY DEF EndWord, Fields

LEMMA EndsWordRun ==
  ASSUME NEW r, DOMAIN r = Fields
  PROVE  LET e == EndWordRun(r)
         IN  /\ DOMAIN e = Fields /\ e.word = <<>> /\ e.chars = <<>> /\ e.all = r.all
             /\ e.starts = <<>>
             /\ e.char_runs = Pushed(r.char_runs, r.chars, [tokens |-> r.chars, starts |-> r.starts])
<1>1. LET e == EndWord(r)
      IN  /\ DOMAIN e = Fields /\ e.word = <<>> /\ e.chars = r.chars /\ e.all = r.all
          /\ e.starts = r.starts /\ e.char_runs = r.char_runs
  BY EndsWord
<1>2. QED  BY <1>1 DEF EndWordRun, Fields

LEMMA EndsCjk ==
  ASSUME NEW r, DOMAIN r = Fields
  PROVE  LET e == EndCjk(r)
         IN  /\ DOMAIN e = Fields /\ e.word = r.word /\ e.chars = r.chars /\ e.all = r.all
             /\ e.starts = r.starts /\ e.char_runs = r.char_runs
BY DEF EndCjk, Fields

LEMMA GoesOnInWord ==
  ASSUME NEW r, DOMAIN r = Fields, NEW c, NEW i
  PROVE  LET e == InWord(r, c, i)
         IN  /\ DOMAIN e = Fields /\ e.word # <<>> /\ e.chars = r.chars /\ e.all = r.all
             /\ e.starts = IF r.word = <<>> THEN Append(r.starts, Len(r.chars) + 1) ELSE r.starts
             /\ e.char_runs = r.char_runs
BY DEF InWord, Fields

\* A run of words that is closed is one of the text's.
LEMMA RunPushed ==
  ASSUME NEW r, ReadOK(r)
  PROVE  /\ Pushed(r.char_runs, r.chars, [tokens |-> r.chars, starts |-> r.starts]) \in Seq(CharRun)
         /\ ReadOK(EndWordRun(r))
<1> DEFINE run == [tokens |-> r.chars, starts |-> r.starts]
           e == EndWordRun(r)
<1>1. run \in CharRun
  BY DEF CharRun, ReadOK, Spaced
<1>2. Pushed(r.char_runs, r.chars, run) \in Seq(CharRun)
  <2> HIDE DEF run
  <2> QED  BY <1>1 DEF Pushed, ReadOK
<1>3. /\ DOMAIN e = Fields /\ e.word = <<>> /\ e.chars = <<>> /\ e.all = r.all /\ e.starts = <<>>
      /\ e.char_runs = Pushed(r.char_runs, r.chars, run)
  BY EndsWordRun DEF ReadOK
<1> HIDE DEF e, run
<1>4. Len(<<>>) = 0 /\ <<>> \in Seq(TokenOf) /\ <<>> \in Seq(Nat)
  OBVIOUS
<1>5. Spaced(<<>>, 0) /\ Closed(<<>>, 0)
  BY <1>4 DEF Spaced, Closed
<1>6. ReadOK(e)
  BY <1>2, <1>3, <1>4, <1>5 DEF ReadOK
<1>7. QED  BY <1>2, <1>6 DEF e, run

\* Another grapheme.
LEMMA OneMoreRead ==
  ASSUME NEW r, ReadOK(r), NEW c \in Cjk \cup Letter \cup Symbol \cup {Blank}, NEW i \in Nat
  PROVE  ReadOK(Grapheme(r, c, i))
<1> DEFINE token == Token(c, i)
           seen == [r EXCEPT !.all = Append(@, token)]
           ended == EndCjk(seen)
           more == Append(r.chars, token)
           other == [ended EXCEPT !.chars = Append(@, token)]
<1>1. token \in TokenOf
  BY DEF Token, TokenOf
<1>2. /\ DOMAIN r = Fields
      /\ r.chars \in Seq(TokenOf) /\ r.all \in Seq(TokenOf) /\ r.char_runs \in Seq(CharRun)
      /\ Spaced(r.starts, Len(r.chars)) /\ (r.word = <<>> => Closed(r.starts, Len(r.chars)))
      /\ Len(r.chars) \in Nat
  BY DEF ReadOK
<1> HIDE DEF token
<1>3. /\ more \in Seq(TokenOf) /\ Len(more) = Len(r.chars) + 1
      /\ Append(r.all, token) \in Seq(TokenOf)
  BY <1>1, <1>2
<1> HIDE DEF more
<1>4. /\ DOMAIN seen = Fields /\ seen.chars = r.chars /\ seen.all = Append(r.all, token)
      /\ seen.char_runs = r.char_runs /\ seen.starts = r.starts /\ seen.word = r.word
  BY <1>2 DEF Fields
<1> HIDE DEF seen
<1>5. ReadOK(seen)
  BY <1>2, <1>3, <1>4 DEF ReadOK
<1>6. /\ DOMAIN ended = Fields /\ ended.chars = r.chars /\ ended.all = Append(r.all, token)
      /\ ended.char_runs = r.char_runs /\ ended.starts = r.starts /\ ended.word = r.word
  BY <1>4, EndsCjk
<1> HIDE DEF ended
<1>7. /\ DOMAIN other = Fields /\ other.chars = more /\ other.all = Append(r.all, token)
      /\ other.char_runs = r.char_runs /\ other.starts = r.starts /\ other.word = r.word
  BY <1>6 DEF Fields, more
<1> HIDE DEF other
<1>8. /\ Spaced(r.starts, Len(r.chars) + 1)
      /\ r.word = <<>> => /\ Closed(r.starts, Len(r.chars) + 1)
                          /\ Spaced(Append(r.starts, Len(r.chars) + 1), Len(r.chars) + 1)
  BY <1>2, SpacedGrows, SpacedStart
<1>9. ASSUME c = Blank, r.word # <<>>
      PROVE  ReadOK([EndWord(r) EXCEPT !.chars = Append(@, Token(Blank, i))])
  <2> DEFINE e == EndWord(r)
             f == [e EXCEPT !.chars = Append(@, token)]
  <2>1. /\ DOMAIN e = Fields /\ e.word = <<>> /\ e.chars = r.chars /\ e.all = r.all
        /\ e.starts = r.starts /\ e.char_runs = r.char_runs
    BY <1>2, EndsWord
  <2> HIDE DEF e
  <2>2. /\ DOMAIN f = Fields /\ f.word = <<>> /\ f.chars = more /\ f.all = r.all
        /\ f.starts = r.starts /\ f.char_runs = r.char_runs
    BY <2>1 DEF Fields, more
  <2> HIDE DEF f
  <2>3. Closed(r.starts, Len(r.chars) + 1)
    <3>1. /\ r.starts \in Seq(Nat)
          /\ \A k \in 1 .. Len(r.starts) : r.starts[k] \in 1 .. Len(r.chars)
      BY <1>2 DEF Spaced
    <3>2. r.starts # <<>> => Len(r.starts) \in 1 .. Len(r.starts)
      BY <3>1
    <3> DEFINE last == r.starts[Len(r.starts)]
               length == Len(r.chars)
    <3>3. r.starts # <<>> => last \in 1 .. length
      BY <3>1, <3>2
    <3>4. length \in Nat
      BY <1>2
    <3>5. r.starts # <<>> => last < length + 1
      <4> HIDE DEF last, length
      <4>1. QED  BY <3>3, <3>4
    <3>6. QED  BY <3>5 DEF Closed
  <2>4. ReadOK(f)
    BY <1>2, <1>3, <1>8, <2>2, <2>3 DEF ReadOK
  <2>5. QED  BY <1>9, <2>4 DEF e, f, token
<1>10. ReadOK(other)
  BY <1>2, <1>3, <1>7, <1>8 DEF ReadOK
<1>11. ReadOK([EndWordRun(seen) EXCEPT !.cjk = Append(@, token)])
  <2> DEFINE e == EndWordRun(seen)
             f == [e EXCEPT !.cjk = Append(@, token)]
  <2>1. ReadOK(e)
    BY <1>5, RunPushed
  <2> HIDE DEF e
  <2>2. /\ DOMAIN f = Fields /\ f.word = e.word /\ f.chars = e.chars /\ f.all = e.all
        /\ f.starts = e.starts /\ f.char_runs = e.char_runs
    BY <2>1 DEF ReadOK, Fields
  <2> HIDE DEF f
  <2>3. ReadOK(f)
    BY <2>1, <2>2 DEF ReadOK
  <2>4. QED  BY <2>3 DEF e, f
<1>12. ReadOK([InWord(ended, c, i) EXCEPT !.chars = other.chars])
  <2> DEFINE e == InWord(ended, c, i)
             f == [e EXCEPT !.chars = other.chars]
  <2>1. /\ DOMAIN e = Fields /\ e.word # <<>> /\ e.all = ended.all
        /\ e.starts = IF r.word = <<>> THEN Append(r.starts, Len(r.chars) + 1) ELSE r.starts
        /\ e.char_runs = r.char_runs
    BY <1>6, GoesOnInWord
  <2> HIDE DEF e
  <2>2. /\ DOMAIN f = Fields /\ f.word # <<>> /\ f.chars = more /\ f.all = ended.all
        /\ f.starts = e.starts /\ f.char_runs = r.char_runs
    BY <1>7, <2>1 DEF Fields
  <2> HIDE DEF f
  <2>3. Spaced(f.starts, Len(r.chars) + 1)
    BY <1>8, <2>1, <2>2
  <2>4. ReadOK(f)
    BY <1>2, <1>3, <1>6, <2>2, <2>3 DEF ReadOK
  <2>5. QED  BY <2>4 DEF e, f
<1>13. \/ c = Blank /\ r.word = <<>> /\ Grapheme(r, c, i) = r
       \/ /\ c = Blank /\ r.word # <<>>
          /\ Grapheme(r, c, i) = [EndWord(r) EXCEPT !.chars = Append(@, Token(Blank, i))]
       \/ Grapheme(r, c, i) = [EndWordRun(seen) EXCEPT !.cjk = Append(@, token)]
       \/ Grapheme(r, c, i) = [InWord(ended, c, i) EXCEPT !.chars = other.chars]
       \/ Grapheme(r, c, i) = other
  BY DEF Grapheme, seen, ended, other, token
<1>14. CASE c = Blank /\ r.word # <<>>
          /\ Grapheme(r, c, i) = [EndWord(r) EXCEPT !.chars = Append(@, Token(Blank, i))]
  BY <1>9, <1>14
<1>15. QED  BY <1>10, <1>11, <1>12, <1>13, <1>14

\* A whole text.
LEMMA TextRead ==
  ASSUME NEW text \in Text
  PROVE  ReadOK(ReadAll(text))
<1> DEFINE read == Reading(text)
           Bad == {n \in 0 .. Len(text) : ~ReadOK(read[n])}
<1>1. Len(text) \in Nat /\ \A n \in 1 .. Len(text) : text[n] \in Cjk \cup Letter \cup Symbol \cup {Blank}
  BY DEF Text
<1>2. /\ ReadAll(text) = read[Len(text)] /\ read[0] = NoRuns
      /\ \A n \in 1 .. Len(text) : read[n] = Grapheme(read[n - 1], text[n], n)
  BY <1>1, ReadsEach
<1> HIDE DEF read
<1>3. Bad = {}
  <2> SUFFICES ASSUME Bad # {} PROVE FALSE
    OBVIOUS
  <2>1. PICK n \in Bad : \A m \in Bad : n <= m
    <3> HIDE DEF Bad
    <3>1. Bad \in SUBSET Nat
      BY <1>1 DEF Bad
    <3>2. QED  BY <3>1, Smallest
  <2>2. n # 0
    BY <1>2, NothingRead
  <2>3. n \in 1 .. Len(text) /\ n - 1 \in 0 .. Len(text) /\ ~(n <= n - 1) /\ n \in Nat
    BY <1>1, <2>2
  <2>4. ReadOK(read[n - 1])
    BY <2>1, <2>3
  <2>5. ReadOK(read[n])
    BY <1>1, <1>2, <2>3, <2>4, OneMoreRead
  <2>6. QED  BY <2>5
<1>4. Len(text) \in 0 .. Len(text)
  BY <1>1
<1>5. QED  BY <1>2, <1>3, <1>4

LEMMA TextNormalized ==
  ASSUME NEW text \in Text
  PROVE  LET n == Normalized(text)
         IN  n.all \in Seq(Seq(TokenOf)) /\ n.char_runs \in Seq(CharRun)
<1> DEFINE r == EndWordRun(ReadAll(text))
           e == EndCjk(r)
           n == [e EXCEPT !.all = Pushed(<<>>, e.all, e.all)]
<1>1. ReadOK(r)
  BY TextRead, RunPushed
<1> HIDE DEF r
<1>2. DOMAIN e = Fields /\ e.all = r.all /\ e.char_runs = r.char_runs
  BY <1>1, EndsCjk DEF ReadOK
<1> HIDE DEF e
<1>3. n.all = Pushed(<<>>, e.all, e.all) /\ n.char_runs = e.char_runs
  BY <1>2 DEF Fields
<1>4. e.all \in Seq(TokenOf) /\ e.char_runs \in Seq(CharRun)
  BY <1>1, <1>2 DEF ReadOK
<1>5. Pushed(<<>>, e.all, e.all) \in Seq(Seq(TokenOf))
  <2>1. \A list \in Seq(TokenOf) : Append(<<>>, list) \in Seq(Seq(TokenOf))
    OBVIOUS
  <2>2. QED  BY <1>4, <2>1 DEF Pushed
<1>6. Normalized(text) = n
  BY DEF Normalized, n, e, r
<1>7. QED  BY <1>3, <1>4, <1>5, <1>6

-----------------------------------------------------------------------------
(***************************************************************************)
(* Windows.  Every window has n-grams, all of them of its run, and the one *)
(* that follows it in the same run begins before these have ended.         *)
(***************************************************************************)
Window == [run : Nat, start : Nat, end : Nat]

Grams(w) == w.end - w.start + 2 - Policy.ngram

Fits(run, w) == w.start >= 1 /\ w.end <= Len(run) /\ Grams(w) > 0

Adjoin(from, to) ==
  from.start <= to.start /\ to.start <= from.start + Grams(from) /\ from.end <= to.end

\* The windows of one run, and those of the first n runs.
Part(runs, n, list) ==
  /\ list \in Seq(Window)
  /\ \A j \in 1 .. Len(list) : list[j].run = n /\ Fits(runs[n], list[j])
  /\ \A j \in 1 .. Len(list) - 1 : Adjoin(list[j], list[j + 1])

Row(runs, n, list) ==
  /\ list \in Seq(Window)
  /\ \A j \in 1 .. Len(list) : list[j].run \in 1 .. n /\ Fits(runs[list[j].run], list[j])
  /\ \A j \in 1 .. Len(list) - 1 : list[j].run = list[j + 1].run => Adjoin(list[j], list[j + 1])

\* A function on the numbers up to some bound is a list.
LEMMA ListUpTo ==
  ASSUME NEW S, NEW m \in Int, NEW list \in [1 .. m -> S]
  PROVE  list \in Seq(S) /\ Len(list) = IF m >= 0 THEN m ELSE 0
<1>1. CASE m >= 0
  BY <1>1
<1>2. CASE m < 0
  <2>1. 1 .. m = 1 .. 0
    BY <1>2
  <2>2. list \in [1 .. 0 -> S]
    BY <2>1
  <2>3. list \in Seq(S) /\ Len(list) = 0
    BY <2>2
  <2>4. QED  BY <1>2, <2>3
<1>3. QED  BY <1>1, <1>2

LEMMA RowAndPart ==
  ASSUME NEW runs, NEW n \in Nat, NEW m, m = n + 1, NEW row, NEW part,
         Row(runs, n, row), Part(runs, m, part)
  PROVE  Row(runs, m, row \o part)
<1> DEFINE list == row \o part
           a == Len(row)
           b == Len(part)
<1>1. row \in Seq(Window) /\ part \in Seq(Window) /\ a \in Nat /\ b \in Nat
  BY DEF Row, Part
<1>2. /\ list \in Seq(Window) /\ Len(list) = a + b
      /\ \A j \in 1 .. a : list[j] = row[j]
      /\ \A j \in a + 1 .. a + b : list[j] = part[j - a]
  BY <1>1
<1>3. /\ \A j \in 1 .. a : row[j].run \in 1 .. n /\ Fits(runs[row[j].run], row[j])
      /\ \A j \in 1 .. a - 1 : row[j].run = row[j + 1].run => Adjoin(row[j], row[j + 1])
  BY DEF Row
<1>4. /\ \A j \in 1 .. b : part[j].run = m /\ Fits(runs[m], part[j])
      /\ \A j \in 1 .. b - 1 : Adjoin(part[j], part[j + 1])
  BY DEF Part
<1> HIDE DEF list, a, b
<1>5. ASSUME NEW j \in 1 .. a + b
      PROVE  list[j].run \in 1 .. m /\ Fits(runs[list[j].run], list[j])
  <2>1. CASE j \in 1 .. a
    BY <1>2, <1>3, <2>1
  <2>2. CASE j \notin 1 .. a
    <3>1. j \in a + 1 .. a + b /\ j - a \in 1 .. b
      BY <1>1, <2>2
    <3>2. m \in 1 .. m
      OBVIOUS
    <3>3. QED  BY <1>2, <1>4, <3>1, <3>2
  <2>3. QED  BY <2>1, <2>2
<1>6. ASSUME NEW j \in 1 .. a + b - 1, list[j].run = list[j + 1].run
      PROVE  Adjoin(list[j], list[j + 1])
  <2>1. CASE j < a
    <3>1. j \in 1 .. a - 1 /\ j \in 1 .. a /\ j + 1 \in 1 .. a
      BY <1>1, <2>1
    <3>2. QED  BY <1>2, <1>3, <1>6, <3>1
  <2>2. CASE j = a
    <3>1. j \in 1 .. a /\ j + 1 \in a + 1 .. a + b /\ (j + 1) - a \in 1 .. b
      BY <1>1, <2>2
    <3>2. list[j].run \in 1 .. n /\ list[j + 1].run = m
      BY <1>2, <1>3, <1>4, <3>1
    <3>3. QED  BY <1>6, <3>2
  <2>3. CASE j > a
    <3>1. /\ j \in a + 1 .. a + b /\ j + 1 \in a + 1 .. a + b
          /\ j - a \in 1 .. b - 1 /\ (j + 1) - a = (j - a) + 1
      BY <1>1, <2>3
    <3>2. QED  BY <1>2, <1>4, <3>1
  <2>4. QED  BY <1>1, <2>1, <2>2, <2>3
<1>7. Row(runs, m, list)
  <2>1. \A j \in 1 .. Len(list) : list[j].run \in 1 .. m /\ Fits(runs[list[j].run], list[j])
    BY <1>2, <1>5
  <2>2. \A j \in 1 .. Len(list) - 1 :
          list[j].run = list[j + 1].run => Adjoin(list[j], list[j + 1])
    <3> TAKE j \in 1 .. Len(list) - 1
    <3>1. j \in 1 .. a + b - 1
      BY <1>1, <1>2
    <3>2. QED  BY <1>6, <3>1
  <2>3. list \in Seq(Window)
    BY <1>2
  <2>4. QED  BY <2>1, <2>2, <2>3 DEF Row
<1>8. QED  BY <1>7 DEF list

LEMMA PartsInARow ==
  ASSUME NEW runs, NEW parts, Len(parts) \in Nat, parts = <<>> <=> Len(parts) = 0,
         \A n \in 1 .. Len(parts) : Part(runs, n, parts[n])
  PROVE  Row(runs, Len(parts), FlattenSeq(parts))
<1> DEFINE flat == Flat(parts)
           Bad == {n \in 1 .. Len(parts) : ~Row(runs, n, flat[n])}
<1>1. CASE Len(parts) = 0
  <2>1. FlattenSeq(parts) = <<>>
    BY <1>1 DEF FlattenSeq
  <2>2. <<>> \in Seq(Window) /\ Len(<<>>) = 0
    OBVIOUS
  <2>3. QED  BY <2>1, <2>2 DEF Row
<1>2. CASE Len(parts) # 0
  <2>1. /\ FlattenSeq(parts) = flat[Len(parts)] /\ flat[1] = parts[1]
        /\ \A n \in 2 .. Len(parts) : flat[n] = flat[n - 1] \o parts[n]
    BY <1>2, JoinsEach
  <2> HIDE DEF flat
  <2>2. Bad = {}
    <3> SUFFICES ASSUME Bad # {} PROVE FALSE
      OBVIOUS
    <3>1. PICK n \in Bad : \A m \in Bad : n <= m
      <4> HIDE DEF Bad
      <4>1. Bad \in SUBSET Nat
        BY DEF Bad
      <4>2. QED  BY <4>1, Smallest
    <3>2. n \in 1 .. Len(parts) /\ Part(runs, n, parts[n]) /\ n \in Nat
      OBVIOUS
    <3>3. CASE n = 1
      <4>1. Row(runs, 1, parts[1])
        BY <3>2, <3>3 DEF Part, Row
      <4>2. QED  BY <2>1, <3>3, <4>1
    <3>4. CASE n # 1
      <4>1. n \in 2 .. Len(parts) /\ n - 1 \in 1 .. Len(parts) /\ ~(n <= n - 1)
            /\ n - 1 \in Nat /\ n = (n - 1) + 1
        BY <3>2, <3>4
      <4>2. Row(runs, n - 1, flat[n - 1])
        BY <3>1, <4>1
      <4>3. Row(runs, n, flat[n - 1] \o parts[n])
        <5> DEFINE k == n - 1
        <5>1. k \in Nat /\ n = k + 1 /\ Row(runs, k, flat[k])
          BY <4>1, <4>2
        <5> HIDE DEF k
        <5>2. Row(runs, n, flat[k] \o parts[n])
          BY <3>2, <5>1, RowAndPart
        <5>3. QED  BY <5>2 DEF k
      <4>4. QED  BY <2>1, <4>1, <4>3
    <3>5. QED  BY <3>3, <3>4
  <2>3. Len(parts) \in 1 .. Len(parts)
    BY <1>2
  <2>4. QED  BY <2>1, <2>2, <2>3
<1>3. QED  BY <1>1, <1>2

\* Windows of a fixed width move by one.
LEMMA FixedRow ==
  ASSUME NEW S, NEW runs \in Seq(Seq(S)), NEW width \in Nat, width >= Policy.ngram
  PROVE  Row(runs, Len(runs), FixedWindows(runs, width))
<1> DEFINE list(r) == [k \in 1 .. Len(runs[r]) - width + 1 |->
                         [run |-> r, start |-> k, end |-> k + width - 1]]
           parts == [r \in DOMAIN runs |-> list(r)]
<1>1. Policy.ngram \in Nat /\ Policy.ngram >= 1
  BY CopyAssumption
<1>2. ASSUME NEW r \in DOMAIN runs PROVE Part(runs, r, list(r))
  <2> DEFINE m == Len(runs[r]) - width + 1
  <2>1. Len(runs[r]) \in Nat /\ r \in Nat /\ m \in Int
    OBVIOUS
  <2>2. \A k \in 1 .. m : /\ [run |-> r, start |-> k, end |-> k + width - 1] \in Window
                          /\ k >= 1 /\ k + width - 1 <= Len(runs[r])
    BY <1>1, <2>1 DEF Window
  <2>3. list(r) \in [1 .. m -> Window]
    BY <2>2
  <2>4. /\ list(r) \in Seq(Window) /\ Len(list(r)) = IF m >= 0 THEN m ELSE 0
        /\ \A k \in 1 .. m :
             list(r)[k].run = r /\ list(r)[k].start = k /\ list(r)[k].end = k + width - 1
    <3>1. list(r) \in Seq(Window) /\ Len(list(r)) = IF m >= 0 THEN m ELSE 0
      <4> HIDE DEF list, m
      <4> QED  BY <2>1, <2>3, ListUpTo
    <3>2. QED  BY <3>1
  <2>5. \A k \in 1 .. Len(list(r)) : k \in 1 .. m /\ (k # Len(list(r)) => k + 1 \in 1 .. m)
    <3> HIDE DEF list, m
    <3> QED  BY <2>1, <2>4
  <2> HIDE DEF list, m
  <2>6. \A k \in 1 .. Len(list(r)) :
          list(r)[k].run = r /\ list(r)[k].start = k /\ list(r)[k].end = k + width - 1
    BY <2>4, <2>5
  <2>7. \A k \in 1 .. Len(list(r)) : Fits(runs[r], list(r)[k])
    <3> TAKE k \in 1 .. Len(list(r))
    <3>1. k \in 1 .. m
      BY <2>5
    <3>2. k >= 1 /\ k + width - 1 <= Len(runs[r])
      BY <2>2, <3>1
    <3>3. (k + width - 1) - k + 2 - Policy.ngram > 0
      BY <1>1, <2>1, <3>1
    <3>4. QED  BY <2>6, <3>2, <3>3 DEF Fits, Grams
  <2>8. \A k \in 1 .. Len(list(r)) - 1 : Adjoin(list(r)[k], list(r)[k + 1])
    <3> TAKE k \in 1 .. Len(list(r)) - 1
    <3>1. k \in 1 .. Len(list(r)) /\ k + 1 \in 1 .. Len(list(r))
      BY <2>4
    <3>2. /\ k <= k + 1 /\ k + 1 <= k + ((k + width - 1) - k + 2 - Policy.ngram)
          /\ k + width - 1 <= (k + 1) + width - 1
      <4> DEFINE p == Policy.ngram
      <4>1. k \in Nat /\ width \in Nat /\ p \in Nat /\ width >= p
        BY <1>1, <3>1
      <4> HIDE DEF p
      <4>2. k + 1 <= k + ((k + width - 1) - k + 2 - p)
        BY <4>1
      <4>3. k <= k + 1 /\ k + width - 1 <= (k + 1) + width - 1
        BY <4>1
      <4>4. QED  BY <4>2, <4>3 DEF p
    <3>3. QED  BY <2>6, <3>1, <3>2 DEF Adjoin, Grams
  <2>9. QED  BY <2>4, <2>6, <2>7, <2>8 DEF Part
<1> HIDE DEF list
<1>3. /\ DOMAIN runs = 1 .. Len(runs) /\ Len(runs) \in Nat
      /\ DOMAIN parts = 1 .. Len(runs) /\ \A r \in 1 .. Len(runs) : parts[r] = list(r)
  OBVIOUS
<1>4. Len(parts) = Len(runs) /\ (parts = <<>> <=> Len(runs) = 0)
  OBVIOUS
<1>5. FixedWindows(runs, width) = FlattenSeq(parts)
  BY DEF FixedWindows, list
<1> HIDE DEF parts
<1>6. Row(runs, Len(parts), FlattenSeq(parts))
  BY <1>2, <1>3, <1>4, PartsInARow
<1>7. QED  BY <1>4, <1>5, <1>6

\* Words are two graphemes apart, each.
LEMMA SpacedApart ==
  ASSUME NEW starts, NEW n \in Nat, Spaced(starts, n),
         NEW i \in 1 .. Len(starts), NEW j \in 1 .. Len(starts), i <= j
  PROVE  starts[i] + (j - i) + (j - i) <= starts[j]
<1> DEFINE Bad == {k \in i .. Len(starts) : ~(starts[i] + (k - i) + (k - i) <= starts[k])}
<1>1. /\ starts \in Seq(Nat) /\ Len(starts) \in Nat
      /\ \A k \in 1 .. Len(starts) - 1 : starts[k] + 2 <= starts[k + 1]
      /\ \A k \in 1 .. Len(starts) : starts[k] \in Nat
  BY DEF Spaced
<1>2. Bad = {}
  <2> SUFFICES ASSUME Bad # {} PROVE FALSE
    OBVIOUS
  <2>1. PICK k \in Bad : \A m \in Bad : k <= m
    <3> HIDE DEF Bad
    <3>1. Bad \in SUBSET Nat
      BY <1>1 DEF Bad
    <3>2. QED  BY <3>1, Smallest
  <2>2. k \in i .. Len(starts) /\ ~(starts[i] + (k - i) + (k - i) <= starts[k])
    OBVIOUS
  <2>3. k # i
    BY <1>1, <2>2
  <2> DEFINE m == k - 1
  <2>4. /\ m \in i .. Len(starts) /\ m \in 1 .. Len(starts) - 1 /\ m \in Int /\ m + 1 = k
        /\ ~(k <= m)
    BY <1>1, <2>2, <2>3
  <2>5. starts[i] + (m - i) + (m - i) <= starts[m]
    BY <2>1, <2>4
  <2> HIDE DEF m
  <2>6. starts[m] + 2 <= starts[m + 1]
    BY <1>1, <2>4
  <2>7. starts[i] \in Nat /\ starts[m] \in Nat /\ starts[k] \in Nat
    BY <1>1, <2>2, <2>4
  <2>8. k \in Int /\ i \in Int /\ k - i = (m - i) + 1
    BY <1>1, <2>2, <2>4
  <2>9. starts[m] + 2 <= starts[k]
    BY <2>4, <2>6
  <2>10. ~(starts[i] + (k - i) + (k - i) <= starts[k])
    BY <2>2
  <2> DEFINE first == starts[i]
             before == starts[m]
             here == starts[k]
             apart == m - i
  <2> HIDE DEF Bad
  <2>11. first \in Int /\ before \in Int /\ here \in Int /\ apart \in Int
    BY <2>4, <2>7, <2>8
  <2>12. before + 2 <= here
    BY <2>9
  <2>13. first + apart + apart <= before
    BY <2>5
  <2>14. ~(first + (apart + 1) + (apart + 1) <= here)
    <3>1. k - i = apart + 1
      BY <2>8
    <3>2. ~(first + (k - i) + (k - i) <= here)
      BY <2>10
    <3>3. QED  BY <3>1, <3>2
  <2> HIDE DEF first, before, here, apart
  <2>15. QED  BY <2>11, <2>12, <2>13, <2>14
<1>3. j \in i .. Len(starts)
  BY <1>1
<1>4. QED  BY <1>2, <1>3

\* Windows of words move by a word, and have as many graphemes at least as their words and
\* what lies between these.
LEMMA WordRow ==
  ASSUME NEW runs \in Seq(CharRun), NEW count \in Nat, count >= 1,
         count + count - 2 >= Policy.ngram, NEW tokens,
         tokens = [r \in DOMAIN runs |-> runs[r].tokens]
  PROVE  Row(tokens, Len(runs), WordWindows(runs, count))
<1> DEFINE list(r) == [k \in 1 .. Len(runs[r].starts) - count + 1 |->
                         [run |-> r, start |-> runs[r].starts[k],
                          end |-> WordWindowEnd(runs[r], k, count)]]
           parts == [r \in DOMAIN runs |-> list(r)]
<1>1. Policy.ngram \in Nat /\ Policy.ngram >= 1
  BY CopyAssumption
<1>2. ASSUME NEW r \in DOMAIN runs PROVE Part(tokens, r, list(r))
  <2> DEFINE starts == runs[r].starts
             n == Len(runs[r].tokens)
             m == Len(starts) - count + 1
             end(k) == WordWindowEnd(runs[r], k, count)
  <2>1. /\ runs[r] \in CharRun /\ r \in Nat /\ tokens[r] = runs[r].tokens
    OBVIOUS
  <2>2. /\ n \in Nat /\ starts \in Seq(Nat) /\ Len(starts) \in Nat /\ Spaced(starts, n)
        /\ \A k \in 1 .. Len(starts) : starts[k] \in 1 .. n
    BY <2>1 DEF CharRun, Spaced
  <2>3. /\ m \in Int /\ Len(starts) = m + count - 1
        /\ \A k : end(k) = IF k + count > Len(starts) THEN n ELSE starts[k + count] - 2
    BY <2>2 DEF WordWindowEnd
  <2> HIDE DEF end, starts, n, m
  <2>4. ASSUME NEW k \in 1 .. m
        PROVE  /\ end(k) = IF k = m THEN n ELSE starts[k + count] - 2
               /\ k \in 1 .. Len(starts) /\ k + count - 1 \in 1 .. Len(starts)
               /\ k # m => k + count \in 1 .. Len(starts) /\ k + 1 \in 1 .. Len(starts)
    <3>1. k + count > Len(starts) <=> k = m
      BY <2>2, <2>3
    <3>2. end(k) = IF k = m THEN n ELSE starts[k + count] - 2
      BY <2>3, <3>1
    <3>3. /\ k \in 1 .. Len(starts) /\ k + count - 1 \in 1 .. Len(starts)
          /\ k # m => k + count \in 1 .. Len(starts) /\ k + 1 \in 1 .. Len(starts)
      BY <2>2, <2>3
    <3>4. QED  BY <3>2, <3>3
  <2>5. ASSUME NEW k \in 1 .. m
        PROVE  /\ starts[k] \in 1 .. n /\ end(k) \in Nat /\ end(k) <= n
               /\ end(k) - starts[k] >= count + count - 2
    <3> DEFINE last == k + count - 1
    <3>1. /\ k \in 1 .. Len(starts) /\ last \in 1 .. Len(starts) /\ k <= last
          /\ last - k = count - 1
      BY <2>2, <2>4
    <3> HIDE DEF last
    <3>2. starts[k] + (count - 1) + (count - 1) <= starts[last]
      BY <2>2, <3>1, SpacedApart
    <3>3. starts[last] \in 1 .. n /\ starts[k] \in 1 .. n
      BY <2>2, <3>1
    <3>4. CASE k = m
      <4> DEFINE s == starts[k]
                 l == starts[last]
      <4>1. end(k) = n
        BY <2>4, <3>4
      <4>2. s \in Int /\ l \in Int /\ l <= n /\ s + (count - 1) + (count - 1) <= l
        BY <3>2, <3>3
      <4> HIDE DEF s, l
      <4>3. n - s >= count + count - 2
        BY <2>2, <4>2
      <4>4. QED  BY <2>2, <3>3, <4>1, <4>3 DEF s
    <3>5. CASE k # m
      <4> DEFINE next == k + count
      <4>1. next \in 1 .. Len(starts) /\ end(k) = starts[next] - 2 /\ next = last + 1
        BY <2>4, <3>5 DEF last
      <4> HIDE DEF next
      <4>2. starts[last] + 2 <= starts[next] /\ starts[next] \in 1 .. n
        <5>1. last \in 1 .. Len(starts) - 1
          BY <2>2, <3>1, <4>1
        <5>2. starts[last] + 2 <= starts[last + 1]
          BY <2>2, <5>1 DEF Spaced
        <5>3. QED  BY <2>2, <4>1, <5>2
      <4> DEFINE s == starts[k]
                 l == starts[last]
                 x == starts[next]
      <4>3. /\ s \in Int /\ l \in Int /\ x \in Int /\ 1 <= s /\ 1 <= l /\ x <= n
            /\ s + (count - 1) + (count - 1) <= l /\ l + 2 <= x /\ end(k) = x - 2
        BY <3>2, <3>3, <4>1, <4>2
      <4> HIDE DEF s, l, x
      <4>4. x - 2 \in Nat /\ x - 2 <= n /\ (x - 2) - s >= count + count - 2
        BY <2>2, <4>3
      <4>5. QED  BY <3>3, <4>3, <4>4 DEF s
    <3>6. QED  BY <3>4, <3>5
  <2>6. \A k \in 1 .. m : [run |-> r, start |-> starts[k], end |-> end(k)] \in Window
    <3> TAKE k \in 1 .. m
    <3>1. starts[k] \in Nat /\ end(k) \in Nat
      BY <2>2, <2>5
    <3>2. QED  BY <2>1, <3>1 DEF Window
  <2>7. list(r) = [k \in 1 .. m |-> [run |-> r, start |-> starts[k], end |-> end(k)]]
    BY DEF end, starts, m
  <2> HIDE DEF list
  <2>8. list(r) \in [1 .. m -> Window]
    BY <2>6, <2>7
  <2>9. /\ list(r) \in Seq(Window) /\ Len(list(r)) = IF m >= 0 THEN m ELSE 0
    BY <2>3, <2>8, ListUpTo
  <2>10. /\ Len(list(r)) \in Nat
         /\ \A k \in 1 .. Len(list(r)) : k \in 1 .. m /\ (k # Len(list(r)) => k + 1 \in 1 .. m /\ k # m)
    BY <2>3, <2>9
  <2>11. \A k \in 1 .. Len(list(r)) :
           list(r)[k].run = r /\ list(r)[k].start = starts[k] /\ list(r)[k].end = end(k)
    <3>1. \A k \in 1 .. m :
            list(r)[k].run = r /\ list(r)[k].start = starts[k] /\ list(r)[k].end = end(k)
      BY <2>7
    <3>2. QED  BY <2>10, <3>1
  <2>12. \A k \in 1 .. Len(list(r)) : Fits(tokens[r], list(r)[k])
    <3> TAKE k \in 1 .. Len(list(r))
    <3>1. starts[k] \in 1 .. n /\ end(k) \in Nat /\ end(k) <= n /\ end(k) - starts[k] >= count + count - 2
      BY <2>5, <2>10
    <3>2. starts[k] >= 1 /\ end(k) - starts[k] + 2 - Policy.ngram > 0
      <4> DEFINE s == starts[k]
                 e == end(k)
                 g == Policy.ngram
      <4>1. /\ s \in Int /\ e \in Int /\ g \in Int /\ 1 <= s /\ e - s >= count + count - 2
            /\ count + count - 2 >= g
        BY <1>1, <3>1
      <4> HIDE DEF s, e, g
      <4>2. s >= 1 /\ e - s + 2 - g > 0
        BY <4>1
      <4>3. QED  BY <4>2 DEF s, e, g
    <3>3. QED  BY <2>1, <2>11, <3>1, <3>2 DEF Fits, Grams, n
  <2>13. \A k \in 1 .. Len(list(r)) - 1 : Adjoin(list(r)[k], list(r)[k + 1])
    <3> TAKE k \in 1 .. Len(list(r)) - 1
    <3> DEFINE next == k + 1
               last == k + count
    <3>1. /\ k \in 1 .. Len(list(r)) /\ k \in 1 .. m /\ next \in 1 .. m /\ k # m
          /\ next \in 1 .. Len(list(r))
      BY <2>10
    <3>2. /\ k \in 1 .. Len(starts) /\ next \in 1 .. Len(starts) /\ last \in 1 .. Len(starts)
          /\ end(k) = starts[last] - 2 /\ k <= next /\ next - k = 1 /\ next <= last
          /\ last - next = count - 1
      BY <2>4, <3>1
    <3>3. /\ list(r)[k].start = starts[k] /\ list(r)[k].end = end(k)
          /\ list(r)[next].start = starts[next] /\ list(r)[next].end = end(next)
      BY <2>11, <3>1
    <3>4. next = m \/ (next # m /\ end(next) = starts[last + 1] - 2 /\ last + 1 \in 1 .. Len(starts))
      BY <2>4, <3>1
    <3>5. next = m => end(next) = n
      BY <2>4, <3>1
    <3> HIDE DEF next, last
    <3>6. starts[k] + 2 <= starts[next] /\ starts[next] + (count - 1) + (count - 1) <= starts[last]
      <4>1. starts[k] + (next - k) + (next - k) <= starts[next]
        BY <2>2, <3>2, SpacedApart
      <4>2. starts[next] + (last - next) + (last - next) <= starts[last]
        BY <2>2, <3>2, SpacedApart
      <4>3. starts[k] + 1 + 1 <= starts[next]
        BY <3>2, <4>1
      <4>4. starts[next] + (count - 1) + (count - 1) <= starts[last]
        BY <3>2, <4>2
      <4>5. starts[k] \in Nat /\ starts[next] \in Nat
        <5>1. \A x \in 1 .. Len(starts) : starts[x] \in Nat
          BY <2>2
        <5>2. k \in 1 .. Len(starts) /\ next \in 1 .. Len(starts)
          BY <3>2
        <5>3. QED  BY <5>1, <5>2
      <4>6. QED  BY <4>3, <4>4, <4>5
    <3>7. {starts[k], starts[next], starts[last]} \subseteq 1 .. n
      BY <2>2, <3>2
    <3>8. end(k) <= end(next)
      <4>1. CASE next = m
        <5>1. end(k) = starts[last] - 2 /\ end(next) = n /\ starts[last] \in 1 .. n
          BY <3>2, <3>5, <3>7, <4>1
        <5>2. \A x \in 1 .. n : x - 2 <= n
          BY <2>2
        <5>3. QED  BY <5>1, <5>2
      <4>2. CASE next # m
        <5>1. last \in 1 .. Len(starts) - 1 /\ last + 1 \in 1 .. Len(starts)
          BY <2>2, <3>2, <3>4, <4>2
        <5>2. starts[last] + 2 <= starts[last + 1] /\ starts[last + 1] \in 1 .. n
          BY <2>2, <5>1 DEF Spaced
        <5> DEFINE x == starts[last]
                   y == starts[last + 1]
        <5>3. x \in Int /\ y \in Int
          BY <3>7, <5>2
        <5>4. x + 2 <= y /\ end(k) = x - 2 /\ end(next) = y - 2
          BY <3>2, <3>4, <4>2, <5>2
        <5> HIDE DEF x, y
        <5>5. x - 2 <= y - 2
          BY <5>3, <5>4
        <5>6. QED  BY <5>4, <5>5
      <4>3. QED  BY <4>1, <4>2
    <3>9. starts[k] <= starts[next] /\ starts[next] <= starts[k] + (end(k) - starts[k] + 2 - Policy.ngram)
      <4> DEFINE x == starts[k]
                 y == starts[next]
                 z == starts[last]
                 g == Policy.ngram
      <4>1. x \in Int /\ y \in Int /\ z \in Int
        BY <3>7
      <4>2. x + 2 <= y /\ y + (count - 1) + (count - 1) <= z /\ end(k) = z - 2
        BY <3>2, <3>6
      <4>3. g \in Int /\ count + count - 2 >= g
        BY <1>1
      <4> HIDE DEF x, y, z, g
      <4>4. x <= y /\ y <= x + ((z - 2) - x + 2 - g)
        BY <4>1, <4>2, <4>3
      <4>5. QED  BY <4>2, <4>4 DEF x, y, g
    <3>10. QED  BY <3>3, <3>8, <3>9 DEF Adjoin, Grams, next
  <2>14. QED  BY <2>9, <2>11, <2>12, <2>13 DEF Part
<1> HIDE DEF list
<1>3. /\ DOMAIN runs = 1 .. Len(runs) /\ Len(runs) \in Nat
      /\ DOMAIN parts = 1 .. Len(runs) /\ \A r \in 1 .. Len(runs) : parts[r] = list(r)
  OBVIOUS
<1>4. Len(parts) = Len(runs) /\ (parts = <<>> <=> Len(runs) = 0)
  OBVIOUS
<1>5. WordWindows(runs, count) = FlattenSeq(parts)
  BY DEF WordWindows, list
<1> HIDE DEF parts
<1>6. Row(tokens, Len(parts), FlattenSeq(parts))
  BY <1>2, <1>3, <1>4, PartsInARow
<1>7. QED  BY <1>4, <1>5, <1>6

-----------------------------------------------------------------------------
(***************************************************************************)
(* Visiting the windows of a row.  The counts are those of the window that *)
(* was visited last, so what moving on removes is in them.                 *)
(***************************************************************************)
LEMMA MaxOfTwo ==
  ASSUME NEW g \in Int, g > 0
  PROVE  Max({g, 0}) = g
<1>1. \A x \in {g, 0} : g >= x
  OBVIOUS
<1>2. \A x \in {g, 0} : (\A y \in {g, 0} : x >= y) => x = g
  OBVIOUS
<1>3. QED  BY <1>1, <1>2 DEF Max

LEMMA GramsCounted ==
  ASSUME NEW S, NEW run \in Seq(S), NEW w \in Window, Fits(run, w)
  PROVE  /\ GramCount(w) = Grams(w) /\ GramCount(w) > 0 /\ GramCount(w) \in Nat
         /\ w.start + GramCount(w) - 1 = w.end + 1 - Policy.ngram
         /\ w.end + 1 - Policy.ngram \in Nat
         /\ w.end + 1 - Policy.ngram <= Len(Fingerprints(run))
         /\ Fingerprints(run) \in Seq({Fingerprints(run)[k] : k \in DOMAIN Fingerprints(run)})
<1> DEFINE e == w.end
           s == w.start
           g == Policy.ngram
           h == Fingerprints(run)
           m == Len(run) - g + 1
<1>1. s \in Nat /\ e \in Nat /\ g \in Nat /\ g >= 1 /\ Len(run) \in Nat
  BY CopyAssumption DEF Window
<1>2. s >= 1 /\ e <= Len(run) /\ Grams(w) = e - s + 2 - g /\ e - s + 2 - g > 0
  BY DEF Fits, Grams
<1>3. GramCount(w) = Max({e - s + 2 - g, 0})
  BY DEF GramCount
<1>4. \E K : h = [k \in 1 .. m |-> K[k]]
  <2> DEFINE K == h
  <2>1. h = [k \in 1 .. m |-> K[k]]
    BY DEF Fingerprints
  <2>2. QED  BY <2>1
<1> HIDE DEF e, s, g, h, m
<1>5. e - s + 2 - g \in Int
  BY <1>1
<1>6. GramCount(w) = e - s + 2 - g
  <2> DEFINE x == e - s + 2 - g
  <2>1. x \in Int /\ x > 0 /\ GramCount(w) = Max({x, 0})
    BY <1>2, <1>3, <1>5
  <2> HIDE DEF x
  <2>2. GramCount(w) = x
    BY <2>1, MaxOfTwo
  <2>3. QED  BY <2>2 DEF x
<1>7. /\ s + (e - s + 2 - g) - 1 = e + 1 - g /\ e + 1 - g \in Nat
      /\ e + 1 - g <= Len(run) - g + 1 /\ Len(run) - g + 1 \in Nat
      /\ e - s + 2 - g \in Nat
  BY <1>1, <1>2
<1>8. m \in Nat /\ m = Len(run) - g + 1
  BY <1>7 DEF m
<1>9. h \in Seq({h[k] : k \in DOMAIN h}) /\ Len(h) = m
  <2>1. DOMAIN h = 1 .. m /\ h = [k \in 1 .. m |-> h[k]]
    BY <1>4
  <2>2. h \in [1 .. m -> {h[k] : k \in DOMAIN h}]
    BY <2>1
  <2>3. QED  BY <1>8, <2>2
<1>10. QED  BY <1>2, <1>6, <1>7, <1>8, <1>9 DEF e, s, g, h

\* Moving on to a window that adjoins does not panic, and counts that window's n-grams.
LEMMA MovesOn ==
  ASSUME NEW S, NEW run \in Seq(S), NEW from \in Window, NEW to \in Window,
         Fits(run, from), Fits(run, to), Adjoin(from, to)
  PROVE  LET h == Fingerprints(run)
         IN  /\ Advances(WindowCounts(h, from), h, from, to)
             /\ Advance(WindowCounts(h, from), h, from, to) = WindowCounts(h, to)
<1> DEFINE h == Fingerprints(run)
           V == {h[k] : k \in DOMAIN h}
           a == from.start
           b == to.start
           e == from.end + 1 - Policy.ngram
           f == to.end + 1 - Policy.ngram
           c == b - 1
           d == e + 1
<1>1. h \in Seq(V) /\ e \in Nat /\ f \in Nat /\ e <= Len(h) /\ f <= Len(h)
  BY GramsCounted
<1>2. /\ a + GramCount(from) - 1 = e /\ b + GramCount(to) - 1 = f
      /\ GramCount(from) = Grams(from) /\ GramCount(to) \in Nat /\ GramCount(from) \in Nat
      /\ GramCount(from) > 0 /\ GramCount(to) > 0
  BY GramsCounted
<1>3. a \in Nat /\ b \in Nat /\ 1 <= a /\ 1 <= b
  BY DEF Window, Fits
<1>4. a <= b /\ b <= a + GramCount(from) /\ from.end <= to.end
  BY <1>2 DEF Adjoin
<1>5. from.end \in Nat /\ to.end \in Nat /\ Policy.ngram \in Nat /\ Len(h) \in Nat
  BY <1>1, CopyAssumption DEF Window
<1>6. e <= f
  BY <1>4, <1>5
<1> HIDE DEF h, V, a, b, e, f
<1>7. a + GramCount(from) = d /\ a <= e /\ b <= f
  <2> DEFINE x == GramCount(from)
             y == GramCount(to)
  <2>1. x \in Nat /\ y \in Nat /\ x > 0 /\ y > 0 /\ a + x - 1 = e /\ b + y - 1 = f
    BY <1>2
  <2> HIDE DEF x, y
  <2>2. a + x = d /\ a <= e /\ b <= f
    BY <1>1, <1>3, <2>1
  <2>3. QED  BY <2>2 DEF x
<1>8. /\ c \in Nat /\ d \in Nat /\ a <= c + 1 /\ c <= Len(h) /\ b <= e + 1
      /\ 1 <= d /\ d <= f + 1 /\ a <= e + 1 /\ b <= f + 1
  BY <1>1, <1>3, <1>4, <1>6, <1>7
<1>9. WindowCounts(h, from) = CountsOf(h, a, e)
  <2>1. WindowCounts(h, from) = ToBag(SubSeq(h, a, e))
    BY <1>2 DEF WindowCounts, a
  <2>2. QED  BY <1>1, <1>3, <1>8, <2>1, BagOfPart
<1>10. WindowCounts(h, to) = CountsOf(h, b, f)
  <2>1. WindowCounts(h, to) = ToBag(SubSeq(h, b, f))
    BY <1>2 DEF WindowCounts, b
  <2>2. QED  BY <1>1, <1>3, <1>8, <2>1, BagOfPart
<1>11. ToBag(Gone(h, from, to)) = CountsOf(h, a, b - 1)
  <2>1. Gone(h, from, to) = SubSeq(h, a, c)
    BY DEF Gone, a, b
  <2> HIDE DEF c
  <2>2. ToBag(SubSeq(h, a, c)) = CountsOf(h, a, c)
    BY <1>1, <1>3, <1>8, BagOfPart
  <2>3. QED  BY <2>1, <2>2 DEF c
<1>12. ToBag(SubSeq(h, a + GramCount(from), b + GramCount(to) - 1)) = CountsOf(h, e + 1, f)
  <2>1. SubSeq(h, a + GramCount(from), b + GramCount(to) - 1) = SubSeq(h, d, f)
    BY <1>2, <1>7
  <2> HIDE DEF d
  <2>2. ToBag(SubSeq(h, d, f)) = CountsOf(h, d, f)
    BY <1>1, <1>8, BagOfPart
  <2>3. QED  BY <2>1, <2>2 DEF d
<1>13. /\ CountsOf(h, a, b - 1) \sqsubseteq CountsOf(h, a, e)
       /\ (CountsOf(h, a, e) (-) CountsOf(h, a, b - 1)) (+) CountsOf(h, e + 1, f)
            = CountsOf(h, b, f)
  BY <1>1, <1>3, <1>4, <1>6, <1>8, Slides
<1>14. Advances(WindowCounts(h, from), h, from, to)
  <2>1. a <= b /\ b - 1 <= Len(h)
    BY <1>4, <1>8
  <2>2. a + GramCount(from) <= b + GramCount(to) /\ b + GramCount(to) - 1 <= Len(h)
    <3> DEFINE y == GramCount(to)
    <3>1. y \in Nat /\ b + y - 1 = f
      BY <1>2
    <3> HIDE DEF y
    <3>2. d <= b + y /\ b + y - 1 <= Len(h)
      BY <1>1, <1>3, <1>6, <3>1
    <3>3. QED  BY <1>7, <3>2 DEF y
  <2>3. ToBag(Gone(h, from, to)) \sqsubseteq WindowCounts(h, from)
    BY <1>9, <1>11, <1>13
  <2>4. QED  BY <2>1, <2>2, <2>3 DEF Advances, a, b
<1>15. Advance(WindowCounts(h, from), h, from, to) = WindowCounts(h, to)
  BY <1>9, <1>10, <1>11, <1>12, <1>13 DEF Advance, a, b
<1>16. QED  BY <1>14, <1>15 DEF h

StateFields == {"window", "counts", "used", "outcome", "hit"}

\* A comparison ends with the window and its counts, and does not panic.
LEMMA Compares ==
  ASSUME NEW state, DOMAIN state = StateFields, state.outcome = "none",
         NEW w, NEW counts, NEW classes, NEW exempt
  PROVE  LET after == Compare(state, w, counts, classes, exempt)
         IN  /\ DOMAIN after = StateFields /\ after.window = w /\ after.counts = counts
             /\ after.outcome # "panicked"
<1> DEFINE next == [state EXCEPT !.window = w, !.counts = counts]
           Kept(after) == /\ DOMAIN after = StateFields
                          /\ after.window = w /\ after.counts = counts
                          /\ after.outcome # "panicked"
<1>1. Kept(next) /\ next.outcome = "none"
  BY DEF StateFields
<1>2. Compare(state, w, counts, classes, exempt)
        = IF exempt THEN next ELSE Verified(next, classes, counts, Prefix(counts))
  BY DEF Compare
<1> HIDE DEF next
<1>3. ASSUME NEW tried, NEW hits PROVE Kept(Counted(next, classes, counts, tried, hits))
  <2>1. \A u, x : Kept([next EXCEPT !.used = u]) /\ Kept([next EXCEPT !.used = u, !.outcome = "exceeded"])
                  /\ Kept([next EXCEPT !.used = u, !.outcome = "found", !.hit = x])
    BY <1>1 DEF StateFields
  <2> HIDE DEF Kept
  <2>2. CASE Cardinality(tried) > Left(next)
    BY <2>1, <2>2 DEF Counted
  <2>3. CASE ~(Cardinality(tried) > Left(next)) /\ hits = {}
    <3>1. Counted(next, classes, counts, tried, hits)
            = [next EXCEPT !.used = @ + Cardinality(tried)]
      BY <2>3 DEF Counted
    <3>2. QED  BY <2>1, <3>1
  <2>4. CASE ~(Cardinality(tried) > Left(next)) /\ hits # {}
    <3> DEFINE hit == CHOOSE c \in hits : c \in tried
    <3>1. Counted(next, classes, counts, tried, hits)
            = [next EXCEPT !.used = @ + Cardinality(tried), !.outcome = "found",
                           !.hit = <<hit, Score(classes[hit], counts)>>]
      BY <2>4 DEF Counted
    <3> DEFINE u == next.used + Cardinality(tried)
               x == <<hit, Score(classes[hit], counts)>>
    <3>2. Counted(next, classes, counts, tried, hits)
            = [next EXCEPT !.used = u, !.outcome = "found", !.hit = x]
      BY <3>1
    <3> HIDE DEF u, x
    <3>3. Kept([next EXCEPT !.used = u, !.outcome = "found", !.hit = x])
      BY <2>1
    <3>4. QED  BY <3>2, <3>3
  <2>5. QED  BY <2>2, <2>3, <2>4
<1> HIDE DEF Kept
<1>4. Kept(Verified(next, classes, counts, Prefix(counts)))
  BY <1>3 DEF Verified
<1>5. Kept(Compare(state, w, counts, classes, exempt))
  BY <1>1, <1>2, <1>4
<1>6. QED  BY <1>5 DEF Kept

\* After the first n windows.
VisitOK(state, n, theirs, sruns) ==
  /\ DOMAIN state = StateFields
  /\ state.outcome # "panicked"
  /\ n > 0 /\ state.outcome = "none" /\ Policy.percent # 0 =>
       /\ state.window = theirs[n]
       /\ state.counts = WindowCounts(Fingerprints(sruns[theirs[n].run]), theirs[n])
  /\ n = 0 => state.window = None

\* A visit without the counts of the window before it.
Afresh(state, w, sruns, source, classes) ==
  IF state.outcome # "none" THEN state
  ELSE IF Policy.percent # 0
  THEN Compare(state, w, WindowCounts(Fingerprints(sruns[w.run]), w), classes,
               Exempt(source, RangeOf(sruns, w)))
  ELSE IF Exempt(source, RangeOf(sruns, w)) THEN state
  ELSE [state EXCEPT !.window = w, !.outcome = "found", !.hit = <<Min(DOMAIN classes), 0>>]

LEMMA VisitIs ==
  ASSUME NEW S, NEW sruns \in Seq(Seq(S)), NEW theirs, Row(sruns, Len(sruns), theirs),
         NEW source, NEW classes, NEW state, NEW n \in 1 .. Len(theirs),
         VisitOK(state, n - 1, theirs, sruns)
  PROVE  Visit(state, theirs[n], sruns, source, classes)
           = Afresh(state, theirs[n], sruns, source, classes)
<1> DEFINE w == theirs[n]
           h == Fingerprints(sruns[w.run])
           exempt == Exempt(source, RangeOf(sruns, w))
           after == Visit(state, w, sruns, source, classes)
           k == n - 1
<1>1. /\ theirs \in Seq(Window) /\ Len(theirs) \in Nat
      /\ \A j \in 1 .. Len(theirs) : theirs[j].run \in 1 .. Len(sruns) /\ Fits(sruns[theirs[j].run], theirs[j])
      /\ \A j \in 1 .. Len(theirs) - 1 :
           theirs[j].run = theirs[j + 1].run => Adjoin(theirs[j], theirs[j + 1])
  BY DEF Row
<1>2. w \in Window /\ Fits(sruns[w.run], w) /\ sruns[w.run] \in Seq(S)
  BY <1>1
<1>3. GramCount(w) # 0
  <2>1. GramCount(w) > 0 /\ GramCount(w) \in Nat
    BY <1>2, GramsCounted
  <2>2. QED  BY <2>1
<1>4. /\ DOMAIN state = StateFields /\ state.outcome # "panicked"
      /\ k > 0 /\ state.outcome = "none" /\ Policy.percent # 0 =>
           /\ state.window = theirs[k]
           /\ state.counts = WindowCounts(Fingerprints(sruns[theirs[k].run]), theirs[k])
      /\ k = 0 => state.window = None
  BY <1>1 DEF VisitOK
<1>5. state.outcome # "none" => after = state
  BY DEF Visit
<1>6. state.outcome = "none" /\ Policy.percent = 0
        => after = IF exempt THEN state
                   ELSE [state EXCEPT !.window = w, !.outcome = "found", !.hit = <<Min(DOMAIN classes), 0>>]
  BY <1>3 DEF Visit
<1>7. ASSUME state.outcome = "none", Policy.percent # 0
      PROVE  after = Compare(state, w, WindowCounts(h, w), classes, exempt)
  <2>1. after = Slide(state, w, h, classes, exempt)
    BY <1>3, <1>7 DEF Visit
  <2>2. CASE state.window = None \/ state.window.run # w.run
    BY <2>1, <2>2 DEF Slide
  <2>3. CASE state.window # None /\ state.window.run = w.run
    <3>1. k \in Nat /\ k # 0 /\ k \in 1 .. Len(theirs) /\ k \in 1 .. Len(theirs) - 1 /\ k + 1 = n
      BY <1>1, <1>4, <2>3
    <3> HIDE DEF k
    <3> DEFINE v == theirs[k]
    <3>2. /\ state.window = v /\ v.run = w.run
          /\ state.counts = WindowCounts(h, v)
      BY <1>4, <1>7, <2>3, <3>1
    <3>3. v \in Window /\ Fits(sruns[v.run], v) /\ Adjoin(v, w)
      BY <1>1, <3>1, <3>2
    <3> HIDE DEF v, w, after, exempt
    <3>4. Fits(sruns[w.run], v)
      BY <3>2, <3>3
    <3>5. Advances(WindowCounts(h, v), h, v, w) /\ Advance(WindowCounts(h, v), h, v, w) = WindowCounts(h, w)
      BY <1>2, <3>3, <3>4, MovesOn
    <3> HIDE DEF h
    <3>6. QED  BY <2>1, <2>3, <3>2, <3>5 DEF Slide
  <2>4. QED  BY <2>2, <2>3
<1>8. QED
  <2> HIDE DEF after, w, exempt, h
  <2>1. after = IF state.outcome # "none" THEN state
                ELSE IF Policy.percent # 0
                THEN Compare(state, w, WindowCounts(h, w), classes, exempt)
                ELSE IF exempt THEN state
                ELSE [state EXCEPT !.window = w, !.outcome = "found", !.hit = <<Min(DOMAIN classes), 0>>]
    BY <1>5, <1>6, <1>7
  <2>2. QED  BY <2>1 DEF after, w, exempt, h, Afresh

LEMMA VisitsOn ==
  ASSUME NEW S, NEW sruns \in Seq(Seq(S)), NEW theirs, Row(sruns, Len(sruns), theirs),
         NEW source, NEW classes, NEW state, NEW n \in 1 .. Len(theirs),
         VisitOK(state, n - 1, theirs, sruns)
  PROVE  VisitOK(Visit(state, theirs[n], sruns, source, classes), n, theirs, sruns)
<1> DEFINE w == theirs[n]
           h == Fingerprints(sruns[w.run])
           exempt == Exempt(source, RangeOf(sruns, w))
           after == Visit(state, w, sruns, source, classes)
<1>1. after = IF state.outcome # "none" THEN state
              ELSE IF Policy.percent # 0
              THEN Compare(state, w, WindowCounts(h, w), classes, exempt)
              ELSE IF exempt THEN state
              ELSE [state EXCEPT !.window = w, !.outcome = "found", !.hit = <<Min(DOMAIN classes), 0>>]
  <2>1. Visit(state, theirs[n], sruns, source, classes) = Afresh(state, theirs[n], sruns, source, classes)
    BY VisitIs
  <2>2. QED  BY <2>1 DEF Afresh
<1>2. DOMAIN state = StateFields /\ state.outcome # "panicked" /\ n # 0
  BY DEF VisitOK
<1> HIDE DEF after, exempt, h, w
<1>3. CASE state.outcome # "none"
  BY <1>1, <1>2, <1>3 DEF VisitOK, after, w
<1>4. CASE state.outcome = "none" /\ Policy.percent = 0
  <2>1. DOMAIN after = StateFields /\ after.outcome # "panicked"
    BY <1>1, <1>2, <1>4 DEF StateFields
  <2>2. QED  BY <1>2, <1>4, <2>1 DEF VisitOK, after, w
<1>5. CASE state.outcome = "none" /\ Policy.percent # 0
  <2>1. after = Compare(state, w, WindowCounts(h, w), classes, exempt)
    BY <1>1, <1>5
  <2>2. /\ DOMAIN after = StateFields /\ after.window = w /\ after.counts = WindowCounts(h, w)
        /\ after.outcome # "panicked"
    BY <1>2, <1>5, <2>1, Compares
  <2>3. QED  BY <1>2, <2>2 DEF VisitOK, after, h, w
<1>6. QED  BY <1>3, <1>4, <1>5 DEF after, w

LEMMA VisitsAll ==
  ASSUME NEW S, NEW sruns \in Seq(Seq(S)), NEW theirs, Row(sruns, Len(sruns), theirs),
         NEW source, NEW classes
  PROVE  VisitAll(theirs, sruns, source, classes).outcome # "panicked"
<1> DEFINE after == Visiting(theirs, sruns, source, classes)
           Bad == {n \in 0 .. Len(theirs) : ~VisitOK(after[n], n, theirs, sruns)}
<1>1. Len(theirs) \in Nat
  BY DEF Row
<1>2. /\ VisitAll(theirs, sruns, source, classes) = after[Len(theirs)] /\ after[0] = Start
      /\ \A n \in 1 .. Len(theirs) :
           after[n] = Visit(after[n - 1], theirs[n], sruns, source, classes)
  BY <1>1, VisitsEach
<1> HIDE DEF after
<1>3. Bad = {}
  <2> SUFFICES ASSUME Bad # {} PROVE FALSE
    OBVIOUS
  <2>1. PICK n \in Bad : \A m \in Bad : n <= m
    <3> HIDE DEF Bad
    <3>1. Bad \in SUBSET Nat
      BY <1>1 DEF Bad
    <3>2. QED  BY <3>1, Smallest
  <2>2. n # 0
    <3>1. VisitOK(Start, 0, theirs, sruns)
      BY DEF VisitOK, Start, StateFields
    <3>2. QED  BY <1>2, <3>1
  <2>3. n \in 1 .. Len(theirs) /\ n - 1 \in 0 .. Len(theirs) /\ ~(n <= n - 1)
    BY <1>1, <2>2
  <2>4. VisitOK(after[n - 1], n - 1, theirs, sruns)
    BY <2>1, <2>3
  <2>5. VisitOK(after[n], n, theirs, sruns)
    BY <1>2, <2>3, <2>4, VisitsOn
  <2>6. QED  BY <2>5
<1>4. VisitOK(after[Len(theirs)], Len(theirs), theirs, sruns)
  <2>1. Len(theirs) \in 0 .. Len(theirs)
    BY <1>1
  <2>2. QED  BY <1>3, <2>1
<1>5. QED  BY <1>2, <1>4 DEF VisitOK

-----------------------------------------------------------------------------
(***************************************************************************)
(* Sizes of bags.                                                          *)
(***************************************************************************)
\* A sum over a set is one over a part of it and one over the rest.
LEMMA SumSplits ==
  ASSUME NEW S, IsFiniteSet(S), NEW f, \A x \in S : f[x] \in Nat, NEW T \in SUBSET S
  PROVE  /\ SumFunctionOnSet(f, S) = SumFunctionOnSet(f, T) + SumFunctionOnSet(f, S \ T)
         /\ SumFunctionOnSet(f, S) \in Nat /\ SumFunctionOnSet(f, T) \in Nat
         /\ SumFunctionOnSet(f, S \ T) \in Nat
<1> DEFINE sum(U) == SumFunctionOnSet(f, U)
           Bad == {U \in SUBSET S : ~(sum(S) = sum(U) + sum(S \ U))}
<1>1. ASSUME NEW U \in SUBSET S
      PROVE  /\ IsFiniteSet(U) /\ sum(U) \in Nat
             /\ \A x \in U : sum(U \ {x}) \in Nat /\ sum(U) = f[x] + sum(U \ {x})
  <2>1. IsFiniteSet(U) /\ \A x \in U : f[x] \in Nat
    BY FS_Subset
  <2>2. QED  BY <2>1, SumTakes
<1>2. sum({}) = 0
  BY SumOfNothing
<1> HIDE DEF sum
<1>3. Bad = {}
  <2> SUFFICES ASSUME Bad # {} PROVE FALSE
    OBVIOUS
  <2>1. PICK U \in Bad : \A t \in Bad : t \subseteq U => t = U
    <3>1. Bad \in SUBSET SUBSET S
      OBVIOUS
    <3> HIDE DEF Bad
    <3>2. QED  BY <3>1, SmallestSet
  <2>2. U \in SUBSET S /\ ~(sum(S) = sum(U) + sum(S \ U))
    OBVIOUS
  <2>3. U # {}
    <3>1. S \ {} = S /\ S \in SUBSET S
      OBVIOUS
    <3>2. sum(S) = 0 + sum(S)
      BY <1>1, <3>1
    <3>3. QED  BY <1>2, <2>2, <3>1, <3>2
  <2>4. PICK x \in U : TRUE
    BY <2>3
  <2> DEFINE V == U \ {x}
             W == S \ V
  <2>5. V \in SUBSET S /\ V \subseteq U /\ V # U /\ W \in SUBSET S /\ x \in W /\ W \ {x} = S \ U
    BY <2>2, <2>4
  <2>6. sum(S) = sum(V) + sum(W)
    BY <2>1, <2>5
  <2>7. sum(U) = f[x] + sum(V) /\ sum(V) \in Nat
    BY <1>1, <2>2, <2>4
  <2> HIDE DEF V, W
  <2>8. sum(W) = f[x] + sum(S \ U) /\ sum(S \ U) \in Nat
    BY <1>1, <2>5
  <2>9. f[x] \in Nat
    BY <2>2, <2>4
  <2>10. QED  BY <2>2, <2>6, <2>7, <2>8, <2>9
<1>4. S \in SUBSET S /\ S \ T \in SUBSET S /\ T \in SUBSET S
  OBVIOUS
<1>5. sum(S) = sum(T) + sum(S \ T)
  BY <1>3
<1>6. QED  BY <1>1, <1>4, <1>5 DEF sum

\* A set has as many members as its classes have together.
Fiber(S, g, v) == {x \in S : g[x] = v}

Above(S, g, T) == {x \in S : g[x] \in T}

LEMMA SumOfClasses ==
  ASSUME NEW S, IsFiniteSet(S), NEW g, NEW T, IsFiniteSet(T), NEW f,
         \A v \in T : f[v] = Cardinality(Fiber(S, g, v))
  PROVE  SumFunctionOnSet(f, T) = Cardinality(Above(S, g, T))
<1> DEFINE sum(U) == SumFunctionOnSet(f, U)
           Bad == {U \in SUBSET T : ~(sum(U) = Cardinality(Above(S, g, U)))}
<1>1. \A v : IsFiniteSet(Fiber(S, g, v)) /\ Cardinality(Fiber(S, g, v)) \in Nat
  <2> TAKE v
  <2>1. Fiber(S, g, v) \in SUBSET S
    BY DEF Fiber
  <2>2. QED  BY <2>1, FS_Subset, FS_CardinalityType
<1>2. \A U : IsFiniteSet(Above(S, g, U)) /\ Cardinality(Above(S, g, U)) \in Nat
  <2> TAKE U
  <2>1. Above(S, g, U) \in SUBSET S
    BY DEF Above
  <2>2. QED  BY <2>1, FS_Subset, FS_CardinalityType
<1>3. ASSUME NEW U \in SUBSET T
      PROVE  \A v \in U : sum(U) = f[v] + sum(U \ {v})
  <2>1. IsFiniteSet(U) /\ \A v \in U : f[v] \in Nat
    BY <1>1, FS_Subset
  <2>2. QED  BY <2>1, SumTakes
<1>4. sum({}) = 0
  BY SumOfNothing
<1> HIDE DEF sum
<1>5. Bad = {}
  <2> SUFFICES ASSUME Bad # {} PROVE FALSE
    OBVIOUS
  <2>1. PICK U \in Bad : \A t \in Bad : t \subseteq U => t = U
    <3>1. Bad \in SUBSET SUBSET T
      OBVIOUS
    <3> HIDE DEF Bad
    <3>2. QED  BY <3>1, SmallestSet
  <2>2. U \in SUBSET T /\ ~(sum(U) = Cardinality(Above(S, g, U)))
    OBVIOUS
  <2>3. U # {}
    <3>1. Above(S, g, {}) = {}
      BY DEF Above
    <3>2. QED  BY <1>4, <2>2, <3>1, FS_EmptySet
  <2>4. PICK v \in U : TRUE
    BY <2>3
  <2> DEFINE V == U \ {v}
  <2>5. V \in SUBSET T /\ V \subseteq U /\ V # U /\ v \in T
    BY <2>2, <2>4
  <2>6. sum(V) = Cardinality(Above(S, g, V))
    BY <2>1, <2>5
  <2>7. sum(U) = f[v] + sum(V) /\ f[v] = Cardinality(Fiber(S, g, v))
    BY <1>3, <2>2, <2>4, <2>5
  <2>8. /\ Above(S, g, U) = Above(S, g, V) \cup Fiber(S, g, v)
        /\ Above(S, g, V) \cap Fiber(S, g, v) = {}
    BY <2>4 DEF Above, Fiber
  <2> HIDE DEF V
  <2>9. Cardinality(Above(S, g, V) \cup Fiber(S, g, v))
          = Cardinality(Above(S, g, V)) + Cardinality(Fiber(S, g, v))
              - Cardinality(Above(S, g, V) \cap Fiber(S, g, v))
    BY <1>1, <1>2, FS_Union
  <2>10. Cardinality(Above(S, g, U)) = Cardinality(Above(S, g, V)) + Cardinality(Fiber(S, g, v))
    <3>1. Cardinality({}) = 0
      BY FS_EmptySet
    <3> DEFINE x == Cardinality(Above(S, g, V))
               y == Cardinality(Fiber(S, g, v))
    <3>2. x \in Nat /\ y \in Nat /\ Cardinality(Above(S, g, U)) = x + y - 0
      BY <1>1, <1>2, <2>8, <2>9, <3>1
    <3> HIDE DEF x, y
    <3>3. Cardinality(Above(S, g, U)) = x + y
      BY <3>2
    <3>4. QED  BY <3>3 DEF x, y
  <2>11. QED  BY <1>1, <1>2, <2>2, <2>6, <2>7, <2>10
<1>6. QED  BY <1>5 DEF sum

\* A bag of n-grams.
Counts(bag) ==
  /\ DOMAIN bag \in SUBSET Nat /\ IsFiniteSet(DOMAIN bag)
  /\ \A x \in DOMAIN bag : bag[x] \in Nat

LEMMA CountsAre ==
  ASSUME NEW h, NEW a \in Nat, NEW b \in Nat, a <= b + 1, \A k \in a .. b : h[k] \in Nat
  PROVE  /\ Counts(CountsOf(h, a, b))
         /\ Size(CountsOf(h, a, b)) = b - a + 1
<1> DEFINE I == a .. b
           T == Values(h, a, b)
           f == CountsOf(h, a, b)
           g == [k \in I |-> h[k]]
<1>1. IsFiniteSet(I) /\ Cardinality(I) = b - a + 1
  <2>1. a \in Int /\ b \in Int
    OBVIOUS
  <2>2. IsFiniteSet(a .. b) /\ Cardinality(a .. b) = IF a > b THEN 0 ELSE b - a + 1
    BY <2>1, FS_Interval
  <2>3. a > b => b - a + 1 = 0
    OBVIOUS
  <2>4. QED  BY <2>2, <2>3
<1>2. T = {g[k] : k \in I} /\ T \in SUBSET Nat
  BY DEF Values
<1>3. IsFiniteSet(T)
  <2>1. g \in [I -> T] /\ \A v \in T : \E k \in I : g[k] = v
    BY <1>2
  <2> HIDE DEF I, T, g
  <2>2. g \in Surjection(I, T)
    BY <2>1 DEF Surjection
  <2>3. QED  BY <1>1, <2>2, FS_Surjection
<1>4. DOMAIN f = T /\ \A v \in T : f[v] = Number(h, a, b, v) /\ f[v] \in Nat
  BY NumberOfValue DEF CountsOf
<1>5. \A v \in T : f[v] = Cardinality(Fiber(I, g, v))
  <2>1. \A v : Fiber(I, g, v) = At(h, a, b, v)
    BY DEF Fiber, At
  <2>2. QED  BY <1>4, <2>1 DEF Number
<1>6. Above(I, g, T) = I
  BY <1>2 DEF Above
<1> HIDE DEF I, T, f, g
<1>7. SumFunctionOnSet(f, T) = b - a + 1
  BY <1>1, <1>3, <1>5, <1>6, SumOfClasses
<1>8. Size(f) = b - a + 1
  BY <1>4, <1>7 DEF Size, BagToSet
<1>9. Counts(f)
  BY <1>2, <1>3, <1>4 DEF Counts
<1>10. QED  BY <1>8, <1>9 DEF f

-----------------------------------------------------------------------------
(***************************************************************************)
(* Prefixes.  The least n-gram that two windows have in common is in the   *)
(* prefix of each: what they have in common is not before it, and fits     *)
(* behind it only if what is before it is less than a prefix.              *)
(***************************************************************************)
LEMMA LeastNumber ==
  ASSUME NEW T \in SUBSET Nat, T # {}
  PROVE  Min(T) \in T /\ \A x \in T : Min(T) <= x
BY Smallest DEF Min

LEMMA LesserOfTwo ==
  ASSUME NEW a \in Int, NEW b \in Int, a <= b
  PROVE  Min({a, b}) = a
<1>1. \A x \in {a, b} : a <= x
  OBVIOUS
<1>2. \A x \in {a, b} : (\A y \in {a, b} : x <= y) => x = a
  OBVIOUS
<1>3. QED  BY <1>1, <1>2 DEF Min

LEMMA GreaterOfTwo ==
  ASSUME NEW a \in Nat, NEW b \in Nat
  PROVE  Max({a, b}) \in Nat /\ a <= Max({a, b}) /\ b <= Max({a, b})
<1>1. \E x \in {a, b} : \A y \in {a, b} : x >= y
  OBVIOUS
<1>2. Max({a, b}) \in {a, b} /\ \A y \in {a, b} : Max({a, b}) >= y
  BY <1>1 DEF Max
<1> DEFINE x == Max({a, b})
<1> HIDE DEF x
<1>3. x \in {a, b} /\ \A y \in {a, b} : x >= y
  BY <1>2 DEF x
<1>4. x \in Nat /\ a <= x /\ b <= x
  BY <1>3
<1>5. QED  BY <1>4 DEF x

\* A part of n n-grams, rounded up.
LEMMA Percents ==
  ASSUME NEW n \in Nat, n >= 1, Policy.percent # 0
  PROVE  /\ RequiredOverlap(n) \in 1 .. n
         /\ PrefixLength(n) = n - RequiredOverlap(n) + 1
         /\ \A o \in Nat : o >= RequiredOverlap(n) <=> o * 100 >= Policy.percent * n
         /\ \A m \in Nat : m <= n => RequiredOverlap(m) <= RequiredOverlap(n)
<1> DEFINE p == Policy.percent
           x == n * p
           r == RequiredOverlap(n)
<1>1. p \in Nat /\ 1 <= p /\ p <= 100
  BY CopyAssumption
<1>2. r = (x + 99) \div 100
  BY DEF RequiredOverlap
<1> HIDE DEF p, r
<1>3. n <= n * p /\ n * p <= n * 100 /\ n * p \in Nat
  BY <1>1
<1>4. x \in Nat /\ n <= x /\ x <= n * 100
  BY <1>3
<1>5. r \in 1 .. n /\ \A o \in Nat : o >= r <=> o * 100 >= x
  <2> HIDE DEF x
  <2>1. QED  BY <1>2, <1>4
<1>6. \A o \in Nat : o >= r <=> o * 100 >= p * n
  <2>1. x = p * n
    BY <1>1
  <2> HIDE DEF x
  <2>2. QED  BY <1>5, <2>1
<1>7. ASSUME NEW m \in Nat, m <= n PROVE RequiredOverlap(m) <= r
  <2> DEFINE y == m * p
  <2>1. y \in Nat /\ y <= x
    BY <1>1, <1>7
  <2>2. RequiredOverlap(m) = (y + 99) \div 100
    BY DEF RequiredOverlap, p
  <2> HIDE DEF x, y
  <2>3. (y + 99) \div 100 <= (x + 99) \div 100
    BY <1>4, <2>1
  <2>4. QED  BY <1>2, <2>2, <2>3
<1>8. PrefixLength(n) = n - r + 1
  <2>1. n - r + 1 \in Int /\ n - r + 1 <= n
    BY <1>5
  <2>2. PrefixLength(n) = Min({n - r + 1, n})
    BY DEF PrefixLength, r
  <2> DEFINE a == n - r + 1
  <2> HIDE DEF a
  <2>3. a \in Int /\ a <= n /\ PrefixLength(n) = Min({a, n})
    BY <2>1, <2>2 DEF a
  <2>4. PrefixLength(n) = a
    BY <2>3, LesserOfTwo
  <2>5. QED  BY <2>4 DEF a
<1>9. QED  BY <1>5, <1>6, <1>7, <1>8 DEF p, r

LEMMA LeastIsInPrefix ==
  ASSUME NEW a, Counts(a), NEW C \in SUBSET DOMAIN a, NEW f,
         \A x \in C : f[x] \in Nat /\ f[x] <= a[x],
         NEW x \in C, \A y \in C : x <= y,
         NEW p \in Nat, Size(a) < SumFunctionOnSet(f, C) + p
  PROVE  x \in PrefixKeys(a, p)
<1> DEFINE D == DOMAIN a
           low == {y \in D : y < x}
           sum(U) == SumFunctionOnSet(a, U)
<1>1. IsFiniteSet(D) /\ D \in SUBSET Nat /\ \A y \in D : a[y] \in Nat
  BY DEF Counts
<1>2. low \in SUBSET D /\ D \ low \in SUBSET D /\ C \in SUBSET (D \ low)
  BY <1>1
<1>3. PrefixKeys(a, p) = {key \in D : sum({y \in D : y < key}) < p} /\ Size(a) = sum(D)
  BY DEF PrefixKeys, Size, BagToSet
<1> HIDE DEF D
<1>4. IsFiniteSet(C) /\ IsFiniteSet(D \ low)
  BY <1>1, <1>2, FS_Subset
<1>5. \A y \in C : f[y] \in Nat /\ a[y] \in Nat /\ f[y] <= a[y]
  BY <1>1, <1>2
<1>6. sum(D) = sum(low) + sum(D \ low) /\ sum(low) \in Nat /\ sum(D \ low) \in Nat
  <2> HIDE DEF low
  <2>1. QED  BY <1>1, <1>2, SumSplits
<1>7. SumFunctionOnSet(f, C) <= sum(C)
  BY <1>4, <1>5, SumGrows
<1>8. sum(C) <= sum(D \ low)
  <2>1. \A y \in D \ low : a[y] \in Nat
    BY <1>1
  <2> HIDE DEF low
  <2>2. QED  BY <1>2, <1>4, <2>1, SumOfPart
<1>9. sum(C) \in Nat /\ SumFunctionOnSet(f, C) \in Nat
  BY <1>4, <1>5, SumTakes
<1>10. sum(low) < p
  <2> DEFINE u == sum(low)
             v == sum(D \ low)
             w == sum(C)
             z == SumFunctionOnSet(f, C)
  <2>1. /\ u \in Nat /\ v \in Nat /\ w \in Nat /\ z \in Nat
        /\ u + v < z + p /\ z <= w /\ w <= v
    BY <1>3, <1>6, <1>7, <1>8, <1>9
  <2> HIDE DEF u, v, w, z
  <2>2. u < p
    BY <2>1
  <2>3. QED  BY <2>2 DEF u
<1>11. x \in D
  BY <1>2
<1>12. QED  BY <1>3, <1>10, <1>11

LEMMA OverlapIs ==
  ASSUME NEW a, Counts(a), NEW b, Counts(b)
  PROVE  /\ MultisetOverlap(a, b) \in Nat
         /\ MultisetOverlap(a, b) = MultisetOverlap(b, a)
         /\ MultisetOverlap(a, b) > 0 =>
              \E x \in DOMAIN a \cap DOMAIN b :
                \A p, q \in Nat :
                  /\ Size(a) < MultisetOverlap(a, b) + p => x \in PrefixKeys(a, p)
                  /\ Size(b) < MultisetOverlap(a, b) + q => x \in PrefixKeys(b, q)
<1> DEFINE C == DOMAIN a \cap DOMAIN b
           f == [x \in C |-> Min({a[x], b[x]})]
           o == MultisetOverlap(a, b)
<1>1. /\ DOMAIN a \in SUBSET Nat /\ IsFiniteSet(DOMAIN a) /\ \A x \in DOMAIN a : a[x] \in Nat
      /\ DOMAIN b \in SUBSET Nat /\ \A x \in DOMAIN b : b[x] \in Nat
  BY DEF Counts
<1>2. o = SumFunctionOnSet(f, C)
  BY DEF MultisetOverlap, BagToSet
<1>3. MultisetOverlap(b, a) = o
  <2>1. DOMAIN b \cap DOMAIN a = C /\ \A x : {b[x], a[x]} = {a[x], b[x]}
    OBVIOUS
  <2>2. MultisetOverlap(b, a) = SumFunctionOnSet([x \in C |-> Min({b[x], a[x]})], C)
    BY <2>1 DEF MultisetOverlap, BagToSet
  <2>3. [x \in C |-> Min({b[x], a[x]})] = f
    BY <2>1
  <2>4. QED  BY <1>2, <2>2, <2>3
<1>4. C \in SUBSET DOMAIN a /\ C \in SUBSET DOMAIN b /\ C \in SUBSET Nat
  BY <1>1
<1>5. ASSUME NEW x \in C PROVE f[x] \in Nat /\ f[x] <= a[x] /\ f[x] <= b[x]
  <2>1. f[x] = Min({a[x], b[x]}) /\ a[x] \in Nat /\ b[x] \in Nat
    BY <1>1
  <2>2. {a[x], b[x]} \in SUBSET Nat /\ {a[x], b[x]} # {}
    BY <2>1
  <2>3. Min({a[x], b[x]}) \in {a[x], b[x]} /\ \A y \in {a[x], b[x]} : Min({a[x], b[x]}) <= y
    BY <2>2, LeastNumber
  <2>4. QED  BY <2>1, <2>3
<1> HIDE DEF f, C, o
<1>6. IsFiniteSet(C)
  BY <1>1, <1>4, FS_Subset
<1>7. o \in Nat
  BY <1>2, <1>5, <1>6, SumTakes
<1>8. ASSUME o > 0
      PROVE  \E x \in C : \A p, q \in Nat :
               (Size(a) < o + p => x \in PrefixKeys(a, p)) /\ (Size(b) < o + q => x \in PrefixKeys(b, q))
  <2>1. C # {}
    BY <1>2, <1>8, SumOfNothing
  <2>2. PICK x \in C : \A y \in C : x <= y
    BY <1>4, <2>1, Smallest
  <2>3. ASSUME NEW p \in Nat, Size(a) < o + p PROVE x \in PrefixKeys(a, p)
    BY <1>2, <1>4, <1>5, <2>2, <2>3, LeastIsInPrefix
  <2>4. ASSUME NEW q \in Nat, Size(b) < o + q PROVE x \in PrefixKeys(b, q)
    BY <1>2, <1>4, <1>5, <2>2, <2>4, LeastIsInPrefix
  <2>5. QED  BY <2>3, <2>4
<1>9. QED  BY <1>3, <1>7, <1>8 DEF C, o

ClassOK(class) ==
  /\ Counts(class.signature) /\ Size(class.signature) \in Nat /\ Size(class.signature) >= 1
  /\ class.prefix = Prefix(class.signature)

\* Windows with enough n-grams in common have one in both prefixes, and a score.
LEMMA CloseClass ==
  ASSUME NEW class, ClassOK(class), NEW counts, Counts(counts), Size(counts) \in Nat,
         Size(counts) >= 1, Policy.percent # 0
  PROVE  /\ Close(class, counts) <=>
              MultisetOverlap(class.signature, counts) * 100
                >= Policy.percent * Max({Size(class.signature), Size(counts)})
         /\ Close(class, counts) =>
              /\ class.prefix \cap Prefix(counts) # {}
              /\ Score(class, counts) >= Policy.percent
<1> DEFINE s == class.signature
           m == Size(s)
           n == Size(counts)
           l == Larger(class, counts)
           o == MultisetOverlap(counts, s)
           R(x) == RequiredOverlap(x)
<1>1. Counts(s) /\ m \in Nat /\ m >= 1 /\ n \in Nat /\ n >= 1 /\ class.prefix = Prefix(s)
  BY DEF ClassOK
<1>2. l = Max({n, m}) /\ {n, m} = {m, n}
  BY DEF Larger
<1> HIDE DEF s, m, n
<1>3. l \in Nat /\ n <= l /\ m <= l
  BY <1>1, <1>2, GreaterOfTwo
<1>4. o \in Nat /\ o = MultisetOverlap(s, counts)
  BY <1>1, OverlapIs
<1>5. Close(class, counts) <=> o >= R(l)
  BY DEF Close, s
<1> HIDE DEF l, o
<1>6. l >= 1
  BY <1>1, <1>3
<1>7. /\ R(l) \in 1 .. l /\ R(n) \in 1 .. n /\ R(m) \in 1 .. m
      /\ o >= R(l) <=> o * 100 >= Policy.percent * l
      /\ R(n) <= R(l) /\ R(m) <= R(l)
      /\ PrefixLength(n) = n - R(n) + 1 /\ PrefixLength(m) = m - R(m) + 1
  BY <1>1, <1>3, <1>4, <1>6, Percents
<1> HIDE DEF R
<1>8. Close(class, counts) <=> MultisetOverlap(s, counts) * 100 >= Policy.percent * Max({m, n})
  BY <1>2, <1>4, <1>5, <1>7
<1>9. ASSUME o >= R(l)
      PROVE  class.prefix \cap Prefix(counts) # {} /\ Score(class, counts) >= Policy.percent
  <2> DEFINE p == PrefixLength(n)
             q == PrefixLength(m)
  <2>1. o > 0 /\ p \in Nat /\ q \in Nat /\ n < o + p /\ m < o + q
    BY <1>1, <1>3, <1>4, <1>7, <1>9
  <2> HIDE DEF p, q
  <2>2. PICK x : x \in PrefixKeys(counts, p) /\ x \in PrefixKeys(s, q)
    BY <1>1, <2>1, OverlapIs DEF n, m, o
  <2>3. Prefix(counts) = PrefixKeys(counts, p) /\ Prefix(s) = PrefixKeys(s, q)
    BY DEF Prefix, p, q, n, m
  <2>4. Score(class, counts) = (o * 100) \div l
    BY DEF Score, o, l, s
  <2>5. (o * 100) \div l >= Policy.percent
    <3> DEFINE x100 == o * 100
               percent == Policy.percent
    <3>1. x100 \in Nat /\ percent \in Nat /\ x100 >= percent * l
      BY <1>4, <1>7, <1>9, CopyAssumption
    <3> HIDE DEF x100, percent
    <3>2. x100 \div l >= percent
      BY <1>3, <1>6, <3>1
    <3>3. QED  BY <3>2 DEF x100, percent
  <2>6. QED  BY <1>1, <2>2, <2>3, <2>4, <2>5
<1>10. QED  BY <1>5, <1>8, <1>9 DEF s, m, n

-----------------------------------------------------------------------------
(***************************************************************************)
(* Searching the classes for each window of the source.                    *)
(***************************************************************************)
\* The first class that is close, in the order of keys and classes, is there if any is.
LEMMA FirstHit ==
  ASSUME NEW classes, NEW prefix, NEW hits \in SUBSET Nat, hits # {},
         \A c \in hits : FirstKey(classes[c], prefix) \in Nat
  PROVE  \E c \in hits : \A d \in hits : NotAfter(classes, prefix, c, d)
<1> DEFINE key(c) == FirstKey(classes[c], prefix)
           Keys == {key(c) : c \in hits}
<1>1. PICK k \in Keys : \A x \in Keys : k <= x
  <2>1. Keys \in SUBSET Nat /\ Keys # {}
    OBVIOUS
  <2> HIDE DEF Keys
  <2>2. QED  BY <2>1, Smallest
<1> DEFINE First == {c \in hits : key(c) = k}
<1>2. PICK c \in First : \A d \in First : c <= d
  <2>1. First \in SUBSET Nat /\ First # {}
    BY <1>1
  <2> HIDE DEF First
  <2>2. QED  BY <2>1, Smallest
<1>3. \A d \in hits : key(c) <= key(d) /\ (key(c) = key(d) => c <= d)
  BY <1>1, <1>2
<1>4. c \in hits /\ key(c) \in Nat /\ \A d \in hits : key(d) \in Nat
  BY <1>2
<1> HIDE DEF key, First
<1>5. \A d \in hits : key(c) < key(d) \/ (key(c) = key(d) /\ c <= d)
  BY <1>3, <1>4
<1>6. \A d \in hits : NotAfter(classes, prefix, c, d)
  BY <1>5 DEF NotAfter, key
<1>7. QED  BY <1>4, <1>6

ClassesOK(classes) ==
  DOMAIN classes \in SUBSET Nat /\ \A c \in DOMAIN classes : ClassOK(classes[c])

\* What a search among the classes came to.
Verdict(state, classes, counts) ==
  /\ state.outcome \in {"none", "exceeded", "found"}
  /\ state.outcome = "none" => \A c \in DOMAIN classes : ~Close(classes[c], counts)
  /\ state.outcome = "found" =>
       /\ state.hit[1] \in DOMAIN classes /\ Close(classes[state.hit[1]], counts)
       /\ state.hit[2] = Score(classes[state.hit[1]], counts)

LEMMA VerifiedIs ==
  ASSUME NEW classes, ClassesOK(classes), NEW counts, Counts(counts), Size(counts) \in Nat,
         Size(counts) >= 1, Policy.percent # 0,
         NEW state, DOMAIN state = StateFields, state.outcome = "none"
  PROVE  Verdict(Verified(state, classes, counts, Prefix(counts)), classes, counts)
<1> DEFINE prefix == Prefix(counts)
           candidates == Candidates(classes, prefix)
           hits == {c \in candidates : Close(classes[c], counts)}
           tried == Tried(classes, prefix, candidates, hits)
           after == Counted(state, classes, counts, tried, hits)
           hit == CHOOSE c \in hits : c \in tried
<1>1. after = Verified(state, classes, counts, prefix)
  BY DEF Verified
<1>2. \A c \in DOMAIN classes : Close(classes[c], counts) <=> c \in hits
  <2>1. ASSUME NEW c \in DOMAIN classes, Close(classes[c], counts)
        PROVE  c \in candidates
    <3>1. ClassOK(classes[c])
      BY DEF ClassesOK
    <3>2. classes[c].prefix \cap Prefix(counts) # {}
      BY <2>1, <3>1, CloseClass
    <3>3. QED  BY <3>2 DEF Candidates
  <2>2. QED  BY <2>1
<1>3. hits \in SUBSET candidates /\ candidates \in SUBSET DOMAIN classes /\ DOMAIN classes \in SUBSET Nat
  BY DEF Candidates, ClassesOK
<1>4. \A c \in hits : FirstKey(classes[c], prefix) \in Nat
  <2> TAKE c \in hits
  <2>1. classes[c].prefix \cap prefix # {}
    BY DEF Candidates
  <2>2. prefix \in SUBSET Nat
    BY DEF Prefix, PrefixKeys, BagToSet, Counts
  <2> HIDE DEF prefix
  <2>3. classes[c].prefix \cap prefix \in SUBSET Nat
    BY <2>2
  <2>4. QED  BY <2>1, <2>3, LeastNumber DEF FirstKey
<1>5. hits # {} => hit \in hits
  <2>1. ASSUME hits # {} PROVE \E c \in hits : c \in tried
    <3>1. hits \in SUBSET Nat
      BY <1>3
    <3>2. \E c \in hits : \A d \in hits : NotAfter(classes, prefix, c, d)
      <4> HIDE DEF hits, prefix
      <4>1. QED  BY <1>4, <2>1, <3>1, FirstHit
    <3>3. QED  BY <1>3, <3>2 DEF Tried
  <2> HIDE DEF hits, tried
  <2>2. QED  BY <2>1
<1> HIDE DEF after, hits, tried, candidates
<1>6. CASE Cardinality(tried) > Left(state)
  <2>1. after = [state EXCEPT !.used = case.limits.verifications, !.outcome = "exceeded"]
    BY <1>6 DEF Counted, after
  <2>2. after.outcome = "exceeded"
    BY <2>1 DEF StateFields
  <2>3. QED  BY <1>1, <2>2 DEF Verdict
<1>7. CASE ~(Cardinality(tried) > Left(state)) /\ hits = {}
  <2>1. after = [state EXCEPT !.used = @ + Cardinality(tried)]
    BY <1>7 DEF Counted, after
  <2>2. after.outcome = "none"
    BY <2>1 DEF StateFields
  <2>3. \A c \in DOMAIN classes : ~Close(classes[c], counts)
    BY <1>2, <1>7
  <2>4. QED  BY <1>1, <2>2, <2>3 DEF Verdict
<1>8. CASE ~(Cardinality(tried) > Left(state)) /\ hits # {}
  <2>1. after = [state EXCEPT !.used = @ + Cardinality(tried), !.outcome = "found",
                              !.hit = <<hit, Score(classes[hit], counts)>>]
    BY <1>8 DEF Counted, after
  <2>2. after.outcome = "found" /\ after.hit = <<hit, Score(classes[hit], counts)>>
    <3> HIDE DEF hit
    <3>1. QED  BY <2>1 DEF StateFields
  <2>3. hit \in hits /\ hit \in DOMAIN classes
    BY <1>3, <1>5, <1>8
  <2>4. Close(classes[hit], counts)
    <3> HIDE DEF hit
    <3>1. QED  BY <1>2, <2>3
  <2> HIDE DEF hit
  <2>5. after.hit[1] = hit /\ after.hit[2] = Score(classes[hit], counts)
    BY <2>2
  <2>6. Verdict(after, classes, counts)
    BY <2>2, <2>3, <2>4, <2>5 DEF Verdict
  <2>7. QED  BY <1>1, <2>6
<1>9. QED  BY <1>6, <1>7, <1>8

\* The n-grams of a window.
CountsAt(runs, w) == WindowCounts(Fingerprints(runs[w.run]), w)

LEMMA WindowBag ==
  ASSUME NEW run \in Seq(TokenOf), NEW w \in Window, Fits(run, w)
  PROVE  LET bag == WindowCounts(Fingerprints(run), w)
         IN  /\ Counts(bag) /\ Size(bag) = GramCount(w)
             /\ GramCount(w) \in Nat /\ GramCount(w) >= 1
<1> DEFINE h == Fingerprints(run)
           a == w.start
           e == w.end + 1 - Policy.ngram
           g == GramCount(w)
           n == Policy.ngram
           m == Len(run) - n + 1
           gram(k) == [i \in 1 .. n |-> run[k + i - 1].t]
<1>1. h \in Seq({h[k] : k \in DOMAIN h}) /\ e \in Nat /\ e <= Len(h)
  BY GramsCounted
<1>2. g \in Nat /\ g > 0 /\ a + g - 1 = e
  BY GramsCounted
<1>3. a \in Nat /\ 1 <= a /\ n \in Nat /\ n >= 1 /\ Len(run) \in Nat
  BY CopyAssumption DEF Window, Fits
<1>4. \A c \in Cjk \cup Letter \cup Symbol \cup {Blank} : c \in Nat
  <2>1. Blank = 0 /\ Cjk \cup Letter \cup Symbol \subseteq 1 .. Base - 1
    BY CopyAssumption
  <2>2. QED  BY <2>1
<1>5. \A k \in 1 .. m : h[k] = Key(gram(k))
  BY DEF Fingerprints
<1>6. DOMAIN h = 1 .. m
  BY DEF Fingerprints
<1> HIDE DEF m
<1>7. ASSUME NEW k \in 1 .. m PROVE h[k] \in Nat
  <2>1. ASSUME NEW i \in 1 .. n PROVE gram(k)[i] \in Nat
    <3>1. k + i - 1 \in 1 .. Len(run)
      BY <1>3 DEF m
    <3>2. run[k + i - 1] \in TokenOf
      BY <3>1
    <3>3. run[k + i - 1].t \in Nat
      BY <1>4, <3>2 DEF TokenOf
    <3> HIDE DEF n
    <3>4. QED  BY <3>3
  <2>2. Len(gram(k)) = n
    <3> HIDE DEF n
    <3>1. QED  BY <1>3
  <2> HIDE DEF gram, n
  <2>3. Key(gram(k)) \in Nat
    BY <1>3, <2>1, <2>2, KeyIsNumber
  <2>4. QED  BY <1>5, <2>3
<1> HIDE DEF h, a, e, g, n
<1>8. a <= e + 1 /\ a <= e /\ e - a + 1 = g /\ g >= 1
  BY <1>1, <1>2, <1>3
<1>9. \A k \in a .. e : h[k] \in Nat
  <2>1. Len(h) \in Nat /\ DOMAIN h = 1 .. Len(h)
    BY <1>1
  <2>2. \A k \in a .. e : k \in DOMAIN h
    BY <1>1, <1>3, <2>1
  <2>3. QED  BY <1>6, <1>7, <2>2
<1>10. WindowCounts(h, w) = CountsOf(h, a, e)
  <2>1. WindowCounts(h, w) = ToBag(SubSeq(h, a, e))
    BY <1>2 DEF WindowCounts, a, g
  <2>2. ToBag(SubSeq(h, a, e)) = CountsOf(h, a, e)
    BY <1>1, <1>3, <1>8, BagOfPart
  <2>3. QED  BY <2>1, <2>2
<1>11. Counts(CountsOf(h, a, e)) /\ Size(CountsOf(h, a, e)) = e - a + 1
  BY <1>1, <1>3, <1>8, <1>9, CountsAre
<1>12. QED  BY <1>2, <1>8, <1>10, <1>11 DEF h, g

LEMMA WindowsOfRow ==
  ASSUME NEW runs \in Seq(Seq(TokenOf)), NEW windows, Row(runs, Len(runs), windows)
  PROVE  /\ Len(windows) \in Nat /\ DOMAIN windows = 1 .. Len(windows)
         /\ windows = <<>> <=> Len(windows) = 0
         /\ \A j \in DOMAIN windows :
              /\ Counts(CountsAt(runs, windows[j]))
              /\ Size(CountsAt(runs, windows[j])) = GramCount(windows[j])
              /\ GramCount(windows[j]) \in Nat /\ GramCount(windows[j]) >= 1
<1>1. /\ windows \in Seq(Window)
      /\ \A j \in 1 .. Len(windows) :
           windows[j].run \in 1 .. Len(runs) /\ Fits(runs[windows[j].run], windows[j])
  BY DEF Row
<1>2. Len(windows) \in Nat /\ DOMAIN windows = 1 .. Len(windows) /\ (windows = <<>> <=> Len(windows) = 0)
  BY <1>1
<1>3. ASSUME NEW j \in DOMAIN windows
      PROVE  /\ Counts(CountsAt(runs, windows[j]))
             /\ Size(CountsAt(runs, windows[j])) = GramCount(windows[j])
             /\ GramCount(windows[j]) \in Nat /\ GramCount(windows[j]) >= 1
  <2> DEFINE w == windows[j]
             run == runs[w.run]
  <2>1. w \in Window /\ run \in Seq(TokenOf) /\ Fits(run, w)
    BY <1>1, <1>2
  <2> HIDE DEF w, run
  <2>2. LET bag == WindowCounts(Fingerprints(run), w)
        IN  /\ Counts(bag) /\ Size(bag) = GramCount(w)
            /\ GramCount(w) \in Nat /\ GramCount(w) >= 1
    BY <2>1, WindowBag
  <2>3. QED  BY <2>2 DEF CountsAt, w, run
<1>4. QED  BY <1>2, <1>3

LEMMA ClassesAre ==
  ASSUME NEW runs \in Seq(Seq(TokenOf)), NEW windows, Row(runs, Len(runs), windows)
  PROVE  LET classes == Classes(runs, windows)
         IN  /\ ClassesOK(classes) /\ DOMAIN classes = DOMAIN windows
             /\ \A i \in DOMAIN windows :
                  classes[i].window = windows[i] /\ classes[i].signature = CountsAt(runs, windows[i])
<1> DEFINE classes == Classes(runs, windows)
<1>1. /\ Len(windows) \in Nat /\ DOMAIN windows = 1 .. Len(windows)
      /\ \A j \in DOMAIN windows :
           /\ Counts(CountsAt(runs, windows[j]))
           /\ Size(CountsAt(runs, windows[j])) = GramCount(windows[j])
           /\ GramCount(windows[j]) \in Nat /\ GramCount(windows[j]) >= 1
  BY WindowsOfRow
<1>2. {j \in DOMAIN windows : GramCount(windows[j]) > 0} = DOMAIN windows
  BY <1>1
<1>3. classes = [i \in DOMAIN windows |->
                   [window |-> windows[i], signature |-> CountsAt(runs, windows[i]),
                    prefix |-> Prefix(CountsAt(runs, windows[i]))]]
  BY <1>2 DEF Classes, CountsAt
<1> HIDE DEF classes
<1>4. /\ DOMAIN classes = DOMAIN windows
      /\ \A i \in DOMAIN windows :
           /\ classes[i].window = windows[i] /\ classes[i].signature = CountsAt(runs, windows[i])
           /\ classes[i].prefix = Prefix(CountsAt(runs, windows[i]))
  BY <1>3
<1>5. ClassesOK(classes)
  <2>1. DOMAIN classes \in SUBSET Nat
    BY <1>1, <1>4
  <2>2. ASSUME NEW i \in DOMAIN classes PROVE ClassOK(classes[i])
    BY <1>1, <1>4 DEF ClassOK
  <2>3. QED  BY <2>1, <2>2 DEF ClassesOK
<1>6. QED  BY <1>4, <1>5 DEF classes

\* After the first n windows: none of them is close to a class, or one is.
IsHit(state, w, sruns, source, classes) ==
  /\ state.window = w /\ ~Exempt(source, RangeOf(sruns, w))
  /\ state.hit[1] \in DOMAIN classes
  /\ IF Policy.percent = 0 THEN state.hit[2] = 0
     ELSE /\ Close(classes[state.hit[1]], CountsAt(sruns, w))
          /\ state.hit[2] = Score(classes[state.hit[1]], CountsAt(sruns, w))

IsQuiet(w, sruns, source, classes) ==
  \/ Exempt(source, RangeOf(sruns, w))
  \/ Policy.percent # 0 /\ \A c \in DOMAIN classes : ~Close(classes[c], CountsAt(sruns, w))

Searched(state, n, theirs, sruns, source, classes) ==
  /\ state.outcome \in {"none", "exceeded", "found"}
  /\ state.outcome = "none" => \A j \in 1 .. n : IsQuiet(theirs[j], sruns, source, classes)
  /\ state.outcome = "found" => \E j \in 1 .. n : IsHit(state, theirs[j], sruns, source, classes)

LEMMA SearchGoesOn ==
  ASSUME NEW sruns \in Seq(Seq(TokenOf)), NEW theirs, Row(sruns, Len(sruns), theirs),
         NEW source, NEW classes, ClassesOK(classes), DOMAIN classes # {},
         NEW state, NEW n \in 1 .. Len(theirs),
         VisitOK(state, n - 1, theirs, sruns),
         Searched(state, n - 1, theirs, sruns, source, classes)
  PROVE  Searched(Visit(state, theirs[n], sruns, source, classes), n, theirs, sruns, source, classes)
<1> DEFINE w == theirs[n]
           counts == CountsAt(sruns, w)
           exempt == Exempt(source, RangeOf(sruns, w))
           after == Visit(state, w, sruns, source, classes)
           k == n - 1
<1>1. after = IF state.outcome # "none" THEN state
              ELSE IF Policy.percent # 0 THEN Compare(state, w, counts, classes, exempt)
              ELSE IF exempt THEN state
              ELSE [state EXCEPT !.window = w, !.outcome = "found", !.hit = <<Min(DOMAIN classes), 0>>]
  <2>1. Visit(state, theirs[n], sruns, source, classes) = Afresh(state, theirs[n], sruns, source, classes)
    BY VisitIs
  <2>2. QED  BY <2>1 DEF Afresh, CountsAt
<1>2. DOMAIN state = StateFields
  BY DEF VisitOK
<1>3. n \in Nat /\ n \in 1 .. n /\ \A j \in 1 .. n : j = n \/ j \in 1 .. k
  OBVIOUS
<1>4. \A j \in 1 .. k : j \in 1 .. n
  OBVIOUS
<1>5. Counts(counts) /\ Size(counts) \in Nat /\ Size(counts) >= 1
  <2>1. Len(theirs) \in Nat /\ DOMAIN theirs = 1 .. Len(theirs)
    BY WindowsOfRow
  <2>2. QED  BY <2>1, WindowsOfRow
<1>6. /\ state.outcome \in {"none", "exceeded", "found"}
      /\ state.outcome = "none" => \A j \in 1 .. k : IsQuiet(theirs[j], sruns, source, classes)
      /\ state.outcome = "found" => \E j \in 1 .. k : IsHit(state, theirs[j], sruns, source, classes)
  BY DEF Searched
<1>7. IsQuiet(w, sruns, source, classes)
        <=> exempt \/ (Policy.percent # 0 /\ \A c \in DOMAIN classes : ~Close(classes[c], counts))
  BY DEF IsQuiet
<1>8. \A x : IsHit(x, w, sruns, source, classes)
        <=> /\ x.window = w /\ ~exempt /\ x.hit[1] \in DOMAIN classes
            /\ IF Policy.percent = 0 THEN x.hit[2] = 0
               ELSE /\ Close(classes[x.hit[1]], counts)
                    /\ x.hit[2] = Score(classes[x.hit[1]], counts)
  BY DEF IsHit
<1>9. w = theirs[n]
  OBVIOUS
<1> HIDE DEF w, counts, exempt, after, k
<1>10. ASSUME after.outcome = "none" => state.outcome = "none" /\ IsQuiet(w, sruns, source, classes),
              after.outcome = "found" => IsHit(after, w, sruns, source, classes),
              after.outcome \in {"none", "exceeded", "found"}
       PROVE  Searched(after, n, theirs, sruns, source, classes)
  <2>1. after.outcome = "none" => \A j \in 1 .. n : IsQuiet(theirs[j], sruns, source, classes)
    BY <1>3, <1>6, <1>9, <1>10
  <2>2. after.outcome = "found" => \E j \in 1 .. n : IsHit(after, theirs[j], sruns, source, classes)
    BY <1>3, <1>9, <1>10
  <2>3. QED  BY <1>10, <2>1, <2>2 DEF Searched
<1>11. CASE state.outcome # "none"
  <2>1. after = state
    BY <1>1, <1>11
  <2>2. state.outcome = "found" => \E j \in 1 .. n : IsHit(state, theirs[j], sruns, source, classes)
    BY <1>4, <1>6
  <2>3. Searched(after, n, theirs, sruns, source, classes)
    BY <1>6, <1>11, <2>1, <2>2 DEF Searched
  <2>4. QED  BY <2>3 DEF after, w
<1>12. CASE state.outcome = "none" /\ Policy.percent = 0
  <2>1. Min(DOMAIN classes) \in DOMAIN classes
    BY LeastNumber DEF ClassesOK
  <2>2. CASE exempt
    <3>1. after = state
      BY <1>1, <1>12, <2>2
    <3>2. Searched(after, n, theirs, sruns, source, classes)
      BY <1>7, <1>10, <1>12, <2>2, <3>1
    <3>3. QED  BY <3>2 DEF after, w
  <2>3. CASE ~exempt
    <3>1. after = [state EXCEPT !.window = w, !.outcome = "found", !.hit = <<Min(DOMAIN classes), 0>>]
      BY <1>1, <1>12, <2>3
    <3>2. after.outcome = "found" /\ after.window = w /\ after.hit = <<Min(DOMAIN classes), 0>>
      BY <1>2, <3>1 DEF StateFields
    <3>3. after.hit[1] = Min(DOMAIN classes) /\ after.hit[2] = 0
      BY <3>2
    <3>4. IsHit(after, w, sruns, source, classes)
      BY <1>8, <1>12, <2>1, <2>3, <3>2, <3>3
    <3>5. Searched(after, n, theirs, sruns, source, classes)
      BY <1>10, <3>2, <3>4
    <3>6. QED  BY <3>5 DEF after, w
  <2>4. QED  BY <2>2, <2>3
<1>13. CASE state.outcome = "none" /\ Policy.percent # 0
  <2> DEFINE next == [state EXCEPT !.window = w, !.counts = counts]
  <2>1. after = IF exempt THEN next ELSE Verified(next, classes, counts, Prefix(counts))
    BY <1>1, <1>13 DEF Compare
  <2>2. DOMAIN next = StateFields /\ next.outcome = "none"
    BY <1>2, <1>13 DEF StateFields
  <2>3. after.window = w
    <3>1. Compare(state, w, counts, classes, exempt).window = w
      BY <1>2, <1>13, Compares
    <3>2. QED  BY <1>1, <1>13, <3>1
  <2> HIDE DEF next
  <2>4. CASE exempt
    <3>1. after.outcome = "none"
      BY <2>1, <2>2, <2>4
    <3>2. Searched(after, n, theirs, sruns, source, classes)
      BY <1>7, <1>10, <1>13, <2>4, <3>1
    <3>3. QED  BY <3>2 DEF after, w
  <2>5. CASE ~exempt
    <3>1. Verdict(after, classes, counts)
      BY <1>5, <1>13, <2>1, <2>2, <2>5, VerifiedIs
    <3>2. after.outcome \in {"none", "exceeded", "found"}
      BY <3>1 DEF Verdict
    <3>3. after.outcome = "none" => IsQuiet(w, sruns, source, classes)
      BY <1>7, <1>13, <3>1 DEF Verdict
    <3>4. after.outcome = "found" => IsHit(after, w, sruns, source, classes)
      BY <1>8, <1>13, <2>3, <2>5, <3>1 DEF Verdict
    <3>5. Searched(after, n, theirs, sruns, source, classes)
      BY <1>10, <1>13, <3>2, <3>3, <3>4
    <3>6. QED  BY <3>5 DEF after, w
  <2>6. QED  BY <2>4, <2>5
<1>14. QED  BY <1>11, <1>12, <1>13

LEMMA SearchesAll ==
  ASSUME NEW sruns \in Seq(Seq(TokenOf)), NEW theirs, Row(sruns, Len(sruns), theirs),
         NEW source, NEW classes, ClassesOK(classes), DOMAIN classes # {}
  PROVE  Searched(VisitAll(theirs, sruns, source, classes), Len(theirs), theirs, sruns, source, classes)
<1> DEFINE after == Visiting(theirs, sruns, source, classes)
           OK(n) == /\ VisitOK(after[n], n, theirs, sruns)
                    /\ Searched(after[n], n, theirs, sruns, source, classes)
           Bad == {n \in 0 .. Len(theirs) : ~OK(n)}
<1>1. Len(theirs) \in Nat
  BY DEF Row
<1>2. /\ VisitAll(theirs, sruns, source, classes) = after[Len(theirs)] /\ after[0] = Start
      /\ \A n \in 1 .. Len(theirs) :
           after[n] = Visit(after[n - 1], theirs[n], sruns, source, classes)
  BY <1>1, VisitsEach
<1> HIDE DEF after
<1>3. Bad = {}
  <2> SUFFICES ASSUME Bad # {} PROVE FALSE
    OBVIOUS
  <2>1. PICK n \in Bad : \A m \in Bad : n <= m
    <3> HIDE DEF Bad
    <3>1. Bad \in SUBSET Nat
      BY <1>1 DEF Bad
    <3>2. QED  BY <3>1, Smallest
  <2>2. n # 0
    <3>1. VisitOK(Start, 0, theirs, sruns)
      BY DEF VisitOK, Start, StateFields
    <3>2. Start.outcome = "none" /\ 1 .. 0 = {}
      BY DEF Start
    <3>3. Searched(Start, 0, theirs, sruns, source, classes)
      BY <3>2 DEF Searched
    <3>4. QED  BY <1>2, <3>1, <3>3
  <2>3. n \in 1 .. Len(theirs) /\ n - 1 \in 0 .. Len(theirs) /\ ~(n <= n - 1)
    BY <1>1, <2>2
  <2>4. OK(n - 1)
    BY <2>1, <2>3
  <2>5. VisitOK(after[n], n, theirs, sruns)
    BY <1>2, <2>3, <2>4, VisitsOn
  <2>6. Searched(after[n], n, theirs, sruns, source, classes)
    BY <1>2, <2>3, <2>4, SearchGoesOn
  <2>7. QED  BY <2>5, <2>6
<1>4. OK(Len(theirs))
  <2>1. Len(theirs) \in 0 .. Len(theirs)
    BY <1>1
  <2>2. QED  BY <1>3, <2>1
<1>5. QED  BY <1>2, <1>4

-----------------------------------------------------------------------------
(***************************************************************************)
(* The scan.                                                               *)
(***************************************************************************)
LEMMA WitnessOK ==
  ASSUME NEW S, NEW sruns \in Seq(Seq(S)), NEW theirs, Row(sruns, Len(sruns), theirs),
         NEW mruns, NEW mine, NEW k
  PROVE  NgramWitness(mruns, mine, sruns, theirs, k).outcome # "panicked"
<1>1. \A x \in {"none", "exceeded"} : NoWitness(x).outcome # "panicked"
  BY DEF NoWitness
<1>2. ASSUME NEW classes PROVE SearchClasses(mruns, classes, sruns, theirs, k).outcome # "panicked"
  <2> DEFINE end == VisitAll(theirs, sruns, case.canon[k], classes)
  <2>1. end.outcome # "panicked"
    BY VisitsAll
  <2> HIDE DEF end
  <2>2. Witness(end, mruns, classes, sruns, k).outcome = end.outcome
    BY DEF Witness
  <2>3. QED  BY <1>1, <2>1, <2>2 DEF SearchClasses, end
<1>3. QED
  <2> DEFINE classes == Classes(mruns, mine)
  <2>1. SearchClasses(mruns, classes, sruns, theirs, k).outcome # "panicked"
    BY <1>2
  <2> HIDE DEF classes
  <2>2. QED  BY <1>1, <2>1 DEF NgramWitness, classes

\* What happens behind a comparison that did not panic.
LEMMA GoesOn ==
  ASSUME NEW result, NEW last, result.outcome # "panicked", Compared(result, last)
  PROVE  /\ pc' # "panicked"
         /\ (pc' = "words" /\ nth' = nth) \/ pc' \in {"exact", "exceeded"}
         /\ nth' \in {nth, nth + 1}
<1>1. CASE result.outcome \in {"exceeded", "panicked"}
  BY <1>1 DEF Compared, Go
<1>2. CASE result.outcome = "none" /\ ~last
  BY <1>2 DEF Compared, Go
<1>3. CASE /\ result.outcome \notin {"exceeded", "panicked"}
           /\ ~(result.outcome = "none" /\ ~last)
  <2>1. NextSource
    BY <1>3 DEF Compared
  <2>2. QED  BY <2>1 DEF NextSource
<1>4. QED  BY <1>1, <1>2, <1>3

ScanInv ==
  /\ \E cases \in Cases : case \in cases
  /\ nth \in Nat /\ nth >= 1
  /\ pc \in {"graphemes", "words"} => nth <= Len(case.canon)
  /\ pc # "panicked"

\* The texts that are compared.
LEMMA TextsOfScan ==
  ASSUME ScanInv
  PROVE  /\ case.manuscript \in Text /\ case.canon \in Seq(Source)
         /\ nth <= Len(case.canon) => nth \in DOMAIN case.canon /\ case.canon[nth].text \in Text
<1>1. case.manuscript \in Text /\ case.canon \in Seq(Source)
  BY TextAssumption DEF ScanInv
<1>2. ASSUME nth <= Len(case.canon) PROVE nth \in DOMAIN case.canon /\ case.canon[nth].text \in Text
  <2>1. nth \in 1 .. Len(case.canon)
    BY <1>1, <1>2 DEF ScanInv
  <2>2. case.canon[nth] \in Source /\ nth \in DOMAIN case.canon
    BY <1>1, <2>1
  <2>3. QED  BY <2>2 DEF Source
<1>3. QED  BY <1>1, <1>2

\* The windows of graphemes of a text are in rows, and those of words if they overlap.
LEMMA GraphemesInARow ==
  ASSUME NEW text \in Text, NEW runs, runs = Normalized(text).all
  PROVE  /\ runs \in Seq(Seq(TokenOf))
         /\ Row(runs, Len(runs), FixedWindows(runs, Policy.cjk_window))
<1> DEFINE width == Policy.cjk_window
<1>1. runs \in Seq(Seq(TokenOf))
  BY TextNormalized
<1>2. width \in Nat /\ width >= Policy.ngram
  BY CopyAssumption
<1> HIDE DEF width
<1>3. Row(runs, Len(runs), FixedWindows(runs, width))
  BY <1>1, <1>2, FixedRow
<1>4. QED  BY <1>1, <1>3 DEF width

LEMMA WordsInARow ==
  ASSUME WindowsOverlap, NEW text \in Text, NEW runs, runs = CharRuns(Normalized(text))
  PROVE  /\ runs \in Seq(Seq(TokenOf))
         /\ Row(runs, Len(runs), WordWindows(Normalized(text).char_runs, Policy.word_window))
<1> DEFINE read == Normalized(text).char_runs
           count == Policy.word_window
<1>1. read \in Seq(CharRun) /\ runs = [r \in DOMAIN read |-> read[r].tokens]
  BY TextNormalized DEF CharRuns
<1>2. count \in Nat /\ count >= 1 /\ Policy.ngram \in Nat
  BY CopyAssumption
<1>3. count + count - 2 >= Policy.ngram
  <2> DEFINE double == 2 * count
  <2>1. double - 2 >= Policy.ngram
    BY DEF WindowsOverlap
  <2>2. double = count + count
    <3> HIDE DEF count
    <3> QED  BY <1>2
  <2> HIDE DEF count, double
  <2>3. QED  BY <1>2, <2>1, <2>2
<1> HIDE DEF read, count
<1>4. runs \in Seq(Seq(TokenOf)) /\ Len(runs) = Len(read)
  <2>1. \A r \in DOMAIN read : read[r].tokens \in Seq(TokenOf)
    BY <1>1 DEF CharRun
  <2>2. QED  BY <1>1, <2>1
<1>5. Row(runs, Len(runs), WordWindows(read, count))
  BY <1>1, <1>2, <1>3, <1>4, WordRow
<1>6. QED  BY <1>4, <1>5 DEF read, count

LEMMA ScanGoesOn ==
  ASSUME WindowsOverlap, ScanInv, [Next]_vars
  PROVE  ScanInv'
<1>1. nth \in Nat /\ nth >= 1 /\ nth + 1 \in Nat /\ nth + 1 >= 1
  BY DEF ScanInv
<1>2. CASE ExactScan
  <2>1. case' = case /\ nth <= Len(case.canon)
    BY <1>2 DEF ExactScan
  <2>2. (pc' = "exact" /\ nth' = nth + 1) \/ (pc' = "graphemes" /\ nth' = nth)
    BY <1>2 DEF ExactScan, Exact, Matched, NextSource, Go
  <2>3. QED  BY <1>1, <2>1, <2>2 DEF ScanInv
<1>3. ASSUME NEW result, NEW last, result.outcome # "panicked", Compared(result, last),
             case' = case, pc \in {"graphemes", "words"}
      PROVE  ScanInv'
  <2>1. /\ pc' # "panicked"
        /\ (pc' = "words" /\ nth' = nth) \/ pc' \in {"exact", "exceeded"}
        /\ nth' \in {nth, nth + 1}
    BY <1>3, GoesOn
  <2>2. nth <= Len(case.canon)
    BY <1>3 DEF ScanInv
  <2>3. QED  BY <1>1, <1>3, <2>1, <2>2 DEF ScanInv
<1>4. ASSUME pc \in {"graphemes", "words"} PROVE case.canon[nth].text \in Text
  BY <1>4, TextsOfScan DEF ScanInv
<1>5. CASE GraphemeScan
  <2> DEFINE m == Mine.all
             s == Theirs.all
             width == Policy.cjk_window
             result == NgramWitness(m, FixedWindows(m, width), s, FixedWindows(s, width), nth)
  <2>1. pc = "graphemes" /\ case' = case /\ Compared(result, FALSE)
    BY <1>5 DEF GraphemeScan, Graphemes
  <2>2. s \in Seq(Seq(TokenOf)) /\ Row(s, Len(s), FixedWindows(s, width))
    BY <1>4, <2>1, GraphemesInARow DEF Theirs
  <2> HIDE DEF s, width
  <2>3. result.outcome # "panicked"
    BY <2>2, WitnessOK
  <2> HIDE DEF result
  <2>4. QED  BY <1>3, <2>1, <2>3
<1>6. CASE WordScan
  <2> DEFINE m == CharRuns(Mine)
             x == Mine.char_runs
             y == Theirs.char_runs
             s == CharRuns(Theirs)
             count == Policy.word_window
             result == NgramWitness(m, WordWindows(x, count), s, WordWindows(y, count), nth)
  <2>1. pc = "words" /\ case' = case /\ Compared(result, TRUE)
    BY <1>6 DEF WordScan, WordGrams
  <2>2. s \in Seq(Seq(TokenOf)) /\ Row(s, Len(s), WordWindows(y, count))
    BY <1>4, <2>1, WordsInARow DEF Theirs
  <2> HIDE DEF s, y, count
  <2>3. result.outcome # "panicked"
    BY <2>2, WitnessOK
  <2> HIDE DEF result
  <2>4. QED  BY <1>3, <2>1, <2>3
<1>7. CASE Done
  BY <1>7 DEF Done, ScanInv
<1>8. CASE UNCHANGED vars
  BY <1>8 DEF vars, ScanInv
<1>9. QED  BY <1>2, <1>5, <1>6, <1>7, <1>8 DEF Next

\* copycheck.rs:968: the removal of n-grams that a window leaves behind never panics, for any
\* texts, limits and policy under which windows of words overlap as WindowsOverlap says.
THEOREM SlidingIsSafe ==
  ASSUME WindowsOverlap
  PROVE  Spec => []SlidingNeverPanics
<1>1. Init => ScanInv
  BY DEF Init, ScanInv
<1>2. ScanInv /\ [Next]_vars => ScanInv'
  BY ScanGoesOn
<1>3. ScanInv => SlidingNeverPanics
  BY DEF ScanInv, SlidingNeverPanics
<1>4. QED  BY <1>1, <1>2, <1>3, PTL DEF Spec

-----------------------------------------------------------------------------
(***************************************************************************)
(* The n-gram rule finds the windows that overlap, and nothing else.       *)
(***************************************************************************)
\* Two windows overlap if the class of the one is close to the other.
LEMMA PairsThatOverlap ==
  ASSUME NEW mruns \in Seq(Seq(TokenOf)), NEW mine, Row(mruns, Len(mruns), mine),
         NEW sruns \in Seq(Seq(TokenOf)), NEW theirs, Row(sruns, Len(sruns), theirs),
         NEW source, NEW i \in DOMAIN mine, NEW j \in DOMAIN theirs
  PROVE  <<mine[i], theirs[j]>> \in Overlapping(mruns, mine, sruns, theirs, source)
           <=> /\ ~Exempt(source, RangeOf(sruns, theirs[j]))
               /\ \/ Policy.percent = 0
                  \/ Close(Classes(mruns, mine)[i], CountsAt(sruns, theirs[j]))
<1> DEFINE a == CountsAt(mruns, mine[i])
           b == CountsAt(sruns, theirs[j])
           class == Classes(mruns, mine)[i]
           top == Max({GramCount(mine[i]), GramCount(theirs[j])})
           exempt == Exempt(source, RangeOf(sruns, theirs[j]))
           o == MultisetOverlap(a, b)
<1>1. /\ Counts(a) /\ Size(a) = GramCount(mine[i]) /\ GramCount(mine[i]) \in Nat /\ GramCount(mine[i]) >= 1
      /\ Counts(b) /\ Size(b) = GramCount(theirs[j]) /\ GramCount(theirs[j]) \in Nat /\ GramCount(theirs[j]) >= 1
  BY WindowsOfRow
<1>2. ClassOK(class) /\ class.signature = a
  BY ClassesAre DEF ClassesOK
<1>3. <<mine[i], theirs[j]>> \in Overlapping(mruns, mine, sruns, theirs, source)
        <=> ~exempt /\ o * 100 >= Policy.percent * top
  <2>1. mine[i] \in Range(mine) /\ theirs[j] \in Range(theirs)
    BY DEF Range
  <2>2. /\ a = ToBag(SubSeq(Fingerprints(mruns[mine[i].run]), mine[i].start,
                            mine[i].start + GramCount(mine[i]) - 1))
        /\ b = ToBag(SubSeq(Fingerprints(sruns[theirs[j].run]), theirs[j].start,
                            theirs[j].start + GramCount(theirs[j]) - 1))
    BY DEF CountsAt, WindowCounts
  <2>3. GramCount(mine[i]) > 0 /\ GramCount(theirs[j]) > 0
    BY <1>1
  <2> DEFINE p == <<mine[i], theirs[j]>>
  <2>4. p \in Range(mine) \X Range(theirs) /\ p[1] = mine[i] /\ p[2] = theirs[j]
    BY <2>1
  <2> HIDE DEF a, b, p
  <2>5. p \in Overlapping(mruns, mine, sruns, theirs, source)
          <=> ~exempt /\ o * 100 >= Policy.percent * top
    BY <2>2, <2>3, <2>4 DEF Overlapping
  <2>6. QED  BY <2>5 DEF p
<1> HIDE DEF a, b, class, exempt
<1>4. o \in Nat /\ top \in Nat
  BY <1>1, OverlapIs, GreaterOfTwo
<1>5. CASE Policy.percent = 0
  <2> HIDE DEF o, top
  <2>1. o * 100 >= 0 * top
    BY <1>4
  <2>2. QED  BY <1>3, <1>5, <2>1 DEF exempt
<1>6. CASE Policy.percent # 0
  <2>1. Close(class, b) <=> o * 100 >= Policy.percent * top
    <3>1. Close(class, b) <=>
            MultisetOverlap(class.signature, b) * 100
              >= Policy.percent * Max({Size(class.signature), Size(b)})
      BY <1>1, <1>2, <1>6, CloseClass
    <3>2. QED  BY <1>1, <1>2, <3>1
  <2>2. QED  BY <1>3, <1>6, <2>1 DEF exempt, b, class
<1>7. QED  BY <1>5, <1>6

WitnessIs(result, mruns, mine, sruns, theirs, k) ==
  /\ result.outcome \in {"none", "exceeded", "found"}
  /\ result.outcome = "none" => Overlaps(mruns, mine, sruns, theirs, case.canon[k]) = {}
  /\ result.outcome # "found" => result.findings = {}
  /\ result.outcome = "found" =>
       \E f : /\ result.findings = {f} /\ f.source = k /\ f.rule = "ngram"
              /\ <<f.manuscript, f.range>> \in Overlaps(mruns, mine, sruns, theirs, case.canon[k])
              /\ f.score >= Policy.percent

LEMMA WitnessIsExact ==
  ASSUME NEW mruns \in Seq(Seq(TokenOf)), NEW mine, Row(mruns, Len(mruns), mine),
         NEW sruns \in Seq(Seq(TokenOf)), NEW theirs, Row(sruns, Len(sruns), theirs), NEW k
  PROVE  WitnessIs(NgramWitness(mruns, mine, sruns, theirs, k), mruns, mine, sruns, theirs, k)
<1> DEFINE source == case.canon[k]
           pairs == Overlapping(mruns, mine, sruns, theirs, source)
           classes == Classes(mruns, mine)
           end == VisitAll(theirs, sruns, source, classes)
           result == NgramWitness(mruns, mine, sruns, theirs, k)
<1>1. /\ Len(mine) \in Nat /\ DOMAIN mine = 1 .. Len(mine) /\ (mine = <<>> <=> Len(mine) = 0)
      /\ Len(theirs) \in Nat /\ DOMAIN theirs = 1 .. Len(theirs) /\ (theirs = <<>> <=> Len(theirs) = 0)
  BY WindowsOfRow
<1>2. /\ ClassesOK(classes) /\ DOMAIN classes = DOMAIN mine
      /\ \A i \in DOMAIN mine : classes[i].window = mine[i] /\ classes[i].signature = CountsAt(mruns, mine[i])
  BY ClassesAre
<1>3. Overlaps(mruns, mine, sruns, theirs, source)
        = {<<RangeOf(mruns, p[1]), RangeOf(sruns, p[2])>> : p \in pairs}
  BY DEF Overlaps
<1>4. \A p \in pairs : \E i \in DOMAIN mine, j \in DOMAIN theirs : p = <<mine[i], theirs[j]>>
  <2> TAKE p \in pairs
  <2>1. p \in Range(mine) \X Range(theirs)
    BY DEF Overlapping
  <2>2. QED  BY <2>1 DEF Range
<1>5. \A i \in DOMAIN mine, j \in DOMAIN theirs :
        <<mine[i], theirs[j]>> \in pairs
          <=> /\ ~Exempt(source, RangeOf(sruns, theirs[j]))
              /\ Policy.percent = 0 \/ Close(classes[i], CountsAt(sruns, theirs[j]))
  BY PairsThatOverlap
<1> HIDE DEF pairs
<1>6. \A x : /\ NoWitness(x).outcome = x /\ NoWitness(x).findings = {}
  BY DEF NoWitness
<1>7. CASE mine = <<>> \/ theirs = <<>>
  <2>1. pairs = {}
    BY <1>1, <1>4, <1>7
  <2>2. Overlaps(mruns, mine, sruns, theirs, source) = {}
    BY <1>3, <2>1
  <2>3. result = NoWitness("none")
    BY <1>7 DEF NgramWitness
  <2> HIDE DEF result
  <2>4. result.outcome = "none" /\ result.findings = {}
    BY <1>6, <2>3
  <2>5. QED  BY <2>2, <2>4 DEF WitnessIs, result
<1>8. CASE ~(mine = <<>> \/ theirs = <<>>) /\ TooMany(mine)
  <2>1. result = NoWitness("exceeded")
    BY <1>8 DEF NgramWitness
  <2> HIDE DEF result
  <2>2. result.outcome = "exceeded" /\ result.findings = {}
    BY <1>6, <2>1
  <2>3. QED  BY <2>2 DEF WitnessIs, result
<1>9. CASE ~(mine = <<>> \/ theirs = <<>>) /\ ~TooMany(mine)
  <2>1. DOMAIN classes # {}
    <3>1. 1 \in DOMAIN mine
      BY <1>1, <1>9
    <3>2. QED  BY <1>2, <3>1
  <2>2. result = Witness(end, mruns, classes, sruns, k)
    BY <1>9, <2>1 DEF NgramWitness, SearchClasses
  <2> DEFINE f == Finding(k, RangeOf(mruns, classes[end.hit[1]].window), RangeOf(sruns, end.window),
                          "ngram", end.hit[2])
  <2>3. result.outcome = end.outcome /\ result.findings = IF end.outcome # "found" THEN {} ELSE {f}
    BY <2>2 DEF Witness
  <2>4. Searched(end, Len(theirs), theirs, sruns, source, classes)
    BY <1>2, <2>1, SearchesAll
  <2>5. /\ f.source = k /\ f.rule = "ngram" /\ f.score = end.hit[2]
        /\ f.manuscript = RangeOf(mruns, classes[end.hit[1]].window)
        /\ f.range = RangeOf(sruns, end.window)
    BY DEF Finding
  <2> HIDE DEF result, end, classes, f
  <2>6. result.outcome \in {"none", "exceeded", "found"}
    BY <2>3, <2>4 DEF Searched
  <2>7. ASSUME result.outcome = "none" PROVE Overlaps(mruns, mine, sruns, theirs, source) = {}
    <3>1. \A j \in DOMAIN theirs : IsQuiet(theirs[j], sruns, source, classes)
      BY <1>1, <2>3, <2>4, <2>7 DEF Searched
    <3>2. \A i \in DOMAIN mine, j \in DOMAIN theirs : <<mine[i], theirs[j]>> \notin pairs
      BY <1>2, <1>5, <3>1 DEF IsQuiet
    <3>3. pairs = {}
      BY <1>4, <3>2
    <3>4. QED  BY <1>3, <3>3
  <2>8. ASSUME result.outcome = "found"
        PROVE  /\ <<f.manuscript, f.range>> \in Overlaps(mruns, mine, sruns, theirs, source)
               /\ f.score >= Policy.percent
    <3>1. PICK j \in 1 .. Len(theirs) : IsHit(end, theirs[j], sruns, source, classes)
      BY <2>3, <2>4, <2>8 DEF Searched
    <3> DEFINE i == end.hit[1]
    <3>2. /\ end.window = theirs[j] /\ ~Exempt(source, RangeOf(sruns, theirs[j]))
          /\ i \in DOMAIN mine /\ j \in DOMAIN theirs
          /\ IF Policy.percent = 0 THEN end.hit[2] = 0
             ELSE /\ Close(classes[i], CountsAt(sruns, theirs[j]))
                  /\ end.hit[2] = Score(classes[i], CountsAt(sruns, theirs[j]))
      BY <1>1, <1>2, <3>1 DEF IsHit
    <3> HIDE DEF i
    <3>3. <<mine[i], theirs[j]>> \in pairs
      BY <1>5, <3>2
    <3>4. <<RangeOf(mruns, mine[i]), RangeOf(sruns, theirs[j])>>
            \in Overlaps(mruns, mine, sruns, theirs, source)
      <4> DEFINE p == <<mine[i], theirs[j]>>
      <4>1. p[1] = mine[i] /\ p[2] = theirs[j]
        OBVIOUS
      <4>2. p \in pairs
        BY <3>3
      <4> HIDE DEF p
      <4>3. <<RangeOf(mruns, p[1]), RangeOf(sruns, p[2])>> \in Overlaps(mruns, mine, sruns, theirs, source)
        BY <1>3, <4>2
      <4>4. QED  BY <4>1, <4>3
    <3>5. f.manuscript = RangeOf(mruns, mine[i]) /\ f.range = RangeOf(sruns, theirs[j])
      BY <1>2, <2>5, <3>2 DEF i
    <3>6. f.score >= Policy.percent
      <4>1. CASE Policy.percent = 0
        BY <2>5, <3>2, <4>1
      <4>2. CASE Policy.percent # 0
        <5> DEFINE counts == CountsAt(sruns, theirs[j])
        <5>1. Counts(counts) /\ Size(counts) \in Nat /\ Size(counts) >= 1
          BY <3>2, WindowsOfRow
        <5>2. ClassOK(classes[i])
          BY <1>2, <3>2 DEF ClassesOK
        <5>3. Close(classes[i], counts) /\ f.score = Score(classes[i], counts)
          BY <2>5, <3>2, <4>2
        <5> HIDE DEF counts
        <5>4. Score(classes[i], counts) >= Policy.percent
          BY <4>2, <5>1, <5>2, <5>3, CloseClass
        <5>5. QED  BY <5>3, <5>4
      <4>3. QED  BY <4>1, <4>2
    <3>7. QED  BY <3>4, <3>5, <3>6
  <2>9. result.outcome # "found" => result.findings = {}
    BY <2>3
  <2>10. result.outcome = "found" => result.findings = {f}
    BY <2>3
  <2>11. WitnessIs(result, mruns, mine, sruns, theirs, k)
    BY <2>5, <2>6, <2>7, <2>8, <2>9, <2>10 DEF WitnessIs
  <2>12. QED  BY <2>11 DEF result
<1>10. QED  BY <1>7, <1>8, <1>9
-----------------------------------------------------------------------------
(***************************************************************************)
(* So does the scan of all sources.  A source that is behind the scan has  *)
(* a finding if it has windows like those of the text; the one whose words *)
(* come next has none like them among its graphemes.                       *)
(***************************************************************************)
Rules == {"cjk", "words", "ngram"}

GramInv ==
  /\ ScanInv
  /\ OverlapsAreReal
  /\ pc \in {"exact", "graphemes", "words", "done", "exceeded"}
  /\ \A k \in DOMAIN case.canon :
       k < nth /\ GramCopies(case.manuscript, case.canon[k]) # {} => Found(k, Rules)
  /\ pc = "words" => GraphemeOverlaps(Mine, Theirs, case.canon[nth]) = {}
  /\ pc = "done" => nth > Len(case.canon)

\* Findings that are added to those there are.
LEMMA FindingsAdded ==
  ASSUME NEW new, findings' = findings \cup new, case' = case, OverlapsAreReal,
         \A f \in new : f.rule = "ngram" =>
           /\ <<f.manuscript, f.range>> \in GramCopies(case.manuscript, case.canon[f.source])
           /\ f.score >= Policy.percent
  PROVE  OverlapsAreReal' /\ \A k : Found(k, Rules) => Found(k, Rules)'
<1>1. OverlapsAreReal'
  BY DEF OverlapsAreReal
<1>2. QED  BY <1>1 DEF Found

\* The step has a finding for the source that is scanned.
FoundNow == \E f \in findings' : f.source = nth /\ f.rule \in Rules

\* The sources behind the scan, when it goes on to the next one and when it does not.
LEMMA SourcesBehind ==
  ASSUME GramInv, case' = case, nth' \in {nth, nth + 1},
         \A k : Found(k, Rules) => Found(k, Rules)',
         nth' = nth + 1 /\ GramCopies(case.manuscript, case.canon[nth]) # {} => FoundNow
  PROVE  \A k \in DOMAIN case'.canon :
           k < nth' /\ GramCopies(case'.manuscript, case'.canon[k]) # {} => Found(k, Rules)'
<1> SUFFICES ASSUME NEW k \in DOMAIN case.canon, k < nth',
                    GramCopies(case.manuscript, case.canon[k]) # {}
             PROVE  Found(k, Rules)'
  OBVIOUS
<1>1. nth \in Nat /\ case.canon \in Seq(Source)
  BY TextsOfScan DEF GramInv, ScanInv
<1>2. k \in Nat /\ (k < nth \/ (k = nth /\ nth' = nth + 1))
  BY <1>1
<1>3. CASE k < nth
  BY <1>3 DEF GramInv
<1>4. CASE k = nth /\ nth' = nth + 1
  BY <1>4 DEF FoundNow, Found
<1>5. QED  BY <1>2, <1>3, <1>4

\* An exact finding is of its own rule and of the source that is scanned.
LEMMA ExactFindings ==
  ASSUME NEW mruns, NEW sruns, NEW k, NEW threshold, NEW rule,
         NEW f \in ExactWitness(mruns, sruns, k, threshold, rule)
  PROVE  f.source = k /\ f.rule = rule
<1>1. \A x, y : /\ Finding(k, x, y, rule, 100).source = k
                /\ Finding(k, x, y, rule, 100).rule = rule
  BY DEF Finding
<1>2. \E x, y : f = Finding(k, x, y, rule, 100)
  BY DEF ExactWitness
<1>3. QED  BY <1>1, <1>2

\* What a comparison of windows says of those that overlap.
Judged(result, over) ==
  /\ result.outcome \in {"none", "exceeded", "found"}
  /\ result.outcome = "none" => over = {}
  /\ result.outcome # "found" => result.findings = {}
  /\ result.outcome = "found" =>
       \E f : /\ result.findings = {f} /\ f.source = nth /\ f.rule = "ngram"
              /\ <<f.manuscript, f.range>> \in over /\ f.score >= Policy.percent

LEMMA ScanAfterWindows ==
  ASSUME GramInv, ScanInv', case' = case, NEW result, NEW last \in BOOLEAN, NEW over,
         Judged(result, over), Compared(result, last),
         over \subseteq GramCopies(case.manuscript, case.canon[nth]),
         last => GramCopies(case.manuscript, case.canon[nth]) \subseteq over,
         ~last => over = GraphemeOverlaps(Mine, Theirs, case.canon[nth])
  PROVE  GramInv'
<1> DEFINE copies == GramCopies(case.manuscript, case.canon[nth])
<1>1. findings' = findings \cup result.findings
  BY DEF Compared
<1>2. nth \in Nat /\ nth # nth + 1
  BY DEF GramInv, ScanInv
<1>3. OverlapsAreReal' /\ \A k : Found(k, Rules) => Found(k, Rules)'
  <2>1. \A f \in result.findings :
          /\ <<f.manuscript, f.range>> \in GramCopies(case.manuscript, case.canon[f.source])
          /\ f.score >= Policy.percent
    <3> SUFFICES ASSUME NEW f \in result.findings
                 PROVE  /\ <<f.manuscript, f.range>> \in GramCopies(case.manuscript, case.canon[f.source])
                        /\ f.score >= Policy.percent
      OBVIOUS
    <3>1. f.source = nth /\ <<f.manuscript, f.range>> \in over /\ f.score >= Policy.percent
      BY DEF Judged
    <3>2. <<f.manuscript, f.range>> \in GramCopies(case.manuscript, case.canon[nth])
      BY <3>1
    <3>3. QED  BY <3>1, <3>2
  <2>2. QED  BY <1>1, <2>1, FindingsAdded DEF GramInv
<1>4. CASE result.outcome = "found"
  <2>1. pc' = "exact" /\ nth' = nth + 1
    BY <1>4 DEF Compared, NextSource
  <2>2. FoundNow
    <3>1. PICK f : result.findings = {f} /\ f.source = nth /\ f.rule = "ngram"
      BY <1>4 DEF Judged
    <3>2. f \in findings' /\ f.rule \in Rules
      BY <1>1, <3>1 DEF Rules
    <3>3. QED  BY <3>1, <3>2 DEF FoundNow
  <2>3. QED  BY <1>3, <2>1, <2>2, SourcesBehind DEF GramInv
<1>5. CASE result.outcome = "none" /\ last
  <2>1. pc' = "exact" /\ nth' = nth + 1
    BY <1>5 DEF Compared, NextSource
  <2>2. copies = {}
    BY <1>5 DEF Judged
  <2> HIDE DEF copies
  <2>3. QED  BY <1>3, <2>1, <2>2, SourcesBehind DEF GramInv, copies
<1>6. CASE result.outcome = "none" /\ ~last
  <2>1. pc' = "words" /\ nth' = nth
    BY <1>6 DEF Compared, Go
  <2>2. GraphemeOverlaps(Mine, Theirs, case.canon[nth]) = {}
    BY <1>6 DEF Judged
  <2>3. GraphemeOverlaps(Mine', Theirs', case'.canon[nth']) = {}
    BY <2>1, <2>2 DEF Mine, Theirs
  <2>4. QED  BY <1>2, <1>3, <2>1, <2>3, SourcesBehind DEF GramInv
<1>7. CASE result.outcome = "exceeded"
  <2>1. pc' = "exceeded" /\ nth' = nth
    BY <1>7 DEF Compared, Go
  <2>2. QED  BY <1>2, <1>3, <2>1, SourcesBehind DEF GramInv
<1>8. QED  BY <1>4, <1>5, <1>6, <1>7 DEF Judged

LEMMA GramScanGoesOn ==
  ASSUME WindowsOverlap, GramInv, [Next]_vars
  PROVE  GramInv'
<1>1. ScanInv /\ ScanInv'
  BY ScanGoesOn DEF GramInv
<1>2. nth \in Nat /\ nth # nth + 1
  BY <1>1 DEF ScanInv
<1>3. case.manuscript \in Text
  BY <1>1, TextsOfScan
<1>4. ASSUME pc \in {"graphemes", "words"} PROVE case.canon[nth].text \in Text
  BY <1>1, <1>4, TextsOfScan DEF ScanInv
<1>5. GramCopies(case.manuscript, case.canon[nth])
        = GraphemeOverlaps(Mine, Theirs, case.canon[nth]) \cup WordOverlaps(Mine, Theirs, case.canon[nth])
  BY DEF GramCopies, Mine, Theirs
<1>6. CASE ExactScan
  <2> DEFINE exact == ExactWitness(Mine.cjk_runs, Theirs.cjk_runs, nth, Policy.exact_cjk, "cjk")
               \cup ExactWitness(Mine.word_runs, Theirs.word_runs, nth, Policy.exact_words, "words")
  <2>1. case' = case /\ Matched(exact)
    BY <1>6 DEF ExactScan, Exact
  <2>2. \A f \in exact : f.source = nth /\ f.rule \in {"cjk", "words"}
    BY ExactFindings
  <2> HIDE DEF exact
  <2>3. findings' = findings \cup exact
    BY <2>1 DEF Matched
  <2>4. OverlapsAreReal' /\ \A k : Found(k, Rules) => Found(k, Rules)'
    BY <2>1, <2>2, <2>3, FindingsAdded DEF GramInv
  <2>5. CASE exact # {}
    <3>1. pc' = "exact" /\ nth' = nth + 1
      BY <2>1, <2>5 DEF Matched, NextSource
    <3>2. FoundNow
      BY <2>2, <2>3, <2>5 DEF FoundNow, Rules
    <3>3. QED  BY <1>1, <2>1, <2>4, <3>1, <3>2, SourcesBehind DEF GramInv
  <2>6. CASE exact = {}
    <3>1. pc' = "graphemes" /\ nth' = nth
      BY <2>1, <2>6 DEF Matched, Go
    <3>2. QED  BY <1>1, <1>2, <2>1, <2>4, <3>1, SourcesBehind DEF GramInv
  <2>7. QED  BY <2>5, <2>6
<1>7. CASE GraphemeScan
  <2> DEFINE m == Mine.all
             s == Theirs.all
             width == Policy.cjk_window
             mine == FixedWindows(m, width)
             theirs == FixedWindows(s, width)
             result == NgramWitness(m, mine, s, theirs, nth)
             over == GraphemeOverlaps(Mine, Theirs, case.canon[nth])
  <2>1. pc = "graphemes" /\ case' = case /\ Compared(result, FALSE)
    BY <1>7 DEF GraphemeScan, Graphemes
  <2>2. m \in Seq(Seq(TokenOf)) /\ Row(m, Len(m), mine)
    BY <1>3, GraphemesInARow DEF Mine
  <2>3. s \in Seq(Seq(TokenOf)) /\ Row(s, Len(s), theirs)
    BY <1>4, <2>1, GraphemesInARow DEF Theirs
  <2>4. over = Overlaps(m, mine, s, theirs, case.canon[nth])
    BY DEF GraphemeOverlaps
  <2> HIDE DEF m, s, mine, theirs, over
  <2>5. WitnessIs(result, m, mine, s, theirs, nth)
    BY <2>2, <2>3, WitnessIsExact
  <2> HIDE DEF result
  <2>6. Judged(result, over)
    BY <2>4, <2>5 DEF WitnessIs, Judged
  <2>7. over \subseteq GramCopies(case.manuscript, case.canon[nth])
    BY <1>5 DEF over
  <2>8. QED  BY <1>1, <2>1, <2>6, <2>7, ScanAfterWindows DEF over
<1>8. CASE WordScan
  <2> DEFINE m == CharRuns(Mine)
             x == Mine.char_runs
             y == Theirs.char_runs
             s == CharRuns(Theirs)
             count == Policy.word_window
             mine == WordWindows(x, count)
             theirs == WordWindows(y, count)
             result == NgramWitness(m, mine, s, theirs, nth)
             over == WordOverlaps(Mine, Theirs, case.canon[nth])
  <2>1. pc = "words" /\ case' = case /\ Compared(result, TRUE)
    BY <1>8 DEF WordScan, WordGrams
  <2>2. m \in Seq(Seq(TokenOf)) /\ Row(m, Len(m), mine)
    BY <1>3, WordsInARow DEF Mine
  <2>3. s \in Seq(Seq(TokenOf)) /\ Row(s, Len(s), theirs)
    BY <1>4, <2>1, WordsInARow DEF Theirs
  <2>4. over = Overlaps(m, mine, s, theirs, case.canon[nth])
    BY DEF WordOverlaps
  <2> HIDE DEF m, s, mine, theirs, over
  <2>5. WitnessIs(result, m, mine, s, theirs, nth)
    BY <2>2, <2>3, WitnessIsExact
  <2> HIDE DEF result
  <2>6. Judged(result, over)
    BY <2>4, <2>5 DEF WitnessIs, Judged
  <2>7. over = GramCopies(case.manuscript, case.canon[nth])
    BY <1>5, <2>1 DEF over, GramInv
  <2>8. QED  BY <1>1, <2>1, <2>6, <2>7, ScanAfterWindows
<1>9. CASE Done
  <2>1. pc' = "done" /\ nth > Len(case.canon) /\ UNCHANGED <<case, nth, used, findings>>
    BY <1>9 DEF Done
  <2>2. OverlapsAreReal' /\ \A k : Found(k, Rules) => Found(k, Rules)'
    BY <2>1 DEF OverlapsAreReal, Found, GramInv
  <2>3. QED  BY <1>1, <1>2, <2>1, <2>2, SourcesBehind DEF GramInv
<1>10. CASE UNCHANGED vars
  BY <1>1, <1>10 DEF vars, GramInv, OverlapsAreReal, Found, Mine, Theirs
<1>11. QED  BY <1>6, <1>7, <1>8, <1>9, <1>10 DEF Next

\* copycheck.rs:738-861: a scan that ends has a finding for each source with a window of n-grams
\* like one of the text, and a finding of that rule names two such windows, whatever the
\* prefixes, the sliding counts and the order of the candidates are.
THEOREM GramScanIsExact ==
  ASSUME WindowsOverlap
  PROVE  Spec => [](NoOverlapIsMissed /\ OverlapsAreReal)
<1>1. Init => GramInv
  <2> SUFFICES ASSUME Init PROVE GramInv
    OBVIOUS
  <2>1. ScanInv /\ nth = 1 /\ findings = {} /\ pc = "exact"
    BY DEF Init, ScanInv
  <2>2. \A k \in DOMAIN case.canon : ~(k < nth)
    <3>1. case.canon \in Seq(Source)
      BY <2>1, TextsOfScan
    <3>2. QED  BY <2>1, <3>1
  <2>3. QED  BY <2>1, <2>2 DEF GramInv, OverlapsAreReal
<1>2. GramInv /\ [Next]_vars => GramInv'
  BY GramScanGoesOn
<1>3. GramInv => NoOverlapIsMissed /\ OverlapsAreReal
  <2> SUFFICES ASSUME GramInv PROVE NoOverlapIsMissed /\ OverlapsAreReal
    OBVIOUS
  <2>1. OverlapsAreReal
    BY DEF GramInv
  <2>2. ASSUME pc = "done" PROVE \A k \in DOMAIN case.canon : k < nth
    <3>1. case.canon \in Seq(Source) /\ nth \in Nat
      BY TextsOfScan DEF GramInv, ScanInv
    <3>2. QED  BY <2>2, <3>1 DEF GramInv
  <2>3. QED  BY <2>1, <2>2 DEF GramInv, NoOverlapIsMissed, Rules
<1>4. QED  BY <1>1, <1>2, <1>3, PTL DEF Spec

-----------------------------------------------------------------------------
(***************************************************************************)
(* Units in their order.                                                   *)
(***************************************************************************)
Ascends(R, n) ==
  /\ \A k \in 1 .. n : R[k].from \in Nat
  /\ \A i, j \in 1 .. n : i < j => R[i].from < R[j].from

ReadsAs(S, R, n) ==
  Cardinality(S) = n /\ InOrder(S) = [k \in 1 .. n |-> R[k].t]

\* Of tokens that begin one behind the other, each is where as many begin as are up to it.
LEMMA InOrderIs ==
  ASSUME NEW n \in Nat, NEW R, Ascends(R, n), NEW S, S = {R[k] : k \in 1 .. n}
  PROVE  ReadsAs(S, R, n)
<1> DEFINE Upto(x) == {y \in S : y.from <= x.from}
<1>1. \A i, j \in 1 .. n : R[j].from <= R[i].from <=> j <= i
  <2> TAKE i, j \in 1 .. n
  <2>1. i < j \/ i = j \/ j < i
    OBVIOUS
  <2>2. R[i].from \in Nat /\ R[j].from \in Nat
    BY DEF Ascends
  <2>3. QED  BY <2>1, <2>2 DEF Ascends
<1>2. ASSUME NEW m \in 0 .. n, NEW T, T = {R[k] : k \in 1 .. m}
      PROVE  Cardinality(T) = m
  <2> DEFINE f == [k \in 1 .. m |-> R[k]]
  <2>1. \A i, j \in 1 .. m : i \in 1 .. n /\ j \in 1 .. n /\ (i < j \/ i = j \/ j < i)
    OBVIOUS
  <2>2. \A i, j \in 1 .. m : R[i] = R[j] => i = j
    <3> TAKE i, j \in 1 .. m
    <3>1. i < j => R[i].from < R[j].from
      BY <2>1 DEF Ascends
    <3>2. j < i => R[j].from < R[i].from
      BY <2>1 DEF Ascends
    <3>3. R[i].from \in Nat /\ R[j].from \in Nat
      BY <2>1 DEF Ascends
    <3>4. QED  BY <2>1, <3>1, <3>2, <3>3
  <2>3. OneToOne(f, 1 .. m, T)
    BY <1>2, <2>2 DEF OneToOne
  <2>4. m \in Nat /\ IsFiniteSet(1 .. m) /\ Cardinality(1 .. m) = m
    BY FS_Interval
  <2> HIDE DEF f
  <2>5. QED  BY <2>3, <2>4, CountedBy
<1>3. \A k \in 1 .. n : Cardinality(Upto(R[k])) = k
  <2> TAKE k \in 1 .. n
  <2>1. Upto(R[k]) = {R[j] : j \in 1 .. k}
    <3>1. \A j \in 1 .. k : j \in 1 .. n /\ j <= k
      OBVIOUS
    <3>2. \A j \in 1 .. n : j <= k => j \in 1 .. k
      OBVIOUS
    <3>3. \A j \in 1 .. k : R[j] \in Upto(R[k])
      BY <1>1, <3>1
    <3>4. \A j \in 1 .. n : R[j] \in Upto(R[k]) => j \in 1 .. k
      BY <1>1, <3>2
    <3>5. \A y \in Upto(R[k]) : \E j \in 1 .. n : y = R[j]
      OBVIOUS
    <3> HIDE DEF Upto
    <3>6. QED  BY <3>3, <3>4, <3>5
  <2>2. k \in 0 .. n
    OBVIOUS
  <2> HIDE DEF Upto
  <2>3. QED  BY <1>2, <2>1, <2>2
<1>4. Cardinality(S) = n
  BY <1>2
<1>5. \A k \in 1 .. n : (CHOOSE x \in S : Cardinality(Upto(x)) = k) = R[k]
  <2> TAKE k \in 1 .. n
  <2>1. R[k] \in S /\ Cardinality(Upto(R[k])) = k
    BY <1>3
  <2>2. \A x \in S : Cardinality(Upto(x)) = k => x = R[k]
    BY <1>3
  <2> HIDE DEF Upto
  <2>3. QED  BY <2>1, <2>2
<1>6. InOrder(S) = [k \in 1 .. Cardinality(S) |-> (CHOOSE x \in S : Cardinality(Upto(x)) = k).t]
  BY DEF InOrder
<1> HIDE DEF Upto
<1>7. QED  BY <1>4, <1>5, <1>6 DEF ReadsAs

\* Units do not meet.  A chain of them has none, and no break, between the first and the last.
Apart(U) ==
  /\ \A u \in U : u.from \in Nat /\ u.to \in Nat /\ u.from <= u.to
  /\ \A u, v \in U : u = v \/ u.to < v.from \/ v.to < u.from

Free(B, a, b) == \A x \in B : ~(a <= x /\ x <= b)

Chain(U, B, R) ==
  /\ R \in Seq(U)
  /\ \A k \in 1 .. Len(R) : Free(B, R[k].from, R[k].to)
  /\ \A k \in 1 .. Len(R) - 1 :
       /\ R[k].to < R[k + 1].from
       /\ Free(B, R[k].from, R[k + 1].to)
       /\ \A v \in U : ~(R[k].to < v.from /\ v.from < R[k + 1].from)

ChainPart(U, B, R, i, j) ==
  /\ i < j => R[i].to < R[j].from
  /\ Free(B, R[i].from, R[j].to)
  /\ Within(U, R[i].from, R[j].to) = {R[k] : k \in i .. j}

LEMMA ChainGrows ==
  ASSUME NEW U, Apart(U), NEW B \in SUBSET Nat, NEW R, Chain(U, B, R),
         NEW i \in 1 .. Len(R), NEW m \in i .. Len(R) - 1, NEW j, j = m + 1,
         ChainPart(U, B, R, i, m)
  PROVE  ChainPart(U, B, R, i, j)
<1>1. /\ i \in Nat /\ m \in Nat /\ j \in Nat /\ i < j /\ i <= m /\ m < j
      /\ m \in 1 .. Len(R) /\ j \in 1 .. Len(R) /\ m \in 1 .. Len(R) - 1
      /\ i \in i .. m /\ m \in i .. m /\ j \in i .. j
  BY DEF Chain
<1>2. R[i] \in U /\ R[m] \in U /\ R[j] \in U
  BY <1>1 DEF Chain
<1>3. /\ R[i].from \in Nat /\ R[i].to \in Nat /\ R[m].from \in Nat /\ R[m].to \in Nat
      /\ R[j].from \in Nat /\ R[j].to \in Nat
      /\ R[i].from <= R[i].to /\ R[m].from <= R[m].to /\ R[j].from <= R[j].to
  BY <1>2 DEF Apart
<1>4. /\ R[m].to < R[j].from /\ Free(B, R[m].from, R[j].to)
      /\ \A v \in U : ~(R[m].to < v.from /\ v.from < R[j].from)
  BY <1>1 DEF Chain
<1>5. R[i].to <= R[m].to /\ R[i].to < R[j].from /\ R[i].from <= R[m].from
  <2> DEFINE a == R[i].from
             b == R[i].to
             c == R[m].from
             d == R[m].to
             e == R[j].from
  <2>1. /\ a \in Nat /\ b \in Nat /\ c \in Nat /\ d \in Nat /\ e \in Nat
        /\ a <= b /\ c <= d /\ d < e
    BY <1>3, <1>4
  <2>2. i = m => a = c /\ b = d
    OBVIOUS
  <2>3. i < m => b < c
    BY DEF ChainPart
  <2>4. i = m \/ i < m
    BY <1>1
  <2> SUFFICES b <= d /\ b < e /\ a <= c
    OBVIOUS
  <2> HIDE DEF a, b, c, d, e
  <2>5. CASE i = m
    BY <2>1, <2>2, <2>5
  <2>6. CASE i < m
    BY <2>1, <2>3, <2>6
  <2>7. QED  BY <2>4, <2>5, <2>6
<1>6. Free(B, R[i].from, R[j].to)
  <2>1. Free(B, R[i].from, R[m].to) /\ Free(B, R[m].from, R[j].to)
    BY <1>4 DEF ChainPart
  <2>2. \A a, b, c, d, x \in Nat :
          a <= x /\ x <= d /\ b <= c => (a <= x /\ x <= c) \/ (b <= x /\ x <= d)
    OBVIOUS
  <2>3. ASSUME NEW x \in B, R[i].from <= x, x <= R[j].to PROVE FALSE
    <3>1. x \in Nat
      OBVIOUS
    <3>2. ~(R[i].from <= x /\ x <= R[m].to) /\ ~(R[m].from <= x /\ x <= R[j].to)
      BY <2>1 DEF Free
    <3> DEFINE a == R[i].from
               b == R[m].from
               c == R[m].to
               d == R[j].to
    <3>3. a \in Nat /\ b \in Nat /\ c \in Nat /\ d \in Nat /\ b <= c /\ a <= x /\ x <= d
      BY <1>3, <2>3
    <3>4. ~(a <= x /\ x <= c) /\ ~(b <= x /\ x <= d)
      BY <3>2
    <3> HIDE DEF a, b, c, d
    <3>5. QED  BY <2>2, <3>1, <3>3, <3>4
  <2>4. QED  BY <2>3 DEF Free
<1>7. ASSUME NEW v \in Within(U, R[i].from, R[j].to) PROVE v \in {R[k] : k \in i .. j}
  <2>1. v \in U /\ R[i].from <= v.from /\ v.to <= R[j].to /\ v.from \in Nat /\ v.to \in Nat /\ v.from <= v.to
    BY DEF Within, Apart
  <2>2. CASE v.to <= R[m].to
    <3>1. v \in {R[k] : k \in i .. m}
      BY <2>1, <2>2 DEF ChainPart, Within
    <3>2. \A k \in i .. m : k \in i .. j
      BY <1>1
    <3>3. QED  BY <3>1, <3>2
  <2>3. CASE R[m].to < v.to
    <3>1. R[m].to < v.from
      <4>1. v = R[m] \/ v.to < R[m].from \/ R[m].to < v.from
        BY <1>2, <2>1 DEF Apart
      <4>2. QED  BY <1>3, <2>1, <2>3, <4>1
    <3>2. ~(v.from < R[j].from)
      BY <1>4, <2>1, <3>1
    <3>3. v = R[j] \/ v.to < R[j].from \/ R[j].to < v.from
      BY <1>2, <2>1 DEF Apart
    <3>4. v = R[j]
      BY <1>3, <2>1, <3>2, <3>3
    <3>5. QED  BY <1>1, <3>4
  <2>4. QED  BY <1>3, <2>1, <2>2, <2>3
<1>8. ASSUME NEW k \in i .. j PROVE R[k] \in Within(U, R[i].from, R[j].to)
  <2>1. CASE k = j
    BY <1>2, <1>3, <1>5, <2>1 DEF Within
  <2>2. CASE k # j
    <3>1. k \in i .. m
      BY <1>1, <2>2
    <3>2. R[k] \in Within(U, R[i].from, R[m].to)
      BY <3>1 DEF ChainPart
    <3>3. R[k] \in U /\ R[i].from <= R[k].from /\ R[k].to <= R[m].to /\ R[k].to \in Nat
      BY <3>2 DEF Within, Apart
    <3>4. R[m].to <= R[j].to
      BY <1>3, <1>4
    <3>5. R[k].to <= R[j].to
      BY <1>3, <3>3, <3>4
    <3>6. QED  BY <3>3, <3>5 DEF Within
  <2>3. QED  BY <2>1, <2>2
<1>9. Within(U, R[i].from, R[j].to) = {R[k] : k \in i .. j}
  BY <1>7, <1>8
<1>10. QED  BY <1>5, <1>6, <1>9 DEF ChainPart

LEMMA ChainIs ==
  ASSUME NEW U, Apart(U), NEW B \in SUBSET Nat, NEW R, Chain(U, B, R),
         NEW i \in 1 .. Len(R), NEW j \in i .. Len(R)
  PROVE  ChainPart(U, B, R, i, j)
<1> DEFINE Bad == {k \in i .. Len(R) : ~ChainPart(U, B, R, i, k)}
<1>1. Len(R) \in Nat /\ i \in Nat
  BY DEF Chain
<1>2. Bad = {}
  <2> SUFFICES ASSUME Bad # {} PROVE FALSE
    OBVIOUS
  <2>1. PICK k \in Bad : \A m \in Bad : k <= m
    <3> HIDE DEF Bad
    <3>1. Bad \in SUBSET Nat
      BY <1>1 DEF Bad
    <3>2. QED  BY <3>1, Smallest
  <2>2. k \in i .. Len(R) /\ ~ChainPart(U, B, R, i, k)
    OBVIOUS
  <2>3. CASE k = i
    <3>1. R[i] \in U /\ R[i].from \in Nat /\ R[i].to \in Nat /\ R[i].from <= R[i].to
      BY DEF Chain, Apart
    <3>2. Free(B, R[i].from, R[i].to)
      BY DEF Chain
    <3>3. Within(U, R[i].from, R[i].to) = {R[i]}
      <4>1. \A v \in Within(U, R[i].from, R[i].to) : v = R[i]
        <5> TAKE v \in Within(U, R[i].from, R[i].to)
        <5>1. /\ v \in U /\ R[i].from <= v.from /\ v.to <= R[i].to
              /\ v.from \in Nat /\ v.to \in Nat /\ v.from <= v.to
          BY DEF Within, Apart
        <5>2. v = R[i] \/ v.to < R[i].from \/ R[i].to < v.from
          BY <3>1, <5>1 DEF Apart
        <5>3. QED  BY <3>1, <5>1, <5>2
      <4>2. R[i] \in Within(U, R[i].from, R[i].to)
        BY <3>1 DEF Within
      <4>3. QED  BY <4>1, <4>2
    <3>4. {R[x] : x \in i .. i} = {R[i]}
      BY <1>1
    <3>5. ChainPart(U, B, R, i, i)
      BY <1>1, <3>2, <3>3, <3>4 DEF ChainPart
    <3>6. QED  BY <2>2, <2>3, <3>5
  <2>4. CASE k # i
    <3> DEFINE m == k - 1
    <3>1. m \in i .. Len(R) - 1 /\ m \in i .. Len(R) /\ k = m + 1 /\ ~(k <= m)
      BY <1>1, <2>2, <2>4
    <3>2. ChainPart(U, B, R, i, m)
      BY <2>1, <3>1
    <3> HIDE DEF m
    <3>3. ChainPart(U, B, R, i, k)
      BY <3>1, <3>2, ChainGrows
    <3>4. QED  BY <2>2, <3>3
  <2>5. QED  BY <2>3, <2>4
<1>3. QED  BY <1>2

\* A window of a chain is a span, and it reads as the tokens of the window.
Stretch(R, k, width) == <<R[k].from, R[k + width - 1].to>>

WindowReads(U, B, R, k, width) ==
  /\ Stretch(R, k, width) \in Spans(U, B, width)
  /\ Read(U, Stretch(R, k, width)) = [i \in 1 .. width |-> R[k + i - 1].t]

LEMMA SpanOfWindow ==
  ASSUME NEW U, Apart(U), NEW B \in SUBSET Nat, NEW R, Chain(U, B, R),
         NEW k \in Nat, NEW width \in Nat, k >= 1, width >= 1, k + width - 1 <= Len(R)
  PROVE  WindowReads(U, B, R, k, width)
<1> DEFINE j == k + width - 1
           Q == [i \in 1 .. width |-> R[k + i - 1]]
           S == Within(U, R[k].from, R[j].to)
           s == Stretch(R, k, width)
<1>1. /\ j \in Nat /\ Len(R) \in Nat /\ k \in 1 .. Len(R) /\ j \in k .. Len(R) /\ j \in 1 .. Len(R)
      /\ \A i \in 1 .. width : k + i - 1 \in k .. j /\ k + i - 1 \in 1 .. Len(R)
      /\ \A x \in k .. j : x - k + 1 \in 1 .. width /\ k + (x - k + 1) - 1 = x
  BY DEF Chain
<1>2. s[1] = R[k].from /\ s[2] = R[j].to
  BY DEF Stretch
<1>3. R \in Seq(U) /\ \A x \in 1 .. Len(R) : R[x] \in U
  BY DEF Chain
<1>4. \A x \in 1 .. Len(R) : R[x].from \in Nat /\ R[x].to \in Nat /\ R[x].from <= R[x].to
  BY <1>3 DEF Apart
<1> HIDE DEF j
<1>5. Free(B, R[k].from, R[j].to) /\ S = {R[x] : x \in k .. j}
  <2>1. ChainPart(U, B, R, k, j)
    BY <1>1, ChainIs
  <2>2. QED  BY <2>1 DEF ChainPart
<1> HIDE DEF S, s
<1>6. S = {Q[i] : i \in 1 .. width}
  BY <1>1, <1>5
<1>7. \A a, b \in 1 .. width : a < b => Q[a].from < Q[b].from
  <2> TAKE a, b \in 1 .. width
  <2> HAVE a < b
  <2> DEFINE p == k + a - 1
             q == k + b - 1
  <2>1. p \in 1 .. Len(R) /\ q \in 1 .. Len(R) /\ q \in p .. Len(R) /\ p < q
    BY <1>1
  <2>2. Q[a] = R[p] /\ Q[b] = R[q]
    OBVIOUS
  <2> HIDE DEF p, q, Q
  <2>3. R[p].to < R[q].from
    BY <2>1, ChainIs DEF ChainPart
  <2>4. QED  BY <1>4, <2>1, <2>2, <2>3
<1>8. \A i \in 1 .. width : Q[i].from \in Nat /\ Q[i].t = R[k + i - 1].t
  BY <1>1, <1>4
<1> HIDE DEF Q
<1>9. Cardinality(S) = width /\ InOrder(S) = [i \in 1 .. width |-> Q[i].t]
  <2>1. Ascends(Q, width)
    BY <1>7, <1>8 DEF Ascends
  <2>2. ReadsAs(S, Q, width)
    BY <1>6, <2>1, InOrderIs
  <2>3. QED  BY <2>2 DEF ReadsAs
<1>10. Read(U, s) = [i \in 1 .. width |-> R[k + i - 1].t]
  BY <1>2, <1>8, <1>9 DEF Read, S
<1>11. s \in Spans(U, B, width)
  <2>1. B \cap (R[k].from .. R[j].to) = {}
    BY <1>5 DEF Free
  <2>2. s = <<R[k].from, R[j].to>>
    BY DEF s, Stretch, j
  <2>3. s \in {u.from : u \in U} \X {u.to : u \in U}
    BY <1>1, <1>3, <2>2
  <2>4. QED  BY <1>2, <1>9, <2>1, <2>3 DEF Spans, S
<1>12. QED  BY <1>10, <1>11 DEF s, WindowReads

-----------------------------------------------------------------------------
(***************************************************************************)
(* Lists of units.  Those that were read, D, are in a chain that is closed *)
(* or in the open one; behind a closed one there is a break before the     *)
(* next unit.                                                              *)
(***************************************************************************)
Closing(U, B, R) ==
  /\ Chain(U, B, R) /\ R # <<>>
  /\ \A v \in U : R[Len(R)].to < v.from => \E b \in B : R[Len(R)].to < b /\ b < v.from

Lists(U, B, D, n, chains, open) ==
  /\ D \in SUBSET U
  /\ \A d \in D, v \in U \ D : d.to < v.from
  /\ \A r \in DOMAIN chains : Closing(U, B, chains[r])
  /\ chains \in Seq(Seq(U))
  /\ Chain(U, B, open)
  /\ open # <<>> =>
       /\ open[Len(open)] \in D
       /\ \A d \in D : d.to <= open[Len(open)].to
       /\ open[Len(open)].to <= n
       /\ Free(B, open[Len(open)].to, n)
  /\ \A d \in D :
       \/ \E r \in DOMAIN chains : \E k \in DOMAIN chains[r] : chains[r][k] = d
       \/ \E k \in DOMAIN open : open[k] = d

LEMMA NoListsYet ==
  ASSUME NEW U, NEW B, NEW n
  PROVE  Lists(U, B, {}, n, <<>>, <<>>)
<1>1. <<>> \in Seq(U) /\ Len(<<>>) = 0 /\ DOMAIN <<>> = {} /\ <<>> \in Seq(Seq(U)) /\ 1 .. 0 = {}
  OBVIOUS
<1>2. Chain(U, B, <<>>)
  BY <1>1 DEF Chain
<1>3. QED  BY <1>1, <1>2 DEF Lists

\* Positions that are neither units nor breaks.
LEMMA ReadOn ==
  ASSUME NEW U, NEW B, NEW D, NEW n \in Nat, NEW m \in Nat, n <= m, NEW chains, NEW open,
         Apart(U), B \in SUBSET Nat, Lists(U, B, D, n, chains, open),
         \A b \in B : ~(n < b /\ b <= m)
  PROVE  Lists(U, B, D, m, chains, open)
<1>1. ASSUME open # <<>>
      PROVE  open[Len(open)].to <= m /\ Free(B, open[Len(open)].to, m)
  <2>1. open[Len(open)].to \in Nat
    BY <1>1 DEF Lists, Apart
  <2>2. open[Len(open)].to <= n /\ Free(B, open[Len(open)].to, n)
    BY <1>1 DEF Lists
  <2>3. QED  BY <2>1, <2>2 DEF Free
<1>2. QED  BY <1>1 DEF Lists

\* A list that a break ends, or the end of the text.
LEMMA ListClosed ==
  ASSUME NEW U, Apart(U), NEW B \in SUBSET Nat, NEW D, NEW n \in Nat, NEW m \in Nat, NEW chains, NEW open,
         Lists(U, B, D, n, chains, open),
         \A v \in U \ D : \E b \in B : n < b /\ b < v.from
  PROVE  Lists(U, B, D, m, Pushed(chains, open, open), <<>>)
<1> DEFINE more == Append(chains, open)
           k == Len(chains) + 1
           last == open[Len(open)]
<1>1. <<>> \in Seq(U) /\ Len(<<>>) = 0 /\ DOMAIN <<>> = {} /\ 1 .. 0 = {}
  OBVIOUS
<1>2. Chain(U, B, <<>>)
  BY <1>1 DEF Chain
<1>3. CASE open = <<>>
  <2>1. Pushed(chains, open, open) = chains
    BY <1>3 DEF Pushed
  <2>2. QED  BY <1>1, <1>2, <1>3, <2>1 DEF Lists
<1>4. CASE open # <<>>
  <2>1. chains \in Seq(Seq(U)) /\ open \in Seq(U) /\ Chain(U, B, open)
    BY DEF Lists, Chain
  <2>2. /\ more \in Seq(Seq(U)) /\ DOMAIN more = (DOMAIN chains) \cup {k} /\ k \notin DOMAIN chains
        /\ more[k] = open /\ \A r \in DOMAIN chains : more[r] = chains[r]
    BY <2>1
  <2>3. Pushed(chains, open, open) = more
    BY <1>4 DEF Pushed
  <2> HIDE DEF more, k
  <2>4. ASSUME NEW v \in U, last.to < v.from PROVE \E b \in B : last.to < b /\ b < v.from
    <3>1. last \in D /\ \A d \in D : d.to <= last.to
      BY <1>4 DEF Lists
    <3>2. last.to <= n
      BY <1>4 DEF Lists
    <3>3. last.to \in Nat /\ v.from \in Nat /\ v.to \in Nat /\ v.from <= v.to
      BY <3>1 DEF Lists, Apart
    <3>4. v \notin D
      BY <2>4, <3>1, <3>3
    <3>5. PICK b \in B : n < b /\ b < v.from
      BY <3>4
    <3>6. QED  BY <3>2, <3>3, <3>5
  <2>5. Closing(U, B, open)
    BY <1>4, <2>1, <2>4 DEF Closing
  <2>6. \A r \in DOMAIN more : Closing(U, B, more[r])
    BY <2>2, <2>5 DEF Lists
  <2>7. \A d \in D : \E r \in DOMAIN more : \E x \in DOMAIN more[r] : more[r][x] = d
    <3> TAKE d \in D
    <3>1. CASE \E r \in DOMAIN chains : \E x \in DOMAIN chains[r] : chains[r][x] = d
      BY <2>2, <3>1
    <3>2. CASE \E x \in DOMAIN open : open[x] = d
      BY <2>2, <3>2
    <3>3. QED  BY <3>1, <3>2 DEF Lists
  <2>8. Lists(U, B, D, m, more, <<>>)
    BY <1>2, <2>2, <2>6, <2>7 DEF Lists
  <2>9. QED  BY <2>3, <2>8
<1>5. QED  BY <1>3, <1>4

\* Another unit.
LEMMA UnitAdded ==
  ASSUME NEW U, Apart(U), NEW B \in SUBSET Nat, NEW D, NEW n \in Nat, NEW m \in Nat, NEW chains, NEW open,
         Lists(U, B, D, n, chains, open), n <= m,
         NEW u \in U, u \notin D, \A v \in U \ D : v = u \/ u.to < v.from,
         u.to <= m, Free(B, u.from, m), \A b \in B : ~(n < b /\ b <= m)
  PROVE  Lists(U, B, D \cup {u}, m, chains, Append(open, u))
<1> DEFINE more == Append(open, u)
           k == Len(open)
           j == k + 1
           last == open[k]
           E == D \cup {u}
<1>1. /\ open \in Seq(U) /\ k \in Nat
      /\ \A x \in 1 .. k : Free(B, open[x].from, open[x].to)
      /\ \A x \in 1 .. k - 1 :
           /\ open[x].to < open[x + 1].from /\ Free(B, open[x].from, open[x + 1].to)
           /\ \A v \in U : ~(open[x].to < v.from /\ v.from < open[x + 1].from)
  BY DEF Lists, Chain
<1>2. u.from \in Nat /\ u.to \in Nat /\ u.from <= u.to
  BY DEF Apart
<1>3. /\ more \in Seq(U) /\ Len(more) = j /\ more[j] = u /\ \A x \in 1 .. k : more[x] = open[x]
      /\ DOMAIN more = 1 .. j /\ DOMAIN open = 1 .. k /\ j \in 1 .. j /\ more # <<>>
      /\ j = k + 1 /\ j \in Nat
  <2>1. more \in Seq(U) /\ Len(more) = j /\ more[j] = u /\ j = k + 1 /\ j \in Nat /\ j >= 1
    BY <1>1
  <2>2. DOMAIN more = 1 .. j /\ DOMAIN open = 1 .. k /\ \A x \in 1 .. k : more[x] = open[x]
    BY <1>1
  <2>3. Len(<<>>) = 0
    OBVIOUS
  <2> HIDE DEF more, j
  <2>4. j \in 1 .. j /\ more # <<>>
    BY <2>1, <2>3
  <2>5. QED  BY <2>1, <2>2, <2>4
<1> HIDE DEF more, j
<1>4. ASSUME k # 0
      PROVE  /\ last.to < u.from /\ Free(B, last.from, u.to)
             /\ \A v \in U : ~(last.to < v.from /\ v.from < u.from)
  <2>1. open # <<>>
    BY <1>1, <1>4
  <2>2. /\ last \in D /\ \A d \in D : d.to <= last.to
        /\ last.to <= n /\ Free(B, last.to, n)
    BY <2>1 DEF Lists
  <2>3. last \in U /\ last.from \in Nat /\ last.to \in Nat /\ last.from <= last.to
    BY <2>2 DEF Lists, Apart
  <2>4. last.to < u.from
    BY <2>2 DEF Lists
  <2>5. Free(B, last.from, last.to)
    <3>1. k \in 1 .. k
      BY <1>1, <1>4
    <3>2. QED  BY <1>1, <3>1
  <2> HIDE DEF last
  <2>6. Free(B, last.from, u.to)
    <3> SUFFICES ASSUME NEW b \in B, last.from <= b, b <= u.to PROVE FALSE
      BY DEF Free
    <3>1. b \in Nat
      OBVIOUS
    <3>2. ~(b <= last.to)
      BY <2>5 DEF Free
    <3>3. ~(b <= n)
      BY <2>2, <2>3, <3>1, <3>2 DEF Free
    <3>4. QED  BY <1>2, <3>1, <3>3
  <2>7. \A v \in U : ~(last.to < v.from /\ v.from < u.from)
    <3> SUFFICES ASSUME NEW v \in U, last.to < v.from, v.from < u.from PROVE FALSE
      OBVIOUS
    <3>1. v.from \in Nat /\ v.to \in Nat /\ v.from <= v.to
      BY DEF Apart
    <3>2. v \notin D
      BY <2>2, <2>3, <3>1
    <3>3. v = u \/ u.to < v.from
      BY <3>2
    <3>4. QED  BY <1>2, <3>1, <3>3
  <2>8. QED  BY <2>4, <2>6, <2>7
<1>5. \A x \in 1 .. j : Free(B, more[x].from, more[x].to)
  <2> TAKE x \in 1 .. j
  <2>1. CASE x = j
    BY <1>2, <1>3, <2>1 DEF Free
  <2>2. CASE x # j
    <3>1. x \in 1 .. k
      BY <1>1, <1>3, <2>2
    <3>2. QED  BY <1>1, <1>3, <3>1
  <2>3. QED  BY <2>1, <2>2
<1>6. ASSUME NEW x \in 1 .. j - 1
      PROVE  /\ more[x].to < more[x + 1].from /\ Free(B, more[x].from, more[x + 1].to)
             /\ \A v \in U : ~(more[x].to < v.from /\ v.from < more[x + 1].from)
  <2>1. x \in 1 .. k
    BY <1>1, <1>3
  <2>2. CASE x = k
    <3>1. more[x] = last /\ more[x + 1] = u /\ k # 0
      BY <1>3, <2>1, <2>2
    <3>2. QED  BY <1>4, <3>1
  <2>3. CASE x # k
    <3>1. x \in 1 .. k - 1 /\ x + 1 \in 1 .. k
      BY <1>1, <2>1, <2>3
    <3>2. more[x] = open[x] /\ more[x + 1] = open[x + 1]
      BY <1>3, <2>1, <3>1
    <3>3. QED  BY <1>1, <3>1, <3>2
  <2>4. QED  BY <2>2, <2>3
<1>7. Chain(U, B, more)
  BY <1>3, <1>5, <1>6 DEF Chain
<1>8. \A d \in E, v \in U \ E : d.to < v.from
  BY DEF Lists
<1>9. \A d \in D : d.to < u.from /\ d.to \in Nat
  BY DEF Lists, Apart
<1>10. \A d \in E : d.to <= u.to
  BY <1>2, <1>9
<1>11. Free(B, u.to, m)
  BY <1>2 DEF Free
<1>12. \A d \in E :
         \/ \E r \in DOMAIN chains : \E x \in DOMAIN chains[r] : chains[r][x] = d
         \/ \E x \in DOMAIN more : more[x] = d
  <2> TAKE d \in E
  <2>1. CASE d = u
    BY <1>3, <2>1
  <2>2. CASE d # u
    <3>1. \A x \in 1 .. k : x \in 1 .. j
      BY <1>1, <1>3
    <3>2. QED  BY <1>3, <2>2, <3>1 DEF Lists
  <2>3. QED  BY <2>1, <2>2
<1>13. E \in SUBSET U /\ u \in E
  BY DEF Lists
<1> HIDE DEF E
<1>14. Lists(U, B, E, m, chains, more)
  BY <1>3, <1>7, <1>8, <1>10, <1>11, <1>12, <1>13 DEF Lists
<1>15. QED  BY <1>14 DEF E, more

\* All units are in closed chains, and so every span is a window of one of them.
LEMMA UnitEndsSpan ==
  ASSUME NEW U, Apart(U), NEW B \in SUBSET Nat, NEW R, Closing(U, B, R),
         NEW k \in 1 .. Len(R), NEW v \in U, R[k].from <= v.to, Free(B, R[k].from, v.to)
  PROVE  \E j \in k .. Len(R) : R[j] = v
<1> DEFINE J == {j \in k .. Len(R) : R[j].to <= v.to}
           T == {Len(R) - j : j \in J}
<1>1. R \in Seq(U) /\ Len(R) \in Nat /\ k \in Nat /\ R # <<>> /\ Chain(U, B, R)
  BY DEF Closing, Chain
<1>2. \A x \in 1 .. Len(R) :
        /\ R[x] \in U /\ R[x].from \in Nat /\ R[x].to \in Nat /\ R[x].from <= R[x].to
        /\ R[x] = v \/ R[x].to < v.from \/ v.to < R[x].from
  BY <1>1 DEF Apart
<1>3. v.from \in Nat /\ v.to \in Nat /\ v.from <= v.to
  BY DEF Apart
<1>4. k \in J
  <2>1. k \in k .. Len(R)
    BY <1>1
  <2>2. R[k].to <= v.to
    BY <1>2, <1>3
  <2>3. QED  BY <2>1, <2>2
<1>5. PICK j \in J : j + 1 \notin J
  <2>1. T \in SUBSET Nat /\ T # {}
    BY <1>1, <1>4
  <2>2. PICK t \in T : \A x \in T : t <= x
    <3> HIDE DEF T
    <3> QED  BY <2>1, Smallest
  <2>3. PICK j \in J : t = Len(R) - j
    OBVIOUS
  <2>4. j \in Nat
    BY <1>1
  <2>5. ASSUME j + 1 \in J PROVE FALSE
    <3>1. Len(R) - (j + 1) \in T
      BY <2>5
    <3>2. t <= Len(R) - (j + 1)
      BY <2>2, <3>1
    <3>3. QED  BY <1>1, <2>3, <2>4, <3>2
  <2>6. QED  BY <2>5
<1>6. j \in k .. Len(R) /\ j \in 1 .. Len(R) /\ R[j].to <= v.to /\ j \in Nat
  BY <1>1
<1>7. ~(j + 1 \in k .. Len(R) /\ R[j + 1].to <= v.to)
  BY <1>5
<1> HIDE DEF J
<1>8. CASE R[j] = v
  BY <1>6, <1>8
<1>9. CASE R[j] # v
  <2>1. R[j].to < v.from
    BY <1>2, <1>3, <1>6, <1>9
  <2>2. R[k].from <= R[j].to
    <3>1. k = j \/ k < j
      BY <1>1, <1>6
    <3>2. k < j => R[k].to < R[j].from
      BY <1>1, <1>6, ChainIs DEF ChainPart
    <3>3. QED  BY <1>2, <1>6, <3>1, <3>2
  <2>3. CASE j = Len(R)
    <3>1. PICK b \in B : R[j].to < b /\ b < v.from
      BY <2>1, <2>3 DEF Closing
    <3>2. b \in Nat /\ R[k].from \in Nat /\ R[j].to \in Nat
      BY <1>2, <1>6
    <3>3. R[k].from <= b /\ b <= v.to
      BY <1>3, <2>2, <3>1, <3>2
    <3>4. QED  BY <3>3 DEF Free
  <2>4. CASE j # Len(R)
    <3> DEFINE i == j + 1
    <3>1. i \in k .. Len(R) /\ i \in 1 .. Len(R) /\ j \in 1 .. Len(R) - 1
      BY <1>1, <1>6, <2>4
    <3>2. ~(R[i].to <= v.to) /\ ~(R[j].to < v.from /\ v.from < R[i].from)
      BY <1>1, <1>7, <3>1 DEF Chain
    <3> HIDE DEF i
    <3>3. R[i].from \in Nat /\ R[i].to \in Nat
      BY <1>2, <3>1
    <3>4. R[i] = v \/ R[i].to < v.from \/ v.to < R[i].from
      BY <1>2, <3>1
    <3>5. QED  BY <1>3, <2>1, <3>2, <3>3, <3>4
  <2>5. QED  BY <2>3, <2>4
<1>10. QED  BY <1>8, <1>9

LEMMA WindowOfSpan ==
  ASSUME NEW U, Apart(U), NEW B \in SUBSET Nat, NEW n, NEW chains, Lists(U, B, U, n, chains, <<>>),
         NEW width \in Nat, width >= 1, NEW s \in Spans(U, B, width)
  PROVE  \E r \in DOMAIN chains, k \in Nat :
           /\ k >= 1 /\ k + width - 1 <= Len(chains[r])
           /\ s = Stretch(chains[r], k, width)
<1>1. /\ s \in {u.from : u \in U} \X {u.to : u \in U}
      /\ B \cap (s[1] .. s[2]) = {} /\ Cardinality(Within(U, s[1], s[2])) = width
  BY DEF Spans
<1>2. PICK u \in U, v \in U : s = <<u.from, v.to>>
  BY <1>1
<1>3. u.from \in Nat /\ u.to \in Nat /\ u.from <= u.to /\ v.from \in Nat /\ v.to \in Nat /\ v.from <= v.to
  BY DEF Apart
<1>4. B \cap (u.from .. v.to) = {} /\ Cardinality(Within(U, u.from, v.to)) = width
  BY <1>1, <1>2
<1>5. u.from <= v.to
  <2>1. Within(U, u.from, v.to) # {}
    <3> DEFINE W == Within(U, u.from, v.to)
    <3>1. Cardinality(W) # 0
      BY <1>4
    <3> HIDE DEF W
    <3>2. W # {}
      BY <3>1, FS_EmptySet
    <3>3. QED  BY <3>2 DEF W
  <2>2. PICK x \in U : u.from <= x.from /\ x.to <= v.to
    BY <2>1 DEF Within
  <2>3. x.from \in Nat /\ x.to \in Nat /\ x.from <= x.to
    BY DEF Apart
  <2>4. QED  BY <1>3, <2>2, <2>3
<1>6. PICK r \in DOMAIN chains : \E k \in DOMAIN chains[r] : chains[r][k] = u
  <2>1. DOMAIN <<>> = {}
    OBVIOUS
  <2>2. QED  BY <2>1 DEF Lists
<1> DEFINE R == chains[r]
<1>7. Closing(U, B, R)
  BY DEF Lists
<1> HIDE DEF R
<1>8. R \in Seq(U) /\ Len(R) \in Nat /\ DOMAIN R = 1 .. Len(R) /\ Chain(U, B, R)
  BY <1>7 DEF Closing, Chain
<1>9. PICK k \in 1 .. Len(R) : R[k] = u
  BY <1>6, <1>8 DEF R
<1>10. Free(B, u.from, v.to)
  <2>1. \A b \in B : b \in Nat
    OBVIOUS
  <2>2. QED  BY <1>3, <1>4, <2>1 DEF Free
<1>11. PICK j \in k .. Len(R) : R[j] = v
  BY <1>5, <1>7, <1>9, <1>10, UnitEndsSpan
<1>12. k \in Nat /\ j \in Nat /\ k <= j /\ j <= Len(R) /\ k >= 1
  BY <1>8
<1>13. width = j - k + 1
  <2> DEFINE len == j - k + 1
  <2>1. len \in Nat /\ len >= 1 /\ k + len - 1 = j
    BY <1>12
  <2> HIDE DEF len
  <2>2. Stretch(R, k, len) \in Spans(U, B, len)
    BY <1>8, <1>12, <2>1, SpanOfWindow DEF WindowReads
  <2>3. Stretch(R, k, len) = <<u.from, v.to>>
    BY <1>9, <1>11, <2>1 DEF Stretch
  <2>4. Cardinality(Within(U, u.from, v.to)) = len
    BY <2>2, <2>3 DEF Spans
  <2>5. QED  BY <1>4, <2>4 DEF len
<1>14. k + width - 1 = j /\ width \in Nat
  BY <1>12, <1>13
<1>15. s = Stretch(R, k, width)
  BY <1>2, <1>9, <1>11, <1>14 DEF Stretch
<1>16. QED  BY <1>12, <1>14, <1>15 DEF R

-----------------------------------------------------------------------------
(***************************************************************************)
(* The exact windows.                                                      *)
(***************************************************************************)
\* What is in a sequence that is joined is in one of its parts.
JoinedFrom(parts, n, S, list) ==
  /\ list \in Seq(S)
  /\ \A i \in 1 .. n : \A k \in DOMAIN parts[i] : \E j \in DOMAIN list : list[j] = parts[i][k]
  /\ \A j \in DOMAIN list : \E i \in 1 .. n : \E k \in DOMAIN parts[i] : list[j] = parts[i][k]

LEMMA OneMoreJoined ==
  ASSUME NEW S, NEW parts, NEW n \in Nat, NEW m, m = n + 1, parts[m] \in Seq(S),
         NEW list, JoinedFrom(parts, n, S, list)
  PROVE  JoinedFrom(parts, m, S, list \o parts[m])
<1> DEFINE part == parts[m]
           all == list \o part
           a == Len(list)
           b == Len(part)
<1>1. /\ list \in Seq(S) /\ part \in Seq(S) /\ a \in Nat /\ b \in Nat
      /\ DOMAIN list = 1 .. a /\ DOMAIN part = 1 .. b
  BY DEF JoinedFrom
<1>2. /\ all \in Seq(S) /\ DOMAIN all = 1 .. a + b
      /\ \A j \in 1 .. a : all[j] = list[j]
      /\ \A k \in 1 .. b : all[a + k] = part[k]
  BY <1>1
<1> HIDE DEF all, a, b
<1>3. /\ \A i \in 1 .. m : i \in 1 .. n \/ i = m
      /\ \A i \in 1 .. n : i \in 1 .. m /\ i # m
      /\ m \in 1 .. m
  OBVIOUS
<1>4. /\ \A j \in 1 .. a : j \in 1 .. a + b
      /\ \A k \in 1 .. b : a + k \in 1 .. a + b
      /\ \A j \in 1 .. a + b : j \in 1 .. a \/ \E k \in 1 .. b : j = a + k
  <2>1. \A j \in 1 .. a + b : j \notin 1 .. a => j - a \in 1 .. b /\ j = a + (j - a)
    BY <1>1
  <2>2. QED  BY <1>1, <2>1
<1>5. ASSUME NEW i \in 1 .. m, NEW k \in DOMAIN parts[i] PROVE \E j \in DOMAIN all : all[j] = parts[i][k]
  <2>1. CASE i = m
    BY <1>1, <1>2, <1>4, <2>1 DEF part
  <2>2. CASE i # m
    <3>1. PICK j \in DOMAIN list : list[j] = parts[i][k]
      BY <1>3, <2>2 DEF JoinedFrom
    <3>2. QED  BY <1>1, <1>2, <1>4, <3>1
  <2>3. QED  BY <2>1, <2>2
<1>6. ASSUME NEW j \in DOMAIN all PROVE \E i \in 1 .. m : \E k \in DOMAIN parts[i] : all[j] = parts[i][k]
  <2>1. CASE j \in 1 .. a
    BY <1>1, <1>2, <1>3, <2>1 DEF JoinedFrom
  <2>2. CASE \E k \in 1 .. b : j = a + k
    BY <1>1, <1>2, <1>3, <2>2 DEF part
  <2>3. QED  BY <1>2, <1>4, <2>1, <2>2
<1>7. QED  BY <1>2, <1>5, <1>6 DEF JoinedFrom, all, part

LEMMA JoinedIs ==
  ASSUME NEW S, NEW parts, Len(parts) \in Nat, parts = <<>> <=> Len(parts) = 0,
         \A i \in 1 .. Len(parts) : parts[i] \in Seq(S)
  PROVE  JoinedFrom(parts, Len(parts), S, FlattenSeq(parts))
<1> DEFINE flat == Flat(parts)
           Bad == {n \in 1 .. Len(parts) : ~JoinedFrom(parts, n, S, flat[n])}
<1>1. CASE Len(parts) = 0
  <2>1. FlattenSeq(parts) = <<>>
    BY <1>1 DEF FlattenSeq
  <2>2. <<>> \in Seq(S) /\ DOMAIN <<>> = {} /\ 1 .. 0 = {}
    OBVIOUS
  <2>3. QED  BY <1>1, <2>1, <2>2 DEF JoinedFrom
<1>2. CASE Len(parts) # 0
  <2>1. /\ FlattenSeq(parts) = flat[Len(parts)] /\ flat[1] = parts[1]
        /\ \A n \in 2 .. Len(parts) : flat[n] = flat[n - 1] \o parts[n]
    BY <1>2, JoinsEach
  <2> HIDE DEF flat
  <2>2. Bad = {}
    <3> SUFFICES ASSUME Bad # {} PROVE FALSE
      OBVIOUS
    <3>1. PICK n \in Bad : \A m \in Bad : n <= m
      <4> HIDE DEF Bad
      <4>1. Bad \in SUBSET Nat
        BY DEF Bad
      <4>2. QED  BY <4>1, Smallest
    <3>2. n \in 1 .. Len(parts) /\ parts[n] \in Seq(S) /\ n \in Nat
      OBVIOUS
    <3>3. CASE n = 1
      <4>1. \A i \in 1 .. 1 : i = 1
        OBVIOUS
      <4>2. JoinedFrom(parts, 1, S, parts[1])
        BY <3>2, <3>3, <4>1 DEF JoinedFrom
      <4>3. QED  BY <2>1, <3>3, <4>2
    <3>4. CASE n # 1
      <4> DEFINE k == n - 1
      <4>1. n \in 2 .. Len(parts) /\ k \in 1 .. Len(parts) /\ ~(n <= k) /\ k \in Nat /\ n = k + 1
        BY <3>2, <3>4
      <4>2. JoinedFrom(parts, k, S, flat[k]) /\ flat[n] = flat[k] \o parts[n]
        BY <2>1, <3>1, <4>1
      <4> HIDE DEF k
      <4>3. JoinedFrom(parts, n, S, flat[n])
        BY <3>2, <4>1, <4>2, OneMoreJoined
      <4>4. QED  BY <4>3
    <3>5. QED  BY <3>3, <3>4
  <2>3. Len(parts) \in 1 .. Len(parts)
    BY <1>2
  <2>4. QED  BY <2>1, <2>2, <2>3
<1>3. QED  BY <1>1, <1>2

\* The windows of a width begin where there is room for them, each.
Windows(runs, width, list) ==
  /\ list \in Seq(Window)
  /\ \A j \in DOMAIN list : \E r \in DOMAIN runs, k \in Nat :
       /\ k >= 1 /\ k + width - 1 <= Len(runs[r])
       /\ list[j] = [run |-> r, start |-> k, end |-> k + width - 1]
  /\ \A r \in DOMAIN runs, k \in Nat :
       k >= 1 /\ k + width - 1 <= Len(runs[r]) =>
         \E j \in DOMAIN list : list[j] = [run |-> r, start |-> k, end |-> k + width - 1]

LEMMA FixedWindowsAre ==
  ASSUME NEW S, NEW runs \in Seq(Seq(S)), NEW width \in Nat, width >= 1
  PROVE  Windows(runs, width, FixedWindows(runs, width))
<1> DEFINE win(r, k) == [run |-> r, start |-> k, end |-> k + width - 1]
           list(r) == [k \in 1 .. Len(runs[r]) - width + 1 |-> win(r, k)]
           parts == [r \in DOMAIN runs |-> list(r)]
<1>1. /\ DOMAIN runs = 1 .. Len(runs) /\ Len(runs) \in Nat
      /\ \A r \in DOMAIN runs : Len(runs[r]) \in Nat /\ r \in Nat
  OBVIOUS
<1>2. ASSUME NEW r \in DOMAIN runs
      PROVE  /\ list(r) \in Seq(Window)
             /\ \A k : k \in DOMAIN list(r) <=> k \in Nat /\ k >= 1 /\ k + width - 1 <= Len(runs[r])
             /\ \A k \in DOMAIN list(r) : list(r)[k] = win(r, k)
  <2> DEFINE m == Len(runs[r]) - width + 1
  <2>1. m \in Int
    BY <1>1
  <2>2. \A k \in 1 .. m : win(r, k) \in Window
    BY <1>1 DEF Window
  <2>3. list(r) \in [1 .. m -> Window] /\ DOMAIN list(r) = 1 .. m
    BY <2>2
  <2>4. list(r) \in Seq(Window)
    <3> HIDE DEF list, m
    <3> QED  BY <2>1, <2>3, ListUpTo
  <2>5. \A k : k \in 1 .. m <=> k \in Nat /\ k >= 1 /\ k + width - 1 <= Len(runs[r])
    BY <1>1
  <2>6. \A k \in 1 .. m : list(r)[k] = win(r, k)
    OBVIOUS
  <2> HIDE DEF list, m, win
  <2>7. QED  BY <2>3, <2>4, <2>5, <2>6
<1>3. /\ DOMAIN parts = 1 .. Len(runs) /\ \A r \in 1 .. Len(runs) : parts[r] = list(r)
      /\ Len(parts) = Len(runs) /\ (parts = <<>> <=> Len(runs) = 0)
  <2> HIDE DEF list
  <2> QED  BY <1>1
<1>4. FixedWindows(runs, width) = FlattenSeq(parts)
  BY DEF FixedWindows
<1> HIDE DEF parts, list
<1>5. JoinedFrom(parts, Len(parts), Window, FlattenSeq(parts))
  BY <1>1, <1>2, <1>3, JoinedIs
<1> HIDE DEF win
<1>6. ASSUME NEW j \in DOMAIN FlattenSeq(parts)
      PROVE  \E r \in DOMAIN runs, k \in Nat :
               /\ k >= 1 /\ k + width - 1 <= Len(runs[r])
               /\ FlattenSeq(parts)[j] = win(r, k)
  <2>1. PICK r \in 1 .. Len(parts) : \E k \in DOMAIN parts[r] : FlattenSeq(parts)[j] = parts[r][k]
    BY <1>5 DEF JoinedFrom
  <2>2. r \in DOMAIN runs /\ parts[r] = list(r)
    BY <1>1, <1>3
  <2>3. PICK k \in DOMAIN list(r) : FlattenSeq(parts)[j] = list(r)[k]
    BY <2>1, <2>2
  <2>4. k \in Nat /\ k >= 1 /\ k + width - 1 <= Len(runs[r]) /\ list(r)[k] = win(r, k)
    BY <1>2, <2>2, <2>3
  <2>5. QED  BY <2>2, <2>3, <2>4
<1>7. ASSUME NEW r \in DOMAIN runs, NEW k \in Nat, k >= 1, k + width - 1 <= Len(runs[r])
      PROVE  \E j \in DOMAIN FlattenSeq(parts) : FlattenSeq(parts)[j] = win(r, k)
  <2>1. r \in 1 .. Len(parts) /\ parts[r] = list(r)
    BY <1>1, <1>3
  <2>2. k \in DOMAIN list(r) /\ list(r)[k] = win(r, k)
    BY <1>2, <1>7
  <2>3. k \in DOMAIN parts[r] /\ parts[r][k] = win(r, k)
    BY <2>1, <2>2
  <2>4. \E j \in DOMAIN FlattenSeq(parts) : FlattenSeq(parts)[j] = parts[r][k]
    BY <1>5, <2>1, <2>3 DEF JoinedFrom
  <2>5. QED  BY <2>3, <2>4
<1> DEFINE all == FlattenSeq(parts)
<1>8. all \in Seq(Window)
  BY <1>5 DEF JoinedFrom
<1> HIDE DEF all
<1>9. Windows(runs, width, all)
  BY <1>6, <1>7, <1>8 DEF Windows, win, all
<1>10. QED  BY <1>4, <1>9 DEF all

\* Windows are spans and read as these do; each span is a window.
AreSpans(U, B, width, runs, windows) ==
  /\ DOMAIN windows \in SUBSET Nat
  /\ \A j \in DOMAIN windows :
       /\ RangeOf(runs, windows[j]) \in Spans(U, B, width)
       /\ TextOf(runs, windows[j]) = Read(U, RangeOf(runs, windows[j]))
  /\ \A s \in Spans(U, B, width) : \E j \in DOMAIN windows : RangeOf(runs, windows[j]) = s

LEMMA WindowsAreSpans ==
  ASSUME NEW U, Apart(U), NEW B \in SUBSET Nat, NEW n, NEW runs, Lists(U, B, U, n, runs, <<>>),
         NEW width \in Nat, width >= 1
  PROVE  AreSpans(U, B, width, runs, FixedWindows(runs, width))
<1> DEFINE list == FixedWindows(runs, width)
<1>1. runs \in Seq(Seq(U))
  BY DEF Lists
<1>2. Windows(runs, width, list)
  BY <1>1, FixedWindowsAre
<1> HIDE DEF list
<1>3. ASSUME NEW r \in DOMAIN runs, NEW k \in Nat, k >= 1, k + width - 1 <= Len(runs[r]),
             NEW w, w = [run |-> r, start |-> k, end |-> k + width - 1]
      PROVE  /\ RangeOf(runs, w) = Stretch(runs[r], k, width)
             /\ RangeOf(runs, w) \in Spans(U, B, width)
             /\ TextOf(runs, w) = Read(U, RangeOf(runs, w))
  <2>1. w.run = r /\ w.start = k /\ w.end = k + width - 1
    BY <1>3
  <2>2. RangeOf(runs, w) = Stretch(runs[r], k, width)
    BY <2>1 DEF RangeOf, Stretch
  <2>3. Chain(U, B, runs[r])
    BY DEF Lists, Closing
  <2>4. /\ Stretch(runs[r], k, width) \in Spans(U, B, width)
        /\ Read(U, Stretch(runs[r], k, width)) = [i \in 1 .. width |-> runs[r][k + i - 1].t]
    <3>1. WindowReads(U, B, runs[r], k, width)
      BY <1>3, <2>3, SpanOfWindow
    <3>2. QED  BY <3>1 DEF WindowReads
  <2>5. w.end - w.start + 1 = width
    BY <2>1
  <2>6. TextOf(runs, w) = [i \in 1 .. width |-> runs[r][k + i - 1].t]
    BY <2>1, <2>5 DEF TextOf
  <2>7. QED  BY <2>2, <2>4, <2>6
<1>4. ASSUME NEW j \in DOMAIN list
      PROVE  /\ RangeOf(runs, list[j]) \in Spans(U, B, width)
             /\ TextOf(runs, list[j]) = Read(U, RangeOf(runs, list[j]))
  <2>1. PICK r \in DOMAIN runs, k \in Nat :
          /\ k >= 1 /\ k + width - 1 <= Len(runs[r])
          /\ list[j] = [run |-> r, start |-> k, end |-> k + width - 1]
    BY <1>2 DEF Windows
  <2>2. QED  BY <1>3, <2>1
<1>5. ASSUME NEW s \in Spans(U, B, width) PROVE \E j \in DOMAIN list : RangeOf(runs, list[j]) = s
  <2>1. PICK r \in DOMAIN runs, k \in Nat :
          /\ k >= 1 /\ k + width - 1 <= Len(runs[r])
          /\ s = Stretch(runs[r], k, width)
    BY WindowOfSpan
  <2>2. PICK j \in DOMAIN list : list[j] = [run |-> r, start |-> k, end |-> k + width - 1]
    BY <1>2, <2>1 DEF Windows
  <2>3. RangeOf(runs, list[j]) = Stretch(runs[r], k, width)
    BY <1>3, <2>1, <2>2
  <2>4. QED  BY <2>1, <2>3
<1>6. DOMAIN list \in SUBSET Nat
  BY <1>2 DEF Windows
<1>7. QED  BY <1>4, <1>5, <1>6 DEF AreSpans, list

\* Copies of a rule: spans that read the same, and are not exempt.
SpanCopies(U, B, V, C, width, source) ==
  {p \in Spans(U, B, width) \X Spans(V, C, width) :
     Read(U, p[1]) = Read(V, p[2]) /\ ~Exempt(source, p[2])}

ExactIs(result, copies, k, rule) ==
  /\ copies = {} => result = {}
  /\ copies # {} =>
       \E f : /\ result = {f} /\ f.source = k /\ f.rule = rule
              /\ <<f.manuscript, f.range>> \in copies

LEMMA ExactWitnessIs ==
  ASSUME NEW U, NEW B, NEW V, NEW C, NEW width, NEW mruns, NEW sruns, NEW k, NEW rule,
         AreSpans(U, B, width, mruns, FixedWindows(mruns, width)),
         AreSpans(V, C, width, sruns, FixedWindows(sruns, width))
  PROVE  ExactIs(ExactWitness(mruns, sruns, k, width, rule),
                 SpanCopies(U, B, V, C, width, case.canon[k]), k, rule)
<1> DEFINE source == case.canon[k]
           mine == FixedWindows(mruns, width)
           theirs == FixedWindows(sruns, width)
           Same(a, b) == /\ ~Exempt(source, RangeOf(sruns, theirs[b]))
                         /\ TextOf(mruns, mine[a]) = TextOf(sruns, theirs[b])
           hits == {a \in DOMAIN mine : \E b \in DOMAIN theirs : Same(a, b)}
           copies == SpanCopies(U, B, V, C, width, source)
           result == ExactWitness(mruns, sruns, k, width, rule)
           a == Min(hits)
           first == {x \in DOMAIN theirs : Same(a, x)}
           b == Min(first)
           f == Finding(k, RangeOf(mruns, mine[a]), RangeOf(sruns, theirs[b]), rule, 100)
<1>1. result = IF hits = {} THEN {} ELSE {f}
  BY DEF ExactWitness
<1>2. AreSpans(U, B, width, mruns, mine) /\ AreSpans(V, C, width, sruns, theirs)
  OBVIOUS
<1> HIDE DEF source, mine, theirs
<1>3. ASSUME NEW x \in DOMAIN mine, NEW y \in DOMAIN theirs
      PROVE  Same(x, y) <=> <<RangeOf(mruns, mine[x]), RangeOf(sruns, theirs[y])>> \in copies
  <2> DEFINE p == <<RangeOf(mruns, mine[x]), RangeOf(sruns, theirs[y])>>
  <2>1. p[1] = RangeOf(mruns, mine[x]) /\ p[2] = RangeOf(sruns, theirs[y])
    OBVIOUS
  <2>2. p \in Spans(U, B, width) \X Spans(V, C, width)
    BY <1>2 DEF AreSpans
  <2>3. TextOf(mruns, mine[x]) = Read(U, p[1]) /\ TextOf(sruns, theirs[y]) = Read(V, p[2])
    BY <1>2, <2>1 DEF AreSpans
  <2> HIDE DEF p
  <2>4. p \in copies <=> ~Exempt(source, p[2]) /\ Read(U, p[1]) = Read(V, p[2])
    BY <2>2 DEF SpanCopies
  <2>5. QED  BY <2>1, <2>3, <2>4 DEF p
<1>4. ASSUME NEW p \in copies
      PROVE  \E x \in DOMAIN mine, y \in DOMAIN theirs :
               p = <<RangeOf(mruns, mine[x]), RangeOf(sruns, theirs[y])>>
  <2>1. PICK s \in Spans(U, B, width), t \in Spans(V, C, width) : p = <<s, t>>
    BY DEF SpanCopies
  <2>2. PICK x \in DOMAIN mine : RangeOf(mruns, mine[x]) = s
    BY <1>2 DEF AreSpans
  <2>3. PICK y \in DOMAIN theirs : RangeOf(sruns, theirs[y]) = t
    BY <1>2 DEF AreSpans
  <2>4. QED  BY <2>1, <2>2, <2>3
<1> HIDE DEF Same
<1>5. hits = {} <=> copies = {}
  <2> HIDE DEF copies
  <2>1. ASSUME NEW x \in hits PROVE copies # {}
    BY <1>3
  <2>2. ASSUME NEW p \in copies PROVE hits # {}
    <3>1. PICK x \in DOMAIN mine, y \in DOMAIN theirs :
            p = <<RangeOf(mruns, mine[x]), RangeOf(sruns, theirs[y])>>
      BY <1>4
    <3>2. Same(x, y)
      BY <1>3, <3>1
    <3>3. x \in hits
      BY <3>2
    <3>4. QED  BY <3>3
  <2> HIDE DEF hits
  <2>3. QED  BY <2>1, <2>2
<1>6. CASE hits = {}
  <2>1. result = {} /\ copies = {}
    BY <1>1, <1>5, <1>6
  <2> HIDE DEF result, copies
  <2>2. ExactIs(result, copies, k, rule)
    BY <2>1 DEF ExactIs
  <2>3. QED  BY <2>2 DEF result, copies, source
<1>7. CASE hits # {}
  <2>1. hits \in SUBSET Nat
    BY <1>2 DEF AreSpans
  <2> HIDE DEF first
  <2>2. a \in hits
    <3> HIDE DEF hits
    <3> QED  BY <1>7, <2>1, LeastNumber
  <2> HIDE DEF a
  <2>3. a \in DOMAIN mine /\ \E y \in DOMAIN theirs : Same(a, y)
    BY <2>2
  <2>4. first \in SUBSET Nat /\ first # {}
    BY <1>2, <2>3 DEF first, AreSpans
  <2>5. b \in first
    BY <2>4, LeastNumber
  <2> HIDE DEF b
  <2>6. b \in DOMAIN theirs /\ Same(a, b)
    BY <2>5 DEF first
  <2>7. <<RangeOf(mruns, mine[a]), RangeOf(sruns, theirs[b])>> \in copies
    BY <1>3, <2>3, <2>6
  <2>8. /\ f.source = k /\ f.rule = rule /\ f.manuscript = RangeOf(mruns, mine[a])
        /\ f.range = RangeOf(sruns, theirs[b])
    BY DEF Finding
  <2>9. result = {f} /\ copies # {}
    BY <1>1, <1>5, <1>7 DEF a, b, first
  <2> HIDE DEF f, copies, result
  <2>10. ExactIs(result, copies, k, rule)
    BY <2>7, <2>8, <2>9 DEF ExactIs
  <2>11. QED  BY <2>10 DEF result, copies, source
<1>8. QED  BY <1>6, <1>7 DEF result, copies, source

-----------------------------------------------------------------------------
(***************************************************************************)
(* What reading a grapheme does to the lists of CJK graphemes and words.   *)
(***************************************************************************)
SameCjk(r, e) == e.cjk = r.cjk /\ e.cjk_runs = r.cjk_runs

SameWords(r, e) == e.word = r.word /\ e.words = r.words /\ e.word_runs = r.word_runs

\* A word begins, or has another letter.
WordGoesOn(r, e, c, i) ==
  /\ e.words = r.words /\ e.word_runs = r.word_runs
  /\ e.word = IF r.word = <<>> THEN <<[t |-> <<c>>, from |-> i, to |-> i]>>
              ELSE <<[r.word[1] EXCEPT !.t = Append(@, c), !.to = i]>>

LEMMA PartsOfGrapheme ==
  ASSUME NEW r, DOMAIN r = Fields, NEW c, NEW i
  PROVE  /\ DOMAIN EndWord(r) = Fields /\ SameCjk(r, EndWord(r)) /\ EndWord(r).word = <<>>
         /\ EndWord(r).words = r.words \o r.word /\ EndWord(r).word_runs = r.word_runs
         /\ DOMAIN EndCjk(r) = Fields /\ SameWords(r, EndCjk(r)) /\ EndCjk(r).cjk = <<>>
         /\ EndCjk(r).cjk_runs = Pushed(r.cjk_runs, r.cjk, r.cjk)
         /\ DOMAIN InWord(r, c, i) = Fields /\ SameCjk(r, InWord(r, c, i))
         /\ WordGoesOn(r, InWord(r, c, i), c, i)
<1>1. /\ DOMAIN EndWord(r) = Fields /\ SameCjk(r, EndWord(r)) /\ EndWord(r).word = <<>>
      /\ EndWord(r).words = r.words \o r.word /\ EndWord(r).word_runs = r.word_runs
  BY DEF EndWord, SameCjk, Fields
<1>2. /\ DOMAIN EndCjk(r) = Fields /\ SameWords(r, EndCjk(r)) /\ EndCjk(r).cjk = <<>>
      /\ EndCjk(r).cjk_runs = Pushed(r.cjk_runs, r.cjk, r.cjk)
  BY DEF EndCjk, SameWords, Fields
<1>3. /\ DOMAIN InWord(r, c, i) = Fields /\ SameCjk(r, InWord(r, c, i))
      /\ WordGoesOn(r, InWord(r, c, i), c, i)
  <2>1. CASE r.word = <<>>
    BY <2>1 DEF InWord, SameCjk, Fields, WordGoesOn
  <2>2. CASE r.word # <<>>
    BY <2>2 DEF InWord, SameCjk, Fields, WordGoesOn
  <2>3. QED  BY <2>1, <2>2
<1>4. QED  BY <1>1, <1>2, <1>3

LEMMA WordRunEnds ==
  ASSUME NEW r, DOMAIN r = Fields
  PROVE  LET e == EndWordRun(r)
             w == r.words \o r.word
         IN  /\ DOMAIN e = Fields /\ SameCjk(r, e)
             /\ e.word = <<>> /\ e.words = <<>> /\ e.word_runs = Pushed(r.word_runs, w, w)
<1> DEFINE f == EndWord(r)
<1>1. /\ DOMAIN f = Fields /\ SameCjk(r, f) /\ f.word = <<>>
      /\ f.words = r.words \o r.word /\ f.word_runs = r.word_runs
  BY PartsOfGrapheme
<1> HIDE DEF f
<1> DEFINE e == [f EXCEPT !.word_runs = Pushed(@, f.words, f.words), !.words = <<>>,
                         !.char_runs = Pushed(@, f.chars, [tokens |-> f.chars, starts |-> f.starts]),
                         !.chars = <<>>, !.starts = <<>>]
<1>2. /\ DOMAIN e = Fields /\ SameCjk(f, e) /\ e.word = f.word /\ e.words = <<>>
      /\ e.word_runs = Pushed(f.word_runs, f.words, f.words)
  BY <1>1 DEF SameCjk, Fields
<1>3. EndWordRun(r) = e
  BY DEF EndWordRun, f
<1> HIDE DEF e
<1>4. QED  BY <1>1, <1>2, <1>3 DEF SameCjk

CjkEffect(r, e, c, i) ==
  /\ c = Blank => SameCjk(r, e)
  /\ c \in Cjk => e.cjk = Append(r.cjk, Token(c, i)) /\ e.cjk_runs = r.cjk_runs
  /\ c \in Letter \cup Symbol => e.cjk = <<>> /\ e.cjk_runs = Pushed(r.cjk_runs, r.cjk, r.cjk)

WordEffect(r, e, c, i) ==
  LET w == r.words \o r.word
  IN  /\ c = Blank /\ r.word = <<>> => SameWords(r, e)
      /\ c = Blank /\ r.word # <<>> => e.word = <<>> /\ e.words = w /\ e.word_runs = r.word_runs
      /\ c \in Cjk => e.word = <<>> /\ e.words = <<>> /\ e.word_runs = Pushed(r.word_runs, w, w)
      /\ c \in Letter => WordGoesOn(r, e, c, i)
      /\ c \in Symbol => SameWords(r, e)

LEMMA GraphemeIs ==
  ASSUME NEW r, DOMAIN r = Fields, NEW c \in Cjk \cup Letter \cup Symbol \cup {Blank}, NEW i
  PROVE  LET e == Grapheme(r, c, i)
         IN  DOMAIN e = Fields /\ CjkEffect(r, e, c, i) /\ WordEffect(r, e, c, i)
<1> DEFINE token == Token(c, i)
           seen == [r EXCEPT !.all = Append(@, token)]
           ended == EndCjk(seen)
           other == [ended EXCEPT !.chars = Append(@, token)]
           blank == IF r.word = <<>> THEN r ELSE [EndWord(r) EXCEPT !.chars = Append(@, Token(Blank, i))]
           cjk == [EndWordRun(seen) EXCEPT !.cjk = Append(@, token)]
           letter == [InWord(ended, c, i) EXCEPT !.chars = other.chars]
<1>1. /\ c = Blank => c \notin Cjk \cup Letter \cup Symbol
      /\ c \in Cjk => c \notin Letter \cup Symbol
      /\ c \in Letter => c \notin Symbol
  BY CopyAssumption
<1>2. /\ c = Blank => Grapheme(r, c, i) = blank
      /\ c \in Cjk => Grapheme(r, c, i) = cjk
      /\ c \in Letter => Grapheme(r, c, i) = letter
      /\ c \in Symbol => Grapheme(r, c, i) = other
  <2> DEFINE g == CASE c = Blank -> blank [] c \in Cjk -> cjk [] c \in Letter -> letter [] c \in Symbol -> other
  <2>1. Grapheme(r, c, i) = g
    BY DEF Grapheme
  <2> HIDE DEF blank, cjk, letter, other
  <2>2. /\ c = Blank => g = blank
        /\ c \in Cjk => g = cjk
        /\ c \in Letter => g = letter
        /\ c \in Symbol => g = other
    BY <1>1
  <2>3. QED  BY <2>1, <2>2
<1>3. DOMAIN seen = Fields /\ SameCjk(r, seen) /\ SameWords(r, seen)
  BY DEF Fields, SameCjk, SameWords
<1> HIDE DEF seen
<1>4. /\ DOMAIN ended = Fields /\ SameWords(seen, ended) /\ ended.cjk = <<>>
      /\ ended.cjk_runs = Pushed(seen.cjk_runs, seen.cjk, seen.cjk)
  BY <1>3, PartsOfGrapheme
<1> HIDE DEF ended
<1>5. CASE c = Blank
  <2>1. CASE r.word = <<>>
    <3>1. Grapheme(r, c, i) = r
      BY <1>2, <1>5, <2>1
    <3>2. QED  BY <1>1, <1>5, <2>1, <3>1 DEF CjkEffect, WordEffect, SameCjk, SameWords
  <2>2. CASE r.word # <<>>
    <3> DEFINE f == EndWord(r)
               e == [f EXCEPT !.chars = Append(@, Token(Blank, i))]
    <3>1. /\ DOMAIN f = Fields /\ SameCjk(r, f) /\ f.word = <<>>
          /\ f.words = r.words \o r.word /\ f.word_runs = r.word_runs
      BY PartsOfGrapheme
    <3>2. Grapheme(r, c, i) = e
      BY <1>2, <1>5, <2>2
    <3> HIDE DEF f
    <3>3. DOMAIN e = Fields /\ SameCjk(f, e) /\ SameWords(f, e)
      BY <3>1 DEF Fields, SameCjk, SameWords
    <3> HIDE DEF e
    <3>4. QED  BY <1>1, <1>5, <2>2, <3>1, <3>2, <3>3 DEF CjkEffect, WordEffect, SameCjk, SameWords
  <2>3. QED  BY <2>1, <2>2
<1>6. CASE c \in Cjk
  <2> DEFINE f == EndWordRun(seen)
             w == r.words \o r.word
             e == [f EXCEPT !.cjk = Append(@, token)]
  <2>1. /\ DOMAIN f = Fields /\ SameCjk(r, f)
        /\ f.word = <<>> /\ f.words = <<>> /\ f.word_runs = Pushed(r.word_runs, w, w)
    BY <1>3, WordRunEnds DEF SameCjk, SameWords
  <2>2. Grapheme(r, c, i) = e
    BY <1>2, <1>6
  <2> HIDE DEF f
  <2>3. /\ DOMAIN e = Fields /\ SameWords(f, e)
        /\ e.cjk = Append(f.cjk, token) /\ e.cjk_runs = f.cjk_runs
    BY <2>1 DEF Fields, SameWords
  <2> HIDE DEF e
  <2>4. QED  BY <1>1, <1>6, <2>1, <2>2, <2>3 DEF CjkEffect, WordEffect, SameCjk, SameWords
<1>7. CASE c \in Letter
  <2> DEFINE f == InWord(ended, c, i)
             e == [f EXCEPT !.chars = other.chars]
  <2>1. /\ DOMAIN f = Fields /\ SameCjk(ended, f)
        /\ WordGoesOn(ended, f, c, i)
    BY <1>4, PartsOfGrapheme
  <2>2. Grapheme(r, c, i) = e
    BY <1>2, <1>7
  <2> HIDE DEF f, other
  <2>3. DOMAIN e = Fields /\ SameWords(f, e) /\ SameCjk(f, e)
    BY <2>1 DEF Fields, SameWords, SameCjk
  <2> HIDE DEF e
  <2>4. CjkEffect(r, e, c, i)
    BY <1>1, <1>3, <1>4, <1>7, <2>1, <2>3 DEF CjkEffect, SameCjk
  <2>5. WordEffect(r, e, c, i)
    BY <1>1, <1>3, <1>4, <1>7, <2>1, <2>3 DEF WordEffect, SameWords, WordGoesOn
  <2>6. QED  BY <2>2, <2>3, <2>4, <2>5
<1>8. CASE c \in Symbol
  <2>1. Grapheme(r, c, i) = other
    BY <1>2, <1>8
  <2>2. DOMAIN other = Fields /\ SameWords(ended, other) /\ SameCjk(ended, other)
    BY <1>4 DEF Fields, SameWords, SameCjk
  <2> HIDE DEF other
  <2>3. QED  BY <1>1, <1>3, <1>4, <1>8, <2>1, <2>2 DEF CjkEffect, WordEffect, SameCjk, SameWords
<1>9. QED  BY <1>5, <1>6, <1>7, <1>8

UnitsTo(U, n) == {u \in U : u.from <= n}

(* CJK graphemes. *)
CjkBreaks(text) == {i \in DOMAIN text : text[i] \notin Cjk \cup {Blank}}

ReadsCjk(text, n, r) ==
  Lists(CjkUnits(text), CjkBreaks(text), UnitsTo(CjkUnits(text), n), n, r.cjk_runs, r.cjk)

LEMMA CjkUnitIs ==
  ASSUME NEW text \in Text
  PROVE  /\ DOMAIN text \in SUBSET Nat /\ DOMAIN text = 1 .. Len(text) /\ Len(text) \in Nat
         /\ \A i \in DOMAIN text : text[i] \in Cjk \cup Letter \cup Symbol \cup {Blank}
         /\ \A u \in CjkUnits(text) : \E i \in DOMAIN text :
              text[i] \in Cjk /\ u = Token(text[i], i) /\ u.from = i /\ u.to = i
         /\ \A i \in DOMAIN text : text[i] \in Cjk => Token(text[i], i) \in CjkUnits(text)
         /\ Apart(CjkUnits(text)) /\ CjkBreaks(text) \in SUBSET Nat
<1>1. /\ DOMAIN text \in SUBSET Nat /\ DOMAIN text = 1 .. Len(text) /\ Len(text) \in Nat
      /\ \A i \in DOMAIN text : text[i] \in Cjk \cup Letter \cup Symbol \cup {Blank}
  BY DEF Text
<1>2. \A x, i : Token(x, i).from = i /\ Token(x, i).to = i
  BY DEF Token
<1>3. \A u \in CjkUnits(text) : \E i \in DOMAIN text : text[i] \in Cjk /\ u = Token(text[i], i)
  BY DEF CjkUnits, Tokens
<1>4. \A i \in DOMAIN text : text[i] \in Cjk => Token(text[i], i) \in CjkUnits(text)
  BY DEF CjkUnits, Tokens
<1>5. \A u \in CjkUnits(text) : u.from \in Nat /\ u.to = u.from /\ u = Token(text[u.from], u.from)
  BY <1>1, <1>2, <1>3
<1>6. Apart(CjkUnits(text))
  <2>1. \A u, v \in CjkUnits(text) : u = v \/ u.to < v.from \/ v.to < u.from
    <3> TAKE u, v \in CjkUnits(text)
    <3>1. u.from = v.from \/ u.from < v.from \/ v.from < u.from
      BY <1>5
    <3>2. QED  BY <1>5, <3>1
  <2>2. QED  BY <1>5, <2>1 DEF Apart
<1>7. CjkBreaks(text) \in SUBSET Nat
  BY <1>1 DEF CjkBreaks
<1>8. QED  BY <1>1, <1>2, <1>3, <1>4, <1>6, <1>7

LEMMA CjkReadOn ==
  ASSUME NEW text \in Text, NEW n \in Nat, NEW m, m = n + 1, m \in DOMAIN text,
         NEW r, NEW e, ReadsCjk(text, n, r), CjkEffect(r, e, text[m], m)
  PROVE  ReadsCjk(text, m, e)
<1> DEFINE U == CjkUnits(text)
           B == CjkBreaks(text)
           D == UnitsTo(U, n)
           u == Token(text[m], m)
<1>1. /\ DOMAIN text \in SUBSET Nat
      /\ \A i \in DOMAIN text : text[i] \in Cjk \cup Letter \cup Symbol \cup {Blank}
      /\ \A v \in U : \E i \in DOMAIN text : text[i] \in Cjk /\ v = Token(text[i], i) /\ v.from = i /\ v.to = i
      /\ \A i \in DOMAIN text : text[i] \in Cjk => Token(text[i], i) \in U
      /\ Apart(U) /\ B \in SUBSET Nat
  BY CjkUnitIs
<1>2. \A b \in B : b \in Nat /\ (n < b /\ b <= m => b = m)
  <2> HIDE DEF B
  <2> QED  BY <1>1
<1>3. m \in B <=> text[m] \notin Cjk \cup {Blank}
  BY DEF CjkBreaks
<1>4. \A v \in U : v.from \in Nat /\ (v.from <= m <=> v.from <= n \/ v.from = m)
  <2> HIDE DEF U
  <2> QED  BY <1>1
<1>5. \A v \in U : v.from = m => text[m] \in Cjk /\ v = u
  <2> HIDE DEF U
  <2> QED  BY <1>1
<1>6. Lists(U, B, D, n, r.cjk_runs, r.cjk)
  BY DEF ReadsCjk
<1>7. m \in Nat /\ n <= m /\ n < m
  OBVIOUS
<1> HIDE DEF B, u
<1>8. ASSUME text[m] \notin Cjk PROVE UnitsTo(U, m) = D
  <2> HIDE DEF U
  <2> QED  BY <1>4, <1>5, <1>8 DEF UnitsTo
<1>9. CASE text[m] = Blank
  <2>1. text[m] \notin Cjk /\ m \notin B
    BY <1>3, <1>9, CopyAssumption
  <2>2. SameCjk(r, e)
    BY <1>9 DEF CjkEffect
  <2> HIDE DEF D, U
  <2>3. Lists(U, B, D, m, r.cjk_runs, r.cjk)
    BY <1>1, <1>2, <1>6, <1>7, <2>1, ReadOn
  <2>4. QED  BY <1>8, <2>1, <2>2, <2>3 DEF ReadsCjk, SameCjk, B, U
<1>10. CASE text[m] \in Cjk
  <2>1. u \in U /\ u.from = m /\ u.to = m
    BY <1>1, <1>10 DEF u, Token
  <2>2. u \notin D
    BY <1>7, <2>1 DEF UnitsTo
  <2>3. \A v \in U \ D : v = u \/ u.to < v.from
    <3> TAKE v \in U \ D
    <3>1. v.from \in Nat /\ ~(v.from <= n)
      BY <1>4 DEF UnitsTo
    <3>2. v.from = m \/ m < v.from
      BY <1>7, <3>1
    <3>3. QED  BY <1>5, <2>1, <3>2
  <2>4. m \notin B
    BY <1>3, <1>10
  <2>5. Free(B, u.from, m)
    BY <1>2, <1>7, <2>1, <2>4 DEF Free
  <2>6. UnitsTo(U, m) = D \cup {u}
    <3> HIDE DEF U
    <3> QED  BY <1>4, <1>5, <1>7, <2>1 DEF UnitsTo
  <2>7. e.cjk = Append(r.cjk, u) /\ e.cjk_runs = r.cjk_runs
    BY <1>10 DEF CjkEffect, u
  <2> HIDE DEF D, U
  <2>8. \A b \in B : ~(n < b /\ b <= m)
    BY <1>2, <2>4
  <2>9. u.to <= m
    BY <1>7, <2>1
  <2>10. Lists(U, B, D \cup {u}, m, r.cjk_runs, Append(r.cjk, u))
    BY <1>1, <1>6, <1>7, <2>1, <2>2, <2>3, <2>5, <2>8, <2>9, UnitAdded
  <2>11. QED  BY <2>6, <2>7, <2>10 DEF ReadsCjk, U, B
<1>11. CASE text[m] \in Letter \cup Symbol
  <2>1. text[m] \notin Cjk /\ m \in B
    BY <1>3, <1>11, CopyAssumption
  <2>2. e.cjk = <<>> /\ e.cjk_runs = Pushed(r.cjk_runs, r.cjk, r.cjk)
    BY <1>11 DEF CjkEffect
  <2>3. \A v \in U \ D : \E b \in B : n < b /\ b < v.from
    <3> TAKE v \in U \ D
    <3>1. v.from \in Nat /\ ~(v.from <= n) /\ v.from # m
      BY <1>4, <1>5, <2>1 DEF UnitsTo
    <3>2. n < m /\ m < v.from
      BY <1>7, <3>1
    <3>3. QED  BY <2>1, <3>2
  <2> HIDE DEF D, U
  <2>4. Lists(U, B, D, m, Pushed(r.cjk_runs, r.cjk, r.cjk), <<>>)
    BY <1>1, <1>6, <1>7, <2>3, ListClosed
  <2>5. QED  BY <1>8, <2>1, <2>2, <2>4 DEF ReadsCjk, U, B
<1>12. QED  BY <1>1, <1>9, <1>10, <1>11

(* Words. *)
WordBreaks(text) == {i \in DOMAIN text : text[i] \in Cjk}

Spells(text, a, b, t) ==
  \E L \in Seq(TokenOf) :
    /\ Ascends(L, Len(L)) /\ t = [k \in 1 .. Len(L) |-> L[k].t]
    /\ Tokens(text, a .. b, Letter) = {L[k] : k \in 1 .. Len(L)}
    /\ \A k \in 1 .. Len(L) : L[k].from <= b

WordToken == [t : Seq(Letter), from : Nat, to : Nat]

InProgress(text, n, w) ==
  /\ w \in WordToken
  /\ 1 <= w.from /\ w.from <= w.to /\ w.to <= n
  /\ Joined(text, w.from, n) /\ text[w.from] \in Letter /\ text[w.to] \in Letter
  /\ \A i \in w.to + 1 .. n : text[i] \notin Letter
  /\ \A i \in DOMAIN text : text[i] \in Letter /\ i < w.from => ~Joined(text, i, w.from)
  /\ Spells(text, w.from, w.to, w.t)

OtherUnitsTo(U, n, a) == {u \in U : u.from <= n /\ u.from # a}

NoWordAt(text, n) == \A i \in 1 .. n : text[i] \in Letter => ~Joined(text, i, n)

ReadsWords(text, n, r) ==
  LET U == WordUnits(text)
      B == WordBreaks(text)
  IN  \/ /\ r.word = <<>> /\ NoWordAt(text, n)
         /\ Lists(U, B, UnitsTo(U, n), n, r.word_runs, r.words)
      \/ \E w : /\ r.word = <<w>> /\ InProgress(text, n, w)
                /\ Lists(U, B, OtherUnitsTo(U, n, w.from), n, r.word_runs, r.words)

LEMMA WordsDoNotMeet ==
  ASSUME NEW text \in Text, NEW a \in DOMAIN text, NEW b \in DOMAIN text, WordSpan(text, a, b),
         NEW c \in DOMAIN text, NEW d \in DOMAIN text, WordSpan(text, c, d), a <= c
  PROVE  (a = c /\ b = d) \/ b < c
<1>1. a \in Nat /\ b \in Nat /\ c \in Nat /\ d \in Nat /\ a <= b /\ c <= d
  BY CjkUnitIs DEF WordSpan
<1>2. SUFFICES ASSUME c <= b PROVE a = c /\ b = d
  BY <1>1
<1>3. a = c
  <2> SUFFICES ASSUME a < c PROVE FALSE
    BY <1>1
  <2>1. \A i \in a .. c : i \in a .. b
    BY <1>1, <1>2
  <2>2. Joined(text, a, c) /\ text[a] \in Letter
    BY <2>1 DEF WordSpan, Joined
  <2>3. QED  BY <2>2 DEF WordSpan
<1>4. \A x, y \in DOMAIN text : WordSpan(text, a, x) /\ WordSpan(text, a, y) => ~(x < y)
  <2> SUFFICES ASSUME NEW x \in DOMAIN text, NEW y \in DOMAIN text, WordSpan(text, a, x),
                      WordSpan(text, a, y), x < y
               PROVE  FALSE
    OBVIOUS
  <2>1. x \in Nat /\ y \in Nat /\ a <= x
    BY CjkUnitIs DEF WordSpan
  <2>2. \A i \in x .. y : i \in a .. y
    BY <1>1, <2>1
  <2>3. Joined(text, x, y) /\ text[y] \in Letter
    BY <2>2 DEF WordSpan, Joined
  <2>4. QED  BY <2>3 DEF WordSpan
<1>5. QED  BY <1>1, <1>3, <1>4

LEMMA WordUnitIs ==
  ASSUME NEW text \in Text
  PROVE  /\ \A u \in WordUnits(text) : \E a, b \in DOMAIN text :
              WordSpan(text, a, b) /\ u = Word(text, a, b) /\ u.from = a /\ u.to = b
         /\ \A a, b \in DOMAIN text : WordSpan(text, a, b) => Word(text, a, b) \in WordUnits(text)
         /\ Apart(WordUnits(text)) /\ WordBreaks(text) \in SUBSET Nat
<1>1. DOMAIN text \in SUBSET Nat
  BY CjkUnitIs
<1>2. \A a, b : Word(text, a, b).from = a /\ Word(text, a, b).to = b
  BY DEF Word
<1>3. \A u \in WordUnits(text) : \E a, b \in DOMAIN text :
        WordSpan(text, a, b) /\ u = Word(text, a, b) /\ u.from = a /\ u.to = b
  <2> TAKE u \in WordUnits(text)
  <2>1. PICK x \in (DOMAIN text) \X (DOMAIN text) : WordSpan(text, x[1], x[2]) /\ u = Word(text, x[1], x[2])
    BY DEF WordUnits
  <2>2. QED  BY <1>2, <2>1
<1>4. ASSUME NEW a \in DOMAIN text, NEW b \in DOMAIN text, WordSpan(text, a, b)
      PROVE  Word(text, a, b) \in WordUnits(text)
  <2> DEFINE s == <<a, b>>
  <2>1. s \in {x \in (DOMAIN text) \X (DOMAIN text) : WordSpan(text, x[1], x[2])} /\ s[1] = a /\ s[2] = b
    BY <1>4
  <2> HIDE DEF s
  <2>2. QED  BY <2>1 DEF WordUnits
<1>5. \A u, v \in WordUnits(text) : u.from <= v.from => u = v \/ u.to < v.from
  <2> TAKE u, v \in WordUnits(text)
  <2>1. PICK a \in DOMAIN text, b \in DOMAIN text :
          WordSpan(text, a, b) /\ u = Word(text, a, b) /\ u.from = a /\ u.to = b
    BY <1>3
  <2>2. PICK c \in DOMAIN text, d \in DOMAIN text :
          WordSpan(text, c, d) /\ v = Word(text, c, d) /\ v.from = c /\ v.to = d
    BY <1>3
  <2> HAVE u.from <= v.from
  <2>3. (a = c /\ b = d) \/ b < c
    BY <2>1, <2>2, WordsDoNotMeet
  <2>4. QED  BY <2>1, <2>2, <2>3
<1>6. \A u \in WordUnits(text) : u.from \in Nat /\ u.to \in Nat /\ u.from <= u.to
  BY <1>1, <1>3 DEF WordSpan
<1>7. Apart(WordUnits(text))
  <2>1. \A u, v \in WordUnits(text) : u.from <= v.from \/ v.from <= u.from
    BY <1>6
  <2>2. QED  BY <1>5, <1>6, <2>1 DEF Apart
<1>8. WordBreaks(text) \in SUBSET Nat
  BY <1>1 DEF WordBreaks
<1>9. QED  BY <1>3, <1>4, <1>7, <1>8

LEMMA WordEnds ==
  ASSUME NEW text \in Text, NEW n \in Nat, n <= Len(text),
         NEW m, m = n + 1, m \in DOMAIN text => text[m] \notin Letter \cup Symbol,
         NEW w, InProgress(text, n, w)
  PROVE  w \in WordUnits(text)
<1> DEFINE a == w.from
           b == w.to
           S == Tokens(text, a .. b, Letter)
<1>1. DOMAIN text = 1 .. Len(text) /\ Len(text) \in Nat
  BY CjkUnitIs
<1>2. /\ a \in Nat /\ b \in Nat /\ 1 <= a /\ a <= b /\ b <= n
      /\ Joined(text, a, n) /\ text[a] \in Letter /\ text[b] \in Letter
      /\ \A i \in b + 1 .. n : text[i] \notin Letter
      /\ \A i \in DOMAIN text : text[i] \in Letter /\ i < a => ~Joined(text, i, a)
      /\ w \in WordToken /\ Spells(text, a, b, w.t)
  BY DEF InProgress, WordToken
<1> HIDE DEF a, b
<1>3. a \in DOMAIN text /\ b \in DOMAIN text
  BY <1>1, <1>2
<1>4. Joined(text, a, b)
  <2>1. \A i \in a .. b : i \in a .. n
    BY <1>2
  <2>2. QED  BY <1>2, <2>1 DEF Joined
<1>5. ASSUME NEW i \in DOMAIN text, text[i] \in Letter, b < i, Joined(text, b, i) PROVE FALSE
  <2>1. i \in Nat /\ ~(i \in b + 1 .. n) /\ i <= Len(text)
    BY <1>1, <1>2, <1>5
  <2>2. m \in b .. i /\ m \in DOMAIN text
    BY <1>1, <1>2, <1>5, <2>1
  <2>3. QED  BY <1>5, <2>2 DEF Joined
<1>6. WordSpan(text, a, b)
  BY <1>2, <1>4, <1>5 DEF WordSpan
<1>7. w.t = InOrder(S)
  <2>1. PICK L \in Seq(TokenOf) :
          /\ Ascends(L, Len(L)) /\ w.t = [k \in 1 .. Len(L) |-> L[k].t]
          /\ S = {L[k] : k \in 1 .. Len(L)}
    BY <1>2 DEF Spells
  <2>2. Len(L) \in Nat
    OBVIOUS
  <2> HIDE DEF S
  <2>3. ReadsAs(S, L, Len(L))
    BY <2>1, <2>2, InOrderIs
  <2>4. QED  BY <2>1, <2>3 DEF ReadsAs
<1>8. w = Word(text, a, b)
  BY <1>2, <1>7 DEF Word, WordToken, a, b
<1>9. QED  BY <1>3, <1>6, <1>8, WordUnitIs

\* At a grapheme that no word goes on with, or at the end, the words are in the open list.
LEMMA WordsSoFar ==
  ASSUME NEW text \in Text, NEW n \in Nat, n <= Len(text),
         NEW m, m = n + 1, m \in DOMAIN text => text[m] \notin Letter \cup Symbol,
         NEW r, ReadsWords(text, n, r)
  PROVE  Lists(WordUnits(text), WordBreaks(text), UnitsTo(WordUnits(text), n), n,
               r.word_runs, r.words \o r.word)
<1> DEFINE U == WordUnits(text)
           B == WordBreaks(text)
<1>1. Apart(U) /\ B \in SUBSET Nat
  BY WordUnitIs
<1>2. CASE r.word = <<>> /\ Lists(U, B, UnitsTo(U, n), n, r.word_runs, r.words)
  <2> HIDE DEF U, B
  <2>1. r.words \in Seq(U)
    BY <1>2 DEF Lists, Chain
  <2>2. r.words \o r.word = r.words
    BY <1>2, <2>1
  <2>3. QED  BY <1>2, <2>2 DEF U, B
<1>3. ASSUME NEW w, r.word = <<w>>, InProgress(text, n, w),
             Lists(U, B, OtherUnitsTo(U, n, w.from), n, r.word_runs, r.words)
      PROVE  Lists(U, B, UnitsTo(U, n), n, r.word_runs, r.words \o r.word)
  <2> DEFINE D == OtherUnitsTo(U, n, w.from)
  <2>1. w \in U
    BY <1>3, WordEnds
  <2>2. w.from \in Nat /\ w.to \in Nat /\ w.from <= w.to /\ w.to <= n /\ Joined(text, w.from, n)
    BY <1>3 DEF InProgress, WordToken
  <2>3. Free(B, w.from, n)
    <3> SUFFICES ASSUME NEW x \in B, w.from <= x, x <= n PROVE FALSE
      BY DEF Free
    <3>1. text[x] \in Cjk /\ x \in w.from .. n
      BY <1>1, <2>2 DEF WordBreaks
    <3>2. text[x] \in Letter \cup Symbol
      BY <2>2, <3>1 DEF Joined
    <3>3. QED  BY <3>1, <3>2, CopyAssumption
  <2> HIDE DEF U, B
  <2>4. \A v \in U : v.from \in Nat /\ v.to \in Nat /\ v.from <= v.to
                     /\ (v.from = w.from => v = w)
    <3> TAKE v \in U
    <3>1. v.from \in Nat /\ v.to \in Nat /\ v.from <= v.to
      BY <1>1 DEF Apart
    <3>2. v = w \/ v.to < w.from \/ w.to < v.from
      BY <1>1, <2>1 DEF Apart
    <3>3. QED  BY <2>2, <3>1, <3>2
  <2>5. \A v \in U : (v.from <= n /\ v.from # w.from) <=> v \in D
    BY DEF OtherUnitsTo
  <2>6. \A v \in U \ D : v = w \/ w.to < v.from
    <3> TAKE v \in U \ D
    <3>1. ~(v.from <= n) \/ v.from = w.from
      BY <2>5
    <3>2. QED  BY <2>2, <2>4, <3>1
  <2>7. w \notin D
    BY <2>1, <2>5
  <2>8. UnitsTo(U, n) = D \cup {w}
    <3>1. w.from <= n
      BY <2>2
    <3>2. QED  BY <2>1, <2>4, <3>1 DEF UnitsTo, OtherUnitsTo
  <2>9. \A b \in B : ~(n < b /\ b <= n)
    BY <1>1
  <2> HIDE DEF D
  <2>10. Lists(U, B, D, n, r.word_runs, r.words)
    BY <1>3 DEF D
  <2>11. Lists(U, B, D \cup {w}, n, r.word_runs, Append(r.words, w))
    <3>1. n <= n
      OBVIOUS
    <3>2. QED  BY <1>1, <2>1, <2>2, <2>3, <2>6, <2>7, <2>9, <2>10, <3>1, UnitAdded
  <2>12. r.words \o r.word = Append(r.words, w)
    <3>1. r.words \in Seq(U)
      BY <2>10 DEF Lists, Chain
    <3>2. \A s \in Seq(U) : s \o <<w>> = Append(s, w)
      OBVIOUS
    <3>3. QED  BY <1>3, <3>1, <3>2
  <2>13. QED  BY <2>8, <2>11, <2>12
<1>4. QED  BY <1>2, <1>3 DEF ReadsWords

\* The words that begin up to the next grapheme.
LEMMA UnitsToNext ==
  ASSUME NEW text \in Text, NEW n \in Nat, NEW m, m = n + 1, m \in DOMAIN text
  PROVE  /\ \A v \in WordUnits(text) :
              /\ v.from \in Nat /\ text[v.from] \in Letter /\ v.from \in DOMAIN text
              /\ v.from <= m <=> v.from <= n \/ v.from = m
              /\ \A i \in DOMAIN text : text[i] \in Letter /\ i < v.from => ~Joined(text, i, v.from)
         /\ \A b \in WordBreaks(text) : b \in Nat /\ (n < b /\ b <= m => b = m)
         /\ m \in WordBreaks(text) <=> text[m] \in Cjk
         /\ text[m] \notin Letter =>
              /\ UnitsTo(WordUnits(text), m) = UnitsTo(WordUnits(text), n)
              /\ \A a : OtherUnitsTo(WordUnits(text), m, a) = OtherUnitsTo(WordUnits(text), n, a)
<1> DEFINE U == WordUnits(text)
           B == WordBreaks(text)
<1>1. DOMAIN text \in SUBSET Nat
  BY CjkUnitIs
<1>2. \A v \in U :
        /\ v.from \in Nat /\ text[v.from] \in Letter /\ v.from \in DOMAIN text
        /\ \A i \in DOMAIN text : text[i] \in Letter /\ i < v.from => ~Joined(text, i, v.from)
  BY <1>1, WordUnitIs DEF WordSpan
<1>3. m \in B <=> text[m] \in Cjk
  BY DEF WordBreaks
<1>4. B \in SUBSET Nat
  BY WordUnitIs
<1> HIDE DEF U, B
<1>5. \A v \in U : v.from <= m <=> v.from <= n \/ v.from = m
  BY <1>2
<1>6. \A b \in B : b \in Nat /\ (n < b /\ b <= m => b = m)
  BY <1>4
<1>7. ASSUME text[m] \notin Letter
      PROVE  /\ UnitsTo(U, m) = UnitsTo(U, n)
             /\ \A a : OtherUnitsTo(U, m, a) = OtherUnitsTo(U, n, a)
  <2>1. \A v \in U : v.from <= m <=> v.from <= n
    BY <1>2, <1>5, <1>7
  <2>2. QED  BY <2>1 DEF UnitsTo, OtherUnitsTo
<1>8. QED  BY <1>2, <1>3, <1>5, <1>6, <1>7 DEF U, B

LEMMA WordReadOn ==
  ASSUME NEW text \in Text, NEW n \in Nat, NEW m, m = n + 1, m \in DOMAIN text,
         NEW r, NEW e, ReadsWords(text, n, r), WordEffect(r, e, text[m], m)
  PROVE  ReadsWords(text, m, e)
<1> DEFINE U == WordUnits(text)
           B == WordBreaks(text)
<1>1. /\ DOMAIN text = 1 .. Len(text) /\ Len(text) \in Nat /\ m \in Nat /\ n <= Len(text) /\ n <= m /\ n < m
      /\ \A i : i \in 1 .. m <=> i \in 1 .. n \/ i = m
      /\ text[m] \in Cjk \cup Letter \cup Symbol \cup {Blank}
  BY CjkUnitIs
<1>2. /\ text[m] = Blank => text[m] \notin Cjk \cup Letter \cup Symbol
      /\ text[m] \in Cjk => text[m] \notin Letter \cup Symbol
      /\ text[m] \in Letter => text[m] \notin Symbol
      /\ text[m] \in Letter \cup Symbol => text[m] \notin Cjk
  BY CopyAssumption
<1>3. /\ \A v \in U :
           /\ v.from \in Nat /\ text[v.from] \in Letter /\ v.from \in DOMAIN text
           /\ v.from <= m <=> v.from <= n \/ v.from = m
           /\ \A i \in DOMAIN text : text[i] \in Letter /\ i < v.from => ~Joined(text, i, v.from)
      /\ \A b \in B : b \in Nat /\ (n < b /\ b <= m => b = m)
      /\ m \in B <=> text[m] \in Cjk
  BY UnitsToNext
<1>4. text[m] \notin Letter =>
        UnitsTo(U, m) = UnitsTo(U, n) /\ \A a : OtherUnitsTo(U, m, a) = OtherUnitsTo(U, n, a)
  BY UnitsToNext
<1>5. Apart(U) /\ B \in SUBSET Nat
  BY WordUnitIs
<1>6. ASSUME NEW i \in Nat, i <= n, Joined(text, i, m)
      PROVE  Joined(text, i, n) /\ text[m] \in Letter \cup Symbol
  <2>1. \A k \in i .. n : k \in i .. m
    BY <1>1, <1>6
  <2>2. m \in i .. m
    BY <1>1, <1>6
  <2>3. QED  BY <1>6, <2>1, <2>2 DEF Joined
<1>7. ASSUME text[m] \notin Letter \cup Symbol PROVE NoWordAt(text, m)
  <2> SUFFICES ASSUME NEW i \in 1 .. m, text[i] \in Letter, Joined(text, i, m) PROVE FALSE
    BY DEF NoWordAt
  <2>1. i \in Nat /\ m \in i .. m
    BY <1>1
  <2>2. QED  BY <1>7, <2>1 DEF Joined
<1>8. ASSUME text[m] \notin Letter \cup Symbol
      PROVE  Lists(U, B, UnitsTo(U, n), n, r.word_runs, r.words \o r.word)
  BY <1>1, <1>8, WordsSoFar
<1>9. ASSUME NEW D, NEW runs, NEW words, Lists(U, B, D, n, runs, words), text[m] \notin Cjk
      PROVE  Lists(U, B, D, m, runs, words)
  <2>1. \A b \in B : ~(n < b /\ b <= m)
    BY <1>3, <1>9
  <2> HIDE DEF U, B
  <2>2. QED  BY <1>1, <1>5, <1>9, <2>1, ReadOn
<1>10. CASE text[m] = Blank /\ r.word # <<>>
  <2>1. e.word = <<>> /\ e.words = r.words \o r.word /\ e.word_runs = r.word_runs
    BY <1>10 DEF WordEffect
  <2>2. NoWordAt(text, m) /\ UnitsTo(U, m) = UnitsTo(U, n)
    BY <1>2, <1>4, <1>7, <1>10
  <2>3. Lists(U, B, UnitsTo(U, n), m, r.word_runs, r.words \o r.word)
    BY <1>2, <1>8, <1>9, <1>10
  <2> HIDE DEF U, B
  <2>4. Lists(U, B, UnitsTo(U, m), m, e.word_runs, e.words)
    BY <2>1, <2>2, <2>3
  <2>5. QED  BY <2>1, <2>2, <2>4 DEF ReadsWords, U, B
<1>11. CASE text[m] = Blank /\ r.word = <<>>
  <2>1. SameWords(r, e)
    BY <1>11 DEF WordEffect
  <2>2. NoWordAt(text, m) /\ UnitsTo(U, m) = UnitsTo(U, n)
    BY <1>2, <1>4, <1>7, <1>11
  <2>3. Lists(U, B, UnitsTo(U, n), n, r.word_runs, r.words)
    BY <1>11 DEF ReadsWords
  <2>4. Lists(U, B, UnitsTo(U, n), m, r.word_runs, r.words)
    BY <1>2, <1>9, <1>11, <2>3
  <2> HIDE DEF U, B
  <2>5. e.word = <<>> /\ Lists(U, B, UnitsTo(U, m), m, e.word_runs, e.words)
    BY <1>11, <2>1, <2>2, <2>4 DEF SameWords
  <2>6. QED  BY <2>2, <2>5 DEF ReadsWords, U, B
<1>12. CASE text[m] \in Cjk
  <2> DEFINE w == r.words \o r.word
             D == UnitsTo(U, n)
  <2>1. e.word = <<>> /\ e.words = <<>> /\ e.word_runs = Pushed(r.word_runs, w, w)
    BY <1>12 DEF WordEffect
  <2>2. NoWordAt(text, m) /\ UnitsTo(U, m) = D
    BY <1>2, <1>4, <1>7, <1>12
  <2>3. Lists(U, B, D, n, r.word_runs, w)
    BY <1>2, <1>8, <1>12
  <2>4. \A v \in U \ D : \E b \in B : n < b /\ b < v.from
    <3> TAKE v \in U \ D
    <3>1. v.from \in Nat /\ ~(v.from <= n)
      BY <1>3 DEF UnitsTo
    <3>2. v.from # m
      BY <1>2, <1>3, <1>12
    <3>3. m < v.from
      BY <1>1, <3>1, <3>2
    <3>4. QED  BY <1>1, <1>3, <1>12, <3>3
  <2> HIDE DEF U, B, D, w
  <2>5. Lists(U, B, D, m, Pushed(r.word_runs, w, w), <<>>)
    BY <1>1, <1>5, <2>3, <2>4, ListClosed
  <2>6. Lists(U, B, UnitsTo(U, m), m, e.word_runs, e.words)
    BY <2>1, <2>2, <2>5
  <2>7. QED  BY <2>1, <2>2, <2>6 DEF ReadsWords, U, B
<1>13. CASE text[m] \in Letter /\ r.word = <<>>
  <2> DEFINE c == text[m]
             w == [t |-> <<c>>, from |-> m, to |-> m]
  <2>1. e.word = <<w>> /\ e.words = r.words /\ e.word_runs = r.word_runs
    BY <1>13 DEF WordEffect, WordGoesOn
  <2>2. NoWordAt(text, n) /\ Lists(U, B, UnitsTo(U, n), n, r.word_runs, r.words)
    BY <1>13 DEF ReadsWords
  <2>3. w.t = <<c>> /\ w.from = m /\ w.to = m /\ w \in WordToken
    BY <1>1, <1>13 DEF WordToken
  <2>4. Joined(text, m, m)
    BY <1>1, <1>13 DEF Joined
  <2>5. \A i \in m + 1 .. m : text[i] \notin Letter
    BY <1>1
  <2>6. \A i \in DOMAIN text : text[i] \in Letter /\ i < m => ~Joined(text, i, m)
    <3> SUFFICES ASSUME NEW i \in DOMAIN text, text[i] \in Letter, i < m, Joined(text, i, m) PROVE FALSE
      OBVIOUS
    <3>1. i \in Nat /\ i <= n /\ i \in 1 .. n
      BY <1>1
    <3>2. QED  BY <1>6, <2>2, <3>1 DEF NoWordAt
  <2>7. Spells(text, m, m, <<c>>)
    <3> DEFINE x == Token(c, m)
               L == <<x>>
    <3>1. x \in TokenOf /\ x.from = m /\ x.t = c
      BY <1>1 DEF Token, TokenOf
    <3> HIDE DEF x
    <3>2. L \in Seq(TokenOf) /\ Len(L) = 1 /\ L[1] = x
      BY <3>1
    <3>3. Tokens(text, m .. m, Letter) = {x}
      <4>1. \A j \in m .. m : j = m
        BY <1>1
      <4>2. m \in m .. m
        BY <1>1
      <4>3. QED  BY <1>13, <4>1, <4>2 DEF Tokens, x
    <3>4. {L[k] : k \in 1 .. 1} = {x}
      BY <3>2
    <3>5. <<c>> = [k \in 1 .. 1 |-> L[k].t]
      BY <3>1, <3>2
    <3>6. \A k \in 1 .. 1 : L[k].from \in Nat /\ L[k].from <= m
      BY <1>1, <3>1, <3>2
    <3> HIDE DEF L
    <3>7. Ascends(L, 1)
      BY <3>6 DEF Ascends
    <3>8. QED  BY <3>2, <3>3, <3>4, <3>5, <3>6, <3>7 DEF Spells
  <2> HIDE DEF w
  <2>8. InProgress(text, m, w)
    BY <1>1, <1>13, <2>3, <2>4, <2>5, <2>6, <2>7 DEF InProgress
  <2>9. Lists(U, B, UnitsTo(U, n), m, r.word_runs, r.words)
    BY <1>2, <1>9, <1>13, <2>2
  <2>10. OtherUnitsTo(U, m, m) = UnitsTo(U, n)
    <3>1. \A v \in U : v.from <= m /\ v.from # m <=> v.from <= n
      BY <1>1, <1>3
    <3>2. QED  BY <3>1 DEF OtherUnitsTo, UnitsTo
  <2> HIDE DEF U, B
  <2>11. Lists(U, B, OtherUnitsTo(U, m, w.from), m, e.word_runs, e.words)
    BY <2>1, <2>3, <2>9, <2>10
  <2>12. QED  BY <2>1, <2>8, <2>11 DEF ReadsWords, U, B
<1>14. ASSUME NEW w, r.word = <<w>>, InProgress(text, n, w), text[m] \in Letter \cup Symbol,
              Lists(U, B, OtherUnitsTo(U, n, w.from), n, r.word_runs, r.words)
       PROVE  /\ Joined(text, w.from, m)
              /\ Lists(U, B, OtherUnitsTo(U, m, w.from), m, r.word_runs, r.words)
  <2>1. w.from \in Nat /\ w.from <= n /\ w.from \in DOMAIN text /\ text[w.from] \in Letter
    BY <1>1, <1>14 DEF InProgress, WordToken
  <2>2. Joined(text, w.from, m)
    <3>1. \A i \in w.from .. m : i \in w.from .. n \/ i = m
      BY <1>1, <2>1
    <3>2. QED  BY <1>14, <3>1 DEF InProgress, Joined
  <2>3. \A v \in U : v.from # m
    <3> SUFFICES ASSUME NEW v \in U, v.from = m PROVE FALSE
      OBVIOUS
    <3>1. w.from < v.from /\ Joined(text, w.from, v.from)
      BY <1>1, <2>1, <2>2
    <3>2. QED  BY <1>3, <2>1, <3>1
  <2>4. OtherUnitsTo(U, m, w.from) = OtherUnitsTo(U, n, w.from)
    <3>1. \A v \in U : v.from <= m <=> v.from <= n
      BY <1>3, <2>3
    <3>2. QED  BY <3>1 DEF OtherUnitsTo
  <2>5. Lists(U, B, OtherUnitsTo(U, n, w.from), m, r.word_runs, r.words)
    BY <1>2, <1>9, <1>14
  <2> HIDE DEF U, B
  <2>6. QED  BY <2>2, <2>4, <2>5
<1>15. ASSUME text[m] \in Letter, NEW w, r.word = <<w>>, InProgress(text, n, w),
              Lists(U, B, OtherUnitsTo(U, n, w.from), n, r.word_runs, r.words)
       PROVE  ReadsWords(text, m, e)
  <2> DEFINE c == text[m]
             x == [w EXCEPT !.t = Append(@, c), !.to = m]
  <2>1. /\ w \in WordToken
        /\ w.from \in Nat /\ w.to \in Nat /\ 1 <= w.from /\ w.from <= w.to /\ w.to <= n
        /\ text[w.from] \in Letter
        /\ \A i \in w.to + 1 .. n : text[i] \notin Letter
        /\ \A i \in DOMAIN text : text[i] \in Letter /\ i < w.from => ~Joined(text, i, w.from)
        /\ Spells(text, w.from, w.to, w.t)
    BY <1>15 DEF InProgress, WordToken
  <2>2. x \in WordToken
    <3> DEFINE new == Append(w.t, c)
    <3>1. w.t \in Seq(Letter)
      BY <2>1 DEF WordToken
    <3>2. new \in Seq(Letter)
      BY <1>15, <3>1
    <3>3. x = [w EXCEPT !.t = new, !.to = m]
      BY <2>1 DEF WordToken
    <3> HIDE DEF new, x
    <3>4. QED  BY <1>1, <2>1, <3>2, <3>3 DEF WordToken
  <2>3. x.t = Append(w.t, c) /\ x.from = w.from /\ x.to = m
    BY <2>1 DEF WordToken
  <2>4. e.word = <<x>> /\ e.words = r.words /\ e.word_runs = r.word_runs
    <3>1. r.word # <<>> /\ r.word[1] = w
      BY <1>15
    <3>2. QED  BY <1>15, <3>1 DEF WordEffect, WordGoesOn
  <2>5. Spells(text, w.from, m, Append(w.t, c))
    <3>1. PICK L \in Seq(TokenOf) :
            /\ Ascends(L, Len(L)) /\ w.t = [k \in 1 .. Len(L) |-> L[k].t]
            /\ Tokens(text, w.from .. w.to, Letter) = {L[k] : k \in 1 .. Len(L)}
            /\ \A k \in 1 .. Len(L) : L[k].from <= w.to
      BY <2>1 DEF Spells
    <3> DEFINE y == Token(c, m)
               K == Append(L, y)
               l == Len(L)
               z == l + 1
    <3>2. y \in TokenOf /\ y.from = m /\ y.t = c
      BY <1>1 DEF Token, TokenOf
    <3> HIDE DEF y
    <3>3. /\ K \in Seq(TokenOf) /\ Len(K) = z /\ K[z] = y /\ z \in 1 .. z /\ l \in Nat /\ z \in Nat
          /\ \A k \in 1 .. l : K[k] = L[k] /\ k \in 1 .. z /\ k < z
          /\ \A k \in 1 .. z : k \in 1 .. l \/ k = z
      BY <3>2
    <3>4. Append(w.t, c) = [k \in 1 .. z |-> K[k].t]
      <4>1. w.t \in Seq({L[k].t : k \in 1 .. l}) /\ Len(w.t) = l /\ \A k \in 1 .. l : w.t[k] = L[k].t
        BY <3>1, <3>3
      <4>2. \A S : \A s \in Seq(S) :
              /\ Append(s, c) = [k \in 1 .. Len(s) + 1 |-> Append(s, c)[k]]
              /\ Append(s, c)[Len(s) + 1] = c
              /\ \A k \in 1 .. Len(s) : Append(s, c)[k] = s[k]
        OBVIOUS
      <4>3. \A k \in 1 .. z : Append(w.t, c)[k] = K[k].t
        BY <3>2, <3>3, <4>1, <4>2
      <4>4. Append(w.t, c) = [k \in 1 .. z |-> Append(w.t, c)[k]]
        BY <4>1, <4>2
      <4> HIDE DEF K, z
      <4>5. QED  BY <4>3, <4>4
    <3> HIDE DEF K, z, l
    <3>5. Tokens(text, w.from .. m, Letter) = Tokens(text, w.from .. w.to, Letter) \cup {y}
      <4>1. \A j \in w.from .. m : text[j] \in Letter => j \in w.from .. w.to \/ j = m
        BY <1>1, <2>1
      <4>2. \A j \in w.from .. w.to : j \in w.from .. m
        BY <1>1, <2>1
      <4>3. m \in w.from .. m
        BY <1>1, <2>1
      <4>4. QED  BY <1>15, <4>1, <4>2, <4>3 DEF Tokens, y
    <3>6. {K[k] : k \in 1 .. z} = {L[k] : k \in 1 .. l} \cup {y}
      BY <3>3
    <3>7. \A k \in 1 .. z : K[k].from \in Nat /\ K[k].from <= m /\ (k \in 1 .. l => K[k].from < m)
      <4> TAKE k \in 1 .. z
      <4>1. CASE k \in 1 .. l
        <5>1. L[k].from \in Nat /\ L[k].from <= w.to
          BY <3>1, <4>1 DEF Ascends, l
        <5>2. QED  BY <1>1, <2>1, <3>3, <4>1, <5>1
      <4>2. CASE k = z
        <5>1. k \notin 1 .. l
          BY <3>3, <4>2
        <5>2. QED  BY <1>1, <3>2, <3>3, <4>2, <5>1
      <4>3. QED  BY <3>3, <4>1, <4>2
    <3>8. \A i, j \in 1 .. z : i < j => K[i].from < K[j].from
      <4> TAKE i, j \in 1 .. z
      <4> HAVE i < j
      <4>1. i \in 1 .. l
        BY <3>3
      <4>2. CASE j = z
        BY <3>2, <3>3, <3>7, <4>1, <4>2
      <4>3. CASE j \in 1 .. l
        BY <3>1, <3>3, <4>1, <4>3 DEF Ascends, l
      <4>4. QED  BY <3>3, <4>2, <4>3
    <3>9. Ascends(K, z)
      BY <3>7, <3>8 DEF Ascends
    <3>10. QED  BY <3>1, <3>3, <3>4, <3>5, <3>6, <3>7, <3>9 DEF Spells, l
  <2>6. Joined(text, w.from, m) /\ Lists(U, B, OtherUnitsTo(U, m, w.from), m, r.word_runs, r.words)
    BY <1>14, <1>15
  <2> HIDE DEF x
  <2>7. InProgress(text, m, x)
    <3>1. 1 <= w.from /\ w.from <= m /\ m <= m /\ \A i \in m + 1 .. m : text[i] \notin Letter
      BY <1>1, <2>1
    <3>2. QED  BY <1>1, <1>15, <2>1, <2>2, <2>3, <2>5, <2>6, <3>1 DEF InProgress
  <2> HIDE DEF U, B
  <2>8. Lists(U, B, OtherUnitsTo(U, m, x.from), m, e.word_runs, e.words)
    BY <2>3, <2>4, <2>6
  <2>9. QED  BY <2>4, <2>7, <2>8 DEF ReadsWords, U, B
<1>16. ASSUME text[m] \in Symbol, text[m] \notin Letter, NEW w, r.word = <<w>>, InProgress(text, n, w),
              Lists(U, B, OtherUnitsTo(U, n, w.from), n, r.word_runs, r.words)
       PROVE  ReadsWords(text, m, e)
  <2>1. SameWords(r, e)
    BY <1>16 DEF WordEffect
  <2>2. Joined(text, w.from, m) /\ Lists(U, B, OtherUnitsTo(U, m, w.from), m, r.word_runs, r.words)
    BY <1>14, <1>16
  <2>3. InProgress(text, m, w)
    <3>1. /\ w \in WordToken
          /\ w.from \in Nat /\ w.to \in Nat /\ 1 <= w.from /\ w.from <= w.to /\ w.to <= n
          /\ text[w.from] \in Letter /\ text[w.to] \in Letter
          /\ \A i \in w.to + 1 .. n : text[i] \notin Letter
          /\ \A i \in DOMAIN text : text[i] \in Letter /\ i < w.from => ~Joined(text, i, w.from)
          /\ Spells(text, w.from, w.to, w.t)
      BY <1>16 DEF InProgress, WordToken
    <3>2. \A i \in w.to + 1 .. m : i \in w.to + 1 .. n \/ i = m
      BY <1>1, <3>1
    <3>3. w.to <= m /\ \A i \in w.to + 1 .. m : text[i] \notin Letter
      BY <1>1, <1>16, <3>1, <3>2
    <3>4. QED  BY <2>2, <3>1, <3>3 DEF InProgress
  <2> HIDE DEF U, B
  <2>4. e.word = <<w>> /\ Lists(U, B, OtherUnitsTo(U, m, w.from), m, e.word_runs, e.words)
    BY <1>16, <2>1, <2>2 DEF SameWords
  <2>5. QED  BY <2>3, <2>4 DEF ReadsWords, U, B
<1>17. CASE text[m] \in Symbol /\ text[m] \notin Letter /\ r.word = <<>>
  <2>1. SameWords(r, e)
    BY <1>17 DEF WordEffect
  <2>2. NoWordAt(text, n) /\ Lists(U, B, UnitsTo(U, n), n, r.word_runs, r.words)
    BY <1>17 DEF ReadsWords
  <2>3. NoWordAt(text, m)
    <3> SUFFICES ASSUME NEW i \in 1 .. m, text[i] \in Letter, Joined(text, i, m) PROVE FALSE
      BY DEF NoWordAt
    <3>1. i \in 1 .. n /\ i \in Nat /\ i <= n
      BY <1>1, <1>17
    <3>2. QED  BY <1>6, <2>2, <3>1 DEF NoWordAt
  <2>4. Lists(U, B, UnitsTo(U, n), m, r.word_runs, r.words) /\ UnitsTo(U, m) = UnitsTo(U, n)
    BY <1>2, <1>4, <1>9, <1>17, <2>2
  <2> HIDE DEF U, B
  <2>5. e.word = <<>> /\ Lists(U, B, UnitsTo(U, m), m, e.word_runs, e.words)
    BY <1>17, <2>1, <2>4 DEF SameWords
  <2>6. QED  BY <2>3, <2>5 DEF ReadsWords, U, B
<1>18. \/ r.word = <<>>
       \/ \E w : /\ r.word = <<w>> /\ InProgress(text, n, w)
                 /\ Lists(U, B, OtherUnitsTo(U, n, w.from), n, r.word_runs, r.words)
  BY DEF ReadsWords
<1>19. QED  BY <1>1, <1>2, <1>10, <1>11, <1>12, <1>13, <1>15, <1>16, <1>17, <1>18

(* Whole texts. *)
Reads(text, n, r) == DOMAIN r = Fields /\ ReadsCjk(text, n, r) /\ ReadsWords(text, n, r)

LEMMA ReadsNothing ==
  ASSUME NEW text \in Text
  PROVE  Reads(text, 0, NoRuns)
<1> DEFINE U == CjkUnits(text)
           W == WordUnits(text)
<1>1. \A u \in U : u.from \in Nat /\ u.from # 0
  BY CjkUnitIs
<1>2. \A u \in W : u.from \in Nat /\ u.from # 0
  BY CjkUnitIs, WordUnitIs
<1> HIDE DEF U, W
<1>3. UnitsTo(U, 0) = {} /\ UnitsTo(W, 0) = {}
  BY <1>1, <1>2 DEF UnitsTo
<1>4. /\ DOMAIN NoRuns = Fields /\ NoRuns.cjk_runs = <<>> /\ NoRuns.cjk = <<>>
      /\ NoRuns.word = <<>> /\ NoRuns.words = <<>> /\ NoRuns.word_runs = <<>>
  BY DEF NoRuns, Fields
<1>5. Lists(U, CjkBreaks(text), UnitsTo(U, 0), 0, NoRuns.cjk_runs, NoRuns.cjk)
  BY <1>3, <1>4, NoListsYet
<1>6. Lists(W, WordBreaks(text), UnitsTo(W, 0), 0, NoRuns.word_runs, NoRuns.words)
  BY <1>3, <1>4, NoListsYet
<1>7. NoWordAt(text, 0)
  BY DEF NoWordAt
<1>8. QED  BY <1>4, <1>5, <1>6, <1>7 DEF Reads, ReadsCjk, ReadsWords, U, W

LEMMA ReadsAll ==
  ASSUME NEW text \in Text
  PROVE  Reads(text, Len(text), ReadAll(text))
<1> DEFINE read == Reading(text)
           Bad == {n \in 0 .. Len(text) : ~Reads(text, n, read[n])}
<1>1. /\ DOMAIN text = 1 .. Len(text) /\ Len(text) \in Nat
      /\ \A n \in 1 .. Len(text) : text[n] \in Cjk \cup Letter \cup Symbol \cup {Blank}
  BY CjkUnitIs
<1>2. /\ ReadAll(text) = read[Len(text)] /\ read[0] = NoRuns
      /\ \A n \in 1 .. Len(text) : read[n] = Grapheme(read[n - 1], text[n], n)
  BY <1>1, ReadsEach
<1> HIDE DEF read
<1>3. Bad = {}
  <2> SUFFICES ASSUME Bad # {} PROVE FALSE
    OBVIOUS
  <2>1. PICK n \in Bad : \A m \in Bad : n <= m
    <3> HIDE DEF Bad
    <3>1. Bad \in SUBSET Nat
      BY <1>1 DEF Bad
    <3>2. QED  BY <3>1, Smallest
  <2>2. n # 0
    BY <1>2, ReadsNothing
  <2> DEFINE k == n - 1
  <2>3. n \in 1 .. Len(text) /\ k \in 0 .. Len(text) /\ ~(n <= k) /\ k \in Nat /\ n = k + 1
    BY <1>1, <2>2
  <2>4. Reads(text, k, read[k])
    BY <2>1, <2>3
  <2>5. read[n] = Grapheme(read[k], text[n], n)
    BY <1>2, <2>3
  <2> HIDE DEF k
  <2>6. DOMAIN read[n] = Fields /\ CjkEffect(read[k], read[n], text[n], n)
        /\ WordEffect(read[k], read[n], text[n], n)
    BY <1>1, <2>3, <2>4, <2>5, GraphemeIs DEF Reads
  <2>7. ReadsCjk(text, n, read[n])
    BY <1>1, <2>3, <2>4, <2>6, CjkReadOn DEF Reads
  <2>8. ReadsWords(text, n, read[n])
    BY <1>1, <2>3, <2>4, <2>6, WordReadOn DEF Reads
  <2>9. QED  BY <2>6, <2>7, <2>8 DEF Reads
<1>4. Len(text) \in 0 .. Len(text)
  BY <1>1
<1>5. QED  BY <1>2, <1>3, <1>4

\* Every unit of a text is in one of its runs.
LEMMA RunsOfText ==
  ASSUME NEW text \in Text
  PROVE  LET N == Normalized(text)
         IN  /\ Lists(CjkUnits(text), CjkBreaks(text), CjkUnits(text), Len(text), N.cjk_runs, <<>>)
             /\ Lists(WordUnits(text), WordBreaks(text), WordUnits(text), Len(text), N.word_runs, <<>>)
<1> DEFINE r == ReadAll(text)
           e == EndWordRun(r)
           f == EndCjk(e)
           g == [f EXCEPT !.all = Pushed(<<>>, f.all, f.all)]
           w == r.words \o r.word
           U == CjkUnits(text)
           B == CjkBreaks(text)
           V == WordUnits(text)
           C == WordBreaks(text)
           n == Len(text)
<1>1. n \in Nat /\ DOMAIN text = 1 .. n /\ Apart(U) /\ B \in SUBSET Nat /\ Apart(V) /\ C \in SUBSET Nat
  BY CjkUnitIs, WordUnitIs
<1>2. UnitsTo(U, n) = U
  <2>1. \A u \in U : u.from <= n
    BY <1>1, CjkUnitIs
  <2> HIDE DEF U, n
  <2>2. QED  BY <2>1 DEF UnitsTo
<1>3. UnitsTo(V, n) = V
  <2>1. \A u \in V : u.from <= n
    BY <1>1, WordUnitIs
  <2> HIDE DEF V, n
  <2>2. QED  BY <2>1 DEF UnitsTo
<1>4. Reads(text, n, r)
  BY ReadsAll
<1>5. Normalized(text) = g
  BY DEF Normalized
<1> HIDE DEF r
<1>6. DOMAIN e = Fields /\ SameCjk(r, e) /\ e.word_runs = Pushed(r.word_runs, w, w)
  BY <1>4, WordRunEnds DEF Reads
<1>7. n + 1 \notin DOMAIN text
  BY <1>1
<1>8. Lists(V, C, V, n, r.word_runs, w)
  <2> DEFINE m == n + 1
  <2>1. n <= n /\ m \notin DOMAIN text
    BY <1>1, <1>7
  <2>2. ReadsWords(text, n, r) /\ text \in Text /\ n \in Nat /\ n <= Len(text)
    BY <1>1, <1>4, <2>1 DEF Reads
  <2>3. m = n + 1
    OBVIOUS
  <2> HIDE DEF m, n
  <2>4. Lists(V, C, UnitsTo(V, n), n, r.word_runs, w)
    BY <2>1, <2>2, <2>3, WordsSoFar
  <2>5. QED  BY <1>3, <2>4
<1> HIDE DEF e
<1>9. DOMAIN f = Fields /\ f.word_runs = e.word_runs /\ f.cjk_runs = Pushed(e.cjk_runs, e.cjk, e.cjk)
  BY <1>6, PartsOfGrapheme DEF SameWords
<1> HIDE DEF f
<1>10. g.word_runs = f.word_runs /\ g.cjk_runs = f.cjk_runs
  BY <1>9 DEF Fields
<1>11. Lists(U, B, U, n, r.cjk_runs, r.cjk)
  BY <1>2, <1>4 DEF Reads, ReadsCjk
<1> HIDE DEF U, B, V, C, w, n
<1>12. Lists(U, B, U, n, Pushed(r.cjk_runs, r.cjk, r.cjk), <<>>)
  BY <1>1, <1>11, ListClosed
<1>13. Lists(V, C, V, n, Pushed(r.word_runs, w, w), <<>>)
  BY <1>1, <1>8, ListClosed
<1> HIDE DEF g
<1>14. Lists(U, B, U, n, Normalized(text).cjk_runs, <<>>)
  BY <1>5, <1>6, <1>9, <1>10, <1>12 DEF SameCjk
<1>15. Lists(V, C, V, n, Normalized(text).word_runs, <<>>)
  BY <1>5, <1>6, <1>9, <1>10, <1>13
<1>16. QED  BY <1>14, <1>15 DEF U, B, V, C, n

\* The exact rules find a copy if there is one.
LEMMA CjkRuleIs ==
  ASSUME NEW m \in Text, NEW k, case.canon[k].text \in Text
  PROVE  ExactIs(ExactWitness(Normalized(m).cjk_runs, Normalized(case.canon[k].text).cjk_runs,
                              k, Policy.exact_cjk, "cjk"),
                 CjkCopies(m, case.canon[k]), k, "cjk")
<1> DEFINE s == case.canon[k].text
           width == Policy.exact_cjk
           mruns == Normalized(m).cjk_runs
           sruns == Normalized(s).cjk_runs
<1>1. width \in Nat /\ width >= 1
  BY CopyAssumption
<1>2. s \in Text
  OBVIOUS
<1>3. CjkCopies(m, case.canon[k])
        = SpanCopies(CjkUnits(m), CjkBreaks(m), CjkUnits(s), CjkBreaks(s), width, case.canon[k])
  BY DEF CjkCopies, CjkSpans, CjkBreaks, SpanCopies
<1>4. AreSpans(CjkUnits(m), CjkBreaks(m), width, mruns, FixedWindows(mruns, width))
  <2> HIDE DEF width
  <2>1. Lists(CjkUnits(m), CjkBreaks(m), CjkUnits(m), Len(m), mruns, <<>>)
    BY RunsOfText
  <2>2. Apart(CjkUnits(m)) /\ CjkBreaks(m) \in SUBSET Nat
    BY CjkUnitIs
  <2> HIDE DEF mruns
  <2>3. QED  BY <1>1, <2>1, <2>2, WindowsAreSpans
<1>5. AreSpans(CjkUnits(s), CjkBreaks(s), width, sruns, FixedWindows(sruns, width))
  <2> HIDE DEF width, s
  <2>1. Lists(CjkUnits(s), CjkBreaks(s), CjkUnits(s), Len(s), sruns, <<>>)
    BY <1>2, RunsOfText
  <2>2. Apart(CjkUnits(s)) /\ CjkBreaks(s) \in SUBSET Nat
    BY <1>2, CjkUnitIs
  <2> HIDE DEF sruns
  <2>3. QED  BY <1>1, <2>1, <2>2, WindowsAreSpans
<1> HIDE DEF width, mruns, sruns
<1>6. ExactIs(ExactWitness(mruns, sruns, k, width, "cjk"), CjkCopies(m, case.canon[k]), k, "cjk")
  BY <1>3, <1>4, <1>5, ExactWitnessIs
<1>7. QED  BY <1>6 DEF width, mruns, sruns

LEMMA WordRuleIs ==
  ASSUME NEW m \in Text, NEW k, case.canon[k].text \in Text
  PROVE  ExactIs(ExactWitness(Normalized(m).word_runs, Normalized(case.canon[k].text).word_runs,
                              k, Policy.exact_words, "words"),
                 WordCopies(m, case.canon[k]), k, "words")
<1> DEFINE s == case.canon[k].text
           width == Policy.exact_words
           mruns == Normalized(m).word_runs
           sruns == Normalized(s).word_runs
<1>1. width \in Nat /\ width >= 1
  BY CopyAssumption
<1>2. s \in Text
  OBVIOUS
<1>3. WordCopies(m, case.canon[k])
        = SpanCopies(WordUnits(m), WordBreaks(m), WordUnits(s), WordBreaks(s), width, case.canon[k])
  BY DEF WordCopies, WordSpans, WordBreaks, SpanCopies
<1>4. AreSpans(WordUnits(m), WordBreaks(m), width, mruns, FixedWindows(mruns, width))
  <2> HIDE DEF width
  <2>1. Lists(WordUnits(m), WordBreaks(m), WordUnits(m), Len(m), mruns, <<>>)
    BY RunsOfText
  <2>2. Apart(WordUnits(m)) /\ WordBreaks(m) \in SUBSET Nat
    BY WordUnitIs
  <2> HIDE DEF mruns
  <2>3. QED  BY <1>1, <2>1, <2>2, WindowsAreSpans
<1>5. AreSpans(WordUnits(s), WordBreaks(s), width, sruns, FixedWindows(sruns, width))
  <2> HIDE DEF width, s
  <2>1. Lists(WordUnits(s), WordBreaks(s), WordUnits(s), Len(s), sruns, <<>>)
    BY <1>2, RunsOfText
  <2>2. Apart(WordUnits(s)) /\ WordBreaks(s) \in SUBSET Nat
    BY <1>2, WordUnitIs
  <2> HIDE DEF sruns
  <2>3. QED  BY <1>1, <2>1, <2>2, WindowsAreSpans
<1> HIDE DEF width, mruns, sruns
<1>6. ExactIs(ExactWitness(mruns, sruns, k, width, "words"), WordCopies(m, case.canon[k]), k, "words")
  BY <1>3, <1>4, <1>5, ExactWitnessIs
<1>7. QED  BY <1>6 DEF width, mruns, sruns

-----------------------------------------------------------------------------
(***************************************************************************)
(* The scan with the exact rules.  Findings are of sources behind it, each *)
(* of which has those of the rules that apply; a source whose n-grams come *)
(* next has no exact copy.                                                 *)
(***************************************************************************)
CopyFound(k) ==
  /\ CjkCopies(case.manuscript, case.canon[k]) # {} => Found(k, {"cjk"})
  /\ WordCopies(case.manuscript, case.canon[k]) # {} => Found(k, {"words"})

NoCopyHere ==
  /\ CjkCopies(case.manuscript, case.canon[nth]) = {}
  /\ WordCopies(case.manuscript, case.canon[nth]) = {}

ScanSoFar ==
  /\ FindingsAreCopies /\ OneFindingEach
  /\ \A f \in findings : f.source \in Nat /\ f.source < nth
  /\ \A k \in DOMAIN case.canon : k < nth => CopyFound(k)

ExactInv ==
  /\ \E cases \in Cases : case \in cases
  /\ nth \in Nat /\ nth >= 1
  /\ ScanSoFar
  /\ pc \in {"graphemes", "words"} => nth <= Len(case.canon) /\ NoCopyHere
  /\ pc = "done" => nth > Len(case.canon)

LEMMA TextsNow ==
  ASSUME ExactInv
  PROVE  /\ case.manuscript \in Text /\ case.canon \in Seq(Source) /\ Len(case.canon) \in Nat
         /\ nth <= Len(case.canon) => case.canon[nth].text \in Text
<1>1. case.manuscript \in Text /\ case.canon \in Seq(Source)
  BY TextAssumption DEF ExactInv
<1>2. ASSUME nth <= Len(case.canon) PROVE case.canon[nth].text \in Text
  <2>1. nth \in 1 .. Len(case.canon)
    BY <1>1, <1>2 DEF ExactInv
  <2>2. case.canon[nth] \in Source
    BY <1>1, <2>1
  <2>3. QED  BY <2>2 DEF Source
<1>3. QED  BY <1>1, <1>2

\* What is found for the source that is scanned, when the scan goes on to the next.
FoundHere(new) ==
  LET m == case.manuscript
      source == case.canon[nth]
  IN  /\ \A f \in new :
           /\ f.source = nth
           /\ f.rule = "cjk" => <<f.manuscript, f.range>> \in CjkCopies(m, source)
           /\ f.rule = "words" => <<f.manuscript, f.range>> \in WordCopies(m, source)
      /\ \A f, g \in new : f = g \/ {f.rule, g.rule} = {"cjk", "words"}
      /\ CjkCopies(m, source) # {} => \E f \in new : f.rule = "cjk"
      /\ WordCopies(m, source) # {} => \E f \in new : f.rule = "words"

LEMMA GoesToNext ==
  ASSUME ExactInv, case' = case, nth' = nth + 1, NEW new, findings' = findings \cup new, FoundHere(new)
  PROVE  ScanSoFar'
<1>1. nth \in Nat /\ case.canon \in Seq(Source)
  BY TextsNow DEF ExactInv
<1>2. /\ FindingsAreCopies /\ OneFindingEach
      /\ \A f \in findings : f.source \in Nat /\ f.source < nth
      /\ \A k \in DOMAIN case.canon : k < nth => CopyFound(k)
  BY DEF ExactInv, ScanSoFar
<1>3. \A f \in new : f.source = nth
  BY DEF FoundHere
<1>4. \A f \in findings' : f.source \in Nat /\ f.source < nth'
  BY <1>1, <1>2, <1>3
<1>5. FindingsAreCopies'
  <2>1. ASSUME NEW f \in new
        PROVE  /\ f.rule = "cjk" => <<f.manuscript, f.range>> \in CjkCopies(case.manuscript, case.canon[f.source])
               /\ f.rule = "words" => <<f.manuscript, f.range>> \in WordCopies(case.manuscript, case.canon[f.source])
    <3>1. f.source = nth
      BY <1>3
    <3>2. /\ f.rule = "cjk" => <<f.manuscript, f.range>> \in CjkCopies(case.manuscript, case.canon[nth])
          /\ f.rule = "words" => <<f.manuscript, f.range>> \in WordCopies(case.manuscript, case.canon[nth])
      BY DEF FoundHere
    <3>3. QED  BY <3>1, <3>2
  <2>2. QED  BY <1>2, <2>1 DEF FindingsAreCopies
<1>6. OneFindingEach'
  <2>1. ASSUME NEW f \in findings \cup new, NEW g \in findings \cup new, f.source = g.source
        PROVE  f = g \/ {f.rule, g.rule} = {"cjk", "words"}
    <3>1. CASE f \in findings /\ g \in findings
      BY <1>2, <2>1, <3>1 DEF OneFindingEach
    <3>2. CASE f \in new /\ g \in new
      BY <3>2 DEF FoundHere
    <3>3. CASE f \in findings /\ g \in new
      <4>1. f.source = nth /\ f.source < nth
        BY <1>2, <1>3, <2>1, <3>3
      <4>2. QED  BY <1>1, <4>1
    <3>4. CASE f \in new /\ g \in findings
      <4>1. g.source = nth /\ g.source < nth
        BY <1>2, <1>3, <2>1, <3>4
      <4>2. QED  BY <1>1, <4>1
    <3>5. QED  BY <3>1, <3>2, <3>3, <3>4
  <2>2. QED  BY <2>1 DEF OneFindingEach
<1>7. ASSUME NEW k \in DOMAIN case.canon, k < nth'
      PROVE  /\ CjkCopies(case.manuscript, case.canon[k]) # {} => \E f \in findings' : f.source = k /\ f.rule \in {"cjk"}
             /\ WordCopies(case.manuscript, case.canon[k]) # {} => \E f \in findings' : f.source = k /\ f.rule \in {"words"}
  <2>1. k \in Nat /\ (k < nth \/ k = nth)
    BY <1>1, <1>7
  <2>2. CASE k < nth
    BY <1>2, <2>2 DEF CopyFound, Found
  <2>3. CASE k = nth
    BY <1>3, <2>3 DEF FoundHere
  <2>4. QED  BY <2>1, <2>2, <2>3
<1>8. \A k \in DOMAIN case'.canon : k < nth' => CopyFound(k)'
  BY <1>7 DEF CopyFound, Found
<1>9. QED  BY <1>4, <1>5, <1>6, <1>8 DEF ScanSoFar

LEMMA StaysHere ==
  ASSUME ScanSoFar, case' = case, nth' = nth, findings' = findings
  PROVE  ScanSoFar'
BY DEF ScanSoFar, FindingsAreCopies, OneFindingEach, CopyFound, Found

\* A comparison of windows has at most one finding, of its own rule.
LEMMA GramFindings ==
  ASSUME NEW mruns, NEW mine, NEW sruns, NEW theirs, NEW k
  PROVE  LET result == NgramWitness(mruns, mine, sruns, theirs, k)
         IN  \/ result.findings = {}
             \/ /\ result.outcome = "found"
                /\ \E f : result.findings = {f} /\ f.source = k /\ f.rule = "ngram"
<1> DEFINE result == NgramWitness(mruns, mine, sruns, theirs, k)
           classes == Classes(mruns, mine)
           end == VisitAll(theirs, sruns, case.canon[k], classes)
           f == Finding(k, RangeOf(mruns, classes[end.hit[1]].window), RangeOf(sruns, end.window),
                        "ngram", end.hit[2])
           witness == Witness(end, mruns, classes, sruns, k)
<1>1. \A outcome : NoWitness(outcome).findings = {}
  BY DEF NoWitness
<1>2. (\E outcome : result = NoWitness(outcome)) \/ result = witness
  BY DEF NgramWitness, SearchClasses
<1>3. witness.outcome = end.outcome /\ witness.findings = IF end.outcome # "found" THEN {} ELSE {f}
  BY DEF Witness
<1>4. f.source = k /\ f.rule = "ngram"
  BY DEF Finding
<1> HIDE DEF result, witness, f, end
<1>5. result.findings = {} \/ (result.outcome = "found" /\ result.findings = {f})
  BY <1>1, <1>2, <1>3
<1>6. QED  BY <1>4, <1>5 DEF result

LEMMA AfterWindows ==
  ASSUME ExactInv, pc \in {"graphemes", "words"}, case' = case, NEW result, NEW last, Compared(result, last),
         \/ result.findings = {}
         \/ /\ result.outcome = "found"
            /\ \E f : result.findings = {f} /\ f.source = nth /\ f.rule = "ngram"
  PROVE  ExactInv'
<1>1. /\ \E cases \in Cases : case' \in cases
      /\ nth \in Nat /\ nth >= 1 /\ ScanSoFar /\ nth <= Len(case.canon) /\ NoCopyHere
  BY DEF ExactInv
<1>2. findings' = findings \cup result.findings
  BY DEF Compared
<1>3. CASE result.outcome \in {"exceeded", "panicked"}
  <2>1. nth' = nth /\ pc' \in {"exceeded", "panicked"} /\ findings' = findings
    BY <1>2, <1>3 DEF Compared, Go
  <2>2. QED  BY <1>1, <2>1, StaysHere DEF ExactInv
<1>4. CASE result.outcome = "none" /\ ~last
  <2>1. nth' = nth /\ pc' = "words" /\ findings' = findings
    BY <1>2, <1>4 DEF Compared, Go
  <2>2. NoCopyHere'
    BY <1>1, <2>1 DEF NoCopyHere
  <2>3. QED  BY <1>1, <2>1, <2>2, StaysHere DEF ExactInv
<1>5. CASE /\ result.outcome \notin {"exceeded", "panicked"}
           /\ ~(result.outcome = "none" /\ ~last)
  <2>1. nth' = nth + 1 /\ pc' = "exact"
    BY <1>5 DEF Compared, NextSource
  <2>2. FoundHere(result.findings)
    <3>1. \A f \in result.findings : f.source = nth /\ f.rule = "ngram"
      OBVIOUS
    <3>2. \A f, g \in result.findings : f = g
      OBVIOUS
    <3>3. \A f \in result.findings : f.rule # "cjk" /\ f.rule # "words"
      BY <3>1
    <3>4. QED  BY <1>1, <3>1, <3>2, <3>3 DEF FoundHere, NoCopyHere
  <2>3. ScanSoFar'
    BY <1>2, <2>1, <2>2, GoesToNext
  <2>4. nth' \in Nat /\ nth' >= 1
    BY <1>1, <2>1
  <2>5. QED  BY <1>1, <2>1, <2>3, <2>4 DEF ExactInv
<1>6. QED  BY <1>3, <1>4, <1>5

LEMMA ExactScanGoesOn ==
  ASSUME ExactInv, [Next]_vars
  PROVE  ExactInv'
<1>1. nth \in Nat /\ nth >= 1 /\ nth + 1 \in Nat /\ nth + 1 >= 1 /\ ScanSoFar
  BY DEF ExactInv
<1>2. CASE ExactScan
  <2> DEFINE m == case.manuscript
             source == case.canon[nth]
             cjk == ExactWitness(Mine.cjk_runs, Theirs.cjk_runs, nth, Policy.exact_cjk, "cjk")
             words == ExactWitness(Mine.word_runs, Theirs.word_runs, nth, Policy.exact_words, "words")
             new == cjk \cup words
             cjks == CjkCopies(m, source)
             copies == WordCopies(m, source)
  <2>1. case' = case /\ nth <= Len(case.canon) /\ Matched(new)
    BY <1>2 DEF ExactScan, Exact
  <2>2. m \in Text /\ source.text \in Text
    BY <2>1, TextsNow
  <2>3. ExactIs(cjk, cjks, nth, "cjk")
    BY <2>2, CjkRuleIs DEF Mine, Theirs
  <2>4. ExactIs(words, copies, nth, "words")
    BY <2>2, WordRuleIs DEF Mine, Theirs
  <2>5. findings' = findings \cup new
    BY <2>1 DEF Matched
  <2> HIDE DEF cjk, words, m, source
  <2>6. CASE new # {}
    <3>1. pc' = "exact" /\ nth' = nth + 1
      BY <2>1, <2>6 DEF Matched, NextSource
    <3> HIDE DEF cjks, copies
    <3>2. \A f \in cjk : f.source = nth /\ f.rule = "cjk" /\ <<f.manuscript, f.range>> \in cjks
      BY <2>3 DEF ExactIs
    <3>3. \A f \in words : f.source = nth /\ f.rule = "words" /\ <<f.manuscript, f.range>> \in copies
      BY <2>4 DEF ExactIs
    <3>4. \A f, g \in cjk : f = g
      BY <2>3 DEF ExactIs
    <3>5. \A f, g \in words : f = g
      BY <2>4 DEF ExactIs
    <3>6. (cjks # {} => \E f \in cjk : f.rule = "cjk") /\ (copies # {} => \E f \in words : f.rule = "words")
      BY <2>3, <2>4 DEF ExactIs
    <3>7. FoundHere(new)
      <4>1. ASSUME NEW f \in new, NEW g \in new PROVE f = g \/ {f.rule, g.rule} = {"cjk", "words"}
        <5>1. CASE f \in cjk /\ g \in cjk
          BY <3>4, <5>1
        <5>2. CASE f \in words /\ g \in words
          BY <3>5, <5>2
        <5>3. CASE f \in cjk /\ g \in words
          BY <3>2, <3>3, <5>3
        <5>4. CASE f \in words /\ g \in cjk
          BY <3>2, <3>3, <5>4
        <5>5. QED  BY <5>1, <5>2, <5>3, <5>4
      <4>2. \A f \in new :
              /\ f.source = nth
              /\ f.rule = "cjk" => <<f.manuscript, f.range>> \in cjks
              /\ f.rule = "words" => <<f.manuscript, f.range>> \in copies
        BY <3>2, <3>3
      <4>3. (cjks # {} => \E f \in new : f.rule = "cjk") /\ (copies # {} => \E f \in new : f.rule = "words")
        BY <3>6
      <4> HIDE DEF new
      <4>4. QED  BY <4>1, <4>2, <4>3 DEF FoundHere, cjks, copies, m, source
    <3>8. ScanSoFar'
      BY <2>1, <2>5, <3>1, <3>7, GoesToNext
    <3>9. QED  BY <1>1, <2>1, <3>1, <3>8 DEF ExactInv
  <2>7. CASE new = {}
    <3>1. pc' = "graphemes" /\ nth' = nth /\ findings' = findings
      BY <2>1, <2>5, <2>7 DEF Matched, Go
    <3>2. cjks = {} /\ copies = {}
      <4> HIDE DEF cjks, copies
      <4>1. cjk = {} /\ words = {}
        BY <2>7
      <4>2. QED  BY <2>3, <2>4, <4>1 DEF ExactIs
    <3>3. NoCopyHere'
      BY <2>1, <3>1, <3>2 DEF NoCopyHere, m, source
    <3>4. ScanSoFar'
      BY <1>1, <2>1, <3>1, StaysHere
    <3>5. QED  BY <1>1, <2>1, <3>1, <3>3, <3>4 DEF ExactInv
  <2>8. QED  BY <2>6, <2>7
<1>3. CASE GraphemeScan
  <2> DEFINE m == Mine.all
             s == Theirs.all
             mine == FixedWindows(m, Policy.cjk_window)
             theirs == FixedWindows(s, Policy.cjk_window)
             result == NgramWitness(m, mine, s, theirs, nth)
  <2>1. case' = case /\ pc = "graphemes" /\ Compared(result, FALSE)
    BY <1>3 DEF GraphemeScan, Graphemes
  <2> HIDE DEF m, s, mine, theirs
  <2>2. \/ result.findings = {}
        \/ /\ result.outcome = "found"
           /\ \E f : result.findings = {f} /\ f.source = nth /\ f.rule = "ngram"
    BY GramFindings
  <2> HIDE DEF result
  <2>3. QED  BY <2>1, <2>2, AfterWindows
<1>4. CASE WordScan
  <2> DEFINE m == CharRuns(Mine)
             s == CharRuns(Theirs)
             mine == WordWindows(Mine.char_runs, Policy.word_window)
             theirs == WordWindows(Theirs.char_runs, Policy.word_window)
             result == NgramWitness(m, mine, s, theirs, nth)
  <2>1. case' = case /\ pc = "words" /\ Compared(result, TRUE)
    BY <1>4 DEF WordScan, WordGrams
  <2> HIDE DEF m, s, mine, theirs
  <2>2. \/ result.findings = {}
        \/ /\ result.outcome = "found"
           /\ \E f : result.findings = {f} /\ f.source = nth /\ f.rule = "ngram"
    BY GramFindings
  <2> HIDE DEF result
  <2>3. QED  BY <2>1, <2>2, AfterWindows
<1>5. CASE Done
  <2>1. pc' = "done" /\ nth > Len(case.canon) /\ case' = case /\ nth' = nth /\ findings' = findings
    BY <1>5 DEF Done
  <2>2. ScanSoFar'
    BY <1>1, <2>1, StaysHere
  <2>3. QED  BY <1>1, <2>1, <2>2 DEF ExactInv
<1>6. CASE UNCHANGED vars
  <2>1. case' = case /\ nth' = nth /\ findings' = findings /\ pc' = pc
    BY <1>6 DEF vars
  <2>2. ScanSoFar'
    BY <1>1, <2>1, StaysHere
  <2>3. QED  BY <2>1, <2>2 DEF ExactInv, NoCopyHere
<1>7. QED  BY <1>2, <1>3, <1>4, <1>5, <1>6 DEF Next

\* copycheck.rs:144-215 and 463-520: a scan that ends has a finding for each source and exact
\* rule with a copy, and no other, and each names such a copy, for any texts, limits and policy.
THEOREM ExactScanIsExact ==
  Spec => [](NoCopyIsMissed /\ FindingsAreCopies /\ OneFindingEach)
<1>1. Init => ExactInv
  <2> SUFFICES ASSUME Init PROVE ExactInv
    OBVIOUS
  <2>1. /\ \E cases \in Cases : case \in cases
        /\ nth = 1 /\ findings = {} /\ pc = "exact"
    BY DEF Init
  <2>2. \A k \in DOMAIN case.canon : ~(k < nth)
    <3>1. case.canon \in Seq(Source)
      BY <2>1, TextAssumption
    <3>2. QED  BY <2>1, <3>1
  <2>3. ScanSoFar
    BY <2>1, <2>2 DEF ScanSoFar, FindingsAreCopies, OneFindingEach
  <2>4. QED  BY <2>1, <2>3 DEF ExactInv
<1>2. ExactInv /\ [Next]_vars => ExactInv'
  BY ExactScanGoesOn
<1>3. ExactInv => NoCopyIsMissed /\ FindingsAreCopies /\ OneFindingEach
  <2> SUFFICES ASSUME ExactInv PROVE NoCopyIsMissed /\ FindingsAreCopies /\ OneFindingEach
    OBVIOUS
  <2>1. ASSUME pc = "done", NEW k \in DOMAIN case.canon PROVE CopyFound(k)
    <3>1. case.canon \in Seq(Source) /\ nth \in Nat /\ nth > Len(case.canon)
      BY <2>1, TextsNow DEF ExactInv
    <3>2. k < nth
      BY <3>1
    <3>3. QED  BY <3>2 DEF ExactInv, ScanSoFar
  <2>2. NoCopyIsMissed
    BY <2>1 DEF NoCopyIsMissed, CopyFound
  <2>3. QED  BY <2>2 DEF ExactInv, ScanSoFar
<1>4. QED  BY <1>1, <1>2, <1>3, PTL DEF Spec

\* copycheck.rs:144-215: the findings of a scan are the copies a policy forbids, all of them and
\* nothing else, unless it stops for its budget, for any texts and limits.
THEOREM ScanIsExact ==
  ASSUME WindowsOverlap
  PROVE  Spec => []FindsTheCopies
<1>1. Spec => [](NoOverlapIsMissed /\ OverlapsAreReal)
  BY GramScanIsExact
<1>2. Spec => [](NoCopyIsMissed /\ FindingsAreCopies /\ OneFindingEach)
  BY ExactScanIsExact
<1>3. /\ NoOverlapIsMissed /\ OverlapsAreReal
      /\ NoCopyIsMissed /\ FindingsAreCopies /\ OneFindingEach
      => FindsTheCopies
  BY DEF FindsTheCopies
<1>4. QED  BY <1>1, <1>2, <1>3, PTL
===============================================================================
