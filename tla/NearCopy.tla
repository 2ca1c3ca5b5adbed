------------------------------- MODULE NearCopy -------------------------------
(****************************************************************************)
(* The near-copy scan of copycheck.rs, and the gate of workflow.rs that     *)
(* runs it on a chapter.  A text is a sequence of graphemes, each a number  *)
(* that is already normalized and stands for one grapheme afterwards; its   *)
(* byte ranges are those of its indices.  The keys of n-grams are numbers,  *)
(* equal if and only if the n-grams are, as are those of exact windows.     *)
(****************************************************************************)
EXTENDS Integers, Sequences, SequencesExt

CONSTANTS
  Cjk, Letter, Symbol,   \* graphemes; symbols are neither, nor spacing or punctuation
  Blank,                 \* spacing and punctuation
  Base,                  \* larger than every grapheme
  Cases,                 \* sets of [manuscript, canon, limits]: texts that may meet
  Policy,                \* a CopyPolicy
  None

ASSUME CopyAssumption ==
  /\ Base \in Nat /\ Blank = 0 /\ Cjk \cup Letter \cup Symbol \subseteq 1 .. Base - 1
  /\ Cjk \cap Letter = {} /\ Symbol \cap (Cjk \cup Letter) = {}
  /\ {Policy.exact_cjk, Policy.exact_words, Policy.ngram, Policy.cjk_window, Policy.word_window}
       \subseteq Nat \ {0}
  /\ Policy.cjk_window >= Policy.ngram
  /\ Policy.percent \in 0 .. 100

Text == Seq(Cjk \cup Letter \cup Symbol \cup {Blank})

\* An AllowedSource with the ranges that are exempt.
Source == [text : Text, exempt : SUBSET (Nat \X Nat)]

ASSUME TextAssumption ==
  \A cases \in Cases : \A c \in cases : c.manuscript \in Text /\ c.canon \in Seq(Source)

VARIABLES
  case,        \* the texts of this scan, and its limits
  nth,         \* the source that is scanned next
  used,        \* budget.verifications
  findings,
  pc           \* "exact", "graphemes", "words", "done", "exceeded" or "panicked"

vars == <<case, nth, used, findings, pc>>

(****************************************************************************)
(* NormalizedText.                                                          *)
(****************************************************************************)
Token(t, i) == [t |-> t, from |-> i, to |-> i]

NoRuns ==
  [cjk |-> <<>>, cjk_runs |-> <<>>, word |-> <<>>, words |-> <<>>, word_runs |-> <<>>,
   chars |-> <<>>, starts |-> <<>>, char_runs |-> <<>>, all |-> <<>>]

EndWord(r) == [r EXCEPT !.words = @ \o r.word, !.word = <<>>]

Pushed(runs, run, new) == IF run = <<>> THEN runs ELSE Append(runs, new)

EndWordRun(r) ==
  LET e == EndWord(r)
  IN  [e EXCEPT !.word_runs = Pushed(@, e.words, e.words), !.words = <<>>,
                !.char_runs = Pushed(@, e.chars, [tokens |-> e.chars, starts |-> e.starts]),
                !.chars = <<>>, !.starts = <<>>]

EndCjk(r) == [r EXCEPT !.cjk_runs = Pushed(@, r.cjk, r.cjk), !.cjk = <<>>]

InWord(r, c, i) ==
  IF r.word = <<>>
  THEN [r EXCEPT !.word = <<[t |-> <<c>>, from |-> i, to |-> i]>>, !.starts = Append(@, Len(r.chars) + 1)]
  ELSE [r EXCEPT !.word = <<[r.word[1] EXCEPT !.t = Append(@, c), !.to = i]>>]

\* One grapheme of the text.
Grapheme(r, c, i) ==
  LET seen == [r EXCEPT !.all = Append(@, Token(c, i))]
      other == [EndCjk(seen) EXCEPT !.chars = Append(@, Token(c, i))]
  IN  CASE c = Blank -> IF r.word = <<>> THEN r
                        ELSE [EndWord(r) EXCEPT !.chars = Append(@, Token(Blank, i))]
        [] c \in Cjk -> [EndWordRun(seen) EXCEPT !.cjk = Append(@, Token(c, i))]
        [] c \in Letter -> [InWord(EndCjk(seen), c, i) EXCEPT !.chars = other.chars]
        [] c \in Symbol -> other

ReadAll(text) ==
  LET read[n \in 0 .. Len(text)] ==
        IF n = 0 THEN NoRuns ELSE Grapheme(read[n - 1], text[n], n)
  IN  read[Len(text)]

Normalized(text) ==
  LET end == EndCjk(EndWordRun(ReadAll(text)))
  IN  [end EXCEPT !.all = Pushed(<<>>, end.all, end.all)]

(****************************************************************************)
(* Windows.                                                                 *)
(****************************************************************************)
FixedWindows(runs, width) ==
  FlattenSeq([r \in DOMAIN runs |->
    [k \in 1 .. Len(runs[r]) - width + 1 |-> [run |-> r, start |-> k, end |-> k + width - 1]]])

WordWindowEnd(run, k, count) ==
  IF k + count > Len(run.starts) THEN Len(run.tokens) ELSE run.starts[k + count] - 2

WordWindows(runs, count) ==
  FlattenSeq([r \in DOMAIN runs |->
    [k \in 1 .. Len(runs[r].starts) - count + 1 |->
      [run |-> r, start |-> runs[r].starts[k], end |-> WordWindowEnd(runs[r], k, count)]]])

TextOf(runs, w) == [k \in 1 .. w.end - w.start + 1 |-> runs[w.run][w.start + k - 1].t]

RangeOf(runs, w) == <<runs[w.run][w.start].from, runs[w.run][w.end].to>>

Exempt(source, range) == \E e \in source.exempt : e[1] <= range[1] /\ range[2] <= e[2]

Finding(k, mrange, srange, rule, score) ==
  [source |-> k, manuscript |-> mrange, range |-> srange, rule |-> rule, score |-> score]

\* The first window of the manuscript that a window of the source, itself the first, equals.
ExactWitness(mruns, sruns, k, threshold, rule) ==
  LET source == case.canon[k]
      mine == FixedWindows(mruns, threshold)
      theirs == FixedWindows(sruns, threshold)
      Same(a, b) == /\ ~Exempt(source, RangeOf(sruns, theirs[b]))
                    /\ TextOf(mruns, mine[a]) = TextOf(sruns, theirs[b])
      hits == {a \in DOMAIN mine : \E b \in DOMAIN theirs : Same(a, b)}
  IN  IF hits = {} THEN {}
      ELSE LET a == Min(hits)
               b == Min({x \in DOMAIN theirs : Same(a, x)})
           IN  {Finding(k, RangeOf(mruns, mine[a]), RangeOf(sruns, theirs[b]), rule, 100)}

(****************************************************************************)
(* n-grams.                                                                 *)
(****************************************************************************)
GramCount(w) == Max({w.end - w.start + 2 - Policy.ngram, 0})

Key(gram) ==
  LET key[n \in 0 .. Len(gram)] == IF n = 0 THEN 0 ELSE key[n - 1] * Base + gram[n]
  IN  key[Len(gram)]

\* ngram_fingerprints of a whole run.
Fingerprints(run) ==
  [k \in 1 .. Len(run) - Policy.ngram + 1 |->
    Key([i \in 1 .. Policy.ngram |-> run[k + i - 1].t])]

WindowCounts(hashes, w) == ToBag(SubSeq(hashes, w.start, w.start + GramCount(w) - 1))

RequiredOverlap(count) == (count * Policy.percent + 99) \div 100

\* Mutant: one too short.
ShortPrefix(count) == count - RequiredOverlap(count)

PrefixLength(count) == Min({count - RequiredOverlap(count) + 1, count})

\* The keys among the first elements of a multiset in the order of keys.
PrefixKeys(counts, needed) ==
  {key \in BagToSet(counts) :
     SumFunctionOnSet(counts, {x \in BagToSet(counts) : x < key}) < needed}

MultisetOverlap(a, b) ==
  LET common == BagToSet(a) \cap BagToSet(b)
  IN  SumFunctionOnSet([x \in common |-> Min({a[x], b[x]})], common)

\* How many n-grams there are, each as often as it occurs.
Size(counts) == SumFunctionOnSet(counts, BagToSet(counts))

Prefix(counts) == PrefixKeys(counts, PrefixLength(Size(counts)))

\* build_ngram_classes: windows that have an n-gram at all, under their old indices.
Classes(runs, windows) ==
  [i \in {j \in DOMAIN windows : GramCount(windows[j]) > 0} |->
    LET counts == WindowCounts(Fingerprints(runs[windows[i].run]), windows[i])
    IN  [window |-> windows[i], signature |-> counts, prefix |-> Prefix(counts)]]

\* Mutant: an n-gram too many is removed when the window moves.
Removed(hashes, from, to) == SubSeq(hashes, from.start, to.start)

Gone(hashes, from, to) == SubSeq(hashes, from.start, to.start - 1)

\* advance_window_counts, and when it does not panic.
Advances(counts, hashes, from, to) ==
  /\ from.start <= to.start /\ to.start - 1 <= Len(hashes)
  /\ from.start + GramCount(from) <= to.start + GramCount(to)
  /\ to.start + GramCount(to) - 1 <= Len(hashes)
  /\ ToBag(Gone(hashes, from, to)) \sqsubseteq counts

Advance(counts, hashes, from, to) ==
  (counts (-) ToBag(Gone(hashes, from, to)))
    (+) ToBag(SubSeq(hashes, from.start + GramCount(from), to.start + GramCount(to) - 1))

\* The classes that share a key with the prefix of the source's window are verified in the
\* order of that key, until one has enough in common.
Candidates(classes, prefix) == {c \in DOMAIN classes : classes[c].prefix \cap prefix # {}}

FirstKey(class, prefix) == Min(class.prefix \cap prefix)

NotAfter(classes, prefix, c, d) ==
  \/ FirstKey(classes[c], prefix) < FirstKey(classes[d], prefix)
  \/ FirstKey(classes[c], prefix) = FirstKey(classes[d], prefix) /\ c <= d

Larger(class, counts) == Max({Size(counts), Size(class.signature)})

Close(class, counts) ==
  MultisetOverlap(counts, class.signature) >= RequiredOverlap(Larger(class, counts))

Score(class, counts) ==
  (MultisetOverlap(counts, class.signature) * 100) \div Larger(class, counts)

Tried(classes, prefix, candidates, hits) ==
  {c \in candidates : \A d \in hits : NotAfter(classes, prefix, c, d)}

Left(state) == case.limits.verifications - state.used

Counted(state, classes, counts, tried, hits) ==
  IF Cardinality(tried) > Left(state)
  THEN [state EXCEPT !.used = case.limits.verifications, !.outcome = "exceeded"]
  ELSE IF hits = {} THEN [state EXCEPT !.used = @ + Cardinality(tried)]
  ELSE LET hit == CHOOSE c \in hits : c \in tried
       IN  [state EXCEPT !.used = @ + Cardinality(tried), !.outcome = "found",
                         !.hit = <<hit, Score(classes[hit], counts)>>]

Verified(state, classes, counts, prefix) ==
  LET Judge(candidates, hits) ==
        Counted(state, classes, counts, Tried(classes, prefix, candidates, hits), hits)
      Narrow(candidates) == Judge(candidates, {c \in candidates : Close(classes[c], counts)})
  IN  Narrow(Candidates(classes, prefix))

Compare(state, w, counts, classes, exempt) ==
  LET next == [state EXCEPT !.window = w, !.counts = counts]
  IN  IF exempt THEN next ELSE Verified(next, classes, counts, Prefix(counts))

\* The counts of a window follow from those of the window before it in the same run.
Slide(state, w, hashes, classes, exempt) ==
  IF state.window = None \/ state.window.run # w.run
  THEN Compare(state, w, WindowCounts(hashes, w), classes, exempt)
  ELSE IF Advances(state.counts, hashes, state.window, w)
  THEN Compare(state, w, Advance(state.counts, hashes, state.window, w), classes, exempt)
  ELSE [state EXCEPT !.outcome = "panicked"]

\* One window of the source.
Visit(state, w, sruns, source, classes) ==
  IF state.outcome # "none" \/ GramCount(w) = 0 THEN state
  ELSE IF Policy.percent = 0
  THEN IF Exempt(source, RangeOf(sruns, w)) THEN state
       ELSE [state EXCEPT !.window = w, !.outcome = "found", !.hit = <<Min(DOMAIN classes), 0>>]
  ELSE Slide(state, w, Fingerprints(sruns[w.run]), classes, Exempt(source, RangeOf(sruns, w)))

Witness(end, mruns, classes, sruns, k) ==
  [used |-> end.used, outcome |-> end.outcome,
   findings |-> IF end.outcome # "found" THEN {}
     ELSE {Finding(k, RangeOf(mruns, classes[end.hit[1]].window), RangeOf(sruns, end.window),
                   "ngram", end.hit[2])}]

NoWitness(outcome) == [used |-> used, outcome |-> outcome, findings |-> {}]

Start == [window |-> None, counts |-> EmptyBag, used |-> used, outcome |-> "none", hit |-> None]

VisitAll(theirs, sruns, source, classes) ==
  LET after[n \in 0 .. Len(theirs)] ==
        IF n = 0 THEN Start ELSE Visit(after[n - 1], theirs[n], sruns, source, classes)
  IN  after[Len(theirs)]

SearchClasses(mruns, classes, sruns, theirs, k) ==
  IF DOMAIN classes = {} THEN NoWitness("none")
  ELSE Witness(VisitAll(theirs, sruns, case.canon[k], classes), mruns, classes, sruns, k)

TooMany(windows) ==
  \/ Len(windows) > case.limits.classes
  \/ FoldLeft(LAMBDA sum, w : sum + GramCount(w), 0, windows) > case.limits.items

NgramWitness(mruns, mine, sruns, theirs, k) ==
  IF mine = <<>> \/ theirs = <<>> THEN NoWitness("none")
  ELSE IF TooMany(mine) THEN NoWitness("exceeded")
  ELSE SearchClasses(mruns, Classes(mruns, mine), sruns, theirs, k)

(****************************************************************************)
(* The scan, one source after the other, in the order of their names: first *)
(* the exact windows, then the n-grams of the whole text, then of words.    *)
(****************************************************************************)
Init ==
  /\ \E cases \in Cases : case \in cases
  /\ nth = 1 /\ used = 0 /\ findings = {}
  /\ pc = "exact"

CharRuns(text) == [r \in DOMAIN text.char_runs |-> text.char_runs[r].tokens]

NextSource == pc' = "exact" /\ nth' = nth + 1

Go(stage) == pc' = stage /\ UNCHANGED nth

Mine == Normalized(case.manuscript)

Theirs == Normalized(case.canon[nth].text)

Matched(exact) ==
  /\ findings' = findings \cup exact
  /\ IF exact # {} THEN NextSource ELSE Go("graphemes")

Exact(m, s) ==
  Matched(ExactWitness(m.cjk_runs, s.cjk_runs, nth, Policy.exact_cjk, "cjk")
            \cup ExactWitness(m.word_runs, s.word_runs, nth, Policy.exact_words, "words"))

ExactScan ==
  /\ pc = "exact" /\ nth <= Len(case.canon)
  /\ Exact(Mine, Theirs)
  /\ UNCHANGED <<case, used>>

\* What found no copy goes on with the words, or the next source.
Compared(result, last) ==
  /\ findings' = findings \cup result.findings
  /\ used' = result.used
  /\ CASE result.outcome \in {"exceeded", "panicked"} -> Go(result.outcome)
       [] result.outcome = "none" /\ ~last -> Go("words")
       [] OTHER -> NextSource

Graphemes(m, s) ==
  Compared(NgramWitness(m.all, FixedWindows(m.all, Policy.cjk_window),
                        s.all, FixedWindows(s.all, Policy.cjk_window), nth), FALSE)

GraphemeScan ==
  /\ pc = "graphemes"
  /\ Graphemes(Mine, Theirs)
  /\ UNCHANGED case

WordGrams(m, s) ==
  Compared(NgramWitness(CharRuns(m), WordWindows(m.char_runs, Policy.word_window),
                        CharRuns(s), WordWindows(s.char_runs, Policy.word_window), nth), TRUE)

WordScan ==
  /\ pc = "words"
  /\ WordGrams(Mine, Theirs)
  /\ UNCHANGED case

Done ==
  /\ pc = "exact" /\ nth > Len(case.canon)
  /\ pc' = "done"
  /\ UNCHANGED <<case, nth, used, findings>>

Next == ExactScan \/ GraphemeScan \/ WordScan \/ Done

Spec == Init /\ [][Next]_vars

(****************************************************************************)
(* What a copy is, without runs, indexes, prefixes or sliding counts.       *)
(****************************************************************************)
InOrder(tokens) ==
  [k \in 1 .. Cardinality(tokens) |->
    (CHOOSE x \in tokens : Cardinality({y \in tokens : y.from <= x.from}) = k).t]

Within(units, a, b) == {u \in units : a <= u.from /\ u.to <= b}

\* Ranges of as many units as width says, from the first to the last, that no break divides.
Spans(units, breaks, width) ==
  {s \in {u.from : u \in units} \X {u.to : u \in units} :
     /\ breaks \cap (s[1] .. s[2]) = {}
     /\ Cardinality(Within(units, s[1], s[2])) = width}

Read(units, span) == InOrder(Within(units, span[1], span[2]))

Tokens(text, positions, letters) ==
  {Token(text[i], i) : i \in {j \in positions : text[j] \in letters}}

\* CJK graphemes count one by one; blanks do not divide them.
CjkUnits(text) == Tokens(text, DOMAIN text, Cjk)

CjkSpans(text) ==
  Spans(CjkUnits(text), {i \in DOMAIN text : text[i] \notin Cjk \cup {Blank}}, Policy.exact_cjk)

CjkCopies(m, source) ==
  {p \in CjkSpans(m) \X CjkSpans(source.text) :
     /\ Read(CjkUnits(m), p[1]) = Read(CjkUnits(source.text), p[2])
     /\ ~Exempt(source, p[2])}

\* A word is letters between blanks or CJK graphemes; symbols are passed over.
Joined(text, a, b) == \A i \in a .. b : text[i] \in Letter \cup Symbol

WordSpan(text, a, b) ==
  /\ a <= b /\ Joined(text, a, b) /\ {text[a], text[b]} \subseteq Letter
  /\ ~\E i \in DOMAIN text :
        text[i] \in Letter /\ ((i < a /\ Joined(text, i, a)) \/ (b < i /\ Joined(text, b, i)))

Word(text, a, b) == [t |-> InOrder(Tokens(text, a .. b, Letter)), from |-> a, to |-> b]

WordUnits(text) ==
  {Word(text, s[1], s[2]) : s \in {x \in (DOMAIN text) \X (DOMAIN text) : WordSpan(text, x[1], x[2])}}

WordSpans(text) ==
  Spans(WordUnits(text), {i \in DOMAIN text : text[i] \in Cjk}, Policy.exact_words)

WordCopies(m, source) ==
  {p \in WordSpans(m) \X WordSpans(source.text) :
     /\ Read(WordUnits(m), p[1]) = Read(WordUnits(source.text), p[2])
     /\ ~Exempt(source, p[2])}

\* Pairs of windows with enough n-grams in common.
Overlapping(mruns, mine, sruns, theirs, source) ==
  LET Grams(runs, w) == ToBag(SubSeq(Fingerprints(runs[w.run]), w.start, w.start + GramCount(w) - 1))
  IN  {p \in Range(mine) \X Range(theirs) :
         /\ GramCount(p[1]) > 0 /\ GramCount(p[2]) > 0
         /\ ~Exempt(source, RangeOf(sruns, p[2]))
         /\ MultisetOverlap(Grams(mruns, p[1]), Grams(sruns, p[2])) * 100
              >= Policy.percent * Max({GramCount(p[1]), GramCount(p[2])})}

Overlaps(mruns, mine, sruns, theirs, source) ==
  {<<RangeOf(mruns, p[1]), RangeOf(sruns, p[2])>> :
     p \in Overlapping(mruns, mine, sruns, theirs, source)}

GraphemeOverlaps(m, s, source) ==
  Overlaps(m.all, FixedWindows(m.all, Policy.cjk_window),
           s.all, FixedWindows(s.all, Policy.cjk_window), source)

WordOverlaps(m, s, source) ==
  Overlaps(CharRuns(m), WordWindows(m.char_runs, Policy.word_window),
           CharRuns(s), WordWindows(s.char_runs, Policy.word_window), source)

GramCopies(m, source) ==
  GraphemeOverlaps(Normalized(m), Normalized(source.text), source)
    \cup WordOverlaps(Normalized(m), Normalized(source.text), source)

(****************************************************************************)
(* Properties.                                                              *)
(****************************************************************************)
Found(k, rules) == \E f \in findings : f.source = k /\ f.rule \in rules

\* copycheck.rs:144-215: a scan that ends has a finding for each source a text was copied from,
\* of each exact rule that applies.
NoCopyIsMissed ==
  pc = "done" =>
    \A k \in DOMAIN case.canon :
      /\ CjkCopies(case.manuscript, case.canon[k]) # {} => Found(k, {"cjk"})
      /\ WordCopies(case.manuscript, case.canon[k]) # {} => Found(k, {"words"})

\* copycheck.rs:738-861: it has one too for each source with a window like one of the text,
\* whatever prefixes, sliding counts and budgets did.
NoOverlapIsMissed ==
  pc = "done" =>
    \A k \in DOMAIN case.canon :
      GramCopies(case.manuscript, case.canon[k]) # {} => Found(k, {"cjk", "words", "ngram"})

\* copycheck.rs:144 and 463-520: an exact finding names ranges that are such a copy, outside
\* what is exempt.
FindingsAreCopies ==
  \A f \in findings :
    LET m == case.manuscript
        source == case.canon[f.source]
    IN  /\ f.rule = "cjk" => <<f.manuscript, f.range>> \in CjkCopies(m, source)
        /\ f.rule = "words" => <<f.manuscript, f.range>> \in WordCopies(m, source)

\* copycheck.rs:144: "at most one non-exempt blocker per source and rule", and none of the n-gram
\* rule beside an exact one.
OneFindingEach ==
  \A f, g \in findings :
    f.source = g.source => f = g \/ {f.rule, g.rule} = {"cjk", "words"}

\* copycheck.rs:845-856: a finding of the n-gram rule names two windows with enough n-grams in
\* common, outside what is exempt, and a score that reaches the policy.
OverlapsAreReal ==
  \A f \in findings :
    f.rule = "ngram" =>
      /\ <<f.manuscript, f.range>> \in GramCopies(case.manuscript, case.canon[f.source])
      /\ f.score >= Policy.percent

\* The scan finds the copies a policy forbids, all of them, and nothing else, or it stops for
\* its budget.
FindsTheCopies ==
  NoCopyIsMissed /\ NoOverlapIsMissed /\ FindingsAreCopies /\ OverlapsAreReal /\ OneFindingEach

\* copycheck.rs:968: "sliding multiset must contain removed n-gram", in a scan with any texts
\* whose policy was validated.  It holds where WindowsOverlap does, as under the default policy
\* (80 words, 8-grams), and not for windows of few words.
SlidingNeverPanics == pc # "panicked"

\* A window of words begins among the n-grams of the one before, however short the words are.
WindowsOverlap == 2 * Policy.word_window - 2 >= Policy.ngram
===============================================================================
