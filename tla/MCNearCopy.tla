------------------------------ MODULE MCNearCopy ------------------------------
(****************************************************************************)
(* Instances of NearCopy: graphemes 1 and 2 are CJK, 3 and 4 are letters, 5 *)
(* is a symbol and 0 a blank; windows have a few graphemes or words.        *)
(****************************************************************************)
EXTENDS NearCopy

Ideographs == {1, 2}
Latin == {3, 4}
Other == {5}

Texts(graphemes, lengths) == UNION {[1 .. n -> graphemes] : n \in lengths}

Plain(text) == [text |-> text, exempt |-> {}]

\* Limits that no scan of these texts reaches, and limits that many do.
Wide == [verifications |-> 9, classes |-> 9, items |-> 30]

Tight == [verifications |-> 1, classes |-> 2, items |-> 9]

Case(m, sources, limits) == [manuscript |-> m, canon |-> sources, limits |-> limits]

Pairs(mine, theirs, exempt) ==
  {Case(m, <<[text |-> s, exempt |-> e]>>, Wide) : m \in mine, s \in theirs, e \in exempt}

\* Two sources under tight limits.
Two(mine, theirs) ==
  {Case(m, <<Plain(s), Plain(t)>>, Tight) : m \in mine, s \in theirs, t \in theirs}

NoDouble(text) == \A i \in 1 .. Len(text) - 1 : {text[i], text[i + 1]} # {0}

\* Words of one to three letters, no blank at either end.
Sentences(length) ==
  {t \in Texts(Latin \cup {0}, {length}) : NoDouble(t) /\ t[1] # 0 /\ t[length] # 0}

Small ==
  [exact_cjk |-> 4, exact_words |-> 3, ngram |-> 2, cjk_window |-> 4, word_window |-> 2, percent |-> 60]

CopyCases ==
  {Pairs(Texts({1, 2}, {4, 5}), Texts({1, 2}, {4, 5, 6}), {{}, {<<1, 5>>}}),
   Pairs(Sentences(5), Sentences(6), {{}, {<<1, 4>>}}),
   Pairs(Texts({0, 1, 3}, {5}), {t \in Texts({0, 1, 3}, {5}) : t[1] # 0 /\ t[2] # 0}, {{}}),
   Pairs(Texts({0, 3, 5}, {5}), {t \in Texts({0, 3, 5}, {5}) : t[1] = 3 /\ t[5] = 3}, {{}}),
   Two({t \in Texts({1, 2}, {5}) : t[1] = 1}, Texts({1, 2}, {5}))}

\* Windows of one word that have several n-grams, as in tests/source_context.rs:796.
Short == [Small EXCEPT !.word_window = 1]

WordCases == {Pairs(Sentences(5), Sentences(5), {{}})}
===============================================================================
