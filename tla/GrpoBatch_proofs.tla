-------------------------- MODULE GrpoBatch_proofs --------------------------
(***************************************************************************)
(* Theorems about GrpoBatch for every number of prompts, responses, ranks  *)
(* and rows of a micro-batch, and every length that fits.  The first part  *)
(* is about one row: what the actor makes of a padded row is what the      *)
(* server saw.  The second follows the rows through a step.                *)
(***************************************************************************)
EXTENDS GrpoBatch, SequenceTheorems, FiniteSetTheorems, TLAPS

-----------------------------------------------------------------------------
(* Sequences whose elements are of no particular set *)

IsSeq(f, n) == f = [i \in 1 .. n |-> f[i]]

LEMMA SeqOf ==
  ASSUME NEW n \in Nat, NEW f, IsSeq(f, n), NEW S, \A i \in 1 .. n : f[i] \in S
  PROVE  f \in Seq(S) /\ Len(f) = n /\ DOMAIN f = 1 .. n
<1>1. f \in [1 .. n -> S]
  BY DEF IsSeq
<1>2. f \in Seq(S)
  BY <1>1, SeqDef
<1>3. Len(f) \in Nat /\ DOMAIN f = 1 .. Len(f) /\ DOMAIN f = 1 .. n
  BY <1>1, <1>2, LenProperties
<1>4. Len(f) = n
  <2> DEFINE k == Len(f)
  <2>1. k \in Nat /\ 1 .. k = 1 .. n
    BY <1>3
  <2> HIDE DEF k
  <2>2. k \in 1 .. k => k \in 1 .. n
    BY <2>1
  <2>3. n \in 1 .. n => n \in 1 .. k
    BY <2>1
  <2>4. k = n
    BY <2>1, <2>2, <2>3
  <2> QED BY <2>4 DEF k
<1> QED BY <1>2, <1>3, <1>4

LEMMA LenOf ==
  ASSUME NEW n \in Nat, NEW f, IsSeq(f, n)
  PROVE  Len(f) = n /\ DOMAIN f = 1 .. n
<1> DEFINE S == {f[i] : i \in 1 .. n}
<1>1. \A i \in 1 .. n : f[i] \in S
  OBVIOUS
<1> HIDE DEF S
<1> QED BY <1>1, SeqOf

\* Opaque to the provers, which would take the operators apart.
Cat(f, g) == f \o g
Sub(f, a, b) == SubSeq(f, a, b)

LEMMA ConcatOf ==
  ASSUME NEW n \in Nat, NEW m \in Nat, NEW f, NEW g, IsSeq(f, n), IsSeq(g, m)
  PROVE  /\ IsSeq(Cat(f, g), n + m)
         /\ \A i \in 1 .. n : Cat(f, g)[i] = f[i]
         /\ \A i \in n + 1 .. n + m : Cat(f, g)[i] = g[i - n]
<1> DEFINE S == {f[i] : i \in 1 .. n} \cup {g[i] : i \in 1 .. m}
<1>1. (\A i \in 1 .. n : f[i] \in S) /\ (\A i \in 1 .. m : g[i] \in S)
  OBVIOUS
<1> HIDE DEF S
<1>2. f \in Seq(S) /\ g \in Seq(S) /\ Len(f) = n /\ Len(g) = m
  BY <1>1, SeqOf
<1>3. PICK h : h = f \o g
  OBVIOUS
<1>4. /\ h \in Seq(S) /\ Len(h) = n + m
      /\ \A i \in 1 .. n + m : h[i] = IF i <= n THEN f[i] ELSE g[i - n]
  BY <1>2, <1>3, ConcatProperties
<1>5. h \in [1 .. (n + m) -> S]
  BY <1>4, LenProperties
<1>6. IsSeq(h, n + m)
  BY <1>5 DEF IsSeq
<1>7. (\A i \in 1 .. n : h[i] = f[i]) /\ (\A i \in n + 1 .. n + m : h[i] = g[i - n])
  BY <1>4
<1>8. h = Cat(f, g)
  BY <1>3 DEF Cat
<1> QED BY <1>6, <1>7, <1>8

LEMMA SubOf ==
  ASSUME NEW f, NEW a \in Int, NEW b \in Int, a <= b + 1
  PROVE  /\ IsSeq(Sub(f, a, b), b - a + 1)
         /\ \A i \in 1 .. (b - a + 1) : Sub(f, a, b)[i] = f[a + i - 1]
<1> DEFINE S == {f[i] : i \in a .. b}
<1>1. \A i \in a .. b : f[i] \in S
  OBVIOUS
<1> HIDE DEF S
<1>2. PICK h : h = SubSeq(f, a, b)
  OBVIOUS
<1>3. /\ h \in Seq(S) /\ Len(h) = (IF a <= b THEN b - a + 1 ELSE 0)
      /\ \A i \in 1 .. b - a + 1 : h[i] = f[a + i - 1]
  BY <1>1, <1>2, SubSeqProperties
<1>4. Len(h) = b - a + 1
  BY <1>3
<1>5. h \in [1 .. (b - a + 1) -> S]
  BY <1>3, <1>4, LenProperties
<1>6. IsSeq(h, b - a + 1)
  BY <1>5 DEF IsSeq
<1>7. h = Sub(f, a, b)
  BY <1>2 DEF Sub
<1> QED BY <1>3, <1>6, <1>7

-----------------------------------------------------------------------------
(* One row: the tokens *)

\* Length of a prompt with its markers, and the padding to its left.
Length(p) == 3 + length.question[p]
Missing(p) == PromptLength - Length(p)

LEMMA LengthFacts ==
  ASSUME length \in Lengths, NEW p \in Prompts, NEW s \in Samples
  PROVE  /\ PromptLength \in Nat /\ ResponseLength \in Nat /\ Channels \in Nat \ {0}
         /\ length.question[p] \in Nat \ {0} /\ Length(p) \in Nat /\ Length(p) >= 4
         /\ Missing(p) \in Nat /\ Length(p) + Missing(p) = PromptLength
         /\ length.response[s] \in 1 .. ResponseLength
<1>1. /\ length.question \in [Prompts -> 1 .. (PromptLength - 3)]
      /\ length.response \in [Samples -> 1 .. ResponseLength]
  BY LengthsFit
<1>2. PromptLength \in Nat /\ ResponseLength \in Nat \ {0} /\ Channels \in Nat \ {0}
  BY Sizes
<1> QED BY <1>1, <1>2 DEF Length, Missing

LEMMA PromptOf ==
  ASSUME length \in Lengths, NEW p \in Prompts, NEW s \in Samples
  PROVE  /\ IsSeq(Prompt(p), Length(p)) /\ Len(Prompt(p)) = Length(p)
         /\ Prompt(p)[1] \notin {Begin, End} /\ Prompt(p)[2] = Begin /\ Prompt(p)[3] = End
         /\ Begin # End
         /\ \A i \in 1 .. Length(p) : Prompt(p)[i] # Pad
<1> DEFINE h == <<<<"user">>, Begin, End>>
           f == [i \in 1 .. length.question[p] |-> <<"question", p, i>>]
<1>1. length.question[p] \in Nat /\ Length(p) \in Nat /\ Length(p) >= 4
  BY LengthFacts
<1>2. IsSeq(h, 3) /\ h[1] = <<"user">> /\ h[2] = Begin /\ h[3] = End
  BY DEF IsSeq
<1>3. IsSeq(f, length.question[p])
  BY DEF IsSeq
<1>4. \A i \in 1 .. length.question[p] : f[i] # Pad
  <2>1. \A i : <<"question", p, i>>[1] = "question"
    OBVIOUS
  <2>2. Pad[1] = "pad"
    BY DEF Pad
  <2> QED BY <2>1, <2>2
<1>5. Prompt(p) = Cat(h, f)
  BY DEF Prompt, Cat
<1> HIDE DEF h, f
<1>6. /\ IsSeq(Cat(h, f), 3 + length.question[p])
      /\ \A i \in 1 .. 3 : Cat(h, f)[i] = h[i]
      /\ \A i \in 4 .. 3 + length.question[p] : Cat(h, f)[i] = f[i - 3]
  BY <1>1, <1>2, <1>3, ConcatOf
<1>7. IsSeq(Prompt(p), Length(p)) /\ Len(Prompt(p)) = Length(p)
  BY <1>1, <1>5, <1>6, LenOf DEF Length
<1>8. Prompt(p)[1] = <<"user">> /\ Prompt(p)[2] = Begin /\ Prompt(p)[3] = End
  <2>1. 1 \in 1 .. 3 /\ 2 \in 1 .. 3 /\ 3 \in 1 .. 3
    OBVIOUS
  <2> QED BY <2>1, <1>2, <1>5, <1>6
<1>9. <<"user">> \notin {Begin, End, Pad} /\ Begin # End /\ Begin # Pad /\ End # Pad
  BY DEF Begin, End, Pad
<1>10. ASSUME NEW i \in 1 .. Length(p)
       PROVE  Prompt(p)[i] # Pad
  <2>1. CASE i \in 1 .. 3
    BY <2>1, <1>8, <1>9
  <2>2. CASE i \in 4 .. 3 + length.question[p]
    <3>1. i - 3 \in 1 .. length.question[p]
      BY <1>1, <2>2
    <3> QED BY <2>2, <3>1, <1>4, <1>5, <1>6
  <2> QED BY <1>1, <2>1, <2>2 DEF Length
<1> QED BY <1>7, <1>8, <1>9, <1>10

LEMMA ResponseOf ==
  ASSUME length \in Lengths, NEW s \in Samples
  PROVE  /\ IsSeq(Response(s), length.response[s]) /\ Len(Response(s)) = length.response[s]
         /\ \A i \in 1 .. length.response[s] : Response(s)[i] # Pad
<1>1. length.response[s] \in Nat
  BY LengthsFit, Sizes
<1>2. IsSeq(Response(s), length.response[s])
  BY DEF Response, IsSeq
<1>3. \A i : <<"response", s, i>>[1] = "response"
  OBVIOUS
<1>4. Pad[1] = "pad"
  BY DEF Pad
<1>5. \A i \in 1 .. length.response[s] : Response(s)[i] = <<"response", s, i>>
  BY DEF Response
<1> QED BY <1>1, <1>2, <1>3, <1>4, <1>5, LenOf

\* What the actor reads: padding, prompt, response, padding.
Whole == PromptLength + ResponseLength

LEMMA IdsOf ==
  ASSUME length \in Lengths, NEW row, row.prompt \in Prompts, row.sample \in Samples,
         NEW d, d = Missing(row.prompt)
  PROVE  LET ids == InputIds(row)
             last == PromptLength + length.response[row.sample]
         IN  /\ IsSeq(ids, Whole) /\ Len(ids) = Whole
             /\ \A i \in 1 .. d : ids[i] = Pad
             /\ \A i \in d + 1 .. PromptLength : ids[i] = Prompt(row.prompt)[i - d]
             /\ \A i \in PromptLength + 1 .. last : ids[i] = Response(row.sample)[i - PromptLength]
             /\ \A i \in last + 1 .. Whole : ids[i] = Pad
<1> DEFINE ids == InputIds(row)
           last == PromptLength + length.response[row.sample]
<1>1. /\ PromptLength \in Nat /\ ResponseLength \in Nat /\ d \in Nat
      /\ Length(row.prompt) \in Nat /\ Length(row.prompt) + d = PromptLength
      /\ length.response[row.sample] \in 1 .. ResponseLength
  BY LengthFacts
<1>2. Len(Prompt(row.prompt)) = Length(row.prompt)
      /\ Len(Response(row.sample)) = length.response[row.sample]
  BY PromptOf, ResponseOf
<1>3. Whole \in Nat /\ PromptLength - Length(row.prompt) = d
  BY <1>1 DEF Whole
<1>4. ids = [i \in 1 .. Whole |->
               IF i <= d \/ i > last THEN Pad
               ELSE IF i <= PromptLength THEN Prompt(row.prompt)[i - d]
               ELSE Response(row.sample)[i - PromptLength]]
  BY <1>2, <1>3 DEF InputIds, Whole
<1> HIDE DEF ids
<1>5. IsSeq(ids, Whole)
  BY <1>4 DEF IsSeq
<1>6. Len(ids) = Whole
  BY <1>3, <1>5, LenOf
<1>7. /\ last \in Nat /\ PromptLength < last /\ last <= Whole /\ d < PromptLength
  BY <1>1, LengthFacts DEF Whole
<1> HIDE DEF last
<1>8. \A i \in 1 .. d : ids[i] = Pad
  BY <1>1, <1>3, <1>4, <1>7
<1>9. \A i \in d + 1 .. PromptLength : ids[i] = Prompt(row.prompt)[i - d]
  BY <1>1, <1>3, <1>4, <1>7
<1>10. \A i \in PromptLength + 1 .. last : ids[i] = Response(row.sample)[i - PromptLength]
  BY <1>1, <1>3, <1>4, <1>7
<1>11. \A i \in last + 1 .. Whole : ids[i] = Pad
  BY <1>1, <1>3, <1>4, <1>7
<1> QED BY <1>5, <1>6, <1>8, <1>9, <1>10, <1>11 DEF ids, last

\* The markers are found behind the padding and the first token.
LEMMA FirstIs ==
  ASSUME NEW n \in Nat, NEW f, DOMAIN f = 1 .. n, NEW k \in 1 .. n, NEW x, f[k] = x,
         \A j \in 1 .. (k - 1) : f[j] # x
  PROVE  First(f, x) = k
<1> DEFINE Q(i) == f[i] = x /\ \A j \in 1 .. (i - 1) : f[j] # x
<1>1. Q(k) /\ k \in DOMAIN f
  OBVIOUS
<1>2. ASSUME NEW i \in DOMAIN f, Q(i)
      PROVE  i = k
  <2>1. i \in 1 .. n
    BY <1>2
  <2>2. ~ (i < k)
    BY <1>2, <2>1
  <2>3. ~ (k < i)
    BY <1>2, <2>1
  <2> QED BY <2>1, <2>2, <2>3
<1>3. \A i \in DOMAIN f : Q(i) => i = k
  BY <1>2
<1>4. First(f, x) = CHOOSE i \in DOMAIN f : Q(i)
  BY DEF First
<1> HIDE DEF Q
<1> QED BY <1>1, <1>3, <1>4

LEMMA MarkersOf ==
  ASSUME length \in Lengths, NEW row, row.prompt \in Prompts, row.sample \in Samples,
         NEW d, d = Missing(row.prompt)
  PROVE  /\ First(InputIds(row), Begin) = d + 2 /\ First(InputIds(row), End) = d + 3
         /\ First(Prompt(row.prompt), Begin) = 2 /\ First(Prompt(row.prompt), End) = 3
<1> DEFINE ids == InputIds(row)
           text == Prompt(row.prompt)
<1>1. /\ PromptLength \in Nat /\ ResponseLength \in Nat /\ d \in Nat
      /\ Length(row.prompt) \in Nat /\ Length(row.prompt) >= 4
      /\ Length(row.prompt) + d = PromptLength
  BY LengthFacts
<1>2. /\ IsSeq(ids, Whole)
      /\ \A i \in 1 .. d : ids[i] = Pad
      /\ \A i \in d + 1 .. PromptLength : ids[i] = text[i - d]
  BY IdsOf
<1>3. /\ IsSeq(text, Length(row.prompt)) /\ text[1] \notin {Begin, End}
      /\ text[2] = Begin /\ text[3] = End /\ Begin # End
      /\ \A i \in 1 .. Length(row.prompt) : text[i] # Pad
  BY PromptOf
<1>4. text[2] # Pad /\ text[3] # Pad
  BY <1>1, <1>3
<1> HIDE DEF ids, text
<1>5. Whole \in Nat /\ PromptLength <= Whole
  BY <1>1 DEF Whole
<1>6. DOMAIN ids = 1 .. Whole /\ DOMAIN text = 1 .. Length(row.prompt)
  BY <1>1, <1>2, <1>3, <1>5, LenOf
<1>7. ids[d + 1] = text[1] /\ ids[d + 2] = text[2] /\ ids[d + 3] = text[3]
  BY <1>1, <1>2
<1>8. First(ids, Begin) = d + 2
  <2> DEFINE k == d + 2
  <2>1. \A j \in 1 .. (k - 1) : ids[j] # Begin
    BY <1>1, <1>2, <1>3, <1>4, <1>7
  <2>2. k \in 1 .. Whole /\ ids[k] = Begin
    BY <1>1, <1>3, <1>5, <1>7
  <2> HIDE DEF k
  <2>3. First(ids, Begin) = k
    BY <1>5, <1>6, <2>1, <2>2, FirstIs
  <2> QED BY <2>3 DEF k
<1>9. First(ids, End) = d + 3
  <2> DEFINE k == d + 3
  <2>1. ASSUME NEW j \in 1 .. (k - 1)
        PROVE  ids[j] # End
    <3>1. j \in 1 .. d \/ j = d + 1 \/ j = d + 2
      BY <1>1
    <3>2. Pad # End
      BY <1>3, <1>4
    <3> QED BY <3>1, <3>2, <1>2, <1>3, <1>7
  <2>2. k \in 1 .. Whole /\ ids[k] = End
    BY <1>1, <1>3, <1>5, <1>7
  <2> HIDE DEF k
  <2>3. First(ids, End) = k
    BY <1>5, <1>6, <2>1, <2>2, FirstIs
  <2> QED BY <2>3 DEF k
<1>10. First(text, Begin) = 2
  <2> DEFINE k == 2
  <2>1. k \in 1 .. Length(row.prompt) /\ text[k] = Begin /\ \A j \in 1 .. (k - 1) : text[j] # Begin
    BY <1>1, <1>3
  <2> HIDE DEF k
  <2>2. First(text, Begin) = k
    BY <1>1, <1>6, <2>1, FirstIs
  <2> QED BY <2>2 DEF k
<1>11. First(text, End) = 3
  <2> DEFINE k == 3
  <2>1. k \in 1 .. Length(row.prompt) /\ text[k] = End /\ \A j \in 1 .. (k - 1) : text[j] # End
    BY <1>1, <1>3
  <2> HIDE DEF k
  <2>2. First(text, End) = k
    BY <1>1, <1>6, <2>1, FirstIs
  <2> QED BY <2>2 DEF k
<1> QED BY <1>8, <1>9, <1>10, <1>11 DEF ids, text

-----------------------------------------------------------------------------
(* One row: the embeddings, on both sides *)

LEMMA SeriesOf ==
  ASSUME NEW p, NEW e, NEW routing, NEW w
  PROVE  IsSeq(Series(p, e, routing, w), Channels)
BY DEF IsSeq, Series

\* A series as the actor encodes it in eval or train mode, and as the server
\* would with w drawn.
Encoded(p, e, t) == Series(p, e, Routing(t), Noise(t))
Drawn(p, e, w) == Series(p, e, Routing(FALSE), w)

\* The actor: the series is between the markers of the padded row.
Merged(row, e, t) == MergedIds(InputIds(row), row.prompt, e, t)

LEMMA EmbedsOf ==
  ASSUME length \in Lengths, NEW row, row.prompt \in Prompts, row.sample \in Samples,
         NEW d, d = Missing(row.prompt), NEW e, NEW t
  PROVE  LET ids == InputIds(row)
             embeds == Merged(row, e, t)
         IN  /\ IsSeq(embeds, Whole + Channels) /\ Len(embeds) = Whole + Channels
             /\ \A i \in 1 .. d + 2 : embeds[i] = ids[i]
             /\ \A i \in d + 3 .. d + 2 + Channels :
                  embeds[i] = Encoded(row.prompt, e, t)[i - (d + 2)]
             /\ \A i \in d + 3 + Channels .. Whole + Channels : embeds[i] = ids[i - Channels]
<1> DEFINE ids == InputIds(row)
           series == Encoded(row.prompt, e, t)
           embeds == Merged(row, e, t)
           front == Sub(ids, 1, d + 2)
           back == Sub(ids, d + 3, Whole)
<1>1. /\ PromptLength \in Nat /\ ResponseLength \in Nat /\ d \in Nat /\ Channels \in Nat
      /\ Length(row.prompt) \in Nat /\ Length(row.prompt) >= 4
      /\ Length(row.prompt) + d = PromptLength
  BY LengthFacts
<1>2. First(ids, Begin) = d + 2 /\ First(ids, End) = d + 3
  BY MarkersOf
<1>3. Len(ids) = Whole
  BY IdsOf
<1>4. embeds = Cat(Cat(front, series), back)
  BY <1>2, <1>3 DEF Merged, MergedIds, Encoded, Cat, Sub
<1>5. IsSeq(series, Channels)
  BY SeriesOf DEF Encoded
<1> HIDE DEF ids, series, embeds
<1>6. Whole \in Nat /\ d + 4 <= Whole
  BY <1>1 DEF Whole
<1>7. IsSeq(front, d + 2) /\ \A i \in 1 .. d + 2 : front[i] = ids[i]
  <2> DEFINE a == 1
             b == d + 2
  <2>1. a \in Int /\ b \in Int /\ a <= b + 1 /\ b - a + 1 = d + 2
        /\ \A i \in Nat : a + i - 1 = i
    BY <1>1
  <2>2. front = Sub(ids, a, b)
    OBVIOUS
  <2> HIDE DEF a, b, front
  <2>3. /\ IsSeq(front, b - a + 1)
        /\ \A i \in 1 .. (b - a + 1) : front[i] = ids[a + i - 1]
    BY <2>1, <2>2, SubOf
  <2> QED BY <1>1, <2>1, <2>3
<1>8. /\ IsSeq(back, Whole - (d + 2))
      /\ \A i \in 1 .. Whole - (d + 2) : back[i] = ids[d + 2 + i]
  <2>1. d + 3 \in Int /\ Whole \in Int /\ d + 3 <= Whole + 1
        /\ Whole - (d + 3) + 1 = Whole - (d + 2)
    BY <1>1, <1>6
  <2>2. /\ IsSeq(back, Whole - (d + 3) + 1)
        /\ \A i \in 1 .. (Whole - (d + 3) + 1) : back[i] = ids[d + 3 + i - 1]
    BY <2>1, SubOf
  <2>3. \A i \in 1 .. Whole - (d + 2) : d + 3 + i - 1 = d + 2 + i
    BY <1>1
  <2> QED BY <2>1, <2>2, <2>3
<1> HIDE DEF front, back
<1>9. /\ IsSeq(Cat(front, series), (d + 2) + Channels)
      /\ \A i \in 1 .. d + 2 : Cat(front, series)[i] = front[i]
      /\ \A i \in (d + 2) + 1 .. (d + 2) + Channels : Cat(front, series)[i] = series[i - (d + 2)]
  <2>1. d + 2 \in Nat
    BY <1>1
  <2> QED BY <2>1, <1>1, <1>5, <1>7, ConcatOf
<1> DEFINE both == Cat(front, series)
           n == (d + 2) + Channels
           m == Whole - (d + 2)
<1>10. n \in Nat /\ m \in Nat /\ n + m = Whole + Channels
  BY <1>1, <1>6
<1>11. IsSeq(both, n) /\ IsSeq(back, m)
  BY <1>8, <1>9
<1> HIDE DEF both, n, m
<1>12. /\ IsSeq(Cat(both, back), n + m)
       /\ \A i \in 1 .. n : Cat(both, back)[i] = both[i]
       /\ \A i \in n + 1 .. n + m : Cat(both, back)[i] = back[i - n]
  BY <1>10, <1>11, ConcatOf
<1>13. embeds = Cat(both, back)
  BY <1>4 DEF both
<1>14. IsSeq(embeds, Whole + Channels) /\ Len(embeds) = Whole + Channels
  <2>1. n + m \in Nat /\ IsSeq(embeds, n + m)
    BY <1>10, <1>12, <1>13
  <2>2. Len(embeds) = n + m
    BY <2>1, LenOf
  <2> QED BY <2>1, <2>2, <1>10
<1>15. \A i \in 1 .. d + 2 : embeds[i] = ids[i]
  <2>1. \A i \in 1 .. d + 2 : i \in 1 .. n
    BY <1>1 DEF n
  <2> QED BY <2>1, <1>7, <1>9, <1>12, <1>13 DEF both
<1>16. \A i \in d + 3 .. d + 2 + Channels : embeds[i] = series[i - (d + 2)]
  <2>1. \A i \in d + 3 .. d + 2 + Channels :
          i \in 1 .. n /\ i \in (d + 2) + 1 .. (d + 2) + Channels
    BY <1>1 DEF n
  <2> QED BY <2>1, <1>9, <1>12, <1>13 DEF both
<1>17. \A i \in d + 3 + Channels .. Whole + Channels : embeds[i] = ids[i - Channels]
  <2>1. ASSUME NEW i \in d + 3 + Channels .. Whole + Channels
        PROVE  embeds[i] = ids[i - Channels]
    <3>1. i \in n + 1 .. n + m
      BY <1>1, <1>10 DEF n
    <3>2. i - n \in 1 .. Whole - (d + 2) /\ d + 2 + (i - n) = i - Channels
      BY <1>1, <1>6 DEF n
    <3> QED BY <3>1, <3>2, <1>8, <1>12, <1>13
  <2> QED BY <2>1
<1> QED BY <1>14, <1>15, <1>16, <1>17 DEF ids, series, embeds

\* The server: the same between the markers of the row as it is.
LEMMA ExpandedOf ==
  ASSUME length \in Lengths, NEW p \in Prompts, NEW s \in Samples, NEW e, NEW w
  PROVE  /\ IsSeq(Expanded(p, e, w), Length(p) + Channels)
         /\ \A i \in 1 .. 2 : Expanded(p, e, w)[i] = Prompt(p)[i]
         /\ \A i \in 3 .. 2 + Channels : Expanded(p, e, w)[i] = Drawn(p, e, w)[i - 2]
         /\ \A i \in 3 + Channels .. Length(p) + Channels : Expanded(p, e, w)[i] = Prompt(p)[i - Channels]
<1> DEFINE text == Prompt(p)
           series == Drawn(p, e, w)
           item == Cat(Cat(<<Begin>>, series), <<End>>)
           front == Sub(text, 1, 1)
           back == Sub(text, 4, Length(p))
           row == [prompt |-> p, sample |-> s]
<1>1. Channels \in Nat \ {0} /\ Length(p) \in Nat /\ Length(p) >= 4
  BY LengthFacts
<1>2. First(text, Begin) = 2
  <2>1. row.prompt = p /\ row.sample = s
    OBVIOUS
  <2> HIDE DEF row
  <2> QED BY <2>1, MarkersOf
<1>3. /\ Len(text) = Length(p) /\ text[2] = Begin /\ text[3] = End
  BY PromptOf
<1>4. Expanded(p, e, w) = Cat(Cat(front, item), back)
  BY <1>2, <1>3 DEF Expanded, Drawn, Cat, Sub
<1>5. IsSeq(series, Channels) /\ IsSeq(<<Begin>>, 1) /\ IsSeq(<<End>>, 1)
      /\ <<Begin>>[1] = Begin /\ <<End>>[1] = End
  <2>1. IsSeq(series, Channels)
    BY SeriesOf DEF Drawn
  <2>2. IsSeq(<<Begin>>, 1) /\ IsSeq(<<End>>, 1)
    BY DEF IsSeq
  <2> QED BY <2>1, <2>2
<1> HIDE DEF text, series
<1>6. IsSeq(front, 1) /\ front[1] = text[1]
  <2> DEFINE a == 1
             b == 1
  <2>1. a \in Int /\ b \in Int /\ a <= b + 1 /\ b - a + 1 = 1 /\ 1 \in 1 .. (b - a + 1)
        /\ a + 1 - 1 = 1
    OBVIOUS
  <2>2. front = Sub(text, a, b)
    OBVIOUS
  <2> HIDE DEF a, b, front
  <2>3. /\ IsSeq(front, b - a + 1)
        /\ \A i \in 1 .. (b - a + 1) : front[i] = text[a + i - 1]
    BY <2>1, <2>2, SubOf
  <2> QED BY <2>1, <2>3
<1>7. /\ IsSeq(back, Length(p) - 3) /\ \A i \in 1 .. Length(p) - 3 : back[i] = text[3 + i]
  <2> DEFINE a == 4
  <2>1. a \in Int /\ Length(p) \in Int /\ a <= Length(p) + 1
        /\ Length(p) - a + 1 = Length(p) - 3
        /\ \A i \in Nat : a + i - 1 = 3 + i
    BY <1>1
  <2>2. back = Sub(text, a, Length(p))
    OBVIOUS
  <2> HIDE DEF a, back
  <2>3. /\ IsSeq(back, Length(p) - a + 1)
        /\ \A i \in 1 .. (Length(p) - a + 1) : back[i] = text[a + i - 1]
    BY <2>1, <2>2, SubOf
  <2> QED BY <2>1, <2>3
<1> HIDE DEF front, back
<1>8. /\ IsSeq(item, Channels + 2) /\ item[1] = Begin /\ item[Channels + 2] = End
      /\ \A i \in 2 .. 1 + Channels : item[i] = series[i - 1]
  <2> DEFINE one == 1
             start == <<Begin>>
             stop == <<End>>
             left == Cat(start, series)
             n == one + Channels
  <2>1. one \in Nat /\ IsSeq(start, one) /\ IsSeq(stop, one) /\ n \in Nat
        /\ start[one] = Begin /\ stop[one] = End
    BY <1>1, <1>5
  <2>2. item = Cat(left, stop)
    OBVIOUS
  <2>3. one = 1 /\ n = 1 + Channels
    OBVIOUS
  <2> HIDE DEF one, start, stop, item
  <2>4. /\ IsSeq(left, n) /\ \A i \in 1 .. one : left[i] = start[i]
        /\ \A i \in one + 1 .. one + Channels : left[i] = series[i - one]
    BY <1>1, <1>5, <2>1, ConcatOf
  <2> HIDE DEF left, n
  <2>5. /\ IsSeq(item, n + one) /\ \A i \in 1 .. n : item[i] = left[i]
        /\ \A i \in n + 1 .. n + one : item[i] = stop[i - n]
    BY <2>1, <2>2, <2>4, ConcatOf
  <2>6. n + one = Channels + 2
    BY <1>1, <2>3
  <2>7. item[1] = Begin
    BY <1>1, <2>1, <2>3, <2>4, <2>5
  <2>8. item[Channels + 2] = End
    BY <1>1, <2>1, <2>3, <2>5
  <2>9. \A i \in 2 .. 1 + Channels : item[i] = series[i - 1]
    BY <1>1, <2>3, <2>4, <2>5
  <2> QED BY <2>5, <2>6, <2>7, <2>8, <2>9
<1> HIDE DEF item
<1> DEFINE one == 1
           two == Channels + 2
           n == one + two
           m == Length(p) - 3
           left == Cat(front, item)
<1>9. one \in Nat /\ two \in Nat /\ n \in Nat /\ m \in Nat /\ n + m = Length(p) + Channels
      /\ IsSeq(front, one) /\ IsSeq(item, two) /\ IsSeq(back, m)
  BY <1>1, <1>6, <1>7, <1>8
<1>10. one = 1 /\ two = Channels + 2 /\ n = one + two /\ m = Length(p) - 3
  OBVIOUS
<1> HIDE DEF one, two, m
<1>11. /\ IsSeq(left, n) /\ \A i \in 1 .. one : left[i] = front[i]
       /\ \A i \in one + 1 .. one + two : left[i] = item[i - one]
  BY <1>9, ConcatOf
<1> HIDE DEF n, left
<1>12. /\ IsSeq(Cat(left, back), n + m) /\ \A i \in 1 .. n : Cat(left, back)[i] = left[i]
       /\ \A i \in n + 1 .. n + m : Cat(left, back)[i] = back[i - n]
  BY <1>9, <1>11, ConcatOf
<1> DEFINE whole == Expanded(p, e, w)
<1>13. whole = Cat(left, back)
  BY <1>4 DEF left
<1> HIDE DEF whole
<1>14. IsSeq(whole, Length(p) + Channels)
  BY <1>9, <1>12, <1>13
<1>15. whole[1] = text[1]
  BY <1>1, <1>6, <1>9, <1>10, <1>11, <1>12, <1>13
<1>16. whole[2] = Begin
  BY <1>1, <1>8, <1>9, <1>10, <1>11, <1>12, <1>13
<1>17. \A i \in 1 .. 2 : whole[i] = text[i]
  BY <1>3, <1>15, <1>16 DEF text
<1>18. \A i \in 3 .. 2 + Channels : whole[i] = series[i - 2]
  <2>1. ASSUME NEW i \in 3 .. 2 + Channels
        PROVE  whole[i] = series[i - 2]
    <3>1. i \in 1 .. n /\ i \in one + 1 .. one + two
      BY <1>1, <1>10
    <3>2. i - one \in 2 .. 1 + Channels /\ (i - one) - 1 = i - 2
      BY <1>1, <1>10
    <3>3. whole[i] = item[i - one]
      BY <3>1, <1>11, <1>12, <1>13
    <3> QED BY <3>2, <3>3, <1>8
  <2> QED BY <2>1
<1>19. \A i \in 3 + Channels .. Length(p) + Channels : whole[i] = text[i - Channels]
  <2>1. whole[3 + Channels] = End
    <3> DEFINE k == 3 + Channels
    <3>1. k \in 1 .. n /\ k \in one + 1 .. one + two /\ k - one = Channels + 2
      BY <1>1, <1>10
    <3> HIDE DEF k
    <3>2. whole[k] = left[k] /\ left[k] = item[k - one]
      BY <3>1, <1>11, <1>12, <1>13
    <3>3. whole[k] = End
      BY <3>1, <3>2, <1>8
    <3> QED BY <3>3 DEF k
  <2>2. ASSUME NEW i \in 4 + Channels .. Length(p) + Channels
        PROVE  whole[i] = text[i - Channels]
    <3>1. i \in n + 1 .. n + m /\ i - n \in 1 .. Length(p) - 3 /\ 3 + (i - n) = i - Channels
      BY <1>1, <1>9, <1>10
    <3> QED BY <3>1, <1>7, <1>12, <1>13
  <2>3. ASSUME NEW i \in 3 + Channels .. Length(p) + Channels
        PROVE  whole[i] = text[i - Channels]
    <3>1. CASE i = 3 + Channels
      <4>1. i - Channels = 3
        BY <1>1, <3>1
      <4>2. text[3] = End
        BY <1>3
      <4> QED BY <3>1, <4>1, <4>2, <2>1
    <3>2. CASE i # 3 + Channels
      <4>1. i \in 4 + Channels .. Length(p) + Channels
        BY <1>1, <3>2
      <4> QED BY <4>1, <2>2
    <3> QED BY <3>1, <3>2
  <2> QED BY <2>3
<1> QED BY <1>14, <1>17, <1>18, <1>19 DEF whole, text, series

-----------------------------------------------------------------------------
(* One row: the mask, the positions and what is attended to *)

LEMMA MaskOf ==
  ASSUME length \in Lengths, NEW row, row.prompt \in Prompts, row.sample \in Samples,
         NEW d, d = Missing(row.prompt),
         NEW top, top = PromptLength + Channels + length.response[row.sample]
  PROVE  \A i \in 1 .. Whole + Channels :
           MergedMask(InputIds(row))[i] <=> i \in d + 1 .. top
<1> DEFINE ids == InputIds(row)
           last == PromptLength + length.response[row.sample]
<1>1. /\ PromptLength \in Nat /\ ResponseLength \in Nat /\ d \in Nat /\ Channels \in Nat
      /\ Length(row.prompt) \in Nat /\ Length(row.prompt) >= 4
      /\ Length(row.prompt) + d = PromptLength
      /\ length.response[row.sample] \in 1 .. ResponseLength
  BY LengthFacts
<1>2. First(ids, Begin) = d + 2
  BY MarkersOf
<1>3. /\ Len(ids) = Whole
      /\ \A i \in 1 .. d : ids[i] = Pad
      /\ \A i \in d + 1 .. PromptLength : ids[i] = Prompt(row.prompt)[i - d]
      /\ \A i \in PromptLength + 1 .. last : ids[i] = Response(row.sample)[i - PromptLength]
      /\ \A i \in last + 1 .. Whole : ids[i] = Pad
  BY IdsOf
<1>4. \A i \in 1 .. Length(row.prompt) : Prompt(row.prompt)[i] # Pad
  BY PromptOf
<1>5. \A i \in 1 .. length.response[row.sample] : Response(row.sample)[i] # Pad
  BY ResponseOf
<1>6. MergedMask(ids) = [i \in 1 .. (Whole + Channels) |->
         \/ i <= d + 2 /\ ids[i] # Pad
         \/ i > d + 2 /\ i <= d + 2 + Channels
         \/ i > d + 2 + Channels /\ ids[i - Channels] # Pad]
  BY <1>2, <1>3 DEF MergedMask
<1> HIDE DEF ids
<1>7. Whole \in Nat /\ last \in Nat /\ last <= Whole /\ PromptLength < last /\ top = last + Channels
      /\ d + 4 <= PromptLength
  BY <1>1 DEF Whole
<1> HIDE DEF last
<1>8. \A i \in 1 .. Whole : ids[i] # Pad <=> i \in d + 1 .. last
  <2>1. ASSUME NEW i \in 1 .. Whole
        PROVE  ids[i] # Pad <=> i \in d + 1 .. last
    <3>1. CASE i \in 1 .. d
      BY <3>1, <1>1, <1>3
    <3>2. CASE i \in d + 1 .. PromptLength
      <4>1. i - d \in 1 .. Length(row.prompt)
        BY <3>2, <1>1
      <4>2. ids[i] = Prompt(row.prompt)[i - d]
        BY <3>2, <1>3
      <4>3. ids[i] # Pad
        BY <4>1, <4>2, <1>4
      <4>4. i \in d + 1 .. last
        BY <3>2, <1>1, <1>7
      <4> QED BY <4>3, <4>4
    <3>3. CASE i \in PromptLength + 1 .. last
      <4>1. i - PromptLength \in 1 .. length.response[row.sample]
        BY <3>3, <1>1 DEF last
      <4>2. ids[i] = Response(row.sample)[i - PromptLength]
        BY <3>3, <1>3
      <4>3. ids[i] # Pad
        BY <4>1, <4>2, <1>5
      <4>4. i \in d + 1 .. last
        BY <3>3, <1>1, <1>7
      <4> QED BY <4>3, <4>4
    <3>4. CASE i \in last + 1 .. Whole
      BY <3>4, <1>1, <1>3, <1>7
    <3> QED BY <3>1, <3>2, <3>3, <3>4, <1>1, <1>7
  <2> QED BY <2>1
<1>9. ASSUME NEW i \in 1 .. Whole + Channels
      PROVE  MergedMask(ids)[i] <=> i \in d + 1 .. top
  <2> DEFINE A == i <= d + 2 /\ ids[i] # Pad
             B == i > d + 2 /\ i <= d + 2 + Channels
             C == i > d + 2 + Channels /\ ids[i - Channels] # Pad
  <2>0. MergedMask(ids)[i] <=> A \/ B \/ C
    <3>1. MergedMask(ids)[i] = (A \/ B \/ C)
      BY <1>6, Zenon
    <3> QED BY <3>1, Zenon
  <2> DEFINE M == MergedMask(ids)[i]
  <2>9. M <=> A \/ B \/ C
    BY <2>0
  <2> HIDE DEF M
  <2>4. M <=> i \in d + 1 .. top
    <3>1. CASE i <= d + 2
      <4>1. M <=> ids[i] # Pad
        BY <1>1, <2>9, <3>1
      <4>2. i \in 1 .. Whole
        BY <1>1, <1>7, <3>1
      <4> QED BY <4>1, <4>2, <1>1, <1>7, <1>8, <3>1
    <3>2. CASE i > d + 2 /\ i <= d + 2 + Channels
      <4>1. M
        BY <1>1, <2>9, <3>2
      <4> QED BY <4>1, <1>1, <1>7, <3>2
    <3>3. CASE i > d + 2 + Channels
      <4>1. M <=> ids[i - Channels] # Pad
        BY <1>1, <2>9, <3>3
      <4>2. i - Channels \in 1 .. Whole
        BY <1>1, <1>7, <3>3
      <4>3. i - Channels \in d + 1 .. last <=> i \in d + 1 .. top
        BY <1>1, <1>7, <3>3
      <4> QED BY <4>1, <4>2, <4>3, <1>8
    <3> QED BY <1>1, <3>1, <3>2, <3>3
  <2> QED BY <2>4 DEF M
<1> QED BY <1>9 DEF ids

\* Positions count from the first token of the prompt.
LEMMA PositionOf ==
  ASSUME NEW mask, NEW n \in Nat, NEW d \in Nat, NEW top \in Nat, top <= n,
         \A i \in 1 .. n : mask[i] <=> i \in d + 1 .. top,
         NEW j \in d + 1 .. top
  PROVE  Position(mask, j) = j - d - 1
<1>1. {k \in 1 .. j : mask[k]} = d + 1 .. j
  <2>1. ASSUME NEW k \in 1 .. j
        PROVE  mask[k] <=> k \in d + 1 .. j
    BY k \in 1 .. n
  <2>2. \A k \in d + 1 .. j : k \in 1 .. j
    OBVIOUS
  <2> QED BY <2>1, <2>2
<1>2. d + 1 \in Int /\ j \in Int /\ ~ (d + 1 > j)
  OBVIOUS
<1>3. Cardinality(d + 1 .. j) = j - (d + 1) + 1
  BY <1>2, FS_Interval
<1>4. Position(mask, j) = Cardinality({k \in 1 .. j : mask[k]}) - 1
  BY Zenon DEF Position
<1>5. Position(mask, j) = Cardinality(d + 1 .. j) - 1
  BY <1>1, <1>4, Zenon
<1> QED BY <1>3, <1>5

\* What the server has seen when it samples token i of a response.
Seen(row, i, e, w) == Expanded(row.prompt, e, w) \o SubSeq(Response(row.sample), 1, i - 1)

LEMMA SeenOf ==
  ASSUME length \in Lengths, NEW row, row.prompt \in Prompts, row.sample \in Samples, NEW e, NEW w,
         NEW i \in 1 .. length.response[row.sample],
         NEW n, n = Length(row.prompt) + Channels
  PROVE  /\ IsSeq(Seen(row, i, e, w), n + (i - 1)) /\ DOMAIN Seen(row, i, e, w) = 1 .. n + (i - 1)
         /\ \A j \in 1 .. n : Seen(row, i, e, w)[j] = Expanded(row.prompt, e, w)[j]
         /\ \A j \in n + 1 .. n + (i - 1) : Seen(row, i, e, w)[j] = Response(row.sample)[j - n]
<1> DEFINE left == Expanded(row.prompt, e, w)
           right == Sub(Response(row.sample), 1, i - 1)
           m == i - 1
<1>1. n \in Nat /\ m \in Nat /\ i \in Int
  BY LengthFacts
<1>2. IsSeq(left, n)
  BY ExpandedOf
<1>3. IsSeq(right, m) /\ \A j \in 1 .. m : right[j] = Response(row.sample)[j]
  <2> DEFINE a == 1
             b == i - 1
  <2>1. a \in Int /\ b \in Int /\ a <= b + 1 /\ b - a + 1 = m /\ \A j \in Nat : a + j - 1 = j
    BY <1>1
  <2>2. right = Sub(Response(row.sample), a, b)
    OBVIOUS
  <2> HIDE DEF a, b, right
  <2>3. /\ IsSeq(right, b - a + 1)
        /\ \A j \in 1 .. (b - a + 1) : right[j] = Response(row.sample)[a + j - 1]
    BY <2>1, <2>2, SubOf
  <2> QED BY <1>1, <2>1, <2>3
<1>4. Seen(row, i, e, w) = Cat(left, right)
  BY DEF Seen, Cat, Sub
<1> HIDE DEF left, right, m
<1>5. /\ IsSeq(Cat(left, right), n + m) /\ \A j \in 1 .. n : Cat(left, right)[j] = left[j]
      /\ \A j \in n + 1 .. n + m : Cat(left, right)[j] = right[j - n]
  BY <1>1, <1>2, <1>3, ConcatOf
<1> DEFINE seen == Seen(row, i, e, w)
<1> HIDE DEF seen
<1>6. seen = Cat(left, right)
  BY <1>4 DEF seen
<1>7. IsSeq(seen, n + m) /\ n + m \in Nat
  BY <1>1, <1>5, <1>6
<1>8. DOMAIN seen = 1 .. n + m
  BY <1>7, LenOf
<1>9. \A j \in 1 .. n : seen[j] = left[j]
  BY <1>5, <1>6
<1>10. \A j \in n + 1 .. n + m : seen[j] = Response(row.sample)[j - n]
  <2>1. \A j \in n + 1 .. n + m : j - n \in 1 .. m
    BY <1>1
  <2> QED BY <2>1, <1>3, <1>5, <1>6
<1> QED BY <1>7, <1>8, <1>9, <1>10 DEF seen, left, m

\* The warm-up is over for an encoder that the patch has prepared: the router
\* chooses in either mode, and what is left apart is what is drawn.
LEMMA RoutedByRouter ==
  ASSUME NEW p, NEW e, NEW t \in BOOLEAN
  PROVE  Encoded(p, e, t) = Drawn(p, e, Noise(t))
<1>1. ~ (EncoderEpoch < WarmupEpochs)
  BY Sizes DEF EncoderEpoch
<1>2. Routing(t) = "top-k" /\ Routing(FALSE) = "top-k"
  BY <1>1 DEF Routing
<1> QED BY <1>2 DEF Encoded, Drawn

LEMMA EmbedsAsSeen ==
  ASSUME length \in Lengths, NEW row, row.prompt \in Prompts, row.sample \in Samples,
         NEW e, NEW t \in BOOLEAN, NEW w, w = Noise(t), NEW i \in 1 .. length.response[row.sample],
         NEW d, d = Missing(row.prompt), NEW n, n = Length(row.prompt) + Channels,
         NEW j \in 1 .. n + (i - 1)
  PROVE  Merged(row, e, t)[d + j] = Seen(row, i, e, w)[j]
<1> DEFINE p == row.prompt
           ids == InputIds(row)
           embeds == Merged(row, e, t)
           seen == Seen(row, i, e, w)
           last == PromptLength + length.response[row.sample]
<1>1. /\ PromptLength \in Nat /\ ResponseLength \in Nat /\ d \in Nat /\ Channels \in Nat
      /\ Length(p) \in Nat /\ Length(p) >= 4 /\ Length(p) + d = PromptLength
      /\ length.response[row.sample] \in 1 .. ResponseLength /\ i \in Nat /\ j \in Nat
      /\ n = Length(p) + Channels /\ Whole = PromptLength + ResponseLength
  BY LengthFacts DEF Whole
<1>2. /\ \A k \in 1 .. d + 2 : embeds[k] = ids[k]
      /\ \A k \in d + 3 .. d + 2 + Channels : embeds[k] = Encoded(p, e, t)[k - (d + 2)]
      /\ \A k \in d + 3 + Channels .. Whole + Channels : embeds[k] = ids[k - Channels]
  <2>1. \A k \in 1 .. d + 2 : embeds[k] = ids[k]
    BY EmbedsOf
  <2>2. \A k \in d + 3 .. d + 2 + Channels : embeds[k] = Encoded(p, e, t)[k - (d + 2)]
    BY EmbedsOf
  <2>3. \A k \in d + 3 + Channels .. Whole + Channels : embeds[k] = ids[k - Channels]
    BY EmbedsOf
  <2> QED BY <2>1, <2>2, <2>3
<1>3. /\ \A k \in d + 1 .. PromptLength : ids[k] = Prompt(p)[k - d]
      /\ \A k \in PromptLength + 1 .. last : ids[k] = Response(row.sample)[k - PromptLength]
  BY IdsOf
<1>4. /\ \A k \in 1 .. n : seen[k] = Expanded(p, e, w)[k]
      /\ \A k \in n + 1 .. n + (i - 1) : seen[k] = Response(row.sample)[k - n]
  BY SeenOf
<1>5. /\ \A k \in 1 .. 2 : Expanded(p, e, w)[k] = Prompt(p)[k]
      /\ \A k \in 3 .. 2 + Channels : Expanded(p, e, w)[k] = Drawn(p, e, w)[k - 2]
      /\ \A k \in 3 + Channels .. Length(p) + Channels : Expanded(p, e, w)[k] = Prompt(p)[k - Channels]
  BY ExpandedOf
<1>6. Encoded(p, e, t) = Drawn(p, e, w)
  BY RoutedByRouter
<1> HIDE DEF p, ids, embeds, seen
<1>7. CASE j \in 1 .. 2
  <2>1. d + j \in 1 .. d + 2 /\ d + j \in d + 1 .. PromptLength /\ (d + j) - d = j /\ j \in 1 .. n
    BY <1>1, <1>7
  <2>2. embeds[d + j] = ids[d + j] /\ ids[d + j] = Prompt(p)[j]
    BY <1>2, <1>3, <2>1
  <2>3. seen[j] = Prompt(p)[j]
    BY <1>4, <1>5, <1>7, <2>1
  <2> QED BY <2>2, <2>3 DEF embeds, seen, ids
<1>8. CASE j \in 3 .. 2 + Channels
  <2>1. d + j \in d + 3 .. d + 2 + Channels /\ (d + j) - (d + 2) = j - 2 /\ j \in 1 .. n
    BY <1>1, <1>8
  <2>2. embeds[d + j] = Encoded(p, e, t)[j - 2]
    BY <1>2, <2>1
  <2>3. seen[j] = Drawn(p, e, w)[j - 2]
    BY <1>4, <1>5, <1>8, <2>1
  <2> QED BY <1>6, <2>2, <2>3 DEF embeds, seen, ids
<1>9. CASE j \in 3 + Channels .. n
  <2> DEFINE k == d + j
  <2>1. k \in d + 3 + Channels .. Whole + Channels
    BY <1>1, <1>9
  <2>2. k - Channels \in d + 1 .. PromptLength /\ (k - Channels) - d = j - Channels
    BY <1>1, <1>9
  <2>3. j \in 1 .. n /\ j \in 3 + Channels .. Length(p) + Channels
    BY <1>1, <1>9
  <2> HIDE DEF k
  <2>4. embeds[k] = ids[k - Channels]
    BY <1>2, <2>1
  <2>5. ids[k - Channels] = Prompt(p)[j - Channels]
    BY <1>3, <2>2
  <2>6. seen[j] = Prompt(p)[j - Channels]
    BY <1>4, <1>5, <2>3
  <2> QED BY <2>4, <2>5, <2>6 DEF embeds, seen, ids, k
<1>10. CASE j \in n + 1 .. n + (i - 1)
  <2> DEFINE k == d + j
  <2>1. k \in d + 3 + Channels .. Whole + Channels
    BY <1>1, <1>10
  <2>2. k - Channels \in PromptLength + 1 .. last /\ (k - Channels) - PromptLength = j - n
    BY <1>1, <1>10
  <2> HIDE DEF k
  <2>3. embeds[k] = ids[k - Channels]
    BY <1>2, <2>1
  <2>4. ids[k - Channels] = Response(row.sample)[j - n]
    BY <1>3, <2>2
  <2>5. seen[j] = Response(row.sample)[j - n]
    BY <1>4, <1>10
  <2> QED BY <2>3, <2>4, <2>5 DEF embeds, seen, ids, k
<1> QED BY <1>1, <1>7, <1>8, <1>9, <1>10

\* What the actor attends to when it scores token i is what the server had seen.
LEMMA ContextAsSeen ==
  ASSUME length \in Lengths, NEW row, row.prompt \in Prompts, row.sample \in Samples,
         NEW e, NEW t \in BOOLEAN, NEW w, w = Noise(t), NEW i \in 1 .. length.response[row.sample],
         NEW k, k = PromptLength + Channels - 1 + i
  PROVE  Attended(Merged(row, e, t), MergedMask(InputIds(row)), k)
           = {[at |-> j - 1, is |-> Seen(row, i, e, w)[j]] : j \in DOMAIN Seen(row, i, e, w)}
<1> DEFINE d == Missing(row.prompt)
           n == Length(row.prompt) + Channels
           top == PromptLength + Channels + length.response[row.sample]
           embeds == Merged(row, e, t)
           mask == MergedMask(InputIds(row))
           seen == Seen(row, i, e, w)
<1>1. /\ PromptLength \in Nat /\ ResponseLength \in Nat /\ d \in Nat /\ Channels \in Nat
      /\ Length(row.prompt) \in Nat /\ Length(row.prompt) + d = PromptLength
      /\ length.response[row.sample] \in 1 .. ResponseLength /\ i \in Nat /\ k \in Nat
      /\ Whole = PromptLength + ResponseLength
  BY LengthFacts DEF Whole
<1>2. \A j \in 1 .. Whole + Channels : mask[j] <=> j \in d + 1 .. top
  BY MaskOf
<1>3. \A j \in 1 .. n + (i - 1) : embeds[d + j] = seen[j]
  BY EmbedsAsSeen
<1>4. DOMAIN seen = 1 .. n + (i - 1)
  BY SeenOf
<1>5. top \in Nat /\ k <= top /\ top <= Whole + Channels /\ n + (i - 1) \in Nat
      /\ k = d + (n + (i - 1)) /\ Whole + Channels \in Nat
  BY <1>1
<1> HIDE DEF d, n, top, embeds, mask, seen
<1>6. \A j \in d + 1 .. top : Position(mask, j) = j - d - 1
  <2> DEFINE all == Whole + Channels
  <2>1. all \in Nat /\ top <= all /\ \A j \in 1 .. all : mask[j] <=> j \in d + 1 .. top
    BY <1>2, <1>5, Zenon
  <2> HIDE DEF all
  <2>2. ASSUME NEW j \in d + 1 .. top
        PROVE  Position(mask, j) = j - d - 1
    <3>1. d \in Nat /\ top \in Nat
      BY <1>1, <1>5
    <3> QED BY <3>1, <2>1, PositionOf, Zenon
  <2> QED BY <2>2
<1> DEFINE m == n + (i - 1)
<1>7. m \in Nat /\ k = d + m
  BY <1>5
<1>8. \A j \in 1 .. k : mask[j] <=> j \in d + 1 .. k
  <2>1. ASSUME NEW j \in 1 .. k
        PROVE  mask[j] <=> j \in d + 1 .. k
    <3>1. j \in 1 .. Whole + Channels
      BY <1>1, <1>5
    <3>2. j \in d + 1 .. top <=> j \in d + 1 .. k
      BY <1>1, <1>5
    <3> QED BY <3>1, <3>2, <1>2
  <2> QED BY <2>1
<1>9. {j \in 1 .. k : mask[j]} = d + 1 .. k
  <2>1. \A j \in d + 1 .. k : j \in 1 .. k
    BY <1>1
  <2> QED BY <2>1, <1>8
<1>10. Attended(embeds, mask, k) =
         {[at |-> Position(mask, j), is |-> embeds[j]] : j \in d + 1 .. k}
  <2>1. Attended(embeds, mask, k) =
          {[at |-> Position(mask, j), is |-> embeds[j]] : j \in {x \in 1 .. k : mask[x]}}
    BY Zenon DEF Attended
  <2> QED BY <2>1, <1>9, Zenon
<1> HIDE DEF m
<1>11. \A j \in 1 .. m : d + j \in d + 1 .. k /\ Position(mask, d + j) = j - 1 /\ embeds[d + j] = seen[j]
  <2>1. \A j \in 1 .. m : d + j \in d + 1 .. k /\ d + j \in d + 1 .. top /\ (d + j) - d - 1 = j - 1
    BY <1>1, <1>5, <1>7
  <2> QED BY <2>1, <1>3, <1>6 DEF m
<1>12. \A x \in d + 1 .. k : \E j \in 1 .. m : x = d + j
  <2>1. ASSUME NEW x \in d + 1 .. k
        PROVE  \E j \in 1 .. m : x = d + j
    <3>1. x - d \in 1 .. m /\ x = d + (x - d)
      BY <1>1, <1>7
    <3> QED BY <3>1
  <2> QED BY <2>1
<1> DEFINE scored(x) == [at |-> Position(mask, x), is |-> embeds[x]]
           served(j) == [at |-> j - 1, is |-> seen[j]]
<1>13. {scored(x) : x \in d + 1 .. k} = {served(j) : j \in 1 .. m}
  <2>1. \A j \in 1 .. m : d + j \in d + 1 .. k /\ scored(d + j) = served(j)
    BY <1>11
  <2> HIDE DEF scored, served
  <2>2. \A x \in d + 1 .. k : \E j \in 1 .. m : scored(x) = served(j)
    BY <2>1, <1>12
  <2>3. \A j \in 1 .. m : \E x \in d + 1 .. k : served(j) = scored(x)
    BY <2>1
  <2> QED BY <2>2, <2>3
<1>14. Attended(embeds, mask, k) = {[at |-> j - 1, is |-> seen[j]] : j \in DOMAIN seen}
  BY <1>4, <1>10, <1>13 DEF m
<1> QED BY <1>14 DEF embeds, mask, seen

\* A token as the server's would be with w drawn, but for the adapter.
As(row, i, e, a, w) ==
  [label |-> Served(row, i, e, w).label, context |-> Served(row, i, e, w).context,
   adapter |-> a]
Answer(row, e, a, w) ==
  [i \in 1 .. length.response[row.sample] |-> As(row, i, e, a, w)]

\* A log-probability of the actor is the one the server's would be with that
\* adapter and what is drawn in that mode.
LEMMA ScoredAsServed ==
  ASSUME length \in Lengths, NEW row, row.prompt \in Prompts, row.sample \in Samples,
         NEW a, NEW e, NEW t \in BOOLEAN
  PROVE  LogProbs(row, a, e, t) = Answer(row, e, a, Noise(t))
<1> DEFINE ids == InputIds(row)
           embeds == Merged(row, e, t)
           mask == MergedMask(ids)
           first == Len(embeds) - ResponseLength - 1
           m == length.response[row.sample]
           label(i) == ids[PromptLength + i]
           context(i) == Attended(embeds, mask, first + i)
           w == Noise(t)
<1>1. /\ PromptLength \in Nat /\ ResponseLength \in Nat /\ Channels \in Nat
      /\ m \in 1 .. ResponseLength /\ Whole = PromptLength + ResponseLength
  BY LengthFacts DEF Whole
<1>2. Len(embeds) = Whole + Channels
  BY EmbedsOf
<1>3. first = PromptLength + Channels - 1
  <2> HIDE DEF embeds
  <2> QED BY <1>1, <1>2
<1>4. LogProbs(row, a, e, t) =
        [i \in 1 .. m |-> [label |-> label(i), context |-> context(i), adapter |-> a]]
  BY DEF LogProbs, Merged
<1>5. ASSUME NEW i \in 1 .. m
      PROVE  label(i) = Served(row, i, e, w).label
  <2>1. \A k \in PromptLength + 1 .. PromptLength + m : ids[k] = Response(row.sample)[k - PromptLength]
    BY IdsOf
  <2>2. PromptLength + i \in PromptLength + 1 .. PromptLength + m /\ (PromptLength + i) - PromptLength = i
    BY <1>1
  <2> HIDE DEF ids
  <2>3. ids[PromptLength + i] = Response(row.sample)[i]
    BY <2>1, <2>2
  <2>4. Served(row, i, e, w).label = Response(row.sample)[i]
    BY DEF Served
  <2> QED BY <2>3, <2>4
<1>6. ASSUME NEW i \in 1 .. m
      PROVE  context(i) = Served(row, i, e, w).context
  <2> DEFINE k == first + i
  <2>1. k = PromptLength + Channels - 1 + i
    BY <1>3
  <2> HIDE DEF k, first
  <2>2. Attended(embeds, mask, k) =
          {[at |-> j - 1, is |-> Seen(row, i, e, w)[j]] : j \in DOMAIN Seen(row, i, e, w)}
    BY <2>1, ContextAsSeen
  <2>3. Served(row, i, e, w).context =
          {[at |-> j - 1, is |-> Seen(row, i, e, w)[j]] : j \in DOMAIN Seen(row, i, e, w)}
    BY DEF Served, Seen
  <2> QED BY <2>2, <2>3 DEF k
<1> HIDE DEF label, context, m, w
<1>7. LogProbs(row, a, e, t) =
        [i \in 1 .. m |-> As(row, i, e, a, w)]
  BY <1>4, <1>5, <1>6 DEF As
<1> QED BY <1>7 DEF m, w, Answer

-----------------------------------------------------------------------------
(* Ranks, places and parts *)

LEMMA DivMod ==
  ASSUME NEW x \in Nat, NEW p \in Nat \ {0}, NEW q, q = x \div p, NEW m, m = x % p
  PROVE  x = q * p + m /\ m \in 0 .. p - 1 /\ q \in Nat
<1>1. q \in Int /\ m \in Int
  OBVIOUS
<1>2. x = q * p + m
  BY <1>1
<1>3. m \in 0 .. p - 1
  BY <1>1
<1>4. q \in Nat
  BY <1>1
<1> QED BY <1>2, <1>3, <1>4

LEMMA Times ==
  ASSUME NEW a \in Int, NEW p \in Int
  PROVE  a * p \in Int /\ p * a = a * p /\ (a + 1) * p = a * p + p /\ (a - 1) * p = a * p - p
OBVIOUS

LEMMA TimesMonotone ==
  ASSUME NEW a \in Nat, NEW b \in Nat, NEW p \in Nat, a <= b
  PROVE  a * p \in Nat /\ b * p \in Nat /\ a * p <= b * p
OBVIOUS

LEMMA DivUnique ==
  ASSUME NEW r \in Nat, NEW p \in Nat \ {0}, NEW i \in 0 .. p - 1
  PROVE  (r * p + i) \div p = r /\ (r * p + i) % p = i
OBVIOUS

LEMMA DivBound ==
  ASSUME NEW x \in Nat, NEW p \in Nat \ {0}, NEW n \in Nat, x < n * p
  PROVE  x \div p < n
OBVIOUS

LEMMA SizeFacts ==
  /\ NumPrompts \in Nat \ {0} /\ N \in Nat \ {0} /\ NumRanks \in Nat \ {0} /\ PpoEpochs \in Nat \ {0}
  /\ BatchSize \in Nat \ {0} /\ BatchSize = NumPrompts * N
  /\ PerRank \in Nat \ {0} /\ BatchSize = NumRanks * PerRank
  /\ MiniBatch \in Nat \ {0} /\ NumMini \in Nat \ {0}
  /\ (NumMini - 1) * MiniBatch < PerRank /\ PerRank <= NumMini * MiniBatch
<1>1. /\ NumPrompts \in Nat \ {0} /\ N \in Nat \ {0} /\ NumRanks \in Nat \ {0}
      /\ PpoEpochs \in Nat \ {0} /\ MiniPrompts \in Nat \ {0}
      /\ BatchSize % NumRanks = 0 /\ MiniBatch > 0
  BY Sizes
<1>2. BatchSize \in Nat \ {0} /\ BatchSize = NumPrompts * N
  BY <1>1 DEF BatchSize
<1>3. BatchSize = NumRanks * PerRank /\ PerRank \in Nat
  <2> DEFINE q == BatchSize \div NumRanks
             m == BatchSize % NumRanks
  <2>1. BatchSize = q * NumRanks + m /\ q \in Nat
    BY <1>1, <1>2, DivMod
  <2>2. q = PerRank /\ m = 0
    BY <1>1 DEF PerRank
  <2> HIDE DEF q, m
  <2>3. q * NumRanks = NumRanks * q
    BY <1>1, <2>1, Times
  <2> QED BY <1>1, <2>1, <2>2, <2>3
<1>4. PerRank \in Nat \ {0}
  BY <1>1, <1>2, <1>3
<1>5. MiniBatch \in Nat \ {0}
  <2> DEFINE x == MiniPrompts * N
  <2>1. x \in Nat
    BY <1>1
  <2> HIDE DEF x
  <2>2. x \div NumRanks \in Nat
    BY <1>1, <2>1, DivMod
  <2>3. MiniBatch = x \div NumRanks
    BY DEF MiniBatch, x
  <2> QED BY <1>1, <2>2, <2>3
<1>6. /\ NumMini \in Nat \ {0}
      /\ (NumMini - 1) * MiniBatch < PerRank /\ PerRank <= NumMini * MiniBatch
  <2> DEFINE x == PerRank + MiniBatch - 1
             q == NumMini
  <2>1. x \in Nat /\ x >= MiniBatch
    BY <1>4, <1>5
  <2> DEFINE r == x % MiniBatch
  <2>2. q = x \div MiniBatch /\ r = x % MiniBatch /\ x = PerRank + MiniBatch - 1
    BY DEF NumMini, CeilDiv
  <2> HIDE DEF q, r, x
  <2>3. x = q * MiniBatch + r /\ r \in 0 .. MiniBatch - 1 /\ q \in Nat
    BY <1>5, <2>1, <2>2, DivMod
  <2> DEFINE m == q * MiniBatch
  <2>4. m \in Int /\ (q - 1) * MiniBatch = m - MiniBatch
    BY <1>5, <2>3, Times
  <2>5. q # 0
    BY <1>5, <2>1, <2>3
  <2> HIDE DEF m
  <2>6. m - MiniBatch < PerRank /\ PerRank <= m
    BY <1>4, <1>5, <2>2, <2>3, <2>4
  <2>7. q \in Nat \ {0} /\ (q - 1) * MiniBatch < PerRank /\ PerRank <= q * MiniBatch
    BY <2>3, <2>4, <2>5, <2>6 DEF m
  <2> QED BY <2>7 DEF q
<1> QED BY <1>1, <1>2, <1>3, <1>4, <1>5, <1>6

\* Where row k of rank r is in the batch, and which row of which rank is there.
Place(r, k) == (r - 1) * PerRank + k
RankAt(i) == ((i - 1) \div PerRank) + 1
RowAt(i) == ((i - 1) % PerRank) + 1

LEMMA PlaceOf ==
  ASSUME NEW r \in Ranks, NEW k \in 1 .. PerRank
  PROVE  Place(r, k) \in Samples /\ RankAt(Place(r, k)) = r /\ RowAt(Place(r, k)) = k
<1> DEFINE a == r - 1
           b == k - 1
<1>1. /\ PerRank \in Nat \ {0} /\ NumRanks \in Nat /\ BatchSize \in Nat
      /\ BatchSize = NumRanks * PerRank /\ r \in 1 .. NumRanks /\ r \in Nat
  BY SizeFacts DEF Ranks
<1>2. a \in Nat /\ b \in 0 .. PerRank - 1
  BY <1>1
<1>3. (a * PerRank + b) \div PerRank = a /\ (a * PerRank + b) % PerRank = b
  BY <1>1, <1>2, DivUnique
<1>4. a * PerRank \in Nat /\ r * PerRank <= BatchSize /\ a * PerRank = r * PerRank - PerRank
      /\ r * PerRank \in Int
  BY <1>1, <1>2, Times, TimesMonotone
<1> DEFINE ap == a * PerRank
           rp == r * PerRank
<1>5. Place(r, k) = ap + k
  BY DEF Place
<1>6. Place(r, k) - 1 = ap + b
  BY <1>4, <1>5
<1>7. RankAt(Place(r, k)) = a + 1 /\ RowAt(Place(r, k)) = b + 1
  BY <1>3, <1>6 DEF RankAt, RowAt
<1>8. Place(r, k) \in 1 .. BatchSize
  <2>1. ap \in Nat /\ rp <= BatchSize /\ ap = rp - PerRank /\ rp \in Int
    BY <1>4
  <2> HIDE DEF ap, rp
  <2> QED BY <1>1, <1>5, <2>1
<1>9. a + 1 = r /\ b + 1 = k
  BY <1>1
<1> QED BY <1>7, <1>8, <1>9 DEF Samples

LEMMA RowOf ==
  ASSUME NEW i \in Samples
  PROVE  RankAt(i) \in Ranks /\ RowAt(i) \in 1 .. PerRank /\ Place(RankAt(i), RowAt(i)) = i
<1> DEFINE x == i - 1
           q == x \div PerRank
           m == x % PerRank
<1>1. /\ PerRank \in Nat \ {0} /\ NumRanks \in Nat /\ BatchSize \in Nat
      /\ BatchSize = NumRanks * PerRank /\ i \in 1 .. BatchSize
  BY SizeFacts DEF Samples
<1>2. x \in Nat /\ x < NumRanks * PerRank /\ x + 1 = i
  BY <1>1
<1> HIDE DEF x
<1>3. x = q * PerRank + m /\ m \in 0 .. PerRank - 1 /\ q \in Nat
  BY <1>1, <1>2, DivMod
<1>4. q < NumRanks
  BY <1>1, <1>2, DivBound
<1>5. RankAt(i) = q + 1 /\ RowAt(i) = m + 1
  BY DEF RankAt, RowAt, x
<1> HIDE DEF q, m
<1>6. q + 1 \in Ranks /\ m + 1 \in 1 .. PerRank
  BY <1>1, <1>3, <1>4 DEF Ranks
<1>7. Place(q + 1, m + 1) = i
  <2>1. (q + 1) - 1 = q
    BY <1>3
  <2>2. q * PerRank \in Int
    BY <1>1, <1>3, Times
  <2>3. Place(q + 1, m + 1) = q * PerRank + (m + 1)
    BY <2>1 DEF Place
  <2> QED BY <1>2, <1>3, <2>2, <2>3
<1> QED BY <1>5, <1>6, <1>7

LEMMA ChunkOf ==
  ASSUME NEW r \in Ranks
  PROVE  /\ IsSeq(Chunk(r), PerRank) /\ Len(Chunk(r)) = PerRank
         /\ \A k \in 1 .. PerRank : Chunk(r)[k] = batch[Place(r, k)]
<1> DEFINE a == (r - 1) * PerRank + 1
           b == r * PerRank
           x == (r - 1) * PerRank
<1>1. PerRank \in Nat /\ r \in Int
  BY SizeFacts DEF Ranks
<1>2. x \in Int /\ b \in Int /\ x = b - PerRank
  BY <1>1, Times
<1>3. a = x + 1 /\ \A k : Place(r, k) = x + k
  BY DEF Place
<1> HIDE DEF x
<1>4. Chunk(r) = Sub(batch, a, b)
  BY DEF Chunk, Sub
<1> HIDE DEF a, b
<1>5. a \in Int /\ b \in Int /\ a <= b + 1 /\ b - a + 1 = PerRank
  BY <1>1, <1>2, <1>3
<1>6. /\ IsSeq(Sub(batch, a, b), b - a + 1)
      /\ \A i \in 1 .. (b - a + 1) : Sub(batch, a, b)[i] = batch[a + i - 1]
  BY <1>5, SubOf
<1>7. IsSeq(Chunk(r), PerRank)
  BY <1>4, <1>5, <1>6
<1>8. ASSUME NEW k \in 1 .. PerRank
      PROVE  Chunk(r)[k] = batch[Place(r, k)]
  <2>1. a + k - 1 = x + k
    BY <1>2, <1>3
  <2>2. Chunk(r)[k] = batch[a + k - 1]
    BY <1>4, <1>5, <1>6
  <2> QED BY <2>1, <2>2, <1>3
<1>9. Len(Chunk(r)) = PerRank
  BY <1>1, <1>7, LenOf
<1> QED BY <1>7, <1>8, <1>9

\* How many rows follow the first n of l in a part.
PartLen(l, n, size) == Least(n + size, l) - n

LEMMA PartOf ==
  ASSUME NEW rows, NEW l \in Nat, IsSeq(rows, l), NEW n \in 0 .. l, NEW size \in Nat,
         NEW m, m = PartLen(l, n, size)
  PROVE  /\ m \in Nat /\ n + m <= l /\ m <= size /\ (n + size <= l => m = size)
         /\ (l <= n + size => n + m = l)
         /\ IsSeq(Part(rows, n, size), m) /\ Len(Part(rows, n, size)) = m
         /\ DOMAIN Part(rows, n, size) = 1 .. m
         /\ \A k \in 1 .. m : Part(rows, n, size)[k] = rows[n + k]
<1> DEFINE a == n + 1
           b == Least(n + size, l)
<1>1. Len(rows) = l
  BY LenOf
<1>2. Part(rows, n, size) = Sub(rows, a, b)
  BY <1>1 DEF Part, Sub
<1>3. m \in Nat /\ n + m <= l /\ m <= size /\ b = n + m
      /\ (n + size <= l => m = size) /\ (l <= n + size => n + m = l)
  BY DEF Least, PartLen
<1>4. a \in Int /\ b \in Int /\ a <= b + 1 /\ b - a + 1 = m
  BY <1>3
<1>5. a = n + 1
  OBVIOUS
<1> HIDE DEF a, b
<1>6. /\ IsSeq(Sub(rows, a, b), b - a + 1)
      /\ \A i \in 1 .. (b - a + 1) : Sub(rows, a, b)[i] = rows[a + i - 1]
  BY <1>4, SubOf
<1>7. IsSeq(Part(rows, n, size), m)
  BY <1>2, <1>4, <1>6
<1>8. ASSUME NEW k \in 1 .. m
      PROVE  Part(rows, n, size)[k] = rows[n + k]
  <2>1. a + k - 1 = n + k
    BY <1>5
  <2>2. Part(rows, n, size)[k] = rows[a + k - 1]
    BY <1>2, <1>4, <1>6
  <2> QED BY <2>1, <2>2
<1>9. Len(Part(rows, n, size)) = m /\ DOMAIN Part(rows, n, size) = 1 .. m
  BY <1>3, <1>7, LenOf
<1> QED BY <1>3, <1>7, <1>8, <1>9

\* The rows of a mini-batch: those of the rank that follow the earlier ones.
Start == mini * MiniBatch
MiniLen == PartLen(PerRank, Start, MiniBatch)

LEMMA WindowOf ==
  ASSUME NEW w \in 0 .. NumMini - 1, NEW s, s = w * MiniBatch,
         NEW m, m = PartLen(PerRank, s, MiniBatch)
  PROVE  /\ s \in 0 .. PerRank - 1 /\ m \in 1 .. MiniBatch /\ s + m <= PerRank
         /\ w + 1 # NumMini => s + m = (w + 1) * MiniBatch
         /\ w + 1 = NumMini => s + m = PerRank
<1> DEFINE after == (w + 1) * MiniBatch
           all == (NumMini - 1) * MiniBatch
           whole == NumMini * MiniBatch
<1>1. /\ PerRank \in Nat \ {0} /\ MiniBatch \in Nat \ {0} /\ NumMini \in Nat \ {0}
      /\ all < PerRank /\ PerRank <= whole /\ w \in Nat /\ w <= NumMini - 1
  BY SizeFacts
<1>2. s \in Nat /\ s <= all /\ all \in Nat /\ after = s + MiniBatch /\ whole = all + MiniBatch
  <2>1. s \in Nat /\ s <= all /\ all \in Nat
    BY <1>1, TimesMonotone
  <2>2. after = s + MiniBatch /\ whole = all + MiniBatch
    BY <1>1, Times
  <2> QED BY <2>1, <2>2
<1>3. w + 1 # NumMini => after <= all
  BY <1>1, TimesMonotone
<1>4. w + 1 = NumMini => after = whole
  OBVIOUS
<1> HIDE DEF all, whole, after
<1>5. s \in 0 .. PerRank - 1
  BY <1>1, <1>2
<1>6. /\ m \in 1 .. MiniBatch /\ s + m <= PerRank
      /\ w + 1 # NumMini => s + m = after
      /\ w + 1 = NumMini => s + m = PerRank
  BY <1>1, <1>2, <1>3, <1>4, <1>5 DEF Least, PartLen
<1> QED BY <1>5, <1>6 DEF after

LEMMA MiniOf ==
  ASSUME mini \in 0 .. NumMini - 1
  PROVE  /\ Start \in 0 .. PerRank - 1 /\ MiniLen \in 1 .. MiniBatch
         /\ Start + MiniLen <= PerRank
         /\ mini + 1 # NumMini => Start + MiniLen = (mini + 1) * MiniBatch
         /\ mini + 1 = NumMini => Start + MiniLen = PerRank
         /\ \A r \in Ranks :
              /\ IsSeq(MiniRows(r), MiniLen) /\ Len(MiniRows(r)) = MiniLen
              /\ \A k \in 1 .. MiniLen : MiniRows(r)[k] = batch[Place(r, Start + k)]
<1> DEFINE s == Start
           m == MiniLen
<1>1. PerRank \in Nat /\ MiniBatch \in Nat
  BY SizeFacts
<1>2. s = mini * MiniBatch /\ m = PartLen(PerRank, s, MiniBatch)
  BY DEF Start, MiniLen
<1>3. \A r : MiniRows(r) = Part(Chunk(r), s, MiniBatch)
  BY DEF MiniRows, Start
<1> HIDE DEF s, m
<1>4. /\ s \in 0 .. PerRank - 1 /\ m \in 1 .. MiniBatch /\ s + m <= PerRank
      /\ mini + 1 # NumMini => s + m = (mini + 1) * MiniBatch
      /\ mini + 1 = NumMini => s + m = PerRank
  BY <1>2, WindowOf
<1>5. s \in 0 .. PerRank
  BY <1>1, <1>4
<1>6. ASSUME NEW r \in Ranks
      PROVE  /\ IsSeq(MiniRows(r), m) /\ Len(MiniRows(r)) = m
             /\ \A k \in 1 .. m : MiniRows(r)[k] = batch[Place(r, s + k)]
  <2> DEFINE rows == Chunk(r)
  <2>1. IsSeq(rows, PerRank) /\ \A k \in 1 .. PerRank : rows[k] = batch[Place(r, k)]
    BY ChunkOf
  <2> HIDE DEF rows
  <2>2. IsSeq(Part(rows, s, MiniBatch), m) /\ Len(Part(rows, s, MiniBatch)) = m
    BY <1>1, <1>2, <1>5, <2>1, PartOf
  <2>3. \A k \in 1 .. m : Part(rows, s, MiniBatch)[k] = rows[s + k]
    BY <1>1, <1>2, <1>5, <2>1, PartOf
  <2>4. MiniRows(r) = Part(rows, s, MiniBatch)
    BY <1>3 DEF rows
  <2>5. \A k \in 1 .. m : s + k \in 1 .. PerRank
    BY <1>1, <1>4
  <2> QED BY <2>1, <2>2, <2>3, <2>4, <2>5
<1> QED BY <1>4, <1>6 DEF s, m

-----------------------------------------------------------------------------
(* Balancing puts every row in one place *)

\* Prompt and response of every row of the batch are of this rollout.
RowsKnown == \A i \in Samples : batch[i].sample \in Samples /\ batch[i].prompt \in Prompts

LEMMA BeforeIsOrder ==
  ASSUME length \in Lengths, RowsKnown
  PROVE  /\ \A i \in Samples : ~ Before(i, i)
         /\ \A i, j, k \in Samples : Before(i, j) /\ Before(j, k) => Before(i, k)
         /\ \A i, j \in Samples : i # j => Before(i, j) \/ Before(j, i)
<1>1. \A i \in Samples : Workload(i) \in Int /\ i \in Int
  <2>1. \A p \in Prompts : length.question[p] \in Int
    BY LengthsFit
  <2>2. \A s \in Samples : length.response[s] \in Int
    BY LengthsFit
  <2>3. \A i \in Samples : i \in Int
    BY DEF Samples
  <2> QED BY <2>1, <2>2, <2>3 DEF RowsKnown, Workload
<1> QED BY <1>1 DEF Before

Earlier(part, i) == {j \in part : Before(j, i)}

LEMMA EarlierOf ==
  ASSUME length \in Lengths, RowsKnown, NEW part \in SUBSET Samples, IsFiniteSet(part)
  PROVE  /\ \A i \in part : Cardinality(Earlier(part, i)) \in 0 .. Cardinality(part) - 1
         /\ \A i, j \in part :
              Cardinality(Earlier(part, i)) = Cardinality(Earlier(part, j)) => i = j
<1>1. \A i \in part : IsFiniteSet(Earlier(part, i)) /\ Cardinality(Earlier(part, i)) \in Nat
  <2>1. \A i \in part : Earlier(part, i) \in SUBSET part
    BY DEF Earlier
  <2> QED BY <2>1, FS_Subset, FS_CardinalityType
<1>2. ASSUME NEW i \in part
      PROVE  Cardinality(Earlier(part, i)) \in 0 .. Cardinality(part) - 1
  <2>1. Earlier(part, i) \in SUBSET part /\ i \notin Earlier(part, i)
    BY BeforeIsOrder DEF Earlier
  <2>2. Cardinality(Earlier(part, i)) <= Cardinality(part)
        /\ Cardinality(Earlier(part, i)) # Cardinality(part)
    BY <2>1, FS_Subset
  <2>3. Cardinality(part) \in Nat
    BY FS_CardinalityType
  <2> QED BY <1>1, <2>2, <2>3
<1>3. ASSUME NEW i \in part, NEW j \in part, Before(i, j)
      PROVE  Cardinality(Earlier(part, i)) # Cardinality(Earlier(part, j))
  <2>1. i \in Samples /\ j \in Samples
    OBVIOUS
  <2>2. Earlier(part, i) \in SUBSET Earlier(part, j)
    BY <1>3, <2>1, BeforeIsOrder DEF Earlier
  <2>3. i \in Earlier(part, j) /\ i \notin Earlier(part, i)
    BY <1>3, <2>1, BeforeIsOrder DEF Earlier
  <2> QED BY <1>1, <2>2, <2>3, FS_Subset
<1>4. ASSUME NEW i \in part, NEW j \in part, i # j
      PROVE  Cardinality(Earlier(part, i)) # Cardinality(Earlier(part, j))
  <2>1. Before(i, j) \/ Before(j, i)
    BY <1>4, BeforeIsOrder
  <2> QED BY <2>1, <1>3
<1> QED BY <1>2, <1>4

LEMMA SortedOf ==
  ASSUME length \in Lengths, RowsKnown, NEW part \in SUBSET Samples, IsFiniteSet(part),
         NEW n \in Nat, n = Cardinality(part)
  PROVE  /\ IsSeq(Sorted(part), n)
         /\ \A k \in 1 .. n : Sorted(part)[k] \in part
         /\ \A k, l \in 1 .. n : Sorted(part)[k] = Sorted(part)[l] => k = l
<1> DEFINE order == [i \in part |-> Cardinality(Earlier(part, i))]
           T == 0 .. n - 1
<1>1. order \in Injection(part, T)
  <2>1. order \in [part -> T]
    BY EarlierOf
  <2>2. \A i, j \in DOMAIN order : order[i] = order[j] => i = j
    BY EarlierOf
  <2> HIDE DEF order, T
  <2> QED BY <2>1, <2>2 DEF Injection, IsInjective
<1>2. IsFiniteSet(T) /\ Cardinality(T) = n
  <2> DEFINE a == 0
             b == n - 1
  <2>1. a \in Int /\ b \in Int /\ T = a .. b /\ (IF a > b THEN 0 ELSE b - a + 1) = n
    OBVIOUS
  <2> HIDE DEF a, b, T
  <2>2. IsFiniteSet(a .. b) /\ Cardinality(a .. b) = IF a > b THEN 0 ELSE b - a + 1
    BY <2>1, FS_Interval
  <2> QED BY <2>1, <2>2
<1>3. \A k \in 1 .. n : k - 1 \in T
  OBVIOUS
<1> HIDE DEF T
<1>4. order \in Surjection(part, T)
  <2> HIDE DEF order
  <2> QED BY <1>1, <1>2, FS_Injection
<1>5. \A k \in 1 .. n : \E i \in part : Cardinality(Earlier(part, i)) = k - 1
  <2>1. \A m \in T : \E i \in part : order[i] = m
    BY <1>4 DEF Surjection
  <2> QED BY <2>1, <1>3
<1>6. Sorted(part) = [k \in 1 .. n |-> CHOOSE i \in part : Cardinality(Earlier(part, i)) = k - 1]
  BY DEF Sorted, Earlier
<1>7. ASSUME NEW k \in 1 .. n
      PROVE  Sorted(part)[k] \in part /\ Cardinality(Earlier(part, Sorted(part)[k])) = k - 1
  BY <1>5, <1>6
<1>8. IsSeq(Sorted(part), n)
  BY <1>6 DEF IsSeq
<1>9. ASSUME NEW k \in 1 .. n, NEW l \in 1 .. n, Sorted(part)[k] = Sorted(part)[l]
      PROVE  k = l
  <2>1. k - 1 = l - 1
    BY <1>7, <1>9
  <2> QED BY <2>1
<1> QED BY <1>7, <1>8, <1>9

\* Where the k-th of n comes from.
EndAt(n, k) == IF 2 * k - 1 <= n THEN 2 * k - 1 ELSE 2 * (n - k + 1)

LEMMA EndsOf ==
  ASSUME NEW n \in Nat, NEW s, IsSeq(s, n)
  PROVE  /\ \A k \in 1 .. n : EndAt(n, k) \in 1 .. n /\ Ends(s)[k] = s[EndAt(n, k)]
         /\ \A k, l \in 1 .. n : EndAt(n, k) = EndAt(n, l) => k = l
<1>1. Len(s) = n /\ DOMAIN s = 1 .. n
  BY LenOf
<1>2. Ends(s) = [k \in 1 .. n |-> s[EndAt(n, k)]]
  BY <1>1 DEF Ends, EndAt
<1>3. \A k \in 1 .. n : EndAt(n, k) \in 1 .. n
  BY DEF EndAt
<1>4. \A k, l \in 1 .. n : EndAt(n, k) = EndAt(n, l) => k = l
  BY DEF EndAt
<1>5. \A k \in 1 .. n : Ends(s)[k] = s[EndAt(n, k)]
  BY <1>2
<1> QED BY <1>3, <1>4, <1>5

\* Where the row at i comes from.
RankPart(rank, r) == {i \in Samples : rank[i] = r}
From(rank, i) == Ends(Sorted(RankPart(rank, RankAt(i))))[RowAt(i)]

LEMMA FromOf ==
  ASSUME length \in Lengths, RowsKnown, NEW rank \in [Samples -> Ranks],
         \A r \in Ranks : Cardinality(RankPart(rank, r)) = PerRank
  PROVE  /\ \A i \in Samples : From(rank, i) \in Samples
         /\ \A i, j \in Samples : From(rank, i) = From(rank, j) => i = j
<1>1. PerRank \in Nat /\ IsFiniteSet(Samples)
  <2>1. BatchSize \in Int /\ 1 \in Int
    BY SizeFacts
  <2> QED BY <2>1, SizeFacts, FS_Interval DEF Samples
<1> DEFINE sorted(r) == Sorted(RankPart(rank, r))
<1>2. ASSUME NEW r \in Ranks
      PROVE  /\ IsSeq(sorted(r), PerRank)
             /\ \A k \in 1 .. PerRank : sorted(r)[k] \in Samples /\ rank[sorted(r)[k]] = r
             /\ \A k, l \in 1 .. PerRank : sorted(r)[k] = sorted(r)[l] => k = l
  <2> DEFINE part == RankPart(rank, r)
  <2>1. part \in SUBSET Samples /\ \A i \in part : i \in Samples /\ rank[i] = r
    BY DEF RankPart
  <2>2. PerRank = Cardinality(part)
    OBVIOUS
  <2> HIDE DEF part
  <2>3. IsFiniteSet(part)
    BY <1>1, <2>1, FS_Subset
  <2>4. /\ IsSeq(Sorted(part), PerRank)
        /\ \A k \in 1 .. PerRank : Sorted(part)[k] \in part
        /\ \A k, l \in 1 .. PerRank : Sorted(part)[k] = Sorted(part)[l] => k = l
    BY <1>1, <2>1, <2>2, <2>3, SortedOf
  <2> QED BY <2>1, <2>4 DEF part
<1> HIDE DEF sorted
<1>3. ASSUME NEW i \in Samples
      PROVE  /\ EndAt(PerRank, RowAt(i)) \in 1 .. PerRank
             /\ From(rank, i) = sorted(RankAt(i))[EndAt(PerRank, RowAt(i))]
  <2>1. RankAt(i) \in Ranks /\ RowAt(i) \in 1 .. PerRank
    BY RowOf
  <2>2. IsSeq(sorted(RankAt(i)), PerRank)
    BY <1>2, <2>1
  <2>3. /\ EndAt(PerRank, RowAt(i)) \in 1 .. PerRank
        /\ Ends(sorted(RankAt(i)))[RowAt(i)] = sorted(RankAt(i))[EndAt(PerRank, RowAt(i))]
    BY <1>1, <2>1, <2>2, EndsOf
  <2>4. From(rank, i) = Ends(sorted(RankAt(i)))[RowAt(i)]
    BY DEF From, sorted
  <2> QED BY <2>3, <2>4
<1>4. ASSUME NEW i \in Samples
      PROVE  From(rank, i) \in Samples /\ rank[From(rank, i)] = RankAt(i)
  BY <1>2, <1>3, RowOf
<1>5. ASSUME NEW i \in Samples, NEW j \in Samples, From(rank, i) = From(rank, j)
      PROVE  i = j
  <2>1. RankAt(i) = RankAt(j)
    BY <1>4, <1>5
  <2>2. EndAt(PerRank, RowAt(i)) = EndAt(PerRank, RowAt(j))
    BY <1>2, <1>3, <1>5, <2>1, RowOf
  <2>3. IsSeq(sorted(RankAt(i)), PerRank)
    BY <1>2, RowOf
  <2>4. RowAt(i) = RowAt(j)
    BY <1>1, <2>2, <2>3, RowOf, EndsOf
  <2> QED BY <2>1, <2>4, RowOf
<1> QED BY <1>4, <1>5

-----------------------------------------------------------------------------
(* What the steps keep *)

\* The prompt that sample s answers.
Own(s) == ((s - 1) \div N) + 1

\* What compute_log_prob makes of a row.
Scores(x, a, e) == LogProbs(x, a, e, FALSE)

IsRow(x) ==
  x = [uid |-> x.uid, sample |-> x.sample, prompt |-> x.prompt, version |-> x.version,
       old |-> x.old, ref |-> x.ref, adv |-> x.adv]

Dealt == {"balance", "old", "ref", "advantage", "update"}

\* The loops of the update have run to their end wherever fit() is elsewhere.
Control ==
  /\ pc \in {"load", "join"} \cup Dealt
  /\ length \in Lengths /\ version \in Nat
  /\ epoch \in 0 .. (PpoEpochs - 1) /\ mini \in 0 .. (NumMini - 1)
  /\ pc # "update" => epoch = 0 /\ mini = 0 /\ loss = Nothing
  /\ pc \notin {"old", "ref"} => out = Nothing

\* The rollout answers every prompt N times, in the order of the prompts.
Generated ==
  /\ pc # "load" => \A s \in Samples : gen[s].sample = s /\ gen[s].prompt = Own(s)
  /\ pc = "join" =>
       /\ \A s \in Samples : gen[s].version = version
       /\ IsSeq(batch, NumPrompts) /\ \A p \in Prompts : batch[p].uid = p

\* The rows of the batch are the samples of the rollout in some order, each
\* with the uid of its own prompt.
Shuffled ==
  pc \in Dealt =>
    /\ \A i \in Samples :
         /\ IsRow(batch[i]) /\ batch[i].sample \in Samples
         /\ batch[i].prompt = Own(batch[i].sample) /\ batch[i].uid = Own(batch[i].sample)
    /\ \A i, j \in Samples : batch[i].sample = batch[j].sample => i = j

\* Until the first optimizer step the policy is the one that sampled the rows.
Fresh ==
  pc \in Dealt /\ epoch = 0 /\ mini = 0 => \A i \in Samples : batch[i].version = version

OldScored ==
  pc \in {"ref", "advantage", "update"} =>
    \A i \in Samples : batch[i].old = Scores(batch[i], batch[i].version, batch[i].version)
RefScored ==
  pc \in {"advantage", "update"} =>
    \A i \in Samples : batch[i].ref = Scores(batch[i], 0, batch[i].version)

\* The rows that a rank has scored so far are its first ones, in their order.
Adapter == IF pc = "old" THEN version ELSE 0
Scoring ==
  pc \in {"old", "ref"} =>
    \A r \in Ranks :
      /\ Len(out[r]) \in 0 .. PerRank /\ IsSeq(out[r], Len(out[r]))
      /\ \A k \in 1 .. Len(out[r]) :
           out[r][k] = Scores(batch[Place(r, k)], Adapter, version)

\* The terms of the loss are the first rows of the rank's mini-batch.
Accumulated ==
  pc = "update" =>
    \A r \in Ranks :
      /\ Len(loss[r]) \in 0 .. MiniLen /\ IsSeq(loss[r], Len(loss[r]))
      /\ \A k \in 1 .. Len(loss[r]) : loss[r][k] = Term(batch[Place(r, Start + k)])

Group(i) == {j \in Samples : batch[j].uid = batch[i].uid}
Verdict(i) ==
  [own |-> batch[i].sample, scores |-> {batch[j].sample : j \in Group(i)},
   size |-> Cardinality(Group(i))]
Judged == pc = "update" => \A i \in Samples : batch[i].adv = Verdict(i)

BatchInv ==
  /\ Control /\ Generated /\ Shuffled /\ Fresh /\ OldScored /\ RefScored
  /\ Scoring /\ Accumulated /\ Judged

LEMMA OwnOf == \A s \in Samples : Own(s) \in Prompts
<1> SUFFICES ASSUME NEW s \in Samples
             PROVE  Own(s) \in Prompts
  OBVIOUS
<1> DEFINE x == s - 1
           q == x \div N
<1>1. N \in Nat \ {0} /\ NumPrompts \in Nat /\ BatchSize = NumPrompts * N /\ BatchSize \in Nat
  BY SizeFacts
<1>2. x \in Nat /\ x < NumPrompts * N
  BY <1>1 DEF Samples
<1> HIDE DEF x
<1>3. q \in Nat /\ q < NumPrompts
  <2>1. q < NumPrompts
    BY <1>1, <1>2, DivBound
  <2>2. q \in Nat
    BY <1>1, <1>2, DivMod
  <2> QED BY <2>1, <2>2
<1>4. Own(s) = q + 1
  BY DEF Own, x
<1> HIDE DEF q
<1> QED BY <1>1, <1>3, <1>4 DEF Prompts

LEMMA RepeatOf ==
  ASSUME NEW rows, IsSeq(rows, NumPrompts)
  PROVE  \A s \in Samples : Repeat(rows)[s] = rows[Own(s)]
<1>1. NumPrompts \in Nat /\ N \in Nat /\ N * NumPrompts = BatchSize
  BY SizeFacts, Times
<1>2. Len(rows) = NumPrompts
  BY <1>1, LenOf
<1>3. Repeat(rows) = [s \in Samples |-> rows[Own(s)]]
  BY <1>1, <1>2 DEF Repeat, Own, Samples
<1> QED BY <1>3

\* The log-probabilities are of the tokens, whatever else the row carries.
LEMMA SameTokens ==
  ASSUME NEW x, NEW y, y.sample = x.sample, y.prompt = x.prompt, NEW a, NEW e
  PROVE  Scores(y, a, e) = Scores(x, a, e)
BY DEF Scores, LogProbs, InputIds

LEMMA SameLengths ==
  ASSUME length' = length, NEW x, NEW a, NEW e
  PROVE  Scores(x, a, e)' = Scores(x, a, e)
BY DEF Scores, LogProbs, InputIds, Prompt, Response

LEMMA WithOld ==
  ASSUME NEW x, IsRow(x), NEW c, NEW y, y = [x EXCEPT !.old = c]
  PROVE  IsRow(y) /\ y.uid = x.uid /\ y.sample = x.sample /\ y.prompt = x.prompt
         /\ y.version = x.version /\ y.old = c
BY DEF IsRow

LEMMA WithRef ==
  ASSUME NEW x, IsRow(x), NEW c, NEW y, y = [x EXCEPT !.ref = c]
  PROVE  IsRow(y) /\ y.uid = x.uid /\ y.sample = x.sample /\ y.prompt = x.prompt
         /\ y.version = x.version /\ y.old = x.old /\ y.ref = c
BY DEF IsRow

LEMMA WithAdv ==
  ASSUME NEW x, IsRow(x), NEW c, NEW y, y = [x EXCEPT !.adv = c]
  PROVE  IsRow(y) /\ y.uid = x.uid /\ y.sample = x.sample /\ y.prompt = x.prompt
         /\ y.version = x.version /\ y.old = x.old /\ y.ref = x.ref /\ y.adv = c
BY DEF IsRow

-----------------------------------------------------------------------------
(* The steps *)

LEMMA InitKeeps == Init => BatchInv
<1> SUFFICES ASSUME Init PROVE BatchInv
  OBVIOUS
<1>1. Control
  BY SizeFacts DEF Init, Control
<1>2. pc = "load"
  BY DEF Init
<1> QED BY <1>1, <1>2 DEF BatchInv, Generated, Shuffled, Fresh, OldScored, RefScored, Scoring,
                          Accumulated, Judged, Dealt

LEMMA RolloutKeeps ==
  ASSUME BatchInv, Rollout
  PROVE  BatchInv'
<1>1. Control'
  BY DEF BatchInv, Control, Rollout, Nothing, Dealt
<1>2. pc' = "join"
  BY DEF Rollout
<1>3. Generated'
  <2> DEFINE b == [p \in Prompts |-> [uid |-> p]]
  <2>1. batch' = b /\ IsSeq(b, NumPrompts) /\ \A p \in Prompts : b[p].uid = p
    BY DEF Rollout, IsSeq, Prompts
  <2> HIDE DEF b
  <2>2. gen' = [s \in Samples |-> [sample |-> s, prompt |-> Repeat(b)[s].uid, version |-> version]]
    BY <2>1 DEF Rollout
  <2>3. \A s \in Samples : Repeat(b)[s].uid = Own(s)
    BY <2>1, RepeatOf, OwnOf
  <2>4. version' = version
    BY DEF Rollout
  <2> QED BY <1>2, <2>1, <2>2, <2>3, <2>4 DEF Generated
<1> QED BY <1>1, <1>2, <1>3 DEF BatchInv, Shuffled, Fresh, OldScored, RefScored, Scoring,
                                Accumulated, Judged, Dealt

LEMMA JoinKeeps ==
  ASSUME BatchInv, Join
  PROVE  BatchInv'
<1>1. Control'
  BY DEF BatchInv, Control, Join, loop, Nothing, Dealt
<1>2. pc = "join" /\ pc' = "balance" /\ gen' = gen /\ version' = version
  BY DEF Join
<1>3. Generated'
  BY <1>2 DEF BatchInv, Generated
<1>4. ASSUME NEW i \in Samples
      PROVE  /\ IsRow(batch'[i]) /\ batch'[i].sample = i /\ batch'[i].prompt = Own(i)
             /\ batch'[i].uid = Own(i) /\ batch'[i].version = version
  <2>1. Repeat(batch)[i] = batch[Own(i)] /\ Own(i) \in Prompts
    BY <1>2, RepeatOf, OwnOf DEF BatchInv, Generated
  <2>2. batch[Own(i)].uid = Own(i) /\ gen[i].sample = i /\ gen[i].prompt = Own(i)
        /\ gen[i].version = version
    BY <1>2, <2>1 DEF BatchInv, Generated
  <2>3. batch'[i] = [uid |-> Own(i), sample |-> i, prompt |-> Own(i), version |-> version,
                     old |-> << >>, ref |-> << >>, adv |-> NoScores]
    BY <2>1, <2>2 DEF Join, Joined
  <2> QED BY <2>3 DEF IsRow
<1>5. Shuffled'
  BY <1>4 DEF Shuffled
<1>6. Fresh'
  BY <1>2, <1>4 DEF Fresh
<1> QED BY <1>1, <1>2, <1>3, <1>5, <1>6 DEF BatchInv, OldScored, RefScored, Scoring, Accumulated, Judged

LEMMA BalanceKeeps ==
  ASSUME BatchInv, Balance
  PROVE  BatchInv'
<1>1. Control'
  BY DEF BatchInv, Control, Balance, loop, Nothing, Dealt
<1>2. pc = "balance" /\ pc' = "old" /\ gen' = gen /\ version' = version /\ out' = out
      /\ epoch' = epoch /\ mini' = mini
  BY DEF Balance, loop
<1>3. Generated'
  BY <1>2 DEF BatchInv, Generated
<1>4. PICK rank \in [Samples -> Ranks] :
        /\ \A r \in Ranks : Cardinality(RankPart(rank, r)) = PerRank
        /\ \A i \in Samples : batch'[i] = batch[From(rank, i)]
  BY DEF Balance, RankPart, From, RankAt, RowAt
<1>5. /\ \A i \in Samples : From(rank, i) \in Samples
      /\ \A i, j \in Samples : From(rank, i) = From(rank, j) => i = j
  <2>1. length \in Lengths
    BY DEF BatchInv, Control
  <2>2. RowsKnown
    BY <1>2, OwnOf DEF BatchInv, Shuffled, RowsKnown, Dealt
  <2> QED BY <1>4, <2>1, <2>2, FromOf
<1>6. Shuffled'
  BY <1>2, <1>4, <1>5 DEF BatchInv, Shuffled, Dealt
<1>7. Fresh'
  BY <1>2, <1>4, <1>5 DEF BatchInv, Fresh, Dealt
<1>8. Scoring'
  <2>1. out' = [r \in Ranks |-> << >>]
    BY <1>2 DEF BatchInv, Control, Nothing
  <2>2. Len(<< >>) = 0 /\ IsSeq(<< >>, 0)
    BY DEF IsSeq
  <2>3. PerRank \in Nat
    BY SizeFacts
  <2> QED BY <2>1, <2>2, <2>3 DEF Scoring
<1> QED BY <1>1, <1>2, <1>3, <1>6, <1>7, <1>8 DEF BatchInv, OldScored, RefScored, Accumulated, Judged

\* A rank's next rows follow those that it has scored.
LEMMA GrowOf ==
  ASSUME NEW l \in Nat, NEW rows, IsSeq(rows, l), NEW done, NEW n \in 0 .. l, IsSeq(done, n),
         NEW size \in Nat, NEW more,
         more = [i \in DOMAIN Part(rows, n, size) |-> more[i]]
  PROVE  LET all == Cat(done, more) IN
         /\ Len(all) \in n .. l /\ IsSeq(all, Len(all))
         /\ \A k \in 1 .. n : all[k] = done[k]
         /\ \A k \in n + 1 .. Len(all) : /\ k - n \in DOMAIN Part(rows, n, size)
                                         /\ all[k] = more[k - n]
                                         /\ Part(rows, n, size)[k - n] = rows[k]
<1> DEFINE m == PartLen(l, n, size)
           part == Part(rows, n, size)
           all == Cat(done, more)
<1>1. /\ m \in Nat /\ n + m <= l /\ DOMAIN part = 1 .. m
      /\ \A k \in 1 .. m : part[k] = rows[n + k]
  BY PartOf
<1> HIDE DEF m, part
<1>2. more = [i \in 1 .. m |-> more[i]]
  BY <1>1 DEF part
<1>3. IsSeq(more, m)
  BY <1>2 DEF IsSeq
<1>4. /\ IsSeq(all, n + m)
      /\ \A k \in 1 .. n : all[k] = done[k]
      /\ \A k \in n + 1 .. n + m : all[k] = more[k - n]
  BY <1>1, <1>3, ConcatOf
<1> HIDE DEF all
<1>5. n + m \in Nat
  BY <1>1
<1>6. Len(all) = n + m
  BY <1>4, <1>5, LenOf
<1>7. ASSUME NEW k \in n + 1 .. n + m
      PROVE  k - n \in DOMAIN part /\ part[k - n] = rows[k]
  <2>1. k - n \in 1 .. m /\ n + (k - n) = k
    BY <1>1
  <2> QED BY <1>1, <2>1
<1>8. Len(all) \in n .. l /\ IsSeq(all, Len(all))
  BY <1>1, <1>4, <1>6
<1> QED BY <1>4, <1>6, <1>7, <1>8 DEF part, all

LEMMA ScoreKeeps ==
  ASSUME BatchInv, pc \in {"old", "ref"}, NEW size \in Nat, Score(size, Adapter)
  PROVE  BatchInv'
<1>1. /\ pc' = pc /\ length' = length /\ version' = version /\ gen' = gen /\ batch' = batch
      /\ epoch' = epoch /\ mini' = mini /\ loss' = loss
  BY DEF Score, loop
<1>2. Control'
  BY <1>1 DEF BatchInv, Control, Nothing, Dealt
<1>3. Generated' /\ Shuffled' /\ Fresh'
  BY <1>1 DEF BatchInv, Generated, Shuffled, Fresh
<1>4. OldScored' /\ RefScored'
  BY <1>1, SameLengths DEF BatchInv, OldScored, RefScored
<1>5. Accumulated' /\ Judged'
  BY <1>1 DEF Accumulated, Judged
<1>6. ASSUME NEW r \in Ranks
      PROVE  /\ Len(out'[r]) \in 0 .. PerRank /\ IsSeq(out'[r], Len(out'[r]))
             /\ \A k \in 1 .. Len(out'[r]) :
                  out'[r][k] = Scores(batch[Place(r, k)], Adapter, version)
  <2> DEFINE rows == Chunk(r)
             done == out[r]
             n == Len(done)
             part == Part(rows, n, size)
             more == [i \in DOMAIN part |-> Scores(part[i], Adapter, version)]
             all == Cat(done, more)
  <2>1. out'[r] = all
    BY DEF Score, Cat, Scores
  <2>2. /\ n \in 0 .. PerRank /\ IsSeq(done, n)
        /\ \A k \in 1 .. n : done[k] = Scores(batch[Place(r, k)], Adapter, version)
    BY DEF BatchInv, Scoring
  <2>3. PerRank \in Nat /\ IsSeq(rows, PerRank) /\ \A k \in 1 .. PerRank : rows[k] = batch[Place(r, k)]
    BY SizeFacts, ChunkOf
  <2>4. more = [i \in DOMAIN part |-> more[i]]
    OBVIOUS
  <2>5. \A i \in DOMAIN part : more[i] = Scores(part[i], Adapter, version)
    OBVIOUS
  <2> HIDE DEF rows, done, n, more
  <2>6. /\ Len(all) \in n .. PerRank /\ IsSeq(all, Len(all))
        /\ \A k \in 1 .. n : all[k] = done[k]
        /\ \A k \in n + 1 .. Len(all) : /\ k - n \in DOMAIN part /\ all[k] = more[k - n]
                                        /\ part[k - n] = rows[k]
    <3> HIDE DEF part
    <3>1. PerRank \in Nat /\ IsSeq(rows, PerRank) /\ n \in 0 .. PerRank /\ IsSeq(done, n)
      BY <2>2, <2>3
    <3>2. part = Part(rows, n, size)
      BY DEF part
    <3> QED BY <3>1, <3>2, <2>4, GrowOf
  <2> HIDE DEF all, part
  <2>7. Len(all) \in 0 .. PerRank
    BY <2>2, <2>3, <2>6
  <2>8. ASSUME NEW k \in 1 .. Len(all)
        PROVE  all[k] = Scores(batch[Place(r, k)], Adapter, version)
    <3>1. CASE k \in 1 .. n
      BY <2>2, <2>6, <3>1
    <3>2. CASE k \in n + 1 .. Len(all)
      <4>1. k \in 1 .. PerRank
        BY <2>3, <2>7
      <4> QED BY <2>3, <2>5, <2>6, <3>2, <4>1
    <3>3. k \in 1 .. n \/ k \in n + 1 .. Len(all)
      BY <2>2, <2>7
    <3> QED BY <3>1, <3>2, <3>3
  <2> QED BY <2>1, <2>6, <2>7, <2>8
<1>7. Scoring'
  <2>1. Adapter' = Adapter
    BY <1>1 DEF Adapter
  <2> QED BY <1>1, <1>6, <2>1, SameLengths DEF Scoring
<1> QED BY <1>2, <1>3, <1>4, <1>5, <1>7 DEF BatchInv

LEMMA CollectedOf ==
  ASSUME BatchInv, pc \in {"old", "ref"}, Scored
  PROVE  \A i \in Samples : Collected[i] = Scores(batch[i], Adapter, version)
<1> SUFFICES ASSUME NEW i \in Samples
             PROVE  Collected[i] = Scores(batch[i], Adapter, version)
  OBVIOUS
<1>1. RankAt(i) \in Ranks /\ RowAt(i) \in 1 .. PerRank /\ Place(RankAt(i), RowAt(i)) = i
  BY RowOf
<1>2. Collected[i] = out[RankAt(i)][RowAt(i)]
  BY DEF Collected, RankAt, RowAt
<1>3. Len(out[RankAt(i)]) = PerRank
  BY <1>1 DEF Scored
<1>4. \A k \in 1 .. PerRank :
        out[RankAt(i)][k] = Scores(batch[Place(RankAt(i), k)], Adapter, version)
  BY <1>1, <1>3 DEF BatchInv, Scoring
<1> QED BY <1>1, <1>2, <1>4

LEMMA UnionOldKeeps ==
  ASSUME BatchInv, UnionOld
  PROVE  BatchInv'
<1>1. /\ pc = "old" /\ pc' = "ref" /\ out' = Nothing /\ length' = length /\ version' = version
      /\ gen' = gen /\ epoch' = epoch /\ mini' = mini /\ loss' = loss
  BY DEF UnionOld, loop
<1>2. Control'
  BY <1>1 DEF BatchInv, Control, Nothing, Dealt
<1>3. Generated'
  BY <1>1 DEF BatchInv, Generated
<1>4. \A i \in Samples :
        /\ IsRow(batch[i]) /\ batch[i].sample \in Samples
        /\ batch[i].prompt = Own(batch[i].sample) /\ batch[i].uid = Own(batch[i].sample)
  BY <1>1 DEF BatchInv, Shuffled, Dealt
<1>5. ASSUME NEW i \in Samples
      PROVE  /\ IsRow(batch'[i]) /\ batch'[i].uid = batch[i].uid
             /\ batch'[i].sample = batch[i].sample /\ batch'[i].prompt = batch[i].prompt
             /\ batch'[i].version = batch[i].version
             /\ batch'[i].old = Scores(batch[i], version, version)
  <2> DEFINE c == Scores(batch[i], version, version)
  <2>1. Collected[i] = c
    BY <1>1, CollectedOf DEF UnionOld, Adapter
  <2> HIDE DEF c
  <2>2. batch'[i] = [batch[i] EXCEPT !.old = c]
    BY <2>1 DEF UnionOld
  <2>3. IsRow(batch'[i]) /\ batch'[i].uid = batch[i].uid /\ batch'[i].sample = batch[i].sample
        /\ batch'[i].prompt = batch[i].prompt /\ batch'[i].version = batch[i].version
        /\ batch'[i].old = c
    BY <1>4, <2>2, WithOld
  <2> QED BY <2>3 DEF c
<1>6. Shuffled'
  BY <1>1, <1>4, <1>5 DEF BatchInv, Shuffled, Dealt
<1>7. Fresh'
  BY <1>1, <1>5 DEF BatchInv, Fresh, Dealt
<1>8. OldScored'
  <2>1. ASSUME NEW i \in Samples
        PROVE  Scores(batch[i], batch[i].version, batch[i].version)'
                 = Scores(batch[i], batch[i].version, batch[i].version)
    BY <1>1, <1>5, SameTokens, SameLengths
  <2>2. \A i \in Samples : batch[i].version = version
    BY <1>1 DEF BatchInv, Fresh, Control, Dealt
  <2> QED BY <1>5, <2>1, <2>2 DEF OldScored
<1>9. Scoring'
  <2>1. out' = [r \in Ranks |-> << >>]
    BY <1>1 DEF Nothing
  <2>2. Len(<< >>) = 0 /\ IsSeq(<< >>, 0)
    BY DEF IsSeq
  <2>3. PerRank \in Nat
    BY SizeFacts
  <2> QED BY <2>1, <2>2, <2>3 DEF Scoring
<1> QED BY <1>1, <1>2, <1>3, <1>6, <1>7, <1>8, <1>9 DEF BatchInv, RefScored, Accumulated, Judged

LEMMA UnionRefKeeps ==
  ASSUME BatchInv, UnionRef
  PROVE  BatchInv'
<1>1. /\ pc = "ref" /\ pc' = "advantage" /\ out' = Nothing /\ length' = length
      /\ version' = version /\ gen' = gen /\ epoch' = epoch /\ mini' = mini /\ loss' = loss
  BY DEF UnionRef, loop
<1>2. Control'
  BY <1>1 DEF BatchInv, Control, Nothing, Dealt
<1>3. Generated'
  BY <1>1 DEF BatchInv, Generated
<1>4. \A i \in Samples :
        /\ IsRow(batch[i]) /\ batch[i].sample \in Samples
        /\ batch[i].prompt = Own(batch[i].sample) /\ batch[i].uid = Own(batch[i].sample)
  BY <1>1 DEF BatchInv, Shuffled, Dealt
<1>5. ASSUME NEW i \in Samples
      PROVE  /\ IsRow(batch'[i]) /\ batch'[i].uid = batch[i].uid
             /\ batch'[i].sample = batch[i].sample /\ batch'[i].prompt = batch[i].prompt
             /\ batch'[i].version = batch[i].version /\ batch'[i].old = batch[i].old
             /\ batch'[i].ref = Scores(batch[i], 0, version)
  <2> DEFINE c == Scores(batch[i], 0, version)
  <2>1. Collected[i] = c
    BY <1>1, CollectedOf DEF UnionRef, Adapter
  <2> HIDE DEF c
  <2>2. batch'[i] = [batch[i] EXCEPT !.ref = c]
    BY <2>1 DEF UnionRef
  <2>3. IsRow(batch'[i]) /\ batch'[i].uid = batch[i].uid /\ batch'[i].sample = batch[i].sample
        /\ batch'[i].prompt = batch[i].prompt /\ batch'[i].version = batch[i].version
        /\ batch'[i].old = batch[i].old /\ batch'[i].ref = c
    BY <1>4, <2>2, WithRef
  <2> QED BY <2>3 DEF c
<1>6. Shuffled'
  BY <1>1, <1>4, <1>5 DEF BatchInv, Shuffled, Dealt
<1>7. Fresh'
  BY <1>1, <1>5 DEF BatchInv, Fresh, Dealt
<1>8. OldScored' /\ RefScored'
  <2>1. ASSUME NEW i \in Samples
        PROVE  /\ Scores(batch[i], batch[i].version, batch[i].version)'
                    = Scores(batch[i], batch[i].version, batch[i].version)
               /\ Scores(batch[i], 0, batch[i].version)'
                    = Scores(batch[i], 0, batch[i].version)
    BY <1>1, <1>5, SameTokens, SameLengths
  <2>2. \A i \in Samples : batch[i].version = version
    BY <1>1 DEF BatchInv, Fresh, Control, Dealt
  <2>3. \A i \in Samples :
          batch[i].old = Scores(batch[i], batch[i].version, batch[i].version)
    BY <1>1 DEF BatchInv, OldScored
  <2> QED BY <1>5, <2>1, <2>2, <2>3 DEF OldScored, RefScored
<1> QED BY <1>1, <1>2, <1>3, <1>6, <1>7, <1>8 DEF BatchInv, Scoring, Accumulated, Judged

LEMMA AdvantageKeeps ==
  ASSUME BatchInv, Advantage
  PROVE  BatchInv'
<1>1. /\ pc = "advantage" /\ pc' = "update" /\ out' = out /\ length' = length
      /\ version' = version /\ gen' = gen /\ epoch' = epoch /\ mini' = mini /\ loss' = loss
  BY DEF Advantage, loop
<1>2. Control'
  BY <1>1 DEF BatchInv, Control, Nothing, Dealt
<1>3. Generated'
  BY <1>1 DEF BatchInv, Generated
<1>4. \A i \in Samples :
        /\ IsRow(batch[i]) /\ batch[i].sample \in Samples
        /\ batch[i].prompt = Own(batch[i].sample) /\ batch[i].uid = Own(batch[i].sample)
  BY <1>1 DEF BatchInv, Shuffled, Dealt
<1>5. ASSUME NEW i \in Samples
      PROVE  /\ IsRow(batch'[i]) /\ batch'[i].uid = batch[i].uid
             /\ batch'[i].sample = batch[i].sample /\ batch'[i].prompt = batch[i].prompt
             /\ batch'[i].version = batch[i].version /\ batch'[i].old = batch[i].old
             /\ batch'[i].ref = batch[i].ref /\ batch'[i].adv = Verdict(i)
  <2> DEFINE c == Verdict(i)
  <2>1. batch'[i] = [batch[i] EXCEPT !.adv = c]
    BY DEF Advantage, Group, Verdict
  <2> HIDE DEF c
  <2>2. IsRow(batch'[i]) /\ batch'[i].uid = batch[i].uid /\ batch'[i].sample = batch[i].sample
        /\ batch'[i].prompt = batch[i].prompt /\ batch'[i].version = batch[i].version
        /\ batch'[i].old = batch[i].old /\ batch'[i].ref = batch[i].ref /\ batch'[i].adv = c
    BY <1>4, <2>1, WithAdv
  <2> QED BY <2>2 DEF c
<1>6. Shuffled'
  BY <1>1, <1>4, <1>5 DEF BatchInv, Shuffled, Dealt
<1>7. Fresh'
  BY <1>1, <1>5 DEF BatchInv, Fresh, Dealt
<1>8. OldScored' /\ RefScored'
  <2>1. ASSUME NEW i \in Samples
        PROVE  /\ Scores(batch[i], batch[i].version, batch[i].version)'
                    = Scores(batch[i], batch[i].version, batch[i].version)
               /\ Scores(batch[i], 0, batch[i].version)'
                    = Scores(batch[i], 0, batch[i].version)
    BY <1>1, <1>5, SameTokens, SameLengths
  <2>2. \A i \in Samples :
          /\ batch[i].old = Scores(batch[i], batch[i].version, batch[i].version)
          /\ batch[i].ref = Scores(batch[i], 0, batch[i].version)
    BY <1>1 DEF BatchInv, OldScored, RefScored
  <2> QED BY <1>5, <2>1, <2>2 DEF OldScored, RefScored
<1>9. Judged'
  <2>1. ASSUME NEW i \in Samples
        PROVE  Verdict(i)' = Verdict(i)
    <3>1. Group(i)' = Group(i)
      BY <1>5 DEF Group
    <3>2. \A j \in Group(i) : batch'[j].sample = batch[j].sample
      BY <1>5 DEF Group
    <3>3. batch'[i].sample = batch[i].sample
      BY <1>5
    <3> HIDE DEF Group
    <3> QED BY <3>1, <3>2, <3>3 DEF Verdict
  <2> QED BY <1>5, <2>1 DEF Judged
<1>10. Accumulated'
  <2>1. loss' = [r \in Ranks |-> << >>] /\ mini' \in 0 .. NumMini - 1
    BY <1>1, <1>2 DEF BatchInv, Control, Nothing
  <2>2. Len(<< >>) = 0 /\ IsSeq(<< >>, 0)
    BY DEF IsSeq
  <2>3. MiniLen \in Nat /\ MiniLen' = MiniLen
    <3>1. MiniLen \in 1 .. MiniBatch
      BY MiniOf DEF BatchInv, Control
    <3>2. MiniLen \in Nat
      BY <3>1, SizeFacts
    <3>3. MiniLen' = MiniLen
      BY <1>1 DEF MiniLen, Start
    <3> QED BY <3>2, <3>3
  <2> QED BY <2>1, <2>2, <2>3 DEF Accumulated
<1> QED BY <1>1, <1>2, <1>3, <1>6, <1>7, <1>8, <1>9, <1>10 DEF BatchInv, Scoring

LEMMA SameTerm ==
  ASSUME length' = length, version' = version, NEW x
  PROVE  Term(x)' = Term(x)
BY DEF Term, LogProbs, InputIds, Prompt, Response

LEMMA UpdateMicroBatchKeeps ==
  ASSUME BatchInv, UpdateMicroBatch
  PROVE  BatchInv'
<1>1. /\ pc = "update" /\ pc' = pc /\ length' = length /\ version' = version /\ gen' = gen
      /\ batch' = batch /\ out' = out /\ epoch' = epoch /\ mini' = mini
  BY DEF UpdateMicroBatch
<1>2. Control'
  BY <1>1 DEF BatchInv, Control, Nothing, Dealt
<1>3. Generated' /\ Shuffled' /\ Fresh'
  BY <1>1 DEF BatchInv, Generated, Shuffled, Fresh
<1>4. OldScored' /\ RefScored'
  BY <1>1, SameLengths DEF BatchInv, OldScored, RefScored
<1>5. Scoring' /\ Judged'
  BY <1>1 DEF BatchInv, Scoring, Judged, Verdict, Group
<1>6. MiniLen \in 1 .. MiniBatch /\ MiniBatch \in Nat
  BY MiniOf, SizeFacts DEF BatchInv, Control
<1>7. ASSUME NEW r \in Ranks
      PROVE  /\ Len(loss'[r]) \in 0 .. MiniLen /\ IsSeq(loss'[r], Len(loss'[r]))
             /\ \A k \in 1 .. Len(loss'[r]) : loss'[r][k] = Term(batch[Place(r, Start + k)])
  <2> DEFINE rows == MiniRows(r)
             l == MiniLen
             done == loss[r]
             n == Len(done)
             part == Part(rows, n, UpdateMicro)
             more == [i \in DOMAIN part |-> Term(part[i])]
             all == Cat(done, more)
  <2>1. loss'[r] = all
    BY DEF UpdateMicroBatch, Cat
  <2>2. /\ n \in 0 .. l /\ IsSeq(done, n)
        /\ \A k \in 1 .. n : done[k] = Term(batch[Place(r, Start + k)])
    BY <1>1 DEF BatchInv, Accumulated
  <2>3. IsSeq(rows, l) /\ \A k \in 1 .. l : rows[k] = batch[Place(r, Start + k)]
    BY MiniOf DEF BatchInv, Control
  <2>4. l \in Nat /\ UpdateMicro \in Nat
    BY <1>6, Sizes
  <2>5. more = [i \in DOMAIN part |-> more[i]]
    OBVIOUS
  <2>6. \A i \in DOMAIN part : more[i] = Term(part[i])
    OBVIOUS
  <2> HIDE DEF rows, l, done, n, more
  <2>7. /\ Len(all) \in n .. l /\ IsSeq(all, Len(all))
        /\ \A k \in 1 .. n : all[k] = done[k]
        /\ \A k \in n + 1 .. Len(all) : /\ k - n \in DOMAIN part /\ all[k] = more[k - n]
                                        /\ part[k - n] = rows[k]
    <3> HIDE DEF part
    <3>1. part = Part(rows, n, UpdateMicro) /\ IsSeq(rows, l) /\ n \in 0 .. l /\ IsSeq(done, n)
      BY <2>2, <2>3 DEF part
    <3> QED BY <3>1, <2>4, <2>5, GrowOf
  <2> HIDE DEF all, part
  <2>8. Len(all) \in 0 .. l
    BY <2>2, <2>4, <2>7
  <2>9. ASSUME NEW k \in 1 .. Len(all)
        PROVE  all[k] = Term(batch[Place(r, Start + k)])
    <3>1. CASE k \in 1 .. n
      BY <2>2, <2>7, <3>1
    <3>2. CASE k \in n + 1 .. Len(all)
      <4>1. k \in 1 .. l
        BY <2>4, <2>8
      <4> QED BY <2>3, <2>6, <2>7, <3>2, <4>1
    <3>3. k \in 1 .. n \/ k \in n + 1 .. Len(all)
      BY <2>2, <2>8
    <3> QED BY <3>1, <3>2, <3>3
  <2> QED BY <2>1, <2>7, <2>8, <2>9 DEF l
<1>8. Accumulated'
  <2>1. MiniLen' = MiniLen /\ Start' = Start
    BY <1>1 DEF MiniLen, Start
  <2> QED BY <1>1, <1>7, <2>1, SameTerm DEF Accumulated
<1> QED BY <1>2, <1>3, <1>4, <1>5, <1>8 DEF BatchInv

LEMMA OptimizerStepKeeps ==
  ASSUME BatchInv, OptimizerStep
  PROVE  BatchInv'
<1>1. /\ pc = "update" /\ length' = length /\ out' = out /\ loss' = Nothing
      /\ version' \in {version, version + 1} /\ NextMiniBatch
  BY DEF OptimizerStep
<1>2. /\ length \in Lengths /\ version \in Nat /\ out = Nothing
      /\ epoch \in 0 .. PpoEpochs - 1 /\ mini \in 0 .. NumMini - 1
  BY <1>1 DEF BatchInv, Control
<1>3. PpoEpochs \in Nat \ {0} /\ NumMini \in Nat \ {0}
  BY SizeFacts
<1>4. version' \in Nat /\ loss' = Nothing' /\ out' = Nothing'
  BY <1>1, <1>2 DEF Nothing
<1>5. CASE mini + 1 = NumMini /\ epoch + 1 = PpoEpochs
  <2>1. pc' = "load" /\ epoch' = 0 /\ mini' = 0
    BY <1>1, <1>5 DEF NextMiniBatch
  <2>2. Control'
    BY <1>1, <1>2, <1>3, <1>4, <2>1 DEF Control, Dealt
  <2> QED BY <2>1, <2>2 DEF BatchInv, Generated, Shuffled, Fresh, OldScored, RefScored, Scoring,
                            Accumulated, Judged, Dealt
<1>6. CASE ~ (mini + 1 = NumMini /\ epoch + 1 = PpoEpochs)
  <2>1. pc' = "update" /\ batch' = batch /\ gen' = gen
    BY <1>1, <1>6 DEF NextMiniBatch
  <2>2. /\ epoch' \in 0 .. PpoEpochs - 1 /\ mini' \in 0 .. NumMini - 1
        /\ ~ (epoch' = 0 /\ mini' = 0)
    BY <1>1, <1>2, <1>3, <1>6 DEF NextMiniBatch
  <2>3. Control'
    BY <1>1, <1>2, <1>4, <2>1, <2>2 DEF Control, Dealt
  <2>4. Generated' /\ Shuffled' /\ Fresh'
    BY <1>1, <2>1, <2>2 DEF BatchInv, Generated, Shuffled, Fresh, Dealt
  <2>5. OldScored' /\ RefScored'
    BY <1>1, <2>1, SameLengths DEF BatchInv, OldScored, RefScored
  <2>6. Scoring' /\ Judged'
    BY <1>1, <2>1 DEF BatchInv, Scoring, Judged, Verdict, Group
  <2>7. Accumulated'
    <3>1. loss' = [r \in Ranks |-> << >>]
      BY <1>1 DEF Nothing
    <3>2. Len(<< >>) = 0 /\ IsSeq(<< >>, 0)
      BY DEF IsSeq
    <3>3. 0 \in 0 .. MiniLen'
      <4> DEFINE w == mini'
                 s == w * MiniBatch
                 m == PartLen(PerRank, s, MiniBatch)
      <4>1. MiniLen' = m
        BY DEF MiniLen, Start
      <4>2. w \in 0 .. NumMini - 1
        BY <2>2
      <4> HIDE DEF w
      <4>3. s = w * MiniBatch /\ m = PartLen(PerRank, s, MiniBatch)
        OBVIOUS
      <4> HIDE DEF s, m
      <4>4. m \in 1 .. MiniBatch
        BY <4>2, <4>3, WindowOf
      <4>5. 0 \in 0 .. m
        BY <4>4
      <4> QED BY <4>1, <4>5
    <3> QED BY <3>1, <3>2, <3>3 DEF Accumulated
  <2> QED BY <2>3, <2>4, <2>5, <2>6, <2>7 DEF BatchInv
<1> QED BY <1>5, <1>6

LEMMA NextKeeps ==
  ASSUME BatchInv, [Next]_vars
  PROVE  BatchInv'
<1>1. CASE Rollout
  BY <1>1, RolloutKeeps
<1>2. CASE Join
  BY <1>2, JoinKeeps
<1>3. CASE Balance
  BY <1>3, BalanceKeeps
<1>4. CASE ScoreOld
  <2>1. pc \in {"old", "ref"} /\ OldMicro \in Nat /\ Adapter = version
    BY <1>4, Sizes DEF ScoreOld, Adapter
  <2>2. Score(OldMicro, Adapter)
    BY <1>4, <2>1 DEF ScoreOld
  <2> QED BY <2>1, <2>2, ScoreKeeps
<1>5. CASE UnionOld
  BY <1>5, UnionOldKeeps
<1>6. CASE ScoreRef
  <2>1. pc \in {"old", "ref"} /\ RefMicro \in Nat /\ Adapter = 0
    BY <1>6, Sizes DEF ScoreRef, Adapter
  <2>2. Score(RefMicro, Adapter)
    BY <1>6, <2>1 DEF ScoreRef
  <2> QED BY <2>1, <2>2, ScoreKeeps
<1>7. CASE UnionRef
  BY <1>7, UnionRefKeeps
<1>8. CASE Advantage
  BY <1>8, AdvantageKeeps
<1>9. CASE UpdateMicroBatch
  BY <1>9, UpdateMicroBatchKeeps
<1>10. CASE OptimizerStep
  BY <1>10, OptimizerStepKeeps
<1>11. CASE UNCHANGED vars
  <2>1. /\ pc' = pc /\ version' = version /\ length' = length /\ gen' = gen /\ batch' = batch
        /\ out' = out /\ epoch' = epoch /\ mini' = mini /\ loss' = loss
    BY <1>11 DEF vars, loop
  <2>2. Control' /\ Generated' /\ Shuffled' /\ Fresh'
    BY <2>1 DEF BatchInv, Control, Generated, Shuffled, Fresh, Nothing
  <2>3. OldScored' /\ RefScored'
    BY <2>1, SameLengths DEF BatchInv, OldScored, RefScored
  <2>4. Scoring'
    BY <2>1, SameLengths DEF BatchInv, Scoring, Adapter
  <2>5. Accumulated' /\ Judged'
    BY <2>1, SameTerm DEF BatchInv, Accumulated, Judged, Verdict, Group, MiniLen, Start
  <2> QED BY <2>2, <2>3, <2>4, <2>5 DEF BatchInv
<1> QED BY <1>1, <1>2, <1>3, <1>4, <1>5, <1>6, <1>7, <1>8, <1>9, <1>10, <1>11 DEF Next

LEMMA BatchInvHolds == Spec => []BatchInv
<1>1. Init => BatchInv
  BY InitKeeps
<1>2. BatchInv /\ [Next]_vars => BatchInv'
  BY NextKeeps
<1> QED BY <1>1, <1>2, PTL DEF Spec

-----------------------------------------------------------------------------
(* What a term of the loss is *)

LEMMA TermsOf ==
  ASSUME BatchInv, NEW t \in Terms
  PROVE  pc = "update" /\ \E i \in Samples : t = Term(batch[i])
<1>1. PICK r \in Ranks : t \in {loss[r][i] : i \in DOMAIN loss[r]}
  BY DEF Terms
<1>2. PICK k \in DOMAIN loss[r] : t = loss[r][k]
  BY <1>1
<1>3. pc = "update"
  <2>1. CASE pc # "update"
    <3>1. loss[r] = << >>
      BY <2>1 DEF BatchInv, Control, Nothing
    <3>2. k \in {}
      BY <3>1, <1>2
    <3> QED BY <3>2
  <2> QED BY <2>1
<1>4. /\ Len(loss[r]) \in 0 .. MiniLen /\ IsSeq(loss[r], Len(loss[r]))
      /\ \A j \in 1 .. Len(loss[r]) : loss[r][j] = Term(batch[Place(r, Start + j)])
  BY <1>3 DEF BatchInv, Accumulated
<1>5. /\ Start \in 0 .. PerRank - 1 /\ MiniLen \in 1 .. MiniBatch /\ Start + MiniLen <= PerRank
      /\ PerRank \in Nat /\ MiniBatch \in Nat
  BY MiniOf, SizeFacts DEF BatchInv, Control
<1>6. k \in 1 .. Len(loss[r])
  <2> DEFINE n == Len(loss[r])
  <2>1. n \in Nat /\ IsSeq(loss[r], n)
    BY <1>4, <1>5
  <2> HIDE DEF n
  <2>2. DOMAIN loss[r] = 1 .. n
    BY <2>1, LenOf
  <2> QED BY <1>2, <2>2 DEF n
<1>7. Start + k \in 1 .. PerRank
  BY <1>4, <1>5, <1>6
<1>8. Place(r, Start + k) \in Samples
  BY <1>7, PlaceOf
<1> QED BY <1>2, <1>3, <1>4, <1>6, <1>8

Unadapted(token) == [token EXCEPT !.adapter = 0]

LEMMA ServedAs ==
  ASSUME NEW row, NEW i, NEW e, NEW w
  PROVE  /\ As(row, i, e, e, w) = Served(row, i, e, w)
         /\ As(row, i, e, 0, w) = Unadapted(Served(row, i, e, w))
<1>1. PICK l, c : Served(row, i, e, w) = [label |-> l, context |-> c, adapter |-> e]
  BY DEF Served
<1> QED BY <1>1 DEF As, Unadapted

LEMMA InTrainMode ==
  ASSUME length \in Lengths, NEW row, row.prompt \in Prompts, row.sample \in Samples,
         NEW a, NEW e
  PROVE  LogProbs(row, a, e, TRUE) = Answer(row, e, a, LeftRandom)
<1> DEFINE t == TRUE
<1>1. t \in BOOLEAN /\ Noise(t) = LeftRandom
  BY DEF Noise, Stochastic, Membership, Disabled, LeftRandom
<1> HIDE DEF t
<1>2. LogProbs(row, a, e, t) = Answer(row, e, a, LeftRandom)
  BY <1>1, ScoredAsServed
<1> QED BY <1>2 DEF t

LEMMA InEvalMode ==
  ASSUME length \in Lengths, NEW row, row.prompt \in Prompts, row.sample \in Samples,
         NEW a, NEW e
  PROVE  Scores(row, a, e) = Answer(row, e, a, {})
<1> DEFINE t == FALSE
<1>1. t \in BOOLEAN /\ Noise(t) = {}
  BY DEF Noise
<1>2. Scores(row, a, e) = LogProbs(row, a, e, t)
  BY DEF Scores
<1> HIDE DEF t
<1>3. LogProbs(row, a, e, t) = Answer(row, e, a, {})
  BY <1>1, ScoredAsServed
<1> QED BY <1>2, <1>3

LEMMA SameServed ==
  ASSUME NEW x, NEW y, y.sample = x.sample, y.prompt = x.prompt, NEW i, NEW e, NEW w
  PROVE  Served(y, i, e, w) = Served(x, i, e, w)
BY DEF Served

LEMMA InContext ==
  ASSUME BatchInv, NEW t \in Terms
  PROVE  /\ Len(t.new) = length.response[t.sample]
         /\ Len(t.old) = Len(t.new) /\ Len(t.ref) = Len(t.new)
         /\ \A i \in DOMAIN t.new :
              /\ t.new[i] = Served(t, i, version, LeftRandom)
              /\ t.old[i] = Served(t, i, t.version, IF OnPolicy THEN LeftRandom ELSE {})
              /\ t.ref[i] = [Served(t, i, t.version, {}) EXCEPT !.adapter = 0]
<1>1. PICK p \in Samples : t = Term(batch[p])
  BY TermsOf
<1>2. pc = "update" /\ length \in Lengths
  BY TermsOf DEF BatchInv, Control
<1> DEFINE row == batch[p]
           m == length.response[row.sample]
           new == LogProbs(row, version, version, TRUE)
<1>3. /\ row.sample \in Samples /\ row.prompt \in Prompts
      /\ row.old = Scores(row, row.version, row.version) /\ row.ref = Scores(row, 0, row.version)
  BY <1>2, OwnOf DEF BatchInv, Shuffled, OldScored, RefScored, Dealt
<1>4. m \in Nat
  BY <1>2, <1>3, LengthFacts
<1>5. /\ t.sample = row.sample /\ t.prompt = row.prompt /\ t.version = row.version
      /\ t.new = new /\ t.old = (IF OnPolicy THEN new ELSE row.old) /\ t.ref = row.ref
  BY <1>1 DEF Term
<1>6. OnPolicy => row.version = version
  <2>1. OnPolicy => epoch = 0 /\ mini = 0
    BY DEF BatchInv, Control, OnPolicy
  <2> QED BY <1>2, <2>1 DEF BatchInv, Fresh, Dealt
<1>7. new = [i \in 1 .. m |-> As(row, i, version, version, LeftRandom)]
  <2>1. new = Answer(row, version, version, LeftRandom)
    BY <1>2, <1>3, InTrainMode
  <2> QED BY <2>1 DEF Answer
<1>8. /\ row.old = [i \in 1 .. m |-> As(row, i, row.version, row.version, {})]
      /\ row.ref = [i \in 1 .. m |-> As(row, i, row.version, 0, {})]
  <2>1. /\ row.old = Answer(row, row.version, row.version, {})
        /\ row.ref = Answer(row, row.version, 0, {})
    BY <1>2, <1>3, InEvalMode
  <2> QED BY <2>1 DEF Answer
<1>9. \A i, e, w : Served(t, i, e, w) = Served(row, i, e, w)
  BY <1>5, SameServed
<1> HIDE DEF row, m, new
<1>10. /\ IsSeq(new, m) /\ IsSeq(row.old, m) /\ IsSeq(row.ref, m)
  BY <1>7, <1>8 DEF IsSeq
<1>11. Len(new) = m /\ Len(row.old) = m /\ Len(row.ref) = m /\ DOMAIN new = 1 .. m
  BY <1>4, <1>10, LenOf
<1>12. Len(t.new) = m /\ Len(t.old) = m /\ Len(t.ref) = m /\ DOMAIN t.new = 1 .. m
  BY <1>5, <1>11
<1>13. ASSUME NEW i \in 1 .. m
       PROVE  /\ t.new[i] = Served(t, i, version, LeftRandom)
              /\ t.old[i] = Served(t, i, t.version, IF OnPolicy THEN LeftRandom ELSE {})
              /\ t.ref[i] = [Served(t, i, t.version, {}) EXCEPT !.adapter = 0]
  <2>1. new[i] = Served(row, i, version, LeftRandom)
    BY <1>7, ServedAs
  <2>2. row.old[i] = Served(row, i, row.version, {})
    BY <1>8, ServedAs
  <2>3. row.ref[i] = Unadapted(Served(row, i, row.version, {}))
    BY <1>8, ServedAs
  <2>4. t.old[i] = Served(row, i, row.version, IF OnPolicy THEN LeftRandom ELSE {})
    BY <1>5, <1>6, <2>1, <2>2
  <2>5. /\ t.new[i] = Served(t, i, version, LeftRandom)
        /\ t.old[i] = Served(t, i, t.version, IF OnPolicy THEN LeftRandom ELSE {})
        /\ t.ref[i] = Unadapted(Served(t, i, t.version, {}))
    BY <1>5, <1>9, <2>1, <2>3, <2>4
  <2> QED BY <2>5 DEF Unadapted
<1>14. m = length.response[t.sample]
  BY <1>5 DEF m
<1> QED BY <1>12, <1>13, <1>14

\* For every batch, number of ranks and size of the parts, every token of every
\* term of the loss is scored at the positions and after the tokens and the
\* series the server sampled it after, by the policy in hand, by the one that
\* sampled it, and by the base model; the one in hand, and no other, with the
\* memberships and the attention dropout that update_policy draws.
THEOREM RatiosInContext == Spec => []RatioInContext
<1>1. BatchInv => RatioInContext
  BY InContext DEF RatioInContext
<1> QED BY <1>1, BatchInvHolds, PTL

-----------------------------------------------------------------------------
(* Groups *)

LEMMA SamplesFinite == IsFiniteSet(Samples)
<1>1. BatchSize \in Int /\ 1 \in Int
  BY SizeFacts
<1> QED BY <1>1, FS_Interval DEF Samples

\* The rows are a permutation of the samples.
LEMMA EverySample ==
  ASSUME BatchInv, pc \in Dealt
  PROVE  \A s \in Samples : \E i \in Samples : batch[i].sample = s
<1> DEFINE f == [i \in Samples |-> batch[i].sample]
<1>1. f \in [Samples -> Samples]
  BY DEF BatchInv, Shuffled
<1>2. \A i, j \in Samples : f[i] = f[j] => i = j
  BY DEF BatchInv, Shuffled
<1>3. \A i \in Samples : f[i] = batch[i].sample
  OBVIOUS
<1> HIDE DEF f
<1>4. f \in Injection(Samples, Samples)
  BY <1>1, <1>2 DEF Injection, IsInjective
<1>5. f \in Surjection(Samples, Samples)
  BY <1>4, SamplesFinite, FS_Injection
<1> QED BY <1>3, <1>5 DEF Surjection

\* N samples answer one prompt.
LEMMA AnswersOf ==
  ASSUME NEW p \in Prompts
  PROVE  /\ IsFiniteSet({s \in Samples : Own(s) = p})
         /\ Cardinality({s \in Samples : Own(s) = p}) = N
<1> DEFINE x == (p - 1) * N
           a == x + 1
           b == x + N
           S == {s \in Samples : Own(s) = p}
<1>1. /\ N \in Nat \ {0} /\ NumPrompts \in Nat /\ p \in 1 .. NumPrompts
      /\ BatchSize = NumPrompts * N /\ BatchSize \in Nat
  BY SizeFacts DEF Prompts
<1>2. x \in Nat /\ x + N <= BatchSize
  <2> DEFINE y == p * N
  <2>1. x \in Nat /\ x = y - N /\ y \in Int /\ y <= BatchSize
    BY <1>1, Times, TimesMonotone
  <2> HIDE DEF x, y
  <2> QED BY <1>1, <2>1
<1>3. ASSUME NEW s \in a .. b
      PROVE  s \in Samples /\ Own(s) = p
  <2> DEFINE i == s - 1 - x
             q == p - 1
  <2>1. i \in 0 .. N - 1 /\ q \in Nat /\ s \in Samples /\ s - 1 = x + i
    BY <1>1, <1>2, <1>3 DEF Samples
  <2>2. x = q * N
    OBVIOUS
  <2> HIDE DEF i, q, x
  <2>3. (q * N + i) \div N = q
    BY <1>1, <2>1, DivUnique
  <2>4. (s - 1) \div N = q
    BY <2>1, <2>2, <2>3
  <2>5. q + 1 = p
    BY <1>1 DEF q
  <2> QED BY <2>1, <2>4, <2>5 DEF Own
<1>4. ASSUME NEW s \in Samples, Own(s) = p
      PROVE  s \in a .. b
  <2> DEFINE y == s - 1
             q == y \div N
             m == y % N
  <2>1. y \in Nat /\ y + 1 = s
    BY <1>1 DEF Samples
  <2>2. q + 1 = p
    BY <1>4 DEF Own
  <2> HIDE DEF y
  <2>3. N \in Nat \ {0}
    BY <1>1
  <2>4. y = q * N + m /\ m \in 0 .. N - 1 /\ q \in Nat
    BY <2>1, <2>3, DivMod
  <2> HIDE DEF q, m
  <2>5. q = p - 1
    BY <2>2, <2>4
  <2>6. y = x + m
    BY <2>4, <2>5
  <2> HIDE DEF x
  <2> QED BY <1>1, <1>2, <2>1, <2>4, <2>6
<1>5. S = a .. b
  <2> HIDE DEF a, b, x
  <2> QED BY <1>3, <1>4
<1>6. IsFiniteSet(a .. b) /\ Cardinality(a .. b) = N
  <2> HIDE DEF x
  <2>1. a \in Int /\ b \in Int /\ (IF a > b THEN 0 ELSE b - a + 1) = N
    BY <1>1, <1>2
  <2> HIDE DEF a, b
  <2> QED BY <2>1, FS_Interval
<1> QED BY <1>5, <1>6

LEMMA GroupOf ==
  ASSUME BatchInv, pc \in Dealt, NEW i \in Samples,
         NEW S, S = {s \in Samples : Own(s) = Own(batch[i].sample)}
  PROVE  {batch[j].sample : j \in Group(i)} = S /\ Cardinality(Group(i)) = N
<1>1. /\ \A j \in Samples : batch[j].sample \in Samples /\ batch[j].uid = Own(batch[j].sample)
      /\ \A j, k \in Samples : batch[j].sample = batch[k].sample => j = k
  BY DEF BatchInv, Shuffled
<1>2. \A j \in Samples : j \in Group(i) <=> batch[j].sample \in S
  BY <1>1 DEF Group
<1>3. \A s \in S : \E j \in Group(i) : batch[j].sample = s
  BY <1>2, EverySample
<1>4. Group(i) \in SUBSET Samples
  BY DEF Group
<1>5. {batch[j].sample : j \in Group(i)} = S
  BY <1>2, <1>3, <1>4
<1>6. Cardinality(S) = N
  <2>1. Own(batch[i].sample) \in Prompts
    BY <1>1, OwnOf
  <2> QED BY <2>1, AnswersOf
<1> DEFINE G == Group(i)
           f == [j \in G |-> batch[j].sample]
<1>7. f \in [G -> S] /\ \A j, k \in G : f[j] = f[k] => j = k
  BY <1>1, <1>2, <1>4
<1>8. \A s \in S : \E j \in G : f[j] = s
  BY <1>3
<1>9. IsFiniteSet(G)
  BY <1>4, SamplesFinite, FS_Subset
<1> HIDE DEF f, G
<1>10. f \in Bijection(G, S)
  BY <1>7, <1>8 DEF Bijection, Injection, Surjection, IsInjective
<1>11. Cardinality(S) = Cardinality(G)
  BY <1>9, <1>10, FS_Bijection DEF ExistsBijection
<1> QED BY <1>5, <1>6, <1>11 DEF G

LEMMA JudgedOf ==
  ASSUME BatchInv, NEW t \in Terms
  PROVE  /\ t.adv.own = t.sample
         /\ t.adv.scores = {s \in Samples : gen[s].prompt = gen[t.sample].prompt}
         /\ t.adv.size = N
<1>1. PICK i \in Samples : t = Term(batch[i])
  BY TermsOf
<1>2. pc = "update"
  BY TermsOf
<1>3. t.adv = Verdict(i) /\ t.sample = batch[i].sample
  BY <1>1, <1>2 DEF Term, BatchInv, Judged
<1>4. batch[i].sample \in Samples /\ \A s \in Samples : gen[s].prompt = Own(s)
  BY <1>2 DEF BatchInv, Shuffled, Generated, Dealt
<1> DEFINE S == {s \in Samples : Own(s) = Own(batch[i].sample)}
<1>5. {batch[j].sample : j \in Group(i)} = S /\ Cardinality(Group(i)) = N
  BY <1>2, GroupOf DEF Dealt
<1>6. S = {s \in Samples : gen[s].prompt = gen[t.sample].prompt}
  BY <1>3, <1>4
<1> HIDE DEF S
<1>7. /\ Verdict(i).own = batch[i].sample /\ Verdict(i).size = Cardinality(Group(i))
      /\ Verdict(i).scores = {batch[j].sample : j \in Group(i)}
  BY DEF Verdict
<1> QED BY <1>3, <1>5, <1>6, <1>7

\* A response's advantage is taken over the scores of all N responses to its own
\* prompt and of no other, for every batch and however it was balanced.
THEOREM GroupsKeepTogether == Spec => []JudgedByItsGroup
<1>1. BatchInv => JudgedByItsGroup
  BY JudgedOf DEF JudgedByItsGroup
<1> QED BY <1>1, BatchInvHolds, PTL

-----------------------------------------------------------------------------
(* What was trained *)

\* Optimizer steps that the loops have come to.
Count(s, e, m) == (s * PpoEpochs + e) * NumMini + m
Come == Count(IF pc = "load" THEN step ELSE step - 1, epoch, mini)
Counted ==
  /\ step \in 0 .. MaxSteps /\ (pc # "load" => step # 0)
  /\ version <= Come

\* The first rows of a rank are one epoch ahead.
Ahead(k, m) == IF k <= m THEN 1 ELSE 0
TrainedSoFar ==
  /\ trained = [s \in Samples |-> trained[s]]
  /\ pc = "load" => \A s \in Samples : trained[s] = IF step = 0 THEN 0 ELSE PpoEpochs
  /\ pc \notin {"load", "update"} => \A s \in Samples : trained[s] = 0
  /\ pc = "update" =>
       \A r \in Ranks : \A k \in 1 .. PerRank :
         trained[batch[Place(r, k)].sample] = epoch + Ahead(k, Start)

\* One place of one rank holds the sample, in one mini-batch of an epoch.
LEMMA SteppedOf ==
  ASSUME BatchInv, pc = "update", \A r \in Ranks : Len(loss[r]) = Len(MiniRows(r)),
         NEW r \in Ranks, NEW k \in 1 .. PerRank, NEW s, s = batch[Place(r, k)].sample,
         trained[s] = epoch + Ahead(k, Start)
  PROVE  Stepped(s) = epoch + Ahead(k, Start + MiniLen)
<1> DEFINE m == MiniLen
           st == Start
           holds(x) == x[2] \in DOMAIN loss[x[1]] /\ loss[x[1]][x[2]].sample = s
           places == {x \in Ranks \X (1 .. MiniBatch) : holds(x)}
<1>1. Stepped(s) = trained[s] + Cardinality(places)
  BY DEF Stepped
<1>2. /\ mini \in 0 .. NumMini - 1 /\ epoch \in Nat
      /\ st \in 0 .. PerRank - 1 /\ m \in 1 .. MiniBatch /\ st + m <= PerRank
      /\ PerRank \in Nat /\ MiniBatch \in Nat
  BY MiniOf, SizeFacts DEF BatchInv, Control
<1>3. ASSUME NEW q \in Ranks
      PROVE  /\ DOMAIN loss[q] = 1 .. m
             /\ \A j \in 1 .. m : loss[q][j].sample = batch[Place(q, st + j)].sample
  <2>1. Len(loss[q]) = m
    BY <1>2, MiniOf
  <2>2. IsSeq(loss[q], m) /\ \A j \in 1 .. m : loss[q][j] = Term(batch[Place(q, st + j)])
    BY <2>1 DEF BatchInv, Accumulated
  <2>3. m \in Nat
    BY <1>2
  <2>4. \A x : Term(x).sample = x.sample
    BY DEF Term
  <2> HIDE DEF m, st
  <2>5. DOMAIN loss[q] = 1 .. m
    BY <2>2, <2>3, LenOf
  <2> QED BY <2>2, <2>4, <2>5
<1> HIDE DEF m, st
<1>4. ASSUME NEW q \in Ranks, NEW j \in 1 .. MiniBatch
      PROVE  holds(<<q, j>>) <=> q = r /\ st + j = k /\ j <= m
  <2>1. holds(<<q, j>>) <=> j \in 1 .. m /\ loss[q][j].sample = s
    BY <1>3
  <2>2. CASE j <= m
    <3>1. j \in 1 .. m /\ st + j \in 1 .. PerRank
      BY <1>2, <2>2
    <3>2. loss[q][j].sample = batch[Place(q, st + j)].sample
      BY <1>3, <3>1
    <3>3. Place(q, st + j) \in Samples /\ Place(r, k) \in Samples
      BY <3>1, PlaceOf
    <3>4. loss[q][j].sample = s <=> Place(q, st + j) = Place(r, k)
      BY <3>2, <3>3 DEF BatchInv, Shuffled, Dealt
    <3>5. Place(q, st + j) = Place(r, k) <=> q = r /\ st + j = k
      BY <3>1, PlaceOf
    <3> QED BY <2>1, <2>2, <3>1, <3>4, <3>5
  <2>3. CASE ~ (j <= m)
    BY <1>2, <2>1, <2>3
  <2> QED BY <2>2, <2>3
<1>5. CASE k > st /\ k <= st + m
  <2> DEFINE j == k - st
  <2>1. j \in 1 .. MiniBatch /\ st + j = k /\ j <= m
    BY <1>2, <1>5
  <2>2. \A i \in 1 .. MiniBatch : st + i = k => i = j
    BY <1>2
  <2> HIDE DEF j
  <2>3. \A x \in Ranks \X (1 .. MiniBatch) : holds(x) <=> x = <<r, j>>
    <3> SUFFICES ASSUME NEW q \in Ranks, NEW i \in 1 .. MiniBatch
                 PROVE  holds(<<q, i>>) <=> <<q, i>> = <<r, j>>
      OBVIOUS
    <3>1. holds(<<q, i>>) <=> q = r /\ st + i = k /\ i <= m
      BY <1>4
    <3> HIDE DEF holds
    <3>2. q = r /\ st + i = k /\ i <= m <=> q = r /\ i = j
      BY <2>1, <2>2
    <3> QED BY <3>1, <3>2
  <2> HIDE DEF holds
  <2>4. places = {<<r, j>>}
    BY <2>1, <2>3
  <2>5. Cardinality(places) = 1
    BY <2>4, FS_Singleton
  <2>6. Ahead(k, st) = 0 /\ Ahead(k, st + m) = 1
    BY <1>2, <1>5 DEF Ahead
  <2> QED BY <1>1, <1>2, <2>5, <2>6 DEF st, m
<1>6. CASE ~ (k > st /\ k <= st + m)
  <2>1. ASSUME NEW q \in Ranks, NEW i \in 1 .. MiniBatch
        PROVE  ~ holds(<<q, i>>)
    <3>1. holds(<<q, i>>) <=> q = r /\ st + i = k /\ i <= m
      BY <1>4
    <3> HIDE DEF holds
    <3>2. ~ (st + i = k /\ i <= m)
      BY <1>2, <1>6
    <3> QED BY <3>1, <3>2
  <2> HIDE DEF holds
  <2>2. \A x \in Ranks \X (1 .. MiniBatch) : ~ holds(x)
    BY <2>1
  <2>3. places = {}
    BY <2>2
  <2>4. Cardinality(places) = 0
    BY <2>3, FS_EmptySet
  <2>5. Ahead(k, st) = Ahead(k, st + m) /\ Ahead(k, st) \in Nat
    BY <1>2, <1>6 DEF Ahead
  <2> QED BY <1>1, <1>2, <2>4, <2>5 DEF st, m
<1> QED BY <1>5, <1>6

LEMMA CountOf ==
  ASSUME NEW s \in Nat, NEW e \in 0 .. PpoEpochs - 1, NEW m \in 0 .. NumMini - 1
  PROVE  /\ Count(s, e, m) \in Nat /\ Count(s, e, m + 1) = Count(s, e, m) + 1
         /\ m + 1 = NumMini => Count(s, e + 1, 0) = Count(s, e, m) + 1
         /\ m + 1 = NumMini /\ e + 1 = PpoEpochs => Count(s + 1, 0, 0) = Count(s, e, m) + 1
         /\ Count(s, e, m) < Count(s + 1, 0, 0)
<1> DEFINE a == s * PpoEpochs
           b == (s + 1) * PpoEpochs
           x == (a + e) * NumMini
           y == (a + (e + 1)) * NumMini
           z == b * NumMini
<1>1. PpoEpochs \in Nat \ {0} /\ NumMini \in Nat \ {0} /\ e \in Nat /\ m \in Nat
  BY SizeFacts
<1>2. a \in Nat /\ b = a + PpoEpochs
  BY <1>1, Times, TimesMonotone
<1> HIDE DEF a, b
<1>3. a + e \in Nat /\ a + (e + 1) = (a + e) + 1 /\ b \in Nat /\ (a + e) + 1 <= b
  BY <1>1, <1>2
<1>4. x \in Nat /\ y = x + NumMini
  BY <1>1, <1>3, Times, TimesMonotone
<1>5. y <= z /\ y \in Nat /\ z \in Nat
  BY <1>1, <1>3, TimesMonotone
<1>6. e + 1 = PpoEpochs => y = z
  BY <1>1, <1>2
<1>7. /\ Count(s, e, m) = x + m /\ Count(s, e, m + 1) = x + (m + 1)
      /\ Count(s, e + 1, 0) = y + 0 /\ Count(s + 1, 0, 0) = (b + 0) * NumMini + 0
  BY DEF Count, a, b
<1>8. (b + 0) * NumMini = z
  BY <1>3
<1> HIDE DEF x, y, z
<1> QED BY <1>1, <1>4, <1>5, <1>6, <1>7, <1>8

\* An optimizer step brings the loops one further.
LEMMA CountedHolds == Spec => []Counted
<1>1. Init => Counted
  <2> SUFFICES ASSUME Init
               PROVE  Counted
    OBVIOUS
  <2>1. pc = "load" /\ step = 0 /\ version = 0 /\ epoch = 0 /\ mini = 0 /\ MaxSteps \in Nat
    BY Sizes DEF Init
  <2>2. Come = Count(0, 0, 0)
    BY <2>1 DEF Come
  <2>3. Count(0, 0, 0) \in Nat
    BY SizeFacts, CountOf
  <2> QED BY <2>1, <2>2, <2>3 DEF Counted
<1>2. BatchInv /\ Counted /\ [Next]_vars => Counted'
  <2> SUFFICES ASSUME BatchInv, Counted, [Next]_vars
               PROVE  Counted'
    OBVIOUS
  <2>1. /\ step \in Nat /\ step <= MaxSteps /\ MaxSteps \in Nat /\ version \in Nat
        /\ epoch \in 0 .. PpoEpochs - 1 /\ mini \in 0 .. NumMini - 1
        /\ pc # "load" => step # 0
    BY Sizes DEF BatchInv, Control, Counted
  <2>2. CASE Rollout
    <3>1. /\ pc = "load" /\ pc' = "join" /\ step' = step + 1 /\ step < MaxSteps
          /\ version' = version /\ epoch' = epoch /\ mini' = mini
      BY <2>2 DEF Rollout
    <3>2. step' - 1 = step
      BY <2>1, <3>1
    <3>3. Come' = Come
      BY <3>1, <3>2 DEF Come
    <3> QED BY <2>1, <3>1, <3>3 DEF Counted
  <2>3. CASE OptimizerStep
    <3> DEFINE s == step - 1
               now == Count(s, epoch, mini)
    <3>1. /\ pc = "update" /\ step' = step /\ version' \in {version, version + 1} /\ NextMiniBatch
          /\ version <= now /\ s \in Nat /\ s + 1 = step
      BY <2>1, <2>3 DEF OptimizerStep, Counted, Come
    <3>2. step' - 1 = s
      BY <3>1
    <3> HIDE DEF s
    <3>3. CASE mini + 1 # NumMini
      <4>1. pc' = "update" /\ epoch' = epoch /\ mini' = mini + 1
        BY <3>1, <3>3 DEF NextMiniBatch
      <4>2. Come' = Count(s, epoch, mini + 1)
        BY <3>2, <4>1 DEF Come
      <4>3. Come' = now + 1 /\ now \in Nat
        BY <2>1, <3>1, <4>2, CountOf
      <4> QED BY <2>1, <3>1, <4>1, <4>3 DEF Counted
    <3>4. CASE mini + 1 = NumMini /\ epoch + 1 # PpoEpochs
      <4>1. pc' = "update" /\ epoch' = epoch + 1 /\ mini' = 0
        BY <3>1, <3>4 DEF NextMiniBatch
      <4>2. Come' = Count(s, epoch + 1, 0)
        BY <3>2, <4>1 DEF Come
      <4>3. Come' = now + 1 /\ now \in Nat
        BY <2>1, <3>1, <3>4, <4>2, CountOf
      <4> QED BY <2>1, <3>1, <4>1, <4>3 DEF Counted
    <3>5. CASE mini + 1 = NumMini /\ epoch + 1 = PpoEpochs
      <4>1. pc' = "load" /\ epoch' = 0 /\ mini' = 0
        BY <3>1, <3>5 DEF NextMiniBatch
      <4>2. Come' = Count(s + 1, 0, 0)
        BY <3>1, <4>1 DEF Come
      <4>3. Come' = now + 1 /\ now \in Nat
        BY <2>1, <3>1, <3>5, <4>2, CountOf
      <4> QED BY <2>1, <3>1, <4>1, <4>3 DEF Counted
    <3> QED BY <3>3, <3>4, <3>5
  <2>4. CASE \/ Join \/ Balance \/ ScoreOld \/ UnionOld \/ ScoreRef \/ UnionRef \/ Advantage
             \/ UpdateMicroBatch \/ UNCHANGED vars
    <3>1. /\ step' = step /\ version' = version /\ epoch' = epoch /\ mini' = mini
          /\ pc' = "load" <=> pc = "load"
      BY <2>4 DEF Join, Balance, ScoreOld, UnionOld, ScoreRef, UnionRef, Score, Advantage,
                  UpdateMicroBatch, vars, loop
    <3>2. Come' = Come
      BY <3>1 DEF Come
    <3> QED BY <2>1, <3>1, <3>2 DEF Counted
  <2> QED BY <2>2, <2>3, <2>4 DEF Next
<1> QED BY <1>1, <1>2, BatchInvHolds, PTL DEF Spec

\* Each sample is in one place of one rank.
LEMMA PlaceOfSample ==
  ASSUME BatchInv, pc = "update", NEW s \in Samples
  PROVE  \E r \in Ranks : \E k \in 1 .. PerRank : s = batch[Place(r, k)].sample
<1>1. PICK i \in Samples : batch[i].sample = s
  BY EverySample DEF Dealt
<1> QED BY <1>1, RowOf

\* How far each sample is after an optimizer step.
LEMMA TrainedAfter ==
  ASSUME BatchInv, pc = "update", TrainedSoFar, OptimizerStep, NEW r \in Ranks, NEW k \in 1 .. PerRank
  PROVE  trained'[batch[Place(r, k)].sample] = epoch + Ahead(k, Start + MiniLen)
<1> DEFINE s == batch[Place(r, k)].sample
<1>1. trained[s] = epoch + Ahead(k, Start)
  BY DEF TrainedSoFar
<1>2. \A q \in Ranks : Len(loss[q]) = Len(MiniRows(q))
  BY DEF OptimizerStep
<1>3. s \in Samples
  BY PlaceOf DEF BatchInv, Shuffled, Dealt
<1>4. trained'[s] = Stepped(s)
  BY <1>3 DEF OptimizerStep
<1> HIDE DEF s
<1>5. s = batch[Place(r, k)].sample
  BY DEF s
<1>6. Stepped(s) = epoch + Ahead(k, Start + MiniLen)
  BY <1>1, <1>2, <1>5, SteppedOf
<1> QED BY <1>4, <1>6 DEF s

LEMMA OptimizerStepTrains ==
  ASSUME BatchInv, TrainedSoFar, Counted, OptimizerStep
  PROVE  TrainedSoFar'
<1>1. /\ pc = "update" /\ NextMiniBatch /\ step' = step /\ step # 0
      /\ trained' = [s \in Samples |-> Stepped(s)]
  BY DEF OptimizerStep, Counted
<1>2. /\ epoch \in 0 .. PpoEpochs - 1 /\ mini \in 0 .. NumMini - 1 /\ PerRank \in Nat /\ PpoEpochs \in Nat
  BY SizeFacts DEF BatchInv, Control
<1>3. trained' = [s \in Samples |-> trained'[s]]
  BY <1>1
<1>4. CASE mini + 1 # NumMini
  <2>1. pc' = "update" /\ epoch' = epoch /\ mini' = mini + 1 /\ batch' = batch
    BY <1>1, <1>4 DEF NextMiniBatch
  <2>2. Start' = Start + MiniLen
    BY <1>2, <1>4, <2>1, MiniOf DEF Start
  <2>3. \A r \in Ranks : \A k \in 1 .. PerRank :
          trained'[batch'[Place(r, k)].sample] = epoch' + Ahead(k, Start')
    BY <1>1, <2>1, <2>2, TrainedAfter
  <2> QED BY <1>3, <2>1, <2>3 DEF TrainedSoFar
<1>5. CASE mini + 1 = NumMini
  <2>1. Start + MiniLen = PerRank
    BY <1>2, <1>5, MiniOf
  <2>2. \A r \in Ranks : \A k \in 1 .. PerRank : trained'[batch[Place(r, k)].sample] = epoch + 1
    <3>1. \A k \in 1 .. PerRank : Ahead(k, PerRank) = 1
      BY DEF Ahead
    <3> QED BY <1>1, <2>1, <3>1, TrainedAfter
  <2>3. CASE epoch + 1 # PpoEpochs
    <3>1. pc' = "update" /\ epoch' = epoch + 1 /\ mini' = 0 /\ batch' = batch
      BY <1>1, <1>5, <2>3 DEF NextMiniBatch
    <3>2. \A k \in 1 .. PerRank : epoch + 1 + Ahead(k, Start') = epoch + 1
      <4>1. Start' = 0
        BY <3>1, SizeFacts DEF Start
      <4> QED BY <1>2, <4>1 DEF Ahead
    <3>3. \A r \in Ranks : \A k \in 1 .. PerRank :
            trained'[batch'[Place(r, k)].sample] = epoch' + Ahead(k, Start')
      BY <2>2, <3>1, <3>2
    <3> QED BY <1>3, <3>1, <3>3 DEF TrainedSoFar
  <2>4. CASE epoch + 1 = PpoEpochs
    <3>1. pc' = "load"
      BY <1>1, <1>5, <2>4 DEF NextMiniBatch
    <3>2. \A s \in Samples : trained'[s] = PpoEpochs
      BY <1>1, <2>2, <2>4, PlaceOfSample
    <3> QED BY <1>1, <1>3, <3>1, <3>2 DEF TrainedSoFar
  <2> QED BY <2>3, <2>4
<1> QED BY <1>4, <1>5

LEMMA AdvantageTrains ==
  ASSUME BatchInv, TrainedSoFar, Advantage
  PROVE  TrainedSoFar'
<1>1. /\ pc = "advantage" /\ pc' = "update" /\ trained' = trained /\ step' = step
      /\ epoch' = epoch /\ mini' = mini
  BY DEF Advantage, loop
<1>2. epoch = 0 /\ mini = 0
  BY <1>1 DEF BatchInv, Control
<1>3. \A s \in Samples : trained[s] = 0
  BY <1>1 DEF TrainedSoFar
<1>4. \A i \in Samples : batch'[i].sample \in Samples
  BY <1>1, AdvantageKeeps DEF BatchInv, Shuffled, Dealt
<1>5. \A k \in 1 .. PerRank : Ahead(k, Start') = 0
  <2>1. Start' = 0
    BY <1>1, <1>2, SizeFacts DEF Start
  <2> QED BY <2>1, SizeFacts DEF Ahead
<1>6. \A r \in Ranks : \A k \in 1 .. PerRank :
        trained'[batch'[Place(r, k)].sample] = epoch' + Ahead(k, Start')
  BY <1>1, <1>2, <1>3, <1>4, <1>5, PlaceOf
<1> QED BY <1>1, <1>6 DEF TrainedSoFar

LEMMA TrainedHolds == Spec => []TrainedSoFar
<1>1. Init => TrainedSoFar
  BY DEF Init, TrainedSoFar
<1>2. BatchInv /\ Counted /\ TrainedSoFar /\ [Next]_vars => TrainedSoFar'
  <2> SUFFICES ASSUME BatchInv, Counted, TrainedSoFar, [Next]_vars
               PROVE  TrainedSoFar'
    OBVIOUS
  <2>1. CASE Rollout
    BY <2>1 DEF Rollout, TrainedSoFar
  <2>2. CASE OptimizerStep
    BY <2>2, OptimizerStepTrains
  <2>3. CASE Advantage
    BY <2>3, AdvantageTrains
  <2>4. CASE Join \/ Balance \/ ScoreOld \/ UnionOld \/ ScoreRef \/ UnionRef
    <3>1. pc \notin {"load", "update"} /\ pc' \notin {"load", "update"} /\ trained' = trained
      BY <2>4 DEF Join, Balance, ScoreOld, UnionOld, ScoreRef, UnionRef, Score, loop
    <3> QED BY <3>1 DEF TrainedSoFar
  <2>5. CASE UpdateMicroBatch \/ UNCHANGED vars
    <3>1. /\ pc' = pc /\ trained' = trained /\ step' = step /\ batch' = batch
          /\ epoch' = epoch /\ mini' = mini
      BY <2>5 DEF UpdateMicroBatch, vars, loop
    <3>2. Start' = Start
      BY <3>1 DEF Start
    <3> QED BY <3>1, <3>2 DEF TrainedSoFar
  <2> QED BY <2>1, <2>2, <2>3, <2>4, <2>5 DEF Next
<1> QED BY <1>1, <1>2, BatchInvHolds, CountedHolds, PTL DEF Spec

LEMMA TrainedOf ==
  ASSUME BatchInv, TrainedSoFar, pc = "update", NEW s \in Samples
  PROVE  trained[s] \in epoch .. epoch + 1
<1>1. PICK r \in Ranks, k \in 1 .. PerRank : s = batch[Place(r, k)].sample
  BY PlaceOfSample
<1>2. trained[s] = epoch + Ahead(k, Start)
  BY <1>1 DEF TrainedSoFar
<1>3. Ahead(k, Start) \in 0 .. 1
  BY DEF Ahead
<1> QED BY <1>2, <1>3 DEF BatchInv, Control

\* No row is trained twice while another waits, and none is left out when the
\* next rollout begins: the rows a rank trained in an epoch are its first ones,
\* and the windows of the mini-batches end where the rank's rows end.
THEOREM TrainsAllAlike == Spec => []TrainsEachRowOnce
<1>1. BatchInv /\ TrainedSoFar => TrainsEachRowOnce
  <2> SUFFICES ASSUME BatchInv, TrainedSoFar
               PROVE  TrainsEachRowOnce
    OBVIOUS
  <2>1. epoch \in Nat /\ PpoEpochs \in Nat
    BY SizeFacts DEF BatchInv, Control
  <2>2. ASSUME NEW s \in Samples, NEW t \in Samples
        PROVE  trained[s] <= trained[t] + 1
    <3>1. CASE pc = "update"
      <4>1. trained[s] \in epoch .. epoch + 1 /\ trained[t] \in epoch .. epoch + 1
        BY <3>1, TrainedOf
      <4> QED BY <2>1, <4>1
    <3>2. CASE pc # "update"
      <4>1. trained[s] = trained[t] /\ trained[s] \in Nat
        BY <2>1, <3>2 DEF TrainedSoFar
      <4> QED BY <4>1
    <3> QED BY <3>1, <3>2
  <2>3. pc = "load" /\ step > 0 => trained = [s \in Samples |-> PpoEpochs]
    BY DEF TrainedSoFar
  <2> QED BY <2>2, <2>3 DEF TrainsEachRowOnce
<1> QED BY <1>1, BatchInvHolds, TrainedHolds, PTL

LEMMA CountBound ==
  ASSUME BatchInv, Counted
  PROVE  version \in 0 .. (MaxSteps * PpoEpochs * NumMini)
<1> DEFINE e == MaxSteps * PpoEpochs
           all == e * NumMini
<1>1. /\ step \in Nat /\ step <= MaxSteps /\ MaxSteps \in Nat /\ version \in Nat /\ version <= Come
      /\ epoch \in 0 .. PpoEpochs - 1 /\ mini \in 0 .. NumMini - 1
      /\ PpoEpochs \in Nat \ {0} /\ NumMini \in Nat \ {0}
  BY Sizes, SizeFacts DEF BatchInv, Control, Counted
<1> DEFINE a == step * PpoEpochs
           b == a * NumMini
<1>2. a \in Nat /\ e \in Nat /\ a <= e
  BY <1>1, TimesMonotone
<1>3. Count(step, 0, 0) = b
  <2>1. Count(step, 0, 0) = (a + 0) * NumMini + 0
    BY DEF Count
  <2> HIDE DEF a
  <2>2. a + 0 = a /\ b \in Int
    BY <1>1, <1>2, Times
  <2> QED BY <2>1, <2>2
<1> HIDE DEF a, e
<1>4. b \in Nat /\ all \in Nat /\ b <= all
  BY <1>1, <1>2, TimesMonotone
<1> HIDE DEF b, all
<1>5. Come <= b /\ Come \in Nat
  <2>1. CASE pc = "load"
    <3>1. epoch = 0 /\ mini = 0
      BY <2>1 DEF BatchInv, Control
    <3>2. Come = b
      BY <1>3, <2>1, <3>1 DEF Come
    <3> QED BY <1>4, <3>2
  <2>2. CASE pc # "load"
    <3> DEFINE s == step - 1
    <3>1. s \in Nat /\ s + 1 = step
      BY <1>1, <2>2 DEF Counted
    <3>2. Come = Count(s, epoch, mini)
      BY <2>2 DEF Come
    <3> HIDE DEF s
    <3>3. Count(s, epoch, mini) \in Nat /\ Count(s, epoch, mini) < Count(step, 0, 0)
      BY <1>1, <3>1, CountOf
    <3> QED BY <1>3, <1>4, <3>2, <3>3
  <2> QED BY <2>1, <2>2
<1>6. version \in 0 .. all
  BY <1>1, <1>4, <1>5
<1> QED BY <1>6 DEF all, e

\* Type correctness; no part outgrows its rank or its mini-batch.
THEOREM TypesHold == Spec => []TypeOK
<1>1. BatchInv /\ Counted /\ TrainedSoFar => TypeOK
  <2> SUFFICES ASSUME BatchInv, Counted, TrainedSoFar
               PROVE  TypeOK
    OBVIOUS
  <2>1. PerRank \in Nat /\ MiniBatch \in Nat /\ PpoEpochs \in Nat \ {0}
    BY SizeFacts
  <2>2. /\ pc \in {"load", "join", "balance", "old", "ref", "advantage", "update"}
        /\ step \in 0 .. MaxSteps
        /\ epoch \in 0 .. (PpoEpochs - 1) /\ mini \in 0 .. (NumMini - 1)
    BY DEF BatchInv, Control, Counted, Dealt
  <2>3. version \in 0 .. (MaxSteps * PpoEpochs * NumMini)
    BY CountBound
  <2>4. ASSUME NEW r \in Ranks
        PROVE  Len(out[r]) <= PerRank /\ Len(loss[r]) <= MiniBatch
    <3>1. Nothing[r] = << >> /\ Len(<< >>) = 0
      BY DEF Nothing
    <3>2. Len(out[r]) <= PerRank
      <4>1. CASE pc \in {"old", "ref"}
        BY <2>1, <4>1 DEF BatchInv, Scoring
      <4>2. CASE pc \notin {"old", "ref"}
        BY <2>1, <3>1, <4>2 DEF BatchInv, Control
      <4> QED BY <4>1, <4>2
    <3>3. Len(loss[r]) <= MiniBatch
      <4>1. CASE pc = "update"
        <5>1. MiniLen \in 1 .. MiniBatch
          BY <2>2, MiniOf
        <5>2. Len(loss[r]) \in 0 .. MiniLen
          BY <4>1 DEF BatchInv, Accumulated
        <5> QED BY <2>1, <5>1, <5>2
      <4>2. CASE pc # "update"
        BY <2>1, <3>1, <4>2 DEF BatchInv, Control
      <4> QED BY <4>1, <4>2
    <3> QED BY <3>2, <3>3
  <2>5. trained \in [Samples -> 0 .. PpoEpochs]
    <3>1. ASSUME NEW s \in Samples
          PROVE  trained[s] \in 0 .. PpoEpochs
      <4>1. CASE pc = "update"
        <5>1. trained[s] \in epoch .. epoch + 1
          BY <4>1, TrainedOf
        <5> QED BY <2>1, <2>2, <5>1
      <4>2. CASE pc # "update"
        BY <2>1, <4>2 DEF TrainedSoFar
      <4> QED BY <4>1, <4>2
    <3>2. trained = [s \in Samples |-> trained[s]]
      BY DEF TrainedSoFar
    <3> QED BY <3>1, <3>2
  <2> QED BY <2>2, <2>3, <2>4, <2>5 DEF TypeOK
<1> QED BY <1>1, BatchInvHolds, CountedHolds, TrainedHolds, PTL
=============================================================================
