------------------------ MODULE PemNormalizer_proofs ------------------------
(***************************************************************************)
(* Proofs about the normalisation of PEM values, for lines of any width,   *)
(* bodies of any length, in any number of pieces with any blanks between:  *)
(* the lines hold the body, character by character, and none is too long.  *)
(***************************************************************************)
EXTENDS PemNormalizer, SequenceTheorems, TLAPS

Word == Int \X Int

Line == [words : Seq(Word), pad : 0..1]

Value == [armour : Nat, lead : 0..1, trail : 0..1, gap : Nat \ {0},
          lines : Seq(Line)]

\* Words that are the characters a to b.
Run(ws, a, b) == ws \in Seq(Word) /\ Covers(ws, a, b)

\* A line is neither empty nor too long, and has its words in order.
Fits(l, gap) ==
    Covers(l.words, First(l), End(l)) /\ LineLength(l, gap) \in 1..Width

\* Lines that are the characters a to b, or none.
Block(ls, a, b, gap) ==
    /\ ls \in Seq(Line)
    /\ ls = <<>> => b + 1 = a
    /\ ls # <<>> => First(ls[1]) = a /\ End(ls[Len(ls)]) = b
    /\ \A i \in 1..Len(ls) : Fits(ls[i], gap)
    /\ \A i \in 1..(Len(ls) - 1) : First(ls[i+1]) = End(ls[i]) + 1

Total == Last(Body(given))[2]

Whole == Len(Body(given)) = 1

Typed ==
    /\ given \in Value /\ text \in Value /\ rounds \in Nat
    /\ at \in {"out", "in"}

\* What is handed in is one line, armoured or not, that holds its body.
GivenInv ==
    /\ given.armour \in 0..1 /\ Len(given.lines) = 1
    /\ Run(Body(given), 1, Total)

\* What is returned.
Normalised ==
    /\ text.armour = 1 /\ text.lead = 0
    /\ given.armour = 1 => text.lines = given.lines
    /\ given.armour = 0 =>
          /\ Len(text.lines) > 0 /\ Block(text.lines, 1, Total, text.gap)
          /\ Whole => \A i \in 1..(Len(text.lines) - 1) :
                         LineLength(text.lines[i], text.gap) = Width

OutInv ==
    at = "out" =>
        /\ words = <<>> /\ line = <<>> /\ lines = <<>>
        /\ IF rounds = 0 THEN text = given ELSE Normalised

\* The lines hold the body up to p, the line that is filled goes on from there
\* up to q, and the words that are left have the rest.
Wrapping(p, q) ==
    /\ Block(lines, 1, p, text.gap)
    /\ IF line = <<>> THEN q = p ELSE /\ Run(line, p + 1, q)
                                      /\ Span(line, text.gap) \in 1..Width
    /\ IF words = <<>> THEN q = Total /\ line # <<>>
                       ELSE Run(words, q + 1, Total)

\* A body without blanks is cut into full lines.
FullLines ==
    /\ words # <<>> => line = <<>> /\ Len(words) = 1
    /\ \A i \in 1..Len(lines) : LineLength(lines[i], text.gap) = Width

InInv ==
    at = "in" =>
        /\ rounds = 0 /\ text = given /\ given.armour = 0
        /\ \E p, q \in Int : Wrapping(p, q)
        /\ Whole => FullLines

IInv == Typed /\ GivenInv /\ OutInv /\ InInv

-----------------------------------------------------------------------------
\* Runs of words.

\* The first word of a run begins where the run does.
LEMMA RunHead ==
    ASSUME NEW ws, NEW a \in Int, NEW b \in Int, Run(ws, a, b)
    PROVE  /\ ws \in Seq(Word) /\ ws # <<>> /\ Len(ws) \in Nat \ {0}
           /\ Head(ws) = ws[1] /\ Head(ws) \in Word
           /\ Head(ws)[1] \in Int /\ Head(ws)[2] \in Int
           /\ Size(Head(ws)) > 0 /\ Head(ws)[1] = a
<1>1. ws \in Seq(Word) /\ ws # <<>> /\ Covers(ws, a, b)
  BY DEF Run, Covers
<1>2. Len(ws) \in Nat \ {0} /\ Head(ws) = ws[1] /\ 1 \in 1..Len(ws)
  BY <1>1
<1>3. ws[1] \in Word
  BY <1>1, <1>2
<1>. QED  BY <1>1, <1>2, <1>3 DEF Covers, Word

\* A word is a run.
LEMMA RunOfOne ==
    ASSUME NEW w \in Word, Size(w) > 0, NEW gap \in Int
    PROVE  Run(<<w>>, w[1], w[2]) /\ Span(<<w>>, gap) = Size(w)
<1>1. <<w>> \in Seq(Word) /\ Len(<<w>>) = 1 /\ <<w>>[1] = w /\ <<w>> # <<>>
  OBVIOUS
<1>2. Covers(<<w>>, w[1], w[2])
  BY <1>1 DEF Covers, Last
<1>3. Span(<<w>>, gap) = w[2] - w[1] + 1 + (1 - 1) * gap
  BY <1>1 DEF Span, Last
<1>4. w[1] \in Int /\ w[2] \in Int
  BY DEF Word
<1>. QED  BY <1>1, <1>2, <1>3, <1>4 DEF Run, Size

\* One more blank, or gap of blanks, for one more word.
LEMMA GapMore ==
    ASSUME NEW n \in Int, NEW gap \in Int
    PROVE  n * gap = (n - 1) * gap + gap
  OBVIOUS

\* The next word makes a run longer by itself and the blanks before it.
LEMMA RunAppend ==
    ASSUME NEW ws, NEW a \in Int, NEW b \in Int, Run(ws, a, b),
           NEW w \in Word, Size(w) > 0, w[1] = b + 1, NEW gap \in Int
    PROVE  /\ Run(Append(ws, w), a, w[2])
           /\ Span(Append(ws, w), gap) = Span(ws, gap) + gap + Size(w)
<1>1. ws \in Seq(Word) /\ ws # <<>> /\ Len(ws) \in Nat \ {0}
  BY RunHead
<1>2. PICK n \in Nat \ {0} : n = Len(ws)
  BY <1>1
<1>3. PICK ss : ss = Append(ws, w)
  OBVIOUS
<1>4. /\ ss \in Seq(Word) /\ Len(ss) = n + 1 /\ ss[n + 1] = w
      /\ \A i \in 1..n : ss[i] = ws[i]
  BY <1>1, <1>2, <1>3, AppendProperties
<1>5. 1 \in 1..n /\ n \in 1..n /\ n + 1 \in Nat /\ ss[1] = ws[1]
  BY <1>2, <1>4
<1>6. /\ ws[1][1] = a /\ ws[n][2] = b
      /\ \A i \in 1..n : Size(ws[i]) > 0
      /\ \A i \in 1..(n - 1) : ws[i+1][1] = ws[i][2] + 1
  BY <1>2 DEF Run, Covers, Last
<1>7. w[1] \in Int /\ w[2] \in Int
  BY DEF Word
<1>8. Covers(ss, a, w[2])
  <2>1. ss # <<>> /\ ss[1][1] = a /\ Last(ss)[2] = w[2]
    BY <1>4, <1>5, <1>6 DEF Last
  <2>2. ASSUME NEW i \in 1..Len(ss)  PROVE Size(ss[i]) > 0
    <3>1. CASE i = n + 1
      BY <3>1, <1>4
    <3>2. CASE i \in 1..n
      BY <3>2, <1>4, <1>6
    <3>. QED  BY <3>1, <3>2, <1>2, <1>4
  <2>3. ASSUME NEW i \in 1..(Len(ss) - 1)  PROVE ss[i+1][1] = ss[i][2] + 1
    <3>1. i \in 1..n /\ ss[i] = ws[i]
      BY <1>2, <1>4
    <3>2. CASE i = n
      BY <3>1, <3>2, <1>4, <1>6
    <3>3. CASE i # n
      <4>1. i \in 1..(n - 1) /\ i + 1 \in 1..n
        BY <3>1, <3>3, <1>2
      <4>. QED  BY <3>1, <4>1, <1>4, <1>6
    <3>. QED  BY <3>2, <3>3
  <2>. QED  BY <2>1, <2>2, <2>3 DEF Covers
<1>9. Span(ss, gap) = w[2] - a + 1 + ((n + 1) - 1) * gap
  BY <1>4, <1>5, <1>6 DEF Span, Last
<1>10. Span(ws, gap) = b - a + 1 + (n - 1) * gap
  BY <1>2, <1>6 DEF Span, Last
<1>11. n * gap = (n - 1) * gap + gap
  BY <1>2, GapMore
<1>12. Span(ss, gap) = Span(ws, gap) + gap + Size(w)
  <2>1. PICK x \in Int : x = (n - 1) * gap
    BY <1>2
  <2>2. ((n + 1) - 1) * gap = x + gap
    BY <2>1, <1>2, <1>11
  <2>. QED  BY <2>1, <2>2, <1>7, <1>9, <1>10 DEF Size
<1>. QED  BY <1>3, <1>4, <1>8, <1>12 DEF Run

\* What follows the first word of a run is a run, or nothing.
LEMMA RunTail ==
    ASSUME NEW ws, NEW a \in Int, NEW b \in Int, Run(ws, a, b)
    PROVE  /\ Tail(ws) = <<>> <=> Len(ws) = 1
           /\ Tail(ws) = <<>> => Head(ws)[2] = b
           /\ Tail(ws) # <<>> => Run(Tail(ws), Head(ws)[2] + 1, b)
<1>1. /\ ws \in Seq(Word) /\ ws # <<>> /\ Len(ws) \in Nat \ {0}
      /\ Head(ws) = ws[1]
  BY RunHead
<1>2. PICK n \in Nat \ {0} : n = Len(ws)
  BY <1>1
<1>3. PICK ss : ss = Tail(ws)
  OBVIOUS
<1>4. /\ ss \in Seq(Word) /\ Len(ss) = n - 1
      /\ \A i \in 1..(n - 1) : ss[i] = ws[i + 1]
  BY <1>1, <1>2, <1>3, HeadTailProperties
<1>5. /\ ws[n][2] = b
      /\ \A i \in 1..n : Size(ws[i]) > 0
      /\ \A i \in 1..(n - 1) : ws[i+1][1] = ws[i][2] + 1
  BY <1>2 DEF Run, Covers, Last
<1>6. ss = <<>> <=> n = 1
  BY <1>2, <1>4
<1>7. ASSUME n # 1  PROVE Covers(ss, ws[1][2] + 1, b)
  <2>1. /\ 1 \in 1..(n - 1) /\ n - 1 \in 1..(n - 1) /\ (n - 1) + 1 = n
        /\ 1 + 1 = 2
    BY <1>2, <1>7
  <2>2. ss # <<>> /\ ss[1][1] = ws[1][2] + 1 /\ Last(ss)[2] = b
    <3>1. ss[1] = ws[1 + 1] /\ ss[n - 1] = ws[(n - 1) + 1]
      BY <2>1, <1>4
    <3>2. ws[1 + 1][1] = ws[1][2] + 1
      BY <2>1, <1>5
    <3>. QED  BY <3>1, <3>2, <2>1, <1>4, <1>5, <1>6, <1>7 DEF Last
  <2>3. ASSUME NEW i \in 1..Len(ss)  PROVE Size(ss[i]) > 0
    <3>1. i \in 1..(n - 1) /\ i + 1 \in 1..n
      BY <1>2, <1>4
    <3>. QED  BY <3>1, <1>4, <1>5
  <2>4. ASSUME NEW i \in 1..(Len(ss) - 1)  PROVE ss[i+1][1] = ss[i][2] + 1
    <3>1. i \in 1..(n - 1) /\ i + 1 \in 1..(n - 1)
      BY <1>2, <1>4
    <3>2. ss[i] = ws[i + 1] /\ ss[i + 1] = ws[(i + 1) + 1]
      BY <3>1, <1>4
    <3>3. ws[(i + 1) + 1][1] = ws[i + 1][2] + 1
      BY <3>1, <1>5
    <3>. QED  BY <3>2, <3>3
  <2>. QED  BY <2>2, <2>3, <2>4 DEF Covers
<1>. QED  BY <1>1, <1>2, <1>3, <1>4, <1>5, <1>6, <1>7 DEF Run

\* A run whose first word has lost its first characters is a run.
LEMMA RunRest ==
    ASSUME NEW ws, NEW a \in Int, NEW b \in Int, Run(ws, a, b),
           NEW k \in Int, k <= Head(ws)[2]
    PROVE  /\ Run(<<(<<k, Head(ws)[2]>>)>> \o Tail(ws), k, b)
           /\ Len(<<(<<k, Head(ws)[2]>>)>> \o Tail(ws)) = Len(ws)
<1>1. /\ ws \in Seq(Word) /\ ws # <<>> /\ Len(ws) \in Nat \ {0}
      /\ Head(ws) = ws[1] /\ Head(ws)[2] \in Int
  BY RunHead
<1>2. PICK n \in Nat \ {0} : n = Len(ws)
  BY <1>1
<1>3. PICK w : w = <<k, Head(ws)[2]>>
  OBVIOUS
<1>4. w \in Word /\ Size(w) > 0 /\ w[1] = k /\ w[2] = ws[1][2]
  BY <1>1, <1>3 DEF Word, Size
<1>5. /\ Tail(ws) \in Seq(Word) /\ Len(Tail(ws)) = n - 1
      /\ \A i \in 1..(n - 1) : Tail(ws)[i] = ws[i + 1]
  BY <1>1, <1>2, HeadTailProperties
<1>6. PICK ss : ss = <<w>> \o Tail(ws)
  OBVIOUS
<1>7. <<w>> \in Seq(Word) /\ Len(<<w>>) = 1 /\ <<w>>[1] = w
  BY <1>4
<1>8. ss \in Seq(Word) /\ Len(ss) = n /\ ss[1] = w
  BY <1>2, <1>5, <1>6, <1>7, ConcatProperties
<1>9. ASSUME NEW i \in 2..n  PROVE ss[i] = ws[i]
  <2>1. i - 1 \in 1..(n - 1) /\ i \in 1..n /\ i # 1 /\ (i - 1) + 1 = i
    BY <1>2
  <2>2. ss[i] = Tail(ws)[i - 1]
    BY <2>1, <1>2, <1>5, <1>6, <1>7, ConcatProperties
  <2>. QED  BY <2>1, <2>2, <1>5
<1>10. /\ ws[n][2] = b
       /\ \A i \in 1..n : Size(ws[i]) > 0
       /\ \A i \in 1..(n - 1) : ws[i+1][1] = ws[i][2] + 1
  BY <1>2 DEF Run, Covers, Last
<1>11. \A i \in 1..n : ss[i][2] = ws[i][2]
  <2>. TAKE i \in 1..n
  <2>1. CASE i = 1
    BY <2>1, <1>4, <1>8
  <2>2. CASE i # 1
    <3>1. i \in 2..n
      BY <2>2, <1>2
    <3>. QED  BY <3>1, <1>9
  <2>. QED  BY <2>1, <2>2
<1>12. Covers(ss, k, b)
  <2>1. ss # <<>> /\ ss[1][1] = k /\ Last(ss)[2] = b
    <3>1. n \in 1..n /\ ss[n][2] = b
      BY <1>2, <1>10, <1>11
    <3>. QED  BY <3>1, <1>2, <1>4, <1>8 DEF Last
  <2>2. ASSUME NEW i \in 1..Len(ss)  PROVE Size(ss[i]) > 0
    <3>1. CASE i = 1
      BY <3>1, <1>4, <1>8
    <3>2. CASE i # 1
      <4>1. i \in 2..n /\ i \in 1..n
        BY <3>2, <1>2, <1>8
      <4>. QED  BY <4>1, <1>9, <1>10
    <3>. QED  BY <3>1, <3>2
  <2>3. ASSUME NEW i \in 1..(Len(ss) - 1)  PROVE ss[i+1][1] = ss[i][2] + 1
    <3>1. i \in 1..(n - 1) /\ i \in 1..n /\ i + 1 \in 2..n
      BY <1>2, <1>8
    <3>2. ss[i + 1] = ws[i + 1]
      BY <3>1, <1>9
    <3>. QED  BY <3>1, <3>2, <1>10, <1>11
  <2>. QED  BY <2>1, <2>2, <2>3 DEF Covers
<1>. QED  BY <1>2, <1>3, <1>6, <1>8, <1>12 DEF Run

-----------------------------------------------------------------------------
\* Lines.

\* A run is a line, and one that fits if it is short enough.
LEMMA LineFits ==
    ASSUME NEW ws, NEW a \in Int, NEW b \in Int, Run(ws, a, b),
           NEW pad \in 0..1, NEW gap \in Nat \ {0},
           Span(ws, gap) + pad * gap \in 1..Width,
           NEW l, l = [words |-> ws, pad |-> pad]
    PROVE  /\ l \in Line /\ Fits(l, gap) /\ First(l) = a /\ End(l) = b
           /\ LineLength(l, gap) = Span(ws, gap) + pad * gap
<1>2. l.words = ws /\ l.pad = pad
  OBVIOUS
<1>3. ws \in Seq(Word)
  BY DEF Run
<1>4. l \in Line
  BY <1>3 DEF Line
<1>5. First(l) = a /\ End(l) = b
  BY <1>2 DEF First, End, Run, Covers
<1>6. LineLength(l, gap) = Span(ws, gap) + pad * gap
  BY <1>2 DEF LineLength
<1>7. Covers(l.words, First(l), End(l))
  BY <1>2, <1>5 DEF Run
<1>. QED  BY <1>4, <1>5, <1>6, <1>7 DEF Fits

\* A line that goes on where the lines before it end.
LEMMA BlockAppend ==
    ASSUME NEW ls, NEW p \in Int, NEW gap, Block(ls, 1, p, gap),
           NEW l \in Line, Fits(l, gap), First(l) = p + 1
    PROVE  /\ Block(Append(ls, l), 1, End(l), gap)
           /\ Append(ls, l) \in Seq(Line) /\ Len(Append(ls, l)) = Len(ls) + 1
           /\ \A i \in 1..Len(ls) : Append(ls, l)[i] = ls[i]
           /\ Append(ls, l)[Len(ls) + 1] = l
<1>1. ls \in Seq(Line) /\ Len(ls) \in Nat
  BY DEF Block
<1>2. PICK n \in Nat : n = Len(ls)
  BY <1>1
<1>3. PICK ss : ss = Append(ls, l)
  OBVIOUS
<1>4. /\ ss \in Seq(Line) /\ Len(ss) = n + 1 /\ ss[n + 1] = l
      /\ \A i \in 1..n : ss[i] = ls[i]
  BY <1>1, <1>2, <1>3, AppendProperties
<1>5. /\ ls = <<>> => p + 1 = 1
      /\ ls # <<>> => First(ls[1]) = 1 /\ End(ls[n]) = p
      /\ \A i \in 1..n : Fits(ls[i], gap)
      /\ \A i \in 1..(n - 1) : First(ls[i+1]) = End(ls[i]) + 1
  BY <1>2 DEF Block
<1>6. ls = <<>> <=> n = 0
  BY <1>1, <1>2
<1>7. First(ss[1]) = 1
  <2>1. CASE n = 0
    BY <2>1, <1>4, <1>5, <1>6
  <2>2. CASE n # 0
    <3>1. 1 \in 1..n
      BY <2>2, <1>2
    <3>. QED  BY <2>2, <3>1, <1>4, <1>5, <1>6
  <2>. QED  BY <2>1, <2>2
<1>8. ASSUME NEW i \in 1..(n + 1)  PROVE Fits(ss[i], gap)
  <2>1. CASE i = n + 1
    BY <2>1, <1>4
  <2>2. CASE i \in 1..n
    BY <2>2, <1>4, <1>5
  <2>. QED  BY <2>1, <2>2, <1>2
<1>9. ASSUME NEW i \in 1..n  PROVE First(ss[i + 1]) = End(ss[i]) + 1
  <2>1. CASE i = n
    <3>1. n # 0 /\ n \in 1..n
      BY <2>1, <1>2
    <3>. QED  BY <2>1, <3>1, <1>4, <1>5, <1>6
  <2>2. CASE i # n
    <3>1. i \in 1..(n - 1) /\ i + 1 \in 1..n
      BY <2>2, <1>2
    <3>. QED  BY <3>1, <1>4, <1>5
  <2>. QED  BY <2>1, <2>2
<1>10. (n + 1) - 1 = n /\ ss # <<>>
  BY <1>2, <1>4
<1>11. Block(ss, 1, End(l), gap)
  BY <1>4, <1>7, <1>8, <1>9, <1>10 DEF Block
<1>. QED  BY <1>2, <1>3, <1>4, <1>11

-----------------------------------------------------------------------------
\* The invariant.

USE PemAssumption

\* A body ends at a number.
LEMMA TotalIsInt ==
    ASSUME IInv
    PROVE  Total \in Int
<1>1. /\ Body(given) \in Seq(Word) /\ Body(given) # <<>>
  BY DEF IInv, GivenInv, Run, Covers
<1>2. PICK ws : ws = Body(given)
  OBVIOUS
<1>3. Len(ws) \in 1..Len(ws) /\ ws[Len(ws)] \in Word
  BY <1>1, <1>2
<1>. QED  BY <1>2, <1>3 DEF Total, Last, Word

\* What may be handed in is a value, and holds the body it was cut from.
LEMMA InitInv == Init => IInv
<1>. SUFFICES ASSUME Init  PROVE IInv
  OBVIOUS
<1>1. /\ given \in Texts /\ text = given /\ rounds = 0 /\ at = "out"
      /\ words = <<>> /\ line = <<>> /\ lines = <<>>
  BY DEF Init
<1>2. /\ given.armour \in 0..1 /\ given.lead \in 0..1 /\ given.trail \in 0..1
      /\ given.gap \in 1..MaxGap
      /\ given.lines \in {<<OneLine(ws)>> : ws \in Bodies}
      /\ given = [armour |-> given.armour, lead |-> given.lead,
                  trail |-> given.trail, gap |-> given.gap,
                  lines |-> given.lines]
  BY <1>1 DEF Texts
<1>3. PICK ws \in Bodies : given.lines = <<OneLine(ws)>>
  BY <1>2
<1>4. PICK n \in 1..MaxBody, m \in 1..MaxWords :
         ws \in {[i \in 1..m |-> <<f[i-1] + 1, f[i]>>] : f \in Cuts(n, m)}
  BY <1>3 DEF Bodies
<1>5. PICK f \in Cuts(n, m) : ws = [i \in 1..m |-> <<f[i-1] + 1, f[i]>>]
  BY <1>4
<1>6. /\ f \in [0..m -> 0..n] /\ f[0] = 0 /\ f[m] = n
      /\ \A i \in 1..m : f[i-1] < f[i]
  BY <1>5 DEF Cuts
<1>7. m \in Nat \ {0} /\ n \in Nat \ {0}
  BY <1>4
<1>8. ASSUME NEW i \in 1..m
      PROVE  /\ ws[i] \in Word /\ ws[i][1] = f[i-1] + 1 /\ ws[i][2] = f[i]
             /\ Size(ws[i]) > 0
  <2>1. i - 1 \in 0..m /\ i \in 0..m
    BY <1>7
  <2>2. f[i-1] \in Int /\ f[i] \in Int /\ f[i-1] < f[i]
    BY <2>1, <1>6
  <2>3. ws[i] = <<f[i-1] + 1, f[i]>>
    BY <1>5
  <2>. QED  BY <2>2, <2>3 DEF Word, Size
<1>9. ws \in Seq(Word) /\ Len(ws) = m
  <2>1. ws \in [1..m -> Word]
    BY <1>5, <1>8
  <2>2. m \in Nat
    BY <1>7
  <2>. QED  BY <2>1, <2>2, <1>5
<1>10. Covers(ws, 1, n)
  <2>1. 1 \in 1..m /\ m \in 1..m /\ 1 - 1 = 0
    BY <1>7
  <2>2. ws # <<>> /\ ws[1][1] = 1 /\ Last(ws)[2] = n
    <3>1. ws[1][1] = f[1-1] + 1 /\ ws[m][2] = f[m]
      BY <2>1, <1>8
    <3>. QED  BY <3>1, <2>1, <1>6, <1>7, <1>9 DEF Last
  <2>3. \A i \in 1..(Len(ws) - 1) : ws[i+1][1] = ws[i][2] + 1
    <3>. TAKE i \in 1..(Len(ws) - 1)
    <3>1. i \in 1..m /\ i + 1 \in 1..m /\ (i + 1) - 1 = i
      BY <1>7, <1>9
    <3>2. ws[i+1][1] = f[(i + 1) - 1] + 1 /\ ws[i][2] = f[i]
      BY <3>1, <1>8
    <3>. QED  BY <3>1, <3>2
  <2>. QED  BY <2>2, <2>3, <1>8, <1>9 DEF Covers
<1>11. Body(given) = ws /\ Total = n /\ Len(given.lines) = 1
  <2>1. given.lines[1] = OneLine(ws) /\ Len(given.lines) = 1
    BY <1>3
  <2>2. Body(given) = ws
    BY <2>1 DEF Body, OneLine
  <2>. QED  BY <2>1, <2>2, <1>10 DEF Total, Covers
<1>12. given.lines \in Seq(Line)
  <2>1. OneLine(ws) \in Line
    BY <1>9 DEF OneLine, Line
  <2>. QED  BY <2>1, <1>3
<1>13. given \in Value
  <2>1. given.gap \in Nat \ {0} /\ given.armour \in Nat
    BY <1>2
  <2>. QED  BY <2>1, <1>2, <1>12 DEF Value
<1>14. Typed
  BY <1>1, <1>13 DEF Typed
<1>15. GivenInv
  BY <1>2, <1>9, <1>10, <1>11 DEF GivenInv, Run
<1>. QED  BY <1>1, <1>14, <1>15 DEF IInv, OutInv, InInv

\* Stripped, a value has no blanks around it and is the same inside.
LEMMA Stripped ==
    ASSUME NEW t \in Value
    PROVE  /\ Strip(t) \in Value /\ Strip(t).lead = 0 /\ Strip(t).trail = 0
           /\ Strip(t).armour = t.armour /\ Strip(t).gap = t.gap
           /\ Strip(t).lines = t.lines
           /\ Strip(Strip(t)) = Strip(t)
           /\ IsArmoured(t) <=> t.armour > 0
<1>1. /\ t.armour \in Nat /\ t.lead \in 0..1 /\ t.trail \in 0..1
      /\ t.gap \in Nat \ {0} /\ t.lines \in Seq(Line)
      /\ t = [armour |-> t.armour, lead |-> t.lead, trail |-> t.trail,
              gap |-> t.gap, lines |-> t.lines]
  BY DEF Value
<1>2. Strip(t) = [armour |-> t.armour, lead |-> 0, trail |-> 0,
                  gap |-> t.gap, lines |-> t.lines]
  <2>1. PICK u : u = [t EXCEPT !.lead = 0]
    OBVIOUS
  <2>2. u = [armour |-> t.armour, lead |-> 0, trail |-> t.trail,
             gap |-> t.gap, lines |-> t.lines]
    BY <1>1, <2>1
  <2>3. Strip(t) = [u EXCEPT !.trail = 0]
    BY <2>1 DEF Strip
  <2>. QED  BY <2>2, <2>3
<1>3. Strip(t) \in Value
  BY <1>1, <1>2 DEF Value
<1>4. Strip(Strip(t)) = Strip(t)
  BY <1>2 DEF Strip
<1>5. IsArmoured(t) <=> t.armour > 0
  BY <1>2 DEF IsArmoured, StartsWithDashes
<1>. QED  BY <1>2, <1>3, <1>4, <1>5

\* What was PEM already stays what it is.
LEMMA KeepArmouredInv ==
    ASSUME IInv, KeepArmoured
    PROVE  IInv'
<1>1. /\ at = "out" /\ rounds < 2 /\ IsArmoured(text) /\ text' = Strip(text)
      /\ rounds' = rounds + 1 /\ at' = "out" /\ given' = given
      /\ words' = <<>> /\ line' = <<>> /\ lines' = <<>>
  BY DEF KeepArmoured, Return
<1>2. given \in Value /\ text \in Value /\ rounds \in Nat
  BY DEF IInv, Typed
<1>3. /\ text' \in Value /\ text'.lead = 0 /\ text'.armour = text.armour
      /\ text'.gap = text.gap /\ text'.lines = text.lines /\ text.armour > 0
  BY <1>1, <1>2, Stripped
<1>4. rounds' \in Nat /\ rounds' # 0
  BY <1>1, <1>2
<1>5. Typed' /\ GivenInv'
  BY <1>1, <1>2, <1>3, <1>4
     DEF IInv, Typed, GivenInv, Run, Body, Total
<1>6. Normalised'
  <2>1. CASE rounds = 0
    <3>1. text = given /\ given.armour \in 0..1
      BY <2>1, <1>1 DEF IInv, OutInv, GivenInv
    <3>2. given.armour = 1
      BY <3>1, <1>3
    <3>. QED  BY <3>1, <3>2, <1>1, <1>3 DEF Normalised
  <2>2. CASE rounds # 0
    <3>1. Normalised
      BY <2>2, <1>1 DEF IInv, OutInv
    <3>. QED  BY <3>1, <1>1, <1>3 DEF Normalised, Total, Body, Whole
  <2>. QED  BY <2>1, <2>2
<1>. QED  BY <1>1, <1>4, <1>5, <1>6 DEF IInv, OutInv, InInv

\* Only a value that was not normalised is wrapped.
LEMMA BeginWrapInv ==
    ASSUME IInv, BeginWrap
    PROVE  IInv'
<1>1. /\ at = "out" /\ ~IsArmoured(text) /\ at' = "in" /\ words' = Body(text)
      /\ given' = given /\ text' = text /\ rounds' = rounds
      /\ line' = <<>> /\ lines' = <<>>
  BY DEF BeginWrap, IInv, OutInv
<1>2. given \in Value /\ text \in Value /\ rounds \in Nat
  BY DEF IInv, Typed
<1>3. ~(text.armour > 0)
  BY <1>1, <1>2, Stripped
<1>4. rounds = 0 /\ text = given /\ given.armour = 0
  <2>1. rounds = 0
    BY <1>1, <1>3 DEF IInv, OutInv, Normalised
  <2>2. text = given
    BY <2>1, <1>1 DEF IInv, OutInv
  <2>. QED  BY <2>1, <2>2, <1>3 DEF IInv, GivenInv
<1>5. Typed' /\ GivenInv' /\ OutInv'
  BY <1>1 DEF IInv, Typed, GivenInv, Run, Body, Total, OutInv
<1>6. Run(Body(given), 1, Total)
  BY DEF IInv, GivenInv
<1>7. words' # <<>>
  BY <1>1, <1>4, <1>6 DEF Run, Covers
<1>8. Wrapping(0, 0)'
  <2>1. Block(<<>>, 1, 0, text'.gap)
    <3>1. <<>> \in Seq(Line) /\ Len(<<>>) = 0 /\ 0 + 1 = 1
      OBVIOUS
    <3>. QED  BY <3>1 DEF Block
  <2>2. Run(words', 0 + 1, Total')
    <3>1. 0 + 1 = 1 /\ Total' = Total
      BY <1>1 DEF Total, Body
    <3>. QED  BY <3>1, <1>1, <1>4, <1>6
  <2>. QED  BY <2>1, <2>2, <1>1, <1>7 DEF Wrapping
<1>9. Whole' => FullLines'
  <2>1. Len(lines') = 0
    BY <1>1
  <2>. QED  BY <2>1, <1>1, <1>4 DEF FullLines, Whole
<1>10. (\E p, q \in Int : Wrapping(p, q))'
  BY <1>8
<1>. QED  BY <1>1, <1>4, <1>5, <1>9, <1>10 DEF IInv, InInv

\* What was not returned yet has only its lines and words changed.
LEMMA Wrapped ==
    ASSUME IInv, at = "in", UNCHANGED <<given, text, rounds, at>>,
           NEW p \in Int, NEW q \in Int, Wrapping(p, q)',
           Whole' => FullLines'
    PROVE  IInv'
<1>1. Typed' /\ GivenInv' /\ OutInv'
  BY DEF IInv, Typed, GivenInv, Run, Body, Total, OutInv
<1>2. rounds' = 0 /\ text' = given' /\ given'.armour = 0
  BY DEF IInv, InInv
<1>3. (\E i, j \in Int : Wrapping(i, j))'
  OBVIOUS
<1>. QED  BY <1>1, <1>2, <1>3 DEF IInv, InInv

\* How the lines, the line that is filled and the words that are left follow
\* each other while there are any.
LEMMA Placed ==
    ASSUME IInv, Placing
    PROVE  /\ at = "in" /\ Total \in Int /\ text.gap \in Nat \ {0}
           /\ \E p, q \in Int :
                 /\ Block(lines, 1, p, text.gap)
                 /\ line = <<>> => q = p
                 /\ line # <<>> => /\ Run(line, p + 1, q)
                                   /\ Span(line, text.gap) \in 1..Width
                 /\ Run(words, q + 1, Total)
<1>1. at = "in" /\ words # <<>>
  BY DEF Placing
<1>2. PICK p, q \in Int : Wrapping(p, q)
  BY <1>1 DEF IInv, InInv
<1>3. text.gap \in Nat \ {0}
  BY DEF IInv, Typed, Value
<1>. QED  BY <1>1, <1>2, <1>3, TotalIsInt DEF Wrapping

\* A word that fits joins the line.
LEMMA TakeWordInv ==
    ASSUME IInv, TakeWord
    PROVE  IInv'
<1>1. /\ Placing /\ Size(Head(words)) <= Room
      /\ line' = Append(line, Head(words)) /\ words' = Tail(words)
      /\ given' = given /\ text' = text /\ rounds' = rounds /\ at' = at
      /\ lines' = lines
  BY DEF TakeWord
<1>2. at = "in" /\ Total \in Int /\ text.gap \in Nat \ {0}
  BY <1>1, Placed
<1>3. PICK p, q \in Int :
         /\ Block(lines, 1, p, text.gap)
         /\ line = <<>> => q = p
         /\ line # <<>> => /\ Run(line, p + 1, q)
                           /\ Span(line, text.gap) \in 1..Width
         /\ Run(words, q + 1, Total)
  BY <1>1, Placed
<1>4. q + 1 \in Int /\ p + 1 \in Int
  OBVIOUS
<1>5. PICK w : w = Head(words)
  OBVIOUS
<1>6. /\ w \in Word /\ Size(w) > 0 /\ w[1] = q + 1 /\ w[2] \in Int
      /\ Size(w) \in Int
  BY <1>2, <1>3, <1>4, <1>5, RunHead DEF Size
<1>7. /\ Run(line', p + 1, w[2]) /\ line' # <<>>
      /\ Span(line', text.gap) \in 1..Width
  <2>1. CASE line = <<>>
    <3>1. line' = <<w>>
      BY <2>1, <1>1, <1>5
    <3>2. Size(w) <= Width
      BY <2>1, <1>1, <1>5 DEF Room
    <3>3. Run(<<w>>, w[1], w[2]) /\ Span(<<w>>, text.gap) = Size(w)
      BY <1>2, <1>6, RunOfOne
    <3>. QED  BY <2>1, <3>1, <3>2, <3>3, <1>3, <1>6
  <2>2. CASE line # <<>>
    <3>1. /\ Run(Append(line, w), p + 1, w[2])
          /\ Span(Append(line, w), text.gap)
             = Span(line, text.gap) + text.gap + Size(w)
      BY <2>2, <1>2, <1>3, <1>4, <1>6, RunAppend
    <3>2. Size(w) <= Width - (Span(line, text.gap) + text.gap)
      BY <2>2, <1>1, <1>5 DEF Room
    <3>3. Span(line', text.gap) \in 1..Width
      <4>1. PICK x \in 1..Width : x = Span(line, text.gap)
        BY <2>2, <1>3
      <4>2. Span(line', text.gap) = x + text.gap + Size(w)
        BY <3>1, <4>1, <1>1, <1>5
      <4>. QED  BY <3>2, <4>1, <4>2, <1>2, <1>6
    <3>. QED  BY <3>1, <3>3, <1>1, <1>5 DEF Run, Covers
  <2>. QED  BY <2>1, <2>2
<1>8. /\ Tail(words) = <<>> => w[2] = Total
      /\ Tail(words) # <<>> => Run(Tail(words), w[2] + 1, Total)
      /\ Tail(words) = <<>> <=> Len(words) = 1
  BY <1>2, <1>3, <1>4, <1>5, RunTail
<1>9. Total' = Total /\ (Whole' <=> Whole)
  BY <1>1 DEF Total, Body, Whole
<1>10. Wrapping(p, w[2])'
  BY <1>1, <1>3, <1>7, <1>8, <1>9 DEF Wrapping
<1>11. Whole' => FullLines'
  <2>. SUFFICES ASSUME Whole  PROVE FullLines'
    BY <1>9
  <2>1. FullLines /\ words # <<>>
    BY <1>1, <1>2 DEF IInv, InInv, Placing
  <2>2. words' = <<>>
    BY <2>1, <1>1, <1>8 DEF FullLines
  <2>. QED  BY <2>1, <2>2, <1>1 DEF FullLines
<1>. QED  BY <1>1, <1>2, <1>6, <1>10, <1>11, Wrapped

\* A line that is full, with its blanks or without, joins the lines.
LEMMA LineEnds ==
    ASSUME NEW p \in Int, NEW q \in Int, NEW gap \in Nat \ {0},
           NEW ls, Block(ls, 1, p, gap),
           NEW ws, Run(ws, p + 1, q), NEW pad \in 0..1,
           Span(ws, gap) + pad * gap \in 1..Width,
           NEW l, l = [words |-> ws, pad |-> pad]
    PROVE  /\ Block(Append(ls, l), 1, q, gap)
           /\ Append(ls, l) \in Seq(Line) /\ Len(Append(ls, l)) = Len(ls) + 1
           /\ Len(ls) \in Nat
           /\ \A i \in 1..Len(ls) : Append(ls, l)[i] = ls[i]
           /\ Append(ls, l)[Len(ls) + 1] = l
           /\ LineLength(l, gap) = Span(ws, gap) + pad * gap
<1>2. p + 1 \in Int
  OBVIOUS
<1>3. /\ l \in Line /\ Fits(l, gap) /\ First(l) = p + 1 /\ End(l) = q
      /\ LineLength(l, gap) = Span(ws, gap) + pad * gap
  BY <1>2, LineFits
<1>4. /\ Block(Append(ls, l), 1, End(l), gap)
      /\ Append(ls, l) \in Seq(Line) /\ Len(Append(ls, l)) = Len(ls) + 1
      /\ \A i \in 1..Len(ls) : Append(ls, l)[i] = ls[i]
      /\ Append(ls, l)[Len(ls) + 1] = l
  BY <1>3, BlockAppend
<1>5. Len(ls) \in Nat
  BY DEF Block
<1>. QED  BY <1>3, <1>4, <1>5

\* The line ends before the next word, or before the blanks that precede it.
LEMMA EndLineInv ==
    ASSUME IInv, Placing, NEW pad \in 0..1,
           EndLine([words |-> line, pad |-> pad]),
           UNCHANGED <<given, text, rounds, at, words>>,
           line # <<>>, Span(line, text.gap) + pad * text.gap <= Width
    PROVE  IInv'
<1>1. /\ lines' = Append(lines, [words |-> line, pad |-> pad]) /\ line' = <<>>
      /\ given' = given /\ text' = text /\ rounds' = rounds /\ at' = at
      /\ words' = words
  BY DEF EndLine
<1>2. at = "in" /\ Total \in Int /\ text.gap \in Nat \ {0}
  BY Placed
<1>3. PICK p, q \in Int :
         /\ Block(lines, 1, p, text.gap)
         /\ line = <<>> => q = p
         /\ line # <<>> => /\ Run(line, p + 1, q)
                           /\ Span(line, text.gap) \in 1..Width
         /\ Run(words, q + 1, Total)
  BY Placed
<1>4. Span(line, text.gap) + pad * text.gap \in 1..Width
  <2>1. pad * text.gap \in Nat
    BY <1>2
  <2>. QED  BY <2>1, <1>3
<1>5. Block(lines', 1, q, text.gap)
  BY <1>1, <1>2, <1>3, <1>4, LineEnds
<1>6. Total' = Total /\ (Whole' <=> Whole) /\ words # <<>>
  BY <1>1 DEF Total, Body, Whole, Placing
<1>7. Wrapping(q, q)'
  BY <1>1, <1>3, <1>5, <1>6 DEF Wrapping
<1>8. Whole' => FullLines'
  BY <1>2, <1>6 DEF IInv, InInv, FullLines
<1>. QED  BY <1>1, <1>2, <1>7, <1>8, Wrapped

\* Before any word is placed there is room for a whole line.
LEMMA EmptyLine ==
    ASSUME IInv, Placing
    PROVE  /\ line = <<>> => Room = Width
           /\ line # <<>> => Room = Width - (Span(line, text.gap) + text.gap)
           /\ line # <<>> => Span(line, text.gap) \in 1..Width
           /\ Room \in Int
<1>1. line # <<>> => Span(line, text.gap) \in 1..Width
  BY Placed
<1>2. text.gap \in Nat \ {0}
  BY Placed
<1>. QED  BY <1>1, <1>2 DEF Room

\* The next word has a size.
LEMMA SizeOfNext ==
    ASSUME IInv, Placing
    PROVE  Size(Head(words)) \in Int
<1>1. Total \in Int /\ \E q \in Int : Run(words, q + 1, Total)
  BY Placed
<1>2. PICK a \in Int : Run(words, a, Total)
  BY <1>1
<1>. QED  BY <1>1, <1>2, RunHead DEF Size

\* The next word does not fit.
LEMMA BreakLineInv ==
    ASSUME IInv, BreakLine
    PROVE  IInv'
<1>1. /\ Placing /\ EndLine([words |-> line, pad |-> 0])
      /\ Room < 0 \/ (Room < Size(Head(words)) /\ Size(Head(words)) <= Width)
      /\ UNCHANGED <<given, text, rounds, at, words>>
  BY DEF BreakLine, OneLine
<1>2. /\ line = <<>> => Room = Width
      /\ line # <<>> => Span(line, text.gap) \in 1..Width
  BY <1>1, EmptyLine
<1>3. line # <<>>
  <2>. SUFFICES ASSUME line = <<>>  PROVE FALSE
    OBVIOUS
  <2>1. Room = Width
    BY <1>2
  <2>2. Size(Head(words)) \in Int
    BY <1>1, SizeOfNext
  <2>. QED  BY <2>1, <2>2, <1>1
<1>4. text.gap \in Nat \ {0}
  BY <1>1, Placed
<1>5. Span(line, text.gap) + 0 * text.gap <= Width
  BY <1>2, <1>3, <1>4
<1>. QED  BY <1>1, <1>3, <1>5, EndLineInv

\* Only the blanks before the next word fit.
LEMMA BreakLineAtBlanksInv ==
    ASSUME IInv, BreakLineAtBlanks
    PROVE  IInv'
<1>1. /\ Placing /\ EndLine([words |-> line, pad |-> 1]) /\ Room = 0
      /\ UNCHANGED <<given, text, rounds, at, words>>
  BY DEF BreakLineAtBlanks, Padded
<1>2. /\ line = <<>> => Room = Width
      /\ line # <<>> => Room = Width - (Span(line, text.gap) + text.gap)
      /\ line # <<>> => Span(line, text.gap) \in 1..Width
  BY <1>1, EmptyLine
<1>3. line # <<>>
  BY <1>1, <1>2
<1>4. text.gap \in Nat \ {0}
  BY <1>1, Placed
<1>5. Span(line, text.gap) + 1 * text.gap <= Width
  BY <1>1, <1>2, <1>3, <1>4
<1>. QED  BY <1>1, <1>3, <1>5, EndLineInv

\* A word longer than a line fills this one, and goes on in the next.
LEMMA BreakWordInv ==
    ASSUME IInv, BreakWord
    PROVE  IInv'
<1>1. Placing /\ Width < Size(Head(words)) /\ Room > 0
  BY DEF BreakWord
<1>2. at = "in" /\ Total \in Int /\ text.gap \in Nat \ {0}
  BY <1>1, Placed
<1>3. PICK p, q \in Int :
         /\ Block(lines, 1, p, text.gap)
         /\ line = <<>> => q = p
         /\ line # <<>> => /\ Run(line, p + 1, q)
                           /\ Span(line, text.gap) \in 1..Width
         /\ Run(words, q + 1, Total)
  BY <1>1, Placed
<1>4. q + 1 \in Int /\ p + 1 \in Int
  OBVIOUS
<1>5. PICK w : w = Head(words)
  OBVIOUS
<1>6. w \in Word /\ w[1] = q + 1 /\ w[2] \in Int /\ Size(w) = w[2] - q
  <2>1. w \in Word /\ w[1] = q + 1 /\ w[2] \in Int
    BY <1>2, <1>3, <1>4, <1>5, RunHead
  <2>2. w[2] - (q + 1) + 1 = w[2] - q
    BY <2>1
  <2>. QED  BY <2>1, <2>2 DEF Size
<1>7. /\ line = <<>> => Room = Width
      /\ line # <<>> => Room = Width - (Span(line, text.gap) + text.gap)
      /\ Room \in Int
  BY <1>1, EmptyLine
<1>8. Room <= Width
  BY <1>2, <1>3, <1>7
<1>9. PICK k \in Int : k = w[1] + Room
  BY <1>6, <1>7
<1>10. PICK v : v = <<w[1], k - 1>>
  OBVIOUS
<1>11. /\ v \in Word /\ v[1] = q + 1 /\ v[2] = k - 1 /\ Size(v) = Room
       /\ k <= w[2] /\ k - 1 \in Int
  <2>1. k = q + 1 + Room
    BY <1>6, <1>9
  <2>2. k - 1 \in Int /\ k <= w[2]
    BY <2>1, <1>1, <1>5, <1>6, <1>7, <1>8
  <2>3. v \in Word /\ v[1] = q + 1 /\ v[2] = k - 1
    BY <2>2, <1>6, <1>10 DEF Word
  <2>4. (k - 1) - (q + 1) + 1 = Room
    BY <2>1, <1>7
  <2>. QED  BY <2>2, <2>3, <2>4 DEF Size
<1>12. PICK ws : ws = Append(line, v)
  OBVIOUS
<1>13. /\ EndLine([words |-> ws, pad |-> 0])
       /\ words' = <<(<<k, w[2]>>)>> \o Tail(words)
       /\ given' = given /\ text' = text /\ rounds' = rounds /\ at' = at
  BY <1>5, <1>9, <1>10, <1>12 DEF BreakWord, OneLine
<1>14. Run(ws, p + 1, k - 1) /\ Span(ws, text.gap) = Width
  <2>1. CASE line = <<>>
    <3>1. ws = <<v>>
      BY <2>1, <1>12
    <3>2. Run(<<v>>, v[1], v[2]) /\ Span(<<v>>, text.gap) = Size(v)
      BY <1>1, <1>2, <1>11, RunOfOne
    <3>. QED  BY <2>1, <3>1, <3>2, <1>3, <1>7, <1>11
  <2>2. CASE line # <<>>
    <3>1. /\ Run(Append(line, v), p + 1, v[2])
          /\ Span(Append(line, v), text.gap)
             = Span(line, text.gap) + text.gap + Size(v)
      BY <2>2, <1>1, <1>2, <1>3, <1>4, <1>11, RunAppend
    <3>2. Span(line, text.gap) + text.gap + Room = Width
      BY <2>2, <1>2, <1>3, <1>7
    <3>. QED  BY <3>1, <3>2, <1>11, <1>12
  <2>. QED  BY <2>1, <2>2
<1>15. PICK l : l = [words |-> ws, pad |-> 0]
  OBVIOUS
<1>16. lines' = Append(lines, l) /\ line' = <<>>
  BY <1>13, <1>15 DEF EndLine
<1>17. /\ Span(ws, text.gap) + 0 * text.gap = Width
       /\ Span(ws, text.gap) + 0 * text.gap \in 1..Width /\ 0 \in 0..1
  BY <1>2, <1>14
<1>18. /\ Block(lines', 1, k - 1, text.gap)
       /\ Len(lines') = Len(lines) + 1 /\ Len(lines) \in Nat
       /\ \A i \in 1..Len(lines) : lines'[i] = lines[i]
       /\ lines'[Len(lines) + 1] = l /\ LineLength(l, text.gap) = Width
  <2>1. PICK ls : ls = lines
    OBVIOUS
  <2>2. PICK ms : ms = Append(ls, l)
    OBVIOUS
  <2>3. PICK e \in Int : e = k - 1
    BY <1>11
  <2>4. Block(ls, 1, p, text.gap) /\ Run(ws, p + 1, e)
    BY <2>1, <2>3, <1>3, <1>14
  <2>5. /\ Block(ms, 1, e, text.gap)
        /\ Len(ms) = Len(ls) + 1 /\ Len(ls) \in Nat
        /\ \A i \in 1..Len(ls) : ms[i] = ls[i]
        /\ ms[Len(ls) + 1] = l
        /\ LineLength(l, text.gap) = Span(ws, text.gap) + 0 * text.gap
    BY <2>2, <2>4, <1>2, <1>15, <1>17, LineEnds
  <2>. QED  BY <2>1, <2>2, <2>3, <2>5, <1>16, <1>17
<1>19. Run(words', k, Total) /\ Len(words') = Len(words)
  BY <1>2, <1>3, <1>4, <1>5, <1>11, <1>13, RunRest
<1>20. Total' = Total /\ (Whole' <=> Whole) /\ words' # <<>> /\ k - 1 + 1 = k
  BY <1>13, <1>19 DEF Total, Body, Whole, Run, Covers
<1>21. Wrapping(k - 1, k - 1)'
  BY <1>13, <1>16, <1>18, <1>19, <1>20 DEF Wrapping
<1>22. Whole' => FullLines'
  <2>. SUFFICES ASSUME Whole  PROVE FullLines'
    BY <1>20
  <2>1. FullLines /\ words # <<>>
    BY <1>1, <1>2 DEF IInv, InInv, Placing
  <2>2. Len(words') = 1
    BY <2>1, <1>19 DEF FullLines
  <2>3. ASSUME NEW i \in 1..Len(lines')
        PROVE  LineLength(lines'[i], text.gap) = Width
    <3>1. CASE i = Len(lines) + 1
      BY <3>1, <1>18
    <3>2. CASE i # Len(lines) + 1
      <4>1. i \in 1..Len(lines)
        BY <3>2, <1>18
      <4>. QED  BY <4>1, <2>1, <1>18 DEF FullLines
    <3>. QED  BY <3>1, <3>2
  <2>. QED  BY <2>2, <2>3, <1>13, <1>16 DEF FullLines
<1>. QED  BY <1>2, <1>11, <1>13, <1>21, <1>22, Wrapped

\* The last line is joined to the others, and the whole put in armour.
LEMMA FinishInv ==
    ASSUME IInv, Finish
    PROVE  IInv'
<1>1. /\ at = "in" /\ words = <<>>
      /\ text' = [Strip(text) EXCEPT !.armour = @ + 1, !.trail = 1,
                                     !.lines = Append(lines, OneLine(line))]
      /\ rounds' = rounds + 1 /\ at' = "out" /\ given' = given
      /\ words' = <<>> /\ line' = <<>> /\ lines' = <<>>
  BY DEF Finish, Return
<1>2. /\ rounds = 0 /\ text = given /\ given.armour = 0
      /\ Whole => FullLines
  BY <1>1 DEF IInv, InInv
<1>3. given \in Value /\ text \in Value /\ text.gap \in Nat \ {0}
  BY DEF IInv, Typed, Value
<1>4. PICK p, q \in Int : Wrapping(p, q)
  BY <1>1 DEF IInv, InInv
<1>5. /\ Block(lines, 1, p, text.gap) /\ q = Total
      /\ Run(line, p + 1, q) /\ Span(line, text.gap) \in 1..Width
  BY <1>1, <1>4 DEF Wrapping
<1>6. PICK l : l = [words |-> line, pad |-> 0]
  OBVIOUS
<1>7. PICK ls : ls = Append(lines, l)
  OBVIOUS
<1>8. Span(line, text.gap) + 0 * text.gap \in 1..Width
  BY <1>3, <1>5
<1>9. /\ Block(ls, 1, Total, text.gap) /\ ls \in Seq(Line)
      /\ Len(ls) = Len(lines) + 1 /\ Len(lines) \in Nat
      /\ \A i \in 1..Len(lines) : ls[i] = lines[i]
  BY <1>3, <1>5, <1>6, <1>7, <1>8, LineEnds
<1>10. text' = [armour |-> 1, lead |-> 0, trail |-> 1, gap |-> text.gap,
                lines |-> ls]
  <2>1. PICK s : s = Strip(text)
    OBVIOUS
  <2>2. /\ s \in Value /\ s.lead = 0 /\ s.armour = 0 /\ s.gap = text.gap
    BY <2>1, <1>2, <1>3, Stripped
  <2>3. s = [armour |-> 0, lead |-> 0, trail |-> s.trail, gap |-> text.gap,
             lines |-> s.lines]
    BY <2>2 DEF Value
  <2>4. OneLine(line) = l
    BY <1>6 DEF OneLine
  <2>5. PICK u : u = [s EXCEPT !.armour = @ + 1]
    OBVIOUS
  <2>6. u = [armour |-> 1, lead |-> 0, trail |-> s.trail, gap |-> text.gap,
             lines |-> s.lines]
    BY <2>3, <2>5
  <2>7. PICK v : v = [u EXCEPT !.trail = 1]
    OBVIOUS
  <2>8. v = [armour |-> 1, lead |-> 0, trail |-> 1, gap |-> text.gap,
             lines |-> s.lines]
    BY <2>6, <2>7
  <2>9. text' = [v EXCEPT !.lines = ls]
    BY <2>1, <2>4, <2>5, <2>7, <1>1, <1>7
  <2>. QED  BY <2>8, <2>9
<1>11. text' \in Value
  <2>1. 1 \in Nat /\ 0 \in 0..1 /\ 1 \in 0..1
    OBVIOUS
  <2>. QED  BY <2>1, <1>3, <1>9, <1>10 DEF Value
<1>12. Typed' /\ GivenInv'
  BY <1>1, <1>2, <1>3, <1>11
     DEF IInv, Typed, GivenInv, Run, Body, Total
<1>13. Total' = Total /\ (Whole' <=> Whole)
  BY <1>1 DEF Total, Body, Whole
<1>14. Whole => \A i \in 1..(Len(ls) - 1) :
                   LineLength(ls[i], text.gap) = Width
  BY <1>2, <1>9 DEF FullLines
<1>15. Len(ls) > 0
  BY <1>9
<1>16. Normalised'
  <2>1. text'.lines = ls /\ text'.gap = text.gap /\ text'.armour = 1
        /\ text'.lead = 0
    BY <1>10
  <2>2. given'.armour = 0
    BY <1>1, <1>2
  <2>. QED  BY <2>1, <2>2, <1>9, <1>13, <1>14, <1>15 DEF Normalised
<1>. QED  BY <1>1, <1>2, <1>12, <1>16 DEF IInv, OutInv, InInv

\* Every step keeps the invariant.
LEMMA NextInv == IInv /\ [Next]_vars => IInv'
<1>. SUFFICES ASSUME IInv, [Next]_vars  PROVE IInv'
  OBVIOUS
<1>1. CASE KeepArmoured
  BY <1>1, KeepArmouredInv
<1>2. CASE BeginWrap
  BY <1>2, BeginWrapInv
<1>3. CASE Finish
  BY <1>3, FinishInv
<1>4. CASE TakeWord
  BY <1>4, TakeWordInv
<1>5. CASE BreakLine
  BY <1>5, BreakLineInv
<1>6. CASE BreakLineAtBlanks
  BY <1>6, BreakLineAtBlanksInv
<1>7. CASE BreakWord
  BY <1>7, BreakWordInv
<1>8. CASE UNCHANGED vars
  BY <1>8 DEF vars, wrapVars, IInv, Typed, GivenInv, OutInv, InInv, Run, Total,
              Body, Normalised, Whole, Wrapping, FullLines
<1>. QED  BY <1>1, <1>2, <1>3, <1>4, <1>5, <1>6, <1>7, <1>8 DEF Next

\* While a value is normalised, its lines, the line that is filled and the words
\* that are left are the body from its first character to its last.
THEOREM Invariance == Spec => []IInv
  BY InitInv, NextInv, PTL DEF Spec

\* ProperPem for lines of any width and bodies of any length, in any pieces.
THEOREM Proper == Spec => []ProperPem
<1>1. IInv => ProperPem
  <2>. SUFFICES ASSUME IInv, rounds > 0  PROVE ProperPem
    BY DEF ProperPem
  <2>1. at = "out"
    BY DEF IInv, InInv, Typed
  <2>2. Normalised
    BY <2>1 DEF IInv, OutInv
  <2>. QED  BY <2>2 DEF ProperPem, Normalised, Block, Fits, Whole
<1>. QED  BY <1>1, Invariance, PTL

\* KeepsBody for lines of any width and bodies of any length, in any pieces.
THEOREM Keeps == Spec => []KeepsBody
<1>1. IInv => KeepsBody
  <2>. SUFFICES ASSUME IInv  PROVE KeepsBody
    OBVIOUS
  <2>1. CASE text.lines = given.lines
    <3>1. /\ Len(given.lines) = 1 /\ Last(text.lines) = text.lines[1]
          /\ text.lines[1].words = Body(given)
      BY <2>1 DEF IInv, GivenInv, Last, Body
    <3>2. Covers(Body(given), 1, Total)
      BY DEF IInv, GivenInv, Run
    <3>3. First(text.lines[1]) = 1 /\ End(text.lines[1]) = Total
      BY <3>1, <3>2 DEF First, End, Covers
    <3>. QED  BY <2>1, <3>1, <3>2, <3>3 DEF KeepsBody, Total
  <2>2. CASE text.lines # given.lines
    <3>1. /\ Len(text.lines) > 0 /\ Block(text.lines, 1, Total, text.gap)
      BY <2>2 DEF IInv, GivenInv, OutInv, InInv, Normalised, Typed
    <3>. QED  BY <3>1 DEF KeepsBody, Block, Fits, Total, Last
  <2>. QED  BY <2>1, <2>2
<1>. QED  BY <1>1, Invariance, PTL

\* Idempotent for any value.
THEOREM Stays == Spec => Idempotent
<1>1. IInv /\ [Next]_vars => [rounds > 0 => Strip(text') = Strip(text)]_vars
  <2>. SUFFICES ASSUME IInv, Next, rounds > 0
                PROVE  Strip(text') = Strip(text)
    OBVIOUS
  <2>1. at = "out" /\ text \in Value
    BY DEF IInv, InInv, Typed
  <2>2. CASE KeepArmoured
    BY <2>1, <2>2, Stripped DEF KeepArmoured, Return
  <2>3. CASE BeginWrap
    BY <2>3 DEF BeginWrap
  <2>4. Finish \/ TakeWord \/ BreakLine \/ BreakLineAtBlanks \/ BreakWord
        => FALSE
    BY <2>1 DEF Finish, TakeWord, BreakLine, BreakLineAtBlanks, BreakWord,
                Placing
  <2>. QED  BY <2>2, <2>3, <2>4 DEF Next
<1>. QED  BY <1>1, Invariance, PTL DEF Spec, Idempotent
=============================================================================
