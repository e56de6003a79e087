---------------------------- MODULE PemNormalizer ----------------------------
(***************************************************************************)
(* ssl/PemNormalizer: what becomes of a certificate or key that is PEM     *)
(* already, or raw base64, in one piece or broken by whoever encoded it.   *)
(* A text is a number of BEGIN/END pairs around lines of words; a word is  *)
(* an interval of the characters of the body.  To textwrap.wrap any blanks *)
(* are alike, so a value that was not yet normalised is one line.          *)
(***************************************************************************)
EXTENDS Integers, SequencesExt

CONSTANTS
    Width,      \* columns of a line, 64 in the code
    MaxBody,    \* bound: characters of a body
    MaxWords,   \* bound: pieces a body arrives in
    MaxGap      \* bound: blanks between two of them

ASSUME PemAssumption ==
    /\ Width \in Nat \ {0} /\ MaxBody \in Nat \ {0}
    /\ MaxWords \in Nat \ {0} /\ MaxGap \in Nat \ {0}

VARIABLES
    given,      \* the value that was handed in
    text,       \* what _wrap made of it
    rounds,     \* how often it was applied
    at,         \* "out" of textwrap.wrap, or "in" it
    words,      \* what textwrap.wrap has yet to place
    line,       \* the words of the line it fills
    lines       \* the lines before that

wrapVars == <<words, line, lines>>
vars == <<given, text, rounds, at, wrapVars>>

Size(w) == w[2] - w[1] + 1

\* The columns of words that follow each other in the body.
Span(ws, gap) == Last(ws)[2] - ws[1][1] + 1 + (Len(ws) - 1) * gap

OneLine(ws) == [words |-> ws, pad |-> 0]
Padded(ws) == [words |-> ws, pad |-> 1]

LineLength(l, gap) == Span(l.words, gap) + l.pad * gap

\* The words of a value that was not normalised.
Body(t) == t.lines[1].words

\* Where a body of n characters in m pieces is cut.
Cuts(n, m) ==
    {f \in [0..m -> 0..n] : f[0] = 0 /\ f[m] = n
                            /\ \A i \in 1..m : f[i-1] < f[i]}

Bodies ==
    UNION {{[i \in 1..m |-> <<f[i-1] + 1, f[i]>>] : f \in Cuts(n, m)} :
           n \in 1..MaxBody, m \in 1..MaxWords}

\* armour: BEGIN/END pairs; lead, trail: blanks around the whole; gap: blanks
\* between two words of the body.
Texts == [armour : 0..1, lead : 0..1, trail : 0..1, gap : 1..MaxGap,
          lines : {<<OneLine(ws)>> : ws \in Bodies}]

Init ==
    /\ given \in Texts /\ text = given /\ rounds = 0 /\ at = "out"
    /\ words = <<>> /\ line = <<>> /\ lines = <<>>

-----------------------------------------------------------------------------
\* _wrap, for either header.

Strip(t) == [t EXCEPT !.lead = 0, !.trail = 0]

\* startswith("-----").
StartsWithDashes(t) == t.armour > 0 /\ t.lead = 0

NeverArmoured(t) == FALSE

ArmouredUnstripped(t) == StartsWithDashes(t)

\* value.strip().startswith("-----").
IsArmoured(t) == StartsWithDashes(Strip(t))

Return(t) ==
    /\ text' = t /\ rounds' = rounds + 1 /\ at' = "out"
    /\ words' = <<>> /\ line' = <<>> /\ lines' = <<>>
    /\ UNCHANGED given

KeepArmoured ==
    /\ at = "out" /\ rounds < 2 /\ IsArmoured(text)
    /\ Return(Strip(text))

BeginWrap ==
    /\ at = "out" /\ rounds < 2 /\ ~IsArmoured(text)
    /\ at' = "in" /\ words' = Body(text)
    /\ UNCHANGED <<given, text, rounds, line, lines>>

FinishOnFullLines ==
    /\ at = "in" /\ words = <<>>
    /\ Return([Strip(text) EXCEPT
                  !.armour = @ + 1, !.trail = 1,
                  !.lines = IF lines = <<>> THEN <<OneLine(line)>> ELSE lines])

Finish ==
    /\ at = "in" /\ words = <<>>
    /\ Return([Strip(text) EXCEPT !.armour = @ + 1, !.trail = 1,
                                  !.lines = Append(lines, OneLine(line))])

-----------------------------------------------------------------------------
\* textwrap.wrap.  A line takes words while they fit; one longer than a whole
\* line is broken to fill it; blanks at either end of a line are dropped, but
\* for those before a word of which not one character fitted.

Room == Width - (IF line = <<>> THEN 0 ELSE Span(line, text.gap) + text.gap)

Placing == at = "in" /\ words # <<>>

EndLine(l) == lines' = Append(lines, l) /\ line' = <<>>

TakeWord ==
    /\ Placing /\ Size(Head(words)) <= Room
    /\ line' = Append(line, Head(words)) /\ words' = Tail(words)
    /\ UNCHANGED <<given, text, rounds, at, lines>>

\* The next word goes to the next line, or not even the blanks before it fit.
BreakLine ==
    /\ Placing
    /\ Room < 0 \/ (Room < Size(Head(words)) /\ Size(Head(words)) <= Width)
    /\ EndLine(OneLine(line))
    /\ UNCHANGED <<given, text, rounds, at, words>>

BreakLineAtBlanks ==
    /\ Placing /\ Width < Size(Head(words)) /\ Room = 0
    /\ EndLine(Padded(line))
    /\ UNCHANGED <<given, text, rounds, at, words>>

BreakWord ==
    /\ Placing /\ Width < Size(Head(words)) /\ Room > 0
    /\ LET w == Head(words)
           k == w[1] + Room
       IN  /\ EndLine(OneLine(Append(line, <<w[1], k - 1>>)))
           /\ words' = <<(<<k, w[2]>>)>> \o Tail(words)
    /\ UNCHANGED <<given, text, rounds, at>>

Next ==
    \/ KeepArmoured \/ BeginWrap \/ Finish
    \/ TakeWord \/ BreakLine \/ BreakLineAtBlanks \/ BreakWord

Spec == Init /\ [][Next]_vars

-----------------------------------------------------------------------------
\* Normalised once or twice, a value of any shape is one PEM block whose first
\* character is its header's, no line of it is empty or too long, and a body
\* that came without blanks fills every line but the last ("proper PEM with
\* BEGIN/END markers and base64 wrapped at 64 chars per line").
ProperPem ==
    rounds > 0 =>
        /\ text.armour = 1 /\ text.lead = 0
        /\ given.armour = 0 =>
              /\ \A i \in 1..Len(text.lines) :
                    LineLength(text.lines[i], text.gap) \in 1..Width
              /\ Len(Body(given)) = 1 =>
                    \A i \in 1..(Len(text.lines) - 1) :
                        LineLength(text.lines[i], text.gap) = Width

\* Words that are the characters a to b of the body, in order and each once.
Covers(ws, a, b) ==
    /\ ws # <<>> /\ ws[1][1] = a /\ Last(ws)[2] = b
    /\ \A i \in 1..Len(ws) : Size(ws[i]) > 0
    /\ \A i \in 1..(Len(ws) - 1) : ws[i+1][1] = ws[i][2] + 1

First(l) == l.words[1][1]
End(l) == Last(l.words)[2]

\* No character of the body is lost, doubled or moved, wherever lines and words
\* end.
KeepsBody ==
    LET ls == text.lines
    IN  /\ First(ls[1]) = 1 /\ End(Last(ls)) = Last(Body(given))[2]
        /\ \A i \in 1..Len(ls) : Covers(ls[i].words, First(ls[i]), End(ls[i]))
        /\ \A i \in 1..(Len(ls) - 1) : First(ls[i+1]) = End(ls[i]) + 1

\* What was normalised stays as it is, but for a final line break.
Idempotent == [][rounds > 0 => Strip(text') = Strip(text)]_vars
=============================================================================
