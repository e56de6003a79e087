------------------------ MODULE DemoSessions_proofs ------------------------
(***************************************************************************)
(* Proofs about the demo sessions, for any callers, uploads and numbers    *)
(* of parts: nobody is given another's answer or a broken one, every       *)
(* connection is closed, and the streams implement the calls of DemoCalls. *)
(***************************************************************************)
EXTENDS DemoSessions, SequenceTheorems, TLAPS

\* The items a to b-1 of a stream, counted from 0.
Window(s, a, b) == SubSeq(s, a + 1, b)

\* All that a caller writes to its upload, and all that it can read from its
\* download.
Upload(c) == [i \in 1..(Chunks[c] + 1) |->
                 IF i <= Chunks[c] THEN Size(c, i) ELSE End]
Download(c) == [i \in 1..(Parts[c] + 1) |->
                   IF i <= Parts[c] THEN i - 1 ELSE End]

Handler == [kind : {"none", "count", "emit"}, total : Nat, next : Nat]

Typed ==
    /\ at \in [Callers -> Stages]
    /\ outcome \in [Callers -> {"none", "done", "failed"}]
    /\ open \in [Callers -> BOOLEAN]
    /\ written \in [Callers -> Nat] /\ total \in [Callers -> Int]
    /\ uplink \in [Callers -> Seq(Int)] /\ downlink \in [Callers -> Seq(Int)]
    /\ got \in [Callers -> Seq(Int)]
    /\ handler \in [Callers -> Handler]

Quiet(c) == uplink[c] = <<>> /\ downlink[c] = <<>> /\ handler[c] = NoHandler

\* Nothing was said yet.
Fresh(c) ==
    /\ Quiet(c)
    /\ outcome[c] = "none" /\ written[c] = 0
    /\ total[c] = Unknown /\ got[c] = <<>>

\* Of the upload, the end included once it was written, the handler has
\* counted the first k chunks and the rest is on its way, or it has counted
\* all of it and the answer is on its way.
Uploading(c) ==
    /\ outcome[c] = "none" /\ total[c] = Unknown /\ got[c] = <<>>
    /\ written[c] \in 0..Chunks[c]
    /\ at[c] = "await" => written[c] = Chunks[c]
    /\ \/ /\ downlink[c] = <<>>
          /\ \E k \in 0..written[c] :
                /\ handler[c] = [kind |-> "count", total |-> Offset[c][k],
                                next |-> 0]
                /\ uplink[c] = Window(Upload(c), k,
                                      IF at[c] = "await" THEN Chunks[c] + 1
                                                         ELSE written[c])
       \/ /\ at[c] = "await"
          /\ handler[c] = NoHandler
          /\ uplink[c] = <<>> /\ downlink[c] = <<Bytes(c)>>

\* Of the download, the caller has read the first items and the rest of the n
\* that were sent are on their way.
Downloading(c) ==
    /\ outcome[c] = "none" /\ total[c] = Bytes(c) /\ uplink[c] = <<>>
    /\ written[c] = Chunks[c]
    /\ \E g \in 0..Parts[c], n \in 0..(Parts[c] + 1) :
          /\ g <= n
          /\ got[c] = Window(Download(c), 0, g)
          /\ downlink[c] = Window(Download(c), g, n)
          /\ handler[c] = IF n <= Parts[c]
                          THEN [kind |-> "emit", total |-> 0, next |-> n]
                          ELSE NoHandler

\* Nothing more will be said, and what was said is a part of the answers, or
\* all of them.
Ended(c) ==
    /\ Quiet(c)
    /\ written[c] \in 0..Chunks[c] /\ total[c] \in {Unknown, Bytes(c)}
    /\ \E g \in 0..Parts[c] :
          /\ got[c] = Window(Download(c), 0, g)
          /\ outcome[c] = "done" => total[c] = Bytes(c) /\ g = Parts[c]

SessionInv(c) ==
    /\ at[c] \in {"idle", "command"} => Fresh(c)
    /\ at[c] \in {"upload", "await"} => Uploading(c)
    /\ at[c] = "download" => Downloading(c)
    /\ at[c] \in {"closing", "over"} => Ended(c)

IInv == Typed /\ NoConnectionLeft /\ \A c \in Callers : SessionInv(c)

-----------------------------------------------------------------------------
\* Streams, of which a window is on its way.

\* A sequence that has one item more than another it begins with.
LEMMA AppendLast ==
    ASSUME NEW w \in Seq(Int), NEW v \in Seq(Int), Len(v) = Len(w) + 1,
           \A i \in 1..Len(w) : v[i] = w[i]
    PROVE  Append(w, v[Len(v)]) = v
<1>. SUFFICES ASSUME NEW x \in Int, x = v[Len(v)]
              PROVE  Append(w, x) = v
  BY LenProperties, ElementOfSeq
<1>1. /\ Append(w, x) \in Seq(Int)
      /\ Len(Append(w, x)) = Len(w) + 1
      /\ \A i \in 1..Len(w) : Append(w, x)[i] = w[i]
      /\ Append(w, x)[Len(w) + 1] = x
  BY AppendProperties
<1>2. \A i \in 1..Len(v) : Append(w, x)[i] = v[i]
  BY <1>1, LenProperties
<1>. QED
  BY <1>1, <1>2, SeqEqual

\* A window is a sequence of its own.
LEMMA WindowIs ==
    ASSUME NEW s \in Seq(Int), NEW a \in 0..Len(s), NEW b \in a..Len(s)
    PROVE  /\ Window(s, a, b) \in Seq(Int)
           /\ Len(Window(s, a, b)) = b - a
           /\ \A i \in 1..(b - a) : Window(s, a, b)[i] = s[a + i]
<1>1. Len(s) \in Nat /\ a \in Int /\ b \in Int /\ a <= b
  BY LenProperties
<1>2. \A i \in (a + 1)..b : s[i] \in Int
  BY <1>1, ElementOfSeq
<1>3. /\ Window(s, a, b) \in Seq(Int)
      /\ Len(Window(s, a, b)) = IF a + 1 <= b THEN b - (a + 1) + 1 ELSE 0
      /\ \A i \in 1..(b - (a + 1) + 1) :
            Window(s, a, b)[i] = s[a + 1 + i - 1]
  BY <1>1, <1>2, SubSeqProperties DEF Window
<1>. QED
  BY <1>1, <1>3

\* What is written next extends the window.
LEMMA WindowGrows ==
    ASSUME NEW s \in Seq(Int), NEW a \in 0..Len(s), NEW b \in a..(Len(s) - 1)
    PROVE  Append(Window(s, a, b), s[b + 1]) = Window(s, a, b + 1)
<1>. /\ Len(s) \in Nat /\ b \in a..Len(s) /\ b + 1 \in a..Len(s)
     /\ a \in Int /\ b \in Int
  BY LenProperties
<1>1. /\ Window(s, a, b) \in Seq(Int)
      /\ Len(Window(s, a, b)) = b - a
      /\ \A i \in 1..(b - a) : Window(s, a, b)[i] = s[a + i]
  BY WindowIs
<1>2. /\ Window(s, a, b + 1) \in Seq(Int)
      /\ Len(Window(s, a, b + 1)) = b + 1 - a
      /\ \A i \in 1..(b + 1 - a) : Window(s, a, b + 1)[i] = s[a + i]
  BY WindowIs
<1>3. /\ Len(Window(s, a, b + 1)) = Len(Window(s, a, b)) + 1
      /\ \A i \in 1..Len(Window(s, a, b)) :
            Window(s, a, b + 1)[i] = Window(s, a, b)[i]
      /\ Window(s, a, b + 1)[Len(Window(s, a, b + 1))] = s[b + 1]
  BY <1>1, <1>2
<1>. QED
  BY <1>1, <1>2, <1>3, AppendLast

\* What is read is its first item, and the rest stays.
LEMMA WindowShrinks ==
    ASSUME NEW s \in Seq(Int), NEW a \in 0..Len(s), NEW b \in (a + 1)..Len(s)
    PROVE  /\ Window(s, a, b) # <<>>
           /\ Head(Window(s, a, b)) = s[a + 1]
           /\ Tail(Window(s, a, b)) = Window(s, a + 1, b)
<1>1. a + 1 \in 1..Len(s) /\ b \in (a + 1)..Len(s)
  OBVIOUS
<1>2. /\ Head(Window(s, a, b)) = s[a + 1]
      /\ Tail(Window(s, a, b)) = Window(s, a + 1, b)
  BY <1>1, HeadTailOfSubSeq DEF Window
<1>3. Len(Window(s, a, b)) = b - a
  BY <1>1, WindowIs, LenProperties
<1>. QED
  BY <1>2, <1>3, LenProperties, EmptySeq

\* Nothing is on its way when everything written was read.
LEMMA WindowEmpty ==
    ASSUME NEW s, NEW a \in Nat PROVE Window(s, a, a) = <<>>
BY SubSeqEmpty DEF Window

-----------------------------------------------------------------------------
\* The streams of a caller.

\* A function on 1..n is a sequence.
LEMMA FunctionIsSeq ==
    ASSUME NEW n \in Nat, NEW f \in [1..n -> Int]
    PROVE  f \in Seq(Int) /\ Len(f) = n
<1>1. f \in Seq(Int)
  BY SeqDef
<1>2. DOMAIN f = 1..Len(f) /\ DOMAIN f = 1..n /\ Len(f) \in Nat
  BY <1>1, LenProperties
<1>. QED
  BY <1>1, <1>2

\* An upload is its chunks, of sizes that add up to the offsets, and the end.
LEMMA UploadIs ==
    ASSUME SessionsAssumption, NEW c \in Callers
    PROVE  /\ Upload(c) \in Seq(Int) /\ Len(Upload(c)) = Chunks[c] + 1
           /\ Chunks[c] \in Nat /\ Bytes(c) \in Nat
           /\ \A i \in 1..Chunks[c] :
                 /\ Upload(c)[i] = Size(c, i) /\ Size(c, i) \in Nat
                 /\ Offset[c][i - 1] \in Nat
                 /\ Offset[c][i] = Offset[c][i - 1] + Size(c, i)
                 /\ Offset[c][i] <= Bytes(c)
           /\ Upload(c)[Chunks[c] + 1] = End
<1>1. /\ Chunks[c] \in Nat /\ Offset[c] \in [0..Chunks[c] -> Nat]
      /\ \A i, j \in 0..Chunks[c] : i <= j => Offset[c][i] <= Offset[c][j]
  BY DEF SessionsAssumption
<1>2. /\ Bytes(c) \in Nat
      /\ \A i \in 1..Chunks[c] :
            /\ Size(c, i) \in Nat
            /\ Offset[c][i - 1] \in Nat
            /\ Offset[c][i] = Offset[c][i - 1] + Size(c, i)
            /\ Offset[c][i] <= Bytes(c)
  <2>1. Chunks[c] \in 0..Chunks[c]
    BY <1>1
  <2>2. Bytes(c) \in Nat
    BY <1>1, <2>1 DEF Bytes
  <2>. SUFFICES ASSUME NEW i \in 1..Chunks[c]
                PROVE  /\ Size(c, i) \in Nat
                       /\ Offset[c][i - 1] \in Nat
                       /\ Offset[c][i] = Offset[c][i - 1] + Size(c, i)
                       /\ Offset[c][i] <= Bytes(c)
    BY <2>2
  <2>3. i \in 0..Chunks[c] /\ i - 1 \in 0..Chunks[c] /\ i - 1 <= i
    BY <1>1
  <2>4. Offset[c][i - 1] <= Offset[c][i] /\ Offset[c][i] <= Bytes(c)
    BY <1>1, <2>1, <2>3 DEF Bytes
  <2>5. Offset[c][i - 1] \in Nat /\ Offset[c][i] \in Nat
    BY <1>1, <2>3
  <2>. QED
    BY <2>4, <2>5 DEF Size
<1>3. Upload(c) \in [1..(Chunks[c] + 1) -> Int]
  BY <1>1, <1>2 DEF Upload, End
<1>4. Upload(c) \in Seq(Int) /\ Len(Upload(c)) = Chunks[c] + 1
  BY <1>1, <1>3, FunctionIsSeq
<1>5. /\ \A i \in 1..Chunks[c] : Upload(c)[i] = Size(c, i)
      /\ Upload(c)[Chunks[c] + 1] = End
  BY <1>1 DEF Upload
<1>. QED
  BY <1>1, <1>2, <1>4, <1>5

\* A download is its numbered parts and the end.
LEMMA DownloadIs ==
    ASSUME SessionsAssumption, NEW c \in Callers
    PROVE  /\ Download(c) \in Seq(Int) /\ Len(Download(c)) = Parts[c] + 1
           /\ Parts[c] \in Nat
           /\ \A i \in 0..(Parts[c] - 1) : Download(c)[i + 1] = i
           /\ Download(c)[Parts[c] + 1] = End
<1>1. Parts[c] \in Nat
  BY DEF SessionsAssumption
<1>2. Download(c) \in [1..(Parts[c] + 1) -> Int]
  BY <1>1 DEF Download, End
<1>3. Download(c) \in Seq(Int) /\ Len(Download(c)) = Parts[c] + 1
  <2>1. Parts[c] + 1 \in Nat
    BY <1>1
  <2>. QED
    BY <1>2, <2>1, FunctionIsSeq
<1>4. \A i \in 0..(Parts[c] - 1) :
         i + 1 \in 1..Parts[c] /\ i + 1 <= Parts[c] /\ (i + 1) - 1 = i
  BY <1>1
<1>. QED
  BY <1>1, <1>3, <1>4 DEF Download

-----------------------------------------------------------------------------
\* A step of one caller, or of its handler, leaves the sessions of the others
\* alone.

Same(x) ==
    /\ at'[x] = at[x] /\ outcome'[x] = outcome[x] /\ open'[x] = open[x]
    /\ written'[x] = written[x] /\ total'[x] = total[x] /\ got'[x] = got[x]
    /\ uplink'[x] = uplink[x] /\ downlink'[x] = downlink[x]
    /\ handler'[x] = handler[x]

Others(c) == \A x \in Callers \ {c} : Same(x)

\* A session that a step leaves alone stays as it is.
LEMMA Frame ==
    ASSUME NEW c, Same(c), SessionInv(c) PROVE SessionInv(c)'
<1>1. Quiet(c)' = Quiet(c) /\ Fresh(c)' = Fresh(c)
  BY DEF Same, Quiet, Fresh
<1>2. Uploading(c)' = Uploading(c) /\ Downloading(c)' = Downloading(c)
  BY DEF Same, Uploading, Downloading
<1>3. Ended(c)' = Ended(c)
  BY <1>1 DEF Same, Ended
<1>. QED
  BY <1>1, <1>2, <1>3 DEF Same, SessionInv

\* It is enough to look at the session that a step is about.
LEMMA StepInv ==
    ASSUME IInv, NEW c \in Callers, Typed', Others(c), SessionInv(c)',
           open'[c] => at'[c] \notin {"idle", "over"}
    PROVE  IInv'
<1>1. \A x \in Callers \ {c} : SessionInv(x)'
  BY Frame DEF IInv, Others
<1>2. NoConnectionLeft'
  BY DEF IInv, NoConnectionLeft, Others, Same
<1>. QED
  BY <1>1, <1>2 DEF IInv

-----------------------------------------------------------------------------
\* The invariant holds at the start and is preserved, action by action.

\* Nothing has begun.
LEMMA InitInv == ASSUME SessionsAssumption, Init PROVE IInv
<1>1. Typed
  BY DEF Init, Typed, Stages, Handler, NoHandler, Unknown
<1>2. NoConnectionLeft
  BY DEF Init, NoConnectionLeft
<1>3. \A c \in Callers : SessionInv(c)
  BY DEF Init, SessionInv, Fresh, Quiet
<1>. QED
  BY <1>1, <1>2, <1>3 DEF IInv

\* run_demo begins, or never does.
LEMMA BeginInv ==
    ASSUME SessionsAssumption, IInv, NEW c \in Callers,
           StartManaged(c) \/ Connect(c)
    PROVE  IInv'
<1>. USE DEF StartManaged, Connect
<1>1. Typed'
  <2>1. open' \in [Callers -> BOOLEAN]
    BY Zenon DEF IInv, Typed
  <2>2. /\ at' = [at EXCEPT ![c] = "command"]
        /\ UNCHANGED <<outcome, written, total, got, uplink, handler, downlink>>
    OBVIOUS
  <2>. QED
    BY <2>1, <2>2 DEF IInv, Typed, Stages
<1>2. Others(c) /\ at'[c] = "command"
  BY DEF IInv, Typed, Others, Same
<1>3. SessionInv(c)'
  BY <1>2 DEF IInv, SessionInv, Fresh, Quiet
<1>. QED
  BY <1>1, <1>2, <1>3, StepInv

\* There is no server, or no Unix socket: nothing is said.
LEMMA NotBegunInv ==
    ASSUME SessionsAssumption, IInv, NEW c \in Callers,
           ConnectFails(c) \/ Skip(c)
    PROVE  IInv'
<1>. USE DEF ConnectFails, Skip
<1>1. Typed'
  BY DEF IInv, Typed, Stages
<1>2. Others(c) /\ at'[c] = "over" /\ outcome'[c] # "done"
  BY DEF IInv, Typed, Others, Same, SessionInv, Fresh
<1>3. Fresh(c)
  BY DEF IInv, SessionInv
<1>4. Window(Download(c), 0, 0) = <<>>
  BY WindowEmpty
<1>5. 0 \in 0..Parts[c] /\ 0 \in 0..Chunks[c]
  BY DEF SessionsAssumption
<1>6. Ended(c)'
  BY <1>2, <1>3, <1>4, <1>5 DEF Ended, Fresh, Quiet
<1>7. open'[c] => FALSE
  BY DEF IInv, NoConnectionLeft, Typed
<1>. QED
  BY <1>1, <1>2, <1>6, <1>7, StepInv DEF SessionInv

\* The upload begins with nothing written and nothing counted.
LEMMA CommandInv ==
    ASSUME SessionsAssumption, IInv, NEW c \in Callers, Command(c) PROVE IInv'
<1>. USE DEF Command
<1>1. Typed'
  BY DEF IInv, Typed, Stages, Counting, NoHandler, Handler
<1>2. /\ Others(c) /\ at'[c] = "upload" /\ open'[c] = open[c]
      /\ handler'[c] = [kind |-> "count", total |-> 0, next |-> 0]
  BY DEF IInv, Typed, Others, Same, Counting, NoHandler
<1>3. Fresh(c)
  BY DEF IInv, SessionInv
<1>4. /\ Window(Upload(c), 0, 0) = <<>>
      /\ Chunks[c] \in Nat /\ Offset[c][0] = 0
  BY WindowEmpty DEF SessionsAssumption
<1>5. Uploading(c)'
  BY <1>2, <1>3, <1>4 DEF Uploading, Fresh, Quiet
<1>. QED
  BY <1>1, <1>2, <1>5, StepInv DEF SessionInv

\* What a caller that uploads knows of its stream.
LEMMA UploadingIs ==
    ASSUME SessionsAssumption, IInv, NEW c \in Callers,
           at[c] \in {"upload", "await"}
    PROVE  Uploading(c)
BY DEF IInv, SessionInv

\* One more chunk is on its way.
LEMMA WriteInv ==
    ASSUME SessionsAssumption, IInv, NEW c \in Callers, Write(c) PROVE IInv'
<1>. USE DEF Write
<1>1. /\ Upload(c) \in Seq(Int) /\ Len(Upload(c)) = Chunks[c] + 1
      /\ Chunks[c] \in Nat
      /\ \A i \in 1..Chunks[c] :
            Upload(c)[i] = Size(c, i) /\ Size(c, i) \in Nat
  BY UploadIs
<1>2. /\ written[c] \in Nat /\ written[c] + 1 \in Nat
      /\ written[c] + 1 \in 1..Chunks[c]
      /\ written[c] + 1 \in 0..Chunks[c]
  <2>1. written[c] \in Nat /\ written[c] < Chunks[c]
    BY DEF IInv, Typed
  <2>. QED
    BY <1>1, <2>1
<1>3. /\ Upload(c)[written[c] + 1] = Size(c, written[c] + 1)
      /\ Size(c, written[c] + 1) \in Int
  BY <1>1, <1>2
<1>4. Append(uplink[c], Size(c, written[c] + 1)) \in Seq(Int)
  <2>1. uplink[c] \in Seq(Int)
    BY DEF IInv, Typed
  <2>. QED
    BY <1>3, <2>1, AppendProperties
<1>5. Typed'
  <2>1. written' \in [Callers -> Nat]
    BY <1>2 DEF IInv, Typed
  <2>2. uplink' \in [Callers -> Seq(Int)]
    BY <1>4 DEF IInv, Typed
  <2>3. UNCHANGED <<at, outcome, open, total, got, handler, downlink>>
    OBVIOUS
  <2>. QED
    BY <2>1, <2>2, <2>3 DEF IInv, Typed
<1>6. /\ Others(c) /\ at'[c] = "upload" /\ at[c] = "upload"
      /\ UNCHANGED <<outcome, open, total, got, handler, downlink>>
      /\ written'[c] = written[c] + 1
      /\ uplink'[c] = Append(uplink[c], Size(c, written[c] + 1))
  BY DEF IInv, Typed, Others, Same
<1>7. Uploading(c)
  BY <1>6, UploadingIs
<1>8. PICK k \in 0..written[c] :
        /\ downlink[c] = <<>>
        /\ handler[c] = [kind |-> "count", total |-> Offset[c][k], next |-> 0]
        /\ uplink[c] = Window(Upload(c), k, written[c])
  BY <1>6, <1>7 DEF Uploading
<1>9. uplink'[c] = Window(Upload(c), k, written[c] + 1)
  <2>1. /\ k \in 0..Len(Upload(c))
        /\ written[c] \in k..(Len(Upload(c)) - 1)
    BY <1>1, <1>2
  <2>. QED
    BY <1>1, <1>3, <1>6, <1>8, <2>1, WindowGrows
<1>10. Uploading(c)'
  <2>1. k \in 0..(written[c] + 1)
    BY <1>2
  <2>2. k \in 0..written'[c]
    BY <1>6, <2>1
  <2>. QED
    BY <1>2, <1>6, <1>7, <1>8, <1>9, <2>2 DEF Uploading
<1>. QED
  BY <1>5, <1>6, <1>10, StepInv DEF SessionInv

\* And at last the end.
LEMMA FinishInv ==
    ASSUME SessionsAssumption, IInv, NEW c \in Callers, Finish(c) PROVE IInv'
<1>. USE DEF Finish
<1>1. /\ Upload(c) \in Seq(Int) /\ Len(Upload(c)) = Chunks[c] + 1
      /\ Chunks[c] \in Nat /\ written[c] = Chunks[c]
      /\ Upload(c)[Chunks[c] + 1] = End
  BY UploadIs DEF IInv, Typed
<1>2. uplink[c] \in Seq(Int) /\ End \in Int
  BY DEF IInv, Typed, End
<1>3. Append(uplink[c], End) \in Seq(Int)
  BY <1>2, AppendProperties
<1>4. Typed'
  BY <1>3 DEF IInv, Typed, Stages
<1>5. /\ Others(c) /\ at'[c] = "await" /\ at[c] = "upload"
      /\ UNCHANGED <<outcome, open, written, total, got, handler, downlink>>
      /\ uplink'[c] = Append(uplink[c], End)
  BY DEF IInv, Typed, Others, Same
<1>6. Uploading(c)
  BY <1>5, UploadingIs
<1>7. PICK k \in 0..Chunks[c] :
        /\ downlink[c] = <<>>
        /\ handler[c] = [kind |-> "count", total |-> Offset[c][k], next |-> 0]
        /\ uplink[c] = Window(Upload(c), k, Chunks[c])
  BY <1>1, <1>5, <1>6 DEF Uploading
<1>8. uplink'[c] = Window(Upload(c), k, Chunks[c] + 1)
  <2>1. /\ k \in 0..Len(Upload(c))
        /\ Chunks[c] \in k..(Len(Upload(c)) - 1)
    BY <1>1
  <2>. QED
    BY <1>1, <1>5, <1>7, <2>1, WindowGrows
<1>9. Uploading(c)'
  BY <1>1, <1>5, <1>6, <1>7, <1>8 DEF Uploading
<1>. QED
  BY <1>4, <1>5, <1>9, StepInv DEF SessionInv

\* An answer is there only after the whole upload was counted.
LEMMA AnswerIsTotal ==
    ASSUME SessionsAssumption, IInv, NEW c \in Callers,
           at[c] = "await", downlink[c] # <<>>
    PROVE  /\ downlink[c] = <<Bytes(c)>> /\ uplink[c] = <<>>
           /\ handler[c] = NoHandler
           /\ written[c] = Chunks[c]
           /\ outcome[c] = "none" /\ total[c] = Unknown /\ got[c] = <<>>
BY UploadingIs DEF Uploading

\* The answer is read and the download begins.
LEMMA ReadTotalInv ==
    ASSUME SessionsAssumption, IInv, NEW c \in Callers, ReadTotal(c)
    PROVE  IInv'
<1>. USE DEF ReadTotal
<1>1. /\ downlink[c] = <<Bytes(c)>> /\ uplink[c] = <<>>
      /\ written[c] = Chunks[c]
      /\ outcome[c] = "none" /\ got[c] = <<>>
  BY AnswerIsTotal
<1>2. Bytes(c) \in Nat /\ Parts[c] \in Nat
  BY UploadIs, DownloadIs
<1>3. Head(downlink[c]) = Bytes(c) /\ Tail(downlink[c]) = <<>>
  BY <1>1, <1>2
<1>4. /\ Others(c) /\ at'[c] = "download"
      /\ UNCHANGED <<outcome, open, written, got, uplink>>
      /\ total'[c] = Bytes(c) /\ downlink'[c] = <<>>
      /\ handler'[c] = [kind |-> "emit", total |-> 0, next |-> 0]
  BY <1>3 DEF IInv, Typed, Others, Same, Emitting, NoHandler
<1>5. Typed'
  <2>1. Emitting \in Handler
    BY DEF Emitting, NoHandler, Handler
  <2>2. <<>> \in Seq(Int) /\ Bytes(c) \in Int
    BY <1>2
  <2>. QED
    BY <1>3, <2>1, <2>2 DEF IInv, Typed, Stages
<1>6. Window(Download(c), 0, 0) = <<>>
  BY WindowEmpty
<1>7. Downloading(c)'
  BY <1>1, <1>2, <1>4, <1>6 DEF Downloading
<1>. QED
  BY <1>4, <1>5, <1>7, StepInv DEF SessionInv

\* What a caller that downloads has got and may still get.
LEMMA DownloadingIs ==
    ASSUME SessionsAssumption, IInv, NEW c \in Callers, at[c] = "download"
    PROVE  /\ outcome[c] = "none" /\ total[c] = Bytes(c) /\ uplink[c] = <<>>
           /\ written[c] = Chunks[c]
           /\ \E g \in 0..Parts[c], n \in 0..(Parts[c] + 1) :
                 /\ g <= n
                 /\ got[c] = Window(Download(c), 0, g)
                 /\ downlink[c] = Window(Download(c), g, n)
                 /\ handler[c] = IF n <= Parts[c]
                                 THEN [kind |-> "emit", total |-> 0, next |-> n]
                                 ELSE NoHandler
BY DEF IInv, SessionInv, Downloading

\* The next item that it reads: a part while there are any, then the end.
LEMMA NextItem ==
    ASSUME SessionsAssumption, IInv, NEW c \in Callers,
           at[c] = "download", downlink[c] # <<>>
    PROVE  \E g \in 0..Parts[c], n \in 0..(Parts[c] + 1) :
              /\ g + 1 <= n
              /\ got[c] = Window(Download(c), 0, g)
              /\ Tail(downlink[c]) = Window(Download(c), g + 1, n)
              /\ handler[c] = IF n <= Parts[c]
                              THEN [kind |-> "emit", total |-> 0, next |-> n]
                              ELSE NoHandler
              /\ Head(downlink[c]) = Download(c)[g + 1]
              /\ Head(downlink[c]) = IF g < Parts[c] THEN g ELSE End
              /\ (Head(downlink[c]) = End) <=> (g = Parts[c])
<1>1. /\ Download(c) \in Seq(Int) /\ Len(Download(c)) = Parts[c] + 1
      /\ Parts[c] \in Nat /\ Download(c)[Parts[c] + 1] = End
      /\ \A i \in 0..(Parts[c] - 1) : Download(c)[i + 1] = i
  BY DownloadIs
<1>2. PICK g \in 0..Parts[c], n \in 0..(Parts[c] + 1) :
        /\ g <= n
        /\ got[c] = Window(Download(c), 0, g)
        /\ downlink[c] = Window(Download(c), g, n)
        /\ handler[c] = IF n <= Parts[c]
                        THEN [kind |-> "emit", total |-> 0, next |-> n]
                        ELSE NoHandler
  BY DownloadingIs
<1>3. g < n /\ g + 1 <= n
  BY <1>1, <1>2, WindowEmpty
<1>4. /\ Head(downlink[c]) = Download(c)[g + 1]
      /\ Tail(downlink[c]) = Window(Download(c), g + 1, n)
  <2>1. g \in 0..Len(Download(c)) /\ n \in (g + 1)..Len(Download(c))
    BY <1>1, <1>3
  <2>. QED
    BY <1>1, <1>2, <2>1, WindowShrinks
<1>5. /\ Download(c)[g + 1] = IF g < Parts[c] THEN g ELSE End
      /\ (Download(c)[g + 1] = End) <=> (g = Parts[c])
  <2>1. CASE g < Parts[c]
    <3>1. g \in 0..(Parts[c] - 1)
      BY <1>1, <2>1
    <3>2. Download(c)[g + 1] = g
      BY <1>1, <3>1
    <3>. QED
      BY <1>1, <2>1, <3>2 DEF End
  <2>2. CASE g = Parts[c]
    BY <1>1, <2>2
  <2>. QED
    BY <1>1, <2>1, <2>2
<1>. QED
  BY <1>2, <1>3, <1>4, <1>5

\* A part is read.
LEMMA ReadPartInv ==
    ASSUME SessionsAssumption, IInv, NEW c \in Callers, ReadPart(c)
    PROVE  IInv'
<1>. USE DEF ReadPart
<1>1. /\ Download(c) \in Seq(Int) /\ Len(Download(c)) = Parts[c] + 1
      /\ Parts[c] \in Nat
  BY DownloadIs
<1>2. PICK g \in 0..Parts[c], n \in 0..(Parts[c] + 1) :
        /\ g + 1 <= n
        /\ got[c] = Window(Download(c), 0, g)
        /\ Tail(downlink[c]) = Window(Download(c), g + 1, n)
        /\ handler[c] = IF n <= Parts[c]
                        THEN [kind |-> "emit", total |-> 0, next |-> n]
                        ELSE NoHandler
        /\ Head(downlink[c]) = Download(c)[g + 1]
        /\ g # Parts[c]
  BY NextItem
<1>3. g + 1 \in 0..Parts[c]
  BY <1>1, <1>2
<1>4. Append(got[c], Head(downlink[c])) = Window(Download(c), 0, g + 1)
  <2>1. 0 \in 0..Len(Download(c)) /\ g \in 0..(Len(Download(c)) - 1)
    BY <1>1, <1>3
  <2>. QED
    BY <1>1, <1>2, <2>1, WindowGrows
<1>5. /\ Window(Download(c), 0, g + 1) \in Seq(Int)
      /\ Window(Download(c), g + 1, n) \in Seq(Int)
  <2>1. /\ 0 \in 0..Len(Download(c)) /\ g + 1 \in 0..Len(Download(c))
        /\ n \in (g + 1)..Len(Download(c))
    BY <1>1, <1>2, <1>3
  <2>. QED
    BY <1>1, <2>1, WindowIs
<1>6. Typed'
  BY <1>2, <1>4, <1>5 DEF IInv, Typed
<1>7. /\ Others(c) /\ at'[c] = "download"
      /\ UNCHANGED <<outcome, open, written, total, handler, uplink>>
      /\ got'[c] = Window(Download(c), 0, g + 1)
      /\ downlink'[c] = Window(Download(c), g + 1, n)
  BY <1>2, <1>4 DEF IInv, Typed, Others, Same
<1>8. Downloading(c)'
  BY <1>2, <1>3, <1>7, DownloadingIs DEF Downloading
<1>. QED
  BY <1>6, <1>7, <1>8, StepInv DEF SessionInv

\* The end is read only after the last part.
LEMMA ReadEndInv ==
    ASSUME SessionsAssumption, IInv, NEW c \in Callers, ReadEnd(c)
    PROVE  IInv'
<1>. USE DEF ReadEnd
<1>1. Parts[c] \in Nat /\ Chunks[c] \in 0..Chunks[c]
  BY DEF SessionsAssumption
<1>2. PICK g \in 0..Parts[c], n \in 0..(Parts[c] + 1) :
        /\ g + 1 <= n
        /\ got[c] = Window(Download(c), 0, g)
        /\ Tail(downlink[c]) = Window(Download(c), g + 1, n)
        /\ handler[c] = IF n <= Parts[c]
                        THEN [kind |-> "emit", total |-> 0, next |-> n]
                        ELSE NoHandler
        /\ g = Parts[c]
  BY NextItem
<1>3. Tail(downlink[c]) = <<>> /\ handler[c] = NoHandler
  <2>1. ~ (n <= Parts[c]) /\ g + 1 = n /\ n \in Nat
    BY <1>1, <1>2
  <2>. QED
    BY <1>2, <2>1, WindowEmpty
<1>4. Typed'
  <2>1. <<>> \in Seq(Int)
    OBVIOUS
  <2>. QED
    BY <1>3, <2>1 DEF IInv, Typed, Stages
<1>5. /\ Others(c) /\ at'[c] = "closing" /\ outcome'[c] = "done"
      /\ UNCHANGED <<open, written, total, got, uplink, handler>>
      /\ downlink'[c] = <<>>
  BY <1>3 DEF IInv, Typed, Others, Same
<1>6. total[c] = Bytes(c) /\ uplink[c] = <<>> /\ written[c] = Chunks[c]
  <2>1. at[c] = "download"
    OBVIOUS
  <2>. QED
    BY <2>1, DownloadingIs
<1>7. Ended(c)'
  BY <1>1, <1>2, <1>3, <1>5, <1>6 DEF Ended, Quiet
<1>. QED
  BY <1>4, <1>5, <1>7, StepInv DEF SessionInv

\* The connection is closed.
LEMMA CloseInv ==
    ASSUME SessionsAssumption, IInv, NEW c \in Callers, Close(c) PROVE IInv'
<1>. USE DEF Close
<1>1. Typed'
  <2>1. open' \in [Callers -> BOOLEAN]
    BY Zenon DEF IInv, Typed
  <2>2. /\ at' = [at EXCEPT ![c] = "over"]
        /\ UNCHANGED <<outcome, written, total, got, uplink, handler, downlink>>
    OBVIOUS
  <2>. QED
    BY <2>1, <2>2 DEF IInv, Typed, Stages
<1>2. Others(c) /\ at'[c] = "over"
  BY DEF IInv, Typed, Others, Same
<1>3. open'[c] = FALSE
  BY Zenon DEF IInv, Typed
<1>4. Ended(c)
  BY DEF IInv, SessionInv
<1>5. Ended(c)'
  BY <1>4 DEF Ended, Quiet
<1>. QED
  BY <1>1, <1>2, <1>3, <1>5, StepInv DEF SessionInv

\* Whatever a caller has of its answers is a part of them.
LEMMA GotSoFar ==
    ASSUME SessionsAssumption, IInv, NEW c \in Callers
    PROVE  /\ written[c] \in 0..Chunks[c]
           /\ total[c] \in {Unknown, Bytes(c)}
           /\ \E g \in 0..Parts[c] :
                 /\ got[c] = Window(Download(c), 0, g)
                 /\ outcome[c] = "done" => total[c] = Bytes(c) /\ g = Parts[c]
<1>1. /\ Chunks[c] \in Nat /\ 0 \in 0..Chunks[c] /\ Chunks[c] \in 0..Chunks[c]
      /\ 0 \in 0..Parts[c]
      /\ Window(Download(c), 0, 0) = <<>>
  BY UploadIs, DownloadIs, WindowEmpty
<1>2. at[c] \in Stages
  BY DEF IInv, Typed
<1>3. CASE at[c] \in {"idle", "command"}
  BY <1>1, <1>3 DEF IInv, SessionInv, Fresh
<1>4. CASE at[c] \in {"upload", "await"}
  BY <1>1, <1>4, UploadingIs DEF Uploading
<1>5. CASE at[c] = "download"
  BY <1>1, <1>5, DownloadingIs
<1>6. CASE at[c] \in {"closing", "over"}
  BY <1>6 DEF IInv, SessionInv, Ended
<1>. QED
  BY <1>2, <1>3, <1>4, <1>5, <1>6 DEF Stages

\* Nothing of a broken session is left.
LEMMA GoneIs ==
    ASSUME IInv, NEW c \in Callers, SessionGone(c)
    PROVE  /\ uplink' \in [Callers -> Seq(Int)]
           /\ downlink' \in [Callers -> Seq(Int)]
           /\ handler' \in [Callers -> Handler]
           /\ Quiet(c)'
           /\ \A x \in Callers \ {c} :
                 /\ uplink'[x] = uplink[x] /\ downlink'[x] = downlink[x]
                 /\ handler'[x] = handler[x]
<1>1. NoHandler \in Handler /\ <<>> \in Seq(Int)
  BY DEF NoHandler, Handler
<1>2. /\ uplink' = [uplink EXCEPT ![c] = <<>>]
      /\ downlink' = [downlink EXCEPT ![c] = <<>>]
      /\ handler' = [handler EXCEPT ![c] = NoHandler]
  BY DEF SessionGone
<1>. QED
  BY <1>1, <1>2 DEF IInv, Typed, Quiet

\* A broken session ends with what was read of its answers.
LEMMA BreaksInv ==
    ASSUME SessionsAssumption, IInv, NEW c \in Callers, Breaks(c) PROVE IInv'
<1>. USE DEF Breaks
<1>1. Typed'
  BY GoneIs DEF IInv, Typed, Stages
<1>2. Others(c)
  BY GoneIs DEF IInv, Typed, Others, Same
<1>3. /\ at'[c] = "closing" /\ outcome'[c] = "failed"
      /\ UNCHANGED <<open, written, total, got>>
  BY DEF IInv, Typed
<1>4. Ended(c)'
  BY <1>3, GoneIs, GotSoFar DEF Ended
<1>. QED
  BY <1>1, <1>2, <1>3, <1>4, StepInv DEF SessionInv

\* A new start knows nothing of the last one.
LEMMA RestartInv ==
    ASSUME SessionsAssumption, IInv, NEW c \in Callers, Restart(c) PROVE IInv'
<1>. USE DEF Restart
<1>1. Typed'
  <2>1. Unknown \in Int /\ <<>> \in Seq(Int) /\ 0 \in Nat
    BY DEF Unknown
  <2>. QED
    BY <2>1, GoneIs DEF IInv, Typed, Stages
<1>2. Others(c)
  BY GoneIs DEF IInv, Typed, Others, Same
<1>3. /\ at'[c] = "idle" /\ outcome'[c] = "none" /\ written'[c] = 0
      /\ total'[c] = Unknown /\ got'[c] = <<>> /\ open'[c] = open[c]
  BY DEF IInv, Typed
<1>4. Fresh(c)'
  BY <1>3, GoneIs DEF Fresh
<1>5. ~ open'[c]
  BY <1>3 DEF IInv, NoConnectionLeft
<1>. QED
  BY <1>1, <1>2, <1>3, <1>4, <1>5, StepInv DEF SessionInv

\* A handler that counts serves an upload, of which it has counted the first
\* chunks.
LEMMA CountingIs ==
    ASSUME SessionsAssumption, IInv, NEW c \in Callers,
           handler[c].kind = "count"
    PROVE  /\ at[c] \in {"upload", "await"} /\ Uploading(c)
           /\ downlink[c] = <<>>
           /\ \E k \in 0..written[c] :
                 /\ handler[c] = [kind |-> "count", total |-> Offset[c][k],
                                 next |-> 0]
                 /\ uplink[c] = Window(Upload(c), k,
                                       IF at[c] = "await" THEN Chunks[c] + 1
                                                          ELSE written[c])
<1>1. handler[c] # NoHandler
  BY DEF NoHandler
<1>2. at[c] # "download"
  <2>. SUFFICES ASSUME at[c] = "download" PROVE FALSE
    OBVIOUS
  <2>1. PICK n : handler[c] = IF n <= Parts[c]
                              THEN [kind |-> "emit", total |-> 0, next |-> n]
                              ELSE NoHandler
    BY DownloadingIs
  <2>. QED
    BY <1>1, <2>1
<1>3. at[c] \in {"upload", "await"}
  BY <1>1, <1>2 DEF IInv, Typed, Stages, SessionInv, Fresh, Ended, Quiet
<1>4. Uploading(c)
  BY <1>3, UploadingIs
<1>. QED
  BY <1>1, <1>3, <1>4 DEF Uploading

\* A handler that emits serves a download and has sent the parts before next.
LEMMA EmittingIs ==
    ASSUME SessionsAssumption, IInv, NEW c \in Callers,
           handler[c].kind = "emit"
    PROVE  /\ at[c] = "download" /\ outcome[c] = "none"
           /\ total[c] = Bytes(c) /\ uplink[c] = <<>>
           /\ written[c] = Chunks[c]
           /\ handler[c].next \in 0..Parts[c]
           /\ handler[c] = [kind |-> "emit", total |-> 0,
                           next |-> handler[c].next]
           /\ \E g \in 0..Parts[c] :
                 /\ g <= handler[c].next
                 /\ got[c] = Window(Download(c), 0, g)
                 /\ downlink[c] = Window(Download(c), g, handler[c].next)
<1>1. handler[c] # NoHandler
  BY DEF NoHandler
<1>2. at[c] \notin {"upload", "await"}
  <2>. SUFFICES ASSUME at[c] \in {"upload", "await"} PROVE FALSE
    OBVIOUS
  <2>1. CASE handler[c] = NoHandler
    BY <1>1, <2>1
  <2>2. CASE \E k : handler[c] = [kind |-> "count", total |-> Offset[c][k],
                                 next |-> 0]
    BY <2>2
  <2>. QED
    BY <2>1, <2>2, UploadingIs DEF Uploading
<1>3. at[c] = "download"
  BY <1>1, <1>2 DEF IInv, Typed, Stages, SessionInv, Fresh, Ended, Quiet
<1>4. PICK g \in 0..Parts[c], n \in 0..(Parts[c] + 1) :
        /\ g <= n
        /\ got[c] = Window(Download(c), 0, g)
        /\ downlink[c] = Window(Download(c), g, n)
        /\ handler[c] = IF n <= Parts[c]
                        THEN [kind |-> "emit", total |-> 0, next |-> n]
                        ELSE NoHandler
  BY <1>3, DownloadingIs
<1>5. /\ handler[c] = [kind |-> "emit", total |-> 0, next |-> n]
      /\ handler[c].next = n /\ n \in 0..Parts[c]
  <2>1. Parts[c] \in Nat
    BY DownloadIs
  <2>. QED
    BY <1>1, <1>4, <2>1
<1>. QED
  BY <1>3, <1>4, <1>5, DownloadingIs
\* The next item it reads: a chunk while there are any, then the end.
LEMMA NextChunk ==
    ASSUME SessionsAssumption, IInv, NEW c \in Callers,
           handler[c].kind = "count", uplink[c] # <<>>
    PROVE  \E k \in 0..written[c], last \in 0..Len(Upload(c)) :
              /\ last = IF at[c] = "await" THEN Chunks[c] + 1 ELSE written[c]
              /\ k + 1 <= last
              /\ handler[c] = [kind |-> "count", total |-> Offset[c][k],
                              next |-> 0]
              /\ Tail(uplink[c]) = Window(Upload(c), k + 1, last)
              /\ Head(uplink[c]) = IF k < Chunks[c] THEN Size(c, k + 1) ELSE End
              /\ (Head(uplink[c]) = End) <=> (k = Chunks[c])
<1>1. /\ Upload(c) \in Seq(Int) /\ Len(Upload(c)) = Chunks[c] + 1
      /\ Chunks[c] \in Nat /\ Upload(c)[Chunks[c] + 1] = End
      /\ \A i \in 1..Chunks[c] : Upload(c)[i] = Size(c, i) /\ Size(c, i) \in Nat
  BY UploadIs
<1>2. PICK k \in 0..written[c] :
        /\ handler[c] = [kind |-> "count", total |-> Offset[c][k], next |-> 0]
        /\ uplink[c] = Window(Upload(c), k,
                              IF at[c] = "await" THEN Chunks[c] + 1
                                                 ELSE written[c])
  BY CountingIs
<1>3. /\ written[c] \in 0..Chunks[c]
      /\ at[c] = "await" => written[c] = Chunks[c]
  BY CountingIs DEF Uploading
<1>4. PICK last \in k..Len(Upload(c)) :
        /\ last = IF at[c] = "await" THEN Chunks[c] + 1 ELSE written[c]
        /\ uplink[c] = Window(Upload(c), k, last)
  BY <1>1, <1>2, <1>3
<1>5. k + 1 <= last /\ last \in 0..Len(Upload(c))
  BY <1>1, <1>4, WindowEmpty
<1>6. /\ Head(uplink[c]) = Upload(c)[k + 1]
      /\ Tail(uplink[c]) = Window(Upload(c), k + 1, last)
  <2>1. k \in 0..Len(Upload(c)) /\ last \in (k + 1)..Len(Upload(c))
    BY <1>1, <1>4, <1>5
  <2>2. Upload(c) \in Seq(Int)
    BY <1>1
  <2>. QED
    BY <1>4, <2>1, <2>2, WindowShrinks
<1>7. /\ Upload(c)[k + 1] = IF k < Chunks[c] THEN Size(c, k + 1) ELSE End
      /\ (Upload(c)[k + 1] = End) <=> (k = Chunks[c])
  <2>1. CASE k < Chunks[c]
    <3>1. k + 1 \in 1..Chunks[c]
      BY <1>1, <2>1
    <3>2. Upload(c)[k + 1] = Size(c, k + 1) /\ Size(c, k + 1) \in Nat
      BY <1>1, <3>1
    <3>. QED
      BY <1>1, <2>1, <3>2 DEF End
  <2>2. CASE k = Chunks[c]
    BY <1>1, <2>2
  <2>. QED
    BY <1>1, <1>3, <2>1, <2>2
<1>. QED
  BY <1>2, <1>4, <1>5, <1>6, <1>7

\* The next chunk is counted, for the caller that sent it.
LEMMA CountInv ==
    ASSUME SessionsAssumption, IInv, NEW c \in Callers, Count(c) PROVE IInv'
<1>. USE DEF Count
<1>1. /\ Upload(c) \in Seq(Int) /\ Len(Upload(c)) = Chunks[c] + 1
      /\ Chunks[c] \in Nat
      /\ \A i \in 1..Chunks[c] :
            /\ Size(c, i) \in Nat /\ Offset[c][i - 1] \in Nat
            /\ Offset[c][i] = Offset[c][i - 1] + Size(c, i)
  BY UploadIs
<1>2. /\ at[c] \in {"upload", "await"} /\ downlink[c] = <<>>
      /\ Uploading(c)
  BY CountingIs
<1>3. /\ written[c] \in 0..Chunks[c]
      /\ at[c] = "await" => written[c] = Chunks[c]
  BY <1>2 DEF Uploading
<1>4. PICK k \in 0..written[c], last \in 0..Len(Upload(c)) :
        /\ last = IF at[c] = "await" THEN Chunks[c] + 1 ELSE written[c]
        /\ k + 1 <= last
        /\ handler[c] = [kind |-> "count", total |-> Offset[c][k], next |-> 0]
        /\ Tail(uplink[c]) = Window(Upload(c), k + 1, last)
        /\ Head(uplink[c]) = IF k < Chunks[c] THEN Size(c, k + 1) ELSE End
        /\ k # Chunks[c]
  BY NextChunk
<1>5. k + 1 \in 1..Chunks[c] /\ k + 1 \in 0..written[c]
  BY <1>1, <1>3, <1>4
<1>6. /\ Head(uplink[c]) = Size(c, k + 1) /\ Size(c, k + 1) \in Nat
      /\ Offset[c][k] \in Nat
      /\ Offset[c][k + 1] = Offset[c][k] + Size(c, k + 1)
  <2>1. k < Chunks[c] /\ k + 1 - 1 = k
    BY <1>1, <1>5
  <2>. QED
    BY <1>1, <1>4, <1>5, <2>1
<1>7. handler' = [handler EXCEPT ![c] = [kind |-> "count",
                                         total |-> Offset[c][k + 1],
                                         next |-> 0]]
  <2>1. handler[c].total = Offset[c][k]
    BY <1>4
  <2>2. handler' = [handler EXCEPT ![c] =
                       [handler[c] EXCEPT !.total = Offset[c][k + 1]]]
    BY <1>6, <2>1 DEF IInv, Typed
  <2>3. [handler[c] EXCEPT !.total = Offset[c][k + 1]]
        = [kind |-> "count", total |-> Offset[c][k + 1], next |-> 0]
    BY <1>4
  <2>. QED
    BY <2>2, <2>3
<1>8. Typed'
  <2>1. Window(Upload(c), k + 1, last) \in Seq(Int)
    <3>1. k + 1 \in 0..Len(Upload(c)) /\ last \in (k + 1)..Len(Upload(c))
      BY <1>1, <1>4, <1>5
    <3>. QED
      BY <1>1, <3>1, WindowIs
  <2>2. [kind |-> "count", total |-> Offset[c][k + 1], next |-> 0] \in Handler
    BY <1>6 DEF Handler
  <2>3. uplink' \in [Callers -> Seq(Int)]
    BY <1>4, <2>1 DEF IInv, Typed
  <2>4. handler' \in [Callers -> Handler]
    BY <1>7, <2>2 DEF IInv, Typed
  <2>. QED
    BY <2>3, <2>4 DEF IInv, Typed, callerVars
<1>9. /\ Others(c)
      /\ handler'[c] = [kind |-> "count", total |-> Offset[c][k + 1],
                        next |-> 0]
      /\ uplink'[c] = Window(Upload(c), k + 1, last)
  BY <1>4, <1>7 DEF IInv, Typed, Others, Same, callerVars
<1>10. UNCHANGED <<at, outcome, open, written, total, got, downlink>>
  BY DEF callerVars
<1>11. Uploading(c)'
  BY <1>2, <1>4, <1>5, <1>9, <1>10 DEF Uploading
<1>12. open'[c] => at'[c] \notin {"idle", "over"}
  BY <1>2, <1>10
<1>. QED
  BY <1>2, <1>8, <1>9, <1>10, <1>11, <1>12, StepInv DEF SessionInv

\* At the end of the upload the count is the size of all its chunks.
LEMMA ReturnTotalInv ==
    ASSUME SessionsAssumption, IInv, NEW c \in Callers, ReturnTotal(c)
    PROVE  IInv'
<1>. USE DEF ReturnTotal
<1>1. Chunks[c] \in Nat /\ Bytes(c) \in Nat
  BY UploadIs
<1>2. /\ downlink[c] = <<>> /\ Uploading(c)
      /\ at[c] # "await" => at[c] = "upload"
  BY CountingIs
<1>3. PICK k \in 0..written[c], last \in 0..Len(Upload(c)) :
        /\ last = IF at[c] = "await" THEN Chunks[c] + 1 ELSE written[c]
        /\ k + 1 <= last
        /\ handler[c] = [kind |-> "count", total |-> Offset[c][k], next |-> 0]
        /\ Tail(uplink[c]) = Window(Upload(c), k + 1, last)
        /\ k = Chunks[c]
  BY NextChunk
<1>4. at[c] = "await" /\ last = k + 1 /\ k + 1 \in Nat
  <2>1. written[c] \in 0..Chunks[c]
    BY <1>2 DEF Uploading
  <2>. QED
    BY <1>1, <1>3, <2>1
<1>5. Tail(uplink[c]) = <<>> /\ handler[c].total = Bytes(c)
  <2>1. Window(Upload(c), k + 1, k + 1) = <<>>
    BY <1>4, WindowEmpty
  <2>2. handler[c].total = Offset[c][k]
    BY <1>3
  <2>. QED
    BY <1>3, <1>4, <2>1, <2>2 DEF Bytes
<1>6. Append(downlink[c], handler[c].total) = <<Bytes(c)>>
  BY <1>1, <1>2, <1>5
<1>7. Typed'
  <2>1. NoHandler \in Handler
    BY DEF NoHandler, Handler
  <2>2. <<>> \in Seq(Int) /\ <<Bytes(c)>> \in Seq(Int)
    BY <1>1
  <2>. QED
    BY <1>5, <1>6, <2>1, <2>2 DEF IInv, Typed, callerVars
<1>8. /\ Others(c) /\ handler'[c] = NoHandler
      /\ uplink'[c] = <<>> /\ downlink'[c] = <<Bytes(c)>>
  BY <1>5, <1>6 DEF IInv, Typed, Others, Same, callerVars
<1>9. UNCHANGED <<at, outcome, open, written, total, got>>
  BY DEF callerVars
<1>10. Uploading(c)'
  BY <1>2, <1>4, <1>8, <1>9 DEF Uploading
<1>. QED
  BY <1>4, <1>7, <1>8, <1>9, <1>10, StepInv DEF SessionInv

\* The next part is sent.
LEMMA EmitInv ==
    ASSUME SessionsAssumption, IInv, NEW c \in Callers, Emit(c) PROVE IInv'
<1>. USE DEF Emit
<1>1. /\ Download(c) \in Seq(Int) /\ Len(Download(c)) = Parts[c] + 1
      /\ Parts[c] \in Nat
      /\ \A i \in 0..(Parts[c] - 1) : Download(c)[i + 1] = i
  BY DownloadIs
<1>2. PICK n : n = handler[c].next
  OBVIOUS
<1>3. /\ at[c] = "download" /\ outcome[c] = "none"
      /\ total[c] = Bytes(c) /\ uplink[c] = <<>> /\ written[c] = Chunks[c]
      /\ n \in 0..Parts[c]
      /\ handler[c] = [kind |-> "emit", total |-> 0, next |-> n]
  BY <1>2, EmittingIs
<1>4. PICK g \in 0..Parts[c] :
        /\ g <= n
        /\ got[c] = Window(Download(c), 0, g)
        /\ downlink[c] = Window(Download(c), g, n)
  BY <1>2, EmittingIs
<1>5. n < Parts[c]
  BY <1>2
<1>6. Download(c)[n + 1] = n
  <2>1. n \in 0..(Parts[c] - 1)
    BY <1>1, <1>3, <1>5
  <2>. QED
    BY <1>1, <2>1
<1>7. /\ Append(downlink[c], n) = Window(Download(c), g, n + 1)
      /\ Window(Download(c), g, n + 1) \in Seq(Int)
  <2>1. /\ g \in 0..Len(Download(c)) /\ n \in g..(Len(Download(c)) - 1)
        /\ n + 1 \in g..Len(Download(c))
    BY <1>1, <1>3, <1>4
  <2>2. Append(Window(Download(c), g, n), Download(c)[n + 1])
        = Window(Download(c), g, n + 1)
    BY <1>1, <2>1, WindowGrows
  <2>3. Window(Download(c), g, n + 1) \in Seq(Int)
    BY <1>1, <2>1, WindowIs
  <2>. QED
    BY <1>4, <1>6, <2>2, <2>3
<1>8. handler' = [handler EXCEPT ![c] = [kind |-> "emit", total |-> 0,
                                        next |-> n + 1]]
  <2>1. handler' = [handler EXCEPT ![c] =
                       [handler[c] EXCEPT !.next = n + 1]]
    BY <1>2 DEF IInv, Typed
  <2>2. [handler[c] EXCEPT !.next = n + 1]
        = [kind |-> "emit", total |-> 0, next |-> n + 1]
    BY <1>3
  <2>. QED
    BY <2>1, <2>2
<1>9. n + 1 \in Nat /\ n + 1 \in 0..(Parts[c] + 1) /\ n + 1 <= Parts[c]
      /\ g <= n + 1
  BY <1>1, <1>3, <1>4, <1>5
<1>10. Typed'
  <2>1. [kind |-> "emit", total |-> 0, next |-> n + 1] \in Handler
    BY <1>9 DEF Handler
  <2>2. handler' \in [Callers -> Handler]
    BY <1>8, <2>1 DEF IInv, Typed
  <2>3. downlink' \in [Callers -> Seq(Int)]
    BY <1>2, <1>7 DEF IInv, Typed
  <2>. QED
    BY <2>2, <2>3 DEF IInv, Typed, callerVars
<1>11. /\ Others(c)
       /\ handler'[c] = [kind |-> "emit", total |-> 0, next |-> n + 1]
       /\ downlink'[c] = Window(Download(c), g, n + 1)
  BY <1>2, <1>7, <1>8 DEF IInv, Typed, Others, Same, callerVars
<1>12. UNCHANGED <<at, outcome, open, written, total, got, uplink>>
  BY DEF callerVars
<1>13. Downloading(c)'
  BY <1>3, <1>4, <1>9, <1>11, <1>12 DEF Downloading
<1>. QED
  BY <1>3, <1>10, <1>11, <1>12, <1>13, StepInv DEF SessionInv

\* After the last part the end is sent.
LEMMA ReturnFromDownloadInv ==
    ASSUME SessionsAssumption, IInv, NEW c \in Callers, ReturnFromDownload(c)
    PROVE  IInv'
<1>. USE DEF ReturnFromDownload
<1>1. /\ Download(c) \in Seq(Int) /\ Len(Download(c)) = Parts[c] + 1
      /\ Parts[c] \in Nat /\ Download(c)[Parts[c] + 1] = End
  BY DownloadIs
<1>2. /\ at[c] = "download" /\ outcome[c] = "none"
      /\ total[c] = Bytes(c) /\ uplink[c] = <<>> /\ written[c] = Chunks[c]
  BY EmittingIs
<1>3. PICK g \in 0..Parts[c] :
        /\ got[c] = Window(Download(c), 0, g)
        /\ downlink[c] = Window(Download(c), g, Parts[c])
  BY EmittingIs
<1>4. /\ Append(downlink[c], End) = Window(Download(c), g, Parts[c] + 1)
      /\ Window(Download(c), g, Parts[c] + 1) \in Seq(Int)
  <2>1. /\ g \in 0..Len(Download(c))
        /\ Parts[c] \in g..(Len(Download(c)) - 1)
        /\ Parts[c] + 1 \in g..Len(Download(c))
    BY <1>1
  <2>. QED
    BY <1>1, <1>3, <2>1, WindowGrows, WindowIs
<1>5. Typed'
  <2>1. NoHandler \in Handler
    BY DEF NoHandler, Handler
  <2>. QED
    BY <1>4, <2>1 DEF IInv, Typed, callerVars
<1>6. /\ Others(c) /\ handler'[c] = NoHandler
      /\ downlink'[c] = Window(Download(c), g, Parts[c] + 1)
  BY <1>4 DEF IInv, Typed, Others, Same, callerVars
<1>7. UNCHANGED <<at, outcome, open, written, total, got, uplink>>
  BY DEF callerVars
<1>8. /\ Parts[c] + 1 \in 0..(Parts[c] + 1) /\ ~ (Parts[c] + 1 <= Parts[c])
      /\ g <= Parts[c] + 1
  BY <1>1
<1>9. Downloading(c)'
  BY <1>2, <1>3, <1>6, <1>7, <1>8 DEF Downloading
<1>. QED
  BY <1>2, <1>5, <1>6, <1>7, <1>9, StepInv DEF SessionInv

\* Steps of nobody.
LEMMA UnchangedInv == ASSUME IInv, UNCHANGED vars PROVE IInv'
<1>1. \A c \in Callers : Same(c)
  BY DEF vars, callerVars, Same
<1>2. \A c \in Callers : SessionInv(c)'
  BY <1>1, Frame DEF IInv
<1>. QED
  BY <1>2 DEF IInv, Typed, NoConnectionLeft, vars, callerVars

\* The invariant is inductive.
LEMMA NextInv ==
    ASSUME SessionsAssumption, IInv, [Next]_vars PROVE IInv'
<1>1. CASE UNCHANGED vars
  BY <1>1, UnchangedInv
<1>2. ASSUME NEW c \in Callers, CallerStep(c) PROVE IInv'
  BY <1>2, BeginInv, NotBegunInv, CommandInv, WriteInv, FinishInv,
     ReadTotalInv, ReadPartInv, ReadEndInv, CloseInv DEF CallerStep
<1>3. ASSUME NEW c \in Callers, HandlerStep(c) PROVE IInv'
  BY <1>3, CountInv, ReturnTotalInv, EmitInv, ReturnFromDownloadInv
  DEF HandlerStep
<1>4. ASSUME NEW c \in Callers, Breaks(c) \/ Restart(c) PROVE IInv'
  BY <1>4, BreaksInv, RestartInv
<1>. QED
  BY <1>1, <1>2, <1>3, <1>4 DEF Next

\* At every moment, each session is in one of the states that SessionInv
\* describes.
THEOREM Invariance == Spec => []IInv
<1>1. Init => IInv
  BY InitInv, SessionsAssumption
<1>2. IInv /\ [Next]_vars => IInv'
  BY NextInv, SessionsAssumption
<1>. QED
  BY <1>1, <1>2, PTL DEF Spec
-----------------------------------------------------------------------------
\* What the streams contain.

UpItems(c) == 0..Bytes(c) \cup {End}
DownItems(c) == 0..(Bytes(c) + Parts[c]) \cup {End}

\* The items of a window are items of the stream.
LEMMA WindowIn ==
    ASSUME NEW S, NEW s \in Seq(Int), NEW a \in 0..Len(s), NEW b \in a..Len(s),
           \A i \in (a + 1)..b : s[i] \in S
    PROVE  Window(s, a, b) \in Seq(S)
<1>1. a + 1 \in Int /\ b \in Int
  BY LenProperties
<1>. QED
  BY <1>1, SubSeqProperties DEF Window

\* What is on its way up is a size or the end.
LEMMA UploadIn ==
    ASSUME SessionsAssumption, NEW c \in Callers, NEW a \in 0..Len(Upload(c)),
           NEW b \in a..Len(Upload(c))
    PROVE  Window(Upload(c), a, b) \in Seq(UpItems(c))
<1>1. /\ Upload(c) \in Seq(Int) /\ Len(Upload(c)) = Chunks[c] + 1
      /\ Chunks[c] \in Nat /\ Bytes(c) \in Nat
      /\ \A i \in 1..Chunks[c] :
            /\ Upload(c)[i] = Size(c, i) /\ Size(c, i) \in Nat
            /\ Offset[c][i - 1] \in Nat
            /\ Offset[c][i] = Offset[c][i - 1] + Size(c, i)
            /\ Offset[c][i] <= Bytes(c)
      /\ Upload(c)[Chunks[c] + 1] = End
  BY UploadIs
<1>2. ASSUME NEW i \in 1..(Chunks[c] + 1)
      PROVE  Upload(c)[i] \in UpItems(c)
  <2>1. CASE i = Chunks[c] + 1
    BY <1>1, <2>1 DEF UpItems
  <2>2. CASE i \in 1..Chunks[c]
    <3>1. /\ Upload(c)[i] = Size(c, i) /\ Size(c, i) \in Nat
          /\ Offset[c][i - 1] \in Nat
          /\ Offset[c][i] = Offset[c][i - 1] + Size(c, i)
          /\ Offset[c][i] <= Bytes(c)
      BY <1>1, <2>2
    <3>2. Size(c, i) <= Bytes(c)
      BY <1>1, <3>1
    <3>. QED
      BY <1>1, <3>1, <3>2 DEF UpItems
  <2>. QED
    BY <1>1, <2>1, <2>2
<1>3. \A i \in (a + 1)..b : i \in 1..(Chunks[c] + 1)
  BY <1>1
<1>. QED
  BY <1>1, <1>2, <1>3, WindowIn

\* What is on its way down is a part's number or the end.
LEMMA DownloadIn ==
    ASSUME SessionsAssumption, NEW c \in Callers,
           NEW a \in 0..Len(Download(c)), NEW b \in a..Len(Download(c))
    PROVE  Window(Download(c), a, b) \in Seq(DownItems(c))
<1>1. /\ Download(c) \in Seq(Int) /\ Len(Download(c)) = Parts[c] + 1
      /\ Parts[c] \in Nat /\ Bytes(c) \in Nat
      /\ \A i \in 0..(Parts[c] - 1) : Download(c)[i + 1] = i
      /\ Download(c)[Parts[c] + 1] = End
  BY DownloadIs, UploadIs
<1>2. ASSUME NEW i \in 1..(Parts[c] + 1)
      PROVE  Download(c)[i] \in DownItems(c)
  <2>1. CASE i = Parts[c] + 1
    BY <1>1, <2>1 DEF DownItems
  <2>2. CASE i \in 1..Parts[c]
    <3>1. i - 1 \in 0..(Parts[c] - 1) /\ (i - 1) + 1 = i
      BY <1>1, <2>2
    <3>2. Download(c)[i] = i - 1
      BY <1>1, <3>1
    <3>. QED
      BY <1>1, <3>1, <3>2 DEF DownItems
  <2>. QED
    BY <1>1, <2>1, <2>2
<1>3. \A i \in (a + 1)..b : i \in 1..(Parts[c] + 1)
  BY <1>1
<1>. QED
  BY <1>1, <1>2, <1>3, WindowIn

\* What was read of a download is a prefix of its parts, and all of them when
\* its length says so.
LEMMA GotIs ==
    ASSUME SessionsAssumption, NEW c \in Callers, NEW g \in 0..Parts[c]
    PROVE  /\ Window(Download(c), 0, g) \in Seq(0..(Parts[c] - 1))
           /\ Len(Window(Download(c), 0, g)) = g
           /\ IsPrefix(Window(Download(c), 0, g), PartsOf(c))
           /\ g = Parts[c] => Window(Download(c), 0, g) = PartsOf(c)
<1>1. /\ Download(c) \in Seq(Int) /\ Len(Download(c)) = Parts[c] + 1
      /\ Parts[c] \in Nat
      /\ \A i \in 0..(Parts[c] - 1) : Download(c)[i + 1] = i
  BY DownloadIs
<1>2. \A i \in 1..Parts[c] : i - 1 \in 0..(Parts[c] - 1) /\ (i - 1) + 1 = i
  BY <1>1
<1>3. \A i \in 1..Parts[c] : Download(c)[i] = i - 1
  BY <1>1, <1>2
<1>4. PartsOf(c) \in Seq(Int) /\ Len(PartsOf(c)) = Parts[c]
  <2>1. PartsOf(c) \in [1..Parts[c] -> Int]
    BY <1>1 DEF PartsOf
  <2>. QED
    BY <1>1, <2>1, FunctionIsSeq
<1>5. \A i \in 1..Parts[c] : PartsOf(c)[i] = i - 1
  BY <1>1 DEF PartsOf
<1>6. 0 \in 0..Len(Download(c)) /\ g \in 0..Len(Download(c)) /\ g \in Nat
  BY <1>1
<1>7. PICK w \in Seq(Int) :
        /\ w = Window(Download(c), 0, g) /\ Len(w) = g
        /\ \A i \in 1..g : w[i] = i - 1
  <2>1. /\ Window(Download(c), 0, g) \in Seq(Int)
        /\ Len(Window(Download(c), 0, g)) = g - 0
        /\ \A i \in 1..(g - 0) : Window(Download(c), 0, g)[i]
                                 = Download(c)[0 + i]
    BY <1>1, <1>6, WindowIs
  <2>2. \A i \in 1..g : i \in 1..Parts[c] /\ 0 + i = i
    BY <1>1
  <2>3. g - 0 = g
    BY <1>6
  <2>4. \A i \in 1..g : Window(Download(c), 0, g)[i] = i - 1
    BY <1>3, <2>1, <2>2, <2>3
  <2>. QED
    BY <2>1, <2>3, <2>4
<1>8. w \in Seq(0..(Parts[c] - 1))
  <2>1. \A i \in (0 + 1)..g : i \in 1..Parts[c]
    BY <1>1, <1>6
  <2>2. \A i \in 1..Parts[c] : Download(c)[i] \in 0..(Parts[c] - 1)
    BY <1>2, <1>3
  <2>3. \A i \in (0 + 1)..g : Download(c)[i] \in 0..(Parts[c] - 1)
    BY <2>1, <2>2
  <2>. QED
    BY <1>1, <1>6, <1>7, <2>3, WindowIn
<1>9. Window(PartsOf(c), 0, g) = w
  <2>1. 0 \in 0..Len(PartsOf(c)) /\ g \in 0..Len(PartsOf(c))
    BY <1>1, <1>4
  <2>2. /\ Window(PartsOf(c), 0, g) \in Seq(Int)
        /\ Len(Window(PartsOf(c), 0, g)) = g - 0
        /\ \A i \in 1..(g - 0) : Window(PartsOf(c), 0, g)[i] = PartsOf(c)[0 + i]
    BY <1>4, <2>1, WindowIs
  <2>3. \A i \in 1..g : i \in 1..Parts[c] /\ 0 + i = i
    BY <1>1
  <2>4. g - 0 = g
    BY <1>6
  <2>5. \A i \in 1..g : Window(PartsOf(c), 0, g)[i] = w[i]
    BY <1>5, <1>7, <2>2, <2>3, <2>4
  <2>. QED
    BY <1>7, <2>2, <2>4, <2>5, SeqEqual
<1>10. SubSeq(w, 1, Len(w)) = w
  BY <1>7, SubSeqFull
<1>11. SubSeq(PartsOf(c), 1, Len(w)) = w
  BY <1>7, <1>9 DEF Window
<1>12. IsPrefix(w, PartsOf(c))
  BY <1>1, <1>4, <1>7, <1>10, <1>11 DEF IsPrefix
<1>13. g = Parts[c] => w = PartsOf(c)
  BY <1>4, <1>11, <1>7, SubSeqFull
<1>. QED
  BY <1>7, <1>8, <1>12, <1>13

-----------------------------------------------------------------------------
\* Nobody is given another's answer or a broken one.
LEMMA OwnAnswersHold == ASSUME SessionsAssumption, IInv PROVE OwnAnswers
<1>. SUFFICES ASSUME NEW c \in Callers
              PROVE  /\ total[c] # Unknown => total[c] = Bytes(c)
                     /\ IsPrefix(got[c], PartsOf(c))
                     /\ outcome[c] = "done"
                           => total[c] # Unknown /\ got[c] = PartsOf(c)
  BY DEF OwnAnswers
<1>1. total[c] \in {Unknown, Bytes(c)} /\ Bytes(c) # Unknown
  BY GotSoFar, UploadIs DEF Unknown
<1>2. PICK g \in 0..Parts[c] :
        /\ got[c] = Window(Download(c), 0, g)
        /\ outcome[c] = "done" => total[c] = Bytes(c) /\ g = Parts[c]
  BY GotSoFar
<1>. QED
  BY <1>1, <1>2, GotIs

\* However sessions overlap, break or are begun again, each caller is told the
\* size of its own upload, gets its own parts in order, and takes only a
\* complete answer for one.
THEOREM Own == Spec => []OwnAnswers
BY Invariance, OwnAnswersHold, SessionsAssumption, PTL

\* A demo that is over has closed its connection.
THEOREM Closed == Spec => []NoConnectionLeft
<1>1. IInv => NoConnectionLeft
  BY DEF IInv
<1>. QED
  BY <1>1, Invariance, PTL

\* The states of a handler.
LEMMA HandlerIs ==
    ASSUME SessionsAssumption, NEW c \in Callers,
           NEW k \in 0..Chunks[c], NEW n \in 0..Parts[c]
    PROVE  LET Bounded == [kind : {"none", "count", "emit"},
                           total : 0..Bytes(c), next : 0..Parts[c]]
           IN  /\ NoHandler \in Bounded
               /\ [kind |-> "count", total |-> Offset[c][k], next |-> 0]
                     \in Bounded
               /\ [kind |-> "emit", total |-> 0, next |-> n] \in Bounded
<1>1. Chunks[c] \in Nat /\ Bytes(c) \in Nat /\ Parts[c] \in Nat
  BY UploadIs, DownloadIs
<1>2. Chunks[c] \in 0..Chunks[c] /\ k <= Chunks[c]
  BY <1>1
<1>3. Offset[c][k] \in 0..Bytes(c)
  <2>1. Offset[c][k] \in Nat /\ Offset[c][k] <= Bytes(c)
    BY <1>2 DEF SessionsAssumption, Bytes
  <2>. QED
    BY <1>1, <2>1
<1>. QED
  BY <1>1, <1>3 DEF NoHandler

\* The streams of a session and its handler, wherever the session is.
LEMMA SessionTyped ==
    ASSUME SessionsAssumption, IInv, NEW c \in Callers
    PROVE  /\ uplink[c] \in Seq(UpItems(c)) /\ downlink[c] \in Seq(DownItems(c))
           /\ handler[c] \in [kind : {"none", "count", "emit"},
                              total : 0..Bytes(c), next : 0..Parts[c]]
<1>1. /\ Chunks[c] \in Nat /\ Bytes(c) \in Nat /\ Parts[c] \in Nat
      /\ Len(Upload(c)) = Chunks[c] + 1 /\ Len(Download(c)) = Parts[c] + 1
  BY UploadIs, DownloadIs
<1>2. 0 \in 0..Chunks[c] /\ 0 \in 0..Parts[c]
  BY <1>1
<1>3. written[c] \in 0..Chunks[c]
  BY GotSoFar
<1>4. CASE Quiet(c)
  BY <1>2, <1>4, HandlerIs DEF Quiet
<1>5. CASE at[c] \in {"upload", "await"}
  <2>1. Uploading(c)
    BY <1>5, UploadingIs
  <2>2. CASE handler[c] = NoHandler /\ uplink[c] = <<>>
             /\ downlink[c] = <<Bytes(c)>>
    <3>1. Bytes(c) \in DownItems(c)
      BY <1>1 DEF DownItems
    <3>. QED
      BY <1>2, <2>2, <3>1, HandlerIs
  <2>3. CASE /\ downlink[c] = <<>>
             /\ \E k \in 0..written[c] :
                   /\ handler[c] = [kind |-> "count", total |-> Offset[c][k],
                                   next |-> 0]
                   /\ uplink[c] = Window(Upload(c), k,
                                         IF at[c] = "await" THEN Chunks[c] + 1
                                                            ELSE written[c])
    <3>1. PICK k \in 0..written[c] :
            /\ handler[c] = [kind |-> "count", total |-> Offset[c][k],
                            next |-> 0]
            /\ uplink[c] = Window(Upload(c), k,
                                  IF at[c] = "await" THEN Chunks[c] + 1
                                                     ELSE written[c])
      BY <2>3
    <3>2. PICK last \in k..Len(Upload(c)) :
            uplink[c] = Window(Upload(c), k, last)
      <4>1. at[c] = "await" => written[c] = Chunks[c]
        BY <2>1 DEF Uploading
      <4>. QED
        BY <1>1, <1>3, <3>1, <4>1
    <3>3. k \in 0..Len(Upload(c)) /\ k \in 0..Chunks[c]
      BY <1>1, <1>3
    <3>4. uplink[c] \in Seq(UpItems(c))
      BY <3>2, <3>3, UploadIn
    <3>. QED
      BY <1>2, <2>3, <3>1, <3>3, <3>4, HandlerIs
  <2>. QED
    BY <2>1, <2>2, <2>3 DEF Uploading
<1>6. CASE at[c] = "download"
  <2>1. PICK g \in 0..Parts[c], n \in 0..(Parts[c] + 1) :
          /\ g <= n
          /\ downlink[c] = Window(Download(c), g, n)
          /\ handler[c] = IF n <= Parts[c]
                          THEN [kind |-> "emit", total |-> 0, next |-> n]
                          ELSE NoHandler
    BY <1>6, DownloadingIs
  <2>2. g \in 0..Len(Download(c)) /\ n \in g..Len(Download(c))
    BY <1>1, <2>1
  <2>3. downlink[c] \in Seq(DownItems(c))
    BY <2>1, <2>2, DownloadIn
  <2>4. handler[c] = NoHandler
        \/ \E m \in 0..Parts[c] :
              handler[c] = [kind |-> "emit", total |-> 0, next |-> m]
    BY <1>1, <2>1
  <2>5. handler[c] \in [kind : {"none", "count", "emit"},
                        total : 0..Bytes(c), next : 0..Parts[c]]
    BY <1>2, <2>4, HandlerIs
  <2>6. uplink[c] = <<>>
    BY <1>6, DownloadingIs
  <2>. QED
    BY <2>3, <2>5, <2>6
<1>7. at[c] \in Stages
  BY DEF IInv, Typed
<1>8. at[c] \in {"idle", "command", "closing", "over"} => Quiet(c)
  BY DEF IInv, SessionInv, Fresh, Ended
<1>. QED
  BY <1>4, <1>5, <1>6, <1>7, <1>8 DEF Stages

\* The type invariant follows.
LEMMA TypeHolds == ASSUME SessionsAssumption, IInv PROVE TypeOK
<1>1. /\ at \in [Callers -> Stages]
      /\ outcome \in [Callers -> {"none", "done", "failed"}]
      /\ open \in [Callers -> BOOLEAN]
  BY DEF IInv, Typed
<1>2. ASSUME NEW c \in Callers
      PROVE  /\ written[c] \in 0..Chunks[c]
             /\ total[c] \in 0..Bytes(c) \cup {Unknown}
             /\ got[c] \in Seq(0..(Parts[c] - 1))
  <2>1. /\ written[c] \in 0..Chunks[c]
        /\ total[c] \in {Unknown, Bytes(c)} /\ Bytes(c) \in Nat
    BY GotSoFar, UploadIs
  <2>2. got[c] \in Seq(0..(Parts[c] - 1))
    BY GotSoFar, GotIs
  <2>. QED
    BY <2>1, <2>2
<1>3. ASSUME NEW c \in Callers
      PROVE  /\ uplink[c] \in Seq(0..Bytes(c) \cup {End})
             /\ downlink[c] \in Seq(0..(Bytes(c) + Parts[c]) \cup {End})
             /\ handler[c] \in [kind : {"none", "count", "emit"},
                                total : 0..Bytes(c), next : 0..Parts[c]]
  BY SessionTyped, Zenon DEF UpItems, DownItems
<1>. QED
  BY <1>1, <1>2, <1>3, Zenon DEF TypeOK

\* No count ever exceeds the bytes of the caller it is for, and nothing is
\* sent that was not asked for.
THEOREM TypeCorrect == Spec => []TypeOK
BY Invariance, TypeHolds, SessionsAssumption, PTL

-----------------------------------------------------------------------------
\* The sessions implement the calls of DemoCalls.

\* A step is one of the calls' steps, or one that the calls do not show.
LEMMA StepRefines ==
    ASSUME SessionsAssumption, IInv, [Next]_vars
    PROVE  [Calls!Next]_(Calls!vars)
<1>. DEFINE Hidden == UNCHANGED <<outcome, total, got>>
<1>1. Hidden => UNCHANGED Calls!vars
  BY DEF Calls!vars
<1>2. UNCHANGED vars => Hidden
  BY DEF vars, callerVars
<1>3. ASSUME NEW c \in Callers,
             \/ StartManaged(c) \/ Connect(c) \/ Skip(c) \/ Command(c)
             \/ Write(c) \/ Finish(c) \/ Close(c) \/ HandlerStep(c)
      PROVE  Hidden
  BY <1>3 DEF StartManaged, Connect, Skip, Command, Write, Finish, Close,
              HandlerStep, Count, ReturnTotal, Emit, ReturnFromDownload,
              callerVars
<1>4. ASSUME NEW c \in Callers, ConnectFails(c) \/ Breaks(c)
      PROVE  Calls!Fail(c)
  <2>1. at[c] \in {"idle", "command", "upload", "await", "download"}
    BY <1>4 DEF ConnectFails, Breaks
  <2>2. outcome[c] = "none"
    BY <2>1, UploadingIs, DownloadingIs
    DEF IInv, SessionInv, Fresh, Uploading
  <2>. QED
    BY <1>4, <2>2 DEF ConnectFails, Breaks, Calls!Fail, Calls!Running
<1>5. ASSUME NEW c \in Callers, ReadTotal(c) PROVE Calls!Answer(c)
  <2>1. /\ downlink[c] = <<Bytes(c)>> /\ outcome[c] = "none"
        /\ total[c] = Unknown
    BY <1>5, AnswerIsTotal DEF ReadTotal
  <2>2. Head(downlink[c]) = Bytes(c)
    BY <2>1
  <2>. QED
    BY <1>5, <2>1, <2>2
    DEF ReadTotal, Calls!Answer, Calls!Running, Calls!Unknown, Unknown
<1>6. ASSUME NEW c \in Callers, at[c] = "download"
      PROVE  /\ outcome[c] = "none" /\ total[c] # Calls!Unknown
  <2>1. outcome[c] = "none" /\ total[c] = Bytes(c)
    BY <1>6, DownloadingIs
  <2>2. Bytes(c) \in Nat
    BY UploadIs
  <2>3. Bytes(c) # Calls!Unknown
    BY <2>2 DEF Calls!Unknown
  <2>. QED
    BY <2>1, <2>3
<1>7. ASSUME NEW c \in Callers, ReadPart(c) PROVE Calls!Yield(c)
  <2>1. /\ at[c] = "download" /\ downlink[c] # <<>>
        /\ Head(downlink[c]) # End
        /\ got' = [got EXCEPT ![c] = Append(got[c], Head(downlink[c]))]
        /\ UNCHANGED <<outcome, total>>
    BY <1>7 DEF ReadPart
  <2>2. PICK g \in 0..Parts[c] :
          /\ got[c] = Window(Download(c), 0, g)
          /\ Head(downlink[c]) = IF g < Parts[c] THEN g ELSE End
          /\ g # Parts[c]
    BY <2>1, NextItem
  <2>3. Parts[c] \in Nat
    BY DownloadIs
  <2>4. g < Parts[c] /\ Head(downlink[c]) = g
    BY <2>2, <2>3
  <2>5. Len(got[c]) = g
    BY <2>2, GotIs
  <2>. QED
    BY <1>6, <2>1, <2>4, <2>5 DEF Calls!Yield, Calls!Running
<1>8. ASSUME NEW c \in Callers, ReadEnd(c) PROVE Calls!Done(c)
  <2>1. /\ at[c] = "download" /\ downlink[c] # <<>>
        /\ Head(downlink[c]) = End
        /\ outcome' = [outcome EXCEPT ![c] = "done"]
        /\ UNCHANGED <<total, got>>
    BY <1>8 DEF ReadEnd
  <2>2. PICK g \in 0..Parts[c] :
          got[c] = Window(Download(c), 0, g) /\ g = Parts[c]
    BY <2>1, NextItem
  <2>3. Len(got[c]) = Parts[c]
    BY <2>2, GotIs
  <2>. QED
    BY <1>6, <2>1, <2>3 DEF Calls!Done, Calls!Running
<1>9. ASSUME NEW c \in Callers, Restart(c) PROVE Calls!Again(c)
  BY <1>9 DEF Restart, Calls!Again, Calls!Unknown, Unknown
<1>. QED
  BY <1>1, <1>2, <1>3, <1>4, <1>5, <1>7, <1>8, <1>9
  DEF Next, CallerStep, Calls!Next

\* The demo calls keep what DemoCalls promises: one answer per upload, the
\* parts one by one in their order, done only after the last, and nothing of a
\* broken session afterwards.
THEOREM Implements == Spec => ImplementsDemoCalls
<1>1. Init => Calls!Init
  BY DEF Init, Calls!Init, Calls!Unknown, Unknown
<1>2. IInv /\ [Next]_vars => [Calls!Next]_(Calls!vars)
  BY StepRefines, SessionsAssumption
<1>. QED
  BY <1>1, <1>2, Invariance, PTL DEF Spec, ImplementsDemoCalls, Calls!Spec
=============================================================================
