---------------------------- MODULE DemoSessions ----------------------------
(***************************************************************************)
(* The demo calls of client applications against one server: each caller   *)
(* sends a command, uploads its chunks and reads back a total, downloads a *)
(* number of parts, and is done.  Callers overlap; their sessions are      *)
(* served by handlers that share one use case object, CryptoEngineUseCase  *)
(* or VaultUseCase.  A connection may break at any moment.                 *)
(*                                                                         *)
(* Chunks are numbers of bytes on their way up and part numbers on their   *)
(* way down.  A caller in Managed talks to the Vault over a channel that   *)
(* belongs to the framework, any other one opens and closes a SocketClient *)
(* of its own.                                                             *)
(***************************************************************************)
EXTENDS Integers, SequencesExt

CONSTANTS
    Callers,
    Managed,
    Chunks,     \* the number of chunks that each caller uploads
    Offset,     \* the bytes of its upload up to the end of each chunk
    Parts       \* the number of parts that each caller asks for

ASSUME SessionsAssumption ==
    /\ Managed \subseteq Callers
    /\ Chunks \in [Callers -> Nat] /\ Parts \in [Callers -> Nat]
    /\ \A c \in Callers :
          /\ Offset[c] \in [0..Chunks[c] -> Nat] /\ Offset[c][0] = 0
          /\ \A i, j \in 0..Chunks[c] : i <= j => Offset[c][i] <= Offset[c][j]

VARIABLES
    at,         \* where in run_demo the caller is
    outcome,    \* how its run_demo went: "none", "done" or "failed"
    open,       \* its SocketClient is connected
    written,    \* chunks of its upload it has written
    uplink,     \* chunks on their way to the handler
    handler,    \* the handler of its session
    downlink,   \* what the handler sent and the caller has not read
    total,      \* the total_bytes it was told
    got         \* the parts it has read

callerVars == <<at, outcome, open, written, total, got>>
vars == <<callerVars, uplink, handler, downlink>>

End == -1       \* the end of a stream
Unknown == -1   \* no total yet

\* The size of a chunk, and of the whole upload (len(chunk), summed up).
Size(c, i) == Offset[c][i] - Offset[c][i - 1]
Bytes(c) == Offset[c][Chunks[c]]

Stages == {"idle", "command", "upload", "await", "download", "closing", "over"}

\* What is stored on the caller's and the handler's side of a session.
NoHandler == [kind |-> "none", total |-> 0, next |-> 0]
Counting  == [NoHandler EXCEPT !.kind = "count"]
Emitting  == [NoHandler EXCEPT !.kind = "emit"]

Init ==
    /\ at = [c \in Callers |-> "idle"] /\ outcome = [c \in Callers |-> "none"]
    /\ open = [c \in Callers |-> FALSE]
    /\ written = [c \in Callers |-> 0]
    /\ uplink = [c \in Callers |-> <<>>] /\ downlink = [c \in Callers |-> <<>>]
    /\ handler = [c \in Callers |-> NoHandler]
    /\ total = [c \in Callers |-> Unknown] /\ got = [c \in Callers |-> <<>>]

-----------------------------------------------------------------------------
\* run_demo

StartManaged(c) ==
    /\ c \in Managed /\ at[c] = "idle"
    /\ at' = [at EXCEPT ![c] = "command"]
    /\ UNCHANGED <<outcome, open, written, total, got>>
    /\ UNCHANGED <<uplink, handler, downlink>>

Connect(c) ==
    /\ c \notin Managed /\ at[c] = "idle"
    /\ at' = [at EXCEPT ![c] = "command"]
    /\ open' = [open EXCEPT ![c] = TRUE]
    /\ UNCHANGED <<outcome, written, total, got, uplink, handler, downlink>>

\* The server does not run, or not where the caller looks for its socket.
ConnectFails(c) ==
    /\ c \notin Managed /\ at[c] = "idle"
    /\ at' = [at EXCEPT ![c] = "over"]
    /\ outcome' = [outcome EXCEPT ![c] = "failed"]
    /\ UNCHANGED <<open, written, total, got, uplink, handler, downlink>>

\* There are no Unix sockets on the caller's platform: the runner returns.
Skip(c) ==
    /\ c \notin Managed /\ at[c] = "idle"
    /\ at' = [at EXCEPT ![c] = "over"]
    /\ UNCHANGED <<outcome, open, written, total, got>>
    /\ UNCHANGED <<uplink, handler, downlink>>

\* hash, answered; then the upload session is opened.
Command(c) ==
    /\ at[c] = "command"
    /\ at' = [at EXCEPT ![c] = "upload"]
    /\ handler' = [handler EXCEPT ![c] = Counting]
    /\ UNCHANGED <<outcome, open, written, total, got, uplink, downlink>>

Write(c) ==
    /\ at[c] = "upload" /\ written[c] < Chunks[c]
    /\ uplink' = [uplink EXCEPT ![c] = Append(@, Size(c, written[c] + 1))]
    /\ written' = [written EXCEPT ![c] = @ + 1]
    /\ UNCHANGED <<at, outcome, open, total, got, handler, downlink>>

FinishSilently(c) ==
    /\ at[c] = "upload" /\ written[c] = Chunks[c]
    /\ at' = [at EXCEPT ![c] = "await"]
    /\ UNCHANGED <<outcome, open, written, total, got>>
    /\ UNCHANGED <<uplink, handler, downlink>>

Finish(c) ==
    /\ at[c] = "upload" /\ written[c] = Chunks[c]
    /\ uplink' = [uplink EXCEPT ![c] = Append(@, End)]
    /\ at' = [at EXCEPT ![c] = "await"]
    /\ UNCHANGED <<outcome, open, written, total, got, handler, downlink>>

\* The response to the upload; then the download session is opened.
ReadTotal(c) ==
    /\ at[c] = "await" /\ downlink[c] # <<>>
    /\ total' = [total EXCEPT ![c] = Head(downlink[c])]
    /\ downlink' = [downlink EXCEPT ![c] = Tail(@)]
    /\ at' = [at EXCEPT ![c] = "download"]
    /\ handler' = [handler EXCEPT ![c] = Emitting]
    /\ UNCHANGED <<outcome, open, written, got, uplink>>

ReadPart(c) ==
    /\ at[c] = "download" /\ downlink[c] # <<>> /\ Head(downlink[c]) # End
    /\ got' = [got EXCEPT ![c] = Append(@, Head(downlink[c]))]
    /\ downlink' = [downlink EXCEPT ![c] = Tail(@)]
    /\ UNCHANGED <<at, outcome, open, written, total, uplink, handler>>

ReadEnd(c) ==
    /\ at[c] = "download" /\ downlink[c] # <<>> /\ Head(downlink[c]) = End
    /\ downlink' = [downlink EXCEPT ![c] = Tail(@)]
    /\ at' = [at EXCEPT ![c] = "closing"]
    /\ outcome' = [outcome EXCEPT ![c] = "done"]
    /\ UNCHANGED <<open, written, total, got, uplink, handler>>

\* The finally clause; the runner logs how it went and start-up goes on.
Close(c) ==
    /\ at[c] = "closing"
    /\ open' = [open EXCEPT ![c] = FALSE]
    /\ at' = [at EXCEPT ![c] = "over"]
    /\ UNCHANGED <<outcome, written, total, got, uplink, handler, downlink>>

\* What was on its way is dropped and the handler is cancelled.
SessionGone(c) ==
    /\ uplink' = [uplink EXCEPT ![c] = <<>>]
    /\ downlink' = [downlink EXCEPT ![c] = <<>>]
    /\ handler' = [handler EXCEPT ![c] = NoHandler]

BreaksUncaught(c) ==
    /\ at[c] \in {"command", "upload", "await", "download"}
    /\ at' = [at EXCEPT ![c] = "over"]
    /\ outcome' = [outcome EXCEPT ![c] = "failed"]
    /\ SessionGone(c)
    /\ UNCHANGED <<open, written, total, got>>

\* The connection is lost, or the handler raises: whatever run_demo waits for
\* raises there.
Breaks(c) ==
    /\ at[c] \in {"command", "upload", "await", "download"}
    /\ at' = [at EXCEPT ![c] = "closing"]
    /\ outcome' = [outcome EXCEPT ![c] = "failed"]
    /\ SessionGone(c)
    /\ UNCHANGED <<open, written, total, got>>

\* The client application is started again.
Restart(c) ==
    /\ at[c] = "over"
    /\ at' = [at EXCEPT ![c] = "idle"]
    /\ outcome' = [outcome EXCEPT ![c] = "none"]
    /\ written' = [written EXCEPT ![c] = 0]
    /\ total' = [total EXCEPT ![c] = Unknown] /\ got' = [got EXCEPT ![c] = <<>>]
    /\ SessionGone(c)
    /\ UNCHANGED open

-----------------------------------------------------------------------------
\* The handlers.  Each counts in a local variable of its own call.

CountInUseCase(c) ==
    /\ handler[c].kind = "count" /\ uplink[c] # <<>> /\ Head(uplink[c]) # End
    /\ handler' = [x \in Callers |->
                      IF handler[x].kind = "count"
                      THEN [handler[x] EXCEPT !.total = @ + Head(uplink[c])]
                      ELSE handler[x]]
    /\ uplink' = [uplink EXCEPT ![c] = Tail(@)]
    /\ UNCHANGED <<callerVars, downlink>>

Count(c) ==
    /\ handler[c].kind = "count" /\ uplink[c] # <<>> /\ Head(uplink[c]) # End
    /\ handler' = [handler EXCEPT ![c].total = @ + Head(uplink[c])]
    /\ uplink' = [uplink EXCEPT ![c] = Tail(@)]
    /\ UNCHANGED <<callerVars, downlink>>

ReturnTotalAtPause(c) ==
    /\ handler[c].kind = "count" /\ uplink[c] = <<>>
    /\ downlink' = [downlink EXCEPT ![c] = Append(@, handler[c].total)]
    /\ handler' = [handler EXCEPT ![c] = NoHandler]
    /\ UNCHANGED <<callerVars, uplink>>

ReturnTotal(c) ==
    /\ handler[c].kind = "count" /\ uplink[c] # <<>> /\ Head(uplink[c]) = End
    /\ downlink' = [downlink EXCEPT ![c] = Append(@, handler[c].total)]
    /\ uplink' = [uplink EXCEPT ![c] = Tail(@)]
    /\ handler' = [handler EXCEPT ![c] = NoHandler]
    /\ UNCHANGED callerVars

EmitOneMore(c) ==
    /\ handler[c].kind = "emit" /\ handler[c].next <= Parts[c]
    /\ downlink' = [downlink EXCEPT ![c] = Append(@, handler[c].next)]
    /\ handler' = [handler EXCEPT ![c].next = @ + 1]
    /\ UNCHANGED <<callerVars, uplink>>

Emit(c) ==
    /\ handler[c].kind = "emit" /\ handler[c].next < Parts[c]
    /\ downlink' = [downlink EXCEPT ![c] = Append(@, handler[c].next)]
    /\ handler' = [handler EXCEPT ![c].next = @ + 1]
    /\ UNCHANGED <<callerVars, uplink>>

ReturnFromDownload(c) ==
    /\ handler[c].kind = "emit" /\ handler[c].next = Parts[c]
    /\ downlink' = [downlink EXCEPT ![c] = Append(@, End)]
    /\ handler' = [handler EXCEPT ![c] = NoHandler]
    /\ UNCHANGED <<callerVars, uplink>>

-----------------------------------------------------------------------------
CallerStep(c) ==
    \/ StartManaged(c) \/ Connect(c) \/ ConnectFails(c) \/ Skip(c)
    \/ Command(c)
    \/ Write(c) \/ Finish(c) \/ ReadTotal(c) \/ ReadPart(c) \/ ReadEnd(c)
    \/ Close(c)

HandlerStep(c) ==
    Count(c) \/ ReturnTotal(c) \/ Emit(c) \/ ReturnFromDownload(c)

Next ==
    \E c \in Callers :
        CallerStep(c) \/ HandlerStep(c) \/ Breaks(c) \/ Restart(c)

Spec == Init /\ [][Next]_vars

\* The event loops of both sides keep running what is runnable.
Fairness ==
    \A c \in Callers : WF_vars(CallerStep(c)) /\ WF_vars(HandlerStep(c))

FairSpec == Spec /\ Fairness

-----------------------------------------------------------------------------
\* The parts that c is to get.
PartsOf(c) == [i \in 1..Parts[c] |-> i - 1]

\* Type: a caller has written, and a handler has sent, no more than was asked
\* of them; no count exceeds the bytes of the caller it is for.
TypeOK ==
    /\ at \in [Callers -> Stages]
    /\ outcome \in [Callers -> {"none", "done", "failed"}]
    /\ open \in [Callers -> BOOLEAN]
    /\ \A c \in Callers :
          /\ written[c] \in 0..Chunks[c]
          /\ handler[c] \in [kind : {"none", "count", "emit"},
                             total : 0..Bytes(c), next : 0..Parts[c]]
          /\ uplink[c] \in Seq(0..Bytes(c) \cup {End})
          /\ downlink[c] \in Seq(0..(Bytes(c) + Parts[c]) \cup {End})
          /\ total[c] \in 0..Bytes(c) \cup {Unknown}
          /\ got[c] \in Seq(0..(Parts[c] - 1))

\* Whatever sessions overlap or break, a caller is told the size of its own
\* upload and nothing of another's, gets the parts of its own download in
\* order, and never takes a broken answer for a complete one (encrypt and
\* store count in a local variable of their call, the use case object is
\* shared).
OwnAnswers ==
    \A c \in Callers :
        /\ total[c] # Unknown => total[c] = Bytes(c)
        /\ IsPrefix(got[c], PartsOf(c))
        /\ outcome[c] = "done" => total[c] # Unknown /\ got[c] = PartsOf(c)

\* However run_demo ends, its connection is closed when the runner goes on
\* with the start-up (the finally clause of run_demo).
NoConnectionLeft ==
    \A c \in Callers : open[c] => at[c] \notin {"idle", "over"}

\* The sessions implement DemoCalls: an answer is given once and in its place,
\* and whatever a broken session still had on its way reaches no later one.
Calls == INSTANCE DemoCalls WITH UploadSize <- [c \in Callers |-> Bytes(c)],
                                 Wanted <- Parts
ImplementsDemoCalls == Calls!Spec

\* A demo that has begun comes to its end, done or failed: caller and handler
\* never wait for each other, so the start-up of the client is not held up.
DemoEnds == \A c \in Callers : at[c] # "idle" ~> at[c] = "over"
=============================================================================
