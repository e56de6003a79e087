-------------------------- MODULE DynamicTls_proofs --------------------------
(***************************************************************************)
(* Proofs that no handshake is answered with an old certificate, and that  *)
(* applications started after the tool's last run trust each other, for    *)
(* any number of runs of the tool and of certificates.                     *)
(***************************************************************************)
EXTENDS DynamicTls, TLAPS

\* An application that is not up has nothing in memory that a handshake could
\* use, and a handshake in progress began under a version that is not younger
\* than the certificate in service.
ServiceInv ==
    \A a \in Apps :
        /\ app[a].phase \in {"down", "rooted"} =>
              app[a].cert = NoCert /\ ~app[a].rotating
        /\ app[a].phase # "up" =>
              /\ handshake[a] = NoHandshake /\ cache[a] = NoCache
              /\ presented[a] = Nothing
        /\ handshake[a] # NoHandshake =>
              /\ handshake[a].version = handshake[a].from
              /\ handshake[a].from \in 1..app[a].cert.id

\* Certificates are issued in order: a file is never older than what was read
\* from it, and what the TLS layer holds never older than its version.
NumberInv ==
    /\ \A a \in Apps :
          /\ certFile[a].id < nextId /\ app[a].cert.id < nextId
          /\ Readable(a) => app[a].cert.id <= certFile[a].id
          /\ cache[a].version <= cache[a].cert.id
    /\ FreshHandshake

\* An application that counts as started after the last run did so after its
\* end, and nothing has written over the files of that run.
StartInv ==
    /\ tool.open => ~ToolIdle
    /\ tool.run = 0 => ToolIdle
    /\ \A a \in Apps : since[a] => ToolIdle /\ kept[a]

\* Of the run, or, before the first one, absent or of the Trust Service.
OfRun(c) == c.ca = tool.run \/ (c = NoCert /\ tool.run = 0)

\* How far the files have come that nothing has written over.
FilesInv ==
    /\ \A a \in Apps :
          kept[a] =>
              /\ ToolIdle => caFile[a] = tool.run /\ OfRun(certFile[a])
              /\ app[a].rotating => ToolIdle /\ OfRun(app[a].cert)
    /\ kept[Server] =>
          /\ tool.at > 1 => certFile[Server].ca = tool.run
          /\ tool.at > 2 => caFile[Server] = tool.run
          /\ tool.open /\ tool.at = 1 => certFile[Server] = Torn
    /\ kept[Client] =>
          /\ tool.at > 3 => certFile[Client].ca = tool.run
          /\ tool.open /\ tool.at = 3 => certFile[Client] = Torn

\* All that an application started after the last run knows is of that run.
MemoryInv ==
    \A a \in Apps :
        since[a] =>
            /\ app[a].phase # "down" => app[a].root = tool.run
            /\ app[a].cert # NoCert => app[a].cert.ca = tool.run
            /\ cache[a] # NoCache =>
                  cache[a].cert.ca = tool.run /\ cache[a].root = tool.run
            /\ presented[a] # Nothing =>
                  /\ presented[a].cert.ca = tool.run
                  /\ presented[a].root = tool.run

IInv == TypeOK /\ ServiceInv /\ NumberInv /\ StartInv /\ FilesInv /\ MemoryInv

\* What the tool writes, one by one.
LEMMA WritesAre ==
    /\ Writes[1] = <<Server, "cert">> /\ Writes[2] = <<Server, "ca">>
    /\ Writes[3] = <<Client, "cert">> /\ Writes[4] = <<Client, "ca">>
BY DEF Writes

\* The invariant holds at the start.
LEMMA InitInv == Init => IInv
<1>. SUFFICES ASSUME Init PROVE IInv
  OBVIOUS
<1>. USE TlsAssumption DEF TlsAssumption, Init, Apps, NoCert, Torn, NoCA, Down,
         NoCache, NoHandshake, Nothing, Certs, CAs
<1>1. TypeOK
  BY DEF TypeOK
<1>2. ServiceInv
  BY DEF ServiceInv
<1>3. NumberInv
  BY DEF NumberInv, FreshHandshake, Readable
<1>4. StartInv
  BY DEF StartInv, ToolIdle
<1>5. FilesInv
  BY DEF FilesInv, ToolIdle, OfRun
<1>6. MemoryInv
  BY DEF MemoryInv
<1>. QED
  BY <1>1, <1>2, <1>3, <1>4, <1>5, <1>6 DEF IInv

\* The types of TypeOK by name, so that a step opens only those it touches.
MaybeCA   == CAs \cup {NoCA}
MaybeCert == Certs \cup {NoCert}
Phases    == {"down", "rooted", "calling", "up"}
AppState  == [phase : Phases, root : MaybeCA, cert : MaybeCert,
              rotating : BOOLEAN]
ToolState == [run : 0..MaxRuns, at : 0..4, open : BOOLEAN]
UpHasCert == \A a \in Apps : app[a].phase = "up" => app[a].cert # NoCert
FilesTyped == /\ caFile \in [Apps -> MaybeCA]
              /\ certFile \in [Apps -> Certs \cup {NoCert, Torn}]
              /\ bootstrap \in [Apps -> BOOLEAN]
AppTyped  == app \in [Apps -> AppState] /\ UpHasCert
CacheTyped ==
    cache \in [Apps -> [version : 0..MaxIds, cert : MaybeCert, root : MaybeCA]]
HandshakeTyped ==
    handshake \in [Apps -> [version : 0..MaxIds, from : 0..MaxIds]]
PresentedTyped ==
    presented \in [Apps -> [cert : MaybeCert, root : MaybeCA, from : 0..MaxIds]]
ToolTyped == tool \in ToolState
HistoryTyped == /\ nextId \in 1..(MaxIds + 1)
                /\ kept \in [Apps -> BOOLEAN] /\ since \in [Apps -> BOOLEAN]

\* They are those of TypeOK.
LEMMA TypesNamed ==
    TypeOK <=> /\ FilesTyped /\ AppTyped /\ CacheTyped /\ HandshakeTyped
               /\ PresentedTyped /\ ToolTyped /\ HistoryTyped
BY DEF TypeOK, FilesTyped, AppTyped, CacheTyped, HandshakeTyped, PresentedTyped,
   ToolTyped, HistoryTyped, MaybeCA, MaybeCert, Phases, AppState, ToolState,
   UpHasCert

\* A readable file holds a certificate, and the three ways to have none differ.
LEMMA Kinds ==
    /\ NoCert.id = 0 /\ Torn.id = 0 /\ NoCert # Torn
    /\ NoCert \notin Certs /\ Torn \notin Certs
    /\ NoCert.ca \notin CAs /\ Torn.ca \notin CAs
    /\ \A c \in Certs : c.id \in 1..MaxIds /\ c.ca \in CAs
    /\ NoCert \in MaybeCert /\ Down \in AppState /\ NoCA \in MaybeCA
    /\ NoCA \notin CAs
BY TlsAssumption DEF TlsAssumption, NoCert, Torn, NoCA, Certs, CAs, MaybeCert,
   Down, AppState, Phases, MaybeCA

\* What a step leaves of an application's memory.
AppBecomes(a, phase, root, cert, rotating) ==
    /\ app'[a] = [phase |-> phase, root |-> root, cert |-> cert,
                  rotating |-> rotating]
    /\ \A b \in Apps \ {a} : app'[b] = app[b]
    /\ app' \in [Apps -> AppState]

\* An application that ends leaves nothing in memory.
LEMMA EndsEffect ==
    ASSUME TypeOK, NEW a \in Apps, Ends(a)
    PROVE  /\ AppBecomes(a, "down", NoCA, NoCert, FALSE)
           /\ since'[a] = FALSE /\ \A b \in Apps \ {a} : since'[b] = since[b]
<1>1. app \in [Apps -> AppState] /\ since \in [Apps -> BOOLEAN]
  BY TypesNamed DEF AppTyped, HistoryTyped
<1>2. Down = [phase |-> "down", root |-> NoCA, cert |-> NoCert,
              rotating |-> FALSE]
  BY DEF Down
<1>3. app' = [app EXCEPT ![a] = Down] /\ since' = [since EXCEPT ![a] = FALSE]
  BY DEF Ends
<1>4. app' \in [Apps -> AppState]
  BY <1>1, <1>3, Kinds
<1>. QED
  BY <1>1, <1>2, <1>3, <1>4 DEF AppBecomes

\* Loading the root CA changes the phase and the root.
LEMMA LoadRootCaEffect ==
    ASSUME TypeOK, NEW a \in Apps, LoadRootCa(a)
    PROVE  AppBecomes(a, "rooted", caFile[a], app[a].cert, app[a].rotating)
<1>1. app \in [Apps -> AppState] /\ caFile[a] \in MaybeCA
  BY TypesNamed DEF AppTyped, FilesTyped
<1>. DEFINE p == [phase |-> "rooted", root |-> caFile[a], cert |-> app[a].cert,
                  rotating |-> app[a].rotating]
<1>2. p \in AppState
  BY <1>1 DEF AppState, Phases
<1>3. PICK u : u = [app[a] EXCEPT !.phase = "rooted", !.root = caFile[a]]
  OBVIOUS
<1>4. u = p
  BY <1>1, <1>3 DEF AppState
<1>5. app' = [app EXCEPT ![a] = u]
  BY <1>1, <1>3 DEF LoadRootCa
<1>. QED
  BY <1>1, <1>2, <1>4, <1>5 DEF AppBecomes

\* The certificate on disk becomes the one in service.
LEMMA RereadsEffect ==
    ASSUME TypeOK, NEW a \in Apps, NEW due \in BOOLEAN, NEW phase \in Phases,
           Readable(a), Rereads(a, due, phase)
    PROVE  AppBecomes(a, phase, app[a].root, certFile[a], due)
<1>1. app \in [Apps -> AppState] /\ certFile[a] \in Certs
  BY TypesNamed, Kinds DEF AppTyped, FilesTyped, Readable
<1>. DEFINE p == [phase |-> phase, root |-> app[a].root, cert |-> certFile[a],
                  rotating |-> due]
<1>2. p \in AppState
  BY <1>1 DEF AppState, MaybeCert
<1>3. PICK u : u = [app[a] EXCEPT !.phase = phase, !.cert = certFile[a],
                                  !.rotating = due]
  OBVIOUS
<1>4. u = p
  BY <1>1, <1>3 DEF AppState
<1>5. app' = [app EXCEPT ![a] = u]
  BY <1>1, <1>3 DEF Rereads
<1>. QED
  BY <1>1, <1>2, <1>4, <1>5 DEF AppBecomes

\* At the start or from the job, it is a readable one.
LEMMA StartOrJob ==
    ASSUME TypeOK, NEW a \in Apps, StartActive(a) \/ JobRun(a)
    PROVE  /\ Readable(a) /\ certFile[a] \in Certs
           /\ app[a].phase \in {"rooted", "up"}
           /\ app[a].phase = "up" => JobRun(a)
           /\ \E due \in BOOLEAN, phase \in {"calling", "up"} :
                 /\ Rereads(a, due, phase)
                 /\ AppBecomes(a, phase, app[a].root, certFile[a], due)
                 /\ app[a].phase = "up" => phase = "up"
<1>1. Readable(a) /\ certFile[a] \in Certs
  BY TypesNamed, Kinds DEF FilesTyped, Readable, StartActive, JobRun
<1>2. PICK due \in BOOLEAN, phase \in {"calling", "up"} :
         Rereads(a, due, phase) /\ (app[a].phase = "up" => phase = "up")
  BY DEF StartActive, JobRun
<1>. QED
  BY <1>1, <1>2, RereadsEffect DEF StartActive, JobRun, Phases

\* A bootstrap either ends the application or waits for its call.
LEMMA StartBootstrapEffect ==
    ASSUME TypeOK, NEW a \in Apps, StartBootstrap(a)
    PROVE  /\ \/ AppBecomes(a, "down", NoCA, NoCert, FALSE) /\ ~since'[a]
              \/ AppBecomes(a, "calling", app[a].root, app[a].cert, TRUE)
           /\ since'[a] => since[a] /\ tool.run = 0
           /\ \A b \in Apps \ {a} : since'[b] = since[b]
<1>1. app \in [Apps -> AppState] /\ since \in [Apps -> BOOLEAN]
  BY TypesNamed DEF AppTyped, HistoryTyped
<1>2. PICK parses \in BOOLEAN :
         /\ app' = [app EXCEPT ![a] =
                       IF parses THEN [@ EXCEPT !.phase = "calling",
                                                !.rotating = TRUE]
                       ELSE Down]
         /\ since' = [since EXCEPT ![a] = @ /\ parses /\ tool.run = 0]
  BY DEF StartBootstrap
<1>3. CASE parses
  <2>. DEFINE p == [phase |-> "calling", root |-> app[a].root,
                    cert |-> app[a].cert, rotating |-> TRUE]
  <2>1. p \in AppState
    BY <1>1 DEF AppState, Phases
  <2>2. PICK u : u = [app[a] EXCEPT !.phase = "calling", !.rotating = TRUE]
    OBVIOUS
  <2>3. u = p
    BY <1>1, <2>2 DEF AppState
  <2>4. app' = [app EXCEPT ![a] = u]
    BY <1>1, <1>2, <1>3, <2>2
  <2>5. AppBecomes(a, "calling", app[a].root, app[a].cert, TRUE)
    BY <1>1, <2>1, <2>3, <2>4 DEF AppBecomes
  <2>. QED
    BY <1>1, <1>2, <2>5
<1>4. CASE ~parses
  <2>1. app' = [app EXCEPT ![a] = Down]
    BY <1>2, <1>4
  <2>2. AppBecomes(a, "down", NoCA, NoCert, FALSE)
    BY <1>1, <2>1, Kinds DEF AppBecomes, Down
  <2>. QED
    BY <1>1, <1>2, <1>4, <2>2
<1>. QED
  BY <1>3, <1>4

\* What is published is in service and on disk.
LEMMA RotatedEffect ==
    ASSUME TypeOK, NEW a \in Apps, Rotated(a)
    PROVE  LET c == [ca |-> 0, id |-> nextId]
           IN  /\ c \in Certs /\ nextId \in 1..MaxIds /\ nextId' = nextId + 1
               /\ AppBecomes(a, "up", app[a].root, c, FALSE)
               /\ certFile' = [certFile EXCEPT ![a] = c]
<1>. DEFINE c == [ca |-> 0, id |-> nextId]
            p == [phase |-> "up", root |-> app[a].root, cert |-> c,
                  rotating |-> FALSE]
<1>1. app \in [Apps -> AppState] /\ nextId \in 1..MaxIds
  BY TypesNamed, TlsAssumption
  DEF AppTyped, HistoryTyped, Rotated, TlsAssumption
<1>2. c \in Certs
  BY <1>1, TlsAssumption DEF Certs, CAs, TlsAssumption
<1>3. p \in AppState
  BY <1>1, <1>2 DEF AppState, Phases, MaybeCert
<1>4. PICK u : u = [app[a] EXCEPT !.phase = "up", !.cert = c,
                                  !.rotating = FALSE]
  OBVIOUS
<1>5. u = p
  BY <1>1, <1>4 DEF AppState
<1>6. app' = [app EXCEPT ![a] = u]
  BY <1>1, <1>4 DEF Rotated
<1>7. AppBecomes(a, "up", app[a].root, c, FALSE)
  BY <1>1, <1>3, <1>5, <1>6 DEF AppBecomes
<1>. QED
  BY <1>1, <1>2, <1>7 DEF Rotated

\* A rotation that fails ends the start if it was the first, and else leaves
\* the certificate that was to be replaced.
LEMMA RotationFailedEffect ==
    ASSUME TypeOK, NEW a \in Apps, RotationFailed(a)
    PROVE  \/ /\ AppBecomes(a, "down", NoCA, NoCert, FALSE)
              /\ app[a].cert = NoCert /\ since'[a] = FALSE
              /\ \A b \in Apps \ {a} : since'[b] = since[b]
           \/ /\ AppBecomes(a, "up", app[a].root, app[a].cert, FALSE)
              /\ app[a].cert # NoCert /\ since' = since
<1>1. CASE ByBootstrap(a)
  BY <1>1, EndsEffect DEF RotationFailed, ByBootstrap
<1>2. CASE ~ByBootstrap(a)
  <2>. DEFINE p == [phase |-> "up", root |-> app[a].root, cert |-> app[a].cert,
                    rotating |-> FALSE]
  <2>1. app \in [Apps -> AppState]
    BY TypesNamed DEF AppTyped
  <2>2. p \in AppState
    BY <2>1 DEF AppState, Phases
  <2>3. PICK u : u = [app[a] EXCEPT !.phase = "up", !.rotating = FALSE]
    OBVIOUS
  <2>4. u = p
    BY <2>1, <2>3 DEF AppState
  <2>5. app' = [app EXCEPT ![a] = u]
    BY <1>2, <2>1, <2>3 DEF RotationFailed
  <2>6. AppBecomes(a, "up", app[a].root, app[a].cert, FALSE)
    BY <2>1, <2>2, <2>4, <2>5 DEF AppBecomes
  <2>. QED
    BY <1>2, <2>6 DEF RotationFailed, ByBootstrap
<1>. QED
  BY <1>1, <1>2

\* Whoever is up then has a certificate, if it was given one.
LEMMA AppTypedKept ==
    ASSUME AppTyped, NEW a \in Apps,
           NEW phase, NEW root, NEW cert, NEW rotating,
           AppBecomes(a, phase, root, cert, rotating),
           phase = "up" => cert # NoCert
    PROVE  AppTyped'
<1>1. app' \in [Apps -> AppState]
  BY DEF AppBecomes
<1>2. app'[a].phase = phase /\ app'[a].cert = cert
  BY DEF AppBecomes
<1>3. ASSUME NEW b \in Apps, app'[b].phase = "up" PROVE app'[b].cert # NoCert
  BY <1>2, <1>3 DEF AppBecomes, AppTyped, UpHasCert
<1>. QED
  BY <1>1, <1>3 DEF AppTyped, UpHasCert

\* The memory of the applications keeps its types.
LEMMA AppTypedStep == TypeOK /\ [Next]_vars => AppTyped'
<1>. SUFFICES ASSUME TypeOK, [Next]_vars PROVE AppTyped'
  OBVIOUS
<1>0. AppTyped
  BY TypesNamed
<1>1. ASSUME NEW a \in Apps, LoadRootCa(a) PROVE AppTyped'
  BY <1>0, <1>1, LoadRootCaEffect, AppTypedKept
<1>2. ASSUME NEW a \in Apps, StartFails(a) \/ Stop(a) PROVE AppTyped'
  <2>1. AppBecomes(a, "down", NoCA, NoCert, FALSE)
    BY <1>2, EndsEffect DEF StartFails, Stop
  <2>. QED
    BY <1>0, <2>1, AppTypedKept
<1>3. ASSUME NEW a \in Apps, StartActive(a) \/ JobRun(a) PROVE AppTyped'
  <2>1. PICK due \in BOOLEAN, phase \in {"calling", "up"} :
           AppBecomes(a, phase, app[a].root, certFile[a], due)
    BY <1>3, StartOrJob
  <2>2. certFile[a] # NoCert
    BY <1>3, StartOrJob, Kinds
  <2>. QED
    BY <1>0, <2>1, <2>2, AppTypedKept
<1>4. ASSUME NEW a \in Apps, StartBootstrap(a) PROVE AppTyped'
  <2>1. \/ AppBecomes(a, "down", NoCA, NoCert, FALSE)
        \/ AppBecomes(a, "calling", app[a].root, app[a].cert, TRUE)
    BY <1>4, StartBootstrapEffect
  <2>. QED
    BY <1>0, <2>1, AppTypedKept
<1>5. ASSUME NEW a \in Apps, Rotated(a) PROVE AppTyped'
  <2>. DEFINE c == [ca |-> 0, id |-> nextId]
  <2>1. c \in Certs /\ AppBecomes(a, "up", app[a].root, c, FALSE)
    BY <1>5, RotatedEffect
  <2>2. c # NoCert
    BY <2>1, Kinds
  <2>. HIDE DEF c
  <2>. QED
    BY <1>0, <2>1, <2>2, AppTypedKept
<1>6. ASSUME NEW a \in Apps, RotationFailed(a) PROVE AppTyped'
  <2>1. \/ AppBecomes(a, "down", NoCA, NoCert, FALSE)
        \/ /\ AppBecomes(a, "up", app[a].root, app[a].cert, FALSE)
           /\ app[a].cert # NoCert
    BY <1>6, RotationFailedEffect
  <2>. QED
    BY <1>0, <2>1, AppTypedKept
<1>7. CASE UNCHANGED app
  BY <1>0, <1>7 DEF AppTyped, UpHasCert
<1>. QED
  BY <1>1, <1>2, <1>3, <1>4, <1>5, <1>6, <1>7
  DEF Next, vars, ProvideBootstrap, BeginHandshake, Handshake, ToolBegins,
      ToolOpens, ToolFills, ToolDies

\* The files keep their types.
LEMMA FilesTypedStep == TypeOK /\ [Next]_vars => FilesTyped'
<1>. SUFFICES ASSUME TypeOK, [Next]_vars PROVE FilesTyped'
  OBVIOUS
<1>0. FilesTyped /\ ToolTyped /\ HistoryTyped
  BY TypesNamed
<1>. USE DEF FilesTyped
<1>1. ASSUME NEW a \in Apps, StartBootstrap(a) PROVE FilesTyped'
  BY <1>0, <1>1 DEF StartBootstrap
<1>2. ASSUME NEW a \in Apps, Rotated(a) PROVE FilesTyped'
  <2>1. bootstrap' \in [Apps -> BOOLEAN]
    BY <1>0, <1>2 DEF Rotated
  <2>2. certFile' \in [Apps -> Certs \cup {NoCert, Torn}]
    BY <1>0, <1>2, RotatedEffect
  <2>. QED
    BY <1>0, <1>2, <2>1, <2>2 DEF Rotated
<1>3. ASSUME NEW a \in Apps, ProvideBootstrap(a) PROVE FilesTyped'
  BY <1>0, <1>3 DEF ProvideBootstrap
<1>4. CASE ToolOpens
  BY <1>0, <1>4, Kinds DEF ToolOpens
<1>5. CASE ToolFills
  <2>1. tool.run \in MaybeCA
    BY <1>0 DEF ToolTyped, ToolState, MaybeCA, CAs
  <2>2. nextId <= MaxIds => [ca |-> tool.run, id |-> nextId] \in Certs
    BY <1>0 DEF ToolTyped, ToolState, HistoryTyped, Certs, CAs
  <2>. QED
    BY <1>0, <1>5, <2>1, <2>2 DEF ToolFills, Leaf, Authority
<1>6. CASE UNCHANGED disks
  BY <1>0, <1>6 DEF disks
<1>. QED
  BY <1>1, <1>2, <1>3, <1>4, <1>5, <1>6
  DEF Next, vars, LoadRootCa, StartFails, StartActive, Stop, JobRun, Rereads,
      RotationFailed, BeginHandshake, Handshake, ToolBegins, ToolDies

\* What the TLS layer holds keeps its types.
LEMMA TlsTypedStep ==
    TypeOK /\ [Next]_vars => CacheTyped' /\ HandshakeTyped' /\ PresentedTyped'
<1>. SUFFICES ASSUME AppTyped, CacheTyped, HandshakeTyped, PresentedTyped,
                     [Next]_vars
     PROVE CacheTyped' /\ HandshakeTyped' /\ PresentedTyped'
  BY TypesNamed
<1>. USE TlsAssumption
    DEF TlsAssumption, CacheTyped, HandshakeTyped, PresentedTyped
<1>1. ASSUME NEW a \in Apps, Stop(a)
      PROVE CacheTyped' /\ HandshakeTyped' /\ PresentedTyped'
  BY <1>1 DEF Stop, NoCache, NoHandshake, Nothing, MaybeCA, MaybeCert
<1>2. ASSUME NEW a \in Apps, BeginHandshake(a)
      PROVE CacheTyped' /\ HandshakeTyped' /\ PresentedTyped'
  <2>1. app[a].cert.id \in 0..MaxIds
    BY DEF AppTyped, AppState, MaybeCert, Certs, NoCert
  <2>. QED
    BY <1>2, <2>1 DEF BeginHandshake, Version
<1>3. ASSUME NEW a \in Apps, Handshake(a)
      PROVE CacheTyped' /\ HandshakeTyped' /\ PresentedTyped'
  BY <1>3 DEF Handshake, Current, NoHandshake, AppTyped, AppState
<1>4. CASE UNCHANGED tls
  BY <1>4 DEF tls
<1>. QED
  BY <1>1, <1>2, <1>3, <1>4
  DEF Next, vars, LoadRootCa, StartFails, StartActive, StartBootstrap, JobRun,
      Rereads, Rotated, RotationFailed, ProvideBootstrap, ToolBegins, ToolOpens,
      ToolFills, ToolDies

\* The tool's progress and the history keep their types.
LEMMA ToolTypedStep == TypeOK /\ [Next]_vars => ToolTyped' /\ HistoryTyped'
<1>. SUFFICES ASSUME ToolTyped, HistoryTyped, AppTyped, [Next]_vars
     PROVE ToolTyped' /\ HistoryTyped'
  BY TypesNamed
<1>. USE TlsAssumption DEF TlsAssumption, ToolTyped, ToolState, HistoryTyped
<1>1. ASSUME NEW a \in Apps,
             LoadRootCa(a) \/ StartFails(a) \/ StartActive(a) \/ Stop(a)
                \/ JobRun(a) \/ RotationFailed(a)
      PROVE ToolTyped' /\ HistoryTyped'
  BY <1>1 DEF LoadRootCa, StartFails, StartActive, Stop, JobRun, Rereads,
     RotationFailed, Ends, ToolIdle
<1>2. ASSUME NEW a \in Apps, StartBootstrap(a) PROVE ToolTyped' /\ HistoryTyped'
  BY <1>2 DEF StartBootstrap
<1>3. ASSUME NEW a \in Apps, Rotated(a) PROVE ToolTyped' /\ HistoryTyped'
  BY <1>3 DEF Rotated
<1>4. CASE ToolBegins
  BY <1>4 DEF ToolBegins, AppTyped, AppState
<1>5. CASE ToolOpens
  BY <1>5 DEF ToolOpens
<1>6. CASE ToolFills
  <2>1. ToolTyped'
    <3>1. (tool.at + 1) % 5 \in 0..4
      OBVIOUS
    <3>. QED
      BY <1>6, <3>1 DEF ToolFills
  <2>2. HistoryTyped'
    BY <1>6 DEF ToolFills
  <2>. QED
    BY <2>1, <2>2
<1>7. CASE ToolDies
  <2>1. tool' = [run |-> tool.run, at |-> 0, open |-> FALSE]
    BY <1>7 DEF ToolDies
  <2>2. ToolTyped'
    BY <2>1
  <2>3. HistoryTyped'
    BY <1>7 DEF ToolDies
  <2>. QED
    BY <2>2, <2>3
<1>8. CASE UNCHANGED <<tool, nextId, kept, since>>
  BY <1>8
<1>. QED
  BY <1>1, <1>2, <1>3, <1>4, <1>5, <1>6, <1>7, <1>8
  DEF Next, vars, ProvideBootstrap, BeginHandshake, Handshake

\* Together: every step keeps the types.
LEMMA TypeOKStep == TypeOK /\ [Next]_vars => TypeOK'
<1>1. TypeOK' <=> /\ FilesTyped' /\ AppTyped' /\ CacheTyped' /\ HandshakeTyped'
                  /\ PresentedTyped' /\ ToolTyped' /\ HistoryTyped'
  BY TypesNamed, PTL
<1>. QED
  BY <1>1, AppTypedStep, FilesTypedStep, TlsTypedStep, ToolTypedStep

\* Typed state, for the steps below.
LEMMA Typing ==
    ASSUME TypeOK, NEW a \in Apps
    PROVE  /\ app[a] \in AppState /\ app[a].cert \in MaybeCert
           /\ certFile[a] \in Certs \cup {NoCert, Torn}
           /\ cache[a].version \in Nat /\ cache[a].cert \in MaybeCert
           /\ handshake \in [Apps -> [version : 0..MaxIds, from : 0..MaxIds]]
           /\ cache \in [Apps -> [version : 0..MaxIds, cert : MaybeCert,
                                  root : MaybeCA]]
           /\ presented \in [Apps -> [cert : MaybeCert, root : MaybeCA,
                                      from : 0..MaxIds]]
           /\ nextId \in Nat /\ tool.run \in Nat /\ tool.at \in 0..4
           /\ app[a].cert.id \in Nat /\ certFile[a].id \in Nat
<1>1. app[a] \in AppState /\ app[a].cert \in MaybeCert
  BY TypesNamed DEF AppTyped, AppState
<1>2. certFile[a] \in Certs \cup {NoCert, Torn}
  BY TypesNamed DEF FilesTyped
<1>3. app[a].cert.id \in Nat /\ certFile[a].id \in Nat
  BY <1>1, <1>2, Kinds DEF MaybeCert
<1>4. cache[a].version \in Nat /\ cache[a].cert \in MaybeCert
  BY TypesNamed, TlsAssumption DEF CacheTyped, TlsAssumption
<1>5. nextId \in Nat /\ tool.run \in Nat /\ tool.at \in 0..4
  BY TypesNamed, TlsAssumption
  DEF HistoryTyped, ToolTyped, ToolState, TlsAssumption
<1>. QED
  BY <1>1, <1>2, <1>3, <1>4, <1>5, TypesNamed
  DEF CacheTyped, HandshakeTyped, PresentedTyped

\* Stopping an application clears what a handshake could use; the
\* certificate in service only gets younger.
LEMMA ServiceInvStep == IInv /\ [Next]_vars => ServiceInv'
<1>. SUFFICES ASSUME IInv, [Next]_vars PROVE ServiceInv'
  OBVIOUS
<1>0. TypeOK /\ ServiceInv /\ NumberInv
  BY DEF IInv
<1>. DEFINE Fine(b) ==
        /\ app[b].phase \in {"down", "rooted"} =>
              app[b].cert = NoCert /\ ~app[b].rotating
        /\ app[b].phase # "up" =>
              /\ handshake[b] = NoHandshake /\ cache[b] = NoCache
              /\ presented[b] = Nothing
        /\ handshake[b] # NoHandshake =>
              /\ handshake[b].version = handshake[b].from
              /\ handshake[b].from \in 1..app[b].cert.id
<1>f. \A b \in Apps : Fine(b)
  BY <1>0 DEF ServiceInv
<1>1. ASSUME NEW a \in Apps, LoadRootCa(a) PROVE ServiceInv'
  <2>1. AppBecomes(a, "rooted", caFile[a], app[a].cert, app[a].rotating)
    BY <1>0, <1>1, LoadRootCaEffect
  <2>. QED
    BY <1>1, <1>f, <2>1 DEF ServiceInv, AppBecomes, LoadRootCa, tls
<1>2. ASSUME NEW a \in Apps, StartFails(a) PROVE ServiceInv'
  <2>1. AppBecomes(a, "down", NoCA, NoCert, FALSE)
    BY <1>0, <1>2, EndsEffect DEF StartFails
  <2>. QED
    BY <1>2, <1>f, <2>1 DEF ServiceInv, AppBecomes, StartFails, tls
<1>3. ASSUME NEW a \in Apps, StartActive(a) \/ JobRun(a) PROVE ServiceInv'
  <2>1. PICK due \in BOOLEAN, phase \in {"calling", "up"} :
           /\ Rereads(a, due, phase)
           /\ AppBecomes(a, phase, app[a].root, certFile[a], due)
           /\ app[a].phase = "up" => phase = "up"
    BY <1>0, <1>3, StartOrJob
  <2>2. /\ Readable(a) /\ app[a].cert.id <= certFile[a].id
        /\ app[a].phase \in {"rooted", "up"}
    BY <1>0, <1>3, StartOrJob DEF NumberInv
  <2>3. app[a].cert.id \in Nat /\ certFile[a].id \in Nat
    BY <1>0, Typing
  <2>4. UNCHANGED <<cache, handshake, presented>>
    BY <2>1 DEF Rereads, tls
  <2>5. Fine(a)'
    BY <1>f, <2>1, <2>2, <2>3, <2>4 DEF AppBecomes
  <2>6. \A b \in Apps \ {a} : Fine(b)'
    BY <1>f, <2>1, <2>4 DEF AppBecomes
  <2>. QED
    BY <2>5, <2>6 DEF ServiceInv
<1>4. ASSUME NEW a \in Apps, StartBootstrap(a) PROVE ServiceInv'
  <2>1. \/ AppBecomes(a, "down", NoCA, NoCert, FALSE)
        \/ AppBecomes(a, "calling", app[a].root, app[a].cert, TRUE)
    BY <1>0, <1>4, StartBootstrapEffect
  <2>. QED
    BY <1>4, <1>f, <2>1 DEF ServiceInv, AppBecomes, StartBootstrap, tls
<1>5. ASSUME NEW a \in Apps, Stop(a) PROVE ServiceInv'
  <2>1. AppBecomes(a, "down", NoCA, NoCert, FALSE)
    BY <1>0, <1>5, EndsEffect DEF Stop
  <2>2. /\ handshake'[a] = NoHandshake /\ cache'[a] = NoCache
        /\ presented'[a] = Nothing
        /\ \A b \in Apps \ {a} : /\ handshake'[b] = handshake[b]
                                 /\ cache'[b] = cache[b]
                                 /\ presented'[b] = presented[b]
    BY <1>0, <1>5, Typing DEF Stop
  <2>. QED
    BY <1>f, <2>1, <2>2 DEF ServiceInv, AppBecomes
<1>6. ASSUME NEW a \in Apps, Rotated(a) PROVE ServiceInv'
  <2>. DEFINE c == [ca |-> 0, id |-> nextId]
  <2>1. AppBecomes(a, "up", app[a].root, c, FALSE)
    BY <1>0, <1>6, RotatedEffect
  <2>2. /\ app[a].cert.id < nextId /\ app[a].cert.id \in Nat /\ nextId \in Nat
        /\ c.id = nextId
    BY <1>0, Typing DEF NumberInv
  <2>3. UNCHANGED <<cache, handshake, presented>>
    BY <1>6 DEF Rotated, tls
  <2>. HIDE DEF c
  <2>4. app'[a].phase = "up" /\ app'[a].cert.id = nextId
    BY <2>1, <2>2 DEF AppBecomes
  <2>5. Fine(a)'
    BY <1>f, <2>2, <2>3, <2>4
  <2>6. \A b \in Apps \ {a} : Fine(b)'
    BY <1>f, <2>1, <2>3 DEF AppBecomes
  <2>. QED
    BY <2>5, <2>6 DEF ServiceInv
<1>7. ASSUME NEW a \in Apps, RotationFailed(a) PROVE ServiceInv'
  <2>1. \/ /\ AppBecomes(a, "down", NoCA, NoCert, FALSE) /\ app[a].cert = NoCert
        \/ AppBecomes(a, "up", app[a].root, app[a].cert, FALSE)
    BY <1>0, <1>7, RotationFailedEffect
  <2>2. app[a].cert = NoCert => app[a].phase # "up"
    BY <1>0, TypesNamed DEF AppTyped, UpHasCert
  <2>. QED
    BY <1>7, <1>f, <2>1, <2>2 DEF ServiceInv, AppBecomes, RotationFailed, tls
<1>8. ASSUME NEW a \in Apps, BeginHandshake(a) PROVE ServiceInv'
  <2>1. app[a].cert.id \in 1..app[a].cert.id
    <3>1. app[a].cert \in Certs
      BY <1>0, <1>8, Typing, TypesNamed
      DEF BeginHandshake, AppTyped, UpHasCert, MaybeCert
    <3>. QED
      BY <3>1, Kinds
  <2>. QED
    BY <1>0, <1>8, <1>f, <2>1, Typing DEF ServiceInv, BeginHandshake, Version
<1>9. ASSUME NEW a \in Apps, Handshake(a) PROVE ServiceInv'
  <2>1. /\ handshake'[a] = NoHandshake /\ app' = app /\ app[a].phase = "up"
        /\ \A b \in Apps \ {a} : /\ handshake'[b] = handshake[b]
                                 /\ cache'[b] = cache[b]
                                 /\ presented'[b] = presented[b]
    BY <1>0, <1>9, <1>f, Typing DEF Handshake
  <2>. QED
    BY <1>f, <2>1 DEF ServiceInv
<1>10. CASE UNCHANGED <<app, tls>>
  BY <1>f, <1>10 DEF ServiceInv, tls
<1>. QED
  BY <1>1, <1>2, <1>3, <1>4, <1>5, <1>6, <1>7, <1>8, <1>9, <1>10
  DEF Next, vars, ProvideBootstrap, ToolBegins, ToolOpens, ToolFills, ToolDies

\* The tool opens its files one after the other.
LEMMA ToolOpensEffect ==
    ASSUME TypeOK, ToolOpens
    PROVE  /\ tool.at \in 1..4 /\ ~tool.open
           /\ tool'.run = tool.run /\ tool'.at = tool.at /\ tool'.open
           /\ tool.at = 1 => /\ certFile' = [certFile EXCEPT ![Server] = Torn]
                             /\ caFile' = caFile
           /\ tool.at = 2 => /\ caFile' = [caFile EXCEPT ![Server] = NoCA]
                             /\ certFile' = certFile
           /\ tool.at = 3 => /\ certFile' = [certFile EXCEPT ![Client] = Torn]
                             /\ caFile' = caFile
           /\ tool.at = 4 => /\ caFile' = [caFile EXCEPT ![Client] = NoCA]
                             /\ certFile' = certFile
<1>1. tool \in ToolState
  BY TypesNamed DEF ToolTyped
<1>2. tool.at \in 1..4
  BY <1>1 DEF ToolOpens, ToolIdle, ToolState
<1>3. tool'.run = tool.run /\ tool'.at = tool.at /\ tool'.open
  BY <1>1 DEF ToolOpens, ToolState
<1>4. ~tool.open
  BY DEF ToolOpens
<1>5. CASE tool.at = 1
  BY <1>2, <1>3, <1>4, <1>5, WritesAre DEF ToolOpens
<1>6. CASE tool.at = 2
  BY <1>2, <1>3, <1>4, <1>6, WritesAre DEF ToolOpens
<1>7. CASE tool.at = 3
  BY <1>2, <1>3, <1>4, <1>7, WritesAre DEF ToolOpens
<1>8. CASE tool.at = 4
  BY <1>2, <1>3, <1>4, <1>8, WritesAre DEF ToolOpens
<1>. QED
  BY <1>2, <1>5, <1>6, <1>7, <1>8

FilledCert(a) ==
    /\ nextId <= MaxIds /\ nextId' = nextId + 1 /\ caFile' = caFile
    /\ certFile' = [certFile EXCEPT ![a] =
                       IF @ # Torn THEN @ ELSE [ca |-> tool.run, id |-> nextId]]

FilledCa(a) ==
    /\ nextId' = nextId /\ certFile' = certFile
    /\ caFile' = [caFile EXCEPT ![a] = tool.run]

\* And fills them in the same order.
LEMMA ToolFillsEffect ==
    ASSUME TypeOK, ToolFills, ~ToolIdle
    PROVE  /\ tool.at \in 1..4 /\ tool.open
           /\ tool'.run = tool.run /\ ~tool'.open
           /\ tool'.at = IF tool.at = 4 THEN 0 ELSE tool.at + 1
           /\ tool.at = 1 => FilledCert(Server)
           /\ tool.at = 2 => FilledCa(Server)
           /\ tool.at = 3 => FilledCert(Client)
           /\ tool.at = 4 => FilledCa(Client)
<1>1. tool \in ToolState
  BY TypesNamed DEF ToolTyped
<1>2. tool.at \in 1..4
  BY <1>1 DEF ToolIdle, ToolState
<1>3. tool' = [tool EXCEPT !.open = FALSE, !.at = (tool.at + 1) % 5]
  BY DEF ToolFills
<1>4. tool' = [run |-> tool.run, at |-> (tool.at + 1) % 5, open |-> FALSE]
  BY <1>1, <1>3 DEF ToolState
<1>5. (tool.at + 1) % 5 = IF tool.at = 4 THEN 0 ELSE tool.at + 1
  BY <1>2
<1>6. /\ tool'.run = tool.run /\ ~tool'.open /\ tool.open
      /\ tool'.at = IF tool.at = 4 THEN 0 ELSE tool.at + 1
  BY <1>4, <1>5 DEF ToolFills
<1>7. CASE tool.at = 1
  BY <1>2, <1>6, <1>7, WritesAre
  DEF ToolFills, FilledCert, FilledCa, Leaf, Authority
<1>8. CASE tool.at = 2
  BY <1>2, <1>6, <1>8, WritesAre
  DEF ToolFills, FilledCert, FilledCa, Leaf, Authority
<1>9. CASE tool.at = 3
  BY <1>2, <1>6, <1>9, WritesAre
  DEF ToolFills, FilledCert, FilledCa, Leaf, Authority
<1>10. CASE tool.at = 4
  BY <1>2, <1>6, <1>10, WritesAre
  DEF ToolFills, FilledCert, FilledCa, Leaf, Authority
<1>. QED
  BY <1>2, <1>7, <1>8, <1>9, <1>10

\* Numbers only grow.
LEMMA NumberInvStep == IInv /\ [Next]_vars => NumberInv'
<1>. SUFFICES ASSUME IInv, [Next]_vars PROVE NumberInv'
  OBVIOUS
<1>0. /\ TypeOK /\ ServiceInv /\ NumberInv /\ (tool.open => ~ToolIdle)
      /\ nextId \in Nat /\ nextId >= 1
  BY TypesNamed, TlsAssumption DEF IInv, StartInv, HistoryTyped, TlsAssumption
<1>. DEFINE Numbered(b) ==
        /\ certFile[b].id < nextId /\ app[b].cert.id < nextId
        /\ certFile[b].id > 0 => app[b].cert.id <= certFile[b].id
     Younger(b) ==
        /\ cache[b].version <= cache[b].cert.id
        /\ presented[b].cert.id >= presented[b].from
<1>n. /\ \A b \in Apps : Numbered(b) /\ Younger(b)
      /\ \A b \in Apps : certFile[b].id \in Nat /\ app[b].cert.id \in Nat
  BY <1>0, Typing DEF NumberInv, FreshHandshake, Readable
<1>g. SUFFICES ASSUME NEW b \in Apps PROVE Numbered(b)' /\ Younger(b)'
  BY DEF NumberInv, FreshHandshake, Readable
<1>1. ASSUME NEW a \in Apps, LoadRootCa(a) PROVE Numbered(b)' /\ Younger(b)'
  <2>1. AppBecomes(a, "rooted", caFile[a], app[a].cert, app[a].rotating)
    BY <1>0, <1>1, LoadRootCaEffect
  <2>2. app'[b].cert = app[b].cert
    BY <2>1 DEF AppBecomes
  <2>. QED
    BY <1>1, <1>n, <2>2 DEF LoadRootCa, tls, disks
<1>2. ASSUME NEW a \in Apps, StartFails(a) PROVE Numbered(b)' /\ Younger(b)'
  <2>1. AppBecomes(a, "down", NoCA, NoCert, FALSE)
    BY <1>0, <1>2, EndsEffect DEF StartFails
  <2>2. app'[b].cert \in {app[b].cert, NoCert}
    BY <2>1 DEF AppBecomes
  <2>. QED
    BY <1>0, <1>2, <1>n, <2>2, Kinds DEF StartFails, tls, disks
<1>3. ASSUME NEW a \in Apps, StartActive(a) \/ JobRun(a)
      PROVE  Numbered(b)' /\ Younger(b)'
  <2>1. PICK due \in BOOLEAN, phase \in {"calling", "up"} :
           /\ Rereads(a, due, phase)
           /\ AppBecomes(a, phase, app[a].root, certFile[a], due)
    BY <1>0, <1>3, StartOrJob
  <2>2. app'[b].cert \in {app[b].cert, certFile[b]}
    BY <2>1 DEF AppBecomes
  <2>. QED
    BY <1>0, <1>n, <2>1, <2>2 DEF Rereads, tls, disks
<1>4. ASSUME NEW a \in Apps, StartBootstrap(a) PROVE Numbered(b)' /\ Younger(b)'
  <2>1. \/ AppBecomes(a, "down", NoCA, NoCert, FALSE)
        \/ AppBecomes(a, "calling", app[a].root, app[a].cert, TRUE)
    BY <1>0, <1>4, StartBootstrapEffect
  <2>2. app'[b].cert \in {app[b].cert, NoCert}
    BY <2>1 DEF AppBecomes
  <2>3. certFile'[b] \in {certFile[b], NoCert}
    BY <1>0, <1>4, TypesNamed DEF StartBootstrap, FilesTyped
  <2>4. certFile'[b] = NoCert \/ certFile'[b] = certFile[b]
    BY <2>3
  <2>. QED
    BY <1>0, <1>4, <1>n, <2>2, <2>4, Kinds DEF StartBootstrap, tls
<1>5. ASSUME NEW a \in Apps, Stop(a) PROVE Numbered(b)' /\ Younger(b)'
  <2>1. AppBecomes(a, "down", NoCA, NoCert, FALSE)
    BY <1>0, <1>5, EndsEffect DEF Stop
  <2>2. app'[b].cert \in {app[b].cert, NoCert}
    BY <2>1 DEF AppBecomes
  <2>3. /\ cache'[b] = cache[b] \/ cache'[b] = NoCache
        /\ presented'[b] = presented[b] \/ presented'[b] = Nothing
    BY <1>0, <1>5, Typing DEF Stop
  <2>4. Younger(b)'
    BY <1>n, <2>3, Kinds DEF NoCache, Nothing
  <2>. QED
    BY <1>0, <1>5, <1>n, <2>2, <2>4, Kinds DEF Stop, disks
<1>6. ASSUME NEW a \in Apps, Rotated(a) PROVE Numbered(b)' /\ Younger(b)'
  <2>. DEFINE c == [ca |-> 0, id |-> nextId]
  <2>1. /\ AppBecomes(a, "up", app[a].root, c, FALSE)
        /\ certFile' = [certFile EXCEPT ![a] = c] /\ nextId' = nextId + 1
    BY <1>0, <1>6, RotatedEffect
  <2>2. c.id = nextId
    OBVIOUS
  <2>. HIDE DEF c
  <2>3. \/ app'[b].cert = c /\ certFile'[b] = c
        \/ app'[b].cert = app[b].cert /\ certFile'[b] = certFile[b]
    BY <1>0, <2>1, TypesNamed DEF AppBecomes, FilesTyped
  <2>4. UNCHANGED <<cache, presented>>
    BY <1>6 DEF Rotated, tls
  <2>. QED
    BY <1>0, <1>n, <2>1, <2>2, <2>3, <2>4
<1>7. ASSUME NEW a \in Apps, RotationFailed(a) PROVE Numbered(b)' /\ Younger(b)'
  <2>1. \/ AppBecomes(a, "down", NoCA, NoCert, FALSE)
        \/ AppBecomes(a, "up", app[a].root, app[a].cert, FALSE)
    BY <1>0, <1>7, RotationFailedEffect
  <2>2. app'[b].cert \in {app[b].cert, NoCert}
    BY <2>1 DEF AppBecomes
  <2>. QED
    BY <1>0, <1>7, <1>n, <2>2, Kinds DEF RotationFailed, tls, disks
<1>8. ASSUME NEW a \in Apps, Handshake(a) PROVE Numbered(b)' /\ Younger(b)'
  <2>1. UNCHANGED <<certFile, app, nextId>>
    BY <1>8 DEF Handshake, disks
  <2>2. CASE b # a
    <3>1. cache'[b] = cache[b] /\ presented'[b] = presented[b]
      BY <1>0, <1>8, <2>2, Typing DEF Handshake
    <3>. QED
      BY <1>n, <2>1, <3>1
  <2>3. CASE b = a
    <3>1. /\ handshake[b].version = handshake[b].from
          /\ handshake[b].from \in 1..app[b].cert.id
      BY <1>0, <1>8, <2>3 DEF ServiceInv, Handshake
    <3>2. \/ cache'[b] = cache[b] /\ handshake[b].version = cache[b].version
          \/ cache'[b] = [version |-> handshake[b].version,
                          cert |-> app[b].cert, root |-> app[b].root]
      BY <1>0, <1>8, <2>3, Typing DEF Handshake, Current
    <3>3. presented'[b] = [cert |-> cache'[b].cert, root |-> cache'[b].root,
                           from |-> handshake[b].from]
      BY <1>0, <1>8, <2>3, Typing DEF Handshake
    <3>4. cache[b].cert.id \in Nat /\ cache[b].version \in Nat
      BY <1>0, Typing, Kinds DEF MaybeCert
    <3>. QED
      BY <1>n, <2>1, <3>1, <3>2, <3>3, <3>4
  <2>. QED
    BY <2>2, <2>3
<1>9. CASE ToolOpens
  <2>1. certFile'[b] = certFile[b] \/ certFile'[b] = Torn
    BY <1>0, <1>9, ToolOpensEffect, TypesNamed DEF FilesTyped, Apps
  <2>. QED
    BY <1>0, <1>9, <1>n, <2>1, Kinds DEF ToolOpens, tls
<1>10. CASE ToolFills
  <2>1. \/ certFile'[b] = certFile[b] /\ nextId' \in {nextId, nextId + 1}
        \/ certFile'[b] = [ca |-> tool.run, id |-> nextId]
           /\ nextId' = nextId + 1
    BY <1>0, <1>10, ToolFillsEffect, TypesNamed
    DEF FilesTyped, Apps, FilledCert, FilledCa, ToolFills
  <2>2. UNCHANGED <<app, cache, presented>>
    BY <1>10 DEF ToolFills, tls
  <2>. QED
    BY <1>0, <1>n, <2>1, <2>2
<1>11. CASE UNCHANGED <<certFile, app, cache, presented, nextId>>
  BY <1>n, <1>11
<1>. QED
  BY <1>1, <1>2, <1>3, <1>4, <1>5, <1>6, <1>7, <1>8, <1>9, <1>10, <1>11
  DEF Next, vars, disks, tls, ProvideBootstrap, BeginHandshake, ToolBegins,
      ToolDies

\* Only a start with the tool at rest counts as one after its last run.
LEMMA StartInvStep == IInv /\ [Next]_vars => StartInv'
<1>. SUFFICES ASSUME IInv, [Next]_vars PROVE StartInv'
  OBVIOUS
<1>0. /\ TypeOK /\ StartInv /\ tool \in ToolState
      /\ kept \in [Apps -> BOOLEAN] /\ since \in [Apps -> BOOLEAN]
  BY TypesNamed DEF IInv, ToolTyped, HistoryTyped
<1>. USE DEF StartInv, ToolIdle
<1>1. ASSUME NEW a \in Apps, LoadRootCa(a) PROVE StartInv'
  BY <1>0, <1>1 DEF LoadRootCa
<1>2. ASSUME NEW a \in Apps, StartFails(a) \/ Stop(a) PROVE StartInv'
  BY <1>0, <1>2 DEF StartFails, Stop, Ends
<1>3. ASSUME NEW a \in Apps, StartActive(a) \/ JobRun(a) PROVE StartInv'
  <2>1. PICK due \in BOOLEAN, phase \in {"calling", "up"} :
           Rereads(a, due, phase)
    BY <1>0, <1>3, StartOrJob
  <2>. QED
    BY <1>0, <2>1 DEF Rereads
<1>4. ASSUME NEW a \in Apps, StartBootstrap(a) PROVE StartInv'
  <2>1. /\ since'[a] => since[a] /\ tool.run = 0
        /\ \A b \in Apps \ {a} : since'[b] = since[b]
    BY <1>0, <1>4, StartBootstrapEffect
  <2>2. tool' = tool /\ kept' = [kept EXCEPT ![a] = @ /\ tool.run = 0]
    BY <1>4 DEF StartBootstrap
  <2>. QED
    BY <1>0, <2>1, <2>2
<1>5. ASSUME NEW a \in Apps, RotationFailed(a) PROVE StartInv'
  <2>1. UNCHANGED <<tool, kept>>
        /\ \A b \in Apps : since'[b] => since[b]
    BY <1>0, <1>5 DEF RotationFailed, Ends
  <2>. QED
    BY <1>0, <2>1
<1>6. CASE ToolBegins
  <2>1. tool'.run # 0 /\ ~tool'.open /\ \A b \in Apps : ~since'[b]
    BY <1>0, <1>6, TlsAssumption DEF ToolBegins, ToolState, TlsAssumption
  <2>. QED
    BY <2>1
<1>7. CASE ToolOpens
  BY <1>0, <1>7, ToolOpensEffect DEF ToolOpens
<1>8. CASE ToolFills
  <2>1. /\ ~tool'.open /\ tool'.run = tool.run /\ tool.run # 0
        /\ kept' = kept /\ since' = since /\ tool.at # 0
    BY <1>0, <1>8, ToolFillsEffect DEF ToolFills
  <2>. QED
    BY <1>0, <2>1
<1>9. CASE ToolDies
  <2>1. /\ tool' = [run |-> tool.run, at |-> 0, open |-> FALSE]
        /\ since' = since /\ tool.at # 0
    BY <1>0, <1>9 DEF ToolDies, ToolState
  <2>. QED
    BY <1>0, <2>1
<1>10. CASE UNCHANGED <<tool, kept, since>>
  BY <1>0, <1>10
<1>. QED
  BY <1>1, <1>2, <1>3, <1>4, <1>5, <1>6, <1>7, <1>8, <1>9, <1>10
  DEF Next, vars, Rotated, ProvideBootstrap, BeginHandshake, Handshake

\* What counts as a run's is, while the run is the last one.
LEMMA OfRunIs ==
    ASSUME TypeOK, NEW c \in Certs \cup {NoCert}, OfRun(c)
    PROVE  /\ c # NoCert => c.ca = tool.run
           /\ c = NoCert \/ c.ca = 0 => tool.run = 0
<1>1. tool.run \in CAs
  BY TypesNamed DEF ToolTyped, ToolState, CAs
<1>. QED
  BY <1>1, Kinds DEF OfRun

\* A rotation that could write over the tool's files would have to be in flight
\* while the tool runs, or be of a certificate of the Trust Service afterwards.
LEMMA FilesInvStep == IInv /\ [Next]_vars => FilesInv'
<1>. SUFFICES ASSUME IInv, [Next]_vars PROVE FilesInv'
  OBVIOUS
<1>0. /\ TypeOK /\ ServiceInv /\ StartInv /\ FilesInv /\ tool \in ToolState
      /\ kept \in [Apps -> BOOLEAN] /\ caFile \in [Apps -> MaybeCA]
      /\ certFile \in [Apps -> Certs \cup {NoCert, Torn}]
  BY TypesNamed DEF IInv, ToolTyped, HistoryTyped, FilesTyped
<1>. DEFINE Written(b) ==
        kept[b] =>
            /\ tool.at = 0 => caFile[b] = tool.run /\ OfRun(certFile[b])
            /\ app[b].rotating => tool.at = 0 /\ OfRun(app[b].cert)
            /\ b = Server =>
                  /\ tool.at > 1 => certFile[Server].ca = tool.run
                  /\ tool.at > 2 => caFile[Server] = tool.run
                  /\ tool.open /\ tool.at = 1 => certFile[Server] = Torn
            /\ b = Client =>
                  /\ tool.at > 3 => certFile[Client].ca = tool.run
                  /\ tool.open /\ tool.at = 3 => certFile[Client] = Torn
<1>f. \A b \in Apps : Written(b)
  BY <1>0 DEF FilesInv, ToolIdle
<1>g. SUFFICES ASSUME NEW b \in Apps PROVE Written(b)'
  BY DEF FilesInv, ToolIdle, Apps
<1>r. ASSUME app'[b] = app[b], certFile'[b] = certFile[b], kept'[b] = kept[b],
             UNCHANGED <<caFile, tool>>
      PROVE  Written(b)'
  BY <1>f, <1>r DEF OfRun
<1>s. ASSUME ~app'[b].rotating, certFile'[b] = certFile[b], kept'[b] = kept[b],
             UNCHANGED <<caFile, tool>>
      PROVE  Written(b)'
  BY <1>f, <1>s DEF OfRun
<1>1. ASSUME NEW a \in Apps, LoadRootCa(a) PROVE Written(b)'
  <2>1. AppBecomes(a, "rooted", caFile[a], app[a].cert, app[a].rotating)
    BY <1>0, <1>1, LoadRootCaEffect
  <2>2. app'[b].cert = app[b].cert /\ app'[b].rotating = app[b].rotating
    BY <2>1 DEF AppBecomes
  <2>. QED
    BY <1>1, <1>f, <2>2 DEF LoadRootCa, disks, OfRun
<1>2. ASSUME NEW a \in Apps, StartFails(a) \/ Stop(a) PROVE Written(b)'
  <2>1. AppBecomes(a, "down", NoCA, NoCert, FALSE)
    BY <1>0, <1>2, EndsEffect DEF StartFails, Stop
  <2>2. app'[b] = app[b] \/ ~app'[b].rotating
    BY <2>1 DEF AppBecomes
  <2>. QED
    BY <1>2, <1>r, <1>s, <2>2 DEF StartFails, Stop, disks
<1>3. ASSUME NEW a \in Apps, StartActive(a) \/ JobRun(a) PROVE Written(b)'
  <2>1. PICK due \in BOOLEAN, phase \in {"calling", "up"} :
           /\ Rereads(a, due, phase)
           /\ AppBecomes(a, phase, app[a].root, certFile[a], due)
    BY <1>0, <1>3, StartOrJob
  <2>2. UNCHANGED <<caFile, certFile, tool>>
    BY <2>1 DEF Rereads, disks
  <2>3. CASE b # a
    BY <1>0, <1>r, <2>1, <2>2, <2>3 DEF AppBecomes, Rereads
  <2>4. CASE b = a
    <3>1. app'[b].cert = certFile[b] /\ app'[b].rotating = due
      BY <2>1, <2>4 DEF AppBecomes
    <3>2. kept'[b] => kept[b] /\ (tool.at = 0 \/ ~due)
      BY <1>0, <2>1, <2>4 DEF Rereads, ToolIdle
    <3>. QED
      BY <1>f, <2>2, <3>1, <3>2 DEF OfRun
  <2>. QED
    BY <2>3, <2>4
<1>4. ASSUME NEW a \in Apps, StartBootstrap(a) PROVE Written(b)'
  <2>1. \/ AppBecomes(a, "down", NoCA, NoCert, FALSE)
        \/ AppBecomes(a, "calling", app[a].root, app[a].cert, TRUE)
    BY <1>0, <1>4, StartBootstrapEffect
  <2>2. /\ UNCHANGED <<caFile, tool>>
        /\ certFile' = [certFile EXCEPT ![a] = NoCert]
        /\ kept' = [kept EXCEPT ![a] = @ /\ tool.run = 0]
        /\ app[a].phase = "rooted"
    BY <1>4 DEF StartBootstrap
  <2>3. CASE b # a
    <3>1. app'[b] = app[b]
      BY <2>1, <2>3 DEF AppBecomes
    <3>. QED
      BY <1>0, <1>r, <2>2, <2>3, <3>1
  <2>4. CASE b = a
    <3>1. app'[b].cert = NoCert
      BY <1>0, <2>1, <2>2, <2>4 DEF AppBecomes, ServiceInv
    <3>2. certFile'[b] = NoCert /\ (kept'[b] => kept[b] /\ tool.run = 0)
      BY <1>0, <2>2, <2>4
    <3>3. tool.run = 0 => tool.at = 0
      BY <1>0 DEF StartInv, ToolIdle
    <3>4. kept'[b] => /\ kept[b] /\ tool.run = 0 /\ tool.at = 0
                      /\ caFile[b] = tool.run /\ OfRun(NoCert)'
      BY <1>f, <2>2, <3>2, <3>3 DEF OfRun
    <3>. QED
      BY <2>2, <3>1, <3>2, <3>4
  <2>. QED
    BY <2>3, <2>4
<1>5. ASSUME NEW a \in Apps, Rotated(a) PROVE Written(b)'
  <2>. DEFINE c == [ca |-> 0, id |-> nextId]
  <2>1. /\ AppBecomes(a, "up", app[a].root, c, FALSE)
        /\ certFile' = [certFile EXCEPT ![a] = c]
    BY <1>0, <1>5, RotatedEffect
  <2>2. c.ca = 0
    OBVIOUS
  <2>. HIDE DEF c
  <2>3. /\ app[a].rotating /\ (app[a].cert.ca = 0 \/ app[a].cert = NoCert)
        /\ UNCHANGED <<caFile, tool, kept>>
    BY <1>5 DEF Rotated, ByBootstrap
  <2>4. CASE b # a
    BY <1>0, <1>r, <2>1, <2>3, <2>4 DEF AppBecomes
  <2>5. CASE b = a
    <3>1. ~app'[b].rotating /\ certFile'[b] = c
      BY <1>0, <2>1, <2>5 DEF AppBecomes
    <3>2. kept[b] => tool.at = 0 /\ OfRun(app[b].cert) /\ caFile[b] = tool.run
      BY <1>f, <2>3, <2>5
    <3>3. app[b].cert \in Certs \cup {NoCert}
      BY <1>0, Typing DEF MaybeCert
    <3>4. kept[b] => tool.run = 0
      BY <1>0, <2>3, <2>5, <3>2, <3>3, OfRunIs
    <3>5. certFile'[b].ca = 0 /\ tool' = tool
      BY <2>2, <2>3, <3>1
    <3>6. tool.run = 0 => OfRun(certFile[b])'
      BY <3>5 DEF OfRun
    <3>. QED
      BY <2>3, <2>5, <3>1, <3>2, <3>4, <3>6
  <2>. QED
    BY <2>4, <2>5
<1>6. ASSUME NEW a \in Apps, RotationFailed(a) PROVE Written(b)'
  <2>1. \/ AppBecomes(a, "down", NoCA, NoCert, FALSE)
        \/ AppBecomes(a, "up", app[a].root, app[a].cert, FALSE)
    BY <1>0, <1>6, RotationFailedEffect
  <2>2. app'[b] = app[b] \/ ~app'[b].rotating
    BY <2>1 DEF AppBecomes
  <2>. QED
    BY <1>6, <1>r, <1>s, <2>2 DEF RotationFailed, disks
<1>7. CASE ToolBegins
  <2>1. tool'.at = 1 /\ ~tool'.open
    BY <1>7 DEF ToolBegins
  <2>2. kept'[b] => ~app'[b].rotating
    BY <1>7 DEF ToolBegins
  <2>. QED
    BY <2>1, <2>2
<1>8. CASE ToolOpens
  <2>1. UNCHANGED <<app, kept>>
    BY <1>8 DEF ToolOpens
  <2>2. Server # Client /\ b \in {Server, Client}
    BY TlsAssumption DEF Apps, TlsAssumption
  <2>3. CASE tool.at = 1
    BY <1>0, <1>8, <1>f, <2>1, <2>2, <2>3, ToolOpensEffect DEF Apps
  <2>4. CASE tool.at = 2
    BY <1>0, <1>8, <1>f, <2>1, <2>2, <2>4, ToolOpensEffect DEF Apps
  <2>5. CASE tool.at = 3
    BY <1>0, <1>8, <1>f, <2>1, <2>2, <2>5, ToolOpensEffect DEF Apps
  <2>6. CASE tool.at = 4
    BY <1>0, <1>8, <1>f, <2>1, <2>2, <2>6, ToolOpensEffect DEF Apps
  <2>. QED
    BY <1>0, <1>8, <2>3, <2>4, <2>5, <2>6, ToolOpensEffect
<1>9. CASE ToolFills
  <2>1. UNCHANGED <<app, kept>>
    BY <1>9 DEF ToolFills
  <2>2. Server # Client /\ b \in {Server, Client}
    BY TlsAssumption DEF Apps, TlsAssumption
  <2>. /\ tool.at \in 1..4 /\ tool.open /\ tool'.run = tool.run /\ ~tool'.open
       /\ tool'.at = IF tool.at = 4 THEN 0 ELSE tool.at + 1
       /\ tool.at = 1 => FilledCert(Server)
       /\ tool.at = 2 => FilledCa(Server)
       /\ tool.at = 3 => FilledCert(Client)
       /\ tool.at = 4 => FilledCa(Client)
    BY <1>0, <1>9, ToolFillsEffect DEF ToolFills, StartInv
  <2>3. CASE tool.at = 1
    BY <1>0, <1>f, <2>1, <2>2, <2>3 DEF Apps, FilledCert, OfRun
  <2>4. CASE tool.at = 2
    BY <1>0, <1>f, <2>1, <2>2, <2>4 DEF Apps, FilledCa, OfRun
  <2>5. CASE tool.at = 3
    BY <1>0, <1>f, <2>1, <2>2, <2>5 DEF Apps, FilledCert, OfRun
  <2>6. CASE tool.at = 4
    BY <1>0, <1>f, <2>1, <2>2, <2>6 DEF Apps, FilledCa, OfRun
  <2>. QED
    BY <2>3, <2>4, <2>5, <2>6
<1>10. CASE ToolDies
  BY <1>10 DEF ToolDies
<1>11. CASE UNCHANGED <<app, caFile, certFile, tool, kept>>
  BY <1>r, <1>11
<1>. QED
  BY <1>1, <1>2, <1>3, <1>4, <1>5, <1>6, <1>7, <1>8, <1>9, <1>10, <1>11
  DEF Next, vars, disks, ProvideBootstrap, BeginHandshake, Handshake

\* Whatever is read after the last run, from disk or from the resolvers, is of
\* that run.
LEMMA MemoryInvStep == IInv /\ [Next]_vars => MemoryInv'
<1>. SUFFICES ASSUME IInv, [Next]_vars PROVE MemoryInv'
  OBVIOUS
<1>0. /\ TypeOK /\ ServiceInv /\ StartInv /\ FilesInv /\ MemoryInv
      /\ since \in [Apps -> BOOLEAN]
  BY TypesNamed DEF IInv, HistoryTyped
<1>. DEFINE Holds(b) ==
        /\ app[b].phase # "down" => app[b].root = tool.run
        /\ app[b].cert # NoCert => app[b].cert.ca = tool.run
     Shown(b) ==
        /\ cache[b] # NoCache =>
              cache[b].cert.ca = tool.run /\ cache[b].root = tool.run
        /\ presented[b] # Nothing =>
              /\ presented[b].cert.ca = tool.run
              /\ presented[b].root = tool.run
<1>m. \A b \in Apps : since[b] => Holds(b) /\ Shown(b)
  BY <1>0 DEF MemoryInv
<1>d. \A b \in Apps :
         since[b] => /\ tool.at = 0 /\ caFile[b] = tool.run
                     /\ OfRun(certFile[b])
                     /\ app[b].rotating => OfRun(app[b].cert)
  BY <1>0 DEF StartInv, FilesInv, ToolIdle
<1>g. SUFFICES ASSUME NEW b \in Apps, since'[b] PROVE Holds(b)' /\ Shown(b)'
  BY DEF MemoryInv
<1>r. ASSUME since[b], app'[b] = app[b], cache'[b] = cache[b],
             presented'[b] = presented[b], tool'.run = tool.run
      PROVE  Holds(b)' /\ Shown(b)'
  BY <1>m, <1>r
<1>1. ASSUME NEW a \in Apps, LoadRootCa(a) PROVE Holds(b)' /\ Shown(b)'
  <2>1. AppBecomes(a, "rooted", caFile[a], app[a].cert, app[a].rotating)
    BY <1>0, <1>1, LoadRootCaEffect
  <2>2. /\ app[a].phase = "down" /\ UNCHANGED <<cache, presented, tool>>
        /\ since' = [since EXCEPT ![a] = ToolIdle /\ kept[a]]
    BY <1>1 DEF LoadRootCa, tls
  <2>3. CASE b # a
    BY <1>0, <1>g, <1>r, <2>1, <2>2, <2>3 DEF AppBecomes
  <2>4. CASE b = a
    <3>1. ToolIdle /\ kept[b]
      BY <1>0, <1>g, <2>2, <2>4
    <3>2. caFile[b] = tool.run
      BY <1>0, <3>1 DEF FilesInv
    <3>3. app'[b].root = caFile[b] /\ app'[b].cert = app[b].cert
      BY <2>1, <2>4 DEF AppBecomes
    <3>4. app[b].cert = NoCert /\ cache[b] = NoCache /\ presented[b] = Nothing
      BY <1>0, <2>2, <2>4 DEF ServiceInv
    <3>. QED
      BY <2>2, <3>2, <3>3, <3>4
  <2>. QED
    BY <2>3, <2>4
<1>2. ASSUME NEW a \in Apps, StartFails(a) \/ Stop(a)
      PROVE  Holds(b)' /\ Shown(b)'
  <2>1. /\ AppBecomes(a, "down", NoCA, NoCert, FALSE)
        /\ since'[a] = FALSE /\ \A x \in Apps \ {a} : since'[x] = since[x]
    BY <1>0, <1>2, EndsEffect DEF StartFails, Stop
  <2>2. b # a /\ since[b] /\ app'[b] = app[b]
    BY <1>g, <2>1 DEF AppBecomes
  <2>3. cache'[b] = cache[b] /\ presented'[b] = presented[b] /\ tool' = tool
    BY <1>0, <1>2, <2>2, Typing DEF StartFails, Stop, tls
  <2>. QED
    BY <1>r, <2>2, <2>3
<1>3. ASSUME NEW a \in Apps, StartActive(a) \/ JobRun(a)
      PROVE  Holds(b)' /\ Shown(b)'
  <2>1. PICK due \in BOOLEAN, phase \in {"calling", "up"} :
           /\ Rereads(a, due, phase)
           /\ AppBecomes(a, phase, app[a].root, certFile[a], due)
    BY <1>0, <1>3, StartOrJob
  <2>2. UNCHANGED <<cache, presented, tool, since>>
    BY <2>1 DEF Rereads, tls
  <2>3. app[a].phase # "down" /\ certFile[a] \in Certs
    BY <1>0, <1>3, StartOrJob
  <2>4. CASE b # a
    BY <1>g, <1>r, <2>1, <2>2, <2>4 DEF AppBecomes
  <2>5. CASE b = a
    <3>1. app'[b].root = app[b].root /\ app'[b].cert = certFile[b]
      BY <2>1, <2>5 DEF AppBecomes
    <3>2. certFile[b].ca = tool.run
      BY <1>0, <1>d, <1>g, <2>2, <2>3, <2>5, OfRunIs, Kinds
    <3>. QED
      BY <1>g, <1>m, <2>2, <2>3, <2>5, <3>1, <3>2
  <2>. QED
    BY <2>4, <2>5
<1>4. ASSUME NEW a \in Apps, StartBootstrap(a) PROVE Holds(b)' /\ Shown(b)'
  <2>1. /\ \/ AppBecomes(a, "down", NoCA, NoCert, FALSE) /\ ~since'[a]
           \/ AppBecomes(a, "calling", app[a].root, app[a].cert, TRUE)
        /\ since'[a] => since[a] /\ tool.run = 0
        /\ \A x \in Apps \ {a} : since'[x] = since[x]
    BY <1>0, <1>4, StartBootstrapEffect
  <2>2. UNCHANGED <<cache, presented, tool>> /\ app[a].phase = "rooted"
    BY <1>4 DEF StartBootstrap, tls
  <2>3. CASE b # a
    BY <1>g, <1>r, <2>1, <2>2, <2>3 DEF AppBecomes
  <2>4. CASE b = a
    <3>1. app'[b].root = app[b].root /\ app'[b].cert = app[b].cert /\ since[b]
      BY <1>g, <2>1, <2>4 DEF AppBecomes
    <3>. QED
      BY <1>m, <2>2, <2>4, <3>1
  <2>. QED
    BY <2>3, <2>4
<1>5. ASSUME NEW a \in Apps, Rotated(a) PROVE Holds(b)' /\ Shown(b)'
  <2>. DEFINE c == [ca |-> 0, id |-> nextId]
  <2>1. AppBecomes(a, "up", app[a].root, c, FALSE)
    BY <1>0, <1>5, RotatedEffect
  <2>2. c.ca = 0
    OBVIOUS
  <2>. HIDE DEF c
  <2>3. /\ app[a].rotating /\ (app[a].cert.ca = 0 \/ app[a].cert = NoCert)
        /\ UNCHANGED <<cache, presented, tool, since>>
    BY <1>5 DEF Rotated, ByBootstrap, tls
  <2>4. CASE b # a
    BY <1>g, <1>r, <2>1, <2>3, <2>4 DEF AppBecomes
  <2>5. CASE b = a
    <3>1. app'[b].root = app[b].root /\ app'[b].cert.ca = 0
      BY <2>1, <2>2, <2>5 DEF AppBecomes
    <3>2. since[b] /\ OfRun(app[b].cert)
      BY <1>d, <1>g, <2>3, <2>5
    <3>3. app[b].cert \in Certs \cup {NoCert}
      BY <1>0, Typing DEF MaybeCert
    <3>4. tool.run = 0
      BY <1>0, <2>3, <2>5, <3>2, <3>3, OfRunIs
    <3>5. app[b].phase # "down"
      BY <1>0, <2>3, <2>5 DEF ServiceInv
    <3>. QED
      BY <1>m, <2>3, <3>1, <3>2, <3>4, <3>5
  <2>. QED
    BY <2>4, <2>5
<1>6. ASSUME NEW a \in Apps, RotationFailed(a) PROVE Holds(b)' /\ Shown(b)'
  <2>1. \/ /\ AppBecomes(a, "down", NoCA, NoCert, FALSE) /\ since'[a] = FALSE
           /\ \A x \in Apps \ {a} : since'[x] = since[x]
        \/ AppBecomes(a, "up", app[a].root, app[a].cert, FALSE)
           /\ since' = since
    BY <1>0, <1>6, RotationFailedEffect
  <2>2. UNCHANGED <<cache, presented, tool>> /\ app[a].rotating
    BY <1>6 DEF RotationFailed, tls
  <2>3. app[a].phase # "down"
    BY <1>0, <2>2 DEF ServiceInv
  <2>4. /\ since[b] /\ app'[b].cert = app[b].cert /\ app'[b].root = app[b].root
        /\ app'[b].phase # "down" => app[b].phase # "down"
    BY <1>g, <2>1, <2>3 DEF AppBecomes
  <2>. QED
    BY <1>m, <2>2, <2>4
<1>7. ASSUME NEW a \in Apps, Handshake(a) PROVE Holds(b)' /\ Shown(b)'
  <2>1. UNCHANGED <<app, tool, since>>
    BY <1>7 DEF Handshake
  <2>2. CASE b # a
    <3>1. cache'[b] = cache[b] /\ presented'[b] = presented[b]
      BY <1>0, <1>7, <2>2, Typing DEF Handshake
    <3>. QED
      BY <1>g, <1>r, <2>1, <3>1
  <2>3. CASE b = a
    <3>1. app[b].phase = "up" /\ app[b].cert # NoCert
      BY <1>0, <1>7, <2>3, TypesNamed
      DEF ServiceInv, Handshake, AppTyped, UpHasCert
    <3>2. app[b].root = tool.run /\ app[b].cert.ca = tool.run
      BY <1>g, <1>m, <2>1, <3>1
    <3>3. \/ cache'[b] = cache[b] /\ handshake[b].version = cache[b].version
          \/ cache'[b] = [version |-> handshake[b].version,
                          cert |-> app[b].cert, root |-> app[b].root]
      BY <1>0, <1>7, <2>3, Typing DEF Handshake, Current
    <3>4. presented'[b] = [cert |-> cache'[b].cert, root |-> cache'[b].root,
                           from |-> handshake[b].from]
      BY <1>0, <1>7, <2>3, Typing DEF Handshake
    <3>5. cache[b] = NoCache => handshake[b].version # cache[b].version
      BY <1>0, <1>7, <2>3, Typing DEF ServiceInv, Handshake, NoCache
    <3>6. cache'[b].cert.ca = tool.run /\ cache'[b].root = tool.run
      BY <1>g, <1>m, <2>1, <3>2, <3>3, <3>5
    <3>. QED
      BY <1>g, <1>m, <2>1, <3>4, <3>6
  <2>. QED
    BY <2>2, <2>3
<1>8. CASE ToolBegins
  BY <1>8, <1>g DEF ToolBegins
<1>9. CASE ToolOpens
  BY <1>0, <1>9, <1>g, <1>r, ToolOpensEffect DEF ToolOpens, tls
<1>10. CASE ToolFills \/ ToolDies
  <2>1. since[b] /\ tool.at # 0
    BY <1>0, <1>10, <1>g DEF ToolFills, ToolDies, StartInv, ToolIdle
  <2>. QED
    BY <1>d, <2>1
<1>11. CASE UNCHANGED <<app, cache, presented, tool, since>>
  BY <1>g, <1>r, <1>11
<1>. QED
  BY <1>1, <1>2, <1>3, <1>4, <1>5, <1>6, <1>7, <1>8, <1>9, <1>10, <1>11
  DEF Next, vars, tls, ProvideBootstrap, BeginHandshake

\* The invariant holds of every reachable state.
THEOREM Invariance == Spec => []IInv
<1>1. IInv /\ [Next]_vars => IInv'
  BY TypeOKStep, ServiceInvStep, NumberInvStep, StartInvStep, FilesInvStep,
     MemoryInvStep DEF IInv
<1>. QED
  BY InitInv, <1>1, PTL DEF Spec

\* Files, memory and the tool's progress keep their types.
THEOREM TypeCorrect == Spec => []TypeOK
<1>1. IInv => TypeOK
  BY DEF IInv
<1>. QED
  BY <1>1, Invariance, PTL

\* No handshake is answered with a certificate older than the one it began
\* under.
THEOREM Fresh == Spec => []FreshHandshake
<1>1. IInv => FreshHandshake
  BY DEF IInv, NumberInv
<1>. QED
  BY <1>1, Invariance, PTL

\* Applications that started after the tool's last run accept each other,
\* whatever came before that run.
THEOREM Trust == Spec => []PeersTrust
<1>1. IInv => PeersTrust
  BY DEF IInv, MemoryInv, PeersTrust
<1>. QED
  BY <1>1, Invariance, PTL
=============================================================================
