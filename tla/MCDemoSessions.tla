--------------------------- MODULE MCDemoSessions ---------------------------
(* Two socket callers and one of the Vault, with chunks of different sizes.  *)
EXTENDS DemoSessions

CONSTANTS c1, c2, v

\* Chunks of 2 and 1, of 4, and of 3 bytes.
MCChunks == (c1 :> 2) @@ (c2 :> 1) @@ (v :> 1)
MCOffset == (c1 :> (0 :> 0 @@ 1 :> 2 @@ 2 :> 3)) @@ (c2 :> (0 :> 0 @@ 1 :> 4))
            @@ (v :> (0 :> 0 @@ 1 :> 3))
MCParts == (c1 :> 2) @@ (c2 :> 0) @@ (v :> 1)
=============================================================================
