-------------------------- MODULE CertStore_proofs --------------------------
(***************************************************************************)
(* FileCertificateStore implements the atomic register, for any sets of    *)
(* certificates and keys.                                                  *)
(***************************************************************************)
EXTENDS CertStore, TLAPS

\* cert.json is never torn, and what is about to replace it is whole.
Inv ==
    /\ TypeOK
    /\ file # Torn
    /\ step = "written" => tmp = [cert |-> saving, key |-> key]

\* The invariant holds of an empty directory.
LEMMA InitInv == Init => Inv
BY DistinctAssumption DEF Init, Inv, TypeOK

\* Every disk operation, failure and crash preserves it.
LEMMA NextInv == Inv /\ [Next]_vars => Inv'
<1>. SUFFICES ASSUME Inv, [Next]_vars PROVE Inv'
  OBVIOUS
<1>. USE DistinctAssumption DEF Inv, TypeOK, Sealed
<1>1. CASE \E k \in Keys : Build(k)
  BY <1>1 DEF Build
<1>2. CASE \E c \in Certificates : Open(c)
  BY <1>2 DEF Open, Ready
<1>3. CASE Write
  BY <1>3 DEF Write
<1>4. CASE Replace
  BY <1>4 DEF Replace
<1>5. CASE SaveRaises
  BY <1>5 DEF SaveRaises
<1>6. CASE DeleteAll
  BY <1>6 DEF DeleteAll, Ready
<1>7. CASE FindLatest
  BY <1>7 DEF FindLatest, Ready, Decode
<1>8. CASE Crash
  BY <1>8 DEF Crash
<1>9. CASE UNCHANGED vars
  BY <1>9 DEF vars
<1>. QED BY <1>1, <1>2, <1>3, <1>4, <1>5, <1>6, <1>7, <1>8, <1>9 DEF Next

\* cert.json is never torn, and a finished temporary file is a sealed one.
THEOREM Invariance == Spec => []Inv
BY InitInv, NextInv, PTL DEF Spec

\* Opening and filling the temporary file, a save that raises and the leftovers
\* of one are invisible; os.replace is the moment a save takes effect.
LEMMA RefinesNext == Inv /\ [Next]_vars => [Register!Next]_(Register!vars)
<1>. SUFFICES ASSUME Inv, [Next]_vars PROVE [Register!Next]_(Register!vars)
  OBVIOUS
<1>. USE DEF Inv, TypeOK, Register!Next, Register!vars
<1>1. CASE \E k \in Keys : Build(k)
  BY <1>1 DEF Build, Register!Rekey
<1>2. CASE (\E c \in Certificates : Open(c)) \/ Write \/ SaveRaises
  BY <1>2 DEF Open, Write, SaveRaises
<1>3. CASE Replace
  <2>1. Register!Put(saving)
    BY <1>3 DEF Replace, Register!Put
  <2>. QED BY <1>3, <2>1 DEF Replace
<1>4. CASE DeleteAll
  BY <1>4 DEF DeleteAll, Ready, Register!Clear
<1>5. CASE FindLatest
  BY <1>5 DEF FindLatest, Ready, Decode, Register!Get
<1>6. CASE Crash
  BY <1>6 DEF Crash, Register!Rekey
<1>7. CASE UNCHANGED vars
  BY <1>7 DEF vars
<1>. QED BY <1>1, <1>2, <1>3, <1>4, <1>5, <1>6, <1>7 DEF Next

\* The store is an atomic register across deaths of the process at any point
\* of save, failing writes and leftovers of earlier attempts (save).
THEOREM Implements == Spec => ImplementsRegister
<1>1. Init => Register!Init
  BY DEF Init, Register!Init
<1>. QED BY <1>1, RefinesNext, Invariance, PTL
         DEF ImplementsRegister, Spec, Register!Spec
=============================================================================
