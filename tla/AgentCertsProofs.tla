-------------------------- MODULE AgentCertsProofs --------------------------
(* For any number of keys, expiries and deaths of the process: types, and    *)
(* that the files in the secret form a chain of trust.                       *)
EXTENDS AgentCerts, TLAPS

(* The files in the API server. *)
OnRecord == IF secret = NoSecret THEN NoFiles ELSE secret

(* The chain, with the fact that a serving certificate was signed by some    *)
(* key: while there is no CA key there is no serving certificate either, so  *)
(* a new CA, made because its files are not complete, leaves none behind.    *)
Chain == /\ OnRecord.cakey # None => OnRecord.cakey = OnRecord.cacrt
         /\ OnRecord.crt # NoCert => OnRecord.crt.by = OnRecord.cakey
                                     /\ OnRecord.crt.by # None

(* What the runnable knows at each point: the CA is loaded before anything   *)
(* is written and so from an up-to-date copy, a CA being written is the only *)
(* one, and from then on the CA in memory is the one on record.              *)
Knows ==
    /\ init.pc = "load" => view = secret
    /\ init.pc = "cacrt" => OnRecord.cakey = None /\ init.new # None
    /\ init.pc = "cakey" => /\ OnRecord.cakey = None /\ init.new # None
                            /\ OnRecord.cacrt = init.new
    /\ init.pc \in {"get", "crt", "key", "done"} =>
          /\ init.cakey = OnRecord.cakey /\ init.cakey # None
          /\ init.cacrt = init.cakey

IInv == TypeOK /\ Chain /\ Knows

LEMMA KeyFacts == /\ 0 \in Key
                  /\ \A k \in Key : k < MaxKeys => k + 1 \in Key /\ k + 1 # 0
                  /\ \A k \in Key : k + 1 <= MaxKeys => k + 1 \in Key
  BY CertsAssumption DEF Key

LEMMA FileFacts ==
    /\ NoCert \in [key : Key, by : Key] /\ NoFiles \in FileSet
    /\ NoFiles.cacrt = None /\ NoFiles.cakey = None
    /\ NoFiles.crt = NoCert /\ NoFiles.key = None
    /\ NotReading \in ReaderState
    /\ Down \in InitState /\ Down.pc = "down"
  BY KeyFacts DEF NoFiles, NoCert, None, FileSet, NotReading, ReaderState, Down, InitState

LEMMA InitIInv == ASSUME Init PROVE IInv
<1>1. TypeOK
  BY FileFacts, KeyFacts, CertsAssumption DEF Init, TypeOK
<1>2. Chain
  BY FileFacts DEF Init, Chain, OnRecord
<1>3. Knows
  BY FileFacts DEF Init, Knows
<1> QED
  BY <1>1, <1>2, <1>3 DEF IInv

(* What a read of the informer's copy or of the record can return. *)
LEMMA FilesTyped == ASSUME TypeOK PROVE Files \in FileSet /\ OnRecord \in FileSet
  BY FileFacts DEF TypeOK, Files, OnRecord

(* A process that ends leaves the files as they are. *)
LEMMA ExitIInv ==
    ASSUME IInv, Exit, UNCHANGED <<secret, view, keys, handed, expired>>,
           faults' \in 0..MaxFaults
    PROVE  IInv'
<1>1. init' = Down /\ reader' = NotReading
  BY DEF Exit
<1>2. TypeOK'
  BY <1>1, FileFacts DEF IInv, TypeOK
<1>3. Chain' /\ Knows'
  BY <1>1, FileFacts DEF IInv, Chain, Knows, OnRecord
<1> QED
  BY <1>2, <1>3 DEF IInv

LEMMA WorldIInv ==
    ASSUME IInv, Start \/ Crash \/ SyncView \/ Expire \/ GetConfigValues
    PROVE  IInv'
<1>1. CASE Start
  <2>1. /\ init' \in InitState /\ init'.pc = "load" /\ view' = secret
        /\ UNCHANGED <<secret, keys, reader, handed, expired, faults>>
    BY <1>1, FileFacts DEF Start, InitState
  <2> QED
    BY <2>1 DEF IInv, TypeOK, Chain, Knows, OnRecord
<1>2. CASE Crash
  <2>1. faults' \in 0..MaxFaults
    BY <1>2, CertsAssumption DEF Crash, IInv, TypeOK
  <2> QED
    BY <1>2, <2>1, ExitIInv DEF Crash
<1>3. CASE SyncView
  BY <1>3 DEF SyncView, IInv, TypeOK, Chain, Knows, OnRecord
<1>4. CASE Expire
  <2>1. secret.crt.key \in Key
    BY <1>4 DEF Expire, IInv, TypeOK, FileSet
  <2> QED
    BY <1>4, <2>1 DEF Expire, IInv, TypeOK, Chain, Knows, OnRecord
<1>5. CASE GetConfigValues
  <2>1. Files \in FileSet
    BY FilesTyped DEF IInv
  <2>2. ASSUME NEW file \in {"cacrt", "cakey", "crt", "key"},
               NEW next \in {"cacrt", "cakey", "crt", "key"}, ReadFile(file, next)
        PROVE  reader' \in ReaderState
    <3>1. [reader.got EXCEPT ![file] = Files[file]] \in FileSet
      BY <2>1 DEF IInv, TypeOK, ReaderState, FileSet
    <3>2. [next |-> next, got |-> [reader.got EXCEPT ![file] = Files[file]]]
             \in ReaderState
      BY <3>1 DEF ReaderState
    <3> QED
      BY <2>2, <3>2, FileFacts DEF ReadFile
  <2>3. reader' \in ReaderState
    BY <1>5, <2>2 DEF GetConfigValues
  <2>4. handed' \in FileSet \cup {NotHanded}
    BY <1>5, <2>3 DEF GetConfigValues, ReaderState, IInv, TypeOK
  <2> QED
    BY <1>5, <2>3, <2>4 DEF GetConfigValues, IInv, TypeOK, Chain, Knows, OnRecord
<1> QED
  BY <1>1, <1>2, <1>3, <1>4, <1>5

(* WriteFile either ends the process or changes the one file on record. *)
LEMMA Written ==
    ASSUME TypeOK, NEW file, NEW data, NEW next, WriteFile(file, data, next)
    PROVE  \/ Exit /\ UNCHANGED secret
           \/ /\ secret' = [OnRecord EXCEPT ![file] = data]
              /\ init' = next /\ reader' = reader
  BY DEF WriteFile, OnRecord

LEMMA InitCAIInv == ASSUME IInv, InitCA PROVE IInv'
<1>1. Files = OnRecord
  BY DEF InitCA, IInv, Knows, Files, OnRecord
<1>2. OnRecord \in FileSet
  BY FilesTyped DEF IInv
<1>3. UNCHANGED <<secret, view, reader, handed, expired, faults>>
  BY DEF InitCA
<1>4. CASE OnRecord.cakey # None
  <2>1. OnRecord.cacrt = OnRecord.cakey
    BY <1>4 DEF IInv, Chain
  <2>2. LoadCA = [init EXCEPT !.pc = "get", !.cacrt = OnRecord.cacrt,
                              !.cakey = OnRecord.cakey]
    BY <1>1, <1>4, <2>1 DEF LoadCA
  <2>3. /\ init' \in InitState /\ init'.pc = "get"
        /\ init'.cacrt = OnRecord.cacrt /\ init'.cakey = OnRecord.cakey
        /\ init'.new = init.new
    BY <1>2, <2>2 DEF InitCA, IInv, TypeOK, InitState, FileSet
  <2>4. keys' \in Key
    BY <2>2, <2>3 DEF InitCA, IInv, TypeOK, InitState
  <2> QED
    BY <1>3, <1>4, <2>1, <2>3, <2>4 DEF IInv, TypeOK, Chain, Knows, OnRecord
<1>5. CASE OnRecord.cakey = None
  <2>1. LoadCA = [init EXCEPT !.pc = "cacrt", !.new = keys + 1]
    BY <1>1, <1>5 DEF LoadCA
  <2>2. LoadCA.new = keys + 1
    BY <2>1 DEF IInv, TypeOK, InitState
  <2>3. keys \in Nat /\ keys + 1 \in Key /\ keys + 1 # None /\ keys' = keys + 1
    BY <2>2, CertsAssumption DEF InitCA, IInv, TypeOK, Key, None
  <2>4. init' \in InitState /\ init'.pc = "cacrt" /\ init'.new = keys + 1
    BY <2>1, <2>3 DEF InitCA, IInv, TypeOK, InitState
  <2> QED
    BY <1>3, <1>5, <2>3, <2>4 DEF IInv, TypeOK, Chain, Knows, OnRecord
<1> QED
  BY <1>4, <1>5

(* The writes of the CA.  The first finds no CA key on record, the second    *)
(* adds the key of the certificate the first wrote.                          *)
LEMMA WriteCAIInv == ASSUME IInv, WriteCACert \/ WriteCAKey PROVE IInv'
<1>0. OnRecord \in FileSet /\ init \in InitState
  BY FilesTyped DEF IInv, TypeOK
<1>1. UNCHANGED <<view, keys, handed, expired, faults>>
  BY DEF WriteCACert, WriteCAKey
<1>2. CASE Exit /\ UNCHANGED secret
  BY <1>1, <1>2, ExitIInv DEF IInv, TypeOK
<1>3. CASE /\ init.pc = "cacrt"
           /\ secret' = [OnRecord EXCEPT !["cacrt"] = init.new]
           /\ init' = [init EXCEPT !.pc = "cakey"] /\ reader' = reader
  <2>1. /\ secret' \in FileSet /\ secret'.cacrt = init.new
        /\ secret'.cakey = OnRecord.cakey /\ secret'.crt = OnRecord.crt
    BY <1>0, <1>3 DEF FileSet, InitState
  <2>2. OnRecord' = secret'
    BY <2>1, CertsAssumption DEF OnRecord
  <2>3. init' \in InitState /\ init'.pc = "cakey" /\ init'.new = init.new
    BY <1>0, <1>3 DEF InitState
  <2>4. OnRecord.cakey = None /\ init.new # None
    BY <1>3 DEF IInv, Knows
  <2>5. TypeOK'
    BY <1>1, <1>3, <2>1, <2>3 DEF IInv, TypeOK
  <2>6. Chain'
    BY <2>1, <2>2, <2>4 DEF IInv, Chain
  <2>7. Knows'
    BY <2>1, <2>2, <2>3, <2>4 DEF Knows
  <2> QED
    BY <2>5, <2>6, <2>7 DEF IInv
<1>4. CASE /\ init.pc = "cakey"
           /\ secret' = [OnRecord EXCEPT !["cakey"] = init.new]
           /\ init' = [init EXCEPT !.pc = "get", !.cacrt = init.new, !.cakey = init.new]
           /\ reader' = reader
  <2>1. /\ secret' \in FileSet /\ secret'.cacrt = OnRecord.cacrt
        /\ secret'.cakey = init.new /\ secret'.crt = OnRecord.crt
    BY <1>0, <1>4 DEF FileSet, InitState
  <2>2. OnRecord' = secret'
    BY <2>1, CertsAssumption DEF OnRecord
  <2>3. /\ init' \in InitState /\ init'.pc = "get"
        /\ init'.cacrt = init.new /\ init'.cakey = init.new
    BY <1>0, <1>4 DEF InitState
  <2>4. OnRecord.cakey = None /\ init.new # None /\ OnRecord.cacrt = init.new
    BY <1>4 DEF IInv, Knows
  <2>5. OnRecord.crt = NoCert
    BY <2>4 DEF IInv, Chain
  <2>6. TypeOK'
    BY <1>1, <1>4, <2>1, <2>3 DEF IInv, TypeOK
  <2>7. Chain'
    BY <2>1, <2>2, <2>4, <2>5 DEF Chain
  <2>8. Knows'
    BY <2>1, <2>2, <2>3, <2>4 DEF Knows
  <2> QED
    BY <2>6, <2>7, <2>8 DEF IInv
<1>5. CASE WriteCACert
  BY <1>2, <1>3, <1>5, Written DEF WriteCACert, IInv
<1>6. CASE WriteCAKey
  BY <1>2, <1>4, <1>6, Written DEF WriteCAKey, IInv
<1> QED
  BY <1>5, <1>6

LEMMA GetPairIInv == ASSUME IInv, GetServerCertPair PROVE IInv'
<1>1. init \in InitState /\ init.pc = "get"
  BY DEF GetServerCertPair, IInv, TypeOK
<1>2. UNCHANGED <<secret, view, reader, handed, expired, faults>>
  BY DEF GetServerCertPair
<1>3. /\ init' \in InitState /\ keys' \in Key
      /\ init'.pc \in {"crt", "done"}
      /\ init'.cakey = init.cakey /\ init'.cacrt = init.cacrt
  BY <1>1, KeyFacts DEF GetServerCertPair, IInv, TypeOK, InitState
<1>4. TypeOK'
  BY <1>2, <1>3 DEF IInv, TypeOK
<1>5. Chain' /\ Knows'
  BY <1>1, <1>2, <1>3 DEF IInv, Chain, Knows, OnRecord
<1> QED
  BY <1>4, <1>5 DEF IInv

(* The writes of the serving pair, signed with the CA key on record. *)
LEMMA WritePairIInv == ASSUME IInv, WriteCert \/ WriteKey PROVE IInv'
<1>0. OnRecord \in FileSet /\ init \in InitState
  BY FilesTyped DEF IInv, TypeOK
<1>1. UNCHANGED <<view, keys, handed, expired, faults>>
  BY DEF WriteCert, WriteKey
<1>2. CASE Exit /\ UNCHANGED secret
  BY <1>1, <1>2, ExitIInv DEF IInv, TypeOK
<1>3. CASE /\ init.pc = "crt"
           /\ secret' = [OnRecord EXCEPT !["crt"] = [key |-> init.new, by |-> init.cakey]]
           /\ init' = [init EXCEPT !.pc = "key"] /\ reader' = reader
  <2>1. /\ secret' \in FileSet /\ secret'.cacrt = OnRecord.cacrt
        /\ secret'.cakey = OnRecord.cakey /\ secret'.crt.by = init.cakey
    BY <1>0, <1>3 DEF FileSet, InitState
  <2>2. OnRecord' = secret'
    BY <2>1, CertsAssumption DEF OnRecord
  <2>3. /\ init' \in InitState /\ init'.pc = "key"
        /\ init'.cacrt = init.cacrt /\ init'.cakey = init.cakey
    BY <1>0, <1>3 DEF InitState
  <2>4. init.cakey = OnRecord.cakey /\ init.cakey # None /\ init.cacrt = init.cakey
    BY <1>3 DEF IInv, Knows
  <2>5. TypeOK'
    BY <1>1, <1>3, <2>1, <2>3 DEF IInv, TypeOK
  <2>6. Chain'
    BY <2>1, <2>2, <2>4 DEF IInv, Chain
  <2>7. Knows'
    BY <2>1, <2>2, <2>3, <2>4 DEF Knows
  <2> QED
    BY <2>5, <2>6, <2>7 DEF IInv
<1>4. CASE /\ init.pc = "key"
           /\ secret' = [OnRecord EXCEPT !["key"] = init.new]
           /\ init' = [init EXCEPT !.pc = "done"] /\ reader' = reader
  <2>1. /\ secret' \in FileSet /\ secret'.cacrt = OnRecord.cacrt
        /\ secret'.cakey = OnRecord.cakey /\ secret'.crt = OnRecord.crt
    BY <1>0, <1>4 DEF FileSet, InitState
  <2>2. OnRecord' = secret'
    BY <2>1, CertsAssumption DEF OnRecord
  <2>3. /\ init' \in InitState /\ init'.pc = "done"
        /\ init'.cacrt = init.cacrt /\ init'.cakey = init.cakey
    BY <1>0, <1>4 DEF InitState
  <2>4. init.cakey = OnRecord.cakey /\ init.cakey # None /\ init.cacrt = init.cakey
    BY <1>4 DEF IInv, Knows
  <2>5. TypeOK'
    BY <1>1, <1>4, <2>1, <2>3 DEF IInv, TypeOK
  <2>6. Chain'
    BY <2>1, <2>2 DEF IInv, Chain
  <2>7. Knows'
    BY <2>1, <2>2, <2>3, <2>4 DEF Knows
  <2> QED
    BY <2>5, <2>6, <2>7 DEF IInv
<1>5. CASE WriteCert
  BY <1>2, <1>3, <1>5, Written DEF WriteCert, IInv
<1>6. CASE WriteKey
  BY <1>2, <1>4, <1>6, Written DEF WriteKey, IInv
<1> QED
  BY <1>5, <1>6

(* Every step of the manager, its certificate store and GetConfigValues      *)
(* keeps the inductive invariant.                                            *)
THEOREM Invariance == Spec => []IInv
<1>1. Init => IInv
  BY InitIInv
<1>2. IInv /\ [Next]_vars => IInv'
  <2> SUFFICES ASSUME IInv, [Next]_vars PROVE IInv'
    OBVIOUS
  <2>1. CASE Next
    BY <2>1, WorldIInv, InitCAIInv, WriteCAIInv, GetPairIInv, WritePairIInv
    DEF Next, Runnable
  <2>2. CASE UNCHANGED vars
    BY <2>2 DEF vars, IInv, TypeOK, Chain, Knows, OnRecord
  <2> QED
    BY <2>1, <2>2
<1> QED
  BY <1>1, <1>2, PTL DEF Spec

(* The state of the certificate store and its readers is well typed. *)
THEOREM TypeCorrect == Spec => []TypeOK
<1>1. IInv => TypeOK
  BY DEF IInv
<1> QED
  BY <1>1, Invariance, PTL

(* Whenever the process dies between two of CertStore's writes, the CA key   *)
(* in the secret fits the CA certificate and signed the serving certificate. *)
THEOREM ChainIsKept == Spec => []ChainOfTrust
<1>1. IInv => ChainOfTrust
  BY DEF IInv, Chain, OnRecord, ChainOfTrust
<1> QED
  BY <1>1, Invariance, PTL
=============================================================================
