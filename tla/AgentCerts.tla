----------------------------- MODULE AgentCerts -----------------------------
(* The hub manager's certificates for the agents: a CertStore whose files    *)
(* are the keys of one secret, written through the API server and read back  *)
(* through an informer.  A runnable makes the CA and the serving certificate *)
(* once per process; GetConfigValues, in the same process, reads the four    *)
(* files one at a time and hands them to the addon's chart.                  *)
EXTENDS Naturals, FiniteSets

CONSTANTS
    NoSecret,     \* the secret does not exist
    NotHanded,    \* no values have been rendered yet
    MaxKeys,      \* bound on the private keys made
    MaxExpiries,  \* bound on serving certificates that come to expire
    MaxFaults     \* bound on the deaths of the process

VARIABLES
    secret,    \* the files in the API server
    view,      \* the informer's copy
    keys,      \* private keys made so far, numbered from 1
    init,      \* the runnable: InitCA, then GetServerCertPair
    reader,    \* GetConfigValues: the next file and the files read
    handed,    \* the values last rendered
    expired,   \* serving certificates with less than ten minutes left
    faults     \* deaths so far

vars == <<secret, view, keys, init, reader, handed, expired, faults>>

(* A private key is its number, a CA certificate the number of its key, a    *)
(* serving certificate those of its key and of the CA's that signed it.      *)
None == 0
NoCert == [key |-> None, by |-> None]
NoFiles == [cacrt |-> None, cakey |-> None, crt |-> NoCert, key |-> None]

Key == 0..MaxKeys
FileSet == [cacrt : Key, cakey : Key, crt : [key : Key, by : Key], key : Key]

ASSUME CertsAssumption ==
    /\ MaxKeys \in Nat /\ MaxExpiries \in Nat /\ MaxFaults \in Nat
    /\ NoSecret \notin FileSet

InitState == [pc : {"down", "load", "cacrt", "cakey", "get", "crt", "key", "done"},
              cacrt : Key, cakey : Key, new : Key]
ReaderState == [next : {"cacrt", "cakey", "crt", "key"}, got : FileSet]

TypeOK ==
    /\ secret \in FileSet \cup {NoSecret} /\ view \in FileSet \cup {NoSecret}
    /\ keys \in Key
    /\ init \in InitState
    /\ reader \in ReaderState
    /\ handed \in FileSet \cup {NotHanded}
    /\ expired \subseteq Key
    /\ faults \in 0..MaxFaults

(* caCert and caKey of the CertStore, and the key being written. *)
Down == [pc |-> "down", cacrt |-> None, cakey |-> None, new |-> None]
NotReading == [next |-> "cacrt", got |-> NoFiles]

Init == /\ secret = NoSecret
        /\ view = NoSecret
        /\ keys = 0
        /\ init = Down
        /\ reader = NotReading
        /\ handed = NotHanded
        /\ expired = {}
        /\ faults = 0

-----------------------------------------------------------------------------
(* The process.  Its first read waits for the informer's first list. *)
Start == /\ init.pc = "down"
         /\ init' = [Down EXCEPT !.pc = "load"]
         /\ view' = secret
         /\ UNCHANGED <<secret, keys, reader, handed, expired, faults>>

(* The runnable's error is swallowed and the process lives on. *)
MutExit == /\ init' = [Down EXCEPT !.pc = "failed"]
           /\ reader' = NotReading

(* An error of the runnable ends the process. *)
Exit == /\ init' = Down
        /\ reader' = NotReading

(* The process dies, or a write fails, which ends it. *)
Crash == /\ init.pc # "down"
         /\ faults < MaxFaults
         /\ faults' = faults + 1
         /\ Exit
         /\ UNCHANGED <<secret, view, keys, handed, expired>>

SyncView == /\ init.pc # "down"
            /\ view # secret
            /\ view' = secret
            /\ UNCHANGED <<secret, keys, init, reader, handed, expired, faults>>

(* Ten years less ten minutes have passed; making a pair takes less. *)
Expire == /\ init.pc \in {"down", "done"}
          /\ secret # NoSecret /\ secret.crt # NoCert
          /\ Cardinality(expired) < MaxExpiries
          /\ secret.crt.key \notin expired
          /\ expired' = expired \cup {secret.crt.key}
          /\ UNCHANGED <<secret, view, keys, init, reader, handed, faults>>

-----------------------------------------------------------------------------
(* SecretFS. *)

(* What ReadFile and Exists see: the informer's copy. *)
Files == IF view = NoSecret THEN NoFiles ELSE view

(* WriteFile, and the runnable's next state if it succeeds.  CreateOrPatch   *)
(* decides by the informer's copy: right after the first write made the      *)
(* secret, the second may want to create it again and be refused.            *)
WriteFile(file, data, next) ==
    IF view = NoSecret /\ secret # NoSecret
    THEN Exit /\ UNCHANGED secret
    ELSE /\ secret' = [IF secret = NoSecret THEN NoFiles ELSE secret
                          EXCEPT ![file] = data]
         /\ init' = next
         /\ UNCHANGED reader

-----------------------------------------------------------------------------
(* CertStore, as the runnable calls it. *)

(* Every process makes a CA of its own. *)
MutLoadCA == [init EXCEPT !.pc = "cacrt", !.new = keys + 1]

(* InitCA: LoadCA, from the pair or from the key alone, else NewCA, whatever *)
(* the error was.  Only missing files are errors here: Exists and ReadFile   *)
(* read the informer's copy, and what they find is what WriteFile wrote.     *)
LoadCA ==
    CASE Files.cacrt # None /\ Files.cakey # None ->
            [init EXCEPT !.pc = "get", !.cacrt = Files.cacrt, !.cakey = Files.cakey]
      [] Files.cacrt = None /\ Files.cakey # None ->
            [init EXCEPT !.pc = "cacrt", !.new = Files.cakey]
      [] OTHER -> [init EXCEPT !.pc = "cacrt", !.new = keys + 1]

InitCA == /\ init.pc = "load"
          /\ init' = LoadCA
          /\ LoadCA.new <= MaxKeys
          /\ keys' = IF LoadCA.new > keys THEN LoadCA.new ELSE keys
          /\ UNCHANGED <<secret, view, reader, handed, expired, faults>>

(* createCAFromKey writes the certificate, then the key. *)
WriteCACert == /\ init.pc = "cacrt"
               /\ WriteFile("cacrt", init.new, [init EXCEPT !.pc = "cakey"])
               /\ UNCHANGED <<view, keys, handed, expired, faults>>

WriteCAKey == /\ init.pc = "cakey"
              /\ WriteFile("cakey", init.new,
                    [init EXCEPT !.pc = "get", !.cacrt = init.new, !.cakey = init.new])
              /\ UNCHANGED <<view, keys, handed, expired, faults>>

(* The pair is taken to be there when its certificate is. *)
MutNeedsPair == Files.crt = NoCert \/ Files.crt.key \in expired

(* GetServerCertPair makes a new pair when a file of it is missing or the    *)
(* certificate about to expire.  That the key fits it is not looked at.      *)
NeedsPair == \/ Files.crt = NoCert \/ Files.key = None
             \/ Files.crt.key \in expired

(* With a CA certificate of another key signing would fail; ChainOfTrust     *)
(* says that it does not come to that.                                       *)
GetServerCertPair ==
    /\ init.pc = "get"
    /\ \/ /\ ~NeedsPair
          /\ init' = [init EXCEPT !.pc = "done"]
          /\ UNCHANGED <<keys, reader>>
       \/ /\ NeedsPair /\ init.cacrt = init.cakey
          /\ keys < MaxKeys
          /\ keys' = keys + 1
          /\ init' = [init EXCEPT !.pc = "crt", !.new = keys + 1]
          /\ UNCHANGED reader
    /\ UNCHANGED <<secret, view, handed, expired, faults>>

WriteCert == /\ init.pc = "crt"
             /\ WriteFile("crt", [key |-> init.new, by |-> init.cakey],
                          [init EXCEPT !.pc = "key"])
             /\ UNCHANGED <<view, keys, handed, expired, faults>>

WriteKey == /\ init.pc = "key"
            /\ WriteFile("key", init.new, [init EXCEPT !.pc = "done"])
            /\ UNCHANGED <<view, keys, handed, expired, faults>>

Runnable == InitCA \/ WriteCACert \/ WriteCAKey
            \/ GetServerCertPair \/ WriteCert \/ WriteKey

-----------------------------------------------------------------------------
(* GetConfigValues reads the CA's certificate and key and the serving        *)
(* certificate and key, each from the informer's copy of the moment; with    *)
(* all of them it renders the values, without one it fails.  The addon       *)
(* manager calls it again and again.                                         *)
ReadFile(file, next) ==
    /\ reader.next = file
    /\ reader' = IF Files[file] = NoFiles[file] THEN NotReading
                 ELSE [next |-> next, got |-> [reader.got EXCEPT ![file] = Files[file]]]

GetConfigValues ==
    /\ init.pc # "down"
    /\ \/ ReadFile("cacrt", "cakey") /\ UNCHANGED handed
       \/ ReadFile("cakey", "crt") /\ UNCHANGED handed
       \/ ReadFile("crt", "key") /\ UNCHANGED handed
       \/ /\ ReadFile("key", "cacrt")
          /\ handed' = IF Files.key = None THEN handed ELSE reader'.got
    /\ UNCHANGED <<secret, view, keys, init, expired, faults>>

Next == Start \/ Crash \/ SyncView \/ Expire \/ Runnable \/ GetConfigValues

(* The process is restarted and runs on, the informer catches up, the addon  *)
(* manager resyncs.                                                          *)
Fairness == /\ WF_vars(Start)
            /\ WF_vars(SyncView)
            /\ WF_vars(Runnable)
            /\ WF_vars(GetConfigValues)

Spec == Init /\ [][Next]_vars
FairSpec == Spec /\ Fairness

-----------------------------------------------------------------------------
(* A process that dies between two writes leaves the CA, the serving         *)
(* certificate or both half made, and the next one goes on from that by what *)
(* its informer shows.  Still the CA's key on record always fits its         *)
(* certificate and is the key that signed the serving certificate.           *)
ChainOfTrust ==
    secret # NoSecret =>
       /\ secret.cakey # None => secret.cakey = secret.cacrt
       /\ secret.crt # NoCert => secret.crt.by = secret.cakey

(* Values are rendered in the end, and their certificate verifies with their *)
(* CA, although the first process is likely to fail (its second write wants  *)
(* to create the secret again) and files are read one at a time.             *)
EventuallyHandedOut ==
    <>[](handed # NotHanded /\ handed.crt.by = handed.cacrt)

(* "Private key for the serving certificate": in the end the key handed out  *)
(* is that of the certificate handed out.                                    *)
HandedKeyFitsCert == <>[](handed # NotHanded => handed.crt.key = handed.key)
=============================================================================
