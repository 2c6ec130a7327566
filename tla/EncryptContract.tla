-------------------------- MODULE EncryptContract ---------------------------
(***************************************************************************)
(* What mc_encrypt_buffer promises its callers (model_crypt.h:271-288, but *)
(* for one status it does not list), any number of threads at once: a      *)
(* call is answered once; MC_OK comes with a finished encryption of the    *)
(* plaintext asked for, under the key and the options asked for;           *)
(* "encrypting identical input twice under the same key yields unrelated   *)
(* ciphertext".  Decrypt's assumptions on the files that exist are facts   *)
(* about `issued`.                                                         *)
(***************************************************************************)

CONSTANTS
  Threads, Keys, Requests,
  Finished(_)   \* [key, plain, file] is a finished encryption: Container.tla

VARIABLES phase, asked, reply, issued

vars == <<phase, asked, reply, issued>>

\* What model_crypt.h:284-285 lists.
DocumentedFailures ==
  {"MC_ERR_INVALID_ARG", "MC_ERR_TOO_LARGE", "MC_ERR_MEMORY", "MC_ERR_CRYPTO"}
\* A zlib that fails is answered with a status the header has for decryption
\* only (:134-137); the code returns it, so callers have to expect it.
Failures == DocumentedFailures \cup {"MC_ERR_COMPRESS"}

Init ==
  /\ phase = [t \in Threads |-> "idle"]
  /\ asked = [t \in Threads |-> [key |-> "none"]]
  /\ reply = [t \in Threads |-> "none"] /\ issued = {}

Ask(t) ==
  /\ phase[t] = "idle" /\ phase' = [phase EXCEPT ![t] = "busy"]
  /\ \E r \in Requests : asked' = [asked EXCEPT ![t] = r]
  /\ UNCHANGED <<reply, issued>>

\* w is an encryption of what r asks for, unlike any issued before.
Answers(w, r) ==
  /\ w.key = r.key /\ w.key \in Keys /\ w.plain = r.plain /\ Finished(w)
  /\ w.file.hdr.plaintext_size = r.size
  /\ w.file.hdr.kdf = r.opts.kdf
  /\ w.file.hdr.compression_id = r.opts.compression
  /\ w.file.hdr.chunk_size = r.opts.chunk_size
  /\ \A v \in issued : v.file.hdr.salt # w.file.hdr.salt

Deliver(t) ==
  /\ phase[t] = "busy" /\ phase' = [phase EXCEPT ![t] = "returned"]
  /\ reply' = [reply EXCEPT ![t] =
                 [status |-> "MC_OK", file |-> reply'[t].file]]
  /\ LET w == [key |-> asked[t].key, plain |-> asked[t].plain,
               file |-> reply'[t].file]
     IN  Answers(w, asked[t]) /\ issued' = issued \cup {w}
  /\ UNCHANGED asked

Refuse(t) ==
  /\ phase[t] = "busy" /\ phase' = [phase EXCEPT ![t] = "returned"]
  /\ \E rc \in Failures :
       reply' = [reply EXCEPT ![t] = [status |-> rc, file |-> "none"]]
  /\ UNCHANGED <<asked, issued>>

Reset(t) ==
  /\ phase[t] = "returned" /\ phase' = [phase EXCEPT ![t] = "idle"]
  /\ asked' = [asked EXCEPT ![t] = [key |-> "none"]]
  /\ reply' = [reply EXCEPT ![t] = "none"] /\ UNCHANGED issued

Next == \E t \in Threads : Ask(t) \/ Deliver(t) \/ Refuse(t) \/ Reset(t)
ContractSpec == Init /\ [][Next]_vars
=============================================================================
