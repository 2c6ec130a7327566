-------------------------- MODULE DecryptContract ---------------------------
(***************************************************************************)
(* What mc_decrypt_buffer and mc_inspect_buffer promise their caller       *)
(* (model_crypt.h:290-307, 347-359): a call is answered once; MC_OK comes  *)
(* with exactly the bytes that were encrypted, for the whole file and the  *)
(* key of one encryption; every other status comes with nothing, and       *)
(* MC_ERR_INVALID_ARG with nothing but bad arguments.  MC_ERR_COMPRESS is  *)
(* not among the answers: model_crypt.h:134-136 calls it internal.         *)
(***************************************************************************)
EXTENDS Integers

CONSTANTS Keys, ShortKeys, Inputs, NoInput, Written

VARIABLES phase, asked, reply

Failures == {"MC_ERR_FORMAT", "MC_ERR_UNSUPPORTED", "MC_ERR_AUTH",
             "MC_ERR_CRYPTO", "MC_ERR_MEMORY", "MC_ERR_TOO_LARGE"}

\* The arguments are bad, whatever the file holds.
BadArguments(request) ==
  request[3] = NoInput \/ (request[1] = "decrypt" /\ request[2] \in ShortKeys)

\* The answers a request may get: a failure, or what was written.
Answers(request) ==
  IF BadArguments(request) THEN {[status |-> "MC_ERR_INVALID_ARG", bytes |-> "none"]}
  ELSE [status : Failures, bytes : {"none"}]
    \cup {[status |-> "MC_OK",
           bytes |-> [b \in 0..(w.file.hdr.plaintext_size - 1) |->
                        <<w.plain, b>>]] :
            w \in {v \in Written : request = <<"decrypt", v.key, v.file>>}}
    \cup {[status |-> "MC_OK", bytes |-> "none"] :
            o \in {"inspect"} \cap {request[1]}}

Idle == phase = "idle" /\ asked = <<"none", "none", NoInput>> /\ reply = "none"

Files == Inputs \cup {NoInput}
Ask == /\ phase = "idle" /\ phase' = "busy" /\ reply' = "none"
       /\ \/ asked' \in {"inspect"} \X {"none"} \X Files
          \/ asked' \in {"decrypt"} \X (Keys \cup ShortKeys) \X Files

Reply == /\ phase = "busy" /\ phase' = "returned"
         /\ reply' \in Answers(asked) /\ UNCHANGED asked
Reset == phase = "returned" /\ Idle'

vars == <<phase, asked, reply>>
Next == Ask \/ Reply \/ Reset
ContractSpec == Idle /\ [][Next]_vars
=============================================================================
