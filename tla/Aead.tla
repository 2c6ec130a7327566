-------------------------------- MODULE Aead --------------------------------
(***************************************************************************)
(* aead::Seal and aead::Open (src/src/crypt/aead.cc): one caller's calls,  *)
(* each a sequence of EVP calls on a context of its own, any of which may  *)
(* fail.  Encrypt.tla and Decrypt.tla take Seal and Open as one step each, *)
(* ideal over whole arguments; this module shows that the sequence of      *)
(* calls adds up to that.                                                  *)
(*                                                                         *)
(* OpenSSL: a GCM context takes associated data, then text, by lengths of  *)
(* type int, and knows at Final the tag of exactly what it was given.      *)
(***************************************************************************)
EXTENDS Naturals, Sequences, FiniteSets

CONSTANTS
  Keys, Nonces, nullptr,
  Aads, Texts,   \* associated data and plaintexts, as sequences
  Noise,         \* a tag no Seal produced
  IntMax,        \* INT32_MAX
  MaxSeals       \* how many calls of Seal succeed

(***************************************************************************)
(* GCM, ideal: a ciphertext's symbol is the key's, the nonce's, the        *)
(* place's and the plaintext's; under others it deciphers to noise.        *)
(***************************************************************************)
Encipher(key, nonce, text) ==
  [k \in DOMAIN text |-> <<key, nonce, k, text[k]>>]
Decipher(key, nonce, ct) ==
  [k \in DOMAIN ct |-> IF SubSeq(ct[k], 1, 3) = <<key, nonce, k>> THEN ct[k][4]
                       ELSE Noise]
Tag(c) == <<c.key, c.nonce, c.aad, c.ct>>
Ciphertexts == {Encipher(k, n, t) : k \in Keys, n \in Nonces, t \in Texts}

ASSUME AeadAssumption ==
  /\ IntMax \in Nat /\ MaxSeals \in Nat /\ nullptr \notin Keys \cup Nonces
  /\ \A s \in Aads \cup Texts : s \in Seq({s[k] : k \in DOMAIN s})
  /\ \A c \in [key : Keys, nonce : Nonces, aad : Aads, ct : Ciphertexts] :
       Tag(c) # Noise

VARIABLES
  pc,      \* "idle", the EVP call that comes next, or the status returned
  op,      \* "seal" or "open"
  args,    \* [key, nonce, aad, text, buffers, tag]
  ctx,     \* the context, or nullptr
  out,     \* what is in ct after Seal, in pt after Open
  tag,     \* what Seal wrote to its tag
  sealed   \* [key, nonce, aad, text, ct, tag] of every Seal that succeeded

vars == <<pc, op, args, ctx, out, tag, sealed>>

NoArgs == [key |-> nullptr, nonce |-> nullptr, aad |-> <<>>, text |-> <<>>,
           buffers |-> TRUE, tag |-> nullptr]
NewContext == [key |-> nullptr, nonce |-> nullptr, aad |-> <<>>, ct |-> <<>>,
               expected |-> nullptr]

Init ==
  /\ pc = "idle" /\ op = "seal" /\ args = NoArgs /\ ctx = nullptr
  /\ out = <<>> /\ tag = nullptr /\ sealed = {}

----------------------------------------------------------------------------
(* The caller.                                                             *)

Call(o, a) ==
  /\ pc = "idle" /\ pc' = "check" /\ op' = o /\ args' = a
  /\ UNCHANGED <<ctx, out, tag, sealed>>

CallSeal ==
  /\ Cardinality(sealed) < MaxSeals
  /\ \E k \in Keys \cup {nullptr}, n \in Nonces \cup {nullptr}, a \in Aads,
        t \in Texts, b \in BOOLEAN :
       Call("seal", [key |-> k, nonce |-> n, aad |-> a, text |-> t,
                     buffers |-> b, tag |-> nullptr])

\* Tags that were sealed or not, over ciphertexts that were changed or not.
CallOpen ==
  \E k \in Keys \cup {nullptr}, n \in Nonces, a \in Aads, s \in sealed,
     t \in Texts, b \in BOOLEAN :
    \E g \in {s.tag, Noise} :
      Call("open", [key |-> k, nonce |-> n, aad |-> a, buffers |-> b,
                    text |-> Encipher(s.key, s.nonce, t), tag |-> g])

Returned == {"MC_OK", "MC_ERR_INVALID_ARG", "MC_ERR_CRYPTO", "MC_ERR_AUTH"}
Collect ==
  /\ pc \in Returned
  /\ pc' = "idle" /\ args' = NoArgs /\ out' = <<>> /\ tag' = nullptr
  /\ UNCHANGED <<op, ctx, sealed>>

----------------------------------------------------------------------------
(* The call.                                                               *)

\* Every return frees the context, if there is one.
Return(status) == pc' = status /\ ctx' = nullptr /\ UNCHANGED <<op, args>>
Fail == Return("MC_ERR_CRYPTO") /\ UNCHANGED <<out, tag, sealed>>

AnyLengthMutant(s) == TRUE
FitsInInt(s) == Len(s) <= IntMax
\* What a call that takes an int length sees of s.
Given(s) == SubSeq(s, 1, Len(s) % (IntMax + 1))

\* `tag` is never null here; a null aad is an empty one.
ArgumentsValid ==
  /\ args.key # nullptr /\ args.nonce # nullptr
  /\ args.buffers \/ args.text = <<>>
  /\ FitsInInt(args.text) /\ FitsInInt(args.aad)

CheckArguments ==
  /\ pc = "check"
  /\ \/ ~ArgumentsValid /\ Return("MC_ERR_INVALID_ARG") /\ UNCHANGED <<out, tag, sealed>>
     \/ ArgumentsValid /\ pc' = "ctx_new" /\ UNCHANGED <<op, args, ctx, out, tag, sealed>>

\* EVP_CIPHER_CTX_new, and the cipher and its nonce length, which keep nothing.
CtxNew ==
  /\ pc = "ctx_new"
  /\ \/ Fail
     \/ ctx' = NewContext /\ pc' = "cipher" /\ UNCHANGED <<op, args, out, tag, sealed>>

SetCipher ==
  /\ pc = "cipher"
  /\ Fail \/ (pc' = "key" /\ UNCHANGED <<op, args, ctx, out, tag, sealed>>)

SetKeyAndNonce ==
  /\ pc = "key"
  /\ \/ Fail
     \/ /\ ctx' = [ctx EXCEPT !.key = args.key, !.nonce = args.nonce]
        /\ pc' = "aad" /\ UNCHANGED <<op, args, out, tag, sealed>>

\* The associated data Begin hands over; none when there is none.
BeginAad == Given(args.aad)
AddAad ==
  /\ pc = "aad"
  /\ \/ args.aad # <<>> /\ Fail
     \/ /\ ctx' = [ctx EXCEPT !.aad = BeginAad] /\ pc' = "update"
        /\ UNCHANGED <<op, args, out, tag, sealed>>

\* pt is written before the tag is compared.
Update ==
  /\ pc = "update"
  /\ \/ args.text # <<>> /\ Fail
     \/ /\ IF op = "seal"
           THEN /\ out' = Encipher(ctx.key, ctx.nonce, Given(args.text))
                /\ ctx' = [ctx EXCEPT !.ct = out'] /\ pc' = "final"
           ELSE /\ out' = Decipher(ctx.key, ctx.nonce, Given(args.text))
                /\ ctx' = [ctx EXCEPT !.ct = Given(args.text)] /\ pc' = "set_tag"
        /\ UNCHANGED <<op, args, tag, sealed>>

NotSetMutant == nullptr
\* The tag that Final compares.
ExpectedTag == args.tag
SetTag ==
  /\ pc = "set_tag"
  /\ \/ Fail
     \/ /\ ctx' = [ctx EXCEPT !.expected = ExpectedTag] /\ pc' = "final"
        /\ UNCHANGED <<op, args, out, tag, sealed>>

TextOnlyMutant == ctx.expected # Noise
\* The comparison of Final, over all that the context was given.
TagVerifies == Tag(ctx) = ctx.expected
\* Opening, Final fails for the tag only.
FinalOpen ==
  /\ pc = "final" /\ op = "open"
  /\ IF TagVerifies THEN Return("MC_OK") ELSE Return("MC_ERR_AUTH")
  /\ UNCHANGED <<out, tag, sealed>>

FinalSeal ==
  /\ pc = "final" /\ op = "seal"
  /\ Fail \/ (pc' = "get_tag" /\ UNCHANGED <<op, args, ctx, out, tag, sealed>>)

GetTag ==
  /\ pc = "get_tag"
  /\ \/ Fail
     \/ /\ tag' = Tag(ctx) /\ Return("MC_OK") /\ UNCHANGED out
        /\ sealed' = sealed \cup {[key |-> args.key, nonce |-> args.nonce,
             aad |-> args.aad, text |-> args.text, ct |-> out, tag |-> tag']}

Next ==
  \/ CallSeal \/ CallOpen \/ Collect
  \/ CheckArguments \/ CtxNew \/ SetCipher \/ SetKeyAndNonce \/ AddAad
  \/ Update \/ SetTag \/ FinalOpen \/ FinalSeal \/ GetTag

Spec == Init /\ [][Next]_vars

----------------------------------------------------------------------------
(* Properties.                                                             *)

\* What was sealed with these very arguments.
Sealed(s) ==
  /\ s.key = args.key /\ s.nonce = args.nonce /\ s.aad = args.aad
  /\ s.ct = args.text /\ s.tag = args.tag

(***************************************************************************)
(* A successful Seal has sealed all it was given: no length lost its high  *)
(* bits on the way into OpenSSL, and the tag is over all of both texts     *)
(* (aead.cc:26-30).                                                        *)
(***************************************************************************)
SealIsWhole ==
  op = "seal" /\ pc = "MC_OK" =>
    /\ out = Encipher(args.key, args.nonce, args.text)
    /\ tag = <<args.key, args.nonce, args.aad, out>>

(***************************************************************************)
(* Open succeeds only on what one Seal made, with its key, nonce and       *)
(* associated data, and returns what was sealed (aead.h:10-14); and        *)
(* MC_ERR_AUTH says of something that no Seal made it: what was sealed     *)
(* opens, unless OpenSSL itself fails (aead.cc:157-163).                   *)
(***************************************************************************)
OpenIsExact ==
  op = "open" =>
    /\ pc = "MC_OK" => \E s \in sealed : Sealed(s) /\ out = s.text
    /\ pc = "MC_ERR_AUTH" => ~\E s \in sealed : Sealed(s)

----------------------------------------------------------------------------
(* One step for the caller.                                                *)

\* The box that a tag and a ciphertext are, read off the two of them, whatever
\* the call that made them believed.
Box(g, ct) == [key |-> g[1], nonce |-> g[2], aad |-> g[3],
               text |-> Decipher(g[1], g[2], ct)]
Boxes(set) == {Box(s.tag, s.ct) : s \in set}
Presented == {s \in sealed : s.tag = args.tag /\ s.ct = args.text}

Phase == IF pc = "idle" THEN "idle" ELSE IF pc \in Returned THEN "returned" ELSE "busy"

Asked ==
  CASE pc = "idle" -> [op |-> "none"]
    [] pc # "idle" /\ op = "seal" ->
         [op |-> "seal", valid |-> ArgumentsValid,
          box |-> [key |-> args.key, nonce |-> args.nonce, aad |-> args.aad,
                   text |-> args.text]]
    [] OTHER ->
         [op |-> "open", valid |-> ArgumentsValid, key |-> args.key,
          nonce |-> args.nonce, aad |-> args.aad, presented |-> Boxes(Presented)]

Answer == [status |-> IF pc \in Returned THEN pc ELSE "none",
           text |-> IF pc = "MC_OK" /\ op = "open" THEN out ELSE <<>>]

Contract == INSTANCE AeadContract WITH
  phase <- Phase, asked <- Asked, reply <- Answer, sealed <- Boxes(sealed)

(***************************************************************************)
(* Every call of Seal or Open is one step for its caller: a text is sealed *)
(* whole or not at all, and Open gives back what was sealed under the same *)
(* key, nonce and associated data, or nothing (AeadContract.tla;           *)
(* aead.h:8-58).                                                           *)
(***************************************************************************)
ImplementsContract == Contract!ContractSpec
=============================================================================
