------------------------- MODULE SealedBytesProofs -------------------------
(***************************************************************************)
(* Theorems about the bytes that are sealed: that Seal and Open take all   *)
(* of what they are given (Aead.tla), that header and record are written   *)
(* and read byte for byte (ByteLayout.tla), and, of both together, that a  *)
(* chunk opens only where it was sealed.                                   *)
(*                                                                         *)
(* Of a call: the invariant follows it through its EVP calls.  The         *)
(* arguments that CheckArguments let through reach OpenSSL whole, so that  *)
(* the context holds, after each step, the part of the arguments the step  *)
(* names; what GetTag reads and what Final compares is then the tag of the *)
(* arguments.                                                              *)
(*                                                                         *)
(* Of the bytes: an integer is its bytes (quotients and remainders), the   *)
(* fields tile the header, so that what is written can be read and what is *)
(* accepted would be written again.                                        *)
(***************************************************************************)
EXTENDS Aead, ByteLayout, SequenceTheorems, TLAPS

----------------------------------------------------------------------------
(* Calls of Seal and Open.                                                 *)

\* A context that has been given a key, a nonce, and this.
Holding(aad, ct, expected) ==
  [key |-> args.key, nonce |-> args.nonce, aad |-> aad, ct |-> ct,
   expected |-> expected]

\* The steps that only valid arguments reach, and the results.
Checked == {"ctx_new", "cipher", "key", "aad", "update", "set_tag", "final",
            "get_tag", "MC_OK", "MC_ERR_AUTH"}
ArgumentInv ==
  /\ op \in {"seal", "open"}
  /\ pc \in Checked => ArgumentsValid
  /\ pc # "idle" =>
       /\ args.key \in Keys \cup {nullptr} /\ args.nonce \in Nonces \cup {nullptr}
       /\ args.aad \in Aads
       /\ op = "seal" => args.text \in Texts
       /\ op = "open" =>
            /\ args.text \in Ciphertexts
            /\ args.tag = Noise \/ \E s \in sealed : args.tag = s.tag

\* What the context holds before each step.
ContextInv ==
  /\ pc \in {"cipher", "key"} => ctx = NewContext
  /\ pc = "aad" => ctx = Holding(<<>>, <<>>, nullptr)
  /\ pc = "update" => ctx = Holding(args.aad, <<>>, nullptr)
  /\ pc = "set_tag" => op = "open" /\ ctx = Holding(args.aad, args.text, nullptr)
  /\ pc = "final" /\ op = "open" => ctx = Holding(args.aad, args.text, args.tag)
  /\ pc = "final" /\ op = "seal" => ctx = Holding(args.aad, out, nullptr)
  /\ pc = "get_tag" => op = "seal" /\ ctx = Holding(args.aad, out, nullptr)

\* What Update has written.
Updated == {"set_tag", "final", "get_tag", "MC_OK", "MC_ERR_AUTH"}
OutputInv ==
  /\ pc \in Updated /\ op = "seal" => out = Encipher(args.key, args.nonce, args.text)
  /\ pc \in Updated /\ op = "open" => out = Decipher(args.key, args.nonce, args.text)

\* What the results say of the tag.
OwnTag(ct) == <<args.key, args.nonce, args.aad, ct>>
ReplyInv ==
  /\ pc = "MC_OK" /\ op = "seal" => tag = OwnTag(out)
  /\ pc = "MC_OK" /\ op = "open" => args.tag = OwnTag(args.text)
  /\ pc = "MC_ERR_AUTH" => op = "open" /\ args.tag # OwnTag(args.text)

\* What was sealed is the encryption of its text, and its tag is over all.
SealedInv ==
  \A s \in sealed :
    /\ s.key \in Keys /\ s.nonce \in Nonces /\ s.text \in Texts
    /\ s.ct = Encipher(s.key, s.nonce, s.text)
    /\ s.tag = <<s.key, s.nonce, s.aad, s.ct>>

AeadInv == ArgumentInv /\ ContextInv /\ OutputInv /\ ReplyInv /\ SealedInv

----------------------------------------------------------------------------
(* Lengths and ciphers.                                                    *)

(* A length that fits in an int loses nothing on the way into OpenSSL.     *)
LEMMA FittingIsGivenWhole ==
  ASSUME NEW S, NEW s \in Seq(S), FitsInInt(s)
  PROVE  Given(s) = s
<1>1. Len(s) \in Nat /\ IntMax \in Nat /\ Len(s) <= IntMax
  BY AeadAssumption DEF FitsInInt
<1>2. Len(s) % (IntMax + 1) = Len(s)
  BY <1>1
<1>3. SubSeq(s, 1, Len(s)) = s
  BY SubSeqFull
<1> QED BY <1>2, <1>3 DEF Given

(* A ciphertext is a sequence as long as its text.                         *)
LEMMA CiphertextIsASequence ==
  ASSUME NEW c \in Ciphertexts
  PROVE  \E S : c \in Seq(S)
<1>1. PICK k \in Keys, n \in Nonces, t \in Texts : c = Encipher(k, n, t)
  BY DEF Ciphertexts
<1>2. t \in Seq({t[i] : i \in DOMAIN t})
  BY AeadAssumption
<1>3. Len(t) \in Nat /\ DOMAIN t = 1..Len(t)
  BY <1>2
<1>4. c = [i \in 1..Len(t) |-> <<k, n, i, t[i]>>]
  BY <1>1, <1>3 DEF Encipher
<1>5. c \in [1..Len(t) -> {<<k, n, i, t[i]>> : i \in 1..Len(t)}]
  BY <1>4
<1>6. c \in Seq({<<k, n, i, t[i]>> : i \in 1..Len(t)})
  BY <1>3, <1>5
<1> QED BY <1>6

(* Deciphering undoes enciphering under the same key and nonce.            *)
LEMMA DecipherUndoesEncipher ==
  ASSUME NEW k, NEW n, NEW t \in Texts
  PROVE  Decipher(k, n, Encipher(k, n, t)) = t
<1> DEFINE c == Encipher(k, n, t)
<1>1. t \in Seq({t[i] : i \in DOMAIN t})
  BY AeadAssumption
<1>2. DOMAIN t = 1..Len(t) /\ t = [i \in 1..Len(t) |-> t[i]]
  BY <1>1
<1>3. DOMAIN c = DOMAIN t /\ \A i \in DOMAIN t : c[i] = <<k, n, i, t[i]>>
  BY DEF Encipher
<1>4. ASSUME NEW i \in DOMAIN t
      PROVE  SubSeq(<<k, n, i, t[i]>>, 1, 3) = <<k, n, i>>
  <2> DEFINE u == <<k, n, i, t[i]>>
             S == {k, n, i, t[i]}
  <2>1. \A j \in 1..3 : u[j] \in S
    OBVIOUS
  <2>2. u[1] = k /\ u[2] = n /\ u[3] = i
    OBVIOUS
  <2> HIDE DEF u, S
  <2>3. /\ SubSeq(u, 1, 3) \in Seq(S) /\ Len(SubSeq(u, 1, 3)) = 3
        /\ \A j \in 1..3 : SubSeq(u, 1, 3)[j] = u[1 + j - 1]
    BY <2>1, SubSeqProperties
  <2> DEFINE v == SubSeq(u, 1, 3)
  <2> HIDE DEF v
  <2>4. v[1] = k /\ v[2] = n /\ v[3] = i
    BY <2>2, <2>3 DEF v
  <2>5. v \in Seq(S) /\ Len(v) = 3
    BY <2>3 DEF v
  <2>6. v = <<k, n, i>>
    BY <2>4, <2>5
  <2> QED BY <2>6 DEF u, v
<1>5. ASSUME NEW i \in DOMAIN t
      PROVE  (IF SubSeq(c[i], 1, 3) = <<k, n, i>> THEN c[i][4] ELSE Noise) = t[i]
  BY <1>3, <1>4
<1>6. Decipher(k, n, c) = [i \in DOMAIN t |-> t[i]]
  BY <1>3, <1>5 DEF Decipher
<1> QED BY <1>2, <1>6

(* What a call that passed its checks hands to OpenSSL is its arguments.   *)
LEMMA ArgumentsAreGivenWhole ==
  ASSUME ArgumentInv, pc \in Checked
  PROVE  Given(args.aad) = args.aad /\ Given(args.text) = args.text
<1>1. pc # "idle"
  BY DEF Checked
<1>2. FitsInInt(args.aad) /\ FitsInInt(args.text)
  BY DEF ArgumentInv, ArgumentsValid
<1>3. args.aad \in Aads /\ (args.text \in Texts \/ args.text \in Ciphertexts)
  BY <1>1 DEF ArgumentInv
<1>4. args.aad \in Seq({args.aad[k] : k \in DOMAIN args.aad})
  BY <1>3, AeadAssumption
<1>5. \E S : args.text \in Seq(S)
  <2>1. CASE args.text \in Texts
    BY <2>1, AeadAssumption
  <2>2. CASE args.text \in Ciphertexts
    BY <2>2, CiphertextIsASequence
  <2> QED BY <1>3, <2>1, <2>2
<1>6. Given(args.aad) = args.aad
  BY <1>2, <1>4, FittingIsGivenWhole
<1>7. Given(args.text) = args.text
  BY <1>2, <1>5, FittingIsGivenWhole
<1> QED BY <1>6, <1>7
----------------------------------------------------------------------------
(* The invariant.                                                          *)

LEMMA InitKeeps == Init => AeadInv
BY DEF Init, AeadInv, ArgumentInv, ContextInv, OutputInv, ReplyInv, SealedInv,
       Checked, Updated

\* The steps of the caller, and those that only fail or go on.
LEMMA CallerKeeps ==
  ASSUME AeadInv, CallSeal \/ CallOpen \/ Collect
  PROVE  AeadInv'
<1> USE DEF AeadInv
<1>1. CASE CallSeal
  <2>1. PICK k \in Keys \cup {nullptr}, n \in Nonces \cup {nullptr}, a \in Aads,
             t \in Texts, b \in BOOLEAN :
          Call("seal", [key |-> k, nonce |-> n, aad |-> a, text |-> t,
                        buffers |-> b, tag |-> nullptr])
    BY <1>1 DEF CallSeal
  <2>2. /\ pc' = "check" /\ op' = "seal" /\ sealed' = sealed
        /\ args'.key = k /\ args'.nonce = n /\ args'.aad = a /\ args'.text = t
    BY <2>1 DEF Call
  <2>3. ArgumentInv'
    BY <2>2 DEF ArgumentInv, Checked
  <2>4. ContextInv' /\ OutputInv' /\ ReplyInv'
    BY <2>2 DEF ContextInv, OutputInv, ReplyInv, Updated
  <2>5. SealedInv'
    BY <2>2 DEF SealedInv
  <2> QED BY <2>3, <2>4, <2>5
<1>2. CASE CallOpen
  <2>1. PICK k \in Keys \cup {nullptr}, n \in Nonces, a \in Aads, s \in sealed,
             t \in Texts, b \in BOOLEAN : \E g \in {s.tag, Noise} :
          Call("open", [key |-> k, nonce |-> n, aad |-> a, buffers |-> b,
                        text |-> Encipher(s.key, s.nonce, t), tag |-> g])
    BY <1>2 DEF CallOpen
  <2>0. PICK g \in {s.tag, Noise} :
          Call("open", [key |-> k, nonce |-> n, aad |-> a, buffers |-> b,
                        text |-> Encipher(s.key, s.nonce, t), tag |-> g])
    BY <2>1
  <2>2. /\ pc' = "check" /\ op' = "open" /\ sealed' = sealed
        /\ args'.key = k /\ args'.nonce = n /\ args'.aad = a
        /\ args'.text = Encipher(s.key, s.nonce, t) /\ args'.tag = g
    BY <2>0 DEF Call
  <2>3. s.key \in Keys /\ s.nonce \in Nonces
    BY DEF SealedInv
  <2>4. args'.text \in Ciphertexts
    BY <2>2, <2>3 DEF Ciphertexts
  <2>5. ArgumentInv'
    BY <2>2, <2>4 DEF ArgumentInv, Checked
  <2>6. ContextInv' /\ OutputInv' /\ ReplyInv'
    BY <2>2 DEF ContextInv, OutputInv, ReplyInv, Updated
  <2>7. SealedInv'
    BY <2>2 DEF SealedInv
  <2> QED BY <2>5, <2>6, <2>7
<1>3. CASE Collect
  <2>1. pc' = "idle" /\ op' = op /\ sealed' = sealed
    BY <1>3 DEF Collect
  <2> QED BY <2>1 DEF ArgumentInv, ContextInv, OutputInv, ReplyInv, SealedInv,
                      Checked, Updated
<1> QED BY <1>1, <1>2, <1>3

\* A failure says nothing of the texts.
LEMMA FailKeeps ==
  ASSUME AeadInv, pc # "idle", op' = op, args' = args, sealed' = sealed,
         pc' \in {"MC_ERR_INVALID_ARG", "MC_ERR_CRYPTO"}
  PROVE  AeadInv'
BY DEF AeadInv, ArgumentInv, ContextInv, OutputInv, ReplyInv, SealedInv,
       Checked, Updated

\* A step between the check and the results leaves the arguments as they are.
LEMMA ArgumentsStay ==
  ASSUME AeadInv, pc \in Checked, op' = op, args' = args,
         sealed \subseteq sealed'
  PROVE  ArgumentInv'
<1>1. pc # "idle"
  BY DEF Checked
<1>2. ArgumentsValid'
  BY DEF AeadInv, ArgumentInv, ArgumentsValid, FitsInInt
<1> QED BY <1>1, <1>2 DEF AeadInv, ArgumentInv

LEMMA CheckArgumentsKeeps ==
  ASSUME AeadInv, CheckArguments
  PROVE  AeadInv'
<1>1. CASE ~ArgumentsValid
  BY <1>1, FailKeeps DEF CheckArguments, Return
<1>2. CASE ArgumentsValid
  <2>1. pc = "check" /\ pc' = "ctx_new" /\ UNCHANGED <<op, args, ctx, out, tag, sealed>>
    BY <1>2 DEF CheckArguments
  <2>2. ArgumentsValid'
    BY <1>2, <2>1 DEF ArgumentsValid, FitsInInt
  <2>3. ArgumentInv'
    BY <2>1, <2>2 DEF AeadInv, ArgumentInv
  <2>4. ContextInv' /\ OutputInv' /\ ReplyInv' /\ SealedInv'
    BY <2>1 DEF AeadInv, ContextInv, OutputInv, ReplyInv, SealedInv, Updated
  <2> QED BY <2>3, <2>4 DEF AeadInv
<1> QED BY <1>1, <1>2

LEMMA PreparationKeeps ==
  ASSUME AeadInv, CtxNew \/ SetCipher \/ SetKeyAndNonce \/ AddAad
  PROVE  AeadInv'
<1>1. CASE Fail /\ pc \in {"ctx_new", "cipher", "key", "aad"}
  BY <1>1, FailKeeps DEF Fail, Return
<1>2. ASSUME pc \in {"ctx_new", "cipher", "key", "aad"},
             pc' \in {"cipher", "key", "aad", "update"}, ContextInv',
             UNCHANGED <<op, args, out, tag, sealed>>
      PROVE  AeadInv'
  <2>1. ArgumentInv'
    BY <1>2, ArgumentsStay DEF Checked
  <2>2. OutputInv' /\ ReplyInv' /\ SealedInv'
    BY <1>2 DEF AeadInv, OutputInv, ReplyInv, SealedInv, Updated
  <2> QED BY <1>2, <2>1, <2>2 DEF AeadInv
<1>3. CASE CtxNew /\ ~Fail
  BY <1>2, <1>3 DEF CtxNew, ContextInv
<1>4. CASE SetCipher /\ ~Fail
  BY <1>2, <1>4 DEF SetCipher, AeadInv, ContextInv
<1>5. CASE SetKeyAndNonce /\ ~Fail
  <2>1. ctx = NewContext /\ ctx' = [ctx EXCEPT !.key = args.key, !.nonce = args.nonce]
        /\ pc = "key" /\ pc' = "aad" /\ UNCHANGED <<op, args, out, tag, sealed>>
    BY <1>5 DEF SetKeyAndNonce, AeadInv, ContextInv
  <2>2. ctx' = Holding(<<>>, <<>>, nullptr)'
    BY <2>1 DEF NewContext, Holding
  <2> QED BY <1>2, <2>1, <2>2 DEF ContextInv
<1>6. CASE AddAad /\ ~Fail
  <2>1. ctx = Holding(<<>>, <<>>, nullptr) /\ ctx' = [ctx EXCEPT !.aad = BeginAad]
        /\ pc = "aad" /\ pc' = "update" /\ UNCHANGED <<op, args, out, tag, sealed>>
    BY <1>6 DEF AddAad, AeadInv, ContextInv
  <2>2. BeginAad = args.aad
    BY <2>1, ArgumentsAreGivenWhole DEF BeginAad, AeadInv, Checked
  <2>3. ctx' = Holding(args.aad, <<>>, nullptr)'
    BY <2>1, <2>2 DEF Holding
  <2> QED BY <1>2, <2>1, <2>3 DEF ContextInv
<1>7. Fail => pc \in {"ctx_new", "cipher", "key", "aad"}
  BY DEF CtxNew, SetCipher, SetKeyAndNonce, AddAad
<1> QED BY <1>1, <1>3, <1>4, <1>5, <1>6, <1>7
LEMMA UpdateKeeps ==
  ASSUME AeadInv, Update
  PROVE  AeadInv'
<1> USE DEF Checked
<1>1. CASE Fail
  BY <1>1, FailKeeps DEF Update, Fail, Return
<1>2. CASE ~Fail
  <2>1. ctx = Holding(args.aad, <<>>, nullptr) /\ ctx.key = args.key
        /\ ctx.nonce = args.nonce
    BY DEF Update, AeadInv, ContextInv, Holding
  <2>2. Given(args.text) = args.text
    BY ArgumentsAreGivenWhole DEF Update, AeadInv
  <2>3. UNCHANGED <<op, args, tag, sealed>> /\ pc = "update"
    BY <1>2 DEF Update
  <2>4. CASE op = "seal"
    <3>1. /\ out' = Encipher(args.key, args.nonce, args.text)
          /\ ctx' = [ctx EXCEPT !.ct = out'] /\ pc' = "final"
      BY <1>2, <2>1, <2>2, <2>4 DEF Update
    <3>2. ctx' = Holding(args.aad, out, nullptr)'
      BY <2>1, <2>3, <3>1 DEF Holding
    <3>3. ContextInv'
      BY <2>3, <2>4, <3>1, <3>2 DEF ContextInv
    <3>4. OutputInv' /\ ReplyInv' /\ SealedInv'
      BY <2>3, <2>4, <3>1 DEF AeadInv, OutputInv, ReplyInv, SealedInv
    <3>5. ArgumentInv'
      BY <2>3, ArgumentsStay
    <3> QED BY <3>3, <3>4, <3>5 DEF AeadInv
  <2>5. CASE op = "open"
    <3>1. /\ out' = Decipher(args.key, args.nonce, args.text)
          /\ ctx' = [ctx EXCEPT !.ct = args.text] /\ pc' = "set_tag"
      BY <1>2, <2>1, <2>2, <2>5 DEF Update
    <3>2. ctx' = Holding(args.aad, args.text, nullptr)'
      BY <2>1, <2>3, <3>1 DEF Holding
    <3>3. ContextInv'
      BY <2>3, <2>5, <3>1, <3>2 DEF ContextInv
    <3>4. OutputInv' /\ ReplyInv' /\ SealedInv'
      BY <2>3, <2>5, <3>1 DEF AeadInv, OutputInv, ReplyInv, SealedInv
    <3>5. ArgumentInv'
      BY <2>3, ArgumentsStay
    <3> QED BY <3>3, <3>4, <3>5 DEF AeadInv
  <2> QED BY <2>4, <2>5 DEF AeadInv, ArgumentInv
<1> QED BY <1>1, <1>2

LEMMA SetTagKeeps ==
  ASSUME AeadInv, SetTag
  PROVE  AeadInv'
<1> USE DEF Checked
<1>1. CASE Fail
  BY <1>1, FailKeeps DEF SetTag, Fail, Return
<1>2. CASE ~Fail
  <2>1. /\ ctx' = [ctx EXCEPT !.expected = args.tag] /\ pc = "set_tag" /\ pc' = "final"
        /\ UNCHANGED <<op, args, out, tag, sealed>>
    BY <1>2 DEF SetTag, ExpectedTag
  <2>2. op = "open" /\ ctx = Holding(args.aad, args.text, nullptr)
    BY <2>1 DEF AeadInv, ContextInv
  <2>3. ctx' = Holding(args.aad, args.text, args.tag)'
    BY <2>1, <2>2 DEF Holding
  <2>4. ContextInv'
    BY <2>1, <2>2, <2>3 DEF ContextInv
  <2>5. OutputInv' /\ ReplyInv' /\ SealedInv'
    BY <2>1 DEF AeadInv, OutputInv, ReplyInv, SealedInv, Updated
  <2>6. ArgumentInv'
    BY <2>1, ArgumentsStay
  <2> QED BY <2>4, <2>5, <2>6 DEF AeadInv
<1> QED BY <1>1, <1>2

LEMMA FinalOpenKeeps ==
  ASSUME AeadInv, FinalOpen
  PROVE  AeadInv'
<1> USE DEF Checked
<1>1. /\ pc = "final" /\ op = "open" /\ UNCHANGED <<op, args, out, tag, sealed>>
      /\ pc' = IF TagVerifies THEN "MC_OK" ELSE "MC_ERR_AUTH"
  BY DEF FinalOpen, Return
<1>2. ctx = Holding(args.aad, args.text, args.tag)
  BY <1>1 DEF AeadInv, ContextInv
<1>3. TagVerifies <=> OwnTag(args.text) = args.tag
  BY <1>2 DEF TagVerifies, Tag, Holding, OwnTag
<1>4. ReplyInv'
  BY <1>1, <1>3 DEF ReplyInv, OwnTag
<1>5. ContextInv' /\ OutputInv' /\ SealedInv'
  BY <1>1 DEF AeadInv, ContextInv, OutputInv, SealedInv, Updated
<1>6. ArgumentInv'
  BY <1>1, ArgumentsStay
<1> QED BY <1>4, <1>5, <1>6 DEF AeadInv

LEMMA FinalSealKeeps ==
  ASSUME AeadInv, FinalSeal
  PROVE  AeadInv'
<1> USE DEF Checked
<1>1. CASE Fail
  BY <1>1, FailKeeps DEF FinalSeal, Fail, Return
<1>2. CASE ~Fail
  <2>1. /\ pc = "final" /\ op = "seal" /\ pc' = "get_tag"
        /\ UNCHANGED <<op, args, ctx, out, tag, sealed>>
    BY <1>2 DEF FinalSeal
  <2>2. ContextInv' /\ OutputInv' /\ ReplyInv' /\ SealedInv'
    BY <2>1 DEF AeadInv, ContextInv, OutputInv, ReplyInv, SealedInv, Updated, Holding
  <2>3. ArgumentInv'
    BY <2>1, ArgumentsStay
  <2> QED BY <2>2, <2>3 DEF AeadInv
<1> QED BY <1>1, <1>2

LEMMA GetTagKeeps ==
  ASSUME AeadInv, GetTag
  PROVE  AeadInv'
<1> USE DEF Checked
<1>1. CASE Fail
  BY <1>1, FailKeeps DEF GetTag, Fail, Return
<1>2. CASE ~Fail
  <2> DEFINE new == [key |-> args.key, nonce |-> args.nonce, aad |-> args.aad,
                     text |-> args.text, ct |-> out, tag |-> tag']
  <2>1. /\ pc = "get_tag" /\ pc' = "MC_OK" /\ UNCHANGED <<op, args, out>>
        /\ tag' = Tag(ctx) /\ sealed' = sealed \cup {new}
    BY <1>2 DEF GetTag, Return
  <2>2. op = "seal" /\ ctx = Holding(args.aad, out, nullptr)
    BY <2>1 DEF AeadInv, ContextInv
  <2>3. tag' = OwnTag(out)
    BY <2>1, <2>2 DEF Tag, Holding, OwnTag
  <2>4. out = Encipher(args.key, args.nonce, args.text)
    BY <2>1, <2>2 DEF AeadInv, OutputInv, Updated
  <2>5. ContextInv' /\ OutputInv' /\ ReplyInv'
    BY <2>1, <2>2, <2>3, <2>4 DEF ContextInv, OutputInv, ReplyInv, OwnTag
  <2>6. args.key \in Keys /\ args.nonce \in Nonces /\ args.text \in Texts
    BY <2>1, <2>2 DEF AeadInv, ArgumentInv, ArgumentsValid
  <2>7. SealedInv'
    <3>1. /\ new.key \in Keys /\ new.nonce \in Nonces /\ new.text \in Texts
          /\ new.ct = Encipher(new.key, new.nonce, new.text)
          /\ new.tag = <<new.key, new.nonce, new.aad, new.ct>>
      BY <2>3, <2>4, <2>6 DEF OwnTag
    <3> QED BY <2>1, <3>1 DEF AeadInv, SealedInv
  <2>8. ArgumentInv'
    BY <2>1, ArgumentsStay
  <2> QED BY <2>5, <2>7, <2>8 DEF AeadInv
<1> QED BY <1>1, <1>2

(***************************************************************************)
(* A call keeps its arguments whole from its check to its result, and the  *)
(* context holds at each step the part of them it has been given           *)
(* (aead.cc:35-61, 66-168).                                                *)
(***************************************************************************)
THEOREM AeadInvariant == Spec => []AeadInv
<1>1. AeadInv /\ [Next]_vars => AeadInv'
  <2> SUFFICES ASSUME AeadInv, [Next]_vars PROVE AeadInv'
    OBVIOUS
  <2>1. CASE CallSeal \/ CallOpen \/ Collect
    BY <2>1, CallerKeeps
  <2>2. CASE CheckArguments
    BY <2>2, CheckArgumentsKeeps
  <2>3. CASE CtxNew \/ SetCipher \/ SetKeyAndNonce \/ AddAad
    BY <2>3, PreparationKeeps
  <2>4. CASE Update
    BY <2>4, UpdateKeeps
  <2>5. CASE SetTag
    BY <2>5, SetTagKeeps
  <2>6. CASE FinalOpen
    BY <2>6, FinalOpenKeeps
  <2>7. CASE FinalSeal
    BY <2>7, FinalSealKeeps
  <2>8. CASE GetTag
    BY <2>8, GetTagKeeps
  <2>9. CASE UNCHANGED vars
    BY <2>9 DEF vars, AeadInv, ArgumentInv, ArgumentsValid, FitsInInt, ContextInv,
                Holding, OutputInv, ReplyInv, OwnTag, SealedInv
  <2> QED BY <2>1, <2>2, <2>3, <2>4, <2>5, <2>6, <2>7, <2>8, <2>9 DEF Next
<1> QED BY InitKeeps, <1>1, PTL DEF Spec

----------------------------------------------------------------------------
(* What the results mean.                                                  *)

(***************************************************************************)
(* A successful Seal has sealed all of both texts, whatever their lengths  *)
(* (SealIsWhole; aead.cc:26-30).                                           *)
(***************************************************************************)
THEOREM SealsAreWhole == Spec => []SealIsWhole
<1>1. AeadInv => SealIsWhole
  BY DEF AeadInv, OutputInv, ReplyInv, OwnTag, SealIsWhole, Updated
<1> QED BY AeadInvariant, <1>1, PTL

(* Only a Seal makes the tag of valid arguments.                           *)
LEMMA OwnTagWasSealed ==
  ASSUME AeadInv, op = "open", pc \in Checked, args.tag = OwnTag(args.text)
  PROVE  \E s \in sealed : Sealed(s)
<1>1. /\ args.key \in Keys /\ args.nonce \in Nonces /\ args.aad \in Aads
      /\ args.text \in Ciphertexts
      /\ args.tag = Noise \/ \E s \in sealed : args.tag = s.tag
  BY DEF AeadInv, ArgumentInv, ArgumentsValid, Checked
<1>2. args.tag # Noise
  <2> DEFINE c == [key |-> args.key, nonce |-> args.nonce, aad |-> args.aad,
                   ct |-> args.text]
  <2>1. c \in [key : Keys, nonce : Nonces, aad : Aads, ct : Ciphertexts]
    BY <1>1
  <2>2. Tag(c) = OwnTag(args.text)
    BY DEF Tag, OwnTag
  <2> QED BY <2>1, <2>2, AeadAssumption
<1>3. PICK s \in sealed : args.tag = s.tag
  BY <1>1, <1>2
<1>4. s.tag = <<s.key, s.nonce, s.aad, s.ct>>
  BY DEF AeadInv, SealedInv
<1> QED BY <1>3, <1>4 DEF Sealed, OwnTag

(* What Update deciphers of what was sealed is its text.                   *)
LEMMA SealedDeciphers ==
  ASSUME AeadInv, op = "open", pc \in Updated, NEW s \in sealed, Sealed(s)
  PROVE  out = s.text
<1>1. s.text \in Texts /\ s.ct = Encipher(s.key, s.nonce, s.text)
  BY DEF AeadInv, SealedInv
<1>2. out = Decipher(s.key, s.nonce, Encipher(s.key, s.nonce, s.text))
  BY <1>1 DEF AeadInv, OutputInv, Sealed
<1> QED BY <1>1, <1>2, DecipherUndoesEncipher

(***************************************************************************)
(* Open succeeds on what one Seal made with the same key, nonce and        *)
(* associated data, returns its text, and refuses as forged only what no   *)
(* Seal made (OpenIsExact; aead.h:10-14, aead.cc:157-163).                 *)
(***************************************************************************)
THEOREM OpensAreExact == Spec => []OpenIsExact
<1>1. ASSUME AeadInv, op = "open", pc = "MC_OK"
      PROVE  \E s \in sealed : Sealed(s) /\ out = s.text
  <2>1. args.tag = OwnTag(args.text)
    BY <1>1 DEF AeadInv, ReplyInv
  <2>2. PICK s \in sealed : Sealed(s)
    BY <1>1, <2>1, OwnTagWasSealed DEF Checked
  <2> QED BY <1>1, <2>2, SealedDeciphers DEF Updated
<1>2. ASSUME AeadInv, pc = "MC_ERR_AUTH", NEW s \in sealed, Sealed(s)
      PROVE  FALSE
  <2>1. s.tag = <<s.key, s.nonce, s.aad, s.ct>>
    BY <1>2 DEF AeadInv, SealedInv
  <2>2. args.tag # OwnTag(args.text)
    BY <1>2 DEF AeadInv, ReplyInv
  <2> QED BY <1>2, <2>1, <2>2 DEF Sealed, OwnTag
<1>3. AeadInv => OpenIsExact
  BY <1>1, <1>2 DEF OpenIsExact
<1> QED BY AeadInvariant, <1>3, PTL

----------------------------------------------------------------------------
(* One step for the caller.                                                *)

(* The box of what was sealed is its arguments.                            *)
LEMMA BoxOfSealed ==
  ASSUME SealedInv, NEW s \in sealed
  PROVE  Box(s.tag, s.ct) =
           [key |-> s.key, nonce |-> s.nonce, aad |-> s.aad, text |-> s.text]
<1>1. /\ s.text \in Texts /\ s.ct = Encipher(s.key, s.nonce, s.text)
      /\ s.tag = <<s.key, s.nonce, s.aad, s.ct>>
  BY DEF SealedInv
<1>2. Decipher(s.key, s.nonce, s.ct) = s.text
  BY <1>1, DecipherUndoesEncipher
<1> QED BY <1>1, <1>2 DEF Box

(* What is presented is one box that was sealed, or none: the tag and the  *)
(* ciphertext determine it.                                                *)
LEMMA OneIsPresented ==
  Boxes(Presented) \in {{}} \cup {{box} : box \in Boxes(sealed)}
<1>1. CASE Presented = {}
  BY <1>1 DEF Boxes
<1>2. CASE Presented # {}
  <2>1. PICK s \in sealed : s.tag = args.tag /\ s.ct = args.text
    BY <1>2 DEF Presented
  <2>2. \A t \in Presented : Box(t.tag, t.ct) = Box(s.tag, s.ct)
    BY <2>1 DEF Presented
  <2>3. s \in Presented
    BY <2>1 DEF Presented
  <2>4. Boxes(Presented) = {Box(s.tag, s.ct)}
    BY <2>2, <2>3 DEF Boxes
  <2>5. Box(s.tag, s.ct) \in Boxes(sealed)
    BY DEF Boxes
  <2> QED BY <2>4, <2>5
<1> QED BY <1>1, <1>2

LEMMA OneIsPresentedNext ==
  (Boxes(Presented) \in {{}} \cup {{box} : box \in Boxes(sealed)})'
BY OneIsPresented, PTL

(* An answer between the calls is none.                                    *)
LEMMA AnswerIsNone ==
  ASSUME pc \notin Returned
  PROVE  Answer = Contract!NoReply
<1>1. pc # "MC_OK"
  BY DEF Returned
<1> QED BY <1>1 DEF Answer, Contract!NoReply

(* The request stays what it was as long as arguments and boxes do.        *)
LEMMA RequestStays ==
  ASSUME pc # "idle", pc' # "idle", UNCHANGED <<op, args>>,
         sealed' = sealed \/ op = "seal"
  PROVE  Asked' = Asked
<1>1. ArgumentsValid' = ArgumentsValid
  BY DEF ArgumentsValid, FitsInInt
<1>2. CASE op = "seal"
  BY <1>1, <1>2 DEF Asked
<1>3. CASE op # "seal"
  <2>1. Boxes(Presented)' = Boxes(Presented)
    BY <1>3 DEF Boxes, Presented
  <2> QED BY <1>1, <1>3, <2>1 DEF Asked
<1> QED BY <1>2, <1>3

(* An EVP call after which the call goes on is no step.                    *)
LEMMA GoingOnIsNoStep ==
  ASSUME pc # "idle", pc \notin Returned, pc' # "idle", pc' \notin Returned,
         UNCHANGED <<op, args, sealed>>
  PROVE  UNCHANGED Contract!contractVars
<1>1. Phase' = Phase /\ Asked' = Asked
  BY RequestStays DEF Phase
<1>2. Answer' = Answer
  <2>1. Answer = Contract!NoReply
    BY AnswerIsNone
  <2>2. Answer' = Contract!NoReply
    <3>1. pc' # "MC_OK" /\ (pc \in Returned)' = FALSE
      BY DEF Returned
    <3> QED BY <3>1 DEF Answer, Contract!NoReply
  <2> QED BY <2>1, <2>2
<1>3. Boxes(sealed)' = Boxes(sealed)
  BY DEF Boxes
<1> QED BY <1>1, <1>2, <1>3 DEF Contract!contractVars

(* A step that returns is a reply.                                         *)
LEMMA ReturnIsReply ==
  ASSUME pc # "idle", pc \notin Returned, pc' \in Returned, UNCHANGED <<op, args>>,
         sealed' = sealed \/ op = "seal"
  PROVE  Contract!Reply(pc', IF pc' = "MC_OK" /\ op = "open" THEN out' ELSE <<>>)
<1>1. pc' # "idle"
  BY DEF Returned
<1>2. Phase = "busy" /\ Phase' = "returned"
  BY <1>1 DEF Phase, Returned
<1>3. Asked' = Asked
  BY <1>1, RequestStays
<1>4. Answer' = [status |-> pc',
                 text |-> IF pc' = "MC_OK" /\ op = "open" THEN out' ELSE <<>>]
  BY DEF Answer, Returned
<1> QED BY <1>2, <1>3, <1>4 DEF Contract!Reply

(* Validity is that of the arguments.                                      *)
LEMMA AskedIs ==
  ASSUME pc # "idle", op \in {"seal", "open"}
  PROVE  /\ Asked.valid = ArgumentsValid /\ Asked.op = op
         /\ op = "seal" => Asked.box = [key |-> args.key, nonce |-> args.nonce,
                                        aad |-> args.aad, text |-> args.text]
         /\ op = "open" =>
              /\ Asked.key = args.key /\ Asked.nonce = args.nonce
              /\ Asked.aad = args.aad /\ Asked.presented = Boxes(Presented)
BY DEF Asked

(* A failure of OpenSSL breaks the call.                                   *)
LEMMA FailBreaks ==
  ASSUME AeadInv, Fail, pc \in Checked, pc \notin Returned
  PROVE  Contract!Break
<1>1. pc # "idle" /\ ArgumentsValid /\ op \in {"seal", "open"}
  BY DEF Checked, AeadInv, ArgumentInv
<1>2. Asked.valid
  BY <1>1, AskedIs
<1>3. /\ pc' = "MC_ERR_CRYPTO" /\ UNCHANGED <<op, args, sealed>>
  BY DEF Fail, Return
<1>4. Contract!Reply("MC_ERR_CRYPTO", <<>>)
  <2>1. pc' \in Returned
    BY <1>3 DEF Returned
  <2> QED BY <1>1, <1>3, <2>1, ReturnIsReply
<1>5. Boxes(sealed)' = Boxes(sealed)
  BY <1>3 DEF Boxes
<1> QED BY <1>2, <1>4, <1>5 DEF Contract!Break

(* The caller's steps.                                                     *)
LEMMA CallerAsks ==
  ASSUME AeadInv, CallSeal \/ CallOpen
  PROVE  Contract!AskSeal \/ Contract!AskOpen
<1>1. /\ pc = "idle" /\ pc' = "check" /\ UNCHANGED sealed
  BY DEF CallSeal, CallOpen, Call
<1>2. /\ Phase = "idle" /\ Phase' = "busy" /\ Answer' = Answer
      /\ Boxes(sealed)' = Boxes(sealed)
  BY <1>1 DEF Phase, Returned, Answer, Boxes
<1>3. ArgumentsValid' => nullptr \notin {args'.key, args'.nonce}
  BY DEF ArgumentsValid
<1>4. ArgumentsValid' \in BOOLEAN
  BY DEF ArgumentsValid, FitsInInt
<1>5. CASE CallSeal
  <2>1. PICK k \in Keys \cup {nullptr}, n \in Nonces \cup {nullptr}, a \in Aads,
             t \in Texts, b \in BOOLEAN :
          Call("seal", [key |-> k, nonce |-> n, aad |-> a, text |-> t,
                        buffers |-> b, tag |-> nullptr])
    BY <1>5 DEF CallSeal
  <2>2. /\ op' = "seal" /\ args'.key = k /\ args'.nonce = n /\ args'.aad = a
        /\ args'.text = t
    BY <2>1 DEF Call
  <2>3. Asked' = [op |-> "seal", valid |-> ArgumentsValid',
                  box |-> [key |-> k, nonce |-> n, aad |-> a, text |-> t]]
    BY <1>1, <2>2 DEF Asked
  <2>4. Contract!Ask([op |-> "seal", valid |-> ArgumentsValid',
                      box |-> [key |-> k, nonce |-> n, aad |-> a, text |-> t]])
    BY <1>2, <2>3 DEF Contract!Ask
  <2>5. ArgumentsValid' => nullptr \notin {k, n}
    BY <1>3, <2>2
  <2>6. Contract!AskSeal
    BY <1>4, <2>4, <2>5 DEF Contract!AskSeal
  <2> QED BY <2>6
<1>6. CASE CallOpen
  <2>1. PICK k \in Keys \cup {nullptr}, n \in Nonces, a \in Aads, s \in sealed,
             t \in Texts, b \in BOOLEAN : \E g \in {s.tag, Noise} :
          Call("open", [key |-> k, nonce |-> n, aad |-> a, buffers |-> b,
                        text |-> Encipher(s.key, s.nonce, t), tag |-> g])
    BY <1>6 DEF CallOpen
  <2>2. /\ op' = "open" /\ args'.key = k /\ args'.nonce = n /\ args'.aad = a
    BY <2>1 DEF Call
  <2>3. Asked' = [op |-> "open", valid |-> ArgumentsValid', key |-> k, nonce |-> n,
                  aad |-> a, presented |-> Boxes(Presented)']
    BY <1>1, <2>2 DEF Asked
  <2>4. Contract!Ask([op |-> "open", valid |-> ArgumentsValid', key |-> k,
                      nonce |-> n, aad |-> a, presented |-> Boxes(Presented)'])
    BY <1>2, <2>3 DEF Contract!Ask
  <2>5. ArgumentsValid' => nullptr \notin {k, n}
    BY <1>3, <2>2
  <2>6. Boxes(Presented)' \in {{}} \cup {{box} : box \in Boxes(sealed)}
    BY <1>2, OneIsPresentedNext
  <2>7. Contract!AskOpen
    BY <1>4, <2>4, <2>5, <2>6 DEF Contract!AskOpen
  <2> QED BY <2>7
<1> QED BY <1>5, <1>6

LEMMA CollectResets ==
  ASSUME Collect
  PROVE  Contract!Reset
<1>1. pc \in Returned /\ pc' = "idle" /\ UNCHANGED sealed
  BY DEF Collect
<1>2. Phase = "returned" /\ Phase' = "idle"
  BY <1>1 DEF Phase, Returned
<1>3. Asked' = Contract!NoRequest /\ Answer' = Contract!NoReply
  BY <1>1 DEF Asked, Answer, Returned, Contract!NoRequest, Contract!NoReply
<1>4. Boxes(sealed)' = Boxes(sealed)
  BY <1>1 DEF Boxes
<1> QED BY <1>2, <1>3, <1>4 DEF Contract!Reset, Contract!Idle, Contract!NoRequest,
                               Contract!NoReply

(* Arguments that are refused, or go on.                                   *)
LEMMA CheckRefuses ==
  ASSUME AeadInv, CheckArguments
  PROVE  Contract!Refuse \/ UNCHANGED Contract!contractVars
<1>1. pc = "check" /\ op \in {"seal", "open"} /\ UNCHANGED <<op, args, sealed>>
  BY DEF CheckArguments, Return, AeadInv, ArgumentInv
<1>2. CASE ~ArgumentsValid
  <2>1. pc' = "MC_ERR_INVALID_ARG"
    BY <1>2 DEF CheckArguments, Return
  <2>2. ~Asked.valid
    BY <1>1, <1>2, AskedIs
  <2>3. pc # "idle" /\ pc \notin Returned /\ pc' \in Returned /\ pc' # "MC_OK"
    BY <1>1, <2>1 DEF Returned
  <2>4. Contract!Reply("MC_ERR_INVALID_ARG", <<>>)
    BY <1>1, <2>1, <2>3, ReturnIsReply
  <2>5. Boxes(sealed)' = Boxes(sealed)
    BY <1>1 DEF Boxes
  <2> QED BY <2>2, <2>4, <2>5 DEF Contract!Refuse
<1>3. CASE ArgumentsValid
  <2>1. pc' = "ctx_new"
    BY <1>3 DEF CheckArguments
  <2>2. pc # "idle" /\ pc' # "idle" /\ pc \notin Returned /\ pc' \notin Returned
    BY <1>1, <2>1 DEF Returned
  <2> QED BY <1>1, <2>2, GoingOnIsNoStep
<1> QED BY <1>2, <1>3

(* The EVP calls before the last: one fails or the call goes on.           *)
LEMMA MiddleBreaks ==
  ASSUME AeadInv, CtxNew \/ SetCipher \/ SetKeyAndNonce \/ AddAad \/ Update \/ SetTag
                  \/ FinalSeal
  PROVE  Contract!Break \/ UNCHANGED Contract!contractVars
<1>1. /\ pc \in {"ctx_new", "cipher", "key", "aad", "update", "set_tag", "final"}
      /\ Fail \/ /\ pc' \in {"cipher", "key", "aad", "update", "set_tag", "final",
                             "get_tag"}
                 /\ UNCHANGED <<op, args, sealed>>
  BY DEF CtxNew, SetCipher, SetKeyAndNonce, AddAad, Update, SetTag, FinalSeal
<1>2. pc \in Checked /\ pc \notin Returned /\ pc # "idle"
  BY <1>1 DEF Checked, Returned
<1>3. CASE Fail
  BY <1>2, <1>3, FailBreaks
<1>4. CASE ~Fail
  <2>1. pc' # "idle" /\ pc' \notin Returned /\ UNCHANGED <<op, args, sealed>>
    BY <1>1, <1>4 DEF Returned
  <2> QED BY <1>2, <2>1, GoingOnIsNoStep
<1> QED BY <1>3, <1>4

(* Reading the tag seals the box that was asked for.                       *)
LEMMA GetTagSeals ==
  ASSUME AeadInv, AeadInv', GetTag
  PROVE  Contract!Seal \/ Contract!Break
<1>1. pc = "get_tag" /\ pc \in Checked /\ pc \notin Returned /\ pc # "idle"
  BY DEF GetTag, Checked, Returned
<1>2. CASE Fail
  BY <1>1, <1>2, FailBreaks
<1>3. CASE ~Fail
  <2> DEFINE new == [key |-> args.key, nonce |-> args.nonce, aad |-> args.aad,
                     text |-> args.text, ct |-> out, tag |-> tag']
  <2>1. /\ pc' = "MC_OK" /\ UNCHANGED <<op, args, out>> /\ sealed' = sealed \cup {new}
    BY <1>3 DEF GetTag, Return
  <2>2. op = "seal" /\ ArgumentsValid
    BY <1>1 DEF AeadInv, ContextInv, ArgumentInv
  <2>3. Box(new.tag, new.ct) = [key |-> args.key, nonce |-> args.nonce,
                                aad |-> args.aad, text |-> args.text]
    <3>1. new \in sealed'
      BY <2>1
    <3> HIDE DEF new
    <3>2. /\ new.text \in Texts /\ new.ct = Encipher(new.key, new.nonce, new.text)
          /\ new.tag = <<new.key, new.nonce, new.aad, new.ct>>
      BY <3>1 DEF AeadInv, SealedInv
    <3>3. Decipher(new.key, new.nonce, new.ct) = new.text
      BY <3>2, DecipherUndoesEncipher
    <3>4. Box(new.tag, new.ct) = [key |-> new.key, nonce |-> new.nonce,
                                  aad |-> new.aad, text |-> new.text]
      BY <3>2, <3>3 DEF Box
    <3> QED BY <3>4 DEF new
  <2>4. Boxes(sealed)' = Boxes(sealed) \cup {Box(new.tag, new.ct)}
    BY <2>1 DEF Boxes, Box, Decipher
  <2>5. Asked.valid /\ Asked.op = "seal" /\ Asked.box = Box(new.tag, new.ct)
    BY <1>1, <2>2, <2>3, AskedIs
  <2>6. Contract!Reply("MC_OK", <<>>)
    <3>1. pc' \in Returned
      BY <2>1 DEF Returned
    <3> QED BY <1>1, <2>1, <2>2, <3>1, ReturnIsReply
  <2> QED BY <2>4, <2>5, <2>6 DEF Contract!Seal
<1> QED BY <1>2, <1>3

(* Final opens the box that was presented, if it is one of these arguments. *)
LEMMA FinalOpens ==
  ASSUME AeadInv, AeadInv', FinalOpen
  PROVE  Contract!Open
<1>1. /\ pc = "final" /\ op = "open" /\ UNCHANGED <<op, args, out, tag, sealed>>
      /\ pc' \in {"MC_OK", "MC_ERR_AUTH"}
  BY DEF FinalOpen, Return
<1>2. pc \in Checked /\ pc \in Updated /\ pc \notin Returned /\ pc # "idle"
      /\ pc' \in Returned
  BY <1>1 DEF Checked, Updated, Returned
<1>3. ArgumentsValid
  BY <1>2 DEF AeadInv, ArgumentInv
<1>4. /\ Asked.valid /\ Asked.op = "open" /\ Asked.presented = Boxes(Presented)
      /\ Asked.key = args.key /\ Asked.nonce = args.nonce /\ Asked.aad = args.aad
  BY <1>1, <1>2, <1>3, AskedIs
<1>5. Boxes(sealed)' = Boxes(sealed)
  BY <1>1 DEF Boxes
<1>6. Contract!Reply(pc', IF pc' = "MC_OK" THEN out ELSE <<>>)
  BY <1>1, <1>2, ReturnIsReply
<1>7. CASE pc' = "MC_OK"
  <2>1. args.tag = OwnTag(args.text)
    BY <1>1, <1>7 DEF AeadInv, ReplyInv, OwnTag
  <2>2. PICK s \in sealed : Sealed(s)
    BY <1>1, <1>2, <2>1, OwnTagWasSealed
  <2>3. out = s.text
    BY <1>1, <1>2, <2>2, SealedDeciphers
  <2> DEFINE b == Box(s.tag, s.ct)
  <2>4. b.key = args.key /\ b.nonce = args.nonce /\ b.aad = args.aad /\ b.text = out
    <3>1. b = [key |-> s.key, nonce |-> s.nonce, aad |-> s.aad, text |-> s.text]
      BY BoxOfSealed DEF AeadInv
    <3> HIDE DEF b
    <3> QED BY <2>2, <2>3, <3>1 DEF Sealed
  <2>5. b \in Boxes(Presented)
    BY <2>2 DEF Boxes, Presented, Sealed
  <2>6. Contract!Reply("MC_OK", b.text)
    BY <1>6, <1>7, <2>4
  <2> HIDE DEF b
  <2>7. Contract!Opens(b)
    BY <1>4, <2>4 DEF Contract!Opens
  <2> QED BY <1>4, <1>5, <2>5, <2>6, <2>7 DEF Contract!Open
<1>8. CASE pc' = "MC_ERR_AUTH"
  <2>1. args.tag # OwnTag(args.text)
    BY <1>1, <1>8 DEF AeadInv, ReplyInv, OwnTag
  <2>2. ASSUME NEW b \in Boxes(Presented), Contract!Opens(b)
        PROVE  FALSE
    <3>1. PICK s \in sealed : s.tag = args.tag /\ s.ct = args.text /\ b = Box(s.tag, s.ct)
      BY DEF Boxes, Presented
    <3>2. s.key = args.key /\ s.nonce = args.nonce /\ s.aad = args.aad
      <4>1. b = [key |-> s.key, nonce |-> s.nonce, aad |-> s.aad, text |-> s.text]
        BY <3>1, BoxOfSealed DEF AeadInv
      <4> QED BY <1>4, <2>2, <4>1 DEF Contract!Opens
    <3>3. s.tag = <<s.key, s.nonce, s.aad, s.ct>>
      BY DEF AeadInv, SealedInv
    <3> QED BY <2>1, <3>1, <3>2, <3>3 DEF OwnTag
  <2>3. Contract!Reply("MC_ERR_AUTH", <<>>)
    BY <1>6, <1>8
  <2> QED BY <1>4, <1>5, <2>2, <2>3 DEF Contract!Open
<1> QED BY <1>1, <1>7, <1>8

(***************************************************************************)
(* For its caller each call of Seal or Open is one step that does all it   *)
(* was asked or nothing (ImplementsContract; aead.h:8-58).  It is what     *)
(* Encrypt.tla and Decrypt.tla take the two for.                           *)
(***************************************************************************)
THEOREM CallsAreOneStep == Spec => ImplementsContract
<1>1. Init => Contract!InitContract
  <2> SUFFICES ASSUME Init PROVE Contract!InitContract
    OBVIOUS
  <2>1. pc = "idle" /\ sealed = {}
    BY DEF Init
  <2>2. Phase = "idle" /\ Asked = Contract!NoRequest /\ Answer = Contract!NoReply
    BY <2>1 DEF Phase, Asked, Answer, Returned, Contract!NoRequest, Contract!NoReply
  <2>3. Boxes(sealed) = {}
    BY <2>1 DEF Boxes
  <2> QED BY <2>2, <2>3 DEF Contract!InitContract, Contract!Idle
<1>2. AeadInv /\ AeadInv' /\ [Next]_vars => [Contract!NextContract]_Contract!contractVars
  <2> SUFFICES ASSUME AeadInv, AeadInv', [Next]_vars
               PROVE  Contract!NextContract \/ UNCHANGED Contract!contractVars
    BY Zenon
  <2>1. CASE CallSeal \/ CallOpen
    BY <2>1, CallerAsks DEF Contract!NextContract
  <2>2. CASE Collect
    BY <2>2, CollectResets DEF Contract!NextContract
  <2>3. CASE CheckArguments
    BY <2>3, CheckRefuses DEF Contract!NextContract
  <2>4. CASE CtxNew \/ SetCipher \/ SetKeyAndNonce \/ AddAad \/ Update \/ SetTag
             \/ FinalSeal
    BY <2>4, MiddleBreaks DEF Contract!NextContract
  <2>5. CASE FinalOpen
    BY <2>5, FinalOpens DEF Contract!NextContract
  <2>6. CASE GetTag
    BY <2>6, GetTagSeals DEF Contract!NextContract
  <2>7. CASE UNCHANGED vars
    <3>1. Phase' = Phase /\ Asked' = Asked /\ Answer' = Answer
          /\ Boxes(sealed)' = Boxes(sealed)
      BY <2>7 DEF vars, Phase, Asked, Answer, Boxes, Box, Decipher, Presented, Returned,
                  ArgumentsValid, FitsInInt
    <3> QED BY <3>1 DEF Contract!contractVars
  <2> QED BY <2>1, <2>2, <2>3, <2>4, <2>5, <2>6, <2>7 DEF Next
<1> QED BY <1>1, <1>2, AeadInvariant, PTL
        DEF Spec, ImplementsContract, Contract!ContractSpec

----------------------------------------------------------------------------
(* Integers and their bytes.                                               *)

(* Dividing undoes multiplying and adding less than the divisor.           *)
LEMMA Quotient ==
  ASSUME NEW d \in Nat \ {0}, NEW q \in Nat, NEW r \in 0..(d - 1)
  PROVE  (d * q + r) \div d = q /\ (d * q + r) % d = r
<1> DEFINE n == d * q + r
           a == n \div d
           b == n % d
<1>1. d * q \in Nat /\ n \in Nat
  OBVIOUS
<1>2. a \in Nat /\ b \in 0..(d - 1) /\ n = d * a + b
  BY <1>1
<1>3. ~(a < q)
  <2>1. SUFFICES ASSUME a + 1 <= q PROVE FALSE
    BY <1>2
  <2>2. d * (a + 1) <= d * q /\ d * (a + 1) = d * a + d /\ d * a \in Nat
    BY <2>1, <1>2
  <2> QED BY <2>2, <1>1, <1>2
<1>4. ~(q < a)
  <2>1. SUFFICES ASSUME q + 1 <= a PROVE FALSE
    BY <1>2
  <2>2. d * (q + 1) <= d * a /\ d * (q + 1) = d * q + d /\ d * a \in Nat
    BY <2>1, <1>2
  <2> QED BY <2>2, <1>1, <1>2
<1>5. a = q
  BY <1>2, <1>3, <1>4
<1>6. b = r
  <2>1. d * a = d * q
    BY <1>5
  <2> HIDE DEF a, b
  <2> QED BY <2>1, <1>1, <1>2 DEF n
<1> QED BY <1>5, <1>6

(* Every number is quotient and remainder.                                 *)
LEMMA Division ==
  ASSUME NEW n \in Nat, NEW d \in Nat \ {0}
  PROVE  /\ n \div d \in Nat /\ n % d \in 0..(d - 1)
         /\ n = d * (n \div d) + (n % d)
OBVIOUS

(* Dividing twice is dividing by the product.                              *)
LEMMA DivideTwice ==
  ASSUME NEW n \in Nat, NEW c \in Nat \ {0}, NEW d \in Nat \ {0}
  PROVE  /\ n \div (c * d) = (n \div c) \div d
         /\ n % (c * d) = (n % c) + c * ((n \div c) % d)
<1> DEFINE a == n \div c
           r == n % c
           q == a \div d
           s == a % d
<1>1. a \in Nat /\ r \in 0..(c - 1) /\ n = c * a + r
  BY Division
<1>2. q \in Nat /\ s \in 0..(d - 1) /\ a = d * q + s
  BY <1>1, Division
<1> HIDE DEF a, r, q, s
<1>3. c * d \in Nat \ {0}
  OBVIOUS
<1>4. r + c * s \in 0..(c * d - 1)
  <2>1. c * s \in Nat /\ c * s <= c * (d - 1) /\ c * (d - 1) = c * d - c
    BY <1>2
  <2> QED BY <2>1, <1>1, <1>3
<1>5. n = (c * d) * q + (r + c * s)
  <2>1. c * (d * q + s) = (c * d) * q + c * s
    BY <1>2
  <2> QED BY <2>1, <1>1, <1>2
<1>6. n \div (c * d) = q /\ n % (c * d) = r + c * s
  BY <1>2, <1>3, <1>4, <1>5, Quotient
<1> QED BY <1>6 DEF a, r, q, s

(* What a number is shifted by: one to seven bytes.                        *)
LEMMA WeightType ==
  /\ Base \in Nat \ {0, 1} /\ U16 \in Nat \ {0} /\ U32 \in Nat \ {0}
  /\ Weight(0) = 1 /\ Weight(1) = Base /\ Weight(2) = U16 /\ Weight(3) = U16 * Base
  /\ Weight(4) = U32 /\ Weight(5) = U32 * Base /\ Weight(6) = U32 * U16
  /\ Weight(7) = U32 * U16 * Base
<1>1. Base \in Nat \ {0, 1} /\ U16 \in Nat \ {0} /\ U32 \in Nat \ {0}
  <2>1. Base \in Nat \ {0, 1} /\ U32 = U16 * U16
    BY ByteLayoutAssumption
  <2>2. U16 \in Nat \ {0}
    BY <2>1 DEF U16
  <2> QED BY <2>1, <2>2
<1>2. 0 % 4 = 0 /\ 1 % 4 = 1 /\ 2 % 4 = 2 /\ 3 % 4 = 3 /\ 4 % 4 = 0 /\ 5 % 4 = 1
      /\ 6 % 4 = 2 /\ 7 % 4 = 3
  OBVIOUS
<1>3. 0 % 2 = 0 /\ 1 % 2 = 1 /\ 2 % 2 = 0 /\ 3 % 2 = 1 /\ 4 % 2 = 0 /\ 5 % 2 = 1
      /\ 6 % 2 = 0 /\ 7 % 2 = 1
  OBVIOUS
<1> QED BY <1>1, <1>2, <1>3 DEF Weight

(* A byte of a number is a byte.                                           *)
LEMMA ByteType ==
  ASSUME NEW n \in Nat, NEW k \in 0..7
  PROVE  LittleEndian(n, k) \in Byte
<1>1. Weight(k) \in Nat \ {0}
  <2>1. k \in {0, 1, 2, 3, 4, 5, 6, 7}
    OBVIOUS
  <2>2. U16 * Base \in Nat \ {0} /\ U32 * Base \in Nat \ {0} /\ U32 * U16 \in Nat \ {0}
    BY WeightType
  <2>3. U32 * U16 * Base \in Nat \ {0}
    BY <2>2, WeightType
  <2> QED BY <2>1, <2>2, <2>3, WeightType
<1>2. n \div Weight(k) \in Nat
  BY <1>1
<1> QED BY <1>2, WeightType DEF LittleEndian, Byte

(* Bytes 2 and 3 are those of the number without its low two bytes, and    *)
(* bytes 4 to 7 those of the number without its low four.                  *)
LEMMA HighBytes ==
  ASSUME NEW n \in Nat
  PROVE  /\ n \div U16 \in Nat /\ n \div U32 \in Nat
         /\ \A k \in 0..1 : LittleEndian(n, k + 2) = LittleEndian(n \div U16, k)
         /\ \A k \in 0..3 : LittleEndian(n, k + 4) = LittleEndian(n \div U32, k)
<1>0. Base \in Nat \ {0} /\ U16 \in Nat \ {0} /\ U32 \in Nat \ {0}
  BY WeightType
<1>2. \A c, d \in Nat \ {0} : n \div (c * d) = (n \div c) \div d
  <2>1. ASSUME NEW c \in Nat \ {0}, NEW d \in Nat \ {0}
        PROVE  n \div (c * d) = (n \div c) \div d
    BY DivideTwice, Zenon
  <2> QED BY <2>1, Zenon
<1>3. n \div (U16 * Base) = (n \div U16) \div Base
  BY <1>0, <1>2, Zenon
<1>4. /\ n \div (U32 * Base) = (n \div U32) \div Base
      /\ n \div (U32 * U16) = (n \div U32) \div U16
  BY <1>0, <1>2, Zenon
<1>5. n \div (U32 * U16 * Base) = (n \div U32) \div (U16 * Base)
  <2>1. U32 * U16 * Base = U32 * (U16 * Base) /\ U16 * Base \in Nat \ {0}
    BY WeightType
  <2>2. n \div (U32 * (U16 * Base)) = (n \div U32) \div (U16 * Base)
    BY <1>0, <2>1, <1>2, Zenon
  <2> QED BY <2>1, <2>2
<1> DEFINE h == n \div U16
           t == n \div U32
<1>1. h \in Nat /\ t \in Nat
  BY WeightType
<1>22. h \div 1 = h /\ t \div 1 = t
  BY <1>1
<1> HIDE DEF h, t
<1>6. LittleEndian(n, 2) = LittleEndian(h, 0) /\ LittleEndian(n, 3) = LittleEndian(h, 1)
  BY <1>22, <1>3, WeightType DEF LittleEndian, h
<1>7. /\ LittleEndian(n, 4) = LittleEndian(t, 0) /\ LittleEndian(n, 5) = LittleEndian(t, 1)
      /\ LittleEndian(n, 6) = LittleEndian(t, 2) /\ LittleEndian(n, 7) = LittleEndian(t, 3)
  BY <1>22, <1>4, <1>5, WeightType DEF LittleEndian, t
<1>8. \A k \in 0..1 : k \in {0, 1}
  OBVIOUS
<1>9. \A k \in 0..3 : k \in {0, 1, 2, 3}
  OBVIOUS
<1> QED BY <1>1, <1>6, <1>7, <1>8, <1>9 DEF h, t

(* The low bytes put together.                                             *)
LEMMA LowWord ==
  ASSUME NEW n \in Nat
  PROVE  LittleEndian(n, 0) + Base * LittleEndian(n, 1) = n % U16
<1>1. n \div 1 = n
  OBVIOUS
<1>2. n % U16 = (n % Base) + Base * ((n \div Base) % Base)
  <2>1. Base \in Nat \ {0}
    BY WeightType
  <2>2. n % (Base * Base) = (n % Base) + Base * ((n \div Base) % Base)
    BY <2>1, DivideTwice, Zenon
  <2> QED BY <2>2 DEF U16
<1> QED BY <1>1, <1>2, WeightType DEF LittleEndian

(* All four of them, put together as ReadU32 does.                         *)
LEMMA LowDoubleWord ==
  ASSUME NEW n \in Nat
  PROVE  LittleEndian(n, 0) + Base * LittleEndian(n, 1)
           + U16 * (LittleEndian(n, 2) + Base * LittleEndian(n, 3)) = n % U32
<1> DEFINE h == n \div U16
<1>1. h \in Nat /\ LittleEndian(n, 2) = LittleEndian(h, 0)
      /\ LittleEndian(n, 3) = LittleEndian(h, 1)
  <2>1. 0 + 2 = 2 /\ 1 + 2 = 3 /\ 0 \in 0..1 /\ 1 \in 0..1
    OBVIOUS
  <2> QED BY <2>1, HighBytes
<1>2. LittleEndian(h, 0) + Base * LittleEndian(h, 1) = h % U16
  BY <1>1, LowWord
<1>3. n % U32 = (n % U16) + U16 * (h % U16)
  <2>1. n % (U16 * U16) = (n % U16) + U16 * ((n \div U16) % U16)
    <3>1. U16 \in Nat \ {0}
      BY WeightType
    <3> QED BY <3>1, DivideTwice, Zenon
  <2> QED BY <2>1, ByteLayoutAssumption
<1> QED BY <1>1, <1>2, <1>3, LowWord

(* A number within its width is the value of its bytes.                    *)
LEMMA ReadUndoesWrite ==
  ASSUME NEW n \in Nat, NEW s, NEW at \in Nat
  PROVE  /\ /\ n < U16
            /\ \A k \in 0..1 : s[at + k] = LittleEndian(n, k)
            => ReadU16(s, at) = n
         /\ /\ n < U32
            /\ \A k \in 0..3 : s[at + k] = LittleEndian(n, k)
            => ReadU32(s, at) = n
         /\ /\ n \div U32 < U32
            /\ \A k \in 0..7 : s[at + k] = LittleEndian(n, k)
            => ReadU64(s, at) = n
<1>0. at + 0 = at /\ at + 1 + 1 = at + 2 /\ at + 2 + 1 = at + 3
      /\ at + 4 + 1 = at + 5 /\ at + 4 + 2 = at + 6 /\ at + 6 + 1 = at + 7
  OBVIOUS
<1>1. ASSUME n < U16, \A k \in 0..1 : s[at + k] = LittleEndian(n, k)
      PROVE  ReadU16(s, at) = n
  <2>1. s[at] = LittleEndian(n, 0) /\ s[at + 1] = LittleEndian(n, 1)
    BY <1>0, <1>1
  <2>2. n % U16 = n
    BY <1>1, WeightType
  <2> QED BY <2>1, <2>2, LowWord DEF ReadU16
<1>2. ASSUME NEW m \in Nat, NEW a \in Nat,
             /\ s[a] = LittleEndian(m, 0) /\ s[a + 1] = LittleEndian(m, 1)
             /\ s[a + 2] = LittleEndian(m, 2) /\ s[a + 3] = LittleEndian(m, 3)
      PROVE  ReadU32(s, a) = m % U32
  <2>1. a + 2 + 1 = a + 3
    OBVIOUS
  <2> QED BY <1>2, <2>1, LowDoubleWord DEF ReadU32, ReadU16
<1>3. ASSUME n < U32, \A k \in 0..3 : s[at + k] = LittleEndian(n, k)
      PROVE  ReadU32(s, at) = n
  <2>1. /\ s[at] = LittleEndian(n, 0) /\ s[at + 1] = LittleEndian(n, 1)
        /\ s[at + 2] = LittleEndian(n, 2) /\ s[at + 3] = LittleEndian(n, 3)
    BY <1>0, <1>3
  <2>2. n % U32 = n
    BY <1>3, WeightType
  <2> QED BY <2>1, <2>2, <1>2
<1>4. ASSUME n \div U32 < U32, \A k \in 0..7 : s[at + k] = LittleEndian(n, k)
      PROVE  ReadU64(s, at) = n
  <2> DEFINE t == n \div U32
             a == at + 4
  <2>1. /\ s[at] = LittleEndian(n, 0) /\ s[at + 1] = LittleEndian(n, 1)
        /\ s[at + 2] = LittleEndian(n, 2) /\ s[at + 3] = LittleEndian(n, 3)
        /\ s[at + 4] = LittleEndian(n, 4) /\ s[at + 5] = LittleEndian(n, 5)
        /\ s[at + 6] = LittleEndian(n, 6) /\ s[at + 7] = LittleEndian(n, 7)
    BY <1>0, <1>4
  <2>2. /\ LittleEndian(n, 4) = LittleEndian(t, 0) /\ LittleEndian(n, 5) = LittleEndian(t, 1)
        /\ LittleEndian(n, 6) = LittleEndian(t, 2) /\ LittleEndian(n, 7) = LittleEndian(t, 3)
    <3>1. 0 + 4 = 4 /\ 1 + 4 = 5 /\ 2 + 4 = 6 /\ 3 + 4 = 7
      OBVIOUS
    <3>2. \A k \in {0, 1, 2, 3} : LittleEndian(n, k + 4) = LittleEndian(t, k)
      BY HighBytes
    <3> QED BY <3>1, <3>2
  <2>3. t \in Nat /\ a \in Nat /\ t % U32 = t /\ n = U32 * t + (n % U32)
    BY <1>4, WeightType
  <2>4. a + 1 = at + 5 /\ a + 2 = at + 6 /\ a + 3 = at + 7
    OBVIOUS
  <2> HIDE DEF t
  <2>5. ReadU32(s, at) = n % U32
    BY <2>1, <1>2
  <2>6. ReadU32(s, a) = t
    <3>1. /\ s[a] = LittleEndian(t, 0) /\ s[a + 1] = LittleEndian(t, 1)
          /\ s[a + 2] = LittleEndian(t, 2) /\ s[a + 3] = LittleEndian(t, 3)
      BY <2>1, <2>2, <2>4
    <3> HIDE DEF a
    <3> QED BY <3>1, <2>3, <1>2
  <2>7. n % U32 \in Nat /\ U32 * t \in Nat
    BY <2>3, WeightType
  <2> QED BY <2>3, <2>5, <2>6, <2>7 DEF ReadU64
<1> QED BY <1>1, <1>3, <1>4

(* Two bytes are a number of 16 bits, two such numbers one of 32 and two   *)
(* of those one of 64, whose parts are found again.                        *)
LEMMA WordType ==
  ASSUME NEW s, NEW at \in Nat, s[at] \in Byte, s[at + 1] \in Byte
  PROVE  /\ ReadU16(s, at) \in 0..(U16 - 1)
         /\ LittleEndian(ReadU16(s, at), 0) = s[at]
         /\ LittleEndian(ReadU16(s, at), 1) = s[at + 1]
<1> DEFINE a == s[at]
           b == s[at + 1]
           n == Base * b + a
<1>1. a \in 0..(Base - 1) /\ b \in 0..(Base - 1) /\ Base \in Nat \ {0}
  BY WeightType DEF Byte
<1> HIDE DEF a, b
<1>2. ReadU16(s, at) = n /\ n \in Nat
  BY <1>1 DEF ReadU16, a, b
<1>3. n < Base * Base
  <2>1. Base * b <= Base * (Base - 1) /\ Base * (Base - 1) = Base * Base - Base
    BY <1>1
  <2> QED BY <2>1, <1>1
<1>4. n \div Base = b /\ n % Base = a
  BY <1>1, Quotient
<1> HIDE DEF n
<1>5. LittleEndian(n, 0) = a
  <2>1. n \div 1 = n
    BY <1>2
  <2> QED BY <2>1, <1>4, WeightType DEF LittleEndian
<1>6. LittleEndian(n, 1) = b
  <2>1. b % Base = b
    BY <1>1
  <2> QED BY <2>1, <1>4, WeightType DEF LittleEndian
<1>7. n \in 0..(U16 - 1)
  BY <1>2, <1>3, WeightType DEF U16
<1> QED BY <1>2, <1>5, <1>6, <1>7 DEF a, b

(* lo + U16 * hi.                                                          *)
LEMMA JoinWords ==
  ASSUME NEW lo \in 0..(U16 - 1), NEW hi \in 0..(U16 - 1)
  PROVE  LET n == lo + U16 * hi
         IN  /\ n \in 0..(U32 - 1) /\ n % U16 = lo /\ n \div U16 = hi
<1> DEFINE n == lo + U16 * hi
<1>1. U16 \in Nat \ {0} /\ lo \in Nat /\ hi \in Nat
  BY WeightType
<1>2. U16 * hi <= U16 * (U16 - 1) /\ U16 * (U16 - 1) = U16 * U16 - U16 /\ U16 * hi \in Nat
  BY <1>1
<1>3. U32 = U16 * U16
  BY ByteLayoutAssumption
<1>4. n \in 0..(U32 - 1) /\ n = U16 * hi + lo
  BY <1>1, <1>2, <1>3
<1>5. (U16 * hi + lo) % U16 = lo /\ (U16 * hi + lo) \div U16 = hi
  BY <1>1, Quotient
<1> QED BY <1>4, <1>5

(* lo + U32 * hi.                                                          *)
LEMMA JoinDoubleWords ==
  ASSUME NEW lo \in 0..(U32 - 1), NEW hi \in 0..(U32 - 1)
  PROVE  LET n == lo + U32 * hi
         IN  /\ n \in Nat /\ n % U32 = lo /\ n \div U32 = hi
<1> DEFINE n == lo + U32 * hi
<1>1. U32 \in Nat \ {0} /\ lo \in Nat /\ hi \in Nat
  BY WeightType
<1>2. n \in Nat /\ n = U32 * hi + lo
  BY <1>1
<1>3. (U32 * hi + lo) % U32 = lo /\ (U32 * hi + lo) \div U32 = hi
  BY <1>1, Quotient
<1> QED BY <1>2, <1>3

(* The low bytes of a number are those of its low part.                    *)
LEMMA LowBytes ==
  ASSUME NEW n \in Nat
  PROVE  /\ n % U16 \in Nat /\ n % U32 \in Nat
         /\ \A k \in 0..1 : LittleEndian(n, k) = LittleEndian(n % U16, k)
         /\ \A k \in 0..3 : LittleEndian(n, k) = LittleEndian(n % U32, k)
<1>1. n % U16 \in Nat /\ n % U32 \in Nat
  BY WeightType
<1>2. ASSUME NEW m \in Nat
      PROVE  LittleEndian(m, 0) = LittleEndian(m % U16, 0)
             /\ LittleEndian(m, 1) = LittleEndian(m % U16, 1)
  <2> DEFINE a == m % Base
             b == (m \div Base) % Base
  <2>1. a \in 0..(Base - 1) /\ b \in 0..(Base - 1) /\ m \div Base \in Nat
    BY WeightType
  <2>2. m % U16 = a + Base * b
    BY LowWord, WeightType, m \div 1 = m DEF LittleEndian
  <2> HIDE DEF a, b
  <2>9. Base \in Nat \ {0} /\ b \in Nat
    BY <2>1, WeightType
  <2>3. (Base * b + a) % Base = a /\ (Base * b + a) \div Base = b
    BY <2>1, <2>9, Quotient
  <2>4. a + Base * b = Base * b + a /\ Base * b + a \in Nat
    BY <2>1, WeightType
  <2>5. b % Base = b /\ m \div 1 = m /\ (Base * b + a) \div 1 = Base * b + a
    <3>1. b % Base = b
      BY <2>1, <2>9
    <3>2. \A x \in Nat : x \div 1 = x
      OBVIOUS
    <3> QED BY <3>1, <3>2, <2>4
  <2>6. LittleEndian(m, 0) = a /\ LittleEndian(m, 1) = b
    BY <2>5, WeightType DEF LittleEndian, a, b
  <2>7. LittleEndian(Base * b + a, 0) = a /\ LittleEndian(Base * b + a, 1) = b
    BY <2>3, <2>5, WeightType DEF LittleEndian
  <2> QED BY <2>2, <2>4, <2>6, <2>7
<1>3. LittleEndian(n, 0) = LittleEndian(n % U32, 0)
      /\ LittleEndian(n, 1) = LittleEndian(n % U32, 1)
      /\ LittleEndian(n, 2) = LittleEndian(n % U32, 2)
      /\ LittleEndian(n, 3) = LittleEndian(n % U32, 3)
  <2> DEFINE lo == n % U16
             hi == (n \div U16) % U16
             m == lo + U16 * hi
  <2>1. lo \in 0..(U16 - 1) /\ hi \in 0..(U16 - 1) /\ n \div U16 \in Nat
    BY WeightType
  <2>2. n % U32 = m
    <3>1. U16 \in Nat \ {0}
      BY WeightType
    <3>2. n % (U16 * U16) = (n % U16) + U16 * ((n \div U16) % U16)
      BY <3>1, DivideTwice, Zenon
    <3> QED BY <3>2, ByteLayoutAssumption
  <2>3. m \in Nat /\ m % U16 = lo /\ m \div U16 = hi
    <3> HIDE DEF lo, hi
    <3> QED BY <2>1, JoinWords
  <2> HIDE DEF m
  <2>4. LittleEndian(m, 0) = LittleEndian(lo, 0) /\ LittleEndian(m, 1) = LittleEndian(lo, 1)
    BY <2>3, <1>2
  <2>5. LittleEndian(n, 0) = LittleEndian(lo, 0) /\ LittleEndian(n, 1) = LittleEndian(lo, 1)
    BY <1>2
  <2>6. /\ LittleEndian(m, 2) = LittleEndian(hi, 0) /\ LittleEndian(m, 3) = LittleEndian(hi, 1)
    <3>1. \A k \in {0, 1} : LittleEndian(m, k + 2) = LittleEndian(m \div U16, k)
      BY <2>3, HighBytes
    <3>2. 0 + 2 = 2 /\ 1 + 2 = 3
      OBVIOUS
    <3> QED BY <3>1, <3>2, <2>3
  <2>7. /\ LittleEndian(n, 2) = LittleEndian(n \div U16, 0)
        /\ LittleEndian(n, 3) = LittleEndian(n \div U16, 1)
    <3>1. \A k \in {0, 1} : LittleEndian(n, k + 2) = LittleEndian(n \div U16, k)
      BY HighBytes
    <3>2. 0 + 2 = 2 /\ 1 + 2 = 3
      OBVIOUS
    <3> QED BY <3>1, <3>2
  <2>8. /\ LittleEndian(n \div U16, 0) = LittleEndian(hi, 0)
        /\ LittleEndian(n \div U16, 1) = LittleEndian(hi, 1)
    BY <2>1, <1>2
  <2> QED BY <2>2, <2>4, <2>5, <2>6, <2>7, <2>8
<1>4. \A k \in 0..1 : k \in {0, 1}
  OBVIOUS
<1>5. \A k \in 0..3 : k \in {0, 1, 2, 3}
  OBVIOUS
<1> QED BY <1>1, <1>2, <1>3, <1>4, <1>5

(* Writing what was read gives the bytes that were read.                   *)
LEMMA WriteUndoesRead16 ==
  ASSUME NEW s, NEW at \in Nat, \A k \in 0..1 : s[at + k] \in Byte
  PROVE  /\ ReadU16(s, at) \in 0..(U16 - 1)
         /\ \A k \in 0..1 : LittleEndian(ReadU16(s, at), k) = s[at + k]
<1>1. at + 0 = at /\ \A k \in 0..1 : k \in {0, 1}
  OBVIOUS
<1>2. s[at] \in Byte /\ s[at + 1] \in Byte
  BY <1>1
<1> QED BY <1>1, <1>2, WordType

LEMMA WriteUndoesRead32 ==
  ASSUME NEW s, NEW at \in Nat, \A k \in 0..3 : s[at + k] \in Byte
  PROVE  /\ ReadU32(s, at) \in 0..(U32 - 1)
         /\ \A k \in 0..3 : LittleEndian(ReadU32(s, at), k) = s[at + k]
<1> DEFINE lo == ReadU16(s, at)
           a == at + 2
           hi == ReadU16(s, a)
           n == lo + U16 * hi
<1>1. /\ s[at + 0] \in Byte /\ s[at + 1] \in Byte
      /\ s[at + 2] \in Byte /\ s[at + 3] \in Byte
  OBVIOUS
<1>2. at + 0 = at /\ a \in Nat /\ a + 1 = at + 3 /\ \A k \in 0..3 : k \in {0, 1, 2, 3}
  OBVIOUS
<1>3. /\ lo \in 0..(U16 - 1)
      /\ LittleEndian(lo, 0) = s[at] /\ LittleEndian(lo, 1) = s[at + 1]
  BY <1>1, <1>2, WordType
<1>4. /\ hi \in 0..(U16 - 1)
      /\ LittleEndian(hi, 0) = s[at + 2] /\ LittleEndian(hi, 1) = s[at + 3]
  <2> HIDE DEF a
  <2>1. s[a] = s[at + 2] /\ s[a + 1] = s[at + 3]
    BY <1>2 DEF a
  <2> QED BY <2>1, <1>1, <1>2, WordType
<1>5. ReadU32(s, at) = n
  BY DEF ReadU32
<1> HIDE DEF lo, hi, a
<1>6. n \in 0..(U32 - 1) /\ n % U16 = lo /\ n \div U16 = hi
  BY <1>3, <1>4, JoinWords
<1>7. n \in Nat
  BY <1>6, WeightType
<1> HIDE DEF n
<1>8. LittleEndian(n, 0) = LittleEndian(lo, 0) /\ LittleEndian(n, 1) = LittleEndian(lo, 1)
  BY <1>6, <1>7, LowBytes
<1>9. LittleEndian(n, 2) = LittleEndian(hi, 0) /\ LittleEndian(n, 3) = LittleEndian(hi, 1)
  <2>1. \A k \in {0, 1} : LittleEndian(n, k + 2) = LittleEndian(hi, k)
    BY <1>6, <1>7, HighBytes
  <2>2. 0 + 2 = 2 /\ 1 + 2 = 3
    OBVIOUS
  <2> QED BY <2>1, <2>2
<1> QED BY <1>2, <1>3, <1>4, <1>5, <1>6, <1>8, <1>9

LEMMA WriteUndoesRead64 ==
  ASSUME NEW s, NEW at \in Nat, \A k \in 0..7 : s[at + k] \in Byte
  PROVE  /\ ReadU64(s, at) \in Nat /\ ReadU64(s, at) \div U32 \in 0..(U32 - 1)
         /\ \A k \in 0..7 : LittleEndian(ReadU64(s, at), k) = s[at + k]
<1> DEFINE lo == ReadU32(s, at)
           a == at + 4
           hi == ReadU32(s, a)
           n == lo + U32 * hi
<1>1. /\ \A k \in 0..3 : s[at + k] \in Byte
      /\ \A k \in 0..3 : s[a + k] \in Byte /\ s[a + k] = s[at + (k + 4)]
  <2>1. \A k \in 0..3 : k \in 0..7 /\ k + 4 \in 0..7 /\ a + k = at + (k + 4)
    OBVIOUS
  <2> QED BY <2>1
<1>2. a \in Nat
  OBVIOUS
<1>3. ReadU64(s, at) = n
  BY DEF ReadU64
<1> HIDE DEF a
<1>4. lo \in 0..(U32 - 1) /\ \A k \in 0..3 : LittleEndian(lo, k) = s[at + k]
  BY <1>1, WriteUndoesRead32
<1>5. hi \in 0..(U32 - 1) /\ \A k \in 0..3 : LittleEndian(hi, k) = s[at + (k + 4)]
  BY <1>1, <1>2, WriteUndoesRead32
<1> HIDE DEF lo, hi
<1>6. n \in Nat /\ n % U32 = lo /\ n \div U32 = hi
  BY <1>4, <1>5, JoinDoubleWords
<1> HIDE DEF n
<1>7. \A k \in 0..3 : LittleEndian(n, k) = s[at + k]
  BY <1>4, <1>6, LowBytes
<1>8. \A k \in 0..3 : LittleEndian(n, k + 4) = s[at + (k + 4)]
  BY <1>5, <1>6, HighBytes
<1>9. \A k \in 0..7 : k \in 0..3 \/ (k - 4 \in 0..3 /\ (k - 4) + 4 = k)
  OBVIOUS
<1> QED BY <1>3, <1>5, <1>6, <1>7, <1>8, <1>9

----------------------------------------------------------------------------
(* Writing into a block.                                                   *)

(* The bytes of `byte` are in `new` from `at`, and the others are those of *)
(* `old`.                                                                  *)
Wrote(new, old, last, at, width, byte) ==
  /\ new \in [0..last -> Byte]
  /\ \A k \in 0..(width - 1) : new[at + k] = byte[k]
  /\ \A k \in 0..last : k < at \/ at + width <= k => new[k] = old[k]

IntegerBytes(n, width) == [k \in 0..(width - 1) |-> LittleEndian(n, k)]
Numbered(s, width) == [k \in 0..(width - 1) |-> s[k + 1]]

(* Put writes so, as long as the bytes fit.                                *)
LEMMA PutAt ==
  ASSUME NEW last \in Nat, NEW to \in [0..last -> Byte], NEW at \in Nat, NEW width \in Nat,
         at + width <= last + 1,
         NEW byte, \A k \in 0..(width - 1) : byte[k] \in Byte
  PROVE  Wrote(Put(to, at, width, byte), to, last, at, width, byte)
<1> DEFINE new == Put(to, at, width, byte)
<1>1. new = [k \in 0..last |-> IF k \in at..(at + width - 1) THEN byte[k - at] ELSE to[k]]
  BY DEF Put
<1>2. \A k \in 0..last : k \in at..(at + width - 1) => byte[k - at] \in Byte
  OBVIOUS
<1> HIDE DEF new
<1>3. new \in [0..last -> Byte]
  BY <1>1, <1>2
<1>4. \A k \in 0..(width - 1) :
        at + k \in 0..last /\ at + k \in at..(at + width - 1) /\ (at + k) - at = k
  OBVIOUS
<1>5. \A k \in 0..(width - 1) : new[at + k] = byte[k]
  BY <1>1, <1>4
<1>6. \A k \in 0..last : k < at \/ at + width <= k => new[k] = to[k]
  BY <1>1
<1> QED BY <1>3, <1>5, <1>6 DEF new, Wrote

(* So does PutInteger, with the bytes of an integer,                       *)
LEMMA PutIntegerAt ==
  ASSUME NEW last \in Nat, NEW to \in [0..last -> Byte], NEW at \in Nat, NEW width \in 0..8,
         at + width <= last + 1, NEW n \in Nat
  PROVE  Wrote(PutInteger(to, at, width, n), to, last, at, width, IntegerBytes(n, width))
<1>1. PutInteger(to, at, width, n) = Put(to, at, width, IntegerBytes(n, width))
  BY DEF PutInteger, IntegerBytes
<1>2. \A k \in 0..(width - 1) : IntegerBytes(n, width)[k] \in Byte
  <2>1. \A k \in 0..(width - 1) : k \in 0..7
    OBVIOUS
  <2> QED BY <2>1, ByteType DEF IntegerBytes
<1> QED BY <1>1, <1>2, PutAt

(* and PutBytes, with those of an array.                                   *)
LEMMA PutBytesAt ==
  ASSUME NEW last \in Nat, NEW to \in [0..last -> Byte], NEW at \in Nat, NEW width \in Nat,
         at + width <= last + 1, NEW s \in [1..width -> Byte]
  PROVE  Wrote(PutBytes(to, at, s), to, last, at, width, Numbered(s, width))
<1>1. Len(s) = width
  BY SMT
<1>2. PutBytes(to, at, s) = Put(to, at, width, Numbered(s, width))
  BY <1>1 DEF PutBytes, Numbered
<1>3. \A k \in 0..(width - 1) : Numbered(s, width)[k] \in Byte
  BY DEF Numbered
<1> QED BY <1>2, <1>3, PutAt

----------------------------------------------------------------------------
(* The file header and its 64 bytes.                                       *)

(* s holds the header h: every field of h where it belongs.                *)
HoldsHeader(s, h) ==
  /\ s \in [0..63 -> Byte]
  /\ \A k \in 0..7 : s[0 + k] = Magic[k + 1]
  /\ \A k \in 0..1 : s[8 + k] = LittleEndian(h.format_version, k)
  /\ \A k \in 0..0 : s[10 + k] = LittleEndian(h.kdf_id, k)
  /\ \A k \in 0..0 : s[11 + k] = LittleEndian(h.aead_id, k)
  /\ \A k \in 0..0 : s[12 + k] = LittleEndian(h.compression_id, k)
  /\ \A k \in 0..0 : s[13 + k] = LittleEndian(h.kdf.log_n, k)
  /\ \A k \in 0..3 : s[14 + k] = LittleEndian(h.kdf.r, k)
  /\ \A k \in 0..3 : s[18 + k] = LittleEndian(h.kdf.p, k)
  /\ \A k \in 0..15 : s[22 + k] = h.salt[k + 1]
  /\ \A k \in 0..7 : s[38 + k] = h.nonce_prefix[k + 1]
  /\ \A k \in 0..3 : s[46 + k] = LittleEndian(h.chunk_size, k)
  /\ \A k \in 0..7 : s[50 + k] = LittleEndian(h.plaintext_size, k)
  /\ \A k \in 0..3 : s[58 + k] = LittleEndian(h.chunk_count, k)
  /\ \A k \in 0..1 : s[62 + k] = LittleEndian(0, k)

(* The bytes of a header are no others: no byte is between its fields.     *)
LEMMA OneHeader ==
  ASSUME NEW s, NEW t, NEW h, HoldsHeader(s, h), HoldsHeader(t, h)
  PROVE  s = t
<1>1. ASSUME NEW at \in Nat, NEW width \in Nat,
             \A k \in 0..(width - 1) : s[at + k] = t[at + k]
      PROVE  \A k \in at..(at + width - 1) : s[k] = t[k]
  <2>1. \A k \in at..(at + width - 1) : k - at \in 0..(width - 1) /\ at + (k - at) = k
    OBVIOUS
  <2> QED BY <1>1, <2>1
<1>2. \A k \in 0..7 : s[k] = t[k]
  <2>1. \A k \in 0..(8 - 1) : s[0 + k] = t[0 + k]
    BY DEF HoldsHeader
  <2>2. 0 + 8 - 1 = 7
    OBVIOUS
  <2> QED BY <1>1, <2>1, <2>2
<1>3. \A k \in 8..9 : s[k] = t[k]
  <2>1. \A k \in 0..(2 - 1) : s[8 + k] = t[8 + k]
    BY DEF HoldsHeader
  <2>2. 8 + 2 - 1 = 9
    OBVIOUS
  <2> QED BY <1>1, <2>1, <2>2
<1>4. \A k \in 10..10 : s[k] = t[k]
  <2>1. \A k \in 0..(1 - 1) : s[10 + k] = t[10 + k]
    BY DEF HoldsHeader
  <2>2. 10 + 1 - 1 = 10
    OBVIOUS
  <2> QED BY <1>1, <2>1, <2>2
<1>5. \A k \in 11..11 : s[k] = t[k]
  <2>1. \A k \in 0..(1 - 1) : s[11 + k] = t[11 + k]
    BY DEF HoldsHeader
  <2>2. 11 + 1 - 1 = 11
    OBVIOUS
  <2> QED BY <1>1, <2>1, <2>2
<1>6. \A k \in 12..12 : s[k] = t[k]
  <2>1. \A k \in 0..(1 - 1) : s[12 + k] = t[12 + k]
    BY DEF HoldsHeader
  <2>2. 12 + 1 - 1 = 12
    OBVIOUS
  <2> QED BY <1>1, <2>1, <2>2
<1>7. \A k \in 13..13 : s[k] = t[k]
  <2>1. \A k \in 0..(1 - 1) : s[13 + k] = t[13 + k]
    BY DEF HoldsHeader
  <2>2. 13 + 1 - 1 = 13
    OBVIOUS
  <2> QED BY <1>1, <2>1, <2>2
<1>8. \A k \in 14..17 : s[k] = t[k]
  <2>1. \A k \in 0..(4 - 1) : s[14 + k] = t[14 + k]
    BY DEF HoldsHeader
  <2>2. 14 + 4 - 1 = 17
    OBVIOUS
  <2> QED BY <1>1, <2>1, <2>2
<1>9. \A k \in 18..21 : s[k] = t[k]
  <2>1. \A k \in 0..(4 - 1) : s[18 + k] = t[18 + k]
    BY DEF HoldsHeader
  <2>2. 18 + 4 - 1 = 21
    OBVIOUS
  <2> QED BY <1>1, <2>1, <2>2
<1>10. \A k \in 22..37 : s[k] = t[k]
  <2>1. \A k \in 0..(16 - 1) : s[22 + k] = t[22 + k]
    BY DEF HoldsHeader
  <2>2. 22 + 16 - 1 = 37
    OBVIOUS
  <2> QED BY <1>1, <2>1, <2>2
<1>11. \A k \in 38..45 : s[k] = t[k]
  <2>1. \A k \in 0..(8 - 1) : s[38 + k] = t[38 + k]
    BY DEF HoldsHeader
  <2>2. 38 + 8 - 1 = 45
    OBVIOUS
  <2> QED BY <1>1, <2>1, <2>2
<1>12. \A k \in 46..49 : s[k] = t[k]
  <2>1. \A k \in 0..(4 - 1) : s[46 + k] = t[46 + k]
    BY DEF HoldsHeader
  <2>2. 46 + 4 - 1 = 49
    OBVIOUS
  <2> QED BY <1>1, <2>1, <2>2
<1>13. \A k \in 50..57 : s[k] = t[k]
  <2>1. \A k \in 0..(8 - 1) : s[50 + k] = t[50 + k]
    BY DEF HoldsHeader
  <2>2. 50 + 8 - 1 = 57
    OBVIOUS
  <2> QED BY <1>1, <2>1, <2>2
<1>14. \A k \in 58..61 : s[k] = t[k]
  <2>1. \A k \in 0..(4 - 1) : s[58 + k] = t[58 + k]
    BY DEF HoldsHeader
  <2>2. 58 + 4 - 1 = 61
    OBVIOUS
  <2> QED BY <1>1, <2>1, <2>2
<1>15. \A k \in 62..63 : s[k] = t[k]
  <2>1. \A k \in 0..(2 - 1) : s[62 + k] = t[62 + k]
    BY DEF HoldsHeader
  <2>2. 62 + 2 - 1 = 63
    OBVIOUS
  <2> QED BY <1>1, <2>1, <2>2
<1>16. \A k \in 0..63 :
         \/ k \in 0..7
         \/ k \in 8..9
         \/ k \in 10..10
         \/ k \in 11..11
         \/ k \in 12..12
         \/ k \in 13..13
         \/ k \in 14..17
         \/ k \in 18..21
         \/ k \in 22..37
         \/ k \in 38..45
         \/ k \in 46..49
         \/ k \in 50..57
         \/ k \in 58..61
         \/ k \in 62..63
  OBVIOUS
<1>17. \A k \in 0..63 : s[k] = t[k]
  BY <1>16, <1>2, <1>3, <1>4, <1>5, <1>6, <1>7, <1>8, <1>9, <1>10, <1>11, <1>12,
     <1>13, <1>14, <1>15
<1> QED BY <1>17 DEF HoldsHeader

(* SerializeFileHeader writes every field, and none over another: each     *)
(* write is behind those before it.                                        *)
LEMMA HeaderIsHeld ==
  ASSUME NEW h, IsFileHeader(h)
  PROVE  HoldsHeader(SerializeFileHeader(h), h)
<1> DEFINE zeros == Zeros(HeaderSize)
           magic == PutBytes(zeros, 0, Magic)
           version == PutInteger(magic, 8, 2, h.format_version)
           kdf_id == PutInteger(version, 10, 1, h.kdf_id)
           aead_id == PutInteger(kdf_id, 11, 1, h.aead_id)
           compression == PutInteger(aead_id, 12, 1, h.compression_id)
           log_n == PutInteger(compression, 13, 1, h.kdf.log_n)
           r == PutInteger(log_n, 14, 4, h.kdf.r)
           p == PutInteger(r, 18, 4, h.kdf.p)
           salt == PutBytes(p, 22, h.salt)
           prefix == PutBytes(salt, 38, h.nonce_prefix)
           chunk == PutInteger(prefix, 46, 4, h.chunk_size)
           plaintext == PutInteger(chunk, 50, 8, h.plaintext_size)
           count == PutInteger(plaintext, 58, 4, h.chunk_count)
           reserved == PutInteger(count, 62, 2, 0)
<1>1. SerializeFileHeader(h) = reserved
  BY DEF SerializeFileHeader, Offset
<1>2. zeros \in [0..63 -> Byte]
  BY WeightType, ByteLayoutAssumption DEF Zeros, Byte
<1>3. /\ {h.format_version, h.kdf_id, h.aead_id, h.compression_id, h.kdf.log_n, h.kdf.r,
          h.kdf.p, h.chunk_size, h.plaintext_size, h.chunk_count, 0} \subseteq Nat
      /\ h.salt \in [1..16 -> Byte] /\ h.nonce_prefix \in [1..8 -> Byte]
      /\ Magic \in [1..8 -> Byte]
  BY WeightType, ByteLayoutAssumption DEF IsFileHeader, Byte
<1> HIDE DEF zeros, magic, version, kdf_id, aead_id, compression, log_n, r, p,
              salt, prefix, chunk, plaintext, count, reserved
<1>4. magic \in [0..63 -> Byte]
        /\ (\A k \in 0..7 : magic[0 + k] = Magic[k + 1])
        /\ (\A k \in 0..63 : k < 0 => magic[k] = zeros[k])
  <2>1. /\ 63 \in Nat /\ 0 \in Nat /\ 8 \in Nat /\ 0 + 8 <= 63 + 1
        /\ Magic \in [1..8 -> Byte] /\ zeros \in [0..63 -> Byte]
    BY <1>3, <1>2
  <2>2. Wrote(PutBytes(zeros, 0, Magic),
              zeros, 63, 0, 8, Numbered(Magic, 8))
    BY <2>1, PutBytesAt, Zenon
  <2> QED BY <2>2 DEF magic, Wrote, Numbered
<1>5. version \in [0..63 -> Byte]
        /\ (\A k \in 0..1 : version[8 + k] = LittleEndian(h.format_version, k))
        /\ (\A k \in 0..63 : k < 8 => version[k] = magic[k])
  <2>1. /\ 63 \in Nat /\ 8 \in Nat /\ 2 \in 0..8 /\ 8 + 2 <= 63 + 1
        /\ h.format_version \in Nat /\ magic \in [0..63 -> Byte]
    BY <1>3, <1>4
  <2>2. Wrote(PutInteger(magic, 8, 2, h.format_version),
              magic, 63, 8, 2, IntegerBytes(h.format_version, 2))
    BY <2>1, PutIntegerAt, Zenon
  <2> QED BY <2>2 DEF version, Wrote, IntegerBytes
<1>6. kdf_id \in [0..63 -> Byte]
        /\ (\A k \in 0..0 : kdf_id[10 + k] = LittleEndian(h.kdf_id, k))
        /\ (\A k \in 0..63 : k < 10 => kdf_id[k] = version[k])
  <2>1. /\ 63 \in Nat /\ 10 \in Nat /\ 1 \in 0..8 /\ 10 + 1 <= 63 + 1
        /\ h.kdf_id \in Nat /\ version \in [0..63 -> Byte]
    BY <1>3, <1>5
  <2>2. Wrote(PutInteger(version, 10, 1, h.kdf_id),
              version, 63, 10, 1, IntegerBytes(h.kdf_id, 1))
    BY <2>1, PutIntegerAt, Zenon
  <2> QED BY <2>2 DEF kdf_id, Wrote, IntegerBytes
<1>7. aead_id \in [0..63 -> Byte]
        /\ (\A k \in 0..0 : aead_id[11 + k] = LittleEndian(h.aead_id, k))
        /\ (\A k \in 0..63 : k < 11 => aead_id[k] = kdf_id[k])
  <2>1. /\ 63 \in Nat /\ 11 \in Nat /\ 1 \in 0..8 /\ 11 + 1 <= 63 + 1
        /\ h.aead_id \in Nat /\ kdf_id \in [0..63 -> Byte]
    BY <1>3, <1>6
  <2>2. Wrote(PutInteger(kdf_id, 11, 1, h.aead_id),
              kdf_id, 63, 11, 1, IntegerBytes(h.aead_id, 1))
    BY <2>1, PutIntegerAt, Zenon
  <2> QED BY <2>2 DEF aead_id, Wrote, IntegerBytes
<1>8. compression \in [0..63 -> Byte]
        /\ (\A k \in 0..0 : compression[12 + k] = LittleEndian(h.compression_id, k))
        /\ (\A k \in 0..63 : k < 12 => compression[k] = aead_id[k])
  <2>1. /\ 63 \in Nat /\ 12 \in Nat /\ 1 \in 0..8 /\ 12 + 1 <= 63 + 1
        /\ h.compression_id \in Nat /\ aead_id \in [0..63 -> Byte]
    BY <1>3, <1>7
  <2>2. Wrote(PutInteger(aead_id, 12, 1, h.compression_id),
              aead_id, 63, 12, 1, IntegerBytes(h.compression_id, 1))
    BY <2>1, PutIntegerAt, Zenon
  <2> QED BY <2>2 DEF compression, Wrote, IntegerBytes
<1>9. log_n \in [0..63 -> Byte]
        /\ (\A k \in 0..0 : log_n[13 + k] = LittleEndian(h.kdf.log_n, k))
        /\ (\A k \in 0..63 : k < 13 => log_n[k] = compression[k])
  <2>1. /\ 63 \in Nat /\ 13 \in Nat /\ 1 \in 0..8 /\ 13 + 1 <= 63 + 1
        /\ h.kdf.log_n \in Nat /\ compression \in [0..63 -> Byte]
    BY <1>3, <1>8
  <2>2. Wrote(PutInteger(compression, 13, 1, h.kdf.log_n),
              compression, 63, 13, 1, IntegerBytes(h.kdf.log_n, 1))
    BY <2>1, PutIntegerAt, Zenon
  <2> QED BY <2>2 DEF log_n, Wrote, IntegerBytes
<1>10. r \in [0..63 -> Byte]
        /\ (\A k \in 0..3 : r[14 + k] = LittleEndian(h.kdf.r, k))
        /\ (\A k \in 0..63 : k < 14 => r[k] = log_n[k])
  <2>1. /\ 63 \in Nat /\ 14 \in Nat /\ 4 \in 0..8 /\ 14 + 4 <= 63 + 1
        /\ h.kdf.r \in Nat /\ log_n \in [0..63 -> Byte]
    BY <1>3, <1>9
  <2>2. Wrote(PutInteger(log_n, 14, 4, h.kdf.r),
              log_n, 63, 14, 4, IntegerBytes(h.kdf.r, 4))
    BY <2>1, PutIntegerAt, Zenon
  <2> QED BY <2>2 DEF r, Wrote, IntegerBytes
<1>11. p \in [0..63 -> Byte]
        /\ (\A k \in 0..3 : p[18 + k] = LittleEndian(h.kdf.p, k))
        /\ (\A k \in 0..63 : k < 18 => p[k] = r[k])
  <2>1. /\ 63 \in Nat /\ 18 \in Nat /\ 4 \in 0..8 /\ 18 + 4 <= 63 + 1
        /\ h.kdf.p \in Nat /\ r \in [0..63 -> Byte]
    BY <1>3, <1>10
  <2>2. Wrote(PutInteger(r, 18, 4, h.kdf.p),
              r, 63, 18, 4, IntegerBytes(h.kdf.p, 4))
    BY <2>1, PutIntegerAt, Zenon
  <2> QED BY <2>2 DEF p, Wrote, IntegerBytes
<1>12. salt \in [0..63 -> Byte]
        /\ (\A k \in 0..15 : salt[22 + k] = h.salt[k + 1])
        /\ (\A k \in 0..63 : k < 22 => salt[k] = p[k])
  <2>1. /\ 63 \in Nat /\ 22 \in Nat /\ 16 \in Nat /\ 22 + 16 <= 63 + 1
        /\ h.salt \in [1..16 -> Byte] /\ p \in [0..63 -> Byte]
    BY <1>3, <1>11
  <2>2. Wrote(PutBytes(p, 22, h.salt),
              p, 63, 22, 16, Numbered(h.salt, 16))
    BY <2>1, PutBytesAt, Zenon
  <2> QED BY <2>2 DEF salt, Wrote, Numbered
<1>13. prefix \in [0..63 -> Byte]
        /\ (\A k \in 0..7 : prefix[38 + k] = h.nonce_prefix[k + 1])
        /\ (\A k \in 0..63 : k < 38 => prefix[k] = salt[k])
  <2>1. /\ 63 \in Nat /\ 38 \in Nat /\ 8 \in Nat /\ 38 + 8 <= 63 + 1
        /\ h.nonce_prefix \in [1..8 -> Byte] /\ salt \in [0..63 -> Byte]
    BY <1>3, <1>12
  <2>2. Wrote(PutBytes(salt, 38, h.nonce_prefix),
              salt, 63, 38, 8, Numbered(h.nonce_prefix, 8))
    BY <2>1, PutBytesAt, Zenon
  <2> QED BY <2>2 DEF prefix, Wrote, Numbered
<1>14. chunk \in [0..63 -> Byte]
        /\ (\A k \in 0..3 : chunk[46 + k] = LittleEndian(h.chunk_size, k))
        /\ (\A k \in 0..63 : k < 46 => chunk[k] = prefix[k])
  <2>1. /\ 63 \in Nat /\ 46 \in Nat /\ 4 \in 0..8 /\ 46 + 4 <= 63 + 1
        /\ h.chunk_size \in Nat /\ prefix \in [0..63 -> Byte]
    BY <1>3, <1>13
  <2>2. Wrote(PutInteger(prefix, 46, 4, h.chunk_size),
              prefix, 63, 46, 4, IntegerBytes(h.chunk_size, 4))
    BY <2>1, PutIntegerAt, Zenon
  <2> QED BY <2>2 DEF chunk, Wrote, IntegerBytes
<1>15. plaintext \in [0..63 -> Byte]
        /\ (\A k \in 0..7 : plaintext[50 + k] = LittleEndian(h.plaintext_size, k))
        /\ (\A k \in 0..63 : k < 50 => plaintext[k] = chunk[k])
  <2>1. /\ 63 \in Nat /\ 50 \in Nat /\ 8 \in 0..8 /\ 50 + 8 <= 63 + 1
        /\ h.plaintext_size \in Nat /\ chunk \in [0..63 -> Byte]
    BY <1>3, <1>14
  <2>2. Wrote(PutInteger(chunk, 50, 8, h.plaintext_size),
              chunk, 63, 50, 8, IntegerBytes(h.plaintext_size, 8))
    BY <2>1, PutIntegerAt, Zenon
  <2> QED BY <2>2 DEF plaintext, Wrote, IntegerBytes
<1>16. count \in [0..63 -> Byte]
        /\ (\A k \in 0..3 : count[58 + k] = LittleEndian(h.chunk_count, k))
        /\ (\A k \in 0..63 : k < 58 => count[k] = plaintext[k])
  <2>1. /\ 63 \in Nat /\ 58 \in Nat /\ 4 \in 0..8 /\ 58 + 4 <= 63 + 1
        /\ h.chunk_count \in Nat /\ plaintext \in [0..63 -> Byte]
    BY <1>3, <1>15
  <2>2. Wrote(PutInteger(plaintext, 58, 4, h.chunk_count),
              plaintext, 63, 58, 4, IntegerBytes(h.chunk_count, 4))
    BY <2>1, PutIntegerAt, Zenon
  <2> QED BY <2>2 DEF count, Wrote, IntegerBytes
<1>17. reserved \in [0..63 -> Byte]
        /\ (\A k \in 0..1 : reserved[62 + k] = LittleEndian(0, k))
        /\ (\A k \in 0..63 : k < 62 => reserved[k] = count[k])
  <2>1. /\ 63 \in Nat /\ 62 \in Nat /\ 2 \in 0..8 /\ 62 + 2 <= 63 + 1
        /\ 0 \in Nat /\ count \in [0..63 -> Byte]
    BY <1>3, <1>16
  <2>2. Wrote(PutInteger(count, 62, 2, 0),
              count, 63, 62, 2, IntegerBytes(0, 2))
    BY <2>1, PutIntegerAt, Zenon
  <2> QED BY <2>2 DEF reserved, Wrote, IntegerBytes
<1>18. \A k \in 0..63 : k < 62 => reserved[k] = count[k]
  BY <1>17
<1>19. \A k \in 0..63 : k < 58 => reserved[k] = plaintext[k]
  BY <1>16, <1>18
<1>20. \A k \in 0..63 : k < 50 => reserved[k] = chunk[k]
  BY <1>15, <1>19
<1>21. \A k \in 0..63 : k < 46 => reserved[k] = prefix[k]
  BY <1>14, <1>20
<1>22. \A k \in 0..63 : k < 38 => reserved[k] = salt[k]
  BY <1>13, <1>21
<1>23. \A k \in 0..63 : k < 22 => reserved[k] = p[k]
  BY <1>12, <1>22
<1>24. \A k \in 0..63 : k < 18 => reserved[k] = r[k]
  BY <1>11, <1>23
<1>25. \A k \in 0..63 : k < 14 => reserved[k] = log_n[k]
  BY <1>10, <1>24
<1>26. \A k \in 0..63 : k < 13 => reserved[k] = compression[k]
  BY <1>9, <1>25
<1>27. \A k \in 0..63 : k < 12 => reserved[k] = aead_id[k]
  BY <1>8, <1>26
<1>28. \A k \in 0..63 : k < 11 => reserved[k] = kdf_id[k]
  BY <1>7, <1>27
<1>29. \A k \in 0..63 : k < 10 => reserved[k] = version[k]
  BY <1>6, <1>28
<1>30. \A k \in 0..63 : k < 8 => reserved[k] = magic[k]
  BY <1>5, <1>29
<1>31. \A k \in 0..7 : reserved[0 + k] = Magic[k + 1]
  <2>1. \A k \in 0..7 : 0 + k \in 0..63 /\ 0 + k < 8
    OBVIOUS
  <2> QED BY <2>1, <1>4, <1>30
<1>32. \A k \in 0..1 : reserved[8 + k] = LittleEndian(h.format_version, k)
  <2>1. \A k \in 0..1 : 8 + k \in 0..63 /\ 8 + k < 10
    OBVIOUS
  <2> QED BY <2>1, <1>5, <1>29
<1>33. \A k \in 0..0 : reserved[10 + k] = LittleEndian(h.kdf_id, k)
  <2>1. \A k \in 0..0 : 10 + k \in 0..63 /\ 10 + k < 11
    OBVIOUS
  <2> QED BY <2>1, <1>6, <1>28
<1>34. \A k \in 0..0 : reserved[11 + k] = LittleEndian(h.aead_id, k)
  <2>1. \A k \in 0..0 : 11 + k \in 0..63 /\ 11 + k < 12
    OBVIOUS
  <2> QED BY <2>1, <1>7, <1>27
<1>35. \A k \in 0..0 : reserved[12 + k] = LittleEndian(h.compression_id, k)
  <2>1. \A k \in 0..0 : 12 + k \in 0..63 /\ 12 + k < 13
    OBVIOUS
  <2> QED BY <2>1, <1>8, <1>26
<1>36. \A k \in 0..0 : reserved[13 + k] = LittleEndian(h.kdf.log_n, k)
  <2>1. \A k \in 0..0 : 13 + k \in 0..63 /\ 13 + k < 14
    OBVIOUS
  <2> QED BY <2>1, <1>9, <1>25
<1>37. \A k \in 0..3 : reserved[14 + k] = LittleEndian(h.kdf.r, k)
  <2>1. \A k \in 0..3 : 14 + k \in 0..63 /\ 14 + k < 18
    OBVIOUS
  <2> QED BY <2>1, <1>10, <1>24
<1>38. \A k \in 0..3 : reserved[18 + k] = LittleEndian(h.kdf.p, k)
  <2>1. \A k \in 0..3 : 18 + k \in 0..63 /\ 18 + k < 22
    OBVIOUS
  <2> QED BY <2>1, <1>11, <1>23
<1>39. \A k \in 0..15 : reserved[22 + k] = h.salt[k + 1]
  <2>1. \A k \in 0..15 : 22 + k \in 0..63 /\ 22 + k < 38
    OBVIOUS
  <2> QED BY <2>1, <1>12, <1>22
<1>40. \A k \in 0..7 : reserved[38 + k] = h.nonce_prefix[k + 1]
  <2>1. \A k \in 0..7 : 38 + k \in 0..63 /\ 38 + k < 46
    OBVIOUS
  <2> QED BY <2>1, <1>13, <1>21
<1>41. \A k \in 0..3 : reserved[46 + k] = LittleEndian(h.chunk_size, k)
  <2>1. \A k \in 0..3 : 46 + k \in 0..63 /\ 46 + k < 50
    OBVIOUS
  <2> QED BY <2>1, <1>14, <1>20
<1>42. \A k \in 0..7 : reserved[50 + k] = LittleEndian(h.plaintext_size, k)
  <2>1. \A k \in 0..7 : 50 + k \in 0..63 /\ 50 + k < 58
    OBVIOUS
  <2> QED BY <2>1, <1>15, <1>19
<1>43. \A k \in 0..3 : reserved[58 + k] = LittleEndian(h.chunk_count, k)
  <2>1. \A k \in 0..3 : 58 + k \in 0..63 /\ 58 + k < 62
    OBVIOUS
  <2> QED BY <2>1, <1>16, <1>18
<1> QED
  BY <1>1, <1>17, <1>31, <1>32, <1>33, <1>34, <1>35, <1>36, <1>37, <1>38, <1>39,
     <1>40, <1>41, <1>42, <1>43
  DEF HoldsHeader

(* A number of one byte is that byte.                                      *)
LEMMA OneByte ==
  ASSUME NEW n \in Byte
  PROVE  LittleEndian(n, 0) = n
<1>1. n \in 0..(Base - 1) /\ Base \in Nat \ {0}
  BY WeightType DEF Byte
<1>2. n \div 1 = n /\ n % Base = n
  BY <1>1
<1> QED BY <1>2, WeightType DEF LittleEndian

(* A slice and the bytes it is taken from.                                 *)
LEMMA SliceIs ==
  ASSUME NEW s, NEW at \in Nat, NEW width \in Nat, NEW b \in [1..width -> Byte],
         \A k \in 0..(width - 1) : s[at + k] = b[k + 1]
  PROVE  Slice(s, at, width) = b
<1>1. \A k \in 1..width :
        k - 1 \in 0..(width - 1) /\ (k - 1) + 1 = k /\ at + (k - 1) = at + k - 1
  OBVIOUS
<1>2. \A k \in 1..width : s[at + k - 1] = b[k]
  BY <1>1
<1> QED BY <1>2 DEF Slice

(* Reading a header's bytes gives the header.                              *)
LEMMA HeldHeaderIsRead ==
  ASSUME NEW h, IsFileHeader(h), NEW s, HoldsHeader(s, h)
  PROVE  DecodeFileHeader(s) = h
<1>1. /\ {h.kdf_id, h.aead_id, h.compression_id, h.kdf.log_n} \subseteq Byte
      /\ {h.format_version, h.kdf.r, h.kdf.p, h.chunk_size, h.plaintext_size,
          h.chunk_count, 0} \subseteq Nat
      /\ h.format_version < U16 /\ 0 < U16 /\ h.kdf.r < U32 /\ h.kdf.p < U32
      /\ h.chunk_size < U32 /\ h.chunk_count < U32 /\ h.plaintext_size \div U32 < U32
      /\ h.salt \in [1..16 -> Byte] /\ h.nonce_prefix \in [1..8 -> Byte]
      /\ Magic \in [1..8 -> Byte]
  BY WeightType, ByteLayoutAssumption DEF IsFileHeader
<1>2. /\ s[10] = h.kdf_id /\ s[11] = h.aead_id /\ s[12] = h.compression_id
      /\ s[13] = h.kdf.log_n
  <2>1. s[10 + 0] = LittleEndian(h.kdf_id, 0) /\ s[11 + 0] = LittleEndian(h.aead_id, 0)
    BY DEF HoldsHeader
  <2>2. /\ s[12 + 0] = LittleEndian(h.compression_id, 0)
        /\ s[13 + 0] = LittleEndian(h.kdf.log_n, 0)
    BY DEF HoldsHeader
  <2>3. 10 + 0 = 10 /\ 11 + 0 = 11 /\ 12 + 0 = 12 /\ 13 + 0 = 13
    OBVIOUS
  <2> QED BY <1>1, <2>1, <2>2, <2>3, OneByte
<1>3. Slice(s, 0, 8) = Magic
  <2>1. 0 \in Nat /\ 8 \in Nat /\ Magic \in [1..8 -> Byte]
        /\ (\A k \in 0..(8 - 1) : s[0 + k] = Magic[k + 1])
    BY <1>1 DEF HoldsHeader
  <2> QED BY <2>1, SliceIs, ZenonT(60)
<1>4. ReadU16(s, 8) = h.format_version
  <2>1. h.format_version \in Nat /\ 8 \in Nat /\ h.format_version < U16
        /\ (\A k \in 0..1 : s[8 + k] = LittleEndian(h.format_version, k))
    BY <1>1 DEF HoldsHeader
  <2> QED BY <2>1, ReadUndoesWrite, Zenon
<1>5. ReadU32(s, 14) = h.kdf.r
  <2>1. h.kdf.r \in Nat /\ 14 \in Nat /\ h.kdf.r < U32
        /\ (\A k \in 0..3 : s[14 + k] = LittleEndian(h.kdf.r, k))
    BY <1>1 DEF HoldsHeader
  <2> QED BY <2>1, ReadUndoesWrite, Zenon
<1>6. ReadU32(s, 18) = h.kdf.p
  <2>1. h.kdf.p \in Nat /\ 18 \in Nat /\ h.kdf.p < U32
        /\ (\A k \in 0..3 : s[18 + k] = LittleEndian(h.kdf.p, k))
    BY <1>1 DEF HoldsHeader
  <2> QED BY <2>1, ReadUndoesWrite, Zenon
<1>7. Slice(s, 22, 16) = h.salt
  <2>1. 22 \in Nat /\ 16 \in Nat /\ h.salt \in [1..16 -> Byte]
        /\ (\A k \in 0..(16 - 1) : s[22 + k] = h.salt[k + 1])
    BY <1>1 DEF HoldsHeader
  <2> QED BY <2>1, SliceIs, ZenonT(60)
<1>8. Slice(s, 38, 8) = h.nonce_prefix
  <2>1. 38 \in Nat /\ 8 \in Nat /\ h.nonce_prefix \in [1..8 -> Byte]
        /\ (\A k \in 0..(8 - 1) : s[38 + k] = h.nonce_prefix[k + 1])
    BY <1>1 DEF HoldsHeader
  <2> QED BY <2>1, SliceIs, ZenonT(60)
<1>9. ReadU32(s, 46) = h.chunk_size
  <2>1. h.chunk_size \in Nat /\ 46 \in Nat /\ h.chunk_size < U32
        /\ (\A k \in 0..3 : s[46 + k] = LittleEndian(h.chunk_size, k))
    BY <1>1 DEF HoldsHeader
  <2> QED BY <2>1, ReadUndoesWrite, Zenon
<1>10. ReadU64(s, 50) = h.plaintext_size
  <2>1. h.plaintext_size \in Nat /\ 50 \in Nat /\ h.plaintext_size \div U32 < U32
        /\ (\A k \in 0..7 : s[50 + k] = LittleEndian(h.plaintext_size, k))
    BY <1>1 DEF HoldsHeader
  <2> QED BY <2>1, ReadUndoesWrite, Zenon
<1>11. ReadU32(s, 58) = h.chunk_count
  <2>1. h.chunk_count \in Nat /\ 58 \in Nat /\ h.chunk_count < U32
        /\ (\A k \in 0..3 : s[58 + k] = LittleEndian(h.chunk_count, k))
    BY <1>1 DEF HoldsHeader
  <2> QED BY <2>1, ReadUndoesWrite, Zenon
<1>12. ReadU16(s, 62) = 0
  <2>1. 0 \in Nat /\ 62 \in Nat /\ 0 < U16
        /\ (\A k \in 0..1 : s[62 + k] = LittleEndian(0, k))
    BY <1>1 DEF HoldsHeader
  <2> QED BY <2>1, ReadUndoesWrite, Zenon
<1>13. DecodeFileHeader(s) =
        [magic |-> kMagic, format_version |-> h.format_version,
         kdf_id |-> h.kdf_id, aead_id |-> h.aead_id,
         compression_id |-> h.compression_id,
         kdf |-> [log_n |-> h.kdf.log_n, r |-> h.kdf.r, p |-> h.kdf.p],
         salt |-> h.salt, nonce_prefix |-> h.nonce_prefix,
         chunk_size |-> h.chunk_size, plaintext_size |-> h.plaintext_size,
         chunk_count |-> h.chunk_count, reserved |-> 0]
  BY <1>2, <1>3, <1>4, <1>5, <1>6, <1>7, <1>8, <1>9, <1>10, <1>11, <1>12 DEF
     DecodeFileHeader, Offset, Reserved
<1> QED BY <1>13 DEF IsFileHeader

(* An accepted header holds what is read from it.                          *)
LEMMA AcceptedHeaderIsHeld ==
  ASSUME NEW s \in [0..63 -> Byte], HeaderAccepted(s)
  PROVE  LET h == DecodeFileHeader(s) IN IsFileHeader(h) /\ HoldsHeader(s, h)
<1> DEFINE h == DecodeFileHeader(s)
<1>1. ParseFileHeader(h, HeaderSize) = "MC_OK"
  BY DEF HeaderAccepted
<1>2. h.magic = kMagic /\ h.reserved = 0
  <2> HIDE DEF h
  <2> QED BY <1>1 DEF ParseFileHeader
<1>3. /\ h = [magic |-> h.magic, format_version |-> ReadU16(s, 8), kdf_id |-> s[10],
              aead_id |-> s[11], compression_id |-> s[12],
              kdf |-> [log_n |-> s[13], r |-> ReadU32(s, 14), p |-> ReadU32(s, 18)],
              salt |-> Slice(s, 22, 16), nonce_prefix |-> Slice(s, 38, 8),
              chunk_size |-> ReadU32(s, 46), plaintext_size |-> ReadU64(s, 50),
              chunk_count |-> ReadU32(s, 58), reserved |-> ReadU16(s, 62)]
      /\ h.magic = IF Slice(s, 0, 8) = Magic THEN kMagic ELSE "other"
  BY DEF DecodeFileHeader, Offset, Reserved
<1> HIDE DEF h
<1>4. /\ h.format_version = ReadU16(s, 8) /\ h.kdf_id = s[10] /\ h.aead_id = s[11]
      /\ h.compression_id = s[12]
      /\ h.kdf = [log_n |-> s[13], r |-> ReadU32(s, 14), p |-> ReadU32(s, 18)]
      /\ h.salt = Slice(s, 22, 16) /\ h.nonce_prefix = Slice(s, 38, 8)
      /\ h.chunk_size = ReadU32(s, 46) /\ h.plaintext_size = ReadU64(s, 50)
      /\ h.chunk_count = ReadU32(s, 58) /\ ReadU16(s, 62) = 0
      /\ Slice(s, 0, 8) = Magic
  BY <1>2, <1>3 DEF kMagic
<1>5. h.kdf.log_n = s[13] /\ h.kdf.r = ReadU32(s, 14) /\ h.kdf.p = ReadU32(s, 18)
  BY <1>4
<1>6. Magic \in [1..8 -> Byte] /\ \A k \in 0..7 : s[0 + k] = Magic[k + 1]
  <2>1. Magic = Slice(s, 0, 8)
    BY <1>4
  <2>2. \A k \in 1..8 : s[0 + k - 1] \in Byte
    OBVIOUS
  <2>3. Magic \in [1..8 -> Byte]
    BY <2>1, <2>2 DEF Slice
  <2>4. \A k \in 0..7 : k + 1 \in 1..8 /\ 0 + (k + 1) - 1 = 0 + k
    OBVIOUS
  <2>5. \A k \in 0..7 : s[0 + k] = Magic[k + 1]
    BY <2>1, <2>4 DEF Slice
  <2> QED BY <2>3, <2>5
<1>7. h.format_version \in 0..(U16 - 1)
       /\ \A k \in 0..1 : s[8 + k] = LittleEndian(h.format_version, k)
  <2>1. 8 \in Nat /\ \A k \in 0..1 : s[8 + k] \in Byte
    OBVIOUS
  <2>2. ReadU16(s, 8) \in 0..(U16 - 1)
         /\ \A k \in 0..1 : LittleEndian(ReadU16(s, 8), k) = s[8 + k]
    BY <2>1, WriteUndoesRead16, Zenon
  <2> QED BY <2>2, <1>4, <1>5
<1>8. h.kdf_id \in Byte /\ \A k \in 0..0 : s[10 + k] = LittleEndian(h.kdf_id, k)
  <2>1. s[10] \in Byte
    OBVIOUS
  <2> QED BY <2>1, <1>4, <1>5, OneByte
<1>9. h.aead_id \in Byte /\ \A k \in 0..0 : s[11 + k] = LittleEndian(h.aead_id, k)
  <2>1. s[11] \in Byte
    OBVIOUS
  <2> QED BY <2>1, <1>4, <1>5, OneByte
<1>10. h.compression_id \in Byte
        /\ \A k \in 0..0 : s[12 + k] = LittleEndian(h.compression_id, k)
  <2>1. s[12] \in Byte
    OBVIOUS
  <2> QED BY <2>1, <1>4, <1>5, OneByte
<1>11. h.kdf.log_n \in Byte /\ \A k \in 0..0 : s[13 + k] = LittleEndian(h.kdf.log_n, k)
  <2>1. s[13] \in Byte
    OBVIOUS
  <2> QED BY <2>1, <1>4, <1>5, OneByte
<1>12. h.kdf.r \in 0..(U32 - 1) /\ \A k \in 0..3 : s[14 + k] = LittleEndian(h.kdf.r, k)
  <2>1. 14 \in Nat /\ \A k \in 0..3 : s[14 + k] \in Byte
    OBVIOUS
  <2>2. ReadU32(s, 14) \in 0..(U32 - 1)
         /\ \A k \in 0..3 : LittleEndian(ReadU32(s, 14), k) = s[14 + k]
    BY <2>1, WriteUndoesRead32, Zenon
  <2> QED BY <2>2, <1>4, <1>5
<1>13. h.kdf.p \in 0..(U32 - 1) /\ \A k \in 0..3 : s[18 + k] = LittleEndian(h.kdf.p, k)
  <2>1. 18 \in Nat /\ \A k \in 0..3 : s[18 + k] \in Byte
    OBVIOUS
  <2>2. ReadU32(s, 18) \in 0..(U32 - 1)
         /\ \A k \in 0..3 : LittleEndian(ReadU32(s, 18), k) = s[18 + k]
    BY <2>1, WriteUndoesRead32, Zenon
  <2> QED BY <2>2, <1>4, <1>5
<1>14. h.salt \in [1..16 -> Byte] /\ \A k \in 0..15 : s[22 + k] = h.salt[k + 1]
  <2>1. h.salt = Slice(s, 22, 16)
    BY <1>4
  <2>2. \A k \in 1..16 : s[22 + k - 1] \in Byte
    OBVIOUS
  <2>3. h.salt \in [1..16 -> Byte]
    BY <2>1, <2>2 DEF Slice
  <2>4. \A k \in 0..15 : k + 1 \in 1..16 /\ 22 + (k + 1) - 1 = 22 + k
    OBVIOUS
  <2>5. \A k \in 0..15 : s[22 + k] = h.salt[k + 1]
    BY <2>1, <2>4 DEF Slice
  <2> QED BY <2>3, <2>5
<1>15. h.nonce_prefix \in [1..8 -> Byte]
        /\ \A k \in 0..7 : s[38 + k] = h.nonce_prefix[k + 1]
  <2>1. h.nonce_prefix = Slice(s, 38, 8)
    BY <1>4
  <2>2. \A k \in 1..8 : s[38 + k - 1] \in Byte
    OBVIOUS
  <2>3. h.nonce_prefix \in [1..8 -> Byte]
    BY <2>1, <2>2 DEF Slice
  <2>4. \A k \in 0..7 : k + 1 \in 1..8 /\ 38 + (k + 1) - 1 = 38 + k
    OBVIOUS
  <2>5. \A k \in 0..7 : s[38 + k] = h.nonce_prefix[k + 1]
    BY <2>1, <2>4 DEF Slice
  <2> QED BY <2>3, <2>5
<1>16. h.chunk_size \in 0..(U32 - 1)
        /\ \A k \in 0..3 : s[46 + k] = LittleEndian(h.chunk_size, k)
  <2>1. 46 \in Nat /\ \A k \in 0..3 : s[46 + k] \in Byte
    OBVIOUS
  <2>2. ReadU32(s, 46) \in 0..(U32 - 1)
         /\ \A k \in 0..3 : LittleEndian(ReadU32(s, 46), k) = s[46 + k]
    BY <2>1, WriteUndoesRead32, Zenon
  <2> QED BY <2>2, <1>4, <1>5
<1>17. h.plaintext_size \in Nat /\ h.plaintext_size \div U32 \in 0..(U32 - 1)
        /\ \A k \in 0..7 : s[50 + k] = LittleEndian(h.plaintext_size, k)
  <2>1. 50 \in Nat /\ \A k \in 0..7 : s[50 + k] \in Byte
    OBVIOUS
  <2>2. ReadU64(s, 50) \in Nat /\ ReadU64(s, 50) \div U32 \in 0..(U32 - 1)
         /\ \A k \in 0..7 : LittleEndian(ReadU64(s, 50), k) = s[50 + k]
    BY <2>1, WriteUndoesRead64, Zenon
  <2> QED BY <2>2, <1>4, <1>5
<1>18. h.chunk_count \in 0..(U32 - 1)
        /\ \A k \in 0..3 : s[58 + k] = LittleEndian(h.chunk_count, k)
  <2>1. 58 \in Nat /\ \A k \in 0..3 : s[58 + k] \in Byte
    OBVIOUS
  <2>2. ReadU32(s, 58) \in 0..(U32 - 1)
         /\ \A k \in 0..3 : LittleEndian(ReadU32(s, 58), k) = s[58 + k]
    BY <2>1, WriteUndoesRead32, Zenon
  <2> QED BY <2>2, <1>4, <1>5
<1>19. 0 \in 0..(U16 - 1) /\ \A k \in 0..1 : s[62 + k] = LittleEndian(0, k)
  <2>1. 62 \in Nat /\ \A k \in 0..1 : s[62 + k] \in Byte
    OBVIOUS
  <2>2. ReadU16(s, 62) \in 0..(U16 - 1)
         /\ \A k \in 0..1 : LittleEndian(ReadU16(s, 62), k) = s[62 + k]
    BY <2>1, WriteUndoesRead16, Zenon
  <2> QED BY <2>2, <1>4, <1>5
<1>20. HoldsHeader(s, h)
  BY <1>6, <1>7, <1>8, <1>9, <1>10, <1>11, <1>12, <1>13, <1>14, <1>15, <1>16, <1>17,
     <1>18, <1>19 DEF HoldsHeader
<1>21. IsFileHeader(h)
  <2>1. h = [magic |-> kMagic, format_version |-> h.format_version,
             kdf_id |-> h.kdf_id, aead_id |-> h.aead_id,
             compression_id |-> h.compression_id,
             kdf |-> [log_n |-> h.kdf.log_n, r |-> h.kdf.r, p |-> h.kdf.p],
             salt |-> h.salt, nonce_prefix |-> h.nonce_prefix,
             chunk_size |-> h.chunk_size, plaintext_size |-> h.plaintext_size,
             chunk_count |-> h.chunk_count, reserved |-> 0]
    BY <1>2, <1>3, <1>4, <1>5
  <2> QED BY <2>1, <1>6, <1>7, <1>8, <1>9, <1>10, <1>11, <1>12, <1>13, <1>14, <1>15,
             <1>16, <1>17, <1>18, <1>19 DEF IsFileHeader
<1> QED BY <1>20, <1>21 DEF h

----------------------------------------------------------------------------
(* A chunk record.                                                         *)

\* The flags of a record fit their byte.
LEMMA FlagsType ==
  ASSUME NEW set
  PROVE  Flags(set) \in Byte /\ Flags(set) \in Nat
BY WeightType DEF Flags, Byte

(* SerializeChunkHeader writes stored size, flags and zeros.               *)
LEMMA RecordIsHeld ==
  ASSUME NEW c, c.stored \in 0..(U32 - 1)
  PROVE  /\ SerializeChunkHeader(c) \in [0..23 -> Byte]
         /\ \A k \in 0..3 : SerializeChunkHeader(c)[0 + k] = LittleEndian(c.stored, k)
         /\ SerializeChunkHeader(c)[4] = Flags(c.flags)
         /\ \A k \in 5..7 : SerializeChunkHeader(c)[k] = 0
<1> DEFINE zeros == Zeros(ChunkHeaderSize)
           stored == PutInteger(zeros, 0, 4, c.stored)
           flags == PutInteger(stored, 4, 1, Flags(c.flags))
           whole == PutBytes(flags, 8, TagBytes)
<1>1. SerializeChunkHeader(c) = whole
  BY DEF SerializeChunkHeader
<1>2. zeros \in [0..23 -> Byte] /\ \A k \in 0..23 : zeros[k] = 0
  BY WeightType, ByteLayoutAssumption DEF Zeros, Byte
<1>3. c.stored \in Nat /\ Flags(c.flags) \in Nat /\ Flags(c.flags) \in Byte
      /\ TagBytes \in [1..16 -> Byte]
  BY WeightType, ByteLayoutAssumption, FlagsType
<1> HIDE DEF zeros, stored, flags, whole
<1>4. Wrote(stored, zeros, 23, 0, 4, IntegerBytes(c.stored, 4))
  <2>1. 23 \in Nat /\ 0 \in Nat /\ 4 \in 0..8 /\ 0 + 4 <= 23 + 1
    OBVIOUS
  <2>2. Wrote(PutInteger(zeros, 0, 4, c.stored), zeros, 23, 0, 4, IntegerBytes(c.stored, 4))
    BY <2>1, <1>2, <1>3, PutIntegerAt, Zenon
  <2> QED BY <2>2 DEF stored
<1>5. Wrote(flags, stored, 23, 4, 1, IntegerBytes(Flags(c.flags), 1))
  <2>1. 23 \in Nat /\ 4 \in Nat /\ 1 \in 0..8 /\ 4 + 1 <= 23 + 1 /\ stored \in [0..23 -> Byte]
    BY <1>4 DEF Wrote
  <2>2. Wrote(PutInteger(stored, 4, 1, Flags(c.flags)), stored, 23, 4, 1,
              IntegerBytes(Flags(c.flags), 1))
    BY <2>1, <1>3, PutIntegerAt, Zenon
  <2> QED BY <2>2 DEF flags
<1>6. Wrote(whole, flags, 23, 8, 16, Numbered(TagBytes, 16))
  <2>1. 23 \in Nat /\ 8 \in Nat /\ 16 \in Nat /\ 8 + 16 <= 23 + 1 /\ flags \in [0..23 -> Byte]
    BY <1>5 DEF Wrote
  <2>2. Wrote(PutBytes(flags, 8, TagBytes), flags, 23, 8, 16, Numbered(TagBytes, 16))
    BY <2>1, <1>3, PutBytesAt, Zenon
  <2> QED BY <2>2 DEF whole
<1>7. \A k \in 0..7 : whole[k] = flags[k]
  BY <1>6 DEF Wrote
<1>8. \A k \in 0..3 : whole[0 + k] = LittleEndian(c.stored, k)
  <2>1. \A k \in 0..3 : stored[0 + k] = LittleEndian(c.stored, k)
    BY <1>4 DEF Wrote, IntegerBytes
  <2>2. \A k \in 0..3 : flags[0 + k] = stored[0 + k]
    BY <1>5 DEF Wrote
  <2> QED BY <2>1, <2>2, <1>7
<1>9. whole[4] = Flags(c.flags)
  <2>1. 0 \in 0..(1 - 1) /\ 4 + 0 = 4
    OBVIOUS
  <2>2. flags[4] = LittleEndian(Flags(c.flags), 0)
    BY <2>1, <1>5 DEF Wrote, IntegerBytes
  <2> QED BY <2>2, <1>3, <1>7, OneByte
<1>10. \A k \in 5..7 : whole[k] = 0
  <2>1. \A k \in 5..7 : stored[k] = 0
    BY <1>2, <1>4 DEF Wrote
  <2>2. \A k \in 5..7 : flags[k] = stored[k]
    BY <1>5 DEF Wrote
  <2> QED BY <2>1, <2>2, <1>7
<1> QED BY <1>1, <1>6, <1>8, <1>9, <1>10 DEF Wrote

(* An accepted record holds the stored size and the flags that are read    *)
(* from it, and zeros: each bit of its flags byte and each reserved byte   *)
(* is looked at.                                                           *)
LEMMA AcceptedRecordIsHeld ==
  ASSUME NEW s \in [0..23 -> Byte], NEW hdr, RecordAccepted(s, hdr)
  PROVE  LET c == DecodeChunkHeader(s)
         IN  /\ c.stored \in 0..(U32 - 1) /\ c.flags \in SUBSET {"compressed"}
             /\ \A k \in 0..3 : s[0 + k] = LittleEndian(c.stored, k)
             /\ s[4] = Flags(c.flags) /\ \A k \in 5..7 : s[k] = 0
<1> DEFINE c == DecodeChunkHeader(s)
           stored == ReadU32(s, 0)
           flags == {f \in {"compressed", "unknown"} :
                      IF f = "compressed" THEN s[4] % 2 = 1 ELSE s[4] \div 2 # 0}
<1>1. /\ c.stored = stored /\ c.flags = flags
      /\ c.reserved = IF \A k \in 0..(ReservedWidth - 1) : s[5 + k] = 0 THEN 0 ELSE 1
  BY DEF DecodeChunkHeader
<1>2. c.flags \in SUBSET {"compressed"} /\ c.reserved = 0
  <2> HIDE DEF c
  <2> QED BY DEF RecordAccepted, ParseChunkHeader, c
<1> HIDE DEF c
<1>3. stored \in 0..(U32 - 1) /\ \A k \in 0..3 : LittleEndian(stored, k) = s[0 + k]
  <2>1. 0 \in Nat /\ \A k \in 0..3 : s[0 + k] \in Byte
    OBVIOUS
  <2> QED BY <2>1, WriteUndoesRead32, Zenon
<1>4. s[4] = Flags(c.flags)
  <2>1. s[4] \in Nat
    <3>1. s[4] \in Byte
      OBVIOUS
    <3> QED BY <3>1, WeightType DEF Byte
  <2>2. ~(s[4] \div 2 # 0)
    <3>1. "unknown" \notin flags
      BY <1>1, <1>2
    <3> QED BY <3>1
  <2>3. s[4] = s[4] % 2
    BY <2>1, <2>2
  <2>4. "compressed" \in flags <=> s[4] % 2 = 1
    OBVIOUS
  <2>5. s[4] % 2 \in {0, 1}
    BY <2>1
  <2> HIDE DEF flags
  <2>6. CASE s[4] = 1
    BY <2>6, <2>3, <2>4, <1>1 DEF Flags
  <2>7. CASE s[4] = 0
    BY <2>7, <2>3, <2>4, <1>1 DEF Flags
  <2> QED BY <2>3, <2>5, <2>6, <2>7
<1>5. \A k \in 5..7 : s[k] = 0
  <2>1. \A k \in 0..(ReservedWidth - 1) : s[5 + k] = 0
    BY <1>1, <1>2
  <2>2. \A k \in 5..7 : k - 5 \in 0..(ReservedWidth - 1) /\ 5 + (k - 5) = k
    BY DEF ReservedWidth
  <2> QED BY <2>1, <2>2
<1> HIDE DEF stored, flags
<1> QED BY <1>1, <1>2, <1>3, <1>4, <1>5 DEF c

----------------------------------------------------------------------------
(* The associated data and the nonce.                                      *)

(* Two numbers of 32 bits with the same bytes are the same.                *)
LEMMA SameNumber ==
  ASSUME NEW m \in 0..(U32 - 1), NEW n \in 0..(U32 - 1),
         \A k \in 0..3 : LittleEndian(m, k) = LittleEndian(n, k)
  PROVE  m = n
<1> DEFINE s == [k \in 0..3 |-> LittleEndian(m, k)]
<1>1. m \in Nat /\ n \in Nat /\ m < U32 /\ n < U32 /\ 0 \in Nat
  BY WeightType
<1>2. (\A k \in 0..3 : s[0 + k] = LittleEndian(m, k))
      /\ (\A k \in 0..3 : s[0 + k] = LittleEndian(n, k))
  OBVIOUS
<1> HIDE DEF s
<1>3. ReadU32(s, 0) = m
  BY <1>1, <1>2, ReadUndoesWrite, Zenon
<1>4. ReadU32(s, 0) = n
  BY <1>1, <1>2, ReadUndoesWrite, Zenon
<1> QED BY <1>3, <1>4

(* Header bytes, index, stored size and flags, one after the other.        *)
HoldsAad(a, s, i, c) ==
  /\ a \in [0..72 -> Byte]
  /\ \A k \in 0..63 : a[k] = s[k + 1]
  /\ \A k \in 0..3 : a[64 + k] = LittleEndian(i, k)
  /\ \A k \in 0..3 : a[68 + k] = LittleEndian(c.stored, k)
  /\ a[72] = Flags(c.flags)

\* AadBytes writes them so.
LEMMA AadIsHeld ==
  ASSUME NEW s \in [1..64 -> Byte], NEW i \in Nat, NEW c, c.stored \in Nat
  PROVE  HoldsAad(AadBytes(s, i, c), s, i, c)
<1> DEFINE zeros == Zeros(73)
           header == PutBytes(zeros, 0, s)
           counter == PutInteger(header, 64, 4, i)
           stored == PutInteger(counter, 68, 4, c.stored)
           flags == PutInteger(stored, 72, 1, Flags(c.flags))
<1>1. AadBytes(s, i, c) = flags
  <2>1. HeaderSize = 64 /\ 64 + 9 = 73 /\ 64 + 4 = 68 /\ 64 + 8 = 72
    BY ByteLayoutAssumption
  <2> QED BY <2>1 DEF AadBytes
<1>2. zeros \in [0..72 -> Byte]
  BY WeightType DEF Zeros, Byte
<1>3. Flags(c.flags) \in Nat /\ Flags(c.flags) \in Byte
  BY FlagsType
<1> HIDE DEF zeros, header, counter, stored, flags
<1>4. Wrote(header, zeros, 72, 0, 64, Numbered(s, 64))
  <2>1. 72 \in Nat /\ 0 \in Nat /\ 64 \in Nat /\ 0 + 64 <= 72 + 1
    OBVIOUS
  <2>2. Wrote(PutBytes(zeros, 0, s), zeros, 72, 0, 64, Numbered(s, 64))
    BY <2>1, <1>2, PutBytesAt, ZenonT(60)
  <2> QED BY <2>2 DEF header
<1>5. Wrote(counter, header, 72, 64, 4, IntegerBytes(i, 4))
  <2>1. 72 \in Nat /\ 64 \in Nat /\ 4 \in 0..8 /\ 64 + 4 <= 72 + 1 /\ header \in [0..72 -> Byte]
    BY <1>4 DEF Wrote
  <2>2. Wrote(PutInteger(header, 64, 4, i), header, 72, 64, 4, IntegerBytes(i, 4))
    BY <2>1, PutIntegerAt, ZenonT(60)
  <2> QED BY <2>2 DEF counter
<1>6. Wrote(stored, counter, 72, 68, 4, IntegerBytes(c.stored, 4))
  <2>1. 72 \in Nat /\ 68 \in Nat /\ 4 \in 0..8 /\ 68 + 4 <= 72 + 1 /\ counter \in [0..72 -> Byte]
    BY <1>5 DEF Wrote
  <2>2. Wrote(PutInteger(counter, 68, 4, c.stored), counter, 72, 68, 4, IntegerBytes(c.stored, 4))
    BY <2>1, PutIntegerAt, ZenonT(60)
  <2> QED BY <2>2 DEF stored
<1>7. Wrote(flags, stored, 72, 72, 1, IntegerBytes(Flags(c.flags), 1))
  <2>1. 72 \in Nat /\ 1 \in 0..8 /\ 72 + 1 <= 72 + 1 /\ stored \in [0..72 -> Byte]
    BY <1>6 DEF Wrote
  <2>2. Wrote(PutInteger(stored, 72, 1, Flags(c.flags)), stored, 72, 72, 1,
              IntegerBytes(Flags(c.flags), 1))
    BY <2>1, <1>3, PutIntegerAt, ZenonT(60)
  <2> QED BY <2>2 DEF flags
<1>8. \A k \in 0..71 : flags[k] = stored[k]
  BY <1>7 DEF Wrote
<1>9. \A k \in 0..67 : stored[k] = counter[k]
  BY <1>6 DEF Wrote
<1>10. \A k \in 0..63 : counter[k] = header[k]
  BY <1>5 DEF Wrote
<1>11. \A k \in 0..63 : flags[k] = s[k + 1]
  <2>1. \A k \in 0..63 : header[k] = s[k + 1]
    BY <1>4 DEF Wrote, Numbered
  <2> QED BY <2>1, <1>8, <1>9, <1>10
<1>12. \A k \in 0..3 : flags[64 + k] = LittleEndian(i, k)
  <2>1. \A k \in 0..3 : counter[64 + k] = LittleEndian(i, k)
    BY <1>5 DEF Wrote, IntegerBytes
  <2>2. \A k \in 0..3 : 64 + k \in 0..71 /\ 64 + k \in 0..67
    OBVIOUS
  <2> QED BY <2>1, <2>2, <1>8, <1>9
<1>13. \A k \in 0..3 : flags[68 + k] = LittleEndian(c.stored, k)
  <2>1. \A k \in 0..3 : stored[68 + k] = LittleEndian(c.stored, k)
    BY <1>6 DEF Wrote, IntegerBytes
  <2>2. \A k \in 0..3 : 68 + k \in 0..71
    OBVIOUS
  <2> QED BY <2>1, <2>2, <1>8
<1>14. flags[72] = Flags(c.flags)
  <2>1. 0 \in 0..(1 - 1) /\ 72 + 0 = 72
    OBVIOUS
  <2>2. flags[72] = LittleEndian(Flags(c.flags), 0)
    BY <2>1, <1>7 DEF Wrote, IntegerBytes
  <2> QED BY <2>2, <1>3, OneByte
<1>15. flags \in [0..72 -> Byte]
  BY <1>7 DEF Wrote
<1> QED BY <1>1, <1>11, <1>12, <1>13, <1>14, <1>15 DEF HoldsAad

(* So the associated data of two chunks is the same only if all four are.  *)
LEMMA AadTellsApart ==
  ASSUME NEW s \in [1..64 -> Byte], NEW i \in 0..(U32 - 1), NEW c,
         NEW t \in [1..64 -> Byte], NEW j \in 0..(U32 - 1), NEW d,
         c.stored \in 0..(U32 - 1), d.stored \in 0..(U32 - 1),
         c.flags \in SUBSET {"compressed"}, d.flags \in SUBSET {"compressed"},
         AadBytes(s, i, c) = AadBytes(t, j, d)
  PROVE  s = t /\ i = j /\ c.stored = d.stored /\ c.flags = d.flags
<1> DEFINE a == AadBytes(s, i, c)
           b == AadBytes(t, j, d)
<1>1. i \in Nat /\ j \in Nat /\ c.stored \in Nat /\ d.stored \in Nat
  BY WeightType
<1>2. HoldsAad(a, s, i, c)
  BY <1>1, AadIsHeld
<1>3. HoldsAad(b, t, j, d)
  BY <1>1, AadIsHeld
<1>4. a = b
  OBVIOUS
<1> HIDE DEF a, b
<1>5. s = t
  <2>1. \A k \in 1..64 : k - 1 \in 0..63 /\ (k - 1) + 1 = k
    OBVIOUS
  <2>2. \A k \in 1..64 : s[k] = t[k]
    BY <2>1, <1>2, <1>3, <1>4 DEF HoldsAad
  <2> QED BY <2>2
<1>6. i = j
  BY <1>2, <1>3, <1>4, SameNumber DEF HoldsAad
<1>7. c.stored = d.stored
  BY <1>2, <1>3, <1>4, SameNumber DEF HoldsAad
<1>8. c.flags = d.flags
  <2>1. Flags(c.flags) = Flags(d.flags)
    BY <1>2, <1>3, <1>4 DEF HoldsAad
  <2>2. "compressed" \in c.flags <=> "compressed" \in d.flags
    BY <2>1 DEF Flags
  <2> QED BY <2>2
<1> QED BY <1>5, <1>6, <1>7, <1>8

(* Two chunks have the same nonce only if they are chunks of the same      *)
(* index of files with the same prefix.                                    *)
LEMMA NonceTellsApart ==
  ASSUME NEW p \in [1..8 -> Byte], NEW q \in [1..8 -> Byte],
         NEW i \in 0..(U32 - 1), NEW j \in 0..(U32 - 1),
         NonceBytes(p, i) = NonceBytes(q, j)
  PROVE  p = q /\ i = j
<1>1. ASSUME NEW x \in [1..8 -> Byte], NEW n \in 0..(U32 - 1)
      PROVE  /\ \A k \in 0..7 : NonceBytes(x, n)[k] = x[k + 1]
             /\ \A k \in 0..3 : NonceBytes(x, n)[8 + k] = LittleEndian(n, 3 - k)
  <2> DEFINE zeros == Zeros(12)
             prefix == PutBytes(zeros, 0, x)
             counter == [k \in 0..3 |-> CounterByte(n, k)]
             nonce == Put(prefix, 8, 4, counter)
  <2>1. NonceBytes(x, n) = nonce
    BY DEF NonceBytes
  <2>2. zeros \in [0..11 -> Byte]
    BY WeightType DEF Zeros, Byte
  <2>3. \A k \in 0..(4 - 1) : counter[k] = LittleEndian(n, 3 - k) /\ counter[k] \in Byte
    <3>1. n \in Nat /\ \A k \in 0..(4 - 1) : k \in 0..3 /\ 3 - k \in 0..7
      BY WeightType
    <3>2. \A k \in 0..(4 - 1) : LittleEndian(n, 3 - k) \in Byte
      BY <3>1, ByteType
    <3> QED BY <3>1, <3>2 DEF CounterByte
  <2> HIDE DEF zeros, prefix, counter, nonce
  <2>4. Wrote(prefix, zeros, 11, 0, 8, Numbered(x, 8))
    <3>1. 11 \in Nat /\ 0 \in Nat /\ 8 \in Nat /\ 0 + 8 <= 11 + 1
      OBVIOUS
    <3>2. Wrote(PutBytes(zeros, 0, x), zeros, 11, 0, 8, Numbered(x, 8))
      BY <3>1, <2>2, PutBytesAt, Zenon
    <3> QED BY <3>2 DEF prefix
  <2>5. Wrote(nonce, prefix, 11, 8, 4, counter)
    <3>1. 11 \in Nat /\ 8 \in Nat /\ 4 \in Nat /\ 8 + 4 <= 11 + 1 /\ prefix \in [0..11 -> Byte]
      BY <2>4 DEF Wrote
    <3>2. \A k \in 0..(4 - 1) : counter[k] \in Byte
      BY <2>3
    <3>3. Wrote(Put(prefix, 8, 4, counter), prefix, 11, 8, 4, counter)
      BY <3>1, <3>2, PutAt, Zenon
    <3> QED BY <3>3 DEF nonce
  <2>6. \A k \in 0..7 : nonce[k] = x[k + 1]
    <3>1. \A k \in 0..7 : prefix[k] = x[k + 1]
      BY <2>4 DEF Wrote, Numbered
    <3>2. \A k \in 0..7 : nonce[k] = prefix[k]
      BY <2>5 DEF Wrote
    <3> QED BY <3>1, <3>2
  <2>7. \A k \in 0..3 : nonce[8 + k] = LittleEndian(n, 3 - k)
    BY <2>3, <2>5 DEF Wrote
  <2> QED BY <2>1, <2>6, <2>7
<1> DEFINE a == NonceBytes(p, i)
           b == NonceBytes(q, j)
<1>2. /\ \A k \in 0..7 : a[k] = p[k + 1]
      /\ \A k \in 0..3 : a[8 + k] = LittleEndian(i, 3 - k)
  BY <1>1
<1>3. /\ \A k \in 0..7 : b[k] = q[k + 1]
      /\ \A k \in 0..3 : b[8 + k] = LittleEndian(j, 3 - k)
  BY <1>1
<1>4. a = b
  OBVIOUS
<1> HIDE DEF a, b
<1>5. p = q
  <2>1. \A k \in 1..8 : k - 1 \in 0..7 /\ (k - 1) + 1 = k
    OBVIOUS
  <2>2. \A k \in 1..8 : p[k] = q[k]
    BY <2>1, <1>2, <1>3, <1>4
  <2> QED BY <2>2
<1>6. i = j
  <2>1. \A k \in 0..3 : 3 - k \in 0..3 /\ 3 - (3 - k) = k
    OBVIOUS
  <2>2. \A k \in 0..3 : LittleEndian(i, k) = LittleEndian(j, k)
    BY <2>1, <1>2, <1>3, <1>4
  <2> QED BY <2>2, SameNumber
<1> QED BY <1>5, <1>6

----------------------------------------------------------------------------
(* The invariant: header and record keep their length, and their bytes are *)
(* bytes, whatever changes.                                                *)

LayoutInv ==
  /\ written \in [hdr : Headers, chunk : Chunks, index : Indices]
  /\ bytes \in [0..63 -> Byte] /\ record \in [0..23 -> Byte]
  /\ index \in Indices

(***************************************************************************)
(* What the reader is given has the size of what was written, and comes    *)
(* from a header and a record that were (format.cc:122-138, 223-229).      *)
(***************************************************************************)
THEOREM LayoutInvariant == LayoutSpec => []LayoutInv
<1>1. InitLayout => LayoutInv
  <2> SUFFICES ASSUME InitLayout PROVE LayoutInv
    OBVIOUS
  <2>1. written \in [hdr : Headers, chunk : Chunks, index : Indices] /\ index \in Indices
    BY DEF InitLayout
  <2>2. IsFileHeader(written.hdr) /\ written.chunk.stored \in 0..(U32 - 1)
    BY <2>1, WrittenAssumption
  <2>3. bytes \in [0..63 -> Byte]
    BY <2>2, HeaderIsHeld DEF InitLayout, HoldsHeader
  <2>4. record \in [0..23 -> Byte]
    BY <2>2, RecordIsHeld DEF InitLayout
  <2> QED BY <2>1, <2>3, <2>4 DEF LayoutInv
<1>2. LayoutInv /\ [NextLayout]_layoutVars => LayoutInv'
  <2> SUFFICES ASSUME LayoutInv, [NextLayout]_layoutVars PROVE LayoutInv'
    OBVIOUS
  <2> USE DEF LayoutInv
  <2>1. ASSUME NEW k \in 0..(HeaderSize - 1), NEW v \in Changed, ChangeHeader(k, v)
        PROVE  LayoutInv'
    BY <2>1, ByteLayoutAssumption DEF ChangeHeader
  <2>2. ASSUME NEW k \in 0..(ChunkHeaderSize - 1), NEW v \in Changed, ChangeRecord(k, v)
        PROVE  LayoutInv'
    BY <2>2, ByteLayoutAssumption DEF ChangeRecord
  <2>3. ASSUME NEW i \in Indices, Move(i)
        PROVE  LayoutInv'
    BY <2>3 DEF Move
  <2>4. CASE UNCHANGED layoutVars
    BY <2>4 DEF layoutVars
  <2> QED BY <2>1, <2>2, <2>3, <2>4 DEF NextLayout
<1> QED BY <1>1, <1>2, PTL DEF LayoutSpec

(***************************************************************************)
(* A header written and left alone is read back, field by field, whatever  *)
(* its fields (ReadsWhatWasWritten; format.cc:20-29).                      *)
(***************************************************************************)
THEOREM HeadersAreReadBack == LayoutSpec => []ReadsWhatWasWritten
<1>1. LayoutInv => ReadsWhatWasWritten
  <2>1. SUFFICES ASSUME LayoutInv, bytes = SerializeFileHeader(written.hdr)
                 PROVE  DecodeFileHeader(bytes) = written.hdr
    BY DEF ReadsWhatWasWritten
  <2>2. IsFileHeader(written.hdr)
    BY <2>1, WrittenAssumption DEF LayoutInv
  <2> QED BY <2>1, <2>2, HeaderIsHeld, HeldHeaderIsRead
<1> QED BY LayoutInvariant, <1>1, PTL

(***************************************************************************)
(* No byte of an accepted header is ignored, and none of a record's but    *)
(* those of its tag (NoByteIsIgnored; format.cc:175-179, format.h:184-186).*)
(***************************************************************************)
THEOREM EveryByteCounts == LayoutSpec => []NoByteIsIgnored
<1>1. ASSUME LayoutInv, HeaderAccepted(bytes)
      PROVE  SerializeFileHeader(DecodeFileHeader(bytes)) = bytes
  <2> DEFINE h == DecodeFileHeader(bytes)
  <2>1. IsFileHeader(h) /\ HoldsHeader(bytes, h)
    BY <1>1, AcceptedHeaderIsHeld DEF LayoutInv
  <2> HIDE DEF h
  <2>2. HoldsHeader(SerializeFileHeader(h), h)
    BY <2>1, HeaderIsHeld
  <2>3. SerializeFileHeader(h) = bytes
    BY <2>1, <2>2, OneHeader
  <2> QED BY <2>3 DEF h
<1>2. ASSUME LayoutInv, RecordAccepted(record, written.hdr)
      PROVE  \A k \in 0..7 : SerializeChunkHeader(DecodeChunkHeader(record))[k] = record[k]
  <2> DEFINE c == DecodeChunkHeader(record)
             s == SerializeChunkHeader(c)
  <2>1. /\ c.stored \in 0..(U32 - 1)
        /\ \A k \in 0..3 : record[0 + k] = LittleEndian(c.stored, k)
        /\ record[4] = Flags(c.flags) /\ \A k \in 5..7 : record[k] = 0
    BY <1>2, AcceptedRecordIsHeld DEF LayoutInv
  <2> HIDE DEF c
  <2>2. /\ \A k \in 0..3 : s[0 + k] = LittleEndian(c.stored, k)
        /\ s[4] = Flags(c.flags) /\ \A k \in 5..7 : s[k] = 0
    BY <2>1, RecordIsHeld
  <2> HIDE DEF s
  <2>3. \A k \in 0..7 : k \in 5..7 \/ k = 4 \/ (k \in 0..3 /\ 0 + k = k)
    OBVIOUS
  <2>4. \A k \in 0..7 : s[k] = record[k]
    BY <2>1, <2>2, <2>3
  <2> QED BY <2>4 DEF s, c
<1>3. LayoutInv => NoByteIsIgnored
  BY <1>1, <1>2 DEF NoByteIsIgnored
<1> QED BY LayoutInvariant, <1>3, PTL

\* The bytes of a header, numbered from 1, are the header.
LEMMA InOrderKeeps ==
  ASSUME NEW s \in [0..63 -> Byte], NEW t \in [0..63 -> Byte]
  PROVE  InOrder(s) \in [1..64 -> Byte] /\ (InOrder(s) = InOrder(t) => s = t)
<1>1. \A u : InOrder(u) = [k \in 1..64 |-> u[0 + k - 1]]
  BY ByteLayoutAssumption DEF InOrder, Slice
<1>2. \A k \in 1..64 : 0 + k - 1 \in 0..63
  OBVIOUS
<1>3. \A k \in 0..63 : k + 1 \in 1..64 /\ 0 + (k + 1) - 1 = k
  OBVIOUS
<1>4. ASSUME InOrder(s) = InOrder(t)
      PROVE  s = t
  <2>1. \A k \in 1..64 : s[0 + k - 1] = t[0 + k - 1]
    BY <1>1, <1>4
  <2>2. \A k \in 0..63 : s[k] = t[k]
    BY <2>1, <1>3
  <2> QED BY <2>2
<1> QED BY <1>1, <1>2, <1>4

\* What is read from a header and a record that were accepted, under the
\* associated data of a chunk that was written, is what was written.
LEMMA ReadWhereWritten ==
  ASSUME NEW s \in [0..63 -> Byte], NEW r \in [0..23 -> Byte], NEW i \in 0..(U32 - 1),
         NEW hdr, RecordAccepted(r, hdr),
         NEW h, IsFileHeader(h), NEW j \in 0..(U32 - 1),
         NEW d, d.stored \in 0..(U32 - 1), d.flags \in SUBSET {"compressed"},
         AadBytes(InOrder(s), i, DecodeChunkHeader(r))
           = AadBytes(InOrder(SerializeFileHeader(h)), j, d)
  PROVE  /\ DecodeFileHeader(s) = h /\ i = j
         /\ DecodeChunkHeader(r).stored = d.stored
         /\ DecodeChunkHeader(r).flags = d.flags
<1> DEFINE c == DecodeChunkHeader(r)
           t == SerializeFileHeader(h)
<1>1. HoldsHeader(t, h)
  BY HeaderIsHeld
<1>2. t \in [0..63 -> Byte]
  BY <1>1 DEF HoldsHeader
<1>3. c.stored \in 0..(U32 - 1) /\ c.flags \in SUBSET {"compressed"}
  BY AcceptedRecordIsHeld
<1>4. AadBytes(InOrder(s), i, c) = AadBytes(InOrder(t), j, d)
  OBVIOUS
<1> HIDE DEF c, t
<1>5. InOrder(s) \in [1..64 -> Byte] /\ InOrder(t) \in [1..64 -> Byte]
  BY <1>2, InOrderKeeps
<1>6. InOrder(s) = InOrder(t) /\ i = j /\ c.stored = d.stored /\ c.flags = d.flags
  BY <1>3, <1>4, <1>5, AadTellsApart
<1>7. DecodeFileHeader(s) = h
  BY <1>1, <1>2, <1>6, InOrderKeeps, HeldHeaderIsRead
<1> QED BY <1>6, <1>7 DEF c

(***************************************************************************)
(* A reader that rebuilds the associated data the writer sealed holds the  *)
(* writer's header, index, stored size and flags, and no two chunks of a   *)
(* file have the same nonce (ChunksAreToldApart; format.h:20-26, 61-66).   *)
(***************************************************************************)
THEOREM ChunksHaveTheirOwnBytes == LayoutSpec => []ChunksAreToldApart
<1>1. LayoutInv => ChunksAreToldApart
  <2>1. SUFFICES ASSUME LayoutInv PROVE ChunksAreToldApart
    OBVIOUS
  <2>2. /\ IsFileHeader(written.hdr) /\ written.chunk.stored \in 0..(U32 - 1)
        /\ written.chunk.flags \in SUBSET {"compressed"}
        /\ index \in 0..(U32 - 1) /\ written.index \in 0..(U32 - 1)
        /\ bytes \in [0..63 -> Byte] /\ record \in [0..23 -> Byte]
    BY <2>1, WrittenAssumption, ByteLayoutAssumption DEF LayoutInv
  <2>3. ASSUME RecordAccepted(record, written.hdr),
               AadBytes(InOrder(bytes), index, DecodeChunkHeader(record))
                 = AadBytes(InOrder(SerializeFileHeader(written.hdr)), written.index,
                            written.chunk)
        PROVE  /\ DecodeFileHeader(bytes) = written.hdr /\ index = written.index
               /\ DecodeChunkHeader(record).stored = written.chunk.stored
               /\ DecodeChunkHeader(record).flags = written.chunk.flags
    BY <2>2, <2>3, ReadWhereWritten
  <2>4. ASSUME index # written.index
        PROVE  NonceBytes(written.hdr.nonce_prefix, index)
                 # NonceBytes(written.hdr.nonce_prefix, written.index)
    <3>1. written.hdr.nonce_prefix \in [1..8 -> Byte]
      BY <2>2 DEF IsFileHeader
    <3> QED BY <2>2, <2>4, <3>1, NonceTellsApart
  <2> QED BY <2>3, <2>4 DEF ChunksAreToldApart
<1> QED BY LayoutInvariant, <1>1, PTL

----------------------------------------------------------------------------
(* Bytes and calls together.                                               *)

\* The associated data as Aead.tla takes it: the same bytes from 1.
AssociatedData(s, i, c) == Slice(AadBytes(s, i, c), 0, 73)

\* Numbering them so loses nothing.
LEMMA AssociatedDataIsAad ==
  ASSUME NEW s \in [1..64 -> Byte], NEW i \in 0..(U32 - 1), NEW c,
         NEW t \in [1..64 -> Byte], NEW j \in 0..(U32 - 1), NEW d,
         c.stored \in 0..(U32 - 1), d.stored \in 0..(U32 - 1),
         AssociatedData(s, i, c) = AssociatedData(t, j, d)
  PROVE  AadBytes(s, i, c) = AadBytes(t, j, d)
<1> DEFINE a == AadBytes(s, i, c)
           b == AadBytes(t, j, d)
<1>1. i \in Nat /\ j \in Nat /\ c.stored \in Nat /\ d.stored \in Nat
  BY WeightType
<1>2. HoldsAad(a, s, i, c) /\ HoldsAad(b, t, j, d)
  BY <1>1, AadIsHeld
<1>3. Slice(a, 0, 73) = Slice(b, 0, 73)
  BY DEF AssociatedData
<1> HIDE DEF a, b
<1>4. \A k \in 1..73 : a[0 + k - 1] = b[0 + k - 1]
  BY <1>3 DEF Slice
<1>5. \A k \in 0..72 : k + 1 \in 1..73 /\ 0 + (k + 1) - 1 = k
  OBVIOUS
<1>6. \A k \in 0..72 : a[k] = b[k]
  BY <1>4, <1>5
<1>7. a = b
  BY <1>2, <1>6 DEF HoldsAad
<1> QED BY <1>7 DEF a, b

(***************************************************************************)
(* A chunk opens only where it was sealed.  When Open succeeds with the    *)
(* associated data a reader builds from header, index and record, the text *)
(* it returns is one that was sealed, and if it was sealed as a chunk of a *)
(* file, then that file has the header the reader decoded, and the chunk   *)
(* the index, the stored size and the flags the reader takes it to have    *)
(* (format.h:20-26, aead.h:10-14).                                         *)
(***************************************************************************)
OpenedInItsPlace ==
  LET c == DecodeChunkHeader(record) IN
  /\ op = "open" /\ pc = "MC_OK"
  /\ RecordAccepted(record, DecodeFileHeader(bytes))
  /\ args.aad = AssociatedData(InOrder(bytes), index, c)
  => \E s \in sealed :
       /\ Sealed(s) /\ out = s.text
       /\ \A h \in Headers, i \in Indices, d \in Chunks :
            s.aad = AssociatedData(InOrder(SerializeFileHeader(h)), i, d)
            => /\ DecodeFileHeader(bytes) = h /\ index = i
               /\ c.stored = d.stored /\ c.flags = d.flags

\* The calls of Aead.tla and the reader's bytes, side by side: a chunk opens only
\* where it was sealed (format.h:20-26, aead.h:10-14).
THEOREM OpensOnlyInItsPlace == Spec /\ LayoutSpec => []OpenedInItsPlace
<1>1. ASSUME OpenIsExact, LayoutInv, op = "open", pc = "MC_OK",
             RecordAccepted(record, DecodeFileHeader(bytes)),
             args.aad = AssociatedData(InOrder(bytes), index, DecodeChunkHeader(record))
      PROVE  \E s \in sealed :
               /\ Sealed(s) /\ out = s.text
               /\ \A h \in Headers, i \in Indices, d \in Chunks :
                    s.aad = AssociatedData(InOrder(SerializeFileHeader(h)), i, d)
                    => /\ DecodeFileHeader(bytes) = h /\ index = i
                       /\ DecodeChunkHeader(record).stored = d.stored
                       /\ DecodeChunkHeader(record).flags = d.flags
  <2>1. PICK s \in sealed : Sealed(s) /\ out = s.text
    BY <1>1 DEF OpenIsExact
  <2>2. ASSUME NEW h \in Headers, NEW i \in Indices, NEW d \in Chunks,
               s.aad = AssociatedData(InOrder(SerializeFileHeader(h)), i, d)
        PROVE  /\ DecodeFileHeader(bytes) = h /\ index = i
               /\ DecodeChunkHeader(record).stored = d.stored
               /\ DecodeChunkHeader(record).flags = d.flags
    <3> DEFINE c == DecodeChunkHeader(record)
               t == SerializeFileHeader(h)
    <3>1. /\ IsFileHeader(h) /\ d.stored \in 0..(U32 - 1) /\ d.flags \in SUBSET {"compressed"}
          /\ index \in 0..(U32 - 1) /\ i \in 0..(U32 - 1)
          /\ bytes \in [0..63 -> Byte] /\ record \in [0..23 -> Byte]
      BY <1>1, WrittenAssumption, ByteLayoutAssumption DEF LayoutInv
    <3>2. c.stored \in 0..(U32 - 1)
      BY <1>1, <3>1, AcceptedRecordIsHeld
    <3>3. t \in [0..63 -> Byte]
      BY <3>1, HeaderIsHeld DEF HoldsHeader
    <3>4. AssociatedData(InOrder(bytes), index, c) = AssociatedData(InOrder(t), i, d)
      BY <1>1, <2>1, <2>2 DEF Sealed
    <3> HIDE DEF c, t
    <3>5. InOrder(bytes) \in [1..64 -> Byte] /\ InOrder(t) \in [1..64 -> Byte]
      BY <3>1, <3>3, InOrderKeeps
    <3>6. AadBytes(InOrder(bytes), index, c) = AadBytes(InOrder(t), i, d)
      BY <3>1, <3>2, <3>4, <3>5, AssociatedDataIsAad
    <3> QED BY <1>1, <3>1, <3>6, ReadWhereWritten DEF c, t
  <2> QED BY <2>1, <2>2
<1>2. OpenIsExact /\ LayoutInv => OpenedInItsPlace
  BY <1>1 DEF OpenedInItsPlace
<1> QED BY <1>2, OpensAreExact, LayoutInvariant, PTL
=============================================================================
