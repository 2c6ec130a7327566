------------------------------- MODULE MCCApi -------------------------------
(***************************************************************************)
(* A plaintext model, an empty file and a path that does not exist.        *)
(* Sizes: a plaintext may be 1 long, sealing adds 1, so a model of size 1  *)
(* reaches kMaxFileSize with its first seal and is refused a second.       *)
(***************************************************************************)
EXTENDS CApi, TLC

CONSTANTS Model, EmptyFile, Copy   \* paths

Cores == {"model", "nothing", "random", "partly drawn", "header"}
SizeOfCore == [c \in Cores |-> IF c = "nothing" THEN 0 ELSE 1]
Plain(core) == [bytes |-> [core |-> core, layers |-> <<>>], mode |-> "0600"]

Arguments(op, key, from, to) ==
  [op |-> op, key |-> key, opts |-> "default", in |-> from, out |-> to]
Encrypt(key, from, to) == Arguments("mc_encrypt_file", key, from, to)
Decrypt(key, from, to) == Arguments("mc_decrypt_file", key, from, to)

Originals == (Model :> Plain("model") @@ EmptyFile :> Plain("nothing") @@ Copy :> NoFile)

\* Two keys, in place and to another path.
FileCalls ==
  {Encrypt("k1", Model, Model), Decrypt("k1", Model, Model),
   Encrypt("k2", Model, Copy), Decrypt("k2", Copy, Copy)}

\* The other forms, and every form with arguments it refuses.
FormCalls ==
  {Encrypt("k1", Model, Null), Encrypt("k1", Null, Copy), Encrypt("k1", Null, Null)}
    \cup {[Encrypt(k, Model, Copy) EXCEPT !.opts = "refused"] : k \in {"k1", "short"}}
    \cup {Encrypt("short", Model, Copy)}
    \cup {Decrypt("k1", p, q) : p \in {EmptyFile, Null}, q \in {Copy, Null}}
    \cup {Arguments("mc_decrypt_file_to_buffer", k, p, q) :
            k \in {"k1", "k2", "short"}, p \in {Copy, EmptyFile, Null}, q \in {"caller", Null}}
    \cup {Arguments(op, k, i, "caller") :
            op \in {"mc_encrypt_buffer", "mc_decrypt_buffer"}, k \in {"k1", "short"},
            i \in {"mine", Null}}
    \cup {Arguments(op, "k1", "mine", Null) : op \in {"mc_encrypt_buffer", "mc_decrypt_buffer"}}
    \cup {Arguments("mc_inspect_buffer", Null, i, o) : i \in {"mine", Null}, o \in {"caller", Null}}
    \cup {Arguments("mc_generate_key", Null, n, o) :
            n \in {"0 bytes", "32 bytes", "2^31 bytes", "2^32 + 32 bytes"},
            o \in {"caller", Null}}

\* Both race on the model in place; the second caller uses the other forms.
CONSTANTS t1, t2
InPlace == {c \in FileCalls : c.out = Model}
MCCallsOf == (t1 :> FileCalls @@ t2 :> InPlace \cup FormCalls)
=============================================================================
