-------------------------------- MODULE CApi --------------------------------
(***************************************************************************)
(* The entry points of src/src/api/c_api.cc, called by any number of       *)
(* threads or processes on shared files: argument checks, defaults, and    *)
(* the composition of ReadFile, EncryptBuffer or DecryptBuffer, and        *)
(* WriteFileAtomically or the hand-off of a buffer.                        *)
(*                                                                         *)
(* The parts appear as what their own modules show of them: a path is a    *)
(* register with a durable value (AtomicFile implements FileRegister),     *)
(* EncryptBuffer and DecryptBuffer answer as EncryptContract and           *)
(* DecryptContract say.  size_t has 64 bits.                               *)
(*                                                                         *)
(* Contents are a core and the keys it was sealed under, outermost last:   *)
(* sealing appends a key, opening removes it.                              *)
(***************************************************************************)
EXTENDS Integers, Sequences, SequencesExt

CONSTANTS
  Callers,
  Paths,
  Original,     \* what each path holds at first: [bytes, mode], or NoFile
  NoFile, Null,
  CallsOf,      \* [op, key, opts, in, out]: the calls each caller makes
  Keys,         \* keys of MC_MIN_KEY_SIZE bytes or more
  CoreSize,     \* the size of each core
  EmptyCore,    \* the core of size 0
  MaxPlain,     \* MC_MAX_PLAINTEXT_SIZE
  Framing       \* what sealing adds

ASSUME CApiAssumption ==
  /\ Null \notin Keys \cup Paths
  /\ MaxPlain \in Nat /\ Framing \in Nat \ {0}
  /\ \A c \in DOMAIN CoreSize : CoreSize[c] \in Nat
  /\ EmptyCore \in DOMAIN CoreSize /\ CoreSize[EmptyCore] = 0
  /\ {"header", "random", "partly drawn"} \subseteq DOMAIN CoreSize
  /\ "no bytes" \notin DOMAIN CoreSize

Calls == UNION {CallsOf[t] : t \in Callers}

VARIABLES
  file,     \* each path's contents and mode
  disk,     \* what a power loss would leave of it
  pc,       \* where each caller's call is: a step, or its status
  call,     \* its arguments
  input,    \* the bytes it works on
  result,   \* the bytes it has made
  mine,     \* the buffer the caller passes as `in`
  out       \* what the caller's out-parameters point to

fileVars == <<file, disk>>
callVars == <<pc, call, input, result>>
callerVars == <<mine, out>>
vars == <<fileVars, callVars, callerVars>>

NoCall == [op |-> "none", key |-> Null, opts |-> "default", in |-> Null, out |-> Null]
Unwritten == [core |-> "as the caller left it", layers |-> <<>>]
Nothing == [core |-> "no bytes", layers |-> <<>>]
Empty == [core |-> EmptyCore, layers |-> <<>>]
Size(x) == CoreSize[x.core] + Framing * Len(x.layers)
Seal(key, x) == [x EXCEPT !.layers = Append(@, key)]
Opens(key, x) == x.layers # <<>> /\ Last(x.layers) = key
Open(x) == [x EXCEPT !.layers = Front(@)]
HeaderOf(x) == [core |-> "header", layers |-> <<>>]
Random == [core |-> "random", layers |-> <<>>]
PartlyDrawn == [core |-> "partly drawn", layers |-> <<>>]
Contents == [core : DOMAIN CoreSize, layers : Seq(Keys)]
Files == [bytes : Contents, mode : {"0600", "0644"}]

\* format::kMaxFileSize: the largest plaintext, plus its framing.
kMaxFileSize == MaxPlain + Framing

(***************************************************************************)
(* What each entry point puts together: where its input comes from and the *)
(* limit it gives ReadFile, the function it calls, where the output goes   *)
(* and the mode it gives WriteFileAtomically.                              *)
(***************************************************************************)
Entry(input_from, limit, calls, output_to, mode) ==
  [from |-> input_from, limit |-> limit, calls |-> calls, to |-> output_to, mode |-> mode]

mc_encrypt_buffer == Entry("caller", 0, "EncryptBuffer", "caller", "none")
mc_decrypt_buffer == Entry("caller", 0, "DecryptBuffer", "caller", "none")
mc_encrypt_file == Entry("file", MaxPlain, "EncryptBuffer", "file", "0644")
mc_decrypt_file == Entry("file", kMaxFileSize, "DecryptBuffer", "file", "0600")
mc_decrypt_file_to_buffer == Entry("file", kMaxFileSize, "DecryptBuffer", "caller", "none")
mc_inspect_buffer == Entry("caller", 0, "InspectBuffer", "caller", "none")
mc_generate_key == Entry("caller", 0, "Fill", "caller", "none")

Form == [mc_encrypt_buffer |-> mc_encrypt_buffer, mc_decrypt_buffer |-> mc_decrypt_buffer,
         mc_encrypt_file |-> mc_encrypt_file, mc_decrypt_file |-> mc_decrypt_file,
         mc_decrypt_file_to_buffer |-> mc_decrypt_file_to_buffer,
         mc_inspect_buffer |-> mc_inspect_buffer, mc_generate_key |-> mc_generate_key]

Decrypts(c) == Form[c.op].calls = "DecryptBuffer"
FromFile(c) == Form[c.op].from = "file"
ToFile(c) == Form[c.op].to = "file"

ASSUME InstanceAssumption ==
  /\ NoFile \notin Files /\ Original \in [Paths -> Files \cup {NoFile}]
  /\ \A p \in Paths : Original[p] # NoFile /\ Original[p].bytes.layers # <<>> =>
       Size(Original[p].bytes) <= kMaxFileSize
  /\ \A c \in Calls :
       /\ c.op \in DOMAIN Form
       /\ FromFile(c) => c.in \in Paths \cup {Null}
       /\ ToFile(c) => c.out \in Paths \cup {Null}

Steps == {"read", "transform", "deliver"}
Statuses == {"MC_OK", "MC_ERR_INVALID_ARG", "MC_ERR_FORMAT", "MC_ERR_UNSUPPORTED",
             "MC_ERR_AUTH", "MC_ERR_COMPRESS", "MC_ERR_CRYPTO", "MC_ERR_MEMORY",
             "MC_ERR_IO", "MC_ERR_TOO_LARGE"}

Init ==
  /\ file = Original /\ disk = Original
  /\ pc = [t \in Callers |-> "idle"] /\ call = [t \in Callers |-> NoCall]
  /\ input = [t \in Callers |-> Nothing] /\ result = [t \in Callers |-> Nothing]
  /\ mine = [t \in Callers |-> Empty] /\ out = [t \in Callers |-> Unwritten]

Goto(t, step) == pc' = [pc EXCEPT ![t] = step]

KeepBuffersMutant(t, status) == Goto(t, status) /\ UNCHANGED <<input, result>>
\* Every SecureBuffer of the call goes, whichever return it takes.
Return(t, status) ==
  /\ Goto(t, status) /\ input' = [input EXCEPT ![t] = Nothing]
  /\ result' = [result EXCEPT ![t] = Nothing]
FailAfterHandOffMutant(t, status) ==
  /\ Return(t, status) /\ UNCHANGED <<fileVars, call, mine>>
  /\ out' = [out EXCEPT ![t] = IF ToFile(call[t]) THEN @ ELSE Nothing]
\* An early return writes nothing the caller can see.
Fail(t, status) == Return(t, status) /\ UNCHANGED <<fileVars, call, callerVars>>

----------------------------------------------------------------------------
(* One call.                                                               *)

\* out and out_size are checked first, then the paths; both may be NULL.
ArgumentsMissing(c) ==
  \/ c.out = Null
  \/ FromFile(c) /\ c.in = Null

\* The std::string of in_path may throw before out_path is looked at.
MayThrow(c) == FromFile(c) /\ c.in # Null /\ (ToFile(c) \/ c.out # Null)

StartCall(t) ==
  /\ pc[t] = "idle" /\ out[t] = Unwritten
  /\ \E c \in CallsOf[t] :
       /\ call' = [call EXCEPT ![t] = c]
       /\ \/ ArgumentsMissing(c) /\ Goto(t, "MC_ERR_INVALID_ARG") /\ UNCHANGED input
          \/ MayThrow(c) /\ Goto(t, "MC_ERR_MEMORY") /\ UNCHANGED input
          \/ ~ArgumentsMissing(c) /\ FromFile(c) /\ Goto(t, "read") /\ UNCHANGED input
          \/ /\ ~ArgumentsMissing(c) /\ ~FromFile(c) /\ Goto(t, "transform")
             /\ input' = [input EXCEPT ![t] = IF c.in = Null THEN Null ELSE mine[t]]
  /\ UNCHANGED <<fileVars, result, callerVars>>

PlaintextLimitMutant(c) == MaxPlain
ReadLimit(c) == Form[c.op].limit

ReadFile(t) ==
  LET c == call[t]
      version == file[c.in]
  IN  /\ pc[t] = "read"
      /\ \/ Fail(t, "MC_ERR_IO")
         \/ version # NoFile /\ Size(version.bytes) > ReadLimit(c) /\ Fail(t, "MC_ERR_TOO_LARGE")
         \/ version # NoFile /\ Size(version.bytes) <= ReadLimit(c) /\ Fail(t, "MC_ERR_MEMORY")
         \/ /\ version # NoFile /\ Size(version.bytes) <= ReadLimit(c)
            /\ Goto(t, "transform") /\ input' = [input EXCEPT ![t] = version.bytes]
            /\ UNCHANGED <<fileVars, call, result, callerVars>>

(***************************************************************************)
(* The answers of EncryptBuffer.  Null input is a null `in` with a size;   *)
(* a null `in` of size 0 is Empty.  opts is NULL (the defaults), valid, or *)
(* one that ValidateOptions refuses.                                       *)
(***************************************************************************)
EncryptAnswers(c, x) ==
  IF c.key \notin Keys \/ x = Null THEN {"MC_ERR_INVALID_ARG"}
  ELSE IF Size(x) > MaxPlain THEN {"MC_ERR_TOO_LARGE"}
  ELSE IF c.opts = "refused" THEN {"MC_ERR_INVALID_ARG"}
  ELSE {"MC_OK", "MC_ERR_MEMORY", "MC_ERR_CRYPTO", "MC_ERR_COMPRESS"}

\* data() of a buffer of size 0 is null, and DecryptBuffer refuses a null `in`.
DataIsNull(x) == x = Null \/ Size(x) = 0

(***************************************************************************)
(* The answers of DecryptBuffer.  Bytes that no Seal made may look like    *)
(* any damaged file; a sealed file under another key only fails to         *)
(* authenticate.                                                           *)
(***************************************************************************)
DecryptAnswers(c, x) ==
  IF c.key \notin Keys \/ DataIsNull(x) THEN {"MC_ERR_INVALID_ARG"}
  ELSE IF Opens(c.key, x) THEN {"MC_OK", "MC_ERR_MEMORY", "MC_ERR_CRYPTO"}
  ELSE {"MC_ERR_AUTH", "MC_ERR_MEMORY", "MC_ERR_CRYPTO"} \cup
       (IF x.layers = <<>>
        THEN {"MC_ERR_FORMAT", "MC_ERR_UNSUPPORTED", "MC_ERR_TOO_LARGE"} ELSE {})

Transform(t, name, answers, made) ==
  /\ pc[t] = "transform" /\ Form[call[t].op].calls = name
  /\ \E rc \in answers :
       \/ rc # "MC_OK" /\ Fail(t, rc)
       \/ /\ rc = "MC_OK" /\ Goto(t, "deliver") /\ result' = [result EXCEPT ![t] = made]
          /\ UNCHANGED <<fileVars, call, input, callerVars>>

EncryptBuffer(t) ==
  LET c == call[t] IN
  Transform(t, "EncryptBuffer", EncryptAnswers(c, input[t]), Seal(c.key, input[t]))

DecryptBuffer(t) ==
  LET c == call[t] IN
  Transform(t, "DecryptBuffer", DecryptAnswers(c, input[t]), Open(input[t]))

\* A header is all InspectBuffer looks at, with no key: any bytes may begin
\* with one, and those a Seal made do.
InspectBuffer(t) ==
  LET x == input[t] IN
  Transform(t, "InspectBuffer",
               IF DataIsNull(x) THEN {"MC_ERR_INVALID_ARG"}
               ELSE IF x.layers # <<>> THEN {"MC_OK"}
               ELSE {"MC_OK", "MC_ERR_FORMAT", "MC_ERR_UNSUPPORTED", "MC_ERR_TOO_LARGE"},
               HeaderOf(x))

(***************************************************************************)
(* random_bytes::Fill draws straight into the caller's memory, past        *)
(* HandOff.  RAND_bytes takes an int: one cut from 2^32 + 32 is 32, and    *)
(* would be a short draw.  It fills in pieces and promises nothing of a    *)
(* buffer it fails to fill.                                                *)
(***************************************************************************)
CutToIntMutant(size) == size \in {"0 bytes", "2^31 bytes"}
SizeRefused(size) == size \in {"0 bytes", "2^31 bytes", "2^32 + 32 bytes"}
Drawn(size) == IF size = "2^32 + 32 bytes" THEN PartlyDrawn ELSE Random

Fill(t) ==
  LET size == call[t].in IN
  /\ pc[t] = "transform" /\ Form[call[t].op].calls = "Fill"
  /\ \/ SizeRefused(size) /\ Fail(t, "MC_ERR_INVALID_ARG")
     \/ /\ ~SizeRefused(size) /\ UNCHANGED <<fileVars, call, mine>>
        /\ \/ Return(t, "MC_OK") /\ out' = [out EXCEPT ![t] = Drawn(size)]
           \/ /\ Return(t, "MC_ERR_CRYPTO")
              /\ out' \in {out, [out EXCEPT ![t] = PartlyDrawn]}

SharedModeMutant(c) == "0644"
OutputMode(c) == Form[c.op].mode

TruncatedMutant(t) == [file EXCEPT ![call[t].out] = NoFile]
PrivateFirstMutant(t) ==
  [p \in Paths |-> IF p = call[t].out /\ file[p] # NoFile
                   THEN [file[p] EXCEPT !.mode = "0600"] ELSE file[p]]
\* What a failing WriteFileAtomically leaves behind.
AfterFailedWrite(t) == file

WriteFileAtomically(t) ==
  LET c == call[t] IN
  /\ pc[t] = "deliver" /\ ToFile(c)
  /\ \/ /\ Return(t, "MC_ERR_IO") /\ file' = AfterFailedWrite(t)
        /\ UNCHANGED <<disk, call, callerVars>>
     \/ /\ Return(t, "MC_OK")
        /\ file' = [file EXCEPT ![c.out] = [bytes |-> result[t], mode |-> OutputMode(c)]]
        /\ UNCHANGED <<disk, call, callerVars>>

HandOff(t) ==
  /\ pc[t] = "deliver" /\ ~ToFile(call[t])
  /\ Return(t, "MC_OK") /\ out' = [out EXCEPT ![t] = result[t]]
  /\ UNCHANGED <<fileVars, call, mine>>

CallStep(t) ==
  \/ ReadFile(t) \/ EncryptBuffer(t) \/ DecryptBuffer(t) \/ InspectBuffer(t) \/ Fill(t)
  \/ WriteFileAtomically(t) \/ HandOff(t)

----------------------------------------------------------------------------
(* The callers and their environment.                                      *)

\* A status is taken; a buffer stays in out until the caller is done with it.
Collect(t) ==
  /\ pc[t] \in Statuses /\ Goto(t, "idle") /\ call' = [call EXCEPT ![t] = NoCall]
  /\ UNCHANGED <<fileVars, input, result, callerVars>>

\* mc_free(out), or the caller goes on with it and frees what it had before;
\* the same for the array it gave mc_generate_key.
mc_free(t) ==
  /\ pc[t] = "idle" /\ out[t] # Unwritten
  /\ out' = [out EXCEPT ![t] = Unwritten]
  /\ \/ UNCHANGED mine
     \/ mine' = [mine EXCEPT ![t] = out[t]]
  /\ UNCHANGED <<fileVars, callVars>>

Kill(t) ==
  /\ pc[t] \in Steps /\ Goto(t, "idle") /\ call' = [call EXCEPT ![t] = NoCall]
  /\ input' = [input EXCEPT ![t] = Nothing] /\ result' = [result EXCEPT ![t] = Nothing]
  /\ mine' = [mine EXCEPT ![t] = Empty] /\ out' = [out EXCEPT ![t] = Unwritten]
  /\ UNCHANGED fileVars

Persist(p) ==
  /\ disk[p] # file[p] /\ disk' = [disk EXCEPT ![p] = file[p]]
  /\ UNCHANGED <<file, callVars, callerVars>>

PowerLoss ==
  /\ file' = disk /\ UNCHANGED disk
  /\ pc' = [t \in Callers |-> "idle"] /\ call' = [t \in Callers |-> NoCall]
  /\ input' = [t \in Callers |-> Nothing] /\ result' = [t \in Callers |-> Nothing]
  /\ mine' = [t \in Callers |-> Empty] /\ out' = [t \in Callers |-> Unwritten]

Next ==
  \/ \E t \in Callers : StartCall(t) \/ CallStep(t) \/ Collect(t) \/ mc_free(t) \/ Kill(t)
  \/ \E p \in Paths : Persist(p)
  \/ PowerLoss

Spec == Init /\ [][Next]_vars

----------------------------------------------------------------------------
(* Properties.                                                             *)

Sealed(x) == x.layers # <<>>
Versions(p) == {file[p], disk[p]} \ {NoFile}

\* Types; a call that is over, however it ended, holds no bytes of its own.
TypeOK ==
  /\ \A p \in Paths : \A v \in Versions(p) :
       v.mode \in {"0600", "0644"} /\ v.bytes.layers \in Seq(Keys)
  /\ \A t \in Callers :
       /\ pc[t] \in {"idle"} \cup Steps \cup Statuses /\ call[t] \in Calls \cup {NoCall}
       /\ pc[t] \notin {"transform", "deliver"} => input[t] = Nothing
       /\ (pc[t] = "deliver") = (result[t] # Nothing)

(***************************************************************************)
(* A model encrypted or decrypted in place is never lost: whatever calls   *)
(* race on the path, fail or are killed, and whenever power goes, the path *)
(* holds that model under some keys (model_crypt.h:311-313: "a crash or a  *)
(* full disk leaves the previous file intact").                            *)
(***************************************************************************)
InPlaceOnly(p) == \A c \in Calls : ToFile(c) /\ c.out = p => c.in = p
HoldsModel(p, v) == Original[p] # NoFile /\ v # NoFile /\ v.bytes.core = Original[p].bytes.core
ModelSurvives ==
  \A p \in Paths : InPlaceOnly(p) /\ Original[p] # NoFile =>
    HoldsModel(p, file[p]) /\ HoldsModel(p, disk[p])

(***************************************************************************)
(* No path holds a plaintext others may read, unless it was so at first:   *)
(* not even one whose ciphertext was readable by all, nor after a crash    *)
(* (c_api.cc:203-204, 239-241; main.cc prints "mode 0600").                *)
(***************************************************************************)
PlaintextIsPrivate ==
  (\A p \in Paths : Original[p] # NoFile /\ ~Sealed(Original[p].bytes) => Original[p].mode = "0600")
    => \A p \in Paths : \A v \in Versions(p) : v.mode = "0644" => Sealed(v.bytes)

(***************************************************************************)
(* Whatever mc_encrypt_file agreed to write, the decrypting forms agree to *)
(* read: with the key it was sealed under, reading it fails for want of    *)
(* memory or on I/O only (the comment at c_api.cc:221-224).                *)
(***************************************************************************)
OpenableFilesAreRead ==
  [][\A t \in Callers :
       LET c == call[t] IN
       (/\ pc[t] = "read" /\ Decrypts(c) /\ file[c.in] # NoFile
        /\ Opens(c.key, file[c.in].bytes))
         => pc'[t] \in {"read", "transform", "MC_ERR_IO", "MC_ERR_MEMORY", "idle"}]_vars

(***************************************************************************)
(* A call that fails has changed no file and written no out-parameter      *)
(* (c_api.cc:8-11), but for the memory a failing draw of mc_generate_key   *)
(* may have begun to fill; one that gives MC_OK has drawn every byte       *)
(* (random.cc:19-23).                                                      *)
(***************************************************************************)
FailedDraw(t) == call[t].op = "mc_generate_key" /\ pc'[t] = "MC_ERR_CRYPTO"
WholeOrUntouched ==
  [][\A t \in Callers :
       pc[t] \in Steps /\ pc'[t] \in Statuses =>
         IF pc'[t] # "MC_OK" THEN file' = file /\ (out'[t] = out[t] \/ FailedDraw(t))
         ELSE call[t].op = "mc_generate_key" => out'[t] = Random]_vars

----------------------------------------------------------------------------
(* What comments and documents say and the code does not do: README,       *)
(* section 5.  No configuration checks it.                                 *)

(***************************************************************************)
(* The statuses model_crypt.h:300-302 and :328, :340 list for the three    *)
(* decrypting forms; with no NULL argument and a key long enough, only     *)
(* they come back.                                                         *)
(***************************************************************************)
DecryptStatuses ==
  \A t \in Callers :
    (/\ call[t] # NoCall /\ Decrypts(call[t]) /\ FromFile(call[t])
     /\ call[t].key \in Keys /\ ~ArgumentsMissing(call[t]))
      => pc[t] # "MC_ERR_INVALID_ARG"

(***************************************************************************)
(* The memory given to mc_generate_key is untouched by a draw that fails   *)
(* (random.h:23, c_api.cc:8-11, Usage.md:191-193).                         *)
(***************************************************************************)
FailedDrawsTouchNothing ==
  [][\A t \in Callers : pc[t] \in Steps /\ FailedDraw(t) => out'[t] = out[t]]_vars
=============================================================================
