----------------------------- MODULE CApiProofs -----------------------------
(***************************************************************************)
(* Theorems about CApi: for any number of callers, paths, keys and calls,  *)
(* whatever fails, is killed or loses power.                               *)
(***************************************************************************)
EXTENDS CApi, SequenceTheorems, TLAPS

(***************************************************************************)
(* The inductive invariant.  What a path holds, and what a call that will  *)
(* write to it carries between its steps, go together: the core a path in  *)
(* place must keep, the seal that makes a readable file harmless, and the  *)
(* size the decrypting forms still read.                                   *)
(***************************************************************************)
Protected(p) == InPlaceOnly(p) /\ Original[p] # NoFile
AllPrivate ==
  \A p \in Paths : Original[p] # NoFile /\ ~Sealed(Original[p].bytes) => Original[p].mode = "0600"

\* Contents that can exist: sealed ones are no larger than what is read back.
Readable(x) == x \in Contents /\ (Sealed(x) => Size(x) <= kMaxFileSize)

VersionInv(p, v) ==
  /\ v \in Files \cup {NoFile}
  /\ v # NoFile => Readable(v.bytes)
  /\ Protected(p) => HoldsModel(p, v)
  /\ AllPrivate /\ v # NoFile /\ v.mode = "0644" => Sealed(v.bytes)

FilesInv ==
  /\ file = [p \in Paths |-> file[p]] /\ disk = [p \in Paths |-> disk[p]]
  /\ \A p \in Paths : VersionInv(p, file[p]) /\ VersionInv(p, disk[p])

\* A call on c.in carries x: the path's core, if that must survive.
Carries(c, x) == Readable(x) /\ (Protected(c.in) => x.core = Original[c.in].bytes.core)
PathsGiven(c) == (FromFile(c) => c.in \in Paths) /\ (ToFile(c) => c.out \in Paths)

CallInv(p, c, i, r) ==
  /\ p \in {"idle"} \cup Steps \cup Statuses
  /\ c \in Calls \cup {NoCall}
  /\ p \in Steps => c \in Calls /\ PathsGiven(c)
  /\ p = "read" => FromFile(c)
  /\ IF p \in {"transform", "deliver"}
     THEN (i = Null \/ Readable(i)) /\ (FromFile(c) => Carries(c, i))
     ELSE i = Nothing
  /\ IF p = "deliver"
     THEN /\ Readable(r)
          /\ ToFile(c) => Carries(c, r) /\ (OutputMode(c) = "0644" => Sealed(r))
          /\ Form[c.op].calls # "Fill"
     ELSE r = Nothing

Functions ==
  /\ pc = [t \in Callers |-> pc[t]] /\ call = [t \in Callers |-> call[t]]
  /\ input = [t \in Callers |-> input[t]] /\ result = [t \in Callers |-> result[t]]
  /\ mine = [t \in Callers |-> mine[t]] /\ out = [t \in Callers |-> out[t]]

CallersInv ==
  /\ Functions
  /\ \A t \in Callers : CallInv(pc[t], call[t], input[t], result[t])
  /\ \A t \in Callers : Readable(mine[t]) /\ (out[t] = Unwritten \/ Readable(out[t]))

CApiInv == FilesInv /\ CallersInv

----------------------------------------------------------------------------
(* The pieces.                                                             *)

\* The forms that write a file read one, and only what seals writes it readable.
LEMMA FormsThatWrite ==
  ASSUME NEW c \in Calls, ToFile(c)
  PROVE  /\ FromFile(c)
         /\ Form[c.op].calls \in {"EncryptBuffer", "DecryptBuffer"}
         /\ OutputMode(c) \in {"0600", "0644"}
         /\ OutputMode(c) = "0644" => Form[c.op].calls = "EncryptBuffer"
BY InstanceAssumption
   DEF ToFile, FromFile, Form, OutputMode, Entry, mc_encrypt_buffer, mc_decrypt_buffer,
       mc_encrypt_file, mc_decrypt_file, mc_decrypt_file_to_buffer, mc_inspect_buffer,
       mc_generate_key

LEMMA OneFormDraws ==
  ASSUME NEW c \in Calls
  PROVE  Form[c.op].calls = "Fill" <=> c.op = "mc_generate_key"
BY InstanceAssumption
   DEF Form, Entry, mc_encrypt_buffer, mc_decrypt_buffer, mc_encrypt_file, mc_decrypt_file,
       mc_decrypt_file_to_buffer, mc_inspect_buffer, mc_generate_key

LEMMA PlainIsReadable ==
  ASSUME NEW core \in DOMAIN CoreSize
  PROVE  Readable([core |-> core, layers |-> <<>>])
<1>1. <<>> \in Seq(Keys) OBVIOUS
<1> QED BY <1>1 DEF Readable, Contents, Sealed

LEMMA EmptyIsReadable == Readable(Empty)
BY PlainIsReadable, CApiAssumption DEF Empty

LEMMA Products ==
  ASSUME NEW a \in Nat, NEW n \in Nat
  PROVE  a * n \in Nat /\ a * (n + 1) = a * n + a
OBVIOUS

LEMMA SizeOf ==
  ASSUME NEW core \in DOMAIN CoreSize, NEW n \in Nat, NEW layers, Len(layers) = n
  PROVE  /\ Size([core |-> core, layers |-> layers]) = CoreSize[core] + Framing * n
         /\ CoreSize[core] \in Nat /\ Framing * n \in Nat
<1>1. Framing \in Nat /\ CoreSize[core] \in Nat BY CApiAssumption
<1>2. Framing * n \in Nat BY <1>1, Products
<1> QED BY <1>1, <1>2 DEF Size

LEMMA SealIsReadable ==
  ASSUME NEW key \in Keys, NEW x, Readable(x), Size(x) <= MaxPlain
  PROVE  Readable(Seal(key, x)) /\ Sealed(Seal(key, x)) /\ Seal(key, x).core = x.core
<1>1. x \in Contents /\ x.layers \in Seq(Keys) /\ x.core \in DOMAIN CoreSize
  BY DEF Readable, Contents
<1>2. Seal(key, x) = [core |-> x.core, layers |-> Append(x.layers, key)]
  BY <1>1 DEF Seal, Contents
<1>3. Append(x.layers, key) \in Seq(Keys) /\ Len(Append(x.layers, key)) = Len(x.layers) + 1
  BY <1>1
<1>4. Append(x.layers, key) # <<>> BY <1>3, <1>1
<1>5. x = [core |-> x.core, layers |-> x.layers] /\ Len(x.layers) \in Nat
  BY <1>1 DEF Contents
<1> DEFINE n == Len(x.layers)
<1>6. Size(x) = CoreSize[x.core] + Framing * n /\ Framing * n \in Nat /\ CoreSize[x.core] \in Nat
  BY <1>1, <1>5, SizeOf
<1>7. Size(Seal(key, x)) = CoreSize[x.core] + Framing * (n + 1)
  BY <1>1, <1>2, <1>3, <1>5, SizeOf
<1>8. Framing * (n + 1) = Framing * n + Framing BY <1>5, CApiAssumption, Products
<1> HIDE DEF n
<1>9. Size(Seal(key, x)) <= kMaxFileSize
  <2> DEFINE m == Framing * n
  <2>1. m \in Nat /\ Size(x) = CoreSize[x.core] + m /\ Size(Seal(key, x)) = CoreSize[x.core] + (m + Framing)
    BY <1>6, <1>7, <1>8
  <2>2. MaxPlain \in Nat /\ Framing \in Nat BY CApiAssumption
  <2> HIDE DEF m
  <2> QED BY <1>6, <2>1, <2>2 DEF kMaxFileSize
<1> QED BY <1>1, <1>2, <1>3, <1>4, <1>9 DEF Readable, Sealed, Contents

LEMMA OpenIsReadable ==
  ASSUME NEW key \in Keys, NEW x, Readable(x), Opens(key, x)
  PROVE  Readable(Open(x)) /\ Open(x).core = x.core
<1>1. x \in Contents /\ x.layers \in Seq(Keys) /\ x.core \in DOMAIN CoreSize
  BY DEF Readable, Contents
<1>2. Open(x) = [core |-> x.core, layers |-> Front(x.layers)]
  BY <1>1 DEF Open, Contents
<1>3. x.layers # <<>> /\ Len(x.layers) \in Nat \ {0} BY <1>1, EmptySeq DEF Opens
<1>4. Front(x.layers) \in Seq(Keys) /\ Len(Front(x.layers)) = Len(x.layers) - 1
  <2>1. SubSeq(x.layers, 1, Len(x.layers) - 1) \in Seq(Keys) BY <1>1, <1>3, SubSeqProperties
  <2>2. Len(SubSeq(x.layers, 1, Len(x.layers) - 1)) = Len(x.layers) - 1
    BY <1>1, <1>3, SubSeqProperties
  <2> QED BY <2>1, <2>2 DEF Front
<1>5. x = [core |-> x.core, layers |-> x.layers] BY <1>1 DEF Contents
<1> DEFINE n == Len(x.layers) - 1
<1>6. n \in Nat /\ Len(x.layers) = n + 1 BY <1>3
<1>7. Size(x) = CoreSize[x.core] + Framing * (n + 1) /\ CoreSize[x.core] \in Nat
  BY <1>1, <1>5, <1>6, SizeOf
<1>8. Size(Open(x)) = CoreSize[x.core] + Framing * n /\ Framing * n \in Nat
  BY <1>1, <1>2, <1>4, <1>6, SizeOf
<1>9. Framing * (n + 1) = Framing * n + Framing BY <1>6, CApiAssumption, Products
<1>10. Size(x) <= kMaxFileSize BY <1>3 DEF Readable, Sealed
<1> HIDE DEF n
<1>11. Size(Open(x)) <= kMaxFileSize
  <2> DEFINE m == Framing * n
  <2>1. m \in Nat /\ Size(Open(x)) = CoreSize[x.core] + m /\ Size(x) = CoreSize[x.core] + (m + Framing)
    BY <1>7, <1>8, <1>9
  <2>2. MaxPlain \in Nat /\ Framing \in Nat BY CApiAssumption
  <2> HIDE DEF m
  <2> QED BY <1>7, <1>10, <2>1, <2>2 DEF kMaxFileSize
<1> QED BY <1>1, <1>2, <1>4, <1>11 DEF Readable, Contents
----------------------------------------------------------------------------
(* One caller's step.                                                      *)

\* What a step gives its caller, put in place of what it had.
LEMMA CallerStep ==
  ASSUME CallersInv, NEW t \in Callers, NEW p, NEW c, NEW i, NEW r,
         CallInv(p, c, i, r),
         pc' = [pc EXCEPT ![t] = p], call' = [call EXCEPT ![t] = c],
         input' = [input EXCEPT ![t] = i], result' = [result EXCEPT ![t] = r],
         NEW m, NEW o, Readable(m), o = Unwritten \/ Readable(o),
         mine' = [mine EXCEPT ![t] = m], out' = [out EXCEPT ![t] = o]
  PROVE  CallersInv'
<1>1. /\ pc' = [u \in Callers |-> IF u = t THEN p ELSE pc[u]]
      /\ call' = [u \in Callers |-> IF u = t THEN c ELSE call[u]]
      /\ input' = [u \in Callers |-> IF u = t THEN i ELSE input[u]]
      /\ result' = [u \in Callers |-> IF u = t THEN r ELSE result[u]]
      /\ mine' = [u \in Callers |-> IF u = t THEN m ELSE mine[u]]
      /\ out' = [u \in Callers |-> IF u = t THEN o ELSE out[u]]
  BY DEF CallersInv, Functions
<1>2. Functions' BY <1>1 DEF Functions
<1>3. ASSUME NEW u \in Callers
      PROVE  /\ CallInv(pc'[u], call'[u], input'[u], result'[u])
             /\ Readable(mine'[u]) /\ (out'[u] = Unwritten \/ Readable(out'[u]))
  <2>1. CASE u = t BY <1>1, <2>1
  <2>2. CASE u # t BY <1>1, <2>2 DEF CallersInv
  <2> QED BY <2>1, <2>2
<1> QED BY <1>2, <1>3 DEF CallersInv

\* A variable that does not change gives its caller what it had.
LEMMA Unchanging ==
  ASSUME CallersInv, NEW t \in Callers
  PROVE  /\ pc = [pc EXCEPT ![t] = pc[t]] /\ call = [call EXCEPT ![t] = call[t]]
         /\ input = [input EXCEPT ![t] = input[t]] /\ result = [result EXCEPT ![t] = result[t]]
         /\ mine = [mine EXCEPT ![t] = mine[t]] /\ out = [out EXCEPT ![t] = out[t]]
BY DEF CallersInv, Functions

LEMMA FilesUnchanged ==
  ASSUME FilesInv, UNCHANGED fileVars PROVE FilesInv'
BY DEF FilesInv, fileVars

\* A call that is over holds nothing.
LEMMA Over ==
  ASSUME NEW p \in {"idle"} \cup Statuses, NEW c \in Calls \cup {NoCall}
  PROVE  CallInv(p, c, Nothing, Nothing)
BY DEF CallInv, Steps, Statuses

LEMMA ReturnKeepsCallers ==
  ASSUME CApiInv, NEW t \in Callers, NEW p \in Statuses, Return(t, p), UNCHANGED <<call, callerVars>>
  PROVE  CallersInv'
<1>1. CallersInv BY DEF CApiInv
<1>2. CallInv(p, call[t], Nothing, Nothing) BY <1>1, Over DEF CallersInv, CallInv
<1> QED BY <1>1, <1>2, CallerStep, Unchanging DEF Return, Goto, callerVars, CallersInv

LEMMA FailStep ==
  ASSUME CApiInv, NEW t \in Callers, NEW p \in Statuses, Fail(t, p) PROVE CApiInv'
BY ReturnKeepsCallers, FilesUnchanged DEF Fail, CApiInv

LEMMA StartCallStep ==
  ASSUME CApiInv, NEW t \in Callers, StartCall(t) PROVE CApiInv'
<1>1. CallersInv /\ FilesInv' BY FilesUnchanged DEF CApiInv, StartCall
<1>2. PICK c \in CallsOf[t] :
        /\ call' = [call EXCEPT ![t] = c]
        /\ \/ ArgumentsMissing(c) /\ Goto(t, "MC_ERR_INVALID_ARG") /\ UNCHANGED input
           \/ MayThrow(c) /\ Goto(t, "MC_ERR_MEMORY") /\ UNCHANGED input
           \/ ~ArgumentsMissing(c) /\ FromFile(c) /\ Goto(t, "read") /\ UNCHANGED input
           \/ /\ ~ArgumentsMissing(c) /\ ~FromFile(c) /\ Goto(t, "transform")
              /\ input' = [input EXCEPT ![t] = IF c.in = Null THEN Null ELSE mine[t]]
  BY DEF StartCall
<1>c. c \in Calls BY <1>2 DEF Calls
<1>3. input[t] = Nothing /\ result[t] = Nothing
  BY <1>1 DEF CallersInv, CallInv, StartCall
<1>4. Readable(mine[t]) /\ (out[t] = Unwritten \/ Readable(out[t])) BY <1>1 DEF CallersInv
<1>5. ASSUME NEW p, NEW i, CallInv(p, c, i, Nothing), Goto(t, p), input' = [input EXCEPT ![t] = i]
      PROVE  CallersInv'
  BY <1>1, <1>2, <1>3, <1>4, <1>5, CallerStep, Unchanging DEF Goto, StartCall, callerVars
<1>6. ~ArgumentsMissing(c) => PathsGiven(c)
  BY <1>c, InstanceAssumption DEF ArgumentsMissing, PathsGiven
<1>7. CASE ~ArgumentsMissing(c) /\ FromFile(c) /\ Goto(t, "read") /\ UNCHANGED input
  <2>1. CallInv("read", c, Nothing, Nothing) BY <1>c, <1>6, <1>7 DEF CallInv, Steps
  <2> QED BY <1>1, <1>3, <1>5, <1>7, <2>1, Unchanging DEF CApiInv
<1>8. CASE /\ ~ArgumentsMissing(c) /\ ~FromFile(c) /\ Goto(t, "transform")
           /\ input' = [input EXCEPT ![t] = IF c.in = Null THEN Null ELSE mine[t]]
  <2> DEFINE i == IF c.in = Null THEN Null ELSE mine[t]
  <2>1. i = Null \/ Readable(i) BY <1>4
  <2> HIDE DEF i
  <2>2. CallInv("transform", c, i, Nothing) BY <1>c, <1>6, <1>8, <2>1 DEF CallInv, Steps
  <2>3. input' = [input EXCEPT ![t] = i] BY <1>8 DEF i
  <2> QED BY <1>1, <1>5, <1>8, <2>2, <2>3 DEF CApiInv
<1>9. ASSUME NEW p \in Statuses, Goto(t, p), UNCHANGED input PROVE CallersInv'
  BY <1>c, <1>1, <1>3, <1>5, <1>9, Over, Unchanging
<1> QED BY <1>1, <1>2, <1>7, <1>8, <1>9 DEF CApiInv, Statuses

LEMMA ReadFileStep ==
  ASSUME CApiInv, NEW t \in Callers, ReadFile(t) PROVE CApiInv'
<1> DEFINE c == call[t]
           version == file[c.in]
<1>1. CallersInv /\ FilesInv /\ CallInv("read", c, Nothing, Nothing)
  BY DEF CApiInv, CallersInv, ReadFile, CallInv
<1>2. c \in Calls /\ PathsGiven(c) /\ FromFile(c) /\ c.in \in Paths
  BY <1>1 DEF CallInv, Steps, PathsGiven
<1>3. ASSUME NEW p \in {"MC_ERR_IO", "MC_ERR_TOO_LARGE", "MC_ERR_MEMORY"}, Fail(t, p)
      PROVE  CApiInv'
  BY <1>3, FailStep DEF Statuses
<1>4. CASE /\ version # NoFile /\ Size(version.bytes) <= ReadLimit(c)
           /\ Goto(t, "transform") /\ input' = [input EXCEPT ![t] = version.bytes]
           /\ UNCHANGED <<fileVars, call, result, callerVars>>
  <2>1. Readable(version.bytes) /\ (Protected(c.in) => version.bytes.core = Original[c.in].bytes.core)
    BY <1>1, <1>2, <1>4 DEF FilesInv, VersionInv, HoldsModel
  <2> DEFINE b == version.bytes
  <2>2. CallInv("transform", c, b, Nothing)
    <3> HIDE DEF b, version, c
    <3>1. Carries(c, b) BY <2>1 DEF Carries, b
    <3> QED BY <1>2, <2>1, <3>1 DEF CallInv, Steps, b
  <2>3. Readable(mine[t]) /\ (out[t] = Unwritten \/ Readable(out[t])) BY <1>1 DEF CallersInv
  <2>4. result[t] = Nothing BY <1>1 DEF CallersInv, CallInv, ReadFile
  <2>5. CallersInv'
    <3> HIDE DEF b, version
    <3>1. input' = [input EXCEPT ![t] = b] BY <1>4 DEF b
    <3>2. /\ pc' = [pc EXCEPT ![t] = "transform"] /\ call' = [call EXCEPT ![t] = c]
          /\ result' = [result EXCEPT ![t] = Nothing]
          /\ mine' = [mine EXCEPT ![t] = mine[t]] /\ out' = [out EXCEPT ![t] = out[t]]
      BY <1>1, <1>4, <2>4, Unchanging DEF Goto, callerVars
    <3> HIDE DEF c
    <3> QED BY <1>1, <2>2, <2>3, <3>1, <3>2, CallerStep
  <2> QED BY <1>1, <1>4, <2>5, FilesUnchanged DEF CApiInv
<1> QED BY <1>3, <1>4 DEF ReadFile

\* What the three functions have in common.
LEMMA TransformStep ==
  ASSUME CApiInv, NEW t \in Callers, NEW name, NEW answers \in SUBSET Statuses, NEW made,
         Transform(t, name, answers, made), name # "Fill",
         "MC_OK" \in answers => Readable(made) /\
           (ToFile(call[t]) => Carries(call[t], made) /\ (OutputMode(call[t]) = "0644" => Sealed(made)))
  PROVE  CApiInv'
<1>1. CallersInv /\ FilesInv BY DEF CApiInv
<1>2. PICK rc \in answers :
       \/ rc # "MC_OK" /\ Fail(t, rc)
       \/ /\ rc = "MC_OK" /\ Goto(t, "deliver") /\ result' = [result EXCEPT ![t] = made]
          /\ UNCHANGED <<fileVars, call, input, callerVars>>
  BY DEF Transform
<1>3. CASE rc # "MC_OK" /\ Fail(t, rc) BY <1>3, FailStep
<1>4. CASE /\ rc = "MC_OK" /\ Goto(t, "deliver") /\ result' = [result EXCEPT ![t] = made]
           /\ UNCHANGED <<fileVars, call, input, callerVars>>
  <2>1. CallInv("transform", call[t], input[t], result[t])
    BY <1>1 DEF CallersInv, Transform
  <2>2. CallInv("deliver", call[t], input[t], made)
    BY <1>4, <2>1 DEF CallInv, Steps, Transform
  <2>3. Readable(mine[t]) /\ (out[t] = Unwritten \/ Readable(out[t])) BY <1>1 DEF CallersInv
  <2>4. CallersInv'
    <3>1. /\ pc' = [pc EXCEPT ![t] = "deliver"] /\ call' = [call EXCEPT ![t] = call[t]]
          /\ input' = [input EXCEPT ![t] = input[t]] /\ result' = [result EXCEPT ![t] = made]
          /\ mine' = [mine EXCEPT ![t] = mine[t]] /\ out' = [out EXCEPT ![t] = out[t]]
      BY <1>1, <1>4, Unchanging DEF Goto, callerVars
    <3> QED BY <1>1, <2>2, <2>3, <3>1, CallerStep
  <2> QED BY <1>1, <1>4, <2>4, FilesUnchanged DEF CApiInv
<1> QED BY <1>2, <1>3, <1>4

LEMMA Transforming ==
  ASSUME CApiInv, NEW t \in Callers, pc[t] = "transform"
  PROVE  /\ call[t] \in Calls /\ PathsGiven(call[t])
         /\ input[t] # Null => Readable(input[t])
         /\ FromFile(call[t]) => Carries(call[t], input[t])
BY DEF CApiInv, CallersInv, CallInv, Steps, Carries

LEMMA EncryptBufferStep ==
  ASSUME CApiInv, NEW t \in Callers, EncryptBuffer(t) PROVE CApiInv'
<1> DEFINE c == call[t]
           x == input[t]
           made == Seal(c.key, x)
<1>1. pc[t] = "transform" /\ c \in Calls /\ (x # Null => Readable(x)) /\ (FromFile(c) => Carries(c, x))
  BY Transforming DEF EncryptBuffer, Transform
<1>2. EncryptAnswers(c, x) \in SUBSET Statuses BY DEF EncryptAnswers, Statuses
<1>3. ASSUME "MC_OK" \in EncryptAnswers(c, x)
      PROVE  c.key \in Keys /\ x # Null /\ Size(x) <= MaxPlain
  <2>1. c.key \in Keys /\ x # Null BY <1>3 DEF EncryptAnswers
  <2>2. ~(Size(x) > MaxPlain) BY <1>3, <2>1 DEF EncryptAnswers
  <2>3. Size(x) \in Int
    <3>1. x.core \in DOMAIN CoreSize /\ Len(x.layers) \in Nat
         /\ x = [core |-> x.core, layers |-> x.layers]
      BY <1>1, <2>1 DEF Readable, Contents
    <3> HIDE DEF x
    <3> QED BY <3>1, SizeOf
  <2>4. MaxPlain \in Nat BY CApiAssumption
  <2> HIDE DEF c, x
  <2> QED BY <2>1, <2>2, <2>3, <2>4
<1>4. ASSUME "MC_OK" \in EncryptAnswers(c, x)
      PROVE  Readable(made) /\ Sealed(made) /\ made.core = x.core
  BY <1>1, <1>3, <1>4, SealIsReadable
<1>5. Transform(t, "EncryptBuffer", EncryptAnswers(c, x), made) BY DEF EncryptBuffer
<1> HIDE DEF made
<1>6. ASSUME "MC_OK" \in EncryptAnswers(c, x), ToFile(c) PROVE Carries(c, made)
  BY <1>1, <1>4, <1>6, FormsThatWrite DEF Carries
<1> HIDE DEF c, x
<1> QED BY <1>2, <1>4, <1>5, <1>6, TransformStep DEF c

LEMMA DecryptBufferStep ==
  ASSUME CApiInv, NEW t \in Callers, DecryptBuffer(t) PROVE CApiInv'
<1> DEFINE c == call[t]
           x == input[t]
           made == Open(x)
<1>1. /\ pc[t] = "transform" /\ Form[c.op].calls = "DecryptBuffer"
      /\ c \in Calls /\ (x # Null => Readable(x)) /\ (FromFile(c) => Carries(c, x))
  BY Transforming DEF DecryptBuffer, Transform
<1>2. DecryptAnswers(c, x) \in SUBSET Statuses BY DEF DecryptAnswers, Statuses
<1>3. ASSUME "MC_OK" \in DecryptAnswers(c, x)
      PROVE  c.key \in Keys /\ x # Null /\ Opens(c.key, x)
  BY <1>3 DEF DecryptAnswers, DataIsNull
<1>4. ASSUME "MC_OK" \in DecryptAnswers(c, x)
      PROVE  Readable(made) /\ made.core = x.core
  BY <1>1, <1>3, <1>4, OpenIsReadable
<1>5. Transform(t, "DecryptBuffer", DecryptAnswers(c, x), made) BY DEF DecryptBuffer
<1> HIDE DEF made
<1>6. ASSUME "MC_OK" \in DecryptAnswers(c, x), ToFile(c)
      PROVE  Carries(c, made) /\ OutputMode(c) # "0644"
  BY <1>1, <1>4, <1>6, FormsThatWrite DEF Carries
<1> HIDE DEF c, x
<1> QED BY <1>2, <1>4, <1>5, <1>6, TransformStep DEF c

LEMMA InspectBufferStep ==
  ASSUME CApiInv, NEW t \in Callers, InspectBuffer(t) PROVE CApiInv'
<1> DEFINE answers == IF DataIsNull(input[t]) THEN {"MC_ERR_INVALID_ARG"}
                      ELSE IF input[t].layers # <<>> THEN {"MC_OK"}
                      ELSE {"MC_OK", "MC_ERR_FORMAT", "MC_ERR_UNSUPPORTED", "MC_ERR_TOO_LARGE"}
           made == [core |-> "header", layers |-> <<>>]
<1>1. Form[call[t].op].calls = "InspectBuffer" /\ call[t] \in Calls
  BY Transforming DEF InspectBuffer, Transform
<1>2. ~ToFile(call[t]) BY <1>1, FormsThatWrite
<1>3. answers \in SUBSET Statuses BY DEF Statuses
<1>4. Transform(t, "InspectBuffer", answers, made) BY DEF InspectBuffer, HeaderOf
<1>5. Readable(made) BY PlainIsReadable, CApiAssumption
<1> HIDE DEF answers, made
<1> QED BY <1>2, <1>3, <1>4, <1>5, TransformStep

LEMMA FillStep ==
  ASSUME CApiInv, NEW t \in Callers, Fill(t) PROVE CApiInv'
<1>1. CallersInv /\ FilesInv /\ CallInv("transform", call[t], input[t], result[t])
  BY DEF CApiInv, CallersInv, Fill
<1>2. ASSUME Fail(t, "MC_ERR_INVALID_ARG") PROVE CApiInv' BY <1>2, FailStep DEF Statuses
<1>3. ASSUME NEW rc \in {"MC_OK", "MC_ERR_CRYPTO"}, Return(t, rc), UNCHANGED <<fileVars, call, mine>>,
             NEW o, o = Unwritten \/ Readable(o), out' = [out EXCEPT ![t] = o]
      PROVE  CApiInv'
  <2>1. CallInv(rc, call[t], Nothing, Nothing)
    BY <1>1, <1>3, Over DEF CallInv, Statuses
  <2>2. Readable(mine[t]) BY <1>1 DEF CallersInv
  <2>3. /\ pc' = [pc EXCEPT ![t] = rc] /\ call' = [call EXCEPT ![t] = call[t]]
        /\ input' = [input EXCEPT ![t] = Nothing] /\ result' = [result EXCEPT ![t] = Nothing]
        /\ mine' = [mine EXCEPT ![t] = mine[t]]
    BY <1>1, <1>3, Unchanging DEF Return, Goto
  <2>4. CallersInv' BY <1>1, <1>3, <2>1, <2>2, <2>3, CallerStep
  <2> QED BY <1>1, <1>3, <2>4, FilesUnchanged DEF CApiInv
<1>4. Readable(Random) /\ Readable(PartlyDrawn)
  BY PlainIsReadable, CApiAssumption DEF Random, PartlyDrawn
<1>5. Readable(Drawn(call[t].in)) BY <1>4 DEF Drawn
<1>6. (out[t] = Unwritten \/ Readable(out[t])) /\ out = [out EXCEPT ![t] = out[t]]
  BY <1>1, Unchanging DEF CallersInv
<1> QED BY <1>2, <1>3, <1>4, <1>5, <1>6 DEF Fill

LEMMA WriteStep ==
  ASSUME CApiInv, NEW t \in Callers, WriteFileAtomically(t) PROVE CApiInv'
<1> DEFINE c == call[t]
           v == [bytes |-> result[t], mode |-> OutputMode(c)]
<1>1. CallersInv /\ FilesInv /\ CallInv("deliver", c, input[t], result[t]) /\ ToFile(c)
  BY DEF CApiInv, CallersInv, WriteFileAtomically
<1>2. c \in Calls /\ c.out \in Paths /\ Carries(c, result[t])
       /\ (OutputMode(c) = "0644" => Sealed(result[t]))
  BY <1>1 DEF CallInv, Steps, PathsGiven
<1>3. OutputMode(c) \in {"0600", "0644"} BY <1>1, <1>2, FormsThatWrite
<1>4. VersionInv(c.out, v)
  <2>1. v \in Files /\ v # NoFile /\ v.bytes = result[t] /\ v.mode = OutputMode(c)
    BY <1>2, <1>3, InstanceAssumption DEF Files, Carries, Readable
  <2>2. Protected(c.out) => result[t].core = Original[c.out].bytes.core
    BY <1>1, <1>2 DEF Protected, InPlaceOnly, Carries
  <2> HIDE DEF v, c
  <2> QED BY <1>2, <2>1, <2>2 DEF VersionInv, Carries, HoldsModel, Protected
<1>5. CASE /\ Return(t, "MC_ERR_IO") /\ file' = AfterFailedWrite(t)
           /\ UNCHANGED <<disk, call, callerVars>>
  <2>1. CallersInv' BY <1>5, ReturnKeepsCallers DEF Statuses
  <2> QED BY <1>1, <1>5, <2>1, FilesUnchanged DEF CApiInv, AfterFailedWrite, fileVars
<1>6. CASE /\ Return(t, "MC_OK") /\ file' = [file EXCEPT ![c.out] = v]
           /\ UNCHANGED <<disk, call, callerVars>>
  <2>1. CallersInv' BY <1>6, ReturnKeepsCallers DEF Statuses
  <2>2. file' = [p \in Paths |-> IF p = c.out THEN v ELSE file[p]]
    BY <1>1, <1>2, <1>6 DEF FilesInv
  <2> HIDE DEF v
  <2>3. ASSUME NEW p \in Paths PROVE VersionInv(p, file'[p])
    BY <1>1, <1>4, <2>2 DEF FilesInv
  <2>4. FilesInv' BY <1>1, <1>6, <2>2, <2>3 DEF FilesInv
  <2> QED BY <2>1, <2>4 DEF CApiInv
<1> QED BY <1>5, <1>6 DEF WriteFileAtomically

LEMMA HandOffStep ==
  ASSUME CApiInv, NEW t \in Callers, HandOff(t) PROVE CApiInv'
<1>1. CallersInv /\ FilesInv /\ CallInv("deliver", call[t], input[t], result[t])
  BY DEF CApiInv, CallersInv, HandOff
<1>2. Readable(result[t]) /\ Readable(mine[t]) BY <1>1 DEF CallInv, CallersInv
<1>3. CallInv("MC_OK", call[t], Nothing, Nothing) BY <1>1, Over DEF CallInv, Statuses
<1>4. CallersInv'
  BY <1>1, <1>2, <1>3, CallerStep, Unchanging DEF HandOff, Return, Goto
<1> QED BY <1>1, <1>4, FilesUnchanged DEF CApiInv, HandOff

----------------------------------------------------------------------------
(* The callers and their environment.                                      *)

LEMMA CollectStep ==
  ASSUME CApiInv, NEW t \in Callers, Collect(t) PROVE CApiInv'
<1>1. CallersInv /\ FilesInv BY DEF CApiInv
<1>2. input[t] = Nothing /\ result[t] = Nothing
  BY <1>1 DEF CallersInv, CallInv, Collect, Statuses
<1>3. Readable(mine[t]) /\ (out[t] = Unwritten \/ Readable(out[t])) BY <1>1 DEF CallersInv
<1>4. CallersInv'
  <2>1. /\ pc' = [pc EXCEPT ![t] = "idle"] /\ call' = [call EXCEPT ![t] = NoCall]
        /\ input' = [input EXCEPT ![t] = Nothing] /\ result' = [result EXCEPT ![t] = Nothing]
        /\ mine' = [mine EXCEPT ![t] = mine[t]] /\ out' = [out EXCEPT ![t] = out[t]]
    BY <1>1, <1>2, Unchanging DEF Collect, Goto, callerVars
  <2>2. CallInv("idle", NoCall, Nothing, Nothing) BY Over
  <2> QED BY <1>1, <1>3, <2>1, <2>2, CallerStep
<1> QED BY <1>1, <1>4, FilesUnchanged DEF CApiInv, Collect

LEMMA FreeStep ==
  ASSUME CApiInv, NEW t \in Callers, mc_free(t) PROVE CApiInv'
<1>1. CallersInv /\ FilesInv BY DEF CApiInv
<1>2. CallInv(pc[t], call[t], input[t], result[t]) /\ Readable(mine[t]) /\ Readable(out[t])
  BY <1>1 DEF CallersInv, mc_free
<1>3. PICK m : Readable(m) /\ mine' = [mine EXCEPT ![t] = m]
  <2>1. CASE UNCHANGED mine BY <1>1, <1>2, <2>1, Unchanging
  <2>2. CASE mine' = [mine EXCEPT ![t] = out[t]] BY <1>2, <2>2
  <2> QED BY <2>1, <2>2 DEF mc_free
<1>4. CallersInv'
  <2>1. /\ pc' = [pc EXCEPT ![t] = pc[t]] /\ call' = [call EXCEPT ![t] = call[t]]
        /\ input' = [input EXCEPT ![t] = input[t]] /\ result' = [result EXCEPT ![t] = result[t]]
    BY <1>1, Unchanging DEF mc_free, callVars
  <2>2. out' = [out EXCEPT ![t] = Unwritten] BY DEF mc_free
  <2> QED BY <1>1, <1>2, <1>3, <2>1, <2>2, CallerStep
<1> QED BY <1>1, <1>4, FilesUnchanged DEF CApiInv, mc_free

LEMMA KillStep ==
  ASSUME CApiInv, NEW t \in Callers, Kill(t) PROVE CApiInv'
<1>1. CallersInv /\ FilesInv BY DEF CApiInv
<1>2. CallersInv'
  BY <1>1, Over, EmptyIsReadable, CallerStep DEF Kill, Goto
<1> QED BY <1>1, <1>2, FilesUnchanged DEF CApiInv, Kill

LEMMA PersistStep ==
  ASSUME CApiInv, NEW q \in Paths, Persist(q) PROVE CApiInv'
<1>1. disk' = [p \in Paths |-> IF p = q THEN file[q] ELSE disk[p]]
  BY DEF CApiInv, FilesInv, Persist
<1>2. ASSUME NEW p \in Paths PROVE VersionInv(p, disk'[p])
  BY <1>1 DEF CApiInv, FilesInv
<1>3. FilesInv' BY <1>1, <1>2 DEF CApiInv, FilesInv, Persist
<1>4. CallersInv'
  BY DEF CApiInv, CallersInv, Functions, Persist, callVars, callerVars
<1> QED BY <1>3, <1>4 DEF CApiInv

LEMMA PowerLossStep ==
  ASSUME CApiInv, PowerLoss PROVE CApiInv'
<1>1. FilesInv' BY DEF CApiInv, FilesInv, PowerLoss
<1>2. CallersInv'
  <2>1. \A t \in Callers : CallInv("idle", NoCall, Nothing, Nothing) BY Over
  <2> QED BY <2>1, EmptyIsReadable DEF PowerLoss, CallersInv, Functions
<1> QED BY <1>1, <1>2 DEF CApiInv

LEMMA CApiInit == Init => CApiInv
<1> SUFFICES ASSUME Init PROVE CApiInv OBVIOUS
<1>1. CallersInv
  <2>1. \A t \in Callers : CallInv("idle", NoCall, Nothing, Nothing) BY Over
  <2>2. Functions BY DEF Init, Functions
  <2>3. ASSUME NEW t \in Callers
        PROVE  /\ CallInv(pc[t], call[t], input[t], result[t])
               /\ Readable(mine[t]) /\ out[t] = Unwritten
    BY <2>1, EmptyIsReadable DEF Init
  <2> QED BY <2>2, <2>3 DEF CallersInv
<1>2. ASSUME NEW p \in Paths PROVE VersionInv(p, Original[p])
  <2>1. Original[p] \in Files \cup {NoFile} BY InstanceAssumption
  <2>2. Original[p] # NoFile => Readable(Original[p].bytes)
    BY <2>1, InstanceAssumption DEF Readable, Files, Sealed
  <2>3. Original[p] # NoFile => Original[p].mode \in {"0600", "0644"} BY <2>1 DEF Files
  <2> QED BY <2>1, <2>2, <2>3 DEF VersionInv, Protected, HoldsModel, AllPrivate
<1>3. FilesInv BY <1>2, InstanceAssumption DEF Init, FilesInv
<1> QED BY <1>1, <1>3 DEF CApiInv

LEMMA CApiNext == CApiInv /\ [Next]_vars => CApiInv'
<1> SUFFICES ASSUME CApiInv, [Next]_vars PROVE CApiInv' OBVIOUS
<1>1. ASSUME NEW t \in Callers, StartCall(t) \/ CallStep(t) \/ Collect(t) \/ mc_free(t) \/ Kill(t)
      PROVE  CApiInv'
  BY <1>1, StartCallStep, ReadFileStep, EncryptBufferStep, DecryptBufferStep, InspectBufferStep,
     FillStep, WriteStep, HandOffStep, CollectStep, FreeStep, KillStep DEF CallStep
<1>2. CASE UNCHANGED vars
  BY <1>2 DEF vars, fileVars, callVars, callerVars, CApiInv, FilesInv, CallersInv, Functions
<1> QED BY <1>1, <1>2, PersistStep, PowerLossStep DEF Next

----------------------------------------------------------------------------
(* Theorems.                                                               *)

\* The inductive invariant, of any number of calls at once.
THEOREM ApiInvariant == Spec => []CApiInv
BY CApiInit, CApiNext, PTL DEF Spec

\* Types; a call that is over, however it ended, holds no bytes of its own
\* (the SecureBuffers of c_api.cc:179-243 go with every return).
THEOREM ApiTypes == Spec => []TypeOK
<1>1. ASSUME CApiInv PROVE TypeOK
  <2>1. ASSUME NEW p \in Paths, NEW v \in Versions(p)
        PROVE  v.mode \in {"0600", "0644"} /\ v.bytes.layers \in Seq(Keys)
    <3>1. v \in Files BY <1>1, <2>1 DEF CApiInv, FilesInv, VersionInv, Versions
    <3> QED BY <3>1 DEF Files, Contents
  <2>2. ASSUME NEW t \in Callers
        PROVE  /\ pc[t] \in {"idle"} \cup Steps \cup Statuses /\ call[t] \in Calls \cup {NoCall}
               /\ pc[t] \notin {"transform", "deliver"} => input[t] = Nothing
               /\ (pc[t] = "deliver") = (result[t] # Nothing)
    <3>1. CallInv(pc[t], call[t], input[t], result[t]) BY <1>1 DEF CApiInv, CallersInv
    <3>2. ~Readable(Nothing) BY CApiAssumption DEF Readable, Contents, Nothing
    <3> QED BY <3>1, <3>2 DEF CallInv
  <2> QED BY <2>1, <2>2 DEF TypeOK
<1> QED BY <1>1, ApiInvariant, PTL

(***************************************************************************)
(* A path that is only encrypted and decrypted in place holds its model,   *)
(* now and after a power loss, whatever races on it (c_api.cc:200-204,     *)
(* 234-241; model_crypt.h:311-313).                                        *)
(***************************************************************************)
THEOREM ModelsSurvive == Spec => []ModelSurvives
<1>1. CApiInv => ModelSurvives
  BY DEF CApiInv, FilesInv, VersionInv, ModelSurvives, Protected
<1> QED BY <1>1, ApiInvariant, PTL

\* No path comes to hold a plaintext that others may read (c_api.cc:239-241).
THEOREM PlaintextsArePrivate == Spec => []PlaintextIsPrivate
<1>1. CApiInv => PlaintextIsPrivate
  BY DEF CApiInv, FilesInv, VersionInv, PlaintextIsPrivate, AllPrivate, Versions
<1> QED BY <1>1, ApiInvariant, PTL

(***************************************************************************)
(* A call that fails has changed no file and no out-parameter, but for the *)
(* memory a failing draw may have begun to fill; a draw that succeeds      *)
(* filled all of it (c_api.cc:8-11, random.cc:19-31).                      *)
(***************************************************************************)
THEOREM CallsAreWholeOrUntouched == Spec => WholeOrUntouched
<1> DEFINE Kept(t) ==
       IF pc'[t] # "MC_OK" THEN file' = file /\ (out'[t] = out[t] \/ FailedDraw(t))
       ELSE call[t].op = "mc_generate_key" => out'[t] = Random
<1>1. ASSUME CApiInv, [Next]_vars, NEW t \in Callers, pc[t] \in Steps, pc'[t] \in Statuses
      PROVE  Kept(t)
  <2>1. /\ Functions /\ pc[t] \notin Statuses \cup {"idle"}
        /\ call[t] \in Calls /\ CallInv(pc[t], call[t], input[t], result[t])
    BY <1>1 DEF CApiInv, CallersInv, CallInv, Steps, Statuses
  <2>2. ASSUME NEW u \in Callers, NEW p, Goto(u, p) PROVE u = t /\ p = pc'[t]
    BY <1>1, <2>1, <2>2 DEF Functions, Goto
  <2>3. pc' # pc BY <1>1, <2>1
  <2>4. ASSUME NEW u \in Callers, CallStep(u) PROVE Kept(t)
    <3>1. ASSUME NEW p \in Statuses \ {"MC_OK"}, Fail(u, p) PROVE Kept(t)
      BY <2>2, <3>1 DEF Fail, Return, fileVars, callerVars
    <3>2. CASE ReadFile(u)
      <4>1. ~Goto(u, "transform") BY <1>1, <2>2 DEF Statuses
      <4> QED BY <3>1, <3>2, <4>1 DEF ReadFile, Statuses
    <3>3. ASSUME NEW n, NEW a \in SUBSET Statuses, NEW m, Transform(u, n, a, m) PROVE Kept(t)
      <4>1. ~Goto(u, "deliver") BY <1>1, <2>2 DEF Statuses
      <4> QED BY <3>1, <3>3, <4>1 DEF Transform
    <3>4. CASE EncryptBuffer(u)
      <4>1. EncryptAnswers(call[u], input[u]) \in SUBSET Statuses BY DEF EncryptAnswers, Statuses
      <4> QED BY <3>3, <3>4, <4>1 DEF EncryptBuffer
    <3>5. CASE DecryptBuffer(u)
      <4>1. DecryptAnswers(call[u], input[u]) \in SUBSET Statuses BY DEF DecryptAnswers, Statuses
      <4> QED BY <3>3, <3>5, <4>1 DEF DecryptBuffer
    <3>6. CASE InspectBuffer(u)
      <4> DEFINE a == IF DataIsNull(input[u]) THEN {"MC_ERR_INVALID_ARG"}
                      ELSE IF input[u].layers # <<>> THEN {"MC_OK"}
                      ELSE {"MC_OK", "MC_ERR_FORMAT", "MC_ERR_UNSUPPORTED", "MC_ERR_TOO_LARGE"}
      <4>1. a \in SUBSET Statuses BY DEF Statuses
      <4>2. Transform(u, "InspectBuffer", a, HeaderOf(input[u])) BY <3>6 DEF InspectBuffer
      <4> HIDE DEF a
      <4> QED BY <3>3, <4>1, <4>2
    <3>7. CASE Fill(u)
      <4>1. CASE Fail(u, "MC_ERR_INVALID_ARG") BY <3>1, <4>1 DEF Statuses
      <4>2. CASE UNCHANGED fileVars /\ Return(u, "MC_ERR_CRYPTO")
        <5>1. u = t /\ pc'[t] = "MC_ERR_CRYPTO" BY <2>2, <4>2 DEF Return
        <5>2. call[t].op = "mc_generate_key" BY <2>1, <3>7, <5>1, OneFormDraws DEF Fill
        <5> QED BY <4>2, <5>1, <5>2 DEF FailedDraw, fileVars
      <4>3. CASE /\ ~SizeRefused(call[u].in) /\ Return(u, "MC_OK")
                 /\ out' = [out EXCEPT ![u] = Drawn(call[u].in)]
        <5>1. u = t /\ pc'[t] = "MC_OK" BY <2>2, <4>3 DEF Return
        <5>2. out'[t] = Random BY <2>1, <4>3, <5>1 DEF Functions, SizeRefused, Drawn
        <5> QED BY <5>1, <5>2
      <4> QED BY <3>7, <4>1, <4>2, <4>3 DEF Fill
    <3>8. CASE WriteFileAtomically(u)
      <4>1. u = t /\ ToFile(call[t]) /\ call[t].op # "mc_generate_key"
        BY <2>1, <2>2, <3>8, FormsThatWrite, OneFormDraws DEF WriteFileAtomically, Return
      <4>2. CASE Return(u, "MC_OK") BY <2>2, <4>1, <4>2 DEF Return
      <4>3. CASE Return(u, "MC_ERR_IO") /\ file' = AfterFailedWrite(u) /\ UNCHANGED callerVars
        BY <2>2, <4>1, <4>3 DEF Return, AfterFailedWrite, callerVars
      <4> QED BY <3>8, <4>2, <4>3 DEF WriteFileAtomically, callerVars
    <3>9. CASE HandOff(u)
      <4>1. u = t /\ pc'[t] = "MC_OK" BY <2>2, <3>9 DEF HandOff, Return
      <4>2. call[t].op # "mc_generate_key"
        BY <2>1, <3>9, <4>1, OneFormDraws DEF HandOff, CallInv
      <4> QED BY <4>1, <4>2
    <3> QED BY <2>4, <3>2, <3>4, <3>5, <3>6, <3>7, <3>8, <3>9 DEF CallStep
  <2>5. ASSUME NEW u \in Callers PROVE ~(StartCall(u) \/ Collect(u) \/ mc_free(u) \/ Kill(u))
    <3>1. ~mc_free(u) BY <2>3 DEF mc_free, callVars
    <3>2. ~StartCall(u)
      <4>1. ASSUME NEW p, Goto(u, p), pc[u] = "idle" PROVE FALSE BY <2>1, <2>2, <4>1
      <4> QED BY <4>1 DEF StartCall
    <3>3. ~Collect(u) /\ ~Kill(u)
      <4>1. ~Goto(u, "idle") BY <1>1, <2>2 DEF Statuses
      <4> QED BY <4>1 DEF Collect, Kill
    <3> QED BY <3>1, <3>2, <3>3
  <2>6. ~PowerLoss BY <1>1 DEF PowerLoss, Statuses
  <2>7. ASSUME NEW p \in Paths PROVE ~Persist(p) BY <2>3 DEF Persist, callVars
  <2>8. ~UNCHANGED vars BY <2>3 DEF vars, callVars
  <2> HIDE DEF Kept
  <2> QED BY <1>1, <2>4, <2>5, <2>6, <2>7, <2>8 DEF Next
<1> DEFINE A == \A t \in Callers : pc[t] \in Steps /\ pc'[t] \in Statuses => Kept(t)
<1>2. CApiInv /\ [Next]_vars => [A]_vars BY <1>1
<1> QED BY <1>2, ApiInvariant, PTL DEF Spec, WholeOrUntouched

(***************************************************************************)
(* Whatever mc_encrypt_file agreed to write, the decrypting forms read:    *)
(* their limit covers what sealing adds to the largest plaintext           *)
(* (c_api.cc:221-224).                                                     *)
(***************************************************************************)
THEOREM SealedFilesAreRead == Spec => OpenableFilesAreRead
<1> DEFINE A(t) ==
       LET c == call[t] IN
       (/\ pc[t] = "read" /\ Decrypts(c) /\ file[c.in] # NoFile
        /\ Opens(c.key, file[c.in].bytes))
         => pc'[t] \in {"read", "transform", "MC_ERR_IO", "MC_ERR_MEMORY", "idle"}
<1>1. ASSUME CApiInv, [Next]_vars, NEW t \in Callers,
             pc[t] = "read", Decrypts(call[t]), file[call[t].in] # NoFile,
             Opens(call[t].key, file[call[t].in].bytes)
      PROVE  pc'[t] \in {"read", "transform", "MC_ERR_IO", "MC_ERR_MEMORY", "idle"}
  <2> DEFINE c == call[t]
             x == file[c.in].bytes
  <2>1. c \in Calls /\ FromFile(c) /\ c.in \in Paths /\ Functions
    BY <1>1 DEF CApiInv, CallersInv, CallInv, PathsGiven, Steps
  <2>2. Readable(x) /\ Sealed(x)
    BY <1>1, <2>1 DEF CApiInv, FilesInv, VersionInv, Opens, Sealed
  <2>3. ReadLimit(c) = kMaxFileSize
    BY <1>1, <2>1, InstanceAssumption
       DEF Decrypts, FromFile, ReadLimit, Form, Entry, mc_encrypt_buffer, mc_decrypt_buffer,
           mc_encrypt_file, mc_decrypt_file, mc_decrypt_file_to_buffer, mc_inspect_buffer,
           mc_generate_key
  <2>4. ~(Size(x) > ReadLimit(c))
    <3>1. Size(x) \in Int /\ kMaxFileSize \in Int
      <4>1. x.core \in DOMAIN CoreSize /\ Len(x.layers) \in Nat
            /\ x = [core |-> x.core, layers |-> x.layers]
        BY <2>2 DEF Readable, Contents
      <4>2. MaxPlain \in Nat /\ Framing \in Nat BY CApiAssumption
      <4>4. kMaxFileSize \in Int BY <4>2 DEF kMaxFileSize
      <4> HIDE DEF x, c
      <4>3. Size(x) \in Int BY <4>1, SizeOf
      <4> QED BY <4>3, <4>4
    <3> HIDE DEF x, c
    <3> QED BY <2>2, <2>3, <3>1 DEF Readable
  <2>5. ASSUME NEW u \in Callers, NEW p, pc' = [pc EXCEPT ![u] = p], u # t PROVE pc'[t] = "read"
    BY <1>1, <2>1, <2>5 DEF Functions
  <2>6. ASSUME NEW p, pc' = [pc EXCEPT ![t] = p] PROVE pc'[t] = p
    BY <1>1, <2>1, <2>6 DEF Functions
  <2>7. ReadFile(t) => pc'[t] \in {"transform", "MC_ERR_IO", "MC_ERR_MEMORY"}
    BY <2>4, <2>6 DEF ReadFile, Fail, Return, Goto
  <2>8. Kill(t) => pc'[t] = "idle" BY <2>6 DEF Kill, Goto
  <2>9. ~(StartCall(t) \/ EncryptBuffer(t) \/ DecryptBuffer(t) \/ InspectBuffer(t) \/ Fill(t)
          \/ WriteFileAtomically(t) \/ HandOff(t) \/ Collect(t))
    BY <1>1 DEF StartCall, EncryptBuffer, DecryptBuffer, InspectBuffer, Fill, Transform,
                WriteFileAtomically, HandOff, Collect, Statuses
  <2>10. ASSUME NEW u \in Callers, u # t, StartCall(u) \/ CallStep(u) \/ Collect(u) \/ Kill(u)
         PROVE  pc'[t] = "read"
    <3>1. PICK p : Goto(u, p)
      BY <2>10 DEF StartCall, CallStep, ReadFile, EncryptBuffer, DecryptBuffer, InspectBuffer, Fill,
                   Transform, WriteFileAtomically, HandOff, Collect, Kill, Fail, Return
    <3> QED BY <2>5, <2>10, <3>1 DEF Goto
  <2>11. ASSUME NEW u \in Callers, mc_free(u) PROVE pc' = pc BY <2>11 DEF mc_free, callVars
  <2>12. ASSUME NEW p \in Paths, Persist(p) PROVE pc' = pc BY <2>12 DEF Persist, callVars
  <2>13. PowerLoss => pc'[t] = "idle" BY DEF PowerLoss
  <2>14. UNCHANGED vars => pc' = pc BY DEF vars, callVars
  <2>15. ASSUME NEW u \in Callers, StartCall(u) \/ CallStep(u) \/ Collect(u) \/ mc_free(u) \/ Kill(u)
         PROVE  pc'[t] \in {"read", "transform", "MC_ERR_IO", "MC_ERR_MEMORY", "idle"}
    <3>1. CASE u # t BY <1>1, <2>10, <2>11, <2>15, <3>1
    <3>2. CASE u = t BY <1>1, <2>7, <2>8, <2>9, <2>11, <2>15, <3>2 DEF CallStep
    <3> QED BY <3>1, <3>2
  <2> QED BY <1>1, <2>12, <2>13, <2>14, <2>15 DEF Next
<1>2. CApiInv /\ [Next]_vars => [\A t \in Callers : A(t)]_vars BY <1>1
<1> QED BY <1>2, ApiInvariant, PTL DEF Spec, OpenableFilesAreRead
=============================================================================
