----------------------------- MODULE CliProofs ------------------------------
(***************************************************************************)
(* The tool's properties for any number of runs, any command lines, files, *)
(* keys and lines, and however the runs interleave.                        *)
(*                                                                         *)
(* The invariant has three parts.  What a run knows is a matter of its own *)
(* step, arguments, key and arrays (RunInv), so a step of another leaves   *)
(* it alone.  What a file shows is a matter of it and of the run that made *)
(* it (FileInv).  The terminal is the last run's that prompted (EchoInv).  *)
(***************************************************************************)
EXTENDS Cli, SequenceTheorems, TLAPS

----------------------------------------------------------------------------
(* The invariant.                                                          *)

\* Each part of a run's state is a function of the run.
FunctionsInv ==
  /\ pc = [p \in Processes |-> pc[p]] /\ args = [p \in Processes |-> args[p]]
  /\ key = [p \in Processes |-> key[p]] /\ stack = [p \in Processes |-> stack[p]]
  /\ given = [p \in Processes |-> given[p]]
  /\ original = [p \in Processes |-> original[p]]

Ends == {"exit 0", "exit 1", "exit 2", "killed", "killed at the prompt"}

\* What a command line has to be for its run to be at a step.
ArgsFit(step, a) ==
  /\ step \in Steps \cup Ends
  /\ \A o \in {"--in", "--out", "--key-file"} : a.value[o] \in Paths \cup {""}
  /\ step \in {"load", "prompt", "line", "library"} =>
       a.command \in {"encrypt", "decrypt"} /\ Given(a, "--in") /\ Given(a, "--out")
  /\ step = "load" /\ a.command = "encrypt" => OptionsAreValid(a)
  /\ step \in {"prompt", "line"} => ~Given(a, "--key-file") /\ ~Given(a, "--key-env")
  /\ step \in {"generate", "create", "write"} => a.command = "keygen"

\* What the array of a run holds at a step.
StackFits(step, s, g) ==
  /\ s \in Seq(Byte)
  /\ step \in {"start", "load", "prompt", "library", "inspect", "generate", "exit 0"} => s = None
  /\ step = "line" => s = Bytes(g, kMaxKeyFileSize)
  /\ step \in {"create", "write"} => s \in RawKeys

\* What a run's key has to do with its source.
KeyFits(step, a, k, g) ==
  /\ g \in Seq(Byte)
  /\ step \in {"start", "load", "prompt", "inspect", "generate", "create", "write"} => g = None
  /\ step = "line" => g \in Typed \cup {None}
  /\ k # None => step = "library"
  /\ step = "library" /\ Plain(a, g) => k = Meant(a, g)
  /\ step = "exit 2" /\ g # None /\ UsableKey(a, g) =>
       Len(Meant(a, g)) < MC_MIN_KEY_SIZE \/ TooLong(a, g)

Fits(step, a, k, s, g) == ArgsFit(step, a) /\ StackFits(step, s, g) /\ KeyFits(step, a, k, g)
RunInv == \A p \in Processes : Fits(pc[p], args[p], key[p], stack[p], given[p])

\* The file f at q shows where the run that made it is, and what it did.
Shows(f, q, step, a, s) ==
  /\ q = a.value["--out"] /\ step \in {"write", "exit 0", "exit 1", "killed"}
  /\ step # "write" => s = None
  /\ step = "exit 1" => a.command = "keygen" /\ Len(f.text) < Generated
  /\ step = "exit 0" /\ a.command = "keygen" => f.text \in RawKeys /\ f.mode = "0600"
FileInv ==
  /\ file = [q \in Paths |-> file[q]]
  /\ \A q \in Paths : file[q] # NoFile =>
       /\ file[q].text \in Seq(Byte)
       /\ \A p \in Processes : file[q].by = p => Shows(file[q], q, pc[p], args[p], stack[p])

\* Who prompts found an echoing terminal, unless a run died at its prompt.
EchoInv ==
  /\ \A p, q \in Processes : Prompting(p) /\ Prompting(q) => p = q
  /\ (\A p \in Processes : pc[p] # "killed at the prompt") =>
       /\ (\A p \in Processes : ~Prompting(p)) => echo = TRUE
       /\ \A p \in Processes : Prompting(p) => original[p] = TRUE

CliInv == FunctionsInv /\ RunInv /\ FileInv /\ EchoInv
----------------------------------------------------------------------------
(* Steps of one run.                                                       *)

Step(p) ==
  \/ Start(p) \/ ReadKeyFile(p) \/ ReadKeyEnv(p) \/ ReadKeyPrompt(p) \/ LoadKeyFails(p)
  \/ fgets(p) \/ FinishPrompt(p) \/ mc_encrypt_file(p) \/ mc_decrypt_file(p) \/ LibraryFails(p)
  \/ RunInspect(p) \/ mc_generate_key(p) \/ Create(p) \/ Write(p) \/ Kill(p)

\* g is f but at p.
OnlyAt(f, g, p) ==
  g = [q \in Processes |-> g[q]] /\ \A q \in Processes \ {p} : g[q] = f[q]

LEMMA ChangedAt ==
  ASSUME NEW f, NEW g, NEW p \in Processes, NEW v, f = [q \in Processes |-> f[q]],
         g = [f EXCEPT ![p] = v]
  PROVE  OnlyAt(f, g, p) /\ g[p] = v
BY DEF OnlyAt

LEMMA SameAt ==
  ASSUME NEW f, NEW g, NEW p \in Processes, f = [q \in Processes |-> f[q]], g = f
  PROVE  OnlyAt(f, g, p) /\ g[p] = f[p]
BY DEF OnlyAt

OthersStay(p) ==
  /\ OnlyAt(pc, pc', p) /\ OnlyAt(args, args', p) /\ OnlyAt(key, key', p)
  /\ OnlyAt(stack, stack', p) /\ OnlyAt(given, given', p) /\ OnlyAt(original, original', p)

LEMMA GotoStep ==
  ASSUME FunctionsInv, NEW p \in Processes, NEW step, Goto(p, step)
  PROVE  OnlyAt(pc, pc', p) /\ pc'[p] = step
BY ChangedAt DEF Goto, FunctionsInv

LEMMA ExitStep ==
  ASSUME FunctionsInv, NEW p \in Processes, NEW code, Exit(p, code)
  PROVE  OnlyAt(pc, pc', p) /\ pc'[p] = code /\ OnlyAt(key, key', p) /\ key'[p] = None
BY GotoStep, ChangedAt DEF Exit, FunctionsInv

LEMMA QuitStep ==
  ASSUME FunctionsInv, NEW p \in Processes, NEW code, Quit(p, code)
  PROVE  /\ OthersStay(p) /\ pc'[p] = code /\ key'[p] = None
         /\ UNCHANGED <<file, echo, args, stack, given, original>>
BY ExitStep, SameAt DEF Quit, OthersStay, FunctionsInv, fileVars

LEMMA UseKeyStep ==
  ASSUME FunctionsInv, NEW p \in Processes, NEW k, UseKey(p, k)
  PROVE  /\ OnlyAt(pc, pc', p) /\ OnlyAt(key, key', p)
         /\ \/ TooShort(k) /\ pc'[p] = "exit 2" /\ key'[p] = None
            \/ ~TooShort(k) /\ pc'[p] = "library" /\ key'[p] = k
<1>1. CASE TooShort(k)
  BY <1>1, ExitStep DEF UseKey
<1>2. CASE ~TooShort(k)
  BY <1>2, GotoStep, ChangedAt DEF UseKey, FunctionsInv
<1> QED BY <1>1, <1>2
----------------------------------------------------------------------------
(* What a step leaves alone.                                               *)

LEMMA RunsKept ==
  ASSUME CliInv, NEW p \in Processes, OthersStay(p),
         Fits(pc[p], args[p], key[p], stack[p], given[p])'
  PROVE  FunctionsInv' /\ RunInv'
<1>1. FunctionsInv'
  BY DEF OthersStay, OnlyAt, FunctionsInv
<1>2. ASSUME NEW q \in Processes
      PROVE  Fits(pc[q], args[q], key[q], stack[q], given[q])'
  <2>1. CASE q = p
    BY <2>1
  <2>2. CASE q # p
    <3>1. /\ pc'[q] = pc[q] /\ args'[q] = args[q] /\ key'[q] = key[q]
          /\ stack'[q] = stack[q] /\ given'[q] = given[q]
      BY <2>2 DEF OthersStay, OnlyAt
    <3>2. Fits(pc[q], args[q], key[q], stack[q], given[q])
      BY DEF CliInv, RunInv
    <3> QED BY <3>1, <3>2
  <2> QED BY <2>1, <2>2
<1> QED BY <1>1, <1>2 DEF RunInv

\* Only a run that is writing, or has ended, has made a file.
LEMMA FilesKept ==
  ASSUME CliInv, NEW p \in Processes, OthersStay(p), file' = file,
         pc[p] \notin {"write", "exit 0", "exit 1", "killed"}
  PROVE  FileInv'
<1>1. ASSUME NEW q \in Paths, file[q] # NoFile, NEW r \in Processes, file[q].by = r
      PROVE  Shows(file[q], q, pc[r], args[r], stack[r])'
  <2>1. Shows(file[q], q, pc[r], args[r], stack[r])
    BY <1>1 DEF CliInv, FileInv
  <2>2. r # p
    BY <2>1 DEF Shows
  <2>3. pc'[r] = pc[r] /\ args'[r] = args[r] /\ stack'[r] = stack[r]
    BY <2>2 DEF OthersStay, OnlyAt
  <2> QED BY <2>1, <2>3
<1> QED BY <1>1 DEF CliInv, FileInv

LEMMA EchoKept ==
  ASSUME CliInv, NEW p \in Processes, OthersStay(p), echo' = echo,
         Prompting(p)' <=> Prompting(p), Prompting(p) => original' = original,
         pc[p] # "killed at the prompt"
  PROVE  EchoInv'
<1>1. \A q \in Processes : q # p => pc'[q] = pc[q] /\ original'[q] = original[q]
  BY DEF OthersStay, OnlyAt
<1>2. \A q \in Processes : Prompting(q)' <=> Prompting(q)
  BY <1>1 DEF Prompting
<1>3. \A q \in Processes : Prompting(q) => original'[q] = original[q]
  BY <1>1
<1>4. (\A q \in Processes : pc'[q] # "killed at the prompt")
        => \A q \in Processes : pc[q] # "killed at the prompt"
  BY <1>1
<1> QED BY <1>2, <1>3, <1>4 DEF CliInv, EchoInv

\* The step of a run that holds no key, is not at the prompt, and ends.
LEMMA QuitKeeps ==
  ASSUME CliInv, NEW p \in Processes, NEW code \in {"exit 0", "exit 1", "exit 2"},
         Quit(p, code), pc[p] \in {"load", "library", "inspect", "generate", "create"},
         code = "exit 0" => pc[p] = "inspect", code = "exit 2" => pc[p] = "load"
  PROVE  CliInv'
<1>1. /\ OthersStay(p) /\ pc'[p] = code /\ key'[p] = None
      /\ UNCHANGED <<file, echo, args, stack, given, original>>
  BY QuitStep DEF CliInv
<1>2. Fits(pc[p], args[p], key[p], stack[p], given[p])
  BY DEF CliInv, RunInv
<1>3. ArgsFit(pc[p], args[p])'
  BY <1>1, <1>2 DEF Fits, ArgsFit, Ends
<1>4. StackFits(pc[p], stack[p], given[p])'
  BY <1>1, <1>2 DEF Fits, StackFits
<1>5. KeyFits(pc[p], args[p], key[p], given[p])'
  BY <1>1, <1>2 DEF Fits, KeyFits
<1>6. FunctionsInv' /\ RunInv'
  BY <1>1, <1>3, <1>4, <1>5, RunsKept DEF Fits
<1>7. FileInv'
  BY <1>1, FilesKept
<1>8. EchoInv'
  BY <1>1, EchoKept DEF Prompting
<1> QED BY <1>6, <1>7, <1>8 DEF CliInv

----------------------------------------------------------------------------
(* Texts.                                                                  *)

LEMMA NoneIsText == None \in Seq(Byte)
BY DEF None

\* An empty array fits, but at the steps that have filled theirs.
LEMMA EmptyStackFits ==
  ASSUME NEW step, NEW g, step \notin {"line", "create", "write"}
  PROVE  StackFits(step, None, g)
BY NoneIsText DEF StackFits

LEMMA BytesOfText ==
  ASSUME NEW t \in Seq(Byte), NEW n \in Nat
  PROVE  /\ Bytes(t, n) \in Seq(Byte)
         /\ Len(Bytes(t, n)) = IF n < Len(t) THEN n ELSE Len(t)
         /\ \A i \in 1..Len(Bytes(t, n)) : Bytes(t, n)[i] = t[i]
         /\ Len(t) <= n => Bytes(t, n) = t
<1> DEFINE m == IF n < Len(t) THEN n ELSE Len(t)
<1>1. m \in Nat /\ m <= Len(t)
  OBVIOUS
<1>2. \A i \in 1..m : t[i] \in Byte
  BY <1>1
<1>3. Bytes(t, n) = SubSeq(t, 1, m)
  BY DEF Bytes
<1>4. Len(t) <= n => m = Len(t)
  OBVIOUS
<1> HIDE DEF m
<1>5. /\ SubSeq(t, 1, m) \in Seq(Byte) /\ Len(SubSeq(t, 1, m)) = m
      /\ \A i \in 1..m : SubSeq(t, 1, m)[i] = t[i]
  BY <1>1, <1>2, SubSeqProperties
<1>6. SubSeq(t, 1, Len(t)) = t
  BY SubSeqFull
<1> QED BY <1>3, <1>4, <1>5, <1>6 DEF m

LEMMA FrontOfText ==
  ASSUME NEW t \in Seq(Byte), t # <<>>
  PROVE  /\ Front(t) \in Seq(Byte) /\ Len(Front(t)) = Len(t) - 1
         /\ \A i \in 1..(Len(t) - 1) : Front(t)[i] = t[i]
<1> DEFINE m == Len(t) - 1
<1>1. m \in Nat /\ m <= Len(t)
  OBVIOUS
<1>2. \A i \in 1..m : t[i] \in Byte
  BY <1>1
<1>3. Front(t) = SubSeq(t, 1, m)
  BY DEF Front
<1> HIDE DEF m
<1>4. /\ SubSeq(t, 1, m) \in Seq(Byte) /\ Len(SubSeq(t, 1, m)) = m
      /\ \A i \in 1..m : SubSeq(t, 1, m)[i] = t[i]
  BY <1>1, <1>2, SubSeqProperties
<1> QED BY <1>3, <1>4 DEF m

\* Stripping takes two bytes at most.
LEMMA StripTakesTwo ==
  ASSUME NEW t \in Seq(Byte)
  PROVE  /\ StripOneTrailingNewline(t) \in Seq(Byte)
         /\ Len(StripOneTrailingNewline(t)) >= Len(t) - 2
<1>1. CASE t = <<>> \/ Last(t) # LF
  BY <1>1 DEF StripOneTrailingNewline, None
<1>2. CASE t # <<>> /\ Last(t) = LF /\ Len(t) > 1 /\ t[Len(t) - 1] = CR
  <2>1. Front(t) \in Seq(Byte) /\ Len(Front(t)) = Len(t) - 1
    BY <1>2, FrontOfText
  <2>2. Front(t) # <<>>
    BY <1>2, <2>1
  <2>3. Front(Front(t)) \in Seq(Byte) /\ Len(Front(Front(t))) = Len(Front(t)) - 1
    BY <2>1, <2>2, FrontOfText
  <2>4. StripOneTrailingNewline(t) = Front(Front(t))
    BY <1>2 DEF StripOneTrailingNewline, None
  <2> QED BY <2>1, <2>3, <2>4
<1>3. CASE t # <<>> /\ Last(t) = LF /\ ~(Len(t) > 1 /\ t[Len(t) - 1] = CR)
  <2>1. Front(t) \in Seq(Byte) /\ Len(Front(t)) = Len(t) - 1
    BY <1>3, FrontOfText
  <2>2. StripOneTrailingNewline(t) = Front(t)
    BY <1>3 DEF StripOneTrailingNewline, None
  <2> QED BY <2>1, <2>2
<1> QED BY <1>1, <1>2, <1>3

\* On a plain text that is not a variable's, it does what is meant.
LEMMA StripIsMeant ==
  ASSUME NEW a, NEW t \in Seq(Byte), ~Given(a, "--key-env"), Plain(a, t)
  PROVE  StripOneTrailingNewline(t) = Meant(a, t)
BY DEF Plain, StripOneTrailingNewline, Meant

\* A file that is read to its end, within the limit, is read whole.
LEMMA WholeFileIsRead ==
  ASSUME NEW t \in Seq(Byte), NEW n \in Nat,
         n = Len(Bytes(t, kMaxKeyFileSize + 1)), n <= kMaxKeyFileSize
  PROVE  Bytes(Bytes(t, kMaxKeyFileSize + 1), n) = t
<1>1. kMaxKeyFileSize \in Nat /\ kMaxKeyFileSize + 1 \in Nat
  BY CliAssumption
<1>2. Len(t) <= kMaxKeyFileSize + 1
  BY <1>1, BytesOfText
<1>3. Bytes(t, kMaxKeyFileSize + 1) = t
  BY <1>1, <1>2, BytesOfText
<1> QED BY <1>3, BytesOfText
----------------------------------------------------------------------------
(* The command line.                                                       *)

LEMMA InitKeeps == Init => CliInv
<1> SUFFICES ASSUME Init PROVE CliInv
  OBVIOUS
<1>1. FunctionsInv
  BY DEF Init, FunctionsInv
<1>2. NoArgs.command = "" /\ \A o \in {"--in", "--out", "--key-file"} : NoArgs.value[o] = ""
  BY DEF NoArgs, ValueOptions
<1>3. None \in Seq(Byte)
  BY DEF None
<1>4. ArgsFit("start", NoArgs)
  BY <1>2 DEF ArgsFit, Steps
<1>5. Fits("start", NoArgs, None, None, None)
  BY <1>3, <1>4 DEF Fits, StackFits, KeyFits
<1>6. RunInv
  BY <1>5 DEF Init, RunInv
<1>7. file = [q \in Paths |-> file[q]]
  BY DEF Init
<1>8. ASSUME NEW q \in Paths, file[q] # NoFile
      PROVE  file[q].text \in Seq(Byte) /\ file[q].by = NoFile
  <2>1. file[q] = IF Original[q] = NoFile THEN NoFile
                  ELSE [text |-> Original[q], seals |-> None, mode |-> "0644", by |-> NoFile]
    BY DEF Init
  <2> QED BY <1>8, <2>1, TextAssumption
<1>9. FileInv
  BY <1>7, <1>8, CliAssumption DEF FileInv
<1>10. EchoInv
  BY DEF Init, EchoInv, Prompting
<1> QED BY <1>1, <1>6, <1>9, <1>10 DEF CliInv

LEMMA StartKeeps ==
  ASSUME CliInv, NEW p \in Processes, Start(p)
  PROVE  CliInv'
<1>1. PICK argv \in CommandLines[p] :
        /\ args' = [args EXCEPT ![p] = ParseArgs(argv)]
        /\ Goto(p, Run(ParseArgs(argv))) \/ Goto(p, "exit 1")
  BY DEF Start
<1> DEFINE a == ParseArgs(argv)
<1>2. pc[p] = "start" /\ UNCHANGED <<file, echo, key, stack, given, original>>
  BY DEF Start, fileVars
<1>3. OthersStay(p) /\ args'[p] = a /\ (pc'[p] = Run(a) \/ pc'[p] = "exit 1")
  BY <1>1, <1>2, GotoStep, ChangedAt, SameAt DEF OthersStay, CliInv, FunctionsInv
<1>4. key'[p] = None /\ stack'[p] = None /\ given'[p] = None
  BY <1>2 DEF CliInv, RunInv, Fits, StackFits, KeyFits
<1>5. \A o \in {"--in", "--out", "--key-file"} : a.value[o] \in Paths \cup {""}
  BY PathAssumption
<1> HIDE DEF a
<1>6. /\ pc'[p] \in {"generate", "load", "inspect", "exit 0", "exit 1", "exit 2"}
      /\ pc'[p] = "generate" => a.command = "keygen"
      /\ pc'[p] = "load" =>
           /\ a.command \in {"encrypt", "decrypt"} /\ Given(a, "--in") /\ Given(a, "--out")
           /\ a.command = "encrypt" => OptionsAreValid(a)
  BY <1>3 DEF Run, RequirePaths
<1>7. ArgsFit(pc[p], args[p])'
  BY <1>3, <1>5, <1>6 DEF ArgsFit, Steps, Ends
<1>8. StackFits(pc[p], stack[p], given[p])'
  BY <1>4, <1>6, EmptyStackFits
<1>9. KeyFits(pc[p], args[p], key[p], given[p])'
  BY <1>4, <1>6, NoneIsText DEF KeyFits
<1>10. FunctionsInv' /\ RunInv'
  BY <1>3, <1>7, <1>8, <1>9, RunsKept DEF Fits
<1>11. FileInv'
  BY <1>2, <1>3, FilesKept
<1>12. EchoInv'
  BY <1>2, <1>3, <1>6, EchoKept DEF Prompting
<1> QED BY <1>10, <1>11, <1>12 DEF CliInv

----------------------------------------------------------------------------
(* The sources of keys.                                                    *)

\* After a source was read: a fitting key, or a refusal that can be told.
LEMMA SourceKeeps ==
  ASSUME CliInv, NEW p \in Processes, OthersStay(p), args' = args, file' = file,
         pc[p] \in {"load", "line"}, pc'[p] \in {"library", "exit 2"},
         StackFits(pc[p], stack[p], given[p])', KeyFits(pc[p], args[p], key[p], given[p])'
  PROVE  FunctionsInv' /\ RunInv' /\ FileInv'
<1>1. ArgsFit(pc[p], args[p])
  BY DEF CliInv, RunInv, Fits
<1>2. ArgsFit(pc[p], args[p])'
  BY <1>1 DEF ArgsFit, Steps, Ends
<1>3. FunctionsInv' /\ RunInv'
  BY <1>2, RunsKept DEF Fits
<1>4. FileInv'
  BY FilesKept
<1> QED BY <1>3, <1>4

LEMMA ReadKeyFileKeeps ==
  ASSUME CliInv, NEW p \in Processes, ReadKeyFile(p)
  PROVE  CliInv'
<1> DEFINE a == args[p]
           path == a.value["--key-file"]
           text == file[path].text
           buffer == Bytes(text, kMaxKeyFileSize + 1)
<1>1. /\ pc[p] = "load" /\ Given(a, "--key-file") /\ ~Given(a, "--key-env")
      /\ file[path] # NoFile /\ given' = [given EXCEPT ![p] = text]
      /\ UNCHANGED <<file, echo, args, original>>
  BY DEF ReadKeyFile, fileVars
<1>2. PICK n \in 0..Len(buffer) :
        /\ n < Len(buffer) => path \in ReadErrors
        /\ IF n > kMaxKeyFileSize
           THEN Exit(p, "exit 2") /\ stack' = [stack EXCEPT ![p] = buffer]
           ELSE /\ UseKey(p, StripOneTrailingNewline(Bytes(buffer, n)))
                /\ stack' = [stack EXCEPT ![p] = SecureZero(buffer)]
  BY DEF ReadKeyFile
<1>3. path \in Paths
  BY <1>1 DEF CliInv, RunInv, Fits, ArgsFit, Given
<1>4. text \in Seq(Byte)
  BY <1>1, <1>3 DEF CliInv, FileInv
<1> HIDE DEF text
<1>5. kMaxKeyFileSize \in Nat /\ kMaxKeyFileSize + 1 \in Nat
  BY CliAssumption
<1>6. /\ buffer \in Seq(Byte) /\ Len(buffer) \in Nat
      /\ Len(buffer) > kMaxKeyFileSize => Len(text) > kMaxKeyFileSize
  BY <1>4, <1>5, BytesOfText
<1> HIDE DEF buffer
<1>7. /\ given'[p] = text /\ OnlyAt(given, given', p)
      /\ OnlyAt(args, args', p) /\ OnlyAt(original, original', p) /\ args'[p] = a
  BY <1>1, ChangedAt, SameAt DEF CliInv, FunctionsInv
<1> HIDE DEF a
<1>8. CASE n > kMaxKeyFileSize
  <2>1. /\ OnlyAt(pc, pc', p) /\ OnlyAt(key, key', p) /\ OnlyAt(stack, stack', p)
        /\ pc'[p] = "exit 2" /\ key'[p] = None /\ stack'[p] = buffer
    BY <1>2, <1>8, ExitStep, ChangedAt DEF CliInv, FunctionsInv
  <2>2. OthersStay(p)
    BY <1>7, <2>1 DEF OthersStay
  <2>3. Len(text) > kMaxKeyFileSize
    BY <1>5, <1>6, <1>8
  <2>4. KeyFits(pc[p], args[p], key[p], given[p])'
    BY <1>4, <1>7, <2>1, <2>3 DEF KeyFits, TooLong
  <2>5. StackFits(pc[p], stack[p], given[p])'
    BY <1>6, <2>1 DEF StackFits
  <2>6. FunctionsInv' /\ RunInv' /\ FileInv'
    BY <1>1, <2>1, <2>2, <2>4, <2>5, SourceKeeps
  <2>7. EchoInv'
    BY <1>1, <2>1, <2>2, EchoKept DEF Prompting
  <2> QED BY <2>6, <2>7 DEF CliInv
<1>9. CASE ~(n > kMaxKeyFileSize)
  <2> DEFINE k == StripOneTrailingNewline(Bytes(buffer, n))
  <2>1. UseKey(p, k) /\ stack' = [stack EXCEPT ![p] = None]
    BY <1>2, <1>9 DEF SecureZero
  <2>2. Readable(a) => k = StripOneTrailingNewline(text)
    <3>1. SUFFICES ASSUME Readable(a) PROVE Bytes(buffer, n) = text
      OBVIOUS
    <3>2. n = Len(buffer) /\ n <= kMaxKeyFileSize /\ n \in Nat
      BY <1>2, <1>5, <1>6, <1>9, <3>1 DEF Readable
    <3> QED BY <1>4, <3>2, WholeFileIsRead DEF buffer
  <2> HIDE DEF k
  <2>3. /\ OnlyAt(pc, pc', p) /\ OnlyAt(key, key', p) /\ OnlyAt(stack, stack', p)
        /\ stack'[p] = None
        /\ \/ TooShort(k) /\ pc'[p] = "exit 2" /\ key'[p] = None
           \/ ~TooShort(k) /\ pc'[p] = "library" /\ key'[p] = k
    BY <2>1, UseKeyStep, ChangedAt DEF CliInv, FunctionsInv
  <2>4. OthersStay(p)
    BY <1>7, <2>3 DEF OthersStay
  <2>5. Plain(a, text) => k = Meant(a, text)
    BY <1>1, <1>4, <2>2, StripIsMeant DEF Plain, a
  <2>6. UsableKey(a, text) /\ TooShort(k) => Len(Meant(a, text)) < MC_MIN_KEY_SIZE
    <3>1. Plain(a, text) /\ TooShort(k) => Len(Meant(a, text)) < MC_MIN_KEY_SIZE
      BY <2>5 DEF TooShort
    <3>2. ~(FromKeygen(a, text) /\ TooShort(k))
      <4>1. SUFFICES ASSUME FromKeygen(a, text) PROVE ~TooShort(k)
        OBVIOUS
      <4>2. Len(text) - 2 >= MC_MIN_KEY_SIZE
        BY <4>1, CliAssumption DEF FromKeygen
      <4>3. k = StripOneTrailingNewline(text)
        BY <2>2, <4>1 DEF FromKeygen
      <4>4. k \in Seq(Byte) /\ Len(k) >= Len(text) - 2
        BY <1>4, <4>3, StripTakesTwo
      <4>5. Len(k) \in Nat /\ Len(text) \in Nat /\ MC_MIN_KEY_SIZE \in Nat
        BY <1>4, <4>4, CliAssumption
      <4> QED BY <4>2, <4>4, <4>5 DEF TooShort
    <3> QED BY <3>1, <3>2 DEF UsableKey
  <2>7. KeyFits(pc[p], args[p], key[p], given[p])'
    BY <1>4, <1>7, <2>3, <2>5, <2>6 DEF KeyFits
  <2>8. StackFits(pc[p], stack[p], given[p])'
    BY <2>3, EmptyStackFits
  <2>9. FunctionsInv' /\ RunInv' /\ FileInv'
    BY <1>1, <2>3, <2>4, <2>7, <2>8, SourceKeeps
  <2>10. EchoInv'
    BY <1>1, <2>3, <2>4, EchoKept DEF Prompting
  <2> QED BY <2>9, <2>10 DEF CliInv
<1> QED BY <1>8, <1>9
LEMMA ReadKeyEnvKeeps ==
  ASSUME CliInv, NEW p \in Processes, ReadKeyEnv(p)
  PROVE  CliInv'
<1> DEFINE a == args[p]
           value == Environment[a.value["--key-env"]]
<1>1. /\ pc[p] = "load" /\ Given(a, "--key-env") /\ ~Given(a, "--key-file")
      /\ value \in Seq(Byte) /\ given' = [given EXCEPT ![p] = value]
      /\ UNCHANGED <<file, echo, args, stack, original>>
  BY TextAssumption DEF ReadKeyEnv, VariableIsSet, fileVars
<1>2. IF Len(value) > kMaxKeyFileSize THEN Exit(p, "exit 2") ELSE UseKey(p, value)
  BY DEF ReadKeyEnv
<1> HIDE DEF value
<1>3. /\ given'[p] = value /\ OnlyAt(given, given', p) /\ OnlyAt(stack, stack', p)
      /\ OnlyAt(args, args', p) /\ OnlyAt(original, original', p) /\ args'[p] = a
  BY <1>1, ChangedAt, SameAt DEF CliInv, FunctionsInv
<1>4. stack'[p] = None
  BY <1>1 DEF CliInv, RunInv, Fits, StackFits
<1>5. Meant(a, value) = value
  BY <1>1 DEF Meant
<1> HIDE DEF a
<1>6. /\ OnlyAt(pc, pc', p) /\ OnlyAt(key, key', p)
      /\ \/ pc'[p] = "exit 2" /\ key'[p] = None
            /\ (TooShort(value) \/ Len(value) > kMaxKeyFileSize)
         \/ pc'[p] = "library" /\ key'[p] = value
  <2>1. CASE Len(value) > kMaxKeyFileSize
    BY <1>2, <2>1, ExitStep DEF CliInv
  <2>2. CASE ~(Len(value) > kMaxKeyFileSize)
    BY <1>2, <2>2, UseKeyStep DEF CliInv
  <2> QED BY <2>1, <2>2
<1>7. OthersStay(p)
  BY <1>3, <1>6 DEF OthersStay
<1>8. KeyFits(pc[p], args[p], key[p], given[p])'
  BY <1>1, <1>3, <1>5, <1>6 DEF KeyFits, TooShort, TooLong
<1>9. StackFits(pc[p], stack[p], given[p])'
  BY <1>4, <1>6, EmptyStackFits
<1>10. FunctionsInv' /\ RunInv' /\ FileInv'
  BY <1>1, <1>6, <1>7, <1>8, <1>9, SourceKeeps
<1>11. EchoInv'
  BY <1>1, <1>6, <1>7, EchoKept DEF Prompting
<1> QED BY <1>10, <1>11 DEF CliInv

LEMMA LoadKeyFailsKeeps ==
  ASSUME CliInv, NEW p \in Processes, LoadKeyFails(p)
  PROVE  CliInv'
BY QuitKeeps DEF LoadKeyFails

LEMMA ReadKeyPromptKeeps ==
  ASSUME CliInv, NEW p \in Processes, ReadKeyPrompt(p)
  PROVE  CliInv'
<1>1. /\ pc[p] = "load" /\ ~Given(args[p], "--key-file") /\ ~Given(args[p], "--key-env")
      /\ TerminalIsMine(p) /\ Goto(p, "prompt")
      /\ original' = [original EXCEPT ![p] = echo] /\ echo' = FALSE
      /\ UNCHANGED <<file, args, key, stack, given>>
  BY DEF ReadKeyPrompt
<1>2. OthersStay(p) /\ pc'[p] = "prompt" /\ original'[p] = echo
  BY <1>1, GotoStep, ChangedAt, SameAt DEF OthersStay, CliInv, FunctionsInv
<1>3. Fits(pc[p], args[p], key[p], stack[p], given[p])
  BY DEF CliInv, RunInv
<1>4. stack'[p] = None /\ key'[p] = None /\ given'[p] = None
  BY <1>1, <1>3 DEF Fits, StackFits, KeyFits
<1>5. ArgsFit(pc[p], args[p])'
  BY <1>1, <1>2, <1>3 DEF Fits, ArgsFit, Steps
<1>6. KeyFits(pc[p], args[p], key[p], given[p])'
  BY <1>2, <1>4, NoneIsText DEF KeyFits
<1>7. StackFits(pc[p], stack[p], given[p])'
  BY <1>2, <1>4, EmptyStackFits
<1>8. FunctionsInv' /\ RunInv'
  BY <1>2, <1>5, <1>6, <1>7, RunsKept DEF Fits
<1>9. FileInv'
  BY <1>1, <1>2, FilesKept
<1>10. EchoInv'
  <2>1. \A q \in Processes : Prompting(q)' <=> q = p
    BY <1>1, <1>2 DEF TerminalIsMine, Prompting, OthersStay, OnlyAt
  <2>2. \A q \in Processes : ~Prompting(q)
    BY <1>1 DEF TerminalIsMine, Prompting
  <2>3. (\A q \in Processes : pc'[q] # "killed at the prompt") => original'[p] = TRUE
    <3>1. SUFFICES ASSUME \A q \in Processes : pc'[q] # "killed at the prompt"
                   PROVE  echo = TRUE
      BY <1>2
    <3>2. \A q \in Processes : pc[q] # "killed at the prompt"
      BY <1>1, <1>2, <3>1 DEF OthersStay, OnlyAt
    <3> QED BY <2>2, <3>2 DEF CliInv, EchoInv
  <2> QED BY <2>1, <2>3 DEF EchoInv
<1> QED BY <1>8, <1>9, <1>10 DEF CliInv

LEMMA fgetsKeeps ==
  ASSUME CliInv, NEW p \in Processes, fgets(p)
  PROVE  CliInv'
<1>1. PICK text \in Typed \cup {None} :
        /\ given' = [given EXCEPT ![p] = text]
        /\ stack' = [stack EXCEPT ![p] = Bytes(text, kMaxKeyFileSize)]
  BY DEF fgets
<1>2. pc[p] = "prompt" /\ Goto(p, "line") /\ UNCHANGED <<file, echo, args, key, original>>
  BY DEF fgets, fileVars
<1>3. OthersStay(p) /\ pc'[p] = "line" /\ given'[p] = text
      /\ stack'[p] = Bytes(text, kMaxKeyFileSize)
  BY <1>1, <1>2, GotoStep, ChangedAt, SameAt DEF OthersStay, CliInv, FunctionsInv
<1>4. Fits(pc[p], args[p], key[p], stack[p], given[p])
  BY DEF CliInv, RunInv
<1>5. text \in Seq(Byte)
  BY TextAssumption, NoneIsText
<1>6. Bytes(text, kMaxKeyFileSize) \in Seq(Byte)
  BY <1>5, BytesOfText, CliAssumption
<1>7. ArgsFit(pc[p], args[p])'
  BY <1>2, <1>3, <1>4 DEF Fits, ArgsFit, Steps
<1>8. key'[p] = None
  BY <1>2, <1>4 DEF Fits, KeyFits
<1>9. KeyFits(pc[p], args[p], key[p], given[p])'
  BY <1>3, <1>5, <1>8 DEF KeyFits
<1>10. StackFits(pc[p], stack[p], given[p])'
  BY <1>3, <1>6 DEF StackFits
<1>11. FunctionsInv' /\ RunInv'
  BY <1>3, <1>7, <1>9, <1>10, RunsKept DEF Fits
<1>12. FileInv'
  BY <1>2, <1>3, FilesKept
<1>13. EchoInv'
  BY <1>2, <1>3, EchoKept DEF Prompting
<1> QED BY <1>11, <1>12, <1>13 DEF CliInv

\* A plain line is in the array whole, unless the array is full without an end.
LEMMA PlainLineIsWhole ==
  ASSUME NEW a, NEW g \in Typed \cup {None}, Plain(a, g)
  PROVE  LET line == UpToNul(Bytes(g, kMaxKeyFileSize)) IN
         /\ line = Bytes(g, kMaxKeyFileSize)
         /\ Len(line) = kMaxKeyFileSize /\ Last(line) # LF =>
              Len(g) > kMaxKeyFileSize \/ (Len(g) = kMaxKeyFileSize /\ Last(g) # LF)
         /\ ~(Len(line) = kMaxKeyFileSize /\ Last(line) # LF) => line = g
<1> DEFINE line == Bytes(g, kMaxKeyFileSize)
<1>1. g \in Seq(Byte) /\ kMaxKeyFileSize \in Nat /\ kMaxKeyFileSize > 0
  BY TextAssumption, CliAssumption, NoneIsText
<1>2. /\ line \in Seq(Byte)
      /\ Len(line) = IF kMaxKeyFileSize < Len(g) THEN kMaxKeyFileSize ELSE Len(g)
      /\ \A i \in 1..Len(line) : line[i] = g[i]
      /\ Len(g) <= kMaxKeyFileSize => line = g
  BY <1>1, BytesOfText
<1> HIDE DEF line
<1>3. Len(line) <= Len(g)
  BY <1>1, <1>2
<1>4. ~Contains(line, NUL)
  BY <1>1, <1>2, <1>3 DEF Plain, Contains
<1>5. UpToNul(line) = line
  BY <1>4 DEF UpToNul
<1>6. Len(g) > kMaxKeyFileSize => Len(line) = kMaxKeyFileSize /\ Last(line) # LF
  <2>1. SUFFICES ASSUME Len(g) > kMaxKeyFileSize PROVE Last(line) # LF
    BY <1>1, <1>2
  <2>2. g # None /\ kMaxKeyFileSize \in 1..(Len(g) - 1)
    BY <1>1, <2>1 DEF None
  <2>3. g[kMaxKeyFileSize] # LF
    BY <2>2, TextAssumption
  <2>4. Len(line) = kMaxKeyFileSize /\ line[kMaxKeyFileSize] = g[kMaxKeyFileSize]
    BY <1>1, <1>2, <2>1
  <2> QED BY <2>3, <2>4 DEF Last
<1>7. Len(g) > kMaxKeyFileSize \/ line = g
  BY <1>1, <1>2
<1> QED BY <1>5, <1>6, <1>7 DEF line

LEMMA FinishPromptKeeps ==
  ASSUME CliInv, NEW p \in Processes, FinishPrompt(p)
  PROVE  CliInv'
<1> DEFINE a == args[p]
           g == given[p]
           line == UpToNul(stack[p])
           Full == Len(line) = kMaxKeyFileSize /\ Last(line) # LF
           k == StripOneTrailingNewline(line)
<1>1. /\ pc[p] = "line" /\ echo' = original[p]
      /\ \/ (stack[p] = None \/ Full) /\ Exit(p, "exit 2")
         \/ ~Full /\ stack[p] # None /\ UseKey(p, k)
      /\ stack' = [stack EXCEPT ![p] = None] /\ UNCHANGED <<file, args, given, original>>
  BY DEF FinishPrompt, TerminalAfter, SecureZero
<1>2. Fits("line", a, key[p], stack[p], g)
  BY <1>1 DEF CliInv, RunInv
<1>3. /\ g \in Typed \cup {None} /\ g \in Seq(Byte) /\ stack[p] = Bytes(g, kMaxKeyFileSize)
      /\ ~Given(a, "--key-file") /\ ~Given(a, "--key-env")
  BY <1>2 DEF Fits, ArgsFit, StackFits, KeyFits
<1>4. stack[p] = None => g = None
  <2>1. kMaxKeyFileSize \in Nat /\ kMaxKeyFileSize > 0
    BY CliAssumption
  <2>2. Len(Bytes(g, kMaxKeyFileSize)) = IF kMaxKeyFileSize < Len(g) THEN kMaxKeyFileSize
                                         ELSE Len(g)
    BY <1>3, <2>1, BytesOfText
  <2>3. stack[p] = None => Len(g) = 0
    BY <1>3, <2>1, <2>2 DEF None
  <2> QED BY <1>3, <2>3 DEF None
<1>5. Plain(a, g) => (Full => TooLong(a, g)) /\ (~Full => line = g)
  BY <1>3, PlainLineIsWhole DEF TooLong
<1>6. Plain(a, g) /\ ~Full => k = Meant(a, g)
  BY <1>3, <1>5, StripIsMeant
<1>7. UsableKey(a, g) => Plain(a, g)
  BY <1>3 DEF UsableKey, FromKeygen
<1> HIDE DEF k, Full, line
<1>8. /\ OnlyAt(pc, pc', p) /\ OnlyAt(key, key', p)
      /\ \/ pc'[p] = "exit 2" /\ key'[p] = None /\ (stack[p] = None \/ Full \/ TooShort(k))
         \/ pc'[p] = "library" /\ key'[p] = k /\ ~Full
      /\ pc'[p] = "exit 2" /\ ~Full /\ stack[p] # None => TooShort(k)
  BY <1>1, ExitStep, UseKeyStep DEF CliInv
<1>9. /\ OnlyAt(stack, stack', p) /\ stack'[p] = None /\ OnlyAt(given, given', p)
      /\ OnlyAt(args, args', p) /\ OnlyAt(original, original', p)
      /\ args'[p] = a /\ given'[p] = g
  BY <1>1, ChangedAt, SameAt DEF CliInv, FunctionsInv
<1>10. OthersStay(p)
  BY <1>8, <1>9 DEF OthersStay
<1> HIDE DEF a, g
<1>11. KeyFits(pc[p], args[p], key[p], given[p])'
  <2>1. CASE pc'[p] = "library"
    BY <1>3, <1>6, <1>8, <1>9, <2>1 DEF KeyFits
  <2>2. CASE pc'[p] = "exit 2"
    <3>1. SUFFICES ASSUME g # None, UsableKey(a, g)
                   PROVE  Len(Meant(a, g)) < MC_MIN_KEY_SIZE \/ TooLong(a, g)
      BY <1>3, <1>8, <1>9, <2>2 DEF KeyFits
    <3> QED BY <1>4, <1>5, <1>6, <1>7, <1>8, <2>2, <3>1 DEF TooShort
  <2> QED BY <1>8, <2>1, <2>2
<1>12. StackFits(pc[p], stack[p], given[p])'
  BY <1>8, <1>9, EmptyStackFits
<1>13. FunctionsInv' /\ RunInv' /\ FileInv'
  BY <1>1, <1>8, <1>10, <1>11, <1>12, SourceKeeps
<1>14. EchoInv'
  <2>1. \A q \in Processes : ~Prompting(q)'
    <3>1. Prompting(p)
      BY <1>1 DEF Prompting
    <3>2. \A q \in Processes : Prompting(q) => q = p
      BY <3>1 DEF CliInv, EchoInv
    <3> QED BY <1>8, <3>2 DEF Prompting, OnlyAt
  <2>2. (\A q \in Processes : pc'[q] # "killed at the prompt") => echo' = TRUE
    <3>1. SUFFICES ASSUME \A q \in Processes : pc'[q] # "killed at the prompt"
                   PROVE  original[p] = TRUE
      BY <1>1
    <3>2. \A q \in Processes : pc[q] # "killed at the prompt"
      BY <1>1, <1>8, <3>1 DEF OnlyAt
    <3> QED BY <1>1, <3>2 DEF CliInv, EchoInv, Prompting
  <2> QED BY <2>1, <2>2 DEF EchoInv
<1> QED BY <1>13, <1>14 DEF CliInv
----------------------------------------------------------------------------
(* Files.                                                                  *)

Record(p, text, seals, mode) == [text |-> text, seals |-> seals, mode |-> mode, by |-> p]

\* A run that writes its output shows there where it is.
LEMMA FileWritten ==
  ASSUME CliInv, NEW p \in Processes, NEW text \in Seq(Byte), NEW seals, NEW mode,
         OthersStay(p), args' = args, Written(p, text, seals, mode),
         Shows(Record(p, text, seals, mode), Out(p), pc'[p], args[p], stack'[p])
  PROVE  FileInv'
<1> DEFINE new == Record(p, text, seals, mode)
           old == file[Out(p)]
<1>1. /\ file = [q \in Paths |-> file[q]]
      /\ file' = [file EXCEPT ![Out(p)] = new]
  BY DEF CliInv, FileInv, Written, Record
<1>2. /\ new.text = text /\ new.by = p
  BY DEF Record
<1> HIDE DEF new
<1>3. /\ file' = [q \in Paths |-> file'[q]]
      /\ \A q \in Paths : file'[q] = IF q = Out(p) THEN new ELSE file[q]
  BY <1>1
<1>4. ASSUME NEW q \in Paths, file'[q] # NoFile
      PROVE  /\ file'[q].text \in Seq(Byte)
             /\ \A r \in Processes : file'[q].by = r => Shows(file[q], q, pc[r], args[r], stack[r])'
  <2>1. CASE q = Out(p)
    <3>1. file'[q] = new
      BY <1>3, <2>1
    <3>2. Shows(new, q, pc'[p], args'[p], stack'[p])
      BY <2>1 DEF new
    <3> QED BY <1>2, <3>1, <3>2
  <2>2. CASE q # Out(p)
    <3>1. file'[q] = file[q]
      BY <1>3, <2>2
    <3>2. file[q].text \in Seq(Byte)
      BY <1>4, <3>1 DEF CliInv, FileInv
    <3>3. ASSUME NEW r \in Processes, file[q].by = r
          PROVE  Shows(file[q], q, pc[r], args[r], stack[r])'
      <4>1. Shows(file[q], q, pc[r], args[r], stack[r])
        BY <1>4, <3>1, <3>3 DEF CliInv, FileInv
      <4>2. r # p
        BY <2>2, <4>1 DEF Shows, Out
      <4>3. pc'[r] = pc[r] /\ args'[r] = args[r] /\ stack'[r] = stack[r]
        BY <4>2 DEF OthersStay, OnlyAt
      <4> QED BY <3>1, <4>1, <4>3
    <3> QED BY <3>1, <3>2, <3>3
  <2> QED BY <2>1, <2>2
<1> QED BY <1>3, <1>4 DEF FileInv

\* The end of an encryption or decryption.
LEMMA LibraryWrites ==
  ASSUME CliInv, NEW p \in Processes, NEW seals, NEW mode,
         pc[p] = "library", In(p) # NoFile, Written(p, In(p).text, seals, mode),
         ExitOrDie(p, "exit 0"), UNCHANGED <<echo, args, stack, given, original>>
  PROVE  CliInv'
<1>1. Fits("library", args[p], key[p], stack[p], given[p])
  BY DEF CliInv, RunInv
<1>2. In(p).text \in Seq(Byte)
  <2>1. args[p].value["--in"] \in Paths
    BY <1>1 DEF Fits, ArgsFit, Given
  <2> QED BY <2>1 DEF In, CliInv, FileInv
<1>3. /\ OnlyAt(pc, pc', p) /\ OnlyAt(key, key', p)
      /\ pc'[p] \in {"exit 0", "killed"} /\ key'[p] = None
  BY ExitStep DEF ExitOrDie, CliInv
<1>4. OthersStay(p)
  BY <1>3, SameAt DEF OthersStay, CliInv, FunctionsInv
<1>5. stack'[p] = None
  BY <1>1 DEF Fits, StackFits
<1>6. ArgsFit(pc[p], args[p])'
  BY <1>1, <1>3 DEF Fits, ArgsFit, Ends
<1>7. StackFits(pc[p], stack[p], given[p])'
  BY <1>3, <1>5, EmptyStackFits
<1>8. KeyFits(pc[p], args[p], key[p], given[p])'
  BY <1>1, <1>3 DEF Fits, KeyFits
<1>9. FunctionsInv' /\ RunInv'
  BY <1>4, <1>6, <1>7, <1>8, RunsKept DEF Fits
<1>10. args[p].command # "keygen"
  BY <1>1 DEF Fits, ArgsFit
<1>11. Shows(Record(p, In(p).text, seals, mode), Out(p), pc'[p], args[p], stack'[p])
  BY <1>3, <1>5, <1>10 DEF Shows, Out
<1>12. FileInv'
  BY <1>2, <1>4, <1>11, FileWritten
<1>13. EchoInv'
  BY <1>3, <1>4, EchoKept DEF Prompting
<1> QED BY <1>9, <1>12, <1>13 DEF CliInv

LEMMA LibraryKeeps ==
  ASSUME CliInv, NEW p \in Processes,
         mc_encrypt_file(p) \/ mc_decrypt_file(p) \/ LibraryFails(p) \/ RunInspect(p)
  PROVE  CliInv'
<1>1. CASE mc_encrypt_file(p)
  BY <1>1, LibraryWrites DEF mc_encrypt_file
<1>2. CASE mc_decrypt_file(p)
  BY <1>2, LibraryWrites DEF mc_decrypt_file
<1>3. CASE LibraryFails(p)
  BY <1>3, QuitKeeps DEF LibraryFails
<1>4. CASE RunInspect(p)
  BY <1>4, QuitKeeps DEF RunInspect
<1> QED BY <1>1, <1>2, <1>3, <1>4

LEMMA mc_generate_keyKeeps ==
  ASSUME CliInv, NEW p \in Processes, mc_generate_key(p)
  PROVE  CliInv'
<1>1. CASE Quit(p, "exit 1")
  BY <1>1, QuitKeeps DEF mc_generate_key
<1>2. CASE ~Quit(p, "exit 1")
  <2>1. PICK raw \in RawKeys : stack' = [stack EXCEPT ![p] = raw]
    BY <1>2 DEF mc_generate_key
  <2>2. /\ pc[p] = "generate" /\ Goto(p, "create")
        /\ UNCHANGED <<file, echo, args, key, given, original>>
    BY <1>2 DEF mc_generate_key, fileVars
  <2>3. OthersStay(p) /\ pc'[p] = "create" /\ stack'[p] = raw
    BY <2>1, <2>2, GotoStep, ChangedAt, SameAt DEF OthersStay, CliInv, FunctionsInv
  <2>4. Fits("generate", args[p], key[p], stack[p], given[p])
    BY <2>2 DEF CliInv, RunInv
  <2>5. ArgsFit(pc[p], args[p])'
    BY <2>2, <2>3, <2>4 DEF Fits, ArgsFit, Steps
  <2>6. StackFits(pc[p], stack[p], given[p])'
    BY <2>3, TextAssumption DEF StackFits
  <2>7. KeyFits(pc[p], args[p], key[p], given[p])'
    BY <2>2, <2>3, <2>4 DEF Fits, KeyFits
  <2>8. FunctionsInv' /\ RunInv'
    BY <2>3, <2>5, <2>6, <2>7, RunsKept DEF Fits
  <2>9. FileInv'
    BY <2>2, <2>3, FilesKept
  <2>10. EchoInv'
    BY <2>2, <2>3, EchoKept DEF Prompting
  <2> QED BY <2>8, <2>9, <2>10 DEF CliInv
<1> QED BY <1>1, <1>2

LEMMA CreateKeeps ==
  ASSUME CliInv, NEW p \in Processes, Create(p)
  PROVE  CliInv'
<1>1. CASE Quit(p, "exit 1")
  BY <1>1, QuitKeeps DEF Create
<1>2. CASE ~Quit(p, "exit 1")
  <2>1. /\ pc[p] = "create" /\ Written(p, None, None, "0600") /\ Goto(p, "write")
        /\ UNCHANGED <<echo, args, key, stack, given, original>>
    BY <1>2 DEF Create
  <2>2. OthersStay(p) /\ pc'[p] = "write"
    BY <2>1, GotoStep, SameAt DEF OthersStay, CliInv, FunctionsInv
  <2>3. Fits("create", args[p], key[p], stack[p], given[p])
    BY <2>1 DEF CliInv, RunInv
  <2>4. ArgsFit(pc[p], args[p])'
    BY <2>1, <2>2, <2>3 DEF Fits, ArgsFit, Steps
  <2>5. StackFits(pc[p], stack[p], given[p])'
    BY <2>1, <2>2, <2>3 DEF Fits, StackFits
  <2>6. KeyFits(pc[p], args[p], key[p], given[p])'
    BY <2>1, <2>2, <2>3 DEF Fits, KeyFits
  <2>7. FunctionsInv' /\ RunInv'
    BY <2>2, <2>4, <2>5, <2>6, RunsKept DEF Fits
  <2>8. Shows(Record(p, None, None, "0600"), Out(p), pc'[p], args[p], stack'[p])
    BY <2>2 DEF Shows, Out
  <2>9. FileInv'
    BY <2>1, <2>2, <2>8, FileWritten, NoneIsText
  <2>10. EchoInv'
    BY <2>1, <2>2, EchoKept DEF Prompting
  <2> QED BY <2>7, <2>9, <2>10 DEF CliInv
<1> QED BY <1>1, <1>2

\* Every drawn key is as long as Generated says.
LEMMA GeneratedLength ==
  ASSUME NEW raw \in RawKeys
  PROVE  Len(raw) = Generated
<1>1. (CHOOSE r \in RawKeys : TRUE) \in RawKeys
  OBVIOUS
<1> QED BY <1>1, CliAssumption DEF Generated

\* A run that is writing and whose file is no longer its own has no other.
LEMMA NoOtherFile ==
  ASSUME CliInv, NEW p \in Processes, ~(file[Out(p)] # NoFile /\ file[Out(p)].by = p),
         NEW q \in Paths, file[q] # NoFile
  PROVE  file[q].by # p
BY DEF CliInv, FileInv, Shows, Out

LEMMA WriteKeeps ==
  ASSUME CliInv, NEW p \in Processes, Write(p)
  PROVE  CliInv'
<1> DEFINE raw == stack[p]
           Mine == file[Out(p)] # NoFile /\ file[Out(p)].by = p
<1>1. PICK n \in 0..Len(raw) :
        /\ IF Mine THEN Written(p, Bytes(raw, n), None, "0600") ELSE UNCHANGED file
        /\ ExitOrDie(p, IF n = Len(raw) THEN "exit 0" ELSE "exit 1")
  BY DEF Write, WroteAll
<1>2. /\ pc[p] = "write" /\ stack' = [stack EXCEPT ![p] = None]
      /\ UNCHANGED <<echo, args, given, original>>
  BY DEF Write, SecureZero
<1>3. Fits("write", args[p], key[p], raw, given[p])
  BY <1>2 DEF CliInv, RunInv
<1>4. raw \in RawKeys /\ raw \in Seq(Byte) /\ args[p].command = "keygen"
  BY <1>3 DEF Fits, ArgsFit, StackFits
<1>5. /\ OnlyAt(pc, pc', p) /\ OnlyAt(key, key', p) /\ key'[p] = None
      /\ pc'[p] \in {"exit 0", "exit 1", "killed"}
      /\ pc'[p] = "exit 0" => n = Len(raw)
      /\ pc'[p] = "exit 1" => n # Len(raw)
  <2>1. PICK code \in {IF n = Len(raw) THEN "exit 0" ELSE "exit 1", "killed"} : Exit(p, code)
    BY <1>1 DEF ExitOrDie
  <2>2. /\ OnlyAt(pc, pc', p) /\ OnlyAt(key, key', p)
        /\ key'[p] = None /\ pc'[p] = code
    BY <2>1, ExitStep DEF CliInv
  <2> QED BY <2>2
<1>6. OthersStay(p) /\ stack'[p] = None
  BY <1>2, <1>5, ChangedAt, SameAt DEF OthersStay, CliInv, FunctionsInv
<1>7. ArgsFit(pc[p], args[p])'
  BY <1>2, <1>3, <1>5 DEF Fits, ArgsFit, Ends
<1>8. StackFits(pc[p], stack[p], given[p])'
  BY <1>5, <1>6, EmptyStackFits
<1>9. KeyFits(pc[p], args[p], key[p], given[p])'
  BY <1>2, <1>3, <1>5 DEF Fits, KeyFits
<1>10. FunctionsInv' /\ RunInv'
  BY <1>6, <1>7, <1>8, <1>9, RunsKept DEF Fits
<1>11. EchoInv'
  BY <1>2, <1>5, <1>6, EchoKept DEF Prompting
<1>12. FileInv'
  <2>1. CASE Mine
    <3>1. /\ Bytes(raw, n) \in Seq(Byte) /\ Len(Bytes(raw, n)) = n
          /\ n = Len(raw) => Bytes(raw, n) = raw
      BY <1>4, BytesOfText
    <3>2. n # Len(raw) => Len(Bytes(raw, n)) < Generated
      BY <1>4, <3>1, GeneratedLength
    <3>3. Shows(Record(p, Bytes(raw, n), None, "0600"), Out(p), pc'[p], args[p], stack'[p])
      BY <1>4, <1>5, <1>6, <3>1, <3>2 DEF Shows, Out, Record
    <3> QED BY <1>1, <1>2, <1>6, <2>1, <3>1, <3>3, FileWritten
  <2>2. CASE ~Mine
    <3>1. file' = file
      BY <1>1, <2>2
    <3>2. ASSUME NEW q \in Paths, file[q] # NoFile, NEW r \in Processes, file[q].by = r
          PROVE  Shows(file[q], q, pc[r], args[r], stack[r])'
      <4>1. r # p
        BY <2>2, <3>2, NoOtherFile
      <4>2. pc'[r] = pc[r] /\ args'[r] = args[r] /\ stack'[r] = stack[r]
        BY <1>6, <4>1 DEF OthersStay, OnlyAt
      <4>3. Shows(file[q], q, pc[r], args[r], stack[r])
        BY <3>2 DEF CliInv, FileInv
      <4> QED BY <3>1, <4>2, <4>3
    <3> QED BY <3>1, <3>2 DEF CliInv, FileInv
  <2> QED BY <2>1, <2>2
<1> QED BY <1>10, <1>11, <1>12 DEF CliInv
----------------------------------------------------------------------------
(* Signals, and the whole.                                                 *)

LEMMA KillKeeps ==
  ASSUME CliInv, NEW p \in Processes, Kill(p)
  PROVE  CliInv'
<1>1. /\ pc[p] \in Steps /\ stack' = [stack EXCEPT ![p] = None]
      /\ Exit(p, IF Prompting(p) THEN "killed at the prompt" ELSE "killed")
      /\ UNCHANGED <<file, echo, args, given, original>>
  BY DEF Kill, fileVars
<1>2. /\ OnlyAt(pc, pc', p) /\ OnlyAt(key, key', p) /\ key'[p] = None
      /\ pc'[p] = IF Prompting(p) THEN "killed at the prompt" ELSE "killed"
  BY <1>1, ExitStep DEF CliInv
<1>3. OthersStay(p) /\ stack'[p] = None
  BY <1>1, <1>2, ChangedAt, SameAt DEF OthersStay, CliInv, FunctionsInv
<1>4. Fits(pc[p], args[p], key[p], stack[p], given[p])
  BY DEF CliInv, RunInv
<1>5. ArgsFit(pc[p], args[p])'
  BY <1>1, <1>2, <1>4 DEF Fits, ArgsFit, Ends
<1>6. StackFits(pc[p], stack[p], given[p])'
  BY <1>2, <1>3, EmptyStackFits
<1>7. KeyFits(pc[p], args[p], key[p], given[p])'
  BY <1>1, <1>2, <1>4 DEF Fits, KeyFits
<1>8. FunctionsInv' /\ RunInv'
  BY <1>3, <1>5, <1>6, <1>7, RunsKept DEF Fits
<1>9. FileInv'
  <2>1. ASSUME NEW q \in Paths, file[q] # NoFile, NEW r \in Processes, file[q].by = r
        PROVE  Shows(file[q], q, pc[r], args[r], stack[r])'
    <3>1. Shows(file[q], q, pc[r], args[r], stack[r])
      BY <2>1 DEF CliInv, FileInv
    <3>2. CASE r = p
      <4>1. pc'[p] = "killed"
        BY <1>2, <3>1, <3>2 DEF Shows, Prompting
      <4>2. args'[p] = args[p] /\ file'[q] = file[q]
        BY <1>1
      <4> QED BY <1>3, <3>1, <3>2, <4>1, <4>2 DEF Shows
    <3>3. CASE r # p
      <4>1. pc'[r] = pc[r] /\ args'[r] = args[r] /\ stack'[r] = stack[r]
        BY <1>3, <3>3 DEF OthersStay, OnlyAt
      <4> QED BY <1>1, <3>1, <4>1
    <3> QED BY <3>2, <3>3
  <2> QED BY <1>1, <2>1 DEF CliInv, FileInv
<1>10. EchoInv'
  <2>1. CASE Prompting(p)
    <3>1. pc'[p] = "killed at the prompt"
      BY <1>2, <2>1
    <3>2. \A q \in Processes : Prompting(q)' => Prompting(q)
      BY <1>2, <3>1 DEF Prompting, OnlyAt
    <3> QED BY <3>1, <3>2 DEF CliInv, EchoInv
  <2>2. CASE ~Prompting(p)
    <3>1. pc[p] # "killed at the prompt"
      BY <1>1 DEF Steps
    <3>2. ~Prompting(p)'
      BY <1>2, <2>2 DEF Prompting
    <3> QED BY <1>1, <1>3, <2>2, <3>1, <3>2, EchoKept
  <2> QED BY <2>1, <2>2
<1> QED BY <1>8, <1>9, <1>10 DEF CliInv

(***************************************************************************)
(* However any number of runs interleave, what a run holds fits its step,  *)
(* what a file shows fits the run that made it, and the terminal is left   *)
(* as it was found (main.cc:81-244, 371-490, 501-630).                     *)
(***************************************************************************)
THEOREM CliInvariant == Spec => []CliInv
<1>1. ASSUME CliInv, NEW p \in Processes, Step(p) PROVE CliInv'
  <2>1. CASE Start(p)
    BY <1>1, <2>1, StartKeeps
  <2>2. CASE ReadKeyFile(p)
    BY <1>1, <2>2, ReadKeyFileKeeps
  <2>3. CASE ReadKeyEnv(p)
    BY <1>1, <2>3, ReadKeyEnvKeeps
  <2>4. CASE ReadKeyPrompt(p)
    BY <1>1, <2>4, ReadKeyPromptKeeps
  <2>5. CASE LoadKeyFails(p)
    BY <1>1, <2>5, LoadKeyFailsKeeps
  <2>6. CASE fgets(p)
    BY <1>1, <2>6, fgetsKeeps
  <2>7. CASE FinishPrompt(p)
    BY <1>1, <2>7, FinishPromptKeeps
  <2>8. CASE mc_encrypt_file(p) \/ mc_decrypt_file(p) \/ LibraryFails(p) \/ RunInspect(p)
    BY <1>1, <2>8, LibraryKeeps
  <2>9. CASE mc_generate_key(p)
    BY <1>1, <2>9, mc_generate_keyKeeps
  <2>10. CASE Create(p)
    BY <1>1, <2>10, CreateKeeps
  <2>11. CASE Write(p)
    BY <1>1, <2>11, WriteKeeps
  <2>12. CASE Kill(p)
    BY <1>1, <2>12, KillKeeps
  <2> QED BY <1>1, <2>1, <2>2, <2>3, <2>4, <2>5, <2>6, <2>7, <2>8, <2>9, <2>10, <2>11,
             <2>12 DEF Step
<1>2. CliInv /\ UNCHANGED vars => CliInv'
  BY DEF vars, fileVars, processVars, CliInv, FunctionsInv, RunInv, FileInv, EchoInv, Prompting
<1>3. Next => \E p \in Processes : Step(p)
  BY DEF Next, Step
<1>4. CliInv /\ [Next]_vars => CliInv'
  BY <1>1, <1>2, <1>3
<1> QED BY InitKeeps, <1>4, PTL DEF Spec

----------------------------------------------------------------------------
(* The properties.                                                         *)

(***************************************************************************)
(* A key that can be told from its source is used whole                    *)
(* (PlainKeyIsTheSource; main.cc:11-16, 127-137, 227-239).                 *)
(***************************************************************************)
THEOREM PlainKeysAreWhole == Spec => []PlainKeyIsTheSource
<1>1. CliInv => PlainKeyIsTheSource
  BY DEF CliInv, RunInv, Fits, KeyFits, PlainKeyIsTheSource
<1> QED BY CliInvariant, <1>1, PTL

(***************************************************************************)
(* A usable key is refused for its length only, and no key that keygen     *)
(* drew is refused (UsableKeysAreTaken; main.cc:41-44, 233-236).           *)
(***************************************************************************)
THEOREM UsableKeysAreNotRefused == Spec => []UsableKeysAreTaken
<1>1. CliInv => UsableKeysAreTaken
  BY DEF CliInv, RunInv, Fits, KeyFits, UsableKeysAreTaken
<1> QED BY CliInvariant, <1>1, PTL

(***************************************************************************)
(* The exit codes tell what became of the output, for any number of runs   *)
(* that share it (ExitCodesTell; main.cc:444, Usage.md:19-22).             *)
(***************************************************************************)
THEOREM ExitCodesAreReliable == Spec => []ExitCodesTell
<1>1. CliInv => ExitCodesTell
  BY DEF CliInv, FileInv, Shows, ExitCodesTell
<1> QED BY CliInvariant, <1>1, PTL

(***************************************************************************)
(* Whoever prompted, and however it ended but by a signal at its prompt,   *)
(* the terminal echoes again (EchoComesBack; main.cc:185-188).             *)
(***************************************************************************)
THEOREM TheTerminalIsRestored == Spec => []EchoComesBack
<1>1. CliInv => EchoComesBack
  BY DEF CliInv, EchoInv, EchoComesBack
<1> QED BY CliInvariant, <1>1, PTL

(***************************************************************************)
(* No key is left in the arrays of a run that used it or stored it, and    *)
(* none is held but for the library's call (UsedKeysAreWiped;              *)
(* main.cc:89-91, 106-115).                                                *)
(***************************************************************************)
THEOREM KeysAreWiped == Spec => []UsedKeysAreWiped
<1>1. ASSUME CliInv, NEW p \in Processes,
             \/ pc[p] \in {"library", "exit 0"}
             \/ pc[p] # "write" /\ \E q \in Paths : file[q] # NoFile /\ file[q].by = p
      PROVE  stack[p] = None
  <2>1. CASE pc[p] \in {"library", "exit 0"}
    BY <1>1, <2>1 DEF CliInv, RunInv, Fits, StackFits
  <2>2. CASE pc[p] # "write" /\ \E q \in Paths : file[q] # NoFile /\ file[q].by = p
    BY <1>1, <2>2 DEF CliInv, FileInv, Shows
  <2> QED BY <1>1, <2>1, <2>2
<1>2. CliInv => \A p \in Processes : key[p] # None => pc[p] = "library"
  BY DEF CliInv, RunInv, Fits, KeyFits
<1>3. CliInv => UsedKeysAreWiped
  BY <1>1, <1>2 DEF UsedKeysAreWiped
<1> QED BY CliInvariant, <1>3, PTL

(***************************************************************************)
(* A number that reaches the library is the number that was written        *)
(* (NumbersAreInRange; main.cc:328-369, Usage.md:69).                      *)
(***************************************************************************)
THEOREM NumbersAreNotBent == Spec => []NumbersAreInRange
<1>1. ASSUME CliInv, NEW p \in Processes, NEW o \in {"--chunk-size", "--kdf-log-n"},
             pc[p] = "load", Given(args[p], o), args[p].command = "encrypt",
             Number[args[p].value[o]].sign = ""
      PROVE  /\ Number[args[p].value[o]].whole
             /\ Number[args[p].value[o]].digits
                  \in (IF o = "--chunk-size" THEN ChunkSizes ELSE LogNs)
  <2> DEFINE n == Number[args[p].value[o]]
  <2>1. OptionsAreValid(args[p])
    BY <1>1 DEF CliInv, RunInv, Fits, ArgsFit
  <2>2. o = "--chunk-size" => ParseU32(args[p].value[o], ChunkSizes)
    BY <1>1, <2>1 DEF OptionsAreValid
  <2>3. o = "--kdf-log-n" => ParseU32(args[p].value[o], LogNs)
    BY <1>1, <2>1 DEF OptionsAreValid
  <2>4. strtoull(n) = n.digits
    BY <1>1 DEF strtoull
  <2>5. n.whole /\ n.digits \in (IF o = "--chunk-size" THEN ChunkSizes ELSE LogNs)
    BY <2>2, <2>3, <2>4, Zenon DEF ParseU32
  <2> QED BY <2>5
<1>2. CliInv => NumbersAreInRange
  BY <1>1 DEF NumbersAreInRange
<1> QED BY CliInvariant, <1>2, PTL

(***************************************************************************)
(* keygen replaces no file, however many runs work on the path             *)
(* (KeysAreNotReplaced; main.cc:419-422, Usage.md:34).                     *)
(***************************************************************************)
THEOREM KeysStay == Spec => KeysAreNotReplaced
<1> DEFINE Replaced(q) ==
      \E p \in Processes :
        \/ pc[p] = "library" /\ pc'[p] \in {"exit 0", "killed"} /\ q = Out(p)
        \/ pc[p] = "write" /\ file[q].by = p
<1>1. ASSUME CliInv, NEW p \in Processes, Step(p), NEW q \in Paths,
             file[q] # NoFile, file'[q] # file[q]
      PROVE  Replaced(q)
  <2>1. ASSUME NEW text, NEW seals, NEW mode, Written(p, text, seals, mode)
        PROVE  q = Out(p)
    BY <1>1, <2>1 DEF Written, CliInv, FileInv
  <2>2. CASE mc_encrypt_file(p) \/ mc_decrypt_file(p)
    <3>1. pc[p] = "library" /\ ExitOrDie(p, "exit 0") /\ q = Out(p)
      BY <2>1, <2>2 DEF mc_encrypt_file, mc_decrypt_file
    <3>2. pc'[p] \in {"exit 0", "killed"}
      BY <1>1, <3>1, ExitStep DEF ExitOrDie, CliInv
    <3> QED BY <3>1, <3>2
  <2>3. CASE Create(p)
    <3>1. Written(p, None, None, "0600") /\ file[Out(p)] = NoFile
      BY <1>1, <2>3 DEF Create, Quit, fileVars, MayCreate
    <3>2. q = Out(p)
      BY <2>1, <3>1
    <3> QED BY <1>1, <3>1, <3>2
  <2>4. CASE Write(p)
    <3>1. /\ pc[p] = "write" /\ file[Out(p)].by = p
          /\ \E n \in 0..Len(stack[p]) : Written(p, Bytes(stack[p], n), None, "0600")
      BY <1>1, <2>4 DEF Write
    <3>2. q = Out(p)
      BY <2>1, <3>1
    <3> QED BY <3>1, <3>2
  <2>5. CASE ~(mc_encrypt_file(p) \/ mc_decrypt_file(p) \/ Create(p) \/ Write(p))
    <3>1. file' = file
      BY <1>1, <2>5 DEF Step, Start, ReadKeyFile, ReadKeyEnv, ReadKeyPrompt, LoadKeyFails,
                        fgets, FinishPrompt, LibraryFails, RunInspect, mc_generate_key, Kill,
                        Quit, fileVars
    <3> QED BY <1>1, <3>1
  <2> QED BY <2>2, <2>3, <2>4, <2>5
<1> DEFINE Kept == \A q \in Paths : file[q] # NoFile /\ file'[q] # file[q] => Replaced(q)
<1>2. CliInv /\ [Next]_vars => [Kept]_vars
  <2> SUFFICES ASSUME CliInv, Next, NEW q \in Paths, file[q] # NoFile, file'[q] # file[q]
               PROVE  Replaced(q)
    OBVIOUS
  <2>1. PICK p \in Processes : Step(p)
    BY DEF Next, Step
  <2> QED BY <1>1, <2>1
<1> QED BY CliInvariant, <1>2, PTL DEF Spec, KeysAreNotReplaced
=============================================================================
