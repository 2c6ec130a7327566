-------------------------------- MODULE Cli ---------------------------------
(***************************************************************************)
(* The command-line tool (src/src/cli/main.cc): processes, each one run of *)
(* the tool, that share files, an environment and a terminal.              *)
(*                                                                         *)
(* A file is its text and the keys it was sealed under, outermost last; a  *)
(* key, like the text of a key file, is a sequence of bytes.  The library  *)
(* appears as CApi shows it: a call succeeds in one step or leaves every   *)
(* file alone.                                                             *)
(***************************************************************************)
EXTENDS Integers, Sequences, SequencesExt

CONSTANTS
  Processes,
  Byte,              \* what a file, a variable or a typed line is made of
  CommandLines,      \* the argv[1..] each run may have: sequences of strings
  Number,            \* what strtoull finds in an option's text (see ParseU32)
  ULL,               \* one more than ULLONG_MAX
  Original, NoFile,  \* what each path holds at first
  Environment,       \* the variables that are set: their values
  Typed,             \* the lines a user may type at the prompt
  RawKeys,           \* what mc_generate_key may draw: keys of one size
  kMaxKeyFileSize, MC_MIN_KEY_SIZE,
  ReadErrors,        \* files of which fread may fail before the end
  Signals            \* processes may be killed

LF == "\n"
CR == "\r"
NUL == "NUL"

VARIABLES
  file,      \* each path: [text, seals, mode, by], `by` telling files apart
  echo,      \* whether the terminal echoes
  pc,        \* of each process: a step, its exit code, or how it was killed
  args,      \* its command line, parsed
  key,       \* its KeyBytes
  stack,     \* the bytes its raw or buffer array holds, or has left behind
  given,     \* history: what its key source held
  original   \* the terminal's setting as it found it

fileVars == <<file, echo>>
processVars == <<pc, args, key, stack, given, original>>
vars == <<fileVars, processVars>>

Paths == DOMAIN Original
None == <<>>
\* At most n bytes of a file or a line.
Bytes(text, n) == SubSeq(text, 1, IF n < Len(text) THEN n ELSE Len(text))
Steps == {"start", "load", "prompt", "line", "library", "inspect", "generate", "create", "write"}

----------------------------------------------------------------------------
(* The command line.                                                       *)

ValueOptions == {"--in", "--out", "--key-file", "--key-env", "--compression",
                 "--chunk-size", "--kdf-log-n", "--kdf-r", "--kdf-p"}
RefusedOptions == {"--key", "--keyfile"}   \* and any other that begins with '-'
NoArgs == [ok |-> TRUE, command |-> "", flags |-> {}, wants |-> "",
           value |-> [o \in ValueOptions |-> ""]]

\* TakeValue takes the next argument whatever it looks like; the last one wins.
NextArg(a, arg) ==
  IF ~a.ok THEN a
  ELSE IF a.wants # "" THEN [a EXCEPT !.value[a.wants] = arg, !.wants = ""]
  ELSE IF arg \in {"-h", "--help", "--version"} THEN [a EXCEPT !.flags = @ \cup {arg}]
  ELSE IF arg \in ValueOptions THEN [a EXCEPT !.wants = arg]
  ELSE IF arg \in RefusedOptions \/ a.command # "" THEN [a EXCEPT !.ok = FALSE]
  ELSE [a EXCEPT !.command = arg]

ParseArgs(argv) ==
  LET a == FoldLeft(NextArg, NoArgs, argv) IN [a EXCEPT !.ok = @ /\ a.wants = ""]

ASSUME CliAssumption ==
  /\ kMaxKeyFileSize \in Nat /\ MC_MIN_KEY_SIZE \in 1..kMaxKeyFileSize
  /\ \A raw \in RawKeys : Len(raw) - 2 >= MC_MIN_KEY_SIZE /\ Len(raw) <= kMaxKeyFileSize
  /\ \A raw, other \in RawKeys : Len(raw) = Len(other)
  /\ ReadErrors \subseteq Paths /\ Signals \in BOOLEAN /\ NoFile \notin Processes

ASSUME TextAssumption ==
  /\ RawKeys \cup Typed \subseteq Seq(Byte)
  /\ \A name \in DOMAIN Environment : Environment[name] \in Seq(Byte)
  /\ \A q \in Paths : Original[q] # NoFile => Original[q] \in Seq(Byte)
  /\ \A line \in Typed : \A i \in 1..(Len(line) - 1) : line[i] # LF

\* Every path that a command line names is modelled.
ASSUME PathAssumption ==
  \A p \in Processes : \A argv \in CommandLines[p], o \in {"--in", "--out", "--key-file"} :
    ParseArgs(argv).value[o] \in Paths \cup {""}

(***************************************************************************)
(* Number[text] is what strtoull makes of it: whether space comes before   *)
(* an optional sign, the digits, and whether they end the text.            *)
(***************************************************************************)
CastFirstMutant(n) == n.digits % 268435456
strtoull(n) == IF n.sign = "-" THEN (ULL - n.digits) % ULL ELSE n.digits

ParseU32(text, range) ==
  LET n == Number[text] IN
  /\ n.space \/ n.sign = ""
  /\ n.digits \in 0..(ULL - 1) /\ n.whole
  /\ strtoull(n) \in range

Given(a, o) == a.value[o] # ""

\* 4u << 10 to 64u << 20
ChunkSizes == 4096..67108864
LogNs == 14..20

OptionsAreValid(a) ==
  LET Valid(o, range) == Given(a, o) => ParseU32(a.value[o], range) IN
  /\ a.value["--compression"] \in {"", "none", "zlib"}
  /\ Valid("--chunk-size", ChunkSizes) /\ Valid("--kdf-log-n", LogNs)
  /\ Valid("--kdf-r", 1..32) /\ Valid("--kdf-p", 1..16)

RequirePaths(a, need_out) == Given(a, "--in") /\ (need_out => Given(a, "--out"))

\* Run, as far as the subcommand's first call: the step it goes on with.
Run(a) ==
  IF ~a.ok THEN "exit 2"
  ELSE IF a.flags # {} THEN "exit 0"
  ELSE IF a.command = "keygen" /\ Given(a, "--out") THEN "generate"
  ELSE IF a.command = "encrypt" /\ RequirePaths(a, TRUE) /\ OptionsAreValid(a) THEN "load"
  ELSE IF a.command = "decrypt" /\ RequirePaths(a, TRUE) THEN "load"
  ELSE IF a.command = "inspect" /\ RequirePaths(a, FALSE) THEN "inspect"
  ELSE "exit 2"

----------------------------------------------------------------------------
(* The processes.                                                          *)

Init ==
  /\ file = [p \in Paths |-> IF Original[p] = NoFile THEN NoFile
                             ELSE [text |-> Original[p], seals |-> None, mode |-> "0644", by |-> NoFile]]
  /\ echo = TRUE
  /\ pc = [p \in Processes |-> "start"] /\ args = [p \in Processes |-> NoArgs]
  /\ key = [p \in Processes |-> None] /\ stack = [p \in Processes |-> None]
  /\ given = [p \in Processes |-> None] /\ original = [p \in Processes |-> TRUE]

Goto(p, step) == pc' = [pc EXCEPT ![p] = step]

KeepKeyMutant(p, code) == Goto(p, code) /\ UNCHANGED key
\* ~KeyBytes runs on every return, and when an exception unwinds to main.
Exit(p, code) == Goto(p, code) /\ key' = [key EXCEPT ![p] = None]
\* A signal may come between a call's effect and the exit.
ExitOrDie(p, code) == Exit(p, code) \/ (Signals /\ Exit(p, "killed"))
Quit(p, code) == Exit(p, code) /\ UNCHANGED <<fileVars, args, stack, given, original>>

Start(p) ==
  /\ pc[p] = "start"
  /\ \E argv \in CommandLines[p] :
       /\ args' = [args EXCEPT ![p] = ParseArgs(argv)]
       /\ Goto(p, Run(ParseArgs(argv))) \/ Goto(p, "exit 1")   \* bad_alloc
  /\ UNCHANGED <<fileVars, key, stack, given, original>>

StripAllMutant(text) ==
  IF \A i \in DOMAIN text : text[i] = LF THEN None
  ELSE SubSeq(text, 1, SelectLastInSeq(text, LAMBDA byte : byte # LF))
StripOneTrailingNewline(text) ==
  IF text = None \/ Last(text) # LF THEN text
  ELSE IF Len(text) > 1 /\ text[Len(text) - 1] = CR THEN Front(Front(text))
  ELSE Front(text)

AtMostMinimumMutant(k) == Len(k) <= MC_MIN_KEY_SIZE
TooShort(k) == Len(k) < MC_MIN_KEY_SIZE

\* The end of LoadKey: k has been read.
UseKey(p, k) ==
  IF TooShort(k) THEN Exit(p, "exit 2")
  ELSE Goto(p, "library") /\ key' = [key EXCEPT ![p] = k]

UnwipedMutant(bytes) == bytes
SecureZero(bytes) == None

(***************************************************************************)
(* fopen and fread at once: a writer between them might as well have come  *)
(* before or after.  ReadKeyFile does not ask ferror.                      *)
(***************************************************************************)
ReadKeyFile(p) ==
  LET text == file[args[p].value["--key-file"]].text
      buffer == Bytes(text, kMaxKeyFileSize + 1)
  IN  /\ pc[p] = "load" /\ Given(args[p], "--key-file") /\ ~Given(args[p], "--key-env")
      /\ file[args[p].value["--key-file"]] # NoFile
      /\ given' = [given EXCEPT ![p] = text]
      /\ \E read \in 0..Len(buffer) :
           /\ read < Len(buffer) => args[p].value["--key-file"] \in ReadErrors
           /\ IF read > kMaxKeyFileSize
              THEN Exit(p, "exit 2") /\ stack' = [stack EXCEPT ![p] = buffer]
              ELSE /\ UseKey(p, StripOneTrailingNewline(Bytes(buffer, read)))
                   /\ stack' = [stack EXCEPT ![p] = SecureZero(buffer)]
      /\ UNCHANGED <<fileVars, args, original>>

VariableIsSet(a) ==
  /\ Given(a, "--key-env") /\ ~Given(a, "--key-file")
  /\ a.value["--key-env"] \in DOMAIN Environment

ReadKeyEnv(p) ==
  LET value == Environment[args[p].value["--key-env"]] IN
  /\ pc[p] = "load" /\ VariableIsSet(args[p])
  /\ given' = [given EXCEPT ![p] = value]
  /\ IF Len(value) > kMaxKeyFileSize THEN Exit(p, "exit 2") ELSE UseKey(p, value)
  /\ UNCHANGED <<fileVars, args, stack, original>>

(***************************************************************************)
(* LoadKey without a key: two sources, a file that cannot be opened, a     *)
(* variable that is not set, no terminal or one that refuses its settings  *)
(* (exit 2); or bad_alloc (exit 1).                                        *)
(***************************************************************************)
LoadKeyFails(p) ==
  /\ pc[p] = "load"
  /\ \/ Quit(p, "exit 1")
     \/ ~VariableIsSet(args[p]) /\ Quit(p, "exit 2")

\* Job control lets one process at a time use the terminal.
TerminalIsMine(p) == \A q \in Processes \ {p} : pc[q] \notin {"prompt", "line"}

ReadKeyPrompt(p) ==
  /\ pc[p] = "load" /\ ~Given(args[p], "--key-file") /\ ~Given(args[p], "--key-env")
  /\ TerminalIsMine(p)
  /\ original' = [original EXCEPT ![p] = echo] /\ echo' = FALSE /\ Goto(p, "prompt")
  /\ UNCHANGED <<file, args, key, stack, given>>

\* fgets: a line, the last one perhaps without a newline, or nothing (end of input).
fgets(p) ==
  /\ pc[p] = "prompt" /\ Goto(p, "line")
  /\ \E text \in Typed \cup {None} :
       /\ given' = [given EXCEPT ![p] = text]
       /\ stack' = [stack EXCEPT ![p] = Bytes(text, kMaxKeyFileSize)]
  /\ UNCHANGED <<fileVars, args, key, original>>

\* What strlen counts.
UpToNul(bytes) ==
  IF Contains(bytes, NUL) THEN Bytes(bytes, SelectInSeq(bytes, LAMBDA b : b = NUL) - 1)
  ELSE bytes

NotAfterErrorsMutant(p) == IF stack[p] = None THEN echo ELSE original[p]
TerminalAfter(p) == original[p]

FinishPrompt(p) ==
  LET line == UpToNul(stack[p]) IN
  /\ pc[p] = "line" /\ echo' = TerminalAfter(p)
  /\ \/ stack[p] = None /\ Exit(p, "exit 2")
     \/ /\ stack[p] # None /\ Len(line) = kMaxKeyFileSize /\ Last(line) # LF
        /\ Exit(p, "exit 2")
     \/ /\ stack[p] # None /\ ~(Len(line) = kMaxKeyFileSize /\ Last(line) # LF)
        /\ UseKey(p, StripOneTrailingNewline(line))
  /\ stack' = [stack EXCEPT ![p] = SecureZero(stack[p])]
  /\ UNCHANGED <<file, args, given, original>>

\* The library's file functions, as CApi shows them.
Out(p) == args[p].value["--out"]
In(p) == file[args[p].value["--in"]]
Written(p, text, seals, mode) ==
  file' = [file EXCEPT ![Out(p)] = [text |-> text, seals |-> seals, mode |-> mode, by |-> p]]

LibraryFails(p) == pc[p] = "library" /\ Quit(p, "exit 1")
mc_encrypt_file(p) ==
  /\ pc[p] = "library" /\ args[p].command = "encrypt" /\ In(p) # NoFile
  /\ Written(p, In(p).text, Append(In(p).seals, key[p]), "0644") /\ ExitOrDie(p, "exit 0")
  /\ UNCHANGED <<echo, args, stack, given, original>>
mc_decrypt_file(p) ==
  /\ pc[p] = "library" /\ args[p].command = "decrypt" /\ In(p) # NoFile
  /\ In(p).seals # None /\ Last(In(p).seals) = key[p]
  /\ Written(p, In(p).text, Front(In(p).seals), "0600") /\ ExitOrDie(p, "exit 0")
  /\ UNCHANGED <<echo, args, stack, given, original>>

RunInspect(p) ==
  /\ pc[p] = "inspect"
  /\ \/ Quit(p, "exit 1")
     \/ In(p) # NoFile /\ In(p).seals # None /\ Quit(p, "exit 0")

----------------------------------------------------------------------------
(* RunKeygen.                                                              *)

\* What a failed draw may leave in raw is no key, and is left out.
mc_generate_key(p) ==
  /\ pc[p] = "generate"
  /\ \/ Quit(p, "exit 1")
     \/ /\ \E raw \in RawKeys : stack' = [stack EXCEPT ![p] = raw]
        /\ Goto(p, "create") /\ UNCHANGED <<fileVars, args, key, given, original>>

TruncateMutant(p) == TRUE
\* O_CREAT | O_EXCL
MayCreate(p) == file[Out(p)] = NoFile

Create(p) ==
  /\ pc[p] = "create"
  /\ \/ Quit(p, "exit 1")
     \/ /\ MayCreate(p) /\ Written(p, None, None, "0600") /\ Goto(p, "write")
        /\ UNCHANGED <<echo, args, key, stack, given, original>>

ShortWriteMutant(p, n) == n > 0
WroteAll(p, n) == n = Len(stack[p])

\* One write(2), which may be short or fail, into the file Create made.
Write(p) ==
  /\ pc[p] = "write"
  /\ \E n \in 0..Len(stack[p]) :
       /\ IF file[Out(p)] # NoFile /\ file[Out(p)].by = p
          THEN Written(p, Bytes(stack[p], n), None, "0600") ELSE UNCHANGED file
       /\ ExitOrDie(p, IF WroteAll(p, n) THEN "exit 0" ELSE "exit 1")
  /\ stack' = [stack EXCEPT ![p] = SecureZero(stack[p])]
  /\ UNCHANGED <<echo, args, given, original>>

\* Between the two calls of tcsetattr.
Prompting(p) == pc[p] \in {"prompt", "line"}

\* What the process held goes with it; the terminal stays as it is.
Kill(p) ==
  /\ Signals /\ pc[p] \in Steps
  /\ Exit(p, IF Prompting(p) THEN "killed at the prompt" ELSE "killed")
  /\ stack' = [stack EXCEPT ![p] = None] /\ UNCHANGED <<fileVars, args, given, original>>

Next ==
  \E p \in Processes :
    \/ Start(p) \/ ReadKeyFile(p) \/ ReadKeyEnv(p) \/ ReadKeyPrompt(p) \/ LoadKeyFails(p)
    \/ fgets(p) \/ FinishPrompt(p) \/ mc_encrypt_file(p) \/ mc_decrypt_file(p) \/ LibraryFails(p)
    \/ RunInspect(p) \/ mc_generate_key(p) \/ Create(p) \/ Write(p) \/ Kill(p)

Spec == Init /\ [][Next]_vars

----------------------------------------------------------------------------
(* Properties.                                                             *)

Generated == Len(CHOOSE raw \in RawKeys : TRUE)

(***************************************************************************)
(* The key that reaches the library is what its source held: the whole     *)
(* variable, or the whole file or typed line without one trailing newline  *)
(* (main.cc:11-16, 227-232; docs/Usage.md:54-57).  This does not hold: see *)
(* Plain.                                                                  *)
(***************************************************************************)
Meant(a, text) ==
  IF Given(a, "--key-env") \/ text = None \/ Last(text) # LF THEN text ELSE Front(text)
KeyIsTheSource ==
  \A p \in Processes : pc[p] = "library" => key[p] = Meant(args[p], given[p])

(***************************************************************************)
(* What holds: a file that can be read to its end, a variable, or a typed  *)
(* line, without NUL and not ending in \r\n, whoever wrote the file, gives *)
(* the key it holds, or none; never a part of it.                          *)
(***************************************************************************)
Readable(a) == a.value["--key-file"] \notin ReadErrors
Plain(a, text) ==
  /\ Readable(a) /\ ~Contains(text, NUL)
  /\ ~(Len(text) > 1 /\ Last(text) = LF /\ text[Len(text) - 1] = CR)
PlainKeyIsTheSource ==
  \A p \in Processes :
    pc[p] = "library" /\ Plain(args[p], given[p]) => key[p] = Meant(args[p], given[p])

(***************************************************************************)
(* Such a key is refused only when it is shorter than MC_MIN_KEY_SIZE or   *)
(* its source is too long; and every key file that keygen finished and     *)
(* that can be read works, whatever bytes it was drawn with, a \r\n at its *)
(* end included (main.cc:41-44, 233-236; the round trip of Usage.md).  A   *)
(* typed line that fills the buffer and ends with the input, without a     *)
(* newline, counts as too long: fgets does not tell it from a longer one   *)
(* (main.cc:227-229).                                                      *)
(***************************************************************************)
FromKeygen(a, text) == Given(a, "--key-file") /\ Readable(a) /\ text \in RawKeys
UsableKey(a, text) == Plain(a, text) \/ FromKeygen(a, text)
TooLong(a, text) ==
  \/ Len(text) > kMaxKeyFileSize
  \/ /\ Len(text) = kMaxKeyFileSize /\ Last(text) # LF
     /\ ~Given(a, "--key-file") /\ ~Given(a, "--key-env")
UsableKeysAreTaken ==
  \A p \in Processes :
    pc[p] = "exit 2" /\ given[p] # None /\ UsableKey(args[p], given[p])
      => Len(Meant(args[p], given[p])) < MC_MIN_KEY_SIZE \/ TooLong(args[p], given[p])

(***************************************************************************)
(* Exit codes can be relied on by whoever looks at the files: after 2 the  *)
(* run has made none, after 1 at most a key file that is short and so not  *)
(* the promised key, after 0 keygen's file is a whole key (Usage.md:19-22, *)
(* main.cc:444), whoever else worked on the path meanwhile.                *)
(***************************************************************************)
ExitCodesTell ==
  \A q \in Paths : file[q] # NoFile /\ file[q].by \in Processes =>
    LET p == file[q].by
        keygen == args[p].command = "keygen"
    IN  /\ pc[p] # "exit 2"
        /\ pc[p] = "exit 1" => keygen /\ Len(file[q].text) < Generated
        /\ pc[p] = "exit 0" /\ keygen => file[q].text \in RawKeys /\ file[q].mode = "0600"

(***************************************************************************)
(* keygen replaces no file, however the runs interleave: what exists is    *)
(* changed only by an encryption or decryption that worked, or the keygen  *)
(* that made it (main.cc:419-422, Usage.md:34).                            *)
(***************************************************************************)
KeysAreNotReplaced ==
  [][\A q \in Paths : file[q] # NoFile /\ file'[q] # file[q] =>
       \E p \in Processes :
         \/ pc[p] = "library" /\ pc'[p] \in {"exit 0", "killed"} /\ q = Out(p)
         \/ pc[p] = "write" /\ file[q].by = p]_vars

(***************************************************************************)
(* When no run is waiting for a key the terminal echoes, in whatever order *)
(* runs prompted and whatever failed (main.cc:185-188: "restoring the      *)
(* terminal on every path out"), unless a signal ended one at its prompt.  *)
(***************************************************************************)
EchoComesBack ==
  (\A p \in Processes : ~Prompting(p) /\ pc[p] # "killed at the prompt") => echo

(***************************************************************************)
(* A run that uses a key, or has put one in a file, leaves no copy in the  *)
(* array it came through (main.cc:89-91), and no run holds a key but       *)
(* during the library's call.                                              *)
(***************************************************************************)
UsedKeysAreWiped ==
  \A p \in Processes :
    /\ (\/ pc[p] \in {"library", "exit 0"}
        \/ pc[p] # "write" /\ \E q \in Paths : file[q] # NoFile /\ file[q].by = p)
         => stack[p] = None
    /\ key[p] # None => pc[p] = "library"

(***************************************************************************)
(* A number that is out of range, or a text that is not all number, is     *)
(* refused and not brought into range (Usage.md:69).                       *)
(***************************************************************************)
NumbersAreInRange ==
  \A p \in Processes, o \in {"--chunk-size", "--kdf-log-n"} :
    LET n == Number[args[p].value[o]] IN
    (pc[p] = "load" /\ Given(args[p], o) /\ args[p].command = "encrypt" /\ n.sign = "")
      => n.whole /\ n.digits \in (IF o = "--chunk-size" THEN ChunkSizes ELSE LogNs)
=============================================================================
