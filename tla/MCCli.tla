------------------------------- MODULE MCCli --------------------------------
(***************************************************************************)
(* Scaled to keys of 2 to 5 bytes, of which keygen makes 4.  ULL is 2^30,  *)
(* above every range of the options.                                       *)
(***************************************************************************)
EXTENDS Cli, TLC

CONSTANT chr   \* a byte that is neither a line ending nor NUL

\* Number: what the texts of numbers hold.
Unsigned(n) == [space |-> FALSE, sign |-> "", digits |-> n, whole |-> TRUE]
Numbers ==
  "4096" :> Unsigned(4096) @@ "4095" :> Unsigned(4095) @@ "67108865" :> Unsigned(67108865)
    @@ "2^28+4096" :> Unsigned(268435456 + 4096) @@ "ULL" :> Unsigned(ULL)
    @@ "4096k" :> [Unsigned(4096) EXCEPT !.whole = FALSE]
    @@ "-4096" :> [Unsigned(4096) EXCEPT !.sign = "-"]
    @@ " -1" :> [Unsigned(1) EXCEPT !.sign = "-", !.space = TRUE]
    @@ " +4096" :> [Unsigned(4096) EXCEPT !.sign = "+", !.space = TRUE]
    @@ " 4096" :> [Unsigned(4096) EXCEPT !.space = TRUE] @@ "" :> Unsigned(0)

Model == <<chr>>
KeyText == <<chr, CR, chr>>
MCByte == {chr, LF, CR, NUL}

Encrypt == <<"encrypt", "--in", "model", "--out", "sealed">>
Decrypt == <<"decrypt", "--in", "sealed", "--out", "model">>
KeyFile(path) == <<"--key-file", path>>
KeyEnv(name) == <<"--key-env", name>>
Keygen(path) == <<"keygen", "--out", path>>

\* One secret in a file, in a file with a newline, in a variable, and typed.
SourceLines ==
  {e \o s : e \in {Encrypt, Decrypt},
            s \in {KeyFile("key"), KeyFile("keynl"), KeyFile("worn"), KeyEnv("KEY"), <<>>}}
MCEnvironment == "KEY" :> KeyText @@ "LONG" :> <<chr, chr, chr, chr, chr, chr>> @@ "SHORT" :> <<chr>>
MCTyped ==
  {KeyText, <<LF>>, <<chr, LF>>, <<chr, chr, LF>>, <<chr, chr, NUL, chr, LF>>,
   <<chr, chr, chr, chr, chr>>, <<chr, chr, chr, chr, chr, chr, LF>>}

\* keygen on a path of its own and on one that exists, and uses of its key.
DrawnKeys == {<<chr, chr, chr, chr>>, <<chr, chr, CR, LF>>, <<LF, LF, LF, LF>>}
MadeLines == {e \o KeyFile("made") : e \in {Encrypt, Decrypt}}
KeygenLines == {Keygen("made"), Keygen("model")}

\* Command lines of every form.
FormLines ==
  {<<>>, <<"--help">>, <<"encrypt", "--version">>, <<"unpack">>, <<"keygen">>, <<"keygen", "again">>,
   <<"encrypt", "--in", "model">>, <<"decrypt", "--out", "model">>, <<"--key", "secret">>,
   <<"inspect">>, <<"inspect", "--in">>, <<"inspect", "--in", "model">>, <<"inspect", "--in", "sealed">>,
   Keygen("--in"), Encrypt \o KeyFile("key") \o KeyEnv("KEY"), Encrypt \o KeyFile("long"),
   Encrypt \o KeyFile("key2nl"), Encrypt \o KeyFile(""),
   Encrypt \o KeyFile("made") \o <<"--key-file", "key">>,
   Encrypt \o KeyEnv("UNSET"), Encrypt \o KeyEnv("LONG"), Encrypt \o KeyEnv("SHORT"),
   Encrypt \o <<"--compression", "lzma">>, Encrypt \o <<"--kdf-log-n", "4096">>}
    \cup {Encrypt \o <<"--chunk-size", n>> \o KeyFile("key") : n \in DOMAIN Numbers}

Files ==
  "model" :> Model @@ "sealed" :> NoFile @@ "key" :> KeyText @@ "keynl" :> Append(KeyText, LF)
    @@ "key2nl" :> KeyText \o <<LF, LF>>
    @@ "worn" :> KeyText @@ "long" :> <<chr, chr, chr, chr, chr, LF>> @@ "made" :> NoFile @@ "--in" :> NoFile

CONSTANTS p1, p2, p3
MCCommandLines ==
  p1 :> SourceLines \cup FormLines @@ p2 :> KeygenLines \cup MadeLines \cup {Encrypt, Decrypt}
    @@ p3 :> KeygenLines \cup MadeLines

\* One encryption under a key in a file.
OneLine == p1 :> {Encrypt \o KeyFile("worn")}
=============================================================================
