# A verification project for model-crypt

model-crypt encrypts machine-learning models into `.mcrypt` files: a 64-byte
header, then chunks, each optionally deflated, each sealed with AES-256-GCM
under a key that scrypt derives from the caller's. This directory holds TLA+
modules that model its code, configurations for the TLC model checker, and
proofs for the TLAPS proof system. Paths below are those of the repository
(`src/crypt/…`, `include/…`); line numbers refer to the same files.

Contents: [system](#1-the-system) · [modules](#2-modules) · [runs](#3-runs) ·
[proofs](#4-proofs) · [divergences found](#5-where-code-and-documentation-disagree) ·
[not modelled](#6-what-is-not-modelled) · [plan](#7-plan)

## 1. The system

| component | state it keeps | operations | used by |
| --- | --- | --- | --- |
| format (`crypt/format.*`) | none; constants and layout | `ParseFileHeader`, `ParseChunkHeader`, serializers, `ChunkCountFor`, `MaxStoredSizeFor`, `BuildAad`, `BuildNonce` | encrypt, decrypt |
| encrypt (`crypt/encrypt.*`) | per call: header, derived key, output, scratch, `write_offset` | `EncryptBuffer`, `ValidateOptions` | C API, CLI |
| decrypt (`crypt/decrypt.*`) | per call: chunk table, derived key, scratch, first chunk, plaintext | `DecryptBuffer`, `InspectBuffer` | C API |
| aead (`crypt/aead.*`) | one EVP context per call | `Seal`, `Open` | encrypt, decrypt |
| kdf (`crypt/kdf.*`) | none | `DeriveKey` | encrypt, decrypt |
| compression (`crypt/compress.*`) | one z_stream per call | `CompressChunk`, `DecompressChunk` | encrypt, decrypt |
| random_bytes (`crypt/random.*`) | OpenSSL's generator: **the only state calls share** | `Fill` | encrypt, C API |
| SecureBuffer (`crypt/secure_buffer.*`) | one owned block | `Reset`, move, `Release`, wipe and free | everywhere |
| fileio (`util/file_io.*`) | the directory and the files | `ReadFile`, `WriteFileAtomically` | C API |
| C API (`api/c_api.cc`) | none | `mc_*` | CLI, callers |
| CLI (`cli/main.cc`) | key bytes, terminal modes, key files | keygen, encrypt, decrypt, inspect | users |

A call of the C API checks its arguments, reads a file if it has a path,
runs encrypt or decrypt on the bytes, and hands the result over or writes it
atomically. There are no threads, locks, callbacks or caches inside the
library; calls may run in parallel, processes may share files.

What is hard, and what makes each part correct:

* **decrypt** reads numbers out of a file before anything about it is proven.
  Its checks decide what may be allocated, how far the walk may go, and
  whether later phases, which re-check nothing, stay inside their buffers. A
  file with a chunk moved, repeated, cut or taken from another file must be
  refused, and a whole file must never be.
* **encrypt** sizes its output before it compresses, seals with a counter
  nonce whose prefix may repeat across calls, and must only write files the
  reader, with its own copy of the limits, accepts.
* **fileio** must keep the destination whole through errors, kills, power loss
  and other writers, and must not widen the permissions of plaintext.
* **numbers**: 32-bit counts, `size_t` on 32-bit hosts, empty inputs, sizes at
  a multiple of the chunk size.
* **SecureBuffer / C API**: each block is wiped and freed once, by its last
  owner; out-parameters are written only on success, and a key that is drawn
  is drawn to its last byte.
  Files are replaced in place, by racing callers, and must keep their model.
* **aead / format**: an EVP call takes lengths of type int and answers what it
  was asked, in the order it was asked; each byte of a header or record must
  mean something, and each chunk's nonce and associated data must be its own.
* **CLI**: a key read is the key written, whatever its source; keygen replaces
  nothing; the exit code and the terminal are left right on every path out.

`PROJECT.json` lists the hazards one by one at the line where each bites.

## 2. Modules

| module | models | notes |
| --- | --- | --- |
| `Format` | `format.cc`, `ChunkPlainSize` | pure operators; constants are parameters, `FormatAssumption` says what the source's values satisfy |
| `Container` | the primitives and a file's contents | keys, ciphertexts and tags are free terms (below); `FinishedFile` says what a finished encryption is |
| `Encrypt` | `encrypt.cc` | `Threads` calling concurrently; refines `EncryptContract` |
| `EncryptContract` | `model_crypt.h:271-288` | abstract: a call adds one fresh finished encryption or nothing; what finished means is a parameter, `Finished(_)`; one status is added to the header's list (section 5) |
| `Decrypt` | `decrypt.cc` | one caller, every input; refines `DecryptContract` |
| `DecryptContract` | `model_crypt.h:290-307, 347-359` | abstract: the plaintext of a finished encryption or nothing |
| `AtomicFile` | `file_io.cc` | processes, directory, page cache, kills, power loss; refines `FileRegister` |
| `FileRegister` | `file_io.h:11-25` | abstract: a register with a durable value |
| `CApi` | `c_api.cc` | callers racing on paths; composes what `FileRegister`, `EncryptContract` and `DecryptContract` promise |
| `Ownership` | `secure_buffer.cc`, `HandOff`, `mc_free` | buffers and C callers over a heap that reuses blocks |
| `Aead` | `aead.cc` | one call at a time, EVP call by EVP call; refines `AeadContract` |
| `AeadContract` | `aead.h:8-58` | abstract: `Seal` and `Open` in one step each |
| `ByteLayout` | the codecs, serializers and offsets of `format.cc` | extends `Format`; bytes may change between writing and reading |
| `Cli` | `cli/main.cc` | runs of the tool that share files, variables and a terminal |
| `FormatProofs`, `DecryptProofs`, `EncryptProofs`, `SealedBytesProofs`, `AtomicFileProofs`, `OwnershipProofs`, `CApiProofs`, `CliProofs` | | theorems |
| `MCEncrypt`, `MCDecrypt`, `MCAtomicFile`, `MCCApi`, `MCOwnership`, `MCAead`, `MCByteLayout`, `MCCli` | | instances for TLC |

`Encrypt` and `Decrypt` meet in `Container!FinishedFile`: `Encrypt` shows that
every file its calls return is one, with a salt no other has; `Decrypt` assumes
exactly that of `Written` (`DecryptAssumption`, `HeadersAreFresh`). The theorems
`IssuedFilesSuitDecrypt` and `FilesHaveFreshHeaders` of `EncryptProofs` say so. Two modules
justify what others assume below them: `Aead` that the sequence of EVP calls
adds up to one ideal step of `Seal` or `Open` (it refines `AeadContract`), `ByteLayout` that a header
is the record of its fields `Format` takes it for; `OpensOnlyInItsPlace` of
`SealedBytesProofs` puts the two together. `CApi` stands on the contracts
of `Encrypt`, `Decrypt` and `AtomicFile`, `Cli` on `CApi`: a library call there changes its output in one step
or nothing.

### The primitives

AES-GCM is ideal: a tag equals `Mac(key, nonce, aad, ciphertext)` only if it
was computed over these four, and `TagsAreSealed` says that every tag in an
input came out of some `Seal` (or is `Noise`, which opens under nothing).
scrypt is injective on (key, salt, cost); passphrases that differ only in
trailing NULs derive the same key (HMAC pads a short key) and count as one
key. `ScryptDefined` is scrypt's own domain, N < 2^(16 r), outside which
`EVP_PBE_scrypt` fails. deflate is free to shrink a chunk to any smaller size
or not at all; inflate succeeds exactly when its stream ends at the promised
size. A 16-byte draw never repeats, an 8-byte draw may. Every OpenSSL call may
also fail, and so may every allocation of a byte or more.

### State and actions

**Decrypt.** `pc` names the place in `DecryptBuffer`; the actions are, in
code order, `CheckArguments` (219-226), `ReadHeader` (230-234),
`AllocateTable` (58-79), `WalkRecord` once per record (82-134), `WalkEnd`
(136-144), `DeriveKey`, `AllocateScratch`, `AllocateFirst` (250-276),
`OpenChunk` and `InflateChunk` (150-191, for every chunk), `AllocatePlaintext`
(286-299), `Finish`. `Inspect` is `InspectBuffer`. `buf` is the bytes each
SecureBuffer holds, `entries` the chunk table, `first` and `plaintext` the
recovered contents, `stream` what is in the scratch. `Fail` is any early
return: it wipes and frees every buffer and leaves the out-parameters alone.
`size_t` arithmetic wraps (`SizeT`, `SizeSub`).

**Encrypt.** Per thread: `CheckArguments` with `OptionsAccepted`
(ValidateOptions), `DrawSalt`, `DrawPrefix`, `DeriveKey`, `AllocateFile`
(worst case and its SIZE_MAX check), `AllocateScratch`, then `CompressChunk`
and `SealChunk` per chunk, and `Finish` (the copy-down and the hand-over).
`sealed` and `issued` are history variables: every `Seal` ever made, every
file returned with MC_OK. `calls` bounds how often a thread calls.

**AtomicFile.** One action per system call: `MakeTemp`, `Fchmod`, `WritePart`,
`Fsync`, `Close`, `Rename`; `OpenRead`, `Stat`, `ReadPart`, `EndRead`. Each
may fail; `FailWrite` closes and unlinks. The kernel is external: inode bytes
reach the disk in order at any time (`WriteBack`), the directory as a whole at
any time (`CommitDir`), `PowerLoss` keeps what reached the disk, `Kill` ends a
process and leaves its temporary (a `std::bad_alloc` before `MakeTemp` counts as
one, section 5). `ReadError` and `EndOfFile` are the two ways
a read stops short; `Truncate` is another program that empties the destination
in place (when `Truncations` is TRUE), after which `EndOfFile` fails the read
instead of looping. `unlink` of the call's own temporary is assumed to succeed
(the code ignores its result).

**CApi.** `Form` is a table of the entry points: where the input comes from and
`ReadFile`'s limit, the function called, where the output goes and its mode.
`StartCall` is the argument checks in code order (and the `std::string` that
may throw), then `ReadFile`, one of `EncryptBuffer`, `DecryptBuffer`,
`InspectBuffer`, then `WriteFileAtomically` or `HandOff`. `Fill` is the whole of
`mc_generate_key`: it draws into the caller's memory itself, so that a draw
that fails may leave a part there (`PartlyDrawn`). A path holds
a core and the keys it is sealed under, so that files can be sealed twice and
opened in any order. `disk` is what a `PowerLoss` leaves; `Persist` catches it
up. `mc_free` gives a buffer back; before that the caller may go on with it.

**Ownership.** `Construct`, `Reset`, `MoveConstruct`, `MoveAssign`, `Write`,
`HandOff`, `mc_free` and `Destroy` in any order. `heap[k].dirty` bounds which
bytes of a block may be nonzero, so that a wipe of too few bytes shows;
`OtherUse` is the rest of the process taking blocks and leaving bytes behind.

**Aead.** One action per EVP call, each of which may fail: `CtxNew`,
`SetCipher`, `SetKeyAndNonce`, `AddAad`, `Update`, then `FinalSeal`, `GetTag`
or `SetTag`, `FinalOpen`. The context knows at the end what it was given;
lengths go through an int (`Given`). `sealed` is a history of what was sealed.
For `AeadContract` a sealed box is read off its tag and its ciphertext (`Box`),
not off the arguments of the call: a text cut short is another box. What a call
presents is the box with its tag and ciphertext, or none.

**ByteLayout.** `written` is what was serialized, `bytes` and `record` what is
read. In between `ChangeHeader` or `ChangeRecord` changes a byte, or `Move`
looks at a record as another chunk's. Fields are put and read at the source's
offsets. Byte k of an integer is a quotient by `Weight(k)`, a product of `Base`,
`U16` and `U32` (a shift right by 8k bits), which the provers can compute with
where they know nothing of `^`; `IsFileHeader` says which values the struct's C
types admit.

**Cli.** A process is one run of the tool. `Start` parses its command line;
`ReadKeyFile`, `ReadKeyEnv` and `ReadKeyPrompt` are the key's sources, of which
the last turns the echo off, `fgets` reads and `FinishPrompt` turns it on
again; `LoadKeyFails` is every way to have no key. `mc_encrypt_file`,
`mc_decrypt_file` and `LibraryFails` are the library's call, `RunInspect` the
one that needs no key. `mc_generate_key`, `Create` and `Write` are keygen's
draw, its `open(O_EXCL)` and its single `write`, which may be short. `Kill`
ends a process anywhere; `ExitOrDie` also between a call's effect and the
exit. `given` is a history of what the source held, `stack` the array the key
came through.

## 3. Runs

| run | instance | shows |
| --- | --- | --- |
| `decrypt` | 8 finished files, 230 damaged ones, 3 keys and a short one; a `size_t` that some of the files do not fit | what is accepted (`AcceptsOnlySealed`), that whole files open (`IntactOpens`), bounds (`AllocationBound`, `WalkStaysInside`, `WritesHaveRoom`), `CallsReturn`; by the refinement of the contract: what comes out, for whole files only, and which statuses a file can cause |
| `encrypt` | one call; all option bounds; sizes around multiples of the chunk size and around what a `size_t` holds | `RoomForChunk`, `IssuesFinishedFiles` |
| `encrypt_shared` | two threads, two calls each, one key, prefixes that may collide; a chunk that may deflate, and the largest plaintext in the smallest chunks | `NonceNeverReused`, `WithinReadLimit`; refinement of the contract, whose files have fresh salts |
| `atomic_write` | two writers, two temporaries, three inodes | register refinement, `NoTempLeft`, `PrivateStaysPrivate` |
| `atomic_read` | a writer, a reader and a program that truncates; contents of 0, 2 and 3 parts | `ReadsOneVersion`; `CallsReturn`, for writers and readers |
| `api` | two callers on a model, an empty and a missing file, one on every entry point with arguments it takes and refuses | `ModelSurvives`, `PlaintextIsPrivate`, `OpenableFilesAreRead`, `WholeOrUntouched` |
| `ownership` | three buffers, two blocks of up to two bytes | `OneOwner`, `BlocksChangeHandsClean` |
| `cli` | three processes, 49 command lines, nine paths, four key sources | `PlainKeyIsTheSource`, `UsableKeysAreTaken`, `ExitCodesTell`, `EchoComesBack`, `UsedKeysAreWiped`, `NumbersAreInRange`, `KeysAreNotReplaced` |
| `byte_layout` | three headers and two records in bytes of 16 values | `ReadsWhatWasWritten`, `NoByteIsIgnored`, `ChunksAreToldApart` |
| `aead` | two calls of `Seal`, any number of `Open` | `OpenIsExact`; by `ImplementsContract` that a call is one step for its caller and seals all of its text or nothing |
| `encrypt_costs`, `cli_keys` | as `encrypt`; one key file with a bad sector | violations, section 5 |

`decrypt`, `encrypt`, `atomic_write`, `api` and `ownership` check a type
invariant as well, one per module proved about.

**Bounds.** The format's constants keep their ratios, not their size.

* `Decrypt`, `Encrypt`: chunks of 4 to 400 bytes, headers of 64, records of
  24. Three chunks are enough for a first, a middle and a last one, for two to
  be exchanged and one dropped; the files cover raw and deflated chunks, an
  empty plaintext and an exact multiple. `SizeMax` is put where the instances
  cross it: for some files the table, the plaintext or the worst case does not
  fit, for others they fit by less than a record, and record lengths near
  `U32` would wrap an offset. Two threads are enough for a collision of
  nonces, two calls for state kept between calls. In `encrypt` the largest
  files do not fit a `size_t`, which is what that run is for; in
  `encrypt_shared` they do, and one of them is `kMaxFileSize` bytes long.
* `AtomicFile`: two writers race while a crash's leftover holds a name and an
  inode; two parts make a file that can be half written, three one that is
  over `MaxParts`. In `atomic_read` there are two inodes, the one the reader
  holds and the one renamed over it; the theorem `ReadsAreWhole` covers any
  number. Calls are unbounded here and in `Decrypt`; `MaxCalls` bounds them in
  `Encrypt`, whose runs end there (`CHECK_DEADLOCK FALSE`).
* `CApi`: `MaxPlain` is 1 and `Framing` 1, so that one seal takes the model from
  the largest plaintext to the largest file, between `ReadFile`'s two limits.
  Keys are drawn of 32 bytes and of three sizes `Fill` refuses, one of which would
  be 32 again if it were cut to an int.
  The theorems cover all sizes, callers and calls.
* `Ownership`: three buffers for a move whose source or target is one of two
  others; two blocks, so that one is reused while the other lives.
* `Cli`: keys of 2 to 5 bytes (12 to 4096 in the code), of which keygen makes 4
  (32); drawn keys with and without line endings. `ULL` is 2^30, above every
  option's range, with a number that a 28-bit cast would bring into range.
  Three processes: two race on keygen, a third uses the key, or one encrypts,
  one decrypts and a third makes the key. Each runs once.
* `ByteLayout`: base 16 keeps the widths in bytes of every field while counts
  fill them; one byte changes, to four values, and a record moves among six
  indices that differ in single bytes and in their order.
* `Aead`: an int holds 2, texts have up to 3 bytes; two seals for pieces of
  one to be presented with the other's.

**Fairness.** Only `CallsReturn` needs it, in `Decrypt` and `AtomicFile`: weak
fairness on the steps of each process inside a call. The code takes no locks
and waits for nothing but system calls; a scheduler that runs the thread, and
calls on regular files that return, justify it. `EINTR` is retried and is not
assumed to go on for ever. Nothing obliges a caller to call, the kernel to
write back, or a signal to come.

**Symmetry** is used for threads, callers' names, inodes, blocks and writers
that no definition tells apart, in runs without liveness properties.

## 4. Proofs

Every theorem holds for all values of the constants that satisfy the named
assumptions of the modules, and each module's `Spec`. `PROJECT.json` lists them
with the property each states.

**`FormatProofs`**: the 32-bit chunk count is exact (`ChunkCountExact`), the
stored-size bound does not wrap (`MaxStoredSizeExact`), and the chunks cut the
plaintext into consecutive pieces (`EveryByteInOneChunk`). Its lemmas about
`RecordOffset`, a sum over the records before a place, carry most of what
follows: what the next record adds (`RecordOffsetDef`), that offsets grow
(`OffsetsGrow`, `OffsetAtLeast`) and depend on stored sizes only
(`OffsetsAgree`). Where they need induction it is over the set of the places at
which a claim fails: `LeastElement` gives the least of them, `SetInduction` that
there is none.

**`DecryptProofs`** first proves five invariants for every set of inputs,
keys and finished files, and every width of `size_t`: `TypeCorrect`,
`WalkIsInside`, `WritesFit`, `AllocationsAreBounded`, `OnlySealedIsAccepted`.
None is inductive. `DecryptInv` strengthens them:

* `CallInv`: types, and which arguments each place implies (past the header,
  `ParseFileHeader` accepted it, so its fields are in range);
* `TableInv`: every entry listed satisfies `EntryInv`, and `maxCompressed` fits
  in the input;
* `WalkInv` and `EntryInv`: `offset` is between the header and the end of the
  input and right after the last entry; entries listed lie inside the input
  in order, have their record's fields, are no longer than `maxCompressed`
  when compressed and exactly the chunk's size when raw;
* `BufferInv`: what each buffer holds at each place, the input having a
  record's room for each entry of the table;
* `AuthInv`: the chunks below `index` are authentic at their index under this
  key and header.

Each action preserves it (one lemma per action); the theorems follow with
`ChunkEndsInside` (a chunk's end is inside the plaintext) and
`AuthenticIsSealed` (an authentic chunk names its encryption through the
header in its associated data; with `HeadersAreFresh` all chunks name the same
one). A second invariant, `RecoverInv`, says what comes out:

* `PlaceInv`: the walk stands at the sum of the records before `index`, all of
  which parse, and a finished walk has used up the input;
* `ContentInv`: chunk 0 in its own buffer and the others at their index are the
  plaintext inside their records, the scratch the deflated chunk being read;
* `IntactOpens` itself, and that no call writes its output before MC_OK.

From the two follow `IntactFilesOpen` (each check passes on a finished file,
which is compared with the sender's `FinishedFile` check by check) and
`CallsKeepTheContract`: `Finish` and `Fail` are the contract's answer, every
other step a stutter. The refinement is where it is shown that what MC_OK hands
over is the plaintext that was encrypted, and that nothing in
a file causes MC_ERR_COMPRESS or MC_ERR_INVALID_ARG.

**`EncryptProofs`** proves for any number of threads and calls, all requests and
every width of `size_t`: `EncryptTypes`, `WorstCaseSuffices` (`RoomForChunk`),
`NoncesAreFresh` (`NonceNeverReused`), `FilesHaveFreshHeaders`
(`FreshHeaders`), `FilesAreReadable` (`WithinReadLimit`). `EncryptInv`
strengthens them:

* `CallInv`: past the argument check the options are in range and the header
  is the one made from the request, so `ChunkCountExact` applies to it;
* `RoomInv`: the file buffer is the worst case without wrapping, and `offset`
  is at most the header, `index` records and the plaintext bytes of the chunks
  before `index` (`Before`); `BeforeNext` and `WithinWorstCase` carry it over
  one record, `WorstCaseReadable` compares it with `kMaxFileSize`;
* `SealedInv`, `SaltInv`: a seal's counter is its chunk's index, its salt was
  drawn by the call that made it, that call is the only one using the salt,
  and its seals lie behind its `index`. The prefix plays no part, so nothing
  is assumed of it. That a 16-byte salt never repeats is assumed (`DrawnSalt`).

`FileInv` adds that `offset` is where the records written add up to and that
each of them is the sealed chunk of its place; a file whose last record is
written is then finished (`IssuedFilesAreFinished`). `CallsKeepTheContract` is
the refinement of `EncryptContract`: `Finish` adds the one file, unlike any
issued before because its salt is, every failing step answers with nothing.

**`SealedBytesProofs`** has two parts and a theorem of both. For texts of any
length and any width of int, a successful `Seal` sealed all it was given
(`SealsAreWhole`) and `Open` takes exactly what one `Seal` made
(`OpensAreExact`). `AeadInv` says what the
context holds before each EVP call (`ContextInv`, a part of the arguments that
grows), that the arguments fit in an int past the check (`ArgumentInv`, hence
`FittingIsGivenWhole`), what was written (`OutputInv`), and that every tag was
computed over whole texts (`SealedInv`). The cipher is a free term and nothing is
assumed of it but that a computed tag is not `Noise` (`AeadAssumption`).

`CallsAreOneStep` is the refinement of `AeadContract`. `CheckArguments` refuses,
`GetTag` seals and `FinalOpen` opens, each failing EVP call breaks the call
(`FailBreaks`), and the others change nothing the caller sees (`GoingOnIsNoStep`).
That the right box comes out is `OwnTagWasSealed` (only a `Seal` makes the tag of
valid arguments) and `SealedDeciphers`; that there is one box at most to choose
from is `OneIsPresented`.

The second part proves the three properties of `byte_layout` for every header,
record and change, in bytes of any number of values: `HeadersAreReadBack`,
`EveryByteCounts` and `ChunksHaveTheirOwnBytes`. The invariant, `LayoutInv`, is
plain (64 and 24 bytes, whatever changes); the work is in the codecs:

* an integer and its bytes, in both directions: `ReadUndoesWrite` and
  `WriteUndoesRead16` to `64`, from quotients and remainders (`Quotient`,
  `DivideTwice`), a 32-bit integer as two of 16 bits and a 64-bit one as two of
  32 bits (`JoinWords`, `LowBytes`, `HighBytes`);
* what a write leaves alone (`Wrote`), hence that no field of the header is
  written over another (`HeaderIsHeld`) and that no byte lies between them
  (`OneHeader`). `HoldsHeader` relates bytes and fields; reading what was
  written and writing what was read are both consequences of it
  (`HeldHeaderIsRead`, `AcceptedHeaderIsHeld`);
* that associated data and nonces are one to one in what they are built from
  (`AadTellsApart`, `NonceTellsApart`).

`OpensOnlyInItsPlace` combines `OpensAreExact` with the layout: a text that opens
under the associated data a reader rebuilds was sealed, and not as a chunk of a
file with another header, at another index, or of another size or flags. The
assumptions are the source's widths, that U32 is the value of four bytes
(`ByteLayoutAssumption`), and that a header written fits its struct
(`WrittenAssumption`).

**`AtomicFileProofs`** proves everything `atomic_write` and `atomic_read` check
but liveness, for any number of processes, names, inodes and contents: types,
`ReadsAreWhole`, `PrivateBytes`, `TemporariesGo` and, when no other program
truncates the file in place, the refinement `DestinationIsARegister`. The
inductive invariant `AtomicInv` says what each inode is to whom:

* each live temporary names an inode that no other name or writer has, holding
  the first `done` parts of its writer's job, with 0600 or the job's mode;
* every other inode a name reaches, now or after a power loss, is whole and,
  unless truncated, entirely on disk: `rename` comes after `fsync`;
* a reader's inode keeps its bytes while the reader holds it, and `got` is
  their first `done` parts.

The refinement follows step by step: `Rename` is the register's write,
`CommitDir` its persistence, every other step a stutter or the start or end of
a call.

**`OwnershipProofs`** proves `OwnershipTypes`, `BlocksHaveOneOwner` and
`BlocksAreClean` for any number of buffers and blocks of any size. The
inductive invariant adds to `TypeOK` and `OneOwner` that the part of a block
that may be dirty is no longer than what its owner will wipe, which is what
makes `mc_free` with a size shorter than the block safe.

**`CApiProofs`** proves all five properties of `api`, for any callers, paths,
calls and sizes: `ApiTypes`, `ModelsSurvive`, `PlaintextsArePrivate`,
`SealedFilesAreRead`, `CallsAreWholeOrUntouched`. `CApiInv` says of each version a
path has, in memory and on disk, that it is `Readable` (a sealed one no larger
than `kMaxFileSize`), holds the path's model when only calls in place write
there, and is sealed when others may read it; and of each call that what it
carries to such a path holds the model as well. It assumes that a path's first
contents are no larger than the decrypting forms read (`InstanceAssumption`).

**`CliProofs`** proves all seven properties of `cli` for any number of runs,
command lines, files, variables and typed lines: `PlainKeysAreWhole`,
`UsableKeysAreNotRefused`, `ExitCodesAreReliable`, `TheTerminalIsRestored`,
`KeysAreWiped`, `NumbersAreNotBent` and the action property `KeysStay`. `CliInv`
relates the parts of the state that no single action sees together:

* `RunInv` (`Fits`): what a run's command line, key, array and source have to do
  with each other at its step, so that what `UseKey` decides is known when the
  library is called and after exit 2;
* `FileInv` (`Shows`): a file made by a run tells how far the run got; a short
  one is keygen's at `Write` or after exit 1 or a signal. This is what makes
  `ExitCodesTell` inductive when other runs write on the same path;
* `EchoInv`: one run at a time is at the prompt and, unless one was killed
  there, it found an echoing terminal.

It assumes that texts are sequences of bytes of which a typed line ends at its
first newline (`TextAssumption`), and that every path on a command line is
modelled (`PathAssumption`). The attempt corrected `UsableKeysAreTaken` twice:
a key file keygen made may still fail to be read (`Readable`), and a typed line
that just fills the buffer is refused (section 5).

**Only model-checked**: `CallsReturn` of `Decrypt` and `AtomicFile`, which is
liveness. Every invariant and every action property of the passing runs is
proved.

## 5. Where code and documentation disagree

Two are shown by runs:

* `encrypt_costs`: r = 1 with log_n of 16 or more passes validation, and then
  every call fails with MC_ERR_CRYPTO, because scrypt is not defined there.
* `cli_keys`: `ReadKeyFile` (`main.cc:148`) never asks `ferror`; after a read
  error the bytes that came before it are taken for the key, and a model is
  sealed under a prefix of the key meant. `main.cc:11` says "the file's bytes".

The others were found in the same way; each shows when the formula is checked
as an INVARIANT or PROPERTY of the configuration named:

| where | the code | what says otherwise | shown by |
| --- | --- | --- | --- |
| `decrypt.cc:274` | chunk 0's buffer is `min(plaintext_size, chunk_size)`, both declared, up to 64 MiB before anything authenticates | `model_crypt.h:158-159` "never allocates on a declared size before authenticating the chunk" (`decrypt.h:26-27` states the bound the code keeps) | `NeverAllocatesDeclaredSize`, `MCDecrypt.cfg` |
| `decrypt.cc:264` | the scratch is allocated when a record is compressed | `decrypt.cc:120-123` "conditional on the header" | `ScratchFollowsHeader`, `MCDecrypt.cfg` |
| `decrypt.cc:201` | `mc_inspect_buffer` also returns MC_ERR_UNSUPPORTED and MC_ERR_TOO_LARGE | `model_crypt.h:356` lists neither | `InspectStatuses`, `MCDecrypt.cfg` |
| `encrypt.cc:76` | options within each range are refused when their product exceeds 1 GiB | `model_crypt.h:196, 204` (`Format.md` has the bound) | `DocumentedRangesAccepted`, `MCEncrypt.cfg` |
| `c_api.cc:232` | decrypting an empty file gives MC_ERR_INVALID_ARG: `ReadFile` leaves a null pointer | `model_crypt.h:300-302, 328` do not list it | `DecryptStatuses`, `MCCApi.cfg` |
| `encrypt.cc:189`, `compress.cc:59` | `mc_encrypt_buffer` returns MC_ERR_COMPRESS when zlib fails | `model_crypt.h:284-285` does not list it, `:134-137` describes it for decryption only | `ImplementsContract` with `Failures` the `DocumentedFailures`, `MCEncryptShared.cfg` |
| `c_api.cc:124`, `random.cc:29` | `mc_generate_key` gives the caller's memory to `RAND_bytes`, which promises nothing of a buffer it fails to fill and fills a large one in pieces | `random.h:23` "\p out is untouched on failure"; `c_api.cc:8-11`, `docs/Usage.md:191-193` of every out-parameter | `FailedDrawsTouchNothing`, as a PROPERTY of `MCCApi.cfg` |
| `main.cc:133` | a `\r` before the newline of a key file is dropped too | `docs/Usage.md:54-57` "Anything else — a `\r\n`, two newlines — is part of the key" | `KeyIsTheSource`, `MCCli.cfg` with `ReadErrors = {}` |
| `main.cc:225` | a typed line with a NUL gives the bytes before it | `main.cc:229-232` means to prevent a key "from a prefix of what was typed" | the same |
| `main.cc:149, 233` | the size is checked before the newline is stripped: 4096 bytes are a key without one and too long with one | `main.cc:58-60` "equivalent" | `UsableKeysAreTaken` with `Len(Meant(a, text))` for `Len(text)` in the first line of `TooLong`, `MCCli.cfg` |
| `main.cc:233` | a typed line of exactly 4096 bytes that ends with the input, without a newline, fills the buffer and is refused as longer than 4096 bytes | `main.cc:227-229` "A full buffer with no newline therefore means the line was longer than the buffer" | `UsableKeysAreTaken` without the second disjunct of `TooLong`, `MCCli.cfg` |
| `main.cc:205` | a signal at the prompt leaves the terminal without echo, and the next run takes that as the setting to restore | `main.cc:185-188` "restoring the terminal on every path out" | `EchoComesBack` without its exception, `MCCli.cfg` |
| `main.cc:333` | `" +4096"` is taken: the sign is looked for in the first character only, `strtoull` skips the space | `main.cc:328-329` "did not come from an empty or sign-prefixed input" | `NumbersAreInRange` with `n.sign = ""` moved to the conclusion, `MCCli.cfg` |

One more is no formula: `WriteFileAtomically` builds its temporary's path in
`std::string`s outside any `try` (`file_io.cc:148-155`, called at `c_api.cc:203`
and `:241`), and `std::bad_alloc` from there leaves through `extern "C"`;
`c_api.cc:13-16` says that each `std::string` in the file paths is wrapped in a
`try`. What follows is undefined; the model takes the end of the process
(`Kill`), before anything is made.

## 6. What is not modelled

* The primitives inside: AES-GCM, scrypt, deflate and OpenSSL's generator are
  external; `kdf.cc` and `compress.cc` appear as the outcomes their callers
  tell apart (components "kdf" and "compression" are partly modelled).
* Time, memory and side channels, and what an optimiser does to a wipe.
* Files: named pipes and devices (`open` of a pipe without a writer waits,
  `file_io.cc:93`); permissions of directories and `umask`, which `fchmod`
  overrides; a failing `unlink` of a temporary; keygen's durability, which it
  does not promise (no `fsync`, `main.cc:434`); a key file that exists and may
  not be read (it gives exit 2 like one that does not exist).
* What is left in the command line tool's stack arrays by runs that use no key:
  `ReadKeyFile` leaves the first 4097 bytes of a file that is too large
  (`main.cc:152-157`), keygen its draw when the key file cannot be created
  (`:424-427`), or a part of it when the draw fails. The first two are in the
  model (`stack`) and outside `UsedKeysAreWiped`.
* `WriteFileAtomically`'s refusal of a null `data` with a size, which no caller
  in `src/` gives it.
* The terminal: line editing and its limit on the length of a line; job
  control beyond one process at a time.
* What the tool prints. `--key-file ""` is an absent option, as in the code.
* `version`, the tests, scripts and build files keep no state.

## 7. Plan

Done: a module for every component that keeps state, the contracts of `Encrypt`,
`Decrypt`, `AtomicFile` and `Aead` with their refinements, and proofs of every
property the passing runs check but those named at the end of section 4. Left is
a refinement of `CApi`'s one-step write by `AtomicFile` with several paths.
