---------------------------- MODULE FileRegister ----------------------------
(***************************************************************************)
(* What file_io.h:11-25 promises of a destination that is only ever        *)
(* written through WriteFileAtomically: it is a register.  A write that    *)
(* succeeds replaces its contents in one step, one that fails or is killed *)
(* leaves them alone, and a power loss falls back to the last contents     *)
(* that were made durable, never to a mixture or a part.                   *)
(***************************************************************************)
CONSTANTS Writers, Jobs, Contents(_), Absent, NoJob

VARIABLES
  value,    \* what opening the destination would read
  durable,  \* what it would read after a power loss
  phase,    \* of each writer's call
  asked     \* what it was asked to write

vars == <<value, durable, phase, asked>>

Whole == {Contents(j) : j \in Jobs} \cup {Absent}

Init ==
  /\ value \in Whole /\ durable = value
  /\ phase = [w \in Writers |-> "idle"] /\ asked = [w \in Writers |-> NoJob]

Ask(w) ==
  /\ phase[w] = "idle" /\ phase' = [phase EXCEPT ![w] = "busy"]
  /\ \E j \in Jobs : asked' = [asked EXCEPT ![w] = j]
  /\ UNCHANGED <<value, durable>>

Replace(w) ==
  /\ phase[w] = "busy" /\ phase' = [phase EXCEPT ![w] = "MC_OK"]
  /\ value' = Contents(asked[w]) /\ UNCHANGED <<durable, asked>>

Refuse(w) ==
  /\ phase[w] = "busy" /\ phase' = [phase EXCEPT ![w] = "MC_ERR_IO"]
  /\ UNCHANGED <<value, durable, asked>>

\* The caller takes the status, or the process is killed.
Leave(w) ==
  /\ phase[w] # "idle" /\ phase' = [phase EXCEPT ![w] = "idle"]
  /\ asked' = [asked EXCEPT ![w] = NoJob] /\ UNCHANGED <<value, durable>>

Persist == durable' = value /\ UNCHANGED <<value, phase, asked>>

PowerLoss ==
  /\ value' = durable /\ UNCHANGED durable
  /\ phase' = [w \in Writers |-> "idle"]
  /\ asked' = [w \in Writers |-> NoJob]

Next ==
  \/ \E w \in Writers : Ask(w) \/ Replace(w) \/ Refuse(w) \/ Leave(w)
  \/ Persist \/ PowerLoss

RegisterSpec == Init /\ [][Next]_vars
=============================================================================
