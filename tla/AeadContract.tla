---------------------------- MODULE AeadContract ----------------------------
(***************************************************************************)
(* What aead::Seal and aead::Open promise encrypt.cc and decrypt.cc        *)
(* (aead.h:8-58): each is one step.  A sealed box holds a text under a     *)
(* key, a nonce and associated data; it opens under these three and gives  *)
(* its text, and under no others, and nothing opens that was not sealed.   *)
(* A call that fails has done nothing.                                     *)
(***************************************************************************)
EXTENDS Sequences

CONSTANTS Keys, Nonces, nullptr, Aads, Texts

VARIABLES
  phase,   \* "idle", "busy" or "returned"
  asked,   \* the request: what to seal, or what to open and under what
  reply,   \* [status, text]
  sealed   \* boxes [key, nonce, aad, text]

contractVars == <<phase, asked, reply, sealed>>

NoRequest == [op |-> "none"]
NoReply == [status |-> "none", text |-> <<>>]

Idle == phase = "idle" /\ asked = NoRequest /\ reply = NoReply
InitContract == Idle /\ sealed = {}

----------------------------------------------------------------------------
Ask(request) ==
  /\ phase = "idle" /\ phase' = "busy" /\ asked' = request
  /\ UNCHANGED <<reply, sealed>>

\* `valid`: no pointer is null that must not be, and no length too great.
AskSeal ==
  \E k \in Keys \cup {nullptr}, n \in Nonces \cup {nullptr}, a \in Aads,
     t \in Texts, v \in BOOLEAN :
    /\ v => nullptr \notin {k, n}
    /\ Ask([op |-> "seal", valid |-> v,
            box |-> [key |-> k, nonce |-> n, aad |-> a, text |-> t]])

\* What is presented is one of the boxes or something else.
AskOpen ==
  \E k \in Keys \cup {nullptr}, n \in Nonces \cup {nullptr}, a \in Aads,
     v \in BOOLEAN, p \in {{}} \cup {{b} : b \in sealed} :
    /\ v => nullptr \notin {k, n}
    /\ Ask([op |-> "open", valid |-> v, key |-> k, nonce |-> n, aad |-> a,
            presented |-> p])

----------------------------------------------------------------------------
Reply(status, text) ==
  /\ phase = "busy" /\ phase' = "returned" /\ UNCHANGED asked
  /\ reply' = [status |-> status, text |-> text]

Refuse == ~asked.valid /\ Reply("MC_ERR_INVALID_ARG", <<>>) /\ UNCHANGED sealed
Break == asked.valid /\ Reply("MC_ERR_CRYPTO", <<>>) /\ UNCHANGED sealed

Seal ==
  /\ asked.valid /\ asked.op = "seal"
  /\ Reply("MC_OK", <<>>) /\ sealed' = sealed \cup {asked.box}

Opens(b) == b.key = asked.key /\ b.nonce = asked.nonce /\ b.aad = asked.aad
Open ==
  /\ asked.valid /\ asked.op = "open" /\ UNCHANGED sealed
  /\ \/ \E b \in asked.presented : Opens(b) /\ Reply("MC_OK", b.text)
     \/ ~(\E b \in asked.presented : Opens(b)) /\ Reply("MC_ERR_AUTH", <<>>)

Reset == phase = "returned" /\ Idle' /\ UNCHANGED sealed

NextContract == AskSeal \/ AskOpen \/ Refuse \/ Break \/ Seal \/ Open \/ Reset

ContractSpec == InitContract /\ [][NextContract]_contractVars
=============================================================================
