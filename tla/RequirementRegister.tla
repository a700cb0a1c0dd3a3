------------------------- MODULE RequirementRegister --------------------------
(***************************************************************************)
(* What a conversation about requirements promises, with no task, queue,   *)
(* checkpoint, question or crash in sight: a register that a message       *)
(* changes at most once since the conversation last started, however often *)
(* it is delivered, and that becomes a version at most once, when the trip *)
(* can be planned with what was heard.  A message that is not understood   *)
(* is heard and says nothing.  It is no promise that an answer is kept:    *)
(* a first message that comes again starts over, and the answers that were *)
(* heard before it are forgotten.                                          *)
(***************************************************************************)
CONSTANTS Messages,
          Says,           \* what a message may be understood to say
          Blank, Before,  \* no requirements, those the conversation starts from
          Heard(_, _),    \* the requirements after one more message
          Ready(_)        \* they can be planned for

VARIABLES
  req,    \* the requirements
  heard,  \* the messages they come from
  saved,  \* whether they have become a version
  version \* its requirements

register == <<req, heard, saved, version>>

RegisterInit == req = Blank /\ heard = {} /\ ~saved /\ version = Blank

\* The conversation starts, or starts over and forgets what it has heard: its
\* first message is delivered.
Start ==
  /\ ~saved
  /\ req' = Before /\ heard' = {}
  /\ UNCHANGED <<saved, version>>

Hear(m, said) ==
  /\ ~saved /\ m \notin heard
  /\ req' = Heard(req, said) /\ heard' = heard \union {m}
  /\ UNCHANGED <<saved, version>>

Save ==
  /\ ~saved /\ heard # {} /\ Ready(req)
  /\ saved' = TRUE /\ version' = req
  /\ UNCHANGED <<req, heard>>

RegisterNext == Start \/ Save \/ \E m \in Messages, said \in Says : Hear(m, said)

RegisterSpec == RegisterInit /\ [][RegisterNext]_register
=============================================================================
