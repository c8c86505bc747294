-------------------------------- MODULE Mailboxes --------------------------------
(***************************************************************************)
(* What a subscriber may expect of the event bus: a mailbox per handler,   *)
(* to which events are added at the end and from which the handler takes   *)
(* them one at a time, each once.                                          *)
(***************************************************************************)
EXTENDS Sequences, SequencesExt

CONSTANT Handlers
VARIABLE mailbox

Init == mailbox = [h \in Handlers |-> <<>>]

Deliver == \A h \in Handlers : IsPrefix(mailbox[h], mailbox'[h])

Take(h) ==
  /\ mailbox[h] # <<>>
  /\ mailbox' = [mailbox EXCEPT ![h] = Tail(@)]

Next == Deliver \/ \E h \in Handlers : Take(h)

Spec == Init /\ [][Next]_mailbox
=============================================================================
