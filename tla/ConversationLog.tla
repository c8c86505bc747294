--------------------------- MODULE ConversationLog ---------------------------
(***************************************************************************)
(* What agent-runtime owes to a conversation, whatever happens inside:     *)
(* the committed messages of a session only grow, a whole turn at a time;  *)
(* an approval is decided once; and the turn that stores the result of a   *)
(* guarded call settles its approval.  A session in which a turn overtook  *)
(* the one before goes adrift: its messages are still its own, but nothing *)
(* more is promised of them, nor of the approvals of its calls.            *)
(***************************************************************************)
EXTENDS Naturals, Sequences, SequencesExt

CONSTANTS Sessions, Calls, Messages,
          IsResult(_, _)  \* IsResult(m, c): message m is a result of call c

VARIABLES log,       \* log[s]: the messages of session s
          approval,  \* approval[c]: "none", "pending", "approved" or "rejected"
          adrift,    \* the sessions of which nothing more is promised
          loose      \* their calls

logVars == <<log, approval, adrift, loose>>

LogInit ==
  /\ log = [s \in Sessions |-> <<>>]
  /\ approval = [c \in Calls |-> "none"]
  /\ adrift = {}
  /\ loose = {}

\* The only ways an approval may move in one turn.
Moves == {<<"none", "pending">>, <<"none", "none">>, <<"pending", "pending">>,
          <<"pending", "approved">>, <<"pending", "rejected">>,
          <<"approved", "approved">>, <<"rejected", "rejected">>}

ResultIn(q, c) == \E i \in DOMAIN q : IsResult(q[i], c)

\* Session s gains the messages of one turn.
Gains(s) ==
  /\ IsPrefix(log[s], log'[s])
  /\ \A c \in Calls : ResultIn(log'[s], c) => approval'[c] # "pending"

\* A turn of session s is committed; other sessions are untouched.
Turn(s) ==
  /\ s \notin adrift => Gains(s)
  /\ log'[s] \in Seq(Messages)
  /\ log' = [log EXCEPT ![s] = log'[s]]
  /\ DOMAIN approval' = Calls
  /\ \A c \in Calls \ loose : <<approval[c], approval'[c]>> \in Moves
  /\ UNCHANGED <<adrift, loose>>

\* A turn overtakes another, or a session adrift has a new call.
Lose ==
  /\ adrift \subseteq adrift' /\ loose \subseteq loose'
  /\ adrift = adrift' => adrift # {}
  /\ UNCHANGED <<log, approval>>

LogNext == (\E s \in Sessions : Turn(s)) \/ Lose
LogSpec == LogInit /\ [][LogNext]_logVars
=============================================================================
