------------------------------ MODULE Transport ------------------------------
(***************************************************************************)
(* The pubky-messenger conversation as common/src/transport.rs uses it.    *)
(*                                                                         *)
(* Each direction of a conversation is one half: the messages its sender   *)
(* keeps on its own homeserver, oldest first, and how many of them the     *)
(* receiver has already processed.  A message is never consumed by being   *)
(* read: only its sender can delete it, and the receiver tells an old      *)
(* message from a new one by its own set of processed message ids.         *)
(* receive_from processes every message it fetches, so that set is always  *)
(* a prefix of the half and a count stands for it.                         *)
(***************************************************************************)
EXTENDS Sequences, Naturals

EmptyHalf == [sent |-> <<>>, read |-> 0]

Halves(Messages) == [sent : Seq(Messages), read : Nat]

\* send_dm: the message is stored behind the ones already there.
Post(half, message) == [half EXCEPT !.sent = Append(half.sent, message)]

\* receive_from: the messages not processed before ...
Unread(half) == SubSeq(half.sent, half.read + 1, Len(half.sent))

\* ... which are all processed by the same call.
Fetched(half) == [half EXCEPT !.read = Len(half.sent)]

\* clear_messages_with_peer as its caller's own half sees it: the messages
\* are deleted, whether or not the peer has read them.
Erased(half) == EmptyHalf

\* clear_messages_with_peer as the peer's half sees it: the caller forgets
\* which of the peer's messages it has processed.  They are still stored.
Forgotten(half) == [half EXCEPT !.read = 0]

\* The wait_for_... loops scan the fetched messages in order and return at
\* the first one they recognise; the rest of that fetch is dropped.
Matches(messages, types, intents) ==
    {i \in DOMAIN messages :
        messages[i].type \in types /\ messages[i].intent \in intents}

FirstMatch(messages, types, intents) ==
    messages[CHOOSE i \in Matches(messages, types, intents) :
                \A j \in Matches(messages, types, intents) : i <= j]
==============================================================================
