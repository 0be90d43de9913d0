----------------------------- MODULE MCPollLoop ------------------------------
(***************************************************************************)
(* PollLoop with two client slots, on a table of two keys, one of them     *)
(* with a byte above 127.                                                  *)
(***************************************************************************)
EXTENDS PollLoop

WireKeys == {<<97>>, <<98, 255>>}
WireVals == {<<0, 7>>, <<9>>}

Copied == [k \in WireKeys |-> <<0, 7>>]

WireRequests == {Msg("UPDATE", <<98, 255>>, <<9>>), Plain("KEYS")}

\* Every request, and every reply that some table gives to it, is parsed as
\* what was serialised.
Received(x) == buffer_to_message(message_to_buffer(x))

ASSUME RoundTrip ==
  \A m \in ClientRequest :
    /\ Requested(Received(RequestMessage(m))) = m
    /\ \A r \in {Answer(m, t) : t \in Table} \ {GarbageReply} :
         Returned(Received(ReplyMessage(m, r))) = r
=============================================================================
