--------------------------- MODULE MCConversations ---------------------------
(* One conversation with a forecaster that never writes, a reporter that needs the   *)
(* forecast, a generator that may extract nothing, and the summary; two intents.     *)
EXTENDS Conversations

MCKeyword == [forecast |-> "D", open |-> "none"]

MCTargetChoices == {{}, {"G", "J"}, {"A", "G"}}

MCRequests ==
    [intent : {"forecast"}, requested : {"none", "G"}, replan : {{}}]
        \cup [intent : {"open"}, requested : {"none"}, replan : {{}, {"G"}}]
=============================================================================
