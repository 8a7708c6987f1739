----------------------------- MODULE HelperCalls -----------------------------
(***************************************************************************)
(* What a session with the helper promises its client.  One call is in     *)
(* progress at a time.  The service decides it at most once, and the call  *)
(* returns what was decided for it, or fails because the service has ended *)
(* the session; once it has, no further call is decided.                   *)
(***************************************************************************)
CONSTANTS
    Calls,           \* what a client may ask
    Outcomes(_, _),  \* what may be answered to a call, given the open file
    Opened(_, _, _), \* the open file once a call has had an answer
    Final(_),        \* the answers that end the session
    None, Lost, Refused

VARIABLES
    call,    \* the call in progress
    answer,  \* what the service decided for it
    result,  \* what the last call returned
    file,    \* the partition open in the session
    ended    \* the service has ended the session

vars == <<call, answer, result, file, ended>>

Init ==
    /\ call = None
    /\ answer = None
    /\ result = None
    /\ file = None
    /\ ended = FALSE

Call ==
    /\ call = None
    /\ call' \in Calls
    /\ result' = None
    /\ UNCHANGED <<answer, file, ended>>

\* The client's own check refuses a call: the service never hears of it.
Refuse ==
    /\ call = None
    /\ result' = Refused
    /\ UNCHANGED <<call, answer, file, ended>>

Decide ==
    /\ call # None
    /\ answer = None
    /\ ~ended
    /\ \E a \in Outcomes(call, file) :
        /\ answer' = a
        /\ file' = Opened(call, file, a)
        /\ ended' = Final(a)
    /\ UNCHANGED <<call, result>>

Return ==
    /\ answer # None
    /\ result' = answer
    /\ call' = None
    /\ answer' = None
    /\ UNCHANGED <<file, ended>>

Fail ==
    /\ call # None
    /\ ended
    /\ result' = Lost
    /\ call' = None
    /\ answer' = None
    /\ UNCHANGED <<file, ended>>

End ==
    /\ ended' = TRUE
    /\ UNCHANGED <<call, answer, result, file>>

Next == Call \/ Refuse \/ Decide \/ Return \/ Fail \/ End

Spec == Init /\ [][Next]_vars

=============================================================================
