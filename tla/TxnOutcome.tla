----------------------------- MODULE TxnOutcome -----------------------------
(***************************************************************************)
(* What a transactional producer promises: the messages (and offsets) of a *)
(* transaction are committed together or not at all, and what the          *)
(* application is told is what happened.                                   *)
(*                                                                         *)
(* A message is <<transaction, partition>>.  It is accepted by the API,    *)
(* stored in a log (open), and decided with every other open message.      *)
(***************************************************************************)
EXTENDS Naturals

CONSTANTS Txns, Places

VARIABLES accepted, open, committed, aborted, told

vars == <<accepted, open, committed, aborted, told>>

Of(t, S) == {m \in S : m[1] = t}

Init == /\ accepted = {} /\ open = {} /\ committed = {} /\ aborted = {}
        /\ told = [t \in Txns |-> "none"]

\* The API accepts a message of a transaction whose outcome was not told.
Accept(m) ==
    /\ told[m[1]] = "none"
    /\ accepted' = accepted \cup {m}
    /\ UNCHANGED <<open, committed, aborted, told>>

\* A log stores it; never once the transaction was committed or told over.
Store(m) ==
    /\ told[m[1]] = "none" /\ Of(m[1], committed) = {}
    /\ open' = open \cup {m}
    /\ UNCHANGED <<accepted, committed, aborted, told>>

\* A commit takes everything that was accepted; there is nothing else open.
Commit ==
    /\ open # {}
    /\ \E t \in Txns : open = Of(t, open) /\ Of(t, accepted) \subseteq open
    /\ committed' = committed \cup open /\ open' = {}
    /\ UNCHANGED <<accepted, aborted, told>>

Abort ==
    /\ open # {}
    /\ aborted' = aborted \cup open /\ open' = {}
    /\ UNCHANGED <<accepted, committed, told>>

TellCommit(t) ==
    /\ told[t] = "none" /\ Of(t, accepted) \subseteq committed
    /\ told' = [told EXCEPT ![t] = "commit"]
    /\ UNCHANGED <<accepted, open, committed, aborted>>

TellAbort(t) ==
    /\ told[t] = "none" /\ Of(t, committed \cup open) = {}
    /\ told' = [told EXCEPT ![t] = "abort"]
    /\ UNCHANGED <<accepted, open, committed, aborted>>

Next == \/ \E m \in Txns \X Places : Accept(m) \/ Store(m)
        \/ Commit \/ Abort
        \/ \E t \in Txns : TellCommit(t) \/ TellAbort(t)

Spec == Init /\ [][Next]_vars
=============================================================================
