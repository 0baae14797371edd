------------------------------- MODULE Mailbox -------------------------------
(***************************************************************************)
(* What the notifications pack promises its callers, whichever way a       *)
(* message takes: a message that was handed over is delivered or dropped   *)
(* in the end and stays so, it is delivered only after the provider has    *)
(* accepted it, and the provider is asked at most MaxCalls times.          *)
(***************************************************************************)
EXTENDS Naturals

CONSTANTS Letters,   \* the messages
          MaxCalls   \* at least 1

VARIABLES mail,      \* of each letter: "none", "queued", "delivered" or "dropped"
          calls,     \* of the provider, for each letter
          accepted   \* how many of them the provider has accepted

vars == <<mail, calls, accepted>>

Init == /\ mail = [m \in Letters |-> "none"]
        /\ calls = [m \in Letters |-> 0]
        /\ accepted = [m \in Letters |-> 0]

HandOver(m) == /\ mail[m] = "none"
               /\ mail' = [mail EXCEPT ![m] = "queued"]
               /\ UNCHANGED <<calls, accepted>>

(* A call may come late, when the letter is settled already: at least once.*)
Call(m) == /\ mail[m] # "none" /\ calls[m] < MaxCalls
           /\ calls' = [calls EXCEPT ![m] = @ + 1]
           /\ \/ accepted' = [accepted EXCEPT ![m] = @ + 1]
              \/ UNCHANGED accepted
           /\ UNCHANGED mail

Deliver(m) == /\ mail[m] = "queued" /\ accepted[m] > 0
              /\ mail' = [mail EXCEPT ![m] = "delivered"]
              /\ UNCHANGED <<calls, accepted>>

(* Any number of letters are given up at once.                             *)
Drop(S) == /\ \A m \in S : mail[m] = "queued"
           /\ mail' = [m \in Letters |-> IF m \in S THEN "dropped" ELSE mail[m]]
           /\ UNCHANGED <<calls, accepted>>

Next == \/ \E m \in Letters : HandOver(m) \/ Call(m) \/ Deliver(m)
        \/ \E S \in SUBSET Letters : Drop(S)

Safety == Init /\ [][Next]_vars

Settles == \A m \in Letters : mail[m] = "queued" ~> mail[m] # "queued"

Spec == Safety /\ Settles
=============================================================================
