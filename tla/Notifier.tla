------------------------------ MODULE Notifier ------------------------------
(***************************************************************************)
(* send_alert of the notification agent (agents/notifications.py): every   *)
(* configured provider in turn, each a POST that is tried again after an   *)
(* HTTP error or a time-out (core/retry.py), which may have come after the *)
(* alert was taken.  Without a provider send_alert returns at once.        *)
(***************************************************************************)
EXTENDS Tasks, Integers, Sequences

CONSTANTS
    Configured,     \* the providers with settings
    MaxRetries,     \* max_retries
    MaxNetFaults    \* bound on failed POSTs

ASSUME NotifierAssumption ==
    /\ Configured \subseteq {"slack", "teams", "jira"} /\ Configured # {}
    /\ MaxRetries \in Nat /\ MaxNetFaults \in Nat

VARIABLES
    queue,       \* per task, the providers its alert has still to go to
    attempt,     \* per task, the attempts that failed at the first of them
    posted,      \* per task and provider, the alerts it took
    failures,    \* per task, the providers that answered False
    doubts,      \* per task and provider, failed POSTs that may have been taken
    netFaults

alertVars == <<queue, attempt, posted, failures, doubts, netFaults>>

IfConfigured(c) == IF c \in Configured THEN <<c>> ELSE <<>>

Providers == IfConfigured("slack") \o IfConfigured("teams") \o IfConfigured("jira")

AlertInit ==
    /\ queue = [p \in Processes |-> Providers]
    /\ attempt = [p \in Processes |-> 0]
    /\ posted = [p \in Processes |-> [c \in Configured |-> 0]]
    /\ failures = [p \in Processes |-> {}]
    /\ doubts = [p \in Processes |-> [c \in Configured |-> 0]]
    /\ netFaults = 0

-----------------------------------------------------------------------------
First(p) == Head(queue[p])

Took(p) == posted' = [posted EXCEPT ![p][First(p)] = @ + 1]

NextProvider(p) ==
    /\ queue' = [queue EXCEPT ![p] = Tail(@)]
    /\ attempt' = [attempt EXCEPT ![p] = 0]

GiveUp(p) ==
    /\ failures' = [failures EXCEPT ![p] = @ \union {First(p)}]
    /\ NextProvider(p)

Post(p) ==
    /\ queue[p] # <<>>
    /\ Took(p) /\ NextProvider(p)
    /\ UNCHANGED <<failures, doubts, netFaults>>

\* An HTTP error or a time-out, before or after the alert was taken: the retry
\* sleeps and posts it again, the last attempt raises and the provider gives up.
PostFails(p) ==
    /\ queue[p] # <<>> /\ netFaults < MaxNetFaults
    /\ netFaults' = netFaults + 1
    /\ doubts' = [doubts EXCEPT ![p][First(p)] = @ + 1]
    /\ Took(p) \/ UNCHANGED posted
    /\ IF attempt[p] < MaxRetries
       THEN attempt' = [attempt EXCEPT ![p] = @ + 1] /\ UNCHANGED <<queue, failures>>
       ELSE GiveUp(p)

\* Jira made the ticket and its answer cannot be parsed: that is not retried.
AnswerUnreadable(p) ==
    /\ queue[p] # <<>> /\ First(p) = "jira" /\ netFaults < MaxNetFaults
    /\ netFaults' = netFaults + 1
    /\ Took(p) /\ GiveUp(p)
    /\ UNCHANGED doubts
=============================================================================
