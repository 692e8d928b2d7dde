---------------------------- MODULE ProxyContract ----------------------------
(***************************************************************************)
(* What the proxy promises a client: a request is answered once, by an     *)
(* answer that its content alone allows.  Nothing another client does can  *)
(* show in it.                                                             *)
(***************************************************************************)
EXTENDS ProxyAnswers

CONSTANTS Request, NoInput, NoAnswer

VARIABLES asked, answer
vars == <<asked, answer>>

Init ==
    /\ asked = [r \in Request |-> NoInput]
    /\ answer = [r \in Request |-> NoAnswer]

Ask(r) ==
    /\ asked[r] = NoInput \/ answer[r] # NoAnswer
    /\ \E i \in Traffic : asked' = [asked EXCEPT ![r] = i]
    /\ answer' = [answer EXCEPT ![r] = NoAnswer]

Reply(r) ==
    /\ asked[r] # NoInput
    /\ answer[r] = NoAnswer
    /\ answer'[r] \in Answer
    /\ Promised(asked[r], answer'[r])
    /\ answer' = [answer EXCEPT ![r] = answer'[r]]
    /\ UNCHANGED asked

Next == \E r \in Request : Ask(r) \/ Reply(r)

Spec == Init /\ [][Next]_vars
==============================================================================
