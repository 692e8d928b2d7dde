------------------------------ MODULE RestErrors ------------------------------
(***************************************************************************)
(* The errors that travel through next(): those that say how to answer     *)
(* (RestResponseError and its JSON form, BFFFxError), every other exception *)
(* (a program error), and the two decisions taken on them: what is reported *)
(* to Sentry and what the client is told.                                  *)
(***************************************************************************)
EXTENDS Integers, Sequences

CONSTANTS
    Owner,      \* the sessions whose data a document may hold
    Anonymous   \* no session

ASSUME OwnerAssumption == Anonymous \in Owner

(* The kinds of documents, the identifiers that tell the errors of the      *)
(* service apart (their first eight digits), and the messages of errors:    *)
(* those the service writes and the exceptions it may meet.                 *)
Kind == {"none", "text", "error", "saves", "recommendations"}

Id == {"none", "ok", "3f262c60", "82868c64", "a5d471c4", "a03b69b9", "810b0a84",
       "cd7495a6", "5eb9b295"}

Exception == {"none", "SyntaxError", "request aborted", "unreadable", "networkError",
              "timeout"}

Message == Exception \cup
    {"Not Found", "Bad Implementation", "Internal Server Error",
     "input validation failure",
     "request rejected, consumer_key is required",
     "encountered UNAUTHENTICATED error upstream",
     "Encountered unknown error upstream"}

Faults == Seq({"count", "locale"})

(* What a response body, or the body an error carries, holds: its kind, the *)
(* identifier of the error in it, the parameters it blames, and the session *)
(* whose upstream document is quoted in it.                                 *)
Document == [kind : Kind, id : Id, parameters : Faults, owner : Owner]

NoDocument ==
    [kind |-> "none", id |-> "none", parameters |-> <<>>, owner |-> Anonymous]

SENTRY_BEHAVIOR == {"DEFAULT", "SUPPRESS", "FORCE"}

Error == [rest : BOOLEAN, message : Message, status : Nat, response : Document,
          sentryBehavior : SENTRY_BEHAVIOR]

RestResponseError(message, status, response, sentryBehavior) ==
    [rest |-> TRUE, message |-> message, status |-> status,
     response |-> response, sentryBehavior |-> sentryBehavior]

\* A JSON error whose document quotes the upstream document of owner.
BFFFxErrorQuoting(message, status, id, owner) ==
    RestResponseError(message, status,
        [kind |-> "error", id |-> id, parameters |-> <<>>, owner |-> owner],
        "DEFAULT")

BFFFxError(message, status, id, parameters) ==
    RestResponseError(message, status,
        [kind |-> "error", id |-> id, parameters |-> parameters,
         owner |-> Anonymous],
        "DEFAULT")

\* Any Error that is not a RestResponseError: it has no status and no response.
ProgramError(message) ==
    [rest |-> FALSE, message |-> message, status |-> 0,
     response |-> NoDocument, sentryBehavior |-> "DEFAULT"]

NoError == ProgramError("none")

------------------------------------------------------------------------------

\* Slip: without the last return, only RestResponseErrors are reported.
shouldHandleRestErrorOnly(error) ==
    /\ error.rest
    /\ \/ error.status >= 500 /\ error.sentryBehavior # "SUPPRESS"
       \/ error.sentryBehavior = "FORCE"

shouldHandleError(error) ==
    \/ ~error.rest
    \/ error.status >= 500 /\ error.sentryBehavior # "SUPPRESS"
    \/ error.sentryBehavior = "FORCE"

\* The errors buildBFFFxServer configures for an unknown route and for every
\* exception that is not a RestResponseError.
notFoundError == BFFFxError("Not Found", 404, "a5d471c4", <<>>)

defaultError == BFFFxError("Bad Implementation", 500, "a03b69b9", <<>>)

\* Slip: no redaction, every error answers for itself.
responseErrorUnredacted(error) == error

responseError(error) == IF error.rest THEN error ELSE defaultError
==============================================================================
