---------------------------- MODULE GraphQLErrors ----------------------------
(***************************************************************************)
(* GraphQLErrorHandler: what a route passes to next() when its upstream    *)
(* call has failed.  Of the route's own handlers and the default ones, the *)
(* first that recognises a ClientError decides; every other exception is   *)
(* passed through.                                                         *)
(*                                                                         *)
(* answer is how the call settled: its outcome, and the owner of the       *)
(* cookies it was made with, which its error document may reflect.         *)
(***************************************************************************)
EXTENDS RestErrors

\* The outcomes graphql-request makes a ClientError of: an error document.
isClientError(answer) == answer.outcome \in {"unauthenticated", "clientError"}

unauthenticatedErrorHandler(answer) ==
    IF answer.outcome = "unauthenticated"
    THEN BFFFxErrorQuoting("encountered UNAUTHENTICATED error upstream", 401,
                           "cd7495a6", answer.owner)
    ELSE NoError

unhandledErrorHandler(answer) ==
    BFFFxErrorQuoting("Encountered unknown error upstream", 502, "5eb9b295",
                      answer.owner)

\* Slip: the handler that never returns null is missing.
handlersWithoutTheLast(answer) == <<unauthenticatedErrorHandler(answer)>>

\* Slip: the handler that recognises everything comes first.
handlersSwapped(answer) ==
    <<unhandledErrorHandler(answer), unauthenticatedErrorHandler(answer)>>

\* What the handlers return for the error, in their order.
defaultHandlers(answer) ==
    <<unauthenticatedErrorHandler(answer), unhandledErrorHandler(answer)>>

\* handlers: what the route's own handlers return for the error.  The result is
\* the error to pass to next(), or NoError where the code throws because no
\* handler applied.
GraphQLErrorHandler(answer, handlers) ==
    LET allHandlers == handlers \o defaultHandlers(answer)
        first == {n \in DOMAIN allHandlers :
                    /\ allHandlers[n] # NoError
                    /\ \A m \in DOMAIN allHandlers :
                         m < n => allHandlers[m] = NoError}
    IN  IF ~isClientError(answer) THEN ProgramError(answer.outcome)
        ELSE IF first = {} THEN NoError
        ELSE allHandlers[CHOOSE n \in first : TRUE]
==============================================================================
