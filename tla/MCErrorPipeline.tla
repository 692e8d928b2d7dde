--------------------------- MODULE MCErrorPipeline ---------------------------
(***************************************************************************)
(* Small sets of errors and handlers for ErrorPipeline.                    *)
(***************************************************************************)
EXTENDS ErrorPipeline

MCCustomNotFound == notFoundError
MCCustomDefault == defaultError

\* Errors on both sides of 500, marked in every way, and exceptions with a status of
\* their own and without.
MCRouteErrors ==
    {TextError("input validation failure", status, behavior) :
        status \in {499, 500, 502}, behavior \in SENTRY_BEHAVIOR}
      \cup {ProgramError("unreadable"), ProgramError("SyntaxError")}

\* A handler leaves the error alone, answers in one of two ways, or throws.
Handlers ==
    {NoError, BFFFxError("Not Found", 404, "none", <<>>),
     BFFFxError("Bad Implementation", 503, "none", <<>>), Thrown}

MCRouteHandlers == UNION {[1..n -> Handlers] : n \in 0..2}
==============================================================================
