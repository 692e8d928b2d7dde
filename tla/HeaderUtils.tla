----------------------------- MODULE HeaderUtils -----------------------------
(***************************************************************************)
(* Which headers the proxy passes on, in either direction.                 *)
(***************************************************************************)
EXTENDS Texts

forwardHeaderBlockSet == {toLowerCase[h] : h \in forwardHeaderBlockList}

\* Slip: the block list, written in mixed case, compared as it stands.
doForwardHeaderMixedCase(name) == name \notin forwardHeaderBlockList

doForwardHeader(name) == toLowerCase[name] \notin forwardHeaderBlockSet
==============================================================================
