----------------------------- MODULE MCRequests -----------------------------
(***************************************************************************)
(* Constants of Requests for TLC: one request for each way through the     *)
(* code.                                                                   *)
(***************************************************************************)
EXTENDS Requests

Plain(path, method, token) ==
  [path |-> path, method |-> method, token |-> token, verbose |-> "absent",
   profile_db |-> "absent", validate_db |-> "absent"]

Verbose(param, profile_db, validate_db) ==
  [Plain("/health", "get", NoToken) EXCEPT
     !.verbose = param, !.profile_db = profile_db, !.validate_db = validate_db]

MCRequestTypes ==
  {Plain("/", "get", NoToken),
   Plain("/events", "get", "long"), Plain("/events", "post", NoToken),
   Plain("/all", "get", NoToken), Plain("/all", "patch", "dashed"),
   Plain("/health", "head", NoToken), Plain("/health", "put", NoToken),
   Verbose("true", "true", "unknown"), Verbose("true", "false", "true"),
   Verbose("unknown", "true", "absent")}

\* The defaults: no prefix, and a hash that is short enough for a token.  So the long
\* token and the one that reads like its hash have one key.
MCPrefixed == [token \in Tokens |-> token]
MCHashed == [key \in {"long"} |-> "dashed"]
=============================================================================
