------------------------------- MODULE Access -------------------------------
(***************************************************************************)
(* Who may do what: the bearer token (internal/api/grpc/auth), the limits  *)
(* per principal (internal/api/grpc/ratelimit) and the policy of a ledger  *)
(* (internal/policy), as functions of a request.                           *)
(***************************************************************************)
EXTENDS Client

CONSTANTS
    ReadRPS,    \* calls a second of one principal that only read
    WriteRPS    \* and of those that write; a limit of 0 is no limit

ASSUME LimitsAssumption == ReadRPS \in Nat /\ WriteRPS \in Nat

-----------------------------------------------------------------------------
(***************************************************************************)
(* A token: whether the header is a bearer header, whether the JWT         *)
(* verifies and has not expired, its subject and its "ledgers" claim.  A   *)
(* claim that is absent or no array is the empty set, and so are those of  *)
(* its elements that are no strings.                                       *)
(***************************************************************************)
Token == [bearer : BOOLEAN, verifies : BOOLEAN, sub : Text,
          claim : SUBSET (Ledgers \cup {"*"})]
NoToken == [bearer |-> FALSE, verifies |-> FALSE, sub |-> NoText, claim |-> {}]

BearerToken(t) == t.bearer

ParseLedgersClaim(claim) ==
    [allLedgers |-> "*" \in claim, ledgers |-> IF "*" \in claim THEN {} ELSE claim]

\* The identity of a token that authenticates.
AuthenticateIdentity(t) ==
    LET scope == ParseLedgersClaim(t.claim)
    IN  [principal |-> t.sub, ledgers |-> scope.ledgers, allLedgers |-> scope.allLedgers]

Authenticates(t) == BearerToken(t) /\ t.verifies /\ t.sub # NoText

CanAccessLedger(identity, ledger) == identity.allLedgers \/ ledger \in identity.ledgers

\* Health checks and reflection need no token.
MethodIsExempt(method) == method = "Check"

-----------------------------------------------------------------------------
(***************************************************************************)
(* The limit and the counter of a call.                                    *)
(***************************************************************************)
WriteMethods ==
    {"Submit", "SubmitForApproval", "ApproveIntent", "Import", "CreateLedger", "SealLedger"}

Class(method) == IF method \in WriteMethods THEN "w" ELSE "r"
LimitFor(method) == IF method \in WriteMethods THEN WriteRPS ELSE ReadRPS

\* Calls without a principal are counted by the address of their peer.
PrincipalKey(t) == IF Authenticates(t) THEN t.sub ELSE <<"ip", "peer">>

-----------------------------------------------------------------------------
(***************************************************************************)
(* Policies: lines that each deny a principal, an operation and accounts.  *)
(* A line is the fields after its first word, and whether that is "deny";  *)
(* "deny all" is [deny |-> TRUE, fields |-> <<<<"all">>>>].  Empty lines   *)
(* and comments are left out.                                              *)
(***************************************************************************)
Line == [deny : BOOLEAN, fields : Seq(Text)]

ValidatePolicy(policy) ==
    \A i \in DOMAIN policy : policy[i].deny /\ Len(policy[i].fields) \in 1..3

\* "*", "prefix:*" (at least the prefix and its colon) or the value itself.
MatchPattern(pattern, value) ==
    \/ pattern = <<"*">>
    \/ /\ Len(pattern) > 1
       /\ pattern[Len(pattern)] = "*"
       /\ Len(value) >= Len(pattern)
       /\ \A i \in 1..Len(pattern) - 1 : value[i] = pattern[i]
    \/ pattern = value

\* Whether a well-formed policy denies the request.
Evaluate(policy, principal, operation, accounts) ==
    \E i \in DOMAIN policy :
        LET fields == policy[i].fields
            Field(n) == IF Len(fields) >= n THEN fields[n] ELSE <<"*">>
        IN  \/ fields = <<<<"all">>>>
            \/ /\ MatchPattern(Field(1), principal)
               /\ MatchPattern(Field(2), <<operation>>)
               /\ \/ Field(3) = <<"*">>
                  \/ \E a \in accounts : MatchPattern(Field(3), a)

\* The accounts classifyIntent finds in an operation: none in a batch.
AccountsTouched(operation) ==
    CASE operation.op = "post" ->
            UNION {{operation.postings[i].source, operation.postings[i].destination} :
                      i \in DOMAIN operation.postings}
      [] operation.op = "authorize" -> {operation.source}
      [] operation.op = "convert" -> {operation.source, operation.destination}
      [] operation.op \in {"set_metadata", "delete_metadata"} ->
            IF operation.target_type = "account" THEN {operation.target} ELSE {}
      [] OTHER -> {}

=============================================================================
